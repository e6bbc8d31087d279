---------------------------- MODULE BusContract ----------------------------
(***************************************************************************)
(* What the dongle's Modbus link to the power supply promises its users    *)
(* (the SCPI parser, the web pages, the main loop and the clients of the   *)
(* Modbus TCP bridge): one request at a time holds the link, and an answer *)
(* goes to the request that holds it and to nobody else.                   *)
(*                                                                         *)
(* A supply that does not answer in time spoils the promise: once a        *)
(* request had to be given up, answers may go astray, each still at most   *)
(* once, until the link starts afresh with a new request.                  *)
(***************************************************************************)
CONSTANTS Requests,     \* the requests users may make
          NoRequest,    \* stands for "nobody holds the link"
          Reliable      \* TRUE: the supply always answers in time

VARIABLES holder,       \* the request that holds the link
          done,         \* deliveries made: receiver and request answered
          sound         \* nothing of a request given up is about

vars == <<holder, done, sound>>

Init == holder = NoRequest /\ done = {} /\ sound = TRUE

Unserved(r) == \A d \in done : d.to # r
Unanswered(r) == \A d \in done : d.of # r

\* Somebody gets hold of the free link, perhaps for a fresh start.
Take == /\ holder = NoRequest
        /\ holder' \in {r \in Requests : Unserved(r) /\ Unanswered(r)}
        /\ done' = done
        /\ sound' \in BOOLEAN /\ (sound => sound')

\* The power supply's answer is given to the request that holds the link.
Deliver == /\ holder # NoRequest
           /\ done' = done \cup {[to |-> holder, of |-> holder]}
           /\ holder' = NoRequest /\ sound' = sound

\* The link becomes free with nothing to hand over: the acknowledgement of a
\* write carries no data for its caller, and neither does a refusal.
Release == holder # NoRequest /\ holder' = NoRequest /\ done' = done /\ sound' = sound

\* The request that holds the link is given up.
GiveUp == /\ ~Reliable
          /\ holder # NoRequest
          /\ holder' = NoRequest /\ done' = done /\ sound' = FALSE

\* Then an answer may go to the wrong request, and free the link from a third.
Misdeliver ==
    /\ ~sound
    /\ \E to, of \in Requests :
          Unserved(to) /\ Unanswered(of) /\ done' = done \cup {[to |-> to, of |-> of]}
    /\ holder' = NoRequest /\ sound' = sound

Next == Take \/ Deliver \/ Release \/ GiveUp \/ Misdeliver

Spec == Init /\ [][Next]_vars

-----------------------------------------------------------------------------
\* What users of a reliable supply may count on: nobody is given the answer to
\* another one's request.
OwnAnswersOnly == Reliable => \A d \in done : d.to = d.of
=============================================================================
