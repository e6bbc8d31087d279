--------------------------- MODULE ParserContract ---------------------------
(***************************************************************************)
(* What the dongle's one SCPI parser promises the two servers that share   *)
(* it.  It works either for one client of the raw socket server or, once   *)
(* it was claimed, for clients of the VXI-11 server.  A raw client starts  *)
(* with nothing of anybody else's in the parser and is answered itself,    *)
(* nobody else.  A VXI client writes only after every raw client has left. *)
(* Nothing is promised about which of the VXI clients that come one after  *)
(* another gets an answer that was left to be read.                        *)
(***************************************************************************)
CONSTANTS RawUsers,     \* clients of the raw socket server
          VxiUsers,     \* clients of the VXI-11 server
          Nobody        \* stands for "no raw client is served"

VARIABLES claimed,      \* the VXI-11 server has the parser
          user,         \* the raw client that is served
          left,         \* whose questions have answers that nobody has read
          given,        \* answers given: receiver, and whose question
          parsed        \* lines parsed: whose parts, and whether complete

vars == <<claimed, user, left, given, parsed>>

Init == claimed = FALSE /\ user = Nobody /\ left = {} /\ given = {} /\ parsed = {}

Claim == claimed' = TRUE /\ UNCHANGED <<user, left, given, parsed>>

Release == claimed' = FALSE /\ UNCHANGED <<user, left, given, parsed>>

\* A raw client comes to an empty parser that nobody else has.
Enter == /\ ~claimed /\ user = Nobody
         /\ user' \in RawUsers /\ left' = {}
         /\ UNCHANGED <<claimed, given, parsed>>

Leave == user' = Nobody /\ UNCHANGED <<claimed, left, given, parsed>>

\* A complete line of c's, and of nobody else's.
Line(c) == parsed' = parsed \cup {[by |-> {c}, whole |-> TRUE]}

\* The raw client's line is answered at once, if it asks for anything; the
\* answer is kept only if the client is being lost.
RawLine == /\ ~claimed /\ user # Nobody /\ Line(user)
           /\ \/ UNCHANGED <<left, given>>
              \/ left' = {} /\ given' = given \cup {[to |-> user, of |-> user]}
              \/ left' = {user} /\ UNCHANGED given
           /\ UNCHANGED <<claimed, user>>

\* The answer to a VXI client's line is left for it to read.
VxiLine == /\ claimed /\ user = Nobody
           /\ \E c \in VxiUsers : Line(c) /\ left' \in {left, left \cup {c}}
           /\ UNCHANGED <<claimed, user, given>>

VxiRead == /\ claimed
           /\ \E c \in VxiUsers : given' = given \cup {[to |-> c, of |-> o] : o \in left}
           /\ left' = {}
           /\ UNCHANGED <<claimed, user, parsed>>

Next == Claim \/ Release \/ Enter \/ Leave \/ RawLine \/ VxiLine \/ VxiRead

Spec == Init /\ [][Next]_vars
=============================================================================
