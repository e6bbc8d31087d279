---------------------------- MODULE RpcContract ----------------------------
(***************************************************************************)
(* What the VXI-11 server promises a client on one connection: the calls   *)
(* are executed one after the other, each once and in the order they were  *)
(* made, and answered in that order before the next one is executed.  The  *)
(* promise ends, until the next connection, when a call was too long or    *)
(* too slow to be taken whole.                                             *)
(***************************************************************************)
EXTENDS Naturals, Sequences

CONSTANT Calls

VARIABLES asked,        \* calls made on this connection
          handled,      \* calls executed
          answered,     \* answers sent
          promised      \* the promise still holds

vars == <<asked, handled, answered, promised>>

Fresh == asked = <<>> /\ handled = <<>> /\ answered = <<>>

Init == Fresh /\ promised = TRUE

Ask == /\ promised
       /\ \E c \in Calls : asked' = Append(asked, c)
       /\ UNCHANGED <<handled, answered, promised>>

Handle == /\ promised
          /\ Len(handled) = Len(answered) /\ Len(handled) < Len(asked)
          /\ handled' = Append(handled, asked[Len(handled) + 1])
          /\ UNCHANGED <<asked, answered, promised>>

Answer == /\ promised /\ Len(answered) < Len(handled)
          /\ answered' = Append(answered, handled[Len(answered) + 1])
          /\ UNCHANGED <<asked, handled, promised>>

Break == promised /\ promised' = FALSE /\ Fresh'

Renew == promised' = TRUE /\ Fresh'

Next == Ask \/ Handle \/ Answer \/ Break \/ Renew

Spec == Init /\ [][Next]_vars

-----------------------------------------------------------------------------
\* What a client may count on while the promise holds: its n-th answer is that
\* of its n-th call, and when it has got it no later call has been executed
\* but the next one.
AnswersInOrder ==
    promised =>
        /\ Len(answered) <= Len(handled) /\ Len(handled) <= Len(asked)
        /\ Len(handled) <= Len(answered) + 1
        /\ \A i \in 1..Len(handled) : handled[i] = asked[i]
        /\ \A i \in 1..Len(answered) : answered[i] = asked[i]
=============================================================================
