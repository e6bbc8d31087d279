-------------------------- MODULE VxiStreamProofs --------------------------
(***************************************************************************)
(* Proofs about VxiStream: the server stays in step with its client, and   *)
(* keeps RpcContract, whatever the size of the buffer, the number and      *)
(* length of the calls, and the way they arrive.                           *)
(***************************************************************************)
EXTENDS VxiStream, SequenceTheorems, TLAPS

-----------------------------------------------------------------------------
(* Sequences.                                                              *)

\* What is left of a sequence after its first k elements.
LEMMA Rest ==
    ASSUME NEW S, NEW s \in Seq(S), NEW k \in 0..Len(s)
    PROVE  /\ SubSeq(s, k + 1, Len(s)) \in Seq(S)
           /\ Len(SubSeq(s, k + 1, Len(s))) = Len(s) - k
           /\ \A i \in 1..(Len(s) - k) : SubSeq(s, k + 1, Len(s))[i] = s[k + i]
<1>1. Len(s) \in Nat
  OBVIOUS
<1>2. \A i \in (k + 1)..Len(s) : s[i] \in S
  BY <1>1
<1>3. SubSeq(s, k + 1, Len(s)) = [i \in 1..(Len(s) - k) |-> s[k + i]]
  BY <1>1
<1>4. QED
  BY <1>1, <1>2, <1>3

\* One sequence behind another.
LEMMA Joined ==
    ASSUME NEW S, NEW s \in Seq(S), NEW t \in Seq(S)
    PROVE  /\ s \o t \in Seq(S) /\ Len(s \o t) = Len(s) + Len(t)
           /\ \A i \in 1..Len(s) : (s \o t)[i] = s[i]
           /\ \A i \in 1..Len(t) : (s \o t)[Len(s) + i] = t[i]
BY ConcatProperties

LEMMA Appended ==
    ASSUME NEW S, NEW s \in Seq(S), NEW e \in S
    PROVE  /\ Append(s, e) \in Seq(S) /\ Len(Append(s, e)) = Len(s) + 1
           /\ \A i \in 1..Len(s) : Append(s, e)[i] = s[i]
           /\ Append(s, e)[Len(s) + 1] = e
BY AppendProperties

LEMMA Empty == \A S : <<>> \in Seq(S) /\ Len(<<>>) = 0
OBVIOUS

-----------------------------------------------------------------------------
(* Calls and packets.                                                      *)

WordOf(i, c) == [is |-> Part(i), of |-> c]

LEMMA BodyIsLong == \A c \in Calls \cup {Garbled} : BodyLength(c) \in Nat /\ BodyLength(c) >= 2
BY BoundAssumption DEF BodyLength, Calls, Garbled

LEMMA PacketIsWords ==
    ASSUME NEW c \in Calls
    PROVE  /\ Packet(c) \in Seq(Words) /\ Len(Packet(c)) = 1 + BodyLength(c)
           /\ \A i \in 1..(1 + BodyLength(c)) : Packet(c)[i] = WordOf(i, c)
<1>1. BodyLength(c) \in Nat
  BY BodyIsLong
<1>2. \A i \in Nat : Part(i) \in {"prefix", "xid", "call", "data"}
  BY DEF Part
<1>3. Packet(c) = [i \in 1..(1 + BodyLength(c)) |-> WordOf(i, c)]
  BY DEF Packet, WordOf
<1>4. \A i \in 1..(1 + BodyLength(c)) : WordOf(i, c) \in Words
  BY <1>1, <1>2 DEF WordOf, Words
<1>5. QED
  BY <1>1, <1>3, <1>4

LEMMA PartsDiffer ==
    /\ Part(1) = "prefix" /\ Part(2) = "xid" /\ Part(3) = "call"
    /\ \A i \in Nat : i >= 4 => Part(i) = "data"
    /\ \A i \in Nat : i >= 2 => Part(i) # "prefix"
BY DEF Part

\* What the server sees of words: as many words, and the words themselves if they
\* are not noise.
Marks == Words \cup {Noise}

LEMMA SeenIsMarks ==
    ASSUME NEW s \in Seq(Marks), NEW b
    PROVE  /\ Seen(s, b) \in Seq(Marks) /\ Len(Seen(s, b)) = Len(s)
           /\ ~b => Seen(s, b) = s
<1>1. CASE b
  <2> DEFINE noise == [i \in 1..Len(s) |-> Noise]
  <2>1. Seen(s, b) = noise
    BY <1>1 DEF Seen
  <2>2. Noise \in Marks /\ Len(s) \in Nat
    BY DEF Marks
  <2>3. noise \in Seq(Marks) /\ Len(noise) = Len(s)
    BY <2>2
  <2>4. QED
    BY <1>1, <2>1, <2>3, Zenon
<1>2. CASE ~b
  BY <1>2 DEF Seen
<1>3. QED
  BY <1>1, <1>2

\* A packet is put behind the tape.
LEMMA PacketIsMarks == \A c \in Calls : Packet(c) \in Seq(Marks)
<1>1. ASSUME NEW c \in Calls
      PROVE  Packet(c) \in Seq(Marks)
  <2> DEFINE packet == Packet(c)
  <2>1. packet \in Seq(Words)
    BY PacketIsWords
  <2> HIDE DEF packet
  <2>2. packet \in Seq(Marks)
    BY <2>1 DEF Marks
  <2>3. QED
    BY <2>2 DEF packet
<1>2. QED
  BY <1>1

-----------------------------------------------------------------------------
(* The inductive invariant.                                                *)

\* After the word at j comes the body of the k-th call, and then the next call or
\* the end of the tape.
Follows(k, j) ==
    LET end == j + BodyLength(asked[k])
    IN  /\ end <= Len(tape)
        /\ \A i \in 1..BodyLength(asked[k]) : tape[j + i] = WordOf(i + 1, asked[k])
        /\ IF end = Len(tape)
           THEN k = Len(asked)
           ELSE k < Len(asked) /\ tape[end + 1] = WordOf(1, asked[k + 1])

\* Calls are told apart by their ids.
IdsRise == \A i \in 1..Len(asked) : asked[i].id = calls - Len(asked) + i

\* Every prefix on the tape is followed by what belongs to it.
Chain == \A j \in 1..Len(tape) :
            tape[j].is = "prefix" =>
                \E k \in 1..Len(asked) : tape[j].of = asked[k] /\ Follows(k, j)

\* The last call of which the prefix has been read.
Current == Len(handled) + (IF phase \in {"body", "handle"} THEN 1 ELSE 0)

\* Calls are executed in order, answered one by one, and none that was not made.
Counts ==
    /\ \A i \in 1..Len(handled) : handled[i] = asked[i]
    /\ Len(handled) = Len(answered) + (IF phase \in {"reply", "hung"} THEN 1 ELSE 0)
    /\ Current <= Len(asked)

\* What the tape begins with.
Front ==
    IF phase = "body"
    THEN Follows(Current, 0)
    ELSE IF tape = <<>>
         THEN Current = Len(asked)
         ELSE Current < Len(asked) /\ tape[1] = WordOf(1, asked[Current + 1])

\* What is to be read of a body is all of it, and fits.
NeedIsBody ==
    phase = "body" => need = BodyLength(asked[Current]) /\ need <= BufferWords

\* The buffer holds the call that is executed or answered.
Holds(c) == /\ BodyLength(c) <= BufferWords
            /\ \A i \in 1..BodyLength(c) : buffer[i] = WordOf(i + 1, c)

BufferHolds == phase \in {"handle", "reply", "hung"} => Holds(asked[Current])

Sound == IdsRise /\ Chain /\ Counts /\ Front /\ NeedIsBody /\ BufferHolds

NothingKept == spoiled => asked = <<>> /\ handled = <<>> /\ answered = <<>>

IInv == TypeOK /\ NothingKept /\ (~spoiled => Sound)

-----------------------------------------------------------------------------
(* Types.                                                                  *)

LEMMA TakeType ==
    ASSUME TypeOK, NEW k \in 0..arrived, Take(k)
    PROVE  tape' \in Seq(Marks) /\ arrived' \in 0..Len(tape')
<1>1. Len(tape) \in Nat /\ arrived \in 0..Len(tape) /\ k \in 0..Len(tape)
  BY DEF TypeOK
<1> DEFINE left == SubSeq(tape, k + 1, Len(tape))
<1>2. left \in Seq(Marks) /\ Len(left) = Len(tape) - k
  <2>1. tape \in Seq(Marks)
    BY DEF TypeOK, Marks
  <2>2. QED
    BY <1>1, <2>1, Rest
<1>3. tape' = Seen(left, spoiled') /\ arrived' = arrived - k
  BY DEF Take
<1> HIDE DEF left
<1>4. tape' \in Seq(Marks) /\ Len(tape') = Len(left)
  BY <1>2, <1>3, SeenIsMarks
<1>5. QED
  BY <1>1, <1>2, <1>3, <1>4

LEMMA StoreType ==
    ASSUME TypeOK, NEW k \in 0..arrived, k <= BufferWords, Store(k)
    PROVE  /\ tape' \in Seq(Marks) /\ arrived' \in 0..Len(tape')
           /\ buffer' \in [1..BufferWords -> Marks \cup {Blank}]
           /\ phase' = "handle"
<1>1. tape' \in Seq(Marks) /\ arrived' \in 0..Len(tape')
  BY TakeType DEF Store
<1>2. \A i \in 1..k : tape[i] \in Marks
  BY DEF TypeOK, Marks
<1>3. QED
  BY <1>1, <1>2, SizeAssumption DEF TypeOK, Store, Marks

LEMMA ForgetType == Forget => /\ conn' = "none" /\ tape' \in Seq(Marks) /\ arrived' \in 0..Len(tape')
                              /\ need' \in 0..BufferWords /\ asked' \in Seq(Calls)
                              /\ handled' \in Entries /\ answered' \in Entries
                              /\ spoiled' \in {TRUE, FALSE}
<1>1. 0 \in 0..0 /\ 0 \in 0..BufferWords
  BY SizeAssumption
<1>2. QED
  BY <1>1, Empty, Zenon DEF Forget, Entries

LEMMA KeepType == TypeOK /\ (Keep \/ Spoil) =>
                      /\ asked' \in Seq(Calls) /\ handled' \in Entries
                      /\ answered' \in Entries /\ spoiled' \in BOOLEAN
BY Empty, Zenon DEF TypeOK, Keep, Spoil, Entries

LEMMA NoteType ==
    ASSUME TypeOK, NEW S, NEW log \in Seq(S), NEW c \in S
    PROVE  Note(log, c) \in Seq(S)
BY DEF Note

LEMMA RequestedType == TypeOK => /\ Requested \in Calls \cup {Garbled}
                                 /\ Executed \in Calls \cup {Garbled}
                                 /\ Response \in Calls \cup {Garbled}
<1> SUFFICES ASSUME TypeOK PROVE /\ Requested \in Calls \cup {Garbled}
                                 /\ Executed \in Calls \cup {Garbled}
                                 /\ Response \in Calls \cup {Garbled}
  OBVIOUS
<1>1. buffer[2] \in Marks \cup {Blank}
  BY SizeAssumption DEF TypeOK, Marks
<1>2. Requested \in Calls \cup {Garbled}
  BY <1>1 DEF Requested, Marks, Words, Blank, Noise
<1>3. QED
  BY <1>2 DEF Executed, Response

LEMMA InitType == Init => TypeOK
<1>1. Cleared \in [1..BufferWords -> Words \cup {Blank, Noise}]
  BY DEF Cleared
<1>2. QED
  <2>1. 0 \in 0..0 /\ 0 \in 0..BufferWords /\ 0 \in 0..MaxCalls
    BY SizeAssumption, BoundAssumption
  <2>2. QED
    BY <1>1, <2>1, Empty, Zenon DEF Init, TypeOK, Entries

\* An answer that leaves the connection open.
Answered == /\ answered' = Note(answered, Response)
            /\ UNCHANGED <<network, need, asked, handled, spoiled>>

LEMMA NextType ==
    ASSUME TypeOK, [Next]_vars
    PROVE  TypeOK'
<1> USE DEF network, history
<1>1. CASE GetPrefix
  <2>1. 1 \in 0..arrived
    BY <1>1 DEF TypeOK, GetPrefix
  <2>2. tape' \in Seq(Marks) /\ arrived' \in 0..Len(tape')
    BY <1>1, <2>1, TakeType DEF GetPrefix
  <2>3. tape[1] \in Words \cup {Noise}
    BY <2>1 DEF TypeOK
  <2>4. Lengths(tape[1]) \subseteq Nat
    BY <2>3, BodyIsLong, SizeAssumption DEF Lengths, Words, Noise
  <2>5. PICK len \in Lengths(tape[1]) :
            /\ phase' = CASE len = 0 -> "loop" [] len = 1 -> "handle" [] OTHER -> "body"
            /\ need' = IF len > BufferWords THEN BufferWords ELSE len
            /\ IF len > BufferWords THEN Spoil ELSE Keep
    BY <1>1 DEF GetPrefix
  <2>6. need' \in 0..BufferWords
    BY <2>4, <2>5, SizeAssumption
  <2>7. phase' \in {"loop", "body", "handle", "reply", "hung"}
    BY <2>5
  <2>8. QED
    BY <1>1, <2>2, <2>5, <2>6, <2>7, KeepType DEF TypeOK, Marks, GetPrefix
<1>2. CASE GetBody
  <2>1. need \in 0..arrived /\ need <= BufferWords
    BY <1>2 DEF TypeOK, GetBody
  <2>2. QED
    BY <1>2, <2>1, StoreType, KeepType DEF TypeOK, Marks, GetBody, Store
<1>3. CASE BodyTimeout
  <2>1. arrived \in 0..arrived /\ arrived <= BufferWords
    <3>1. Len(tape) \in Nat /\ need \in Nat /\ need <= BufferWords /\ BufferWords \in Nat
      BY SizeAssumption DEF TypeOK
    <3>2. QED
      BY <1>3, <3>1 DEF TypeOK, BodyTimeout
  <2>2. QED
    BY <1>3, <2>1, StoreType, KeepType DEF TypeOK, Marks, BodyTimeout, Store
<1>4. CASE HandlePacket
  <2>1. handled' \in Entries
    BY <1>4, RequestedType, NoteType DEF TypeOK, HandlePacket, Entries
  <2>2. Terminated \in [1..BufferWords -> Words \cup {Blank, Noise}]
    BY DEF TypeOK, Terminated
  <2>3. buffer' \in {buffer, Terminated}
    BY <1>4 DEF HandlePacket
  <2>4. QED
    BY <1>4, <2>1, <2>2, <2>3 DEF TypeOK, HandlePacket
<1>5. CASE Send
  <2>1. CASE Forget
    BY <1>5, <2>1, ForgetType DEF TypeOK, Marks, Send
  <2>2. CASE Answered
    <3>1. answered' \in Entries
      BY <1>5, <2>2, RequestedType, NoteType DEF TypeOK, Answered, Entries
    <3>2. QED
      BY <1>5, <2>2, <3>1 DEF TypeOK, Send, Answered
  <2>3. QED
    BY <1>5, <2>1, <2>2 DEF Send, Answered
<1>6. CASE Hang
  BY <1>6 DEF TypeOK, Hang
<1>7. CASE Watchdog
  <2>1. Cleared \in [1..BufferWords -> Words \cup {Blank, Noise}]
    BY DEF Cleared
  <2>2. QED
    BY <1>7, <2>1, ForgetType DEF TypeOK, Marks, Watchdog
<1>8. CASE Close \/ Kick
  BY <1>8, ForgetType DEF TypeOK, Marks, Close, Kick
<1>9. ASSUME NEW c \in Calls, Ask(c)
      PROVE  TypeOK'
  <2>1. tape' \in Seq(Marks) /\ Len(tape') = Len(tape) + Len(Packet(c))
    <3> DEFINE packet == Packet(c)
               seen == Seen(packet, spoiled)
    <3>1. packet \in Seq(Marks) /\ tape \in Seq(Marks)
      BY PacketIsMarks DEF TypeOK, Marks
    <3>2. tape' = tape \o seen
      BY <1>9 DEF Ask
    <3> HIDE DEF packet
    <3>3. seen \in Seq(Marks) /\ Len(seen) = Len(packet)
      BY <3>1, SeenIsMarks
    <3> HIDE DEF seen
    <3>4. tape \o seen \in Seq(Marks) /\ Len(tape \o seen) = Len(tape) + Len(seen)
      BY <3>1, <3>3, Joined
    <3>5. tape' \in Seq(Marks) /\ Len(tape') = Len(tape) + Len(packet)
      BY <3>2, <3>3, <3>4, Zenon
    <3>6. QED
      BY <3>5 DEF packet
  <2>2. Len(tape) \in Nat /\ Len(Packet(c)) \in Nat
    BY PacketIsWords DEF TypeOK
  <2>3. arrived' \in 0..Len(tape')
    BY <1>9, <2>1, <2>2 DEF TypeOK, Ask
  <2>4. asked' \in Seq(Calls)
    BY <1>9, NoteType DEF TypeOK, Ask
  <2>5. calls' \in 0..MaxCalls
    BY <1>9, BoundAssumption DEF TypeOK, Ask
  <2>6. QED
    BY <1>9, <2>1, <2>3, <2>4, <2>5 DEF TypeOK, Marks, Ask
<1>10. CASE Connect \/ Arrive \/ Stall \/ Vanish \/ UNCHANGED vars
  <2>1. Len(tape) \in Nat
    BY DEF TypeOK
  <2>2. QED
    BY <1>10, <2>1 DEF TypeOK, Connect, Arrive, Stall, Vanish, vars
<1>11. QED
  BY <1>1, <1>2, <1>3, <1>4, <1>5, <1>6, <1>7, <1>8, <1>9, <1>10 DEF Next, Server

-----------------------------------------------------------------------------
(* The tape.                                                               *)

LEMMA AskedLong == TypeOK => /\ Len(asked) \in Nat /\ Len(handled) \in Nat /\ Len(tape) \in Nat
                             /\ Len(answered) \in Nat /\ calls \in Nat /\ arrived \in 0..Len(tape)
                             /\ need \in Nat /\ BufferWords \in Nat
                             /\ \A k \in 1..Len(asked) : /\ asked[k] \in Calls
                                                        /\ BodyLength(asked[k]) \in Nat
                                                        /\ BodyLength(asked[k]) >= 2
<1> SUFFICES ASSUME TypeOK
             PROVE  /\ Len(asked) \in Nat /\ Len(handled) \in Nat /\ Len(tape) \in Nat
                    /\ Len(answered) \in Nat /\ calls \in Nat /\ arrived \in 0..Len(tape)
                    /\ need \in Nat /\ BufferWords \in Nat
                    /\ \A k \in 1..Len(asked) : /\ asked[k] \in Calls
                                               /\ BodyLength(asked[k]) \in Nat
                                               /\ BodyLength(asked[k]) >= 2
  OBVIOUS
<1>1. \A k \in 1..Len(asked) : asked[k] \in Calls
  BY DEF TypeOK
<1>2. QED
  BY <1>1, BodyIsLong, SizeAssumption, BoundAssumption DEF TypeOK, Entries

\* An id belongs to one call.
LEMMA OneId ==
    ASSUME TypeOK, IdsRise, NEW i \in 1..Len(asked), NEW k \in 1..Len(asked), asked[i] = asked[k]
    PROVE  i = k
<1>1. asked[i].id = calls - Len(asked) + i /\ asked[k].id = calls - Len(asked) + k
  BY DEF IdsRise
<1>2. calls - Len(asked) + i = calls - Len(asked) + k
  BY <1>1
<1>3. calls \in Nat /\ Len(asked) \in Nat /\ i \in Nat /\ k \in Nat
  BY AskedLong
<1>4. QED
  BY <1>2, <1>3

\* Reading words takes them off the tape, and leaves the others as they are.
LEMMA TakeIsRest ==
    ASSUME TypeOK, NEW n \in 0..Len(tape), Take(n), ~spoiled'
    PROVE  /\ Len(tape') = Len(tape) - n
           /\ \A i \in 1..(Len(tape) - n) : tape'[i] = tape[n + i]
<1>1. tape \in Seq(Marks)
  BY DEF TypeOK, Marks
<1>2. tape' = SubSeq(tape, n + 1, Len(tape))
  BY DEF Take, Seen
<1>3. QED
  BY <1>1, <1>2, Rest

LEMMA ShiftFollows ==
    ASSUME TypeOK, NEW n \in 0..arrived, Take(n), ~spoiled', UNCHANGED asked,
           NEW k \in 1..Len(asked), NEW j \in Nat, Follows(k, n + j)
    PROVE  Follows(k, j)'
<1> DEFINE b == BodyLength(asked[k])
<1>1. b \in Nat /\ n \in 0..Len(tape) /\ n \in Nat /\ Len(tape) \in Nat
  BY AskedLong
<1>2. Len(tape') = Len(tape) - n /\ \A i \in 1..(Len(tape) - n) : tape'[i] = tape[n + i]
  BY <1>1, TakeIsRest
<1>3. /\ n + j + b <= Len(tape)
      /\ \A i \in 1..b : tape[n + j + i] = WordOf(i + 1, asked[k])
      /\ IF n + j + b = Len(tape) THEN k = Len(asked)
         ELSE k < Len(asked) /\ tape[n + j + b + 1] = WordOf(1, asked[k + 1])
  BY DEF Follows
<1>4. \A i \in 1..b : tape'[j + i] = WordOf(i + 1, asked[k])
  <2>1. \A i \in 1..b : j + i \in 1..(Len(tape) - n) /\ n + (j + i) = n + j + i
    BY <1>1, <1>3
  <2>2. QED
    BY <1>2, <1>3, <2>1
<1>5. CASE n + j + b = Len(tape)
  <2>1. j + b = Len(tape') /\ k = Len(asked)
    BY <1>1, <1>2, <1>3, <1>5
  <2>2. QED
    BY <1>1, <1>4, <2>1 DEF Follows
<1>6. CASE n + j + b # Len(tape)
  <2>1. j + b < Len(tape') /\ j + b + 1 \in 1..(Len(tape) - n) /\ n + (j + b + 1) = n + j + b + 1
    <3>1. n + j + b <= Len(tape) /\ n + j + b # Len(tape) /\ Len(tape') = Len(tape) - n
      BY <1>2, <1>3, <1>6
    <3> DEFINE all == Len(tape)
               rest == Len(tape')
    <3>2. /\ n \in Nat /\ j \in Nat /\ b \in Nat /\ all \in Nat
          /\ n + j + b <= all /\ n + j + b # all /\ rest = all - n
      BY <1>1, <3>1
    <3> HIDE DEF b, all, rest
    <3>3. j + b < rest
      BY <3>2
    <3>4. j + b + 1 \in 1..(all - n)
      BY <3>2
    <3>5. n + (j + b + 1) = n + j + b + 1
      BY <3>2
    <3>6. QED
      BY <3>3, <3>4, <3>5 DEF all, rest
  <2>2. k < Len(asked) /\ tape'[j + b + 1] = WordOf(1, asked[k + 1])
    BY <1>2, <1>3, <1>6, <2>1
  <2>3. QED
    <3>1. j + b <= Len(tape') /\ j + b # Len(tape')
      BY <1>1, <1>2, <2>1
    <3>2. QED
      BY <1>4, <2>2, <3>1 DEF Follows
<1>7. QED
  BY <1>5, <1>6

LEMMA ShiftChain ==
    ASSUME TypeOK, Chain, NEW n \in 0..arrived, Take(n), ~spoiled', UNCHANGED asked
    PROVE  Chain'
<1>1. n \in 0..Len(tape) /\ n \in Nat /\ Len(tape) \in Nat
  BY AskedLong
<1>2. Len(tape') = Len(tape) - n /\ \A i \in 1..(Len(tape) - n) : tape'[i] = tape[n + i]
  BY <1>1, TakeIsRest
<1>3. ASSUME NEW j \in 1..Len(tape'), tape'[j].is = "prefix"
      PROVE  \E k \in 1..Len(asked') : tape'[j].of = asked'[k] /\ Follows(k, j)'
  <2>1. n + j \in 1..Len(tape) /\ tape'[j] = tape[n + j] /\ j \in Nat
    BY <1>1, <1>2
  <2>2. PICK k \in 1..Len(asked) : tape[n + j].of = asked[k] /\ Follows(k, n + j)
    BY <1>3, <2>1 DEF Chain
  <2>3. Follows(k, j)'
    BY <2>1, <2>2, ShiftFollows
  <2>4. QED
    BY <2>1, <2>2, <2>3
<1>4. QED
  BY <1>3 DEF Chain

\* One more call at the end changes nothing before it.
LEMMA ExtendFollows ==
    ASSUME TypeOK, NEW c \in Calls, tape' = tape \o Packet(c), asked' = Append(asked, c),
           NEW k \in 1..Len(asked), NEW j \in Nat, Follows(k, j)
    PROVE  Follows(k, j)'
<1> DEFINE b == BodyLength(asked[k])
<1>1. b \in Nat /\ Len(tape) \in Nat /\ Len(asked) \in Nat /\ BodyLength(c) \in Nat
  BY AskedLong, BodyIsLong
<1>2. /\ Len(tape') = Len(tape) + 1 + BodyLength(c)
      /\ \A i \in 1..Len(tape) : tape'[i] = tape[i]
      /\ tape'[Len(tape) + 1] = WordOf(1, c)
  <2>1. 1 \in 1..(1 + BodyLength(c))
    BY <1>1
  <2>2. tape \in Seq(Marks)
    BY DEF TypeOK, Marks
  <2>3. /\ Packet(c) \in Seq(Marks) /\ Len(Packet(c)) = 1 + BodyLength(c)
        /\ Packet(c)[1] = WordOf(1, c)
    BY <2>1, PacketIsWords, PacketIsMarks
  <2>4. /\ Len(tape') = Len(tape) + Len(Packet(c))
        /\ \A i \in 1..Len(tape) : tape'[i] = tape[i]
        /\ \A i \in 1..Len(Packet(c)) : tape'[Len(tape) + i] = Packet(c)[i]
    <3> DEFINE packet == Packet(c)
    <3>1. packet \in Seq(Marks) /\ tape' = tape \o packet
      BY <2>3
    <3> HIDE DEF packet
    <3>2. /\ Len(tape') = Len(tape) + Len(packet)
          /\ \A i \in 1..Len(tape) : tape'[i] = tape[i]
          /\ \A i \in 1..Len(packet) : tape'[Len(tape) + i] = packet[i]
      BY <2>2, <3>1, Joined
    <3>3. QED
      BY <3>2 DEF packet
  <2>5. tape'[Len(tape) + 1] = Packet(c)[1]
    BY <2>1, <2>3, <2>4, Zenon
  <2>6. Len(tape) + (1 + BodyLength(c)) = Len(tape) + 1 + BodyLength(c)
    BY <1>1
  <2>7. QED
    BY <2>3, <2>4, <2>5, <2>6, Zenon
<1>3. /\ Len(asked') = Len(asked) + 1 /\ asked'[Len(asked) + 1] = c
      /\ \A i \in 1..Len(asked) : asked'[i] = asked[i]
  BY Appended DEF TypeOK
<1>4. /\ j + b <= Len(tape)
      /\ \A i \in 1..b : tape[j + i] = WordOf(i + 1, asked[k])
      /\ IF j + b = Len(tape) THEN k = Len(asked)
         ELSE k < Len(asked) /\ tape[j + b + 1] = WordOf(1, asked[k + 1])
  BY DEF Follows
<1>5. \A i \in 1..b : tape'[j + i] = WordOf(i + 1, asked'[k])
  <2>1. \A i \in 1..b : j + i \in 1..Len(tape)
    BY <1>1, <1>4
  <2>2. QED
    BY <1>2, <1>3, <1>4, <2>1
<1>6. j + b < Len(tape') /\ k < Len(asked') /\ asked'[k] = asked[k]
  BY <1>1, <1>2, <1>3, <1>4, SMTT(30)
<1>7. tape'[j + b + 1] = WordOf(1, asked'[k + 1])
  <2>1. CASE j + b = Len(tape)
    BY <1>2, <1>3, <1>4, <2>1
  <2>2. CASE j + b # Len(tape)
    <3>1. j + b + 1 \in 1..Len(tape) /\ k + 1 \in 1..Len(asked)
      BY <1>1, <1>4, <2>2
    <3>2. QED
      BY <1>2, <1>3, <1>4, <2>2, <3>1
  <2>3. QED
    BY <2>1, <2>2
<1>8. QED
  BY <1>1, <1>5, <1>6, <1>7, SMTT(30) DEF Follows

-----------------------------------------------------------------------------
(* Each step keeps the server in step.                                     *)

\* A connection starts in step.
LEMMA ForgetSound == TypeOK /\ Forget /\ phase' = "loop" => Sound'
<1> SUFFICES ASSUME TypeOK, Forget, phase' = "loop" PROVE Sound'
  OBVIOUS
<1>1. /\ asked' = <<>> /\ handled' = <<>> /\ answered' = <<>> /\ tape' = <<>>
      /\ Len(asked') = 0 /\ Len(handled') = 0 /\ Len(answered') = 0 /\ Len(tape') = 0
  BY DEF Forget
<1>2. Current' = 0
  BY <1>1 DEF Current
<1>3. IdsRise' /\ Chain' /\ Counts'
  BY <1>1, <1>2 DEF IdsRise, Chain, Counts
<1>4. Front' /\ NeedIsBody' /\ BufferHolds'
  BY <1>1, <1>2 DEF Front, NeedIsBody, BufferHolds
<1>5. QED
  BY <1>3, <1>4 DEF Sound

\* The prefix that is read is that of the next call, and its body follows.
LEMMA PrefixSound ==
    ASSUME TypeOK, Sound, GetPrefix, ~spoiled'
    PROVE  Sound'
<1> DEFINE n == Len(handled) + 1
<1>1. phase = "loop" /\ arrived > 0 /\ Take(1) /\ Len(tape) \in Nat /\ arrived \in 0..Len(tape)
      /\ Len(handled) \in Nat /\ Len(asked) \in Nat
  BY AskedLong DEF GetPrefix
<1>2. tape # <<>> /\ 1 \in 1..Len(tape) /\ 1 \in 0..arrived
  BY <1>1
<1>3. Current = Len(handled)
  BY <1>1 DEF Current
<1>4. n \in 1..Len(asked) /\ tape[1] = WordOf(1, asked[n])
  BY <1>1, <1>2, <1>3 DEF Sound, Front
<1>5. /\ asked[n] \in Calls /\ BodyLength(asked[n]) \in Nat /\ BodyLength(asked[n]) >= 2
      /\ BufferWords \in Nat
  BY <1>4, AskedLong
<1>6. Lengths(tape[1]) = {BodyLength(asked[n])}
  BY <1>4, PartsDiffer DEF Lengths, WordOf
<1>7. /\ phase' = "body" /\ need' = BodyLength(asked[n]) /\ need' <= BufferWords
      /\ UNCHANGED <<asked, handled, answered, spoiled, buffer, calls>>
  <2>1. PICK len \in Lengths(tape[1]) :
            /\ phase' = CASE len = 0 -> "loop" [] len = 1 -> "handle" [] OTHER -> "body"
            /\ need' = IF len > BufferWords THEN BufferWords ELSE len
            /\ IF len > BufferWords THEN Spoil ELSE Keep
    BY DEF GetPrefix
  <2>2. len = BodyLength(asked[n])
    BY <1>6, <2>1
  <2>3. ~(len > BufferWords)
    BY <2>1 DEF Spoil
  <2>4. QED
    BY <1>5, <2>1, <2>2, <2>3 DEF Keep, GetPrefix
<1>8. Follows(n, 1)
  <2>1. tape[1].is = "prefix" /\ tape[1].of = asked[n]
    BY <1>4, PartsDiffer DEF WordOf
  <2>2. PICK k \in 1..Len(asked) : tape[1].of = asked[k] /\ Follows(k, 1)
    BY <1>2, <2>1 DEF Sound, Chain
  <2>3. k = n
    BY <1>4, <2>1, <2>2, OneId DEF Sound
  <2>4. QED
    BY <2>2, <2>3
<1>9. Follows(n, 0)'
  <2>1. Follows(n, 1 + 0)
    BY <1>8
  <2>2. QED
    BY <1>1, <1>2, <1>4, <1>7, <2>1, ShiftFollows
<1>10. Chain'
  BY <1>1, <1>2, <1>7, ShiftChain DEF Sound
<1>11. Current' = n
  BY <1>7 DEF Current
<1>12. Counts' /\ IdsRise'
  BY <1>1, <1>4, <1>7, <1>11 DEF Sound, Counts, IdsRise
<1>13. Front' /\ NeedIsBody' /\ BufferHolds'
  BY <1>7, <1>9, <1>11 DEF Front, NeedIsBody, BufferHolds
<1>14. QED
  BY <1>10, <1>12, <1>13 DEF Sound

\* The body that is read is that of the call whose prefix was read.
LEMMA BodySound ==
    ASSUME TypeOK, Sound, GetBody, ~spoiled'
    PROVE  Sound'
<1> DEFINE n == Current
<1> DEFINE b == BodyLength(asked[n])
<1>1. /\ phase = "body" /\ need <= arrived /\ Store(need) /\ phase' = "handle"
      /\ UNCHANGED <<asked, handled, answered, spoiled, calls, need>>
  BY DEF GetBody, Store, Keep
<1>2. n = Len(handled) + 1 /\ n \in 1..Len(asked) /\ Len(handled) \in Nat /\ Len(asked) \in Nat
  BY <1>1, AskedLong DEF Current, Sound, Counts
<1>3. b \in Nat /\ b >= 2 /\ need = b /\ b <= BufferWords /\ BufferWords \in Nat
      /\ Len(tape) \in Nat /\ arrived \in 0..Len(tape)
  BY <1>1, <1>2, AskedLong DEF Sound, NeedIsBody
<1>4. need \in 0..arrived /\ Take(need)
  BY <1>1, <1>3 DEF Store
<1>5. /\ b <= Len(tape)
      /\ \A i \in 1..b : tape[i] = WordOf(i + 1, asked[n])
      /\ IF b = Len(tape) THEN n = Len(asked)
         ELSE n < Len(asked) /\ tape[b + 1] = WordOf(1, asked[n + 1])
  <2>1. Follows(n, 0)
    BY <1>1 DEF Sound, Front
  <2>2. 0 + b = b /\ \A i \in 1..b : 0 + i = i
    BY <1>3
  <2>3. QED
    BY <2>1, <2>2 DEF Follows
<1>6. Chain'
  BY <1>1, <1>4, ShiftChain DEF Sound
<1>7. Current' = n
  BY <1>1 DEF Current
<1>8. BufferHolds'
  <2>1. \A i \in 1..b : buffer'[i] = WordOf(i + 1, asked[n])
    BY <1>1, <1>3, <1>5 DEF Store
  <2>2. QED
    BY <1>1, <1>3, <1>7, <2>1 DEF BufferHolds, Holds
<1>9. Front'
  <2>1. /\ Len(tape') = Len(tape) - b /\ tape' \in Seq(Marks)
        /\ \A i \in 1..(Len(tape) - b) : tape'[i] = tape[b + i]
    <3>1. need \in 0..Len(tape)
      BY <1>3, <1>5
    <3>2. Len(tape') = Len(tape) - need /\ \A i \in 1..(Len(tape) - need) : tape'[i] = tape[need + i]
      BY <1>4, <3>1, TakeIsRest
    <3>3. tape' \in Seq(Marks)
      BY <1>3, <1>4, TakeType
    <3>4. need = b
      BY <1>3
    <3>5. QED
      BY <3>2, <3>3, <3>4, Zenon
  <2>2. CASE b = Len(tape)
    <3>1. tape' = <<>>
      BY <1>3, <2>1, <2>2, EmptySeq
    <3>2. n = Len(asked)
      BY <1>5, <2>2
    <3>3. QED
      BY <1>1, <1>7, <3>1, <3>2 DEF Front
  <2>3. CASE b # Len(tape)
    <3>1. 1 \in 1..(Len(tape) - b)
      BY <1>3, <1>5, <2>3
    <3>2. tape'[1] = tape[b + 1] /\ tape' # <<>>
      BY <1>3, <2>1, <3>1
    <3>3. QED
      BY <1>1, <1>5, <1>7, <2>3, <3>2 DEF Front
  <2>4. QED
    BY <2>2, <2>3
<1>10. Counts' /\ IdsRise' /\ NeedIsBody'
  BY <1>1, <1>2, <1>7 DEF Sound, Counts, IdsRise, NeedIsBody
<1>11. QED
  BY <1>6, <1>8, <1>9, <1>10 DEF Sound

\* What is in the buffer is what is executed and answered.
LEMMA BufferIsCall ==
    ASSUME TypeOK, NEW c \in Calls, Holds(c)
    PROVE  Requested = c /\ Executed = c /\ Response = c /\ buffer[2].is = "call"
<1>1. BodyLength(c) \in Nat /\ BodyLength(c) >= 2 /\ BodyLength(c) <= BufferWords /\ BufferWords \in Nat
  BY BodyIsLong, SizeAssumption DEF Holds
<1>2. \A i \in 1..BodyLength(c) : buffer[i] = WordOf(i + 1, c)
  BY DEF Holds
<1>3. buffer[1] = [is |-> "xid", of |-> c]
  <2>1. 1 \in 1..BodyLength(c) /\ 1 + 1 = 2
    BY <1>1
  <2>2. QED
    BY <1>2, <2>1, PartsDiffer DEF WordOf
<1>4. buffer[2] = [is |-> "call", of |-> c]
  <2>1. 2 \in 1..BodyLength(c) /\ 2 + 1 = 3
    BY <1>1
  <2>2. QED
    BY <1>2, <2>1, PartsDiffer DEF WordOf
<1>5. Requested = c
  BY <1>4 DEF Requested
<1>6. OwnData
  <2>1. ASSUME NEW i \in 3..BodyLength(c)
        PROVE  i <= BufferWords /\ buffer[i] = [is |-> "data", of |-> c]
    <3>1. i \in 1..BodyLength(c) /\ i <= BufferWords /\ i + 1 \in Nat /\ i + 1 >= 4
      BY <1>1
    <3>2. Part(i + 1) = "data"
      BY <3>1, PartsDiffer
    <3>3. QED
      BY <1>2, <3>1, <3>2 DEF WordOf
  <2>2. QED
    BY <1>5, <2>1 DEF OwnData
<1>7. Executed = c
  BY <1>4, <1>5, <1>6 DEF Executed
<1>8. QED
  BY <1>3, <1>4, <1>5, <1>7 DEF Response

LEMMA HandleSound ==
    ASSUME TypeOK, Sound, HandlePacket, ~spoiled
    PROVE  /\ Sound'
           /\ Len(handled) = Len(answered) /\ Len(handled) < Len(asked)
           /\ handled' = Append(handled, asked[Len(handled) + 1])
<1> DEFINE n == Current
<1>1. /\ phase = "handle" /\ phase' = "reply"
      /\ UNCHANGED <<tape, need, calls, asked, answered, spoiled>>
  BY DEF HandlePacket, network
<1>2. n = Len(handled) + 1 /\ n \in 1..Len(asked) /\ Len(handled) \in Nat /\ Len(asked) \in Nat
      /\ Len(handled) = Len(answered)
  BY <1>1, AskedLong DEF Current, Sound, Counts
<1>3. asked[n] \in Calls /\ Holds(asked[n])
  BY <1>1, <1>2, AskedLong DEF Sound, BufferHolds
<1>4. Executed = asked[n] /\ Requested = asked[n]
  BY <1>3, BufferIsCall
<1>5. handled' = Append(handled, asked[n])
  BY <1>4 DEF HandlePacket, Note
<1>6. /\ Len(handled') = n /\ handled'[n] = asked[n]
      /\ \A i \in 1..Len(handled) : handled'[i] = handled[i]
  <2>1. handled \in Entries /\ asked[n] \in Calls \cup {Garbled}
    BY <1>3 DEF TypeOK
  <2>2. QED
    BY <1>2, <1>5, <2>1, Appended DEF Entries
<1>7. Current' = n
  BY <1>1, <1>2, <1>6 DEF Current
<1>8. Counts'
  <2>1. \A i \in 1..Len(handled') : handled'[i] = asked'[i]
    <3>1. ASSUME NEW i \in 1..n
          PROVE  handled'[i] = asked[i]
      <4>1. i = n \/ i \in 1..Len(handled)
        BY <1>2
      <4>2. \A k \in 1..Len(handled) : handled[k] = asked[k]
        BY DEF Sound, Counts
      <4>3. QED
        BY <1>6, <4>1, <4>2
    <3>2. QED
      BY <1>1, <1>6, <3>1
  <2>2. QED
    BY <1>1, <1>2, <1>6, <1>7, <2>1, AskedLong DEF Counts
<1>9. BufferHolds'
  <2>1. BodyLength(asked[n]) \in Nat /\ BodyLength(asked[n]) <= BufferWords /\ BufferWords \in Nat
    BY <1>3, BodyIsLong, SizeAssumption DEF Holds
  <2>2. \A i \in 1..BodyLength(asked[n]) : buffer[i] = WordOf(i + 1, asked[n])
    BY <1>3 DEF Holds
  <2>3. buffer' \in {buffer, Terminated}
    BY DEF HandlePacket
  <2>4. \A i \in 1..BodyLength(asked[n]) : buffer'[i] = buffer[i]
    BY <1>4, <2>1, <2>3 DEF Terminated
  <2>5. \A i \in 1..BodyLength(asked[n]) : buffer'[i] = WordOf(i + 1, asked[n])
    BY <2>2, <2>4
  <2>6. QED
    BY <1>1, <1>7, <2>1, <2>5 DEF BufferHolds, Holds
<1>10. Front'
  BY <1>1, <1>7 DEF Sound, Front
<1>11. IdsRise' /\ NeedIsBody'
  BY <1>1 DEF Sound, IdsRise, NeedIsBody
<1>12. Chain'
  BY <1>1 DEF Sound, Chain, Follows
<1>13. QED
  BY <1>2, <1>5, <1>8, <1>9, <1>10, <1>11, <1>12 DEF Sound

LEMMA SendSound ==
    ASSUME TypeOK, Sound, Send, ~spoiled, Answered
    PROVE  /\ Sound'
           /\ Len(answered) < Len(handled)
           /\ answered' = Append(answered, handled[Len(answered) + 1])
<1> DEFINE n == Current
<1>1. /\ phase = "reply" /\ phase' = "loop"
      /\ UNCHANGED <<tape, need, calls, asked, handled, spoiled, buffer>>
      /\ answered' = Append(answered, Response)
  BY DEF Send, Answered, network, Note
<1>2. n = Len(handled) /\ n = Len(answered) + 1 /\ n \in 1..Len(asked)
      /\ Len(handled) \in Nat /\ Len(asked) \in Nat /\ Len(answered) \in Nat
  BY <1>1, AskedLong DEF Current, Sound, Counts
<1>3. asked[n] \in Calls /\ Holds(asked[n]) /\ handled[n] = asked[n]
  BY <1>1, <1>2, AskedLong DEF Sound, BufferHolds, Counts
<1>4. Response = asked[n]
  BY <1>3, BufferIsCall
<1>5. Len(answered') = n
  <2>1. answered \in Entries /\ Response \in Calls \cup {Garbled}
    BY RequestedType DEF TypeOK
  <2>2. QED
    BY <1>1, <1>2, <2>1, Appended DEF Entries
<1>6. Current' = n
  BY <1>1, <1>2 DEF Current
<1>7. Counts' /\ IdsRise' /\ NeedIsBody' /\ BufferHolds'
  BY <1>1, <1>2, <1>5, <1>6 DEF Sound, Counts, IdsRise, NeedIsBody, BufferHolds
<1>8. Front' /\ Chain'
  BY <1>1, <1>6 DEF Sound, Front, Chain, Follows
<1>9. QED
  BY <1>1, <1>2, <1>3, <1>4, <1>7, <1>8 DEF Sound

LEMMA AskSound ==
    ASSUME TypeOK, Sound, ~spoiled, NEW c \in Calls, Ask(c)
    PROVE  Sound'
<1> DEFINE m == Len(asked)
<1>1. /\ UNCHANGED <<phase, need, buffer, handled, answered, spoiled>>
      /\ calls' = calls + 1 /\ c.id = calls + 1
      /\ asked' = Append(asked, c) /\ tape' = tape \o Packet(c)
  BY DEF Ask, Note, Seen
<1>2. /\ Len(asked) \in Nat /\ Len(handled) \in Nat /\ Len(tape) \in Nat /\ calls \in Nat
      /\ BodyLength(c) \in Nat
  BY AskedLong, BodyIsLong
<1>3. /\ Len(asked') = m + 1 /\ asked'[m + 1] = c
      /\ \A i \in 1..m : asked'[i] = asked[i]
  BY <1>1, Appended DEF TypeOK
<1>4. /\ Len(tape') = Len(tape) + (1 + BodyLength(c))
      /\ \A i \in 1..Len(tape) : tape'[i] = tape[i]
      /\ \A i \in 1..(1 + BodyLength(c)) : tape'[Len(tape) + i] = WordOf(i, c)
  <2> DEFINE packet == Packet(c)
  <2>1. Len(packet) = 1 + BodyLength(c) /\ \A i \in 1..(1 + BodyLength(c)) : packet[i] = WordOf(i, c)
    BY PacketIsWords
  <2>2. tape \in Seq(Marks) /\ packet \in Seq(Marks) /\ tape' = tape \o packet
    BY <1>1, PacketIsMarks DEF TypeOK, Marks
  <2> HIDE DEF packet
  <2>3. /\ Len(tape') = Len(tape) + Len(packet)
        /\ \A i \in 1..Len(tape) : tape'[i] = tape[i]
        /\ \A i \in 1..Len(packet) : tape'[Len(tape) + i] = packet[i]
    BY <2>2, Joined
  <2>4. QED
    BY <2>1, <2>3
<1>5. IdsRise'
  <2>1. ASSUME NEW i \in 1..(m + 1)
        PROVE  asked'[i].id = (calls + 1) - (m + 1) + i
    <3>1. CASE i = m + 1
      BY <1>1, <1>2, <1>3, <3>1
    <3>2. CASE i \in 1..m
      <4>1. asked[i].id = calls - m + i
        BY <3>2 DEF Sound, IdsRise
      <4>2. QED
        BY <1>2, <1>3, <3>2, <4>1
    <3>3. QED
      BY <1>2, <3>1, <3>2
  <2>2. QED
    BY <1>1, <1>3, <2>1 DEF IdsRise
<1>6. Chain'
  <2> SUFFICES ASSUME NEW j \in 1..Len(tape'), tape'[j].is = "prefix"
               PROVE  \E k \in 1..Len(asked') : tape'[j].of = asked'[k] /\ Follows(k, j)'
    BY DEF Chain
  <2>1. CASE j \in 1..Len(tape)
    <3>1. PICK k \in 1..m : tape[j].of = asked[k] /\ Follows(k, j)
      BY <1>4, <2>1 DEF Sound, Chain
    <3>2. Follows(k, j)'
      <4>1. j \in Nat
        BY <1>2, <2>1
      <4>2. QED
        BY <1>1, <3>1, <4>1, ExtendFollows
    <3>3. k \in 1..Len(asked') /\ tape'[j].of = asked'[k]
      BY <1>2, <1>3, <1>4, <2>1, <3>1
    <3>4. QED
      BY <3>2, <3>3
  <2>2. CASE j \notin 1..Len(tape)
    <3> DEFINE i == j - Len(tape)
    <3>1. i \in 1..(1 + BodyLength(c)) /\ j = Len(tape) + i
      BY <1>2, <1>4, <2>2
    <3>2. tape'[j] = WordOf(i, c)
      BY <1>4, <3>1
    <3>3. i = 1
      <4>1. Part(i) = "prefix"
        BY <3>2 DEF WordOf
      <4>2. QED
        BY <1>2, <3>1, <4>1, PartsDiffer
    <3>4. j = Len(tape) + 1 /\ j + BodyLength(c) = Len(tape')
      BY <1>2, <1>4, <3>1, <3>3
    <3>5. \A l \in 1..BodyLength(c) : tape'[j + l] = WordOf(l + 1, c)
      <4>1. \A l \in 1..BodyLength(c) : l + 1 \in 1..(1 + BodyLength(c)) /\ j + l = Len(tape) + (l + 1)
        BY <1>2, <3>4
      <4>2. QED
        BY <1>4, <4>1
    <3>6. PICK k \in 1..Len(asked') : k = m + 1
      BY <1>2, <1>3
    <3>7. Follows(k, j)'
      <4>1. asked'[k] = c /\ Len(asked') = k
        BY <1>3, <3>6
      <4>2. j + BodyLength(c) <= Len(tape')
        BY <1>2, <3>4
      <4>3. QED
        BY <3>4, <3>5, <4>1, <4>2 DEF Follows
    <3>8. tape'[j].of = asked'[k]
      BY <1>3, <3>2, <3>6 DEF WordOf
    <3>9. QED
      BY <3>7, <3>8
  <2>3. QED
    BY <2>1, <2>2
<1>7. Current' = Current /\ Current \in Nat /\ Current <= m
  <2>1. Current' = Current
    BY <1>1 DEF Current
  <2>2. Current \in Nat
    BY <1>2 DEF Current
  <2>3. Current <= m
    BY DEF Sound, Counts
  <2>4. QED
    BY <2>1, <2>2, <2>3
<1>8. Counts'
  <2>1. Len(handled) <= Current
    BY <1>2 DEF Current
  <2>2. \A i \in 1..Len(handled) : i \in 1..m
    BY <1>2, <1>7, <2>1
  <2>3. \A i \in 1..Len(handled) : handled[i] = asked[i]
    BY DEF Sound, Counts
  <2>4. \A i \in 1..Len(handled') : handled'[i] = asked'[i]
    BY <1>1, <1>3, <2>2, <2>3
  <2>5. Len(handled) = Len(answered) + (IF phase \in {"reply", "hung"} THEN 1 ELSE 0)
    BY DEF Sound, Counts
  <2>6. Len(handled') = Len(answered') + (IF phase' \in {"reply", "hung"} THEN 1 ELSE 0)
    BY <1>1, <2>5, Zenon
  <2>7. Current' <= Len(asked')
    BY <1>2, <1>3, <1>7
  <2>8. QED
    BY <2>4, <2>6, <2>7, Zenon DEF Counts
<1>9. Front'
  <2>1. CASE phase = "body"
    <3>1. Current \in 1..m /\ Follows(Current, 0)
      BY <1>2, <1>7, <2>1 DEF Sound, Front, Current
    <3>2. Follows(Current, 0)'
      <4> DEFINE n == Current
      <4>1. n \in 1..m /\ Follows(n, 0) /\ n' = n
        BY <1>7, <3>1
      <4>2. ASSUME NEW k \in 1..m, Follows(k, 0)
            PROVE  Follows(k, 0)'
        BY <1>1, <4>2, ExtendFollows
      <4> HIDE DEF n
      <4>3. \A k \in 1..m : Follows(k, 0) => Follows(k, 0)'
        BY <4>2
      <4>4. QED
        BY <4>1, <4>3 DEF n, Follows
    <3>3. QED
      BY <1>1, <1>7, <2>1, <3>2 DEF Front
  <2>2. CASE phase # "body" /\ tape = <<>>
    <3>1. Current = m /\ Len(tape) = 0
      BY <2>2 DEF Sound, Front
    <3>2. 1 \in 1..(1 + BodyLength(c)) /\ Len(tape) + 1 = 1 /\ Len(tape') # 0
      BY <1>2, <1>4, <3>1
    <3>3. tape'[1] = WordOf(1, c) /\ tape' # <<>>
      BY <1>4, <3>2
    <3>4. QED
      BY <1>1, <1>2, <1>3, <1>7, <2>2, <3>1, <3>3 DEF Front
  <2>3. CASE phase # "body" /\ tape # <<>>
    <3>1. Current < m /\ tape[1] = WordOf(1, asked[Current + 1])
      BY <2>3 DEF Sound, Front
    <3>2. Len(tape) # 0
      BY <2>3, EmptySeq DEF TypeOK
    <3>3. 1 \in 1..Len(tape) /\ Len(tape') # 0 /\ Current + 1 \in 1..m
      BY <1>2, <1>4, <1>7, <3>1, <3>2
    <3>4. tape'[1] = tape[1] /\ tape' # <<>> /\ asked'[Current + 1] = asked[Current + 1]
      BY <1>3, <1>4, <3>3
    <3>5. QED
      BY <1>1, <1>2, <1>3, <1>7, <2>3, <3>1, <3>4 DEF Front
  <2>4. QED
    BY <2>1, <2>2, <2>3
<1>10. NeedIsBody' /\ BufferHolds'
  <2>1. phase \in {"body", "handle", "reply", "hung"} => Current \in 1..m
    <3>1. Len(handled) = Len(answered) + (IF phase \in {"reply", "hung"} THEN 1 ELSE 0)
      BY DEF Sound, Counts
    <3>2. Len(answered) \in Nat
      BY AskedLong
    <3>3. CASE phase \in {"body", "handle"}
      <4>1. Current = Len(handled) + 1
        BY <3>3 DEF Current
      <4>2. QED
        BY <1>2, <1>7, <4>1
    <3>4. CASE phase \in {"reply", "hung"}
      <4>1. Current = Len(handled) /\ Len(handled) = Len(answered) + 1
        BY <1>2, <3>1, <3>4 DEF Current
      <4>2. QED
        BY <1>2, <1>7, <3>2, <4>1
    <3>5. QED
      BY <3>3, <3>4
  <2>2. QED
    BY <1>1, <1>3, <1>7, <2>1 DEF Sound, NeedIsBody, BufferHolds, Holds
<1>11. QED
  BY <1>5, <1>6, <1>8, <1>9, <1>10 DEF Sound

\* Steps that leave the calls and the tape as they are.
LEMMA IdleSound ==
    ASSUME TypeOK, Sound, Hang \/ Connect \/ Arrive \/ Stall \/ Vanish \/ UNCHANGED vars
    PROVE  Sound'
<1>1. /\ UNCHANGED <<tape, need, buffer, calls, asked, handled, answered, spoiled>>
      /\ phase' = phase \/ (phase = "reply" /\ phase' = "hung")
  BY DEF Hang, Connect, Arrive, Stall, Vanish, vars, network, history
<1>2. Current' = Current
  BY <1>1 DEF Current
<1>3. IdsRise' /\ Counts' /\ NeedIsBody' /\ BufferHolds'
  BY <1>1, <1>2 DEF Sound, IdsRise, Counts, NeedIsBody, BufferHolds, Holds
<1>4. Chain' /\ Front'
  BY <1>1, <1>2 DEF Sound, Chain, Front, Follows
<1>5. QED
  BY <1>3, <1>4 DEF Sound

-----------------------------------------------------------------------------
(* The invariant.                                                          *)

LEMMA InitInv == Init => IInv
<1> SUFFICES ASSUME Init PROVE IInv
  OBVIOUS
<1>1. /\ asked = <<>> /\ handled = <<>> /\ answered = <<>> /\ tape = <<>> /\ phase = "loop"
      /\ Len(asked) = 0 /\ Len(handled) = 0 /\ Len(answered) = 0 /\ Len(tape) = 0
  BY DEF Init
<1>2. Current = 0
  BY <1>1 DEF Current
<1>3. IdsRise /\ Chain /\ Counts
  BY <1>1, <1>2 DEF IdsRise, Chain, Counts
<1>4. Front /\ NeedIsBody /\ BufferHolds
  BY <1>1, <1>2 DEF Front, NeedIsBody, BufferHolds
<1>5. QED
  BY <1>1, <1>3, <1>4, InitType DEF IInv, Sound, NothingKept

LEMMA NothingKeptStays == NothingKept /\ [Next]_vars => NothingKept'
<1> SUFFICES ASSUME NothingKept, [Next]_vars, spoiled'
             PROVE  asked' = <<>> /\ handled' = <<>> /\ answered' = <<>>
  BY DEF NothingKept
<1> USE DEF NothingKept, Keep, Spoil, network, history
<1>1. CASE GetPrefix
  BY <1>1 DEF GetPrefix
<1>2. CASE GetBody \/ BodyTimeout
  BY <1>2 DEF GetBody, BodyTimeout
<1>3. CASE HandlePacket
  BY <1>3 DEF HandlePacket, Note
<1>4. CASE Send
  BY <1>4 DEF Send, Note, Forget
<1>5. CASE Hang \/ Watchdog \/ Close \/ Kick
  BY <1>5 DEF Hang, Watchdog, Close, Kick, Forget
<1>6. CASE \E c \in Calls : Ask(c)
  BY <1>6 DEF Ask, Note
<1>7. CASE Connect \/ Arrive \/ Stall \/ Vanish \/ UNCHANGED vars
  BY <1>7 DEF Connect, Arrive, Stall, Vanish, vars
<1>8. QED
  BY <1>1, <1>2, <1>3, <1>4, <1>5, <1>6, <1>7 DEF Next, Server

LEMMA SpoiledForGood ==
    ASSUME TypeOK, [Next]_vars, spoiled, ~spoiled'
    PROVE  Forget /\ phase' = "loop"
<1> USE DEF Keep, Spoil, network, history
<1>1. CASE Server
  <2>1. CASE GetPrefix
    BY <2>1 DEF GetPrefix
  <2>2. CASE GetBody \/ BodyTimeout \/ HandlePacket
    BY <2>2 DEF GetBody, BodyTimeout, HandlePacket
  <2>3. CASE Send \/ Close
    BY <2>3 DEF Send, Close
  <2>4. QED
    BY <1>1, <2>1, <2>2, <2>3 DEF Server
<1>2. CASE Hang \/ Watchdog \/ Kick
  BY <1>2 DEF Hang, Watchdog, Kick
<1>3. CASE Connect \/ Arrive \/ Stall \/ Vanish \/ UNCHANGED vars \/ \E c \in Calls : Ask(c)
  BY <1>3 DEF Connect, Arrive, Stall, Vanish, Ask, vars
<1>4. QED
  BY <1>1, <1>2, <1>3 DEF Next

LEMMA SoundStays ==
    ASSUME TypeOK, [Next]_vars, ~spoiled => Sound, ~spoiled'
    PROVE  Sound'
<1>1. CASE spoiled
  BY <1>1, SpoiledForGood, ForgetSound
<1>2. CASE ~spoiled
  <2>1. Sound
    BY <1>2
  <2>2. CASE GetPrefix
    BY <2>1, <2>2, PrefixSound
  <2>3. CASE GetBody
    BY <2>1, <2>3, BodySound
  <2>4. CASE BodyTimeout
    BY <2>4 DEF BodyTimeout, Spoil
  <2>5. CASE HandlePacket
    BY <1>2, <2>1, <2>5, HandleSound
  <2>6. CASE Send
    <3>1. CASE Forget
      BY <2>6, <3>1, ForgetSound DEF Send
    <3>2. CASE Answered
      BY <1>2, <2>1, <2>6, <3>2, SendSound
    <3>3. QED
      BY <2>6, <3>1, <3>2 DEF Send, Answered
  <2>7. CASE Watchdog \/ Close \/ Kick
    BY <2>7, ForgetSound DEF Watchdog, Close, Kick
  <2>8. CASE \E c \in Calls : Ask(c)
    BY <1>2, <2>1, <2>8, AskSound
  <2>9. CASE Hang \/ Connect \/ Arrive \/ Stall \/ Vanish \/ UNCHANGED vars
    BY <2>1, <2>9, IdleSound
  <2>10. QED
    BY <2>2, <2>3, <2>4, <2>5, <2>6, <2>7, <2>8, <2>9 DEF Next, Server
<1>3. QED
  BY <1>1, <1>2

LEMMA Invariant == Spec => []IInv
<1>1. IInv /\ [Next]_vars => IInv'
  BY NextType, NothingKeptStays, SoundStays DEF IInv
<1>2. QED
  BY <1>1, InitInv, PTL DEF Spec

-----------------------------------------------------------------------------
(* Theorems.                                                               *)

\* Types: the length that is read never exceeds the buffer, whatever word it is
\* read from.
THEOREM StreamTypeCorrect == Spec => []TypeOK
<1>1. IInv => TypeOK
  BY DEF IInv
<1>2. QED
  BY <1>1, Invariant, PTL

\* The server stays in step with its client until a call is cut.
THEOREM StaysInStep == Spec => []InStep
<1>1. IInv => InStep
  <2> SUFFICES ASSUME IInv, ~spoiled
               PROVE  /\ phase = "loop" =>
                            IF Len(handled) = Len(asked)
                            THEN tape = <<>>
                            ELSE tape # <<>> /\ tape[1] = [is |-> "prefix", of |-> asked[Len(handled) + 1]]
                      /\ phase = "handle" => Executed = asked[Len(handled) + 1]
                      /\ phase \in {"reply", "hung"} => Response = asked[Len(handled)]
    BY DEF InStep
  <2>1. TypeOK /\ Sound
    BY DEF IInv
  <2>2. CASE phase = "loop"
    <3>1. Current = Len(handled)
      BY <2>1, <2>2, AskedLong DEF Current
    <3>2. Len(handled) \in Nat /\ Len(asked) \in Nat
      BY <2>1, AskedLong
    <3>3. WordOf(1, asked[Len(handled) + 1]) = [is |-> "prefix", of |-> asked[Len(handled) + 1]]
      BY PartsDiffer DEF WordOf
    <3>4. QED
      BY <2>1, <2>2, <3>1, <3>2, <3>3 DEF Sound, Front
  <2>3. CASE phase = "handle"
    <3>1. Current = Len(handled) + 1 /\ Current \in 1..Len(asked)
      BY <2>1, <2>3, AskedLong DEF Current, Sound, Counts
    <3>2. asked[Current] \in Calls /\ Holds(asked[Current])
      BY <2>1, <2>3, <3>1, AskedLong DEF Sound, BufferHolds
    <3>3. QED
      BY <2>1, <2>3, <3>1, <3>2, BufferIsCall
  <2>4. CASE phase \in {"reply", "hung"}
    <3>1. Current = Len(handled) /\ Current \in 1..Len(asked)
      BY <2>1, <2>4, AskedLong DEF Current, Sound, Counts
    <3>2. asked[Current] \in Calls /\ Holds(asked[Current])
      BY <2>1, <2>4, <3>1, AskedLong DEF Sound, BufferHolds
    <3>3. QED
      BY <2>1, <2>4, <3>1, <3>2, BufferIsCall
  <2>5. QED
    BY <2>2, <2>3, <2>4
<1>2. QED
  BY <1>1, Invariant, PTL

\* The server implements RpcContract: every step is a step of the contract or
\* leaves its state alone.
THEOREM StreamKeepsContract == Spec => KeepsContract
<1>1. Init => Contract!Init
  BY DEF Init, Contract!Init, Contract!Fresh
<1>2. IInv /\ [Next]_vars => [Contract!Next]_Contract!vars
  <2> SUFFICES ASSUME IInv, [Next]_vars
               PROVE  Contract!Next \/ UNCHANGED <<asked, handled, answered, spoiled>>
    BY DEF Contract!vars
  <2> USE DEF network, history, Contract!Next, Contract!Fresh
  <2>1. TypeOK /\ NothingKept /\ (~spoiled => Sound)
    BY DEF IInv
  <2>2. CASE Forget
    BY <2>2 DEF Forget, Contract!Renew
  <2>3. CASE Keep
    BY <2>3 DEF Keep
  <2>4. CASE Spoil
    <3>1. CASE spoiled
      BY <2>1, <2>4, <3>1 DEF Spoil, NothingKept
    <3>2. CASE ~spoiled
      BY <2>4, <3>2 DEF Spoil, Contract!Break
    <3>3. QED
      BY <3>1, <3>2
  <2>5. CASE HandlePacket
    <3>1. CASE spoiled
      BY <2>5, <3>1 DEF HandlePacket, Note
    <3>2. CASE ~spoiled
      <4>1. /\ Len(handled) = Len(answered) /\ Len(handled) < Len(asked)
            /\ handled' = Append(handled, asked[Len(handled) + 1])
        BY <2>1, <2>5, <3>2, HandleSound
      <4>2. QED
        BY <2>5, <3>2, <4>1 DEF HandlePacket, Contract!Handle
    <3>3. QED
      BY <3>1, <3>2
  <2>6. CASE Send /\ Answered
    <3>1. CASE spoiled
      BY <2>6, <3>1 DEF Send, Answered, Note
    <3>2. CASE ~spoiled
      <4>1. /\ Len(answered) < Len(handled)
            /\ answered' = Append(answered, handled[Len(answered) + 1])
        BY <2>1, <2>6, <3>2, SendSound
      <4>2. QED
        BY <2>6, <3>2, <4>1 DEF Send, Answered, Contract!Answer
    <3>3. QED
      BY <3>1, <3>2
  <2>7. ASSUME NEW c \in Calls, Ask(c)
        PROVE  Contract!Next \/ UNCHANGED <<asked, handled, answered, spoiled>>
    BY <2>7 DEF Ask, Note, Contract!Ask
  <2>8. CASE Hang \/ Connect \/ Arrive \/ Stall \/ Vanish \/ UNCHANGED vars
    BY <2>8 DEF Hang, Connect, Arrive, Stall, Vanish, vars
  <2>9. Next => \/ Forget \/ Keep \/ Spoil \/ HandlePacket \/ (Send /\ Answered)
                \/ (\E c \in Calls : Ask(c)) \/ Hang \/ Connect \/ Arrive \/ Stall \/ Vanish
    <3>1. GetPrefix => Keep \/ Spoil
      BY DEF GetPrefix
    <3>2. GetBody \/ BodyTimeout => Keep \/ Spoil
      BY DEF GetBody, BodyTimeout
    <3>3. Send => Forget \/ Answered
      BY DEF Send, Answered
    <3>4. Watchdog \/ Close \/ Kick => Forget
      BY DEF Watchdog, Close, Kick
    <3>5. QED
      BY <3>1, <3>2, <3>3, <3>4 DEF Next, Server
  <2>10. QED
    BY <2>2, <2>3, <2>4, <2>5, <2>6, <2>7, <2>8, <2>9
<1>3. QED
  BY <1>1, <1>2, Invariant, PTL DEF Spec, KeepsContract, Contract!Spec

-----------------------------------------------------------------------------
(* What the contract gives a client.                                       *)

USE DEF Contract!vars, Contract!Fresh

\* The contract's own invariant.
Ordered ==
    /\ asked \in Seq(Calls) /\ handled \in Seq(Calls) /\ answered \in Seq(Calls)
    /\ Contract!AnswersInOrder

LEMMA FreshIsOrdered == Contract!Fresh => Ordered
<1> SUFFICES ASSUME Contract!Fresh PROVE Ordered
  OBVIOUS
<1>1. /\ asked \in Seq(Calls) /\ handled \in Seq(Calls) /\ answered \in Seq(Calls)
      /\ Len(asked) = 0 /\ Len(handled) = 0 /\ Len(answered) = 0
  BY Empty
<1>2. QED
  BY <1>1 DEF Ordered, Contract!AnswersInOrder

LEMMA ContractIsOrdered == Contract!Spec => []Ordered
<1>1. Contract!Init => Ordered
  BY FreshIsOrdered DEF Contract!Init
<1>2. Ordered /\ [Contract!Next]_(Contract!vars) => Ordered'
  <2> SUFFICES ASSUME Ordered, [Contract!Next]_(Contract!vars) PROVE Ordered'
    OBVIOUS
  <2> USE DEF Ordered, Contract!AnswersInOrder
  <2>0. Len(asked) \in Nat /\ Len(handled) \in Nat /\ Len(answered) \in Nat
    OBVIOUS
  <2>1. ASSUME NEW c \in Calls, ~spoiled, asked' = Append(asked, c),
               UNCHANGED <<handled, answered>>
        PROVE  Ordered'
    <3>1. /\ asked' \in Seq(Calls) /\ Len(asked') = Len(asked) + 1
          /\ \A i \in 1..Len(asked) : asked'[i] = asked[i]
      BY <2>1, Appended
    <3>2. \A i \in 1..Len(handled) : i \in 1..Len(asked)
      BY <2>0, <2>1
    <3>3. \A i \in 1..Len(answered) : i \in 1..Len(asked)
      BY <2>0, <2>1
    <3>4. QED
      BY <2>0, <2>1, <3>1, <3>2, <3>3
  <2>2. CASE Contract!Handle
    <3> DEFINE c == asked[Len(handled) + 1]
    <3>1. /\ ~spoiled /\ ~spoiled' /\ Len(handled) = Len(answered) /\ Len(handled) < Len(asked)
          /\ handled' = Append(handled, c) /\ UNCHANGED <<asked, answered>>
      BY <2>2 DEF Contract!Handle
    <3>2. c \in Calls
      BY <2>0, <3>1
    <3> HIDE DEF c
    <3>3. /\ handled' \in Seq(Calls) /\ Len(handled') = Len(handled) + 1
          /\ \A i \in 1..Len(handled) : handled'[i] = handled[i]
          /\ handled'[Len(handled) + 1] = c
      BY <3>1, <3>2, Appended
    <3>4. \A i \in 1..Len(handled') : handled'[i] = asked[i]
      <4>1. \A i \in 1..Len(handled') : i \in 1..Len(handled) \/ i = Len(handled) + 1
        BY <2>0, <3>3
      <4>2. QED
        BY <3>1, <3>3, <4>1 DEF c
    <3>5. QED
      BY <2>0, <3>1, <3>3, <3>4
  <2>3. CASE Contract!Answer
    <3> DEFINE c == handled[Len(answered) + 1]
    <3>1. /\ ~spoiled /\ ~spoiled' /\ Len(answered) < Len(handled)
          /\ answered' = Append(answered, c) /\ UNCHANGED <<asked, handled>>
      BY <2>3 DEF Contract!Answer
    <3>2. c \in Calls /\ c = asked[Len(answered) + 1]
      BY <2>0, <3>1
    <3> HIDE DEF c
    <3>3. /\ answered' \in Seq(Calls) /\ Len(answered') = Len(answered) + 1
          /\ \A i \in 1..Len(answered) : answered'[i] = answered[i]
          /\ answered'[Len(answered) + 1] = c
      BY <3>1, <3>2, Appended
    <3>4. \A i \in 1..Len(answered') : answered'[i] = asked[i]
      <4>1. \A i \in 1..Len(answered') : i \in 1..Len(answered) \/ i = Len(answered) + 1
        BY <2>0, <3>3
      <4>2. QED
        BY <3>1, <3>2, <3>3, <4>1
    <3>5. QED
      BY <2>0, <3>1, <3>3, <3>4
  <2>4. CASE Contract!Break \/ Contract!Renew
    <3>1. asked' = <<>> /\ handled' = <<>> /\ answered' = <<>>
      BY <2>4 DEF Contract!Break, Contract!Renew
    <3>2. /\ asked' \in Seq(Calls) /\ handled' \in Seq(Calls) /\ answered' \in Seq(Calls)
          /\ Len(asked') = 0 /\ Len(handled') = 0 /\ Len(answered') = 0
      BY <3>1, Empty
    <3>3. QED
      BY <3>2
  <2>5. CASE UNCHANGED Contract!vars
    BY <2>5
  <2>6. CASE Contract!Ask
    BY <2>1, <2>6 DEF Contract!Ask
  <2>7. QED
    BY <2>2, <2>3, <2>4, <2>5, <2>6 DEF Contract!Next
<1>3. QED
  BY <1>1, <1>2, PTL DEF Contract!Spec

\* A client whose calls fit and come in time gets the answer of its n-th call as
\* its n-th answer, before a later call than the next one is executed.
THEOREM ClientsAreAnsweredInOrder == Spec => []Contract!AnswersInOrder
<1>1. Ordered => Contract!AnswersInOrder
  BY DEF Ordered
<1>2. QED
  BY <1>1, StreamKeepsContract, ContractIsOrdered, PTL DEF KeepsContract

-----------------------------------------------------------------------------
(* No step in vain.                                                        *)

\* While a client holds the server, the server goes through its phases once for each word
\* that has arrived at most: it gets to the end of what a client has left, and to the
\* calls of one that stays (get_vxi_packet(), send_vxi_packet()).
THEOREM StepsCount == Spec => EveryStepCounts
<1>1. IInv /\ Next /\ conn # "none" /\ conn' = conn =>
          \/ StepsLeft' < StepsLeft
          \/ conn # "gone" /\ (arrived' > arrived \/ calls' > calls)
  <2> SUFFICES ASSUME IInv, Next, conn # "none", conn' = conn
               PROVE  \/ StepsLeft' < StepsLeft
                      \/ conn # "gone" /\ (arrived' > arrived \/ calls' > calls)
    OBVIOUS
  <2> USE DEF network, StepsLeft
  <2>1. /\ arrived \in Nat /\ need \in Nat /\ calls \in Nat
        /\ phase \in {"loop", "body", "handle", "reply", "hung"}
        /\ conn \in {"up", "stalled", "gone"}
    BY AskedLong DEF IInv, TypeOK
  <2>2. CASE GetPrefix
    <3>1. phase' \in {"loop", "body", "handle"} /\ phase = "loop" /\ arrived > 0
          /\ arrived' = arrived - 1
      BY <2>2 DEF GetPrefix, Take
    <3>2. QED
      BY <2>1, <3>1
  <2>3. CASE GetBody
    BY <2>1, <2>3 DEF GetBody, Store, Take
  <2>4. CASE BodyTimeout
    BY <2>1, <2>4 DEF BodyTimeout, Store, Take
  <2>5. CASE HandlePacket
    BY <2>1, <2>5 DEF HandlePacket
  <2>6. CASE Send
    <3>1. CASE Forget
      BY <2>1, <3>1 DEF Forget
    <3>2. CASE Answered
      BY <2>1, <2>6, <3>2 DEF Send, Answered
    <3>3. QED
      BY <2>6, <3>1, <3>2 DEF Send, Answered
  <2>7. CASE Hang
    BY <2>1, <2>7 DEF Hang
  <2>8. ~(Watchdog \/ Kick \/ Close \/ Connect \/ Stall \/ Vanish)
    BY DEF Watchdog, Kick, Close, Connect, Stall, Vanish, Forget
  <2>9. CASE Arrive
    BY <2>1, <2>9 DEF Arrive
  <2>10. CASE \E c \in Calls : Ask(c)
    BY <2>1, <2>10 DEF Ask
  <2>11. QED
    BY <2>2, <2>3, <2>4, <2>5, <2>6, <2>7, <2>8, <2>9, <2>10 DEF Next, Server
<1>2. QED
  BY <1>1, Invariant, PTL DEF Spec, EveryStepCounts
=============================================================================
