------------------------ MODULE TelemetryHub_proofs ------------------------
(***************************************************************************)
(* Proofs about the hub, for every number of destinations and frames,      *)
(* every frame length and every room in a socket.                          *)
(***************************************************************************)
EXTENDS TelemetryHub, SequenceTheorems, TLAPS

-----------------------------------------------------------------------------
(* The inductive invariant                                                 *)

Occurs(f, seq) == \E k \in DOMAIN seq : seq[k] = f
Increasing(seq) == \A k, l \in DOMAIN seq : k < l => seq[k] < seq[l]

LineTypeOK ==
    /\ emitted \in 0..(Frames * FrameBytes) /\ taken \in 0..emitted
    /\ open \in BOOLEAN
    /\ queue \in Seq(Frame) /\ parsed \in Seq(Frame) /\ handled \in Seq(Frame)

HubTypeOK ==
    /\ pc \in {"test", "connect", "receive", "push", "pop", "send", "catch", "sleep",
               "finish", "done"}
    /\ chunk \in Nat /\ message \in 0..Frames /\ turn \in DOMAIN Destinations

SocketTypeOK ==
    /\ Steady \subseteq bound
    /\ buffer \in [Port -> Seq(Frame)] /\ got \in [Port -> Seq(Frame)]

\* What the statements of the loop may rely on: close() and connect() only ever find
\* the queue empty, until the hub ends.
LoopOK ==
    /\ pc = "push" => taken < chunk /\ chunk <= emitted
    /\ pc \in {"receive", "push", "pop"} => open
    /\ pc = "connect" => ~open
    /\ pc \in {"catch", "sleep"} \/ ~open => queue = <<>>
    /\ message # 0 <=> pc = "send"
    /\ pc # "send" => turn = 1

\* A parsed frame's last byte has been read, so the next one parsed is a later frame.
ParsedInOrder ==
    /\ \A k \in DOMAIN parsed : parsed[k] * FrameBytes <= taken
    /\ Increasing(parsed)

\* The frames taken up are the first of those parsed, and the last of them is sent.
HandledIsPrefix ==
    /\ \A k \in DOMAIN handled : k \in DOMAIN parsed /\ handled[k] = parsed[k]
    /\ message # 0 => handled # <<>> /\ handled[Len(handled)] = message

\* What a program has received or has waiting was taken up, and is not the frame being
\* sent before its turn has come.
OnlyHandledIsSent ==
    \A n \in DOMAIN Destinations : \A f \in Frame :
        Occurs(f, got[Destinations[n]]) \/ Occurs(f, buffer[Destinations[n]])
            => \E k \in DOMAIN handled :
                  handled[k] = f /\ (message # 0 /\ turn <= n => k < Len(handled))

\* What waits for a program is in order, and later than what it has received.
WaitsInOrder ==
    \A d \in Port :
        /\ Increasing(buffer[d])
        /\ \A k \in DOMAIN got[d], l \in DOMAIN buffer[d] : got[d][k] < buffer[d][l]

TypeOK == LineTypeOK /\ HubTypeOK /\ SocketTypeOK

IInv ==
    /\ TypeOK
    /\ LoopOK
    /\ ParsedInOrder
    /\ NothingParsedIsDropped
    /\ HandledIsPrefix
    /\ OnlyHandledIsSent
    /\ WaitsInOrder
    /\ HealthyGetsEverything

-----------------------------------------------------------------------------
(* The bytes of the line                                                   *)

LEMMA Lengths == Frames \in Nat /\ FrameBytes \in Nat /\ FrameBytes > 0
BY ConnectionAssumption

\* The number of a byte is that of its frame's last byte when it is in last place.
LEMMA LastByte ==
    ASSUME NEW n \in Nat, n > 0, PositionOf(n) = FrameBytes
    PROVE  /\ FrameOf(n) \in Nat /\ FrameOf(n) > 0
           /\ n = FrameOf(n) * FrameBytes
<1> DEFINE q == (n - 1) \div FrameBytes
           r == (n - 1) % FrameBytes
<1>1. n - 1 \in Nat /\ FrameBytes \in Nat /\ FrameBytes > 0
  BY Lengths
<1>2. q \in Nat /\ r \in Nat /\ n - 1 = FrameBytes * q + r
  <2>1. \A m \in Nat, b \in Nat : b > 0 =>
           m \div b \in Nat /\ m % b \in Nat /\ m = b * (m \div b) + (m % b)
    OBVIOUS
  <2> QED
    BY <1>1, <2>1
<1>3. r = FrameBytes - 1 /\ FrameOf(n) = q + 1
  BY <1>1, <1>2 DEF PositionOf, FrameOf
<1> HIDE DEF q, r
<1>4. FrameBytes * q + FrameBytes = (q + 1) * FrameBytes
  BY <1>1, <1>2
<1> QED
  BY <1>1, <1>2, <1>3, <1>4

\* Multiples of the frame's length are in the order of their factors.
LEMMA Multiples ==
    ASSUME NEW e \in Nat, NEW f \in Nat
    PROVE  /\ e * FrameBytes \in Nat
           /\ e * FrameBytes < f * FrameBytes => e < f
           /\ e * FrameBytes <= f * FrameBytes => e <= f
<1>1. \A b, k \in Nat : b * k \in Nat
  OBVIOUS
<1>2. e >= f => e * FrameBytes >= f * FrameBytes
  <2> SUFFICES ASSUME e >= f PROVE e * FrameBytes >= f * FrameBytes
    OBVIOUS
  <2>1. PICK k \in Nat : e = f + k
    <3>1. e - f \in Nat /\ e = f + (e - f)
      OBVIOUS
    <3> QED
      BY <3>1
  <2>2. (f + k) * FrameBytes = f * FrameBytes + k * FrameBytes
    BY Lengths
  <2> QED
    BY <1>1, <2>1, <2>2, Lengths
<1>3. e > f => e * FrameBytes > f * FrameBytes
  <2> SUFFICES ASSUME e > f PROVE e * FrameBytes > f * FrameBytes
    OBVIOUS
  <2>1. PICK k \in Nat : e = f + k + 1
    <3>1. e - f - 1 \in Nat /\ e = f + (e - f - 1) + 1
      OBVIOUS
    <3> QED
      BY <3>1
  <2>2. (f + k + 1) * FrameBytes = f * FrameBytes + k * FrameBytes + FrameBytes
    BY Lengths
  <2> QED
    BY <1>1, <2>1, <2>2, Lengths
<1>4. e * FrameBytes \in Nat /\ f * FrameBytes \in Nat
  BY <1>1, Lengths
<1> QED
  BY <1>2, <1>3, <1>4

\* A byte completes at most one frame, whose last byte it is, and the history of the
\* frames parsed grows by what the queue grows by.
LEMMA PushStep ==
    ASSUME TypeOK, LoopOK, Push
    PROVE  /\ taken' = taken + 1 /\ taken' <= chunk /\ chunk <= emitted
           /\ UNCHANGED <<emitted, open>>
           /\ \/ UNCHANGED <<queue, parsed>>
              \/ \E f \in Frame : /\ f * FrameBytes = taken + 1
                                  /\ queue' = Append(queue, f)
                                  /\ parsed' = Append(parsed, f)
<1>1. /\ taken \in Nat /\ emitted \in Nat /\ chunk \in Nat
      /\ emitted <= Frames * FrameBytes
      /\ taken < chunk /\ chunk <= emitted
      /\ queue \in Seq(Frame) /\ parsed \in Seq(Frame)
  <2>1. Frames * FrameBytes \in Nat
    BY Lengths, Multiples
  <2> QED
    BY <2>1 DEF TypeOK, LineTypeOK, HubTypeOK, LoopOK, Push
<1>2. PushByte(taken + 1) /\ taken' = taken + 1 /\ UNCHANGED <<emitted, open>>
  BY DEF Push, PushByte
<1>3. taken' <= chunk
  BY <1>1, <1>2
<1>4. parsed' = parsed \o SubSeq(queue', Len(queue) + 1, Len(queue'))
  BY DEF Push
<1>5. CASE UNCHANGED queue
  <2>1. SubSeq(queue', Len(queue) + 1, Len(queue')) = <<>>
    <3>1. Len(queue) \in Nat /\ Len(queue) < Len(queue) + 1
      BY <1>1
    <3> QED
      BY <1>5, <3>1, SubSeqEmpty
  <2>2. parsed' = parsed
    BY <1>1, <1>4, <2>1, ConcatEmptySeq
  <2> QED
    BY <1>1, <1>2, <1>3, <1>5, <2>2
<1>6. CASE /\ parser.left = 1 /\ Continues(taken + 1)
           /\ queue' = Append(queue, parser.frame)
  <2> DEFINE f == FrameOf(taken + 1)
  <2>1. parser.frame = f /\ PositionOf(taken + 1) = FrameBytes
    BY <1>6, Lengths DEF Continues
  <2>2. f \in Nat /\ f > 0 /\ taken + 1 = f * FrameBytes
    BY <1>1, <2>1, LastByte
  <2> HIDE DEF f
  <2>3. f * FrameBytes <= Frames * FrameBytes
    <3>1. Frames * FrameBytes \in Nat
      BY Lengths, Multiples
    <3> QED
      BY <1>1, <2>2, <3>1
  <2>4. f \in Frame
    BY <2>2, <2>3, Lengths, Multiples DEF Frame
  <2>5. queue' = Append(queue, f)
    BY <1>6, <2>1
  <2>6. SubSeq(queue', Len(queue) + 1, Len(queue')) = <<f>>
    <3>1. /\ queue' \in Seq(Frame) /\ Len(queue') = Len(queue) + 1
          /\ queue'[Len(queue) + 1] = f /\ Len(queue) \in Nat
      BY <1>1, <2>4, <2>5, AppendProperties
    <3>2. PICK m \in Nat : m = Len(queue) + 1 /\ m = Len(queue')
      BY <3>1
    <3>3. \A k \in m..m : queue'[k] \in Frame
      BY <2>4, <3>1, <3>2
    <3>4. /\ SubSeq(queue', m, m) \in Seq(Frame)
          /\ Len(SubSeq(queue', m, m)) = 1
          /\ SubSeq(queue', m, m)[1] = queue'[m]
      <4>1. /\ SubSeq(queue', m, m) \in Seq(Frame)
            /\ Len(SubSeq(queue', m, m)) = IF m <= m THEN m - m + 1 ELSE 0
            /\ \A k \in 1..(m - m + 1) : SubSeq(queue', m, m)[k] = queue'[m + k - 1]
        BY <3>2, <3>3, SubSeqProperties
      <4> QED
        BY <3>2, <4>1
    <3>5. <<f>> \in Seq(Frame) /\ Len(<<f>>) = 1 /\ <<f>>[1] = f
      BY <2>4
    <3>6. SubSeq(queue', m, m) = <<f>>
      <4>1. \A k \in 1..Len(SubSeq(queue', m, m)) : SubSeq(queue', m, m)[k] = <<f>>[k]
        BY <3>1, <3>2, <3>4, <3>5
      <4> QED
        BY <3>4, <3>5, <4>1, SeqEqual
    <3> QED
      BY <3>2, <3>6
  <2>7. parsed' = Append(parsed, f)
    BY <1>1, <1>4, <2>4, <2>6, AppendIsConcat
  <2> QED
    BY <1>1, <1>2, <1>3, <2>2, <2>4, <2>5, <2>7
<1> QED
  BY <1>2, <1>5, <1>6 DEF PushByte

\* A message is taken from the front of the queue.
LEMMA ReturnStep ==
    ASSUME TypeOK, ReturnMessage
    PROVE  \E f \in Frame :
              /\ queue # <<>> /\ f = Head(queue) /\ queue' = Tail(queue)
              /\ queue' \in Seq(Frame)
              /\ message' = f /\ f # 0
              /\ handled' = Append(handled, f) /\ handled' \in Seq(Frame)
              /\ UNCHANGED <<emitted, taken, open, parsed>>
<1>1. PICK f \in Frame : /\ TakeQueued(f) /\ message' = f
                         /\ handled' = Append(handled, f)
  BY DEF ReturnMessage
<1>2. queue \in Seq(Frame) /\ handled \in Seq(Frame)
  BY DEF TypeOK, LineTypeOK
<1>3. f # 0
  BY Lengths DEF Frame
<1>4. queue # <<>> /\ f = Head(queue) /\ queue' = Tail(queue)
        /\ UNCHANGED <<emitted, taken, open, parsed>>
  BY <1>1 DEF TakeQueued, ReturnMessage
<1> QED
  BY <1>1, <1>2, <1>3, <1>4

-----------------------------------------------------------------------------
(* Types                                                                   *)

LEMMA LineTypeNext == TypeOK /\ LoopOK /\ [Next]_vars => LineTypeOK'
<1> SUFFICES ASSUME TypeOK, LoopOK, [Next]_vars PROVE LineTypeOK'
  OBVIOUS
<1> USE DEF LineTypeOK
<1>0. LineTypeOK /\ Frames * FrameBytes \in Nat
  BY Lengths, Multiples DEF TypeOK
<1>1. ASSUME UNCHANGED <<connectionVars, parsed, handled>> PROVE LineTypeOK'
  BY <1>0, <1>1 DEF connectionVars
<1>2. CASE \/ Test \/ OpenFails \/ ReceiveNothing \/ ReceiveError \/ ReadBytes \/ PopNothing
           \/ SendNext \/ Wake \/ Signal \/ (\E d \in Port : Restart(d) \/ Read(d))
           \/ UNCHANGED vars
  BY <1>1, <1>2 DEF Test, OpenFails, ReceiveNothing, ReceiveError, ReadBytes, PopNothing,
     SendNext, Wake, Signal, Restart, Read, historyVars, vars
<1>3. CASE OpenDevice \/ Catch \/ Finish
  <2>1. <<>> \in Seq(Frame) /\ emitted \in 0..emitted
    BY <1>0
  <2>2. /\ queue' = <<>> /\ open' \in BOOLEAN /\ taken' \in {taken, emitted}
        /\ UNCHANGED <<emitted, parsed, handled>>
    BY <1>3 DEF OpenDevice, Connect, Catch, Finish, Close, historyVars
  <2> QED
    BY <1>0, <2>1, <2>2
<1>4. CASE ReturnMessage
  BY <1>0, <1>4, ReturnStep
<1>5. CASE Push
  <2>1. /\ taken' = taken + 1 /\ taken' <= chunk /\ chunk <= emitted
        /\ UNCHANGED <<emitted, open, handled>>
    BY <1>5, PushStep DEF Push
  <2>2. queue' \in Seq(Frame) /\ parsed' \in Seq(Frame)
    <3>1. CASE UNCHANGED <<queue, parsed>>
      BY <1>0, <3>1
    <3>2. ASSUME NEW f \in Frame, queue' = Append(queue, f), parsed' = Append(parsed, f)
          PROVE  queue' \in Seq(Frame) /\ parsed' \in Seq(Frame)
      BY <1>0, <3>2
    <3> QED
      BY <1>5, <3>1, <3>2, PushStep
  <2>3. taken' \in 0..emitted'
    BY <1>0, <2>1 DEF TypeOK, HubTypeOK
  <2> QED
    BY <1>0, <2>1, <2>2, <2>3
<1>6. CASE Transmit
  BY <1>0, <1>6 DEF Transmit, Emit, historyVars
<1> QED
  BY <1>2, <1>3, <1>4, <1>5, <1>6 DEF Next, Process, Receive

LEMMA HubTypeNext == TypeOK /\ [Next]_vars => HubTypeOK'
<1> SUFFICES ASSUME TypeOK, [Next]_vars PROVE HubTypeOK'
  OBVIOUS
<1> USE DEF HubTypeOK, hubVars
<1>0. HubTypeOK /\ 1 \in DOMAIN Destinations
  BY HubAssumption DEF TypeOK
<1>1. CASE \/ Test \/ OpenDevice \/ OpenFails \/ ReceiveNothing \/ ReceiveError \/ PopNothing
           \/ Push \/ Catch \/ Wake \/ Finish \/ Signal \/ Transmit
           \/ (\E d \in Port : Restart(d) \/ Read(d)) \/ UNCHANGED vars
  BY <1>0, <1>1 DEF Test, OpenDevice, OpenFails, ReceiveNothing, ReceiveError, PopNothing,
     Push, Catch, Wake, Finish, Signal, Transmit, Restart, Read, Goto, vars
<1>2. CASE ReturnMessage
  BY <1>0, <1>2, ReturnStep DEF ReturnMessage, Frame
<1>3. CASE ReadBytes
  <2>1. chunk' \in Nat
    BY <1>3 DEF ReadBytes, TypeOK, LineTypeOK
  <2> QED
    BY <1>0, <1>3, <2>1 DEF ReadBytes, Goto
<1>4. CASE SendNext
  <2>1. turn + 1 \in DOMAIN Destinations \/ turn = Len(Destinations)
    BY <1>0, HubAssumption
  <2> QED
    BY <1>0, <1>4, <2>1, Lengths DEF SendNext, AfterSend
<1> QED
  BY <1>1, <1>2, <1>3, <1>4 DEF Next, Process, Receive

\* What a socket operation changes.
LEMMA SocketTypeNext == TypeOK /\ LoopOK /\ [Next]_vars => SocketTypeOK'
<1> SUFFICES ASSUME TypeOK, LoopOK, [Next]_vars PROVE SocketTypeOK'
  OBVIOUS
<1> USE DEF SocketTypeOK, socketVars
<1>0. SocketTypeOK /\ <<>> \in Seq(Frame)
  BY DEF TypeOK
<1>1. CASE \/ Test \/ OpenDevice \/ OpenFails \/ Receive \/ Catch \/ Wake \/ Finish \/ Signal
           \/ Transmit \/ UNCHANGED vars
  BY <1>0, <1>1 DEF Test, OpenDevice, OpenFails, Receive, ReturnMessage, ReceiveNothing,
     ReceiveError, ReadBytes, Push, PopNothing, Catch, Wake, Finish, Signal, Transmit, vars
<1>2. CASE SendNext
  <2>1. message \in Frame
    BY <1>2, Lengths DEF SendNext, LoopOK, TypeOK, HubTypeOK, Frame
  <2>2. ASSUME NEW d \in Port PROVE Append(buffer[d], message) \in Seq(Frame)
    BY <1>0, <2>1, <2>2
  <2>3. PICK d \in Port : SendTo(d, message)
    BY <1>2, HubAssumption DEF SendNext, TypeOK, HubTypeOK
  <2> QED
    BY <1>0, <2>2, <2>3 DEF SendTo
<1>3. ASSUME NEW d \in Port, Restart(d) PROVE SocketTypeOK'
  BY <1>0, <1>3 DEF Restart, Bind, Unbind
<1>4. ASSUME NEW d \in Port, Read(d) PROVE SocketTypeOK'
  <2>1. buffer[d] \in Seq(Frame) /\ got[d] \in Seq(Frame) /\ buffer[d] # <<>>
    BY <1>0, <1>4 DEF Read, ReceiveDatagram
  <2>2. Tail(buffer[d]) \in Seq(Frame) /\ Append(got[d], Head(buffer[d])) \in Seq(Frame)
    BY <2>1, HeadTailProperties
  <2> QED
    BY <1>0, <1>4, <2>2 DEF Read, ReceiveDatagram
<1> QED
  BY <1>1, <1>2, <1>3, <1>4 DEF Next, Process

-----------------------------------------------------------------------------
(* Two sequences, the second of which moves to the first                   *)

\* Moving the head of one sequence to the end of another keeps their concatenation.
LEMMA MoveHead ==
    ASSUME NEW S, NEW a \in Seq(S), NEW b \in Seq(S), b # <<>>
    PROVE  Append(a, Head(b)) \o Tail(b) = a \o b
<1> DEFINE h == Head(b)
           t == Tail(b)
<1>1. h \in S /\ t \in Seq(S)
  BY HeadTailProperties
<1>2. b = <<h>> \o t
  <2>1. /\ Len(t) = Len(b) - 1 /\ Len(b) \in Nat /\ b[1] = h
        /\ \A k \in 1..Len(t) : t[k] = b[k + 1]
    BY HeadTailProperties
  <2>2. <<h>> \in Seq(S) /\ Len(<<h>>) = 1 /\ <<h>>[1] = h
    BY <1>1
  <2> HIDE DEF h, t
  <2>3. /\ <<h>> \o t \in Seq(S) /\ Len(<<h>> \o t) = 1 + Len(t)
        /\ \A k \in 1..(1 + Len(t)) :
              (<<h>> \o t)[k] = IF k <= 1 THEN <<h>>[k] ELSE t[k - 1]
    BY <1>1, <2>2, ConcatProperties
  <2>4. ASSUME NEW k \in 1..Len(b) PROVE b[k] = (<<h>> \o t)[k]
    <3>1. CASE k = 1
      BY <2>1, <2>2, <2>3, <3>1
    <3>2. CASE k # 1
      <4>1. k - 1 \in 1..Len(t) /\ k \in 1..(1 + Len(t)) /\ ~(k <= 1)
        BY <2>1, <3>2
      <4>2. t[k - 1] = b[(k - 1) + 1]
        BY <2>1, <4>1
      <4> QED
        BY <2>3, <4>1, <4>2
    <3> QED
      BY <3>1, <3>2
  <2>5. Len(b) = Len(<<h>> \o t)
    BY <2>1, <2>3
  <2> QED
    BY <2>3, <2>4, <2>5, SeqEqual
<1> HIDE DEF h, t
<1>3. <<h>> \in Seq(S)
  BY <1>1
<1>4. Append(a, h) = a \o <<h>>
  BY <1>1, AppendIsConcat
<1>5. (a \o <<h>>) \o t = a \o (<<h>> \o t)
  BY <1>1, <1>3, ConcatAssociative
<1> QED
  BY <1>2, <1>4, <1>5 DEF h, t

\* Appending to the second appends to the concatenation.
LEMMA GrowSecond ==
    ASSUME NEW S, NEW a \in Seq(S), NEW b \in Seq(S), NEW e \in S
    PROVE  a \o Append(b, e) = Append(a \o b, e)
<1>1. <<e>> \in Seq(S) /\ a \o b \in Seq(S)
  BY ConcatProperties
<1>2. Append(b, e) = b \o <<e>> /\ Append(a \o b, e) = (a \o b) \o <<e>>
  BY <1>1, AppendIsConcat
<1> QED
  BY <1>1, <1>2, ConcatAssociative

-----------------------------------------------------------------------------
(* The loop and the frames parsed                                          *)

LEMMA LoopNext == TypeOK /\ LoopOK /\ [Next]_vars => LoopOK'
<1> SUFFICES ASSUME TypeOK, LoopOK, [Next]_vars PROVE LoopOK'
  OBVIOUS
<1> USE DEF LoopOK
<1>0. open \in BOOLEAN
  BY DEF TypeOK, LineTypeOK
<1>1. CASE Test \/ OpenFails \/ ReceiveNothing \/ ReceiveError \/ PopNothing \/ Wake
             \/ Signal \/ (\E d \in Port : Restart(d) \/ Read(d)) \/ UNCHANGED vars
  BY <1>0, <1>1 DEF Test, OpenFails, ReceiveNothing, ReceiveError, PopNothing, Wake, Signal,
     Restart, Read, Goto, connectionVars, hubVars, vars
<1>2. CASE OpenDevice \/ Catch \/ Finish
  BY <1>2 DEF OpenDevice, Connect, Catch, Finish, Close, Goto, hubVars
<1>3. CASE ReadBytes
  <2>1. taken < chunk' /\ chunk' <= emitted
    BY <1>3 DEF ReadBytes, TypeOK, LineTypeOK
  <2> QED
    BY <1>3, <2>1 DEF ReadBytes, Goto, connectionVars
<1>4. CASE ReturnMessage
  BY <1>4, ReturnStep DEF ReturnMessage
<1>5. CASE Push
  <2>1. /\ taken' <= chunk /\ chunk <= emitted /\ UNCHANGED <<emitted, open, hubVars>>
        /\ pc = "push" /\ pc' = IF taken' = chunk THEN "pop" ELSE "push"
    BY <1>5, PushStep DEF Push
  <2>2. taken' \in Nat /\ chunk \in Nat
    BY <1>5, PushStep DEF TypeOK, LineTypeOK, HubTypeOK
  <2> QED
    BY <2>1, <2>2 DEF hubVars
<1>6. CASE SendNext
  BY <1>6 DEF SendNext, connectionVars
<1>7. CASE Transmit
  <2>1. emitted' = emitted + 1 /\ emitted \in Nat /\ chunk \in Nat
    BY <1>7 DEF Transmit, Emit, TypeOK, LineTypeOK, HubTypeOK
  <2>2. chunk <= emitted => chunk <= emitted'
    BY <2>1
  <2> QED
    BY <1>7, <2>2 DEF Transmit, Emit, hubVars
<1> QED
  BY <1>1, <1>2, <1>3, <1>4, <1>5, <1>6, <1>7 DEF Next, Process, Receive

\* Only Push changes what was parsed, and what was read never goes back.
LEMMA ParsedChange ==
    ASSUME TypeOK, LoopOK, [Next]_vars
    PROVE  Push \/ (UNCHANGED parsed /\ taken' \in Nat /\ taken <= taken')
<1>0. taken \in Nat /\ emitted \in Nat /\ taken <= emitted
  BY Lengths, Multiples DEF TypeOK, LineTypeOK
<1>1. CASE UNCHANGED <<parsed, taken>>
  BY <1>0, <1>1
<1>2. CASE OpenDevice
  BY <1>0, <1>2 DEF OpenDevice, Connect
<1>3. CASE ReturnMessage
  BY <1>1, <1>3, ReturnStep
<1>4. CASE \/ Test \/ OpenFails \/ ReceiveNothing \/ ReceiveError \/ ReadBytes \/ PopNothing
           \/ SendNext \/ Catch \/ Wake \/ Finish \/ Signal \/ Transmit
           \/ (\E d \in Port : Restart(d) \/ Read(d)) \/ UNCHANGED vars
  BY <1>1, <1>4 DEF Test, OpenFails, ReceiveNothing, ReceiveError, ReadBytes, PopNothing,
     SendNext, Catch, Wake, Finish, Close, Signal, Transmit, Emit, Restart, Read,
     connectionVars, historyVars, vars
<1> QED
  BY <1>2, <1>3, <1>4 DEF Next, Process, Receive

LEMMA ParsedNext ==
    TypeOK /\ LoopOK /\ ParsedInOrder /\ [Next]_vars => ParsedInOrder'
<1> SUFFICES ASSUME TypeOK, LoopOK, ParsedInOrder, [Next]_vars PROVE ParsedInOrder'
  OBVIOUS
<1>0. /\ parsed \in Seq(Frame) /\ taken \in Nat
      /\ \A k \in DOMAIN parsed : parsed[k] \in Nat /\ parsed[k] * FrameBytes \in Nat
  <2>1. parsed \in Seq(Frame) /\ taken \in Nat
    BY DEF TypeOK, LineTypeOK
  <2>2. \A k \in DOMAIN parsed : parsed[k] \in Nat
    BY <2>1, Lengths DEF Frame
  <2> QED
    BY <2>1, <2>2, Multiples
<1>1. CASE UNCHANGED parsed /\ taken' \in Nat /\ taken <= taken'
  BY <1>0, <1>1 DEF ParsedInOrder, Increasing
<1>2. CASE Push
  <2>1. CASE UNCHANGED parsed
    <3>1. taken' = taken + 1
      BY <1>2, PushStep
    <3> QED
      BY <1>0, <1>1, <2>1, <3>1
  <2>2. ASSUME NEW f \in Frame, f * FrameBytes = taken + 1, parsed' = Append(parsed, f)
        PROVE  ParsedInOrder'
    <3>1. taken' = taken + 1 /\ f \in Nat
      BY <1>2, PushStep, Lengths DEF Frame
    <3>2. \A k \in DOMAIN parsed : parsed[k] < f
      <4> SUFFICES ASSUME NEW k \in DOMAIN parsed PROVE parsed[k] < f
        OBVIOUS
      <4>1. parsed[k] * FrameBytes < f * FrameBytes
        BY <1>0, <2>2 DEF ParsedInOrder
      <4> QED
        BY <1>0, <3>1, <4>1, Multiples
    <3>3. PICK n \in Nat : n = Len(parsed)
      BY <1>0
    <3>4. /\ DOMAIN parsed = 1..n /\ DOMAIN parsed' = 1..(n + 1)
          /\ \A k \in 1..n : parsed'[k] = parsed[k]
          /\ parsed'[n + 1] = f
      BY <1>0, <2>2, <3>3, AppendProperties
    <3>5. \A k \in 1..(n + 1) : parsed'[k] * FrameBytes <= taken'
      BY <1>0, <2>2, <3>1, <3>3, <3>4 DEF ParsedInOrder
    <3>6. \A k, l \in 1..(n + 1) : k < l => parsed'[k] < parsed'[l]
      BY <3>2, <3>3, <3>4 DEF ParsedInOrder, Increasing
    <3> QED
      BY <3>4, <3>5, <3>6 DEF ParsedInOrder, Increasing
  <2> QED
    BY <1>2, <2>1, <2>2, PushStep
<1> QED
  BY <1>1, <1>2, ParsedChange

\* Taking up a message and parsing one keep the two queues' contents; everything that
\* clears the queue finds it empty.
LEMMA DroppedNext ==
    TypeOK /\ LoopOK /\ NothingParsedIsDropped /\ [Next]_vars => NothingParsedIsDropped'
<1> SUFFICES ASSUME TypeOK, LoopOK, NothingParsedIsDropped, [Next]_vars
             PROVE  NothingParsedIsDropped'
  OBVIOUS
<1>0. queue \in Seq(Frame) /\ parsed \in Seq(Frame) /\ handled \in Seq(Frame)
  BY DEF TypeOK, LineTypeOK
<1>1. ASSUME UNCHANGED <<parsed, handled, queue>>, pc = "done" => pc' = "done"
      PROVE  NothingParsedIsDropped'
  BY <1>1 DEF NothingParsedIsDropped
<1>2. CASE \/ Test \/ OpenFails \/ ReceiveNothing \/ ReceiveError \/ ReadBytes \/ PopNothing
           \/ SendNext \/ Wake \/ Signal \/ Transmit
           \/ (\E d \in Port : Restart(d) \/ Read(d)) \/ UNCHANGED vars
  BY <1>1, <1>2 DEF Test, OpenFails, ReceiveNothing, ReceiveError, ReadBytes, PopNothing,
     SendNext, Wake, Signal, Transmit, Emit, Restart, Read, Goto, connectionVars,
     historyVars, vars
<1>3. CASE OpenDevice \/ Catch
  <2>1. queue = <<>> /\ queue' = <<>> /\ UNCHANGED <<parsed, handled>> /\ pc # "done"
    BY <1>3 DEF OpenDevice, Connect, Catch, Close, Goto, LoopOK, historyVars
  <2> QED
    BY <1>1, <2>1
<1>4. CASE Finish
  BY <1>4 DEF Finish, Goto, NothingParsedIsDropped
<1>5. CASE ReturnMessage
  <2>1. PICK f \in Frame : /\ queue # <<>> /\ f = Head(queue) /\ queue' = Tail(queue)
                           /\ handled' = Append(handled, f)
                           /\ UNCHANGED parsed
    BY <1>5, ReturnStep
  <2>2. parsed = handled \o queue
    BY <1>5 DEF ReturnMessage, NothingParsedIsDropped
  <2>3. handled' \o queue' = handled \o queue
    BY <1>0, <2>1, MoveHead
  <2> QED
    BY <2>1, <2>2, <2>3 DEF NothingParsedIsDropped
<1>6. CASE Push
  <2>1. parsed = handled \o queue /\ UNCHANGED handled /\ pc # "done"
    BY <1>6 DEF Push, NothingParsedIsDropped
  <2>2. CASE UNCHANGED <<queue, parsed>>
    BY <1>1, <2>1, <2>2
  <2>3. ASSUME NEW f \in Frame, queue' = Append(queue, f), parsed' = Append(parsed, f)
        PROVE  NothingParsedIsDropped'
    <3>1. handled \o Append(queue, f) = Append(handled \o queue, f)
      BY <1>0, GrowSecond
    <3> QED
      BY <2>1, <2>3, <3>1 DEF NothingParsedIsDropped
  <2> QED
    BY <1>6, <2>2, <2>3, PushStep
<1> QED
  BY <1>2, <1>3, <1>4, <1>5, <1>6 DEF Next, Process, Receive

-----------------------------------------------------------------------------
(* The frames taken up and what is made of them                            *)

\* Which steps change what the hub has parsed, taken up or delivered.
LEMMA Moves ==
    ASSUME [Next]_vars
    PROVE  \/ ReturnMessage
           \/ Push
           \/ SendNext
           \/ \E d \in Port : Restart(d) \/ Read(d)
           \/ UNCHANGED <<parsed, handled, message, turn, buffer, got>>
BY DEF Next, Process, Receive, Test, OpenDevice, OpenFails, ReceiveNothing, ReceiveError,
   ReadBytes, PopNothing, Catch, Wake, Finish, Signal, Transmit, historyVars, hubVars,
   socketVars, vars

LEMMA PrefixNext ==
    TypeOK /\ LoopOK /\ NothingParsedIsDropped /\ HandledIsPrefix /\ [Next]_vars
        => HandledIsPrefix'
<1> SUFFICES ASSUME TypeOK, LoopOK, NothingParsedIsDropped, HandledIsPrefix, [Next]_vars
             PROVE  HandledIsPrefix'
  OBVIOUS
<1>0. queue \in Seq(Frame) /\ parsed \in Seq(Frame) /\ handled \in Seq(Frame)
  BY DEF TypeOK, LineTypeOK
<1>1. CASE UNCHANGED <<parsed, handled>> /\ message' \in {0, message}
  BY <1>1 DEF HandledIsPrefix
<1>2. CASE ReturnMessage
  <2>1. PICK f \in Frame : /\ queue # <<>> /\ f = Head(queue) /\ message' = f
                           /\ handled' = Append(handled, f) /\ UNCHANGED parsed
    BY <1>2, ReturnStep
  <2>2. parsed = handled \o queue
    BY <1>2 DEF ReturnMessage, NothingParsedIsDropped
  <2>a. PICK n \in Nat : n = Len(handled)
    BY <1>0
  <2>3. /\ n = Len(handled) /\ DOMAIN handled = 1..n
        /\ Len(handled') = n + 1 /\ DOMAIN handled' = 1..(n + 1)
        /\ \A k \in 1..n : handled'[k] = handled[k]
        /\ handled'[n + 1] = f
    BY <1>0, <2>1, <2>a, AppendProperties
  <2>4. n + 1 \in DOMAIN parsed /\ parsed[n + 1] = f
    <3>1. Len(queue) \in Nat /\ Len(queue) >= 1 /\ queue[1] = f
      BY <1>0, <2>1, EmptySeq
    <3>2. PICK m \in Nat : m = Len(queue) /\ m >= 1
      BY <3>1
    <3>3. /\ Len(handled \o queue) = n + m
          /\ \A k \in 1..(n + m) :
                (handled \o queue)[k] = IF k <= n THEN handled[k] ELSE queue[k - n]
          /\ DOMAIN (handled \o queue) = 1..(n + m)
      <4>1. handled \o queue \in Seq(Frame)
        BY <1>0, ConcatProperties
      <4> QED
        BY <1>0, <2>3, <3>2, <4>1, ConcatProperties
    <3>4. n + 1 \in 1..(n + m) /\ ~(n + 1 <= n) /\ (n + 1) - n = 1
      BY <3>2
    <3> QED
      BY <2>2, <3>1, <3>3, <3>4
  <2>5. \A k \in 1..n : k \in DOMAIN parsed /\ handled[k] = parsed[k]
    BY <2>3 DEF HandledIsPrefix
  <2>6. \A k \in 1..(n + 1) : k \in DOMAIN parsed /\ handled'[k] = parsed[k]
    BY <2>3, <2>4, <2>5
  <2>7. handled' # <<>> /\ handled'[Len(handled')] = f
    BY <2>3
  <2> QED
    BY <2>1, <2>3, <2>6, <2>7 DEF HandledIsPrefix
<1>3. CASE Push
  <2>1. UNCHANGED <<handled, message>>
    BY <1>3 DEF Push, hubVars
  <2>2. CASE UNCHANGED parsed
    BY <1>1, <2>1, <2>2
  <2>3. ASSUME NEW f \in Frame, parsed' = Append(parsed, f) PROVE HandledIsPrefix'
    <3>1. \A k \in DOMAIN parsed : k \in DOMAIN parsed' /\ parsed'[k] = parsed[k]
      BY <1>0, <2>3, AppendProperties
    <3> QED
      BY <2>1, <3>1 DEF HandledIsPrefix
  <2> QED
    BY <1>3, <2>2, <2>3, PushStep
<1>4. CASE SendNext
  BY <1>1, <1>4 DEF SendNext
<1>5. CASE \E d \in Port : Restart(d) \/ Read(d)
  BY <1>1, <1>5 DEF Restart, Read, hubVars, historyVars
<1>6. CASE UNCHANGED <<parsed, handled, message, turn, buffer, got>>
  BY <1>1, <1>6
<1> QED
  BY <1>2, <1>3, <1>4, <1>5, <1>6, Moves

\* A step that brings no program a frame it had not already.
LEMMA SentBefore ==
    ASSUME OnlyHandledIsSent, UNCHANGED <<handled, message, turn>>,
           \A d \in Port, f \in Frame :
              Occurs(f, got'[d]) \/ Occurs(f, buffer'[d])
                  => Occurs(f, got[d]) \/ Occurs(f, buffer[d])
    PROVE  OnlyHandledIsSent'
<1> SUFFICES ASSUME NEW n \in DOMAIN Destinations, NEW f \in Frame,
                    Occurs(f, got'[Destinations[n]]) \/ Occurs(f, buffer'[Destinations[n]])
             PROVE  \E k \in DOMAIN handled' :
                       handled'[k] = f /\ (message' # 0 /\ turn' <= n => k < Len(handled'))
  BY DEF OnlyHandledIsSent, Occurs
<1>1. Destinations[n] \in Port
  BY HubAssumption
<1>2. Occurs(f, got[Destinations[n]]) \/ Occurs(f, buffer[Destinations[n]])
  BY <1>1
<1>3. \E k \in DOMAIN handled : handled[k] = f /\ (message # 0 /\ turn <= n => k < Len(handled))
  BY <1>2 DEF OnlyHandledIsSent
<1> QED
  BY <1>3

\* What sendto may change.
LEMMA SendStep ==
    ASSUME TypeOK, LoopOK, SendNext
    PROVE  /\ Destinations[turn] \in Port /\ message \in Frame /\ message # 0
           /\ UNCHANGED <<handled, parsed, got>>
           /\ \/ buffer' = [buffer EXCEPT ![Destinations[turn]] = Append(@, message)]
              \/ Destinations[turn] \notin Steady /\ UNCHANGED buffer
           /\ message' = 0 \/ (message' = message /\ turn' = turn + 1)
           /\ turn < Len(Destinations) <=> message' # 0
           /\ turn \in Nat /\ turn <= Len(Destinations) /\ Len(Destinations) \in Nat
<1>1. turn \in DOMAIN Destinations /\ message \in 0..Frames /\ message # 0
  BY DEF TypeOK, HubTypeOK, LoopOK, SendNext
<1>2. Destinations \in Seq(Port) /\ Destinations # <<>>
  BY HubAssumption
<1>3. Destinations[turn] \in Port /\ message \in Frame
  BY <1>1, <1>2, Lengths DEF Frame
<1>4. turn \in Nat /\ turn <= Len(Destinations) /\ Len(Destinations) \in Nat
  BY <1>1, <1>2
<1> QED
  BY <1>1, <1>3, <1>4 DEF SendNext, SendTo, AfterSend

LEMMA SentNext ==
    TypeOK /\ LoopOK /\ HandledIsPrefix /\ OnlyHandledIsSent /\ [Next]_vars
        => OnlyHandledIsSent'
<1> SUFFICES ASSUME TypeOK, LoopOK, HandledIsPrefix, OnlyHandledIsSent, [Next]_vars
             PROVE  OnlyHandledIsSent'
  OBVIOUS
<1>0. /\ handled \in Seq(Frame)
      /\ buffer \in [Port -> Seq(Frame)] /\ got \in [Port -> Seq(Frame)]
  BY DEF TypeOK, LineTypeOK, SocketTypeOK
<1>1. ASSUME UNCHANGED <<handled, message, turn, buffer, got>> PROVE OnlyHandledIsSent'
  BY <1>1, SentBefore
<1>2. CASE ReturnMessage
  <2>1. PICK f \in Frame : handled' = Append(handled, f)
    BY <1>2, ReturnStep
  <2>2. message = 0 /\ UNCHANGED <<buffer, got>>
    BY <1>2 DEF ReturnMessage, LoopOK, socketVars
  <2>3. \A k \in DOMAIN handled :
           k \in DOMAIN handled' /\ handled'[k] = handled[k] /\ k < Len(handled')
    BY <1>0, <2>1, AppendProperties
  <2> SUFFICES ASSUME NEW n \in DOMAIN Destinations, NEW e \in Frame,
                      \/ Occurs(e, got'[Destinations[n]])
                      \/ Occurs(e, buffer'[Destinations[n]])
               PROVE  \E k \in DOMAIN handled' :
                         handled'[k] = e /\ (message' # 0 /\ turn' <= n => k < Len(handled'))
    BY DEF OnlyHandledIsSent, Occurs
  <2>4. Occurs(e, got[Destinations[n]]) \/ Occurs(e, buffer[Destinations[n]])
    BY <2>2
  <2>5. \E k \in DOMAIN handled : handled[k] = e
    BY <2>4 DEF OnlyHandledIsSent
  <2> QED
    BY <2>3, <2>5
<1>3. CASE Push
  BY <1>1, <1>3 DEF Push, hubVars, socketVars
<1>4. CASE SendNext
  <2>1. PICK d \in Port, m \in Frame, t \in Nat, len \in Nat :
           d = Destinations[turn] /\ m = message /\ t = turn /\ len = Len(handled)
    BY <1>0, <1>4, SendStep
  <2>2. /\ UNCHANGED <<handled, got>>
        /\ buffer' = [buffer EXCEPT ![d] = Append(@, m)] \/ UNCHANGED buffer
        /\ message' = 0 \/ turn' = t + 1
        /\ message # 0
    BY <1>4, <2>1, SendStep
  <2> SUFFICES ASSUME NEW n \in DOMAIN Destinations, NEW e \in Frame,
                      \/ Occurs(e, got'[Destinations[n]])
                      \/ Occurs(e, buffer'[Destinations[n]])
               PROVE  \E k \in DOMAIN handled :
                         handled[k] = e /\ (message' # 0 /\ turn' <= n => k < Len(handled))
    BY <2>2 DEF OnlyHandledIsSent, Occurs
  <2>3. n \in Nat /\ Destinations[n] \in Port
    BY HubAssumption
  <2>4. CASE Occurs(e, got[Destinations[n]]) \/ Occurs(e, buffer[Destinations[n]])
    <3>1. PICK k \in DOMAIN handled :
             handled[k] = e /\ (message # 0 /\ turn <= n => k < Len(handled))
      BY <2>4 DEF OnlyHandledIsSent
    <3> QED
      BY <2>1, <2>2, <2>3, <3>1
  <2>5. CASE ~Occurs(e, got[Destinations[n]]) /\ ~Occurs(e, buffer[Destinations[n]])
    <3>1. Occurs(e, buffer'[Destinations[n]])
      BY <2>2, <2>5
    <3>2. Destinations[n] = d /\ buffer' = [buffer EXCEPT ![d] = Append(@, m)]
      BY <1>0, <2>2, <2>3, <2>5, <3>1
    <3>3. Occurs(e, Append(buffer[d], m))
      BY <1>0, <3>1, <3>2
    <3>4. e = m
      <4>1. buffer[d] \in Seq(Frame) /\ ~Occurs(e, buffer[d])
        BY <1>0, <2>5, <3>2
      <4> QED
        BY <3>3, <4>1, AppendProperties DEF Occurs
    <3>5. n = t
      <4>1. turn \in DOMAIN Destinations /\ Destinations[n] = Destinations[turn]
        BY <2>1, <3>2 DEF TypeOK, HubTypeOK
      <4> QED
        BY <2>1, <4>1, HubAssumption
    <3>6. len \in DOMAIN handled /\ handled[len] = e
      BY <1>0, <2>1, <2>2, <3>4, EmptySeq DEF HandledIsPrefix
    <3>7. message' = 0 \/ ~(turn' <= n)
      BY <2>1, <2>2, <3>5
    <3> QED
      BY <3>6, <3>7
  <2> QED
    BY <2>4, <2>5
<1>5. ASSUME NEW d \in Port, Restart(d) PROVE OnlyHandledIsSent'
  <2>1. /\ UNCHANGED <<handled, message, turn, got>>
        /\ UNCHANGED buffer \/ buffer' = [buffer EXCEPT ![d] = <<>>]
    BY <1>5 DEF Restart, Bind, Unbind, hubVars, historyVars
  <2>2. ASSUME NEW b \in Port, NEW f \in Frame, Occurs(f, buffer'[b])
        PROVE  Occurs(f, buffer[b])
    <3>1. buffer'[b] = buffer[b] \/ buffer'[b] = <<>>
      BY <1>0, <2>1
    <3>2. ~Occurs(f, <<>>)
      BY EmptySeq DEF Occurs
    <3> QED
      BY <2>2, <3>1, <3>2
  <2> QED
    BY <2>1, <2>2, SentBefore
<1>6. ASSUME NEW d \in Port, Read(d) PROVE OnlyHandledIsSent'
  <2>1. UNCHANGED <<handled, message, turn>>
    BY <1>6 DEF Read, hubVars, historyVars
  <2>2. /\ buffer[d] # <<>> /\ buffer[d] \in Seq(Frame) /\ got[d] \in Seq(Frame)
        /\ got' = [got EXCEPT ![d] = Append(got[d], Head(buffer[d]))]
        /\ buffer' = [buffer EXCEPT ![d] = Tail(buffer[d])]
    BY <1>0, <1>6 DEF Read, ReceiveDatagram
  <2>3. ASSUME NEW f \in Frame, Occurs(f, Append(got[d], Head(buffer[d])))
        PROVE  Occurs(f, got[d]) \/ Occurs(f, buffer[d])
    <3>1. Head(buffer[d]) \in Frame /\ Head(buffer[d]) = buffer[d][1] /\ 1 \in DOMAIN buffer[d]
      BY <2>2, HeadTailProperties, EmptySeq
    <3> QED
      BY <2>2, <2>3, <3>1, AppendProperties DEF Occurs
  <2>4. ASSUME NEW f \in Frame, Occurs(f, Tail(buffer[d])) PROVE Occurs(f, buffer[d])
    <3>1. PICK k \in DOMAIN Tail(buffer[d]) : Tail(buffer[d])[k] = f
      BY <2>4 DEF Occurs
    <3>2. k + 1 \in DOMAIN buffer[d] /\ buffer[d][k + 1] = f
      BY <2>2, <3>1, HeadTailProperties
    <3> QED
      BY <3>2 DEF Occurs
  <2>5. ASSUME NEW b \in Port, NEW f \in Frame, Occurs(f, got'[b]) \/ Occurs(f, buffer'[b])
        PROVE  Occurs(f, got[b]) \/ Occurs(f, buffer[b])
    <3>1. CASE b = d
      BY <1>0, <2>2, <2>3, <2>4, <2>5, <3>1
    <3>2. CASE b # d
      BY <1>0, <2>2, <2>5, <3>2
    <3> QED
      BY <3>1, <3>2
  <2> QED
    BY <2>1, <2>5, SentBefore
<1> QED
  BY <1>1, <1>2, <1>3, <1>4, <1>5, <1>6, Moves

\* What waits stays in order, and after what was received, when a later frame is added.
LEMMA WaitNext ==
    /\ TypeOK /\ LoopOK /\ ParsedInOrder /\ HandledIsPrefix /\ OnlyHandledIsSent
    /\ WaitsInOrder /\ [Next]_vars
    => WaitsInOrder'
<1> SUFFICES ASSUME TypeOK, LoopOK, ParsedInOrder, HandledIsPrefix, OnlyHandledIsSent,
                    WaitsInOrder, [Next]_vars
             PROVE  WaitsInOrder'
  OBVIOUS
<1>0. /\ handled \in Seq(Frame) /\ parsed \in Seq(Frame)
      /\ buffer \in [Port -> Seq(Frame)] /\ got \in [Port -> Seq(Frame)]
      /\ \A f \in Frame : f \in Nat
  BY Lengths DEF TypeOK, LineTypeOK, SocketTypeOK, Frame
<1> DEFINE Ordered(g, b) == /\ Increasing(b)
                            /\ \A k \in DOMAIN g, l \in DOMAIN b : g[k] < b[l]
<1>1. ASSUME \A d \in Port : Ordered(got'[d], buffer'[d]) PROVE WaitsInOrder'
  BY <1>1 DEF WaitsInOrder, Increasing
<1>2. \A d \in Port : Ordered(got[d], buffer[d])
  BY DEF WaitsInOrder
<1> HIDE DEF Ordered
<1>3. ASSUME UNCHANGED <<buffer, got>> PROVE WaitsInOrder'
  BY <1>1, <1>2, <1>3
<1>4. CASE SendNext
  <2>1. PICK d \in Port, m \in Frame : d = Destinations[turn] /\ m = message
    BY <1>4, SendStep
  <2>2. /\ UNCHANGED got /\ message # 0
        /\ buffer' = [buffer EXCEPT ![d] = Append(@, m)] \/ UNCHANGED buffer
    BY <1>4, <2>1, SendStep
  <2>3. ASSUME NEW f \in Frame, Occurs(f, got[d]) \/ Occurs(f, buffer[d]) PROVE f < m
    <3>1. turn \in DOMAIN Destinations /\ turn <= turn
      BY <1>4, SendStep DEF TypeOK, HubTypeOK
    <3>2. PICK k \in DOMAIN handled : handled[k] = f /\ k < Len(handled)
      BY <2>1, <2>2, <2>3, <3>1 DEF OnlyHandledIsSent
    <3>3. PICK len \in Nat : len = Len(handled)
      BY <1>0
    <3>4. len \in DOMAIN handled /\ handled[len] = m /\ k < len
      BY <1>0, <2>1, <2>2, <3>2, <3>3 DEF HandledIsPrefix
    <3>5. /\ k \in DOMAIN parsed /\ parsed[k] = f
          /\ len \in DOMAIN parsed /\ parsed[len] = m
      BY <3>2, <3>4 DEF HandledIsPrefix
    <3> QED
      BY <3>4, <3>5 DEF ParsedInOrder, Increasing
  <2>4. Ordered(got[d], Append(buffer[d], m))
    <3>1. got[d] \in Seq(Frame) /\ buffer[d] \in Seq(Frame)
      BY <1>0
    <3>2. \A k \in DOMAIN got[d] : got[d][k] < m
      BY <2>3, <3>1 DEF Occurs
    <3>3. \A k \in DOMAIN buffer[d] : buffer[d][k] < m
      BY <2>3, <3>1 DEF Occurs
    <3>4. PICK n \in Nat : n = Len(buffer[d])
      BY <3>1
    <3>5. /\ DOMAIN buffer[d] = 1..n
          /\ DOMAIN Append(buffer[d], m) = 1..(n + 1)
          /\ \A k \in 1..n : Append(buffer[d], m)[k] = buffer[d][k]
          /\ Append(buffer[d], m)[n + 1] = m
      BY <3>1, <3>4, AppendProperties
    <3>6. Ordered(got[d], buffer[d])
      BY <1>2
    <3>7. Increasing(Append(buffer[d], m))
      BY <3>3, <3>5, <3>6 DEF Ordered, Increasing
    <3>8. \A k \in DOMAIN got[d], l \in 1..(n + 1) : got[d][k] < Append(buffer[d], m)[l]
      BY <3>2, <3>5, <3>6 DEF Ordered
    <3> QED
      BY <3>5, <3>7, <3>8 DEF Ordered
  <2>5. \A b \in Port : Ordered(got'[b], buffer'[b])
    BY <1>0, <1>2, <2>2, <2>4
  <2> QED
    BY <1>1, <2>5
<1>5. ASSUME NEW d \in Port, Restart(d) PROVE WaitsInOrder'
  <2>1. /\ UNCHANGED got
        /\ UNCHANGED buffer \/ buffer' = [buffer EXCEPT ![d] = <<>>]
    BY <1>5 DEF Restart, Bind, Unbind
  <2>2. \A g : Ordered(g, <<>>)
    BY EmptySeq DEF Ordered, Increasing
  <2>3. \A b \in Port : Ordered(got'[b], buffer'[b])
    BY <1>0, <1>2, <2>1, <2>2
  <2> QED
    BY <1>1, <2>3
<1>6. ASSUME NEW d \in Port, Read(d) PROVE WaitsInOrder'
  <2>1. /\ buffer[d] # <<>> /\ buffer[d] \in Seq(Frame) /\ got[d] \in Seq(Frame)
        /\ got' = [got EXCEPT ![d] = Append(got[d], Head(buffer[d]))]
        /\ buffer' = [buffer EXCEPT ![d] = Tail(buffer[d])]
    BY <1>0, <1>6 DEF Read, ReceiveDatagram
  <2>2. Ordered(Append(got[d], Head(buffer[d])), Tail(buffer[d]))
    <3>1. Ordered(got[d], buffer[d])
      BY <1>2
    <3>2. PICK n \in Nat, m \in Nat : n = Len(got[d]) /\ m = Len(buffer[d])
      BY <2>1
    <3>3. /\ DOMAIN buffer[d] = 1..m /\ 1 \in 1..m
          /\ DOMAIN Tail(buffer[d]) = 1..(m - 1)
          /\ \A k \in 1..(m - 1) : Tail(buffer[d])[k] = buffer[d][k + 1]
          /\ Head(buffer[d]) = buffer[d][1] /\ Head(buffer[d]) \in Frame
      BY <2>1, <3>2, HeadTailProperties, EmptySeq
    <3>4. /\ DOMAIN got[d] = 1..n
          /\ DOMAIN Append(got[d], Head(buffer[d])) = 1..(n + 1)
          /\ \A k \in 1..n : Append(got[d], Head(buffer[d]))[k] = got[d][k]
          /\ Append(got[d], Head(buffer[d]))[n + 1] = buffer[d][1]
      BY <2>1, <3>2, <3>3, AppendProperties
    <3>5. \A k \in 1..(m - 1) : k + 1 \in 1..m /\ 1 < k + 1
      BY <3>2
    <3>a. Increasing(buffer[d]) /\ \A k \in DOMAIN got[d], l \in 1..m : got[d][k] < buffer[d][l]
      BY <3>1, <3>3 DEF Ordered
    <3>6. Increasing(Tail(buffer[d]))
      <4> SUFFICES ASSUME NEW k \in 1..(m - 1), NEW l \in 1..(m - 1), k < l
                   PROVE  Tail(buffer[d])[k] < Tail(buffer[d])[l]
        BY <3>3 DEF Increasing
      <4>1. k + 1 \in 1..m /\ l + 1 \in 1..m /\ k + 1 < l + 1
        BY <3>5
      <4>2. buffer[d][k + 1] < buffer[d][l + 1]
        BY <3>3, <3>a, <4>1 DEF Increasing
      <4> QED
        BY <3>3, <4>2
    <3>7. ASSUME NEW k \in 1..(n + 1), NEW l \in 1..(m - 1)
          PROVE  Append(got[d], Head(buffer[d]))[k] < Tail(buffer[d])[l]
      <4>1. l + 1 \in 1..m /\ 1 < l + 1 /\ Tail(buffer[d])[l] = buffer[d][l + 1]
        BY <3>3, <3>5
      <4>2. buffer[d][1] < buffer[d][l + 1]
        BY <3>3, <3>a, <4>1 DEF Increasing
      <4>3. k \in 1..n \/ k = n + 1
        OBVIOUS
      <4> QED
        BY <3>4, <3>a, <4>1, <4>2, <4>3
    <3> QED
      BY <3>3, <3>4, <3>6, <3>7 DEF Ordered
  <2>3. \A b \in Port : Ordered(got'[b], buffer'[b])
    BY <1>0, <1>2, <2>1, <2>2
  <2> QED
    BY <1>1, <2>3
<1>7. CASE ReturnMessage \/ Push
  BY <1>3, <1>7 DEF ReturnMessage, Push, socketVars
<1> QED
  BY <1>3, <1>4, <1>5, <1>6, <1>7, Moves

\* All but the last element of a sequence.
LEMMA AllButLast ==
    ASSUME NEW S, NEW a \in Seq(S), NEW e \in S
    PROVE  /\ SubSeq(Append(a, e), 1, Len(Append(a, e)) - 1) = a
           /\ a # <<>> => /\ SubSeq(a, 1, Len(a) - 1) \in Seq(S)
                          /\ Append(SubSeq(a, 1, Len(a) - 1), a[Len(a)]) = a
<1>1. PICK n \in Nat : n = Len(a)
  OBVIOUS
<1>2. SubSeq(Append(a, e), 1, n) = a
  <2>1. /\ Append(a, e) \in Seq(S) /\ \A k \in 1..n : Append(a, e)[k] = a[k] /\ a[k] \in S
    BY <1>1, AppendProperties
  <2>2. /\ SubSeq(Append(a, e), 1, n) \in Seq(S)
        /\ Len(SubSeq(Append(a, e), 1, n)) = IF 1 <= n THEN n - 1 + 1 ELSE 0
        /\ \A k \in 1..(n - 1 + 1) : SubSeq(Append(a, e), 1, n)[k] = Append(a, e)[1 + k - 1]
    BY <1>1, <2>1, SubSeqProperties
  <2>3. Len(SubSeq(Append(a, e), 1, n)) = Len(a)
    BY <1>1, <2>2
  <2>4. \A k \in 1..Len(a) : SubSeq(Append(a, e), 1, n)[k] = a[k]
    BY <1>1, <2>1, <2>2
  <2> QED
    BY <2>2, <2>3, <2>4, SeqEqual
<1>3. Len(Append(a, e)) - 1 = n
  BY <1>1, AppendProperties
<1>4. ASSUME a # <<>>
      PROVE  /\ SubSeq(a, 1, n - 1) \in Seq(S)
             /\ Append(SubSeq(a, 1, n - 1), a[n]) = a
  <2>1. n >= 1 /\ a[n] \in S /\ \A k \in 1..(n - 1) : a[k] \in S
    BY <1>1, <1>4, EmptySeq
  <2>2. SubSeq(a, 1, n) = SubSeq(a, 1, n - 1) \o <<a[n]>>
    <3>1. 1 \in 1..Len(a) /\ n \in 1..Len(a)
      BY <1>1, <2>1
    <3> QED
      BY <3>1, SubSeqRecursiveSecond
  <2>3. SubSeq(a, 1, n) = a
    BY <1>1, SubSeqFull
  <2>4. SubSeq(a, 1, n - 1) \in Seq(S)
    BY <2>1, SubSeqProperties
  <2>5. Append(SubSeq(a, 1, n - 1), a[n]) = SubSeq(a, 1, n - 1) \o <<a[n]>>
    BY <2>1, <2>4, AppendIsConcat
  <2> QED
    BY <2>2, <2>3, <2>4, <2>5
<1> QED
  BY <1>1, <1>2, <1>3, <1>4

LEMMA HealthyNext ==
    /\ TypeOK /\ LoopOK /\ HandledIsPrefix /\ HealthyGetsEverything /\ [Next]_vars
    => HealthyGetsEverything'
<1> SUFFICES ASSUME TypeOK, LoopOK, HandledIsPrefix, HealthyGetsEverything, [Next]_vars
             PROVE  HealthyGetsEverything'
  OBVIOUS
<1>0. /\ handled \in Seq(Frame)
      /\ buffer \in [Port -> Seq(Frame)] /\ got \in [Port -> Seq(Frame)]
      /\ \A i \in DOMAIN Destinations : i \in Nat /\ i >= 1 /\ Destinations[i] \in Port
  BY HubAssumption DEF TypeOK, LineTypeOK, SocketTypeOK
<1>1. ASSUME UNCHANGED <<handled, message, turn>>,
             \A d \in Steady : got'[d] \o buffer'[d] = got[d] \o buffer[d]
      PROVE  HealthyGetsEverything'
  <2> SUFFICES ASSUME NEW i \in DOMAIN Destinations, Destinations[i] \in Steady
               PROVE  got'[Destinations[i]] \o buffer'[Destinations[i]] = SentTo(i)'
    BY DEF HealthyGetsEverything
  <2>1. got[Destinations[i]] \o buffer[Destinations[i]] = SentTo(i)
    BY DEF HealthyGetsEverything
  <2>2. SentTo(i)' = SentTo(i)
    BY <1>1 DEF SentTo
  <2> QED
    BY <1>1, <2>1, <2>2
<1>2. CASE ReturnMessage
  <2>1. PICK f \in Frame : message' = f /\ f # 0 /\ handled' = Append(handled, f)
    BY <1>2, ReturnStep
  <2>2. message = 0 /\ turn' = 1 /\ UNCHANGED <<buffer, got>>
    BY <1>2 DEF ReturnMessage, LoopOK, socketVars
  <2>3. SubSeq(handled', 1, Len(handled') - 1) = handled
    BY <1>0, <2>1, AllButLast
  <2>4. ASSUME NEW i \in DOMAIN Destinations
        PROVE  SentTo(i)' = handled /\ SentTo(i) = handled
    BY <1>0, <2>1, <2>2, <2>3 DEF SentTo
  <2> QED
    BY <2>2, <2>4 DEF HealthyGetsEverything
<1>3. CASE Push
  BY <1>1, <1>3 DEF Push, hubVars, socketVars
<1>4. CASE SendNext
  <2>1. PICK d \in Port, m \in Frame, t \in Nat :
           d = Destinations[turn] /\ m = message /\ t = turn
    BY <1>4, SendStep
  <2>2. /\ UNCHANGED <<handled, got>> /\ m # 0
        /\ buffer' = [buffer EXCEPT ![d] = Append(@, m)] \/ (d \notin Steady /\ UNCHANGED buffer)
        /\ message' = 0 \/ (message' = m /\ turn' = t + 1)
        /\ t < Len(Destinations) <=> message' # 0
        /\ t <= Len(Destinations)
    BY <1>4, <2>1, SendStep
  <2> SUFFICES ASSUME NEW i \in DOMAIN Destinations, Destinations[i] \in Steady
               PROVE  got'[Destinations[i]] \o buffer'[Destinations[i]] = SentTo(i)'
    BY DEF HealthyGetsEverything
  <2>3. got[Destinations[i]] \o buffer[Destinations[i]] = SentTo(i)
    BY DEF HealthyGetsEverything
  <2>4. i \in Nat /\ Destinations[i] \in Port /\ i <= Len(Destinations)
    BY <1>0, HubAssumption
  <2>5. CASE i = t
    <3>1. SentTo(i) = SubSeq(handled, 1, Len(handled) - 1)
      BY <2>1, <2>2, <2>4, <2>5 DEF SentTo
    <3>2. handled # <<>> /\ handled[Len(handled)] = m
      BY <2>1, <2>2 DEF HandledIsPrefix
    <3>3. SentTo(i)' = handled
      BY <2>1, <2>2, <2>4, <2>5 DEF SentTo
    <3>4. Destinations[i] = d /\ buffer'[d] = Append(buffer[d], m)
      BY <1>0, <2>1, <2>2, <2>5
    <3>5. got[d] \o Append(buffer[d], m) = Append(got[d] \o buffer[d], m)
      BY <1>0, GrowSecond
    <3>6. Append(SubSeq(handled, 1, Len(handled) - 1), m) = handled
      BY <1>0, <3>2, AllButLast
    <3> QED
      BY <2>2, <2>3, <3>1, <3>3, <3>4, <3>5, <3>6
  <2>6. CASE i # t
    <3>1. Destinations[i] # d
      <4>1. turn \in DOMAIN Destinations
        BY DEF TypeOK, HubTypeOK
      <4> QED
        BY <2>1, <2>6, <4>1, HubAssumption
    <3>2. buffer'[Destinations[i]] = buffer[Destinations[i]]
      BY <1>0, <2>2, <2>4, <3>1
    <3>3. SentTo(i)' = SentTo(i)
      BY <2>1, <2>2, <2>4, <2>6 DEF SentTo
    <3> QED
      BY <2>2, <2>3, <3>2, <3>3
  <2> QED
    BY <2>5, <2>6
<1>5. ASSUME NEW d \in Port, Restart(d) PROVE HealthyGetsEverything'
  <2>1. /\ UNCHANGED <<handled, message, turn, got>>
        /\ UNCHANGED buffer \/ (d \notin Steady /\ buffer' = [buffer EXCEPT ![d] = <<>>])
    BY <1>5 DEF Restart, Bind, Unbind, hubVars, historyVars
  <2>2. \A b \in Steady : got'[b] \o buffer'[b] = got[b] \o buffer[b]
    BY <1>0, <2>1, SocketAssumption
  <2> QED
    BY <1>1, <2>1, <2>2
<1>6. ASSUME NEW d \in Port, Read(d) PROVE HealthyGetsEverything'
  <2>1. UNCHANGED <<handled, message, turn>>
    BY <1>6 DEF Read, hubVars, historyVars
  <2>2. /\ buffer[d] # <<>> /\ buffer[d] \in Seq(Frame) /\ got[d] \in Seq(Frame)
        /\ got' = [got EXCEPT ![d] = Append(got[d], Head(buffer[d]))]
        /\ buffer' = [buffer EXCEPT ![d] = Tail(buffer[d])]
    BY <1>0, <1>6 DEF Read, ReceiveDatagram
  <2>3. Append(got[d], Head(buffer[d])) \o Tail(buffer[d]) = got[d] \o buffer[d]
    BY <2>2, MoveHead
  <2>4. ASSUME NEW b \in Steady PROVE got'[b] \o buffer'[b] = got[b] \o buffer[b]
    <3>1. b \in Port
      BY SocketAssumption
    <3>2. CASE b = d
      BY <1>0, <2>2, <2>3, <3>2
    <3>3. CASE b # d
      BY <1>0, <2>2, <3>1, <3>3
    <3> QED
      BY <3>2, <3>3
  <2> QED
    BY <1>1, <2>1, <2>4
<1>7. CASE UNCHANGED <<parsed, handled, message, turn, buffer, got>>
  BY <1>1, <1>7
<1> QED
  BY <1>2, <1>3, <1>4, <1>5, <1>6, <1>7, Moves

-----------------------------------------------------------------------------
(* The invariant                                                           *)

LEMMA InvInit == Init => IInv
<1> SUFFICES ASSUME Init PROVE IInv
  OBVIOUS
<1> USE DEF Init, ConnectionInit, SocketInit
<1>1. /\ <<>> \in Seq(Frame) /\ DOMAIN <<>> = {} /\ <<>> \o <<>> = <<>>
      /\ \A f : ~Occurs(f, <<>>)
  BY EmptySeq, ConcatEmptySeq DEF Occurs
<1>2. TypeOK
  <2>1. Frames * FrameBytes \in Nat /\ Frames \in Nat
    BY Lengths, Multiples
  <2>2. 1 \in DOMAIN Destinations
    BY HubAssumption
  <2>3. LineTypeOK
    <3>1. /\ emitted = 0 /\ taken = 0 /\ open = FALSE
          /\ queue = <<>> /\ parsed = <<>> /\ handled = <<>>
      OBVIOUS
    <3>2. 0 \in 0..(Frames * FrameBytes) /\ 0 \in 0..0
      BY <2>1
    <3> QED
      BY <1>1, <3>1, <3>2 DEF LineTypeOK
  <2>4. HubTypeOK
    BY <2>1, <2>2 DEF HubTypeOK
  <2>5. SocketTypeOK
    BY <1>1 DEF SocketTypeOK
  <2> QED
    BY <2>3, <2>4, <2>5 DEF TypeOK
<1>3. LoopOK
  BY DEF LoopOK
<1>4. ParsedInOrder /\ HandledIsPrefix
  BY <1>1 DEF ParsedInOrder, HandledIsPrefix, Increasing
<1>5. NothingParsedIsDropped
  BY <1>1 DEF NothingParsedIsDropped
<1>6. \A d \in Port : got[d] = <<>> /\ buffer[d] = <<>>
  OBVIOUS
<1>7. \A i \in DOMAIN Destinations : Destinations[i] \in Port
  BY HubAssumption
<1>8. OnlyHandledIsSent
  BY <1>1, <1>6, <1>7 DEF OnlyHandledIsSent
<1>9. WaitsInOrder
  BY <1>1, <1>6 DEF WaitsInOrder, Increasing
<1>10. HealthyGetsEverything
  <2>1. ASSUME NEW i \in DOMAIN Destinations
        PROVE  got[Destinations[i]] \o buffer[Destinations[i]] = SentTo(i)
    BY <1>1, <1>6, <1>7 DEF SentTo
  <2> QED
    BY <2>1 DEF HealthyGetsEverything
<1> QED
  BY <1>2, <1>3, <1>4, <1>5, <1>8, <1>9, <1>10 DEF IInv

LEMMA InvNext == IInv /\ [Next]_vars => IInv'
BY LineTypeNext, HubTypeNext, SocketTypeNext, LoopNext, ParsedNext, DroppedNext, PrefixNext,
   SentNext, WaitNext, HealthyNext DEF IInv, TypeOK

\* The invariant holds of every behaviour of the hub.
LEMMA Invariant == Spec => []IInv
BY InvInit, InvNext, PTL DEF Spec

\* No frame that was parsed is lost inside the hub, whatever the errors and the
\* reconnections: it is taken up for sending or still queued, until the hub ends.
THEOREM NoFrameLost == Spec => []NothingParsedIsDropped
<1>1. IInv => NothingParsedIsDropped
  BY DEF IInv
<1> QED
  BY <1>1, Invariant, PTL

\* A program that stays has received, or has waiting, exactly the frames sent to its
\* destination so far, in order, whatever becomes of the other destinations.
THEOREM HealthyIsServed == Spec => []HealthyGetsEverything
<1>1. IInv => HealthyGetsEverything
  BY DEF IInv
<1> QED
  BY <1>1, Invariant, PTL

\* The hub with its sockets is a fan-out: each program gets frames that were parsed,
\* later ones each time.
THEOREM FanOutImplemented == Spec => ImplementsFanOut
<1>1. Init => AbstractFanOut!Init
  BY DEF Init, ConnectionInit, SocketInit, AbstractFanOut!Init
<1>2. IInv /\ [Next]_vars => [AbstractFanOut!Next]_(AbstractFanOut!fanOutVars)
  <2> SUFFICES ASSUME IInv, [Next]_vars
               PROVE  AbstractFanOut!Next \/ UNCHANGED AbstractFanOut!fanOutVars
    OBVIOUS
  <2> USE DEF AbstractFanOut!fanOutVars
  <2>0. /\ TypeOK /\ LoopOK
        /\ parsed \in Seq(Frame)
        /\ buffer \in [Port -> Seq(Frame)] /\ got \in [Port -> Seq(Frame)]
        /\ \A f \in Frame : f \in Nat
    BY Lengths DEF IInv, TypeOK, LineTypeOK, SocketTypeOK, Frame
  <2>1. CASE Push
    <3>1. UNCHANGED got
      BY <2>1 DEF Push, socketVars
    <3>2. ASSUME NEW f \in Frame, f * FrameBytes = taken + 1, parsed' = Append(parsed, f)
          PROVE  AbstractFanOut!Next
      <4>1. ASSUME NEW k \in DOMAIN parsed PROVE parsed[k] < f
        <5>1. parsed[k] * FrameBytes <= taken
          BY DEF IInv, ParsedInOrder
        <5>2. parsed[k] \in Frame /\ parsed[k] \in Nat /\ f \in Nat /\ taken \in Nat
          BY <2>0 DEF TypeOK, LineTypeOK
        <5>3. parsed[k] * FrameBytes \in Nat
          BY <5>2, Multiples
        <5>4. parsed[k] * FrameBytes < f * FrameBytes
          BY <3>2, <5>1, <5>2, <5>3
        <5> QED
          BY <5>2, <5>4, Multiples
      <4>2. AbstractFanOut!Publish(f)
        BY <3>1, <3>2, <4>1 DEF AbstractFanOut!Publish, AbstractFanOut!Newer
      <4> QED
        BY <4>2 DEF AbstractFanOut!Next
    <3> QED
      BY <2>0, <2>1, <3>1, <3>2, PushStep
  <2>2. ASSUME NEW d \in Port, Read(d) PROVE AbstractFanOut!Next
    <3>1. /\ UNCHANGED parsed
          /\ buffer[d] # <<>> /\ buffer[d] \in Seq(Frame) /\ got[d] \in Seq(Frame)
          /\ got' = [got EXCEPT ![d] = Append(@, Head(buffer[d]))]
      BY <2>0, <2>2 DEF Read, ReceiveDatagram, historyVars
    <3>2. PICK f \in Frame : f = Head(buffer[d]) /\ 1 \in DOMAIN buffer[d] /\ f = buffer[d][1]
      BY <3>1, HeadTailProperties, EmptySeq
    <3>3. \E i \in DOMAIN parsed : parsed[i] = f
      <4>1. PICK n \in DOMAIN Destinations : Destinations[n] = d
        BY HubAssumption
      <4>2. PICK k \in DOMAIN handled : handled[k] = f
        BY <3>2, <4>1 DEF IInv, OnlyHandledIsSent, Occurs
      <4> QED
        BY <4>2 DEF IInv, HandledIsPrefix
    <3>4. \A i \in DOMAIN got[d] : got[d][i] < f
      BY <3>2 DEF IInv, WaitsInOrder
    <3>5. AbstractFanOut!Deliver(d, f)
      BY <3>1, <3>2, <3>3, <3>4 DEF AbstractFanOut!Deliver, AbstractFanOut!Newer
    <3> QED
      BY <3>5 DEF AbstractFanOut!Next
  <2>3. CASE ReturnMessage
    BY <2>0, <2>3, ReturnStep DEF ReturnMessage, socketVars
  <2>4. CASE SendNext
    BY <2>0, <2>4, SendStep
  <2>5. ASSUME NEW d \in Port, Restart(d) PROVE UNCHANGED <<parsed, got>>
    BY <2>5 DEF Restart, Bind, Unbind, historyVars
  <2> QED
    BY <2>1, <2>2, <2>3, <2>4, <2>5, Moves
<1> QED
  BY <1>1, <1>2, Invariant, PTL DEF Spec, ImplementsFanOut, AbstractFanOut!Spec

=============================================================================
