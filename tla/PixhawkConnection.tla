------------------------- MODULE PixhawkConnection -------------------------
(***************************************************************************)
(* PixhawkConnection on a serial device: the descriptor, the bytes the     *)
(* kernel holds, the MAVLink parser and the queue of parsed messages.      *)
(* The autopilot sends frames 1, 2, ... of FrameBytes bytes each; a byte   *)
(* is its number on the line.  A frame put together from bytes of several  *)
(* frames is taken to fail its checksum.                                   *)
(***************************************************************************)
EXTENDS Integers, Sequences

CONSTANTS
    Frames,         \* bound: number of frames the autopilot sends
    FrameBytes,     \* bytes of a frame: start mark, length, the rest
    MaxGarbage      \* bound: bytes still expected after a garbled length

ASSUME ConnectionAssumption ==
    /\ Frames \in Nat
    /\ FrameBytes \in Nat /\ FrameBytes >= 3
    /\ MaxGarbage \in Nat \ {0}

VARIABLES
    emitted,    \* last byte put on the line
    taken,      \* last byte read, or lost; the kernel holds those after it
    open,       \* _fd >= 0
    parser,     \* the channel's status, static in mavlink_get_channel_status
    queue       \* _message_queue

connectionVars == <<emitted, taken, open, parser, queue>>

Frame == 1..Frames
FrameOf(n) == (n - 1) \div FrameBytes + 1
PositionOf(n) == ((n - 1) % FrameBytes) + 1

\* parse_state, the bytes still expected, and the frame whose bytes, from the start
\* mark on and without a gap, have been taken so far (0: there is no such frame).
Idle == [expects |-> "start", frame |-> 0, left |-> 0]

ConnectionInit ==
    /\ emitted = 0
    /\ taken = 0
    /\ open = FALSE
    /\ parser = Idle
    /\ queue = <<>>

-----------------------------------------------------------------------------
(* mavlink_parse_char                                                      *)

\* A byte where no frame is being read: a start mark begins one, other bytes are
\* skipped unless they happen to look like one.
Begin(n) ==
    IF PositionOf(n) = 1
    THEN {[expects |-> "length", frame |-> FrameOf(n), left |-> 0]}
    ELSE {Idle, [expects |-> "length", frame |-> 0, left |-> 0]}

\* The length byte; another byte in its place is a length as good as any.
TakeLength(n) ==
    IF parser.frame = FrameOf(n) /\ PositionOf(n) = 2
    THEN {[expects |-> "rest", frame |-> parser.frame, left |-> FrameBytes - 2]}
    ELSE [expects : {"rest"}, frame : {0}, left : 1..MaxGarbage]

Continues(n) ==
    /\ parser.frame = FrameOf(n)
    /\ PositionOf(n) = FrameBytes - parser.left + 1

\* A byte out of place may also carry flags the parser rejects at once.
TakeRest(n) ==
    IF Continues(n)
    THEN {[parser EXCEPT !.left = @ - 1]}
    ELSE {Idle, [parser EXCEPT !.left = @ - 1, !.frame = 0]}

\* mavlink_parse_char on byte n of the line, and push_bytes' use of its result.
\* A frame that fails its checksum is dropped; if its last byte is a start mark, or
\* looks like one, the next frame begins with it.
PushByte(n) ==
    /\ \/ parser.expects = "start" /\ parser' \in Begin(n) /\ UNCHANGED queue
       \/ parser.expects = "length" /\ parser' \in TakeLength(n) /\ UNCHANGED queue
       \/ /\ parser.expects = "rest" /\ parser.left > 1
          /\ parser' \in TakeRest(n)
          /\ UNCHANGED queue
       \/ /\ parser.expects = "rest" /\ parser.left = 1 /\ Continues(n)
          /\ parser' = Idle
          /\ queue' = Append(queue, parser.frame)
       \/ /\ parser.expects = "rest" /\ parser.left = 1 /\ ~Continues(n)
          /\ parser' \in {Idle} \cup Begin(n)
          /\ UNCHANGED queue
    /\ taken' = n
    /\ UNCHANGED <<emitted, open>>

-----------------------------------------------------------------------------

\* Opening flushes what the kernel holds and clears the queue.  The parser's state
\* is not among what connect() clears: _status is a copy of it.
Connect ==
    /\ ~open
    /\ open' = TRUE
    /\ taken' = emitted
    /\ queue' = <<>>
    /\ UNCHANGED <<emitted, parser>>

Close ==
    /\ open' = FALSE
    /\ queue' = <<>>
    /\ UNCHANGED <<emitted, taken, parser>>

\* Mutant of TakeQueued: the newest message instead of the oldest.
TakeQueuedNewest(f) ==
    /\ queue # <<>>
    /\ f = queue[Len(queue)]
    /\ queue' = SubSeq(queue, 1, Len(queue) - 1)
    /\ UNCHANGED <<emitted, taken, open, parser>>

\* The oldest parsed message is taken without looking at the descriptor.
TakeQueued(f) ==
    /\ queue # <<>>
    /\ f = Head(queue)
    /\ queue' = Tail(queue)
    /\ UNCHANGED <<emitted, taken, open, parser>>

\* The autopilot puts the next byte on the line.
Emit ==
    /\ emitted < Frames * FrameBytes
    /\ emitted' = emitted + 1
    /\ UNCHANGED <<taken, open, parser, queue>>

=============================================================================
