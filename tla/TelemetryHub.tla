---------------------------- MODULE TelemetryHub ----------------------------
(***************************************************************************)
(* telemetry_hub: one thread reads frames from the serial connection and   *)
(* sends each of them to every UDP destination in turn, where programs     *)
(* come and go.  "pc" is the statement it is about to execute.             *)
(***************************************************************************)
EXTENDS PixhawkConnection, UdpSocket

CONSTANT Destinations       \* the destinations, in the order given

ASSUME HubAssumption ==
    /\ Destinations \in Seq(Port) /\ Destinations # <<>>
    /\ \A i, j \in DOMAIN Destinations : Destinations[i] = Destinations[j] => i = j
    /\ \A d \in Port : \E i \in DOMAIN Destinations : Destinations[i] = d

VARIABLES
    pc,             \* the next statement
    chunk,          \* last byte of those receive_message has read
    message,        \* the frame being sent, 0 if there is none
    turn,           \* index of the destination it is sent to next
    stop,           \* stop_requested
    parsed,         \* history: the frames push_bytes has queued
    handled,        \* history: the frames receive_message has returned
    flushed         \* history: the last byte thrown away by connect

hubVars == <<chunk, message, turn>>
historyVars == <<parsed, handled, flushed>>
vars == <<connectionVars, pc, hubVars, stop, historyVars, socketVars>>

Init ==
    /\ ConnectionInit
    /\ SocketInit
    /\ pc = "test"
    /\ chunk = 0
    /\ message = 0
    /\ turn = 1
    /\ stop = FALSE
    /\ parsed = <<>>
    /\ handled = <<>>
    /\ flushed = 0

Goto(from, to) == pc = from /\ pc' = to

-----------------------------------------------------------------------------

Test ==
    /\ Goto("test", IF stop THEN "finish" ELSE IF open THEN "receive" ELSE "connect")
    /\ UNCHANGED <<connectionVars, hubVars, stop, historyVars, socketVars>>

OpenDevice ==
    /\ Goto("connect", "receive")
    /\ Connect
    /\ flushed' = taken'
    /\ UNCHANGED <<hubVars, stop, parsed, handled, socketVars>>

OpenFails ==
    /\ Goto("connect", "catch")
    /\ UNCHANGED <<connectionVars, hubVars, stop, historyVars, socketVars>>

\* receive_message returns a queued message, before it reads or after it has read,
\* and it is sent from the first destination on.
ReturnMessage ==
    /\ pc \in {"receive", "pop"} /\ pc' = "send"
    /\ \E f \in Frame :
          /\ TakeQueued(f)
          /\ message' = f
          /\ handled' = Append(handled, f)
    /\ turn' = 1
    /\ UNCHANGED <<chunk, stop, parsed, flushed, socketVars>>

\* Mutant of ReceiveNothing: polls before it looks at the queue.
PollsFirst ==
    /\ Goto("receive", "test")
    /\ UNCHANGED <<connectionVars, hubVars, stop, historyVars, socketVars>>

\* poll times out, or read returns nothing.
ReceiveNothing ==
    /\ queue = <<>>
    /\ Goto("receive", "test")
    /\ UNCHANGED <<connectionVars, hubVars, stop, historyVars, socketVars>>

\* Mutant of ReceiveError: the descriptor is examined before the queue.
FailsFirst ==
    /\ Goto("receive", "catch")
    /\ UNCHANGED <<connectionVars, hubVars, stop, historyVars, socketVars>>

\* poll or read fails, or the device is gone.
ReceiveError ==
    /\ queue = <<>>
    /\ Goto("receive", "catch")
    /\ UNCHANGED <<connectionVars, hubVars, stop, historyVars, socketVars>>

\* read returns some of the bytes the kernel holds.
ReadBytes ==
    /\ queue = <<>>
    /\ Goto("receive", "push")
    /\ chunk' \in (taken + 1)..emitted
    /\ UNCHANGED <<connectionVars, message, turn, stop, historyVars, socketVars>>

Push ==
    /\ pc = "push" /\ PushByte(taken + 1)
    /\ pc' = IF taken' = chunk THEN "pop" ELSE "push"
    /\ parsed' = parsed \o SubSeq(queue', Len(queue) + 1, Len(queue'))
    /\ UNCHANGED <<hubVars, stop, handled, flushed, socketVars>>

PopNothing ==
    /\ queue = <<>>
    /\ Goto("pop", "test")
    /\ UNCHANGED <<connectionVars, hubVars, stop, historyVars, socketVars>>

\* Mutant of AfterSend: a failed sendto ends the loop over the destinations.
StopsAtFailure(d) == buffer'[d] = buffer[d] \/ turn = Len(Destinations)

\* Whether sending to d was the last thing to do for this message.
AfterSend(d) == turn = Len(Destinations)

\* sendto: whether the datagram is lost or not, the next destination is tried.
SendNext ==
    LET d == Destinations[turn] IN
    /\ pc = "send"
    /\ SendTo(d, message)
    /\ IF AfterSend(d)
       THEN pc' = "test" /\ message' = 0 /\ turn' = 1
       ELSE pc' = "send" /\ turn' = turn + 1 /\ UNCHANGED message
    /\ UNCHANGED <<connectionVars, chunk, stop, parsed, handled, flushed>>

Catch ==
    /\ Goto("catch", "sleep")
    /\ Close
    /\ UNCHANGED <<hubVars, stop, historyVars, socketVars>>

\* Mutant of Wake: the connection is retried until it opens.
RetriesUntilOpen ==
    /\ Goto("sleep", "connect")
    /\ UNCHANGED <<connectionVars, hubVars, stop, historyVars, socketVars>>

\* The reconnect delay has passed; how long it is does not matter here.
Wake ==
    /\ Goto("sleep", "test")
    /\ UNCHANGED <<connectionVars, hubVars, stop, historyVars, socketVars>>

Finish ==
    /\ Goto("finish", "done")
    /\ Close
    /\ UNCHANGED <<hubVars, stop, historyVars, socketVars>>

-----------------------------------------------------------------------------

\* signal_handler, on SIGINT or SIGTERM.
Signal ==
    /\ ~stop
    /\ stop' = TRUE
    /\ UNCHANGED <<connectionVars, pc, hubVars, historyVars, socketVars>>

Transmit == Emit /\ UNCHANGED <<pc, hubVars, stop, historyVars, socketVars>>

Receive == ReturnMessage \/ ReceiveNothing \/ ReceiveError \/ ReadBytes \/ Push \/ PopNothing

\* The hub's only thread.
Process ==
    \/ Test \/ OpenDevice \/ OpenFails
    \/ Receive \/ SendNext
    \/ Catch \/ Wake \/ Finish

\* The programs behind the destinations.
Restart(d) ==
    /\ Bind(d) \/ Unbind(d)
    /\ UNCHANGED <<connectionVars, pc, hubVars, stop, historyVars>>

Read(d) ==
    /\ ReceiveDatagram(d)
    /\ UNCHANGED <<connectionVars, pc, hubVars, stop, historyVars>>

Next == Process \/ Signal \/ Transmit \/ \E d \in Port : Restart(d) \/ Read(d)

\* The thread runs: each of its waits (poll, sleep_for) has a timeout, and sendto on
\* a datagram socket returns.  A program that stays reads its socket in a loop or on a
\* timer.  The autopilot, the device, the signal and the other programs owe nothing.
Spec ==
    /\ Init /\ [][Next]_vars
    /\ WF_vars(Process)
    /\ \A d \in Steady : WF_vars(Read(d))

-----------------------------------------------------------------------------
(* Properties                                                              *)

\* Until the hub ends, no frame that was parsed is lost inside it: it has been taken
\* up for sending or is still queued.  close() and connect() clear the queue, on
\* every error and reconnection, so this rests on receive_message looking at its
\* queue before it looks at the descriptor (pixhawk_connection.cpp:240-273).
NothingParsedIsDropped == pc # "done" => parsed = handled \o queue

\* What has been sent to the i-th destination so far.
SentTo(i) ==
    IF message # 0 /\ turn <= i THEN SubSeq(handled, 1, Len(handled) - 1) ELSE handled

\* A program that stays gets every frame taken up, in order, once, whatever becomes of
\* the datagrams for the others: it has received it or has it waiting
\* (telemetry_hub.cpp:124-132).
HealthyGetsEverything ==
    \A i \in DOMAIN Destinations :
        LET d == Destinations[i] IN d \in Steady => got[d] \o buffer[d] = SentTo(i)

\* Every program sees frames in the order they came from the autopilot, with gaps but
\* no repetition, across read errors, reconnections, lost datagrams and its own
\* restarts.
AbstractFanOut == INSTANCE FanOut WITH published <- parsed, Destination <- Port
ImplementsFanOut == AbstractFanOut!Spec

\* Every frame whose bytes have all been handed to the parser since the device was
\* opened, at a frame boundary, is parsed: "Reset mavlink parser state"
\* (pixhawk_connection.cpp:218).
FrameAfterConnectIsParsed ==
    open /\ flushed % FrameBytes = 0 =>
        \A f \in Frame :
            flushed < (f - 1) * FrameBytes + 1 /\ f * FrameBytes <= taken =>
                \E i \in DOMAIN parsed : parsed[i] = f

\* A parsed frame reaches every program that stays, although nothing more arrives from
\* the autopilot: receive_message does not wait for input while a message is queued
\* (pixhawk_connection.cpp:240-245).
ParsedIsForwarded ==
    \A f \in Frame : \A d \in Steady :
        (\E i \in DOMAIN queue : queue[i] = f) ~> (stop \/ \E i \in DOMAIN got[d] : got[d][i] = f)

\* After SIGINT or SIGTERM the hub ends, also while the device stays away.
StopEnds == stop ~> pc = "done"

=============================================================================
