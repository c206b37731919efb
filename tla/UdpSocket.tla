----------------------------- MODULE UdpSocket -----------------------------
(***************************************************************************)
(* PixhawkConnection on a UDP port, one in the program behind each         *)
(* destination of the hub.  A datagram holds one whole frame, so that the  *)
(* parser is idle between datagrams and each of them fills the queue with  *)
(* one message, which receive_message returns at once.                     *)
(***************************************************************************)
EXTENDS Naturals, Sequences

CONSTANTS
    Port,           \* the ports the hub sends to
    Room,           \* datagrams the kernel holds for a socket
    Steady          \* the ports of programs that stay and always have room

ASSUME SocketAssumption == Room \in Nat \ {0} /\ Steady \subseteq Port

VARIABLES
    bound,          \* ports with a socket
    buffer,         \* the datagrams the kernel holds for each
    got             \* history: what receive_message has returned to each program

socketVars == <<bound, buffer, got>>

SocketInit ==
    /\ bound = Steady
    /\ buffer = [d \in Port |-> <<>>]
    /\ got = [d \in Port |-> <<>>]

\* connect(): the program starts, or tries again after an error.
Bind(d) ==
    /\ d \notin bound
    /\ bound' = bound \cup {d}
    /\ UNCHANGED <<buffer, got>>

\* close(), or the end of the program.  What the kernel holds goes with the socket.
Unbind(d) ==
    /\ d \in bound \ Steady
    /\ bound' = bound \ {d}
    /\ buffer' = [buffer EXCEPT ![d] = <<>>]
    /\ UNCHANGED got

\* receive_message(): poll, recv, push_bytes and pop_message.
ReceiveDatagram(d) ==
    /\ d \in bound /\ buffer[d] # <<>>
    /\ got' = [got EXCEPT ![d] = Append(@, Head(buffer[d]))]
    /\ buffer' = [buffer EXCEPT ![d] = Tail(@)]
    /\ UNCHANGED bound

\* sendto() on the same machine.  The datagram is lost when there is no socket at the
\* port or no room in its buffer, and when the call fails.
SendTo(d, f) ==
    /\ \/ /\ d \in bound
          /\ d \in Steady \/ Len(buffer[d]) < Room
          /\ buffer' = [buffer EXCEPT ![d] = Append(@, f)]
       \/ d \notin Steady /\ UNCHANGED buffer
    /\ UNCHANGED <<bound, got>>

=============================================================================
