------------------------------ MODULE UdpRelay ------------------------------
(***************************************************************************)
(* udp-relay/udp-relay.c: a single-threaded process that receives the tag  *)
(* datagrams of the test clients on UDP port 9999 and sends each one on,   *)
(* as a C string, to 127.0.0.1:3500.  Every forwarded datagram goes out on *)
(* a socket of its own, which sendit() never closes.                       *)
(*                                                                         *)
(* A datagram is a sequence of bytes; byte 0 is the NUL character.  rx is  *)
(* a history variable: the non-empty datagrams recvfrom() has returned.    *)
(***************************************************************************)
EXTENDS Integers, Sequences, FiniteSets

CONSTANTS
  Datagrams,    \* the datagrams clients may send to port 9999
  RecvLen,      \* bytes recvfrom() takes from one datagram (1000)
  FdLimit,      \* descriptors the process may hold (RLIMIT_NOFILE)
  QueueLimit,   \* datagrams the kernel queues on port 9999
  MaxArrivals   \* bound of the model: datagrams that reach the host

ASSUME RelayConstants ==
  /\ Datagrams \subseteq Seq(Nat)
  /\ RecvLen \in Nat \ {0}
  /\ FdLimit \in Nat /\ FdLimit >= 3
  /\ QueueLimit \in Nat \ {0}
  /\ MaxArrivals \in Nat

VARIABLES
  pc,         \* where main() is
  port,       \* who holds port 9999
  inherited,  \* descriptors already open when main() starts
  fds,        \* descriptors open now
  rxq,        \* datagrams queued by the kernel on port 9999
  rx,         \* history: non-empty datagrams received by main()
  tx,         \* datagrams sent to port 3500
  arrivals    \* datagrams that reached the host so far

vars == <<pc, port, inherited, fds, rxq, rx, tx, arrivals>>

-----------------------------------------------------------------------------

\* strlen(): how many bytes of the buffer come before its first NUL.
strlen(b) == Cardinality({i \in 1..Len(b) : \A j \in 1..i : b[j] # 0})

\* recvfrom() keeps at most RecvLen bytes of a datagram and discards the rest.
Received(d) == SubSeq(d, 1, IF Len(d) < RecvLen THEN Len(d) ELSE RecvLen)

\* Mutant: sendit() is given the length recvfrom() returned.
RelayedBinary(d) == Received(d)

\* The datagram sendit() sends for a datagram that was received.
Relayed(d) == SubSeq(Received(d), 1, strlen(Received(d)))

-----------------------------------------------------------------------------

Init ==
  /\ pc = "start"
  /\ port \in {"free", "taken"}
  /\ inherited \in 3..FdLimit
  /\ fds = inherited
  /\ rxq = <<>> /\ rx = <<>> /\ tx = <<>>
  /\ arrivals = 0

\* socket() fails: "socket failed", EXIT_FAILURE.
SocketFails ==
  /\ pc = "start"
  /\ fds = FdLimit
  /\ pc' = "exited"
  /\ UNCHANGED <<port, inherited, fds, rxq, rx, tx, arrivals>>

\* socket() succeeds but another socket holds port 9999: "bind failed".
BindFails ==
  /\ pc = "start"
  /\ fds < FdLimit
  /\ port = "taken"
  /\ pc' = "exited"
  /\ fds' = inherited      \* the kernel closes the new socket when main() exits
  /\ UNCHANGED <<port, inherited, rxq, rx, tx, arrivals>>

\* The socket is created and bound; main() enters its endless loop.
Bind ==
  /\ pc = "start"
  /\ fds < FdLimit
  /\ port = "free"
  /\ pc' = "relaying"
  /\ port' = "relay"
  /\ fds' = fds + 1
  /\ UNCHANGED <<inherited, rxq, rx, tx, arrivals>>

\* A datagram reaches the host: queued when the relay holds the port and its
\* queue has room, dropped otherwise.
Arrive(d) ==
  /\ arrivals < MaxArrivals
  /\ arrivals' = arrivals + 1
  /\ rxq' = IF port = "relay" /\ Len(rxq) < QueueLimit THEN Append(rxq, d) ELSE rxq
  /\ UNCHANGED <<pc, port, inherited, fds, rx, tx>>

\* Mutant: the limit is looked at after the descriptor is counted.
senditOffByOne(d) ==
  IF fds < FdLimit
  THEN /\ fds' = fds + 1
       /\ tx' = IF fds + 1 < FdLimit THEN Append(tx, Relayed(d)) ELSE tx
  ELSE UNCHANGED <<fds, tx>>

\* sendit(): a fresh socket per message.  Without a free descriptor socket()
\* returns -1 and sendto() on it fails; neither result is looked at.
sendit(d) ==
  IF fds < FdLimit
  THEN /\ fds' = fds + 1
       /\ tx' = Append(tx, Relayed(d))
  ELSE UNCHANGED <<fds, tx>>

\* Mutant: the loop leaves an empty datagram in the queue instead of reading it.
RelayNonEmptyOnly ==
  /\ pc = "relaying"
  /\ rxq # <<>>
  /\ Len(Received(Head(rxq))) > 0
  /\ rxq' = Tail(rxq)
  /\ rx' = Append(rx, Head(rxq))
  /\ sendit(Head(rxq))
  /\ UNCHANGED <<pc, port, inherited, arrivals>>

\* One turn of the loop of main(): an empty datagram is read and ignored.
Relay ==
  /\ pc = "relaying"
  /\ rxq # <<>>
  /\ rxq' = Tail(rxq)
  /\ IF Len(Received(Head(rxq))) > 0
     THEN /\ rx' = Append(rx, Head(rxq))
          /\ sendit(Head(rxq))
     ELSE UNCHANGED <<rx, fds, tx>>
  /\ UNCHANGED <<pc, port, inherited, arrivals>>

Next ==
  \/ SocketFails
  \/ BindFails
  \/ Bind
  \/ \E d \in Datagrams : Arrive(d)
  \/ Relay

Spec == Init /\ [][Next]_vars

\* The relay is a process the scheduler keeps running: it leaves recvfrom()
\* whenever a datagram is queued.
FairSpec == Spec /\ WF_vars(Relay)

-----------------------------------------------------------------------------

\* The messages sendit() can send: no NUL, and no longer than what was received.
CStrings == {m \in Seq(Nat \ {0}) : Len(m) <= RecvLen}

TypeOK ==
  /\ pc \in {"start", "relaying", "exited"}
  /\ port \in {"free", "taken", "relay"}
  /\ inherited \in 3..FdLimit
  /\ fds \in 3..FdLimit
  /\ rxq \in Seq(Datagrams)
  /\ rx \in Seq(Datagrams)
  /\ tx \in Seq(CStrings)
  /\ arrivals \in 0..MaxArrivals

\* The number of messages one relay process can ever forward: a descriptor for
\* each, next to the ones inherited and the listening socket.
Capacity == FdLimit - inherited - 1

\* m is the C string at the start of d: all its bytes up to the first NUL, to the end
\* of what recvfrom() takes, or to its own end.
CStringOf(m, d) ==
  /\ Len(m) <= Len(d) /\ \A i \in 1..Len(m) : m[i] = d[i] /\ d[i] # 0
  /\ Len(m) < RecvLen /\ Len(m) < Len(d) => d[Len(m) + 1] = 0

\* What reaches port 3500 is, in order and without repetition, the C string of
\* each message received, for as long as descriptors last; from then on main()
\* still reads messages and sendit() drops every one of them.
ForwardsUntilExhausted ==
  pc = "relaying" =>
    /\ Len(tx) = IF Len(rx) <= Capacity THEN Len(rx) ELSE Capacity
    /\ \A i \in 1..Len(tx) : CStringOf(tx[i], rx[i])

\* The loop of main() always comes back for more: whatever is queued is read in
\* the end, the empty datagrams that are not relayed included.
QueueDrains == []<>(rxq = <<>>)

\* README.txt: the relay "listens to UDP message from the client on port 9999
\* and relays this to port 3500": a relay that starts with descriptors to spare
\* leaves no message unsent.
RelaysEveryMessage == Capacity > 0 => Len(tx) = Len(rx)

=============================================================================
