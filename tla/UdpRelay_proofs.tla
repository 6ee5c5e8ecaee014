-------------------------- MODULE UdpRelay_proofs ---------------------------
(***************************************************************************)
(* The safety properties of UdpRelay, for every descriptor limit, queue    *)
(* length, receive length and set of datagrams.                            *)
(***************************************************************************)
EXTENDS UdpRelay, FiniteSetTheorems, WellFoundedInduction, TLAPS

\* What main() has established before it binds: nothing was received or sent.
BeforeBind ==
  pc = "start" => /\ port # "relay"
                  /\ fds = inherited
                  /\ rx = <<>> /\ tx = <<>>

\* Each descriptor beyond the inherited ones and the listening socket was left behind
\* by sendit() for one of the messages sent.
DescriptorsAccounted ==
  pc = "relaying" => fds = inherited + 1 + Len(tx)

\* The inductive invariant: the number of descriptors and the number of messages
\* forwarded determine each other, which is what makes sendit()'s test of a free
\* descriptor the same as a test of the number of messages received.
RelayInv ==
  /\ TypeOK
  /\ BeforeBind
  /\ DescriptorsAccounted
  /\ ForwardsUntilExhausted

-----------------------------------------------------------------------------

\* strlen() counts the bytes up to the first NUL, or all if there is none.
LEMMA UpToNul ==
  ASSUME NEW b \in Seq(Nat)
  PROVE  /\ strlen(b) \in 0..Len(b)
         /\ \A i \in 1..strlen(b) : b[i] # 0
         /\ strlen(b) < Len(b) => b[strlen(b) + 1] = 0
  <1> DEFINE Z == {i \in Nat : i \in 1..Len(b) /\ b[i] = 0}
             K == {i \in 1..Len(b) : \A j \in 1..i : b[j] # 0}
             Upto(m) == /\ m \in 0..Len(b) /\ K = 1..m
                        /\ m < Len(b) => b[m + 1] = 0
  <1>1. \E m : Upto(m)
    <2>1. CASE Z = {}
      <3>1. \A i \in 1..Len(b) : b[i] # 0
        BY <2>1
      <3>2. \A i \in 1..Len(b) : \A j \in 1..i : j \in 1..Len(b)
        OBVIOUS
      <3>3. K = 1..Len(b)
        BY <3>1, <3>2
      <3>4. Upto(Len(b))
        BY <3>3
      <3>5. QED
        BY <3>4
    <2>2. CASE Z # {}
      <3>1. PICK z \in Z : \A j \in Z : z <= j
        <4>1. IsWellFoundedOn(OpToRel(<, Nat), Nat)
          BY NatLessThanWellFounded
        <4>2. Z \in SUBSET Nat
          OBVIOUS
        <4> HIDE DEF Z
        <4>3. PICK z \in Z : \A y \in Z : ~(<<y, z>> \in OpToRel(<, Nat))
          BY <2>2, <4>1, <4>2, WFMin
        <4>4. \A y \in Z : ~(y < z)
          BY <4>2, <4>3 DEF OpToRel
        <4>5. QED
          BY <4>2, <4>4
      <3>2. z \in 1..Len(b) /\ b[z] = 0
        OBVIOUS
      <3>3. \A i \in 1..(z - 1) : i \in 1..Len(b) /\ b[i] # 0
        BY <3>1, <3>2
      <3>4. K = 1..(z - 1)
        <4>1. ASSUME NEW i \in K PROVE i \in 1..(z - 1)
          BY <3>2
        <4>2. ASSUME NEW i \in 1..(z - 1) PROVE i \in K
          <5>1. \A j \in 1..i : j \in 1..(z - 1)
            BY <3>2
          <5>2. QED
            BY <3>3, <5>1
        <4>3. QED
          BY <4>1, <4>2
      <3>5. Upto(z - 1)
        BY <3>2, <3>4
      <3>6. QED
        BY <3>5
    <2>3. QED
      BY <2>1, <2>2
  <1> HIDE DEF K, Upto
  <1>2. PICK m : Upto(m)
    BY <1>1
  <1>3. m \in 0..Len(b) /\ m \in Nat
    BY <1>2 DEF Upto
  <1>4. Cardinality(1..m) = m
    <2>1. Cardinality(1..m) = IF 1 > m THEN 0 ELSE m - 1 + 1
      BY <1>3, FS_Interval
    <2>2. QED
      BY <1>3, <2>1
  <1>5. strlen(b) = m
    BY <1>2, <1>4 DEF Upto, K, strlen
  <1>6. \A i \in 1..m : b[i] # 0
    <2>1. \A i \in 1..m : i \in K /\ i \in 1..i
      BY <1>2 DEF Upto
    <2>2. QED
      BY <2>1 DEF K
  <1>7. QED
    BY <1>2, <1>3, <1>5, <1>6 DEF Upto

\* recvfrom() returns the start of the datagram, and sendit() sends the C string at its
\* start.
LEMMA RelayedCString ==
  ASSUME NEW d \in Datagrams
  PROVE  /\ Relayed(d) \in CStrings
         /\ CStringOf(Relayed(d), d)
  <1>1. d \in Seq(Nat) /\ RecvLen \in Nat
    BY RelayConstants
  <1>2. PICK b : b = Received(d)
    OBVIOUS
  <1>3. /\ b \in Seq(Nat)
        /\ Len(b) = IF Len(d) < RecvLen THEN Len(d) ELSE RecvLen
        /\ \A i \in 1..Len(b) : b[i] = d[i]
    BY <1>1, <1>2 DEF Received
  <1>4. PICK n : n = strlen(b)
    OBVIOUS
  <1>5. n \in 0..Len(b) /\ (\A i \in 1..n : b[i] # 0) /\ (n < Len(b) => b[n + 1] = 0)
    BY <1>3, <1>4, UpToNul
  <1>6. PICK m : m = Relayed(d)
    OBVIOUS
  <1>7. m = SubSeq(b, 1, n)
    BY <1>2, <1>4, <1>6 DEF Relayed
  <1>8. m \in Seq(Nat) /\ Len(m) = n /\ \A i \in 1..n : m[i] = b[i]
    BY <1>3, <1>5, <1>7
  <1>9. \A i \in 1..Len(m) : m[i] \in Nat \ {0}
    BY <1>3, <1>5, <1>8
  <1>10. m \in Seq(Nat \ {0})
    BY <1>8, <1>9
  <1>11. m \in CStrings
    BY <1>1, <1>3, <1>5, <1>8, <1>10 DEF CStrings
  <1>12. ASSUME NEW i \in 1..Len(m)
         PROVE  m[i] = d[i] /\ d[i] # 0
    <2>1. Len(m) = n /\ n \in Nat /\ n <= Len(b) /\ Len(b) \in Nat
      BY <1>3, <1>5, <1>8
    <2>2. i \in 1..n /\ i \in 1..Len(b)
      BY <2>1
    <2>3. m[i] = b[i] /\ b[i] # 0
      BY <1>5, <1>8, <2>2
    <2>4. b[i] = d[i]
      BY <1>3, <2>2
    <2>5. QED
      BY <2>3, <2>4
  <1>13. Len(m) < RecvLen /\ Len(m) < Len(d) => d[Len(m) + 1] = 0
    BY <1>1, <1>3, <1>5, <1>8
  <1>14. QED
    BY <1>1, <1>3, <1>5, <1>6, <1>8, <1>11, <1>12, <1>13 DEF CStringOf

\* The two invariants of the relay hold initially.
LEMMA RelayInit == Init => RelayInv
  BY RelayConstants
  DEF Init, RelayInv, TypeOK, BeforeBind, DescriptorsAccounted, ForwardsUntilExhausted

\* Every step of main(), and every arriving datagram, preserves the invariant.
LEMMA RelayStep == RelayInv /\ [Next]_vars => RelayInv'
  <1> SUFFICES ASSUME RelayInv, [Next]_vars
               PROVE  RelayInv'
    OBVIOUS
  <1> USE RelayConstants
  <1>1. CASE SocketFails
    BY <1>1 DEF SocketFails, RelayInv, TypeOK, BeforeBind, DescriptorsAccounted,
                ForwardsUntilExhausted
  <1>2. CASE BindFails
    BY <1>2 DEF BindFails, RelayInv, TypeOK, BeforeBind, DescriptorsAccounted,
                ForwardsUntilExhausted
  <1>3. CASE Bind
    BY <1>3 DEF Bind, RelayInv, TypeOK, BeforeBind, DescriptorsAccounted,
                ForwardsUntilExhausted, Capacity
  <1>4. ASSUME NEW d \in Datagrams, Arrive(d)
        PROVE  RelayInv'
    BY <1>4 DEF Arrive, RelayInv, TypeOK, BeforeBind, DescriptorsAccounted,
                ForwardsUntilExhausted, Capacity
  <1>5. CASE Relay
    <2> DEFINE d == Head(rxq)
    <2>1. d \in Datagrams /\ Tail(rxq) \in Seq(Datagrams)
      BY <1>5 DEF Relay, RelayInv, TypeOK
    <2>2. Relayed(d) \in CStrings /\ CStringOf(Relayed(d), d)
      BY <2>1, RelayedCString
    <2>3. /\ pc = "relaying" /\ pc' = pc
          /\ UNCHANGED <<port, inherited, arrivals>>
          /\ rxq' = Tail(rxq)
      BY <1>5 DEF Relay
    <2>4. CASE Len(Received(d)) > 0 /\ fds < FdLimit
      <3>1. /\ rx' = Append(rx, d)
            /\ fds' = fds + 1
            /\ tx' = Append(tx, Relayed(d))
        BY <1>5, <2>4 DEF Relay, sendit
      <3>2. Len(tx) = Len(rx) /\ Len(rx) < Capacity
        BY <2>3, <2>4 DEF RelayInv, TypeOK, DescriptorsAccounted,
                          ForwardsUntilExhausted, Capacity
      <3>3. TypeOK'
        BY <2>1, <2>2, <2>3, <2>4, <3>1 DEF RelayInv, TypeOK
      <3>4. (BeforeBind /\ DescriptorsAccounted)'
        BY <2>2, <2>3, <3>1
        DEF RelayInv, TypeOK, BeforeBind, DescriptorsAccounted
      <3>5. ForwardsUntilExhausted'
        <4>1. Len(tx') = Len(tx) + 1 /\ Len(rx') = Len(rx) + 1
          BY <2>1, <2>2, <3>1 DEF RelayInv, TypeOK
        <4>2. \A i \in 1..Len(tx') : CStringOf(tx'[i], rx'[i])
          <5> SUFFICES ASSUME NEW i \in 1..Len(tx')
                       PROVE  CStringOf(tx'[i], rx'[i])
            OBVIOUS
          <5>1. CASE i \in 1..Len(tx)
            <6>1. tx'[i] = tx[i] /\ rx'[i] = rx[i]
              BY <2>1, <2>2, <3>1, <3>2, <5>1 DEF RelayInv, TypeOK
            <6>2. CStringOf(tx[i], rx[i])
              BY <2>3, <5>1 DEF RelayInv, ForwardsUntilExhausted
            <6>3. QED
              BY <6>1, <6>2
          <5>2. CASE i = Len(tx) + 1
            <6>1. tx'[i] = Relayed(d) /\ rx'[i] = d
              BY <2>1, <2>2, <3>1, <3>2, <5>2 DEF RelayInv, TypeOK
            <6>2. QED
              BY <2>2, <6>1
          <5>3. QED
            BY <4>1, <5>1, <5>2 DEF RelayInv, TypeOK
        <4>3. Len(tx) \in Nat /\ Len(rx) \in Nat /\ Capacity \in Int /\ Capacity' = Capacity
          BY <2>3 DEF RelayInv, TypeOK, Capacity
        <4>4. QED
          BY <3>2, <4>1, <4>2, <4>3 DEF ForwardsUntilExhausted
      <3>6. QED
        BY <3>3, <3>4, <3>5 DEF RelayInv
    <2>5. CASE Len(Received(d)) > 0 /\ ~(fds < FdLimit)
      <3>1. /\ rx' = Append(rx, d)
            /\ UNCHANGED <<fds, tx>>
        BY <1>5, <2>5 DEF Relay, sendit
      <3>2. Len(tx) = Capacity /\ Capacity <= Len(rx)
        BY <2>3, <2>5 DEF RelayInv, TypeOK, DescriptorsAccounted,
                          ForwardsUntilExhausted, Capacity
      <3>3. \A i \in 1..Len(tx) : rx'[i] = rx[i]
        BY <2>1, <3>1, <3>2 DEF RelayInv, TypeOK
      <3>4. Len(rx') = Len(rx) + 1
        BY <2>1, <3>1 DEF RelayInv, TypeOK
      <3>5. QED
        BY <2>1, <2>3, <3>1, <3>2, <3>3, <3>4
        DEF RelayInv, TypeOK, BeforeBind, DescriptorsAccounted,
            ForwardsUntilExhausted, Capacity
    <2>6. CASE ~(Len(Received(d)) > 0)
      <3>1. UNCHANGED <<rx, fds, tx>>
        BY <1>5, <2>6 DEF Relay
      <3>2. QED
        BY <2>1, <2>3, <3>1
        DEF RelayInv, TypeOK, BeforeBind, DescriptorsAccounted,
            ForwardsUntilExhausted, Capacity
    <2>7. QED
      BY <2>4, <2>5, <2>6
  <1>6. CASE UNCHANGED vars
    BY <1>6 DEF vars, RelayInv, TypeOK, BeforeBind, DescriptorsAccounted,
                ForwardsUntilExhausted, Capacity
  <1>7. QED
    BY <1>1, <1>2, <1>3, <1>4, <1>5, <1>6 DEF Next

\* udp-relay keeps its data in range: in particular every message it sends is a string
\* of at most RecvLen bytes, none of them NUL, whatever the datagram it came from.
THEOREM RelayTypeCorrect == Spec => []TypeOK
  <1>1. RelayInv => TypeOK
    BY DEF RelayInv
  <1>2. QED
    BY RelayInit, RelayStep, <1>1, PTL DEF Spec

\* The relay forwards the messages it receives verbatim (as C strings), in order
\* and once each, up to exactly FdLimit - inherited - 1 of them, and then none.
THEOREM RelayForwards == Spec => []ForwardsUntilExhausted
  <1>1. RelayInv => ForwardsUntilExhausted
    BY DEF RelayInv
  <1>2. QED
    BY RelayInit, RelayStep, <1>1, PTL DEF Spec

=============================================================================
