---------------------------- MODULE MachIpcProofs ----------------------------
(***************************************************************************)
(* Proofs about module MachIpc, for every length of queues and messages,   *)
(* and any number of ports and sends.                                      *)
(***************************************************************************)
EXTENDS MachIpc, SequenceTheorems, TLAPS

\* What a map ps of the ports N is worth after s sends: no queue above the
\* bound, each in the order of the sends, and no send on two ports.  It is
\* stated of any map because mach_msg receives from what its send half left.
Typed(N, ps) ==
  /\ ps \in [N -> Seq(Messages)]
  /\ \A n \in N : Len(ps[n]) <= Limit + 1

Ordered(N, ps, s) ==
  \A n \in N :
    /\ \A i, j \in 1..Len(ps[n]) : i < j => ps[n][i].serial < ps[n][j].serial
    /\ \A i \in 1..Len(ps[n]) : ps[n][i].serial \in 1..s

Apart(N, ps) ==
  \A m, n \in N : m # n =>
    \A i \in 1..Len(ps[m]), j \in 1..Len(ps[n]) : ps[m][i].serial # ps[n][j].serial

Sound(N, ps, s) == Typed(N, ps) /\ Ordered(N, ps, s) /\ Apart(N, ps)

\* The message of the send k is on no port.
Gone(N, ps, k) == \A n \in N : \A i \in 1..Len(ps[n]) : k # ps[n][i].serial

\* The inductive invariant: the three invariants of the runs in these terms.
IInv ==
  /\ nextName \in Nat /\ nextName >= FirstName
  /\ serial \in Nat
  /\ ret.msg \in Messages /\ ret.size \in Nat
  /\ Sound(Names, ports, serial)
  /\ Gone(Names, ports, ret.msg.serial)

-----------------------------------------------------------------------------
(* What the queue operations do.                                           *)

\* A send joins the back of a queue, which loses its oldest message only when
\* it holds more than Limit.
LEMMA EnqueueProperties ==
  ASSUME NEW q \in Seq(Messages), NEW m \in Messages
  PROVE  LET cut == IF Len(q) > Limit THEN 1 ELSE 0
         IN  /\ Enqueue(q, m) \in Seq(Messages)
             /\ Enqueue(q, m) # <<>>
             /\ Len(Enqueue(q, m)) = Len(q) - cut + 1
             /\ \A i \in 1..Len(q) - cut : Enqueue(q, m)[i] = q[i + cut]
             /\ Enqueue(q, m)[Len(Enqueue(q, m))] = m
<1>1. Len(q) \in Nat /\ Limit \in Nat
  BY LenProperties, IpcAssumption
<1>2. CASE Len(q) > Limit
  <2>1. q # <<>>
    BY <1>1, <1>2, EmptySeq
  <2>2. /\ Tail(q) \in Seq(Messages) /\ Len(Tail(q)) = Len(q) - 1
        /\ \A i \in 1..Len(Tail(q)) : Tail(q)[i] = q[i + 1]
    BY <2>1, HeadTailProperties
  <2>3. Enqueue(q, m) = Append(Tail(q), m)
    BY <1>2 DEF Enqueue
  <2>4. /\ Enqueue(q, m) \in Seq(Messages) /\ Enqueue(q, m) # <<>>
        /\ Len(Enqueue(q, m)) = Len(Tail(q)) + 1
        /\ \A i \in 1..Len(Tail(q)) : Enqueue(q, m)[i] = Tail(q)[i]
        /\ Enqueue(q, m)[Len(Tail(q)) + 1] = m
    BY <2>2, <2>3, AppendProperties
  <2> QED
    BY <1>1, <1>2, <2>2, <2>4
<1>3. CASE ~(Len(q) > Limit)
  <2>1. Enqueue(q, m) = Append(q, m)
    BY <1>3 DEF Enqueue
  <2>2. /\ Enqueue(q, m) \in Seq(Messages) /\ Enqueue(q, m) # <<>>
        /\ Len(Enqueue(q, m)) = Len(q) + 1
        /\ \A i \in 1..Len(q) : Enqueue(q, m)[i] = q[i]
        /\ Enqueue(q, m)[Len(q) + 1] = m
    BY <2>1, AppendProperties
  <2> QED
    BY <1>1, <1>3, <2>2
<1> QED
  BY <1>2, <1>3

\* Taking the newest message leaves the others where they were.
LEMMA WithoutNewestProperties ==
  ASSUME NEW q \in Seq(Messages), q # <<>>
  PROVE  /\ WithoutNewest(q) \in Seq(Messages)
         /\ Len(WithoutNewest(q)) = Len(q) - 1
         /\ \A i \in 1..Len(q) - 1 : WithoutNewest(q)[i] = q[i]
         /\ Newest(q) \in Messages
<1>1. Len(q) \in Nat \ {0} /\ q \in [1..Len(q) -> Messages]
  BY EmptySeq, LenProperties
<1>2. WithoutNewest(q) = SubSeq(q, 1, Len(q) - 1)
  BY DEF WithoutNewest, Front
<1>3. /\ WithoutNewest(q) \in Seq(Messages)
      /\ Len(WithoutNewest(q)) = IF 1 <= Len(q) - 1 THEN Len(q) - 1 - 1 + 1 ELSE 0
      /\ \A i \in 1..Len(q) - 1 - 1 + 1 : WithoutNewest(q)[i] = q[1 + i - 1]
  <2>1. \A i \in 1..Len(q) - 1 : q[i] \in Messages
    BY <1>1
  <2>2. 1 \in Int /\ Len(q) - 1 \in Int
    BY <1>1
  <2> QED
    BY <1>2, <2>1, <2>2, SubSeqProperties
<1> DEFINE n == Len(q)
           w == WithoutNewest(q)
<1>4. n \in Nat \ {0} /\ Len(w) = IF 1 <= n - 1 THEN n - 1 - 1 + 1 ELSE 0
  BY <1>1, <1>3
<1>5. \A i \in 1..n - 1 - 1 + 1 : w[i] = q[1 + i - 1]
  BY <1>3
<1> HIDE DEF n, w
<1>7. n - 1 - 1 + 1 = n - 1 /\ Len(w) = n - 1
  BY <1>4
<1>8. \A i \in 1..n - 1 : w[i] = q[i]
  BY <1>4, <1>5
<1>6. Newest(q) \in Messages
  BY <1>1 DEF Newest
<1> QED
  BY <1>3, <1>6, <1>7, <1>8 DEF n, w

\* A trap that hands out no message.
LEMMA ReturnNothing ==
  ASSUME NEW code, ret' = Return(code, NoMsg, 0)
  PROVE  ret'.msg = NoMsg /\ ret'.size = 0
BY DEF Return

\* No message: number 0, which no send has.
LEMMA NoMsgType == NoMsg \in Messages /\ NoMsg.serial = 0
BY DEF NoMsg, Messages

-----------------------------------------------------------------------------
(* The two halves of mach_msg, on a sound map of the ports.                *)

\* The message a trap sends is one, with a number of its own.
LEMMA MessageType ==
  ASSUME serial \in Nat, NEW h \in Headers
  PROVE  Message(h) \in Messages /\ Message(h).serial = serial + 1
<1>1. IsHostRpc(h) \in BOOLEAN
  <2>1. IsHostRpc(h) <=> h.remote \in HostPorts /\ h.hostId
    BY DEF IsHostRpc
  <2> QED
    BY <2>1, Zenon DEF IsHostRpc
<1>2. h.size \in Nat /\ ReplySize \in Nat
  BY IpcAssumption DEF Headers
<1> DEFINE r == IsHostRpc(h)
           z == IF r THEN ReplySize ELSE h.size
<1>3. z \in Nat
  BY <1>2
<1>4. Message(h) = [serial |-> serial + 1, size |-> z, reply |-> r]
  BY DEF Message
<1> HIDE DEF r, z
<1> QED
  BY <1>1, <1>3, <1>4 DEF Messages, r

\* The send half: one queue grows by the new message, and perhaps loses its
\* oldest; the map is sound for one more send.
LEMMA SendKeepsSound ==
  ASSUME NEW N, N = DOMAIN ports, serial \in Nat, Sound(N, ports, serial),
         NEW h \in Headers
  PROVE  /\ Sound(N, AfterSend(h), serial + 1)
         /\ Gone(N, AfterSend(h), 0)
<1> DEFINE ps == AfterSend(h)
           t  == Target(h)
<1>1. /\ ports \in [N -> Seq(Messages)] /\ Limit \in Nat
      /\ \A n \in N : Len(ports[n]) \in Nat /\ Len(ports[n]) <= Limit + 1
  BY LenProperties, IpcAssumption DEF Sound, Typed
<1>2. CASE t \notin DOMAIN ports
  <2>1. ps = ports
    BY <1>2 DEF AfterSend
  <2> QED
    BY <2>1, <1>1 DEF Sound, Typed, Ordered, Apart, Gone
<1>3. CASE t \in DOMAIN ports
  <2> DEFINE q   == ports[t]
             cut == IF Len(q) > Limit THEN 1 ELSE 0
             e   == Enqueue(q, Message(h))
  <2>1. ps = [ports EXCEPT ![t] = e]
    BY <1>3 DEF AfterSend
  <2>2. /\ q \in Seq(Messages) /\ Len(q) \in Nat /\ Len(q) <= Limit + 1
        /\ cut \in 0..1 /\ (Len(q) > Limit <=> cut = 1)
    BY <1>1, <1>3
  <2>3. /\ e \in Seq(Messages) /\ Len(e) = Len(q) - cut + 1
        /\ \A i \in 1..Len(q) - cut : e[i] = q[i + cut]
        /\ e[Len(e)].serial = serial + 1
    <3>1. PICK m \in Messages : m = Message(h) /\ m.serial = serial + 1
      BY MessageType
    <3>2. e = Enqueue(q, m)
      BY <3>1
    <3> HIDE DEF e
    <3>3. /\ e \in Seq(Messages) /\ Len(e) = Len(q) - cut + 1
          /\ \A i \in 1..Len(q) - cut : e[i] = q[i + cut]
          /\ e[Len(e)] = m
      BY <2>2, <3>2, EnqueueProperties
    <3> QED
      BY <3>1, <3>3
  <2>4. /\ ps \in [N -> Seq(Messages)] /\ ps[t] = e
        /\ \A n \in N : n # t => ps[n] = ports[n]
    BY <1>1, <1>3, <2>1, <2>3
  <2>5. /\ \A i, j \in 1..Len(q) : i < j => q[i].serial < q[j].serial
        /\ \A i \in 1..Len(q) : q[i].serial \in 1..serial
    BY <1>3 DEF Sound, Ordered
  <2> HIDE DEF ps, t, q, e, cut
  <2>6. \A i \in 1..Len(e) : \/ i = Len(e) /\ e[i].serial = serial + 1
                             \/ i < Len(e) /\ i + cut \in 1..Len(q) /\ e[i] = q[i + cut]
    BY <2>2, <2>3
  <2>7. Len(e) \in Nat /\ Len(e) <= Limit + 1
    BY <1>1, <2>2, <2>3
  <2>8. Typed(N, ps)
    BY <1>1, <2>4, <2>7 DEF Typed
  <2>9. Ordered(N, ps, serial + 1)
    <3>1. ASSUME NEW i \in 1..Len(e), NEW j \in 1..Len(e), i < j
          PROVE  e[i].serial < e[j].serial
      <4>1. i + cut \in 1..Len(q) /\ e[i] = q[i + cut] /\ q[i + cut].serial \in 1..serial
        BY <2>5, <2>6, <2>7, <3>1
      <4>2. CASE j = Len(e)
        BY <4>1, <4>2, <2>3
      <4>3. CASE j # Len(e)
        <5>1. j + cut \in 1..Len(q) /\ e[j] = q[j + cut] /\ i + cut < j + cut
          BY <2>2, <2>6, <3>1, <4>3
        <5> QED
          BY <2>5, <4>1, <5>1
      <4> QED
        BY <4>2, <4>3
    <3>2. \A i \in 1..Len(e) : e[i].serial \in 1..serial + 1
      BY <2>5, <2>6
    <3>3. \A n \in N : n # t =>
            /\ \A i, j \in 1..Len(ps[n]) : i < j => ps[n][i].serial < ps[n][j].serial
            /\ \A i \in 1..Len(ps[n]) : ps[n][i].serial \in 1..serial + 1
      BY <2>4 DEF Sound, Ordered
    <3> QED
      BY <2>4, <3>1, <3>2, <3>3 DEF Ordered
  <2>10. Apart(N, ps)
    <3>1. ASSUME NEW n \in N, n # t, NEW i \in 1..Len(e), NEW j \in 1..Len(ports[n])
          PROVE  e[i].serial # ports[n][j].serial
      <4>1. ports[n][j].serial \in 1..serial
        BY <3>1 DEF Sound, Ordered
      <4>2. CASE i = Len(e)
        BY <2>3, <4>1, <4>2
      <4>3. CASE i # Len(e)
        BY <1>3, <2>6, <3>1, <4>3 DEF Sound, Apart, q, t
      <4> QED
        BY <4>2, <4>3
    <3>2. \A m, n \in N : m # t /\ n # t /\ m # n =>
            \A i \in 1..Len(ps[m]), j \in 1..Len(ps[n]) : ps[m][i].serial # ps[n][j].serial
      BY <2>4 DEF Sound, Apart
    <3>3. ASSUME NEW m \in N, NEW n \in N, m # n,
                 NEW i \in 1..Len(ps[m]), NEW j \in 1..Len(ps[n])
          PROVE  ps[m][i].serial # ps[n][j].serial
      <4>1. CASE m = t
        BY <2>4, <3>1, <3>3, <4>1
      <4>2. CASE n = t
        BY <2>4, <3>1, <3>3, <4>2
      <4> QED
        BY <3>2, <3>3, <4>1, <4>2
    <3> QED
      BY <3>3 DEF Apart
  <2>11. Gone(N, ps, 0)
    BY <2>9 DEF Ordered, Gone
  <2> QED
    BY <2>8, <2>9, <2>10, <2>11 DEF Sound, ps
<1> QED
  BY <1>2, <1>3

\* The receive half: the map stays sound, and what is handed out is on no
\* port any more.
LEMMA ReceiveKeepsSound ==
  ASSUME NEW N, NEW ps, NEW s \in Nat, Sound(N, ps, s), Gone(N, ps, 0),
         NEW name, NEW size \in RcvSizes, Receive(ps, name, size)
  PROVE  /\ Sound(N, ports', s)
         /\ ret'.msg \in Messages /\ ret'.size \in Nat
         /\ Gone(N, ports', ret'.msg.serial)
<1>1. /\ ps \in [N -> Seq(Messages)] /\ DOMAIN ps = N /\ Limit \in Nat /\ size \in Nat
      /\ \A n \in N : Len(ps[n]) \in Nat /\ Len(ps[n]) <= Limit + 1
  BY LenProperties, IpcAssumption DEF Sound, Typed
<1>2. NoMsg \in Messages /\ NoMsg.serial = 0
  BY NoMsgType
<1>3. CASE ports' = ps /\ ret'.msg = NoMsg /\ ret'.size = 0
  BY <1>2, <1>3
<1>4. CASE /\ name \in DOMAIN ps /\ ps[name] # <<>>
           /\ ret' = LET m == Newest(ps[name])
                     IN  Return("success", m, IF m.size > size THEN size ELSE m.size)
           /\ ports' = [ps EXCEPT ![name] = WithoutNewest(@)]
  <2> DEFINE q == ps[name]
             w == WithoutNewest(q)
             n == Len(q)
             m == Newest(q)
  <2>1. q \in Seq(Messages) /\ n \in Nat \ {0} /\ m = q[n]
    BY <1>1, <1>4, EmptySeq DEF Newest
  <2>2. /\ w \in Seq(Messages) /\ Len(w) = n - 1
        /\ \A i \in 1..n - 1 : w[i] = q[i]
        /\ m \in Messages
    BY <1>4, <2>1, WithoutNewestProperties
  <2>3. /\ ports' \in [N -> Seq(Messages)] /\ ports'[name] = w /\ name \in N
        /\ \A k \in N : k # name => ports'[k] = ps[k]
    BY <1>1, <1>4, <2>2
  <2>4. ret'.msg = m /\ ret'.size \in Nat /\ m.size \in Nat /\ m.serial \in Nat
    BY <1>1, <1>4, <2>2 DEF Return, Messages
  <2>5. /\ \A i, j \in 1..n : i < j => q[i].serial < q[j].serial
        /\ \A i \in 1..n : q[i].serial \in 1..s
        /\ n <= Limit + 1
    BY <1>1, <2>3 DEF Sound, Ordered
  <2>6. \A k \in N : k # name => \A i \in 1..n, j \in 1..Len(ps[k]) : q[i].serial # ps[k][j].serial
    BY <2>3 DEF Sound, Apart
  <2> HIDE DEF q, w, n, m
  <2>7. \A k \in N : /\ Len(ports'[k]) \in Nat /\ Len(ports'[k]) <= Len(ps[k])
                     /\ \A i \in 1..Len(ports'[k]) : i \in 1..Len(ps[k]) /\ ports'[k][i] = ps[k][i]
    <3>1. ASSUME NEW k \in N, k = name
          PROVE  /\ Len(ports'[k]) \in Nat /\ Len(ports'[k]) <= Len(ps[k])
                 /\ \A i \in 1..Len(ports'[k]) : i \in 1..Len(ps[k]) /\ ports'[k][i] = ps[k][i]
      BY <2>1, <2>2, <2>3, <3>1 DEF q, n
    <3>2. ASSUME NEW k \in N, k # name
          PROVE  /\ Len(ports'[k]) \in Nat /\ Len(ports'[k]) <= Len(ps[k])
                 /\ \A i \in 1..Len(ports'[k]) : i \in 1..Len(ps[k]) /\ ports'[k][i] = ps[k][i]
      <4>1. ports'[k] = ps[k] /\ Len(ps[k]) \in Nat
        BY <1>1, <2>3, <3>2
      <4> QED
        BY <4>1
    <3> QED
      BY <3>1, <3>2
  <2>8. Typed(N, ports')
    BY <1>1, <2>3, <2>7 DEF Typed
  <2>9. Ordered(N, ports', s)
    BY <2>7 DEF Ordered, Sound
  <2>10. Apart(N, ports')
    <3>1. ASSUME NEW k \in N, NEW l \in N, k # l,
                 NEW i \in 1..Len(ports'[k]), NEW j \in 1..Len(ports'[l])
          PROVE  ports'[k][i].serial # ports'[l][j].serial
      <4>1. /\ i \in 1..Len(ps[k]) /\ ports'[k][i] = ps[k][i]
            /\ j \in 1..Len(ps[l]) /\ ports'[l][j] = ps[l][j]
        BY <2>7, <3>1
      <4> QED
        BY <3>1, <4>1 DEF Apart, Sound
    <3> QED
      BY <3>1 DEF Apart
  <2>11. Gone(N, ports', m.serial)
    <3>1. \A i \in 1..Len(w) : m.serial # w[i].serial
      <4> TAKE i \in 1..Len(w)
      <4>1. n \in 1..n /\ i \in 1..n /\ i < n /\ w[i] = q[i] /\ m = q[n]
        BY <2>1, <2>2
      <4>2. q[i].serial \in Int /\ q[n].serial \in Int /\ q[i].serial < q[n].serial
        BY <2>5, <4>1
      <4> QED
        BY <4>1, <4>2
    <3>2. \A k \in N : k # name => \A i \in 1..Len(ps[k]) : m.serial # ps[k][i].serial
      BY <2>1, <2>6
    <3> QED
      BY <2>3, <3>1, <3>2 DEF Gone
  <2> QED
    BY <2>2, <2>4, <2>8, <2>9, <2>10, <2>11 DEF Sound
<1>5. name \in DOMAIN ps => [ps EXCEPT ![name] = PutBack(@)] = ps
  BY <1>1 DEF PutBack
<1> QED
  BY <1>3, <1>4, <1>5, ReturnNothing DEF Receive

-----------------------------------------------------------------------------
(* The invariant.                                                          *)

\* The invariant holds when the kernel starts: the host ports exist and are
\* empty.
LEMMA InitIInv == Init => IInv
<1> SUFFICES ASSUME Init PROVE IInv
  OBVIOUS
<1>1. /\ FirstName \in Nat /\ Limit \in Nat /\ FirstName..FirstName - 1 = {}
      /\ nextName = FirstName /\ serial = 0 /\ ret.msg = NoMsg /\ ret.size = 0
      /\ NoMsg \in Messages
  BY IpcAssumption DEF Init, Return, NoMsg, Messages
<1>2. Names = HostPorts
  BY <1>1 DEF Names
<1>3. \A n \in Names : ports[n] \in Seq(Messages) /\ Len(ports[n]) = 0
  BY <1>2, EmptySeq DEF Init
<1>4. ports \in [Names -> Seq(Messages)]
  BY <1>2, <1>3 DEF Init
<1> QED
  BY <1>1, <1>3, <1>4 DEF IInv, Sound, Typed, Ordered, Apart, Gone

\* The invariant's account of the ports, in the current and the next state.
LEMMA PortsOfIInv ==
  IInv => DOMAIN ports = Names /\ Sound(Names, ports, serial) /\ Gone(Names, ports, 0)
<1> SUFFICES ASSUME IInv PROVE DOMAIN ports = Names /\ Gone(Names, ports, 0)
  BY DEF IInv
<1> QED
  BY DEF IInv, Sound, Typed, Ordered, Gone

\* A new port is empty, under a name not given out before.
LEMMA MachReplyPortKeepsIInv == IInv /\ MachReplyPort => IInv'
<1> SUFFICES ASSUME IInv, MachReplyPort PROVE IInv'
  OBVIOUS
<1>1. /\ nextName \in Nat /\ nextName' = nextName + 1 /\ nextName >= FirstName
      /\ FirstName \in Nat /\ FirstName > 3
      /\ serial' = serial /\ ret'.msg = NoMsg /\ ret'.size = nextName
      /\ DOMAIN ports = Names /\ Sound(Names, ports, serial) /\ Gone(Names, ports, 0)
  BY PortsOfIInv, IpcAssumption DEF IInv, MachReplyPort, Return
<1>2. Names' = Names \cup {nextName} /\ nextName \notin Names
  BY <1>1 DEF Names, HostPorts
<1>3. /\ DOMAIN ports' = Names' /\ ports'[nextName] = <<>>
      /\ \A n \in Names : ports'[n] = ports[n]
      /\ ports' \in [Names' -> Seq(Messages)]
  BY <1>1, <1>2, EmptySeq DEF MachReplyPort, Sound, Typed
<1>4. Len(ports'[nextName]) = 0
  BY <1>3, EmptySeq
<1>5. Sound(Names', ports', serial)
  BY <1>1, <1>2, <1>3, <1>4, IpcAssumption DEF Sound, Typed, Ordered, Apart
<1>6. Gone(Names', ports', 0)
  BY <1>1, <1>2, <1>3, <1>4 DEF Gone
<1>7. NoMsg \in Messages /\ NoMsg.serial = 0
  BY NoMsgType
<1> QED
  BY <1>1, <1>5, <1>6, <1>7 DEF IInv

\* A receive on its own.
LEMMA MachMsgReceiveKeepsIInv ==
  ASSUME IInv, NEW size \in RcvSizes, NEW name, MachMsgReceive(size, name)
  PROVE  IInv'
<1>1. Receive(ports, name, size) /\ Names' = Names /\ nextName' = nextName /\ serial' = serial
  BY DEF MachMsgReceive, Names
<1>2. serial \in Nat /\ nextName \in Nat /\ nextName >= FirstName
  BY DEF IInv
<1>3. /\ Sound(Names, ports', serial) /\ Gone(Names, ports', ret'.msg.serial)
      /\ ret'.msg \in Messages /\ ret'.size \in Nat
  BY <1>1, <1>2, PortsOfIInv, ReceiveKeepsSound
<1> QED
  BY <1>1, <1>2, <1>3 DEF IInv

\* A send on its own.
LEMMA MachMsgSendKeepsIInv ==
  ASSUME IInv, NEW h \in Headers, MachMsgSend(h)
  PROVE  IInv'
<1>1. /\ Names' = Names /\ nextName' = nextName /\ serial' = serial + 1
      /\ ret'.msg = NoMsg /\ ret'.size = 0
      /\ ports' = ports \/ ports' = AfterSend(h)
  BY ReturnNothing DEF MachMsgSend, Names
<1>2. serial \in Nat /\ nextName \in Nat /\ nextName >= FirstName
  BY DEF IInv
<1>3. Sound(Names, AfterSend(h), serial + 1) /\ Gone(Names, AfterSend(h), 0)
  BY <1>2, PortsOfIInv, SendKeepsSound
<1>4. Sound(Names, ports, serial + 1) /\ Gone(Names, ports, 0)
  BY <1>2, PortsOfIInv DEF Sound, Ordered
<1>5. NoMsg \in Messages /\ NoMsg.serial = 0
  BY NoMsgType
<1>6. Sound(Names', ports', serial') /\ Gone(Names', ports', 0)
  BY <1>1, <1>3, <1>4
<1>7. ret'.msg \in Messages /\ ret'.msg.serial = 0 /\ ret'.size \in Nat /\ serial' \in Nat
  BY <1>1, <1>2, <1>5
<1> QED
  BY <1>1, <1>2, <1>6, <1>7 DEF IInv

\* A send and a receive in one call.
LEMMA MachMsgSendReceiveKeepsIInv ==
  ASSUME IInv, NEW h \in Headers, NEW size \in RcvSizes, NEW name,
         MachMsgSendReceive(h, size, name)
  PROVE  IInv'
<1>1. /\ Names' = Names /\ nextName' = nextName /\ serial' = serial + 1
      /\ \/ ret' = Return("invalid dest", NoMsg, 0) /\ ports' = ports
         \/ Receive(AfterSend(h), name, size)
  BY DEF MachMsgSendReceive, Names
<1>2. serial \in Nat /\ serial + 1 \in Nat /\ nextName \in Nat /\ nextName >= FirstName
  BY DEF IInv
<1>3. CASE ret' = Return("invalid dest", NoMsg, 0) /\ ports' = ports
  <2>1. Sound(Names, ports, serial + 1) /\ Gone(Names, ports, 0)
    BY <1>2, PortsOfIInv DEF Sound, Ordered
  <2>2. NoMsg \in Messages /\ NoMsg.serial = 0 /\ ret'.msg = NoMsg /\ ret'.size = 0
    BY <1>3, NoMsgType, ReturnNothing
  <2>3. Sound(Names', ports', serial') /\ Gone(Names', ports', ret'.msg.serial)
    BY <1>1, <1>3, <2>1, <2>2
  <2>4. ret'.msg \in Messages /\ ret'.size \in Nat
    BY <2>2
  <2>5. serial' \in Nat
    BY <1>1, <1>2
  <2> QED
    BY <1>1, <1>2, <2>3, <2>4, <2>5 DEF IInv
<1>4. CASE Receive(AfterSend(h), name, size)
  <2>1. Sound(Names, AfterSend(h), serial + 1) /\ Gone(Names, AfterSend(h), 0)
    BY <1>2, PortsOfIInv, SendKeepsSound
  <2>2. /\ Sound(Names, ports', serial + 1) /\ Gone(Names, ports', ret'.msg.serial)
        /\ ret'.msg \in Messages /\ ret'.size \in Nat
    BY <1>2, <1>4, <2>1, ReceiveKeepsSound
  <2> QED
    BY <1>1, <1>2, <2>2 DEF IInv
<1> QED
  BY <1>1, <1>3, <1>4

\* Every step of the traps preserves the invariant.
LEMMA NextIInv == IInv /\ [Next]_vars => IInv'
<1> SUFFICES ASSUME IInv, [Next]_vars PROVE IInv'
  OBVIOUS
<1>1. CASE MachReplyPort
  BY <1>1, MachReplyPortKeepsIInv
<1>2. CASE MachMsgNull \/ MachMsgNothing
  <2>1. /\ Names' = Names /\ nextName' = nextName /\ serial' = serial /\ ports' = ports
        /\ ret'.msg = NoMsg /\ ret'.size = 0
    BY <1>2, ReturnNothing DEF MachMsgNull, MachMsgNothing, Names
  <2>2. NoMsg \in Messages /\ NoMsg.serial = 0
    BY NoMsgType
  <2>3. Sound(Names', ports', serial') /\ Gone(Names', ports', ret'.msg.serial)
    BY <2>1, <2>2, PortsOfIInv
  <2>4. ret'.msg \in Messages /\ ret'.size \in Nat
    BY <2>1, <2>2
  <2> QED
    BY <2>1, <2>3, <2>4 DEF IInv
<1>3. CASE \E size \in RcvSizes, name \in UserNames : MachMsgReceive(size, name)
  BY <1>3, MachMsgReceiveKeepsIInv
<1>4. CASE \E h \in Headers : MachMsgSend(h)
  BY <1>4, MachMsgSendKeepsIInv
<1>5. CASE \E h \in Headers, size \in RcvSizes, name \in UserNames :
             MachMsgSendReceive(h, size, name)
  BY <1>5, MachMsgSendReceiveKeepsIInv
<1>6. CASE UNCHANGED vars
  BY <1>6 DEF vars, IInv, Names
<1> QED
  BY <1>1, <1>2, <1>3, <1>4, <1>5, <1>6 DEF Next

\* The invariant holds in every state of every behaviour.
THEOREM Invariance == Spec => []IInv
BY InitIInv, NextIInv, PTL DEF Spec

\* What the invariant says of the ports in the words of module MachIpc.
LEMMA IInvImplies == IInv => TypeOK /\ QueuesInSendOrder /\ EachMessageOnce
<1> SUFFICES ASSUME IInv PROVE TypeOK /\ QueuesInSendOrder /\ EachMessageOnce
  OBVIOUS
<1>1. /\ ports \in [Names -> Seq(Messages)] /\ DOMAIN ports = Names
      /\ \A n \in Names : Len(ports[n]) <= Limit + 1
      /\ \A n \in Names : DOMAIN ports[n] = 1..Len(ports[n])
  BY LenProperties DEF IInv, Sound, Typed
<1>2. TypeOK
  BY <1>1 DEF IInv, TypeOK
<1>3. QueuesInSendOrder
  BY <1>1 DEF IInv, Sound, Ordered, QueuesInSendOrder
<1>4. EachMessageOnce
  <2>1. ASSUME NEW m \in Names, NEW n \in Names, m # n,
               NEW i \in DOMAIN ports[m], NEW j \in DOMAIN ports[n]
        PROVE  ports[m][i].serial # ports[n][j].serial
    BY <1>1, <2>1 DEF IInv, Sound, Apart
  <2>2. ASSUME NEW n \in Names, NEW i \in DOMAIN ports[n]
        PROVE  ret.msg.serial # ports[n][i].serial
    BY <1>1 DEF IInv, Gone
  <2> QED
    BY <1>1, <2>1, <2>2 DEF EachMessageOnce
<1> QED
  BY <1>2, <1>3, <1>4

\* Every variable keeps its type, and no queue is ever longer than Limit + 1.
THEOREM TypeCorrect == Spec => []TypeOK
BY Invariance, IInvImplies, PTL

\* On every port the messages stay in the order of the sends, each once.
THEOREM QueuesStayOrdered == Spec => []QueuesInSendOrder
BY Invariance, IInvImplies, PTL

\* No message is on two ports, or still on one when a program has received it.
THEOREM NoMessageTwice == Spec => []EachMessageOnce
BY Invariance, IInvImplies, PTL

-----------------------------------------------------------------------------
(* How a message leaves a port, and which one a host RPC gets.             *)

\* A send leaves every message where it was, but for the oldest of a queue
\* over its limit.
LEMMA SendKeepsMessages ==
  ASSUME NEW N, Typed(N, ports), serial \in Nat, NEW h \in Headers,
         NEW n \in N, NEW i \in 1..Len(ports[n])
  PROVE  \/ \E j \in 1..Len(AfterSend(h)[n]) : AfterSend(h)[n][j] = ports[n][i]
         \/ ports[n][i] = Head(ports[n]) /\ Len(ports[n]) > Limit
<1> DEFINE t   == Target(h)
           q   == ports[n]
           cut == IF Len(q) > Limit THEN 1 ELSE 0
           e   == Enqueue(q, Message(h))
<1>1. ports \in [N -> Seq(Messages)] /\ q \in Seq(Messages) /\ Len(q) \in Nat /\ Limit \in Nat
  BY LenProperties, IpcAssumption DEF Typed
<1>2. CASE AfterSend(h)[n] = q
  BY <1>2
<1>3. CASE n = t /\ AfterSend(h)[n] = e
  <2>1. /\ Len(e) = Len(q) - cut + 1
        /\ \A k \in 1..Len(q) - cut : e[k] = q[k + cut]
    BY <1>1, MessageType, EnqueueProperties
  <2>2. cut \in 0..1 /\ (cut = 1 <=> Len(q) > Limit)
    BY <1>1
  <2>3. q # <<>> /\ Head(q) = q[1]
    BY <1>1, EmptySeq
  <2> HIDE DEF e, cut, q
  <2>4. CASE i > cut
    <3>1. i - cut \in 1..Len(e) /\ e[i - cut] = q[i]
      BY <1>1, <2>1, <2>2, <2>4 DEF q
    <3> QED
      BY <1>3, <3>1 DEF q
  <2>5. CASE ~(i > cut)
    <3>1. i = 1 /\ cut = 1
      BY <1>1, <2>2, <2>5 DEF q
    <3> QED
      BY <2>2, <2>3, <3>1 DEF q
  <2> QED
    BY <2>4, <2>5
<1>4. AfterSend(h)[n] = q \/ (n = t /\ AfterSend(h)[n] = e)
  BY <1>1 DEF AfterSend
<1> QED
  BY <1>2, <1>3, <1>4

\* A receive leaves every message where it was, but for the one it hands out.
LEMMA ReceiveKeepsMessages ==
  ASSUME NEW N, NEW ps, Typed(N, ps), NEW name, NEW size, Receive(ps, name, size),
         NEW n \in N, NEW i \in 1..Len(ps[n])
  PROVE  \/ \E j \in 1..Len(ports'[n]) : ports'[n][j] = ps[n][i]
         \/ ret'.code = "success" /\ ret'.msg = ps[n][i]
<1>1. ps \in [N -> Seq(Messages)] /\ ps[n] \in Seq(Messages)
  BY DEF Typed
<1>2. CASE ports'[n] = ps[n]
  BY <1>2
<1>3. CASE /\ name = n /\ ps[n] # <<>> /\ ports'[n] = WithoutNewest(ps[n])
           /\ ret'.code = "success" /\ ret'.msg = Newest(ps[n])
  <2>1. /\ Len(ps[n]) \in Nat \ {0} /\ Len(ports'[n]) = Len(ps[n]) - 1
        /\ \A k \in 1..Len(ps[n]) - 1 : ports'[n][k] = ps[n][k]
    BY <1>1, <1>3, EmptySeq, WithoutNewestProperties
  <2>2. CASE i = Len(ps[n])
    BY <1>3, <2>2 DEF Newest
  <2>3. CASE i # Len(ps[n])
    <3>1. i \in 1..Len(ports'[n]) /\ ports'[n][i] = ps[n][i]
      BY <2>1, <2>3
    <3> QED
      BY <3>1
  <2> QED
    BY <2>2, <2>3
<1>4. CASE /\ name \in DOMAIN ps /\ ps[name] # <<>>
           /\ ret' = LET m == Newest(ps[name])
                     IN  Return("success", m, IF m.size > size THEN size ELSE m.size)
           /\ ports' = [ps EXCEPT ![name] = WithoutNewest(@)]
  <2>1. ret'.code = "success" /\ ret'.msg = Newest(ps[name])
    BY <1>4 DEF Return
  <2>2. ports'[n] = IF n = name THEN WithoutNewest(ps[n]) ELSE ps[n]
    BY <1>1, <1>4
  <2> QED
    BY <1>2, <1>3, <1>4, <2>1, <2>2
<1>5. name \in DOMAIN ps => [ps EXCEPT ![name] = PutBack(@)] = ps
  BY <1>1 DEF PutBack
<1> QED
  BY <1>2, <1>4, <1>5 DEF Receive

\* Every step keeps every message on its port, hands it to the program, or
\* drops it as the oldest of a full port that a newer one joins.
THEOREM NoMessageLost == Spec => LeavesByReceiptOrOverflow
<1>1. ASSUME IInv, [Next]_vars, NEW n \in DOMAIN ports, NEW m \in Queued(n) \ Queued(n)'
      PROVE  \/ ret'.code = "success" /\ ret'.msg = m
             \/ m = Head(ports[n]) /\ Len(ports[n]) > Limit /\ serial' > serial
  <2>1. /\ DOMAIN ports = Names /\ Sound(Names, ports, serial) /\ Typed(Names, ports)
        /\ Gone(Names, ports, 0) /\ n \in Names /\ serial \in Nat
        /\ ports[n] \in Seq(Messages) /\ DOMAIN ports[n] = 1..Len(ports[n])
    BY <1>1, PortsOfIInv, LenProperties DEF IInv, Sound, Typed
  <2>2. IInv'
    BY <1>1, NextIInv
  <2>3. DOMAIN ports' = Names'
    BY <2>2 DEF IInv, Sound, Typed
  <2>4. Names \subseteq Names'
    <3>1. nextName \in Nat /\ nextName' \in Nat /\ (nextName' = nextName \/ nextName' = nextName + 1)
      BY <1>1, <2>2 DEF IInv, Next, vars, MachReplyPort, MachMsgNull, MachMsgNothing,
         MachMsgReceive, MachMsgSend, MachMsgSendReceive
    <3>2. FirstName \in Nat
      BY IpcAssumption
    <3> QED
      BY <3>1, <3>2 DEF Names
  <2>5. ports'[n] \in Seq(Messages) /\ DOMAIN ports'[n] = 1..Len(ports'[n])
    BY <2>1, <2>2, <2>4, LenProperties DEF IInv, Sound, Typed
  <2>6. PICK i \in 1..Len(ports[n]) : m = ports[n][i]
    BY <1>1, <2>1 DEF Queued
  <2>7. \A j \in 1..Len(ports'[n]) : ports'[n][j] # m
    BY <1>1, <2>5 DEF Queued
  <2>8. CASE ports'[n] = ports[n]
    BY <2>6, <2>7, <2>8
  <2>9. CASE MachReplyPort
    <3>1. nextName \notin Names
      BY <1>1, IpcAssumption DEF Names, HostPorts, IInv
    <3> QED
      BY <2>1, <2>8, <2>9, <3>1 DEF MachReplyPort
  <2>10. CASE \E size \in RcvSizes, name \in UserNames : MachMsgReceive(size, name)
    <3>1. PICK size \in RcvSizes, name \in UserNames : Receive(ports, name, size)
      BY <2>10 DEF MachMsgReceive
    <3> QED
      BY <2>1, <2>6, <2>7, <3>1, ReceiveKeepsMessages
  <2>11. CASE \E h \in Headers : MachMsgSend(h)
    <3>1. PICK h \in Headers : MachMsgSend(h)
      BY <2>11
    <3>2. serial' > serial /\ (ports' = ports \/ ports' = AfterSend(h))
      <4>1. serial' = serial + 1 /\ (ports' = ports \/ ports' = AfterSend(h))
        BY <3>1 DEF MachMsgSend
      <4> QED
        BY <2>1, <4>1
    <3>3. CASE ports' = AfterSend(h)
      BY <2>1, <2>6, <2>7, <3>2, <3>3, SendKeepsMessages
    <3> QED
      BY <2>8, <3>2, <3>3
  <2>12. CASE \E h \in Headers, size \in RcvSizes, name \in UserNames :
                MachMsgSendReceive(h, size, name)
    <3>1. PICK h \in Headers, size \in RcvSizes, name \in UserNames :
                MachMsgSendReceive(h, size, name)
      BY <2>12
    <3>2. serial' > serial /\ (ports' = ports \/ Receive(AfterSend(h), name, size))
      <4>1. serial' = serial + 1 /\ (ports' = ports \/ Receive(AfterSend(h), name, size))
        BY <3>1 DEF MachMsgSendReceive
      <4> QED
        BY <2>1, <4>1
    <3>3. CASE Receive(AfterSend(h), name, size)
      <4>1. Typed(Names, AfterSend(h))
        BY <2>1, SendKeepsSound DEF Sound
      <4>2. CASE m = Head(ports[n]) /\ Len(ports[n]) > Limit
        BY <3>2, <4>2
      <4>3. CASE \E j \in 1..Len(AfterSend(h)[n]) : AfterSend(h)[n][j] = m
        <5>1. PICK k \in 1..Len(AfterSend(h)[n]) : AfterSend(h)[n][k] = m
          BY <4>3
        <5>2. \/ \E j \in 1..Len(ports'[n]) : ports'[n][j] = AfterSend(h)[n][k]
              \/ ret'.code = "success" /\ ret'.msg = AfterSend(h)[n][k]
          BY <2>1, <3>3, <4>1, ReceiveKeepsMessages
        <5> QED
          BY <2>7, <5>1, <5>2
      <4> QED
        BY <2>1, <2>6, <4>2, <4>3, SendKeepsMessages
    <3> QED
      BY <2>8, <3>2, <3>3
  <2>13. CASE MachMsgNull \/ MachMsgNothing \/ UNCHANGED vars
    BY <2>8, <2>13 DEF MachMsgNull, MachMsgNothing, vars
  <2> QED
    BY <1>1, <2>9, <2>10, <2>11, <2>12, <2>13 DEF Next
<1>2. IInv /\ [Next]_vars =>
        [\A n \in DOMAIN ports : \A m \in Queued(n) \ Queued(n)' :
           \/ ret'.code = "success" /\ ret'.msg = m
           \/ m = Head(ports[n]) /\ Len(ports[n]) > Limit /\ serial' > serial]_vars
  BY <1>1
<1> QED
  BY <1>2, Invariance, PTL DEF Spec, LeavesByReceiptOrOverflow

\* A host request received in the call that sends it, with room for a reply,
\* returns the reply to this very request.
THEOREM RpcGetsItsOwnReply == Spec => RpcReturnsItsReply
<1> DEFINE Rpcs  == {x \in Headers : IsHostRpc(x) /\ x.local \in DOMAIN ports}
           Rooms == {x \in RcvSizes : ReplySize <= x + Slack}
<1>1. ASSUME IInv, [Next]_vars, serial' > serial, NEW h \in Rpcs, NEW size \in Rooms,
             MachMsgSendReceive(h, size, h.local)
      PROVE  /\ ret'.code = "success"
             /\ ret'.msg = [serial |-> serial', size |-> ReplySize, reply |-> TRUE]
  <2> DEFINE t == h.local
             e == Enqueue(ports[t], Message(h))
             ps == AfterSend(h)
  <2>1. /\ h \in Headers /\ IsHostRpc(h) /\ t \in DOMAIN ports /\ Target(h) = t
        /\ size \in RcvSizes /\ ReplySize <= size + Slack /\ serial \in Nat
        /\ serial' = serial + 1
    BY <1>1 DEF Target, IInv, MachMsgSendReceive
  <2>2. ports \in [DOMAIN ports -> Seq(Messages)]
    BY <1>1 DEF IInv, Sound, Typed
  <2>3. Message(h) \in Messages /\ Message(h) = [serial |-> serial', size |-> ReplySize, reply |-> TRUE]
    BY <2>1, MessageType DEF Message
  <2>4. e # <<>> /\ Newest(e) = Message(h)
    BY <2>1, <2>2, <2>3, EnqueueProperties DEF Newest
  <2>5. t \in DOMAIN ps /\ ps[t] = e
    BY <2>1, <2>2 DEF AfterSend
  <2>6. Receive(ps, t, size)
    BY <1>1, <2>1 DEF MachMsgSendReceive, SendRefused
  <2> HIDE DEF ps, e, t
  <2>7. Fits(ps[t], size)
    BY <2>1, <2>3, <2>4, <2>5 DEF Fits
  <2>8. ret' = LET m == Newest(ps[t])
               IN  Return("success", m, IF m.size > size THEN size ELSE m.size)
    BY <2>4, <2>5, <2>6, <2>7 DEF Receive
  <2>9. ret'.code = "success" /\ ret'.msg = Newest(ps[t])
    BY <2>8 DEF Return
  <2> QED
    BY <2>3, <2>4, <2>5, <2>9
<1>2. IInv /\ [Next]_vars =>
        [serial' > serial =>
           \A h \in Rpcs, size \in Rooms :
             MachMsgSendReceive(h, size, h.local) =>
               /\ ret'.code = "success"
               /\ ret'.msg = [serial |-> serial', size |-> ReplySize, reply |-> TRUE]]_vars
  BY <1>1
<1> QED
  BY <1>2, Invariance, PTL DEF Spec, RpcReturnsItsReply
====
