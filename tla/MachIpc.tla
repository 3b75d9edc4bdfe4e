------------------------------- MODULE MachIpc -------------------------------
(***************************************************************************)
(* Mach messages (ipc.rs): the ports of one process's IpcSpace, the        *)
(* mach_reply_port and mach_msg traps, and the host RPCs the kernel        *)
(* answers while it sends.                                                 *)
(*                                                                         *)
(* A trap runs with the scheduler locked and uses the current process's    *)
(* own space, so a call is one step and one space is enough.  mach_msg     *)
(* may send and receive in the same call.  A message is its serial number  *)
(* (auxiliary: the send that made it), its length in bytes and, for a      *)
(* reply, the fact that it is one: a reply carries the serial number of    *)
(* its request, which stands for msgh_id = request id + 100.               *)
(***************************************************************************)
EXTENDS Naturals, Sequences

CONSTANTS
  FirstName,    \* 0x200: the first name allocate_port hands out
  Limit,        \* the literal 10 of the queue-length tests
  Slack,        \* the literal 16: how much a message may be cut by
  ReplySize,    \* 128: the length of every reply buffer
  Sizes,        \* lengths of messages (msgh_size)
  RcvSizes,     \* rcv_size arguments
  UserNames,    \* port names a program passes, in its space or not
  MaxName,      \* bound on allocate_port
  MaxSerial     \* bound on the messages a behaviour sends

ASSUME IpcAssumption ==
  /\ FirstName \in Nat /\ FirstName > 3 /\ MaxName \in Nat /\ MaxName >= FirstName
  /\ Limit \in Nat /\ Slack \in Nat /\ ReplySize \in Nat /\ MaxSerial \in Nat
  /\ Sizes \subseteq Nat /\ RcvSizes \subseteq Nat /\ UserNames \subseteq Nat

VARIABLES
  ports,      \* IpcSpace.ports: name -> Port.messages
  nextName,   \* IpcSpace.next_name
  serial,     \* auxiliary: messages sent so far
  ret         \* auxiliary: what the last trap returned

vars == <<ports, nextName, serial, ret>>

\* IpcSpace::new: host, task and thread.
HostPorts == 1..3

NoMsg == [serial |-> 0, size |-> 0, reply |-> FALSE]

Return(code, m, n) == [code |-> code, msg |-> m, size |-> n]

Init ==
  /\ ports = [n \in HostPorts |-> <<>>]
  /\ nextName = FirstName
  /\ serial = 0
  /\ ret = Return("none", NoMsg, 0)

-----------------------------------------------------------------------------
\* mach_reply_port: allocate_port inserts an empty port under a new name.
MachReplyPort ==
  /\ nextName <= MaxName
  /\ ports' = [n \in DOMAIN ports \cup {nextName} |->
                 IF n = nextName THEN <<>> ELSE ports[n]]
  /\ nextName' = nextName + 1
  /\ ret' = Return("name", NoMsg, nextName)
  /\ UNCHANGED serial

\* A null message pointer is refused before anything is read.
MachMsgNull ==
  /\ ret' = Return("invalid address", NoMsg, 0)
  /\ UNCHANGED <<ports, nextName, serial>>

\* A slip: the queue is not cut.
EnqueueUnbounded(q, m) == Append(q, m)

\* Both senders drop the oldest message of a port that holds more than Limit.
Enqueue(q, m) == Append(IF Len(q) > Limit THEN Tail(q) ELSE q, m)

Headers == [remote : UserNames, local : UserNames, hostId : BOOLEAN, size : Sizes]

\* The kernel answers a request 3400..3499 to one of its three ports itself.
IsHostRpc(h) == h.remote \in HostPorts /\ h.hostId

\* handle_host_rpc puts its answer on the caller's local port, an ordinary
\* send its copy of the message on the remote one.
Target(h) == IF IsHostRpc(h) THEN h.local ELSE h.remote
Message(h) == [serial |-> serial + 1,
               size   |-> IF IsHostRpc(h) THEN ReplySize ELSE h.size,
               reply  |-> IsHostRpc(h)]

\* A request whose reply port does not exist is dropped without an error.
AfterSend(h) ==
  IF Target(h) \in DOMAIN ports
  THEN [ports EXCEPT ![Target(h)] = Enqueue(@, Message(h))]
  ELSE ports

SendRefused(h) == ~IsHostRpc(h) /\ h.remote \notin DOMAIN ports

Front(q) == SubSeq(q, 1, Len(q) - 1)

\* Slips of the receive half: the oldest message taken, the message copied out
\* and left, one that does not fit put back in front or not at all.
OldestForNewest(q) == Head(q)
Peeked(q)          == q
PutBackInFront(q)  == <<q[Len(q)]>> \o Front(q)
NotPutBack(q)      == Front(q)

\* Vec::pop takes from the end, and push puts back there what did not fit.
Newest(q)        == q[Len(q)]
WithoutNewest(q) == Front(q)
PutBack(q)       == q

\* The receive half, on the ports ps the send half left.
Fits(q, size) == Newest(q).size <= size + Slack

Receive(ps, name, size) ==
  \/ /\ name \notin DOMAIN ps
     /\ ret' = Return("invalid dest", NoMsg, 0)
     /\ ports' = ps
  \/ /\ name \in DOMAIN ps /\ ps[name] = <<>>
     /\ ret' = Return("timed out", NoMsg, 0)
     /\ ports' = ps
  \/ /\ name \in DOMAIN ps /\ ps[name] # <<>> /\ ~Fits(ps[name], size)
     /\ ret' = Return("too large", NoMsg, 0)
     /\ ports' = [ps EXCEPT ![name] = PutBack(@)]
  \/ /\ name \in DOMAIN ps /\ ps[name] # <<>> /\ Fits(ps[name], size)
     /\ ret' = LET m == Newest(ps[name])
               IN  Return("success", m, IF m.size > size THEN size ELSE m.size)
     /\ ports' = [ps EXCEPT ![name] = WithoutNewest(@)]

\* mach_msg_trap with neither option set does nothing.
MachMsgNothing ==
  /\ ret' = Return("success", NoMsg, 0)
  /\ UNCHANGED <<ports, nextName, serial>>

MachMsgReceive(size, name) ==
  /\ Receive(ports, name, size)
  /\ UNCHANGED <<nextName, serial>>

MachMsgSend(h) ==
  /\ serial < MaxSerial
  /\ serial' = serial + 1
  /\ IF SendRefused(h)
     THEN ret' = Return("invalid dest", NoMsg, 0) /\ UNCHANGED ports
     ELSE ret' = Return("success", NoMsg, 0) /\ ports' = AfterSend(h)
  /\ UNCHANGED nextName

\* A receive that fails leaves what the send half did in place.
MachMsgSendReceive(h, size, name) ==
  /\ serial < MaxSerial
  /\ serial' = serial + 1
  /\ IF SendRefused(h)
     THEN ret' = Return("invalid dest", NoMsg, 0) /\ UNCHANGED ports
     ELSE Receive(AfterSend(h), name, size)
  /\ UNCHANGED nextName

Next ==
  \/ MachReplyPort \/ MachMsgNull \/ MachMsgNothing
  \/ \E size \in RcvSizes, name \in UserNames : MachMsgReceive(size, name)
  \/ \E h \in Headers : MachMsgSend(h)
  \/ \E h \in Headers, size \in RcvSizes, name \in UserNames :
       MachMsgSendReceive(h, size, name)

Spec == Init /\ [][Next]_vars

-----------------------------------------------------------------------------
(* Properties.                                                             *)

Messages == [serial : Nat, size : Nat, reply : BOOLEAN]

Queued(n) == {ports[n][i] : i \in DOMAIN ports[n]}

Names == HostPorts \cup (FirstName..nextName - 1)

\* The type invariant.  A port exists under each name handed out, and "Keep
\* queue size small to avoid heap exhaustion" (ipc.rs:113): no sequence of
\* sends, answered requests and failed receives makes one hold more than
\* Limit + 1 messages.
TypeOK ==
  /\ nextName \in Nat /\ nextName >= FirstName
  /\ serial \in Nat
  /\ ports \in [Names -> Seq(Messages)]
  /\ \A n \in Names : Len(ports[n]) <= Limit + 1
  /\ ret.msg \in Messages /\ ret.size \in Nat

\* Whatever is dropped, answered, put back or received in between, a port
\* holds its messages in the order in which they were sent, each once.
QueuesInSendOrder ==
  \A n \in DOMAIN ports :
    /\ \A i, j \in DOMAIN ports[n] : i < j => ports[n][i].serial < ports[n][j].serial
    /\ \A i \in DOMAIN ports[n] : ports[n][i].serial \in 1..serial

\* One send is in one place: no message is on two ports, and the one just
\* handed to the program is on none.
EachMessageOnce ==
  /\ \A m, n \in DOMAIN ports : m # n =>
       \A i \in DOMAIN ports[m], j \in DOMAIN ports[n] :
         ports[m][i].serial # ports[n][j].serial
  /\ \A n \in DOMAIN ports : \A i \in DOMAIN ports[n] :
       ret.msg.serial # ports[n][i].serial

\* A message leaves a port by being handed to the program or, the oldest of a
\* port over its limit, by a newer one joining; above all a receive that finds
\* it too large does not lose it.
LeavesByReceiptOrOverflow ==
  [][\A n \in DOMAIN ports : \A m \in Queued(n) \ Queued(n)' :
       \/ ret'.code = "success" /\ ret'.msg = m
       \/ m = Head(ports[n]) /\ Len(ports[n]) > Limit /\ serial' > serial]_vars

\* A program that sends a host request and receives on its reply port in the
\* same mach_msg call, with room for a reply, gets the answer to this request:
\* not an older one it left on the port, nor an error.
RpcReturnsItsReply ==
  [][serial' > serial =>
       \A h \in {x \in Headers : IsHostRpc(x) /\ x.local \in DOMAIN ports},
          size \in {x \in RcvSizes : ReplySize <= x + Slack} :
         MachMsgSendReceive(h, size, h.local) =>
           /\ ret'.code = "success"
           /\ ret'.msg = [serial |-> serial', size |-> ReplySize, reply |-> TRUE]]_vars
====
