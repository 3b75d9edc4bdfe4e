--------------------------- MODULE SchedulerProofs ---------------------------
(***************************************************************************)
(* Proofs about module Scheduler, for every bound on processes and         *)
(* exceptions.                                                             *)
(***************************************************************************)
EXTENDS Scheduler, SequenceTheorems, TLAPS

\* The thread whose stack the kernel is on between Svc and Eret, and the
\* threads suspended in sys_yield, hold in their trap frame the place their
\* program must resume at; a thread not started yet has made no system call.
FramesHoldResumePoints ==
  /\ phase \in {"handler", "eret"} => frame[current] = Program(current, svcs[current])
  /\ phase = "switch" /\ onCpu # Kmain => frame[onCpu] = Program(onCpu, svcs[onCpu])
  /\ \A p \in Pids :
       p # onCpu => IF ctx[p].resume = "start"
                    THEN svcs[p] = 0
                    ELSE ctx[p].resume = "yield" /\ frame[p] = Program(p, svcs[p])

\* Where control is: kmain before the first switch, afterwards a process.
ControlState ==
  /\ phase = "boot" <=> current = 0
  /\ phase = "boot" => queue = <<>> /\ nextPid = 1 /\ onCpu = 0
  /\ phase = "switch" => pending \in Threads \X Pids

\* The inductive invariant.
IInv == TypeOK /\ EachProcessOnce /\ SwitchIsBetweenOwners /\ ResumesWhereItLeft
          /\ FramesHoldResumePoints /\ ControlState

-----------------------------------------------------------------------------
(* What the queue operations do.                                           *)

\* Rotating a non-empty queue sends the current process to the back and moves
\* every other one place forward.
LEMMA RotatedProperties ==
  ASSUME NEW q \in Seq(Pids), q # <<>>, current \in Pids
  PROVE  /\ Rotated(q) \in Seq(Pids)
         /\ Len(Rotated(q)) = Len(q)
         /\ \A i \in 1..Len(q) : Rotated(q)[i] = IF i < Len(q) THEN q[i + 1] ELSE current
         /\ Back(Rotated(q)) = current
         /\ Head(q) = q[1] /\ Head(q) \in Pids
<1>1. Rotated(q) = Append(Tail(q), current)
  BY DEF Rotated, Pids
<1>2. /\ Tail(q) \in Seq(Pids) /\ Len(Tail(q)) = Len(q) - 1
      /\ \A i \in 1..Len(Tail(q)) : Tail(q)[i] = q[i + 1]
      /\ Head(q) \in Pids
  BY HeadTailProperties
<1>3. /\ Rotated(q) \in Seq(Pids) /\ Rotated(q) # <<>>
      /\ Len(Rotated(q)) = Len(Tail(q)) + 1
      /\ \A i \in 1..Len(Tail(q)) : Rotated(q)[i] = Tail(q)[i]
      /\ Rotated(q)[Len(Tail(q)) + 1] = current
  BY <1>1, <1>2, AppendProperties
<1>4. Len(q) \in Nat \ {0}
  BY EmptySeq
<1>5. Back(Rotated(q)) = current
  BY <1>2, <1>3, <1>4 DEF Back
<1>6. \A i \in 1..Len(q) : Rotated(q)[i] = IF i < Len(q) THEN q[i + 1] ELSE current
  BY <1>2, <1>3, <1>4
<1> QED
  BY <1>2, <1>3, <1>4, <1>5, <1>6

\* The phase a counted exception leads to is the intended one or "counted".
LEMMA CountPhase ==
  ASSUME NEW next, Count(next), TypeOK
  PROVE  phase' \in {next, "counted"} /\ exceptions' \in Nat
BY DEF Count, TypeOK

-----------------------------------------------------------------------------
(* The invariant.                                                          *)

\* The invariant holds when kmain starts.
LEMMA InitIInv == Init => IInv
<1> SUFFICES ASSUME Init PROVE IInv
  OBVIOUS
<1> USE MaxPidAssumption DEF Init, Pids, Threads, Kmain, Program, Context
<1>1. TypeOK
  <2>1. is64 \in [Pids -> BOOLEAN]
    OBVIOUS
  <2>2. ctx \in [Threads -> Contexts]
    BY DEF Contexts
  <2>3. frame \in [Threads -> Programs] /\ user \in Programs
    BY DEF Programs
  <2>4. /\ queue \in Seq(Pids) /\ current \in Threads /\ nextPid \in 1..MaxPid + 1
        /\ onCpu \in Threads /\ pending \in Threads \X Threads
        /\ svcs \in [Pids -> Nat]
    OBVIOUS
  <2> QED
    BY <2>1, <2>2, <2>3, <2>4 DEF TypeOK, Phases
<1>2. EachProcessOnce
  BY DEF EachProcessOnce, Members
<1>3. SwitchIsBetweenOwners
  BY DEF SwitchIsBetweenOwners
<1>4. FramesHoldResumePoints
  <2>1. ASSUME NEW p \in Pids
        PROVE  ctx[p].resume = "start" /\ svcs[p] = 0
    OBVIOUS
  <2> QED
    BY <2>1 DEF FramesHoldResumePoints
<1>5. ResumesWhereItLeft /\ ControlState
  BY DEF ResumesWhereItLeft, ControlState
<1> QED
  BY <1>1, <1>2, <1>3, <1>4, <1>5 DEF IInv

\* Creating a process: it joins the back of the queue under a fresh number.
LEMMA AddProcessKeepsEachOnce ==
  ASSUME TypeOK, EachProcessOnce, nextPid <= MaxPid, nextPid # current
  PROVE  LET q == AddProcess(queue, nextPid)
         IN  /\ q \in Seq(Pids) /\ q # <<>>
             /\ Members(q) = Members(queue) \cup {nextPid}
             /\ \A i, j \in DOMAIN q : q[i] = q[j] => i = j
<1> DEFINE q == AddProcess(queue, nextPid)
<1>1. nextPid \in Pids /\ queue \in Seq(Pids) /\ Len(queue) \in Nat
  BY MaxPidAssumption, LenProperties DEF TypeOK, Pids
<1>2. /\ q \in Seq(Pids) /\ q # <<>> /\ Len(q) = Len(queue) + 1
      /\ \A i \in 1..Len(queue) : q[i] = queue[i]
      /\ q[Len(queue) + 1] = nextPid
  BY <1>1, AppendProperties DEF AddProcess
<1>3. DOMAIN q = 1..Len(queue) + 1 /\ DOMAIN queue = 1..Len(queue)
  BY <1>1, <1>2, LenProperties
<1>4. Members(q) = Members(queue) \cup {nextPid}
  BY <1>1, <1>2, <1>3 DEF Members
<1>5. nextPid \notin Members(queue)
  BY <1>1 DEF EachProcessOnce, Pids
<1>6. ASSUME NEW i \in DOMAIN q, NEW j \in DOMAIN q, q[i] = q[j]
      PROVE  i = j
  BY <1>1, <1>2, <1>3, <1>5, <1>6 DEF Members, EachProcessOnce
<1> QED
  BY <1>2, <1>4, <1>6

\* Scheduling: the queue and the current process hold what they held.
LEMMA ScheduleKeepsEachOnce ==
  ASSUME TypeOK, EachProcessOnce, queue # <<>>, current \in Pids,
         ScheduleNext(queue), nextPid' = nextPid
  PROVE  EachProcessOnce' /\ queue' \in Seq(Pids) /\ current' \in Pids
<1> DEFINE n == Len(queue)
<1>1. queue \in Seq(Pids) /\ n \in Nat \ {0} /\ DOMAIN queue = 1..n
  BY EmptySeq, LenProperties DEF TypeOK
<1>2. /\ queue' \in Seq(Pids) /\ DOMAIN queue' = 1..n
      /\ \A i \in 1..n : queue'[i] = IF i < n THEN queue[i + 1] ELSE current
      /\ current' = queue[1] /\ current' \in Pids
  BY <1>1, RotatedProperties, LenProperties DEF ScheduleNext
<1>3. Members(queue') \cup ({current'} \ {0}) = Members(queue) \cup ({current} \ {0})
  <2>1. ASSUME NEW p \in Pids
        PROVE  p \in Members(queue') \/ p = current' <=> p \in Members(queue) \/ p = current
    <3>1. ASSUME NEW i \in 1..n, queue[i] = p PROVE p \in Members(queue') \/ p = current'
      <4>1. CASE i = 1
        BY <4>1, <3>1, <1>2
      <4>2. CASE i # 1
        <5>1. i - 1 \in 1..n /\ i - 1 < n /\ (i - 1) + 1 = i
          BY <4>2, <1>1
        <5>2. queue'[i - 1] = p
          BY <5>1, <3>1, <1>2
        <5> QED
          BY <5>1, <5>2, <1>2 DEF Members
      <4> QED
        BY <4>1, <4>2
    <3>2. p \in Members(queue) => p \in Members(queue') \/ p = current'
      BY <3>1, <1>1 DEF Members
    <3>3. current = p => p \in Members(queue')
      <4>1. n \in 1..n /\ queue'[n] = current
        BY <1>1, <1>2
      <4> QED
        BY <4>1, <1>2 DEF Members
    <3>4. ASSUME NEW i \in 1..n, queue'[i] = p PROVE p \in Members(queue) \/ p = current
      <4>1. CASE i < n
        <5>1. i + 1 \in 1..n /\ queue[i + 1] = p
          BY <4>1, <3>4, <1>1, <1>2
        <5> QED
          BY <5>1, <1>1 DEF Members
      <4>2. CASE ~(i < n)
        BY <4>2, <3>4, <1>2
      <4> QED
        BY <4>1, <4>2
    <3>5. p \in Members(queue') => p \in Members(queue) \/ p = current
      BY <3>4, <1>2 DEF Members
    <3>6. p = current' => p \in Members(queue)
      BY <1>1, <1>2 DEF Members
    <3> QED
      BY <3>2, <3>3, <3>5, <3>6
  <2>2. Members(queue) \subseteq Pids /\ Members(queue') \subseteq Pids
    BY <1>1, <1>2 DEF Members
  <2>3. 0 \notin Pids
    BY DEF Pids
  <2> QED
    BY <2>1, <2>2, <2>3, <1>2
<1>4. /\ \A a, b \in 1..n : queue[a] = queue[b] => a = b
      /\ \A a \in 1..n : queue[a] # current
  <2>1. \A a \in 1..n : queue[a] \in Members(queue)
    BY <1>1 DEF Members
  <2> QED
    BY <1>1, <2>1 DEF EachProcessOnce
<1>5. ASSUME NEW i \in 1..n PROVE queue'[i] # current'
  <2>1. CASE i < n
    <3>1. i + 1 \in 1..n /\ 1 \in 1..n /\ i + 1 # 1
      BY <1>1, <2>1
    <3>2. queue'[i] = queue[i + 1]
      BY <1>2, <2>1
    <3> QED
      BY <1>2, <1>4, <3>1, <3>2
  <2>2. CASE ~(i < n)
    <3>1. queue'[i] = current /\ 1 \in 1..n
      BY <1>1, <1>2, <2>2
    <3> QED
      BY <1>2, <1>4, <3>1
  <2> QED
    BY <2>1, <2>2
<1>6. current' \notin Members(queue')
  <2> SUFFICES ASSUME NEW i \in DOMAIN queue', queue'[i] = current'
               PROVE  FALSE
    BY DEF Members
  <2> QED
    BY <1>2, <1>5
<1>7. ASSUME NEW i \in 1..n, NEW j \in 1..n, queue'[i] = queue'[j]
      PROVE  i = j
  <2>1. CASE i < n /\ j < n
    <3>1. queue[i + 1] = queue[j + 1]
      BY <1>2, <1>7, <2>1
    <3>2. i + 1 \in 1..n /\ j + 1 \in 1..n
      BY <1>1, <2>1
    <3>3. i + 1 = j + 1
      BY <1>4, <3>1, <3>2
    <3> QED
      BY <3>3
  <2>2. CASE i < n /\ ~(j < n)
    <3>1. queue[i + 1] = current /\ i + 1 \in 1..n
      BY <1>1, <1>2, <1>7, <2>2
    <3> QED
      BY <1>4, <3>1
  <2>3. CASE ~(i < n) /\ j < n
    <3>1. queue[j + 1] = current /\ j + 1 \in 1..n
      BY <1>1, <1>2, <1>7, <2>3
    <3> QED
      BY <1>4, <3>1
  <2>4. CASE ~(i < n) /\ ~(j < n)
    BY <1>1, <2>4
  <2> QED
    BY <2>1, <2>2, <2>3, <2>4
<1>8. \A i, j \in DOMAIN queue' : queue'[i] = queue'[j] => i = j
  BY <1>2, <1>7
<1>9. Members(queue) \cup ({current} \ {0}) = 1..nextPid - 1
  BY DEF EachProcessOnce
<1>10. Members(queue') \cup ({current'} \ {0}) = 1..nextPid' - 1
  BY <1>3, <1>9
<1> QED
  BY <1>2, <1>6, <1>8, <1>10 DEF EachProcessOnce, Members

\* The inductive step, one lemma per kind of action.  First those that move
\* processes.
LEMMA KmainStartIInv == IInv /\ KmainStart => IInv'
<1> SUFFICES ASSUME IInv, KmainStart PROVE IInv'
  OBVIOUS
<1> USE MaxPidAssumption DEF IInv, Kmain
<1>1. /\ queue = <<>> /\ current = 0 /\ nextPid = 1 /\ onCpu = 0
      /\ TypeOK /\ EachProcessOnce /\ SwitchIsBetweenOwners /\ FramesHoldResumePoints
  BY DEF KmainStart, ControlState
<1>2. 1 \in Pids /\ 0 \notin Pids
  BY DEF Pids
<1>3. AddProcess(queue, nextPid) = <<1>>
  BY <1>1 DEF AddProcess
<1>4. /\ current' = 1 /\ queue' = <<>> /\ nextPid' = 2
      /\ pending' = <<0, 1>> /\ phase' = "switch"
  <2>1. Head(<<1>>) = 1 /\ Tail(<<1>>) = <<>>
    OBVIOUS
  <2>2. ScheduleNext(<<1>>) /\ pending' = <<0, Head(<<1>>)>> /\ phase' = "switch"
    BY <1>3 DEF KmainStart
  <2>3. nextPid' = 2
    BY <1>1 DEF KmainStart
  <2>4. current' = Head(<<1>>) /\ queue' = Tail(<<1>>)
    BY <1>1, <2>2 DEF ScheduleNext, Rotated
  <2> QED
    BY <2>1, <2>2, <2>3, <2>4
<1>5. UNCHANGED <<is64, ctx, frame, onCpu, user, tls, exceptions, svcs>>
  BY DEF KmainStart, cpuVars
<1>6. TypeOK'
  <2>1. <<>> \in Seq(Pids)
    OBVIOUS
  <2>2. 1 \in Threads /\ pending' \in Threads \X Threads /\ nextPid' \in 1..MaxPid + 1
    BY <1>4 DEF Threads
  <2> QED
    BY <1>1, <1>4, <1>5, <2>1, <2>2 DEF TypeOK, Phases
<1>7. EachProcessOnce'
  BY <1>4 DEF EachProcessOnce, Members
<1>8. SwitchIsBetweenOwners'
  BY <1>1, <1>4, <1>5 DEF SwitchIsBetweenOwners
<1>9. FramesHoldResumePoints'
  BY <1>1, <1>4, <1>5 DEF FramesHoldResumePoints
<1>10. ResumesWhereItLeft' /\ ControlState'
  BY <1>1, <1>2, <1>4 DEF ResumesWhereItLeft, ControlState, Threads, Pids
<1> QED
  BY <1>6, <1>7, <1>8, <1>9, <1>10

\* sys_yield puts the caller at the back of the queue and keeps the invariant.
LEMMA SysYieldIInv == IInv /\ SysYield => IInv'
<1> SUFFICES ASSUME IInv, SysYield PROVE IInv'
  OBVIOUS
<1> USE DEF IInv, Kmain
<1>1. /\ TypeOK /\ EachProcessOnce /\ SwitchIsBetweenOwners /\ FramesHoldResumePoints
      /\ phase = "handler" /\ onCpu = current /\ current \in Pids
      /\ frame[current] = Program(current, svcs[current])
  BY DEF SysYield, ControlState, SwitchIsBetweenOwners, FramesHoldResumePoints, TypeOK,
         Threads, Pids
<1>2. UNCHANGED <<nextPid, is64, ctx, frame, onCpu, user, tls, exceptions, svcs>>
  BY DEF SysYield, cpuVars
<1>3. CASE queue = <<>>
  <2>1. UNCHANGED <<queue, current, pending>> /\ phase' = "eret"
    BY <1>3 DEF SysYield
  <2>2. TypeOK' /\ EachProcessOnce'
    BY <1>1, <1>2, <2>1 DEF TypeOK, EachProcessOnce, Phases
  <2>3. SwitchIsBetweenOwners' /\ ResumesWhereItLeft'
    BY <1>1, <1>2, <2>1 DEF SwitchIsBetweenOwners, ResumesWhereItLeft, Stopped
  <2>4. FramesHoldResumePoints' /\ ControlState'
    BY <1>1, <1>2, <2>1 DEF FramesHoldResumePoints, ControlState
  <2> QED
    BY <2>2, <2>3, <2>4
<1>4. CASE queue # <<>>
  <2>1. queue \in Seq(Pids)
    BY <1>1 DEF TypeOK
  <2>2. /\ Back(Rotated(queue)) = current /\ Head(queue) = queue[1] /\ Head(queue) \in Pids
        /\ Len(Rotated(queue)) = Len(queue)
    BY <1>1, <1>4, <2>1, RotatedProperties
  <2>3. /\ ScheduleNext(queue) /\ pending' = <<current, current'>>
        /\ phase' = "switch"
    BY <1>1, <1>4, <2>2 DEF SysYield, ScheduleNext, Pids
  <2>4. EachProcessOnce' /\ queue' \in Seq(Pids) /\ current' \in Pids
    BY <1>1, <1>2, <1>4, <2>3, ScheduleKeepsEachOnce
  <2>5. pending' \in Pids \X Pids
    BY <1>1, <2>3, <2>4
  <2>6. Pids \subseteq Threads /\ 0 \notin Pids
    BY DEF Pids, Threads
  <2>7. TypeOK'
    BY <1>1, <1>2, <2>3, <2>4, <2>5, <2>6 DEF TypeOK, Phases
  <2>8. current' # current
    <3>1. 1 \in DOMAIN queue
      BY <1>4, <2>1, EmptySeq, LenProperties
    <3> QED
      BY <1>1, <2>2, <2>3, <3>1 DEF EachProcessOnce, Members, ScheduleNext
  <2>9. Back(queue') = current
    BY <2>2, <2>3 DEF ScheduleNext
  <2>10. SwitchIsBetweenOwners' /\ ResumesWhereItLeft'
    BY <1>1, <1>2, <2>3, <2>8, <2>9 DEF SwitchIsBetweenOwners, ResumesWhereItLeft, Stopped
  <2>11. FramesHoldResumePoints' /\ ControlState'
    BY <1>1, <1>2, <2>3, <2>4, <2>5, <2>6 DEF FramesHoldResumePoints, ControlState
  <2> QED
    BY <2>4, <2>7, <2>10, <2>11
<1> QED
  BY <1>3, <1>4

\* sys_spawn adds a process that was never on the CPU.
LEMMA SysSpawnIInv == IInv /\ SysSpawn => IInv'
<1> SUFFICES ASSUME IInv, SysSpawn PROVE IInv'
  OBVIOUS
<1> USE MaxPidAssumption DEF IInv, Kmain
<1>1. /\ TypeOK /\ EachProcessOnce /\ SwitchIsBetweenOwners /\ FramesHoldResumePoints
      /\ phase = "handler" /\ onCpu = current /\ current \in Pids
      /\ frame[current] = Program(current, svcs[current])
      /\ nextPid <= MaxPid /\ nextPid \in Nat
  BY DEF SysSpawn, ControlState, SwitchIsBetweenOwners, FramesHoldResumePoints, TypeOK,
         Threads, Pids
<1>2. /\ queue' = AddProcess(queue, nextPid) /\ nextPid' = nextPid + 1 /\ phase' = "eret"
      /\ UNCHANGED <<current, is64, ctx, frame, onCpu, user, tls, exceptions,
                     pending, svcs>>
  BY DEF SysSpawn, cpuVars
<1>3. current < nextPid
  BY <1>1 DEF EachProcessOnce, Pids
<1>4. /\ queue' \in Seq(Pids)
      /\ Members(queue') = Members(queue) \cup {nextPid}
      /\ \A i, j \in DOMAIN queue' : queue'[i] = queue'[j] => i = j
  BY <1>1, <1>2, <1>3, AddProcessKeepsEachOnce DEF Pids
<1>5. EachProcessOnce'
  <2>1. Members(queue') \cup ({current'} \ {0}) = 1..nextPid' - 1
    <3>1. 1..nextPid' - 1 = (1..nextPid - 1) \cup {nextPid}
      BY <1>1, <1>2, <1>3 DEF Pids
    <3>2. Members(queue) \cup ({current} \ {0}) = 1..nextPid - 1
      BY <1>1 DEF EachProcessOnce
    <3> HIDE DEF IInv
    <3> QED
      BY <1>2, <1>4, <3>1, <3>2
  <2>2. current' \notin Members(queue')
    <3>1. current \notin Members(queue) /\ current # nextPid
      BY <1>1, <1>3 DEF EachProcessOnce, Pids
    <3> QED
      BY <1>2, <1>4, <3>1
  <2> QED
    BY <1>4, <2>1, <2>2 DEF EachProcessOnce
<1>6. TypeOK'
  <2>1. nextPid' \in 1..MaxPid + 1
    BY <1>1, <1>2
  <2> QED
    BY <1>1, <1>2, <1>4, <2>1 DEF TypeOK, Phases
<1>7. SwitchIsBetweenOwners' /\ ResumesWhereItLeft'
  BY <1>1, <1>2 DEF SwitchIsBetweenOwners, ResumesWhereItLeft
<1>8. FramesHoldResumePoints' /\ ControlState'
  BY <1>1, <1>2 DEF FramesHoldResumePoints, ControlState, Pids
<1> QED
  BY <1>5, <1>6, <1>7, <1>8

\* __switch_to puts the next thread on the CPU where it was suspended.
LEMMA SwitchToIInv == IInv /\ SwitchTo => IInv'
<1> SUFFICES ASSUME IInv, SwitchTo PROVE IInv'
  OBVIOUS
<1> USE DEF IInv
<1>1. /\ TypeOK /\ SwitchIsBetweenOwners /\ FramesHoldResumePoints /\ ControlState
      /\ phase = "switch" /\ pending = <<onCpu, current>> /\ onCpu # current
      /\ onCpu \in Threads /\ current \in Pids
  BY DEF SwitchTo, SwitchIsBetweenOwners, TypeOK, ControlState, Threads, Pids
<1>2. UNCHANGED <<queue, current, nextPid, is64, frame, exceptions, svcs>>
  BY DEF SwitchTo, schedVars
<1>3. /\ ctx' = [ctx EXCEPT ![onCpu] =
                   Context(onCpu, IF onCpu = Kmain THEN "kmain" ELSE "yield")]
      /\ pending' = <<0, 0>>
  BY <1>1 DEF SwitchTo, Saved
<1>4. current \in Threads /\ Saved(onCpu)[current] = ctx[current]
  BY <1>1 DEF Saved, TypeOK, Threads, Pids
<1>5. ctx[current].thread = current /\ ctx[current].resume \in {"start", "yield"}
  BY <1>1, <1>4 DEF SwitchIsBetweenOwners, FramesHoldResumePoints
<1>6. /\ onCpu' = current
      /\ IF ctx[current].resume = "start"
         THEN user' = Program(current, 0) /\ tls' = TlsBase(current) /\ phase' = "user"
         ELSE phase' = "eret" /\ user' = user /\ tls' = tls
  BY <1>1, <1>4, <1>5 DEF SwitchTo, ThreadStarter, ReturnFromSwitch
<1>7. TypeOK'
  <2>1. ctx' \in [Threads -> Contexts]
    BY <1>1, <1>3 DEF TypeOK, Contexts, Context
  <2>2. user' \in Programs /\ tls' \in {0, 1} /\ phase' \in Phases
    BY <1>1, <1>4, <1>6 DEF TypeOK, Programs, Program, TlsBase, Phases
  <2>3. pending' \in Threads \X Threads
    BY <1>3, MaxPidAssumption DEF Threads
  <2> QED
    BY <1>1, <1>2, <1>4, <1>6, <2>1, <2>2, <2>3 DEF TypeOK
<1>8. EachProcessOnce'
  BY <1>2 DEF EachProcessOnce
<1>9. SwitchIsBetweenOwners'
  <2>1. \A t \in Threads : ctx'[t].thread = t
    BY <1>1, <1>3 DEF SwitchIsBetweenOwners, TypeOK, Context
  <2> QED
    BY <1>2, <1>6, <2>1 DEF SwitchIsBetweenOwners
<1>10. ResumesWhereItLeft'
  BY <1>1, <1>2, <1>5, <1>6 DEF ResumesWhereItLeft, FramesHoldResumePoints
<1>11. FramesHoldResumePoints'
  <2>1. phase' \in {"handler", "eret"} => frame'[current'] = Program(current', svcs'[current'])
    BY <1>1, <1>2, <1>5, <1>6 DEF FramesHoldResumePoints
  <2>2. ASSUME NEW p \in Pids, p # onCpu'
        PROVE  IF ctx'[p].resume = "start"
               THEN svcs'[p] = 0
               ELSE ctx'[p].resume = "yield" /\ frame'[p] = Program(p, svcs'[p])
    <3>1. CASE p = onCpu
      <4>1. p # Kmain /\ p \in Threads
        BY DEF Kmain, Pids, Threads
      <4>2. ctx'[p].resume = "yield"
        BY <1>1, <1>3, <3>1, <4>1 DEF TypeOK, Context
      <4> QED
        BY <1>1, <1>2, <3>1, <4>1, <4>2 DEF FramesHoldResumePoints
    <3>2. CASE p # onCpu
      <4>1. ctx'[p] = ctx[p]
        BY <1>1, <1>3, <3>2 DEF TypeOK, Pids, Threads
      <4> QED
        BY <1>1, <1>2, <3>2, <4>1 DEF FramesHoldResumePoints
    <3> QED
      BY <3>1, <3>2
  <2>3. phase' # "switch"
    BY <1>6
  <2> QED
    BY <2>1, <2>2, <2>3 DEF FramesHoldResumePoints
<1>12. ControlState'
  BY <1>1, <1>2, <1>6 DEF ControlState, Pids
<1> QED
  BY <1>7, <1>8, <1>9, <1>10, <1>11, <1>12

\* Entering and leaving the kernel.
LEMMA SvcIInv == IInv /\ Svc => IInv'
<1> SUFFICES ASSUME IInv, Svc PROVE IInv'
  OBVIOUS
<1> USE DEF IInv
<1>1. /\ TypeOK /\ SwitchIsBetweenOwners /\ FramesHoldResumePoints /\ ControlState
      /\ phase = "user" /\ onCpu = current /\ current \in Pids /\ current \in Threads
      /\ user = Program(current, svcs[current])
  BY DEF Svc, SwitchIsBetweenOwners, ResumesWhereItLeft, ControlState, TypeOK, Threads, Pids
<1>2. UNCHANGED <<queue, current, nextPid, is64, ctx, onCpu, user, tls, pending>>
  BY DEF Svc, schedVars, cpuVars
<1>3. /\ svcs' = [svcs EXCEPT ![current] = @ + 1]
      /\ frame' = [frame EXCEPT ![current] = Program(current, svcs[current] + 1)]
  BY <1>1 DEF Svc, Program
<1>4. svcs[current] \in Nat /\ svcs'[current] = svcs[current] + 1
  BY <1>1, <1>3 DEF TypeOK
<1>5. phase' \in {"handler", "counted"} /\ exceptions' \in Nat
  BY <1>1, CountPhase DEF Svc
<1>6. TypeOK'
  <2>1. frame' \in [Threads -> Programs]
    BY <1>1, <1>3, <1>4 DEF TypeOK, Programs, Program
  <2>2. svcs' \in [Pids -> Nat]
    BY <1>1, <1>3, <1>4 DEF TypeOK
  <2> QED
    BY <1>1, <1>2, <1>5, <2>1, <2>2 DEF TypeOK, Phases, Stopped
<1>7. EachProcessOnce'
  BY <1>2 DEF EachProcessOnce
<1>8. SwitchIsBetweenOwners' /\ ResumesWhereItLeft' /\ ControlState'
  BY <1>1, <1>2, <1>5 DEF SwitchIsBetweenOwners, ResumesWhereItLeft, ControlState
<1>9. FramesHoldResumePoints'
  <2>1. frame'[current'] = Program(current', svcs'[current'])
    BY <1>1, <1>2, <1>3, <1>4 DEF TypeOK
  <2>2. \A p \in Pids : p # onCpu' => frame'[p] = frame[p] /\ svcs'[p] = svcs[p]
    BY <1>1, <1>2, <1>3 DEF TypeOK, Pids, Threads
  <2> QED
    BY <1>1, <1>2, <1>5, <2>1, <2>2 DEF FramesHoldResumePoints
<1> QED
  BY <1>6, <1>7, <1>8, <1>9

\* The return to user code is to where the program left.
LEMMA EretIInv == IInv /\ Eret => IInv'
<1> SUFFICES ASSUME IInv, Eret PROVE IInv'
  OBVIOUS
<1> USE DEF IInv
<1>1. /\ TypeOK /\ SwitchIsBetweenOwners /\ FramesHoldResumePoints /\ ControlState
      /\ phase = "eret" /\ onCpu = current
      /\ phase' = "user" /\ user' = frame[current]
      /\ frame[current] = Program(current, svcs[current])
  BY DEF Eret, SwitchIsBetweenOwners, FramesHoldResumePoints
<1>2. UNCHANGED <<queue, current, nextPid, is64, ctx, frame, onCpu, tls, exceptions,
                  pending, svcs>>
  BY DEF Eret, schedVars
<1>3. TypeOK' /\ EachProcessOnce'
  BY <1>1, <1>2 DEF TypeOK, EachProcessOnce, Phases
<1>4. SwitchIsBetweenOwners' /\ ResumesWhereItLeft' /\ ControlState'
  BY <1>1, <1>2 DEF SwitchIsBetweenOwners, ResumesWhereItLeft, ControlState
<1>5. FramesHoldResumePoints'
  BY <1>1, <1>2 DEF FramesHoldResumePoints
<1> QED
  BY <1>3, <1>4, <1>5

\* A step that only goes from one phase of a stopped or returning kernel to
\* another, and may count an exception.
LEMMA PhaseOnlyIInv ==
  ASSUME IInv, phase \notin {"boot", "switch", "user"}, exceptions' \in Nat,
         phase' \in {"eret", "dump", "dumped", "counted", "exited"},
         phase' = "eret" => phase = "handler",
         UNCHANGED <<schedVars, ctx, frame, cpuVars, pending, svcs>>
  PROVE  IInv'
<1> USE DEF IInv, schedVars, cpuVars
<1>1. TypeOK' /\ EachProcessOnce'
  BY DEF TypeOK, EachProcessOnce, Phases, Stopped
<1>2. SwitchIsBetweenOwners' /\ ResumesWhereItLeft' /\ ControlState'
  BY DEF SwitchIsBetweenOwners, ResumesWhereItLeft, ControlState
<1>3. FramesHoldResumePoints'
  BY DEF FramesHoldResumePoints
<1> QED
  BY <1>1, <1>2, <1>3

\* A fault stops the process that is on the CPU and nothing else.
LEMMA UserFaultIInv == IInv /\ UserFault => IInv'
<1> SUFFICES ASSUME IInv, UserFault PROVE IInv'
  OBVIOUS
<1> USE DEF IInv
<1>1. /\ TypeOK /\ SwitchIsBetweenOwners /\ FramesHoldResumePoints /\ ControlState
      /\ phase = "user" /\ onCpu = current /\ current \in Pids /\ user \in Programs
  BY DEF UserFault, SwitchIsBetweenOwners, ControlState, TypeOK, Threads, Pids
<1>2. /\ UNCHANGED <<queue, current, nextPid, is64, ctx, onCpu, user, tls, pending, svcs>>
      /\ frame' = [frame EXCEPT ![current] = user]
  BY <1>1 DEF UserFault, schedVars, cpuVars
<1>3. phase' \in {"dump", "counted"} /\ exceptions' \in Nat
  BY <1>1, CountPhase DEF UserFault
<1>4. TypeOK' /\ EachProcessOnce'
  BY <1>1, <1>2, <1>3 DEF TypeOK, EachProcessOnce, Phases, Stopped
<1>5. SwitchIsBetweenOwners' /\ ResumesWhereItLeft' /\ ControlState'
  BY <1>1, <1>2, <1>3 DEF SwitchIsBetweenOwners, ResumesWhereItLeft, ControlState
<1>6. \A p \in Pids : p # onCpu => frame'[p] = frame[p]
  BY <1>1, <1>2 DEF TypeOK, Pids, Threads
<1>7. FramesHoldResumePoints'
  BY <1>1, <1>2, <1>3, <1>6 DEF FramesHoldResumePoints
<1> QED
  BY <1>4, <1>5, <1>7

\* IInv is inductive.
LEMMA NextIInv == IInv /\ [Next]_vars => IInv'
<1> SUFFICES ASSUME IInv, [Next]_vars PROVE IInv'
  OBVIOUS
<1>1. TypeOK
  BY DEF IInv
<1>2. CASE KmainStart
  BY <1>2, KmainStartIInv
<1>3. CASE SwitchTo
  BY <1>3, SwitchToIInv
<1>4. CASE Svc
  BY <1>4, SvcIInv
<1>5. CASE UserFault
  BY <1>5, UserFaultIInv
<1>6. CASE KernelFault
  <2>1. phase' \in {"dump", "counted"} /\ exceptions' \in Nat
    BY <1>1, <1>6, CountPhase DEF KernelFault
  <2> QED
    BY <1>6, <2>1, PhaseOnlyIInv DEF KernelFault
<1>7. CASE DumpFault
  <2>1. phase' \in {"dump", "counted"} /\ exceptions' \in Nat
    BY <1>1, <1>7, CountPhase DEF DumpFault
  <2> QED
    BY <1>7, <2>1, PhaseOnlyIInv DEF DumpFault
<1>8. CASE DumpDone \/ SysExit \/ OtherSyscall
  BY <1>1, <1>8, PhaseOnlyIInv DEF DumpDone, SysExit, OtherSyscall, TypeOK
<1>9. CASE Eret
  BY <1>9, EretIInv
<1>10. CASE SysYield
  BY <1>10, SysYieldIInv
<1>11. CASE SysSpawn
  BY <1>11, SysSpawnIInv
<1>12. CASE UNCHANGED vars \/ Wfe
  <2>1. /\ UNCHANGED <<queue, current, nextPid, is64, ctx, frame, onCpu, user>>
        /\ UNCHANGED <<tls, exceptions, pending, phase, svcs>>
    BY <1>12 DEF Wfe, vars, schedVars, cpuVars
  <2>2. TypeOK'
    BY <1>1, <2>1 DEF TypeOK
  <2>3. EachProcessOnce'
    BY <2>1 DEF IInv, EachProcessOnce
  <2>4. SwitchIsBetweenOwners'
    BY <2>1 DEF IInv, SwitchIsBetweenOwners
  <2>5. ResumesWhereItLeft' /\ ControlState'
    BY <2>1 DEF IInv, ResumesWhereItLeft, ControlState
  <2>6. FramesHoldResumePoints'
    BY <2>1 DEF IInv, FramesHoldResumePoints
  <2> QED
    BY <2>2, <2>3, <2>4, <2>5, <2>6 DEF IInv
<1> QED
  BY <1>2, <1>3, <1>4, <1>5, <1>6, <1>7, <1>8, <1>9, <1>10, <1>11, <1>12 DEF Next

\* The inductive invariant holds of every behaviour.
THEOREM Invariance == Spec => []IInv
<1>1. Init => IInv
  BY InitIInv
<1>2. IInv /\ [Next]_vars => IInv'
  BY NextIInv
<1> QED
  BY <1>1, <1>2, PTL DEF Spec

\* Type correctness of the scheduler's state.
THEOREM TypeCorrect == Spec => []TypeOK
<1>1. IInv => TypeOK
  BY DEF IInv
<1> QED
  BY <1>1, Invariance, PTL

\* schedule_next neither loses nor duplicates a process.
THEOREM NoProcessLost == Spec => []EachProcessOnce
<1>1. IInv => EachProcessOnce
  BY DEF IInv
<1> QED
  BY <1>1, Invariance, PTL

\* The pointers used after the lock is released name the right contexts.
THEOREM SwitchSafe == Spec => []SwitchIsBetweenOwners
<1>1. IInv => SwitchIsBetweenOwners
  BY DEF IInv
<1> QED
  BY <1>1, Invariance, PTL

\* A program continues at the instruction after its last system call.
THEOREM ContextPreserved == Spec => []ResumesWhereItLeft
<1>1. IInv => ResumesWhereItLeft
  BY DEF IInv
<1> QED
  BY <1>1, Invariance, PTL

-----------------------------------------------------------------------------
(* Order.                                                                  *)

\* Only kmain's start, a yield and a spawn touch the queue.
LEMMA QueueSteps ==
  ASSUME IInv, [Next]_vars
  PROVE  \/ KmainStart
         \/ SysYield /\ queue # <<>> /\ ScheduleNext(queue) /\ current \in Pids
         \/ SysSpawn
         \/ UNCHANGED <<queue, current>>
<1>1. SysYield => current \in Pids
  BY DEF IInv, SysYield, ControlState, TypeOK, Threads, Pids
<1> QED
  BY <1>1 DEF Next, vars, schedVars, cpuVars, SwitchTo, Svc, UserFault, KernelFault, DumpFault,
              DumpDone, Eret, SysYield, SysExit, OtherSyscall, Wfe

\* No waiting process is overtaken, whatever the others do.
THEOREM FirstComeFirstServed == Spec => NoOvertaking
<1> DEFINE Advance == \A i \in DOMAIN queue :
                        \/ i \in DOMAIN queue' /\ queue'[i] = queue[i]
                        \/ i > 1 /\ queue'[i - 1] = queue[i]
                        \/ i = 1 /\ current' = queue[1]
<1>1. ASSUME IInv, [Next]_vars PROVE Advance
  <2>1. queue \in Seq(Pids) /\ Len(queue) \in Nat /\ DOMAIN queue = 1..Len(queue)
    BY <1>1, LenProperties DEF IInv, TypeOK
  <2>2. CASE KmainStart
    BY <1>1, <2>2 DEF IInv, ControlState, KmainStart
  <2>3. CASE SysYield /\ queue # <<>> /\ ScheduleNext(queue) /\ current \in Pids
    <3>1. /\ \A i \in 1..Len(queue) :
                queue'[i] = IF i < Len(queue) THEN queue[i + 1] ELSE current
          /\ current' = queue[1]
      BY <2>1, <2>3, RotatedProperties DEF ScheduleNext
    <3> QED
      BY <2>1, <3>1
  <2>4. CASE SysSpawn
    <3>1. nextPid \in Pids
      BY <1>1, <2>4, MaxPidAssumption DEF IInv, TypeOK, SysSpawn, Pids
    <3>2. queue' = Append(queue, nextPid)
      BY <2>4 DEF SysSpawn, AddProcess
    <3>3. DOMAIN queue' = 1..Len(queue) + 1 /\ \A i \in 1..Len(queue) : queue'[i] = queue[i]
      BY <2>1, <3>1, <3>2, AppendProperties, LenProperties
    <3> QED
      BY <2>1, <3>3
  <2>5. CASE UNCHANGED <<queue, current>>
    BY <2>5
  <2> QED
    BY <1>1, <2>2, <2>3, <2>4, <2>5, QueueSteps
<1>2. IInv /\ [Next]_vars => [Advance]_vars
  BY <1>1
<1> QED
  BY <1>2, Invariance, PTL DEF Spec, NoOvertaking

-----------------------------------------------------------------------------
(* The refinement.                                                         *)

\* A yield turns the ring of the process on the CPU and the queue by one.
LEMMA RingOfYield ==
  ASSUME NEW q \in Seq(Pids), q # <<>>, NEW c \in Pids
  PROVE  LET r == <<c>> \o q
             s == <<Head(q)>> \o Append(Tail(q), c)
         IN  r # <<>> /\ s = Append(Tail(r), Head(r))
<1> DEFINE r == <<c>> \o q
           t == Append(Tail(q), c)
           s == <<Head(q)>> \o t
           n == Len(q)
<1>1. /\ n \in Nat \ {0} /\ <<c>> \in Seq(Pids) /\ Len(<<c>>) = 1 /\ <<c>>[1] = c
      /\ Head(q) \in Pids /\ Head(q) = q[1] /\ Tail(q) \in Seq(Pids) /\ Len(Tail(q)) = n - 1
      /\ \A i \in 1..n - 1 : Tail(q)[i] = q[i + 1]
  BY EmptySeq, HeadTailProperties
<1>2. /\ r \in Seq(Pids) /\ Len(r) = n + 1
      /\ \A i \in 1..n + 1 : r[i] = IF i <= 1 THEN c ELSE q[i - 1]
  <2>1. /\ r \in Seq(Pids) /\ Len(r) = Len(<<c>>) + n
        /\ \A i \in 1..Len(<<c>>) + n : r[i] = IF i <= Len(<<c>>) THEN <<c>>[i] ELSE q[i - Len(<<c>>)]
    BY <1>1, ConcatProperties
  <2> QED
    BY <1>1, <2>1
<1>3. /\ t \in Seq(Pids) /\ Len(t) = n
      /\ \A i \in 1..n : t[i] = IF i < n THEN q[i + 1] ELSE c
  <2>1. /\ t \in Seq(Pids) /\ Len(t) = Len(Tail(q)) + 1
        /\ \A i \in 1..Len(Tail(q)) : t[i] = Tail(q)[i]
        /\ t[Len(Tail(q)) + 1] = c
    BY <1>1, AppendProperties
  <2> HIDE DEF t
  <2>2. \A i \in 1..n : t[i] = IF i < n THEN q[i + 1] ELSE c
    BY <1>1, <2>1
  <2> QED
    BY <1>1, <2>1, <2>2
<1>4. /\ s \in Seq(Pids) /\ Len(s) = n + 1
      /\ \A i \in 1..n + 1 : s[i] = IF i <= 1 THEN q[1] ELSE t[i - 1]
  <2> DEFINE h == <<Head(q)>>
  <2>1. h \in Seq(Pids) /\ Len(h) = 1 /\ h[1] = q[1]
    BY <1>1
  <2>2. /\ s \in Seq(Pids) /\ Len(s) = Len(h) + Len(t)
        /\ \A i \in 1..Len(h) + Len(t) : s[i] = IF i <= Len(h) THEN h[i] ELSE t[i - Len(h)]
    <3> HIDE DEF h, t
    <3>1. s = h \o t
      BY DEF h
    <3> QED
      BY <1>3, <2>1, <3>1, ConcatProperties
  <2> HIDE DEF h, t
  <2> QED
    BY <1>1, <1>3, <2>1, <2>2
<1> HIDE DEF r, t, s
<1>5. /\ r # <<>> /\ Head(r) = c /\ Tail(r) \in Seq(Pids) /\ Len(Tail(r)) = n
      /\ \A i \in 1..n : Tail(r)[i] = q[i]
  <2>1. r # <<>>
    BY <1>1, <1>2, EmptySeq
  <2> QED
    BY <1>1, <1>2, <2>1, HeadTailProperties
<1> DEFINE a == Append(Tail(r), Head(r))
<1>6. /\ a \in Seq(Pids) /\ Len(a) = n + 1 /\ a[n + 1] = c
      /\ \A i \in 1..n : a[i] = q[i]
  BY <1>5, AppendProperties
<1> HIDE DEF a
<1>7. ASSUME NEW i \in 1..n + 1 PROVE s[i] = a[i]
  <2>1. CASE i = 1
    BY <1>1, <1>4, <1>6, <2>1
  <2>2. CASE i \in 2..n
    <3>1. i - 1 \in 1..n /\ i - 1 < n /\ ~(i <= 1) /\ i \in 1..n /\ (i - 1) + 1 = i
      BY <1>1, <2>2
    <3>2. s[i] = t[i - 1]
      BY <1>4, <3>1
    <3>3. t[i - 1] = q[(i - 1) + 1]
      BY <1>3, <3>1
    <3> QED
      BY <1>6, <3>1, <3>2, <3>3
  <2>3. CASE i = n + 1
    <3>1. CASE n = 1
      BY <1>1, <1>3, <1>4, <1>6, <2>3, <3>1
    <3>2. CASE n # 1
      BY <1>1, <1>3, <1>4, <1>6, <2>3, <3>2
    <3> QED
      BY <3>1, <3>2
  <2> QED
    BY <1>1, <2>1, <2>2, <2>3
<1>8. s = a
  BY <1>4, <1>6, <1>7, SeqEqual
<1> QED
  BY <1>5, <1>8 DEF r, t, s, a

\* Yield, spawn and kmain's start are the ring's steps; all else stutters.
THEOREM ImplementsRoundRobin == Spec => RefinesRoundRobin
<1> DEFINE ring == IF current = 0 THEN queue ELSE <<current>> \o queue
<1>1. Init => Ring!Init
  BY DEF Init, Ring!Init
<1>2. ASSUME IInv, [Next]_vars PROVE [Ring!Next]_ring
  <2>1. TypeOK /\ EachProcessOnce /\ queue \in Seq(Pids)
    BY <1>2 DEF IInv, TypeOK
  <2>2. CASE KmainStart
    <3>1. current = 0 /\ queue = <<>> /\ nextPid = 1 /\ 1 \in Pids
      BY <1>2, <2>2, MaxPidAssumption DEF IInv, ControlState, KmainStart, Pids
    <3>2. ScheduleNext(<<1>>)
      BY <2>2, <3>1 DEF KmainStart, AddProcess
    <3>3. Head(<<1>>) = 1 /\ Tail(<<1>>) = <<>>
      OBVIOUS
    <3>4. current' = 1 /\ queue' = <<>>
      BY <3>1, <3>2, <3>3 DEF ScheduleNext, Rotated
    <3>5. ring = <<>> /\ ring' = Append(<<>>, 1) /\ 1 \notin Ring!Members(ring)
      BY <3>1, <3>4 DEF Ring!Members
    <3> HIDE DEF ring
    <3>6. \E p \in Pids : p \notin Ring!Members(ring) /\ ring' = Append(ring, p)
      BY <3>1, <3>5
    <3> QED
      BY <3>6 DEF Ring!Next, Ring!Admit, ring
  <2>3. CASE SysYield /\ queue # <<>> /\ ScheduleNext(queue) /\ current \in Pids
    <3>1. current' = Head(queue) /\ queue' = Append(Tail(queue), current) /\ current # 0
      BY <2>3 DEF ScheduleNext, Rotated, Pids
    <3>2. Head(queue) # 0
      <4>1. Head(queue) \in Pids
        BY <2>1, <2>3, HeadTailProperties
      <4> QED
        BY <4>1 DEF Pids
    <3>3. ring = <<current>> \o queue /\ ring' = <<Head(queue)>> \o Append(Tail(queue), current)
      BY <3>1, <3>2
    <3>4. ring # <<>> /\ ring' = Append(Tail(ring), Head(ring))
      BY <2>1, <2>3, <3>3, RingOfYield
    <3> QED
      BY <3>4 DEF Ring!Next, Ring!Rotate
  <2>4. CASE SysSpawn
    <3>1. /\ queue' = Append(queue, nextPid) /\ current' = current /\ nextPid \in Pids
          /\ current \in Pids /\ nextPid \notin Members(queue) /\ nextPid # current
      BY <1>2, <2>1, <2>4, MaxPidAssumption
         DEF SysSpawn, AddProcess, TypeOK, EachProcessOnce, IInv, ControlState, Pids, Threads
    <3>2. ring = <<current>> \o queue /\ ring' = <<current>> \o Append(queue, nextPid)
      BY <3>1 DEF Pids
    <3>3. ring' = Append(ring, nextPid)
      <4>1. <<current>> \in Seq(Pids) /\ <<nextPid>> \in Seq(Pids)
        BY <3>1
      <4>2. Append(queue, nextPid) = queue \o <<nextPid>>
        BY <2>1, <3>1, AppendIsConcat
      <4>3. <<current>> \o queue \in Seq(Pids)
        BY <2>1, <4>1, ConcatProperties
      <4>4. Append(<<current>> \o queue, nextPid) = (<<current>> \o queue) \o <<nextPid>>
        BY <3>1, <4>3, AppendIsConcat
      <4>5. (<<current>> \o queue) \o <<nextPid>> = <<current>> \o (queue \o <<nextPid>>)
        BY <2>1, <4>1, ConcatAssociative
      <4> QED
        BY <3>2, <4>2, <4>4, <4>5
    <3>4. nextPid \notin Ring!Members(ring)
      <4>1. <<current>> \in Seq(Pids) /\ Len(<<current>>) = 1 /\ <<current>>[1] = current
        BY <3>1
      <4>2. /\ ring \in Seq(Pids) /\ Len(queue) \in Nat /\ Len(ring) = 1 + Len(queue)
            /\ \A i \in 1..1 + Len(queue) : ring[i] = IF i <= 1 THEN current ELSE queue[i - 1]
        <5> HIDE DEF ring
        <5>1. /\ ring \in Seq(Pids) /\ Len(ring) = Len(<<current>>) + Len(queue)
              /\ \A i \in 1..Len(<<current>>) + Len(queue) :
                   ring[i] = IF i <= Len(<<current>>) THEN <<current>>[i]
                                                       ELSE queue[i - Len(<<current>>)]
          BY <2>1, <3>2, <4>1, ConcatProperties
        <5> QED
          BY <2>1, <4>1, <5>1, LenProperties
      <4>3. DOMAIN ring = 1..1 + Len(queue) /\ DOMAIN queue = 1..Len(queue)
        BY <2>1, <4>2, LenProperties
      <4> HIDE DEF ring
      <4> QED
        BY <3>1, <4>2, <4>3 DEF Ring!Members, Members
    <3> QED
      BY <3>1, <3>3, <3>4 DEF Ring!Next, Ring!Admit
  <2>5. CASE UNCHANGED <<queue, current>>
    BY <2>5
  <2> QED
    BY <1>2, <2>2, <2>3, <2>4, <2>5, QueueSteps
<1>3. IInv /\ [Next]_vars => [Ring!Next]_ring
  BY <1>2
<1> QED
  BY <1>1, <1>3, Invariance, PTL DEF Spec, RefinesRoundRobin, Ring!Spec
=============================================================================
