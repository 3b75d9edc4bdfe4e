------------------------------ MODULE Scheduler ------------------------------
(***************************************************************************)
(* The kernel's run queue (scheduler.rs), the context switch (switch.s),   *)
(* the exception entry and exit (vectors.s) and the system calls that move *)
(* control between processes (process.rs), from kmain's hand-over to the   *)
(* first process on.                                                       *)
(*                                                                         *)
(* The kernel runs on one CPU with interrupts masked, so control is a      *)
(* sequence of phases: "user" code runs, an exception enters the "handler",*)
(* sys_yield decides under the lock and then, the lock released, does the  *)
(* "switch", and "eret" returns to user code.  A wfe loop never ends: the  *)
(* phases in Stopped are left by no action.                                *)
(*                                                                         *)
(* Thread 0 is kmain itself.  What registers hold is reduced to whose they *)
(* are: ctx[t].thread is the thread whose x19..x30 and sp are saved in the *)
(* CpuContext of t, user.owner the process whose program state is in the   *)
(* CPU.  svcs is an auxiliary count of the system calls a program has made,*)
(* by which the place it must resume at is known.                          *)
(***************************************************************************)
EXTENDS Naturals, Sequences

CONSTANTS
  MaxPid,          \* bound on PID_COUNTER: the processes a behaviour creates
  MaxExceptions    \* the literal 100 of handle_sync_exception

ASSUME MaxPidAssumption        == MaxPid \in Nat \ {0}
ASSUME MaxExceptionsAssumption == MaxExceptions \in Nat

VARIABLES
  queue,       \* SCHEDULER.processes
  current,     \* SCHEDULER.current_process, 0 for None (as current_pid has it)
  nextPid,     \* PID_COUNTER
  is64,        \* is64[p]: p was created with is_64bit
  ctx,         \* ctx[t]: the CpuContext of thread t
  frame,       \* frame[t]: the TrapFrame at the top of t's kernel stack
  onCpu,       \* the thread whose x19..x30 and sp are in the CPU
  user,        \* the program state in the CPU while phase = "user"
  tls,         \* the tls_base in tpidr_el0 and tpidrro_el0
  exceptions,  \* EXCEPTION_COUNT
  pending,     \* the (prev, next) pointers schedule_next returned
  phase,
  svcs         \* auxiliary: system calls made by each process

schedVars == <<queue, current, nextPid, is64>>
cpuVars   == <<onCpu, user, tls>>
vars == <<schedVars, ctx, frame, cpuVars, exceptions, pending, phase, svcs>>

Kmain   == 0
Pids    == 1..MaxPid
Threads == 0..MaxPid
Stopped == {"exited", "counted", "dumped", "panic", "returned"}

\* kmain gives the first process a TLS page, sys_spawn passes 0.
TlsBase(p) == IF p = 1 THEN 1 ELSE 0

Program(p, n) == [owner |-> p, pc |-> n]
Context(t, where) == [thread |-> t, resume |-> where]

Init ==
  /\ queue = <<>> /\ current = 0 /\ nextPid = 1
  /\ is64 \in {[p \in Pids |-> p # 1 \/ first64] : first64 \in BOOLEAN}
  /\ ctx = [t \in Threads |-> Context(t, IF t = Kmain THEN "kmain" ELSE "start")]
  /\ frame = [t \in Threads |-> Program(t, 0)]
  /\ onCpu = Kmain /\ user = Program(Kmain, 0) /\ tls = 0
  /\ exceptions = 0
  /\ pending = <<0, 0>>
  /\ phase = "boot"
  /\ svcs = [p \in Pids |-> 0]

-----------------------------------------------------------------------------
(* Scheduler::add_process and Scheduler::schedule_next.                    *)

\* Slips these would admit: a push_front, an unconditional or a dropped
\* push_back of the previous process, a push_front of it, front_mut for
\* back_mut.
AddProcessInFront(q, p)   == <<p>> \o q
RotatedWithoutTest(q)     == Append(Tail(q), current)
RotatedWithoutPrev(q)     == Tail(q)
RotatedPrevInFront(q)     == IF current = 0 THEN Tail(q) ELSE <<current>> \o Tail(q)
FrontForBack(q)           == IF q = <<>> THEN 0 ELSE Head(q)

AddProcess(q, p) == Append(q, p)

\* The queue schedule_next leaves, of a non-empty queue q.
Rotated(q) == IF current = 0 THEN Tail(q) ELSE Append(Tail(q), current)

\* back_mut() of that queue: 0 stands for the None of an empty one.
Back(q) == IF q = <<>> THEN 0 ELSE q[Len(q)]

ScheduleNext(q) ==
  /\ current' = Head(q)
  /\ queue'   = Rotated(q)

-----------------------------------------------------------------------------
(* kmain: the first process is created, queued and made current under one  *)
(* lock; the result of schedule_next is dropped and the switch is made     *)
(* from a context on kmain's own stack.                                    *)

KmainStart ==
  /\ phase = "boot"
  /\ ScheduleNext(AddProcess(queue, nextPid))
  /\ nextPid' = nextPid + 1
  /\ pending' = <<Kmain, Head(AddProcess(queue, nextPid))>>
  /\ phase' = "switch"
  /\ UNCHANGED <<is64, ctx, frame, cpuVars, exceptions, svcs>>

\* A slip of __switch_to: nothing stored.
SavedNothing(prev) == ctx

\* __switch_to(prev, next): store to prev, then load from next.
Saved(prev) ==
  [ctx EXCEPT ![prev] = Context(onCpu, IF onCpu = Kmain THEN "kmain" ELSE "yield")]

\* kernel_thread_starter: a thread entered for the first time goes straight
\* to its program and sets the TLS registers on the way.
ThreadStarter(t) ==
  /\ user' = Program(t, 0)
  /\ tls' = TlsBase(t)
  /\ phase' = "user"

\* A thread that switched away in sys_yield returns from it.
ReturnFromSwitch(where) ==
  /\ phase' = IF where = "kmain" THEN "returned" ELSE "eret"
  /\ UNCHANGED <<user, tls>>

SwitchTo ==
  LET prev   == pending[1]
      loaded == Saved(prev)[pending[2]]
  IN  /\ phase = "switch"
      /\ ctx' = Saved(prev)
      /\ onCpu' = loaded.thread
      /\ IF loaded.resume = "start" THEN ThreadStarter(loaded.thread)
                                    ELSE ReturnFromSwitch(loaded.resume)
      /\ pending' = <<0, 0>>
      /\ UNCHANGED <<schedVars, frame, exceptions, svcs>>

-----------------------------------------------------------------------------
(* Exception entry and exit.                                               *)

\* handle_sync_exception counts every exception, whatever its class.
Count(next) ==
  /\ exceptions' = exceptions + 1
  /\ phase' = IF exceptions + 1 > MaxExceptions THEN "counted" ELSE next

\* An SVC: sync_handler stores the program's state on the kernel stack that
\* is in sp, which is the stack of the thread on the CPU.
Svc ==
  /\ phase = "user"
  /\ svcs' = [svcs EXCEPT ![user.owner] = @ + 1]
  /\ frame' = [frame EXCEPT ![onCpu] = Program(user.owner, user.pc + 1)]
  /\ Count("handler")
  /\ UNCHANGED <<schedVars, ctx, cpuVars, pending>>

\* Any other exception class is dumped and the kernel stops.
UserFault ==
  /\ phase = "user"
  /\ frame' = [frame EXCEPT ![onCpu] = user]
  /\ Count("dump")
  /\ UNCHANGED <<schedVars, ctx, cpuVars, pending, svcs>>

\* A pointer argument that is not mapped faults inside the system call.
KernelFault ==
  /\ phase = "handler"
  /\ Count("dump")
  /\ UNCHANGED <<schedVars, ctx, frame, cpuVars, pending, svcs>>

\* dump_mem reads memory around the faulting addresses and can fault itself.
DumpFault ==
  /\ phase = "dump"
  /\ Count("dump")
  /\ UNCHANGED <<schedVars, ctx, frame, cpuVars, pending, svcs>>

DumpDone ==
  /\ phase = "dump"
  /\ phase' = "dumped"
  /\ UNCHANGED <<schedVars, ctx, frame, cpuVars, exceptions, pending, svcs>>

\* sync_handler's tail: the program state is reloaded from the frame on the
\* kernel stack in sp.  The TLS registers are not part of it.
Eret ==
  /\ phase = "eret"
  /\ user' = frame[onCpu]
  /\ phase' = "user"
  /\ UNCHANGED <<schedVars, ctx, frame, onCpu, tls, exceptions, pending, svcs>>

-----------------------------------------------------------------------------
(* System calls.  An A32 process has none that yields or spawns.           *)

SysYield ==
  /\ phase = "handler" /\ is64[current]
  /\ IF queue = <<>>
     THEN /\ phase' = "eret"
          /\ UNCHANGED <<queue, current, pending>>
     ELSE /\ ScheduleNext(queue)
          /\ pending' = <<Back(Rotated(queue)), Head(queue)>>
          /\ phase' = IF Back(Rotated(queue)) = 0 THEN "panic" ELSE "switch"
  /\ UNCHANGED <<nextPid, is64, ctx, frame, cpuVars, exceptions, svcs>>

SysSpawn ==
  /\ phase = "handler" /\ is64[current]
  /\ nextPid <= MaxPid
  /\ queue' = AddProcess(queue, nextPid)
  /\ nextPid' = nextPid + 1
  /\ phase' = "eret"
  /\ UNCHANGED <<current, is64, ctx, frame, cpuVars, exceptions, pending, svcs>>

\* The exiting process stays current and the kernel waits in wfe for ever.
SysExit ==
  /\ phase = "handler"
  /\ phase' = "exited"
  /\ UNCHANGED <<schedVars, ctx, frame, cpuVars, exceptions, pending, svcs>>

\* write, getpid, an unknown number, and the A32 calls: control goes back.
OtherSyscall ==
  /\ phase = "handler"
  /\ phase' = "eret"
  /\ UNCHANGED <<schedVars, ctx, frame, cpuVars, exceptions, pending, svcs>>

Wfe == phase \in Stopped /\ UNCHANGED vars

Next ==
  \/ KmainStart \/ SwitchTo
  \/ Svc \/ UserFault \/ KernelFault \/ DumpFault \/ DumpDone \/ Eret
  \/ SysYield \/ SysSpawn \/ SysExit \/ OtherSyscall
  \/ Wfe

Spec == Init /\ [][Next]_vars

-----------------------------------------------------------------------------
(* Properties.                                                             *)

Members(q) == {q[i] : i \in DOMAIN q}

Phases == {"boot", "switch", "user", "handler", "eret", "dump"} \cup Stopped

Programs == [owner : Threads, pc : Nat]
Contexts == [thread : Threads, resume : {"kmain", "start", "yield"}]

\* The type invariant: every variable holds a value of its kind.
TypeOK ==
  /\ queue \in Seq(Pids) /\ current \in Threads /\ nextPid \in 1..MaxPid + 1
  /\ is64 \in [Pids -> BOOLEAN]
  /\ ctx \in [Threads -> Contexts] /\ frame \in [Threads -> Programs]
  /\ onCpu \in Threads /\ user \in Programs /\ tls \in {0, 1}
  /\ exceptions \in Nat
  /\ pending \in Threads \X Threads
  /\ phase \in Phases
  /\ svcs \in [Pids -> Nat]

\* No process is ever lost or queued twice: the processes created so far are
\* the current one and those in the queue, each of them exactly once
\* (schedule_next moves a Box out of current_process and into the queue).
EachProcessOnce ==
  /\ Members(queue) \cup ({current} \ {0}) = 1..nextPid - 1
  /\ current \notin Members(queue)
  /\ \A i, j \in DOMAIN queue : queue[i] = queue[j] => i = j

\* sys_yield works on pointers taken under a lock it has released.  When the
\* switch is made they still name the thread on the CPU and the process that
\* was made current, two different ones; otherwise the CPU holds the current
\* process.  Every saved context is that of its own thread, so no switch
\* overwrites the registers of a process that is waiting, and neither the
\* expect of sys_yield nor the end of kmain is ever reached.
SwitchIsBetweenOwners ==
  /\ \A t \in Threads : ctx[t].thread = t
  /\ phase = "switch" => /\ pending = <<onCpu, current>>
                         /\ onCpu # current
                         /\ onCpu # 0 => onCpu = Back(queue)
  /\ phase # "switch" => onCpu = current
  /\ phase \notin {"panic", "returned"}

\* A program finds itself where it was: what runs is the current process, at
\* the instruction after the last system call it made, however many other
\* processes ran (or were started, or spawned) in between.
ResumesWhereItLeft ==
  phase = "user" => user = Program(current, svcs[current])

\* A waiting process is never overtaken: each step leaves it where it was in
\* the queue, moves it one place forward or, from the front, makes it
\* current.  A process at place i runs after i yields, whatever is spawned.
NoOvertaking ==
  [][\A i \in DOMAIN queue :
       \/ i \in DOMAIN queue' /\ queue'[i] = queue[i]
       \/ i > 1 /\ queue'[i - 1] = queue[i]
       \/ i = 1 /\ current' = queue[1]]_vars

\* The run queue implements the ring: current process first, then the queue.
Ring == INSTANCE RoundRobin WITH
          ring <- IF current = 0 THEN queue ELSE <<current>> \o queue
RefinesRoundRobin == Ring!Spec

\* switch.s restores the "next context" and kernel_thread_starter says it
\* sets the TLS: a running program sees its own TLS base.
TlsIsOwn == phase = "user" => tls = TlsBase(current)
=============================================================================
