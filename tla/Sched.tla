------------------------------- MODULE Sched -------------------------------
(***************************************************************************)
(* The BSP scheduler: spawn, yield_now, preempt and init of sched.rs, the  *)
(* IrqGuard of irq.rs and the timer interrupt of apic.rs.                  *)
(*                                                                         *)
(* One CPU executes one stack at a time (running).  A stack holds at most  *)
(* two contexts: the task's own code and, on top of it, one interrupt      *)
(* frame; the interrupt gate clears IF, so the handler is never nested.    *)
(* pc[c] is the next step of context c.  yield_now and preempt run the     *)
(* same rotation, here once, parameterised by the context it runs in.      *)
(*                                                                         *)
(* preempt_count is 0 in every state (no code raises it), so preempt's     *)
(* first early return is left out.  The APs are parked in hlt with IF = 0  *)
(* and never touch the runqueue.                                           *)
(***************************************************************************)
EXTENDS Integers, Sequences

CONSTANTS Tasks,        \* the tasks spawn creates
          Idle,         \* the task sched::init creates
          Boot,         \* the Limine boot stack, not a task
          NoTask,       \* the null pointer
          Spawners,     \* the stacks that call spawn; {Boot} in main.rs
          SliceTicks,   \* SLICE_TICKS
          TickMod       \* the tick counter wraps here (2^64 in the code)

ASSUME TasksAssumption ==
    /\ Idle \notin Tasks /\ Boot \notin Tasks /\ NoTask \notin Tasks
    /\ Idle # Boot /\ Idle # NoTask /\ Boot # NoTask

ASSUME TicksAssumption ==
    /\ SliceTicks \in Nat \ {0}
    /\ TickMod \in Nat
    /\ SliceTicks < TickMod

AllTasks == Tasks \cup {Idle}
Stacks == AllTasks \cup {Boot}

ASSUME SpawnersAssumption == Spawners \subseteq Stacks

Ctx == Stacks \X {"task", "irq"}

VARIABLES
    current,          \* cpu.current
    runqueue,         \* cpu.runqueue
    rq_lock,          \* its spin mutex is held
    ticks,            \* cpu.ticks
    last_switch_tick, \* cpu.last_switch_tick
    running,          \* the stack RSP points into
    rflags_if,        \* the CPU's interrupt flag
    pc,               \* next step of each context
    saved_if,         \* IF kept by a context: IrqGuard.rflags, or the IRET frame
    frame_if,         \* IF in the switch_to frame of a suspended stack
    suspended,        \* the tasks whose saved_rsp names such a frame
    next,             \* local next_box / next_ptr (spawn's task) of a context
    prev,             \* local prev_ptr / prev_box of a context
    spawned,          \* the tasks that exist
    ran               \* history: ticks since the last rotation, up to SliceTicks

vars == <<current, runqueue, rq_lock, ticks, last_switch_tick, running,
          rflags_if, pc, saved_if, frame_if, suspended, next, prev, spawned, ran>>

(* What a rotation works on, and what only entering and leaving it changes. *)
queueVars == <<current, runqueue, rq_lock, last_switch_tick>>
flagVars  == <<rflags_if, saved_if>>
stackVars == <<running, frame_if, suspended, spawned>>
tickVars  == <<ticks, ran>>
localVars == <<next, prev>>

PcValues == {"run", "entry", "window", "halted",        \* task code
             "s_cli", "s_lock", "s_push",               \* spawn
             "y_cli",                                   \* yield_now
             "none", "check",                           \* timer_handler, preempt
             "lock_pop", "pop", "swap", "lock_push", "push", "switch", "ret"}

(* The context the CPU is executing: the interrupt frame if there is one.  *)
Top == IF pc[<<running, "irq">>] = "none" THEN <<running, "task">>
                                          ELSE <<running, "irq">>

At(l) == pc[Top] = l
Goto(l) == pc' = [pc EXCEPT ![Top] = l]

-----------------------------------------------------------------------------
Init ==
    /\ current = NoTask
    /\ runqueue = <<>>
    /\ rq_lock = FALSE
    /\ ticks = 0
    /\ last_switch_tick = 0
    /\ running = Boot
    /\ rflags_if = FALSE
    /\ pc = [c \in Ctx |-> IF c[2] = "irq" THEN "none"
                           ELSE IF c[1] = Idle THEN "entry" ELSE "run"]
    /\ saved_if = [c \in Ctx |-> FALSE]
    /\ frame_if = [s \in Stacks |-> FALSE]
    /\ suspended = {}
    /\ next = [c \in Ctx |-> NoTask]
    /\ prev = [c \in Ctx |-> NoTask]
    /\ spawned = {}
    /\ ran = 0

(* Task::new lays down a frame whose rflags word is 0x202: IF = 1.         *)
TaskNew(t) ==
    /\ t \notin spawned
    /\ spawned' = spawned \cup {t}
    /\ frame_if' = [frame_if EXCEPT ![t] = TRUE]

(* spawn: Task::new runs first, then IrqGuard reads rflags.                *)
Spawn(t) ==
    /\ running \in Spawners
    /\ At("run")
    /\ TaskNew(t)
    /\ suspended' = suspended \cup {t}
    /\ next' = [next EXCEPT ![Top] = t]
    /\ saved_if' = [saved_if EXCEPT ![Top] = rflags_if]
    /\ Goto("s_cli")
    /\ UNCHANGED <<queueVars, tickVars, running, rflags_if, prev>>

(* Mutant of Cli: the guard reads rflags and leaves IF set.                 *)
CliForgotten ==
    /\ \/ At("s_cli") /\ Goto("s_lock")
       \/ At("y_cli") /\ Goto("lock_pop")
    /\ UNCHANGED <<queueVars, tickVars, stackVars, localVars, flagVars>>

(* save_and_disable's cli; the timer may still fire between pushfq and cli. *)
Cli ==
    /\ \/ At("s_cli") /\ Goto("s_lock")
       \/ At("y_cli") /\ Goto("lock_pop")
    /\ rflags_if' = FALSE
    /\ UNCHANGED <<queueVars, tickVars, stackVars, localVars, saved_if>>

(* runqueue.lock(): spins while the mutex is held.                          *)
RunqueueLock ==
    /\ ~rq_lock
    /\ rq_lock' = TRUE
    /\ \/ At("s_lock") /\ Goto("s_push")
       \/ At("lock_pop") /\ Goto("pop")
       \/ At("lock_push") /\ Goto("push")
    /\ UNCHANGED <<current, runqueue, last_switch_tick, tickVars, stackVars,
                   flagVars, localVars>>

(* spawn's push_back; the statement's end releases the mutex.               *)
SpawnPush ==
    /\ At("s_push")
    /\ runqueue' = Append(runqueue, next[Top])
    /\ rq_lock' = FALSE
    /\ next' = [next EXCEPT ![Top] = NoTask]
    /\ Goto("ret")
    /\ UNCHANGED <<current, last_switch_tick, tickVars, stackVars, flagVars, prev>>

(* yield_now, called by any code that runs in task context, and by the     *)
(* boot-time smoke loops, all of which come before the first spawn.        *)
YieldNow ==
    /\ At("run")
    /\ running = Boot => spawned = {}
    /\ saved_if' = [saved_if EXCEPT ![Top] = rflags_if]
    /\ Goto("y_cli")
    /\ UNCHANGED <<queueVars, tickVars, stackVars, localVars, rflags_if>>

(* timer_handler: the gate clears IF and keeps the old rflags in the IRET  *)
(* frame; the handler counts the tick, sends EOI and calls preempt.        *)
TimerIrq ==
    /\ rflags_if
    /\ pc[<<running, "irq">>] = "none"
    /\ pc' = [pc EXCEPT ![<<running, "irq">>] = "check"]
    /\ saved_if' = [saved_if EXCEPT ![<<running, "irq">>] = rflags_if]
    /\ rflags_if' = FALSE
    /\ ticks' = (ticks + 1) % TickMod
    /\ ran' = IF ran < SliceTicks THEN ran + 1 ELSE ran
    /\ UNCHANGED <<queueVars, stackVars, localVars>>

(* now.wrapping_sub(last)                                                  *)
Elapsed == (ticks - last_switch_tick) % TickMod

(* Mutant of Preempt: the timer only counts, as before hard preemption.     *)
PreemptNever ==
    /\ At("check")
    /\ Goto("ret")
    /\ UNCHANGED <<queueVars, tickVars, stackVars, flagVars, localVars>>

(* preempt up to its runqueue access: nothing to do before the slice ends. *)
Preempt ==
    /\ At("check")
    /\ Goto(IF Elapsed < SliceTicks THEN "ret" ELSE "lock_pop")
    /\ UNCHANGED <<queueVars, tickVars, stackVars, flagVars, localVars>>

(* Mutant of PopNext: front() where pop_front() is meant.                   *)
PopNextPeeks ==
    /\ At("pop")
    /\ rq_lock' = FALSE
    /\ \/ runqueue = <<>> /\ Goto("ret") /\ UNCHANGED next
       \/ /\ runqueue # <<>>
          /\ next' = [next EXCEPT ![Top] = Head(runqueue)]
          /\ Goto("swap")
    /\ UNCHANGED <<current, runqueue, last_switch_tick, tickVars, stackVars,
                   flagVars, prev>>

(* pop_front; with nobody else Ready the caller resumes.                    *)
PopNext ==
    /\ At("pop")
    /\ rq_lock' = FALSE
    /\ \/ /\ runqueue = <<>>
          /\ Goto("ret")
          /\ UNCHANGED <<runqueue, next>>
       \/ /\ runqueue # <<>>
          /\ next' = [next EXCEPT ![Top] = Head(runqueue)]
          /\ runqueue' = Tail(runqueue)
          /\ Goto("swap")
    /\ UNCHANGED <<current, last_switch_tick, tickVars, stackVars, flagVars, prev>>

(* Mutant of SwapCurrent: the slice window is not reset.                    *)
SwapCurrentOldWindow ==
    /\ At("swap")
    /\ current' = next[Top]
    /\ prev' = [prev EXCEPT ![Top] = current]
    /\ Goto(IF current = NoTask THEN "halted" ELSE "lock_push")
    /\ UNCHANGED <<runqueue, rq_lock, last_switch_tick, tickVars, stackVars,
                   flagVars, next>>

(* current.swap(next_ptr), the assertion on prev, and the new slice window. *)
SwapCurrent ==
    /\ At("swap")
    /\ current' = next[Top]
    /\ prev' = [prev EXCEPT ![Top] = current]
    /\ \/ /\ current = NoTask          \* the assert! panics
          /\ Goto("halted")
          /\ UNCHANGED last_switch_tick
       \/ /\ current # NoTask
          /\ Goto("lock_push")
          /\ last_switch_tick' = ticks
    /\ UNCHANGED <<runqueue, rq_lock, tickVars, stackVars, flagVars, next>>

(* prev's Box goes to the back of the runqueue, before its stack is saved.  *)
PushPrev ==
    /\ At("push")
    /\ runqueue' = Append(runqueue, prev[Top])
    /\ rq_lock' = FALSE
    /\ Goto("switch")
    /\ UNCHANGED <<current, last_switch_tick, tickVars, stackVars, flagVars, localVars>>

(* Mutant of SwitchTo: prev's RSP goes to throwaway storage.                *)
SwitchToThrowaway ==
    /\ At("switch")
    /\ frame_if' = [frame_if EXCEPT ![prev[Top]] = rflags_if]
    /\ suspended' = suspended \ {next[Top]}
    /\ running' = next[Top]
    /\ rflags_if' = frame_if[next[Top]]
    /\ next' = [next EXCEPT ![Top] = NoTask]
    /\ prev' = [prev EXCEPT ![Top] = NoTask]
    /\ Goto("ret")
    /\ ran' = 0
    /\ UNCHANGED <<queueVars, ticks, saved_if, spawned>>

(* switch_to: pushfq, save RSP for prev, load next's RSP, popfq.  The       *)
(* outgoing context continues at "ret" when its stack is loaded again.      *)
SwitchTo ==
    /\ At("switch")
    /\ frame_if' = [frame_if EXCEPT ![prev[Top]] = rflags_if]
    /\ suspended' = (suspended \cup {prev[Top]}) \ {next[Top]}
    /\ running' = next[Top]
    /\ rflags_if' = frame_if[next[Top]]
    /\ next' = [next EXCEPT ![Top] = NoTask]
    /\ prev' = [prev EXCEPT ![Top] = NoTask]
    /\ Goto("ret")
    /\ ran' = 0
    /\ UNCHANGED <<queueVars, ticks, saved_if, spawned>>

(* Leaving spawn or yield_now: IrqGuard's Drop puts the saved rflags back.  *)
IrqGuardDrop ==
    /\ Top[2] = "task"
    /\ At("ret")
    /\ rflags_if' = saved_if[Top]
    /\ Goto("run")
    /\ UNCHANGED <<queueVars, tickVars, stackVars, localVars, saved_if>>

(* Leaving timer_handler: IRET pops the interrupted code's rflags.          *)
Iret ==
    /\ Top[2] = "irq"
    /\ At("ret")
    /\ rflags_if' = saved_if[Top]
    /\ Goto("none")
    /\ UNCHANGED <<queueVars, tickVars, stackVars, localVars, saved_if>>

(* sched::init builds idle, installs it as current and switches into it;    *)
(* last_switch_tick is left alone and the boot stack is never resumed.      *)
SchedInit ==
    /\ running = Boot
    /\ At("run")
    /\ TaskNew(Idle)
    /\ current' = Idle
    /\ running' = Idle
    /\ rflags_if' = frame_if'[Idle]
    /\ UNCHANGED <<runqueue, rq_lock, last_switch_tick, tickVars, pc, saved_if,
                   suspended, localVars>>

(* idle_loop's sti, after which idle alternates yield_now and hlt.          *)
IdleLoop ==
    /\ At("entry")
    /\ rflags_if' = TRUE
    /\ Goto("run")
    /\ UNCHANGED <<queueVars, tickVars, stackVars, localVars, saved_if>>

(* The interrupt windows of the NVMe and xHCI bring-up on the boot stack:   *)
(* sti, wait for a completion, cli; all before the first spawn.             *)
BootWindow ==
    /\ running = Boot
    /\ spawned = {}
    /\ \/ At("run") /\ Goto("window") /\ rflags_if' = TRUE
       \/ At("window") /\ Goto("run") /\ rflags_if' = FALSE
    /\ UNCHANGED <<queueVars, tickVars, stackVars, localVars, saved_if>>

(* A task panics: halt() loops on hlt and leaves IF as it is.               *)
Panic ==
    /\ running \in AllTasks
    /\ At("run")
    /\ Goto("halted")
    /\ UNCHANGED <<queueVars, tickVars, stackVars, localVars, flagVars>>

(* Steps the CPU takes on its own once it has entered the kernel.           *)
KernelStep ==
    \/ Cli \/ RunqueueLock \/ SpawnPush \/ Preempt \/ PopNext \/ SwapCurrent
    \/ PushPrev \/ SwitchTo \/ IrqGuardDrop \/ Iret \/ IdleLoop

Next ==
    \/ KernelStep
    \/ TimerIrq
    \/ \E t \in Tasks : Spawn(t)
    \/ YieldNow
    \/ SchedInit
    \/ BootWindow
    \/ Panic

Spec == Init /\ [][Next]_vars

(* The CPU executes instructions, main reaches sched::init, and the LAPIC   *)
(* keeps delivering its periodic interrupt while IF = 1.                    *)
Fairness == WF_vars(KernelStep) /\ WF_vars(TimerIrq) /\ WF_vars(SchedInit)

FairSpec == Spec /\ Fairness

-----------------------------------------------------------------------------
(* The fields of CpuLocal, the CPU registers and the stacks hold what their *)
(* types allow.                                                            *)
TypeOK ==
    /\ current \in AllTasks \cup {NoTask}
    /\ runqueue \in Seq(AllTasks)
    /\ rq_lock \in BOOLEAN
    /\ ticks \in 0 .. TickMod - 1
    /\ last_switch_tick \in 0 .. TickMod - 1
    /\ running \in Stacks
    /\ rflags_if \in BOOLEAN
    /\ pc \in [Ctx -> PcValues]
    /\ saved_if \in [Ctx -> BOOLEAN]
    /\ frame_if \in [Stacks -> BOOLEAN]
    /\ suspended \in SUBSET AllTasks
    /\ next \in [Ctx -> AllTasks \cup {NoTask}]
    /\ prev \in [Ctx -> AllTasks \cup {NoTask}]
    /\ spawned \in SUBSET AllTasks
    /\ ran \in 0 .. SliceTicks

(* The tasks in the runqueue.                                              *)
Ready == {runqueue[i] : i \in DOMAIN runqueue}

(* The Box a context holds in a local variable: spawn before its push,     *)
(* a rotation between pop and swap (next) and between swap and push (prev). *)
Held(c) ==
    IF pc[c] \in {"s_cli", "s_lock", "s_push", "swap"} THEN next[c]
    ELSE IF pc[c] \in {"lock_push", "push"} THEN prev[c]
    ELSE NoTask

(* The ownership rule stated in sched.rs: the Box of every task that exists *)
(* is in cpu.current, in the runqueue or in one local variable, and never   *)
(* in two of these, whatever the timer interrupts.                          *)
BoxOwnership ==
    /\ \A t \in spawned : t = current \/ t \in Ready \/ \E c \in Ctx : Held(c) = t
    /\ \A i, j \in DOMAIN runqueue : runqueue[i] = runqueue[j] => i = j
    /\ current \notin Ready
    /\ \A c \in Ctx : Held(c) # NoTask =>
          /\ Held(c) # current
          /\ Held(c) \notin Ready
          /\ \A d \in Ctx : Held(d) = Held(c) => d = c

(* switch_to's contract: it stores RSP in the Task whose stack is running   *)
(* and loads an RSP that Task::new or an earlier switch_to left behind,     *)
(* although prev is in the runqueue before its own frame is written.        *)
SwitchIntoSavedFrame ==
    \A c \in Ctx : pc[c] = "switch" =>
        /\ prev[c] = running
        /\ next[c] \in suspended
        /\ next[c] = current

(* No code waits for the runqueue mutex while it is held: on one CPU such a *)
(* wait with IF = 0 never ends (the deadlock irq.rs describes).             *)
RunqueueNeverReentered ==
    pc[Top] \in {"s_lock", "lock_pop", "lock_push"} => ~rq_lock

(* Wherever an interrupt can arrive, cpu.current is the task whose stack is *)
(* running, so that preempt saves the right one.                            *)
CurrentIsRunning ==
    rflags_if /\ running # Boot => current = running

(* The rflags chain of sched.rs: however a task was switched out and in, its *)
(* own code resumes with interrupts enabled and can be preempted again.     *)
TaskCodeInterruptible ==
    running # Boot /\ pc[Top] \in {"run", "halted"} => rflags_if

(* The assertions that cpu.current is not null in yield_now and preempt     *)
(* hold, the boot-time yields and interrupt windows included.               *)
AssertsHold ==
    \A c \in Ctx : pc[c] = "swap" => current # NoTask

(* preempt never takes the CPU from a task before SLICE_TICKS ticks have    *)
(* passed since the last rotation, the wrap of the counter included.        *)
SliceKept ==
    [][(Top[2] = "irq" /\ running' # running) => ran = SliceTicks]_vars

(* Round robin: every Ready task runs in the end, even when no other task   *)
(* ever yields.                                                             *)
ReadyRuns ==
    \A t \in AllTasks : t \in Ready ~> running = t
=============================================================================
