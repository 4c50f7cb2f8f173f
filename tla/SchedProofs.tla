---------------------------- MODULE SchedProofs ----------------------------
(***************************************************************************)
(* Proofs that every behaviour of Sched keeps its safety invariants, for   *)
(* any set of tasks, any slice and any width of the tick counter; and, in  *)
(* the second half, proofs about Workqueue, whose runner is one of those   *)
(* tasks, for any set of works, of callers, interrupt handlers included,   *)
(* and of cancellers.  Works that are not cancelled are neither lost nor   *)
(* duplicated and RUNNING is exactly the time of a body, whoever cancels   *)
(* other works; with one canceller no work is stranded.                    *)
(***************************************************************************)
EXTENDS Sched, Workqueue, WellFoundedInduction, TLAPS

-----------------------------------------------------------------------------
(* A VecDeque as a queue of distinct elements, as the runqueue is.          *)

(* push_back adds its argument to the set of queued elements, and keeps a   *)
(* queue without repetitions so when the element is new.                    *)
LEMMA AppendRange ==
  ASSUME NEW S, NEW q \in Seq(S), NEW e \in S
  PROVE  LET r == Append(q, e) IN
         /\ r \in Seq(S)
         /\ {r[i] : i \in DOMAIN r} = {q[i] : i \in DOMAIN q} \cup {e}
         /\ (/\ \A i, j \in DOMAIN q : q[i] = q[j] => i = j
             /\ e \notin {q[i] : i \in DOMAIN q})
            => \A i, j \in DOMAIN r : r[i] = r[j] => i = j
<1> DEFINE r == Append(q, e)
<1>1. /\ r \in Seq(S)
      /\ DOMAIN q = 1 .. Len(q) /\ Len(q) \in Nat
      /\ DOMAIN r = 1 .. Len(q) + 1
      /\ \A i \in 1 .. Len(q) : r[i] = q[i]
      /\ r[Len(q) + 1] = e
  OBVIOUS
<1> HIDE DEF r
<1>2. {r[i] : i \in DOMAIN r} = {q[i] : i \in DOMAIN q} \cup {e}
  BY <1>1
<1>3. ASSUME \A i, j \in DOMAIN q : q[i] = q[j] => i = j,
             e \notin {q[i] : i \in DOMAIN q}
      PROVE  \A i, j \in DOMAIN r : r[i] = r[j] => i = j
  BY <1>1, <1>3
<1> QED BY <1>1, <1>2, <1>3, Zenon DEF r

(* pop_front removes exactly the head from a queue without repetitions.     *)
LEMMA TailRange ==
  ASSUME NEW S, NEW q \in Seq(S), q # <<>>,
         \A i, j \in DOMAIN q : q[i] = q[j] => i = j
  PROVE  LET r == Tail(q) IN
         /\ Head(q) \in S
         /\ r \in Seq(S)
         /\ {q[i] : i \in DOMAIN q} = {r[i] : i \in DOMAIN r} \cup {Head(q)}
         /\ Head(q) \notin {r[i] : i \in DOMAIN r}
         /\ \A i, j \in DOMAIN r : r[i] = r[j] => i = j
<1> DEFINE r == Tail(q)
<1>1. /\ r \in Seq(S)
      /\ DOMAIN q = 1 .. Len(q) /\ Len(q) \in Nat /\ Len(q) > 0
      /\ DOMAIN r = 1 .. Len(q) - 1
      /\ \A i \in 1 .. Len(q) - 1 : r[i] = q[i + 1]
      /\ Head(q) = q[1] /\ q[1] \in S
  OBVIOUS
<1> HIDE DEF r
<1>2. {q[i] : i \in DOMAIN q} = {r[i] : i \in DOMAIN r} \cup {Head(q)}
  <2>1. ASSUME NEW i \in DOMAIN q PROVE q[i] \in {r[k] : k \in DOMAIN r} \cup {Head(q)}
    <3>1. CASE i = 1 BY <3>1, <1>1, Zenon
    <3>2. CASE i # 1
      <4>1. i - 1 \in DOMAIN r /\ r[i - 1] = q[i]
        BY <3>2, <1>1
      <4> QED BY <4>1, Zenon
    <3> QED BY <3>1, <3>2, Zenon
  <2>2. ASSUME NEW i \in DOMAIN r PROVE r[i] \in {q[k] : k \in DOMAIN q}
    <3>1. i + 1 \in DOMAIN q /\ r[i] = q[i + 1]
      BY <1>1
    <3> QED BY <3>1, Zenon
  <2>3. Head(q) \in {q[k] : k \in DOMAIN q}
    BY <1>1
  <2> QED BY <2>1, <2>2, <2>3
<1>3. Head(q) \notin {r[i] : i \in DOMAIN r}
  BY <1>1
<1>4. \A i, j \in DOMAIN r : r[i] = r[j] => i = j
  <2> SUFFICES ASSUME NEW i \in DOMAIN r, NEW j \in DOMAIN r, r[i] = r[j] PROVE i = j
      BY Zenon
  <2>1. /\ i + 1 \in DOMAIN q /\ j + 1 \in DOMAIN q
        /\ q[i + 1] = q[j + 1] /\ i \in Int /\ j \in Int
    BY <1>1
  <2>2. i + 1 = j + 1
    BY <2>1, Zenon
  <2> QED BY <2>1, <2>2
<1> QED BY <1>1, <1>2, <1>3, <1>4, Zenon DEF r

-----------------------------------------------------------------------------
(* The inductive invariant.                                                *)

(* Steps that run with IF = 0.                                             *)
Critical == {"s_lock", "s_push", "check", "lock_pop", "pop", "swap", "lock_push",
             "push", "switch"}

(* Steps between pushfq and popfq of an IrqGuard.                          *)
Guarded == (Critical \ {"check"}) \cup {"s_cli", "y_cli", "ret"}

(* Each kind of context keeps to its own steps.                            *)
PcShape ==
    \A s \in Stacks :
        /\ pc[<<s, "task">>] \notin {"none", "check"}
        /\ pc[<<s, "irq">>] \in {"none", "check", "lock_pop", "pop", "swap",
                                 "lock_push", "push", "switch", "ret"}

(* Only the executing context is inside a critical section, with IF = 0.   *)
Exclusion ==
    /\ \A c \in Ctx : pc[c] \in Critical => c = Top /\ ~rflags_if
    /\ pc[<<running, "irq">>] # "none" => ~rflags_if

(* The mutex is held exactly inside the three runqueue accesses.           *)
LockHeld == rq_lock <=> pc[Top] \in {"s_push", "pop", "push"}

(* cpu.current names the running task except after a rotation's swap.      *)
CurrentShape ==
    /\ running # Boot =>
         IF pc[Top] \in {"lock_push", "push", "switch"}
         THEN /\ prev[Top] = running
              /\ current = next[Top]
              /\ pc[Top] = "switch" => running \in Ready
         ELSE current = running
    /\ running = Boot => current = NoTask

(* Locals that a step reads have been assigned.                            *)
LocalsSet ==
    \A c \in Ctx :
        pc[c] \in {"s_cli", "s_lock", "s_push", "swap", "lock_push", "push", "switch"}
            => next[c] \in spawned

(* Every Box belongs to a task that exists.                                *)
OwnedExist ==
    /\ Ready \subseteq spawned
    /\ running \in spawned \cup {Boot}

(* A task is suspended when it exists and is not running.                  *)
SuspendedShape == suspended = spawned \ {running}

(* A task that does not exist yet has no interrupt frame.                  *)
FreshShape ==
    \A t \in AllTasks \ spawned : pc[<<t, "irq">>] = "none"

(* On the boot stack interrupts are open, and rotations entered, only      *)
(* before the first spawn.                                                 *)
BootShape ==
    /\ ~ saved_if[<<Boot, "task">>]
    /\ running = Boot =>
         /\ pc[<<Boot, "task">>] \notin {"entry", "halted", "swap", "lock_push",
                                         "push", "switch"}
         /\ pc[<<Boot, "irq">>] \in {"none", "check", "lock_pop", "pop", "ret"}
         /\ rflags_if => pc[<<Boot, "task">>] = "window"
         /\ pc[<<Boot, "task">>] \in {"window", "y_cli", "lock_pop", "pop"} => spawned = {}
         /\ pc[<<Boot, "irq">>] # "none" => pc[<<Boot, "task">>] = "window"

(* The value of IF that each context will restore: an interrupted context,  *)
(* a task inside spawn or yield_now, a stack that is switched in.          *)
IrqFrameShape ==
    \A s \in Stacks : pc[<<s, "irq">>] # "none" => saved_if[<<s, "irq">>]

GuardShape ==
    \A t \in AllTasks : pc[<<t, "task">>] \in Guarded => saved_if[<<t, "task">>]

SwitchFrameShape ==
    \A t \in suspended :
        \/ pc[<<t, "irq">>] = "ret" /\ ~frame_if[t]
        \/ pc[<<t, "irq">>] = "none" /\ (pc[<<t, "task">>] = "ret" \/ frame_if[t])

IInv ==
    /\ TypeOK
    /\ PcShape
    /\ Exclusion
    /\ LockHeld
    /\ CurrentShape
    /\ LocalsSet
    /\ OwnedExist
    /\ SuspendedShape
    /\ FreshShape
    /\ BootShape
    /\ IrqFrameShape
    /\ GuardShape
    /\ SwitchFrameShape
    /\ BoxOwnership
    /\ TaskCodeInterruptible

-----------------------------------------------------------------------------
(* Type correctness.                                                       *)

(* The executing context is one of the two contexts of the running stack.  *)
LEMMA TopInCtx ==
  ASSUME running \in Stacks
  PROVE  /\ Top \in Ctx
         /\ Top = <<running, "task">> \/ Top = <<running, "irq">>
         /\ Top[1] = running
         /\ Top[2] = "task" => Top = <<running, "task">>
         /\ Top[2] = "irq" => Top = <<running, "irq">>
         /\ Top = <<running, "irq">> <=> pc[<<running, "irq">>] # "none"
BY Zenon DEF Top, Ctx

(* The two contexts of a stack differ from each other and from any other's. *)
LEMMA CtxOf ==
  ASSUME NEW s \in Stacks
  PROVE  /\ <<s, "task">> \in Ctx /\ <<s, "irq">> \in Ctx
         /\ \A r \in Stacks : <<s, "task">> # <<r, "irq">>
BY Zenon DEF Ctx

(* A task's context is not one of the boot stack's.                         *)
LEMMA TaskCtx ==
  ASSUME NEW t \in AllTasks
  PROVE  /\ <<t, "task">> \in Ctx
         /\ <<t, "task">> # <<Boot, "task">> /\ <<t, "task">> # <<Boot, "irq">>
<1>1. t \in Stacks /\ t # Boot
  BY TasksAssumption, Zenon DEF Stacks, AllTasks
<1>2. <<t, "task">> \in Ctx
  BY <1>1, CtxOf, Zenon
<1> QED BY <1>1, <1>2, Zenon

(* Neither context of a suspended task is the executing one.                *)
LEMMA SuspendedCtx ==
  ASSUME TypeOK, SuspendedShape
  PROVE  \A t \in suspended :
            /\ t \in Stacks
            /\ <<t, "task">> \in Ctx /\ <<t, "task">> # Top
            /\ <<t, "irq">> \in Ctx /\ <<t, "irq">> # Top
<1> SUFFICES ASSUME NEW t \in suspended
             PROVE  /\ t \in Stacks
                    /\ <<t, "task">> \in Ctx /\ <<t, "task">> # Top
                    /\ <<t, "irq">> \in Ctx /\ <<t, "irq">> # Top
    BY Zenon
<1>1. t \in Stacks /\ t # running /\ running \in Stacks
  BY Zenon DEF TypeOK, SuspendedShape, Stacks
<1>2. Top = <<running, "task">> \/ Top = <<running, "irq">>
  BY <1>1, TopInCtx, Zenon
<1> QED BY <1>1, <1>2, CtxOf

(* The same for a task that does not exist.                                *)
LEMMA FreshCtx ==
  ASSUME TypeOK, OwnedExist
  PROVE  \A t \in AllTasks \ spawned :
            /\ t # running
            /\ <<t, "task">> \in Ctx /\ <<t, "task">> # Top
            /\ <<t, "irq">> \in Ctx /\ <<t, "irq">> # Top
<1> SUFFICES ASSUME NEW t \in AllTasks \ spawned
             PROVE  /\ t # running
                    /\ <<t, "task">> \in Ctx /\ <<t, "task">> # Top
                    /\ <<t, "irq">> \in Ctx /\ <<t, "irq">> # Top
    BY Zenon
<1>1. t \in Stacks /\ t # running /\ running \in Stacks
  BY TasksAssumption, Zenon DEF TypeOK, OwnedExist, Stacks, AllTasks
<1>2. Top = <<running, "task">> \/ Top = <<running, "irq">>
  BY <1>1, TopInCtx, Zenon
<1> QED BY <1>1, <1>2, CtxOf

(* A step that leaves the runqueue alone, and a push_back of a task that is *)
(* not in it.                                                               *)
LEMMA ReadyKept == ASSUME runqueue' = runqueue PROVE Ready' = Ready
BY Zenon DEF Ready

(* The set of Ready tasks after a push_back.                                *)
LEMMA ReadyPush ==
  ASSUME NEW t \in AllTasks, t \notin Ready, runqueue \in Seq(AllTasks),
         \A i, j \in DOMAIN runqueue : runqueue[i] = runqueue[j] => i = j,
         runqueue' = Append(runqueue, t)
  PROVE  /\ runqueue' \in Seq(AllTasks)
         /\ Ready' = Ready \cup {t}
         /\ \A i, j \in DOMAIN runqueue' : runqueue'[i] = runqueue'[j] => i = j
<1> DEFINE r == Append(runqueue, t)
<1>1. t \notin {runqueue[i] : i \in DOMAIN runqueue}
  BY Zenon DEF Ready
<1>2. /\ r \in Seq(AllTasks)
      /\ {r[i] : i \in DOMAIN r} = {runqueue[i] : i \in DOMAIN runqueue} \cup {t}
      /\ \A i, j \in DOMAIN r : r[i] = r[j] => i = j
  BY <1>1, AppendRange
<1>3. Ready' = {r[i] : i \in DOMAIN r}
  BY Zenon DEF Ready
<1>4. Ready' = Ready \cup {t}
  BY <1>2, <1>3, Zenon DEF Ready
<1> QED BY <1>2, <1>4, Zenon

(* A step that moves no Box.                                                *)
LEMMA OwnershipKept ==
  ASSUME BoxOwnership, \A c \in Ctx : Held(c)' = Held(c), Ready' = Ready,
         current' = current /\ spawned' = spawned /\ runqueue' = runqueue
  PROVE  BoxOwnership'
<1>1. \A t \in spawned' : t = current' \/ t \in Ready' \/ \E c \in Ctx : Held(c)' = t
  BY Zenon DEF BoxOwnership
<1>2. /\ \A i, j \in DOMAIN runqueue' : runqueue'[i] = runqueue'[j] => i = j
      /\ current' \notin Ready'
  BY Zenon DEF BoxOwnership
<1>3. ASSUME NEW c \in Ctx, Held(c)' # NoTask
      PROVE  /\ Held(c)' # current'
             /\ Held(c)' \notin Ready'
             /\ \A d \in Ctx : Held(d)' = Held(c)' => d = c
  BY <1>3 DEF BoxOwnership
<1> QED BY <1>1, <1>2, <1>3, Zenon DEF BoxOwnership

(* CpuLocal::new and the boot stack satisfy the inductive invariant.        *)
LEMMA InitInv == Init => IInv
<1> SUFFICES ASSUME Init PROVE IInv
    BY Zenon
<1> USE TasksAssumption
<1>1. \A s \in Stacks : /\ pc[<<s, "irq">>] = "none"
                        /\ pc[<<s, "task">>] = IF s = Idle THEN "entry" ELSE "run"
  BY Zenon DEF Init, Ctx
<1>2. \A c \in Ctx : pc[c] \in {"none", "entry", "run"}
  BY Zenon DEF Init
<1>3. Top = <<Boot, "task">> /\ Top \in Ctx /\ pc[Top] = "run"
  BY <1>1, Zenon DEF Init, Top, Stacks, Ctx, AllTasks
<1>4. TypeOK
  <2>1. pc \in [Ctx -> PcValues]
    BY Zenon DEF Init, PcValues
  <2>2. 0 \in 0 .. TickMod - 1 /\ 0 \in 0 .. SliceTicks
    BY TicksAssumption
  <2>3. saved_if \in [Ctx -> BOOLEAN] /\ frame_if \in [Stacks -> BOOLEAN]
    BY Zenon DEF Init
  <2>4. runqueue \in Seq(AllTasks) /\ running \in Stacks
    BY DEF Init, Stacks
  <2>5. rq_lock \in BOOLEAN /\ rflags_if \in BOOLEAN
    BY Zenon DEF Init
  <2> QED BY <2>1, <2>2, <2>3, <2>4, <2>5, Zenon DEF Init, TypeOK
<1>5. BoxOwnership /\ OwnedExist /\ CurrentShape /\ SuspendedShape /\ LocalsSet
  BY <1>2, <1>3 DEF Init, BoxOwnership, OwnedExist, CurrentShape, SuspendedShape,
     LocalsSet, Ready, Held
<1>6. PcShape
  BY <1>1, Zenon DEF PcShape
<1>7. Exclusion /\ LockHeld /\ TaskCodeInterruptible
  BY <1>1, <1>2, <1>3, Zenon DEF Init, Exclusion, LockHeld, Critical, TaskCodeInterruptible
<1>8. BootShape /\ FreshShape
  BY <1>1, Zenon DEF Init, BootShape, FreshShape, Stacks, Ctx
<1>9. IrqFrameShape /\ GuardShape /\ SwitchFrameShape
  <2>1. IrqFrameShape
    BY ZenonT(40), <1>1 DEF IrqFrameShape
  <2>2. GuardShape
    BY <1>1, Zenon DEF GuardShape, Guarded, Critical, Stacks
  <2>3. SwitchFrameShape
    BY Zenon DEF Init, SwitchFrameShape
  <2> QED BY <2>1, <2>2, <2>3, Zenon
<1> QED BY <1>4, <1>5, <1>6, <1>7, <1>8, <1>9, Zenon DEF IInv

(* A step that stays on the running stack and in the executing context.     *)
LEMMA GotoFacts ==
  ASSUME TypeOK, NEW l \in PcValues \ {"none"}, Goto(l), running' = running
  PROVE  /\ Top' = Top
         /\ pc' \in [Ctx -> PcValues]
         /\ pc'[Top] = l
         /\ \A c \in Ctx : c # Top => pc'[c] = pc[c]
<1>1. Top \in Ctx /\ pc \in [Ctx -> PcValues]
  BY TopInCtx, Zenon DEF TypeOK
<1>2. pc' = [pc EXCEPT ![Top] = l]
  BY Zenon DEF Goto
<1>3. /\ pc' \in [Ctx -> PcValues]
      /\ pc'[Top] = l
      /\ \A c \in Ctx : c # Top => pc'[c] = pc[c]
  BY <1>1, <1>2, Zenon
<1>4. Top' = Top
  BY <1>1, <1>3, Zenon DEF Top, Ctx
<1> QED BY <1>3, <1>4, Zenon

(* save_and_disable's cli keeps the inductive invariant.                    *)
LEMMA CliStep == ASSUME IInv, Cli PROVE IInv'
<1> USE DEF IInv
<1>1. PICK l \in {"s_lock", "lock_pop"} :
        /\ pc[Top] = IF l = "s_lock" THEN "s_cli" ELSE "y_cli"
        /\ Goto(l)
  BY Zenon DEF Cli, At
<1>2. /\ Top' = Top /\ Top \in Ctx /\ Top[1] = running
      /\ \/ Top = <<running, "task">> /\ pc[<<running, "irq">>] = "none"
         \/ Top = <<running, "irq">> /\ pc[<<running, "irq">>] # "none"
      /\ pc' \in [Ctx -> PcValues]
      /\ pc'[Top] = l
      /\ \A c \in Ctx : c # Top => pc'[c] = pc[c]
  BY <1>1, GotoFacts, TopInCtx, Zenon DEF Cli, TypeOK, stackVars, PcValues
<1>3. /\ rflags_if' = FALSE
      /\ UNCHANGED <<queueVars, tickVars, stackVars, localVars, saved_if>>
  BY Zenon DEF Cli
<1>a. TypeOK'
  BY <1>2, <1>3, Zenon DEF TypeOK, queueVars, tickVars, stackVars, localVars, flagVars
<1>b. PcShape'
  BY <1>1, <1>2, <1>3, CtxOf, Zenon DEF PcShape
<1>c. Exclusion'
  BY <1>1, <1>2, <1>3, Zenon DEF Exclusion, Critical, stackVars, Ctx, TypeOK, flagVars
<1>d. LockHeld'
  BY <1>1, <1>2, <1>3, Zenon DEF LockHeld, queueVars
<1>e. CurrentShape'
  BY <1>1, <1>2, <1>3, ReadyKept, Zenon DEF CurrentShape, queueVars, stackVars, localVars
<1>f. LocalsSet'
  BY <1>1, <1>2, <1>3, Zenon DEF LocalsSet, stackVars, localVars
<1>g. OwnedExist' /\ SuspendedShape'
  BY <1>3, ReadyKept, Zenon DEF OwnedExist, SuspendedShape, queueVars, stackVars
<1>h. BootShape'
  BY <1>1, <1>2, <1>3, Zenon DEF BootShape, stackVars, flagVars, Ctx, Stacks
<1>i. IrqFrameShape'
  BY Zenon, <1>1, <1>2, <1>3, CtxOf DEF IrqFrameShape, PcShape, flagVars, TypeOK
<1>l. GuardShape'
  BY <1>1, <1>2, <1>3, CtxOf, Zenon DEF GuardShape, Guarded, Critical, PcShape, flagVars, TypeOK, Stacks
<1>m. SwitchFrameShape'
  BY <1>1, <1>2, <1>3, SuspendedCtx, Zenon DEF SwitchFrameShape, stackVars
<1>n. FreshShape'
  BY <1>1, <1>2, <1>3, FreshCtx, Zenon DEF FreshShape, stackVars
<1>j. BoxOwnership'
  <2>1. \A c \in Ctx : Held(c)' = Held(c)
    BY <1>1, <1>2, <1>3, Zenon DEF Held, localVars
  <2>2. Ready' = Ready
    BY <1>3, ReadyKept, Zenon DEF queueVars
  <2>3. current' = current /\ spawned' = spawned /\ runqueue' = runqueue
    BY <1>3, Zenon DEF queueVars, stackVars
  <2> QED BY <2>1, <2>2, <2>3, OwnershipKept, Zenon
<1>k. TaskCodeInterruptible'
  BY <1>1, <1>2, <1>3, Zenon DEF TaskCodeInterruptible, flagVars, stackVars
<1> QED BY <1>a, <1>b, <1>c, <1>d, <1>e, <1>f, <1>g, <1>h, <1>i, <1>j, <1>k, <1>l,
       <1>m, <1>n, Zenon

(* Taking the runqueue mutex keeps it.                                      *)
LEMMA RunqueueLockStep == ASSUME IInv, RunqueueLock PROVE IInv'
<1> USE DEF IInv
<1>1. PICK l \in {"s_push", "pop", "push"} :
        /\ pc[Top] = CASE l = "s_push" -> "s_lock"
                       [] l = "pop"    -> "lock_pop"
                       [] l = "push"   -> "lock_push"
        /\ Goto(l)
  BY Zenon DEF RunqueueLock, At
<1>2. /\ Top' = Top /\ Top \in Ctx /\ Top[1] = running
      /\ \/ Top = <<running, "task">> /\ pc[<<running, "irq">>] = "none"
         \/ Top = <<running, "irq">> /\ pc[<<running, "irq">>] # "none"
      /\ pc' \in [Ctx -> PcValues]
      /\ pc'[Top] = l
      /\ \A c \in Ctx : c # Top => pc'[c] = pc[c]
  BY <1>1, GotoFacts, TopInCtx, Zenon DEF RunqueueLock, TypeOK, stackVars, PcValues
<1>3. /\ rq_lock' = TRUE
      /\ UNCHANGED <<current, runqueue, last_switch_tick, tickVars, stackVars,
                     flagVars, localVars>>
  BY Zenon DEF RunqueueLock
<1>a. TypeOK'
  BY <1>2, <1>3, Zenon DEF TypeOK, queueVars, tickVars, stackVars, localVars, flagVars
<1>b. PcShape'
  BY <1>1, <1>2, <1>3, CtxOf, Zenon DEF PcShape
<1>c. Exclusion'
  BY <1>1, <1>2, <1>3, Zenon DEF Exclusion, Critical, stackVars, Ctx, TypeOK, flagVars
<1>d. LockHeld'
  BY <1>1, <1>2, <1>3, Zenon DEF LockHeld, queueVars
<1>e. CurrentShape'
  BY <1>1, <1>2, <1>3, ReadyKept, Zenon DEF CurrentShape, queueVars, stackVars, localVars
<1>f. LocalsSet'
  BY <1>1, <1>2, <1>3, Zenon DEF LocalsSet, stackVars, localVars
<1>g. OwnedExist' /\ SuspendedShape'
  BY <1>3, ReadyKept, Zenon DEF OwnedExist, SuspendedShape, queueVars, stackVars
<1>h. BootShape'
  BY <1>1, <1>2, <1>3, Zenon DEF BootShape, stackVars, flagVars, Ctx, Stacks
<1>i. IrqFrameShape'
  BY Zenon, <1>1, <1>2, <1>3, CtxOf DEF IrqFrameShape, PcShape, flagVars, TypeOK
<1>l. GuardShape'
  BY <1>1, <1>2, <1>3, CtxOf, Zenon DEF GuardShape, Guarded, Critical, PcShape, flagVars, TypeOK, Stacks
<1>m. SwitchFrameShape'
  BY <1>1, <1>2, <1>3, SuspendedCtx, Zenon DEF SwitchFrameShape, stackVars
<1>n. FreshShape'
  BY <1>1, <1>2, <1>3, FreshCtx, Zenon DEF FreshShape, stackVars
<1>j. BoxOwnership'
  <2>1. \A c \in Ctx : Held(c)' = Held(c)
    BY <1>1, <1>2, <1>3, Zenon DEF Held, localVars
  <2>2. Ready' = Ready
    BY <1>3, ReadyKept, Zenon DEF queueVars
  <2>3. current' = current /\ spawned' = spawned /\ runqueue' = runqueue
    BY <1>3, Zenon DEF queueVars, stackVars
  <2> QED BY <2>1, <2>2, <2>3, OwnershipKept, Zenon
<1>k. TaskCodeInterruptible'
  BY <1>1, <1>2, <1>3, Zenon DEF TaskCodeInterruptible, flagVars, stackVars
<1> QED BY <1>a, <1>b, <1>c, <1>d, <1>e, <1>f, <1>g, <1>h, <1>i, <1>j, <1>k, <1>l,
       <1>m, <1>n, Zenon

(* Entering yield_now keeps it.                                             *)
LEMMA YieldNowStep == ASSUME IInv, YieldNow PROVE IInv'
<1> USE DEF IInv
<1> DEFINE l == "y_cli"
<1>1. pc[Top] = "run" /\ Goto(l)
  BY Zenon DEF YieldNow, At
<1>2. /\ Top' = Top /\ Top \in Ctx /\ Top[1] = running
      /\ \/ Top = <<running, "task">> /\ pc[<<running, "irq">>] = "none"
         \/ Top = <<running, "irq">> /\ pc[<<running, "irq">>] # "none"
      /\ pc' \in [Ctx -> PcValues]
      /\ pc'[Top] = l
      /\ \A c \in Ctx : c # Top => pc'[c] = pc[c]
  BY <1>1, GotoFacts, TopInCtx, Zenon DEF YieldNow, TypeOK, stackVars, PcValues
<1>3. /\ running = Boot => spawned = {}
      /\ saved_if' = [saved_if EXCEPT ![Top] = rflags_if]
      /\ UNCHANGED <<queueVars, tickVars, stackVars, localVars, rflags_if>>
  BY Zenon DEF YieldNow
<1>a. TypeOK'
  BY <1>2, <1>3, Zenon DEF TypeOK, queueVars, tickVars, stackVars, localVars, flagVars
<1>b. PcShape'
  BY <1>1, <1>2, <1>3, CtxOf, Zenon DEF PcShape
<1>c. Exclusion'
  BY <1>1, <1>2, <1>3, Zenon DEF Exclusion, Critical, stackVars, Ctx, TypeOK, flagVars
<1>d. LockHeld'
  BY <1>1, <1>2, <1>3, Zenon DEF LockHeld, queueVars
<1>e. CurrentShape'
  BY <1>1, <1>2, <1>3, ReadyKept, Zenon DEF CurrentShape, queueVars, stackVars, localVars
<1>f. LocalsSet'
  BY <1>1, <1>2, <1>3, Zenon DEF LocalsSet, stackVars, localVars
<1>g. OwnedExist' /\ SuspendedShape'
  BY <1>3, ReadyKept, Zenon DEF OwnedExist, SuspendedShape, queueVars, stackVars
<1>h. BootShape'
  BY <1>1, <1>2, <1>3 DEF BootShape, stackVars, flagVars, Ctx, Stacks
<1>i. IrqFrameShape'
  BY Zenon, <1>1, <1>2, <1>3, CtxOf DEF IrqFrameShape, PcShape, flagVars, TypeOK
<1>l. GuardShape'
  <2> SUFFICES ASSUME NEW t \in AllTasks, pc'[<<t, "task">>] \in Guarded
               PROVE  saved_if'[<<t, "task">>]
      BY Zenon DEF GuardShape
  <2>1. t # Boot /\ <<t, "task">> \in Ctx
    BY CtxOf, TasksAssumption, Zenon DEF AllTasks, Stacks
  <2>2. CASE Top = <<t, "task">>
    <3>1. rflags_if
      BY <1>1, <1>2, <2>1, <2>2, Zenon DEF TaskCodeInterruptible
    <3> QED BY <1>2, <1>3, <2>2, <3>1, Zenon DEF TypeOK
  <2>3. CASE Top # <<t, "task">>
    BY <1>2, <1>3, <2>1, <2>3, Zenon DEF GuardShape, TypeOK
  <2> QED BY <2>2, <2>3, Zenon
<1>m. SwitchFrameShape'
  BY <1>1, <1>2, <1>3, SuspendedCtx, Zenon DEF SwitchFrameShape, stackVars
<1>n. FreshShape'
  BY <1>1, <1>2, <1>3, FreshCtx, Zenon DEF FreshShape, stackVars
<1>j. BoxOwnership'
  <2>1. \A c \in Ctx : Held(c)' = Held(c)
    BY <1>1, <1>2, <1>3, Zenon DEF Held, localVars
  <2>2. Ready' = Ready
    BY <1>3, ReadyKept, Zenon DEF queueVars
  <2>3. current' = current /\ spawned' = spawned /\ runqueue' = runqueue
    BY <1>3, Zenon DEF queueVars, stackVars
  <2> QED BY <2>1, <2>2, <2>3, OwnershipKept, Zenon
<1>k. TaskCodeInterruptible'
  BY <1>1, <1>2, <1>3, Zenon DEF TaskCodeInterruptible, flagVars, stackVars
<1> QED BY <1>a, <1>b, <1>c, <1>d, <1>e, <1>f, <1>g, <1>h, <1>i, <1>j, <1>k, <1>l,
       <1>m, <1>n, Zenon

(* idle_loop's sti keeps it.                                                *)
LEMMA IdleLoopStep == ASSUME IInv, IdleLoop PROVE IInv'
<1> USE DEF IInv
<1> DEFINE l == "run"
<1>1. pc[Top] = "entry" /\ Goto(l)
  BY Zenon DEF IdleLoop, At
<1>2. /\ Top' = Top /\ Top \in Ctx /\ Top[1] = running
      /\ \/ Top = <<running, "task">> /\ pc[<<running, "irq">>] = "none"
         \/ Top = <<running, "irq">> /\ pc[<<running, "irq">>] # "none"
      /\ pc' \in [Ctx -> PcValues]
      /\ pc'[Top] = l
      /\ \A c \in Ctx : c # Top => pc'[c] = pc[c]
  BY <1>1, GotoFacts, TopInCtx, Zenon DEF IdleLoop, TypeOK, stackVars, PcValues
<1>3. /\ rflags_if' = TRUE
      /\ UNCHANGED <<queueVars, tickVars, stackVars, localVars, saved_if>>
  BY Zenon DEF IdleLoop
<1>a. TypeOK'
  BY <1>2, <1>3, Zenon DEF TypeOK, queueVars, tickVars, stackVars, localVars, flagVars
<1>b. PcShape'
  BY Zenon, <1>1, <1>2, <1>3, CtxOf DEF PcShape
<1>c. Exclusion'
  BY <1>1, <1>2, <1>3, Zenon DEF Exclusion, Critical, PcShape, stackVars, Ctx, TypeOK, flagVars
<1>d. LockHeld'
  BY Zenon, <1>1, <1>2, <1>3 DEF LockHeld, queueVars
<1>e. CurrentShape'
  BY <1>1, <1>2, <1>3, ReadyKept, Zenon DEF CurrentShape, queueVars, stackVars, localVars
<1>f. LocalsSet'
  BY <1>1, <1>2, <1>3, Zenon DEF LocalsSet, stackVars, localVars
<1>g. OwnedExist' /\ SuspendedShape'
  BY <1>3, ReadyKept, Zenon DEF OwnedExist, SuspendedShape, queueVars, stackVars
<1>h. BootShape'
  BY <1>1, <1>2, <1>3, Zenon DEF BootShape, stackVars, flagVars, Ctx, Stacks
<1>i. IrqFrameShape'
  BY Zenon, <1>1, <1>2, <1>3, CtxOf DEF IrqFrameShape, PcShape, flagVars, TypeOK
<1>l. GuardShape'
  BY <1>1, <1>2, <1>3, CtxOf, Zenon DEF GuardShape, Guarded, Critical, PcShape, flagVars, TypeOK, Stacks
<1>m. SwitchFrameShape'
  BY Zenon, <1>1, <1>2, <1>3, SuspendedCtx DEF SwitchFrameShape, stackVars
<1>n. FreshShape'
  BY <1>1, <1>2, <1>3, FreshCtx, Zenon DEF FreshShape, stackVars
<1>j. BoxOwnership'
  <2>1. \A c \in Ctx : Held(c)' = Held(c)
    BY <1>1, <1>2, <1>3, Zenon DEF Held, localVars
  <2>2. Ready' = Ready
    BY <1>3, ReadyKept, Zenon DEF queueVars
  <2>3. current' = current /\ spawned' = spawned /\ runqueue' = runqueue
    BY <1>3, Zenon DEF queueVars, stackVars
  <2> QED BY <2>1, <2>2, <2>3, OwnershipKept, Zenon
<1>k. TaskCodeInterruptible'
  BY <1>1, <1>2, <1>3, Zenon DEF TaskCodeInterruptible, flagVars, stackVars
<1> QED BY <1>a, <1>b, <1>c, <1>d, <1>e, <1>f, <1>g, <1>h, <1>i, <1>j, <1>k, <1>l,
       <1>m, <1>n, Zenon

(* A task that panics keeps it.                                             *)
LEMMA PanicStep == ASSUME IInv, Panic PROVE IInv'
<1> USE DEF IInv
<1> DEFINE l == "halted"
<1>1. pc[Top] = "run" /\ Goto(l)
  BY Zenon DEF Panic, At
<1>2. /\ Top' = Top /\ Top \in Ctx /\ Top[1] = running
      /\ \/ Top = <<running, "task">> /\ pc[<<running, "irq">>] = "none"
         \/ Top = <<running, "irq">> /\ pc[<<running, "irq">>] # "none"
      /\ pc' \in [Ctx -> PcValues]
      /\ pc'[Top] = l
      /\ \A c \in Ctx : c # Top => pc'[c] = pc[c]
  BY <1>1, GotoFacts, TopInCtx, Zenon DEF Panic, TypeOK, stackVars, PcValues
<1>3. /\ running \in AllTasks /\ running # Boot
      /\ UNCHANGED <<queueVars, tickVars, stackVars, localVars, flagVars>>
  BY TasksAssumption, Zenon DEF Panic, AllTasks
<1>a. TypeOK'
  BY <1>2, <1>3, Zenon DEF TypeOK, queueVars, tickVars, stackVars, localVars, flagVars
<1>b. PcShape'
  BY <1>1, <1>2, <1>3, CtxOf, Zenon DEF PcShape
<1>c. Exclusion'
  BY <1>1, <1>2, <1>3, Zenon DEF Exclusion, Critical, stackVars, Ctx, TypeOK, flagVars
<1>d. LockHeld'
  BY <1>1, <1>2, <1>3, Zenon DEF LockHeld, queueVars
<1>e. CurrentShape'
  BY <1>1, <1>2, <1>3, ReadyKept, Zenon DEF CurrentShape, queueVars, stackVars, localVars
<1>f. LocalsSet'
  BY <1>1, <1>2, <1>3, Zenon DEF LocalsSet, stackVars, localVars
<1>g. OwnedExist' /\ SuspendedShape'
  BY <1>3, ReadyKept, Zenon DEF OwnedExist, SuspendedShape, queueVars, stackVars
<1>h. BootShape'
  BY <1>1, <1>2, <1>3, Zenon DEF BootShape, stackVars, flagVars, Ctx, Stacks
<1>i. IrqFrameShape'
  BY Zenon, <1>1, <1>2, <1>3, CtxOf DEF IrqFrameShape, PcShape, flagVars, TypeOK
<1>l. GuardShape'
  BY <1>1, <1>2, <1>3, CtxOf, Zenon DEF GuardShape, Guarded, Critical, PcShape, flagVars, TypeOK, Stacks
<1>m. SwitchFrameShape'
  BY <1>1, <1>2, <1>3, SuspendedCtx, Zenon DEF SwitchFrameShape, stackVars
<1>n. FreshShape'
  BY <1>1, <1>2, <1>3, FreshCtx, Zenon DEF FreshShape, stackVars
<1>j. BoxOwnership'
  <2>1. \A c \in Ctx : Held(c)' = Held(c)
    BY <1>1, <1>2, <1>3, Zenon DEF Held, localVars
  <2>2. Ready' = Ready
    BY <1>3, ReadyKept, Zenon DEF queueVars
  <2>3. current' = current /\ spawned' = spawned /\ runqueue' = runqueue
    BY <1>3, Zenon DEF queueVars, stackVars
  <2> QED BY <2>1, <2>2, <2>3, OwnershipKept, Zenon
<1>k. TaskCodeInterruptible'
  BY <1>1, <1>2, <1>3, Zenon DEF TaskCodeInterruptible, flagVars, stackVars
<1> QED BY <1>a, <1>b, <1>c, <1>d, <1>e, <1>f, <1>g, <1>h, <1>i, <1>j, <1>k, <1>l,
       <1>m, <1>n, Zenon

(* Leaving spawn or yield_now keeps it.                                     *)
LEMMA IrqGuardDropStep == ASSUME IInv, IrqGuardDrop PROVE IInv'
<1> USE DEF IInv
<1> DEFINE l == "run"
<1>1. pc[Top] = "ret" /\ Goto(l)
  BY Zenon DEF IrqGuardDrop, At
<1>2. /\ Top' = Top /\ Top \in Ctx /\ Top[1] = running
      /\ \/ Top = <<running, "task">> /\ pc[<<running, "irq">>] = "none"
         \/ Top = <<running, "irq">> /\ pc[<<running, "irq">>] # "none"
      /\ pc' \in [Ctx -> PcValues]
      /\ pc'[Top] = l
      /\ \A c \in Ctx : c # Top => pc'[c] = pc[c]
  BY Zenon, <1>1, GotoFacts, TopInCtx DEF IrqGuardDrop, TypeOK, stackVars, PcValues
<1>3. /\ rflags_if' = saved_if[Top]
      /\ UNCHANGED <<queueVars, tickVars, stackVars, localVars, saved_if>>
  BY Zenon DEF IrqGuardDrop
<1>4. Top = <<running, "task">> /\ pc[<<running, "irq">>] = "none"
  BY <1>2 DEF IrqGuardDrop
<1>a. TypeOK'
  BY <1>2, <1>3, Zenon DEF TypeOK, queueVars, tickVars, stackVars, localVars, flagVars
<1>b. PcShape'
  BY <1>1, <1>2, <1>4, CtxOf DEF PcShape, TypeOK
<1>c. Exclusion'
  BY <1>1, <1>2, <1>3, <1>4, CtxOf, Zenon DEF Exclusion, Critical, stackVars, TypeOK
<1>d. LockHeld'
  BY Zenon, <1>1, <1>2, <1>3 DEF LockHeld, queueVars
<1>e. CurrentShape'
  BY <1>1, <1>2, <1>3, ReadyKept, Zenon DEF CurrentShape, queueVars, stackVars, localVars
<1>f. LocalsSet'
  BY <1>1, <1>2, <1>3, Zenon DEF LocalsSet, stackVars, localVars
<1>g. OwnedExist' /\ SuspendedShape'
  BY <1>3, ReadyKept, Zenon DEF OwnedExist, SuspendedShape, queueVars, stackVars
<1>h. BootShape'
  BY <1>1, <1>2, <1>3, <1>4, CtxOf, Zenon DEF BootShape, stackVars, Stacks
<1>i. IrqFrameShape'
  BY Zenon, <1>1, <1>2, <1>3, CtxOf DEF IrqFrameShape, PcShape, flagVars, TypeOK
<1>l. GuardShape'
  BY <1>1, <1>2, <1>3, CtxOf, Zenon DEF GuardShape, Guarded, Critical, PcShape, flagVars, TypeOK, Stacks
<1>m. SwitchFrameShape'
  BY Zenon, <1>1, <1>2, <1>3, SuspendedCtx DEF SwitchFrameShape, stackVars
<1>n. FreshShape'
  BY <1>1, <1>2, <1>3, FreshCtx, Zenon DEF FreshShape, stackVars
<1>j. BoxOwnership'
  <2>1. \A c \in Ctx : Held(c)' = Held(c)
    BY <1>1, <1>2, <1>3, Zenon DEF Held, localVars
  <2>2. Ready' = Ready
    BY <1>3, ReadyKept, Zenon DEF queueVars
  <2>3. current' = current /\ spawned' = spawned /\ runqueue' = runqueue
    BY <1>3, Zenon DEF queueVars, stackVars
  <2> QED BY <2>1, <2>2, <2>3, OwnershipKept, Zenon
<1>k. TaskCodeInterruptible'
  BY <1>1, <1>2, <1>3, <1>4, Zenon DEF TaskCodeInterruptible, GuardShape, Guarded, TypeOK, stackVars, Stacks
<1> QED BY <1>a, <1>b, <1>c, <1>d, <1>e, <1>f, <1>g, <1>h, <1>i, <1>j, <1>k, <1>l,
       <1>m, <1>n, Zenon

(* spawn's push_back hands the new Box to the runqueue.                     *)
LEMMA SpawnPushStep == ASSUME IInv, SpawnPush PROVE IInv'
<1> USE DEF IInv
<1> DEFINE l == "ret"
<1>1. pc[Top] = "s_push" /\ Goto(l)
  BY SMTT(30) DEF SpawnPush, At
<1>2. /\ Top' = Top /\ Top \in Ctx /\ Top[1] = running
      /\ \/ Top = <<running, "task">> /\ pc[<<running, "irq">>] = "none"
         \/ Top = <<running, "irq">> /\ pc[<<running, "irq">>] # "none"
      /\ pc' \in [Ctx -> PcValues]
      /\ pc'[Top] = l
      /\ \A c \in Ctx : c # Top => pc'[c] = pc[c]
  BY <1>1, GotoFacts, TopInCtx, Zenon DEF SpawnPush, TypeOK, stackVars, PcValues
<1>3. /\ runqueue' = Append(runqueue, next[Top])
      /\ rq_lock' = FALSE
      /\ next' = [next EXCEPT ![Top] = NoTask]
      /\ UNCHANGED <<current, last_switch_tick, tickVars, stackVars, flagVars, prev>>
  BY Zenon DEF SpawnPush
<1>4. /\ next[Top] \in AllTasks /\ next[Top] \in spawned
      /\ next[Top] # NoTask /\ next[Top] = Held(Top)
  BY <1>1, <1>2, TasksAssumption, Zenon DEF LocalsSet, TypeOK, Held, AllTasks, CurrentShape, BootShape, OwnedExist
<1>5. /\ runqueue' \in Seq(AllTasks)
      /\ Ready' = Ready \cup {next[Top]}
      /\ \A i, j \in DOMAIN runqueue' : runqueue'[i] = runqueue'[j] => i = j
  <2>1. /\ next[Top] \notin Ready /\ runqueue \in Seq(AllTasks)
        /\ \A i, j \in DOMAIN runqueue : runqueue[i] = runqueue[j] => i = j
    BY <1>2, <1>4, Zenon DEF BoxOwnership, TypeOK
  <2>2. runqueue' = Append(runqueue, next[Top])
    BY <1>3, Zenon
  <2> QED BY <2>1, <2>2, <1>4, ReadyPush, Zenon
<1>a. TypeOK'
  BY Zenon, <1>2, <1>3, <1>4, <1>5 DEF TypeOK, queueVars, tickVars, stackVars, localVars, flagVars
<1>b. PcShape'
  BY <1>1, <1>2, <1>3, CtxOf, Zenon DEF PcShape
<1>c. Exclusion'
  BY <1>1, <1>2, <1>3, Zenon DEF Exclusion, Critical, stackVars, Ctx, TypeOK, flagVars
<1>d. LockHeld'
  BY <1>1, <1>2, <1>3, Zenon DEF LockHeld, queueVars
<1>e. CurrentShape'
  BY <1>1, <1>2, <1>3, <1>5, Zenon DEF CurrentShape, queueVars, stackVars, localVars
<1>f. LocalsSet'
  BY <1>1, <1>2, <1>3, Zenon DEF LocalsSet, stackVars, TypeOK
<1>g. OwnedExist' /\ SuspendedShape'
  BY SMTT(15), ZenonT(30), <1>3, <1>4, <1>5 DEF OwnedExist, SuspendedShape, queueVars, stackVars
<1>h. BootShape'
  BY <1>1, <1>2, <1>3, Zenon DEF BootShape, stackVars, flagVars, Ctx, Stacks
<1>i. IrqFrameShape'
  BY Zenon, <1>1, <1>2, <1>3, CtxOf DEF IrqFrameShape, PcShape, flagVars, TypeOK
<1>l. GuardShape'
  BY <1>1, <1>2, <1>3, CtxOf, Zenon DEF GuardShape, Guarded, Critical, PcShape, flagVars, TypeOK, Stacks
<1>m. SwitchFrameShape'
  BY Zenon, <1>1, <1>2, <1>3, SuspendedCtx DEF SwitchFrameShape, stackVars
<1>n. FreshShape'
  BY <1>1, <1>2, <1>3, FreshCtx, Zenon DEF FreshShape, stackVars
<1>j. BoxOwnership'
  <2>1. Held(Top)' = NoTask
    BY <1>1, <1>2, Zenon DEF Held
  <2>2. \A c \in Ctx : c # Top => Held(c)' = Held(c)
    BY <1>1, <1>2, <1>3, Zenon DEF Held, localVars, TypeOK
  <2> QED BY <1>2, <1>3, <1>4, <1>5, <2>1, <2>2 DEF BoxOwnership, stackVars
<1>k. TaskCodeInterruptible'
  BY <1>1, <1>2, <1>3, Zenon DEF TaskCodeInterruptible, flagVars, stackVars
<1> QED BY <1>a, <1>b, <1>c, <1>d, <1>e, <1>f, <1>g, <1>h, <1>i, <1>j, <1>k, <1>l,
       <1>m, <1>n, Zenon

(* The rotation's push_back hands prev's Box to the runqueue.               *)
LEMMA PushPrevStep == ASSUME IInv, PushPrev PROVE IInv'
<1> USE DEF IInv
<1> DEFINE l == "switch"
<1>1. pc[Top] = "push" /\ Goto(l)
  BY SMTT(30) DEF PushPrev, At
<1>2. /\ Top' = Top /\ Top \in Ctx /\ Top[1] = running
      /\ \/ Top = <<running, "task">> /\ pc[<<running, "irq">>] = "none"
         \/ Top = <<running, "irq">> /\ pc[<<running, "irq">>] # "none"
      /\ pc' \in [Ctx -> PcValues]
      /\ pc'[Top] = l
      /\ \A c \in Ctx : c # Top => pc'[c] = pc[c]
  BY <1>1, GotoFacts, TopInCtx, Zenon DEF PushPrev, TypeOK, stackVars, PcValues
<1>3. /\ runqueue' = Append(runqueue, prev[Top])
      /\ rq_lock' = FALSE
      /\ UNCHANGED <<current, last_switch_tick, tickVars, stackVars, flagVars, localVars>>
  BY Zenon DEF PushPrev
<1>4. /\ prev[Top] \in AllTasks /\ prev[Top] \in spawned
      /\ prev[Top] # NoTask /\ prev[Top] = Held(Top)
  BY Zenon, <1>1, <1>2, TasksAssumption DEF LocalsSet, TypeOK, Held, AllTasks, CurrentShape, BootShape, OwnedExist
<1>5. /\ runqueue' \in Seq(AllTasks)
      /\ Ready' = Ready \cup {prev[Top]}
      /\ \A i, j \in DOMAIN runqueue' : runqueue'[i] = runqueue'[j] => i = j
  <2>1. /\ prev[Top] \notin Ready /\ runqueue \in Seq(AllTasks)
        /\ \A i, j \in DOMAIN runqueue : runqueue[i] = runqueue[j] => i = j
    BY <1>2, <1>4, Zenon DEF BoxOwnership, TypeOK
  <2>2. runqueue' = Append(runqueue, prev[Top])
    BY <1>3, Zenon
  <2> QED BY <2>1, <2>2, <1>4, ReadyPush, Zenon
<1>a. TypeOK'
  BY <1>2, <1>3, <1>4, <1>5, Zenon DEF TypeOK, queueVars, tickVars, stackVars, localVars, flagVars
<1>b. PcShape'
  BY <1>1, <1>2, <1>3, CtxOf, Zenon DEF PcShape
<1>c. Exclusion'
  BY <1>1, <1>2, <1>3, Zenon DEF Exclusion, Critical, stackVars, Ctx, TypeOK, flagVars
<1>d. LockHeld'
  BY <1>1, <1>2, <1>3, Zenon DEF LockHeld, queueVars
<1>e. CurrentShape'
  BY <1>1, <1>2, <1>3, <1>5, Zenon DEF CurrentShape, queueVars, stackVars, localVars
<1>f. LocalsSet'
  BY <1>1, <1>2, <1>3, Zenon DEF LocalsSet, stackVars, localVars
<1>g. OwnedExist' /\ SuspendedShape'
  BY <1>3, <1>4, <1>5, Zenon DEF OwnedExist, SuspendedShape, queueVars, stackVars
<1>h. BootShape'
  BY <1>1, <1>2, <1>3, Zenon DEF BootShape, stackVars, flagVars, Ctx, Stacks
<1>i. IrqFrameShape'
  BY Zenon, <1>1, <1>2, <1>3, CtxOf DEF IrqFrameShape, PcShape, flagVars, TypeOK
<1>l. GuardShape'
  BY <1>1, <1>2, <1>3, CtxOf, Zenon DEF GuardShape, Guarded, Critical, PcShape, flagVars, TypeOK, Stacks
<1>m. SwitchFrameShape'
  BY <1>1, <1>2, <1>3, SuspendedCtx, Zenon DEF SwitchFrameShape, stackVars
<1>n. FreshShape'
  BY Zenon, <1>1, <1>2, <1>3, FreshCtx DEF FreshShape, stackVars
<1>j. BoxOwnership'
  <2>1. Held(Top)' = NoTask
    BY <1>1, <1>2, Zenon DEF Held
  <2>2. \A c \in Ctx : c # Top => Held(c)' = Held(c)
    BY <1>1, <1>2, <1>3, Zenon DEF Held, localVars, TypeOK
  <2> QED BY <1>2, <1>3, <1>4, <1>5, <2>1, <2>2 DEF BoxOwnership, stackVars
<1>k. TaskCodeInterruptible'
  BY ZenonT(40), <1>1, <1>2, <1>3 DEF TaskCodeInterruptible, flagVars, stackVars
<1> QED BY <1>a, <1>b, <1>c, <1>d, <1>e, <1>f, <1>g, <1>h, <1>i, <1>j, <1>k, <1>l,
       <1>m, <1>n, Zenon

(* preempt's slice check keeps it.                                          *)
LEMMA PreemptStep == ASSUME IInv, Preempt PROVE IInv'
<1> USE DEF IInv
<1>1. PICK l \in {"ret", "lock_pop"} : pc[Top] = "check" /\ Goto(l)
  BY SMTT(30) DEF Preempt, At
<1>2. /\ Top' = Top /\ Top \in Ctx /\ Top[1] = running
      /\ \/ Top = <<running, "task">> /\ pc[<<running, "irq">>] = "none"
         \/ Top = <<running, "irq">> /\ pc[<<running, "irq">>] # "none"
      /\ pc' \in [Ctx -> PcValues]
      /\ pc'[Top] = l
      /\ \A c \in Ctx : c # Top => pc'[c] = pc[c]
  BY <1>1, GotoFacts, TopInCtx, Zenon DEF Preempt, TypeOK, stackVars, PcValues
<1>3. UNCHANGED <<queueVars, tickVars, stackVars, flagVars, localVars>>
  BY Zenon DEF Preempt
<1>a. TypeOK'
  BY <1>2, <1>3, Zenon DEF TypeOK, queueVars, tickVars, stackVars, localVars, flagVars
<1>b. PcShape'
  BY Zenon, <1>1, <1>2, <1>3, CtxOf DEF PcShape
<1>c. Exclusion'
  BY <1>1, <1>2, <1>3, Zenon DEF Exclusion, Critical, PcShape, stackVars, Ctx, TypeOK, flagVars
<1>d. LockHeld'
  BY Zenon, <1>1, <1>2, <1>3 DEF LockHeld, queueVars
<1>e. CurrentShape'
  BY Zenon, <1>1, <1>2, <1>3, ReadyKept DEF CurrentShape, queueVars, stackVars, localVars
<1>f. LocalsSet'
  BY Zenon, <1>1, <1>2, <1>3 DEF LocalsSet, stackVars, localVars
<1>g. OwnedExist' /\ SuspendedShape'
  BY <1>3, ReadyKept, Zenon DEF OwnedExist, SuspendedShape, queueVars, stackVars
<1>h. BootShape'
  BY <1>1, <1>2, <1>3, CtxOf, Zenon DEF BootShape, PcShape, stackVars, flagVars, Stacks, TypeOK
<1>i. IrqFrameShape'
  BY Zenon, <1>1, <1>2, <1>3, CtxOf DEF IrqFrameShape, PcShape, flagVars, TypeOK, Exclusion, Critical
<1>l. GuardShape'
  BY ZenonT(40), <1>1, <1>2, <1>3, CtxOf DEF GuardShape, Guarded, Critical, PcShape, flagVars, TypeOK, Stacks
<1>m. SwitchFrameShape'
  BY <1>1, <1>2, <1>3, SuspendedCtx, Zenon DEF SwitchFrameShape, stackVars
<1>n. FreshShape'
  BY ZenonT(40), <1>1, <1>2, <1>3, FreshCtx DEF FreshShape, stackVars
<1>j. BoxOwnership'
  <2>1. \A c \in Ctx : Held(c)' = Held(c)
    BY <1>1, <1>2, <1>3, Zenon DEF Held, localVars
  <2>2. Ready' = Ready
    BY SMTT(15), ZenonT(30), <1>3, ReadyKept DEF queueVars
  <2>3. current' = current /\ spawned' = spawned /\ runqueue' = runqueue
    BY <1>3, Zenon DEF queueVars, stackVars
  <2> QED BY <2>1, <2>2, <2>3, OwnershipKept, Zenon
<1>k. TaskCodeInterruptible'
  BY <1>1, <1>2, <1>3, Zenon DEF TaskCodeInterruptible, flagVars, stackVars
<1> QED BY <1>a, <1>b, <1>c, <1>d, <1>e, <1>f, <1>g, <1>h, <1>i, <1>j, <1>k, <1>l,
       <1>m, <1>n, Zenon

(* Task::new and the start of spawn keep it.                                *)
LEMMA SpawnStep == ASSUME IInv, NEW t \in Tasks, Spawn(t) PROVE IInv'
<1> USE DEF IInv
<1> DEFINE l == "s_cli"
<1>1. pc[Top] = "run" /\ Goto(l)
  BY SMTT(30) DEF Spawn, At
<1>2. /\ Top' = Top /\ Top \in Ctx /\ Top[1] = running
      /\ \/ Top = <<running, "task">> /\ pc[<<running, "irq">>] = "none"
         \/ Top = <<running, "irq">> /\ pc[<<running, "irq">>] # "none"
      /\ pc' \in [Ctx -> PcValues]
      /\ pc'[Top] = l
      /\ \A c \in Ctx : c # Top => pc'[c] = pc[c]
  BY <1>1, GotoFacts, TopInCtx, Zenon DEF Spawn, TaskNew, TypeOK, stackVars, PcValues
<1>3. /\ t \notin spawned
      /\ spawned' = spawned \cup {t}
      /\ frame_if' = [frame_if EXCEPT ![t] = TRUE]
      /\ suspended' = suspended \cup {t}
      /\ next' = [next EXCEPT ![Top] = t]
      /\ saved_if' = [saved_if EXCEPT ![Top] = rflags_if]
      /\ UNCHANGED <<queueVars, tickVars, running, rflags_if, prev>>
  BY Zenon DEF Spawn, TaskNew
<1>4. t \in AllTasks /\ t # running
  BY <1>3, TasksAssumption, Zenon DEF AllTasks, OwnedExist
<1>a. TypeOK'
  BY <1>2, <1>3, <1>4, Zenon DEF TypeOK, Stacks, queueVars, tickVars
<1>b. PcShape'
  BY ZenonT(40), <1>1, <1>2, <1>3, CtxOf DEF PcShape
<1>c. Exclusion'
  BY <1>1, <1>2, <1>3, Zenon DEF Exclusion, Critical, stackVars, Ctx, TypeOK, flagVars
<1>d. LockHeld'
  BY Zenon, <1>1, <1>2, <1>3 DEF LockHeld, queueVars
<1>e. CurrentShape'
  BY Zenon, <1>1, <1>2, <1>3, ReadyKept DEF CurrentShape, queueVars
<1>f. LocalsSet'
  BY <1>1, <1>2, <1>3, Zenon DEF LocalsSet, TypeOK
<1>g. OwnedExist' /\ SuspendedShape'
  BY <1>3, <1>4, ReadyKept, Zenon DEF OwnedExist, SuspendedShape, queueVars
<1>h. BootShape'
  <2>1. CASE running = Boot
    <3>1. pc[<<Boot, "irq">>] = "none" /\ Top = <<Boot, "task">> /\ ~rflags_if
      BY Zenon, <1>1, <1>2, <2>1 DEF BootShape, PcShape
    <3> QED BY <1>1, <1>2, <1>3, <2>1, <3>1, CtxOf, Zenon DEF BootShape, Stacks, TypeOK
  <2>2. CASE running # Boot
    <3>1. <<Boot, "task">> \in Ctx
      BY CtxOf, Zenon DEF Stacks
    <3>2. <<Boot, "task">> # Top
      BY SMTT(15), ZenonT(30), <1>2, <2>2
    <3> QED BY <1>2, <1>3, <2>2, <3>1, <3>2, Zenon DEF BootShape, TypeOK
  <2> QED BY <2>1, <2>2, Zenon
<1>i. IrqFrameShape'
  BY Zenon, <1>1, <1>2, <1>3, CtxOf DEF IrqFrameShape, PcShape, flagVars, TypeOK
<1>l. GuardShape'
  <2> SUFFICES ASSUME NEW u \in AllTasks, pc'[<<u, "task">>] \in Guarded
               PROVE  saved_if'[<<u, "task">>]
      BY Zenon DEF GuardShape
  <2>1. u # Boot /\ <<u, "task">> \in Ctx
    BY Zenon, CtxOf, TasksAssumption DEF AllTasks, Stacks
  <2>2. CASE Top = <<u, "task">>
    <3>1. rflags_if
      BY <1>1, <1>2, <2>1, <2>2, Zenon DEF TaskCodeInterruptible
    <3> QED BY <1>2, <1>3, <2>2, <3>1, Zenon DEF TypeOK
  <2>3. CASE Top # <<u, "task">>
    BY <1>2, <1>3, <2>1, <2>3, Zenon DEF GuardShape, TypeOK
  <2> QED BY <2>2, <2>3, Zenon
<1>m. SwitchFrameShape'
  <2> SUFFICES ASSUME NEW u \in suspended'
               PROVE  \/ pc'[<<u, "irq">>] = "ret" /\ ~frame_if'[u]
                      \/ /\ pc'[<<u, "irq">>] = "none"
                         /\ pc'[<<u, "task">>] = "ret" \/ frame_if'[u]
      BY Zenon DEF SwitchFrameShape
  <2>1. CASE u = t
    <3>1. pc[<<t, "irq">>] = "none"
      BY SMTT(15), ZenonT(30), <1>3, <1>4 DEF FreshShape
    <3>2. pc'[<<t, "irq">>] = "none"
      BY <1>2, <1>3, <1>4, <3>1, FreshCtx, Zenon
    <3>3. frame_if'[t]
      BY <1>3, <1>4, Zenon DEF TypeOK, Stacks
    <3> QED BY <2>1, <3>2, <3>3, Zenon
  <2>2. CASE u # t
    <3>1. u \in suspended /\ frame_if'[u] = frame_if[u]
      BY <1>3, <2>2, SuspendedCtx, Zenon DEF TypeOK
    <3> QED BY <3>1, <1>2, SuspendedCtx, Zenon DEF SwitchFrameShape
  <2> QED BY <2>1, <2>2, Zenon
<1>n. FreshShape'
  BY Zenon, <1>2, <1>3, FreshCtx DEF FreshShape
<1>j. BoxOwnership'
  <2>1. Held(Top)' = t
    BY <1>1, <1>2, <1>3, Zenon DEF Held, TypeOK
  <2>2. Held(Top) = NoTask
    BY <1>1, Zenon DEF Held
  <2>3. \A c \in Ctx : c # Top => Held(c)' = Held(c)
    BY SMTT(15), ZenonT(30), <1>2, <1>3 DEF Held, TypeOK
  <2>4. \A c \in Ctx : Held(c) \in spawned \cup {NoTask}
    BY SMTT(15), ZenonT(30), <1>1 DEF Held, LocalsSet, Exclusion, Critical
  <2>5. current # t /\ t \notin Ready /\ t # NoTask
    BY <1>1, <1>3, <1>4, TasksAssumption DEF CurrentShape, OwnedExist, AllTasks
  <2>6. current' = current /\ Ready' = Ready /\ runqueue' = runqueue
    BY <1>3, ReadyKept, Zenon DEF queueVars
  <2>7. ASSUME NEW u \in spawned'
        PROVE  u = current' \/ u \in Ready' \/ \E c \in Ctx : Held(c)' = u
    <3>1. CASE u = t
      BY <3>1, <1>2, <2>1, Zenon
    <3>2. CASE u # t
      <4>1. u \in spawned /\ u # NoTask
        BY <3>2, <1>3, TasksAssumption, Zenon DEF TypeOK, AllTasks
      <4> QED BY <4>1, <2>2, <2>3, <2>6, Zenon DEF BoxOwnership
    <3> QED BY SMTT(15), ZenonT(30), <3>1, <3>2
  <2>8. ASSUME NEW c \in Ctx, Held(c)' # NoTask
        PROVE  /\ Held(c)' # current' /\ Held(c)' \notin Ready'
               /\ \A d \in Ctx : Held(d)' = Held(c)' => d = c
    <3>1. t \notin spawned
      BY <1>3, Zenon
    <3>2. CASE c = Top
      BY <1>2, <3>1, <3>2, <2>1, <2>3, <2>4, <2>5, <2>6, Zenon
    <3>3. CASE c # Top
      <4>1. Held(c)' = Held(c) /\ Held(c) # NoTask /\ Held(c) # t
        BY <3>1, <3>3, <2>3, <2>4, <2>5, <2>8, Zenon
      <4>2. ASSUME NEW d \in Ctx, Held(d)' = Held(c)' PROVE d = c
        BY SMTT(15), ZenonT(30), <1>2, <4>1, <4>2, <2>1, <2>3 DEF BoxOwnership
      <4> QED BY <4>1, <4>2, <2>6, Zenon DEF BoxOwnership
    <3> QED BY <3>2, <3>3, Zenon
  <2> QED BY <2>6, <2>7, <2>8, Zenon DEF BoxOwnership
<1>k. TaskCodeInterruptible'
  BY <1>1, <1>2, <1>3, Zenon DEF TaskCodeInterruptible, flagVars, stackVars
<1> QED BY <1>a, <1>b, <1>c, <1>d, <1>e, <1>f, <1>g, <1>h, <1>i, <1>j, <1>k, <1>l,
       <1>m, <1>n, Zenon

(* current.swap exchanges the Boxes of next and prev.                       *)
LEMMA SwapCurrentStep == ASSUME IInv, SwapCurrent PROVE IInv'
<1> USE DEF IInv
<1> DEFINE l == "lock_push"
<1>0. running # Boot /\ current = running /\ current # NoTask
  <2>1. pc[Top] = "swap" /\ running \in Stacks
    BY Zenon DEF SwapCurrent, At, TypeOK
  <2>2. running # Boot
    BY <2>1, TopInCtx, Zenon DEF BootShape
  <2>3. current = running
    BY <2>1, <2>2, Zenon DEF CurrentShape
  <2> QED BY <2>1, <2>2, <2>3, TasksAssumption, Zenon DEF Stacks, AllTasks
<1>1. pc[Top] = "swap" /\ Goto(l)
  BY SMTT(15), ZenonT(30), <1>0 DEF SwapCurrent, At
<1>2. /\ Top' = Top /\ Top \in Ctx /\ Top[1] = running
      /\ \/ Top = <<running, "task">> /\ pc[<<running, "irq">>] = "none"
         \/ Top = <<running, "irq">> /\ pc[<<running, "irq">>] # "none"
      /\ pc' \in [Ctx -> PcValues]
      /\ pc'[Top] = l
      /\ \A c \in Ctx : c # Top => pc'[c] = pc[c]
  BY <1>1, GotoFacts, TopInCtx, Zenon DEF SwapCurrent, TypeOK, stackVars, PcValues
<1>3. /\ current' = next[Top]
      /\ prev' = [prev EXCEPT ![Top] = current]
      /\ last_switch_tick' = ticks
      /\ UNCHANGED <<runqueue, rq_lock, tickVars, stackVars, flagVars, next>>
  BY <1>0, Zenon DEF SwapCurrent
<1>a. TypeOK'
  BY <1>2, <1>3, Zenon DEF TypeOK, tickVars, stackVars, flagVars
<1>b. PcShape'
  BY Zenon, <1>1, <1>2, <1>3, CtxOf DEF PcShape
<1>c. Exclusion'
  BY <1>1, <1>2, <1>3, Zenon DEF Exclusion, Critical, stackVars, Ctx, TypeOK, flagVars
<1>d. LockHeld'
  BY Zenon, <1>1, <1>2, <1>3 DEF LockHeld
<1>e. CurrentShape'
  BY <1>1, <1>2, <1>3, <1>0, Zenon DEF CurrentShape, stackVars, TypeOK
<1>f. LocalsSet'
  BY <1>1, <1>2, <1>3, Zenon DEF LocalsSet, stackVars, TypeOK
<1>g. OwnedExist' /\ SuspendedShape'
  BY SMTT(15), ZenonT(30), <1>3, ReadyKept DEF OwnedExist, SuspendedShape, stackVars
<1>h. BootShape'
  BY <1>1, <1>2, <1>3, Zenon DEF BootShape, stackVars, flagVars, Ctx, Stacks
<1>i. IrqFrameShape'
  BY Zenon, <1>1, <1>2, <1>3, CtxOf DEF IrqFrameShape, PcShape, flagVars, TypeOK
<1>l. GuardShape'
  BY <1>1, <1>2, <1>3, CtxOf, Zenon DEF GuardShape, Guarded, Critical, PcShape, flagVars, TypeOK, Stacks
<1>m. SwitchFrameShape'
  BY Zenon, <1>1, <1>2, <1>3, SuspendedCtx DEF SwitchFrameShape, stackVars
<1>n. FreshShape'
  BY Zenon, <1>1, <1>2, <1>3, FreshCtx DEF FreshShape, stackVars
<1>j. BoxOwnership'
  <2>1. /\ Held(Top) = next[Top] /\ Held(Top)' = current
    BY <1>1, <1>2, <1>3, Zenon DEF Held, TypeOK
  <2>2. \A c \in Ctx : c # Top => Held(c)' = Held(c)
    BY <1>2, <1>3, Zenon DEF Held, TypeOK
  <2>3. /\ current' = Held(Top) /\ Ready' = Ready /\ runqueue' = runqueue
        /\ spawned' = spawned
    BY <1>3, <2>1, ReadyKept, Zenon DEF stackVars
  <2>4. Held(Top) # NoTask /\ current # NoTask
    BY SMTT(15), ZenonT(30), <1>0, <1>1, <1>2, <2>1, TasksAssumption DEF LocalsSet, TypeOK, AllTasks
  <2> QED BY <1>2, <2>1, <2>2, <2>3, <2>4 DEF BoxOwnership
<1>k. TaskCodeInterruptible'
  BY <1>1, <1>2, <1>3, Zenon DEF TaskCodeInterruptible, flagVars, stackVars
<1> QED BY <1>a, <1>b, <1>c, <1>d, <1>e, <1>f, <1>g, <1>h, <1>i, <1>j, <1>k, <1>l,
       <1>m, <1>n, Zenon

(* pop_front on an empty runqueue keeps it.                                 *)
LEMMA PopEmptyStep == ASSUME IInv, runqueue = <<>>, PopNext PROVE IInv'
<1> USE DEF IInv
<1> DEFINE l == "ret"
<1>1. pc[Top] = "pop" /\ Goto(l)
  BY SMTT(30) DEF PopNext, At
<1>2. /\ Top' = Top /\ Top \in Ctx /\ Top[1] = running
      /\ \/ Top = <<running, "task">> /\ pc[<<running, "irq">>] = "none"
         \/ Top = <<running, "irq">> /\ pc[<<running, "irq">>] # "none"
      /\ pc' \in [Ctx -> PcValues]
      /\ pc'[Top] = l
      /\ \A c \in Ctx : c # Top => pc'[c] = pc[c]
  BY <1>1, GotoFacts, TopInCtx, Zenon DEF PopNext, TypeOK, stackVars, PcValues
<1>3. /\ rq_lock' = FALSE
      /\ UNCHANGED <<current, runqueue, next, last_switch_tick, tickVars, stackVars,
                     flagVars, prev>>
  BY Zenon DEF PopNext
<1>a. TypeOK'
  BY <1>2, <1>3, Zenon DEF TypeOK, queueVars, tickVars, stackVars, localVars, flagVars
<1>b. PcShape'
  BY Zenon, <1>1, <1>2, <1>3, CtxOf DEF PcShape
<1>c. Exclusion'
  BY <1>1, <1>2, <1>3, Zenon DEF Exclusion, Critical, stackVars, Ctx, TypeOK, flagVars
<1>d. LockHeld'
  BY Zenon, <1>1, <1>2, <1>3 DEF LockHeld
<1>e. CurrentShape'
  BY Zenon, <1>1, <1>2, <1>3, ReadyKept DEF CurrentShape, stackVars
<1>f. LocalsSet'
  BY Zenon, <1>1, <1>2, <1>3 DEF LocalsSet, stackVars, localVars
<1>g. OwnedExist' /\ SuspendedShape'
  BY <1>3, ReadyKept, Zenon DEF OwnedExist, SuspendedShape, queueVars, stackVars
<1>h. BootShape'
  BY <1>1, <1>2, <1>3, Zenon DEF BootShape, stackVars, flagVars, Ctx, Stacks
<1>i. IrqFrameShape'
  BY Zenon, <1>1, <1>2, <1>3, CtxOf DEF IrqFrameShape, PcShape, flagVars, TypeOK
<1>l. GuardShape'
  BY <1>1, <1>2, <1>3, CtxOf, Zenon DEF GuardShape, Guarded, Critical, PcShape, flagVars, TypeOK, Stacks
<1>m. SwitchFrameShape'
  BY Zenon, <1>1, <1>2, <1>3, SuspendedCtx DEF SwitchFrameShape, stackVars
<1>n. FreshShape'
  BY ZenonT(40), <1>1, <1>2, <1>3, FreshCtx DEF FreshShape, stackVars
<1>j. BoxOwnership'
  <2>1. \A c \in Ctx : Held(c)' = Held(c)
    BY ZenonT(40), <1>1, <1>2, <1>3 DEF Held
  <2>2. Ready' = Ready /\ current' = current /\ spawned' = spawned /\ runqueue' = runqueue
    BY <1>3, ReadyKept, Zenon DEF stackVars
  <2> QED BY <2>1, <2>2, OwnershipKept, Zenon
<1>k. TaskCodeInterruptible'
  BY Zenon, <1>1, <1>2, <1>3 DEF TaskCodeInterruptible, flagVars, stackVars
<1> QED BY <1>a, <1>b, <1>c, <1>d, <1>e, <1>f, <1>g, <1>h, <1>i, <1>j, <1>k, <1>l,
       <1>m, <1>n, Zenon

(* pop_front on a non-empty runqueue takes one Box out of it.               *)
LEMMA PopHeadStep == ASSUME IInv, runqueue # <<>>, PopNext PROVE IInv'
<1> USE DEF IInv
<1> DEFINE l == "swap"
<1>1. pc[Top] = "pop" /\ Goto(l)
  BY SMTT(30) DEF PopNext, At
<1>2. /\ Top' = Top /\ Top \in Ctx /\ Top[1] = running
      /\ \/ Top = <<running, "task">> /\ pc[<<running, "irq">>] = "none"
         \/ Top = <<running, "irq">> /\ pc[<<running, "irq">>] # "none"
      /\ pc' \in [Ctx -> PcValues]
      /\ pc'[Top] = l
      /\ \A c \in Ctx : c # Top => pc'[c] = pc[c]
  BY <1>1, GotoFacts, TopInCtx, Zenon DEF PopNext, TypeOK, stackVars, PcValues
<1>3. /\ rq_lock' = FALSE
      /\ next' = [next EXCEPT ![Top] = Head(runqueue)]
      /\ runqueue' = Tail(runqueue)
      /\ UNCHANGED <<current, last_switch_tick, tickVars, stackVars, flagVars, prev>>
  BY Zenon DEF PopNext
<1>4. /\ Head(runqueue) \in Ready /\ Head(runqueue) \notin Ready' /\ Head(runqueue) \in AllTasks
      /\ Ready = Ready' \cup {Head(runqueue)}
      /\ runqueue' \in Seq(AllTasks)
      /\ \A i, j \in DOMAIN runqueue' : runqueue'[i] = runqueue'[j] => i = j
  <2>1. runqueue' = Tail(runqueue)
    BY <1>3, Zenon
  <2>2. runqueue \in Seq(AllTasks) /\ \A i, j \in DOMAIN runqueue : runqueue[i] = runqueue[j] => i = j
    BY Zenon DEF TypeOK, BoxOwnership
  <2> QED BY <2>1, <2>2, TailRange DEF Ready
<1>5. running # Boot
  <2>1. spawned # {}
    BY <1>4, Zenon DEF OwnedExist
  <2> QED BY <1>1, <1>2, <2>1, Zenon DEF BootShape
<1>a. TypeOK'
  BY Zenon, <1>2, <1>3, <1>4 DEF TypeOK, tickVars, stackVars, flagVars
<1>b. PcShape'
  BY <1>1, <1>2, <1>3, CtxOf, Zenon DEF PcShape
<1>c. Exclusion'
  BY <1>1, <1>2, <1>3, Zenon DEF Exclusion, Critical, stackVars, Ctx, TypeOK, flagVars
<1>d. LockHeld'
  BY <1>1, <1>2, <1>3, Zenon DEF LockHeld
<1>e. CurrentShape'
  BY <1>1, <1>2, <1>3, Zenon DEF CurrentShape, stackVars
<1>f. LocalsSet'
  BY <1>1, <1>2, <1>3, <1>4, Zenon DEF LocalsSet, stackVars, TypeOK, OwnedExist
<1>g. OwnedExist' /\ SuspendedShape'
  BY <1>3, <1>4, Zenon DEF OwnedExist, SuspendedShape, stackVars
<1>h. BootShape'
  BY <1>1, <1>2, <1>3, <1>5, Zenon DEF BootShape, stackVars, flagVars, Ctx, Stacks
<1>i. IrqFrameShape'
  BY Zenon, <1>1, <1>2, <1>3, CtxOf DEF IrqFrameShape, PcShape, flagVars, TypeOK
<1>l. GuardShape'
  BY ZenonT(40), <1>1, <1>2, <1>3, CtxOf DEF GuardShape, Guarded, Critical, PcShape, flagVars, TypeOK, Stacks
<1>m. SwitchFrameShape'
  BY Zenon, <1>1, <1>2, <1>3, SuspendedCtx DEF SwitchFrameShape, stackVars
<1>n. FreshShape'
  BY Zenon, <1>1, <1>2, <1>3, FreshCtx DEF FreshShape, stackVars
<1>j. BoxOwnership'
  <2>1. /\ Held(Top) = NoTask /\ Held(Top)' = Head(runqueue)
    BY SMTT(15), ZenonT(30), <1>1, <1>2, <1>3 DEF Held, TypeOK
  <2>2. \A c \in Ctx : c # Top => Held(c)' = Held(c)
    BY <1>2, <1>3, Zenon DEF Held, TypeOK
  <2>3. current' = current /\ spawned' = spawned
    BY <1>3, Zenon DEF stackVars
  <2>4. ASSUME NEW u \in spawned'
        PROVE  u = current' \/ u \in Ready' \/ \E c \in Ctx : Held(c)' = u
    <3>1. u # NoTask
      BY SMTT(15), ZenonT(30), <2>3, TasksAssumption DEF TypeOK, AllTasks
    <3> QED BY <3>1, <1>2, <1>4, <2>1, <2>2, <2>3, Zenon DEF BoxOwnership
  <2>5. ASSUME NEW c \in Ctx, Held(c)' # NoTask
        PROVE  /\ Held(c)' # current' /\ Held(c)' \notin Ready'
               /\ \A d \in Ctx : Held(d)' = Held(c)' => d = c
    BY <1>2, <1>4, <2>1, <2>2, <2>3, <2>5 DEF BoxOwnership
  <2>6. current' \notin Ready'
    BY SMTT(15), ZenonT(30), <1>4, <2>3 DEF BoxOwnership
  <2> QED BY SMTT(15), ZenonT(30), <1>4, <2>4, <2>5, <2>6 DEF BoxOwnership
<1>k. TaskCodeInterruptible'
  BY <1>1, <1>2, <1>3, Zenon DEF TaskCodeInterruptible, flagVars, stackVars
<1> QED BY <1>a, <1>b, <1>c, <1>d, <1>e, <1>f, <1>g, <1>h, <1>i, <1>j, <1>k, <1>l,
       <1>m, <1>n, Zenon

(* The interrupt windows of bring-up keep it.                               *)
LEMMA BootWindowStep == ASSUME IInv, BootWindow PROVE IInv'
<1> USE DEF IInv
<1>1. PICK l \in {"run", "window"} :
        /\ pc[Top] = IF l = "run" THEN "window" ELSE "run"
        /\ Goto(l)
        /\ rflags_if' = (l = "window")
  BY Zenon DEF BootWindow, At
<1>2. /\ Top' = Top /\ Top \in Ctx /\ Top[1] = running
      /\ \/ Top = <<running, "task">> /\ pc[<<running, "irq">>] = "none"
         \/ Top = <<running, "irq">> /\ pc[<<running, "irq">>] # "none"
      /\ pc' \in [Ctx -> PcValues]
      /\ pc'[Top] = l
      /\ \A c \in Ctx : c # Top => pc'[c] = pc[c]
  BY Zenon, <1>1, GotoFacts, TopInCtx DEF BootWindow, TypeOK, stackVars, PcValues
<1>3. /\ rflags_if' = (l = "window")
      /\ running = Boot /\ spawned = {}
      /\ UNCHANGED <<queueVars, tickVars, stackVars, localVars, saved_if>>
  BY SMTT(15), ZenonT(30), <1>1 DEF BootWindow
<1>a. TypeOK'
  BY <1>2, <1>3, Zenon DEF TypeOK, queueVars, tickVars, stackVars, localVars, flagVars
<1>b. PcShape'
  BY ZenonT(40), <1>1, <1>2, <1>3, CtxOf DEF PcShape
<1>c. Exclusion'
  BY Zenon, <1>1, <1>2, <1>3 DEF Exclusion, Critical, PcShape, stackVars, Ctx, TypeOK, flagVars
<1>d. LockHeld'
  BY Zenon, <1>1, <1>2, <1>3 DEF LockHeld, queueVars
<1>e. CurrentShape'
  BY ZenonT(40), <1>1, <1>2, <1>3, ReadyKept DEF CurrentShape, queueVars, stackVars, localVars
<1>f. LocalsSet'
  BY Zenon, <1>1, <1>2, <1>3 DEF LocalsSet, stackVars, localVars
<1>g. OwnedExist' /\ SuspendedShape'
  BY SMTT(15), ZenonT(30), <1>3, ReadyKept DEF OwnedExist, SuspendedShape, queueVars, stackVars
<1>h. BootShape'
  BY SMTT(15), ZenonT(30), <1>1, <1>2, <1>3, CtxOf DEF BootShape, PcShape, stackVars, Stacks, TypeOK
<1>i. IrqFrameShape'
  BY Zenon, <1>1, <1>2, <1>3, CtxOf DEF IrqFrameShape, PcShape, TypeOK
<1>l. GuardShape'
  <2>1. \A t \in AllTasks : pc'[<<t, "task">>] = pc[<<t, "task">>]
    <3>1. ASSUME NEW t \in AllTasks PROVE <<t, "task">> \in Ctx /\ <<t, "task">> # Top
      BY Zenon, <1>2, <1>3, TaskCtx
    <3> QED BY Zenon, <1>2, <3>1
  <2>2. saved_if' = saved_if
    BY <1>3, Zenon
  <2> QED BY <2>1, <2>2, Zenon DEF GuardShape
<1>m. SwitchFrameShape'
  BY ZenonT(40), <1>1, <1>2, <1>3, SuspendedCtx DEF SwitchFrameShape, stackVars
<1>n. FreshShape'
  BY ZenonT(40), <1>1, <1>2, <1>3, FreshCtx DEF FreshShape, stackVars
<1>j. BoxOwnership'
  <2>1. \A c \in Ctx : Held(c)' = Held(c)
    BY SMTT(15), ZenonT(30), <1>1, <1>2, <1>3 DEF Held, localVars
  <2>2. Ready' = Ready
    BY SMTT(15), ZenonT(30), <1>3, ReadyKept DEF queueVars
  <2>3. current' = current /\ spawned' = spawned /\ runqueue' = runqueue
    BY <1>3, Zenon DEF queueVars, stackVars
  <2> QED BY <2>1, <2>2, <2>3, OwnershipKept, Zenon
<1>k. TaskCodeInterruptible'
  BY <1>1, <1>2, <1>3, Zenon DEF TaskCodeInterruptible, flagVars, stackVars
<1> QED BY <1>a, <1>b, <1>c, <1>d, <1>e, <1>f, <1>g, <1>h, <1>i, <1>j, <1>k, <1>l,
       <1>m, <1>n, Zenon

(* The timer interrupt keeps it: it arrives only outside a rotation.        *)
LEMMA TimerIrqStep == ASSUME IInv, TimerIrq PROVE IInv'
<1> USE DEF IInv
<1> DEFINE i == <<running, "irq">>
           c0 == <<running, "task">>
<1>1. /\ rflags_if /\ pc[i] = "none" /\ running' = running
      /\ pc' = [pc EXCEPT ![i] = "check"]
      /\ saved_if' = [saved_if EXCEPT ![i] = rflags_if]
      /\ rflags_if' = FALSE
      /\ ticks' = (ticks + 1) % TickMod
      /\ ran' = IF ran < SliceTicks THEN ran + 1 ELSE ran
      /\ UNCHANGED <<queueVars, stackVars, localVars>>
  BY Zenon DEF TimerIrq, stackVars
<1>2. /\ i \in Ctx /\ c0 \in Ctx /\ i # c0 /\ Top = c0 /\ Top' = i
      /\ pc' \in [Ctx -> PcValues] /\ pc'[i] = "check"
      /\ \A c \in Ctx : c # i => pc'[c] = pc[c]
  <2>1. i \in Ctx /\ c0 \in Ctx /\ i # c0
    BY CtxOf, Zenon DEF TypeOK
  <2>2. /\ pc' \in [Ctx -> PcValues] /\ pc'[i] = "check"
        /\ \A c \in Ctx : c # i => pc'[c] = pc[c]
    BY <1>1, <2>1, Zenon DEF TypeOK, PcValues
  <2> QED BY <1>1, <2>1, <2>2, Zenon DEF Top
<1>3. /\ \A c \in Ctx : pc[c] \notin Critical
      /\ running # Boot => current = running
  <2>1. \A c \in Ctx : pc[c] \notin Critical
    BY <1>1, Zenon DEF Exclusion
  <2> QED BY <1>2, <2>1, Zenon DEF CurrentShape, Critical
<1>4. /\ saved_if' \in [Ctx -> BOOLEAN] /\ saved_if'[i] = TRUE
      /\ \A c \in Ctx : c # i => saved_if'[c] = saved_if[c]
  BY ZenonT(40), <1>1, <1>2 DEF TypeOK
<1> HIDE DEF i, c0
<1>a. TypeOK'
  <2>1. ticks' \in 0 .. TickMod - 1 /\ ran' \in 0 .. SliceTicks
    BY <1>1, TicksAssumption DEF TypeOK
  <2> QED BY Zenon, <1>1, <1>2, <1>4, <2>1 DEF TypeOK, queueVars, stackVars, localVars
<1>b. PcShape'
  BY Zenon, <1>2, CtxOf DEF PcShape, i, TypeOK
<1>c. Exclusion'
  BY <1>1, <1>2, <1>3, Zenon DEF Exclusion, Critical
<1>d. LockHeld'
  BY SMTT(15), ZenonT(30), <1>1, <1>2, <1>3 DEF LockHeld, Critical, queueVars
<1>e. CurrentShape'
  BY <1>1, <1>2, <1>3, Zenon DEF CurrentShape, queueVars
<1>f. LocalsSet'
  BY <1>1, <1>2, Zenon DEF LocalsSet, stackVars, localVars
<1>g. OwnedExist' /\ SuspendedShape'
  BY SMTT(15), ZenonT(30), <1>1, ReadyKept DEF OwnedExist, SuspendedShape, queueVars, stackVars
<1>h. BootShape'
  <2>1. <<Boot, "task">> \in Ctx /\ <<Boot, "irq">> \in Ctx /\ <<Boot, "task">> # i
    BY CtxOf, Zenon DEF Stacks, i, TypeOK
  <2>2. running = Boot => pc'[<<Boot, "irq">>] = "check" /\ pc[<<Boot, "task">>] = "window"
    BY SMTT(15), ZenonT(30), <1>1, <1>2 DEF BootShape, i
  <2> QED BY <1>1, <1>2, <1>4, <2>1, <2>2, Zenon DEF BootShape, stackVars
<1>i. IrqFrameShape'
  BY <1>2, <1>4, CtxOf, Zenon DEF IrqFrameShape
<1>l. GuardShape'
  <2>1. \A t \in AllTasks : <<t, "task">> \in Ctx /\ <<t, "task">> # i
    BY CtxOf, Zenon DEF Stacks, i, TypeOK
  <2> QED BY SMTT(15), ZenonT(30), <1>2, <1>4, <2>1 DEF GuardShape
<1>m. SwitchFrameShape'
  <2>1. \A t \in suspended : /\ <<t, "task">> \in Ctx /\ <<t, "task">> # i
                            /\ <<t, "irq">> \in Ctx /\ <<t, "irq">> # i
    BY SuspendedCtx, CtxOf, Zenon DEF SuspendedShape, i, TypeOK
  <2> QED BY Zenon, <1>1, <1>2, <2>1 DEF SwitchFrameShape, stackVars
<1>n. FreshShape'
  <2>1. \A t \in AllTasks \ spawned : <<t, "irq">> \in Ctx /\ <<t, "irq">> # i
    BY Zenon, FreshCtx DEF i
  <2> QED BY <1>1, <1>2, <2>1, Zenon DEF FreshShape, stackVars
<1>j. BoxOwnership'
  <2>1. \A c \in Ctx : Held(c)' = Held(c)
    BY Zenon, <1>1, <1>2 DEF Held, localVars
  <2>2. Ready' = Ready
    BY <1>1, ReadyKept, Zenon DEF queueVars
  <2>3. current' = current /\ spawned' = spawned /\ runqueue' = runqueue
    BY <1>1, Zenon DEF queueVars, stackVars
  <2> QED BY <2>1, <2>2, <2>3, OwnershipKept, Zenon
<1>k. TaskCodeInterruptible'
  BY SMTT(15), ZenonT(30), <1>2 DEF TaskCodeInterruptible
<1> QED BY <1>a, <1>b, <1>c, <1>d, <1>e, <1>f, <1>g, <1>h, <1>i, <1>j, <1>k, <1>l,
       <1>m, <1>n, Zenon

(* IRET keeps it: the interrupted code had IF = 1.                          *)
LEMMA IretStep == ASSUME IInv, Iret PROVE IInv'
<1> USE DEF IInv
<1> DEFINE i == <<running, "irq">>
           c0 == <<running, "task">>
<1>1. /\ Top = i /\ pc[i] = "ret" /\ running' = running
      /\ pc' = [pc EXCEPT ![i] = "none"]
      /\ rflags_if' = saved_if[i]
      /\ UNCHANGED <<queueVars, tickVars, stackVars, localVars, saved_if>>
  BY TopInCtx, Zenon DEF Iret, At, Goto, stackVars, TypeOK
<1>2. /\ i \in Ctx /\ c0 \in Ctx /\ i # c0 /\ Top' = c0
      /\ pc' \in [Ctx -> PcValues] /\ pc'[i] = "none"
      /\ \A c \in Ctx : c # i => pc'[c] = pc[c]
  <2>1. i \in Ctx /\ c0 \in Ctx /\ i # c0
    BY CtxOf, Zenon DEF TypeOK
  <2>2. /\ pc' \in [Ctx -> PcValues] /\ pc'[i] = "none"
        /\ \A c \in Ctx : c # i => pc'[c] = pc[c]
    BY <1>1, <2>1, Zenon DEF TypeOK, PcValues
  <2> QED BY SMTT(15), ZenonT(30), <1>1, <2>1, <2>2 DEF Top
<1>3. /\ \A c \in Ctx : pc[c] \notin Critical
      /\ running # Boot => current = running
      /\ saved_if[i] = TRUE
  <2>1. \A c \in Ctx : pc[c] \notin Critical
    BY Zenon, <1>1 DEF Exclusion, Critical
  <2>2. saved_if[i] = TRUE
    BY <1>1, <1>2, Zenon DEF IrqFrameShape, TypeOK
  <2> QED BY Zenon, <1>1, <2>1, <2>2 DEF CurrentShape
<1> HIDE DEF i, c0
<1>a. TypeOK'
  BY Zenon, <1>1, <1>2, <1>3 DEF TypeOK, queueVars, tickVars, stackVars, localVars
<1>b. PcShape'
  BY <1>2, CtxOf, Zenon DEF PcShape, i, TypeOK
<1>c. Exclusion'
  BY Zenon, <1>1, <1>2, <1>3 DEF Exclusion, i, Critical
<1>d. LockHeld'
  BY SMTT(15), ZenonT(30), <1>1, <1>2, <1>3 DEF LockHeld, Critical, queueVars
<1>e. CurrentShape'
  BY ZenonT(40), <1>1, <1>2, <1>3 DEF CurrentShape, queueVars, Critical
<1>f. LocalsSet'
  BY Zenon, <1>1, <1>2 DEF LocalsSet, stackVars, localVars
<1>g. OwnedExist' /\ SuspendedShape'
  BY ZenonT(40), <1>1, ReadyKept DEF OwnedExist, SuspendedShape, queueVars, stackVars
<1>h. BootShape'
  <2>1. <<Boot, "task">> \in Ctx /\ <<Boot, "irq">> \in Ctx /\ <<Boot, "task">> # i
    BY CtxOf, Zenon DEF Stacks, i, TypeOK
  <2>2. running = Boot => pc'[<<Boot, "irq">>] = "none" /\ pc[<<Boot, "task">>] = "window"
    BY ZenonT(40), <1>1, <1>2 DEF BootShape, i
  <2> QED BY SMTT(15), ZenonT(30), <1>1, <1>2, <2>1, <2>2 DEF BootShape, stackVars
<1>i. IrqFrameShape'
  BY <1>1, <1>2, CtxOf, Zenon DEF IrqFrameShape
<1>l. GuardShape'
  <2>1. \A t \in AllTasks : <<t, "task">> \in Ctx /\ <<t, "task">> # i
    BY CtxOf, Zenon DEF Stacks, i, TypeOK
  <2> QED BY <1>1, <1>2, <2>1, Zenon DEF GuardShape
<1>m. SwitchFrameShape'
  BY Zenon, <1>1, <1>2, SuspendedCtx DEF SwitchFrameShape, stackVars
<1>n. FreshShape'
  BY <1>1, <1>2, FreshCtx, Zenon DEF FreshShape, stackVars
<1>j. BoxOwnership'
  <2>1. \A c \in Ctx : Held(c)' = Held(c)
    BY Zenon, <1>1, <1>2 DEF Held, localVars
  <2>2. Ready' = Ready
    BY <1>1, ReadyKept, Zenon DEF queueVars
  <2>3. current' = current /\ spawned' = spawned /\ runqueue' = runqueue
    BY <1>1, Zenon DEF queueVars, stackVars
  <2> QED BY <2>1, <2>2, <2>3, OwnershipKept, Zenon
<1>k. TaskCodeInterruptible'
  BY <1>1, <1>3, Zenon DEF TaskCodeInterruptible
<1> QED BY <1>a, <1>b, <1>c, <1>d, <1>e, <1>f, <1>g, <1>h, <1>i, <1>j, <1>k, <1>l,
       <1>m, <1>n, Zenon

(* switch_to keeps it: both frames are where prev and next say.             *)
LEMMA SwitchToStep == ASSUME IInv, SwitchTo PROVE IInv'
<1> USE DEF IInv
<1> DEFINE n == next[Top]
<1>1. /\ pc[Top] = "switch" /\ pc' = [pc EXCEPT ![Top] = "ret"]
      /\ frame_if' = [frame_if EXCEPT ![prev[Top]] = rflags_if]
      /\ suspended' = (suspended \cup {prev[Top]}) \ {n}
      /\ running' = n
      /\ rflags_if' = frame_if[n]
      /\ next' = [next EXCEPT ![Top] = NoTask]
      /\ prev' = [prev EXCEPT ![Top] = NoTask]
      /\ ran' = 0
      /\ UNCHANGED <<queueVars, ticks, saved_if, spawned>>
  BY SMTT(30) DEF SwitchTo, At, Goto
<1>2. /\ Top \in Ctx /\ running \in Stacks
      /\ \/ Top = <<running, "task">> /\ pc[<<running, "irq">>] = "none"
         \/ Top = <<running, "irq">> /\ pc[<<running, "irq">>] = "switch"
      /\ ~rflags_if
  BY SMTT(15), ZenonT(30), <1>1, TopInCtx DEF TypeOK, Exclusion, Critical
<1>3. /\ running # Boot /\ running \in AllTasks
      /\ prev[Top] = running /\ current = n /\ n # running
      /\ n \in AllTasks /\ n # Boot /\ n \in spawned /\ n \in suspended
  <2>1. running # Boot
    BY Zenon, <1>1, <1>2 DEF BootShape
  <2>2. prev[Top] = running /\ current = n /\ running \in Ready
    BY <1>1, <2>1, Zenon DEF CurrentShape
  <2>3. n \in spawned /\ n # running
    BY ZenonT(40), <1>1, <1>2, <2>2 DEF LocalsSet, BoxOwnership
  <2> QED BY <1>2, <2>1, <2>2, <2>3, TasksAssumption, Zenon DEF TypeOK, SuspendedShape, Stacks, AllTasks
<1> HIDE DEF n
<1>4. /\ pc' \in [Ctx -> PcValues] /\ pc'[Top] = "ret"
      /\ \A c \in Ctx : c # Top => pc'[c] = pc[c]
      /\ \A c \in Ctx : pc'[c] \notin Critical
  BY SMTT(15), ZenonT(30), <1>1, <1>2 DEF TypeOK, PcValues, Exclusion, Critical
<1>5. \/ Top' = <<n, "irq">> /\ pc'[Top'] = "ret" /\ ~rflags_if'
      \/ /\ Top' = <<n, "task">> /\ pc'[<<n, "irq">>] = "none"
         /\ pc'[Top'] = "ret" \/ rflags_if'
  <2>1. pc'[<<n, "irq">>] = pc[<<n, "irq">>] /\ pc'[<<n, "task">>] = pc[<<n, "task">>]
    BY SMTT(15), ZenonT(30), <1>3, <1>4, SuspendedCtx
  <2>2. Top' = IF pc'[<<n, "irq">>] = "none" THEN <<n, "task">> ELSE <<n, "irq">>
    BY <1>1, Zenon DEF Top
  <2> QED BY SMTT(15), ZenonT(30), <1>1, <1>3, <2>1, <2>2 DEF SwitchFrameShape
<1>6. Top' \in Ctx
  BY ZenonT(40), <1>3, <1>5, CtxOf DEF Stacks
<1>a. TypeOK'
  <2>1. 0 \in 0 .. SliceTicks
    BY TicksAssumption
  <2> QED BY Zenon, <1>1, <1>2, <1>3, <1>4, <2>1 DEF TypeOK, queueVars, Stacks
<1>b. PcShape'
  BY Zenon, <1>2, <1>4, CtxOf DEF PcShape
<1>c. Exclusion'
  BY Zenon, <1>1, <1>4, <1>5, CtxOf DEF Exclusion
<1>d. LockHeld'
  BY SMTT(15), ZenonT(30), <1>1, <1>4, <1>6 DEF LockHeld, Critical, queueVars
<1>e. CurrentShape'
  BY SMTT(15), ZenonT(30), <1>1, <1>3, <1>4, <1>6 DEF CurrentShape, queueVars, Critical
<1>f. LocalsSet'
  BY <1>1, <1>2, <1>4, Zenon DEF LocalsSet, TypeOK
<1>g. OwnedExist' /\ SuspendedShape'
  BY <1>1, <1>3, ReadyKept, Zenon DEF OwnedExist, SuspendedShape, queueVars
<1>h. BootShape'
  BY ZenonT(40), <1>1, <1>3 DEF BootShape
<1>i. IrqFrameShape'
  BY SMTT(15), ZenonT(30), <1>1, <1>2, <1>4, CtxOf DEF IrqFrameShape
<1>l. GuardShape'
  BY SMTT(15), ZenonT(30), <1>1, <1>2, <1>4, CtxOf DEF GuardShape, Guarded, Critical, Stacks
<1>m. SwitchFrameShape'
  <2> SUFFICES ASSUME NEW u \in suspended'
               PROVE  \/ pc'[<<u, "irq">>] = "ret" /\ ~frame_if'[u]
                      \/ /\ pc'[<<u, "irq">>] = "none"
                         /\ pc'[<<u, "task">>] = "ret" \/ frame_if'[u]
      BY Zenon DEF SwitchFrameShape
  <2>1. CASE u = running
    <3>1. ~frame_if'[u]
      BY <1>1, <1>2, <1>3, <2>1, Zenon DEF TypeOK, Stacks
    <3>2. <<u, "irq">> \in Ctx /\ <<u, "irq">> # <<u, "task">>
      BY <1>2, <2>1, CtxOf, Zenon
    <3> QED BY SMTT(15), ZenonT(30), <1>2, <1>4, <2>1, <3>1, <3>2
  <2>2. CASE u # running
    <3>1. u \in suspended /\ frame_if'[u] = frame_if[u]
      BY ZenonT(40), <1>1, <1>3, <2>2, SuspendedCtx DEF TypeOK
    <3> QED BY ZenonT(40), <3>1, <1>4, SuspendedCtx DEF SwitchFrameShape
  <2> QED BY ZenonT(40), <2>1, <2>2
<1>n. FreshShape'
  BY ZenonT(40), <1>1, <1>4, FreshCtx DEF FreshShape
<1>j. BoxOwnership'
  <2>1. \A c \in Ctx : Held(c)' = Held(c)
    BY <1>1, <1>2, <1>4, Zenon DEF Held, TypeOK
  <2>2. Ready' = Ready
    BY SMTT(15), ZenonT(30), <1>1, ReadyKept DEF queueVars
  <2>3. current' = current /\ spawned' = spawned /\ runqueue' = runqueue
    BY <1>1, Zenon DEF queueVars
  <2> QED BY <2>1, <2>2, <2>3, OwnershipKept, Zenon
<1>k. TaskCodeInterruptible'
  BY <1>5, Zenon DEF TaskCodeInterruptible
<1> QED BY <1>a, <1>b, <1>c, <1>d, <1>e, <1>f, <1>g, <1>h, <1>i, <1>j, <1>k, <1>l,
       <1>m, <1>n, Zenon

(* sched::init's switch into idle keeps it.                                 *)
LEMMA SchedInitStep == ASSUME IInv, SchedInit PROVE IInv'
<1> USE DEF IInv
<1> DEFINE b == <<Boot, "task">>
           c0 == <<Idle, "task">>
<1>1. /\ running = Boot /\ pc[Top] = "run" /\ Idle \notin spawned
      /\ spawned' = spawned \cup {Idle}
      /\ frame_if' = [frame_if EXCEPT ![Idle] = TRUE]
      /\ current' = Idle /\ running' = Idle
      /\ rflags_if' = frame_if'[Idle]
      /\ UNCHANGED <<runqueue, rq_lock, last_switch_tick, tickVars, pc, saved_if,
                     suspended, localVars>>
  BY Zenon DEF SchedInit, TaskNew, At
<1>2. /\ \A c \in Ctx : pc[c] \notin Critical
      /\ rflags_if' = TRUE /\ Idle # Boot /\ Idle \in AllTasks /\ Boot \notin AllTasks
      /\ c0 \in Ctx /\ Top' = c0 /\ pc[<<Idle, "irq">>] = "none"
  <2>1. \A c \in Ctx : pc[c] \notin Critical
    BY SMTT(15), ZenonT(30), <1>1 DEF Exclusion, Critical
  <2>2. rflags_if' = TRUE /\ Idle # Boot /\ Idle \in AllTasks /\ Boot \notin AllTasks
    BY <1>1, TasksAssumption, Zenon DEF TypeOK, AllTasks, Stacks
  <2>3. c0 \in Ctx /\ pc[<<Idle, "irq">>] = "none"
    BY Zenon, <1>1, <2>2, CtxOf DEF FreshShape, Stacks
  <2>4. Top' = c0
    BY ZenonT(40), <1>1, <2>3 DEF Top
  <2> QED BY <2>1, <2>2, <2>3, <2>4, Zenon
<1> HIDE DEF c0
<1>a. TypeOK'
  BY <1>1, <1>2, Zenon DEF TypeOK, tickVars, localVars, Stacks
<1>b. PcShape'
  BY ZenonT(40), <1>1 DEF PcShape
<1>c. Exclusion'
  BY <1>1, <1>2, Zenon DEF Exclusion
<1>d. LockHeld'
  BY <1>1, <1>2, Zenon DEF LockHeld, Critical
<1>e. CurrentShape'
  BY <1>1, <1>2, Zenon DEF CurrentShape, Critical
<1>f. LocalsSet'
  BY Zenon, <1>1, <1>2 DEF LocalsSet, localVars
<1>g. OwnedExist' /\ SuspendedShape'
  <2>1. Ready' = Ready
    BY SMTT(15), ZenonT(30), <1>1, ReadyKept
  <2> QED BY <1>1, <1>2, <2>1 DEF OwnedExist, SuspendedShape, TypeOK
<1>h. BootShape'
  BY <1>1, <1>2, Zenon DEF BootShape
<1>i. IrqFrameShape'
  BY Zenon, <1>1 DEF IrqFrameShape
<1>l. GuardShape'
  BY ZenonT(40), <1>1 DEF GuardShape
<1>m. SwitchFrameShape'
  <2>1. \A u \in suspended : u # Idle /\ u \in Stacks
    BY Zenon, <1>1, SuspendedCtx DEF SuspendedShape
  <2>2. \A u \in suspended : frame_if'[u] = frame_if[u]
    BY ZenonT(40), <1>1, <2>1 DEF TypeOK
  <2> QED BY Zenon, <1>1, <2>2 DEF SwitchFrameShape
<1>n. FreshShape'
  BY Zenon, <1>1 DEF FreshShape
<1>j. BoxOwnership'
  <2>1. \A c \in Ctx : Held(c)' = Held(c) /\ Held(c) \in spawned \cup {NoTask}
    <3>1. \A c \in Ctx : Held(c)' = Held(c)
      BY <1>1, Zenon DEF Held, localVars
    <3>2. \A c \in Ctx : Held(c) \in spawned \cup {NoTask}
      BY <1>2, Zenon DEF Held, LocalsSet, Critical
    <3> QED BY <3>1, <3>2, Zenon
  <2>2. Ready' = Ready /\ Ready \subseteq spawned /\ runqueue' = runqueue
    BY <1>1, Zenon DEF Ready, OwnedExist
  <2>3. current = NoTask /\ Idle # NoTask /\ NoTask \notin spawned
    BY <1>1, TasksAssumption, Zenon DEF CurrentShape, TypeOK, AllTasks
  <2>4. ASSUME NEW u \in spawned'
        PROVE  u = current' \/ u \in Ready' \/ \E c \in Ctx : Held(c)' = u
    BY <1>1, <2>1, <2>2, <2>3, Zenon DEF BoxOwnership
  <2> QED BY SMTT(15), ZenonT(30), <1>1, <2>1, <2>2, <2>3, <2>4 DEF BoxOwnership
<1>k. TaskCodeInterruptible'
  BY <1>2, Zenon DEF TaskCodeInterruptible
<1> QED BY <1>a, <1>b, <1>c, <1>d, <1>e, <1>f, <1>g, <1>h, <1>i, <1>j, <1>k, <1>l,
       <1>m, <1>n, Zenon

(* Every step keeps the inductive invariant.                                *)
LEMMA IInvStep == IInv /\ [Next]_vars => IInv'
<1> SUFFICES ASSUME IInv, [Next]_vars PROVE IInv'
    BY Zenon
<1>1. CASE UNCHANGED vars
  <2>1. TypeOK' /\ PcShape' /\ Exclusion' /\ LockHeld'
    <3>1. TypeOK'
      BY <1>1, Zenon DEF vars, IInv, TypeOK
    <3>2. Top' = Top
      BY ZenonT(40), <1>1 DEF vars, Top
    <3>3. PcShape' /\ Exclusion' /\ LockHeld'
      BY <1>1, <3>2, Zenon DEF vars, IInv, PcShape, Exclusion, LockHeld
    <3> QED BY <3>1, <3>3, Zenon
  <2>2. CurrentShape' /\ LocalsSet' /\ OwnedExist' /\ SuspendedShape' /\ FreshShape'
    <3>1. Top' = Top /\ Ready' = Ready
      BY ZenonT(40), <1>1, ReadyKept DEF vars, Top
    <3>2. CurrentShape' /\ LocalsSet'
      BY <1>1, <3>1, Zenon DEF vars, IInv, CurrentShape, LocalsSet
    <3>3. OwnedExist' /\ SuspendedShape' /\ FreshShape'
      BY ZenonT(40), <1>1, <3>1 DEF vars, IInv, OwnedExist, SuspendedShape, FreshShape
    <3> QED BY <3>2, <3>3, Zenon
  <2>3. BootShape' /\ IrqFrameShape' /\ GuardShape' /\ SwitchFrameShape'
    BY ZenonT(40), <1>1 DEF vars, IInv, BootShape, IrqFrameShape, GuardShape, SwitchFrameShape
  <2>4. BoxOwnership' /\ TaskCodeInterruptible'
    <3>1. \A c \in Ctx : Held(c)' = Held(c)
      BY <1>1, Zenon DEF vars, Held
    <3>2. Ready' = Ready /\ runqueue' = runqueue /\ current' = current /\ spawned' = spawned
      BY <1>1, ReadyKept, Zenon DEF vars
    <3>3. BoxOwnership'
      BY <3>1, <3>2 DEF IInv, BoxOwnership
    <3> QED BY ZenonT(40), <1>1, <3>3 DEF vars, IInv, TaskCodeInterruptible, Top
  <2> QED BY <2>1, <2>2, <2>3, <2>4, Zenon DEF IInv
<1>2. CASE Next
  <2>1. PopNext => IInv'
    BY PopEmptyStep, PopHeadStep, Zenon
  <2> QED BY <1>2, <2>1, CliStep, RunqueueLockStep, SpawnPushStep, PreemptStep,
        SwapCurrentStep, PushPrevStep, SwitchToStep, IrqGuardDropStep, IretStep,
        IdleLoopStep, TimerIrqStep, SpawnStep, YieldNowStep, SchedInitStep,
        BootWindowStep, PanicStep, Zenon DEF Next, KernelStep
<1> QED BY <1>1, <1>2, Zenon

(* The invariants of Sched follow from the inductive one.                   *)
LEMMA IInvImplies ==
  IInv => /\ TypeOK
          /\ BoxOwnership
          /\ SwitchIntoSavedFrame
          /\ RunqueueNeverReentered
          /\ CurrentIsRunning
          /\ TaskCodeInterruptible
          /\ AssertsHold
<1> SUFFICES ASSUME IInv
             PROVE  /\ SwitchIntoSavedFrame
                    /\ RunqueueNeverReentered
                    /\ CurrentIsRunning
                    /\ AssertsHold
    BY Zenon DEF IInv
<1> USE DEF IInv
<1>1. /\ Top \in Ctx /\ running \in Stacks
      /\ Top = <<running, "task">> \/ Top = <<running, "irq">>
  BY TopInCtx, Zenon DEF TypeOK
<1>2. ASSUME NEW c \in Ctx, pc[c] \in {"swap", "switch"}
      PROVE  c = Top /\ running # Boot
  BY <1>1, <1>2, Zenon DEF Exclusion, Critical, BootShape
<1>3. SwitchIntoSavedFrame
  <2> SUFFICES ASSUME NEW c \in Ctx, pc[c] = "switch"
               PROVE  prev[c] = running /\ next[c] \in suspended /\ next[c] = current
      BY Zenon DEF SwitchIntoSavedFrame
  <2>1. c = Top /\ running # Boot
    BY <1>2, Zenon
  <2>2. prev[c] = running /\ next[c] = current /\ running \in Ready
    BY <2>1, Zenon DEF CurrentShape
  <2>3. next[c] \in spawned /\ next[c] # running
    BY <2>2, Zenon DEF LocalsSet, BoxOwnership
  <2> QED BY <2>2, <2>3, Zenon DEF SuspendedShape
<1>4. RunqueueNeverReentered
  BY Zenon DEF RunqueueNeverReentered, LockHeld
<1>5. CurrentIsRunning
  BY <1>1, Zenon DEF CurrentIsRunning, CurrentShape, Exclusion, Critical
<1>6. AssertsHold
  <2> SUFFICES ASSUME NEW c \in Ctx, pc[c] = "swap" PROVE current # NoTask
      BY Zenon DEF AssertsHold
  <2>1. current = running
    BY <1>2, Zenon DEF CurrentShape
  <2> QED BY <1>1, <1>2, <2>1, TasksAssumption, Zenon DEF Stacks, AllTasks
<1> QED BY <1>3, <1>4, <1>5, <1>6, Zenon

(* The inductive invariant holds in every reachable state.                  *)
THEOREM Invariance == Spec => []IInv
<1>1. Init => IInv
  BY InitInv, Zenon
<1>2. IInv /\ [Next]_vars => IInv'
  BY IInvStep, Zenon
<1> QED BY <1>1, <1>2, PTL DEF Spec

(* CpuLocal, the registers and the stacks always hold values of their types. *)
THEOREM TypeCorrect == Spec => []TypeOK
<1>1. IInv => TypeOK
  BY IInvImplies, Zenon
<1> QED BY <1>1, Invariance, PTL

(* The ownership rule of sched.rs: no task's Box is ever lost or aliased,   *)
(* for any number of tasks and wherever the timer interrupts.               *)
THEOREM BoxesOwnedOnce == Spec => []BoxOwnership
<1>1. IInv => BoxOwnership
  BY IInvImplies, Zenon
<1> QED BY <1>1, Invariance, PTL

(* switch_to always saves into the running task and loads a saved frame.    *)
THEOREM SwitchesAreSafe == Spec => []SwitchIntoSavedFrame
<1>1. IInv => SwitchIntoSavedFrame
  BY IInvImplies, Zenon
<1> QED BY <1>1, Invariance, PTL

(* The CPU never spins on the runqueue mutex it holds itself.               *)
THEOREM NoReentry == Spec => []RunqueueNeverReentered
<1>1. IInv => RunqueueNeverReentered
  BY IInvImplies, Zenon
<1> QED BY <1>1, Invariance, PTL

(* Interrupts see cpu.current and RSP agree, tasks resume with IF = 1, and  *)
(* the null checks on cpu.current never fail.                               *)
THEOREM InterruptSafety ==
  Spec => [](CurrentIsRunning /\ TaskCodeInterruptible /\ AssertsHold)
<1>1. IInv => CurrentIsRunning /\ TaskCodeInterruptible /\ AssertsHold
  BY IInvImplies, Zenon
<1> QED BY <1>1, Invariance, PTL

-----------------------------------------------------------------------------
(* The slice: the history variable ran agrees with the wrapping difference  *)
(* that preempt computes, until it saturates.                               *)
Rotating == {"lock_pop", "pop", "swap", "lock_push", "push", "switch"}

SliceInv ==
    /\ IF pc[Top] \in {"lock_push", "push", "switch"}
       THEN last_switch_tick = ticks
       ELSE ran = SliceTicks \/ Elapsed = ran
    /\ Top = <<running, "irq">> /\ pc[Top] \in Rotating => ran = SliceTicks

(* Wrapping subtraction on a counter that counts modulo m.                  *)
LEMMA WrappingSub ==
  ASSUME NEW m \in Nat \ {0}, NEW a \in 0 .. m - 1, NEW b \in 0 .. m - 1
  PROVE  /\ (a - b) % m = IF a >= b THEN a - b ELSE a - b + m
         /\ (a + 1) % m = IF a = m - 1 THEN 0 ELSE a + 1
<1>1. ASSUME NEW x \in 0 .. m - 1 PROVE x % m = x /\ (x - m) % m = x
  BY SMTT(30)
<1>2. m % m = 0
  BY SMTT(30)
<1>3. CASE a >= b
  BY <1>1, <1>3
<1>4. CASE ~(a >= b)
  <2>1. a - b + m \in 0 .. m - 1 /\ (a - b + m) - m = a - b
    BY <1>4
  <2> QED BY <1>1, <1>4, <2>1
<1>5. (a + 1) % m = IF a = m - 1 THEN 0 ELSE a + 1
  BY <1>1, <1>2
<1> QED BY <1>3, <1>4, <1>5, Zenon

(* A tick moves both sides by one.                                          *)
LEMMA ElapsedTick ==
  ASSUME TypeOK, ticks' = (ticks + 1) % TickMod, last_switch_tick' = last_switch_tick,
         Elapsed < SliceTicks
  PROVE  Elapsed' = Elapsed + 1
<1> DEFINE a == ticks
           b == last_switch_tick
<1>1. /\ TickMod \in Nat \ {0} /\ SliceTicks \in Nat /\ SliceTicks < TickMod
      /\ a \in 0 .. TickMod - 1 /\ b \in 0 .. TickMod - 1
  BY TicksAssumption DEF TypeOK
<1>2. /\ Elapsed = IF a >= b THEN a - b ELSE a - b + TickMod
      /\ a' = IF a = TickMod - 1 THEN 0 ELSE a + 1
  BY <1>1, WrappingSub, Zenon DEF Elapsed
<1>3. a' \in 0 .. TickMod - 1 /\ b' = b
  BY <1>1, <1>2
<1>4. Elapsed' = (a' - b) % TickMod
  BY <1>3, Zenon DEF Elapsed
<1>5. ASSUME NEW c \in 0 .. TickMod - 1
      PROVE  (c - b) % TickMod = IF c >= b THEN c - b ELSE c - b + TickMod
  BY <1>1, WrappingSub, Zenon
<1>6. Elapsed' = IF a' >= b THEN a' - b ELSE a' - b + TickMod
  BY <1>3, <1>4, <1>5, Zenon
<1> QED BY <1>1, <1>2, <1>6

(* A step inside one context that leaves the counters alone.                *)
LEMMA SliceGoto ==
  ASSUME IInv, SliceInv, UNCHANGED <<running, ticks, ran, last_switch_tick>>,
         NEW l \in PcValues \ {"none"}, Goto(l),
         l \in {"lock_push", "push", "switch"} <=> pc[Top] \in {"lock_push", "push", "switch"},
         l \in Rotating /\ pc[Top] \notin Rotating =>
             Top = <<running, "task">> \/ ran = SliceTicks
  PROVE  SliceInv'
<1>1. Top' = Top /\ pc'[Top] = l
  BY GotoFacts, Zenon DEF IInv
<1>2. <<running, "irq">> # <<running, "task">>
  BY Zenon
<1> QED BY SMTT(15), ZenonT(30), <1>1, <1>2 DEF SliceInv, Elapsed

(* Every step keeps the agreement of ran with the elapsed ticks.            *)
LEMMA SliceStep == IInv /\ SliceInv /\ [Next]_vars => SliceInv'
<1> SUFFICES ASSUME IInv, SliceInv, [Next]_vars PROVE SliceInv'
    BY SMTT(30)
<1> USE DEF queueVars, tickVars, stackVars, PcValues, Rotating
<1>0. /\ running \in Stacks /\ TypeOK
      /\ Top = <<running, "task">> \/ Top = <<running, "irq">>
      /\ pc[Top] \notin {"none", "check", "lock_pop", "pop", "swap", "lock_push",
                         "push", "switch", "ret"} => Top = <<running, "task">>
  BY Zenon, TopInCtx DEF IInv, TypeOK, PcShape
<1>1. CASE UNCHANGED vars
  BY ZenonT(40), <1>1 DEF vars, SliceInv, Top, Elapsed
<1>2. ASSUME NEW t \in Tasks, Spawn(t) PROVE SliceInv'
  BY ZenonT(40), <1>2, SliceGoto DEF Spawn, At
<1>3. CASE Cli
  BY <1>3, <1>0, SliceGoto, Zenon DEF Cli, At
<1>4. CASE RunqueueLock
  BY <1>4, <1>0, SliceGoto, Zenon DEF RunqueueLock, At
<1>5. CASE SpawnPush
  BY <1>5, SliceGoto, Zenon DEF SpawnPush, At
<1>6. CASE YieldNow
  BY <1>6, SliceGoto, Zenon DEF YieldNow, At
<1>7. CASE TimerIrq
  <2>1. /\ pc[<<running, "irq">>] = "none" /\ running' = running
        /\ pc' = [pc EXCEPT ![<<running, "irq">>] = "check"]
        /\ ticks' = (ticks + 1) % TickMod
        /\ last_switch_tick' = last_switch_tick
        /\ ran' = IF ran < SliceTicks THEN ran + 1 ELSE ran
        /\ rflags_if
    BY <1>7, Zenon DEF TimerIrq
  <2>2. <<running, "irq">> \in Ctx /\ Top \in Ctx
    BY <1>0, CtxOf, TopInCtx, Zenon
  <2>3. Top' = <<running, "irq">> /\ pc'[Top'] = "check"
    BY <2>1, <2>2, <1>0, Zenon DEF Top, TypeOK
  <2>4. pc[Top] \notin Critical
    BY <2>1, <2>2, Zenon DEF IInv, Exclusion
  <2>5. ran = SliceTicks \/ Elapsed = ran
    BY <2>4, Zenon DEF SliceInv, Critical
  <2>6. ran \in 0 .. SliceTicks /\ SliceTicks \in Nat
    BY <1>0, TicksAssumption, Zenon DEF TypeOK
  <2>7. ran' = SliceTicks \/ Elapsed' = ran'
    <3>1. CASE ran = SliceTicks BY <3>1, <2>1, <2>6
    <3>2. CASE ran # SliceTicks
      <4>1. ran < SliceTicks /\ Elapsed = ran
        BY <3>2, <2>5, <2>6
      <4> QED BY <4>1, <2>1, <1>0, ElapsedTick, Zenon
    <3> QED BY <3>1, <3>2, Zenon
  <2> QED BY <2>3, <2>7, Zenon DEF SliceInv
<1>8. CASE Preempt
  <2>1. Elapsed < SliceTicks \/ ran = SliceTicks
    <3>1. ran = SliceTicks \/ Elapsed = ran
      BY <1>8, Zenon DEF Preempt, At, SliceInv
    <3>2. ran \in 0 .. SliceTicks /\ SliceTicks \in Nat
      BY <1>0, TicksAssumption, Zenon DEF TypeOK
    <3> QED BY <3>1, <3>2
  <2> QED BY <1>8, <2>1, SliceGoto, Zenon DEF Preempt, At
<1>9. CASE PopNext
  BY <1>9, SliceGoto, Zenon DEF PopNext, At
<1>10. CASE SwapCurrent
  <2>1. AssertsHold /\ Top \in Ctx
    BY <1>0, IInvImplies, TopInCtx, Zenon
  <2>2. /\ pc[Top] = "swap" /\ Goto("lock_push") /\ running' = running
        /\ last_switch_tick' = ticks /\ ticks' = ticks /\ ran' = ran
    BY <1>10, <2>1, Zenon DEF SwapCurrent, At, AssertsHold
  <2>3. Top' = Top /\ pc'[Top] = "lock_push"
    BY <2>2, <1>0, GotoFacts, Zenon
  <2> QED BY <2>2, <2>3, Zenon DEF SliceInv
<1>11. CASE PushPrev
  BY <1>11, SliceGoto, Zenon DEF PushPrev, At
<1>12. CASE SwitchTo
  <2>1. /\ pc[Top] = "switch" /\ pc' = [pc EXCEPT ![Top] = "ret"]
        /\ ran' = 0 /\ ticks' = ticks /\ last_switch_tick' = last_switch_tick
        /\ last_switch_tick = ticks
    BY ZenonT(40), <1>12 DEF SwitchTo, At, Goto, SliceInv
  <2>2. Elapsed' = 0
    BY <2>1, <1>0, WrappingSub, TicksAssumption DEF Elapsed, TypeOK
  <2>3. IInv'
    BY <1>12, SwitchToStep, Zenon
  <2>4. pc'[Top'] \notin Critical
    <3>1. Top \in Ctx /\ Top' \in Ctx
      BY Zenon, <2>3, <1>0, TopInCtx DEF IInv, TypeOK, Top, Ctx
    <3>2. \A c \in Ctx : pc[c] \in Critical => c = Top
      BY Zenon DEF IInv, Exclusion
    <3> QED BY <2>1, <3>1, <3>2, <1>0, Zenon DEF TypeOK, Critical
  <2> QED BY <2>1, <2>2, <2>4, Zenon DEF SliceInv, Critical
<1>13. CASE IrqGuardDrop
  BY Zenon, <1>13, SliceGoto DEF IrqGuardDrop, At
<1>14. CASE Iret
  <2>1. /\ pc[Top] = "ret" /\ pc' = [pc EXCEPT ![Top] = "none"] /\ Top = <<running, "irq">>
        /\ UNCHANGED <<running, ticks, ran, last_switch_tick>>
    BY <1>14, TopInCtx, <1>0, Zenon DEF Iret, At, Goto
  <2>2. Top \in Ctx /\ <<running, "task">> \in Ctx /\ <<running, "task">> # Top
    BY SMTT(15), ZenonT(30), <2>1, <1>0, CtxOf
  <2>3. Top' = <<running, "task">> /\ pc'[Top'] = pc[<<running, "task">>]
    BY ZenonT(40), <2>1, <2>2, <1>0 DEF Top, TypeOK
  <2>4. pc'[Top'] \notin Critical
    BY <2>1, <2>2, <2>3, Zenon DEF IInv, Exclusion
  <2> QED BY <2>1, <2>3, <2>4, Zenon DEF SliceInv, Elapsed, Critical
<1>15. CASE SchedInit
  <2>1. IInv' /\ rflags_if' /\ TypeOK'
    <3>1. IInv'
      BY <1>15, SchedInitStep, Zenon
    <3> QED BY Zenon, <1>15, <1>0, <3>1 DEF SchedInit, TaskNew, TypeOK, IInv, Stacks, AllTasks
  <2>2. pc'[Top'] \notin Critical
    <3>1. Top' \in Ctx
      BY <2>1, Zenon DEF TypeOK, Top, Ctx
    <3> QED BY Zenon, <2>1, <3>1 DEF IInv, Exclusion
  <2>3. pc[Top] = "run" /\ UNCHANGED <<ticks, ran, last_switch_tick>>
    BY <1>15, Zenon DEF SchedInit, At
  <2> QED BY <2>2, <2>3, Zenon DEF SliceInv, Elapsed, Critical
<1>16. CASE IdleLoop
  BY <1>16, SliceGoto, Zenon DEF IdleLoop, At
<1>17. CASE BootWindow
  BY <1>17, SliceGoto, Zenon DEF BootWindow, At
<1>18. CASE Panic
  BY <1>18, SliceGoto, Zenon DEF Panic, At
<1> QED
  BY <1>1, <1>2, <1>3, <1>4, <1>5, <1>6, <1>7, <1>8, <1>9, <1>10, <1>11, <1>12,
     <1>13, <1>14, <1>15, <1>16, <1>17, <1>18, Zenon DEF Next, KernelStep

(* The running stack changes only in switch_to and sched::init.             *)
LEMMA OnlySwitchChangesStack ==
  ASSUME IInv, [Next]_vars, running' # running, Top[2] = "irq"
  PROVE  pc[Top] = "switch" /\ Top = <<running, "irq">>
<1>1. Top = <<running, "irq">> /\ pc[Top] # "run"
  BY Zenon, TopInCtx DEF IInv, TypeOK, PcShape
<1> QED BY ZenonT(40), <1>1 DEF Next, KernelStep, vars, stackVars, Cli, RunqueueLock, SpawnPush,
       Preempt, PopNext, SwapCurrent, PushPrev, SwitchTo, IrqGuardDrop, Iret, IdleLoop,
       TimerIrq, Spawn, YieldNow, SchedInit, BootWindow, Panic, At

(* preempt never shortens a slice, whatever the width of the tick counter.  *)
THEOREM SlicesAreKept == Spec => SliceKept
<1>1. Init => SliceInv
  <2> SUFFICES ASSUME Init PROVE SliceInv
      BY Zenon
  <2>1. Top = <<Boot, "task">> /\ pc[Top] = "run"
    BY ZenonT(40), InitInv, TasksAssumption DEF Init, Top, Ctx, Stacks, AllTasks
  <2>2. Elapsed = 0
    BY WrappingSub, TicksAssumption DEF Init, Elapsed
  <2> QED BY <2>1, <2>2, Zenon DEF Init, SliceInv, Rotating
<1>2. IInv /\ SliceInv /\ [Next]_vars => SliceInv'
  BY SliceStep, Zenon
<1>3. IInv /\ SliceInv /\ [Next]_vars
        => [(Top[2] = "irq" /\ running' # running) => ran = SliceTicks]_vars
  BY OnlySwitchChangesStack, Zenon DEF SliceInv, Rotating
<1> QED BY <1>1, <1>2, <1>3, Invariance, PTL DEF Spec, SliceKept

-----------------------------------------------------------------------------
(* The work queue: its inductive invariant.                                 *)
WorkPcShape ==
    /\ wpc[Runner] \in {"r_lock", "r_pop", "r_start", "body"}
    /\ \A p \in Callers : wpc[p] \in {"idle", "q_lock", "q_push", "c_lock", "c_retain",
                                     "s_spin", "s_ret"}

Cancelling(p) == wpc[p] \in {"c_lock", "c_retain"}

(* A call in progress has its work.                                         *)
WorkSet ==
    /\ wpc[Runner] \in {"r_start", "body"} => work[Runner] \in Works
    /\ \A p \in Callers : wpc[p] # "idle" => work[p] \in Works
    /\ \A p \in Callers : Cancelling(p) => work[p] \in Cancellable /\ p \in Cancellers

Deque == {PENDING[i] : i \in DOMAIN PENDING}

Pushing(p) == wpc[p] \in {"q_lock", "q_push"}
Popped == wpc[Runner] = "r_start"

(* The three kinds of place of QueuedOnce, one by one: of the works that    *)
(* are not cancelled, those in the deque, about to be pushed and just       *)
(* popped are all different, and they are the ones in state PENDING.        *)
DequeDistinct ==
    \A i, j \in DOMAIN PENDING :
        PENDING[i] = PENDING[j] => i = j \/ PENDING[i] \in Cancellable

PushersApart ==
    \A p \in Callers : Pushing(p) /\ work[p] \notin Cancellable =>
        /\ work[p] \notin Deque
        /\ Popped => work[Runner] # work[p]
        /\ \A q \in Callers : Pushing(q) /\ work[q] = work[p] => q = p

PoppedApart == Popped /\ work[Runner] \notin Cancellable => work[Runner] \notin Deque

Placed(w) ==
    \/ w \in Deque
    \/ \E p \in Callers : Pushing(p) /\ work[p] = w
    \/ Popped /\ work[Runner] = w

PendingPlaced == \A w \in Works \ Cancellable : state[w] = "PENDING" <=> Placed(w)

WorkIInv ==
    /\ WorkTypeOK
    /\ WorkPcShape
    /\ WorkSet
    /\ RunningIsBody
    /\ DequeDistinct
    /\ PushersApart
    /\ PoppedApart
    /\ PendingPlaced

(* The cancelled works, when one task does all the cancelling: it does not  *)
(* queue the work again before its retain, which would drop the new entry.  *)
OneCanceller == \A p, q \in Cancellers : p = q

CancelledIdle == \A p \in Callers : Cancelling(p) => state[work[p]] # "PENDING"
AllPlaced == \A w \in Works : state[w] = "PENDING" => Placed(w)

SInv == WorkIInv /\ CancelledIdle /\ AllPlaced

-----------------------------------------------------------------------------
(* Every nonempty set of numbers has a least one.                           *)
LEMMA LeastNat ==
  ASSUME NEW T, T \subseteq Nat, T # {}
  PROVE  \E x \in T : \A y \in T : x <= y
<1> DEFINE R == {ss \in Nat \X Nat : ss[1] < ss[2]}
<1>1. IsWellFoundedOn(R, Nat)
  BY NatLessThanWellFounded, Zenon DEF OpToRel
<1>2. \A x, y \in Nat : y < x => <<y, x>> \in R
  BY Zenon
<1> HIDE DEF R
<1>3. PICK x \in T : \A y \in T : ~ (<<y, x>> \in R)
  BY <1>1, WFMin, Zenon
<1>4. \A y \in T : x \in Nat /\ y \in Nat /\ ~(y < x)
  BY <1>2, <1>3, Zenon
<1>5. \A y \in T : x <= y
  BY <1>4
<1> QED BY <1>5, Zenon

(* Induction over the natural numbers, for a set.                           *)
LEMMA Induction ==
  ASSUME NEW S, 0 \in S, \A n \in Nat : n \in S => n + 1 \in S
  PROVE  Nat \subseteq S
<1> DEFINE T == {n \in Nat : n \notin S}
<1> SUFFICES ASSUME T # {} PROVE FALSE
  BY Zenon
<1>1. PICK x \in T : \A y \in T : x <= y
  BY LeastNat, Zenon
<1>2. x # 0 /\ x - 1 \in Nat /\ x - 1 \in S
  BY <1>1
<1> QED BY <1>1, <1>2

(* The loop of retain over the deque q, as a function of the entries seen.  *)
Seen(q, w, f, m) ==
    f = [n \in 0 .. m |-> IF n = 0 THEN <<>>
                          ELSE IF q[n] = w THEN f[n - 1]
                          ELSE Append(f[n - 1], q[n])]

(* There is such a function, so the recursion of Retain is well defined.    *)
LEMMA SeenExists ==
  ASSUME NEW S, NEW q \in Seq(S), NEW w
  PROVE  \E f : Seen(q, w, f, Len(q))
<1> DEFINE E == {m \in Nat : \E f : Seen(q, w, f, m)}
<1>1. 0 \in E
  <2>1. Seen(q, w, [n \in 0 .. 0 |-> <<>>], 0)
    BY DEF Seen
  <2> QED BY <2>1, Zenon
<1>2. ASSUME NEW m \in Nat, m \in E PROVE m + 1 \in E
  <2>1. PICK f : Seen(q, w, f, m)
    BY <1>2, Zenon
  <2> DEFINE v == IF q[m + 1] = w THEN f[m] ELSE Append(f[m], q[m + 1])
             g == [n \in 0 .. m + 1 |-> IF n = m + 1 THEN v ELSE f[n]]
  <2>2. g[m + 1] = v /\ \A n \in 0 .. m : g[n] = f[n]
    OBVIOUS
  <2>3. \A n \in 0 .. m : f[n] = IF n = 0 THEN <<>>
                                 ELSE IF q[n] = w THEN f[n - 1]
                                 ELSE Append(f[n - 1], q[n])
    BY <2>1, Zenon DEF Seen
  <2>4. \A n \in 0 .. m + 1 : g[n] = IF n = 0 THEN <<>>
                                     ELSE IF q[n] = w THEN g[n - 1]
                                     ELSE Append(g[n - 1], q[n])
    <3> SUFFICES ASSUME NEW n \in 0 .. m + 1
                 PROVE  g[n] = IF n = 0 THEN <<>>
                               ELSE IF q[n] = w THEN g[n - 1]
                               ELSE Append(g[n - 1], q[n])
      BY Zenon
    <3> HIDE DEF g
    <3>1. CASE n = m + 1
      BY <2>2, <3>1
    <3>2. CASE n \in 0 .. m
      <4>1. n # 0 => g[n - 1] = f[n - 1]
        BY <2>2, <3>2
      <4> QED BY <2>2, <2>3, <3>2, <4>1, Zenon
    <3> QED BY <3>1, <3>2
  <2>5. g = [n \in 0 .. m + 1 |-> g[n]]
    BY Zenon
  <2> HIDE DEF g
  <2>6. Seen(q, w, g, m + 1)
    BY <2>4, <2>5, Zenon DEF Seen
  <2> QED BY <2>6
<1> HIDE DEF E
<1>3. Nat \subseteq E
  BY <1>1, <1>2, Induction, Zenon
<1> QED BY <1>3 DEF E

(* Retain is the last value of that function.                               *)
LEMMA RetainSeen ==
  ASSUME NEW S, NEW q \in Seq(S), NEW w
  PROVE  \E f : Seen(q, w, f, Len(q)) /\ Retain(q, w) = f[Len(q)]
<1> DEFINE kept == CHOOSE f : Seen(q, w, f, Len(q))
<1>1. Seen(q, w, kept, Len(q))
  BY SeenExists, Zenon
<1>2. Retain(q, w) = kept[Len(q)]
  BY Zenon DEF Retain, Seen
<1> QED BY <1>1, <1>2, Zenon
(* r holds the first m entries of q other than w, each once unless in C.    *)
Kept(q, w, C, m, r) ==
    /\ \A i \in DOMAIN r : \E k \in 1 .. m : r[i] = q[k]
    /\ \A k \in 1 .. m : q[k] # w => \E i \in DOMAIN r : r[i] = q[k]
    /\ \A i, j \in DOMAIN r : r[i] = r[j] => i = j \/ r[i] \in C

(* One more entry of the deque.                                             *)
LEMMA KeptOneMore ==
  ASSUME NEW S, NEW C, NEW q \in Seq(S), NEW w,
         \A i, j \in DOMAIN q : q[i] = q[j] => i = j \/ q[i] \in C,
         NEW m \in Nat, m + 1 <= Len(q), NEW r \in Seq(S), Kept(q, w, C, m, r), q[m + 1] # w
  PROVE  Append(r, q[m + 1]) \in Seq(S) /\ Kept(q, w, C, m + 1, Append(r, q[m + 1]))
<1> DEFINE e == q[m + 1]
           t == Append(r, e)
<1>1. /\ m + 1 \in DOMAIN q /\ e \in S /\ \A k \in 1 .. m : k \in DOMAIN q /\ k # m + 1
      /\ \A k \in 1 .. m + 1 : k \in 1 .. m \/ k = m + 1
  OBVIOUS
<1>2. /\ t \in Seq(S) /\ Len(r) \in Nat
      /\ DOMAIN r = 1 .. Len(r) /\ DOMAIN t = 1 .. Len(r) + 1
      /\ t[Len(r) + 1] = e
      /\ \A i \in 1 .. Len(r) : t[i] = r[i]
  BY <1>1
<1>3. \A i \in DOMAIN r : i \in DOMAIN t /\ i # Len(r) + 1 /\ t[i] = r[i]
  BY <1>2
<1>4. \A i \in DOMAIN t : i \in DOMAIN r \/ i = Len(r) + 1
  BY <1>2
<1>5. Len(r) + 1 \in DOMAIN t
  BY <1>2
<1>6. t[Len(r) + 1] = e
  BY <1>2, Zenon
<1> HIDE DEF t
<1>7. \A i \in DOMAIN t : \E k \in 1 .. m + 1 : t[i] = q[k]
  BY <1>3, <1>4, <1>6 DEF Kept
<1>8. \A k \in 1 .. m + 1 : q[k] # w => \E i \in DOMAIN t : t[i] = q[k]
  BY <1>1, <1>3, <1>5, <1>6, Zenon DEF Kept
<1>9. \A i \in DOMAIN r : r[i] = e => e \in C
  BY <1>1, Zenon DEF Kept
<1>10. \A i, j \in DOMAIN t : t[i] = t[j] => i = j \/ t[i] \in C
  BY <1>3, <1>4, <1>6, <1>9, Zenon DEF Kept
<1>11. Kept(q, w, C, m + 1, t)
  BY <1>7, <1>8, <1>10, Zenon DEF Kept
<1> QED BY <1>2, <1>11, Zenon DEF t

(* retain drops the entries of its work and no other.                       *)
LEMMA RetainKeeps ==
  ASSUME NEW S, NEW C, NEW q \in Seq(S), NEW w,
         \A i, j \in DOMAIN q : q[i] = q[j] => i = j \/ q[i] \in C
  PROVE  Retain(q, w) \in Seq(S) /\ Kept(q, w, C, Len(q), Retain(q, w))
<1>1. PICK f : Seen(q, w, f, Len(q)) /\ Retain(q, w) = f[Len(q)]
  BY RetainSeen, Zenon
<1>2. /\ f[0] = <<>>
      /\ \A n \in 0 .. Len(q) : n # 0 => f[n] = IF q[n] = w THEN f[n - 1]
                                                ELSE Append(f[n - 1], q[n])
  <2>1. \A n \in 0 .. Len(q) : f[n] = IF n = 0 THEN <<>>
                                      ELSE IF q[n] = w THEN f[n - 1]
                                      ELSE Append(f[n - 1], q[n])
    BY <1>1, Zenon DEF Seen
  <2>2. Len(q) \in Nat /\ 0 \in 0 .. Len(q)
    OBVIOUS
  <2> QED BY <2>1, <2>2, Zenon
<1> DEFINE G == {m \in Nat : m <= Len(q) => f[m] \in Seq(S) /\ Kept(q, w, C, m, f[m])}
<1>3. 0 \in G
  <2>1. <<>> \in Seq(S) /\ DOMAIN <<>> = {} /\ 1 .. 0 = {}
    OBVIOUS
  <2>2. Kept(q, w, C, 0, <<>>)
    BY <2>1, Zenon DEF Kept
  <2> QED BY <1>2, <2>1, <2>2, Zenon
<1>4. ASSUME NEW m \in Nat, m \in G PROVE m + 1 \in G
  <2> SUFFICES ASSUME m + 1 <= Len(q)
               PROVE  f[m + 1] \in Seq(S) /\ Kept(q, w, C, m + 1, f[m + 1])
    OBVIOUS
  <2>1. f[m] \in Seq(S) /\ Kept(q, w, C, m, f[m])
    BY <1>4
  <2>2. f[m + 1] = IF q[m + 1] = w THEN f[m] ELSE Append(f[m], q[m + 1])
    BY <1>2
  <2>3. CASE q[m + 1] = w
    <3>1. \A k \in 1 .. m : k \in 1 .. m + 1
      OBVIOUS
    <3>2. \A k \in 1 .. m + 1 : k \in 1 .. m \/ k = m + 1
      OBVIOUS
    <3>3. Kept(q, w, C, m + 1, f[m])
      BY <2>1, <2>3, <3>1, <3>2, Zenon DEF Kept
    <3> QED BY <2>1, <2>2, <2>3, <3>3, Zenon
  <2>4. CASE q[m + 1] # w
    <3>1. Append(f[m], q[m + 1]) \in Seq(S) /\ Kept(q, w, C, m + 1, Append(f[m], q[m + 1]))
      BY <2>1, <2>4, KeptOneMore, Zenon
    <3> QED BY <2>2, <2>4, <3>1, Zenon
  <2> QED BY <2>3, <2>4, Zenon
<1> HIDE DEF G
<1>5. Nat \subseteq G
  BY <1>3, <1>4, Induction, Zenon
<1>6. Len(q) \in Nat /\ Len(q) \in G
  BY <1>5
<1> QED BY <1>1, <1>6 DEF G
-----------------------------------------------------------------------------
(* An update of wpc at one thread.                                          *)
LEMMA WorkGotoFacts ==
  ASSUME wpc \in [Threads -> WorkPcValues], NEW p \in Threads, NEW l \in WorkPcValues, WorkGoto(p, l)
  PROVE  /\ wpc' \in [Threads -> WorkPcValues]
         /\ wpc'[p] = l
         /\ \A q \in Threads : q # p => wpc'[q] = wpc[q]
BY Zenon DEF WorkGoto

(* The runner is a thread of its own.                                       *)
LEMMA RunnerIsThread ==
  /\ Runner \in Threads /\ Runner \notin Callers /\ Callers \subseteq Threads
  /\ Cancellers \subseteq Callers /\ Cancellable \subseteq Works
BY CallersAssumption, Zenon DEF Threads

(* push_back of a work that is not in the deque, or may be cancelled.       *)
LEMMA DequePush ==
  ASSUME NEW w \in Works, w \notin Cancellable => w \notin Deque, PENDING \in Seq(Works),
         DequeDistinct, PENDING' = Append(PENDING, w)
  PROVE  PENDING' \in Seq(Works) /\ Deque' = Deque \cup {w} /\ DequeDistinct'
<1> DEFINE q == PENDING
           r == Append(q, w)
<1>1. /\ r \in Seq(Works) /\ Len(q) \in Nat
      /\ DOMAIN q = 1 .. Len(q) /\ DOMAIN r = 1 .. Len(q) + 1
      /\ \A i \in 1 .. Len(q) : r[i] = q[i]
      /\ r[Len(q) + 1] = w
  OBVIOUS
<1> HIDE DEF r
<1>2. {r[i] : i \in DOMAIN r} = {q[i] : i \in DOMAIN q} \cup {w}
  BY <1>1
<1>3. w \notin Cancellable => \A i \in DOMAIN q : q[i] # w
  BY Zenon DEF Deque
<1>4. \A i \in DOMAIN r : i \in DOMAIN q \/ i = Len(q) + 1
  BY <1>1
<1>5. \A i, j \in DOMAIN r : r[i] = r[j] => i = j \/ r[i] \in Cancellable
  BY <1>1, <1>3, <1>4, Zenon DEF DequeDistinct
<1>6. PENDING' = r
  BY Zenon DEF r
<1> QED BY <1>1, <1>2, <1>5, <1>6 DEF Deque, DequeDistinct

(* pop_front takes the head, which stays in the deque only if it may be     *)
(* cancelled.                                                               *)
LEMMA DequePop ==
  ASSUME PENDING \in Seq(Works), PENDING # <<>>, DequeDistinct, PENDING' = Tail(PENDING)
  PROVE  /\ PENDING' \in Seq(Works) /\ Head(PENDING) \in Works
         /\ Deque = Deque' \cup {Head(PENDING)}
         /\ Head(PENDING) \notin Cancellable => Head(PENDING) \notin Deque'
         /\ DequeDistinct'
<1> DEFINE q == PENDING
           r == Tail(q)
<1>1. /\ r \in Seq(Works)
      /\ DOMAIN q = 1 .. Len(q) /\ Len(q) \in Nat /\ Len(q) > 0
      /\ DOMAIN r = 1 .. Len(q) - 1
      /\ \A i \in 1 .. Len(q) - 1 : r[i] = q[i + 1]
      /\ Head(q) = q[1] /\ q[1] \in Works
  OBVIOUS
<1> HIDE DEF r
<1>2. \A i \in DOMAIN r : i \in Int /\ i + 1 \in DOMAIN q /\ i + 1 # 1 /\ r[i] = q[i + 1]
  BY <1>1
<1>3. \A i \in DOMAIN q : i # 1 => i - 1 \in DOMAIN r /\ r[i - 1] = q[i]
  BY <1>1
<1>4. 1 \in DOMAIN q /\ Head(q) = q[1]
  BY <1>1
<1>5. \A i, j \in DOMAIN q : q[i] = q[j] => i = j \/ q[i] \in Cancellable
  BY Zenon DEF DequeDistinct
<1>6. {q[i] : i \in DOMAIN q} = {r[i] : i \in DOMAIN r} \cup {Head(q)}
  <2>1. \A i \in DOMAIN q : q[i] \in {r[k] : k \in DOMAIN r} \cup {Head(q)}
    BY <1>3, <1>4, Zenon
  <2>2. \A i \in DOMAIN r : r[i] \in {q[k] : k \in DOMAIN q}
    BY <1>2, Zenon
  <2> QED BY <1>4, <2>1, <2>2, Zenon
<1>7. Head(q) \notin Cancellable => \A i \in DOMAIN r : r[i] # Head(q)
  BY <1>2, <1>4, <1>5, Zenon
<1>8. \A i, j \in DOMAIN r : r[i] = r[j] => i = j \/ r[i] \in Cancellable
  <2> SUFFICES ASSUME NEW i \in DOMAIN r, NEW j \in DOMAIN r, r[i] = r[j], r[i] \notin Cancellable
               PROVE  i = j
    BY Zenon
  <2>1. i + 1 = j + 1
    BY <1>2, <1>5, Zenon
  <2> QED BY <1>2, <2>1
<1>9. PENDING' = r
  BY Zenon DEF r
<1> QED BY <1>1, <1>6, <1>7, <1>8, <1>9, Zenon DEF Deque, DequeDistinct

(* retain of cancel_work.                                                   *)
LEMMA DequeRetain ==
  ASSUME NEW w, PENDING \in Seq(Works), DequeDistinct, PENDING' = Retain(PENDING, w)
  PROVE  /\ PENDING' \in Seq(Works) /\ DequeDistinct'
         /\ Deque' \subseteq Deque /\ \A v \in Deque : v # w => v \in Deque'
<1> DEFINE q == PENDING
           r == Retain(q, w)
<1>1. r \in Seq(Works) /\ Kept(q, w, Cancellable, Len(q), r)
  BY RetainKeeps, Zenon DEF DequeDistinct
<1>2. DOMAIN q = 1 .. Len(q)
  OBVIOUS
<1>3. PENDING' = r
  BY Zenon
<1> HIDE DEF r
<1>4. DequeDistinct'
  BY <1>1, <1>3, Zenon DEF DequeDistinct, Kept
<1>5. Deque = {q[i] : i \in DOMAIN q} /\ Deque' = {r[i] : i \in DOMAIN r}
  BY <1>3, Zenon DEF Deque
<1>6. \A i \in DOMAIN r : \E k \in DOMAIN q : r[i] = q[k]
  BY <1>1, <1>2, Zenon DEF Kept
<1>7. \A k \in DOMAIN q : q[k] # w => \E i \in DOMAIN r : r[i] = q[k]
  BY <1>1, <1>2, Zenon DEF Kept
<1>8. Deque' \subseteq Deque /\ \A v \in Deque : v # w => v \in Deque'
  BY <1>5, <1>6, <1>7, Zenon
<1> QED BY <1>1, <1>3, <1>4, <1>8, Zenon
-----------------------------------------------------------------------------
(* What every step keeps.                                                   *)
Keeps ==
    /\ WorkIInv'
    /\ OneCanceller /\ SInv => SInv'

(* A step after which the same works are in the same places.                *)
SamePlaces ==
    /\ UNCHANGED PENDING
    /\ \A q \in Callers : Pushing(q)' <=> Pushing(q)
    /\ \A q \in Callers : Pushing(q) => work'[q] = work[q]
    /\ Popped' <=> Popped
    /\ Popped => work'[Runner] = work[Runner]

(* Then the works are as far apart as they were.                            *)
LEMMA PlacesKept ==
  ASSUME SamePlaces
  PROVE  /\ Deque' = Deque
         /\ DequeDistinct => DequeDistinct'
         /\ PushersApart => PushersApart'
         /\ PoppedApart => PoppedApart'
         /\ \A v : Placed(v)' <=> Placed(v)
<1>1. Deque' = Deque /\ (DequeDistinct => DequeDistinct')
  BY Zenon DEF SamePlaces, Deque, DequeDistinct
<1>2. (PushersApart => PushersApart') /\ (PoppedApart => PoppedApart')
  BY <1>1, Zenon DEF SamePlaces, PushersApart, PoppedApart
<1>3. \A v : Placed(v)' <=> Placed(v)
  BY <1>1, Zenon DEF SamePlaces, Placed
<1> QED BY <1>1, <1>2, <1>3, Zenon

(* Such a step keeps the rest when the states of the works do not change,   *)
(* or one that can be cancelled goes back to IDLE.                          *)
LEMMA QuietKeeps ==
  ASSUME WorkIInv, SamePlaces, WorkTypeOK', WorkPcShape', WorkSet', RunningIsBody',
         \A v \in Works : \/ state'[v] = state[v]
                          \/ v \in Cancellable /\ state'[v] # "PENDING",
         \A p \in Callers : Cancelling(p)' =>
            \/ Cancelling(p) /\ work'[p] = work[p]
            \/ state'[work'[p]] # "PENDING"
  PROVE  Keeps
<1> USE DEF WorkIInv
<1>1. /\ DequeDistinct' /\ PushersApart' /\ PoppedApart'
      /\ \A v \in Works : Placed(v)' <=> Placed(v)
  BY PlacesKept, Zenon
<1>2. PendingPlaced'
  BY <1>1, Zenon DEF PendingPlaced
<1>3. ASSUME SInv PROVE CancelledIdle' /\ AllPlaced'
  <2>1. AllPlaced'
    BY <1>1, <1>3, Zenon DEF AllPlaced, SInv
  <2>2. CancelledIdle'
    <3> SUFFICES ASSUME NEW p \in Callers, Cancelling(p)' PROVE state'[work'[p]] # "PENDING"
      BY Zenon DEF CancelledIdle
    <3>1. CASE Cancelling(p) /\ work'[p] = work[p]
      <4>1. work[p] \in Works /\ state[work[p]] # "PENDING"
        BY <1>3, <3>1, RunnerIsThread, Zenon DEF SInv, CancelledIdle, WorkSet
      <4> QED BY <3>1, <4>1, Zenon
    <3> QED BY <3>1, Zenon
  <2> QED BY <2>1, <2>2, Zenon
<1> QED BY <1>1, <1>2, <1>3, Zenon DEF Keeps, SInv

(* PENDING.lock() of any of the callers.                                    *)
LEMMA LockKeeps ==
  ASSUME WorkIInv, NEW p \in Threads, LockStep(p) \/ (p = Runner /\ DrainLock)
  PROVE  Keeps
<1> USE DEF WorkIInv
<1>1. /\ holder' = p
      /\ UNCHANGED <<state, PENDING, work, sync>>
      /\ \/ p = Runner /\ wpc[p] = "r_lock" /\ WorkGoto(p, "r_pop")
         \/ p \in Callers /\ p # Runner /\ wpc[p] = "q_lock" /\ WorkGoto(p, "q_push")
         \/ p \in Callers /\ p # Runner /\ wpc[p] = "c_lock" /\ WorkGoto(p, "c_retain")
  BY RunnerIsThread, Zenon DEF LockStep, QueueLock, CancelLock, DrainLock, Lock, WorkAt, WorkPcShape, Threads
<1>2. /\ wpc' \in [Threads -> WorkPcValues]
      /\ \A q \in Threads : q # p => wpc'[q] = wpc[q]
      /\ p = Runner => wpc'[p] = "r_pop"
      /\ p # Runner /\ wpc[p] = "q_lock" => wpc'[p] = "q_push"
      /\ p # Runner /\ wpc[p] # "q_lock" => wpc[p] = "c_lock" /\ wpc'[p] = "c_retain"
  BY <1>1, WorkGotoFacts, Zenon DEF WorkTypeOK, WorkPcValues
<1>3. WorkTypeOK'
  BY <1>1, <1>2, Zenon DEF WorkTypeOK
<1>4. /\ \A q \in Callers : Pushing(q)' <=> Pushing(q)
      /\ \A q \in Callers : Cancelling(q)' <=> Cancelling(q)
      /\ Popped' <=> Popped
      /\ wpc'[Runner] = "body" <=> wpc[Runner] = "body"
  BY <1>1, <1>2, RunnerIsThread, Zenon DEF Pushing, Cancelling, Popped
<1>5. WorkPcShape' /\ WorkSet'
  <2>1. wpc'[Runner] \in {"r_lock", "r_pop", "r_start", "body"}
    BY <1>1, <1>2, RunnerIsThread, Zenon DEF WorkPcShape
  <2>2. ASSUME NEW q \in Callers
        PROVE  wpc'[q] \in {"idle", "q_lock", "q_push", "c_lock", "c_retain", "s_spin", "s_ret"}
    <3>1. CASE q # p
      BY <1>2, <3>1, RunnerIsThread, Zenon DEF WorkPcShape
    <3>2. CASE q = p
      BY <1>2, <3>2, RunnerIsThread, Zenon
    <3> QED BY <3>1, <3>2, Zenon
  <2>3. wpc'[Runner] \in {"r_start", "body"} => wpc[Runner] \in {"r_start", "body"}
    BY <1>4, Zenon DEF Popped
  <2>4. \A q \in Callers : wpc'[q] # "idle" => wpc[q] # "idle"
    BY <1>1, <1>2, RunnerIsThread, Zenon
  <2>5. WorkPcShape'
    BY <2>1, <2>2, Zenon DEF WorkPcShape
  <2>6. WorkSet'
    BY <1>1, <1>4, <2>3, <2>4, Zenon DEF WorkSet
  <2> QED BY <2>5, <2>6, Zenon
<1>6. RunningIsBody'
  BY <1>1, <1>4, Zenon DEF RunningIsBody
<1>7. SamePlaces
  BY <1>1, <1>4, Zenon DEF SamePlaces
<1> QED BY <1>1, <1>3, <1>4, <1>5, <1>6, <1>7, QuietKeeps, Zenon

(* queue_work that finds the work PENDING or RUNNING, a body's own work     *)
(* included.                                                                *)
LEMMA QueueRefusedKeeps ==
  ASSUME WorkIInv, NEW p \in Threads, NEW w \in Works, QueueWork(p, w), state[w] # "IDLE",
         p = Runner => w = work[Runner]
  PROVE  Keeps
<1> USE DEF WorkIInv
<1>1. /\ wpc[p] = Home(p)
      /\ work' = [work EXCEPT ![p] = w]
      /\ UNCHANGED <<PENDING, holder, sync, state, wpc>>
  BY Zenon DEF QueueWork, WorkAt
<1>2. /\ work'[Runner] = work[Runner]
      /\ \A q \in Callers : wpc[q] # "idle" => work'[q] = work[q]
  BY <1>1, RunnerIsThread, Zenon DEF WorkTypeOK, Home
<1>3. WorkTypeOK'
  BY <1>1, Zenon DEF WorkTypeOK
<1>4. WorkPcShape' /\ WorkSet'
  BY <1>1, <1>2, Zenon DEF WorkPcShape, WorkSet, Cancelling
<1>5. RunningIsBody'
  BY <1>1, <1>2, Zenon DEF RunningIsBody
<1>6. /\ SamePlaces
      /\ \A q \in Callers : Cancelling(q)' => Cancelling(q) /\ work'[q] = work[q]
  BY <1>1, <1>2, Zenon DEF SamePlaces, Pushing, Cancelling, Popped
<1> QED BY <1>1, <1>3, <1>4, <1>5, <1>6, QuietKeeps, Zenon
(* cancel_work before its retain, when it finds the work PENDING and when   *)
(* it does not.                                                             *)
LEMMA CancelKeeps ==
  ASSUME WorkIInv, NEW p \in Cancellers, NEW w \in Cancellable, NEW s \in BOOLEAN, CancelWork(p, w, s)
  PROVE  Keeps
<1> USE DEF WorkIInv
<1>1. PICK l \in {"c_lock", "s_spin", "idle"} :
        /\ wpc[p] = "idle" /\ WorkGoto(p, l)
        /\ work' = [work EXCEPT ![p] = w]
        /\ sync' = [sync EXCEPT ![p] = s]
        /\ UNCHANGED <<PENDING, holder>>
        /\ \/ state[w] = "PENDING" /\ state' = [state EXCEPT ![w] = "IDLE"]
           \/ state[w] # "PENDING" /\ UNCHANGED state /\ l # "c_lock"
  BY Zenon DEF CancelWork, WorkAt
<1>2. p \in Callers /\ p \in Threads /\ p # Runner /\ w \in Works
  BY RunnerIsThread, Zenon
<1>3. /\ wpc' \in [Threads -> WorkPcValues] /\ wpc'[p] = l
      /\ \A q \in Threads : q # p => wpc'[q] = wpc[q]
  BY <1>1, <1>2, WorkGotoFacts, Zenon DEF WorkTypeOK, WorkPcValues
<1>4. /\ work' \in [Threads -> Works \cup {NoOne}] /\ work'[p] = w
      /\ \A q \in Threads : q # p => work'[q] = work[q]
  BY <1>1, <1>2, Zenon DEF WorkTypeOK
<1>5. /\ state' \in [Works -> STATES]
      /\ \A v \in Works : v # w => state'[v] = state[v]
      /\ state'[w] = state[w] \/ (state'[w] = "IDLE" /\ state[w] = "PENDING")
      /\ l = "c_lock" => state'[w] = "IDLE"
  BY <1>1, <1>2, Zenon DEF WorkTypeOK, STATES
<1>6. sync' \in [Callers -> BOOLEAN]
  BY <1>1, <1>2, Zenon DEF WorkTypeOK
<1>7. WorkTypeOK'
  BY <1>1, <1>3, <1>4, <1>5, <1>6, Zenon DEF WorkTypeOK
<1>8. WorkPcShape'
  BY <1>2, <1>3, RunnerIsThread, Zenon DEF WorkPcShape
<1>9. WorkSet'
  BY <1>2, <1>3, <1>4, RunnerIsThread, Zenon DEF WorkSet, Cancelling
<1>10. wpc'[Runner] = wpc[Runner] /\ work'[Runner] = work[Runner]
  BY <1>2, <1>3, <1>4, RunnerIsThread, Zenon
<1>11. RunningIsBody'
  BY <1>2, <1>5, <1>10, Zenon DEF RunningIsBody
<1>12. SamePlaces
  BY <1>1, <1>2, <1>3, <1>4, <1>10, RunnerIsThread, Zenon DEF SamePlaces, Pushing, Popped
<1>13. \A q \in Callers : Cancelling(q)' =>
         \/ Cancelling(q) /\ work'[q] = work[q]
         \/ state'[work'[q]] # "PENDING"
  BY <1>2, <1>3, <1>4, <1>5, RunnerIsThread, Zenon DEF Cancelling
<1>14. \A v \in Works : state'[v] = state[v] \/ (v \in Cancellable /\ state'[v] # "PENDING")
  BY <1>5, Zenon
<1> QED BY <1>7, <1>8, <1>9, <1>11, <1>12, <1>13, <1>14, QuietKeeps, Zenon

(* The loop of cancel_work_sync, and its return.                            *)
LEMMA SyncKeeps ==
  ASSUME WorkIInv, NEW p \in Threads, SyncSpin(p) \/ SyncReturn(p)
  PROVE  Keeps
<1> USE DEF WorkIInv
<1>1. PICK l \in {"s_ret", "idle"} :
        /\ wpc[p] \in {"s_spin", "s_ret"} /\ WorkGoto(p, l)
        /\ UNCHANGED <<state, PENDING, holder, work, sync>>
  BY Zenon DEF SyncSpin, SyncReturn, WorkAt
<1>2. p \in Callers /\ p # Runner
  BY <1>1, RunnerIsThread, Zenon DEF WorkPcShape, Threads
<1>3. /\ wpc' \in [Threads -> WorkPcValues] /\ wpc'[p] = l
      /\ \A q \in Threads : q # p => wpc'[q] = wpc[q]
  BY <1>1, WorkGotoFacts, Zenon DEF WorkTypeOK, WorkPcValues
<1>4. WorkTypeOK'
  BY <1>1, <1>3, Zenon DEF WorkTypeOK
<1>5. /\ \A q \in Callers : Pushing(q)' <=> Pushing(q)
      /\ \A q \in Callers : Cancelling(q)' <=> Cancelling(q)
      /\ wpc'[Runner] = wpc[Runner]
  BY <1>1, <1>2, <1>3, RunnerIsThread, Zenon DEF Pushing, Cancelling
<1>6. WorkPcShape' /\ WorkSet'
  BY <1>1, <1>2, <1>3, <1>5, RunnerIsThread, Zenon DEF WorkPcShape, WorkSet
<1>7. RunningIsBody'
  BY <1>1, <1>5, Zenon DEF RunningIsBody
<1>8. SamePlaces
  BY <1>1, <1>5, Zenon DEF SamePlaces, Popped
<1> QED BY <1>1, <1>4, <1>5, <1>6, <1>7, <1>8, QuietKeeps, Zenon

(* queue_work that finds the work IDLE: a work that is not cancelled was in *)
(* no place, and a cancelled one has no cancel_work before its retain.      *)
LEMMA QueueTakenKeeps ==
  ASSUME WorkIInv, NEW p \in Threads, NEW w \in Works, QueueWork(p, w), state[w] = "IDLE",
         p = Runner => w = work[Runner],
         p # Runner /\ w \in Cancellable => p \in Cancellers
  PROVE  Keeps
<1> USE DEF WorkIInv
<1>1. /\ wpc[p] = Home(p)
      /\ work' = [work EXCEPT ![p] = w]
      /\ UNCHANGED <<PENDING, holder, sync>>
      /\ state' = [state EXCEPT ![w] = "PENDING"]
      /\ WorkGoto(p, "q_lock")
  BY Zenon DEF QueueWork, WorkAt
<1>2. p \in Callers /\ p # Runner /\ wpc[p] = "idle"
  BY <1>1, RunnerIsThread, Zenon DEF RunningIsBody, Home, Threads
<1>3. /\ wpc' \in [Threads -> WorkPcValues] /\ wpc'[p] = "q_lock"
      /\ \A q \in Threads : q # p => wpc'[q] = wpc[q]
  BY <1>1, WorkGotoFacts, Zenon DEF WorkTypeOK, WorkPcValues
<1>4. /\ work'[p] = w
      /\ \A q \in Threads : q # p => work'[q] = work[q]
  BY <1>1, Zenon DEF WorkTypeOK
<1>5. /\ state'[w] = "PENDING"
      /\ \A v \in Works : v # w => state'[v] = state[v]
  BY <1>1, Zenon DEF WorkTypeOK
<1>6. WorkTypeOK'
  BY <1>1, <1>3, Zenon DEF WorkTypeOK, STATES
<1>7. WorkPcShape'
  BY <1>2, <1>3, RunnerIsThread, Zenon DEF WorkPcShape
<1>8. WorkSet'
  BY <1>2, <1>3, <1>4, RunnerIsThread, Zenon DEF WorkSet, Cancelling
<1>9. /\ Pushing(p)' /\ ~Pushing(p)
      /\ \A q \in Callers : q # p => (Pushing(q)' <=> Pushing(q)) /\ work'[q] = work[q]
      /\ Popped' <=> Popped
      /\ work'[Runner] = work[Runner] /\ wpc'[Runner] = wpc[Runner]
  BY <1>2, <1>3, <1>4, RunnerIsThread, Zenon DEF Pushing, Popped
<1>10. w \notin Cancellable => ~Placed(w)
  BY Zenon DEF PendingPlaced
<1>11. RunningIsBody'
  BY <1>5, <1>9, Zenon DEF RunningIsBody
<1>12. Deque' = Deque /\ DequeDistinct'
  BY <1>1, Zenon DEF Deque, DequeDistinct
<1>13. PushersApart'
  BY <1>2, <1>4, <1>9, <1>10, <1>12, Zenon DEF PushersApart, Placed
<1>14. PoppedApart'
  BY <1>9, <1>12, Zenon DEF PoppedApart
<1>15. ASSUME NEW v \in Works, v # w PROVE Placed(v)' <=> Placed(v)
  <2>1. ASSUME NEW q \in Callers PROVE Pushing(q)' /\ work'[q] = v <=> Pushing(q) /\ work[q] = v
    <3>1. CASE q = p
      BY <1>4, <1>9, <1>15, <3>1, Zenon
    <3>2. CASE q # p
      BY <1>9, <3>2, Zenon
    <3> QED BY <3>1, <3>2, Zenon
  <2> QED BY <1>9, <1>12, <2>1, Zenon DEF Placed
<1>16. Placed(w)'
  BY <1>2, <1>4, <1>9, Zenon DEF Placed
<1>17. PendingPlaced'
  BY <1>5, <1>15, <1>16, Zenon DEF PendingPlaced
<1>18. ASSUME SInv, OneCanceller PROVE CancelledIdle' /\ AllPlaced'
  <2>1. AllPlaced'
    BY <1>5, <1>15, <1>16, <1>18, Zenon DEF AllPlaced, SInv
  <2>2. ASSUME NEW q \in Callers, Cancelling(q)' PROVE state'[work'[q]] # "PENDING"
    <3>1. q # p /\ Cancelling(q) /\ work'[q] = work[q]
      BY <1>2, <1>3, <1>4, <2>2, RunnerIsThread, Zenon DEF Cancelling
    <3>2. work[q] \in Cancellable /\ q \in Cancellers /\ work[q] \in Works
      BY <3>1, RunnerIsThread, Zenon DEF WorkSet
    <3>3. work[q] # w
      BY <1>2, <1>18, <3>1, <3>2, Zenon DEF OneCanceller
    <3> QED BY <1>5, <1>18, <3>1, <3>2, <3>3, Zenon DEF SInv, CancelledIdle
  <2> QED BY <2>1, <2>2, Zenon DEF CancelledIdle
<1> QED BY <1>6, <1>7, <1>8, <1>11, <1>12, <1>13, <1>14, <1>17, <1>18, Zenon DEF Keeps, SInv
(* push_back: the work moves from the caller to the deque.                  *)
LEMMA PushKeeps ==
  ASSUME WorkIInv, NEW p \in Threads, QueuePush(p)
  PROVE  Keeps
<1> USE DEF WorkIInv
<1>1. /\ wpc[p] = "q_push"
      /\ PENDING' = Append(PENDING, work[p])
      /\ holder' = NoOne
      /\ WorkGoto(p, Home(p))
      /\ UNCHANGED <<state, work, sync>>
  BY Zenon DEF QueuePush, WorkAt
<1>2. p \in Callers /\ p # Runner /\ Home(p) = "idle" /\ work[p] \in Works
  BY <1>1, RunnerIsThread, Zenon DEF WorkPcShape, WorkSet, Home, Threads
<1>3. /\ wpc' \in [Threads -> WorkPcValues] /\ wpc'[p] = "idle"
      /\ \A q \in Threads : q # p => wpc'[q] = wpc[q]
  BY <1>1, <1>2, WorkGotoFacts, Zenon DEF WorkTypeOK, WorkPcValues
<1>4. /\ ~Pushing(p)' /\ Pushing(p)
      /\ \A q \in Callers : q # p => (Pushing(q)' <=> Pushing(q))
      /\ \A q \in Callers : Cancelling(q)' <=> Cancelling(q)
      /\ Popped' <=> Popped
      /\ wpc'[Runner] = wpc[Runner]
  BY <1>1, <1>2, <1>3, RunnerIsThread, Zenon DEF Pushing, Cancelling, Popped
<1>5. /\ PENDING' \in Seq(Works)
      /\ Deque' = Deque \cup {work[p]}
      /\ DequeDistinct'
  BY <1>1, <1>2, <1>4, DequePush, Zenon DEF PushersApart, WorkTypeOK
<1>6. WorkTypeOK'
  BY <1>1, <1>3, <1>5, Zenon DEF WorkTypeOK
<1>7. WorkPcShape' /\ WorkSet'
  BY <1>1, <1>2, <1>3, <1>4, RunnerIsThread, Zenon DEF WorkPcShape, WorkSet
<1>8. RunningIsBody'
  BY <1>1, <1>4, Zenon DEF RunningIsBody
<1>9. PushersApart'
  BY <1>1, <1>2, <1>4, <1>5, Zenon DEF PushersApart
<1>10. PoppedApart'
  BY <1>1, <1>2, <1>4, <1>5, Zenon DEF PoppedApart, PushersApart
<1>11. ASSUME NEW v \in Works PROVE Placed(v)' <=> Placed(v)
  BY <1>1, <1>2, <1>4, <1>5, Zenon DEF Placed
<1>12. PendingPlaced'
  BY <1>1, <1>11, Zenon DEF PendingPlaced
<1>13. SInv => CancelledIdle' /\ AllPlaced'
  BY <1>1, <1>4, <1>11, Zenon DEF SInv, CancelledIdle, AllPlaced
<1> QED BY <1>5, <1>6, <1>7, <1>8, <1>9, <1>10, <1>12, <1>13, Zenon DEF Keeps, SInv

(* retain: the entries of the cancelled work leave the deque.               *)
LEMMA CancelRetainKeeps ==
  ASSUME WorkIInv, NEW p \in Threads, CancelRetain(p)
  PROVE  Keeps
<1> USE DEF WorkIInv
<1>1. PICK l \in {"s_spin", "idle"} :
      /\ wpc[p] = "c_retain" /\ WorkGoto(p, l)
      /\ PENDING' = Retain(PENDING, work[p])
      /\ holder' = NoOne
      /\ UNCHANGED <<state, work, sync>>
  BY Zenon DEF CancelRetain, WorkAt
<1>2. p \in Callers /\ p # Runner /\ Cancelling(p) /\ work[p] \in Cancellable
  BY <1>1, RunnerIsThread, Zenon DEF WorkPcShape, WorkSet, Cancelling, Threads
<1>3. /\ wpc' \in [Threads -> WorkPcValues] /\ wpc'[p] = l
      /\ \A q \in Threads : q # p => wpc'[q] = wpc[q]
  BY <1>1, WorkGotoFacts, Zenon DEF WorkTypeOK, WorkPcValues
<1>4. /\ \A q \in Callers : Pushing(q)' <=> Pushing(q)
      /\ \A q \in Callers : Cancelling(q)' => Cancelling(q)
      /\ Popped' <=> Popped
      /\ wpc'[Runner] = wpc[Runner]
  BY <1>1, <1>2, <1>3, RunnerIsThread, Zenon DEF Pushing, Cancelling, Popped
<1>5. /\ PENDING' \in Seq(Works) /\ DequeDistinct'
      /\ Deque' \subseteq Deque
      /\ \A v \in Deque : v # work[p] => v \in Deque'
  BY <1>1, DequeRetain, Zenon DEF WorkTypeOK
<1>6. WorkTypeOK'
  BY <1>1, <1>3, <1>5, Zenon DEF WorkTypeOK
<1>7. WorkPcShape' /\ WorkSet'
  BY <1>1, <1>2, <1>3, <1>4, RunnerIsThread, Zenon DEF WorkPcShape, WorkSet
<1>8. RunningIsBody'
  BY <1>1, <1>4, Zenon DEF RunningIsBody
<1>9. PushersApart' /\ PoppedApart'
  BY <1>1, <1>4, <1>5, Zenon DEF PushersApart, PoppedApart
<1>10. ASSUME NEW v \in Works, v # work[p] PROVE Placed(v)' <=> Placed(v)
  BY <1>1, <1>4, <1>5, <1>10, Zenon DEF Placed
<1>11. PendingPlaced'
  BY <1>1, <1>2, <1>10, Zenon DEF PendingPlaced
<1>12. ASSUME SInv PROVE CancelledIdle' /\ AllPlaced'
  <2>1. state[work[p]] # "PENDING"
    BY <1>2, <1>12, Zenon DEF SInv, CancelledIdle
  <2> QED BY <1>1, <1>4, <1>10, <1>12, <2>1, Zenon DEF SInv, CancelledIdle, AllPlaced
<1> QED BY <1>5, <1>6, <1>7, <1>8, <1>9, <1>11, <1>12, Zenon DEF Keeps, SInv

(* pop_front: the head moves from the deque to the runner.                  *)
LEMMA PopKeeps == ASSUME WorkIInv, DrainPop PROVE Keeps
<1> USE DEF WorkIInv
<1>1. /\ wpc[Runner] = "r_pop" /\ holder' = NoOne
      /\ UNCHANGED <<state, sync>>
  BY Zenon DEF DrainPop, WorkAt
<1>2. CASE PENDING = <<>>
  <2>1. WorkGoto(Runner, "r_lock") /\ UNCHANGED <<PENDING, work>>
    BY <1>2, Zenon DEF DrainPop
  <2>2. /\ wpc' \in [Threads -> WorkPcValues] /\ wpc'[Runner] = "r_lock"
        /\ \A q \in Callers : wpc'[q] = wpc[q]
    BY <2>1, WorkGotoFacts, RunnerIsThread, Zenon DEF WorkTypeOK, WorkPcValues
  <2>3. WorkTypeOK'
    BY <1>1, <2>1, <2>2, Zenon DEF WorkTypeOK
  <2>4. WorkPcShape' /\ WorkSet' /\ RunningIsBody'
    BY <1>1, <2>1, <2>2, Zenon DEF WorkPcShape, WorkSet, Cancelling, RunningIsBody
  <2>5. /\ SamePlaces
        /\ \A q \in Callers : Cancelling(q)' <=> Cancelling(q)
    BY <1>1, <2>1, <2>2, Zenon DEF SamePlaces, Pushing, Cancelling, Popped
  <2> QED BY <1>1, <2>1, <2>3, <2>4, <2>5, QuietKeeps, Zenon
<1>3. CASE PENDING # <<>>
  <2> DEFINE h == Head(PENDING)
  <2>1. /\ PENDING' = Tail(PENDING)
        /\ work' = [work EXCEPT ![Runner] = h]
        /\ WorkGoto(Runner, "r_start")
    BY <1>3, Zenon DEF DrainPop
  <2>2. /\ wpc' \in [Threads -> WorkPcValues] /\ wpc'[Runner] = "r_start"
        /\ \A q \in Callers : wpc'[q] = wpc[q]
    BY <2>1, WorkGotoFacts, RunnerIsThread, Zenon DEF WorkTypeOK, WorkPcValues
  <2>3. /\ PENDING' \in Seq(Works) /\ h \in Works
        /\ Deque = Deque' \cup {h}
        /\ h \notin Cancellable => h \notin Deque'
        /\ DequeDistinct'
    BY <1>3, <2>1, DequePop, Zenon DEF WorkTypeOK
  <2> HIDE DEF h
  <2>4. /\ work'[Runner] = h
        /\ \A q \in Callers : work'[q] = work[q]
    BY <2>1, RunnerIsThread, Zenon DEF WorkTypeOK
  <2>5. WorkTypeOK'
    BY <1>1, <2>1, <2>2, <2>3, Zenon DEF WorkTypeOK
  <2>6. WorkPcShape' /\ WorkSet' /\ RunningIsBody'
    BY <1>1, <2>2, <2>3, <2>4, Zenon DEF WorkPcShape, WorkSet, Cancelling, RunningIsBody
  <2>7. /\ \A q \in Callers : Pushing(q)' <=> Pushing(q)
        /\ \A q \in Callers : Cancelling(q)' <=> Cancelling(q)
        /\ Popped' /\ ~Popped
    BY <1>1, <2>2, Zenon DEF Pushing, Cancelling, Popped
  <2>8. PushersApart' /\ PoppedApart'
    BY <2>3, <2>4, <2>7, Zenon DEF PushersApart, PoppedApart
  <2>9. ASSUME NEW v \in Works PROVE Placed(v)' <=> Placed(v)
    BY <2>3, <2>4, <2>7, Zenon DEF Placed
  <2>10. PendingPlaced'
    BY <1>1, <2>9, Zenon DEF PendingPlaced
  <2>11. SInv => CancelledIdle' /\ AllPlaced'
    BY <1>1, <2>4, <2>7, <2>9, Zenon DEF SInv, CancelledIdle, AllPlaced
  <2> QED BY <2>3, <2>5, <2>6, <2>8, <2>10, <2>11, Zenon DEF Keeps, SInv
<1> QED BY <1>2, <1>3, Zenon
(* The store of RUNNING, and the store of IDLE after the body.              *)
LEMMA BodyKeeps == ASSUME WorkIInv, DrainStart \/ DrainEnd PROVE Keeps
<1> USE DEF WorkIInv
<1>1. PICK l \in {"body", "r_lock"}, v \in {"RUNNING", "IDLE"} :
        /\ l = "body" <=> v = "RUNNING"
        /\ wpc[Runner] = IF l = "body" THEN "r_start" ELSE "body"
        /\ state' = [state EXCEPT ![work[Runner]] = v]
        /\ WorkGoto(Runner, l)
        /\ UNCHANGED <<PENDING, holder, work, sync>>
  BY Zenon DEF DrainStart, DrainEnd, WorkAt, WorkTypeOK
<1>2. /\ wpc' \in [Threads -> WorkPcValues] /\ wpc'[Runner] = l
      /\ \A q \in Callers : wpc'[q] = wpc[q]
  BY <1>1, WorkGotoFacts, RunnerIsThread, Zenon DEF WorkTypeOK, WorkPcValues
<1>3. work[Runner] \in Works
  BY <1>1, Zenon DEF WorkSet
<1>4. /\ state'[work[Runner]] = v
      /\ \A w \in Works : w # work[Runner] => state'[w] = state[w]
  BY <1>1, <1>3, Zenon DEF WorkTypeOK
<1>5. WorkTypeOK'
  BY <1>1, <1>2, <1>3, Zenon DEF WorkTypeOK, STATES
<1>6. WorkPcShape' /\ WorkSet'
  BY <1>1, <1>2, <1>3, Zenon DEF WorkPcShape, WorkSet, Cancelling
<1>7. RunningIsBody'
  BY <1>1, <1>2, <1>4, Zenon DEF RunningIsBody
<1>8. Deque' = Deque /\ DequeDistinct'
  BY <1>1, Zenon DEF Deque, DequeDistinct
<1>9. /\ \A q \in Callers : Pushing(q)' <=> Pushing(q)
      /\ \A q \in Callers : Cancelling(q)' <=> Cancelling(q)
      /\ ~Popped' /\ (Popped <=> l = "body")
  BY <1>1, <1>2, Zenon DEF Pushing, Cancelling, Popped
<1>10. PushersApart' /\ PoppedApart'
  BY <1>1, <1>8, <1>9, Zenon DEF PushersApart, PoppedApart
<1>11. ASSUME NEW w \in Works, w # work[Runner] PROVE Placed(w)' <=> Placed(w)
  BY <1>1, <1>8, <1>9, <1>11, Zenon DEF Placed
<1>12. work[Runner] \notin Cancellable => ~Placed(work[Runner])'
  <2>1. CASE l = "body"
    BY <1>1, <1>8, <1>9, <2>1, Zenon DEF Placed, PoppedApart, PushersApart
  <2>2. CASE l = "r_lock"
    <3>1. state[work[Runner]] = "RUNNING"
      BY <1>1, <1>3, <2>2, Zenon DEF RunningIsBody
    <3>2. work[Runner] \notin Cancellable => ~Placed(work[Runner])
      BY <1>3, <3>1, Zenon DEF PendingPlaced
    <3> QED BY <1>1, <1>8, <1>9, <3>2, Zenon DEF Placed
  <2> QED BY <2>1, <2>2, Zenon
<1>13. PendingPlaced'
  BY <1>1, <1>3, <1>4, <1>11, <1>12, Zenon DEF PendingPlaced
<1>14. ASSUME SInv PROVE CancelledIdle' /\ AllPlaced'
  <2>1. AllPlaced'
    BY <1>3, <1>4, <1>11, <1>14, Zenon DEF SInv, AllPlaced
  <2>2. \A q \in Callers : Cancelling(q) => work[q] \in Works
    BY RunnerIsThread, Zenon DEF WorkSet
  <2>3. CancelledIdle'
    BY <1>1, <1>3, <1>4, <1>9, <1>14, <2>2, Zenon DEF SInv, CancelledIdle
  <2> QED BY <2>1, <2>3, Zenon
<1> QED BY <1>5, <1>6, <1>7, <1>8, <1>10, <1>13, <1>14, Zenon DEF Keeps, SInv

-----------------------------------------------------------------------------
(* INIT_WORK left every state IDLE, and the deque starts empty.             *)
LEMMA InitIInv == ASSUME WorkInit PROVE SInv
<1>1. WorkTypeOK
  BY CallersAssumption DEF WorkInit, WorkTypeOK, STATES, WorkPcValues, Threads
<1>2. wpc[Runner] = "r_lock" /\ \A p \in Callers : wpc[p] = "idle"
  BY CallersAssumption, Zenon DEF WorkInit, Threads
<1>3. WorkPcShape /\ WorkSet /\ \A p \in Callers : ~Cancelling(p)
  BY <1>2, Zenon DEF WorkPcShape, WorkSet, Cancelling
<1>4. RunningIsBody
  BY <1>2, Zenon DEF RunningIsBody, WorkInit
<1>5. Deque = {} /\ DequeDistinct
  BY DEF Deque, DequeDistinct, WorkInit
<1>6. PushersApart /\ PoppedApart
  BY <1>2, Zenon DEF PushersApart, PoppedApart, Pushing, Popped
<1>7. PendingPlaced /\ AllPlaced
  BY <1>2, <1>5, Zenon DEF PendingPlaced, AllPlaced, Placed, Pushing, Popped, WorkInit
<1>8. CancelledIdle
  BY <1>3, Zenon DEF CancelledIdle
<1> QED BY <1>1, <1>3, <1>4, <1>5, <1>6, <1>7, <1>8, Zenon DEF WorkIInv, SInv

(* Every step keeps the invariant.                                          *)
LEMMA NextKeeps == ASSUME WorkIInv, [WorkNext]_workVars PROVE Keeps
<1>1. CASE UNCHANGED workVars
  <2>1. UNCHANGED <<state, PENDING, holder, wpc, work, sync>>
    BY <1>1, Zenon DEF workVars
  <2>2. WorkTypeOK' /\ WorkPcShape' /\ WorkSet' /\ RunningIsBody'
    BY <2>1, Zenon DEF WorkIInv, WorkTypeOK, WorkPcShape, WorkSet, Cancelling, RunningIsBody
  <2>3. /\ SamePlaces
        /\ \A q \in Callers : Cancelling(q)' <=> Cancelling(q)
    BY <2>1, Zenon DEF SamePlaces, Pushing, Cancelling, Popped
  <2> QED BY <2>1, <2>2, <2>3, QuietKeeps, Zenon
<1>2. ASSUME NEW p \in Callers, Call(p) PROVE Keeps
  <2>1. CASE \E w \in Works : (w \in Cancellable => p \in Cancellers) /\ QueueWork(p, w)
    BY <2>1, RunnerIsThread, QueueRefusedKeeps, QueueTakenKeeps, Zenon
  <2>2. CASE p \in Cancellers /\ \E w \in Cancellable, s \in BOOLEAN : CancelWork(p, w, s)
    BY <2>2, CancelKeeps, Zenon
  <2> QED BY <1>2, <2>1, <2>2, Zenon DEF Call
<1>3. ASSUME NEW p \in Threads, LockStep(p) PROVE Keeps
  BY <1>3, LockKeeps, Zenon
<1>4. ASSUME NEW p \in Threads, CallStep(p) PROVE Keeps
  BY <1>4, PushKeeps, CancelRetainKeeps, SyncKeeps, Zenon DEF CallStep
<1>5. ASSUME RunnerStep PROVE Keeps
  <2>1. CASE DrainLock
    BY <2>1, RunnerIsThread, LockKeeps, Zenon
  <2>2. CASE DrainPop
    BY <2>2, PopKeeps, Zenon
  <2>3. CASE DrainStart \/ DrainEnd
    BY <2>3, BodyKeeps, Zenon
  <2>4. CASE QueueWork(Runner, work[Runner])
    <3>1. work[Runner] \in Works
      BY <2>4, Zenon DEF QueueWork, WorkAt, Home, WorkIInv, WorkSet
    <3> QED BY <2>4, <3>1, RunnerIsThread, QueueRefusedKeeps, QueueTakenKeeps, Zenon
  <2> QED BY <1>5, <2>1, <2>2, <2>3, <2>4, Zenon DEF RunnerStep
<1> QED BY <1>1, <1>2, <1>3, <1>4, <1>5, Zenon DEF WorkNext

(* The invariant holds in every reachable state, whoever cancels.           *)
THEOREM WorkqueueInvariant == WorkSpec => []WorkIInv
<1>1. WorkInit => WorkIInv
  BY InitIInv, Zenon DEF SInv
<1>2. WorkIInv /\ [WorkNext]_workVars => WorkIInv'
  BY NextKeeps, Zenon DEF Keeps
<1> QED BY <1>1, <1>2, PTL DEF WorkSpec

(* The queue keeps its types.                                               *)
THEOREM WorkqueueTypeCorrect == WorkSpec => []WorkTypeOK
<1>1. WorkIInv => WorkTypeOK
  BY Zenon DEF WorkIInv
<1> QED BY <1>1, WorkqueueInvariant, PTL

(* A work's state is RUNNING exactly while the runner executes its body, so *)
(* bodies of one work never overlap and cancel_work_sync waits for no other *)
(* time.                                                                    *)
THEOREM RunningExactlyInBody == WorkSpec => []RunningIsBody
<1>1. WorkIInv => RunningIsBody
  BY Zenon DEF WorkIInv
<1> QED BY <1>1, WorkqueueInvariant, PTL

(* The places of the inductive invariant are the tokens of QueuedOnce.      *)
LEMMA PlacesAreTokens == ASSUME WorkIInv, NEW w \in Works PROVE Placed(w) <=> Tokens(w) # {}
<1> USE DEF WorkIInv
<1>1. \A p \in Threads : Pushing(p) => p \in Callers
  BY Zenon DEF Pushing, WorkPcShape, Threads
<1>2. \A x : x \in Tokens(w) <=>
        \/ \E i \in DOMAIN PENDING : PENDING[i] = w /\ x = <<"deque", i>>
        \/ \E p \in Callers : Pushing(p) /\ work[p] = w /\ x = <<"push", p>>
        \/ Popped /\ work[Runner] = w /\ x = <<"popped", Runner>>
  BY <1>1, RunnerIsThread, Zenon DEF Tokens, Pushing, Popped
<1>3. w \in Deque <=> \E i \in DOMAIN PENDING : PENDING[i] = w
  BY Zenon DEF Deque
<1>4. ASSUME Placed(w) PROVE \E x : x \in Tokens(w)
  BY <1>2, <1>3, <1>4, Zenon DEF Placed
<1>5. ASSUME NEW x \in Tokens(w) PROVE Placed(w)
  BY <1>2, <1>3, Zenon DEF Placed
<1> QED BY <1>4, <1>5, Zenon

(* A work that is not cancelled has one of them.                            *)
LEMMA TokensAreOne ==
  ASSUME WorkIInv, NEW w \in Works \ Cancellable, NEW x \in Tokens(w), NEW y \in Tokens(w)
  PROVE  x = y
<1> USE DEF WorkIInv
<1>1. \A p \in Threads : Pushing(p) => p \in Callers
  BY Zenon DEF Pushing, WorkPcShape, Threads
<1>2. \A z \in {x, y} :
        \/ \E i \in DOMAIN PENDING : PENDING[i] = w /\ z = <<"deque", i>>
        \/ \E p \in Callers : Pushing(p) /\ work[p] = w /\ z = <<"push", p>>
        \/ Popped /\ work[Runner] = w /\ z = <<"popped", Runner>>
  BY <1>1, RunnerIsThread, Zenon DEF Tokens, Pushing, Popped
<1>3. \A i \in DOMAIN PENDING : PENDING[i] \in Deque
  BY Zenon DEF Deque
<1> QED BY <1>2, <1>3 DEF DequeDistinct, PushersApart, PoppedApart

(* queue_work and drain_one neither lose nor duplicate the works that are   *)
(* not cancelled, whatever tasks and interrupt handlers call queue_work and *)
(* whoever cancels others: retain drops no entry of theirs.                 *)
THEOREM WorkQueuedOnce == WorkSpec => []QueuedOnce
<1>1. WorkIInv => QueuedOnce
  BY PlacesAreTokens, TokensAreOne, Zenon DEF QueuedOnce, WorkIInv, PendingPlaced
<1> QED BY <1>1, WorkqueueInvariant, PTL

(* With one task that cancels, the works it cancels are not stranded        *)
(* either: while a state says PENDING, and queue_work refuses, the work is  *)
(* on its way to the runner.                                                *)
THEOREM WorkNeverStranded == OneCanceller => (WorkSpec => []NeverStranded)
<1> SUFFICES ASSUME OneCanceller PROVE WorkSpec => []NeverStranded
  BY Zenon
<1>1. WorkInit => SInv
  BY InitIInv, Zenon
<1>2. SInv /\ [WorkNext]_workVars => SInv'
  BY NextKeeps, Zenon DEF Keeps, SInv
<1>3. SInv => NeverStranded
  BY PlacesAreTokens, Zenon DEF SInv, AllPlaced, NeverStranded
<1> QED BY <1>1, <1>2, <1>3, PTL DEF WorkSpec
=============================================================================
