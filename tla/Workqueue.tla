----------------------------- MODULE Workqueue -----------------------------
(***************************************************************************)
(* The deferred-work queue of linuxkpi/src/workqueue.rs: queue_work,       *)
(* cancel_work, cancel_work_sync and drain_one, one step per access to a   *)
(* work's state byte or to the PENDING deque, with the single runner task  *)
(* of main.rs and work bodies that, like update_balloon_size_func of       *)
(* virtio_balloon.c, queue themselves again.                               *)
(*                                                                         *)
(* All callers share one CPU.  Tasks are preempted between any two steps,  *)
(* holding the mutex of PENDING included: it does not disable interrupts.  *)
(* Irq, when it is a caller, is an interrupt handler (config_changed of a  *)
(* virtio driver) and keeps the CPU until it returns.                      *)
(***************************************************************************)
EXTENDS Naturals, Sequences, FiniteSets

CONSTANTS Works,       \* the work_structs, after INIT_WORK
          Callers,     \* who calls queue_work
          Cancellers,  \* the callers that also cancel
          Cancellable, \* the works they cancel
          Irq,         \* the caller that is an interrupt handler, if it is one
          Runner,      \* the task workqueue_runner
          NoOne        \* nobody holds the mutex; no work

ASSUME CallersAssumption ==
    /\ Runner \notin Callers
    /\ NoOne \notin Callers \cup {Runner}
    /\ NoOne \notin Works
    /\ Cancellers \subseteq Callers \ {Irq}
    /\ Cancellable \subseteq Works

Threads == Callers \cup {Runner}
STATES == {"IDLE", "PENDING", "RUNNING"}

VARIABLES
    state,      \* WorkInner::state of each work
    PENDING,    \* the deque
    holder,     \* who holds its mutex
    wpc,         \* next step of each thread
    work,       \* the work of the call in progress; for Runner the popped one
    sync        \* whether the cancel in progress is cancel_work_sync

workVars == <<state, PENDING, holder, wpc, work, sync>>

WorkInit ==
    /\ state = [w \in Works |-> "IDLE"]
    /\ PENDING = <<>>
    /\ holder = NoOne
    /\ wpc = [p \in Threads |-> IF p = Runner THEN "r_lock" ELSE "idle"]
    /\ work = [p \in Threads |-> NoOne]
    /\ sync = [p \in Callers |-> FALSE]

OnCpu(p) == Irq \in Callers /\ wpc[Irq] # "idle" => p = Irq

WorkAt(p, l) == OnCpu(p) /\ wpc[p] = l
WorkGoto(p, l) == wpc' = [wpc EXCEPT ![p] = l]

(* PENDING.lock(), a spin lock.                                             *)
Lock(p, l, m) ==
    /\ WorkAt(p, l)
    /\ holder = NoOne
    /\ holder' = p
    /\ WorkGoto(p, m)
    /\ UNCHANGED <<state, PENDING, work, sync>>

-----------------------------------------------------------------------------
(* Where a call of queue_work comes from and returns to: an idle caller or, *)
(* on the runner, the body of a work.                                       *)
Home(p) == IF p = Runner THEN "body" ELSE "idle"

(* Mutant of QueueWork: a plain store instead of the compare_exchange.      *)
QueueWorkNoCas(p, w) ==
    /\ WorkAt(p, Home(p))
    /\ state' = [state EXCEPT ![w] = "PENDING"]
    /\ WorkGoto(p, "q_lock")
    /\ work' = [work EXCEPT ![p] = w]
    /\ UNCHANGED <<PENDING, holder, sync>>

(* queue_work: the compare_exchange from IDLE, or return false.             *)
QueueWork(p, w) ==
    /\ WorkAt(p, Home(p))
    /\ \/ /\ state[w] = "IDLE"
          /\ state' = [state EXCEPT ![w] = "PENDING"]
          /\ WorkGoto(p, "q_lock")
       \/ /\ state[w] # "IDLE"
          /\ UNCHANGED <<state, wpc>>
    /\ work' = [work EXCEPT ![p] = w]
    /\ UNCHANGED <<PENDING, holder, sync>>

QueueLock(p) == Lock(p, "q_lock", "q_push")

(* push_back, and the guard is dropped.                                     *)
QueuePush(p) ==
    /\ WorkAt(p, "q_push")
    /\ PENDING' = Append(PENDING, work[p])
    /\ holder' = NoOne
    /\ WorkGoto(p, Home(p))
    /\ UNCHANGED <<state, work, sync>>

-----------------------------------------------------------------------------
(* Mutant of CancelWork: a load instead of the compare_exchange.            *)
CancelWorkNoCas(p, w, s) ==
    /\ WorkAt(p, "idle")
    /\ \/ /\ state[w] = "PENDING"
          /\ WorkGoto(p, "c_lock")
       \/ /\ state[w] # "PENDING"
          /\ WorkGoto(p, IF s THEN "s_spin" ELSE "idle")
    /\ work' = [work EXCEPT ![p] = w]
    /\ sync' = [sync EXCEPT ![p] = s]
    /\ UNCHANGED <<state, PENDING, holder>>

(* cancel_work and, when s, cancel_work_sync: the compare_exchange from     *)
(* PENDING.  When it fails cancel_work returns false.                       *)
CancelWork(p, w, s) ==
    /\ WorkAt(p, "idle")
    /\ \/ /\ state[w] = "PENDING"
          /\ state' = [state EXCEPT ![w] = "IDLE"]
          /\ WorkGoto(p, "c_lock")
       \/ /\ state[w] # "PENDING"
          /\ WorkGoto(p, IF s THEN "s_spin" ELSE "idle")
          /\ UNCHANGED state
    /\ work' = [work EXCEPT ![p] = w]
    /\ sync' = [sync EXCEPT ![p] = s]
    /\ UNCHANGED <<PENDING, holder>>

CancelLock(p) == Lock(p, "c_lock", "c_retain")

(* What retain leaves of the deque q when it drops the entries of w.        *)
Retain(q, w) ==
    LET kept[n \in 0 .. Len(q)] ==
          IF n = 0 THEN <<>>
          ELSE IF q[n] = w THEN kept[n - 1]
          ELSE Append(kept[n - 1], q[n])
    IN  kept[Len(q)]

(* retain drops every entry of the work; cancel_work returns true.          *)
CancelRetain(p) ==
    /\ WorkAt(p, "c_retain")
    /\ PENDING' = Retain(PENDING, work[p])
    /\ holder' = NoOne
    /\ WorkGoto(p, IF sync[p] THEN "s_spin" ELSE "idle")
    /\ UNCHANGED <<state, work, sync>>

(* The loop of cancel_work_sync waits for the body to end.                  *)
SyncSpin(p) ==
    /\ WorkAt(p, "s_spin")
    /\ state[work[p]] # "RUNNING"
    /\ WorkGoto(p, "s_ret")
    /\ UNCHANGED <<state, PENDING, holder, work, sync>>

(* The second load, which only the result depends on.                       *)
SyncReturn(p) ==
    /\ WorkAt(p, "s_ret")
    /\ WorkGoto(p, "idle")
    /\ UNCHANGED <<state, PENDING, holder, work, sync>>

-----------------------------------------------------------------------------
(* drain_one in the loop of workqueue_runner, which yields and comes back   *)
(* when the deque was empty.                                                *)
DrainLock == Lock(Runner, "r_lock", "r_pop")

(* Mutant of DrainPop: the end that queue_work pushes to.                   *)
DrainPopBack ==
    /\ WorkAt(Runner, "r_pop")
    /\ holder' = NoOne
    /\ \/ /\ PENDING = <<>>
          /\ WorkGoto(Runner, "r_lock")
          /\ UNCHANGED <<PENDING, work>>
       \/ /\ PENDING # <<>>
          /\ PENDING' = SubSeq(PENDING, 1, Len(PENDING) - 1)
          /\ work' = [work EXCEPT ![Runner] = PENDING[Len(PENDING)]]
          /\ WorkGoto(Runner, "r_start")
    /\ UNCHANGED <<state, sync>>

DrainPop ==
    /\ WorkAt(Runner, "r_pop")
    /\ holder' = NoOne
    /\ \/ /\ PENDING = <<>>
          /\ WorkGoto(Runner, "r_lock")
          /\ UNCHANGED <<PENDING, work>>
       \/ /\ PENDING # <<>>
          /\ PENDING' = Tail(PENDING)
          /\ work' = [work EXCEPT ![Runner] = Head(PENDING)]
          /\ WorkGoto(Runner, "r_start")
    /\ UNCHANGED <<state, sync>>

(* The store of RUNNING, and the body begins.                               *)
DrainStart ==
    /\ WorkAt(Runner, "r_start")
    /\ state' = [state EXCEPT ![work[Runner]] = "RUNNING"]
    /\ WorkGoto(Runner, "body")
    /\ UNCHANGED <<PENDING, holder, work, sync>>

(* The body returns, and the store of IDLE.                                 *)
DrainEnd ==
    /\ WorkAt(Runner, "body")
    /\ state' = [state EXCEPT ![work[Runner]] = "IDLE"]
    /\ WorkGoto(Runner, "r_lock")
    /\ UNCHANGED <<PENDING, holder, work, sync>>

-----------------------------------------------------------------------------
(* A driver that cancels a work is also the one that queues it; the other   *)
(* works are queued by anybody.                                             *)
Call(p) ==
    \/ \E w \in Works : (w \in Cancellable => p \in Cancellers) /\ QueueWork(p, w)
    \/ p \in Cancellers /\ \E w \in Cancellable, s \in BOOLEAN : CancelWork(p, w, s)

(* A call in progress takes its next step.                                  *)
LockStep(p) == QueueLock(p) \/ CancelLock(p)
CallStep(p) == QueuePush(p) \/ CancelRetain(p) \/ SyncSpin(p) \/ SyncReturn(p)

(* The runner, with a body that queues its own work again or not.           *)
RunnerStep ==
    \/ DrainLock
    \/ DrainPop
    \/ DrainStart
    \/ QueueWork(Runner, work[Runner])
    \/ DrainEnd

WorkNext ==
    \/ \E p \in Callers : Call(p)
    \/ \E p \in Threads : LockStep(p) \/ CallStep(p)
    \/ RunnerStep

WorkSpec == WorkInit /\ [][WorkNext]_workVars

(* Tasks get the CPU again and again (ReadyRuns of Sched), bodies return,   *)
(* and a thread spinning on the mutex does not miss it for ever.            *)
WorkFairSpec ==
    /\ WorkSpec
    /\ WF_workVars(DrainPop \/ DrainStart) /\ WF_workVars(DrainEnd)
    /\ SF_workVars(DrainLock)
    /\ \A p \in Callers : SF_workVars(LockStep(p)) /\ WF_workVars(CallStep(p))

-----------------------------------------------------------------------------
WorkPcValues == {"idle", "q_lock", "q_push", "c_lock", "c_retain", "s_spin", "s_ret",
                 "r_lock", "r_pop", "r_start", "body"}

(* Every variable of the queue keeps its type.                              *)
WorkTypeOK ==
    /\ state \in [Works -> STATES]
    /\ PENDING \in Seq(Works)
    /\ holder \in Threads \cup {NoOne}
    /\ wpc \in [Threads -> WorkPcValues]
    /\ work \in [Threads -> Works \cup {NoOne}]
    /\ sync \in [Callers -> BOOLEAN]

(* The places that stand for a work that was queued and has not begun: an   *)
(* entry of the deque, a queue_work before its push_back, the runner        *)
(* between pop_front and the store of RUNNING.                              *)
Tokens(w) ==
    {<<"deque", i>> : i \in {j \in DOMAIN PENDING : PENDING[j] = w}}
    \cup {<<"push", p>> : p \in {q \in Threads :
                                   wpc[q] \in {"q_lock", "q_push"} /\ work[q] = w}}
    \cup {<<"popped", p>> : p \in {q \in {Runner} : wpc[q] = "r_start" /\ work[q] = w}}

(* queue_work and drain_one neither lose nor duplicate work: a work whose   *)
(* state is PENDING is in exactly one place on its way to the runner, and   *)
(* no other work is in any.  Works that are cancelled are excepted: the     *)
(* runner may already hold one whose state cancel_work puts back to IDLE.   *)
QueuedOnce ==
    \A w \in Works \ Cancellable :
        /\ state[w] = "PENDING" <=> Tokens(w) # {}
        /\ \A x, y \in Tokens(w) : x = y

(* No work is stranded: while its state says PENDING, and queue_work        *)
(* therefore refuses it, something is on its way to run it.                 *)
NeverStranded ==
    \A w \in Works : state[w] = "PENDING" => Tokens(w) # {}

(* RUNNING is stored exactly while the single runner executes the body, so  *)
(* the loop of cancel_work_sync waits for nothing else.                     *)
RunningIsBody ==
    \A w \in Works : state[w] = "RUNNING" <=> wpc[Runner] = "body" /\ work[Runner] = w

(* Queued work runs: a work that is PENDING begins its body or is cancelled. *)
QueuedRuns ==
    \A w \in Works : state[w] = "PENDING" ~> state[w] # "PENDING"

(* What the comment on the locks says of a handler that locks: it returns,  *)
(* because no path sleeps.                                                  *)
IrqReturns == wpc[Irq] # "idle" ~> wpc[Irq] = "idle"
=============================================================================
