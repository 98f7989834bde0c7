------------------------------ MODULE ModelWork ------------------------------
(***************************************************************************)
(* One round of iter_completed_with_deadlines over units of model work,    *)
(* next to callers of the model that run without a budget.                 *)
(*                                                                         *)
(* A unit runs on a pool thread under a ModelExecutionBudget whose parent  *)
(* is the budget of the round's own caller (Outer).  It passes the scopes  *)
(* of ModelRouter, infers, leaves the scopes and publishes its result      *)
(* under the publication locks of its budgets.  An inference may end at    *)
(* any time, fail, or never end.  The scheduler waits for completed units  *)
(* or for the first lease to run out; in the latter case, on an error it   *)
(* is not to isolate, or when its consumer closes it, it cancels what is   *)
(* active and returns without waiting for the threads.                     *)
(*                                                                         *)
(* Time is abstracted to which leases have run out.  Items arrive in       *)
(* order; a batch is reported in any order, since sort_key is the          *)
(* caller's.                                                               *)
(***************************************************************************)
EXTENDS ModelGate, SequencesExt

CONSTANTS
  Items,      \* the units of the round, in order
  Outer,      \* the budget of the caller of the round
  MaxWorkers, \* how wide a round may be
  Settings,   \* what may vary from round to round
  MaxRefresh  \* bound: how often a lease is renewed in all

ASSUME WorkAssumption ==
  /\ Items \in Seq(Budgeted) /\ IsInjective(Items) /\ ToSet(Items) = Budgeted
  /\ Outer \notin Thread
  /\ MaxWorkers \in Nat \ {0} /\ MaxRefresh \in Nat
  /\ Settings \subseteq
       [kind : [Thread -> {"text", "solo", "image", "upgrade", "nested"}],
        slots : 1 .. Slots, workers : 1 .. MaxWorkers, isolate : BOOLEAN]

VARIABLES
  kind,       \* how each thread uses the model
  at,         \* how many scopes of its program it is in
  mode,       \* what it does next
  late,       \* the units whose lease has run out
  refreshes,
  cancelled,  \* the budgets that are cancelled
  pubLock,    \* who holds the publication lock of each budget
  phase,      \* where the scheduler is
  workers,    \* how many units it keeps active
  isolate,    \* on_error is given
  queue,      \* the items not yet submitted
  active,     \* the units submitted and not yet reported
  batch,      \* the completed units being reported
  report,     \* what the consumer was told of each unit
  closed      \* the consumer closed the iterator at a yield

threadVars == <<kind, at, mode>>
budgetVars == <<late, refreshes, cancelled, pubLock>>
schedVars == <<phase, workers, isolate, queue, active, batch, report, closed>>
vars == <<lockVars, gateVars, threadVars, budgetVars, schedVars>>

Unit == Budgeted
Budget == Unit \cup {Outer}

\* The scopes each use of the model enters, outermost first.
Program(k) ==
  CASE k = "text"    -> <<"slot", "read">>
    [] k = "solo"    -> <<"write">>
    [] k = "image"   -> <<"write", "write">>
    [] k = "upgrade" -> <<"slot", "read", "write">>
    [] k = "nested"  -> <<"slot", "read", "slot", "read">>

Scopes(t) == Program(kind[t])

Settled == {"done", "failed", "dropped"}

TypeOK ==
  /\ GateTypeOK
  /\ kind \in [Thread -> {"text", "solo", "image", "upgrade", "nested"}]
  /\ at \in [Thread -> Nat] /\ \A t \in Thread : at[t] <= Len(Scopes(t))
  /\ mode \in [Thread -> {"item", "queued", "go", "wait", "infer", "leave", "back",
                          "publish", "own", "write"} \cup Settled]
  /\ late \subseteq Unit
  /\ refreshes \in 0 .. MaxRefresh
  /\ cancelled \subseteq Budget
  /\ pubLock \in [Budget -> Unit \cup {Null}]
  /\ phase \in {"fill", "wait", "woken", "reap", "cancel", "ended"}
  /\ workers \in 1 .. MaxWorkers /\ isolate \in BOOLEAN
  /\ queue \in Seq(Unit)
  /\ active \subseteq Unit /\ batch \subseteq active
  /\ Cardinality(active) <= workers
  /\ report \in [Unit -> {"none", "result", "error", "timeout"}]
  /\ closed \in BOOLEAN

Init ==
  /\ GateInit
  /\ \E s \in Settings :
       kind = s.kind /\ capacity = s.slots /\ workers = s.workers /\ isolate = s.isolate
  /\ at = [t \in Thread |-> 0]
  /\ mode = [t \in Thread |-> IF t \in Unit THEN "item" ELSE "go"]
  /\ late = {} /\ refreshes = 0 /\ cancelled = {}
  /\ pubLock = [b \in Budget |-> Null]
  /\ phase = "fill"
  /\ queue = Items /\ active = {} /\ batch = {}
  /\ report = [u \in Unit |-> "none"] /\ closed = FALSE

-----------------------------------------------------------------------------
(* A thread                                                                *)

Chain(t) == IF t \in Unit THEN {t, Outer} ELSE {}

\* raise_if_model_execution_cancelled
Stopped(t) == Chain(t) \cap cancelled # {}

To(t, m) == mode' = [mode EXCEPT ![t] = m]

\* Enter or leave a scope and go on in mode m.
Move(t, step, m) ==
  /\ at' = [at EXCEPT ![t] = @ + step]
  /\ To(t, m)
  /\ UNCHANGED kind

Stay(t, m) == To(t, m) /\ UNCHANGED <<kind, at>>

\* A pool thread takes the unit up and binds its budget.
Start(u) ==
  /\ mode[u] = "queued"
  /\ Stay(u, IF Stopped(u) THEN "failed" ELSE "go")
  /\ UNCHANGED <<lockVars, gateVars, budgetVars, schedVars>>

NextScope(t) == Scopes(t)[at[t] + 1]

Enters(t, m) == mode[t] = m /\ at[t] < Len(Scopes(t))

Acquire(t) ==
  /\ Enters(t, "go")
  /\ \/ NextScope(t) = "slot"  /\ SlotNow(t)  /\ UNCHANGED lockVars
     \/ NextScope(t) = "read"  /\ ReadNow(t)  /\ UNCHANGED gateVars
     \/ NextScope(t) = "write" /\ WriteNow(t) /\ UNCHANGED gateVars
  /\ Move(t, 1, "go")
  /\ UNCHANGED <<budgetVars, schedVars>>

Wait(t) ==
  /\ Enters(t, "go")
  /\ \/ NextScope(t) = "slot"  /\ SlotWait(t)  /\ UNCHANGED lockVars
     \/ NextScope(t) = "read"  /\ ReadWait(t)  /\ UNCHANGED gateVars
     \/ NextScope(t) = "write" /\ WriteWait(t) /\ UNCHANGED gateVars
  /\ Stay(t, "wait")
  /\ UNCHANGED <<budgetVars, schedVars>>

Granted(t) ==
  /\ Enters(t, "wait")
  /\ \/ /\ NextScope(t) = "slot" /\ t \notin gateAsleep
        /\ SlotNow(t) /\ UNCHANGED lockVars
     \/ /\ NextScope(t) = "read" /\ t \notin lockAsleep
        /\ ReadNow(t) /\ UNCHANGED gateVars
     \/ NextScope(t) = "write" /\ WriteGranted(t) /\ UNCHANGED gateVars
  /\ Move(t, 1, "go")
  /\ UNCHANGED <<budgetVars, schedVars>>

\* _condition_wait raises
GiveUp(t) ==
  /\ Enters(t, "wait")
  /\ t \in late \/ Stopped(t)
  /\ IF NextScope(t) = "write" THEN WriteFails(t) ELSE UNCHANGED lockVars
  /\ Stay(t, "back")
  /\ UNCHANGED <<gateVars, budgetVars, schedVars>>

SleepAgain(t) ==
  /\ Enters(t, "wait")
  /\ \/ NextScope(t) = "slot"  /\ GateSleepAgain(t) /\ UNCHANGED lockVars
     \/ NextScope(t) = "read"  /\ LockSleepAgain(t, MayRead) /\ UNCHANGED gateVars
     \/ NextScope(t) = "write" /\ LockSleepAgain(t, MayWrite(readers)) /\ UNCHANGED gateVars
  /\ UNCHANGED <<threadVars, budgetVars, schedVars>>

\* _generation_scope tests for cancellation on both sides of the inference;
\* image_generation_session does not.
Raises(t) == kind[t] # "image" /\ Stopped(t)

Infer(t) ==
  /\ mode[t] = "go" /\ at[t] = Len(Scopes(t))
  /\ Stay(t, IF Raises(t) THEN "back" ELSE "infer")
  /\ UNCHANGED <<lockVars, gateVars, budgetVars, schedVars>>

Inferred(t) ==
  /\ mode[t] = "infer"
  /\ \E ok \in BOOLEAN : Stay(t, IF ok /\ ~Raises(t) THEN "leave" ELSE "back")
  /\ UNCHANGED <<lockVars, gateVars, budgetVars, schedVars>>

\* refresh_model_execution_deadline, on progress of a text stream
Refresh(u) ==
  /\ mode[u] = "infer" /\ kind[u] # "image" /\ u \in late
  /\ ~Stopped(u)
  /\ refreshes < MaxRefresh
  /\ late' = late \ {u}
  /\ refreshes' = refreshes + 1
  /\ UNCHANGED <<lockVars, gateVars, threadVars, cancelled, pubLock, schedVars>>

\* Where a thread is once it has left its last scope.
Outside(t) ==
  IF mode[t] = "back" THEN "failed" ELSE IF t \in Unit THEN "publish" ELSE "done"

\* The scopes are left innermost first, with or without an exception.
Release(t) ==
  /\ mode[t] \in {"leave", "back"}
  /\ IF at[t] = 0
     THEN Stay(t, Outside(t)) /\ UNCHANGED <<lockVars, gateVars>>
     ELSE /\ LET scope == Scopes(t)[at[t]] IN
               \/ scope = "slot"  /\ SlotRelease(t)  /\ UNCHANGED lockVars
               \/ scope = "read"  /\ ReadRelease(t)  /\ UNCHANGED gateVars
               \/ scope = "write" /\ WriteRelease(t) /\ UNCHANGED gateVars
          /\ Move(t, -1, IF at[t] = 1 THEN Outside(t) ELSE mode[t])
  /\ UNCHANGED <<budgetVars, schedVars>>

-----------------------------------------------------------------------------
(* model_execution_publication: the outer lock first, then the unit's own  *)

Locked(b, u) ==
  /\ pubLock[b] = Null
  /\ pubLock' = [pubLock EXCEPT ![b] = u]

Unlocked(u) ==
  pubLock' = [b \in Budget |-> IF pubLock[b] = u THEN Null ELSE pubLock[b]]

LockOuter(u) ==
  /\ mode[u] = "publish"
  /\ Locked(Outer, u)
  /\ Stay(u, "own")
  /\ UNCHANGED <<lockVars, gateVars, late, refreshes, cancelled, schedVars>>

LockOwn(u) ==
  /\ mode[u] = "own"
  /\ IF Stopped(u)
     THEN Unlocked(u) /\ Stay(u, "failed")
     ELSE Locked(u, u) /\ Stay(u, "write")
  /\ UNCHANGED <<lockVars, gateVars, late, refreshes, cancelled, schedVars>>

\* The write ends, or raises.
Written(u) ==
  /\ mode[u] = "write"
  /\ Unlocked(u)
  /\ \E end \in {"done", "failed"} : Stay(u, end)
  /\ UNCHANGED <<lockVars, gateVars, late, refreshes, cancelled, schedVars>>

\* Mutant: cancellation does not wait for a publication.
MutMayCancel(b) == TRUE

MayCancel(b) == pubLock[b] = Null

\* Whoever runs the caller of the round gives it up.
CancelOuter ==
  /\ Outer \notin cancelled /\ MayCancel(Outer)
  /\ cancelled' = cancelled \cup {Outer}
  /\ UNCHANGED <<lockVars, gateVars, threadVars, late, refreshes, pubLock, schedVars>>

\* The lease of a submitted unit runs out.
Expire(u) ==
  /\ u \notin late /\ mode[u] \notin {"item"} \cup Settled
  /\ late' = late \cup {u}
  /\ UNCHANGED <<lockVars, gateVars, threadVars, refreshes, cancelled, pubLock, schedVars>>

-----------------------------------------------------------------------------
(* The scheduler                                                           *)

Room == workers - Cardinality(active)

\* _fill_active_slots; with nothing active after it the round is over.
Fill ==
  /\ phase = "fill"
  /\ LET n   == IF Room < Len(queue) THEN Room ELSE Len(queue)
         new == ToSet(SubSeq(queue, 1, n))
     IN  /\ active' = active \cup new
         /\ queue' = SubSeq(queue, n + 1, Len(queue))
         /\ mode' = [t \in Thread |-> IF t \in new THEN "queued" ELSE mode[t]]
  /\ phase' = IF active' = {} THEN "ended" ELSE "wait"
  /\ UNCHANGED <<lockVars, gateVars, kind, at, budgetVars, workers, isolate, batch, report,
                 closed>>

Completed == {u \in active : mode[u] \in Settled}

\* wait() returns: completed units, or none when the first lease ran out.
Wake ==
  /\ phase = "wait"
  /\ Completed # {} \/ active \cap late # {}
  /\ batch' = Completed
  /\ phase' = IF Completed # {} THEN "reap" ELSE "woken"
  /\ UNCHANGED <<lockVars, gateVars, threadVars, budgetVars, workers, isolate, queue, active,
                 report, closed>>

\* Nothing had completed: were the leases renewed in the meantime?
CheckLeases ==
  /\ phase = "woken"
  /\ IF active \cap late = {}
     THEN phase' = "wait" /\ UNCHANGED report
     ELSE /\ phase' = "cancel"
          /\ \E u \in active \cap late : report' = [report EXCEPT ![u] = "timeout"]
  /\ UNCHANGED <<lockVars, gateVars, threadVars, budgetVars, workers, isolate, queue, active,
                 batch, closed>>

\* Mutant: the round ends with its first batch.
MutAfterBatch == "cancel"

AfterBatch == "fill"

Reap ==
  /\ phase = "reap"
  /\ \/ \E u \in batch :
          /\ batch' = batch \ {u}
          /\ active' = active \ {u}
          /\ \/ /\ mode[u] = "done"
                /\ report' = [report EXCEPT ![u] = "result"]
                /\ closed' \in BOOLEAN
                /\ phase' = IF closed' THEN "cancel" ELSE "reap"
             \/ /\ mode[u] # "done"
                /\ report' = [report EXCEPT ![u] = "error"]
                /\ phase' = IF isolate THEN "reap" ELSE "cancel"
                /\ UNCHANGED closed
     \/ batch = {} /\ phase' = AfterBatch /\ UNCHANGED <<active, batch, report, closed>>
  /\ UNCHANGED <<lockVars, gateVars, threadVars, budgetVars, workers, isolate, queue>>

\* Mutant: the pool is joined.
MutShutDown == \A u \in Unit : mode'[u] \in Settled \cup {"item"}

\* shutdown(wait=False)
ShutDown == TRUE

\* _shutdown_pool: cancel each budget, and the future if it has not begun.
Cancel ==
  /\ phase = "cancel"
  /\ IF active = {}
     THEN UNCHANGED <<threadVars, cancelled, active, batch>>
     ELSE \E u \in active :
            /\ MayCancel(u)
            /\ cancelled' = cancelled \cup {u}
            /\ active' = active \ {u} /\ batch' = batch \ {u}
            /\ Stay(u, IF mode[u] = "queued" THEN "dropped" ELSE mode[u])
  /\ IF active' = {} THEN ShutDown /\ phase' = "ended" ELSE UNCHANGED phase
  /\ UNCHANGED <<lockVars, gateVars, late, refreshes, pubLock, workers, isolate, queue,
                 report, closed>>
-----------------------------------------------------------------------------
Use(t) == Acquire(t) \/ Wait(t) \/ Granted(t) \/ SleepAgain(t) \/ Infer(t)
            \/ Release(t)

Unwind(u) == Start(u) \/ GiveUp(u) \/ LockOuter(u) \/ LockOwn(u) \/ Written(u)

Scheduler == Fill \/ Wake \/ CheckLeases \/ Reap \/ Cancel

Next ==
  \/ \E t \in Thread : Use(t) \/ Inferred(t)
  \/ \E u \in Unit : Unwind(u) \/ Refresh(u) \/ Expire(u)
  \/ CancelOuter
  \/ Scheduler

Spec == Init /\ [][Next]_vars
-----------------------------------------------------------------------------
(* Properties                                                              *)

\* "Once cancel() returns, an abandoned worker cannot publish another result"
\* (model_execution_publication): nothing is being written under a cancelled
\* budget, its own or that of the round's caller, nor after the round is over,
\* however late the unit's inference came back.
NoLatePublication ==
  \A u \in Unit : mode[u] = "write" => ~(Chain(u) \cap cancelled # {}) /\ phase # "ended"

\* The GPU lock: while a thread infers as the writer no other thread infers, whatever
\* upgrades were granted, failed and given their read claim back in between.
GPUExclusive ==
  \A t, o \in Thread :
    /\ t # o
    /\ mode[t] = "infer" /\ Contains(Scopes(t), "write")
    => mode[o] # "infer"

Entered(t, scope) == Cardinality({i \in 1 .. at[t] : Scopes(t)[i] = scope})

WaitsToWrite(t) == mode[t] = "wait" /\ NextScope(t) = "write"

\* The counters of the gate and of the lock are exactly the scopes the threads are
\* in, through re-entry, upgrades, timeouts and exceptions (ReentrantReadWriteLock,
\* ReentrantCapacityGate): nothing is leaked and nothing is released twice.
ClaimsMatch ==
  /\ waiting = Cardinality({t \in Thread : WaitsToWrite(t)})
  /\ \A t \in Thread :
       /\ slots[t] = Entered(t, "slot")
       /\ readers[t] + suspended[t] + upgrading[t] = Entered(t, "read")
       /\ (IF writer = t THEN depth ELSE 0) = Entered(t, "write")
       /\ upgrading[t] > 0 => WaitsToWrite(t)
       /\ suspended[t] > 0 => writer = t

\* The round loses no unit (the "lost a completed result" of deterministic_model_map):
\* when it is over every unit was reported, unless a lease ran out, an error was not
\* to be isolated or the consumer closed it; and a result is only reported of a unit
\* that has published.
NothingLost ==
  /\ phase = "ended" =>
       \/ \A u \in Unit : report[u] # "none"
       \/ \E u \in Unit : report[u] = "timeout" \/ (~isolate /\ report[u] = "error")
       \/ closed
  /\ \A u \in Unit : report[u] = "result" => mode[u] = "done"

\* A unit that gave up waiting for the lock, or any later step, lowered
\* _waiting_writers and notified nobody.
WriterGaveUp ==
  \E u \in Unit : Contains(Scopes(u), "write") /\ mode[u] \in {"back", "failed"}

\* No caller that sleeps without a timeout is forgotten (the notify_all calls): at the
\* gate all slots are taken, a writer has a writer or a reader in its way, and a reader
\* has a writer or a waiting one, unless such a writer gave up, which wakes nobody.
SleepersHaveWaker ==
  /\ gateAsleep # {} => ~SlotFree
  /\ \A t \in lockAsleep :
       IF NextScope(t) = "write" THEN ~MayWrite(readers)
       ELSE writer # Null \/ waiting > 0 \/ WriterGaveUp

\* The steps the program takes by itself: all but the end of an inference, its
\* progress, and a cancellation from outside.
Forward ==
  \/ Scheduler
  \/ \E t \in Thread : Use(t)
  \/ \E u \in Unit : Unwind(u) \/ Expire(u)

\* "one blocked provider call cannot pin the caller indefinitely"
\* (deterministic_model_map).  There are finitely many forward steps, so where none is
\* possible everything has happened that will: the round is over and no unit still
\* waits, even if inferences hang, and where none hangs the other callers are served.
HangContained ==
  ENABLED Forward \/
    /\ phase = "ended"
    /\ \A u \in Unit : mode[u] \in Settled \cup {"item", "infer"}
    /\ \/ \E t \in Thread : mode[t] = "infer"
       \/ WriterGaveUp
       \/ \A t \in Thread \ Unit : mode[t] \in Settled
===============================================================================
