----------------------------- MODULE Orchestrator -----------------------------
(***************************************************************************)
(* The processes that execute one production run: complete_orchestrator's  *)
(* main thread (opening and resuming the run, the generation scheduler     *)
(* loop, the stages before and after it), its generation workers           *)
(* (_run_work_node on the lane pools), its lease heartbeat, and the        *)
(* operator's MCP calls work_cancel_run and work_resume_run.               *)
(*                                                                         *)
(* A process is named after the lease owner its ledger instance drew.  A   *)
(* step is one ledger statement or transaction together with the local     *)
(* control that follows it.  What a node's action produces is reduced to   *)
(* the input hash it worked from; checkpoints, reviews and files are left  *)
(* out, so are receipts corrupted on disk.                                 *)
(***************************************************************************)
EXTENDS WorkLedger, FiniteSetsExt

CONSTANTS
  PreNode,     \* nodes the main thread completes before generation
  PostNode,    \* nodes the main thread completes after generation
  InputNode,   \* post nodes that may end as input_required instead
  OneExecutor, \* a process is started only when no other is executing
  MayFail,     \* actions, checkpoints and index updates may raise
  MayDrift,    \* process_node's own checks of payloads and receipts may raise
  MayCrash,    \* a process may be killed
  MayStall,    \* a live process may miss its heartbeats for a whole lease
  MaxCancel,   \* bound: cancellation requests
  MaxBorn      \* bound: incarnations of a row

ASSUME StageAssumption ==
  /\ PreNode \subseteq Node \ GenNode
  /\ PostNode = (Node \ GenNode) \ PreNode
  /\ InputNode \subseteq PostNode

\* A run has finitely many nodes and finitely many processes open it.
ASSUME ProcessAssumption ==
  /\ IsFiniteSet(Owner) /\ IsFiniteSet(GenNode)
  /\ OneExecutor \in BOOLEAN
  /\ MaxCancel \in Nat
  /\ MaxBorn \in Nat

VARIABLES
  proc,     \* the main thread of every process
  worker,   \* the generation future of every process and node
  cancels   \* cancellation requests so far

vars == <<task, edges, cancelled, proc, worker, cancels>>

Ended == {"done", "raised", "dead"}

MainPC == {"new", "open", "stage", "stagetask", "begin", "succeed", "resume",
           "retry", "requeue", "top", "reap", "claim", "inspect", "unwind"} \cup Ended

\* How a future ended: a result, an exception, or the one exception text the
\* scheduler retries once.
Finished == {"ok", "err", "loop"}

WorkerPC == {"none", "queued", "cached", "invalidate", "task", "retry", "requeue",
             "reread", "gate", "begin", "read", "snap", "act", "gate2", "check",
             "commit", "succeed", "fail", "failrow"} \cup Finished

NoClaim == [node |-> Null]

\* running: `current' was read as running.  how: the exception on its way out.
Worker == [pc : WorkerPC, running : BOOLEAN, claim : Claim \cup {NoClaim}, how : Finished]

NoWorker == [pc |-> "none", running |-> FALSE, claim |-> NoClaim, how |-> "err"]

\* phase: before or after generation.  todo, cur: what is left of the loop
\* the main thread is in, and its present node.  ret: where retry() returns to.
\* seen: the states read so far.  retried: decode retries spent.
\* beat: the heartbeat thread has recorded an error.
Process(pc, p) ==
  [pc |-> pc, plan |-> p, phase |-> "pre", todo |-> {}, cur |-> Null,
   ret |-> "top", seen |-> {}, retried |-> {}, beat |-> FALSE]

NoPlan == [nodes |-> {}, deps |-> [n \in Node |-> {}], hash |-> [n \in Node |-> Null]]

MainThread ==
  [pc : MainPC, plan : Plans \cup {NoPlan}, phase : {"pre", "post"}, todo : SUBSET Node,
   cur : Node \cup {Null}, ret : MainPC, seen : SUBSET WorkState,
   retried : SUBSET GenNode, beat : BOOLEAN]

Init ==
  /\ LedgerInit
  /\ proc = [o \in Owner |-> Process("new", NoPlan)]
  /\ worker = [o \in Owner |-> [n \in GenNode |-> NoWorker]]
  /\ cancels = 0

Alive(o) == proc[o].pc \notin Ended \cup {"new"}
Futures(o) == {n \in GenNode : worker[o][n].pc # "none"}
Done(o) == {n \in GenNode : worker[o][n].pc \in Finished}

-----------------------------------------------------------------------------
(* Main-thread control.                                                    *)

Set(o, p) == proc' = [proc EXCEPT ![o] = p]
Go(o, pc) == Set(o, [proc[o] EXCEPT !.pc = pc])
Raise(o) == Go(o, "unwind")
Loop(o, pc, S) == Set(o, [proc[o] EXCEPT !.pc = pc, !.todo = S])
NoLedger == UNCHANGED ledger
NoWorkers == UNCHANGED <<worker, cancels>>

\* The process is gone; only how it ended is remembered.
EndProcess(o, pc) ==
  /\ Set(o, Process(pc, NoPlan))
  /\ worker' = [worker EXCEPT ![o] = [n \in GenNode |-> NoWorker]]
  /\ UNCHANGED cancels

\* _open_run: sync_plan and, on a resumed run, the loop over failed nodes.
OpenRun(o, p) ==
  /\ proc[o].pc = "new"
  /\ OneExecutor => \A q \in Owner : ~Alive(q)
  /\ \A n \in p.nodes : Present(n) \/ task[n].born < MaxBorn
  /\ SyncPlan(p)
  /\ Set(o, [Process("open", p) EXCEPT !.todo = p.nodes \cap GenNode])
  /\ NoWorkers

AfterLoop(o) ==
  IF proc[o].pc = "open"
  THEN [proc[o] EXCEPT !.pc = "stage", !.todo = proc[o].plan.nodes \cap PreNode]
  ELSE [proc[o] EXCEPT !.pc = "top"]

\* One round of `for node: if task(node).state == failed: retry(node)', in
\* _open_run and again before the scheduler starts.
ResumeLoop(o) ==
  /\ proc[o].pc \in {"open", "resume"}
  /\ \/ /\ proc[o].todo = {}
        /\ Set(o, AfterLoop(o))
     \/ /\ proc[o].todo # {}
        /\ LET n    == Min(proc[o].todo)
               rest == [proc[o] EXCEPT !.todo = @ \ {n}]
           IN  \/ ~Present(n) /\ Raise(o)
               \/ /\ task[n].state = "failed"
                  /\ Set(o, [rest EXCEPT !.pc = "retry", !.cur = n, !.ret = proc[o].pc])
               \/ Present(n) /\ task[n].state # "failed" /\ Set(o, rest)
  /\ NoLedger /\ NoWorkers

\* retry(), its SELECT and its UPDATE.
MainRetry(o) ==
  /\ proc[o].pc = "retry"
  /\ IF RetryAccepts(proc[o].cur) THEN Go(o, "requeue") ELSE Raise(o)
  /\ NoLedger /\ NoWorkers

MainRequeue(o) ==
  /\ proc[o].pc = "requeue"
  /\ RetryUpdate(proc[o].cur)
  /\ IF Present(proc[o].cur) THEN Go(o, proc[o].ret) ELSE Raise(o)
  /\ NoWorkers

-----------------------------------------------------------------------------
(* _succeed_work_node, for the nodes outside generation.                   *)

\* The stage's own work, then raise_if_cancelled.  A stage without evidence
\* is parked with fail(input_required=True) instead.
Stage(o) ==
  /\ proc[o].pc = "stage"
  /\ \/ /\ proc[o].todo = {} /\ proc[o].phase = "pre"
        /\ Loop(o, "resume", proc[o].plan.nodes \cap GenNode)
        /\ NoLedger /\ NoWorkers
     \/ /\ proc[o].todo = {} /\ proc[o].phase = "post"
        /\ NoLedger
        /\ EndProcess(o, "done")
     \/ /\ proc[o].todo # {}
        /\ IF cancelled THEN Raise(o)
           ELSE Set(o, [proc[o] EXCEPT !.pc = "stagetask", !.cur = Min(proc[o].todo)])
        /\ NoLedger /\ NoWorkers
     \/ /\ proc[o].todo # {} /\ MayFail
        /\ Raise(o)
        /\ NoLedger /\ NoWorkers

StageInput(o) ==
  /\ proc[o].pc = "stage"
  /\ proc[o].todo \cap InputNode # {}
  /\ LET n == Min(proc[o].todo)
     IN  /\ n \in InputNode
         /\ \/ /\ Fail(n, TRUE)
               /\ Loop(o, "stage", proc[o].todo \ {n})
            \/ /\ task[n].state \in {"cancelled", "input_required"}
               /\ Loop(o, "stage", proc[o].todo \ {n})
               /\ NoLedger
            \/ /\ task[n].state \in {"absent", "failed", "succeeded"}
               /\ Raise(o)
               /\ NoLedger
  /\ NoWorkers

StageTask(o) ==
  /\ proc[o].pc = "stagetask"
  /\ LET n == proc[o].cur
     IN  \/ ~Present(n) /\ Raise(o)
         \/ task[n].state = "succeeded" /\ Loop(o, "stage", proc[o].todo \ {n})
         \/ /\ task[n].state \in Stopped
            /\ Set(o, [proc[o] EXCEPT !.pc = "retry", !.ret = "begin"])
         \/ task[n].state \in {"pending", "running"} /\ Go(o, "begin")
  /\ NoLedger /\ NoWorkers

StageBegin(o) ==
  /\ proc[o].pc = "begin"
  /\ \/ Begin(proc[o].cur, LocalOwner) /\ Go(o, "succeed")
     \/ BeginRaises(proc[o].cur) /\ Raise(o) /\ NoLedger
  /\ NoWorkers

\* Mutant: the stage is published in whatever state its row is.
MutStageSucceed(o) ==
  /\ proc[o].pc = "succeed"
  /\ LET n == proc[o].cur
     IN  /\ SetRow(n, Published(task[n], proc[o].plan.hash[n]))
         /\ Loop(o, "stage", proc[o].todo \ {n})
  /\ UNCHANGED <<edges, cancelled>> /\ NoWorkers

StageSucceed(o) ==
  /\ proc[o].pc = "succeed"
  /\ LET n == proc[o].cur
     IN  \/ Succeed(n, proc[o].plan.hash[n]) /\ Loop(o, "stage", proc[o].todo \ {n})
         \/ /\ task[n].state = "succeeded"
            /\ Loop(o, "stage", proc[o].todo \ {n})
            /\ NoLedger
         \/ ~Running(n) /\ Raise(o) /\ NoLedger
  /\ NoWorkers

-----------------------------------------------------------------------------
(* The generation scheduler loop.                                          *)

Top(o) ==
  /\ proc[o].pc = "top"
  /\ IF cancelled \/ proc[o].beat THEN Raise(o) ELSE Loop(o, "reap", Done(o))
  /\ NoLedger /\ NoWorkers

\* Take one finished future; a decode loop is retried once.
Reap(o) ==
  /\ proc[o].pc = "reap" /\ proc[o].todo # {}
  /\ LET n     == Min(proc[o].todo)
         rest  == [proc[o] EXCEPT !.todo = @ \ {n}]
         again == worker[o][n].pc = "loop" /\ n \notin proc[o].retried
     IN  /\ worker' = [worker EXCEPT ![o][n] = NoWorker]
         /\ \/ again /\ ~Present(n) /\ Raise(o)
            \/ /\ again /\ task[n].state = "failed"
               /\ Set(o, [rest EXCEPT !.pc = "retry", !.cur = n, !.ret = "reap",
                                      !.retried = @ \cup {n}])
            \/ /\ again => task[n].state \notin {"absent", "failed"}
               /\ Set(o, rest)
  /\ NoLedger /\ UNCHANGED cancels

ReapEnd(o) ==
  /\ proc[o].pc = "reap" /\ proc[o].todo = {}
  /\ Go(o, "claim")
  /\ NoLedger /\ NoWorkers

\* A granted node is dispatched to its lane's pool unless it is unknown or its
\* future has not been taken yet.
ClaimNode(o) ==
  /\ proc[o].pc = "claim"
  /\ \E n \in GenNode :
       /\ ClaimOrchestratorReady(o, n)
       /\ IF n \in proc[o].plan.nodes \ Futures(o)
          THEN /\ worker' = [worker EXCEPT ![o][n].pc = "queued"]
               /\ UNCHANGED proc
          ELSE Raise(o) /\ UNCHANGED worker
  /\ UNCHANGED cancels

ClaimNothing(o) ==
  /\ proc[o].pc = "claim"
  /\ ClaimOrchestratorNone(o)
  /\ IF Futures(o) # {} THEN Go(o, "top")
     ELSE Set(o, [proc[o] EXCEPT !.pc = "inspect", !.seen = {},
                                 !.todo = proc[o].plan.nodes \cap GenNode])
  /\ NoWorkers

ClaimLapsed(o) ==
  /\ proc[o].pc = "claim"
  /\ OwnLapsed(o) # {}
  /\ Raise(o)
  /\ NoLedger /\ NoWorkers

\* With no future left the rows are read one after the other.
Inspect(o) ==
  /\ proc[o].pc = "inspect" /\ proc[o].todo # {}
  /\ LET n == Min(proc[o].todo)
     IN  IF Present(n)
         THEN Set(o, [proc[o] EXCEPT !.todo = @ \ {n}, !.seen = @ \cup {task[n].state}])
         ELSE Raise(o)
  /\ NoLedger /\ NoWorkers

\* The scheduler raises `WorkGraph DAG deadlock'.
DeclaresDeadlock(o) ==
  /\ proc[o].pc = "inspect" /\ proc[o].todo = {}
  /\ "pending" \in proc[o].seen
  /\ proc[o].seen \cap (Stopped \cup {"running"}) = {}

Decide(o) ==
  /\ proc[o].pc = "inspect" /\ proc[o].todo = {}
  /\ LET seen == proc[o].seen
     IN  \/ seen \cap Stopped # {} /\ Raise(o)
         \/ /\ seen \subseteq {"succeeded"}
            /\ Set(o, [proc[o] EXCEPT !.pc = "stage", !.phase = "post",
                                      !.todo = proc[o].plan.nodes \cap PostNode])
         \/ seen \cap Stopped = {} /\ "running" \in seen /\ Go(o, "top")
         \/ DeclaresDeadlock(o) /\ Raise(o)
  /\ NoLedger /\ NoWorkers

\* finally: futures that have not started are cancelled, the others awaited.
CancelFuture(o, n) ==
  /\ proc[o].pc = "unwind"
  /\ worker[o][n].pc = "queued"
  /\ worker' = [worker EXCEPT ![o][n] = NoWorker]
  /\ NoLedger /\ UNCHANGED <<proc, cancels>>

Unwound(o) ==
  /\ proc[o].pc = "unwind"
  /\ Futures(o) = Done(o)
  /\ EndProcess(o, "raised")
  /\ NoLedger

\* The heartbeat thread finds a lease of its own process expired.
HeartbeatFails(o) ==
  /\ \/ proc[o].pc \in {"top", "reap", "claim", "inspect"}
     \/ proc[o].pc \in {"retry", "requeue"} /\ proc[o].ret = "reap"
  /\ ~proc[o].beat
  /\ OwnLapsed(o) # {}
  /\ Set(o, [proc[o] EXCEPT !.beat = TRUE])
  /\ NoLedger /\ NoWorkers

Crash(o) ==
  /\ MayCrash
  /\ Alive(o)
  /\ EndProcess(o, "dead")
  /\ NoLedger

-----------------------------------------------------------------------------
(* A generation worker: process_node and _run_work_node for node n.        *)

W(o, n) == worker[o][n]
At(o, n, pc) == W(o, n).pc = pc
SetW(o, n, w) == worker' = [worker EXCEPT ![o][n] = w]
Step(o, n, pc) == SetW(o, n, [W(o, n) EXCEPT !.pc = pc])
Fails(o, n, how) == SetW(o, n, [W(o, n) EXCEPT !.pc = "fail", !.how = how])
Reads(o, n, pc) == SetW(o, n, [W(o, n) EXCEPT !.pc = pc, !.running = Running(n)])
NoMain == UNCHANGED <<proc, cancels>>
Fenced(o, n) == W(o, n).claim # NoClaim
MyHash(o, n) == proc[o].plan.hash[n]

\* How process_node ends once _run_work_node has returned: it still checks the
\* receipt it was given.
Outcome == IF MayDrift THEN {"ok", "err"} ELSE {"ok"}

\* A pool has as many threads as its lane has capacity.
Busy(o, l) ==
  Cardinality({m \in GenNode : /\ W(o, m).pc \notin Finished \cup {"none", "queued"}
                               /\ LaneOf[m] = l})

\* process_node checks the payload before _run_work_node is called.
StartWorker(o, n) ==
  /\ At(o, n, "queued")
  /\ Busy(o, LaneOf[n]) < Capacity[LaneOf[n]]
  /\ \/ Step(o, n, "cached")
     \/ MayDrift /\ Step(o, n, "err")
  /\ NoLedger /\ NoMain

\* cached_receipt: a success for this very input is reused when its outputs
\* are still there.
ReadCache(o, n) ==
  /\ At(o, n, "cached")
  /\ LET hit == task[n].state = "succeeded" /\ task[n].hash = MyHash(o, n)
     IN  \/ hit /\ \E next \in Outcome \cup {"invalidate"} : Step(o, n, next)
         \/ ~hit /\ Step(o, n, "task")
  /\ NoLedger /\ NoMain

DropCache(o, n) ==
  /\ At(o, n, "invalidate")
  /\ \/ Invalidate(n)
     \/ ~Present(n) /\ NoLedger
  /\ Step(o, n, "task")
  /\ NoMain

ReadTask(o, n) ==
  /\ At(o, n, "task")
  /\ \/ ~Present(n) /\ Step(o, n, "err")
     \/ task[n].state \in Stopped /\ Step(o, n, "retry")
     \/ Present(n) /\ task[n].state \notin Stopped /\ Reads(o, n, "gate")
  /\ NoLedger /\ NoMain

WorkerRetry(o, n) ==
  /\ At(o, n, "retry")
  /\ Step(o, n, IF RetryAccepts(n) THEN "requeue" ELSE "err")
  /\ NoLedger /\ NoMain

WorkerRequeue(o, n) ==
  /\ At(o, n, "requeue")
  /\ RetryUpdate(n)
  /\ Step(o, n, "reread")
  /\ NoMain

RereadTask(o, n) ==
  /\ At(o, n, "reread")
  /\ IF Present(n) THEN Reads(o, n, "gate") ELSE Step(o, n, "err")
  /\ NoLedger /\ NoMain

\* raise_if_cancelled; what follows depends on the state read before it.
Gate(o, n) ==
  /\ At(o, n, "gate")
  /\ Step(o, n, IF cancelled THEN "err"
                ELSE IF W(o, n).running THEN "read" ELSE "begin")
  /\ NoLedger /\ NoMain

WorkerBegin(o, n) ==
  /\ At(o, n, "begin")
  /\ \/ Begin(n, LocalOwner) /\ Step(o, n, "read")
     \/ BeginRaises(n) /\ Step(o, n, "err") /\ NoLedger
  /\ NoMain

\* claim_fenced: whether the row has an owner at all.
ReadClaim(o, n) ==
  /\ At(o, n, "read")
  /\ Step(o, n, IF ~Present(n) THEN "err"
                ELSE IF task[n].owner # Null THEN "snap" ELSE "act")
  /\ NoLedger /\ NoMain

\* _snapshot_claim adopts whatever claim the running row carries.
SnapshotClaim(o, n) ==
  /\ At(o, n, "snap")
  /\ IF Running(n) THEN SetW(o, n, [W(o, n) EXCEPT !.pc = "act", !.claim = ClaimOf(n)])
                   ELSE Step(o, n, "err")
  /\ NoLedger /\ NoMain

Act(o, n) ==
  /\ At(o, n, "act")
  /\ \/ Step(o, n, "gate2")
     \/ MayFail /\ \E how \in {"err", "loop"} : Fails(o, n, how)
  /\ NoLedger /\ NoMain

CancelCheck(o, n) ==
  /\ At(o, n, "gate2")
  /\ IF cancelled THEN Fails(o, n, "err")
     ELSE Step(o, n, IF Fenced(o, n) THEN "check" ELSE "succeed")
  /\ NoLedger /\ NoMain

StillMine(o, n) ==
  LET c == W(o, n).claim IN ClaimCurrent(n, c.attempt, c.owner)

\* _commit_success up to its transaction: the first claim check and the
\* ProjectIndex update.
CheckClaim(o, n) ==
  /\ At(o, n, "check")
  /\ \/ StillMine(o, n) /\ Step(o, n, "commit")
     \/ /\ ~StillMine(o, n) \/ MayFail
        /\ Fails(o, n, "err")
  /\ NoLedger /\ NoMain

Commit(o, n) ==
  /\ At(o, n, "commit")
  /\ LET c == W(o, n).claim
     IN  \/ /\ CommitSuccess(n, c.attempt, c.owner, MyHash(o, n))
            /\ \E next \in Outcome : Step(o, n, next)
         \/ ~StillMine(o, n) /\ Fails(o, n, "err") /\ NoLedger
  /\ NoMain

\* ledger.succeed when no claim was read; a repeated identical receipt passes.
UnfencedSucceed(o, n) ==
  /\ At(o, n, "succeed")
  /\ \/ /\ Succeed(n, MyHash(o, n))
        /\ \E next \in Outcome : Step(o, n, next)
     \/ /\ task[n].state = "succeeded"
        /\ \E next \in Outcome : Step(o, n, next)
        /\ NoLedger
     \/ /\ ~Running(n) \/ MayFail
        /\ Fails(o, n, "err") /\ NoLedger
  /\ NoMain

\* Mutant: the failure of a node is not stored.
MutFailNode(o, n) ==
  /\ At(o, n, "fail")
  /\ Step(o, n, W(o, n).how)
  /\ NoLedger /\ NoMain

FailNode(o, n) ==
  /\ At(o, n, "fail")
  /\ \/ /\ Fenced(o, n)
        /\ FencedFail(n, W(o, n).claim.attempt, W(o, n).claim.owner)
        /\ Step(o, n, W(o, n).how)
     \/ /\ ~Fenced(o, n)
        /\ Step(o, n, IF Running(n) THEN "failrow" ELSE W(o, n).how)
        /\ NoLedger
  /\ NoMain

UnfencedFail(o, n) ==
  /\ At(o, n, "failrow")
  /\ \/ Fail(n, FALSE)
     \/ ~Running(n) /\ NoLedger
  /\ Step(o, n, W(o, n).how)
  /\ NoMain

-----------------------------------------------------------------------------
(* The operator, and time.                                                 *)

WorkCancelRun ==
  /\ \E o \in Owner : proc[o].pc # "new"
  /\ cancels < MaxCancel
  /\ CancelRun
  /\ cancels' = cancels + 1
  /\ UNCHANGED <<proc, worker>>

WorkResumeRun ==
  /\ cancelled
  /\ ResumeRun
  /\ UNCHANGED <<proc, worker, cancels>>

\* The lease of a row runs out: its process has ended, or fails to renew it.
LeaseEnds(n) ==
  /\ Lapse(n)
  /\ MayStall \/ ~Alive(task[n].owner)
  /\ UNCHANGED <<proc, worker, cancels>>

MainStep(o) ==
  \/ ResumeLoop(o) \/ MainRetry(o) \/ MainRequeue(o)
  \/ Stage(o) \/ StageInput(o) \/ StageTask(o) \/ StageBegin(o) \/ StageSucceed(o)
  \/ Top(o) \/ Reap(o) \/ ReapEnd(o)
  \/ ClaimNode(o) \/ ClaimNothing(o) \/ ClaimLapsed(o)
  \/ Inspect(o) \/ Decide(o)
  \/ Unwound(o) \/ \E n \in GenNode : CancelFuture(o, n)

WorkerStep(o, n) ==
  \/ StartWorker(o, n) \/ ReadCache(o, n) \/ DropCache(o, n) \/ ReadTask(o, n)
  \/ WorkerRetry(o, n) \/ WorkerRequeue(o, n) \/ RereadTask(o, n) \/ Gate(o, n)
  \/ WorkerBegin(o, n) \/ ReadClaim(o, n) \/ SnapshotClaim(o, n) \/ Act(o, n)
  \/ CancelCheck(o, n) \/ CheckClaim(o, n) \/ Commit(o, n)
  \/ UnfencedSucceed(o, n) \/ FailNode(o, n) \/ UnfencedFail(o, n)

Next ==
  \/ \E o \in Owner : \/ \E p \in Plans : OpenRun(o, p)
                      \/ MainStep(o)
                      \/ \E n \in GenNode : WorkerStep(o, n)
                      \/ HeartbeatFails(o)
                      \/ Crash(o)
  \/ WorkCancelRun
  \/ WorkResumeRun
  \/ \E n \in Node : LeaseEnds(n)

Spec == Init /\ [][Next]_vars

\* Threads are scheduled; a node's action ends because the layers below bound
\* their own waits; time passes for leases nobody renews.
Fairness ==
  /\ \A o \in Owner : /\ WF_vars(MainStep(o))
                      /\ \A n \in GenNode : WF_vars(WorkerStep(o, n))
  /\ \A n \in Node : WF_vars(LeaseEnds(n) /\ ~Alive(task[n].owner))

FairSpec == Spec /\ Fairness

-----------------------------------------------------------------------------
(* Properties.                                                             *)

TypeOK ==
  /\ LedgerTypeOK
  /\ cancels \in 0 .. MaxCancel
  /\ proc \in [Owner -> MainThread]
  /\ worker \in [Owner -> [GenNode -> Worker]]

\* The processes are clients of the ledger as LedgerClients describes them:
\* every step of every thread is one of its transactions or touches nothing,
\* so what is proved there holds for the orchestrator.
HeldClaims ==
  {W(o, n).claim : o \in Owner, n \in GenNode} \ {NoClaim}

Retrying ==
  {n \in Node :
     \E o \in Owner : \/ proc[o].pc = "requeue" /\ proc[o].cur = n
                      \/ n \in GenNode /\ At(o, n, "requeue")}

LC == INSTANCE LedgerClients
        WITH claims <- HeldClaims, retrying <- Retrying,
             MaxClaims <- Cardinality(Owner) * Cardinality(GenNode) + 1

ImplementsClients == LC!Spec

\* While a cancellation is in force no generation node becomes succeeded, in
\* whatever state its worker was caught (raise_if_cancelled, cancel_run and
\* the fence of _commit_success together).
CancelStopsGeneration ==
  [][cancelled /\ cancelled' =>
       \A n \in GenNode : task'[n].state = "succeeded" => task[n].state = "succeeded"]_vars

\* Successes are taken back by opening the run, or by a worker's invalidate().
ReplayJustified ==
  \A n \in Node : task[n].state = "succeeded" /\ task'[n].state # "succeeded" =>
    \E o \in Owner : \/ proc[o].pc = "new" /\ proc'[o].pc = "open"
                    \/ \E m \in GenNode : At(o, m, "invalidate") /\ At(o, m, "task")'

\* A success is taken back only while a process opens the run (sync_plan), or by a
\* worker that found its outputs gone: no crash, resume, retry or late worker makes
\* succeeded work run again.
NoReplay == [][ReplayJustified]_vars

\* A published success was computed from the input its row names now, across
\* plan changes and the processes that worked under the older plan.
ReceiptMatchesInput ==
  \A n \in Node : task[n].state = "succeeded" => task[n].receipt = task[n].hash

\* The worker of n in process o may be changing the project.
Acting(o, n) == W(o, n).pc \in {"act", "gate2", "check"}

\* Workers that change the project at the same time work on different nodes,
\* never in the same serial stage, and never on both models of one GPU.
SafeConcurrency ==
  \A o, q \in Owner : \A m, n \in GenNode :
    <<o, m>> # <<q, n>> /\ Acting(o, m) /\ Acting(q, n) =>
      /\ m # n
      /\ ~(StageOf[m] = StageOf[n] /\ StageOf[m] \in SerialStages)
      /\ SharedGpu => {LaneOf[m], LaneOf[n]} # {"llm", "image_gpu"}

\* A row claimed by a scheduler that is still looping has a future there: its
\* heartbeat renews such a row for ever, so one without a worker would keep
\* the scheduler waiting for ever.
NoLostClaim ==
  \A o \in Owner : \A n \in GenNode :
    Running(n) /\ task[n].owner = o /\ Alive(o) /\ proc[o].pc # "unwind" =>
      n \in Futures(o)

\* A process that opens the run and is not killed brings every node of its
\* plan to succeeded, whatever the processes before it left behind.
Completes ==
  \A o \in Owner :
    Alive(o) ~> \/ proc[o].pc = "dead"
                \/ /\ proc[o].pc = "done"
                   /\ \A n \in Node \ InputNode : task[n].state \in {"succeeded", "absent"}

\* Every process that is not killed ends: no failure, lapsed lease or orphaned
\* claim leaves it waiting for ever.
Terminates == \A o \in Owner : Alive(o) ~> proc[o].pc \in Ended
=============================================================================
