# Verification of M.M.M. production runs

M.M.M. (`src/minecraft_mod_ai`) turns a request in natural language into a
plan, an approved proposal, a graph of work nodes, a generated Fabric mod
project, and finally a built, validated and packaged mod. Planning and source
authoring are driven by language models. What has to be right whatever the
models answer is the machinery that carries a production run: a durable
ledger in SQLite, a scheduler that claims work under leases, a pool of workers,
checkpoints around the long steps, locks and transactions on the project's
files, rounds of model calls under leases, a graph of artifact jobs with evidence
on disk, a pool of tool sessions, and recovery after a crash or a cancellation.
This directory models that machinery in TLA+, checks it with TLC on small
instances and proves its central properties with TLAPS.

## 1. Inventory

| Component | State | Operations | Interacts with | What is hard |
|---|---|---|---|---|
| **Durable work ledger** (`work_graph.py`, `work_graph_receipt_read.py`) | SQLite tables `tasks`, `edges`, `metadata` | `sync_plan`, `claim_ready`, `begin`, `succeed`, `fail`, `retry`, `cancel`, `cancel_run`, `resume_run`, `invalidate` | called by orchestrator threads, and by MCP tools from other processes | statements of several processes interleave; a claim outlives the row it was read from; plan changes under running work |
| **Named checkpoints** (`work_graph.py` 548–690, 978–1002) | table `checkpoints` | `run_named_checkpoint`: cached, begin, action, succeed or fail; invalidation; cancel and resume | orchestrator stages | crash between begin and end; cancel and resume around a live action; damaged receipts |
| **Admission and fencing** (`scheduler_parallel_safety_contract.py`, `scheduler_claim_fencing_contract.py`) | leases and attempts in `tasks` | `claim_orchestrator_ready`, `renew_orchestrator_claims`, `_snapshot_claim`, `_commit_success`, `_fenced_fail` | ledger, scheduler loop, heartbeat thread | leases lapse under a live worker; stale commits |
| **Complete orchestrator** (`complete_orchestrator.py`) | futures, retries spent, heartbeat errors | open and resume a run, stages, scheduler loop, `_run_work_node`, unwinding | everything above | main thread, workers, heartbeat and operator interleave; exceptions at every call; waiting on rows |
| **Project write lock** (`project_write_lock.py`) | writer, depths, waiting writers, path locks | coarse and path-scoped locking, nested | generators, patches, verifiers, commit-lane nodes | time-outs, nesting, starvation, deadlock |
| **Source patches** (`source_patch.py`, `project_mutation.py`) | files, the owner's revision and changes | stage, commit, roll back, report | project lock, verifiers | one of several file operations failing; stale texts and revisions |
| **Staged generation and shared edits** (`performance_final_contract.py`, `project_edit.py`, `java_core.py`) | wave snapshots, staged patches, tracked revisions | snapshot, generate, merge, commit; edit; verify | lock and patches | snapshots older than the files they are merged into |
| **Model concurrency** (`model_concurrency.py`, `deadline_executor.py`) | readers, writer, suspended reads, slots, budgets, publication locks, active units | read-write lock, capacity gate, budgets, publication, rounds of units | model router, artifact graph | upgrades that time out, re-entry, hanging calls, late publication |
| **Artifact graph** (`artifact_graph_executor.py`, `artifact_job_checkpoint.py`) | files, path and job records, ports, scheduler | schedule, compare, generate, materialize, retire the former candidate, publish, record, restore, validate | budgets of model concurrency | threads left behind, crashes between two records, stale evidence |
| **MCP transport pool** (`mcp_transport_pool.py`, `runtime_hot_path_contract.py`) | worker queues, loads, futures, sessions, fingerprints | reserve, submit, call, cancel, retry, close | agent tools | close racing submit, cancellation racing execution, schema drift |
| **Plan compiler** (`work_graph.py` 77–240, 1017–1343) | none (pure) | `compile_work_graph`, sharding, topological order | produces the plan `sync_plan` stores | sequential: not modelled (section 8) |
| Planning, construction, routing, tuning, retrieval, validators, packaging, external processes | large, data-heavy | – | – | in the data, not in the protocol: not modelled (section 8) |

What makes each modelled component correct:

* ledger: nothing runs or counts as done on a dependency that is to be redone;
  evidence belongs to the input it is stored for; a stale claim stays stale;
* checkpoints: a result fits the input asked for, an action runs once at a
  time, a success is kept, nothing stays `running` without a caller;
* orchestrator: cancellation stops publication, successes are not replayed,
  workers that must not overlap do not, and a process that is not killed ends;
* project work: a transaction is seen whole or not at all, no edit is lost, a
  verifier learns of every change, whoever waits for a lock gets it;
* model work: nothing is published after its cancellation, the GPU has one
  exclusive user, no unit is lost and no hanging call holds up the rest;
* artifact graph: jobs run after their producers, bytes and evidence agree,
  evidence is reused only while it is true, a call that is over changes no target;
* transport pool: one tool surface per scope, no effect after cancellation, at
  most one execution of what must not be repeated, no request forgotten.

`PROJECT.json` lists every component, and under `hazards` the places in the
code where these can go wrong.

## 2. Modules

```
WorkGraph            what the ledger promises (abstract)
   ^ implements (checked, and proved for every instance)
LedgerClients        the ledger under arbitrary clients        <- LedgerClientsProofs
   ^ implements (checked, and proved for every instance)
Orchestrator         the processes that execute a run          <- OrchestratorProofs
   | EXTENDS, as LedgerClients does
WorkLedger           the ledger's transactions                 <- WorkLedgerProofs
Checkpoints          the checkpoints table and its calls       <- CheckpointsProofs

ProjectWriteLock     the project lock
   ^ EXTENDS
SourcePatch          transactions on files, the mutation owner
   ^ EXTENDS
ProjectEdits         the threads that edit, generate, patch and verify  <- ProjectEditsProofs

ModelGate            the GPU lock and the inference slots
   ^ EXTENDS
ModelWork            units of model work, their budgets, their scheduler  <- ModelWorkProofs
   ^ its publication is one step here
ArtifactGraph        artifact jobs, their evidence and their scheduler  <- ArtifactGraphProofs

TransportPool        tool calls over pooled sessions           <- TransportPoolProofs
```

The modules `MC...` give TLC its instances.

**WorkLedger** has the state of the two task tables. `task[n]` is the row of
node `n`: `state`, `attempt`, `lease_owner`, the lease, `input_hash`, the
receipt, and a history counter `born` of row incarnations. `edges` is the
dependency table and `cancelled` the metadata key `cancel_requested`. Each
operator with primed variables is one committed transaction of the code:
`SyncPlan`, `Invalidate`, `Begin`, `ClaimOrchestratorReady`, `ClaimReady`,
`CommitSuccess`, `FencedFail`, `Succeed`, `Fail`, `RetryUpdate`, `Cancel`,
`CancelRun`, `ResumeRun`. `retry()` is two statements in the code and two
operators here (`RetryAccepts`, `RetryUpdate`). The recursive SQL query for
the downstream nodes is its least fixed point.

Abstractions: an input hash is a value of a small set; a receipt is the hash
of the input it was computed from (so "input-bound evidence" can be stated);
a lease is `none`, `held` or `lapsed`, because the code only ever compares it
with the clock; error texts, payloads and time stamps are left out.

**LedgerClients** lets any client issue any transaction at any time. Clients
remember two things: claims they took a snapshot of, and rows for which the
first statement of `retry()` has been answered. `OneExecutor` says that a
single process executes the run; `_open_run` takes no lock on the run, so both
values are of interest.

**Orchestrator** has one record per process for the main thread and one per
process and node for the workers. A step is one ledger statement with the
local control that follows it.

| Action | Code |
|---|---|
| `OpenRun`, `ResumeLoop`, `MainRetry`, `MainRequeue` | `_open_run`, the loops over failed nodes, `retry` |
| `Stage`, `StageInput`, `StageTask`, `StageBegin`, `StageSucceed` | the stages of `execute`, `_succeed_work_node` |
| `Top`, `Reap`, `ReapEnd`, `ClaimNode`, `ClaimNothing`, `ClaimLapsed`, `Inspect`, `Decide` | the scheduler loop of `_execute_generation_work` |
| `CancelFuture`, `Unwound` | its `finally` block |
| `HeartbeatFails` | `generation_lease_heartbeat` |
| `StartWorker` … `UnfencedFail` | `process_node`, `_run_work_node`, `_commit_success`, `_fenced_fail` |
| `WorkCancelRun`, `WorkResumeRun` | the MCP tools of `mcp_server.py` |
| `Crash`, `LeaseEnds` | the operating system and the clock (external) |

`MayFail`, `MayDrift`, `MayCrash` and `MayStall` switch the sources of trouble
on: actions that raise, `process_node`'s own checks that raise, killed
processes, and heartbeats missed for a whole lease.

**Checkpoints** has the row of every checkpoint and the control state of every
call of `run_named_checkpoint`. A stored receipt may be damaged on disk (`Rot`),
is then discarded by the next reader (`ReadCached`, `DiscardDamaged`) or the
next opening of the ledger (`OpenLedger`).

**ProjectWriteLock** has the fields of `ProjectLockState` and, per thread, where
it stands in a call of the lock. A step is what happens between two waits on
the condition, or one acquire or release of a path's lock. `asleep` holds the
threads inside `condition.wait()`; `notify_all` empties it, a deadline lets a
thread wake by itself.

**SourcePatch** adds the files and the `ProjectMutationOwner`. A transaction
stages all its files, commits them one by one in order or in any order (the
thread pool), rolls back in reverse order if one failed, and reports. The text
of a file is the set of edits in it, a digest is the text. Every file operation
may fail, and a failed rollback may tear a file.

**ProjectEdits** composes the two with the jobs that use them:

| Kind | Code |
|---|---|
| `edit` | `ensure_dependency`, `ensure_client_entrypoint`: path locks, read, patch |
| `merge` | functions under `_atomic_shared_edit`, once or twice decorated; a commit-lane node |
| `generate` | `staged_generate`: join or make the wave's snapshot, then rebase and commit (nothing installs it at this commit, section 8) |
| `patch` | `snapshot()` without a lock, then `apply()` |
| `verify` | `JavaCoreService.diagnostics`: coarse lock with a deadline, revision, files, revision again |

**ModelGate** has `ReentrantReadWriteLock` (with upgrades that suspend the read
claim) and `ReentrantCapacityGate`; a thread with a budget polls, one without
sleeps until it is notified. **ModelWork** runs a round of
`iter_completed_with_deadlines` over it: units pass the scopes of
`ModelRouter`, infer (or hang), leave and publish under the locks of their
budget chain. The kinds of use are `text` (slot and shared lock), `solo`
(exclusive), `image` (exclusive, entered twice), `upgrade` (shared, then
exclusive: the case the comment at `model_concurrency.py:228` describes) and
`nested` (shared twice, which no caller does today). Time is which leases have
run out.

**ArtifactGraph** has the files, the two record tables, the ports and the
scheduler of the current call, and the threads of all calls so far: an
abandoned thread of an earlier call goes on beside the next one. A job takes its
locks (`LockJob`, `Compare`), then restores, or generates, materializes, retires
what is left of its file in a former place, publishes its port, writes the path
record and the job record. `legacy` is that former place: client classes of
Minecraft 26.x moved from `src/main` to `src/client` (`Relocated`), and a project
may still have the old candidate, or a file of the user's, there. `Retire` is
`retire_owned_legacy_client_candidate`, called after the write
(`integrity_dispatcher.py:323`): it deletes the one and refuses the other, and is
the only change of the project outside the publication scopes. A file is the
sequence of the pieces the jobs put into it, so that a piece put in twice can be
seen. `torn` and `unindexed` are history: files of a job that was stopped
between the file and its path record, or between the two records.

**TransportPool** has, per call, the request and where its caller stands, and
per worker the queue, the puts that wait for room, the session and the current
request. A future may be cancelled at any await, between the worker's `done()`
and its `set_result` or `set_exception` included. The pool and the contract that
replaces its `_execute` are installed by tests only at this commit.

## 3. What the passing runs show

| Run | Instance | Properties |
|---|---|---|
| `LedgerClients` | chain of 3 nodes, plans that drop a node and change the input of the next, one owner and the fixed worker id, 1 remembered claim | `TypeOK`, `DepsDone`, `InputBound`, `RowEvidence`, `StaleStaysStale`, `ImplementsWorkGraph` |
| `OrchestratorTwo` | 2 processes at once on one node, lapsing leases, a cancellation and a resume | `CancelStopsGeneration` |
| `OrchestratorStages` | 2 successive processes, stages around 1 node, failures, drift, crashes, 2 cancellations | `NoReplay`, `ImplementsClients` |
| `OrchestratorFailures` | 2 successive processes, 2 nodes of a serial stage, stages, changed plan, failures, stalls, crashes | `NoLostClaim`, `SafeConcurrency`, `ReceiptMatchesInput` |
| `OrchestratorCompletes` | 2 successive processes, chain of 2 with stages, changed plan, crashes; fairness | `Completes` |
| `OrchestratorTerminates` | 2 successive processes, 2 nodes with stages, failures, stalls, crashes; fairness | `Terminates` |
| `Checkpoints` | 4 calls, 2 inputs, 2 cancellations, failures, crashes, damage | `TypeOK`, `ResultFits`, `NoOrphan`, `Exclusive`, `SuccessKept` |
| `ProjectEdits` | 3 threads, 2 files of which 1 exists: an endless editor; an editor, generator or patcher; a verifier, generator or merger; 2 faults | `NeverHalfway`, `AllOrNothing`, `ChangesComplete`, `NoPathDeadlock` |
| `ProjectLiveness` | 2 endless editors and a verifier, merger or generator; fairness | `CoarseServed`, `ScopedServed` |
| `ModelWork` | 2 units and a caller without a budget in 8 settings of use, slots, width and isolation; 1 renewal | `NoLatePublication`, `GPUExclusive`, `ClaimsMatch`, `NothingLost`, `SleepersHaveWaker`, `HangContained` |
| `ArtifactGraph` | a job that creates a file and two that need its port and patch a second file, 2 workers, 2 calls, 1 crash, 2 versions of the program; the created file is `Relocated`, with anything in its former place | `InOrder`, `QuietAfterEnd`, `ReuseSound`, `BytesHaveEvidence`, `SuccessHasEvidence` |
| `TransportPool` | a verifier's call and another one in one scope, 2 workers with a queue of 1, 2 surfaces, 2 attempts | `OneSurface`, `NoLateEffect`, `AtMostOnce`, `NothingForgotten` |

The other modules state a type invariant too, as the description of their
variables; it is proved (section 5) and not part of a run.

The properties, in words:

* `DepsDone` – a node is running or succeeded only while its dependencies are
  succeeded. `ImplementsWorkGraph` adds that the set of successes only grows
  by one ready node at a time and shrinks only to a closed set.
* `StaleStaysStale` – the fence: a claim on a row that was expired, failed,
  cancelled, invalidated or taken over never becomes current again.
  It is stated within one incarnation of a row; the code's fence holds no
  incarnation (see the hazard at `work_graph.py:314`).
* `InputBound`, `ReceiptMatchesInput` – a live claim, and a published success,
  refer to the input the row has now.
* `RowEvidence` – receipts and owners are exactly where the state says.
* `CancelStopsGeneration` – no generation node becomes succeeded while a
  cancellation is in force.
* `NoReplay`, `SuccessKept` – what has succeeded is not run again.
* `SafeConcurrency` – workers that change the project together are on different
  nodes, not in one serial stage, not on both models of one GPU. The run has no
  shared GPU; the clause about it rests on the proof (`RunsApart`, section 5).
* `NoLostClaim` – a row claimed by a looping scheduler has a worker there.
* `ResultFits`, `Exclusive`, `NoOrphan` – checkpoints, as in section 1:
  exclusion until the run is cancelled, no orphan until a process is killed.
* `Completes`, `Terminates` – the liveness of a run.
* `NeverHalfway` – whoever holds the coarse lock meets no transaction halfway.
* `AllOrNothing` – an applied edit stays in all its files, a failed one is in
  none, whatever is merged, snapshot and rolled back by others.
* `ChangesComplete` – `changes_since()` names every file that differs from what
  a verifier read, or the owner's id has changed (then `java_core.py:321` asks for no
  changes). It is about what goes through the patcher; section 8 names the writers
  that do not.
* `NoPathDeadlock`, `CoarseServed`, `ScopedServed` – waiting at the lock ends.
* `NoLatePublication` – "Once cancel() returns, an abandoned worker cannot
  publish another result", and none is published after the round.
* `GPUExclusive`, `ClaimsMatch` – the exclusive user of the GPU is alone, and the
  counters are exactly the scopes the threads are in.
* `NothingLost`, `HangContained` – a round reports every unit, or says why
  not, and ends in spite of calls that never return. `HangContained` is a
  safety formulation: where no step of the program itself is possible, the
  round is over and nobody waits.
* `SleepersHaveWaker` – no untimed sleeper is forgotten (one exception, section 4).
* `InOrder` – a job starts after the validation of its producers, and
  something runs as long as jobs are left.
* `BytesHaveEvidence`, `ReuseSound`, `SuccessHasEvidence` – files and records
  agree, now and when they are reused; their exceptions are the crash windows of section 4.
  A successful call leaves nothing in the former place of a file.
* `QuietAfterEnd` – threads of a call that is over change no target and no record. All
  they may still do is to delete the former candidate of a file, and only of their own
  job's, with the job's answer in place (section 4).
* `OneSurface` – all tools of a scope are called on one tool surface.
* `NoLateEffect`, `AtMostOnce` – no tool runs for a request cancelled in the
  queue, and none but a verifier's runs twice.
* `NothingForgotten` – a waiting caller's request is with a worker that will come to it (one exception, section 4).

Each property has a mutant: a definition of the model changed as a plausible
bug would change the code (a dropped guard, a missing reset, a publication
without its fence), under which TLC finds the property violated.

### Bounds

* Two generation nodes are enough for the conflicts the scheduler knows (one
  stage, one GPU, one lane, one dependency); three ledger nodes are enough for
  an invalidation that has to reach past a direct dependant.
* Two owners give a process and its successor, or two at once.
* `MaxAttempt` counts grants per row. It is 12 in the runs of one process at a
  time, which never reach it (so it does not cut a liveness run), 2 or 3 where
  grants could go on for ever: two grants are needed for a stale claim.
* `MaxBorn` is 1: a dropped node does not come back in the runs (the proofs
  cover rows that are born again). `MaxCancel` 1 or 2 bounds the operator's
  cancellations; two let a resumed run be cancelled again.
* Two project paths give a multi-file transaction that can be caught halfway and
  a lock order that can be broken; three threads give a writer, its victim and a
  reader. `MaxFaults` 2 lets a commit and its rollback both fail. `MaxVerify` is 1:
  a second verification adds a second tracked revision, no new step.
* Two units and one caller fill the slots, the lock and its queue; `MaxRefresh` 1
  lets a lease run out, be renewed and run out again.
* In `ArtifactGraph` two calls give an abandoned thread beside a new call, or a
  restart; a third call multiplies the states by more than 25. What takes more calls
  (`Outdated`, section 4) is covered by the theorems.
* In `TransportPool` two requests per client reach the retry and the listing
  before a call; one scope is used, so that a worker's switch to another scope
  does not happen in the run. Surfaces are symmetric.
* `CHECK_DEADLOCK FALSE` where processes, calls, jobs and rounds end.
  `LedgerClients` checks for deadlock.
* Owners, calls and hashes are symmetric where the run has no liveness property.

### Fairness

`Orchestrator!Fairness` is weak fairness of each main thread, of each worker,
and of the lapse of a lease nobody alive renews. The operating system
schedules threads. A node's action ends because, as `dispatch_node` says,
"Model/tool/compiler layers own their own bounded waits and liveness checks".
A lease nobody renews runs out because time passes. Nothing is assumed of the
operator, of crashes or of failures.

`ProjectEdits!Spec` has weak fairness of each thread's steps, once a job is
begun: the operating system schedules threads and jobs are finite. Nobody has to
begin a job or to time out. A path lock is taken under weak fairness of the whole
thread, so a liveness claim about path locks is not made (Python's RLock is not
fair); waiting at the gate is covered because the gate prefers coarse writers and
the threads of a scope leave it.

## 4. Where the code departs from what it says

The passing runs are set, and a few properties are stated, so as to leave out
behaviours of the code that contradict its own comments. They are listed
here with the setting that shows them; each can be reproduced by the change of a
`.cfg` file named, or by removing the named exception from the property.

Ledger, orchestrator and checkpoints:

* *A failure that is not stored.* "The generation worker has fenced/persisted
  its failure" (`complete_orchestrator.py:2416`). A worker that raises at the
  cancellation gate (2786) stores nothing; when `retry()` has put a row back that
  `cancel_run` had just cancelled, the row is claimed and stays running under the
  scheduler's own lease. `NoLostClaim` fails with `MayFail` and `MaxCancel = 1`.
* *A row without a lease.* "a later process can reopen the ledger, reclaim expired
  leases and keep working" (`work_graph.py:254`). `begin()` (375) gives no lease;
  after a crash the row is never reclaimed and the next process waits for ever.
  `Terminates` fails with `MayCrash` and `MaxCancel = 1`.
* *Serial stages overlap.* "work within the same domain is serialized by scheduler
  admission" (`scheduler_parallel_safety_contract.py:20`). Admission counts rows:
  after cancel and resume the row of a worker still acting is pending and a second
  node of the stage is admitted. `SafeConcurrency` fails with `MaxCancel = 1`.
* *A success is replayed.* "without replaying successful nodes"
  (`work_graph.py:256`). With two processes on one run directory the unguarded
  UPDATE of `retry()` (482) puts a success back to pending. `NoReplay` fails with
  `OneExecutor = FALSE` and `MayFail`.
* *A checkpoint is blocked.* A crash during a checkpoint's action leaves its row
  running; every later call is refused until the run is cancelled and resumed
  (`work_graph.py:574`). `NoOrphan` fails without its premise.
* `Terminates` fails with `MayDrift`: a payload check of `process_node`
  (2209–2220) raises before `_run_work_node`, so nothing is stored and the heartbeat
  renews the row for ever; `NoLostClaim` fails with it for the same reason.
  `ReceiptMatchesInput` fails with two processes and a
  changed plan: `_snapshot_claim` adopts the claim of the process that took over,
  and the fence does not compare inputs. `Exclusive` without its premise fails after
  cancel and resume.
* `CancelStopsGeneration` fails with two processes, `MayFail` and a cancellation. One
  process is between the two statements of `retry()` when the run is cancelled, puts
  the cancelled row back to pending (`work_graph.py:482`) and claims it; a worker of
  the other process that read the row while it had no owner publishes it with the
  unfenced `succeed()`. With one process at a time it cannot (section 5).

Model concurrency:

* A writer that gives up waiting lowers `_waiting_writers` and notifies nobody
  (`model_concurrency.py:255`) unless it had a read claim to restore. A reader
  without a budget that sleeps because of it sleeps until something else
  notifies. `WriterGaveUp` is the exception in `SleepersHaveWaker` and
  `HangContained`.

Artifact graph:

* A crash or a cancellation between the write of a file and its path record leaves
  bytes without evidence (`torn`). The next call finds `EXCLUSIVE_FILE_CONFLICT` or
  `TARGET_DRIFT`, or patches the file a second time.
* "a crash before updating it cannot detach refreshed bytes from their evidence"
  (`artifact_job_checkpoint.py:298`). A crash between the two records leaves the job
  out of the index. A later call restores it from the path record without
  writing the index; when another job of the same file then takes over the path
  record, the evidence of the first is gone and a later call patches again.
  `unindexed` is the exception in `SuccessHasEvidence`.
* If the index had an older record of that job, the older record is read again. A
  creating job is run under version 1 of the program and refreshed under version 2, but
  stopped before the index; it is restored from the path record; a patch job takes
  that record over; and back under version 1 the first, outdated record has the right
  input and fingerprint. It is reused although its bytes are gone: `_read_job_record`
  (63) compares no hash of the index record with the path record, and a reuse looks only
  at the hash of the path (205). `Outdated` is this exception in `ReuseSound` and
  `SuccessHasEvidence`. It takes four calls and three crashes; the proof found it, and
  TLC confirmed it on two jobs of one file.
* A new version of the program makes every `JAVA_PATCH` job patch its file again
  (204–230).
* A thread deletes after its call. The writes of a job are publications, which a
  cancelled budget refuses; `old.unlink()` (`canonical_java_target_contract.py:138`) is
  not one and looks at no budget. A thread cancelled between its write and this line
  deletes the former candidate when the call has already returned its error.
  `QuietAfterEnd` fails with `UNCHANGED legacy` in place of its second conjunct; what
  it says instead is that the deletion is never of anything else and never without the
  answer in the new place.
* "refusing to delete unowned file" (line 135) comes after the new bytes are written:
  the job fails, and the file it has written is `torn` as after a crash.
* A thread that hangs in its generator keeps the locks of its job and target
  (186): in the same process the job waits for them until its own lease runs out.

Transport pool:

* A request put behind the end marker when `close()` meets a submission is never
  answered (`mcp_transport_pool.py:150`, 168); `Behind` is the exception in
  `NothingForgotten`.
* When a caller cancels between `done()` and `set_exception` (275, 276) the
  exception ends the worker's thread. Its queue is failed, its load falls to zero,
  and `min(..., key=pending)` (492) prefers it for later calls, which fail.
* A put that succeeds while its time-out is being noticed counts as a transient
  failure: a verifier's call is then executed twice. It is harmless for
  verifiers, which is what `AtMostOnce` says.

## 5. Proofs

Proved by TLAPS for every set of nodes, plans, owners, hashes and calls and
every bound, from the named assumptions of the modules only. For the ledger and
the checkpoints these are few (node ids are natural numbers; the fixed worker id
and NULL are not owners or hashes; plans name their own nodes, and equal input
hashes mean equal dependencies, which holds because the hash covers the
dependency list).

`WorkLedgerProofs` has what each statement of the ledger makes of a row and leaves
alone, the types of rows included; the two modules about its clients rest on it.

`LedgerClientsProofs`

* `TypeCorrect`, `Fencing` (`StaleStaysStale`), `InputBinding` (`InputBound`)
  hold for any clients, two executing processes included. `StaleStaysStale` is
  not inductive by itself: a claim could carry an attempt number that is still
  to come. `FenceInv` adds that every claim's attempt was granted already
  (`ClaimInv`) and that a row has an owner exactly while it is running
  (`OwnerInv`). The step proof goes through `RowSteps`: each client
  step changes a row in one of a few ways (kept, released, granted, published,
  renewed, reborn), and the fence is checked against those.
* `DependenciesDone` (`DepsDone`), `EvidenceTruth` (`RowEvidence`) and
  `Refinement` (`ImplementsWorkGraph`) need `OneExecutor`: the second
  statement of `retry()` would otherwise undo a success under its dependants
  (section 4). `GraphInv` adds to `FenceInv` that the stored rows and
  edges are those of a plan (`PlanInv`), that no row between the two
  statements of `retry()` is succeeded (`RetryInv`), that receipts stand exactly
  on succeeded rows (`ReceiptInv`), and `DepsDone`. `DownstreamClosed` is the fact
  about the closure that makes invalidation and plan changes discard a closed
  set.

`CheckpointsProofs`

* `TypeCorrect`; `ResultsFit` (`ResultFits`), through `ResultInv`: the receipt
  of a succeeded row is damaged or belongs to the row's input.
* `NeverOrphaned`: `NoOrphan` is inductive with the types: until a process is
  killed every step that ends a call also ends its row.
* `Exclusion`: `Exclusive` holds, through `ExclusionInv`: until the run is
  cancelled a working call holds the running row of its checkpoint, and no two
  working calls hold the same one.
* `SuccessStays` (`SuccessKept`): needs the types only, once it is split into
  what each step does to a row it finds succeeded (`KeptStep`).

`OrchestratorProofs`, for any nodes, stages, plans, processes, capacities and bounds,
with failures, drift, crashes and stalls switched on or off (assumed besides: there are
finitely many processes and generation nodes)

* The actions are classified first: `WorkerEffects`, `MainEffects`, `ReapEffects`,
  `ClaimNodeEffects` say, per step, where its thread comes from and goes to and
  which single ledger statement it makes. The invariants below are checked against
  these effects, and against `RowMoves` (what a step does to a row, and which
  thread may do it) and `WorkerMoves`, and not against the actions.
* `TypeCorrect`, through `ShapeInv`: a main thread's loop goes through nodes of its
  own plan; a worker belongs to its process's plan and loop; it has a claim exactly
  where `_run_work_node` has read one; and it is gone when the main thread
  retries its node.
* `Clients` (`ImplementsClients`), for any number of processes at once. A step maps to the
  client transaction of its ledger statement, to the snapshot or the dropping of a claim, to the
  first statement of `retry()`, or to a stutter (`Simulation`). It needs `ShapeInv`,
  because the clients remember claims and retried rows as sets: two threads must not
  forget what a third one still holds. For the second statement of `retry()`,
  where one process executes, `Solo` (at most one is alive, `ExecInv`) makes the
  retried rows one thread's.
* By `Clients` the theorems of `LedgerClientsProofs` are theorems about the
  orchestrator: `WorkersFenced` (`StaleStaysStale`), `WorkersInputBound`
  (`InputBound`) and, with one executing process, `RunConsistent` (`DepsDone`,
  `RowEvidence`) and `RunWorkGraph` (`ImplementsWorkGraph`).
* With one executing process: `ReceiptsMatch` (`ReceiptMatchesInput`) and `CancelStops`
  (`CancelStopsGeneration`), through `RunInv`. The rows of a live process's plan are
  there and have its inputs (`PlanKept`), which is why a receipt fits although the
  fence compares no inputs; no worker works on a succeeded row (`Unfinished`); no
  claim runs ahead of its row (`Behind`); and under a cancellation whoever passed
  the second `raise_if_cancelled` has lost its claim, or its row is neither running
  nor pending (`CancelHolds`). "Not running" would not be inductive: a pending row
  can be claimed again.
* `NothingReplayed` (`NoReplay`), with one executing process, from `RowMoves` and
  the fact, carried over, that no row between the two statements of `retry()` is
  succeeded.
* `RunsApart` (`SafeConcurrency`), with one executing process and until the first
  cancellation (section 4 says what happens after it), through `CalmInv`: every
  worker works on a row that is running under its own process and, from the snapshot
  on, holds its current claim (`CalmWorkers`), so that what admission knows of rows
  is true of workers; and rows that run together may (`Compatible`). A live process's
  lapsed lease is not expired by its own claims, and no other process is alive.
* `ClaimsServed` (`NoLostClaim`), under the same conditions and without drift, through
  `ServedInv`: what a scheduler has left to reap is done (`ReapInv`), and a row running
  under a process has a worker at work there unless the process is unwinding or has
  ended (`Served`).

`ModelWorkProofs`, for any threads, budgets, slots, workers and programs of the
units (assumed: the round submits each budgeted thread once, the caller's budget
is nobody else's, at least one slot and one worker)

* `LatePublicationExcluded` (`NoLatePublication`), `RoundLosesNothing`
  (`NothingLost`) and `ModelWorkTypes` rest on `RoundInv`: how far a
  thread is in its program tells what it may do next; an item is submitted once;
  who publishes holds the two publication locks that a cancellation waits for; and
  what was not reported is still to be submitted or active, unless the round was
  cut short.
* `ClaimsAlwaysMatch` (`ClaimsMatch`) and `WriterInfersAlone` (`GPUExclusive`)
  rest on `ClaimInv`. That the counters are the scopes is not enough for the
  second: an upgrade that timed out takes its read claim back although another
  thread may be the writer by then, so "readers and a writer exclude each other" is
  false of this lock. True is that beside a writer only a thread on its way out
  (`back`) has a read claim.
* `NoSleeperForgotten` (`SleepersHaveWaker`), through `SleepInv`: a sleeper is
  waiting for the very scope it sleeps on.
* The proof attempt found one mistake of the model: `Outside` was a CASE of
  overlapping guards, so that a unit that gave up had two successors on paper and
  one in TLC. It is now a conditional.

`TransportPoolProofs`, for any clients, scopes, workers, queue lengths and
surfaces (assumed: NULL, the end marker and the outcomes of a future are no
requests and no surfaces)

* `ScopeKeepsSurface` (`OneSurface`), through `PinInv`: what a worker's session
  offers is compared with the surface registered for its scope before a tool is
  called, and until the pool is closed the registration stands.
* `CancelledNeverRuns` (`NoLateEffect`) and `CallsRunOnce` (`AtMostOnce`), through
  `FreshInv` (nothing reaches a worker before its put), `GoneInv` (what was
  cancelled stays so), `OnceInv` (a call that is not a verifier's is its client's
  last request) and `AnswerInv`.
* `WaitersAreServed` (`NothingForgotten`), through `KeptInv`, and `PendingInv`: a
  worker's load is the number of its unfinished requests. `EarlyInv`, that a
  future is open until its put is scheduled, is a fact the first attempt
  lacked: without it a put could be made for a request nobody awaits.
* `TransportTypes`.

`ProjectEditsProofs`, for any threads, roles, targets, faults and any paths that
are natural numbers (the lexical order of the code); assumed besides: the marks
for an absent and a torn file are no texts, and a wave is not NULL

* `PathLocksDeadlockFree` (`NoPathDeadlock`): `LockInv` says that the scopes of a
  thread hold exactly the locks it has taken (`HolderOK`), that it holds none above
  the one it takes next (`ScopeOK`), and that there is a highest locked path
  (`BoundOK`). Of the threads of a set the one that waits for the highest path
  has nobody of the set in its way.
* `CoarseLockExcludes` (`NeverHalfway`): the counters are the open scopes and a
  writer is alone (`CountOK`); `PlaceInv` says where in the lock a thread is at
  each step of its job, hence that a transaction under way has its scope open.
* `EditsAllOrNothing` (`AllOrNothing`): `TextInv` adds what the texts are. Two
  transactions never have a path in common, because both have it locked; a plan
  is the text it found with its own thread's edit (`PlanOK`); a file of the plan
  is old or new according to how far the transaction came (`StageOK`); and nobody
  has read the edit of a thread that has written nothing (`SeenOK`), so no stale
  snapshot brings a rolled-back edit in through a three-way merge.
* `OwnerTellsChanges` (`ChangesComplete`), through `ReadOK` and `ChangeOK`: where a
  file differs from what a verifier read, the owner has recorded a later change, or
  the transaction that will report it is under way.
* `ProjectTypes`.

`ArtifactGraphProofs`, for any graph of jobs, any number of workers, calls, crashes
and versions (assumed: `Order` lists each job once; the graph has no cycle, which
`artifact_job.py:404` refuses; NULL is no answer, thread or record, and an absent
file no content)

* `Inv` has the control of a call in four parts: the sets of the scheduler tell where
  the threads are, and whatever still runs is of the current call or cancelled
  (`SchedInv`); locks are held exactly at the steps between taking and leaving them
  (`LockInv`); the counters are the producers not yet validated, the heap the pending
  jobs without any (`OrderInv`); the port of a job is its thread's answer (`PortInv`).
* Its other parts are what the disk says: `FilesInv`, what the holder of a target's
  lock knows of the file and its records; `BytesInv`, `PathInv` and `IndexInv`, how
  bytes, path record and index record belong together, with the two crash windows as
  their only exceptions; and `PassedInv`, that a job that has passed in this call keeps
  its evidence while other jobs patch the same file.
* `GraphRunsInOrder` (`InOrder`): if nothing runs while jobs are pending, a job none of
  whose producers is pending has all of them validated, so it is in the heap and the
  wake-up would have submitted it. `Submits` counts the jobs before it in the
  heap's order, which also bounds the generators (`ArtifactTypes`).
* `CallsEndQuietly` (`QuietAfterEnd`): who passes a publication is not cancelled, hence
  of the current call, hence the call is not over. The deletion has no such guard: that
  the thread's answer stands in its file then is what `FilesInv` says of the holder of
  the target's lock, which a thread keeps after its call.
* `LegacyInv`, a second invariant (`ArtifactInvariant` has both): a file with a path
  record has nothing in its former place, and neither has one whose writer is past
  `Retire`. The two halves need each other: a record is written only past `Retire`, and
  a job that is refused there leaves no record. `SuccessIsEvident` uses it for the jobs
  that were restored, which do not come to `Retire` at all.
* `ReuseIsSound` (`ReuseSound`), `BytesMatchEvidence` (`BytesHaveEvidence`) and
  `SuccessIsEvident` (`SuccessHasEvidence`) follow from the parts about the disk.
* The first attempt at `ReuseSound` failed, and rightly: without `Outdated` it is false
  of the code (section 4). The run with two calls had not reached that.

The inductive invariants were checked by TLC on the instances of the runs before
they were proved, that of ArtifactGraph also with two jobs of one file, four calls
and three crashes.

Model-checked only:

* liveness (`Completes`, `Terminates`, `CoarseServed`, `ScopedServed`: fairness is
  outside the prover) and `HangContained` (ENABLED);
* `CancelStopsGeneration` for two processes at once, which holds in the run without
  failures (`OrchestratorTwo`) and not with them (section 4).

## 6. Running it

    tlc -config LedgerClients.cfg MCLedgerClients
    tlc -config OrchestratorTwo.cfg MCOrchestrator
    tlc -config Checkpoints.cfg MCCheckpoints
    tlc -config ProjectEdits.cfg MCProjectEdits
    tlc -config ModelWork.cfg MCModelWork
    tlc -config ArtifactGraph.cfg MCArtifactGraph
    tlc -config TransportPool.cfg MCTransportPool
    tlapm WorkLedgerProofs.tla
    tlapm LedgerClientsProofs.tla
    tlapm OrchestratorProofs.tla
    tlapm CheckpointsProofs.tla
    tlapm ModelWorkProofs.tla
    tlapm TransportPoolProofs.tla
    tlapm ProjectEditsProofs.tla
    tlapm ArtifactGraphProofs.tla

The other runs differ in the `.cfg` file; `PROJECT.json` pairs each with its
module.

## 7. Plan

Done: the ledger, its general clients, the abstract work graph and the
refinement between them; the orchestrator; the checkpoints; the project lock,
source patches and the threads that use them; the model gate and rounds of model
work; the artifact graph; the transport pool; the proofs of section 5, which cover
every safety property of the runs but `HangContained`, under the conditions named
there. Open, in this order:

1. Model additions: damaged task receipts, `invalidate_execution_feedback`, the
   switch of a transport worker between scopes.
2. What remains true of the orchestrator after a cancellation and a resume, where
   `SafeConcurrency` and `NoLostClaim` fail.

## 8. Not modelled, and why

* What a node's action does to the project (source generation, images,
  reviews, index updates): decided by models and validators; in the model an
  action succeeds or fails.
* Receipts of tasks damaged on disk, and digests of legacy receipts: in the
  model a receipt and its digest are one value.
* The plan compiler: sequential and pure; the modules accept every plan that
  satisfies `PlanAssumption`.
* Source patches: `delete` operations, `model_revision` (it counts a part of the
  same commits), the normalisation of operations. Edits: `write_text_files`, and
  the callers that write files directly under path locks
  (`asset_resume_efficiency_contract.py`, `typed_plan_production.py`) or under the
  coarse lock (`host_fabric_initializer_wiring.py:178`), and the materialization and
  retirement of artifact jobs: none of them tells the mutation owner, so that
  `changes_since()` does not name what they wrote.
* Staged generation is modelled although no code calls
  `performance_final_contract.install()` at this commit, and the class it wraps,
  `CustomModuleGenerator`, is defined nowhere: the jobs of kind `generate` describe
  the module as it is written. The other kinds do not depend on them.
* What the JVM owner does with the changes it is told of.
* Model work: changes of the gate's capacity during a round.
* Artifact jobs: changed approved inputs (refused), hashes of prerequisite
  sources, the history of Java patches, replacements by an expected hash, the
  shortcut for a graph of one job, the record of construction coverage between the
  deletion and the port (a publication like the others, in a file of its own), the
  scratch files of generators, the wiring of the entry point after success
  (another file), the planner's checkpoints and the proposal store. The former place
  of a file is taken to be no target of another job, and is one per file: whether a
  file there is the job's own is decided by package and class, which jobs of one file
  share.
* Transport pool: the blocking `_execute`, a worker whose start times out, and a spawn
  of a child or an exit of its context that never ends (they have no timeout).
* Planning, construction, routing, llama.cpp tuning, retrieval, validators,
  packaging: data processing and network I/O without protocol state of their
  own.
* External processes (Gradle, Minecraft, the JVM owner, language servers):
  operating-system behaviour.
* `work_graph_receipt_integrity_contract.py` is not installed by the production
  start-up and is left out.
