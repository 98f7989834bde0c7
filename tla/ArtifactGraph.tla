---------------------------- MODULE ArtifactGraph ----------------------------
(***************************************************************************)
(* execute_artifact_graph and the checkpointed jobs it runs, over several  *)
(* calls on one project: calls that end, calls that fail and leave their   *)
(* threads behind, and calls cut short by a crash.                         *)
(*                                                                         *)
(* Jobs are ordered by the ports they produce and require.  A job holds    *)
(* the locks of its identity and of its target while it compares the       *)
(* target with the evidence of earlier calls, and then either restores     *)
(* that evidence or generates, materializes its output, deletes what is    *)
(* left of it in a former place, publishes its port and records both: the  *)
(* path record first, the jobs record as its index.                        *)
(*                                                                         *)
(* Each publication (of bytes, of a port, of a record) is one step, since  *)
(* it excludes the cancellation of its budget (see ModelWork); the hash of *)
(* a file is its content, a sequence of <<job, output>> pieces.  Approved  *)
(* inputs do not change; the implementation may, between two calls.  The   *)
(* shortcut for a graph of one job is left out.                            *)
(***************************************************************************)
EXTENDS Naturals, Sequences, SequencesExt, FiniteSets

CONSTANTS
  Job, Order,     \* the jobs, and their order in the graph
  Requires,       \* the producers of the ports a job requires
  Target,         \* the files
  TargetOf,       \* the file of each job
  Creates,        \* the jobs that create their file; the others patch it
  Relocated,      \* the files that had another place before (client classes of 26.x)
  Value,          \* the answers of the model
  Answer,         \* those it may give for each job
  Workers,        \* _generation_parallelism
  Null, Absent,
  MaxCall,        \* bound: calls of the graph
  MaxCrash,       \* bound: crashes
  MaxImpl         \* bound: implementation_fingerprint

ASSUME ArtifactAssumption ==
  /\ Order \in Seq(Job) /\ IsInjective(Order) /\ ToSet(Order) = Job
  /\ Requires \in [Job -> SUBSET Job]
  \* the graph has no cycle: ARTIFACT_GRAPH_CYCLE, artifact_job.py:404
  /\ \A S \in (SUBSET Job) \ {{}} : \E j \in S : Requires[j] \cap S = {}
  /\ TargetOf \in [Job -> Target] /\ Creates \subseteq Job /\ Relocated \subseteq Target
  /\ Answer \in [Job -> SUBSET Value]
  /\ {Workers, MaxCall, MaxImpl} \subseteq Nat \ {0} /\ MaxCrash \in Nat
  /\ Null \notin Value /\ Absent \notin Seq(Job \X Value)

VARIABLES
  content,    \* the bytes of each file
  pathRec,    \* the record of each path
  jobRec,     \* and of each job
  legacy,     \* what is in the former place of each file
  impl,       \* implementation_fingerprint
  call,       \* the number of the current call
  phase,      \* where its scheduler is
  indegree, heap, pending, generating, validating, validated,
  ports,      \* its registry
  work,       \* the thread of each job of each call
  cancelled,  \* the threads whose budget is cancelled
  jobLock, targetLock,
  crashes,
  torn,       \* history: files a job had changed and not recorded when it was stopped
  unindexed   \* history: and files it had recorded but not indexed

disk == <<content, pathRec, jobRec>>
schedVars == <<indegree, heap, pending, generating, validating, validated>>
lockVars == <<jobLock, targetLock>>
histVars == <<torn, unindexed>>
runVars == <<impl, call, crashes>>
vars == <<disk, legacy, runVars, phase, schedVars, ports, work, cancelled, lockVars, histVars>>

Worker == (1 .. MaxCall) \X Job
JobOf(w) == w[2]
FileOf(w) == TargetOf[JobOf(w)]
Mine == {w \in Worker : w[1] = call}

Port == Value \cup {Null}
Bytes == Seq(Job \X Value)
Idle == [pc |-> "idle", val |-> Null, before |-> Absent, bind |-> [j \in Job |-> Null]]

Steps == {"idle", "queued", "job", "target", "gen", "mat", "retire", "port",
          "record", "index", "restore", "passed", "failed", "dropped", "check", "valid"}

\* No file, the former candidate of the job, or anything else.
Former == {"none", "owned", "foreign"}

\* A record keeps what a receipt says of its job.
Receipt ==
  [job : Job, val : Value, after : Bytes, bind : [Job -> Port], impl : 1 .. MaxImpl]

ASSUME MarkAssumption == Null \notin Receipt \cup Worker

TypeOK ==
  /\ content \in [Target -> Bytes \cup {Absent}]
  /\ pathRec \in [Target -> Receipt \cup {Null}]
  /\ jobRec \in [Job -> Receipt \cup {Null}]
  /\ legacy \in [Target -> Former]
  /\ impl \in 1 .. MaxImpl /\ call \in 1 .. MaxCall /\ crashes \in 0 .. MaxCrash
  /\ phase \in {"run", "cancel", "ok", "error"}
  /\ indegree \in [Job -> Nat]
  /\ {heap, pending, generating, validating, validated} \subseteq SUBSET Job
  /\ Cardinality(generating) <= Workers
  /\ ports \in [Job -> Port]
  /\ work \in [Worker -> [pc : Steps, val : Port, before : Bytes \cup {Absent},
                         bind : [Job -> Port]]]
  /\ cancelled \subseteq Worker
  /\ jobLock \in [Job -> Worker \cup {Null}]
  /\ targetLock \in [Target -> Worker \cup {Null}]
  /\ torn \subseteq Target /\ unindexed \subseteq Target

\* The scheduler before its first submission.
Degrees == [j \in Job |-> Cardinality(Requires[j])]
Roots == {j \in Job : Requires[j] = {}}

Init ==
  /\ content = [t \in Target |-> IF \E j \in Creates : TargetOf[j] = t THEN Absent ELSE <<>>]
  /\ pathRec = [t \in Target |-> Null]
  /\ jobRec = [j \in Job |-> Null]
  /\ legacy \in {old \in [Target -> Former] : \A t \in Target \ Relocated : old[t] = "none"}
  /\ impl = 1 /\ call = 1 /\ crashes = 0
  /\ phase = "run"
  /\ indegree = Degrees /\ heap = Roots /\ pending = Job
  /\ generating = {} /\ validating = {} /\ validated = {}
  /\ ports = [j \in Job |-> Null]
  /\ work = [w \in Worker |-> Idle]
  /\ cancelled = {}
  /\ jobLock = [j \in Job |-> Null]
  /\ targetLock = [t \in Target |-> Null]
  /\ torn = {} /\ unindexed = {}

-----------------------------------------------------------------------------
(* A thread: execute_checkpointed_job                                      *)

Stopped(w) == w \in cancelled

To(w, pc) == work' = [work EXCEPT ![w].pc = pc]

\* The function of the thread has returned; what it held is gone.
Ends(w, pc) == work' = [work EXCEPT ![w] = [Idle EXCEPT !.pc = pc]]

\* The locks without those of w.
Unlock(w) ==
  /\ jobLock' = [j \in Job |-> IF jobLock[j] = w THEN Null ELSE jobLock[j]]
  /\ targetLock' = [t \in Target |-> IF targetLock[t] = w THEN Null ELSE targetLock[t]]

\* Where a thread has changed its file and not recorded it.
Unrecorded == {"retire", "port", "record"}

\* What is left behind when the threads W are stopped.
Leaves(W) ==
  /\ torn' = torn \cup {FileOf(w) : w \in {x \in W : work[x].pc \in Unrecorded}}
  /\ unindexed' = unindexed \cup {FileOf(w) : w \in {x \in W : work[x].pc = "index"}}

\* An exception: the locks are left; what was written stays.
Fails(w) ==
  /\ Ends(w, "failed")
  /\ Unlock(w)
  /\ Leaves({w})
  /\ UNCHANGED <<disk, legacy, runVars, phase, schedVars, ports, cancelled>>

\* The budget is bound; the binding takes in the ports of the producers.
Start(w) ==
  /\ work[w].pc = "queued"
  /\ IF Stopped(w) THEN To(w, "failed")
     ELSE LET bound == [j \in Job |-> IF j \in Requires[JobOf(w)] THEN ports[j] ELSE Null]
          IN  work' = [work EXCEPT ![w] = [@ EXCEPT !.pc = "job", !.bind = bound]]
  /\ UNCHANGED <<disk, legacy, runVars, phase, schedVars, ports, cancelled, lockVars, histVars>>

LockJob(w) ==
  /\ work[w].pc = "job"
  /\ jobLock[JobOf(w)] = Null
  /\ jobLock' = [jobLock EXCEPT ![JobOf(w)] = w]
  /\ To(w, "target")
  /\ UNCHANGED <<disk, legacy, runVars, phase, schedVars, ports, cancelled, targetLock, histVars>>

\* Mutant: the path record is taken for this job's.
MutPrior(w) == IF pathRec[FileOf(w)] # Null THEN pathRec[FileOf(w)] ELSE jobRec[JobOf(w)]

\* _read_job_record: the path record if it is this job's, else the jobs record
Prior(w) ==
  LET p == pathRec[FileOf(w)] IN
  IF p # Null /\ p.job = JobOf(w) THEN p ELSE jobRec[JobOf(w)]

Refreshing(w) ==
  /\ Prior(w) # Null
  /\ Prior(w).bind # work[w].bind \/ Prior(w).impl # impl

\* ARTIFACT_CHECKPOINT_TARGET_DRIFT
Drifted(w) ==
  LET current  == content[FileOf(w)]
      recorded == pathRec[FileOf(w)]
  IN  \/ recorded # Null /\ current # recorded.after
      \/ Prior(w) # Null /\ (current = Absent \/ recorded = Null)
      \/ Refreshing(w) /\ JobOf(w) \in Creates /\ current # Prior(w).after

\* With the target's lock: is there evidence to restore?
Compare(w) ==
  /\ work[w].pc = "target" /\ targetLock[FileOf(w)] = Null
  /\ IF Drifted(w) THEN Fails(w)
     ELSE LET reuse == Prior(w) # Null /\ ~Refreshing(w) IN
          /\ targetLock' = [targetLock EXCEPT ![FileOf(w)] = w]
          /\ work' = [work EXCEPT ![w] =
               [@ EXCEPT !.before = content[FileOf(w)],
                         !.pc = IF reuse THEN "restore" ELSE "gen",
                         !.val = IF reuse THEN Prior(w).val ELSE Null]]
          /\ UNCHANGED <<disk, legacy, runVars, phase, schedVars, ports, cancelled, jobLock, histVars>>

\* The generator and its validations; it may never return.
Generate(w) ==
  /\ work[w].pc = "gen"
  /\ \/ Fails(w)
     \/ /\ \E v \in Answer[JobOf(w)] : work' = [work EXCEPT ![w] = [@ EXCEPT !.pc = "mat", !.val = v]]
        /\ UNCHANGED <<disk, legacy, runVars, phase, schedVars, ports, cancelled, lockVars, histVars>>

Piece(w) == <<JobOf(w), work[w].val>>

\* What materialize_job_output makes of the file.
Materialized(w) ==
  IF JobOf(w) \in Creates THEN <<Piece(w)>> ELSE Append(content[FileOf(w)], Piece(w))

\* A file is created, replaced by its owner, or found as it would be created; a patch
\* needs a file.
MayMaterialize(w) ==
  LET current == content[FileOf(w)] IN
  IF JobOf(w) \in Creates
  THEN current = Absent \/ Prior(w) # Null \/ current = Materialized(w)
  ELSE current # Absent

\* Mutant: bytes are published without a look at the budget.
MutMayPublish(w) == TRUE

\* model_execution_publication lets w pass
MayPublish(w) == ~Stopped(w)

Materialize(w) ==
  /\ work[w].pc = "mat"
  /\ IF MayPublish(w) /\ MayMaterialize(w)
     THEN /\ content' = [content EXCEPT ![FileOf(w)] = Materialized(w)]
          /\ To(w, "retire")
          /\ UNCHANGED <<pathRec, jobRec, legacy, runVars, phase, schedVars, ports, cancelled,
                         lockVars, histVars>>
     ELSE Fails(w)

\* retire_owned_legacy_client_candidate: the former candidate is deleted, any other file in
\* its place refused.  This is no publication: the budget is not looked at.
Retire(w) ==
  /\ work[w].pc = "retire"
  /\ IF legacy[FileOf(w)] = "foreign" THEN Fails(w)
     ELSE /\ legacy' = [legacy EXCEPT ![FileOf(w)] = "none"]
          /\ To(w, "port")
          /\ UNCHANGED <<disk, runVars, phase, schedVars, ports, cancelled, lockVars, histVars>>

PublishPort(w) ==
  /\ work[w].pc = "port"
  /\ IF MayPublish(w)
     THEN /\ ports' = [ports EXCEPT ![JobOf(w)] = work[w].val]
          /\ To(w, "record")
          /\ UNCHANGED <<disk, legacy, runVars, phase, schedVars, cancelled, lockVars, histVars>>
     ELSE Fails(w)

\* Mutant: a patch keeps the hash from before the generation.
MutAfter(w) == IF work[w].before = Absent THEN content[FileOf(w)] ELSE work[w].before

After(w) == content[FileOf(w)]

Record(w) ==
  [job |-> JobOf(w), val |-> work[w].val, after |-> After(w),
   bind |-> work[w].bind, impl |-> impl]

RecordPath(w) ==
  /\ work[w].pc = "record"
  /\ LET old == pathRec[FileOf(w)] IN
     IF MayPublish(w) /\ (old = Null \/ old.after = work[w].before)
     THEN /\ pathRec' = [pathRec EXCEPT ![FileOf(w)] = Record(w)]
          /\ To(w, "index")
          /\ UNCHANGED <<content, jobRec, legacy, runVars, phase, schedVars, ports, cancelled,
                         lockVars, histVars>>
     ELSE Fails(w)

RecordJob(w) ==
  /\ work[w].pc = "index"
  /\ IF MayPublish(w)
     THEN /\ jobRec' = [jobRec EXCEPT ![JobOf(w)] = Record(w)]
          /\ Ends(w, "passed")
          /\ Unlock(w)
          /\ UNCHANGED <<content, pathRec, legacy, runVars, phase, schedVars, ports, cancelled, histVars>>
     ELSE Fails(w)

\* _restore_checkpoint
Restore(w) ==
  /\ work[w].pc = "restore"
  /\ IF MayPublish(w)
     THEN /\ ports' = [ports EXCEPT ![JobOf(w)] = work[w].val]
          /\ Ends(w, "passed")
          /\ Unlock(w)
          /\ UNCHANGED <<disk, legacy, runVars, phase, schedVars, cancelled, histVars>>
     ELSE Fails(w)

\* _validate_completed_job, on the validation pool
Validate(w) ==
  /\ work[w].pc = "check"
  /\ \/ Stopped(w) /\ To(w, "failed")
     \/ ~Stopped(w) /\ \E end \in {"valid", "failed"} : To(w, end)
  /\ UNCHANGED <<disk, legacy, runVars, phase, schedVars, ports, cancelled, lockVars, histVars>>

-----------------------------------------------------------------------------
(* The scheduler of the current call                                       *)

Me(j) == <<call, j>>

Futures == generating \cup validating

Finished == {j \in generating : work[Me(j)].pc \in {"passed", "failed"}}
              \cup {j \in validating : work[Me(j)].pc \in {"valid", "failed"}}
Broken == {j \in Finished : work[Me(j)].pc = "failed"}

Room(n) == Workers - n

\* The heap's order.
Earlier(k, j) == \E m, n \in DOMAIN Order : m < n /\ Order[m] = k /\ Order[n] = j

\* submit_ready over the heap h with n jobs being generated: the first in order
Submitted(h, n) ==
  LET ready == h \cap pending
  IN  {j \in ready : Cardinality({k \in ready : Earlier(k, j)}) < Room(n)}

\* Mutant: a job that is generated counts as validated.
MutSatisfied == Finished

\* The jobs whose dependents lose a producer to wait for.
Satisfied == Finished \cap validating

Unblocked(degree) == {j \in Job : degree[j] = 0 /\ indegree[j] > 0}

\* The completions of one wake-up, and the submissions they allow.  The first wake-up
\* stands for the submission before the loop.
Advance ==
  /\ phase = "run" /\ Broken = {}
  /\ Finished # {} \/ pending = Job
  /\ LET checked == Finished \cap validating
         made    == Finished \cap generating
         degree  == [j \in Job |-> indegree[j] - Cardinality(Requires[j] \cap Satisfied)]
         ready   == heap \cup Unblocked(degree)
         started == Submitted(ready, Cardinality(generating \ made))
     IN  /\ indegree' = degree
         /\ heap' = ready \ started
         /\ pending' = pending \ started
         /\ generating' = (generating \ made) \cup started
         /\ validating' = (validating \ checked) \cup made
         /\ validated' = validated \cup checked
         /\ work' = [w \in Worker |->
              IF w \in Mine /\ JobOf(w) \in started THEN [Idle EXCEPT !.pc = "queued"]
              ELSE IF w \in Mine /\ JobOf(w) \in made THEN [work[w] EXCEPT !.pc = "check"]
              ELSE work[w]]
  /\ UNCHANGED <<disk, legacy, runVars, phase, ports, cancelled, lockVars, histVars>>

\* A future raised, or none finished before the first lease ran out.  The third reason,
\* ARTIFACT_GRAPH_DEADLOCK, never arises (InOrder).
Error ==
  /\ phase = "run"
  /\ \/ Broken # {}
     \/ Finished = {} /\ Futures # {}
  /\ phase' = "cancel"
  /\ UNCHANGED <<disk, legacy, runVars, schedVars, ports, work, cancelled, lockVars, histVars>>

\* The finally clause: the budgets of all futures, then the futures that have not begun,
\* unless their thread takes them up in between.
Cancel ==
  /\ phase = "cancel"
  /\ \/ \E j \in Futures \ Finished :
          /\ Me(j) \notin cancelled
          /\ cancelled' = cancelled \cup {Me(j)}
          /\ generating' = generating \ {j} /\ validating' = validating \ {j}
          /\ \/ work[Me(j)].pc = "queued" /\ To(Me(j), "dropped")
             \/ UNCHANGED work
          /\ UNCHANGED phase
     \/ /\ Futures \ Finished = {}
        /\ phase' = "error"
        /\ UNCHANGED <<work, cancelled, generating, validating>>
  /\ UNCHANGED <<disk, legacy, runVars, indegree, heap, pending, validated, ports, lockVars, histVars>>

\* Mutant: the validations still under way are forgotten.
MutDone == pending = {} /\ generating = {}

Done == pending = {} /\ Futures = {}

\* _wire_validated_java_startup edits the entry point, a file of no job here, or raises.
Succeed ==
  /\ phase = "run" /\ Done
  /\ phase' \in {"ok", "error"}
  /\ UNCHANGED <<disk, legacy, runVars, schedVars, ports, work, cancelled, lockVars, histVars>>

-----------------------------------------------------------------------------
(* From call to call                                                       *)

NewCall ==
  /\ call < MaxCall
  /\ call' = call + 1
  /\ phase' = "run"
  /\ indegree' = Degrees /\ heap' = Roots /\ pending' = Job
  /\ generating' = {} /\ validating' = {} /\ validated' = {}
  /\ ports' = [j \in Job |-> Null]
  /\ UNCHANGED <<disk, legacy>>

Returned == {"passed", "failed", "dropped", "check", "valid"}

\* The project is executed again, in the same process; threads still running stay.
Again ==
  /\ phase \in {"ok", "error"}
  /\ NewCall
  /\ work' = [w \in Worker |-> IF work[w].pc \in Returned THEN Idle ELSE work[w]]
  /\ UNCHANGED <<impl, crashes, cancelled, lockVars, histVars>>

\* The process dies; the next may run another version of the program.
Crash ==
  /\ crashes < MaxCrash
  /\ crashes' = crashes + 1
  /\ NewCall
  /\ impl' \in 1 .. MaxImpl
  /\ work' = [w \in Worker |-> Idle]
  /\ cancelled' = {}
  /\ jobLock' = [j \in Job |-> Null]
  /\ targetLock' = [t \in Target |-> Null]
  /\ Leaves(Worker)

Step(w) ==
  \/ Start(w) \/ LockJob(w) \/ Compare(w) \/ Materialize(w)
  \/ Retire(w) \/ PublishPort(w) \/ RecordPath(w) \/ RecordJob(w) \/ Restore(w)

Scheduler == Advance \/ Error \/ Cancel \/ Succeed

Next ==
  \/ \E w \in Worker : Step(w) \/ Generate(w) \/ Validate(w)
  \/ Scheduler \/ Again \/ Crash

Spec == Init /\ [][Next]_vars
-----------------------------------------------------------------------------
(* Properties                                                              *)

\* "A dependent becomes eligible only after its producer validates"
\* (execute_artifact_graph): whoever runs in the current call finds the ports of all
\* its producers, published by jobs that were validated.  Nor is one forgotten
\* (ARTIFACT_GRAPH_DEADLOCK): once jobs have been submitted, something runs as long as
\* a job is pending.
InOrder ==
  /\ \A w \in Mine : work[w].pc # "idle" =>
       \A p \in Requires[JobOf(w)] : p \in validated /\ ports[p] # Null
  /\ phase = "run" /\ pending \notin {{}, Job} => Futures # {}

\* "Teardown cancels their model/publication scopes without waiting for an
\* uncooperative worker": after a call is over, and during later ones, its threads
\* change no target and no record, wherever they were when it ended.  One thing they may
\* still do, because old.unlink() is in none of those scopes: a thread that was stopped
\* right after its write deletes the former candidate of its file, and nothing else,
\* with its own answer standing in the file that takes the candidate's place.
QuietAfterEnd ==
  [][\A w \in Worker :
       (work'[w] # work[w] /\ (w[1] < call \/ phase \in {"ok", "error"})) =>
         /\ UNCHANGED disk
         /\ \A t \in Target : legacy'[t] # legacy[t] =>
              /\ t = FileOf(w) /\ legacy[t] = "owned"
              /\ content[t] # Absent /\ Contains(content[t], Piece(w))]_vars

\* A job that was stopped between its two records keeps an older one in the index; it is
\* read again once the path record has passed to another job.
Outdated(j) ==
  LET t == TargetOf[j] IN t \in unindexed /\ pathRec[t] # Null /\ pathRec[t].job # j

\* Evidence is only reused if it is still true: what is restored stands in the file,
\* whatever other jobs, versions, failures and crashes did to it since, unless the index
\* is outdated.
ReuseSound ==
  \A w \in Worker : work[w].pc = "restore" =>
    /\ content[FileOf(w)] # Absent
    /\ Contains(content[FileOf(w)], Piece(w)) \/ Outdated(JobOf(w))

\* Bytes and their evidence only part where a job is stopped between its write and its
\* path record: in any other file that nobody works on, the content is the recorded
\* one, and without a record the original one.
BytesHaveEvidence ==
  \A t \in Target \ torn : targetLock[t] = Null =>
    IF pathRec[t] = Null THEN content[t] \in {Absent, <<>>} ELSE content[t] = pathRec[t].after

\* A call that succeeds leaves every job validated, its answer in its port and in its
\* file, and evidence of it in the index, and nothing in the file's former place ("may
\* otherwise coexist with stale invalid Yarn source").  The exception is a job that was stopped
\* between its two records: a later call restores it from the path record but does not
\* repeat the index, and the path record may pass to another job.
SuccessHasEvidence ==
  phase = "ok" =>
    /\ validated = Job
    /\ \A j \in Job :
         LET t == TargetOf[j] IN
         /\ content[t] = pathRec[t].after /\ legacy[t] = "none"
         /\ ports[j] # Null
         /\ Contains(content[t], <<j, ports[j]>>) \/ Outdated(j)
         /\ jobRec[j] # Null \/ t \in unindexed
===============================================================================
