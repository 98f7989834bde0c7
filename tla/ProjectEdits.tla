----------------------------- MODULE ProjectEdits -----------------------------
(***************************************************************************)
(* The threads that work on one generated project, each running jobs of    *)
(* one kind:                                                               *)
(*                                                                         *)
(*  edit      ensure_dependency and its kin: lock the paths, read, patch   *)
(*            what lacks the edit.  Runs over and over.                    *)
(*  merge     a function under _atomic_shared_edit: the coarse lock, read, *)
(*            patch.                                                       *)
(*  generate  staged_generate of a custom module: a snapshot shared by the *)
(*            generators of one wave, taken under the coarse lock; then    *)
(*            the staged patch is rebased on the live files.  Nothing      *)
(*            calls its install() at this commit.                          *)
(*  patch     snapshot() without any lock, then apply().                   *)
(*  verify    JavaCoreService.diagnostics: the coarse lock with a deadline *)
(*            around reading the revision and all files.                   *)
(*                                                                         *)
(* A job of thread t adds the edit t to each of its paths.                 *)
(***************************************************************************)
EXTENDS SourcePatch

CONSTANTS
  Role,       \* the kinds of job a thread may have
  Target,     \* the paths of every thread's jobs
  MaxVerify   \* bound: verifications of a thread

Kind == {"edit", "merge", "generate", "patch", "verify"}

ASSUME RoleAssumption ==
  /\ Role \in [Thread -> SUBSET Kind]
  /\ Target \in [Thread -> (SUBSET Path) \ {{}}]
  /\ MaxVerify \in Nat

VARIABLES
  job,        \* the job of every thread
  result,     \* how the writing job of every thread ended
  tracked,    \* the last verified revision of every thread, and what was read then
  rounds,     \* verifications begun by every thread
  wave,       \* _SNAPSHOT_WAVES[root]: the base snapshot and its users
  waveOwner   \* who holds _SNAPSHOT_WAVE_LOCK

jobVars == <<job, result, tracked, rounds, wave, waveOwner>>
vars == <<lockVars, patchVars, jobVars>>

PC == {"idle", "gate", "rev", "wave", "snap", "open", "read", "leave"}

Result == Impact \cup {"none", "conflict", "invalid"}

\* pc is what comes next once the calls of the lock and of the patcher have returned;
\* seen: the texts read so far.
NoJob(k) == [kind |-> k, pc |-> "idle", seen |-> <<>>, rev |-> <<0, 0>>]

Job == [kind : Kind, pc : PC, seen : Partial(Text), rev : Nat \X Nat]

Wave == [base : [Path -> Text], active : SUBSET Thread]

\* A wave is not None.
ASSUME WaveAssumption == Null \notin Wave

\* Every variable keeps its type.
TypeOK ==
  /\ LockTypeOK /\ PatchTypeOK
  /\ job \in [Thread -> Job]
  /\ result \in [Thread -> Result]
  /\ tracked \in [Thread -> [rev : Nat \X Nat, seen : [Path -> Text]] \cup {Null}]
  /\ rounds \in [Thread -> 0..MaxVerify]
  /\ wave \in Wave \cup {Null}
  /\ waveOwner \in Thread \cup {Null}

Init ==
  /\ LockInit /\ PatchInit
  /\ \E kind \in [Thread -> Kind] :
       /\ \A t \in Thread : kind[t] \in Role[t]
       /\ job = [t \in Thread |-> NoJob(kind[t])]
  /\ result = [t \in Thread |-> "none"]
  /\ tracked = [t \in Thread |-> Null]
  /\ rounds = [t \in Thread |-> 0]
  /\ wave = Null
  /\ waveOwner = Null

-----------------------------------------------------------------------------

NoLock == UNCHANGED lockVars
NoPatch == UNCHANGED patchVars
NoWave == UNCHANGED <<wave, waveOwner>>
NoEnd == UNCHANGED <<result, tracked, rounds>>

On(t, pc) == job[t].pc = pc /\ at[t] = "run" /\ tx[t].step = "none"
Goto(t, pc) == job' = [job EXCEPT ![t].pc = pc]

Idle(t) == job' = [job EXCEPT ![t] = NoJob(job[t].kind)]

\* For a job that is repeated, a success is remembered, and an incomplete rollback
\* until a success.
Ends(t, r) ==
  result' = [result EXCEPT ![t] = IF @ \in {"applied", "uncertain"} /\ r # "applied" THEN @
                                                                                     ELSE r]

FirstPC(k) == CASE k = "edit" -> "open"
                [] k = "patch" -> "read"
                [] k = "generate" -> "wave"
                [] k \in {"merge", "verify"} -> "gate"

\* Edits are repeated for ever; the other writing jobs run once.
Start(t) ==
  /\ On(t, "idle")
  /\ LET k == job[t].kind
     IN  /\ k \in {"merge", "generate", "patch"} => result[t] = "none"
         /\ k = "verify" => rounds[t] < MaxVerify
         /\ rounds' = IF k = "verify" THEN [rounds EXCEPT ![t] = @ + 1] ELSE rounds
         /\ Goto(t, FirstPC(k))
  /\ NoLock /\ NoPatch /\ NoWave /\ UNCHANGED <<result, tracked>>

-----------------------------------------------------------------------------
(* Entering the locks                                                      *)

\* project_write_lock of a merge, a verification or the snapshot of a wave.
Gate(t) ==
  /\ \/ On(t, "gate") /\ Goto(t, IF job[t].kind = "verify" THEN "rev" ELSE "read")
     \/ On(t, "snap") /\ Goto(t, "read")
  /\ EnterCoarse(t)
  /\ NoPatch /\ NoWave /\ NoEnd

\* Some shared edits carry the decorator twice: the lock is entered again.
Regate(t) ==
  /\ On(t, "read") /\ job[t].kind = "merge" /\ DOMAIN job[t].seen = {}
  /\ writer = t /\ writerDepth = 1
  /\ EnterCoarse(t)
  /\ NoPatch /\ UNCHANGED jobVars

WaitGate(t) == RetryCoarse(t, job[t].kind = "verify") /\ NoPatch /\ UNCHANGED jobVars

\* The verifier's deadline passes while it waits.
TimeOut(t) ==
  /\ job[t].kind = "verify" /\ TimeOutCoarse(t)
  /\ Idle(t)
  /\ NoPatch /\ NoWave /\ NoEnd

\* project_path_write_locks of an edit or of a staged commit.
Open(t) ==
  /\ On(t, "open") /\ EnterScoped(t, Target[t])
  /\ Goto(t, "read")
  /\ NoPatch /\ NoWave /\ NoEnd

WaitScope(t) ==
  /\ RetryScoped(t, IF tx[t].step = "none" THEN Target[t] ELSE DOMAIN tx[t].plan)
  /\ NoPatch /\ UNCHANGED jobVars

Take(t) == (\E p \in Path : TakePath(t, p)) /\ NoPatch /\ UNCHANGED jobVars

-----------------------------------------------------------------------------
(* The wave of staged generators                                           *)

InWave(t) == IF wave = Null THEN FALSE ELSE t \in wave.active

\* _acquire_wave_source_snapshot, when the wave exists
JoinWave(t) ==
  /\ On(t, "wave") /\ waveOwner = Null /\ wave # Null
  /\ wave' = [wave EXCEPT !.active = @ \cup {t}]
  /\ Goto(t, "open")
  /\ NoLock /\ NoPatch /\ NoEnd /\ UNCHANGED waveOwner

\* and when it does not: the wave lock is held over the coarse one.
LockWave(t) ==
  /\ On(t, "wave") /\ waveOwner = Null /\ wave = Null
  /\ waveOwner' = t
  /\ Goto(t, "snap")
  /\ NoLock /\ NoPatch /\ NoEnd /\ UNCHANGED wave

MakeWave(t) ==
  /\ On(t, "read") /\ waveOwner = t /\ DOMAIN job[t].seen = Path
  /\ ExitCoarse(t)
  /\ wave' = [base |-> job[t].seen, active |-> {t}]
  /\ waveOwner' = Null
  /\ job' = [job EXCEPT ![t].pc = "open", ![t].seen = <<>>]
  /\ NoPatch /\ NoEnd

\* _release_wave_source_snapshot
LeaveWave(t) ==
  /\ On(t, "leave") /\ scopes[t] = <<>> /\ waveOwner = Null
  /\ InWave(t)
  /\ wave' = IF wave.active = {t} THEN Null ELSE [wave EXCEPT !.active = @ \ {t}]
  /\ Idle(t)
  /\ NoLock /\ NoPatch /\ NoEnd /\ UNCHANGED waveOwner

-----------------------------------------------------------------------------
(* Reading and patching                                                    *)

\* revision = owner.revision
NoteRevision(t) ==
  /\ On(t, "rev")
  /\ job' = [job EXCEPT ![t].pc = "read", ![t].rev = <<owner.id, owner.revision>>]
  /\ NoLock /\ NoPatch /\ NoWave /\ NoEnd

ToRead(t) == IF job[t].kind = "verify" \/ waveOwner = t THEN Path ELSE Target[t]

Unread(t) == ToRead(t) \ DOMAIN job[t].seen

\* The files are read one after the other.
ReadFile(t) ==
  /\ On(t, "read") /\ Unread(t) # {}
  /\ LET p == First(Unread(t))
     IN  job' = [job EXCEPT ![t].seen = [q \in DOMAIN @ \cup {p} |->
                                           IF q = p THEN files[p] ELSE @[q]]]
  /\ NoLock /\ NoPatch /\ NoWave /\ NoEnd

HasRead(t, k) == On(t, "read") /\ job[t].kind \in k /\ waveOwner # t /\ Unread(t) = {}

\* The verification is kept only if the revision has not moved.
Track(t) ==
  /\ HasRead(t, {"verify"})
  /\ tracked' = IF job[t].rev = <<owner.id, owner.revision>>
                THEN [tracked EXCEPT ![t] = [rev |-> job[t].rev, seen |-> job[t].seen]]
                ELSE tracked
  /\ Goto(t, "leave")
  /\ NoLock /\ NoPatch /\ NoWave /\ UNCHANGED <<result, rounds>>

Edits(c) == IF c \in {Absent, Torn} THEN {} ELSE c

Op(c, edits) == [expected |-> c, content |-> edits]

\* What an edit, a merge or a patch writes: the paths that lack the edit.
OwnPlan(t) == LET seen == job[t].seen
              IN  [p \in {q \in Target[t] : t \notin Edits(seen[q])} |->
                     Op(seen[p], Edits(seen[p]) \cup {t})]

\* Mutant: the staged text overwrites the live one.
MutMerge3(base, staged, live) == staged

\* _three_way_merge
Merge3(base, staged, live) == (live \ (base \ staged)) \cup (staged \ base)

Desired(t, p) == Edits(wave.base[p]) \cup {t}

\* A created file exists by now, or a replaced one is missing or unreadable.
Clashes(t, p) == LET live == job[t].seen[p]
                 IN  IF wave.base[p] = Absent THEN live \notin {Absent, Desired(t, p)}
                                              ELSE live \in {Absent, Torn} \/ wave.base[p] = Torn

\* Both changed the file: the merge may fail on overlapping lines.
Overlaps(t, p) == job[t].seen[p] \notin {wave.base[p], Desired(t, p)}

\* _commit_staged_operations: every operation on the text now found.
StagedPlan(t) == LET live == job[t].seen
                 IN  [p \in {q \in Target[t] : live[q] # Desired(t, q)} |->
                        Op(live[p], Merge3(Edits(wave.base[p]), Desired(t, p), Edits(live[p])))]

Plan(t) == IF job[t].kind = "generate" THEN StagedPlan(t) ELSE OwnPlan(t)

Unusable(t) == IF job[t].kind = "generate" THEN \E p \in Target[t] : Clashes(t, p)
                                           ELSE \E p \in Target[t] : job[t].seen[p] = Torn

Writers == {"edit", "merge", "generate", "patch"}

\* The operations go to TransactionalSourcePatcher.apply.
Apply(t) ==
  /\ HasRead(t, Writers) /\ ~Unusable(t) /\ DOMAIN Plan(t) # {}
  /\ Begin(t, Plan(t))
  /\ EnterScoped(t, DOMAIN Plan(t))
  /\ Goto(t, "leave")
  /\ NoWave /\ NoEnd /\ UNCHANGED <<files, owner, faults>>

\* Nothing to do.
Skip(t) ==
  /\ HasRead(t, Writers) /\ DOMAIN Plan(t) = {}
  /\ Goto(t, "leave")
  /\ NoLock /\ NoPatch /\ NoWave /\ NoEnd

\* StagedCommitConflict, or a file that cannot be parsed.
GiveUp(t) ==
  /\ HasRead(t, Writers)
  /\ Unusable(t) \/ (job[t].kind = "generate" /\ \E p \in Target[t] : Overlaps(t, p))
  /\ Ends(t, IF job[t].kind = "generate" THEN "conflict" ELSE "invalid")
  /\ Goto(t, "leave")
  /\ NoLock /\ NoPatch /\ NoWave /\ UNCHANGED <<tracked, rounds>>

Patch(t) ==
  /\ Stage(t) \/ Refuse(t) \/ (\E p \in Path : CommitFile(t, p)) \/ EndCommit(t)
     \/ RollbackFile(t) \/ EndRollback(t)
  /\ NoLock /\ UNCHANGED jobVars

Settled(t) ==
  /\ Settle(t) /\ Ends(t, tx[t].impact)
  /\ NoLock /\ NoWave /\ UNCHANGED <<job, tracked, rounds>>

-----------------------------------------------------------------------------
(* Leaving the locks                                                       *)

Drop(t) ==
  /\ job[t].pc = "leave" /\ tx[t].step = "none" /\ DropPath(t)
  /\ NoPatch /\ UNCHANGED jobVars

Exit(t) == ExitScoped(t) /\ NoPatch /\ UNCHANGED jobVars

Ungate(t) ==
  /\ On(t, "leave") /\ scopes[t] = <<>> /\ ExitCoarse(t)
  /\ NoPatch /\ UNCHANGED jobVars

End(t) ==
  /\ On(t, "leave") /\ scopes[t] = <<>> /\ writer # t
  /\ ~InWave(t)
  /\ Idle(t)
  /\ NoLock /\ NoPatch /\ NoWave /\ NoEnd

Step(t) ==
  \/ Gate(t) \/ Regate(t) \/ WaitGate(t)
  \/ Open(t) \/ WaitScope(t) \/ Take(t)
  \/ JoinWave(t) \/ LockWave(t) \/ MakeWave(t) \/ LeaveWave(t)
  \/ NoteRevision(t) \/ ReadFile(t) \/ Track(t)
  \/ Apply(t) \/ Skip(t) \/ GiveUp(t) \/ Patch(t) \/ Settled(t)
  \/ Drop(t) \/ Exit(t) \/ Ungate(t) \/ End(t)

Next == \E t \in Thread : Step(t) \/ TimeOut(t) \/ Start(t)

\* Every thread that can go on does; nobody has to time out or to start a job.
Spec == Init /\ [][Next]_vars /\ \A t \in Thread : WF_vars(Step(t))

-----------------------------------------------------------------------------
(* Safety                                                                  *)

Midway(u) == tx[u].step \in {"commit", "rollback", "settle"}

\* The holder of the coarse lock never meets a transaction of another thread between
\* its staging and its report to the owner ("The owner snapshot must never overlap a
\* multi-file transaction halfway through commit", java_core.py:79).
NeverHalfway == \A t, u \in Thread : writer = t /\ Midway(u) => t = u

\* The edit of a job that was applied stays in all its files whatever other jobs merge,
\* commit or roll back, and one that failed has left no trace in any: no update is lost
\* and no rolled-back text comes back through a snapshot.  An incomplete rollback may
\* tear a file.
AllOrNothing ==
  \A t \in Thread : tx[t].step = "none" =>
    \A p \in Target[t] :
      /\ result[t] = "applied" => files[p] = Torn \/ t \in Edits(files[p])
      /\ result[t] \notin {"applied", "uncertain"} => t \notin Edits(files[p])

\* A verifier that still has the owner's id is told of every file that differs from
\* what it read: changes_since() is complete, whatever was rolled back, refused or
\* left uncertain in between.
ChangesComplete ==
  \A t \in Thread : tracked[t] # Null /\ tracked[t].rev[1] = owner.id =>
    /\ tracked[t].rev[2] <= owner.revision
    /\ \A p \in Path : files[p] # tracked[t].seen[p] =>
         \/ p \in ChangesSince(tracked[t].rev[2])
         \/ \E u \in Thread : Midway(u) /\ p \in DOMAIN tx[u].plan

\* No set of threads waits for path locks held within the set ("Path locks are acquired
\* in lexical order to make multi-path transactions deadlock-free",
\* project_write_lock.py:99).
NoPathDeadlock ==
  \A S \in (SUBSET Thread) \ {{}} : \E t \in S :
    at[t] = "take" => \E p \in Path : Takes(t, p) /\ holder[p] \notin S \ {t}

-----------------------------------------------------------------------------
(* Liveness                                                                *)

\* A thread that waits for the coarse lock gets it, or times out, although edits of
\* other threads never cease ("so a stream of small patches cannot starve shared
\* merges", project_write_lock.py:36).
CoarseServed == \A t \in Thread : at[t] = "coarse" ~> at[t] # "coarse"

\* A thread that waits to open a scope opens it once the coarse writers are through, a
\* writer that timed out without waking anybody included.
ScopedServed == \A t \in Thread : at[t] = "scoped" ~> at[t] # "scoped"
===============================================================================
