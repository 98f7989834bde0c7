----------------------------- MODULE SourcePatch -----------------------------
(***************************************************************************)
(* TransactionalSourcePatcher.apply and the ProjectMutationOwner it        *)
(* reports to.  A transaction stages all its files against the digests     *)
(* its caller expects, commits the changed ones serially or on a thread    *)
(* pool, puts the committed ones back when one fails, and tells the owner. *)
(*                                                                         *)
(* The text of a file is the set of edits it contains, an edit being named *)
(* by its author; a digest is the text it belongs to.  `replace' and       *)
(* `edit' are one operation on a text the caller has read.  Left out:      *)
(* `delete', model_revision (it counts a part of the same commits) and     *)
(* the checks of paths and fields that come before the lock.               *)
(***************************************************************************)
EXTENDS ProjectWriteLock

CONSTANTS
  Existing,  \* the paths that have a file at first
  Absent,    \* no file
  Torn,      \* what a write that failed half-way may leave
  MaxFaults  \* bound: refusals and file operations that raise

\* The two marks are no texts.
ASSUME TextAssumption ==
  /\ Absent # Torn /\ \A text \in SUBSET Thread : text \notin {Absent, Torn}
  /\ MaxFaults \in Nat

VARIABLES
  files,     \* the text of every path
  owner,     \* the mutation owner: its id, its revision, the latest change per path
  tx,        \* the transaction of every thread
  faults     \* refusals and raising file operations so far

patchVars == <<files, owner, tx, faults>>

Text == {Absent, Torn} \cup SUBSET Thread

Partial(S) == UNION {[D -> S] : D \in SUBSET Path}

Impact == {"unchanged", "drift", "rolled_back", "uncertain", "applied"}

TxStep == {"none", "stage", "commit", "rollback", "settle"}

\* plan: what to write where, and the text it was computed from; originals: the
\* texts found by staging; committed, errors: the outcome of the commit so far.
NoTx == [step |-> "none", plan |-> <<>>, originals |-> <<>>, serial |-> FALSE,
         committed |-> {}, errors |-> {}, impact |-> "unchanged"]

Tx == [step : TxStep, plan : Partial([expected : Text, content : Text]),
       originals : Partial(Text), serial : BOOLEAN, committed : SUBSET Path,
       errors : SUBSET Path, impact : Impact]

Owner == [id : Nat, revision : Nat, changes : [Path -> [revision : Nat, after : Text]]]

PatchTypeOK ==
  /\ files \in [Path -> Text]
  /\ owner \in Owner
  /\ tx \in [Thread -> Tx]
  /\ faults \in 0..MaxFaults

NoChange == [revision |-> 0, after |-> Absent]

PatchInit ==
  /\ files = [p \in Path |-> IF p \in Existing THEN {} ELSE Absent]
  /\ owner = [id |-> 0, revision |-> 0, changes |-> [p \in Path |-> NoChange]]
  /\ tx = [t \in Thread |-> NoTx]
  /\ faults = 0

-----------------------------------------------------------------------------
(* ProjectMutationOwner.  Ids are fresh: they are counted.                 *)

\* committed(): only changes that changed something make a revision.
Committed(o, after) ==
  IF DOMAIN after = {} THEN o
  ELSE [o EXCEPT !.revision = @ + 1,
                 !.changes = [p \in Path |-> IF p \in DOMAIN after
                               THEN [revision |-> o.revision + 1, after |-> after[p]] ELSE @[p]]]

\* Mutant: the identity is kept.
MutInvalidated(o) == o

\* invalidate(): "no prior fact remains usable".
Invalidated(o) == [id |-> o.id + 1, revision |-> 0, changes |-> [p \in Path |-> NoChange]]

\* The paths of changes_since() for a revision of the present owner.
ChangesSince(revision) == {p \in Path : owner.changes[p].revision > revision}

-----------------------------------------------------------------------------
(* _apply_locked.  The scoped lock on the paths of the plan is held.       *)

Begin(t, plan) == tx' = [tx EXCEPT ![t] = [NoTx EXCEPT !.step = "stage", !.plan = plan]]

InTx(t, step) == at[t] = "run" /\ tx[t].step = step
SetTx(t, x) == tx' = [tx EXCEPT ![t] = x]

\* The operation is `create' when the caller found no file.
Mismatch(t, p) == files[p] # tx[t].plan[p].expected

\* _operation_result: a create on an existing file and a replacement of a missing one
\* are refused; a text the caller did not see is drift.
ImpactOf(t, p) ==
  IF ~Mismatch(t, p) THEN "applied"
  ELSE IF files[p] = Absent \/ tx[t].plan[p].expected = Absent THEN "unchanged" ELSE "drift"

\* _changed_staged_paths
Changed(x) == {p \in DOMAIN x.originals : x.originals[p] # x.plan[p].content}

\* _stage_transaction: the first path that fails decides.  _commit_worker_count: one
\* worker by configuration, or for one file.
Stage(t) ==
  /\ InTx(t, "stage")
  /\ LET x == tx[t]
         failing == {p \in DOMAIN x.plan : ImpactOf(t, p) # "applied"}
     IN  IF failing # {}
         THEN SetTx(t, [x EXCEPT !.step = "settle", !.impact = ImpactOf(t, First(failing))])
         ELSE \E serial \in {s \in BOOLEAN : s \/ Cardinality(DOMAIN x.plan) > 1} :
                SetTx(t, [x EXCEPT !.step = "commit", !.serial = serial,
                                   !.originals = [p \in DOMAIN x.plan |-> files[p]]])
  /\ UNCHANGED <<files, owner, faults>>

\* The residual contracts, the replacements of an edit or the JSON check refuse.
Refuse(t) ==
  /\ InTx(t, "stage")
  /\ faults < MaxFaults
  /\ faults' = faults + 1
  /\ SetTx(t, [tx[t] EXCEPT !.step = "settle", !.impact = "unchanged"])
  /\ UNCHANGED <<files, owner>>

Untried(x) == Changed(x) \ (x.committed \cup x.errors)

\* _serial_commit goes through the files in order and stops at the first error,
\* _parallel_commit tries them all.
Tries(x, p) ==
  IF x.serial THEN x.errors = {} /\ Untried(x) # {} /\ p = First(Untried(x)) ELSE p \in Untried(x)

\* _commit_staged_path: os.replace is atomic, a failure leaves the file as it was.
CommitFile(t, p) ==
  /\ InTx(t, "commit") /\ Tries(tx[t], p)
  /\ \/ /\ files' = [files EXCEPT ![p] = tx[t].plan[p].content]
        /\ SetTx(t, [tx[t] EXCEPT !.committed = @ \cup {p}])
        /\ UNCHANGED faults
     \/ /\ faults < MaxFaults
        /\ faults' = faults + 1
        /\ SetTx(t, [tx[t] EXCEPT !.errors = @ \cup {p}])
        /\ UNCHANGED files
  /\ UNCHANGED owner

CommittedStep(x) == IF x.errors = {} THEN "settle" ELSE "rollback"

EndCommit(t) ==
  /\ InTx(t, "commit") /\ \A p \in Path : ~Tries(tx[t], p)
  /\ LET step == CommittedStep(tx[t])
     IN  SetTx(t, [tx[t] EXCEPT !.step = step,
                     !.impact = IF step = "settle" THEN "applied" ELSE "rolled_back"])
  /\ UNCHANGED <<files, owner, faults>>

\* _rollback_committed, in reverse order; write_bytes is not atomic.
RollbackFile(t) ==
  /\ InTx(t, "rollback") /\ tx[t].committed # {}
  /\ LET p == Last(tx[t].committed)
         rest == [tx[t] EXCEPT !.committed = @ \ {p}]
     IN  \/ /\ files' = [files EXCEPT ![p] = tx[t].originals[p]]
            /\ SetTx(t, rest)
            /\ UNCHANGED faults
         \/ /\ faults < MaxFaults
            /\ faults' = faults + 1
            /\ \E c \in {files[p]} \cup (IF rest.originals[p] = Absent THEN {} ELSE {Torn}) :
                 files' = [files EXCEPT ![p] = c]
            /\ SetTx(t, [rest EXCEPT !.impact = "uncertain"])
  /\ UNCHANGED owner

EndRollback(t) ==
  /\ InTx(t, "rollback") /\ tx[t].committed = {}
  /\ SetTx(t, [tx[t] EXCEPT !.step = "settle"])
  /\ UNCHANGED <<files, owner, faults>>

\* _receipt, or _invalidate_on_uncertain_state for the error that is raised.
Settle(t) ==
  /\ InTx(t, "settle")
  /\ owner' = CASE tx[t].impact = "applied" ->
                     Committed(owner, [p \in Changed(tx[t]) |-> tx[t].plan[p].content])
                [] tx[t].impact \in {"drift", "uncertain"} -> Invalidated(owner)
                [] OTHER -> owner
  /\ SetTx(t, NoTx)
  /\ UNCHANGED <<files, faults>>
===============================================================================
