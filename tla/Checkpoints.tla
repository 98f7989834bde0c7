------------------------------ MODULE Checkpoints ------------------------------
(***************************************************************************)
(* The named checkpoints of a production run: the SQLite table             *)
(* `checkpoints' of work_graph.DurableWorkLedger and the calls of          *)
(* run_named_checkpoint around it (preparing the project, validating,      *)
(* building, packaging, publishing).                                       *)
(*                                                                         *)
(* A caller is one call of run_named_checkpoint.  A step is one statement  *)
(* or transaction together with the local control that follows it.  A      *)
(* receipt is the input hash of the action that produced it, or Damaged    *)
(* when the stored JSON no longer matches its stored digest.  The columns  *)
(* stage, output_hash, error and updated_at are left out.                  *)
(***************************************************************************)
EXTENDS Naturals, FiniteSets

CONSTANTS
  Key,         \* checkpoint ids
  Hash,        \* input hashes
  Caller,      \* calls of run_named_checkpoint
  Null,        \* SQL NULL
  Damaged,     \* a stored receipt that fails its digest
  OneExecutor, \* a call starts only when no other is busy with its checkpoint
  MayFail,     \* decoding a receipt or running the action may raise
  MayCrash,    \* the process of a call may be killed
  MayRot,      \* stored receipts may be damaged
  MaxCancel    \* bound: cancellation requests

ASSUME ValueAssumption ==
  /\ Null \notin Hash
  /\ Damaged \notin Hash \cup {Null}
  /\ MaxCancel \in Nat

VARIABLES
  cp,         \* the row of every checkpoint; state "absent" when there is none
  cancelled,  \* metadata.cancel_requested is set
  call,       \* the control state of every call
  cancels     \* cancellation requests so far

vars == <<cp, cancelled, call, cancels>>

CheckpointState == {"running", "succeeded", "failed", "cancelled"}

CpRow == [state : CheckpointState \cup {"absent"}, hash : Hash \cup {Null},
          receipt : Hash \cup {Null, Damaged}]

Ended == {"returned", "raised", "dead"}

CallPC == {"new", "cached", "discard", "invalidate", "begin", "act", "succeed", "fail"}
          \cup Ended

\* value: what the call returned, named by the input it was computed from.
Call == [pc : CallPC, key : Key \cup {Null}, hash : Hash \cup {Null},
         value : Hash \cup {Null, Damaged}]

Init ==
  /\ cp = [k \in Key |-> [state |-> "absent", hash |-> Null, receipt |-> Null]]
  /\ cancelled = FALSE
  /\ call = [c \in Caller |-> [pc |-> "new", key |-> Null, hash |-> Null, value |-> Null]]
  /\ cancels = 0

Active(c) == call[c].pc \notin Ended \cup {"new"}

-----------------------------------------------------------------------------
(* The statements on a checkpoint row.                                     *)

SetCp(k, r) == cp' = [cp EXCEPT ![k] = r]
NoCp == UNCHANGED <<cp, cancelled, cancels>>

\* The row holds a verified success for this input.
Hit(k, h) == cp[k].state = "succeeded" /\ cp[k].hash = h /\ cp[k].receipt # Damaged

\* state = s
Moved(r, s) == [r EXCEPT !.state = s]

\* state = succeeded with its receipt
Published(r, h) == [r EXCEPT !.state = "succeeded", !.receipt = h]

\* verified_checkpoint_row, invalidate_checkpoint and _verify_stored_receipts
\* fail a success together with its evidence.
Dropped(r) == [r EXCEPT !.state = "failed", !.receipt = Null]

\* Mutant: the running row of another attempt is not refused.
MutStartable(k, h) == cp[k].state # "succeeded" \/ cp[k].hash # h

\* begin_checkpoint accepts a missing row, a failed one, and any row of another
\* input that is not running.
Startable(k, h) ==
  \/ cp[k].state \in {"absent", "failed"}
  \/ cp[k].hash # h /\ cp[k].state # "running"

BeginCheckpoint(k, h) ==
  /\ Startable(k, h)
  /\ SetCp(k, [state |-> "running", hash |-> h, receipt |-> Null])

\* Mutant: the compare-and-set looks at the state alone.
MutMine(k, h) == cp[k].state = "running"

\* The compare-and-set of succeed_checkpoint, on input and state.
Mine(k, h) == cp[k].state = "running" /\ cp[k].hash = h

\* Mutant: the row is given a state the enumeration does not have.
MutSucceedCheckpoint(k, h) ==
  /\ Mine(k, h)
  /\ SetCp(k, [cp[k] EXCEPT !.state = "completed", !.receipt = h])

SucceedCheckpoint(k, h) ==
  /\ Mine(k, h)
  /\ SetCp(k, Published(cp[k], h))

\* Mutant: the failure is not stored.
MutFailCheckpoint(k, h) == UNCHANGED cp

\* fail_checkpoint; in every other state it returns or raises without a write.
FailCheckpoint(k, h) ==
  IF Mine(k, h) THEN SetCp(k, Moved(cp[k], "failed")) ELSE UNCHANGED cp

InvalidateCheckpoint(k, h) ==
  IF cp[k].state = "succeeded" /\ cp[k].hash = h THEN SetCp(k, Dropped(cp[k]))
                                                 ELSE UNCHANGED cp

-----------------------------------------------------------------------------
(* run_named_checkpoint.                                                   *)

At(c, pc) == call[c].pc = pc
Goto(c, pc) == call' = [call EXCEPT ![c].pc = pc]
Return(c, v) == call' = [call EXCEPT ![c].pc = "returned", ![c].value = v]

\* raise_if_cancelled, and the hash of the input.
StartCall(c, k, h) ==
  /\ At(c, "new")
  /\ OneExecutor => \A d \in Caller : ~(Active(d) /\ call[d].key = k)
  /\ call' = [call EXCEPT ![c] = [pc |-> IF cancelled THEN "raised" ELSE "cached",
                                  key |-> k, hash |-> h, value |-> Null]]
  /\ NoCp

\* cached_checkpoint, decode and validate_cached.
ReadCached(c) ==
  /\ At(c, "cached")
  /\ LET k == call[c].key
     IN  \/ Hit(k, call[c].hash) /\ Return(c, cp[k].receipt)
         \/ Hit(k, call[c].hash) /\ Goto(c, "invalidate")
         \/ Hit(k, call[c].hash) /\ MayFail /\ Goto(c, "raised")
         \/ /\ cp[k].state = "succeeded" /\ cp[k].receipt = Damaged
            /\ Goto(c, "discard")
         \/ /\ cp[k].state # "succeeded" \/ (cp[k].receipt # Damaged /\ cp[k].hash # call[c].hash)
            /\ Goto(c, "begin")
  /\ NoCp

\* The UPDATE that verified_checkpoint_row issues for the damaged receipt it
\* read: it looks at the state again, not at the receipt.
DiscardDamaged(c) ==
  /\ At(c, "discard")
  /\ IF cp[call[c].key].state = "succeeded"
     THEN SetCp(call[c].key, Dropped(cp[call[c].key])) ELSE UNCHANGED cp
  /\ Goto(c, "begin")
  /\ UNCHANGED <<cancelled, cancels>>

DropCached(c) ==
  /\ At(c, "invalidate")
  /\ InvalidateCheckpoint(call[c].key, call[c].hash)
  /\ Goto(c, "begin")
  /\ UNCHANGED <<cancelled, cancels>>

BeginCall(c) ==
  /\ At(c, "begin")
  /\ \/ BeginCheckpoint(call[c].key, call[c].hash) /\ Goto(c, "act")
     \/ ~Startable(call[c].key, call[c].hash) /\ Goto(c, "raised") /\ UNCHANGED cp
  /\ UNCHANGED <<cancelled, cancels>>

Act(c) ==
  /\ At(c, "act")
  /\ \/ Goto(c, "succeed")
     \/ MayFail /\ Goto(c, "fail")
  /\ NoCp

SucceedCall(c) ==
  /\ At(c, "succeed")
  /\ LET k == call[c].key
         h == call[c].hash
     IN  \/ SucceedCheckpoint(k, h) /\ Return(c, h)
         \/ ~Mine(k, h) /\ Goto(c, "fail") /\ UNCHANGED cp
  /\ UNCHANGED <<cancelled, cancels>>

FailCall(c) ==
  /\ At(c, "fail")
  /\ FailCheckpoint(call[c].key, call[c].hash)
  /\ Goto(c, "raised")
  /\ UNCHANGED <<cancelled, cancels>>

Crash(c) ==
  /\ MayCrash
  /\ Active(c)
  /\ Goto(c, "dead")
  /\ NoCp

-----------------------------------------------------------------------------
(* The run: cancel_run and resume_run on this table, opening the ledger,   *)
(* and the disk.                                                           *)

\* Mutant: a cancellation does not spare what has succeeded.
MutCancelRun ==
  /\ cancels < MaxCancel
  /\ cancels' = cancels + 1
  /\ cancelled' = TRUE
  /\ cp' = [k \in Key |-> IF cp[k].state = "absent" THEN cp[k]
                          ELSE Moved(cp[k], "cancelled")]
  /\ UNCHANGED call

CancelRun ==
  /\ cancels < MaxCancel
  /\ cancels' = cancels + 1
  /\ cancelled' = TRUE
  /\ cp' = [k \in Key |-> IF cp[k].state \in {"absent", "succeeded"} THEN cp[k]
                          ELSE Moved(cp[k], "cancelled")]
  /\ UNCHANGED call

ResumeRun ==
  /\ cancelled
  /\ cancelled' = FALSE
  /\ cp' = [k \in Key |-> IF cp[k].state = "cancelled"
                          THEN Moved(cp[k], "failed") ELSE cp[k]]
  /\ UNCHANGED <<call, cancels>>

\* Every process and every MCP call that opens the ledger verifies what is
\* stored, in the transaction of _initialize.
OpenLedger ==
  /\ cp' = [k \in Key |-> IF cp[k].state = "succeeded" /\ cp[k].receipt = Damaged
                          THEN Dropped(cp[k]) ELSE cp[k]]
  /\ UNCHANGED <<cancelled, call, cancels>>

Rotted(r) == [r EXCEPT !.receipt = Damaged]

\* External: the disk loses a stored receipt.
Rot(k) ==
  /\ MayRot
  /\ cp[k].state = "succeeded"
  /\ SetCp(k, Rotted(cp[k]))
  /\ UNCHANGED <<cancelled, call, cancels>>

CallStep(c) ==
  \/ ReadCached(c) \/ DiscardDamaged(c) \/ DropCached(c) \/ BeginCall(c)
  \/ Act(c) \/ SucceedCall(c) \/ FailCall(c)

Next ==
  \/ \E c \in Caller : \/ \E k \in Key, h \in Hash : StartCall(c, k, h)
                       \/ CallStep(c)
                       \/ Crash(c)
  \/ CancelRun
  \/ ResumeRun
  \/ OpenLedger
  \/ \E k \in Key : Rot(k)

Spec == Init /\ [][Next]_vars

-----------------------------------------------------------------------------
(* Properties.                                                             *)

TypeOK ==
  /\ cp \in [Key -> CpRow]
  /\ cancelled \in BOOLEAN
  /\ call \in [Caller -> Call]
  /\ \A c \in Caller : call[c].pc # "new" => call[c].key \in Key /\ call[c].hash \in Hash
  /\ cancels \in 0 .. MaxCancel

\* What run_named_checkpoint returns, from the cache or from its own action,
\* was computed from the input it was called with: never from another input, by
\* whichever call, and never a result damaged on disk.
ResultFits == \A c \in Caller : call[c].pc = "returned" => call[c].value = call[c].hash

\* A call that has begun its checkpoint and not ended it.
Working(c) == call[c].pc \in {"act", "succeed", "fail"}

\* As long as the run has not been cancelled a checkpoint's action runs in one
\* call at a time, whatever calls arrive meanwhile or are killed
\* (begin_checkpoint refuses a running row).
Exclusive ==
  cancels = 0 =>
    \A c, d \in Caller :
      c # d /\ call[c].pc = "act" /\ call[d].pc = "act" => call[c].key # call[d].key

\* Every running row has a call at work that can end it.
Attended ==
  \A k \in Key : cp[k].state = "running" =>
    \E c \in Caller : Working(c) /\ call[c].key = k /\ call[c].hash = cp[k].hash

\* As long as no process has been killed nothing leaves a checkpoint that every
\* later call finds `already running', whatever is cancelled, resumed or fails
\* (fail_checkpoint, cancel_run and late calls).
NoOrphan == (\A c \in Caller : call[c].pc # "dead") => Attended

\* A verified success is given up only for another input, by a call that
\* rejected its outputs, or by one that had read it damaged: no cancellation,
\* resume, reopening, crash or late call makes the same checkpoint run again.
SuccessKept ==
  [][\A k \in Key : \A h \in Hash :
       Hit(k, h) /\ ~Hit(k, h)' /\ cp'[k].receipt # Damaged =>
         \E c \in Caller : \/ call[c].pc \in {"invalidate", "discard"} /\ At(c, "begin")'
                           \/ At(c, "begin") /\ At(c, "act")' /\ call[c].hash # h]_vars
================================================================================
