------------------------------ MODULE ModelGate ------------------------------
(***************************************************************************)
(* What a caller of the local model waits for: the inference slots         *)
(* (ReentrantCapacityGate) and the GPU lock (ReentrantReadWriteLock) of    *)
(* model_concurrency.  Each has a condition of its own; a section between  *)
(* two waits is one step.  _condition_wait of a thread with a budget       *)
(* returns after at most a tenth of a second, so that thread may test      *)
(* again at any time; a thread without one sleeps until it is notified.    *)
(*                                                                         *)
(* The operators describe the two objects; ModelWork makes them steps.     *)
(***************************************************************************)
EXTENDS Naturals, Sequences, FiniteSets

CONSTANTS
  Thread,    \* the callers
  Budgeted,  \* those that run under a ModelExecutionBudget
  Slots,     \* the largest capacity of the gate
  Null       \* Python's None

ASSUME GateAssumption ==
  Budgeted \subseteq Thread /\ Slots \in Nat \ {0} /\ Null \notin Thread

VARIABLES
  writer,     \* _writer_thread
  depth,      \* _writer_depth
  readers,    \* _readers, 0 where a thread has no entry
  suspended,  \* _suspended_reads, 0 where a thread has no entry
  waiting,    \* _waiting_writers
  upgrading,  \* the read claim given up by a thread that waits to write
  capacity,   \* what capacity() of the gate returns, during one round
  slots,      \* _owners of the gate, 0 where a thread has no entry
  lockAsleep, \* threads without a budget waiting on the lock's condition
  gateAsleep  \* and on the gate's

lockVars == <<writer, depth, readers, suspended, waiting, upgrading, lockAsleep>>
gateVars == <<capacity, slots, gateAsleep>>

GateTypeOK ==
  /\ writer \in Thread \cup {Null}
  /\ {depth, waiting} \subseteq Nat
  /\ capacity \in 1 .. Slots
  /\ {readers, suspended, upgrading, slots} \subseteq [Thread -> Nat]
  /\ {lockAsleep, gateAsleep} \subseteq SUBSET (Thread \ Budgeted)

GateInit ==
  /\ writer = Null /\ depth = 0 /\ waiting = 0
  /\ readers = [t \in Thread |-> 0]
  /\ suspended = [t \in Thread |-> 0]
  /\ upgrading = [t \in Thread |-> 0]
  /\ capacity \in 1 .. Slots
  /\ slots = [t \in Thread |-> 0]
  /\ lockAsleep = {} /\ gateAsleep = {}

\* The threads asleep once t waits.
Sleeps(S, t) == IF t \in Budgeted THEN S ELSE S \cup {t}

-----------------------------------------------------------------------------
(* ReentrantReadWriteLock                                                  *)

NobodyReads(r) == \A t \in Thread : r[t] = 0

\* Mutant: a writer only looks for another writer.
MutMayWrite(r) == writer = Null

MayWrite(r) == writer = Null /\ NobodyReads(r)

MayRead == writer = Null /\ waiting = 0

\* The read claims without the one t suspends to become the writer.
GivenUp(t) == [readers EXCEPT ![t] = 0]

Own(t) == writer' = t /\ depth' = 1

\* acquire() of a thread that gets the lock at once
WriteNow(t) ==
  \/ /\ writer = t
     /\ depth' = depth + 1
     /\ UNCHANGED <<writer, readers, suspended, waiting, upgrading, lockAsleep>>
  \/ /\ writer # t /\ MayWrite(GivenUp(t))
     /\ Own(t)
     /\ readers' = GivenUp(t)
     /\ suspended' = [suspended EXCEPT ![t] = @ + readers[t]]
     /\ lockAsleep' = IF readers[t] > 0 THEN {} ELSE lockAsleep
     /\ UNCHANGED <<waiting, upgrading>>

\* and of one that has to wait
WriteWait(t) ==
  /\ writer # t /\ ~MayWrite(GivenUp(t))
  /\ readers' = GivenUp(t)
  /\ upgrading' = [upgrading EXCEPT ![t] = readers[t]]
  /\ waiting' = waiting + 1
  /\ lockAsleep' = Sleeps(IF readers[t] > 0 THEN {} ELSE lockAsleep, t)
  /\ UNCHANGED <<writer, depth, suspended>>

WriteGranted(t) ==
  /\ t \notin lockAsleep /\ MayWrite(readers)
  /\ Own(t)
  /\ suspended' = [suspended EXCEPT ![t] = @ + upgrading[t]]
  /\ upgrading' = [upgrading EXCEPT ![t] = 0]
  /\ waiting' = waiting - 1
  /\ UNCHANGED <<readers, lockAsleep>>

\* Mutant: the suspended claim is forgotten.
MutRestored(t) == readers

Restored(t) == [readers EXCEPT ![t] = @ + upgrading[t]]

\* The wait raises: the suspended claim comes back, whoever has the lock by now.
WriteFails(t) ==
  /\ readers' = Restored(t)
  /\ upgrading' = [upgrading EXCEPT ![t] = 0]
  /\ waiting' = waiting - 1
  /\ lockAsleep' = IF upgrading[t] > 0 THEN {} ELSE lockAsleep
  /\ UNCHANGED <<writer, depth, suspended>>

WriteRelease(t) ==
  /\ writer = t
  /\ depth' = depth - 1
  /\ IF depth = 1
     THEN /\ writer' = Null
          /\ readers' = [readers EXCEPT ![t] = @ + suspended[t]]
          /\ suspended' = [suspended EXCEPT ![t] = 0]
          /\ lockAsleep' = {}
     ELSE UNCHANGED <<writer, readers, suspended, lockAsleep>>
  /\ UNCHANGED <<waiting, upgrading>>

SetReads(t, n) == readers' = [readers EXCEPT ![t] = n]

ReadNow(t) ==
  /\ writer = t \/ MayRead
  /\ SetReads(t, readers[t] + 1)
  /\ UNCHANGED <<writer, depth, suspended, waiting, upgrading, lockAsleep>>

ReadWait(t) ==
  /\ writer # t /\ ~MayRead
  /\ lockAsleep' = Sleeps(lockAsleep, t)
  /\ UNCHANGED <<writer, depth, readers, suspended, waiting, upgrading>>

ReadRelease(t) ==
  /\ SetReads(t, readers[t] - 1)
  /\ lockAsleep' = IF NobodyReads(readers') THEN {} ELSE lockAsleep
  /\ UNCHANGED <<writer, depth, suspended, waiting, upgrading>>

\* A woken thread that still may not go on sleeps again.
LockSleepAgain(t, may) ==
  /\ t \notin Budgeted \cup lockAsleep /\ ~may
  /\ lockAsleep' = lockAsleep \cup {t}
  /\ UNCHANGED <<writer, depth, readers, suspended, waiting, upgrading>>

-----------------------------------------------------------------------------
(* ReentrantCapacityGate                                                   *)

SlotFree == Cardinality({t \in Thread : slots[t] > 0}) < capacity

SetSlots(t, n) == slots' = [slots EXCEPT ![t] = n]

SlotNow(t) ==
  /\ slots[t] > 0 \/ SlotFree
  /\ SetSlots(t, slots[t] + 1)
  /\ UNCHANGED <<capacity, gateAsleep>>

SlotWait(t) ==
  /\ slots[t] = 0 /\ ~SlotFree
  /\ gateAsleep' = Sleeps(gateAsleep, t)
  /\ UNCHANGED <<capacity, slots>>

\* Mutant: leaving the gate wakes nobody.
MutWoken(t) == gateAsleep

Woken(t) == IF slots[t] = 1 THEN {} ELSE gateAsleep

SlotRelease(t) ==
  /\ SetSlots(t, slots[t] - 1)
  /\ gateAsleep' = Woken(t)
  /\ UNCHANGED capacity

GateSleepAgain(t) ==
  /\ t \notin Budgeted \cup gateAsleep /\ ~SlotFree
  /\ gateAsleep' = gateAsleep \cup {t}
  /\ UNCHANGED <<capacity, slots>>
===============================================================================
