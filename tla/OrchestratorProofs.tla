-------------------------- MODULE OrchestratorProofs --------------------------
(***************************************************************************)
(* Proofs about the processes that execute one production run, for every   *)
(* finite set of processes and generation nodes, every plan, lane and      *)
(* stage, and every bound.                                                 *)
(***************************************************************************)
EXTENDS Orchestrator, WorkLedgerProofs, FiniteSetTheorems, WellFoundedInduction

\* The main thread is in the scheduler loop, or leaving it.
Looping == {"top", "reap", "claim", "unwind"}

\* It goes through generation nodes one after the other, or through stages.
Generating == {"open", "resume", "reap", "inspect"}
Staging == {"stage", "stagetask", "begin", "succeed"}

\* It is in retry(), before its SELECT or before its UPDATE.
Retries == {"retry", "requeue"}

\* Where the main thread is, with the place retry() was called from.
Where(o) == IF proc[o].pc \in Retries THEN proc[o].ret ELSE proc[o].pc

\* Its loop goes through nodes of its plan, of the kind the loop is about.
MainOK(o) ==
  /\ Alive(o) => proc[o].plan \in Plans
  /\ proc[o].pc \in Retries => proc[o].ret \in {"open", "resume", "reap", "begin"}
  /\ Where(o) \in Generating => proc[o].todo \subseteq proc[o].plan.nodes \cap GenNode
  /\ Where(o) \in Staging => proc[o].todo \subseteq proc[o].plan.nodes \ GenNode
  /\ proc[o].pc \in Retries \cup {"stagetask", "begin", "succeed"} =>
       /\ proc[o].cur \in proc[o].plan.nodes
       /\ proc[o].cur \in GenNode <=> Where(o) \in Generating

\* The steps of a worker before it has read its claim.
Early == {"none", "queued", "cached", "invalidate", "task", "retry", "requeue",
          "reread", "gate", "begin", "read", "snap"}

\* A worker belongs to the plan and the loop of its process, holds a claim on
\* its own node only, and is gone when the main thread retries its node.
WorkerOK(o, n) ==
  /\ W(o, n).pc # "none" => n \in proc[o].plan.nodes /\ Where(o) \in Looping
  /\ W(o, n).pc \in Early \cup {"succeed", "failrow"} => W(o, n).claim = NoClaim
  /\ W(o, n).pc \in {"check", "commit"} => W(o, n).claim # NoClaim
  /\ W(o, n).claim # NoClaim => W(o, n).claim.node = n
  /\ proc[o].pc \in Retries /\ proc[o].cur = n => W(o, n).pc = "none"

\* The shape of the processes: what the main thread iterates over, which
\* workers there are beside it, and which of them hold a claim.
ShapeInv ==
  /\ TypeOK
  /\ \A o \in Owner : MainOK(o)
  /\ \A o \in Owner : \A n \in GenNode : WorkerOK(o, n)

-----------------------------------------------------------------------------
(* Moves of the two kinds of threads.                                      *)

\* A nonempty set of nodes has a least one.
LEMMA MinIn ==
  ASSUME NEW S, S \subseteq Node, S # {}
  PROVE  Min(S) \in S
<1> DEFINE less == {ss \in Nat \X Nat : ss[1] < ss[2]}
<1>1. IsWellFoundedOn(less, Nat)
      BY NatLessThanWellFounded, Zenon DEF OpToRel
<1>2. S \subseteq Nat
      BY NodeAssumption
<1>3. \A x, y \in S : x \in Nat /\ y \in Nat /\ (y < x => <<y, x>> \in less)
      BY <1>2
<1> HIDE DEF less
<1>4. \E x \in S : \A y \in S : ~(<<y, x>> \in less)
      BY <1>1, <1>2, WFMin
<1>5. PICK x \in S : \A y \in S : ~(<<y, x>> \in less)
      BY <1>4
<1>6. \A y \in S : ~(y < x) /\ y \in Nat /\ x \in Nat
      BY <1>3, <1>5
<1>7. \A y \in S : x <= y
      BY <1>6
<1> QED BY <1>7 DEF Min

\* Null is no claim.
LEMMA NoClaimIsNone == NoClaim \notin Claim
BY DEF NoClaim, Claim

\* Only the worker of o and n moves.
Moves(o, n) ==
  /\ worker' \in [Owner -> [GenNode -> Worker]]
  /\ \A q \in Owner : \A m \in GenNode : q # o \/ m # n => worker'[q][m] = worker[q][m]

\* A worker's record is replaced and nothing else.
LEMMA WorkerSet ==
  ASSUME TypeOK, NEW o \in Owner, NEW n \in GenNode, NEW w \in Worker,
         worker' = [worker EXCEPT ![o][n] = w]
  PROVE  Moves(o, n) /\ worker'[o][n] = w
BY DEF TypeOK, Moves

\* A worker goes on to its next step, with what it knows.
LEMMA WorkerStepped ==
  ASSUME TypeOK, NEW o \in Owner, NEW n \in GenNode, NEW pc \in WorkerPC, Step(o, n, pc)
  PROVE  /\ Moves(o, n)
         /\ W(o, n)'.pc = pc /\ W(o, n)'.claim = W(o, n).claim
         /\ W(o, n)'.running = W(o, n).running
<1> DEFINE w == [W(o, n) EXCEPT !.pc = pc]
<1>1. W(o, n) \in Worker
      BY DEF TypeOK, W
<1>2. w \in Worker /\ w.pc = pc /\ w.claim = W(o, n).claim /\ w.running = W(o, n).running
      BY <1>1 DEF Worker
<1> HIDE DEF w
<1>3. worker' = [worker EXCEPT ![o][n] = w]
      BY DEF Step, SetW, w
<1> QED BY <1>2, <1>3, WorkerSet DEF W

\* A worker meets an exception.
LEMMA WorkerFails ==
  ASSUME TypeOK, NEW o \in Owner, NEW n \in GenNode, NEW how \in Finished, Fails(o, n, how)
  PROVE  /\ Moves(o, n)
         /\ W(o, n)'.pc = "fail" /\ W(o, n)'.claim = W(o, n).claim
<1> DEFINE w == [W(o, n) EXCEPT !.pc = "fail", !.how = how]
<1>1. W(o, n) \in Worker /\ "fail" \in WorkerPC
      BY DEF TypeOK, W, WorkerPC
<1>2. w \in Worker /\ w.pc = "fail" /\ w.claim = W(o, n).claim
      BY <1>1 DEF Worker
<1> HIDE DEF w
<1>3. worker' = [worker EXCEPT ![o][n] = w]
      BY DEF Fails, SetW, w
<1> QED BY <1>2, <1>3, WorkerSet DEF W

\* A worker reads its row and comes to the gate.
LEMMA WorkerReads ==
  ASSUME TypeOK, NEW o \in Owner, NEW n \in GenNode, Reads(o, n, "gate")
  PROVE  /\ Moves(o, n)
         /\ W(o, n)'.pc = "gate" /\ W(o, n)'.claim = W(o, n).claim
         /\ W(o, n)'.running = Running(n)
<1> DEFINE b == Running(n)
           w == [W(o, n) EXCEPT !.pc = "gate", !.running = b]
<1>1. W(o, n) \in Worker /\ "gate" \in WorkerPC /\ b \in BOOLEAN
      BY DEF TypeOK, W, WorkerPC, Running
<1> HIDE DEF b
<1>2. w \in Worker /\ w.pc = "gate" /\ w.claim = W(o, n).claim /\ w.running = b
      BY <1>1 DEF Worker
<1> HIDE DEF w
<1>3. worker' = [worker EXCEPT ![o][n] = w]
      BY DEF Reads, SetW, w, b
<1> QED BY <1>2, <1>3, WorkerSet DEF W, b

\* A worker adopts the claim of its row.
LEMMA WorkerAdopts ==
  ASSUME TypeOK, NEW o \in Owner, NEW n \in GenNode,
         SetW(o, n, [W(o, n) EXCEPT !.pc = "act", !.claim = ClaimOf(n)])
  PROVE  /\ Moves(o, n)
         /\ W(o, n)'.pc = "act" /\ W(o, n)'.claim = ClaimOf(n)
         /\ ClaimOf(n) \in Claim /\ ClaimOf(n).node = n
         /\ ClaimOf(n).attempt = task[n].attempt /\ ClaimOf(n).owner = task[n].owner
<1> DEFINE c == ClaimOf(n)
           w == [W(o, n) EXCEPT !.pc = "act", !.claim = c]
<1>0. task[n] \in Row /\ n \in Node
      BY NodeAssumption DEF TypeOK, LedgerTypeOK
<1>1. W(o, n) \in Worker /\ "act" \in WorkerPC
      BY DEF TypeOK, W, WorkerPC
<1>2. /\ c \in Claim /\ c.node = n
      /\ c.attempt = task[n].attempt /\ c.owner = task[n].owner
      BY <1>0 DEF ClaimOf, Claim, Row
<1> HIDE DEF c
<1>3. w \in Worker /\ w.pc = "act" /\ w.claim = c
      BY <1>1, <1>2 DEF Worker
<1> HIDE DEF w
<1>4. worker' = [worker EXCEPT ![o][n] = w]
      BY DEF SetW, w, c
<1> QED BY <1>2, <1>3, <1>4, WorkerSet DEF W, c

\* The main thread's record is replaced and nothing else.
LEMMA MainSet ==
  ASSUME TypeOK, NEW o \in Owner, NEW p \in MainThread, Set(o, p)
  PROVE  /\ proc' \in [Owner -> MainThread]
         /\ proc'[o] = p
         /\ \A q \in Owner \ {o} : proc'[q] = proc[q]
BY DEF TypeOK, Set

\* The main thread goes on with what it knows.
LEMMA MainGoes ==
  ASSUME TypeOK, NEW o \in Owner, NEW pc \in MainPC, Go(o, pc)
  PROVE  /\ proc' \in [Owner -> MainThread]
         /\ proc'[o].pc = pc
         /\ proc'[o].plan = proc[o].plan /\ proc'[o].todo = proc[o].todo
         /\ proc'[o].cur = proc[o].cur /\ proc'[o].ret = proc[o].ret
         /\ \A q \in Owner \ {o} : proc'[q] = proc[q]
<1> DEFINE p == [proc[o] EXCEPT !.pc = pc]
<1>1. proc[o] \in MainThread
      BY DEF TypeOK
<1>2. /\ p \in MainThread /\ p.pc = pc /\ p.plan = proc[o].plan /\ p.todo = proc[o].todo
      /\ p.cur = proc[o].cur /\ p.ret = proc[o].ret
      BY <1>1 DEF MainThread
<1> HIDE DEF p
<1>3. Set(o, p)
      BY DEF Go, p
<1> QED BY <1>2, <1>3, MainSet

\* The main thread goes on with another loop.
LEMMA MainLoops ==
  ASSUME TypeOK, NEW o \in Owner, NEW pc \in MainPC, NEW S \in SUBSET Node, Loop(o, pc, S)
  PROVE  /\ proc' \in [Owner -> MainThread]
         /\ proc'[o].pc = pc
         /\ proc'[o].plan = proc[o].plan /\ proc'[o].todo = S
         /\ proc'[o].cur = proc[o].cur /\ proc'[o].ret = proc[o].ret
         /\ \A q \in Owner \ {o} : proc'[q] = proc[q]
<1> DEFINE p == [proc[o] EXCEPT !.pc = pc, !.todo = S]
<1>1. proc[o] \in MainThread
      BY DEF TypeOK
<1>2. /\ p \in MainThread /\ p.pc = pc /\ p.plan = proc[o].plan /\ p.todo = S
      /\ p.cur = proc[o].cur /\ p.ret = proc[o].ret
      BY <1>1 DEF MainThread
<1> HIDE DEF p
<1>3. Set(o, p)
      BY DEF Loop, p
<1> QED BY <1>2, <1>3, MainSet

-----------------------------------------------------------------------------
(* What a worker's step does: where it comes from, where it goes, and the  *)
(* ledger statement between, if any.                                       *)

\* The worker goes from a to a place of B.
Goes(o, n, a, B) == W(o, n).pc = a /\ W(o, n)'.pc \in B

\* The steps of a worker that leave the ledger alone.
WorkerReading(o, n) ==
  \/ Goes(o, n, "queued", {"cached"})
  \/ Goes(o, n, "queued", {"err"}) /\ MayDrift
  \/ Goes(o, n, "cached", {"ok", "err", "invalidate"}) /\ task[n].state = "succeeded"
  \/ Goes(o, n, "cached", {"task"})
  \/ Goes(o, n, "invalidate", {"task"}) /\ ~Present(n)
  \/ Goes(o, n, "task", {"err"}) /\ ~Present(n)
  \/ Goes(o, n, "task", {"retry"}) /\ task[n].state \in Stopped
  \/ Goes(o, n, "task", {"gate"}) /\ Present(n) /\ W(o, n)'.running = Running(n)
     /\ task[n].state \notin Stopped
  \/ Goes(o, n, "retry", {"err"}) /\ ~RetryAccepts(n)
  \/ Goes(o, n, "reread", {"gate"}) /\ Present(n) /\ W(o, n)'.running = Running(n)
  \/ Goes(o, n, "reread", {"err"}) /\ ~Present(n)
  \/ Goes(o, n, "gate", {"err"}) /\ cancelled
  \/ Goes(o, n, "gate", {"read"}) /\ ~cancelled /\ W(o, n).running
  \/ Goes(o, n, "gate", {"begin"}) /\ ~cancelled /\ ~W(o, n).running
  \/ Goes(o, n, "begin", {"err"}) /\ BeginRaises(n)
  \/ Goes(o, n, "read", {"err"}) /\ ~Present(n)
  \/ Goes(o, n, "read", {"snap"}) /\ task[n].owner # Null
  \/ Goes(o, n, "read", {"act"}) /\ task[n].owner = Null
  \/ Goes(o, n, "snap", {"err"}) /\ ~Running(n)
  \/ Goes(o, n, "act", {"gate2", "fail"})
  \/ Goes(o, n, "gate2", {"fail"}) /\ cancelled
  \/ Goes(o, n, "gate2", {"check"}) /\ ~cancelled /\ Fenced(o, n)
  \/ Goes(o, n, "gate2", {"succeed"}) /\ ~cancelled /\ ~Fenced(o, n)
  \/ Goes(o, n, "check", {"commit"}) /\ StillMine(o, n)
  \/ Goes(o, n, "check", {"fail"})
  \/ Goes(o, n, "commit", {"fail"}) /\ ~StillMine(o, n)
  \/ Goes(o, n, "succeed", {"ok", "err"}) /\ task[n].state = "succeeded"
  \/ Goes(o, n, "succeed", {"fail"})
  \/ Goes(o, n, "fail", Finished) /\ ~Fenced(o, n) /\ ~Running(n)
  \/ Goes(o, n, "fail", {"failrow"}) /\ ~Fenced(o, n) /\ Running(n)
  \/ Goes(o, n, "failrow", Finished) /\ ~Running(n)

\* The steps of a worker that are a statement of the ledger on its own row.
WorkerWriting(o, n) ==
  \/ Goes(o, n, "requeue", {"reread"}) /\ RetryUpdate(n)
  \/ Goes(o, n, "begin", {"read"}) /\ Begin(n, LocalOwner)
  \/ Goes(o, n, "commit", {"ok", "err"})
     /\ CommitSuccess(n, W(o, n).claim.attempt, W(o, n).claim.owner, MyHash(o, n))
  \/ Goes(o, n, "succeed", {"ok", "err"}) /\ Succeed(n, MyHash(o, n))
  \/ Goes(o, n, "fail", Finished) /\ Fenced(o, n)
     /\ FencedFail(n, W(o, n).claim.attempt, W(o, n).claim.owner)
  \/ Goes(o, n, "failrow", Finished) /\ Fail(n, FALSE)

\* Every step of a worker, classified.
LEMMA WorkerEffects ==
  ASSUME TypeOK, NEW o \in Owner, NEW n \in GenNode, WorkerStep(o, n)
  PROVE  /\ Moves(o, n)
         /\ UNCHANGED <<proc, cancels>>
         /\ \/ W(o, n)'.claim = W(o, n).claim /\ WorkerReading(o, n) /\ NoLedger
            \/ W(o, n)'.claim = W(o, n).claim /\ WorkerWriting(o, n)
            \/ W(o, n)'.claim = W(o, n).claim /\ NoLedger
               /\ Goes(o, n, "retry", {"requeue"}) /\ RetryAccepts(n)
            \/ W(o, n)'.claim = W(o, n).claim
               /\ Goes(o, n, "invalidate", {"task"}) /\ Invalidate(n)
            \/ /\ Goes(o, n, "snap", {"act"}) /\ Running(n) /\ NoLedger
               /\ W(o, n)'.claim = ClaimOf(n) /\ ClaimOf(n) \in Claim /\ ClaimOf(n).node = n
               /\ ClaimOf(n).attempt = task[n].attempt /\ ClaimOf(n).owner = task[n].owner
<1>0. /\ {"cached", "err", "ok", "loop", "invalidate", "task", "retry", "requeue", "reread", "gate",
          "begin", "read", "snap", "act", "gate2", "check", "commit", "succeed",
          "failrow"} \subseteq WorkerPC
      /\ Finished \subseteq WorkerPC /\ "err" \in Finished /\ "loop" \in Finished
      /\ Outcome \subseteq {"ok", "err"}
      BY DEF WorkerPC, Finished, Outcome
<1>1. ASSUME NEW pc \in WorkerPC, Step(o, n, pc)
      PROVE  /\ Moves(o, n)
             /\ W(o, n)'.pc = pc /\ W(o, n)'.claim = W(o, n).claim
      BY <1>1, WorkerStepped
<1>2. ASSUME NEW how \in Finished, Fails(o, n, how)
      PROVE  /\ Moves(o, n)
             /\ W(o, n)'.pc = "fail" /\ W(o, n)'.claim = W(o, n).claim
      BY <1>2, WorkerFails
<1>3. ASSUME Reads(o, n, "gate")
      PROVE  /\ Moves(o, n)
             /\ W(o, n)'.pc = "gate" /\ W(o, n)'.claim = W(o, n).claim
             /\ W(o, n)'.running = Running(n)
      BY <1>3, WorkerReads
<1>4. W(o, n).how \in Finished
      BY DEF TypeOK, W, Worker
<1> USE DEF At, Goes, NoMain, NoLedger
<1>5. CASE StartWorker(o, n)
      BY <1>5, <1>0, <1>1 DEF StartWorker, WorkerReading
<1>6. CASE ReadCache(o, n)
      BY <1>6, <1>0, <1>1 DEF ReadCache, WorkerReading
<1>7. CASE DropCache(o, n)
      BY <1>7, <1>0, <1>1 DEF DropCache, WorkerReading
<1>8. CASE ReadTask(o, n)
      BY <1>8, <1>0, <1>1, <1>3 DEF ReadTask, WorkerReading
<1>9. CASE WorkerRetry(o, n)
      BY <1>9, <1>0, <1>1 DEF WorkerRetry, WorkerReading
<1>10. CASE WorkerRequeue(o, n)
      BY <1>10, <1>0, <1>1 DEF WorkerRequeue, WorkerWriting
<1>11. CASE RereadTask(o, n)
      BY <1>11, <1>0, <1>1, <1>3 DEF RereadTask, WorkerReading
<1>12. CASE Gate(o, n)
      BY <1>12, <1>0, <1>1 DEF Gate, WorkerReading
<1>13. CASE WorkerBegin(o, n)
      BY <1>13, <1>0, <1>1 DEF WorkerBegin, WorkerReading, WorkerWriting
<1>14. CASE ReadClaim(o, n)
      BY <1>14, <1>0, <1>1 DEF ReadClaim, WorkerReading
<1>15. CASE SnapshotClaim(o, n)
  <2>1. CASE Running(n)
    <3>1. SetW(o, n, [W(o, n) EXCEPT !.pc = "act", !.claim = ClaimOf(n)])
          BY <1>15, <2>1 DEF SnapshotClaim
    <3>2. /\ Moves(o, n)
          /\ W(o, n)'.pc = "act" /\ W(o, n)'.claim = ClaimOf(n)
          /\ ClaimOf(n) \in Claim /\ ClaimOf(n).node = n
          /\ ClaimOf(n).attempt = task[n].attempt /\ ClaimOf(n).owner = task[n].owner
          BY <3>1, WorkerAdopts
    <3>3. W(o, n).pc = "snap" /\ NoMain /\ NoLedger
          BY <1>15 DEF SnapshotClaim
    <3> QED BY <2>1, <3>2, <3>3
  <2>2. CASE ~Running(n)
        BY <1>15, <2>2, <1>0, <1>1 DEF SnapshotClaim, WorkerReading
  <2> QED BY <2>1, <2>2
<1>16. CASE Act(o, n)
      BY <1>16, <1>0, <1>1, <1>2 DEF Act, WorkerReading
<1>17. CASE CancelCheck(o, n)
      BY <1>17, <1>0, <1>1, <1>2 DEF CancelCheck, WorkerReading
<1>18. CASE CheckClaim(o, n)
      BY <1>18, <1>0, <1>1, <1>2 DEF CheckClaim, WorkerReading
<1>19. CASE Commit(o, n)
      BY <1>19, <1>0, <1>1, <1>2 DEF Commit, WorkerReading, WorkerWriting
<1>20. CASE UnfencedSucceed(o, n)
      BY <1>20, <1>0, <1>1, <1>2 DEF UnfencedSucceed, WorkerReading, WorkerWriting
<1>21. CASE FailNode(o, n)
      BY <1>21, <1>0, <1>1, <1>4 DEF FailNode, WorkerReading, WorkerWriting
<1>22. CASE UnfencedFail(o, n)
      BY <1>22, <1>0, <1>1, <1>4 DEF UnfencedFail, WorkerReading, WorkerWriting
<1> QED BY <1>5, <1>6, <1>7, <1>8, <1>9, <1>10, <1>11, <1>12, <1>13, <1>14, <1>15, <1>16,
           <1>17, <1>18, <1>19, <1>20, <1>21, <1>22 DEF WorkerStep

-----------------------------------------------------------------------------
(* What a step of a main thread does.                                      *)

\* The main thread goes on, beside the workers it has.
MainMove(o) ==
  /\ Alive(o) /\ Alive(o)' /\ proc[o].pc # "unwind"
  /\ proc' \in [Owner -> MainThread]
  /\ \A q \in Owner \ {o} : proc'[q] = proc[q]
  /\ proc'[o].plan = proc[o].plan
  /\ MainOK(o)'
  /\ \A n \in GenNode : W(o, n).pc # "none" => Where(o)' \in Looping
  /\ \A n \in GenNode : proc'[o].pc \in Retries /\ proc'[o].cur = n => W(o, n).pc = "none"
  /\ NoWorkers

\* It is not between the two statements of retry(), or stays there.
MainReading(o) ==
  /\ NoLedger
  /\ proc[o].pc = "requeue" <=> proc'[o].pc = "requeue"
  /\ proc[o].pc = "requeue" => proc'[o].cur = proc[o].cur

\* It runs the SELECT of retry().
MainSelecting(o) ==
  /\ NoLedger
  /\ proc[o].pc = "retry" /\ proc'[o].pc = "requeue" /\ proc'[o].cur = proc[o].cur
  /\ RetryAccepts(proc[o].cur)

\* It runs the UPDATE of retry().
MainRequeueing(o) ==
  /\ proc[o].pc = "requeue" /\ proc'[o].pc # "requeue"
  /\ proc[o].cur \in proc[o].plan.nodes
  /\ RetryUpdate(proc[o].cur)

\* A statement of the ledger on a node outside generation, or a claim that
\* finds nothing.
MainWriting(o) ==
  /\ proc[o].pc # "requeue" /\ proc'[o].pc # "requeue"
  /\ \/ ClaimOrchestratorNone(o) /\ proc[o].pc = "claim"
     \/ \E n \in proc[o].plan.nodes \ GenNode :
          \/ Fail(n, TRUE)
          \/ Begin(n, LocalOwner)
          \/ Succeed(n, proc[o].plan.hash[n])

\* One of these.
MainEffect(o) ==
  MainReading(o) \/ MainSelecting(o) \/ MainRequeueing(o) \/ MainWriting(o)

\* What is known of a main thread at every step: its record, and that outside
\* the loop it has no workers.
LEMMA MainFacts ==
  ASSUME ShapeInv, NEW o \in Owner
  PROVE  /\ TypeOK /\ MainOK(o)
         /\ proc[o] \in MainThread
         /\ proc[o].todo \subseteq Node
         /\ proc[o].todo # {} => Min(proc[o].todo) \in proc[o].todo
         /\ proc[o].plan.nodes \subseteq Node
         /\ Where(o) \notin Looping => \A n \in GenNode : W(o, n).pc = "none"
         /\ \A n \in GenNode : WorkerOK(o, n)
<1>1. /\ TypeOK /\ MainOK(o) /\ \A n \in GenNode : WorkerOK(o, n)
      BY DEF ShapeInv
<1>2. proc[o] \in MainThread
      BY <1>1 DEF TypeOK
<1>3. proc[o].todo \subseteq Node /\ proc[o].plan \in Plans \cup {NoPlan}
      BY <1>2 DEF MainThread
<1>4. proc[o].plan.nodes \subseteq Node
      BY <1>3, PlanAssumption DEF Plan, NoPlan
<1>5. proc[o].todo # {} => Min(proc[o].todo) \in proc[o].todo
      BY <1>3, MinIn
<1>6. Where(o) \notin Looping => \A n \in GenNode : W(o, n).pc = "none"
      BY <1>1 DEF WorkerOK
<1> QED BY <1>1, <1>2, <1>3, <1>4, <1>5, <1>6

\* A raised exception leads to the unwinding.
LEMMA MainRaises ==
  ASSUME ShapeInv, NEW o \in Owner, Alive(o), proc[o].pc # "unwind", Raise(o), NoWorkers
  PROVE  MainMove(o) /\ proc'[o].pc = "unwind"
<1>1. TypeOK /\ MainOK(o)
      BY MainFacts
<1>2. "unwind" \in MainPC
      BY DEF MainPC
<1>3. /\ proc' \in [Owner -> MainThread]
      /\ proc'[o].pc = "unwind"
      /\ proc'[o].plan = proc[o].plan
      /\ \A q \in Owner \ {o} : proc'[q] = proc[q]
      BY <1>1, <1>2, MainGoes DEF Raise
<1> QED BY <1>1, <1>3 DEF MainMove, MainOK, Alive, Ended, Where, Retries, Looping,
                          Generating, Staging

\* The main thread goes on to pc within the same loop.
LEMMA MainGoesOn ==
  ASSUME ShapeInv, NEW o \in Owner, Alive(o), proc[o].pc # "unwind", NoWorkers,
         NEW pc \in MainPC \ (Ended \cup {"new"}), Go(o, pc),
         Where(o) \in Looping => Where(o)' \in Looping,
         proc[o].pc \in Retries \/ pc \notin Retries,
         pc \in {"stagetask", "begin", "succeed"} =>
           proc[o].pc \in Retries \cup {"stagetask", "begin", "succeed"},
         Where(o)' \in Generating => Where(o) \in Generating,
         Where(o)' \in Staging => Where(o) \in Staging
  PROVE  MainMove(o) /\ proc'[o].pc = pc /\ proc'[o].cur = proc[o].cur
<1>1. /\ TypeOK /\ MainOK(o) /\ \A n \in GenNode : WorkerOK(o, n)
      /\ Where(o) \notin Looping => \A n \in GenNode : W(o, n).pc = "none"
      BY MainFacts
<1>2. /\ proc' \in [Owner -> MainThread]
      /\ proc'[o].pc = pc
      /\ proc'[o].plan = proc[o].plan /\ proc'[o].todo = proc[o].todo
      /\ proc'[o].cur = proc[o].cur /\ proc'[o].ret = proc[o].ret
      /\ \A q \in Owner \ {o} : proc'[q] = proc[q]
      BY <1>1, MainGoes
<1>3. Alive(o)'
      BY <1>2 DEF Alive
<1>4. MainOK(o)'
      BY <1>1, <1>2 DEF MainOK, Where, Retries, Generating, Staging, Alive, Ended
<1>5. \A n \in GenNode : W(o, n).pc # "none" => Where(o)' \in Looping
      BY <1>1
<1>6. \A n \in GenNode : proc'[o].pc \in Retries /\ proc'[o].cur = n => W(o, n).pc = "none"
      BY <1>1, <1>2 DEF WorkerOK
<1> QED BY <1>2, <1>3, <1>4, <1>5, <1>6 DEF MainMove

\* A main thread without workers starts on something else: p is its record.
LEMMA MainIdle ==
  ASSUME ShapeInv, NEW o \in Owner, Alive(o), Where(o) \notin Looping, NoWorkers,
         NEW p \in MainThread, Set(o, p), p.pc \notin Ended \cup {"new"},
         p.plan = proc[o].plan, MainOK(o)'
  PROVE  MainMove(o) /\ proc'[o] = p
<1>1. /\ TypeOK /\ \A n \in GenNode : W(o, n).pc = "none"
      BY MainFacts
<1>2. /\ proc' \in [Owner -> MainThread] /\ proc'[o] = p
      /\ \A q \in Owner \ {o} : proc'[q] = proc[q]
      BY <1>1, MainSet
<1>3. Alive(o)' /\ proc[o].pc # "unwind"
      BY <1>2 DEF Alive, Where, Looping, Retries
<1> QED BY <1>1, <1>2, <1>3 DEF MainMove

\* The loop over failed nodes.
LEMMA ResumeLoopMoves ==
  ASSUME ShapeInv, NEW o \in Owner, ResumeLoop(o)
  PROVE  MainMove(o) /\ MainReading(o)
<1> DEFINE r == proc[o]
           n == Min(r.todo)
           rest == [r EXCEPT !.todo = r.todo \ {n}]
<1>1. /\ TypeOK /\ MainOK(o) /\ r \in MainThread /\ r.todo \subseteq Node
      /\ r.todo # {} => n \in r.todo
      /\ r.plan.nodes \subseteq Node
      BY MainFacts
<1>2. /\ r.pc \in {"open", "resume"} /\ NoLedger /\ NoWorkers
      /\ Alive(o) /\ Where(o) \notin Looping /\ r.pc # "unwind"
      BY DEF ResumeLoop, Alive, Ended, Where, Looping, Retries
<1>3. r.todo \subseteq r.plan.nodes \cap GenNode
      BY <1>1, <1>2 DEF MainOK, Where, Generating, Retries
<1>4. /\ {"stage", "top", "retry", "open", "resume"} \subseteq MainPC
      /\ r.plan \in Plans \cup {NoPlan}
      BY <1>1 DEF MainPC, MainThread
<1>5. CASE r.todo = {} /\ Set(o, AfterLoop(o))
  <2>1. CASE r.pc = "open"
    <3> DEFINE p == [r EXCEPT !.pc = "stage", !.todo = r.plan.nodes \cap PreNode]
    <3>1. Set(o, p)
          BY <1>5, <2>1 DEF AfterLoop
    <3>2. /\ p \in MainThread /\ p.pc = "stage" /\ p.plan = r.plan
          /\ p.todo = r.plan.nodes \cap PreNode
          BY <1>1, <1>4 DEF MainThread
    <3> HIDE DEF p
    <3>3. MainOK(o)'
      <4>1. proc'[o] = p
            BY <1>1, <3>1, <3>2, MainSet
      <4> QED BY <1>1, <1>2, <3>2, <4>1, StageAssumption
              DEF MainOK, Alive, Ended, Where, Retries, Generating, Staging
    <3>4. MainMove(o) /\ proc'[o] = p
          BY <1>2, <3>1, <3>2, <3>3, MainIdle DEF Ended
    <3> QED BY <1>2, <3>2, <3>4 DEF MainReading
  <2>2. CASE r.pc # "open"
    <3> DEFINE p == [r EXCEPT !.pc = "top"]
    <3>1. Set(o, p)
          BY <1>5, <2>2 DEF AfterLoop
    <3>2. /\ p \in MainThread /\ p.pc = "top" /\ p.plan = r.plan
          BY <1>1, <1>4 DEF MainThread
    <3> HIDE DEF p
    <3>3. MainOK(o)'
      <4>1. proc'[o] = p
            BY <1>1, <3>1, <3>2, MainSet
      <4> QED BY <1>1, <1>2, <3>2, <4>1
              DEF MainOK, Alive, Ended, Where, Retries, Generating, Staging
    <3>4. MainMove(o) /\ proc'[o] = p
          BY <1>2, <3>1, <3>2, <3>3, MainIdle DEF Ended
    <3> QED BY <1>2, <3>2, <3>4 DEF MainReading
  <2> QED BY <2>1, <2>2
<1>6. CASE Raise(o)
      BY <1>2, <1>6, MainRaises DEF MainReading
<1>7. CASE r.todo # {} /\ Set(o, [rest EXCEPT !.pc = "retry", !.cur = n, !.ret = r.pc])
  <2> DEFINE p == [rest EXCEPT !.pc = "retry", !.cur = n, !.ret = r.pc]
  <2>1. rest \in MainThread /\ rest.plan = r.plan /\ rest.todo = r.todo \ {n}
        BY <1>1, <1>7 DEF MainThread
  <2>2. n \in Node /\ n \in r.todo
        BY <1>1, <1>7
  <2> HIDE DEF rest, n
  <2>3. /\ p \in MainThread /\ p.pc = "retry" /\ p.plan = r.plan /\ p.cur = n
        /\ p.ret = r.pc /\ p.todo = r.todo \ {n}
        BY <1>1, <1>2, <1>4, <2>1, <2>2 DEF MainThread
  <2> HIDE DEF p
  <2>4. Set(o, p)
        BY <1>7 DEF p
  <2>5. MainOK(o)'
    <3>1. proc'[o] = p
          BY <1>1, <2>3, <2>4, MainSet
    <3> QED BY <1>1, <1>2, <1>3, <2>2, <2>3, <3>1
            DEF MainOK, Alive, Ended, Where, Retries, Generating, Staging
  <2>6. MainMove(o) /\ proc'[o] = p
        BY <1>2, <2>3, <2>4, <2>5, MainIdle DEF Ended
  <2> QED BY <1>2, <2>3, <2>6 DEF MainReading
<1>8. CASE r.todo # {} /\ Set(o, rest)
  <2>1. rest \in MainThread /\ rest.plan = r.plan /\ rest.todo = r.todo \ {n} /\ rest.pc = r.pc
        BY <1>1, <1>8 DEF MainThread
  <2> HIDE DEF rest, n
  <2>2. MainOK(o)'
    <3>1. proc'[o] = rest
          BY <1>1, <1>8, <2>1, MainSet
    <3> QED BY <1>1, <1>2, <1>3, <2>1, <3>1
            DEF MainOK, Alive, Ended, Where, Retries, Generating, Staging
  <2>3. MainMove(o) /\ proc'[o] = rest
        BY <1>2, <1>8, <2>1, <2>2, MainIdle DEF Ended
  <2> QED BY <1>2, <2>1, <2>3 DEF MainReading
<1> QED BY <1>5, <1>6, <1>7, <1>8 DEF ResumeLoop

\* The two statements of retry().
LEMMA MainRetryMoves ==
  ASSUME ShapeInv, NEW o \in Owner, MainRetry(o) \/ MainRequeue(o)
  PROVE  MainMove(o) /\ MainEffect(o)
<1>1. TypeOK /\ MainOK(o)
      BY MainFacts
<1>2. proc[o].pc \in Retries /\ Alive(o) /\ proc[o].pc # "unwind" /\ NoWorkers
      BY DEF MainRetry, MainRequeue, Retries, Alive, Ended
<1>3. /\ proc[o].ret \in {"open", "resume", "reap", "begin"}
      /\ proc[o].cur \in proc[o].plan.nodes
      BY <1>1, <1>2 DEF MainOK
<1>4. {"requeue", "open", "resume", "reap", "begin"} \subseteq MainPC \ (Ended \cup {"new"})
      BY DEF MainPC, Ended
<1>5. CASE Go(o, "requeue") /\ MainRetry(o) /\ RetryAccepts(proc[o].cur)
  <2>1. proc'[o].pc = "requeue" /\ proc'[o].ret = proc[o].ret
        BY <1>1, <1>4, <1>5, MainGoes
  <2>2. Where(o)' = Where(o)
        BY <1>2, <2>1 DEF Where, Retries
  <2>3. MainMove(o) /\ proc'[o].pc = "requeue" /\ proc'[o].cur = proc[o].cur
        BY <1>2, <1>4, <1>5, <2>2, MainGoesOn DEF Retries
  <2>4. MainSelecting(o)
        BY <1>5, <2>3 DEF MainSelecting, MainRetry
  <2> QED BY <2>3, <2>4 DEF MainEffect
<1>6. CASE Raise(o) /\ MainRetry(o)
  <2>1. MainMove(o) /\ proc'[o].pc = "unwind"
        BY <1>2, <1>6, MainRaises
  <2>2. MainReading(o)
        BY <1>6, <2>1 DEF MainReading, MainRetry
  <2> QED BY <2>1, <2>2 DEF MainEffect
<1>7. CASE Go(o, proc[o].ret) /\ MainRequeue(o)
  <2>1. proc'[o].pc = proc[o].ret
        BY <1>1, <1>3, <1>4, <1>7, MainGoes
  <2>2. Where(o)' = Where(o)
        BY <1>2, <1>3, <2>1 DEF Where, Retries
  <2>3. MainMove(o)
        BY <1>2, <1>3, <1>4, <1>7, <2>2, MainGoesOn
  <2>4. MainRequeueing(o)
        BY <1>3, <1>7, <2>1 DEF MainRequeueing, MainRequeue
  <2> QED BY <2>3, <2>4 DEF MainEffect
<1>8. CASE Raise(o) /\ MainRequeue(o)
  <2>1. MainMove(o) /\ proc'[o].pc = "unwind"
        BY <1>2, <1>8, MainRaises
  <2>2. MainRequeueing(o)
        BY <1>3, <1>8, <2>1 DEF MainRequeueing, MainRequeue
  <2> QED BY <2>1, <2>2 DEF MainEffect
<1> QED BY <1>5, <1>6, <1>7, <1>8 DEF MainRetry, MainRequeue

\* The main thread takes up the rest S of its stages.
LEMMA StageLoops ==
  ASSUME ShapeInv, NEW o \in Owner, proc[o].pc \in {"stage", "stagetask", "succeed"}, NoWorkers,
         NEW S \in SUBSET proc[o].todo, Loop(o, "stage", S)
  PROVE  MainMove(o) /\ proc'[o].pc = "stage"
<1> DEFINE p == [proc[o] EXCEPT !.pc = "stage", !.todo = S]
<1>1. /\ TypeOK /\ MainOK(o) /\ proc[o] \in MainThread /\ proc[o].todo \subseteq Node
      BY MainFacts
<1>2. Alive(o) /\ Where(o) \notin Looping
      BY DEF Alive, Ended, Where, Looping, Retries
<1>3. /\ p \in MainThread /\ p.pc = "stage" /\ p.plan = proc[o].plan /\ p.todo = S
      BY <1>1 DEF MainThread, MainPC
<1> HIDE DEF p
<1>4. Set(o, p)
      BY DEF Loop, p
<1>5. proc'[o] = p
      BY <1>1, <1>3, <1>4, MainSet
<1>6. MainOK(o)'
      BY <1>1, <1>2, <1>3, <1>5 DEF MainOK, Alive, Ended, Where, Retries, Generating, Staging
<1> QED BY <1>2, <1>3, <1>4, <1>6, MainIdle DEF Ended

\* The stages around generation.
LEMMA StageMoves ==
  ASSUME ShapeInv, NEW o \in Owner, Stage(o), ~EndProcess(o, "done")
  PROVE  MainMove(o) /\ MainReading(o)
<1> DEFINE r == proc[o]
           n == Min(r.todo)
<1>1. /\ TypeOK /\ MainOK(o) /\ r \in MainThread /\ r.todo \subseteq Node
      /\ r.todo # {} => n \in r.todo
      /\ r.plan.nodes \subseteq Node
      BY MainFacts
<1>2. r.pc = "stage" /\ Alive(o) /\ Where(o) \notin Looping /\ r.pc # "unwind"
      BY DEF Stage, Alive, Ended, Where, Looping, Retries
<1>3. r.todo \subseteq r.plan.nodes \ GenNode
      BY <1>1, <1>2 DEF MainOK, Where, Staging, Retries
<1>4. CASE Loop(o, "resume", r.plan.nodes \cap GenNode) /\ NoLedger /\ NoWorkers
  <2> DEFINE p == [r EXCEPT !.pc = "resume", !.todo = r.plan.nodes \cap GenNode]
  <2>1. /\ p \in MainThread /\ p.pc = "resume" /\ p.plan = r.plan
        /\ p.todo = r.plan.nodes \cap GenNode
        BY <1>1 DEF MainThread, MainPC
  <2> HIDE DEF p
  <2>2. Set(o, p)
        BY <1>4 DEF Loop, p
  <2>3. proc'[o] = p
        BY <1>1, <2>1, <2>2, MainSet
  <2>4. MainOK(o)'
        BY <1>1, <1>2, <2>1, <2>3 DEF MainOK, Alive, Ended, Where, Retries, Generating, Staging
  <2>5. MainMove(o)
        BY <1>2, <1>4, <2>1, <2>2, <2>4, MainIdle DEF Ended
  <2> QED BY <1>2, <1>4, <2>1, <2>3, <2>5 DEF MainReading
<1>5. CASE Raise(o) /\ NoLedger /\ NoWorkers
      BY <1>2, <1>5, MainRaises DEF MainReading
<1>6. CASE r.todo # {} /\ Set(o, [r EXCEPT !.pc = "stagetask", !.cur = n]) /\ NoLedger /\ NoWorkers
  <2> DEFINE p == [r EXCEPT !.pc = "stagetask", !.cur = n]
  <2>1. n \in r.todo /\ n \in Node
        BY <1>1, <1>6
  <2> HIDE DEF n
  <2>2. /\ p \in MainThread /\ p.pc = "stagetask" /\ p.plan = r.plan
        /\ p.todo = r.todo /\ p.cur = n
        BY <1>1, <2>1 DEF MainThread, MainPC
  <2> HIDE DEF p
  <2>3. Set(o, p)
        BY <1>6 DEF p
  <2>4. proc'[o] = p
        BY <1>1, <2>2, <2>3, MainSet
  <2>5. MainOK(o)'
        BY <1>1, <1>2, <1>3, <2>1, <2>2, <2>4
           DEF MainOK, Alive, Ended, Where, Retries, Generating, Staging
  <2>6. MainMove(o)
        BY <1>2, <1>6, <2>2, <2>3, <2>5, MainIdle DEF Ended
  <2> QED BY <1>2, <1>6, <2>2, <2>4, <2>6 DEF MainReading
<1> QED BY <1>4, <1>5, <1>6 DEF Stage

\* A stage that is parked.
LEMMA StageInputMoves ==
  ASSUME ShapeInv, NEW o \in Owner, StageInput(o)
  PROVE  MainMove(o) /\ MainEffect(o)
<1> DEFINE n == Min(proc[o].todo)
<1>1. /\ TypeOK /\ MainOK(o) /\ proc[o].todo \subseteq Node
      /\ proc[o].todo # {} => n \in proc[o].todo
      BY MainFacts
<1>2. /\ proc[o].pc = "stage" /\ Alive(o) /\ NoWorkers /\ proc[o].pc # "unwind"
      /\ proc[o].todo # {}
      BY DEF StageInput, Alive, Ended
<1>3. n \in proc[o].plan.nodes \ GenNode
      BY <1>1, <1>2 DEF MainOK, Where, Staging, Retries
<1> HIDE DEF n
<1>4. CASE Fail(n, TRUE) /\ Loop(o, "stage", proc[o].todo \ {n})
  <2>1. MainMove(o) /\ proc'[o].pc = "stage"
        BY <1>2, <1>4, StageLoops
  <2>2. MainWriting(o)
        BY <1>2, <1>3, <1>4, <2>1 DEF MainWriting
  <2> QED BY <2>1, <2>2 DEF MainEffect
<1>5. CASE Loop(o, "stage", proc[o].todo \ {n}) /\ NoLedger
  <2>1. MainMove(o) /\ proc'[o].pc = "stage"
        BY <1>2, <1>5, StageLoops
  <2> QED BY <1>2, <1>5, <2>1 DEF MainEffect, MainReading
<1>6. CASE Raise(o) /\ NoLedger
  <2>1. MainMove(o) /\ proc'[o].pc = "unwind"
        BY <1>2, <1>6, MainRaises
  <2> QED BY <1>2, <1>6, <2>1 DEF MainEffect, MainReading
<1> QED BY <1>4, <1>5, <1>6 DEF StageInput, n

\* _succeed_work_node reads, begins and publishes its node.
LEMMA StageTaskMoves ==
  ASSUME ShapeInv, NEW o \in Owner, StageTask(o)
  PROVE  MainMove(o) /\ MainReading(o)
<1> DEFINE r == proc[o]
           p == [r EXCEPT !.pc = "retry", !.ret = "begin"]
<1>1. /\ TypeOK /\ MainOK(o) /\ r \in MainThread
      BY MainFacts
<1>2. /\ r.pc = "stagetask" /\ Alive(o) /\ NoWorkers /\ NoLedger /\ r.pc # "unwind"
      /\ Where(o) \notin Looping
      BY DEF StageTask, Alive, Ended, Where, Looping, Retries
<1>3. CASE Raise(o)
      BY <1>2, <1>3, MainRaises DEF MainReading
<1>4. CASE Loop(o, "stage", r.todo \ {r.cur})
      BY <1>2, <1>4, StageLoops DEF MainReading
<1>5. CASE Set(o, p)
  <2>1. /\ p \in MainThread /\ p.pc = "retry" /\ p.ret = "begin" /\ p.plan = r.plan
        /\ p.todo = r.todo /\ p.cur = r.cur
        BY <1>1 DEF MainThread, MainPC
  <2> HIDE DEF p
  <2>2. proc'[o] = p
        BY <1>1, <1>5, <2>1, MainSet
  <2>3. MainOK(o)'
        BY <1>1, <1>2, <2>1, <2>2 DEF MainOK, Alive, Ended, Where, Retries, Generating, Staging
  <2>4. MainMove(o)
        BY <1>2, <1>5, <2>1, <2>3, MainIdle DEF Ended
  <2> QED BY <1>2, <2>1, <2>2, <2>4 DEF MainReading
<1>6. CASE Go(o, "begin")
  <2>1. "begin" \in MainPC \ (Ended \cup {"new"})
        BY DEF MainPC, Ended
  <2>2. proc'[o].pc = "begin"
        BY <1>1, <1>6, <2>1, MainGoes
  <2>3. Where(o) = "stagetask" /\ Where(o)' = "begin"
        BY <1>2, <2>2 DEF Where, Retries
  <2>4. MainMove(o) /\ proc'[o].pc = "begin"
        BY <1>2, <1>6, <2>1, <2>3, MainGoesOn DEF Retries, Generating, Staging, Looping
  <2> QED BY <1>2, <2>4 DEF MainReading
<1> QED BY <1>3, <1>4, <1>5, <1>6 DEF StageTask

\* begin() for a node outside generation.
LEMMA StageBeginMoves ==
  ASSUME ShapeInv, NEW o \in Owner, StageBegin(o)
  PROVE  MainMove(o) /\ MainEffect(o)
<1>1. TypeOK /\ MainOK(o)
      BY MainFacts
<1>2. /\ proc[o].pc = "begin" /\ Alive(o) /\ NoWorkers /\ proc[o].pc # "unwind"
      /\ Where(o) = "begin"
      BY DEF StageBegin, Alive, Ended, Where, Retries
<1>3. proc[o].cur \in proc[o].plan.nodes \ GenNode
      BY <1>1, <1>2 DEF MainOK, Generating
<1>4. CASE Begin(proc[o].cur, LocalOwner) /\ Go(o, "succeed")
  <2>1. "succeed" \in MainPC \ (Ended \cup {"new"})
        BY DEF MainPC, Ended
  <2>2. proc'[o].pc = "succeed"
        BY <1>1, <1>4, <2>1, MainGoes
  <2>3. Where(o)' = "succeed"
        BY <2>2 DEF Where, Retries
  <2>4. MainMove(o) /\ proc'[o].pc = "succeed"
        BY <1>2, <1>4, <2>1, <2>3, MainGoesOn DEF Retries, Generating, Staging, Looping
  <2>5. MainWriting(o)
        BY <1>2, <1>3, <1>4, <2>4 DEF MainWriting
  <2> QED BY <2>4, <2>5 DEF MainEffect
<1>5. CASE Raise(o) /\ NoLedger
  <2>1. MainMove(o) /\ proc'[o].pc = "unwind"
        BY <1>2, <1>5, MainRaises
  <2> QED BY <1>2, <1>5, <2>1 DEF MainEffect, MainReading
<1> QED BY <1>4, <1>5 DEF StageBegin

\* succeed() for a node outside generation.
LEMMA StageSucceedMoves ==
  ASSUME ShapeInv, NEW o \in Owner, StageSucceed(o)
  PROVE  MainMove(o) /\ MainEffect(o)
<1>1. TypeOK /\ MainOK(o)
      BY MainFacts
<1>2. /\ proc[o].pc = "succeed" /\ Alive(o) /\ NoWorkers /\ proc[o].pc # "unwind"
      BY DEF StageSucceed, Alive, Ended
<1>3. proc[o].cur \in proc[o].plan.nodes \ GenNode
      BY <1>1, <1>2 DEF MainOK, Generating, Where, Retries
<1> DEFINE n == proc[o].cur
<1>4. CASE Succeed(n, proc[o].plan.hash[n]) /\ Loop(o, "stage", proc[o].todo \ {n})
  <2>1. MainMove(o) /\ proc'[o].pc = "stage"
        BY <1>2, <1>4, StageLoops
  <2>2. MainWriting(o)
        BY <1>2, <1>3, <1>4, <2>1 DEF MainWriting
  <2> QED BY <2>1, <2>2 DEF MainEffect
<1>5. CASE Loop(o, "stage", proc[o].todo \ {n}) /\ NoLedger
  <2>1. MainMove(o) /\ proc'[o].pc = "stage"
        BY <1>2, <1>5, StageLoops
  <2> QED BY <1>2, <1>5, <2>1 DEF MainEffect, MainReading
<1>6. CASE Raise(o) /\ NoLedger
  <2>1. MainMove(o) /\ proc'[o].pc = "unwind"
        BY <1>2, <1>6, MainRaises
  <2> QED BY <1>2, <1>6, <2>1 DEF MainEffect, MainReading
<1> QED BY <1>4, <1>5, <1>6 DEF StageSucceed

\* A main thread in the loop that stays there, beside its workers: p is its
\* record.
LEMMA MainLooping ==
  ASSUME ShapeInv, NEW o \in Owner, Alive(o), proc[o].pc # "unwind", NoWorkers,
         NEW p \in MainThread, Set(o, p), p.plan = proc[o].plan,
         p.pc \in Looping \/ (p.pc = "inspect" /\ Futures(o) = {}),
         p.pc \in Generating => p.todo \subseteq p.plan.nodes \cap GenNode
  PROVE  MainMove(o) /\ proc'[o] = p
<1>1. TypeOK /\ MainOK(o)
      BY MainFacts
<1>2. /\ proc' \in [Owner -> MainThread] /\ proc'[o] = p
      /\ \A q \in Owner \ {o} : proc'[q] = proc[q]
      BY <1>1, MainSet
<1>3. Alive(o)'
      BY <1>2 DEF Alive, Ended, Looping
<1>4. Where(o)' = p.pc /\ p.pc \notin Retries
      BY <1>2 DEF Where, Retries, Looping
<1>5. MainOK(o)'
      BY <1>1, <1>2, <1>4 DEF MainOK, Retries, Staging, Looping, Alive
<1>6. \A n \in GenNode : W(o, n).pc # "none" => Where(o)' \in Looping
      BY <1>4 DEF Futures, W
<1> QED BY <1>2, <1>3, <1>4, <1>5, <1>6 DEF MainMove

\* The head of the scheduler loop.
LEMMA TopMoves ==
  ASSUME ShapeInv, NEW o \in Owner, Top(o)
  PROVE  MainMove(o) /\ MainReading(o)
<1> DEFINE p == [proc[o] EXCEPT !.pc = "reap", !.todo = Done(o)]
<1>1. /\ TypeOK /\ proc[o] \in MainThread /\ proc[o].plan.nodes \subseteq Node
      /\ \A n \in GenNode : WorkerOK(o, n)
      BY MainFacts
<1>2. proc[o].pc = "top" /\ Alive(o) /\ NoWorkers /\ NoLedger /\ proc[o].pc # "unwind"
      BY DEF Top, Alive, Ended
<1>3. CASE Raise(o)
      BY <1>2, <1>3, MainRaises DEF MainReading
<1>4. CASE Loop(o, "reap", Done(o))
  <2>1. Done(o) \subseteq proc[o].plan.nodes \cap GenNode
        BY <1>1 DEF Done, WorkerOK, W, Finished
  <2>2. Done(o) \subseteq Node
        BY <1>1, <2>1
  <2>3. p \in MainThread /\ p.pc = "reap" /\ p.todo = Done(o) /\ p.plan = proc[o].plan
        BY <1>1, <2>2 DEF MainThread, MainPC
  <2>4. Set(o, p)
        BY <1>4 DEF Loop
  <2> HIDE DEF p
  <2>5. MainMove(o) /\ proc'[o] = p
        BY <1>2, <2>1, <2>3, <2>4, MainLooping DEF Looping
  <2> QED BY <1>2, <2>3, <2>5 DEF MainReading
<1> QED BY <1>3, <1>4 DEF Top

\* All finished futures are taken.
LEMMA ReapEndMoves ==
  ASSUME ShapeInv, NEW o \in Owner, ReapEnd(o)
  PROVE  MainMove(o) /\ MainReading(o)
<1> DEFINE p == [proc[o] EXCEPT !.pc = "claim"]
<1>1. proc[o] \in MainThread
      BY MainFacts
<1>2. proc[o].pc = "reap" /\ Alive(o) /\ NoWorkers /\ NoLedger /\ proc[o].pc # "unwind"
      BY DEF ReapEnd, Alive, Ended
<1>3. p \in MainThread /\ p.pc = "claim" /\ p.plan = proc[o].plan
      BY <1>1 DEF MainThread, MainPC
<1>4. Set(o, p)
      BY DEF ReapEnd, Go
<1> HIDE DEF p
<1>5. MainMove(o) /\ proc'[o] = p
      BY <1>2, <1>3, <1>4, MainLooping DEF Looping, Generating
<1> QED BY <1>2, <1>3, <1>5 DEF MainReading

\* No node is ready: the scheduler waits for its workers, or reads the rows.
LEMMA ClaimNothingMoves ==
  ASSUME ShapeInv, NEW o \in Owner, ClaimNothing(o)
  PROVE  MainMove(o) /\ MainWriting(o)
<1>1. proc[o] \in MainThread /\ proc[o].plan.nodes \subseteq Node
      BY MainFacts
<1>2. /\ proc[o].pc = "claim" /\ Alive(o) /\ NoWorkers /\ proc[o].pc # "unwind"
      /\ ClaimOrchestratorNone(o)
      BY DEF ClaimNothing, Alive, Ended
<1>3. CASE Futures(o) # {}
  <2> DEFINE p == [proc[o] EXCEPT !.pc = "top"]
  <2>1. p \in MainThread /\ p.pc = "top" /\ p.plan = proc[o].plan
        BY <1>1 DEF MainThread, MainPC
  <2>2. Set(o, p)
        BY <1>3 DEF ClaimNothing, Go
  <2> HIDE DEF p
  <2>3. MainMove(o) /\ proc'[o] = p
        BY <1>2, <2>1, <2>2, MainLooping DEF Looping, Generating
  <2> QED BY <1>2, <2>1, <2>3 DEF MainWriting
<1>4. CASE Futures(o) = {}
  <2> DEFINE S == proc[o].plan.nodes \cap GenNode
             p == [proc[o] EXCEPT !.pc = "inspect", !.seen = {}, !.todo = S]
  <2>1. S \subseteq Node
        BY <1>1
  <2>2. p \in MainThread /\ p.pc = "inspect" /\ p.plan = proc[o].plan /\ p.todo = S
        BY <1>1, <2>1 DEF MainThread, MainPC
  <2>3. Set(o, p)
        BY <1>4 DEF ClaimNothing
  <2> HIDE DEF p
  <2>4. MainMove(o) /\ proc'[o] = p
        BY <1>2, <1>4, <2>2, <2>3, MainLooping
  <2> QED BY <1>2, <2>2, <2>4 DEF MainWriting
<1> QED BY <1>3, <1>4

\* A lapsed lease of its own stops the scheduler.
LEMMA ClaimLapsedMoves ==
  ASSUME ShapeInv, NEW o \in Owner, ClaimLapsed(o)
  PROVE  MainMove(o) /\ MainReading(o)
<1>1. /\ proc[o].pc = "claim" /\ Alive(o) /\ NoWorkers /\ NoLedger /\ Raise(o)
      BY DEF ClaimLapsed, Alive, Ended
<1> QED BY <1>1, MainRaises DEF MainReading

\* The rows are read one after the other.
LEMMA InspectMoves ==
  ASSUME ShapeInv, NEW o \in Owner, Inspect(o)
  PROVE  MainMove(o) /\ MainReading(o)
<1> DEFINE r == proc[o]
           n == Min(r.todo)
           S == r.todo \ {n}
           T == r.seen \cup {task[n].state}
           p == [r EXCEPT !.todo = S, !.seen = T]
<1>1. /\ TypeOK /\ MainOK(o) /\ r \in MainThread /\ r.todo \subseteq Node
      /\ r.todo # {} => n \in r.todo
      BY MainFacts
<1>2. /\ r.pc = "inspect" /\ Alive(o) /\ NoWorkers /\ NoLedger /\ r.pc # "unwind"
      /\ r.todo # {} /\ Where(o) \notin Looping
      BY DEF Inspect, Alive, Ended, Where, Looping, Retries
<1>3. r.todo \subseteq r.plan.nodes \cap GenNode
      BY <1>1, <1>2 DEF MainOK, Where, Generating, Retries
<1>4. CASE Raise(o)
      BY <1>2, <1>4, MainRaises DEF MainReading
<1>5. CASE Set(o, p) /\ Present(n)
  <2>1. task[n] \in Row /\ r.seen \subseteq WorkState
        BY <1>1, <1>2 DEF TypeOK, LedgerTypeOK, MainThread
  <2>2. T \subseteq WorkState /\ S \subseteq Node
        BY <1>1, <1>5, <2>1 DEF Row, Present
  <2>3. S \subseteq r.todo
        OBVIOUS
  <2> HIDE DEF S, T
  <2>4. p \in MainThread /\ p.pc = "inspect" /\ p.plan = r.plan /\ p.todo = S
        BY <1>1, <1>2, <2>2 DEF MainThread, MainPC
  <2> HIDE DEF p
  <2>5. proc'[o] = p
        BY <1>1, <1>5, <2>4, MainSet
  <2>6. MainOK(o)'
        BY <1>1, <1>2, <1>3, <2>3, <2>4, <2>5
           DEF MainOK, Alive, Ended, Where, Retries, Generating, Staging
  <2>7. MainMove(o)
        BY <1>2, <1>5, <2>4, <2>6, MainIdle DEF Ended
  <2> QED BY <1>2, <2>4, <2>5, <2>7 DEF MainReading
<1> QED BY <1>4, <1>5 DEF Inspect

\* The scheduler decides from what it has read.
LEMMA DecideMoves ==
  ASSUME ShapeInv, NEW o \in Owner, Decide(o)
  PROVE  MainMove(o) /\ MainReading(o)
<1> DEFINE r == proc[o]
           S == r.plan.nodes \cap PostNode
           p == [r EXCEPT !.pc = "stage", !.phase = "post", !.todo = S]
           u == [r EXCEPT !.pc = "top"]
<1>1. /\ TypeOK /\ MainOK(o) /\ r \in MainThread /\ r.plan.nodes \subseteq Node
      BY MainFacts
<1>2. /\ r.pc = "inspect" /\ Alive(o) /\ NoWorkers /\ NoLedger /\ r.pc # "unwind"
      /\ Where(o) \notin Looping
      BY DEF Decide, Alive, Ended, Where, Looping, Retries
<1>3. CASE Raise(o)
      BY <1>2, <1>3, MainRaises DEF MainReading
<1>4. CASE Set(o, p)
  <2>1. S \subseteq Node /\ S \subseteq r.plan.nodes \ GenNode
        BY <1>1, StageAssumption
  <2> HIDE DEF S
  <2>2. p \in MainThread /\ p.pc = "stage" /\ p.plan = r.plan /\ p.todo = S
        BY <1>1, <2>1 DEF MainThread, MainPC
  <2> HIDE DEF p
  <2>3. proc'[o] = p
        BY <1>1, <1>4, <2>2, MainSet
  <2>4. MainOK(o)'
        BY <1>1, <1>2, <2>1, <2>2, <2>3
           DEF MainOK, Alive, Ended, Where, Retries, Generating, Staging
  <2>5. MainMove(o)
        BY <1>2, <1>4, <2>2, <2>4, MainIdle DEF Ended
  <2> QED BY <1>2, <2>2, <2>3, <2>5 DEF MainReading
<1>5. CASE Set(o, u)
  <2>1. u \in MainThread /\ u.pc = "top" /\ u.plan = r.plan
        BY <1>1 DEF MainThread, MainPC
  <2> HIDE DEF u
  <2>2. MainMove(o) /\ proc'[o] = u
        BY <1>2, <1>5, <2>1, MainLooping DEF Looping, Generating
  <2> QED BY <1>2, <2>1, <2>2 DEF MainReading
<1> QED BY <1>3, <1>4, <1>5 DEF Decide, Go

\* The heartbeat thread records an error.
LEMMA HeartbeatMoves ==
  ASSUME ShapeInv, NEW o \in Owner, HeartbeatFails(o)
  PROVE  MainMove(o) /\ MainReading(o)
<1> DEFINE p == [proc[o] EXCEPT !.beat = TRUE]
<1>1. /\ TypeOK /\ MainOK(o) /\ proc[o] \in MainThread
      /\ \A n \in GenNode : WorkerOK(o, n)
      BY MainFacts
<1>2. /\ Alive(o) /\ NoWorkers /\ NoLedger /\ proc[o].pc # "unwind" /\ Set(o, p)
      BY DEF HeartbeatFails, Alive, Ended
<1>3. /\ p \in MainThread /\ p.pc = proc[o].pc /\ p.plan = proc[o].plan
      /\ p.todo = proc[o].todo /\ p.cur = proc[o].cur /\ p.ret = proc[o].ret
      BY <1>1 DEF MainThread
<1> HIDE DEF p
<1>4. /\ proc' \in [Owner -> MainThread] /\ proc'[o] = p
      /\ \A q \in Owner \ {o} : proc'[q] = proc[q]
      BY <1>1, <1>2, <1>3, MainSet
<1>5. Where(o)' = Where(o) /\ Alive(o)'
      BY <1>2, <1>3, <1>4 DEF Where, Alive
<1>6. MainOK(o)'
      BY <1>1, <1>2, <1>3, <1>4, <1>5 DEF MainOK
<1>7. MainMove(o)
      BY <1>1, <1>2, <1>3, <1>4, <1>5, <1>6 DEF MainMove, WorkerOK
<1> QED BY <1>2, <1>3, <1>4, <1>7 DEF MainReading

\* Every step of a main thread that is a MainMove.
MainLocal(o) ==
  \/ ResumeLoop(o) \/ MainRetry(o) \/ MainRequeue(o)
  \/ Stage(o) /\ ~EndProcess(o, "done")
  \/ StageInput(o) \/ StageTask(o) \/ StageBegin(o) \/ StageSucceed(o)
  \/ Top(o) \/ ReapEnd(o) \/ ClaimNothing(o) \/ ClaimLapsed(o)
  \/ Inspect(o) \/ Decide(o) \/ HeartbeatFails(o)

\* These steps, classified.
LEMMA MainEffects ==
  ASSUME ShapeInv, NEW o \in Owner, MainLocal(o)
  PROVE  MainMove(o) /\ MainEffect(o)
<1>1. CASE ResumeLoop(o)
      BY <1>1, ResumeLoopMoves DEF MainEffect
<1>2. CASE MainRetry(o) \/ MainRequeue(o)
      BY <1>2, MainRetryMoves
<1>3. CASE Stage(o) /\ ~EndProcess(o, "done")
      BY <1>3, StageMoves DEF MainEffect
<1>4. CASE StageInput(o)
      BY <1>4, StageInputMoves
<1>5. CASE StageTask(o)
      BY <1>5, StageTaskMoves DEF MainEffect
<1>6. CASE StageBegin(o)
      BY <1>6, StageBeginMoves
<1>7. CASE StageSucceed(o)
      BY <1>7, StageSucceedMoves
<1>8. CASE Top(o)
      BY <1>8, TopMoves DEF MainEffect
<1>9. CASE ReapEnd(o)
      BY <1>9, ReapEndMoves DEF MainEffect
<1>10. CASE ClaimNothing(o)
      BY <1>10, ClaimNothingMoves DEF MainEffect
<1>11. CASE ClaimLapsed(o)
      BY <1>11, ClaimLapsedMoves DEF MainEffect
<1>12. CASE Inspect(o)
      BY <1>12, InspectMoves DEF MainEffect
<1>13. CASE Decide(o)
      BY <1>13, DecideMoves DEF MainEffect
<1>14. CASE HeartbeatFails(o)
      BY <1>14, HeartbeatMoves DEF MainEffect
<1> QED BY <1>1, <1>2, <1>3, <1>4, <1>5, <1>6, <1>7, <1>8, <1>9, <1>10, <1>11, <1>12,
           <1>13, <1>14 DEF MainLocal

\* A finished future is taken: its worker is gone.
LEMMA ReapEffects ==
  ASSUME ShapeInv, NEW o \in Owner, Reap(o)
  PROVE  \E n \in GenNode :
           /\ W(o, n).pc # "none" => n \in proc[o].plan.nodes
           /\ Moves(o, n) /\ worker'[o][n] = NoWorker
           /\ proc' \in [Owner -> MainThread]
           /\ \A q \in Owner \ {o} : proc'[q] = proc[q]
           /\ proc[o].pc = "reap" /\ proc'[o].plan = proc[o].plan
           /\ n \in proc[o].todo
           /\ \/ proc'[o].pc = "unwind"
              \/ proc'[o].pc = "reap" /\ proc'[o].todo = proc[o].todo \ {n}
              \/ /\ proc'[o].pc = "retry" /\ proc'[o].todo = proc[o].todo \ {n}
                 /\ proc'[o].cur = n /\ proc'[o].ret = "reap"
           /\ NoLedger /\ UNCHANGED cancels
<1> DEFINE r == proc[o]
           n == Min(r.todo)
           S == r.todo \ {n}
           rest == [r EXCEPT !.todo = S]
           T == r.retried \cup {n}
           p == [rest EXCEPT !.pc = "retry", !.cur = n, !.ret = "reap", !.retried = T]
<1>1. /\ TypeOK /\ MainOK(o) /\ r \in MainThread /\ r.todo \subseteq Node
      /\ r.todo # {} => n \in r.todo
      /\ \A m \in GenNode : WorkerOK(o, m)
      BY MainFacts
<1>2. r.pc = "reap" /\ r.todo # {} /\ n \in r.todo /\ NoLedger /\ UNCHANGED cancels
      BY <1>1 DEF Reap
<1>3. r.todo \subseteq r.plan.nodes \cap GenNode
      BY <1>1, <1>2 DEF MainOK, Where, Generating, Retries
<1>4. n \in GenNode /\ n \in Node /\ n \in r.plan.nodes
      BY <1>1, <1>2, <1>3
<1>5. worker' = [worker EXCEPT ![o][n] = NoWorker]
      BY DEF Reap
<1>6. NoWorker \in Worker
      BY DEF NoWorker, Worker, WorkerPC, Finished
<1> HIDE DEF n
<1>7. Moves(o, n) /\ worker'[o][n] = NoWorker
      BY <1>1, <1>4, <1>5, <1>6, WorkerSet
<1>8. S \subseteq Node /\ T \subseteq GenNode
      BY <1>1, <1>4 DEF MainThread
<1> HIDE DEF S, T
<1>9. /\ rest \in MainThread /\ rest.pc = "reap" /\ rest.todo = S /\ rest.plan = r.plan
      BY <1>1, <1>2, <1>8 DEF MainThread
<1> HIDE DEF rest
<1>10. /\ p \in MainThread /\ p.pc = "retry" /\ p.todo = S /\ p.plan = r.plan
       /\ p.cur = n /\ p.ret = "reap"
      BY <1>4, <1>8, <1>9 DEF MainThread, MainPC
<1>11. \/ Raise(o) \/ Set(o, rest)
       \/ Set(o, [rest EXCEPT !.pc = "retry", !.cur = n, !.ret = "reap",
                              !.retried = rest.retried \cup {n}])
      BY DEF Reap, rest, S, n
<1>12. rest.retried = r.retried
      BY <1>1 DEF rest, MainThread
<1>13. Raise(o) \/ Set(o, rest) \/ Set(o, p)
      BY <1>11, <1>12 DEF T
<1> HIDE DEF p
<1>14. /\ proc' \in [Owner -> MainThread]
       /\ \A q \in Owner \ {o} : proc'[q] = proc[q]
       /\ proc'[o].plan = r.plan
       /\ \/ proc'[o].pc = "unwind"
          \/ proc'[o].pc = "reap" /\ proc'[o].todo = S
          \/ proc'[o].pc = "retry" /\ proc'[o].todo = S /\ proc'[o].cur = n /\ proc'[o].ret = "reap"
  <2>1. CASE Raise(o)
    <3>1. "unwind" \in MainPC
          BY DEF MainPC
    <3> QED BY <1>1, <2>1, <3>1, MainGoes DEF Raise
  <2>2. CASE Set(o, rest)
        BY <1>1, <1>9, <2>2, MainSet
  <2>3. CASE Set(o, p)
        BY <1>1, <1>10, <2>3, MainSet
  <2> QED BY <1>13, <2>1, <2>2, <2>3
<1> QED BY <1>2, <1>4, <1>7, <1>14 DEF S

\* A granted node is dispatched to a new worker, or stops the scheduler.
LEMMA ClaimNodeEffects ==
  ASSUME ShapeInv, NEW o \in Owner, ClaimNode(o)
  PROVE  \E n \in GenNode :
           /\ ClaimOrchestratorReady(o, n)
           /\ proc[o].pc = "claim" /\ UNCHANGED cancels
           /\ \/ /\ n \in proc[o].plan.nodes /\ W(o, n).pc = "none"
                 /\ Moves(o, n) /\ W(o, n)'.pc = "queued" /\ W(o, n)'.claim = NoClaim
                 /\ proc' = proc
              \/ MainMove(o) /\ proc'[o].pc = "unwind"
<1>1. PICK n \in GenNode :
        /\ ClaimOrchestratorReady(o, n)
        /\ IF n \in proc[o].plan.nodes \ Futures(o)
           THEN /\ worker' = [worker EXCEPT ![o][n].pc = "queued"]
                /\ UNCHANGED proc
           ELSE Raise(o) /\ UNCHANGED worker
      BY DEF ClaimNode
<1>2. proc[o].pc = "claim" /\ UNCHANGED cancels
      BY DEF ClaimNode
<1>3. CASE n \in proc[o].plan.nodes \ Futures(o)
  <2>1. TypeOK /\ W(o, n) \in Worker /\ W(o, n).pc = "none" /\ W(o, n).claim = NoClaim
    <3>1. TypeOK /\ WorkerOK(o, n)
          BY MainFacts
    <3>2. W(o, n) \in Worker /\ W(o, n).pc = "none"
          BY <1>3, <3>1 DEF TypeOK, W, Futures
    <3> QED BY <3>1, <3>2 DEF WorkerOK, Early
  <2> DEFINE w == [W(o, n) EXCEPT !.pc = "queued"]
  <2>2. w \in Worker /\ w.pc = "queued" /\ w.claim = W(o, n).claim
        BY <2>1 DEF Worker, WorkerPC
  <2>3. worker' = [worker EXCEPT ![o][n] = w]
        BY <1>1, <1>3, <2>1 DEF W
  <2> HIDE DEF w
  <2>4. Moves(o, n) /\ worker'[o][n] = w
        BY <2>1, <2>2, <2>3, WorkerSet
  <2> QED BY <1>1, <1>2, <1>3, <2>1, <2>2, <2>4 DEF W
<1>4. CASE n \notin proc[o].plan.nodes \ Futures(o)
  <2>1. Alive(o) /\ NoWorkers /\ Raise(o)
        BY <1>1, <1>2, <1>4 DEF Alive, Ended, NoWorkers
  <2>2. MainMove(o) /\ proc'[o].pc = "unwind"
        BY <1>2, <2>1, MainRaises
  <2> QED BY <1>1, <1>2, <2>2
<1> QED BY <1>3, <1>4

\* A future that has not started is cancelled.
LEMMA CancelFutureEffects ==
  ASSUME ShapeInv, NEW o \in Owner, NEW n \in GenNode, CancelFuture(o, n)
  PROVE  /\ Moves(o, n) /\ worker'[o][n] = NoWorker
         /\ proc[o].pc = "unwind" /\ NoLedger /\ UNCHANGED <<proc, cancels>>
<1>1. NoWorker \in Worker /\ TypeOK
      BY DEF NoWorker, Worker, WorkerPC, Finished, ShapeInv
<1>2. worker' = [worker EXCEPT ![o][n] = NoWorker]
      BY DEF CancelFuture
<1>3. Moves(o, n) /\ worker'[o][n] = NoWorker
      BY <1>1, <1>2, WorkerSet
<1> QED BY <1>3 DEF CancelFuture

\* A process that ends leaves no worker behind.
LEMMA EndEffects ==
  ASSUME ShapeInv, NEW o \in Owner, NEW pc \in Ended, EndProcess(o, pc)
  PROVE  /\ proc' \in [Owner -> MainThread]
         /\ worker' \in [Owner -> [GenNode -> Worker]]
         /\ proc'[o].pc = pc
         /\ \A n \in GenNode : worker'[o][n] = NoWorker
         /\ \A q \in Owner \ {o} : proc'[q] = proc[q] /\ worker'[q] = worker[q]
         /\ UNCHANGED cancels
<1> DEFINE p == Process(pc, NoPlan)
<1>1. TypeOK
      BY DEF ShapeInv
<1>2. p \in MainThread /\ p.pc = pc
      BY DEF Process, MainThread, MainPC, Ended
<1> HIDE DEF p
<1>3. Set(o, p)
      BY DEF EndProcess, p
<1>4. NoWorker \in Worker
      BY DEF NoWorker, Worker, WorkerPC, Finished
<1>5. worker' = [worker EXCEPT ![o] = [n \in GenNode |-> NoWorker]]
      BY DEF EndProcess
<1>6. /\ worker' \in [Owner -> [GenNode -> Worker]]
      /\ \A n \in GenNode : worker'[o][n] = NoWorker
      /\ \A q \in Owner \ {o} : worker'[q] = worker[q]
      BY <1>1, <1>4, <1>5 DEF TypeOK
<1> QED BY <1>1, <1>2, <1>3, <1>6, MainSet DEF EndProcess

\* A process opens the run.
LEMMA OpenEffects ==
  ASSUME ShapeInv, NEW o \in Owner, NEW p \in Plans, OpenRun(o, p)
  PROVE  /\ proc' \in [Owner -> MainThread]
         /\ proc[o].pc = "new" /\ proc'[o].pc = "open"
         /\ proc'[o].plan = p /\ proc'[o].todo = p.nodes \cap GenNode
         /\ \A q \in Owner \ {o} : proc'[q] = proc[q]
         /\ OneExecutor => \A q \in Owner : ~Alive(q)
         /\ SyncPlan(p) /\ NoWorkers
<1> DEFINE S == p.nodes \cap GenNode
           r == [Process("open", p) EXCEPT !.todo = S]
<1>1. TypeOK
      BY DEF ShapeInv
<1>2. p.nodes \subseteq Node /\ S \subseteq Node
      BY PlanAssumption DEF Plan
<1> HIDE DEF S
<1>3. r \in MainThread /\ r.pc = "open" /\ r.plan = p /\ r.todo = S
      BY <1>2 DEF Process, MainThread, MainPC
<1>4. Set(o, r)
      BY DEF OpenRun, S
<1> HIDE DEF r
<1> QED BY <1>1, <1>3, <1>4, MainSet DEF OpenRun, S

-----------------------------------------------------------------------------
(* The shape of the processes is kept by every step.                       *)

\* The types of the process variables.
ProcTypes ==
  proc \in [Owner -> MainThread] /\ worker \in [Owner -> [GenNode -> Worker]]

\* ShapeInv without the types of the ledger and of the counter.
Shape ==
  /\ ProcTypes
  /\ \A o \in Owner : MainOK(o)
  /\ \A o \in Owner : \A n \in GenNode : WorkerOK(o, n)

\* What concerns another process stays.
LEMMA OtherKept ==
  ASSUME ShapeInv, NEW q \in Owner, proc'[q] = proc[q]
  PROVE  /\ MainOK(q)'
         /\ \A m \in GenNode : worker'[q][m] = worker[q][m] => WorkerOK(q, m)'
<1>1. MainOK(q) /\ \A m \in GenNode : WorkerOK(q, m)
      BY DEF ShapeInv
<1>2. MainOK(q)'
      BY <1>1 DEF MainOK, Alive, Where
<1>3. \A m \in GenNode : worker'[q][m] = worker[q][m] => WorkerOK(q, m)'
      BY <1>1 DEF WorkerOK, W, Where
<1> QED BY <1>2, <1>3

\* A MainMove keeps the shape.
LEMMA MainMoveShape ==
  ASSUME ShapeInv, NEW o \in Owner, MainMove(o)
  PROVE  Shape'
<1>1. /\ proc' \in [Owner -> MainThread] /\ worker' = worker
      /\ \A q \in Owner \ {o} : proc'[q] = proc[q]
      BY DEF MainMove, NoWorkers
<1>2. ProcTypes'
      BY <1>1 DEF ProcTypes, ShapeInv, TypeOK
<1>3. \A q \in Owner : MainOK(q)'
      BY <1>1, OtherKept DEF MainMove
<1>4. ASSUME NEW q \in Owner, NEW m \in GenNode PROVE WorkerOK(q, m)'
  <2>1. CASE q # o
        BY <1>1, <2>1, OtherKept
  <2>2. CASE q = o
    <3>1. WorkerOK(o, m) /\ W(o, m)' = W(o, m)
          BY <1>1 DEF ShapeInv, W
    <3>2. proc'[o].plan = proc[o].plan
          BY DEF MainMove
    <3>3. /\ W(o, m).pc # "none" => Where(o)' \in Looping
          /\ proc'[o].pc \in Retries /\ proc'[o].cur = m => W(o, m).pc = "none"
          BY DEF MainMove
    <3> QED BY <2>2, <3>1, <3>2, <3>3 DEF WorkerOK
  <2> QED BY <2>1, <2>2
<1> QED BY <1>2, <1>3, <1>4 DEF Shape

\* A worker's step keeps the shape.
LEMMA WorkerStepShape ==
  ASSUME ShapeInv, NEW o \in Owner, NEW n \in GenNode, WorkerStep(o, n)
  PROVE  Shape'
<1>1. Moves(o, n) /\ proc' = proc
      BY WorkerEffects DEF ShapeInv
<1>2. ProcTypes'
      BY <1>1 DEF ProcTypes, ShapeInv, TypeOK, Moves
<1>3. \A q \in Owner : MainOK(q)'
      BY <1>1, OtherKept
<1>4. \A q \in Owner : \A m \in GenNode : q # o \/ m # n => WorkerOK(q, m)'
      BY <1>1, OtherKept DEF Moves
<1>5. WorkerOK(o, n)'
  <2>1. WorkerOK(o, n) /\ TypeOK
        BY DEF ShapeInv
  <2>2. W(o, n).pc # "none"
        BY DEF WorkerStep, StartWorker, ReadCache, DropCache, ReadTask, WorkerRetry, WorkerRequeue,
               RereadTask, Gate, WorkerBegin, ReadClaim, SnapshotClaim, Act, CancelCheck, CheckClaim,
               Commit, UnfencedSucceed, FailNode, UnfencedFail, At
  <2>3. Where(o)' = Where(o)
        BY <1>1 DEF Where
  <2>4. CASE W(o, n)'.claim = W(o, n).claim /\ WorkerReading(o, n)
        BY <1>1, <2>1, <2>2, <2>3, <2>4
           DEF WorkerOK, WorkerReading, Goes, Early, Finished, Fenced
  <2>5. CASE W(o, n)'.claim = W(o, n).claim /\ WorkerWriting(o, n)
        BY <1>1, <2>1, <2>2, <2>3, <2>5 DEF WorkerOK, WorkerWriting, Goes, Early, Finished
  <2>6. CASE /\ W(o, n)'.claim = W(o, n).claim
             /\ Goes(o, n, "retry", {"requeue"}) \/ Goes(o, n, "invalidate", {"task"})
        BY <1>1, <2>1, <2>2, <2>3, <2>6 DEF WorkerOK, Goes, Early
  <2>7. CASE /\ Goes(o, n, "snap", {"act"})
             /\ W(o, n)'.claim = ClaimOf(n) /\ ClaimOf(n).node = n
        BY <1>1, <2>1, <2>2, <2>3, <2>7 DEF WorkerOK, Goes, Early
  <2> QED BY <2>1, <2>4, <2>5, <2>6, <2>7, WorkerEffects
<1> QED BY <1>2, <1>3, <1>4, <1>5 DEF Shape

\* Taking a future, dispatching one and cancelling one keep the shape.
LEMMA FutureShape ==
  ASSUME ShapeInv, NEW o \in Owner
  PROVE  /\ Reap(o) => Shape'
         /\ ClaimNode(o) => Shape'
         /\ \A n \in GenNode : CancelFuture(o, n) => Shape'
<1>0. NoWorker.pc = "none" /\ NoWorker.claim = NoClaim
      BY DEF NoWorker
<1>a. /\ TypeOK /\ MainOK(o) /\ \A m \in GenNode : WorkerOK(o, m)
      BY MainFacts
<1>1. ASSUME Reap(o) PROVE Shape'
  <2>1. PICK n \in GenNode :
           /\ Moves(o, n) /\ worker'[o][n] = NoWorker
           /\ proc' \in [Owner -> MainThread]
           /\ \A q \in Owner \ {o} : proc'[q] = proc[q]
           /\ proc[o].pc = "reap" /\ proc'[o].plan = proc[o].plan
           /\ n \in proc[o].todo
           /\ \/ proc'[o].pc = "unwind"
              \/ proc'[o].pc = "reap" /\ proc'[o].todo = proc[o].todo \ {n}
              \/ /\ proc'[o].pc = "retry" /\ proc'[o].todo = proc[o].todo \ {n}
                 /\ proc'[o].cur = n /\ proc'[o].ret = "reap"
        BY <1>1, ReapEffects
  <2>2. MainOK(o)'
    <3>1. proc[o].todo \subseteq proc[o].plan.nodes \cap GenNode /\ proc[o].plan \in Plans
          BY <1>a, <2>1 DEF MainOK, Where, Generating, Retries, Alive, Ended
    <3> QED BY <1>a, <2>1, <3>1 DEF MainOK, Where, Generating, Staging, Retries, Alive, Ended
  <2>3. Where(o)' \in Looping
        BY <2>1 DEF Where, Looping, Retries
  <2>4. WorkerOK(o, n)'
        BY <1>0, <2>1 DEF WorkerOK, W, Early
  <2>5. \A m \in GenNode \ {n} : WorkerOK(o, m)'
    <3> SUFFICES ASSUME NEW m \in GenNode \ {n} PROVE WorkerOK(o, m)'
        OBVIOUS
    <3>1. W(o, m)' = W(o, m) /\ WorkerOK(o, m)
          BY <1>a, <2>1 DEF Moves, W
    <3> QED BY <2>1, <2>3, <3>1 DEF WorkerOK, Retries
  <2>6. \A q \in Owner \ {o} : MainOK(q)' /\ \A m \in GenNode : WorkerOK(q, m)'
        BY <2>1, OtherKept DEF Moves
  <2>7. ProcTypes'
        BY <2>1 DEF ProcTypes, Moves
  <2> QED BY <2>2, <2>4, <2>5, <2>6, <2>7 DEF Shape
<1>2. ASSUME ClaimNode(o) PROVE Shape'
  <2>1. PICK n \in GenNode :
           /\ proc[o].pc = "claim"
           /\ \/ /\ n \in proc[o].plan.nodes
                 /\ Moves(o, n) /\ W(o, n)'.pc = "queued" /\ W(o, n)'.claim = NoClaim
                 /\ proc' = proc
              \/ MainMove(o)
        BY <1>2, ClaimNodeEffects
  <2>2. CASE MainMove(o)
        BY <2>2, MainMoveShape
  <2>3. CASE /\ n \in proc[o].plan.nodes
             /\ Moves(o, n) /\ W(o, n)'.pc = "queued" /\ W(o, n)'.claim = NoClaim
             /\ proc' = proc
    <3>1. WorkerOK(o, n)'
          BY <2>1, <2>3 DEF WorkerOK, Early, Where, Retries, Looping
    <3>2. \A q \in Owner : MainOK(q)' /\ \A m \in GenNode : q # o \/ m # n => WorkerOK(q, m)'
          BY <2>3, OtherKept DEF Moves
    <3>3. ProcTypes'
          BY <2>3 DEF ProcTypes, Moves, ShapeInv, TypeOK
    <3> QED BY <3>1, <3>2, <3>3 DEF Shape
  <2> QED BY <2>1, <2>2, <2>3
<1>3. ASSUME NEW n \in GenNode, CancelFuture(o, n) PROVE Shape'
  <2>1. Moves(o, n) /\ worker'[o][n] = NoWorker /\ proc' = proc
        BY <1>3, CancelFutureEffects
  <2>2. WorkerOK(o, n)'
        BY <1>0, <2>1 DEF WorkerOK, W, Early
  <2>3. \A q \in Owner : MainOK(q)' /\ \A m \in GenNode : q # o \/ m # n => WorkerOK(q, m)'
        BY <2>1, OtherKept DEF Moves
  <2>4. ProcTypes'
        BY <2>1 DEF ProcTypes, Moves, ShapeInv, TypeOK
  <2> QED BY <2>2, <2>3, <2>4 DEF Shape
<1> QED BY <1>1, <1>2, <1>3

\* Opening the run and ending the process keep the shape.
LEMMA ProcessShape ==
  ASSUME ShapeInv, NEW o \in Owner
  PROVE  /\ \A p \in Plans : OpenRun(o, p) => Shape'
         /\ \A pc \in Ended : EndProcess(o, pc) => Shape'
<1>0. NoWorker.pc = "none" /\ NoWorker.claim = NoClaim
      BY DEF NoWorker
<1>1. ASSUME NEW p \in Plans, OpenRun(o, p) PROVE Shape'
  <2>1. /\ proc' \in [Owner -> MainThread]
        /\ proc[o].pc = "new" /\ proc'[o].pc = "open"
        /\ proc'[o].plan = p /\ proc'[o].todo = p.nodes \cap GenNode
        /\ \A q \in Owner \ {o} : proc'[q] = proc[q]
        /\ worker' = worker
        BY <1>1, OpenEffects DEF NoWorkers
  <2>2. \A m \in GenNode : W(o, m).pc = "none" /\ WorkerOK(o, m)
        BY <2>1, MainFacts DEF Where, Looping, Retries
  <2>3. MainOK(o)'
        BY <2>1 DEF MainOK, Where, Generating, Staging, Retries, Alive, Ended
  <2>4. \A m \in GenNode : WorkerOK(o, m)'
        BY <2>1, <2>2 DEF WorkerOK, W
  <2>5. \A q \in Owner \ {o} : MainOK(q)' /\ \A m \in GenNode : WorkerOK(q, m)'
        BY <2>1, OtherKept
  <2>6. ProcTypes'
        BY <2>1 DEF ProcTypes, ShapeInv, TypeOK
  <2> QED BY <2>3, <2>4, <2>5, <2>6 DEF Shape
<1>2. ASSUME NEW pc \in Ended, EndProcess(o, pc) PROVE Shape'
  <2>1. /\ proc' \in [Owner -> MainThread]
        /\ worker' \in [Owner -> [GenNode -> Worker]]
        /\ proc'[o].pc = pc
        /\ \A n \in GenNode : worker'[o][n] = NoWorker
        /\ \A q \in Owner \ {o} : proc'[q] = proc[q] /\ worker'[q] = worker[q]
        BY <1>2, EndEffects
  <2>2. MainOK(o)'
        BY <2>1 DEF MainOK, Where, Generating, Staging, Retries, Alive, Ended
  <2>3. \A m \in GenNode : WorkerOK(o, m)'
        BY <1>0, <2>1 DEF WorkerOK, W, Early
  <2>4. \A q \in Owner \ {o} : MainOK(q)' /\ \A m \in GenNode : WorkerOK(q, m)'
        BY <2>1, OtherKept
  <2>5. ProcTypes'
        BY <2>1 DEF ProcTypes
  <2> QED BY <2>2, <2>3, <2>4, <2>5 DEF Shape
<1> QED BY <1>1, <1>2

\* The steps of Next, sorted.
LEMMA NextSteps ==
  ASSUME Next
  PROVE  \/ \E o \in Owner :
              \/ \E p \in Plans : OpenRun(o, p)
              \/ MainLocal(o)
              \/ NoLedger /\ \E pc \in Ended : EndProcess(o, pc)
              \/ Reap(o)
              \/ ClaimNode(o)
              \/ \E n \in GenNode : CancelFuture(o, n)
              \/ \E n \in GenNode : WorkerStep(o, n)
         \/ WorkCancelRun
         \/ WorkResumeRun
         \/ \E n \in Node : LeaseEnds(n)
<1>1. ASSUME NEW o \in Owner, MainStep(o)
      PROVE  \/ MainLocal(o)
             \/ NoLedger /\ \E pc \in Ended : EndProcess(o, pc)
             \/ Reap(o)
             \/ ClaimNode(o)
             \/ \E n \in GenNode : CancelFuture(o, n)
  <2>1. ASSUME Stage(o), EndProcess(o, "done") PROVE NoLedger
        BY <2>1 DEF Stage
  <2>2. "done" \in Ended /\ "raised" \in Ended
        BY DEF Ended
  <2> QED BY <1>1, <2>1, <2>2 DEF MainStep, MainLocal, Unwound
<1>2. ASSUME NEW o \in Owner, Crash(o) PROVE NoLedger /\ \E pc \in Ended : EndProcess(o, pc)
      BY <1>2 DEF Crash, Ended
<1>3. ASSUME NEW o \in Owner, HeartbeatFails(o) PROVE MainLocal(o)
      BY <1>3 DEF MainLocal
<1> QED BY <1>1, <1>2, <1>3 DEF Next

\* Every step keeps the shape of the processes.
LEMMA ShapeStep ==
  ASSUME ShapeInv, [Next]_vars
  PROVE  Shape' /\ cancels' \in 0 .. MaxCancel
<1>1. ASSUME proc' = proc, worker' = worker PROVE Shape'
  <2>1. \A q \in Owner : MainOK(q)' /\ \A m \in GenNode : WorkerOK(q, m)'
        BY <1>1, OtherKept
  <2>2. ProcTypes'
        BY <1>1 DEF ProcTypes, ShapeInv, TypeOK
  <2> QED BY <2>1, <2>2 DEF Shape
<1>2. Shape'
  <2>1. CASE UNCHANGED vars \/ WorkCancelRun \/ WorkResumeRun \/ \E n \in Node : LeaseEnds(n)
        BY <1>1, <2>1 DEF vars, WorkCancelRun, WorkResumeRun, LeaseEnds
  <2>2. ASSUME NEW o \in Owner, MainLocal(o) PROVE Shape'
        BY <2>2, MainEffects, MainMoveShape
  <2> QED BY <2>1, <2>2, NextSteps, ProcessShape, FutureShape, WorkerStepShape
<1>3. cancels' \in 0 .. MaxCancel
  <2>1. cancels \in 0 .. MaxCancel
        BY DEF ShapeInv, TypeOK
  <2>2. CASE WorkCancelRun
        BY <2>1, <2>2, ProcessAssumption DEF WorkCancelRun
  <2>3. CASE ~WorkCancelRun
    <3>1. cancels' = cancels
      <4>1. ASSUME NEW o \in Owner, MainLocal(o) PROVE cancels' = cancels
            BY <4>1, MainEffects DEF MainMove, NoWorkers
      <4>2. ASSUME NEW o \in Owner, NEW n \in GenNode, WorkerStep(o, n) PROVE cancels' = cancels
            BY <4>2, WorkerEffects DEF ShapeInv
      <4>3. ASSUME NEW o \in Owner, NEW p \in Plans, OpenRun(o, p) PROVE cancels' = cancels
            BY <4>3 DEF OpenRun, NoWorkers
      <4>4. ASSUME NEW o \in Owner, NEW pc \in Ended, EndProcess(o, pc) PROVE cancels' = cancels
            BY <4>4 DEF EndProcess
      <4>5. ASSUME NEW o \in Owner, Reap(o) \/ ClaimNode(o) \/ \E n \in GenNode : CancelFuture(o, n)
            PROVE  cancels' = cancels
            BY <4>5 DEF Reap, ClaimNode, CancelFuture
      <4>6. ASSUME UNCHANGED vars \/ WorkResumeRun \/ \E n \in Node : LeaseEnds(n)
            PROVE  cancels' = cancels
            BY <4>6 DEF vars, WorkResumeRun, LeaseEnds
      <4> QED BY <2>3, <4>1, <4>2, <4>3, <4>4, <4>5, <4>6, NextSteps
    <3> QED BY <2>1, <3>1
  <2> QED BY <2>2, <2>3
<1> QED BY <1>2, <1>3

-----------------------------------------------------------------------------
(* Every step is one of the general clients' (module LedgerClients).       *)

\* What is proved of those clients, about these processes.
LCP == INSTANCE LedgerClientsProofs
         WITH claims <- HeldClaims, retrying <- Retrying,
              MaxClaims <- Cardinality(Owner) * Cardinality(GenNode) + 1

\* The statements of the ledger are the same there and here.
LEMMA SameStatements ==
  /\ \A p : LCP!SyncPlan(p) <=> SyncPlan(p)
  /\ \A n : LCP!Invalidate(n) <=> Invalidate(n)
  /\ \A n, w : LCP!Begin(n, w) <=> Begin(n, w)
  /\ \A o, n : LCP!ClaimOrchestratorReady(o, n) <=> ClaimOrchestratorReady(o, n)
  /\ \A o : LCP!ClaimOrchestratorNone(o) <=> ClaimOrchestratorNone(o)
  /\ \A n, a, w, h : LCP!CommitSuccess(n, a, w, h) <=> CommitSuccess(n, a, w, h)
  /\ \A n, a, w : LCP!FencedFail(n, a, w) <=> FencedFail(n, a, w)
  /\ \A n, h : LCP!Succeed(n, h) <=> Succeed(n, h)
  /\ \A n, i : LCP!Fail(n, i) <=> Fail(n, i)
  /\ \A n : LCP!RetryAccepts(n) <=> RetryAccepts(n)
  /\ \A n : LCP!RetryUpdate(n) <=> RetryUpdate(n)
  /\ \A n : LCP!Lapse(n) <=> Lapse(n)
  /\ LCP!CancelRun <=> CancelRun
  /\ LCP!ResumeRun <=> ResumeRun
  /\ LCP!LedgerInit <=> LedgerInit
  /\ \A n : LCP!Running(n) <=> Running(n)
  /\ \A n : LCP!Present(n) <=> Present(n)
  /\ \A n : LCP!ClaimOf(n) = ClaimOf(n)
  /\ LCP!ledger = ledger
  /\ \A S : LCP!Cardinality(S) = Cardinality(S)
<1> USE DEF LCP!Present, LCP!Running, LCP!SetRow, LCP!Released, LCP!Granted, LCP!Published, LCP!Invalidated,
        Present, Running, SetRow, Released, Granted, Published, Invalidated
<1>0. \A S : LCP!Cardinality(S) = Cardinality(S)
      BY DEF LCP!Cardinality, Cardinality
<1>1. \A p : LCP!SyncPlan(p) <=> SyncPlan(p)
      BY DEF LCP!SyncPlan, LCP!SyncedRow, LCP!Downstream, LCP!ClosedUnder, LCP!Changed, LCP!PlanEdges,
             LCP!Deleted, LCP!Inserted, LCP!NoRow,
             SyncPlan, SyncedRow, Downstream, ClosedUnder, Changed, PlanEdges, Deleted, Inserted, NoRow
<1>2. \A n : LCP!Invalidate(n) <=> Invalidate(n)
      BY DEF LCP!Invalidate, LCP!Downstream, LCP!ClosedUnder, Invalidate, Downstream, ClosedUnder
<1>3. \A n, w : LCP!Begin(n, w) <=> Begin(n, w)
      BY DEF LCP!Begin, LCP!DependenciesSucceeded, Begin, DependenciesSucceeded
<1>a. \A k : LCP!Expired(k) = Expired(k)
      BY DEF LCP!Expired, Expired
<1>b. ASSUME NEW t PROVE LCP!Ready(t) = Ready(t) /\ \A n, m : LCP!Before(t, n, m) <=> Before(t, n, m)
  <2>1. LCP!Lanes = Lanes /\ LCP!Priority = Priority
        BY DEF LCP!Lanes, Lanes, LCP!Priority, Priority
  <2>2. \A l : LCP!Load(t, l) = Load(t, l)
        BY <1>0 DEF LCP!Load, Load
  <2>3. LCP!FreeLanes(t) = FreeLanes(t)
        BY <2>1, <2>2 DEF LCP!FreeLanes, FreeLanes
  <2>4. \A n : LCP!StageFree(t, n) <=> StageFree(t, n)
        BY DEF LCP!StageFree, StageFree
  <2>5. LCP!Ready(t) = Ready(t)
        BY <2>3, <2>4 DEF LCP!Ready, Ready, LCP!DependenciesSucceeded, DependenciesSucceeded
  <2>6. \A n, m : LCP!Before(t, n, m) <=> Before(t, n, m)
        BY <2>1, <2>2 DEF LCP!Before, Before
  <2> QED BY <2>5, <2>6
<1>c. \A o : LCP!OwnLapsed(o) = OwnLapsed(o)
      BY DEF LCP!OwnLapsed, OwnLapsed
<1>4. \A o, n : LCP!ClaimOrchestratorReady(o, n) <=> ClaimOrchestratorReady(o, n)
      BY <1>a, <1>b, <1>c DEF LCP!ClaimOrchestratorReady, ClaimOrchestratorReady
<1>5. \A o : LCP!ClaimOrchestratorNone(o) <=> ClaimOrchestratorNone(o)
      BY <1>a, <1>b, <1>c DEF LCP!ClaimOrchestratorNone, ClaimOrchestratorNone
<1>6. \A n, a, w, h : LCP!CommitSuccess(n, a, w, h) <=> CommitSuccess(n, a, w, h)
      BY DEF LCP!CommitSuccess, LCP!ClaimCurrent, CommitSuccess, ClaimCurrent
<1>7. \A n, a, w : LCP!FencedFail(n, a, w) <=> FencedFail(n, a, w)
      BY DEF LCP!FencedFail, LCP!ClaimCurrent, FencedFail, ClaimCurrent
<1>8. \A n, h : LCP!Succeed(n, h) <=> Succeed(n, h)
      BY DEF LCP!Succeed, Succeed
<1>9. \A n, i : LCP!Fail(n, i) <=> Fail(n, i)
      BY DEF LCP!Fail, Fail
<1>10. \A n : LCP!RetryAccepts(n) <=> RetryAccepts(n)
      BY DEF LCP!RetryAccepts, RetryAccepts, LCP!Stopped, Stopped
<1>11. \A n : LCP!RetryUpdate(n) <=> RetryUpdate(n)
      BY DEF LCP!RetryUpdate, RetryUpdate
<1>12. \A n : LCP!Lapse(n) <=> Lapse(n)
      BY DEF LCP!Lapse, Lapse
<1>13. (LCP!CancelRun <=> CancelRun) /\ (LCP!ResumeRun <=> ResumeRun)
      BY DEF LCP!CancelRun, LCP!ResumeRun, CancelRun, ResumeRun
<1>14. LCP!LedgerInit <=> LedgerInit
      BY DEF LCP!LedgerInit, LedgerInit, LCP!NoRow, NoRow
<1>15. /\ \A n : LCP!Running(n) <=> Running(n)
       /\ \A n : LCP!Present(n) <=> Present(n)
       /\ \A n : LCP!ClaimOf(n) = ClaimOf(n)
       /\ LCP!ledger = ledger
      BY DEF LCP!ClaimOf, ClaimOf, LCP!ledger, ledger
<1> HIDE DEF LCP!Present, LCP!Running, Present, Running
<1> QED BY <1>0, <1>1, <1>2, <1>3, <1>4, <1>5, <1>6, <1>7, <1>8, <1>9, <1>10, <1>11, <1>12, <1>13,
           <1>14, <1>15


\* Both instances of the clients have the same steps.
LEMMA SameClients ==
  /\ LC!Init <=> LCP!Init
  /\ LC!Next <=> LCP!Next
  /\ LC!vars = LCP!vars
<1>1. LC!Next <=> LCP!Next
      BY DEF LC!Present, LC!Running, LC!SetRow, LC!Released, LC!Granted, LC!Published,
             LC!Invalidated, LC!SyncPlan, LC!SyncedRow, LC!Downstream, LC!ClosedUnder, LC!Changed,
             LC!PlanEdges, LC!Deleted, LC!Inserted, LC!NoRow, LC!Invalidate, LC!Begin,
             LC!DependenciesSucceeded, LC!ClaimOrchestratorReady, LC!OwnLapsed, LC!Expired,
             LC!Ready, LC!Before, LC!Load, LC!FreeLanes, LC!StageFree, LC!Priority, LC!Lanes,
             LC!ClaimOrchestratorNone, LC!CommitSuccess, LC!ClaimCurrent, LC!FencedFail,
             LC!Succeed, LC!Fail, LC!RetryAccepts, LC!Stopped, LC!RetryUpdate, LC!Lapse,
             LC!CancelRun, LC!ResumeRun, LC!ClaimOf, LC!ledger, LC!Next, LC!ClientSync,
             LC!ClientClaim, LC!ClaimReady, LC!ClientPoll, LC!ClientHeartbeat,
             LC!RenewOrchestratorClaims, LC!ClientBegin, LC!Snapshot, LC!Depart, LC!ClientCommit,
             LC!MayPublish, LC!ClientFencedFail, LC!ClientSucceed, LC!ClientFail, LC!RetrySelect,
             LC!RetryWrite, LC!ClientCancel, LC!Cancel, LC!ClientCancelRun, LC!ClientResumeRun,
             LC!ClientInvalidate, LC!Tick, LC!Local, LC!Cardinality, LCP!Present, LCP!Running,
             LCP!SetRow, LCP!Released, LCP!Granted, LCP!Published, LCP!Invalidated, LCP!SyncPlan,
             LCP!SyncedRow, LCP!Downstream, LCP!ClosedUnder, LCP!Changed, LCP!PlanEdges,
             LCP!Deleted, LCP!Inserted, LCP!NoRow, LCP!Invalidate, LCP!Begin,
             LCP!DependenciesSucceeded, LCP!ClaimOrchestratorReady, LCP!OwnLapsed, LCP!Expired,
             LCP!Ready, LCP!Before, LCP!Load, LCP!FreeLanes, LCP!StageFree, LCP!Priority,
             LCP!Lanes, LCP!ClaimOrchestratorNone, LCP!CommitSuccess, LCP!ClaimCurrent,
             LCP!FencedFail, LCP!Succeed, LCP!Fail, LCP!RetryAccepts, LCP!Stopped,
             LCP!RetryUpdate, LCP!Lapse, LCP!CancelRun, LCP!ResumeRun, LCP!ClaimOf, LCP!ledger,
             LCP!Next, LCP!ClientSync, LCP!ClientClaim, LCP!ClaimReady, LCP!ClientPoll,
             LCP!ClientHeartbeat, LCP!RenewOrchestratorClaims, LCP!ClientBegin, LCP!Snapshot,
             LCP!Depart, LCP!ClientCommit, LCP!MayPublish, LCP!ClientFencedFail,
             LCP!ClientSucceed, LCP!ClientFail, LCP!RetrySelect, LCP!RetryWrite, LCP!ClientCancel,
             LCP!Cancel, LCP!ClientCancelRun, LCP!ClientResumeRun, LCP!ClientInvalidate, LCP!Tick,
             LCP!Local, LCP!Cardinality
<1>2. LC!Init <=> LCP!Init
      BY DEF LC!Init, LCP!Init, LC!LedgerInit, LCP!LedgerInit, LC!NoRow, LCP!NoRow
<1>3. LC!vars = LCP!vars
      BY DEF LC!vars, LCP!vars
<1> QED BY <1>1, <1>2, <1>3

-----------------------------------------------------------------------------
(* What the clients remember: the claims held, and the rows being retried. *)

\* The claims the workers hold are those of LedgerClients' bound.
LEMMA HeldBound ==
  ASSUME ShapeInv
  PROVE  /\ Cardinality(HeldClaims) < Cardinality(Owner) * Cardinality(GenNode) + 1
         /\ HeldClaims \subseteq Claim
         /\ Cardinality(Owner) * Cardinality(GenNode) + 1 \in Nat
<1> DEFINE P == Owner \X GenNode
           f == [x \in P |-> W(x[1], x[2]).claim]
           T == {f[x] : x \in P}
<1>1. /\ IsFiniteSet(P)
      /\ Cardinality(P) = Cardinality(Owner) * Cardinality(GenNode)
      /\ Cardinality(P) \in Nat
  <2>1. IsFiniteSet(Owner) /\ IsFiniteSet(GenNode)
        BY ProcessAssumption
  <2>2. IsFiniteSet(P) /\ Cardinality(P) = Cardinality(Owner) * Cardinality(GenNode)
        BY <2>1, FS_Product, Zenon
  <2>3. Cardinality(P) \in Nat
        BY <2>2, FS_CardinalityType, Zenon
  <2> QED BY <2>2, <2>3
<1>2. \A o \in Owner : \A n \in GenNode : W(o, n).claim \in T
  <2> SUFFICES ASSUME NEW o \in Owner, NEW n \in GenNode PROVE W(o, n).claim \in T
      OBVIOUS
  <2>1. <<o, n>> \in P /\ f[<<o, n>>] = W(o, n).claim
        OBVIOUS
  <2> QED BY <2>1
<1>3. HeldClaims \in SUBSET T
  <2>1. \A c \in HeldClaims : \E o \in Owner : \E n \in GenNode : c = W(o, n).claim
        BY DEF HeldClaims
  <2> QED BY <1>2, <2>1
<1>4. f \in [P -> T] /\ \A c \in T : \E x \in P : f[x] = c
      OBVIOUS
<1> HIDE DEF f, T, P
<1>5. f \in Surjection(P, T)
      BY <1>4 DEF Surjection
<1>6. IsFiniteSet(T) /\ Cardinality(T) <= Cardinality(P)
      BY <1>1, <1>5, FS_Surjection
<1>8. Cardinality(HeldClaims) <= Cardinality(T) /\ IsFiniteSet(HeldClaims)
      BY <1>3, <1>6, FS_Subset
<1>9. Cardinality(HeldClaims) \in Nat /\ Cardinality(T) \in Nat
      BY <1>6, <1>8, FS_CardinalityType
<1>7. HeldClaims \subseteq Claim
  <2>1. \A o \in Owner : \A n \in GenNode : W(o, n).claim \in Claim \cup {NoClaim}
        BY DEF ShapeInv, TypeOK, W, Worker
  <2> QED BY <2>1 DEF HeldClaims
<1> QED BY <1>1, <1>6, <1>7, <1>8, <1>9

\* The claims stay when no worker changes its own.
LEMMA HeldSame ==
  ASSUME \A o \in Owner : \A n \in GenNode : W(o, n)'.claim = W(o, n).claim
  PROVE  HeldClaims' = HeldClaims
BY DEF HeldClaims

\* They only become fewer when workers keep theirs or have none.
LEMMA HeldFewer ==
  ASSUME \A o \in Owner : \A n \in GenNode :
           W(o, n)'.claim = W(o, n).claim \/ W(o, n)'.claim = NoClaim
  PROVE  HeldClaims' \in SUBSET HeldClaims
BY DEF HeldClaims

\* A worker that had none takes one.
LEMMA HeldMore ==
  ASSUME NEW o \in Owner, NEW n \in GenNode, NEW c, c # NoClaim,
         W(o, n).claim = NoClaim, W(o, n)'.claim = c,
         \A q \in Owner : \A m \in GenNode : q # o \/ m # n => W(q, m)'.claim = W(q, m).claim
  PROVE  HeldClaims' = HeldClaims \cup {c}
BY DEF HeldClaims

\* What a process retries.
RetriesNode(o, n) ==
  \/ proc[o].pc = "requeue" /\ proc[o].cur = n
  \/ n \in GenNode /\ At(o, n, "requeue")

\* The rows being retried are those some process retries.
LEMMA RetryingDef == \A n : n \in Retrying <=> n \in Node /\ \E o \in Owner : RetriesNode(o, n)
BY DEF Retrying, RetriesNode

\* They only become fewer when no process starts to retry one.
LEMMA RetryingFewer ==
  ASSUME \A o \in Owner : \A n \in Node : RetriesNode(o, n)' => RetriesNode(o, n)
  PROVE  Retrying' \in SUBSET Retrying
BY RetryingDef DEF Retrying, RetriesNode

\* A retry starts.
LEMMA RetryingMore ==
  ASSUME NEW o \in Owner, NEW n \in Node, RetriesNode(o, n)',
         \A q \in Owner : \A m \in Node : q # o \/ m # n => (RetriesNode(q, m)' <=> RetriesNode(q, m))
  PROVE  Retrying' = Retrying \cup {n}
<1>1. \A m \in Node : m \in Retrying' <=> m \in Retrying \/ m = n
  <2> SUFFICES ASSUME NEW m \in Node
               PROVE  (\E q \in Owner : RetriesNode(q, m)') <=>
                        (\E q \in Owner : RetriesNode(q, m)) \/ m = n
      BY DEF Retrying, RetriesNode
  <2>1. CASE m = n
        BY <2>1
  <2>2. CASE m # n
        BY <2>2
  <2> QED BY <2>1, <2>2
<1>2. Retrying' \subseteq Node /\ Retrying \subseteq Node
      BY DEF Retrying
<1> QED BY <1>1, <1>2

\* A retry ends, or another process goes on with one of the same row.
LEMMA RetryingLess ==
  ASSUME NEW o \in Owner, NEW n \in Node, RetriesNode(o, n),
         \A q \in Owner : \A m \in Node : q # o \/ m # n => (RetriesNode(q, m)' <=> RetriesNode(q, m))
  PROVE  n \in Retrying /\ Retrying' \in {Retrying, Retrying \ {n}}
<1>1. \A m \in Node : m # n => (m \in Retrying' <=> m \in Retrying)
  <2> SUFFICES ASSUME NEW m \in Node, m # n
               PROVE  (\E q \in Owner : RetriesNode(q, m)') <=> (\E q \in Owner : RetriesNode(q, m))
      BY DEF Retrying, RetriesNode
  <2> QED OBVIOUS
<1>2. Retrying' \subseteq Node /\ Retrying \subseteq Node
      BY DEF Retrying
<1>3. n \in Retrying
      BY RetryingDef
<1> QED BY <1>1, <1>2, <1>3

\* The rows being retried stay when every process goes on as it was.
LEMMA RetryingSame ==
  ASSUME \A o \in Owner : \A n \in Node : RetriesNode(o, n)' <=> RetriesNode(o, n)
  PROVE  Retrying' = Retrying
BY RetryingDef DEF Retrying, RetriesNode

-----------------------------------------------------------------------------
(* One executing process.                                                  *)

\* At most one process is executing the run.
Solo == \A o, q \in Owner : Alive(o) /\ Alive(q) => o = q

\* A process becomes alive by opening the run and in no other way.
LEMMA AliveSteps ==
  ASSUME ShapeInv, [Next]_vars
  PROVE  \/ \A q \in Owner : Alive(q)' => Alive(q)
         \/ \E o \in Owner : /\ OneExecutor => \A q \in Owner : ~Alive(q)
                             /\ \A q \in Owner \ {o} : Alive(q)' => Alive(q)
<1>1. ASSUME NEW o \in Owner, Alive(o), \A q \in Owner \ {o} : proc'[q] = proc[q]
      PROVE  \A q \in Owner : Alive(q)' => Alive(q)
      BY <1>1 DEF Alive
<1>2. ASSUME proc' = proc PROVE \A q \in Owner : Alive(q)' => Alive(q)
      BY <1>2 DEF Alive
<1>3. CASE UNCHANGED vars \/ WorkCancelRun \/ WorkResumeRun \/ \E n \in Node : LeaseEnds(n)
      BY <1>2, <1>3 DEF vars, WorkCancelRun, WorkResumeRun, LeaseEnds
<1>4. ASSUME NEW o \in Owner, NEW p \in Plans, OpenRun(o, p)
      PROVE  \E r \in Owner : /\ OneExecutor => \A q \in Owner : ~Alive(q)
                              /\ \A q \in Owner \ {r} : Alive(q)' => Alive(q)
      BY <1>4, OpenEffects DEF Alive
<1>5. ASSUME NEW o \in Owner, MainLocal(o) PROVE \A q \in Owner : Alive(q)' => Alive(q)
      BY <1>1, <1>5, MainEffects DEF MainMove
<1>6. ASSUME NEW o \in Owner, NEW pc \in Ended, EndProcess(o, pc)
      PROVE  \A q \in Owner : Alive(q)' => Alive(q)
      BY <1>6, EndEffects DEF Alive
<1>7. ASSUME NEW o \in Owner, Reap(o) PROVE \A q \in Owner : Alive(q)' => Alive(q)
  <2>1. Alive(o)
        BY <1>7 DEF Reap, Alive, Ended
  <2> QED BY <1>1, <1>7, <2>1, ReapEffects
<1>8. ASSUME NEW o \in Owner, ClaimNode(o) PROVE \A q \in Owner : Alive(q)' => Alive(q)
      BY <1>1, <1>2, <1>8, ClaimNodeEffects DEF MainMove
<1>9. ASSUME NEW o \in Owner, NEW n \in GenNode, CancelFuture(o, n) \/ WorkerStep(o, n)
      PROVE  \A q \in Owner : Alive(q)' => Alive(q)
      BY <1>2, <1>9, CancelFutureEffects, WorkerEffects DEF ShapeInv
<1> QED BY <1>3, <1>4, <1>5, <1>6, <1>7, <1>8, <1>9, NextSteps

\* With one executor at a time it stays so.
LEMMA SoloStep ==
  ASSUME ShapeInv, OneExecutor, Solo, [Next]_vars
  PROVE  Solo'
BY AliveSteps DEF Solo

\* A worker has a live process.
LEMMA WorkerAlive ==
  ASSUME ShapeInv, NEW o \in Owner, NEW n \in GenNode, W(o, n).pc # "none"
  PROVE  Alive(o) /\ n \in proc[o].plan.nodes /\ proc[o].plan \in Plans
<1>1. MainOK(o) /\ WorkerOK(o, n)
      BY DEF ShapeInv
<1>2. Where(o) \in Looping
      BY <1>1 DEF WorkerOK
<1>3. Alive(o)
      BY <1>2 DEF Where, Looping, Alive, Ended, Retries
<1> QED BY <1>1, <1>3 DEF WorkerOK, MainOK

\* While one process executes the run, nobody retries a row it works on.
LEMMA NotRetrying ==
  ASSUME ShapeInv, Solo, NEW o \in Owner
  PROVE  /\ \A n \in GenNode : W(o, n).pc \notin {"none", "requeue"} => n \notin Retrying
         /\ \A n \in Node \ GenNode : proc[o].pc \notin {"new", "requeue"} \cup Ended => n \notin Retrying
<1>1. ASSUME NEW q \in Owner, NEW n \in Node, RetriesNode(q, n) PROVE Alive(q)
  <2>1. CASE proc[q].pc = "requeue"
        BY <2>1 DEF Alive, Ended
  <2>2. CASE n \in GenNode /\ At(q, n, "requeue")
        BY <2>2, WorkerAlive DEF At
  <2> QED BY <1>1, <2>1, <2>2 DEF RetriesNode
<1>2. ASSUME NEW n \in GenNode, W(o, n).pc \notin {"none", "requeue"}, n \in Retrying PROVE FALSE
  <2>1. PICK q \in Owner : RetriesNode(q, n)
        BY <1>2, RetryingDef
  <2>2. n \in Node
        BY NodeAssumption
  <2>3. Alive(o) /\ Alive(q)
        BY <1>1, <1>2, <2>1, <2>2, WorkerAlive
  <2>4. q = o
        BY <2>3 DEF Solo
  <2>5. WorkerOK(o, n)
        BY DEF ShapeInv
  <2> QED BY <1>2, <2>1, <2>4, <2>5 DEF RetriesNode, At, WorkerOK, Retries
<1>3. ASSUME NEW n \in Node \ GenNode, proc[o].pc \notin {"new", "requeue"} \cup Ended,
             n \in Retrying
      PROVE  FALSE
  <2>1. PICK q \in Owner : RetriesNode(q, n)
        BY <1>3, RetryingDef
  <2>2. Alive(q)
        BY <1>1, <1>3, <2>1
  <2>3. Alive(o)
        BY <1>3 DEF Alive
  <2>4. q = o
        BY <2>2, <2>3 DEF Solo
  <2> QED BY <1>3, <2>1, <2>4 DEF RetriesNode
<1> QED BY <1>2, <1>3

-----------------------------------------------------------------------------
(* The simulation.                                                         *)

\* A step that leaves the ledger alone is a departure of clients.
LEMMA SimulateDepart ==
  ASSUME NoLedger, HeldClaims' \in SUBSET HeldClaims, Retrying' \in SUBSET Retrying
  PROVE  LCP!Next
<1>1. LCP!Depart
      BY DEF LCP!Depart, LCP!ledger, NoLedger, ledger
<1> QED BY <1>1 DEF LCP!Next

\* A statement of the ledger that no client needs to remember anything of.
LEMMA SimulateStatement ==
  ASSUME HeldClaims' = HeldClaims, Retrying' = Retrying
  PROVE  /\ \A p \in Plans :
              SyncPlan(p) /\ (\A n \in p.nodes : Present(n) \/ task[n].born < MaxBorn) => LCP!Next
         /\ \A o \in Owner : ClaimOrchestratorNone(o) => LCP!Next
         /\ \A o \in Owner : \A n \in Node : ClaimOrchestratorReady(o, n) => LCP!Next
         /\ \A n \in Node : Begin(n, LocalOwner) \/ Invalidate(n) \/ Lapse(n) => LCP!Next
         /\ \A n \in Node : \A b \in BOOLEAN : Fail(n, b) => LCP!Next
         /\ CancelRun \/ ResumeRun => LCP!Next
         /\ \A n \in Node : \A h \in Hash :
              Succeed(n, h) /\ (OneExecutor => n \notin Retrying) => LCP!Next
         /\ \A c \in HeldClaims : \A h \in Hash :
              /\ CommitSuccess(c.node, c.attempt, c.owner, h)
              /\ OneExecutor => c.node \notin Retrying
              => LCP!Next
         /\ \A c \in HeldClaims : FencedFail(c.node, c.attempt, c.owner) => LCP!Next
<1>0. LCP!Local
      BY DEF LCP!Local
<1>1. \A p \in Plans :
        SyncPlan(p) /\ (\A n \in p.nodes : Present(n) \/ task[n].born < MaxBorn) => LCP!Next
      BY <1>0, SameStatements DEF LCP!Next, LCP!ClientSync
<1>2. \A o \in Owner : ClaimOrchestratorNone(o) => LCP!Next
      BY <1>0, SameStatements DEF LCP!Next, LCP!ClientPoll
<1>3. \A o \in Owner : \A n \in Node : ClaimOrchestratorReady(o, n) => LCP!Next
      BY <1>0, SameStatements DEF LCP!Next, LCP!ClientClaim
<1>4. \A n \in Node : Begin(n, LocalOwner) \/ Invalidate(n) \/ Lapse(n) => LCP!Next
      BY <1>0, SameStatements DEF LCP!Next, LCP!ClientBegin, LCP!ClientInvalidate, LCP!Tick
<1>5. \A n \in Node : \A b \in BOOLEAN : Fail(n, b) => LCP!Next
      BY <1>0, SameStatements DEF LCP!Next, LCP!ClientFail
<1>6. CancelRun \/ ResumeRun => LCP!Next
      BY <1>0, SameStatements DEF LCP!Next, LCP!ClientCancelRun, LCP!ClientResumeRun
<1>7. \A n \in Node : \A h \in Hash :
        Succeed(n, h) /\ (OneExecutor => n \notin Retrying) => LCP!Next
      BY <1>0, SameStatements DEF LCP!Next, LCP!ClientSucceed, LCP!MayPublish
<1>8. \A c \in HeldClaims : \A h \in Hash :
        /\ CommitSuccess(c.node, c.attempt, c.owner, h)
        /\ OneExecutor => c.node \notin Retrying
        => LCP!Next
      BY <1>0, SameStatements DEF LCP!Next, LCP!ClientCommit, LCP!MayPublish
<1>9. \A c \in HeldClaims : FencedFail(c.node, c.attempt, c.owner) => LCP!Next
      BY <1>0, SameStatements DEF LCP!Next, LCP!ClientFencedFail
<1> QED BY <1>1, <1>2, <1>3, <1>4, <1>5, <1>6, <1>7, <1>8, <1>9

\* The two statements of retry(), and the snapshot of a claim.
LEMMA SimulateMemory ==
  /\ \A n \in Node : /\ RetryAccepts(n) /\ NoLedger
                     /\ HeldClaims' = HeldClaims /\ Retrying' = Retrying \cup {n}
                     => LCP!Next
  /\ \A n \in Node : /\ RetryUpdate(n) /\ n \in Retrying
                     /\ HeldClaims' = HeldClaims /\ Retrying' \in {Retrying, Retrying \ {n}}
                     => LCP!Next
  /\ \A n \in Node : /\ Running(n) /\ NoLedger
                     /\ Cardinality(HeldClaims) < Cardinality(Owner) * Cardinality(GenNode) + 1
                     /\ HeldClaims' = HeldClaims \cup {ClaimOf(n)} /\ Retrying' = Retrying
                     => LCP!Next
<1>1. \A n \in Node : /\ RetryAccepts(n) /\ NoLedger
                      /\ HeldClaims' = HeldClaims /\ Retrying' = Retrying \cup {n}
                      => LCP!Next
      BY SameStatements DEF LCP!Next, LCP!RetrySelect, LCP!ledger, NoLedger, ledger
<1>2. \A n \in Node : /\ RetryUpdate(n) /\ n \in Retrying
                      /\ HeldClaims' = HeldClaims /\ Retrying' \in {Retrying, Retrying \ {n}}
                      => LCP!Next
      BY SameStatements DEF LCP!Next, LCP!RetryWrite
<1>3. \A n \in Node : /\ Running(n) /\ NoLedger
                      /\ Cardinality(HeldClaims) < Cardinality(Owner) * Cardinality(GenNode) + 1
                      /\ HeldClaims' = HeldClaims \cup {ClaimOf(n)} /\ Retrying' = Retrying
                      => LCP!Next
      BY SameStatements DEF LCP!Next, LCP!Snapshot, LCP!ledger, NoLedger, ledger
<1> QED BY <1>1, <1>2, <1>3

\* A worker's step changes at most whether it retries its own row.
LEMMA WorkerRetrying ==
  ASSUME ShapeInv, NEW o \in Owner, NEW n \in GenNode, Moves(o, n), proc' = proc,
         W(o, n).pc # "none"
  PROVE  /\ \A q \in Owner : \A m \in Node :
              q # o \/ m # n => (RetriesNode(q, m)' <=> RetriesNode(q, m))
         /\ RetriesNode(o, n) <=> W(o, n).pc = "requeue"
         /\ RetriesNode(o, n)' <=> W(o, n)'.pc = "requeue"
<1>1. \A q \in Owner : \A m \in Node :
        q # o \/ m # n => (RetriesNode(q, m)' <=> RetriesNode(q, m))
      BY DEF RetriesNode, At, Moves, W
<1>2. ~(proc[o].pc = "requeue" /\ proc[o].cur = n)
      BY DEF ShapeInv, WorkerOK, Retries
<1> QED BY <1>1, <1>2 DEF RetriesNode, At

\* A worker's step is a step of the clients.
LEMMA SimulateWorker ==
  ASSUME ShapeInv, OneExecutor => Solo, NEW o \in Owner, NEW n \in GenNode, WorkerStep(o, n)
  PROVE  LCP!Next
<1>0. /\ TypeOK /\ WorkerOK(o, n) /\ n \in Node
      BY NodeAssumption DEF ShapeInv
<1>1. Moves(o, n) /\ proc' = proc
      BY <1>0, WorkerEffects
<1>2. W(o, n).pc # "none"
      BY DEF WorkerStep, StartWorker, ReadCache, DropCache, ReadTask, WorkerRetry, WorkerRequeue,
             RereadTask, Gate, WorkerBegin, ReadClaim, SnapshotClaim, Act, CancelCheck, CheckClaim,
             Commit, UnfencedSucceed, FailNode, UnfencedFail, At
<1>3. /\ \A q \in Owner : \A m \in Node :
           q # o \/ m # n => (RetriesNode(q, m)' <=> RetriesNode(q, m))
      /\ RetriesNode(o, n) <=> W(o, n).pc = "requeue"
      /\ RetriesNode(o, n)' <=> W(o, n)'.pc = "requeue"
      BY <1>1, <1>2, WorkerRetrying
<1>4. \A q \in Owner : \A m \in GenNode : q # o \/ m # n => W(q, m)'.claim = W(q, m).claim
      BY <1>1 DEF Moves, W
<1>5. MyHash(o, n) \in Hash
  <2>1. proc[o].plan \in Plan
        BY <1>2, WorkerAlive, PlanAssumption
  <2> QED BY <1>0, <2>1 DEF MyHash, Plan
<1>6. OneExecutor /\ W(o, n).pc # "requeue" => n \notin Retrying
      BY <1>2, NotRetrying
<1>7. W(o, n).claim # NoClaim => W(o, n).claim \in HeldClaims /\ W(o, n).claim.node = n
  <2>1. W(o, n).claim # NoClaim => W(o, n).claim.node = n
        BY <1>0 DEF WorkerOK
  <2> QED BY <2>1 DEF HeldClaims
<1>8. ASSUME W(o, n)'.claim = W(o, n).claim PROVE HeldClaims' = HeldClaims
      BY <1>4, <1>8, HeldSame
<1>9. ASSUME W(o, n).pc # "requeue", W(o, n)'.pc # "requeue" PROVE Retrying' = Retrying
  <2>1. \A q \in Owner : \A m \in Node : RetriesNode(q, m)' <=> RetriesNode(q, m)
        BY <1>3, <1>9
  <2> QED BY <2>1, RetryingSame
<1>10. CASE W(o, n)'.claim = W(o, n).claim /\ WorkerReading(o, n) /\ NoLedger
  <2>1. W(o, n).pc # "requeue" /\ W(o, n)'.pc # "requeue"
        BY <1>10 DEF WorkerReading, Goes, Finished
  <2> QED BY <1>8, <1>9, <1>10, <2>1, SimulateDepart
<1>11. CASE W(o, n)'.claim = W(o, n).claim /\ WorkerWriting(o, n)
  <2>1. HeldClaims' = HeldClaims
        BY <1>8, <1>11
  <2>2. CASE Goes(o, n, "requeue", {"reread"}) /\ RetryUpdate(n)
    <3>1. RetriesNode(o, n)
          BY <1>3, <2>2 DEF Goes
    <3>2. n \in Retrying /\ Retrying' \in {Retrying, Retrying \ {n}}
          BY <1>0, <1>3, <3>1, RetryingLess
    <3> QED BY <1>0, <2>1, <2>2, <3>2, SimulateMemory
  <2>3. CASE ~Goes(o, n, "requeue", {"reread"})
    <3>1. /\ W(o, n).pc # "requeue" /\ W(o, n)'.pc # "requeue"
          /\ W(o, n).pc = "commit" => W(o, n).claim # NoClaim
          BY <1>0, <1>11, <2>3 DEF WorkerWriting, Goes, Finished, WorkerOK
    <3>2. Retrying' = Retrying
          BY <1>9, <3>1
    <3>3. CASE Begin(n, LocalOwner) \/ Fail(n, FALSE) \/ Succeed(n, MyHash(o, n))
          BY <1>0, <1>5, <1>6, <2>1, <3>1, <3>2, <3>3, SimulateStatement
    <3>4. CASE /\ W(o, n).claim # NoClaim
               /\ \/ CommitSuccess(n, W(o, n).claim.attempt, W(o, n).claim.owner, MyHash(o, n))
                  \/ FencedFail(n, W(o, n).claim.attempt, W(o, n).claim.owner)
          BY <1>5, <1>6, <1>7, <2>1, <3>1, <3>2, <3>4, SimulateStatement
    <3> QED BY <1>11, <2>3, <3>1, <3>3, <3>4 DEF WorkerWriting, Goes, Fenced
  <2> QED BY <1>11, <2>2, <2>3 DEF WorkerWriting, Goes
<1>12. CASE /\ W(o, n)'.claim = W(o, n).claim /\ NoLedger
            /\ Goes(o, n, "retry", {"requeue"}) /\ RetryAccepts(n)
  <2>1. RetriesNode(o, n)'
        BY <1>3, <1>12 DEF Goes
  <2>2. Retrying' = Retrying \cup {n}
        BY <1>0, <1>3, <2>1, RetryingMore
  <2> QED BY <1>0, <1>8, <1>12, <2>2, SimulateMemory
<1>13. CASE W(o, n)'.claim = W(o, n).claim /\ Goes(o, n, "invalidate", {"task"}) /\ Invalidate(n)
      BY <1>0, <1>8, <1>9, <1>13, SimulateStatement DEF Goes
<1>14. CASE /\ Goes(o, n, "snap", {"act"}) /\ Running(n) /\ NoLedger
            /\ W(o, n)'.claim = ClaimOf(n) /\ ClaimOf(n) \in Claim
  <2>1. W(o, n).claim = NoClaim /\ ClaimOf(n) # NoClaim
        BY <1>0, <1>14, NoClaimIsNone DEF WorkerOK, Goes, Early
  <2>2. HeldClaims' = HeldClaims \cup {ClaimOf(n)}
        BY <1>4, <1>14, <2>1, HeldMore
  <2>3. Retrying' = Retrying
        BY <1>9, <1>14 DEF Goes
  <2>4. Cardinality(HeldClaims) < Cardinality(Owner) * Cardinality(GenNode) + 1
        BY HeldBound
  <2> QED BY <1>0, <1>14, <2>2, <2>3, <2>4, SimulateMemory
<1> QED BY <1>0, <1>10, <1>11, <1>12, <1>13, <1>14, WorkerEffects

\* A main thread's step leaves alone what other threads remember.
LEMMA MainRemembers ==
  ASSUME NEW o \in Owner, worker' = worker, \A q \in Owner \ {o} : proc'[q] = proc[q]
  PROVE  /\ HeldClaims' = HeldClaims
         /\ \A q \in Owner : \A m \in Node : q # o => (RetriesNode(q, m)' <=> RetriesNode(q, m))
         /\ \A m \in Node :
              /\ ~(proc[o].pc = "requeue" /\ proc[o].cur = m)
              /\ ~(proc'[o].pc = "requeue" /\ proc'[o].cur = m)
              => (RetriesNode(o, m)' <=> RetriesNode(o, m))
<1>1. \A q \in Owner : \A m \in GenNode : W(q, m)' = W(q, m)
      BY DEF W
<1>2. HeldClaims' = HeldClaims
      BY <1>1, HeldSame
<1> QED BY <1>1, <1>2 DEF RetriesNode, At

\* A MainMove that leaves retry() alone changes nothing the clients remember.
LEMMA MainForgets ==
  ASSUME NEW o \in Owner, worker' = worker, \A q \in Owner \ {o} : proc'[q] = proc[q],
         proc[o].pc # "requeue", proc'[o].pc # "requeue"
  PROVE  HeldClaims' = HeldClaims /\ Retrying' = Retrying
<1>1. \A q \in Owner : \A m \in Node : RetriesNode(q, m)' <=> RetriesNode(q, m)
      BY MainRemembers
<1> QED BY <1>1, MainRemembers, RetryingSame

\* A local step of a main thread is a step of the clients.
LEMMA SimulateMain ==
  ASSUME ShapeInv, OneExecutor => Solo, NEW o \in Owner, MainLocal(o)
  PROVE  LCP!Next
<1>1. /\ MainMove(o) /\ MainEffect(o)
      BY MainEffects
<1>2. worker' = worker /\ \A q \in Owner \ {o} : proc'[q] = proc[q]
      BY <1>1 DEF MainMove, NoWorkers
<1>3. /\ proc[o].plan \in Plan /\ proc[o].plan.nodes \subseteq Node /\ Alive(o)
      /\ proc[o].pc \in Retries => proc[o].cur \in Node
  <2>1. Alive(o) /\ MainOK(o) /\ proc[o].plan.nodes \subseteq Node
        BY <1>1, MainFacts DEF MainMove
  <2> QED BY <2>1, PlanAssumption DEF MainOK
<1>4. HeldClaims' = HeldClaims
      BY <1>2, MainRemembers
<1>5. CASE MainReading(o)
  <2>1. \A q \in Owner : \A m \in Node : RetriesNode(q, m)' <=> RetriesNode(q, m)
    <3> SUFFICES ASSUME NEW m \in Node PROVE RetriesNode(o, m)' <=> RetriesNode(o, m)
        BY <1>2, MainRemembers
    <3>1. W(o, m)' = W(o, m)
          BY <1>2 DEF W
    <3> QED BY <1>5, <3>1 DEF MainReading, RetriesNode, At
  <2>2. Retrying' = Retrying
        BY <2>1, RetryingSame
  <2> QED BY <1>4, <1>5, <2>2, SimulateDepart DEF MainReading
<1>6. CASE MainSelecting(o)
  <2>1. PICK n \in Node : n = proc[o].cur
        BY <1>3, <1>6 DEF MainSelecting, Retries
  <2>2. RetriesNode(o, n)'
        BY <1>6, <2>1 DEF MainSelecting, RetriesNode
  <2>3. \A m \in Node \ {n} : RetriesNode(o, m)' <=> RetriesNode(o, m)
        BY <1>2, <1>6, <2>1, MainRemembers DEF MainSelecting
  <2>4. \A q \in Owner : \A m \in Node : q # o \/ m # n => (RetriesNode(q, m)' <=> RetriesNode(q, m))
        BY <1>2, <2>3, MainRemembers
  <2>5. Retrying' = Retrying \cup {n}
        BY <2>2, <2>4, RetryingMore
  <2> QED BY <1>4, <1>6, <2>1, <2>5, SimulateMemory DEF MainSelecting
<1>7. CASE MainRequeueing(o)
  <2> DEFINE n == proc[o].cur
  <2>1. n \in Node /\ RetriesNode(o, n)
        BY <1>3, <1>7 DEF MainRequeueing, RetriesNode, Retries
  <2>2. \A m \in Node \ {n} : RetriesNode(o, m)' <=> RetriesNode(o, m)
        BY <1>2, <1>7, MainRemembers DEF MainRequeueing
  <2>3. \A q \in Owner : \A m \in Node : q # o \/ m # n => (RetriesNode(q, m)' <=> RetriesNode(q, m))
        BY <1>2, <2>2, MainRemembers
  <2> HIDE DEF n
  <2>4. n \in Retrying /\ Retrying' \in {Retrying, Retrying \ {n}}
        BY <2>1, <2>3, RetryingLess
  <2> QED BY <1>4, <1>7, <2>1, <2>4, SimulateMemory DEF MainRequeueing, n
<1>8. CASE MainWriting(o)
  <2>1. Retrying' = Retrying
        BY <1>2, <1>8, MainForgets DEF MainWriting
  <2>2. CASE ClaimOrchestratorNone(o)
        BY <1>4, <2>1, <2>2, SimulateStatement
  <2>3. ASSUME NEW n \in proc[o].plan.nodes \ GenNode,
               Fail(n, TRUE) \/ Begin(n, LocalOwner) \/ Succeed(n, proc[o].plan.hash[n])
        PROVE  LCP!Next
    <3>1. n \in Node \ GenNode /\ proc[o].plan.hash[n] \in Hash
          BY <1>3 DEF Plan
    <3>2. OneExecutor => n \notin Retrying
      <4>1. proc[o].pc \notin {"new", "requeue"} \cup Ended
            BY <1>3, <1>8 DEF Alive, MainWriting
      <4> QED BY <3>1, <4>1, NotRetrying
    <3> QED BY <1>4, <2>1, <2>3, <3>1, <3>2, SimulateStatement
  <2> QED BY <1>8, <2>2, <2>3 DEF MainWriting
<1> QED BY <1>1, <1>5, <1>6, <1>7, <1>8 DEF MainEffect

\* Every other step is a step of the clients too.
LEMMA SimulateOthers ==
  ASSUME ShapeInv, NEW o \in Owner
  PROVE  /\ \A p \in Plans : OpenRun(o, p) => LCP!Next
         /\ \A pc \in Ended : EndProcess(o, pc) /\ NoLedger => LCP!Next
         /\ Reap(o) => LCP!Next
         /\ ClaimNode(o) => LCP!Next
         /\ \A n \in GenNode : CancelFuture(o, n) => LCP!Next
<1>0. NoWorker.pc = "none" /\ NoWorker.claim = NoClaim
      BY DEF NoWorker
<1>1. ASSUME NEW p \in Plans, OpenRun(o, p) PROVE LCP!Next
  <2>1. /\ proc[o].pc = "new" /\ proc'[o].pc = "open" /\ worker' = worker
        /\ \A q \in Owner \ {o} : proc'[q] = proc[q]
        BY <1>1, OpenEffects DEF NoWorkers
  <2>2. HeldClaims' = HeldClaims /\ Retrying' = Retrying
        BY <2>1, MainForgets
  <2>3. SyncPlan(p) /\ \A n \in p.nodes : Present(n) \/ task[n].born < MaxBorn
        BY <1>1 DEF OpenRun
  <2> QED BY <2>2, <2>3, SimulateStatement
<1>2. ASSUME NEW n \in GenNode, Moves(o, n), worker'[o][n] = NoWorker, NoLedger,
             \A q \in Owner \ {o} : proc'[q] = proc[q],
             proc'[o].pc # "requeue"
      PROVE  LCP!Next
  <2>1. \A q \in Owner : \A m \in GenNode : W(q, m)'.claim = W(q, m).claim \/ W(q, m)'.claim = NoClaim
        BY <1>0, <1>2 DEF Moves, W
  <2>2. \A q \in Owner : \A m \in Node : RetriesNode(q, m)' => RetriesNode(q, m)
        BY <1>0, <1>2 DEF RetriesNode, At, Moves, W
  <2> QED BY <1>2, <2>1, <2>2, HeldFewer, RetryingFewer, SimulateDepart
<1>3. ASSUME NEW pc \in Ended, EndProcess(o, pc), NoLedger PROVE LCP!Next
  <2>1. /\ proc'[o].pc = pc
        /\ \A m \in GenNode : worker'[o][m] = NoWorker
        /\ \A q \in Owner \ {o} : proc'[q] = proc[q] /\ worker'[q] = worker[q]
        BY <1>3, EndEffects
  <2>2. \A q \in Owner : \A m \in GenNode : W(q, m)'.claim = W(q, m).claim \/ W(q, m)'.claim = NoClaim
        BY <1>0, <2>1 DEF W
  <2>3. \A q \in Owner : \A m \in Node : RetriesNode(q, m)' => RetriesNode(q, m)
        BY <1>0, <1>3, <2>1 DEF RetriesNode, At, W, Ended
  <2> QED BY <1>3, <2>2, <2>3, HeldFewer, RetryingFewer, SimulateDepart
<1>4. ASSUME Reap(o) PROVE LCP!Next
      BY <1>2, <1>4, ReapEffects
<1>5. ASSUME NEW n \in GenNode, CancelFuture(o, n) PROVE LCP!Next
      BY <1>2, <1>5, CancelFutureEffects
<1>6. ASSUME ClaimNode(o) PROVE LCP!Next
  <2>1. PICK n \in GenNode :
           /\ ClaimOrchestratorReady(o, n)
           /\ proc[o].pc = "claim"
           /\ \/ /\ W(o, n).pc = "none"
                 /\ Moves(o, n) /\ W(o, n)'.pc = "queued" /\ W(o, n)'.claim = NoClaim
                 /\ proc' = proc
              \/ MainMove(o) /\ proc'[o].pc = "unwind"
        BY <1>6, ClaimNodeEffects
  <2>2. n \in Node
        BY NodeAssumption
  <2>3. HeldClaims' = HeldClaims /\ Retrying' = Retrying
    <3>1. CASE MainMove(o) /\ proc'[o].pc = "unwind"
          BY <2>1, <3>1, MainForgets DEF MainMove, NoWorkers
    <3>2. CASE /\ W(o, n).pc = "none"
               /\ Moves(o, n) /\ W(o, n)'.pc = "queued" /\ W(o, n)'.claim = NoClaim
               /\ proc' = proc
      <4>1. W(o, n).claim = NoClaim
            BY <3>2 DEF ShapeInv, WorkerOK, Early
      <4>2. \A q \in Owner : \A m \in GenNode : W(q, m)'.claim = W(q, m).claim
            BY <3>2, <4>1 DEF Moves, W
      <4>3. \A q \in Owner : \A m \in Node : RetriesNode(q, m)' <=> RetriesNode(q, m)
            BY <3>2 DEF RetriesNode, At, Moves, W
      <4> QED BY <4>2, <4>3, HeldSame, RetryingSame
    <3> QED BY <2>1, <3>1, <3>2
  <2> QED BY <2>1, <2>2, <2>3, SimulateStatement
<1> QED BY <1>1, <1>3, <1>4, <1>5, <1>6

\* Every step of the processes is a step of the clients, or none.
LEMMA Simulation ==
  ASSUME ShapeInv, OneExecutor => Solo, [Next]_vars
  PROVE  [LCP!Next]_LCP!vars
<1>1. CASE UNCHANGED vars
      BY <1>1 DEF vars, LCP!vars, HeldClaims, Retrying, W, At
<1>2. CASE WorkCancelRun \/ WorkResumeRun \/ \E n \in Node : LeaseEnds(n)
  <2>1. proc' = proc /\ worker' = worker
        BY <1>2 DEF WorkCancelRun, WorkResumeRun, LeaseEnds
  <2>2. HeldClaims' = HeldClaims /\ Retrying' = Retrying
        BY <2>1 DEF HeldClaims, Retrying, W, At
  <2> QED BY <1>2, <2>2, SimulateStatement DEF WorkCancelRun, WorkResumeRun, LeaseEnds
<1> QED BY <1>1, <1>2, NextSteps, SimulateOthers, SimulateMain, SimulateWorker

-----------------------------------------------------------------------------
(* Type correctness, and the refinement of the general clients.            *)

\* What is assumed of the constants of the clients holds of these processes.
LEMMA ClientConstants ==
  /\ LCP!NodeAssumption /\ LCP!OwnerAssumption /\ LCP!LaneAssumption /\ LCP!PlanAssumption
  /\ LCP!ClientAssumption
<1>1. Cardinality(Owner) \in Nat /\ Cardinality(GenNode) \in Nat
      BY ProcessAssumption, FS_CardinalityType
<1>2. LCP!ClientAssumption
      BY <1>1, ProcessAssumption DEF LCP!ClientAssumption
<1>3. LCP!NodeAssumption /\ LCP!OwnerAssumption
      BY NodeAssumption, OwnerAssumption DEF LCP!NodeAssumption, LCP!OwnerAssumption
<1>4. LCP!LaneAssumption
      BY LaneAssumption DEF LCP!LaneAssumption, LCP!Lanes, Lanes
<1>5. LCP!PlanAssumption
      BY PlanAssumption DEF LCP!PlanAssumption, LCP!Plan, Plan
<1> QED BY <1>2, <1>3, <1>4, <1>5

\* The types of the ledger are those of the clients.
LEMMA SameTypes ==
  /\ LCP!LedgerTypeOK <=> LedgerTypeOK
  /\ LCP!TypeOK <=> LedgerTypeOK /\ HeldClaims \subseteq Claim /\ Retrying \subseteq Node
<1>1. LCP!Row = Row /\ LCP!Claim = Claim
      BY DEF LCP!Row, Row, LCP!Claim, Claim, LCP!WorkState, WorkState, LCP!Lease, Lease
<1> QED BY <1>1 DEF LCP!LedgerTypeOK, LedgerTypeOK, LCP!TypeOK

\* The invariant of the processes.
ExecInv == ShapeInv /\ (OneExecutor => Solo)

\* It holds initially,
LEMMA ExecInit == Init => ExecInv
<1> SUFFICES ASSUME Init PROVE ExecInv
    OBVIOUS
<1>0. \A o \in Owner : proc[o] = Process("new", NoPlan) /\ \A n \in GenNode : worker[o][n] = NoWorker
      BY DEF Init
<1>1. /\ NoWorker \in Worker /\ NoWorker.pc = "none" /\ NoWorker.claim = NoClaim
      /\ Process("new", NoPlan) \in MainThread /\ Process("new", NoPlan).pc = "new"
      BY DEF NoWorker, Worker, WorkerPC, Finished, Process, MainThread, MainPC
<1>2. LedgerTypeOK
  <2>1. NoRow(0) \in Row
        BY DEF NoRow, Row, Lease
  <2> QED BY <2>1 DEF LedgerTypeOK, Init, LedgerInit
<1>3. cancels \in 0 .. MaxCancel
      BY ProcessAssumption DEF Init
<1>4. TypeOK
      BY <1>1, <1>2, <1>3 DEF TypeOK, Init
<1>5. \A o \in Owner : ~Alive(o)
      BY <1>0, <1>1 DEF Alive
<1>6. \A o \in Owner : MainOK(o)
      BY <1>0, <1>1 DEF MainOK, Alive, Where, Retries, Generating, Staging
<1>7. \A o \in Owner : \A n \in GenNode : WorkerOK(o, n)
      BY <1>0, <1>1 DEF WorkerOK, W, Early, Retries
<1> QED BY <1>4, <1>5, <1>6, <1>7 DEF ExecInv, ShapeInv, Solo

\* and every step keeps it and is one of the clients'.
LEMMA ExecStep ==
  ASSUME ExecInv, [Next]_vars
  PROVE  ExecInv' /\ [LCP!Next]_LCP!vars
<1>1. ShapeInv /\ (OneExecutor => Solo)
      BY DEF ExecInv
<1>2. [LCP!Next]_LCP!vars
      BY <1>1, Simulation
<1>3. LCP!TypeOK
  <2>1. HeldClaims \subseteq Claim /\ Retrying \subseteq Node
        BY <1>1, HeldBound DEF Retrying
  <2> QED BY <1>1, <2>1, SameTypes DEF ShapeInv, TypeOK
<1>4. LCP!TypeOK'
      BY <1>2, <1>3, ClientConstants, LCP!TypeStep
         DEF LCP!NodeAssumption, LCP!OwnerAssumption, LCP!LaneAssumption, LCP!PlanAssumption,
             LCP!ClientAssumption
<1>5. LedgerTypeOK'
      BY <1>4, SameTypes, PTL
<1>6. Shape' /\ cancels' \in 0 .. MaxCancel
      BY <1>1, ShapeStep
<1>7. ShapeInv'
      BY <1>5, <1>6 DEF ShapeInv, Shape, TypeOK, ProcTypes
<1>8. OneExecutor => Solo'
      BY <1>1, SoloStep
<1> QED BY <1>2, <1>7, <1>8 DEF ExecInv

\* The invariant holds always.
LEMMA ExecInvariant == Spec => []ExecInv
<1>1. ExecInv /\ [Next]_vars => ExecInv'
      BY ExecStep
<1> QED BY <1>1, ExecInit, PTL DEF Spec

\* Rows, edges, main threads and generation workers keep their declared types
\* for any number of processes and nodes, whatever fails, crashes or stalls.
THEOREM TypeCorrect == Spec => []TypeOK
<1>1. ExecInv => TypeOK
      BY DEF ExecInv, ShapeInv
<1> QED BY <1>1, ExecInvariant, PTL

\* The processes are clients of the ledger: every step of every thread is one
\* transaction of LedgerClients or touches nothing the ledger knows of.
THEOREM Clients == Spec => ImplementsClients
<1>1. Init => LCP!Init
  <2> SUFFICES ASSUME Init PROVE LCP!Init
      OBVIOUS
  <2>1. \A o \in Owner :
          proc[o].pc = "new" /\ \A n \in GenNode : W(o, n).claim = NoClaim /\ ~At(o, n, "requeue")
        BY DEF Init, Process, W, NoWorker, At
  <2>2. HeldClaims = {}
        BY <2>1 DEF HeldClaims
  <2>3. Retrying = {}
        BY <2>1 DEF Retrying
  <2>4. LCP!LedgerInit
        BY SameStatements DEF Init
  <2> QED BY <2>2, <2>3, <2>4 DEF LCP!Init
<1>2. Init => LC!Init
      BY <1>1, SameClients
<1>3. [LCP!Next]_LCP!vars => [LC!Next]_LC!vars
      BY SameClients DEF LCP!vars, LC!vars
<1>4. ExecInv /\ [Next]_vars => [LC!Next]_LC!vars
      BY <1>3, ExecStep
<1> QED BY <1>2, <1>4, ExecInvariant, PTL DEF Spec, ImplementsClients, LC!Spec

\* So what is proved of all clients holds of the processes.
LEMMA AreClients == Spec => LCP!Spec
<1>1. LC!Init => LCP!Init
      BY SameClients
<1>2. [LC!Next]_LC!vars => [LCP!Next]_LCP!vars
      BY SameClients DEF LCP!vars, LC!vars
<1> QED BY <1>1, <1>2, Clients, PTL DEF ImplementsClients, LC!Spec, LCP!Spec

\* The fence of _commit_success as the generation workers meet it: a worker
\* whose claim was taken back never finds it current again, whatever the
\* other processes, the operator and the lease expiry do to the row.
THEOREM WorkersFenced == Spec => LC!StaleStaysStale
<1>1. LCP!Spec => LCP!StaleStaysStale
      BY ClientConstants, LCP!Fencing
         DEF LCP!NodeAssumption, LCP!OwnerAssumption, LCP!LaneAssumption, LCP!PlanAssumption,
             LCP!ClientAssumption
<1>2. [\A c \in HeldClaims : ~LCP!Live(c) => ~LCP!Live(c)']_LCP!vars
        => [\A c \in HeldClaims : ~LC!Live(c) => ~LC!Live(c)']_LC!vars
      BY DEF LCP!Live, LC!Live, LCP!ClaimCurrent, LC!ClaimCurrent, LCP!Running, LC!Running,
             LCP!vars, LC!vars
<1> QED BY <1>1, <1>2, AreClients, PTL DEF LCP!StaleStaysStale, LC!StaleStaysStale

\* A claim a worker holds and that is still live names the input the row has
\* now, although other processes may synchronise other plans meanwhile.
THEOREM WorkersInputBound == Spec => []LC!InputBound
<1>1. LCP!Spec => []LCP!InputBound
      BY ClientConstants, LCP!InputBinding
         DEF LCP!NodeAssumption, LCP!OwnerAssumption, LCP!LaneAssumption, LCP!PlanAssumption,
             LCP!ClientAssumption
<1>2. LCP!InputBound => LC!InputBound
      BY DEF LCP!InputBound, LC!InputBound, LCP!Live, LC!Live, LCP!ClaimCurrent, LC!ClaimCurrent,
             LCP!Running, LC!Running
<1> QED BY <1>1, <1>2, AreClients, PTL

\* While one process at a time executes the run, its scheduler, stages, retries
\* and workers never leave a row running or succeeded on a dependency that is
\* not, and rows carry receipts and owners exactly when their state says so.
THEOREM RunConsistent ==
  OneExecutor => (Spec => []LC!DepsDone /\ []LC!RowEvidence)
<1>1. OneExecutor => (LCP!Spec => []LCP!DepsDone)
      BY ClientConstants, LCP!DependenciesDone
         DEF LCP!NodeAssumption, LCP!OwnerAssumption, LCP!LaneAssumption, LCP!PlanAssumption,
             LCP!ClientAssumption
<1>2. OneExecutor => (LCP!Spec => []LCP!RowEvidence)
      BY ClientConstants, LCP!EvidenceTruth
         DEF LCP!NodeAssumption, LCP!OwnerAssumption, LCP!LaneAssumption, LCP!PlanAssumption,
             LCP!ClientAssumption
<1>3. (LCP!DepsDone <=> LC!DepsDone) /\ (LCP!RowEvidence <=> LC!RowEvidence)
      BY DEF LCP!DepsDone, LC!DepsDone, LCP!RowEvidence, LC!RowEvidence
<1> QED BY <1>1, <1>2, <1>3, AreClients, PTL

\* While one process at a time executes the run, the set of its succeeded
\* nodes moves as the abstract work graph allows: it grows one node at a time,
\* dependencies first, and shrinks only to a set closed under dependencies.
THEOREM RunWorkGraph == OneExecutor => (Spec => LC!ImplementsWorkGraph)
<1>1. OneExecutor => (LCP!Spec => LCP!ImplementsWorkGraph)
      BY ClientConstants, LCP!Refinement
         DEF LCP!NodeAssumption, LCP!OwnerAssumption, LCP!LaneAssumption, LCP!PlanAssumption,
             LCP!ClientAssumption
<1>2. LCP!Succeeded = LC!Succeeded
      BY DEF LCP!Succeeded, LC!Succeeded
<1>3. LCP!WG!Init => LC!WG!Init
      BY <1>2 DEF LCP!WG!Init, LC!WG!Init
<1>4. [LCP!WG!Next]_LCP!WG!gvars => [LC!WG!Next]_LC!WG!gvars
      BY DEF LCP!WG!Next, LC!WG!Next, LCP!WG!gvars, LC!WG!gvars, LCP!Succeeded, LC!Succeeded,
             LCP!WG!Publish, LC!WG!Publish, LCP!WG!Discard, LC!WG!Discard, LCP!WG!Closed, LC!WG!Closed
<1> QED BY <1>1, <1>3, <1>4, AreClients, PTL
        DEF LCP!ImplementsWorkGraph, LC!ImplementsWorkGraph, LCP!WG!Spec, LC!WG!Spec

-----------------------------------------------------------------------------
(* What a step other than the opening of the run does to a row, and who    *)
(* may do it.                                                              *)

\* The row keeps its attempt, input and incarnation.
Stays(m) ==
  /\ task'[m].attempt = task[m].attempt /\ task'[m].hash = task[m].hash
  /\ task'[m].born = task[m].born

\* Only its lease may change.
RowKept(m) ==
  /\ Stays(m)
  /\ task'[m].state = task[m].state /\ task'[m].owner = task[m].owner
  /\ task'[m].receipt = task[m].receipt

\* A claim is granted by a scheduler, or by begin() for a stage or a worker.
RowGranted(m) ==
  /\ task'[m].state = "running" /\ task'[m].attempt = task[m].attempt + 1
  /\ task'[m].hash = task[m].hash
  /\ task[m].state \notin {"absent", "succeeded"}
  /\ \/ \E o \in Owner : ClaimNode(o) /\ ClaimOrchestratorReady(o, m)
     \/ m \notin GenNode
     \/ \E o \in Owner : m \in GenNode /\ Goes(o, m, "begin", {"read"})

\* A success is published by a stage, or by the worker of the node.
RowPublished(m) ==
  /\ Stays(m)
  /\ task[m].state = "running" /\ task'[m].state = "succeeded"
  /\ \E o \in Owner :
       /\ Alive(o) /\ m \in proc[o].plan.nodes /\ task'[m].receipt = proc[o].plan.hash[m]
       /\ \/ m \notin GenNode
          \/ m \in GenNode /\ Goes(o, m, "commit", Finished) /\ StillMine(o, m)
          \/ m \in GenNode /\ Goes(o, m, "succeed", Finished)

\* A row is given up by a claim transaction of another process, by retry(), by
\* a stage, by its worker, or by the cancellation of the run.
RowReleased(m) ==
  /\ Stays(m)
  /\ task[m].state # "absent"
  /\ task'[m].state \in {"pending", "failed", "input_required", "cancelled"}
  /\ \/ /\ task[m].state = "running" /\ task'[m].state = "pending"
        /\ \E o \in Owner : proc[o].pc = "claim" /\ task[m].owner # o
     \/ m \in Retrying /\ task'[m].state = "pending"
     \/ /\ m \notin GenNode /\ task[m].state # "succeeded" /\ task'[m].state # "pending"
     \/ /\ task[m].state = "running" /\ task'[m].state # "pending"
        /\ \E o \in Owner : /\ m \in GenNode
                            /\ Goes(o, m, "fail", Finished) \/ Goes(o, m, "failrow", Finished)
     \/ task[m].state # "succeeded" /\ task'[m].state = "cancelled" /\ cancels' = cancels + 1

\* A cancelled row is taken up again when the run is resumed.
RowResumed(m) ==
  /\ Stays(m)
  /\ task[m].state = "cancelled" /\ task'[m].state = "pending" /\ cancelled /\ ~cancelled'

\* A worker finds its outputs gone.
RowInvalidated(m) ==
  /\ Stays(m)
  /\ task[m].state # "absent" /\ task'[m].state = "pending"
  /\ \E o \in Owner : \E n \in GenNode : Goes(o, n, "invalidate", {"task"})

\* One of these.
RowMove(m) ==
  RowKept(m) \/ RowGranted(m) \/ RowPublished(m) \/ RowReleased(m) \/ RowResumed(m)
    \/ RowInvalidated(m)

\* A statement on one row leaves the others as they are.
LEMMA OneRowMoves ==
  ASSUME LedgerTypeOK, NEW n \in Node, NEW r \in Row, SetRow(n, r), RowMove(n)
  PROVE  \A m \in Node : RowMove(m)
<1>1. \A m \in Node \ {n} : task'[m] = task[m]
      BY RowWritten
<1>2. \A m \in Node \ {n} : RowKept(m)
      BY <1>1 DEF RowKept, Stays
<1> QED BY <1>2 DEF RowMove

\* Nothing happens to the rows.
LEMMA NoRowMoves ==
  ASSUME task' = task
  PROVE  \A m \in Node : RowMove(m)
BY DEF RowMove, RowKept, Stays

\* The expiry of a claim transaction.
LEMMA ExpiryMoves ==
  ASSUME LedgerTypeOK, NEW o \in Owner, proc[o].pc = "claim", NEW m \in Node,
         task'[m] = Expired({o})[m]
  PROVE  RowMove(m)
<1>1. \/ Expired({o})[m] = task[m]
      \/ /\ task[m].state = "running" /\ task[m].owner \notin {o}
         /\ Expired({o})[m] = Released(task[m], "pending")
      BY ExpiredRows
<1>2. task[m] \in Row
      BY DEF LedgerTypeOK
<1>3. CASE Expired({o})[m] = task[m]
      BY <1>3 DEF RowMove, RowKept, Stays
<1>4. CASE /\ task[m].state = "running" /\ task[m].owner \notin {o}
           /\ Expired({o})[m] = Released(task[m], "pending")
      BY <1>2, <1>4, RowValues DEF RowMove, RowReleased, Stays
<1> QED BY <1>1, <1>3, <1>4

\* A begin() moves a row as RowMove allows, when it is one of the two.
LEMMA BeginMoves ==
  ASSUME LedgerTypeOK, NEW n \in Node, Begin(n, LocalOwner),
         n \notin GenNode \/ \E o \in Owner : n \in GenNode /\ Goes(o, n, "begin", {"read"})
  PROVE  \A m \in Node : RowMove(m)
<1>1. task[n] \in Row /\ "none" \in Lease
      BY DEF LedgerTypeOK, Lease
<1>2. CASE task' = task
      BY <1>2, NoRowMoves
<1>3. CASE /\ task[n].state \notin {"absent", "succeeded"}
           /\ SetRow(n, Granted(task[n], LocalOwner, "none"))
  <2> DEFINE r == Granted(task[n], LocalOwner, "none")
  <2>1. r \in Row /\ r.state = "running" /\ r.attempt = task[n].attempt + 1 /\ r.hash = task[n].hash
    <3>1. r \in Row
          BY <1>1, RowTypes
    <3>2. r.state = "running" /\ r.attempt = task[n].attempt + 1 /\ r.hash = task[n].hash
          BY <1>1, RowValues
    <3> QED BY <3>1, <3>2
  <2> HIDE DEF r
  <2>2. SetRow(n, r)
        BY <1>3 DEF r
  <2>3. task'[n] = r
        BY <2>1, <2>2, RowWritten
  <2>4. RowMove(n)
        BY <1>3, <2>1, <2>3 DEF RowMove, RowGranted
  <2> QED BY <2>1, <2>2, <2>4, OneRowMoves
<1> QED BY <1>2, <1>3 DEF Begin, Present

\* A row given up.
LEMMA ReleaseMoves ==
  ASSUME LedgerTypeOK, NEW n \in Node, NEW s \in {"pending", "failed", "input_required", "cancelled"},
         SetRow(n, Released(task[n], s)), task[n].state # "absent",
         \/ n \in Retrying /\ s = "pending"
         \/ n \notin GenNode /\ task[n].state # "succeeded" /\ s # "pending"
         \/ /\ task[n].state = "running" /\ s # "pending"
            /\ \E o \in Owner : /\ n \in GenNode
                                /\ Goes(o, n, "fail", Finished) \/ Goes(o, n, "failrow", Finished)
  PROVE  \A m \in Node : RowMove(m)
<1>1. task[n] \in Row /\ s \in WorkState
      BY DEF LedgerTypeOK, WorkState
<1> DEFINE r == Released(task[n], s)
<1>2. /\ r \in Row /\ r.state = s /\ r.attempt = task[n].attempt /\ r.hash = task[n].hash
      /\ r.born = task[n].born
  <2>1. r \in Row
        BY <1>1, RowTypes
  <2>2. /\ r.state = s /\ r.attempt = task[n].attempt /\ r.hash = task[n].hash
        /\ r.born = task[n].born
        BY <1>1, RowValues
  <2> QED BY <2>1, <2>2
<1> HIDE DEF r
<1>3. SetRow(n, r)
      BY DEF r
<1>4. task'[n] = r
      BY <1>2, <1>3, RowWritten
<1>5. RowMove(n)
      BY <1>2, <1>4 DEF RowMove, RowReleased, Stays
<1> QED BY <1>2, <1>3, <1>5, OneRowMoves

\* A publication.
LEMMA PublishMoves ==
  ASSUME LedgerTypeOK, NEW n \in Node, NEW o \in Owner, proc[o].plan.hash[n] \in Hash,
         SetRow(n, Published(task[n], proc[o].plan.hash[n])), Running(n),
         Alive(o), n \in proc[o].plan.nodes,
         \/ n \notin GenNode
         \/ n \in GenNode /\ Goes(o, n, "commit", Finished) /\ StillMine(o, n)
         \/ n \in GenNode /\ Goes(o, n, "succeed", Finished)
  PROVE  \A m \in Node : RowMove(m)
<1>1. task[n] \in Row
      BY DEF LedgerTypeOK
<1> DEFINE h == proc[o].plan.hash[n]
           r == Published(task[n], h)
<1>2. /\ r \in Row /\ r.state = "succeeded" /\ r.attempt = task[n].attempt
      /\ r.hash = task[n].hash /\ r.born = task[n].born /\ r.receipt = h
  <2>1. r \in Row
        BY <1>1, RowTypes
  <2>2. /\ r.state = "succeeded" /\ r.attempt = task[n].attempt
        /\ r.hash = task[n].hash /\ r.born = task[n].born /\ r.receipt = h
        BY <1>1, RowValues
  <2> QED BY <2>1, <2>2
<1> HIDE DEF r
<1>3. SetRow(n, r)
      BY DEF r
<1>4. task'[n] = r
      BY <1>2, <1>3, RowWritten
<1>5. RowPublished(n)
      BY <1>2, <1>4 DEF RowPublished, Stays, Running
<1> QED BY <1>2, <1>3, <1>5, OneRowMoves DEF RowMove

\* A worker's step moves the rows so,
LEMMA WorkerRows ==
  ASSUME ShapeInv, NEW o \in Owner, NEW n \in GenNode, WorkerStep(o, n)
  PROVE  \A m \in Node : RowMove(m)
<1>0. TypeOK /\ LedgerTypeOK /\ n \in Node /\ WorkerOK(o, n)
      BY NodeAssumption DEF ShapeInv, TypeOK
<1>1. W(o, n).pc # "none"
      BY DEF WorkerStep, StartWorker, ReadCache, DropCache, ReadTask, WorkerRetry, WorkerRequeue,
             RereadTask, Gate, WorkerBegin, ReadClaim, SnapshotClaim, Act, CancelCheck, CheckClaim,
             Commit, UnfencedSucceed, FailNode, UnfencedFail, At
<1>2. /\ Alive(o) /\ n \in proc[o].plan.nodes /\ proc[o].plan.hash[n] \in Hash
      /\ MyHash(o, n) = proc[o].plan.hash[n]
  <2>1. Alive(o) /\ n \in proc[o].plan.nodes /\ proc[o].plan \in Plan
        BY <1>1, WorkerAlive, PlanAssumption
  <2> QED BY <1>0, <2>1 DEF Plan, MyHash
<1>3. CASE NoLedger
      BY <1>3, NoRowMoves DEF NoLedger, ledger
<1>4. CASE WorkerWriting(o, n)
  <2>1. CASE Goes(o, n, "requeue", {"reread"}) /\ RetryUpdate(n)
    <3>1. n \in Retrying
          BY <1>0, <2>1, RetryingDef DEF Goes, RetriesNode, At
    <3>2. CASE task' = task
          BY <3>2, NoRowMoves
    <3>3. CASE task[n].state # "absent" /\ SetRow(n, Released(task[n], "pending"))
          BY <1>0, <3>1, <3>3, ReleaseMoves
    <3> QED BY <2>1, <3>2, <3>3 DEF RetryUpdate, Present
  <2>2. CASE Goes(o, n, "begin", {"read"}) /\ Begin(n, LocalOwner)
        BY <1>0, <2>2, BeginMoves
  <2>3. CASE /\ Goes(o, n, "commit", {"ok", "err"})
             /\ CommitSuccess(n, W(o, n).claim.attempt, W(o, n).claim.owner, MyHash(o, n))
    <3>1. /\ Goes(o, n, "commit", Finished) /\ StillMine(o, n) /\ Running(n)
          /\ SetRow(n, Published(task[n], proc[o].plan.hash[n]))
          BY <1>2, <2>3 DEF CommitSuccess, StillMine, ClaimCurrent, Goes, Finished
    <3> QED BY <1>0, <1>2, <3>1, PublishMoves
  <2>4. CASE Goes(o, n, "succeed", {"ok", "err"}) /\ Succeed(n, MyHash(o, n))
    <3>1. /\ Goes(o, n, "succeed", Finished) /\ Running(n)
          /\ SetRow(n, Published(task[n], proc[o].plan.hash[n]))
          BY <1>2, <2>4 DEF Succeed, Goes, Finished
    <3> QED BY <1>0, <1>2, <3>1, PublishMoves
  <2>5. CASE Goes(o, n, "fail", Finished) /\ FencedFail(n, W(o, n).claim.attempt, W(o, n).claim.owner)
    <3>1. CASE task' = task
          BY <3>1, NoRowMoves
    <3>2. CASE task[n].state = "running" /\ SetRow(n, Released(task[n], "failed"))
          BY <1>0, <2>5, <3>2, ReleaseMoves
    <3> QED BY <2>5, <3>1, <3>2 DEF FencedFail, ClaimCurrent, Running
  <2>6. CASE Goes(o, n, "failrow", Finished) /\ Fail(n, FALSE)
    <3>1. task[n].state = "running" /\ SetRow(n, Released(task[n], "failed"))
          BY <2>6 DEF Fail, Running
    <3> QED BY <1>0, <2>6, <3>1, ReleaseMoves
  <2> QED BY <1>4, <2>1, <2>2, <2>3, <2>4, <2>5, <2>6 DEF WorkerWriting
<1>5. CASE Goes(o, n, "invalidate", {"task"}) /\ Invalidate(n)
  <2> SUFFICES ASSUME NEW m \in Node PROVE RowMove(m)
      OBVIOUS
  <2>1. task[m] \in Row
        BY <1>0 DEF LedgerTypeOK
  <2>2. task'[m] = task[m] \/ (task[m].state # "absent" /\ task'[m] = Invalidated(task[m]))
        BY <1>5 DEF Invalidate, Present
  <2>3. CASE task'[m] = task[m]
        BY <2>3 DEF RowMove, RowKept, Stays
  <2>4. CASE task[m].state # "absent" /\ task'[m] = Invalidated(task[m])
    <3>1. /\ Invalidated(task[m]).state = "pending" /\ Invalidated(task[m]).attempt = task[m].attempt
          /\ Invalidated(task[m]).hash = task[m].hash /\ Invalidated(task[m]).born = task[m].born
          BY <2>1, RowValues
    <3> QED BY <1>5, <2>4, <3>1 DEF RowMove, RowInvalidated, Stays
  <2> QED BY <2>2, <2>3, <2>4
<1> QED BY <1>0, <1>3, <1>4, <1>5, WorkerEffects

\* a main thread's,
LEMMA MainRows ==
  ASSUME ShapeInv, NEW o \in Owner, MainLocal(o)
  PROVE  \A m \in Node : RowMove(m)
<1>0. TypeOK /\ LedgerTypeOK
      BY DEF ShapeInv, TypeOK
<1>1. MainMove(o) /\ MainEffect(o)
      BY MainEffects
<1>2. /\ Alive(o) /\ proc[o].plan \in Plan /\ proc[o].plan.nodes \subseteq Node
  <2>1. Alive(o) /\ MainOK(o) /\ proc[o].plan.nodes \subseteq Node
        BY <1>1, MainFacts DEF MainMove
  <2> QED BY <2>1, PlanAssumption DEF MainOK
<1>3. CASE NoLedger
      BY <1>3, NoRowMoves DEF NoLedger, ledger
<1>4. CASE MainRequeueing(o)
  <2>1. PICK n \in Node : n = proc[o].cur
        BY <1>2, <1>4 DEF MainRequeueing
  <2>2. n \in Retrying /\ RetryUpdate(n)
        BY <1>4, <2>1, RetryingDef DEF MainRequeueing, RetriesNode
  <2>3. CASE task' = task
        BY <2>3, NoRowMoves
  <2>4. CASE task[n].state # "absent" /\ SetRow(n, Released(task[n], "pending"))
        BY <1>0, <2>2, <2>4, ReleaseMoves
  <2> QED BY <2>2, <2>3, <2>4 DEF RetryUpdate, Present
<1>5. CASE ClaimOrchestratorNone(o) /\ proc[o].pc = "claim"
  <2>1. \A m \in Node : task'[m] = Expired({o})[m]
        BY <1>5 DEF ClaimOrchestratorNone
  <2> QED BY <1>0, <1>5, <2>1, ExpiryMoves
<1>6. ASSUME NEW n \in proc[o].plan.nodes \ GenNode,
             Fail(n, TRUE) \/ Begin(n, LocalOwner) \/ Succeed(n, proc[o].plan.hash[n])
      PROVE  \A m \in Node : RowMove(m)
  <2>1. n \in Node /\ proc[o].plan.hash[n] \in Hash
        BY <1>2 DEF Plan
  <2>2. CASE Begin(n, LocalOwner)
        BY <1>0, <2>1, <2>2, BeginMoves
  <2>3. CASE Succeed(n, proc[o].plan.hash[n])
        BY <1>0, <1>2, <2>1, <2>3, PublishMoves DEF Succeed
  <2>4. CASE Fail(n, TRUE)
    <3>1. /\ task[n].state \in {"running", "pending"}
          /\ SetRow(n, Released(task[n], "input_required"))
          BY <2>4 DEF Fail, Running
    <3> QED BY <1>0, <2>1, <3>1, ReleaseMoves
  <2> QED BY <1>6, <2>2, <2>3, <2>4
<1> QED BY <1>1, <1>3, <1>4, <1>5, <1>6 DEF MainEffect, MainReading, MainSelecting, MainWriting

\* and every step but the opening of the run.
LEMMA RowMoves ==
  ASSUME ShapeInv, [Next]_vars, ~\E o \in Owner : \E p \in Plans : OpenRun(o, p)
  PROVE  \A m \in Node : RowMove(m)
<1>0. TypeOK /\ LedgerTypeOK /\ \A m \in Node : task[m] \in Row
      BY DEF ShapeInv, TypeOK, LedgerTypeOK
<1>1. CASE NoLedger
      BY <1>1, NoRowMoves DEF NoLedger, ledger
<1>2. ASSUME NEW o \in Owner, ClaimNode(o) PROVE \A m \in Node : RowMove(m)
  <2>1. PICK n \in GenNode : ClaimOrchestratorReady(o, n) /\ proc[o].pc = "claim"
        BY <1>2, ClaimNodeEffects
  <2>2. n \in Node
        BY NodeAssumption
  <2>3. /\ task'[n] = Granted(Expired({o})[n], o, "held")
        /\ \A m \in Node \ {n} : task'[m] = Expired({o})[m]
        BY <1>0, <2>1, <2>2, GrantedRows
  <2>4. \A m \in Node \ {n} : RowMove(m)
        BY <1>0, <2>1, <2>3, ExpiryMoves
  <2>5. RowMove(n)
    <3> DEFINE r == Expired({o})[n]
    <3>1. /\ r \in Row
          /\ \/ r = task[n]
             \/ task[n].state = "running" /\ r = Released(task[n], "pending")
          BY <1>0, <2>2, ExpiredRows
    <3>2. r.state = "pending"
          BY <2>1 DEF ClaimOrchestratorReady, Ready
    <3>3. r.attempt = task[n].attempt /\ r.hash = task[n].hash
          BY <1>0, <2>2, <3>1, RowValues
    <3>4. task[n].state \notin {"absent", "succeeded"}
          BY <3>1, <3>2
    <3> HIDE DEF r
    <3>5. task'[n] = Granted(r, o, "held")
          BY <2>3 DEF r
    <3>6. task'[n].state = "running" /\ task'[n].attempt = r.attempt + 1 /\ task'[n].hash = r.hash
          BY <3>1, <3>5, RowValues
    <3> QED BY <1>2, <2>1, <3>3, <3>4, <3>6 DEF RowMove, RowGranted
  <2> QED BY <2>4, <2>5
<1>3. ASSUME WorkCancelRun PROVE \A m \in Node : RowMove(m)
  <2> SUFFICES ASSUME NEW m \in Node PROVE RowMove(m)
      OBVIOUS
  <2>1. \/ task'[m] = task[m]
        \/ task[m].state \notin {"absent", "succeeded"} /\ task'[m] = Released(task[m], "cancelled")
        BY <1>3 DEF WorkCancelRun, CancelRun
  <2>2. CASE task'[m] = task[m]
        BY <2>2 DEF RowMove, RowKept, Stays
  <2>3. CASE task[m].state \notin {"absent", "succeeded"} /\ task'[m] = Released(task[m], "cancelled")
    <3>1. /\ Released(task[m], "cancelled").state = "cancelled"
          /\ Released(task[m], "cancelled").attempt = task[m].attempt
          /\ Released(task[m], "cancelled").hash = task[m].hash
          /\ Released(task[m], "cancelled").born = task[m].born
          BY <1>0, RowValues
    <3>2. cancels' = cancels + 1
          BY <1>3 DEF WorkCancelRun
    <3> QED BY <2>3, <3>1, <3>2 DEF RowMove, RowReleased, Stays
  <2> QED BY <2>1, <2>2, <2>3
<1>4. ASSUME WorkResumeRun PROVE \A m \in Node : RowMove(m)
  <2> SUFFICES ASSUME NEW m \in Node PROVE RowMove(m)
      OBVIOUS
  <2>1. /\ cancelled /\ ~cancelled'
        /\ \/ task'[m] = task[m]
           \/ task[m].state = "cancelled" /\ task'[m] = [task[m] EXCEPT !.state = "pending"]
        BY <1>4 DEF WorkResumeRun, ResumeRun
  <2>2. CASE task'[m] = task[m]
        BY <2>2 DEF RowMove, RowKept, Stays
  <2>3. CASE task[m].state = "cancelled" /\ task'[m] = [task[m] EXCEPT !.state = "pending"]
    <3>1. /\ task'[m].state = "pending" /\ task'[m].attempt = task[m].attempt
          /\ task'[m].hash = task[m].hash /\ task'[m].born = task[m].born
          BY <1>0, <2>3 DEF Row
    <3> QED BY <2>1, <2>3, <3>1 DEF RowMove, RowResumed, Stays
  <2> QED BY <2>1, <2>2, <2>3
<1>5. ASSUME NEW n \in Node, LeaseEnds(n) PROVE \A m \in Node : RowMove(m)
  <2> DEFINE r == [task[n] EXCEPT !.lease = "lapsed"]
  <2>1. /\ r \in Row /\ r.state = task[n].state /\ r.attempt = task[n].attempt
        /\ r.hash = task[n].hash /\ r.born = task[n].born /\ r.owner = task[n].owner
        /\ r.receipt = task[n].receipt
        BY <1>0 DEF Row, Lease
  <2> HIDE DEF r
  <2>2. SetRow(n, r)
        BY <1>5 DEF LeaseEnds, Lapse, r
  <2>3. task'[n] = r
        BY <1>0, <2>1, <2>2, RowWritten
  <2>4. RowMove(n)
        BY <2>1, <2>3 DEF RowMove, RowKept, Stays
  <2> QED BY <1>0, <2>1, <2>2, <2>4, OneRowMoves
<1>6. ASSUME NEW o \in Owner, Reap(o) \/ \E n \in GenNode : CancelFuture(o, n) PROVE NoLedger
      BY <1>6 DEF Reap, CancelFuture
<1>7. CASE UNCHANGED vars
      BY <1>1, <1>7 DEF vars, NoLedger, ledger
<1> QED BY <1>1, <1>2, <1>3, <1>4, <1>5, <1>6, <1>7, NextSteps, WorkerRows, MainRows

-----------------------------------------------------------------------------
(* What a step does to a worker and to the plan of its process.            *)

\* It stays, is dropped, is dispatched with a grant, or takes a step.
WorkerMove(o, n) ==
  \/ W(o, n)' = W(o, n)
  \/ W(o, n)' = NoWorker
  \/ /\ Goes(o, n, "none", {"queued"}) /\ W(o, n)'.claim = NoClaim
     /\ ClaimOrchestratorReady(o, n)
  \/ WorkerStep(o, n)

\* Every step moves the workers so.
LEMMA WorkerMoves ==
  ASSUME ShapeInv, [Next]_vars
  PROVE  \A o \in Owner : \A n \in GenNode : WorkerMove(o, n)
<1>1. ASSUME worker' = worker PROVE \A o \in Owner : \A n \in GenNode : WorkerMove(o, n)
      BY <1>1 DEF WorkerMove, W
<1>2. ASSUME NEW o \in Owner, NEW n \in GenNode, Moves(o, n), WorkerMove(o, n)
      PROVE  \A q \in Owner : \A m \in GenNode : WorkerMove(q, m)
  <2>1. \A q \in Owner : \A m \in GenNode : q # o \/ m # n => W(q, m)' = W(q, m)
        BY <1>2 DEF Moves, W
  <2> QED BY <1>2, <2>1 DEF WorkerMove
<1>3. CASE UNCHANGED vars \/ WorkCancelRun \/ WorkResumeRun \/ \E n \in Node : LeaseEnds(n)
      BY <1>1, <1>3 DEF vars, WorkCancelRun, WorkResumeRun, LeaseEnds
<1>4. ASSUME NEW o \in Owner, NEW p \in Plans, OpenRun(o, p) PROVE worker' = worker
      BY <1>4 DEF OpenRun, NoWorkers
<1>5. ASSUME NEW o \in Owner, MainLocal(o) PROVE worker' = worker
      BY <1>5, MainEffects DEF MainMove, NoWorkers
<1>6. ASSUME NEW o \in Owner, NEW pc \in Ended, EndProcess(o, pc)
      PROVE  \A q \in Owner : \A n \in GenNode : WorkerMove(q, n)
  <2>1. /\ \A n \in GenNode : worker'[o][n] = NoWorker
        /\ \A q \in Owner \ {o} : worker'[q] = worker[q]
        BY <1>6, EndEffects
  <2> QED BY <2>1 DEF WorkerMove, W
<1>7. ASSUME NEW o \in Owner, Reap(o) \/ \E n \in GenNode : CancelFuture(o, n)
      PROVE  \A q \in Owner : \A n \in GenNode : WorkerMove(q, n)
  <2>1. PICK n \in GenNode : Moves(o, n) /\ worker'[o][n] = NoWorker
        BY <1>7, ReapEffects, CancelFutureEffects
  <2>2. WorkerMove(o, n)
        BY <2>1 DEF WorkerMove, W
  <2> QED BY <1>2, <2>1, <2>2
<1>8. ASSUME NEW o \in Owner, ClaimNode(o)
      PROVE  \A q \in Owner : \A n \in GenNode : WorkerMove(q, n)
  <2>1. PICK n \in GenNode :
           /\ ClaimOrchestratorReady(o, n)
           /\ \/ /\ W(o, n).pc = "none"
                 /\ Moves(o, n) /\ W(o, n)'.pc = "queued" /\ W(o, n)'.claim = NoClaim
              \/ MainMove(o)
        BY <1>8, ClaimNodeEffects
  <2>2. CASE MainMove(o)
        BY <1>1, <2>2 DEF MainMove, NoWorkers
  <2>3. CASE /\ W(o, n).pc = "none"
             /\ Moves(o, n) /\ W(o, n)'.pc = "queued" /\ W(o, n)'.claim = NoClaim
    <3>1. WorkerMove(o, n)
          BY <2>1, <2>3 DEF WorkerMove, Goes
    <3> QED BY <1>2, <2>3, <3>1
  <2> QED BY <2>1, <2>2, <2>3
<1>9. ASSUME NEW o \in Owner, NEW n \in GenNode, WorkerStep(o, n)
      PROVE  \A q \in Owner : \A m \in GenNode : WorkerMove(q, m)
  <2>1. Moves(o, n)
        BY <1>9, WorkerEffects DEF ShapeInv
  <2> QED BY <1>2, <1>9, <2>1 DEF WorkerMove
<1> QED BY <1>1, <1>3, <1>4, <1>5, <1>6, <1>7, <1>8, <1>9, NextSteps

\* A process keeps its plan until it ends.
LEMMA PlanStays ==
  ASSUME ShapeInv, [Next]_vars, ~\E o \in Owner : \E p \in Plans : OpenRun(o, p)
  PROVE  \A q \in Owner : Alive(q)' => Alive(q) /\ proc'[q].plan = proc[q].plan
<1>1. ASSUME proc' = proc PROVE \A q \in Owner : Alive(q)' => Alive(q) /\ proc'[q].plan = proc[q].plan
      BY <1>1 DEF Alive
<1>2. ASSUME NEW o \in Owner, Alive(o), proc'[o].plan = proc[o].plan,
             \A q \in Owner \ {o} : proc'[q] = proc[q]
      PROVE  \A q \in Owner : Alive(q)' => Alive(q) /\ proc'[q].plan = proc[q].plan
      BY <1>2 DEF Alive
<1>3. CASE UNCHANGED vars \/ WorkCancelRun \/ WorkResumeRun \/ \E n \in Node : LeaseEnds(n)
      BY <1>1, <1>3 DEF vars, WorkCancelRun, WorkResumeRun, LeaseEnds
<1>4. ASSUME NEW o \in Owner, MainLocal(o)
      PROVE  \A q \in Owner : Alive(q)' => Alive(q) /\ proc'[q].plan = proc[q].plan
      BY <1>2, <1>4, MainEffects DEF MainMove
<1>5. ASSUME NEW o \in Owner, NEW pc \in Ended, EndProcess(o, pc)
      PROVE  \A q \in Owner : Alive(q)' => Alive(q) /\ proc'[q].plan = proc[q].plan
      BY <1>5, EndEffects DEF Alive
<1>6. ASSUME NEW o \in Owner, Reap(o)
      PROVE  \A q \in Owner : Alive(q)' => Alive(q) /\ proc'[q].plan = proc[q].plan
  <2>1. Alive(o)
        BY <1>6 DEF Reap, Alive, Ended
  <2> QED BY <1>2, <1>6, <2>1, ReapEffects
<1>7. ASSUME NEW o \in Owner, ClaimNode(o)
      PROVE  \A q \in Owner : Alive(q)' => Alive(q) /\ proc'[q].plan = proc[q].plan
      BY <1>1, <1>2, <1>7, ClaimNodeEffects DEF MainMove
<1>8. ASSUME NEW o \in Owner, NEW n \in GenNode, CancelFuture(o, n) \/ WorkerStep(o, n)
      PROVE  \A q \in Owner : Alive(q)' => Alive(q) /\ proc'[q].plan = proc[q].plan
      BY <1>1, <1>8, CancelFutureEffects, WorkerEffects DEF ShapeInv
<1> QED BY <1>3, <1>4, <1>5, <1>6, <1>7, <1>8, NextSteps

\* The rows of the plan a run is opened with.
LEMMA OpenedRows ==
  ASSUME LedgerTypeOK, NEW p \in Plans, SyncPlan(p)
  PROVE  /\ \A n \in p.nodes : task'[n].state # "absent" /\ task'[n].hash = p.hash[n]
         /\ \A n \in Node : task'[n].state \in {"succeeded", "running"} =>
              /\ task[n].state = task'[n].state /\ task'[n].receipt = task[n].receipt
              /\ task'[n].hash = task[n].hash /\ task'[n].owner = task[n].owner
         /\ cancelled' = cancelled
<1>0. p.nodes \subseteq Node
      BY PlanAssumption DEF Plan
<1>1. \A n \in Node : task[n] \in Row /\ task'[n] = SyncedRow(p, n)
      BY DEF LedgerTypeOK, SyncPlan
<1>2. ASSUME NEW n \in Node PROVE
        /\ n \in p.nodes => task'[n].state # "absent" /\ task'[n].hash = p.hash[n]
        /\ task'[n].state \in {"succeeded", "running"} =>
             /\ task[n].state = task'[n].state /\ task'[n].receipt = task[n].receipt
             /\ task'[n].hash = task[n].hash /\ task'[n].owner = task[n].owner
  <2>1. CASE n \notin p.nodes
    <3>1. task'[n] = Deleted(task[n])
          BY <1>1, <2>1 DEF SyncedRow
    <3> QED BY <1>1, <2>1, <3>1, RowValues
  <2>2. CASE n \in p.nodes /\ ~Present(n)
    <3>1. task'[n] = Inserted(task[n], p.hash[n])
          BY <1>1, <2>2 DEF SyncedRow
    <3>2. task'[n].state = "pending" /\ task'[n].hash = p.hash[n]
          BY <1>1, <3>1, RowValues
    <3> QED BY <2>2, <3>2
  <2>3. CASE n \in p.nodes /\ Present(n)
    <3> DEFINE h == p.hash[n]
               D == Downstream(Changed(p), PlanEdges(p))
               i == Invalidated(task[n])
    <3>1. CASE n \in D
      <4>1. task'[n] = [i EXCEPT !.hash = h]
            BY <1>1, <2>3, <3>1 DEF SyncedRow
      <4>2. i \in Row /\ i.state = "pending"
            BY <1>1, RowTypes, RowValues
      <4> HIDE DEF i
      <4>3. task'[n].state = "pending" /\ task'[n].hash = h
            BY <4>1, <4>2 DEF Row
      <4> QED BY <4>3
    <3>2. CASE n \notin D
      <4>1. task'[n] = [task[n] EXCEPT !.hash = h]
            BY <1>1, <2>3, <3>2 DEF SyncedRow
      <4>2. /\ task'[n].state = task[n].state /\ task'[n].hash = h
            /\ task'[n].receipt = task[n].receipt /\ task'[n].owner = task[n].owner
            BY <1>1, <4>1 DEF Row
      <4>3. n \notin Changed(p)
            BY <1>0, <2>3, <3>2 DEF Downstream
      <4>4. h = task[n].hash
            BY <2>3, <4>3 DEF Changed
      <4> QED BY <2>3, <4>2, <4>4 DEF Present
    <3> QED BY <3>1, <3>2
  <2> QED BY <2>1, <2>2, <2>3
<1> QED BY <1>0, <1>2 DEF SyncPlan

-----------------------------------------------------------------------------
(* The run under one executing process.                                    *)

\* The worker of n in o has not ended.
AtWork(o, n) == W(o, n).pc \notin Finished \cup {"none"}

\* The rows of the plan a process works on are there, with its inputs.
PlanKept ==
  \A o \in Owner : Alive(o) =>
    \A n \in proc[o].plan.nodes : task[n].state # "absent" /\ task[n].hash = proc[o].plan.hash[n]

\* A worker works on a row that has not succeeded: it never finds a success in
\* the cache and never has one to invalidate.
Unfinished ==
  \A o \in Owner : \A n \in GenNode :
    AtWork(o, n) => task[n].state # "succeeded" /\ W(o, n).pc # "invalidate"

\* A worker's claim never runs ahead of the row.
Behind ==
  \A o \in Owner : \A n \in GenNode :
    W(o, n).claim # NoClaim => W(o, n).claim.attempt <= task[n].attempt

\* Under a cancellation no worker is left that could publish.
CancelHolds ==
  cancelled => \A o \in Owner : \A n \in GenNode :
    /\ W(o, n).pc \in {"check", "commit"} => ~StillMine(o, n)
    /\ W(o, n).pc = "succeed" => task[n].state \notin {"running", "pending"}

\* The invariant of a run under one executing process.
RunInv == PlanKept /\ Unfinished /\ Behind /\ CancelHolds /\ ReceiptMatchesInput

\* A row that is being retried has not been published meanwhile.
RetryOpen == \A n \in Retrying : task[n].state # "succeeded"

\* Two workers of one node are the same.
LEMMA OneWorker ==
  ASSUME ShapeInv, Solo, NEW o \in Owner, NEW q \in Owner, NEW n \in GenNode, NEW m \in GenNode,
         W(o, n).pc # "none", W(q, m).pc # "none"
  PROVE  o = q
BY WorkerAlive DEF Solo

\* A worker takes steps until it has ended.
LEMMA StepsAtWork ==
  ASSUME NEW o \in Owner, NEW n \in GenNode, WorkerStep(o, n)
  PROVE  AtWork(o, n)
BY DEF WorkerStep, StartWorker, ReadCache, DropCache, ReadTask, WorkerRetry, WorkerRequeue,
       RereadTask, Gate, WorkerBegin, ReadClaim, SnapshotClaim, Act, CancelCheck, CheckClaim,
       Commit, UnfencedSucceed, FailNode, UnfencedFail, At, AtWork, Finished

\* A granted row was pending, or running on a lapsed lease, and is running.
LEMMA GrantedRow ==
  ASSUME LedgerTypeOK, NEW o \in Owner, NEW n \in GenNode, ClaimOrchestratorReady(o, n)
  PROVE  /\ task[n].state \in {"pending", "running"}
         /\ task[n].state = "running" => task[n].owner # o
         /\ task'[n].state = "running" /\ task'[n].owner = o
<1>0. n \in Node
      BY NodeAssumption
<1> DEFINE r == Expired({o})[n]
<1>1. /\ r \in Row
      /\ \/ r = task[n]
         \/ task[n].state = "running" /\ task[n].owner \notin {o}
      BY <1>0, ExpiredRows
<1>2. r.state = "pending"
      BY DEF ClaimOrchestratorReady, Ready
<1>3. task'[n] = Granted(r, o, "held")
      BY <1>0, GrantedRows
<1> HIDE DEF r
<1>4. task'[n].state = "running" /\ task'[n].owner = o
      BY <1>1, <1>3, RowValues
<1> QED BY <1>1, <1>2, <1>4

\* The cancel flag is set by work_cancel_run alone.
LEMMA CancelFlag ==
  ASSUME ShapeInv, [Next]_vars
  PROVE  cancelled' = cancelled \/ WorkCancelRun \/ ~cancelled'
<1>1. ASSUME NEW o \in Owner, NEW p \in Plans, OpenRun(o, p) PROVE cancelled' = cancelled
      BY <1>1 DEF OpenRun, SyncPlan
<1>2. ASSUME NEW o \in Owner, MainLocal(o) PROVE cancelled' = cancelled
  <2>1. MainEffect(o)
        BY <1>2, MainEffects
  <2> QED BY <2>1 DEF MainEffect, MainReading, MainSelecting, MainRequeueing, MainWriting,
                      NoLedger, ledger, RetryUpdate, ClaimOrchestratorNone, Fail, Begin, Succeed
<1>3. ASSUME NEW o \in Owner, NEW n \in GenNode, WorkerStep(o, n) PROVE cancelled' = cancelled
  <2>1. NoLedger \/ WorkerWriting(o, n) \/ Invalidate(n)
        BY <1>3, WorkerEffects DEF ShapeInv
  <2> QED BY <2>1 DEF WorkerWriting, NoLedger, ledger, RetryUpdate, Fail, Begin, Succeed,
                      CommitSuccess, FencedFail, Invalidate
<1>4. ASSUME NEW o \in Owner, ClaimNode(o) PROVE cancelled' = cancelled
      BY <1>4 DEF ClaimNode, ClaimOrchestratorReady
<1>5. ASSUME NEW o \in Owner, Reap(o) \/ \E n \in GenNode : CancelFuture(o, n) PROVE NoLedger
      BY <1>5 DEF Reap, CancelFuture
<1>6. ASSUME NoLedger \/ UNCHANGED vars \/ \E n \in Node : LeaseEnds(n) PROVE cancelled' = cancelled
      BY <1>6 DEF NoLedger, ledger, vars, LeaseEnds, Lapse
<1>7. ASSUME WorkResumeRun PROVE ~cancelled'
      BY <1>7 DEF WorkResumeRun, ResumeRun
<1> QED BY <1>1, <1>2, <1>3, <1>4, <1>5, <1>6, <1>7, NextSteps

\* Opening the run establishes what concerns the new process; no other lives.
LEMMA RunOpened ==
  ASSUME ShapeInv, OneExecutor, RunInv, NEW o \in Owner, NEW p \in Plans, OpenRun(o, p)
  PROVE  RunInv'
<1>1. /\ proc'[o].plan = p
      /\ \A q \in Owner \ {o} : proc'[q] = proc[q]
      /\ \A q \in Owner : ~Alive(q)
      /\ SyncPlan(p) /\ worker' = worker
      BY OpenEffects DEF NoWorkers
<1>2. LedgerTypeOK
      BY DEF ShapeInv, TypeOK
<1>3. \A q \in Owner : \A n \in GenNode : W(q, n)'.pc = "none" /\ W(q, n)'.claim = NoClaim
  <2> SUFFICES ASSUME NEW q \in Owner, NEW n \in GenNode
               PROVE  W(q, n)'.pc = "none" /\ W(q, n)'.claim = NoClaim
      OBVIOUS
  <2>1. W(q, n)' = W(q, n) /\ WorkerOK(q, n)
        BY <1>1 DEF W, ShapeInv
  <2>2. W(q, n).pc = "none"
        BY <1>1, WorkerAlive
  <2> QED BY <2>1, <2>2 DEF WorkerOK, Early
<1>4. PlanKept'
  <2>1. \A q \in Owner \ {o} : ~Alive(q)'
        BY <1>1 DEF Alive
  <2>2. \A n \in p.nodes : task'[n].state # "absent" /\ task'[n].hash = p.hash[n]
        BY <1>1, <1>2, OpenedRows
  <2> QED BY <1>1, <2>1, <2>2 DEF PlanKept
<1>5. ReceiptMatchesInput'
  <2>1. \A n \in Node : task'[n].state = "succeeded" =>
          /\ task[n].state = "succeeded" /\ task'[n].receipt = task[n].receipt
          /\ task'[n].hash = task[n].hash
        BY <1>1, <1>2, OpenedRows
  <2> QED BY <2>1 DEF RunInv, ReceiptMatchesInput
<1>6. Unfinished' /\ Behind' /\ CancelHolds'
      BY <1>3 DEF Unfinished, AtWork, Behind, CancelHolds
<1> QED BY <1>4, <1>5, <1>6 DEF RunInv

\* Rows of a plan stay, with their inputs.
LEMMA PlanKeptStep ==
  ASSUME ShapeInv, PlanKept, [Next]_vars, ~\E o \in Owner : \E p \in Plans : OpenRun(o, p)
  PROVE  PlanKept'
<1> SUFFICES ASSUME NEW o \in Owner, Alive(o)', NEW n \in proc'[o].plan.nodes
             PROVE  task'[n].state # "absent" /\ task'[n].hash = proc'[o].plan.hash[n]
    BY DEF PlanKept
<1>1. Alive(o) /\ proc'[o].plan = proc[o].plan
      BY PlanStays
<1>2. n \in Node
      BY <1>1, MainFacts
<1>3. task[n].state # "absent" /\ task[n].hash = proc[o].plan.hash[n]
      BY <1>1 DEF PlanKept
<1>4. RowMove(n)
      BY <1>2, RowMoves
<1>5. task'[n].state # "absent" /\ task'[n].hash = task[n].hash
      BY <1>3, <1>4 DEF RowMove, RowKept, RowGranted, RowPublished, RowReleased, RowResumed,
                        RowInvalidated, Stays
<1> QED BY <1>1, <1>3, <1>5

\* Claims stay behind their rows.
LEMMA BehindStep ==
  ASSUME ShapeInv, Behind, [Next]_vars, ~\E o \in Owner : \E p \in Plans : OpenRun(o, p)
  PROVE  Behind'
<1> SUFFICES ASSUME NEW o \in Owner, NEW n \in GenNode, W(o, n)'.claim # NoClaim
             PROVE  W(o, n)'.claim.attempt <= task'[n].attempt
    BY DEF Behind
<1>0. n \in Node /\ TypeOK /\ task[n] \in Row
      BY NodeAssumption DEF ShapeInv, TypeOK, LedgerTypeOK
<1>1. task[n].attempt \in Nat
      BY <1>0 DEF Row
<1>2. RowMove(n) /\ WorkerMove(o, n)
      BY <1>0, RowMoves, WorkerMoves
<1>3. task'[n].attempt \in {task[n].attempt, task[n].attempt + 1}
      BY <1>2 DEF RowMove, RowKept, RowGranted, RowPublished, RowReleased, RowResumed,
                  RowInvalidated, Stays
<1>4. CASE W(o, n)'.claim = W(o, n).claim
  <2>1. W(o, n).claim \in Claim
        BY <1>0, <1>4 DEF TypeOK, W, Worker
  <2>2. W(o, n).claim.attempt \in Nat
        BY <2>1 DEF Claim
  <2>3. W(o, n).claim.attempt <= task[n].attempt
        BY <1>4 DEF Behind
  <2> QED BY <1>1, <1>3, <1>4, <2>2, <2>3
<1>5. CASE W(o, n)'.claim = ClaimOf(n) /\ ClaimOf(n).attempt = task[n].attempt
      BY <1>1, <1>3, <1>5
<1>6. W(o, n)' # NoWorker
      BY DEF NoWorker
<1>7. CASE WorkerStep(o, n)
      BY <1>0, <1>4, <1>5, <1>7, WorkerEffects
<1> QED BY <1>2, <1>4, <1>6, <1>7 DEF WorkerMove

\* A worker's row becomes succeeded only by the step that ends the worker.
LEMMA PublishedByWorker ==
  ASSUME ShapeInv, Solo, [Next]_vars, ~\E o \in Owner : \E p \in Plans : OpenRun(o, p),
         NEW o \in Owner, NEW n \in GenNode, W(o, n).pc # "none",
         task[n].state # "succeeded", task'[n].state = "succeeded"
  PROVE  W(o, n)'.pc \in Finished
<1>1. RowMove(n)
      BY NodeAssumption, RowMoves
<1>2. RowPublished(n)
      BY <1>1 DEF RowMove, RowKept, RowGranted, RowReleased, RowResumed, RowInvalidated
<1>3. PICK q \in Owner : Goes(q, n, "commit", Finished) \/ Goes(q, n, "succeed", Finished)
      BY <1>2 DEF RowPublished
<1>4. q = o
      BY <1>3, OneWorker DEF Goes
<1> QED BY <1>3, <1>4 DEF Goes

\* Workers go on with rows that have not succeeded.
LEMMA UnfinishedStep ==
  ASSUME ShapeInv, Solo, Unfinished, [Next]_vars,
         ~\E o \in Owner : \E p \in Plans : OpenRun(o, p)
  PROVE  Unfinished'
<1> SUFFICES ASSUME NEW o \in Owner, NEW n \in GenNode, AtWork(o, n)'
             PROVE  task'[n].state # "succeeded" /\ W(o, n)'.pc # "invalidate"
    BY DEF Unfinished
<1>0. LedgerTypeOK /\ TypeOK
      BY DEF ShapeInv, TypeOK
<1>1. WorkerMove(o, n) /\ W(o, n)'.pc \notin Finished \cup {"none"}
      BY WorkerMoves DEF AtWork
<1>2. ASSUME AtWork(o, n) PROVE task[n].state # "succeeded" /\ task'[n].state # "succeeded"
  <2>1. W(o, n).pc # "none" /\ task[n].state # "succeeded"
        BY <1>2 DEF AtWork, Unfinished
  <2> QED BY <1>1, <2>1, PublishedByWorker
<1>3. CASE W(o, n)' = W(o, n)
  <2>1. AtWork(o, n)
        BY <1>1, <1>3 DEF AtWork
  <2> QED BY <1>2, <1>3, <2>1 DEF Unfinished
<1>4. CASE W(o, n)' = NoWorker
      BY <1>1, <1>4 DEF NoWorker
<1>5. CASE Goes(o, n, "none", {"queued"}) /\ ClaimOrchestratorReady(o, n)
      BY <1>0, <1>5, GrantedRow DEF Goes
<1>6. CASE WorkerStep(o, n)
  <2>1. AtWork(o, n)
        BY <1>6, StepsAtWork
  <2>2. task[n].state # "succeeded" /\ task'[n].state # "succeeded"
        BY <1>2, <2>1
  <2>3. W(o, n)'.pc # "invalidate"
    <3>1. CASE WorkerReading(o, n)
          BY <2>2, <3>1 DEF WorkerReading, Goes, Finished
    <3>2. CASE WorkerWriting(o, n)
          BY <3>2 DEF WorkerWriting, Goes, Finished
    <3> QED BY <1>0, <1>6, <3>1, <3>2, WorkerEffects DEF Goes
  <2> QED BY <2>2, <2>3
<1> QED BY <1>1, <1>3, <1>4, <1>5, <1>6 DEF WorkerMove

\* A cancellation leaves no worker that could publish.
LEMMA CancelHoldsStep ==
  ASSUME ShapeInv, Solo, Unfinished, Behind, CancelHolds, [Next]_vars,
         ~\E o \in Owner : \E p \in Plans : OpenRun(o, p)
  PROVE  CancelHolds'
<1> SUFFICES ASSUME cancelled', NEW o \in Owner, NEW n \in GenNode
             PROVE  /\ W(o, n)'.pc \in {"check", "commit"} => ~StillMine(o, n)'
                    /\ W(o, n)'.pc = "succeed" => task'[n].state \notin {"running", "pending"}
    BY DEF CancelHolds
<1>0. /\ LedgerTypeOK /\ TypeOK /\ n \in Node /\ task[n] \in Row
      /\ RowMove(n) /\ WorkerMove(o, n)
      BY NodeAssumption, RowMoves, WorkerMoves DEF ShapeInv, TypeOK, LedgerTypeOK
<1>1. CASE WorkCancelRun
  <2>1. task'[n].state \notin {"running", "pending"}
    <3>1. task'[n] = IF task[n].state \in {"absent", "succeeded"}
                     THEN task[n] ELSE Released(task[n], "cancelled")
          BY <1>0, <1>1 DEF WorkCancelRun, CancelRun
    <3>2. Released(task[n], "cancelled").state = "cancelled"
          BY <1>0, RowValues
    <3> QED BY <3>1, <3>2
  <2> QED BY <2>1 DEF StillMine, ClaimCurrent, Running
<1>2. CASE ~WorkCancelRun
  <2>1. cancelled
        BY <1>2, CancelFlag
  <2>2. /\ W(o, n).pc \in {"check", "commit"} => ~StillMine(o, n)
        /\ W(o, n).pc = "succeed" => task[n].state \notin {"running", "pending"}
        BY <2>1 DEF CancelHolds
  <2>3. CASE W(o, n)' = W(o, n)
    <3>1. ASSUME W(o, n)'.pc \in {"check", "commit"}, StillMine(o, n)' PROVE FALSE
      <4> DEFINE c == W(o, n).claim
      <4>1. c # NoClaim /\ ~StillMine(o, n)
            BY <2>2, <2>3, <3>1 DEF ShapeInv, WorkerOK
      <4>2. c \in Claim
            BY <1>0, <4>1 DEF TypeOK, W, Worker
      <4>3. c.attempt \in Nat /\ task[n].attempt \in Nat /\ c.attempt <= task[n].attempt
            BY <1>0, <4>1, <4>2 DEF Claim, Row, Behind
      <4>4. task'[n].state = "running" /\ task'[n].attempt = c.attempt /\ task'[n].owner = c.owner
            BY <2>3, <3>1 DEF StillMine, ClaimCurrent, Running
      <4>5. RowKept(n) \/ RowGranted(n)
            BY <1>0, <4>4 DEF RowMove, RowPublished, RowReleased, RowResumed, RowInvalidated
      <4>6. CASE RowKept(n)
            BY <4>1, <4>4, <4>6 DEF RowKept, Stays, StillMine, ClaimCurrent, Running
      <4>7. CASE RowGranted(n)
        <5>1. task'[n].attempt = task[n].attempt + 1
              BY <4>7 DEF RowGranted
        <5> QED BY <4>3, <4>4, <5>1
      <4> QED BY <4>5, <4>6, <4>7
    <3>2. ASSUME W(o, n)'.pc = "succeed", task'[n].state \in {"running", "pending"} PROVE FALSE
      <4>1. W(o, n).pc = "succeed" /\ task[n].state \notin {"running", "pending"}
            BY <2>2, <2>3, <3>2
      <4>2. n \notin Retrying
            BY <4>1, NotRetrying
      <4>3. CASE RowGranted(n)
        <5>1. ASSUME NEW q \in Owner, ClaimOrchestratorReady(q, n) PROVE FALSE
              BY <1>0, <4>1, <5>1, GrantedRow
        <5>2. ASSUME NEW q \in Owner, Goes(q, n, "begin", {"read"}) PROVE FALSE
          <6>1. q = o
                BY <4>1, <5>2, OneWorker DEF Goes
          <6> QED BY <4>1, <5>2, <6>1 DEF Goes
        <5> QED BY <4>3, <5>1, <5>2 DEF RowGranted
      <4>4. CASE RowInvalidated(n)
        <5>1. PICK q \in Owner, m \in GenNode : W(q, m).pc = "invalidate"
              BY <4>4 DEF RowInvalidated, Goes
        <5> QED BY <5>1 DEF Unfinished, AtWork, Finished
      <4>5. CASE RowReleased(n)
            BY <3>2, <4>1, <4>2, <4>5 DEF RowReleased
      <4> QED BY <1>0, <3>2, <4>1, <4>3, <4>4, <4>5
              DEF RowMove, RowKept, RowPublished, RowResumed
    <3> QED BY <3>1, <3>2
  <2>4. CASE W(o, n)' = NoWorker \/ Goes(o, n, "none", {"queued"})
        BY <2>4 DEF NoWorker, Goes
  <2>5. CASE WorkerStep(o, n)
    <3>1. W(o, n)'.pc \notin {"check", "commit", "succeed"}
      <4>1. CASE WorkerReading(o, n)
            BY <2>1, <2>2, <4>1 DEF WorkerReading, Goes, Finished
      <4>2. CASE WorkerWriting(o, n)
            BY <4>2 DEF WorkerWriting, Goes, Finished
      <4> QED BY <1>0, <2>5, <4>1, <4>2, WorkerEffects DEF Goes
    <3> QED BY <3>1
  <2> QED BY <1>0, <2>3, <2>4, <2>5 DEF WorkerMove
<1> QED BY <1>1, <1>2

\* Publications carry the input of their row.
LEMMA ReceiptStep ==
  ASSUME ShapeInv, PlanKept, ReceiptMatchesInput, [Next]_vars,
         ~\E o \in Owner : \E p \in Plans : OpenRun(o, p)
  PROVE  ReceiptMatchesInput'
<1> SUFFICES ASSUME NEW n \in Node, task'[n].state = "succeeded"
             PROVE  task'[n].receipt = task'[n].hash
    BY DEF ReceiptMatchesInput
<1>1. RowMove(n)
      BY RowMoves
<1>2. CASE RowKept(n)
      BY <1>2 DEF RowKept, Stays, ReceiptMatchesInput
<1>3. CASE RowPublished(n)
      BY <1>3 DEF RowPublished, Stays, PlanKept
<1> QED BY <1>1, <1>2, <1>3 DEF RowMove, RowGranted, RowReleased, RowResumed, RowInvalidated

\* Every step keeps the invariant of the run.
LEMMA RunStep ==
  ASSUME OneExecutor, ShapeInv, Solo, RunInv, [Next]_vars
  PROVE  RunInv'
<1>1. ASSUME NEW o \in Owner, NEW p \in Plans, OpenRun(o, p) PROVE RunInv'
      BY <1>1, RunOpened
<1>2. CASE ~\E o \in Owner : \E p \in Plans : OpenRun(o, p)
      BY <1>2, PlanKeptStep, UnfinishedStep, BehindStep, CancelHoldsStep, ReceiptStep DEF RunInv
<1> QED BY <1>1, <1>2

\* The invariant holds in an empty ledger,
LEMMA RunInit == Init => RunInv
<1> SUFFICES ASSUME Init PROVE RunInv
    OBVIOUS
<1>1. \A o \in Owner : ~Alive(o) /\ \A n \in GenNode : W(o, n).pc = "none" /\ W(o, n).claim = NoClaim
      BY DEF Init, Alive, Process, W, NoWorker
<1>2. \A n \in Node : task[n].state = "absent"
      BY DEF Init, LedgerInit, NoRow
<1> QED BY <1>1, <1>2 DEF RunInv, PlanKept, Unfinished, AtWork, Behind, CancelHolds, ReceiptMatchesInput

\* and always, with one executing process at a time.
LEMMA RunInvariant == OneExecutor => (Spec => []RunInv)
<1> SUFFICES ASSUME OneExecutor PROVE Spec => []RunInv
    OBVIOUS
<1>1. ExecInv /\ RunInv /\ [Next]_vars => RunInv'
      BY RunStep DEF ExecInv
<1> QED BY <1>1, RunInit, ExecInvariant, PTL DEF Spec

\* While one process at a time executes the run, a published success was
\* computed from the input its row names: across plan changes, crashes and the
\* processes that worked under an older plan (_commit_success, succeed,
\* sync_plan).
THEOREM ReceiptsMatch == OneExecutor => (Spec => []ReceiptMatchesInput)
<1>1. RunInv => ReceiptMatchesInput
      BY DEF RunInv
<1> QED BY <1>1, RunInvariant, PTL

\* While one process at a time executes the run, no generation node becomes
\* succeeded under a cancellation: every worker that passed the second
\* raise_if_cancelled has lost its claim or its running row by then, and no
\* retry, claim or restart gives it back.
THEOREM CancelStops == OneExecutor => (Spec => CancelStopsGeneration)
<1> SUFFICES ASSUME OneExecutor PROVE Spec => CancelStopsGeneration
    OBVIOUS
<1>1. ASSUME ExecInv, RunInv, [Next]_vars, cancelled, cancelled', NEW n \in GenNode,
             task'[n].state = "succeeded", task[n].state # "succeeded"
      PROVE  FALSE
  <2>0. ShapeInv /\ LedgerTypeOK /\ n \in Node /\ CancelHolds
        BY <1>1, NodeAssumption DEF ExecInv, ShapeInv, TypeOK, RunInv
  <2>1. ASSUME NEW o \in Owner, NEW p \in Plans, OpenRun(o, p) PROVE FALSE
        BY <1>1, <2>0, <2>1, OpenedRows DEF OpenRun
  <2>2. RowMove(n)
        BY <1>1, <2>0, <2>1, RowMoves
  <2>3. RowPublished(n)
        BY <1>1, <2>2 DEF RowMove, RowKept, RowGranted, RowReleased, RowResumed, RowInvalidated
  <2> QED BY <1>1, <2>0, <2>3 DEF RowPublished, Goes, CancelHolds
<1>2. ExecInv /\ RunInv /\ [Next]_vars =>
        [cancelled /\ cancelled' =>
           \A n \in GenNode : task'[n].state = "succeeded" => task[n].state = "succeeded"]_vars
      BY <1>1
<1> QED BY <1>2, ExecInvariant, RunInvariant, PTL DEF Spec, CancelStopsGeneration

\* While one process at a time executes the run, succeeded work is taken back
\* only by opening the run with a changed plan, or by a worker that found its
\* outputs gone.
THEOREM NothingReplayed == OneExecutor => (Spec => NoReplay)
<1> SUFFICES ASSUME OneExecutor PROVE Spec => NoReplay
    OBVIOUS
<1>1. LCP!Spec => []LCP!GraphInv
      BY ClientConstants, LCP!GraphInvariant
         DEF LCP!NodeAssumption, LCP!OwnerAssumption, LCP!LaneAssumption, LCP!PlanAssumption,
             LCP!ClientAssumption
<1>2. LCP!GraphInv => RetryOpen
      BY DEF LCP!GraphInv, LCP!RetryInv, RetryOpen
<1>3. ASSUME ExecInv, RetryOpen, [Next]_vars, NEW n \in Node,
             task[n].state = "succeeded", task'[n].state # "succeeded"
      PROVE  \E o \in Owner : \/ proc[o].pc = "new" /\ proc'[o].pc = "open"
                              \/ \E m \in GenNode : At(o, m, "invalidate") /\ At(o, m, "task")'
  <2>0. ShapeInv
        BY <1>3 DEF ExecInv
  <2>1. ASSUME NEW o \in Owner, NEW p \in Plans, OpenRun(o, p)
        PROVE  proc[o].pc = "new" /\ proc'[o].pc = "open"
        BY <2>0, <2>1, OpenEffects
  <2>2. CASE ~\E o \in Owner : \E p \in Plans : OpenRun(o, p)
    <3>1. RowMove(n)
          BY <1>3, <2>0, <2>2, RowMoves
    <3>2. RowInvalidated(n)
          BY <1>3, <3>1 DEF RowMove, RowKept, RowGranted, RowPublished, RowReleased, RowResumed, RetryOpen
    <3> QED BY <3>2 DEF RowInvalidated, Goes, At
  <2> QED BY <2>1, <2>2
<1>4. ExecInv /\ RetryOpen /\ [Next]_vars => [ReplayJustified]_vars
      BY <1>3 DEF ReplayJustified
<1>5. Spec => []RetryOpen
      BY <1>1, <1>2, AreClients, PTL
<1>6. Spec => [][Next]_vars
      BY PTL DEF Spec
<1> QED BY <1>4, <1>5, <1>6, ExecInvariant, PTL DEF NoReplay

-----------------------------------------------------------------------------
(* A run that has not been cancelled.                                      *)

\* Where its workers are: none takes the branches of _run_work_node that
\* retry, begin or publish without a claim.
CalmPC == {"queued", "cached", "task", "gate", "read", "snap", "act", "gate2", "check",
           "commit", "fail"}

\* Each works on a row that is running under its own process, and from the
\* snapshot on it holds that row's claim.
CalmWorkers ==
  \A o \in Owner : \A n \in GenNode : AtWork(o, n) =>
    /\ W(o, n).pc \in CalmPC
    /\ Running(n) /\ task[n].owner = o
    /\ W(o, n).pc = "gate" => W(o, n).running
    /\ W(o, n).pc \notin Early => W(o, n).claim # NoClaim /\ StillMine(o, n)

\* Two nodes that may run at the same time.
Together(m, n) ==
  /\ ~(StageOf[m] = StageOf[n] /\ StageOf[m] \in SerialStages)
  /\ SharedGpu => {LaneOf[m], LaneOf[n]} # {"llm", "image_gpu"}

\* Admission keeps rows apart that must not run together.
Compatible ==
  \A m, n \in GenNode : m # n /\ task[m].state = "running" /\ task[n].state = "running" =>
    Together(m, n)

\* The invariant of a run until its first cancellation.
CalmInv == cancels = 0 => ~cancelled /\ CalmWorkers /\ Compatible

\* The number of cancellations only grows.
LEMMA CancelCount ==
  ASSUME ShapeInv, [Next]_vars
  PROVE  cancels' = cancels \/ (WorkCancelRun /\ cancels' = cancels + 1)
<1>1. ASSUME NEW o \in Owner, NEW p \in Plans, OpenRun(o, p) PROVE cancels' = cancels
      BY <1>1 DEF OpenRun, NoWorkers
<1>2. ASSUME NEW o \in Owner, MainLocal(o) PROVE cancels' = cancels
      BY <1>2, MainEffects DEF MainMove, NoWorkers
<1>3. ASSUME NEW o \in Owner, NEW n \in GenNode, WorkerStep(o, n) PROVE cancels' = cancels
      BY <1>3, WorkerEffects DEF ShapeInv
<1>4. ASSUME NEW o \in Owner, NEW pc \in Ended, EndProcess(o, pc) PROVE cancels' = cancels
      BY <1>4, EndEffects
<1>5. ASSUME NEW o \in Owner, ClaimNode(o) PROVE cancels' = cancels
      BY <1>5, ClaimNodeEffects
<1>6. ASSUME NEW o \in Owner, Reap(o) \/ \E n \in GenNode : CancelFuture(o, n)
      PROVE  cancels' = cancels
      BY <1>6, ReapEffects, CancelFutureEffects
<1>7. CASE UNCHANGED vars \/ WorkResumeRun \/ \E n \in Node : LeaseEnds(n)
      BY <1>7 DEF vars, WorkResumeRun, LeaseEnds
<1>8. CASE WorkCancelRun
      BY <1>8 DEF WorkCancelRun
<1> QED BY <1>1, <1>2, <1>3, <1>4, <1>5, <1>6, <1>7, <1>8, NextSteps

\* Until the first one the run is not cancelled.
LEMMA StaysCalm ==
  ASSUME ShapeInv, [Next]_vars, cancels' = 0
  PROVE  cancels = 0 /\ ~WorkCancelRun /\ (~cancelled => ~cancelled')
<1>1. cancels \in Nat
      BY ProcessAssumption DEF ShapeInv, TypeOK
<1>2. WorkCancelRun => cancels' = cancels + 1
      BY DEF WorkCancelRun
<1> QED BY <1>1, <1>2, CancelCount, CancelFlag

\* A step of a worker in a calm run.
LEMMA CalmWorkerStep ==
  ASSUME ShapeInv, ~cancelled, CalmWorkers, NEW o \in Owner, NEW n \in GenNode, WorkerStep(o, n)
  PROVE  \/ /\ NoLedger
            /\ W(o, n)'.pc \in CalmPC
            /\ W(o, n)'.pc = "gate" => W(o, n)'.running
            /\ W(o, n)'.pc \notin Early => W(o, n)'.claim # NoClaim /\ StillMine(o, n)'
         \/ NoLedger /\ MayDrift /\ W(o, n)'.pc \in Finished
         \/ task'[n].state # "running" /\ W(o, n)'.pc \in Finished
<1>0. /\ TypeOK /\ LedgerTypeOK /\ n \in Node /\ task[n] \in Row /\ WorkerOK(o, n)
      BY NodeAssumption DEF ShapeInv, TypeOK, LedgerTypeOK
<1>1. /\ W(o, n).pc \in CalmPC
      /\ task[n].state = "running" /\ task[n].owner = o
      /\ W(o, n).pc = "gate" => W(o, n).running
      /\ W(o, n).pc \notin Early => W(o, n).claim # NoClaim /\ StillMine(o, n)
      BY StepsAtWork DEF CalmWorkers, Running
<1>2. task[n].owner # Null
      BY <1>1, OwnerAssumption
<1>3. CASE /\ WorkerReading(o, n) /\ NoLedger /\ W(o, n)'.claim = W(o, n).claim
  <2>1. task' = task
        BY <1>3 DEF NoLedger, ledger
  <2>2. StillMine(o, n)' <=> StillMine(o, n)
        BY <1>3, <2>1 DEF StillMine, ClaimCurrent, Running
  <2>3. \/ W(o, n)'.pc \in CalmPC /\ (W(o, n)'.pc \notin Early => W(o, n).pc \notin Early)
           /\ (W(o, n)'.pc = "gate" => W(o, n)'.running)
        \/ MayDrift /\ W(o, n)'.pc \in Finished
        BY <1>1, <1>2, <1>3
           DEF WorkerReading, Goes, CalmPC, Early, Present, Running, Stopped, Finished, Fenced
  <2> QED BY <1>1, <1>3, <2>2, <2>3
<1>4. CASE WorkerWriting(o, n) /\ W(o, n)'.claim = W(o, n).claim
  <2>1. CASE /\ Goes(o, n, "commit", {"ok", "err"})
             /\ CommitSuccess(n, W(o, n).claim.attempt, W(o, n).claim.owner, MyHash(o, n))
    <3>1. MyHash(o, n) \in Hash
      <4>1. n \in proc[o].plan.nodes /\ proc[o].plan \in Plan
            BY <2>1, WorkerAlive, PlanAssumption DEF Goes
      <4> QED BY <1>0, <4>1 DEF Plan, MyHash
    <3> DEFINE r == Published(task[n], MyHash(o, n))
    <3>2. r \in Row
          BY <1>0, <3>1, RowTypes
    <3>3. r.state = "succeeded"
          BY <1>0, <3>1, RowValues
    <3> HIDE DEF r
    <3>4. SetRow(n, r)
          BY <2>1 DEF CommitSuccess, r
    <3>5. task'[n] = r
          BY <1>0, <3>2, <3>4, RowWritten
    <3> QED BY <2>1, <3>3, <3>5 DEF Goes, Finished
  <2>2. CASE Goes(o, n, "fail", Finished) /\ FencedFail(n, W(o, n).claim.attempt, W(o, n).claim.owner)
    <3>1. ClaimCurrent(n, W(o, n).claim.attempt, W(o, n).claim.owner)
          BY <1>1, <2>2 DEF Goes, Early, StillMine
    <3> DEFINE r == Released(task[n], "failed")
    <3>2. r \in Row
          BY <1>0, RowTypes DEF WorkState
    <3>3. r.state = "failed"
          BY <1>0, RowValues DEF WorkState
    <3> HIDE DEF r
    <3>4. SetRow(n, r)
          BY <2>2, <3>1 DEF FencedFail, r
    <3>5. task'[n] = r
          BY <1>0, <3>2, <3>4, RowWritten
    <3> QED BY <2>2, <3>3, <3>5 DEF Goes
  <2> QED BY <1>1, <1>4, <2>1, <2>2 DEF WorkerWriting, Goes, CalmPC
<1>5. CASE /\ Goes(o, n, "snap", {"act"}) /\ Running(n) /\ NoLedger
           /\ W(o, n)'.claim = ClaimOf(n) /\ ClaimOf(n) \in Claim /\ ClaimOf(n).node = n
           /\ ClaimOf(n).attempt = task[n].attempt /\ ClaimOf(n).owner = task[n].owner
  <2>1. task' = task
        BY <1>5 DEF NoLedger, ledger
  <2>2. StillMine(o, n)'
        BY <1>1, <1>5, <2>1 DEF StillMine, ClaimCurrent, Running
  <2>3. W(o, n)'.claim # NoClaim
        BY <1>5, NoClaimIsNone
  <2> QED BY <1>5, <2>2, <2>3 DEF Goes, CalmPC
<1> QED BY <1>0, <1>1, <1>3, <1>4, <1>5, WorkerEffects DEF Goes, CalmPC

\* A row with a worker of its own process stays with it.
LEMMA CalmRowStays ==
  ASSUME ShapeInv, Solo, CalmWorkers, ~cancelled, [Next]_vars, cancels = 0, cancels' = 0,
         ~\E o \in Owner : \E p \in Plans : OpenRun(o, p),
         NEW o \in Owner, NEW n \in GenNode, AtWork(o, n), W(o, n)'.pc \notin Finished
  PROVE  RowKept(n)
<1>0. /\ LedgerTypeOK /\ n \in Node /\ W(o, n).pc # "none" /\ Alive(o)
      /\ task[n].state = "running" /\ task[n].owner = o /\ W(o, n).pc \in CalmPC
      BY NodeAssumption, WorkerAlive DEF ShapeInv, TypeOK, AtWork, CalmWorkers, Running
<1>1. RowMove(n)
      BY <1>0, RowMoves
<1>2. ASSUME NEW q \in Owner, proc[q].pc = "claim" PROVE q = o
      BY <1>0, <1>2 DEF Alive, Solo, Ended
<1>3. ASSUME NEW q \in Owner, W(q, n).pc # "none" PROVE q = o
      BY <1>0, <1>3, OneWorker
<1>4. CASE RowGranted(n)
  <2>1. ASSUME NEW q \in Owner, ClaimNode(q), ClaimOrchestratorReady(q, n) PROVE FALSE
    <3>1. q = o
          BY <1>2, <2>1, ClaimNodeEffects
    <3> QED BY <1>0, <2>1, <3>1, GrantedRow
  <2>2. ASSUME NEW q \in Owner, Goes(q, n, "begin", {"read"}) PROVE FALSE
        BY <1>0, <1>3, <2>2 DEF Goes, CalmPC
  <2> QED BY <1>4, <2>1, <2>2 DEF RowGranted
<1>5. CASE RowPublished(n)
  <2>1. task[n].state # "succeeded" /\ task'[n].state = "succeeded"
        BY <1>5 DEF RowPublished
  <2> QED BY <1>0, <2>1, PublishedByWorker
<1>6. CASE RowReleased(n)
  <2>1. n \notin Retrying
        BY <1>0, NotRetrying DEF CalmPC
  <2>2. ASSUME NEW q \in Owner, Goes(q, n, "fail", Finished) \/ Goes(q, n, "failrow", Finished)
        PROVE  FALSE
        BY <1>3, <2>2 DEF Goes
  <2> QED BY <1>0, <1>2, <1>6, <2>1, <2>2 DEF RowReleased
<1>7. CASE RowInvalidated(n)
  <2>1. PICK q \in Owner, m \in GenNode : W(q, m).pc = "invalidate"
        BY <1>7 DEF RowInvalidated, Goes
  <2> QED BY <2>1 DEF CalmWorkers, AtWork, Finished, CalmPC
<1> QED BY <1>1, <1>4, <1>5, <1>6, <1>7 DEF RowMove, RowResumed

\* Workers stay calm.
LEMMA CalmWorkersStep ==
  ASSUME ShapeInv, Solo, CalmWorkers, ~cancelled, [Next]_vars, cancels = 0, cancels' = 0,
         ~\E o \in Owner : \E p \in Plans : OpenRun(o, p)
  PROVE  CalmWorkers'
<1> SUFFICES ASSUME NEW o \in Owner, NEW n \in GenNode, AtWork(o, n)'
             PROVE  /\ W(o, n)'.pc \in CalmPC
                    /\ task'[n].state = "running" /\ task'[n].owner = o
                    /\ W(o, n)'.pc = "gate" => W(o, n)'.running
                    /\ W(o, n)'.pc \notin Early => W(o, n)'.claim # NoClaim /\ StillMine(o, n)'
    BY DEF CalmWorkers, Running
<1>0. WorkerMove(o, n) /\ W(o, n)'.pc \notin Finished \cup {"none"} /\ LedgerTypeOK
      BY WorkerMoves DEF AtWork, ShapeInv, TypeOK
<1>1. CASE W(o, n)' = W(o, n)
  <2>1. AtWork(o, n)
        BY <1>0, <1>1 DEF AtWork
  <2>2. RowKept(n)
        BY <1>0, <2>1, CalmRowStays
  <2>3. /\ W(o, n).pc \in CalmPC
        /\ task[n].state = "running" /\ task[n].owner = o
        /\ W(o, n).pc = "gate" => W(o, n).running
        /\ W(o, n).pc \notin Early => W(o, n).claim # NoClaim /\ StillMine(o, n)
        BY <2>1 DEF CalmWorkers, Running
  <2>4. StillMine(o, n) => StillMine(o, n)'
        BY <1>1, <2>2 DEF StillMine, ClaimCurrent, Running, RowKept, Stays
  <2> QED BY <1>1, <2>2, <2>3, <2>4 DEF RowKept
<1>2. CASE W(o, n)' = NoWorker
      BY <1>0, <1>2 DEF NoWorker
<1>3. CASE Goes(o, n, "none", {"queued"}) /\ ClaimOrchestratorReady(o, n)
      BY <1>0, <1>3, GrantedRow DEF Goes, CalmPC, Early
<1>4. CASE WorkerStep(o, n)
  <2>1. AtWork(o, n)
        BY <1>4, StepsAtWork
  <2>2. task[n].state = "running" /\ task[n].owner = o
        BY <2>1 DEF CalmWorkers, Running
  <2>3. /\ NoLedger
        /\ W(o, n)'.pc \in CalmPC
        /\ W(o, n)'.pc = "gate" => W(o, n)'.running
        /\ W(o, n)'.pc \notin Early => W(o, n)'.claim # NoClaim /\ StillMine(o, n)'
        BY <1>0, <1>4, CalmWorkerStep
  <2> QED BY <2>2, <2>3 DEF NoLedger, ledger
<1> QED BY <1>0, <1>1, <1>2, <1>3, <1>4 DEF WorkerMove

\* A lane with a running node has a load.
LEMMA Loaded ==
  ASSUME NEW t, NEW m \in GenNode, t[m].state = "running"
  PROVE  Load(t, LaneOf[m]) > 0
<1> DEFINE S == {n \in GenNode : t[n].state = "running" /\ LaneOf[n] = LaneOf[m]}
<1>1. m \in S /\ S \subseteq GenNode
      OBVIOUS
<1>2. IsFiniteSet(S)
      BY <1>1, ProcessAssumption, FS_Subset
<1>3. S # {} /\ Cardinality(S) \in Nat
      BY <1>1, <1>2, FS_CardinalityType
<1>4. Cardinality(S) # 0
      BY <1>2, <1>3, FS_EmptySet
<1> HIDE DEF S
<1>5. Cardinality(S) > 0
      BY <1>3, <1>4
<1> QED BY <1>5 DEF S, Load

\* What admission lets in may run beside everything that is running.
LEMMA Admitted ==
  ASSUME NEW t, NEW n \in GenNode, n \in Ready(t), NEW m \in GenNode, t[m].state = "running"
  PROVE  Together(m, n) /\ Together(n, m)
<1>1. ~(StageOf[m] = StageOf[n] /\ StageOf[n] \in SerialStages)
      BY NodeAssumption DEF Ready, StageFree
<1>2. Load(t, LaneOf[m]) > 0
      BY Loaded
<1>3. /\ ~(SharedGpu /\ LaneOf[n] = "llm" /\ Load(t, "image_gpu") > 0)
      /\ ~(SharedGpu /\ LaneOf[n] = "image_gpu" /\ Load(t, "llm") > 0)
      BY DEF Ready, FreeLanes
<1>4. /\ SharedGpu /\ LaneOf[n] = "llm" => LaneOf[m] # "image_gpu"
      /\ SharedGpu /\ LaneOf[n] = "image_gpu" => LaneOf[m] # "llm"
      BY <1>2, <1>3
<1>5. SharedGpu => /\ {LaneOf[m], LaneOf[n]} # {"llm", "image_gpu"}
                   /\ {LaneOf[n], LaneOf[m]} # {"llm", "image_gpu"}
      BY <1>4
<1> QED BY <1>1, <1>5 DEF Together

\* Rows that run together may.
LEMMA CompatibleStep ==
  ASSUME ShapeInv, CalmWorkers, Compatible, [Next]_vars,
         ~\E o \in Owner : \E p \in Plans : OpenRun(o, p)
  PROVE  Compatible'
<1> SUFFICES ASSUME NEW m \in GenNode, NEW n \in GenNode, m # n,
                    task'[m].state = "running", task'[n].state = "running"
             PROVE  Together(m, n)
    BY DEF Compatible, Together
<1>0. LedgerTypeOK /\ m \in Node /\ n \in Node
      BY NodeAssumption DEF ShapeInv, TypeOK
<1>1. ASSUME NEW o \in Owner, NEW g \in GenNode, ClaimOrchestratorReady(o, g)
      PROVE  Together(m, n)
  <2>0. PICK t : t = Expired({o})
        OBVIOUS
  <2>1. g \in Node /\ g \in Ready(t) /\ \A k \in Node \ {g} : task'[k] = t[k]
        BY <1>0, <1>1, <2>0, NodeAssumption, GrantedRows DEF ClaimOrchestratorReady
  <2>2. CASE m = g
        BY <1>0, <2>1, <2>2, Admitted
  <2>3. CASE n = g
        BY <1>0, <2>1, <2>3, Admitted
  <2>4. CASE m # g /\ n # g
    <3>1. t[m].state = "running" /\ t[n].state = "running"
          BY <1>0, <2>1, <2>4
    <3>2. ASSUME NEW k \in Node, t[k].state = "running" PROVE task[k].state = "running"
          BY <1>0, <2>0, <3>2, ExpiredRows
    <3> QED BY <1>0, <3>1, <3>2 DEF Compatible
  <2> QED BY <2>2, <2>3, <2>4
<1>2. CASE ~\E o \in Owner : \E g \in GenNode : ClaimOrchestratorReady(o, g)
  <2>1. ASSUME NEW k \in GenNode, task'[k].state = "running" PROVE task[k].state = "running"
    <3>1. RowMove(k)
          BY NodeAssumption, RowMoves
    <3>2. ~RowGranted(k)
      <4>1. ASSUME NEW q \in Owner, Goes(q, k, "begin", {"read"}) PROVE FALSE
            BY <4>1 DEF CalmWorkers, AtWork, Finished, Goes, CalmPC
      <4> QED BY <1>2, <4>1 DEF RowGranted
    <3> QED BY <2>1, <3>1, <3>2 DEF RowMove, RowKept, RowPublished, RowReleased, RowResumed,
                                    RowInvalidated
  <2> QED BY <2>1 DEF Compatible
<1> QED BY <1>1, <1>2

\* Every step keeps a run that has not been cancelled calm.
LEMMA CalmStep ==
  ASSUME OneExecutor, ShapeInv, Solo, CalmInv, [Next]_vars
  PROVE  CalmInv'
<1> SUFFICES ASSUME cancels' = 0 PROVE ~cancelled' /\ CalmWorkers' /\ Compatible'
    BY DEF CalmInv
<1>1. cancels = 0 /\ ~cancelled /\ ~cancelled' /\ CalmWorkers /\ Compatible
      BY StaysCalm DEF CalmInv
<1>2. ASSUME NEW o \in Owner, NEW p \in Plans, OpenRun(o, p)
      PROVE  CalmWorkers' /\ Compatible'
  <2>0. LedgerTypeOK
        BY DEF ShapeInv, TypeOK
  <2>1. /\ \A q \in Owner : ~Alive(q)
        /\ SyncPlan(p) /\ worker' = worker
        BY <1>2, OpenEffects DEF NoWorkers
  <2>2. \A q \in Owner : \A n \in GenNode : W(q, n)' = W(q, n) /\ W(q, n).pc = "none"
        BY <2>1, WorkerAlive DEF W
  <2>3. CalmWorkers'
        BY <2>2 DEF CalmWorkers, AtWork
  <2>4. \A n \in Node : task'[n].state = "running" => task[n].state = "running"
        BY <2>0, <2>1, OpenedRows
  <2>5. Compatible'
        BY <1>1, <2>4, NodeAssumption DEF Compatible, Together
  <2> QED BY <2>3, <2>5
<1>3. CASE ~\E o \in Owner : \E p \in Plans : OpenRun(o, p)
      BY <1>1, <1>3, CalmWorkersStep, CompatibleStep
<1> QED BY <1>1, <1>2, <1>3

\* An empty ledger is calm.
LEMMA CalmInit == Init => CalmInv
<1> SUFFICES ASSUME Init PROVE CalmInv
    OBVIOUS
<1>1. \A o \in Owner : \A n \in GenNode : W(o, n).pc = "none"
      BY DEF Init, W, NoWorker
<1>2. \A n \in Node : task[n].state = "absent"
      BY DEF Init, LedgerInit, NoRow
<1>3. ~cancelled
      BY DEF Init, LedgerInit
<1> QED BY <1>1, <1>2, <1>3, NodeAssumption DEF CalmInv, CalmWorkers, AtWork, Compatible

\* So it is calm until its first cancellation.
LEMMA CalmInvariant == OneExecutor => (Spec => []CalmInv)
<1> SUFFICES ASSUME OneExecutor PROVE Spec => []CalmInv
    OBVIOUS
<1>1. ExecInv /\ CalmInv /\ [Next]_vars => CalmInv'
      BY CalmStep DEF ExecInv
<1> QED BY <1>1, CalmInit, ExecInvariant, PTL DEF Spec

\* While one process at a time executes the run, and until the operator first
\* cancels it, two workers never change the project for the same node, in the
\* same serial stage, or with both models of one GPU: not after a lapsed lease,
\* a crash or a restart either (claim_orchestrator_ready).
THEOREM RunsApart == OneExecutor => (Spec => [](cancels = 0 => SafeConcurrency))
<1> SUFFICES ASSUME OneExecutor PROVE Spec => [](cancels = 0 => SafeConcurrency)
    OBVIOUS
<1>1. ASSUME ExecInv, CalmInv, cancels = 0 PROVE SafeConcurrency
  <2> SUFFICES ASSUME NEW o \in Owner, NEW q \in Owner, NEW m \in GenNode, NEW n \in GenNode,
                      <<o, m>> # <<q, n>>, Acting(o, m), Acting(q, n)
               PROVE  m # n /\ Together(m, n)
      BY DEF SafeConcurrency, Together
  <2>1. AtWork(o, m) /\ AtWork(q, n) /\ W(o, m).pc # "none" /\ W(q, n).pc # "none"
        BY DEF Acting, AtWork, Finished
  <2>2. o = q
        BY <1>1, <2>1, OneWorker DEF ExecInv
  <2>3. task[m].state = "running" /\ task[n].state = "running"
        BY <1>1, <2>1 DEF CalmInv, CalmWorkers, Running
  <2> QED BY <1>1, <2>2, <2>3 DEF CalmInv, Compatible
<1>2. ExecInv /\ CalmInv => (cancels = 0 => SafeConcurrency)
      BY <1>1
<1> QED BY <1>2, ExecInvariant, CalmInvariant, PTL

-----------------------------------------------------------------------------
(* Every claim of a scheduler has its worker.                              *)

\* The futures a reaping main thread has left to take are done.
ReapInv ==
  \A o \in Owner : Where(o) = "reap" => \A n \in GenNode \cap proc[o].todo : W(o, n).pc \in Finished

\* A row that runs under a process has a worker there, unless the process is
\* leaving its loop or has ended; no row runs under a process yet to come.
Served ==
  \A o \in Owner : \A n \in GenNode : Running(n) /\ task[n].owner = o =>
    /\ proc[o].pc # "new"
    /\ Alive(o) /\ proc[o].pc # "unwind" => AtWork(o, n)

\* Reaping is unconditional; rows are served where process_node's checks hold.
ServedInv == ReapInv /\ (cancels = 0 /\ ~MayDrift => Served)

\* The main thread begins to reap with the futures that are done, and adds none.
LEMMA ReapTodo ==
  ASSUME ShapeInv, NEW o \in Owner, MainLocal(o), Where(o)' = "reap"
  PROVE  \/ proc'[o].todo = Done(o)
         \/ Where(o) = "reap" /\ proc'[o].todo = proc[o].todo
<1> DEFINE r == proc[o]
<1>1. r \in MainThread /\ MainOK(o) /\ proc \in [Owner -> MainThread]
      BY MainFacts DEF TypeOK
<1>2. ASSUME NEW s, Set(o, s) PROVE proc'[o] = s
      BY <1>1, <1>2 DEF Set
<1>3. ASSUME NEW pc, Go(o, pc) PROVE proc'[o].pc = pc /\ proc'[o].todo = r.todo /\ proc'[o].ret = r.ret
      BY <1>1, <1>2, <1>3 DEF Go, MainThread
<1>4. ASSUME NEW pc, NEW S, Loop(o, pc, S) PROVE proc'[o].pc = pc /\ proc'[o].todo = S
      BY <1>1, <1>2, <1>4 DEF Loop, MainThread
<1>5. CASE ResumeLoop(o)
  <2>1. r.pc \in {"open", "resume"}
        BY <1>5 DEF ResumeLoop
  <2>2. ASSUME Set(o, AfterLoop(o)) PROVE proc'[o].pc \in {"stage", "top"}
        BY <1>1, <1>2, <2>2 DEF AfterLoop, MainThread
  <2>3. ASSUME NEW n, Set(o, [[r EXCEPT !.todo = @ \ {n}] EXCEPT !.pc = "retry", !.cur = n, !.ret = r.pc])
        PROVE  proc'[o].pc = "retry" /\ proc'[o].ret = r.pc
        BY <1>1, <1>2, <2>3 DEF MainThread
  <2>4. ASSUME NEW n, Set(o, [r EXCEPT !.todo = @ \ {n}]) PROVE proc'[o].pc = r.pc
        BY <1>1, <1>2, <2>4 DEF MainThread
  <2>5. \/ proc'[o].pc \in {"stage", "top", "unwind", r.pc}
        \/ proc'[o].pc = "retry" /\ proc'[o].ret = r.pc
        BY <1>3, <1>5, <2>2, <2>3, <2>4 DEF ResumeLoop, Raise
  <2> QED BY <2>1, <2>5 DEF Where, Retries
<1>6. CASE MainRetry(o) \/ MainRequeue(o)
  <2>1. /\ r.pc \in Retries /\ proc'[o].todo = r.todo /\ proc'[o].ret = r.ret
        /\ proc'[o].pc \in {"requeue", "unwind", r.ret}
        BY <1>3, <1>6 DEF MainRetry, MainRequeue, Raise, Retries
  <2> QED BY <1>1, <2>1 DEF Where, Retries, MainOK
<1>7. CASE Stage(o) /\ ~EndProcess(o, "done")
  <2>1. ASSUME NEW n, Set(o, [r EXCEPT !.pc = "stagetask", !.cur = n]) PROVE proc'[o].pc = "stagetask"
        BY <1>1, <1>2, <2>1 DEF MainThread
  <2>2. proc'[o].pc \in {"resume", "unwind", "stagetask"}
        BY <1>3, <1>4, <1>7, <2>1 DEF Stage, Raise
  <2> QED BY <2>2 DEF Where, Retries
<1>8. CASE StageTask(o)
  <2>1. ASSUME Set(o, [r EXCEPT !.pc = "retry", !.ret = "begin"])
        PROVE  proc'[o].pc = "retry" /\ proc'[o].ret = "begin"
        BY <1>1, <1>2, <2>1 DEF MainThread
  <2>2. \/ proc'[o].pc \in {"unwind", "stage", "begin"}
        \/ proc'[o].pc = "retry" /\ proc'[o].ret = "begin"
        BY <1>3, <1>4, <1>8, <2>1 DEF StageTask, Raise
  <2> QED BY <2>2 DEF Where, Retries
<1>9. CASE StageInput(o) \/ StageBegin(o) \/ StageSucceed(o)
  <2>1. CASE StageInput(o)
        BY <1>3, <1>4, <2>1 DEF StageInput, Raise, Where, Retries
  <2>2. CASE StageBegin(o)
        BY <1>3, <2>2 DEF StageBegin, Raise, Where, Retries
  <2>3. CASE StageSucceed(o)
        BY <1>3, <1>4, <2>3 DEF StageSucceed, Raise, Where, Retries
  <2> QED BY <1>9, <2>1, <2>2, <2>3
<1>10. CASE Top(o)
       BY <1>3, <1>4, <1>10 DEF Top, Raise, Where, Retries
<1>11. CASE ReapEnd(o) \/ ClaimNothing(o) \/ ClaimLapsed(o)
  <2>1. ASSUME NEW S, Set(o, [r EXCEPT !.pc = "inspect", !.seen = {}, !.todo = S])
        PROVE  proc'[o].pc = "inspect"
        BY <1>1, <1>2, <2>1 DEF MainThread
  <2> QED BY <1>3, <1>11, <2>1 DEF ReapEnd, ClaimNothing, ClaimLapsed, Raise, Where, Retries
<1>12. CASE Inspect(o)
  <2>1. ASSUME NEW n, NEW s, Set(o, [r EXCEPT !.todo = @ \ {n}, !.seen = @ \cup {s}])
        PROVE  proc'[o].pc = r.pc
        BY <1>1, <1>2, <2>1 DEF MainThread
  <2> QED BY <1>3, <1>12, <2>1 DEF Inspect, Raise, Where, Retries
<1>13. CASE Decide(o)
  <2>1. ASSUME NEW S, Set(o, [r EXCEPT !.pc = "stage", !.phase = "post", !.todo = S])
        PROVE  proc'[o].pc = "stage"
        BY <1>1, <1>2, <2>1 DEF MainThread
  <2>2. proc'[o].pc \in {"unwind", "stage", "top"}
        BY <1>3, <1>13, <2>1 DEF Decide, Raise
  <2> QED BY <2>2 DEF Where, Retries
<1>14. CASE HeartbeatFails(o)
  <2>1. proc'[o].pc = r.pc /\ proc'[o].ret = r.ret /\ proc'[o].todo = r.todo
        BY <1>1, <1>2, <1>14 DEF HeartbeatFails, MainThread
  <2> QED BY <2>1 DEF Where
<1> QED BY <1>5, <1>6, <1>7, <1>8, <1>9, <1>10, <1>11, <1>12, <1>13, <1>14 DEF MainLocal

\* Futures that are done stay done until they are taken.
LEMMA ReapStep ==
  ASSUME ShapeInv, ReapInv, [Next]_vars
  PROVE  ReapInv'
<1> SUFFICES ASSUME NEW o \in Owner, Where(o)' = "reap", NEW n \in GenNode, n \in proc'[o].todo
             PROVE  W(o, n)'.pc \in Finished
    BY DEF ReapInv
<1>1. ASSUME Where(o) = "reap", n \in proc[o].todo, W(o, n)' = W(o, n) PROVE W(o, n)'.pc \in Finished
      BY <1>1 DEF ReapInv
<1>2. ASSUME NEW q \in Owner, NEW m \in GenNode, WorkerStep(q, m) PROVE W(o, n)'.pc \in Finished
  <2>1. Moves(q, m) /\ proc' = proc
        BY <1>2, WorkerEffects DEF ShapeInv
  <2>2. Where(o) = "reap" /\ n \in proc[o].todo
        BY <2>1 DEF Where
  <2>3. W(o, n).pc \in Finished
        BY <2>2 DEF ReapInv
  <2>4. q # o \/ m # n
        BY <1>2, <2>3, StepsAtWork DEF AtWork
  <2> QED BY <1>1, <2>1, <2>2, <2>4 DEF Moves, W
<1>3. ASSUME NEW q \in Owner, MainLocal(q) PROVE W(o, n)'.pc \in Finished
  <2>1. worker' = worker /\ \A k \in Owner \ {q} : proc'[k] = proc[k]
        BY <1>3, MainEffects DEF MainMove, NoWorkers
  <2>2. CASE q = o
        BY <1>1, <1>3, <2>1, <2>2, ReapTodo DEF Done, W
  <2>3. CASE q # o
        BY <1>1, <2>1, <2>3 DEF Where, W
  <2> QED BY <2>2, <2>3
<1>4. ASSUME NEW q \in Owner, NEW pc \in Ended, EndProcess(q, pc) PROVE W(o, n)'.pc \in Finished
      BY <1>1, <1>4, EndEffects DEF Where, W, Ended, Retries
<1>5. ASSUME NEW q \in Owner, Reap(q) PROVE W(o, n)'.pc \in Finished
  <2>1. PICK m \in GenNode :
           /\ Moves(q, m)
           /\ \A k \in Owner \ {q} : proc'[k] = proc[k]
           /\ proc[q].pc = "reap"
           /\ \/ proc'[q].pc = "unwind"
              \/ proc'[q].pc = "reap" /\ proc'[q].todo = proc[q].todo \ {m}
              \/ /\ proc'[q].pc = "retry" /\ proc'[q].todo = proc[q].todo \ {m}
                 /\ proc'[q].ret = "reap"
        BY <1>5, ReapEffects
  <2> QED BY <1>1, <2>1 DEF Where, Retries, Moves, W
<1>6. ASSUME NEW q \in Owner, ClaimNode(q) PROVE W(o, n)'.pc \in Finished
  <2>1. PICK m \in GenNode :
           /\ proc[q].pc = "claim"
           /\ \/ Moves(q, m) /\ proc' = proc
              \/ MainMove(q) /\ proc'[q].pc = "unwind"
        BY <1>6, ClaimNodeEffects
  <2>2. CASE Moves(q, m) /\ proc' = proc
        BY <1>1, <2>1, <2>2 DEF Where, Retries, Moves, W
  <2>3. CASE MainMove(q) /\ proc'[q].pc = "unwind"
        BY <1>1, <2>1, <2>3 DEF Where, Retries, MainMove, NoWorkers, W
  <2> QED BY <2>1, <2>2, <2>3
<1>7. ASSUME NEW q \in Owner, NEW m \in GenNode, CancelFuture(q, m) PROVE W(o, n)'.pc \in Finished
      BY <1>1, <1>7, CancelFutureEffects DEF Where, Retries, Moves, W
<1>8. ASSUME NEW q \in Owner, NEW p \in Plans, OpenRun(q, p) PROVE W(o, n)'.pc \in Finished
      BY <1>1, <1>8, OpenEffects DEF Where, Retries, NoWorkers, W
<1>9. CASE UNCHANGED vars \/ WorkCancelRun \/ WorkResumeRun \/ \E m \in Node : LeaseEnds(m)
      BY <1>1, <1>9 DEF vars, WorkCancelRun, WorkResumeRun, LeaseEnds, Where, W
<1> QED BY <1>2, <1>3, <1>4, <1>5, <1>6, <1>7, <1>8, <1>9, NextSteps

\* No process becomes new again, and none comes back from its unwinding.
LEMMA NeverBack ==
  ASSUME ShapeInv, [Next]_vars
  PROVE  \A q \in Owner : /\ proc'[q].pc = "new" => proc[q].pc = "new"
                          /\ proc[q].pc = "unwind" => proc'[q].pc \in Ended \cup {"unwind"}
<1> SUFFICES ASSUME NEW q \in Owner
             PROVE  /\ proc'[q].pc = "new" => proc[q].pc = "new"
                    /\ proc[q].pc = "unwind" => proc'[q].pc \in Ended \cup {"unwind"}
    OBVIOUS
<1>1. CASE proc'[q] = proc[q]
      BY <1>1
<1>2. ASSUME NEW o \in Owner, MainMove(o) PROVE q # o => proc'[q] = proc[q]
      BY <1>2 DEF MainMove
<1>3. ASSUME MainMove(q) PROVE proc'[q].pc # "new" /\ proc[q].pc # "unwind"
      BY <1>3 DEF MainMove, Alive
<1>4. ASSUME NEW o \in Owner, MainLocal(o) PROVE MainMove(o)
      BY <1>4, MainEffects
<1>5. ASSUME NEW o \in Owner, ClaimNode(o) PROVE MainMove(o) \/ proc' = proc
      BY <1>5, ClaimNodeEffects
<1>6. ASSUME NEW o \in Owner, NEW p \in Plans, OpenRun(o, p)
      PROVE  /\ proc'[q].pc = "new" => proc[q].pc = "new"
             /\ proc[q].pc = "unwind" => proc'[q].pc \in Ended \cup {"unwind"}
      BY <1>1, <1>6, OpenEffects
<1>7. ASSUME NEW o \in Owner, NEW pc \in Ended, EndProcess(o, pc)
      PROVE  /\ proc'[q].pc = "new" => proc[q].pc = "new"
             /\ proc[q].pc = "unwind" => proc'[q].pc \in Ended \cup {"unwind"}
      BY <1>1, <1>7, EndEffects DEF Ended
<1>8. ASSUME NEW o \in Owner, Reap(o)
      PROVE  /\ proc'[q].pc = "new" => proc[q].pc = "new"
             /\ proc[q].pc = "unwind" => proc'[q].pc \in Ended \cup {"unwind"}
  <2>1. /\ proc[o].pc = "reap" /\ proc'[o].pc \in {"unwind", "reap", "retry"}
        /\ q # o => proc'[q] = proc[q]
        BY <1>8, ReapEffects
  <2> QED BY <1>1, <2>1
<1>9. ASSUME NEW o \in Owner, NEW n \in GenNode, CancelFuture(o, n) \/ WorkerStep(o, n)
      PROVE  proc' = proc
      BY <1>9, CancelFutureEffects, WorkerEffects DEF ShapeInv
<1>10. CASE UNCHANGED vars \/ WorkCancelRun \/ WorkResumeRun \/ \E m \in Node : LeaseEnds(m)
       BY <1>1, <1>10 DEF vars, WorkCancelRun, WorkResumeRun, LeaseEnds
<1> QED BY <1>1, <1>2, <1>3, <1>4, <1>5, <1>6, <1>7, <1>8, <1>9, <1>10, NextSteps

\* A future is dropped when it is done, or by a process that leaves its loop.
LEMMA Dropped ==
  ASSUME ShapeInv, ReapInv, [Next]_vars, NEW o \in Owner, NEW n \in GenNode,
         AtWork(o, n), W(o, n)'.pc = "none"
  PROVE  proc[o].pc = "unwind" \/ ~Alive(o)'
<1>0. W(o, n).pc # "none" /\ W(o, n).pc \notin Finished
      BY DEF AtWork
<1>1. ASSUME W(o, n)' = W(o, n) PROVE FALSE
      BY <1>0, <1>1
<1>2. ASSUME NEW q \in Owner, NEW m \in GenNode, WorkerStep(q, m) PROVE FALSE
  <2>1. Moves(q, m)
        BY <1>2, WorkerEffects DEF ShapeInv
  <2>2. q = o /\ m = n
        BY <1>1, <2>1 DEF Moves, W
  <2>3. WorkerReading(o, n) => W(o, n)'.pc # "none"
        BY DEF WorkerReading, Goes, Finished
  <2>4. WorkerWriting(o, n) => W(o, n)'.pc # "none"
        BY DEF WorkerWriting, Goes, Finished
  <2> QED BY <1>2, <2>2, <2>3, <2>4, WorkerEffects DEF ShapeInv, Goes
<1>3. ASSUME worker' = worker PROVE FALSE
      BY <1>1, <1>3 DEF W
<1>4. ASSUME NEW q \in Owner, MainMove(q) PROVE FALSE
      BY <1>3, <1>4 DEF MainMove, NoWorkers
<1>5. ASSUME NEW q \in Owner, ClaimNode(q) PROVE FALSE
  <2>1. PICK m \in GenNode : (Moves(q, m) /\ W(q, m)'.pc = "queued") \/ MainMove(q)
        BY <1>5, ClaimNodeEffects
  <2> QED BY <1>1, <1>4, <2>1 DEF Moves, W
<1>6. ASSUME NEW q \in Owner, NEW pc \in Ended, EndProcess(q, pc) PROVE ~Alive(o)'
  <2>1. CASE q = o
        BY <1>6, <2>1, EndEffects DEF Alive
  <2>2. CASE q # o
        BY <1>1, <1>6, <2>2, EndEffects DEF W
  <2> QED BY <2>1, <2>2
<1>7. ASSUME NEW q \in Owner, Reap(q) PROVE FALSE
  <2>1. PICK m \in GenNode : Moves(q, m) /\ proc[q].pc = "reap" /\ m \in proc[q].todo
        BY <1>7, ReapEffects
  <2>2. q = o /\ m = n
        BY <1>1, <2>1 DEF Moves, W
  <2> QED BY <1>0, <2>1, <2>2 DEF ReapInv, Where, Retries
<1>8. ASSUME NEW q \in Owner, NEW m \in GenNode, CancelFuture(q, m) PROVE proc[o].pc = "unwind"
  <2>1. Moves(q, m) /\ proc[q].pc = "unwind"
        BY <1>8, CancelFutureEffects
  <2> QED BY <1>1, <2>1 DEF Moves, W
<1>9. ASSUME NEW q \in Owner, NEW p \in Plans, OpenRun(q, p) PROVE FALSE
      BY <1>3, <1>9 DEF OpenRun, NoWorkers
<1>10. CASE UNCHANGED vars \/ WorkCancelRun \/ WorkResumeRun \/ \E m \in Node : LeaseEnds(m)
       BY <1>3, <1>10 DEF vars, WorkCancelRun, WorkResumeRun, LeaseEnds
<1> QED BY <1>2, <1>4, <1>5, <1>6, <1>7, <1>8, <1>9, <1>10, NextSteps, MainEffects

\* Opening the run concerns no row that runs.
LEMMA ServedOpened ==
  ASSUME ShapeInv, OneExecutor, Served, NEW o \in Owner, NEW p \in Plans, OpenRun(o, p)
  PROVE  Served'
<1> SUFFICES ASSUME NEW q \in Owner, NEW n \in GenNode, task'[n].state = "running",
                    task'[n].owner = q
             PROVE  proc'[q].pc # "new" /\ ~Alive(q)'
    BY DEF Served, Running
<1>1. /\ proc[o].pc = "new" /\ \A k \in Owner \ {o} : proc'[k] = proc[k]
      /\ \A k \in Owner : ~Alive(k)
      /\ SyncPlan(p)
      BY OpenEffects
<1>2. LedgerTypeOK /\ n \in Node
      BY NodeAssumption DEF ShapeInv, TypeOK
<1>3. task[n].state = "running" /\ task[n].owner = q
      BY <1>1, <1>2, OpenedRows
<1>4. proc[q].pc # "new"
      BY <1>3 DEF Served, Running
<1> QED BY <1>1, <1>4 DEF Alive

\* The granted row is the one that is dispatched.
LEMMA GrantDispatched ==
  ASSUME ShapeInv, NEW o \in Owner, NEW n \in GenNode, ClaimNode(o), ClaimOrchestratorReady(o, n)
  PROVE  /\ proc'[o].pc # "new" /\ task'[n].state = "running" /\ task'[n].owner = o
         /\ W(o, n)'.pc = "queued" \/ proc'[o].pc = "unwind"
<1>0. LedgerTypeOK /\ n \in Node
      BY NodeAssumption DEF ShapeInv, TypeOK
<1>1. PICK g \in GenNode :
         /\ ClaimOrchestratorReady(o, g)
         /\ proc[o].pc = "claim"
         /\ \/ W(o, g)'.pc = "queued" /\ proc' = proc
            \/ MainMove(o) /\ proc'[o].pc = "unwind"
      BY ClaimNodeEffects
<1>2. task'[n].state = "running" /\ task'[n].owner = o
      BY <1>0, GrantedRow
<1>3. g = n
  <2> SUFFICES ASSUME g # n PROVE FALSE
      OBVIOUS
  <2>1. task'[n] = Expired({o})[n]
        BY <1>0, <1>1, NodeAssumption, GrantedRows
  <2>2. Expired({o})[n].state = "pending"
        BY DEF ClaimOrchestratorReady, Ready
  <2> QED BY <1>2, <2>1, <2>2
<1> QED BY <1>1, <1>2, <1>3

\* Rows that run are served.
LEMMA ServedStep ==
  ASSUME ShapeInv, Solo, ~MayDrift, ReapInv, CalmWorkers, Served, ~cancelled, [Next]_vars,
         cancels = 0, cancels' = 0, ~\E o \in Owner : \E p \in Plans : OpenRun(o, p)
  PROVE  Served'
<1> SUFFICES ASSUME NEW o \in Owner, NEW n \in GenNode, task'[n].state = "running",
                    task'[n].owner = o
             PROVE  /\ proc'[o].pc # "new"
                    /\ Alive(o)' /\ proc'[o].pc # "unwind" => AtWork(o, n)'
    BY DEF Served, Running
<1>0. RowMove(n) /\ WorkerMove(o, n)
      BY NodeAssumption, RowMoves, WorkerMoves
<1>1. CASE RowKept(n)
  <2>1. /\ proc[o].pc # "new"
        /\ Alive(o) /\ proc[o].pc # "unwind" => AtWork(o, n)
        BY <1>1 DEF RowKept, Served, Running
  <2>2. ASSUME Alive(o)', proc'[o].pc # "unwind" PROVE AtWork(o, n)'
    <3>1. AtWork(o, n) /\ proc[o].pc # "unwind"
      <4>1. Alive(o) /\ proc[o].pc # "unwind"
            BY <2>2, PlanStays, NeverBack DEF Alive
      <4> QED BY <2>1, <4>1
    <3>2. W(o, n)'.pc # "none"
          BY <2>2, <3>1, Dropped
    <3>3. CASE W(o, n)' = W(o, n)
          BY <3>1, <3>3 DEF AtWork
    <3>4. CASE WorkerStep(o, n)
      <4>1. W(o, n)'.pc \in CalmPC
            BY <3>4, CalmWorkerStep
      <4> QED BY <4>1 DEF AtWork, CalmPC, Finished
    <3> QED BY <1>0, <3>1, <3>2, <3>3, <3>4 DEF WorkerMove, NoWorker, Goes, AtWork
  <2> QED BY <2>1, <2>2, NeverBack
<1>2. CASE RowGranted(n)
  <2>1. ASSUME NEW q \in Owner, Goes(q, n, "begin", {"read"}) PROVE FALSE
        BY <2>1 DEF CalmWorkers, AtWork, Finished, Goes, CalmPC
  <2>2. PICK q \in Owner : ClaimNode(q) /\ ClaimOrchestratorReady(q, n)
        BY <1>2, <2>1 DEF RowGranted
  <2>3. q = o
        BY <2>2, GrantDispatched
  <2> QED BY <2>2, <2>3, GrantDispatched DEF AtWork, Finished
<1> QED BY <1>0, <1>1, <1>2 DEF RowMove, RowPublished, RowReleased, RowResumed, RowInvalidated

\* The invariant holds initially and always.
LEMMA ServedInvariant == OneExecutor => (Spec => []ServedInv)
<1> SUFFICES ASSUME OneExecutor PROVE Spec => []ServedInv
    OBVIOUS
<1>1. ASSUME Init PROVE ServedInv
  <2>1. \A o \in Owner : proc[o].pc = "new"
        BY <1>1 DEF Init, Process
  <2>2. \A n \in Node : task[n].state = "absent"
        BY <1>1 DEF Init, LedgerInit, NoRow
  <2> QED BY <2>1, <2>2, NodeAssumption DEF ServedInv, ReapInv, Where, Retries, Served, Running
<1>2. ASSUME ExecInv, CalmInv, ServedInv, [Next]_vars PROVE ServedInv'
  <2>0. ShapeInv /\ Solo /\ ReapInv
        BY <1>2 DEF ExecInv, ServedInv
  <2>1. ReapInv'
        BY <1>2, <2>0, ReapStep
  <2>2. ASSUME cancels' = 0, ~MayDrift PROVE Served'
    <3>1. cancels = 0
          BY <1>2, <2>0, <2>2, StaysCalm
    <3>2. CalmWorkers /\ Served /\ ~cancelled
          BY <1>2, <2>2, <3>1 DEF CalmInv, ServedInv
    <3>3. ASSUME NEW o \in Owner, NEW p \in Plans, OpenRun(o, p) PROVE Served'
          BY <2>0, <3>2, <3>3, ServedOpened
    <3>4. CASE ~\E o \in Owner : \E p \in Plans : OpenRun(o, p)
          BY <1>2, <2>0, <2>2, <3>1, <3>2, <3>4, ServedStep
    <3> QED BY <3>3, <3>4
  <2> QED BY <2>1, <2>2 DEF ServedInv
<1>3. ExecInv /\ CalmInv /\ ServedInv /\ [Next]_vars => ServedInv'
      BY <1>2
<1> QED BY <1>1, <1>3, ExecInvariant, CalmInvariant, PTL DEF Spec

\* While one process at a time executes the run, process_node's own checks
\* hold, and until the operator first cancels it, every row claimed by a
\* scheduler that is still looping has a future in that scheduler: no failure,
\* lapsed lease, crash or restart leaves a claim the heartbeat would renew for
\* ever (claim_orchestrator_ready and the dispatch of complete_orchestrator).
THEOREM ClaimsServed ==
  OneExecutor /\ ~MayDrift => (Spec => [](cancels = 0 => NoLostClaim))
<1> SUFFICES ASSUME OneExecutor, ~MayDrift PROVE Spec => [](cancels = 0 => NoLostClaim)
    OBVIOUS
<1>1. ServedInv => (cancels = 0 => NoLostClaim)
      BY DEF ServedInv, Served, NoLostClaim, AtWork, Futures, W
<1> QED BY <1>1, ServedInvariant, PTL
===============================================================================
