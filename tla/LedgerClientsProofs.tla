------------------------- MODULE LedgerClientsProofs -------------------------
(***************************************************************************)
(* Proofs about the ledger under general clients, for every set of nodes,  *)
(* plans, owners and hashes and every bound.                               *)
(***************************************************************************)
EXTENDS LedgerClients, WorkLedgerProofs

\* No step of any client leaves the declared types.
LEMMA TypeStep == TypeOK /\ [Next]_vars => TypeOK'
  <1> SUFFICES ASSUME TypeOK, [Next]_vars
               PROVE  TypeOK'
    OBVIOUS
  <1> USE DEF TypeOK, LedgerTypeOK
  <1>a. \A m \in Node :
          \A s \in {"pending", "failed", "input_required", "cancelled"} :
            Released(task[m], s) \in Row
    BY RowTypes DEF WorkState
  <1>1. ASSUME NEW p \in Plans, ClientSync(p)
        PROVE  TypeOK'
    <2>1. PlanEdges(p) \in [Node -> SUBSET Node]
      BY PlanAssumption DEF PlanEdges, Plan
    <2> QED
      BY <1>1, <2>1, SyncedRowType DEF ClientSync, SyncPlan, Local
  <1>2. ASSUME NEW n \in Node, ClientClaim(n)
        PROVE  TypeOK'
    <2>1. ASSUME NEW o \in Owner, ClaimOrchestratorReady(o, n), Local
          PROVE  TypeOK'
      <3> DEFINE t == Expired({o})
      <3>1. t \in [Node -> Row]
        BY ExpiredType
      <3>2. Granted(t[n], o, "held") \in Row
        BY <3>1, RowTypes DEF Lease
      <3> QED
        BY <2>1, <3>1, <3>2 DEF ClaimOrchestratorReady, Local
    <2>2. ASSUME ClaimReady(LocalOwner, n), Local
          PROVE  TypeOK'
      <3> DEFINE t == Expired({})
      <3>1. t \in [Node -> Row]
        BY ExpiredType
      <3>2. Granted(t[n], LocalOwner, "held") \in Row
        BY <3>1, RowTypes DEF Lease
      <3> QED
        BY <2>2, <3>1, <3>2 DEF ClaimReady, Local
    <2> QED
      BY <1>2, <2>1, <2>2 DEF ClientClaim
  <1>3. CASE ClientPoll
    BY <1>3, ExpiredType DEF ClientPoll, ClaimOrchestratorNone, Local
  <1>4. CASE ClientHeartbeat
    BY <1>4 DEF ClientHeartbeat, RenewOrchestratorClaims, Local, ledger
  <1>5. ASSUME NEW n \in Node, ClientBegin(n)
        PROVE  TypeOK'
    <2>1. Granted(task[n], LocalOwner, "none") \in Row
      BY RowTypes DEF Lease
    <2> QED
      BY <1>5, <2>1 DEF ClientBegin, Begin, SetRow, Local
  <1>6. ASSUME NEW n \in Node, Snapshot(n)
        PROVE  TypeOK'
    <2>1. ClaimOf(n) \in Claim
      BY DEF ClaimOf, Claim, Row
    <2> QED
      BY <1>6, <2>1 DEF Snapshot, ledger
  <1>7. ASSUME NEW n \in Node, NEW h \in Hash, ClientSucceed(n, h)
        PROVE  TypeOK'
    BY <1>7, RowTypes DEF ClientSucceed, Succeed, SetRow, Local
  <1>8. ASSUME NEW n \in Node, ClientFail(n)
        PROVE  TypeOK'
    BY <1>8, <1>a DEF ClientFail, Fail, SetRow, Local
  <1>9. ASSUME NEW n \in Node, RetrySelect(n)
        PROVE  TypeOK'
    BY <1>9 DEF RetrySelect, ledger
  <1>10. ASSUME NEW n \in Node, RetryWrite(n)
         PROVE  TypeOK'
    BY <1>10, <1>a DEF RetryWrite, RetryUpdate, SetRow
  <1>11. ASSUME NEW n \in Node, ClientCancel(n)
         PROVE  TypeOK'
    BY <1>11, <1>a DEF ClientCancel, Cancel, SetRow, Local
  <1>12. CASE ClientCancelRun
    BY <1>12, <1>a DEF ClientCancelRun, CancelRun, Local
  <1>13. CASE ClientResumeRun
    <2>1. \A n \in Node : [task[n] EXCEPT !.state = "pending"] \in Row
      BY RowTypes DEF WorkState
    <2> QED
      BY <1>13, <2>1 DEF ClientResumeRun, ResumeRun, Local
  <1>14. ASSUME NEW n \in Node, ClientInvalidate(n)
         PROVE  TypeOK'
    <2>1. \A m \in Node : Invalidated(task[m]) \in Row
      BY RowTypes
    <2> QED
      BY <1>14, <2>1 DEF ClientInvalidate, Invalidate, Local
  <1>15. ASSUME NEW n \in Node, Tick(n)
         PROVE  TypeOK'
    BY <1>15, RowTypes DEF Tick, Lapse, SetRow, Local
  <1>16. ASSUME NEW c \in claims, NEW h \in Hash, ClientCommit(c, h)
         PROVE  TypeOK'
    BY <1>16, RowTypes DEF ClientCommit, CommitSuccess, SetRow, Local, Claim
  <1>17. ASSUME NEW c \in claims, ClientFencedFail(c)
         PROVE  TypeOK'
    <2>1. c.node \in Node
      BY DEF Claim
    <2> QED
      BY <1>17, <1>a, <2>1 DEF ClientFencedFail, FencedFail, SetRow, Local
  <1>18. CASE Depart
    BY <1>18 DEF Depart, ledger
  <1>19. CASE UNCHANGED vars
    BY <1>19 DEF vars
  <1> QED
    BY <1>1, <1>2, <1>3, <1>4, <1>5, <1>6, <1>7, <1>8, <1>9, <1>10, <1>11,
       <1>12, <1>13, <1>14, <1>15, <1>16, <1>17, <1>18, <1>19 DEF Next

-----------------------------------------------------------------------------
(* What one step of any client can do to one row.                          *)

\* Only a running row has an owner.
OwnerInv == \A n \in Node : task[n].owner # Null <=> task[n].state = "running"

SameIdentity(r, s) == s.attempt = r.attempt /\ s.born = r.born

\* The columns that matter are as before (time may have passed).
Kept(r, s) ==
  /\ SameIdentity(r, s)
  /\ s.state = r.state /\ s.owner = r.owner /\ s.hash = r.hash /\ s.receipt = r.receipt

GrantStep(r, s) ==
  /\ r.state \notin {"absent", "succeeded"}
  /\ s.state = "running" /\ s.owner # Null
  /\ s.attempt = r.attempt + 1 /\ s.born = r.born
  /\ s.hash = r.hash /\ s.receipt = r.receipt

PublishStep(r, s) ==
  /\ SameIdentity(r, s)
  /\ r.state = "running" /\ s.state = "succeeded"
  /\ s.owner = Null /\ s.receipt # Null /\ s.hash = r.hash

ReleaseStep(r, s) ==
  /\ SameIdentity(r, s)
  /\ r.state # "absent"
  /\ s.state \in {"pending", "failed", "input_required", "cancelled"}
  /\ s.owner = Null /\ s.hash = r.hash /\ s.receipt = r.receipt

InvalidateStep(r, s) ==
  /\ SameIdentity(r, s)
  /\ r.state # "absent" /\ s.state = "pending"
  /\ s.owner = Null /\ s.receipt = Null /\ s.hash = r.hash

\* The steps every transaction but sync_plan is made of.
LocalRowStep(r, s) ==
  \/ Kept(r, s) \/ GrantStep(r, s) \/ PublishStep(r, s) \/ ReleaseStep(r, s)
  \/ InvalidateStep(r, s)

ResyncStep(r, s) ==
  /\ SameIdentity(r, s)
  /\ r.state # "absent" /\ s.state = "pending"
  /\ s.owner = Null /\ s.receipt = Null

InsertStep(r, s) ==
  /\ r.state = "absent" /\ s.state = "pending"
  /\ s.born = r.born + 1 /\ s.owner = Null /\ s.receipt = Null

DeleteStep(r, s) ==
  /\ s.state = "absent"
  /\ s.born = r.born /\ s.owner = Null /\ s.receipt = Null

RowStep(r, s) ==
  LocalRowStep(r, s) \/ ResyncStep(r, s) \/ InsertStep(r, s) \/ DeleteStep(r, s)

\* A row that stays takes a permitted step.
LEMMA KeptRows ==
  ASSUME TypeOK, task' = task
  PROVE  \A m \in Node : LocalRowStep(task[m], task'[m])
  BY DEF LocalRowStep, Kept, SameIdentity

\* A transaction that writes one row moves all rows as LocalRowStep allows when
\* it moves that one so.
LEMMA OneRow ==
  ASSUME TypeOK, NEW n \in Node, NEW r, SetRow(n, r), LocalRowStep(task[n], r)
  PROVE  \A m \in Node : LocalRowStep(task[m], task'[m])
  <1> SUFFICES ASSUME NEW m \in Node
               PROVE  LocalRowStep(task[m], task'[m])
    OBVIOUS
  <1>1. CASE m = n
    BY <1>1 DEF SetRow, TypeOK, LedgerTypeOK
  <1>2. CASE m # n
    <2>1. task'[m] = task[m]
      BY <1>2 DEF SetRow, TypeOK, LedgerTypeOK
    <2> QED
      BY <2>1 DEF LocalRowStep, Kept, SameIdentity
  <1> QED
    BY <1>1, <1>2

\* So does one that is released,
LEMMA ReleasedStep ==
  ASSUME NEW r \in Row, r.state # "absent",
         NEW s \in {"pending", "failed", "input_required", "cancelled"}
  PROVE  LocalRowStep(r, Released(r, s))
  BY RowValues DEF LocalRowStep, ReleaseStep, SameIdentity

\* one that is granted,
LEMMA GrantedStep ==
  ASSUME NEW r \in Row, r.state \notin {"absent", "succeeded"},
         NEW w \in Owner \cup {LocalOwner}, NEW l
  PROVE  LocalRowStep(r, Granted(r, w, l))
  <1>1. w # Null
    BY OwnerAssumption
  <1> QED
    BY <1>1, RowValues DEF LocalRowStep, GrantStep

\* and one that is published.
LEMMA PublishedStep ==
  ASSUME NEW r \in Row, r.state = "running", NEW h \in Hash
  PROVE  LocalRowStep(r, Published(r, h))
  <1>1. h # Null
    BY OwnerAssumption
  <1> QED
    BY <1>1, RowValues DEF LocalRowStep, PublishStep, SameIdentity

\* What Expired does to one row.
LEMMA ExpiredRow ==
  ASSUME TypeOK, NEW keep, NEW n \in Node
  PROVE  /\ Expired(keep)[n] \in Row
         /\ LocalRowStep(task[n], Expired(keep)[n])
         /\ Expired(keep)[n].state = "succeeded" <=> task[n].state = "succeeded"
         /\ Expired(keep)[n].state = "absent" <=> task[n].state = "absent"
         /\ Expired(keep)[n].state = "running" => task[n].state = "running"
         /\ Expired(keep)[n].attempt = task[n].attempt
         /\ Expired(keep)[n].born = task[n].born
         /\ Expired(keep)[n].hash = task[n].hash
         /\ Expired(keep)[n].receipt = task[n].receipt
  <1>1. task[n] \in Row
    BY DEF TypeOK, LedgerTypeOK
  <1>2. Expired(keep)[n] = task[n]
        \/ (task[n].state = "running" /\ Expired(keep)[n] = Released(task[n], "pending"))
    BY DEF Expired
  <1>3. CASE Expired(keep)[n] = task[n]
    BY <1>1, <1>3 DEF LocalRowStep, Kept, SameIdentity
  <1>4. CASE task[n].state = "running" /\ Expired(keep)[n] = Released(task[n], "pending")
    <2>1. Released(task[n], "pending") \in Row
      BY <1>1, RowTypes DEF WorkState
    <2>2. LocalRowStep(task[n], Released(task[n], "pending"))
      BY <1>1, <1>4, ReleasedStep
    <2> QED
      BY <1>1, <1>4, <2>1, <2>2, RowValues
  <1> QED
    BY <1>2, <1>3, <1>4

\* A claim: lapsed leases expire and one ready row is granted.
LEMMA GrantRows ==
  ASSUME TypeOK, NEW keep, NEW n \in Node, NEW w \in Owner \cup {LocalOwner},
         Expired(keep)[n].state = "pending",
         task' = [Expired(keep) EXCEPT ![n] = Granted(@, w, "held")]
  PROVE  \A m \in Node : LocalRowStep(task[m], task'[m])
  <1> DEFINE t == Expired(keep)
  <1>1. t \in [Node -> Row]
    BY ExpiredType DEF TypeOK, LedgerTypeOK
  <1>2. ASSUME NEW m \in Node, m # n
        PROVE  LocalRowStep(task[m], task'[m])
    <2>1. task'[m] = t[m]
      BY <1>1, <1>2
    <2> QED
      BY <2>1, ExpiredRow
  <1>3. LocalRowStep(task[n], task'[n])
    <2>1. task'[n] = Granted(t[n], w, "held")
      BY <1>1
    <2>2. /\ task'[n].state = "running" /\ task'[n].owner # Null
          /\ task'[n].attempt = t[n].attempt + 1 /\ task'[n].born = t[n].born
          /\ task'[n].hash = t[n].hash /\ task'[n].receipt = t[n].receipt
      BY <1>1, <2>1, RowValues, OwnerAssumption
    <2>3. task[n].state \notin {"absent", "succeeded"}
      BY ExpiredRow
    <2> QED
      BY <2>2, <2>3, ExpiredRow DEF LocalRowStep, GrantStep
  <1> QED
    BY <1>2, <1>3

\* Synchronising a plan takes permitted steps, or starts a row afresh.
LEMMA SyncRows ==
  ASSUME TypeOK, NEW p \in Plans, SyncPlan(p)
  PROVE  \A m \in Node : RowStep(task[m], task'[m])
  <1> SUFFICES ASSUME NEW m \in Node
               PROVE  RowStep(task[m], task'[m])
    OBVIOUS
  <1>1. task[m] \in Row /\ task'[m] = SyncedRow(p, m)
    BY DEF TypeOK, LedgerTypeOK, SyncPlan
  <1>2. CASE m \notin p.nodes
    BY <1>1, <1>2, RowValues DEF SyncedRow, RowStep, DeleteStep
  <1>3. CASE m \in p.nodes /\ ~Present(m)
    BY <1>1, <1>3, RowValues DEF SyncedRow, Present, RowStep, InsertStep
  <1>4. CASE m \in p.nodes /\ Present(m) /\ m \in Downstream(Changed(p), PlanEdges(p))
    <2>1. task'[m] = [Invalidated(task[m]) EXCEPT !.hash = p.hash[m]]
      BY <1>1, <1>4 DEF SyncedRow
    <2>2. Invalidated(task[m]) \in Row
      BY <1>1, RowTypes
    <2>3. /\ task'[m].state = "pending" /\ task'[m].owner = Null
          /\ task'[m].receipt = Null /\ task'[m].attempt = task[m].attempt
          /\ task'[m].born = task[m].born
      BY <1>1, <2>1, <2>2, RowValues DEF Row
    <2> QED
      BY <1>4, <2>3 DEF RowStep, ResyncStep, SameIdentity, Present
  <1>5. CASE m \in p.nodes /\ Present(m) /\ m \notin Downstream(Changed(p), PlanEdges(p))
    <2>1. task'[m] = [task[m] EXCEPT !.hash = p.hash[m]]
      BY <1>1, <1>5 DEF SyncedRow
    <2>2. Changed(p) \subseteq Downstream(Changed(p), PlanEdges(p))
      BY PlanAssumption DEF Downstream, Changed, Plan
    <2>3. task[m].hash = p.hash[m]
      BY <1>5, <2>2 DEF Changed
    <2>4. Kept(task[m], task'[m])
      BY <1>1, <2>1, <2>3 DEF Kept, SameIdentity, Row
    <2> QED
      BY <2>4 DEF RowStep, LocalRowStep
  <1> QED
    BY <1>2, <1>3, <1>4, <1>5

\* Every step but sync_plan moves every row by a LocalRowStep.
LEMMA LocalRowSteps ==
  ASSUME TypeOK, OwnerInv, [Next]_vars, ~\E p \in Plans : ClientSync(p)
  PROVE  \A m \in Node : LocalRowStep(task[m], task'[m])
  <1> DEFINE Goal == \A m \in Node : LocalRowStep(task[m], task'[m])
  <1>a. \A m \in Node : task[m] \in Row
    BY DEF TypeOK, LedgerTypeOK
  <1>2. ASSUME NEW n \in Node, ClientClaim(n)
        PROVE  Goal
    <2>1. ASSUME NEW o \in Owner, ClaimOrchestratorReady(o, n)
          PROVE  Goal
      <3>1. Expired({o})[n].state = "pending"
        BY <2>1 DEF ClaimOrchestratorReady, Ready
      <3>2. task' = [Expired({o}) EXCEPT ![n] = Granted(@, o, "held")]
        BY <2>1 DEF ClaimOrchestratorReady
      <3>3. o \in Owner \cup {LocalOwner}
        OBVIOUS
      <3> QED
        BY <3>1, <3>2, <3>3, GrantRows
    <2>2. ASSUME ClaimReady(LocalOwner, n)
          PROVE  Goal
      <3>1. Expired({})[n].state = "pending"
        BY <2>2 DEF ClaimReady
      <3>2. task' = [Expired({}) EXCEPT ![n] = Granted(@, LocalOwner, "held")]
        BY <2>2 DEF ClaimReady
      <3>3. LocalOwner \in Owner \cup {LocalOwner}
        OBVIOUS
      <3> QED
        BY <3>1, <3>2, <3>3, GrantRows
    <2> QED
      BY <1>2, <2>1, <2>2 DEF ClientClaim
  <1>3. CASE ClientPoll
    <2>1. PICK o \in Owner : task' = Expired({o})
      BY <1>3 DEF ClientPoll, ClaimOrchestratorNone
    <2> QED
      BY <2>1, ExpiredRow
  <1>4. ASSUME NEW n \in Node, ClientBegin(n)
        PROVE  Goal
    <2>1. CASE task' = task
      BY <2>1, KeptRows
    <2>2. CASE /\ Present(n) /\ task[n].state # "succeeded"
               /\ SetRow(n, Granted(task[n], LocalOwner, "none"))
      <3>1. LocalRowStep(task[n], Granted(task[n], LocalOwner, "none"))
        BY <1>a, <2>2, GrantedStep DEF Present
      <3> QED
        BY <2>2, <3>1, OneRow
    <2> QED
      BY <1>4, <2>1, <2>2 DEF ClientBegin, Begin
  <1>5. ASSUME NEW n \in Node, NEW h \in Hash, ClientSucceed(n, h)
        PROVE  Goal
    <2>1. LocalRowStep(task[n], Published(task[n], h))
      BY <1>a, <1>5, PublishedStep DEF ClientSucceed, Succeed, Running
    <2> QED
      BY <1>5, <2>1, OneRow DEF ClientSucceed, Succeed
  <1>6. ASSUME NEW n \in Node, ClientFail(n)
        PROVE  Goal
    <2>1. task[n].state # "absent"
      BY <1>6 DEF ClientFail, Fail, Running
    <2>2. PICK s \in {"failed", "input_required"} : SetRow(n, Released(task[n], s))
      BY <1>6 DEF ClientFail, Fail
    <2>3. LocalRowStep(task[n], Released(task[n], s))
      BY <1>a, <2>1, ReleasedStep
    <2> QED
      BY <2>2, <2>3, OneRow
  <1>7. ASSUME NEW n \in Node, RetryWrite(n)
        PROVE  Goal
    <2>1. CASE task' = task
      BY <2>1, KeptRows
    <2>2. CASE Present(n) /\ SetRow(n, Released(task[n], "pending"))
      <3>1. LocalRowStep(task[n], Released(task[n], "pending"))
        BY <1>a, <2>2, ReleasedStep DEF Present
      <3> QED
        BY <2>2, <3>1, OneRow
    <2> QED
      BY <1>7, <2>1, <2>2 DEF RetryWrite, RetryUpdate
  <1>8. ASSUME NEW n \in Node, ClientCancel(n)
        PROVE  Goal
    <2>1. LocalRowStep(task[n], Released(task[n], "cancelled"))
      BY <1>a, <1>8, ReleasedStep DEF ClientCancel, Cancel, Present
    <2> QED
      BY <1>8, <2>1, OneRow DEF ClientCancel, Cancel
  <1>9. CASE ClientCancelRun
    <2> SUFFICES ASSUME NEW m \in Node
                 PROVE  LocalRowStep(task[m], task'[m])
      OBVIOUS
    <2>1. CASE task[m].state \in {"absent", "succeeded"}
      BY <1>9, <2>1 DEF ClientCancelRun, CancelRun, LocalRowStep, Kept, SameIdentity
    <2>2. CASE task[m].state \notin {"absent", "succeeded"}
      <3>1. task'[m] = Released(task[m], "cancelled")
        BY <1>9, <2>2 DEF ClientCancelRun, CancelRun
      <3> QED
        BY <1>a, <2>2, <3>1, ReleasedStep
    <2> QED
      BY <2>1, <2>2
  <1>10. CASE ClientResumeRun
    <2> SUFFICES ASSUME NEW m \in Node
                 PROVE  LocalRowStep(task[m], task'[m])
      OBVIOUS
    <2>1. CASE task[m].state # "cancelled"
      BY <1>10, <2>1 DEF ClientResumeRun, ResumeRun, LocalRowStep, Kept, SameIdentity
    <2>2. CASE task[m].state = "cancelled"
      <3>1. task'[m] = [task[m] EXCEPT !.state = "pending"]
        BY <1>10, <2>2 DEF ClientResumeRun, ResumeRun
      <3>2. task[m].owner = Null
        BY <2>2 DEF OwnerInv
      <3> QED
        BY <1>a, <2>2, <3>1, <3>2 DEF LocalRowStep, ReleaseStep, SameIdentity, Row
    <2> QED
      BY <2>1, <2>2
  <1>11. ASSUME NEW n \in Node, ClientInvalidate(n)
         PROVE  Goal
    <2> SUFFICES ASSUME NEW m \in Node
                 PROVE  LocalRowStep(task[m], task'[m])
      OBVIOUS
    <2>1. CASE task'[m] = task[m]
      BY <2>1 DEF LocalRowStep, Kept, SameIdentity
    <2>2. CASE task'[m] = Invalidated(task[m]) /\ Present(m)
      BY <1>a, <2>2, RowValues DEF LocalRowStep, InvalidateStep, SameIdentity, Present
    <2> QED
      BY <1>11, <2>1, <2>2 DEF ClientInvalidate, Invalidate
  <1>12. ASSUME NEW n \in Node, Tick(n)
         PROVE  Goal
    <2>1. LocalRowStep(task[n], [task[n] EXCEPT !.lease = "lapsed"])
      BY <1>a DEF LocalRowStep, Kept, SameIdentity, Row
    <2> QED
      BY <1>12, <2>1, OneRow DEF Tick, Lapse
  <1>13. ASSUME NEW c \in claims, NEW h \in Hash, ClientCommit(c, h)
         PROVE  Goal
    <2>1. c.node \in Node
      BY DEF TypeOK, Claim
    <2>2. LocalRowStep(task[c.node], Published(task[c.node], h))
      BY <1>a, <1>13, <2>1, PublishedStep
         DEF ClientCommit, CommitSuccess, ClaimCurrent, Running
    <2> QED
      BY <1>13, <2>1, <2>2, OneRow DEF ClientCommit, CommitSuccess
  <1>14. ASSUME NEW c \in claims, ClientFencedFail(c)
         PROVE  Goal
    <2>1. c.node \in Node
      BY DEF TypeOK, Claim
    <2>2. CASE task' = task
      BY <2>2, KeptRows
    <2>3. CASE /\ ClaimCurrent(c.node, c.attempt, c.owner)
               /\ SetRow(c.node, Released(task[c.node], "failed"))
      <3>1. LocalRowStep(task[c.node], Released(task[c.node], "failed"))
        BY <1>a, <2>1, <2>3, ReleasedStep DEF ClaimCurrent, Running
      <3> QED
        BY <2>1, <2>3, <3>1, OneRow
    <2> QED
      BY <1>14, <2>2, <2>3 DEF ClientFencedFail, FencedFail
  <1>15. CASE \/ ClientHeartbeat
              \/ \E n \in Node : Snapshot(n) \/ RetrySelect(n)
              \/ Depart
              \/ UNCHANGED vars
    <2>1. task' = task
      BY <1>15 DEF ClientHeartbeat, RenewOrchestratorClaims, Snapshot, RetrySelect,
                   Depart, vars, ledger
    <2> QED
      BY <2>1, KeptRows
  <1> QED
    BY <1>2, <1>3, <1>4, <1>5, <1>6, <1>7, <1>8, <1>9, <1>10, <1>11,
       <1>12, <1>13, <1>14, <1>15 DEF Next

\* Every step of every client moves every row by a RowStep.
LEMMA RowSteps ==
  ASSUME TypeOK, OwnerInv, [Next]_vars
  PROVE  \A m \in Node : RowStep(task[m], task'[m])
  <1>1. ASSUME NEW p \in Plans, ClientSync(p)
        PROVE  \A m \in Node : RowStep(task[m], task'[m])
    BY <1>1, SyncRows DEF ClientSync
  <1>2. CASE ~\E p \in Plans : ClientSync(p)
    BY <1>2, LocalRowSteps DEF RowStep
  <1> QED
    BY <1>1, <1>2

-----------------------------------------------------------------------------
(* The fence.                                                              *)

\* A claim never runs ahead of the row it was read from, and a live one still
\* names the row's input.
ClaimInv ==
  \A c \in claims :
    /\ c.born <= task[c.node].born
    /\ c.born = task[c.node].born /\ Present(c.node) => c.attempt <= task[c.node].attempt
    /\ Live(c) => task[c.node].hash = c.hash

FenceInv == TypeOK /\ OwnerInv /\ ClaimInv

\* The fence invariant holds in an empty ledger.
LEMMA FenceInit == Init => FenceInv
  <1> SUFFICES ASSUME Init
               PROVE  FenceInv
    OBVIOUS
  <1>1. \A n \in Node : task[n] = NoRow(0) /\ NoRow(0) \in Row
    BY DEF Init, LedgerInit, NoRow, Row, Lease
  <1>2. TypeOK
    BY <1>1 DEF Init, LedgerInit, TypeOK, LedgerTypeOK
  <1>3. OwnerInv
    BY <1>1 DEF OwnerInv, NoRow
  <1>4. ClaimInv
    BY DEF Init, ClaimInv
  <1> QED
    BY <1>2, <1>3, <1>4 DEF FenceInv

\* One row step cannot make a stale claim current, nor change the input of a
\* row that stays running under the same claim.
LEMMA FenceRow ==
  ASSUME NEW r \in Row, NEW s \in Row, RowStep(r, s), NEW c \in Claim,
         c.born <= r.born,
         c.born = r.born /\ r.state # "absent" => c.attempt <= r.attempt
  PROVE  /\ c.born <= s.born
         /\ c.born = s.born /\ s.state # "absent" => c.attempt <= s.attempt
         /\ s.born = c.born /\ s.state = "running" /\ s.attempt = c.attempt
              => Kept(r, s)
  BY DEF Row, Claim, RowStep, LocalRowStep, ResyncStep, Kept, GrantStep, PublishStep, ReleaseStep, InvalidateStep,
         InsertStep, DeleteStep, SameIdentity

\* The fence invariant is inductive, and a claim that is dead stays dead.
LEMMA FenceStep ==
  ASSUME FenceInv, [Next]_vars
  PROVE  /\ FenceInv'
         /\ \A c \in claims : ~Live(c) => ~Live(c)'
  <1>1. TypeOK'
    BY TypeStep DEF FenceInv
  <1>2. \A m \in Node : RowStep(task[m], task'[m])
    BY RowSteps DEF FenceInv
  <1>3. OwnerInv'
    BY <1>2 DEF FenceInv, OwnerInv, RowStep, LocalRowStep, ResyncStep, Kept, GrantStep, PublishStep, ReleaseStep,
                InvalidateStep, InsertStep, DeleteStep
  <1>4. ASSUME NEW c \in claims
        PROVE  /\ c.born <= task'[c.node].born
               /\ c.born = task'[c.node].born /\ Present(c.node)' => c.attempt <= task'[c.node].attempt
               /\ Live(c)' => Live(c) /\ task'[c.node].hash = c.hash
    <2>1. c \in Claim /\ c.node \in Node
      BY DEF FenceInv, TypeOK, Claim
    <2>2. task[c.node] \in Row /\ task'[c.node] \in Row
      BY <1>1, <2>1 DEF FenceInv, TypeOK, LedgerTypeOK
    <2>3. /\ c.born <= task[c.node].born
          /\ c.born = task[c.node].born /\ task[c.node].state # "absent"
               => c.attempt <= task[c.node].attempt
      BY DEF FenceInv, ClaimInv, Present
    <2>4. /\ c.born <= task'[c.node].born
          /\ c.born = task'[c.node].born /\ task'[c.node].state # "absent"
               => c.attempt <= task'[c.node].attempt
          /\ task'[c.node].born = c.born /\ task'[c.node].state = "running"
             /\ task'[c.node].attempt = c.attempt => Kept(task[c.node], task'[c.node])
      BY <1>2, <2>1, <2>2, <2>3, FenceRow
    <2>5. ASSUME Live(c)'
          PROVE  Live(c) /\ task'[c.node].hash = c.hash
      <3>1. Kept(task[c.node], task'[c.node])
        BY <2>4, <2>5 DEF Live, ClaimCurrent, Running
      <3>2. Live(c)
        BY <2>5, <3>1 DEF Live, ClaimCurrent, Running, Kept, SameIdentity
      <3> QED
        BY <3>1, <3>2 DEF FenceInv, ClaimInv, Kept
    <2> QED
      BY <2>4, <2>5 DEF Present
  <1>5. \A c \in claims' : c \in claims \/ \E n \in Node : Snapshot(n) /\ c = ClaimOf(n)
    BY DEF Next, vars, ClientSync, ClientClaim, ClientPoll, ClientHeartbeat, ClientBegin,
           Snapshot, Depart, ClientCommit, ClientFencedFail, ClientSucceed, ClientFail,
           RetrySelect, RetryWrite, ClientCancel, ClientCancelRun,
           ClientResumeRun, ClientInvalidate, Tick, Local
  <1>6. ASSUME NEW n \in Node, Snapshot(n), NEW c, c = ClaimOf(n)
        PROVE  /\ c.born <= task'[c.node].born
               /\ c.born = task'[c.node].born /\ Present(c.node)' => c.attempt <= task'[c.node].attempt
               /\ Live(c)' => task'[c.node].hash = c.hash
    <2>1. task' = task /\ task[n] \in Row
      BY <1>6 DEF Snapshot, ledger, FenceInv, TypeOK, LedgerTypeOK
    <2> QED
      BY <1>6, <2>1 DEF ClaimOf, Row
  <1>7. ClaimInv'
    BY <1>4, <1>5, <1>6 DEF ClaimInv
  <1> QED
    BY <1>1, <1>3, <1>4, <1>7 DEF FenceInv

\* The fence's invariant holds in every reachable state.
LEMMA FenceInvariant == Spec => []FenceInv
  BY FenceInit, FenceStep, PTL DEF Spec

\* Whatever ledger operations clients issue, in whatever order, rows, edges and
\* claims keep their declared types.
THEOREM TypeCorrect == Spec => []TypeOK
  BY FenceInvariant, PTL DEF FenceInv

\* _commit_success's fence for any number of clients, nodes, plans and
\* attempts: a claim that was lost never becomes current again while the row
\* it was read from exists.
THEOREM Fencing == Spec => StaleStaysStale
  <1>1. FenceInv /\ [Next]_vars => [\A c \in claims : ~Live(c) => ~Live(c)']_vars
    BY FenceStep
  <1> QED
    BY <1>1, FenceInvariant, PTL DEF Spec, StaleStaysStale

\* sync_plan never changes the input of a row under a live claim.
THEOREM InputBinding == Spec => []InputBound
  <1>1. FenceInv => InputBound
    BY DEF FenceInv, ClaimInv, InputBound
  <1> QED
    BY <1>1, FenceInvariant, PTL

-----------------------------------------------------------------------------
(* Dependencies, with one executor.                                        *)

Active == {n \in Node : task[n].state \in {"running", "succeeded"}}

\* Hash and edges of a row come from one plan.
PlanInv ==
  \A n \in Node :
    Present(n) => \E p \in Plans : /\ n \in p.nodes
                                  /\ task[n].hash = p.hash[n]
                                  /\ edges[n] = p.deps[n]

\* A node about to be put back to pending has not been published.
RetryInv == \A n \in retrying : task[n].state # "succeeded"

ReceiptInv == \A n \in Node : task[n].receipt # Null <=> task[n].state = "succeeded"

GraphInv == FenceInv /\ PlanInv /\ RetryInv /\ ReceiptInv /\ DepsDone

\* The three ways in which a step may touch the graph of succeeded nodes.
QuietStep ==
  /\ edges' = edges
  /\ Succeeded' = Succeeded
  /\ \A n \in Active' \ Active : edges[n] \subseteq Succeeded

PublishedOne ==
  \E n \in Active : /\ n \notin Succeeded
                    /\ MayPublish(n)
                    /\ edges' = edges
                    /\ Succeeded' = Succeeded \cup {n}
                    /\ Active' = Active

Discarded ==
  /\ Succeeded' \subseteq Succeeded
  /\ \A n \in Succeeded \ Succeeded' : task'[n].receipt = Null
  /\ \A n \in Active' : /\ n \in Active
                        /\ edges'[n] = edges[n]
                        /\ edges[n] \subseteq Succeeded'

GraphStep == QuietStep \/ PublishedOne \/ Discarded

\* What is downstream of a set contains it and its own successors.
LEMMA DownstreamClosed ==
  ASSUME NEW S, NEW e, S \subseteq Node
  PROVE  /\ S \subseteq Downstream(S, e)
         /\ ClosedUnder(Downstream(S, e), e)
  <1>1. S \subseteq Downstream(S, e)
    BY DEF Downstream
  <1>2. ASSUME NEW n \in Node, e[n] \cap Downstream(S, e) # {}
        PROVE  n \in Downstream(S, e)
    <2> SUFFICES ASSUME NEW T \in SUBSET Node, S \subseteq T, ClosedUnder(T, e)
                 PROVE  n \in T
      BY DEF Downstream
    <2>1. PICK d \in e[n] : d \in Downstream(S, e)
      BY <1>2
    <2>2. d \in T
      BY <2>1 DEF Downstream
    <2> QED
      BY <2>1, <2>2 DEF ClosedUnder
  <1> QED
    BY <1>1, <1>2 DEF ClosedUnder

\* A row written by one statement and what it does to the two sets.
LEMMA OneRowSets ==
  ASSUME TypeOK, NEW n \in Node, NEW r, SetRow(n, r)
  PROVE  /\ Succeeded' = IF r.state = "succeeded" THEN Succeeded \cup {n} ELSE Succeeded \ {n}
         /\ Active' = IF r.state \in {"running", "succeeded"} THEN Active \cup {n} ELSE Active \ {n}
  <1>1. \A m \in Node : task'[m] = IF m = n THEN r ELSE task[m]
    BY DEF SetRow, TypeOK, LedgerTypeOK
  <1> QED
    BY <1>1 DEF Succeeded, Active

\* Releasing a row discards no receipt.
LEMMA ReleasedQuiet ==
  ASSUME TypeOK, NEW n \in Node, NEW s \in {"pending", "failed", "input_required", "cancelled"},
         task[n].state # "succeeded", SetRow(n, Released(task[n], s)), edges' = edges
  PROVE  QuietStep
  <1>1. task[n] \in Row
    BY DEF TypeOK, LedgerTypeOK
  <1>2. Released(task[n], s).state = s
    BY <1>1, RowValues
  <1>3. Succeeded' = Succeeded \ {n} /\ Active' = Active \ {n}
    BY <1>2, OneRowSets
  <1> QED
    BY <1>3 DEF QuietStep, Succeeded

\* Publishing a row adds one receipt.
LEMMA PublishedGraph ==
  ASSUME TypeOK, NEW n \in Node, NEW h, Running(n), MayPublish(n),
         SetRow(n, Published(task[n], h)), edges' = edges
  PROVE  PublishedOne
  <1>1. task[n] \in Row
    BY DEF TypeOK, LedgerTypeOK
  <1>2. Published(task[n], h).state = "succeeded"
    BY <1>1, RowValues
  <1>3. Succeeded' = Succeeded \cup {n} /\ Active' = Active \cup {n}
    BY <1>2, OneRowSets
  <1>4. n \in Active /\ n \notin Succeeded
    BY DEF Running, Active, Succeeded
  <1> QED
    BY <1>3, <1>4 DEF PublishedOne

\* Granting a row discards no receipt.
LEMMA GrantQuiet ==
  ASSUME TypeOK, NEW keep, NEW n \in Node, NEW w,
         Expired(keep)[n].state = "pending",
         DependenciesSucceeded(Expired(keep), n),
         task' = [Expired(keep) EXCEPT ![n] = Granted(@, w, "held")], edges' = edges
  PROVE  QuietStep
  <1> DEFINE t == Expired(keep)
  <1>1. t \in [Node -> Row]
    BY ExpiredType DEF TypeOK, LedgerTypeOK
  <1>2. \A m \in Node : m # n => task'[m] = t[m]
    BY <1>1
  <1>3. task'[n] = Granted(t[n], w, "held") /\ task'[n].state = "running"
    BY <1>1, RowValues
  <1>4. \A m \in Node : /\ t[m].state = "succeeded" <=> task[m].state = "succeeded"
                        /\ t[m].state = "running" => task[m].state = "running"
    BY ExpiredRow
  <1>5. Succeeded' = Succeeded
    BY <1>2, <1>3, <1>4 DEF Succeeded
  <1>6. Active' \subseteq Active \cup {n}
    BY <1>2, <1>4 DEF Active
  <1>7. edges[n] \subseteq Succeeded
    BY <1>4 DEF DependenciesSucceeded, Succeeded, TypeOK, LedgerTypeOK
  <1> QED
    BY <1>5, <1>6, <1>7 DEF QuietStep

\* An invalidation discards receipts with everything downstream.
LEMMA InvalidateDiscards ==
  ASSUME TypeOK, DepsDone, NEW n \in Node, Invalidate(n)
  PROVE  Discarded
  <1> DEFINE D == Downstream({n}, edges)
  <1>1. ClosedUnder(D, edges)
    BY DownstreamClosed
  <1>2. \A m \in Node : task[m] \in Row
    BY DEF TypeOK, LedgerTypeOK
  <1>3. \A m \in Node : m \notin D => task'[m] = task[m]
    BY DEF Invalidate
  <1>4. \A m \in D : task'[m].state \notin {"running", "succeeded"}
    BY <1>2, RowValues DEF Invalidate, Present, Downstream
  <1>8. \A m \in Succeeded : m \in D => task'[m].receipt = Null
    BY <1>2, RowValues DEF Invalidate, Present, Succeeded
  <1>5. edges' = edges
    BY DEF Invalidate
  <1>6. Succeeded' = Succeeded \ D /\ Active' = Active \ D
    BY <1>3, <1>4 DEF Succeeded, Active
  <1>7. ASSUME NEW m \in Active'
        PROVE  edges[m] \subseteq Succeeded'
    <2>1. m \in Node /\ m \in Active /\ m \notin D
      BY <1>6, <1>7 DEF Active
    <2>2. edges[m] \subseteq Succeeded
      BY <2>1 DEF DepsDone, Active, Succeeded, TypeOK, LedgerTypeOK
    <2>3. edges[m] \cap D = {}
      BY <1>1, <2>1 DEF ClosedUnder
    <2> QED
      BY <1>6, <2>2, <2>3
  <1> QED
    BY <1>5, <1>6, <1>7, <1>8 DEF Discarded

\* So does a changed plan.
LEMMA SyncDiscards ==
  ASSUME TypeOK, PlanInv, DepsDone, NEW p \in Plans, SyncPlan(p)
  PROVE  Discarded
  <1> DEFINE D == Downstream(Changed(p), PlanEdges(p))
  <1>1. p \in Plan /\ \A n \in p.nodes : p.deps[n] \subseteq p.nodes
    BY PlanAssumption
  <1>2. Changed(p) \subseteq D /\ ClosedUnder(D, PlanEdges(p))
    BY <1>1, DownstreamClosed DEF Changed, Plan
  <1>3. \A m \in Node : task[m] \in Row /\ task'[m] = SyncedRow(p, m)
    BY DEF TypeOK, LedgerTypeOK, SyncPlan
  <1>4. ASSUME NEW m \in Node, task'[m].state \in {"running", "succeeded"}
        PROVE  /\ m \in p.nodes /\ Present(m) /\ m \notin D
               /\ task'[m].state = task[m].state
    <2>1. m \in p.nodes
      BY <1>3, <1>4, RowValues DEF SyncedRow
    <2>2. Present(m)
      <3> SUFFICES ASSUME ~Present(m)
                   PROVE  FALSE
        OBVIOUS
      <3>1. task'[m] = Inserted(task[m], p.hash[m])
        BY <1>3, <2>1 DEF SyncedRow
      <3> QED
        BY <1>3, <1>4, <3>1, RowValues
    <2>3. m \notin D
      <3> SUFFICES ASSUME m \in D
                   PROVE  FALSE
        OBVIOUS
      <3>1. task'[m] = [Invalidated(task[m]) EXCEPT !.hash = p.hash[m]]
        BY <1>3, <2>1, <2>2 DEF SyncedRow
      <3>2. Invalidated(task[m]) \in Row /\ Invalidated(task[m]).state = "pending"
        BY <1>3, RowTypes, RowValues
      <3> QED
        BY <1>4, <3>1, <3>2 DEF Row
    <2> QED
      BY <1>3, <2>1, <2>2, <2>3 DEF SyncedRow, Row
  <1>5. ASSUME NEW m \in Node, m \in p.nodes, Present(m), m \notin D
        PROVE  task'[m].state = task[m].state
    BY <1>3, <1>5 DEF SyncedRow, Row
  <1>6. ASSUME NEW m \in Active'
        PROVE  m \in Active /\ edges'[m] = edges[m] /\ edges[m] \subseteq Succeeded'
    <2>1. m \in Node /\ m \in p.nodes /\ Present(m) /\ m \notin D /\ m \in Active
      BY <1>4, <1>6 DEF Active
    <2>2. task[m].hash = p.hash[m]
      BY <1>2, <2>1 DEF Changed
    <2>3. PICK q \in Plans : m \in q.nodes /\ task[m].hash = q.hash[m] /\ edges[m] = q.deps[m]
      BY <2>1 DEF PlanInv
    <2>4. edges[m] = p.deps[m]
      BY <2>1, <2>2, <2>3, PlanAssumption
    <2>5. edges'[m] = p.deps[m] /\ PlanEdges(p)[m] = p.deps[m]
      BY <2>1 DEF SyncPlan, PlanEdges
    <2>6. ASSUME NEW d \in edges[m]
          PROVE  d \in Succeeded'
      <3>1. d \in Node /\ task[d].state = "succeeded"
        BY <2>1 DEF DepsDone, Active, TypeOK, LedgerTypeOK
      <3>2. d \in p.nodes
        BY <1>1, <2>1, <2>4, <2>6
      <3>3. d \notin D
        BY <1>2, <2>1, <2>4, <2>5, <2>6 DEF ClosedUnder
      <3>4. Present(d)
        BY <3>1 DEF Present
      <3> QED
        BY <1>5, <3>1, <3>2, <3>3, <3>4 DEF Succeeded
    <2> QED
      BY <2>1, <2>4, <2>5, <2>6
  <1>7. Succeeded' \subseteq Succeeded
    BY <1>4 DEF Succeeded
  <1>8. ASSUME NEW m \in Succeeded, m \notin Succeeded'
        PROVE  task'[m].receipt = Null
    <2>1. m \in Node /\ Present(m)
      BY <1>8 DEF Succeeded, Present
    <2>2. CASE m \notin p.nodes
      <3>1. task'[m] = Deleted(task[m])
        BY <1>3, <2>1, <2>2 DEF SyncedRow
      <3> QED
        BY <1>3, <2>1, <3>1, RowValues
    <2>3. CASE m \in p.nodes
      <3>1. m \in D
        BY <1>5, <1>8, <2>1, <2>3 DEF Succeeded
      <3>2. task'[m] = [Invalidated(task[m]) EXCEPT !.hash = p.hash[m]]
        BY <1>3, <2>1, <2>3, <3>1 DEF SyncedRow
      <3>3. Invalidated(task[m]) \in Row /\ Invalidated(task[m]).receipt = Null
        BY <1>3, <2>1, RowTypes, RowValues
      <3> QED
        BY <3>2, <3>3 DEF Row
    <2> QED
      BY <2>2, <2>3
  <1> QED
    BY <1>6, <1>7, <1>8 DEF Discarded

\* With one executor every step touches the graph in one of the three ways.
LEMMA GraphSteps ==
  ASSUME OneExecutor, GraphInv, [Next]_vars
  PROVE  GraphStep
  <1> USE DEF GraphStep
  <1>a. TypeOK /\ DepsDone /\ PlanInv /\ RetryInv
    BY DEF GraphInv, FenceInv
  <1>b. \A m \in Node : task[m] \in Row
    BY <1>a DEF TypeOK, LedgerTypeOK
  <1>c. ASSUME task' = task, edges' = edges
        PROVE  QuietStep
    BY <1>c DEF QuietStep, Succeeded, Active
  <1>1. ASSUME NEW p \in Plans, ClientSync(p)
        PROVE  GraphStep
    BY <1>a, <1>1, SyncDiscards DEF ClientSync
  <1>2. ASSUME NEW n \in Node, ClientClaim(n)
        PROVE  GraphStep
    <2>1. ASSUME NEW o \in Owner, ClaimOrchestratorReady(o, n)
          PROVE  GraphStep
      BY <1>a, <2>1, GrantQuiet DEF ClaimOrchestratorReady, Ready
    <2>2. ASSUME ClaimReady(LocalOwner, n)
          PROVE  GraphStep
      BY <1>a, <2>2, GrantQuiet DEF ClaimReady
    <2> QED
      BY <1>2, <2>1, <2>2 DEF ClientClaim
  <1>3. CASE ClientPoll
    <2>1. PICK o \in Owner : task' = Expired({o}) /\ edges' = edges
      BY <1>3 DEF ClientPoll, ClaimOrchestratorNone
    <2>2. \A m \in Node : /\ task'[m].state = "succeeded" <=> task[m].state = "succeeded"
                          /\ task'[m].state = "running" => task[m].state = "running"
      BY <1>a, <2>1, ExpiredRow
    <2> QED
      BY <2>1, <2>2 DEF QuietStep, Succeeded, Active
  <1>4. ASSUME NEW n \in Node, ClientBegin(n)
        PROVE  GraphStep
    <2>1. CASE task' = task
      BY <1>4, <1>c, <2>1 DEF ClientBegin, Begin
    <2>2. CASE /\ task[n].state # "succeeded" /\ DependenciesSucceeded(task, n)
               /\ SetRow(n, Granted(task[n], LocalOwner, "none"))
      <3>1. Granted(task[n], LocalOwner, "none").state = "running"
        BY <1>b, RowValues
      <3>2. Succeeded' = Succeeded \ {n} /\ Active' = Active \cup {n}
        BY <1>a, <2>2, <3>1, OneRowSets
      <3>3. edges[n] \subseteq Succeeded
        BY <1>a, <2>2 DEF DependenciesSucceeded, Succeeded, TypeOK, LedgerTypeOK
      <3>4. n \notin Succeeded
        BY <2>2 DEF Succeeded
      <3> QED
        BY <1>4, <3>2, <3>3, <3>4 DEF QuietStep, ClientBegin, Begin
    <2> QED
      BY <1>4, <2>1, <2>2 DEF ClientBegin, Begin
  <1>5. ASSUME NEW n \in Node, NEW h \in Hash, ClientSucceed(n, h)
        PROVE  GraphStep
    BY <1>a, <1>5, PublishedGraph DEF ClientSucceed, Succeed
  <1>6. ASSUME NEW n \in Node, ClientFail(n)
        PROVE  GraphStep
    <2>1. task[n].state # "succeeded" /\ edges' = edges
      BY <1>6 DEF ClientFail, Fail, Running
    <2>2. PICK s \in {"failed", "input_required"} : SetRow(n, Released(task[n], s))
      BY <1>6 DEF ClientFail, Fail
    <2> QED
      BY <1>a, <2>1, <2>2, ReleasedQuiet
  <1>7. ASSUME NEW n \in Node, RetryWrite(n)
        PROVE  GraphStep
    <2>1. task[n].state # "succeeded" /\ edges' = edges
      BY <1>a, <1>7 DEF RetryWrite, RetryUpdate, RetryInv
    <2>2. CASE task' = task
      BY <1>c, <2>1, <2>2
    <2>3. CASE SetRow(n, Released(task[n], "pending"))
      BY <1>a, <2>1, <2>3, ReleasedQuiet
    <2> QED
      BY <1>7, <2>2, <2>3 DEF RetryWrite, RetryUpdate
  <1>8. ASSUME NEW n \in Node, ClientCancel(n)
        PROVE  GraphStep
    BY <1>a, <1>8, ReleasedQuiet DEF ClientCancel, Cancel
  <1>9. CASE ClientCancelRun
    <2>1. edges' = edges
      BY <1>9 DEF ClientCancelRun, CancelRun
    <2>2. \A m \in Node : /\ task'[m].state = "succeeded" <=> task[m].state = "succeeded"
                          /\ task'[m].state = "running" => task[m].state = "running"
      BY <1>b, <1>9, RowValues DEF ClientCancelRun, CancelRun
    <2> QED
      BY <2>1, <2>2 DEF QuietStep, Succeeded, Active
  <1>10. CASE ClientResumeRun
    <2>1. edges' = edges
      BY <1>10 DEF ClientResumeRun, ResumeRun
    <2>2. \A m \in Node : /\ task'[m].state = "succeeded" <=> task[m].state = "succeeded"
                          /\ task'[m].state = "running" => task[m].state = "running"
      BY <1>b, <1>10 DEF ClientResumeRun, ResumeRun, Row
    <2> QED
      BY <2>1, <2>2 DEF QuietStep, Succeeded, Active
  <1>11. ASSUME NEW n \in Node, ClientInvalidate(n)
         PROVE  GraphStep
    BY <1>a, <1>11, InvalidateDiscards DEF ClientInvalidate
  <1>12. ASSUME NEW n \in Node, Tick(n)
         PROVE  GraphStep
    <2>1. edges' = edges
      BY <1>12 DEF Tick, Lapse
    <2>2. \A m \in Node : task'[m].state = task[m].state
      BY <1>a, <1>b, <1>12 DEF Tick, Lapse, SetRow, Row, TypeOK, LedgerTypeOK
    <2> QED
      BY <2>1, <2>2 DEF QuietStep, Succeeded, Active
  <1>13. ASSUME NEW c \in claims, NEW h \in Hash, ClientCommit(c, h)
         PROVE  GraphStep
    <2>1. c.node \in Node
      BY <1>a DEF TypeOK, Claim
    <2> QED
      BY <1>a, <1>13, <2>1, PublishedGraph DEF ClientCommit, CommitSuccess, ClaimCurrent
  <1>14. ASSUME NEW c \in claims, ClientFencedFail(c)
         PROVE  GraphStep
    <2>1. c.node \in Node /\ edges' = edges
      BY <1>a, <1>14 DEF TypeOK, Claim, ClientFencedFail, FencedFail
    <2>2. CASE task' = task
      BY <1>c, <2>1, <2>2
    <2>3. CASE /\ ClaimCurrent(c.node, c.attempt, c.owner)
               /\ SetRow(c.node, Released(task[c.node], "failed"))
      BY <1>a, <2>1, <2>3, ReleasedQuiet DEF ClaimCurrent, Running
    <2> QED
      BY <1>14, <2>2, <2>3 DEF ClientFencedFail, FencedFail
  <1>15. CASE \/ ClientHeartbeat
              \/ \E n \in Node : Snapshot(n) \/ RetrySelect(n)
              \/ Depart
              \/ UNCHANGED vars
    <2>1. task' = task /\ edges' = edges
      BY <1>15 DEF ClientHeartbeat, RenewOrchestratorClaims, Snapshot, RetrySelect,
                   Depart, vars, ledger
    <2> QED
      BY <1>c, <2>1
  <1> QED
    BY <1>1, <1>2, <1>3, <1>4, <1>5, <1>6, <1>7, <1>8, <1>9, <1>10, <1>11,
       <1>12, <1>13, <1>14, <1>15 DEF Next

-----------------------------------------------------------------------------
(* The graph invariant is inductive.                                       *)

\* The graph invariant holds in an empty ledger.
LEMMA GraphInit == Init => GraphInv
  <1> SUFFICES ASSUME Init
               PROVE  GraphInv
    OBVIOUS
  <1>1. \A n \in Node : task[n].state = "absent" /\ task[n].receipt = Null
    BY DEF Init, LedgerInit, NoRow
  <1>2. PlanInv /\ ReceiptInv /\ DepsDone
    BY <1>1 DEF PlanInv, ReceiptInv, DepsDone, Present
  <1>3. RetryInv
    BY DEF Init, RetryInv
  <1> QED
    BY <1>2, <1>3, FenceInit DEF GraphInv

\* sync_plan writes hash and edges of every row from one plan; nothing else
\* touches either.
LEMMA PlanStep ==
  ASSUME TypeOK, OwnerInv, PlanInv, [Next]_vars
  PROVE  PlanInv'
  <1>a. \A m \in Node : task[m] \in Row
    BY DEF TypeOK, LedgerTypeOK
  <1>1. ASSUME NEW p \in Plans, SyncPlan(p)
        PROVE  PlanInv'
    <2> SUFFICES ASSUME NEW m \in Node, task'[m].state # "absent"
                 PROVE  m \in p.nodes /\ task'[m].hash = p.hash[m] /\ edges'[m] = p.deps[m]
      BY DEF PlanInv, Present
    <2>1. task'[m] = SyncedRow(p, m) /\ edges'[m] = PlanEdges(p)[m]
      BY <1>1 DEF SyncPlan
    <2>2. m \in p.nodes
      BY <1>a, <2>1, RowValues DEF SyncedRow
    <2>3. Invalidated(task[m]) \in Row
      BY <1>a, RowTypes
    <2>4. CASE ~Present(m)
      <3>1. task'[m] = Inserted(task[m], p.hash[m])
        BY <2>1, <2>2, <2>4 DEF SyncedRow
      <3> QED
        BY <1>a, <2>1, <2>2, <3>1, RowValues DEF PlanEdges
    <2>5. CASE Present(m)
      <3>1. \E r \in Row : task'[m] = [r EXCEPT !.hash = p.hash[m]]
        BY <1>a, <2>1, <2>2, <2>3, <2>5 DEF SyncedRow
      <3> QED
        BY <2>1, <2>2, <3>1 DEF PlanEdges, Row
    <2> QED
      BY <2>4, <2>5
  <1>2. CASE ~\E p \in Plans : ClientSync(p)
    <2>1. \A m \in Node : LocalRowStep(task[m], task'[m])
      BY <1>2, LocalRowSteps
    <2>2. \A m \in Node : /\ task'[m].hash = task[m].hash
                          /\ task'[m].state # "absent" => task[m].state # "absent"
      BY <2>1 DEF LocalRowStep, Kept, GrantStep, PublishStep, ReleaseStep, InvalidateStep
    <2>3. edges' = edges
      BY <1>2 DEF Next, vars, ClientClaim, ClientPoll, ClientHeartbeat, ClientBegin,
           Snapshot, Depart, ClientCommit, ClientFencedFail, ClientSucceed, ClientFail,
           RetrySelect, RetryWrite, ClientCancel, ClientCancelRun,
           ClientResumeRun, ClientInvalidate, Tick, ledger, ClaimOrchestratorReady, ClaimReady,
           ClaimOrchestratorNone, RenewOrchestratorClaims, Begin, CommitSuccess, FencedFail,
           Succeed, Fail, RetryUpdate, Cancel, CancelRun, ResumeRun, Invalidate, Lapse
    <2> QED
      BY <2>2, <2>3 DEF PlanInv, Present
  <1> QED
    BY <1>1, <1>2 DEF ClientSync

\* With one executor no node is published between the two statements of its
\* retry().
LEMMA RetryStep ==
  ASSUME OneExecutor, GraphInv, [Next]_vars
  PROVE  RetryInv'
  <1>a. TypeOK /\ RetryInv
    BY DEF GraphInv, FenceInv
  <1>1. CASE \E m \in Node : RetrySelect(m)
    BY <1>a, <1>1 DEF RetrySelect, RetryAccepts, Stopped, RetryInv, ledger
  <1>2. CASE ~\E m \in Node : RetrySelect(m)
    <2>1. retrying' \subseteq retrying
      BY <1>2 DEF Next, vars, ClientSync, ClientClaim, ClientPoll, ClientHeartbeat, ClientBegin,
           Snapshot, Depart, ClientCommit, ClientFencedFail, ClientSucceed, ClientFail,
           RetryWrite, ClientCancel, ClientCancelRun,
           ClientResumeRun, ClientInvalidate, Tick, Local
    <2>2. \A m \in retrying' : m \in Node /\ m \in retrying /\ m \notin Succeeded
      BY <1>a, <2>1 DEF RetryInv, TypeOK, Succeeded
    <2> SUFFICES ASSUME NEW m \in retrying', m \in Succeeded'
                 PROVE  FALSE
      BY <2>2 DEF RetryInv, Succeeded
    <2>3. CASE QuietStep \/ Discarded
      BY <2>2, <2>3 DEF QuietStep, Discarded
    <2>4. CASE PublishedOne
      <3>1. ~MayPublish(m)
        BY <2>2 DEF MayPublish
      <3> QED
        BY <2>2, <2>4, <3>1 DEF PublishedOne
    <2> QED
      BY <2>3, <2>4, GraphSteps DEF GraphStep
  <1> QED
    BY <1>1, <1>2

\* The graph invariant is inductive.
LEMMA GraphInductive ==
  ASSUME OneExecutor, GraphInv, [Next]_vars
  PROVE  GraphInv'
  <1>1. FenceInv'
    BY FenceStep DEF GraphInv
  <1>2. PlanInv'
    BY PlanStep DEF GraphInv, FenceInv
  <1>3. RetryInv'
    BY RetryStep
  <1>4. GraphStep
    BY GraphSteps
  <1>5. ReceiptInv'
    <2> SUFFICES ASSUME NEW n \in Node
                 PROVE  task'[n].receipt # Null <=> task'[n].state = "succeeded"
      BY DEF ReceiptInv
    <2>1. RowStep(task[n], task'[n])
      BY RowSteps DEF GraphInv, FenceInv
    <2>2. task[n].receipt # Null <=> task[n].state = "succeeded"
      BY DEF GraphInv, ReceiptInv
    <2>3. CASE ReleaseStep(task[n], task'[n])
      <3>1. task[n].state = "succeeded" => n \in Succeeded \ Succeeded'
        BY <2>3 DEF Succeeded, ReleaseStep
      <3>2. n \in Succeeded \ Succeeded' => task'[n].receipt = Null
        BY <1>4 DEF GraphStep, QuietStep, PublishedOne, Discarded
      <3> QED
        BY <2>2, <2>3, <3>1, <3>2 DEF ReleaseStep
    <2>4. CASE ~ReleaseStep(task[n], task'[n])
      BY <2>1, <2>2, <2>4 DEF RowStep, LocalRowStep, ResyncStep, Kept, GrantStep, PublishStep,
                              InvalidateStep, InsertStep, DeleteStep
    <2> QED
      BY <2>3, <2>4
  <1>6. DepsDone'
    <2>1. \A n \in Active : edges[n] \subseteq Succeeded
      BY DEF GraphInv, FenceInv, TypeOK, LedgerTypeOK, DepsDone, Active, Succeeded
    <2>2. \A n \in Active' : edges'[n] \subseteq Succeeded'
      BY <1>4, <2>1 DEF GraphStep, QuietStep, PublishedOne, Discarded
    <2> QED
      BY <2>2 DEF DepsDone, Active, Succeeded
  <1> QED
    BY <1>1, <1>2, <1>3, <1>5, <1>6 DEF GraphInv

\* The graph's invariant holds in every reachable state.
LEMMA GraphInvariant == OneExecutor => (Spec => []GraphInv)
  <1> SUFFICES ASSUME OneExecutor
               PROVE  Spec => []GraphInv
    OBVIOUS
  <1>1. GraphInv /\ [Next]_vars => GraphInv'
    BY GraphInductive
  <1> QED
    BY <1>1, GraphInit, PTL DEF Spec

\* As long as one process executes the run, no sequence of claims, retries,
\* invalidations, cancellations and plan changes leaves a running or succeeded
\* node on a dependency that has not succeeded.
THEOREM DependenciesDone == OneExecutor => (Spec => []DepsDone)
  <1>1. GraphInv => DepsDone
    BY DEF GraphInv
  <1> QED
    BY <1>1, GraphInvariant, PTL

\* As long as one process executes the run, a row has a receipt exactly while
\* it is succeeded and an owner exactly while it is running.
THEOREM EvidenceTruth == OneExecutor => (Spec => []RowEvidence)
  <1>1. GraphInv => RowEvidence
    BY DEF GraphInv, FenceInv, OwnerInv, ReceiptInv, RowEvidence
  <1> QED
    BY <1>1, GraphInvariant, PTL

\* As long as one process executes the run, the ledger implements the abstract
\* work graph: every transaction is a publication, a discard or a stutter.
THEOREM Refinement == OneExecutor => (Spec => ImplementsWorkGraph)
  <1> SUFFICES ASSUME OneExecutor
               PROVE  Spec => ImplementsWorkGraph
    OBVIOUS
  <1>1. Init => WG!Init
    BY DEF Init, LedgerInit, WG!Init, Succeeded, NoRow
  <1>2. ASSUME GraphInv, [Next]_vars
        PROVE  [WG!Next]_WG!gvars
    <2>1. edges' \in [Node -> SUBSET Node]
      BY <1>2, FenceStep DEF GraphInv, FenceInv, TypeOK, LedgerTypeOK
    <2>2. GraphStep
      BY <1>2, GraphSteps
    <2>3. CASE QuietStep
      BY <2>3 DEF QuietStep, WG!gvars
    <2>4. CASE PublishedOne
      <3>1. \A n \in Active : n \in Node /\ edges[n] \subseteq Succeeded
        BY <1>2 DEF GraphInv, FenceInv, TypeOK, LedgerTypeOK, DepsDone, Active, Succeeded
      <3> QED
        BY <2>4, <3>1 DEF PublishedOne, WG!Next, WG!Publish
    <2>5. CASE Discarded
      <3>1. Succeeded' \subseteq Active'
        BY DEF Succeeded, Active
      <3> QED
        BY <2>1, <2>5, <3>1 DEF Discarded, WG!Next, WG!Discard, WG!Closed
    <2> QED
      BY <2>2, <2>3, <2>4, <2>5 DEF GraphStep
  <1> QED
    BY <1>1, <1>2, GraphInvariant, PTL DEF Spec, ImplementsWorkGraph, WG!Spec
=============================================================================
