--------------------------- MODULE WorkLedgerProofs ---------------------------
(***************************************************************************)
(* Facts about the statements of the work ledger, for every ledger state   *)
(* of the declared type: what each makes of a row, and what it leaves      *)
(* alone.  The proofs about the ledger's clients rest on them.             *)
(***************************************************************************)
EXTENDS WorkLedger, TLAPS

\* Every statement writes rows of the declared type.
LEMMA RowTypes ==
  ASSUME NEW r \in Row
  PROVE  /\ \A w \in Owner \cup {LocalOwner}, l \in Lease : Granted(r, w, l) \in Row
         /\ \A s \in WorkState : Released(r, s) \in Row
         /\ \A h \in Hash : Published(r, h) \in Row
         /\ \A h \in Hash : [r EXCEPT !.hash = h] \in Row
         /\ \A h \in Hash : Inserted(r, h) \in Row
         /\ \A s \in WorkState : [r EXCEPT !.state = s] \in Row
         /\ Invalidated(r) \in Row
         /\ Deleted(r) \in Row
         /\ [r EXCEPT !.lease = "lapsed"] \in Row
  <1> USE DEF Row, WorkState, Lease
  <1>1. \A w \in Owner \cup {LocalOwner}, l \in Lease : Granted(r, w, l) \in Row
    <2> SUFFICES ASSUME NEW w \in Owner \cup {LocalOwner}, NEW l \in Lease
                 PROVE  Granted(r, w, l) \in Row
      OBVIOUS
    <2>1. r.attempt + 1 \in Nat /\ w \in Owner \cup {LocalOwner, Null}
      OBVIOUS
    <2> QED
      BY <2>1 DEF Granted
  <1>2. \A s \in WorkState : Released(r, s) \in Row
    BY DEF Released
  <1>3. \A h \in Hash : Published(r, h) \in Row
    BY DEF Published
  <1>4. \A h \in Hash : [r EXCEPT !.hash = h] \in Row
    OBVIOUS
  <1>5. \A h \in Hash : Inserted(r, h) \in Row
    BY DEF Inserted
  <1>6. \A s \in WorkState : [r EXCEPT !.state = s] \in Row
    OBVIOUS
  <1>7. Invalidated(r) \in Row
    BY DEF Invalidated
  <1>8. Deleted(r) \in Row
    BY DEF Deleted, NoRow
  <1>9. [r EXCEPT !.lease = "lapsed"] \in Row
    OBVIOUS
  <1> HIDE DEF Row, WorkState, Lease
  <1> QED
    BY <1>1, <1>2, <1>3, <1>4, <1>5, <1>6, <1>7, <1>8, <1>9

\* The fields of a row after each change of it.
LEMMA RowValues ==
  ASSUME NEW r \in Row
  PROVE  /\ \A w, l : /\ Granted(r, w, l).state = "running"
                      /\ Granted(r, w, l).attempt = r.attempt + 1
                      /\ Granted(r, w, l).owner = w
                      /\ Granted(r, w, l).hash = r.hash
                      /\ Granted(r, w, l).receipt = r.receipt
                      /\ Granted(r, w, l).born = r.born
         /\ \A s : /\ Released(r, s).state = s
                   /\ Released(r, s).attempt = r.attempt
                   /\ Released(r, s).owner = Null
                   /\ Released(r, s).hash = r.hash
                   /\ Released(r, s).receipt = r.receipt
                   /\ Released(r, s).born = r.born
         /\ \A h : /\ Published(r, h).state = "succeeded"
                   /\ Published(r, h).attempt = r.attempt
                   /\ Published(r, h).owner = Null
                   /\ Published(r, h).hash = r.hash
                   /\ Published(r, h).receipt = h
                   /\ Published(r, h).born = r.born
         /\ Invalidated(r).state = "pending"
         /\ Invalidated(r).attempt = r.attempt
         /\ Invalidated(r).owner = Null
         /\ Invalidated(r).hash = r.hash
         /\ Invalidated(r).receipt = Null
         /\ Invalidated(r).born = r.born
         /\ \A h : /\ Inserted(r, h).state = "pending"
                   /\ Inserted(r, h).attempt = 0
                   /\ Inserted(r, h).owner = Null
                   /\ Inserted(r, h).hash = h
                   /\ Inserted(r, h).receipt = Null
                   /\ Inserted(r, h).born = r.born + 1
         /\ Deleted(r).state = "absent"
         /\ Deleted(r).owner = Null
         /\ Deleted(r).receipt = Null
         /\ Deleted(r).born = r.born
  BY DEF Row, Granted, Released, Published, Invalidated, Inserted, Deleted, NoRow

\* Expired leases leave rows.
LEMMA ExpiredType ==
  ASSUME NEW keep, task \in [Node -> Row]
  PROVE  Expired(keep) \in [Node -> Row]
  <1>1. \A n \in Node : Released(task[n], "pending") \in Row
    BY RowTypes DEF WorkState
  <1> QED
    BY <1>1 DEF Expired

\* A row after a plan is synchronised is a row.
LEMMA SyncedRowType ==
  ASSUME NEW p \in Plans, NEW n \in Node, task \in [Node -> Row]
  PROVE  SyncedRow(p, n) \in Row
  <1>1. task[n] \in Row /\ (n \in p.nodes => p.hash[n] \in Hash)
    BY PlanAssumption DEF Plan
  <1>2. CASE n \notin p.nodes
    BY <1>1, <1>2, RowTypes DEF SyncedRow
  <1>3. CASE n \in p.nodes
    <2> DEFINE r == Invalidated(task[n])
    <2>1. r \in Row
      BY <1>1, RowTypes
    <2>2. [r EXCEPT !.hash = p.hash[n]] \in Row
      BY <1>1, <1>3, <2>1, RowTypes
    <2>3. [task[n] EXCEPT !.hash = p.hash[n]] \in Row
      BY <1>1, <1>3, RowTypes
    <2>4. Inserted(task[n], p.hash[n]) \in Row
      BY <1>1, <1>3, RowTypes
    <2> QED
      BY <1>3, <2>2, <2>3, <2>4 DEF SyncedRow
  <1> QED
    BY <1>2, <1>3

\* A statement that writes one row leaves the others alone.
LEMMA RowWritten ==
  ASSUME LedgerTypeOK, NEW n \in Node, NEW r \in Row, SetRow(n, r)
  PROVE  /\ task' \in [Node -> Row]
         /\ task'[n] = r
         /\ \A m \in Node \ {n} : task'[m] = task[m]
  BY DEF LedgerTypeOK, SetRow

\* A claim transaction of keep takes back the lapsed leases of all others and
\* changes nothing else.
LEMMA ExpiredRows ==
  ASSUME LedgerTypeOK, NEW keep, NEW n \in Node
  PROVE  /\ Expired(keep)[n] \in Row
         /\ \/ Expired(keep)[n] = task[n]
            \/ /\ task[n].state = "running" /\ task[n].owner \notin keep
               /\ Expired(keep)[n] = Released(task[n], "pending")
  <1>1. Expired(keep) \in [Node -> Row]
    BY ExpiredType DEF LedgerTypeOK
  <1> QED
    BY <1>1 DEF Expired

\* A granted claim: the row of n is running under o, the others are as the
\* expiry left them.
LEMMA GrantedRows ==
  ASSUME LedgerTypeOK, NEW o \in Owner, NEW n \in Node, ClaimOrchestratorReady(o, n)
  PROVE  /\ task' \in [Node -> Row]
         /\ task'[n] = Granted(Expired({o})[n], o, "held")
         /\ \A m \in Node \ {n} : task'[m] = Expired({o})[m]
  <1> DEFINE t == Expired({o})
  <1>1. t \in [Node -> Row]
    BY ExpiredType DEF LedgerTypeOK
  <1>2. "held" \in Lease /\ o \in Owner \cup {LocalOwner}
    BY DEF Lease
  <1>3. Granted(t[n], o, "held") \in Row
    BY <1>1, <1>2, RowTypes
  <1>4. task' = [t EXCEPT ![n] = Granted(t[n], o, "held")]
    BY <1>1 DEF ClaimOrchestratorReady
  <1> HIDE DEF t
  <1> QED
    BY <1>1, <1>3, <1>4 DEF t
=============================================================================
