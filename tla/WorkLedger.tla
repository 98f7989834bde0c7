------------------------------ MODULE WorkLedger ------------------------------
(***************************************************************************)
(* The durable work ledger of one production run: the SQLite tables        *)
(* `tasks' and `edges' and the metadata key `cancel_requested' behind      *)
(* work_graph.DurableWorkLedger, and the claim statements of               *)
(* scheduler_parallel_safety_contract and scheduler_claim_fencing_contract.*)
(*                                                                         *)
(* Every operator with a primed variable is ONE committed write            *)
(* transaction of the code (a BEGIN IMMEDIATE block, or a single           *)
(* compare-and-set UPDATE together with the read that guards it).  Calls   *)
(* that take several transactions (retry, _run_work_node, ...) are put     *)
(* together from these in the modules that EXTEND this one.                *)
(*                                                                         *)
(* Data abstractions.                                                      *)
(*  - A node id is an integer; integer order stands for ORDER BY node_id.  *)
(*  - lease_until is compared with the clock and nothing else, so a lease  *)
(*    is "none" (SQL NULL), "held" (lease_until >= now) or "lapsed"        *)
(*    (lease_until < now); Lapse is the passing of time.                   *)
(*  - A receipt is the input hash of the work that produced it.            *)
(*  - error, payload_json, output_hash and updated_at are left out.        *)
(***************************************************************************)
EXTENDS Integers, FiniteSets

CONSTANTS
  Node,        \* all work-node ids any plan mentions
  GenNode,     \* the nodes whose stage matches 'generate:%'
  Hash,        \* input hashes
  Plans,       \* the work plans an orchestrator may open the run with
  Owner,       \* unique lease owners, one per opened ledger instance
  LocalOwner,  \* the fixed worker id 'complete-orchestrator' given to begin()
  Null,        \* SQL NULL in lease_owner, receipt_json, or of a missing row
  StageOf,     \* the stage of a node
  SerialStages,\* stages admitted one node at a time
  LaneOf,      \* the resource class of a node
  Capacity,    \* admission capacity of every lane
  SharedGpu,   \* text and image models share one local GPU
  MaxAttempt   \* bound: claims granted per row incarnation

Lanes == {"cpu_io", "llm", "image_gpu", "commit"}

\* A plan names its nodes, their dependencies (sync_plan rejects unknown
\* ones) and their input hashes.  An input hash covers the dependency list.
Plan == [nodes : SUBSET Node, deps : [Node -> SUBSET Node], hash : [Node -> Hash]]

ASSUME NodeAssumption ==
  /\ Node \subseteq Nat
  /\ GenNode \subseteq Node
  /\ MaxAttempt \in Nat

ASSUME OwnerAssumption ==
  /\ LocalOwner \notin Owner
  /\ Null \notin Owner \cup {LocalOwner} \cup Hash

ASSUME LaneAssumption ==
  /\ LaneOf \in [Node -> Lanes]
  /\ Capacity \in [Lanes -> Nat \ {0}]
  /\ SharedGpu \in BOOLEAN

ASSUME PlanAssumption ==
  /\ Plans \subseteq Plan
  /\ \A p \in Plans : \A n \in p.nodes : p.deps[n] \subseteq p.nodes
  /\ \A p, q \in Plans : \A n \in p.nodes \cap q.nodes :
        p.hash[n] = q.hash[n] => p.deps[n] = q.deps[n]

VARIABLES
  task,       \* the row of every node; state "absent" when there is none
  edges,      \* the dependencies of every node
  cancelled   \* metadata.cancel_requested is set

ledger == <<task, edges, cancelled>>

WorkState ==
  {"pending", "running", "input_required", "succeeded", "failed", "cancelled"}

\* The states retry() accepts.
Stopped == {"failed", "input_required", "cancelled"}

Lease == {"none", "held", "lapsed"}

\* born counts the incarnations of a row (history: it is not stored).
Row == [state : WorkState \cup {"absent"}, attempt : Nat,
        owner : Owner \cup {LocalOwner, Null}, lease : Lease,
        hash : Hash \cup {Null}, receipt : Hash \cup {Null}, born : Nat]

LedgerTypeOK ==
  /\ task \in [Node -> Row]
  /\ edges \in [Node -> SUBSET Node]
  /\ cancelled \in BOOLEAN

NoRow(b) ==
  [state |-> "absent", attempt |-> 0, owner |-> Null, lease |-> "none",
   hash |-> Null, receipt |-> Null, born |-> b]

\* A freshly created database file.
LedgerInit ==
  /\ task = [n \in Node |-> NoRow(0)]
  /\ edges = [n \in Node |-> {}]
  /\ cancelled = FALSE

Present(n) == task[n].state # "absent"
Running(n) == task[n].state = "running"

-----------------------------------------------------------------------------
(* What the statements write into a row.                                   *)

\* state = running, attempt = attempt + 1, lease_owner = w, lease_until
Granted(r, w, l) ==
  [r EXCEPT !.state = "running", !.attempt = @ + 1, !.owner = w, !.lease = l]

\* state = s, lease_owner = NULL, lease_until = NULL
Released(r, s) ==
  [r EXCEPT !.state = s, !.owner = Null, !.lease = "none"]

\* Mutant: a success is stored under a state the enumeration does not have.
MutPublished(r, h) ==
  [r EXCEPT !.state = "completed", !.owner = Null, !.lease = "none", !.receipt = h]

\* state = succeeded with its receipt; the lease columns are cleared
Published(r, h) ==
  [r EXCEPT !.state = "succeeded", !.owner = Null, !.lease = "none",
            !.receipt = h]

\* Mutant: an invalidated row starts counting its attempts anew.
MutInvalidated(r) ==
  [r EXCEPT !.state = "pending", !.owner = Null, !.lease = "none",
            !.receipt = Null, !.attempt = 0]

\* back to pending with every piece of evidence cleared; attempt is kept
Invalidated(r) ==
  [r EXCEPT !.state = "pending", !.owner = Null, !.lease = "none",
            !.receipt = Null]

Inserted(r, h) ==
  [state |-> "pending", attempt |-> 0, owner |-> Null, lease |-> "none",
   hash |-> h, receipt |-> Null, born |-> r.born + 1]

Deleted(r) == NoRow(r.born)

SetRow(n, r) == task' = [task EXCEPT ![n] = r]

-----------------------------------------------------------------------------
(* The downstream closure of a set of nodes: WITH RECURSIVE affected(...)  *)
(* as its least fixed point.                                               *)

ClosedUnder(T, e) == \A n \in Node : e[n] \cap T # {} => n \in T

Downstream(S, e) ==
  {n \in Node : \A T \in SUBSET Node : S \subseteq T /\ ClosedUnder(T, e) => n \in T}

-----------------------------------------------------------------------------
(* Plan synchronisation and invalidation.                                  *)

\* The nodes both in the table and in p whose input hash differs.
Changed(p) == {n \in p.nodes : Present(n) /\ task[n].hash # p.hash[n]}

PlanEdges(p) == [n \in Node |-> IF n \in p.nodes THEN p.deps[n] ELSE {}]

\* Mutant: a changed input is stored without invalidating anything.
MutSyncedRow(p, n) ==
  IF n \notin p.nodes THEN Deleted(task[n])
  ELSE IF ~Present(n) THEN Inserted(task[n], p.hash[n])
  ELSE [task[n] EXCEPT !.hash = p.hash[n]]

SyncedRow(p, n) ==
  IF n \notin p.nodes THEN Deleted(task[n])
  ELSE IF ~Present(n) THEN Inserted(task[n], p.hash[n])
  ELSE IF n \in Downstream(Changed(p), PlanEdges(p))
       THEN [Invalidated(task[n]) EXCEPT !.hash = p.hash[n]]
       ELSE [task[n] EXCEPT !.hash = p.hash[n]]

SyncPlan(p) ==
  /\ task' = [n \in Node |-> SyncedRow(p, n)]
  /\ edges' = PlanEdges(p)
  /\ UNCHANGED cancelled

\* Mutant: what depends on an invalidated node is left as it is.
MutInvalidate(n) ==
  /\ Present(n)
  /\ SetRow(n, Invalidated(task[n]))
  /\ UNCHANGED <<edges, cancelled>>

Invalidate(n) ==
  /\ Present(n)
  /\ task' = [m \in Node |-> IF Present(m) /\ m \in Downstream({n}, edges)
                             THEN Invalidated(task[m]) ELSE task[m]]
  /\ UNCHANGED <<edges, cancelled>>

-----------------------------------------------------------------------------
(* Granting claims.                                                        *)

DependenciesSucceeded(t, n) == \A d \in edges[n] : t[d].state = "succeeded"

\* Mutant: begin() does not look at the dependencies.
MutBegin(n, w) ==
  /\ Present(n)
  /\ \/ task[n].state = "succeeded" /\ UNCHANGED task
     \/ /\ task[n].state # "succeeded"
        /\ task[n].attempt < MaxAttempt
        /\ SetRow(n, Granted(task[n], w, "none"))
  /\ UNCHANGED <<edges, cancelled>>

\* begin(): any present row that has not succeeded is (re)started by w, with
\* no lease.  Neither the cancel flag nor the present owner is looked at.
Begin(n, w) ==
  /\ Present(n)
  /\ \/ /\ task[n].state = "succeeded"
        /\ UNCHANGED task
     \/ /\ task[n].state # "succeeded"
        /\ DependenciesSucceeded(task, n)
        /\ task[n].attempt < MaxAttempt
        /\ SetRow(n, Granted(task[n], w, "none"))
  /\ UNCHANGED <<edges, cancelled>>

BeginRaises(n) ==
  \/ ~Present(n)
  \/ task[n].state # "succeeded" /\ ~DependenciesSucceeded(task, n)

\* The generation claims of o whose lease has run out.
OwnLapsed(o) ==
  {n \in GenNode : Running(n) /\ task[n].owner = o /\ task[n].lease = "lapsed"}

\* Mutant: no claim transaction takes a lapsed lease back.
MutExpired(keep) == task

\* The table after a claim transaction of `keep' expired the lapsed leases.
Expired(keep) ==
  [n \in Node |-> IF task[n].state = "running" /\ task[n].lease = "lapsed"
                     /\ task[n].owner \notin keep
                  THEN Released(task[n], "pending") ELSE task[n]]

Load(t, l) ==
  Cardinality({n \in GenNode : t[n].state = "running" /\ LaneOf[n] = l})

FreeLanes(t) ==
  {l \in Lanes :
     /\ Load(t, l) < Capacity[l]
     /\ ~(SharedGpu /\ l = "llm" /\ Load(t, "image_gpu") > 0)
     /\ ~(SharedGpu /\ l = "image_gpu" /\ Load(t, "llm") > 0)}

\* Mutant: serial stages are admitted like any other.
MutStageFree(t, n) == TRUE

\* No running node shares a serial stage with n.
StageFree(t, n) ==
  StageOf[n] \in SerialStages =>
    \A m \in Node : ~(t[m].state = "running" /\ StageOf[m] = StageOf[n])

Ready(t) ==
  {n \in GenNode : /\ t[n].state = "pending"
                   /\ DependenciesSucceeded(t, n)
                   /\ StageFree(t, n)
                   /\ LaneOf[n] \in FreeLanes(t)}

Priority == [llm |-> 0, image_gpu |-> 1, cpu_io |-> 2, commit |-> 3]

\* n comes before m in the order (load ratio, lane priority, node id).
Before(t, n, m) ==
  LET a  == LaneOf[n]
      b  == LaneOf[m]
      la == Load(t, a) * Capacity[b]
      lb == Load(t, b) * Capacity[a]
  IN  \/ la < lb
      \/ la = lb /\ Priority[a] < Priority[b]
      \/ la = lb /\ Priority[a] = Priority[b] /\ n <= m

\* claim_orchestrator_ready() granting n to o.
ClaimOrchestratorReady(o, n) ==
  LET t == Expired({o})
  IN  /\ OwnLapsed(o) = {}
      /\ n \in Ready(t)
      /\ \A m \in Ready(t) : Before(t, n, m)
      /\ t[n].attempt < MaxAttempt
      /\ task' = [t EXCEPT ![n] = Granted(@, o, "held")]
      /\ UNCHANGED <<edges, cancelled>>

\* claim_orchestrator_ready() finding nothing; the expiry is committed.
ClaimOrchestratorNone(o) ==
  /\ OwnLapsed(o) = {}
  /\ Ready(Expired({o})) = {}
  /\ task' = Expired({o})
  /\ UNCHANGED <<edges, cancelled>>

\* claim_ready() for any other worker id: no lanes, lowest node id first.
ClaimReady(w, n) ==
  LET t     == Expired({})
      ready == {m \in Node : t[m].state = "pending" /\ DependenciesSucceeded(t, m)}
  IN  /\ n \in ready
      /\ \A m \in ready : n <= m
      /\ t[n].attempt < MaxAttempt
      /\ task' = [t EXCEPT ![n] = Granted(@, w, "held")]
      /\ UNCHANGED <<edges, cancelled>>

\* renew_orchestrator_claims(): one heartbeat of o.
RenewOrchestratorClaims(o) ==
  /\ OwnLapsed(o) = {}
  /\ UNCHANGED ledger

\* Time passes beyond lease_until of n.
Lapse(n) ==
  /\ Running(n)
  /\ task[n].lease = "held"
  /\ SetRow(n, [task[n] EXCEPT !.lease = "lapsed"])
  /\ UNCHANGED <<edges, cancelled>>

-----------------------------------------------------------------------------
(* Ending claims.                                                          *)

\* A snapshot of a running row, as _snapshot_claim takes it.
Claim == [node : Node, attempt : Nat, owner : Owner \cup {LocalOwner, Null},
          hash : Hash \cup {Null}, born : Nat]

\* What _snapshot_claim reads from the running row n, with the input hash and
\* the incarnation of that row (history: neither is part of the fence).
ClaimOf(n) == [node |-> n, attempt |-> task[n].attempt, owner |-> task[n].owner,
               hash |-> task[n].hash, born |-> task[n].born]

\* The row is still running under exactly this attempt and owner.
ClaimCurrent(n, a, w) ==
  Running(n) /\ task[n].attempt = a /\ task[n].owner = w

\* Mutant: the publication is not fenced by the claim.
MutCommitSuccess(n, a, w, h) ==
  /\ Present(n)
  /\ SetRow(n, Published(task[n], h))
  /\ UNCHANGED <<edges, cancelled>>

\* _commit_success(): the fenced publication; h is what was computed.
CommitSuccess(n, a, w, h) ==
  /\ ClaimCurrent(n, a, w)
  /\ SetRow(n, Published(task[n], h))
  /\ UNCHANGED <<edges, cancelled>>

\* _fenced_fail(): a stale claim fails silently.
FencedFail(n, a, w) ==
  /\ IF ClaimCurrent(n, a, w) THEN SetRow(n, Released(task[n], "failed"))
                              ELSE UNCHANGED task
  /\ UNCHANGED <<edges, cancelled>>

\* succeed(): guarded by the state alone.
Succeed(n, h) ==
  /\ Running(n)
  /\ SetRow(n, Published(task[n], h))
  /\ UNCHANGED <<edges, cancelled>>

\* fail(): CANCELLED, and INPUT_REQUIRED when asked for again, are left alone.
Fail(n, inputRequired) ==
  LET target == IF inputRequired THEN "input_required" ELSE "failed"
  IN  /\ \/ Running(n) /\ SetRow(n, Released(task[n], target))
         \/ /\ inputRequired /\ task[n].state = "pending"
            /\ SetRow(n, Released(task[n], target))
      /\ UNCHANGED <<edges, cancelled>>

\* The two statements of retry(): the SELECT that accepts the state, and the
\* UPDATE, which does not look at the state again.
RetryAccepts(n) == task[n].state \in Stopped

RetryUpdate(n) ==
  /\ IF Present(n) THEN SetRow(n, Released(task[n], "pending"))
                   ELSE UNCHANGED task
  /\ UNCHANGED <<edges, cancelled>>

Cancel(n) ==
  /\ Present(n)
  /\ task[n].state # "succeeded"
  /\ SetRow(n, Released(task[n], "cancelled"))
  /\ UNCHANGED <<edges, cancelled>>

\* Mutant: a cancelled row keeps its owner and lease.
MutCancelRun ==
  /\ cancelled' = TRUE
  /\ task' = [n \in Node |-> IF task[n].state \in {"absent", "succeeded"}
                             THEN task[n] ELSE [task[n] EXCEPT !.state = "cancelled"]]
  /\ UNCHANGED edges

\* Mutant: cancellation does not spare what has succeeded.
MutCancelAll ==
  /\ cancelled' = TRUE
  /\ task' = [n \in Node |-> IF Present(n) THEN Released(task[n], "cancelled") ELSE task[n]]
  /\ UNCHANGED edges

CancelRun ==
  /\ cancelled' = TRUE
  /\ task' = [n \in Node |-> IF task[n].state \in {"absent", "succeeded"}
                             THEN task[n] ELSE Released(task[n], "cancelled")]
  /\ UNCHANGED edges

ResumeRun ==
  /\ cancelled' = FALSE
  /\ task' = [n \in Node |-> IF task[n].state = "cancelled"
                             THEN [task[n] EXCEPT !.state = "pending"]
                             ELSE task[n]]
  /\ UNCHANGED edges
=============================================================================
