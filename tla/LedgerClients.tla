---------------------------- MODULE LedgerClients ----------------------------
(***************************************************************************)
(* The ledger under its most general clients: any number of orchestrators, *)
(* workers and MCP calls issue any ledger transaction at any time, in any  *)
(* order.  What holds here holds for every program that only goes through  *)
(* the ledger's operations; module Orchestrator is shown to be one.        *)
(*                                                                         *)
(* Two things clients remember between transactions matter to the ledger:  *)
(* the claims they took a snapshot of, which they may present at any later *)
(* time, and the rows for which the SELECT of retry() has been answered    *)
(* and the UPDATE is still to come.                                        *)
(***************************************************************************)
EXTENDS WorkLedger

CONSTANTS
  OneExecutor, \* at most one process executes the run's nodes at a time
  MaxBorn,     \* bound: incarnations of a row
  MaxClaims    \* bound: claims remembered at a time

ASSUME ClientAssumption ==
  /\ OneExecutor \in BOOLEAN
  /\ MaxBorn \in Nat
  /\ MaxClaims \in Nat

VARIABLES
  claims,     \* snapshots (attempt, owner) clients hold, with the row
              \* incarnation and input hash they were taken from (history)
  retrying    \* nodes whose retry() stands between its two statements

vars == <<task, edges, cancelled, claims, retrying>>

Init ==
  /\ LedgerInit
  /\ claims = {}
  /\ retrying = {}

\* While one process executes the run, nobody publishes a node that this
\* same process is about to put back to pending.
MayPublish(n) == OneExecutor => n \notin retrying

-----------------------------------------------------------------------------
Local == UNCHANGED <<claims, retrying>>

ClientSync(p) ==
  /\ \A n \in p.nodes : Present(n) \/ task[n].born < MaxBorn
  /\ SyncPlan(p)
  /\ Local

ClientClaim(n) ==
  \/ \E o \in Owner : ClaimOrchestratorReady(o, n) /\ Local
  \/ ClaimReady(LocalOwner, n) /\ Local

ClientPoll == \E o \in Owner : ClaimOrchestratorNone(o) /\ Local

ClientHeartbeat == \E o \in Owner : RenewOrchestratorClaims(o) /\ Local

ClientBegin(n) == Begin(n, LocalOwner) /\ Local

Snapshot(n) ==
  /\ Running(n)
  /\ Cardinality(claims) < MaxClaims
  /\ claims' = claims \cup {ClaimOf(n)}
  /\ UNCHANGED <<ledger, retrying>>

\* Clients end, or their process dies, without using what they remember.
Depart ==
  /\ claims' \in SUBSET claims
  /\ retrying' \in SUBSET retrying
  /\ UNCHANGED ledger

\* h is the input the holder worked on: whatever it liked.
ClientCommit(c, h) ==
  /\ MayPublish(c.node)
  /\ CommitSuccess(c.node, c.attempt, c.owner, h)
  /\ Local

ClientFencedFail(c) == FencedFail(c.node, c.attempt, c.owner) /\ Local

ClientSucceed(n, h) == MayPublish(n) /\ Succeed(n, h) /\ Local

ClientFail(n) == \E ir \in BOOLEAN : Fail(n, ir) /\ Local

RetrySelect(n) ==
  /\ RetryAccepts(n)
  /\ retrying' = retrying \cup {n}
  /\ UNCHANGED <<ledger, claims>>

\* Several clients may stand between the two statements for the same node.
RetryWrite(n) ==
  /\ n \in retrying
  /\ RetryUpdate(n)
  /\ retrying' \in {retrying, retrying \ {n}}
  /\ UNCHANGED claims

ClientCancel(n) == Cancel(n) /\ Local
ClientCancelRun == CancelRun /\ Local
ClientResumeRun == ResumeRun /\ Local
ClientInvalidate(n) == Invalidate(n) /\ Local
Tick(n) == Lapse(n) /\ Local

Next ==
  \/ \E p \in Plans : ClientSync(p)
  \/ ClientPoll
  \/ ClientHeartbeat
  \/ ClientCancelRun
  \/ ClientResumeRun
  \/ Depart
  \/ \E n \in Node :
       \/ ClientClaim(n)
       \/ ClientBegin(n)
       \/ Snapshot(n)
       \/ \E h \in Hash : ClientSucceed(n, h)
       \/ ClientFail(n)
       \/ RetrySelect(n)
       \/ RetryWrite(n)
       \/ ClientCancel(n)
       \/ ClientInvalidate(n)
       \/ Tick(n)
  \/ \E c \in claims :
       \/ \E h \in Hash : ClientCommit(c, h)
       \/ ClientFencedFail(c)

Spec == Init /\ [][Next]_vars

-----------------------------------------------------------------------------
(* Properties.                                                             *)

TypeOK ==
  /\ LedgerTypeOK
  /\ claims \subseteq Claim
  /\ retrying \subseteq Node

\* A node is running or succeeded only while every node it depends on is
\* succeeded: no client sequence of claims, invalidations, retries and plan
\* changes leaves work standing on a dependency that is to be redone
\* (claim_ready, begin, sync_plan, _invalidate_many, retry).
DepsDone ==
  \A n \in Node : task[n].state \in {"running", "succeeded"} =>
    \A d \in edges[n] : task[d].state = "succeeded"

\* A claim is live while the very row it was read from is still running
\* under the same attempt and owner.
Live(c) ==
  /\ task[c.node].born = c.born
  /\ ClaimCurrent(c.node, c.attempt, c.owner)

\* The fence of _commit_success: a claim that went stale (expired, failed,
\* cancelled, invalidated, taken over) never becomes current again, so a
\* delayed worker cannot publish over a later grant of the same row.
StaleStaysStale == [][\A c \in claims : ~Live(c) => ~Live(c)']_vars

\* A live claim still refers to the input it was granted for: sync_plan never
\* changes the input under a running row without taking the claim away.
InputBound == \A c \in claims : Live(c) => task[c.node].hash = c.hash

\* A row carries completion evidence exactly while it is succeeded and an
\* owner exactly while it is running (retry, cancel_run, resume_run and the
\* lease expiry never leave a receipt or an owner behind).
RowEvidence ==
  \A n \in Node : /\ task[n].receipt # Null <=> task[n].state = "succeeded"
                  /\ task[n].owner # Null <=> task[n].state = "running"

\* The ledger implements the abstract work graph: whatever its clients do, the
\* succeeded rows grow one node at a time, dependencies first, and shrink only
\* to a set closed under the dependencies (sync_plan, _invalidate_many).
Succeeded == {n \in Node : task[n].state = "succeeded"}

WG == INSTANCE WorkGraph WITH done <- Succeeded, deps <- edges

ImplementsWorkGraph == WG!Spec
=============================================================================
