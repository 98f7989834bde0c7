---------------------------- MODULE TransportPool ----------------------------
(***************************************************************************)
(* MCPTransportPool: tool calls from many threads over a few persistent    *)
(* sessions.  Each session worker owns an event loop, a bounded queue and  *)
(* at most one child process; a call reserves the least loaded worker,     *)
(* starts its thread, puts a request into its queue and waits for a        *)
(* future.  _execute is the one of runtime_hot_path_contract, which waits  *)
(* without blocking and repeats the calls of verifiers.                    *)
(*                                                                         *)
(* A client is one call of call_tool in a scope (stage, environment and    *)
(* timeout).  It may be cancelled wherever it awaits.  The tools a child   *)
(* process offers are fixed while it lives; another process may offer      *)
(* others.  The initialisation of a session, the listing and the calls     *)
(* have timeouts: they fail rather than hang.  The spawn of a child and    *)
(* the exit of its context have none; they are taken to end.               *)
(***************************************************************************)
EXTENDS Naturals, Sequences, FiniteSets, FiniteSetsExt

CONSTANTS
  Client,
  Scope, ScopeOf,    \* the scope of each client's call
  Safe,              \* the clients whose tool is in _MCP_RETRY_SAFE_VERIFIERS
  Surface,           \* fingerprints of tools/list
  NWorkers,          \* worker_count
  MaxPending,        \* max_pending_per_worker
  MaxFailures,       \* _MCP_MAX_CONSECUTIVE_INFRA_FAILURES
  Null, End

ASSUME TransportAssumption ==
  /\ ScopeOf \in [Client -> Scope] /\ Safe \subseteq Client
  /\ {NWorkers, MaxPending, MaxFailures} \subseteq Nat \ {0}
  /\ Null \notin Surface \cup Nat
  /\ Surface \cap {"none", "open", "cancelled", "value", "delivered", "transient", "fault"} = {}

VARIABLES
  pc,         \* of each client
  req,        \* its current request
  sent,       \* how many requests it has made
  failures,   \* and how many of them failed for a passing reason
  on,         \* the worker it has reserved
  future,     \* the result of each request
  pending,    \* of each worker
  wpc,        \* where its thread is
  closed,     \* its flag
  putters,    \* what waits for room in its queue
  queue,
  session,    \* its child process: a scope and the tools it offers
  cur,        \* the request it works on
  fps,        \* _schema_fingerprints
  closer,     \* how far close() has come
  executed,   \* history: the requests a tool was called for, and the tools offered then
  gone        \* history: the requests cancelled before a worker took them

clientVars == <<pc, req, sent, failures, on>>
workerVars == <<wpc, session, cur>>
queueVars == <<putters, queue>>
closeVars == <<closed, closer>>
histVars == <<executed, gone>>
vars == <<clientVars, future, pending, workerVars, queueVars, fps, closeVars, histVars>>

Worker == 1 .. NWorkers
Request == [who : Client, n : 1 .. MaxFailures + 1, op : {"list", "call"},
            expected : Surface \cup {Null}]

ASSUME MarkerAssumption ==
  Null \notin Request \cup (Scope \X Surface) /\ End \notin Request

Fault == {"transient", "fault"}
Result == {"none", "open", "cancelled", "value", "delivered"} \cup Surface \cup Fault
Id(r) == <<r.who, r.n>>
Ids == Client \X (1 .. MaxFailures + 1)

\* The pool's flag.
PoolClosed == closer > 0

TypeOK ==
  /\ pc \in [Client -> {"start", "reserve", "ensure", "enqueue", "put", "wait",
                        "ok", "failed"}]
  /\ req \in [Client -> Request \cup {Null}]
  /\ sent \in [Client -> 0 .. MaxFailures + 1]
  /\ failures \in [Client -> 0 .. MaxFailures]
  /\ on \in [Client -> Worker \cup {Null}]
  /\ future \in [Ids -> Result]
  /\ pending \in [Worker -> Nat]
  /\ wpc \in [Worker -> {"none", "idle", "open", "op", "exec", "ended", "dead"}]
  /\ closed \in [Worker -> BOOLEAN]
  /\ putters \in [Worker -> SUBSET (Request \cup {End})]
  /\ \A w \in Worker : queue[w] \in Seq(Request \cup {End}) /\ Len(queue[w]) <= MaxPending
  /\ session \in [Worker -> (Scope \X Surface) \cup {Null}]
  /\ cur \in [Worker -> Request \cup {Null}]
  /\ fps \in [Scope -> Surface \cup {Null}]
  /\ closer \in 0 .. 2 * NWorkers + 1
  /\ executed \subseteq Ids \X Surface /\ gone \subseteq Ids

Init ==
  /\ pc = [c \in Client |-> "start"]
  /\ req = [c \in Client |-> Null]
  /\ sent = [c \in Client |-> 0]
  /\ failures = [c \in Client |-> 0]
  /\ on = [c \in Client |-> Null]
  /\ future = [i \in Ids |-> "none"]
  /\ pending = [w \in Worker |-> 0]
  /\ wpc = [w \in Worker |-> "none"]
  /\ closed = [w \in Worker |-> FALSE]
  /\ putters = [w \in Worker |-> {}]
  /\ queue = [w \in Worker |-> <<>>]
  /\ session = [w \in Worker |-> Null]
  /\ cur = [w \in Worker |-> Null]
  /\ fps = [s \in Scope |-> Null]
  /\ closer = 0
  /\ executed = {} /\ gone = {}

-----------------------------------------------------------------------------
(* Futures                                                                 *)

\* The requests of w among ids whose completion runs _release_pending.
Released(w, ids) == {i \in ids : on[i[1]] = w}

\* The futures ids, none of them done, complete with result.
Complete(ids, result) ==
  /\ future' = [i \in Ids |-> IF i \in ids THEN result ELSE future[i]]
  /\ pending' = [w \in Worker |->
       LET n == Cardinality(Released(w, ids))
       IN  IF n < pending[w] THEN pending[w] - n ELSE 0]

Open(r) == future[Id(r)] = "open"

\* A worker has taken request i from its queue.
Taken(i) == \E w \in Worker : cur[w] # Null /\ Id(cur[w]) = i

-----------------------------------------------------------------------------
(* A client: call_tool, list_tools and _execute                            *)

Go(c, where) == pc' = [pc EXCEPT ![c] = where]

\* The call is over, and with it what it kept.
Leave(c, how) ==
  /\ Go(c, how)
  /\ req' = [req EXCEPT ![c] = Null]
  /\ failures' = [failures EXCEPT ![c] = 0]
  /\ on' = [on EXCEPT ![c] = Null]

NewRequest(c, op, expected) ==
  [who |-> c, n |-> sent[c] + 1, op |-> op, expected |-> expected]

\* call_tool looks for the fingerprint of its scope and lists the tools without one.
Begin(c) ==
  /\ pc[c] = "start"
  /\ LET e == fps[ScopeOf[c]] IN
     req' = [req EXCEPT ![c] = NewRequest(c, IF e = Null THEN "list" ELSE "call", e)]
  /\ Go(c, "reserve")
  /\ UNCHANGED <<sent, failures, on, future, pending, workerVars, queueVars, fps,
                 closeVars, histVars>>

LeastLoaded ==
  Min({w \in Worker : \A v \in Worker : pending[w] <= pending[v]})

Reserve(c) ==
  /\ pc[c] = "reserve"
  /\ IF PoolClosed THEN Leave(c, "failed") /\ UNCHANGED <<sent, future, pending>>
     ELSE /\ Go(c, "ensure")
          /\ sent' = [sent EXCEPT ![c] = @ + 1]
          /\ on' = [on EXCEPT ![c] = LeastLoaded]
          /\ pending' = [pending EXCEPT ![LeastLoaded] = @ + 1]
          /\ future' = [future EXCEPT ![Id(req[c])] = "open"]
          /\ UNCHANGED <<req, failures>>
  /\ UNCHANGED <<workerVars, queueVars, fps, closeVars, histVars>>

\* Mutant: every call is repeated.
MutRetries(c, result) == result = "transient" /\ failures[c] + 1 < MaxFailures

Retries(c, result) ==
  /\ c \in Safe /\ req[c].op = "call"
  /\ result = "transient" /\ failures[c] + 1 < MaxFailures

\* An exception reaches _execute: repeat the request, or give up.
Raise(c, result) ==
  IF Retries(c, result)
  THEN /\ Go(c, "reserve")
       /\ failures' = [failures EXCEPT ![c] = @ + 1]
       /\ req' = [req EXCEPT ![c].n = sent[c] + 1]
       /\ on' = [on EXCEPT ![c] = Null]
  ELSE Leave(c, "failed")

\* _submit_without_blocking_loop fails: its request is cancelled.
SubmitFails(c, result) ==
  /\ Complete({Id(req[c])} \cap {i \in Ids : future[i] = "open"}, "cancelled")
  /\ gone' = gone \cup {i \in {Id(req[c])} : future[i] = "open" /\ ~Taken(i)}
  /\ putters' = [w \in Worker |-> putters[w] \ {req[c]}]
  /\ Raise(c, result)
  /\ UNCHANGED <<sent, workerVars, queue, fps, closeVars, executed>>

\* _ensure_started and the look at the flag and at _startup_error: the error is raised
\* from what ended the thread, which decides whether it passes for transient.
EnsureStarted(c) ==
  /\ pc[c] = "ensure"
  /\ IF closed[on[c]] THEN SubmitFails(c, "fault")
     ELSE IF wpc[on[c]] = "dead" THEN \E f \in Fault : SubmitFails(c, f)
     ELSE /\ wpc' = [wpc EXCEPT ![on[c]] = IF @ = "none" THEN "idle" ELSE @]
          /\ Go(c, "enqueue")
          /\ UNCHANGED <<req, sent, failures, on, future, pending, session, cur, queueVars,
                         fps, closeVars, histVars>>

\* run_coroutine_threadsafe(queue.put(request)); the loop may be over by now.
Enqueue(c) ==
  /\ pc[c] = "enqueue"
  /\ IF wpc[on[c]] \in {"ended", "dead"} THEN \E f \in Fault : SubmitFails(c, f)
     ELSE /\ putters' = [putters EXCEPT ![on[c]] = @ \cup {req[c]}]
          /\ Go(c, "put")
          /\ UNCHANGED <<req, sent, failures, on, future, pending, workerVars, queue,
                         fps, closeVars, histVars>>

\* The wait for the put ends: by success, by its timeout, or because the loop is over.
PutDone(c) ==
  /\ pc[c] = "put"
  /\ req[c] \notin putters[on[c]] /\ future[Id(req[c])] # "cancelled"
  /\ Go(c, "wait")
  /\ UNCHANGED <<req, sent, failures, on, future, pending, workerVars, queueVars, fps,
                 closeVars, histVars>>

PutFails(c) ==
  /\ pc[c] = "put"
  /\ IF future[Id(req[c])] = "cancelled" THEN SubmitFails(c, "fault")
     ELSE SubmitFails(c, "transient")

\* Mutant: the tools listed last are the registered ones.
MutRegistered(s, listed) == TRUE

\* _register_schema: the first listing of a scope is kept, another one refused
Registered(s, listed) == fps[s] = Null

\* The future is done.  A listing is registered and the fingerprint looked up again; if
\* close() empties the map in between, the reservation fails as the look-up does.
Deliver(c) ==
  /\ pc[c] = "wait"
  /\ LET result == future[Id(req[c])]
         s == ScopeOf[c]
     IN  /\ result # "open"
         /\ future' = [future EXCEPT ![Id(req[c])] = "delivered"]
         /\ IF req[c].op = "list" /\ result \in Surface
            THEN /\ fps' = IF Registered(s, result) THEN [fps EXCEPT ![s] = result] ELSE fps
                 /\ IF fps'[s] # result THEN Leave(c, "failed")
                    ELSE /\ Go(c, "reserve")
                         /\ req' = [req EXCEPT ![c] = NewRequest(c, "call", result)]
                         /\ on' = [on EXCEPT ![c] = Null]
                         /\ UNCHANGED failures
            ELSE /\ IF result = "value" THEN Leave(c, "ok") ELSE Raise(c, result)
                 /\ UNCHANGED fps
  /\ UNCHANGED <<sent, pending, workerVars, queueVars, closeVars, histVars>>

\* The caller is cancelled while it awaits the thread, the put or the result.
CancelCall(c) ==
  /\ pc[c] \in {"ensure", "put", "wait"}
  /\ future[Id(req[c])] = "open"
  /\ Complete({Id(req[c])}, "cancelled")
  /\ gone' = gone \cup {i \in {Id(req[c])} : future[i] = "open" /\ ~Taken(i)}
  /\ putters' = [w \in Worker |-> putters[w] \ {req[c]}]
  /\ Leave(c, "failed")
  /\ UNCHANGED <<sent, workerVars, queue, fps, closeVars, executed>>

ClientStep(c) ==
  \/ Begin(c) \/ Reserve(c) \/ EnsureStarted(c)
  \/ Enqueue(c) \/ PutDone(c) \/ Deliver(c)

-----------------------------------------------------------------------------
(* A worker: _main                                                         *)

\* A waiting put, in any order, goes through when there is room.
Enter(w) ==
  /\ wpc[w] \notin {"none", "ended", "dead"}
  /\ Len(queue[w]) < MaxPending
  /\ \E x \in putters[w] :
       /\ queue' = [queue EXCEPT ![w] = Append(@, x)]
       /\ putters' = [putters EXCEPT ![w] = @ \ {x}]
  /\ UNCHANGED <<clientVars, future, pending, workerVars, fps, closeVars, histVars>>

\* The loop is over: the puts that still wait are cancelled with it.
LoopEnds(w, ids, result, state) ==
  /\ LET waiting == {Id(x) : x \in putters[w] \ {End}}
         left(i) == IF i \in waiting THEN "cancelled" ELSE result
         done == {i \in waiting \cup ids : future[i] = "open"}
     IN  /\ future' = [i \in Ids |-> IF i \in done THEN left(i) ELSE future[i]]
         /\ pending' = [v \in Worker |->
              IF v = w THEN pending[v] - Cardinality(done) ELSE pending[v]]
         /\ gone' = gone \cup waiting
  /\ putters' = [putters EXCEPT ![w] = {}]
  /\ wpc' = [wpc EXCEPT ![w] = state]
  /\ session' = [session EXCEPT ![w] = Null]
  /\ cur' = [cur EXCEPT ![w] = Null]

\* Mutant: a request is taken up whatever became of it.
MutSkipped(r) == FALSE

Skipped(r) == future[Id(r)] = "cancelled"

Take(w) ==
  /\ wpc[w] = "idle" /\ queue[w] # <<>>
  /\ queue' = [queue EXCEPT ![w] = Tail(@)]
  /\ LET r == Head(queue[w]) IN
     IF r = End THEN LoopEnds(w, {}, "none", "ended")
     ELSE /\ IF Skipped(r) THEN UNCHANGED <<wpc, cur>>
             ELSE /\ cur' = [cur EXCEPT ![w] = r]
                  /\ wpc' = [wpc EXCEPT ![w] =
                       IF session[w] # Null /\ session[w][1] = ScopeOf[r.who]
                       THEN "op" ELSE "open"]
          /\ UNCHANGED <<future, pending, putters, session, gone>>
  /\ UNCHANGED <<clientVars, fps, closeVars, executed>>

Turn(w, where) == wpc' = [wpc EXCEPT ![w] = where]

\* Back to the queue, with or without the session.
Back(w, keep) ==
  /\ Turn(w, "idle")
  /\ cur' = [cur EXCEPT ![w] = Null]
  /\ session' = IF keep THEN session ELSE [session EXCEPT ![w] = Null]

\* set_result, unless the future is done.  If it is cancelled after that look, the
\* exception of set_result takes the session along.
SetResult(w, result) ==
  /\ IF Open(cur[w]) THEN Complete({Id(cur[w])}, result) /\ Back(w, TRUE)
     ELSE (\E keep \in BOOLEAN : Back(w, keep)) /\ UNCHANGED <<future, pending>>
  /\ UNCHANGED <<queueVars, gone>>

\* Mutant: the requests in the queue are forgotten.
MutFailQueued(w) == {}

\* _fail_queued
FailQueued(w) == {Id(queue[w][i]) : i \in {k \in DOMAIN queue[w] : queue[w][k] # End}}

\* set_exception, unless the future is done, and the end of the session.  If it is
\* cancelled after that look, set_exception raises outside of any handler and the thread
\* dies: all that is queued fails, and so will what is submitted later.
SetException(w, f) ==
  IF Open(cur[w])
  THEN Complete({Id(cur[w])}, f) /\ Back(w, FALSE) /\ UNCHANGED <<queueVars, gone>>
  ELSE \/ Back(w, FALSE) /\ UNCHANGED <<future, pending, queueVars, gone>>
       \/ /\ LoopEnds(w, FailQueued(w), f, "dead")
          /\ queue' = [queue EXCEPT ![w] = <<>>]

\* Close the session of another scope, open one, list its tools.
OpenSession(w) ==
  /\ wpc[w] = "open"
  /\ \/ /\ \E t \in Surface : session' = [session EXCEPT ![w] = <<ScopeOf[cur[w].who], t>>]
        /\ Turn(w, "op")
        /\ UNCHANGED <<future, pending, cur, queueVars, gone>>
     \/ \E f \in Fault : SetException(w, f)
  /\ UNCHANGED <<clientVars, fps, closeVars, executed>>

\* "schema drift detected before execution"
Drifted(w) == session[w][2] # cur[w].expected

List(w) ==
  /\ wpc[w] = "op" /\ cur[w].op = "list"
  /\ SetResult(w, session[w][2]) \/ \E f \in Fault : SetException(w, f)
  /\ UNCHANGED <<clientVars, fps, closeVars, executed>>

Call(w) ==
  /\ wpc[w] = "op" /\ cur[w].op = "call"
  /\ IF Drifted(w) THEN SetException(w, "fault") /\ UNCHANGED executed
     ELSE /\ Turn(w, "exec")
          /\ executed' = executed \cup {<<Id(cur[w]), session[w][2]>>}
          /\ UNCHANGED <<future, pending, session, cur, queueVars, gone>>
  /\ UNCHANGED <<clientVars, fps, closeVars>>

\* session.call_tool returns, fails or times out.
Return(w) ==
  /\ wpc[w] = "exec"
  /\ SetResult(w, "value") \/ \E f \in Fault : SetException(w, f)
  /\ UNCHANGED <<clientVars, fps, closeVars, executed>>

WorkerStep(w) ==
  Enter(w) \/ Take(w) \/ OpenSession(w) \/ List(w) \/ Call(w) \/ Return(w)

-----------------------------------------------------------------------------
(* close()                                                                 *)

\* The flag and the map; a call that looks in between fails in either case.
ClosePool ==
  /\ closer = 0
  /\ closer' = 1
  /\ fps' = [s \in Scope |-> Null]
  /\ UNCHANGED <<clientVars, future, pending, workerVars, queueVars, closed, histVars>>

\* One worker after the other: its flag, then its end marker.
CloseWorker(w) ==
  /\ closer \in {2 * w - 1, 2 * w}
  /\ closer' = closer + 1
  /\ closed' = IF closer = 2 * w - 1 THEN [closed EXCEPT ![w] = TRUE] ELSE closed
  /\ putters' = IF closer = 2 * w /\ wpc[w] \notin {"none", "ended", "dead"}
                THEN [putters EXCEPT ![w] = @ \cup {End}] ELSE putters
  /\ UNCHANGED <<clientVars, future, pending, workerVars, queue, fps, histVars>>

Next ==
  \/ \E c \in Client : ClientStep(c) \/ PutFails(c) \/ CancelCall(c)
  \/ \E w \in Worker : WorkerStep(w) \/ CloseWorker(w)
  \/ ClosePool

Spec == Init /\ [][Next]_vars
-----------------------------------------------------------------------------
(* Properties                                                              *)

\* "Every scope also owns one canonical raw tools/list fingerprint" (MCPTransportPool):
\* all tools ever called in a scope were called on child processes that offered the
\* same tools, over every worker, restart, failure, first listing and close().
OneSurface ==
  \A x, y \in executed : ScopeOf[x[1][1]] = ScopeOf[y[1][1]] => x[2] = y[2]

\* "Never turn an already-cancelled queued request into a late write": no tool is called
\* for a request that its caller cancelled, or gave up putting, before a worker took it.
NoLateEffect == \A x \in executed : x[1] \notin gone

\* A call that is answered was executed, and the tool of a call that is not a verifier's
\* is never called twice, whatever timed out or failed on the way.
AtMostOnce ==
  \A c \in Client :
    LET calls == {x \in executed : x[1][1] = c}
    IN  /\ c \notin Safe => Cardinality(calls) <= 1
        /\ pc[c] = "ok" => \E x \in calls : x[1] = <<c, sent[c]>>

\* Behind the end marker of a worker that close() ended.
Behind(c) == wpc[on[c]] = "ended" /\ \E i \in DOMAIN queue[on[c]] : queue[on[c]][i] = req[c]

\* Who waits for a result has its request with a worker that will come to it, also when
\* a worker's thread dies.  The exception: a request put behind the end marker stays
\* there without an answer.
NothingForgotten ==
  \A c \in Client : pc[c] = "wait" /\ Open(req[c]) =>
    \/ Taken(Id(req[c]))
    \/ wpc[on[c]] \notin {"none", "ended", "dead"}
         /\ \E i \in DOMAIN queue[on[c]] : queue[on[c]][i] = req[c]
    \/ Behind(c)
===============================================================================
