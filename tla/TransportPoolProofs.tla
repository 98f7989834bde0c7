------------------------- MODULE TransportPoolProofs -------------------------
(***************************************************************************)
(* Theorems about the transport pool, for any number of calls, scopes,     *)
(* workers and tool surfaces.                                              *)
(***************************************************************************)
EXTENDS TransportPool, FiniteSetTheorems, SequenceTheorems, WellFoundedInduction, TLAPS

\* Where a call has a worker reserved.
Held == {"ensure", "enqueue", "put", "wait"}

Types ==
  /\ pc \in [Client -> {"start", "reserve", "ok", "failed"} \cup Held]
  /\ req \in [Client -> Request \cup {Null}]
  /\ sent \in [Client -> 0 .. MaxFailures + 1]
  /\ failures \in [Client -> Nat]
  /\ on \in [Client -> Worker \cup {Null}]
  /\ future \in [Ids -> Result]
  /\ wpc \in [Worker -> {"none", "idle", "open", "op", "exec", "ended", "dead"}]
  /\ closed \in [Worker -> BOOLEAN]
  /\ putters \in [Worker -> SUBSET (Request \cup {End})]
  /\ queue \in [Worker -> Seq(Request \cup {End})]
  /\ \A w \in Worker : Len(queue[w]) <= MaxPending
  /\ session \in [Worker -> (Scope \X Surface) \cup {Null}]
  /\ cur \in [Worker -> Request \cup {Null}]
  /\ fps \in [Scope -> Surface \cup {Null}]
  /\ closer \in 0 .. 2 * NWorkers + 1
  /\ executed \subseteq Ids \X Surface /\ gone \subseteq Ids

\* What a client keeps, by where it is: a call is listed for at most once, and a verifier's
\* call is repeated fewer than MaxFailures times.
ClientInv ==
  \A c \in Client :
    /\ failures[c] < MaxFailures
    /\ pc[c] \in {"start", "ok", "failed"} => req[c] = Null /\ on[c] = Null
    /\ pc[c] = "start" => sent[c] = 0 /\ failures[c] = 0
    /\ pc[c] = "reserve" => on[c] = Null /\ req[c] # Null /\ req[c].n = sent[c] + 1
    /\ pc[c] \in Held => on[c] # Null /\ req[c] # Null /\ req[c].n = sent[c]
    /\ req[c] # Null =>
         /\ req[c].who = c
         /\ req[c].op = "list" => req[c].n = 1 /\ failures[c] = 0
         /\ req[c].op = "call" => req[c].n <= failures[c] + 2 /\ req[c].expected \in Surface

\* A future is open while its call waits for it; one not yet made is not.
FutureInv ==
  \A i \in Ids :
    /\ i[2] > sent[i[1]] => future[i] = "none"
    /\ future[i] = "open" => pc[i[1]] \in Held /\ i[2] = sent[i[1]]

\* A worker works on a request, with a session where it has come to that.
WorkerInv ==
  \A w \in Worker :
    /\ cur[w] # Null <=> wpc[w] \in {"open", "op", "exec"}
    /\ wpc[w] \in {"op", "exec"} => session[w] # Null
    /\ wpc[w] \in {"none", "dead"} => queue[w] = <<>>
    /\ wpc[w] = "exec" => \E x \in executed : x[1] = Id(cur[w])
    /\ \A k \in 1 .. Len(queue[w]) :
         queue[w][k] # End /\ Open(queue[w][k]) =>
           req[queue[w][k].who] = queue[w][k] /\ on[queue[w][k].who] = w

\* A put that waits is its caller's.
PutInv ==
  \A w \in Worker : \A x \in putters[w] \ {End} :
    /\ x = req[x.who] /\ on[x.who] = w /\ pc[x.who] = "put" /\ Open(x)

\* A request was handed to a worker.
Queued(i) == \E w \in Worker : \E k \in 1 .. Len(queue[w]) : queue[w][k] # End /\ Id(queue[w][k]) = i
Executed(i) == \E x \in executed : x[1] = i
Placed(i) == Queued(i) \/ Taken(i) \/ Executed(i)

\* Nothing was handed to a worker before its put came through.
FreshInv ==
  /\ \A i \in Ids :
       i[2] > sent[i[1]] \/ (pc[i[1]] \in {"ensure", "enqueue"} /\ i[2] = sent[i[1]]) => ~Placed(i)
  /\ \A w \in Worker : \A x \in putters[w] \ {End} : ~Placed(Id(x))

\* What was cancelled before a worker took it stays cancelled, and nobody awaits it; what
\* was executed is done or still worked on.
GoneInv ==
  /\ \A i \in gone : future[i] = "cancelled" /\ ~Taken(i) /\ ~Executed(i)
  /\ \A c \in Client : pc[c] = "wait" => Id(req[c]) \notin gone
  /\ \A x \in executed : future[x[1]] = "open" => Taken(x[1])
  /\ \A i \in Ids : future[i] = "value" => Executed(i)

\* A future is open until its put is scheduled: nobody else has the request.
EarlyInv == \A c \in Client : pc[c] \in {"ensure", "enqueue"} => future[Id(req[c])] = "open"

\* Who awaits a put or a result finds its request with a worker.
KeptInv ==
  \A c \in Client :
    /\ pc[c] = "wait" => req[c] \notin putters[on[c]]
    /\ pc[c] \in {"put", "wait"} /\ Open(req[c]) =>
         \/ Taken(Id(req[c]))
         \/ req[c] \in putters[on[c]]
         \/ \E k \in 1 .. Len(queue[on[c]]) : queue[on[c]][k] = req[c]

\* A surface that calls of a scope were made with, or will be.
Pinned(s, e) ==
  \/ \E x \in executed : ScopeOf[x[1][1]] = s /\ x[2] = e
  \/ \E c \in Client : pc[c] \in Held /\ ScopeOf[c] = s /\ req[c].op = "call" /\ req[c].expected = e
  \/ \E w \in Worker : /\ cur[w] # Null /\ ScopeOf[cur[w].who] = s
                       /\ cur[w].op = "call" /\ cur[w].expected = e
  \/ \E w \in Worker : \E k \in 1 .. Len(queue[w]) :
       /\ queue[w][k] # End /\ ScopeOf[queue[w][k].who] = s
       /\ queue[w][k].op = "call" /\ queue[w][k].expected = e

\* Until the pool is closed it is the registered one; after that no other comes to it.
PinInv ==
  /\ \A s \in Scope, e, f \in Surface : Pinned(s, e) /\ Pinned(s, f) => e = f
  /\ closer = 0 => /\ \A s \in Scope, e \in Surface : Pinned(s, e) => fps[s] = e
                   /\ \A c \in Client : pc[c] = "reserve" /\ req[c].op = "call" =>
                        fps[ScopeOf[c]] = req[c].expected

\* Request i calls a tool and was handed to a worker.
CallPlaced(i) ==
  \/ Executed(i)
  \/ \E w \in Worker : cur[w] # Null /\ Id(cur[w]) = i /\ cur[w].op = "call"
  \/ \E w \in Worker : \E k \in 1 .. Len(queue[w]) :
       queue[w][k] # End /\ Id(queue[w][k]) = i /\ queue[w][k].op = "call"

\* A call that is not a verifier's is its client's last request.
OnceInv ==
  \A i \in Ids : i[1] \notin Safe /\ CallPlaced(i) =>
    /\ i[2] = sent[i[1]] /\ pc[i[1]] \notin {"start", "reserve"}
    /\ pc[i[1]] \in Held => req[i[1]].op = "call"

\* An answered call was executed.
AnswerInv ==
  \A c \in Client : pc[c] = "ok" => \E i \in Ids : i[1] = c /\ i[2] = sent[c] /\ Executed(i)

\* The clients with an unfinished request on w: what pending counts.
Waiters(w) == {c \in Client : on[c] = w /\ future[Id(req[c])] = "open"}

PendingInv ==
  /\ pending \in [Worker -> Nat]
  /\ \A w \in Worker : IsFiniteSet(Waiters(w)) /\ pending[w] = Cardinality(Waiters(w))

Inv ==
  /\ Types /\ ClientInv /\ FutureInv /\ WorkerInv /\ PutInv /\ FreshInv /\ GoneInv
  /\ EarlyInv /\ KeptInv /\ PinInv /\ OnceInv /\ AnswerInv /\ PendingInv

-----------------------------------------------------------------------------
(* Requests                                                                *)

\* The fields of a request; a request is none of the markers.
LEMMA Requests ==
  /\ \A r \in Request :
       /\ r.who \in Client /\ r.n \in 1 .. MaxFailures + 1 /\ r.op \in {"list", "call"}
       /\ r.expected \in Surface \cup {Null}
       /\ r # Null /\ r # End /\ Id(r) \in Ids /\ Id(r) = <<r.who, r.n>>
       /\ ScopeOf[r.who] \in Scope
  /\ \A i \in Ids : i[1] \in Client /\ i[2] \in 1 .. MaxFailures + 1 /\ i = <<i[1], i[2]>>
  /\ \A c \in Client, n \in 1 .. MaxFailures + 1 :
       <<c, n>> \in Ids /\ <<c, n>>[1] = c /\ <<c, n>>[2] = n
  /\ MaxFailures \in Nat /\ MaxFailures > 0 /\ NWorkers \in Nat /\ NWorkers > 0
  /\ MaxPending \in Nat /\ MaxPending > 0
  /\ Null \notin Worker
<1>1. {NWorkers, MaxPending, MaxFailures} \subseteq Nat \ {0} /\ Null \notin Nat
      BY TransportAssumption
<1>2. /\ MaxFailures \in Nat /\ MaxFailures > 0 /\ NWorkers \in Nat /\ NWorkers > 0
      /\ MaxPending \in Nat /\ MaxPending > 0
      BY <1>1
<1>3. Null \notin Worker
      BY <1>1, <1>2 DEF Worker
<1>4. \A r \in Request :
        /\ r.who \in Client /\ r.n \in 1 .. MaxFailures + 1 /\ r.op \in {"list", "call"}
        /\ r.expected \in Surface \cup {Null}
      BY DEF Request
<1>5. \A r \in Request : r # Null /\ r # End
      BY MarkerAssumption
<1>6. \A r \in Request : Id(r) \in Ids /\ Id(r) = <<r.who, r.n>> /\ ScopeOf[r.who] \in Scope
      BY <1>4, TransportAssumption DEF Id, Ids
<1>7. \A i \in Ids : i[1] \in Client /\ i[2] \in 1 .. MaxFailures + 1 /\ i = <<i[1], i[2]>>
      BY DEF Ids
<1>8. \A c \in Client, n \in 1 .. MaxFailures + 1 :
        <<c, n>> \in Ids /\ <<c, n>>[1] = c /\ <<c, n>>[2] = n
      BY DEF Ids
<1> QED BY <1>2, <1>3, <1>4, <1>5, <1>6, <1>7, <1>8

\* Outcomes are neither surfaces nor each other.
LEMMA Outcomes ==
  /\ Surface \subseteq Result /\ Fault \subseteq Result
  /\ {"none", "open", "cancelled", "value", "delivered"} \subseteq Result
  /\ \A e \in Surface : e \notin {"none", "open", "cancelled", "value", "delivered"} \cup Fault
  /\ Fault = {"transient", "fault"} /\ Null \notin Surface
BY TransportAssumption DEF Result, Fault

\* The invariant holds in the empty pool.
LEMMA InitHolds == Init => Inv
<1> SUFFICES ASSUME Init PROVE Inv
    OBVIOUS
<1> USE Requests, Outcomes
<1>1. Types
  <2>1. 0 \in 0 .. MaxFailures + 1 /\ 0 \in 0 .. 2 * NWorkers + 1 /\ 0 <= MaxPending
        OBVIOUS
  <2>2. queue \in [Worker -> Seq(Request \cup {End})] /\ \A w \in Worker : Len(queue[w]) <= MaxPending
        BY DEF Init
  <2> QED BY <2>1, <2>2 DEF Init, Types
<1>2. \A i : ~Placed(i)
  <2>1. \A w \in Worker : cur[w] = Null /\ Len(queue[w]) = 0
        BY DEF Init
  <2> QED BY <2>1 DEF Init, Placed, Queued, Taken, Executed
<1>3. ClientInv /\ FutureInv /\ PutInv /\ EarlyInv /\ KeptInv /\ AnswerInv
      BY DEF Init, ClientInv, FutureInv, PutInv, EarlyInv, KeptInv, AnswerInv, Held
<1>4. WorkerInv
  <2>1. \A w \in Worker : queue[w] = <<>> /\ Len(queue[w]) = 0
        BY DEF Init
  <2> QED BY <2>1 DEF Init, WorkerInv
<1>5. FreshInv /\ GoneInv
      BY <1>2 DEF Init, FreshInv, GoneInv, Held
<1>6. PinInv /\ OnceInv
  <2>1. \A w \in Worker : cur[w] = Null /\ Len(queue[w]) = 0
        BY DEF Init
  <2>2. \A sc, e : ~Pinned(sc, e)
        BY <2>1 DEF Init, Pinned, Held
  <2>3. \A i : ~CallPlaced(i)
        BY <2>1 DEF Init, CallPlaced, Executed
  <2> QED BY <2>2, <2>3 DEF Init, PinInv, OnceInv
<1>7. PendingInv
  <2>1. \A w \in Worker : Waiters(w) = {}
        BY DEF Init, Waiters
  <2> QED BY <2>1, FS_EmptySet DEF Init, PendingInv
<1> QED BY <1>1, <1>3, <1>4, <1>5, <1>6, <1>7 DEF Inv

-----------------------------------------------------------------------------
(* Clients                                                                 *)

\* Where the workers have nothing new, requests are placed as before.
LEMMA SamePlaces ==
  ASSUME UNCHANGED <<cur, queue, executed>>
  PROVE  /\ \A i : /\ Placed(i)' <=> Placed(i)
                   /\ Taken(i)' <=> Taken(i)
                   /\ Executed(i)' <=> Executed(i)
         /\ \A i : CallPlaced(i)' <=> CallPlaced(i)
BY DEF Placed, Queued, Taken, Executed, CallPlaced

\* The others keep what they have.
Others(c) ==
  \A d \in Client \ {c} : /\ pc'[d] = pc[d] /\ req'[d] = req[d] /\ sent'[d] = sent[d]
                          /\ failures'[d] = failures[d] /\ on'[d] = on[d]

\* A client begins a call.
LEMMA BeginKeeps ==
  ASSUME Inv, NEW c \in Client, Begin(c)
  PROVE  Inv'
<1> USE Requests, Outcomes
<1> DEFINE e == fps[ScopeOf[c]]
           r == NewRequest(c, IF e = Null THEN "list" ELSE "call", e)
<1>0. /\ UNCHANGED <<sent, failures, on, future, pending, wpc, session, cur, putters, queue, fps,
                     closed, closer, executed, gone>>
      /\ pc[c] = "start" /\ pc' = [pc EXCEPT ![c] = "reserve"] /\ req' = [req EXCEPT ![c] = r]
      BY DEF Begin, Go, workerVars, queueVars, closeVars, histVars
<1>1. Types /\ ClientInv
      BY DEF Inv
<1>2. /\ sent[c] = 0 /\ failures[c] = 0 /\ on[c] = Null /\ req[c] = Null
      /\ ScopeOf[c] \in Scope /\ e \in Surface \cup {Null}
      BY <1>0, <1>1, TransportAssumption DEF Types, ClientInv
<1>3. /\ r \in Request /\ r.who = c /\ r.n = 1 /\ r.expected = e
      /\ r.op = "list" \/ (r.op = "call" /\ e \in Surface)
      BY <1>2 DEF NewRequest, Request
<1> HIDE DEF e, r
<1>4. /\ pc'[c] = "reserve" /\ req'[c] = r /\ Others(c)
      BY <1>0, <1>1 DEF Types, Others
<1>5. Types'
      BY <1>0, <1>1, <1>3 DEF Types
<1>6. ClientInv'
      BY <1>0, <1>1, <1>2, <1>3, <1>4 DEF ClientInv, Others, Held, Types
<1>7. FutureInv'
  <2> SUFFICES ASSUME NEW i \in Ids
               PROVE  /\ i[2] > sent[i[1]] => future[i] = "none"
                      /\ future[i] = "open" => pc'[i[1]] \in Held /\ i[2] = sent[i[1]]
      BY <1>0 DEF FutureInv
  <2>1. /\ i[2] > sent[i[1]] => future[i] = "none"
        /\ future[i] = "open" => pc[i[1]] \in Held /\ i[2] = sent[i[1]]
        BY DEF Inv, FutureInv
  <2> QED BY <1>0, <1>4, <2>1 DEF Others, Held
<1>8. WorkerInv'
  <2> SUFFICES ASSUME NEW w \in Worker, NEW k \in 1 .. Len(queue[w]), queue[w][k] # End, Open(queue[w][k])
               PROVE  req'[queue[w][k].who] = queue[w][k]
      BY <1>0 DEF Inv, WorkerInv, Open
  <2>1. queue[w][k] \in Request
        BY <1>1 DEF Types
  <2>2. req[queue[w][k].who] = queue[w][k]
        BY DEF Inv, WorkerInv
  <2>3. queue[w][k].who # c
        BY <1>2, <2>1, <2>2
  <2> QED BY <1>4, <2>1, <2>2, <2>3 DEF Others
<1>9. PutInv'
  <2>1. \A w \in Worker : \A x \in putters[w] \ {End} : x.who \in Client \ {c}
        BY <1>0, <1>1 DEF Inv, PutInv, Types
  <2> QED BY <1>0, <1>4, <2>1 DEF Inv, PutInv, Others, Open
<1>10. FreshInv'
       BY <1>0, <1>2, <1>4, SamePlaces DEF Inv, FreshInv, Others
<1>11. GoneInv'
       BY <1>0, <1>4, SamePlaces DEF Inv, GoneInv, Others
<1>12. KeptInv'
       BY <1>0, <1>4, SamePlaces DEF Inv, KeptInv, Others, Open
<1>13. PinInv'
  <2>1. \A s \in Scope, f \in Surface : Pinned(s, f)' => Pinned(s, f)
        BY <1>0, <1>4 DEF Pinned, Others, Held
  <2> QED BY <1>0, <1>3, <1>4, <2>1 DEF Inv, PinInv, Others, e
<1>14. OnceInv'
       BY <1>0, <1>4, SamePlaces DEF Inv, OnceInv, Others
<1>15. AnswerInv'
       BY <1>0, <1>4, SamePlaces DEF Inv, AnswerInv, Others
<1>16. PendingInv'
  <2>1. \A w \in Worker : Waiters(w)' = Waiters(w)
        BY <1>0, <1>2, <1>4 DEF Waiters, Others
  <2> QED BY <1>0, <2>1 DEF Inv, PendingInv
<1>17. EarlyInv'
       BY <1>0, <1>4 DEF Inv, EarlyInv, Others
<1> QED BY <1>5, <1>6, <1>7, <1>8, <1>9, <1>10, <1>11, <1>12, <1>13, <1>14, <1>15, <1>16, <1>17 DEF Inv

\* A client in a call has a request of its own, and a worker once it has reserved one.
LEMMA Clients ==
  ASSUME Types, ClientInv, NEW c \in Client
  PROVE  /\ pc[c] \in {"reserve"} \cup Held <=> req[c] # Null
         /\ pc[c] \in Held <=> on[c] \in Worker
         /\ on[c] \in Worker <=> on[c] # Null
         /\ req[c] # Null =>
              /\ req[c] \in Request /\ req[c].who = c /\ Id(req[c]) \in Ids
              /\ Id(req[c])[1] = c /\ Id(req[c])[2] = req[c].n
         /\ pc[c] \in Held => Id(req[c])[2] = sent[c]
         /\ pc[c] = "reserve" => Id(req[c])[2] = sent[c] + 1 /\ Id(req[c])[2] > sent[c]
<1> USE Requests
<1>1. /\ pc[c] \in {"start", "reserve", "ok", "failed"} \cup Held
      /\ req[c] \in Request \cup {Null} /\ on[c] \in Worker \cup {Null} /\ sent[c] \in Nat
      BY DEF Types
<1>2. /\ pc[c] \in {"start", "ok", "failed"} => req[c] = Null /\ on[c] = Null
      /\ pc[c] = "reserve" => on[c] = Null /\ req[c] # Null /\ req[c].n = sent[c] + 1
      /\ pc[c] \in Held => on[c] # Null /\ req[c] # Null /\ req[c].n = sent[c]
      /\ req[c] # Null => req[c].who = c
      BY DEF ClientInv
<1>3. req[c] # Null => req[c] \in Request /\ Id(req[c]) = <<c, req[c].n>> /\ Id(req[c]) \in Ids
      BY <1>1, <1>2
<1>4. req[c] # Null => Id(req[c])[1] = c /\ Id(req[c])[2] = req[c].n
      BY <1>3
<1> QED BY <1>1, <1>2, <1>3, <1>4 DEF Held

\* A client ends its request: it starts another one, or leaves.
Parts(c) ==
  LET i == Id(req[c]) IN
  /\ pc[c] \in {"reserve"} \cup Held /\ Others(c) /\ on'[c] = Null
  /\ UNCHANGED <<sent, wpc, session, cur, queue, closed, closer, executed>>
  /\ \A j \in Ids \ {i} : future'[j] = future[j]
  /\ IF pc[c] = "reserve" \/ i \in gone THEN future'[i] = future[i]
     ELSE future'[i] \in {"cancelled", "delivered", future[i]} \ {"open"}
  /\ \A w \in Worker : putters'[w] = putters[w] \ {req[c]}
  /\ gone \subseteq gone' /\ gone' \subseteq gone \cup {i}
  /\ i \in gone' \ gone => future[i] = "open" /\ future'[i] = "cancelled" /\ ~Taken(i)
  /\ pending' = [w \in Worker |->
       IF on[c] = w /\ future[i] = "open" THEN pending[w] - 1 ELSE pending[w]]
  /\ fps' = fps \/ \E s \in Scope, e \in Surface : fps[s] = Null /\ fps' = [fps EXCEPT ![s] = e]
  /\ \/ /\ pc'[c] \in {"ok", "failed"} /\ req'[c] = Null /\ failures'[c] = 0
        /\ pc'[c] = "ok" => pc[c] \in Held /\ future[i] = "value"
     \/ /\ pc[c] \in Held /\ pc'[c] = "reserve" /\ req'[c] \in Request
        /\ req'[c].who = c /\ req'[c].n = sent[c] + 1 /\ req'[c].op = "call"
        /\ req'[c].n <= failures'[c] + 2 /\ failures'[c] < MaxFailures
        /\ req'[c].expected \in Surface
        /\ c \notin Safe => req[c].op = "list"
        /\ closer = 0 => fps'[ScopeOf[c]] = req'[c].expected

\* A client ends its request.
LEMMA PartingKeeps ==
  ASSUME Inv, NEW c \in Client, Parts(c), Types'
  PROVE  Inv'
<1> USE Requests, Outcomes
<1> DEFINE i == Id(req[c])
<1>0. /\ UNCHANGED <<sent, wpc, session, cur, queue, closed, closer, executed>>
      /\ pc[c] \in {"reserve"} \cup Held /\ Others(c) /\ on'[c] = Null
      /\ pc'[c] \in {"ok", "failed", "reserve"}
      BY DEF Parts
<1>1. Types /\ ClientInv
      BY DEF Inv
<1>2. /\ req[c] \in Request /\ req[c].who = c /\ i \in Ids /\ i[1] = c /\ i[2] = req[c].n
      /\ pc[c] \in Held => i[2] = sent[c]
      /\ pc[c] = "reserve" => i[2] = sent[c] + 1 /\ future[i] = "none"
  <2>1. req[c] \in Request /\ req[c].who = c
        BY <1>0, <1>1 DEF Types, ClientInv
  <2>2. i \in Ids /\ i[1] = c /\ i[2] = req[c].n
        BY <2>1
  <2>3. pc[c] \in Held => i[2] = sent[c]
        BY <1>1, <2>2 DEF ClientInv
  <2>4. pc[c] = "reserve" => i[2] = sent[c] + 1
        BY <1>1, <2>2 DEF ClientInv
  <2>5. pc[c] = "reserve" => future[i] = "none"
    <3>1. pc[c] = "reserve" => i[2] > sent[c]
          BY <1>1, <2>4 DEF Types
    <3> QED BY <2>2, <3>1 DEF Inv, FutureInv
  <2> QED BY <2>1, <2>2, <2>3, <2>4, <2>5
<1>3. /\ \A j \in Ids \ {i} : future'[j] = future[j]
      /\ future'[i] # "open"
      /\ future'[i] = "none" => future[i] = "none"
      /\ future'[i] = "value" => future[i] = "value"
      /\ i \in gone => future'[i] = future[i]
      /\ \A w \in Worker : putters'[w] = putters[w] \ {req[c]}
  <2>1. i \in gone => future[i] = "cancelled"
        BY DEF Inv, GoneInv
  <2> QED BY <1>2, <2>1 DEF Parts
<1>4. ClientInv'
  <2>1. \A d \in Client \ {c} : /\ pc'[d] = pc[d] /\ req'[d] = req[d] /\ sent'[d] = sent[d]
                                /\ failures'[d] = failures[d] /\ on'[d] = on[d]
        BY <1>0 DEF Others
  <2>2. \/ /\ pc'[c] \in {"ok", "failed"} /\ req'[c] = Null /\ failures'[c] = 0
        \/ /\ pc'[c] = "reserve" /\ req'[c] \in Request
           /\ req'[c].who = c /\ req'[c].n = sent'[c] + 1 /\ req'[c].op = "call"
           /\ req'[c].n <= failures'[c] + 2 /\ failures'[c] < MaxFailures
           /\ req'[c].expected \in Surface
        BY <1>0 DEF Parts
  <2> QED BY <1>0, <1>1, <2>1, <2>2 DEF ClientInv, Held
<1>5. FutureInv'
  <2> SUFFICES ASSUME NEW j \in Ids
               PROVE  /\ j[2] > sent[j[1]] => future'[j] = "none"
                      /\ future'[j] = "open" => pc'[j[1]] \in Held /\ j[2] = sent[j[1]]
      BY <1>0 DEF FutureInv
  <2>1. /\ j[2] > sent[j[1]] => future[j] = "none"
        /\ future[j] = "open" => pc[j[1]] \in Held /\ j[2] = sent[j[1]]
        BY DEF Inv, FutureInv
  <2>2. CASE j = i
    <3>1. j[2] > sent[j[1]] => pc[c] = "reserve"
          BY <1>0, <1>1, <1>2, <2>2 DEF Types
    <3>2. pc[c] = "reserve" => future'[i] = future[i]
          BY DEF Parts
    <3> QED BY <1>2, <1>3, <2>2, <3>1, <3>2
  <2>3. CASE j # i
    <3>1. future'[j] = future[j]
          BY <1>3, <2>3
    <3>2. j[1] = c => j[2] # i[2]
          BY <1>2, <2>3
    <3>3. future[j] = "open" => j[1] # c
          BY <1>0, <1>2, <2>1, <3>2 DEF Held, Inv, FutureInv
    <3> QED BY <1>0, <2>1, <3>1, <3>3 DEF Others
  <2> QED BY <2>2, <2>3
<1>6. WorkerInv'
  <2> SUFFICES ASSUME NEW w \in Worker, NEW k \in 1 .. Len(queue[w]), queue[w][k] # End, Open(queue[w][k])'
               PROVE  req'[queue[w][k].who] = queue[w][k] /\ on'[queue[w][k].who] = w
      BY <1>0 DEF Inv, WorkerInv, Open
  <2>1. queue[w][k] \in Request
        BY <1>1, SMTT(30) DEF Types
  <2>2. Open(queue[w][k]) /\ Id(queue[w][k]) # i
        BY <1>0, <1>3, <2>1 DEF Open
  <2>3. req[queue[w][k].who] = queue[w][k] /\ on[queue[w][k].who] = w
        BY <2>2 DEF Inv, WorkerInv
  <2>4. queue[w][k].who # c
        BY <2>2, <2>3
  <2> QED BY <1>0, <2>1, <2>3, <2>4 DEF Others
<1>7. PutInv'
  <2> SUFFICES ASSUME NEW w \in Worker, NEW x \in putters'[w] \ {End}
               PROVE  x = req'[x.who] /\ on'[x.who] = w /\ pc'[x.who] = "put" /\ Open(x)'
      BY DEF PutInv
  <2>1. x \in Request /\ x \in putters[w] /\ x # req[c]
        BY <1>1, <1>3 DEF Types
  <2>2. x = req[x.who] /\ on[x.who] = w /\ pc[x.who] = "put" /\ Open(x)
        BY <2>1 DEF Inv, PutInv
  <2>3. x.who # c /\ Id(x) # i
        BY <1>2, <2>1, <2>2
  <2> QED BY <1>0, <1>3, <2>1, <2>2, <2>3 DEF Others, Open
<1>8. FreshInv'
  <2>1. \A j \in Ids :
          j[2] > sent[j[1]] \/ (pc'[j[1]] \in {"ensure", "enqueue"} /\ j[2] = sent[j[1]]) => ~Placed(j)
        BY <1>0 DEF Inv, FreshInv, Others
  <2> QED BY <1>0, <1>3, <2>1, SamePlaces DEF Inv, FreshInv
<1>9. GoneInv'
  <2>1. \A j \in gone' : future'[j] = "cancelled" /\ ~Taken(j) /\ ~Executed(j)
    <3> SUFFICES ASSUME NEW j \in gone'
                 PROVE  future'[j] = "cancelled" /\ ~Taken(j) /\ ~Executed(j)
        OBVIOUS
    <3>1. CASE j \in gone
      <4>1. j \in Ids /\ future[j] = "cancelled" /\ ~Taken(j) /\ ~Executed(j)
            BY <1>1, <3>1 DEF Types, Inv, GoneInv
      <4> QED BY <1>3, <3>1, <4>1
    <3>2. CASE j \notin gone
      <4>1. j = i /\ future[i] = "open" /\ future'[i] = "cancelled" /\ ~Taken(i)
            BY <3>2 DEF Parts
      <4>2. ~Executed(i)
            BY <4>1 DEF Inv, GoneInv, Executed
      <4> QED BY <4>1, <4>2
    <3> QED BY <3>1, <3>2
  <2>2. \A d \in Client : pc'[d] = "wait" => Id(req'[d]) \notin gone'
    <3> SUFFICES ASSUME NEW d \in Client, pc'[d] = "wait" PROVE Id(req'[d]) \notin gone'
        OBVIOUS
    <3>1. d # c /\ req'[d] = req[d] /\ pc[d] = "wait"
          BY <1>0 DEF Others
    <3>2. req[d] \in Request /\ req[d].who = d
          BY <1>1, <3>1, Clients DEF Held
    <3>3. Id(req[d]) # i
          BY <1>2, <3>1, <3>2
    <3> QED BY <3>1, <3>3 DEF Inv, GoneInv, Parts
  <2>3. \A x \in executed : future'[x[1]] = "open" => Taken(x[1])
    <3>1. \A x \in executed : x[1] \in Ids
          BY <1>1 DEF Types
    <3> QED BY <1>3, <3>1 DEF Inv, GoneInv
  <2>4. \A j \in Ids : future'[j] = "value" => Executed(j)
        BY <1>3 DEF Inv, GoneInv
  <2> QED BY <1>0, <2>1, <2>2, <2>3, <2>4, SamePlaces DEF GoneInv
<1>10. KeptInv'
  <2> SUFFICES ASSUME NEW d \in Client, pc'[d] \in {"put", "wait"}
               PROVE  /\ pc'[d] = "wait" => req'[d] \notin putters'[on'[d]]
                      /\ future'[Id(req'[d])] = "open" =>
                           \/ Taken(Id(req[d]))'
                           \/ req'[d] \in putters'[on'[d]]
                           \/ \E k \in 1 .. Len(queue'[on'[d]]) : queue'[on'[d]][k] = req'[d]
      BY DEF KeptInv, Open
  <2>1. d # c /\ req'[d] = req[d] /\ pc'[d] = pc[d] /\ on'[d] = on[d]
        BY <1>0 DEF Others
  <2>2. req[d] \in Request /\ req[d].who = d /\ on[d] \in Worker
        BY <1>1, <2>1, Clients DEF Held
  <2>3. Id(req[d]) # i /\ req[d] # req[c]
        BY <1>2, <2>1, <2>2
  <2>4. /\ pc[d] = "wait" => req[d] \notin putters[on[d]]
        /\ Open(req[d]) => \/ Taken(Id(req[d]))
                           \/ req[d] \in putters[on[d]]
                           \/ \E k \in 1 .. Len(queue[on[d]]) : queue[on[d]][k] = req[d]
        BY <2>1 DEF Inv, KeptInv
  <2>5. future'[Id(req'[d])] = "open" => Open(req[d])
        BY <1>3, <2>1, <2>2, <2>3 DEF Open
  <2> QED BY <1>0, <1>3, <2>1, <2>2, <2>3, <2>4, <2>5, SamePlaces
<1>11. PinInv'
  <2>1. \A s \in Scope, e \in Surface : Pinned(s, e)' => Pinned(s, e)
        BY <1>0 DEF Pinned, Others, Held
  <2>2. ASSUME closer = 0, NEW s \in Scope, fps[s] # Null PROVE fps'[s] = fps[s]
        BY <1>1, <2>2 DEF Parts, Types
  <2>3. ASSUME closer = 0, NEW d \in Client, pc'[d] = "reserve", req'[d].op = "call"
        PROVE  fps'[ScopeOf[d]] = req'[d].expected
    <3>1. CASE d = c
          BY <2>3, <3>1 DEF Parts
    <3>2. CASE d # c
      <4>1. pc[d] = "reserve" /\ req'[d] = req[d]
            BY <1>0, <2>3, <3>2 DEF Others
      <4>2. req[d].expected \in Surface /\ ScopeOf[d] \in Scope
            BY <1>1, <2>3, <4>1, Clients, TransportAssumption DEF ClientInv
      <4>3. fps[ScopeOf[d]] = req[d].expected
            BY <2>3, <4>1 DEF Inv, PinInv
      <4> QED BY <2>2, <2>3, <4>1, <4>2, <4>3
    <3> QED BY <3>1, <3>2
  <2>4. ASSUME closer = 0, NEW s \in Scope, NEW e \in Surface, Pinned(s, e) PROVE fps'[s] = e
    <3>1. fps[s] = e
          BY <2>4 DEF Inv, PinInv
    <3> QED BY <2>2, <2>4, <3>1
  <2> QED BY <1>0, <2>1, <2>3, <2>4 DEF Inv, PinInv
<1>12. OnceInv'
  <2> SUFFICES ASSUME NEW j \in Ids, j[1] \notin Safe, CallPlaced(j)
               PROVE  /\ j[2] = sent[j[1]] /\ pc'[j[1]] \notin {"start", "reserve"}
                      /\ pc'[j[1]] \in Held => req'[j[1]].op = "call"
      BY <1>0, SamePlaces DEF OnceInv
  <2>1. /\ j[2] = sent[j[1]] /\ pc[j[1]] \notin {"start", "reserve"}
        /\ pc[j[1]] \in Held => req[j[1]].op = "call"
        BY DEF Inv, OnceInv
  <2>2. j[1] = c => pc'[c] # "reserve"
        BY <1>0, <2>1 DEF Parts
  <2> QED BY <1>0, <2>1, <2>2 DEF Others, Held
<1>13. AnswerInv'
  <2> SUFFICES ASSUME NEW d \in Client, pc'[d] = "ok"
               PROVE  \E j \in Ids : j[1] = d /\ j[2] = sent[d] /\ Executed(j)
      BY <1>0, SamePlaces DEF AnswerInv
  <2>1. CASE d = c
    <3>1. pc[c] \in Held /\ future[i] = "value"
          BY <2>1 DEF Parts
    <3>2. Executed(i)
          BY <1>2, <3>1 DEF Inv, GoneInv
    <3> QED BY <1>2, <2>1, <3>1, <3>2
  <2>2. CASE d # c
        BY <1>0, <2>2 DEF Inv, AnswerInv, Others
  <2> QED BY <2>1, <2>2
<1>14. PendingInv'
  <2>1. \A w \in Worker : Waiters(w)' = Waiters(w) \ {c}
    <3> SUFFICES ASSUME NEW w \in Worker, NEW d \in Client
                 PROVE  (on'[d] = w /\ future'[Id(req'[d])] = "open")
                          <=> (d # c /\ on[d] = w /\ future[Id(req[d])] = "open")
        BY DEF Waiters
    <3>1. d = c => on'[d] # w
          BY <1>0
    <3>2. ASSUME d # c, on[d] = w
          PROVE  req'[d] = req[d] /\ future'[Id(req[d])] = future[Id(req[d])]
      <4>1. req[d] \in Request /\ req[d].who = d
            BY <1>1, <3>2, Clients
      <4>2. Id(req[d]) # i /\ Id(req[d]) \in Ids
            BY <1>2, <3>2, <4>1
      <4> QED BY <1>0, <1>3, <3>2, <4>2 DEF Others
    <3> QED BY <1>0, <3>1, <3>2 DEF Others
  <2>2. \A w \in Worker : c \in Waiters(w) <=> on[c] = w /\ future[i] = "open"
        BY DEF Waiters
  <2>3. \A w \in Worker : /\ IsFiniteSet(Waiters(w)) /\ pending[w] = Cardinality(Waiters(w))
                          /\ pending[w] \in Nat
        BY DEF Inv, PendingInv
  <2>4. ASSUME NEW w \in Worker
        PROVE  /\ IsFiniteSet(Waiters(w)') /\ pending'[w] = Cardinality(Waiters(w)')
               /\ pending'[w] \in Nat
    <3>1. pending'[w] = IF c \in Waiters(w) THEN pending[w] - 1 ELSE pending[w]
          BY <2>2 DEF Parts
    <3>0. IsFiniteSet(Waiters(w)) /\ pending[w] = Cardinality(Waiters(w))
          BY <2>3
    <3>2. /\ IsFiniteSet(Waiters(w) \ {c})
          /\ Cardinality(Waiters(w) \ {c})
               = IF c \in Waiters(w) THEN Cardinality(Waiters(w)) - 1 ELSE Cardinality(Waiters(w))
          BY <3>0, FS_RemoveElement
    <3>3. Cardinality(Waiters(w) \ {c}) \in Nat
          BY <3>2, FS_CardinalityType
    <3>4. Waiters(w)' = Waiters(w) \ {c}
          BY <2>1
    <3>5. pending'[w] = Cardinality(Waiters(w) \ {c})
          BY <3>0, <3>1, <3>2
    <3> QED BY <3>2, <3>3, <3>4, <3>5
  <2>5. pending' \in [Worker -> Nat]
        BY <2>4 DEF Parts
  <2> QED BY <2>4, <2>5 DEF PendingInv
<1>15. EarlyInv'
  <2> SUFFICES ASSUME NEW d \in Client, pc'[d] \in {"ensure", "enqueue"}
               PROVE  future'[Id(req'[d])] = "open"
      BY DEF EarlyInv
  <2>1. d # c /\ pc[d] = pc'[d] /\ req'[d] = req[d]
        BY <1>0 DEF Others
  <2>2. Id(req[d]) \in Ids /\ Id(req[d])[1] = d
        BY <1>1, <2>1, Clients DEF Held
  <2>3. Id(req[d]) # i
        BY <1>2, <2>1, <2>2
  <2> QED BY <1>3, <2>1, <2>2, <2>3 DEF Inv, EarlyInv
<1> QED BY <1>4, <1>5, <1>6, <1>7, <1>8, <1>9, <1>10, <1>11, <1>12, <1>13, <1>14, <1>15 DEF Inv

\* A call that leaves keeps nothing.
LEMMA Leaving ==
  ASSUME Types, NEW c \in Client, NEW how \in {"ok", "failed"}, Leave(c, how), sent' = sent
  PROVE  /\ Others(c) /\ on'[c] = Null /\ pc'[c] = how /\ req'[c] = Null /\ failures'[c] = 0
         /\ pc' \in [Client -> {"start", "reserve", "ok", "failed"} \cup Held]
         /\ req' \in [Client -> Request \cup {Null}]
         /\ failures' \in [Client -> Nat]
         /\ on' \in [Client -> Worker \cup {Null}]
BY DEF Leave, Go, Types, Others

\* An exception ends a request: only a verifier's call is repeated, fewer than MaxFailures
\* times, with the surface it had.
LEMMA Raising ==
  ASSUME Inv, NEW c \in Client, pc[c] \in Held, NEW result, Raise(c, result), sent' = sent
  PROVE  /\ Others(c) /\ on'[c] = Null
         /\ pc' \in [Client -> {"start", "reserve", "ok", "failed"} \cup Held]
         /\ req' \in [Client -> Request \cup {Null}]
         /\ failures' \in [Client -> Nat]
         /\ on' \in [Client -> Worker \cup {Null}]
         /\ \/ pc'[c] = "failed" /\ req'[c] = Null /\ failures'[c] = 0
            \/ /\ pc'[c] = "reserve" /\ req'[c] \in Request
               /\ req'[c].who = c /\ req'[c].n = sent[c] + 1 /\ req'[c].op = "call"
               /\ req'[c].n <= failures'[c] + 2 /\ failures'[c] < MaxFailures
               /\ req'[c].expected \in Surface
               /\ c \in Safe
               /\ closer = 0 => fps[ScopeOf[c]] = req'[c].expected
<1> USE Requests, Outcomes
<1>1. Types /\ ClientInv
      BY DEF Inv
<1>2. CASE ~Retries(c, result)
  <2>1. Leave(c, "failed")
        BY <1>2 DEF Raise
  <2> QED BY <1>1, <2>1, Leaving
<1>3. CASE Retries(c, result)
  <2>1. /\ pc' = [pc EXCEPT ![c] = "reserve"] /\ failures' = [failures EXCEPT ![c] = @ + 1]
        /\ req' = [req EXCEPT ![c].n = sent[c] + 1] /\ on' = [on EXCEPT ![c] = Null]
        /\ c \in Safe /\ req[c].op = "call" /\ failures[c] + 1 < MaxFailures
        BY <1>3 DEF Raise, Retries, Go
  <2>2. /\ req[c] \in Request /\ req[c].who = c /\ req[c].n = sent[c] /\ req[c].expected \in Surface
        /\ req[c].n <= failures[c] + 2 /\ sent[c] \in Nat /\ failures[c] \in Nat
    <3>1. req[c] # Null /\ req[c] \in Request
          BY <1>1, Clients
    <3>2. /\ req[c].who = c /\ req[c].n = sent[c] /\ req[c].expected \in Surface
          /\ req[c].n <= failures[c] + 2
          BY <1>1, <2>1, <3>1 DEF ClientInv
    <3>3. sent[c] \in 0 .. MaxFailures + 1 /\ failures[c] \in Nat
          BY <1>1 DEF Types
    <3> QED BY <3>1, <3>2, <3>3
  <2>3. sent[c] + 1 \in 1 .. MaxFailures + 1
        BY <2>1, <2>2
  <2> DEFINE r == [req[c] EXCEPT !.n = sent[c] + 1]
  <2>4. /\ r \in Request /\ r.who = c /\ r.n = sent[c] + 1 /\ r.op = "call"
        /\ r.expected = req[c].expected
        BY <2>1, <2>2, <2>3 DEF Request
  <2> HIDE DEF r
  <2>5. req' = [req EXCEPT ![c] = r]
        BY <2>1, <1>1 DEF Types, r
  <2>6. /\ Others(c) /\ on'[c] = Null /\ pc'[c] = "reserve" /\ req'[c] = r
        /\ failures'[c] = failures[c] + 1
        BY <1>1, <2>1, <2>5 DEF Types, Others
  <2>7. closer = 0 => fps[ScopeOf[c]] = req[c].expected
    <3>1. Pinned(ScopeOf[c], req[c].expected) /\ ScopeOf[c] \in Scope
          BY <2>1, TransportAssumption DEF Pinned
    <3> QED BY <2>2, <3>1 DEF Inv, PinInv
  <2>8. /\ pc' \in [Client -> {"start", "reserve", "ok", "failed"} \cup Held]
        /\ req' \in [Client -> Request \cup {Null}]
        /\ failures' \in [Client -> Nat]
        /\ on' \in [Client -> Worker \cup {Null}]
    <3>1. failures[c] + 1 \in Nat
          BY <2>2
    <3>2. failures' \in [Client -> Nat]
          BY <1>1, <2>1, <3>1 DEF Types
    <3>3. req' \in [Client -> Request \cup {Null}]
          BY <1>1, <2>4, <2>5 DEF Types
    <3>4. /\ pc' \in [Client -> {"start", "reserve", "ok", "failed"} \cup Held]
          /\ on' \in [Client -> Worker \cup {Null}]
          BY <1>1, <2>1 DEF Types
    <3> QED BY <3>2, <3>3, <3>4
  <2>9. r.n <= failures[c] + 1 + 2 /\ failures[c] + 1 < MaxFailures
        BY <2>1, <2>2, <2>4
  <2> QED BY <2>1, <2>2, <2>4, <2>6, <2>7, <2>8, <2>9
<1> QED BY <1>2, <1>3

\* A caller that gives its request up cancels the future if it is open, and leaves the
\* worker's count.
LEMMA Cancelling ==
  ASSUME Inv, NEW c \in Client, pc[c] \in Held, NEW ids,
         ids = {Id(req[c])} \cap {i \in Ids : future[i] = "open"},
         Complete(ids, "cancelled")
  PROVE  /\ future' \in [Ids -> Result]
         /\ \A j \in Ids \ {Id(req[c])} : future'[j] = future[j]
         /\ future'[Id(req[c])] = IF future[Id(req[c])] = "open" THEN "cancelled" ELSE future[Id(req[c])]
         /\ pending' = [w \in Worker |->
              IF on[c] = w /\ future[Id(req[c])] = "open" THEN pending[w] - 1 ELSE pending[w]]
<1> USE Requests, Outcomes
<1> DEFINE i == Id(req[c])
<1>1. Types /\ ClientInv
      BY DEF Inv
<1>2. i \in Ids /\ i[1] = c /\ req[c] \in Request
      BY <1>1, Clients
<1>3. ids = IF future[i] = "open" THEN {i} ELSE {}
      BY <1>2
<1>4. /\ future' = [j \in Ids |-> IF j \in ids THEN "cancelled" ELSE future[j]]
      /\ pending' = [w \in Worker |->
           IF Cardinality(Released(w, ids)) < pending[w]
           THEN pending[w] - Cardinality(Released(w, ids)) ELSE 0]
      BY DEF Complete
<1>5. future' \in [Ids -> Result]
      BY <1>1, <1>4 DEF Types
<1>6. /\ \A j \in Ids \ {i} : future'[j] = future[j]
      /\ future'[i] = IF future[i] = "open" THEN "cancelled" ELSE future[i]
      BY <1>2, <1>3, <1>4
<1>7. ASSUME NEW w \in Worker
      PROVE  (IF Cardinality(Released(w, ids)) < pending[w]
              THEN pending[w] - Cardinality(Released(w, ids)) ELSE 0)
             = (IF on[c] = w /\ future[i] = "open" THEN pending[w] - 1 ELSE pending[w])
  <2>0. IsFiniteSet(Waiters(w)) /\ pending[w] = Cardinality(Waiters(w)) /\ pending[w] \in Nat
        BY DEF Inv, PendingInv
  <2>1. CASE on[c] = w /\ future[i] = "open"
    <3>1. Released(w, ids) = {i}
          BY <1>2, <1>3, <2>1 DEF Released
    <3>2. Cardinality(Released(w, ids)) = 1
          BY <3>1, FS_Singleton
    <3>3. c \in Waiters(w)
          BY <2>1 DEF Waiters
    <3>4. pending[w] # 0
          BY <2>0, <3>3, FS_EmptySet
    <3> QED BY <2>0, <2>1, <3>2, <3>4
  <2>2. CASE ~(on[c] = w /\ future[i] = "open")
    <3>1. Released(w, ids) = {}
          BY <1>2, <1>3, <2>2 DEF Released
    <3>2. Cardinality(Released(w, ids)) = 0
          BY <3>1, FS_EmptySet
    <3> QED BY <2>0, <2>2, <3>2
  <2> QED BY <2>1, <2>2
<1>8. pending' = [w \in Worker |->
        IF on[c] = w /\ future[i] = "open" THEN pending[w] - 1 ELSE pending[w]]
      BY <1>4, <1>7
<1> QED BY <1>5, <1>6, <1>8

\* The pool is closed: the call leaves before it has reserved a worker.
LEMMA RefusalKeeps ==
  ASSUME Inv, NEW c \in Client, Reserve(c), PoolClosed
  PROVE  Inv'
<1> USE Requests, Outcomes
<1> DEFINE i == Id(req[c])
<1>0. /\ pc[c] = "reserve" /\ Leave(c, "failed")
      /\ UNCHANGED <<sent, future, pending, wpc, session, cur, putters, queue, fps, closed,
                     closer, executed, gone>>
      BY DEF Reserve, workerVars, queueVars, closeVars, histVars
<1>1. Types /\ ClientInv
      BY DEF Inv
<1>2. req[c] \in Request /\ req[c].who = c /\ i \in Ids /\ i[1] = c /\ i[2] > sent[c]
      BY <1>0, <1>1, Clients
<1>3. future[i] = "none"
      BY <1>2 DEF Inv, FutureInv
<1>4. \A w \in Worker : putters'[w] = putters[w] \ {req[c]}
  <2>1. \A w \in Worker : req[c] \notin putters[w]
        BY <1>0, <1>2 DEF Inv, PutInv
  <2> QED BY <1>0, <2>1
<1>5. /\ Others(c) /\ on'[c] = Null /\ pc'[c] = "failed" /\ req'[c] = Null /\ failures'[c] = 0
      /\ pc' \in [Client -> {"start", "reserve", "ok", "failed"} \cup Held]
      /\ req' \in [Client -> Request \cup {Null}]
      /\ failures' \in [Client -> Nat]
      /\ on' \in [Client -> Worker \cup {Null}]
      BY <1>0, <1>1, Leaving
<1>6. Types'
      BY <1>0, <1>1, <1>5 DEF Types
<1>7. pending' = [w \in Worker |-> IF on[c] = w /\ future[i] = "open" THEN pending[w] - 1 ELSE pending[w]]
      BY <1>0, <1>3 DEF Inv, PendingInv
<1>8. Parts(c)
      BY <1>0, <1>4, <1>5, <1>7 DEF Parts
<1> QED BY <1>6, <1>8, PartingKeeps

\* What a parting client and the worker it had keep of the types.
LEMMA PartingTypes ==
  ASSUME Types, UNCHANGED <<sent, wpc, session, cur, queue, closed, closer, executed>>,
         /\ pc' \in [Client -> {"start", "reserve", "ok", "failed"} \cup Held]
         /\ req' \in [Client -> Request \cup {Null}]
         /\ failures' \in [Client -> Nat]
         /\ on' \in [Client -> Worker \cup {Null}],
         future' \in [Ids -> Result], fps' \in [Scope -> Surface \cup {Null}],
         putters' \in [Worker -> SUBSET (Request \cup {End})], gone' \subseteq Ids
  PROVE  Types'
BY DEF Types

\* A submission fails: its request is cancelled, then repeated or given up.
LEMMA SubmitFailureKeeps ==
  ASSUME Inv, NEW c \in Client, pc[c] \in {"ensure", "enqueue", "put"}, NEW result,
         SubmitFails(c, result)
  PROVE  Inv'
<1> USE Requests, Outcomes
<1> DEFINE i == Id(req[c])
<1>0. /\ UNCHANGED <<sent, wpc, session, cur, queue, fps, closed, closer, executed>>
      /\ Complete({i} \cap {j \in Ids : future[j] = "open"}, "cancelled")
      /\ gone' = gone \cup {j \in {i} : future[j] = "open" /\ ~Taken(j)}
      /\ putters' = [w \in Worker |-> putters[w] \ {req[c]}]
      /\ Raise(c, result) /\ pc[c] \in Held
      BY DEF SubmitFails, workerVars, closeVars, Held
<1>1. Types /\ ClientInv
      BY DEF Inv
<1>2. i \in Ids
      BY <1>0, <1>1, Clients
<1>3. /\ future' \in [Ids -> Result]
      /\ \A j \in Ids \ {i} : future'[j] = future[j]
      /\ future'[i] = IF future[i] = "open" THEN "cancelled" ELSE future[i]
      /\ pending' = [w \in Worker |->
           IF on[c] = w /\ future[i] = "open" THEN pending[w] - 1 ELSE pending[w]]
      BY <1>0, Cancelling
<1>4. /\ Others(c) /\ on'[c] = Null
      /\ pc' \in [Client -> {"start", "reserve", "ok", "failed"} \cup Held]
      /\ req' \in [Client -> Request \cup {Null}]
      /\ failures' \in [Client -> Nat]
      /\ on' \in [Client -> Worker \cup {Null}]
      /\ \/ pc'[c] = "failed" /\ req'[c] = Null /\ failures'[c] = 0
         \/ /\ pc'[c] = "reserve" /\ req'[c] \in Request
            /\ req'[c].who = c /\ req'[c].n = sent[c] + 1 /\ req'[c].op = "call"
            /\ req'[c].n <= failures'[c] + 2 /\ failures'[c] < MaxFailures
            /\ req'[c].expected \in Surface
            /\ c \in Safe
            /\ closer = 0 => fps[ScopeOf[c]] = req'[c].expected
      BY <1>0, Raising
<1>5. i \in gone => future[i] = "cancelled"
      BY DEF Inv, GoneInv
<1>6. Types'
  <2>1. putters' \in [Worker -> SUBSET (Request \cup {End})]
        BY <1>0, <1>1 DEF Types
  <2>2. gone' \subseteq Ids /\ fps' \in [Scope -> Surface \cup {Null}]
        BY <1>0, <1>1, <1>2 DEF Types
  <2> QED BY <1>0, <1>1, <1>3, <1>4, <2>1, <2>2, PartingTypes
<1>7. Parts(c)
  <2>1. \A w \in Worker : putters'[w] = putters[w] \ {req[c]}
        BY <1>0
  <2>2. /\ gone \subseteq gone' /\ gone' \subseteq gone \cup {i}
        /\ i \in gone' \ gone => future[i] = "open" /\ ~Taken(i)
        BY <1>0
  <2>3. pc[c] # "reserve"
        BY <1>0 DEF Held
  <2>4. IF pc[c] = "reserve" \/ i \in gone THEN future'[i] = future[i]
        ELSE future'[i] \in {"cancelled", "delivered", future[i]} \ {"open"}
        BY <1>3, <1>5, <2>3
  <2> QED BY <1>0, <1>3, <1>4, <2>1, <2>2, <2>4 DEF Parts
<1> QED BY <1>6, <1>7, PartingKeeps

\* A caller is cancelled.
LEMMA CancelKeeps ==
  ASSUME Inv, NEW c \in Client, CancelCall(c)
  PROVE  Inv'
<1> USE Requests, Outcomes
<1> DEFINE i == Id(req[c])
<1>0. /\ UNCHANGED <<sent, wpc, session, cur, queue, fps, closed, closer, executed>>
      /\ Complete({i}, "cancelled") /\ future[i] = "open"
      /\ gone' = gone \cup {j \in {i} : future[j] = "open" /\ ~Taken(j)}
      /\ putters' = [w \in Worker |-> putters[w] \ {req[c]}]
      /\ Leave(c, "failed") /\ pc[c] \in Held
      BY DEF CancelCall, workerVars, closeVars, Held
<1>1. Types /\ ClientInv
      BY DEF Inv
<1>2. i \in Ids
      BY <1>0, <1>1, Clients
<1>3. /\ future' \in [Ids -> Result]
      /\ \A j \in Ids \ {i} : future'[j] = future[j]
      /\ future'[i] = IF future[i] = "open" THEN "cancelled" ELSE future[i]
      /\ pending' = [w \in Worker |->
           IF on[c] = w /\ future[i] = "open" THEN pending[w] - 1 ELSE pending[w]]
  <2>1. {i} = {i} \cap {j \in Ids : future[j] = "open"}
        BY <1>0, <1>2
  <2> QED BY <1>0, <2>1, Cancelling
<1>4. /\ Others(c) /\ on'[c] = Null /\ pc'[c] = "failed" /\ req'[c] = Null /\ failures'[c] = 0
      /\ pc' \in [Client -> {"start", "reserve", "ok", "failed"} \cup Held]
      /\ req' \in [Client -> Request \cup {Null}]
      /\ failures' \in [Client -> Nat]
      /\ on' \in [Client -> Worker \cup {Null}]
      BY <1>0, <1>1, Leaving
<1>5. i \in gone => future[i] = "cancelled"
      BY DEF Inv, GoneInv
<1>6. Types'
  <2>1. putters' \in [Worker -> SUBSET (Request \cup {End})]
        BY <1>0, <1>1 DEF Types
  <2>2. gone' \subseteq Ids /\ fps' \in [Scope -> Surface \cup {Null}]
        BY <1>0, <1>1, <1>2 DEF Types
  <2> QED BY <1>0, <1>1, <1>3, <1>4, <2>1, <2>2, PartingTypes
<1>7. Parts(c)
  <2>1. \A w \in Worker : putters'[w] = putters[w] \ {req[c]}
        BY <1>0
  <2>2. /\ gone \subseteq gone' /\ gone' \subseteq gone \cup {i}
        /\ i \in gone' \ gone => future[i] = "open" /\ ~Taken(i)
        BY <1>0
  <2>3. pc[c] # "reserve"
        BY <1>0 DEF Held
  <2>4. IF pc[c] = "reserve" \/ i \in gone THEN future'[i] = future[i]
        ELSE future'[i] \in {"cancelled", "delivered", future[i]} \ {"open"}
        BY <1>3, <1>5, <2>3
  <2> QED BY <1>0, <1>3, <1>4, <2>1, <2>2, <2>4 DEF Parts
<1> QED BY <1>6, <1>7, PartingKeeps

\* A result is delivered: the listing of a scope is registered or refused, a call is
\* answered, and an exception raised.
LEMMA DeliveryKeeps ==
  ASSUME Inv, NEW c \in Client, Deliver(c)
  PROVE  Inv'
<1> USE Requests, Outcomes
<1> DEFINE i == Id(req[c])
           sc == ScopeOf[c]
<1>0. /\ UNCHANGED <<sent, pending, wpc, session, cur, putters, queue, closed, closer, executed, gone>>
      /\ pc[c] = "wait" /\ pc[c] \in Held /\ future[i] # "open"
      /\ future' = [future EXCEPT ![i] = "delivered"]
      BY DEF Deliver, workerVars, queueVars, closeVars, histVars, Held
<1>1. Types /\ ClientInv
      BY DEF Inv
<1>2. i \in Ids /\ req[c] \in Request /\ req[c].who = c /\ req[c].n = sent[c] /\ sc \in Scope
      BY <1>0, <1>1, Clients, TransportAssumption
<1>3. /\ future' \in [Ids -> Result]
      /\ \A j \in Ids \ {i} : future'[j] = future[j]
      /\ future'[i] = "delivered"
      /\ pending' = [w \in Worker |->
           IF on[c] = w /\ future[i] = "open" THEN pending[w] - 1 ELSE pending[w]]
  <2>1. future' \in [Ids -> Result]
        BY <1>0, <1>1 DEF Types
  <2>2. (\A j \in Ids \ {i} : future'[j] = future[j]) /\ future'[i] = "delivered"
        BY <1>0, <1>1, <1>2 DEF Types
  <2>3. pending' = [w \in Worker |->
           IF on[c] = w /\ future[i] = "open" THEN pending[w] - 1 ELSE pending[w]]
        BY <1>0 DEF Inv, PendingInv
  <2> QED BY <2>1, <2>2, <2>3
<1>4. \A w \in Worker : putters'[w] = putters[w] \ {req[c]}
  <2>1. \A w \in Worker : req[c] \notin putters[w]
        BY <1>0, <1>2 DEF Inv, PutInv
  <2> QED BY <1>0, <2>1
<1>5. i \notin gone
      BY <1>0 DEF Inv, GoneInv
<1> DEFINE Kept == /\ pc' \in [Client -> {"start", "reserve", "ok", "failed"} \cup Held]
                   /\ req' \in [Client -> Request \cup {Null}]
                   /\ failures' \in [Client -> Nat]
                   /\ on' \in [Client -> Worker \cup {Null}]
                   /\ Others(c) /\ on'[c] = Null
           Registers == fps' = fps \/ \E s \in Scope, e \in Surface : fps[s] = Null /\ fps' = [fps EXCEPT ![s] = e]
           Left == /\ pc'[c] \in {"ok", "failed"} /\ req'[c] = Null /\ failures'[c] = 0
                   /\ pc'[c] = "ok" => future[i] = "value"
           Again == /\ pc'[c] = "reserve" /\ req'[c] \in Request
                    /\ req'[c].who = c /\ req'[c].n = sent[c] + 1 /\ req'[c].op = "call"
                    /\ req'[c].n <= failures'[c] + 2 /\ failures'[c] < MaxFailures
                    /\ req'[c].expected \in Surface
                    /\ c \notin Safe => req[c].op = "list"
                    /\ closer = 0 => fps'[sc] = req'[c].expected
<1>6. Kept /\ Registers /\ (Left \/ Again)
  <2>1. CASE ~(req[c].op = "list" /\ future[i] \in Surface)
    <3>1. /\ IF future[i] = "value" THEN Leave(c, "ok") ELSE Raise(c, future[i])
          /\ fps' = fps
          BY <2>1 DEF Deliver
    <3>2. CASE future[i] = "value"
          BY <1>0, <1>1, <3>1, <3>2, Leaving
    <3>3. CASE future[i] # "value"
      <4>1. Raise(c, future[i]) /\ sent' = sent
            BY <1>0, <3>1, <3>3
      <4> QED BY <1>0, <3>1, <4>1, Raising
    <3> QED BY <3>2, <3>3
  <2>2. CASE req[c].op = "list" /\ future[i] \in Surface
    <3>1. /\ fps' = IF Registered(sc, future[i]) THEN [fps EXCEPT ![sc] = future[i]] ELSE fps
          /\ IF fps'[sc] # future[i] THEN Leave(c, "failed")
             ELSE /\ Go(c, "reserve")
                  /\ req' = [req EXCEPT ![c] = NewRequest(c, "call", future[i])]
                  /\ on' = [on EXCEPT ![c] = Null]
                  /\ UNCHANGED failures
          BY <2>2 DEF Deliver
    <3>2. Registers
          BY <1>2, <2>2, <3>1 DEF Registered
    <3>3. CASE fps'[sc] # future[i]
          BY <1>0, <1>1, <3>1, <3>2, <3>3, Leaving
    <3>4. CASE fps'[sc] = future[i]
      <4> DEFINE r == NewRequest(c, "call", future[i])
      <4>1. failures[c] = 0 /\ sent[c] = 1
            BY <1>1, <1>2, <2>2 DEF ClientInv
      <4>2. r \in Request /\ r.who = c /\ r.n = sent[c] + 1 /\ r.op = "call" /\ r.expected = future[i]
            BY <2>2, <4>1 DEF NewRequest, Request
      <4>3. /\ pc' = [pc EXCEPT ![c] = "reserve"] /\ req' = [req EXCEPT ![c] = r]
            /\ on' = [on EXCEPT ![c] = Null] /\ failures' = failures
            BY <3>1, <3>4 DEF Go
      <4> HIDE DEF r
      <4>4. Kept /\ pc'[c] = "reserve" /\ req'[c] = r /\ failures'[c] = failures[c]
        <5>1. pc' \in [Client -> {"start", "reserve", "ok", "failed"} \cup Held] /\ pc'[c] = "reserve"
              BY <1>1, <4>3 DEF Types
        <5>2. req' \in [Client -> Request \cup {Null}] /\ req'[c] = r
              BY <1>1, <4>2, <4>3 DEF Types
        <5>3. /\ failures' \in [Client -> Nat] /\ on' \in [Client -> Worker \cup {Null}]
              /\ on'[c] = Null
              BY <1>1, <4>3 DEF Types
        <5>4. Others(c)
              BY <1>0, <1>1, <4>3 DEF Types, Others
        <5> QED BY <4>3, <5>1, <5>2, <5>3, <5>4
      <4>5. failures[c] < MaxFailures /\ r.n <= failures[c] + 2
            BY <4>1, <4>2
      <4>6. Again
            BY <2>2, <3>4, <4>2, <4>4, <4>5
      <4> QED BY <3>2, <4>4, <4>6
    <3> QED BY <3>3, <3>4
  <2> QED BY <2>1, <2>2
<1>7. Types'
  <2>1. putters' \in [Worker -> SUBSET (Request \cup {End})] /\ gone' \subseteq Ids
        BY <1>0, <1>1 DEF Types
  <2>2. fps' \in [Scope -> Surface \cup {Null}]
    <3>1. fps \in [Scope -> Surface \cup {Null}]
          BY <1>1 DEF Types
    <3>2. Registers
          BY <1>6
    <3>3. CASE fps' = fps
          BY <3>1, <3>3
    <3>4. CASE \E s \in Scope, e \in Surface : fps[s] = Null /\ fps' = [fps EXCEPT ![s] = e]
      <4> PICK s \in Scope, e \in Surface : fps' = [fps EXCEPT ![s] = e]
          BY <3>4
      <4> QED BY <3>1
    <3> QED BY <3>2, <3>3, <3>4
  <2> QED BY <1>0, <1>1, <1>3, <1>6, <2>1, <2>2, PartingTypes
<1>8. Parts(c)
  <2>1. pc[c] # "reserve"
        BY <1>0
  <2>2. gone' = gone
        BY <1>0
  <2>3. \/ /\ pc'[c] \in {"ok", "failed"} /\ req'[c] = Null /\ failures'[c] = 0
           /\ pc'[c] = "ok" => pc[c] \in Held /\ future[i] = "value"
        \/ /\ pc[c] \in Held /\ pc'[c] = "reserve" /\ req'[c] \in Request
           /\ req'[c].who = c /\ req'[c].n = sent[c] + 1 /\ req'[c].op = "call"
           /\ req'[c].n <= failures'[c] + 2 /\ failures'[c] < MaxFailures
           /\ req'[c].expected \in Surface
           /\ c \notin Safe => req[c].op = "list"
           /\ closer = 0 => fps'[ScopeOf[c]] = req'[c].expected
        BY <1>0, <1>6
  <2>4. Registers /\ Others(c) /\ on'[c] = Null
        BY <1>6
  <2>5. IF pc[c] = "reserve" \/ i \in gone THEN future'[i] = future[i]
        ELSE future'[i] \in {"cancelled", "delivered", future[i]} \ {"open"}
        BY <1>3, <1>5, <2>1
  <2> QED BY <1>0, <1>3, <1>4, <2>2, <2>3, <2>4, <2>5 DEF Parts
<1> QED BY <1>7, <1>8, PartingKeeps

-----------------------------------------------------------------------------
(* The way to a worker                                                     *)

\* A set of numbers has a smallest one.
LEMMA Smallest ==
  ASSUME NEW T, T \subseteq Nat, T # {}
  PROVE  \E x \in T : \A y \in T : x <= y
<1> DEFINE less == {ss \in Nat \X Nat : ss[1] < ss[2]}
<1>1. IsWellFoundedOn(less, Nat)
      BY NatLessThanWellFounded, Zenon DEF OpToRel
<1>2. \A x, y \in T : x \in Nat /\ y \in Nat /\ (y < x => <<y, x>> \in less)
      OBVIOUS
<1> HIDE DEF less
<1>3. \E x \in T : \A y \in T : ~(<<y, x>> \in less)
      BY <1>1, WFMin
<1> QED
  <2>1. PICK x \in T : \A y \in T : ~(<<y, x>> \in less)
        BY <1>3
  <2>2. \A y \in T : ~(y < x) /\ y \in Nat /\ x \in Nat
        BY <1>2, <2>1
  <2> QED BY <2>2

\* The least loaded worker is a worker.
LEMMA LeastLoadedWorker ==
  ASSUME pending \in [Worker -> Nat]
  PROVE  LeastLoaded \in Worker
<1> DEFINE loads == {pending[w] : w \in Worker}
           least == {w \in Worker : \A v \in Worker : pending[w] <= pending[v]}
<1>1. 1 \in Worker /\ Worker \subseteq Nat
      BY Requests DEF Worker
<1>2. loads \subseteq Nat /\ loads # {}
      BY <1>1
<1> HIDE DEF loads
<1>3. PICK m \in loads : \A n \in loads : m <= n
      BY <1>2, Smallest
<1>4. PICK w \in Worker : pending[w] = m
      BY <1>3 DEF loads
<1>5. \A v \in Worker : pending[v] \in loads
      BY DEF loads
<1>6. w \in least
      BY <1>3, <1>4, <1>5
<1>7. least \subseteq Nat /\ least # {} /\ least \subseteq Worker
      BY <1>1, <1>6
<1> HIDE DEF least
<1>8. \E x \in least : \A y \in least : x <= y
      BY <1>7, Smallest
<1>9. Min(least) \in least
      BY <1>8 DEF Min
<1>10. LeastLoaded = Min(least)
       BY DEF LeastLoaded, least
<1> QED BY <1>7, <1>9, <1>10

\* A worker is reserved and the future made.
LEMMA ReservationKeeps ==
  ASSUME Inv, NEW c \in Client, Reserve(c), ~PoolClosed
  PROVE  Inv'
<1> USE Requests, Outcomes
<1> DEFINE i == Id(req[c])
           least == LeastLoaded
<1>1. Types /\ ClientInv
      BY DEF Inv
<1>2. least \in Worker
      BY LeastLoadedWorker DEF Inv, PendingInv
<1> HIDE DEF least
<1>0. /\ pc[c] = "reserve" /\ pc' = [pc EXCEPT ![c] = "ensure"]
      /\ sent' = [sent EXCEPT ![c] = @ + 1] /\ on' = [on EXCEPT ![c] = least]
      /\ pending' = [pending EXCEPT ![least] = @ + 1]
      /\ future' = [future EXCEPT ![i] = "open"]
      /\ UNCHANGED <<req, failures, wpc, session, cur, putters, queue, fps, closed, closer,
                     executed, gone>>
      BY DEF Reserve, Go, workerVars, queueVars, closeVars, histVars, least
<1>3. /\ req[c] \in Request /\ req[c].who = c /\ i \in Ids /\ i[1] = c
      /\ i[2] = sent[c] + 1 /\ i[2] > sent[c] /\ i[2] = req[c].n /\ on[c] = Null
      /\ sent[c] \in Nat
  <2>1. on[c] = Null /\ sent[c] \in 0 .. MaxFailures + 1
        BY <1>0, <1>1 DEF ClientInv, Types
  <2> QED BY <1>0, <1>1, <2>1, Clients
<1>4. /\ pc'[c] = "ensure" /\ sent'[c] = sent[c] + 1 /\ on'[c] = least
      /\ \A d \in Client \ {c} : pc'[d] = pc[d] /\ sent'[d] = sent[d] /\ on'[d] = on[d]
      /\ \A j \in Ids \ {i} : future'[j] = future[j]
      /\ future'[i] = "open" /\ future[i] = "none"
  <2>1. future[i] = "none"
        BY <1>3 DEF Inv, FutureInv
  <2> QED BY <1>0, <1>1, <1>3, <2>1 DEF Types
<1>5. ~Placed(i)
      BY <1>3 DEF Inv, FreshInv
<1>6. Types'
  <2>1. sent[c] + 1 \in 0 .. MaxFailures + 1
        BY <1>3
  <2>2. sent' \in [Client -> 0 .. MaxFailures + 1]
        BY <1>0, <1>1, <2>1 DEF Types
  <2>3. pc' \in [Client -> {"start", "reserve", "ok", "failed"} \cup Held]
        BY <1>0, <1>1 DEF Types, Held
  <2>4. on' \in [Client -> Worker \cup {Null}] /\ future' \in [Ids -> Result]
        BY <1>0, <1>1, <1>2 DEF Types
  <2> QED BY <1>0, <1>1, <2>2, <2>3, <2>4 DEF Types
<1>7. ClientInv'
  <2>1. \A d \in Client \ {c} : pc'[d] = pc[d] /\ sent'[d] = sent[d] /\ on'[d] = on[d]
        BY <1>4
  <2> QED BY <1>0, <1>1, <1>2, <1>3, <1>4, <2>1 DEF ClientInv, Held
<1>8. FutureInv'
  <2> SUFFICES ASSUME NEW j \in Ids
               PROVE  /\ j[2] > sent'[j[1]] => future'[j] = "none"
                      /\ future'[j] = "open" => pc'[j[1]] \in Held /\ j[2] = sent'[j[1]]
      BY DEF FutureInv
  <2>1. /\ j[2] > sent[j[1]] => future[j] = "none"
        /\ future[j] = "open" => pc[j[1]] \in Held /\ j[2] = sent[j[1]]
        BY DEF Inv, FutureInv
  <2>2. CASE j = i
        BY <1>3, <1>4, <2>2 DEF Held
  <2>3. CASE j # i
    <3>1. future'[j] = future[j]
          BY <1>4, <2>3
    <3>2. CASE j[1] = c
          BY <1>0, <1>3, <1>4, <2>1, <3>1, <3>2 DEF Held
    <3>3. CASE j[1] # c
          BY <1>4, <2>1, <3>1, <3>3
    <3> QED BY <3>2, <3>3
  <2> QED BY <2>2, <2>3
<1>9. WorkerInv'
  <2> SUFFICES ASSUME NEW w \in Worker, NEW k \in 1 .. Len(queue[w]), queue[w][k] # End, Open(queue[w][k])'
               PROVE  req[queue[w][k].who] = queue[w][k] /\ on'[queue[w][k].who] = w
      BY <1>0 DEF Inv, WorkerInv, Open
  <2>1. queue[w][k] \in Request
        BY <1>1 DEF Types
  <2>2. Id(queue[w][k]) # i
        BY <1>5 DEF Placed, Queued
  <2>3. future[Id(queue[w][k])] = "open"
        BY <1>0, <1>4, <2>1, <2>2 DEF Open
  <2>4. req[queue[w][k].who] = queue[w][k] /\ on[queue[w][k].who] = w
        BY <2>3 DEF Inv, WorkerInv, Open
  <2>5. queue[w][k].who # c
        BY <1>3, <2>4
  <2> QED BY <1>4, <2>1, <2>4, <2>5
<1>10. PutInv'
  <2> SUFFICES ASSUME NEW w \in Worker, NEW x \in putters[w] \ {End}
               PROVE  x = req[x.who] /\ on'[x.who] = w /\ pc'[x.who] = "put" /\ future'[Id(x)] = "open"
      BY <1>0 DEF PutInv, Open
  <2>1. x \in Request
        BY <1>1 DEF Types
  <2>2. x = req[x.who] /\ on[x.who] = w /\ pc[x.who] = "put" /\ Open(x)
        BY DEF Inv, PutInv
  <2>3. x.who # c
        BY <1>0, <2>2
  <2>4. Id(x) # i
        BY <1>4, <2>2 DEF Open
  <2> QED BY <1>4, <2>1, <2>2, <2>3, <2>4 DEF Open
<1>11. FreshInv'
  <2>1. ASSUME NEW j \in Ids,
               j[2] > sent'[j[1]] \/ (pc'[j[1]] \in {"ensure", "enqueue"} /\ j[2] = sent'[j[1]])
        PROVE  ~Placed(j)
    <3>1. CASE j[1] = c
      <4>1. j[2] > sent[c]
            BY <1>3, <1>4, <2>1, <3>1
      <4> QED BY <3>1, <4>1 DEF Inv, FreshInv
    <3>2. CASE j[1] # c
          BY <1>4, <2>1, <3>2 DEF Inv, FreshInv
    <3> QED BY <3>1, <3>2
  <2> QED BY <1>0, <2>1, SamePlaces DEF Inv, FreshInv
<1>12. GoneInv'
  <2>1. \A j \in gone : future'[j] = "cancelled" /\ ~Taken(j) /\ ~Executed(j)
    <3>1. \A j \in gone : j \in Ids /\ future[j] = "cancelled" /\ ~Taken(j) /\ ~Executed(j)
          BY <1>1 DEF Types, Inv, GoneInv
    <3> QED BY <1>4, <3>1
  <2>2. \A d \in Client : pc'[d] = "wait" => Id(req[d]) \notin gone
        BY <1>4 DEF Inv, GoneInv
  <2>3. \A x \in executed : future'[x[1]] = "open" => Taken(x[1])
    <3>1. \A x \in executed : x[1] \in Ids /\ x[1] # i
          BY <1>1, <1>5 DEF Types, Placed, Executed
    <3> QED BY <1>4, <3>1 DEF Inv, GoneInv
  <2>4. \A j \in Ids : future'[j] = "value" => Executed(j)
        BY <1>4 DEF Inv, GoneInv
  <2> QED BY <1>0, <2>1, <2>2, <2>3, <2>4, SamePlaces DEF GoneInv
<1>13. KeptInv'
  <2> SUFFICES ASSUME NEW d \in Client, pc'[d] \in {"put", "wait"}
               PROVE  /\ pc'[d] = "wait" => req[d] \notin putters[on'[d]]
                      /\ future'[Id(req[d])] = "open" =>
                           \/ Taken(Id(req[d]))
                           \/ req[d] \in putters[on'[d]]
                           \/ \E k \in 1 .. Len(queue[on'[d]]) : queue[on'[d]][k] = req[d]
      BY <1>0, SamePlaces DEF KeptInv, Open
  <2>1. d # c /\ pc'[d] = pc[d] /\ on'[d] = on[d]
        BY <1>4
  <2>2. Id(req[d]) \in Ids /\ Id(req[d])[1] = d
        BY <1>1, <2>1, Clients DEF Held
  <2>3. Id(req[d]) # i
        BY <1>3, <2>1, <2>2
  <2>4. future'[Id(req[d])] = future[Id(req[d])]
        BY <1>4, <2>2, <2>3
  <2> QED BY <2>1, <2>4 DEF Inv, KeptInv, Open
<1>14. PinInv'
  <2>0. closer = 0
        BY <1>1 DEF PoolClosed, Types
  <2>1. ASSUME NEW s \in Scope, NEW e \in Surface, Pinned(s, e)' PROVE fps[s] = e
    <3>1. Pinned(s, e) \/ (ScopeOf[c] = s /\ req[c].op = "call" /\ req[c].expected = e)
          BY <1>0, <1>4, <2>1 DEF Pinned
    <3> QED BY <1>0, <2>0, <3>1 DEF Inv, PinInv
  <2>2. \A d \in Client : pc'[d] = "reserve" /\ req[d].op = "call" => fps[ScopeOf[d]] = req[d].expected
        BY <1>4, <2>0 DEF Inv, PinInv
  <2> QED BY <1>0, <2>1, <2>2 DEF PinInv
<1>15. OnceInv'
  <2> SUFFICES ASSUME NEW j \in Ids, j[1] \notin Safe, CallPlaced(j)
               PROVE  /\ j[2] = sent'[j[1]] /\ pc'[j[1]] \notin {"start", "reserve"}
                      /\ pc'[j[1]] \in Held => req[j[1]].op = "call"
      BY <1>0, SamePlaces DEF OnceInv
  <2>1. /\ j[2] = sent[j[1]] /\ pc[j[1]] \notin {"start", "reserve"}
        /\ pc[j[1]] \in Held => req[j[1]].op = "call"
        BY DEF Inv, OnceInv
  <2>2. j[1] # c
        BY <1>0, <2>1
  <2> QED BY <1>4, <2>1, <2>2
<1>16. AnswerInv'
  <2> SUFFICES ASSUME NEW d \in Client, pc'[d] = "ok"
               PROVE  \E j \in Ids : j[1] = d /\ j[2] = sent'[d] /\ Executed(j)
      BY <1>0, SamePlaces DEF AnswerInv
  <2>1. pc[d] = "ok" /\ sent'[d] = sent[d]
        BY <1>4
  <2> QED BY <2>1 DEF Inv, AnswerInv
<1>17. PendingInv'
  <2>1. \A w \in Worker : Waiters(w)' = IF w = least THEN Waiters(w) \cup {c} ELSE Waiters(w)
    <3> SUFFICES ASSUME NEW w \in Worker, NEW d \in Client
                 PROVE  (on'[d] = w /\ future'[Id(req[d])] = "open")
                          <=> (d = c /\ w = least) \/ (on[d] = w /\ future[Id(req[d])] = "open")
        BY <1>0 DEF Waiters
    <3>1. CASE d = c
          BY <1>2, <1>3, <1>4, <3>1
    <3>2. CASE d # c
      <4>1. on'[d] = on[d]
            BY <1>4, <3>2
      <4>2. on[d] = w => Id(req[d]) \in Ids /\ Id(req[d])[1] = d
            BY <1>1, Clients DEF Held
      <4>3. on[d] = w => Id(req[d]) # i
            BY <1>3, <3>2, <4>2
      <4> QED BY <1>4, <3>2, <4>1, <4>2, <4>3
    <3> QED BY <3>1, <3>2
  <2>2. \A w \in Worker : c \notin Waiters(w)
        BY <1>3 DEF Waiters
  <2>3. \A w \in Worker : /\ IsFiniteSet(Waiters(w)) /\ pending[w] = Cardinality(Waiters(w))
                          /\ pending[w] \in Nat
        BY DEF Inv, PendingInv
  <2>4. pending' \in [Worker -> Nat]
    <3>1. pending \in [Worker -> Nat] /\ pending[least] + 1 \in Nat
          BY <1>2, <2>3 DEF Inv, PendingInv
    <3> QED BY <1>0, <3>1
  <2>5. ASSUME NEW w \in Worker
        PROVE  IsFiniteSet(Waiters(w)') /\ pending'[w] = Cardinality(Waiters(w)')
    <3>0. pending'[w] = IF w = least THEN pending[w] + 1 ELSE pending[w]
          BY <1>0, <1>2 DEF Inv, PendingInv
    <3>1. CASE w # least
      <4>1. Waiters(w)' = Waiters(w)
            BY <2>1, <3>1
      <4> QED BY <2>3, <3>0, <3>1, <4>1
    <3>2. CASE w = least
      <4>1. Waiters(w)' = Waiters(w) \cup {c}
            BY <2>1, <3>2
      <4>2. IsFiniteSet(Waiters(w)) /\ c \notin Waiters(w)
            BY <2>2, <2>3
      <4>3. IsFiniteSet(Waiters(w) \cup {c}) /\ Cardinality(Waiters(w) \cup {c}) = Cardinality(Waiters(w)) + 1
            BY <4>2, FS_AddElement
      <4> QED BY <2>3, <3>0, <3>2, <4>1, <4>3
    <3> QED BY <3>1, <3>2
  <2> QED BY <2>4, <2>5 DEF PendingInv
<1>18. EarlyInv'
  <2> SUFFICES ASSUME NEW d \in Client, d # c, pc'[d] \in {"ensure", "enqueue"}
               PROVE  future'[Id(req[d])] = "open"
      BY <1>0, <1>4 DEF EarlyInv
  <2>1. pc[d] = pc'[d]
        BY <1>4
  <2>2. Id(req[d]) \in Ids /\ Id(req[d])[1] = d
        BY <1>1, <2>1, Clients DEF Held
  <2>3. Id(req[d]) # i
        BY <1>3, <2>2
  <2> QED BY <1>4, <2>1, <2>2, <2>3 DEF Inv, EarlyInv
<1> QED BY <1>6, <1>7, <1>8, <1>9, <1>10, <1>11, <1>12, <1>13, <1>14, <1>15, <1>16, <1>17, <1>18 DEF Inv

\* What does not depend on how far a call has come with its worker.
LEMMA MovingKeeps ==
  ASSUME Inv, NEW c \in Client, pc[c] \in Held, NEW where \in Held,
         pc' = [pc EXCEPT ![c] = where],
         UNCHANGED <<req, sent, failures, on, future, pending, session, cur, queue, fps, closed,
                     closer, executed, gone>>
  PROVE  /\ ClientInv' /\ FutureInv' /\ PinInv' /\ OnceInv' /\ AnswerInv' /\ PendingInv'
         /\ pc' \in [Client -> {"start", "reserve", "ok", "failed"} \cup Held]
<1> USE Requests, Outcomes
<1>1. Types /\ ClientInv
      BY DEF Inv
<1>2. pc'[c] \in Held /\ \A d \in Client \ {c} : pc'[d] = pc[d]
      BY <1>1 DEF Types
<1>3. ClientInv'
      BY <1>1, <1>2 DEF ClientInv, Held
<1>4. FutureInv'
      BY <1>1, <1>2 DEF Inv, FutureInv
<1>5. PinInv'
  <2>1. \A s \in Scope, e \in Surface : Pinned(s, e)' <=> Pinned(s, e)
        BY <1>2 DEF Pinned
  <2>2. \A d \in Client : pc'[d] = "reserve" => pc[d] = "reserve"
        BY <1>2 DEF Held
  <2> QED BY <2>1, <2>2 DEF Inv, PinInv
<1>6. OnceInv'
      BY <1>2, SamePlaces DEF Inv, OnceInv, Held
<1>7. AnswerInv'
  <2>1. \A d \in Client : pc'[d] = "ok" => pc[d] = "ok"
        BY <1>2 DEF Held
  <2> QED BY <2>1, SamePlaces DEF Inv, AnswerInv
<1>8. PendingInv'
  <2>1. \A w : Waiters(w)' = Waiters(w)
        BY DEF Waiters
  <2> QED BY <2>1 DEF Inv, PendingInv
<1>9. pc' \in [Client -> {"start", "reserve", "ok", "failed"} \cup Held]
      BY <1>1 DEF Types
<1> QED BY <1>3, <1>4, <1>5, <1>6, <1>7, <1>8, <1>9

\* The worker's thread is there.
LEMMA StartKeeps ==
  ASSUME Inv, NEW c \in Client, EnsureStarted(c), ~closed[on[c]], wpc[on[c]] # "dead"
  PROVE  Inv'
<1> USE Requests, Outcomes
<1>0. /\ pc[c] = "ensure" /\ pc' = [pc EXCEPT ![c] = "enqueue"]
      /\ wpc' = [wpc EXCEPT ![on[c]] = IF @ = "none" THEN "idle" ELSE @]
      /\ UNCHANGED <<req, sent, failures, on, future, pending, session, cur, putters, queue, fps,
                     closed, closer, executed, gone>>
      BY DEF EnsureStarted, Go, queueVars, closeVars, histVars
<1>1. Types /\ ClientInv
      BY DEF Inv
<1>2. /\ ClientInv' /\ FutureInv' /\ PinInv' /\ OnceInv' /\ AnswerInv' /\ PendingInv'
      /\ pc' \in [Client -> {"start", "reserve", "ok", "failed"} \cup Held]
      BY <1>0, MovingKeeps DEF Held
<1>3. pc'[c] = "enqueue" /\ \A d \in Client \ {c} : pc'[d] = pc[d]
      BY <1>0, <1>1 DEF Types
<1>4. on[c] \in Worker
      BY <1>0, <1>1, Clients DEF Held
<1>5. Types'
  <2>1. wpc' \in [Worker -> {"none", "idle", "open", "op", "exec", "ended", "dead"}]
        BY <1>0, <1>1, <1>4 DEF Types
  <2> QED BY <1>0, <1>1, <1>2, <2>1 DEF Types
<1>6. WorkerInv'
  <2>1. \A w \in Worker : wpc'[w] = wpc[w] \/ (wpc[w] = "none" /\ wpc'[w] = "idle")
        BY <1>0, <1>1, <1>4 DEF Types
  <2> QED BY <1>0, <2>1 DEF Inv, WorkerInv, Open
<1>7. PutInv'
  <2>1. \A w \in Worker : \A x \in putters[w] \ {End} : x \in Request /\ x.who \in Client /\ x.who # c
        BY <1>0, <1>1 DEF Inv, PutInv, Types
  <2> QED BY <1>0, <1>3, <2>1 DEF Inv, PutInv, Open
<1>8. FreshInv'
  <2>1. \A d \in Client : pc'[d] \in {"ensure", "enqueue"} => pc[d] \in {"ensure", "enqueue"}
        BY <1>0, <1>3
  <2> QED BY <1>0, <2>1, SamePlaces DEF Inv, FreshInv
<1>9. GoneInv' /\ KeptInv'
  <2>1. \A d \in Client : pc'[d] \in {"put", "wait"} => pc'[d] = pc[d]
        BY <1>0, <1>3
  <2>2. GoneInv'
        BY <1>0, <2>1, SamePlaces DEF Inv, GoneInv
  <2>3. KeptInv'
        BY <1>0, <2>1, SamePlaces DEF Inv, KeptInv, Open
  <2> QED BY <2>2, <2>3
<1>10. EarlyInv'
       BY <1>0, <1>3 DEF Inv, EarlyInv
<1> QED BY <1>2, <1>5, <1>6, <1>7, <1>8, <1>9, <1>10 DEF Inv

\* The put is scheduled on the worker's loop.
LEMMA EnqueueKeeps ==
  ASSUME Inv, NEW c \in Client, Enqueue(c), wpc[on[c]] \notin {"ended", "dead"}
  PROVE  Inv'
<1> USE Requests, Outcomes
<1> DEFINE i == Id(req[c])
<1>0. /\ pc[c] = "enqueue" /\ pc' = [pc EXCEPT ![c] = "put"]
      /\ putters' = [putters EXCEPT ![on[c]] = @ \cup {req[c]}]
      /\ UNCHANGED <<req, sent, failures, on, future, pending, wpc, session, cur, queue, fps,
                     closed, closer, executed, gone>>
      BY DEF Enqueue, Go, workerVars, closeVars, histVars
<1>1. Types /\ ClientInv
      BY DEF Inv
<1>2. /\ ClientInv' /\ FutureInv' /\ PinInv' /\ OnceInv' /\ AnswerInv' /\ PendingInv'
      /\ pc' \in [Client -> {"start", "reserve", "ok", "failed"} \cup Held]
      BY <1>0, MovingKeeps DEF Held
<1>3. pc'[c] = "put" /\ \A d \in Client \ {c} : pc'[d] = pc[d]
      BY <1>0, <1>1 DEF Types
<1>4. /\ on[c] \in Worker /\ req[c] \in Request /\ req[c].who = c /\ i \in Ids
      /\ i[1] = c /\ i[2] = sent[c]
      BY <1>0, <1>1, Clients DEF Held
<1>5. /\ putters'[on[c]] = putters[on[c]] \cup {req[c]}
      /\ \A w \in Worker \ {on[c]} : putters'[w] = putters[w]
      BY <1>0, <1>1, <1>4 DEF Types
<1>6. Types'
  <2>1. putters' \in [Worker -> SUBSET (Request \cup {End})]
        BY <1>0, <1>1, <1>4 DEF Types
  <2> QED BY <1>0, <1>1, <1>2, <2>1 DEF Types
<1>7. WorkerInv'
      BY <1>0 DEF Inv, WorkerInv, Open
<1>8. ~Placed(i)
      BY <1>0, <1>4 DEF Inv, FreshInv
<1>9. PutInv'
  <2> SUFFICES ASSUME NEW w \in Worker, NEW x \in putters'[w] \ {End}
               PROVE  x = req[x.who] /\ on[x.who] = w /\ pc'[x.who] = "put" /\ future[Id(x)] = "open"
      BY <1>0 DEF PutInv, Open
  <2>1. CASE x \in putters[w]
    <3>1. x \in Request
          BY <1>1, <2>1 DEF Types
    <3>2. x = req[x.who] /\ on[x.who] = w /\ pc[x.who] = "put" /\ Open(x)
          BY <2>1 DEF Inv, PutInv
    <3> QED BY <1>0, <1>3, <3>1, <3>2 DEF Open
  <2>2. CASE x \notin putters[w]
    <3>1. x = req[c] /\ w = on[c]
          BY <1>5, <2>2
    <3>2. future[Id(req[c])] = "open"
          BY <1>0 DEF Inv, EarlyInv
    <3> QED BY <1>3, <1>4, <3>1, <3>2
  <2> QED BY <2>1, <2>2
<1>10. FreshInv'
  <2>1. \A d \in Client : pc'[d] \in {"ensure", "enqueue"} => pc'[d] = pc[d]
        BY <1>0, <1>3
  <2>2. \A j \in Ids :
          j[2] > sent[j[1]] \/ (pc'[j[1]] \in {"ensure", "enqueue"} /\ j[2] = sent[j[1]]) => ~Placed(j)
        BY <2>1 DEF Inv, FreshInv
  <2>3. \A w \in Worker : \A x \in putters'[w] \ {End} : ~Placed(Id(x))
        BY <1>5, <1>8 DEF Inv, FreshInv
  <2> QED BY <1>0, <2>2, <2>3, SamePlaces DEF FreshInv
<1>11. GoneInv'
  <2>1. \A d \in Client : pc'[d] = "wait" => pc'[d] = pc[d]
        BY <1>0, <1>3
  <2> QED BY <1>0, <2>1, SamePlaces DEF Inv, GoneInv
<1>12. KeptInv'
  <2> SUFFICES ASSUME NEW d \in Client, pc'[d] \in {"put", "wait"}
               PROVE  /\ pc'[d] = "wait" => req[d] \notin putters'[on[d]]
                      /\ Open(req[d]) =>
                           \/ Taken(Id(req[d]))
                           \/ req[d] \in putters'[on[d]]
                           \/ \E k \in 1 .. Len(queue[on[d]]) : queue[on[d]][k] = req[d]
      BY <1>0, SamePlaces DEF KeptInv, Open
  <2>1. CASE d = c
        BY <1>3, <1>4, <1>5, <2>1
  <2>2. CASE d # c
    <3>1. pc'[d] = pc[d]
          BY <1>3, <2>2
    <3>2. on[d] \in Worker /\ req[d].who = d
          BY <1>1, <3>1, Clients DEF Held
    <3>3. req[d] # req[c]
          BY <1>4, <2>2, <3>2
    <3> QED BY <1>5, <3>1, <3>2, <3>3 DEF Inv, KeptInv
  <2> QED BY <2>1, <2>2
<1>13. EarlyInv'
       BY <1>0, <1>3 DEF Inv, EarlyInv
<1> QED BY <1>2, <1>6, <1>7, <1>9, <1>10, <1>11, <1>12, <1>13 DEF Inv

\* The put has come through.
LEMMA PutDoneKeeps ==
  ASSUME Inv, NEW c \in Client, PutDone(c)
  PROVE  Inv'
<1> USE Requests, Outcomes
<1>0. /\ pc[c] = "put" /\ pc' = [pc EXCEPT ![c] = "wait"]
      /\ req[c] \notin putters[on[c]] /\ future[Id(req[c])] # "cancelled"
      /\ UNCHANGED <<req, sent, failures, on, future, pending, wpc, session, cur, putters, queue,
                     fps, closed, closer, executed, gone>>
      BY DEF PutDone, Go, workerVars, queueVars, closeVars, histVars
<1>1. Types /\ ClientInv
      BY DEF Inv
<1>2. /\ ClientInv' /\ FutureInv' /\ PinInv' /\ OnceInv' /\ AnswerInv' /\ PendingInv'
      /\ pc' \in [Client -> {"start", "reserve", "ok", "failed"} \cup Held]
      BY <1>0, MovingKeeps DEF Held
<1>3. pc'[c] = "wait" /\ \A d \in Client \ {c} : pc'[d] = pc[d]
      BY <1>0, <1>1 DEF Types
<1>4. Types'
      BY <1>0, <1>1, <1>2 DEF Types
<1>5. WorkerInv'
      BY <1>0 DEF Inv, WorkerInv, Open
<1>6. PutInv'
  <2> SUFFICES ASSUME NEW w \in Worker, NEW x \in putters[w] \ {End}
               PROVE  x = req[x.who] /\ on[x.who] = w /\ pc'[x.who] = "put" /\ Open(x)
      BY <1>0 DEF PutInv, Open
  <2>1. x \in Request
        BY <1>1 DEF Types
  <2>2. x = req[x.who] /\ on[x.who] = w /\ pc[x.who] = "put" /\ Open(x)
        BY DEF Inv, PutInv
  <2>3. x.who # c
        BY <1>0, <2>2
  <2> QED BY <1>3, <2>1, <2>2, <2>3
<1>7. FreshInv'
  <2>1. \A d \in Client : pc'[d] \in {"ensure", "enqueue"} => pc'[d] = pc[d]
        BY <1>3
  <2> QED BY <1>0, <2>1, SamePlaces DEF Inv, FreshInv
<1>8. GoneInv'
  <2>1. Id(req[c]) \notin gone
        BY <1>0 DEF Inv, GoneInv
  <2>2. \A d \in Client : pc'[d] = "wait" => Id(req[d]) \notin gone
        BY <1>3, <2>1 DEF Inv, GoneInv
  <2> QED BY <1>0, <2>2, SamePlaces DEF Inv, GoneInv
<1>9. KeptInv'
  <2> SUFFICES ASSUME NEW d \in Client, pc'[d] \in {"put", "wait"}
               PROVE  /\ pc'[d] = "wait" => req[d] \notin putters[on[d]]
                      /\ Open(req[d]) =>
                           \/ Taken(Id(req[d]))
                           \/ req[d] \in putters[on[d]]
                           \/ \E k \in 1 .. Len(queue[on[d]]) : queue[on[d]][k] = req[d]
      BY <1>0, SamePlaces DEF KeptInv, Open
  <2>1. CASE d = c
        BY <1>0, <2>1 DEF Inv, KeptInv
  <2>2. CASE d # c
        BY <1>3, <2>2 DEF Inv, KeptInv
  <2> QED BY <2>1, <2>2
<1>10. EarlyInv'
       BY <1>0, <1>3 DEF Inv, EarlyInv
<1> QED BY <1>2, <1>4, <1>5, <1>6, <1>7, <1>8, <1>9, <1>10 DEF Inv

-----------------------------------------------------------------------------
(* Workers                                                                 *)

\* As many as, one to one.
LEMMA SameCount ==
  ASSUME NEW S, IsFiniteSet(S), NEW T, NEW f \in [S -> T],
         \A x, y \in S : f[x] = f[y] => x = y, \A z \in T : \E x \in S : f[x] = z
  PROVE  Cardinality(T) = Cardinality(S)
<1>1. f \in Bijection(S, T)
      BY DEF Bijection, Injection, Surjection, IsInjective
<1>2. ExistsBijection(S, T)
      BY <1>1 DEF ExistsBijection
<1> QED BY <1>2, FS_Bijection

\* Worker w is done with what it works on; the open futures finished are completed.
Finishes(w, finished) ==
  /\ UNCHANGED <<pc, req, sent, failures, on, fps, closed, closer, executed>>
  /\ \A j \in finished : /\ j \in Ids /\ future[j] = "open"
                         /\ Placed(j) \/ \E x \in putters[w] \ {End} : Id(x) = j
                         /\ future'[j] \notin {"open", "none"}
                         /\ future'[j] = "value" => Executed(j)
  /\ \A j \in Ids \ finished : future'[j] = future[j]
  /\ pending' = [v \in Worker |-> pending[v] - Cardinality({j \in finished : on[j[1]] = v})]
  /\ \A v \in Worker \ {w} : /\ wpc'[v] = wpc[v] /\ session'[v] = session[v] /\ cur'[v] = cur[v]
                             /\ putters'[v] = putters[v] /\ queue'[v] = queue[v]
  /\ cur'[w] = Null /\ wpc'[w] \in {"idle", "ended", "dead"}
  /\ cur[w] # Null => future'[Id(cur[w])] # "open"
  /\ wpc'[w] = "dead" => queue'[w] = <<>>
  /\ \A k \in 1 .. Len(queue'[w]) : \E m \in 1 .. Len(queue[w]) : queue'[w][k] = queue[w][m]
  /\ \A m \in 1 .. Len(queue[w]) : queue[w][m] # End /\ future'[Id(queue[w][m])] = "open" =>
       \E k \in 1 .. Len(queue'[w]) : queue'[w][k] = queue[w][m]
  /\ putters'[w] \subseteq putters[w]
  /\ \A x \in putters[w] \ {End} : x \in putters'[w] <=> Id(x) \notin finished
  /\ gone \subseteq gone'
  /\ \A j \in gone' \ gone : /\ j \in finished /\ future'[j] = "cancelled"
                             /\ \E x \in putters[w] \ {End} : Id(x) = j

\* A put that waits is known by its number.
LEMMA Putters ==
  ASSUME Inv, NEW w \in Worker, NEW x \in putters[w] \ {End}
  PROVE  /\ x \in Request /\ x.who \in Client /\ Id(x) \in Ids /\ Id(x)[1] = x.who /\ Id(x)[2] = sent[x.who]
         /\ x = req[x.who] /\ on[x.who] = w /\ pc[x.who] = "put" /\ future[Id(x)] = "open"
         /\ ~Placed(Id(x))
<1> USE Requests
<1>1. x \in Request
      BY DEF Inv, Types
<1>2. x = req[x.who] /\ on[x.who] = w /\ pc[x.who] = "put" /\ future[Id(x)] = "open"
      BY DEF Inv, PutInv, Open
<1>3. ~Placed(Id(x))
      BY DEF Inv, FreshInv
<1>4. x.who \in Client /\ Id(x) \in Ids /\ Id(x)[1] = x.who
      BY <1>1
<1>5. Id(x)[2] = sent[x.who]
      BY <1>2, <1>4, Clients DEF Inv, Held
<1> QED BY <1>1, <1>2, <1>3, <1>4, <1>5

\* A worker is through with its request.
LEMMA FinishKeeps ==
  ASSUME Inv, NEW w \in Worker, NEW finished, Finishes(w, finished), Types'
  PROVE  Inv'
<1> USE Requests, Outcomes
<1>0. UNCHANGED <<pc, req, sent, failures, on, fps, closed, closer, executed>>
      BY DEF Finishes
<1>1. Types /\ ClientInv
      BY DEF Inv
<1>2. /\ \A j \in finished : j \in Ids /\ future[j] = "open" /\ future'[j] \notin {"open", "none"}
      /\ \A j \in Ids \ finished : future'[j] = future[j]
      BY DEF Finishes
<1>3. \A j \in Ids : future'[j] = "open" => future[j] = "open" /\ j \notin finished
      BY <1>2
<1>4. /\ \A v \in Worker \ {w} : /\ wpc'[v] = wpc[v] /\ session'[v] = session[v] /\ cur'[v] = cur[v]
                                 /\ putters'[v] = putters[v] /\ queue'[v] = queue[v]
      /\ cur'[w] = Null /\ wpc'[w] \in {"idle", "ended", "dead"}
      /\ \A k \in 1 .. Len(queue'[w]) : \E m \in 1 .. Len(queue[w]) : queue'[w][k] = queue[w][m]
      /\ putters'[w] \subseteq putters[w]
      BY DEF Finishes
<1>5. \A v \in Worker : \A k \in 1 .. Len(queue'[v]) : \E m \in 1 .. Len(queue[v]) : queue'[v][k] = queue[v][m]
      BY <1>4
<1>6. \A v \in Worker : putters'[v] \subseteq putters[v] /\ (cur'[v] = cur[v] \/ cur'[v] = Null)
      BY <1>4
<1>7. \A i : /\ Placed(i)' => Placed(i)
             /\ Taken(i)' => Taken(i)
             /\ Executed(i)' <=> Executed(i)
             /\ CallPlaced(i)' => CallPlaced(i)
  <2>1. \A i : (Taken(i)' => Taken(i)) /\ (Executed(i)' <=> Executed(i))
        BY <1>0, <1>6 DEF Taken, Executed
  <2>2. \A i : Queued(i)' => Queued(i)
        BY <1>5 DEF Queued
  <2>3. \A i : CallPlaced(i)' => CallPlaced(i)
    <3> SUFFICES ASSUME NEW i, CallPlaced(i)' PROVE CallPlaced(i)
        OBVIOUS
    <3>1. CASE Executed(i)'
          BY <2>1, <3>1 DEF CallPlaced
    <3>2. CASE \E v \in Worker : cur'[v] # Null /\ Id(cur'[v]) = i /\ cur'[v].op = "call"
          BY <1>6, <3>2 DEF CallPlaced
    <3>3. CASE \E v \in Worker : \E k \in 1 .. Len(queue'[v]) :
                 queue'[v][k] # End /\ Id(queue'[v][k]) = i /\ queue'[v][k].op = "call"
          BY <1>5, <3>3 DEF CallPlaced
    <3> QED BY <3>1, <3>2, <3>3 DEF CallPlaced
  <2> QED BY <2>1, <2>2, <2>3 DEF Placed
<1>8. ClientInv'
      BY <1>0, <1>1 DEF ClientInv
<1>9. FutureInv'
  <2> SUFFICES ASSUME NEW j \in Ids
               PROVE  /\ j[2] > sent[j[1]] => future'[j] = "none"
                      /\ future'[j] = "open" => pc[j[1]] \in Held /\ j[2] = sent[j[1]]
      BY <1>0 DEF FutureInv
  <2>1. /\ j[2] > sent[j[1]] => future[j] = "none"
        /\ future[j] = "open" => pc[j[1]] \in Held /\ j[2] = sent[j[1]]
        BY DEF Inv, FutureInv
  <2>2. future[j] = "none" => future'[j] = "none"
        BY <1>2
  <2> QED BY <1>3, <2>1, <2>2
<1>10. WorkerInv'
  <2>1. ASSUME NEW v \in Worker, NEW k \in 1 .. Len(queue'[v]), queue'[v][k] # End, future'[Id(queue'[v][k])] = "open"
        PROVE  req[queue'[v][k].who] = queue'[v][k] /\ on[queue'[v][k].who] = v
    <3>1. PICK m \in 1 .. Len(queue[v]) : queue'[v][k] = queue[v][m]
          BY <1>5, SMTT(30)
    <3>2. queue[v][m] \in Request
          BY <1>1, <2>1, <3>1 DEF Types
    <3>3. Open(queue[v][m])
          BY <1>3, <2>1, <3>1, <3>2 DEF Open
    <3> QED BY <2>1, <3>1, <3>3 DEF Inv, WorkerInv
  <2>2. /\ cur'[w] # Null <=> wpc'[w] \in {"open", "op", "exec"}
        /\ wpc'[w] \in {"op", "exec"} => session'[w] # Null
        /\ wpc'[w] \in {"none", "dead"} => queue'[w] = <<>>
        /\ wpc'[w] = "exec" => \E x \in executed : x[1] = Id(cur'[w])
        BY <1>4 DEF Finishes
  <2>3. ASSUME NEW v \in Worker \ {w}
        PROVE  /\ cur'[v] # Null <=> wpc'[v] \in {"open", "op", "exec"}
               /\ wpc'[v] \in {"op", "exec"} => session'[v] # Null
               /\ wpc'[v] \in {"none", "dead"} => queue'[v] = <<>>
               /\ wpc'[v] = "exec" => \E x \in executed : x[1] = Id(cur'[v])
        BY <1>4, SMTT(30) DEF Inv, WorkerInv
  <2> QED BY <1>0, <2>1, <2>2, <2>3 DEF WorkerInv, Open
<1>11. PutInv'
  <2> SUFFICES ASSUME NEW v \in Worker, NEW x \in putters'[v] \ {End}
               PROVE  x = req[x.who] /\ on[x.who] = v /\ pc[x.who] = "put" /\ future'[Id(x)] = "open"
      BY <1>0 DEF PutInv, Open
  <2>1. x \in putters[v] \ {End}
        BY <1>6
  <2>2. /\ x \in Request /\ Id(x) \in Ids /\ x = req[x.who] /\ on[x.who] = v
        /\ pc[x.who] = "put" /\ future[Id(x)] = "open" /\ ~Placed(Id(x))
        BY <2>1, Putters
  <2>3. Id(x) \notin finished
    <3>1. CASE v = w
          BY <2>1, <3>1 DEF Finishes
    <3>2. CASE v # w
      <4> SUFFICES ASSUME NEW y \in putters[w] \ {End}, Id(y) = Id(x) PROVE FALSE
          BY <2>2 DEF Finishes
      <4>1. y \in Request /\ on[y.who] = w /\ Id(y)[1] = y.who
            BY Putters
      <4>2. y.who = x.who
            BY <2>2, <4>1
      <4> QED BY <2>2, <3>2, <4>1, <4>2
    <3> QED BY <3>1, <3>2
  <2> QED BY <1>2, <2>2, <2>3
<1>12. FreshInv'
      BY <1>0, <1>6, <1>7 DEF Inv, FreshInv
<1>13. EarlyInv'
  <2> SUFFICES ASSUME NEW d \in Client, pc[d] \in {"ensure", "enqueue"}
               PROVE  future'[Id(req[d])] = "open"
      BY <1>0 DEF EarlyInv
  <2>1. Id(req[d]) \in Ids /\ Id(req[d])[1] = d /\ Id(req[d])[2] = sent[d]
        BY <1>1, Clients DEF Held
  <2>2. ~Placed(Id(req[d]))
        BY <2>1 DEF Inv, FreshInv
  <2>3. \A x \in putters[w] \ {End} : Id(x) # Id(req[d])
        BY <2>1, Putters
  <2>4. Id(req[d]) \notin finished
        BY <2>2, <2>3 DEF Finishes
  <2> QED BY <1>2, <2>1, <2>4 DEF Inv, EarlyInv
<1>14. GoneInv'
  <2>1. \A j \in gone' : future'[j] = "cancelled" /\ ~Taken(j) /\ ~Executed(j)
    <3> SUFFICES ASSUME NEW j \in gone'
                 PROVE  future'[j] = "cancelled" /\ ~Taken(j) /\ ~Executed(j)
        OBVIOUS
    <3>1. CASE j \in gone
      <4>1. j \in Ids /\ future[j] = "cancelled" /\ ~Taken(j) /\ ~Executed(j)
            BY <1>1, <3>1 DEF Types, Inv, GoneInv
      <4> QED BY <1>2, <4>1
    <3>2. CASE j \notin gone
      <4>1. future'[j] = "cancelled" /\ \E x \in putters[w] \ {End} : Id(x) = j
            BY <3>2 DEF Finishes
      <4> QED BY <4>1, Putters DEF Placed
    <3> QED BY <3>1, <3>2
  <2>2. ASSUME NEW d \in Client, pc[d] = "wait" PROVE Id(req[d]) \notin gone'
    <3>1. Id(req[d])[1] = d /\ Id(req[d]) \notin gone
          BY <1>1, <2>2, Clients DEF Held, Inv, GoneInv
    <3>2. \A x \in putters[w] \ {End} : Id(x) # Id(req[d])
          BY <2>2, <3>1, Putters
    <3> QED BY <3>1, <3>2 DEF Finishes
  <2>3. ASSUME NEW x \in executed, future'[x[1]] = "open" PROVE Taken(x[1])'
    <3>1. x[1] \in Ids
          BY <1>1 DEF Types
    <3>2. PICK v \in Worker : cur[v] # Null /\ Id(cur[v]) = x[1]
          BY <1>3, <2>3, <3>1 DEF Inv, GoneInv, Taken
    <3>3. v # w
          BY <2>3, <3>2 DEF Finishes
    <3> QED BY <1>4, <3>2, <3>3 DEF Taken
  <2>4. \A j \in Ids : future'[j] = "value" => Executed(j)
        BY <1>2 DEF Inv, GoneInv, Finishes
  <2> QED BY <1>0, <1>7, <2>1, <2>2, <2>3, <2>4 DEF GoneInv
<1>15. KeptInv'
  <2> SUFFICES ASSUME NEW d \in Client, pc[d] \in {"put", "wait"}
               PROVE  /\ pc[d] = "wait" => req[d] \notin putters'[on[d]]
                      /\ future'[Id(req[d])] = "open" =>
                           \/ Taken(Id(req[d]))'
                           \/ req[d] \in putters'[on[d]]
                           \/ \E k \in 1 .. Len(queue'[on[d]]) : queue'[on[d]][k] = req[d]
      BY <1>0 DEF KeptInv, Open
  <2>1. /\ on[d] \in Worker /\ req[d] \in Request /\ Id(req[d]) \in Ids /\ req[d] # End
        BY <1>1, Clients DEF Held
  <2>2. pc[d] = "wait" => req[d] \notin putters'[on[d]]
        BY <1>6, <2>1 DEF Inv, KeptInv
  <2>3. ASSUME future'[Id(req[d])] = "open"
        PROVE  \/ Taken(Id(req[d]))'
               \/ req[d] \in putters'[on[d]]
               \/ \E k \in 1 .. Len(queue'[on[d]]) : queue'[on[d]][k] = req[d]
    <3>1. Open(req[d]) /\ Id(req[d]) \notin finished
          BY <1>3, <2>1, <2>3 DEF Open
    <3>2. CASE Taken(Id(req[d]))
      <4>1. PICK v \in Worker : cur[v] # Null /\ Id(cur[v]) = Id(req[d])
            BY <3>2 DEF Taken
      <4>2. v # w
            BY <2>3, <4>1 DEF Finishes
      <4>3. Taken(Id(req[d]))'
            BY <1>0, <1>4, <4>1, <4>2 DEF Taken
      <4> QED BY <4>3
    <3>3. CASE req[d] \in putters[on[d]]
      <4>1. CASE on[d] = w
            BY <2>1, <3>1, <3>3, <4>1 DEF Finishes
      <4>2. CASE on[d] # w
            BY <1>4, <2>1, <3>3, <4>2
      <4> QED BY <4>1, <4>2
    <3>4. CASE \E k \in 1 .. Len(queue[on[d]]) : queue[on[d]][k] = req[d]
      <4>1. CASE on[d] = w
            BY <2>1, <2>3, <3>4, <4>1 DEF Finishes
      <4>2. CASE on[d] # w
            BY <1>4, <2>1, <3>4, <4>2
      <4> QED BY <4>1, <4>2
    <3> QED BY <3>1, <3>2, <3>3, <3>4 DEF Inv, KeptInv
  <2> QED BY <2>2, <2>3
<1>16. PinInv'
  <2>1. ASSUME NEW s \in Scope, NEW e \in Surface, Pinned(s, e)' PROVE Pinned(s, e)
    <3>1. CASE \/ \E x \in executed : ScopeOf[x[1][1]] = s /\ x[2] = e
               \/ \E c \in Client : pc[c] \in Held /\ ScopeOf[c] = s /\ req[c].op = "call" /\ req[c].expected = e
          BY <3>1 DEF Pinned
    <3>2. CASE \E v \in Worker : /\ cur'[v] # Null /\ ScopeOf[cur'[v].who] = s
                                 /\ cur'[v].op = "call" /\ cur'[v].expected = e
          BY <1>6, <3>2 DEF Pinned
    <3>3. CASE \E v \in Worker : \E k \in 1 .. Len(queue'[v]) :
                 /\ queue'[v][k] # End /\ ScopeOf[queue'[v][k].who] = s
                 /\ queue'[v][k].op = "call" /\ queue'[v][k].expected = e
          BY <1>5, <3>3 DEF Pinned
    <3> QED BY <1>0, <2>1, <3>1, <3>2, <3>3 DEF Pinned
  <2> QED BY <1>0, <2>1 DEF Inv, PinInv
<1>17. OnceInv' /\ AnswerInv'
  <2>1. OnceInv'
        BY <1>0, <1>7 DEF Inv, OnceInv
  <2>2. AnswerInv'
        BY <1>0, <1>7 DEF Inv, AnswerInv
  <2> QED BY <2>1, <2>2
<1>18. PendingInv'
  <2> DEFINE Freed(v) == {c \in Waiters(v) : Id(req[c]) \in finished}
             Ended(v) == {j \in finished : on[j[1]] = v}
  <2>1. ASSUME NEW v \in Worker
        PROVE  /\ IsFiniteSet(Waiters(v)') /\ pending'[v] = Cardinality(Waiters(v)')
               /\ pending'[v] \in Nat
    <3>1. IsFiniteSet(Waiters(v)) /\ pending[v] = Cardinality(Waiters(v))
          BY DEF Inv, PendingInv
    <3>2. Waiters(v)' = Waiters(v) \ Freed(v)
      <4> SUFFICES ASSUME NEW d \in Client, on[d] = v
                   PROVE  future'[Id(req[d])] = "open"
                            <=> (future[Id(req[d])] = "open" /\ Id(req[d]) \notin finished)
          BY <1>0 DEF Waiters
      <4>1. Id(req[d]) \in Ids
            BY <1>1, Clients DEF Held
      <4> QED BY <1>2, <4>1
    <3>3. Cardinality(Ended(v)) = Cardinality(Freed(v))
      <4> DEFINE f == [c \in Freed(v) |-> Id(req[c])]
      <4>1. \A c \in Freed(v) : c \in Client /\ on[c] = v /\ Id(req[c]) \in finished /\ Id(req[c])[1] = c
            BY <1>1, Clients DEF Waiters
      <4>2. f \in [Freed(v) -> Ended(v)]
            BY <4>1
      <4>3. \A x, y \in Freed(v) : f[x] = f[y] => x = y
            BY <4>1
      <4>4. ASSUME NEW j \in Ended(v) PROVE \E x \in Freed(v) : f[x] = j
        <5>1. j \in Ids /\ j[1] \in Client /\ on[j[1]] = v /\ future[j] = "open" /\ j \in finished
              BY <1>2
        <5>2. j[2] = sent[j[1]] /\ pc[j[1]] \in Held
              BY <5>1 DEF Inv, FutureInv
        <5>3. Id(req[j[1]]) \in Ids /\ Id(req[j[1]])[1] = j[1] /\ Id(req[j[1]])[2] = j[2]
              BY <1>1, <5>1, <5>2, Clients
        <5>4. Id(req[j[1]]) = j
              BY <5>1, <5>3
        <5>5. j[1] \in Freed(v)
              BY <5>1, <5>4 DEF Waiters
        <5> QED BY <5>4, <5>5
      <4>5. IsFiniteSet(Freed(v))
        <5>1. Freed(v) \subseteq Waiters(v)
              OBVIOUS
        <5> QED BY <3>1, <5>1, FS_Subset
      <4> HIDE DEF f, Freed, Ended
      <4> QED BY <4>2, <4>3, <4>4, <4>5, SameCount
    <3>4. Waiters(v) \cap Freed(v) = Freed(v)
          OBVIOUS
    <3>5. pending'[v] = pending[v] - Cardinality(Ended(v))
          BY DEF Finishes
    <3> HIDE DEF Freed, Ended
    <3>6. /\ IsFiniteSet(Waiters(v) \ Freed(v))
          /\ Cardinality(Waiters(v) \ Freed(v)) = Cardinality(Waiters(v)) - Cardinality(Waiters(v) \cap Freed(v))
          BY <3>1, FS_Difference
    <3>7. Cardinality(Waiters(v) \ Freed(v)) \in Nat
          BY <3>6, FS_CardinalityType
    <3>8. pending'[v] = Cardinality(Waiters(v) \ Freed(v))
          BY <3>1, <3>3, <3>4, <3>5, <3>6
    <3> QED BY <3>2, <3>6, <3>7, <3>8
  <2>2. pending' \in [Worker -> Nat]
        BY <2>1 DEF Finishes
  <2> QED BY <2>1, <2>2 DEF PendingInv
<1> QED BY <1>8, <1>9, <1>10, <1>11, <1>12, <1>13, <1>14, <1>15, <1>16, <1>17, <1>18 DEF Inv

\* What remains of a queue.
LEMMA Tails ==
  ASSUME NEW S, NEW q \in Seq(S), q # <<>>
  PROVE  /\ Tail(q) \in Seq(S) /\ Len(Tail(q)) = Len(q) - 1 /\ Head(q) = q[1] /\ 1 \in 1 .. Len(q)
         /\ Head(q) \in S
         /\ \A k \in 1 .. Len(Tail(q)) : k + 1 \in 1 .. Len(q) /\ Tail(q)[k] = q[k + 1]
         /\ \A m \in 1 .. Len(q) : m = 1 \/ (m - 1 \in 1 .. Len(Tail(q)) /\ Tail(q)[m - 1] = q[m])
<1>1. Len(q) \in Nat /\ Len(q) > 0
      BY EmptySeq
<1>2. 1 \in 1 .. Len(q)
      BY <1>1
<1>3. /\ Tail(q) \in Seq(S) /\ Len(Tail(q)) = Len(q) - 1 /\ Head(q) = q[1] /\ Head(q) \in S
      OBVIOUS
<1>4. \A k \in 1 .. Len(Tail(q)) : k + 1 \in 1 .. Len(q) /\ Tail(q)[k] = q[k + 1]
      BY <1>1, <1>3
<1>5. ASSUME NEW m \in 1 .. Len(q), m # 1
      PROVE  m - 1 \in 1 .. Len(Tail(q)) /\ Tail(q)[m - 1] = q[m]
      BY <1>1, <1>3, <1>5
<1> QED BY <1>2, <1>3, <1>4, <1>5

\* A cancelled request is skipped.
LEMMA SkipKeeps ==
  ASSUME Inv, NEW w \in Worker, Take(w), Head(queue[w]) # End, Skipped(Head(queue[w]))
  PROVE  Inv'
<1> USE Requests, Outcomes
<1>0. /\ wpc[w] = "idle" /\ queue[w] # <<>> /\ queue' = [queue EXCEPT ![w] = Tail(@)]
      /\ UNCHANGED <<pc, req, sent, failures, on, future, pending, wpc, session, cur, putters, fps,
                     closed, closer, executed, gone>>
      BY DEF Take, clientVars, closeVars
<1>1. Types /\ WorkerInv
      BY DEF Inv
<1>2. queue[w] \in Seq(Request \cup {End})
      BY <1>1 DEF Types
<1>3. /\ Tail(queue[w]) \in Seq(Request \cup {End}) /\ Len(Tail(queue[w])) = Len(queue[w]) - 1
      /\ Head(queue[w]) = queue[w][1]
      /\ \A k \in 1 .. Len(Tail(queue[w])) : k + 1 \in 1 .. Len(queue[w]) /\ Tail(queue[w])[k] = queue[w][k + 1]
      /\ \A m \in 1 .. Len(queue[w]) :
           m = 1 \/ (m - 1 \in 1 .. Len(Tail(queue[w])) /\ Tail(queue[w])[m - 1] = queue[w][m])
      BY <1>0, <1>2, Tails
<1>4. queue'[w] = Tail(queue[w]) /\ \A v \in Worker \ {w} : queue'[v] = queue[v]
      BY <1>0, <1>1 DEF Types
<1>5. Types'
  <2>1. queue' \in [Worker -> Seq(Request \cup {End})]
        BY <1>0, <1>1, <1>3 DEF Types
  <2>2. \A v \in Worker : Len(queue'[v]) <= MaxPending
    <3>1. Len(queue[w]) \in Nat /\ Len(queue[w]) <= MaxPending
          BY <1>1, <1>2 DEF Types
    <3>2. Len(queue'[w]) <= MaxPending
          BY <1>3, <1>4, <3>1
    <3> QED BY <1>1, <1>4, <3>2 DEF Types
  <2> QED BY <1>0, <1>1, <2>1, <2>2 DEF Types
<1>6. Finishes(w, {})
  <2>1. cur[w] = Null
        BY <1>0, <1>1 DEF WorkerInv
  <2>2. pending' = [v \in Worker |-> pending[v] - Cardinality({j \in {} : on[j[1]] = v})]
    <3>1. \A v \in Worker : {j \in {} : on[j[1]] = v} = {}
          OBVIOUS
    <3>2. \A v \in Worker : Cardinality({j \in {} : on[j[1]] = v}) = 0
          BY <3>1, FS_EmptySet
    <3>3. \A v \in Worker : pending[v] - 0 = pending[v]
          BY DEF Inv, PendingInv
    <3> QED BY <1>0, <3>2, <3>3 DEF Inv, PendingInv
  <2>3. ASSUME NEW m \in 1 .. Len(queue[w]), future'[Id(queue[w][m])] = "open"
        PROVE  \E k \in 1 .. Len(queue'[w]) : queue'[w][k] = queue[w][m]
    <3>1. m # 1
          BY <1>0, <1>3, <2>3 DEF Skipped
    <3>2. m - 1 \in 1 .. Len(queue'[w]) /\ queue'[w][m - 1] = queue[w][m]
          BY <1>3, <1>4, <3>1
    <3> QED BY <3>2
  <2>4. \A k \in 1 .. Len(queue'[w]) : \E m \in 1 .. Len(queue[w]) : queue'[w][k] = queue[w][m]
        BY <1>3, <1>4
  <2> QED BY <1>0, <1>4, <2>1, <2>2, <2>3, <2>4 DEF Finishes
<1> QED BY <1>5, <1>6, FinishKeeps

\* What a completion counts.
LEMMA CountedOut ==
  ASSUME Inv, NEW i \in Ids, future[i] = "open", NEW result, Complete({i}, result)
  PROVE  pending' = [v \in Worker |-> pending[v] - Cardinality({j \in {i} : on[j[1]] = v})]
<1> USE Requests, Outcomes
<1>1. ASSUME NEW v \in Worker
      PROVE  (IF Cardinality(Released(v, {i})) < pending[v]
              THEN pending[v] - Cardinality(Released(v, {i})) ELSE 0)
             = pending[v] - Cardinality({j \in {i} : on[j[1]] = v})
  <2>0. IsFiniteSet(Waiters(v)) /\ pending[v] = Cardinality(Waiters(v)) /\ pending[v] \in Nat
        BY DEF Inv, PendingInv
  <2>1. CASE on[i[1]] = v
    <3>1. Released(v, {i}) = {i} /\ {j \in {i} : on[j[1]] = v} = {i}
          BY <2>1 DEF Released
    <3>2. Cardinality({i}) = 1
          BY FS_Singleton
    <3>3. pc[i[1]] \in Held /\ i[2] = sent[i[1]] /\ i[1] \in Client
          BY DEF Inv, FutureInv
    <3>4. Id(req[i[1]]) \in Ids /\ Id(req[i[1]])[1] = i[1] /\ Id(req[i[1]])[2] = i[2]
          BY <3>3, Clients DEF Inv
    <3>5. Id(req[i[1]]) = i
          BY <3>4
    <3>6. i[1] \in Waiters(v)
          BY <2>1, <3>3, <3>5 DEF Waiters
    <3>7. pending[v] # 0
          BY <2>0, <3>6, FS_EmptySet
    <3>8. Cardinality(Released(v, {i})) = 1 /\ Cardinality({j \in {i} : on[j[1]] = v}) = 1
          BY <3>1, <3>2
    <3> QED BY <2>0, <3>7, <3>8
  <2>2. CASE on[i[1]] # v
    <3>1. Released(v, {i}) = {} /\ {j \in {i} : on[j[1]] = v} = {}
          BY <2>2 DEF Released
    <3>2. Cardinality({}) = 0
          BY FS_EmptySet
    <3>3. Cardinality(Released(v, {i})) = 0 /\ Cardinality({j \in {i} : on[j[1]] = v}) = 0
          BY <3>1, <3>2
    <3> QED BY <2>0, <3>3
  <2> QED BY <2>1, <2>2
<1>2. pending' = [v \in Worker |->
        IF Cardinality(Released(v, {i})) < pending[v]
        THEN pending[v] - Cardinality(Released(v, {i})) ELSE 0]
      BY DEF Complete
<1> DEFINE new(v) == IF Cardinality(Released(v, {i})) < pending[v]
                     THEN pending[v] - Cardinality(Released(v, {i})) ELSE 0
           less(v) == pending[v] - Cardinality({j \in {i} : on[j[1]] = v})
<1>3. (\A v \in Worker : new(v) = less(v)) /\ pending' = [v \in Worker |-> new(v)]
      BY <1>1, <1>2
<1> HIDE DEF new, less
<1>4. pending' = [v \in Worker |-> less(v)]
      BY <1>3
<1> QED BY <1>4 DEF less

\* Worker w answers the request it works on, or drops it when its future is done.
Answers(w) ==
  /\ cur[w] # Null /\ \E keep \in BOOLEAN : Back(w, keep)
  /\ UNCHANGED <<pc, req, sent, failures, on, fps, closed, closer, executed, putters, queue, gone>>
  /\ \/ ~Open(cur[w]) /\ UNCHANGED <<future, pending>>
     \/ /\ Open(cur[w])
        /\ \E result \in Surface \cup Fault \cup {"value"} :
             /\ Complete({Id(cur[w])}, result)
             /\ result = "value" => wpc[w] = "exec"

\* A worker answers or drops the request it works on.
LEMMA AnswerKeeps ==
  ASSUME Inv, NEW w \in Worker, Answers(w)
  PROVE  Inv'
<1> USE Requests, Outcomes
<1> DEFINE i == Id(cur[w])
<1>0. /\ UNCHANGED <<pc, req, sent, failures, on, fps, closed, closer, executed, putters, queue, gone>>
      /\ cur[w] # Null
      BY DEF Answers
<1>1. Types /\ WorkerInv
      BY DEF Inv
<1>2. cur[w] \in Request /\ i \in Ids /\ Taken(i)
      BY <1>0, <1>1 DEF Types, Taken
<1>3. PICK keep \in BOOLEAN : Back(w, keep)
      BY DEF Answers
<1>4. /\ cur' = [cur EXCEPT ![w] = Null] /\ wpc' = [wpc EXCEPT ![w] = "idle"]
      /\ session' = session \/ session' = [session EXCEPT ![w] = Null]
      BY <1>3 DEF Back, Turn
<1>5. /\ \A v \in Worker \ {w} : wpc'[v] = wpc[v] /\ session'[v] = session[v] /\ cur'[v] = cur[v]
      /\ cur'[w] = Null /\ wpc'[w] = "idle"
      BY <1>1, <1>4 DEF Types
<1>6. ASSUME future' \in [Ids -> Result] PROVE Types'
  <2>1. cur' \in [Worker -> Request \cup {Null}]
        BY <1>1, <1>4 DEF Types
  <2>2. wpc' \in [Worker -> {"none", "idle", "open", "op", "exec", "ended", "dead"}]
        BY <1>1, <1>4 DEF Types
  <2>3. session' \in [Worker -> (Scope \X Surface) \cup {Null}]
    <3>1. session \in [Worker -> (Scope \X Surface) \cup {Null}]
          BY <1>1 DEF Types
    <3>2. CASE session' = session
          BY <3>1, <3>2
    <3>3. CASE session' = [session EXCEPT ![w] = Null]
          BY <3>1, <3>3
    <3> QED BY <1>4, <3>2, <3>3
  <2> QED BY <1>0, <1>1, <1>6, <2>1, <2>2, <2>3 DEF Types
<1>7. CASE ~Open(cur[w]) /\ UNCHANGED <<future, pending>>
  <2>1. Types'
        BY <1>1, <1>6, <1>7 DEF Types
  <2>2. Finishes(w, {})
    <3>1. pending' = [v \in Worker |-> pending[v] - Cardinality({j \in {} : on[j[1]] = v})]
      <4>1. \A v \in Worker : {j \in {} : on[j[1]] = v} = {}
            OBVIOUS
      <4>2. \A v \in Worker : Cardinality({j \in {} : on[j[1]] = v}) = 0
            BY <4>1, FS_EmptySet
      <4>3. \A v \in Worker : pending[v] - 0 = pending[v]
            BY DEF Inv, PendingInv
      <4> QED BY <1>7, <4>2, <4>3 DEF Inv, PendingInv
    <3> QED BY <1>0, <1>5, <1>7, <3>1 DEF Finishes, Open
  <2> QED BY <2>1, <2>2, FinishKeeps
<1>8. CASE Open(cur[w])
  <2>1. PICK result \in Surface \cup Fault \cup {"value"} :
          Complete({i}, result) /\ (result = "value" => wpc[w] = "exec")
        BY <1>8 DEF Answers
  <2>2. future[i] = "open"
        BY <1>8 DEF Open
  <2>3. pending' = [v \in Worker |-> pending[v] - Cardinality({j \in {i} : on[j[1]] = v})]
        BY <1>2, <2>1, <2>2, CountedOut
  <2>4. /\ future' = [j \in Ids |-> IF j \in {i} THEN result ELSE future[j]]
        BY <2>1 DEF Complete
  <2>5. result \in Result /\ result \notin {"open", "none", "cancelled"}
        BY <2>1
  <2>6. Types'
    <3>1. future' \in [Ids -> Result]
          BY <1>1, <2>4, <2>5 DEF Types
    <3> QED BY <1>6, <3>1
  <2>7. future'[i] = result /\ \A j \in Ids \ {i} : future'[j] = future[j]
        BY <1>2, <2>4
  <2>8. result = "value" => Executed(i)
        BY <1>1, <2>1 DEF WorkerInv, Executed
  <2>9. \A x \in putters[w] \ {End} : Id(x) # i
        BY <1>2, Putters DEF Placed
  <2>10. Finishes(w, {i})
         BY <1>0, <1>2, <1>5, <2>2, <2>3, <2>5, <2>7, <2>8, <2>9 DEF Finishes, Placed
  <2> QED BY <2>6, <2>10, FinishKeeps
<1> QED BY <1>7, <1>8 DEF Answers

\* The loop of w is over: the requests ids of its queue fail, the others stay in it.
Closes(w, ids, result, state) ==
  /\ LoopEnds(w, ids, result, state) /\ state \in {"ended", "dead"} /\ ids \subseteq Ids
  /\ UNCHANGED <<pc, req, sent, failures, on, fps, closed, closer, executed>>
  /\ \A i \in ids : future[i] = "open" => Queued(i) /\ on[i[1]] = w
  /\ result \in Fault \/ ids = {}
  /\ state = "dead" => queue'[w] = <<>>
  /\ queue' \in [Worker -> Seq(Request \cup {End})]
  /\ \A v \in Worker \ {w} : queue'[v] = queue[v]
  /\ Len(queue'[w]) <= MaxPending
  /\ \A k \in 1 .. Len(queue'[w]) : \E m \in 1 .. Len(queue[w]) : queue'[w][k] = queue[w][m]
  /\ \A m \in 1 .. Len(queue[w]) : queue[w][m] # End =>
       Id(queue[w][m]) \in ids \/ \E k \in 1 .. Len(queue'[w]) : queue'[w][k] = queue[w][m]
  /\ cur[w] # Null => ~Open(cur[w])

\* A loop that is over answers or cancels everything that waits for it.
LEMMA LoopEndKeeps ==
  ASSUME Inv, NEW w \in Worker, NEW ids, NEW result, NEW state, Closes(w, ids, result, state)
  PROVE  Inv'
<1> USE Requests, Outcomes
<1> DEFINE waiting == {Id(x) : x \in putters[w] \ {End}}
           finished == {i \in waiting \cup ids : future[i] = "open"}
<1>0. /\ LoopEnds(w, ids, result, state) /\ state \in {"ended", "dead"} /\ ids \subseteq Ids
      /\ UNCHANGED <<pc, req, sent, failures, on, fps, closed, closer, executed>>
      /\ \A i \in ids : future[i] = "open" => Queued(i) /\ on[i[1]] = w
      /\ result \in Fault \/ ids = {}
      /\ state = "dead" => queue'[w] = <<>>
      /\ queue' \in [Worker -> Seq(Request \cup {End})]
      /\ \A v \in Worker \ {w} : queue'[v] = queue[v]
      /\ Len(queue'[w]) <= MaxPending
      /\ \A k \in 1 .. Len(queue'[w]) : \E m \in 1 .. Len(queue[w]) : queue'[w][k] = queue[w][m]
      /\ \A m \in 1 .. Len(queue[w]) : queue[w][m] # End =>
           Id(queue[w][m]) \in ids \/ \E k \in 1 .. Len(queue'[w]) : queue'[w][k] = queue[w][m]
      /\ cur[w] # Null => ~Open(cur[w])
      BY DEF Closes
<1>1. Types /\ WorkerInv
      BY DEF Inv
<1>2. /\ future' = [i \in Ids |-> IF i \in finished THEN (IF i \in waiting THEN "cancelled" ELSE result) ELSE future[i]]
      /\ pending' = [v \in Worker |-> IF v = w THEN pending[v] - Cardinality(finished) ELSE pending[v]]
      /\ gone' = gone \cup waiting
      /\ putters' = [putters EXCEPT ![w] = {}] /\ wpc' = [wpc EXCEPT ![w] = state]
      /\ session' = [session EXCEPT ![w] = Null] /\ cur' = [cur EXCEPT ![w] = Null]
      BY <1>0 DEF LoopEnds
<1>3. \A i \in waiting : /\ i \in Ids /\ future[i] = "open" /\ on[i[1]] = w /\ ~Placed(i)
                         /\ \E x \in putters[w] \ {End} : Id(x) = i
  <2> SUFFICES ASSUME NEW x \in putters[w] \ {End}
               PROVE  Id(x) \in Ids /\ future[Id(x)] = "open" /\ on[Id(x)[1]] = w /\ ~Placed(Id(x))
      OBVIOUS
  <2> QED BY Putters
<1>4. \A x \in putters[w] \ {End} : Id(x) \in waiting
      OBVIOUS
<1> HIDE DEF waiting
<1>5. \A i \in finished : /\ i \in Ids /\ future[i] = "open" /\ on[i[1]] = w
                          /\ i \in waiting \/ (i \in ids /\ result \in Fault)
                          /\ i \notin waiting => Placed(i)
      BY <1>0, <1>3 DEF Placed
<1>6. waiting \subseteq finished
      BY <1>3
<1>7. \A i \in ids : i \in finished <=> future[i] = "open"
      OBVIOUS
<1> HIDE DEF finished
<1>8. /\ \A j \in Ids \ finished : future'[j] = future[j]
      /\ \A j \in waiting : future'[j] = "cancelled"
      /\ \A j \in finished : future'[j] \in {"cancelled"} \cup Fault
      BY <1>2, <1>3, <1>5, <1>6
<1>9. Types'
  <2>1. future' \in [Ids -> Result]
    <3> DEFINE new(i) == IF i \in finished THEN (IF i \in waiting THEN "cancelled" ELSE result) ELSE future[i]
    <3>1. future' = [i \in Ids |-> new(i)]
          BY <1>2
    <3>2. \A i \in Ids : future'[i] \in Result
      <4>1. \A i \in Ids : future[i] \in Result
            BY <1>1 DEF Types
      <4>2. \A i \in finished : future'[i] \in Result
            BY <1>8
      <4> QED BY <1>8, <4>1, <4>2
    <3> HIDE DEF new
    <3>3. \A i \in Ids : new(i) \in Result
          BY <3>1, <3>2
    <3> QED BY <3>1, <3>3
  <2>2. putters' \in [Worker -> SUBSET (Request \cup {End})]
        BY <1>1, <1>2 DEF Types
  <2>3. wpc' \in [Worker -> {"none", "idle", "open", "op", "exec", "ended", "dead"}]
        BY <1>0, <1>1, <1>2 DEF Types
  <2>4. session' \in [Worker -> (Scope \X Surface) \cup {Null}]
        BY <1>1, <1>2 DEF Types
  <2>5. cur' \in [Worker -> Request \cup {Null}]
        BY <1>1, <1>2 DEF Types
  <2>6. gone' \subseteq Ids
        BY <1>1, <1>2, <1>3 DEF Types
  <2>7. \A v \in Worker : Len(queue'[v]) <= MaxPending
        BY <1>0, <1>1 DEF Types
  <2> QED BY <1>0, <1>1, <2>1, <2>2, <2>3, <2>4, <2>5, <2>6, <2>7 DEF Types
<1>10. pending' = [v \in Worker |-> pending[v] - Cardinality({j \in finished : on[j[1]] = v})]
  <2> DEFINE new(v) == IF v = w THEN pending[v] - Cardinality(finished) ELSE pending[v]
             less(v) == pending[v] - Cardinality({j \in finished : on[j[1]] = v})
  <2>1. ASSUME NEW v \in Worker PROVE new(v) = less(v)
    <3>1. CASE v = w
      <4>1. {j \in finished : on[j[1]] = v} = finished
            BY <1>5, <3>1
      <4> QED BY <3>1, <4>1
    <3>2. CASE v # w
      <4>1. {j \in finished : on[j[1]] = v} = {}
            BY <1>5, <3>2
      <4>2. Cardinality({j \in finished : on[j[1]] = v}) = 0
            BY <4>1, FS_EmptySet
      <4>3. pending[v] \in Nat
            BY DEF Inv, PendingInv
      <4> QED BY <3>2, <4>2, <4>3
    <3> QED BY <3>1, <3>2
  <2>2. pending' = [v \in Worker |-> new(v)]
        BY <1>2
  <2> HIDE DEF new, less
  <2>3. pending' = [v \in Worker |-> less(v)]
        BY <2>1, <2>2
  <2> QED BY <2>3 DEF less
<1>11. /\ \A v \in Worker \ {w} : /\ wpc'[v] = wpc[v] /\ session'[v] = session[v] /\ cur'[v] = cur[v]
                                  /\ putters'[v] = putters[v]
       /\ cur'[w] = Null /\ wpc'[w] = state /\ putters'[w] = {}
       BY <1>1, <1>2 DEF Types
<1>12. \A m \in 1 .. Len(queue[w]) : queue[w][m] # End /\ future'[Id(queue[w][m])] = "open" =>
         \E k \in 1 .. Len(queue'[w]) : queue'[w][k] = queue[w][m]
  <2> SUFFICES ASSUME NEW m \in 1 .. Len(queue[w]), queue[w][m] # End, Id(queue[w][m]) \in ids
               PROVE  future'[Id(queue[w][m])] # "open"
      BY <1>0
  <2>1. Id(queue[w][m]) \in Ids
        BY <1>0
  <2> QED BY <1>7, <1>8, <2>1
<1>13. cur[w] # Null => future'[Id(cur[w])] # "open"
  <2> SUFFICES ASSUME cur[w] # Null PROVE future'[Id(cur[w])] # "open"
      OBVIOUS
  <2>1. cur[w] \in Request /\ Id(cur[w]) \in Ids
        BY <1>1 DEF Types
  <2> QED BY <1>0, <1>8, <2>1 DEF Open
<1>14. \A j \in finished : /\ Placed(j) \/ \E x \in putters[w] \ {End} : Id(x) = j
                           /\ future'[j] \notin {"open", "none", "value"}
       BY <1>3, <1>5, <1>8
<1>15. \A x \in putters[w] \ {End} : x \in putters'[w] <=> Id(x) \notin finished
       BY <1>4, <1>6, <1>11
<1>16. /\ gone \subseteq gone'
       /\ \A j \in gone' \ gone : /\ j \in finished /\ future'[j] = "cancelled"
                                  /\ \E x \in putters[w] \ {End} : Id(x) = j
       BY <1>2, <1>3, <1>6, <1>8
<1>17. \A j \in finished : j \in Ids /\ future[j] = "open"
       BY <1>5
<1>18. Finishes(w, finished)
       BY <1>0, <1>8, <1>10, <1>11, <1>12, <1>13, <1>14, <1>15, <1>16, <1>17 DEF Finishes
<1> QED BY <1>9, <1>18, FinishKeeps

\* close() ends a loop.
LEMMA EndKeeps ==
  ASSUME Inv, NEW w \in Worker, Take(w), Head(queue[w]) = End
  PROVE  Inv'
<1> USE Requests, Outcomes
<1>0. /\ wpc[w] = "idle" /\ queue[w] # <<>> /\ queue' = [queue EXCEPT ![w] = Tail(@)]
      /\ LoopEnds(w, {}, "none", "ended")
      /\ UNCHANGED <<pc, req, sent, failures, on, fps, closed, closer, executed>>
      BY DEF Take, clientVars, closeVars
<1>1. Types /\ WorkerInv
      BY DEF Inv
<1>2. queue[w] \in Seq(Request \cup {End})
      BY <1>1 DEF Types
<1>3. /\ Tail(queue[w]) \in Seq(Request \cup {End}) /\ Len(Tail(queue[w])) = Len(queue[w]) - 1
      /\ Head(queue[w]) = queue[w][1]
      /\ \A k \in 1 .. Len(Tail(queue[w])) : k + 1 \in 1 .. Len(queue[w]) /\ Tail(queue[w])[k] = queue[w][k + 1]
      /\ \A m \in 1 .. Len(queue[w]) :
           m = 1 \/ (m - 1 \in 1 .. Len(Tail(queue[w])) /\ Tail(queue[w])[m - 1] = queue[w][m])
      BY <1>0, <1>2, Tails
<1>4. queue'[w] = Tail(queue[w]) /\ \A v \in Worker \ {w} : queue'[v] = queue[v]
      BY <1>0, <1>1 DEF Types
<1>5. queue' \in [Worker -> Seq(Request \cup {End})]
      BY <1>0, <1>1, <1>3 DEF Types
<1>6. Len(queue'[w]) <= MaxPending
  <2>1. Len(queue[w]) \in Nat /\ Len(queue[w]) <= MaxPending
        BY <1>1, <1>2 DEF Types
  <2> QED BY <1>3, <1>4, <2>1
<1>7. \A k \in 1 .. Len(queue'[w]) : \E m \in 1 .. Len(queue[w]) : queue'[w][k] = queue[w][m]
      BY <1>3, <1>4
<1>8. ASSUME NEW m \in 1 .. Len(queue[w]), queue[w][m] # End
      PROVE  \E k \in 1 .. Len(queue'[w]) : queue'[w][k] = queue[w][m]
  <2>1. m - 1 \in 1 .. Len(queue'[w]) /\ queue'[w][m - 1] = queue[w][m]
        BY <1>3, <1>4, <1>8
  <2> QED BY <2>1
<1>9. cur[w] = Null
      BY <1>0, <1>1 DEF WorkerInv
<1>10. Closes(w, {}, "none", "ended")
       BY <1>0, <1>4, <1>5, <1>6, <1>7, <1>8, <1>9 DEF Closes
<1> QED BY <1>10, LoopEndKeeps

\* A thread dies with its queue.
LEMMA DeathKeeps ==
  ASSUME Inv, NEW w \in Worker, NEW f \in Fault, cur[w] # Null, ~Open(cur[w]),
         LoopEnds(w, FailQueued(w), f, "dead"), queue' = [queue EXCEPT ![w] = <<>>],
         UNCHANGED <<pc, req, sent, failures, on, fps, closed, closer, executed>>
  PROVE  Inv'
<1> USE Requests, Outcomes
<1>1. Types /\ WorkerInv
      BY DEF Inv
<1>2. queue[w] \in Seq(Request \cup {End}) /\ DOMAIN queue[w] = 1 .. Len(queue[w])
      BY <1>1 DEF Types
<1>3. \A m \in 1 .. Len(queue[w]) : queue[w][m] # End => queue[w][m] \in Request /\ Id(queue[w][m]) \in FailQueued(w)
      BY <1>2 DEF FailQueued
<1>4. \A i \in FailQueued(w) : \E m \in 1 .. Len(queue[w]) : queue[w][m] # End /\ queue[w][m] \in Request /\ Id(queue[w][m]) = i
      BY <1>2 DEF FailQueued
<1>5. FailQueued(w) \subseteq Ids
      BY <1>4
<1>6. ASSUME NEW i \in FailQueued(w), future[i] = "open" PROVE Queued(i) /\ on[i[1]] = w
  <2>1. PICK m \in 1 .. Len(queue[w]) : queue[w][m] # End /\ queue[w][m] \in Request /\ Id(queue[w][m]) = i
        BY <1>4
  <2>2. on[queue[w][m].who] = w
        BY <1>1, <1>6, <2>1 DEF WorkerInv, Open
  <2>3. i[1] = queue[w][m].who
        BY <2>1
  <2> QED BY <2>1, <2>2, <2>3 DEF Queued
<1>7. /\ queue'[w] = <<>> /\ \A v \in Worker \ {w} : queue'[v] = queue[v]
      /\ queue' \in [Worker -> Seq(Request \cup {End})]
      BY <1>1 DEF Types
<1>8. Len(queue'[w]) = 0 /\ 1 .. Len(queue'[w]) = {} /\ Len(queue'[w]) <= MaxPending
      BY <1>7
<1>9. Closes(w, FailQueued(w), f, "dead")
      BY <1>3, <1>5, <1>6, <1>7, <1>8 DEF Closes
<1> QED BY <1>9, LoopEndKeeps

\* A put goes through.
LEMMA EnterKeeps ==
  ASSUME Inv, NEW w \in Worker, Enter(w)
  PROVE  Inv'
<1> USE Requests, Outcomes
<1>0. /\ UNCHANGED <<pc, req, sent, failures, on, future, pending, wpc, session, cur, fps, closed, closer,
                     executed, gone>>
      /\ wpc[w] \notin {"none", "ended", "dead"} /\ Len(queue[w]) < MaxPending
      BY DEF Enter, clientVars, workerVars, closeVars, histVars
<1>1. Types /\ ClientInv
      BY DEF Inv
<1>2. PICK x \in putters[w] : /\ queue' = [queue EXCEPT ![w] = Append(@, x)]
                              /\ putters' = [putters EXCEPT ![w] = @ \ {x}]
      BY DEF Enter
<1>3. /\ x \in Request \cup {End} /\ queue[w] \in Seq(Request \cup {End}) /\ Len(queue[w]) \in Nat
      BY <1>1 DEF Types
<1>4. /\ queue'[w] = Append(queue[w], x) /\ putters'[w] = putters[w] \ {x}
      /\ \A v \in Worker \ {w} : queue'[v] = queue[v] /\ putters'[v] = putters[v]
      BY <1>1, <1>2 DEF Types
<1>5. /\ Append(queue[w], x) \in Seq(Request \cup {End}) /\ Len(Append(queue[w], x)) = Len(queue[w]) + 1
      /\ \A k \in 1 .. Len(queue[w]) : Append(queue[w], x)[k] = queue[w][k]
      /\ Append(queue[w], x)[Len(queue[w]) + 1] = x
      BY <1>3
<1>6. /\ \A v \in Worker : \A k \in 1 .. Len(queue[v]) : k \in 1 .. Len(queue'[v]) /\ queue'[v][k] = queue[v][k]
      /\ \A v \in Worker : \A k \in 1 .. Len(queue'[v]) :
           \/ k \in 1 .. Len(queue[v]) /\ queue'[v][k] = queue[v][k]
           \/ v = w /\ queue'[v][k] = x
      /\ \E k \in 1 .. Len(queue'[w]) : queue'[w][k] = x
  <2>1. 1 .. Len(queue'[w]) = 1 .. (Len(queue[w]) + 1) /\ Len(queue[w]) + 1 \in 1 .. (Len(queue[w]) + 1)
        BY <1>3, <1>4, <1>5
  <2>2. \A k \in 1 .. (Len(queue[w]) + 1) : k \in 1 .. Len(queue[w]) \/ k = Len(queue[w]) + 1
        BY <1>3
  <2>3. \A k \in 1 .. Len(queue[w]) : k \in 1 .. (Len(queue[w]) + 1)
        BY <1>3
  <2>4. /\ \A k \in 1 .. Len(queue[w]) : k \in 1 .. Len(queue'[w]) /\ queue'[w][k] = queue[w][k]
        /\ \A k \in 1 .. Len(queue'[w]) :
             (k \in 1 .. Len(queue[w]) /\ queue'[w][k] = queue[w][k]) \/ queue'[w][k] = x
        BY <1>4, <1>5, <2>1, <2>2, <2>3
  <2>5. Len(queue[w]) + 1 \in 1 .. Len(queue'[w]) /\ queue'[w][Len(queue[w]) + 1] = x
        BY <1>4, <1>5, <2>1
  <2>6. \A v \in Worker \ {w} : queue'[v] = queue[v]
        BY <1>4
  <2>7. /\ \A v \in Worker : \A k \in 1 .. Len(queue[v]) : k \in 1 .. Len(queue'[v]) /\ queue'[v][k] = queue[v][k]
        BY <2>4, <2>6
  <2>8. \A v \in Worker : \A k \in 1 .. Len(queue'[v]) :
           \/ k \in 1 .. Len(queue[v]) /\ queue'[v][k] = queue[v][k]
           \/ v = w /\ queue'[v][k] = x
        BY <2>4, <2>6
  <2> QED BY <2>5, <2>7, <2>8
<1>7. x # End => /\ x \in Request /\ x.who \in Client /\ Id(x) \in Ids /\ Id(x)[1] = x.who
                 /\ Id(x)[2] = sent[x.who] /\ x = req[x.who] /\ on[x.who] = w /\ pc[x.who] = "put"
                 /\ future[Id(x)] = "open" /\ ~Placed(Id(x))
      BY Putters
<1>8. /\ \A v \in Worker : putters'[v] \subseteq putters[v]
      /\ \A v \in Worker : \A y \in putters[v] : y \in putters'[v] \/ (v = w /\ y = x)
      BY <1>4
<1>9. /\ \A i : /\ Taken(i)' <=> Taken(i)
                /\ Executed(i)' <=> Executed(i)
                /\ Placed(i)' => Placed(i) \/ (x # End /\ i = Id(x))
                /\ CallPlaced(i)' => CallPlaced(i) \/ (x # End /\ i = Id(x) /\ x.op = "call")
  <2>1. \A i : (Taken(i)' <=> Taken(i)) /\ (Executed(i)' <=> Executed(i))
        BY <1>0 DEF Taken, Executed
  <2>2. \A i : Queued(i)' => Queued(i) \/ (x # End /\ i = Id(x))
        BY <1>6 DEF Queued
  <2>3. \A i : CallPlaced(i)' => CallPlaced(i) \/ (x # End /\ i = Id(x) /\ x.op = "call")
    <3> SUFFICES ASSUME NEW i, CallPlaced(i)', ~CallPlaced(i) PROVE x # End /\ i = Id(x) /\ x.op = "call"
        OBVIOUS
    <3>1. PICK v \in Worker : \E k \in 1 .. Len(queue'[v]) :
            queue'[v][k] # End /\ Id(queue'[v][k]) = i /\ queue'[v][k].op = "call"
          BY <1>0, <2>1 DEF CallPlaced
    <3> QED BY <1>6, <3>1 DEF CallPlaced
  <2> QED BY <2>1, <2>2, <2>3 DEF Placed
<1>10. Types'
  <2>1. queue' \in [Worker -> Seq(Request \cup {End})]
        BY <1>1, <1>2, <1>5 DEF Types
  <2>2. Len(queue'[w]) <= MaxPending
        BY <1>0, <1>3, <1>4, <1>5
  <2>3. \A v \in Worker : Len(queue'[v]) <= MaxPending
        BY <1>1, <1>4, <2>2 DEF Types
  <2>4. putters' \in [Worker -> SUBSET (Request \cup {End})]
        BY <1>1, <1>2 DEF Types
  <2> QED BY <1>0, <1>1, <2>1, <2>3, <2>4 DEF Types
<1>11. ClientInv' /\ FutureInv' /\ EarlyInv'
       BY <1>0 DEF Inv, ClientInv, FutureInv, EarlyInv
<1>12. WorkerInv'
  <2>1. ASSUME NEW v \in Worker, NEW k \in 1 .. Len(queue'[v]), queue'[v][k] # End, future[Id(queue'[v][k])] = "open"
        PROVE  req[queue'[v][k].who] = queue'[v][k] /\ on[queue'[v][k].who] = v
    <3>1. CASE k \in 1 .. Len(queue[v]) /\ queue'[v][k] = queue[v][k]
          BY <2>1, <3>1 DEF Inv, WorkerInv, Open
    <3>2. CASE v = w /\ queue'[v][k] = x
          BY <1>7, <2>1, <3>2
    <3> QED BY <1>6, <3>1, <3>2
  <2>2. \A v \in Worker : wpc[v] \in {"none", "dead"} => queue'[v] = <<>>
        BY <1>0, <1>4 DEF Inv, WorkerInv
  <2> QED BY <1>0, <2>1, <2>2 DEF Inv, WorkerInv, Open
<1>13. PutInv'
       BY <1>0, <1>8 DEF Inv, PutInv, Open
<1>14. FreshInv'
  <2>1. ASSUME NEW i \in Ids, i[2] > sent[i[1]] \/ (pc[i[1]] \in {"ensure", "enqueue"} /\ i[2] = sent[i[1]])
        PROVE  ~Placed(i)'
    <3>1. ~Placed(i)
          BY <2>1 DEF Inv, FreshInv
    <3>2. x # End => i # Id(x)
          BY <1>7, <2>1
    <3> QED BY <1>9, <3>1, <3>2
  <2>2. ASSUME NEW v \in Worker, NEW y \in putters'[v] \ {End} PROVE ~Placed(Id(y))'
    <3>1. y \in putters[v] \ {End} /\ (v = w => y # x)
          BY <1>4, <1>8
    <3>2. y = req[y.who] /\ on[y.who] = v /\ Id(y)[1] = y.who /\ ~Placed(Id(y))
          BY <3>1, Putters
    <3>3. x # End => Id(y) # Id(x)
          BY <1>7, <3>1, <3>2
    <3> QED BY <1>9, <3>2, <3>3
  <2> QED BY <1>0, <2>1, <2>2 DEF FreshInv
<1>15. GoneInv'
       BY <1>0, <1>9 DEF Inv, GoneInv
<1>16. KeptInv'
  <2> SUFFICES ASSUME NEW d \in Client, pc[d] \in {"put", "wait"}
               PROVE  /\ pc[d] = "wait" => req[d] \notin putters'[on[d]]
                      /\ Open(req[d]) =>
                           \/ Taken(Id(req[d]))
                           \/ req[d] \in putters'[on[d]]
                           \/ \E k \in 1 .. Len(queue'[on[d]]) : queue'[on[d]][k] = req[d]
      BY <1>0, <1>9 DEF KeptInv, Open
  <2>1. on[d] \in Worker
        BY <1>1, Clients DEF Held
  <2>2. pc[d] = "wait" => req[d] \notin putters'[on[d]]
        BY <1>8, <2>1 DEF Inv, KeptInv
  <2>3. ASSUME Open(req[d])
        PROVE  \/ Taken(Id(req[d]))
               \/ req[d] \in putters'[on[d]]
               \/ \E k \in 1 .. Len(queue'[on[d]]) : queue'[on[d]][k] = req[d]
    <3>1. CASE req[d] \in putters[on[d]]
          BY <1>6, <1>8, <2>1, <3>1
    <3>2. CASE \E k \in 1 .. Len(queue[on[d]]) : queue[on[d]][k] = req[d]
      <4>1. PICK k \in 1 .. Len(queue[on[d]]) : queue[on[d]][k] = req[d]
            BY <3>2
      <4>2. k \in 1 .. Len(queue'[on[d]]) /\ queue'[on[d]][k] = req[d]
            BY <1>6, <2>1, <4>1
      <4> QED BY <4>2
    <3> QED BY <2>3, <3>1, <3>2 DEF Inv, KeptInv
  <2> QED BY <2>2, <2>3
<1>17. PinInv'
  <2>1. ASSUME NEW s \in Scope, NEW e \in Surface, Pinned(s, e)', ~Pinned(s, e) PROVE FALSE
    <3>1. PICK v \in Worker : \E k \in 1 .. Len(queue'[v]) :
            /\ queue'[v][k] # End /\ ScopeOf[queue'[v][k].who] = s
            /\ queue'[v][k].op = "call" /\ queue'[v][k].expected = e
          BY <1>0, <2>1 DEF Pinned
    <3>2. x # End /\ ScopeOf[x.who] = s /\ x.op = "call" /\ x.expected = e
          BY <1>6, <2>1, <3>1, SMTT(30) DEF Pinned
    <3> QED BY <1>7, <2>1, <3>2 DEF Pinned, Held
  <2> QED BY <1>0, <2>1 DEF Inv, PinInv
<1>18. OnceInv'
  <2> SUFFICES ASSUME NEW j \in Ids, j[1] \notin Safe, CallPlaced(j)'
               PROVE  /\ j[2] = sent[j[1]] /\ pc[j[1]] \notin {"start", "reserve"}
                      /\ pc[j[1]] \in Held => req[j[1]].op = "call"
      BY <1>0 DEF OnceInv
  <2>1. CASE CallPlaced(j)
        BY <2>1 DEF Inv, OnceInv
  <2>2. CASE x # End /\ j = Id(x) /\ x.op = "call"
    <3>1. j[1] = x.who /\ j[2] = sent[x.who] /\ pc[x.who] = "put" /\ req[x.who].op = "call"
          BY <1>7, <2>2
    <3> QED BY <3>1
  <2> QED BY <1>9, <2>1, <2>2
<1>19. AnswerInv' /\ PendingInv'
  <2>1. AnswerInv'
        BY <1>0, <1>9 DEF Inv, AnswerInv
  <2>2. PendingInv'
    <3>1. \A v : Waiters(v)' = Waiters(v)
          BY <1>0 DEF Waiters
    <3> QED BY <1>0, <3>1 DEF Inv, PendingInv
  <2> QED BY <2>1, <2>2
<1> QED BY <1>10, <1>11, <1>12, <1>13, <1>14, <1>15, <1>16, <1>17, <1>18, <1>19 DEF Inv

\* A request that is not cancelled is taken up.
LEMMA TakeKeeps ==
  ASSUME Inv, NEW w \in Worker, Take(w), Head(queue[w]) # End, ~Skipped(Head(queue[w]))
  PROVE  Inv'
<1> USE Requests, Outcomes
<1>a. PICK r : r = Head(queue[w])
      OBVIOUS
<1>b. PICK next : next = IF session[w] # Null /\ session[w][1] = ScopeOf[r.who] THEN "op" ELSE "open"
      OBVIOUS
<1>0. /\ wpc[w] = "idle" /\ queue[w] # <<>> /\ queue' = [queue EXCEPT ![w] = Tail(@)]
      /\ cur' = [cur EXCEPT ![w] = r] /\ wpc' = [wpc EXCEPT ![w] = next]
      /\ UNCHANGED <<pc, req, sent, failures, on, future, pending, session, putters, fps,
                     closed, closer, executed, gone>>
      BY <1>a, <1>b DEF Take, clientVars, closeVars
<1>1. Types /\ ClientInv
      BY DEF Inv
<1>2. queue[w] \in Seq(Request \cup {End})
      BY <1>1 DEF Types
<1>3. /\ Tail(queue[w]) \in Seq(Request \cup {End}) /\ Len(Tail(queue[w])) = Len(queue[w]) - 1
      /\ r = queue[w][1] /\ 1 \in 1 .. Len(queue[w]) /\ r \in Request \cup {End}
      /\ \A k \in 1 .. Len(Tail(queue[w])) : k + 1 \in 1 .. Len(queue[w]) /\ Tail(queue[w])[k] = queue[w][k + 1]
      /\ \A m \in 1 .. Len(queue[w]) :
           m = 1 \/ (m - 1 \in 1 .. Len(Tail(queue[w])) /\ Tail(queue[w])[m - 1] = queue[w][m])
      BY <1>0, <1>2, <1>a, Tails
<1>4. /\ r \in Request /\ r # Null /\ Id(r) \in Ids /\ r # End /\ future[Id(r)] # "cancelled"
      BY <1>3, <1>a DEF Skipped
<1>5. /\ next \in {"op", "open"}
      /\ next = "op" => session[w] # Null
      BY <1>b
<1>6. /\ queue'[w] = Tail(queue[w]) /\ cur'[w] = r /\ wpc'[w] = next
      /\ \A v \in Worker \ {w} : queue'[v] = queue[v] /\ cur'[v] = cur[v] /\ wpc'[v] = wpc[v]
      BY <1>0, <1>1 DEF Types
<1>7. \A v \in Worker : \A k \in 1 .. Len(queue'[v]) : \E m \in 1 .. Len(queue[v]) : queue'[v][k] = queue[v][m]
  <2>1. \A k \in 1 .. Len(queue'[w]) : k + 1 \in 1 .. Len(queue[w]) /\ queue'[w][k] = queue[w][k + 1]
        BY <1>3, <1>6
  <2>2. \A k \in 1 .. Len(queue'[w]) : \E m \in 1 .. Len(queue[w]) : queue'[w][k] = queue[w][m]
        BY <2>1
  <2>3. \A v \in Worker \ {w} : queue'[v] = queue[v]
        BY <1>6
  <2> QED BY <2>2, <2>3, SMTT(30)
<1>8. \A v \in Worker : \A m \in 1 .. Len(queue[v]) :
        \/ \E k \in 1 .. Len(queue'[v]) : queue'[v][k] = queue[v][m]
        \/ v = w /\ queue[v][m] = r
  <2> SUFFICES ASSUME NEW m \in 1 .. Len(queue[w]), m # 1
               PROVE  \E k \in 1 .. Len(queue'[w]) : queue'[w][k] = queue[w][m]
    <3>1. \A m \in 1 .. Len(queue[w]) : m = 1 => queue[w][m] = r
          BY <1>3
    <3>2. \A v \in Worker \ {w} : queue'[v] = queue[v]
          BY <1>6
    <3> QED BY <3>1, <3>2
  <2>1. m - 1 \in 1 .. Len(queue'[w]) /\ queue'[w][m - 1] = queue[w][m]
        BY <1>3, <1>6
  <2> QED BY <2>1
<1>9. cur[w] = Null
      BY <1>0 DEF Inv, WorkerInv
<1>10. \A i : /\ Taken(i)' <=> Taken(i) \/ i = Id(r)
              /\ Executed(i)' <=> Executed(i)
              /\ Placed(i)' => Placed(i)
              /\ CallPlaced(i)' => CallPlaced(i)
  <2>1. Queued(Id(r))
        BY <1>3, <1>4 DEF Queued
  <2>2. \A i : (Taken(i)' <=> Taken(i) \/ i = Id(r)) /\ (Executed(i)' <=> Executed(i))
    <3>1. \A i : Executed(i)' <=> Executed(i)
          BY <1>0 DEF Executed
    <3>2. ASSUME NEW i, Taken(i)' PROVE Taken(i) \/ i = Id(r)
      <4>1. PICK v \in Worker : cur'[v] # Null /\ Id(cur'[v]) = i
            BY <3>2 DEF Taken
      <4>2. CASE v = w
            BY <1>6, <4>1, <4>2
      <4>3. CASE v # w
            BY <1>6, <4>1, <4>3 DEF Taken
      <4> QED BY <4>2, <4>3
    <3>3. ASSUME NEW i, Taken(i) \/ i = Id(r) PROVE Taken(i)'
      <4>1. CASE i = Id(r)
            BY <1>4, <1>6, <4>1 DEF Taken
      <4>2. CASE Taken(i)
        <5>1. PICK v \in Worker : cur[v] # Null /\ Id(cur[v]) = i
              BY <4>2 DEF Taken
        <5>2. v # w
              BY <1>9, <5>1
        <5> QED BY <1>6, <5>1, <5>2 DEF Taken
      <4> QED BY <3>3, <4>1, <4>2
    <3> QED BY <3>1, <3>2, <3>3
  <2>3. ASSUME NEW i, Queued(i)' PROVE Queued(i)
    <3>0. PICK v \in Worker : \E k \in 1 .. Len(queue'[v]) : queue'[v][k] # End /\ Id(queue'[v][k]) = i
          BY <2>3 DEF Queued
    <3>1. PICK k \in 1 .. Len(queue'[v]) : queue'[v][k] # End /\ Id(queue'[v][k]) = i
          BY <3>0
    <3>2. PICK m \in 1 .. Len(queue[v]) : queue'[v][k] = queue[v][m]
          BY <1>7
    <3> QED BY <3>1, <3>2 DEF Queued
  <2>4. \A i : CallPlaced(i)' => CallPlaced(i)
    <3> SUFFICES ASSUME NEW i, CallPlaced(i)' PROVE CallPlaced(i)
        OBVIOUS
    <3>1. CASE Executed(i)'
          BY <2>2, <3>1 DEF CallPlaced
    <3>2. CASE \E v \in Worker : cur'[v] # Null /\ Id(cur'[v]) = i /\ cur'[v].op = "call"
          BY <1>3, <1>4, <1>6, <3>2 DEF CallPlaced
    <3>3. CASE \E v \in Worker : \E k \in 1 .. Len(queue'[v]) :
                 queue'[v][k] # End /\ Id(queue'[v][k]) = i /\ queue'[v][k].op = "call"
          BY <1>7, <3>3 DEF CallPlaced
    <3> QED BY <3>1, <3>2, <3>3 DEF CallPlaced
  <2> QED BY <2>1, <2>2, <2>3, <2>4 DEF Placed
<1>11. Types'
  <2>1. queue' \in [Worker -> Seq(Request \cup {End})]
        BY <1>0, <1>1, <1>3 DEF Types
  <2>2. Len(queue'[w]) <= MaxPending
    <3>1. Len(queue[w]) \in Nat /\ Len(queue[w]) <= MaxPending
          BY <1>1, <1>2 DEF Types
    <3> QED BY <1>3, <1>6, <3>1
  <2>3. \A v \in Worker : Len(queue'[v]) <= MaxPending
        BY <1>1, <1>6, <2>2 DEF Types
  <2>4. cur' \in [Worker -> Request \cup {Null}]
        BY <1>0, <1>1, <1>4 DEF Types
  <2>5. wpc' \in [Worker -> {"none", "idle", "open", "op", "exec", "ended", "dead"}]
        BY <1>0, <1>1, <1>5 DEF Types
  <2> QED BY <1>0, <1>1, <2>1, <2>3, <2>4, <2>5 DEF Types
<1>12. ClientInv' /\ FutureInv' /\ EarlyInv' /\ PutInv'
       BY <1>0 DEF Inv, ClientInv, FutureInv, EarlyInv, PutInv, Open
<1>13. WorkerInv'
  <2>1. ASSUME NEW v \in Worker, NEW k \in 1 .. Len(queue'[v]), queue'[v][k] # End, future[Id(queue'[v][k])] = "open"
        PROVE  req[queue'[v][k].who] = queue'[v][k] /\ on[queue'[v][k].who] = v
    <3>1. PICK m \in 1 .. Len(queue[v]) : queue'[v][k] = queue[v][m]
          BY <1>7
    <3> QED BY <2>1, <3>1 DEF Inv, WorkerInv, Open
  <2>2. /\ cur'[w] # Null <=> wpc'[w] \in {"open", "op", "exec"}
        /\ wpc'[w] \in {"op", "exec"} => session[w] # Null
        /\ wpc'[w] \notin {"none", "dead", "exec"}
        BY <1>4, <1>5, <1>6
  <2>3. ASSUME NEW v \in Worker \ {w}
        PROVE  /\ cur'[v] # Null <=> wpc'[v] \in {"open", "op", "exec"}
               /\ wpc'[v] \in {"op", "exec"} => session[v] # Null
               /\ wpc'[v] \in {"none", "dead"} => queue'[v] = <<>>
               /\ wpc'[v] = "exec" => \E x \in executed : x[1] = Id(cur'[v])
        BY <1>6 DEF Inv, WorkerInv
  <2>4. ASSUME NEW v \in Worker
        PROVE  /\ cur'[v] # Null <=> wpc'[v] \in {"open", "op", "exec"}
               /\ wpc'[v] \in {"op", "exec"} => session[v] # Null
               /\ wpc'[v] \in {"none", "dead"} => queue'[v] = <<>>
               /\ wpc'[v] = "exec" => \E x \in executed : x[1] = Id(cur'[v])
    <3>1. CASE v = w
          BY <2>2, <3>1
    <3>2. CASE v # w
          BY <2>3, <3>2
    <3> QED BY <3>1, <3>2
  <2> QED BY <1>0, <2>1, <2>4 DEF WorkerInv, Open
<1>14. FreshInv'
       BY <1>0, <1>10 DEF Inv, FreshInv
<1>15. GoneInv'
  <2>1. Id(r) \notin gone
        BY <1>4 DEF Inv, GoneInv
  <2> QED BY <1>0, <1>10, <2>1 DEF Inv, GoneInv
<1>16. KeptInv'
  <2> SUFFICES ASSUME NEW d \in Client, pc[d] \in {"put", "wait"}
               PROVE  /\ pc[d] = "wait" => req[d] \notin putters[on[d]]
                      /\ Open(req[d]) =>
                           \/ Taken(Id(req[d])) \/ Id(req[d]) = Id(r)
                           \/ req[d] \in putters[on[d]]
                           \/ \E k \in 1 .. Len(queue'[on[d]]) : queue'[on[d]][k] = req[d]
      BY <1>0, <1>10 DEF KeptInv, Open
  <2>1. on[d] \in Worker
        BY <1>1, Clients DEF Held
  <2>2. /\ pc[d] = "wait" => req[d] \notin putters[on[d]]
        /\ Open(req[d]) =>
             \/ Taken(Id(req[d]))
             \/ req[d] \in putters[on[d]]
             \/ \E k \in 1 .. Len(queue[on[d]]) : queue[on[d]][k] = req[d]
        BY DEF Inv, KeptInv
  <2>3. ASSUME NEW k \in 1 .. Len(queue[on[d]]), queue[on[d]][k] = req[d]
        PROVE  \/ Id(req[d]) = Id(r)
               \/ \E m \in 1 .. Len(queue'[on[d]]) : queue'[on[d]][m] = req[d]
        BY <1>8, <2>1, <2>3, SMTT(30)
  <2> QED BY <2>2, <2>3
<1>17. PinInv'
  <2>1. ASSUME NEW s \in Scope, NEW e \in Surface, Pinned(s, e)' PROVE Pinned(s, e)
    <3>1. CASE \/ \E x \in executed : ScopeOf[x[1][1]] = s /\ x[2] = e
               \/ \E c \in Client : pc[c] \in Held /\ ScopeOf[c] = s /\ req[c].op = "call" /\ req[c].expected = e
          BY <3>1 DEF Pinned
    <3>2. CASE \E v \in Worker : /\ cur'[v] # Null /\ ScopeOf[cur'[v].who] = s
                                 /\ cur'[v].op = "call" /\ cur'[v].expected = e
      <4>1. PICK v \in Worker : /\ cur'[v] # Null /\ ScopeOf[cur'[v].who] = s
                                /\ cur'[v].op = "call" /\ cur'[v].expected = e
            BY <3>2
      <4>2. CASE v = w
        <5>1. queue[w][1] # End /\ ScopeOf[queue[w][1].who] = s /\ queue[w][1].op = "call" /\ queue[w][1].expected = e
              BY <1>3, <1>4, <1>6, <4>1, <4>2
        <5> QED BY <1>3, <5>1 DEF Pinned
      <4>3. CASE v # w
        <5>1. cur[v] # Null /\ ScopeOf[cur[v].who] = s /\ cur[v].op = "call" /\ cur[v].expected = e
              BY <1>6, <4>1, <4>3
        <5> QED BY <5>1 DEF Pinned
      <4> QED BY <4>2, <4>3
    <3>3. CASE \E v \in Worker : \E k \in 1 .. Len(queue'[v]) :
                 /\ queue'[v][k] # End /\ ScopeOf[queue'[v][k].who] = s
                 /\ queue'[v][k].op = "call" /\ queue'[v][k].expected = e
          BY <1>7, <3>3, SMTT(30) DEF Pinned
    <3> QED BY <1>0, <2>1, <3>1, <3>2, <3>3 DEF Pinned
  <2> QED BY <1>0, <2>1 DEF Inv, PinInv
<1>18. OnceInv' /\ AnswerInv' /\ PendingInv'
  <2>1. OnceInv'
        BY <1>0, <1>10 DEF Inv, OnceInv
  <2>2. AnswerInv'
        BY <1>0, <1>10 DEF Inv, AnswerInv
  <2>3. PendingInv'
    <3>1. \A v : Waiters(v)' = Waiters(v)
          BY <1>0 DEF Waiters
    <3> QED BY <1>0, <3>1 DEF Inv, PendingInv
  <2> QED BY <2>1, <2>2, <2>3
<1> QED BY <1>11, <1>12, <1>13, <1>14, <1>15, <1>16, <1>17, <1>18 DEF Inv

\* What a step of a worker that leaves requests, futures and places as they are keeps.
LEMMA SteadyKeeps ==
  ASSUME Inv,
         UNCHANGED <<pc, req, sent, failures, on, future, pending, cur, putters, queue, fps, closer,
                     executed, gone>>
  PROVE  /\ ClientInv' /\ FutureInv' /\ PutInv' /\ FreshInv' /\ EarlyInv' /\ GoneInv' /\ KeptInv'
         /\ PinInv' /\ OnceInv' /\ AnswerInv' /\ PendingInv'
<1>1. ClientInv' /\ FutureInv' /\ PutInv' /\ EarlyInv'
      BY DEF Inv, ClientInv, FutureInv, PutInv, EarlyInv, Open
<1>2. FreshInv' /\ GoneInv' /\ KeptInv'
      BY SamePlaces DEF Inv, FreshInv, GoneInv, KeptInv, Open
<1>3. OnceInv' /\ AnswerInv'
      BY SamePlaces DEF Inv, OnceInv, AnswerInv
<1>4. PinInv'
  <2>1. \A s \in Scope, e \in Surface : Pinned(s, e)' <=> Pinned(s, e)
        BY DEF Pinned
  <2> QED BY <2>1 DEF Inv, PinInv
<1>5. PendingInv'
  <2>1. \A v : Waiters(v)' = Waiters(v)
        BY DEF Waiters
  <2> QED BY <2>1 DEF Inv, PendingInv
<1> QED BY <1>1, <1>2, <1>3, <1>4, <1>5

\* A session is there.
LEMMA OpeningKeeps ==
  ASSUME Inv, NEW w \in Worker, wpc[w] = "open", NEW t \in Surface,
         session' = [session EXCEPT ![w] = <<ScopeOf[cur[w].who], t>>], Turn(w, "op"),
         UNCHANGED <<pc, req, sent, failures, on, future, pending, cur, putters, queue, fps, closed,
                     closer, executed, gone>>
  PROVE  Inv'
<1> USE Requests, Outcomes
<1>1. Types /\ WorkerInv
      BY DEF Inv
<1>2. cur[w] \in Request
      BY <1>1 DEF Types, WorkerInv
<1>3. <<ScopeOf[cur[w].who], t>> \in Scope \X Surface
      BY <1>2
<1>4. wpc' = [wpc EXCEPT ![w] = "op"]
      BY DEF Turn
<1>5. Types'
  <2>1. session' \in [Worker -> (Scope \X Surface) \cup {Null}]
        BY <1>1, <1>3 DEF Types
  <2>2. wpc' \in [Worker -> {"none", "idle", "open", "op", "exec", "ended", "dead"}]
        BY <1>1, <1>4 DEF Types
  <2> QED BY <1>1, <2>1, <2>2 DEF Types
<1>6. WorkerInv'
  <2>1. /\ session'[w] = <<ScopeOf[cur[w].who], t>> /\ wpc'[w] = "op"
        /\ \A v \in Worker \ {w} : session'[v] = session[v] /\ wpc'[v] = wpc[v]
        BY <1>1, <1>4 DEF Types
  <2>2. <<ScopeOf[cur[w].who], t>> # Null
        BY <1>3, MarkerAssumption
  <2>3. cur[w] # Null
        BY <1>2
  <2> QED BY <1>1, <2>1, <2>2, <2>3 DEF WorkerInv, Open
<1> QED BY <1>5, <1>6, SteadyKeeps DEF Inv

\* A tool is called on a process that offers what the call expects.
LEMMA ExecutionKeeps ==
  ASSUME Inv, NEW w \in Worker, wpc[w] = "op", cur[w].op = "call", ~Drifted(w), Turn(w, "exec"),
         executed' = executed \cup {<<Id(cur[w]), session[w][2]>>},
         UNCHANGED <<pc, req, sent, failures, on, future, pending, session, cur, putters, queue, fps,
                     closed, closer, gone>>
  PROVE  Inv'
<1> USE Requests, Outcomes
<1> DEFINE i == Id(cur[w])
           t == session[w][2]
<1>1. Types /\ WorkerInv
      BY DEF Inv
<1>2. cur[w] \in Request /\ cur[w] # Null /\ i \in Ids /\ i[1] = cur[w].who /\ Taken(i)
  <2>1. cur[w] \in Request
        BY <1>1 DEF Types, WorkerInv
  <2> QED BY <2>1 DEF Taken
<1>3. t \in Surface /\ t = cur[w].expected
  <2>1. session[w] \in Scope \X Surface
        BY <1>1 DEF Types, WorkerInv
  <2> QED BY <2>1 DEF Drifted
<1>4. wpc'[w] = "exec" /\ \A v \in Worker \ {w} : wpc'[v] = wpc[v]
      BY <1>1 DEF Turn, Types
<1> HIDE DEF i, t
<1>5. /\ executed' = executed \cup {<<i, t>>}
      /\ \A x \in executed' : x \in executed \/ (x[1] = i /\ x[2] = t)
      /\ \E x \in executed' : x[1] = i
  <2>1. executed' = executed \cup {<<i, t>>}
        BY DEF i, t
  <2>2. <<i, t>>[1] = i /\ <<i, t>>[2] = t
        OBVIOUS
  <2> QED BY <2>1, <2>2
<1>6. \A j : /\ Taken(j)' <=> Taken(j)
             /\ Executed(j) => Executed(j)'
             /\ Executed(j)' => Executed(j) \/ j = i
             /\ Queued(j)' <=> Queued(j)
  <2>1. \A j : (Taken(j)' <=> Taken(j)) /\ (Queued(j)' <=> Queued(j))
        BY DEF Taken, Queued
  <2>2. \A j : (Executed(j) => Executed(j)') /\ (Executed(j)' => Executed(j) \/ j = i)
        BY <1>5 DEF Executed
  <2> QED BY <2>1, <2>2
<1>7. \A j : /\ Placed(j)' => Placed(j)
             /\ CallPlaced(j)' => CallPlaced(j)
  <2>1. \A j : Placed(j)' => Placed(j)
        BY <1>2, <1>6 DEF Placed
  <2>2. CallPlaced(i)
        BY <1>2 DEF CallPlaced, i
  <2>3. \A j : CallPlaced(j)' => CallPlaced(j)
        BY <1>6, <2>2 DEF CallPlaced
  <2> QED BY <2>1, <2>3
<1>8. Types'
  <2>1. executed' \subseteq Ids \X Surface
        BY <1>1, <1>2, <1>3, <1>5 DEF Types
  <2>2. wpc' \in [Worker -> {"none", "idle", "open", "op", "exec", "ended", "dead"}]
        BY <1>1 DEF Turn, Types
  <2> QED BY <1>1, <2>1, <2>2 DEF Types
<1>9. ClientInv' /\ FutureInv' /\ PutInv' /\ EarlyInv'
      BY DEF Inv, ClientInv, FutureInv, PutInv, EarlyInv, Open
<1>10. WorkerInv'
  <2>1. \A v \in Worker : wpc'[v] = "exec" => \E x \in executed' : x[1] = Id(cur[v])
    <3>1. \A v \in Worker \ {w} : wpc[v] = "exec" => \E x \in executed : x[1] = Id(cur[v])
          BY <1>1 DEF WorkerInv
    <3> QED BY <1>4, <1>5, <3>1 DEF i
  <2>2. /\ cur[w] # Null /\ session[w] # Null
        BY <1>1, <1>2 DEF WorkerInv
  <2> QED BY <1>1, <1>4, <2>1, <2>2 DEF WorkerInv, Open
<1>11. FreshInv' /\ KeptInv'
  <2>1. FreshInv'
        BY <1>7 DEF Inv, FreshInv
  <2>2. KeptInv'
        BY <1>6 DEF Inv, KeptInv, Open
  <2> QED BY <2>1, <2>2
<1>12. GoneInv'
  <2>1. i \notin gone
        BY <1>2 DEF Inv, GoneInv
  <2>2. \A x \in executed' : future[x[1]] = "open" => Taken(x[1])
        BY <1>2, <1>5 DEF Inv, GoneInv
  <2> QED BY <1>6, <2>1, <2>2 DEF Inv, GoneInv
<1>13. PinInv'
  <2>1. ASSUME NEW s \in Scope, NEW e \in Surface, Pinned(s, e)' PROVE Pinned(s, e)
    <3>1. CASE \E x \in executed' : ScopeOf[x[1][1]] = s /\ x[2] = e
      <4>1. PICK x \in executed' : ScopeOf[x[1][1]] = s /\ x[2] = e
            BY <3>1
      <4>2. CASE x \in executed
            BY <4>1, <4>2 DEF Pinned
      <4>3. CASE x[1] = i /\ x[2] = t
        <5>1. cur[w] # Null /\ ScopeOf[cur[w].who] = s /\ cur[w].op = "call" /\ cur[w].expected = e
              BY <1>2, <1>3, <4>1, <4>3
        <5> QED BY <5>1 DEF Pinned
      <4> QED BY <1>5, <4>2, <4>3
    <3>2. CASE ~\E x \in executed' : ScopeOf[x[1][1]] = s /\ x[2] = e
          BY <2>1, <3>2 DEF Pinned
    <3> QED BY <3>1, <3>2
  <2> QED BY <2>1 DEF Inv, PinInv
<1>14. OnceInv' /\ AnswerInv' /\ PendingInv'
  <2>1. OnceInv'
        BY <1>7 DEF Inv, OnceInv
  <2>2. AnswerInv'
        BY <1>6 DEF Inv, AnswerInv
  <2>3. PendingInv'
    <3>1. \A v : Waiters(v)' = Waiters(v)
          BY DEF Waiters
    <3> QED BY <3>1 DEF Inv, PendingInv
  <2> QED BY <2>1, <2>2, <2>3
<1> QED BY <1>8, <1>9, <1>10, <1>11, <1>12, <1>13, <1>14 DEF Inv

\* set_result, set_exception and the death of the thread.
LEMMA ResultKeeps ==
  ASSUME Inv, NEW w \in Worker, cur[w] # Null, NEW result \in Surface \cup Fault \cup {"value"},
         result = "value" => wpc[w] = "exec",
         SetResult(w, result) \/ (result \in Fault /\ SetException(w, result)),
         UNCHANGED <<pc, req, sent, failures, on, fps, closed, closer, executed>>
  PROVE  Inv'
<1>1. CASE SetResult(w, result)
  <2>1. UNCHANGED <<putters, queue, gone>>
        BY <1>1 DEF SetResult, queueVars
  <2>2. CASE Open(cur[w])
    <3>1. Complete({Id(cur[w])}, result) /\ Back(w, TRUE)
          BY <1>1, <2>2 DEF SetResult
    <3>2. Answers(w)
          BY <2>1, <2>2, <3>1 DEF Answers
    <3> QED BY <3>2, AnswerKeeps
  <2>3. CASE ~Open(cur[w])
    <3>1. (\E keep \in BOOLEAN : Back(w, keep)) /\ UNCHANGED <<future, pending>>
          BY <1>1, <2>3 DEF SetResult
    <3>2. Answers(w)
          BY <2>1, <2>3, <3>1 DEF Answers
    <3> QED BY <3>2, AnswerKeeps
  <2> QED BY <2>2, <2>3
<1>2. CASE result \in Fault /\ SetException(w, result)
  <2>1. CASE Open(cur[w])
    <3>1. Complete({Id(cur[w])}, result) /\ Back(w, FALSE) /\ UNCHANGED <<putters, queue, gone>>
          BY <1>2, <2>1 DEF SetException, queueVars
    <3>2. Answers(w)
          BY <2>1, <3>1 DEF Answers
    <3> QED BY <3>2, AnswerKeeps
  <2>2. CASE ~Open(cur[w]) /\ Back(w, FALSE) /\ UNCHANGED <<future, pending, queueVars, gone>>
    <3>1. UNCHANGED <<future, pending, putters, queue, gone>>
          BY <2>2 DEF queueVars
    <3>2. Answers(w)
          BY <2>2, <3>1 DEF Answers
    <3> QED BY <3>2, AnswerKeeps
  <2>3. CASE /\ ~Open(cur[w]) /\ LoopEnds(w, FailQueued(w), result, "dead")
             /\ queue' = [queue EXCEPT ![w] = <<>>]
        BY <1>2, <2>3, DeathKeeps
  <2> QED BY <1>2, <2>1, <2>2, <2>3 DEF SetException
<1> QED BY <1>1, <1>2

-----------------------------------------------------------------------------
(* close()                                                                 *)

\* The map is emptied: nothing more is reserved, and what was pinned stays.
LEMMA CloseKeeps ==
  ASSUME Inv, ClosePool
  PROVE  Inv'
<1> USE Requests, Outcomes
<1>0. /\ closer' = 1 /\ fps' = [s \in Scope |-> Null]
      /\ UNCHANGED <<pc, req, sent, failures, on, future, pending, wpc, session, cur, putters, queue,
                     closed, executed, gone>>
      BY DEF ClosePool, clientVars, workerVars, queueVars, histVars
<1>1. Types'
  <2>1. 1 \in 0 .. 2 * NWorkers + 1
        OBVIOUS
  <2> QED BY <1>0, <2>1 DEF Inv, Types
<1>2. ClientInv' /\ FutureInv' /\ PutInv' /\ EarlyInv' /\ WorkerInv'
      BY <1>0 DEF Inv, ClientInv, FutureInv, PutInv, EarlyInv, WorkerInv, Open
<1>3. FreshInv' /\ GoneInv' /\ KeptInv'
      BY <1>0, SamePlaces DEF Inv, FreshInv, GoneInv, KeptInv, Open
<1>4. OnceInv' /\ AnswerInv'
      BY <1>0, SamePlaces DEF Inv, OnceInv, AnswerInv
<1>5. PinInv'
  <2>1. \A s \in Scope, e \in Surface : Pinned(s, e)' <=> Pinned(s, e)
        BY <1>0 DEF Pinned
  <2> QED BY <1>0, <2>1 DEF Inv, PinInv
<1>6. PendingInv'
  <2>1. \A v : Waiters(v)' = Waiters(v)
        BY <1>0 DEF Waiters
  <2> QED BY <1>0, <2>1 DEF Inv, PendingInv
<1> QED BY <1>1, <1>2, <1>3, <1>4, <1>5, <1>6 DEF Inv

\* A worker's flag, or its end marker.
LEMMA CloseWorkerKeeps ==
  ASSUME Inv, NEW w \in Worker, CloseWorker(w)
  PROVE  Inv'
<1> USE Requests, Outcomes
<1>0. /\ closer \in {2 * w - 1, 2 * w} /\ closer' = closer + 1
      /\ closed' = IF closer = 2 * w - 1 THEN [closed EXCEPT ![w] = TRUE] ELSE closed
      /\ putters' = putters \/ putters' = [putters EXCEPT ![w] = @ \cup {End}]
      /\ UNCHANGED <<pc, req, sent, failures, on, future, pending, wpc, session, cur, queue, fps,
                     executed, gone>>
      BY DEF CloseWorker, clientVars, workerVars, histVars
<1>1. Types /\ ClientInv
      BY DEF Inv
<1>2. closer' \in 0 .. 2 * NWorkers + 1 /\ closer' # 0
  <2>1. w \in Nat /\ w > 0 /\ w <= NWorkers
        BY DEF Worker
  <2> QED BY <1>0, <2>1
<1>3. /\ \A v \in Worker : putters'[v] \ {End} = putters[v] \ {End}
      /\ putters' \in [Worker -> SUBSET (Request \cup {End})]
  <2>1. putters \in [Worker -> SUBSET (Request \cup {End})]
        BY <1>1 DEF Types
  <2>2. CASE putters' = putters
        BY <2>1, <2>2
  <2>3. CASE putters' = [putters EXCEPT ![w] = @ \cup {End}]
        BY <2>1, <2>3
  <2> QED BY <1>0, <2>2, <2>3
<1>4. Types'
  <2>1. closed' \in [Worker -> BOOLEAN]
    <3>1. closed \in [Worker -> BOOLEAN]
          BY <1>1 DEF Types
    <3>2. [closed EXCEPT ![w] = TRUE] \in [Worker -> BOOLEAN]
          BY <3>1
    <3> QED BY <1>0, <3>1, <3>2
  <2> QED BY <1>0, <1>1, <1>2, <1>3, <2>1 DEF Types
<1>5. ClientInv' /\ FutureInv' /\ EarlyInv' /\ WorkerInv'
      BY <1>0 DEF Inv, ClientInv, FutureInv, EarlyInv, WorkerInv, Open
<1>6. PutInv'
      BY <1>0, <1>3 DEF Inv, PutInv, Open
<1>7. FreshInv' /\ GoneInv'
      BY <1>0, <1>3, SamePlaces DEF Inv, FreshInv, GoneInv
<1>8. KeptInv'
  <2> SUFFICES ASSUME NEW d \in Client, pc[d] \in {"put", "wait"}
               PROVE  /\ pc[d] = "wait" => req[d] \notin putters'[on[d]]
                      /\ Open(req[d]) =>
                           \/ Taken(Id(req[d]))
                           \/ req[d] \in putters'[on[d]]
                           \/ \E k \in 1 .. Len(queue[on[d]]) : queue[on[d]][k] = req[d]
      BY <1>0, SamePlaces DEF KeptInv, Open
  <2>1. on[d] \in Worker /\ req[d] \in Request /\ req[d] # End
        BY <1>1, Clients DEF Held
  <2>2. req[d] \in putters'[on[d]] <=> req[d] \in putters[on[d]]
        BY <1>3, <2>1
  <2> QED BY <2>2 DEF Inv, KeptInv
<1>9. OnceInv' /\ AnswerInv'
      BY <1>0, SamePlaces DEF Inv, OnceInv, AnswerInv
<1>10. PinInv'
  <2>1. \A s \in Scope, e \in Surface : Pinned(s, e)' <=> Pinned(s, e)
        BY <1>0 DEF Pinned
  <2> QED BY <1>2, <2>1 DEF Inv, PinInv
<1>11. PendingInv'
  <2>1. \A v : Waiters(v)' = Waiters(v)
        BY <1>0 DEF Waiters
  <2> QED BY <1>0, <2>1 DEF Inv, PendingInv
<1> QED BY <1>4, <1>5, <1>6, <1>7, <1>8, <1>9, <1>10, <1>11 DEF Inv

-----------------------------------------------------------------------------
(* The theorems                                                            *)

\* A step of a client.
LEMMA ClientKeeps ==
  ASSUME Inv, NEW c \in Client, ClientStep(c) \/ PutFails(c) \/ CancelCall(c)
  PROVE  Inv'
<1>1. CASE Begin(c)
      BY <1>1, BeginKeeps
<1>2. CASE Reserve(c)
      BY <1>2, RefusalKeeps, ReservationKeeps
<1>3. CASE EnsureStarted(c)
  <2>1. pc[c] = "ensure" /\ pc[c] \in {"ensure", "enqueue", "put"}
        BY <1>3 DEF EnsureStarted
  <2>2. CASE closed[on[c]]
        BY <1>3, <2>1, <2>2, SubmitFailureKeeps DEF EnsureStarted
  <2>3. CASE ~closed[on[c]] /\ wpc[on[c]] = "dead"
        BY <1>3, <2>1, <2>3, SubmitFailureKeeps DEF EnsureStarted
  <2>4. CASE ~closed[on[c]] /\ wpc[on[c]] # "dead"
        BY <1>3, <2>4, StartKeeps
  <2> QED BY <2>2, <2>3, <2>4
<1>4. CASE Enqueue(c)
  <2>1. pc[c] \in {"ensure", "enqueue", "put"}
        BY <1>4 DEF Enqueue
  <2>2. CASE wpc[on[c]] \in {"ended", "dead"}
        BY <1>4, <2>1, <2>2, SubmitFailureKeeps DEF Enqueue
  <2>3. CASE wpc[on[c]] \notin {"ended", "dead"}
        BY <1>4, <2>3, EnqueueKeeps
  <2> QED BY <2>2, <2>3
<1>5. CASE PutDone(c)
      BY <1>5, PutDoneKeeps
<1>6. CASE Deliver(c)
      BY <1>6, DeliveryKeeps
<1>7. CASE PutFails(c)
  <2>1. pc[c] \in {"ensure", "enqueue", "put"}
        BY <1>7 DEF PutFails
  <2> QED BY <1>7, <2>1, SubmitFailureKeeps DEF PutFails
<1>8. CASE CancelCall(c)
      BY <1>8, CancelKeeps
<1> QED BY <1>1, <1>2, <1>3, <1>4, <1>5, <1>6, <1>7, <1>8 DEF ClientStep

\* A step of a worker.
LEMMA WorkerKeeps ==
  ASSUME Inv, NEW w \in Worker, WorkerStep(w)
  PROVE  Inv'
<1> USE Requests, Outcomes
<1>0. wpc[w] \in {"open", "op", "exec"} => cur[w] # Null
      BY DEF Inv, WorkerInv
<1>1. CASE Enter(w)
      BY <1>1, EnterKeeps
<1>2. CASE Take(w)
      BY <1>2, EndKeeps, SkipKeeps, TakeKeeps
<1>3. CASE OpenSession(w)
  <2>1. wpc[w] = "open" /\ UNCHANGED <<pc, req, sent, failures, on, fps, closed, closer, executed>>
        BY <1>3 DEF OpenSession, clientVars, closeVars
  <2>2. CASE /\ \E t \in Surface : session' = [session EXCEPT ![w] = <<ScopeOf[cur[w].who], t>>]
             /\ Turn(w, "op")
             /\ UNCHANGED <<future, pending, cur, queueVars, gone>>
    <3>1. PICK t \in Surface : session' = [session EXCEPT ![w] = <<ScopeOf[cur[w].who], t>>]
          BY <2>2
    <3>2. Turn(w, "op") /\ UNCHANGED <<future, pending, cur, putters, queue, gone>>
          BY <2>2 DEF queueVars
    <3> QED BY <2>1, <3>1, <3>2, OpeningKeeps
  <2>3. CASE \E f \in Fault : SetException(w, f)
    <3>1. PICK f \in Fault : SetException(w, f)
          BY <2>3
    <3> QED BY <1>0, <2>1, <3>1, ResultKeeps
  <2> QED BY <1>3, <2>2, <2>3 DEF OpenSession
<1>4. CASE List(w)
  <2>1. /\ wpc[w] = "op" /\ UNCHANGED <<pc, req, sent, failures, on, fps, closed, closer, executed>>
        /\ SetResult(w, session[w][2]) \/ \E f \in Fault : SetException(w, f)
        BY <1>4 DEF List, clientVars, closeVars
  <2>2. CASE SetResult(w, session[w][2])
    <3>1. session[w] \in Scope \X Surface
          BY <2>1 DEF Inv, WorkerInv, Types
    <3>2. PICK t \in Surface : t = session[w][2]
          BY <3>1
    <3>3. SetResult(w, t)
          BY <2>2, <3>2
    <3> QED BY <1>0, <2>1, <3>3, ResultKeeps
  <2>3. CASE \E f \in Fault : SetException(w, f)
    <3>1. PICK f \in Fault : SetException(w, f)
          BY <2>3
    <3> QED BY <1>0, <2>1, <3>1, ResultKeeps
  <2> QED BY <2>1, <2>2, <2>3
<1>5. CASE Call(w)
  <2>1. /\ wpc[w] = "op" /\ cur[w].op = "call" /\ UNCHANGED <<pc, req, sent, failures, on, fps, closed, closer>>
        BY <1>5 DEF Call, clientVars, closeVars
  <2>2. CASE Drifted(w)
    <3>1. SetException(w, "fault") /\ executed' = executed
          BY <1>5, <2>2 DEF Call
    <3> QED BY <1>0, <2>1, <3>1, ResultKeeps
  <2>3. CASE ~Drifted(w)
    <3>1. /\ Turn(w, "exec") /\ executed' = executed \cup {<<Id(cur[w]), session[w][2]>>}
          /\ UNCHANGED <<future, pending, session, cur, putters, queue, gone>>
          BY <1>5, <2>3 DEF Call, queueVars
    <3> QED BY <2>1, <2>3, <3>1, ExecutionKeeps
  <2> QED BY <2>2, <2>3
<1>6. CASE Return(w)
  <2>1. /\ wpc[w] = "exec" /\ UNCHANGED <<pc, req, sent, failures, on, fps, closed, closer, executed>>
        /\ SetResult(w, "value") \/ \E f \in Fault : SetException(w, f)
        BY <1>6 DEF Return, clientVars, closeVars
  <2>2. CASE SetResult(w, "value")
        BY <1>0, <2>1, <2>2, ResultKeeps
  <2>3. CASE \E f \in Fault : SetException(w, f)
    <3>1. PICK f \in Fault : SetException(w, f)
          BY <2>3
    <3> QED BY <1>0, <2>1, <3>1, ResultKeeps
  <2> QED BY <2>1, <2>2, <2>3
<1> QED BY <1>1, <1>2, <1>3, <1>4, <1>5, <1>6 DEF WorkerStep

\* Nothing happens.
LEMMA StutterKeeps ==
  ASSUME Inv, UNCHANGED vars
  PROVE  Inv'
<1>1. /\ UNCHANGED <<pc, req, sent, failures, on, future, pending, cur, putters, queue, fps, closer,
                     executed, gone>>
      /\ UNCHANGED <<wpc, session, closed>>
      BY DEF vars, clientVars, workerVars, queueVars, closeVars, histVars
<1>2. Types' /\ WorkerInv'
      BY <1>1 DEF Inv, Types, WorkerInv, Open
<1> QED BY <1>1, <1>2, SteadyKeeps DEF Inv

\* What is handed from a call to its worker and back, for every number of calls, workers and
\* sessions: the inductive invariant behind the properties of MCPTransportPool below.
THEOREM TransportInvariant == Spec => []Inv
<1>1. Init => Inv
      BY InitHolds
<1>2. Inv /\ [Next]_vars => Inv'
      BY ClientKeeps, WorkerKeeps, CloseWorkerKeeps, CloseKeeps, StutterKeeps DEF Next
<1> QED BY <1>1, <1>2, PTL DEF Spec

\* The types of the pool's variables are kept, with a worker's pending count never below zero
\* and its queue within max_pending_per_worker.
THEOREM TransportTypes == Spec => []TypeOK
<1>1. Inv => TypeOK
  <2> SUFFICES ASSUME Inv PROVE TypeOK
      OBVIOUS
  <2>1. Types /\ PendingInv
        BY DEF Inv
  <2>2. failures \in [Client -> 0 .. MaxFailures]
    <3>1. \A c \in Client : failures[c] \in 0 .. MaxFailures
          BY <2>1, Requests DEF Inv, Types, ClientInv
    <3> QED BY <2>1, <3>1 DEF Types
  <2>3. pc \in [Client -> {"start", "reserve", "ensure", "enqueue", "put", "wait", "ok", "failed"}]
        BY <2>1 DEF Types, Held
  <2> QED BY <2>1, <2>2, <2>3 DEF Types, PendingInv, TypeOK
<1> QED BY <1>1, TransportInvariant, PTL

\* "Every scope also owns one canonical raw tools/list fingerprint": over every worker,
\* restart, failure, first listing and close(), all tools called in a scope were called on
\* child processes that offered the same tools.
THEOREM ScopeKeepsSurface == Spec => []OneSurface
<1>1. Inv => OneSurface
  <2> SUFFICES ASSUME Inv, NEW x \in executed, NEW y \in executed,
                      ScopeOf[x[1][1]] = ScopeOf[y[1][1]]
               PROVE  x[2] = y[2]
      BY DEF OneSurface
  <2>1. x[1] \in Ids /\ x[2] \in Surface /\ y[2] \in Surface
        BY DEF Inv, Types
  <2>2. ScopeOf[x[1][1]] \in Scope
        BY <2>1, Requests, TransportAssumption
  <2>3. Pinned(ScopeOf[x[1][1]], x[2]) /\ Pinned(ScopeOf[x[1][1]], y[2])
        BY DEF Pinned
  <2> QED BY <2>1, <2>2, <2>3 DEF Inv, PinInv
<1> QED BY <1>1, TransportInvariant, PTL

\* "Never turn an already-cancelled queued request into a late write": no tool is called for a
\* request cancelled before a worker took it.
THEOREM CancelledNeverRuns == Spec => []NoLateEffect
<1>1. Inv => NoLateEffect
      BY DEF Inv, GoneInv, Executed, NoLateEffect
<1> QED BY <1>1, TransportInvariant, PTL

\* The tool of a call that _execute may not repeat is called once at most, and a call that
\* call_tool answers was executed.
THEOREM CallsRunOnce == Spec => []AtMostOnce
<1>1. Inv => AtMostOnce
  <2> SUFFICES ASSUME Inv, NEW c \in Client
               PROVE  /\ c \notin Safe => Cardinality({x \in executed : x[1][1] = c}) <= 1
                      /\ pc[c] = "ok" => \E x \in {x \in executed : x[1][1] = c} : x[1] = <<c, sent[c]>>
      BY DEF AtMostOnce
  <2> USE Requests
  <2> DEFINE calls == {x \in executed : x[1][1] = c}
  <2>0. \A x \in executed : x \in Ids \X Surface /\ x[1] \in Ids /\ x[2] \in Surface /\ x = <<x[1], x[2]>>
        BY DEF Inv, Types
  <2>1. ASSUME c \notin Safe PROVE Cardinality(calls) <= 1
    <3>1. ASSUME NEW x \in calls, NEW y \in calls PROVE x = y
      <4>1. /\ x \in executed /\ y \in executed /\ x[1] \in Ids /\ y[1] \in Ids
            /\ x[1][1] = c /\ y[1][1] = c /\ x[2] \in Surface /\ y[2] \in Surface
            BY <2>0
      <4>2. CallPlaced(x[1]) /\ CallPlaced(y[1])
            BY <4>1 DEF CallPlaced, Executed
      <4>3. x[1][2] = sent[c] /\ y[1][2] = sent[c]
            BY <2>1, <4>1, <4>2 DEF Inv, OnceInv
      <4>4. x[1] = y[1]
            BY <4>1, <4>3
      <4>5. Pinned(ScopeOf[c], x[2]) /\ Pinned(ScopeOf[c], y[2]) /\ ScopeOf[c] \in Scope
            BY <4>1, TransportAssumption DEF Pinned
      <4>6. x[2] = y[2]
            BY <4>1, <4>5 DEF Inv, PinInv
      <4> QED BY <2>0, <4>1, <4>4, <4>6
    <3> HIDE DEF calls
    <3>2. CASE calls = {}
      <4>1. Cardinality({}) = 0
            BY FS_EmptySet
      <4>2. Cardinality(calls) = 0
            BY <3>2, <4>1
      <4> QED BY <4>2
    <3>3. CASE calls # {}
      <4>1. PICK x \in calls : TRUE
            BY <3>3
      <4>2. calls = {x}
            BY <3>1, <4>1
      <4>3. Cardinality({x}) = 1
            BY FS_Singleton
      <4>4. Cardinality(calls) = 1
            BY <4>2, <4>3
      <4> QED BY <4>4
    <3> QED BY <3>2, <3>3
  <2>2. ASSUME pc[c] = "ok" PROVE \E x \in calls : x[1] = <<c, sent[c]>>
    <3>1. PICK i \in Ids : i[1] = c /\ i[2] = sent[c] /\ Executed(i)
          BY <2>2 DEF Inv, AnswerInv
    <3>2. PICK x \in executed : x[1] = i
          BY <3>1 DEF Executed
    <3> QED BY <3>1, <3>2
  <2> QED BY <2>1, <2>2
<1> QED BY <1>1, TransportInvariant, PTL

\* Who awaits a result has its request with a worker that will come to it, also when a thread
\* dies and _fail_queued answers for it, but behind the end marker of close().
THEOREM WaitersAreServed == Spec => []NothingForgotten
<1>1. Inv => NothingForgotten
  <2> SUFFICES ASSUME Inv, NEW c \in Client, pc[c] = "wait", Open(req[c]), ~Taken(Id(req[c]))
               PROVE  \/ /\ wpc[on[c]] \notin {"none", "ended", "dead"}
                         /\ \E i \in DOMAIN queue[on[c]] : queue[on[c]][i] = req[c]
                      \/ Behind(c)
      BY DEF NothingForgotten
  <2>1. on[c] \in Worker
        BY Clients DEF Inv, Held
  <2>2. queue[on[c]] \in Seq(Request \cup {End}) /\ DOMAIN queue[on[c]] = 1 .. Len(queue[on[c]])
        BY <2>1 DEF Inv, Types
  <2>3. PICK k \in 1 .. Len(queue[on[c]]) : queue[on[c]][k] = req[c]
        BY DEF Inv, KeptInv
  <2>4. wpc[on[c]] \notin {"none", "dead"}
    <3>1. Len(queue[on[c]]) # 0
          BY <2>2, <2>3
    <3>2. queue[on[c]] # <<>>
          BY <3>1
    <3> QED BY <2>1, <3>2 DEF Inv, WorkerInv
  <2> QED BY <2>2, <2>3, <2>4 DEF Behind
<1> QED BY <1>1, TransportInvariant, PTL
===============================================================================
