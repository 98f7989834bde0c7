--------------------------- MODULE ModelWorkProofs ---------------------------
(***************************************************************************)
(* Theorems about rounds of model work, for any number of units, callers   *)
(* without a budget, slots and workers.                                    *)
(***************************************************************************)
EXTENDS ModelWork, FiniteSetTheorems, SequenceTheorems, TLAPS

Kinds == {"text", "solo", "image", "upgrade", "nested"}
Scope == {"slot", "read", "write"}

\* The programs: short, no read claim is taken under the write lock, and a use that
\* writes infers as the writer.
LEMMA Programs ==
  ASSUME NEW k \in Kinds
  PROVE  /\ Program(k) \in Seq(Scope)
         /\ Len(Program(k)) \in 1 .. 4
         /\ \A i, j \in 1 .. Len(Program(k)) :
              i < j /\ Program(k)[i] = "write" => Program(k)[j] = "write"
         /\ Program(k)[Len(Program(k))] \in {"read", "write"}
<1>1. CASE k = "text"
  <2>1. Program(k) = <<"slot", "read">> BY <1>1 DEF Program
  <2> QED BY <2>1 DEF Scope
<1>2. CASE k = "solo"
  <2>1. Program(k) = <<"write">> BY <1>2 DEF Program
  <2> QED BY <2>1 DEF Scope
<1>3. CASE k = "image"
  <2>1. Program(k) = <<"write", "write">> BY <1>3 DEF Program
  <2> QED BY <2>1 DEF Scope
<1>4. CASE k = "upgrade"
  <2>1. Program(k) = <<"slot", "read", "write">> BY <1>4 DEF Program
  <2> QED BY <2>1 DEF Scope
<1>5. CASE k = "nested"
  <2>1. Program(k) = <<"slot", "read", "slot", "read">> BY <1>5 DEF Program
  <2> QED BY <2>1 DEF Scope
<1> QED BY <1>1, <1>2, <1>3, <1>4, <1>5 DEF Kinds

-----------------------------------------------------------------------------
(* The round                                                               *)

Modes == {"item", "queued", "go", "wait", "infer", "leave", "back", "publish", "own", "write"}
           \cup Settled

\* The variables of the threads, the budgets and the scheduler.
RoundTypeOK ==
  /\ kind \in [Thread -> Kinds]
  /\ at \in [Thread -> Nat]
  /\ mode \in [Thread -> Modes]
  /\ late \subseteq Unit
  /\ refreshes \in 0 .. MaxRefresh
  /\ cancelled \subseteq Budget
  /\ pubLock \in [Budget -> Unit \cup {Null}]
  /\ phase \in {"fill", "wait", "woken", "reap", "cancel", "ended"}
  /\ workers \in 1 .. MaxWorkers /\ isolate \in BOOLEAN
  /\ queue \in Seq(Unit)
  /\ active \subseteq Unit /\ batch \subseteq active
  /\ report \in [Unit -> {"none", "result", "error", "timeout"}]
  /\ closed \in BOOLEAN

\* How far a thread is in its program tells what it may do next.
InProgram ==
  \A t \in Thread :
    /\ at[t] <= Len(Scopes(t))
    /\ mode[t] \in {"item", "queued", "publish", "own", "write"} \cup Settled => at[t] = 0
    /\ mode[t] = "wait" => at[t] < Len(Scopes(t))
    /\ mode[t] = "infer" => at[t] = Len(Scopes(t))
    /\ t \notin Unit => mode[t] \notin {"item", "queued", "publish", "own", "write"}

\* An item is submitted once, and never more of them than there are workers.
Submitted ==
  /\ IsInjective(queue)
  /\ \A i \in 1 .. Len(queue) : mode[queue[i]] = "item" /\ queue[i] \notin active
  /\ IsFiniteSet(active) /\ Cardinality(active) <= workers
  /\ \A u \in batch : mode[u] \in Settled

\* Who publishes holds the locks that a cancellation waits for.
Publishing ==
  /\ \A u \in Unit :
       /\ mode[u] \in {"own", "write"} => pubLock[Outer] = u
       /\ mode[u] = "write" => pubLock[u] = u /\ u \notin cancelled /\ Outer \notin cancelled
       /\ mode[u] \notin {"item"} \cup Settled => u \in active \cup cancelled
  /\ phase = "ended" => active = {}

\* Why a round may end before every unit was reported.
CutShort ==
  \/ \E u \in Unit : report[u] = "timeout" \/ (~isolate /\ report[u] = "error")
  \/ closed

\* What was not reported is still to be submitted or active, unless the round was cut short.
Reporting ==
  /\ CutShort => phase \in {"cancel", "ended"}
  /\ phase = "cancel" => CutShort
  /\ phase = "ended" /\ ~CutShort => queue = <<>>
  /\ \A u \in Unit :
       /\ report[u] = "none" => CutShort \/ u \in active \/ \E i \in 1 .. Len(queue) : queue[i] = u
       /\ report[u] = "result" => mode[u] = "done" /\ u \notin active

RoundInv == RoundTypeOK /\ InProgram /\ Submitted /\ Publishing /\ Reporting

\* A unit of work is a thread with a budget, and not the outer caller.
LEMMA UnitThreads ==
  /\ Unit \subseteq Thread /\ Outer \notin Unit /\ Null \notin Unit
  /\ Outer \in Budget /\ Unit \subseteq Budget
BY GateAssumption, WorkAssumption DEF Unit, Budget

\* The round invariant holds before the first unit.
LEMMA RoundInit == Init => RoundInv
<1> SUFFICES ASSUME Init PROVE RoundInv
    OBVIOUS
<1> USE UnitThreads
<1>0. PICK s \in Settings : kind = s.kind /\ capacity = s.slots /\ workers = s.workers /\ isolate = s.isolate
      BY DEF Init
<1>1. kind \in [Thread -> Kinds] /\ workers \in 1 .. MaxWorkers /\ isolate \in BOOLEAN
      BY <1>0, WorkAssumption DEF Kinds
<1>2. queue \in Seq(Unit) /\ IsInjective(queue) /\ ToSet(queue) = Unit
      BY WorkAssumption DEF Init, Unit
<1>3. \A u \in Unit : \E i \in 1 .. Len(queue) : queue[i] = u
      BY <1>2 DEF ToSet
<1>4. RoundTypeOK
  <2>1. \A t \in Thread : mode[t] \in {"item", "go"}
        BY DEF Init
  <2>2. mode \in [Thread -> Modes] /\ at \in [Thread -> Nat]
        BY DEF Init, Modes
  <2>3. pubLock \in [Budget -> Unit \cup {Null}]
        BY DEF Init
  <2>4. report \in [Unit -> {"none", "result", "error", "timeout"}]
        BY DEF Init
  <2>5. refreshes \in 0 .. MaxRefresh /\ late \subseteq Unit /\ cancelled \subseteq Budget
        BY WorkAssumption DEF Init
  <2> QED BY <1>1, <1>2, <2>2, <2>3, <2>4, <2>5 DEF Init, RoundTypeOK
<1>5. InProgram
  <2> SUFFICES ASSUME NEW t \in Thread
               PROVE  /\ at[t] = 0 /\ 0 < Len(Scopes(t))
                      /\ mode[t] \in {"item", "go"} /\ (t \notin Unit => mode[t] = "go")
      BY DEF InProgram
  <2>1. Len(Scopes(t)) \in 1 .. 4
        BY <1>1, Programs DEF Scopes
  <2>2. 0 < Len(Scopes(t))
        BY <2>1
  <2>3. at[t] = 0 /\ mode[t] = IF t \in Unit THEN "item" ELSE "go"
        BY DEF Init
  <2> QED BY <2>2, <2>3
<1>6. Submitted
  <2>1. \A i \in 1 .. Len(queue) : queue[i] \in Unit
        BY <1>2
  <2>2. active = {} /\ batch = {} /\ IsFiniteSet(active) /\ Cardinality(active) = 0
        BY FS_EmptySet DEF Init
  <2> QED BY <1>1, <1>2, <2>1, <2>2 DEF Init, Submitted
<1>7. Publishing
      BY DEF Init, Publishing
<1>8. Reporting
      BY <1>3 DEF Init, Reporting, CutShort
<1> QED BY <1>4, <1>5, <1>6, <1>7, <1>8 DEF RoundInv

\* A thread goes on: it is in k scopes then, and in mode m.
Moved(t, m, k) ==
  /\ mode[t] \in {"queued", "go", "wait", "infer", "leave", "back"}
  /\ mode' = [mode EXCEPT ![t] = m] /\ at' = [at EXCEPT ![t] = k] /\ kind' = kind
  /\ UNCHANGED <<budgetVars, schedVars>>
  /\ m \in {"go", "wait", "infer", "leave", "back", "publish", "failed", "done"}
  /\ k <= Len(Scopes(t))
  /\ m \in {"publish", "failed", "done"} => k = 0
  /\ m = "wait" => k < Len(Scopes(t))
  /\ m = "infer" => k = Len(Scopes(t))
  /\ (m = "publish" => t \in Unit) /\ (m = "done" => t \notin Unit)

\* The steps of a thread but its publication, as moves.
LEMMA ThreadMoves ==
  ASSUME RoundInv, NEW t \in Thread,
         Use(t) \/ Inferred(t) \/ Start(t) \/ GiveUp(t)
  PROVE  \E m \in Modes, k \in Nat : Moved(t, m, k)
<1>1. /\ at \in [Thread -> Nat] /\ mode \in [Thread -> Modes]
      /\ at[t] \in Nat /\ at[t] <= Len(Scopes(t)) /\ Len(Scopes(t)) \in Nat
  <2>1. Len(Scopes(t)) \in 1 .. 4
        BY Programs DEF Scopes, RoundInv, RoundTypeOK
  <2> QED BY <2>1 DEF RoundInv, RoundTypeOK, InProgram
<1>2. ASSUME NEW m \in {"go", "wait", "infer", "leave", "back", "publish", "failed", "done"},
             Stay(t, m), UNCHANGED <<budgetVars, schedVars>>,
             mode[t] \in {"queued", "go", "wait", "infer", "leave", "back"},
             m \in {"publish", "failed", "done"} => at[t] = 0,
             m = "wait" => at[t] < Len(Scopes(t)),
             m = "infer" => at[t] = Len(Scopes(t)),
             (m = "publish" => t \in Unit) /\ (m = "done" => t \notin Unit)
      PROVE  \E n \in Modes, k \in Nat : Moved(t, n, k)
  <2>1. at' = [at EXCEPT ![t] = at[t]]
        BY <1>1, <1>2 DEF Stay
  <2>2. Moved(t, m, at[t])
        BY <1>1, <1>2, <2>1 DEF Moved, Stay, To
  <2>3. m \in Modes
        BY DEF Modes, Settled
  <2> QED BY <1>1, <2>2, <2>3
<1>3. ASSUME NEW m \in {"go", "leave", "back", "publish", "failed", "done"}, NEW d \in {1, -1},
             Move(t, d, m), UNCHANGED <<budgetVars, schedVars>>,
             mode[t] \in {"queued", "go", "wait", "infer", "leave", "back"},
             at[t] + d \in 0 .. Len(Scopes(t)),
             m \in {"publish", "failed", "done"} => at[t] + d = 0,
             (m = "publish" => t \in Unit) /\ (m = "done" => t \notin Unit)
      PROVE  \E n \in Modes, k \in Nat : Moved(t, n, k)
  <2>1. at' = [at EXCEPT ![t] = at[t] + d] /\ at[t] + d \in Nat
        BY <1>1, <1>3 DEF Move
  <2>2. Moved(t, m, at[t] + d)
        BY <1>1, <1>3, <2>1 DEF Moved, Move, To
  <2>3. m \in Modes
        BY DEF Modes, Settled
  <2> QED BY <2>1, <2>2, <2>3
<1>4. CASE Acquire(t) \/ Granted(t)
      BY <1>1, <1>3, <1>4 DEF Acquire, Granted, Enters
<1>5. CASE Wait(t)
      BY <1>1, <1>2, <1>5 DEF Wait, Enters
<1>6. CASE SleepAgain(t)
  <2>1. mode[t] = "wait" /\ at[t] < Len(Scopes(t)) /\ UNCHANGED <<threadVars, budgetVars, schedVars>>
        BY <1>6 DEF SleepAgain, Enters
  <2>2. Stay(t, "wait")
        BY <1>1, <2>1 DEF Stay, To, threadVars
  <2> QED BY <1>1, <1>2, <2>1, <2>2
<1>7. CASE Infer(t)
      BY <1>1, <1>2, <1>7 DEF Infer
<1>8. CASE Inferred(t)
      BY <1>1, <1>2, <1>8 DEF Inferred
<1>9. CASE Start(t)
  <2>1. at[t] = 0
        BY <1>9 DEF Start, RoundInv, InProgram
  <2> QED BY <1>1, <1>2, <1>9, <2>1 DEF Start
<1>10. CASE GiveUp(t)
       BY <1>1, <1>2, <1>10 DEF GiveUp, Enters
<1>11. CASE Release(t)
  <2>1. /\ Outside(t) \in {"failed", "publish", "done"}
        /\ Outside(t) = "publish" => t \in Unit
        /\ Outside(t) = "done" => t \notin Unit
        BY DEF Outside
  <2>2. CASE at[t] = 0
        BY <1>1, <1>2, <1>11, <2>1, <2>2 DEF Release
  <2>3. CASE at[t] # 0
        BY <1>1, <1>3, <1>11, <2>1, <2>3 DEF Release
  <2> QED BY <2>2, <2>3
<1> QED BY <1>4, <1>5, <1>6, <1>7, <1>8, <1>9, <1>10, <1>11 DEF Use

\* A thread that goes on does not disturb the round.
LEMMA MoveKeepsRound ==
  ASSUME RoundInv, NEW t \in Thread, NEW m \in Modes, NEW k \in Nat, Moved(t, m, k)
  PROVE  RoundInv'
<1> USE UnitThreads
<1>1. /\ UNCHANGED <<kind, late, refreshes, cancelled, pubLock, phase, workers, isolate, queue,
                     active, batch, report, closed>>
      /\ mode' = [mode EXCEPT ![t] = m] /\ at' = [at EXCEPT ![t] = k]
      BY DEF Moved, budgetVars, schedVars
<1>2. RoundTypeOK'
      BY <1>1 DEF RoundInv, RoundTypeOK
<1>3. /\ mode'[t] = m /\ at'[t] = k
      /\ \A o \in Thread \ {t} : mode'[o] = mode[o] /\ at'[o] = at[o]
      /\ \A o \in Thread : Scopes(o)' = Scopes(o)
      BY <1>1 DEF RoundInv, RoundTypeOK, Scopes
<1>4. InProgram'
      BY <1>3 DEF RoundInv, InProgram, Moved, Settled
<1>5. mode[t] \notin {"item"} \cup Settled /\ m \notin {"item", "own", "write"}
      BY DEF Moved, Settled
<1>6. queue \in Seq(Unit) /\ batch \subseteq Unit
      BY DEF RoundInv, RoundTypeOK
<1>7. Submitted'
      BY <1>1, <1>3, <1>5, <1>6 DEF RoundInv, Submitted
<1>8. Publishing'
      BY <1>1, <1>3, <1>5 DEF RoundInv, Publishing
<1>9. Reporting'
      BY <1>1, <1>3, <1>5 DEF RoundInv, Reporting, CutShort, Settled
<1> QED BY <1>2, <1>4, <1>7, <1>8, <1>9 DEF RoundInv

\* Nor does a publication or the end of a lease.
LEMMA PublicationKeepsRound ==
  ASSUME RoundInv, NEW u \in Unit,
         LockOuter(u) \/ LockOwn(u) \/ Written(u)
  PROVE  RoundInv'
<1> USE UnitThreads
<1>1. /\ UNCHANGED <<kind, at, late, refreshes, cancelled, phase, workers, isolate, queue,
                     active, batch, report, closed>>
      /\ mode[u] \in {"publish", "own", "write"}
      /\ \E m \in {"own", "write", "failed", "done"} : mode' = [mode EXCEPT ![u] = m]
      /\ mode'[u] = "own" => mode[u] = "publish"
      BY DEF LockOuter, LockOwn, Written, Stay, To, schedVars, RoundInv, RoundTypeOK
<1>2. /\ pubLock' \in [Budget -> Unit \cup {Null}]
      /\ mode'[u] \in {"own", "write"} => pubLock'[Outer] = u
      /\ mode'[u] = "write" => pubLock'[u] = u /\ {u, Outer} \cap cancelled = {}
      /\ \A b \in Budget : pubLock'[b] = pubLock[b] \/ pubLock[b] \in {Null, u}
  <2>0. pubLock \in [Budget -> Unit \cup {Null}] /\ mode \in [Thread -> Modes]
        BY DEF RoundInv, RoundTypeOK
  <2>1. CASE LockOuter(u)
        BY <2>0, <2>1 DEF LockOuter, Locked, Stay, To
  <2>2. CASE LockOwn(u)
    <3>1. pubLock[Outer] = u
          BY <2>2 DEF LockOwn, RoundInv, Publishing
    <3>2. CASE Stopped(u)
          BY <2>0, <2>2, <3>2 DEF LockOwn, Unlocked, Stay, To
    <3>3. CASE ~Stopped(u)
      <4>1. {u, Outer} \cap cancelled = {}
            BY <3>3 DEF Stopped, Chain
      <4> QED BY <2>0, <2>2, <3>1, <3>3, <4>1 DEF LockOwn, Locked, Stay, To
    <3> QED BY <3>2, <3>3
  <2>3. CASE Written(u)
        BY <2>0, <2>3 DEF Written, Unlocked, Stay, To
  <2> QED BY <2>1, <2>2, <2>3
<1>3. /\ mode'[u] \in {"own", "write", "failed", "done"} /\ mode' \in [Thread -> Modes]
      /\ \A o \in Thread \ {u} : mode'[o] = mode[o]
      /\ \A o \in Thread : Scopes(o)' = Scopes(o) /\ at'[o] = at[o]
      BY <1>1 DEF RoundInv, RoundTypeOK, Scopes, Modes, Settled
<1>4. RoundTypeOK'
      BY <1>1, <1>2, <1>3 DEF RoundInv, RoundTypeOK
<1>5. InProgram'
      BY <1>1, <1>3 DEF RoundInv, InProgram, Settled
<1>6. mode[u] \notin {"item"} \cup Settled
      BY <1>1 DEF Settled
<1>7. queue \in Seq(Unit) /\ batch \subseteq Unit
      BY DEF RoundInv, RoundTypeOK
<1>8. Submitted'
      BY <1>1, <1>3, <1>6, <1>7 DEF RoundInv, Submitted
<1>9. Publishing'
      BY <1>1, <1>2, <1>3, <1>6 DEF RoundInv, Publishing
<1>10. Reporting'
       BY <1>1, <1>3, <1>6 DEF RoundInv, Reporting, CutShort, Settled
<1> QED BY <1>4, <1>5, <1>8, <1>9, <1>10 DEF RoundInv

\* Leases that are refreshed or expire, and the cancellation of the outer budget.
LEMMA LeaseKeepsRound ==
  ASSUME RoundInv, (\E u \in Unit : Refresh(u) \/ Expire(u)) \/ CancelOuter
  PROVE  RoundInv'
<1> USE UnitThreads
<1>1. /\ UNCHANGED <<kind, at, mode, pubLock, phase, workers, isolate, queue, active, batch,
                     report, closed>>
      /\ late' \subseteq Unit /\ refreshes' \in 0 .. MaxRefresh
      /\ \/ cancelled' = cancelled
         \/ pubLock[Outer] = Null /\ cancelled' = cancelled \cup {Outer}
      BY WorkAssumption
      DEF Refresh, Expire, CancelOuter, MayCancel, schedVars, threadVars, RoundInv, RoundTypeOK
<1>2. RoundTypeOK'
      BY <1>1 DEF RoundInv, RoundTypeOK
<1>3. InProgram' /\ Submitted' /\ Reporting'
      BY <1>1 DEF RoundInv, InProgram, Submitted, Reporting, CutShort, Scopes
<1>4. Publishing'
      BY <1>1 DEF RoundInv, Publishing
<1> QED BY <1>2, <1>3, <1>4 DEF RoundInv

\* What _fill_active_slots submits: the first n items, and no more than there is room for.
LEMMA FillTakes ==
  ASSUME RoundInv, Fill
  PROVE  \E n \in 0 .. Len(queue) :
           LET new == {queue[i] : i \in 1 .. n} IN
           /\ active' = active \cup new
           /\ IsFiniteSet(active') /\ Cardinality(active') <= workers
           /\ queue' \in Seq(Unit) /\ Len(queue') = Len(queue) - n
           /\ \A i \in 1 .. Len(queue') : queue'[i] = queue[n + i]
           /\ mode' = [t \in Thread |-> IF t \in new THEN "queued" ELSE mode[t]]
           /\ n = 0 /\ active = {} => queue = <<>>
<1>1. /\ queue \in Seq(Unit) /\ Len(queue) \in Nat /\ workers \in Nat /\ workers > 0
      /\ \A i \in 1 .. Len(queue) : queue[i] \in Unit
      /\ IsFiniteSet(active) /\ Cardinality(active) <= workers
      BY DEF RoundInv, RoundTypeOK, Submitted
<1>2. Cardinality(active) \in Nat /\ Room \in Nat
      BY <1>1, FS_CardinalityType DEF Room
<1> DEFINE n   == IF Room < Len(queue) THEN Room ELSE Len(queue)
           new == {queue[i] : i \in 1 .. n}
<1>3. n \in 0 .. Len(queue) /\ n <= Room
      BY <1>1, <1>2
<1> HIDE DEF n
<1>4. ToSet(SubSeq(queue, 1, n)) = new
  <2>1. /\ SubSeq(queue, 1, n) \in Seq(Unit) /\ Len(SubSeq(queue, 1, n)) = n
        /\ \A i \in 1 .. n : SubSeq(queue, 1, n)[i] = queue[i]
        BY <1>1, <1>3, SubSeqProperties
  <2>2. DOMAIN SubSeq(queue, 1, n) = 1 .. n
        BY <2>1
  <2> QED BY <2>1, <2>2 DEF ToSet
<1>5. IsFiniteSet(new) /\ Cardinality(new) <= n
  <2> DEFINE f == [i \in 1 .. n |-> queue[i]]
  <2>1. f \in Surjection(1 .. n, new)
        BY DEF Surjection
  <2>2. IsFiniteSet(1 .. n) /\ Cardinality(1 .. n) = n
        BY <1>3, FS_Interval
  <2> QED BY <2>1, <2>2, FS_Surjection
<1>6. IsFiniteSet(active \cup new) /\ Cardinality(active \cup new) <= workers
  <2>1. /\ IsFiniteSet(active \cup new) /\ IsFiniteSet(active \cap new)
        /\ Cardinality(active \cup new)
             = Cardinality(active) + Cardinality(new) - Cardinality(active \cap new)
    <3>1. IsFiniteSet(active \cap new)
          BY <1>1, FS_Subset
    <3> QED BY <1>1, <1>5, <3>1, FS_Union
  <2>2. Cardinality(new) \in Nat /\ Cardinality(active \cap new) \in Nat
        BY <1>5, <2>1, FS_CardinalityType
  <2> QED BY <1>1, <1>2, <1>3, <1>5, <2>1, <2>2 DEF Room
<1>7. /\ active' = active \cup new
      /\ queue' = SubSeq(queue, n + 1, Len(queue))
      /\ mode' = [t \in Thread |-> IF t \in new THEN "queued" ELSE mode[t]]
      BY <1>4 DEF Fill, n
<1>8. /\ queue' \in Seq(Unit) /\ Len(queue') = Len(queue) - n
      /\ \A i \in 1 .. Len(queue') : queue'[i] = queue[n + i]
  <2>1. \A i \in n + 1 .. Len(queue) : queue[i] \in Unit
        BY <1>1, <1>3
  <2>2. /\ SubSeq(queue, n + 1, Len(queue)) \in Seq(Unit)
        /\ Len(SubSeq(queue, n + 1, Len(queue)))
             = IF n + 1 <= Len(queue) THEN Len(queue) - (n + 1) + 1 ELSE 0
        /\ \A i \in 1 .. Len(queue) - (n + 1) + 1 :
             SubSeq(queue, n + 1, Len(queue))[i] = queue[n + 1 + i - 1]
        BY <1>1, <1>3, <2>1, SubSeqProperties
  <2> QED BY <1>1, <1>3, <1>7, <2>2
<1>9. n = 0 /\ active = {} => queue = <<>>
  <2> SUFFICES ASSUME n = 0, active = {} PROVE queue = <<>>
      OBVIOUS
  <2>1. Room = workers
        BY <1>1, FS_EmptySet DEF Room
  <2> QED BY <1>1, <2>1 DEF n
<1> QED BY <1>3, <1>6, <1>7, <1>8, <1>9

\* The executor hands out units.
LEMMA FillKeepsRound ==
  ASSUME RoundInv, Fill
  PROVE  RoundInv'
<1> USE UnitThreads
<1>1. PICK n \in 0 .. Len(queue) :
        LET new == {queue[i] : i \in 1 .. n} IN
        /\ active' = active \cup new
        /\ IsFiniteSet(active') /\ Cardinality(active') <= workers
        /\ queue' \in Seq(Unit) /\ Len(queue') = Len(queue) - n
        /\ \A i \in 1 .. Len(queue') : queue'[i] = queue[n + i]
        /\ mode' = [t \in Thread |-> IF t \in new THEN "queued" ELSE mode[t]]
        /\ n = 0 /\ active = {} => queue = <<>>
      BY FillTakes
<1> DEFINE new == {queue[i] : i \in 1 .. n}
<1>2. /\ UNCHANGED <<kind, at, late, refreshes, cancelled, pubLock, workers, isolate, batch,
                     report, closed>>
      /\ phase = "fill" /\ phase' = IF active' = {} THEN "ended" ELSE "wait"
      BY DEF Fill, budgetVars
<1>3. /\ queue \in Seq(Unit) /\ Len(queue) \in Nat /\ n \in Nat /\ n <= Len(queue)
      /\ \A i \in 1 .. Len(queue) : queue[i] \in Unit
      /\ new \subseteq Unit /\ \A u \in new : mode[u] = "item" /\ u \notin active
      BY DEF RoundInv, RoundTypeOK, Submitted
<1>4. /\ \A u \in new : mode'[u] = "queued"
      /\ \A t \in Thread \ new : mode'[t] = mode[t]
      /\ \A t \in Thread : Scopes(t)' = Scopes(t)
      /\ mode' \in [Thread -> Modes]
      BY <1>1, <1>2, <1>3 DEF RoundInv, RoundTypeOK, Scopes, Modes
<1>5. RoundTypeOK'
      BY <1>1, <1>2, <1>3, <1>4 DEF RoundInv, RoundTypeOK
<1>6. InProgram'
      BY <1>2, <1>3, <1>4 DEF RoundInv, InProgram
<1>7. Submitted'
  <2>1. IsInjective(queue)
        BY DEF RoundInv, Submitted
  <2>2. \A i, j \in 1 .. Len(queue) : queue[i] = queue[j] => i = j
        BY <1>3, <2>1 DEF IsInjective
  <2>3. IsInjective(queue')
    <3> SUFFICES ASSUME NEW i \in DOMAIN queue', NEW j \in DOMAIN queue',
                        queue'[i] = queue'[j]
                 PROVE  i = j
        BY DEF IsInjective
    <3>1. i \in 1 .. Len(queue') /\ j \in 1 .. Len(queue')
          BY <1>1
    <3>2. /\ n + i \in 1 .. Len(queue) /\ n + j \in 1 .. Len(queue)
          /\ queue[n + i] = queue[n + j]
          BY <1>1, <1>3, <3>1
    <3>3. n + i = n + j
          BY <2>2, <3>2
    <3> QED BY <1>3, <3>1, <3>3
  <2>4. \A i \in 1 .. Len(queue') : queue'[i] \notin new /\ queue'[i] \in Unit
    <3> SUFFICES ASSUME NEW i \in 1 .. Len(queue')
                 PROVE  queue'[i] \notin new /\ queue'[i] \in Unit
        OBVIOUS
    <3>1. n + i \in 1 .. Len(queue) /\ queue'[i] = queue[n + i]
          BY <1>1, <1>3
    <3>2. \A j \in 1 .. n : j \in 1 .. Len(queue) /\ j # n + i
          BY <1>3
    <3> QED BY <1>3, <2>2, <3>1, <3>2
  <2>5. \A i \in 1 .. Len(queue') : mode'[queue'[i]] = "item" /\ queue'[i] \notin active'
    <3> SUFFICES ASSUME NEW i \in 1 .. Len(queue')
                 PROVE  mode'[queue'[i]] = "item" /\ queue'[i] \notin active'
        OBVIOUS
    <3>1. n + i \in 1 .. Len(queue) /\ queue'[i] = queue[n + i]
          BY <1>1, <1>3
    <3>2. mode[queue[n + i]] = "item" /\ queue[n + i] \notin active
          BY <3>1 DEF RoundInv, Submitted
    <3> QED BY <1>1, <1>4, <2>4, <3>1, <3>2
  <2>6. \A u \in batch' : mode'[u] \in Settled
    <3>1. batch \subseteq active /\ batch \subseteq Unit
          BY DEF RoundInv, RoundTypeOK
    <3> QED BY <1>2, <1>3, <1>4, <3>1 DEF RoundInv, Submitted
  <2> QED BY <1>1, <1>2, <2>3, <2>5, <2>6 DEF Submitted
<1>8. Publishing'
      BY <1>1, <1>2, <1>3, <1>4 DEF RoundInv, Publishing
<1>9. Reporting'
  <2>1. ~CutShort /\ ~CutShort'
        BY <1>2 DEF RoundInv, Reporting, CutShort
  <2>2. phase' = "ended" => queue' = <<>>
    <3> SUFFICES ASSUME active' = {} PROVE queue' = <<>>
        BY <1>2
    <3>0. n = 0 \/ 1 \in 1 .. n
          BY <1>3
    <3>1. active = {} /\ new = {}
          BY <1>1
    <3>3. 1 \notin 1 .. n
          BY <3>1
    <3>4. n = 0
          BY <3>0, <3>3
    <3>2. queue = <<>> /\ Len(queue') = 0
          BY <1>1, <1>3, <3>1, <3>4
    <3> QED BY <1>1, <3>2
  <2>3. ASSUME NEW u \in Unit, report'[u] = "none"
        PROVE  u \in active' \/ \E i \in 1 .. Len(queue') : queue'[i] = u
    <3>1. u \in active \/ \E i \in 1 .. Len(queue) : queue[i] = u
          BY <1>2, <2>1, <2>3 DEF RoundInv, Reporting
    <3>2. ASSUME NEW i \in 1 .. Len(queue), queue[i] = u
          PROVE  u \in new \/ \E j \in 1 .. Len(queue') : queue'[j] = u
      <4>1. CASE i <= n
            BY <1>3, <3>2, <4>1
      <4>2. CASE i > n
        <5>1. i - n \in 1 .. Len(queue') /\ queue'[i - n] = queue[i]
              BY <1>1, <1>3, <4>2
        <5> QED BY <3>2, <5>1
      <4> QED BY <1>3, <4>1, <4>2
    <3> QED BY <1>1, <3>1, <3>2
  <2>4. \A u \in Unit : report'[u] = "result" => mode'[u] = "done" /\ u \notin active'
        BY <1>1, <1>2, <1>3, <1>4 DEF RoundInv, Reporting
  <2>5. phase' # "cancel"
        BY <1>2
  <2> QED BY <2>1, <2>2, <2>3, <2>4, <2>5 DEF Reporting
<1> QED BY <1>5, <1>6, <1>7, <1>8, <1>9 DEF RoundInv

\* The executor wakes up, or looks at the leases.
LEMMA WakeKeepsRound ==
  ASSUME RoundInv, Wake \/ CheckLeases
  PROVE  RoundInv'
<1>1. UNCHANGED <<kind, at, mode, late, refreshes, cancelled, pubLock, workers, isolate, queue,
                  active, closed>>
      BY DEF Wake, CheckLeases, threadVars, budgetVars
<1>2. InProgram'
      BY <1>1 DEF RoundInv, InProgram, Scopes
<1>3. CASE Wake
  <2>1. /\ UNCHANGED report /\ phase = "wait" /\ phase' \in {"reap", "woken"}
        /\ batch' \subseteq active /\ \A u \in batch' : mode[u] \in Settled
        BY <1>3 DEF Wake, Completed
  <2>2. RoundTypeOK'
        BY <1>1, <2>1 DEF RoundInv, RoundTypeOK
  <2>3. Submitted'
        BY <1>1, <2>1 DEF RoundInv, Submitted
  <2>4. Publishing' /\ Reporting'
        BY <1>1, <2>1 DEF RoundInv, Publishing, Reporting, CutShort
  <2> QED BY <1>2, <2>2, <2>3, <2>4 DEF RoundInv
<1>4. CASE CheckLeases
  <2>1. UNCHANGED batch /\ phase = "woken"
        BY <1>4 DEF CheckLeases
  <2>2. Submitted'
        BY <1>1, <2>1 DEF RoundInv, Submitted
  <2>3. CASE active \cap late = {}
    <3>1. phase' = "wait" /\ UNCHANGED report
          BY <1>4, <2>3 DEF CheckLeases
    <3>2. RoundTypeOK'
          BY <1>1, <2>1, <3>1 DEF RoundInv, RoundTypeOK
    <3>3. Publishing' /\ Reporting'
          BY <1>1, <2>1, <3>1 DEF RoundInv, Publishing, Reporting, CutShort
    <3> QED BY <1>2, <2>2, <3>2, <3>3 DEF RoundInv
  <2>4. CASE active \cap late # {}
    <3>1. PICK u \in active \cap late : report' = [report EXCEPT ![u] = "timeout"]
          BY <1>4, <2>4 DEF CheckLeases
    <3>2. phase' = "cancel"
          BY <1>4, <2>4 DEF CheckLeases
    <3>3. /\ report' \in [Unit -> {"none", "result", "error", "timeout"}]
          /\ u \in Unit /\ report'[u] = "timeout"
          /\ \A v \in Unit \ {u} : report'[v] = report[v]
          BY <3>1 DEF RoundInv, RoundTypeOK
    <3>4. RoundTypeOK'
          BY <1>1, <2>1, <3>2, <3>3 DEF RoundInv, RoundTypeOK
    <3>5. CutShort'
          BY <3>3 DEF CutShort
    <3>6. Publishing' /\ Reporting'
          BY <1>1, <2>1, <3>2, <3>3, <3>5 DEF RoundInv, Publishing, Reporting
    <3> QED BY <1>2, <2>2, <3>4, <3>6 DEF RoundInv
  <2> QED BY <2>3, <2>4
<1> QED BY <1>3, <1>4

\* The executor takes the results of what is done.
LEMMA ReapKeepsRound ==
  ASSUME RoundInv, Reap
  PROVE  RoundInv'
<1>1. /\ UNCHANGED <<kind, at, mode, late, refreshes, cancelled, pubLock, workers, isolate, queue>>
      /\ phase = "reap" /\ ~CutShort
      BY DEF Reap, threadVars, budgetVars, RoundInv, Reporting
<1>2. InProgram'
      BY <1>1 DEF RoundInv, InProgram, Scopes
<1>3. CASE batch = {} /\ phase' = AfterBatch /\ UNCHANGED <<active, batch, report, closed>>
  <2>1. phase' = "fill" /\ UNCHANGED <<active, batch, report, closed>>
        BY <1>3 DEF AfterBatch
  <2>2. RoundTypeOK' /\ Submitted'
        BY <1>1, <2>1 DEF RoundInv, RoundTypeOK, Submitted
  <2>3. Publishing' /\ Reporting'
        BY <1>1, <2>1 DEF RoundInv, Publishing, Reporting, CutShort
  <2> QED BY <1>2, <2>2, <2>3 DEF RoundInv
<1>4. ASSUME NEW u \in batch,
             batch' = batch \ {u} /\ active' = active \ {u},
             \/ /\ mode[u] = "done"
                /\ report' = [report EXCEPT ![u] = "result"]
                /\ closed' \in BOOLEAN
                /\ phase' = IF closed' THEN "cancel" ELSE "reap"
             \/ /\ mode[u] # "done"
                /\ report' = [report EXCEPT ![u] = "error"]
                /\ phase' = IF isolate THEN "reap" ELSE "cancel"
                /\ UNCHANGED closed
      PROVE  RoundInv'
  <2>1. /\ u \in Unit /\ mode[u] \in Settled /\ batch \subseteq Unit
        /\ closed = FALSE /\ isolate \in BOOLEAN
        BY <1>1, <1>4 DEF RoundInv, RoundTypeOK, Submitted, CutShort
  <2>2. /\ report' \in [Unit -> {"none", "result", "error", "timeout"}]
        /\ report'[u] \in {"result", "error"}
        /\ report'[u] = "result" => mode[u] = "done"
        /\ \A v \in Unit \ {u} : report'[v] = report[v]
        BY <1>4, <2>1 DEF RoundInv, RoundTypeOK
  <2>3. /\ phase' \in {"reap", "cancel"} /\ closed' \in BOOLEAN
        /\ CutShort' <=> phase' = "cancel"
    <3>1. CASE mode[u] = "done"
      <4>1. report'[u] = "result" /\ closed' \in BOOLEAN
              /\ phase' = IF closed' THEN "cancel" ELSE "reap"
            BY <1>4, <2>1, <3>1 DEF RoundInv, RoundTypeOK
      <4>2. ~(\E v \in Unit : report'[v] = "timeout" \/ (~isolate' /\ report'[v] = "error"))
            BY <1>1, <2>2, <4>1 DEF CutShort
      <4> QED BY <4>1, <4>2 DEF CutShort
    <3>2. CASE mode[u] # "done"
      <4>1. report'[u] = "error" /\ closed' = FALSE
              /\ phase' = IF isolate THEN "reap" ELSE "cancel"
            BY <1>4, <2>1, <3>2 DEF RoundInv, RoundTypeOK
      <4>2. (\E v \in Unit : report'[v] = "timeout" \/ (~isolate' /\ report'[v] = "error"))
              <=> ~isolate
            BY <1>1, <2>1, <2>2, <4>1 DEF CutShort
      <4> QED BY <2>1, <4>1, <4>2 DEF CutShort
    <3> QED BY <3>1, <3>2
  <2>4. RoundTypeOK'
        BY <1>1, <1>4, <2>2, <2>3 DEF RoundInv, RoundTypeOK
  <2>5. Submitted'
    <3>1. IsFiniteSet(active) /\ Cardinality(active) <= workers /\ workers \in Nat
          BY DEF RoundInv, RoundTypeOK, Submitted
    <3>2. IsFiniteSet(active') /\ Cardinality(active') <= Cardinality(active)
          BY <1>4, <3>1, FS_Subset
    <3>3. Cardinality(active) \in Nat /\ Cardinality(active') \in Nat
          BY <3>1, <3>2, FS_CardinalityType
    <3>4. Cardinality(active') <= workers'
          BY <1>1, <3>1, <3>2, <3>3
    <3> QED BY <1>1, <1>4, <3>2, <3>4 DEF RoundInv, Submitted
  <2>6. Publishing'
        BY <1>1, <1>4, <2>1, <2>3 DEF RoundInv, Publishing
  <2>7. Reporting'
    <3>1. ASSUME NEW v \in Unit, report'[v] = "none"
          PROVE  v \in active' \/ \E i \in 1 .. Len(queue') : queue'[i] = v
      <4>1. v # u /\ report[v] = "none"
            BY <2>2, <3>1
      <4>2. v \in active \/ \E i \in 1 .. Len(queue) : queue[i] = v
            BY <1>1, <4>1 DEF RoundInv, Reporting
      <4> QED BY <1>1, <1>4, <4>1, <4>2
    <3>2. \A v \in Unit : report'[v] = "result" => mode'[v] = "done" /\ v \notin active'
          BY <1>1, <1>4, <2>2 DEF RoundInv, Reporting
    <3> QED BY <2>3, <3>1, <3>2 DEF Reporting
  <2> QED BY <1>2, <2>4, <2>5, <2>6, <2>7 DEF RoundInv
<1> QED BY <1>3, <1>4 DEF Reap

\* The executor cancels a unit.
LEMMA CancelKeepsRound ==
  ASSUME RoundInv, Cancel
  PROVE  RoundInv'
<1> USE UnitThreads
<1>1. /\ UNCHANGED <<kind, at, late, refreshes, pubLock, workers, isolate, queue, report, closed>>
      /\ phase = "cancel" /\ CutShort /\ CutShort'
      /\ phase' \in {"cancel", "ended"} /\ (phase' = "ended" => active' = {})
      BY DEF Cancel, threadVars, Stay, RoundInv, Reporting, CutShort
<1>2. CASE active = {}
  <2>1. UNCHANGED <<mode, cancelled, active, batch>>
        BY <1>2 DEF Cancel, threadVars
  <2>2. RoundTypeOK' /\ InProgram' /\ Submitted'
        BY <1>1, <2>1 DEF RoundInv, RoundTypeOK, InProgram, Submitted, Scopes
  <2>3. Publishing' /\ Reporting'
        BY <1>1, <2>1 DEF RoundInv, Publishing, Reporting
  <2> QED BY <2>2, <2>3 DEF RoundInv
<1>3. ASSUME NEW u \in active, MayCancel(u), cancelled' = cancelled \cup {u},
             active' = active \ {u} /\ batch' = batch \ {u},
             Stay(u, IF mode[u] = "queued" THEN "dropped" ELSE mode[u])
      PROVE  RoundInv'
  <2>1. /\ u \in Unit /\ pubLock[u] = Null /\ batch \subseteq Unit /\ active \subseteq Unit
        /\ queue \in Seq(Unit)
        BY <1>3 DEF RoundInv, RoundTypeOK, MayCancel
  <2>2. /\ mode'[u] = mode[u] \/ (mode[u] = "queued" /\ mode'[u] = "dropped")
        /\ \A o \in Thread \ {u} : mode'[o] = mode[o]
        /\ mode' \in [Thread -> Modes]
        /\ \A o \in Thread : Scopes(o)' = Scopes(o)
        BY <1>1, <1>3, <2>1 DEF RoundInv, RoundTypeOK, Modes, Settled, Stay, To, Scopes
  <2>3. RoundTypeOK'
        BY <1>1, <1>3, <2>1, <2>2 DEF RoundInv, RoundTypeOK
  <2>4. InProgram'
        BY <1>1, <2>1, <2>2 DEF RoundInv, InProgram, Settled
  <2>5. Submitted'
    <3>1. IsFiniteSet(active) /\ Cardinality(active) <= workers /\ workers \in Nat
          BY DEF RoundInv, RoundTypeOK, Submitted
    <3>2. IsFiniteSet(active') /\ Cardinality(active') <= Cardinality(active)
          BY <1>3, <3>1, FS_Subset
    <3>3. Cardinality(active) \in Nat /\ Cardinality(active') \in Nat
          BY <3>1, <3>2, FS_CardinalityType
    <3>4. Cardinality(active') <= workers'
          BY <1>1, <3>1, <3>2, <3>3
    <3>5. \A v \in batch' : mode'[v] \in Settled
          BY <1>3, <2>1, <2>2 DEF RoundInv, Submitted
    <3>6. \A i \in 1 .. Len(queue') : mode'[queue'[i]] = "item" /\ queue'[i] \notin active'
          BY <1>1, <1>3, <2>1, <2>2 DEF RoundInv, Submitted
    <3> QED BY <1>1, <3>2, <3>4, <3>5, <3>6 DEF RoundInv, Submitted
  <2>6. Publishing'
    <3>1. \A v \in Unit : mode'[v] = "write" => v # u
          BY <2>1, <2>2 DEF RoundInv, Publishing
    <3> QED BY <1>1, <1>3, <2>1, <2>2, <3>1 DEF RoundInv, Publishing, Settled
  <2>7. Reporting'
        BY <1>1, <1>3, <2>1, <2>2 DEF RoundInv, Reporting
  <2> QED BY <2>3, <2>4, <2>5, <2>6, <2>7 DEF RoundInv
<1> QED BY <1>2, <1>3 DEF Cancel

\* The round invariant is inductive.
LEMMA RoundStep == RoundInv /\ [Next]_vars => RoundInv'
<1> SUFFICES ASSUME RoundInv, [Next]_vars PROVE RoundInv'
    OBVIOUS
<1>1. ASSUME NEW t \in Thread, Use(t) \/ Inferred(t) \/ Start(t) \/ GiveUp(t)
      PROVE  RoundInv'
      BY <1>1, ThreadMoves, MoveKeepsRound
<1>2. CASE UNCHANGED vars
      BY <1>2 DEF vars, threadVars, budgetVars, schedVars, RoundInv, RoundTypeOK, InProgram,
                  Scopes, Submitted, Publishing, Reporting, CutShort
<1> QED BY <1>1, <1>2, UnitThreads, PublicationKeepsRound, LeaseKeepsRound, FillKeepsRound,
           WakeKeepsRound, ReapKeepsRound, CancelKeepsRound
        DEF Next, Unwind, Scheduler

\* The invariant of the round, for every behaviour.
THEOREM RoundInvariant == Spec => []RoundInv
<1>1. Init => RoundInv
      BY RoundInit
<1>2. RoundInv /\ [Next]_vars => RoundInv'
      BY RoundStep
<1> QED BY <1>1, <1>2, PTL DEF Spec

\* model_execution_publication and cancel(): nothing is written under a cancelled budget,
\* nor after the round is over, for any number of units and any interleaving.
THEOREM LatePublicationExcluded == Spec => []NoLatePublication
<1>1. RoundInv => NoLatePublication
  <2> SUFFICES ASSUME RoundInv, NEW u \in Unit, mode[u] = "write"
               PROVE  ~(Chain(u) \cap cancelled # {}) /\ phase # "ended"
      BY DEF NoLatePublication
  <2>1. u \notin cancelled /\ Outer \notin cancelled /\ u \in active \cup cancelled
        BY DEF RoundInv, Publishing, Settled
  <2>2. phase # "ended"
        BY <2>1 DEF RoundInv, Publishing
  <2> QED BY <2>1, <2>2 DEF Chain
<1> QED BY <1>1, RoundInvariant, PTL

\* iter_completed_with_deadlines: a round that is over has reported every unit unless it
\* was cut short, and reports as a result only what was published.
THEOREM RoundLosesNothing == Spec => []NothingLost
<1>1. RoundInv => NothingLost
  <2> SUFFICES ASSUME RoundInv PROVE NothingLost
      OBVIOUS
  <2>1. \A u \in Unit : report[u] = "result" => mode[u] = "done"
        BY DEF RoundInv, Reporting
  <2>2. ASSUME phase = "ended", ~CutShort
        PROVE  \A u \in Unit : report[u] # "none"
    <3>1. active = {} /\ queue = <<>> /\ Len(queue) = 0
          BY <2>2 DEF RoundInv, Publishing, Reporting
    <3> QED BY <2>2, <3>1 DEF RoundInv, Reporting
  <2> QED BY <2>1, <2>2 DEF NothingLost, CutShort
<1> QED BY <1>1, RoundInvariant, PTL

-----------------------------------------------------------------------------
(* The gate and the lock                                                   *)

\* How often a scope occurs among the first n of a program.
Count(P, n, s) == Cardinality({i \in 1 .. n : P[i] = s})

\* Counting the scopes of a kind among the first n, one by one.
LEMMA CountingScopes ==
  ASSUME NEW P, NEW n \in Nat, NEW s
  PROVE  /\ Count(P, n, s) \in Nat
         /\ Count(P, n, s) > 0 <=> \E i \in 1 .. n : P[i] = s
         /\ Count(P, n + 1, s) = Count(P, n, s) + IF P[n + 1] = s THEN 1 ELSE 0
<1> DEFINE C == {i \in 1 .. n : P[i] = s}
           D == {i \in 1 .. n + 1 : P[i] = s}
<1>1. IsFiniteSet(C)
  <2>1. IsFiniteSet(1 .. n) /\ C \in SUBSET (1 .. n)
        BY FS_Interval
  <2> QED BY <2>1, FS_Subset
<1>2. Cardinality(C) \in Nat /\ (Cardinality(C) = 0 <=> C = {})
      BY <1>1, FS_CardinalityType, FS_EmptySet
<1>3. Cardinality(D) = Cardinality(C) + IF P[n + 1] = s THEN 1 ELSE 0
  <2>1. CASE P[n + 1] = s
    <3>1. D = C \cup {n + 1} /\ n + 1 \notin C
          BY <2>1
    <3> HIDE DEF C, D
    <3> QED BY <1>1, <2>1, <3>1, FS_AddElement
  <2>2. CASE P[n + 1] # s
    <3>1. D = C
          BY <2>2
    <3> HIDE DEF C, D
    <3> QED BY <1>2, <2>2, <3>1
  <2> QED BY <2>1, <2>2
<1>4. Cardinality(C) > 0 <=> \E i \in 1 .. n : P[i] = s
      BY <1>2
<1> QED BY <1>2, <1>3, <1>4 DEF Count

\* What entering or leaving a scope does to the scopes a thread is in.
LEMMA EnteredScopes ==
  ASSUME RoundInv, NEW t \in Thread, NEW s \in Scope
  PROVE  /\ Entered(t, s) \in Nat
         /\ Entered(t, s) > 0 <=> \E i \in 1 .. at[t] : Scopes(t)[i] = s
         /\ kind' = kind /\ at'[t] = at[t] => Entered(t, s)' = Entered(t, s)
         /\ kind' = kind /\ at'[t] = at[t] + 1 =>
              Entered(t, s)' = Entered(t, s) + IF NextScope(t) = s THEN 1 ELSE 0
         /\ kind' = kind /\ at[t] > 0 /\ at'[t] = at[t] - 1 =>
              Entered(t, s)' = Entered(t, s) - IF Scopes(t)[at[t]] = s THEN 1 ELSE 0
<1>1. at[t] \in Nat
      BY DEF RoundInv, RoundTypeOK
<1>2. Entered(t, s) = Count(Scopes(t), at[t], s)
      BY DEF Entered, Count
<1>3. kind' = kind => Entered(t, s)' = Count(Scopes(t), at'[t], s)
      BY DEF Entered, Count, Scopes
<1>4. /\ Count(Scopes(t), at[t], s) \in Nat
      /\ Count(Scopes(t), at[t], s) > 0 <=> \E i \in 1 .. at[t] : Scopes(t)[i] = s
      /\ Count(Scopes(t), at[t] + 1, s)
           = Count(Scopes(t), at[t], s) + IF Scopes(t)[at[t] + 1] = s THEN 1 ELSE 0
      BY <1>1, CountingScopes
<1>5. ASSUME kind' = kind, at[t] > 0, at'[t] = at[t] - 1
      PROVE  Entered(t, s)' = Entered(t, s) - IF Scopes(t)[at[t]] = s THEN 1 ELSE 0
  <2>1. PICK n \in Nat : at'[t] = n /\ at[t] = n + 1
        BY <1>1, <1>5
  <2>2. /\ Count(Scopes(t), n, s) \in Nat
        /\ Count(Scopes(t), n + 1, s)
             = Count(Scopes(t), n, s) + IF Scopes(t)[n + 1] = s THEN 1 ELSE 0
        BY CountingScopes
  <2> QED BY <1>2, <1>3, <1>5, <2>1, <2>2
<1> QED BY <1>2, <1>3, <1>4, <1>5 DEF NextScope

\* The claims of one thread (a conjunct of ClaimsMatch).
Claims(t) ==
  /\ slots[t] = Entered(t, "slot")
  /\ readers[t] + suspended[t] + upgrading[t] = Entered(t, "read")
  /\ (IF writer = t THEN depth ELSE 0) = Entered(t, "write")
  /\ upgrading[t] > 0 => WaitsToWrite(t)
  /\ suspended[t] > 0 => writer = t

Waiters == {t \in Thread : WaitsToWrite(t)}

\* The counters are the scopes, and beside a writer only a thread that gave up has a
\* read claim.
ClaimInv ==
  /\ GateTypeOK
  /\ \A t \in Thread : Claims(t)
  /\ writer # Null => depth > 0
  /\ IsFiniteSet(Waiters) /\ waiting = Cardinality(Waiters)
  /\ \A o \in Thread : writer \notin {Null, o} /\ readers[o] > 0 => mode[o] = "back"

\* Nobody claims anything at first.
LEMMA ClaimInit == Init => ClaimInv
<1> SUFFICES ASSUME Init PROVE ClaimInv
    OBVIOUS
<1>0. RoundInv
      BY RoundInit
<1>1. GateTypeOK
  <2>1. /\ writer = Null /\ depth = 0 /\ waiting = 0
        /\ {readers, suspended, upgrading, slots} = {[t \in Thread |-> 0]}
        /\ capacity \in 1 .. Slots /\ lockAsleep = {} /\ gateAsleep = {}
        BY DEF Init, GateInit
  <2> QED BY <2>1 DEF GateTypeOK
<1>2. \A t \in Thread, s \in Scope : Entered(t, s) = 0
  <2> SUFFICES ASSUME NEW t \in Thread, NEW s \in Scope PROVE Entered(t, s) = 0
      OBVIOUS
  <2>1. at[t] = 0
        BY DEF Init
  <2> QED BY <1>0, <2>1, EnteredScopes
<1>3. \A t \in Thread : Claims(t)
      BY <1>2, GateAssumption DEF Init, GateInit, Claims, Scope
<1>4. Waiters = {}
      BY DEF Waiters, WaitsToWrite, Init
<1>5. IsFiniteSet(Waiters) /\ waiting = Cardinality(Waiters)
      BY <1>4, FS_EmptySet DEF Init, GateInit
<1> QED BY <1>1, <1>3, <1>5 DEF ClaimInv, Init, GateInit

\* Only t goes on.
Only(t) ==
  /\ kind' = kind
  /\ \A o \in Thread \ {t} : mode'[o] = mode[o] /\ at'[o] = at[o]

\* What a step of t does to the scopes of the others and to the threads waiting to write.
LEMMA OnlyOne ==
  ASSUME RoundInv, ClaimInv, NEW t \in Thread, Only(t)
  PROVE  /\ \A o \in Thread \ {t} :
              /\ WaitsToWrite(o)' <=> WaitsToWrite(o)
              /\ \A s \in Scope : Entered(o, s)' = Entered(o, s)
         /\ IsFiniteSet(Waiters')
         /\ (WaitsToWrite(t)' <=> WaitsToWrite(t)) => Cardinality(Waiters') = waiting
         /\ WaitsToWrite(t)' /\ ~WaitsToWrite(t) => Cardinality(Waiters') = waiting + 1
         /\ WaitsToWrite(t) => waiting > 0
         /\ ~WaitsToWrite(t)' /\ WaitsToWrite(t) => Cardinality(Waiters') = waiting - 1
<1>1. \A o \in Thread \ {t} : WaitsToWrite(o)' <=> WaitsToWrite(o)
      BY DEF Only, WaitsToWrite, NextScope, Scopes
<1>2. \A o \in Thread \ {t}, s \in Scope : Entered(o, s)' = Entered(o, s)
      BY EnteredScopes DEF Only
<1>3. Waiters' = IF WaitsToWrite(t)' THEN Waiters \cup {t} ELSE Waiters \ {t}
      BY <1>1 DEF Waiters
<1>4. IsFiniteSet(Waiters) /\ waiting = Cardinality(Waiters) /\ waiting \in Nat
      BY DEF ClaimInv, GateTypeOK
<1>5. t \in Waiters <=> WaitsToWrite(t)
      BY DEF Waiters
<1>6. /\ IsFiniteSet(Waiters \cup {t}) /\ IsFiniteSet(Waiters \ {t})
      /\ Cardinality(Waiters \cup {t}) = IF t \in Waiters THEN waiting ELSE waiting + 1
      /\ Cardinality(Waiters \ {t}) = IF t \in Waiters THEN waiting - 1 ELSE waiting
      BY <1>4, FS_AddElement, FS_RemoveElement
<1>7. t \in Waiters => waiting > 0
      BY <1>4, FS_EmptySet
<1> QED BY <1>1, <1>2, <1>3, <1>5, <1>6, <1>7

\* A step that leaves the counters of the gate and of the lock alone.
LEMMA QuietKeepsClaims ==
  ASSUME RoundInv, ClaimInv,
         UNCHANGED <<writer, depth, readers, suspended, waiting, upgrading, capacity, slots,
                     kind, at>>,
         lockAsleep' \subseteq Thread \ Budgeted, gateAsleep' \subseteq Thread \ Budgeted,
         \A o \in Thread : /\ WaitsToWrite(o)' <=> WaitsToWrite(o)
                           /\ mode[o] = "back" => mode'[o] = "back" \/ at[o] = 0
  PROVE  ClaimInv'
<1>1. \A o \in Thread : WaitsToWrite(o)' <=> WaitsToWrite(o)
      OBVIOUS
<1>2. Waiters' = Waiters
      BY <1>1 DEF Waiters
<1>3. \A o \in Thread, s \in Scope : Entered(o, s)' = Entered(o, s)
      BY EnteredScopes
<1>4. \A o \in Thread : Claims(o)'
      BY <1>1, <1>3 DEF ClaimInv, Claims, Scope
<1>5. GateTypeOK'
      BY DEF ClaimInv, GateTypeOK
<1>6. ASSUME NEW o \in Thread, at[o] = 0, readers[o] > 0
      PROVE  FALSE
  <2>1. Entered(o, "read") = 0
        BY <1>6, EnteredScopes DEF Scope
  <2>2. readers[o] \in Nat /\ suspended[o] \in Nat /\ upgrading[o] \in Nat
        BY DEF ClaimInv, GateTypeOK
  <2> QED BY <1>6, <2>1, <2>2 DEF ClaimInv, Claims
<1> QED BY <1>2, <1>4, <1>5, <1>6 DEF ClaimInv

\* The types of the counters, one by one.
LEMMA Counters ==
  ASSUME ClaimInv
  PROVE  /\ writer \in Thread \cup {Null} /\ Null \notin Thread
         /\ depth \in Nat /\ waiting \in Nat /\ capacity \in 1 .. Slots
         /\ readers \in [Thread -> Nat] /\ suspended \in [Thread -> Nat]
         /\ upgrading \in [Thread -> Nat] /\ slots \in [Thread -> Nat]
         /\ lockAsleep \subseteq Thread \ Budgeted /\ gateAsleep \subseteq Thread \ Budgeted
BY GateAssumption DEF ClaimInv, GateTypeOK

\* A slot is taken or given back.
LEMMA SlotKeepsClaims ==
  ASSUME RoundInv, ClaimInv, NEW t \in Thread, Only(t), UNCHANGED lockVars,
         mode'[t] # "wait", mode[t] = "back" => mode'[t] = "back" \/ at'[t] = 0,
         \/ /\ SlotNow(t) /\ at'[t] = at[t] + 1 /\ NextScope(t) = "slot"
         \/ /\ SlotRelease(t) /\ at[t] > 0 /\ at'[t] = at[t] - 1 /\ Scopes(t)[at[t]] = "slot"
            /\ mode[t] # "wait"
  PROVE  ClaimInv'
<1> USE Counters
<1>1. UNCHANGED <<writer, depth, readers, suspended, waiting, upgrading, lockAsleep, capacity>>
      BY DEF lockVars, SlotNow, SlotRelease
<1>2. ~WaitsToWrite(t) /\ ~WaitsToWrite(t)'
      BY DEF WaitsToWrite
<1>3. /\ Entered(t, "read")' = Entered(t, "read") /\ Entered(t, "write")' = Entered(t, "write")
      /\ Entered(t, "slot") \in Nat /\ Entered(t, "slot")' \in Nat
      /\ SlotNow(t) /\ at'[t] = at[t] + 1 => Entered(t, "slot")' = Entered(t, "slot") + 1
      /\ at[t] > 0 /\ at'[t] = at[t] - 1 /\ Scopes(t)[at[t]] = "slot" =>
           Entered(t, "slot")' = Entered(t, "slot") - 1
  <2>1. at[t] \in Nat
        BY DEF RoundInv, RoundTypeOK
  <2>2. CASE at'[t] = at[t] + 1 /\ NextScope(t) = "slot"
    <3>1. ~(at[t] > 0 /\ at'[t] = at[t] - 1)
          BY <2>1, <2>2
    <3> QED BY <2>2, <3>1, EnteredScopes DEF Scope, Only
  <2>3. CASE at[t] > 0 /\ at'[t] = at[t] - 1 /\ Scopes(t)[at[t]] = "slot"
    <3>1. at'[t] # at[t] + 1 /\ at[t] \in 1 .. at[t]
          BY <2>1, <2>3
    <3>2. Entered(t, "slot") > 0
          BY <2>3, <3>1, EnteredScopes DEF Scope
    <3> QED BY <2>3, <3>1, <3>2, EnteredScopes DEF Scope, Only
  <2> QED BY <2>2, <2>3
<1>4. slots' \in [Thread -> Nat] /\ slots'[t] = Entered(t, "slot")'
        /\ \A o \in Thread \ {t} : slots'[o] = slots[o]
  <2>1. slots[t] = Entered(t, "slot")
        BY DEF ClaimInv, Claims
  <2>2. CASE SlotNow(t) /\ at'[t] = at[t] + 1
    <3>1. slots' = [slots EXCEPT ![t] = slots[t] + 1]
          BY <2>2 DEF SlotNow, SetSlots
    <3> QED BY <1>3, <2>1, <2>2, <3>1
  <2>3. CASE SlotRelease(t) /\ at[t] > 0 /\ at'[t] = at[t] - 1 /\ Scopes(t)[at[t]] = "slot"
    <3>1. slots' = [slots EXCEPT ![t] = slots[t] - 1]
          BY <2>3 DEF SlotRelease, SetSlots
    <3> QED BY <1>3, <2>1, <2>3, <3>1
  <2> QED BY <2>2, <2>3
<1>5. GateTypeOK'
  <2>1. gateAsleep' \subseteq Thread \ Budgeted
        BY DEF SlotNow, SlotRelease, Woken
  <2> QED BY <1>1, <1>4, <2>1 DEF GateTypeOK
<1>6. \A o \in Thread : Claims(o)'
  <2>1. Claims(t)'
        BY <1>1, <1>2, <1>3, <1>4 DEF ClaimInv, Claims
  <2>2. \A o \in Thread \ {t} : Claims(o)'
        BY <1>1, <1>4, OnlyOne DEF ClaimInv, Claims, Scope
  <2> QED BY <2>1, <2>2
<1>7. IsFiniteSet(Waiters') /\ waiting' = Cardinality(Waiters')
      BY <1>1, <1>2, OnlyOne
<1>8. at'[t] = 0 => readers'[t] = 0
  <2> SUFFICES ASSUME at'[t] = 0 PROVE readers'[t] = 0
      OBVIOUS
  <2>1. Entered(t, "read")' = 0
    <3>1. {i \in 1 .. at'[t] : Scopes(t)'[i] = "read"} = {}
          OBVIOUS
    <3> QED BY <3>1, FS_EmptySet DEF Entered
  <2> QED BY <1>1, <1>6, <2>1 DEF Claims
<1>9. \A o \in Thread : writer' \notin {Null, o} /\ readers'[o] > 0 => mode'[o] = "back"
      BY <1>1, <1>8 DEF ClaimInv, Only
<1> QED BY <1>1, <1>5, <1>6, <1>7, <1>9 DEF ClaimInv

\* Where a thread leaves a read claim it has one to leave: it is not the writer.
LEMMA ReadHeld ==
  ASSUME RoundInv, ClaimInv, NEW t \in Thread, mode[t] # "wait",
         at[t] > 0, Scopes(t)[at[t]] = "read"
  PROVE  readers[t] > 0 /\ suspended[t] = 0 /\ upgrading[t] = 0 /\ writer # t
<1> USE Counters
<1>1. /\ at[t] \in Nat /\ at[t] <= Len(Scopes(t)) /\ kind[t] \in Kinds
      BY DEF RoundInv, RoundTypeOK, InProgram
<1>2. Entered(t, "write") = 0
  <2> SUFFICES ASSUME NEW i \in 1 .. at[t], Scopes(t)[i] = "write"
               PROVE  FALSE
      BY EnteredScopes DEF Scope
  <2>1. i # at[t]
        OBVIOUS
  <2>2. Len(Scopes(t)) \in Nat
        BY <1>1, Programs DEF Scopes
  <2>3. i < at[t] /\ i \in 1 .. Len(Scopes(t)) /\ at[t] \in 1 .. Len(Scopes(t))
        BY <1>1, <2>1, <2>2, SMTT(30)
  <2> QED BY <1>1, <2>3, Programs DEF Scopes
<1>3. writer # t /\ suspended[t] = 0
      BY <1>2 DEF ClaimInv, Claims
<1>4. upgrading[t] = 0
      BY DEF ClaimInv, Claims, WaitsToWrite
<1>5. Entered(t, "read") > 0
  <2>1. at[t] \in 1 .. at[t]
        BY <1>1
  <2> QED BY <2>1, EnteredScopes DEF Scope
<1> QED BY <1>3, <1>4, <1>5 DEF ClaimInv, Claims

\* A read scope is entered or left without a change of the gate.
LEMMA ReadKeepsClaims ==
  ASSUME RoundInv, ClaimInv, NEW t \in Thread, Only(t), UNCHANGED gateVars,
         mode'[t] # "wait",
         \/ /\ ReadNow(t) /\ at'[t] = at[t] + 1 /\ NextScope(t) = "read" /\ mode[t] # "back"
         \/ /\ ReadRelease(t) /\ at[t] > 0 /\ at'[t] = at[t] - 1 /\ Scopes(t)[at[t]] = "read"
            /\ mode[t] # "wait" /\ (mode[t] = "back" => mode'[t] = "back" \/ at'[t] = 0)
  PROVE  ClaimInv'
<1> USE Counters
<1>1. UNCHANGED <<writer, depth, suspended, waiting, upgrading, slots, capacity, gateAsleep>>
      BY DEF gateVars, ReadNow, ReadRelease
<1>2. ~WaitsToWrite(t) /\ ~WaitsToWrite(t)'
      BY DEF WaitsToWrite
<1>3. /\ Entered(t, "slot")' = Entered(t, "slot") /\ Entered(t, "write")' = Entered(t, "write")
      /\ readers' \in [Thread -> Nat]
      /\ \A o \in Thread \ {t} : readers'[o] = readers[o]
      /\ readers'[t] + suspended[t] + upgrading[t] = Entered(t, "read")'
  <2>1. at[t] \in Nat
        BY DEF RoundInv, RoundTypeOK
  <2>2. readers[t] + suspended[t] + upgrading[t] = Entered(t, "read")
        BY DEF ClaimInv, Claims
  <2>3. CASE ReadNow(t) /\ at'[t] = at[t] + 1 /\ NextScope(t) = "read"
    <3>1. /\ Entered(t, "slot")' = Entered(t, "slot") /\ Entered(t, "write")' = Entered(t, "write")
          /\ Entered(t, "read")' = Entered(t, "read") + 1
          BY <2>3, EnteredScopes DEF Scope, Only
    <3>2. readers' = [readers EXCEPT ![t] = readers[t] + 1]
          BY <2>3 DEF ReadNow, SetReads
    <3> QED BY <2>2, <3>1, <3>2
  <2>4. CASE /\ ReadRelease(t) /\ at[t] > 0 /\ at'[t] = at[t] - 1 /\ Scopes(t)[at[t]] = "read"
             /\ mode[t] # "wait"
    <3>1. /\ Entered(t, "slot")' = Entered(t, "slot") /\ Entered(t, "write")' = Entered(t, "write")
          /\ Entered(t, "read")' = Entered(t, "read") - 1 /\ Entered(t, "read") \in Nat
          BY <2>4, EnteredScopes DEF Scope, Only
    <3>2. readers' = [readers EXCEPT ![t] = readers[t] - 1] /\ readers[t] > 0
          BY <2>4, ReadHeld DEF ReadRelease, SetReads
    <3> QED BY <2>2, <3>1, <3>2
  <2> QED BY <2>3, <2>4
<1>4. GateTypeOK'
  <2>1. lockAsleep' \subseteq Thread \ Budgeted
        BY DEF ReadNow, ReadRelease
  <2> QED BY <1>1, <1>3, <2>1 DEF GateTypeOK
<1>5. \A o \in Thread : Claims(o)'
  <2>1. Claims(t)'
        BY <1>1, <1>2, <1>3 DEF ClaimInv, Claims
  <2>2. \A o \in Thread \ {t} : Claims(o)'
        BY <1>1, <1>3, OnlyOne DEF ClaimInv, Claims, Scope
  <2> QED BY <2>1, <2>2
<1>6. IsFiniteSet(Waiters') /\ waiting' = Cardinality(Waiters')
      BY <1>1, <1>2, OnlyOne
<1>7. at'[t] = 0 => readers'[t] = 0
  <2> SUFFICES ASSUME at'[t] = 0 PROVE readers'[t] = 0
      OBVIOUS
  <2>1. Entered(t, "read")' = 0
    <3>1. {i \in 1 .. at'[t] : Scopes(t)'[i] = "read"} = {}
          OBVIOUS
    <3> QED BY <3>1, FS_EmptySet DEF Entered
  <2> QED BY <1>1, <1>3, <1>5, <2>1 DEF Claims
<1>8. \A o \in Thread : writer' \notin {Null, o} /\ readers'[o] > 0 => mode'[o] = "back"
  <2>1. \A o \in Thread \ {t} : writer' \notin {Null, o} /\ readers'[o] > 0 => mode'[o] = "back"
        BY <1>1, <1>3 DEF ClaimInv, Only
  <2>2. CASE ReadNow(t)
        BY <1>1, <2>1, <2>2 DEF ReadNow, MayRead
  <2>3. CASE /\ ReadRelease(t) /\ (mode[t] = "back" => mode'[t] = "back" \/ at'[t] = 0)
             /\ readers[t] > 0
        BY <1>1, <1>7, <2>1, <2>3 DEF ClaimInv
  <2> QED BY <2>2, <2>3, ReadHeld
<1> QED BY <1>1, <1>4, <1>5, <1>6, <1>8 DEF ClaimInv

\* The write lock is taken, at once or after a wait, with the upgrade of a read claim.
LEMMA WriteKeepsClaims ==
  ASSUME RoundInv, ClaimInv, NEW t \in Thread, Only(t), UNCHANGED gateVars,
         at'[t] = at[t] + 1, NextScope(t) = "write", mode'[t] = "go",
         (mode[t] = "go" /\ WriteNow(t)) \/ (mode[t] = "wait" /\ WriteGranted(t))
  PROVE  ClaimInv'
<1> USE Counters
<1>1. UNCHANGED <<slots, capacity, gateAsleep>>
      BY DEF gateVars
<1>2. /\ Entered(t, "slot")' = Entered(t, "slot") /\ Entered(t, "read")' = Entered(t, "read")
      /\ Entered(t, "write")' = Entered(t, "write") + 1
      /\ \A s \in Scope : Entered(t, s) \in Nat
      BY EnteredScopes DEF Scope, Only
<1>3. Claims(t) /\ \A o \in Thread : Claims(o)
      BY DEF ClaimInv
<1>4. ~WaitsToWrite(t)' /\ (WaitsToWrite(t) <=> mode[t] = "wait")
      BY DEF WaitsToWrite
<1>5. CASE mode[t] = "go" /\ WriteNow(t) /\ writer = t
  <2>1. /\ depth' = depth + 1
        /\ UNCHANGED <<writer, readers, suspended, waiting, upgrading, lockAsleep>>
        BY <1>5 DEF WriteNow
  <2>2. GateTypeOK'
        BY <1>1, <2>1 DEF GateTypeOK
  <2>3. Claims(t)'
        BY <1>1, <1>2, <1>3, <1>4, <1>5, <2>1 DEF Claims
  <2>4. \A o \in Thread \ {t} : Claims(o)'
        BY <1>1, <1>3, <1>5, <2>1, OnlyOne DEF Claims, Scope
  <2>5. IsFiniteSet(Waiters') /\ waiting' = Cardinality(Waiters')
        BY <1>4, <1>5, <2>1, OnlyOne
  <2>6. \A o \in Thread : writer' \notin {Null, o} /\ readers'[o] > 0 => mode'[o] = "back"
        BY <1>5, <2>1 DEF ClaimInv, Only
  <2> QED BY <2>1, <2>2, <2>3, <2>4, <2>5, <2>6 DEF ClaimInv
<1>6. CASE mode[t] = "go" /\ WriteNow(t) /\ writer # t
  <2>1. /\ writer = Null /\ writer' = t /\ depth' = 1
        /\ readers' = [readers EXCEPT ![t] = 0]
        /\ suspended' = [suspended EXCEPT ![t] = suspended[t] + readers[t]]
        /\ \A o \in Thread \ {t} : readers[o] = 0
        /\ lockAsleep' \subseteq lockAsleep
        /\ UNCHANGED <<waiting, upgrading>>
        BY <1>6 DEF WriteNow, MayWrite, NobodyReads, GivenUp, Own
  <2>2. /\ readers' \in [Thread -> Nat] /\ suspended' \in [Thread -> Nat]
        /\ readers'[t] = 0 /\ suspended'[t] = suspended[t] + readers[t]
        /\ \A o \in Thread \ {t} : readers'[o] = 0 /\ suspended'[o] = suspended[o]
        BY <2>1
  <2>3. GateTypeOK'
        BY <1>1, <2>1, <2>2 DEF GateTypeOK
  <2>4. Claims(t)'
        BY <1>1, <1>2, <1>3, <1>4, <1>6, <2>1, <2>2 DEF Claims
  <2>5. \A o \in Thread \ {t} : Claims(o)'
        BY <1>1, <1>3, <2>1, <2>2, OnlyOne DEF Claims, Scope
  <2>6. IsFiniteSet(Waiters') /\ waiting' = Cardinality(Waiters')
        BY <1>4, <1>6, <2>1, OnlyOne
  <2> QED BY <2>1, <2>2, <2>3, <2>4, <2>5, <2>6 DEF ClaimInv
<1>7. CASE mode[t] = "wait" /\ WriteGranted(t)
  <2>1. /\ writer = Null /\ writer' = t /\ depth' = 1
        /\ suspended' = [suspended EXCEPT ![t] = suspended[t] + upgrading[t]]
        /\ upgrading' = [upgrading EXCEPT ![t] = 0]
        /\ \A o \in Thread : readers[o] = 0
        /\ waiting' = waiting - 1
        /\ UNCHANGED <<readers, lockAsleep>>
        BY <1>7 DEF WriteGranted, MayWrite, NobodyReads, Own
  <2>2. /\ upgrading' \in [Thread -> Nat] /\ suspended' \in [Thread -> Nat]
        /\ upgrading'[t] = 0 /\ suspended'[t] = suspended[t] + upgrading[t]
        /\ \A o \in Thread \ {t} : upgrading'[o] = upgrading[o] /\ suspended'[o] = suspended[o]
        BY <2>1
  <2>3. waiting' \in Nat /\ IsFiniteSet(Waiters') /\ waiting' = Cardinality(Waiters')
        BY <1>4, <1>7, <2>1, OnlyOne
  <2>4. GateTypeOK'
        BY <1>1, <2>1, <2>2, <2>3 DEF GateTypeOK
  <2>5. Claims(t)'
        BY <1>1, <1>2, <1>3, <1>4, <1>7, <2>1, <2>2 DEF Claims
  <2>6. \A o \in Thread \ {t} : Claims(o)'
        BY <1>1, <1>3, <2>1, <2>2, OnlyOne DEF Claims, Scope
  <2> QED BY <2>1, <2>3, <2>4, <2>5, <2>6 DEF ClaimInv
<1> QED BY <1>5, <1>6, <1>7

\* The write lock is left, and the suspended read claim comes back.
LEMMA WriteReleaseKeepsClaims ==
  ASSUME RoundInv, ClaimInv, NEW t \in Thread, Only(t), UNCHANGED gateVars,
         at[t] > 0, at'[t] = at[t] - 1, Scopes(t)[at[t]] = "write",
         mode[t] # "wait", mode'[t] # "wait", WriteRelease(t)
  PROVE  ClaimInv'
<1> USE Counters
<1>1. UNCHANGED <<slots, capacity, gateAsleep, waiting, upgrading>> /\ writer = t
        /\ depth' = depth - 1
      BY DEF gateVars, WriteRelease
<1>2. /\ Entered(t, "slot")' = Entered(t, "slot") /\ Entered(t, "read")' = Entered(t, "read")
      /\ Entered(t, "write")' = Entered(t, "write") - 1
      /\ \A s \in Scope : Entered(t, s) \in Nat
      BY EnteredScopes DEF Scope, Only
<1>3. Claims(t) /\ depth > 0 /\ \A o \in Thread : Claims(o)
      BY <1>1 DEF ClaimInv
<1>4. ~WaitsToWrite(t)' /\ ~WaitsToWrite(t)
      BY DEF WaitsToWrite
<1>5. IsFiniteSet(Waiters') /\ waiting' = Cardinality(Waiters')
      BY <1>1, <1>4, OnlyOne
<1>6. CASE depth = 1
  <2>1. /\ writer' = Null /\ depth' = 0 /\ lockAsleep' = {}
        /\ readers' = [readers EXCEPT ![t] = readers[t] + suspended[t]]
        /\ suspended' = [suspended EXCEPT ![t] = 0]
        BY <1>1, <1>6 DEF WriteRelease
  <2>2. /\ readers' \in [Thread -> Nat] /\ suspended' \in [Thread -> Nat]
        /\ suspended'[t] = 0 /\ readers'[t] = readers[t] + suspended[t]
        /\ \A o \in Thread \ {t} : readers'[o] = readers[o] /\ suspended'[o] = suspended[o]
        BY <2>1
  <2>3. GateTypeOK'
        BY <1>1, <2>1, <2>2 DEF GateTypeOK
  <2>4. Claims(t)'
        BY <1>1, <1>2, <1>3, <1>4, <1>6, <2>1, <2>2 DEF Claims
  <2>5. \A o \in Thread \ {t} : Claims(o)'
        BY <1>1, <1>3, <2>1, <2>2, OnlyOne DEF Claims, Scope
  <2> QED BY <1>5, <2>1, <2>3, <2>4, <2>5 DEF ClaimInv
<1>7. CASE depth # 1
  <2>1. UNCHANGED <<writer, readers, suspended, lockAsleep>> /\ depth' > 0 /\ depth' \in Nat
        BY <1>1, <1>3, <1>7 DEF WriteRelease
  <2>2. GateTypeOK'
        BY <1>1, <2>1 DEF GateTypeOK
  <2>3. Claims(t)'
        BY <1>1, <1>2, <1>3, <1>4, <2>1 DEF Claims
  <2>4. \A o \in Thread \ {t} : Claims(o)'
        BY <1>1, <1>3, <2>1, OnlyOne DEF Claims, Scope
  <2>5. \A o \in Thread : writer' \notin {Null, o} /\ readers'[o] > 0 => mode'[o] = "back"
        BY <1>1, <2>1 DEF ClaimInv, Only
  <2> QED BY <1>5, <2>1, <2>2, <2>3, <2>4, <2>5 DEF ClaimInv
<1> QED BY <1>6, <1>7

\* A thread begins to wait for the write lock, or its wait raises.
LEMMA WaitKeepsClaims ==
  ASSUME RoundInv, ClaimInv, NEW t \in Thread, Only(t), UNCHANGED gateVars,
         at'[t] = at[t], NextScope(t) = "write",
         \/ mode[t] = "go" /\ mode'[t] = "wait" /\ WriteWait(t)
         \/ mode[t] = "wait" /\ mode'[t] = "back" /\ WriteFails(t)
  PROVE  ClaimInv'
<1> USE Counters
<1>1. UNCHANGED <<slots, capacity, gateAsleep, writer, depth, suspended>>
      BY DEF gateVars, WriteWait, WriteFails
<1>2. \A s \in Scope : Entered(t, s)' = Entered(t, s) /\ Entered(t, s) \in Nat
      BY EnteredScopes DEF Only
<1>3. Claims(t) /\ \A o \in Thread : Claims(o)
      BY DEF ClaimInv
<1>4. NextScope(t)' = "write"
      BY DEF NextScope, Scopes, Only
<1>5. CASE mode[t] = "go" /\ mode'[t] = "wait" /\ WriteWait(t)
  <2>1. /\ readers' = [readers EXCEPT ![t] = 0]
        /\ upgrading' = [upgrading EXCEPT ![t] = readers[t]]
        /\ waiting' = waiting + 1 /\ lockAsleep' \subseteq Thread \ Budgeted
        BY <1>5 DEF WriteWait, GivenUp, Sleeps
  <2>2. ~WaitsToWrite(t) /\ WaitsToWrite(t)' /\ upgrading[t] = 0
        BY <1>3, <1>4, <1>5 DEF WaitsToWrite, Claims
  <2>3. /\ readers' \in [Thread -> Nat] /\ upgrading' \in [Thread -> Nat]
        /\ readers'[t] = 0 /\ upgrading'[t] = readers[t]
        /\ \A o \in Thread \ {t} : readers'[o] = readers[o] /\ upgrading'[o] = upgrading[o]
        BY <2>1
  <2>4. IsFiniteSet(Waiters') /\ waiting' = Cardinality(Waiters')
        BY <2>1, <2>2, OnlyOne
  <2>5. GateTypeOK'
        BY <1>1, <2>1, <2>3 DEF GateTypeOK
  <2>6. Claims(t)'
        BY <1>1, <1>2, <1>3, <2>2, <2>3 DEF Claims, Scope
  <2>7. \A o \in Thread \ {t} : Claims(o)'
        BY <1>1, <1>3, <2>3, OnlyOne DEF Claims, Scope
  <2>8. \A o \in Thread : writer' \notin {Null, o} /\ readers'[o] > 0 => mode'[o] = "back"
        BY <1>1, <2>3 DEF ClaimInv, Only
  <2> QED BY <1>1, <2>4, <2>5, <2>6, <2>7, <2>8 DEF ClaimInv
<1>6. CASE mode[t] = "wait" /\ mode'[t] = "back" /\ WriteFails(t)
  <2>1. /\ readers' = [readers EXCEPT ![t] = readers[t] + upgrading[t]]
        /\ upgrading' = [upgrading EXCEPT ![t] = 0]
        /\ waiting' = waiting - 1 /\ lockAsleep' \subseteq lockAsleep
        BY <1>6 DEF WriteFails, Restored
  <2>2. WaitsToWrite(t) /\ ~WaitsToWrite(t)'
        BY <1>6 DEF WaitsToWrite
  <2>3. /\ readers' \in [Thread -> Nat] /\ upgrading' \in [Thread -> Nat]
        /\ readers'[t] = readers[t] + upgrading[t] /\ upgrading'[t] = 0
        /\ \A o \in Thread \ {t} : readers'[o] = readers[o] /\ upgrading'[o] = upgrading[o]
        BY <2>1
  <2>4. waiting' \in Nat /\ IsFiniteSet(Waiters') /\ waiting' = Cardinality(Waiters')
        BY <2>1, <2>2, OnlyOne
  <2>5. GateTypeOK'
        BY <1>1, <2>1, <2>3, <2>4 DEF GateTypeOK
  <2>6. Claims(t)'
        BY <1>1, <1>2, <1>3, <2>3 DEF Claims, Scope
  <2>7. \A o \in Thread \ {t} : Claims(o)'
        BY <1>1, <1>3, <2>3, OnlyOne DEF Claims, Scope
  <2>8. \A o \in Thread : writer' \notin {Null, o} /\ readers'[o] > 0 => mode'[o] = "back"
        BY <1>1, <1>6, <2>3 DEF ClaimInv, Only
  <2> QED BY <1>1, <2>4, <2>5, <2>6, <2>7, <2>8 DEF ClaimInv
<1> QED BY <1>5, <1>6

\* A step that concerns neither the gate nor the lock: no thread begins or ends a wait,
\* and one that gave up is on its way out or out.
Apart ==
  /\ UNCHANGED <<lockVars, gateVars, kind, at>>
  /\ \A o \in Thread : /\ mode'[o] = "wait" <=> mode[o] = "wait"
                       /\ mode[o] = "back" => mode'[o] = "back" \/ at[o] = 0
                       /\ mode[o] \in {"back", "failed"} => mode'[o] \in {"back", "failed"}

\* A step concerns the gate in one of six ways, or not at all.
LEMMA Steps ==
  ASSUME RoundInv, [Next]_vars
  PROVE  \/ Apart
         \/ \E t \in Thread : \/ Acquire(t) \/ Wait(t) \/ Granted(t) \/ SleepAgain(t)
                              \/ t \in Unit /\ GiveUp(t)
                              \/ Release(t) /\ at[t] # 0
<1> USE UnitThreads
<1>0. mode \in [Thread -> Modes] /\ at \in [Thread -> Nat]
      BY DEF RoundInv, RoundTypeOK
<1>1. ASSUME NEW t \in Thread, Infer(t) \/ Inferred(t) \/ Start(t) PROVE Apart
  <2>1. /\ UNCHANGED <<lockVars, gateVars, kind, at>>
        /\ mode[t] \in {"go", "infer", "queued"}
        /\ \E m \in {"back", "infer", "leave", "failed", "go"} : mode' = [mode EXCEPT ![t] = m]
        BY <1>1 DEF Infer, Inferred, Start, Stay, To
  <2> QED BY <1>0, <2>1 DEF Apart
<1>2. ASSUME NEW t \in Thread, Release(t), at[t] = 0 PROVE Apart
  <2>1. /\ UNCHANGED <<lockVars, gateVars, kind, at>>
        /\ mode[t] \in {"leave", "back"} /\ mode' = [mode EXCEPT ![t] = Outside(t)]
        BY <1>2 DEF Release, Stay, To
  <2>2. Outside(t) \in {"failed", "publish", "done"} /\ (mode[t] = "back" => Outside(t) = "failed")
        BY DEF Outside
  <2> QED BY <1>0, <1>2, <2>1, <2>2 DEF Apart
<1>3. ASSUME NEW u \in Unit, LockOuter(u) \/ LockOwn(u) \/ Written(u) PROVE Apart
  <2>1. /\ UNCHANGED <<lockVars, gateVars, kind, at>>
        /\ mode[u] \in {"publish", "own", "write"}
        /\ \E m \in {"own", "write", "failed", "done"} : mode' = [mode EXCEPT ![u] = m]
        BY <1>3 DEF LockOuter, LockOwn, Written, Stay, To
  <2> QED BY <1>0, <2>1 DEF Apart
<1>4. CASE \/ (\E u \in Unit : Refresh(u) \/ Expire(u)) \/ CancelOuter
           \/ Wake \/ CheckLeases \/ Reap \/ UNCHANGED vars
  <2>1. UNCHANGED <<lockVars, gateVars, kind, at, mode>>
        BY <1>4 DEF Refresh, Expire, CancelOuter, Wake, CheckLeases, Reap, threadVars, vars
  <2> QED BY <2>1 DEF Apart
<1>5. CASE Fill
  <2>1. UNCHANGED <<lockVars, gateVars, kind, at>>
        BY <1>5 DEF Fill
  <2>2. PICK n \in 0 .. Len(queue) :
          mode' = [t \in Thread |-> IF t \in {queue[i] : i \in 1 .. n} THEN "queued" ELSE mode[t]]
        BY <1>5, FillTakes
  <2>3. \A i \in 1 .. n : mode[queue[i]] = "item"
    <3>1. \A i \in 1 .. n : i \in 1 .. Len(queue)
          BY DEF RoundInv, RoundTypeOK
    <3> QED BY <3>1 DEF RoundInv, Submitted
  <2>4. \A o \in Thread : mode'[o] = mode[o] \/ (mode[o] = "item" /\ mode'[o] = "queued")
        BY <2>2, <2>3
  <2> QED BY <2>1, <2>4 DEF Apart
<1>6. CASE Cancel
  <2>1. UNCHANGED <<lockVars, gateVars, kind, at>>
        BY <1>6 DEF Cancel, threadVars, Stay
  <2>2. \A o \in Thread : mode'[o] = mode[o] \/ (mode[o] = "queued" /\ mode'[o] = "dropped")
        BY <1>0, <1>6 DEF Cancel, threadVars, Stay, To
  <2> QED BY <2>1, <2>2 DEF Apart
<1> QED BY <1>1, <1>2, <1>3, <1>4, <1>5, <1>6 DEF Next, Use, Unwind, Scheduler

\* The claim invariant is inductive.
LEMMA ClaimStep == RoundInv /\ ClaimInv /\ [Next]_vars => ClaimInv'
<1> SUFFICES ASSUME RoundInv, ClaimInv, [Next]_vars PROVE ClaimInv'
    OBVIOUS
<1> USE UnitThreads, Counters
<1>0. mode \in [Thread -> Modes] /\ at \in [Thread -> Nat]
      BY DEF RoundInv, RoundTypeOK
<1>1. CASE Apart
  <2>1. \A o \in Thread : WaitsToWrite(o)' <=> WaitsToWrite(o)
        BY <1>1 DEF Apart, WaitsToWrite, NextScope, Scopes
  <2> QED BY <1>1, <2>1, QuietKeepsClaims DEF Apart, lockVars, gateVars
<1>2. ASSUME NEW t \in Thread, Acquire(t) \/ Granted(t) PROVE ClaimInv'
  <2>1. /\ Only(t) /\ at'[t] = at[t] + 1 /\ mode'[t] = "go" /\ mode[t] \in {"go", "wait"}
        BY <1>0, <1>2 DEF Acquire, Granted, Enters, Move, To, Only
  <2>2. \/ NextScope(t) = "slot" /\ SlotNow(t) /\ UNCHANGED lockVars
        \/ NextScope(t) = "read" /\ ReadNow(t) /\ UNCHANGED gateVars
        \/ /\ NextScope(t) = "write" /\ UNCHANGED gateVars
           /\ (mode[t] = "go" /\ WriteNow(t)) \/ (mode[t] = "wait" /\ WriteGranted(t))
        BY <1>2 DEF Acquire, Granted, Enters
  <2> QED BY <2>1, <2>2, SlotKeepsClaims, ReadKeepsClaims, WriteKeepsClaims
<1>3. ASSUME NEW t \in Thread, Wait(t) PROVE ClaimInv'
  <2>1. Only(t) /\ at' = at /\ kind' = kind /\ mode'[t] = "wait" /\ mode[t] = "go"
        BY <1>0, <1>3 DEF Wait, Enters, Stay, To, Only
  <2>2. CASE NextScope(t) = "write"
        BY <1>3, <2>1, <2>2, WaitKeepsClaims DEF Wait
  <2>3. CASE NextScope(t) # "write"
    <3>1. UNCHANGED <<writer, depth, readers, suspended, waiting, upgrading, capacity, slots>>
          BY <1>3, <2>3 DEF Wait, SlotWait, ReadWait, lockVars, gateVars
    <3>2. lockAsleep' \subseteq Thread \ Budgeted /\ gateAsleep' \subseteq Thread \ Budgeted
          BY <1>3, <2>3 DEF Wait, SlotWait, ReadWait, Sleeps, lockVars, gateVars
    <3>3. NextScope(t)' # "write"
          BY <2>1, <2>3 DEF NextScope, Scopes
    <3>4. \A o \in Thread : WaitsToWrite(o)' <=> WaitsToWrite(o)
          BY <2>1, <2>3, <3>3, OnlyOne DEF WaitsToWrite
    <3>5. \A o \in Thread : mode[o] = "back" => mode'[o] = "back"
          BY <2>1 DEF Only
    <3> QED BY <2>1, <3>1, <3>2, <3>4, <3>5, QuietKeepsClaims
  <2> QED BY <2>2, <2>3
<1>4. ASSUME NEW t \in Thread, SleepAgain(t) PROVE ClaimInv'
  <2>1. UNCHANGED <<writer, depth, readers, suspended, waiting, upgrading, capacity, slots,
                    kind, at, mode>>
        BY <1>4 DEF SleepAgain, GateSleepAgain, LockSleepAgain, lockVars, gateVars, threadVars
  <2>2. lockAsleep' \subseteq Thread \ Budgeted /\ gateAsleep' \subseteq Thread \ Budgeted
        BY <1>4 DEF SleepAgain, GateSleepAgain, LockSleepAgain, lockVars, gateVars
  <2>3. \A o \in Thread : WaitsToWrite(o)' <=> WaitsToWrite(o)
        BY <2>1 DEF WaitsToWrite, NextScope, Scopes
  <2> QED BY <2>1, <2>2, <2>3, QuietKeepsClaims
<1>5. ASSUME NEW t \in Thread, GiveUp(t) PROVE ClaimInv'
  <2>1. Only(t) /\ at' = at /\ kind' = kind /\ mode'[t] = "back" /\ mode[t] = "wait"
          /\ UNCHANGED gateVars
        BY <1>0, <1>5 DEF GiveUp, Enters, Stay, To, Only
  <2>2. CASE NextScope(t) = "write"
        BY <1>5, <2>1, <2>2, WaitKeepsClaims DEF GiveUp
  <2>3. CASE NextScope(t) # "write"
    <3>1. UNCHANGED <<lockVars, gateVars>>
          BY <1>5, <2>3 DEF GiveUp
    <3>2. \A o \in Thread : WaitsToWrite(o)' <=> WaitsToWrite(o)
          BY <2>1, <2>3, OnlyOne DEF WaitsToWrite
    <3>3. \A o \in Thread : mode[o] = "back" => mode'[o] = "back"
          BY <2>1 DEF Only
    <3> QED BY <2>1, <3>1, <3>2, <3>3, QuietKeepsClaims DEF lockVars, gateVars
  <2> QED BY <2>2, <2>3
<1>6. ASSUME NEW t \in Thread, Release(t), at[t] # 0 PROVE ClaimInv'
  <2>1. /\ at[t] > 0 /\ mode[t] \in {"leave", "back"} /\ Move(t, -1, IF at[t] = 1 THEN Outside(t) ELSE mode[t])
        /\ \/ Scopes(t)[at[t]] = "slot" /\ SlotRelease(t) /\ UNCHANGED lockVars
           \/ Scopes(t)[at[t]] = "read" /\ ReadRelease(t) /\ UNCHANGED gateVars
           \/ Scopes(t)[at[t]] = "write" /\ WriteRelease(t) /\ UNCHANGED gateVars
        BY <1>0, <1>6 DEF Release
  <2>2. Outside(t) \in {"failed", "publish", "done"}
        BY DEF Outside
  <2>3. /\ Only(t) /\ at'[t] = at[t] - 1 /\ mode'[t] # "wait"
        /\ mode'[t] = mode[t] \/ at'[t] = 0
        BY <1>0, <2>1, <2>2 DEF Move, To, Only
  <2> QED BY <2>1, <2>3, SlotKeepsClaims, ReadKeepsClaims, WriteReleaseKeepsClaims
<1> QED BY <1>1, <1>2, <1>3, <1>4, <1>5, <1>6, Steps

\* The counters of the gate and of the lock match what the threads are in.
THEOREM ClaimInvariant == Spec => [](RoundInv /\ ClaimInv)
<1>1. Init => ClaimInv
      BY ClaimInit
<1>2. RoundInv /\ ClaimInv /\ [Next]_vars => ClaimInv'
      BY ClaimStep
<1> QED BY <1>1, <1>2, RoundInvariant, PTL DEF Spec

\* ReentrantReadWriteLock and ReentrantCapacityGate: no claim is leaked or released twice,
\* through re-entry, upgrades, timeouts and exceptions, for any number of threads.
THEOREM ClaimsAlwaysMatch == Spec => []ClaimsMatch
<1>1. ClaimInv => ClaimsMatch
      BY DEF ClaimInv, Claims, Waiters, ClaimsMatch
<1> QED BY <1>1, ClaimInvariant, PTL

\* The GPU lock: whoever infers as the writer infers alone.
THEOREM WriterInfersAlone == Spec => []GPUExclusive
<1>1. RoundInv /\ ClaimInv => GPUExclusive
  <2> SUFFICES ASSUME RoundInv, ClaimInv, NEW t \in Thread, NEW o \in Thread, t # o,
                      mode[t] = "infer", Contains(Scopes(t), "write"), mode[o] = "infer"
               PROVE  FALSE
      BY DEF GPUExclusive
  <2> USE Counters
  <2>1. \A x \in {t, o} : /\ at[x] = Len(Scopes(x)) /\ Len(Scopes(x)) \in 1 .. 4
                          /\ Scopes(x)[Len(Scopes(x))] \in {"read", "write"}
    <3>1. \A x \in {t, o} : kind[x] \in Kinds /\ at[x] = Len(Scopes(x))
          BY DEF RoundInv, RoundTypeOK, InProgram
    <3> QED BY <3>1, Programs DEF Scopes
  <2>2. \A x \in {t, o} : \A s \in Scope :
          (\E i \in 1 .. Len(Scopes(x)) : Scopes(x)[i] = s) => Entered(x, s) > 0
        BY <2>1, EnteredScopes
  <2>3. writer = t /\ writer # Null
    <3>1. Entered(t, "write") > 0
          BY <2>2 DEF Contains, Scope
    <3> QED BY <3>1 DEF ClaimInv, Claims
  <2>4. Entered(o, "write") = 0
        BY <2>3 DEF ClaimInv, Claims
  <2>5. Scopes(o)[Len(Scopes(o))] = "read" /\ Len(Scopes(o)) \in 1 .. Len(Scopes(o))
    <3>0. PICK n \in 1 .. 4 : Len(Scopes(o)) = n
          BY <2>1
    <3>1. Len(Scopes(o)) \in 1 .. Len(Scopes(o))
      <4>1. n \in 1 .. n
            OBVIOUS
      <4> QED BY <3>0, <4>1
    <3>2. Scopes(o)[Len(Scopes(o))] = "write" => Entered(o, "write") > 0
          BY <2>2, <3>1 DEF Scope
    <3> QED BY <2>1, <2>4, <3>1, <3>2
  <2>6. Entered(o, "read") > 0
        BY <2>2, <2>5 DEF Scope
  <2>7. upgrading[o] = 0 /\ suspended[o] = 0
        BY <2>3 DEF ClaimInv, Claims, WaitsToWrite
  <2>8. readers[o] > 0
        BY <2>6, <2>7 DEF ClaimInv, Claims
  <2> QED BY <2>3, <2>8 DEF ClaimInv
<1> QED BY <1>1, ClaimInvariant, PTL

-----------------------------------------------------------------------------
(* Sleeping callers                                                        *)

Owners == {t \in Thread : slots[t] > 0}

\* Who sleeps waits for what it sleeps on, and has somebody to wake it.
SleepInv ==
  /\ IsFiniteSet(Owners)
  /\ \A t \in lockAsleep : mode[t] = "wait" /\ NextScope(t) \in {"read", "write"}
  /\ \A t \in gateAsleep : mode[t] = "wait" /\ NextScope(t) = "slot"
  /\ SleepersHaveWaker

\* Nobody sleeps at first.
LEMMA SleepInit == Init => SleepInv
<1> SUFFICES ASSUME Init PROVE SleepInv
    OBVIOUS
<1>1. Owners = {}
      BY DEF Init, GateInit, Owners
<1> QED BY <1>1, FS_EmptySet DEF Init, GateInit, SleepInv, SleepersHaveWaker

\* The threads asleep other than t stay as they are when only t goes on, and a writer that
\* gave up stays one.
LEMMA SleepersStay ==
  ASSUME RoundInv, ClaimInv, SleepInv, NEW t \in Thread, Only(t)
  PROVE  /\ \A o \in Thread \ {t} : mode'[o] = mode[o] /\ NextScope(o)' = NextScope(o)
         /\ (mode[t] \in {"back", "failed"} => mode'[t] \in {"back", "failed"}) =>
              (WriterGaveUp => WriterGaveUp')
<1>1. \A o \in Thread : Scopes(o)' = Scopes(o)
      BY DEF Only, Scopes
<1> QED BY <1>1, UnitThreads DEF Only, NextScope, WriterGaveUp

\* Who takes a scope leaves a waker for every sleeper.
LEMMA TakingKeepsSleep ==
  ASSUME RoundInv, ClaimInv, SleepInv, NEW t \in Thread, Acquire(t) \/ Granted(t)
  PROVE  SleepInv'
<1> USE Counters
<1>0. mode \in [Thread -> Modes] /\ at \in [Thread -> Nat]
      BY DEF RoundInv, RoundTypeOK
<1>1. Only(t) /\ mode'[t] = "go" /\ mode[t] \in {"go", "wait"}
      BY <1>0 DEF Acquire, Granted, Enters, Move, To, Only
<1>2. /\ \A o \in Thread \ {t} : mode'[o] = mode[o] /\ NextScope(o)' = NextScope(o)
      /\ WriterGaveUp => WriterGaveUp'
      BY <1>1, SleepersStay
<1>3. t \notin lockAsleep \cup gateAsleep
      BY <1>1 DEF Acquire, Granted, Enters, SleepInv, WriteGranted
<1>4. CASE NextScope(t) = "slot" /\ SlotNow(t) /\ UNCHANGED lockVars
  <2>1. /\ UNCHANGED <<writer, readers, waiting, lockAsleep, capacity, gateAsleep>>
        /\ slots' = [slots EXCEPT ![t] = slots[t] + 1]
        BY <1>4 DEF SlotNow, SetSlots, lockVars
  <2>2. Owners' = Owners \cup {t}
        BY <2>1 DEF Owners
  <2>3. IsFiniteSet(Owners') /\ Cardinality(Owners') >= Cardinality(Owners)
          /\ Cardinality(Owners) \in Nat /\ Cardinality(Owners') \in Nat
    <3>1. IsFiniteSet(Owners) /\ Cardinality(Owners) \in Nat
          BY FS_CardinalityType DEF SleepInv
    <3>2. /\ IsFiniteSet(Owners')
          /\ Cardinality(Owners') = IF t \in Owners THEN Cardinality(Owners) ELSE Cardinality(Owners) + 1
          BY <2>2, <3>1, FS_AddElement
    <3> QED BY <3>1, <3>2
  <2>4. gateAsleep' # {} => ~SlotFree'
    <3>1. SlotFree <=> Cardinality(Owners) < capacity
          BY DEF SlotFree, Owners
    <3>2. SlotFree' <=> Cardinality(Owners') < capacity'
          BY DEF SlotFree, Owners
    <3> QED BY <2>1, <2>3, <3>1, <3>2 DEF SleepInv, SleepersHaveWaker
  <2> QED BY <1>2, <1>3, <2>1, <2>3, <2>4
          DEF SleepInv, SleepersHaveWaker, MayWrite, NobodyReads
<1>5. CASE NextScope(t) = "read" /\ ReadNow(t) /\ UNCHANGED gateVars
  <2>1. /\ UNCHANGED <<writer, waiting, lockAsleep, capacity, gateAsleep, slots>>
        /\ readers' = [readers EXCEPT ![t] = readers[t] + 1]
        BY <1>5 DEF ReadNow, SetReads, gateVars
  <2>2. ~MayWrite(readers) => ~MayWrite(readers)'
        BY <2>1 DEF MayWrite, NobodyReads
  <2> QED BY <1>2, <1>3, <2>1, <2>2 DEF SleepInv, SleepersHaveWaker, SlotFree, Owners
<1>6. CASE NextScope(t) = "write" /\ (WriteNow(t) \/ WriteGranted(t)) /\ UNCHANGED gateVars
  <2>1. UNCHANGED <<capacity, gateAsleep, slots>> /\ writer' = t /\ writer' # Null
          /\ lockAsleep' \subseteq lockAsleep
        BY <1>6 DEF WriteNow, WriteGranted, Own, gateVars
  <2> QED BY <1>2, <1>3, <2>1 DEF SleepInv, SleepersHaveWaker, SlotFree, Owners, MayWrite
<1> QED BY <1>4, <1>5, <1>6 DEF Acquire, Granted

\* Who falls asleep has a waker.
LEMMA WaitingKeepsSleep ==
  ASSUME RoundInv, ClaimInv, SleepInv, NEW t \in Thread,
         Wait(t) \/ SleepAgain(t)
  PROVE  SleepInv'
<1> USE Counters
<1>0. mode \in [Thread -> Modes] /\ at \in [Thread -> Nat]
      BY DEF RoundInv, RoundTypeOK
<1>1. Only(t) /\ mode'[t] = "wait" /\ mode[t] \in {"go", "wait"} /\ NextScope(t)' = NextScope(t)
      BY <1>0 DEF Wait, SleepAgain, Enters, Stay, To, Only, NextScope, Scopes, threadVars
<1>2. /\ \A o \in Thread \ {t} : mode'[o] = mode[o] /\ NextScope(o)' = NextScope(o)
      /\ WriterGaveUp => WriterGaveUp'
      BY <1>1, SleepersStay
<1>3. CASE NextScope(t) = "slot" /\ (SlotWait(t) \/ GateSleepAgain(t)) /\ UNCHANGED lockVars
  <2>1. /\ UNCHANGED <<writer, readers, waiting, lockAsleep, capacity, slots>>
        /\ gateAsleep' \subseteq gateAsleep \cup {t} /\ ~SlotFree
        BY <1>3 DEF SlotWait, GateSleepAgain, Sleeps, lockVars
  <2>2. ~SlotFree' /\ Owners' = Owners
        BY <2>1 DEF SlotFree, Owners
  <2> QED BY <1>1, <1>2, <1>3, <2>1, <2>2
          DEF SleepInv, SleepersHaveWaker, MayWrite, NobodyReads
<1>4. CASE NextScope(t) = "read" /\ (ReadWait(t) \/ LockSleepAgain(t, MayRead)) /\ UNCHANGED gateVars
  <2>1. /\ UNCHANGED <<writer, readers, waiting, gateAsleep, capacity, slots>>
        /\ lockAsleep' \subseteq lockAsleep \cup {t} /\ (writer # Null \/ waiting > 0)
        BY <1>4 DEF ReadWait, LockSleepAgain, MayRead, Sleeps, gateVars
  <2> QED BY <1>1, <1>2, <1>4, <2>1
          DEF SleepInv, SleepersHaveWaker, SlotFree, Owners, MayWrite, NobodyReads
<1>5. CASE NextScope(t) = "write" /\ LockSleepAgain(t, MayWrite(readers)) /\ UNCHANGED gateVars
  <2>1. /\ UNCHANGED <<writer, readers, waiting, gateAsleep, capacity, slots>>
        /\ lockAsleep' \subseteq lockAsleep \cup {t} /\ ~MayWrite(readers)
        BY <1>5 DEF LockSleepAgain, gateVars
  <2> QED BY <1>1, <1>2, <1>5, <2>1
          DEF SleepInv, SleepersHaveWaker, SlotFree, Owners, MayWrite, NobodyReads
<1>6. CASE NextScope(t) = "write" /\ WriteWait(t) /\ UNCHANGED gateVars
  <2>1. /\ UNCHANGED <<writer, gateAsleep, capacity, slots>>
        /\ waiting' = waiting + 1 /\ waiting' > 0
        /\ readers' = GivenUp(t) /\ ~MayWrite(GivenUp(t))
        /\ lockAsleep' \subseteq lockAsleep \cup {t}
        BY <1>6 DEF WriteWait, Sleeps, gateVars
  <2>2. ~MayWrite(readers)'
        BY <2>1 DEF MayWrite, NobodyReads
  <2> QED BY <1>1, <1>2, <1>6, <2>1, <2>2 DEF SleepInv, SleepersHaveWaker, SlotFree, Owners
<1> QED BY <1>3, <1>4, <1>5, <1>6 DEF Wait, SleepAgain

\* Who gives up waiting leaves a waker for every other sleeper.
LEMMA GivingUpKeepsSleep ==
  ASSUME RoundInv, ClaimInv, SleepInv, NEW t \in Unit, GiveUp(t)
  PROVE  SleepInv'
<1> USE Counters, UnitThreads
<1>0. mode \in [Thread -> Modes] /\ at \in [Thread -> Nat]
      BY DEF RoundInv, RoundTypeOK
<1>1. Only(t) /\ mode'[t] = "back" /\ mode[t] = "wait" /\ at[t] < Len(Scopes(t)) /\ UNCHANGED gateVars
      BY <1>0 DEF GiveUp, Enters, Stay, To, Only
<1>2. /\ \A o \in Thread \ {t} : mode'[o] = mode[o] /\ NextScope(o)' = NextScope(o)
      /\ WriterGaveUp => WriterGaveUp'
      BY <1>1, SleepersStay
<1>3. t \notin lockAsleep \cup gateAsleep
      BY DEF Unit
<1>4. CASE NextScope(t) # "write"
  <2>1. UNCHANGED <<writer, readers, waiting, lockAsleep, capacity, slots, gateAsleep>>
        BY <1>1, <1>4 DEF GiveUp, lockVars, gateVars
  <2> QED BY <1>2, <1>3, <2>1
          DEF SleepInv, SleepersHaveWaker, SlotFree, Owners, MayWrite, NobodyReads
<1>5. CASE NextScope(t) = "write"
  <2>1. /\ UNCHANGED <<writer, capacity, slots, gateAsleep>>
        /\ readers' = [readers EXCEPT ![t] = readers[t] + upgrading[t]]
        /\ lockAsleep' = IF upgrading[t] > 0 THEN {} ELSE lockAsleep
        BY <1>1, <1>5 DEF GiveUp, WriteFails, Restored, gateVars
  <2>2. WriterGaveUp'
    <3>1. at[t] + 1 \in 1 .. Len(Scopes(t)) /\ Scopes(t)' = Scopes(t)
      <4>1. Len(Scopes(t)) \in Nat
            BY Programs DEF RoundInv, RoundTypeOK, Scopes
      <4> QED BY <1>0, <1>1, <4>1 DEF Only, Scopes
    <3>2. Contains(Scopes(t)', "write")
          BY <1>5, <3>1 DEF Contains, NextScope
    <3> QED BY <1>1, <3>1, <3>2 DEF WriterGaveUp
  <2>3. lockAsleep' # {} => readers' = readers
        BY <2>1
  <2> QED BY <1>2, <1>3, <2>1, <2>2, <2>3
          DEF SleepInv, SleepersHaveWaker, SlotFree, Owners, MayWrite, NobodyReads
<1> QED BY <1>4, <1>5

\* Who leaves a scope wakes the sleepers or leaves them a waker.
LEMMA LeavingKeepsSleep ==
  ASSUME RoundInv, ClaimInv, SleepInv, NEW t \in Thread, Release(t), at[t] # 0
  PROVE  SleepInv'
<1> USE Counters
<1>0. mode \in [Thread -> Modes] /\ at \in [Thread -> Nat]
      BY DEF RoundInv, RoundTypeOK
<1>1. /\ at[t] > 0 /\ mode[t] \in {"leave", "back"}
      /\ Move(t, -1, IF at[t] = 1 THEN Outside(t) ELSE mode[t])
      BY <1>0 DEF Release
<1>2. Only(t) /\ (mode[t] = "back" => mode'[t] \in {"back", "failed"})
      BY <1>0, <1>1 DEF Move, To, Only, Outside
<1>3. /\ \A o \in Thread \ {t} : mode'[o] = mode[o] /\ NextScope(o)' = NextScope(o)
      /\ WriterGaveUp => WriterGaveUp'
      BY <1>1, <1>2, SleepersStay
<1>4. t \notin lockAsleep \cup gateAsleep
      BY <1>1 DEF SleepInv
<1>5. CASE SlotRelease(t) /\ UNCHANGED lockVars
  <2>1. /\ UNCHANGED <<writer, readers, waiting, lockAsleep, capacity>>
        /\ slots' = [slots EXCEPT ![t] = slots[t] - 1]
        /\ gateAsleep' = IF slots[t] = 1 THEN {} ELSE gateAsleep
        BY <1>5 DEF SlotRelease, SetSlots, Woken, lockVars
  <2>2. IsFiniteSet(Owners')
    <3>1. Owners' \subseteq Owners \cup {t}
          BY <2>1 DEF Owners
    <3>2. IsFiniteSet(Owners \cup {t})
          BY FS_AddElement DEF SleepInv
    <3> QED BY <3>1, <3>2, FS_Subset
  <2>3. gateAsleep' # {} => ~SlotFree'
    <3> SUFFICES ASSUME slots[t] # 1, gateAsleep # {} PROVE ~SlotFree'
        BY <2>1
    <3>1. {o \in Thread : slots[o] > 0} \subseteq {o \in Thread : slots'[o] > 0}
          BY <2>1
    <3>2. Cardinality(Owners) <= Cardinality(Owners') /\ Cardinality(Owners) \in Nat
            /\ Cardinality(Owners') \in Nat
      <4>1. Owners \in SUBSET Owners'
            BY <3>1 DEF Owners
      <4> QED BY <2>2, <4>1, FS_Subset, FS_CardinalityType
    <3>3. ~(Cardinality(Owners) < capacity)
          BY DEF SleepInv, SleepersHaveWaker, SlotFree, Owners
    <3> QED BY <2>1, <3>2, <3>3 DEF SlotFree, Owners
  <2> QED BY <1>3, <1>4, <2>1, <2>2, <2>3 DEF SleepInv, SleepersHaveWaker, MayWrite, NobodyReads
<1>6. CASE ReadRelease(t) /\ UNCHANGED gateVars
  <2>1. /\ UNCHANGED <<writer, waiting, gateAsleep, capacity, slots>>
        /\ lockAsleep' = IF NobodyReads(readers') THEN {} ELSE lockAsleep
        BY <1>6 DEF ReadRelease, gateVars
  <2> QED BY <1>3, <1>4, <2>1 DEF SleepInv, SleepersHaveWaker, SlotFree, Owners, MayWrite, NobodyReads
<1>7. CASE WriteRelease(t) /\ UNCHANGED gateVars
  <2>1. /\ UNCHANGED <<waiting, gateAsleep, capacity, slots>>
        /\ lockAsleep' = {} \/ UNCHANGED <<writer, readers, lockAsleep>>
        BY <1>7 DEF WriteRelease, gateVars
  <2> QED BY <1>3, <1>4, <2>1 DEF SleepInv, SleepersHaveWaker, SlotFree, Owners, MayWrite, NobodyReads
<1> QED BY <1>1, <1>5, <1>6, <1>7 DEF Release

\* The sleep invariant is inductive.
LEMMA SleepStep == RoundInv /\ ClaimInv /\ SleepInv /\ [Next]_vars => SleepInv'
<1> SUFFICES ASSUME RoundInv, ClaimInv, SleepInv, [Next]_vars PROVE SleepInv'
    OBVIOUS
<1>1. CASE Apart
  <2>1. UNCHANGED <<writer, readers, waiting, lockAsleep, capacity, slots, gateAsleep, kind, at>>
        BY <1>1 DEF Apart, lockVars, gateVars
  <2>2. WriterGaveUp => WriterGaveUp'
        BY <1>1, <2>1, UnitThreads DEF Apart, WriterGaveUp, Scopes
  <2>3. \A o \in lockAsleep \cup gateAsleep : mode'[o] = "wait" /\ NextScope(o)' = NextScope(o)
        BY <1>1, <2>1, Counters DEF Apart, NextScope, Scopes, SleepInv
  <2> QED BY <2>1, <2>2, <2>3 DEF SleepInv, SleepersHaveWaker, SlotFree, Owners, MayWrite, NobodyReads
<1> QED BY <1>1, Steps, TakingKeepsSleep, WaitingKeepsSleep, GivingUpKeepsSleep, LeavingKeepsSleep

\* The notify_all calls of the gate and of the lock: no caller sleeps while what it waits
\* for is free, but for the one case of a writer that gave up.
THEOREM NoSleeperForgotten == Spec => []SleepersHaveWaker
<1>1. Init => SleepInv
      BY SleepInit
<1>2. RoundInv /\ ClaimInv /\ SleepInv /\ [Next]_vars => SleepInv'
      BY SleepStep
<1>3. SleepInv => SleepersHaveWaker
      BY DEF SleepInv
<1> QED BY <1>1, <1>2, <1>3, ClaimInvariant, PTL DEF Spec

\* Type correctness of the round, the gate and the lock.
THEOREM ModelWorkTypes == Spec => []TypeOK
<1>1. RoundInv /\ ClaimInv => TypeOK
      BY DEF RoundInv, RoundTypeOK, InProgram, Submitted, ClaimInv, TypeOK, Modes, Kinds
<1> QED BY <1>1, ClaimInvariant, PTL
===============================================================================
