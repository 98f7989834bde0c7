-------------------------- MODULE ArtifactGraphProofs --------------------------
(***************************************************************************)
(* Proofs about ArtifactGraph, for any graph of jobs, any number of calls, *)
(* crashes, versions and workers.                                          *)
(***************************************************************************)
EXTENDS ArtifactGraph, FiniteSetTheorems, NaturalsInduction,
        WellFoundedInduction, TLAPS

\* Where a thread holds the lock of its target, or of its job.
Holding == {"gen", "mat", "retire", "port", "record", "index", "restore"}
HoldingJob == Holding \cup {"target"}

\* Where it may still do something.
Live == HoldingJob \cup {"queued", "job", "check"}

\* Where a job is while its call generates it, and once it has its evidence.
Generates == HoldingJob \cup {"queued", "job", "passed", "failed"}
Passed == {"passed", "check", "valid"}

\* The sets of the scheduler tell where its threads are, and what an earlier call has
\* left behind is cancelled.
SchedInv ==
  /\ pending \cap (Futures \cup validated) = {}
  /\ generating \cap validating = {} /\ validated \cap Futures = {}
  /\ \A w \in Worker : (w[1] > call \/ (w[1] = call /\ w[2] \in pending)) =>
       work[w].pc = "idle" /\ w \notin cancelled
  /\ \A j \in generating : work[Me(j)].pc \in Generates
  /\ \A j \in validating : work[Me(j)].pc \in {"check", "valid", "failed"}
  /\ \A j \in validated : work[Me(j)].pc = "valid"
  /\ \A w \in Worker : work[w].pc \in Live =>
       \/ w \in cancelled
       \/ w[1] = call /\ w[2] \in Futures /\ phase \in {"run", "cancel"}
  /\ phase \in {"run", "ok"} => Job = pending \cup Futures \cup validated
  /\ phase = "ok" => pending = {} /\ Futures = {}

\* The locks are held where the code of the thread says so.
LockInv ==
  /\ \A w \in Worker : work[w].pc \in HoldingJob <=> jobLock[w[2]] = w
  /\ \A w \in Worker : work[w].pc \in Holding <=> targetLock[FileOf(w)] = w
  /\ \A j \in Job : jobLock[j] # Null => jobLock[j][2] = j
  /\ \A t \in Target : targetLock[t] # Null => FileOf(targetLock[t]) = t

\* A thread that has come that far has an answer.
ValueInv ==
  \A w \in Worker : work[w].pc \in {"mat", "retire", "port", "record", "index", "restore"} =>
    work[w].val \in Value

Alone(j, bytes) == \E v \in Value : bytes = << <<j, v>> >>

\* What the holder of a target knows of it.
FileInv(w) ==
  LET t == FileOf(w)
      seen == pathRec[t] # Null => pathRec[t].after = work[w].before
  IN  /\ work[w].pc \in {"gen", "mat"} =>
           /\ work[w].before = content[t]
           /\ seen
           /\ w[2] \in Creates /\ Prior(w) # Null => Alone(w[2], work[w].before)
      /\ work[w].pc \in Unrecorded =>
           /\ seen
           /\ w[2] \in Creates => content[t] = <<Piece(w)>>
           /\ w[2] \in Creates /\ pathRec[t] # Null => Alone(w[2], work[w].before)
           /\ w[2] \notin Creates =>
                work[w].before \in Bytes /\ content[t] = Append(work[w].before, Piece(w))
      /\ work[w].pc = "index" => pathRec[t] # Null /\ pathRec[t] = Record(w)
      /\ work[w].pc = "restore" =>
           /\ pathRec[t] # Null /\ content[t] = pathRec[t].after
           /\ Contains(pathRec[t].after, Piece(w)) \/ Outdated(w[2])
           /\ jobRec[w[2]] # Null \/ t \in unindexed

Proven(t) ==
  IF pathRec[t] = Null THEN content[t] \in {Absent, <<>>} ELSE content[t] = pathRec[t].after

\* Bytes differ from their evidence only while somebody writes them.
BytesInv ==
  \A t \in Target \ torn :
    (targetLock[t] = Null \/ work[targetLock[t]].pc \notin Unrecorded) => Proven(t)

\* The index of a job has its record, or is about to have it, or missed it.
Indexed(j) ==
  \/ jobRec[j] # Null \/ TargetOf[j] \in unindexed
  \/ \E w \in Worker : w[2] = j /\ work[w].pc = "index"

\* A path record is of a job of the path and of bytes that have its answer.
PathInv ==
  \A t \in Target : pathRec[t] # Null =>
    LET r == pathRec[t] IN
    /\ TargetOf[r.job] = t
    /\ Contains(r.after, <<r.job, r.val>>)
    /\ r.job \in Creates => r.after = << <<r.job, r.val>> >>
    /\ Indexed(r.job)

\* An indexed record is of bytes that the path record still has, unless it is about to
\* be replaced or its replacement was missed.
IndexInv ==
  \A j \in Job : jobRec[j] # Null =>
    LET t == TargetOf[j] IN
    /\ jobRec[j].job = j /\ pathRec[t] # Null
    /\ j \in Creates => jobRec[j].after = << <<j, jobRec[j].val>> >>
    /\ \/ Contains(pathRec[t].after, <<j, jobRec[j].val>>)
       \/ t \in unindexed
       \/ \E w \in Worker : w[2] = j /\ work[w].pc = "index"

\* The port of a job is the answer of its thread.
PortOK(j) ==
  /\ work[Me(j)].pc \in {"record", "index"} => ports[j] = work[Me(j)].val
  /\ work[Me(j)].pc \in Passed => ports[j] \in Value

PortInv == \A j \in Job : PortOK(j)

\* A job has its evidence, and its file the recorded bytes unless somebody is about to
\* record others.
Kept(j) ==
  LET t == TargetOf[j] IN
  /\ pathRec[t] # Null
  /\ Contains(pathRec[t].after, <<j, ports[j]>>) \/ Outdated(j)
  /\ jobRec[j] # Null \/ t \in unindexed
  /\ \/ content[t] = pathRec[t].after
     \/ targetLock[t] \in Worker \ cancelled /\ work[targetLock[t]].pc \in Unrecorded

\* That is so of a job that has passed in this call, while the call goes on.
PassedInv ==
  phase \in {"run", "ok"} => \A j \in Job : work[Me(j)].pc \in Passed => Kept(j)

\* The counters are what is still to be validated, and the heap what is not to wait.
OrderInv ==
  /\ indegree = [j \in Job |-> Cardinality(Requires[j] \ validated)]
  /\ heap = {j \in pending : Requires[j] \subseteq validated}
  /\ \A j \in Job \ pending : Requires[j] \subseteq validated
  /\ phase = "run" /\ pending \notin {{}, Job} => Futures # {}

\* A former candidate is gone before the port of its successor is published.
LegacyInv ==
  /\ \A t \in Target : pathRec[t] # Null => legacy[t] = "none"
  /\ \A w \in Worker : work[w].pc \in {"port", "record"} => legacy[FileOf(w)] = "none"

FilesInv == \A w \in Worker : FileInv(w)

Inv ==
  /\ TypeOK /\ SchedInv /\ LockInv /\ ValueInv
  /\ FilesInv /\ BytesInv /\ PathInv /\ IndexInv
  /\ PortInv /\ PassedInv /\ OrderInv

-----------------------------------------------------------------------------
(* Constants and data                                                      *)

Task == [pc : Steps, val : Port, before : Bytes \cup {Absent}, bind : [Job -> Port]]

\* Threads are pairs of a call and a job, and none is Null.
LEMMA Threads ==
  /\ \A w \in Worker : /\ w[1] \in 1 .. MaxCall /\ w[2] \in Job /\ w = <<w[1], w[2]>>
                       /\ FileOf(w) \in Target /\ FileOf(w) = TargetOf[w[2]]
                       /\ JobOf(w) = w[2] /\ w # Null
  /\ \A j \in Job : TargetOf[j] \in Target /\ Requires[j] \subseteq Job /\ Answer[j] \subseteq Value
  /\ \A n \in 1 .. MaxCall, j \in Job : <<n, j>> \in Worker /\ <<n, j>>[1] = n /\ <<n, j>>[2] = j
  /\ Idle \in Task /\ Idle.pc = "idle"
  /\ \A x \in Steps : [Idle EXCEPT !.pc = x] \in Task /\ [Idle EXCEPT !.pc = x].pc = x
<1>1. \A w \in Worker : w[1] \in 1 .. MaxCall /\ w[2] \in Job /\ w = <<w[1], w[2]>>
      BY DEF Worker
<1>2. \A w \in Worker : w # Null
      BY MarkAssumption
<1>3. \A w \in Worker : FileOf(w) \in Target /\ FileOf(w) = TargetOf[w[2]] /\ JobOf(w) = w[2]
      BY <1>1, ArtifactAssumption DEF FileOf, JobOf
<1>4. \A j \in Job : TargetOf[j] \in Target /\ Requires[j] \subseteq Job /\ Answer[j] \subseteq Value
      BY ArtifactAssumption
<1>5. \A n \in 1 .. MaxCall, j \in Job : <<n, j>> \in Worker /\ <<n, j>>[1] = n /\ <<n, j>>[2] = j
      BY DEF Worker
<1>6. Idle \in Task /\ Idle.pc = "idle"
      BY DEF Idle, Task, Port, Steps
<1>7. \A x \in Steps : [Idle EXCEPT !.pc = x] \in Task /\ [Idle EXCEPT !.pc = x].pc = x
      BY DEF Idle, Task, Port
<1> QED BY <1>1, <1>2, <1>3, <1>4, <1>5, <1>6, <1>7

\* Bytes, and the answers in them.
LEMMA Pieces ==
  /\ Absent \notin Bytes /\ <<>> \in Bytes /\ Null \notin Value
  /\ \A j \in Job, v \in Value : << <<j, v>> >> \in Bytes
  /\ \A s \in Bytes, j \in Job, v \in Value :
       Append(s, <<j, v>>) \in Bytes /\ Contains(Append(s, <<j, v>>), <<j, v>>)
  /\ \A s \in Bytes, j \in Job, v \in Value : \A x : Contains(s, x) => Contains(Append(s, <<j, v>>), x)
  /\ \A j, v, x : Contains(<< <<j, v>> >>, x) <=> x = <<j, v>>
<1>1. Absent \notin Bytes /\ <<>> \in Bytes /\ Null \notin Value
      BY ArtifactAssumption DEF Bytes
<1>2. \A j \in Job, v \in Value : << <<j, v>> >> \in Bytes
      BY DEF Bytes
<1>3. ASSUME NEW s \in Bytes, NEW j \in Job, NEW v \in Value
      PROVE  /\ Append(s, <<j, v>>) \in Bytes
             /\ Contains(Append(s, <<j, v>>), <<j, v>>)
             /\ \A x : Contains(s, x) => Contains(Append(s, <<j, v>>), x)
  <2>1. <<j, v>> \in Job \X Value /\ s \in Seq(Job \X Value) /\ Len(s) \in Nat
        BY DEF Bytes
  <2> DEFINE p == <<j, v>>
             q == Append(s, p)
  <2>2. p \in Job \X Value
        BY <2>1
  <2> HIDE DEF p
  <2>3. /\ q \in Seq(Job \X Value) /\ Len(q) = Len(s) + 1 /\ q[Len(s) + 1] = p
        /\ \A i \in 1 .. Len(s) : q[i] = s[i]
        BY <2>1, <2>2
  <2> HIDE DEF q
  <2>4. Contains(q, p)
        BY <2>1, <2>3 DEF Contains
  <2>5. \A x : Contains(s, x) => Contains(q, x)
        BY <2>1, <2>3 DEF Contains
  <2> QED BY <2>3, <2>4, <2>5 DEF q, p, Bytes
<1>4. \A j, v, x : Contains(<< <<j, v>> >>, x) <=> x = <<j, v>>
      BY DEF Contains
<1> QED BY <1>1, <1>2, <1>3, <1>4

\* Records are none of the marks.
LEMMA Receipts ==
  \A r \in Receipt : /\ r # Null /\ r.job \in Job /\ r.val \in Value /\ r.after \in Bytes
                     /\ r.bind \in [Job -> Port] /\ r.impl \in 1 .. MaxImpl /\ r.after # Absent
BY MarkAssumption, Pieces DEF Receipt

\* A type correct state.
LEMMA Typed ==
  ASSUME TypeOK
  PROVE  /\ call \in 1 .. MaxCall /\ call \in Nat
         /\ \A j \in Job : Me(j) \in Worker /\ Me(j)[1] = call /\ Me(j)[2] = j
         /\ \A w \in Worker : w[1] = call => w = Me(w[2])
         /\ work \in [Worker -> Task]
         /\ \A w \in Worker : /\ work[w].pc \in Steps /\ work[w].val \in Port
                              /\ work[w].before \in Bytes \cup {Absent} /\ work[w].bind \in [Job -> Port]
<1>1. call \in 1 .. MaxCall /\ call \in Nat
      BY ArtifactAssumption DEF TypeOK
<1>2. \A j \in Job : Me(j) \in Worker /\ Me(j)[1] = call /\ Me(j)[2] = j
      BY <1>1, Threads DEF Me
<1>3. \A w \in Worker : w[1] = call => w = Me(w[2])
      BY Threads DEF Me
<1>4. work \in [Worker -> Task]
      BY DEF TypeOK, Task
<1>5. \A w \in Worker : work[w] \in Task
      BY <1>4
<1>6. \A x \in Task : /\ x.pc \in Steps /\ x.val \in Port
                      /\ x.before \in Bytes \cup {Absent} /\ x.bind \in [Job -> Port]
      BY DEF Task
<1> QED BY <1>1, <1>2, <1>3, <1>4, <1>5, <1>6

-----------------------------------------------------------------------------
(* A step of a thread, seen by the scheduler and by the locks              *)

\* A thread goes on, inside its generation or at the end of its validation.
Moves(w) ==
  /\ work[w].pc \in Live
  /\ \A v \in Worker \ {w} : work'[v] = work[v]
  /\ work[w].pc # "check" => work'[w].pc \in Generates
  /\ work[w].pc = "check" => work'[w].pc \in {"valid", "failed"}
  /\ UNCHANGED <<runVars, phase, schedVars, cancelled>>

\* A moving thread is where the sets of the scheduler have it.
LEMMA MovesKeepSched ==
  ASSUME TypeOK, SchedInv, NEW w \in Worker, Moves(w)
  PROVE  SchedInv'
<1> USE Typed, Threads
<1>0. UNCHANGED <<impl, call, crashes, phase, indegree, heap, pending, generating, validating, validated, cancelled>>
      BY DEF Moves, runVars, schedVars
<1>1. \A j \in Job : Me(j)' = Me(j)
      BY <1>0 DEF Me
<1>2. Futures' = Futures
      BY <1>0 DEF Futures
<1>3. work[w].pc \in Live /\ work[w].pc # "idle"
      BY DEF Moves, Live, HoldingJob, Holding
<1>4. \A v \in Worker : (v[1] > call \/ (v[1] = call /\ v[2] \in pending)) =>
        work'[v].pc = "idle" /\ v \notin cancelled
      BY <1>3 DEF SchedInv, Moves
<1>5. generating \subseteq Job /\ validating \subseteq Job /\ validated \subseteq Job
      BY DEF TypeOK
<1>6. \A j \in generating : work'[Me(j)].pc \in Generates
  <2> SUFFICES ASSUME NEW j \in generating PROVE work'[Me(j)].pc \in Generates
      OBVIOUS
  <2>1. Me(j) \in Worker /\ work[Me(j)].pc \in Generates /\ "check" \notin Generates
        BY <1>5 DEF SchedInv, Generates, HoldingJob, Holding
  <2> QED BY <2>1 DEF Moves
<1>7. \A j \in validating : work'[Me(j)].pc \in {"check", "valid", "failed"}
  <2> SUFFICES ASSUME NEW j \in validating PROVE work'[Me(j)].pc \in {"check", "valid", "failed"}
      OBVIOUS
  <2>1. Me(j) \in Worker /\ work[Me(j)].pc \in {"check", "valid", "failed"}
        BY <1>5 DEF SchedInv
  <2>2. CASE Me(j) = w
        BY <1>3, <2>1, <2>2 DEF Moves, Live, HoldingJob, Holding
  <2>3. CASE Me(j) # w
        BY <2>1, <2>3 DEF Moves
  <2> QED BY <2>2, <2>3
<1>8. \A j \in validated : work'[Me(j)].pc = "valid"
  <2> SUFFICES ASSUME NEW j \in validated PROVE work'[Me(j)].pc = "valid"
      OBVIOUS
  <2>1. Me(j) \in Worker /\ work[Me(j)].pc = "valid"
        BY <1>5 DEF SchedInv
  <2>2. Me(j) # w
        BY <1>3, <2>1 DEF Live, HoldingJob, Holding
  <2> QED BY <2>1, <2>2 DEF Moves
<1>9. ASSUME NEW v \in Worker, work'[v].pc \in Live
      PROVE  v \in cancelled \/ (v[1] = call /\ v[2] \in Futures /\ phase \in {"run", "cancel"})
  <2>1. work[v].pc \in Live
        BY <1>3, <1>9 DEF Moves
  <2> QED BY <2>1 DEF SchedInv
<1> HIDE Typed, Threads
<1>10. /\ \A j \in generating' : work'[Me(j)'].pc \in Generates
       /\ \A j \in validating' : work'[Me(j)'].pc \in {"check", "valid", "failed"}
       /\ \A j \in validated' : work'[Me(j)'].pc = "valid"
       BY <1>0, <1>1, <1>5, <1>6, <1>7, <1>8
<1> QED BY <1>0, <1>2, <1>4, <1>9, <1>10 DEF SchedInv

\* Nothing is said of the order of the jobs that such a step could change.
LEMMA MovesKeepOrder ==
  ASSUME OrderInv, UNCHANGED <<phase, schedVars>>
  PROVE  OrderInv'
BY DEF OrderInv, schedVars, Futures

Only(w) == \A v \in Worker \ {w} : work'[v] = work[v]

\* The thread neither takes nor leaves a lock.
LEMMA SameLocks ==
  ASSUME LockInv, NEW w \in Worker, Only(w), UNCHANGED lockVars,
         work'[w].pc \in HoldingJob <=> work[w].pc \in HoldingJob,
         work'[w].pc \in Holding <=> work[w].pc \in Holding
  PROVE  LockInv'
<1>1. UNCHANGED <<jobLock, targetLock>>
      BY DEF lockVars
<1>2. \A v \in Worker : /\ work'[v].pc \in HoldingJob <=> work[v].pc \in HoldingJob
                        /\ work'[v].pc \in Holding <=> work[v].pc \in Holding
      BY DEF Only
<1> QED BY <1>1, <1>2 DEF LockInv

\* The thread leaves its locks.
LEMMA UnlockKeepsLocks ==
  ASSUME TypeOK, LockInv, NEW w \in Worker, Only(w), Unlock(w), work'[w].pc \notin HoldingJob
  PROVE  LockInv'
<1> USE Threads
<1>1. /\ \A j \in Job : jobLock'[j] = IF jobLock[j] = w THEN Null ELSE jobLock[j]
      /\ \A t \in Target : targetLock'[t] = IF targetLock[t] = w THEN Null ELSE targetLock[t]
      BY DEF Unlock
<1>2. work'[w].pc \notin Holding
      BY DEF HoldingJob
<1>3. ASSUME NEW v \in Worker
      PROVE  /\ work'[v].pc \in HoldingJob <=> jobLock'[v[2]] = v
             /\ work'[v].pc \in Holding <=> targetLock'[FileOf(v)] = v
  <2>1. CASE v = w
        BY <1>1, <1>2, <2>1
  <2>2. CASE v # w
    <3>1. /\ work[v].pc \in HoldingJob <=> jobLock[v[2]] = v
          /\ work[v].pc \in Holding <=> targetLock[FileOf(v)] = v
          BY DEF LockInv
    <3>2. work'[v] = work[v]
          BY <2>2 DEF Only
    <3> QED BY <1>1, <2>2, <3>1, <3>2
  <2> QED BY <2>1, <2>2
<1>4. /\ \A j \in Job : jobLock'[j] # Null => jobLock'[j][2] = j
      /\ \A t \in Target : targetLock'[t] # Null => FileOf(targetLock'[t]) = t
      BY <1>1 DEF LockInv
<1> QED BY <1>3, <1>4 DEF LockInv, FileOf, JobOf

\* Two holders of one target are one.
LEMMA OneHolder ==
  ASSUME TypeOK, LockInv
  PROVE  /\ \A v, w \in Worker : work[v].pc \in Holding /\ work[w].pc \in Holding /\ FileOf(v) = FileOf(w) => v = w
         /\ \A v, w \in Worker : work[v].pc \in HoldingJob /\ work[w].pc \in HoldingJob /\ v[2] = w[2] => v = w
         /\ \A t \in Target : targetLock[t] # Null =>
              /\ targetLock[t] \in Worker /\ FileOf(targetLock[t]) = t
              /\ work[targetLock[t]].pc \in Holding
<1>1. \A v, w \in Worker : work[v].pc \in Holding /\ work[w].pc \in Holding /\ FileOf(v) = FileOf(w) => v = w
      BY DEF LockInv
<1>2. \A v, w \in Worker : work[v].pc \in HoldingJob /\ work[w].pc \in HoldingJob /\ v[2] = w[2] => v = w
      BY DEF LockInv
<1>3. ASSUME NEW t \in Target, targetLock[t] # Null
      PROVE  /\ targetLock[t] \in Worker /\ FileOf(targetLock[t]) = t
             /\ work[targetLock[t]].pc \in Holding
  <2>1. targetLock[t] \in Worker
        BY <1>3 DEF TypeOK
  <2>2. FileOf(targetLock[t]) = t
        BY <1>3 DEF LockInv
  <2> QED BY <2>1, <2>2 DEF LockInv
<1> QED BY <1>1, <1>2, <1>3

-----------------------------------------------------------------------------
(* A step of a thread, seen by the evidence                                *)

\* The step of w touches the disk only under its lock, and leaves nothing out of its
\* histories.
Touches(w) ==
  /\ \A t \in Target \ {FileOf(w)} : content'[t] = content[t] /\ pathRec'[t] = pathRec[t]
  /\ \A j \in Job \ {w[2]} : jobRec'[j] = jobRec[j]
  /\ work[w].pc \in Holding \/ UNCHANGED disk
  /\ torn \subseteq torn' /\ unindexed \subseteq unindexed'

\* What the other holders know is untouched.
LEMMA OthersKeepFiles ==
  ASSUME Inv, NEW w \in Worker, Moves(w), Touches(w), FileInv(w)'
  PROVE  FilesInv'
<1> USE Threads
<1> SUFFICES ASSUME NEW v \in Worker, v # w PROVE FileInv(v)'
    BY DEF FilesInv
<1>1. work'[v] = work[v] /\ impl' = impl
      BY DEF Moves, runVars
<1>2. FileInv(v)
      BY DEF Inv, FilesInv
<1>3. CASE work[v].pc \notin Holding
      BY <1>1, <1>3 DEF FileInv, Holding, Unrecorded
<1>4. CASE work[v].pc \in Holding
  <2>1. /\ content'[FileOf(v)] = content[FileOf(v)] /\ pathRec'[FileOf(v)] = pathRec[FileOf(v)]
        /\ jobRec'[v[2]] = jobRec[v[2]]
    <3>1. CASE UNCHANGED disk
          BY <3>1 DEF disk
    <3>2. CASE work[w].pc \in Holding
      <4>1. FileOf(v) # FileOf(w)
            BY <1>4, <3>2, OneHolder DEF Inv
      <4> QED BY <4>1 DEF Touches
    <3> QED BY <3>1, <3>2 DEF Touches
  <2>2. Prior(v)' = Prior(v) /\ Record(v)' = Record(v) /\ Piece(v)' = Piece(v)
        BY <1>1, <2>1 DEF Prior, Record, Piece, After
  <2>3. Outdated(v[2]) => Outdated(v[2])'
        BY <2>1 DEF Outdated, Touches
  <2>4. unindexed \subseteq unindexed'
        BY DEF Touches
  <2> QED BY <1>1, <1>2, <2>1, <2>2, <2>3, <2>4 DEF FileInv
<1> QED BY <1>3, <1>4

\* A thread that is not cancelled is of the current call.
LEMMA Current ==
  ASSUME TypeOK, SchedInv, NEW w \in Worker, work[w].pc \in Live, w \notin cancelled
  PROVE  w = Me(w[2]) /\ w[1] = call /\ phase \in {"run", "cancel"} /\ w[2] \in Futures
<1>1. w[1] = call /\ phase \in {"run", "cancel"} /\ w[2] \in Futures
      BY DEF SchedInv
<1> QED BY <1>1, Typed

\* Ports are only published by threads of the current call.
LEMMA PortsKept ==
  ASSUME Inv, NEW w \in Worker, Moves(w),
         \A j \in Job : ports'[j] = ports[j] \/ (j = w[2] /\ w \notin cancelled),
         w = Me(w[2]) => PortOK(w[2])'
  PROVE  PortInv'
<1> USE Threads
<1> SUFFICES ASSUME NEW j \in Job PROVE PortOK(j)'
    BY DEF PortInv
<1>0. TypeOK /\ SchedInv /\ PortOK(j) /\ Me(j)' = Me(j) /\ Me(j) \in Worker /\ Me(j)[2] = j
      BY Typed DEF Inv, PortInv, Moves, runVars, Me
<1>1. CASE Me(j) = w
      BY <1>0, <1>1
<1>2. CASE Me(j) # w
  <2>1. work'[Me(j)] = work[Me(j)]
        BY <1>0, <1>2 DEF Moves
  <2>2. ports'[j] = ports[j]
    <3>1. CASE j = w[2] /\ w \notin cancelled
          BY <1>0, <1>2, <3>1, Current DEF Moves
    <3> QED BY <3>1
  <2> QED BY <1>0, <2>1, <2>2 DEF PortOK
<1> QED BY <1>1, <1>2

\* A step that leaves the disk alone keeps all evidence; who stops while it writes, or
\* between the two records, is recorded in a history.
LEMMA QuietKeeps ==
  ASSUME Inv, TypeOK', LockInv', NEW w \in Worker, Moves(w), Touches(w), UNCHANGED disk,
         FileInv(w)',
         work[w].pc = "index" => FileOf(w) \in unindexed',
         work[w].pc \in Unrecorded => FileOf(w) \in torn' \/ work'[w].pc \in Unrecorded,
         work[w].pc \in Unrecorded /\ w \notin cancelled /\ pathRec[FileOf(w)] # Null =>
           work'[w].pc \in Unrecorded,
         \A j \in Job : ports'[j] = ports[j] \/ (j = w[2] /\ w \notin cancelled),
         w = Me(w[2]) => PortOK(w[2])',
         w = Me(w[2]) /\ phase \in {"run", "ok"} /\ work'[w].pc \in Passed => Kept(w[2])'
  PROVE  FilesInv' /\ BytesInv' /\ PathInv' /\ IndexInv' /\ PortInv' /\ PassedInv'
<1> USE Threads
<1>0. UNCHANGED <<content, pathRec, jobRec>>
      BY DEF disk
<1>1. FilesInv'
      BY OthersKeepFiles
<1>2. PortInv'
      BY PortsKept
<1>a. TypeOK /\ SchedInv /\ LockInv
      BY DEF Inv
<1>b. \A v \in Worker \ {w} : work'[v] = work[v]
      BY DEF Moves
<1>3. PathInv'
  <2>1. \A j \in Job : Indexed(j) => Indexed(j)'
    <3> SUFFICES ASSUME NEW j \in Job, NEW v \in Worker, v[2] = j, work[v].pc = "index"
                 PROVE  TargetOf[j] \in unindexed' \/ work'[v].pc = "index"
        BY <1>0 DEF Indexed, Touches
    <3> QED BY <1>b
  <2>2. \A t \in Target : pathRec[t] # Null => pathRec[t].job \in Job
        BY <1>a, Receipts DEF TypeOK
  <2> QED BY <1>0, <2>1, <2>2 DEF Inv, PathInv
<1>4. IndexInv'
  <2> SUFFICES ASSUME NEW j \in Job, jobRec[j] # Null
               PROVE  \/ Contains(pathRec[TargetOf[j]].after, <<j, jobRec[j].val>>)
                      \/ TargetOf[j] \in unindexed'
                      \/ \E v \in Worker : v[2] = j /\ work'[v].pc = "index"
      BY <1>0 DEF Inv, IndexInv
  <2>1. \/ Contains(pathRec[TargetOf[j]].after, <<j, jobRec[j].val>>)
        \/ TargetOf[j] \in unindexed
        \/ \E v \in Worker : v[2] = j /\ work[v].pc = "index"
        BY DEF Inv, IndexInv
  <2>2. ASSUME NEW v \in Worker, v[2] = j, work[v].pc = "index"
        PROVE  \/ TargetOf[j] \in unindexed'
               \/ work'[v].pc = "index"
        BY <1>b, <2>2
  <2> QED BY <2>1, <2>2 DEF Touches
\* A target being written stays so, with its lock, or is torn.
<1>5. ASSUME NEW t \in Target, targetLock[t] # Null, work[targetLock[t]].pc \in Unrecorded,
             t \notin torn' \/ (targetLock[t] \notin cancelled /\ pathRec[t] # Null)
      PROVE  targetLock'[t] = targetLock[t] /\ work'[targetLock[t]].pc \in Unrecorded
  <2> DEFINE v == targetLock[t]
  <2>1. v \in Worker /\ FileOf(v) = t
        BY <1>5, <1>a, OneHolder
  <2>2. work'[v].pc \in Unrecorded
    <3>1. CASE v = w
          BY <1>5, <2>1, <3>1
    <3>2. CASE v # w
          BY <1>5, <1>b, <2>1, <3>2
    <3> QED BY <3>1, <3>2
  <2>3. work'[v].pc \in Holding
        BY <2>2 DEF Unrecorded, Holding
  <2>4. targetLock'[FileOf(v)] = v
        BY <2>1, <2>3 DEF LockInv, FileOf, JobOf
  <2> QED BY <2>1, <2>2, <2>4
<1>6. BytesInv'
  <2> SUFFICES ASSUME NEW t \in Target, t \notin torn',
                      targetLock'[t] = Null \/ work'[targetLock'[t]].pc \notin Unrecorded
               PROVE  Proven(t)
      BY <1>0 DEF BytesInv, Proven
  <2>1. targetLock[t] = Null \/ work[targetLock[t]].pc \notin Unrecorded
    <3> SUFFICES ASSUME targetLock[t] # Null, work[targetLock[t]].pc \in Unrecorded PROVE FALSE
        OBVIOUS
    <3> QED BY <1>5
  <2> QED BY <2>1 DEF Inv, BytesInv, Touches
<1>7. PassedInv'
  <2> SUFFICES ASSUME NEW j \in Job, phase \in {"run", "ok"}, work'[Me(j)].pc \in Passed
               PROVE  Kept(j)'
    <3>1. phase' = phase /\ \A j \in Job : Me(j)' = Me(j)
          BY DEF Moves, runVars, Me
    <3> QED BY <3>1 DEF PassedInv
  <2>0. Me(j) \in Worker /\ Me(j)[2] = j
        BY <1>a, Typed
  <2>1. CASE Me(j) = w
        BY <2>0, <2>1
  <2>2. CASE Me(j) # w
    <3> DEFINE t == TargetOf[j]
    <3>1. work[Me(j)].pc \in Passed
          BY <1>b, <2>0, <2>2
    <3>2. Kept(j)
          BY <3>1 DEF Inv, PassedInv
    <3>3. ports'[j] = ports[j]
      <4>1. CASE j = w[2] /\ w \notin cancelled
            BY <1>a, <2>2, <4>1, Current DEF Moves
      <4> QED BY <4>1
    <3>4. Outdated(j) => Outdated(j)'
          BY <1>0 DEF Outdated, Touches
    <3>5. t \in Target /\ cancelled' = cancelled
          BY DEF Moves
    <3>6. \/ content[t] = pathRec[t].after
          \/ targetLock'[t] \in Worker \ cancelled /\ work'[targetLock'[t]].pc \in Unrecorded
      <4>1. CASE targetLock[t] \in Worker \ cancelled /\ work[targetLock[t]].pc \in Unrecorded
            BY <1>5, <3>2, <3>5, <4>1 DEF Kept
      <4> QED BY <3>2, <4>1 DEF Kept
    <3> QED BY <1>0, <3>2, <3>3, <3>4, <3>5, <3>6 DEF Kept, Touches
  <2> QED BY <2>1, <2>2
<1> QED BY <1>1, <1>2, <1>3, <1>4, <1>6, <1>7

-----------------------------------------------------------------------------
(* The steps of a thread                                                   *)

\* A step of w replaces its task.
Becomes(w, x) == x \in Task /\ work' = [work EXCEPT ![w] = x]

\* Then the others keep theirs.
LEMMA Becoming ==
  ASSUME TypeOK, NEW w \in Worker, NEW x, Becomes(w, x)
  PROVE  work' \in [Worker -> Task] /\ work'[w] = x /\ Only(w)
BY Typed DEF Becomes, Only

\* The types, for steps that leave the scheduler alone.
LEMMA MovesKeepTypes ==
  ASSUME TypeOK, UNCHANGED <<runVars, phase, schedVars, cancelled>>,
         work' \in [Worker -> Task],
         content' \in [Target -> Bytes \cup {Absent}],
         pathRec' \in [Target -> Receipt \cup {Null}], jobRec' \in [Job -> Receipt \cup {Null}],
         ports' \in [Job -> Port], legacy' \in [Target -> Former],
         jobLock' \in [Job -> Worker \cup {Null}], targetLock' \in [Target -> Worker \cup {Null}],
         torn' \subseteq Target, unindexed' \subseteq Target
  PROVE  TypeOK'
BY DEF TypeOK, Task, runVars, schedVars

\* A thread has failed: nothing is lost from sight.
LEMMA FailsKeeps ==
  ASSUME Inv, NEW w \in Worker, Fails(w), work[w].pc \in Live \ {"check"},
         work[w].pc \in Unrecorded => w \in cancelled \/ pathRec[FileOf(w)] = Null
  PROVE  Inv'
<1> USE Threads
<1> DEFINE x == [Idle EXCEPT !.pc = "failed"]
<1>0. TypeOK /\ SchedInv /\ LockInv
      BY DEF Inv
<1>1. x \in Task /\ x.pc = "failed"
      BY DEF Steps
<1>2. Becomes(w, x)
      BY <1>1 DEF Fails, Ends, Becomes
<1> HIDE DEF x
<1>3. work' \in [Worker -> Task] /\ work'[w] = x /\ Only(w)
      BY <1>0, <1>2, Becoming
<1>4. UNCHANGED <<runVars, phase, schedVars, cancelled, disk, legacy, ports>>
      BY DEF Fails
<1>5. /\ torn' = torn \cup {FileOf(v) : v \in {y \in {w} : work[y].pc \in Unrecorded}}
      /\ unindexed' = unindexed \cup {FileOf(v) : v \in {y \in {w} : work[y].pc = "index"}}
      BY DEF Fails, Leaves
<1>6. torn' \subseteq Target /\ unindexed' \subseteq Target
      BY <1>0, <1>5 DEF TypeOK
<1>7. /\ torn \subseteq torn' /\ unindexed \subseteq unindexed'
      /\ work[w].pc \in Unrecorded => FileOf(w) \in torn'
      /\ work[w].pc = "index" => FileOf(w) \in unindexed'
      BY <1>5 DEF Unrecorded
<1>8. TypeOK'
  <2>1. jobLock' \in [Job -> Worker \cup {Null}] /\ targetLock' \in [Target -> Worker \cup {Null}]
        BY <1>0 DEF Fails, Unlock, TypeOK
  <2> QED BY <1>0, <1>3, <1>4, <1>6, <2>1, MovesKeepTypes DEF TypeOK, disk
<1>9. LockInv'
  <2>1. Unlock(w)
        BY DEF Fails
  <2> QED BY <1>0, <1>1, <1>3, <2>1, UnlockKeepsLocks DEF HoldingJob, Holding
<1>10. Moves(w)
       BY <1>1, <1>3, <1>4 DEF Moves, Only, Generates
<1>11. SchedInv' /\ OrderInv'
       BY <1>0, <1>4, <1>10, MovesKeepSched, MovesKeepOrder DEF Inv
<1>12. Touches(w)
       BY <1>4, <1>7 DEF Touches, disk
<1>13. FileInv(w)'
       BY <1>1, <1>3 DEF FileInv, Unrecorded
<1>14. PortOK(w[2])' \/ w # Me(w[2])
  <2>1. Me(w[2])' = Me(w[2])
        BY <1>4 DEF Me, runVars
  <2> QED BY <1>1, <1>3, <2>1 DEF PortOK, Passed
<1>15. work'[w].pc \notin Passed
       BY <1>1, <1>3 DEF Passed
<1>16. FilesInv' /\ BytesInv' /\ PathInv' /\ IndexInv' /\ PortInv' /\ PassedInv'
       BY <1>4, <1>7, <1>8, <1>9, <1>10, <1>12, <1>13, <1>14, <1>15, QuietKeeps
<1>17. ValueInv'
       BY <1>1, <1>3 DEF Inv, ValueInv, Only
<1> QED BY <1>8, <1>9, <1>11, <1>16, <1>17 DEF Inv

\* A thread moves without touching disk, ports and histories.
LEMMA WalkKeeps ==
  ASSUME Inv, TypeOK', LockInv', NEW w \in Worker, Moves(w), Only(w),
         UNCHANGED <<disk, ports, histVars>>,
         work[w].pc \notin Unrecorded \cup {"index"},
         work'[w].pc \notin Unrecorded \cup {"index"},
         work'[w].pc \in Passed => work[w].pc \in Passed,
         work'[w].pc \in {"mat", "restore"} => work'[w].val \in Value,
         FileInv(w)'
  PROVE  Inv'
<1> USE Threads
<1>0. TypeOK /\ SchedInv /\ LockInv /\ PortInv /\ PassedInv
      BY DEF Inv
<1>1. UNCHANGED <<phase, schedVars, runVars, content, pathRec, jobRec, ports, torn, unindexed, cancelled>>
      BY DEF Moves, disk, histVars
<1>2. SchedInv' /\ OrderInv'
      BY <1>0, <1>1, MovesKeepSched, MovesKeepOrder DEF Inv
<1>3. Touches(w)
      BY <1>1 DEF Touches, disk
<1>4. Me(w[2])' = Me(w[2])
      BY <1>1 DEF Me, runVars
<1>5. w = Me(w[2]) => PortOK(w[2]) /\ PortOK(w[2])'
      BY <1>0, <1>1, <1>4 DEF PortInv, PortOK, Unrecorded
<1>6. w = Me(w[2]) /\ phase \in {"run", "ok"} /\ work'[w].pc \in Passed => Kept(w[2])'
  <2> SUFFICES ASSUME w = Me(w[2]), phase \in {"run", "ok"}, work'[w].pc \in Passed
               PROVE  Kept(w[2])'
      OBVIOUS
  <2> DEFINE t == TargetOf[w[2]]
  <2>1. Kept(w[2])
        BY <1>0 DEF PassedInv
  <2>2. Outdated(w[2])' = Outdated(w[2])
        BY <1>1 DEF Outdated
  <2>3. targetLock[t] \in Worker \ cancelled /\ work[targetLock[t]].pc \in Unrecorded =>
          targetLock'[t] = targetLock[t] /\ work'[targetLock[t]].pc \in Unrecorded
    <3> SUFFICES ASSUME NEW v \in Worker, v = targetLock[t], work[v].pc \in Unrecorded
                 PROVE  targetLock'[t] = v /\ work'[v].pc \in Unrecorded
        OBVIOUS
    <3>1. v # Null /\ FileOf(v) = t
          BY <1>0, OneHolder
    <3>2. work'[v] = work[v]
          BY DEF Only
    <3>3. work'[v].pc \in Holding
          BY <3>2 DEF Unrecorded, Holding
    <3> QED BY <3>1, <3>2, <3>3 DEF LockInv, FileOf, JobOf
  <2> QED BY <1>1, <2>1, <2>2, <2>3 DEF Kept
<1>7. FilesInv' /\ BytesInv' /\ PathInv' /\ IndexInv' /\ PortInv' /\ PassedInv'
      BY <1>1, <1>3, <1>5, <1>6, QuietKeeps
<1>8. ValueInv'
      BY DEF Inv, ValueInv, Only, Unrecorded
<1> QED BY <1>2, <1>7, <1>8 DEF Inv

\* A task that only moves on.
LEMMA Moved ==
  ASSUME TypeOK, NEW w \in Worker, NEW p \in Steps, To(w, p)
  PROVE  /\ work' \in [Worker -> Task] /\ Only(w) /\ work'[w].pc = p
         /\ work'[w].val = work[w].val /\ work'[w].before = work[w].before
         /\ work'[w].bind = work[w].bind
<1>1. work \in [Worker -> Task] /\ work[w] \in Task
      BY Typed
<1>2. [work[w] EXCEPT !.pc = p] \in Task
      BY <1>1 DEF Task
<1>3. work' = [work EXCEPT ![w] = [work[w] EXCEPT !.pc = p]]
      BY DEF To
<1> QED BY <1>1, <1>2, <1>3 DEF Only, Task

\* What FileInv says of a thread that holds nothing.
LEMMA Outside ==
  ASSUME NEW w \in Worker, work'[w].pc \notin Holding
  PROVE  FileInv(w)'
BY DEF FileInv, Holding, Unrecorded

\* A thread begins, or is stopped before it has.
LEMMA StartKeeps ==
  ASSUME Inv, NEW w \in Worker, Start(w)
  PROVE  Inv'
<1> USE Threads
<1>0. TypeOK /\ LockInv /\ work[w].pc = "queued" /\ work \in [Worker -> Task]
      BY Typed DEF Inv, Start
<1>1. UNCHANGED <<disk, legacy, runVars, phase, schedVars, ports, cancelled, lockVars, histVars>>
      BY DEF Start
<1>2. work' \in [Worker -> Task] /\ Only(w) /\ work'[w].pc \in {"failed", "job"}
  <2>1. CASE Stopped(w)
    <3>1. To(w, "failed") /\ "failed" \in Steps
          BY <2>1 DEF Start, Steps
    <3> QED BY <1>0, <3>1, Moved
  <2>2. CASE ~Stopped(w)
    <3> DEFINE b == [j \in Job |-> IF j \in Requires[JobOf(w)] THEN ports[j] ELSE Null]
               x == [work[w] EXCEPT !.pc = "job", !.bind = b]
    <3>1. b \in [Job -> Port]
          BY <1>0 DEF TypeOK, Port
    <3>2. work' = [work EXCEPT ![w] = x]
          BY <2>2 DEF Start
    <3> HIDE DEF b
    <3>3. work[w] \in Task /\ "job" \in Steps
          BY <1>0 DEF Steps
    <3>4. x \in Task /\ x.pc = "job"
          BY <3>1, <3>3 DEF Task
    <3> HIDE DEF x
    <3> QED BY <1>0, <3>2, <3>4 DEF Only
  <2> QED BY <2>1, <2>2
<1>3. TypeOK'
      BY <1>0, <1>1, <1>2, MovesKeepTypes DEF TypeOK, disk, lockVars, histVars
<1>4. work'[w].pc \notin HoldingJob /\ work'[w].pc \notin Holding
      /\ work[w].pc \notin HoldingJob /\ work[w].pc \notin Holding
      BY <1>0, <1>2 DEF HoldingJob, Holding
<1>5. LockInv'
      BY <1>0, <1>1, <1>2, <1>4, SameLocks
<1>6. Moves(w)
      BY <1>0, <1>1, <1>2 DEF Moves, Only, Live, Generates
<1>7. FileInv(w)'
      BY <1>4, Outside
<1> QED BY <1>0, <1>1, <1>2, <1>3, <1>5, <1>6, <1>7, WalkKeeps DEF Unrecorded, Passed

\* A thread takes the lock of its job.
LEMMA LockJobKeeps ==
  ASSUME Inv, NEW w \in Worker, LockJob(w)
  PROVE  Inv'
<1> USE Threads
<1>0. /\ TypeOK /\ LockInv /\ work[w].pc = "job" /\ jobLock[w[2]] = Null
      /\ jobLock' = [jobLock EXCEPT ![w[2]] = w] /\ To(w, "target") /\ "target" \in Steps
      BY DEF Inv, LockJob, Steps
<1>1. UNCHANGED <<disk, legacy, runVars, phase, schedVars, ports, cancelled, targetLock, histVars>>
      BY DEF LockJob
<1>2. work' \in [Worker -> Task] /\ Only(w) /\ work'[w].pc = "target"
      BY <1>0, Moved
<1>3. TypeOK'
  <2>1. jobLock' \in [Job -> Worker \cup {Null}]
        BY <1>0 DEF TypeOK
  <2> QED BY <1>0, <1>1, <1>2, <2>1, MovesKeepTypes DEF TypeOK, disk, histVars
<1>4. LockInv'
  <2>1. \A j \in Job : jobLock'[j] = IF j = w[2] THEN w ELSE jobLock[j]
        BY <1>0 DEF TypeOK
  <2>2. ASSUME NEW v \in Worker
        PROVE  /\ work'[v].pc \in HoldingJob <=> jobLock'[v[2]] = v
               /\ work'[v].pc \in Holding <=> targetLock[FileOf(v)] = v
    <3>1. /\ work[v].pc \in HoldingJob <=> jobLock[v[2]] = v
          /\ work[v].pc \in Holding <=> targetLock[FileOf(v)] = v
          BY <1>0 DEF LockInv
    <3>2. CASE v = w
          BY <1>0, <1>2, <2>1, <3>1, <3>2 DEF HoldingJob, Holding
    <3>3. CASE v # w
          BY <1>0, <1>2, <2>1, <3>1, <3>3 DEF Only
    <3> QED BY <3>2, <3>3
  <2>3. \A j \in Job : jobLock'[j] # Null => jobLock'[j][2] = j
        BY <1>0, <2>1 DEF LockInv
  <2> QED BY <1>0, <1>1, <2>2, <2>3 DEF LockInv, FileOf, JobOf
<1>5. Moves(w)
      BY <1>0, <1>1, <1>2 DEF Moves, Only, Live, Generates, HoldingJob
<1>6. FileInv(w)'
      BY <1>2, Outside DEF Holding
<1> QED BY <1>0, <1>1, <1>2, <1>3, <1>4, <1>5, <1>6, WalkKeeps DEF Unrecorded, Passed

\* The record a thread goes by is one of its job: of the path, or of the index.
LEMMA PriorIs ==
  ASSUME Inv, NEW w \in Worker, Prior(w) # Null
  PROVE  /\ Prior(w) \in Receipt /\ pathRec[FileOf(w)] # Null /\ pathRec[FileOf(w)] \in Receipt
         /\ w[2] \in Creates => Alone(w[2], Prior(w).after)
         /\ \/ Prior(w) = pathRec[FileOf(w)] /\ pathRec[FileOf(w)].job = w[2]
            \/ Prior(w) = jobRec[w[2]] /\ pathRec[FileOf(w)].job # w[2]
<1> USE Threads
<1>1. /\ pathRec[FileOf(w)] \in Receipt \cup {Null} /\ jobRec[w[2]] \in Receipt \cup {Null}
      BY DEF Inv, TypeOK
<1>2. CASE pathRec[FileOf(w)] # Null /\ pathRec[FileOf(w)].job = w[2]
  <2>1. Prior(w) = pathRec[FileOf(w)]
        BY <1>2 DEF Prior
  <2>2. w[2] \in Creates => pathRec[FileOf(w)].after = << <<w[2], pathRec[FileOf(w)].val>> >>
        BY <1>2 DEF Inv, PathInv
  <2> QED BY <1>1, <1>2, <2>1, <2>2, Receipts DEF Alone
<1>3. CASE ~(pathRec[FileOf(w)] # Null /\ pathRec[FileOf(w)].job = w[2])
  <2>1. Prior(w) = jobRec[w[2]]
        BY <1>3 DEF Prior
  <2>a. FileOf(w) = TargetOf[w[2]] /\ w[2] \in Job /\ jobRec[w[2]] # Null /\ IndexInv
        BY <2>1 DEF Inv
  <2> HIDE Threads
  <2>2. /\ pathRec[FileOf(w)] # Null
        /\ w[2] \in Creates => jobRec[w[2]].after = << <<w[2], jobRec[w[2]].val>> >>
        BY <2>a DEF IndexInv
  <2> QED BY <1>1, <1>3, <2>1, <2>2, Receipts DEF Alone
<1> QED BY <1>2, <1>3

\* A thread with its target's lock has found evidence to restore, or none in its way.
LEMMA CompareKeeps ==
  ASSUME Inv, NEW w \in Worker, Compare(w)
  PROVE  Inv'
<1> USE Threads
<1>0. /\ TypeOK /\ LockInv /\ work[w].pc = "target" /\ targetLock[FileOf(w)] = Null
      /\ work \in [Worker -> Task] /\ work[w] \in Task
      BY Typed DEF Inv, Compare
<1>1. CASE Drifted(w)
      BY <1>0, <1>1, FailsKeeps DEF Compare, Live, HoldingJob, Unrecorded
<1>2. CASE ~Drifted(w)
  <2> DEFINE t == FileOf(w)
             reuse == Prior(w) # Null /\ ~Refreshing(w)
             p == IF reuse THEN "restore" ELSE "gen"
             v == IF reuse THEN Prior(w).val ELSE Null
             x == [work[w] EXCEPT !.before = content[t], !.pc = p, !.val = v]
  <2>1. /\ targetLock' = [targetLock EXCEPT ![t] = w]
        /\ UNCHANGED <<disk, legacy, runVars, phase, schedVars, ports, cancelled, jobLock, histVars>>
        BY <1>2 DEF Compare
  <2>2. work' = [work EXCEPT ![w] = x]
        BY <1>2 DEF Compare
  <2>3. p \in Steps /\ v \in Port /\ content[t] \in Bytes \cup {Absent} /\ (reuse => v \in Value)
        BY <1>0, PriorIs, Receipts DEF Steps, Port, TypeOK
  <2>4. x \in Task /\ x.pc = p /\ x.val = v /\ x.before = content[t] /\ x.bind = work[w].bind
    <3> HIDE DEF p, v
    <3> QED BY <1>0, <2>3 DEF Task
  <2>5. Only(w) /\ work' \in [Worker -> Task] /\ work'[w] = x
    <3> HIDE DEF x
    <3> QED BY <1>0, <2>2, <2>4 DEF Only
  <2>6. TypeOK'
    <3>1. targetLock' \in [Target -> Worker \cup {Null}]
          BY <1>0, <2>1 DEF TypeOK
    <3> QED BY <1>0, <2>1, <2>5, <3>1, MovesKeepTypes DEF TypeOK, disk, histVars
  <2>7. p \in {"restore", "gen"} /\ (p = "restore" <=> reuse)
        OBVIOUS
  <2>8. work'[w].pc = p /\ work'[w].val = v /\ work'[w].before = content[t]
        BY <2>4, <2>5
  <2>9. LockInv'
    <3> HIDE DEF p, v, x
    <3>1. \A u \in Target : targetLock'[u] = IF u = t THEN w ELSE targetLock[u]
          BY <1>0, <2>1 DEF TypeOK
    <3>2. ASSUME NEW y \in Worker
          PROVE  /\ work'[y].pc \in HoldingJob <=> jobLock[y[2]] = y
                 /\ work'[y].pc \in Holding <=> targetLock'[FileOf(y)] = y
      <4>1. /\ work[y].pc \in HoldingJob <=> jobLock[y[2]] = y
            /\ work[y].pc \in Holding <=> targetLock[FileOf(y)] = y
            BY <1>0 DEF LockInv
      <4>2. CASE y = w
            BY <1>0, <2>7, <2>8, <3>1, <4>1, <4>2 DEF HoldingJob, Holding
      <4>3. CASE y # w
            BY <1>0, <2>5, <3>1, <4>1, <4>3 DEF Only
      <4> QED BY <4>2, <4>3
    <3>3. \A u \in Target : targetLock'[u] # Null => FileOf(targetLock'[u]) = u
          BY <1>0, <3>1 DEF LockInv
    <3> QED BY <1>0, <2>1, <3>2, <3>3 DEF LockInv, FileOf, JobOf
  <2>10. Moves(w)
    <3> HIDE DEF p, v, x, reuse
    <3> QED BY <1>0, <2>1, <2>5, <2>7, <2>8 DEF Moves, Only, Live, Generates, HoldingJob, Holding
  <2>11. FileInv(w)'
    <3>1. /\ content'[t] = content[t] /\ pathRec'[t] = pathRec[t] /\ jobRec'[w[2]] = jobRec[w[2]]
          /\ Prior(w)' = Prior(w) /\ unindexed' = unindexed /\ Outdated(w[2])' = Outdated(w[2])
          BY <2>1 DEF disk, histVars, Prior, Outdated, FileOf, JobOf
    <3>2. /\ pathRec[t] # Null => pathRec[t].after = content[t]
          /\ Prior(w) # Null => content[t] # Absent /\ pathRec[t] # Null
          /\ Refreshing(w) /\ w[2] \in Creates => content[t] = Prior(w).after
          BY <1>2 DEF Drifted
    <3>3. CASE reuse
      <4>1. Contains(pathRec[t].after, <<w[2], v>>) \/ Outdated(w[2])
        <5>1. CASE Prior(w) = pathRec[t] /\ pathRec[t].job = w[2]
              BY <3>2, <3>3, <5>1 DEF Inv, PathInv
        <5>2. CASE Prior(w) = jobRec[w[2]] /\ pathRec[t].job # w[2]
          <6>1. ~\E y \in Worker : y[2] = w[2] /\ work[y].pc = "index"
                BY <1>0, OneHolder DEF HoldingJob, Holding
          <6>2. \/ Contains(pathRec[t].after, <<w[2], jobRec[w[2]].val>>)
                \/ t \in unindexed
            <7>1. jobRec[w[2]] # Null /\ w[2] \in Job /\ t = TargetOf[w[2]] /\ IndexInv
                  BY <3>3, <5>2 DEF Inv
            <7> QED BY <6>1, <7>1 DEF IndexInv
          <6> QED BY <3>2, <3>3, <5>2, <6>2 DEF Outdated
        <5> QED BY <3>3, <5>1, <5>2, PriorIs
      <4>2. jobRec[w[2]] # Null \/ t \in unindexed
        <5>1. ~\E y \in Worker : y[2] = w[2] /\ work[y].pc = "index"
              BY <1>0, OneHolder DEF HoldingJob, Holding
        <5>2. CASE Prior(w) = pathRec[t] /\ pathRec[t].job = w[2]
          <6>1. Indexed(w[2])
                BY <3>2, <3>3, <5>2 DEF Inv, PathInv
          <6> QED BY <5>1, <6>1 DEF Indexed
        <5> QED BY <3>3, <5>2, PriorIs
      <4>3. Piece(w)' = <<w[2], v>>
            BY <2>8 DEF Piece, JobOf
      <4>4. work'[w].pc = "restore"
            BY <2>8, <3>3
      <4> HIDE DEF p, v, x, reuse
      <4> QED BY <3>1, <3>2, <3>3, <4>1, <4>2, <4>3, <4>4 DEF FileInv, Unrecorded, reuse, FileOf, JobOf
    <3>4. CASE ~reuse
      <4>1. work'[w].pc = "gen"
            BY <2>8, <3>4
      <4>2. w[2] \in Creates /\ Prior(w) # Null => Alone(w[2], content[t])
            BY <3>2, <3>4, PriorIs
      <4> HIDE DEF p, v, x, reuse
      <4> QED BY <2>8, <3>1, <3>2, <4>1, <4>2 DEF FileInv, Unrecorded, FileOf, JobOf
    <3> QED BY <3>3, <3>4
  <2>12. /\ UNCHANGED <<disk, ports, histVars>>
         /\ work[w].pc \notin Unrecorded \cup {"index"}
         /\ work'[w].pc \notin Unrecorded \cup {"index"}
         /\ work'[w].pc \notin Passed
         /\ work'[w].pc \in {"mat", "restore"} => work'[w].val \in Value
    <3> HIDE DEF v, x, reuse
    <3> QED BY <1>0, <2>1, <2>3, <2>7, <2>8 DEF Unrecorded, Passed
  <2> HIDE DEF p, v, x, reuse, t
  <2> QED BY <2>5, <2>6, <2>9, <2>10, <2>11, <2>12, WalkKeeps
<1> QED BY <1>1, <1>2

\* The generator has failed, or has an answer.
LEMMA GenerateKeeps ==
  ASSUME Inv, NEW w \in Worker, Generate(w)
  PROVE  Inv'
<1> USE Threads
<1>0. TypeOK /\ LockInv /\ work[w].pc = "gen" /\ work \in [Worker -> Task] /\ work[w] \in Task
      BY Typed DEF Inv, Generate
<1>1. CASE Fails(w)
      BY <1>0, <1>1, FailsKeeps DEF Live, HoldingJob, Holding, Unrecorded
<1>2. CASE ~Fails(w)
  <2>1. UNCHANGED <<disk, legacy, runVars, phase, schedVars, ports, cancelled, lockVars, histVars>>
        BY <1>2 DEF Generate
  <2>2. PICK v \in Answer[w[2]] : work' = [work EXCEPT ![w] = [@ EXCEPT !.pc = "mat", !.val = v]]
        BY <1>2 DEF Generate
  <2>3. v \in Value /\ v \in Port /\ "mat" \in Steps
        BY DEF Port, Steps
  <2> DEFINE x == [work[w] EXCEPT !.pc = "mat", !.val = v]
  <2>4. x \in Task /\ x.pc = "mat" /\ x.val = v /\ x.before = work[w].before
        BY <1>0, <2>3 DEF Task
  <2>5. work' = [work EXCEPT ![w] = x]
        BY <2>2
  <2> HIDE DEF x
  <2>6. Only(w) /\ work' \in [Worker -> Task] /\ work'[w] = x
        BY <1>0, <2>4, <2>5 DEF Only
  <2>7. TypeOK'
        BY <1>0, <2>1, <2>6, MovesKeepTypes DEF TypeOK, disk, lockVars, histVars
  <2>8. LockInv'
        BY <1>0, <2>1, <2>4, <2>6, SameLocks DEF HoldingJob, Holding
  <2>9. Moves(w)
        BY <1>0, <2>1, <2>4, <2>6 DEF Moves, Only, Live, Generates, HoldingJob, Holding
  <2>10. FileInv(w)'
    <3>1. /\ content'[FileOf(w)] = content[FileOf(w)] /\ pathRec'[FileOf(w)] = pathRec[FileOf(w)]
          /\ Prior(w)' = Prior(w)
          BY <2>1 DEF disk, Prior, FileOf, JobOf
    <3>2. FileInv(w)
          BY DEF Inv, FilesInv
    <3> QED BY <1>0, <2>4, <2>6, <3>1, <3>2 DEF FileInv, Unrecorded, FileOf, JobOf
  <2> QED BY <1>0, <2>1, <2>3, <2>4, <2>6, <2>7, <2>8, <2>9, <2>10, WalkKeeps DEF Unrecorded, Passed
<1> QED BY <1>1, <1>2

\* A validation has ended.
LEMMA ValidateKeeps ==
  ASSUME Inv, NEW w \in Worker, Validate(w)
  PROVE  Inv'
<1> USE Threads
<1>0. TypeOK /\ LockInv /\ work[w].pc = "check"
      BY DEF Inv, Validate
<1>1. UNCHANGED <<disk, legacy, runVars, phase, schedVars, ports, cancelled, lockVars, histVars>>
      BY DEF Validate
<1>2. PICK end \in {"valid", "failed"} : To(w, end)
      BY DEF Validate
<1>3. work' \in [Worker -> Task] /\ Only(w) /\ work'[w].pc = end
      BY <1>0, <1>2, Moved DEF Steps
<1>4. TypeOK'
      BY <1>0, <1>1, <1>3, MovesKeepTypes DEF TypeOK, disk, lockVars, histVars
<1>5. LockInv'
      BY <1>0, <1>1, <1>3, SameLocks DEF HoldingJob, Holding
<1>6. Moves(w)
      BY <1>0, <1>1, <1>3 DEF Moves, Only, Live
<1>7. FileInv(w)'
      BY <1>3, Outside DEF Holding
<1> QED BY <1>0, <1>1, <1>3, <1>4, <1>5, <1>6, <1>7, WalkKeeps DEF Unrecorded, Passed

\* Evidence is restored.
LEMMA RestoreKeeps ==
  ASSUME Inv, NEW w \in Worker, Restore(w)
  PROVE  Inv'
<1> USE Threads
<1>0. TypeOK /\ LockInv /\ SchedInv /\ work[w].pc = "restore"
      BY DEF Inv, Restore
<1>1. CASE ~MayPublish(w)
      BY <1>0, <1>1, FailsKeeps DEF Restore, Live, HoldingJob, Holding, Unrecorded
<1>2. CASE MayPublish(w)
  <2> DEFINE x == [Idle EXCEPT !.pc = "passed"]
             t == FileOf(w)
  <2>1. /\ ports' = [ports EXCEPT ![w[2]] = work[w].val] /\ Unlock(w)
        /\ UNCHANGED <<disk, legacy, runVars, phase, schedVars, cancelled, histVars>>
        BY <1>2 DEF Restore
  <2>2. w \notin cancelled /\ work[w].val \in Value
        BY <1>0, <1>2 DEF MayPublish, Stopped, Inv, ValueInv
  <2>3. x \in Task /\ x.pc = "passed"
        BY DEF Steps
  <2>4. Becomes(w, x)
        BY <1>2, <2>3 DEF Restore, Ends, Becomes
  <2> HIDE DEF x
  <2>5. work' \in [Worker -> Task] /\ work'[w] = x /\ Only(w)
        BY <1>0, <2>4, Becoming
  <2>6. TypeOK'
    <3>1. jobLock' \in [Job -> Worker \cup {Null}] /\ targetLock' \in [Target -> Worker \cup {Null}]
          BY <1>0, <2>1 DEF Unlock, TypeOK
    <3>2. ports' \in [Job -> Port]
          BY <1>0, <2>1, <2>2 DEF TypeOK, Port
    <3> QED BY <1>0, <2>1, <2>5, <3>1, <3>2, MovesKeepTypes DEF TypeOK, disk, histVars
  <2>7. LockInv'
        BY <1>0, <2>1, <2>3, <2>5, UnlockKeepsLocks DEF HoldingJob, Holding
  <2>8. Moves(w)
        BY <1>0, <2>1, <2>3, <2>5 DEF Moves, Only, Live, Generates, HoldingJob, Holding
  <2>9. SchedInv' /\ OrderInv'
        BY <1>0, <2>1, <2>8, MovesKeepSched, MovesKeepOrder DEF Inv
  <2>10. Touches(w) /\ UNCHANGED disk
         BY <2>1 DEF Touches, disk, histVars
  <2>11. FileInv(w)'
         BY <2>3, <2>5, Outside DEF Holding
  <2>12. ports'[w[2]] = work[w].val /\ \A j \in Job : j # w[2] => ports'[j] = ports[j]
         BY <1>0, <2>1 DEF TypeOK
  <2>13. Me(w[2])' = Me(w[2])
         BY <2>1 DEF Me, runVars
  <2>14. w = Me(w[2]) => PortOK(w[2])'
         BY <2>2, <2>3, <2>5, <2>12, <2>13 DEF PortOK
  <2>15. Kept(w[2])'
    <3>1. FileInv(w)
          BY DEF Inv, FilesInv
    <3>2. /\ pathRec[t] # Null /\ content[t] = pathRec[t].after
          /\ Contains(pathRec[t].after, <<w[2], work[w].val>>) \/ Outdated(w[2])
          /\ jobRec[w[2]] # Null \/ t \in unindexed
          BY <1>0, <3>1 DEF FileInv, Piece, JobOf
    <3>3. UNCHANGED <<content, pathRec, jobRec, unindexed>> /\ Outdated(w[2])' = Outdated(w[2])
          BY <2>1 DEF disk, histVars, Outdated
    <3>4. t = TargetOf[w[2]]
          OBVIOUS
    <3> HIDE DEF t
    <3> QED BY <2>12, <3>2, <3>3, <3>4 DEF Kept
  <2>16. FilesInv' /\ BytesInv' /\ PathInv' /\ IndexInv' /\ PortInv' /\ PassedInv'
    <3>1. work[w].pc # "index" /\ work[w].pc \notin Unrecorded
          BY <1>0 DEF Unrecorded
    <3>2. \A j \in Job : ports'[j] = ports[j] \/ (j = w[2] /\ w \notin cancelled)
          BY <2>2, <2>12
    <3> QED BY <2>6, <2>7, <2>8, <2>10, <2>11, <2>14, <2>15, <3>1, <3>2, QuietKeeps
  <2>17. ValueInv'
         BY <2>3, <2>5 DEF Inv, ValueInv, Only
  <2> QED BY <2>6, <2>7, <2>9, <2>16, <2>17 DEF Inv
<1> QED BY <1>1, <1>2

\* A former candidate is deleted, or the file in its place is another's; then there is no
\* record yet that the failure could belie.
LEMMA RetireKeeps ==
  ASSUME Inv, LegacyInv, NEW w \in Worker, Retire(w)
  PROVE  Inv'
<1> USE Threads
<1>0. TypeOK /\ LockInv /\ SchedInv /\ work[w].pc = "retire"
      BY DEF Inv, Retire
<1>1. CASE legacy[FileOf(w)] = "foreign"
  <2>1. pathRec[FileOf(w)] = Null
        BY <1>1 DEF LegacyInv
  <2> QED BY <1>0, <1>1, <2>1, FailsKeeps DEF Retire, Live, HoldingJob, Holding
<1>2. CASE legacy[FileOf(w)] # "foreign"
  <2>1. /\ legacy' = [legacy EXCEPT ![FileOf(w)] = "none"] /\ To(w, "port")
        /\ UNCHANGED <<disk, runVars, phase, schedVars, ports, cancelled, lockVars, histVars>>
        BY <1>2 DEF Retire
  <2>2. work[w].val \in Value
        BY <1>0 DEF Inv, ValueInv
  <2>3. /\ work' \in [Worker -> Task] /\ Only(w) /\ work'[w].pc = "port"
        /\ work'[w].val = work[w].val /\ work'[w].before = work[w].before
        BY <1>0, <2>1, Moved DEF Steps
  <2>4. TypeOK'
    <3>1. legacy' \in [Target -> Former]
          BY <1>0, <2>1 DEF TypeOK, Former
    <3> QED BY <1>0, <2>1, <2>3, <3>1, MovesKeepTypes DEF TypeOK, disk, lockVars, histVars
  <2>5. LockInv'
        BY <1>0, <2>1, <2>3, SameLocks DEF HoldingJob, Holding
  <2>6. Moves(w)
        BY <1>0, <2>1, <2>3 DEF Moves, Only, Live, Generates, HoldingJob, Holding
  <2>7. SchedInv' /\ OrderInv'
        BY <1>0, <2>1, <2>6, MovesKeepSched, MovesKeepOrder DEF Inv
  <2>8. Touches(w) /\ UNCHANGED <<disk, ports>>
        BY <2>1 DEF Touches, disk, histVars
  <2>9. FileInv(w)'
    <3>1. FileInv(w)
          BY DEF Inv, FilesInv
    <3>2. UNCHANGED <<content, pathRec>> /\ Piece(w)' = Piece(w)
          BY <2>1, <2>3 DEF disk, Piece, JobOf
    <3> QED BY <1>0, <2>3, <3>1, <3>2 DEF FileInv, Unrecorded, FileOf, JobOf
  <2>10. w = Me(w[2]) => PortOK(w[2])'
    <3>1. Me(w[2])' = Me(w[2])
          BY <2>1 DEF Me, runVars
    <3> QED BY <2>3, <3>1 DEF PortOK, Passed
  <2>11. FilesInv' /\ BytesInv' /\ PathInv' /\ IndexInv' /\ PortInv' /\ PassedInv'
    <3>1. work[w].pc # "index" /\ work'[w].pc \in Unrecorded /\ work'[w].pc \notin Passed
          BY <1>0, <2>3 DEF Unrecorded, Passed
    <3> QED BY <2>4, <2>5, <2>6, <2>8, <2>9, <2>10, <3>1, QuietKeeps
  <2>12. ValueInv'
         BY <2>2, <2>3 DEF Inv, ValueInv, Only
  <2> QED BY <2>4, <2>5, <2>7, <2>11, <2>12 DEF Inv
<1> QED BY <1>1, <1>2

\* A port is published.
LEMMA PublishPortKeeps ==
  ASSUME Inv, NEW w \in Worker, PublishPort(w)
  PROVE  Inv'
<1> USE Threads
<1>0. TypeOK /\ LockInv /\ SchedInv /\ work[w].pc = "port"
      BY DEF Inv, PublishPort
<1>1. CASE ~MayPublish(w)
      BY <1>0, <1>1, FailsKeeps DEF PublishPort, MayPublish, Stopped, Live, HoldingJob, Holding
<1>2. CASE MayPublish(w)
  <2>1. /\ ports' = [ports EXCEPT ![w[2]] = work[w].val] /\ To(w, "record")
        /\ UNCHANGED <<disk, legacy, runVars, phase, schedVars, cancelled, lockVars, histVars>>
        BY <1>2 DEF PublishPort
  <2>2. w \notin cancelled /\ work[w].val \in Value
        BY <1>0, <1>2 DEF MayPublish, Stopped, Inv, ValueInv
  <2>5. /\ work' \in [Worker -> Task] /\ Only(w) /\ work'[w].pc = "record"
        /\ work'[w].val = work[w].val /\ work'[w].before = work[w].before
        BY <1>0, <2>1, Moved DEF Steps
  <2>6. TypeOK'
    <3>2. ports' \in [Job -> Port]
          BY <1>0, <2>1, <2>2 DEF TypeOK, Port
    <3> QED BY <1>0, <2>1, <2>5, <3>2, MovesKeepTypes DEF TypeOK, disk, lockVars, histVars
  <2>7. LockInv'
        BY <1>0, <2>1, <2>5, SameLocks DEF HoldingJob, Holding
  <2>8. Moves(w)
        BY <1>0, <2>1, <2>5 DEF Moves, Only, Live, Generates, HoldingJob, Holding
  <2>9. SchedInv' /\ OrderInv'
        BY <1>0, <2>1, <2>8, MovesKeepSched, MovesKeepOrder DEF Inv
  <2>10. Touches(w) /\ UNCHANGED disk
         BY <2>1 DEF Touches, disk, histVars
  <2>11. FileInv(w)'
    <3>1. FileInv(w)
          BY DEF Inv, FilesInv
    <3>2. UNCHANGED <<content, pathRec>> /\ Piece(w)' = Piece(w)
          BY <2>1, <2>5 DEF disk, Piece, JobOf
    <3> QED BY <1>0, <2>5, <3>1, <3>2 DEF FileInv, Unrecorded, FileOf, JobOf
  <2>12. ports'[w[2]] = work[w].val /\ \A j \in Job : j # w[2] => ports'[j] = ports[j]
         BY <1>0, <2>1 DEF TypeOK
  <2>13. Me(w[2])' = Me(w[2])
         BY <2>1 DEF Me, runVars
  <2>14. w = Me(w[2]) => PortOK(w[2])'
         BY <2>2, <2>5, <2>12, <2>13 DEF PortOK, Passed
  <2>16. FilesInv' /\ BytesInv' /\ PathInv' /\ IndexInv' /\ PortInv' /\ PassedInv'
    <3>1. work[w].pc # "index" /\ work'[w].pc \in Unrecorded /\ work'[w].pc \notin Passed
          BY <1>0, <2>5 DEF Unrecorded, Passed
    <3>2. \A j \in Job : ports'[j] = ports[j] \/ (j = w[2] /\ w \notin cancelled)
          BY <2>2, <2>12
    <3> QED BY <2>6, <2>7, <2>8, <2>10, <2>11, <2>14, <3>1, <3>2, QuietKeeps
  <2>17. ValueInv'
         BY <2>2, <2>5 DEF Inv, ValueInv, Only
  <2> QED BY <2>6, <2>7, <2>9, <2>16, <2>17 DEF Inv
<1> QED BY <1>1, <1>2

\* Where another target is being written, it still is.
LEMMA OtherWriters ==
  ASSUME TypeOK, LockInv, LockInv', NEW w \in Worker, Only(w),
         NEW t \in Target, t # FileOf(w), targetLock[t] # Null, work[targetLock[t]].pc \in Unrecorded
  PROVE  targetLock'[t] = targetLock[t] /\ work'[targetLock[t]].pc \in Unrecorded
<1> DEFINE v == targetLock[t]
<1>1. v \in Worker /\ FileOf(v) = t /\ v # w
      BY OneHolder
<1>2. work'[v] = work[v]
      BY <1>1 DEF Only
<1>3. work'[v].pc \in Holding
      BY <1>2 DEF Unrecorded, Holding
<1> QED BY <1>1, <1>2, <1>3 DEF LockInv, FileOf, JobOf

\* The evidence of the other targets is untouched.
LEMMA TouchKeepsBytes ==
  ASSUME Inv, LockInv', NEW w \in Worker, Moves(w), Touches(w), 
         \/ work'[w].pc \in Unrecorded
         \/ Proven(FileOf(w))'
  PROVE  BytesInv'
<1>0. TypeOK /\ LockInv /\ Only(w)
      BY DEF Inv, Moves, Only
<1> SUFFICES ASSUME NEW t \in Target, t \notin torn',
                    targetLock'[t] = Null \/ work'[targetLock'[t]].pc \notin Unrecorded
             PROVE  Proven(t)'
    BY DEF BytesInv
<1>1. CASE t = FileOf(w)
  <2>1. work'[w].pc \in Unrecorded => targetLock'[t] = w /\ w # Null
    <3>1. work'[w].pc \in Unrecorded => work'[w].pc \in Holding
          BY DEF Unrecorded, Holding
    <3> QED BY <1>1, <3>1, Threads DEF LockInv, FileOf, JobOf
  <2> QED BY <1>1, <2>1
<1>2. CASE t # FileOf(w)
  <2>1. targetLock[t] = Null \/ work[targetLock[t]].pc \notin Unrecorded
        BY <1>0, <1>2, OtherWriters
  <2>2. Proven(t)
        BY <2>1 DEF Inv, BytesInv, Touches
  <2> QED BY <1>2, <2>2 DEF Touches, Proven
<1> QED BY <1>1, <1>2

\* Nor is that of the jobs that have passed.
LEMMA TouchKeepsPassed ==
  ASSUME Inv, LockInv', NEW w \in Worker, Moves(w), Touches(w), ports' = ports,
         work[w].pc \in Holding, w \notin cancelled,
         \A j \in Job \ {w[2]} : TargetOf[j] = FileOf(w) /\ Kept(j) => Kept(j)',
         work'[w].pc \in Passed => Kept(w[2])'
  PROVE  PassedInv'
<1> USE Threads
<1>0. TypeOK /\ LockInv /\ Only(w) /\ SchedInv
      BY DEF Inv, Moves, Only
<1>1. w = Me(w[2])
  <2>1. work[w].pc \in Live
        BY DEF Moves
  <2> QED BY <1>0, <2>1, Current
<1> SUFFICES ASSUME NEW j \in Job, phase \in {"run", "ok"}, work'[Me(j)].pc \in Passed
             PROVE  Kept(j)'
  <2>1. phase' = phase /\ \A j \in Job : Me(j)' = Me(j)
        BY DEF Moves, runVars, Me
  <2> QED BY <2>1 DEF PassedInv
<1>2. CASE j = w[2]
      BY <1>1, <1>2
<1>3. CASE j # w[2]
  <2> DEFINE t == TargetOf[j]
  <2>0. Me(j) \in Worker /\ Me(j) # w
        BY <1>0, <1>3, Typed
  <2>1. Kept(j)
        BY <1>0, <2>0 DEF Only, Inv, PassedInv
  <2>2. CASE t = FileOf(w)
        BY <1>3, <2>1, <2>2
  <2>3. CASE t # FileOf(w)
    <3>1. /\ t \in Target /\ content'[t] = content[t] /\ pathRec'[t] = pathRec[t]
          /\ jobRec'[j] = jobRec[j] /\ unindexed \subseteq unindexed'
          BY <1>3, <2>3 DEF Touches
    <3>2. Outdated(j) => Outdated(j)'
          BY <3>1 DEF Outdated
    <3>3. targetLock[t] \in Worker \ cancelled /\ work[targetLock[t]].pc \in Unrecorded =>
            targetLock'[t] \in Worker \ cancelled /\ work'[targetLock'[t]].pc \in Unrecorded
          BY <1>0, <2>3, <3>1, OtherWriters
    <3>4. cancelled' = cancelled
          BY DEF Moves
    <3> QED BY <2>1, <3>1, <3>2, <3>3, <3>4 DEF Kept
  <2> QED BY <2>2, <2>3
<1> QED BY <1>2, <1>3

\* The bytes are published.
LEMMA MaterializeKeeps ==
  ASSUME Inv, NEW w \in Worker, Materialize(w)
  PROVE  Inv'
<1> USE Threads
<1>0. TypeOK /\ LockInv /\ SchedInv /\ work[w].pc = "mat"
      BY DEF Inv, Materialize
<1>1. CASE ~(MayPublish(w) /\ MayMaterialize(w))
      BY <1>0, <1>1, FailsKeeps DEF Materialize, Live, HoldingJob, Holding, Unrecorded
<1>2. CASE MayPublish(w) /\ MayMaterialize(w)
  <2> DEFINE t == FileOf(w)
             p == Piece(w)
  <2>1. /\ content' = [content EXCEPT ![t] = Materialized(w)] /\ To(w, "retire")
        /\ UNCHANGED <<pathRec, jobRec, legacy, runVars, phase, schedVars, ports, cancelled, lockVars, histVars>>
        BY <1>2 DEF Materialize
  <2>2. w \notin cancelled /\ work[w].val \in Value /\ p = <<w[2], work[w].val>>
        BY <1>0, <1>2 DEF MayPublish, Stopped, Inv, ValueInv, Piece, JobOf
  <2>3. /\ work[w].before = content[t]
        /\ pathRec[t] # Null => pathRec[t].after = content[t]
        /\ w[2] \in Creates /\ Prior(w) # Null => Alone(w[2], content[t])
    <3>1. FileInv(w)
          BY DEF Inv, FilesInv
    <3> QED BY <1>0, <3>1 DEF FileInv
  <2>4. content[t] \in Bytes \cup {Absent} /\ pathRec[t] \in Receipt \cup {Null}
        BY <1>0 DEF TypeOK
  <2>5. /\ work' \in [Worker -> Task] /\ Only(w) /\ work'[w].pc = "retire"
        /\ work'[w].val = work[w].val /\ work'[w].before = work[w].before
        BY <1>0, <2>1, Moved DEF Steps
  <2>6. /\ w[2] \in Creates => Materialized(w) = <<p>> /\ <<p>> \in Bytes
        /\ w[2] \notin Creates => /\ content[t] \in Bytes
                                  /\ Materialized(w) = Append(content[t], p)
                                  /\ Append(content[t], p) \in Bytes
        BY <1>2, <2>2, <2>4, Pieces DEF Materialized, MayMaterialize, JobOf
  <2>7. Materialized(w) \in Bytes
        BY <2>6
  <2>8. TypeOK'
    <3>1. content' \in [Target -> Bytes \cup {Absent}]
          BY <1>0, <2>1, <2>7 DEF TypeOK
    <3> QED BY <1>0, <2>1, <2>5, <3>1, MovesKeepTypes DEF TypeOK, lockVars, histVars
  <2>9. LockInv'
        BY <1>0, <2>1, <2>5, SameLocks DEF HoldingJob, Holding
  <2>10. Moves(w)
         BY <1>0, <2>1, <2>5 DEF Moves, Only, Live, Generates, HoldingJob, Holding
  <2>11. SchedInv' /\ OrderInv'
         BY <1>0, <2>1, <2>10, MovesKeepSched, MovesKeepOrder DEF Inv
  <2>12. /\ content'[t] = Materialized(w) /\ UNCHANGED <<torn, unindexed, pathRec, jobRec, ports>>
         /\ \A u \in Target \ {t} : content'[u] = content[u]
         BY <1>0, <2>1 DEF TypeOK, histVars
  <2>13. Touches(w) /\ work[w].pc \in Holding /\ work'[w].pc \in Unrecorded
         BY <1>0, <2>5, <2>12 DEF Touches, Holding, Unrecorded
  <2>14. FileInv(w)'
    <3>1. Piece(w)' = p
          BY <2>5 DEF Piece, JobOf
    <3>2. w[2] \in Creates /\ pathRec[t] # Null => Alone(w[2], work[w].before)
      <4> SUFFICES ASSUME w[2] \in Creates, pathRec[t] # Null PROVE Alone(w[2], content[t])
          BY <2>3
      <4>1. content[t] # Absent
            BY <2>3, <2>4, Receipts
      <4>2. Prior(w) # Null \/ content[t] = << <<w[2], work[w].val>> >>
            BY <1>2, <2>2, <2>6, <4>1 DEF MayMaterialize, JobOf
      <4> QED BY <2>2, <2>3, <4>2 DEF Alone
    <3> HIDE DEF p, t
    <3>3. work'[w].pc \in Unrecorded /\ work'[w].pc \notin {"gen", "mat", "index", "restore"}
          BY <2>5 DEF Unrecorded
    <3>4. /\ pathRec'[t] # Null => pathRec'[t].after = work'[w].before
          /\ w[2] \in Creates => content'[t] = <<p>>
          /\ w[2] \in Creates /\ pathRec'[t] # Null => Alone(w[2], work'[w].before)
          /\ w[2] \notin Creates =>
               work'[w].before \in Bytes /\ content'[t] = Append(work'[w].before, p)
          BY <2>3, <2>5, <2>6, <2>12, <3>2
    <3>5. t = FileOf(w)
          BY DEF t
    <3> QED BY <3>1, <3>3, <3>4, <3>5 DEF FileInv, FileOf, JobOf
  <2>15. FilesInv'
         BY <2>10, <2>13, <2>14, OthersKeepFiles
  <2>16. BytesInv'
         BY <2>9, <2>10, <2>13, TouchKeepsBytes
  <2>17. PathInv' /\ IndexInv'
    <3>1. \A v \in Worker : work[v].pc = "index" => work'[v].pc = "index"
          BY <1>0, <2>5 DEF Only
    <3>2. \A j \in Job : Indexed(j) => Indexed(j)'
          BY <2>12, <3>1 DEF Indexed
    <3>3. \A u \in Target : pathRec[u] # Null => pathRec[u].job \in Job
          BY <1>0, Receipts DEF TypeOK
    <3>4. PathInv'
          BY <2>12, <3>2, <3>3 DEF Inv, PathInv
    <3>5. IndexInv'
          BY <2>12, <3>1 DEF Inv, IndexInv
    <3> QED BY <3>4, <3>5
  <2>18. PortInv'
    <3>1. Me(w[2])' = Me(w[2])
          BY <2>1 DEF Me, runVars
    <3>2. w = Me(w[2]) => PortOK(w[2])'
          BY <2>5, <3>1 DEF PortOK, Passed
    <3> QED BY <2>10, <2>12, <3>2, PortsKept
  <2>19. PassedInv'
    <3>1. targetLock'[t] = w
      <4>1. work'[w].pc \in Holding
            BY <2>5 DEF Holding
      <4> QED BY <2>9, <4>1 DEF LockInv, FileOf, JobOf
    <3>2. ASSUME NEW j \in Job \ {w[2]}, TargetOf[j] = FileOf(w), Kept(j)
          PROVE  Kept(j)'
      <4>1. Outdated(j)' = Outdated(j)
            BY <2>12 DEF Outdated
      <4>2. targetLock'[TargetOf[j]] \in Worker \ cancelled' /\ work'[targetLock'[TargetOf[j]]].pc \in Unrecorded
            BY <2>1, <2>2, <2>13, <3>1, <3>2
      <4> QED BY <2>12, <3>2, <4>1, <4>2 DEF Kept
    <3>3. work'[w].pc \notin Passed
          BY <2>5 DEF Passed
    <3> QED BY <2>2, <2>9, <2>10, <2>12, <2>13, <3>2, <3>3, TouchKeepsPassed
  <2>20. ValueInv'
         BY <2>2, <2>5 DEF Inv, ValueInv, Only
  <2> QED BY <2>8, <2>9, <2>11, <2>15, <2>16, <2>17, <2>18, <2>19, <2>20 DEF Inv
<1> QED BY <1>1, <1>2

\* The path record is published.
LEMMA RecordPathKeeps ==
  ASSUME Inv, NEW w \in Worker, RecordPath(w)
  PROVE  Inv'
<1> USE Threads
<1> DEFINE t == FileOf(w)
           p == Piece(w)
           b == work[w].before
<1>0. TypeOK /\ LockInv /\ SchedInv /\ work[w].pc = "record"
      BY DEF Inv, RecordPath
<1>a. /\ pathRec[t] # Null => pathRec[t].after = b
      /\ w[2] \in Creates => content[t] = <<p>>
      /\ w[2] \in Creates /\ pathRec[t] # Null => Alone(w[2], b)
      /\ w[2] \notin Creates => b \in Bytes /\ content[t] = Append(b, p)
  <2>1. FileInv(w)
        BY DEF Inv, FilesInv
  <2> QED BY <1>0, <2>1 DEF FileInv, Unrecorded
<1>1. CASE ~MayPublish(w)
      BY <1>0, <1>1, FailsKeeps DEF RecordPath, MayPublish, Stopped, Live, HoldingJob, Holding
<1>2. CASE MayPublish(w)
  <2>1. /\ pathRec' = [pathRec EXCEPT ![t] = Record(w)] /\ To(w, "index")
        /\ UNCHANGED <<content, jobRec, legacy, runVars, phase, schedVars, ports, cancelled, lockVars, histVars>>
        BY <1>2, <1>a DEF RecordPath
  <2>2. w \notin cancelled /\ work[w].val \in Value /\ p = <<w[2], work[w].val>> /\ work[w].bind \in [Job -> Port]
        BY <1>0, <1>2, Typed DEF MayPublish, Stopped, Inv, ValueInv, Piece, JobOf
  <2>3. content[t] \in Bytes /\ Contains(content[t], p)
    <3>1. w[2] \in Job
          OBVIOUS
    <3>2. <<p>> \in Bytes /\ Contains(<<p>>, p)
          BY <2>2, <3>1, Pieces
    <3>3. b \in Bytes => Append(b, p) \in Bytes /\ Contains(Append(b, p), p)
          BY <2>2, <3>1, Pieces
    <3> HIDE DEF t, p, b
    <3> HIDE Threads
    <3> QED BY <1>a, <3>2, <3>3
  <2>4. /\ Record(w) \in Receipt /\ Record(w).job = w[2] /\ Record(w).val = work[w].val
        /\ Record(w).after = content[t] /\ Record(w) # Null
    <3>1. impl \in 1 .. MaxImpl
          BY <1>0 DEF TypeOK
    <3>2. Record(w) = [job |-> w[2], val |-> work[w].val, after |-> content[t],
                       bind |-> work[w].bind, impl |-> impl]
          BY DEF Record, After, JobOf
    <3>3. Record(w) \in Receipt
          BY <2>2, <2>3, <3>1, <3>2 DEF Receipt
    <3> QED BY <3>2, <3>3, Receipts
  <2>5. /\ work' \in [Worker -> Task] /\ Only(w) /\ work'[w].pc = "index"
        /\ work'[w].val = work[w].val /\ work'[w].bind = work[w].bind
        BY <1>0, <2>1, Moved DEF Steps
  <2>8. TypeOK'
    <3>1. pathRec' \in [Target -> Receipt \cup {Null}]
          BY <1>0, <2>1, <2>4 DEF TypeOK
    <3> QED BY <1>0, <2>1, <2>5, <3>1, MovesKeepTypes DEF TypeOK, lockVars, histVars
  <2>9. LockInv'
        BY <1>0, <2>1, <2>5, SameLocks DEF HoldingJob, Holding
  <2>10. Moves(w)
         BY <1>0, <2>1, <2>5 DEF Moves, Only, Live, Generates, HoldingJob, Holding
  <2>11. SchedInv' /\ OrderInv'
         BY <1>0, <2>1, <2>10, MovesKeepSched, MovesKeepOrder DEF Inv
  <2>12. /\ pathRec'[t] = Record(w) /\ UNCHANGED <<torn, unindexed, content, jobRec, ports, impl>>
         /\ \A u \in Target \ {t} : pathRec'[u] = pathRec[u]
         BY <1>0, <2>1 DEF TypeOK, histVars, runVars
  <2>13. Touches(w) /\ work[w].pc \in Holding
         BY <1>0, <2>12 DEF Touches, Holding
  <2>14. FileInv(w)'
    <3>1. Record(w)' = Record(w)
          BY <2>5, <2>12 DEF Record, After, JobOf, FileOf
    <3> QED BY <2>4, <2>5, <2>12, <3>1 DEF FileInv, Unrecorded, FileOf, JobOf
  <2>15. FilesInv'
         BY <2>10, <2>13, <2>14, OthersKeepFiles
  <2>16. BytesInv'
    <3>1. Proven(t)'
          BY <2>4, <2>12 DEF Proven
    <3> QED BY <2>9, <2>10, <2>13, <3>1, TouchKeepsBytes DEF FileOf, JobOf
  \* Another job's answer is still in the file.
  <2>17. ASSUME NEW j \in Job \ {w[2]}, NEW v, pathRec[t] # Null, Contains(pathRec[t].after, <<j, v>>)
         PROVE  Contains(content[t], <<j, v>>)
    <3>1. CASE w[2] \in Creates
      <4>1. PICK u \in Value : b = << <<w[2], u>> >>
            BY <1>a, <2>17, <3>1 DEF Alone
      <4>2. <<j, v>> = <<w[2], u>>
            BY <1>a, <2>17, <4>1, Pieces
      <4> QED BY <4>2
    <3>2. CASE w[2] \notin Creates
      <4>1. w[2] \in Job /\ b \in Bytes /\ content[t] = Append(b, p) /\ Contains(b, <<j, v>>)
            BY <1>a, <2>17, <3>2
      <4>2. \A y : Contains(b, y) => Contains(Append(b, p), y)
            BY <2>2, <4>1, Pieces
      <4> QED BY <4>1, <4>2
    <3> QED BY <3>1, <3>2
  <2>18. \A v \in Worker : work[v].pc = "index" => work'[v].pc = "index"
         BY <1>0, <2>5 DEF Only
  <2>19. \A j \in Job : Indexed(j) => Indexed(j)'
         BY <2>12, <2>18 DEF Indexed
  <2>20. PathInv'
    <3>1. ASSUME NEW u \in Target \ {t}, pathRec'[u] # Null
          PROVE  LET q == pathRec'[u] IN
                 /\ TargetOf[q.job] = u
                 /\ Contains(q.after, <<q.job, q.val>>)
                 /\ q.job \in Creates => q.after = << <<q.job, q.val>> >>
                 /\ \A j \in Job : j = q.job => Indexed(j)'
      <4>1. pathRec'[u] = pathRec[u]
            BY <2>12, <3>1
      <4>2. /\ TargetOf[pathRec[u].job] = u
            /\ Contains(pathRec[u].after, <<pathRec[u].job, pathRec[u].val>>)
            /\ pathRec[u].job \in Creates => pathRec[u].after = << <<pathRec[u].job, pathRec[u].val>> >>
            /\ Indexed(pathRec[u].job)
            BY <3>1, <4>1 DEF Inv, PathInv
      <4> QED BY <2>19, <4>1, <4>2
    <3>2. LET q == pathRec'[t] IN
          /\ TargetOf[q.job] = t
          /\ Contains(q.after, <<q.job, q.val>>)
          /\ q.job \in Creates => q.after = << <<q.job, q.val>> >>
          /\ \A j \in Job : j = q.job => Indexed(j)'
      <4>1. Indexed(w[2])'
            BY <2>5 DEF Indexed
      <4>2. TargetOf[w[2]] = t
            OBVIOUS
      <4> HIDE DEF t, p, b
      <4> HIDE Threads
      <4>3. /\ pathRec'[t].job = w[2] /\ pathRec'[t].val = work[w].val /\ pathRec'[t].after = content[t]
            BY <2>4, <2>12
      <4>4. Contains(content[t], <<w[2], work[w].val>>)
            /\ (w[2] \in Creates => content[t] = << <<w[2], work[w].val>> >>)
            BY <1>a, <2>2, <2>3
      <4> QED BY <4>1, <4>2, <4>3, <4>4
    <3>3. \A u \in Target : pathRec'[u] # Null => pathRec'[u].job \in Job
          BY <2>8, Receipts DEF TypeOK
    <3> HIDE DEF t
    <3> QED BY <3>1, <3>2, <3>3 DEF PathInv
  <2>21. IndexInv'
    <3> SUFFICES ASSUME NEW j \in Job, jobRec[j] # Null
                 PROVE  /\ jobRec[j].job = j /\ pathRec'[TargetOf[j]] # Null
                        /\ j \in Creates => jobRec[j].after = << <<j, jobRec[j].val>> >>
                        /\ \/ Contains(pathRec'[TargetOf[j]].after, <<j, jobRec[j].val>>)
                           \/ TargetOf[j] \in unindexed
                           \/ \E v \in Worker : v[2] = j /\ work'[v].pc = "index"
        BY <2>12 DEF IndexInv
    <3>1. /\ jobRec[j].job = j /\ pathRec[TargetOf[j]] # Null
          /\ j \in Creates => jobRec[j].after = << <<j, jobRec[j].val>> >>
          /\ \/ Contains(pathRec[TargetOf[j]].after, <<j, jobRec[j].val>>)
             \/ TargetOf[j] \in unindexed
             \/ \E v \in Worker : v[2] = j /\ work[v].pc = "index"
          BY DEF Inv, IndexInv
    <3>2. CASE j = w[2]
          BY <2>4, <2>5, <2>12, <3>1, <3>2
    <3>3. CASE j # w[2] /\ TargetOf[j] = t
      <4>1. Contains(pathRec[t].after, <<j, jobRec[j].val>>) => Contains(content[t], <<j, jobRec[j].val>>)
            BY <2>17, <3>1, <3>3
      <4> QED BY <2>4, <2>12, <2>18, <3>1, <3>3, <4>1
    <3>4. CASE TargetOf[j] # t
          BY <2>12, <2>18, <3>1, <3>4
    <3> QED BY <3>2, <3>3, <3>4
  <2>22. PortInv'
    <3>1. w = Me(w[2]) => PortOK(w[2])'
      <4>1. Me(w[2])' = Me(w[2])
            BY <2>1 DEF Me, runVars
      <4>2. PortOK(w[2])
            BY DEF Inv, PortInv
      <4> QED BY <1>0, <2>5, <2>12, <4>1, <4>2 DEF PortOK, Passed
    <3> QED BY <2>10, <2>12, <3>1, PortsKept
  <2>23. PassedInv'
    <3>1. ASSUME NEW j \in Job \ {w[2]}, TargetOf[j] = FileOf(w), Kept(j)
          PROVE  Kept(j)'
      <4>1. Contains(pathRec'[t].after, <<j, ports[j]>>) \/ Outdated(j)'
        <5>1. CASE Contains(pathRec[t].after, <<j, ports[j]>>)
          <6>1. pathRec[t] # Null
                BY <3>1 DEF Kept
          <6> QED BY <2>4, <2>12, <2>17, <5>1, <6>1
        <5>2. CASE Outdated(j)
              BY <2>4, <2>12, <3>1, <5>2 DEF Outdated
        <5> QED BY <3>1, <5>1, <5>2 DEF Kept
      <4> QED BY <2>4, <2>12, <3>1, <4>1 DEF Kept
    <3>2. work'[w].pc \notin Passed
          BY <2>5 DEF Passed
    <3> QED BY <2>2, <2>9, <2>10, <2>12, <2>13, <3>1, <3>2, TouchKeepsPassed
  <2>24. ValueInv'
         BY <2>2, <2>5 DEF Inv, ValueInv, Only
  <2> QED BY <2>8, <2>9, <2>11, <2>15, <2>16, <2>20, <2>21, <2>22, <2>23, <2>24 DEF Inv
<1> QED BY <1>1, <1>2

\* The index is brought up to date.
LEMMA RecordJobKeeps ==
  ASSUME Inv, NEW w \in Worker, RecordJob(w)
  PROVE  Inv'
<1> USE Threads
<1> DEFINE t == FileOf(w)
           k == w[2]
<1>0. TypeOK /\ LockInv /\ SchedInv /\ work[w].pc = "index"
      BY DEF Inv, RecordJob
<1>1. CASE ~MayPublish(w)
      BY <1>0, <1>1, FailsKeeps DEF RecordJob, Live, HoldingJob, Holding, Unrecorded
<1>2. CASE MayPublish(w)
  <2> DEFINE x == [Idle EXCEPT !.pc = "passed"]
             r == pathRec[t]
  <2>1. /\ jobRec' = [jobRec EXCEPT ![k] = Record(w)] /\ Unlock(w)
        /\ UNCHANGED <<content, pathRec, legacy, runVars, phase, schedVars, ports, cancelled, histVars>>
        BY <1>2 DEF RecordJob, JobOf
  <2>2. w \notin cancelled /\ work[w].val \in Value
        BY <1>0, <1>2 DEF MayPublish, Stopped, Inv, ValueInv
  <2>3. r # Null /\ r = Record(w) /\ r.job = k /\ r.val = work[w].val /\ r.after = content[t]
    <3>1. FileInv(w)
          BY DEF Inv, FilesInv
    <3>2. r # Null /\ r = Record(w)
          BY <1>0, <3>1 DEF FileInv
    <3> QED BY <3>2 DEF Record, After, JobOf
  <2>4. r \in Receipt /\ r # Null /\ k \in Job /\ t = TargetOf[k]
    <3>1. r # Null
          BY <2>3
    <3> QED BY <1>0, <3>1 DEF TypeOK
  <2>5. /\ Contains(r.after, <<k, r.val>>)
        /\ k \in Creates => r.after = << <<k, r.val>> >>
        BY <2>3, <2>4 DEF Inv, PathInv
  <2>6. x \in Task /\ x.pc = "passed"
        BY DEF Steps
  <2>7. Becomes(w, x)
        BY <1>2, <2>6 DEF RecordJob, Ends, Becomes
  <2> HIDE DEF x
  <2>8. work' \in [Worker -> Task] /\ work'[w] = x /\ Only(w)
        BY <1>0, <2>7, Becoming
  <2> HIDE DEF r
  <2>9. TypeOK'
    <3>1. jobLock' \in [Job -> Worker \cup {Null}] /\ targetLock' \in [Target -> Worker \cup {Null}]
          BY <1>0, <2>1 DEF Unlock, TypeOK
    <3>2. jobRec' \in [Job -> Receipt \cup {Null}]
          BY <1>0, <2>1, <2>3, <2>4 DEF TypeOK
    <3> QED BY <1>0, <2>1, <2>8, <3>1, <3>2, MovesKeepTypes DEF TypeOK, histVars
  <2>10. LockInv'
         BY <1>0, <2>1, <2>6, <2>8, UnlockKeepsLocks DEF HoldingJob, Holding
  <2>11. Moves(w)
         BY <1>0, <2>1, <2>6, <2>8 DEF Moves, Only, Live, Generates, HoldingJob, Holding
  <2>12. SchedInv' /\ OrderInv'
         BY <1>0, <2>1, <2>11, MovesKeepSched, MovesKeepOrder DEF Inv
  <2>13. /\ jobRec'[k] = r /\ UNCHANGED <<torn, unindexed, content, pathRec, ports>>
         /\ \A j \in Job \ {k} : jobRec'[j] = jobRec[j]
         BY <1>0, <2>1, <2>3, <2>4 DEF TypeOK, histVars
  <2>14. Touches(w) /\ work[w].pc \in Holding
         BY <1>0, <2>13 DEF Touches, Holding
  <2>15. FileInv(w)'
         BY <2>6, <2>8, Outside DEF Holding
  <2>16. FilesInv'
         BY <2>11, <2>14, <2>15, OthersKeepFiles
  <2>17. BytesInv'
    <3>1. Proven(t)'
          BY <2>3, <2>4, <2>13 DEF Proven, r
    <3> QED BY <2>10, <2>11, <2>14, <3>1, TouchKeepsBytes DEF FileOf, JobOf
  <2>18. ASSUME NEW j \in Job \ {k}, NEW v \in Worker, v[2] = j, work[v].pc = "index"
         PROVE  work'[v].pc = "index"
         BY <2>8, <2>18 DEF Only
  <2>19. PathInv'
    <3>1. \A j \in Job : Indexed(j) => Indexed(j)'
          BY <2>4, <2>13, <2>18 DEF Indexed
    <3>2. \A u \in Target : pathRec[u] # Null => pathRec[u].job \in Job
          BY <1>0, Receipts DEF TypeOK
    <3> QED BY <2>13, <3>1, <3>2 DEF Inv, PathInv
  <2>20. IndexInv'
    <3> SUFFICES ASSUME NEW j \in Job, jobRec'[j] # Null
                 PROVE  /\ jobRec'[j].job = j /\ pathRec[TargetOf[j]] # Null
                        /\ j \in Creates => jobRec'[j].after = << <<j, jobRec'[j].val>> >>
                        /\ \/ Contains(pathRec[TargetOf[j]].after, <<j, jobRec'[j].val>>)
                           \/ TargetOf[j] \in unindexed
                           \/ \E v \in Worker : v[2] = j /\ work'[v].pc = "index"
        BY <2>13 DEF IndexInv
    <3>1. CASE j = k
      <4>1. pathRec[TargetOf[k]] = r
            BY <2>4 DEF r
      <4> QED BY <2>3, <2>4, <2>5, <2>13, <3>1, <4>1
    <3>2. CASE j # k
      <4>1. jobRec'[j] = jobRec[j]
            BY <2>13, <3>2
      <4>2. /\ jobRec[j].job = j /\ pathRec[TargetOf[j]] # Null
            /\ j \in Creates => jobRec[j].after = << <<j, jobRec[j].val>> >>
            /\ \/ Contains(pathRec[TargetOf[j]].after, <<j, jobRec[j].val>>)
               \/ TargetOf[j] \in unindexed
               \/ \E v \in Worker : v[2] = j /\ work[v].pc = "index"
            BY <4>1 DEF Inv, IndexInv
      <4> QED BY <2>18, <3>2, <4>1, <4>2
    <3> QED BY <3>1, <3>2
  <2>21. w = Me(k) /\ PortOK(k) /\ ports[k] = work[w].val
    <3>1. work[w].pc \in Live
          BY <2>11 DEF Moves
    <3>2. w = Me(k)
          BY <1>0, <2>2, <3>1, Current
    <3>3. PortOK(k)
          BY <2>4 DEF Inv, PortInv
    <3> QED BY <1>0, <3>2, <3>3 DEF PortOK
  <2>22. PortInv'
    <3>1. Me(k)' = Me(k)
          BY <2>1 DEF Me, runVars
    <3>2. PortOK(k)'
          BY <2>2, <2>6, <2>8, <2>13, <2>21, <3>1 DEF PortOK
    <3> QED BY <2>11, <2>13, <3>2, PortsKept
  <2>23. PassedInv'
    <3>1. ASSUME NEW j \in Job \ {w[2]}, TargetOf[j] = FileOf(w), Kept(j)
          PROVE  Kept(j)'
      <4>1. pathRec[TargetOf[j]] = r
            BY <3>1 DEF r
      <4>2. Outdated(j)' = Outdated(j)
            BY <2>13 DEF Outdated
      <4> QED BY <2>3, <2>13, <3>1, <4>1, <4>2 DEF Kept
    <3>2. Kept(k)'
      <4>1. pathRec[TargetOf[k]] = r
            BY <2>4 DEF r
      <4> QED BY <2>3, <2>4, <2>5, <2>13, <2>21, <4>1 DEF Kept
    <3> QED BY <2>2, <2>10, <2>11, <2>13, <2>14, <3>1, <3>2, TouchKeepsPassed
  <2>24. ValueInv'
         BY <2>6, <2>8 DEF Inv, ValueInv, Only
  <2> QED BY <2>9, <2>10, <2>12, <2>16, <2>17, <2>19, <2>20, <2>22, <2>23, <2>24 DEF Inv
<1> QED BY <1>1, <1>2

-----------------------------------------------------------------------------
(* The order of the jobs                                                   *)

\* A set of numbers has a least one.
LEMMA Smallest ==
  ASSUME NEW T, T \subseteq Nat, T # {}
  PROVE  \E x \in T : \A y \in T : x <= y
<1> DEFINE less == {ss \in Nat \X Nat : ss[1] < ss[2]}
<1>1. IsWellFoundedOn(less, Nat)
      BY NatLessThanWellFounded, Zenon DEF OpToRel
<1>2. \A x, y \in T : x \in Nat /\ y \in Nat /\ (y < x => <<y, x>> \in less)
      OBVIOUS
<1> HIDE DEF less
<1>3. \E x \in T : \A y \in T : ~(<<y, x>> \in less)
      BY <1>1, WFMin
<1>4. PICK x \in T : \A y \in T : ~(<<y, x>> \in less)
      BY <1>3
<1>5. \A y \in T : ~(y < x) /\ y \in Nat /\ x \in Nat
      BY <1>2, <1>4
<1> QED BY <1>5

\* The jobs are finitely many, and their order is total.
LEMMA Ordered ==
  /\ IsFiniteSet(Job) /\ DOMAIN Order \subseteq Nat
  /\ \A m \in DOMAIN Order : Order[m] \in Job
  /\ \A m, n \in DOMAIN Order : Order[m] = Order[n] => m = n
  /\ \A j \in Job : \E n \in DOMAIN Order : Order[n] = j
<1>1. Order \in Seq(Job) /\ Order \in [1 .. Len(Order) -> Job] /\ Len(Order) \in Nat
      BY ArtifactAssumption
<1>2. DOMAIN Order = 1 .. Len(Order) /\ \A m \in DOMAIN Order : Order[m] \in Job
      BY <1>1
<1>3. \A m, n \in DOMAIN Order : Order[m] = Order[n] => m = n
      BY ArtifactAssumption DEF IsInjective
<1>4. \A j \in Job : \E n \in DOMAIN Order : Order[n] = j
      BY ArtifactAssumption DEF ToSet
<1>5. Order \in Surjection(1 .. Len(Order), Job)
      BY <1>1, <1>2, <1>4 DEF Surjection
<1>6. IsFiniteSet(1 .. Len(Order))
      BY <1>1, FS_Interval
<1>7. IsFiniteSet(Job)
      BY <1>5, <1>6, FS_Surjection
<1> QED BY <1>1, <1>2, <1>3, <1>4, <1>7

\* So is every set of them.
LEMMA Finite ==
  ASSUME NEW S \in SUBSET Job
  PROVE  IsFiniteSet(S) /\ Cardinality(S) \in Nat /\ (Cardinality(S) = 0 <=> S = {})
<1>1. IsFiniteSet(S)
      BY Ordered, FS_Subset
<1> QED BY <1>1, FS_CardinalityType, FS_EmptySet

\* And it has a first one.
LEMMA FirstOf ==
  ASSUME NEW S \in SUBSET Job, S # {}
  PROVE  \E j \in S : \A k \in S : ~Earlier(k, j)
<1> DEFINE I == {n \in DOMAIN Order : Order[n] \in S}
<1>1. I \subseteq Nat /\ I # {}
      BY Ordered
<1>2. PICK n \in I : \A m \in I : n <= m
  <2> HIDE DEF I
  <2> QED BY <1>1, Smallest
<1>3. ASSUME NEW k \in S, Earlier(k, Order[n])
      PROVE  FALSE
  <2>1. PICK m, i \in DOMAIN Order : m < i /\ Order[m] = k /\ Order[i] = Order[n]
        BY <1>3 DEF Earlier
  <2>2. i = n /\ m \in I
        BY <2>1, Ordered
  <2>3. n <= m /\ m \in Nat /\ n \in Nat
        BY <1>1, <1>2, <2>2
  <2> QED BY <2>1, <2>2, <2>3
<1>4. Order[n] \in S
      OBVIOUS
<1> QED BY <1>3, <1>4

\* Of two jobs one is earlier, and what is earlier than that is earlier than the other.
LEMMA Total ==
  ASSUME NEW j \in Job, NEW k \in Job
  PROVE  /\ j # k => Earlier(j, k) \/ Earlier(k, j)
         /\ ~Earlier(j, j)
         /\ \A i : Earlier(i, j) /\ Earlier(j, k) => Earlier(i, k)
<1>1. PICK m \in DOMAIN Order : Order[m] = j
      BY Ordered
<1>2. PICK n \in DOMAIN Order : Order[n] = k
      BY Ordered
<1>3. m \in Nat /\ n \in Nat
      BY Ordered
<1>4. j # k => Earlier(j, k) \/ Earlier(k, j)
  <2>1. m < n \/ n < m \/ m = n
        BY <1>3
  <2> QED BY <1>1, <1>2, <2>1 DEF Earlier
<1>5. ~Earlier(j, j)
  <2> SUFFICES ASSUME NEW x \in DOMAIN Order, NEW y \in DOMAIN Order, x < y, Order[x] = j, Order[y] = j
               PROVE  FALSE
      BY DEF Earlier
  <2>1. x = y /\ x \in Nat
        BY Ordered
  <2> QED BY <2>1
<1>6. ASSUME NEW i, Earlier(i, j), Earlier(j, k)
      PROVE  Earlier(i, k)
  <2>1. PICK a \in DOMAIN Order, b \in DOMAIN Order : a < b /\ Order[a] = i /\ Order[b] = j
        BY <1>6 DEF Earlier
  <2>2. PICK c \in DOMAIN Order, d \in DOMAIN Order : c < d /\ Order[c] = j /\ Order[d] = k
        BY <1>6 DEF Earlier
  <2>3. b = c /\ a \in Nat /\ b \in Nat /\ d \in Nat
        BY <2>1, <2>2, Ordered
  <2>4. a < d
        BY <2>1, <2>2, <2>3
  <2> QED BY <2>1, <2>2, <2>4 DEF Earlier
<1> QED BY <1>4, <1>5, <1>6

\* No more jobs are submitted than there is room for, and some if there is any.
LEMMA Submits ==
  ASSUME NEW h \in SUBSET Job, pending \in SUBSET Job, NEW n \in 0 .. Workers
  PROVE  LET s == Submitted(h, n) IN
         /\ s \subseteq h \cap pending
         /\ Cardinality(s) <= Workers - n
         /\ n < Workers /\ h \cap pending # {} => s # {}
<1> DEFINE ready == h \cap pending
           before(j) == {k \in ready : Earlier(k, j)}
           s == {j \in ready : Cardinality(before(j)) < Workers - n}
           R == 0 .. (Workers - n - 1)
<1>0. Submitted(h, n) = s /\ s \in SUBSET Job /\ ready \in SUBSET Job
      BY DEF Submitted, Room
<1>1. Workers \in Nat /\ n \in Nat /\ n <= Workers
      BY ArtifactAssumption
<1>2. \A j \in Job : before(j) \in SUBSET Job
      BY <1>0
<1>3. \A j \in Job : IsFiniteSet(before(j)) /\ Cardinality(before(j)) \in Nat
      BY <1>2, Finite
<1>4. ASSUME NEW j \in ready, NEW k \in ready, Earlier(j, k)
      PROVE  Cardinality(before(j)) < Cardinality(before(k))
  <2>0. j \in Job /\ k \in Job
        BY <1>0
  <2>1. before(j) \cup {j} \in SUBSET before(k)
        BY <1>4, <2>0, Total
  <2>2. j \notin before(j)
        BY <2>0, Total
  <2> HIDE DEF before
  <2>3. Cardinality(before(j) \cup {j}) = Cardinality(before(j)) + 1
        BY <1>3, <2>0, <2>2, FS_AddElement
  <2>4. Cardinality(before(j) \cup {j}) <= Cardinality(before(k))
        BY <1>3, <2>0, <2>1, FS_Subset
  <2>5. Cardinality(before(j)) \in Nat /\ Cardinality(before(k)) \in Nat
        BY <1>3, <2>0
  <2> QED BY <2>3, <2>4, <2>5
<1>5. Cardinality(s) <= Workers - n
  <2> DEFINE f == [j \in s |-> Cardinality(before(j))]
  <2>1. \A j \in s : Cardinality(before(j)) \in R
    <3> SUFFICES ASSUME NEW j \in s PROVE Cardinality(before(j)) \in R
        OBVIOUS
    <3>1. Cardinality(before(j)) < Workers - n /\ j \in Job
          BY <1>0
    <3>2. Cardinality(before(j)) \in Nat
          BY <1>3, <3>1
    <3> HIDE DEF before
    <3> QED BY <1>1, <3>1, <3>2
  <2>2. \A j, k \in s : Cardinality(before(j)) = Cardinality(before(k)) => j = k
    <3> SUFFICES ASSUME NEW j \in s, NEW k \in s, Cardinality(before(j)) = Cardinality(before(k)), j # k
                 PROVE  FALSE
        OBVIOUS
    <3>1. j \in ready /\ k \in ready /\ j \in Job /\ k \in Job
          BY <1>0
    <3>2. Earlier(j, k) \/ Earlier(k, j)
          BY <3>1, Total
    <3>3. Cardinality(before(j)) \in Nat
          BY <1>3, <3>1
    <3>4. Cardinality(before(j)) < Cardinality(before(k)) \/ Cardinality(before(k)) < Cardinality(before(j))
          BY <1>4, <3>1, <3>2
    <3> HIDE DEF before
    <3> QED BY <3>3, <3>4
  <2> HIDE DEF before, R, s
  <2>3. f \in Injection(s, R)
        BY <2>1, <2>2 DEF Injection, IsInjective
  <2>4. IsFiniteSet(R) /\ Cardinality(R) = Workers - n
    <3>1. 0 \in Int /\ Workers - n - 1 \in Int
          BY <1>1
    <3>2. IsFiniteSet(R) /\ Cardinality(R) = IF 0 > Workers - n - 1 THEN 0 ELSE Workers - n - 1 - 0 + 1
          BY <3>1, FS_Interval DEF R
    <3> QED BY <1>1, <3>2
  <2> HIDE DEF f
  <2>5. Cardinality(s) <= Cardinality(R)
        BY <2>3, <2>4, FS_Injection
  <2> QED BY <2>4, <2>5
<1>6. n < Workers /\ ready # {} => s # {}
  <2> SUFFICES ASSUME n < Workers, ready # {} PROVE s # {}
      OBVIOUS
  <2>1. PICK j \in ready : \A k \in ready : ~Earlier(k, j)
        BY <1>0, FirstOf
  <2>2. before(j) = {}
        BY <2>1
  <2>3. Cardinality(before(j)) = 0
        BY <2>2, FS_EmptySet
  <2>4. 0 < Workers - n
        BY <1>1
  <2> QED BY <2>3, <2>4
<1>7. s \subseteq ready
      OBVIOUS
<1> QED BY <1>0, <1>5, <1>6, <1>7

-----------------------------------------------------------------------------
(* The steps of the scheduler                                              *)

\* Threads change only outside their locks.
Aside ==
  \A w \in Worker :
    \/ work'[w] = work[w]
    \/ work[w].pc \notin HoldingJob /\ work'[w].pc \notin HoldingJob

\* Then what they hold, and all evidence, is as it was.
LEMMA AsideKeeps ==
  ASSUME Inv, Aside, UNCHANGED <<disk, impl, lockVars, histVars>>
  PROVE  LockInv' /\ ValueInv' /\ FilesInv' /\ BytesInv' /\ PathInv' /\ IndexInv'
<1> USE Threads
<1>0. UNCHANGED <<content, pathRec, jobRec, impl, jobLock, targetLock, torn, unindexed>>
      BY DEF disk, lockVars, histVars
<1>a. TypeOK /\ LockInv
      BY DEF Inv
<1>1. ASSUME NEW w \in Worker
      PROVE  /\ work'[w].pc \in HoldingJob <=> work[w].pc \in HoldingJob
             /\ work'[w].pc \in HoldingJob => work'[w] = work[w]
      BY DEF Aside
<1>2. \A w \in Worker : work'[w].pc \in Holding <=> work[w].pc \in Holding
  <2> SUFFICES ASSUME NEW w \in Worker PROVE work'[w].pc \in Holding <=> work[w].pc \in Holding
      OBVIOUS
  <2>1. (work'[w].pc \in Holding => work'[w].pc \in HoldingJob) /\ (work[w].pc \in Holding => work[w].pc \in HoldingJob)
        BY DEF HoldingJob
  <2> QED BY <1>1, <2>1
<1>3. LockInv'
      BY <1>0, <1>1, <1>2 DEF Inv, LockInv
<1>4. \A w \in Worker : work'[w].pc \in Holding => work'[w] = work[w]
      BY <1>1 DEF HoldingJob
<1>5. ValueInv'
      BY <1>4 DEF Inv, ValueInv, Holding
<1>6. FilesInv'
  <2> SUFFICES ASSUME NEW w \in Worker PROVE FileInv(w)'
      BY DEF FilesInv
  <2>1. CASE work'[w].pc \notin Holding
        BY <2>1, Outside
  <2>2. CASE work'[w].pc \in Holding
    <3>1. work'[w] = work[w] /\ FileInv(w)
          BY <1>4, <2>2 DEF Inv, FilesInv
    <3>2. /\ Prior(w)' = Prior(w) /\ Record(w)' = Record(w) /\ Piece(w)' = Piece(w)
          /\ Outdated(w[2])' = Outdated(w[2])
          BY <1>0, <3>1 DEF Prior, Record, Piece, After, Outdated
    <3> QED BY <1>0, <3>1, <3>2 DEF FileInv
  <2> QED BY <2>1, <2>2
<1>7. BytesInv'
  <2> SUFFICES ASSUME NEW t \in Target, t \notin torn,
                      targetLock[t] = Null \/ work'[targetLock[t]].pc \notin Unrecorded
               PROVE  Proven(t)
      BY <1>0 DEF BytesInv, Proven
  <2>1. targetLock[t] # Null => work'[targetLock[t]] = work[targetLock[t]]
    <3> SUFFICES ASSUME targetLock[t] # Null PROVE work'[targetLock[t]] = work[targetLock[t]]
        OBVIOUS
    <3>1. targetLock[t] \in Worker /\ work[targetLock[t]].pc \in Holding
          BY <1>a, OneHolder
    <3> QED BY <1>2, <1>4, <3>1
  <2> QED BY <2>1 DEF Inv, BytesInv
<1>8. \A w \in Worker : work[w].pc = "index" => work'[w].pc = "index"
  <2> SUFFICES ASSUME NEW w \in Worker, work[w].pc = "index" PROVE work'[w].pc = "index"
      OBVIOUS
  <2>1. work[w].pc \in Holding
        BY DEF Holding
  <2> QED BY <1>2, <1>4, <2>1
<1>9. \A j \in Job : Indexed(j) => Indexed(j)'
      BY <1>0, <1>8 DEF Indexed
<1>10. \A t \in Target : pathRec[t] # Null => pathRec[t].job \in Job
       BY <1>a, Receipts DEF TypeOK
<1>11. PathInv'
       BY <1>0, <1>9, <1>10 DEF Inv, PathInv
<1>12. IndexInv'
       BY <1>0, <1>8 DEF Inv, IndexInv
<1> QED BY <1>3, <1>5, <1>6, <1>7, <1>11, <1>12

\* The scheduler of a call does no more than that.
LEMMA SchedulerKeeps ==
  ASSUME Inv, Aside, TypeOK', SchedInv', OrderInv',
         UNCHANGED <<disk, legacy, runVars, ports, lockVars, histVars>>,
         \A j \in Job : work'[Me(j)].pc \notin {"record", "index"} \/ work'[Me(j)] = work[Me(j)],
         \A j \in Job : work'[Me(j)].pc \in Passed => work[Me(j)].pc \in Passed,
         phase' \in {"run", "ok"} => phase = "run" /\ cancelled' = cancelled
  PROVE  Inv'
<1> USE Threads
<1>0. UNCHANGED <<content, pathRec, jobRec, impl, call, ports, jobLock, targetLock, torn, unindexed>>
      BY DEF disk, runVars, lockVars, histVars
<1>1. LockInv' /\ ValueInv' /\ FilesInv' /\ BytesInv' /\ PathInv' /\ IndexInv'
      BY <1>0, AsideKeeps
<1>2. \A j \in Job : Me(j)' = Me(j)
      BY <1>0 DEF Me
<1>3. PortInv'
  <2> SUFFICES ASSUME NEW j \in Job PROVE PortOK(j)'
      BY DEF PortInv
  <2>1. PortOK(j)
        BY DEF Inv, PortInv
  <2> QED BY <1>0, <1>2, <2>1 DEF PortOK
<1>4. PassedInv'
  <2> SUFFICES ASSUME NEW j \in Job, phase' \in {"run", "ok"}, work'[Me(j)].pc \in Passed
               PROVE  Kept(j)'
      BY <1>2 DEF PassedInv
  <2> DEFINE t == TargetOf[j]
  <2>1. Kept(j)
        BY DEF Inv, PassedInv
  <2>2. t \in Target /\ Outdated(j)' = Outdated(j)
        BY <1>0 DEF Outdated
  <2>3. targetLock[t] \in Worker /\ work[targetLock[t]].pc \in Unrecorded => work'[targetLock[t]].pc \in Unrecorded
    <3>1. \A p \in Unrecorded : p \in HoldingJob
          BY DEF Unrecorded, HoldingJob, Holding
    <3> QED BY <3>1 DEF Aside
  <2> QED BY <1>0, <2>1, <2>2, <2>3 DEF Kept
<1> QED BY <1>1, <1>3, <1>4 DEF Inv

\* The loop ends with an error.
LEMMA ErrorKeeps ==
  ASSUME Inv, Error
  PROVE  Inv'
<1>0. /\ phase = "run" /\ phase' = "cancel"
      /\ UNCHANGED <<disk, legacy, runVars, schedVars, ports, work, cancelled, lockVars, histVars>>
      BY DEF Error
<1>a. UNCHANGED <<indegree, heap, pending, generating, validating, validated, call>>
      BY <1>0 DEF schedVars, runVars
<1>1. TypeOK'
      BY <1>0 DEF Inv, TypeOK, disk, runVars, schedVars, lockVars, histVars
<1>2. SchedInv'
      BY <1>0, <1>a DEF Inv, SchedInv, Futures, Me
<1>3. OrderInv'
      BY <1>0, <1>a DEF Inv, OrderInv
<1>4. Aside
      BY <1>0 DEF Aside
<1> QED BY <1>0, <1>1, <1>2, <1>3, <1>4, SchedulerKeeps

\* A call has succeeded, or its wiring has raised.
LEMMA SucceedKeeps ==
  ASSUME Inv, Succeed
  PROVE  Inv'
<1>0. /\ phase = "run" /\ phase' \in {"ok", "error"} /\ pending = {} /\ Futures = {}
      /\ UNCHANGED <<disk, legacy, runVars, schedVars, ports, work, cancelled, lockVars, histVars>>
      BY DEF Succeed, Done
<1>a. UNCHANGED <<indegree, heap, pending, generating, validating, validated, call>>
      BY <1>0 DEF schedVars, runVars
<1>1. TypeOK'
      BY <1>0 DEF Inv, TypeOK, disk, runVars, schedVars, lockVars, histVars
<1>2. SchedInv'
      BY <1>0, <1>a DEF Inv, SchedInv, Futures, Me
<1>3. OrderInv'
      BY <1>0, <1>a DEF Inv, OrderInv
<1>4. Aside
      BY <1>0 DEF Aside
<1> QED BY <1>0, <1>1, <1>2, <1>3, <1>4, SchedulerKeeps

\* The budgets are cancelled one by one.
LEMMA CancelKeeps ==
  ASSUME Inv, Cancel
  PROVE  Inv'
<1> USE Threads
<1>0. /\ phase = "cancel"
      /\ UNCHANGED <<disk, legacy, runVars, indegree, heap, pending, validated, ports, lockVars, histVars>>
      /\ UNCHANGED <<content, pathRec, jobRec, impl, call, crashes, jobLock, targetLock, torn, unindexed>>
      BY DEF Cancel, disk, runVars, lockVars, histVars
<1>a. TypeOK /\ SchedInv /\ OrderInv
      BY DEF Inv
<1>1. CASE /\ Futures \ Finished = {} /\ phase' = "error"
           /\ UNCHANGED <<work, cancelled, generating, validating>>
  <2>1. TypeOK'
        BY <1>0, <1>1, <1>a DEF TypeOK
  <2>2. SchedInv'
    <3>1. ASSUME NEW w \in Worker, work[w].pc \in Live PROVE w \in cancelled
      <4> SUFFICES ASSUME w[1] = call, w[2] \in Finished PROVE FALSE
          BY <1>1, <1>a, <3>1 DEF SchedInv
      <4>1. w = Me(w[2])
            BY <1>a, Typed
      <4> QED BY <3>1, <4>1 DEF Finished, Live, HoldingJob, Holding
    <3> QED BY <1>0, <1>1, <1>a, <3>1 DEF SchedInv, Futures, Me
  <2>3. OrderInv'
        BY <1>0, <1>1, <1>a DEF OrderInv
  <2>4. Aside
        BY <1>1 DEF Aside
  <2> QED BY <1>0, <1>1, <2>1, <2>2, <2>3, <2>4, SchedulerKeeps
<1>2. ASSUME NEW j \in Futures \ Finished,
             cancelled' = cancelled \cup {Me(j)},
             generating' = generating \ {j}, validating' = validating \ {j},
             \/ work[Me(j)].pc = "queued" /\ To(Me(j), "dropped")
             \/ UNCHANGED work,
             UNCHANGED phase
      PROVE  Inv'
  <2> DEFINE w == Me(j)
  <2>0. w \in Worker /\ w[1] = call /\ w[2] = j /\ j \in Job
        BY <1>a, Typed DEF TypeOK, Futures
  <2>1. /\ work' \in [Worker -> Task] /\ \A v \in Worker \ {w} : work'[v] = work[v]
        /\ work'[w] = work[w] \/ (work[w].pc = "queued" /\ work'[w].pc = "dropped")
    <3>1. CASE work[w].pc = "queued" /\ To(w, "dropped")
      <4>1. "dropped" \in Steps
            BY DEF Steps
      <4> QED BY <1>a, <2>0, <3>1, <4>1, Moved DEF Only
    <3>2. CASE UNCHANGED work
          BY <1>a, <3>2, Typed
    <3> QED BY <1>2, <3>1, <3>2
  <2> HIDE DEF w
  <2>2. TypeOK'
    <3>1. generating \in SUBSET Job /\ generating' \in SUBSET generating /\ generating' \in SUBSET Job
          BY <1>2, <1>a DEF TypeOK
    <3>2. Cardinality(generating') <= Cardinality(generating)
          BY <3>1, Finite, FS_Subset
    <3>3. Cardinality(generating) <= Workers /\ Workers \in Nat
          BY <1>a, ArtifactAssumption DEF TypeOK
    <3>4. Cardinality(generating') <= Workers
          BY <3>1, <3>2, <3>3, Finite
    <3>5. cancelled' \subseteq Worker
          BY <1>2, <1>a, <2>0 DEF TypeOK, w
    <3> QED BY <1>0, <1>2, <1>a, <2>1, <3>1, <3>4, <3>5 DEF TypeOK, Task
  <2>3. SchedInv'
    <3>1. Futures' = Futures \ {j} /\ j \notin pending /\ j \notin validated
          BY <1>2, <1>a DEF Futures, SchedInv
    <3>2. \A k \in Job : Me(k)' = Me(k) /\ (k # j => Me(k) \in Worker \ {w})
          BY <1>0, <1>a, <2>0, Typed DEF Me
    <3>3. \A k \in generating' : work'[Me(k)].pc \in Generates
          BY <1>2, <1>a, <2>1, <3>2 DEF SchedInv, TypeOK
    <3>4. \A k \in validating' : work'[Me(k)].pc \in {"check", "valid", "failed"}
          BY <1>2, <1>a, <2>1, <3>2 DEF SchedInv, TypeOK
    <3>5. \A k \in validated : work'[Me(k)].pc = "valid"
          BY <1>a, <2>1, <3>1, <3>2 DEF SchedInv, TypeOK
    <3>6. ASSUME NEW v \in Worker, v[1] > call \/ (v[1] = call /\ v[2] \in pending)
          PROVE  work'[v].pc = "idle" /\ v \notin cancelled'
      <4>1. v # w
            BY <1>a, <2>0, <3>1, <3>6, Typed
      <4> QED BY <1>2, <1>a, <2>1, <3>6, <4>1 DEF SchedInv, w
    <3>7. ASSUME NEW v \in Worker, work'[v].pc \in Live
          PROVE  v \in cancelled' \/ (v[1] = call /\ v[2] \in Futures' /\ phase \in {"run", "cancel"})
      <4>1. CASE v = w
            BY <1>2, <4>1 DEF w
      <4>2. CASE v # w
        <5>1. work[v].pc \in Live
              BY <2>1, <3>7, <4>2
        <5>2. v[1] = call /\ v[2] = j => v = w
              BY <2>0
        <5> QED BY <1>2, <1>a, <3>1, <4>2, <5>1, <5>2 DEF SchedInv
      <4> QED BY <4>1, <4>2
    <3>8. /\ \A k \in generating' : work'[Me(k)'].pc \in Generates
          /\ \A k \in validating' : work'[Me(k)'].pc \in {"check", "valid", "failed"}
          /\ \A k \in validated' : work'[Me(k)'].pc = "valid"
          BY <1>0, <1>2, <1>a, <3>2, <3>3, <3>4, <3>5 DEF TypeOK
    <3>9. /\ pending' \cap (Futures' \cup validated') = {}
          /\ generating' \cap validating' = {} /\ validated' \cap Futures' = {}
          BY <1>0, <1>2, <1>a, <3>1 DEF SchedInv
    <3> QED BY <1>0, <1>2, <3>6, <3>7, <3>8, <3>9 DEF SchedInv
  <2>4. OrderInv'
        BY <1>0, <1>2, <1>a DEF OrderInv
  <2>5. Aside
        BY <2>1 DEF Aside, HoldingJob, Holding
  <2>6. \A k \in Job : /\ work'[Me(k)].pc \notin {"record", "index"} \/ work'[Me(k)] = work[Me(k)]
                       /\ work'[Me(k)].pc \in Passed => work[Me(k)].pc \in Passed
        BY <1>a, <2>1, Typed DEF Passed
  <2> QED BY <1>0, <1>2, <2>2, <2>3, <2>4, <2>5, <2>6, SchedulerKeeps
<1> QED BY <1>1, <1>2 DEF Cancel

-----------------------------------------------------------------------------
(* From call to call                                                       *)

\* A call begins: nothing is submitted, and nothing is known of the threads of the call.
Begins ==
  /\ phase' = "run"
  /\ indegree' = Degrees /\ heap' = Roots /\ pending' = Job
  /\ generating' = {} /\ validating' = {} /\ validated' = {}
  /\ ports' = [j \in Job |-> Null]
  /\ \A w \in Worker : w[1] >= call' => work'[w].pc = "idle" /\ w \notin cancelled'
  /\ \A w \in Worker : work'[w].pc \in Live => w \in cancelled'

\* What holds then, whatever is on the disk.
LEMMA Beginning ==
  ASSUME Begins, call' \in 1 .. MaxCall
  PROVE  /\ SchedInv' /\ OrderInv' /\ PortInv' /\ PassedInv'
         /\ Degrees \in [Job -> Nat] /\ Roots \subseteq Job /\ Cardinality({}) <= Workers
         /\ ports' \in [Job -> Port]
<1> USE Threads
<1>1. \A j \in Job : Requires[j] \in SUBSET Job
      OBVIOUS
<1>2. Degrees \in [Job -> Nat] /\ Roots \subseteq Job
      BY <1>1, Finite DEF Degrees, Roots
<1>3. Cardinality({}) <= Workers
      BY FS_EmptySet, ArtifactAssumption
<1>4. OrderInv'
  <2>1. \A j \in Job : Requires[j] \ {} = Requires[j] /\ (Requires[j] \subseteq {} <=> Requires[j] = {})
        OBVIOUS
  <2>2. indegree' = [j \in Job |-> Cardinality(Requires[j] \ validated')]
        BY <2>1 DEF Begins, Degrees
  <2>3. heap' = {j \in pending' : Requires[j] \subseteq validated'}
        BY <2>1 DEF Begins, Roots
  <2> QED BY <2>2, <2>3 DEF OrderInv, Begins
<1>5. \A j \in Job : Me(j)' \in Worker /\ Me(j)'[1] = call' /\ call' \in Nat
      BY DEF Me
<1>6. \A w \in Worker : w[1] \in Nat
      OBVIOUS
<1>7. \A j \in Job : work'[Me(j)'].pc = "idle"
      BY <1>5 DEF Begins
<1>8. SchedInv'
  <2>1. Futures' = {}
        BY DEF Begins, Futures
  <2>2. \A w \in Worker : (w[1] > call' \/ (w[1] = call' /\ w[2] \in pending')) =>
          work'[w].pc = "idle" /\ w \notin cancelled'
        BY <1>6 DEF Begins
  <2> QED BY <2>1, <2>2 DEF Begins, SchedInv
<1>9. PortInv' /\ PassedInv'
      BY <1>7 DEF PortInv, PortOK, PassedInv, Passed
<1>10. ports' \in [Job -> Port]
       BY DEF Begins, Port
<1> QED BY <1>2, <1>3, <1>4, <1>8, <1>9, <1>10

\* The next call of the same process.
LEMMA AgainKeeps ==
  ASSUME Inv, Again
  PROVE  Inv'
<1> USE Threads
<1>0. /\ phase \in {"ok", "error"} /\ NewCall
      /\ work' = [w \in Worker |-> IF work[w].pc \in Returned THEN Idle ELSE work[w]]
      /\ UNCHANGED <<impl, crashes, cancelled, lockVars, histVars, disk, legacy>>
      BY DEF Again, NewCall
<1>a. TypeOK /\ SchedInv /\ call \in Nat /\ MaxCall \in Nat /\ work \in [Worker -> Task]
      BY Typed, ArtifactAssumption DEF Inv
<1>1. call' = call + 1 /\ call' \in 1 .. MaxCall
      BY <1>0, <1>a DEF NewCall
<1>2. \A w \in Worker : (work'[w] = Idle /\ work[w].pc \in Returned) \/ work'[w] = work[w]
      BY <1>0
<1>3. work' \in [Worker -> Task]
      BY <1>0, <1>a
<1>4. Begins
  <2>1. ASSUME NEW w \in Worker, w[1] >= call'
        PROVE  work'[w].pc = "idle" /\ w \notin cancelled'
    <3>1. w[1] > call
          BY <1>1, <1>a, <2>1
    <3> QED BY <1>0, <1>2, <1>a, <3>1 DEF SchedInv
  <2>2. ASSUME NEW w \in Worker, work'[w].pc \in Live
        PROVE  w \in cancelled'
    <3>1. work[w].pc \in Live
          BY <1>2, <2>2 DEF Live, HoldingJob, Holding
    <3> QED BY <1>0, <1>a, <3>1 DEF SchedInv
  <2> QED BY <1>0, <2>1, <2>2 DEF Begins, NewCall
<1>5. /\ SchedInv' /\ OrderInv' /\ PortInv' /\ PassedInv'
      /\ Degrees \in [Job -> Nat] /\ Roots \subseteq Job /\ Cardinality({}) <= Workers
      /\ ports' \in [Job -> Port]
      BY <1>1, <1>4, Beginning
<1>6. TypeOK'
      BY <1>0, <1>1, <1>3, <1>5, <1>a DEF TypeOK, Task, NewCall, disk, lockVars, histVars
<1>7. Aside
      BY <1>2 DEF Aside, Returned, HoldingJob, Holding
<1>8. LockInv' /\ ValueInv' /\ FilesInv' /\ BytesInv' /\ PathInv' /\ IndexInv'
      BY <1>0, <1>7, AsideKeeps
<1> QED BY <1>5, <1>6, <1>8 DEF Inv

\* The process dies: what its threads had not recorded is in the histories.
LEMMA CrashKeeps ==
  ASSUME Inv, Crash
  PROVE  Inv'
<1> USE Threads
<1>0. /\ NewCall /\ impl' \in 1 .. MaxImpl /\ crashes < MaxCrash /\ crashes' = crashes + 1
      /\ work' = [w \in Worker |-> Idle] /\ cancelled' = {}
      /\ jobLock' = [j \in Job |-> Null] /\ targetLock' = [t \in Target |-> Null]
      /\ UNCHANGED <<content, pathRec, jobRec, legacy>>
      BY DEF Crash, NewCall, disk
<1>a. TypeOK /\ LockInv /\ call \in Nat /\ MaxCall \in Nat /\ MaxCrash \in Nat
      BY Typed, ArtifactAssumption DEF Inv
<1>1. call' = call + 1 /\ call' \in 1 .. MaxCall
      BY <1>0, <1>a DEF NewCall
<1>2. \A w \in Worker : work'[w] = Idle /\ work'[w].pc = "idle"
      BY <1>0
<1>3. work' \in [Worker -> Task] /\ cancelled' \subseteq Worker
      BY <1>0
<1>4. Begins
      BY <1>0, <1>2 DEF Begins, NewCall, Live, HoldingJob, Holding
<1>5. /\ SchedInv' /\ OrderInv' /\ PortInv' /\ PassedInv'
      /\ Degrees \in [Job -> Nat] /\ Roots \subseteq Job /\ Cardinality({}) <= Workers
      /\ ports' \in [Job -> Port]
      BY <1>1, <1>4, Beginning
<1>6. /\ torn' = torn \cup {FileOf(w) : w \in {x \in Worker : work[x].pc \in Unrecorded}}
      /\ unindexed' = unindexed \cup {FileOf(w) : w \in {x \in Worker : work[x].pc = "index"}}
      BY DEF Crash, Leaves
<1>7. torn' \subseteq Target /\ unindexed' \subseteq Target
      BY <1>6, <1>a DEF TypeOK
<1>8. /\ torn \subseteq torn' /\ unindexed \subseteq unindexed'
      /\ \A w \in Worker : work[w].pc \in Unrecorded => FileOf(w) \in torn'
      /\ \A w \in Worker : work[w].pc = "index" => FileOf(w) \in unindexed'
      BY <1>6 DEF Unrecorded
<1>9. TypeOK'
  <2>1. crashes' \in 0 .. MaxCrash /\ crashes \in Nat
        BY <1>0, <1>a DEF TypeOK
  <2>2. jobLock' \in [Job -> Worker \cup {Null}] /\ targetLock' \in [Target -> Worker \cup {Null}]
        BY <1>0
  <2> QED BY <1>0, <1>1, <1>3, <1>5, <1>7, <1>a, <2>1, <2>2 DEF TypeOK, Task, NewCall
<1>10. LockInv'
  <2>1. /\ \A j \in Job : jobLock'[j] = Null
        /\ \A t \in Target : targetLock'[t] = Null
        BY <1>0
  <2> QED BY <1>2, <2>1 DEF LockInv, HoldingJob, Holding, FileOf, JobOf
<1>11. ValueInv'
       BY <1>2 DEF ValueInv
<1>12. FilesInv'
       BY <1>2, Outside DEF FilesInv, Holding
<1>13. BytesInv'
  <2> SUFFICES ASSUME NEW t \in Target, t \notin torn' PROVE Proven(t)
      BY <1>0 DEF BytesInv, Proven
  <2>1. targetLock[t] = Null \/ work[targetLock[t]].pc \notin Unrecorded
        BY <1>8, <1>a, OneHolder
  <2> QED BY <1>8, <2>1 DEF Inv, BytesInv
<1>14. PathInv'
  <2>1. \A j \in Job : Indexed(j) => Indexed(j)'
    <3> SUFFICES ASSUME NEW j \in Job, Indexed(j) PROVE jobRec[j] # Null \/ TargetOf[j] \in unindexed'
        BY <1>0 DEF Indexed
    <3> QED BY <1>8 DEF Indexed
  <2>2. \A t \in Target : pathRec[t] # Null => pathRec[t].job \in Job
        BY <1>a, Receipts DEF TypeOK
  <2> QED BY <1>0, <2>1, <2>2 DEF Inv, PathInv
<1>15. IndexInv'
  <2> SUFFICES ASSUME NEW j \in Job, jobRec[j] # Null
               PROVE  \/ Contains(pathRec[TargetOf[j]].after, <<j, jobRec[j].val>>)
                      \/ TargetOf[j] \in unindexed'
      BY <1>0 DEF Inv, IndexInv
  <2>1. \/ Contains(pathRec[TargetOf[j]].after, <<j, jobRec[j].val>>)
        \/ TargetOf[j] \in unindexed
        \/ \E v \in Worker : v[2] = j /\ work[v].pc = "index"
        BY DEF Inv, IndexInv
  <2> QED BY <1>8, <2>1
<1> QED BY <1>5, <1>9, <1>10, <1>11, <1>12, <1>13, <1>14, <1>15 DEF Inv

\* The first call finds no evidence.
LEMMA InitHolds ==
  ASSUME Init
  PROVE  Inv
<1> USE Threads
<1>0. /\ pathRec = [t \in Target |-> Null] /\ jobRec = [j \in Job |-> Null]
      /\ work = [w \in Worker |-> Idle]
      /\ jobLock = [j \in Job |-> Null] /\ targetLock = [t \in Target |-> Null]
      /\ impl = 1 /\ call = 1 /\ crashes = 0 /\ phase = "run"
      /\ indegree = Degrees /\ heap = Roots /\ pending = Job
      /\ generating = {} /\ validating = {} /\ validated = {} /\ cancelled = {}
      /\ ports = [j \in Job |-> Null] /\ torn = {} /\ unindexed = {}
      /\ legacy \in [Target -> Former]
      BY DEF Init
<1>1. content \in [Target -> Bytes \cup {Absent}] /\ \A t \in Target : content[t] \in {Absent, <<>>}
      BY Pieces DEF Init
<1>2. \A w \in Worker : work[w].pc = "idle"
      BY <1>0
<1>3. 1 \in 1 .. MaxCall /\ 1 \in 1 .. MaxImpl /\ 0 \in 0 .. MaxCrash
      BY ArtifactAssumption
<1>4. \A j \in Job : Requires[j] \in SUBSET Job
      OBVIOUS
<1>5. Degrees \in [Job -> Nat] /\ Roots \subseteq Job
      BY <1>4, Finite DEF Degrees, Roots
<1>6. Cardinality({}) <= Workers
      BY FS_EmptySet, ArtifactAssumption
<1>7. TypeOK
      BY <1>0, <1>1, <1>3, <1>5, <1>6 DEF TypeOK, Task, Port
<1>8. \A j \in Job : work[Me(j)].pc = "idle"
      BY <1>2, <1>7, Typed
<1>9. SchedInv
      BY <1>0, <1>2 DEF SchedInv, Futures, Live, HoldingJob, Holding
<1>10. OrderInv
  <2>1. \A j \in Job : Requires[j] \ {} = Requires[j] /\ (Requires[j] \subseteq {} <=> Requires[j] = {})
        OBVIOUS
  <2>2. indegree = [j \in Job |-> Cardinality(Requires[j] \ validated)]
        BY <1>0, <2>1 DEF Degrees
  <2>3. heap = {j \in pending : Requires[j] \subseteq validated}
        BY <1>0, <2>1 DEF Roots
  <2> QED BY <1>0, <2>2, <2>3 DEF OrderInv
<1>11. LockInv
  <2>1. /\ \A j \in Job : jobLock[j] = Null
        /\ \A t \in Target : targetLock[t] = Null
        BY <1>0
  <2> QED BY <1>2, <2>1 DEF LockInv, HoldingJob, Holding
<1>12. ValueInv
       BY <1>2 DEF ValueInv
<1>13. FilesInv
       BY <1>2 DEF FilesInv, FileInv, Unrecorded
<1>14. BytesInv
       BY <1>0, <1>1 DEF BytesInv, Proven
<1>15. PathInv /\ IndexInv
       BY <1>0 DEF PathInv, IndexInv
<1>16. PortInv /\ PassedInv
       BY <1>8 DEF PortInv, PortOK, PassedInv, Passed
<1> QED BY <1>7, <1>9, <1>10, <1>11, <1>12, <1>13, <1>14, <1>15, <1>16 DEF Inv

-----------------------------------------------------------------------------
(* The loop of the scheduler                                               *)

\* Counting down the producers that are validated keeps the count of the others.
LEMMA CountDown ==
  ASSUME NEW R \in SUBSET Job, NEW V \in SUBSET Job, NEW C \in SUBSET Job, V \cap C = {}
  PROVE  /\ Cardinality(R \ V) - Cardinality(R \cap C) = Cardinality(R \ (V \cup C))
         /\ Cardinality(R \ (V \cup C)) \in Nat
<1>1. R \ V \in SUBSET Job /\ R \ (V \cup C) \in SUBSET Job
      OBVIOUS
<1>2. (R \ V) \ C = R \ (V \cup C) /\ (R \ V) \cap C = R \cap C
      OBVIOUS
<1>3. IsFiniteSet(R \ V) /\ Cardinality(R \ (V \cup C)) \in Nat
      BY <1>1, Finite
<1>4. Cardinality((R \ V) \ C) = Cardinality(R \ V) - Cardinality((R \ V) \cap C)
      BY <1>3, FS_Difference
<1> QED BY <1>2, <1>3, <1>4

\* A wake-up, by what it has found and what it starts.
Wakes(made, checked, started) ==
  /\ phase = "run"
  /\ checked = Finished \cap validating /\ made = Finished \cap generating
  /\ \A j \in checked : work[Me(j)].pc = "valid"
  /\ \A j \in made : work[Me(j)].pc = "passed"
  /\ pending' = pending \ started
  /\ generating' = (generating \ made) \cup started
  /\ validating' = (validating \ checked) \cup made
  /\ validated' = validated \cup checked
  /\ work' = [w \in Worker |->
       IF w \in Mine /\ JobOf(w) \in started THEN [Idle EXCEPT !.pc = "queued"]
       ELSE IF w \in Mine /\ JobOf(w) \in made THEN [work[w] EXCEPT !.pc = "check"]
       ELSE work[w]]
  /\ UNCHANGED <<disk, legacy, runVars, phase, ports, cancelled, lockVars, histVars>>

\* The threads after a wake-up.
LEMMA Woken ==
  ASSUME Inv, NEW made, NEW checked, NEW started \in SUBSET pending, Wakes(made, checked, started)
  PROVE  /\ work' \in [Worker -> Task]
         /\ \A j \in started : work'[Me(j)].pc = "queued" /\ work[Me(j)].pc = "idle"
         /\ \A j \in made : work'[Me(j)].pc = "check" /\ work[Me(j)].pc = "passed"
         /\ \A w \in Worker : w[1] # call \/ w[2] \notin started \cup made => work'[w] = work[w]
<1> USE Threads
<1>0. TypeOK /\ SchedInv /\ work \in [Worker -> Task]
      BY Typed DEF Inv
<1>1. started \cap made = {} /\ started \subseteq Job /\ made \subseteq Job
      BY <1>0 DEF SchedInv, TypeOK, Wakes, Futures
<1>2. "queued" \in Steps /\ "check" \in Steps
      BY DEF Steps
<1>3. [Idle EXCEPT !.pc = "queued"] \in Task /\ [Idle EXCEPT !.pc = "queued"].pc = "queued"
      BY <1>2
<1>4. \A w \in Worker : [work[w] EXCEPT !.pc = "check"] \in Task /\ [work[w] EXCEPT !.pc = "check"].pc = "check"
  <2> SUFFICES ASSUME NEW x \in Task PROVE [x EXCEPT !.pc = "check"] \in Task /\ [x EXCEPT !.pc = "check"].pc = "check"
      BY <1>0
  <2> QED BY <1>2 DEF Task
<1>5. \A w \in Worker : w \in Mine <=> w[1] = call
      BY DEF Mine
<1>6. \A w \in Worker : work'[w] =
         IF w[1] = call /\ w[2] \in started THEN [Idle EXCEPT !.pc = "queued"]
         ELSE IF w[1] = call /\ w[2] \in made THEN [work[w] EXCEPT !.pc = "check"]
         ELSE work[w]
      BY <1>5 DEF Wakes
<1>7. work' = [w \in Worker |-> work'[w]]
      BY DEF Wakes
<1>8. \A w \in Worker : work'[w] \in Task
  <2> SUFFICES ASSUME NEW w \in Worker PROVE work'[w] \in Task
      OBVIOUS
  <2>1. CASE w[1] = call /\ w[2] \in started
    <3>1. work'[w] = [Idle EXCEPT !.pc = "queued"]
          BY <1>6, <2>1
    <3> QED BY <1>3, <3>1
  <2>2. CASE w[1] = call /\ w[2] \in made /\ w[2] \notin started
    <3>1. work'[w] = [work[w] EXCEPT !.pc = "check"]
          BY <1>6, <2>2
    <3> QED BY <1>4, <3>1
  <2>3. CASE w[1] # call \/ w[2] \notin started \cup made
    <3>1. work'[w] = work[w]
          BY <1>6, <2>3
    <3> QED BY <1>0, <3>1
  <2> QED BY <2>1, <2>2, <2>3
<1>9. work' \in [Worker -> Task]
      BY <1>7, <1>8
<1>10. \A j \in Job : Me(j) \in Worker /\ Me(j)[1] = call /\ Me(j)[2] = j
       BY <1>0, Typed
<1>11. ASSUME NEW j \in started
       PROVE  work'[Me(j)].pc = "queued" /\ work[Me(j)].pc = "idle"
  <2>1. j \in Job /\ j \in pending
        BY <1>1
  <2>2. work'[Me(j)] = [Idle EXCEPT !.pc = "queued"]
        BY <1>6, <1>10, <2>1
  <2>3. work[Me(j)].pc = "idle"
        BY <1>0, <1>10, <2>1 DEF SchedInv
  <2> QED BY <1>3, <2>2, <2>3
<1>12. ASSUME NEW j \in made
       PROVE  work'[Me(j)].pc = "check" /\ work[Me(j)].pc = "passed"
  <2>1. j \in Job /\ j \notin started
        BY <1>1
  <2>2. work'[Me(j)] = [work[Me(j)] EXCEPT !.pc = "check"]
        BY <1>6, <1>10, <2>1
  <2>3. work'[Me(j)].pc = "check"
        BY <1>4, <1>10, <2>1, <2>2
  <2> QED BY <2>3 DEF Wakes
<1>13. \A w \in Worker : w[1] # call \/ w[2] \notin started \cup made => work'[w] = work[w]
       BY <1>6
<1> QED BY <1>9, <1>11, <1>12, <1>13

\* The sets still tell where the threads are.
LEMMA WakesKeepSched ==
  ASSUME Inv, NEW made, NEW checked, NEW started \in SUBSET pending, Wakes(made, checked, started)
  PROVE  SchedInv'
<1> USE Threads
<1>0. TypeOK /\ SchedInv
      BY DEF Inv
<1>1. /\ pending \cap (Futures \cup validated) = {}
      /\ generating \cap validating = {} /\ validated \cap Futures = {}
      /\ Job = pending \cup Futures \cup validated
      /\ Futures = generating \cup validating
      BY <1>0 DEF SchedInv, Wakes, Futures
<1>2. /\ made \subseteq generating /\ checked \subseteq validating
      /\ pending' = pending \ started
      /\ generating' = (generating \ made) \cup started
      /\ validating' = (validating \ checked) \cup made
      /\ validated' = validated \cup checked
      /\ phase = "run" /\ phase' = "run" /\ call' = call /\ cancelled' = cancelled
      BY DEF Wakes, runVars
<1>3. Futures' = (Futures \ checked) \cup started
      BY <1>1, <1>2 DEF Futures
<1>4. /\ pending' \cap (Futures' \cup validated') = {}
      /\ generating' \cap validating' = {} /\ validated' \cap Futures' = {}
      /\ Job = pending' \cup Futures' \cup validated'
      BY <1>1, <1>2, <1>3
<1>5. /\ \A j \in started : work'[Me(j)].pc = "queued" /\ work[Me(j)].pc = "idle"
      /\ \A j \in made : work'[Me(j)].pc = "check" /\ work[Me(j)].pc = "passed"
      /\ \A w \in Worker : w[1] # call \/ w[2] \notin started \cup made => work'[w] = work[w]
      BY Woken
<1>6. \A j \in Job : Me(j)' = Me(j) /\ Me(j) \in Worker /\ Me(j)[1] = call /\ Me(j)[2] = j
      BY <1>0, <1>2, Typed DEF Me
<1>7. \A j \in Job \ (started \cup made) : work'[Me(j)] = work[Me(j)]
      BY <1>5, <1>6
<1>8. \A j \in generating' : work'[Me(j)'].pc \in Generates
  <2> SUFFICES ASSUME NEW j \in generating' PROVE work'[Me(j)].pc \in Generates
      BY <1>1, <1>2, <1>6
  <2>1. CASE j \in started
        BY <1>5, <2>1 DEF Generates
  <2>2. CASE j \notin started
    <3>1. j \in generating /\ j \notin started \cup made /\ j \in Job
          BY <1>1, <1>2, <2>2
    <3> QED BY <1>0, <1>7, <3>1 DEF SchedInv
  <2> QED BY <2>1, <2>2
<1>9. \A j \in validating' : work'[Me(j)'].pc \in {"check", "valid", "failed"}
  <2> SUFFICES ASSUME NEW j \in validating' PROVE work'[Me(j)].pc \in {"check", "valid", "failed"}
      BY <1>1, <1>2, <1>6
  <2>1. CASE j \in made
        BY <1>5, <2>1
  <2>2. CASE j \notin made
    <3>1. j \in validating /\ j \notin started \cup made /\ j \in Job
          BY <1>1, <1>2, <2>2
    <3> QED BY <1>0, <1>7, <3>1 DEF SchedInv
  <2> QED BY <2>1, <2>2
<1>10. \A j \in validated' : work'[Me(j)'].pc = "valid"
  <2> SUFFICES ASSUME NEW j \in validated' PROVE work'[Me(j)].pc = "valid"
      BY <1>1, <1>2, <1>6
  <2>1. j \in validated \cup checked /\ j \notin started \cup made /\ j \in Job
        BY <1>1, <1>2
  <2>2. work[Me(j)].pc = "valid"
        BY <1>0, <2>1 DEF SchedInv, Wakes
  <2> QED BY <1>7, <2>1, <2>2
<1>11. ASSUME NEW w \in Worker, w[1] > call' \/ (w[1] = call' /\ w[2] \in pending')
       PROVE  work'[w].pc = "idle" /\ w \notin cancelled'
  <2>0. call \in Nat /\ w[1] \in Nat
        BY <1>0, Typed
  <2>1. w[1] # call \/ w[2] \notin started \cup made
        BY <1>1, <1>2, <1>11, <2>0
  <2>2. w[1] > call \/ (w[1] = call /\ w[2] \in pending)
        BY <1>2, <1>11
  <2>3. work[w].pc = "idle" /\ w \notin cancelled
        BY <1>0, <2>2 DEF SchedInv
  <2> QED BY <1>2, <1>5, <2>1, <2>3
<1>12. ASSUME NEW w \in Worker, work'[w].pc \in Live
       PROVE  w \in cancelled' \/ (w[1] = call' /\ w[2] \in Futures' /\ phase' \in {"run", "cancel"})
  <2>1. CASE w[1] = call /\ w[2] \in started \cup made
        BY <1>1, <1>2, <1>3, <2>1
  <2>2. CASE w[1] # call \/ w[2] \notin started \cup made
    <3>1. work[w].pc \in Live
          BY <1>5, <1>12, <2>2
    <3>2. w \in cancelled \/ (w[1] = call /\ w[2] \in Futures)
          BY <1>0, <3>1 DEF SchedInv
    <3>3. w[1] = call => w[2] \notin checked
      <4> SUFFICES ASSUME w[1] = call, w[2] \in checked PROVE FALSE
          OBVIOUS
      <4>1. w = Me(w[2])
            BY <1>0, Typed
      <4>2. work[Me(w[2])].pc = "valid"
            BY DEF Wakes
      <4>3. work[w].pc = "valid"
            BY <4>1, <4>2
      <4> QED BY <3>1, <4>3 DEF Live, HoldingJob, Holding
    <3> QED BY <1>2, <1>3, <3>2, <3>3
  <2> QED BY <2>1, <2>2
<1> HIDE Threads
<1> QED BY <1>2, <1>4, <1>8, <1>9, <1>10, <1>11, <1>12 DEF SchedInv

\* The completions of a wake-up keep the counters, and their submissions the heap; with no
\* cycle in the graph, one that has nothing to wait for can submit.
LEMMA AdvanceKeeps ==
  ASSUME Inv, Advance
  PROVE  Inv'
<1> USE Threads
<1> DEFINE checked == Finished \cap validating
           made    == Finished \cap generating
           degree  == [j \in Job |-> indegree[j] - Cardinality(Requires[j] \cap Satisfied)]
           ready   == heap \cup Unblocked(degree)
           n       == Cardinality(generating \ made)
           started == Submitted(ready, n)
           seen    == validated \cup checked
<1>0. TypeOK /\ SchedInv /\ OrderInv /\ phase = "run" /\ Broken = {}
      BY DEF Inv, Advance
<1>1. /\ indegree' = degree
      /\ heap' = ready \ started
      /\ pending' = pending \ started
      /\ generating' = (generating \ made) \cup started
      /\ validating' = (validating \ checked) \cup made
      /\ validated' = validated \cup checked
      /\ work' = [w \in Worker |->
           IF w \in Mine /\ JobOf(w) \in started THEN [Idle EXCEPT !.pc = "queued"]
           ELSE IF w \in Mine /\ JobOf(w) \in made THEN [work[w] EXCEPT !.pc = "check"]
           ELSE work[w]]
      /\ UNCHANGED <<disk, legacy, runVars, phase, ports, cancelled, lockVars, histVars>>
      BY DEF Advance
<1>2. /\ {heap, pending, generating, validating, validated} \subseteq SUBSET Job
      /\ validated \cap Futures = {} /\ generating \cap validating = {}
      /\ Job = pending \cup Futures \cup validated
      BY <1>0 DEF TypeOK, SchedInv
<1>3. Satisfied = checked /\ checked \in SUBSET Job /\ made \in SUBSET Job /\ checked \cap validated = {}
      BY <1>2 DEF Satisfied, Futures
<1>4. /\ \A j \in checked : work[Me(j)].pc = "valid"
      /\ \A j \in made : work[Me(j)].pc = "passed"
  <2>1. \A j \in Finished : work[Me(j)].pc # "failed"
        BY <1>0 DEF Broken
  <2>2. ASSUME NEW j \in checked PROVE work[Me(j)].pc = "valid"
        BY <1>2, <2>1 DEF Finished
  <2>3. ASSUME NEW j \in made PROVE work[Me(j)].pc = "passed"
        BY <1>2, <2>1 DEF Finished
  <2> QED BY <2>2, <2>3
\* The counters and the heap.
<1>5. \A j \in Job : /\ Requires[j] \in SUBSET Job
                     /\ indegree[j] = Cardinality(Requires[j] \ validated)
                     /\ degree[j] = Cardinality(Requires[j] \ seen)
                     /\ degree[j] \in Nat /\ indegree[j] \in Nat
                     /\ degree[j] = 0 <=> Requires[j] \subseteq seen
                     /\ indegree[j] = 0 <=> Requires[j] \subseteq validated
  <2> SUFFICES ASSUME NEW j \in Job
               PROVE  /\ Requires[j] \in SUBSET Job
                      /\ indegree[j] = Cardinality(Requires[j] \ validated)
                      /\ degree[j] = Cardinality(Requires[j] \ seen)
                      /\ degree[j] \in Nat /\ indegree[j] \in Nat
                      /\ degree[j] = 0 <=> Requires[j] \subseteq seen
                      /\ indegree[j] = 0 <=> Requires[j] \subseteq validated
      OBVIOUS
  <2>1. Requires[j] \in SUBSET Job /\ validated \in SUBSET Job
        BY <1>2
  <2>2. indegree[j] = Cardinality(Requires[j] \ validated)
        BY <1>0 DEF OrderInv
  <2>3. degree[j] = Cardinality(Requires[j] \ validated) - Cardinality(Requires[j] \cap checked)
        BY <1>3, <2>2
  <2> HIDE DEF checked, degree
  <2>4. degree[j] = Cardinality(Requires[j] \ seen)
    <3>1. validated \cap checked = {} /\ checked \in SUBSET Job
          BY <1>3
    <3> DEFINE R == Requires[j]
    <3>2. R \in SUBSET Job
          BY <2>1
    <3> HIDE DEF R
    <3> HIDE Threads
    <3>3. Cardinality(R \ validated) - Cardinality(R \cap checked)
            = Cardinality(R \ (validated \cup checked))
          BY <2>1, <3>1, <3>2, CountDown, ZenonT(40)
    <3> QED BY <2>3, <3>3 DEF R
  <2>5. Requires[j] \ validated \in SUBSET Job /\ Requires[j] \ seen \in SUBSET Job
        BY <2>1
  <2> HIDE DEF seen
  <2>6. /\ degree[j] \in Nat /\ (degree[j] = 0 <=> Requires[j] \ seen = {})
        BY <2>4, <2>5, Finite
  <2>7. /\ indegree[j] \in Nat /\ (indegree[j] = 0 <=> Requires[j] \ validated = {})
        BY <2>2, <2>5, Finite
  <2> QED BY <2>1, <2>2, <2>4, <2>6, <2>7
<1>6. degree = [j \in Job |-> Cardinality(Requires[j] \ seen)] /\ degree \in [Job -> Nat]
      BY <1>5
<1>7. ready = {j \in pending : Requires[j] \subseteq seen}
  <2>1. heap = {j \in pending : Requires[j] \subseteq validated}
        /\ \A j \in Job \ pending : Requires[j] \subseteq validated
        BY <1>0 DEF OrderInv
  <2>2. Unblocked(degree) = {j \in Job : Requires[j] \subseteq seen /\ ~(Requires[j] \subseteq validated)}
    <3> HIDE DEF degree, seen
    <3>1. \A j \in Job : degree[j] = 0 <=> Requires[j] \subseteq seen
          BY <1>5
    <3>2. \A j \in Job : indegree[j] > 0 <=> ~(Requires[j] \subseteq validated)
      <4>1. \A j \in Job : indegree[j] \in Nat /\ (indegree[j] = 0 <=> Requires[j] \subseteq validated)
            BY <1>5
      <4>2. \A x \in Nat : x > 0 <=> x # 0
            OBVIOUS
      <4> QED BY <4>1, <4>2
    <3>3. Unblocked(degree) = {j \in Job : degree[j] = 0 /\ indegree[j] > 0}
          BY DEF Unblocked
    <3> HIDE Threads
    <3> QED BY <3>1, <3>2, <3>3
  <2>3. validated \subseteq seen /\ pending \subseteq Job
        BY <1>2
  <2> HIDE DEF degree, seen
  <2> QED BY <2>1, <2>2, <2>3
\* What is submitted.
<1>8. /\ generating \ made \in SUBSET Job /\ generating \ made \in SUBSET generating
      /\ IsFiniteSet(generating \ made) /\ n \in Nat /\ n \in 0 .. Workers
  <2>1. generating \in SUBSET Job /\ generating \ made \in SUBSET generating /\ generating \ made \in SUBSET Job
        BY <1>2
  <2>2. IsFiniteSet(generating) /\ IsFiniteSet(generating \ made) /\ n \in Nat /\ Cardinality(generating) \in Nat
        BY <2>1, Finite
  <2>3. n <= Cardinality(generating)
        BY <2>1, <2>2, FS_Subset
  <2>4. Cardinality(generating) <= Workers /\ Workers \in Nat
        BY <1>0, ArtifactAssumption DEF TypeOK
  <2> HIDE DEF n
  <2> QED BY <2>1, <2>2, <2>3, <2>4
<1>9. ready \in SUBSET Job /\ ready \cap pending = ready /\ pending \in SUBSET Job
      BY <1>2, <1>7
<1>10. /\ started \in SUBSET ready
       /\ Cardinality(started) <= Workers - n
       /\ n < Workers /\ ready # {} => started # {}
  <2> HIDE DEF ready, n, made, degree
  <2> QED BY <1>8, <1>9, Submits
<1>11. started \in SUBSET pending /\ started \in SUBSET Job
  <2> HIDE DEF started, ready
  <2> QED BY <1>9, <1>10
<1>12. Wakes(made, checked, started)
  <2> HIDE DEF started, ready, degree, n
  <2> QED BY <1>0, <1>1, <1>4 DEF Wakes
<1> HIDE DEF started, ready, n, degree
<1>13. SchedInv'
       BY <1>11, <1>12, WakesKeepSched
<1>14. /\ work' \in [Worker -> Task]
       /\ \A j \in started : work'[Me(j)].pc = "queued" /\ work[Me(j)].pc = "idle"
       /\ \A j \in made : work'[Me(j)].pc = "check" /\ work[Me(j)].pc = "passed"
       /\ \A w \in Worker : w[1] # call \/ w[2] \notin started \cup made => work'[w] = work[w]
       BY <1>11, <1>12, Woken
<1>15. TypeOK'
  <2>1. IsFiniteSet(started) /\ Cardinality(started) \in Nat
        BY <1>11, Finite
  <2>2. Cardinality(generating') <= Workers
    <3>1. /\ Cardinality((generating \ made) \cup started)
               = Cardinality(generating \ made) + Cardinality(started)
                 - Cardinality((generating \ made) \cap started)
          BY <1>8, <2>1, FS_Union
    <3>2. (generating \ made) \cap started \in SUBSET Job
          BY <1>8
    <3>3. Cardinality((generating \ made) \cap started) \in Nat
          BY <3>2, Finite
    <3>4. Cardinality(generating \ made) = n /\ Workers \in Nat
          BY ArtifactAssumption DEF n
    <3> HIDE DEF made
    <3> QED BY <1>1, <1>8, <1>10, <2>1, <3>1, <3>3, <3>4
  <2>3. {heap', pending', generating', validating', validated'} \subseteq SUBSET Job
    <3> HIDE DEF made, checked
    <3> QED BY <1>1, <1>2, <1>3, <1>9, <1>11
  <2> HIDE DEF made, checked
  <2> QED BY <1>0, <1>1, <1>6, <1>14, <2>2, <2>3 DEF TypeOK, Task, disk, runVars, lockVars, histVars
<1>16. OrderInv'
  <2>1. validated' = seen
        BY <1>1
  <2>2. indegree' = [j \in Job |-> Cardinality(Requires[j] \ validated')]
        BY <1>1, <1>6, <2>1
  <2>3. heap' = {j \in pending' : Requires[j] \subseteq validated'}
        BY <1>1, <1>7, <1>10, <2>1
  <2>4. \A j \in Job \ pending' : Requires[j] \subseteq validated'
    <3> SUFFICES ASSUME NEW j \in Job, j \notin pending' PROVE Requires[j] \subseteq validated'
        OBVIOUS
    <3>1. CASE j \in started
          BY <1>7, <1>10, <2>1, <3>1
    <3>2. CASE j \notin pending
      <4>1. Requires[j] \subseteq validated
            BY <1>0, <3>2 DEF OrderInv
      <4> QED BY <1>1, <4>1
    <3> QED BY <1>1, <3>1, <3>2
  <2>5. ASSUME pending' # {}, Futures' = {}
        PROVE  FALSE
    <3>1. Job = pending' \cup validated'
          BY <1>0, <1>1, <1>13, <2>5 DEF SchedInv
    <3>2. generating \ made = {} /\ started = {}
          BY <1>1, <2>5 DEF Futures
    <3>3. n = 0
          BY <3>2, FS_EmptySet DEF n
    <3>4. 0 < Workers
          BY ArtifactAssumption
    <3>5. ready = {}
          BY <1>10, <3>2, <3>3, <3>4
    <3>6. pending' \in (SUBSET Job) \ {{}}
          BY <1>1, <1>2, <2>5
    <3>7. PICK j \in pending' : Requires[j] \cap pending' = {}
          BY <3>6, ArtifactAssumption
    <3>8. j \in Job /\ Requires[j] \subseteq Job
          BY <3>6
    <3>9. j \in heap'
          BY <2>3, <3>1, <3>7, <3>8
    <3> QED BY <1>1, <3>5, <3>9
  <2> QED BY <2>2, <2>3, <2>4, <2>5 DEF OrderInv
<1>17. Aside
  <2> SUFFICES ASSUME NEW w \in Worker, work'[w] # work[w]
               PROVE  work[w].pc \notin HoldingJob /\ work'[w].pc \notin HoldingJob
      BY DEF Aside
  <2>1. w[1] = call /\ w[2] \in started \cup made
        BY <1>14
  <2>2. w = Me(w[2])
        BY <1>0, <2>1, Typed
  <2>3. \/ work'[w].pc = "queued" /\ work[w].pc = "idle"
        \/ work'[w].pc = "check" /\ work[w].pc = "passed"
        BY <1>14, <2>1, <2>2
  <2> QED BY <2>3 DEF HoldingJob, Holding
<1>18. \A j \in Job : /\ work'[Me(j)].pc \notin {"record", "index"} \/ work'[Me(j)] = work[Me(j)]
                      /\ work'[Me(j)].pc \in Passed => work[Me(j)].pc \in Passed
  <2> SUFFICES ASSUME NEW j \in Job
               PROVE  /\ work'[Me(j)].pc \notin {"record", "index"} \/ work'[Me(j)] = work[Me(j)]
                      /\ work'[Me(j)].pc \in Passed => work[Me(j)].pc \in Passed
      OBVIOUS
  <2>1. Me(j) \in Worker /\ Me(j)[2] = j
        BY <1>0, Typed
  <2>2. CASE j \in started
        BY <1>14, <2>2 DEF Passed
  <2>3. CASE j \in made
        BY <1>14, <2>3 DEF Passed
  <2>4. CASE j \notin started \cup made
    <3>1. work'[Me(j)] = work[Me(j)]
          BY <1>14, <2>1, <2>4
    <3> QED BY <3>1
  <2> QED BY <2>2, <2>3, <2>4
<1> HIDE DEF made, checked, seen
<1> HIDE Threads
<1> QED BY <1>0, <1>1, <1>13, <1>15, <1>16, <1>17, <1>18, SchedulerKeeps

-----------------------------------------------------------------------------
(* The theorems                                                            *)

\* A step that changes nothing keeps the invariant.
LEMMA StutterKeeps ==
  ASSUME Inv, UNCHANGED vars
  PROVE  Inv'
<1>0. UNCHANGED <<disk, legacy, runVars, phase, schedVars, ports, work, cancelled, lockVars, histVars>>
      BY DEF vars
<1>a. UNCHANGED <<content, pathRec, jobRec, legacy, impl, call, crashes, indegree, heap, pending,
                  generating, validating, validated, jobLock, targetLock, torn, unindexed>>
      BY <1>0 DEF disk, runVars, schedVars, lockVars, histVars
<1>1. TypeOK'
      BY <1>0, <1>a DEF Inv, TypeOK
<1>2. SchedInv' /\ OrderInv'
      BY <1>0, <1>a DEF Inv, SchedInv, OrderInv, Futures, Me
<1>3. LockInv' /\ ValueInv'
      BY <1>0, <1>a DEF Inv, LockInv, ValueInv, FileOf, JobOf
<1>4. Aside
      BY <1>0 DEF Aside
<1>5. FilesInv' /\ BytesInv' /\ PathInv' /\ IndexInv'
      BY <1>0, <1>a, <1>4, AsideKeeps
<1>6. \A j \in Job : Me(j)' = Me(j) /\ PortOK(j)' = PortOK(j) /\ Kept(j)' = Kept(j)
      BY <1>0, <1>a DEF Me, PortOK, Kept, Outdated
<1>7. PortInv' /\ PassedInv'
      BY <1>0, <1>6 DEF Inv, PortInv, PassedInv
<1> QED BY <1>1, <1>2, <1>3, <1>5, <1>7 DEF Inv

\* The first call has neither records nor threads.
LEMMA LegacyAtFirst ==
  ASSUME Init
  PROVE  LegacyInv
BY Threads DEF Init, LegacyInv

\* Whoever has come past the deletion was past it before.
NonePasses ==
  \A v \in Worker : work'[v].pc \in {"port", "record"} => work[v].pc \in {"port", "record"}

\* It is enough to look at the thread that moves.
LEMMA OnePasses ==
  ASSUME NEW w \in Worker, Only(w),
         work'[w].pc \in {"port", "record"} => work[w].pc \in {"port", "record"}
  PROVE  NonePasses
BY DEF Only, NonePasses

\* A step of a thread but the deletion and the path record has nothing to do with it.
LEMMA ThreadsStay ==
  ASSUME TypeOK, NEW w \in Worker, Step(w) \/ Generate(w) \/ Validate(w),
         Fails(w) \/ (~Retire(w) /\ ~RecordPath(w))
  PROVE  UNCHANGED <<pathRec, legacy>> /\ NonePasses
<1> USE Threads
<1>0. work \in [Worker -> Task] /\ work[w] \in Task
      BY Typed
<1>1. CASE Fails(w)
  <2> DEFINE x == [Idle EXCEPT !.pc = "failed"]
  <2>1. x.pc = "failed" /\ Becomes(w, x)
        BY <1>1 DEF Fails, Ends, Becomes, Steps
  <2> HIDE DEF x
  <2>2. work'[w] = x /\ Only(w) /\ UNCHANGED <<pathRec, legacy>>
        BY <1>1, <2>1, Becoming DEF Fails, disk
  <2> QED BY <2>1, <2>2, OnePasses
<1>2. CASE ~Fails(w)
  <2>1. UNCHANGED <<pathRec, legacy>>
        BY <1>2 DEF Step, Start, LockJob, Compare, Materialize, PublishPort, RecordJob, Restore,
                    Generate, Validate, disk
  <2>2. CASE Start(w)
    <3>1. CASE Stopped(w)
      <4>1. To(w, "failed") /\ "failed" \in Steps
            BY <2>2, <3>1 DEF Start, Steps
      <4>2. Only(w) /\ work'[w].pc = "failed"
            BY <4>1, Moved
      <4> QED BY <2>1, <4>2, OnePasses
    <3>2. CASE ~Stopped(w)
      <4> DEFINE b == [j \in Job |-> IF j \in Requires[JobOf(w)] THEN ports[j] ELSE Null]
                 x == [work[w] EXCEPT !.pc = "job", !.bind = b]
      <4>1. b \in [Job -> Port] /\ work' = [work EXCEPT ![w] = x]
            BY <2>2, <3>2 DEF Start, TypeOK, Port
      <4> HIDE DEF b
      <4>2. x.pc = "job"
            BY <1>0 DEF Task
      <4> HIDE DEF x
      <4>3. Only(w) /\ work'[w].pc = "job"
            BY <1>0, <4>1, <4>2 DEF Only
      <4> QED BY <2>1, <4>3, OnePasses
    <3> QED BY <3>1, <3>2
  <2>3. CASE Compare(w)
    <3> DEFINE reuse == Prior(w) # Null /\ ~Refreshing(w)
               x == [work[w] EXCEPT !.before = content[FileOf(w)],
                                    !.pc = IF reuse THEN "restore" ELSE "gen",
                                    !.val = IF reuse THEN Prior(w).val ELSE Null]
    <3>1. work' = [work EXCEPT ![w] = x]
          BY <1>2, <2>3 DEF Compare
    <3> HIDE DEF reuse
    <3>2. x.pc = "restore" \/ x.pc = "gen"
          BY <1>0 DEF Task
    <3> HIDE DEF x
    <3>3. Only(w) /\ work'[w] = x
          BY <1>0, <3>1 DEF Only
    <3> QED BY <2>1, <3>2, <3>3, OnePasses
  <2>4. CASE Generate(w)
    <3>1. PICK v \in Answer[JobOf(w)] : work' = [work EXCEPT ![w] = [work[w] EXCEPT !.pc = "mat", !.val = v]]
          BY <1>2, <2>4 DEF Generate
    <3> DEFINE x == [work[w] EXCEPT !.pc = "mat", !.val = v]
    <3>2. x.pc = "mat" /\ work' = [work EXCEPT ![w] = x]
          BY <1>0, <3>1 DEF Task
    <3> HIDE DEF x
    <3>3. Only(w) /\ work'[w].pc = "mat"
          BY <1>0, <3>2 DEF Only
    <3> QED BY <2>1, <3>3, OnePasses
  <2>5. ASSUME NEW p \in Steps, To(w, p), p \in {"port", "record"} => work[w].pc = "port"
        PROVE  NonePasses
    <3>1. Only(w) /\ work'[w].pc = p
          BY <2>5, Moved
    <3> QED BY <2>5, <3>1, OnePasses
  <2>6. CASE LockJob(w)
    <3>1. To(w, "target") /\ "target" \in Steps
          BY <2>6 DEF LockJob, Steps
    <3> QED BY <2>1, <2>5, <3>1
  <2>7. CASE Materialize(w)
    <3>1. To(w, "retire") /\ "retire" \in Steps
          BY <1>2, <2>7 DEF Materialize, Steps
    <3> QED BY <2>1, <2>5, <3>1
  <2>8. CASE PublishPort(w)
    <3>1. To(w, "record") /\ "record" \in Steps /\ work[w].pc = "port"
          BY <1>2, <2>8 DEF PublishPort, Steps
    <3> QED BY <2>1, <2>5, <3>1
  <2>9. CASE RecordJob(w) \/ Restore(w)
    <3> DEFINE x == [Idle EXCEPT !.pc = "passed"]
    <3>1. x.pc = "passed" /\ Becomes(w, x)
          BY <1>2, <2>9 DEF RecordJob, Restore, Ends, Becomes, Steps
    <3> HIDE DEF x
    <3>2. work'[w] = x /\ Only(w)
          BY <3>1, Becoming
    <3> QED BY <2>1, <3>1, <3>2, OnePasses
  <2>10. CASE Validate(w)
    <3>1. PICK p \in {"valid", "failed"} : To(w, p)
          BY <2>10 DEF Validate
    <3>2. p \in Steps
          BY DEF Steps
    <3> QED BY <2>1, <2>5, <3>1, <3>2
  <2> QED BY <1>2, <2>2, <2>3, <2>4, <2>6, <2>7, <2>8, <2>9, <2>10 DEF Step
<1> QED BY <1>1, <1>2

\* Nor has a step of the scheduler, another call or a crash.
LEMMA CallsStay ==
  ASSUME TypeOK, Scheduler \/ Again \/ Crash \/ UNCHANGED vars
  PROVE  UNCHANGED <<pathRec, legacy>> /\ NonePasses
<1> USE Threads
<1>0. \A v \in Worker : work[v] \in Task
      BY Typed
<1>1. UNCHANGED <<pathRec, legacy>>
      BY DEF Scheduler, Advance, Error, Cancel, Succeed, Again, Crash, NewCall, disk, vars
<1>2. CASE Advance
  <2>1. \A v \in Worker : \/ work'[v] = work[v] \/ work'[v] = [Idle EXCEPT !.pc = "queued"]
                           \/ work'[v] = [work[v] EXCEPT !.pc = "check"]
        BY <1>2 DEF Advance
  <2>2. \A v \in Worker : [work[v] EXCEPT !.pc = "check"].pc = "check"
        BY <1>0 DEF Task
  <2>3. [Idle EXCEPT !.pc = "queued"].pc = "queued"
        BY DEF Steps
  <2> QED BY <1>1, <2>1, <2>2, <2>3 DEF NonePasses
<1>3. CASE Cancel
  <2>1. CASE UNCHANGED work
        BY <1>1, <2>1 DEF NonePasses
  <2>2. CASE ~UNCHANGED work
    <3>1. PICK j \in Futures : To(Me(j), "dropped")
          BY <1>3, <2>2 DEF Cancel
    <3>2. Me(j) \in Worker /\ "dropped" \in Steps
          BY Typed DEF TypeOK, Futures, Steps
    <3>3. Only(Me(j)) /\ work'[Me(j)].pc = "dropped"
          BY <3>1, <3>2, Moved
    <3> QED BY <1>1, <3>2, <3>3, OnePasses
  <2> QED BY <2>1, <2>2
<1>4. CASE Again
  <2>1. \A v \in Worker : work'[v] = Idle \/ work'[v] = work[v]
        BY <1>4 DEF Again
  <2> QED BY <1>1, <2>1 DEF NonePasses
<1>5. CASE Crash
  <2>1. \A v \in Worker : work'[v] = Idle
        BY <1>5 DEF Crash
  <2> QED BY <1>1, <2>1 DEF NonePasses
<1>6. CASE Error \/ Succeed \/ UNCHANGED vars
  <2>1. UNCHANGED work
        BY <1>6 DEF Error, Succeed, vars
  <2> QED BY <1>1, <2>1 DEF NonePasses
<1> QED BY <1>2, <1>3, <1>4, <1>5, <1>6 DEF Scheduler

\* No step brings a former candidate back, and none gets past it.
LEMMA LegacyKept ==
  ASSUME Inv, LegacyInv, [Next]_vars
  PROVE  LegacyInv'
<1> USE Threads
<1>0. TypeOK
      BY DEF Inv
<1>1. ASSUME UNCHANGED <<pathRec, legacy>>, NonePasses
      PROVE  LegacyInv'
      BY <1>1 DEF LegacyInv, NonePasses, FileOf, JobOf
<1>2. ASSUME NEW w \in Worker, Retire(w), ~Fails(w)
      PROVE  LegacyInv'
  <2>1. legacy' = [legacy EXCEPT ![FileOf(w)] = "none"] /\ To(w, "port") /\ UNCHANGED pathRec
        BY <1>2 DEF Retire, disk
  <2>2. Only(w)
    <3>1. "port" \in Steps
          BY DEF Steps
    <3> QED BY <1>0, <2>1, <3>1, Moved
  <2>3. \A t \in Target : legacy'[t] = IF t = FileOf(w) THEN "none" ELSE legacy[t]
        BY <1>0, <2>1 DEF TypeOK
  <2>4. \A t \in Target : pathRec[t] # Null => legacy'[t] = "none"
        BY <2>3 DEF LegacyInv
  <2>5. \A v \in Worker : work'[v].pc \in {"port", "record"} => legacy'[FileOf(v)] = "none"
        BY <2>2, <2>3 DEF LegacyInv, Only
  <2> QED BY <2>1, <2>4, <2>5 DEF LegacyInv, FileOf, JobOf
<1>3. ASSUME NEW w \in Worker, RecordPath(w), ~Fails(w)
      PROVE  LegacyInv'
  <2>1. /\ pathRec' = [pathRec EXCEPT ![FileOf(w)] = Record(w)] /\ To(w, "index")
        /\ UNCHANGED legacy /\ work[w].pc = "record"
        BY <1>3 DEF RecordPath
  <2>2. legacy[FileOf(w)] = "none"
        BY <2>1 DEF LegacyInv
  <2>3. NonePasses
    <3>1. "index" \in Steps
          BY DEF Steps
    <3>2. Only(w) /\ work'[w].pc = "index"
          BY <1>0, <2>1, <3>1, Moved
    <3> QED BY <3>2, OnePasses
  <2>4. \A t \in Target : pathRec'[t] # Null => legacy[t] = "none"
    <3>1. \A t \in Target : t # FileOf(w) => pathRec'[t] = pathRec[t]
          BY <1>0, <2>1 DEF TypeOK
    <3> QED BY <2>2, <3>1 DEF LegacyInv
  <2> QED BY <2>1, <2>3, <2>4 DEF LegacyInv, NonePasses, FileOf, JobOf
<1>4. ASSUME NEW w \in Worker, Step(w) \/ Generate(w) \/ Validate(w)
      PROVE  LegacyInv'
      BY <1>0, <1>1, <1>2, <1>3, <1>4, ThreadsStay
<1>5. CASE Scheduler \/ Again \/ Crash \/ UNCHANGED vars
      BY <1>0, <1>1, <1>5, CallsStay
<1> QED BY <1>4, <1>5 DEF Next

\* The invariant of the calls, the threads they leave behind, and what is on the disk.
THEOREM ArtifactInvariant == Spec => [](Inv /\ LegacyInv)
<1>1. Init => Inv /\ LegacyInv
      BY InitHolds, LegacyAtFirst
<1>2. Inv /\ LegacyInv /\ [Next]_vars => Inv' /\ LegacyInv'
  <2> SUFFICES ASSUME Inv, LegacyInv, [Next]_vars PROVE Inv'
      BY LegacyKept
  <2>1. ASSUME NEW w \in Worker, Step(w) PROVE Inv'
        BY <2>1, StartKeeps, LockJobKeeps, CompareKeeps, MaterializeKeeps, RetireKeeps, PublishPortKeeps,
           RecordPathKeeps, RecordJobKeeps, RestoreKeeps DEF Step
  <2>2. ASSUME NEW w \in Worker, Generate(w) PROVE Inv'
        BY <2>2, GenerateKeeps
  <2>3. ASSUME NEW w \in Worker, Validate(w) PROVE Inv'
        BY <2>3, ValidateKeeps
  <2>4. CASE Scheduler
        BY <2>4, AdvanceKeeps, ErrorKeeps, CancelKeeps, SucceedKeeps DEF Scheduler
  <2>5. CASE Again
        BY <2>5, AgainKeeps
  <2>6. CASE Crash
        BY <2>6, CrashKeeps
  <2>7. CASE UNCHANGED vars
        BY <2>7, StutterKeeps
  <2> QED BY <2>1, <2>2, <2>3, <2>4, <2>5, <2>6, <2>7 DEF Next
<1> QED BY <1>1, <1>2, PTL DEF Spec

\* Type correctness, with the bound on the generators at work.
THEOREM ArtifactTypes == Spec => []TypeOK
<1>1. Inv => TypeOK
      BY DEF Inv
<1> QED BY <1>1, ArtifactInvariant, PTL

\* A dependent runs only after its producers were validated, with their ports published,
\* and while a job is pending something runs: ARTIFACT_GRAPH_DEADLOCK does not arise, in
\* any graph without a cycle.
THEOREM GraphRunsInOrder == Spec => []InOrder
<1>1. Inv => InOrder
  <2> SUFFICES ASSUME Inv PROVE InOrder
      OBVIOUS
  <2>0. TypeOK /\ SchedInv /\ OrderInv /\ PortInv
        BY DEF Inv
  <2>1. ASSUME NEW w \in Mine, work[w].pc # "idle", NEW p \in Requires[JobOf(w)]
        PROVE  p \in validated /\ ports[p] # Null
    <3>1. w \in Worker /\ w[1] = call /\ JobOf(w) = w[2] /\ w[2] \in Job /\ p \in Job
          BY Threads DEF Mine
    <3>2. w[2] \notin pending
          BY <2>0, <2>1, <3>1 DEF SchedInv
    <3>3. p \in validated
          BY <2>0, <2>1, <3>1, <3>2 DEF OrderInv
    <3>4. work[Me(p)].pc = "valid"
          BY <2>0, <3>3 DEF SchedInv
    <3>5. ports[p] \in Value
          BY <2>0, <3>1, <3>4 DEF PortInv, PortOK, Passed
    <3> QED BY <3>3, <3>5, Pieces
  <2> QED BY <2>0, <2>1 DEF InOrder, OrderInv
<1> QED BY <1>1, ArtifactInvariant, PTL

\* What is restored stands in the file, unless the index is outdated.
THEOREM ReuseIsSound == Spec => []ReuseSound
<1>1. Inv => ReuseSound
  <2> SUFFICES ASSUME Inv, NEW w \in Worker, work[w].pc = "restore"
               PROVE  /\ content[FileOf(w)] # Absent
                      /\ Contains(content[FileOf(w)], Piece(w)) \/ Outdated(JobOf(w))
      BY DEF ReuseSound
  <2>1. FileInv(w) /\ FileOf(w) \in Target /\ JobOf(w) = w[2]
        BY Threads DEF Inv, FilesInv
  <2>2. /\ pathRec[FileOf(w)] # Null /\ content[FileOf(w)] = pathRec[FileOf(w)].after
        /\ Contains(pathRec[FileOf(w)].after, Piece(w)) \/ Outdated(w[2])
        BY <2>1 DEF FileInv
  <2>3. pathRec[FileOf(w)] \in Receipt
        BY <2>1, <2>2 DEF Inv, TypeOK
  <2> QED BY <2>1, <2>2, <2>3, Receipts
<1> QED BY <1>1, ArtifactInvariant, PTL

\* Where no job was stopped while it wrote, and none is at work, the bytes are the
\* recorded ones.
THEOREM BytesMatchEvidence == Spec => []BytesHaveEvidence
<1>1. Inv => BytesHaveEvidence
      BY DEF Inv, BytesInv, BytesHaveEvidence, Proven
<1> QED BY <1>1, ArtifactInvariant, PTL

\* A call that succeeds has validated every job, and left its answer in its port, in its
\* file and in the evidence.
THEOREM SuccessIsEvident == Spec => []SuccessHasEvidence
<1>1. Inv /\ LegacyInv => SuccessHasEvidence
  <2> SUFFICES ASSUME Inv, LegacyInv, phase = "ok"
               PROVE  /\ validated = Job
                      /\ \A j \in Job :
                           LET t == TargetOf[j] IN
                           /\ content[t] = pathRec[t].after /\ legacy[t] = "none"
                           /\ ports[j] # Null
                           /\ Contains(content[t], <<j, ports[j]>>) \/ Outdated(j)
                           /\ jobRec[j] # Null \/ t \in unindexed
      BY DEF SuccessHasEvidence
  <2>0. TypeOK /\ SchedInv /\ PortInv /\ PassedInv
        BY DEF Inv
  <2>1. validated = Job
        BY <2>0 DEF SchedInv
  <2>2. ASSUME NEW j \in Job
        PROVE  /\ Kept(j) /\ ports[j] # Null
               /\ content[TargetOf[j]] = pathRec[TargetOf[j]].after
    <3>1. work[Me(j)].pc \in Passed
          BY <2>0, <2>1 DEF SchedInv, Passed
    <3>2. ports[j] \in Value /\ Kept(j)
          BY <2>0, <3>1 DEF PortInv, PortOK, PassedInv
    <3>3. \A w \in Worker : work[w].pc \in Unrecorded => w \in cancelled
      <4>1. \A w \in Worker : work[w].pc \in Unrecorded => work[w].pc \in Live
            BY DEF Unrecorded, Live, HoldingJob, Holding
      <4> QED BY <2>0, <4>1 DEF SchedInv
    <3>4. content[TargetOf[j]] = pathRec[TargetOf[j]].after
          BY <3>2, <3>3 DEF Kept
    <3> QED BY <3>2, <3>4, Pieces
  <2>3. ASSUME NEW j \in Job
        PROVE  /\ Contains(content[TargetOf[j]], <<j, ports[j]>>) \/ Outdated(j)
               /\ jobRec[j] # Null \/ TargetOf[j] \in unindexed
               /\ legacy[TargetOf[j]] = "none"
        BY <2>2, Threads DEF Kept, LegacyInv
  <2> QED BY <2>1, <2>2, <2>3
<1> QED BY <1>1, ArtifactInvariant, PTL

\* After a call is over, and during later ones, its threads change no target and no
\* record; what one may still delete is the former candidate of a file in which its
\* answer stands.
THEOREM CallsEndQuietly == Spec => QuietAfterEnd
<1> DEFINE Quiet == \A w \in Worker :
       (work'[w] # work[w] /\ (w[1] < call \/ phase \in {"ok", "error"})) =>
         /\ UNCHANGED disk
         /\ \A t \in Target : legacy'[t] # legacy[t] =>
              /\ t = FileOf(w) /\ legacy[t] = "owned"
              /\ content[t] # Absent /\ Contains(content[t], Piece(w))
<1>1. Inv /\ [Next]_vars => [Quiet]_vars
  <2> SUFFICES ASSUME Inv, Next,
                      NEW v \in Worker, work'[v] # work[v], v[1] < call \/ phase \in {"ok", "error"}
               PROVE  /\ UNCHANGED disk
                      /\ \A t \in Target : legacy'[t] # legacy[t] =>
                           /\ t = FileOf(v) /\ legacy[t] = "owned"
                           /\ content[t] # Absent /\ Contains(content[t], Piece(v))
      OBVIOUS
  <2>0. TypeOK /\ SchedInv
        BY DEF Inv
  <2>1. ASSUME NEW w \in Worker, work[w].pc \in Live, w \notin cancelled,
               \A u \in Worker : u # w => work'[u] = work[u]
        PROVE  FALSE
    <3>1. w[1] = call /\ phase \in {"run", "cancel"} /\ v = w /\ call \in Nat
          BY <2>0, <2>1, Current, Typed
    <3> QED BY <3>1
  \* Only publications change the disk, and who may publish is of the current call.
  <2>2. ASSUME NEW w \in Worker, Step(w) \/ Generate(w) \/ Validate(w) PROVE UNCHANGED disk
    <3> SUFFICES ASSUME ~UNCHANGED disk PROVE FALSE
        OBVIOUS
    <3>1. Materialize(w) \/ RecordPath(w) \/ RecordJob(w)
          BY <2>2 DEF Step, Start, LockJob, Compare, Fails, Retire, PublishPort, Restore, Generate, Validate
    <3>2. MayPublish(w)
          BY <3>1 DEF Materialize, RecordPath, RecordJob, Fails
    <3>3. w \notin cancelled /\ work[w].pc \in {"mat", "record", "index"}
          BY <3>1, <3>2 DEF MayPublish, Stopped, Materialize, RecordPath, RecordJob
    <3>4. work[w].pc \in Live
          BY <3>3 DEF Live, HoldingJob, Holding
    <3>5. \E x : work' = [work EXCEPT ![w] = x]
          BY <3>1 DEF Materialize, RecordPath, RecordJob, Fails, To, Ends
    <3>6. \A u \in Worker : u # w => work'[u] = work[u]
          BY <2>0, <3>5, Typed
    <3> QED BY <2>1, <3>3, <3>4, <3>6
  \* Only a thread that has written its file deletes the former candidate.
  <2>3. ASSUME NEW w \in Worker, Step(w) \/ Generate(w) \/ Validate(w),
               NEW t \in Target, legacy'[t] # legacy[t]
        PROVE  /\ t = FileOf(v) /\ legacy[t] = "owned"
               /\ content[t] # Absent /\ Contains(content[t], Piece(v))
    <3>1. Retire(w) /\ ~Fails(w)
          BY <2>3 DEF Step, Start, LockJob, Compare, Fails, Materialize, PublishPort, RecordPath,
                      RecordJob, Restore, Generate, Validate
    <3>2. /\ work[w].pc = "retire" /\ legacy[FileOf(w)] # "foreign" /\ To(w, "port")
          /\ legacy' = [legacy EXCEPT ![FileOf(w)] = "none"]
          BY <3>1 DEF Retire
    <3>3. t = FileOf(w) /\ legacy[t] = "owned"
          BY <2>0, <2>3, <3>2, Threads DEF TypeOK, Former
    <3>4. v = w
          BY <2>0, <3>2, Moved DEF Only, Steps
    <3>5. /\ w[2] \in Creates => content[t] = <<Piece(w)>>
          /\ w[2] \notin Creates =>
               work[w].before \in Bytes /\ content[t] = Append(work[w].before, Piece(w))
      <4>1. FileInv(w)
            BY DEF Inv, FilesInv
      <4> QED BY <3>2, <3>3, <4>1 DEF FileInv, Unrecorded
    <3>6. work[w].val \in Value /\ w[2] \in Job /\ Piece(w) = <<w[2], work[w].val>>
          BY <3>2, Threads DEF Inv, ValueInv, Piece, JobOf
    <3>7. content[t] \in Bytes /\ Contains(content[t], Piece(w))
      <4>1. CASE w[2] \in Creates
        <5> DEFINE u == work[w].val
        <5>1. u \in Value /\ w[2] \in Job /\ Piece(w) = <<w[2], u>> /\ content[t] = << <<w[2], u>> >>
              BY <3>5, <3>6, <4>1
        <5> HIDE DEF u
        <5>2. << <<w[2], u>> >> \in Bytes /\ Contains(<< <<w[2], u>> >>, <<w[2], u>>)
              BY <5>1, Pieces
        <5> QED BY <5>1, <5>2
      <4>2. CASE w[2] \notin Creates
        <5> DEFINE b == work[w].before
                   u == work[w].val
        <5>1. /\ b \in Bytes /\ u \in Value /\ w[2] \in Job /\ Piece(w) = <<w[2], u>>
              /\ content[t] = Append(b, <<w[2], u>>)
              BY <3>5, <3>6, <4>2
        <5> HIDE DEF b, u
        <5>2. Append(b, <<w[2], u>>) \in Bytes /\ Contains(Append(b, <<w[2], u>>), <<w[2], u>>)
              BY <5>1, Pieces
        <5> QED BY <5>1, <5>2
      <4> QED BY <4>1, <4>2
    <3> QED BY <3>3, <3>4, <3>7, Pieces
  <2>4. CASE Scheduler \/ Again \/ Crash
    <3>1. UNCHANGED <<disk, legacy>>
          BY <2>4 DEF Scheduler, Advance, Error, Cancel, Succeed, Again, Crash, NewCall
    <3> QED BY <3>1
  <2> QED BY <2>2, <2>3, <2>4 DEF Next
<1> QED BY <1>1, ArtifactInvariant, PTL DEF Spec, QuietAfterEnd
===============================================================================
