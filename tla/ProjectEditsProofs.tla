-------------------------- MODULE ProjectEditsProofs --------------------------
(***************************************************************************)
(* Theorems about the threads that edit one project, for any number of     *)
(* threads and paths, any jobs and targets, any number of faults.          *)
(***************************************************************************)
EXTENDS ProjectEdits, FiniteSetTheorems, SequenceTheorems, WellFoundedInduction, TLAPS

-----------------------------------------------------------------------------
(* The invariant of the lock                                               *)

\* The scopes of a thread: an inner one locks paths that the outer one has locked.
ScopeOK(t) ==
  LET s == scopes[t]
      n == Len(s)
  IN  /\ n <= 2
      /\ \A i \in 1..n : /\ s[i].paths # {} /\ s[i].got \subseteq s[i].paths
                         /\ s[i].counted = (writer # t)
      /\ n = 2 => s[1].got = s[1].paths /\ s[2].paths \subseteq s[1].paths
      /\ at[t] = "run" /\ n > 0 => s[n].got = s[n].paths
      /\ at[t] = "take" => /\ n > 0 /\ s[n].got # s[n].paths
                           /\ \A p \in s[n].got, q \in s[n].paths \ s[n].got : p < q
      /\ at[t] \in {"coarse", "scoped"} => n = 0 /\ writer # t
      /\ at[t] = "drop" => n > 0

\* How many scopes of t have p.
Times(t, p) ==
  (IF Len(scopes[t]) >= 1 /\ p \in scopes[t][1].got THEN 1 ELSE 0)
    + (IF Len(scopes[t]) >= 2 /\ p \in scopes[t][2].got THEN 1 ELSE 0)

\* The lock of a path is held by the thread whose scopes have it, once for each.
HolderOK ==
  \A p \in Path :
    /\ holder[p] = Null <=> holds[p] = 0
    /\ \A t \in Thread : Times(t, p) = IF holder[p] = t THEN holds[p] ELSE 0

\* Finitely many paths are locked.
BoundOK == \E n \in Nat : \A p \in Path : holder[p] # Null => p <= n

OpenScopes == {s \in Thread \X Nat : s[2] \in 1..scopedDepth[s[1]]}
Waiting == {t \in Thread : at[t] = "coarse"}

\* The counters count what they should, and a writer is alone.
CountOK ==
  /\ \A t \in Thread : scopedDepth[t] = IF writer = t THEN 0 ELSE Len(scopes[t])
  /\ writer = Null <=> writerDepth = 0
  /\ writer # Null => scopedTotal = 0
  /\ IsFiniteSet(OpenScopes) /\ scopedTotal = Cardinality(OpenScopes)
  /\ IsFiniteSet(Waiting) /\ waiting = Cardinality(Waiting)

LockInv ==
  /\ LockTypeOK /\ CountOK
  /\ \A t \in Thread : ScopeOK(t)
  /\ HolderOK /\ BoundOK

-----------------------------------------------------------------------------
(* Where a thread is in its job, in the lock and in its transaction        *)

PlaceOK(t) ==
  LET pc == job[t].pc
      s == scopes[t]
      x == tx[t]
  IN  /\ pc \notin {"read", "leave"} => Len(s) = 0 /\ x.step = "none" /\ at[t] \in {"run", "coarse"}
      /\ pc = "read" => /\ x.step = "none" /\ at[t] # "drop" /\ Len(s) <= 1
                        /\ Len(s) = 1 => s[1].paths = Target[t]
      /\ at[t] = "coarse" => pc \in {"rev", "read"}
      /\ pc = "rev" => job[t].kind = "verify"
      /\ pc \in {"wave", "snap"} => job[t].kind = "generate"
      /\ pc = "gate" => job[t].kind # "generate"
      /\ pc = "snap" => waveOwner = t
      /\ at[t] = "drop" => x.step = "none"
      /\ at[t] = "scoped" /\ pc = "leave" => x.step = "stage"
      /\ at[t] = "take" /\ pc = "leave" => x.step = "stage"
      /\ x.step # "none" =>
           /\ DOMAIN x.plan # {} /\ DOMAIN x.plan \subseteq Target[t]
           /\ x.committed \subseteq DOMAIN x.plan /\ DOMAIN x.originals \subseteq DOMAIN x.plan
           /\ x.step \in {"commit", "rollback"} => DOMAIN x.originals = DOMAIN x.plan
           /\ x.step = "stage" \/ at[t] = "run"
           /\ at[t] # "scoped" => Len(s) > 0 /\ Top(t).paths = DOMAIN x.plan
      /\ Len(s) = 2 => s[1].paths = Target[t]
      /\ waveOwner = t => /\ pc \in {"snap", "read"} /\ job[t].kind = "generate"
                          /\ Len(s) = 0 /\ at[t] # "scoped" /\ wave = Null
      /\ job[t].kind = "generate" /\ pc \in {"open", "read", "leave"} /\ waveOwner # t => InWave(t)
      /\ job[t].kind = "verify" =>
           /\ x.step = "none" /\ Len(s) = 0 /\ at[t] \in {"run", "coarse"}
           /\ pc \notin {"wave", "snap", "open"}
           /\ pc = "read" => at[t] = "run" /\ writer = t
           /\ pc = "rev" /\ at[t] = "run" => writer = t

PlaceInv == \A t \in Thread : PlaceOK(t)

-----------------------------------------------------------------------------
(* Texts                                                                   *)

\* The transaction was staged: it may have written.
Staged(x) ==
  \/ x.step \in {"commit", "rollback"}
  \/ x.step = "settle" /\ x.impact \in {"applied", "rolled_back", "uncertain"}

Writes(t, p) == Staged(tx[t]) /\ p \in DOMAIN tx[t].plan

\* A plan adds the edit of its thread to texts that lack it.
PlanOK(t) ==
  tx[t].step # "none" =>
    /\ tx[t].step = "stage" => tx[t].committed = {} /\ tx[t].errors = {}
    /\ \A p \in DOMAIN tx[t].plan :
         /\ tx[t].plan[p].expected # Torn
         /\ t \notin Edits(tx[t].plan[p].expected)
         /\ tx[t].plan[p].content = Edits(tx[t].plan[p].expected) \cup {t}

\* What a staged transaction has done to the file p so far.
Progress(x, p) ==
  LET old == x.plan[p].expected
      new == x.plan[p].content
  IN  /\ x.originals[p] = old
      /\ x.step = "commit" => files[p] = IF p \in x.committed THEN new ELSE old
      /\ x.step = "rollback" /\ p \in x.committed => files[p] = new
      /\ x.step = "rollback" /\ p \notin x.committed /\ x.impact = "rolled_back" => files[p] = old
      /\ x.step = "settle" /\ x.impact = "applied" => files[p] = new
      /\ x.step = "settle" /\ x.impact = "rolled_back" => files[p] = old

StageOK(t) ==
  Staged(tx[t]) =>
    /\ DOMAIN tx[t].originals = DOMAIN tx[t].plan
    /\ tx[t].step = "rollback" => tx[t].impact \in {"rolled_back", "uncertain"}
    /\ \A p \in DOMAIN tx[t].plan : Progress(tx[t], p)

Keeps(t, p) == files[p] = Torn \/ t \in Edits(files[p])

\* What the end of a job says of a file of the job.
ResultOK(t, p) ==
  /\ result[t] = "applied" => Keeps(t, p)
  /\ result[t] \notin {"applied", "uncertain"} /\ ~Writes(t, p) => t \notin Edits(files[p])
  /\ tx[t].step # "none" /\ p \notin DOMAIN tx[t].plan => Keeps(t, p)
  /\ job[t].pc = "read" /\ p \in DOMAIN job[t].seen /\ t \in Edits(job[t].seen[p]) => Keeps(t, p)

\* Nobody has seen the edit of a thread that has written nothing yet.
Fresh(u) == result[u] = "none" /\ ~Staged(tx[u])

SeenOK(u) ==
  Fresh(u) => \A p \in Target[u] :
    /\ \A o \in Thread : p \in DOMAIN job[o].seen => u \notin Edits(job[o].seen[p])
    /\ wave # Null => u \notin Edits(wave.base[p])

\* What a job has read; for a verifier it is what is there.
ReadOK(t) ==
  /\ job[t].pc \notin {"read", "leave"} => DOMAIN job[t].seen = {}
  /\ job[t].kind = "generate" /\ job[t].pc \notin {"idle", "leave"} => result[t] = "none"
  /\ job[t].kind = "verify" /\ job[t].pc = "read" =>
       /\ job[t].rev = <<owner.id, owner.revision>>
       /\ \A p \in DOMAIN job[t].seen : job[t].seen[p] = files[p]

\* The text of p, but for a transaction under way, is not the one that v has read.
Differs(v, p) ==
  \/ files[p] # tracked[v].seen[p] /\ \A u \in Thread : ~Writes(u, p)
  \/ \E u \in Thread : Writes(u, p) /\ tx[u].plan[p].expected # tracked[v].seen[p]

\* Then the owner has recorded a change since.
ChangeOK(v) ==
  tracked[v] # Null =>
    /\ tracked[v].rev[1] <= owner.id
    /\ tracked[v].rev[1] = owner.id =>
         /\ tracked[v].rev[2] <= owner.revision
         /\ \A p \in Path : Differs(v, p) => owner.changes[p].revision > tracked[v].rev[2]

TextOK(t) ==
  /\ PlanOK(t) /\ StageOK(t)
  /\ Staged(tx[t]) => result[t] # "applied"
  /\ \A p \in Target[t] : ResultOK(t, p)
  /\ SeenOK(t) /\ ReadOK(t) /\ ChangeOK(t)

TextInv == \A t \in Thread : TextOK(t)

Inv == TypeOK /\ LockInv /\ PlaceInv /\ TextInv

-----------------------------------------------------------------------------
(* Sets and sequences                                                      *)

\* A finite set grows by one.
LEMMA CountUp ==
  ASSUME NEW S, NEW x, IsFiniteSet(S), x \notin S
  PROVE  IsFiniteSet(S \cup {x}) /\ Cardinality(S \cup {x}) = Cardinality(S) + 1
BY FS_AddElement

\* A finite set shrinks by one.
LEMMA CountDown ==
  ASSUME NEW S, NEW x, IsFiniteSet(S), x \in S
  PROVE  IsFiniteSet(S \ {x}) /\ Cardinality(S \ {x}) = Cardinality(S) - 1
BY FS_RemoveElement

\* A nonempty set of naturals has a least element.
LEMMA Smallest ==
  ASSUME NEW S, S \subseteq Nat, S # {}
  PROVE  \E x \in S : \A y \in S : x <= y
<1> DEFINE less == {ss \in Nat \X Nat : ss[1] < ss[2]}
<1>1. IsWellFoundedOn(less, Nat)
      BY NatLessThanWellFounded, Zenon DEF OpToRel
<1>2. \A x, y \in S : x \in Nat /\ y \in Nat /\ (y < x => <<y, x>> \in less)
      OBVIOUS
<1> HIDE DEF less
<1>3. \E x \in S : \A y \in S : ~(<<y, x>> \in less)
      BY <1>1, WFMin
<1> QED
  <2>1. PICK x \in S : \A y \in S : ~(<<y, x>> \in less)
        BY <1>3
  <2>2. \A y \in S : ~(y < x) /\ y \in Nat /\ x \in Nat
        BY <1>2, <2>1
  <2> QED BY <2>2

\* The next path in lexical order exists.
LEMMA FirstPath ==
  ASSUME NEW S, S \subseteq Path, S # {}
  PROVE  First(S) \in S /\ \A q \in S : First(S) <= q
<1>1. \E x \in S : \A y \in S : x <= y
      BY Smallest, LockAssumption
<1> QED BY <1>1 DEF First

\* A bounded one has a greatest.
LEMMA Greatest ==
  ASSUME NEW S, S \subseteq Nat, S # {}, NEW n \in Nat, \A x \in S : x <= n
  PROVE  \E x \in S : \A y \in S : x >= y
<1> DEFINE D == {n - x : x \in S}
<1>0. \A x \in S : x \in Nat /\ n - x \in Nat
      OBVIOUS
<1>1. D \subseteq Nat /\ D # {}
      BY <1>0
<1>2. \A x \in S : n - x \in D
      OBVIOUS
<1>3. \A d \in D : \E x \in S : d = n - x
      OBVIOUS
<1> HIDE DEF D
<1>4. PICK d \in D : \A e \in D : d <= e
      BY <1>1, Smallest
<1>5. PICK x \in S : d = n - x
      BY <1>3
<1>6. \A y \in S : n - x <= n - y
      BY <1>2, <1>4, <1>5
<1> QED BY <1>6

\* A scope is opened.
LEMMA AppendScope ==
  ASSUME NEW s \in Seq(Scope), NEW c \in Scope
  PROVE  /\ Append(s, c) \in Seq(Scope) /\ Len(Append(s, c)) = Len(s) + 1
         /\ Len(s) \in Nat /\ Append(s, c)[Len(s) + 1] = c
         /\ \A i \in 1..Len(s) : Append(s, c)[i] = s[i]
OBVIOUS

\* The innermost scope changes.
LEMMA ChangeScope ==
  ASSUME NEW s \in Seq(Scope), NEW c \in Scope, Len(s) > 0
  PROVE  LET r == [s EXCEPT ![Len(s)] = c]
         IN  /\ r \in Seq(Scope) /\ Len(r) = Len(s) /\ Len(s) \in Nat /\ r[Len(s)] = c
             /\ \A i \in 1..Len(s) : i # Len(s) => r[i] = s[i]
OBVIOUS

\* The innermost scope is left.
LEMMA LeaveScope ==
  ASSUME NEW s \in Seq(Scope), Len(s) > 0
  PROVE  LET r == SubSeq(s, 1, Len(s) - 1)
         IN  /\ r \in Seq(Scope) /\ Len(r) = Len(s) - 1 /\ Len(s) \in Nat
             /\ \A i \in 1..Len(r) : r[i] = s[i]
<1>1. Len(s) \in Nat /\ Len(s) - 1 \in Nat
      OBVIOUS
<1>2. \A i \in 1..(Len(s) - 1) : s[i] \in Scope
      BY <1>1
<1>3. /\ SubSeq(s, 1, Len(s) - 1) \in Seq(Scope)
      /\ Len(SubSeq(s, 1, Len(s) - 1)) = IF 1 <= Len(s) - 1 THEN Len(s) - 1 - 1 + 1 ELSE 0
      /\ \A i \in 1..(Len(s) - 1 - 1 + 1) : SubSeq(s, 1, Len(s) - 1)[i] = s[1 + i - 1]
      BY <1>1, <1>2, SubSeqProperties
<1>4. Len(SubSeq(s, 1, Len(s) - 1)) = Len(s) - 1
  <2>1. PICK n \in Nat : n = Len(s) /\ n > 0
        BY <1>1
  <2>2. Len(SubSeq(s, 1, n - 1)) = IF 1 <= n - 1 THEN n - 1 - 1 + 1 ELSE 0
        BY <1>3, <2>1
  <2>3. (IF 1 <= n - 1 THEN n - 1 - 1 + 1 ELSE 0) = n - 1
        BY <2>1
  <2> QED BY <2>1, <2>2, <2>3
<1>5. \A i \in 1..(Len(s) - 1) : SubSeq(s, 1, Len(s) - 1)[i] = s[i]
      BY <1>1, <1>3
<1> QED BY <1>1, <1>3, <1>4, <1>5

-----------------------------------------------------------------------------
(* The coarse lock                                                         *)

\* The invariant of the lock holds while nobody is in it.
LEMMA LockInitially == LockInit => LockInv
<1> SUFFICES ASSUME LockInit PROVE LockInv
    OBVIOUS
<1> USE LockAssumption DEF LockInit
<1>1. LockTypeOK
      BY DEF LockTypeOK, At
<1>2. \A t \in Thread : ScopeOK(t)
      BY DEF ScopeOK
<1>3. HolderOK
      BY DEF HolderOK, Times
<1>4. BoundOK
      BY DEF BoundOK
<1>5. OpenScopes = {} /\ Waiting = {}
      BY DEF OpenScopes, Waiting
<1>6. CountOK
      BY <1>5, FS_EmptySet DEF CountOK
<1> QED BY <1>1, <1>2, <1>3, <1>4, <1>6 DEF LockInv

\* While nobody is counted inside a scope, nobody is inside one.
LEMMA NoneInside ==
  ASSUME LockTypeOK, CountOK, scopedTotal = 0
  PROVE  \A t \in Thread : scopedDepth[t] = 0
<1>1. OpenScopes = {}
      BY FS_EmptySet DEF CountOK
<1>2. SUFFICES ASSUME NEW t \in Thread, scopedDepth[t] # 0 PROVE FALSE
      OBVIOUS
<1>3. <<t, 1>> \in OpenScopes
      BY <1>2 DEF OpenScopes, LockTypeOK
<1> QED BY <1>1, <1>3

\* What the invariant says of a thread that is not in the lock.
LEMMA ScopeStays ==
  ASSUME NEW u \in Thread, ScopeOK(u), scopes'[u] = scopes[u], at'[u] = at[u],
         writer' = u <=> writer = u
  PROVE  ScopeOK(u)'
BY DEF ScopeOK

\* The paths and the scopes stay.
LEMMA PathsStay ==
  ASSUME HolderOK, BoundOK, NoPaths, UNCHANGED scopes
  PROVE  HolderOK' /\ BoundOK'
BY DEF HolderOK, BoundOK, Times, NoPaths

\* A thread starts, or ceases, to wait for the coarse lock.
LEMMA WaitingMoves ==
  ASSUME LockTypeOK, IsFiniteSet(Waiting), NEW t \in Thread, NEW a
  PROVE  /\ at[t] # "coarse" /\ a = "coarse" /\ Move(t, a) =>
              IsFiniteSet(Waiting') /\ Cardinality(Waiting') = Cardinality(Waiting) + 1
         /\ at[t] = "coarse" /\ a # "coarse" /\ Move(t, a) =>
              IsFiniteSet(Waiting') /\ Cardinality(Waiting') = Cardinality(Waiting) - 1
         /\ at[t] # "coarse" /\ a # "coarse" /\ Move(t, a) => Waiting' = Waiting
<1> USE DEF LockTypeOK, Move
<1>1. ASSUME at[t] # "coarse", a = "coarse", Move(t, a)
      PROVE  Waiting' = Waiting \cup {t} /\ t \notin Waiting
      BY <1>1 DEF Waiting
<1>2. ASSUME at[t] = "coarse", a # "coarse", Move(t, a)
      PROVE  Waiting' = Waiting \ {t} /\ t \in Waiting
      BY <1>2 DEF Waiting
<1>3. ASSUME at[t] # "coarse", a # "coarse", Move(t, a)
      PROVE  Waiting' = Waiting
      BY <1>3 DEF Waiting
<1>4. ASSUME at[t] # "coarse", a = "coarse", Move(t, a)
      PROVE  IsFiniteSet(Waiting') /\ Cardinality(Waiting') = Cardinality(Waiting) + 1
  <2>1. IsFiniteSet(Waiting \cup {t}) /\ Cardinality(Waiting \cup {t}) = Cardinality(Waiting) + 1
        BY <1>1, <1>4, CountUp
  <2> QED BY <1>1, <1>4, <2>1
<1>5. ASSUME at[t] = "coarse", a # "coarse", Move(t, a)
      PROVE  IsFiniteSet(Waiting') /\ Cardinality(Waiting') = Cardinality(Waiting) - 1
  <2>1. IsFiniteSet(Waiting \ {t}) /\ Cardinality(Waiting \ {t}) = Cardinality(Waiting) - 1
        BY <1>2, <1>5, CountDown
  <2> QED BY <1>2, <1>5, <2>1
<1> QED BY <1>3, <1>4, <1>5

\* A thread becomes the writer.
LEMMA BecomesWriter ==
  ASSUME LockInv, NEW t \in Thread, CoarseFree, Own(t), NoScoped, UNCHANGED scopes,
         NEW a \in {"run", "coarse"}, at[t] = a, Move(t, "run"),
         waiting' = IF a = "coarse" THEN waiting - 1 ELSE waiting
  PROVE  CountOK' /\ (\A u \in Thread : ScopeOK(u)') /\ waiting' \in Nat
<1> USE DEF LockInv
<1>1. \A u \in Thread : scopedDepth[u] = 0 /\ Len(scopes[u]) = 0
      BY NoneInside, LockAssumption DEF CoarseFree, CountOK
<1>2. /\ writer = Null /\ writer' = t /\ t # Null /\ writerDepth' = 1
      /\ scopedTotal = 0 /\ scopedTotal' = 0 /\ scopedDepth' = scopedDepth /\ scopes' = scopes
      /\ at' = [at EXCEPT ![t] = "run"]
      BY LockAssumption DEF CoarseFree, Own, NoScoped, Move
<1>3. OpenScopes' = OpenScopes
      BY <1>2 DEF OpenScopes
<1>4. IsFiniteSet(Waiting') /\ waiting' = Cardinality(Waiting')
  <2>1. CASE a = "coarse"
        BY <2>1, WaitingMoves DEF CountOK
  <2>2. CASE a = "run"
        BY <2>2, WaitingMoves DEF CountOK
  <2> QED BY <2>1, <2>2
<1>5. waiting' \in Nat
      BY <1>4, FS_CardinalityType
<1>6. CountOK'
  <2>1. \A u \in Thread : scopedDepth'[u] = IF writer' = u THEN 0 ELSE Len(scopes'[u])
        BY <1>1, <1>2
  <2>2. IsFiniteSet(OpenScopes') /\ scopedTotal' = Cardinality(OpenScopes')
        BY <1>2, <1>3 DEF CountOK
  <2>3. (writer' = Null <=> writerDepth' = 0) /\ (writer' # Null => scopedTotal' = 0)
        BY <1>2
  <2> QED BY <1>4, <2>1, <2>2, <2>3 DEF CountOK
<1>7. ASSUME NEW u \in Thread PROVE ScopeOK(u)'
  <2>1. at' \in [Thread -> At] /\ scopes'[u] \in Seq(Scope) /\ Len(scopes'[u]) = 0
        BY <1>1, <1>2 DEF LockTypeOK, At
  <2>2. CASE u = t
        BY <1>2, <2>1, <2>2 DEF ScopeOK, LockTypeOK
  <2>3. CASE u # t
    <3>1. at'[u] = at[u]
          BY <1>2, <2>3 DEF LockTypeOK
    <3> QED BY <1>2, <2>1, <2>3, <3>1 DEF ScopeOK
  <2> QED BY <2>2, <2>3
<1> QED BY <1>5, <1>6, <1>7

\* A thread waits for the coarse lock, or gives up.
LEMMA QueuesForWriter ==
  ASSUME LockInv, NEW t \in Thread, UNCHANGED <<writer, writerDepth, scopes>>, NoScoped,
         writer # t, Len(scopes[t]) = 0, NEW a \in {"run", "coarse"},
         at[t] = IF a = "run" THEN "coarse" ELSE "run", Move(t, a),
         waiting' = IF a = "run" THEN waiting - 1 ELSE waiting + 1
  PROVE  CountOK' /\ (\A u \in Thread : ScopeOK(u)') /\ waiting' \in Nat
<1> USE DEF LockInv
<1>1. OpenScopes' = OpenScopes /\ scopedTotal' = scopedTotal /\ scopedDepth' = scopedDepth
      BY DEF OpenScopes, NoScoped
<1>2. IsFiniteSet(Waiting') /\ waiting' = Cardinality(Waiting')
  <2>1. CASE a = "coarse"
        BY <2>1, WaitingMoves DEF CountOK
  <2>2. CASE a = "run"
        BY <2>2, WaitingMoves DEF CountOK
  <2> QED BY <2>1, <2>2
<1>3. waiting' \in Nat
      BY <1>2, FS_CardinalityType
<1>4. CountOK'
      BY <1>1, <1>2 DEF CountOK
<1>5. ASSUME NEW u \in Thread PROVE ScopeOK(u)'
  <2>1. CASE u = t
        BY <2>1 DEF ScopeOK, LockTypeOK, Move
  <2>2. CASE u # t
        BY <2>2, ScopeStays DEF LockTypeOK, Move
  <2> QED BY <2>1, <2>2
<1> QED BY <1>3, <1>4, <1>5

\* A thread enters the coarse lock, enters it again, or queues for it.
LEMMA EnterCoarseKeeps ==
  ASSUME LockInv, NEW t \in Thread, EnterCoarse(t)
  PROVE  LockInv'
<1>0. /\ at[t] = "run" /\ UNCHANGED scopes /\ NoScoped /\ NoPaths
      /\ at \in [Thread -> At] /\ writerDepth \in Nat /\ scopes[t] \in Seq(Scope)
      BY DEF EnterCoarse, LockInv, LockTypeOK
<1>1. HolderOK' /\ BoundOK'
      BY <1>0, PathsStay DEF LockInv
<1>2. CASE /\ writer = t /\ writerDepth' = writerDepth + 1
           /\ UNCHANGED <<writer, waiting, asleep, at>>
  <2>1. LockTypeOK'
        BY <1>0, <1>2 DEF LockTypeOK, LockInv, NoScoped, NoPaths
  <2>2. \A u \in Thread : ScopeOK(u)'
        BY <1>0, <1>2, ScopeStays DEF LockInv
  <2>3. OpenScopes' = OpenScopes /\ Waiting' = Waiting
        BY <1>0, <1>2 DEF OpenScopes, Waiting, NoScoped
  <2>4. CountOK'
        BY <1>0, <1>2, <2>3, LockAssumption DEF CountOK, LockInv, NoScoped
  <2> QED BY <1>1, <2>1, <2>2, <2>4 DEF LockInv
<1>3. CASE writer # t /\ scopedDepth[t] = 0 /\ CoarseFree /\ Own(t) /\ NotifyAll
           /\ UNCHANGED <<waiting, at>>
  <2>1. Move(t, "run")
        BY <1>0, <1>3 DEF Move
  <2>2. CountOK' /\ (\A u \in Thread : ScopeOK(u)')
        BY <1>0, <1>3, <2>1, BecomesWriter
  <2>3. LockTypeOK'
        BY <1>0, <1>3 DEF LockTypeOK, LockInv, NoScoped, NoPaths, Own, NotifyAll
  <2> QED BY <1>1, <2>2, <2>3 DEF LockInv
<1>4. CASE /\ writer # t /\ scopedDepth[t] = 0 /\ ~CoarseFree /\ waiting' = waiting + 1
           /\ asleep' = {t} /\ Move(t, "coarse") /\ UNCHANGED <<writer, writerDepth>>
  <2>1. Len(scopes[t]) = 0
        BY <1>4 DEF LockInv, CountOK
  <2>2. CountOK' /\ (\A u \in Thread : ScopeOK(u)')
        BY <1>0, <1>4, <2>1, QueuesForWriter
  <2>3. LockTypeOK'
        BY <1>0, <1>4 DEF LockTypeOK, LockInv, NoScoped, NoPaths, Move, At
  <2> QED BY <1>1, <2>2, <2>3 DEF LockInv
<1> QED BY <1>2, <1>3, <1>4 DEF EnterCoarse

\* A thread that waits for the coarse lock tests it again.
LEMMA RetryCoarseKeeps ==
  ASSUME LockInv, NEW t \in Thread, NEW timed \in BOOLEAN, RetryCoarse(t, timed)
  PROVE  LockInv'
<1>0. /\ at[t] = "coarse" /\ UNCHANGED scopes /\ NoScoped /\ NoPaths
      /\ at \in [Thread -> At] /\ scopes[t] \in Seq(Scope)
      BY DEF RetryCoarse, LockInv, LockTypeOK
<1>1. HolderOK' /\ BoundOK'
      BY <1>0, PathsStay DEF LockInv
<1>2. CASE CoarseFree /\ Own(t) /\ waiting' = waiting - 1 /\ asleep' = asleep \ {t} /\ Move(t, "run")
  <2>1. CountOK' /\ (\A u \in Thread : ScopeOK(u)') /\ waiting' \in Nat
        BY <1>0, <1>2, BecomesWriter
  <2>2. LockTypeOK'
        BY <1>0, <1>2, <2>1 DEF LockTypeOK, LockInv, NoScoped, NoPaths, Own, Move, At
  <2> QED BY <1>1, <2>1, <2>2 DEF LockInv
<1>3. CASE asleep' = asleep \cup {t} /\ UNCHANGED <<writer, writerDepth, waiting, at>>
  <2>1. LockTypeOK'
        BY <1>0, <1>3 DEF LockTypeOK, LockInv, NoScoped, NoPaths
  <2>2. \A u \in Thread : ScopeOK(u)'
        BY <1>0, <1>3, ScopeStays DEF LockInv
  <2>3. OpenScopes' = OpenScopes /\ Waiting' = Waiting
        BY <1>0, <1>3 DEF OpenScopes, Waiting, NoScoped
  <2>4. CountOK'
        BY <1>0, <1>3, <2>3 DEF CountOK, LockInv, NoScoped
  <2> QED BY <1>1, <2>1, <2>2, <2>4 DEF LockInv
<1> QED BY <1>2, <1>3 DEF RetryCoarse

\* A thread that waits for the coarse lock gives up.
LEMMA TimeOutCoarseKeeps ==
  ASSUME LockInv, NEW t \in Thread, TimeOutCoarse(t)
  PROVE  LockInv'
<1>0. /\ at[t] = "coarse" /\ UNCHANGED <<writer, writerDepth, scopes>> /\ NoScoped /\ NoPaths
      /\ waiting' = waiting - 1 /\ asleep' = asleep \ {t} /\ Move(t, "run")
      /\ at \in [Thread -> At]
      BY DEF TimeOutCoarse, LockInv, LockTypeOK
<1>1. HolderOK' /\ BoundOK'
      BY <1>0, PathsStay DEF LockInv
<1>2. writer # t /\ Len(scopes[t]) = 0
      BY <1>0 DEF LockInv, ScopeOK
<1>3. CountOK' /\ (\A u \in Thread : ScopeOK(u)') /\ waiting' \in Nat
      BY <1>0, <1>2, QueuesForWriter
<1>4. LockTypeOK'
      BY <1>0, <1>3 DEF LockTypeOK, LockInv, NoScoped, NoPaths, Move, At
<1> QED BY <1>1, <1>3, <1>4 DEF LockInv

\* Nobody leaves the coarse lock inside a scope.
LEMMA ExitCoarseKeeps ==
  ASSUME LockInv, NEW t \in Thread, ExitCoarse(t), Len(scopes[t]) = 0
  PROVE  LockInv'
<1>0. /\ at[t] = "run" /\ writer = t /\ writerDepth' = writerDepth - 1
      /\ UNCHANGED <<waiting, at, scopes>> /\ NoScoped /\ NoPaths
      /\ writerDepth \in Nat /\ scopes[t] \in Seq(Scope) /\ t # Null
      BY LockAssumption DEF ExitCoarse, LockInv, LockTypeOK
<1>1. HolderOK' /\ BoundOK'
      BY <1>0, PathsStay DEF LockInv
<1>2. writerDepth > 0
      BY <1>0 DEF LockInv, CountOK
<1>3. \/ writerDepth = 1 /\ writer' = Null /\ asleep' = {}
      \/ writerDepth > 1 /\ writer' = t /\ asleep' = asleep
      BY <1>0, <1>2 DEF ExitCoarse, NotifyAll
<1>4. LockTypeOK'
      BY <1>0, <1>2, <1>3 DEF LockTypeOK, LockInv, NoScoped, NoPaths
<1>5. ASSUME NEW u \in Thread PROVE ScopeOK(u)'
  <2>1. CASE u = t
        BY <1>0, <2>1 DEF ScopeOK, LockInv
  <2>2. CASE u # t
        BY <1>0, <1>3, <2>2, ScopeStays, LockAssumption DEF LockInv
  <2> QED BY <2>1, <2>2
<1>6. OpenScopes' = OpenScopes /\ Waiting' = Waiting
      BY <1>0 DEF OpenScopes, Waiting, NoScoped
<1>7. \A u \in Thread : scopedDepth'[u] = IF writer' = u THEN 0 ELSE Len(scopes'[u])
      BY <1>0, <1>3, LockAssumption DEF CountOK, LockInv, NoScoped
<1>8. CountOK'
      BY <1>0, <1>3, <1>6, <1>7 DEF CountOK, LockInv, NoScoped
<1> QED BY <1>1, <1>4, <1>5, <1>8 DEF LockInv

-----------------------------------------------------------------------------
(* The locks on paths                                                      *)

\* What a thread may ask to lock: an inner scope stays within the outer one.
MayOpen(t, ps) ==
  /\ ps \subseteq Path /\ ps # {}
  /\ Len(scopes[t]) <= 1
  /\ Len(scopes[t]) = 1 => ps \subseteq scopes[t][1].paths

\* A scope is opened: the scopes and the paths.
LEMMA OpenedKeeps ==
  ASSUME LockInv, NEW t \in Thread, NEW ps, MayOpen(t, ps), NEW b \in BOOLEAN,
         Opened(t, ps, b), b = (writer # t), UNCHANGED writer, NoPaths,
         at[t] \in {"run", "scoped"}
  PROVE  /\ scopes' \in [Thread -> Seq(Scope)] /\ at' \in [Thread -> At]
         /\ \A u \in Thread : ScopeOK(u)'
         /\ \A u \in Thread : u # t => scopes'[u] = scopes[u]
         /\ Len(scopes'[t]) = Len(scopes[t]) + 1
         /\ HolderOK' /\ BoundOK' /\ Waiting' = Waiting
<1> DEFINE c == [paths |-> ps, got |-> {}, counted |-> b]
<1>1. /\ scopes \in [Thread -> Seq(Scope)] /\ at \in [Thread -> At] /\ ScopeOK(t)
      /\ scopes[t] \in Seq(Scope)
      BY DEF LockInv, LockTypeOK
<1>2. c \in Scope
      BY DEF Scope, MayOpen
<1>3. scopes' = [scopes EXCEPT ![t] = Append(@, c)] /\ at' = [at EXCEPT ![t] = "take"]
      BY DEF Opened, Move
<1>c. c.paths = ps /\ c.got = {} /\ c.counted = b
      OBVIOUS
<1> HIDE DEF c
<1>4. /\ scopes'[t] = Append(scopes[t], c) /\ at'[t] = "take"
      /\ \A u \in Thread : u # t => scopes'[u] = scopes[u] /\ at'[u] = at[u]
      BY <1>1, <1>3
<1>5. /\ scopes'[t] \in Seq(Scope) /\ Len(scopes'[t]) = Len(scopes[t]) + 1
      /\ Len(scopes[t]) \in Nat /\ scopes'[t][Len(scopes[t]) + 1] = c
      /\ \A i \in 1..Len(scopes[t]) : scopes'[t][i] = scopes[t][i]
      BY <1>1, <1>2, <1>4, AppendScope
<1>6. scopes' \in [Thread -> Seq(Scope)] /\ at' \in [Thread -> At]
      BY <1>1, <1>3, <1>4, <1>5 DEF At
<1>7. Len(scopes[t]) \in {0, 1}
  <2>1. Len(scopes[t]) \in Nat /\ Len(scopes[t]) <= 1
        BY <1>5 DEF MayOpen
  <2>2. \A n \in Nat : n <= 1 => n \in {0, 1}
        OBVIOUS
  <2> QED BY <2>1, <2>2
<1>8. ScopeOK(t)'
  <2>1. CASE Len(scopes[t]) = 0
    <3>1. Len(scopes'[t]) = 1 /\ scopes'[t][1] = c
          BY <1>5, <2>1
    <3> QED BY <1>4, <1>c, <3>1 DEF ScopeOK, MayOpen
  <2>2. CASE Len(scopes[t]) = 1
    <3>1. Len(scopes'[t]) = 2 /\ scopes'[t][1] = scopes[t][1] /\ scopes'[t][2] = c
          BY <1>5, <2>2
    <3>2. /\ scopes[t][1].paths # {} /\ scopes[t][1].got = scopes[t][1].paths
          /\ scopes[t][1].counted = (writer # t)
          BY <1>1, <2>2 DEF ScopeOK
    <3> QED BY <1>4, <1>c, <2>2, <3>1, <3>2 DEF ScopeOK, MayOpen
  <2> QED BY <1>7, <2>1, <2>2
<1>9. \A u \in Thread : ScopeOK(u)'
      BY <1>4, <1>8, ScopeStays DEF LockInv
<1>10. \A u \in Thread, p \in Path : Times(u, p)' = Times(u, p)
  <2> SUFFICES ASSUME NEW u \in Thread, NEW p \in Path PROVE Times(u, p)' = Times(u, p)
      OBVIOUS
  <2>1. CASE u # t
        BY <1>4, <2>1 DEF Times
  <2>2. CASE u = t /\ Len(scopes[t]) = 0
        BY <1>5, <1>c, <2>2 DEF Times
  <2>3. CASE u = t /\ Len(scopes[t]) = 1
        BY <1>5, <1>c, <2>3 DEF Times
  <2> QED BY <1>7, <2>1, <2>2, <2>3
<1>11. HolderOK' /\ BoundOK'
       BY <1>10 DEF HolderOK, BoundOK, LockInv, NoPaths
<1>12. Waiting' = Waiting
       BY <1>4, <1>6 DEF Waiting
<1> QED BY <1>4, <1>5, <1>6, <1>9, <1>11, <1>12

\* A scope is opened and counted.
LEMMA CountedKeeps ==
  ASSUME LockInv, NEW t \in Thread, NEW ps, MayOpen(t, ps), Counted(t, ps), writer = Null,
         NoWriter, NoPaths, asleep' \subseteq Thread, at[t] \in {"run", "scoped"}
  PROVE  LockInv'
<1> DEFINE x == <<t, scopedDepth[t] + 1>>
<1>0. /\ scopedTotal' = scopedTotal + 1
      /\ scopedDepth' = [scopedDepth EXCEPT ![t] = @ + 1]
      /\ Opened(t, ps, TRUE) /\ writer' = writer /\ writerDepth' = writerDepth
      /\ waiting' = waiting
      /\ writer # t /\ scopedDepth \in [Thread -> Nat] /\ scopedTotal \in Nat
      BY LockAssumption DEF Counted, NoWriter, LockInv, LockTypeOK
<1>1. /\ scopes' \in [Thread -> Seq(Scope)] /\ at' \in [Thread -> At]
      /\ \A u \in Thread : ScopeOK(u)'
      /\ \A u \in Thread : u # t => scopes'[u] = scopes[u]
      /\ Len(scopes'[t]) = Len(scopes[t]) + 1
      /\ HolderOK' /\ BoundOK' /\ Waiting' = Waiting
      BY <1>0, OpenedKeeps
<1>2. LockTypeOK'
  <2>1. LockTypeOK
        BY DEF LockInv
  <2>2. scopedDepth' \in [Thread -> Nat] /\ scopedTotal' \in Nat
        BY <1>0
  <2> QED BY <1>0, <1>1, <2>1, <2>2 DEF LockTypeOK, NoPaths
<1>3. OpenScopes' = OpenScopes \cup {x} /\ x \notin OpenScopes
  <2>1. x \notin OpenScopes
        BY <1>0 DEF OpenScopes
  <2>2. \A s \in Thread \X Nat : s[2] \in 1..scopedDepth'[s[1]] <=> s[2] \in 1..scopedDepth[s[1]] \/ s = x
    <3> SUFFICES ASSUME NEW u \in Thread, NEW i \in Nat
                 PROVE  i \in 1..scopedDepth'[u] <=> i \in 1..scopedDepth[u] \/ <<u, i>> = x
        OBVIOUS
    <3> QED BY <1>0
  <2>3. x \in Thread \X Nat
        BY <1>0
  <2> HIDE DEF x
  <2> QED BY <2>1, <2>2, <2>3 DEF OpenScopes
<1> HIDE DEF x
<1>4. IsFiniteSet(OpenScopes) /\ scopedTotal = Cardinality(OpenScopes)
      BY DEF LockInv, CountOK
<1>5. IsFiniteSet(OpenScopes \cup {x}) /\ Cardinality(OpenScopes \cup {x}) = Cardinality(OpenScopes) + 1
      BY <1>3, <1>4, CountUp
<1>6. IsFiniteSet(OpenScopes') /\ scopedTotal' = Cardinality(OpenScopes')
      BY <1>0, <1>3, <1>4, <1>5
<1>7. \A u \in Thread : scopedDepth'[u] = IF writer' = u THEN 0 ELSE Len(scopes'[u])
      BY <1>0, <1>1, LockAssumption DEF LockInv, CountOK
<1>8. CountOK'
      BY <1>0, <1>1, <1>6, <1>7 DEF LockInv, CountOK
<1> QED BY <1>1, <1>2, <1>8 DEF LockInv

\* A thread waits to open a scope: it is inside none.
LEMMA BlockedOutside ==
  ASSUME LockInv, NEW t \in Thread, writer # t, ScopedBlocked(t)
  PROVE  scopedDepth[t] = 0 /\ Len(scopes[t]) = 0
<1>1. scopedDepth[t] = 0
      BY NoneInside DEF ScopedBlocked, LockInv, CountOK
<1> QED BY <1>1 DEF LockInv, CountOK

\* A thread opens a scope, or waits to.
LEMMA EnterScopedKeeps ==
  ASSUME LockInv, NEW t \in Thread, NEW ps, MayOpen(t, ps), EnterScoped(t, ps)
  PROVE  LockInv'
<1>0. /\ at[t] = "run" /\ NoWriter /\ NoPaths /\ asleep \subseteq Thread
      /\ at \in [Thread -> At] /\ LockTypeOK /\ CountOK
      BY DEF EnterScoped, LockInv, LockTypeOK
<1>1. CASE writer = t /\ Opened(t, ps, FALSE) /\ NoScoped /\ UNCHANGED asleep
  <2>1. /\ scopes' \in [Thread -> Seq(Scope)] /\ at' \in [Thread -> At]
        /\ \A u \in Thread : ScopeOK(u)'
        /\ \A u \in Thread : u # t => scopes'[u] = scopes[u]
        /\ Len(scopes'[t]) = Len(scopes[t]) + 1
        /\ HolderOK' /\ BoundOK' /\ Waiting' = Waiting
        BY <1>0, <1>1, OpenedKeeps DEF NoWriter
  <2>2. LockTypeOK'
        BY <1>0, <1>1, <2>1 DEF LockTypeOK, NoPaths, NoWriter, NoScoped
  <2>3. OpenScopes' = OpenScopes
        BY <1>1 DEF OpenScopes, NoScoped
  <2>4. \A u \in Thread : scopedDepth'[u] = IF writer' = u THEN 0 ELSE Len(scopes'[u])
        BY <1>0, <1>1, <2>1 DEF CountOK, NoWriter, NoScoped
  <2>5. CountOK'
        BY <1>0, <1>1, <2>1, <2>3, <2>4 DEF CountOK, NoWriter, NoScoped
  <2> QED BY <2>1, <2>2, <2>5 DEF LockInv
<1>2. CASE writer # t /\ ~ScopedBlocked(t) /\ Counted(t, ps) /\ UNCHANGED asleep
      BY <1>0, <1>2, CountedKeeps DEF ScopedBlocked
<1>3. CASE /\ writer # t /\ ScopedBlocked(t)
           /\ asleep' = asleep \cup {t}
           /\ Move(t, "scoped")
           /\ UNCHANGED scopes /\ NoScoped
  <2>1. LockTypeOK'
        BY <1>0, <1>3 DEF LockTypeOK, NoPaths, NoWriter, NoScoped, Move, At
  <2>2. Len(scopes[t]) = 0
        BY <1>3, BlockedOutside
  <2>3. ASSUME NEW u \in Thread PROVE ScopeOK(u)'
    <3>1. CASE u = t
          BY <1>0, <1>3, <2>2, <3>1 DEF ScopeOK, Move, NoWriter
    <3>2. CASE u # t
          BY <1>0, <1>3, <3>2, ScopeStays DEF Move, NoWriter, LockInv
    <3> QED BY <3>1, <3>2
  <2>4. OpenScopes' = OpenScopes /\ Waiting' = Waiting
        BY <1>0, <1>3 DEF OpenScopes, Waiting, NoScoped, Move
  <2>5. CountOK'
        BY <1>0, <1>3, <2>4 DEF CountOK, NoWriter, NoScoped
  <2>6. HolderOK' /\ BoundOK'
        BY <1>0, <1>3, PathsStay DEF LockInv
  <2> QED BY <2>1, <2>3, <2>5, <2>6 DEF LockInv
<1> QED BY <1>1, <1>2, <1>3 DEF EnterScoped

\* A thread that waits to open a scope tests again.
LEMMA RetryScopedKeeps ==
  ASSUME LockInv, NEW t \in Thread, NEW ps, MayOpen(t, ps), RetryScoped(t, ps)
  PROVE  LockInv'
<1>0. /\ at[t] = "scoped" /\ NoWriter /\ NoPaths /\ asleep \subseteq Thread
      /\ at \in [Thread -> At] /\ LockTypeOK /\ CountOK
      BY DEF RetryScoped, LockInv, LockTypeOK
<1>1. CASE ~ScopedBlocked(t) /\ Counted(t, ps) /\ UNCHANGED asleep
      BY <1>0, <1>1, CountedKeeps DEF ScopedBlocked
<1>2. CASE asleep' = asleep \cup {t} /\ UNCHANGED <<at, scopes>> /\ NoScoped
  <2>1. LockTypeOK'
        BY <1>0, <1>2 DEF LockTypeOK, NoPaths, NoWriter, NoScoped
  <2>2. \A u \in Thread : ScopeOK(u)'
        BY <1>0, <1>2, ScopeStays DEF NoWriter, LockInv
  <2>3. OpenScopes' = OpenScopes /\ Waiting' = Waiting
        BY <1>0, <1>2 DEF OpenScopes, Waiting, NoScoped
  <2>4. CountOK'
        BY <1>0, <1>2, <2>3 DEF CountOK, NoWriter, NoScoped
  <2>5. HolderOK' /\ BoundOK'
        BY <1>0, <1>2, PathsStay DEF LockInv
  <2> QED BY <2>1, <2>2, <2>4, <2>5 DEF LockInv
<1> QED BY <1>1, <1>2 DEF RetryScoped

\* A thread is in one scope or two where it takes and drops paths.
LEMMA InsideScopes ==
  ASSUME LockInv, NEW t \in Thread, Len(scopes[t]) > 0
  PROVE  /\ scopes[t] \in Seq(Scope) /\ Len(scopes[t]) \in {1, 2}
         /\ Top(t) \in Scope /\ Top(t).got \subseteq Top(t).paths /\ Top(t).paths \subseteq Path
<1>1. scopes[t] \in Seq(Scope) /\ Len(scopes[t]) \in Nat /\ Len(scopes[t]) <= 2
      BY DEF LockInv, LockTypeOK, ScopeOK
<1>2. \A n \in Nat : n > 0 /\ n <= 2 => n \in {1, 2}
      OBVIOUS
<1>3. Len(scopes[t]) \in {1, 2}
      BY <1>1, <1>2
<1>4. Top(t) \in Scope
      BY <1>1, <1>3 DEF Top
<1>5. Top(t).got \subseteq Top(t).paths
      BY <1>1, <1>3 DEF Top, LockInv, ScopeOK
<1> QED BY <1>1, <1>3, <1>4, <1>5 DEF Scope

\* The innermost scope has other paths now.
LEMMA TopChanges ==
  ASSUME LockInv, NEW t \in Thread, Len(scopes[t]) > 0, NEW got \in SUBSET Path,
         SetTop(t, [Top(t) EXCEPT !.got = got])
  PROVE  /\ scopes' \in [Thread -> Seq(Scope)] /\ Len(scopes'[t]) = Len(scopes[t])
         /\ \A u \in Thread : u # t => scopes'[u] = scopes[u]
         /\ scopes'[t][Len(scopes[t])].got = got
         /\ scopes'[t][Len(scopes[t])].paths = Top(t).paths
         /\ scopes'[t][Len(scopes[t])].counted = Top(t).counted
         /\ Len(scopes[t]) = 2 => scopes'[t][1] = scopes[t][1]
<1> DEFINE c == [Top(t) EXCEPT !.got = got]
<1>1. Top(t) \in Scope /\ scopes[t] \in Seq(Scope) /\ scopes \in [Thread -> Seq(Scope)]
      BY InsideScopes DEF LockInv, LockTypeOK
<1>2. c \in Scope /\ c.got = got /\ c.paths = Top(t).paths /\ c.counted = Top(t).counted
      BY <1>1 DEF Scope
<1>3. scopes' = [scopes EXCEPT ![t] = [scopes[t] EXCEPT ![Len(scopes[t])] = c]]
      BY <1>1 DEF SetTop
<1> HIDE DEF c
<1> DEFINE r == [scopes[t] EXCEPT ![Len(scopes[t])] = c]
<1>4. /\ r \in Seq(Scope) /\ Len(r) = Len(scopes[t]) /\ r[Len(scopes[t])] = c
      /\ Len(scopes[t]) \in Nat
      /\ \A i \in 1..Len(scopes[t]) : i # Len(scopes[t]) => r[i] = scopes[t][i]
      BY <1>1, <1>2, ChangeScope
<1>5. scopes'[t] = r /\ \A u \in Thread : u # t => scopes'[u] = scopes[u]
      BY <1>1, <1>3
<1>6. scopes' \in [Thread -> Seq(Scope)]
      BY <1>1, <1>3, <1>4
<1> HIDE DEF r
<1>7. Len(scopes[t]) = 2 => 1 \in 1..Len(scopes[t]) /\ 1 # Len(scopes[t])
      OBVIOUS
<1>8. Len(scopes[t]) = 2 => r[1] = scopes[t][1]
      BY <1>4, <1>7
<1> QED BY <1>2, <1>4, <1>5, <1>6, <1>8

\* The counters when a thread goes from path to path.
LEMMA CountsStay ==
  ASSUME LockInv, NEW t \in Thread, NEW a \in {"run", "take", "drop"}, Move(t, a),
         at[t] # "coarse", NoWriter, NoScoped,
         \A u \in Thread : Len(scopes'[u]) = Len(scopes[u])
  PROVE  CountOK'
<1>1. /\ writer' = writer /\ writerDepth' = writerDepth /\ waiting' = waiting
      /\ scopedTotal' = scopedTotal /\ scopedDepth' = scopedDepth
      BY DEF NoWriter, NoScoped
<1>2. OpenScopes' = OpenScopes
      BY <1>1 DEF OpenScopes
<1>3. Waiting' = Waiting
      BY WaitingMoves DEF LockInv, CountOK
<1>4. \A u \in Thread : scopedDepth'[u] = IF writer' = u THEN 0 ELSE Len(scopes'[u])
      BY <1>1 DEF LockInv, CountOK
<1> QED BY <1>1, <1>2, <1>3, <1>4 DEF LockInv, CountOK

\* The lock of the next path is taken.
LEMMA TakePathKeeps ==
  ASSUME LockInv, NEW t \in Thread, NEW p \in Path, TakePath(t, p)
  PROVE  LockInv'
<1> DEFINE s == scopes[t]
           n == Len(scopes[t])
           got == Top(t).got \cup {p}
           a == IF got = Top(t).paths THEN "run" ELSE "take"
<1>0. /\ at[t] = "take" /\ Takes(t, p) /\ holder[p] \in {Null, t}
      /\ holder' = [holder EXCEPT ![p] = t] /\ holds' = [holds EXCEPT ![p] = @ + 1]
      /\ SetTop(t, [Top(t) EXCEPT !.got = got]) /\ Move(t, a)
      /\ NoWriter /\ NoScoped /\ UNCHANGED asleep
      BY DEF TakePath, Available
<1>1. /\ LockTypeOK /\ ScopeOK(t) /\ HolderOK /\ BoundOK /\ CountOK
      /\ at \in [Thread -> At] /\ holder \in [Path -> Thread \cup {Null}]
      /\ holds \in [Path -> Nat]
      BY DEF LockInv, LockTypeOK
<1>2. n > 0
      BY <1>0, <1>1 DEF ScopeOK
<1>3. /\ n \in {1, 2} /\ Top(t) \in Scope
      /\ Top(t).got \subseteq Top(t).paths /\ Top(t).paths \subseteq Path
      BY <1>2, InsideScopes
<1>4. /\ p \in Top(t).paths /\ p \notin Top(t).got
      /\ \A q \in Top(t).paths \ Top(t).got : p <= q
  <2> DEFINE rest == Top(t).paths \ Top(t).got
  <2>1. rest \subseteq Path /\ rest # {} /\ p = First(rest)
        BY <1>0, <1>3 DEF Takes
  <2> HIDE DEF rest
  <2>2. p \in rest /\ \A q \in rest : p <= q
        BY <2>1, FirstPath
  <2> QED BY <2>2 DEF rest
<1>5. /\ scopes' \in [Thread -> Seq(Scope)] /\ Len(scopes'[t]) = n
      /\ \A u \in Thread : u # t => scopes'[u] = scopes[u]
      /\ scopes'[t][n].got = got /\ scopes'[t][n].paths = Top(t).paths
      /\ scopes'[t][n].counted = Top(t).counted
      /\ n = 2 => scopes'[t][1] = scopes[t][1]
  <2>1. got \in SUBSET Path
        BY <1>3
  <2> HIDE DEF got
  <2> QED BY <1>0, <1>2, <2>1, TopChanges
<1>6. /\ at'[t] = a /\ at' \in [Thread -> At]
      /\ \A u \in Thread : u # t => at'[u] = at[u]
      BY <1>0, <1>1 DEF Move, At
<1>7. writer' = writer
      BY <1>0 DEF NoWriter
<1>8. ScopeOK(t)'
  <2>0. Top(t) = scopes[t][n] /\ n \in 1..n /\ got \subseteq Top(t).paths
        BY <1>3, <1>4 DEF Top
  <2>1. /\ got \subseteq Top(t).paths /\ Top(t).paths # {} /\ Top(t).counted = (writer # t)
        /\ Top(t) = scopes[t][n]
        /\ \A x \in Top(t).got, y \in Top(t).paths \ Top(t).got : x < y
        BY <1>0, <1>1, <2>0 DEF ScopeOK
  <2>2. \A x \in got, y \in Top(t).paths \ got : x < y
    <3> SUFFICES ASSUME NEW x \in got, NEW y \in Top(t).paths \ got PROVE x < y
        OBVIOUS
    <3>1. CASE x = p
      <4>1. p <= y /\ p # y /\ p \in Nat /\ y \in Nat
            BY <1>3, <1>4, LockAssumption
      <4> QED BY <3>1, <4>1
    <3>2. CASE x # p
          BY <2>1, <3>2
    <3> QED BY <3>1, <3>2
  <2>3. n = 2 => /\ scopes[t][1].paths # {} /\ scopes[t][1].got = scopes[t][1].paths
                 /\ scopes[t][1].counted = (writer # t) /\ Top(t).paths \subseteq scopes[t][1].paths
        BY <1>1, <2>1 DEF ScopeOK
  <2> HIDE DEF got, n
  <2>4. CASE n = 1
        BY <1>5, <1>6, <1>7, <2>1, <2>2, <2>4 DEF ScopeOK
  <2>5. CASE n = 2
        BY <1>5, <1>6, <1>7, <2>1, <2>2, <2>3, <2>5 DEF ScopeOK
  <2> QED BY <1>3, <2>4, <2>5
<1>9. \A u \in Thread : ScopeOK(u)'
      BY <1>5, <1>6, <1>7, <1>8, ScopeStays DEF LockInv
<1>10. \A u \in Thread, q \in Path :
         Times(u, q)' = IF u = t /\ q = p THEN Times(u, q) + 1 ELSE Times(u, q)
  <2> SUFFICES ASSUME NEW u \in Thread, NEW q \in Path
               PROVE  Times(u, q)' = IF u = t /\ q = p THEN Times(u, q) + 1 ELSE Times(u, q)
      OBVIOUS
  <2>1. CASE u # t
        BY <1>5, <2>1 DEF Times
  <2>2. CASE u = t
    <3>1. Top(t) = scopes[t][n] /\ (q \in got <=> q = p \/ q \in Top(t).got) /\ p \notin Top(t).got
          BY <1>4 DEF Top
    <3>2. CASE n = 1
      <4>1. /\ Len(scopes'[t]) = 1 /\ Len(scopes[t]) = 1
            /\ q \in scopes'[t][1].got <=> q = p \/ q \in scopes[t][1].got
            /\ p \notin scopes[t][1].got
            BY <1>5, <3>1, <3>2
      <4> QED BY <2>2, <4>1 DEF Times
    <3>3. CASE n = 2
      <4>1. /\ Len(scopes'[t]) = 2 /\ Len(scopes[t]) = 2
            /\ q \in scopes'[t][2].got <=> q = p \/ q \in scopes[t][2].got
            /\ p \notin scopes[t][2].got /\ scopes'[t][1] = scopes[t][1]
            BY <1>5, <3>1, <3>3
      <4> QED BY <2>2, <4>1 DEF Times
    <3> QED BY <1>3, <3>2, <3>3
  <2> QED BY <2>1, <2>2
<1>11. HolderOK'
  <2> SUFFICES ASSUME NEW q \in Path
               PROVE  /\ holder'[q] = Null <=> holds'[q] = 0
                      /\ \A u \in Thread : Times(u, q)' = IF holder'[q] = u THEN holds'[q] ELSE 0
      BY DEF HolderOK
  <2>1. /\ holder[q] = Null <=> holds[q] = 0
        /\ \A u \in Thread : Times(u, q) = IF holder[q] = u THEN holds[q] ELSE 0
        /\ holds[q] \in Nat
        BY <1>1 DEF HolderOK
  <2>2. CASE q # p
    <3>1. holder'[q] = holder[q] /\ holds'[q] = holds[q]
          BY <1>0, <1>1, <2>2
    <3> QED BY <1>10, <2>1, <2>2, <3>1
  <2>3. CASE q = p
    <3>1. holder'[q] = t /\ holds'[q] = holds[q] + 1 /\ t # Null
          BY <1>0, <1>1, <2>3, LockAssumption
    <3>2. \A u \in Thread : Times(u, q) = IF u = t THEN holds[q] ELSE 0
          BY <1>0, <2>1, <2>3, LockAssumption
    <3> QED BY <1>10, <2>1, <2>3, <3>1, <3>2
  <2> QED BY <2>2, <2>3
<1>12. BoundOK'
  <2>1. PICK m \in Nat : \A q \in Path : holder[q] # Null => q <= m
        BY <1>1 DEF BoundOK
  <2>2. p \in Nat /\ Path \subseteq Nat
        BY LockAssumption
  <2>3. m + p \in Nat /\ \A q \in Path : holder'[q] # Null => q <= m + p
        BY <1>0, <1>1, <2>1, <2>2
  <2> QED BY <2>3 DEF BoundOK
<1>13. CountOK'
  <2>1. a \in {"run", "take", "drop"} /\ at[t] # "coarse"
        BY <1>0
  <2>2. \A u \in Thread : Len(scopes'[u]) = Len(scopes[u])
        BY <1>5
  <2> HIDE DEF a
  <2> QED BY <1>0, <2>1, <2>2, CountsStay
<1>14. LockTypeOK'
  <2>1. holder' \in [Path -> Thread \cup {Null}] /\ holds' \in [Path -> Nat]
        BY <1>0, <1>1
  <2> QED BY <1>0, <1>1, <1>5, <1>6, <2>1 DEF LockTypeOK, NoWriter, NoScoped
<1> QED BY <1>9, <1>11, <1>12, <1>13, <1>14 DEF LockInv

\* What a thread has, it holds.
LEMMA TimesHeld ==
  ASSUME LockInv, NEW t \in Thread, NEW i \in 1..Len(scopes[t]), NEW p \in scopes[t][i].got
  PROVE  p \in Path /\ holder[p] = t /\ holds[p] # 0
<1>1. /\ Len(scopes[t]) \in {1, 2} /\ scopes[t] \in Seq(Scope) /\ HolderOK
      BY InsideScopes DEF LockInv, LockTypeOK
<1>2. p \in Path
  <2>1. scopes[t][i] \in Scope
        BY <1>1
  <2> QED BY <2>1 DEF Scope
<1>3. Times(t, p) # 0
  <2>1. CASE i = 1
        BY <1>1, <2>1 DEF Times
  <2>2. CASE i = 2
        BY <1>1, <2>2 DEF Times
  <2> QED BY <1>1, <2>1, <2>2
<1> QED BY <1>1, <1>2, <1>3 DEF HolderOK

\* The lock of the last path is released.
LEMMA DropPathKeeps ==
  ASSUME LockInv, NEW t \in Thread, DropPath(t)
  PROVE  LockInv'
<1> DEFINE n == Len(scopes[t])
           p == Last(Top(t).got)
           got == Top(t).got \ {p}
<1>0. /\ at[t] \in {"run", "drop"} /\ scopes[t] # <<>> /\ Top(t).got # {}
      /\ holder' = [holder EXCEPT ![p] = IF holds[p] = 1 THEN Null ELSE @]
      /\ holds' = [holds EXCEPT ![p] = @ - 1]
      /\ SetTop(t, [Top(t) EXCEPT !.got = @ \ {p}]) /\ Move(t, "drop")
      /\ NoWriter /\ NoScoped /\ UNCHANGED asleep
      BY DEF DropPath
<1>1. /\ LockTypeOK /\ ScopeOK(t) /\ HolderOK /\ BoundOK /\ CountOK
      /\ at \in [Thread -> At] /\ holder \in [Path -> Thread \cup {Null}]
      /\ holds \in [Path -> Nat] /\ scopes[t] \in Seq(Scope)
      BY DEF LockInv, LockTypeOK
<1>2. n > 0
      BY <1>0, <1>1
<1>3. /\ n \in {1, 2} /\ Top(t) \in Scope
      /\ Top(t).got \subseteq Top(t).paths /\ Top(t).paths \subseteq Path
      BY <1>2, InsideScopes
<1>4. Top(t) = scopes[t][n] /\ n \in 1..n
      BY <1>3 DEF Top
<1>5. p \in Top(t).got
  <2>1. PICK m \in Nat : \A q \in Path : holder[q] # Null => q <= m
        BY <1>1 DEF BoundOK
  <2>2. ASSUME NEW q \in Top(t).got PROVE q <= m
    <3>1. q \in scopes[t][n].got /\ n \in 1..Len(scopes[t])
          BY <1>4
    <3>2. q \in Path /\ holder[q] = t
          BY <3>1, TimesHeld
    <3> QED BY <2>1, <3>2, LockAssumption
  <2>3. \E x \in Top(t).got : \A y \in Top(t).got : x >= y
        BY <1>0, <1>3, <2>2, Greatest, LockAssumption
  <2> QED BY <2>3 DEF Last
<1>6. p \in Path /\ holder[p] = t /\ holds[p] # 0 /\ holds[p] \in Nat
      BY <1>1, <1>4, <1>5, TimesHeld
<1>7. SetTop(t, [Top(t) EXCEPT !.got = got])
      BY <1>0, <1>3 DEF Scope
<1> HIDE DEF p
<1>8. /\ scopes' \in [Thread -> Seq(Scope)] /\ Len(scopes'[t]) = n
      /\ \A u \in Thread : u # t => scopes'[u] = scopes[u]
      /\ scopes'[t][n].got = got /\ scopes'[t][n].paths = Top(t).paths
      /\ scopes'[t][n].counted = Top(t).counted
      /\ n = 2 => scopes'[t][1] = scopes[t][1]
  <2>1. got \in SUBSET Path
        BY <1>3
  <2> HIDE DEF got
  <2> QED BY <1>7, <1>2, <2>1, TopChanges
<1>9. /\ at'[t] = "drop" /\ at' \in [Thread -> At]
      /\ \A u \in Thread : u # t => at'[u] = at[u]
      BY <1>0, <1>1 DEF Move, At
<1>10. writer' = writer
       BY <1>0 DEF NoWriter
<1>11. ScopeOK(t)'
  <2>1. /\ got \subseteq Top(t).paths /\ Top(t).paths # {} /\ Top(t).counted = (writer # t)
        BY <1>0, <1>1, <1>3, <1>4 DEF ScopeOK
  <2>2. n = 2 => /\ scopes[t][1].paths # {} /\ scopes[t][1].got = scopes[t][1].paths
                 /\ scopes[t][1].counted = (writer # t) /\ Top(t).paths \subseteq scopes[t][1].paths
        BY <1>1, <1>4 DEF ScopeOK
  <2> HIDE DEF got, n
  <2>3. CASE n = 1
        BY <1>8, <1>9, <1>10, <2>1, <2>3 DEF ScopeOK
  <2>4. CASE n = 2
        BY <1>8, <1>9, <1>10, <2>1, <2>2, <2>4 DEF ScopeOK
  <2> QED BY <1>3, <2>3, <2>4
<1>12. \A u \in Thread : ScopeOK(u)'
       BY <1>8, <1>9, <1>10, <1>11, ScopeStays DEF LockInv
<1>13. \A u \in Thread, q \in Path :
         Times(u, q) = IF u = t /\ q = p THEN Times(u, q)' + 1 ELSE Times(u, q)'
  <2> SUFFICES ASSUME NEW u \in Thread, NEW q \in Path
               PROVE  Times(u, q) = IF u = t /\ q = p THEN Times(u, q)' + 1 ELSE Times(u, q)'
      OBVIOUS
  <2>1. CASE u # t
        BY <1>8, <2>1 DEF Times
  <2>2. CASE u = t
    <3>1. (q \in got <=> q # p /\ q \in Top(t).got) /\ p \in Top(t).got
          BY <1>5
    <3>2. CASE n = 1
      <4>1. /\ Len(scopes'[t]) = 1 /\ Len(scopes[t]) = 1
            /\ q \in scopes'[t][1].got <=> q # p /\ q \in scopes[t][1].got
            /\ p \in scopes[t][1].got
            BY <1>4, <1>8, <3>1, <3>2
      <4> QED BY <2>2, <4>1 DEF Times
    <3>3. CASE n = 2
      <4>1. /\ Len(scopes'[t]) = 2 /\ Len(scopes[t]) = 2
            /\ q \in scopes'[t][2].got <=> q # p /\ q \in scopes[t][2].got
            /\ p \in scopes[t][2].got /\ scopes'[t][1] = scopes[t][1]
            BY <1>4, <1>8, <3>1, <3>3
      <4> QED BY <2>2, <4>1 DEF Times
    <3> QED BY <1>3, <3>2, <3>3
  <2> QED BY <2>1, <2>2
<1>14. \A u \in Thread, q \in Path : Times(u, q)' \in Nat
       BY DEF Times
<1>15. HolderOK'
  <2> SUFFICES ASSUME NEW q \in Path
               PROVE  /\ holder'[q] = Null <=> holds'[q] = 0
                      /\ \A u \in Thread : Times(u, q)' = IF holder'[q] = u THEN holds'[q] ELSE 0
      BY DEF HolderOK
  <2>1. /\ holder[q] = Null <=> holds[q] = 0
        /\ \A u \in Thread : Times(u, q) = IF holder[q] = u THEN holds[q] ELSE 0
        /\ holds[q] \in Nat
        BY <1>1 DEF HolderOK
  <2>2. CASE q # p
    <3>1. holder'[q] = holder[q] /\ holds'[q] = holds[q]
          BY <1>0, <1>1, <2>2
    <3> QED BY <1>13, <2>1, <2>2, <3>1
  <2>3. CASE q = p
    <3>1. /\ holds'[q] = holds[q] - 1 /\ t # Null
          /\ holder'[q] = IF holds[q] = 1 THEN Null ELSE t
          BY <1>0, <1>1, <1>6, <2>3, LockAssumption
    <3>2. \A u \in Thread : Times(u, q) = IF u = t THEN holds[q] ELSE 0
          BY <1>6, <2>1, <2>3
    <3>3. \A u \in Thread : Times(u, q)' = IF u = t THEN holds[q] - 1 ELSE 0
          BY <1>13, <1>14, <2>1, <2>3, <3>2
    <3> QED BY <1>6, <2>1, <2>3, <3>1, <3>3, LockAssumption
  <2> QED BY <2>2, <2>3
<1>16. BoundOK'
  <2>1. PICK m \in Nat : \A q \in Path : holder[q] # Null => q <= m
        BY <1>1 DEF BoundOK
  <2>2. \A q \in Path : holder'[q] # Null => holder[q] # Null
        BY <1>0, <1>1
  <2> QED BY <2>1, <2>2 DEF BoundOK
<1>17. CountOK'
  <2>1. \A u \in Thread : Len(scopes'[u]) = Len(scopes[u])
        BY <1>8
  <2> QED BY <1>0, <2>1, CountsStay
<1>18. LockTypeOK'
  <2>1. holder' \in [Path -> Thread \cup {Null}] /\ holds' \in [Path -> Nat]
        BY <1>0, <1>1, <1>6
  <2> QED BY <1>0, <1>1, <1>8, <1>9, <2>1 DEF LockTypeOK, NoWriter, NoScoped
<1> QED BY <1>12, <1>15, <1>16, <1>17, <1>18 DEF LockInv

\* The innermost scope is left.
LEMMA ExitScopedKeeps ==
  ASSUME LockInv, NEW t \in Thread, ExitScoped(t)
  PROVE  LockInv'
<1> DEFINE n == Len(scopes[t])
<1>0. /\ at[t] = "drop" /\ Top(t).got = {}
      /\ scopes' = [scopes EXCEPT ![t] = SubSeq(@, 1, Len(@) - 1)]
      /\ Move(t, "run") /\ NoWriter /\ NoPaths
      BY DEF ExitScoped
<1>1. /\ LockTypeOK /\ ScopeOK(t) /\ HolderOK /\ BoundOK /\ CountOK
      /\ at \in [Thread -> At] /\ scopes \in [Thread -> Seq(Scope)] /\ scopes[t] \in Seq(Scope)
      /\ scopedDepth \in [Thread -> Nat]
      BY DEF LockInv, LockTypeOK
<1>2. n > 0
      BY <1>0, <1>1 DEF ScopeOK
<1>3. n \in {1, 2} /\ Top(t) = scopes[t][n]
      BY <1>2, InsideScopes DEF Top
<1>4. /\ scopes'[t] = SubSeq(scopes[t], 1, n - 1) /\ at'[t] = "run"
      /\ \A u \in Thread : u # t => scopes'[u] = scopes[u] /\ at'[u] = at[u]
      /\ writer' = writer
      BY <1>0, <1>1 DEF Move, NoWriter
<1>5. /\ scopes'[t] \in Seq(Scope) /\ Len(scopes'[t]) = n - 1
      /\ \A i \in 1..Len(scopes'[t]) : scopes'[t][i] = scopes[t][i]
      BY <1>1, <1>2, <1>4, LeaveScope
<1>6. scopes' \in [Thread -> Seq(Scope)] /\ at' \in [Thread -> At]
      BY <1>0, <1>1, <1>4, <1>5 DEF Move, At
<1>7. ScopeOK(t)'
  <2>1. CASE n = 1
    <3>1. Len(scopes'[t]) = 0
          BY <1>5, <2>1
    <3> QED BY <1>4, <3>1 DEF ScopeOK
  <2>2. CASE n = 2
    <3>1. Len(scopes'[t]) = 1 /\ scopes'[t][1] = scopes[t][1]
          BY <1>5, <2>2
    <3>2. /\ scopes[t][1].paths # {} /\ scopes[t][1].got = scopes[t][1].paths
          /\ scopes[t][1].counted = (writer # t)
          BY <1>1, <2>2 DEF ScopeOK
    <3>3. at'[t] = "run" /\ writer' = writer /\ \A i \in 1..1 : i = 1
          BY <1>4
    <3> QED BY <3>1, <3>2, <3>3 DEF ScopeOK
  <2> QED BY <1>3, <2>1, <2>2
<1>8. \A u \in Thread : ScopeOK(u)'
      BY <1>4, <1>7, ScopeStays DEF LockInv
<1>9. \A u \in Thread, q \in Path : Times(u, q)' = Times(u, q)
  <2> SUFFICES ASSUME NEW u \in Thread, NEW q \in Path PROVE Times(u, q)' = Times(u, q)
      OBVIOUS
  <2>1. CASE u # t
        BY <1>4, <2>1 DEF Times
  <2>2. CASE u = t /\ n = 1
    <3>1. Len(scopes'[t]) = 0 /\ Len(scopes[t]) = 1 /\ scopes[t][1].got = {}
          BY <1>0, <1>3, <1>5, <2>2
    <3> QED BY <2>2, <3>1 DEF Times
  <2>3. CASE u = t /\ n = 2
    <3>1. /\ Len(scopes'[t]) = 1 /\ Len(scopes[t]) = 2 /\ scopes[t][2].got = {}
          /\ scopes'[t][1] = scopes[t][1]
          BY <1>0, <1>3, <1>5, <2>3
    <3> QED BY <2>3, <3>1 DEF Times
  <2> QED BY <1>3, <2>1, <2>2, <2>3
<1>10. HolderOK' /\ BoundOK'
       BY <1>0, <1>1, <1>9 DEF HolderOK, BoundOK, NoPaths
<1>11. Waiting' = Waiting
       BY <1>0, <1>4 DEF Waiting
<1>12. Top(t).counted = (writer # t)
  <2>1. n \in 1..n
        BY <1>3
  <2> QED BY <1>1, <1>3, <2>1 DEF ScopeOK
<1>13. CASE ~CountsOut(t) /\ NoScoped /\ UNCHANGED asleep
  <2>1. writer = t
        BY <1>12, <1>13 DEF CountsOut
  <2>2. OpenScopes' = OpenScopes
        BY <1>13 DEF OpenScopes, NoScoped
  <2>3. \A u \in Thread : scopedDepth'[u] = IF writer' = u THEN 0 ELSE Len(scopes'[u])
        BY <1>1, <1>4, <1>13, <2>1 DEF CountOK, NoScoped
  <2>4. CountOK'
        BY <1>0, <1>1, <1>11, <1>13, <2>2, <2>3 DEF CountOK, NoWriter, NoScoped
  <2>5. LockTypeOK'
        BY <1>0, <1>1, <1>6, <1>13 DEF LockTypeOK, NoWriter, NoPaths, NoScoped
  <2> QED BY <1>8, <1>10, <2>4, <2>5 DEF LockInv
<1>14. CASE /\ CountsOut(t)
            /\ scopedDepth' = [scopedDepth EXCEPT ![t] = @ - 1]
            /\ scopedTotal' = scopedTotal - 1
            /\ IF Wakes THEN NotifyAll ELSE UNCHANGED asleep
  <2> DEFINE x == <<t, scopedDepth[t]>>
  <2>1. writer # t /\ scopedDepth[t] = n /\ scopedDepth'[t] = n - 1 /\ n \in Nat /\ n > 0
    <3>1. writer # t
          BY <1>12, <1>14 DEF CountsOut
    <3>2. scopedDepth[t] = n
          BY <1>1, <3>1 DEF CountOK
    <3>3. scopedDepth'[t] = scopedDepth[t] - 1
      <4>1. scopedDepth' = [scopedDepth EXCEPT ![t] = scopedDepth[t] - 1]
            BY <1>14
      <4>2. t \in DOMAIN scopedDepth
            BY <1>1
      <4> QED BY <4>1, <4>2
    <3>4. n \in {1, 2}
          BY <1>3
    <3> HIDE DEF n
    <3>5. n \in Nat /\ n > 0
          BY <3>4
    <3> QED BY <3>1, <3>2, <3>3, <3>5
  <2>2. OpenScopes' = OpenScopes \ {x} /\ x \in OpenScopes
    <3>1. x \in OpenScopes
          BY <1>1, <2>1 DEF OpenScopes
    <3>2. \A s \in Thread \X Nat : s[2] \in 1..scopedDepth'[s[1]] <=> s[2] \in 1..scopedDepth[s[1]] /\ s # x
      <4> SUFFICES ASSUME NEW u \in Thread, NEW i \in Nat
                   PROVE  i \in 1..scopedDepth'[u] <=> i \in 1..scopedDepth[u] /\ <<u, i>> # x
          OBVIOUS
      <4>1. CASE u = t
            BY <2>1, <4>1
      <4>2. CASE u # t
            BY <1>1, <1>14, <4>2
      <4> QED BY <4>1, <4>2
    <3> HIDE DEF x
    <3> QED BY <3>1, <3>2 DEF OpenScopes
  <2> HIDE DEF x
  <2>3. IsFiniteSet(OpenScopes) /\ scopedTotal = Cardinality(OpenScopes)
        BY <1>1 DEF CountOK
  <2>4. IsFiniteSet(OpenScopes \ {x}) /\ Cardinality(OpenScopes \ {x}) = Cardinality(OpenScopes) - 1
        BY <2>2, <2>3, CountDown
  <2>5. IsFiniteSet(OpenScopes') /\ scopedTotal' = Cardinality(OpenScopes')
        BY <1>14, <2>2, <2>3, <2>4
  <2>6. scopedTotal' \in Nat
        BY <2>5, FS_CardinalityType
  <2>7. writer = Null
    <3>1. SUFFICES ASSUME writer # Null PROVE FALSE
          OBVIOUS
    <3>2. scopedDepth[t] = 0
          BY <1>1, <3>1, NoneInside DEF CountOK
    <3> QED BY <2>1, <3>2
  <2>8. \A u \in Thread : scopedDepth'[u] = IF writer' = u THEN 0 ELSE Len(scopes'[u])
        BY <1>1, <1>4, <1>5, <1>14, <2>1, <2>7, LockAssumption DEF CountOK
  <2>9. CountOK'
        BY <1>0, <1>1, <1>11, <2>5, <2>7, <2>8 DEF CountOK, NoWriter
  <2>10. scopedDepth' \in [Thread -> Nat]
         BY <1>1, <1>14, <2>1
  <2>11. asleep' \subseteq Thread
         BY <1>1, <1>14 DEF NotifyAll, LockTypeOK
  <2>12. LockTypeOK'
         BY <1>0, <1>1, <1>6, <2>6, <2>10, <2>11 DEF LockTypeOK, NoWriter, NoPaths
  <2> QED BY <1>8, <1>10, <2>9, <2>12 DEF LockInv
<1> QED BY <1>13, <1>14 DEF ExitScoped

\* Whoever takes paths waits for one that is free, or that a thread has which does not take
\* any or waits for a later one.
LEMMA LockOrder == LockInv => NoPathDeadlock
<1> SUFFICES ASSUME LockInv, NEW S \in (SUBSET Thread) \ {{}},
                    \A t \in S : /\ at[t] = "take"
                                 /\ \A p \in Path : Takes(t, p) => holder[p] \in S \ {t}
             PROVE  FALSE
    BY DEF NoPathDeadlock
<1> DEFINE next(t) == First(Top(t).paths \ Top(t).got)
<1>1. ASSUME NEW t \in S
      PROVE  /\ t \in Thread /\ Len(scopes[t]) \in {1, 2} /\ Top(t) = scopes[t][Len(scopes[t])]
             /\ next(t) \in Path /\ next(t) \in Top(t).paths \ Top(t).got
             /\ holder[next(t)] \in S \ {t}
             /\ \A p \in Top(t).got : p < next(t)
  <2>1. at[t] = "take" /\ t \in Thread
        BY <1>1
  <2>2. /\ Len(scopes[t]) > 0 /\ ScopeOK(t) /\ Top(t) = scopes[t][Len(scopes[t])]
        BY <2>1 DEF LockInv, ScopeOK, Top
  <2>3. /\ Len(scopes[t]) \in {1, 2} /\ Top(t).got \subseteq Top(t).paths /\ Top(t).paths \subseteq Path
        BY <2>1, <2>2, InsideScopes
  <2>4. /\ Top(t).got # Top(t).paths
        /\ \A p \in Top(t).got, q \in Top(t).paths \ Top(t).got : p < q
        BY <2>1, <2>2 DEF ScopeOK
  <2> DEFINE rest == Top(t).paths \ Top(t).got
  <2>5. rest \subseteq Path /\ rest # {}
        BY <2>3, <2>4
  <2> HIDE DEF rest
  <2>6. First(rest) \in rest
        BY <2>5, FirstPath
  <2>7. next(t) \in Top(t).paths \ Top(t).got /\ next(t) \in Path
        BY <2>3, <2>6 DEF rest
  <2>8. Takes(t, next(t))
        BY <2>4 DEF Takes
  <2> HIDE DEF next
  <2> QED BY <1>1, <2>1, <2>2, <2>3, <2>4, <2>7, <2>8
<1> HIDE DEF next
<1>2. ASSUME NEW t \in S, NEW u \in S, holder[next(t)] = u
      PROVE  next(t) < next(u)
  <2>1. next(t) \in Path /\ u # t
        BY <1>1, <1>2, LockAssumption DEF LockInv
  <2>2. Times(u, next(t)) # 0
    <3>1. u \in Thread /\ u # Null
          BY <1>1, LockAssumption
    <3>2. HolderOK
          BY DEF LockInv
    <3> QED BY <1>2, <2>1, <3>1, <3>2 DEF HolderOK
  <2>3. CASE Len(scopes[u]) = 1
    <3>1. next(t) \in Top(u).got
          BY <1>1, <2>2, <2>3 DEF Times
    <3> QED BY <1>1, <3>1
  <2>4. CASE Len(scopes[u]) = 2
    <3>1. next(u) \in scopes[u][1].got
          BY <1>1, <2>4 DEF LockInv, ScopeOK
    <3>2. holder[next(u)] = u
          BY <1>1, <2>4, <3>1, TimesHeld
    <3> QED BY <1>1, <3>2
  <2> QED BY <1>1, <2>3, <2>4
<1>3. PICK m \in Nat : \A p \in Path : holder[p] # Null => p <= m
      BY DEF LockInv, BoundOK
<1> DEFINE N == {next(t) : t \in S}
<1>4. N \subseteq Nat /\ N # {} /\ \A x \in N : x <= m
  <2>1. \A t \in S : next(t) \in Path /\ holder[next(t)] # Null
        BY <1>1, LockAssumption
  <2>2. \A t \in S : next(t) \in Nat /\ next(t) <= m
        BY <1>3, <2>1, LockAssumption
  <2> QED BY <2>2
<1>5. (\A t \in S : next(t) \in N) /\ \A x \in N : \E t \in S : x = next(t)
      OBVIOUS
<1> HIDE DEF N
<1>6. PICK x \in N : \A y \in N : x >= y
      BY <1>4, Greatest
<1>7. PICK t \in S : x = next(t)
      BY <1>5
<1>8. PICK u \in S : u = holder[next(t)]
      BY <1>1
<1>9. next(t) < next(u) /\ next(t) >= next(u) /\ next(t) \in Nat /\ next(u) \in Nat
      BY <1>1, <1>2, <1>5, <1>6, <1>7, <1>8, LockAssumption
<1> QED BY <1>9

-----------------------------------------------------------------------------
(* What a call of the lock does to its thread, and to no other             *)

LockFrame(t) ==
  \A u \in Thread : u # t =>
    scopes'[u] = scopes[u] /\ at'[u] = at[u] /\ (writer' = u <=> writer = u)

\* Entering the coarse lock.
LEMMA EnterCoarseEffect ==
  ASSUME LockInv, NEW t \in Thread, EnterCoarse(t)
  PROVE  /\ LockFrame(t) /\ scopes' = scopes /\ at[t] = "run"
         /\ (at'[t] = "run" /\ writer' = t) \/ at'[t] = "coarse"
<1> USE LockAssumption DEF LockInv, LockTypeOK
<1> QED BY DEF EnterCoarse, LockFrame, CoarseFree, Own, Move

\* Testing the coarse lock again.
LEMMA RetryCoarseEffect ==
  ASSUME LockInv, NEW t \in Thread, NEW timed \in BOOLEAN, RetryCoarse(t, timed)
  PROVE  /\ LockFrame(t) /\ scopes' = scopes /\ at[t] = "coarse"
         /\ (at'[t] = "run" /\ writer' = t) \/ at'[t] = "coarse"
<1> USE LockAssumption DEF LockInv, LockTypeOK
<1> QED BY DEF RetryCoarse, LockFrame, CoarseFree, Own, Move

\* Giving up the coarse lock.
LEMMA TimeOutCoarseEffect ==
  ASSUME LockInv, NEW t \in Thread, TimeOutCoarse(t)
  PROVE  LockFrame(t) /\ scopes' = scopes /\ at[t] = "coarse" /\ at'[t] = "run" /\ writer' = writer
<1> USE LockAssumption DEF LockInv, LockTypeOK
<1> QED BY DEF TimeOutCoarse, LockFrame, Move

\* Leaving the coarse lock.
LEMMA ExitCoarseEffect ==
  ASSUME LockInv, NEW t \in Thread, ExitCoarse(t)
  PROVE  LockFrame(t) /\ scopes' = scopes /\ at' = at /\ at[t] = "run" /\ writer = t
<1> USE LockAssumption DEF LockInv, LockTypeOK
<1> QED BY DEF ExitCoarse, LockFrame

\* The scope of t on the paths ps is open.
IsOpened(t, ps) ==
  /\ at'[t] = "take" /\ Len(scopes'[t]) = Len(scopes[t]) + 1
  /\ scopes'[t][Len(scopes'[t])].paths = ps
  /\ \A i \in 1..Len(scopes[t]) : scopes'[t][i] = scopes[t][i]

\* The scopes of the thread gain a new innermost one.
LEMMA OpenedEffect ==
  ASSUME LockInv, NEW t \in Thread, NEW ps \in SUBSET Path, NEW b \in BOOLEAN,
         Opened(t, ps, b), UNCHANGED writer
  PROVE  LockFrame(t) /\ IsOpened(t, ps)
<1> DEFINE c == [paths |-> ps, got |-> {}, counted |-> b]
<1>1. c \in Scope /\ c.paths = ps /\ scopes \in [Thread -> Seq(Scope)] /\ at \in [Thread -> At]
      BY DEF Scope, LockInv, LockTypeOK
<1>2. scopes' = [scopes EXCEPT ![t] = Append(@, c)] /\ at' = [at EXCEPT ![t] = "take"]
      BY DEF Opened, Move
<1> HIDE DEF c
<1>3. LockFrame(t) /\ at'[t] = "take" /\ scopes'[t] = Append(scopes[t], c)
      BY <1>1, <1>2 DEF LockFrame
<1>4. /\ Append(scopes[t], c) \in Seq(Scope) /\ Len(Append(scopes[t], c)) = Len(scopes[t]) + 1
      /\ Len(scopes[t]) \in Nat /\ Append(scopes[t], c)[Len(scopes[t]) + 1] = c
      /\ \A i \in 1..Len(scopes[t]) : Append(scopes[t], c)[i] = scopes[t][i]
      BY <1>1, AppendScope
<1> QED BY <1>1, <1>3, <1>4 DEF IsOpened

\* Opening a scope, or waiting to.
LEMMA EnterScopedEffect ==
  ASSUME LockInv, NEW t \in Thread, NEW ps \in SUBSET Path, EnterScoped(t, ps)
  PROVE  /\ LockFrame(t) /\ at[t] = "run" /\ writer' = writer
         /\ \/ IsOpened(t, ps)
            \/ at'[t] = "scoped" /\ scopes' = scopes /\ Len(scopes[t]) = 0 /\ writer # t
<1>0. at[t] = "run" /\ writer' = writer /\ at \in [Thread -> At]
      BY DEF EnterScoped, NoWriter, LockInv, LockTypeOK
<1>1. CASE Opened(t, ps, FALSE) \/ Opened(t, ps, TRUE)
      BY <1>0, <1>1, OpenedEffect
<1>2. CASE writer # t /\ ScopedBlocked(t) /\ Move(t, "scoped") /\ UNCHANGED scopes
  <2>1. Len(scopes[t]) = 0
        BY <1>2, BlockedOutside
  <2> QED BY <1>0, <1>2, <2>1 DEF LockFrame, Move
<1> QED BY <1>1, <1>2 DEF EnterScoped, Counted

\* Testing again whether a scope may be opened.
LEMMA RetryScopedEffect ==
  ASSUME LockInv, NEW t \in Thread, NEW ps \in SUBSET Path, RetryScoped(t, ps)
  PROVE  /\ LockFrame(t) /\ at[t] = "scoped" /\ writer' = writer
         /\ IsOpened(t, ps) \/ (at' = at /\ scopes' = scopes)
<1>0. at[t] = "scoped" /\ writer' = writer
      BY DEF RetryScoped, NoWriter
<1>1. CASE Opened(t, ps, TRUE)
      BY <1>0, <1>1, OpenedEffect
<1>2. CASE UNCHANGED <<at, scopes>>
      BY <1>0, <1>2 DEF LockFrame
<1> QED BY <1>1, <1>2 DEF RetryScoped, Counted

\* The scopes of t stay, but for what the innermost one has.
SameScopes(t) ==
  /\ Len(scopes'[t]) = Len(scopes[t])
  /\ \A i \in 1..Len(scopes[t]) : scopes'[t][i].paths = scopes[t][i].paths

\* A change of the innermost scope changes what it has, and nothing else.
LEMMA TopEffect ==
  ASSUME LockInv, NEW t \in Thread, Len(scopes[t]) > 0, NEW got \in SUBSET Path,
         SetTop(t, [Top(t) EXCEPT !.got = got]), NEW a, Move(t, a), UNCHANGED writer
  PROVE  LockFrame(t) /\ SameScopes(t) /\ at'[t] = a
<1>1. /\ Len(scopes'[t]) = Len(scopes[t])
      /\ \A u \in Thread : u # t => scopes'[u] = scopes[u]
      /\ scopes'[t][Len(scopes[t])].paths = Top(t).paths
      /\ Len(scopes[t]) = 2 => scopes'[t][1] = scopes[t][1]
      BY TopChanges
<1>2. Len(scopes[t]) \in {1, 2} /\ Top(t) = scopes[t][Len(scopes[t])]
      BY InsideScopes DEF Top
<1>3. SameScopes(t)
  <2>1. CASE Len(scopes[t]) = 1
        BY <1>1, <1>2, <2>1 DEF SameScopes
  <2>2. CASE Len(scopes[t]) = 2
    <3>1. \A i \in 1..2 : i = 1 \/ i = 2
          OBVIOUS
    <3> QED BY <1>1, <1>2, <2>2, <3>1 DEF SameScopes
  <2> QED BY <1>2, <2>1, <2>2
<1>4. at \in [Thread -> At]
      BY DEF LockInv, LockTypeOK
<1> QED BY <1>1, <1>3, <1>4 DEF LockFrame, Move

\* Taking the lock of a path.
LEMMA TakePathEffect ==
  ASSUME LockInv, NEW t \in Thread, NEW p \in Path, TakePath(t, p)
  PROVE  LockFrame(t) /\ SameScopes(t) /\ at[t] = "take" /\ at'[t] \in {"run", "take"} /\ writer' = writer
<1> DEFINE got == Top(t).got \cup {p}
           a == IF got = Top(t).paths THEN "run" ELSE "take"
<1>1. at[t] = "take" /\ SetTop(t, [Top(t) EXCEPT !.got = got]) /\ Move(t, a) /\ writer' = writer
      BY DEF TakePath, NoWriter
<1>2. Len(scopes[t]) > 0
      BY <1>1 DEF LockInv, ScopeOK
<1>3. Top(t).got \subseteq Top(t).paths /\ Top(t).paths \subseteq Path
      BY <1>2, InsideScopes
<1>4. got \in SUBSET Path /\ a \in {"run", "take"}
      BY <1>3
<1> HIDE DEF got, a
<1> QED BY <1>1, <1>2, <1>4, TopEffect

\* Releasing the lock of a path.
LEMMA DropPathEffect ==
  ASSUME LockInv, NEW t \in Thread, DropPath(t)
  PROVE  LockFrame(t) /\ SameScopes(t) /\ at'[t] = "drop" /\ writer' = writer
<1> DEFINE p == Last(Top(t).got)
           got == Top(t).got \ {p}
<1>1. /\ scopes[t] # <<>> /\ SetTop(t, [Top(t) EXCEPT !.got = @ \ {p}]) /\ Move(t, "drop")
      /\ writer' = writer /\ scopes[t] \in Seq(Scope)
      BY DEF DropPath, NoWriter, LockInv, LockTypeOK
<1>2. Len(scopes[t]) > 0
      BY <1>1
<1>3. Top(t) \in Scope /\ Top(t).got \subseteq Top(t).paths /\ Top(t).paths \subseteq Path
      BY <1>2, InsideScopes
<1> HIDE DEF p
<1>4. got \in SUBSET Path /\ SetTop(t, [Top(t) EXCEPT !.got = got])
      BY <1>1, <1>3 DEF Scope
<1> HIDE DEF got
<1> QED BY <1>1, <1>2, <1>4, TopEffect

\* Leaving a scope.
LEMMA ExitScopedEffect ==
  ASSUME LockInv, NEW t \in Thread, ExitScoped(t)
  PROVE  /\ LockFrame(t) /\ at[t] = "drop" /\ at'[t] = "run" /\ writer' = writer
         /\ Len(scopes[t]) \in {1, 2} /\ Len(scopes'[t]) = Len(scopes[t]) - 1
<1>1. /\ at[t] = "drop" /\ Move(t, "run") /\ writer' = writer
      /\ scopes' = [scopes EXCEPT ![t] = SubSeq(@, 1, Len(@) - 1)]
      /\ scopes \in [Thread -> Seq(Scope)] /\ at \in [Thread -> At]
      BY DEF ExitScoped, NoWriter, LockInv, LockTypeOK
<1>2. Len(scopes[t]) > 0
      BY <1>1 DEF LockInv, ScopeOK
<1>3. Len(scopes[t]) \in {1, 2} /\ scopes[t] \in Seq(Scope)
      BY <1>2, InsideScopes
<1>4. scopes'[t] = SubSeq(scopes[t], 1, Len(scopes[t]) - 1)
      BY <1>1
<1>5. Len(scopes'[t]) = Len(scopes[t]) - 1
      BY <1>2, <1>3, <1>4, LeaveScope
<1> QED BY <1>1, <1>3, <1>5 DEF LockFrame, Move

-----------------------------------------------------------------------------
(* Places: types, locks and where the threads are                          *)

Places == TypeOK /\ LockInv /\ PlaceInv

JobTypeOK ==
  /\ job \in [Thread -> Job]
  /\ result \in [Thread -> Result]
  /\ tracked \in [Thread -> [rev : Nat \X Nat, seen : [Path -> Text]] \cup {Null}]
  /\ rounds \in [Thread -> 0..MaxVerify]
  /\ wave \in Wave \cup {Null}
  /\ waveOwner \in Thread \cup {Null}

\* A step of t leaves the other threads where they are.
JobFrame(t) ==
  \A u \in Thread : u # t =>
    /\ job'[u] = job[u] /\ tx'[u] = tx[u]
    /\ waveOwner' = u <=> waveOwner = u
    /\ waveOwner = u => wave' = wave
    /\ InWave(u) => InWave(u)'

\* A step of one thread keeps the places if the thread itself is in its place.
LEMMA PlacesStep ==
  ASSUME Places, NEW t \in Thread, LockInv', PatchTypeOK', JobTypeOK',
         LockFrame(t), JobFrame(t), PlaceOK(t)'
  PROVE  Places'
<1>1. TypeOK'
      BY DEF TypeOK, LockInv, JobTypeOK
<1>2. ASSUME NEW u \in Thread, u # t PROVE PlaceOK(u)'
  <2>1. /\ scopes'[u] = scopes[u] /\ at'[u] = at[u] /\ (writer' = u <=> writer = u)
        /\ job'[u] = job[u] /\ tx'[u] = tx[u] /\ (waveOwner' = u <=> waveOwner = u)
        /\ waveOwner = u => wave' = wave
        /\ InWave(u) => InWave(u)'
        BY <1>2 DEF LockFrame, JobFrame
  <2>2. PlaceOK(u)
        BY DEF Places, PlaceInv
  <2> QED BY <2>1, <2>2 DEF PlaceOK, Top
<1>3. PlaceInv'
      BY <1>2 DEF PlaceInv
<1> QED BY <1>1, <1>3 DEF Places

\* A step outside the lock.
LEMMA LockStays ==
  ASSUME LockInv, UNCHANGED lockVars
  PROVE  LockInv' /\ \A t \in Thread : LockFrame(t)
<1>1. \A t \in Thread : LockFrame(t)
      BY DEF LockFrame, lockVars
<1>2. \A t \in Thread : ScopeOK(t)'
      BY ScopeStays DEF LockInv, lockVars
<1>3. OpenScopes' = OpenScopes /\ Waiting' = Waiting
      BY DEF OpenScopes, Waiting, lockVars
<1>4. CountOK'
      BY <1>3 DEF LockInv, CountOK, lockVars
<1>5. LockTypeOK'
      BY DEF LockInv, LockTypeOK, lockVars
<1>6. HolderOK' /\ BoundOK'
      BY PathsStay DEF LockInv, lockVars, NoPaths
<1> QED BY <1>1, <1>2, <1>4, <1>5, <1>6 DEF LockInv

\* The empty function is a partial one.
LEMMA NothingIsPartial == \A S : <<>> \in Partial(S) /\ DOMAIN <<>> = {}
<1> SUFFICES ASSUME NEW S PROVE <<>> \in Partial(S) /\ DOMAIN <<>> = {}
    OBVIOUS
<1>1. {} \in SUBSET Path /\ <<>> \in [{} -> S] /\ DOMAIN <<>> = {}
      OBVIOUS
<1> QED BY <1>1 DEF Partial

\* Partial functions are functions on a set of paths.
LEMMA PartialFunction ==
  ASSUME NEW S, NEW f
  PROVE  f \in Partial(S) <=> /\ f = [p \in DOMAIN f |-> f[p]] /\ DOMAIN f \subseteq Path
                              /\ \A p \in DOMAIN f : f[p] \in S
<1>1. ASSUME f \in Partial(S)
      PROVE  f = [p \in DOMAIN f |-> f[p]] /\ DOMAIN f \subseteq Path /\ \A p \in DOMAIN f : f[p] \in S
  <2>1. PICK D \in SUBSET Path : f \in [D -> S]
        BY <1>1 DEF Partial
  <2> QED BY <2>1
<1>2. ASSUME f = [p \in DOMAIN f |-> f[p]], DOMAIN f \subseteq Path, \A p \in DOMAIN f : f[p] \in S
      PROVE  f \in Partial(S)
  <2>1. f \in [DOMAIN f -> S] /\ DOMAIN f \in SUBSET Path
        BY <1>2
  <2> QED BY <2>1 DEF Partial
<1> QED BY <1>1, <1>2

\* No transaction and no job are typed.
LEMMA RestingTypes == NoTx \in Tx /\ \A k \in Kind : NoJob(k) \in Job
<1>1. <<>> \in Partial([expected : Text, content : Text]) /\ <<>> \in Partial(Text)
      BY NothingIsPartial
<1>2. NoTx \in Tx
      BY <1>1 DEF NoTx, Tx, TxStep, Impact
<1>3. \A k \in Kind : NoJob(k) \in Job
      BY <1>1 DEF NoJob, Job, PC
<1> QED BY <1>2, <1>3

\* Everybody is in his place at first.
LEMMA PlacesInit == Init => Places
<1> SUFFICES ASSUME Init PROVE Places
    OBVIOUS
<1>1. LockInv
      BY LockInitially DEF Init
<1>2. PICK kind \in [Thread -> Kind] : job = [t \in Thread |-> NoJob(kind[t])]
      BY DEF Init
<1>3. job \in [Thread -> Job]
      BY <1>2, RestingTypes
<1>4. PatchTypeOK
  <2>1. Absent \in Text /\ {} \in Text
        BY DEF Text
  <2>2. files \in [Path -> Text] /\ owner \in Owner
        BY <2>1 DEF Init, PatchInit, Owner, NoChange
  <2>3. tx \in [Thread -> Tx] /\ faults \in 0..MaxFaults
        BY RestingTypes, TextAssumption DEF Init, PatchInit
  <2> QED BY <2>2, <2>3 DEF PatchTypeOK
<1>5. TypeOK
  <2>1. result \in [Thread -> Result]
        BY DEF Init, Result
  <2>2. rounds \in [Thread -> 0..MaxVerify]
        BY RoleAssumption DEF Init
  <2> QED BY <1>1, <1>3, <1>4, <2>1, <2>2 DEF Init, TypeOK, LockInv
<1>6. ASSUME NEW t \in Thread PROVE PlaceOK(t)
  <2>1. job[t].pc = "idle" /\ tx[t].step = "none"
        BY <1>2 DEF NoJob, NoTx, Init, PatchInit
  <2>2. at[t] = "run" /\ Len(scopes[t]) = 0 /\ waveOwner # t
        BY LockAssumption DEF Init, LockInit
  <2> QED BY <2>1, <2>2 DEF PlaceOK
<1> QED BY <1>1, <1>5, <1>6 DEF Places, PlaceInv

-----------------------------------------------------------------------------
(* Steps of the jobs that touch neither the lock nor the files             *)

\* What a step does that moves a job from one place to another.
LEMMA JobMoves ==
  ASSUME Places, NEW t \in Thread, NoLock, NoPatch, JobTypeOK', JobFrame(t), PlaceOK(t)'
  PROVE  Places'
<1>1. LockInv' /\ LockFrame(t)
      BY LockStays DEF Places, NoLock
<1>2. PatchTypeOK'
      BY DEF Places, TypeOK, PatchTypeOK, NoPatch, patchVars
<1>3. tx' = tx
      BY DEF NoPatch, patchVars
<1> QED BY <1>1, <1>2, PlacesStep

\* The types of a job before and after.
LEMMA GotoTypes ==
  ASSUME job \in [Thread -> Job], NEW t \in Thread, NEW pc \in PC
  PROVE  /\ Goto(t, pc) => /\ job' \in [Thread -> Job]
                           /\ job'[t].pc = pc /\ job'[t].kind = job[t].kind
                           /\ job'[t].seen = job[t].seen /\ job'[t].rev = job[t].rev
                           /\ \A u \in Thread : u # t => job'[u] = job[u]
         /\ Idle(t) => /\ job' \in [Thread -> Job]
                       /\ job'[t].pc = "idle" /\ job'[t].kind = job[t].kind
                       /\ job'[t].seen = <<>>
                       /\ \A u \in Thread : u # t => job'[u] = job[u]
<1>1. job[t] \in Job /\ job[t].kind \in Kind
      BY DEF Job
<1>2. NoJob(job[t].kind) \in Job
      BY <1>1, RestingTypes
<1>3. ASSUME Goto(t, pc)
      PROVE  /\ job' \in [Thread -> Job]
             /\ job'[t].pc = pc /\ job'[t].kind = job[t].kind
             /\ job'[t].seen = job[t].seen /\ job'[t].rev = job[t].rev
             /\ \A u \in Thread : u # t => job'[u] = job[u]
      BY <1>1, <1>3 DEF Goto, Job
<1>4. ASSUME Idle(t)
      PROVE  /\ job' \in [Thread -> Job]
             /\ job'[t].pc = "idle" /\ job'[t].kind = job[t].kind
             /\ job'[t].seen = <<>>
             /\ \A u \in Thread : u # t => job'[u] = job[u]
      BY <1>2, <1>4 DEF Idle, NoJob
<1> QED BY <1>3, <1>4

\* The facts about the thread that moves.
LEMMA Here ==
  ASSUME Places, NEW t \in Thread
  PROVE  /\ PlaceOK(t) /\ ScopeOK(t) /\ LockInv /\ JobTypeOK /\ PatchTypeOK /\ LockTypeOK
         /\ job \in [Thread -> Job] /\ job[t] \in Job /\ job[t].kind \in Kind
         /\ tx \in [Thread -> Tx] /\ tx[t] \in Tx /\ at \in [Thread -> At]
         /\ scopes[t] \in Seq(Scope) /\ Len(scopes[t]) \in Nat
         /\ Target[t] \subseteq Path /\ Target[t] # {} /\ t # Null
<1>1. /\ PlaceOK(t) /\ ScopeOK(t) /\ LockInv /\ JobTypeOK /\ PatchTypeOK /\ LockTypeOK
      BY DEF Places, PlaceInv, TypeOK, LockInv, JobTypeOK
<1>2. job \in [Thread -> Job] /\ tx \in [Thread -> Tx] /\ at \in [Thread -> At]
      /\ scopes \in [Thread -> Seq(Scope)]
      BY <1>1 DEF JobTypeOK, PatchTypeOK, LockTypeOK
<1>3. job[t] \in Job /\ job[t].kind \in Kind /\ tx[t] \in Tx /\ scopes[t] \in Seq(Scope)
      BY <1>2 DEF Job
<1> QED BY <1>1, <1>2, <1>3, RoleAssumption, LockAssumption

\* A job starts.
LEMMA StartPlaces ==
  ASSUME Places, NEW t \in Thread, Start(t)
  PROVE  Places'
<1> DEFINE k == job[t].kind
<1>0. /\ On(t, "idle") /\ Goto(t, FirstPC(k)) /\ NoLock /\ NoPatch /\ NoWave
      /\ UNCHANGED <<result, tracked>>
      /\ k = "verify" => rounds[t] < MaxVerify
      /\ rounds' = IF k = "verify" THEN [rounds EXCEPT ![t] = @ + 1] ELSE rounds
      BY DEF Start
<1>1. /\ PlaceOK(t) /\ JobTypeOK /\ job \in [Thread -> Job] /\ k \in Kind
      BY Here
<1>2. FirstPC(k) = IF k = "edit" THEN "open" ELSE IF k = "patch" THEN "read"
                   ELSE IF k = "generate" THEN "wave" ELSE "gate"
      BY <1>1 DEF FirstPC, Kind
<1>3. /\ job' \in [Thread -> Job] /\ job'[t].pc = FirstPC(k) /\ job'[t].kind = k
      /\ \A u \in Thread : u # t => job'[u] = job[u]
      BY <1>0, <1>1, <1>2, GotoTypes DEF PC
<1>4. /\ wave' = wave /\ waveOwner' = waveOwner /\ at' = at /\ scopes' = scopes /\ writer' = writer
      /\ tx' = tx
      BY <1>0 DEF NoWave, NoLock, NoPatch, lockVars, patchVars
<1>5. rounds' \in [Thread -> 0..MaxVerify]
      BY <1>0, <1>1, RoleAssumption DEF JobTypeOK
<1>6. JobTypeOK'
      BY <1>0, <1>1, <1>3, <1>4, <1>5 DEF JobTypeOK
<1>7. JobFrame(t)
      BY <1>3, <1>4 DEF JobFrame, InWave
<1>8. PlaceOK(t)'
      BY <1>0, <1>1, <1>2, <1>3, <1>4 DEF PlaceOK, Kind, On
<1> QED BY <1>0, <1>6, <1>7, <1>8, JobMoves

\* A generator joins the wave.
LEMMA JoinWavePlaces ==
  ASSUME Places, NEW t \in Thread, JoinWave(t)
  PROVE  Places'
<1>0. /\ On(t, "wave") /\ waveOwner = Null /\ wave # Null
      /\ wave' = [wave EXCEPT !.active = @ \cup {t}]
      /\ Goto(t, "open") /\ NoLock /\ NoPatch /\ NoEnd /\ UNCHANGED waveOwner
      BY DEF JoinWave
<1>1. /\ PlaceOK(t) /\ JobTypeOK /\ job \in [Thread -> Job] /\ t # Null
      BY Here
<1>2. wave \in Wave /\ wave' \in Wave /\ wave'.active = wave.active \cup {t}
      BY <1>0, <1>1 DEF JobTypeOK, Wave
<1>3. /\ job' \in [Thread -> Job] /\ job'[t].pc = "open" /\ job'[t].kind = job[t].kind
      /\ \A u \in Thread : u # t => job'[u] = job[u]
      BY <1>0, <1>1, GotoTypes DEF PC
<1>4. at' = at /\ scopes' = scopes /\ writer' = writer /\ tx' = tx /\ waveOwner' = waveOwner
      BY <1>0 DEF NoLock, NoPatch, lockVars, patchVars
<1>5. JobTypeOK'
      BY <1>0, <1>1, <1>2, <1>3, <1>4 DEF JobTypeOK, NoEnd
<1>6. wave' # Null
      BY <1>2, WaveAssumption
<1>7. JobFrame(t)
      BY <1>0, <1>2, <1>3, <1>4, <1>6, LockAssumption DEF JobFrame, InWave
<1>8. PlaceOK(t)'
      BY <1>0, <1>1, <1>2, <1>3, <1>4, <1>6 DEF PlaceOK, On, InWave
<1> QED BY <1>0, <1>5, <1>7, <1>8, JobMoves

\* A generator is to take the snapshot of a new wave.
LEMMA LockWavePlaces ==
  ASSUME Places, NEW t \in Thread, LockWave(t)
  PROVE  Places'
<1>0. /\ On(t, "wave") /\ waveOwner = Null /\ wave = Null /\ waveOwner' = t
      /\ Goto(t, "snap") /\ NoLock /\ NoPatch /\ NoEnd /\ UNCHANGED wave
      BY DEF LockWave
<1>1. /\ PlaceOK(t) /\ JobTypeOK /\ job \in [Thread -> Job] /\ t # Null
      BY Here
<1>3. /\ job' \in [Thread -> Job] /\ job'[t].pc = "snap" /\ job'[t].kind = job[t].kind
      /\ \A u \in Thread : u # t => job'[u] = job[u]
      BY <1>0, <1>1, GotoTypes DEF PC
<1>4. at' = at /\ scopes' = scopes /\ writer' = writer /\ tx' = tx
      BY <1>0 DEF NoLock, NoPatch, lockVars, patchVars
<1>5. JobTypeOK'
      BY <1>0, <1>1, <1>3 DEF JobTypeOK, NoEnd
<1>7. JobFrame(t)
      BY <1>0, <1>3, <1>4, LockAssumption DEF JobFrame, InWave
<1>8. PlaceOK(t)'
      BY <1>0, <1>1, <1>3, <1>4 DEF PlaceOK, On
<1> QED BY <1>0, <1>5, <1>7, <1>8, JobMoves

\* A generator leaves the wave.
LEMMA LeaveWavePlaces ==
  ASSUME Places, NEW t \in Thread, LeaveWave(t)
  PROVE  Places'
<1>0. /\ On(t, "leave") /\ scopes[t] = <<>> /\ waveOwner = Null /\ InWave(t)
      /\ wave' = IF wave.active = {t} THEN Null ELSE [wave EXCEPT !.active = @ \ {t}]
      /\ Idle(t) /\ NoLock /\ NoPatch /\ NoEnd /\ UNCHANGED waveOwner
      BY DEF LeaveWave
<1>1. /\ PlaceOK(t) /\ JobTypeOK /\ job \in [Thread -> Job] /\ t # Null
      BY Here
<1>2. wave \in Wave /\ wave # Null
      BY <1>0, <1>1 DEF JobTypeOK, InWave
<1>3. /\ job' \in [Thread -> Job] /\ job'[t].pc = "idle" /\ job'[t].kind = job[t].kind
      /\ \A u \in Thread : u # t => job'[u] = job[u]
      BY <1>0, <1>1, GotoTypes DEF PC
<1>4. at' = at /\ scopes' = scopes /\ writer' = writer /\ tx' = tx /\ waveOwner' = waveOwner
      BY <1>0 DEF NoLock, NoPatch, lockVars, patchVars
<1>5. \/ wave.active = {t} /\ wave' = Null
      \/ wave' \in Wave /\ wave'.active = wave.active \ {t}
      BY <1>0, <1>2 DEF Wave
<1>6. JobTypeOK'
      BY <1>0, <1>1, <1>3, <1>4, <1>5 DEF JobTypeOK, NoEnd
<1>7. JobFrame(t)
  <2> SUFFICES ASSUME NEW u \in Thread, u # t, InWave(u) PROVE InWave(u)'
      BY <1>0, <1>3, <1>4, LockAssumption DEF JobFrame
  <2>1. u \in wave.active
        BY <1>2 DEF InWave
  <2>2. wave' \in Wave /\ u \in wave'.active
        BY <1>5, <2>1
  <2> QED BY <2>2, WaveAssumption DEF InWave
<1>8. PlaceOK(t)'
  <2>1. Len(scopes[t]) = 0
        BY <1>0
  <2> QED BY <1>0, <1>1, <1>3, <1>4, <2>1 DEF PlaceOK, On
<1> QED BY <1>0, <1>6, <1>7, <1>8, JobMoves

\* A verifier notes the revision.
LEMMA NoteRevisionPlaces ==
  ASSUME Places, NEW t \in Thread, NoteRevision(t)
  PROVE  Places'
<1>0. /\ On(t, "rev")
      /\ job' = [job EXCEPT ![t].pc = "read", ![t].rev = <<owner.id, owner.revision>>]
      /\ NoLock /\ NoPatch /\ NoWave /\ NoEnd
      BY DEF NoteRevision
<1>1. /\ PlaceOK(t) /\ JobTypeOK /\ job \in [Thread -> Job] /\ job[t] \in Job /\ owner \in Owner
      BY Here DEF PatchTypeOK
<1>2. <<owner.id, owner.revision>> \in Nat \X Nat
      BY <1>1 DEF Owner
<1>3. /\ job' \in [Thread -> Job] /\ job'[t].pc = "read" /\ job'[t].kind = job[t].kind
      /\ \A u \in Thread : u # t => job'[u] = job[u]
      BY <1>0, <1>1, <1>2 DEF Job, PC
<1>4. /\ wave' = wave /\ waveOwner' = waveOwner /\ at' = at /\ scopes' = scopes /\ writer' = writer
      /\ tx' = tx
      BY <1>0 DEF NoWave, NoLock, NoPatch, lockVars, patchVars
<1>5. JobTypeOK'
      BY <1>0, <1>1, <1>3, <1>4 DEF JobTypeOK, NoEnd
<1>7. JobFrame(t)
      BY <1>3, <1>4 DEF JobFrame, InWave
<1>8. job[t].kind = "verify"
      BY <1>0, <1>1 DEF PlaceOK, On
<1>9. PlaceOK(t)'
      BY <1>0, <1>1, <1>3, <1>4, <1>8 DEF PlaceOK, On
<1> QED BY <1>0, <1>5, <1>7, <1>9, JobMoves

\* What a job has read are texts of paths.
LEMMA SeenTypes ==
  ASSUME Places, NEW t \in Thread
  PROVE  /\ job[t].seen = [p \in DOMAIN job[t].seen |-> job[t].seen[p]]
         /\ DOMAIN job[t].seen \subseteq Path
         /\ \A p \in DOMAIN job[t].seen : job[t].seen[p] \in Text
<1>1. job[t].seen \in Partial(Text)
      BY Here DEF Job
<1> QED BY <1>1, PartialFunction

\* A file is read: the effect on the job.
LEMMA ReadFileEffect ==
  ASSUME Places, NEW t \in Thread, ReadFile(t)
  PROVE  \E p \in Unread(t) :
           /\ p \in Path /\ On(t, "read") /\ files[p] \in Text
           /\ job' \in [Thread -> Job] /\ job'[t].pc = "read" /\ job'[t].kind = job[t].kind
           /\ job'[t].rev = job[t].rev
           /\ DOMAIN job'[t].seen = DOMAIN job[t].seen \cup {p}
           /\ job'[t].seen[p] = files[p]
           /\ \A q \in DOMAIN job[t].seen : q # p => job'[t].seen[q] = job[t].seen[q]
           /\ \A u \in Thread : u # t => job'[u] = job[u]
<1> DEFINE p == First(Unread(t))
           seen == job[t].seen
           new == [q \in DOMAIN seen \cup {p} |-> IF q = p THEN files[p] ELSE seen[q]]
<1>1. /\ job \in [Thread -> Job] /\ job[t] \in Job /\ Target[t] \subseteq Path
      /\ files \in [Path -> Text]
      BY Here DEF PatchTypeOK
<1>2. Unread(t) \subseteq Path /\ Unread(t) # {}
      BY <1>1 DEF ReadFile, Unread, ToRead
<1>3. p \in Unread(t) /\ p \in Path
      BY <1>2, FirstPath
<1>4. job' = [job EXCEPT ![t].seen = new] /\ On(t, "read")
      BY <1>1 DEF ReadFile
<1> HIDE DEF p
<1>5. DOMAIN seen \subseteq Path /\ \A q \in DOMAIN seen : seen[q] \in Text
      BY SeenTypes
<1>6. /\ new = [q \in DOMAIN new |-> new[q]] /\ DOMAIN new = DOMAIN seen \cup {p}
      /\ DOMAIN new \subseteq Path /\ \A q \in DOMAIN new : new[q] \in Text
      /\ new[p] = files[p] /\ \A q \in DOMAIN seen : q # p => new[q] = seen[q]
      BY <1>1, <1>3, <1>5
<1> HIDE DEF new
<1>7. new \in Partial(Text)
      BY <1>6, PartialFunction
<1>8. /\ job' \in [Thread -> Job] /\ job'[t].pc = "read" /\ job'[t].kind = job[t].kind
      /\ job'[t].rev = job[t].rev /\ job'[t].seen = new
      /\ \A u \in Thread : u # t => job'[u] = job[u]
      BY <1>1, <1>4, <1>7 DEF Job, On
<1> QED BY <1>1, <1>3, <1>4, <1>6, <1>8

\* A file is read.
LEMMA ReadFilePlaces ==
  ASSUME Places, NEW t \in Thread, ReadFile(t)
  PROVE  Places'
<1>0. NoLock /\ NoPatch /\ NoWave /\ NoEnd
      BY DEF ReadFile
<1>1. PlaceOK(t) /\ JobTypeOK
      BY Here
<1>2. /\ On(t, "read") /\ job' \in [Thread -> Job] /\ job'[t].pc = "read" /\ job'[t].kind = job[t].kind
      /\ \A u \in Thread : u # t => job'[u] = job[u]
      BY ReadFileEffect
<1>3. /\ wave' = wave /\ waveOwner' = waveOwner /\ at' = at /\ scopes' = scopes /\ writer' = writer
      /\ tx' = tx
      BY <1>0 DEF NoWave, NoLock, NoPatch, lockVars, patchVars
<1>4. JobTypeOK'
      BY <1>0, <1>1, <1>2, <1>3 DEF JobTypeOK, NoEnd
<1>5. JobFrame(t)
      BY <1>2, <1>3 DEF JobFrame, InWave
<1>6. PlaceOK(t)'
      BY <1>1, <1>2, <1>3 DEF PlaceOK, On, InWave, Top
<1> QED BY <1>0, <1>4, <1>5, <1>6, JobMoves

\* What a job that has read everything has read.
LEMMA AllRead ==
  ASSUME Places, NEW t \in Thread, NEW k, HasRead(t, k)
  PROVE  /\ On(t, "read") /\ job[t].kind \in k /\ waveOwner # t
         /\ job[t].kind = "verify" => DOMAIN job[t].seen = Path
         /\ job[t].kind # "verify" => Target[t] \subseteq DOMAIN job[t].seen
         /\ DOMAIN job[t].seen \subseteq Path
<1>1. DOMAIN job[t].seen \subseteq Path
      BY SeenTypes
<1> QED BY <1>1 DEF HasRead, Unread, ToRead

\* A verification ends.
LEMMA TrackPlaces ==
  ASSUME Places, NEW t \in Thread, Track(t)
  PROVE  Places'
<1>0. /\ HasRead(t, {"verify"}) /\ Goto(t, "leave")
      /\ NoLock /\ NoPatch /\ NoWave /\ UNCHANGED <<result, rounds>>
      /\ tracked' = IF job[t].rev = <<owner.id, owner.revision>>
                    THEN [tracked EXCEPT ![t] = [rev |-> job[t].rev, seen |-> job[t].seen]]
                    ELSE tracked
      BY DEF Track
<1>1. PlaceOK(t) /\ JobTypeOK /\ job \in [Thread -> Job] /\ job[t] \in Job
      BY Here
<1>2. job[t].kind = "verify" /\ DOMAIN job[t].seen = Path /\ On(t, "read")
      BY <1>0, AllRead
<1>3. /\ job' \in [Thread -> Job] /\ job'[t].pc = "leave" /\ job'[t].kind = job[t].kind
      /\ \A u \in Thread : u # t => job'[u] = job[u]
      BY <1>0, <1>1, GotoTypes DEF PC
<1>4. /\ wave' = wave /\ waveOwner' = waveOwner /\ at' = at /\ scopes' = scopes /\ writer' = writer
      /\ tx' = tx
      BY <1>0 DEF NoWave, NoLock, NoPatch, lockVars, patchVars
<1>5. job[t].seen \in [Path -> Text] /\ job[t].rev \in Nat \X Nat
      BY <1>1, <1>2, SeenTypes DEF Job
<1>6. tracked' \in [Thread -> [rev : Nat \X Nat, seen : [Path -> Text]] \cup {Null}]
  <2>1. [rev |-> job[t].rev, seen |-> job[t].seen] \in [rev : Nat \X Nat, seen : [Path -> Text]]
        BY <1>5
  <2> QED BY <1>0, <1>1, <2>1 DEF JobTypeOK
<1>7. JobTypeOK'
      BY <1>0, <1>1, <1>3, <1>4, <1>6 DEF JobTypeOK
<1>8. JobFrame(t)
      BY <1>3, <1>4 DEF JobFrame, InWave
<1>9. PlaceOK(t)'
      BY <1>1, <1>2, <1>3, <1>4 DEF PlaceOK, On
<1> QED BY <1>0, <1>7, <1>8, <1>9, JobMoves

\* A job ends where it has read, without a transaction.
LEMMA ToLeavePlaces ==
  ASSUME Places, NEW t \in Thread, HasRead(t, Writers), Goto(t, "leave"),
         NoLock, NoPatch, NoWave, UNCHANGED <<tracked, rounds>>, result' \in [Thread -> Result]
  PROVE  Places'
<1>1. PlaceOK(t) /\ JobTypeOK /\ job \in [Thread -> Job]
      BY Here
<1>2. job[t].kind # "verify" /\ On(t, "read")
      BY AllRead DEF Writers
<1>3. /\ job' \in [Thread -> Job] /\ job'[t].pc = "leave" /\ job'[t].kind = job[t].kind
      /\ \A u \in Thread : u # t => job'[u] = job[u]
      BY <1>1, GotoTypes DEF PC
<1>4. /\ wave' = wave /\ waveOwner' = waveOwner /\ at' = at /\ scopes' = scopes /\ writer' = writer
      /\ tx' = tx
      BY DEF NoWave, NoLock, NoPatch, lockVars, patchVars
<1>5. JobTypeOK'
      BY <1>1, <1>3, <1>4 DEF JobTypeOK
<1>6. JobFrame(t)
      BY <1>3, <1>4 DEF JobFrame, InWave
<1>7. PlaceOK(t)'
      BY <1>1, <1>2, <1>3, <1>4 DEF PlaceOK, On, HasRead, InWave
<1> QED BY <1>5, <1>6, <1>7, JobMoves

\* How a job ended.
LEMMA EndsTypes ==
  ASSUME result \in [Thread -> Result], NEW t \in Thread, NEW r \in Result, Ends(t, r)
  PROVE  /\ result' \in [Thread -> Result]
         /\ result'[t] = IF result[t] \in {"applied", "uncertain"} /\ r # "applied" THEN result[t] ELSE r
         /\ \A u \in Thread : u # t => result'[u] = result[u]
BY DEF Ends

\* A job finds nothing to do.
LEMMA SkipPlaces ==
  ASSUME Places, NEW t \in Thread, Skip(t)
  PROVE  Places'
<1>1. result' \in [Thread -> Result] /\ UNCHANGED <<tracked, rounds>>
      BY Here DEF Skip, NoEnd, JobTypeOK
<1> QED BY <1>1, ToLeavePlaces DEF Skip

\* A job cannot go on.
LEMMA GiveUpPlaces ==
  ASSUME Places, NEW t \in Thread, GiveUp(t)
  PROVE  Places'
<1>1. result' \in [Thread -> Result]
      BY Here, EndsTypes DEF GiveUp, JobTypeOK, Result
<1> QED BY <1>1, ToLeavePlaces DEF GiveUp

\* A job is over.
LEMMA EndPlaces ==
  ASSUME Places, NEW t \in Thread, End(t)
  PROVE  Places'
<1>0. /\ On(t, "leave") /\ scopes[t] = <<>> /\ writer # t /\ ~InWave(t) /\ Idle(t)
      /\ NoLock /\ NoPatch /\ NoWave /\ NoEnd
      BY DEF End
<1>1. PlaceOK(t) /\ JobTypeOK /\ job \in [Thread -> Job]
      BY Here
<1>2. Len(scopes[t]) = 0
      BY <1>0
<1>3. /\ job' \in [Thread -> Job] /\ job'[t].pc = "idle" /\ job'[t].kind = job[t].kind
      /\ \A u \in Thread : u # t => job'[u] = job[u]
      BY <1>0, <1>1, GotoTypes DEF PC
<1>4. /\ wave' = wave /\ waveOwner' = waveOwner /\ at' = at /\ scopes' = scopes /\ writer' = writer
      /\ tx' = tx
      BY <1>0 DEF NoWave, NoLock, NoPatch, lockVars, patchVars
<1>5. JobTypeOK'
      BY <1>0, <1>1, <1>3, <1>4 DEF JobTypeOK, NoEnd
<1>6. JobFrame(t)
      BY <1>3, <1>4 DEF JobFrame, InWave
<1>7. PlaceOK(t)'
      BY <1>0, <1>1, <1>2, <1>3, <1>4 DEF PlaceOK, On
<1> QED BY <1>0, <1>5, <1>6, <1>7, JobMoves

-----------------------------------------------------------------------------
(* Steps of the lock                                                       *)

\* A step of the lock moves its thread inside the lock.
LEMMA LockMoves ==
  ASSUME Places, NEW t \in Thread, LockInv', LockFrame(t), NoPatch, UNCHANGED jobVars, PlaceOK(t)'
  PROVE  Places'
<1>1. PatchTypeOK' /\ JobTypeOK'
      BY Here DEF PatchTypeOK, JobTypeOK, NoPatch, patchVars, jobVars
<1>2. JobFrame(t)
      BY DEF JobFrame, InWave, NoPatch, patchVars, jobVars
<1> QED BY <1>1, <1>2, PlacesStep

\* A job enters the coarse lock.
LEMMA GatePlaces ==
  ASSUME Places, NEW t \in Thread, Gate(t)
  PROVE  Places'
<1> DEFINE pc == IF job[t].kind = "verify" THEN "rev" ELSE "read"
<1>0. /\ EnterCoarse(t) /\ NoPatch /\ NoWave /\ NoEnd
      /\ (On(t, "gate") /\ Goto(t, pc)) \/ (On(t, "snap") /\ Goto(t, "read"))
      BY DEF Gate
<1>1. PlaceOK(t) /\ LockInv /\ JobTypeOK /\ PatchTypeOK /\ job \in [Thread -> Job]
      BY Here
<1>2. LockInv'
      BY <1>0, <1>1, EnterCoarseKeeps
<1>3. /\ LockFrame(t) /\ scopes' = scopes
      /\ (at'[t] = "run" /\ writer' = t) \/ at'[t] = "coarse"
      BY <1>0, <1>1, EnterCoarseEffect
<1>4. job[t].kind = "verify" => job[t].pc # "snap"
      BY <1>1 DEF PlaceOK
<1>5. /\ job' \in [Thread -> Job] /\ job'[t].kind = job[t].kind
      /\ job'[t].pc = pc
      /\ \A u \in Thread : u # t => job'[u] = job[u]
  <2>1. CASE On(t, "gate") /\ Goto(t, pc)
        BY <1>1, <2>1, GotoTypes DEF PC
  <2>2. CASE On(t, "snap") /\ Goto(t, "read")
        BY <1>1, <1>4, <2>2, GotoTypes DEF PC, On
  <2> QED BY <1>0, <2>1, <2>2
<1>6. wave' = wave /\ waveOwner' = waveOwner /\ tx' = tx
      BY <1>0 DEF NoWave, NoPatch, patchVars
<1>7. PatchTypeOK' /\ JobTypeOK'
      BY <1>0, <1>1, <1>5, <1>6 DEF PatchTypeOK, JobTypeOK, NoPatch, patchVars, NoEnd
<1>8. JobFrame(t)
      BY <1>5, <1>6 DEF JobFrame, InWave
<1>9. PlaceOK(t)'
      BY <1>0, <1>1, <1>3, <1>4, <1>5, <1>6 DEF PlaceOK, On
<1> QED BY <1>2, <1>3, <1>7, <1>8, <1>9, PlacesStep

\* A merge enters it again.
LEMMA RegatePlaces ==
  ASSUME Places, NEW t \in Thread, Regate(t)
  PROVE  Places'
<1>0. /\ On(t, "read") /\ job[t].kind = "merge" /\ EnterCoarse(t) /\ NoPatch /\ UNCHANGED jobVars
      BY DEF Regate
<1>1. PlaceOK(t) /\ LockInv
      BY Here
<1>2. LockInv'
      BY <1>0, <1>1, EnterCoarseKeeps
<1>3. /\ LockFrame(t) /\ scopes' = scopes /\ at'[t] \in {"run", "coarse"}
      BY <1>0, <1>1, EnterCoarseEffect
<1>4. job' = job /\ tx' = tx /\ wave' = wave /\ waveOwner' = waveOwner
      BY <1>0 DEF NoPatch, patchVars, jobVars
<1>5. PlaceOK(t)'
      BY <1>0, <1>1, <1>3, <1>4 DEF PlaceOK, On, InWave
<1> QED BY <1>0, <1>2, <1>3, <1>5, LockMoves

\* A job tests the coarse lock again.
LEMMA WaitGatePlaces ==
  ASSUME Places, NEW t \in Thread, WaitGate(t)
  PROVE  Places'
<1> DEFINE timed == job[t].kind = "verify"
<1>0. timed \in BOOLEAN /\ RetryCoarse(t, timed) /\ NoPatch /\ UNCHANGED jobVars
      BY DEF WaitGate
<1> HIDE DEF timed
<1>1. PlaceOK(t) /\ LockInv /\ ScopeOK(t)
      BY Here
<1>2. LockInv'
      BY <1>0, <1>1, RetryCoarseKeeps
<1>3. /\ LockFrame(t) /\ scopes' = scopes /\ at[t] = "coarse"
      /\ (at'[t] = "run" /\ writer' = t) \/ at'[t] = "coarse"
      BY <1>0, <1>1, RetryCoarseEffect
<1>4. job' = job /\ tx' = tx /\ wave' = wave /\ waveOwner' = waveOwner
      BY <1>0 DEF NoPatch, patchVars, jobVars
<1>5. Len(scopes[t]) = 0
      BY <1>1, <1>3 DEF ScopeOK
<1>6. PlaceOK(t)'
      BY <1>1, <1>3, <1>4, <1>5 DEF PlaceOK, InWave
<1> QED BY <1>0, <1>2, <1>3, <1>6, LockMoves

\* A verifier gives up.
LEMMA TimeOutPlaces ==
  ASSUME Places, NEW t \in Thread, TimeOut(t)
  PROVE  Places'
<1>0. job[t].kind = "verify" /\ TimeOutCoarse(t) /\ Idle(t) /\ NoPatch /\ NoWave /\ NoEnd
      BY DEF TimeOut
<1>1. PlaceOK(t) /\ LockInv /\ JobTypeOK /\ PatchTypeOK /\ job \in [Thread -> Job]
      BY Here
<1>2. LockInv'
      BY <1>0, <1>1, TimeOutCoarseKeeps
<1>3. LockFrame(t) /\ scopes' = scopes /\ at'[t] = "run"
      BY <1>0, <1>1, TimeOutCoarseEffect
<1>4. /\ job' \in [Thread -> Job] /\ job'[t].pc = "idle" /\ job'[t].kind = job[t].kind
      /\ \A u \in Thread : u # t => job'[u] = job[u]
      BY <1>0, <1>1, GotoTypes DEF PC
<1>5. wave' = wave /\ waveOwner' = waveOwner /\ tx' = tx
      BY <1>0 DEF NoWave, NoPatch, patchVars
<1>6. PatchTypeOK' /\ JobTypeOK'
      BY <1>0, <1>1, <1>4, <1>5 DEF PatchTypeOK, JobTypeOK, NoPatch, patchVars, NoEnd
<1>7. JobFrame(t)
      BY <1>4, <1>5 DEF JobFrame, InWave
<1>8. PlaceOK(t)'
      BY <1>0, <1>1, <1>3, <1>4, <1>5 DEF PlaceOK
<1> QED BY <1>2, <1>3, <1>6, <1>7, <1>8, PlacesStep

\* A job opens the scope of its target paths.
LEMMA OpenPlaces ==
  ASSUME Places, NEW t \in Thread, Open(t)
  PROVE  Places'
<1>0. On(t, "open") /\ EnterScoped(t, Target[t]) /\ Goto(t, "read") /\ NoPatch /\ NoWave /\ NoEnd
      BY DEF Open
<1>1. /\ PlaceOK(t) /\ LockInv /\ JobTypeOK /\ PatchTypeOK /\ job \in [Thread -> Job]
      /\ Target[t] \in SUBSET Path /\ Target[t] # {}
      BY Here
<1>2. Len(scopes[t]) = 0
      BY <1>0, <1>1 DEF PlaceOK, On
<1>3. LockInv'
      BY <1>0, <1>1, <1>2, EnterScopedKeeps DEF MayOpen
<1>4. /\ LockFrame(t) /\ writer' = writer
      /\ IsOpened(t, Target[t]) \/ (at'[t] = "scoped" /\ scopes' = scopes)
      BY <1>0, <1>1, EnterScopedEffect
<1>5. /\ job' \in [Thread -> Job] /\ job'[t].pc = "read" /\ job'[t].kind = job[t].kind
      /\ \A u \in Thread : u # t => job'[u] = job[u]
      BY <1>0, <1>1, GotoTypes DEF PC
<1>6. wave' = wave /\ waveOwner' = waveOwner /\ tx' = tx
      BY <1>0 DEF NoWave, NoPatch, patchVars
<1>7. PatchTypeOK' /\ JobTypeOK'
      BY <1>0, <1>1, <1>5, <1>6 DEF PatchTypeOK, JobTypeOK, NoPatch, patchVars, NoEnd
<1>8. JobFrame(t)
      BY <1>5, <1>6 DEF JobFrame, InWave
<1>9. PlaceOK(t)'
  <2>1. \/ at'[t] = "take" /\ Len(scopes'[t]) = 1 /\ scopes'[t][1].paths = Target[t]
        \/ at'[t] = "scoped" /\ Len(scopes'[t]) = 0
        BY <1>2, <1>4 DEF IsOpened
  <2>2. /\ waveOwner # t /\ job[t].kind # "verify" /\ tx[t].step = "none"
        /\ job[t].kind = "generate" => InWave(t)
        BY <1>0, <1>1 DEF PlaceOK, On
  <2>3. /\ job'[t].kind = "generate" => InWave(t)'
        /\ tx'[t].step = "none" /\ waveOwner' # t
        BY <1>5, <1>6, <2>2 DEF InWave
  <2>4. CASE at'[t] = "take" /\ Len(scopes'[t]) = 1 /\ scopes'[t][1].paths = Target[t]
        BY <1>5, <2>2, <2>3, <2>4 DEF PlaceOK
  <2>5. CASE at'[t] = "scoped" /\ Len(scopes'[t]) = 0
        BY <1>5, <2>2, <2>3, <2>5 DEF PlaceOK
  <2> QED BY <2>1, <2>4, <2>5
<1> QED BY <1>3, <1>4, <1>7, <1>8, <1>9, PlacesStep

\* A job tests again whether it may open its scope.
LEMMA WaitScopePlaces ==
  ASSUME Places, NEW t \in Thread, WaitScope(t)
  PROVE  Places'
<1> DEFINE ps == IF tx[t].step = "none" THEN Target[t] ELSE DOMAIN tx[t].plan
<1>0. RetryScoped(t, ps) /\ NoPatch /\ UNCHANGED jobVars
      BY DEF WaitScope
<1>1. /\ PlaceOK(t) /\ ScopeOK(t) /\ LockInv /\ Target[t] \subseteq Path /\ Target[t] # {}
      BY Here
<1>2. ps \in SUBSET Path /\ ps # {}
      BY <1>1 DEF PlaceOK
<1>3. at[t] = "scoped"
      BY <1>0 DEF RetryScoped
<1>4. Len(scopes[t]) = 0
      BY <1>1, <1>3 DEF ScopeOK
<1>5. LockInv'
  <2>1. MayOpen(t, ps)
        BY <1>2, <1>4 DEF MayOpen
  <2> HIDE DEF ps
  <2> QED BY <1>0, <1>1, <2>1, RetryScopedKeeps
<1>6. LockFrame(t) /\ writer' = writer /\ (IsOpened(t, ps) \/ (at' = at /\ scopes' = scopes))
  <2> HIDE DEF ps
  <2> QED BY <1>0, <1>1, <1>2, RetryScopedEffect
<1>7. job' = job /\ tx' = tx /\ wave' = wave /\ waveOwner' = waveOwner
      BY <1>0 DEF NoPatch, patchVars, jobVars
<1>8. PlaceOK(t)'
  <2>1. \/ at'[t] = "take" /\ Len(scopes'[t]) = 1 /\ scopes'[t][1].paths = ps
        \/ at'[t] = "scoped" /\ Len(scopes'[t]) = 0
        BY <1>3, <1>4, <1>6 DEF IsOpened
  <2>2. (job[t].pc = "read" /\ tx[t].step = "none") \/ (job[t].pc = "leave" /\ tx[t].step = "stage")
        BY <1>1, <1>3 DEF PlaceOK
  <2>3. waveOwner # t /\ job[t].kind # "verify"
        BY <1>1, <1>3 DEF PlaceOK
  <2>4. /\ job'[t] = job[t] /\ tx'[t] = tx[t] /\ waveOwner' # t
        /\ job[t].kind = "generate" => InWave(t)'
        BY <1>1, <1>7, <2>2, <2>3 DEF PlaceOK, InWave
  <2>5. CASE at'[t] = "scoped" /\ Len(scopes'[t]) = 0
        BY <1>1, <2>2, <2>3, <2>4, <2>5 DEF PlaceOK
  <2>6. CASE at'[t] = "take" /\ Len(scopes'[t]) = 1 /\ scopes'[t][1].paths = ps
    <3>1. Top(t)' = scopes'[t][1]
          BY <2>6 DEF Top
    <3>2. CASE job[t].pc = "read" /\ tx[t].step = "none"
          BY <2>3, <2>4, <2>6, <3>2 DEF PlaceOK
    <3>3. CASE job[t].pc = "leave" /\ tx[t].step = "stage"
          BY <1>1, <2>3, <2>4, <2>6, <3>1, <3>3 DEF PlaceOK
    <3> QED BY <2>2, <3>2, <3>3
  <2> QED BY <2>1, <2>5, <2>6
<1> QED BY <1>0, <1>5, <1>6, <1>8, LockMoves

\* A job takes the lock of a path.
LEMMA TakePlaces ==
  ASSUME Places, NEW t \in Thread, Take(t)
  PROVE  Places'
<1>0. PICK p \in Path : TakePath(t, p)
      BY DEF Take
<1>1. PlaceOK(t) /\ ScopeOK(t) /\ LockInv
      BY Here
<1>2. LockInv'
      BY <1>0, <1>1, TakePathKeeps
<1>3. /\ LockFrame(t) /\ SameScopes(t) /\ at[t] = "take" /\ at'[t] \in {"run", "take"} /\ writer' = writer
      BY <1>0, <1>1, TakePathEffect
<1>4. /\ job' = job /\ tx' = tx /\ wave' = wave /\ waveOwner' = waveOwner
      BY DEF Take, NoPatch, patchVars, jobVars
<1>5. /\ Len(scopes[t]) \in {1, 2} /\ Len(scopes'[t]) = Len(scopes[t])
      /\ scopes'[t][1].paths = scopes[t][1].paths /\ Top(t)'.paths = Top(t).paths
  <2>1. Len(scopes[t]) \in {1, 2}
        BY <1>1, <1>3, InsideScopes DEF ScopeOK
  <2>2. 1 \in 1..Len(scopes[t]) /\ Len(scopes[t]) \in 1..Len(scopes[t])
    <3>1. \A n \in {1, 2} : 1 \in 1..n /\ n \in 1..n
          OBVIOUS
    <3> QED BY <2>1, <3>1
  <2> QED BY <1>3, <2>1, <2>2 DEF SameScopes, Top
<1>6. PlaceOK(t)'
  <2>1. (job[t].pc = "read" /\ tx[t].step = "none") \/ (job[t].pc = "leave" /\ tx[t].step = "stage")
        BY <1>1, <1>3 DEF PlaceOK
  <2>2. waveOwner # t /\ job[t].kind # "verify"
        BY <1>1, <1>3, <1>5 DEF PlaceOK
  <2> QED BY <1>1, <1>3, <1>4, <1>5, <2>1, <2>2 DEF PlaceOK, InWave
<1> QED BY <1>2, <1>3, <1>6, LockMoves DEF Take

\* A generator leaves the coarse lock and shares its snapshot.
LEMMA MakeWavePlaces ==
  ASSUME Places, NEW t \in Thread, MakeWave(t)
  PROVE  /\ Places' /\ job'[t].seen = <<>> /\ job'[t].pc = "open" /\ job'[t].kind = job[t].kind
         /\ job'[t].rev = job[t].rev /\ \A u \in Thread : u # t => job'[u] = job[u]
<1>0. /\ On(t, "read") /\ waveOwner = t /\ DOMAIN job[t].seen = Path /\ ExitCoarse(t)
      /\ wave' = [base |-> job[t].seen, active |-> {t}] /\ waveOwner' = Null
      /\ job' = [job EXCEPT ![t].pc = "open", ![t].seen = <<>>]
      /\ NoPatch /\ NoEnd
      BY DEF MakeWave
<1>1. /\ PlaceOK(t) /\ LockInv /\ JobTypeOK /\ PatchTypeOK /\ job \in [Thread -> Job] /\ job[t] \in Job
      /\ t # Null
      BY Here
<1>2. Len(scopes[t]) = 0 /\ wave = Null /\ job[t].kind = "generate"
      BY <1>0, <1>1 DEF PlaceOK
<1>3. LockInv'
      BY <1>0, <1>1, <1>2, ExitCoarseKeeps
<1>4. LockFrame(t) /\ scopes' = scopes /\ at' = at
      BY <1>0, <1>1, ExitCoarseEffect
<1>5. /\ job' \in [Thread -> Job] /\ job'[t].pc = "open" /\ job'[t].kind = job[t].kind
      /\ job'[t].seen = <<>> /\ job'[t].rev = job[t].rev
      /\ \A u \in Thread : u # t => job'[u] = job[u]
  <2>1. <<>> \in Partial(Text)
        BY NothingIsPartial
  <2> QED BY <1>0, <1>1, <2>1 DEF Job, PC
<1>6. wave' \in Wave /\ wave' # Null /\ wave'.active = {t}
  <2>1. job[t].seen \in [Path -> Text]
        BY <1>0, SeenTypes
  <2> QED BY <1>0, <2>1, WaveAssumption DEF Wave
<1>7. tx' = tx
      BY <1>0 DEF NoPatch, patchVars
<1>8. PatchTypeOK' /\ JobTypeOK'
      BY <1>0, <1>1, <1>5, <1>6 DEF PatchTypeOK, JobTypeOK, NoPatch, patchVars, NoEnd
<1>9. JobFrame(t)
      BY <1>0, <1>2, <1>5, <1>7, LockAssumption DEF JobFrame, InWave
<1>10. PlaceOK(t)'
       BY <1>0, <1>1, <1>2, <1>4, <1>5, <1>6, <1>7 DEF PlaceOK, On, InWave
<1> QED BY <1>3, <1>4, <1>5, <1>8, <1>9, <1>10, PlacesStep

\* A job releases the lock of a path.
LEMMA DropPlaces ==
  ASSUME Places, NEW t \in Thread, Drop(t)
  PROVE  Places'
<1>0. job[t].pc = "leave" /\ tx[t].step = "none" /\ DropPath(t) /\ NoPatch /\ UNCHANGED jobVars
      BY DEF Drop
<1>1. PlaceOK(t) /\ LockInv /\ scopes[t] \in Seq(Scope)
      BY Here
<1>2. LockInv'
      BY <1>0, <1>1, DropPathKeeps
<1>3. LockFrame(t) /\ SameScopes(t) /\ at'[t] = "drop" /\ writer' = writer
      BY <1>0, <1>1, DropPathEffect
<1>4. /\ job' = job /\ tx' = tx /\ wave' = wave /\ waveOwner' = waveOwner
      BY <1>0 DEF NoPatch, patchVars, jobVars
<1>5. Len(scopes[t]) > 0
      BY <1>0, <1>1 DEF DropPath
<1>6. Len(scopes[t]) \in {1, 2}
      BY <1>1, <1>5, InsideScopes
<1>7. Len(scopes'[t]) = Len(scopes[t]) /\ scopes'[t][1].paths = scopes[t][1].paths
  <2>1. \A n \in {1, 2} : 1 \in 1..n
        OBVIOUS
  <2>2. 1 \in 1..Len(scopes[t])
        BY <1>6, <2>1
  <2> QED BY <1>3, <2>2 DEF SameScopes
<1>8. PlaceOK(t)'
      BY <1>0, <1>1, <1>3, <1>4, <1>6, <1>7 DEF PlaceOK, InWave
<1> QED BY <1>0, <1>2, <1>3, <1>8, LockMoves

\* A job leaves a scope.
LEMMA ExitPlaces ==
  ASSUME Places, NEW t \in Thread, Exit(t)
  PROVE  Places'
<1>0. ExitScoped(t) /\ NoPatch /\ UNCHANGED jobVars
      BY DEF Exit
<1>1. PlaceOK(t) /\ LockInv
      BY Here
<1>2. LockInv'
      BY <1>0, <1>1, ExitScopedKeeps
<1>3. /\ LockFrame(t) /\ at[t] = "drop" /\ at'[t] = "run" /\ writer' = writer
      /\ Len(scopes[t]) \in {1, 2} /\ Len(scopes'[t]) = Len(scopes[t]) - 1
      BY <1>0, <1>1, ExitScopedEffect
<1>4. /\ job' = job /\ tx' = tx /\ wave' = wave /\ waveOwner' = waveOwner
      BY <1>0 DEF NoPatch, patchVars, jobVars
<1>5. Len(scopes'[t]) \in {0, 1}
      BY <1>3
<1>6. tx[t].step = "none" /\ job[t].pc = "leave"
      BY <1>1, <1>3 DEF PlaceOK
<1>7. waveOwner # t /\ job[t].kind # "verify"
      BY <1>1, <1>3, <1>6 DEF PlaceOK
<1>8. PlaceOK(t)'
  <2>1. /\ job'[t].pc = "leave" /\ tx'[t].step = "none" /\ waveOwner' # t /\ job'[t].kind # "verify"
        /\ job'[t].kind = "generate" => InWave(t)'
        BY <1>1, <1>4, <1>6, <1>7 DEF PlaceOK, InWave
  <2>2. Len(scopes'[t]) # 2
        BY <1>5
  <2> QED BY <1>3, <2>1, <2>2 DEF PlaceOK
<1> QED BY <1>0, <1>2, <1>3, <1>8, LockMoves

\* A job leaves the coarse lock.
LEMMA UngatePlaces ==
  ASSUME Places, NEW t \in Thread, Ungate(t)
  PROVE  Places'
<1>0. On(t, "leave") /\ scopes[t] = <<>> /\ ExitCoarse(t) /\ NoPatch /\ UNCHANGED jobVars
      BY DEF Ungate
<1>1. PlaceOK(t) /\ LockInv
      BY Here
<1>2. Len(scopes[t]) = 0
      BY <1>0
<1>3. LockInv'
      BY <1>0, <1>1, <1>2, ExitCoarseKeeps
<1>4. LockFrame(t) /\ scopes' = scopes /\ at' = at
      BY <1>0, <1>1, ExitCoarseEffect
<1>5. /\ job' = job /\ tx' = tx /\ wave' = wave /\ waveOwner' = waveOwner
      BY <1>0 DEF NoPatch, patchVars, jobVars
<1>6. PlaceOK(t)'
      BY <1>0, <1>1, <1>2, <1>4, <1>5 DEF PlaceOK, InWave, On
<1> QED BY <1>0, <1>3, <1>4, <1>6, LockMoves

-----------------------------------------------------------------------------
(* Steps of the patcher                                                    *)

\* The edits in a text are those of threads.
LEMMA EditsOf ==
  /\ \A c \in Text : Edits(c) \subseteq Thread
  /\ \A c \in SUBSET Thread : c \in Text /\ Edits(c) = c /\ c # Torn /\ c # Absent
  /\ Edits(Torn) = {} /\ Edits(Absent) = {}
BY TextAssumption DEF Edits, Text

\* The plan of a job: what it expects is what it has read.
LEMMA PlanShape ==
  ASSUME Places, NEW t \in Thread, HasRead(t, Writers)
  PROVE  /\ Plan(t) \in Partial([expected : Text, content : Text])
         /\ DOMAIN Plan(t) \subseteq Target[t]
         /\ \A p \in DOMAIN Plan(t) : Plan(t)[p].expected = job[t].seen[p]
         /\ \A p \in Target[t] : p \in DOMAIN job[t].seen /\ job[t].seen[p] \in Text
         /\ job[t].kind # "generate" => \A p \in Target[t] :
              /\ p \in DOMAIN Plan(t) <=> t \notin Edits(job[t].seen[p])
              /\ p \in DOMAIN Plan(t) => Plan(t)[p].content = Edits(job[t].seen[p]) \cup {t}
         /\ job[t].kind = "generate" => \A p \in Target[t] :
              /\ wave # Null /\ wave.base[p] \in Text
              /\ p \in DOMAIN Plan(t) <=> job[t].seen[p] # Desired(t, p)
              /\ p \in DOMAIN Plan(t) =>
                   Plan(t)[p].content = Merge3(Edits(wave.base[p]), Desired(t, p), Edits(job[t].seen[p]))
<1> DEFINE seen == job[t].seen
           f == Plan(t)
<1>1. /\ PlaceOK(t) /\ JobTypeOK /\ Target[t] \subseteq Path
      BY Here
<1>2. On(t, "read") /\ job[t].kind # "verify" /\ waveOwner # t /\ Target[t] \subseteq DOMAIN seen
      BY AllRead DEF Writers
<1>3. \A p \in Target[t] : p \in DOMAIN seen /\ seen[p] \in Text
      BY <1>2, SeenTypes
<1>4. \A p \in Target[t] : Edits(seen[p]) \subseteq Thread
      BY <1>3, EditsOf
<1>5. CASE job[t].kind # "generate"
  <2> DEFINE D == {q \in Target[t] : t \notin Edits(seen[q])}
  <2>1. f = [p \in D |-> [expected |-> seen[p], content |-> Edits(seen[p]) \cup {t}]]
        BY <1>5 DEF Plan, OwnPlan, Op
  <2>2. /\ DOMAIN f = D /\ f = [p \in DOMAIN f |-> f[p]] /\ D \subseteq Target[t] /\ D \subseteq Path
        BY <1>1, <2>1
  <2>3. \A p \in D : /\ f[p].expected = seen[p] /\ f[p].content = Edits(seen[p]) \cup {t}
                     /\ f[p] \in [expected : Text, content : Text]
    <3>1. \A p \in D : Edits(seen[p]) \cup {t} \in Text
          BY <1>4, EditsOf
    <3> QED BY <1>3, <2>1, <3>1
  <2>4. \A p \in Target[t] : p \in D <=> t \notin Edits(seen[p])
        OBVIOUS
  <2> HIDE DEF f, D
  <2>5. f \in Partial([expected : Text, content : Text])
        BY <2>2, <2>3, PartialFunction
  <2> QED BY <1>3, <1>5, <2>2, <2>3, <2>4, <2>5 DEF f
<1>6. CASE job[t].kind = "generate"
  <2> DEFINE D == {q \in Target[t] : seen[q] # Desired(t, q)}
             new(p) == Merge3(Edits(wave.base[p]), Desired(t, p), Edits(seen[p]))
  <2>0. wave # Null /\ wave \in Wave
        BY <1>1, <1>2, <1>6 DEF PlaceOK, On, InWave, JobTypeOK
  <2>1. f = [p \in D |-> [expected |-> seen[p], content |-> new(p)]]
        BY <1>6 DEF Plan, StagedPlan, Op
  <2>2. /\ DOMAIN f = D /\ f = [p \in DOMAIN f |-> f[p]] /\ D \subseteq Target[t] /\ D \subseteq Path
        BY <1>1, <2>1
  <2>3. \A p \in Target[t] : wave.base[p] \in Text
        BY <1>1, <2>0 DEF Wave
  <2>4. \A p \in Target[t] : new(p) \in SUBSET Thread
    <3>1. \A p \in Target[t] : Edits(wave.base[p]) \subseteq Thread
          BY <2>3, EditsOf
    <3> QED BY <1>4, <3>1 DEF Merge3, Desired
  <2>5. \A p \in Target[t] : new(p) \in Text
        BY <2>4, EditsOf
  <2>6. \A p \in D : f[p].expected = seen[p] /\ f[p].content = new(p)
                     /\ f[p] \in [expected : Text, content : Text]
    <3> HIDE DEF new
    <3> QED BY <1>3, <2>1, <2>5
  <2>7. \A p \in Target[t] : p \in D <=> seen[p] # Desired(t, p)
        OBVIOUS
  <2> HIDE DEF f, D
  <2>8. f \in Partial([expected : Text, content : Text])
        BY <2>2, <2>6, PartialFunction
  <2> QED BY <1>3, <1>6, <2>0, <2>2, <2>3, <2>6, <2>7, <2>8 DEF f
<1> QED BY <1>5, <1>6

\* A job opens the scope of a transaction.
LEMMA ApplyPlaces ==
  ASSUME Places, NEW t \in Thread, Apply(t)
  PROVE  /\ Places' /\ tx'[t] = [NoTx EXCEPT !.step = "stage", !.plan = Plan(t)]
         /\ \A u \in Thread : u # t => tx'[u] = tx[u]
         /\ job'[t].pc = "leave" /\ job'[t].kind = job[t].kind /\ job'[t].seen = job[t].seen
         /\ \A u \in Thread : u # t => job'[u] = job[u]
<1> DEFINE f == Plan(t)
           x == [NoTx EXCEPT !.step = "stage", !.plan = f]
<1>0. /\ HasRead(t, Writers) /\ DOMAIN f # {} /\ tx' = [tx EXCEPT ![t] = x]
      /\ EnterScoped(t, DOMAIN f) /\ Goto(t, "leave") /\ NoWave /\ NoEnd
      /\ UNCHANGED <<files, owner, faults>>
      BY DEF Apply, Begin
<1>1. /\ PlaceOK(t) /\ LockInv /\ JobTypeOK /\ PatchTypeOK /\ job \in [Thread -> Job]
      /\ Target[t] \subseteq Path /\ tx \in [Thread -> Tx] /\ Len(scopes[t]) \in Nat
      BY Here
<1>2. f \in Partial([expected : Text, content : Text]) /\ DOMAIN f \subseteq Target[t]
      BY <1>0, PlanShape
<1> HIDE DEF f
<1>3. /\ On(t, "read") /\ job[t].kind # "verify" /\ waveOwner # t
      BY <1>0, AllRead DEF Writers
<1>4. /\ x \in Tx /\ x.step = "stage" /\ x.plan = f /\ x.committed = {} /\ x.originals = <<>>
      BY <1>2, RestingTypes DEF Tx, NoTx, TxStep
<1> HIDE DEF x
<1>5. tx' \in [Thread -> Tx] /\ tx'[t] = x /\ \A u \in Thread : u # t => tx'[u] = tx[u]
      BY <1>0, <1>1, <1>4
<1>6. /\ Len(scopes[t]) <= 1 /\ (Len(scopes[t]) = 1 => scopes[t][1].paths = Target[t])
      BY <1>1, <1>3 DEF PlaceOK, On
<1>7. DOMAIN f \in SUBSET Path
      BY <1>1, <1>2
<1>8. LockInv'
  <2>1. MayOpen(t, DOMAIN f)
        BY <1>0, <1>2, <1>6, <1>7 DEF MayOpen
  <2> QED BY <1>0, <1>1, <2>1, EnterScopedKeeps
<1>9. /\ LockFrame(t) /\ writer' = writer
      /\ \/ IsOpened(t, DOMAIN f)
         \/ at'[t] = "scoped" /\ scopes' = scopes /\ Len(scopes[t]) = 0
      BY <1>0, <1>1, <1>7, EnterScopedEffect
<1>10. /\ job' \in [Thread -> Job] /\ job'[t].pc = "leave" /\ job'[t].kind = job[t].kind
       /\ job'[t].seen = job[t].seen /\ \A u \in Thread : u # t => job'[u] = job[u]
       BY <1>0, <1>1, GotoTypes DEF PC
<1>11. wave' = wave /\ waveOwner' = waveOwner
       BY <1>0 DEF NoWave
<1>12. PatchTypeOK' /\ JobTypeOK'
       BY <1>0, <1>1, <1>5, <1>10, <1>11 DEF PatchTypeOK, JobTypeOK, NoEnd
<1>13. JobFrame(t)
       BY <1>5, <1>10, <1>11 DEF JobFrame, InWave
<1>14. PlaceOK(t)'
  <2>1. /\ job'[t].kind = "generate" => InWave(t)'
        /\ waveOwner' # t /\ job'[t].kind # "verify"
        BY <1>1, <1>3, <1>10, <1>11 DEF PlaceOK, On, InWave
  <2>2. /\ tx'[t].step = "stage" /\ tx'[t].plan = f /\ tx'[t].committed = {}
        /\ DOMAIN tx'[t].originals = {}
        BY <1>4, <1>5, NothingIsPartial
  <2>3. CASE IsOpened(t, DOMAIN f)
    <3>1. at'[t] = "take" /\ Top(t)'.paths = DOMAIN f /\ Len(scopes'[t]) = Len(scopes[t]) + 1
          BY <2>3 DEF IsOpened, Top
    <3>2. Len(scopes'[t]) > 0
          BY <1>1, <3>1
    <3>3. Len(scopes'[t]) = 2 => scopes'[t][1].paths = Target[t]
      <4> SUFFICES ASSUME Len(scopes'[t]) = 2 PROVE scopes'[t][1].paths = Target[t]
          OBVIOUS
      <4>1. Len(scopes[t]) = 1
        <5>1. \A n \in Nat : n + 1 = 2 => n = 1
              OBVIOUS
        <5> QED BY <1>1, <3>1, <5>1
      <4>2. 1 \in 1..Len(scopes[t])
            BY <4>1
      <4> QED BY <1>6, <2>3, <4>1, <4>2 DEF IsOpened
    <3> QED BY <1>0, <1>2, <1>10, <2>1, <2>2, <3>1, <3>2, <3>3 DEF PlaceOK
  <2>4. CASE at'[t] = "scoped" /\ scopes' = scopes /\ Len(scopes[t]) = 0
        BY <1>0, <1>2, <1>10, <2>1, <2>2, <2>4 DEF PlaceOK
  <2> QED BY <1>9, <2>3, <2>4
<1>15. Places'
       BY <1>8, <1>9, <1>12, <1>13, <1>14, PlacesStep
<1> QED BY <1>5, <1>10, <1>15 DEF f, x

\* The texts of a transaction are typed.
LEMMA TxTypes ==
  ASSUME Places, NEW t \in Thread
  PROVE  /\ DOMAIN tx[t].plan \subseteq Path /\ DOMAIN tx[t].originals \subseteq Path
         /\ \A p \in DOMAIN tx[t].plan : /\ tx[t].plan[p].expected \in Text
                                         /\ tx[t].plan[p].content \in Text
         /\ \A p \in DOMAIN tx[t].originals : tx[t].originals[p] \in Text
<1>1. tx[t].plan \in Partial([expected : Text, content : Text]) /\ tx[t].originals \in Partial(Text)
      BY Here DEF Tx
<1>2. DOMAIN tx[t].plan \subseteq Path /\ \A p \in DOMAIN tx[t].plan : tx[t].plan[p] \in [expected : Text, content : Text]
      BY <1>1, PartialFunction
<1>3. DOMAIN tx[t].originals \subseteq Path /\ \A p \in DOMAIN tx[t].originals : tx[t].originals[p] \in Text
      BY <1>1, PartialFunction
<1> QED BY <1>2, <1>3

\* Where a thread is whose transaction runs.
LEMMA Inside ==
  ASSUME Places, NEW t \in Thread, tx[t].step # "none", at[t] = "run"
  PROVE  /\ job[t].pc = "leave" /\ job[t].kind # "verify" /\ waveOwner # t
         /\ Len(scopes[t]) > 0 /\ Top(t).got = DOMAIN tx[t].plan
         /\ DOMAIN tx[t].plan # {} /\ DOMAIN tx[t].plan \subseteq Target[t]
         /\ \A p \in DOMAIN tx[t].plan : p \in Path /\ holder[p] = t
<1>1. PlaceOK(t) /\ ScopeOK(t) /\ LockInv /\ Len(scopes[t]) \in Nat
      BY Here
<1>2. /\ job[t].pc = "leave" /\ job[t].kind # "verify" /\ waveOwner # t
      /\ Len(scopes[t]) > 0 /\ Top(t).paths = DOMAIN tx[t].plan
      /\ DOMAIN tx[t].plan # {} /\ DOMAIN tx[t].plan \subseteq Target[t]
  <2>1. job[t].pc = "leave" /\ job[t].kind # "verify"
        BY <1>1 DEF PlaceOK
  <2> QED BY <1>1, <2>1 DEF PlaceOK
<1>3. Top(t).got = Top(t).paths
      BY <1>1, <1>2 DEF ScopeOK, Top
<1>4. Len(scopes[t]) \in 1..Len(scopes[t])
      BY <1>1, <1>2
<1>5. \A p \in Top(t).got : p \in Path /\ holder[p] = t
      BY <1>1, <1>4, TimesHeld DEF Top
<1> QED BY <1>2, <1>3, <1>5

\* A step of a transaction: the thread stays where it is.
LEMMA TxMoves ==
  ASSUME Places, NEW t \in Thread, at[t] = "run", tx[t].step # "none", NoLock, NoWave,
         UNCHANGED <<job, tracked, rounds>>, result' \in [Thread -> Result],
         files' \in [Path -> Text], owner' \in Owner, faults' \in 0..MaxFaults,
         NEW x \in Tx, tx' = [tx EXCEPT ![t] = x],
         x.step # "none" =>
           /\ x.plan = tx[t].plan /\ x.committed \subseteq DOMAIN x.plan
           /\ DOMAIN x.originals \subseteq DOMAIN x.plan
           /\ x.step \in {"commit", "rollback"} => DOMAIN x.originals = DOMAIN x.plan
  PROVE  Places'
<1>1. PlaceOK(t) /\ JobTypeOK /\ PatchTypeOK /\ tx \in [Thread -> Tx]
      BY Here
<1>2. LockInv' /\ LockFrame(t)
      BY LockStays DEF Places, NoLock
<1>3. tx' \in [Thread -> Tx] /\ tx'[t] = x /\ \A u \in Thread : u # t => tx'[u] = tx[u]
      BY <1>1
<1>4. PatchTypeOK' /\ JobTypeOK'
      BY <1>1, <1>3 DEF PatchTypeOK, JobTypeOK, NoWave
<1>5. JobFrame(t)
      BY <1>3 DEF JobFrame, InWave, NoWave
<1>6. /\ job[t].pc = "leave" /\ job[t].kind # "verify" /\ waveOwner # t /\ Len(scopes[t]) > 0
      BY Inside
<1>7. /\ at' = at /\ scopes' = scopes /\ writer' = writer /\ job' = job /\ wave' = wave
      /\ waveOwner' = waveOwner /\ InWave(t)' = InWave(t) /\ Top(t)' = Top(t)
      BY DEF NoLock, lockVars, NoWave, InWave, Top
<1>8. PlaceOK(t)'
  <2>1. CASE x.step = "none"
        BY <1>1, <1>3, <1>6, <1>7, <2>1 DEF PlaceOK
  <2>2. CASE x.step # "none"
        BY <1>1, <1>3, <1>6, <1>7, <2>2 DEF PlaceOK
  <2> QED BY <2>1, <2>2
<1> QED BY <1>2, <1>4, <1>5, <1>8, PlacesStep

\* Staging refuses the transaction, or finds every text that it expects.
LEMMA StageEffect ==
  ASSUME Places, NEW t \in Thread, Stage(t)
  PROVE  /\ InTx(t, "stage") /\ UNCHANGED <<files, owner, faults>>
         /\ \E x \in Tx :
              /\ tx' = [tx EXCEPT ![t] = x] /\ x.plan = tx[t].plan /\ x.committed = tx[t].committed
              /\ x.errors = tx[t].errors
              /\ \/ /\ x.step = "settle" /\ x.impact \in {"unchanged", "drift"}
                    /\ x.originals = tx[t].originals
                 \/ /\ x.step = "commit" /\ x.originals = [p \in DOMAIN tx[t].plan |-> files[p]]
                    /\ \A p \in DOMAIN tx[t].plan : files[p] = tx[t].plan[p].expected
<1> DEFINE y == tx[t]
           failing == {p \in DOMAIN y.plan : ImpactOf(t, p) # "applied"}
           now == [p \in DOMAIN y.plan |-> files[p]]
<1>0. /\ InTx(t, "stage") /\ UNCHANGED <<files, owner, faults>>
      /\ IF failing # {}
         THEN SetTx(t, [y EXCEPT !.step = "settle", !.impact = ImpactOf(t, First(failing))])
         ELSE \E serial \in {s \in BOOLEAN : s \/ Cardinality(DOMAIN y.plan) > 1} :
                SetTx(t, [y EXCEPT !.step = "commit", !.serial = serial, !.originals = now])
      BY DEF Stage
<1>1. y \in Tx /\ files \in [Path -> Text] /\ DOMAIN y.plan \subseteq Path
      BY Here, TxTypes DEF PatchTypeOK
<1>2. CASE failing # {}
  <2> DEFINE i == ImpactOf(t, First(failing))
             x == [y EXCEPT !.step = "settle", !.impact = i]
  <2>1. First(failing) \in failing
        BY <1>1, <1>2, FirstPath
  <2>2. i \in {"unchanged", "drift"}
        BY <2>1 DEF ImpactOf
  <2> HIDE DEF i
  <2>3. /\ x \in Tx /\ x.plan = y.plan /\ x.committed = y.committed /\ x.step = "settle"
        /\ x.impact = i /\ x.originals = y.originals /\ x.errors = y.errors
        BY <1>1, <2>2 DEF Tx, TxStep, Impact
  <2>4. tx' = [tx EXCEPT ![t] = x]
        BY <1>0, <1>2 DEF SetTx, i
  <2> HIDE DEF x
  <2> QED BY <1>0, <2>2, <2>3, <2>4
<1>3. CASE failing = {}
  <2>1. PICK serial \in BOOLEAN : tx' = [tx EXCEPT ![t] = [y EXCEPT !.step = "commit", !.serial = serial, !.originals = now]]
        BY <1>0, <1>3 DEF SetTx
  <2> DEFINE x == [y EXCEPT !.step = "commit", !.serial = serial, !.originals = now]
  <2>2. now \in Partial(Text)
    <3>1. now = [p \in DOMAIN now |-> now[p]] /\ DOMAIN now \subseteq Path /\ \A p \in DOMAIN now : now[p] \in Text
          BY <1>1
    <3> HIDE DEF now
    <3> QED BY <3>1, PartialFunction
  <2>3. \A p \in DOMAIN y.plan : files[p] = y.plan[p].expected
    <3> SUFFICES ASSUME NEW p \in DOMAIN y.plan PROVE files[p] = y.plan[p].expected
        OBVIOUS
    <3>1. ImpactOf(t, p) = "applied"
          BY <1>3
    <3>2. ~Mismatch(t, p)
          BY <3>1 DEF ImpactOf
    <3> QED BY <3>2 DEF Mismatch
  <2> HIDE DEF now
  <2>4. /\ x \in Tx /\ x.plan = y.plan /\ x.committed = y.committed /\ x.step = "commit"
        /\ x.originals = now /\ x.errors = y.errors
        BY <1>1, <2>2 DEF Tx, TxStep
  <2>5. tx' = [tx EXCEPT ![t] = x]
        BY <2>1
  <2> HIDE DEF x
  <2> QED BY <1>0, <2>3, <2>4, <2>5 DEF now
<1> QED BY <1>2, <1>3

\* A refused transaction has written nothing.
LEMMA RefuseEffect ==
  ASSUME Places, NEW t \in Thread, Refuse(t)
  PROVE  /\ InTx(t, "stage") /\ UNCHANGED <<files, owner>> /\ faults' \in 0..MaxFaults
         /\ \E x \in Tx :
              /\ tx' = [tx EXCEPT ![t] = x] /\ x.plan = tx[t].plan /\ x.committed = tx[t].committed
              /\ x.originals = tx[t].originals /\ x.errors = tx[t].errors
              /\ x.step = "settle" /\ x.impact = "unchanged"
<1> DEFINE x == [tx[t] EXCEPT !.step = "settle", !.impact = "unchanged"]
<1>1. tx[t] \in Tx /\ faults \in 0..MaxFaults
      BY Here DEF PatchTypeOK
<1>2. /\ x \in Tx /\ x.plan = tx[t].plan /\ x.committed = tx[t].committed
      /\ x.originals = tx[t].originals /\ x.errors = tx[t].errors
      /\ x.step = "settle" /\ x.impact = "unchanged"
      BY <1>1 DEF Tx, TxStep, Impact
<1>3. tx' = [tx EXCEPT ![t] = x]
      BY DEF Refuse, SetTx
<1>4. faults' \in 0..MaxFaults
      BY <1>1, TextAssumption DEF Refuse
<1> HIDE DEF x
<1> QED BY <1>2, <1>3, <1>4 DEF Refuse

\* One file is written, or its write fails.
LEMMA CommitFileEffect ==
  ASSUME Places, NEW t \in Thread, NEW p \in Path, CommitFile(t, p)
  PROVE  /\ InTx(t, "commit") /\ p \in Untried(tx[t]) /\ p \in DOMAIN tx[t].plan
         /\ UNCHANGED owner /\ faults' \in 0..MaxFaults
         /\ \E x \in Tx :
              /\ tx' = [tx EXCEPT ![t] = x] /\ x.plan = tx[t].plan /\ x.originals = tx[t].originals
              /\ x.step = "commit"
              /\ \/ /\ x.committed = tx[t].committed \cup {p} /\ x.errors = tx[t].errors
                    /\ files' = [files EXCEPT ![p] = tx[t].plan[p].content]
                 \/ /\ x.committed = tx[t].committed /\ x.errors = tx[t].errors \cup {p}
                    /\ files' = files
<1> DEFINE y == tx[t]
<1>0. InTx(t, "commit") /\ Tries(y, p) /\ UNCHANGED owner
      BY DEF CommitFile
<1>1. /\ y \in Tx /\ faults \in 0..MaxFaults /\ PlaceOK(t) /\ DOMAIN y.originals \subseteq Path
      BY Here, TxTypes DEF PatchTypeOK
<1>2. p \in Untried(y)
  <2>1. CASE y.serial
    <3>1. Untried(y) # {} /\ p = First(Untried(y))
          BY <1>0, <2>1 DEF Tries
    <3>2. Untried(y) \subseteq Path
          BY <1>1 DEF Untried, Changed
    <3> QED BY <3>1, <3>2, FirstPath
  <2>2. CASE ~y.serial
        BY <1>0, <2>2 DEF Tries
  <2> QED BY <2>1, <2>2
<1>3. p \in DOMAIN y.plan
      BY <1>0, <1>1, <1>2 DEF Untried, Changed, InTx, PlaceOK
<1>4. CASE /\ files' = [files EXCEPT ![p] = y.plan[p].content]
           /\ SetTx(t, [y EXCEPT !.committed = @ \cup {p}])
           /\ UNCHANGED faults
  <2> DEFINE x == [y EXCEPT !.committed = y.committed \cup {p}]
  <2>1. /\ x \in Tx /\ x.plan = y.plan /\ x.originals = y.originals
        /\ x.step = y.step /\ x.committed = y.committed \cup {p} /\ x.errors = y.errors
        BY <1>1 DEF Tx
  <2>2. tx' = [tx EXCEPT ![t] = x]
        BY <1>4 DEF SetTx
  <2> HIDE DEF x
  <2> QED BY <1>0, <1>1, <1>2, <1>3, <1>4, <2>1, <2>2 DEF InTx
<1>5. CASE /\ faults < MaxFaults
           /\ faults' = faults + 1
           /\ SetTx(t, [y EXCEPT !.errors = @ \cup {p}])
           /\ UNCHANGED files
  <2> DEFINE x == [y EXCEPT !.errors = y.errors \cup {p}]
  <2>1. /\ x \in Tx /\ x.plan = y.plan /\ x.originals = y.originals
        /\ x.step = y.step /\ x.committed = y.committed /\ x.errors = y.errors \cup {p}
        BY <1>1 DEF Tx
  <2>2. tx' = [tx EXCEPT ![t] = x] /\ files' = files
        BY <1>5 DEF SetTx
  <2>3. faults' \in 0..MaxFaults
        BY <1>1, <1>5, TextAssumption
  <2> HIDE DEF x
  <2> QED BY <1>0, <1>2, <1>3, <2>1, <2>2, <2>3 DEF InTx
<1> QED BY <1>4, <1>5 DEF CommitFile

\* The commit ends: everything was written, or something failed.
LEMMA EndCommitEffect ==
  ASSUME Places, NEW t \in Thread, EndCommit(t)
  PROVE  /\ InTx(t, "commit") /\ UNCHANGED <<files, owner, faults>>
         /\ \A p \in Path : ~Tries(tx[t], p)
         /\ \E x \in Tx :
              /\ tx' = [tx EXCEPT ![t] = x] /\ x.plan = tx[t].plan /\ x.originals = tx[t].originals
              /\ x.committed = tx[t].committed /\ x.errors = tx[t].errors
              /\ \/ x.errors = {} /\ x.step = "settle" /\ x.impact = "applied"
                 \/ x.errors # {} /\ x.step = "rollback" /\ x.impact = "rolled_back"
<1> DEFINE y == tx[t]
           step == CommittedStep(y)
           x == [y EXCEPT !.step = step, !.impact = IF step = "settle" THEN "applied" ELSE "rolled_back"]
<1>1. y \in Tx
      BY Here
<1>2. step = IF y.errors = {} THEN "settle" ELSE "rollback"
      BY DEF CommittedStep
<1> HIDE DEF step
<1>3. /\ x \in Tx /\ x.plan = y.plan /\ x.originals = y.originals /\ x.errors = y.errors
      /\ x.step = step /\ x.committed = y.committed
      /\ x.impact = IF step = "settle" THEN "applied" ELSE "rolled_back"
      BY <1>1, <1>2 DEF Tx, TxStep, Impact
<1>4. tx' = [tx EXCEPT ![t] = x]
      BY DEF EndCommit, SetTx, step
<1> HIDE DEF x
<1> QED BY <1>2, <1>3, <1>4 DEF EndCommit

\* One file is put back, or that fails.
LEMMA RollbackFileEffect ==
  ASSUME Places, NEW t \in Thread, RollbackFile(t)
  PROVE  /\ InTx(t, "rollback") /\ UNCHANGED owner /\ faults' \in 0..MaxFaults
         /\ \E p \in tx[t].committed, x \in Tx, c \in Text :
              /\ p \in DOMAIN tx[t].plan /\ p \in Path
              /\ tx' = [tx EXCEPT ![t] = x] /\ x.plan = tx[t].plan /\ x.originals = tx[t].originals
              /\ x.step = "rollback" /\ x.committed = tx[t].committed \ {p} /\ x.errors = tx[t].errors
              /\ files' = [files EXCEPT ![p] = c]
              /\ \/ c = tx[t].originals[p] /\ x.impact = tx[t].impact
                 \/ c \in {files[p], Torn} /\ x.impact = "uncertain"
<1> DEFINE y == tx[t]
           p == Last(y.committed)
           rest == [y EXCEPT !.committed = @ \ {p}]
<1>0. InTx(t, "rollback") /\ y.committed # {} /\ UNCHANGED owner
      BY DEF RollbackFile
<1>1. /\ y \in Tx /\ faults \in 0..MaxFaults /\ PlaceOK(t) /\ files \in [Path -> Text] /\ LockInv
      BY Here DEF PatchTypeOK
<1>2. /\ y.committed \subseteq DOMAIN y.plan /\ DOMAIN y.originals = DOMAIN y.plan
      /\ DOMAIN y.plan \subseteq Path
      BY <1>0, <1>1, TxTypes DEF InTx, PlaceOK
<1>3. p \in y.committed
  <2>1. \A q \in y.committed : q \in Path /\ holder[q] = t
        BY <1>0, <1>2, Inside DEF InTx
  <2>2. PICK n \in Nat : \A q \in Path : holder[q] # Null => q <= n
        BY <1>1 DEF LockInv, BoundOK
  <2>3. y.committed \subseteq Nat /\ \A q \in y.committed : q <= n
        BY <2>1, <2>2, LockAssumption
  <2>4. \E q \in y.committed : \A r \in y.committed : q >= r
        BY <1>0, <2>3, Greatest
  <2> QED BY <2>4 DEF Last
<1>4. p \in DOMAIN y.plan /\ p \in Path /\ y.originals[p] \in Text
      BY <1>2, <1>3, TxTypes
<1>5. \/ /\ files' = [files EXCEPT ![p] = y.originals[p]]
         /\ tx' = [tx EXCEPT ![t] = rest]
         /\ UNCHANGED faults
      \/ /\ faults < MaxFaults
         /\ faults' = faults + 1
         /\ \E c \in {files[p], Torn} : files' = [files EXCEPT ![p] = c]
         /\ tx' = [tx EXCEPT ![t] = [rest EXCEPT !.impact = "uncertain"]]
      BY DEF RollbackFile, SetTx
<1> HIDE DEF p
<1>6. CASE /\ files' = [files EXCEPT ![p] = y.originals[p]]
           /\ tx' = [tx EXCEPT ![t] = rest]
           /\ UNCHANGED faults
  <2>1. /\ rest \in Tx /\ rest.plan = y.plan /\ rest.originals = y.originals /\ rest.step = y.step
        /\ rest.committed = y.committed \ {p} /\ rest.impact = y.impact /\ rest.errors = y.errors
        BY <1>1 DEF Tx
  <2> HIDE DEF rest
  <2> QED BY <1>0, <1>1, <1>3, <1>4, <1>6, <2>1 DEF InTx
<1>7. CASE /\ faults < MaxFaults
           /\ faults' = faults + 1
           /\ \E c \in {files[p], Torn} : files' = [files EXCEPT ![p] = c]
           /\ tx' = [tx EXCEPT ![t] = [rest EXCEPT !.impact = "uncertain"]]
  <2> DEFINE x == [rest EXCEPT !.impact = "uncertain"]
  <2>1. /\ x \in Tx /\ x.plan = y.plan /\ x.originals = y.originals /\ x.step = y.step
        /\ x.committed = y.committed \ {p} /\ x.impact = "uncertain" /\ x.errors = y.errors
        BY <1>1 DEF Tx, Impact
  <2>2. tx' = [tx EXCEPT ![t] = x]
        BY <1>7
  <2>3. PICK c \in {files[p], Torn} : files' = [files EXCEPT ![p] = c]
        BY <1>7
  <2>4. c \in Text
        BY <1>1, <1>4 DEF Text
  <2>5. faults' \in 0..MaxFaults
        BY <1>1, <1>7, TextAssumption
  <2> HIDE DEF x
  <2> QED BY <1>0, <1>3, <1>4, <2>1, <2>2, <2>3, <2>4, <2>5 DEF InTx
<1> QED BY <1>5, <1>6, <1>7

\* Everything that was written has been put back, or was tried to.
LEMMA EndRollbackEffect ==
  ASSUME Places, NEW t \in Thread, EndRollback(t)
  PROVE  /\ InTx(t, "rollback") /\ UNCHANGED <<files, owner, faults>> /\ tx[t].committed = {}
         /\ \E x \in Tx :
              /\ tx' = [tx EXCEPT ![t] = x] /\ x.plan = tx[t].plan /\ x.originals = tx[t].originals
              /\ x.committed = {} /\ x.errors = tx[t].errors
              /\ x.step = "settle" /\ x.impact = tx[t].impact
<1> DEFINE x == [tx[t] EXCEPT !.step = "settle"]
<1>1. tx[t] \in Tx
      BY Here
<1>2. /\ x \in Tx /\ x.plan = tx[t].plan /\ x.originals = tx[t].originals
      /\ x.step = "settle" /\ x.committed = tx[t].committed /\ x.impact = tx[t].impact
      /\ x.errors = tx[t].errors
      BY <1>1 DEF Tx, TxStep
<1>3. tx' = [tx EXCEPT ![t] = x]
      BY DEF EndRollback, SetTx
<1> HIDE DEF x
<1> QED BY <1>2, <1>3 DEF EndRollback

\* The owner is told.
LEMMA SettleEffect ==
  ASSUME Places, NEW t \in Thread, Settle(t)
  PROVE  /\ InTx(t, "settle") /\ UNCHANGED <<files, faults>> /\ tx' = [tx EXCEPT ![t] = NoTx]
         /\ owner' \in Owner
         /\ tx[t].impact = "applied" =>
              owner' = Committed(owner, [p \in Changed(tx[t]) |-> tx[t].plan[p].content])
         /\ tx[t].impact \in {"drift", "uncertain"} => owner' = Invalidated(owner)
         /\ tx[t].impact \in {"unchanged", "rolled_back"} => owner' = owner
<1> DEFINE y == tx[t]
           after == [p \in Changed(y) |-> y.plan[p].content]
<1>0. /\ InTx(t, "settle") /\ UNCHANGED <<files, faults>> /\ tx' = [tx EXCEPT ![t] = NoTx]
      BY DEF Settle, SetTx
<1>1. /\ y \in Tx /\ owner \in Owner /\ PlaceOK(t) /\ y.impact \in Impact
      BY Here DEF PatchTypeOK, Tx
<1>2. Absent \in Text
      BY DEF Text
<1>3. /\ Changed(y) \subseteq DOMAIN y.plan /\ Changed(y) \subseteq Path
      /\ \A p \in Changed(y) : y.plan[p].content \in Text
      BY <1>0, <1>1, TxTypes DEF Changed, InTx, PlaceOK
<1>4. /\ DOMAIN after = Changed(y) /\ \A p \in DOMAIN after : after[p] \in Text
      BY <1>3
<1>5. Committed(owner, after) \in Owner
  <2> HIDE DEF after
  <2>1. \A p \in Path : owner.changes[p] \in [revision : Nat, after : Text]
        BY <1>1 DEF Owner
  <2> DEFINE c == [p \in Path |-> IF p \in DOMAIN after
                     THEN [revision |-> owner.revision + 1, after |-> after[p]] ELSE owner.changes[p]]
  <2>2. c \in [Path -> [revision : Nat, after : Text]]
        BY <1>1, <1>4, <2>1 DEF Owner
  <2>3. Committed(owner, after) = IF DOMAIN after = {} THEN owner
                                  ELSE [owner EXCEPT !.revision = @ + 1, !.changes = c]
        BY DEF Committed
  <2> HIDE DEF c
  <2>4. [owner EXCEPT !.revision = @ + 1, !.changes = c] \in Owner
    <3>1. PICK n \in Nat : n = owner.revision + 1
          BY <1>1 DEF Owner
    <3>2. [owner EXCEPT !.revision = n, !.changes = c] \in Owner
          BY <1>1, <2>2 DEF Owner
    <3> QED BY <3>1, <3>2
  <2> QED BY <1>1, <2>3, <2>4
<1>6. Invalidated(owner) \in Owner
      BY <1>1, <1>2 DEF Invalidated, NoChange, Owner
<1>7. owner' = CASE y.impact = "applied" -> Committed(owner, after)
                 [] y.impact \in {"drift", "uncertain"} -> Invalidated(owner)
                 [] OTHER -> owner
      BY DEF Settle
<1> HIDE DEF after
<1>8. /\ y.impact = "applied" => owner' = Committed(owner, after)
      /\ y.impact \in {"drift", "uncertain"} => owner' = Invalidated(owner)
      /\ y.impact \in {"unchanged", "rolled_back"} => owner' = owner
      BY <1>7
<1>9. owner' \in Owner
      BY <1>1, <1>5, <1>6, <1>8 DEF Impact
<1> QED BY <1>0, <1>8, <1>9 DEF after

\* A transaction goes on.
LEMMA PatchPlaces ==
  ASSUME Places, NEW t \in Thread, Patch(t)
  PROVE  Places'
<1>0. /\ NoLock /\ UNCHANGED jobVars
      /\ Stage(t) \/ Refuse(t) \/ (\E p \in Path : CommitFile(t, p)) \/ EndCommit(t)
         \/ RollbackFile(t) \/ EndRollback(t)
      BY DEF Patch
<1>1. /\ PlaceOK(t) /\ files \in [Path -> Text] /\ owner \in Owner /\ faults \in 0..MaxFaults
      /\ result \in [Thread -> Result]
      BY Here DEF PatchTypeOK, JobTypeOK
<1>2. NoWave /\ UNCHANGED <<job, tracked, rounds>> /\ result' \in [Thread -> Result]
      BY <1>0, <1>1 DEF jobVars, NoWave
<1>3. \A p \in DOMAIN tx[t].plan : p \in Path /\ tx[t].plan[p].content \in Text
      BY TxTypes
<1> DEFINE y == tx[t]
<1>4. CASE Stage(t)
  <2>1. /\ InTx(t, "stage") /\ UNCHANGED <<files, owner, faults>>
        /\ \E x \in Tx :
             /\ tx' = [tx EXCEPT ![t] = x] /\ x.plan = y.plan /\ x.committed = y.committed
             /\ \/ x.step = "settle" /\ x.originals = y.originals
                \/ x.step = "commit" /\ x.originals = [p \in DOMAIN y.plan |-> files[p]]
        BY <1>4, StageEffect
  <2>2. PICK x \in Tx :
             /\ tx' = [tx EXCEPT ![t] = x] /\ x.plan = y.plan /\ x.committed = y.committed
             /\ \/ x.step = "settle" /\ x.originals = y.originals
                \/ x.step = "commit" /\ x.originals = [p \in DOMAIN y.plan |-> files[p]]
        BY <2>1
  <2>3. /\ x.step # "none" /\ x.committed \subseteq DOMAIN x.plan
        /\ DOMAIN x.originals \subseteq DOMAIN x.plan
        /\ x.step \in {"commit", "rollback"} => DOMAIN x.originals = DOMAIN x.plan
        BY <1>1, <2>1, <2>2 DEF PlaceOK, InTx
  <2> QED BY <1>0, <1>1, <1>2, <2>1, <2>2, <2>3, TxMoves DEF InTx
<1>5. CASE Refuse(t)
  <2>1. InTx(t, "stage") /\ UNCHANGED <<files, owner>> /\ faults' \in 0..MaxFaults
        BY <1>5, RefuseEffect
  <2>2. PICK x \in Tx :
             /\ tx' = [tx EXCEPT ![t] = x] /\ x.plan = y.plan /\ x.committed = y.committed
             /\ x.step = "settle" /\ x.originals = y.originals
        BY <1>5, RefuseEffect
  <2>3. /\ x.step # "none" /\ x.committed \subseteq DOMAIN x.plan
        /\ DOMAIN x.originals \subseteq DOMAIN x.plan
        BY <1>1, <2>1, <2>2 DEF PlaceOK, InTx
  <2> QED BY <1>0, <1>1, <1>2, <2>1, <2>2, <2>3, TxMoves DEF InTx
<1>6. ASSUME NEW p \in Path, CommitFile(t, p) PROVE Places'
  <2>1. /\ InTx(t, "commit") /\ p \in DOMAIN y.plan /\ UNCHANGED owner /\ faults' \in 0..MaxFaults
        BY <1>6, CommitFileEffect
  <2>2. PICK x \in Tx :
              /\ tx' = [tx EXCEPT ![t] = x] /\ x.plan = y.plan /\ x.originals = y.originals
              /\ x.step = "commit"
              /\ \/ /\ x.committed = y.committed \cup {p}
                    /\ files' = [files EXCEPT ![p] = y.plan[p].content]
                 \/ x.committed = y.committed /\ files' = files
        BY <1>6, CommitFileEffect
  <2>3. files' \in [Path -> Text]
        BY <1>1, <1>3, <2>1, <2>2
  <2>4. /\ x.step # "none" /\ x.committed \subseteq DOMAIN x.plan
        /\ DOMAIN x.originals = DOMAIN x.plan
        BY <1>1, <2>1, <2>2 DEF PlaceOK, InTx
  <2> QED BY <1>0, <1>1, <1>2, <2>1, <2>2, <2>3, <2>4, TxMoves DEF InTx
<1>7. CASE EndCommit(t)
  <2>1. InTx(t, "commit") /\ UNCHANGED <<files, owner, faults>>
        BY <1>7, EndCommitEffect
  <2>2. PICK x \in Tx :
              /\ tx' = [tx EXCEPT ![t] = x] /\ x.plan = y.plan /\ x.originals = y.originals
              /\ x.committed = y.committed /\ x.step \in {"settle", "rollback"}
        BY <1>7, EndCommitEffect
  <2>3. /\ x.step # "none" /\ x.committed \subseteq DOMAIN x.plan
        /\ DOMAIN x.originals = DOMAIN x.plan
        BY <1>1, <2>1, <2>2 DEF PlaceOK, InTx
  <2> QED BY <1>0, <1>1, <1>2, <2>1, <2>2, <2>3, TxMoves DEF InTx
<1>8. CASE RollbackFile(t)
  <2>1. InTx(t, "rollback") /\ UNCHANGED owner /\ faults' \in 0..MaxFaults
        BY <1>8, RollbackFileEffect
  <2>2. PICK p \in y.committed, x \in Tx, c \in Text :
              /\ p \in Path
              /\ tx' = [tx EXCEPT ![t] = x] /\ x.plan = y.plan /\ x.originals = y.originals
              /\ x.step = "rollback" /\ x.committed = y.committed \ {p}
              /\ files' = [files EXCEPT ![p] = c]
        BY <1>8, RollbackFileEffect
  <2>3. files' \in [Path -> Text]
        BY <1>1, <2>2
  <2>4. /\ x.step # "none" /\ x.committed \subseteq DOMAIN x.plan
        /\ DOMAIN x.originals = DOMAIN x.plan
        BY <1>1, <2>1, <2>2 DEF PlaceOK, InTx
  <2> QED BY <1>0, <1>1, <1>2, <2>1, <2>2, <2>3, <2>4, TxMoves DEF InTx
<1>9. CASE EndRollback(t)
  <2>1. InTx(t, "rollback") /\ UNCHANGED <<files, owner, faults>>
        BY <1>9, EndRollbackEffect
  <2>2. PICK x \in Tx :
              /\ tx' = [tx EXCEPT ![t] = x] /\ x.plan = y.plan /\ x.originals = y.originals
              /\ x.committed = {} /\ x.step = "settle"
        BY <1>9, EndRollbackEffect
  <2>3. /\ x.step # "none" /\ x.committed \subseteq DOMAIN x.plan
        /\ DOMAIN x.originals = DOMAIN x.plan
        BY <1>1, <2>1, <2>2 DEF PlaceOK, InTx
  <2> QED BY <1>0, <1>1, <1>2, <2>1, <2>2, <2>3, TxMoves DEF InTx
<1> QED BY <1>0, <1>4, <1>5, <1>6, <1>7, <1>8, <1>9

\* A transaction ends.
LEMMA SettledPlaces ==
  ASSUME Places, NEW t \in Thread, Settled(t)
  PROVE  Places'
<1>0. /\ Settle(t) /\ Ends(t, tx[t].impact)
      /\ NoLock /\ NoWave /\ UNCHANGED <<job, tracked, rounds>>
      BY DEF Settled
<1>1. /\ files \in [Path -> Text] /\ faults \in 0..MaxFaults /\ tx[t].impact \in Impact
      /\ result \in [Thread -> Result]
      BY Here DEF PatchTypeOK, JobTypeOK, Tx
<1>2. result' \in [Thread -> Result]
      BY <1>0, <1>1, EndsTypes DEF Result
<1>3. /\ InTx(t, "settle") /\ UNCHANGED <<files, faults>> /\ tx' = [tx EXCEPT ![t] = NoTx]
      /\ owner' \in Owner
      BY <1>0, SettleEffect
<1>4. NoTx \in Tx /\ NoTx.step = "none"
      BY RestingTypes DEF NoTx
<1> QED BY <1>0, <1>1, <1>2, <1>3, <1>4, TxMoves DEF InTx

\* No step of any thread leaves the places.
LEMMA PlacesNext == Places /\ [Next]_vars => Places'
<1> SUFFICES ASSUME Places, [Next]_vars PROVE Places'
    OBVIOUS
<1>1. CASE UNCHANGED vars
  <2>1. LockInv'
        BY <1>1, LockStays DEF Places, vars
  <2>2. TypeOK'
        BY <1>1, <2>1 DEF Places, TypeOK, LockInv, PatchTypeOK, vars, patchVars, jobVars
  <2>3. ASSUME NEW u \in Thread PROVE PlaceOK(u)'
    <3>1. PlaceOK(u)
          BY DEF Places, PlaceInv
    <3> QED BY <1>1, <3>1 DEF PlaceOK, InWave, Top, vars, lockVars, patchVars, jobVars
  <2> QED BY <2>1, <2>2, <2>3 DEF Places, PlaceInv
<1>2. ASSUME NEW t \in Thread, Step(t) \/ TimeOut(t) \/ Start(t) PROVE Places'
  <2>1. CASE Gate(t) \/ Regate(t) \/ WaitGate(t) \/ TimeOut(t)
        BY <2>1, GatePlaces, RegatePlaces, WaitGatePlaces, TimeOutPlaces
  <2>2. CASE Open(t) \/ WaitScope(t) \/ Take(t)
        BY <2>2, OpenPlaces, WaitScopePlaces, TakePlaces
  <2>3. CASE JoinWave(t) \/ LockWave(t) \/ MakeWave(t) \/ LeaveWave(t)
        BY <2>3, JoinWavePlaces, LockWavePlaces, MakeWavePlaces, LeaveWavePlaces
  <2>4. CASE NoteRevision(t) \/ ReadFile(t) \/ Track(t)
        BY <2>4, NoteRevisionPlaces, ReadFilePlaces, TrackPlaces
  <2>5. CASE Apply(t) \/ Skip(t) \/ GiveUp(t) \/ Patch(t) \/ Settled(t)
        BY <2>5, ApplyPlaces, SkipPlaces, GiveUpPlaces, PatchPlaces, SettledPlaces
  <2>6. CASE Drop(t) \/ Exit(t) \/ Ungate(t) \/ End(t) \/ Start(t)
        BY <2>6, DropPlaces, ExitPlaces, UngatePlaces, EndPlaces, StartPlaces
  <2> QED BY <1>2, <2>1, <2>2, <2>3, <2>4, <2>5, <2>6 DEF Step
<1> QED BY <1>1, <1>2 DEF Next

\* The writer is alone: no other thread is inside a scope.
LEMMA WriterAlone ==
  ASSUME Places, NEW u \in Thread, writer # Null, writer # u
  PROVE  Len(scopes[u]) = 0
<1>1. LockTypeOK /\ CountOK /\ scopedTotal = 0
      BY DEF Places, LockInv, CountOK
<1>2. scopedDepth[u] = 0
      BY <1>1, NoneInside
<1> QED BY <1>1, <1>2 DEF CountOK

\* The places exclude a transaction halfway under another thread's coarse lock.
LEMMA PlacesExclude == Places => NeverHalfway
<1> SUFFICES ASSUME Places, NEW t \in Thread, NEW u \in Thread, writer = t, Midway(u), t # u
             PROVE  FALSE
    BY DEF NeverHalfway
<1>1. Len(scopes[u]) = 0
      BY LockAssumption, WriterAlone
<1>2. PlaceOK(u) /\ tx[u].step \notin {"none", "stage"}
      BY Here DEF Midway
<1>3. at[u] = "run" /\ Len(scopes[u]) > 0
      BY <1>2 DEF PlaceOK
<1> QED BY <1>1, <1>3

-----------------------------------------------------------------------------
(* What the lock guarantees                                                *)

\* The types, the lock's bookkeeping and the places of the threads are an inductive
\* invariant.
THEOREM PlacesInvariant == Spec => []Places
<1>1. Init => Places
      BY PlacesInit
<1>2. Places /\ [Next]_vars => Places'
      BY PlacesNext
<1> QED BY <1>1, <1>2, PTL DEF Spec

\* Every variable keeps its type.
THEOREM ProjectTypes == Spec => []TypeOK
<1>1. Places => TypeOK
      BY DEF Places
<1> QED BY <1>1, PlacesInvariant, PTL

\* Taking the path locks in lexical order is deadlock-free for any number of threads and
\* paths, nested scopes and re-entered locks included (project_path_write_locks).
THEOREM PathLocksDeadlockFree == Spec => []NoPathDeadlock
<1>1. Places => NoPathDeadlock
      BY LockOrder DEF Places
<1> QED BY <1>1, PlacesInvariant, PTL

\* A thread inside project_write_lock never overlaps the commit, rollback or report of
\* another thread's transaction.
THEOREM CoarseLockExcludes == Spec => []NeverHalfway
<1>1. Places => NeverHalfway
      BY PlacesExclude
<1> QED BY <1>1, PlacesInvariant, PTL

-----------------------------------------------------------------------------
(* Texts: steps that write no file                                         *)

\* No file, transaction, result or verification changes; what t has seen it may forget,
\* or share as the base of a wave.
Quiet(t) ==
  /\ files' = files /\ owner' = owner /\ tx' = tx /\ result' = result /\ tracked' = tracked
  /\ \A u \in Thread : u # t => job'[u] = job[u]
  /\ job'[t].kind = job[t].kind
  /\ \A p \in DOMAIN job'[t].seen : p \in DOMAIN job[t].seen /\ job'[t].seen[p] = job[t].seen[p]
  /\ job'[t].pc = "read" => job[t].pc = "read" \/ DOMAIN job'[t].seen = {}
  /\ job'[t].pc \notin {"read", "leave"} => DOMAIN job'[t].seen = {}
  /\ job'[t].kind = "generate" /\ job'[t].pc \notin {"idle", "leave"} =>
       job[t].pc \notin {"idle", "leave"} \/ result[t] = "none"
  /\ job'[t].kind = "verify" /\ job'[t].pc = "read" =>
       \/ job'[t].rev = <<owner.id, owner.revision>>
       \/ job[t].pc = "read" /\ job'[t].rev = job[t].rev
  /\ wave' # Null =>
       \/ wave # Null /\ wave'.base = wave.base
       \/ \A p \in Path : p \in DOMAIN job[t].seen /\ wave'.base[p] = job[t].seen[p]

\* Such a step breaks nothing that is known of the texts.
LEMMA QuietKeeps ==
  ASSUME Places, TextInv, NEW t \in Thread, Quiet(t)
  PROVE  TextInv'
<1>0. \A u \in Thread : TextOK(u) /\ Target[u] \subseteq Path
      BY Here DEF TextInv, TextOK
<1>1. files' = files /\ owner' = owner /\ tx' = tx /\ result' = result /\ tracked' = tracked
      BY DEF Quiet
<1>2. ASSUME NEW u \in Thread PROVE PlanOK(u)' /\ StageOK(u)' /\ (Staged(tx[u]) => result[u] # "applied")'
      BY <1>0, <1>1 DEF TextOK, PlanOK, StageOK, Staged, Progress, Edits
<1>3. ASSUME NEW u \in Thread PROVE ChangeOK(u)'
  <2>1. ChangeOK(u)
        BY <1>0 DEF TextOK
  <2> QED BY <1>1, <2>1 DEF ChangeOK, Differs, Writes, Staged
<1>4. ASSUME NEW u \in Thread, NEW p \in Target[u] PROVE ResultOK(u, p)'
  <2>1. ResultOK(u, p)
        BY <1>0 DEF TextOK
  <2>2. /\ Keeps(u, p)' <=> Keeps(u, p)
        /\ Writes(u, p)' <=> Writes(u, p)
        BY <1>1 DEF Keeps, Writes, Staged, Edits
  <2>3. job'[u].pc = "read" /\ p \in DOMAIN job'[u].seen =>
          job[u].pc = "read" /\ p \in DOMAIN job[u].seen /\ job'[u].seen[p] = job[u].seen[p]
    <3>1. CASE u = t
          BY <3>1 DEF Quiet
    <3>2. CASE u # t
          BY <3>2 DEF Quiet
    <3> QED BY <3>1, <3>2
  <2> QED BY <1>1, <2>1, <2>2, <2>3 DEF ResultOK, Edits
<1>5. ASSUME NEW u \in Thread PROVE SeenOK(u)'
  <2> SUFFICES ASSUME Fresh(u)', NEW p \in Target[u]
               PROVE  /\ \A o \in Thread : p \in DOMAIN job'[o].seen => u \notin Edits(job'[o].seen[p])
                      /\ wave' # Null => u \notin Edits(wave'.base[p])
      BY DEF SeenOK, Edits
  <2>1. Fresh(u) /\ p \in Path
        BY <1>0, <1>1 DEF Fresh, Staged
  <2>2. /\ \A o \in Thread : p \in DOMAIN job[o].seen => u \notin Edits(job[o].seen[p])
        /\ wave # Null => u \notin Edits(wave.base[p])
        BY <1>0, <2>1 DEF TextOK, SeenOK
  <2>3. ASSUME NEW o \in Thread, p \in DOMAIN job'[o].seen PROVE u \notin Edits(job'[o].seen[p])
    <3>1. CASE o = t
          BY <2>2, <2>3, <3>1 DEF Quiet
    <3>2. CASE o # t
          BY <2>2, <2>3, <3>2 DEF Quiet
    <3> QED BY <3>1, <3>2
  <2>4. ASSUME wave' # Null PROVE u \notin Edits(wave'.base[p])
        BY <2>1, <2>2, <2>4 DEF Quiet
  <2> QED BY <2>3, <2>4
<1>6. ASSUME NEW u \in Thread PROVE ReadOK(u)'
  <2>1. ReadOK(u)
        BY <1>0 DEF TextOK
  <2>2. CASE u # t
    <3>1. job'[u] = job[u]
          BY <2>2 DEF Quiet
    <3> QED BY <1>1, <2>1, <3>1 DEF ReadOK
  <2>3. CASE u = t
    <3>1. job'[t].pc \notin {"read", "leave"} => DOMAIN job'[t].seen = {}
          BY DEF Quiet
    <3>2. job'[t].kind = "generate" /\ job'[t].pc \notin {"idle", "leave"} => result[t] = "none"
          BY <2>1, <2>3 DEF Quiet, ReadOK
    <3>3. ASSUME job'[t].kind = "verify", job'[t].pc = "read"
          PROVE  /\ job'[t].rev = <<owner.id, owner.revision>>
                 /\ \A p \in DOMAIN job'[t].seen : job'[t].seen[p] = files[p]
          BY <2>1, <2>3, <3>3 DEF Quiet, ReadOK
    <3> QED BY <1>1, <2>3, <3>1, <3>2, <3>3 DEF ReadOK
  <2> QED BY <2>2, <2>3
<1> QED BY <1>2, <1>3, <1>4, <1>5, <1>6 DEF TextInv, TextOK

\* Steps of the lock alone.
LEMMA LockOnlyQuiet ==
  ASSUME Places, TextInv, NEW t \in Thread, NoPatch, UNCHANGED jobVars
  PROVE  Quiet(t)
<1>1. ReadOK(t)
      BY DEF TextInv, TextOK
<1> QED BY <1>1 DEF Quiet, NoPatch, patchVars, jobVars, ReadOK

\* A step that moves the job, and neither reads nor ends it.
LEMMA GotoQuiet ==
  ASSUME Places, TextInv, NEW t \in Thread, NoPatch, UNCHANGED <<result, tracked>>, NEW pc \in PC,
         Goto(t, pc),
         pc = "read" => job[t].pc \notin {"read", "leave"} /\ job[t].kind # "verify",
         pc \notin {"read", "leave"} => job[t].pc \notin {"read", "leave"},
         job[t].kind = "generate" /\ pc \notin {"idle", "leave"} =>
           job[t].pc \notin {"idle", "leave"} \/ result[t] = "none",
         wave' # Null => wave # Null /\ wave'.base = wave.base
  PROVE  Quiet(t)
<1>1. ReadOK(t) /\ job \in [Thread -> Job]
      BY Here DEF TextInv, TextOK
<1>2. /\ job'[t].pc = pc /\ job'[t].kind = job[t].kind
      /\ job'[t].seen = job[t].seen
      /\ \A u \in Thread : u # t => job'[u] = job[u]
      BY <1>1, GotoTypes
<1> QED BY <1>1, <1>2 DEF Quiet, ReadOK, NoPatch, patchVars

\* The job is over.
LEMMA IdleQuiet ==
  ASSUME Places, TextInv, NEW t \in Thread, NoPatch, UNCHANGED <<result, tracked>>, Idle(t),
         wave' # Null => wave # Null /\ wave'.base = wave.base
  PROVE  Quiet(t)
<1>1. "idle" \in PC /\ job \in [Thread -> Job]
      BY Here DEF PC
<1>2. /\ job'[t].pc = "idle" /\ job'[t].kind = job[t].kind
      /\ DOMAIN job'[t].seen = {}
      /\ \A u \in Thread : u # t => job'[u] = job[u]
      BY <1>1, GotoTypes, NothingIsPartial
<1> QED BY <1>2 DEF Quiet, NoPatch, patchVars

\* Every step but those that read, apply, write or end.
LEMMA QuietSteps ==
  ASSUME Places, TextInv, NEW t \in Thread,
         \/ Gate(t) \/ Regate(t) \/ WaitGate(t) \/ TimeOut(t)
         \/ Open(t) \/ WaitScope(t) \/ Take(t)
         \/ JoinWave(t) \/ LockWave(t) \/ MakeWave(t) \/ LeaveWave(t)
         \/ NoteRevision(t) \/ Skip(t)
         \/ Drop(t) \/ Exit(t) \/ Ungate(t) \/ End(t) \/ Start(t)
  PROVE  Quiet(t)
<1>1. CASE Regate(t) \/ WaitGate(t) \/ WaitScope(t) \/ Take(t) \/ Drop(t) \/ Exit(t) \/ Ungate(t)
      BY <1>1, LockOnlyQuiet DEF Regate, WaitGate, WaitScope, Take, Drop, Exit, Ungate
<1>2. CASE TimeOut(t) \/ End(t)
      BY <1>2, IdleQuiet DEF TimeOut, End, NoWave, NoEnd
<1>3. /\ PlaceOK(t) /\ job \in [Thread -> Job] /\ job[t].kind \in Kind /\ job[t] \in Job
      /\ wave \in Wave \cup {Null} /\ ReadOK(t)
      BY Here DEF JobTypeOK, TextInv, TextOK
<1>4. CASE LeaveWave(t)
  <2>1. /\ NoPatch /\ NoEnd /\ Idle(t) /\ InWave(t)
        /\ wave' = IF wave.active = {t} THEN Null ELSE [wave EXCEPT !.active = @ \ {t}]
        BY <1>4 DEF LeaveWave
  <2>2. wave # Null /\ wave \in Wave
        BY <1>3, <2>1 DEF InWave
  <2>3. wave' # Null => wave'.base = wave.base
        BY <2>1, <2>2 DEF Wave
  <2> QED BY <2>1, <2>2, <2>3, IdleQuiet DEF NoEnd
<1>5. CASE JoinWave(t)
  <2>1. /\ NoPatch /\ NoEnd /\ On(t, "wave") /\ Goto(t, "open") /\ wave # Null
        /\ wave' = [wave EXCEPT !.active = @ \cup {t}]
        BY <1>5 DEF JoinWave
  <2>2. wave'.base = wave.base
        BY <1>3, <2>1 DEF Wave
  <2> QED BY <2>1, <2>2, GotoQuiet DEF NoEnd, On, PC
<1>6. CASE LockWave(t)
      BY <1>6, GotoQuiet DEF LockWave, NoEnd, On, PC
<1>7. CASE Skip(t)
      BY <1>7, GotoQuiet DEF Skip, NoEnd, NoWave, PC
<1>8. CASE Open(t)
  <2>1. /\ NoPatch /\ NoEnd /\ NoWave /\ On(t, "open") /\ Goto(t, "read")
        BY <1>8 DEF Open
  <2>2. job[t].kind # "verify" /\ job[t].pc = "open"
        BY <1>3, <2>1 DEF PlaceOK, On
  <2> QED BY <2>1, <2>2, GotoQuiet DEF NoEnd, NoWave, PC
<1>9. CASE Gate(t)
  <2>1. /\ NoPatch /\ NoEnd /\ NoWave
        /\ \/ On(t, "gate") /\ Goto(t, IF job[t].kind = "verify" THEN "rev" ELSE "read")
           \/ On(t, "snap") /\ Goto(t, "read")
        BY <1>9 DEF Gate
  <2>2. PICK pc \in {"rev", "read"} : /\ Goto(t, pc) /\ job[t].pc \in {"gate", "snap"}
                                      /\ pc = "read" => job[t].kind # "verify"
        BY <1>3, <2>1 DEF PlaceOK, On
  <2>3. pc \in PC
        BY DEF PC
  <2> QED BY <2>1, <2>2, <2>3, GotoQuiet DEF NoEnd, NoWave
<1>10. CASE Start(t)
  <2> DEFINE k == job[t].kind
  <2>1. /\ NoPatch /\ NoWave /\ On(t, "idle") /\ Goto(t, FirstPC(k)) /\ UNCHANGED <<result, tracked>>
        /\ k = "generate" => result[t] = "none"
        BY <1>10 DEF Start
  <2>2. FirstPC(k) = IF k = "edit" THEN "open" ELSE IF k = "patch" THEN "read"
                     ELSE IF k = "generate" THEN "wave" ELSE "gate"
        BY <1>3 DEF FirstPC, Kind
  <2>3. PICK pc \in {"open", "read", "wave", "gate"} :
              Goto(t, pc) /\ (pc = "read" => k # "verify") /\ job[t].pc = "idle"
        BY <2>1, <2>2 DEF On
  <2>4. pc \in PC
        BY DEF PC
  <2> QED BY <2>1, <2>3, <2>4, GotoQuiet DEF NoWave
<1>11. CASE NoteRevision(t)
  <2>1. /\ NoPatch /\ NoWave /\ NoEnd /\ On(t, "rev")
        /\ job' = [job EXCEPT ![t].pc = "read", ![t].rev = <<owner.id, owner.revision>>]
        BY <1>11 DEF NoteRevision
  <2>2. /\ job'[t].pc = "read" /\ job'[t].rev = <<owner.id, owner.revision>>
        /\ job'[t].kind = job[t].kind /\ job'[t].seen = job[t].seen
        /\ \A u \in Thread : u # t => job'[u] = job[u]
        BY <1>3, <2>1 DEF Job
  <2>3. DOMAIN job[t].seen = {} /\ job[t].pc = "rev"
        BY <1>3, <2>1 DEF ReadOK, On
  <2> QED BY <2>1, <2>2, <2>3 DEF Quiet, NoPatch, patchVars, NoWave, NoEnd
<1>12. CASE MakeWave(t)
  <2>1. /\ NoPatch /\ NoEnd /\ On(t, "read") /\ DOMAIN job[t].seen = Path
        /\ wave' = [base |-> job[t].seen, active |-> {t}]
        /\ job' = [job EXCEPT ![t].pc = "open", ![t].seen = <<>>]
        BY <1>12 DEF MakeWave
  <2>2. /\ job'[t].pc = "open" /\ DOMAIN job'[t].seen = {} /\ job'[t].kind = job[t].kind
        /\ \A u \in Thread : u # t => job'[u] = job[u]
        BY <1>3, <2>1, NothingIsPartial DEF Job
  <2>3. wave'.base = job[t].seen
        BY <2>1
  <2> QED BY <2>1, <2>2, <2>3 DEF Quiet, NoPatch, patchVars, NoEnd, On
<1> QED BY <1>1, <1>2, <1>4, <1>5, <1>6, <1>7, <1>8, <1>9, <1>10, <1>11, <1>12

\* A file is read.
LEMMA ReadFileTexts ==
  ASSUME Places, TextInv, NEW t \in Thread, ReadFile(t)
  PROVE  TextInv'
<1>0. \A u \in Thread : TextOK(u) /\ Target[u] \subseteq Path
      BY Here DEF TextInv
<1>1. /\ files' = files /\ owner' = owner /\ tx' = tx /\ result' = result /\ tracked' = tracked
      /\ wave' = wave
      BY DEF ReadFile, NoPatch, patchVars, NoEnd, NoWave
<1>2. PICK r \in Path :
        /\ On(t, "read") /\ job'[t].pc = "read" /\ job'[t].kind = job[t].kind
        /\ job'[t].rev = job[t].rev
        /\ DOMAIN job'[t].seen = DOMAIN job[t].seen \cup {r}
        /\ job'[t].seen[r] = files[r]
        /\ \A q \in DOMAIN job[t].seen : q # r => job'[t].seen[q] = job[t].seen[q]
        /\ \A u \in Thread : u # t => job'[u] = job[u]
      BY ReadFileEffect
<1>3. ASSUME NEW u \in Thread PROVE PlanOK(u)' /\ StageOK(u)' /\ (Staged(tx[u]) => result[u] # "applied")'
      BY <1>0, <1>1 DEF TextOK, PlanOK, StageOK, Staged, Progress, Edits
<1>4. ASSUME NEW u \in Thread PROVE ChangeOK(u)'
  <2>1. ChangeOK(u)
        BY <1>0 DEF TextOK
  <2> QED BY <1>1, <2>1 DEF ChangeOK, Differs, Writes, Staged
<1>5. ASSUME NEW u \in Thread, NEW p \in Target[u] PROVE ResultOK(u, p)'
  <2>1. ResultOK(u, p)
        BY <1>0 DEF TextOK
  <2>2. /\ Keeps(u, p)' <=> Keeps(u, p)
        /\ Writes(u, p)' <=> Writes(u, p)
        BY <1>1 DEF Keeps, Writes, Staged, Edits
  <2>3. job'[u].pc = "read" /\ p \in DOMAIN job'[u].seen /\ u \in Edits(job'[u].seen[p]) => Keeps(u, p)
    <3>1. CASE u # t
          BY <1>2, <2>1, <3>1 DEF ResultOK
    <3>2. CASE u = t /\ p = r
          BY <1>2, <3>2 DEF Keeps
    <3>3. CASE u = t /\ p # r
          BY <1>2, <2>1, <3>3 DEF ResultOK, On
    <3> QED BY <3>1, <3>2, <3>3
  <2> QED BY <1>1, <2>1, <2>2, <2>3 DEF ResultOK, Edits
<1>6. ASSUME NEW u \in Thread PROVE SeenOK(u)'
  <2> SUFFICES ASSUME Fresh(u)', NEW p \in Target[u]
               PROVE  /\ \A o \in Thread : p \in DOMAIN job'[o].seen => u \notin Edits(job'[o].seen[p])
                      /\ wave' # Null => u \notin Edits(wave'.base[p])
      BY DEF SeenOK, Edits
  <2>1. Fresh(u) /\ p \in Path
        BY <1>0, <1>1 DEF Fresh, Staged
  <2>2. /\ \A o \in Thread : p \in DOMAIN job[o].seen => u \notin Edits(job[o].seen[p])
        /\ wave # Null => u \notin Edits(wave.base[p])
        BY <1>0, <2>1 DEF TextOK, SeenOK
  <2>3. u \notin Edits(files[p])
        BY <1>0, <2>1 DEF TextOK, ResultOK, Fresh, Writes
  <2>4. ASSUME NEW o \in Thread, p \in DOMAIN job'[o].seen PROVE u \notin Edits(job'[o].seen[p])
    <3>1. CASE o = t /\ p = r
          BY <1>2, <2>3, <3>1
    <3>2. CASE o = t /\ p # r
          BY <1>2, <2>2, <2>4, <3>2
    <3>3. CASE o # t
          BY <1>2, <2>2, <2>4, <3>3
    <3> QED BY <3>1, <3>2, <3>3
  <2> QED BY <1>1, <2>2, <2>4
<1>7. ASSUME NEW u \in Thread PROVE ReadOK(u)'
  <2>1. ReadOK(u)
        BY <1>0 DEF TextOK
  <2>2. CASE u # t
        BY <1>1, <1>2, <2>1, <2>2 DEF ReadOK
  <2>3. CASE u = t
        BY <1>1, <1>2, <2>1, <2>3 DEF ReadOK, On
  <2> QED BY <2>2, <2>3
<1> QED BY <1>3, <1>4, <1>5, <1>6, <1>7 DEF TextInv, TextOK

\* While a verifier reads, nobody writes.
LEMMA VerifierAlone ==
  ASSUME Places, NEW t \in Thread, job[t].kind = "verify", job[t].pc = "read", NEW u \in Thread
  PROVE  tx[u].step \in {"none", "stage"} /\ ~Staged(tx[u])
<1>1. PlaceOK(t) /\ tx[u] \in Tx
      BY Here
<1>2. writer = t /\ tx[t].step = "none"
      BY <1>1 DEF PlaceOK
<1>3. ~Midway(u)
      BY <1>2, PlacesExclude DEF NeverHalfway, Midway
<1> QED BY <1>1, <1>3 DEF Midway, Staged, Tx, TxStep

\* A verification is kept.
LEMMA TrackTexts ==
  ASSUME Places, TextInv, NEW t \in Thread, Track(t)
  PROVE  TextInv'
<1>0. \A u \in Thread : TextOK(u) /\ Target[u] \subseteq Path
      BY Here DEF TextInv
<1>1. /\ files' = files /\ owner' = owner /\ tx' = tx /\ result' = result /\ wave' = wave
      /\ HasRead(t, {"verify"}) /\ Goto(t, "leave")
      /\ tracked' = IF job[t].rev = <<owner.id, owner.revision>>
                    THEN [tracked EXCEPT ![t] = [rev |-> job[t].rev, seen |-> job[t].seen]]
                    ELSE tracked
      BY DEF Track, NoPatch, patchVars, NoWave
<1>2. job[t].kind = "verify" /\ DOMAIN job[t].seen = Path /\ job[t].pc = "read"
      BY <1>1, AllRead DEF On
<1>3. /\ job'[t].pc = "leave" /\ job'[t].kind = job[t].kind
      /\ job'[t].seen = job[t].seen /\ \A u \in Thread : u # t => job'[u] = job[u]
      BY <1>1, Here, GotoTypes DEF PC
<1>4. \A u \in Thread : job'[u].seen = job[u].seen /\ job'[u].kind = job[u].kind
      BY <1>3
<1>5. ASSUME NEW u \in Thread PROVE PlanOK(u)' /\ StageOK(u)' /\ (Staged(tx[u]) => result[u] # "applied")'
      BY <1>0, <1>1 DEF TextOK, PlanOK, StageOK, Staged, Progress, Edits
<1>6. ASSUME NEW u \in Thread, NEW p \in Target[u] PROVE ResultOK(u, p)'
  <2>1. ResultOK(u, p)
        BY <1>0 DEF TextOK
  <2>2. /\ Keeps(u, p)' <=> Keeps(u, p)
        /\ Writes(u, p)' <=> Writes(u, p)
        BY <1>1 DEF Keeps, Writes, Staged, Edits
  <2>3. job'[u].pc = "read" => job[u].pc = "read"
        BY <1>3
  <2> QED BY <1>1, <1>4, <2>1, <2>2, <2>3 DEF ResultOK, Edits
<1>7. ASSUME NEW u \in Thread PROVE SeenOK(u)'
      BY <1>0, <1>1, <1>4 DEF TextOK, SeenOK, Fresh, Staged, Edits
<1>8. ASSUME NEW u \in Thread PROVE ReadOK(u)'
  <2>1. ReadOK(u)
        BY <1>0 DEF TextOK
  <2>2. CASE u # t
        BY <1>1, <1>3, <2>1, <2>2 DEF ReadOK
  <2>3. CASE u = t
        BY <1>3, <2>3 DEF ReadOK
  <2> QED BY <2>2, <2>3
<1>9. ASSUME NEW v \in Thread PROVE ChangeOK(v)'
  <2>1. ChangeOK(v) /\ tracked \in [Thread -> [rev : Nat \X Nat, seen : [Path -> Text]] \cup {Null}]
        BY <1>0, Here DEF TextOK, JobTypeOK
  <2>2. CASE tracked'[v] = tracked[v]
    <3>1. \A p \in Path : Differs(v, p)' <=> Differs(v, p)
          BY <1>1, <2>2 DEF Differs, Writes, Staged
    <3> QED BY <1>1, <2>1, <2>2, <3>1 DEF ChangeOK
  <2>3. CASE tracked'[v] # tracked[v]
    <3>1. /\ v = t /\ job[t].rev = <<owner.id, owner.revision>>
          /\ tracked'[t] = [rev |-> job[t].rev, seen |-> job[t].seen]
          BY <1>1, <2>1, <2>3
    <3>2. tracked'[t].seen = job[t].seen /\ tracked'[t].rev = <<owner.id, owner.revision>>
          BY <3>1
    <3>3. \A p \in Path : files[p] = job[t].seen[p]
          BY <1>0, <1>2 DEF TextOK, ReadOK
    <3>4. \A u \in Thread, p \in Path : ~Writes(u, p)
          BY <1>2, VerifierAlone DEF Writes
    <3>5. \A p \in Path : ~Differs(t, p)'
          BY <1>1, <3>2, <3>3, <3>4 DEF Differs, Writes, Staged
    <3>6. owner.id \in Nat /\ owner.revision \in Nat
          BY Here DEF PatchTypeOK, Owner
    <3> QED BY <1>1, <3>1, <3>2, <3>5, <3>6 DEF ChangeOK
  <2> QED BY <2>2, <2>3
<1> QED BY <1>5, <1>6, <1>7, <1>8, <1>9 DEF TextInv, TextOK

\* A writing job gives up.
LEMMA GiveUpTexts ==
  ASSUME Places, TextInv, NEW t \in Thread, GiveUp(t)
  PROVE  TextInv'
<1>0. \A u \in Thread : TextOK(u) /\ Target[u] \subseteq Path
      BY Here DEF TextInv
<1>1. /\ files' = files /\ owner' = owner /\ tx' = tx /\ tracked' = tracked /\ wave' = wave
      /\ HasRead(t, Writers) /\ Goto(t, "leave")
      /\ Ends(t, IF job[t].kind = "generate" THEN "conflict" ELSE "invalid")
      BY DEF GiveUp, NoPatch, patchVars, NoWave
<1>2. job[t].kind # "verify" /\ tx[t].step = "none"
      BY <1>1, AllRead DEF On, Writers
<1>3. /\ job'[t].pc = "leave" /\ job'[t].kind = job[t].kind
      /\ job'[t].seen = job[t].seen /\ \A u \in Thread : u # t => job'[u] = job[u]
      BY <1>1, Here, GotoTypes DEF PC
<1>4. \A u \in Thread : job'[u].seen = job[u].seen /\ job'[u].kind = job[u].kind
      BY <1>3
<1>5. /\ \A u \in Thread : u # t => result'[u] = result[u]
      /\ \/ result'[t] = result[t]
         \/ result[t] \notin {"applied", "uncertain"} /\ result'[t] \in {"conflict", "invalid"}
  <2>1. PICK r \in {"conflict", "invalid"} : Ends(t, r)
        BY <1>1
  <2>2. r \in Result /\ result \in [Thread -> Result]
        BY Here DEF JobTypeOK, Result
  <2> QED BY <2>1, <2>2, EndsTypes
<1>6. ASSUME NEW u \in Thread PROVE PlanOK(u)' /\ StageOK(u)' /\ (Staged(tx[u]) => result[u] # "applied")'
  <2>1. result'[u] = "applied" => result[u] = "applied"
        BY <1>5
  <2> QED BY <1>0, <1>1, <2>1 DEF TextOK, PlanOK, StageOK, Staged, Progress, Edits
<1>7. ASSUME NEW u \in Thread, NEW p \in Target[u] PROVE ResultOK(u, p)'
  <2>1. ResultOK(u, p)
        BY <1>0 DEF TextOK
  <2>2. /\ Keeps(u, p)' <=> Keeps(u, p)
        /\ Writes(u, p)' <=> Writes(u, p)
        BY <1>1 DEF Keeps, Writes, Staged, Edits
  <2>3. job'[u].pc = "read" => job[u].pc = "read"
        BY <1>3
  <2>4. /\ result'[u] = "applied" => result[u] = "applied"
        /\ result'[u] \notin {"applied", "uncertain"} => result[u] \notin {"applied", "uncertain"}
        BY <1>5
  <2> QED BY <1>1, <1>4, <2>1, <2>2, <2>3, <2>4 DEF ResultOK, Edits
<1>8. ASSUME NEW u \in Thread PROVE SeenOK(u)'
  <2>1. Fresh(u)' => Fresh(u)
        BY <1>1, <1>5 DEF Fresh, Staged
  <2> QED BY <1>0, <1>1, <1>4, <2>1 DEF TextOK, SeenOK, Edits
<1>9. ASSUME NEW u \in Thread PROVE ReadOK(u)'
  <2>1. ReadOK(u)
        BY <1>0 DEF TextOK
  <2>2. CASE u # t
        BY <1>1, <1>3, <1>5, <2>1, <2>2 DEF ReadOK
  <2>3. CASE u = t
        BY <1>3, <2>3 DEF ReadOK
  <2> QED BY <2>2, <2>3
<1>10. ASSUME NEW v \in Thread PROVE ChangeOK(v)'
  <2>1. ChangeOK(v)
        BY <1>0 DEF TextOK
  <2> QED BY <1>1, <2>1 DEF ChangeOK, Differs, Writes, Staged
<1> QED BY <1>6, <1>7, <1>8, <1>9, <1>10 DEF TextInv, TextOK

\* The plan of a job that goes to the patcher adds the edit of the job where it lacks.
LEMMA PlanAdds ==
  ASSUME Places, TextInv, NEW t \in Thread, HasRead(t, Writers), ~Unusable(t), NEW p \in Target[t]
  PROVE  /\ p \in DOMAIN Plan(t) => LET op == Plan(t)[p]
                                    IN  /\ op.expected # Torn /\ t \notin Edits(op.expected)
                                        /\ op.content = Edits(op.expected) \cup {t}
         /\ p \notin DOMAIN Plan(t) => t \in Edits(job[t].seen[p])
<1> DEFINE live == job[t].seen[p]
           base == wave.base[p]
<1>1. /\ On(t, "read") /\ job[t].kind \in Writers
      BY AllRead
<1>2. /\ live \in Text /\ p \in DOMAIN job[t].seen
      /\ p \in DOMAIN Plan(t) => Plan(t)[p].expected = live
      BY PlanShape
<1>3. CASE job[t].kind # "generate"
  <2>1. /\ p \in DOMAIN Plan(t) <=> t \notin Edits(live)
        /\ p \in DOMAIN Plan(t) => Plan(t)[p].content = Edits(live) \cup {t}
        BY <1>3, PlanShape
  <2>2. live # Torn
        BY <1>3 DEF Unusable
  <2> QED BY <1>2, <2>1, <2>2
<1>4. CASE job[t].kind = "generate"
  <2>1. /\ wave # Null /\ base \in Text
        /\ p \in DOMAIN Plan(t) <=> live # Desired(t, p)
        /\ p \in DOMAIN Plan(t) => Plan(t)[p].content = Merge3(Edits(base), Desired(t, p), Edits(live))
        BY <1>4, PlanShape
  <2>2. ReadOK(t) /\ SeenOK(t)
        BY DEF TextInv, TextOK
  <2>3. Fresh(t)
        BY <1>1, <1>4, <2>2 DEF ReadOK, On, Fresh, Staged
  <2>4. t \notin Edits(live) /\ t \notin Edits(base)
        BY <1>2, <2>1, <2>2, <2>3 DEF SeenOK
  <2>5. Desired(t, p) = Edits(base) \cup {t} /\ ~Clashes(t, p)
        BY <1>4 DEF Desired, Unusable
  <2>6. Edits(live) \subseteq Thread /\ Edits(base) \subseteq Thread
        BY <1>2, <2>1, EditsOf
  <2>7. Edits(Desired(t, p)) = Desired(t, p)
    <3>1. Desired(t, p) \in SUBSET Thread
          BY <2>5, <2>6
    <3> QED BY <3>1, EditsOf
  <2>8. live # Desired(t, p)
        BY <2>4, <2>5, <2>7
  <2>9. live # Torn /\ (base = Absent => live = Absent)
        BY <2>5, <2>8, TextAssumption DEF Clashes
  <2>10. Merge3(Edits(base), Desired(t, p), Edits(live)) = Edits(live) \cup {t}
         BY <2>4, <2>5 DEF Merge3
  <2> QED BY <1>2, <2>1, <2>4, <2>8, <2>9, <2>10
<1> QED BY <1>3, <1>4

\* The operations go to the patcher.
LEMMA ApplyTexts ==
  ASSUME Places, TextInv, NEW t \in Thread, Apply(t)
  PROVE  TextInv'
<1>0. \A u \in Thread : TextOK(u) /\ Target[u] \subseteq Path
      BY Here DEF TextInv
<1>1. /\ files' = files /\ owner' = owner /\ result' = result /\ tracked' = tracked /\ wave' = wave
      /\ HasRead(t, Writers) /\ ~Unusable(t)
      BY DEF Apply, NoWave, NoEnd
<1>2. /\ tx'[t] = [NoTx EXCEPT !.step = "stage", !.plan = Plan(t)]
      /\ \A u \in Thread : u # t => tx'[u] = tx[u]
      /\ job'[t].pc = "leave" /\ job'[t].kind = job[t].kind /\ job'[t].seen = job[t].seen
      /\ \A u \in Thread : u # t => job'[u] = job[u]
      BY ApplyPlaces
<1>3. job[t].kind # "verify" /\ tx[t].step = "none" /\ job[t].pc = "read"
      BY <1>1, AllRead DEF On, Writers
<1>4. \A u \in Thread : job'[u].seen = job[u].seen /\ job'[u].kind = job[u].kind
      BY <1>2
<1>5. /\ tx'[t].step = "stage" /\ tx'[t].plan = Plan(t) /\ tx'[t].committed = {}
      /\ tx'[t].errors = {}
      BY <1>2 DEF NoTx
<1>6. DOMAIN Plan(t) \subseteq Target[t]
      BY <1>1, PlanShape
<1>7. \A u \in Thread : Staged(tx'[u]) <=> Staged(tx[u])
      BY <1>2, <1>3, <1>5 DEF Staged
<1>8. \A u \in Thread, p \in Path : Writes(u, p)' <=> Writes(u, p)
  <2> SUFFICES ASSUME NEW u \in Thread, NEW p \in Path PROVE Writes(u, p)' <=> Writes(u, p)
      OBVIOUS
  <2>1. CASE u = t
        BY <1>3, <1>5, <2>1 DEF Writes, Staged
  <2>2. CASE u # t
        BY <1>2, <2>2 DEF Writes
  <2> QED BY <2>1, <2>2
<1>9. ASSUME NEW u \in Thread PROVE PlanOK(u)' /\ StageOK(u)' /\ (Staged(tx[u]) => result[u] # "applied")'
  <2>1. CASE u # t
    <3>1. tx'[u] = tx[u]
          BY <1>2, <2>1
    <3> QED BY <1>0, <1>1, <3>1 DEF TextOK, PlanOK, StageOK, Staged, Progress, Edits
  <2>2. CASE u = t
    <3>1. ~Staged(tx'[t])
          BY <1>5 DEF Staged
    <3>2. ASSUME NEW p \in DOMAIN Plan(t)
          PROVE  /\ Plan(t)[p].expected # Torn /\ t \notin Edits(Plan(t)[p].expected)
                 /\ Plan(t)[p].content = Edits(Plan(t)[p].expected) \cup {t}
          BY <1>1, <1>6, PlanAdds
    <3>3. PlanOK(t)'
          BY <1>5, <3>2 DEF PlanOK, Edits
    <3> QED BY <2>2, <3>1, <3>3 DEF StageOK
  <2> QED BY <2>1, <2>2
<1>10. ASSUME NEW u \in Thread, NEW p \in Target[u] PROVE ResultOK(u, p)'
  <2>1. ResultOK(u, p) /\ p \in Path
        BY <1>0 DEF TextOK
  <2>2. /\ Keeps(u, p)' <=> Keeps(u, p)
        /\ Writes(u, p)' <=> Writes(u, p)
        BY <1>1, <1>8, <2>1 DEF Keeps, Edits
  <2>3. CASE u # t
        BY <1>1, <1>2, <2>1, <2>2, <2>3 DEF ResultOK, Edits
  <2>4. CASE u = t
    <3>1. p \notin DOMAIN Plan(t) => Keeps(t, p)
      <4> SUFFICES ASSUME p \notin DOMAIN Plan(t) PROVE Keeps(t, p)
          OBVIOUS
      <4>1. t \in Edits(job[t].seen[p]) /\ p \in DOMAIN job[t].seen
            BY <1>1, <2>4, PlanAdds, PlanShape
      <4> QED BY <1>3, <2>1, <2>4, <4>1 DEF ResultOK
    <3> QED BY <1>1, <1>2, <1>5, <2>1, <2>2, <2>4, <3>1 DEF ResultOK, Edits
  <2> QED BY <2>3, <2>4
<1>11. ASSUME NEW u \in Thread PROVE SeenOK(u)'
  <2>1. Fresh(u)' => Fresh(u)
        BY <1>1, <1>7 DEF Fresh
  <2> QED BY <1>0, <1>1, <1>4, <2>1 DEF TextOK, SeenOK, Edits
<1>12. ASSUME NEW u \in Thread PROVE ReadOK(u)'
  <2>1. ReadOK(u)
        BY <1>0 DEF TextOK
  <2>2. CASE u # t
        BY <1>1, <1>2, <2>1, <2>2 DEF ReadOK
  <2>3. CASE u = t
        BY <1>2, <2>3 DEF ReadOK
  <2> QED BY <2>2, <2>3
<1>13. ASSUME NEW v \in Thread PROVE ChangeOK(v)'
  <2>1. ChangeOK(v)
        BY <1>0 DEF TextOK
  <2>2. \A p \in Path : Differs(v, p)' <=> Differs(v, p)
    <3> SUFFICES ASSUME NEW p \in Path PROVE Differs(v, p)' <=> Differs(v, p)
        OBVIOUS
    <3>1. \A u \in Thread : Writes(u, p) => tx'[u] = tx[u]
          BY <1>2, <1>3 DEF Writes, Staged
    <3> QED BY <1>1, <1>8, <3>1 DEF Differs
  <2> QED BY <1>1, <2>1, <2>2 DEF ChangeOK
<1> QED BY <1>9, <1>10, <1>11, <1>12, <1>13 DEF TextInv, TextOK

-----------------------------------------------------------------------------
(* Texts: steps of the patcher                                             *)

\* Two transactions inside their locks have no path in common.
LEMMA Apart ==
  ASSUME Places, NEW t \in Thread, tx[t].step # "none", at[t] = "run",
         NEW u \in Thread, u # t, Staged(tx[u]), NEW p \in DOMAIN tx[t].plan
  PROVE  p \notin DOMAIN tx[u].plan
<1>1. tx[u].step \notin {"none", "stage"} /\ PlaceOK(u)
      BY Here DEF Staged
<1>2. at[u] = "run"
      BY <1>1 DEF PlaceOK
<1>3. holder[p] = t
      BY Inside
<1>4. \A q \in DOMAIN tx[u].plan : holder[q] = u
      BY <1>1, <1>2, Inside
<1> QED BY <1>3, <1>4

\* A change of a file of its plan, by a staged transaction of t, that touches only the edit
\* of t or tears the file.
OwnChange(t, p) ==
  /\ Staged(tx[t]) /\ p \in DOMAIN tx[t].plan /\ files[p] # Torn
  /\ \A w \in Thread : w # t =>
       files'[p] = Torn \/ (w \in Edits(files'[p]) <=> w \in Edits(files[p]))

\* A step of a transaction before its report.
LEMMA TxTexts ==
  ASSUME Places, TextInv, NEW t \in Thread, at[t] = "run", tx[t].step # "none",
         UNCHANGED <<job, wave, result, tracked, owner>>,
         NEW x \in Tx, tx' = [tx EXCEPT ![t] = x], x.plan = tx[t].plan, x.step \notin {"none", "stage"},
         Staged(tx[t]) => Staged(x),
         \A p \in Path : files'[p] # files[p] => OwnChange(t, p),
         Staged(x) /\ ~Staged(tx[t]) =>
           \A p \in DOMAIN tx[t].plan : files[p] = tx[t].plan[p].expected,
         StageOK(t)'
  PROVE  TextInv'
<1>0. \A u \in Thread : TextOK(u) /\ Target[u] \subseteq Path
      BY Here DEF TextInv
<1>1. tx'[t] = x /\ \A u \in Thread : u # t => tx'[u] = tx[u]
      BY Here
<1>2. /\ job[t].pc = "leave" /\ DOMAIN tx[t].plan # {} /\ DOMAIN tx[t].plan \subseteq Target[t]
      /\ DOMAIN tx[t].plan \subseteq Path
      BY Inside
<1>3. \A p \in Path : p \notin DOMAIN tx[t].plan => files'[p] = files[p]
      BY DEF OwnChange
<1>4. ~Staged(tx[t]) => \A p \in Path : files'[p] = files[p]
      BY DEF OwnChange
<1>5. ASSUME NEW u \in Thread PROVE PlanOK(u)'
  <2>1. PlanOK(u)
        BY <1>0 DEF TextOK
  <2>2. CASE u # t
        BY <1>1, <2>1, <2>2 DEF PlanOK, Edits
  <2>3. CASE u = t
        BY <1>1, <2>1, <2>3 DEF PlanOK, Edits
  <2> QED BY <2>2, <2>3
<1>6. ASSUME NEW u \in Thread PROVE StageOK(u)'
  <2>1. CASE u # t
    <3> SUFFICES ASSUME Staged(tx[u]) PROVE StageOK(u)'
        BY <1>1, <2>1 DEF StageOK
    <3>1. tx'[u] = tx[u] /\ StageOK(u) /\ DOMAIN tx[u].plan \subseteq Path
          BY <1>0, <1>1, <2>1, TxTypes DEF TextOK
    <3>2. \A p \in DOMAIN tx[u].plan : files'[p] = files[p]
          BY <1>3, <2>1, <3>1, Apart
    <3> QED BY <3>1, <3>2 DEF StageOK, Progress
  <2> QED BY <2>1
<1>7. Staged(x) => result[t] # "applied"
  <2>1. CASE Staged(tx[t])
        BY <1>0, <2>1 DEF TextOK
  <2>2. CASE ~Staged(tx[t])
    <3> SUFFICES ASSUME Staged(x), result[t] = "applied" PROVE FALSE
        OBVIOUS
    <3>1. PICK p \in DOMAIN tx[t].plan : TRUE
          BY <1>2
    <3>2. files[p] = tx[t].plan[p].expected
          BY <2>2, <3>1
    <3>3. files[p] # Torn /\ t \notin Edits(files[p])
          BY <1>0, <3>2 DEF TextOK, PlanOK
    <3>4. Keeps(t, p)
          BY <1>0, <1>2 DEF TextOK, ResultOK
    <3> QED BY <3>3, <3>4 DEF Keeps
  <2> QED BY <2>1, <2>2
<1>8. ASSUME NEW u \in Thread PROVE (Staged(tx[u]) => result[u] # "applied")'
  <2>1. CASE u # t
        BY <1>0, <1>1, <2>1 DEF TextOK
  <2>2. CASE u = t
        BY <1>1, <1>7, <2>2
  <2> QED BY <2>1, <2>2
<1>9. ASSUME NEW u \in Thread, NEW p \in Target[u] PROVE ResultOK(u, p)'
  <2>1. ResultOK(u, p) /\ p \in Path
        BY <1>0 DEF TextOK
  <2>2. CASE u # t
    <3>1. Writes(u, p)' <=> Writes(u, p)
          BY <1>1, <2>2 DEF Writes
    <3>2. Keeps(u, p) => Keeps(u, p)'
      <4>1. CASE files'[p] = files[p]
            BY <4>1 DEF Keeps, Edits
      <4>2. CASE files'[p] # files[p]
        <5>1. /\ files[p] # Torn
              /\ files'[p] = Torn \/ (u \in Edits(files'[p]) <=> u \in Edits(files[p]))
              BY <2>1, <2>2, <4>2 DEF OwnChange
        <5> QED BY <5>1 DEF Keeps, Edits
      <4> QED BY <4>1, <4>2
    <3>3. u \notin Edits(files[p]) => u \notin Edits(files'[p])
      <4>1. CASE files'[p] = files[p]
            BY <4>1
      <4>2. CASE files'[p] # files[p]
        <5>1. files'[p] = Torn \/ (u \in Edits(files'[p]) <=> u \in Edits(files[p]))
              BY <2>1, <2>2, <4>2 DEF OwnChange
        <5> QED BY <5>1, EditsOf
      <4> QED BY <4>1, <4>2
    <3>4. tx'[u] = tx[u] /\ job'[u] = job[u] /\ result'[u] = result[u]
          BY <1>1, <2>2
    <3> QED BY <2>1, <3>1, <3>2, <3>3, <3>4 DEF ResultOK, Edits
  <2>3. CASE u = t
    <3>1. result[t] = "applied" => files'[p] = files[p]
          BY <1>4, <1>7, <2>1
    <3>2. ~Writes(t, p)' => ~Writes(t, p) /\ files'[p] = files[p]
          BY <1>1, <1>3, <1>4, <2>1 DEF Writes
    <3>3. p \notin DOMAIN tx[t].plan => files'[p] = files[p]
          BY <1>3, <2>1
    <3>4. files'[p] = files[p] => (Keeps(t, p)' <=> Keeps(t, p))
          BY DEF Keeps, Edits
    <3>5. job'[t].pc = "leave" /\ result'[t] = result[t] /\ tx'[t].plan = tx[t].plan
          BY <1>1, <1>2
    <3> QED BY <2>1, <2>3, <3>1, <3>2, <3>3, <3>4, <3>5 DEF ResultOK, Edits
  <2> QED BY <2>2, <2>3
<1>10. ASSUME NEW u \in Thread PROVE SeenOK(u)'
  <2>1. Fresh(u)' => Fresh(u)
    <3>1. CASE u = t
          BY <1>1, <3>1 DEF Fresh
    <3>2. CASE u # t
          BY <1>1, <3>2 DEF Fresh
    <3> QED BY <3>1, <3>2
  <2> QED BY <1>0, <2>1 DEF TextOK, SeenOK, Edits
<1>11. ASSUME NEW u \in Thread PROVE ReadOK(u)'
  <2>1. ReadOK(u) /\ DOMAIN job[u].seen \subseteq Path
        BY <1>0, SeenTypes DEF TextOK
  <2>2. job[u].kind = "verify" /\ job[u].pc = "read" => \A p \in DOMAIN job[u].seen : files'[p] = files[p]
    <3> SUFFICES ASSUME job[u].kind = "verify", job[u].pc = "read"
                 PROVE  \A p \in DOMAIN job[u].seen : files'[p] = files[p]
        OBVIOUS
    <3>1. ~Staged(tx[t])
          BY VerifierAlone
    <3> QED BY <1>4, <2>1, <3>1
  <2> QED BY <2>1, <2>2 DEF ReadOK
<1>12. ASSUME NEW v \in Thread PROVE ChangeOK(v)'
  <2>1. ChangeOK(v)
        BY <1>0 DEF TextOK
  <2>2. ASSUME NEW p \in Path, Differs(v, p)' PROVE Differs(v, p)
    <3>1. \A u \in Thread : u # t => (Writes(u, p)' <=> Writes(u, p)) /\ tx'[u] = tx[u]
          BY <1>1 DEF Writes
    <3>2. CASE p \notin DOMAIN tx[t].plan
      <4>1. ~Writes(t, p) /\ ~Writes(t, p)' /\ files'[p] = files[p]
            BY <1>1, <1>3, <3>2 DEF Writes
      <4> QED BY <2>2, <3>1, <4>1 DEF Differs
    <3>3. CASE p \in DOMAIN tx[t].plan /\ Staged(tx[t])
      <4>1. Writes(t, p) /\ Writes(t, p)' /\ tx'[t].plan = tx[t].plan
            BY <1>1, <3>3 DEF Writes
      <4>2. \A u \in Thread : u # t => ~Writes(u, p)
            BY <3>3, Apart DEF Writes
      <4>3. PICK u \in Thread : Writes(u, p)' /\ tx'[u].plan[p].expected # tracked'[v].seen[p]
            BY <2>2, <4>1 DEF Differs
      <4>4. u = t
            BY <3>1, <4>2, <4>3
      <4>5. Writes(t, p) /\ tx[t].plan[p].expected # tracked[v].seen[p]
            BY <4>1, <4>3, <4>4
      <4> QED BY <4>5 DEF Differs
    <3>4. CASE p \in DOMAIN tx[t].plan /\ ~Staged(tx[t]) /\ Staged(x)
      <4>1. files[p] = tx[t].plan[p].expected /\ tx'[t].plan = tx[t].plan /\ ~Writes(t, p) /\ Writes(t, p)'
            BY <1>1, <3>4 DEF Writes
      <4>2. \A u \in Thread : u # t => ~Writes(u, p)
            BY <3>4, Apart DEF Writes
      <4>3. PICK u \in Thread : Writes(u, p)' /\ tx'[u].plan[p].expected # tracked'[v].seen[p]
            BY <2>2, <4>1 DEF Differs
      <4>4. u = t
            BY <3>1, <4>2, <4>3
      <4>5. files[p] # tracked[v].seen[p] /\ \A w \in Thread : ~Writes(w, p)
            BY <4>1, <4>2, <4>3, <4>4
      <4> QED BY <4>5 DEF Differs
    <3>5. CASE p \in DOMAIN tx[t].plan /\ ~Staged(tx[t]) /\ ~Staged(x)
      <4>1. ~Writes(t, p) /\ ~Writes(t, p)' /\ files'[p] = files[p]
            BY <1>1, <1>4, <3>5 DEF Writes
      <4> QED BY <2>2, <3>1, <4>1 DEF Differs
    <3> QED BY <3>2, <3>3, <3>4, <3>5
  <2> QED BY <2>1, <2>2 DEF ChangeOK
<1> QED BY <1>5, <1>6, <1>8, <1>9, <1>10, <1>11, <1>12 DEF TextInv, TextOK

\* The old and the new text of a planned file differ in the edit of the thread alone.
LEMMA OldAndNew ==
  ASSUME Places, TextInv, NEW t \in Thread, tx[t].step # "none", NEW p \in DOMAIN tx[t].plan
  PROVE  LET old == tx[t].plan[p].expected
             new == tx[t].plan[p].content
         IN  /\ old # Torn /\ new # Torn /\ old # new
             /\ t \in Edits(new) /\ t \notin Edits(old)
             /\ \A w \in Thread : w # t => (w \in Edits(new) <=> w \in Edits(old))
<1> DEFINE old == tx[t].plan[p].expected
           new == tx[t].plan[p].content
<1>1. /\ old # Torn /\ t \notin Edits(old) /\ new = Edits(old) \cup {t}
      BY DEF TextInv, TextOK, PlanOK
<1>2. Edits(old) \subseteq Thread
      BY TxTypes, EditsOf
<1>3. new \in SUBSET Thread
      BY <1>1, <1>2
<1>4. new # Torn /\ Edits(new) = new
      BY <1>3, EditsOf
<1> QED BY <1>1, <1>4

\* The steps of a transaction before its report.
LEMMA PatchTexts ==
  ASSUME Places, TextInv, NEW t \in Thread, Patch(t)
  PROVE  TextInv'
<1>0. /\ UNCHANGED <<job, wave, result, tracked>>
      /\ Stage(t) \/ Refuse(t) \/ (\E p \in Path : CommitFile(t, p)) \/ EndCommit(t)
         \/ RollbackFile(t) \/ EndRollback(t)
      BY DEF Patch, jobVars
<1>1. /\ TextOK(t) /\ PlaceOK(t) /\ StageOK(t) /\ PlanOK(t) /\ files \in [Path -> Text]
      /\ tx \in [Thread -> Tx]
      BY Here DEF TextInv, TextOK, PatchTypeOK
<1>2. DOMAIN tx[t].plan \subseteq Path
      BY TxTypes
<1> DEFINE y == tx[t]
<1>3. CASE Stage(t)
  <2>1. InTx(t, "stage") /\ UNCHANGED <<files, owner, faults>>
        BY <1>3, StageEffect
  <2>2. PICK x \in Tx :
           /\ tx' = [tx EXCEPT ![t] = x] /\ x.plan = y.plan /\ x.committed = y.committed
           /\ \/ x.step = "settle" /\ x.impact \in {"unchanged", "drift"}
              \/ /\ x.step = "commit" /\ x.originals = [p \in DOMAIN y.plan |-> files[p]]
                 /\ \A p \in DOMAIN y.plan : files[p] = y.plan[p].expected
        BY <1>3, StageEffect
  <2>3. tx'[t] = x /\ y.committed = {} /\ ~Staged(y)
        BY <1>1, <2>1, <2>2 DEF PlanOK, InTx, Staged
  <2>4. Staged(x) => x.step = "commit"
        BY <2>2 DEF Staged
  <2>5. StageOK(t)'
    <3> SUFFICES ASSUME Staged(x) PROVE StageOK(t)'
        BY <2>3 DEF StageOK
    <3>1. /\ x.step = "commit" /\ DOMAIN x.originals = DOMAIN x.plan /\ x.committed = {}
          /\ \A p \in DOMAIN x.plan : x.originals[p] = files[p] /\ files[p] = x.plan[p].expected
          BY <2>2, <2>3, <2>4
    <3> QED BY <2>1, <2>3, <3>1 DEF StageOK, Progress
  <2>6. Staged(x) => \A p \in DOMAIN y.plan : files[p] = y.plan[p].expected
        BY <2>2, <2>4
  <2>7. x.step \notin {"none", "stage"}
        BY <2>2
  <2> QED BY <1>0, <2>1, <2>2, <2>3, <2>5, <2>6, <2>7, TxTexts DEF InTx
<1>4. CASE Refuse(t)
  <2>1. InTx(t, "stage") /\ UNCHANGED <<files, owner>>
        BY <1>4, RefuseEffect
  <2>2. PICK x \in Tx : /\ tx' = [tx EXCEPT ![t] = x] /\ x.plan = y.plan
                        /\ x.step = "settle" /\ x.impact = "unchanged"
        BY <1>4, RefuseEffect
  <2>3. tx'[t] = x /\ ~Staged(y) /\ ~Staged(x) /\ x.step \notin {"none", "stage"}
        BY <1>1, <2>1, <2>2 DEF InTx, Staged
  <2>4. StageOK(t)'
        BY <2>3 DEF StageOK
  <2> QED BY <1>0, <2>1, <2>2, <2>3, <2>4, TxTexts DEF InTx
<1>5. ASSUME NEW p \in Path, CommitFile(t, p) PROVE TextInv'
  <2>1. InTx(t, "commit") /\ p \in DOMAIN y.plan /\ p \in Untried(y) /\ UNCHANGED owner
        BY <1>5, CommitFileEffect
  <2>2. PICK x \in Tx :
              /\ tx' = [tx EXCEPT ![t] = x] /\ x.plan = y.plan /\ x.originals = y.originals
              /\ x.step = "commit"
              /\ \/ /\ x.committed = y.committed \cup {p}
                    /\ files' = [files EXCEPT ![p] = y.plan[p].content]
                 \/ x.committed = y.committed /\ files' = files
        BY <1>5, CommitFileEffect
  <2>3. tx'[t] = x /\ Staged(y) /\ Staged(x) /\ x.step \notin {"none", "stage"} /\ y.step # "none"
        BY <1>1, <2>1, <2>2 DEF InTx, Staged
  <2>4. p \notin y.committed
        BY <2>1 DEF Untried
  <2>5. /\ DOMAIN y.originals = DOMAIN y.plan
        /\ \A q \in DOMAIN y.plan : /\ y.originals[q] = y.plan[q].expected
                                    /\ files[q] = IF q \in y.committed THEN y.plan[q].content
                                                                       ELSE y.plan[q].expected
        BY <1>1, <2>1, <2>3 DEF StageOK, Progress, InTx
  <2>6. \A q \in DOMAIN y.plan : files'[q] = IF q \in x.committed THEN y.plan[q].content
                                                                  ELSE y.plan[q].expected
    <3> SUFFICES ASSUME NEW q \in DOMAIN y.plan
                 PROVE  files'[q] = IF q \in x.committed THEN y.plan[q].content
                                                         ELSE y.plan[q].expected
        OBVIOUS
    <3>1. q \in Path
          BY <1>2
    <3>2. CASE q = p
          BY <1>1, <2>2, <2>4, <2>5, <3>1, <3>2
    <3>3. CASE q # p
          BY <1>1, <2>2, <2>5, <3>1, <3>3
    <3> QED BY <3>2, <3>3
  <2>7. StageOK(t)'
        BY <2>2, <2>3, <2>5, <2>6 DEF StageOK, Progress
  <2>8. ASSUME NEW q \in Path, files'[q] # files[q] PROVE OwnChange(t, q)
    <3>1. q = p /\ files'[p] = y.plan[p].content /\ files[p] = y.plan[p].expected
          BY <1>1, <2>1, <2>2, <2>4, <2>5, <2>8
    <3>2. /\ files[p] # Torn
          /\ \A w \in Thread : w # t => (w \in Edits(files'[p]) <=> w \in Edits(files[p]))
          BY <2>1, <2>3, <3>1, OldAndNew
    <3> QED BY <2>1, <2>3, <3>1, <3>2 DEF OwnChange
  <2> QED BY <1>0, <2>1, <2>2, <2>3, <2>7, <2>8, TxTexts DEF InTx
<1>6. CASE EndCommit(t)
  <2>1. InTx(t, "commit") /\ UNCHANGED <<files, owner, faults>> /\ \A p \in Path : ~Tries(y, p)
        BY <1>6, EndCommitEffect
  <2>2. PICK x \in Tx :
              /\ tx' = [tx EXCEPT ![t] = x] /\ x.plan = y.plan /\ x.originals = y.originals
              /\ x.committed = y.committed /\ x.errors = y.errors
              /\ \/ x.errors = {} /\ x.step = "settle" /\ x.impact = "applied"
                 \/ x.errors # {} /\ x.step = "rollback" /\ x.impact = "rolled_back"
        BY <1>6, EndCommitEffect
  <2>3. tx'[t] = x /\ Staged(y) /\ Staged(x) /\ x.step \notin {"none", "stage"} /\ y.step # "none"
        BY <1>1, <2>1, <2>2 DEF InTx, Staged
  <2>5. /\ DOMAIN y.originals = DOMAIN y.plan
        /\ \A q \in DOMAIN y.plan : /\ y.originals[q] = y.plan[q].expected
                                    /\ files[q] = IF q \in y.committed THEN y.plan[q].content
                                                                       ELSE y.plan[q].expected
        BY <1>1, <2>1, <2>3 DEF StageOK, Progress, InTx
  <2>6. y.errors = {} => DOMAIN y.plan \subseteq y.committed
    <3> SUFFICES ASSUME y.errors = {}, NEW q \in DOMAIN y.plan, q \notin y.committed PROVE FALSE
        OBVIOUS
    <3>1. q \in Untried(y) /\ Untried(y) \subseteq Path
          BY <1>2, <2>3, <2>5, OldAndNew DEF Untried, Changed
    <3>2. First(Untried(y)) \in Path
          BY <3>1, FirstPath
    <3> QED BY <1>2, <2>1, <3>1, <3>2 DEF Tries
  <2>7. StageOK(t)'
    <3>1. CASE x.step = "settle"
          BY <2>1, <2>2, <2>3, <2>5, <2>6, <3>1 DEF StageOK, Progress
    <3>2. CASE x.step = "rollback"
          BY <2>1, <2>2, <2>3, <2>5, <3>2 DEF StageOK, Progress
    <3> QED BY <2>2, <3>1, <3>2
  <2> QED BY <1>0, <2>1, <2>2, <2>3, <2>7, TxTexts DEF InTx
<1>7. CASE RollbackFile(t)
  <2>1. InTx(t, "rollback") /\ UNCHANGED owner
        BY <1>7, RollbackFileEffect
  <2>2. PICK p \in y.committed, x \in Tx, c \in Text :
              /\ p \in DOMAIN y.plan /\ p \in Path
              /\ tx' = [tx EXCEPT ![t] = x] /\ x.plan = y.plan /\ x.originals = y.originals
              /\ x.step = "rollback" /\ x.committed = y.committed \ {p}
              /\ files' = [files EXCEPT ![p] = c]
              /\ \/ c = y.originals[p] /\ x.impact = y.impact
                 \/ c \in {files[p], Torn} /\ x.impact = "uncertain"
        BY <1>7, RollbackFileEffect
  <2>3. tx'[t] = x /\ Staged(y) /\ Staged(x) /\ x.step \notin {"none", "stage"} /\ y.step # "none"
        BY <1>1, <2>1, <2>2 DEF InTx, Staged
  <2>4. /\ DOMAIN y.originals = DOMAIN y.plan /\ y.impact \in {"rolled_back", "uncertain"}
        /\ \A q \in DOMAIN y.plan :
             /\ y.originals[q] = y.plan[q].expected
             /\ q \in y.committed => files[q] = y.plan[q].content
             /\ q \notin y.committed /\ y.impact = "rolled_back" => files[q] = y.plan[q].expected
        BY <1>1, <2>1, <2>3 DEF StageOK, Progress, InTx
  <2>5. files'[p] = c /\ \A q \in Path : q # p => files'[q] = files[q]
        BY <1>1, <2>2
  <2>6. ASSUME NEW q \in DOMAIN y.plan
        PROVE  /\ q \in x.committed => files'[q] = y.plan[q].content
               /\ q \notin x.committed /\ x.impact = "rolled_back" => files'[q] = y.plan[q].expected
    <3>1. CASE q = p
          BY <2>2, <2>4, <2>5, <3>1
    <3>2. CASE q # p
      <4>1. files'[q] = files[q] /\ (q \in x.committed <=> q \in y.committed)
            BY <1>2, <2>2, <2>5, <3>2
      <4>2. x.impact = "rolled_back" => y.impact = "rolled_back"
            BY <2>2
      <4> QED BY <2>4, <4>1, <4>2
    <3> QED BY <3>1, <3>2
  <2>7. StageOK(t)'
    <3>1. x.impact \in {"rolled_back", "uncertain"}
          BY <2>2, <2>4
    <3> QED BY <2>2, <2>3, <2>4, <2>6, <3>1 DEF StageOK, Progress
  <2>8. ASSUME NEW q \in Path, files'[q] # files[q] PROVE OwnChange(t, q)
    <3>1. q = p /\ files'[p] \in {y.plan[p].expected, Torn} /\ files[p] = y.plan[p].content
          BY <2>2, <2>4, <2>5, <2>8
    <3>2. /\ files[p] # Torn
          /\ \A w \in Thread : w # t =>
               files'[p] = Torn \/ (w \in Edits(files'[p]) <=> w \in Edits(files[p]))
          BY <2>2, <2>3, <3>1, OldAndNew
    <3> QED BY <2>2, <2>3, <3>1, <3>2 DEF OwnChange
  <2> QED BY <1>0, <2>1, <2>2, <2>3, <2>7, <2>8, TxTexts DEF InTx
<1>8. CASE EndRollback(t)
  <2>1. InTx(t, "rollback") /\ UNCHANGED <<files, owner, faults>> /\ y.committed = {}
        BY <1>8, EndRollbackEffect
  <2>2. PICK x \in Tx :
              /\ tx' = [tx EXCEPT ![t] = x] /\ x.plan = y.plan /\ x.originals = y.originals
              /\ x.committed = {} /\ x.step = "settle" /\ x.impact = y.impact
        BY <1>8, EndRollbackEffect
  <2>3. tx'[t] = x /\ Staged(y) /\ x.step \notin {"none", "stage"} /\ y.step # "none"
        BY <1>1, <2>1, <2>2 DEF InTx, Staged
  <2>4. /\ DOMAIN y.originals = DOMAIN y.plan /\ y.impact \in {"rolled_back", "uncertain"}
        /\ \A q \in DOMAIN y.plan :
             /\ y.originals[q] = y.plan[q].expected
             /\ y.impact = "rolled_back" => files[q] = y.plan[q].expected
        BY <1>1, <2>1, <2>3 DEF StageOK, Progress, InTx
  <2>5. Staged(x)
        BY <2>2, <2>4 DEF Staged
  <2>6. StageOK(t)'
        BY <2>1, <2>2, <2>3, <2>4 DEF StageOK, Progress
  <2> QED BY <1>0, <2>1, <2>2, <2>3, <2>5, <2>6, TxTexts DEF InTx
<1> QED BY <1>0, <1>3, <1>4, <1>5, <1>6, <1>7, <1>8

\* What the owner knows once it was told: nothing of what it told before is usable, or
\* every written file is a change of a new revision.
LEMMA OwnerTold ==
  ASSUME Places, TextInv, NEW t \in Thread, Settle(t)
  PROVE  /\ tx[t].impact = "applied" =>
              /\ owner'.id = owner.id /\ owner'.revision = owner.revision + 1
              /\ \A p \in DOMAIN tx[t].plan : owner'.changes[p].revision = owner.revision + 1
              /\ \A p \in Path : p \notin DOMAIN tx[t].plan => owner'.changes[p] = owner.changes[p]
         /\ tx[t].impact \in {"drift", "uncertain"} => owner'.id = owner.id + 1
         /\ tx[t].impact \in {"unchanged", "rolled_back"} => owner' = owner
<1> DEFINE y == tx[t]
           after == [p \in Changed(y) |-> y.plan[p].content]
<1>1. /\ InTx(t, "settle")
      /\ y.impact = "applied" => owner' = Committed(owner, after)
      /\ y.impact \in {"drift", "uncertain"} => owner' = Invalidated(owner)
      /\ y.impact \in {"unchanged", "rolled_back"} => owner' = owner
      BY SettleEffect
<1>2. owner \in Owner /\ StageOK(t) /\ DOMAIN y.plan \subseteq Path
      BY Here, TxTypes DEF PatchTypeOK, TextInv, TextOK
<1>3. ASSUME y.impact = "applied"
      PROVE  /\ owner'.id = owner.id /\ owner'.revision = owner.revision + 1
             /\ \A p \in DOMAIN y.plan : owner'.changes[p].revision = owner.revision + 1
             /\ \A p \in Path : p \notin DOMAIN y.plan => owner'.changes[p] = owner.changes[p]
  <2>1. Changed(y) = DOMAIN y.plan /\ y.step # "none"
    <3>1. Staged(y) /\ y.step # "none"
          BY <1>1, <1>3 DEF Staged, InTx
    <3>2. DOMAIN y.originals = DOMAIN y.plan /\ \A p \in DOMAIN y.plan : y.originals[p] = y.plan[p].expected
          BY <1>2, <3>1 DEF StageOK, Progress
    <3> QED BY <3>1, <3>2, OldAndNew DEF Changed
  <2>2. DOMAIN after = DOMAIN y.plan /\ DOMAIN y.plan # {}
        BY <1>1, <2>1, Inside DEF InTx
  <2> HIDE DEF after
  <2> DEFINE c == [p \in Path |-> IF p \in DOMAIN after
                     THEN [revision |-> owner.revision + 1, after |-> after[p]] ELSE owner.changes[p]]
  <2>3. owner' = [owner EXCEPT !.revision = @ + 1, !.changes = c]
        BY <1>1, <1>3, <2>2 DEF Committed
  <2>4. /\ \A p \in DOMAIN y.plan : c[p].revision = owner.revision + 1
        /\ \A p \in Path : p \notin DOMAIN y.plan => c[p] = owner.changes[p]
        BY <1>2, <2>2
  <2> HIDE DEF c
  <2>5. owner'.id = owner.id /\ owner'.revision = owner.revision + 1 /\ owner'.changes = c
    <3>1. PICK n \in Nat : n = owner.revision + 1
          BY <1>2 DEF Owner
    <3>2. owner' = [owner EXCEPT !.revision = n, !.changes = c]
          BY <2>3, <3>1
    <3>3. owner'.id = owner.id /\ owner'.revision = n /\ owner'.changes = c
          BY <1>2, <3>2 DEF Owner
    <3> QED BY <3>1, <3>3
  <2> QED BY <2>4, <2>5
<1>4. y.impact \in {"drift", "uncertain"} => owner'.id = owner.id + 1
      BY <1>1 DEF Invalidated
<1> QED BY <1>1, <1>3, <1>4

\* A transaction reports to the owner and ends.
LEMMA SettledTexts ==
  ASSUME Places, TextInv, NEW t \in Thread, Settled(t)
  PROVE  TextInv'
<1> DEFINE y == tx[t]
<1>0. \A u \in Thread : TextOK(u) /\ Target[u] \subseteq Path
      BY Here DEF TextInv
<1>1. /\ Settle(t) /\ Ends(t, y.impact) /\ UNCHANGED <<job, tracked, wave>>
      BY DEF Settled, NoWave
<1>2. /\ InTx(t, "settle") /\ files' = files /\ tx' = [tx EXCEPT ![t] = NoTx]
      BY <1>1, SettleEffect
<1>3. /\ tx'[t].step = "none" /\ \A u \in Thread : u # t => tx'[u] = tx[u]
      BY <1>2, Here DEF NoTx
<1>4. /\ y.impact \in Impact /\ owner \in Owner /\ y.step = "settle" /\ at[t] = "run"
      BY <1>2, Here DEF PatchTypeOK, Tx, InTx
<1>5. /\ result'[t] = IF result[t] \in {"applied", "uncertain"} /\ y.impact # "applied"
                      THEN result[t] ELSE y.impact
      /\ \A u \in Thread : u # t => result'[u] = result[u]
  <2>1. y.impact \in Result /\ result \in [Thread -> Result]
        BY <1>4, Here DEF JobTypeOK, Result
  <2> QED BY <1>1, <2>1, EndsTypes
<1>6. /\ job[t].pc = "leave" /\ DOMAIN y.plan # {} /\ DOMAIN y.plan \subseteq Target[t]
      /\ DOMAIN y.plan \subseteq Path
      BY <1>4, Inside
<1>7. ~Staged(tx'[t]) /\ \A p \in Path : ~Writes(t, p)'
      BY <1>3 DEF Staged, Writes
<1>8. \A u \in Thread, p \in Path : u # t => (Writes(u, p)' <=> Writes(u, p))
      BY <1>3 DEF Writes
<1>9. Staged(y) <=> y.impact \in {"applied", "rolled_back", "uncertain"}
      BY <1>4 DEF Staged
<1>10. ASSUME NEW u \in Thread PROVE PlanOK(u)' /\ StageOK(u)' /\ (Staged(tx[u]) => result[u] # "applied")'
  <2>1. CASE u = t
        BY <1>3, <1>7, <2>1 DEF PlanOK, StageOK
  <2>2. CASE u # t
    <3>1. tx'[u] = tx[u] /\ result'[u] = result[u]
          BY <1>3, <1>5, <2>2
    <3> QED BY <1>0, <1>2, <3>1 DEF TextOK, PlanOK, StageOK, Staged, Progress, Edits
  <2> QED BY <2>1, <2>2
<1>11. ASSUME NEW u \in Thread, NEW p \in Target[u] PROVE ResultOK(u, p)'
  <2>1. ResultOK(u, p) /\ p \in Path
        BY <1>0 DEF TextOK
  <2>2. Keeps(u, p)' <=> Keeps(u, p)
        BY <1>2 DEF Keeps, Edits
  <2>3. CASE u # t
    <3>1. tx'[u] = tx[u] /\ result'[u] = result[u] /\ job'[u] = job[u]
          BY <1>1, <1>3, <1>5, <2>3
    <3> QED BY <1>2, <1>8, <2>1, <2>2, <2>3, <3>1 DEF ResultOK, Edits
  <2>4. CASE u = t
    <3>1. /\ p \in DOMAIN y.plan /\ y.impact = "applied" => Keeps(t, p)
          /\ p \in DOMAIN y.plan /\ y.impact = "rolled_back" => t \notin Edits(files[p])
      <4> SUFFICES ASSUME p \in DOMAIN y.plan, y.impact \in {"applied", "rolled_back"}
                   PROVE  /\ y.impact = "applied" => Keeps(t, p)
                          /\ y.impact = "rolled_back" => t \notin Edits(files[p])
          OBVIOUS
      <4>1. Progress(y, p)
            BY <1>0, <1>9 DEF TextOK, StageOK
      <4>2. t \in Edits(y.plan[p].content) /\ t \notin Edits(y.plan[p].expected)
            BY <1>4, OldAndNew
      <4> QED BY <1>4, <4>1, <4>2 DEF Progress, Keeps
    <3>2. result'[t] = "applied" => Keeps(t, p)
      <4>1. CASE result[t] = "applied"
            BY <2>1, <2>4, <4>1 DEF ResultOK
      <4>2. CASE result[t] # "applied"
        <5>1. result'[t] = "applied" => y.impact = "applied"
              BY <1>5, <4>2
        <5>2. p \notin DOMAIN y.plan => Keeps(t, p)
              BY <1>4, <2>1, <2>4 DEF ResultOK
        <5> QED BY <3>1, <5>1, <5>2
      <4> QED BY <4>1, <4>2
    <3>3. result'[t] \notin {"applied", "uncertain"} => t \notin Edits(files[p])
      <4> SUFFICES ASSUME result'[t] \notin {"applied", "uncertain"} PROVE t \notin Edits(files[p])
          OBVIOUS
      <4>1. result[t] \notin {"applied", "uncertain"} /\ y.impact \in {"unchanged", "drift", "rolled_back"}
            BY <1>4, <1>5 DEF Impact
      <4>2. CASE Writes(t, p)
            BY <1>9, <3>1, <4>1, <4>2 DEF Writes
      <4>3. CASE ~Writes(t, p)
            BY <2>1, <2>4, <4>1, <4>3 DEF ResultOK
      <4> QED BY <4>2, <4>3
    <3>4. job'[t].pc = "leave"
          BY <1>1, <1>6
    <3> QED BY <1>2, <1>3, <2>2, <2>4, <3>2, <3>3, <3>4 DEF ResultOK
  <2> QED BY <2>3, <2>4
<1>12. ASSUME NEW u \in Thread PROVE SeenOK(u)'
  <2>1. Fresh(u)' => Fresh(u)
    <3>1. CASE u = t
      <4>1. result'[t] # "none"
            BY <1>4, <1>5 DEF Impact
      <4> QED BY <3>1, <4>1 DEF Fresh
    <3>2. CASE u # t
          BY <1>3, <1>5, <3>2 DEF Fresh
    <3> QED BY <3>1, <3>2
  <2> QED BY <1>0, <1>1, <2>1 DEF TextOK, SeenOK, Edits
<1>13. ASSUME NEW u \in Thread PROVE ReadOK(u)'
  <2>1. ReadOK(u) /\ job'[u] = job[u]
        BY <1>0, <1>1 DEF TextOK
  <2>2. ~(job[u].kind = "verify" /\ job[u].pc = "read")
        BY <1>4, VerifierAlone
  <2>3. job[u].kind = "generate" /\ job[u].pc \notin {"idle", "leave"} => result'[u] = "none"
        BY <1>5, <1>6, <2>1 DEF ReadOK
  <2> QED BY <2>1, <2>2, <2>3 DEF ReadOK
<1>14. ASSUME NEW v \in Thread PROVE ChangeOK(v)'
  <2> SUFFICES ASSUME tracked[v] # Null
               PROVE  /\ tracked[v].rev[1] <= owner'.id
                      /\ tracked[v].rev[1] = owner'.id =>
                           /\ tracked[v].rev[2] <= owner'.revision
                           /\ \A p \in Path : Differs(v, p)' => owner'.changes[p].revision > tracked[v].rev[2]
      BY <1>1 DEF ChangeOK
  <2>1. /\ tracked[v].rev[1] <= owner.id
        /\ tracked[v].rev[1] = owner.id =>
             /\ tracked[v].rev[2] <= owner.revision
             /\ \A p \in Path : Differs(v, p) => owner.changes[p].revision > tracked[v].rev[2]
        BY <1>0 DEF TextOK, ChangeOK
  <2>2. /\ tracked[v].rev[1] \in Nat /\ tracked[v].rev[2] \in Nat
        /\ owner.id \in Nat /\ owner.revision \in Nat
        BY <1>4, Here DEF JobTypeOK, Owner
  <2>3. ASSUME NEW p \in Path, p \notin DOMAIN y.plan PROVE Differs(v, p)' <=> Differs(v, p)
    <3>1. ~Writes(t, p) /\ ~Writes(t, p)'
          BY <1>7, <2>3 DEF Writes
    <3> QED BY <1>1, <1>2, <1>3, <1>8, <3>1 DEF Differs
  <2>4. CASE y.impact = "applied"
    <3>1. /\ owner'.id = owner.id /\ owner'.revision = owner.revision + 1
          /\ \A p \in DOMAIN y.plan : owner'.changes[p].revision = owner.revision + 1
          /\ \A p \in Path : p \notin DOMAIN y.plan => owner'.changes[p] = owner.changes[p]
          BY <1>1, <2>4, OwnerTold
    <3>2. ASSUME NEW p \in Path, Differs(v, p)', tracked[v].rev[1] = owner.id
          PROVE  owner'.changes[p].revision > tracked[v].rev[2]
      <4>1. CASE p \in DOMAIN y.plan
            BY <2>1, <2>2, <3>1, <3>2, <4>1
      <4>2. CASE p \notin DOMAIN y.plan
            BY <2>1, <2>3, <3>1, <3>2, <4>2
      <4> QED BY <4>1, <4>2
    <3> QED BY <2>1, <2>2, <3>1, <3>2
  <2>5. CASE y.impact \in {"drift", "uncertain"}
    <3>1. owner'.id = owner.id + 1
          BY <1>1, <2>5, OwnerTold
    <3> QED BY <2>1, <2>2, <3>1
  <2>6. CASE y.impact \in {"unchanged", "rolled_back"}
    <3>1. owner' = owner
          BY <1>1, <2>6, OwnerTold
    <3>2. ASSUME NEW p \in Path, Differs(v, p)' PROVE Differs(v, p)
      <4>1. CASE p \notin DOMAIN y.plan
            BY <2>3, <3>2, <4>1
      <4>2. CASE p \in DOMAIN y.plan /\ Staged(y)
        <5>1. \A u \in Thread : u # t => ~Writes(u, p)
              BY <1>4, <4>2, Apart DEF Writes
        <5>2. \A u \in Thread : ~Writes(u, p)'
              BY <1>7, <1>8, <5>1
        <5>3. files[p] # tracked[v].seen[p]
              BY <1>1, <1>2, <3>2, <5>2 DEF Differs
        <5>4. Writes(t, p) /\ files[p] = y.plan[p].expected
          <6>1. Progress(y, p) /\ y.impact = "rolled_back"
                BY <1>0, <1>9, <2>6, <4>2 DEF TextOK, StageOK
          <6> QED BY <1>4, <4>2, <6>1 DEF Progress, Writes
        <5> QED BY <5>3, <5>4 DEF Differs
      <4>3. CASE ~Staged(y)
        <5>1. ~Writes(t, p) /\ ~Writes(t, p)'
              BY <1>7, <4>3 DEF Writes
        <5> QED BY <1>1, <1>2, <1>3, <1>8, <3>2, <5>1 DEF Differs
      <4> QED BY <4>1, <4>2, <4>3
    <3> QED BY <2>1, <3>1, <3>2
  <2> QED BY <1>4, <2>4, <2>5, <2>6 DEF Impact
<1> QED BY <1>10, <1>11, <1>12, <1>13, <1>14 DEF TextInv, TextOK

\* Nothing was read, planned or written.
LEMMA TextInit == Init => TextInv
<1> SUFFICES ASSUME Init, NEW t \in Thread PROVE TextOK(t)
    BY DEF TextInv
<1>1. PICK kind \in [Thread -> Kind] : job = [u \in Thread |-> NoJob(kind[u])]
      BY DEF Init
<1>2. \A u \in Thread : job[u].pc = "idle" /\ DOMAIN job[u].seen = {}
      BY <1>1, NothingIsPartial DEF NoJob
<1>3. \A u \in Thread : tx[u].step = "none" /\ ~Staged(tx[u])
      BY DEF Init, PatchInit, NoTx, Staged
<1>4. /\ result[t] = "none" /\ tracked[t] = Null /\ wave = Null
      /\ \A p \in Path : files[p] \in {Absent, {}}
      BY DEF Init, PatchInit
<1>5. \A p \in Path : Edits(files[p]) = {}
      BY <1>4 DEF Edits
<1>6. Target[t] \subseteq Path
      BY RoleAssumption
<1>7. \A p \in Target[t] : ResultOK(t, p)
      BY <1>2, <1>3, <1>4, <1>5, <1>6 DEF ResultOK
<1>8. PlanOK(t) /\ StageOK(t) /\ SeenOK(t) /\ ReadOK(t) /\ ChangeOK(t)
      BY <1>2, <1>3, <1>4 DEF PlanOK, StageOK, SeenOK, ReadOK, ChangeOK
<1> QED BY <1>3, <1>7, <1>8 DEF TextOK

\* No step of any thread breaks what is known of the texts.
LEMMA TextNext == Places /\ TextInv /\ [Next]_vars => TextInv'
<1> SUFFICES ASSUME Places, TextInv, [Next]_vars PROVE TextInv'
    OBVIOUS
<1>1. CASE UNCHANGED vars
  <2> SUFFICES ASSUME NEW t \in Thread PROVE TextOK(t)'
      BY DEF TextInv
  <2>1. NoPatch /\ UNCHANGED jobVars
        BY <1>1 DEF vars, NoPatch
  <2>2. TextInv'
        BY <2>1, LockOnlyQuiet, QuietKeeps
  <2> QED BY <2>2 DEF TextInv
<1>2. ASSUME NEW t \in Thread, Step(t) \/ TimeOut(t) \/ Start(t) PROVE TextInv'
  <2>1. CASE \/ Gate(t) \/ Regate(t) \/ WaitGate(t) \/ TimeOut(t)
             \/ Open(t) \/ WaitScope(t) \/ Take(t)
             \/ JoinWave(t) \/ LockWave(t) \/ MakeWave(t) \/ LeaveWave(t)
             \/ NoteRevision(t) \/ Skip(t)
             \/ Drop(t) \/ Exit(t) \/ Ungate(t) \/ End(t) \/ Start(t)
    <3>1. Quiet(t)
          BY <2>1, QuietSteps
    <3> QED BY <3>1, QuietKeeps
  <2>2. CASE ReadFile(t) \/ Track(t) \/ GiveUp(t) \/ Apply(t) \/ Patch(t) \/ Settled(t)
        BY <2>2, ReadFileTexts, TrackTexts, GiveUpTexts, ApplyTexts, PatchTexts, SettledTexts
  <2> QED BY <1>2, <2>1, <2>2 DEF Step
<1> QED BY <1>1, <1>2 DEF Next

-----------------------------------------------------------------------------
(* What the patcher and the owner guarantee                                *)

\* Types, lock, places and texts are an inductive invariant.
THEOREM ProjectInvariant == Spec => []Inv
<1>1. Init => Inv
      BY PlacesInit, TextInit DEF Inv, Places
<1>2. Inv /\ [Next]_vars => Inv'
      BY PlacesNext, TextNext DEF Inv, Places
<1> QED BY <1>1, <1>2, PTL DEF Spec

\* No update is lost and no failed one leaves a trace: an applied edit stays in all its
\* files whatever other jobs merge, commit or roll back (TransactionalSourcePatcher.apply,
\* _three_way_merge, _rollback_committed), for any number of threads, files and faults.
THEOREM EditsAllOrNothing == Spec => []AllOrNothing
<1>1. Inv => AllOrNothing
  <2> SUFFICES ASSUME Inv, NEW t \in Thread, tx[t].step = "none", NEW p \in Target[t]
               PROVE  /\ result[t] = "applied" => files[p] = Torn \/ t \in Edits(files[p])
                      /\ result[t] \notin {"applied", "uncertain"} => t \notin Edits(files[p])
      BY DEF AllOrNothing
  <2>1. ResultOK(t, p) /\ ~Writes(t, p)
        BY DEF Inv, TextInv, TextOK, Writes, Staged
  <2> QED BY <2>1 DEF ResultOK, Keeps
<1> QED BY <1>1, ProjectInvariant, PTL

\* changes_since() names every file that differs from what a verifier read at a revision
\* of the same owner, whatever was rolled back, refused or left uncertain in between.
THEOREM OwnerTellsChanges == Spec => []ChangesComplete
<1>1. Inv => ChangesComplete
  <2> SUFFICES ASSUME Inv, NEW t \in Thread, tracked[t] # Null, tracked[t].rev[1] = owner.id
               PROVE  /\ tracked[t].rev[2] <= owner.revision
                      /\ \A p \in Path : files[p] # tracked[t].seen[p] =>
                           \/ p \in ChangesSince(tracked[t].rev[2])
                           \/ \E u \in Thread : Midway(u) /\ p \in DOMAIN tx[u].plan
      BY DEF ChangesComplete
  <2>1. ChangeOK(t)
        BY DEF Inv, TextInv, TextOK
  <2>2. \A u \in Thread, p \in Path : Writes(u, p) => Midway(u) /\ p \in DOMAIN tx[u].plan
        BY DEF Writes, Staged, Midway
  <2>3. ASSUME NEW p \in Path, files[p] # tracked[t].seen[p], \A u \in Thread : ~Writes(u, p)
        PROVE  p \in ChangesSince(tracked[t].rev[2])
    <3>1. Differs(t, p)
          BY <2>3 DEF Differs
    <3> QED BY <2>1, <3>1 DEF ChangeOK, ChangesSince
  <2> QED BY <2>1, <2>2, <2>3 DEF ChangeOK
<1> QED BY <1>1, ProjectInvariant, PTL
===============================================================================
