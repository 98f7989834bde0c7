--------------------------- MODULE ProjectWriteLock ---------------------------
(***************************************************************************)
(* The lock of one project: project_write_lock, which excludes everything, *)
(* and project_path_write_locks, which locks the target paths of one       *)
(* transaction.  The state is that of ProjectLockState; the code between   *)
(* two waits on its condition runs under the condition's mutex and is one  *)
(* step, and so is one acquire or release of a path's RLock.               *)
(*                                                                         *)
(* A thread waiting on the condition is asleep until a notify_all; awake   *)
(* it tests its condition again.  The operators below describe the lock    *)
(* alone; ProjectEdits makes them the steps of its threads.                *)
(***************************************************************************)
EXTENDS Naturals, Sequences, FiniteSets

CONSTANTS
  Thread,  \* the threads of the process
  Path,    \* project paths; their order is the lexical one
  Null     \* Python's None

ASSUME LockAssumption == Path \subseteq Nat /\ Null \notin Thread

VARIABLES
  writer,        \* writer_owner
  writerDepth,   \* writer_depth
  waiting,       \* waiting_writers
  scopedTotal,   \* scoped_total
  scopedDepth,   \* scoped_depth of every thread, 0 when it has no entry
  holder,        \* the owner of every path's RLock
  holds,         \* how often every path's RLock is held
  asleep,        \* threads inside condition.wait()
  at,            \* where every thread is in the innermost call of the lock
  scopes         \* the scoped calls every thread is inside, outermost first

lockVars == <<writer, writerDepth, waiting, scopedTotal, scopedDepth, holder, holds,
              asleep, at, scopes>>

\* counted: the call did not run under the thread's own coarse lock (not owns_coarse);
\* got: the paths it has acquired.
Scope == [paths : SUBSET Path, got : SUBSET Path, counted : BOOLEAN]

At == {"run", "coarse", "scoped", "take", "drop"}

LockTypeOK ==
  /\ writer \in Thread \cup {Null}
  /\ {writerDepth, waiting, scopedTotal} \subseteq Nat
  /\ scopedDepth \in [Thread -> Nat]
  /\ holder \in [Path -> Thread \cup {Null}]
  /\ holds \in [Path -> Nat]
  /\ asleep \subseteq Thread
  /\ at \in [Thread -> At]
  /\ scopes \in [Thread -> Seq(Scope)]

LockInit ==
  /\ writer = Null
  /\ writerDepth = 0
  /\ waiting = 0
  /\ scopedTotal = 0
  /\ scopedDepth = [t \in Thread |-> 0]
  /\ holder = [p \in Path |-> Null]
  /\ holds = [p \in Path |-> 0]
  /\ asleep = {}
  /\ at = [t \in Thread |-> "run"]
  /\ scopes = [t \in Thread |-> <<>>]

Move(t, a) == at' = [at EXCEPT ![t] = a]
NotifyAll == asleep' = {}

NoPaths == UNCHANGED <<holder, holds>>
NoWriter == UNCHANGED <<writer, writerDepth, waiting>>
NoScoped == UNCHANGED <<scopedTotal, scopedDepth>>

-----------------------------------------------------------------------------
(* project_write_lock                                                      *)

\* Mutant: the gate does not look at the open scoped transactions.
MutCoarseFree == writer = Null

CoarseFree == writer = Null /\ scopedTotal = 0

Own(t) == writer' = t /\ writerDepth' = 1

\* A thread inside a scoped transaction of its own is refused (RuntimeError): no
\* caller asks for the coarse lock there.
EnterCoarse(t) ==
  /\ at[t] = "run"
  /\ \/ /\ writer = t
        /\ writerDepth' = writerDepth + 1
        /\ UNCHANGED <<writer, waiting, asleep, at>>
     \/ /\ writer # t
        /\ scopedDepth[t] = 0
        /\ \/ CoarseFree /\ Own(t) /\ NotifyAll /\ UNCHANGED <<waiting, at>>
           \/ /\ ~CoarseFree
              /\ waiting' = waiting + 1
              /\ asleep' = {t}
              /\ Move(t, "coarse")
              /\ UNCHANGED <<writer, writerDepth>>
  /\ UNCHANGED scopes /\ NoScoped /\ NoPaths

\* A waiter with a deadline is woken by the clock as well.
RetryCoarse(t, timed) ==
  /\ at[t] = "coarse"
  /\ timed \/ t \notin asleep
  /\ \/ /\ CoarseFree
        /\ Own(t)
        /\ waiting' = waiting - 1
        /\ asleep' = asleep \ {t}
        /\ Move(t, "run")
     \/ /\ ~CoarseFree /\ t \notin asleep
        /\ asleep' = asleep \cup {t}
        /\ UNCHANGED <<writer, writerDepth, waiting, at>>
  /\ UNCHANGED scopes /\ NoScoped /\ NoPaths

\* TimeoutError; nobody is notified.
TimeOutCoarse(t) ==
  /\ at[t] = "coarse"
  /\ ~CoarseFree
  /\ waiting' = waiting - 1
  /\ asleep' = asleep \ {t}
  /\ Move(t, "run")
  /\ UNCHANGED <<writer, writerDepth, scopes>> /\ NoScoped /\ NoPaths

ExitCoarse(t) ==
  /\ at[t] = "run"
  /\ writer = t
  /\ writerDepth' = writerDepth - 1
  /\ IF writerDepth = 1 THEN writer' = Null /\ NotifyAll ELSE UNCHANGED <<writer, asleep>>
  /\ UNCHANGED <<waiting, at, scopes>> /\ NoScoped /\ NoPaths

-----------------------------------------------------------------------------
(* project_path_write_locks                                                *)

\* Mutant: waiting coarse writers get no preference.
MutScopedBlocked(t) == writer # Null

ScopedBlocked(t) == writer # Null \/ (waiting > 0 /\ scopedDepth[t] = 0)

Opened(t, ps, counted) ==
  /\ scopes' = [scopes EXCEPT ![t] = Append(@, [paths |-> ps, got |-> {}, counted |-> counted])]
  /\ Move(t, "take")

Counted(t, ps) ==
  /\ scopedTotal' = scopedTotal + 1
  /\ scopedDepth' = [scopedDepth EXCEPT ![t] = @ + 1]
  /\ Opened(t, ps, TRUE)

EnterScoped(t, ps) ==
  /\ at[t] = "run"
  /\ \/ writer = t /\ Opened(t, ps, FALSE) /\ NoScoped /\ UNCHANGED asleep
     \/ writer # t /\ ~ScopedBlocked(t) /\ Counted(t, ps) /\ UNCHANGED asleep
     \/ /\ writer # t /\ ScopedBlocked(t)
        /\ asleep' = asleep \cup {t}
        /\ Move(t, "scoped")
        /\ UNCHANGED scopes /\ NoScoped
  /\ NoWriter /\ NoPaths

RetryScoped(t, ps) ==
  /\ at[t] = "scoped" /\ t \notin asleep
  /\ \/ ~ScopedBlocked(t) /\ Counted(t, ps) /\ UNCHANGED asleep
     \/ /\ ScopedBlocked(t)
        /\ asleep' = asleep \cup {t}
        /\ UNCHANGED <<at, scopes>> /\ NoScoped
  /\ NoWriter /\ NoPaths

Top(t) == scopes[t][Len(scopes[t])]
SetTop(t, s) == scopes' = [scopes EXCEPT ![t][Len(scopes[t])] = s]

First(S) == CHOOSE p \in S : \A q \in S : p <= q
Last(S) == CHOOSE p \in S : \A q \in S : p >= q

\* Mutant: the path locks are taken in no particular order.
MutTakes(t, p) == p \in Top(t).paths \ Top(t).got

\* The next path of the call, in lexical order.
Takes(t, p) == Top(t).paths # Top(t).got /\ p = First(Top(t).paths \ Top(t).got)

\* lock.acquire(): an RLock is free or already the thread's own.
Available(t, p) == holder[p] \in {Null, t}

TakePath(t, p) ==
  /\ at[t] = "take"
  /\ Takes(t, p) /\ Available(t, p)
  /\ holder' = [holder EXCEPT ![p] = t]
  /\ holds' = [holds EXCEPT ![p] = @ + 1]
  /\ LET got == Top(t).got \cup {p}
     IN  /\ SetTop(t, [Top(t) EXCEPT !.got = got])
         /\ Move(t, IF got = Top(t).paths THEN "run" ELSE "take")
  /\ NoWriter /\ NoScoped /\ UNCHANGED asleep

\* Leaving the body: the path locks are released in reverse order.
DropPath(t) ==
  /\ at[t] = "run" \/ at[t] = "drop"
  /\ scopes[t] # <<>> /\ Top(t).got # {}
  /\ LET p == Last(Top(t).got)
     IN  /\ holds' = [holds EXCEPT ![p] = @ - 1]
         /\ holder' = [holder EXCEPT ![p] = IF holds[p] = 1 THEN Null ELSE @]
         /\ SetTop(t, [Top(t) EXCEPT !.got = @ \ {p}])
  /\ Move(t, "drop")
  /\ NoWriter /\ NoScoped /\ UNCHANGED asleep

\* Mutant: the last transaction to leave wakes nobody unless a writer is waiting.
MutWakes == waiting > 0

\* Whether the thread that leaves its scope notifies.
Wakes == scopedTotal = 1 \/ waiting > 0

CountsOut(t) == Top(t).counted

ExitScoped(t) ==
  /\ at[t] = "drop" /\ Top(t).got = {}
  /\ \/ ~CountsOut(t) /\ NoScoped /\ UNCHANGED asleep
     \/ /\ CountsOut(t)
        /\ scopedDepth' = [scopedDepth EXCEPT ![t] = @ - 1]
        /\ scopedTotal' = scopedTotal - 1
        /\ IF Wakes THEN NotifyAll ELSE UNCHANGED asleep
  /\ scopes' = [scopes EXCEPT ![t] = SubSeq(@, 1, Len(@) - 1)]
  /\ Move(t, "run")
  /\ NoWriter /\ NoPaths
===============================================================================
