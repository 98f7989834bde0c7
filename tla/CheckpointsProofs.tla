--------------------------- MODULE CheckpointsProofs ---------------------------
(***************************************************************************)
(* Theorems about named checkpoints, for any number of checkpoints, inputs *)
(* and concurrent calls.                                                   *)
(***************************************************************************)
EXTENDS Checkpoints, TLAPS

\* What the moves of a call do to the call table.
LEMMA CallMoves ==
  ASSUME TypeOK, NEW c \in Caller
  PROVE  /\ \A pc \in CallPC : Goto(c, pc) =>
              /\ call' \in [Caller -> Call]
              /\ call'[c].pc = pc /\ call'[c].key = call[c].key
              /\ call'[c].hash = call[c].hash /\ call'[c].value = call[c].value
              /\ \A d \in Caller \ {c} : call'[d] = call[d]
         /\ \A v \in Hash \cup {Null, Damaged} : Return(c, v) =>
              /\ call' \in [Caller -> Call]
              /\ call'[c].pc = "returned" /\ call'[c].key = call[c].key
              /\ call'[c].hash = call[c].hash /\ call'[c].value = v
              /\ \A d \in Caller \ {c} : call'[d] = call[d]
<1>1. call \in [Caller -> Call] /\ call[c] \in Call
      BY DEF TypeOK
<1>2. ASSUME NEW pc \in CallPC, Goto(c, pc)
      PROVE  /\ call' \in [Caller -> Call]
             /\ call'[c].pc = pc /\ call'[c].key = call[c].key
             /\ call'[c].hash = call[c].hash /\ call'[c].value = call[c].value
             /\ \A d \in Caller \ {c} : call'[d] = call[d]
  <2>1. [call[c] EXCEPT !.pc = pc] \in Call
        BY <1>1 DEF Call
  <2>2. call' = [call EXCEPT ![c] = [call[c] EXCEPT !.pc = pc]]
        BY <1>2 DEF Goto
  <2>3. call'[c] = [call[c] EXCEPT !.pc = pc]
        BY <1>1, <2>2
  <2>4. call' \in [Caller -> Call] /\ \A d \in Caller \ {c} : call'[d] = call[d]
        BY <1>1, <2>1, <2>2
  <2> QED BY <1>1, <2>3, <2>4 DEF Call
<1>3. ASSUME NEW v \in Hash \cup {Null, Damaged}, Return(c, v)
      PROVE  /\ call' \in [Caller -> Call]
             /\ call'[c].pc = "returned" /\ call'[c].key = call[c].key
             /\ call'[c].hash = call[c].hash /\ call'[c].value = v
             /\ \A d \in Caller \ {c} : call'[d] = call[d]
  <2> DEFINE q == [call[c] EXCEPT !.pc = "returned"]
             r == [q EXCEPT !.value = v]
             step == [call EXCEPT ![c] = q]
  <2>1. q \in Call /\ q.pc = "returned" /\ q.key = call[c].key /\ q.hash = call[c].hash
        BY <1>1 DEF Call, CallPC, Ended
  <2> HIDE DEF q
  <2>2. r \in Call /\ r.pc = q.pc /\ r.key = q.key /\ r.hash = q.hash /\ r.value = v
        BY <2>1 DEF Call
  <2>3. call' = [step EXCEPT ![c] = [step[c] EXCEPT !.value = v]]
        BY <1>3 DEF Return, q
  <2>4. step[c] = q /\ step \in [Caller -> Call] /\ \A d \in Caller \ {c} : step[d] = call[d]
        BY <1>1, <2>1
  <2> HIDE DEF step
  <2>5. call' = [step EXCEPT ![c] = r]
        BY <2>3, <2>4
  <2> HIDE DEF r
  <2>6. call'[c] = r /\ call' \in [Caller -> Call] /\ \A d \in Caller \ {c} : call'[d] = call[d]
        BY <2>2, <2>4, <2>5
  <2> QED BY <2>1, <2>2, <2>6
<1> QED BY <1>2, <1>3

\* What a statement on one row does to the checkpoint table.
LEMMA RowWrites ==
  ASSUME TypeOK, NEW k \in Key
  PROVE  /\ \A r \in CpRow : SetCp(k, r) =>
              cp' \in [Key -> CpRow] /\ cp'[k] = r /\ \A j \in Key \ {k} : cp'[j] = cp[j]
         /\ \A h \in Hash : [state |-> "running", hash |-> h, receipt |-> Null] \in CpRow
<1>1. cp \in [Key -> CpRow]
      BY DEF TypeOK
<1>2. ASSUME NEW r \in CpRow, SetCp(k, r)
      PROVE  cp' \in [Key -> CpRow] /\ cp'[k] = r /\ \A j \in Key \ {k} : cp'[j] = cp[j]
      BY <1>1, <1>2 DEF SetCp
<1>3. \A h \in Hash : [state |-> "running", hash |-> h, receipt |-> Null] \in CpRow
      BY DEF CpRow, CheckpointState
<1> QED BY <1>2, <1>3

\* What the statements make of one row.
LEMMA RowValues ==
  ASSUME NEW r \in CpRow
  PROVE  /\ \A s \in CheckpointState :
              /\ Moved(r, s) \in CpRow
              /\ Moved(r, s).state = s /\ Moved(r, s).hash = r.hash
              /\ Moved(r, s).receipt = r.receipt
         /\ Dropped(r) \in CpRow
         /\ Dropped(r).state = "failed" /\ Dropped(r).hash = r.hash /\ Dropped(r).receipt = Null
         /\ \A h \in Hash :
              /\ Published(r, h) \in CpRow
              /\ Published(r, h).state = "succeeded" /\ Published(r, h).hash = r.hash
              /\ Published(r, h).receipt = h
         /\ Rotted(r) \in CpRow
         /\ Rotted(r).state = r.state /\ Rotted(r).hash = r.hash /\ Rotted(r).receipt = Damaged
<1> USE DEF CpRow, CheckpointState
<1>1. \A s \in CheckpointState :
        /\ Moved(r, s) \in CpRow
        /\ Moved(r, s).state = s /\ Moved(r, s).hash = r.hash
        /\ Moved(r, s).receipt = r.receipt
      BY DEF Moved
<1>2. /\ Dropped(r) \in CpRow
      /\ Dropped(r).state = "failed" /\ Dropped(r).hash = r.hash /\ Dropped(r).receipt = Null
      BY DEF Dropped
<1>3. \A h \in Hash :
        /\ Published(r, h) \in CpRow
        /\ Published(r, h).state = "succeeded" /\ Published(r, h).hash = r.hash
        /\ Published(r, h).receipt = h
      BY DEF Published
<1>4. /\ Rotted(r) \in CpRow
      /\ Rotted(r).state = r.state /\ Rotted(r).hash = r.hash /\ Rotted(r).receipt = Damaged
      BY DEF Rotted
<1> HIDE DEF CpRow, CheckpointState
<1> QED BY <1>1, <1>2, <1>3, <1>4

\* The statements that touch every row: each row is left alone or replaced.
LEMMA TableWrites ==
  ASSUME TypeOK
  PROVE  /\ CancelRun => /\ cp' \in [Key -> CpRow]
                         /\ \A k \in Key : cp'[k] \in {cp[k], Moved(cp[k], "cancelled")}
         /\ ResumeRun => /\ cp' \in [Key -> CpRow]
                         /\ \A k \in Key : cp'[k] \in {cp[k], Moved(cp[k], "failed")}
         /\ OpenLedger => /\ cp' \in [Key -> CpRow]
                          /\ \A k \in Key : \/ cp'[k] = cp[k]
                                            \/ cp[k].state = "succeeded" /\ cp'[k] = Dropped(cp[k])
<1>1. \A k \in Key : /\ cp[k] \in CpRow /\ Moved(cp[k], "cancelled") \in CpRow
                     /\ Moved(cp[k], "failed") \in CpRow /\ Dropped(cp[k]) \in CpRow
      BY RowValues DEF TypeOK, CheckpointState
<1> QED BY <1>1 DEF CancelRun, ResumeRun, OpenLedger

\* A step of a call, field by field: k and h are its checkpoint and input.
LEMMA CallEffects ==
  ASSUME TypeOK, NEW c \in Caller, CallStep(c)
  PROVE  LET k == call[c].key
             h == call[c].hash
             a == call[c].pc
             b == call'[c].pc
         IN  /\ k \in Key /\ h \in Hash
             /\ cp' \in [Key -> CpRow] /\ call' \in [Caller -> Call]
             /\ call'[c].key = k /\ call'[c].hash = h
             /\ \A d \in Caller \ {c} : call'[d] = call[d]
             /\ \A j \in Key \ {k} : cp'[j] = cp[j]
             /\ UNCHANGED <<cancelled, cancels>>
             /\ \/ a = "cached" /\ b = "returned" /\ cp' = cp
                   /\ Hit(k, h) /\ call'[c].value = cp[k].receipt
                \/ a = "cached" /\ b \in {"invalidate", "raised", "discard", "begin"} /\ cp' = cp
                \/ a \in {"discard", "invalidate"} /\ b = "begin" /\ cp' = cp
                \/ a \in {"discard", "invalidate"} /\ b = "begin"
                   /\ cp[k].state = "succeeded" /\ cp'[k].state = "failed"
                \/ a = "begin" /\ b = "act" /\ Startable(k, h)
                   /\ cp'[k].state = "running" /\ cp'[k].hash = h
                \/ a = "begin" /\ b = "raised" /\ cp' = cp
                \/ a = "act" /\ b \in {"succeed", "fail"} /\ cp' = cp
                \/ a = "succeed" /\ b = "returned" /\ call'[c].value = h /\ Mine(k, h)
                   /\ cp'[k].state = "succeeded" /\ cp'[k].hash = h /\ cp'[k].receipt = h
                \/ a = "succeed" /\ b = "fail" /\ ~Mine(k, h) /\ cp' = cp
                \/ a = "fail" /\ b = "raised" /\ Mine(k, h) /\ cp'[k].state = "failed"
                \/ a = "fail" /\ b = "raised" /\ ~Mine(k, h) /\ cp' = cp
<1> DEFINE k == call[c].key
           h == call[c].hash
<1>1. k \in Key /\ h \in Hash /\ cp \in [Key -> CpRow] /\ cp[k] \in CpRow
  <2>1. call[c].pc # "new"
        BY DEF CallStep, ReadCached, DiscardDamaged, DropCached, BeginCall, Act,
               SucceedCall, FailCall, At
  <2> QED BY <2>1 DEF TypeOK
<1>2. ASSUME NEW pc \in CallPC, Goto(c, pc)
      PROVE  /\ call' \in [Caller -> Call] /\ call'[c].pc = pc
             /\ call'[c].key = k /\ call'[c].hash = h
             /\ \A d \in Caller \ {c} : call'[d] = call[d]
      BY <1>2, CallMoves
<1>3. ASSUME NEW v \in Hash \cup {Null, Damaged}, Return(c, v)
      PROVE  /\ call' \in [Caller -> Call] /\ call'[c].pc = "returned" /\ call'[c].value = v
             /\ call'[c].key = k /\ call'[c].hash = h
             /\ \A d \in Caller \ {c} : call'[d] = call[d]
      BY <1>3, CallMoves
<1>4. ASSUME NEW r \in CpRow, SetCp(k, r)
      PROVE  cp' \in [Key -> CpRow] /\ cp'[k] = r /\ \A j \in Key \ {k} : cp'[j] = cp[j]
      BY <1>1, <1>4, RowWrites
<1>5. {"invalidate", "raised", "discard", "begin", "act", "succeed", "fail"} \subseteq CallPC
      BY DEF CallPC, Ended
<1>6. cp[k].receipt \in Hash \cup {Null, Damaged}
      BY <1>1 DEF CpRow
<1>7. /\ Dropped(cp[k]) \in CpRow /\ Dropped(cp[k]).state = "failed"
      /\ Moved(cp[k], "failed") \in CpRow /\ Moved(cp[k], "failed").state = "failed"
      /\ Published(cp[k], h) \in CpRow /\ Published(cp[k], h).state = "succeeded"
      /\ Published(cp[k], h).hash = cp[k].hash /\ Published(cp[k], h).receipt = h
  <2>1. "failed" \in CheckpointState
        BY DEF CheckpointState
  <2>2. cp[k] \in CpRow /\ h \in Hash
        BY <1>1
  <2> HIDE DEF k, h
  <2> QED BY <2>1, <2>2, RowValues, ZenonT(40)
<1>8. [state |-> "running", hash |-> h, receipt |-> Null] \in CpRow
      BY <1>1, RowWrites
<1>9. CASE ReadCached(c)
      BY <1>9, <1>1, <1>2, <1>3, <1>5, <1>6 DEF ReadCached, NoCp, At, Hit
<1>10. CASE DiscardDamaged(c)
      BY <1>10, <1>1, <1>2, <1>4, <1>5, <1>7 DEF DiscardDamaged, At
<1>11. CASE DropCached(c)
      BY <1>11, <1>1, <1>2, <1>4, <1>5, <1>7 DEF DropCached, InvalidateCheckpoint, At
<1>12. CASE BeginCall(c)
      BY <1>12, <1>1, <1>2, <1>4, <1>5, <1>8 DEF BeginCall, BeginCheckpoint, At
<1>13. CASE Act(c)
      BY <1>13, <1>1, <1>2, <1>5 DEF Act, NoCp, At
<1>14. CASE SucceedCall(c)
      BY <1>14, <1>1, <1>2, <1>3, <1>4, <1>5, <1>7 DEF SucceedCall, SucceedCheckpoint, Mine, At
<1>15. CASE FailCall(c)
      BY <1>15, <1>1, <1>2, <1>4, <1>5, <1>7 DEF FailCall, FailCheckpoint, At
<1> QED BY <1>9, <1>10, <1>11, <1>12, <1>13, <1>14, <1>15 DEF CallStep

\* The steps outside a call that has started, field by field.
LEMMA OtherEffects ==
  ASSUME TypeOK
  PROVE  /\ \A c \in Caller, k \in Key, h \in Hash : StartCall(c, k, h) =>
              /\ cp' = cp /\ UNCHANGED <<cancelled, cancels>>
              /\ call' \in [Caller -> Call]
              /\ call[c].pc = "new" /\ call'[c].pc \in {"raised", "cached"}
              /\ call'[c].key = k /\ call'[c].hash = h
              /\ \A d \in Caller \ {c} : call'[d] = call[d]
         /\ \A c \in Caller : Crash(c) =>
              /\ MayCrash
              /\ cp' = cp /\ UNCHANGED <<cancelled, cancels>>
              /\ call' \in [Caller -> Call]
              /\ call[c].pc # "new" /\ call'[c].pc = "dead"
              /\ call'[c].key = call[c].key /\ call'[c].hash = call[c].hash
              /\ \A d \in Caller \ {c} : call'[d] = call[d]
         /\ CancelRun \/ ResumeRun \/ OpenLedger =>
              /\ call' = call
              /\ cp' \in [Key -> CpRow]
              /\ \A k \in Key : \/ cp'[k] = cp[k]
                                \/ cp'[k].state \in {"cancelled", "failed"}
         /\ \A k \in Key : Rot(k) =>
              /\ call' = call /\ UNCHANGED <<cancelled, cancels>>
              /\ cp' \in [Key -> CpRow]
              /\ cp[k].state = "succeeded" /\ cp'[k].state = "succeeded"
              /\ cp'[k].receipt = Damaged
              /\ \A j \in Key \ {k} : cp'[j] = cp[j]
<1>1. ASSUME NEW c \in Caller, NEW k \in Key, NEW h \in Hash, StartCall(c, k, h)
      PROVE  /\ call' \in [Caller -> Call]
             /\ call[c].pc = "new" /\ call'[c].pc \in {"raised", "cached"}
             /\ call'[c].key = k /\ call'[c].hash = h
             /\ \A d \in Caller \ {c} : call'[d] = call[d]
      BY <1>1 DEF StartCall, TypeOK, Call, CallPC, Ended, At
<1>2. ASSUME NEW c \in Caller, Crash(c)
      PROVE  /\ call' \in [Caller -> Call]
             /\ call[c].pc # "new" /\ call'[c].pc = "dead"
             /\ call'[c].key = call[c].key /\ call'[c].hash = call[c].hash
             /\ \A d \in Caller \ {c} : call'[d] = call[d]
  <2>1. "dead" \in CallPC
        BY DEF CallPC, Ended
  <2> QED BY <1>2, <2>1, CallMoves DEF Crash, Active
<1>3. ASSUME CancelRun \/ ResumeRun \/ OpenLedger
      PROVE  /\ call' = call
             /\ cp' \in [Key -> CpRow]
             /\ \A k \in Key : \/ cp'[k] = cp[k]
                               \/ cp'[k].state \in {"cancelled", "failed"}
  <2>1. \A k \in Key : /\ Moved(cp[k], "cancelled").state = "cancelled"
                       /\ Moved(cp[k], "failed").state = "failed"
                       /\ Dropped(cp[k]).state = "failed"
        BY RowValues DEF TypeOK, CheckpointState
  <2>2. call' = call
        BY <1>3 DEF CancelRun, ResumeRun, OpenLedger
  <2> QED BY <1>3, <2>1, <2>2, TableWrites
<1>4. ASSUME NEW k \in Key, Rot(k)
      PROVE  /\ cp' \in [Key -> CpRow]
             /\ cp[k].state = "succeeded" /\ cp'[k].state = "succeeded"
             /\ cp'[k].receipt = Damaged
             /\ \A j \in Key \ {k} : cp'[j] = cp[j]
  <2>1. /\ Rotted(cp[k]) \in CpRow /\ Rotted(cp[k]).state = cp[k].state
        /\ Rotted(cp[k]).receipt = Damaged
        BY RowValues DEF TypeOK
  <2> QED BY <1>4, <2>1, RowWrites DEF Rot
<1> QED BY <1>1, <1>2, <1>3, <1>4 DEF StartCall, Crash, NoCp, Rot

\* Every step keeps the rows, the calls and the cancel flag well formed.
LEMMA TypeStep == TypeOK /\ [Next]_vars => TypeOK'
<1> SUFFICES ASSUME TypeOK, [Next]_vars PROVE TypeOK'
    OBVIOUS
<1>1. CASE UNCHANGED vars
      BY <1>1 DEF vars, TypeOK
<1>2. ASSUME NEW c \in Caller, NEW k \in Key, NEW h \in Hash, StartCall(c, k, h)
      PROVE  TypeOK'
      BY <1>2, OtherEffects DEF TypeOK
<1>3. ASSUME NEW c \in Caller, CallStep(c) PROVE TypeOK'
      BY <1>3, CallEffects DEF TypeOK
<1>4. ASSUME NEW c \in Caller, Crash(c) PROVE TypeOK'
      BY <1>4, OtherEffects DEF TypeOK
<1>5. CASE CancelRun
  <2>1. cancels' \in 0 .. MaxCancel /\ cancelled' \in BOOLEAN
        BY <1>5, ValueAssumption DEF CancelRun, TypeOK
  <2> QED BY <1>5, <2>1, OtherEffects DEF TypeOK
<1>6. CASE ResumeRun
      BY <1>6, OtherEffects DEF ResumeRun, TypeOK
<1>7. CASE OpenLedger
      BY <1>7, OtherEffects DEF OpenLedger, TypeOK
<1>8. ASSUME NEW k \in Key, Rot(k) PROVE TypeOK'
      BY <1>8, OtherEffects DEF TypeOK
<1> QED BY <1>1, <1>2, <1>3, <1>4, <1>5, <1>6, <1>7, <1>8 DEF Next

\* The types hold at first.
LEMMA TypeInit == Init => TypeOK
<1> SUFFICES ASSUME Init PROVE TypeOK
    OBVIOUS
<1>1. cp \in [Key -> CpRow]
      BY DEF Init, CpRow
<1>2. call \in [Caller -> Call]
      BY DEF Init, Call, CallPC
<1>3. \A c \in Caller : call[c].pc = "new"
      BY DEF Init
<1>4. cancels \in 0 .. MaxCancel
      BY ValueAssumption DEF Init
<1>5. cancelled \in BOOLEAN
      BY DEF Init
<1> QED BY <1>1, <1>2, <1>3, <1>4, <1>5 DEF TypeOK

\* Type correctness of the checkpoint table and of run_named_checkpoint.
THEOREM TypeCorrect == Spec => []TypeOK
<1>1. TypeOK /\ [Next]_vars => TypeOK'
      BY TypeStep
<1> QED BY <1>1, TypeInit, PTL DEF Spec

-----------------------------------------------------------------------------
(* Results.  A call returns what it computed, or what a row that matched   *)
(* its input holds: so the receipt of every success must belong to the     *)
(* input stored beside it.                                                 *)

EvidenceFits ==
  \A k \in Key : cp[k].state = "succeeded" => cp[k].receipt \in {cp[k].hash, Damaged}

ResultInv == TypeOK /\ EvidenceFits /\ ResultFits

\* Results fit their evidence after every step.
LEMMA ResultStep == ResultInv /\ [Next]_vars => ResultInv'
<1> SUFFICES ASSUME ResultInv, [Next]_vars PROVE (EvidenceFits /\ ResultFits)'
    BY TypeStep DEF ResultInv
<1> USE DEF ResultInv
<1>1. CASE UNCHANGED vars
      BY <1>1 DEF vars, EvidenceFits, ResultFits
<1>2. ASSUME NEW c \in Caller, NEW k \in Key, NEW h \in Hash, StartCall(c, k, h)
      PROVE  (EvidenceFits /\ ResultFits)'
      BY <1>2, OtherEffects DEF EvidenceFits, ResultFits
<1>3. ASSUME NEW c \in Caller, CallStep(c) PROVE (EvidenceFits /\ ResultFits)'
  <2>1. EvidenceFits'
        BY <1>3, CallEffects DEF EvidenceFits
  <2>2. ResultFits'
        BY <1>3, CallEffects DEF EvidenceFits, ResultFits, Hit
  <2> QED BY <2>1, <2>2
<1>4. ASSUME NEW c \in Caller, Crash(c) PROVE (EvidenceFits /\ ResultFits)'
      BY <1>4, OtherEffects DEF EvidenceFits, ResultFits
<1>5. CASE CancelRun \/ ResumeRun \/ OpenLedger
      BY <1>5, OtherEffects DEF EvidenceFits, ResultFits
<1>6. ASSUME NEW k \in Key, Rot(k) PROVE (EvidenceFits /\ ResultFits)'
      BY <1>6, OtherEffects DEF EvidenceFits, ResultFits
<1> QED BY <1>1, <1>2, <1>3, <1>4, <1>5, <1>6 DEF Next

\* Whatever run_named_checkpoint returns was computed from the input of that
\* very call, under any mix of concurrent calls, kills, cancellations, resumes
\* and damaged receipts.
THEOREM ResultsFit == Spec => []ResultFits
<1>1. Init => ResultInv
      BY TypeInit DEF Init, ResultInv, EvidenceFits, ResultFits
<1>2. ResultInv /\ [Next]_vars => ResultInv'
      BY ResultStep
<1>3. ResultInv => ResultFits
      BY DEF ResultInv
<1> QED BY <1>1, <1>2, <1>3, PTL DEF Spec

-----------------------------------------------------------------------------
(* Until a process is killed every running row has a call that can end it. *)

\* No step leaves a running row unattended.
LEMMA OrphanStep == TypeOK /\ NoOrphan /\ [Next]_vars => NoOrphan'
<1> SUFFICES ASSUME TypeOK, NoOrphan, [Next]_vars, \A c \in Caller : call'[c].pc # "dead"
             PROVE  Attended'
    BY DEF NoOrphan
<1>1. CASE UNCHANGED vars
      BY <1>1 DEF vars, NoOrphan, Attended, Working
<1>2. ASSUME NEW c \in Caller, NEW j \in Key, NEW h \in Hash, StartCall(c, j, h)
      PROVE  Attended'
  <2>1. Attended
        BY <1>2, OtherEffects DEF NoOrphan
  <2> QED BY <1>2, <2>1, OtherEffects DEF Attended, Working
<1>3. ASSUME NEW c \in Caller, CallStep(c) PROVE Attended'
  <2>1. call[c].pc # "dead" /\ \A d \in Caller \ {c} : call'[d] = call[d]
        BY <1>3, CallEffects
  <2>2. Attended
        BY <2>1 DEF NoOrphan
  <2> SUFFICES ASSUME NEW k \in Key, cp'[k].state = "running"
               PROVE  \E d \in Caller : /\ Working(d)' /\ call'[d].key = k
                                        /\ call'[d].hash = cp'[k].hash
      BY DEF Attended
  <2>3. CASE cp'[k] = cp[k]
    <3>1. PICK d \in Caller : Working(d) /\ call[d].key = k /\ call[d].hash = cp[k].hash
          BY <2>2, <2>3 DEF Attended
    <3>2. CASE d # c
          BY <1>3, <2>3, <3>1, <3>2, CallEffects DEF Working
    <3>3. CASE d = c
          BY <1>3, <2>3, <3>1, <3>3, CallEffects DEF Working, Mine
    <3> QED BY <3>2, <3>3
  <2>4. CASE cp'[k] # cp[k]
        BY <1>3, <2>4, CallEffects DEF Working
  <2> QED BY <2>3, <2>4
<1>4. ASSUME NEW c \in Caller, Crash(c) PROVE Attended'
      BY <1>4, OtherEffects
<1>5. CASE CancelRun \/ ResumeRun \/ OpenLedger
  <2>1. Attended
        BY <1>5, OtherEffects DEF NoOrphan
  <2> QED BY <1>5, <2>1, OtherEffects DEF Attended, Working
<1>6. ASSUME NEW j \in Key, Rot(j) PROVE Attended'
  <2>1. Attended
        BY <1>6, OtherEffects DEF NoOrphan
  <2> QED BY <1>6, <2>1, OtherEffects DEF Attended, Working
<1> QED BY <1>1, <1>2, <1>3, <1>4, <1>5, <1>6 DEF Next

\* As long as no process is killed no checkpoint is left running without a
\* call at work on it, whatever is cancelled, resumed, refused or damaged.
THEOREM NeverOrphaned == Spec => []NoOrphan
<1>1. Init => TypeOK /\ NoOrphan
      BY TypeInit DEF Init, NoOrphan, Attended
<1>2. (TypeOK /\ NoOrphan) /\ [Next]_vars => (TypeOK /\ NoOrphan)'
      BY TypeStep, OrphanStep
<1> QED BY <1>1, <1>2, PTL DEF Spec

-----------------------------------------------------------------------------
(* Exclusion.  Without cancellation the row of a working call stays as     *)
(* begin_checkpoint left it, which keeps every other call out.             *)

HoldsRow == \A c \in Caller : Working(c) => Mine(call[c].key, call[c].hash)

OneWorker ==
  \A c, d \in Caller : c # d /\ Working(c) /\ Working(d) => call[c].key # call[d].key

ExclusionInv == TypeOK /\ (cancels = 0 => ~cancelled /\ HoldsRow /\ OneWorker)

\* Until somebody cancels, every step keeps one worker per key.
LEMMA ExclusionStep == ExclusionInv /\ [Next]_vars => ExclusionInv'
<1> SUFFICES ASSUME ExclusionInv, [Next]_vars, cancels' = 0
             PROVE  (~cancelled /\ HoldsRow /\ OneWorker)'
    BY TypeStep DEF ExclusionInv
<1> USE DEF ExclusionInv
<1>a. cancels \in Nat /\ TypeOK
      BY ValueAssumption DEF TypeOK
<1>b. ~CancelRun
      BY <1>a DEF CancelRun
<1>c. cancels = 0
      BY <1>a, <1>b, CallEffects, OtherEffects DEF Next, vars, ResumeRun, OpenLedger
<1> HIDE DEF ExclusionInv
<1>d. TypeOK /\ ~cancelled /\ HoldsRow /\ OneWorker
      BY <1>c DEF ExclusionInv
<1> USE <1>d
<1>0. \A c \in Caller : Working(c) => call[c].key \in Key
      BY DEF TypeOK, Working
<1>1. CASE UNCHANGED vars
      BY <1>1 DEF vars, HoldsRow, OneWorker, Working, Mine
<1>2. ASSUME NEW c \in Caller, NEW k \in Key, NEW h \in Hash, StartCall(c, k, h)
      PROVE  (~cancelled /\ HoldsRow /\ OneWorker)'
      BY <1>2, OtherEffects DEF HoldsRow, OneWorker, Working, Mine
<1>3. ASSUME NEW c \in Caller, CallStep(c)
      PROVE  (~cancelled /\ HoldsRow /\ OneWorker)'
  <2>1. ASSUME NEW d \in Caller, Working(d)', Working(d) PROVE Mine(call[d].key, call[d].hash)'
    <3>1. CASE d = c
          BY <1>3, <2>1, <3>1, CallEffects DEF HoldsRow, Working, Mine
    <3>2. CASE d # c /\ call[d].key # call[c].key
          BY <1>0, <1>3, <2>1, <3>2, CallEffects DEF HoldsRow, Working, Mine
    <3>3. CASE d # c /\ call[d].key = call[c].key
      <4>1. ~Working(c) /\ Mine(call[c].key, call[d].hash)
            BY <2>1, <3>3 DEF OneWorker, HoldsRow
      <4> QED BY <1>3, <2>1, <3>3, <4>1, CallEffects DEF Working, Mine, Startable
    <3> QED BY <3>1, <3>2, <3>3
  <2>2. ASSUME NEW d \in Caller, Working(d)', ~Working(d)
        PROVE  /\ d = c /\ Mine(call[d].key, call[d].hash)'
               /\ Startable(call[c].key, call[c].hash)
               /\ call[c].key \in Key
        BY <1>3, <2>2, CallEffects DEF Working, Mine
  <2>3. HoldsRow'
        BY <2>1, <2>2 DEF HoldsRow
  <2>4. \A d \in Caller : call'[d].key = call[d].key
        BY <1>3, CallEffects
  <2>5. Startable(call[c].key, call[c].hash) =>
          \A d \in Caller : Working(d) => call[d].key # call[c].key
        BY DEF HoldsRow, Mine, Startable
  <2>6. OneWorker'
    <3> SUFFICES ASSUME NEW d \in Caller, NEW e \in Caller, d # e, Working(d)', Working(e)'
                 PROVE  call'[d].key # call'[e].key
        BY DEF OneWorker
    <3>1. CASE Working(d) /\ Working(e)
          BY <2>4, <3>1 DEF OneWorker
    <3>2. CASE Working(d) /\ ~Working(e)
          BY <2>2, <2>4, <2>5, <3>2
    <3>3. CASE ~Working(d) /\ Working(e)
          BY <2>2, <2>4, <2>5, <3>3
    <3>4. CASE ~Working(d) /\ ~Working(e)
          BY <2>2, <3>4
    <3> QED BY <3>1, <3>2, <3>3, <3>4
  <2>7. ~cancelled'
        BY <1>3, CallEffects
  <2> QED BY <2>3, <2>6, <2>7
<1>4. ASSUME NEW c \in Caller, Crash(c) PROVE (~cancelled /\ HoldsRow /\ OneWorker)'
      BY <1>4, OtherEffects DEF HoldsRow, OneWorker, Working, Mine
<1>5. ~CancelRun /\ ~ResumeRun
      BY <1>b DEF ResumeRun
<1>6. CASE OpenLedger
  <2>1. \A k \in Key : cp[k].state = "running" => cp'[k] = cp[k]
        BY <1>6, TableWrites
  <2> QED BY <1>0, <1>6, <2>1 DEF OpenLedger, HoldsRow, OneWorker, Working, Mine
<1>7. ASSUME NEW k \in Key, Rot(k) PROVE (~cancelled /\ HoldsRow /\ OneWorker)'
  <2>1. \A j \in Key : cp[j].state = "running" => cp'[j] = cp[j]
        BY <1>7, OtherEffects
  <2> QED BY <1>0, <1>7, <2>1 DEF Rot, HoldsRow, OneWorker, Working, Mine
<1> QED BY <1>1, <1>2, <1>3, <1>4, <1>5, <1>6, <1>7 DEF Next

\* Until a run is cancelled a checkpoint's action is executed by one
\* call at a time, however many processes execute the run and are killed.
THEOREM Exclusion == Spec => []Exclusive
<1>1. Init => ExclusionInv
      BY TypeInit DEF Init, ExclusionInv, HoldsRow, OneWorker, Working
<1>2. ExclusionInv /\ [Next]_vars => ExclusionInv'
      BY ExclusionStep
<1>3. ExclusionInv => Exclusive
      BY DEF ExclusionInv, OneWorker, Exclusive, Working
<1> QED BY <1>1, <1>2, <1>3, PTL DEF Spec
-----------------------------------------------------------------------------
(* A success once stored.                                                  *)

\* Every step that takes a verified success away, and does not damage it on
\* disk, is one of the three that SuccessKept names.
LEMMA KeptStep ==
  ASSUME TypeOK, [Next]_vars, NEW k \in Key, NEW h \in Hash,
         Hit(k, h), ~Hit(k, h)', cp'[k].receipt # Damaged
  PROVE  \E c \in Caller : \/ call[c].pc \in {"invalidate", "discard"} /\ At(c, "begin")'
                           \/ At(c, "begin") /\ At(c, "act")' /\ call[c].hash # h
<1> USE DEF Hit, At
<1>1. cp'[k] # cp[k] /\ cp[k].state = "succeeded" /\ cp[k].hash = h /\ cp[k].receipt # Damaged
      OBVIOUS
<1>2. CASE UNCHANGED vars
      BY <1>1, <1>2 DEF vars
<1>3. ASSUME NEW c \in Caller, NEW j \in Key, NEW g \in Hash, StartCall(c, j, g) PROVE FALSE
      BY <1>1, <1>3, OtherEffects
<1>4. ASSUME NEW c \in Caller, CallStep(c)
      PROVE  \/ call[c].pc \in {"invalidate", "discard"} /\ At(c, "begin")'
             \/ At(c, "begin") /\ At(c, "act")' /\ call[c].hash # h
      BY <1>1, <1>4, CallEffects DEF Startable, Mine
<1>5. ASSUME NEW c \in Caller, Crash(c) PROVE FALSE
      BY <1>1, <1>5, OtherEffects
<1>6. CASE CancelRun \/ ResumeRun \/ OpenLedger
      BY <1>1, <1>6 DEF CancelRun, ResumeRun, OpenLedger
<1>7. ASSUME NEW j \in Key, Rot(j) PROVE FALSE
      BY <1>1, <1>7, OtherEffects
<1> QED BY <1>2, <1>3, <1>4, <1>5, <1>6, <1>7 DEF Next

\* A verified success survives everything but a changed input and a call that
\* rejected it or had read it damaged: no cancellation, resume, reopening,
\* kill or late call makes its action run again.
THEOREM SuccessStays == Spec => SuccessKept
<1>1. TypeOK /\ [Next]_vars =>
        [\A k \in Key : \A h \in Hash :
           Hit(k, h) /\ ~Hit(k, h)' /\ cp'[k].receipt # Damaged =>
             \E c \in Caller :
               \/ call[c].pc \in {"invalidate", "discard"} /\ At(c, "begin")'
               \/ At(c, "begin") /\ At(c, "act")' /\ call[c].hash # h]_vars
      BY KeptStep
<1> QED BY <1>1, TypeCorrect, PTL DEF Spec, SuccessKept
================================================================================
