--------------------------- MODULE JobQueueProofs ---------------------------
(***************************************************************************)
(* Proofs about JobQueue, for every set of processes and requests, every   *)
(* lease length and every bound: its type invariant, and that while        *)
(* nothing lapsed a handler that runs keeps its lease, no job is run by    *)
(* two live processes, none is given up early, and no finished row is      *)
(* overwritten; and that only crashes and lapses buy claims past           *)
(* max_attempts, for any number of them.                                   *)
(***************************************************************************)
EXTENDS JobQueue, FiniteSetTheorems, SequenceTheorems, TLAPS

(* What each statement makes of a row is a row.                            *)
LEMMA ClaimedType ==
  ASSUME NEW row \in Row, NEW w \in Workers
  PROVE  Claimed(row, w) \in Row
  BY TicksAssumption DEF Row, RowOf, Status, Live, Settled, Claimed

LEMMA ExtendedType ==
  ASSUME NEW row \in Row
  PROVE  Extended(row) \in Row
  BY TicksAssumption DEF Row, RowOf, Status, Live, Settled, Extended

LEMMA CompletedType ==
  ASSUME NEW row \in Row
  PROVE  Completed(row) \in Row
  BY TicksAssumption DEF Row, RowOf, Status, Live, Settled, Completed, Update, Unlocked

LEMMA FailedType ==
  ASSUME NEW row \in Row, NEW last \in BOOLEAN
  PROVE  Failed(row, last) \in Row
  BY TicksAssumption DEF Row, RowOf, Status, Live, Settled, Failed, Update, Unlocked

LEMMA CancelledType ==
  ASSUME NEW row \in Row
  PROVE  Cancelled(row) \in Row
  BY TicksAssumption DEF Row, RowOf, Status, Live, Settled, Cancelled, Unlocked

LEMMA RevivedType ==
  ASSUME NEW row \in Row
  PROVE  Revived(row) \in Row
  BY TicksAssumption DEF Row, RowOf, Status, Live, Settled, Revived, Unlocked

LEMMA DeletedType ==
  ASSUME NEW row \in Row
  PROVE  Deleted(row) \in Row
  BY TicksAssumption DEF Row, RowOf, Status, Live, Settled, Deleted

LEMMA AgedType ==
  ASSUME NEW row \in Row
  PROVE  Aged(row) \in Row
  BY TicksAssumption DEF Row, RowOf, Status, Live, Settled, Aged, Elapsed

LEMMA ExhaustedType ==
  ASSUME NEW row \in Row
  PROVE  Exhausted(row) \in BOOLEAN
  BY RequestsAssumption DEF Row, Exhausted

LEMMA InsertedType ==
  ASSUME NEW r \in Requests
  PROVE  Inserted(r) \in Row /\ FreeRow \in Row
  BY TicksAssumption, RequestsAssumption
  DEF Row, Status, Live, Settled, Inserted, FreeRow, RowOf

LEMMA TrimmedType ==
  ASSUME NEW s \in Seq(Requests), NEW r \in Requests
  PROVE  Trimmed(Append(s, r)) \in Seq(Requests) /\ Len(Trimmed(Append(s, r))) <= FallbackMax
<1> DEFINE t == Append(s, r)
           u == SubSeq(t, Len(t) - FallbackMax + 1, Len(t))
<1>1. t \in Seq(Requests) /\ Len(t) \in Nat
  BY AppendProperties, LenProperties
<1>2. CASE Len(t) > FallbackMax
  <2>1. u \in Seq(Requests) /\ Len(u) = FallbackMax
    BY <1>1, <1>2, BoundsAssumption, SubSeqProperties, ElementOfSeq
  <2>2. QED
    BY <1>2, <2>1, BoundsAssumption DEF Trimmed
<1>3. QED
  BY <1>1, <1>2, BoundsAssumption DEF Trimmed

LEMMA TailType ==
  ASSUME NEW s \in Seq(Requests), s # <<>>, Len(s) <= FallbackMax
  PROVE  Tail(s) \in Seq(Requests) /\ Len(Tail(s)) <= FallbackMax
<1>1. Tail(s) \in Seq(Requests) /\ Len(Tail(s)) = Len(s) - 1 /\ Len(s) \in Nat
  BY HeadTailProperties, LenProperties
<1>2. QED
  BY <1>1, BoundsAssumption

LEMMA LapseType ==
  ASSUME TypeOK, Lapse
  PROVE  lapses' \in 0..MaxLapses
  BY BoundsAssumption DEF TypeOK, Lapse

(* The worker loop's variables after a job is let go.                      *)
IdleTyped ==
  /\ pc' \in [Workers -> PCs]
  /\ holds' \in [Workers -> JobIds \union {NoJob}]
  /\ hbOn' \in [Workers -> BOOLEAN]
  /\ \A v \in Workers : pc'[v] \in Busy => holds'[v] \in JobIds

LEMMA BackToIdleType ==
  ASSUME TypeOK, NEW w \in Workers, BackToIdle(w)
  PROVE  IdleTyped
  BY DEF TypeOK, BackToIdle, IdleTyped, PCs, Busy, NoJob

-----------------------------------------------------------------------------
LEMMA TypeInit == Init => TypeOK
  BY InsertedType, RequestsAssumption, HeartbeatAssumption, BoundsAssumption, EmptySeq
  DEF Init, TypeOK, PCs, Busy, JobIds, NoJob

LEMMA TypeStep == TypeOK /\ [Next]_vars => TypeOK'
<1> SUFFICES ASSUME TypeOK, [Next]_vars PROVE TypeOK'
  OBVIOUS
<1> USE DEF TypeOK, PCs, Busy, NoJob
<1>1. ASSUME NEW w \in Workers, Start(w) PROVE TypeOK'
  <2>1. pc' \in [Workers -> PCs] /\ mode' \in [Workers -> {"pg", "mem"}]
    BY <1>1 DEF Start
  <2>2. lapses' \in 0..MaxLapses
    BY <1>1, LapseType DEF Start
  <2>3. QED
    BY <2>1, <2>2, <1>1 DEF Start
<1>2. ASSUME NEW w \in Workers, Stall(w) PROVE TypeOK'
  BY <1>2, LapseType DEF Stall, loopVars
<1>3. ASSUME NEW w \in Workers, Resume(w) PROVE TypeOK'
  BY <1>3 DEF Resume, loopVars, faultVars
<1>4. ASSUME NEW w \in Workers, Crash(w) PROVE TypeOK'
  BY <1>4, BoundsAssumption, EmptySeq DEF Crash
<1>5. ASSUME NEW w \in Workers, NEW r \in Requests, Enqueue(w, r) PROVE TypeOK'
  BY <1>5, InsertedType DEF Enqueue, loopVars, faultVars
<1>6. ASSUME NEW w \in Workers, NEW r \in Requests, Stash(w, r) PROVE TypeOK'
  <2>1. /\ fallback' \in [Workers -> Seq(Requests)]
        /\ \A v \in Workers : Len(fallback'[v]) <= FallbackMax
    BY <1>6, TrimmedType DEF Stash
  <2>2. lapses' \in 0..MaxLapses
    BY <1>6, LapseType DEF Stash
  <2>3. QED
    BY <2>1, <2>2, <1>6 DEF Stash, loopVars
<1>7. ASSUME NEW w \in Workers, ClaimSelect(w) PROVE TypeOK'
  BY <1>7 DEF ClaimSelect, ClaimableBy, faultVars
<1>8. ASSUME NEW w \in Workers, ClaimCommit(w) PROVE TypeOK'
  <2>1. rows' \in [JobIds -> Row]
    BY <1>8, ClaimedType DEF ClaimCommit
  <2>2. pc' \in [Workers -> PCs] /\ hbOn' \in [Workers -> BOOLEAN]
    BY <1>8 DEF ClaimCommit
  <2>3. beat' \in [Workers -> 0..HbInterval]
    BY <1>8, HeartbeatAssumption DEF ClaimCommit
  <2>4. QED
    BY <2>1, <2>2, <2>3, <1>8 DEF ClaimCommit, faultVars
<1>9. ASSUME NEW w \in Workers, Heartbeat(w) PROVE TypeOK'
  <2>1. Extended(rows[holds[w]]) \in Row /\ HbInterval \in 0..HbInterval
    BY <1>9, ExtendedType, HeartbeatAssumption DEF Heartbeat
  <2>2. rows' \in [JobIds -> Row]
    BY <1>9, <2>1 DEF Heartbeat, CanExtend
  <2>3. hbOn' \in [Workers -> BOOLEAN]
    BY <1>9 DEF Heartbeat
  <2>4. beat' \in [Workers -> 0..HbInterval]
    BY <1>9, <2>1 DEF Heartbeat
  <2>5. lapses' \in 0..MaxLapses
    BY <1>9, LapseType DEF Heartbeat
  <2>6. QED
    BY <2>2, <2>3, <2>4, <2>5, <1>9 DEF Heartbeat
<1>10. ASSUME NEW w \in Workers, Complete(w) PROVE TypeOK'
  <2>1. Completed(rows[holds[w]]) \in Row
    BY <1>10, CompletedType DEF Complete
  <2>2. rows' \in [JobIds -> Row]
    BY <1>10, <2>1 DEF Complete
  <2>3. IdleTyped
    BY <1>10, BackToIdleType DEF Complete
  <2>4. lapses' \in 0..MaxLapses
    BY <1>10, LapseType DEF Complete
  <2>5. QED
    BY <2>2, <2>3, <2>4, <1>10 DEF Complete, IdleTyped
<1>11. ASSUME NEW w \in Workers, FailSelect(w) PROVE TypeOK'
  <2>1. Exhausted(rows[holds[w]]) \in BOOLEAN
    BY <1>11, ExhaustedType DEF FailSelect
  <2>2. final' \in [Workers -> BOOLEAN]
    BY <1>11, <2>1 DEF FailSelect
  <2>3. CASE BackToIdle(w)
    <3>1. IdleTyped
      BY <2>3, BackToIdleType
    <3>2. lapses' \in 0..MaxLapses
      BY <1>11, LapseType DEF FailSelect
    <3>3. QED
      BY <3>1, <3>2, <2>2, <1>11 DEF FailSelect, IdleTyped
  <2>4. CASE ~BackToIdle(w)
    BY <2>2, <2>4, <1>11 DEF FailSelect
  <2>5. QED
    BY <2>3, <2>4
<1>12. ASSUME NEW w \in Workers, FailUpdate(w) PROVE TypeOK'
  <2>1. Failed(rows[holds[w]], final[w]) \in Row
    BY <1>12, FailedType DEF FailUpdate
  <2>2. rows' \in [JobIds -> Row]
    BY <1>12, <2>1 DEF FailUpdate
  <2>3. IdleTyped
    BY <1>12, BackToIdleType DEF FailUpdate
  <2>4. lapses' \in 0..MaxLapses
    BY <1>12, LapseType DEF FailUpdate
  <2>5. QED
    BY <2>2, <2>3, <2>4, <1>12 DEF FailUpdate, IdleTyped
<1>13. ASSUME NEW w \in Workers, ClaimMem(w) PROVE TypeOK'
  BY <1>13, TailType DEF ClaimMem, faultVars
<1>14. ASSUME NEW w \in Workers, FinishMem(w) PROVE TypeOK'
  BY <1>14 DEF FinishMem, faultVars
<1>15. ASSUME NEW p, NEW c, CancelChain(p, c) PROVE TypeOK'
  BY <1>15, CancelledType DEF CancelChain, loopVars, faultVars
<1>16. ASSUME NEW j \in JobIds, RetryDeadLetter(j) PROVE TypeOK'
  BY <1>16, RevivedType, BoundsAssumption DEF RetryDeadLetter, loopVars, faultVars
<1>17. ASSUME NEW gone, Delete(gone) PROVE TypeOK'
  BY <1>17, DeletedType DEF Delete, loopVars, faultVars
<1>18. CASE Tick
  BY <1>18, AgedType, HeartbeatAssumption DEF Tick, faultVars
<1>19. CASE UNCHANGED vars
  BY <1>19 DEF vars
<1>20. QED
  BY <1>1, <1>2, <1>3, <1>4, <1>5, <1>6, <1>7, <1>8, <1>9, <1>10, <1>11, <1>12,
     <1>13, <1>14, <1>15, <1>16, <1>17, <1>18, <1>19
  DEF Next, Worker, Environment, Operator, PurgeDeadLetter, Cleanup

(* Every variable keeps its type.                                          *)
THEOREM TypeCorrect == SafetySpec => []TypeOK
  BY TypeInit, TypeStep, PTL DEF SafetySpec

-----------------------------------------------------------------------------
(* That QueueInvariant is inductive, and what follows from it.             *)

(* The columns each statement leaves in a row.                             *)
LEMMA ClaimedColumns ==
  ASSUME NEW row, NEW w
  PROVE  /\ Claimed(row, w).status = "running"
         /\ Claimed(row, w).owner = w
         /\ Claimed(row, w).lease = LockTicks
  BY DEF Claimed, RowOf

LEMMA ExtendedColumns ==
  ASSUME NEW row \in Row
  PROVE  /\ Extended(row).status = row.status
         /\ Extended(row).owner = row.owner
         /\ Extended(row).lease = LockTicks
         /\ Exhausted(Extended(row)) = Exhausted(row)
  BY DEF Extended, Row, Exhausted

LEMMA UnlockedColumns ==
  ASSUME NEW row, NEW s, NEW a, NEW n
  PROVE  /\ Unlocked(row, s, a, n).status = s
         /\ a = row.attempts => Exhausted(Unlocked(row, s, a, n)) = Exhausted(row)
  BY DEF Unlocked, RowOf, Exhausted

LEMMA AgedColumns ==
  ASSUME NEW row \in Row
  PROVE  /\ Aged(row).status = row.status
         /\ Aged(row).owner = row.owner
         /\ row.lease > 0 => Aged(row).lease = row.lease - 1
         /\ Exhausted(Aged(row)) = Exhausted(row)
  BY TicksAssumption DEF Aged, RowOf, Row, Elapsed, Exhausted

(* The invariant but for the types, worker by worker: what a worker holds, *)
(* and that no two hold the same.                                          *)
HeldBy(w) ==
  /\ pc[w] = "claiming" => Ready(rows[holds[w]])
  /\ lapses = 0 /\ Executing(w) => KeepsLease(w)
  /\ lapses = 0 /\ pc[w] = "marking" /\ final[w] => Exhausted(rows[holds[w]])

Apart(v, w) ==
  /\ pc[v] = "claiming" /\ pc[w] = "claiming" => holds[v] # holds[w]
  /\ lapses = 0 /\ Executing(v) /\ Executing(w) => holds[v] # holds[w]

Guarded ==
  /\ \A w \in Workers : HeldBy(w)
  /\ \A v, w \in Workers : v # w => Apart(v, w)
  /\ PausesAreLapses
  /\ GivenUpOnlyAfterAllAttempts

LEMMA GuardedByWorker == QueueInvariant <=> TypeOK /\ Guarded
  BY DEF QueueInvariant, Guarded, HeldBy, Apart, ClaimsAreSound, LeaseOutlivesHandler,
     ExclusiveExecution, VerdictIsCurrent

(* A row that a claim has locked, or that a handler works on while nothing *)
(* lapsed, is none that enqueue, cleanup or an operator may touch.         *)
LEMMA HeldRows ==
  ASSUME NEW w \in Workers, HeldBy(w)
  PROVE  /\ pc[w] = "claiming" => rows[holds[w]].status \in Live
         /\ lapses = 0 /\ Executing(w) =>
              rows[holds[w]].status \in {"running", "cancelled"}
  BY DEF HeldBy, KeepsLease, Ready, Expired, Live

(* What a claim locked is nobody else's.                                   *)
LEMMA ReadyIsNotHeld ==
  ASSUME NEW v \in Workers, HeldBy(v), lapses = 0, Executing(v)
  PROVE  ~Ready(rows[holds[v]])
  BY DEF HeldBy, KeepsLease, Ready, Expired

(* The step changes nothing of v, nor the row v holds.                     *)
LeavesAlone(v) ==
  /\ pc'[v] = pc[v] /\ holds'[v] = holds[v] /\ hbOn'[v] = hbOn[v]
  /\ beat'[v] = beat[v] /\ final'[v] = final[v]
  /\ pc[v] = "claiming" \/ (lapses = 0 /\ Executing(v)) =>
       rows'[holds[v]] = rows[holds[v]]

LEMMA Bystander ==
  ASSUME NEW v \in Workers, HeldBy(v), LeavesAlone(v), lapses' = 0 => lapses = 0
  PROVE  HeldBy(v)'
<1> USE DEF LeavesAlone
<1>1. ASSUME pc'[v] = "claiming" PROVE Ready(rows'[holds'[v]])
  BY <1>1 DEF HeldBy
<1>2. ASSUME lapses' = 0, Executing(v)' PROVE KeepsLease(v)'
  <2>1. rows'[holds'[v]] = rows[holds[v]]
    BY <1>2 DEF Executing
  <2>2. QED
    BY <2>1, <1>2 DEF HeldBy, KeepsLease, Executing
<1>3. ASSUME lapses' = 0, pc'[v] = "marking", final'[v] PROVE Exhausted(rows'[holds'[v]])
  <2>1. rows'[holds'[v]] = rows[holds[v]]
    BY <1>3 DEF Executing
  <2>2. QED
    BY <2>1, <1>3 DEF HeldBy
<1>4. QED
  BY <1>1, <1>2, <1>3 DEF HeldBy

(* So a step of one worker needs an argument about that worker only.       *)
LEMMA OneActor ==
  ASSUME Guarded, NEW w \in Workers, lapses' = 0 => lapses = 0,
         \A v \in Workers \ {w} : LeavesAlone(v) /\ Apart(v, w)',
         HeldBy(w)', PausesAreLapses', GivenUpOnlyAfterAllAttempts'
  PROVE  Guarded'
<1>1. ASSUME NEW v \in Workers \ {w} PROVE HeldBy(v)'
  BY Bystander DEF Guarded
<1>2. ASSUME NEW u \in Workers, NEW v \in Workers, u # v PROVE Apart(u, v)'
  <2>1. CASE u = w
    <3>1. Apart(v, w)'
      BY <1>2, <2>1
    <3>2. QED
      BY <3>1, <2>1 DEF Apart
  <2>2. CASE v = w
    BY <1>2, <2>2
  <2>3. CASE u # w /\ v # w
    <3>1. Apart(u, v) /\ LeavesAlone(u) /\ LeavesAlone(v)
      BY <1>2, <2>3 DEF Guarded
    <3>2. QED
      BY <3>1 DEF Apart, LeavesAlone, Executing
  <2>4. QED
    BY <2>1, <2>2, <2>3
<1>3. QED
  BY <1>1, <1>2 DEF Guarded

(* And one that leaves every worker alone needs none about workers.        *)
LEMMA NoActor ==
  ASSUME Guarded, lapses' = 0 => lapses = 0, \A v \in Workers : LeavesAlone(v),
         PausesAreLapses', GivenUpOnlyAfterAllAttempts'
  PROVE  Guarded'
<1>1. ASSUME NEW v \in Workers PROVE HeldBy(v)'
  BY Bystander DEF Guarded
<1>2. ASSUME NEW u \in Workers, NEW v \in Workers, u # v PROVE Apart(u, v)'
  <2>1. Apart(u, v) /\ LeavesAlone(u) /\ LeavesAlone(v)
    BY <1>2 DEF Guarded
  <2>2. QED
    BY <2>1 DEF Apart, LeavesAlone, Executing
<1>3. QED
  BY <1>1, <1>2 DEF Guarded

-----------------------------------------------------------------------------
LEMMA InitGuarded == Init => Guarded
  BY BoundsAssumption DEF Init, Guarded, HeldBy, Apart, PausesAreLapses,
     GivenUpOnlyAfterAllAttempts, Executing, FreeRow, RowOf

(* Steps that write no row.                                                *)

LEMMA StartStep ==
  ASSUME TypeOK, Guarded, NEW w \in Workers, Start(w)
  PROVE  Guarded'
<1>1. lapses' = 0 => lapses = 0
  BY DEF Start, Lapse, TypeOK
<1>2. \A v \in Workers \ {w} : LeavesAlone(v) /\ Apart(v, w)'
  BY DEF TypeOK, Start, LeavesAlone, Apart, Executing
<1>3. HeldBy(w)'
  BY DEF TypeOK, Start, HeldBy, Executing
<1>4. PausesAreLapses' /\ GivenUpOnlyAfterAllAttempts'
  BY <1>1 DEF TypeOK, Start, Guarded, PausesAreLapses, GivenUpOnlyAfterAllAttempts, Executing
<1>5. QED
  BY <1>1, <1>2, <1>3, <1>4, OneActor

LEMMA StallStep ==
  ASSUME TypeOK, Guarded, NEW w \in Workers, Stall(w)
  PROVE  Guarded'
<1>1. lapses' # 0
  BY DEF Stall, Lapse, TypeOK
<1>2. \A v \in Workers : LeavesAlone(v)
  BY DEF TypeOK, Stall, loopVars, LeavesAlone
<1>3. PausesAreLapses' /\ GivenUpOnlyAfterAllAttempts'
  BY <1>1 DEF TypeOK, Stall, loopVars, Guarded, PausesAreLapses,
     GivenUpOnlyAfterAllAttempts, Executing
<1>4. QED
  BY <1>1, <1>2, <1>3, NoActor

LEMMA ResumeStep ==
  ASSUME TypeOK, Guarded, NEW w \in Workers, Resume(w)
  PROVE  Guarded'
<1>1. \A v \in Workers : LeavesAlone(v)
  BY DEF TypeOK, Resume, loopVars, LeavesAlone
<1>2. PausesAreLapses' /\ GivenUpOnlyAfterAllAttempts'
  BY DEF TypeOK, Resume, loopVars, faultVars, Guarded, PausesAreLapses,
     GivenUpOnlyAfterAllAttempts, Executing
<1>3. QED
  BY <1>1, <1>2, NoActor DEF Resume, faultVars

LEMMA CrashStep ==
  ASSUME TypeOK, Guarded, NEW w \in Workers, Crash(w)
  PROVE  Guarded'
<1>1. \A v \in Workers \ {w} : LeavesAlone(v) /\ Apart(v, w)'
  BY DEF TypeOK, Crash, LeavesAlone, Apart, Executing
<1>2. HeldBy(w)'
  BY DEF TypeOK, Crash, HeldBy, Executing
<1>3. PausesAreLapses' /\ GivenUpOnlyAfterAllAttempts'
  BY DEF TypeOK, Crash, Guarded, PausesAreLapses, GivenUpOnlyAfterAllAttempts, Executing
<1>4. QED
  BY <1>1, <1>2, <1>3, OneActor DEF Crash

LEMMA StashStep ==
  ASSUME TypeOK, Guarded, NEW w \in Workers, NEW r \in Requests, Stash(w, r)
  PROVE  Guarded'
<1>1. lapses' = 0 => lapses = 0
  BY DEF Stash, Lapse, TypeOK
<1>2. \A v \in Workers : LeavesAlone(v)
  BY DEF TypeOK, Stash, loopVars, LeavesAlone
<1>3. PausesAreLapses' /\ GivenUpOnlyAfterAllAttempts'
  BY <1>1 DEF TypeOK, Stash, loopVars, Guarded, PausesAreLapses,
     GivenUpOnlyAfterAllAttempts, Executing
<1>4. QED
  BY <1>1, <1>2, <1>3, NoActor

LEMMA ClaimSelectStep ==
  ASSUME TypeOK, Guarded, NEW w \in Workers, ClaimSelect(w)
  PROVE  Guarded'
<1>1. /\ pc'[w] = "claiming"
      /\ \A v \in Workers \ {w} : pc'[v] = pc[v] /\ holds'[v] = holds[v]
      /\ UNCHANGED <<rows, hbOn, beat, final, stalled, lapses>>
  BY DEF TypeOK, ClaimSelect, faultVars
<1>2. Ready(rows[holds'[w]]) /\ ~RowLocked(holds'[w])
  BY DEF TypeOK, ClaimSelect, ClaimableBy
<1>3. \A v \in Workers \ {w} : LeavesAlone(v) /\ Apart(v, w)'
  BY <1>1, <1>2 DEF LeavesAlone, Apart, Executing, RowLocked
<1>4. HeldBy(w)'
  <2>1. Ready(rows'[holds'[w]])
    BY <1>1, <1>2
  <2>2. QED
    BY <1>1, <2>1 DEF HeldBy, Executing
<1>5. PausesAreLapses'
  <2>1. pc[w] = "idle" /\ stalled \in SUBSET Workers
    BY DEF ClaimSelect, TypeOK
  <2>2. QED
    BY <1>1, <2>1 DEF Guarded, PausesAreLapses, Executing
<1>6. GivenUpOnlyAfterAllAttempts'
  BY <1>1 DEF Guarded, GivenUpOnlyAfterAllAttempts
<1>7. QED
  BY <1>1, <1>3, <1>4, <1>5, <1>6, OneActor

LEMMA MemoryStep ==
  ASSUME TypeOK, Guarded, NEW w \in Workers, ClaimMem(w) \/ FinishMem(w)
  PROVE  Guarded'
<1>1. /\ pc[w] \in {"idle", "draining"} /\ pc'[w] \in {"idle", "draining"}
      /\ \A v \in Workers \ {w} : pc'[v] = pc[v]
      /\ UNCHANGED <<rows, holds, hbOn, beat, final, stalled, lapses>>
  BY DEF TypeOK, ClaimMem, FinishMem, faultVars
<1>2. \A v \in Workers \ {w} : LeavesAlone(v) /\ Apart(v, w)'
  BY <1>1 DEF LeavesAlone, Apart, Executing
<1>3. HeldBy(w)'
  BY <1>1 DEF HeldBy, Executing
<1>4. PausesAreLapses'
  BY <1>1 DEF Guarded, PausesAreLapses, Executing, TypeOK
<1>5. GivenUpOnlyAfterAllAttempts'
  BY <1>1 DEF Guarded, GivenUpOnlyAfterAllAttempts
<1>6. QED
  BY <1>1, <1>2, <1>3, <1>4, <1>5, OneActor

-----------------------------------------------------------------------------
(* Steps of one worker that write the row it holds.                        *)

LEMMA ClaimCommitStep ==
  ASSUME TypeOK, Guarded, NEW w \in Workers, ClaimCommit(w)
  PROVE  Guarded'
<1> DEFINE j == holds[w]
<1>1. /\ pc[w] = "claiming" /\ j \in JobIds /\ rows[j] \in Row
      /\ rows' = [rows EXCEPT ![j] = Claimed(rows[j], w)]
      /\ rows'[j] = Claimed(rows[j], w)
      /\ UNCHANGED <<holds, final, stalled, lapses>>
  BY DEF TypeOK, Busy, ClaimCommit, faultVars
<1>2. /\ pc'[w] \in {"running", "rejecting"}
      /\ pc'[w] = "running" => hbOn'[w]
      /\ beat'[w] = HbInterval
      /\ \A v \in Workers \ {w} : pc'[v] = pc[v] /\ hbOn'[v] = hbOn[v] /\ beat'[v] = beat[v]
  BY DEF TypeOK, ClaimCommit
<1>3. HeldBy(w) /\ \A v \in Workers \ {w} : HeldBy(v) /\ Apart(v, w)
  BY DEF Guarded
<1>4. ASSUME NEW v \in Workers \ {w}, pc[v] = "claiming" \/ (lapses = 0 /\ Executing(v))
      PROVE  holds[v] # j
  <2>1. CASE pc[v] = "claiming"
    BY <1>1, <1>3, <2>1 DEF Apart
  <2>2. CASE lapses = 0 /\ Executing(v)
    <3>1. ~Ready(rows[holds[v]])
      BY <1>3, <2>2, ReadyIsNotHeld
    <3>2. Ready(rows[j])
      BY <1>1, <1>3 DEF HeldBy
    <3>3. QED
      BY <3>1, <3>2
  <2>3. QED
    BY <1>4, <2>1, <2>2
<1>5. \A v \in Workers \ {w} : LeavesAlone(v) /\ Apart(v, w)'
  <2> TAKE v \in Workers \ {w}
  <2>1. LeavesAlone(v)
    BY <1>1, <1>2, <1>4 DEF LeavesAlone, TypeOK
  <2>2. Apart(v, w)'
    BY <1>1, <1>2, <1>4 DEF Apart, Executing
  <2>3. QED
    BY <2>1, <2>2
<1>6. HeldBy(w)'
  <2>1. KeepsLease(w)'
    BY <1>1, <1>2, ClaimedColumns, TicksAssumption, HeartbeatAssumption DEF KeepsLease
  <2>2. QED
    BY <1>2, <2>1 DEF HeldBy, Executing
<1>7. PausesAreLapses'
  BY <1>1, <1>2 DEF Guarded, PausesAreLapses, Executing, TypeOK
<1>8. GivenUpOnlyAfterAllAttempts'
  BY <1>1, ClaimedColumns DEF Guarded, GivenUpOnlyAfterAllAttempts, TypeOK
<1>9. QED
  BY <1>1, <1>5, <1>6, <1>7, <1>8, OneActor

LEMMA HeartbeatStep ==
  ASSUME TypeOK, Guarded, NEW w \in Workers, Heartbeat(w)
  PROVE  Guarded'
<1> DEFINE j == holds[w]
<1>1. /\ pc[w] = "running" /\ hbOn[w] /\ j \in JobIds /\ rows[j] \in Row
      /\ lapses' = 0 => lapses = 0
      /\ UNCHANGED <<pc, holds, final, stalled>>
  BY DEF TypeOK, Busy, Heartbeat, Lapse
<1>2. \A v \in Workers \ {w} : hbOn'[v] = hbOn[v] /\ beat'[v] = beat[v]
  BY DEF TypeOK, Heartbeat
<1>3. \/ UNCHANGED rows
      \/ ~RowLocked(j) /\ rows' = [rows EXCEPT ![j] = Extended(rows[j])]
  BY DEF Heartbeat
<1>4. HeldBy(w) /\ \A v \in Workers \ {w} : HeldBy(v) /\ Apart(v, w)
  BY DEF Guarded
<1>5. \A v \in Workers \ {w} : LeavesAlone(v) /\ Apart(v, w)'
  <2> TAKE v \in Workers \ {w}
  <2>1. ASSUME pc[v] = "claiming" \/ (lapses = 0 /\ Executing(v))
        PROVE  rows'[holds[v]] = rows[holds[v]]
    <3>1. CASE UNCHANGED rows
      BY <3>1
    <3>2. CASE ~RowLocked(j) /\ rows' = [rows EXCEPT ![j] = Extended(rows[j])]
      <4>1. holds[v] # j
        BY <1>1, <1>4, <2>1, <3>2 DEF Apart, Executing, RowLocked
      <4>2. QED
        BY <3>2, <4>1 DEF TypeOK
    <3>3. QED
      BY <1>3, <3>1, <3>2
  <2>2. LeavesAlone(v)
    BY <1>1, <1>2, <2>1 DEF LeavesAlone
  <2>3. Apart(v, w)'
    BY <1>1, <1>4 DEF Apart, Executing
  <2>4. QED
    BY <2>2, <2>3
<1>6. HeldBy(w)'
  <2>1. ASSUME lapses' = 0 PROVE KeepsLease(w)'
    <3>1. KeepsLease(w) /\ lapses = 0
      BY <1>1, <1>4, <2>1 DEF HeldBy, Executing
    <3>2. CASE rows[j].status = "cancelled"
      <4>1. rows'[j].status = "cancelled"
        BY <1>1, <1>3, <3>2, ExtendedColumns DEF TypeOK
      <4>2. QED
        BY <1>1, <4>1 DEF KeepsLease
    <3>3. CASE rows[j].status # "cancelled"
      <4>1. CanExtend(rows[j], w) /\ ~(lapses' = lapses + 1)
        BY <2>1, <3>1, <3>3 DEF KeepsLease, CanExtend
      <4>2. /\ rows' = [rows EXCEPT ![j] = Extended(rows[j])]
            /\ beat'[w] = HbInterval /\ hbOn'[w] = hbOn[w]
        BY <4>1, <1>1 DEF Heartbeat, Lapse, TypeOK
      <4>3. /\ rows'[j].status = "running" /\ rows'[j].owner = w
            /\ rows'[j].lease = LockTicks
        BY <1>1, <3>1, <3>3, <4>2, ExtendedColumns DEF KeepsLease, TypeOK
      <4>4. QED
        BY <1>1, <4>2, <4>3, TicksAssumption, HeartbeatAssumption DEF KeepsLease
    <3>4. QED
      BY <3>2, <3>3
  <2>2. QED
    BY <1>1, <2>1 DEF HeldBy, Executing
<1>7. PausesAreLapses'
  BY <1>1 DEF Guarded, PausesAreLapses, Executing
<1>8. GivenUpOnlyAfterAllAttempts'
  <2> SUFFICES ASSUME lapses' = 0, NEW i \in JobIds, rows'[i].status = "dead_letter"
               PROVE  Exhausted(rows'[i])
    BY DEF GivenUpOnlyAfterAllAttempts
  <2>1. rows'[i] = rows[i] \/ rows'[i] = Extended(rows[i])
    BY <1>3 DEF TypeOK
  <2>2. rows[i].status = "dead_letter" /\ Exhausted(rows'[i]) = Exhausted(rows[i])
    BY <2>1, ExtendedColumns DEF TypeOK
  <2>3. QED
    BY <1>1, <2>2 DEF Guarded, GivenUpOnlyAfterAllAttempts
<1>9. QED
  BY <1>1, <1>5, <1>6, <1>7, <1>8, OneActor

(* A worker lets its job go, after at most one write to the row it holds.  *)
LEMMA LetGo ==
  ASSUME TypeOK, Guarded, NEW w \in Workers, Executing(w), w \notin stalled, BackToIdle(w),
         UNCHANGED <<beat, final, stalled>>, lapses' = 0 => lapses = 0,
         NEW new, \/ UNCHANGED rows
                  \/ ~RowLocked(holds[w]) /\ rows' = [rows EXCEPT ![holds[w]] = new],
         lapses' = 0 /\ new.status = "dead_letter" => Exhausted(new)
  PROVE  Guarded'
<1>1. /\ pc'[w] = "idle" /\ holds[w] \in JobIds
      /\ \A v \in Workers \ {w} : pc'[v] = pc[v] /\ holds'[v] = holds[v] /\ hbOn'[v] = hbOn[v]
  BY DEF TypeOK, BackToIdle, Executing, Busy
<1>2. \A v \in Workers \ {w} : LeavesAlone(v) /\ Apart(v, w)'
  <2> TAKE v \in Workers \ {w}
  <2>1. ASSUME pc[v] = "claiming" \/ (lapses = 0 /\ Executing(v))
        PROVE  rows'[holds[v]] = rows[holds[v]]
    <3>1. CASE UNCHANGED rows
      BY <3>1
    <3>2. CASE ~RowLocked(holds[w]) /\ rows' = [rows EXCEPT ![holds[w]] = new]
      <4>1. holds[v] # holds[w]
        BY <2>1, <3>2 DEF Guarded, Apart, RowLocked
      <4>2. QED
        BY <3>2, <4>1 DEF TypeOK
    <3>3. QED
      BY <3>1, <3>2
  <2>2. LeavesAlone(v)
    BY <1>1, <2>1 DEF LeavesAlone
  <2>3. Apart(v, w)'
    BY <1>1 DEF Apart, Executing
  <2>4. QED
    BY <2>2, <2>3
<1>3. HeldBy(w)'
  BY <1>1 DEF HeldBy, Executing
<1>4. PausesAreLapses'
  BY <1>1 DEF Guarded, PausesAreLapses, Executing, TypeOK
<1>5. GivenUpOnlyAfterAllAttempts'
  <2> SUFFICES ASSUME lapses' = 0, NEW i \in JobIds, rows'[i].status = "dead_letter"
               PROVE  Exhausted(rows'[i])
    BY DEF GivenUpOnlyAfterAllAttempts
  <2>1. rows'[i] = rows[i] \/ rows'[i] = new
    BY DEF TypeOK
  <2>2. QED
    BY <2>1 DEF Guarded, GivenUpOnlyAfterAllAttempts
<1>6. QED
  BY <1>2, <1>3, <1>4, <1>5, OneActor

LEMMA CompleteStep ==
  ASSUME TypeOK, Guarded, NEW w \in Workers, Complete(w)
  PROVE  Guarded'
<1> DEFINE new == Completed(rows[holds[w]])
<1>1. new.status # "dead_letter"
  BY UnlockedColumns DEF Completed, Update
<1>2. lapses' = 0 => lapses = 0
  BY DEF Complete, Lapse, TypeOK
<1>3. \/ UNCHANGED rows
      \/ ~RowLocked(holds[w]) /\ rows' = [rows EXCEPT ![holds[w]] = new]
  BY DEF Complete
<1>4. /\ Executing(w) /\ w \notin stalled /\ BackToIdle(w)
      /\ UNCHANGED <<beat, final, stalled>>
  BY DEF Complete, Executing
<1> HIDE DEF new
<1>5. QED
  BY <1>1, <1>2, <1>3, <1>4, LetGo

LEMMA FailUpdateStep ==
  ASSUME TypeOK, Guarded, NEW w \in Workers, FailUpdate(w)
  PROVE  Guarded'
<1> DEFINE row == rows[holds[w]]
           new == Failed(row, final[w])
<1>1. lapses' = 0 => lapses = 0
  BY DEF FailUpdate, Lapse, TypeOK
<1>2. ASSUME lapses' = 0, new.status = "dead_letter" PROVE Exhausted(new)
  <2>1. final[w] => Exhausted(row)
    BY <1>1, <1>2 DEF FailUpdate, Guarded, HeldBy
  <2>2. row.status \in {"running", "cancelled"}
    BY <1>1, <1>2, HeldRows DEF FailUpdate, Executing, Guarded
  <2>3. final[w]
    BY <1>2, <2>2, UnlockedColumns DEF Failed, Update
  <2>4. QED
    BY <2>1, <2>2, <2>3, UnlockedColumns DEF Failed, Update
<1>3. \/ UNCHANGED rows
      \/ ~RowLocked(holds[w]) /\ rows' = [rows EXCEPT ![holds[w]] = new]
  BY DEF FailUpdate
<1>4. /\ Executing(w) /\ w \notin stalled /\ BackToIdle(w)
      /\ UNCHANGED <<beat, final, stalled>>
  BY DEF FailUpdate, Executing
<1> HIDE DEF new
<1>5. QED
  BY <1>1, <1>2, <1>3, <1>4, LetGo

LEMMA FailSelectStep ==
  ASSUME TypeOK, Guarded, NEW w \in Workers, FailSelect(w)
  PROVE  Guarded'
<1>1. lapses' = 0 => lapses = 0
  BY DEF FailSelect, Lapse, TypeOK
<1>2. UNCHANGED <<rows, beat, stalled>> /\ w \notin stalled
  BY DEF FailSelect
<1>3. CASE pc[w] = "running" /\ BackToIdle(w) /\ UNCHANGED final
  <2>1. FreeRow.status # "dead_letter"
    BY DEF FreeRow, RowOf
  <2>2. QED
    BY <1>1, <1>2, <1>3, <2>1, LetGo DEF Executing
<1>4. CASE pc[w] = "rejecting" /\ BackToIdle(w) /\ UNCHANGED final
  <2>1. FreeRow.status # "dead_letter"
    BY DEF FreeRow, RowOf
  <2>2. QED
    BY <1>1, <1>2, <1>4, <2>1, LetGo DEF Executing
<1>5. CASE ~(BackToIdle(w) /\ UNCHANGED final)
  <2>1. /\ pc[w] \in {"running", "rejecting"} /\ pc'[w] = "marking"
        /\ final'[w] = Exhausted(rows[holds[w]])
        /\ \A v \in Workers \ {w} : pc'[v] = pc[v] /\ final'[v] = final[v]
        /\ UNCHANGED <<holds, hbOn, lapses>>
    BY <1>5 DEF FailSelect, TypeOK
  <2>2. \A v \in Workers \ {w} : LeavesAlone(v)
    BY <1>2, <2>1 DEF LeavesAlone
  <2>3. \A v \in Workers \ {w} : Apart(v, w)'
    BY <2>1 DEF Guarded, Apart, Executing
  <2>4. HeldBy(w)'
    <3>1. lapses = 0 => KeepsLease(w)
      BY <2>1 DEF Guarded, HeldBy, Executing
    <3>2. lapses = 0 => KeepsLease(w)'
      BY <1>2, <2>1, <3>1 DEF KeepsLease
    <3>3. final'[w] => Exhausted(rows'[holds'[w]])
      BY <1>2, <2>1
    <3>4. QED
      BY <2>1, <3>2, <3>3 DEF HeldBy
  <2>5. PausesAreLapses'
    BY <1>2, <2>1 DEF Guarded, PausesAreLapses, Executing, TypeOK
  <2>6. GivenUpOnlyAfterAllAttempts'
    BY <1>2, <2>1 DEF Guarded, GivenUpOnlyAfterAllAttempts
  <2>7. QED
    BY <1>1, <2>2, <2>3, <2>4, <2>5, <2>6, OneActor
<1>6. QED
  BY <1>3, <1>4, <1>5 DEF FailSelect

-----------------------------------------------------------------------------
(* Producers, operators and the clock.                                     *)

(* Rows that no live worker can hold are free to change.                   *)
LEMMA UnheldRows ==
  ASSUME TypeOK, Guarded, UNCHANGED <<loopVars, stalled, lapses>>,
         NEW J \in SUBSET JobIds,
         \A j \in J : rows[j].status \in {"free", "done", "dead_letter"},
         \A j \in JobIds \ J : rows'[j] = rows[j],
         \A j \in J : rows'[j].status # "dead_letter"
  PROVE  Guarded'
<1>1. \A v \in Workers : LeavesAlone(v)
  <2> TAKE v \in Workers
  <2>1. ASSUME pc[v] = "claiming" \/ (lapses = 0 /\ Executing(v))
        PROVE  rows'[holds[v]] = rows[holds[v]]
    <3>1. rows[holds[v]].status \in Live \union {"running", "cancelled"}
      BY <2>1, HeldRows DEF Guarded
    <3>2. holds[v] \in JobIds \ J
      BY <2>1, <3>1 DEF TypeOK, Busy, Executing, Live
    <3>3. QED
      BY <3>2
  <2>2. QED
    BY <2>1 DEF LeavesAlone, loopVars
<1>2. PausesAreLapses'
  BY DEF Guarded, PausesAreLapses, Executing, loopVars
<1>3. GivenUpOnlyAfterAllAttempts'
  <2> SUFFICES ASSUME lapses = 0, NEW i \in JobIds, rows'[i].status = "dead_letter"
               PROVE  Exhausted(rows'[i])
    BY DEF GivenUpOnlyAfterAllAttempts
  <2>1. rows'[i] = rows[i]
    OBVIOUS
  <2>2. QED
    BY <2>1 DEF Guarded, GivenUpOnlyAfterAllAttempts
<1>4. QED
  BY <1>1, <1>2, <1>3, NoActor

LEMMA EnqueueStep ==
  ASSUME TypeOK, Guarded, NEW w \in Workers, NEW r \in Requests, Enqueue(w, r)
  PROVE  Guarded'
<1>1. PICK j \in JobIds : /\ rows[j].status = "free"
                          /\ rows' = [rows EXCEPT ![j] = Inserted(r)]
  BY DEF Enqueue
<1>2. Inserted(r).status = "queued"
  BY DEF Inserted, RowOf
<1>3. /\ \A i \in JobIds \ {j} : rows'[i] = rows[i]
      /\ rows'[j].status # "dead_letter"
  BY <1>1, <1>2 DEF TypeOK
<1>4. UNCHANGED <<loopVars, stalled, lapses>>
  BY DEF Enqueue, faultVars
<1>5. {j} \in SUBSET JobIds /\ \A i \in {j} : rows[i].status = "free"
  BY <1>1
<1>6. QED
  BY <1>3, <1>4, <1>5, UnheldRows

LEMMA RetryStep ==
  ASSUME TypeOK, Guarded, NEW j \in JobIds, RetryDeadLetter(j)
  PROVE  Guarded'
<1>1. rows'[j].status = "queued" /\ \A i \in JobIds \ {j} : rows'[i] = rows[i]
  BY UnlockedColumns DEF RetryDeadLetter, Revived, TypeOK
<1>2. UNCHANGED <<loopVars, stalled, lapses>> /\ rows[j].status = "dead_letter"
  BY DEF RetryDeadLetter, faultVars
<1>3. {j} \in SUBSET JobIds /\ \A i \in {j} : rows[i].status = "dead_letter"
  BY <1>2
<1>4. QED
  BY <1>1, <1>2, <1>3, UnheldRows

LEMMA DeleteStep ==
  ASSUME TypeOK, Guarded, NEW gone \in SUBSET JobIds, Delete(gone),
         \A j \in gone : rows[j].status \in {"done", "dead_letter"}
  PROVE  Guarded'
<1>1. \A j \in gone : rows'[j].status = "deleted"
  BY DEF Delete, Deleted, RowOf
<1>2. \A j \in JobIds \ gone : rows'[j] = rows[j]
  BY DEF Delete
<1>3. UNCHANGED <<loopVars, stalled, lapses>>
  BY DEF Delete, faultVars
<1>4. QED
  BY <1>1, <1>2, <1>3, UnheldRows

LEMMA CancelChainStep ==
  ASSUME TypeOK, Guarded, NEW p, NEW c, CancelChain(p, c)
  PROVE  Guarded'
<1> DEFINE hit == {j \in JobIds : Cancellable(rows[j], p, c)}
<1>1. /\ \A j \in hit : ~RowLocked(j) /\ rows'[j] = Cancelled(rows[j])
      /\ \A j \in JobIds \ hit : rows'[j] = rows[j]
      /\ UNCHANGED <<loopVars, stalled, lapses>>
  BY DEF CancelChain, faultVars
<1>2. UNCHANGED <<pc, holds, hbOn, beat, final, stalled, lapses>>
  BY <1>1 DEF loopVars
<1>3. \A j \in hit : /\ rows'[j].status = "cancelled"
                     /\ Exhausted(rows'[j]) = Exhausted(rows[j])
  BY <1>1, UnlockedColumns DEF Cancelled
<1> HIDE DEF hit
<1>4. ASSUME NEW v \in Workers PROVE HeldBy(v)'
  <2>1. HeldBy(v)
    BY DEF Guarded
  <2>2. ASSUME pc[v] = "claiming" PROVE Ready(rows'[holds'[v]])
    <3>1. rows'[holds[v]] = rows[holds[v]]
      BY <1>1, <2>2 DEF RowLocked, TypeOK, Busy
    <3>2. QED
      BY <1>2, <2>1, <2>2, <3>1 DEF HeldBy
  <2>3. ASSUME lapses = 0, Executing(v) PROVE KeepsLease(v)'
    <3>1. holds[v] \in JobIds /\ KeepsLease(v)
      BY <2>1, <2>3 DEF HeldBy, Executing, TypeOK, Busy
    <3>2. CASE holds[v] \in hit
      BY <1>2, <1>3, <3>2 DEF KeepsLease
    <3>3. CASE holds[v] \notin hit
      <4>1. rows'[holds[v]] = rows[holds[v]]
        BY <1>1, <3>1, <3>3
      <4>2. QED
        BY <1>2, <3>1, <4>1 DEF KeepsLease
    <3>4. QED
      BY <3>2, <3>3
  <2>4. ASSUME lapses = 0, pc[v] = "marking", final[v] PROVE Exhausted(rows'[holds'[v]])
    <3>1. holds[v] \in JobIds /\ Exhausted(rows[holds[v]])
      BY <2>1, <2>4 DEF HeldBy, TypeOK, Busy
    <3>2. Exhausted(rows'[holds[v]])
      BY <1>1, <1>3, <3>1
    <3>3. QED
      BY <1>2, <3>2
  <2>5. QED
    BY <1>2, <2>2, <2>3, <2>4 DEF HeldBy, Executing
<1>5. \A u, v \in Workers : u # v => Apart(u, v)'
  BY <1>2 DEF Guarded, Apart, Executing
<1>6. PausesAreLapses'
  BY <1>2 DEF Guarded, PausesAreLapses, Executing
<1>7. GivenUpOnlyAfterAllAttempts'
  <2> SUFFICES ASSUME lapses = 0, NEW i \in JobIds, rows'[i].status = "dead_letter"
               PROVE  Exhausted(rows'[i])
    BY <1>2 DEF GivenUpOnlyAfterAllAttempts
  <2>1. rows'[i] = rows[i]
    BY <1>1, <1>3
  <2>2. QED
    BY <2>1 DEF Guarded, GivenUpOnlyAfterAllAttempts
<1>8. QED
  BY <1>4, <1>5, <1>6, <1>7 DEF Guarded

LEMMA TickStep ==
  ASSUME TypeOK, Guarded, Tick
  PROVE  Guarded'
<1>1. /\ \A j \in JobIds : rows'[j] = Aged(rows[j])
      /\ UNCHANGED <<pc, holds, hbOn, final, stalled, lapses>>
      /\ \A v \in Workers : ~Urgent(v)
  BY DEF Tick, faultVars
<1>2. ASSUME NEW v \in Workers PROVE HeldBy(v)'
  <2>1. pc[v] # "claiming"
    BY <1>1 DEF Urgent, Guarded, PausesAreLapses, Executing
  <2>2. CASE lapses = 0 /\ Executing(v)
    <3>1. v \notin stalled
      BY <2>2 DEF Guarded, PausesAreLapses
    <3>2. pc[v] = "running" /\ (hbOn[v] => beat[v] # 0)
      BY <1>1, <2>2, <3>1 DEF Urgent, Executing
    <3>3. holds[v] \in JobIds /\ rows[holds[v]] \in Row /\ KeepsLease(v)
      BY <2>2, <3>2 DEF Guarded, HeldBy, TypeOK, Busy
    <3>4. /\ rows'[holds[v]].status = rows[holds[v]].status
          /\ rows'[holds[v]].owner = rows[holds[v]].owner
          /\ rows[holds[v]].lease > 0 =>
               rows'[holds[v]].lease = rows[holds[v]].lease - 1
      BY <1>1, <3>3, AgedColumns
    <3>5. CASE rows[holds[v]].status = "cancelled"
      BY <1>1, <3>2, <3>4, <3>5 DEF HeldBy, KeepsLease
    <3>6. CASE rows[holds[v]].status # "cancelled"
      <4>1. /\ rows[holds[v]].status = "running" /\ rows[holds[v]].owner = v
            /\ rows[holds[v]].lease \in Nat /\ hbOn[v]
            /\ beat[v] \in Nat \ {0} /\ beat[v] < rows[holds[v]].lease
        BY <3>2, <3>3, <3>6, HeartbeatAssumption, TicksAssumption DEF KeepsLease, TypeOK, Row
      <4>2. beat'[v] = beat[v] - 1
        BY <3>2, <4>1 DEF Tick
      <4>3. rows'[holds'[v]].lease > 0 /\ beat'[v] < rows'[holds'[v]].lease
        BY <1>1, <3>4, <4>1, <4>2
      <4>4. KeepsLease(v)'
        BY <1>1, <3>4, <4>1, <4>3 DEF KeepsLease
      <4>5. QED
        BY <1>1, <3>2, <4>4 DEF HeldBy
    <3>7. QED
      BY <3>5, <3>6
  <2>3. CASE ~(lapses = 0 /\ Executing(v))
    BY <1>1, <2>1, <2>3 DEF HeldBy, Executing
  <2>4. QED
    BY <2>2, <2>3
<1>3. \A u, v \in Workers : u # v => Apart(u, v)'
  BY <1>1 DEF Guarded, Apart, Executing
<1>4. PausesAreLapses'
  BY <1>1 DEF Guarded, PausesAreLapses, Executing
<1>5. GivenUpOnlyAfterAllAttempts'
  <2> SUFFICES ASSUME lapses = 0, NEW i \in JobIds, rows'[i].status = "dead_letter"
               PROVE  Exhausted(rows'[i])
    BY <1>1 DEF GivenUpOnlyAfterAllAttempts
  <2>1. rows'[i].status = rows[i].status /\ Exhausted(rows'[i]) = Exhausted(rows[i])
    BY <1>1, AgedColumns DEF TypeOK
  <2>2. QED
    BY <2>1 DEF Guarded, GivenUpOnlyAfterAllAttempts
<1>6. QED
  BY <1>2, <1>3, <1>4, <1>5 DEF Guarded

LEMMA StutterStep ==
  ASSUME TypeOK, Guarded, UNCHANGED vars
  PROVE  Guarded'
<1>1. \A v \in Workers : LeavesAlone(v)
  BY DEF vars, LeavesAlone
<1>2. PausesAreLapses' /\ GivenUpOnlyAfterAllAttempts'
  <2>1. UNCHANGED <<rows, pc, stalled, lapses>>
    BY DEF vars
  <2>2. PausesAreLapses'
    BY <2>1 DEF Guarded, PausesAreLapses, Executing
  <2>3. GivenUpOnlyAfterAllAttempts'
    BY <2>1 DEF Guarded, GivenUpOnlyAfterAllAttempts
  <2>4. QED
    BY <2>2, <2>3
<1>3. QED
  BY <1>1, <1>2, NoActor DEF vars

-----------------------------------------------------------------------------
LEMMA GuardedStep == TypeOK /\ Guarded /\ [Next]_vars => Guarded'
<1> SUFFICES ASSUME TypeOK, Guarded, [Next]_vars PROVE Guarded'
  OBVIOUS
<1>1. ASSUME NEW w \in Workers, Worker(w) PROVE Guarded'
  BY <1>1, ClaimSelectStep, ClaimCommitStep, HeartbeatStep, CompleteStep, FailSelectStep,
     FailUpdateStep, MemoryStep DEF Worker
<1>2. ASSUME NEW w \in Workers, Environment(w) PROVE Guarded'
  BY <1>2, StartStep, StallStep, ResumeStep, CrashStep, EnqueueStep, StashStep
  DEF Environment
<1>3. CASE Operator
  <2>1. ASSUME NEW p \in Projects, PurgeDeadLetter(p) PROVE Guarded'
    BY <2>1, DeleteStep DEF PurgeDeadLetter
  <2>2. CASE Cleanup
    BY <2>2, DeleteStep DEF Cleanup
  <2>3. QED
    BY <1>3, <2>1, <2>2, CancelChainStep, RetryStep DEF Operator
<1>4. QED
  BY <1>1, <1>2, <1>3, TickStep, StutterStep DEF Next

(* QueueInvariant is an invariant, for any number of processes, jobs,      *)
(* crashes, lapses and retries, and any lease longer than its heartbeat.   *)
THEOREM InvariantCorrect == SafetySpec => []QueueInvariant
<1>1. Init => QueueInvariant
  BY TypeInit, InitGuarded, GuardedByWorker
<1>2. QueueInvariant /\ [Next]_vars => QueueInvariant'
  <2> SUFFICES ASSUME QueueInvariant, [Next]_vars PROVE QueueInvariant'
    OBVIOUS
  <2>1. TypeOK /\ Guarded
    BY GuardedByWorker
  <2>2. TypeOK' /\ Guarded'
    BY <2>1, TypeStep, GuardedStep
  <2>3. QED
    BY <2>2, GuardedByWorker, PTL
<1>3. QED
  BY <1>1, <1>2, PTL DEF SafetySpec

(* While no call was lost and no process paused, a handler that runs works *)
(* under an unexpired lease of its own (extend_lease, _heartbeat_loop).    *)
THEOREM LeaseCorrect == SafetySpec => []LeaseOutlivesHandler
  BY InvariantCorrect, PTL DEF QueueInvariant

(* So no job is run by two live processes at once (claim, run_worker).     *)
THEOREM ExclusionCorrect == SafetySpec => []ExclusiveExecution
  BY InvariantCorrect, PTL DEF QueueInvariant

(* And none is dead-lettered before its attempts are used up (fail).       *)
THEOREM GivingUpCorrect == SafetySpec => []GivenUpOnlyAfterAllAttempts
  BY InvariantCorrect, PTL DEF QueueInvariant

(* complete() and fail() ask for no status; done and dead-lettered rows    *)
(* are safe from them because their callers still hold the row.            *)
THEOREM FinishedRowsCorrect == SafetySpec => FinishedRowsStay
<1>1. ASSUME QueueInvariant, [Next]_vars, NEW j \in JobIds PROVE RowStaysFinished(j)
  <2> SUFFICES ASSUME lapses = 0, rows[j].status \in {"done", "dead_letter"},
                      rows'[j] # rows[j]
               PROVE  \/ rows'[j].status \in {rows[j].status, "deleted"}
                      \/ rows[j].status = "dead_letter" /\ retries' = retries + 1
    BY DEF RowStaysFinished
  <2>1. TypeOK /\ \A w \in Workers : HeldBy(w)
    BY <1>1, GuardedByWorker DEF Guarded
  <2>2. ASSUME NEW w \in Workers PROVE ~Worker(w)
    <3>1. pc[w] = "claiming" \/ Executing(w) => holds[w] # j
      BY <2>1, HeldRows DEF Live
    <3>2. ASSUME ClaimCommit(w) PROVE FALSE
      BY <2>1, <3>1, <3>2 DEF ClaimCommit, TypeOK
    <3>3. ASSUME Heartbeat(w) PROVE FALSE
      BY <2>1, <3>1, <3>3 DEF Heartbeat, Executing, TypeOK
    <3>4. ASSUME Complete(w) PROVE FALSE
      BY <2>1, <3>1, <3>4 DEF Complete, Executing, TypeOK
    <3>5. ASSUME FailUpdate(w) PROVE FALSE
      BY <2>1, <3>1, <3>5 DEF FailUpdate, Executing, TypeOK
    <3>6. QED
      BY <3>2, <3>3, <3>4, <3>5 DEF Worker, ClaimSelect, FailSelect, ClaimMem, FinishMem
  <2>3. ASSUME NEW w \in Workers PROVE ~Environment(w)
    BY <2>1 DEF Environment, Start, Stall, Resume, Crash, Enqueue, Stash, TypeOK
  <2>4. CASE Operator
    <3>1. ASSUME NEW p, NEW c, CancelChain(p, c) PROVE FALSE
      BY <3>1 DEF CancelChain, Cancellable, Live
    <3>2. ASSUME NEW i \in JobIds, RetryDeadLetter(i)
          PROVE  rows[j].status = "dead_letter" /\ retries' = retries + 1
      BY <2>1, <3>2 DEF RetryDeadLetter, TypeOK
    <3>3. ASSUME NEW gone, Delete(gone) PROVE rows'[j].status = "deleted"
      BY <3>3 DEF Delete, Deleted, RowOf
    <3>4. QED
      BY <2>4, <3>1, <3>2, <3>3 DEF Operator, PurgeDeadLetter, Cleanup
  <2>5. CASE Tick
    BY <2>1, <2>5, AgedColumns DEF Tick, TypeOK
  <2>6. QED
    BY <1>1, <2>2, <2>3, <2>4, <2>5 DEF Next, vars
<1>2. QueueInvariant /\ [Next]_vars => [\A j \in JobIds : RowStaysFinished(j)]_vars
  BY <1>1
<1>3. QED
  BY <1>2, InvariantCorrect, PTL DEF SafetySpec, FinishedRowsStay

-----------------------------------------------------------------------------
(* How often a job is claimed: attempts is charged by claim and asked for  *)
(* by fail, in two statements, while a crashed or paused process may still *)
(* be at work on the row. Only crashes and lapses buy claims past          *)
(* max_attempts, one each. The invariant counts, per job, the processes at *)
(* work on it and the claims that are still to come.                       *)

Hands(j) == {w \in Workers : Executing(w) /\ holds[w] = j}

(* Those whose fail() will put the job back.                               *)
Requeuers(j) == {w \in Workers : pc[w] = "marking" /\ holds[w] = j /\ ~final[w]}

(* w will be done with its row, or renew it, before its lease runs out.    *)
OnTime(w) ==
  LET row == rows[holds[w]]
  IN /\ Executing(w) /\ w \notin stalled
     /\ row.status = "running" /\ row.owner = w /\ row.lease > 0
     /\ pc[w] = "running" => hbOn[w] /\ beat[w] < row.lease

Kept(j) ==
  \/ rows[j].status = "cancelled"
  \/ \E w \in Workers : holds[w] = j /\ OnTime(w)

(* The row will be claimed although nothing more goes wrong.               *)
Open(j) == rows[j].status = "queued" \/ (rows[j].status = "running" /\ ~Kept(j))

Count(b) == IF b THEN 1 ELSE 0

HandsPaid(j) == Cardinality(Hands(j)) <= lapses + Count(Kept(j))

ClaimsPaid(j) ==
  Exhausted(rows[j]) =>
    rows[j].attempts + Count(Open(j)) + Cardinality(Requeuers(j))
      <= rows[j].req.max + crashes + lapses

Paid(j) == IsFiniteSet(Hands(j)) /\ HandsPaid(j) /\ ClaimsPaid(j)

BudgetInvariant == \A j \in JobIds : Paid(j)

LEMMA RowNumbers ==
  ASSUME TypeOK, NEW j \in JobIds
  PROVE  /\ rows[j] \in Row /\ rows[j].attempts \in Nat /\ rows[j].req.max \in Nat \ {0}
         /\ crashes \in Nat /\ lapses \in Nat
BY RequestsAssumption, BoundsAssumption DEF TypeOK, Row

LEMMA HandCount ==
  ASSUME NEW j, IsFiniteSet(Hands(j))
  PROVE  /\ IsFiniteSet(Requeuers(j)) /\ Requeuers(j) \subseteq Hands(j)
         /\ Cardinality(Hands(j)) \in Nat /\ Cardinality(Requeuers(j)) \in Nat
         /\ Cardinality(Requeuers(j)) <= Cardinality(Hands(j))
<1>1. Requeuers(j) \subseteq Hands(j) BY DEF Requeuers, Hands, Executing
<1> QED BY <1>1, FS_Subset, FS_CardinalityType

LEMMA CountType == ASSUME NEW b PROVE Count(b) \in {0, 1}
BY DEF Count

LEMMA PaidForLess ==
  ASSUME NEW h \in Nat, NEW la \in Nat, NEW la1 \in Nat, NEW c \in {0, 1}, NEW c1 \in {0, 1},
         la1 >= la, h <= la + c
  PROVE  h - 1 <= la1 + c1
OBVIOUS

LEMMA PaidForSame ==
  ASSUME NEW h \in Nat, NEW la \in Nat, NEW la1 \in Nat, NEW c \in {0, 1}, NEW c1 \in {0, 1},
         la1 >= la, h <= la + c, c = 0 \/ c1 = 1 \/ la1 > la
  PROVE  h <= la1 + c1
OBVIOUS

LEMMA PaidForNext ==
  ASSUME NEW a \in Nat, NEW m \in Nat, NEW q \in Nat, NEW q1, NEW cr \in Nat, NEW cr1 \in Nat,
         NEW la \in Nat, NEW la1 \in Nat, NEW c \in {0, 1}, NEW c1 \in {0, 1},
         la1 >= la, cr1 >= cr, a + c + q <= m + cr + la,
         q1 = q - 1 \/ (q1 = q /\ (c1 = 0 \/ c = 1 \/ la1 > la \/ cr1 > cr))
  PROVE  a + c1 + q1 <= m + cr1 + la1
<1>1. CASE q1 = q - 1 BY <1>1
<1>2. CASE q1 = q /\ c1 = 0 BY <1>2
<1>3. CASE q1 = q /\ c = 1 BY <1>3
<1>4. CASE q1 = q /\ la1 > la BY <1>4
<1>5. CASE q1 = q /\ cr1 > cr BY <1>5
<1> QED BY <1>1, <1>2, <1>3, <1>4, <1>5

(* The processes at work on a job stay the same ones.                      *)
LEMMA SameHands ==
  ASSUME TypeOK, TypeOK', NEW j \in JobIds, Paid(j), Hands(j)' = Hands(j),
         lapses' >= lapses, crashes' >= crashes,
         Kept(j) => Kept(j)' \/ lapses' > lapses,
         Exhausted(rows[j])' =>
           /\ Exhausted(rows[j]) /\ rows'[j].attempts = rows[j].attempts
           /\ rows'[j].req = rows[j].req
           /\ Requeuers(j)' = Requeuers(j)
           /\ Open(j)' => Open(j) \/ lapses' > lapses
  PROVE  Paid(j)'
<1> DEFINE h == Cardinality(Hands(j))
           q == Cardinality(Requeuers(j))
           a == rows[j].attempts
           m == rows[j].req.max
           k == Kept(j)
           k1 == Kept(j)'
           o == Open(j)
           o1 == Open(j)'
<1>1. /\ h \in Nat /\ q \in Nat /\ a \in Nat /\ m \in Nat
      /\ crashes \in Nat /\ lapses \in Nat /\ crashes' \in Nat /\ lapses' \in Nat
  BY HandCount, RowNumbers, BoundsAssumption DEF Paid, TypeOK
<1>2. h <= lapses + Count(k) /\ (Exhausted(rows[j]) => a + Count(o) + q <= m + crashes + lapses)
  BY DEF Paid, HandsPaid, ClaimsPaid
<1>3. IsFiniteSet(Hands(j)') BY DEF Paid
<1> HIDE DEF h, q, a, m, k, k1, o, o1
<1>4. h <= lapses' + Count(k1)
  <2>1. k => k1 \/ lapses' > lapses BY DEF k, k1
  <2>2. Count(k) = 0 \/ Count(k1) = 1 \/ lapses' > lapses BY <2>1 DEF Count
  <2> QED BY <1>1, <1>2, <2>2, CountType, PaidForSame
<1>5. HandsPaid(j)' BY <1>4 DEF HandsPaid, h, k1
<1>6. ASSUME Exhausted(rows[j])' PROVE a + Count(o1) + q <= m + crashes' + lapses'
  <2>1. Exhausted(rows[j]) /\ (o1 => o \/ lapses' > lapses) BY <1>6 DEF o, o1
  <2>2. Count(o1) = 0 \/ Count(o) = 1 \/ lapses' > lapses BY <2>1 DEF Count
  <2>3. a + Count(o) + q <= m + crashes + lapses BY <1>2, <2>1
  <2> QED BY <1>1, <2>2, <2>3, CountType, PaidForNext
<1>7. ClaimsPaid(j)' BY <1>6 DEF ClaimsPaid, a, m, q, o1
<1> QED BY <1>3, <1>5, <1>7 DEF Paid

(* One of them lets the job go.                                            *)
LEMMA FewerHands ==
  ASSUME TypeOK, TypeOK', NEW j \in JobIds, NEW w \in Hands(j), Paid(j),
         Hands(j)' = Hands(j) \ {w}, Requeuers(j)' = Requeuers(j) \ {w},
         lapses' >= lapses, crashes' >= crashes,
         Exhausted(rows[j])' =>
           /\ Exhausted(rows[j]) /\ rows'[j].attempts = rows[j].attempts
           /\ rows'[j].req = rows[j].req
           /\ Open(j)' => Open(j) \/ w \in Requeuers(j)
                          \/ lapses' > lapses \/ crashes' > crashes
  PROVE  Paid(j)'
<1> DEFINE h == Cardinality(Hands(j))
           q == Cardinality(Requeuers(j))
           q1 == Cardinality(Requeuers(j)')
           a == rows[j].attempts
           m == rows[j].req.max
           k == Kept(j)
           k1 == Kept(j)'
           o == Open(j)
           o1 == Open(j)'
           r == w \in Requeuers(j)
<1>1. /\ h \in Nat /\ q \in Nat /\ a \in Nat /\ m \in Nat
      /\ crashes \in Nat /\ lapses \in Nat /\ crashes' \in Nat /\ lapses' \in Nat
  BY HandCount, RowNumbers, BoundsAssumption DEF Paid, TypeOK
<1>2. h <= lapses + Count(k) /\ (Exhausted(rows[j]) => a + Count(o) + q <= m + crashes + lapses)
  BY DEF Paid, HandsPaid, ClaimsPaid
<1>3. IsFiniteSet(Hands(j)') /\ Cardinality(Hands(j)') = h - 1
  BY FS_RemoveElement DEF Paid
<1>4. q1 = IF r THEN q - 1 ELSE q
  BY HandCount, FS_RemoveElement DEF Paid
<1> HIDE DEF h, q, q1, a, m, k, k1, o, o1, r
<1>5. h - 1 <= lapses' + Count(k1) BY <1>1, <1>2, CountType, PaidForLess
<1>6. HandsPaid(j)' BY <1>3, <1>5 DEF HandsPaid, k1
<1>7. ASSUME Exhausted(rows[j])' PROVE a + Count(o1) + q1 <= m + crashes' + lapses'
  <2>1. Exhausted(rows[j]) /\ (o1 => o \/ r \/ lapses' > lapses \/ crashes' > crashes)
    BY <1>7 DEF o, o1, r
  <2>2. q1 = q - 1 \/ (q1 = q /\ (Count(o1) = 0 \/ Count(o) = 1 \/ lapses' > lapses
                                  \/ crashes' > crashes))
    BY <1>4, <2>1 DEF Count
  <2>3. a + Count(o) + q <= m + crashes + lapses BY <1>2, <2>1
  <2> QED BY <1>1, <2>2, <2>3, CountType, PaidForNext
<1>8. ClaimsPaid(j)' BY <1>7 DEF ClaimsPaid, a, m, q1, o1
<1> QED BY <1>3, <1>6, <1>8 DEF Paid

(* A claim commits.                                                        *)
LEMMA MoreHands ==
  ASSUME TypeOK, TypeOK', NEW j \in JobIds, NEW w, w \notin Hands(j), Paid(j),
         Hands(j)' = Hands(j) \cup {w}, Requeuers(j)' = Requeuers(j),
         lapses' = lapses, crashes' = crashes, ~Kept(j), Kept(j)', Open(j), ~Open(j)',
         rows'[j].attempts = rows[j].attempts + 1, rows'[j].req = rows[j].req
  PROVE  Paid(j)'
<1> DEFINE h == Cardinality(Hands(j))
           q == Cardinality(Requeuers(j))
           a == rows[j].attempts
           m == rows[j].req.max
<1>1. /\ h \in Nat /\ q \in Nat /\ a \in Nat /\ m \in Nat /\ q <= h
      /\ crashes \in Nat /\ lapses \in Nat
  BY HandCount, RowNumbers DEF Paid
<1>2. h <= lapses /\ (a >= m => a + 1 + q <= m + crashes + lapses)
  BY <1>1 DEF Paid, HandsPaid, ClaimsPaid, Count, Exhausted
<1>3. IsFiniteSet(Hands(j)') /\ Cardinality(Hands(j)') = h + 1
  BY FS_AddElement DEF Paid
<1> HIDE DEF h, q, a, m
<1>4. h + 1 <= lapses + 1 BY <1>1, <1>2
<1>5. HandsPaid(j)' BY <1>3, <1>4 DEF HandsPaid, Count
<1>6. a + 1 >= m => a + 1 + 0 + q <= m + crashes + lapses BY <1>1, <1>2
<1>7. ClaimsPaid(j)' BY <1>6 DEF ClaimsPaid, Exhausted, Count, a, m, q
<1> QED BY <1>3, <1>5, <1>7 DEF Paid

(* The step is w's: the others stay where they are, and none is paused.    *)
Others(w) ==
  \A v \in Workers \ {w} :
    /\ pc'[v] = pc[v] /\ holds'[v] = holds[v] /\ hbOn'[v] = hbOn[v]
    /\ beat'[v] = beat[v] /\ final'[v] = final[v]
    /\ v \in stalled' => v \in stalled

LEMMA OtherOnTime ==
  ASSUME NEW w, Others(w), NEW v \in Workers \ {w}, OnTime(v),
         rows'[holds[v]] = rows[holds[v]]
  PROVE  OnTime(v)'
BY DEF Others, OnTime, Executing

LEMMA OtherHands ==
  ASSUME NEW w, Others(w), NEW j
  PROVE  /\ \A v \in Workers \ {w} : v \in Hands(j)' <=> v \in Hands(j)
         /\ \A v \in Workers \ {w} : v \in Requeuers(j)' <=> v \in Requeuers(j)
BY DEF Others, Hands, Requeuers, Executing

LEMMA OtherJob ==
  ASSUME TypeOK, TypeOK', NEW w, Others(w), NEW j \in JobIds, Paid(j), rows'[j] = rows[j],
         w \notin Hands(j), w \notin Hands(j)', lapses' >= lapses, crashes' >= crashes
  PROVE  Paid(j)'
<1>1. Hands(j)' = Hands(j)
  <2>1. Hands(j) \subseteq Workers /\ Hands(j)' \subseteq Workers BY DEF Hands
  <2> QED BY <2>1, OtherHands
<1>2. Requeuers(j)' = Requeuers(j)
  <2>1. w \notin Requeuers(j) /\ w \notin Requeuers(j)' BY DEF Hands, Requeuers, Executing
  <2>2. Requeuers(j) \subseteq Workers /\ Requeuers(j)' \subseteq Workers BY DEF Requeuers
  <2> QED BY <2>1, <2>2, OtherHands
<1>3. Kept(j) => Kept(j)'
  <2>1. ASSUME NEW v \in Workers, holds[v] = j, OnTime(v) PROVE holds'[v] = j /\ OnTime(v)'
    <3>1. v # w BY <2>1 DEF OnTime, Hands
    <3>2. holds'[v] = j BY <2>1, <3>1 DEF Others
    <3> QED BY <2>1, <3>1, <3>2, OtherOnTime
  <2> QED BY <2>1 DEF Kept
<1>4. Open(j)' => Open(j) BY <1>3 DEF Open
<1>5. Exhausted(rows[j])' => Exhausted(rows[j]) BY DEF Exhausted
<1> QED BY <1>1, <1>2, <1>3, <1>4, <1>5, SameHands

(* w stops working, after at most one write to the row it holds.           *)
LEMMA LetGoBudget ==
  ASSUME TypeOK, TypeOK', BudgetInvariant, NEW w \in Workers, Others(w), Executing(w),
         ~Executing(w)', lapses' >= lapses, crashes' >= crashes,
         NEW j, j = holds[w], \A i \in JobIds \ {j} : rows'[i] = rows[i],
         rows'[j].attempts = rows[j].attempts, rows'[j].req = rows[j].req,
         Open(j)' => Open(j) \/ w \in Requeuers(j) \/ lapses' > lapses \/ crashes' > crashes
  PROVE  BudgetInvariant'
<1> SUFFICES ASSUME NEW i \in JobIds PROVE Paid(i)' BY DEF BudgetInvariant
<1>1. Paid(i) BY DEF BudgetInvariant
<1>2. w \notin Hands(i)' /\ w \notin Requeuers(i)' BY DEF Hands, Requeuers, Executing
<1>3. CASE i # j
  <2>1. w \notin Hands(i) BY <1>3 DEF Hands
  <2> QED BY <1>1, <1>2, <1>3, <2>1, OtherJob
<1>4. CASE i = j
  <2>1. w \in Hands(j) BY DEF Hands
  <2>2. Hands(j) \subseteq Workers /\ Hands(j)' \subseteq Workers BY DEF Hands
  <2>3. Requeuers(j) \subseteq Workers /\ Requeuers(j)' \subseteq Workers BY DEF Requeuers
  <2>4. Hands(j)' = Hands(j) \ {w} /\ Requeuers(j)' = Requeuers(j) \ {w}
    BY <1>2, <1>4, <2>2, <2>3, OtherHands
  <2>5. Exhausted(rows[j])' => Exhausted(rows[j]) BY DEF Exhausted
  <2> QED BY <1>1, <1>4, <2>1, <2>4, <2>5, FewerHands
<1> QED BY <1>3, <1>4

(* The statements on rows: who keeps its attempts.                         *)
LEMMA BudgetColumns ==
  ASSUME NEW row \in Row, NEW w, NEW b
  PROVE  /\ Claimed(row, w).attempts = row.attempts + 1 /\ Claimed(row, w).req = row.req
         /\ Extended(row).attempts = row.attempts /\ Extended(row).req = row.req
         /\ Completed(row).attempts = row.attempts /\ Completed(row).req = row.req
         /\ Completed(row).status \in {"deleted", "done"}
         /\ Failed(row, b).attempts = row.attempts /\ Failed(row, b).req = row.req
         /\ b => Failed(row, b).status \in {"deleted", "dead_letter"}
         /\ Cancelled(row).attempts = row.attempts /\ Cancelled(row).req = row.req
         /\ Cancelled(row).status = "cancelled"
         /\ Revived(row).attempts = 0 /\ Revived(row).req = row.req
         /\ Deleted(row).attempts = row.attempts /\ Deleted(row).req = row.req
         /\ Deleted(row).status = "deleted"
         /\ Aged(row).attempts = row.attempts /\ Aged(row).req = row.req
<1>1. Claimed(row, w).attempts = row.attempts + 1 /\ Claimed(row, w).req = row.req
  BY DEF Claimed, RowOf
<1>2. Extended(row).attempts = row.attempts /\ Extended(row).req = row.req
  BY DEF Extended, Row
<1>3. /\ Completed(row).attempts = row.attempts /\ Completed(row).req = row.req
      /\ Completed(row).status \in {"deleted", "done"}
  BY DEF Completed, Update, Unlocked, RowOf
<1>4. /\ Failed(row, b).attempts = row.attempts /\ Failed(row, b).req = row.req
      /\ b => Failed(row, b).status \in {"deleted", "dead_letter"}
  BY DEF Failed, Update, Unlocked, RowOf
<1>5. /\ Cancelled(row).attempts = row.attempts /\ Cancelled(row).req = row.req
      /\ Cancelled(row).status = "cancelled"
  BY DEF Cancelled, Unlocked, RowOf
<1>6. Revived(row).attempts = 0 /\ Revived(row).req = row.req
  BY DEF Revived, Unlocked, RowOf
<1>7. /\ Deleted(row).attempts = row.attempts /\ Deleted(row).req = row.req
      /\ Deleted(row).status = "deleted"
  BY DEF Deleted, RowOf
<1>8. Aged(row).attempts = row.attempts /\ Aged(row).req = row.req
  BY DEF Aged, RowOf
<1> QED BY <1>1, <1>2, <1>3, <1>4, <1>5, <1>6, <1>7, <1>8

LEMMA LapseGrows ==
  ASSUME TypeOK
  PROVE  /\ lapses \in Nat /\ crashes \in Nat
         /\ Lapse => lapses' > lapses /\ lapses' >= lapses
         /\ lapses' = lapses => lapses' >= lapses
         /\ crashes' = crashes => crashes' >= crashes
BY BoundsAssumption DEF TypeOK, Lapse

-----------------------------------------------------------------------------
LEMMA InitBudget == Init => BudgetInvariant
<1> SUFFICES ASSUME Init, NEW j \in JobIds PROVE Paid(j) BY DEF BudgetInvariant
<1>1. Hands(j) = {} /\ Requeuers(j) = {} BY DEF Init, Hands, Requeuers, Executing
<1>2. /\ rows[j].status = "free" /\ rows[j].attempts = 0 /\ lapses = 0 /\ crashes = 0
      /\ rows[j].req \in Requests
  BY RequestsAssumption DEF Init, FreeRow, RowOf
<1>3. ~Exhausted(rows[j]) BY <1>2, RequestsAssumption DEF Exhausted
<1>4. HandsPaid(j) BY <1>1, <1>2, FS_EmptySet DEF HandsPaid, Count
<1> QED BY <1>1, <1>3, <1>4, FS_EmptySet DEF Paid, ClaimsPaid

(* Steps of a process that does not work on a job, before or after.        *)
LEMMA IdleBudget ==
  ASSUME TypeOK, TypeOK', BudgetInvariant, NEW w \in Workers,
         \/ Start(w) \/ ClaimSelect(w) \/ ClaimMem(w) \/ FinishMem(w)
         \/ Crash(w) /\ ~Executing(w)
  PROVE  BudgetInvariant'
<1> SUFFICES ASSUME NEW j \in JobIds PROVE Paid(j)' BY DEF BudgetInvariant
<1>1. Paid(j) BY DEF BudgetInvariant
<1>2. Others(w) /\ rows' = rows
  BY DEF TypeOK, Others, Start, ClaimSelect, ClaimMem, FinishMem, Crash
<1>3. ~Executing(w) /\ ~Executing(w)'
  BY DEF TypeOK, Start, ClaimSelect, ClaimMem, FinishMem, Crash, Executing
<1>4. lapses' >= lapses /\ crashes' >= crashes
  BY LapseGrows DEF Start, ClaimSelect, ClaimMem, FinishMem, Crash, faultVars
<1> QED BY <1>1, <1>2, <1>3, <1>4, OtherJob DEF Hands

LEMMA CrashBudget ==
  ASSUME TypeOK, TypeOK', BudgetInvariant, NEW w \in Workers, Crash(w), Executing(w)
  PROVE  BudgetInvariant'
<1>1. Others(w) /\ ~Executing(w)' /\ rows' = rows BY DEF TypeOK, Crash, Others, Executing
<1>2. crashes' > crashes /\ crashes' >= crashes /\ lapses' >= lapses
  BY LapseGrows DEF Crash
<1> QED BY <1>1, <1>2, LetGoBudget

LEMMA CompleteBudget ==
  ASSUME TypeOK, TypeOK', BudgetInvariant, NEW w \in Workers, Complete(w)
  PROVE  BudgetInvariant'
<1>0. PICK j : j = holds[w] OBVIOUS
<1> USE <1>0
<1>1. /\ Others(w) /\ Executing(w) /\ ~Executing(w)'
      /\ j \in JobIds /\ rows[j] \in Row
  BY DEF TypeOK, Complete, BackToIdle, Others, Executing, Busy
<1>2. crashes' >= crashes /\ lapses' >= lapses BY LapseGrows DEF Complete
<1>3. CASE rows' = [rows EXCEPT ![j] = Completed(rows[j])]
  <2>1. rows'[j] = Completed(rows[j]) /\ \A i \in JobIds \ {j} : rows'[i] = rows[i]
    BY <1>1, <1>3 DEF TypeOK
  <2>2. /\ rows'[j].attempts = rows[j].attempts /\ rows'[j].req = rows[j].req
        /\ rows'[j].status \in {"deleted", "done"}
    BY <1>1, <2>1, BudgetColumns
  <2>3. ~Open(j)' BY <2>2 DEF Open
  <2> QED BY <1>1, <1>2, <2>1, <2>2, <2>3, LetGoBudget
<1>4. CASE Lapse /\ rows' = rows
  <2>1. lapses' > lapses BY <1>4, LapseGrows
  <2> QED BY <1>1, <1>2, <1>4, <2>1, LetGoBudget
<1> QED BY <1>3, <1>4 DEF Complete

LEMMA FailUpdateBudget ==
  ASSUME TypeOK, TypeOK', BudgetInvariant, NEW w \in Workers, FailUpdate(w)
  PROVE  BudgetInvariant'
<1>0. PICK j : j = holds[w] OBVIOUS
<1> USE <1>0
<1>1. /\ Others(w) /\ Executing(w) /\ ~Executing(w)' /\ pc[w] = "marking"
      /\ j \in JobIds /\ rows[j] \in Row
  BY DEF TypeOK, FailUpdate, BackToIdle, Others, Executing, Busy
<1>2. crashes' >= crashes /\ lapses' >= lapses BY LapseGrows DEF FailUpdate
<1>3. CASE rows' = [rows EXCEPT ![j] = Failed(rows[j], final[w])]
  <2>1. rows'[j] = Failed(rows[j], final[w]) /\ \A i \in JobIds \ {j} : rows'[i] = rows[i]
    BY <1>1, <1>3 DEF TypeOK
  <2>2. /\ rows'[j].attempts = rows[j].attempts /\ rows'[j].req = rows[j].req
        /\ final[w] => rows'[j].status \in {"deleted", "dead_letter"}
    BY <1>1, <2>1, BudgetColumns
  <2>3. final[w] => ~Open(j)' BY <2>2 DEF Open
  <2>4. ~final[w] => w \in Requeuers(j) BY <1>1 DEF Requeuers
  <2> QED BY <1>1, <1>2, <2>1, <2>2, <2>3, <2>4, LetGoBudget
<1>4. CASE Lapse /\ rows' = rows
  <2>1. lapses' > lapses BY <1>4, LapseGrows
  <2> QED BY <1>1, <1>2, <1>4, <2>1, LetGoBudget
<1> QED BY <1>3, <1>4 DEF FailUpdate

LEMMA FailSelectBudget ==
  ASSUME TypeOK, TypeOK', BudgetInvariant, NEW w \in Workers, FailSelect(w)
  PROVE  BudgetInvariant'
<1>0. PICK j : j = holds[w] OBVIOUS
<1> USE <1>0
<1>1. /\ Others(w) /\ Executing(w) /\ pc[w] \in {"running", "rejecting"} /\ w \notin stalled
      /\ j \in JobIds /\ rows[j] \in Row /\ rows' = rows /\ stalled' = stalled
  BY DEF TypeOK, FailSelect, BackToIdle, Others, Executing, Busy
<1>2. crashes' >= crashes /\ lapses' >= lapses BY LapseGrows DEF FailSelect
<1>3. CASE /\ pc' = [pc EXCEPT ![w] = "marking"]
           /\ final' = [final EXCEPT ![w] = Exhausted(rows[j])]
           /\ UNCHANGED <<holds, hbOn, lapses>>
  <2> SUFFICES ASSUME NEW i \in JobIds PROVE Paid(i)' BY DEF BudgetInvariant
  <2>1. Paid(i) BY DEF BudgetInvariant
  <2>2. pc'[w] = "marking" /\ final'[w] = Exhausted(rows[j]) /\ holds'[w] = j
    BY <1>3 DEF TypeOK
  <2>3. CASE i # j
    <3>1. w \notin Hands(i) /\ w \notin Hands(i)' BY <2>2, <2>3 DEF Hands
    <3> QED BY <1>1, <1>2, <2>1, <3>1, OtherJob
  <2>4. CASE i = j
    <3>1. w \in Hands(j) /\ w \in Hands(j)' BY <1>1, <2>2 DEF Hands, Executing
    <3>2. Hands(j) \subseteq Workers /\ Hands(j)' \subseteq Workers BY DEF Hands
    <3>3. Hands(j)' = Hands(j) BY <1>1, <3>1, <3>2, OtherHands
    <3>4. Exhausted(rows[j]) => Requeuers(j)' = Requeuers(j)
      <4>1. Requeuers(j) \subseteq Workers /\ Requeuers(j)' \subseteq Workers BY DEF Requeuers
      <4>2. Exhausted(rows[j]) => w \notin Requeuers(j) /\ w \notin Requeuers(j)'
        BY <1>1, <2>2 DEF Requeuers
      <4> QED BY <1>1, <4>1, <4>2, OtherHands
    <3>5. OnTime(w) => OnTime(w)' BY <1>1, <2>2 DEF OnTime, Executing
    <3>6. Kept(j) => Kept(j)'
      <4>1. ASSUME NEW v \in Workers, holds[v] = j, OnTime(v) PROVE holds'[v] = j /\ OnTime(v)'
        <5>1. CASE v = w BY <2>2, <3>5, <4>1, <5>1
        <5>2. CASE v # w BY <1>1, <4>1, <5>2, OtherOnTime DEF Others
        <5> QED BY <5>1, <5>2
      <4> QED BY <1>1, <4>1 DEF Kept
    <3>7. Open(j)' => Open(j) BY <1>1, <3>6 DEF Open
    <3> QED BY <1>1, <1>2, <2>1, <2>4, <3>3, <3>4, <3>6, <3>7, SameHands
  <2> QED BY <2>3, <2>4
<1>4. CASE BackToIdle(w) /\ rows[j].status = "deleted"
  <2>1. ~Executing(w)' BY <1>4 DEF BackToIdle, TypeOK, Executing
  <2>2. ~Open(j)' BY <1>1, <1>4 DEF Open
  <2> QED BY <1>1, <1>2, <2>1, <2>2, LetGoBudget
<1>5. CASE BackToIdle(w) /\ Lapse
  <2>1. ~Executing(w)' BY <1>5 DEF BackToIdle, TypeOK, Executing
  <2>2. lapses' > lapses BY <1>5, LapseGrows
  <2> QED BY <1>1, <1>2, <2>1, <2>2, LetGoBudget
<1> QED BY <1>3, <1>4, <1>5 DEF FailSelect

LEMMA ClaimCommitBudget ==
  ASSUME TypeOK, TypeOK', ClaimsAreSound, PausesAreLapses, BudgetInvariant,
         NEW w \in Workers, ClaimCommit(w)
  PROVE  BudgetInvariant'
<1> SUFFICES ASSUME NEW i \in JobIds PROVE Paid(i)' BY DEF BudgetInvariant
<1>1. PICK j : j = holds[w] OBVIOUS
<1> USE <1>1
<1>2. /\ Others(w) /\ ~Executing(w) /\ w \notin stalled /\ j \in JobIds /\ rows[j] \in Row
      /\ Ready(rows[j])
  BY DEF TypeOK, ClaimCommit, Others, Executing, Busy, ClaimsAreSound, PausesAreLapses
<1>3. /\ pc'[w] \in {"running", "rejecting"} /\ holds'[w] = j
      /\ pc'[w] = "running" => hbOn'[w]
      /\ beat'[w] = HbInterval /\ stalled' = stalled
      /\ rows' = [rows EXCEPT ![j] = Claimed(rows[j], w)]
      /\ lapses' = lapses /\ crashes' = crashes
  BY DEF TypeOK, ClaimCommit, faultVars
<1>4. /\ rows'[j] = Claimed(rows[j], w) /\ \A k \in JobIds \ {j} : rows'[k] = rows[k]
      /\ Paid(i) /\ w \notin Hands(i)
  BY <1>2, <1>3 DEF TypeOK, BudgetInvariant, Hands
<1>5. CASE i # j
  <2>1. w \notin Hands(i)' BY <1>3, <1>5 DEF Hands
  <2>2. lapses' >= lapses /\ crashes' >= crashes BY <1>3, LapseGrows
  <2> QED BY <1>2, <1>4, <1>5, <2>1, <2>2, OtherJob
<1>6. CASE i = j
  <2>1. w \in Hands(j)' /\ w \notin Requeuers(j) /\ w \notin Requeuers(j)'
    BY <1>2, <1>3 DEF Hands, Requeuers, Executing
  <2>2. /\ Hands(j) \subseteq Workers /\ Hands(j)' \subseteq Workers
        /\ Requeuers(j) \subseteq Workers /\ Requeuers(j)' \subseteq Workers
    BY DEF Hands, Requeuers
  <2>3. Hands(j)' = Hands(j) \cup {w} /\ Requeuers(j)' = Requeuers(j)
    BY <1>2, <2>1, <2>2, OtherHands
  <2>4. ~Kept(j) /\ Open(j)
    BY <1>2 DEF Kept, OnTime, Open, Ready, Expired
  <2>5. /\ rows'[j].status = "running" /\ rows'[j].owner = w /\ rows'[j].lease = LockTicks
        /\ rows'[j].attempts = rows[j].attempts + 1 /\ rows'[j].req = rows[j].req
    BY <1>2, <1>4, ClaimedColumns, BudgetColumns
  <2>6. OnTime(w)'
    BY <1>2, <1>3, <2>5, TicksAssumption, HeartbeatAssumption DEF OnTime, Executing
  <2>7. Kept(j)' /\ ~Open(j)' BY <1>3, <2>5, <2>6 DEF Kept, Open
  <2> QED BY <1>3, <1>4, <1>6, <2>3, <2>4, <2>5, <2>7, MoreHands
<1> QED BY <1>5, <1>6

(* Steps that move no process: what becomes of a row, and of its keeper.   *)
LEMMA StillBudget ==
  ASSUME TypeOK, TypeOK', NEW j \in JobIds, Paid(j), UNCHANGED <<pc, holds, final>>,
         lapses' >= lapses, crashes' >= crashes,
         Kept(j) => Kept(j)' \/ lapses' > lapses,
         \/ ~Exhausted(rows[j])'
         \/ /\ rows'[j].attempts = rows[j].attempts /\ rows'[j].req = rows[j].req
            /\ Open(j)' => Open(j) \/ lapses' > lapses
  PROVE  Paid(j)'
<1>1. Hands(j)' = Hands(j) /\ Requeuers(j)' = Requeuers(j) BY DEF Hands, Requeuers, Executing
<1>2. rows'[j].attempts = rows[j].attempts /\ rows'[j].req = rows[j].req =>
        (Exhausted(rows[j])' => Exhausted(rows[j]))
  BY DEF Exhausted
<1> QED BY <1>1, <1>2, SameHands

LEMMA HeartbeatBudget ==
  ASSUME TypeOK, TypeOK', BudgetInvariant, NEW w \in Workers, Heartbeat(w)
  PROVE  BudgetInvariant'
<1> SUFFICES ASSUME NEW i \in JobIds PROVE Paid(i)' BY DEF BudgetInvariant
<1>1. PICK j : j = holds[w] OBVIOUS
<1> USE <1>1
<1>2. /\ Others(w) /\ Executing(w) /\ Executing(w)' /\ w \notin stalled
      /\ UNCHANGED <<pc, holds, final, stalled, crashes>>
      /\ j \in JobIds /\ rows[j] \in Row /\ pc[w] = "running" /\ hbOn[w] /\ Paid(i)
  BY DEF TypeOK, Heartbeat, Others, Executing, Busy, BudgetInvariant
<1>3. crashes' >= crashes /\ lapses' >= lapses BY LapseGrows DEF Heartbeat
<1>4. CASE /\ CanExtend(rows[j], w) /\ rows' = [rows EXCEPT ![j] = Extended(rows[j])]
           /\ beat' = [beat EXCEPT ![w] = HbInterval] /\ hbOn' = hbOn
  <2>1. rows'[j] = Extended(rows[j]) /\ \A k \in JobIds \ {j} : rows'[k] = rows[k]
    BY <1>2, <1>4 DEF TypeOK
  <2>2. CASE i # j
    <3>1. w \notin Hands(i) /\ w \notin Hands(i)' BY <1>2, <2>2 DEF Hands
    <3> QED BY <1>2, <1>3, <2>1, <2>2, <3>1, OtherJob
  <2>3. CASE i = j
    <3>1. /\ rows'[j].status = "running" /\ rows'[j].owner = w /\ rows'[j].lease = LockTicks
          /\ rows'[j].attempts = rows[j].attempts /\ rows'[j].req = rows[j].req
      BY <1>2, <1>4, <2>1, ExtendedColumns, BudgetColumns DEF CanExtend
    <3>2. beat'[w] = HbInterval BY <1>4 DEF TypeOK
    <3>3. OnTime(w)'
      BY <1>2, <1>4, <3>1, <3>2, TicksAssumption, HeartbeatAssumption DEF OnTime
    <3>4. Kept(j)' /\ ~Open(j)' BY <1>2, <3>1, <3>3 DEF Kept, Open
    <3> QED BY <1>2, <1>3, <2>3, <3>1, <3>4, StillBudget
  <2> QED BY <2>2, <2>3
<1>5. CASE ~CanExtend(rows[j], w) /\ rows' = rows /\ beat' = beat
  <2>1. Kept(i) => Kept(i)'
    <3>1. ASSUME NEW v \in Workers, holds[v] = i, OnTime(v) PROVE holds'[v] = i /\ OnTime(v)'
      <4>1. v # w BY <1>5, <3>1 DEF OnTime, CanExtend
      <4> QED BY <1>2, <1>5, <3>1, <4>1, OtherOnTime
    <3> QED BY <1>5, <3>1 DEF Kept
  <2>2. Open(i)' => Open(i) BY <1>5, <2>1 DEF Open
  <2> QED BY <1>2, <1>3, <1>5, <2>1, <2>2, StillBudget
<1>6. CASE Lapse /\ rows' = rows
  <2>1. lapses' > lapses BY <1>6, LapseGrows
  <2> QED BY <1>2, <1>3, <1>6, <2>1, StillBudget
<1> QED BY <1>4, <1>5, <1>6 DEF Heartbeat

LEMMA PauseBudget ==
  ASSUME TypeOK, TypeOK', BudgetInvariant, NEW w \in Workers, Stall(w) \/ Resume(w)
  PROVE  BudgetInvariant'
<1> SUFFICES ASSUME NEW j \in JobIds PROVE Paid(j)' BY DEF BudgetInvariant
<1>1. /\ UNCHANGED <<rows, pc, holds, hbOn, beat, final>> /\ Paid(j)
      /\ crashes' >= crashes /\ lapses' >= lapses
  BY LapseGrows DEF Stall, Resume, loopVars, faultVars, BudgetInvariant
<1>2. CASE Stall(w)
  <2>1. lapses' > lapses BY <1>2, LapseGrows DEF Stall
  <2> QED BY <1>1, <2>1, StillBudget
<1>3. CASE Resume(w)
  <2>1. stalled' \subseteq stalled BY <1>3 DEF Resume
  <2>2. \A v \in Workers : OnTime(v) => OnTime(v)' BY <1>1, <2>1 DEF OnTime, Executing
  <2>3. Kept(j) => Kept(j)' BY <1>1, <2>2 DEF Kept
  <2>4. Open(j)' => Open(j) BY <1>1, <2>3 DEF Open
  <2> QED BY <1>1, <2>3, <2>4, StillBudget
<1> QED BY <1>2, <1>3

(* Steps that leave the processes alone and rewrite rows.                  *)
LEMMA TableBudget ==
  ASSUME TypeOK, TypeOK', BudgetInvariant, UNCHANGED <<loopVars, stalled>>,
         lapses' >= lapses, crashes' >= crashes, NEW J \in SUBSET JobIds,
         \A i \in JobIds \ J : rows'[i] = rows[i],
         \A i \in J :
           \/ ~Kept(i) /\ ~Exhausted(rows'[i])
           \/ /\ rows'[i].attempts = rows[i].attempts /\ rows'[i].req = rows[i].req
              /\ \/ rows'[i].status = "cancelled"
                 \/ ~Kept(i) /\ rows'[i].status = "deleted"
  PROVE  BudgetInvariant'
<1> SUFFICES ASSUME NEW j \in JobIds PROVE Paid(j)' BY DEF BudgetInvariant
<1>1. UNCHANGED <<pc, holds, hbOn, beat, final, stalled>> /\ Paid(j)
  BY DEF loopVars, BudgetInvariant
<1>2. CASE j \notin J
  <2>1. rows'[j] = rows[j] BY <1>2
  <2>2. Kept(j) <=> Kept(j)' BY <1>1, <2>1 DEF Kept, OnTime, Executing
  <2>3. Open(j)' => Open(j) BY <2>1, <2>2 DEF Open
  <2> QED BY <1>1, <2>1, <2>2, <2>3, StillBudget
<1>3. CASE j \in J /\ ~Kept(j) /\ ~Exhausted(rows'[j])
  BY <1>1, <1>3, StillBudget
<1>4. CASE /\ j \in J /\ rows'[j].attempts = rows[j].attempts /\ rows'[j].req = rows[j].req
           /\ rows'[j].status = "cancelled"
  <2>1. Kept(j)' /\ ~Open(j)' BY <1>4 DEF Kept, Open
  <2> QED BY <1>1, <1>4, <2>1, StillBudget
<1>5. CASE /\ j \in J /\ rows'[j].attempts = rows[j].attempts /\ rows'[j].req = rows[j].req
           /\ ~Kept(j) /\ rows'[j].status = "deleted"
  <2>1. ~Open(j)' BY <1>5 DEF Open
  <2> QED BY <1>1, <1>5, <2>1, StillBudget
<1> QED BY <1>2, <1>3, <1>4, <1>5

LEMMA NotKept ==
  ASSUME NEW j, rows[j].status \notin {"running", "cancelled"}
  PROVE  ~Kept(j)
BY DEF Kept, OnTime

LEMMA EnqueueBudget ==
  ASSUME TypeOK, TypeOK', BudgetInvariant, NEW w \in Workers, NEW r \in Requests, Enqueue(w, r)
  PROVE  BudgetInvariant'
<1>1. PICK j \in JobIds : rows[j].status = "free" /\ rows' = [rows EXCEPT ![j] = Inserted(r)]
  BY DEF Enqueue
<1>2. UNCHANGED <<loopVars, stalled>> /\ lapses' >= lapses /\ crashes' >= crashes
  BY LapseGrows DEF Enqueue, faultVars
<1>3. rows'[j] = Inserted(r) /\ \A i \in JobIds \ {j} : rows'[i] = rows[i]
  BY <1>1 DEF TypeOK
<1>4. rows'[j].attempts = 0 /\ rows'[j].req = r BY <1>3 DEF Inserted, RowOf
<1>5. ~Kept(j) /\ ~Exhausted(rows'[j]) BY <1>1, <1>4, NotKept, RequestsAssumption DEF Exhausted
<1>6. {j} \in SUBSET JobIds OBVIOUS
<1> QED BY <1>2, <1>3, <1>5, <1>6, TableBudget

LEMMA RetryBudget ==
  ASSUME TypeOK, TypeOK', BudgetInvariant, NEW j \in JobIds, RetryDeadLetter(j)
  PROVE  BudgetInvariant'
<1>1. UNCHANGED <<loopVars, stalled>> /\ lapses' >= lapses /\ crashes' >= crashes
  BY LapseGrows DEF RetryDeadLetter, faultVars
<1>2. rows'[j] = Revived(rows[j]) /\ \A i \in JobIds \ {j} : rows'[i] = rows[i]
  BY DEF RetryDeadLetter, TypeOK
<1>3. rows'[j].attempts = 0 /\ rows'[j].req = rows[j].req
  BY <1>2, BudgetColumns, RowNumbers
<1>4. ~Exhausted(rows'[j]) BY <1>3, RowNumbers DEF Exhausted
<1>5. ~Kept(j) BY NotKept DEF RetryDeadLetter
<1>6. {j} \in SUBSET JobIds OBVIOUS
<1> QED BY <1>1, <1>2, <1>4, <1>5, <1>6, TableBudget

LEMMA DeleteBudget ==
  ASSUME TypeOK, TypeOK', BudgetInvariant, NEW gone \in SUBSET JobIds, Delete(gone),
         \A j \in gone : rows[j].status \in {"done", "dead_letter"}
  PROVE  BudgetInvariant'
<1>1. UNCHANGED <<loopVars, stalled>> /\ lapses' >= lapses /\ crashes' >= crashes
  BY LapseGrows DEF Delete, faultVars
<1>2. /\ \A j \in gone : rows'[j] = Deleted(rows[j])
      /\ \A j \in JobIds \ gone : rows'[j] = rows[j]
  BY DEF Delete
<1>3. ASSUME NEW j \in gone
      PROVE  /\ rows'[j].attempts = rows[j].attempts /\ rows'[j].req = rows[j].req
             /\ rows'[j].status = "deleted" /\ ~Kept(j)
  BY <1>2, BudgetColumns, NotKept, RowNumbers
<1> QED BY <1>1, <1>2, <1>3, TableBudget

LEMMA CancelBudget ==
  ASSUME TypeOK, TypeOK', BudgetInvariant, NEW p, NEW c, CancelChain(p, c)
  PROVE  BudgetInvariant'
<1>1. UNCHANGED <<loopVars, stalled>> /\ lapses' >= lapses /\ crashes' >= crashes
  BY LapseGrows DEF CancelChain, faultVars
<1>2. PICK hit \in SUBSET JobIds :
        rows' = [j \in JobIds |-> IF j \in hit THEN Cancelled(rows[j]) ELSE rows[j]]
  BY DEF CancelChain
<1>3. ASSUME NEW j \in hit
      PROVE  /\ rows'[j].attempts = rows[j].attempts /\ rows'[j].req = rows[j].req
             /\ rows'[j].status = "cancelled"
  BY <1>2, BudgetColumns, RowNumbers
<1>4. \A j \in JobIds \ hit : rows'[j] = rows[j] BY <1>2
<1> QED BY <1>1, <1>3, <1>4, TableBudget

LEMMA QuietBudget ==
  ASSUME TypeOK, TypeOK', BudgetInvariant,
         (\E w \in Workers, r \in Requests : Stash(w, r)) \/ UNCHANGED vars
  PROVE  BudgetInvariant'
<1>1. UNCHANGED <<loopVars, stalled, rows>> /\ lapses' >= lapses /\ crashes' >= crashes
  BY LapseGrows DEF Stash, vars, loopVars
<1>2. {} \in SUBSET JobIds OBVIOUS
<1> QED BY <1>1, <1>2, TableBudget

(* The clock takes no lease from a process that is on time.                *)
LEMMA TickBudget ==
  ASSUME TypeOK, TypeOK', BudgetInvariant, Tick
  PROVE  BudgetInvariant'
<1> SUFFICES ASSUME NEW j \in JobIds PROVE Paid(j)' BY DEF BudgetInvariant
<1>1. /\ UNCHANGED <<pc, holds, hbOn, final, stalled>> /\ Paid(j)
      /\ rows'[j] = Aged(rows[j]) /\ crashes' >= crashes /\ lapses' >= lapses
      /\ \A v \in Workers : ~Urgent(v)
  BY LapseGrows DEF Tick, faultVars, BudgetInvariant
<1>2. /\ rows[j] \in Row /\ rows'[j].status = rows[j].status /\ rows'[j].owner = rows[j].owner
      /\ rows[j].lease > 0 => rows'[j].lease = rows[j].lease - 1
      /\ rows'[j].attempts = rows[j].attempts /\ rows'[j].req = rows[j].req
  BY <1>1, RowNumbers, AgedColumns, BudgetColumns
<1>3. ASSUME NEW v \in Workers, holds[v] = j, OnTime(v) PROVE OnTime(v)'
  <2>1. pc[v] = "running" /\ beat[v] # 0 /\ hbOn[v] /\ beat[v] < rows[j].lease
    BY <1>1, <1>3 DEF OnTime, Urgent, Executing
  <2>2. beat[v] \in Nat \ {0} /\ rows[j].lease \in Nat
    BY <1>2, <2>1, HeartbeatAssumption, TicksAssumption DEF TypeOK, Row
  <2>3. beat'[v] = beat[v] - 1 BY <2>1, <2>2 DEF Tick
  <2>4. rows'[j].lease > 0 /\ beat'[v] < rows'[j].lease BY <1>2, <2>1, <2>2, <2>3
  <2> QED BY <1>1, <1>2, <1>3, <2>1, <2>4 DEF OnTime, Executing
<1>4. Kept(j) => Kept(j)' BY <1>1, <1>2, <1>3 DEF Kept
<1>5. Open(j)' => Open(j) BY <1>2, <1>4 DEF Open
<1> QED BY <1>1, <1>2, <1>4, <1>5, StillBudget

-----------------------------------------------------------------------------
LEMMA BudgetNext ==
  QueueInvariant /\ QueueInvariant' /\ BudgetInvariant /\ [Next]_vars => BudgetInvariant'
<1> SUFFICES ASSUME QueueInvariant, QueueInvariant', BudgetInvariant, [Next]_vars
             PROVE  BudgetInvariant'
  OBVIOUS
<1>1. TypeOK /\ TypeOK' /\ ClaimsAreSound /\ PausesAreLapses BY DEF QueueInvariant
<1>2. ASSUME NEW w \in Workers, Worker(w) PROVE BudgetInvariant'
  BY <1>1, <1>2, IdleBudget, ClaimCommitBudget, HeartbeatBudget, CompleteBudget,
     FailSelectBudget, FailUpdateBudget DEF Worker
<1>3. ASSUME NEW w \in Workers, Environment(w) PROVE BudgetInvariant'
  BY <1>1, <1>3, IdleBudget, CrashBudget, PauseBudget, EnqueueBudget, QuietBudget
  DEF Environment
<1>4. CASE Operator
  <2>1. ASSUME NEW p \in Projects, PurgeDeadLetter(p) PROVE BudgetInvariant'
    BY <1>1, <2>1, DeleteBudget DEF PurgeDeadLetter
  <2>2. CASE Cleanup BY <1>1, <2>2, DeleteBudget DEF Cleanup
  <2> QED BY <1>1, <1>4, <2>1, <2>2, CancelBudget, RetryBudget DEF Operator
<1> QED BY <1>1, <1>2, <1>3, <1>4, TickBudget, QuietBudget DEF Next

(* The processes at work on a job and the claims it has left are paid for  *)
(* by crashes and lapses (claim, fail).                                    *)
THEOREM BudgetCorrect == SafetySpec => []BudgetInvariant
<1>1. QueueInvariant /\ QueueInvariant' /\ BudgetInvariant /\ [Next]_vars => BudgetInvariant'
  BY BudgetNext
<1> QED BY <1>1, InitBudget, InvariantCorrect, PTL DEF SafetySpec

(* So no job is claimed more often than max_attempts, crashes and lapses   *)
(* allow together (attempts is charged by claim and asked for by fail).    *)
THEOREM AttemptsCorrect == SafetySpec => []AttemptsBounded
<1>1. TypeOK /\ BudgetInvariant => AttemptsBounded
  <2> SUFFICES ASSUME TypeOK, BudgetInvariant, NEW j \in JobIds
               PROVE  rows[j].attempts <= rows[j].req.max + crashes + lapses
    BY DEF AttemptsBounded
  <2>1. /\ rows[j].attempts \in Nat /\ rows[j].req.max \in Nat
        /\ crashes \in Nat /\ lapses \in Nat
    BY RowNumbers
  <2>2. CASE rows[j].attempts < rows[j].req.max BY <2>1, <2>2
  <2>3. CASE rows[j].attempts >= rows[j].req.max
    <3>1. IsFiniteSet(Hands(j)) /\ ClaimsPaid(j) BY DEF BudgetInvariant, Paid
    <3>2. PICK q \in Nat, o \in {0, 1} :
            rows[j].attempts + o + q <= rows[j].req.max + crashes + lapses
      BY <2>3, <3>1, HandCount, CountType DEF ClaimsPaid, Exhausted
    <3> QED BY <2>1, <3>2
  <2> QED BY <2>1, <2>2, <2>3
<1>2. QueueInvariant => TypeOK BY DEF QueueInvariant
<1> QED BY <1>1, <1>2, InvariantCorrect, BudgetCorrect, PTL
=============================================================================
