------------------------- MODULE DurableChainProofs -------------------------
(***************************************************************************)
(* Proofs about DurableChain, for every set of chains and workers, every   *)
(* max_hops and every number of crashes: its type invariant; that it       *)
(* implements ChainPromise; and that, while no process died, a chain runs  *)
(* one hop at a time, its final record agrees with what its hops were      *)
(* given, and no failed chain refreshes the wiki.                          *)
(***************************************************************************)
EXTENDS DurableChain, SequenceTheorems, TLAPS

Busy == {"check", "executing", "wiki", "returning"}

(* A worker that is busy holds a job.                                      *)
BusyHolds == \A w \in Workers : pc[w] \in Busy => at[w] \in Jobs

(* No output is stored without one of the two final statuses.              *)
BlankRecords ==
  \A c \in Chains : /\ slot[c].status = "none" => slot[c] = NoRecord
                    /\ slot[c].status = "cancelled" => slot[c] = CancelRecord

TypeInv == TypeOK /\ BusyHolds /\ BlankRecords

(* The request of every job is one.                                        *)
LEMMA JobType ==
  ASSUME NEW j \in Jobs
  PROVE  /\ j = <<j[1], j[2]>> /\ j[1] \in Chains /\ j[2] \in Steps
         /\ HopRequest(j[1], j[2]) \in {HopRequest(c, s) : c \in Chains, s \in Steps}
  BY DEF Jobs

(* What each statement makes of a row is a row.                            *)
LEMMA ClaimedType ==
  ASSUME NEW row \in Row, NEW w \in Workers
  PROVE  Claimed(row, w) \in Row
  BY DEF Row, RowOf, Status, Live, Settled, Claimed

LEMMA UpdatedType ==
  ASSUME NEW row \in Row
  PROVE  Completed(row) \in Row /\ Cancelled(row) \in Row
  BY DEF Row, RowOf, Status, Live, Settled, Completed, Cancelled, Update, Unlocked

LEMMA AgedType ==
  ASSUME NEW row \in Row
  PROVE  Aged(row) \in Row
  BY DEF Row, RowOf, Status, Live, Settled, Aged, Elapsed

LEMMA InsertedType ==
  ASSUME NEW c \in Chains, NEW s \in Steps
  PROVE  Inserted(HopRequest(c, s)) \in Row
  BY DEF Row, Status, Live, Settled, Inserted, RowOf

(* The outputs after a run of a hop are a sequence of them, one longer.    *)
LEMMA HopsAfterType ==
  ASSUME TypeOK, NEW w \in Workers, at[w] \in Jobs, NEW k \in HopKinds
  PROVE  /\ HopsAfter(w, k) \in Seq(Hop)
         /\ Len(HopsAfter(w, k)) = Len(carried[at[w]]) + 1
         /\ \A i \in 1..Len(carried[at[w]]) : HopsAfter(w, k)[i] = carried[at[w]][i]
<1> DEFINE out == [run |-> rows[at[w]].attempts, kind |-> k]
<1>1. rows[at[w]].attempts \in Nat /\ carried[at[w]] \in Seq(Hop)
  BY DEF TypeOK, Row
<1>2. out \in Hop
  BY <1>1 DEF Hop
<1>3. HopsAfter(w, k) = Append(carried[at[w]], out)
  BY DEF HopsAfter
<1> HIDE DEF out
<1>4. QED
  BY <1>1, <1>2, <1>3, AppendProperties

(* An enqueue keeps the tables' types.                                     *)
LEMMA EnqueueType ==
  ASSUME TypeOK, NEW c \in Chains, NEW s \in Steps, NEW hops \in Seq(Hop),
         EnqueueHop(c, s, hops)
  PROVE  rows' \in [Jobs -> Row] /\ carried' \in [Jobs -> Seq(Hop)]
  BY InsertedType DEF TypeOK, EnqueueHop, Jobs

-----------------------------------------------------------------------------
LEMMA TypeInit == Init => TypeInv
<1> SUFFICES ASSUME Init PROVE TypeInv
  OBVIOUS
<1>1. \A j \in Jobs : RowOf(HopRequest(j[1], j[2]), "free", 0, 0, NoWorker, 0) \in Row
  BY JobType DEF Row, RowOf, Status, Live, Settled
<1>2. rows \in [Jobs -> Row]
  BY <1>1 DEF Init
<1>3. carried \in [Jobs -> Seq(Hop)]
  BY EmptySeq DEF Init
<1>4. slot \in [Chains -> Record]
  BY EmptySeq DEF Init, Record, NoRecord
<1>5. crashes \in 0..MaxCrashes
  BY ChainAssumption DEF Init
<1>6. QED
  BY <1>2, <1>3, <1>4, <1>5 DEF Init, TypeInv, TypeOK, BusyHolds, BlankRecords, Busy, NoRecord

LEMMA TypeStep == TypeInv /\ [Next]_vars => TypeInv'
<1> SUFFICES ASSUME TypeInv, [Next]_vars PROVE TypeInv'
  OBVIOUS
<1> USE DEF TypeInv, BusyHolds, BlankRecords, Busy
<1>1. ASSUME NEW c \in Chains, Submit(c) PROVE TypeInv'
  <2>1. 0 \in Steps
    BY ChainAssumption DEF Steps
  <2>2. <<>> \in Seq(Hop)
    BY EmptySeq
  <2>3. rows' \in [Jobs -> Row] /\ carried' \in [Jobs -> Seq(Hop)]
    BY <1>1, <2>1, <2>2, EnqueueType DEF Submit
  <2>4. QED
    BY <1>1, <2>3 DEF Submit, TypeOK
<1>2. ASSUME NEW c \in Chains, DeleteCheck(c) PROVE TypeInv'
  BY <1>2 DEF DeleteCheck, TypeOK
<1>3. ASSUME NEW c \in Chains, DeleteStamp(c) PROVE TypeInv'
  <2>1. CancelRecord \in Record
    BY EmptySeq DEF CancelRecord, Record
  <2>2. QED
    BY <1>3, <2>1 DEF DeleteStamp, TypeOK, CancelRecord
<1>4. ASSUME NEW c \in Chains, DeleteRows(c) PROVE TypeInv'
  BY <1>4, UpdatedType DEF DeleteRows, TypeOK
<1>5. ASSUME NEW c \in Chains, DeleteDies(c) PROVE TypeInv'
  BY <1>5, ChainAssumption DEF DeleteDies, TypeOK, CrashAllowed
<1>6. ASSUME NEW w \in Workers, Claim(w) PROVE TypeInv'
  <2>1. PICK j \in Jobs : /\ rows' = [rows EXCEPT ![j] = Claimed(@, w)]
                          /\ at' = [at EXCEPT ![w] = j]
    BY <1>6 DEF Claim
  <2>2. rows' \in [Jobs -> Row]
    BY <2>1, ClaimedType DEF TypeOK
  <2>3. QED
    BY <1>6, <2>1, <2>2 DEF Claim, TypeOK
<1>7. ASSUME NEW w \in Workers, CheckSlot(w) PROVE TypeInv'
  BY <1>7 DEF CheckSlot, TypeOK
<1>8. ASSUME NEW w \in Workers, HopRaises(w) PROVE TypeInv'
  <2>1. at[w] \in Jobs
    BY <1>8 DEF HopRaises
  <2>2. [status |-> "failed", hops |-> carried[at[w]]] \in Record
    BY <2>1 DEF Record, TypeOK
  <2>3. slot' \in [Chains -> Record]
    BY <1>8, <2>2 DEF HopRaises, TypeOK
  <2>4. QED
    BY <1>8, <2>3 DEF HopRaises, TypeOK
<1>9. ASSUME NEW w \in Workers, HopDelegates(w) PROVE TypeInv'
  <2>1. at[w] \in Jobs
    BY <1>9 DEF HopDelegates
  <2>2. PICK k \in HopKinds : EnqueueHop(at[w][1], at[w][2] + 1, HopsAfter(w, k))
    BY <1>9 DEF HopDelegates
  <2>3. at[w][1] \in Chains /\ at[w][2] + 1 \in Steps
    BY <1>9, <2>1, JobType, ChainAssumption DEF HopDelegates, Steps
  <2>4. rows' \in [Jobs -> Row] /\ carried' \in [Jobs -> Seq(Hop)]
    BY <2>1, <2>2, <2>3, HopsAfterType, EnqueueType
  <2>5. QED
    BY <1>9, <2>4 DEF HopDelegates, TypeOK
<1>10. ASSUME NEW w \in Workers, HopFinishes(w) PROVE TypeInv'
  <2>1. at[w] \in Jobs
    BY <1>10 DEF HopFinishes
  <2>2. PICK k \in HopKinds :
          /\ slot' = [slot EXCEPT ![at[w][1]] = [status |-> "done", hops |-> HopsAfter(w, k)]]
          /\ pc' = [pc EXCEPT ![w] = IF WantsRefresh(HopsAfter(w, k)) THEN "wiki"
                                                                     ELSE "returning"]
    BY <1>10 DEF HopFinishes
  <2>3. [status |-> "done", hops |-> HopsAfter(w, k)] \in Record
    BY <2>1, HopsAfterType DEF Record
  <2>4. slot' \in [Chains -> Record]
    BY <2>2, <2>3 DEF TypeOK
  <2>5. QED
    BY <1>10, <2>2, <2>4 DEF HopFinishes, TypeOK
<1>11. ASSUME NEW w \in Workers, RefreshWiki(w) PROVE TypeInv'
  <2>1. at[w][1] \in Chains
    BY <1>11, JobType DEF RefreshWiki
  <2>2. QED
    BY <1>11, <2>1 DEF RefreshWiki, TypeOK
<1>12. ASSUME NEW w \in Workers, Complete(w) PROVE TypeInv'
  <2>1. rows' \in [Jobs -> Row]
    BY <1>12, UpdatedType DEF Complete, TypeOK
  <2>2. QED
    BY <1>12, <2>1 DEF Complete, TypeOK
<1>13. ASSUME NEW w \in Workers, WorkerDies(w) PROVE TypeInv'
  BY <1>13, ChainAssumption DEF WorkerDies, TypeOK, CrashAllowed
<1>14. ASSUME NEW j \in Jobs, LeaseExpires(j) PROVE TypeInv'
  <2>1. rows' \in [Jobs -> Row]
    BY <1>14, AgedType DEF LeaseExpires, TypeOK
  <2>2. QED
    BY <1>14, <2>1 DEF LeaseExpires, TypeOK
<1>15. CASE UNCHANGED vars
  BY <1>15 DEF vars, TypeOK
<1>16. QED
  BY <1>1, <1>2, <1>3, <1>4, <1>5, <1>6, <1>7, <1>8, <1>9, <1>10, <1>11, <1>12, <1>13,
     <1>14, <1>15 DEF Next, HandlerEnds

(* Every state of every run is well typed, a busy worker's job included.   *)
THEOREM TypeInvariant == Spec => []TypeInv
  BY TypeInit, TypeStep, PTL DEF Spec

(* The variables of a durable chain keep their types, whatever crashes.    *)
THEOREM TypeCorrect == Spec => []TypeOK
<1>1. TypeInv => TypeOK
  BY DEF TypeInv
<1>2. QED
  BY <1>1, TypeInvariant, PTL

-----------------------------------------------------------------------------
(* The refinement of ChainPromise.  InFlight is a state predicate over pc  *)
(* and at: what leaves both alone leaves it alone, and what moves one      *)
(* worker can change it for that worker's chain only.                      *)

Working == [c \in Chains |-> InFlight(c)]

LEMMA WorkingSame ==
  ASSUME UNCHANGED <<pc, at>>
  PROVE  Working' = Working
  BY DEF Working, InFlight

LEMMA WorkingElsewhere ==
  ASSUME TypeInv, NEW w \in Workers, NEW d \in Chains,
         \A v \in Workers : v # w => pc'[v] = pc[v] /\ at'[v] = at[v],
         pc[w] = "executing" => at[w][1] = d,
         pc'[w] = "executing" => at'[w][1] = d
  PROVE  \E b \in BOOLEAN : Working' = [Working EXCEPT ![d] = b]
<1>1. \A c \in Chains : c # d => InFlight(c)' = InFlight(c)
  BY DEF InFlight
<1>2. InFlight(d)' \in BOOLEAN
  BY DEF InFlight
<1>3. Working' = [Working EXCEPT ![d] = InFlight(d)']
  BY <1>1 DEF Working
<1>4. QED
  BY <1>2, <1>3

LEMMA PromiseInit == Init => Promise!PromiseInit
<1> SUFFICES ASSUME Init PROVE Promise!PromiseInit
  OBVIOUS
<1>1. \A c \in Chains : InFlight(c) = FALSE
  BY DEF Init, InFlight
<1>2. QED
  BY <1>1 DEF Init, Promise!PromiseInit

(* Every step of a chain is a step of its promise, or one it cannot see.   *)
LEMMA PromiseStep ==
  TypeInv /\ [Next]_vars => [Promise!PromiseNext]_(Promise!pvars)
<1> SUFFICES ASSUME TypeInv, [Next]_vars
             PROVE  Promise!PromiseNext \/ UNCHANGED Promise!pvars
  OBVIOUS
<1> DEFINE cancelling == [c \in Chains |-> deleting[c] = "stamp"]
<1>a. ASSUME UNCHANGED <<slot, pc, at, deleting>> PROVE UNCHANGED Promise!pvars
  BY <1>a, WorkingSame DEF Promise!pvars, Working
<1>1. ASSUME NEW c \in Chains, Submit(c) PROVE UNCHANGED Promise!pvars
  BY <1>1, <1>a DEF Submit
<1>2. ASSUME NEW c \in Chains, DeleteCheck(c) PROVE Promise!CancelBegins(c) \/ Promise!CancelEnds(c)
  <2>1. Working' = Working /\ slot' = slot
    BY <1>2, WorkingSame DEF DeleteCheck
  <2>2. CASE slot[c].status \in {"done", "failed"}
    <3>1. cancelling' = [cancelling EXCEPT ![c] = FALSE]
      BY <1>2, <2>2 DEF DeleteCheck, TypeInv, TypeOK
    <3>2. QED
      BY <2>1, <3>1 DEF Promise!CancelEnds, Working
  <2>3. CASE slot[c].status \notin {"done", "failed"}
    <3>1. cancelling' = [cancelling EXCEPT ![c] = TRUE]
      BY <1>2, <2>3 DEF DeleteCheck, TypeInv, TypeOK
    <3>2. QED
      BY <2>1, <2>3, <3>1 DEF Promise!CancelBegins, Working
  <2>4. QED
    BY <2>2, <2>3
<1>3. ASSUME NEW c \in Chains, DeleteStamp(c) PROVE Promise!CancelSettles(c)
  <2>1. Working' = Working
    BY <1>3, WorkingSame DEF DeleteStamp
  <2>2. cancelling[c] /\ cancelling' = [cancelling EXCEPT ![c] = FALSE]
    BY <1>3 DEF DeleteStamp, TypeInv, TypeOK
  <2>3. QED
    BY <1>3, <2>1, <2>2 DEF DeleteStamp, Promise!CancelSettles, Working
<1>4. ASSUME NEW c \in Chains, DeleteRows(c) \/ DeleteDies(c) PROVE Promise!CancelEnds(c)
  <2>1. Working' = Working /\ slot' = slot
    BY <1>4, WorkingSame DEF DeleteRows, DeleteDies
  <2>2. cancelling' = [cancelling EXCEPT ![c] = FALSE]
    BY <1>4 DEF DeleteRows, DeleteDies, TypeInv, TypeOK
  <2>3. QED
    BY <2>1, <2>2 DEF Promise!CancelEnds, Working
<1>5. ASSUME NEW w \in Workers, Claim(w) PROVE UNCHANGED Promise!pvars
  <2>1. \A c \in Chains : InFlight(c)' = InFlight(c)
    BY <1>5 DEF Claim, InFlight, TypeInv, TypeOK
  <2>2. QED
    BY <1>5, <2>1 DEF Claim, Promise!pvars
<1>6. ASSUME NEW w \in Workers, CheckSlot(w)
      PROVE  Promise!HopBegins(at[w][1]) \/ UNCHANGED Promise!pvars
  <2>1. at[w][1] \in Chains
    BY <1>6, JobType DEF CheckSlot, TypeInv, BusyHolds, Busy
  <2>2. PICK c \in Chains : c = at[w][1]
    BY <2>1
  <2>3. slot[c].status \in {"none", "done", "failed", "cancelled"}
    BY DEF TypeInv, TypeOK, Record
  <2>4. CASE Terminal(slot[c])
    <3>1. \A d \in Chains : InFlight(d)' = InFlight(d)
      BY <1>6, <2>2, <2>4 DEF CheckSlot, InFlight, TypeInv, TypeOK
    <3>2. QED
      BY <1>6, <3>1 DEF CheckSlot, Promise!pvars
  <2>5. CASE ~Terminal(slot[c])
    <3>1. slot[c] = NoRecord
      BY <2>3, <2>5 DEF Terminal, TypeInv, BlankRecords
    <3>2. pc' = [pc EXCEPT ![w] = "executing"] /\ at' = at
      BY <1>6, <2>2, <2>5 DEF CheckSlot
    <3>3. \A d \in Chains : d # c => InFlight(d)' = InFlight(d)
      BY <2>2, <3>2, <1>6 DEF CheckSlot, InFlight, TypeInv, TypeOK
    <3>4. InFlight(c)' = TRUE
      BY <2>2, <3>2 DEF InFlight, TypeInv, TypeOK
    <3>5. Working' = [Working EXCEPT ![c] = TRUE]
      BY <3>3, <3>4 DEF Working
    <3>6. QED
      BY <1>6, <2>2, <3>1, <3>5 DEF CheckSlot, Promise!HopBegins, Working
  <2>6. QED
    BY <2>4, <2>5
<1>7. ASSUME NEW w \in Workers, HopRaises(w) \/ HopFinishes(w) PROVE Promise!HopSettles(at[w][1])
  <2> DEFINE c == at[w][1]
  <2>1. at[w] \in Jobs /\ c \in Chains
    BY <1>7, JobType DEF HopRaises, HopFinishes, TypeInv, BusyHolds, Busy
  <2>2. PICK r \in {a \in Record : a.status \in {"done", "failed"}} : slot' = [slot EXCEPT ![c] = r]
    <3>1. CASE HopRaises(w)
      <4>1. [status |-> "failed", hops |-> carried[at[w]]] \in Record
        BY <2>1 DEF Record, TypeInv, TypeOK
      <4>2. QED
        BY <3>1, <4>1 DEF HopRaises
    <3>2. CASE HopFinishes(w)
      <4>1. PICK k \in HopKinds :
              slot' = [slot EXCEPT ![c] = [status |-> "done", hops |-> HopsAfter(w, k)]]
        BY <3>2 DEF HopFinishes
      <4>2. [status |-> "done", hops |-> HopsAfter(w, k)] \in Record
        BY <2>1, HopsAfterType DEF Record, TypeInv
      <4>3. QED
        BY <4>1, <4>2
    <3>3. QED
      BY <1>7, <3>1, <3>2
  <2>3. slot'[c] = r /\ slot' = [slot EXCEPT ![c] = slot'[c]]
    BY <2>1, <2>2 DEF TypeInv, TypeOK
  <2>4. Working[c] /\ \E b \in BOOLEAN : Working' = [Working EXCEPT ![c] = b]
    <3>1. \A v \in Workers : v # w => pc'[v] = pc[v] /\ at'[v] = at[v]
      BY <1>7 DEF HopRaises, HopFinishes, TypeInv, TypeOK
    <3>2. pc[w] = "executing" /\ at' = at
      BY <1>7 DEF HopRaises, HopFinishes
    <3>3. Working[c]
      BY <2>1, <3>2 DEF Working, InFlight
    <3>4. QED
      BY <2>1, <3>1, <3>2, <3>3, WorkingElsewhere
  <2>5. deleting' = deleting
    BY <1>7 DEF HopRaises, HopFinishes
  <2>6. QED
    BY <2>2, <2>3, <2>4, <2>5 DEF Promise!HopSettles, Working
<1>8. ASSUME NEW w \in Workers,
             pc[w] = "executing", at[w] \in Jobs,
             \A v \in Workers : v # w => pc'[v] = pc[v] /\ at'[v] = at[v],
             pc'[w] # "executing", UNCHANGED <<slot, deleting>>
      PROVE  Promise!HopEnds(at[w][1]) \/ UNCHANGED Promise!pvars
  <2> DEFINE c == at[w][1]
  <2>1. c \in Chains
    BY <1>8, JobType
  <2>2. PICK b \in BOOLEAN : Working' = [Working EXCEPT ![c] = b]
    BY <1>8, <2>1, WorkingElsewhere
  <2>3. CASE b = FALSE
    BY <1>8, <2>2, <2>3 DEF Promise!HopEnds, Working
  <2>4. CASE b = TRUE
    <3>1. Working[c] = TRUE
      BY <1>8, <2>1 DEF Working, InFlight
    <3>2. Working' = Working
      BY <2>1, <2>2, <2>4, <3>1 DEF Working
    <3>3. QED
      BY <1>8, <3>2 DEF Promise!pvars, Working
  <2>5. QED
    BY <2>2, <2>3, <2>4
<1>9. ASSUME NEW w \in Workers, HopDelegates(w)
      PROVE  Promise!HopEnds(at[w][1]) \/ UNCHANGED Promise!pvars
  <2>1. pc[w] = "executing" /\ at[w] \in Jobs
    BY <1>9 DEF HopDelegates, TypeInv, BusyHolds, Busy
  <2>2. pc'[w] = "returning" /\ \A v \in Workers : v # w => pc'[v] = pc[v] /\ at'[v] = at[v]
    BY <1>9 DEF HopDelegates, TypeInv, TypeOK
  <2>3. QED
    BY <1>9, <1>8, <2>1, <2>2 DEF HopDelegates
<1>10. ASSUME NEW w \in Workers, pc[w] # "executing",
              \A v \in Workers : v # w => pc'[v] = pc[v] /\ at'[v] = at[v],
              pc'[w] # "executing", UNCHANGED <<slot, deleting>>
       PROVE  UNCHANGED Promise!pvars
  <2>1. \A d \in Chains : InFlight(d)' = InFlight(d)
    BY <1>10 DEF InFlight
  <2>2. QED
    BY <1>10, <2>1 DEF Promise!pvars
<1>11. ASSUME NEW w \in Workers, RefreshWiki(w) \/ Complete(w) PROVE UNCHANGED Promise!pvars
  BY <1>11, <1>10 DEF RefreshWiki, Complete, TypeInv, TypeOK
<1>12. ASSUME NEW w \in Workers, WorkerDies(w)
       PROVE  (\E c \in Chains : Promise!HopEnds(c)) \/ UNCHANGED Promise!pvars
  <2>1. /\ pc'[w] = "stopped" /\ \A v \in Workers : v # w => pc'[v] = pc[v] /\ at'[v] = at[v]
        /\ UNCHANGED <<slot, deleting>>
    BY <1>12 DEF WorkerDies, TypeInv, TypeOK
  <2>2. CASE pc[w] = "executing"
    <3>1. at[w] \in Jobs /\ at[w][1] \in Chains
      BY <2>2, JobType DEF TypeInv, BusyHolds, Busy
    <3>2. QED
      BY <1>8, <2>1, <2>2, <3>1
  <2>3. CASE pc[w] # "executing"
    BY <1>10, <2>1, <2>3
  <2>4. QED
    BY <2>2, <2>3
<1>13. ASSUME NEW j \in Jobs, LeaseExpires(j) PROVE UNCHANGED Promise!pvars
  BY <1>13, <1>a DEF LeaseExpires
<1>14. CASE UNCHANGED vars
  BY <1>14, <1>a DEF vars
<1>15. \A w \in Workers : pc[w] = "executing" \/ pc[w] = "check" => at[w][1] \in Chains
  BY JobType DEF TypeInv, BusyHolds, Busy
<1>16. ASSUME NEW w \in Workers, CheckSlot(w) \/ HandlerEnds(w)
       PROVE  (\E c \in Chains : Promise!HopBegins(c) \/ Promise!HopSettles(c) \/ Promise!HopEnds(c))
                \/ UNCHANGED Promise!pvars
  <2>1. at[w][1] \in Chains
    BY <1>15, <1>16 DEF CheckSlot, HandlerEnds, HopRaises, HopDelegates, HopFinishes
  <2>2. QED
    BY <1>6, <1>7, <1>9, <1>16, <2>1 DEF HandlerEnds
<1> HIDE DEF cancelling
<1>17. QED
  BY <1>1, <1>2, <1>3, <1>4, <1>5, <1>11, <1>12, <1>13, <1>14, <1>16
  DEF Next, Promise!PromiseNext

(* The durable chain of several workers, with its leases, crashes and      *)
(* repeated hops, implements what ChainPromise says to a client.           *)
THEOREM Refinement == Spec => KeepsPromise
<1>1. Spec => [][Promise!PromiseNext]_(Promise!pvars)
  BY TypeInvariant, PromiseStep, PTL DEF Spec
<1>2. QED
  BY PromiseInit, <1>1, PTL DEF Spec, KeepsPromise, Promise!PromiseSpec

-----------------------------------------------------------------------------
(* What the promise is worth to a client: this much follows from it alone. *)

(* Nothing is in flight that could change the answer of chain c. *)
AtRest(c) ==
  /\ Terminal(slot[c]) /\ ~InFlight(c)
  /\ deleting[c] = "stamp" => slot[c] = CancelRecord

(* The answer of a chain at rest is never changed, and the chain stays at  *)
(* rest: no job of it that is run again begins a hop, and no DELETE begins *)
(* on a final record, as that "would erase completed work" (cancel_chain). *)
AnswerStays ==
  [][\A c \in Chains : AtRest(c) => AtRest(c)' /\ slot'[c] = slot[c]]_vars

LEMMA RestStep ==
  ASSUME TypeInv, [Promise!PromiseNext]_(Promise!pvars), NEW c \in Chains, AtRest(c)
  PROVE  AtRest(c)' /\ slot'[c] = slot[c]
<1> DEFINE cancelling == [d \in Chains |-> deleting[d] = "stamp"]
           Final == {a \in Record : a.status \in {"done", "failed"}}
           Kept == /\ slot'[c] = slot[c] /\ Working'[c] = FALSE
                   /\ cancelling'[c] => cancelling[c] \/ slot[c] = CancelRecord
<1>1. /\ slot \in [Chains -> Record] /\ Working[c] = FALSE /\ slot[c] # NoRecord
      /\ slot[c] \in Final \/ slot[c] = CancelRecord
  <2>1. slot \in [Chains -> Record] /\ slot[c].status \in {"done", "failed", "cancelled"}
    BY DEF TypeInv, TypeOK, AtRest, Terminal
  <2>2. Working[c] = FALSE
    BY DEF AtRest, Working, InFlight
  <2>3. QED
    BY <2>1, <2>2 DEF TypeInv, BlankRecords, NoRecord
<1>2. Kept
  <2>1. CASE UNCHANGED Promise!pvars
    BY <1>1, <2>1 DEF Promise!pvars, Working
  <2>2. ASSUME NEW d \in Chains, Promise!HopBegins(d) PROVE Kept
    BY <1>1, <2>2 DEF Promise!HopBegins, Working
  <2>3. ASSUME NEW d \in Chains, Promise!HopSettles(d) PROVE Kept
    BY <1>1, <2>3 DEF Promise!HopSettles, Working
  <2>4. ASSUME NEW d \in Chains, Promise!HopEnds(d) PROVE Kept
    BY <1>1, <2>4 DEF Promise!HopEnds, Working
  <2>5. ASSUME NEW d \in Chains, Promise!CancelBegins(d) PROVE Kept
    BY <1>1, <2>5 DEF Promise!CancelBegins, Working
  <2>6. ASSUME NEW d \in Chains, Promise!CancelSettles(d) PROVE Kept
    BY <1>1, <2>6 DEF Promise!CancelSettles, Working, AtRest
  <2>7. ASSUME NEW d \in Chains, Promise!CancelEnds(d) PROVE Kept
    BY <1>1, <2>7 DEF Promise!CancelEnds, Working
  <2>8. QED
    BY <2>1, <2>2, <2>3, <2>4, <2>5, <2>6, <2>7 DEF Promise!PromiseNext
<1>3. QED
  BY <1>2 DEF AtRest, Working

(* Once nothing is in flight that could answer a chain, its answer is      *)
(* final, whatever crashes and is run again.                               *)
THEOREM AnswersStay == Spec => AnswerStays
<1> DEFINE Rests == \A c \in Chains : AtRest(c) => AtRest(c)' /\ slot'[c] = slot[c]
<1>1. TypeInv /\ [Next]_vars => Rests
  BY PromiseStep, RestStep
<1>2. TypeInv /\ [Next]_vars => [Rests]_vars
  BY <1>1
<1> HIDE DEF Rests
<1>3. Spec => [][Rests]_vars
  BY <1>2, TypeInvariant, PTL DEF Spec
<1>4. QED
  BY <1>3 DEF Rests, AnswerStays

-----------------------------------------------------------------------------
(* While no process died.                                                  *)

Used(c, s) == rows[<<c, s>>].status # "free"

\* it may still run the hop it holds
Starting(w) == pc[w] \in {"check", "executing"}

(* No worker is gone, no two hold one job, and no lease ran out: a job     *)
(* that is held is not there to claim.                                     *)
OwnJobs ==
  /\ \A w \in Workers : /\ pc[w] # "stopped"
                        /\ pc[w] \in Busy => rows[at[w]].status \in {"running", "cancelled"}
  /\ \A v, w \in Workers : v # w /\ pc[v] \in Busy /\ pc[w] \in Busy => at[v] # at[w]
  /\ \A j \in Jobs : rows[j].status = "running" => rows[j].lease > 0

(* Once a step is enqueued the steps before it are past running.           *)
PastSteps ==
  \A c \in Chains, s, t \in Steps :
    s < t /\ Used(c, t) =>
      /\ rows[<<c, s>>].status \notin {"free", "queued"}
      /\ \A w \in Workers : Starting(w) => at[w] # <<c, s>>

Over(c) ==
  /\ Used(c, 0)
  /\ \A s \in Steps : rows[<<c, s>>].status # "queued"
  /\ \A w \in Workers : Starting(w) => at[w][1] # c

Refreshing(c) == c \in wiki \/ \E w \in Workers : pc[w] = "wiki" /\ at[w][1] = c

(* A chain with an outcome, or on its way to the wiki, runs no more hops.  *)
EndsOnce ==
  \A c \in Chains : /\ slot[c].status \in {"done", "failed"} => Over(c)
                    /\ Refreshing(c) => Over(c) /\ slot[c].status # "failed"

(* A step was given one output for each step before it, the same ones.     *)
CarriedOn ==
  \A c \in Chains, s \in Steps :
    Used(c, s) =>
      /\ Len(carried[<<c, s>>]) = s
      /\ \A t \in Steps : t < s =>
           \A i \in 1..t : carried[<<c, s>>][i] = carried[<<c, t>>][i]

Quiet == OwnJobs /\ PastSteps /\ EndsOnce /\ CarriedOn /\ OneOutputPerHop
QuietInv == crashes = 0 => Quiet

LEMMA QuietInit == Init => QuietInv
<1> SUFFICES ASSUME Init PROVE Quiet
  BY DEF QuietInv
<1>1. \A j \in Jobs : rows[j].status = "free"
  BY DEF Init, RowOf
<1>2. \A c \in Chains, s \in Steps : ~Used(c, s)
  BY <1>1 DEF Used, Jobs
<1>3. OwnJobs
  BY <1>1 DEF OwnJobs, Init, Busy
<1>4. PastSteps /\ CarriedOn /\ OneOutputPerHop
  BY <1>2 DEF PastSteps, CarriedOn, OneOutputPerHop, Used
<1>5. EndsOnce
  BY DEF EndsOnce, Refreshing, Init, NoRecord
<1>6. QED
  BY <1>3, <1>4, <1>5 DEF Quiet

(* Nothing that leaves the rows, the jobs' payloads and the workers alone  *)
(* disturbs more than the record.                                          *)
LEMMA QuietSubmit ==
  ASSUME TypeInv, Quiet, NEW c \in Chains, Submit(c)
  PROVE  Quiet'
<1> USE DEF TypeInv, BusyHolds, Used, Starting
<1>1. 0 \in Steps
  BY ChainAssumption DEF Steps
<1>2. /\ rows' = [rows EXCEPT ![<<c, 0>>] = Inserted(HopRequest(c, 0))]
      /\ carried' = [carried EXCEPT ![<<c, 0>>] = <<>>]
      /\ UNCHANGED <<slot, wiki, pc, at>> /\ ~Used(c, 0)
  BY DEF Submit, EnqueueHop
<1>3. \A t \in Steps : ~Used(c, t)
  BY <1>1, <1>2 DEF Quiet, PastSteps, Steps
<1>4. /\ rows'[<<c, 0>>].status = "queued" /\ carried'[<<c, 0>>] = <<>>
      /\ \A j \in Jobs : j # <<c, 0>> => rows'[j] = rows[j] /\ carried'[j] = carried[j]
  BY <1>1, <1>2 DEF TypeOK, Inserted, RowOf, Jobs
<1>5. OwnJobs'
  BY <1>2, <1>4 DEF Quiet, OwnJobs, TypeOK, Busy
<1>6. PastSteps'
  BY <1>1, <1>2, <1>3, <1>4 DEF Quiet, PastSteps, Steps, Jobs
<1>7. EndsOnce'
  <2>1. \A d \in Chains : Over(d) => Over(d)'
    BY <1>1, <1>2, <1>4 DEF Over, Jobs
  <2>2. \A d \in Chains : Refreshing(d)' = Refreshing(d) /\ slot'[d] = slot[d]
    BY <1>2 DEF Refreshing
  <2>3. QED
    BY <2>1, <2>2 DEF Quiet, EndsOnce
<1>8. CarriedOn'
  BY <1>1, <1>2, <1>3, <1>4 DEF Quiet, CarriedOn, Steps, Jobs
<1>9. OneOutputPerHop'
  BY <1>2, <1>3, <1>4 DEF Quiet, OneOutputPerHop, Jobs
<1>10. QED
  BY <1>5, <1>6, <1>7, <1>8, <1>9 DEF Quiet

LEMMA QuietStamp ==
  ASSUME TypeInv, Quiet, NEW c \in Chains, DeleteStamp(c)
  PROVE  Quiet'
<1>1. /\ UNCHANGED <<rows, carried, wiki, pc, at>>
      /\ slot'[c].status = "cancelled" /\ slot'[c].hops = <<>>
      /\ \A d \in Chains : d # c => slot'[d] = slot[d]
  BY DEF DeleteStamp, TypeInv, TypeOK, CancelRecord
<1>2. OwnJobs' /\ PastSteps' /\ CarriedOn'
  BY <1>1 DEF Quiet, OwnJobs, PastSteps, CarriedOn, Used, Starting
<1>3. EndsOnce'
  BY <1>1 DEF Quiet, EndsOnce, Over, Refreshing, Used, Starting
<1>4. OneOutputPerHop'
  <2> SUFFICES ASSUME NEW d \in Chains, NEW s \in Steps,
                      s > 0, rows'[<<d, s>>].status # "free", s <= Len(slot'[d].hops)
               PROVE  slot'[d].hops[s] = carried'[<<d, s>>][s]
    BY DEF OneOutputPerHop
  <2>1. Len(slot'[c].hops) = 0 /\ s \in Nat
    BY <1>1 DEF Steps
  <2>2. d # c
    BY <2>1
  <2>3. QED
    BY <1>1, <2>2 DEF Quiet, OneOutputPerHop
<1>5. QED
  BY <1>2, <1>3, <1>4 DEF Quiet

LEMMA QuietRows ==
  ASSUME TypeInv, Quiet, NEW c \in Chains, DeleteRows(c)
  PROVE  Quiet'
<1>1. /\ UNCHANGED <<carried, slot, wiki, pc, at>>
      /\ \A j \in Jobs : \/ rows'[j] = rows[j]
                         \/ rows[j].status \in Live /\ rows'[j].status = "cancelled"
  BY DEF DeleteRows, Cancellable, Cancelled, Unlocked, RowOf
<1>2. \A d \in Chains, s \in Steps : Used(d, s)' = Used(d, s)
  BY <1>1 DEF Used, Jobs, Live
<1>3. OwnJobs'
  BY <1>1 DEF Quiet, OwnJobs, TypeInv, BusyHolds
<1>4. PastSteps'
  BY <1>1, <1>2 DEF Quiet, PastSteps, Starting, Jobs
<1>5. EndsOnce'
  <2>1. 0 \in Steps
    BY ChainAssumption DEF Steps
  <2>2. QED
    BY <2>1, <1>1, <1>2 DEF Quiet, EndsOnce, Over, Refreshing, Starting, Jobs
<1>6. CarriedOn' /\ OneOutputPerHop'
  BY <1>1, <1>2 DEF Quiet, CarriedOn, OneOutputPerHop, Used
<1>7. QED
  BY <1>3, <1>4, <1>5, <1>6 DEF Quiet

LEMMA QuietClaim ==
  ASSUME TypeInv, Quiet, NEW w \in Workers, Claim(w)
  PROVE  Quiet'
<1> USE DEF TypeInv, BusyHolds, Used, Starting
<1>1. PICK j \in Jobs : /\ Ready(rows[j])
                        /\ rows' = [rows EXCEPT ![j] = Claimed(@, w)]
                        /\ at' = [at EXCEPT ![w] = j]
  BY DEF Claim
<1>2. rows[j].status = "queued"
  <2>1. ~Expired(rows[j])
    BY DEF Quiet, OwnJobs, Expired
  <2>2. QED
    BY <1>1, <2>1 DEF Ready
<1>3. /\ rows'[j].status = "running" /\ rows'[j].lease = 1
      /\ \A i \in Jobs : i # j => rows'[i] = rows[i]
      /\ pc' = [pc EXCEPT ![w] = "check"] /\ pc[w] = "idle"
      /\ UNCHANGED <<carried, slot, wiki>>
  BY <1>1 DEF Claim, TypeOK, Claimed, RowOf
<1>4. \A d \in Chains, s \in Steps : Used(d, s)' = Used(d, s)
  BY <1>2, <1>3 DEF Jobs
<1>5. \A v \in Workers : pc[v] \in Busy => at[v] # j
  BY <1>2 DEF Quiet, OwnJobs
<1>6. /\ pc'[w] = "check" /\ at'[w] = j
      /\ \A v \in Workers : v # w => pc'[v] = pc[v] /\ at'[v] = at[v]
  BY <1>1, <1>3 DEF TypeOK
<1>7. OwnJobs'
  BY <1>3, <1>5, <1>6 DEF Quiet, OwnJobs, Busy
<1>8. PastSteps'
  <2> SUFFICES ASSUME NEW c \in Chains, NEW s \in Steps, NEW t \in Steps, s < t, Used(c, t)'
               PROVE  /\ rows'[<<c, s>>].status \notin {"free", "queued"}
                      /\ \A v \in Workers : Starting(v)' => at'[v] # <<c, s>>
    BY DEF PastSteps
  <2>1. /\ rows[<<c, s>>].status \notin {"free", "queued"}
        /\ \A v \in Workers : Starting(v) => at[v] # <<c, s>>
    BY <1>4 DEF Quiet, PastSteps
  <2>2. <<c, s>> # j
    BY <1>2, <2>1
  <2>3. QED
    BY <1>3, <1>6, <2>1, <2>2 DEF Jobs
<1>9. EndsOnce'
  <2>1. \A d \in Chains : Over(d) => d # j[1]
    BY <1>2, JobType DEF Over
  <2>2. 0 \in Steps
    BY ChainAssumption DEF Steps
  <2>3. \A d \in Chains : Over(d) => Over(d)'
    BY <1>3, <1>4, <1>6, <2>1, <2>2 DEF Over, Jobs
  <2>4. \A d \in Chains : Refreshing(d)' = Refreshing(d) /\ slot'[d] = slot[d]
    BY <1>3, <1>6 DEF Refreshing
  <2>5. QED
    BY <2>3, <2>4 DEF Quiet, EndsOnce
<1>10. CarriedOn' /\ OneOutputPerHop'
  BY <1>3, <1>4 DEF Quiet, CarriedOn, OneOutputPerHop
<1>11. QED
  BY <1>7, <1>8, <1>9, <1>10 DEF Quiet

(* What only lets a worker past its hop, and leaves the rows alone.        *)
LEMMA WorkerMovesOn ==
  ASSUME TypeInv, Quiet, NEW w \in Workers, pc[w] \in Busy,
         pc'[w] \in Busy \ {"check"}, pc'[w] = "executing" => pc[w] = "check",
         \A v \in Workers : v # w => pc'[v] = pc[v],
         UNCHANGED <<rows, carried, at>>
  PROVE  /\ OwnJobs' /\ PastSteps' /\ CarriedOn'
         /\ \A c \in Chains : Over(c) => Over(c)'
<1>1. \A v \in Workers : Starting(v)' => Starting(v)
  BY DEF Starting, Busy
<1>2. OwnJobs'
  BY DEF Quiet, OwnJobs, Busy
<1>3. PastSteps' /\ CarriedOn'
  BY <1>1 DEF Quiet, PastSteps, CarriedOn, Used
<1>4. \A c \in Chains : Over(c) => Over(c)'
  BY <1>1 DEF Over, Used
<1>5. QED
  BY <1>2, <1>3, <1>4

LEMMA QuietCheck ==
  ASSUME TypeInv, Quiet, NEW w \in Workers, CheckSlot(w)
  PROVE  Quiet'
<1>1. /\ pc[w] = "check" /\ pc'[w] \in {"returning", "executing"}
      /\ \A v \in Workers : v # w => pc'[v] = pc[v]
      /\ UNCHANGED <<rows, carried, slot, wiki, at>>
  BY DEF CheckSlot, TypeInv, TypeOK
<1>2. /\ OwnJobs' /\ PastSteps' /\ CarriedOn'
      /\ \A c \in Chains : Over(c) => Over(c)'
  BY <1>1, WorkerMovesOn DEF Busy
<1>3. \A c \in Chains : Refreshing(c)' = Refreshing(c)
  BY <1>1 DEF Refreshing
<1>4. EndsOnce' /\ OneOutputPerHop'
  BY <1>1, <1>2, <1>3 DEF Quiet, EndsOnce, OneOutputPerHop
<1>5. QED
  BY <1>2, <1>4 DEF Quiet

LEMMA QuietRefresh ==
  ASSUME TypeInv, Quiet, NEW w \in Workers, RefreshWiki(w)
  PROVE  Quiet'
<1>1. /\ pc[w] = "wiki" /\ pc'[w] = "returning"
      /\ \A v \in Workers : v # w => pc'[v] = pc[v]
      /\ UNCHANGED <<rows, carried, slot, at>> /\ wiki' = wiki \union {at[w][1]}
  BY DEF RefreshWiki, TypeInv, TypeOK
<1>2. /\ OwnJobs' /\ PastSteps' /\ CarriedOn'
      /\ \A c \in Chains : Over(c) => Over(c)'
  BY <1>1, WorkerMovesOn DEF Busy
<1>3. \A c \in Chains : Refreshing(c)' => Refreshing(c)
  BY <1>1 DEF Refreshing
<1>4. EndsOnce' /\ OneOutputPerHop'
  BY <1>1, <1>2, <1>3 DEF Quiet, EndsOnce, OneOutputPerHop
<1>5. QED
  BY <1>2, <1>4 DEF Quiet

(* A worker that may still run its hop is the only one of its chain, at    *)
(* the last step enqueued; the chain has no outcome yet.                   *)
LEMMA LastStep ==
  ASSUME TypeInv, Quiet, NEW w \in Workers, Starting(w),
         NEW c \in Chains, NEW s \in Steps, at[w] = <<c, s>>
  PROVE  /\ Used(c, s) /\ rows[<<c, s>>].status # "queued"
         /\ \A t \in Steps : t > s => ~Used(c, t)
         /\ \A t \in Steps : t < s => rows[<<c, t>>].status \notin {"free", "queued"}
         /\ \A v \in Workers : v # w /\ Starting(v) => at[v][1] # c
         /\ Len(carried[<<c, s>>]) = s
         /\ \A t \in Steps : t < s =>
              \A i \in 1..t : carried[<<c, s>>][i] = carried[<<c, t>>][i]
         /\ slot[c].hops = <<>> /\ ~Refreshing(c)
<1>1. Used(c, s) /\ rows[<<c, s>>].status # "queued"
  BY DEF Quiet, OwnJobs, Used, Starting, Busy
<1>2. \A t \in Steps : t > s => ~Used(c, t)
  BY DEF Quiet, PastSteps, Steps
<1>3. \A t \in Steps : t < s => /\ rows[<<c, t>>].status \notin {"free", "queued"}
                                /\ \A v \in Workers : Starting(v) => at[v] # <<c, t>>
  BY <1>1 DEF Quiet, PastSteps
<1>4. ASSUME NEW v \in Workers, v # w, Starting(v), at[v][1] = c PROVE FALSE
  <2>1. PICK t \in Steps : at[v] = <<c, t>>
    BY <1>4, JobType DEF TypeInv, BusyHolds, Busy, Starting
  <2>2. t # s
    BY <1>4, <2>1 DEF Quiet, OwnJobs, Starting, Busy
  <2>3. Used(c, t)
    BY <1>4, <2>1 DEF Quiet, OwnJobs, Used, Starting, Busy
  <2>4. ~(t < s) /\ ~(t > s)
    BY <1>2, <1>3, <1>4, <2>1, <2>3
  <2>5. QED
    BY <2>2, <2>4 DEF Steps
<1>5. /\ Len(carried[<<c, s>>]) = s
      /\ \A t \in Steps : t < s =>
           \A i \in 1..t : carried[<<c, s>>][i] = carried[<<c, t>>][i]
  BY <1>1 DEF Quiet, CarriedOn
<1>6. ~Over(c)
  BY DEF Over
<1>7. slot[c].hops = <<>> /\ ~Refreshing(c)
  <2>1. slot[c].status \notin {"done", "failed"} /\ ~Refreshing(c)
    BY <1>6 DEF Quiet, EndsOnce
  <2>2. slot[c].status \in {"none", "cancelled"}
    BY <2>1 DEF TypeInv, TypeOK, Record
  <2>3. QED
    BY <2>1, <2>2 DEF TypeInv, BlankRecords, NoRecord, CancelRecord
<1>8. QED
  BY <1>1, <1>2, <1>3, <1>4, <1>5, <1>7

(* The end of a chain: the last step's worker stores a record that agrees  *)
(* with what that step was given, and lets the hop go.                     *)
LEMMA QuietSettles ==
  ASSUME TypeInv, Quiet, NEW w \in Workers, pc[w] = "executing",
         NEW c \in Chains, NEW s \in Steps, at[w] = <<c, s>>,
         NEW r \in Record, slot' = [slot EXCEPT ![c] = r],
         \A i \in 1..s : r.hops[i] = carried[<<c, s>>][i],
         pc'[w] \in {"wiki", "returning"}, pc'[w] = "wiki" => r.status = "done",
         \A v \in Workers : v # w => pc'[v] = pc[v],
         UNCHANGED <<rows, carried, at, wiki>>
  PROVE  Quiet'
<1> USE DEF TypeInv
<1>1. Starting(w)
  BY DEF Starting
<1>2. OwnJobs' /\ PastSteps' /\ CarriedOn' /\ \A d \in Chains : Over(d) => Over(d)'
  BY WorkerMovesOn DEF Busy
<1>3. slot'[c] = r /\ \A d \in Chains : d # c => slot'[d] = slot[d]
  BY DEF TypeOK
<1>4. Over(c)'
  <2>1. 0 \in Steps /\ s \in Nat /\ \A t \in Steps : t \in Nat
    BY ChainAssumption DEF Steps
  <2>2. \A t \in Steps : rows[<<c, t>>].status # "queued"
    BY <1>1, <2>1, LastStep DEF Used
  <2>3. Used(c, 0)
    BY <1>1, <2>1, LastStep DEF Used
  <2>4. \A v \in Workers : Starting(v)' => at[v][1] # c
    BY <1>1, LastStep DEF Starting
  <2>5. QED
    BY <2>2, <2>3, <2>4 DEF Over, Used
<1>5. EndsOnce'
  <2> SUFFICES ASSUME NEW d \in Chains
               PROVE  /\ slot'[d].status \in {"done", "failed"} => Over(d)'
                      /\ Refreshing(d)' => Over(d)' /\ slot'[d].status # "failed"
    BY DEF EndsOnce
  <2>1. CASE d = c
    <3>1. ~Refreshing(c)
      BY <1>1, LastStep
    <3>2. Refreshing(c)' => pc'[w] = "wiki"
      BY <3>1 DEF Refreshing
    <3>3. QED
      BY <2>1, <1>3, <1>4, <3>2
  <2>2. CASE d # c
    <3>1. Refreshing(d)' = Refreshing(d)
      BY <2>2 DEF Refreshing
    <3>2. QED
      BY <2>2, <1>2, <1>3, <3>1 DEF Quiet, EndsOnce
  <2>3. QED
    BY <2>1, <2>2
<1>6. OneOutputPerHop'
  <2> SUFFICES ASSUME NEW d \in Chains, NEW t \in Steps,
                      t > 0, Used(d, t), t <= Len(slot'[d].hops)
               PROVE  slot'[d].hops[t] = carried[<<d, t>>][t]
    BY DEF OneOutputPerHop, Used
  <2>1. CASE d # c
    BY <1>3, <2>1 DEF Quiet, OneOutputPerHop, Used
  <2>2. CASE d = c
    <3>1. t <= s /\ t \in Nat /\ s \in Nat
      BY <1>1, <2>2, LastStep DEF Steps
    <3>2. t \in 1..s
      BY <3>1
    <3>3. slot'[d].hops[t] = carried[<<c, s>>][t]
      BY <1>3, <2>2, <3>2
    <3>4. carried[<<c, s>>][t] = carried[<<c, t>>][t]
      BY <1>1, <3>1, LastStep
    <3>5. QED
      BY <2>2, <3>3, <3>4
  <2>3. QED
    BY <2>1, <2>2
<1>7. QED
  BY <1>2, <1>5, <1>6 DEF Quiet

LEMMA QuietEnds ==
  ASSUME TypeInv, Quiet, NEW w \in Workers, HopRaises(w) \/ HopFinishes(w)
  PROVE  Quiet'
<1>1. pc[w] = "executing" /\ at[w] \in Jobs
  BY DEF HopRaises, HopFinishes, TypeInv, BusyHolds, Busy
<1>2. PICK c \in Chains, s \in Steps : at[w] = <<c, s>>
  BY <1>1, JobType
<1>3. Len(carried[<<c, s>>]) = s
  BY <1>1, <1>2, LastStep DEF Starting
<1>4. /\ UNCHANGED <<rows, carried, at, wiki>>
      /\ \A v \in Workers : v # w => pc'[v] = pc[v]
  BY DEF HopRaises, HopFinishes, TypeInv, TypeOK
<1>5. CASE HopRaises(w)
  <2> DEFINE r == [status |-> "failed", hops |-> carried[<<c, s>>]]
  <2>1. r \in Record /\ slot' = [slot EXCEPT ![c] = r] /\ pc'[w] = "returning"
    BY <1>1, <1>2, <1>5 DEF HopRaises, Record, TypeInv, TypeOK
  <2>2. \A i \in 1..s : r.hops[i] = carried[<<c, s>>][i]
    OBVIOUS
  <2>3. QED
    BY <1>1, <1>2, <1>4, <2>1, <2>2, QuietSettles
<1>6. CASE HopFinishes(w)
  <2>0. PICK k \in HopKinds :
          /\ slot' = [slot EXCEPT ![at[w][1]] = [status |-> "done", hops |-> HopsAfter(w, k)]]
          /\ pc' = [pc EXCEPT ![w] = IF WantsRefresh(HopsAfter(w, k)) THEN "wiki"
                                                                     ELSE "returning"]
    BY <1>6 DEF HopFinishes
  <2>1. /\ slot' = [slot EXCEPT ![c] = [status |-> "done", hops |-> HopsAfter(w, k)]]
        /\ pc'[w] \in {"wiki", "returning"}
    BY <1>2, <2>0 DEF TypeInv, TypeOK
  <2>2. PICK r : r = [status |-> "done", hops |-> HopsAfter(w, k)]
    OBVIOUS
  <2>3. r \in Record /\ \A i \in 1..s : r.hops[i] = carried[<<c, s>>][i]
    BY <1>1, <1>2, <1>3, <2>2, HopsAfterType DEF Record, TypeInv
  <2>4. QED
    BY <1>1, <1>2, <1>4, <2>1, <2>2, <2>3, QuietSettles
<1>7. QED
  BY <1>5, <1>6

LEMMA QuietDelegates ==
  ASSUME TypeInv, Quiet, NEW w \in Workers, HopDelegates(w)
  PROVE  Quiet'
<1> USE DEF TypeInv
<1>1. pc[w] = "executing" /\ at[w] \in Jobs /\ Starting(w)
  BY DEF HopDelegates, BusyHolds, Busy, Starting
<1>2. PICK c \in Chains, s \in Steps : at[w] = <<c, s>>
  BY <1>1, JobType
<1>3. PICK k \in HopKinds : EnqueueHop(c, s + 1, HopsAfter(w, k))
  BY <1>2 DEF HopDelegates
<1>4. s \in Nat /\ s + 1 \in Steps
  BY <1>2, ChainAssumption DEF HopDelegates, Steps
<1>5. ~Used(c, s + 1)
  BY <1>1, <1>2, <1>4, LastStep
<1>6. PICK hops : /\ hops = HopsAfter(w, k) /\ Len(hops) = s + 1
                  /\ \A i \in 1..s : hops[i] = carried[<<c, s>>][i]
  <2>1. Len(carried[<<c, s>>]) = s
    BY <1>1, <1>2, LastStep
  <2>2. QED
    BY <1>1, <1>2, <2>1, HopsAfterType
<1>7. /\ rows' = [rows EXCEPT ![<<c, s + 1>>] = Inserted(HopRequest(c, s + 1))]
      /\ carried' = [carried EXCEPT ![<<c, s + 1>>] = hops]
  BY <1>3, <1>5, <1>6 DEF EnqueueHop, Used
<1>8. /\ rows'[<<c, s + 1>>].status = "queued" /\ carried'[<<c, s + 1>>] = hops
      /\ \A j \in Jobs : j # <<c, s + 1>> => rows'[j] = rows[j] /\ carried'[j] = carried[j]
  BY <1>4, <1>7 DEF TypeOK, Inserted, RowOf, Jobs
<1>9. /\ pc'[w] = "returning" /\ \A v \in Workers : v # w => pc'[v] = pc[v]
      /\ UNCHANGED <<slot, wiki, at>>
  BY DEF HopDelegates, TypeOK
<1>10. \A v \in Workers : Starting(v)' => Starting(v) /\ at[v][1] # c
  BY <1>1, <1>2, <1>9, LastStep DEF Starting
<1>11. \A d \in Chains, t \in Steps :
         Used(d, t)' <=> Used(d, t) \/ <<d, t>> = <<c, s + 1>>
  BY <1>4, <1>8 DEF Used, Jobs
<1>12. OwnJobs'
  <2>1. \A v \in Workers : pc[v] \in Busy => at[v] \in Jobs /\ at[v] # <<c, s + 1>>
    BY <1>5 DEF Quiet, OwnJobs, BusyHolds, Used
  <2>2. QED
    BY <1>1, <1>8, <1>9, <2>1 DEF Quiet, OwnJobs, Busy
<1>13. PastSteps'
  <2> SUFFICES ASSUME NEW d \in Chains, NEW t \in Steps, NEW u \in Steps, t < u, Used(d, u)'
               PROVE  /\ rows'[<<d, t>>].status \notin {"free", "queued"}
                      /\ \A v \in Workers : Starting(v)' => at'[v] # <<d, t>>
    BY DEF PastSteps
  <2>1. CASE Used(d, u)
    <3>1. /\ rows[<<d, t>>].status \notin {"free", "queued"}
          /\ \A v \in Workers : Starting(v) => at[v] # <<d, t>>
      BY <2>1 DEF Quiet, PastSteps
    <3>2. <<d, t>> # <<c, s + 1>>
      BY <1>5, <3>1 DEF Used
    <3>3. QED
      BY <1>8, <1>9, <1>10, <3>1, <3>2 DEF Jobs
  <2>2. CASE d = c /\ u = s + 1
    <3>1. t <= s /\ t # s + 1 /\ (t = s \/ t < s)
      BY <1>4, <2>2 DEF Steps
    <3>2. rows[<<c, t>>].status \notin {"free", "queued"}
      BY <1>1, <1>2, <3>1, LastStep DEF Used
    <3>3. QED
      BY <1>8, <1>9, <1>10, <2>2, <3>1, <3>2 DEF Jobs
  <2>3. QED
    BY <1>11, <2>1, <2>2
<1>14. EndsOnce'
  <2>1. ~Over(c)
    BY <1>1, <1>2 DEF Over
  <2>2. \A d \in Chains : d # c /\ Over(d) => Over(d)'
    <3>1. 0 \in Steps
      BY ChainAssumption DEF Steps
    <3>2. QED
      BY <1>8, <1>9, <1>10, <1>11, <3>1 DEF Over, Jobs
  <2>3. \A d \in Chains : Refreshing(d)' => Refreshing(d)
    BY <1>9 DEF Refreshing
  <2>4. QED
    BY <1>9, <2>1, <2>2, <2>3 DEF Quiet, EndsOnce
<1>15. CarriedOn'
  <2> SUFFICES ASSUME NEW d \in Chains, NEW t \in Steps, Used(d, t)'
               PROVE  /\ Len(carried'[<<d, t>>]) = t
                      /\ \A u \in Steps : u < t =>
                           \A i \in 1..u : carried'[<<d, t>>][i] = carried'[<<d, u>>][i]
    BY DEF CarriedOn
  <2>1. CASE <<d, t>> # <<c, s + 1>>
    <3>1. Used(d, t)
      BY <1>11, <2>1
    <3>2. \A u \in Steps : u < t => <<d, u>> # <<c, s + 1>>
      BY <1>5, <3>1 DEF Quiet, PastSteps, Used
    <3>3. /\ Len(carried[<<d, t>>]) = t
          /\ \A u \in Steps : u < t =>
               \A i \in 1..u : carried[<<d, t>>][i] = carried[<<d, u>>][i]
      BY <3>1 DEF Quiet, CarriedOn
    <3>4. QED
      BY <1>8, <2>1, <3>2, <3>3 DEF Jobs
  <2>2. CASE d = c /\ t = s + 1
    <3>1. ASSUME NEW u \in Steps, u < t, NEW i \in 1..u
          PROVE  hops[i] = carried'[<<c, u>>][i]
      <4>1. u # s + 1 /\ (u = s \/ u < s) /\ i \in 1..s
        BY <1>4, <2>2, <3>1 DEF Steps
      <4>2. hops[i] = carried[<<c, s>>][i]
        BY <1>6, <4>1
      <4>3. carried[<<c, s>>][i] = carried[<<c, u>>][i]
        BY <1>1, <1>2, <4>1, LastStep
      <4>4. QED
        BY <1>8, <4>1, <4>2, <4>3 DEF Jobs
    <3>2. QED
      BY <1>6, <1>8, <2>2, <3>1
  <2>3. QED
    BY <2>1, <2>2
<1>16. OneOutputPerHop'
  <2> SUFFICES ASSUME NEW d \in Chains, NEW t \in Steps,
                      t > 0, Used(d, t)', t <= Len(slot[d].hops)
               PROVE  slot[d].hops[t] = carried'[<<d, t>>][t]
    BY <1>9 DEF OneOutputPerHop, Used
  <2>1. d # c
    <3>1. Len(slot[c].hops) = 0 /\ t \in Nat
      BY <1>1, <1>2, LastStep DEF Steps
    <3>2. QED
      BY <3>1
  <2>2. QED
    BY <1>8, <1>11, <2>1 DEF Quiet, OneOutputPerHop, Used, Jobs
<1>17. QED
  BY <1>12, <1>13, <1>14, <1>15, <1>16 DEF Quiet

LEMMA QuietComplete ==
  ASSUME TypeInv, Quiet, NEW w \in Workers, Complete(w)
  PROVE  Quiet'
<1> USE DEF TypeInv
<1>1. pc[w] = "returning" /\ at[w] \in Jobs
  BY DEF Complete, BusyHolds, Busy
<1>2. PICK j \in Jobs : j = at[w]
  BY <1>1
<1>3. rows[j].status \in {"running", "cancelled"}
  BY <1>1, <1>2 DEF Quiet, OwnJobs, Busy
<1>4. /\ rows'[j].status = "done"
      /\ \A i \in Jobs : i # j => rows'[i] = rows[i]
      /\ pc'[w] = "idle"
      /\ \A v \in Workers : v # w => pc'[v] = pc[v] /\ at'[v] = at[v]
      /\ UNCHANGED <<carried, slot, wiki>>
  BY <1>2, <1>3 DEF Complete, TypeOK, Completed, Update, Unlocked, RowOf
<1>5. \A d \in Chains, s \in Steps : Used(d, s)' = Used(d, s)
  BY <1>3, <1>4 DEF Used, Jobs
<1>6. \A v \in Workers : Starting(v)' => Starting(v) /\ v # w /\ at'[v] = at[v]
  BY <1>4 DEF Starting
<1>7. OwnJobs'
  BY <1>1, <1>2, <1>4 DEF Quiet, OwnJobs, Busy, BusyHolds
<1>8. PastSteps'
  BY <1>4, <1>5, <1>6 DEF Quiet, PastSteps, Jobs
<1>9. EndsOnce'
  <2>1. \A d \in Chains : Over(d) => Over(d)'
    <3>1. 0 \in Steps
      BY ChainAssumption DEF Steps
    <3>2. QED
      BY <1>4, <1>5, <1>6, <3>1 DEF Over, Jobs
  <2>2. \A d \in Chains : Refreshing(d)' => Refreshing(d)
    BY <1>4 DEF Refreshing
  <2>3. QED
    BY <1>4, <2>1, <2>2 DEF Quiet, EndsOnce
<1>10. CarriedOn' /\ OneOutputPerHop'
  BY <1>4, <1>5 DEF Quiet, CarriedOn, OneOutputPerHop, Used
<1>11. QED
  BY <1>7, <1>8, <1>9, <1>10 DEF Quiet

(* A clock needs a worker that is gone.                                    *)
LEMMA QuietExpires ==
  ASSUME TypeInv, Quiet, NEW j \in Jobs, LeaseExpires(j)
  PROVE  FALSE
<1>1. rows[j].owner \in Workers
  BY DEF LeaseExpires, HasLease, TypeInv, TypeOK, Row
<1>2. QED
  BY <1>1 DEF LeaseExpires, Quiet, OwnJobs

LEMMA QuietStep == TypeInv /\ QuietInv /\ [Next]_vars => QuietInv'
<1> SUFFICES ASSUME TypeInv, QuietInv, [Next]_vars, crashes' = 0 PROVE Quiet'
  BY DEF QuietInv
<1>1. crashes \in Nat
  BY ChainAssumption DEF TypeInv, TypeOK
<1>2. /\ \A w \in Workers : ~WorkerDies(w)
      /\ \A c \in Chains : ~DeleteDies(c)
  BY <1>1 DEF WorkerDies, DeleteDies, CrashAllowed
<1>3. ASSUME NEW c \in Chains, Submit(c) PROVE Quiet'
  BY <1>3, QuietSubmit DEF QuietInv, Submit
<1>4. ASSUME NEW c \in Chains, DeleteCheck(c) PROVE Quiet'
  BY <1>4 DEF QuietInv, Quiet, DeleteCheck, OwnJobs, PastSteps, EndsOnce, CarriedOn,
              OneOutputPerHop, Over, Refreshing, Used, Starting
<1>5. ASSUME NEW c \in Chains, DeleteStamp(c) PROVE Quiet'
  BY <1>5, QuietStamp DEF QuietInv, DeleteStamp
<1>6. ASSUME NEW c \in Chains, DeleteRows(c) PROVE Quiet'
  BY <1>6, QuietRows DEF QuietInv, DeleteRows
<1>7. ASSUME NEW w \in Workers, Claim(w) PROVE Quiet'
  BY <1>7, QuietClaim DEF QuietInv, Claim
<1>8. ASSUME NEW w \in Workers, CheckSlot(w) PROVE Quiet'
  BY <1>8, QuietCheck DEF QuietInv, CheckSlot
<1>9. ASSUME NEW w \in Workers, HopRaises(w) \/ HopFinishes(w) PROVE Quiet'
  BY <1>9, QuietEnds DEF QuietInv, HopRaises, HopFinishes
<1>10. ASSUME NEW w \in Workers, HopDelegates(w) PROVE Quiet'
  BY <1>10, QuietDelegates DEF QuietInv, HopDelegates
<1>11. ASSUME NEW w \in Workers, RefreshWiki(w) PROVE Quiet'
  BY <1>11, QuietRefresh DEF QuietInv, RefreshWiki
<1>12. ASSUME NEW w \in Workers, Complete(w) PROVE Quiet'
  BY <1>12, QuietComplete DEF QuietInv, Complete
<1>13. ASSUME NEW j \in Jobs, LeaseExpires(j) PROVE Quiet'
  BY <1>13, QuietExpires DEF QuietInv, LeaseExpires
<1>14. CASE UNCHANGED vars
  BY <1>14 DEF QuietInv, Quiet, vars, OwnJobs, PastSteps, EndsOnce, CarriedOn,
               OneOutputPerHop, Over, Refreshing, Used, Starting
<1>15. QED
  BY <1>2, <1>3, <1>4, <1>5, <1>6, <1>7, <1>8, <1>9, <1>10, <1>11, <1>12, <1>13, <1>14
  DEF Next, HandlerEnds

(* While no process died: every job has one worker, steps are run in their *)
(* order, and a chain that has its outcome is over.                        *)
THEOREM QuietInvariant == Spec => []QuietInv
  BY TypeInvariant, QuietInit, QuietStep, PTL DEF Spec

LEMMA OneWorker ==
  ASSUME TypeInv, Quiet, NEW w \in Workers, pc[w] = "executing"
  PROVE  \A v \in Workers : v # w /\ pc[v] = "executing" => at[v][1] # at[w][1]
<1>1. at[w] \in Jobs /\ Starting(w)
  BY DEF TypeInv, BusyHolds, Busy, Starting
<1>2. PICK c \in Chains, s \in Steps : at[w] = <<c, s>>
  BY <1>1, JobType
<1>3. \A v \in Workers : v # w /\ Starting(v) => at[v][1] # c
  BY <1>1, <1>2, LastStep
<1>4. QED
  BY <1>2, <1>3 DEF Starting

(* While no process died, two workers never execute hops of one chain.     *)
THEOREM OneHop == Spec => []OneHopAtATime
<1>1. TypeInv /\ QuietInv => OneHopAtATime
  BY OneWorker DEF QuietInv, OneHopAtATime
<1>2. QED
  BY <1>1, TypeInvariant, QuietInvariant, PTL

(* While no process died, what the record says of a hop is what the next   *)
(* hop was given.                                                          *)
THEOREM OneOutput == Spec => []OneOutputPerHopWithoutCrash
<1>1. QuietInv => OneOutputPerHopWithoutCrash
  BY DEF QuietInv, Quiet, OneOutputPerHopWithoutCrash
<1>2. QED
  BY <1>1, QuietInvariant, PTL

(* While no process died, a chain whose record says failed is none of      *)
(* those that refreshed the wiki.                                          *)
THEOREM NoRefresh == Spec => []NoRefreshAfterFailure
<1>1. TypeInv /\ QuietInv => NoRefreshAfterFailure
  BY DEF TypeInv, TypeOK, QuietInv, Quiet, EndsOnce, Refreshing, NoRefreshAfterFailure
<1>2. QED
  BY <1>1, TypeInvariant, QuietInvariant, PTL
=============================================================================
