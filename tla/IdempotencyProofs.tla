------------------------ MODULE IdempotencyProofs ------------------------
(***************************************************************************)
(* Proofs about Idempotency: its type invariant, with the bound of the     *)
(* dict, and what a repeated execution or a stale reply costs.             *)
(***************************************************************************)
EXTENDS Idempotency, FiniteSetTheorems, TLAPS

-----------------------------------------------------------------------------
(* Counting.                                                               *)

LEMMA CountAdd ==
  ASSUME NEW S, NEW T, NEW x, IsFiniteSet(S), T \subseteq S \union {x}
  PROVE  IsFiniteSet(T) /\ Cardinality(T) <= Cardinality(S) + 1
<1>a. Cardinality(S) \in Nat BY FS_CardinalityType
<1>b. IsFiniteSet(S \union {x}) BY FS_AddElement
<1>c. Cardinality(S \union {x}) = IF x \in S THEN Cardinality(S) ELSE Cardinality(S) + 1
  BY FS_AddElement
<1>1. IsFiniteSet(S \union {x}) /\ Cardinality(S \union {x}) <= Cardinality(S) + 1
  BY <1>a, <1>b, <1>c
<1>2. IsFiniteSet(T) /\ Cardinality(T) <= Cardinality(S \union {x})
  BY <1>1, FS_Subset
<1>3. Cardinality(T) \in Nat /\ Cardinality(S) \in Nat /\ Cardinality(S \union {x}) \in Nat
  BY <1>1, <1>2, FS_CardinalityType
<1> QED BY <1>1, <1>2, <1>3

LEMMA CountSub ==
  ASSUME NEW S, NEW T, IsFiniteSet(S), T \subseteq S
  PROVE  IsFiniteSet(T) /\ Cardinality(T) <= Cardinality(S)
BY FS_Subset

LEMMA CountRemove ==
  ASSUME NEW S, NEW T, NEW x \in S, IsFiniteSet(S), T \subseteq S \ {x}
  PROVE  IsFiniteSet(T) /\ Cardinality(T) + 1 <= Cardinality(S)
<1>1. IsFiniteSet(S \ {x}) /\ Cardinality(S \ {x}) = Cardinality(S) - 1
  BY FS_RemoveElement
<1>2. IsFiniteSet(T) /\ Cardinality(T) <= Cardinality(S \ {x})
  BY <1>1, FS_Subset
<1>3. Cardinality(T) \in Nat /\ Cardinality(S) \in Nat
  BY <1>2, FS_CardinalityType
<1> QED BY <1>1, <1>2, <1>3

LEMMA CallsFinite ==
  IsFiniteSet(Calls) /\ Cardinality(Calls) = MaxCalls
<1>1. MaxCalls \in Nat BY CallsAssumption
<1>2. IsFiniteSet(1..MaxCalls) /\ Cardinality(1..MaxCalls) = MaxCalls
  BY <1>1, FS_Interval
<1> QED BY <1>2 DEF Calls

-----------------------------------------------------------------------------
(* What the operations of a store do to what it has left of each key.      *)

LEMMA StoreType ==
  ASSUME NEW s
  PROVE  s \in Stores <=> /\ s = [k \in DOMAIN s |-> s[k]]
                          /\ DOMAIN s \in SUBSET Keys
                          /\ \A k \in DOMAIN s : s[k] \in 0..TtlTicks
<1>1. ASSUME s \in Stores PROVE \E K \in SUBSET Keys : s \in [K -> 0..TtlTicks]
  BY <1>1 DEF Stores
<1>2. ASSUME s = [k \in DOMAIN s |-> s[k]], DOMAIN s \in SUBSET Keys,
             \A k \in DOMAIN s : s[k] \in 0..TtlTicks
      PROVE  s \in Stores
  <2>1. s \in [DOMAIN s -> 0..TtlTicks] BY <1>2
  <2> QED BY <2>1, <1>2 DEF Stores
<1> QED BY <1>1, <1>2

LEMMA LeftType ==
  ASSUME NEW s \in Stores, NEW k PROVE Left(s, k) \in 0..TtlTicks
<1>1. 0 \in 0..TtlTicks BY CallsAssumption
<1> QED BY <1>1, StoreType DEF Left

LEMMA EmptyStore ==
  Empty \in Stores /\ DOMAIN Empty = {} /\ \A k : Left(Empty, k) = 0
<1>1. DOMAIN Empty = {} BY DEF Empty
<1>2. Empty = [k \in DOMAIN Empty |-> Empty[k]] BY DEF Empty
<1>3. Empty \in Stores BY <1>1, <1>2, StoreType
<1> QED BY <1>1, <1>3 DEF Left

LEMMA HoldingStore ==
  ASSUME NEW s \in Stores, NEW k \in Keys
  PROVE  /\ Holding(s, k) \in Stores
         /\ DOMAIN Holding(s, k) = DOMAIN s \union {k}
         /\ \A i : Left(Holding(s, k), i) = IF i = k THEN TtlTicks ELSE Left(s, i)
<1> DEFINE h == Holding(s, k)
<1>1. h = [i \in DOMAIN s \union {k} |-> IF i = k THEN TtlTicks ELSE s[i]] BY DEF Holding
<1>3. DOMAIN h = DOMAIN s \union {k} BY <1>1
<1>4. \A i \in DOMAIN h : h[i] = IF i = k THEN TtlTicks ELSE s[i] BY <1>1
<1>5. TtlTicks \in 0..TtlTicks BY CallsAssumption
<1>6. DOMAIN s \in SUBSET Keys /\ \A i \in DOMAIN s : s[i] \in 0..TtlTicks BY StoreType
<1>7. h = [i \in DOMAIN h |-> h[i]] BY <1>1
<1>8. \A i \in DOMAIN h : h[i] \in 0..TtlTicks BY <1>3, <1>4, <1>5, <1>6
<1>9. h \in Stores BY <1>3, <1>6, <1>7, <1>8, StoreType
<1>10. \A i : Left(h, i) = IF i = k THEN TtlTicks ELSE Left(s, i)
  BY <1>3, <1>4 DEF Left
<1> QED BY <1>3, <1>9, <1>10

LEMMA WithoutStore ==
  ASSUME NEW s \in Stores, NEW k
  PROVE  /\ Without(s, k) \in Stores
         /\ DOMAIN Without(s, k) = DOMAIN s \ {k}
         /\ \A i : Left(Without(s, k), i) = IF i = k THEN 0 ELSE Left(s, i)
<1> DEFINE h == Without(s, k)
<1>1. h = [i \in DOMAIN s \ {k} |-> s[i]] BY DEF Without
<1>2. DOMAIN h = DOMAIN s \ {k} BY <1>1
<1>3. h \in Stores BY <1>1, StoreType
<1>4. \A i : Left(h, i) = IF i = k THEN 0 ELSE Left(s, i) BY <1>1 DEF Left
<1> QED BY <1>2, <1>3, <1>4

LEMMA SweptStore ==
  ASSUME NEW s \in Stores
  PROVE  /\ Swept(s) \in Stores
         /\ DOMAIN Swept(s) \subseteq DOMAIN s
         /\ \A i : Left(Swept(s), i) = Left(s, i)
<1> DEFINE h == Swept(s)
<1>1. h = [i \in {j \in DOMAIN s : Has(s, j)} |-> s[i]] BY DEF Swept
<1>2. DOMAIN h = {j \in DOMAIN s : s[j] > 0} BY <1>1 DEF Has
<1>3. DOMAIN s \in SUBSET Keys /\ \A i \in DOMAIN s : s[i] \in 0..TtlTicks BY StoreType
<1>4. h = [i \in DOMAIN h |-> h[i]] BY <1>1
<1>5. h \in Stores BY <1>1, <1>2, <1>3, <1>4, StoreType
<1>6. \A i \in DOMAIN s : ~(s[i] > 0) => s[i] = 0 BY <1>3, CallsAssumption
<1>7. \A i \in DOMAIN h : h[i] = s[i] BY <1>1
<1>8. \A i : Left(h, i) = Left(s, i) BY <1>2, <1>6, <1>7 DEF Left
<1> QED BY <1>2, <1>5, <1>8

\* what is left a tick later
Less(n) == IF n > 0 THEN n - 1 ELSE 0

LEMMA OlderStore ==
  ASSUME NEW s \in Stores
  PROVE  /\ Older(s) \in Stores
         /\ DOMAIN Older(s) = DOMAIN s
         /\ \A i : Left(Older(s), i) = Less(Left(s, i))
<1> DEFINE h == Older(s)
<1>1. h = [i \in DOMAIN s |-> Less(s[i])] BY DEF Older, Less
<1>2. DOMAIN h = DOMAIN s BY <1>1
<1>3. DOMAIN s \in SUBSET Keys /\ \A i \in DOMAIN s : s[i] \in 0..TtlTicks BY StoreType
<1>4. \A n \in 0..TtlTicks : Less(n) \in 0..TtlTicks BY CallsAssumption DEF Less
<1>5. h = [i \in DOMAIN h |-> h[i]] BY <1>1
<1>6. h \in Stores BY <1>1, <1>2, <1>3, <1>4, <1>5, StoreType
<1>7. Less(0) = 0 BY DEF Less
<1>8. \A i : Left(h, i) = Less(Left(s, i)) BY <1>1, <1>7 DEF Left
<1> QED BY <1>2, <1>6, <1>8

-----------------------------------------------------------------------------
(* The type invariant needs to know which calls sit in a process, that the *)
(* dicts are finite, so that their size can be counted, and that only a    *)
(* put, the end of a call, evicts.                                         *)

Finished == {c \in Calls : calls[c].pc = "answered"}

CallsOK ==
  \A c \in Calls : /\ calls[c].pc = "executing" => calls[c].at \in Procs /\ calls[c].key \in Keys
                   /\ calls[c].at # NoProc => calls[c].pc = "executing"

DictsOK == \A p \in Procs : IsFiniteSet(DOMAIN mem[p])

EvictionsOK == evictions <= Cardinality(Finished)

TypeInv == TypeOK /\ CallsOK /\ DictsOK /\ EvictionsOK

(* A put keeps its own entry for the whole TTL.  The other entries of the  *)
(* dict keep what they have left, or one of them goes, which is counted.   *)
LEMMA PutMemEffect ==
  ASSUME TypeOK, DictsOK, NEW p \in Procs, NEW k \in Keys, PutMem(p, k)
  PROVE  \E m \in Stores :
           /\ mem' = [mem EXCEPT ![p] = m]
           /\ IsFiniteSet(DOMAIN m) /\ Cardinality(DOMAIN m) <= MemMax
           /\ Left(m, k) = TtlTicks
           /\ \A i : i # k => Left(m, i) = Left(mem[p], i) \/ Left(m, i) = 0
           /\ \/ evictions' = evictions /\ \A i : i # k => Left(m, i) = Left(mem[p], i)
              \/ evictions' = evictions + 1
<1> DEFINE room == Roomy(mem[p])
<1>1. mem[p] \in Stores /\ IsFiniteSet(DOMAIN mem[p]) /\ Cardinality(DOMAIN mem[p]) <= MemMax
  BY DEF TypeOK, DictsOK
<1>2. room \in Stores /\ DOMAIN room \subseteq DOMAIN mem[p]
  BY <1>1, SweptStore DEF Roomy
<1>3. \A i : Left(room, i) = Left(mem[p], i)
  BY <1>1, SweptStore DEF Roomy
<1>4. IsFiniteSet(DOMAIN room) /\ Cardinality(DOMAIN room) <= Cardinality(DOMAIN mem[p])
  BY <1>1, <1>2, CountSub
<1>5. Cardinality(DOMAIN room) \in Nat /\ Cardinality(DOMAIN mem[p]) \in Nat /\ MemMax \in Nat
  BY <1>1, <1>4, FS_CardinalityType, CallsAssumption
<1>6. \/ ~Full(room) /\ mem' = [mem EXCEPT ![p] = Holding(room, k)] /\ evictions' = evictions
      \/ /\ Full(room)
         /\ \E v \in Victims(room) :
              /\ mem' = [mem EXCEPT ![p] = Holding(Without(room, v), k)]
              /\ evictions' = IF v = k THEN evictions ELSE evictions + 1
  BY DEF PutMem
<1> HIDE DEF room
<1>7. CASE ~Full(room) /\ mem' = [mem EXCEPT ![p] = Holding(room, k)] /\ evictions' = evictions
  <2> DEFINE m == Holding(room, k)
  <2>1. m \in Stores /\ DOMAIN m = DOMAIN room \union {k} BY <1>2, HoldingStore
  <2>2. \A i : Left(m, i) = IF i = k THEN TtlTicks ELSE Left(room, i) BY <1>2, HoldingStore
  <2>3. IsFiniteSet(DOMAIN m) /\ Cardinality(DOMAIN m) <= Cardinality(DOMAIN room) + 1
    BY <2>1, <1>4, CountAdd
  <2>4. Cardinality(DOMAIN room) < MemMax BY <1>7, <1>5 DEF Full
  <2>5. Cardinality(DOMAIN m) \in Nat BY <2>3, FS_CardinalityType
  <2>6. Cardinality(DOMAIN m) <= MemMax BY <2>3, <2>4, <2>5, <1>5
  <2>7. \A i : i # k => Left(m, i) = Left(mem[p], i) BY <2>2, <1>3
  <2>8. Left(m, k) = TtlTicks BY <2>2
  <2> HIDE DEF m
  <2>9. mem' = [mem EXCEPT ![p] = m] BY <1>7 DEF m
  <2> QED BY <1>7, <2>1, <2>3, <2>6, <2>7, <2>8, <2>9
<1>8. CASE Full(room) /\ \E v \in Victims(room) :
              /\ mem' = [mem EXCEPT ![p] = Holding(Without(room, v), k)]
              /\ evictions' = IF v = k THEN evictions ELSE evictions + 1
  <2>1. PICK v \in Victims(room) :
              /\ mem' = [mem EXCEPT ![p] = Holding(Without(room, v), k)]
              /\ evictions' = IF v = k THEN evictions ELSE evictions + 1
    BY <1>8
  <2>2. v \in DOMAIN room BY DEF Victims
  <2> DEFINE r == Without(room, v)
             m == Holding(r, k)
  <2>3. r \in Stores /\ DOMAIN r = DOMAIN room \ {v} BY <1>2, WithoutStore
  <2>4. \A i : Left(r, i) = IF i = v THEN 0 ELSE Left(room, i) BY <1>2, WithoutStore
  <2>5. IsFiniteSet(DOMAIN r) /\ Cardinality(DOMAIN r) + 1 <= Cardinality(DOMAIN room)
    BY <2>2, <2>3, <1>4, CountRemove
  <2> HIDE DEF r
  <2>6. m \in Stores /\ DOMAIN m = DOMAIN r \union {k} BY <2>3, HoldingStore
  <2>7. \A i : Left(m, i) = IF i = k THEN TtlTicks ELSE Left(r, i) BY <2>3, HoldingStore
  <2>8. IsFiniteSet(DOMAIN m) /\ Cardinality(DOMAIN m) <= Cardinality(DOMAIN r) + 1
    BY <2>6, <2>5, CountAdd
  <2>9. Cardinality(DOMAIN m) \in Nat /\ Cardinality(DOMAIN r) \in Nat
    BY <2>8, <2>5, FS_CardinalityType
  <2>10. Cardinality(DOMAIN m) <= MemMax BY <2>5, <2>8, <2>9, <1>1, <1>4, <1>5
  <2>11. \A i : i # k => Left(m, i) = IF i = v THEN 0 ELSE Left(mem[p], i) BY <2>4, <2>7, <1>3
  <2>12. Left(m, k) = TtlTicks BY <2>7
  <2> HIDE DEF m
  <2>13. mem' = [mem EXCEPT ![p] = m] BY <2>1 DEF m, r
  <2>14. \/ evictions' = evictions /\ \A i : i # k => Left(m, i) = Left(mem[p], i)
         \/ evictions' = evictions + 1
    BY <2>1, <2>11
  <2>15. \A i : i # k => Left(m, i) = Left(mem[p], i) \/ Left(m, i) = 0 BY <2>11
  <2> QED BY <2>6, <2>8, <2>10, <2>12, <2>13, <2>14, <2>15
<1> QED BY <1>6, <1>7, <1>8

(* A lookup takes nothing from any dict but an entry that has expired.     *)
LEMMA GetEffect ==
  ASSUME TypeOK, NEW p \in Procs, NEW k \in Keys, NEW reply \in 0..TtlTicks, Get(p, k, reply)
  PROVE  /\ \E m \in Stores : /\ mem' = [mem EXCEPT ![p] = m]
                              /\ DOMAIN m \subseteq DOMAIN mem[p]
                              /\ \A i : Left(m, i) = Left(mem[p], i)
         /\ \/ persistent[p] /\ reply > 0 /\ reply = Left(pg, k) /\ misreads' = misreads
            \/ /\ reply = Left(mem[p], k) /\ misreads' = misreads
               /\ persistent[p] => Left(pg, k) = 0
            \/ reply = Left(mem[p], k) /\ Left(pg, k) > 0 /\ Misread
<1>1. mem \in [Procs -> Stores] /\ mem[p] \in Stores /\ pg \in Stores BY DEF TypeOK
<1>2. Left(pg, k) \in 0..TtlTicks BY <1>1, LeftType
<1>3. Has(pg, k) <=> Left(pg, k) > 0 BY <1>1 DEF Has, Left
<1>4. Has(pg, k) => pg[k] = Left(pg, k) BY DEF Has, Left
<1>5. [mem EXCEPT ![p] = mem[p]] = mem BY <1>1
<1>6. CASE persistent[p] /\ Has(pg, k) /\ reply = pg[k] /\ UNCHANGED <<mem, misreads>>
  <2>1. mem' = [mem EXCEPT ![p] = mem[p]] BY <1>5, <1>6
  <2> QED BY <1>1, <1>3, <1>4, <1>6, <2>1
<1>7. CASE /\ reply = Left(mem[p], k)
           /\ mem' = IF reply > 0 THEN mem ELSE [mem EXCEPT ![p] = Without(@, k)]
           /\ IF persistent[p] /\ Has(pg, k) THEN Misread ELSE UNCHANGED misreads
  <2> DEFINE m == IF reply > 0 THEN mem[p] ELSE Without(mem[p], k)
  <2>1. mem' = [mem EXCEPT ![p] = m] BY <1>5, <1>7
  <2>2. m \in Stores /\ DOMAIN m \subseteq DOMAIN mem[p] BY <1>1, WithoutStore
  <2>3. \A i : Left(m, i) = Left(mem[p], i)
    <3>1. CASE reply > 0 BY <3>1
    <3>2. CASE ~(reply > 0)
      <4>1. Left(mem[p], k) = 0 BY <3>2, <1>7, CallsAssumption
      <4>2. m = Without(mem[p], k) BY <3>2
      <4> HIDE DEF m
      <4>3. \A i : Left(Without(mem[p], k), i) = IF i = k THEN 0 ELSE Left(mem[p], i)
        BY <1>1, WithoutStore
      <4> QED BY <4>1, <4>2, <4>3
    <3> QED BY <3>1, <3>2
  <2> HIDE DEF m
  <2>4. \/ misreads' = misreads /\ (persistent[p] => Left(pg, k) = 0)
        \/ Left(pg, k) > 0 /\ Misread
    BY <1>2, <1>3, <1>7, CallsAssumption
  <2> QED BY <1>7, <2>1, <2>2, <2>3, <2>4
<1> QED BY <1>6, <1>7 DEF Get

-----------------------------------------------------------------------------
(* Type correctness.                                                       *)

LEMMA TypeInit == Init => TypeInv
<1> SUFFICES ASSUME Init PROVE TypeInv OBVIOUS
<1> USE DEF Init
<1>1. 0 \in 0..TtlTicks /\ 0 \in 0..MaxCrashes /\ 0 \in 0..MaxLapses /\ 0 \in 0..MaxCalls
  BY CallsAssumption
<1>2. Cardinality({}) = 0 /\ IsFiniteSet({}) BY FS_EmptySet
<1>3. pg \in Stores /\ mem \in [Procs -> Stores] BY EmptyStore
<1>4. \A p \in Procs : DOMAIN mem[p] = {} BY EmptyStore
<1>5. \A p \in Procs : Cardinality(DOMAIN mem[p]) <= MemMax BY <1>2, <1>4, CallsAssumption
<1>6. NewCall \in Call BY DEF NewCall, Call
<1>7. calls \in [Calls -> Call] BY <1>6
<1>8. done \in [Procs -> [Keys -> 0..TtlTicks]] BY <1>1
<1>9. TypeOK BY <1>1, <1>3, <1>5, <1>7, <1>8 DEF TypeOK
<1>10. CallsOK BY DEF CallsOK, NewCall
<1>11. DictsOK BY <1>2, <1>4 DEF DictsOK
<1>12. EvictionsOK
  <2>1. Cardinality(Finished) \in Nat
    BY CallsFinite, CountSub, FS_CardinalityType DEF Finished
  <2> QED BY <2>1 DEF EvictionsOK
<1> QED BY <1>9, <1>10, <1>11, <1>12 DEF TypeInv

(* The same entries, or fewer, are no more.                                *)
LEMMA DictStays ==
  ASSUME TypeOK, DictsOK, NEW p \in Procs, NEW m \in Stores,
         mem' = [mem EXCEPT ![p] = m],
         IsFiniteSet(DOMAIN m), Cardinality(DOMAIN m) <= MemMax
  PROVE  /\ mem' \in [Procs -> Stores]
         /\ \A q \in Procs : Cardinality(DOMAIN mem'[q]) <= MemMax
         /\ DictsOK'
         /\ \A q \in Procs : mem'[q] = IF q = p THEN m ELSE mem[q]
<1>1. mem \in [Procs -> Stores] /\ \A q \in Procs : Cardinality(DOMAIN mem[q]) <= MemMax
  BY DEF TypeOK
<1>2. \A q \in Procs : IsFiniteSet(DOMAIN mem[q]) BY DEF DictsOK
<1>3. mem' \in [Procs -> Stores] BY <1>1
<1>4. \A q \in Procs : mem'[q] = IF q = p THEN m ELSE mem[q] BY <1>1
<1>5. \A q \in Procs : Cardinality(DOMAIN mem'[q]) <= MemMax BY <1>1, <1>4
<1>6. DictsOK' BY <1>2, <1>4 DEF DictsOK
<1> QED BY <1>3, <1>4, <1>5, <1>6

LEMMA DictShrinks ==
  ASSUME TypeOK, DictsOK, NEW p \in Procs, NEW m \in Stores,
         mem' = [mem EXCEPT ![p] = m], DOMAIN m \subseteq DOMAIN mem[p]
  PROVE  /\ mem' \in [Procs -> Stores]
         /\ \A q \in Procs : Cardinality(DOMAIN mem'[q]) <= MemMax
         /\ DictsOK'
         /\ \A q \in Procs : mem'[q] = IF q = p THEN m ELSE mem[q]
<1>1. IsFiniteSet(DOMAIN mem[p]) /\ Cardinality(DOMAIN mem[p]) <= MemMax
  BY DEF TypeOK, DictsOK
<1>2. IsFiniteSet(DOMAIN m) /\ Cardinality(DOMAIN m) <= Cardinality(DOMAIN mem[p])
  BY <1>1, CountSub
<1>3. Cardinality(DOMAIN m) \in Nat /\ Cardinality(DOMAIN mem[p]) \in Nat /\ MemMax \in Nat
  BY <1>1, <1>2, FS_CardinalityType, CallsAssumption
<1>4. Cardinality(DOMAIN m) <= MemMax BY <1>1, <1>2, <1>3
<1> QED BY <1>2, <1>4, DictStays

LEMMA FinishedFinite == IsFiniteSet(Finished) /\ Cardinality(Finished) \in 0..MaxCalls
<1>1. Finished \subseteq Calls BY DEF Finished
<1>2. IsFiniteSet(Finished) /\ Cardinality(Finished) <= MaxCalls
  BY <1>1, CallsFinite, CountSub
<1>3. Cardinality(Finished) \in Nat /\ MaxCalls \in Nat
  BY <1>2, FS_CardinalityType, CallsAssumption
<1> QED BY <1>2, <1>3

LEMMA LapsesType ==
  ASSUME TypeOK
  PROVE  /\ lapses \in Nat
         /\ Misread => misreads' \in 0..MaxLapses /\ misreads' = misreads + 1
         /\ Stashing => stashes' \in 0..MaxLapses /\ stashes' = stashes + 1
<1>1. misreads \in 0..MaxLapses /\ stashes \in 0..MaxLapses /\ MaxLapses \in Nat
  BY CallsAssumption DEF TypeOK
<1> QED BY <1>1 DEF Misread, Stashing, lapses

LEMMA EndedCall ==
  ASSUME NEW r \in Call, NEW how \in {"answered", "failed"}
  PROVE  LET e == Ended(r, how)
         IN e \in Call /\ e.pc = how /\ e.at = NoProc /\ e.key = r.key /\ e.again = r.again
BY DEF Ended, Call

LEMMA TypeStart ==
  ASSUME TypeInv, NEW p \in Procs, Start(p) PROVE TypeInv'
<1> USE DEF Start, callVars
<1>1. TypeOK /\ CallsOK /\ DictsOK /\ EvictionsOK BY DEF TypeInv
<1>2. misreads' \in 0..MaxLapses BY <1>1, LapsesType DEF TypeOK
<1>3. persistent' \in [Procs -> BOOLEAN] /\ split' \in BOOLEAN BY <1>1 DEF TypeOK
<1>4. TypeOK' BY <1>1, <1>2, <1>3 DEF TypeOK
<1>5. CallsOK' /\ DictsOK' BY <1>1 DEF CallsOK, DictsOK
<1>6. EvictionsOK' BY <1>1 DEF EvictionsOK, Finished
<1> QED BY <1>4, <1>5, <1>6 DEF TypeInv

LEMMA TypeCrash ==
  ASSUME TypeInv, NEW p \in Procs, Crash(p) PROVE TypeInv'
<1> USE DEF Crash
<1>1. TypeOK /\ CallsOK /\ DictsOK /\ EvictionsOK BY DEF TypeInv
<1>2. Empty \in Stores /\ DOMAIN Empty \subseteq DOMAIN mem[p] BY EmptyStore
<1>3. /\ mem' \in [Procs -> Stores]
      /\ \A q \in Procs : Cardinality(DOMAIN mem'[q]) <= MemMax
      /\ DictsOK'
  BY <1>1, <1>2, DictShrinks
<1>4. \A c \in Calls : /\ calls[c] \in Call
                       /\ Ended(calls[c], "failed") \in Call
                       /\ Ended(calls[c], "failed").pc = "failed"
                       /\ Ended(calls[c], "failed").at = NoProc
  BY <1>1, EndedCall DEF TypeOK
<1>5. calls' \in [Calls -> Call] BY <1>4
<1>6. crashes' \in 0..MaxCrashes BY <1>1, CallsAssumption DEF TypeOK
<1>7. TypeOK' BY <1>1, <1>3, <1>5, <1>6 DEF TypeOK
<1>8. \A c \in Calls : calls'[c] = IF calls[c].at = p THEN Ended(calls[c], "failed")
                                                  ELSE calls[c]
  OBVIOUS
<1>9. \A c \in Calls : calls[c].at = p => calls'[c].pc = "failed" /\ calls'[c].at = NoProc
  BY <1>4, <1>8
<1>10. \A c \in Calls : calls[c].at = p => calls[c].pc = "executing"
  BY <1>1, CallsAssumption DEF CallsOK
<1>11. CallsOK' BY <1>1, <1>8, <1>9 DEF CallsOK
<1>12. Finished' = Finished BY <1>8, <1>9, <1>10 DEF Finished
<1>13. EvictionsOK' BY <1>1, <1>12 DEF EvictionsOK
<1> QED BY <1>3, <1>7, <1>11, <1>13 DEF TypeInv

LEMMA TypeCleanup ==
  ASSUME TypeInv, NEW p \in Procs, Cleanup(p) PROVE TypeInv'
<1> USE DEF Cleanup, callVars, faultVars
<1>1. TypeOK /\ CallsOK /\ DictsOK /\ EvictionsOK BY DEF TypeInv
<1>2. pg \in Stores /\ mem \in [Procs -> Stores] BY <1>1 DEF TypeOK
<1>3. pg' \in Stores BY <1>2, SweptStore
<1>4. Swept(mem[p]) \in Stores /\ DOMAIN Swept(mem[p]) \subseteq DOMAIN mem[p] BY <1>2, SweptStore
<1>5. /\ mem' \in [Procs -> Stores]
      /\ \A q \in Procs : Cardinality(DOMAIN mem'[q]) <= MemMax
      /\ DictsOK'
  <2>1. CASE mem' = mem BY <2>1, <1>1 DEF TypeOK, DictsOK
  <2>2. CASE mem' = [mem EXCEPT ![p] = Swept(mem[p])] BY <2>2, <1>1, <1>4, DictShrinks
  <2> QED BY <2>1, <2>2
<1>6. TypeOK' BY <1>1, <1>3, <1>5 DEF TypeOK
<1>7. CallsOK' BY <1>1 DEF CallsOK
<1>8. EvictionsOK' BY <1>1 DEF EvictionsOK, Finished
<1> QED BY <1>5, <1>6, <1>7, <1>8 DEF TypeInv

LEMMA TypeArrive ==
  ASSUME TypeInv, NEW c \in Calls, NEW p \in Procs, NEW k \in Keys, Arrive(c, p, k)
  PROVE  TypeInv'
<1> USE DEF Arrive
<1>1. TypeOK /\ CallsOK /\ DictsOK /\ EvictionsOK BY DEF TypeInv
<1>2. PICK reply \in 0..TtlTicks :
       /\ Get(p, k, reply)
       /\ calls' = [calls EXCEPT ![c] =
            IF reply > 0
              THEN [pc |-> "answered", at |-> NoProc, key |-> k,
                    again |-> IF reply < done[p][k] THEN "stale" ELSE "no"]
              ELSE [pc |-> "executing", at |-> p, key |-> k, again |-> Again(p, k)]]
       /\ overlapped' = (overlapped \/ (reply = 0 /\ Executing(k) # {}))
  OBVIOUS
<1>3. PICK m \in Stores : mem' = [mem EXCEPT ![p] = m] /\ DOMAIN m \subseteq DOMAIN mem[p]
  BY <1>1, <1>2, GetEffect
<1>4. misreads' \in 0..MaxLapses
  <2>1. misreads' = misreads \/ Misread BY <1>1, <1>2, GetEffect
  <2> QED BY <2>1, <1>1, LapsesType DEF TypeOK
<1>5. /\ mem' \in [Procs -> Stores]
      /\ \A q \in Procs : Cardinality(DOMAIN mem'[q]) <= MemMax
      /\ DictsOK'
  BY <1>1, <1>3, DictShrinks
<1>6. Again(p, k) \in {"no", "own", "other"} BY DEF Again
<1> DEFINE new == IF reply > 0
              THEN [pc |-> "answered", at |-> NoProc, key |-> k,
                    again |-> IF reply < done[p][k] THEN "stale" ELSE "no"]
              ELSE [pc |-> "executing", at |-> p, key |-> k, again |-> Again(p, k)]
<1>7. new \in Call BY <1>6 DEF Call
<1>8. new.pc = "executing" => new.at \in Procs /\ new.key \in Keys OBVIOUS
<1>9. new.at # NoProc => new.pc = "executing" OBVIOUS
<1>10. calls' = [calls EXCEPT ![c] = new] BY <1>2
<1> HIDE DEF new
<1>11. calls' \in [Calls -> Call] BY <1>1, <1>7, <1>10 DEF TypeOK
<1>12. \A d \in Calls : calls'[d] = IF d = c THEN new ELSE calls[d] BY <1>1, <1>10 DEF TypeOK
<1>13. overlapped' \in BOOLEAN BY <1>2
<1>14. TypeOK' BY <1>1, <1>4, <1>5, <1>11, <1>13 DEF TypeOK
<1>15. CallsOK' BY <1>1, <1>8, <1>9, <1>12 DEF CallsOK
<1>16. Finished \subseteq Finished' BY <1>12 DEF Finished
<1>17. EvictionsOK'
  <2>1. IsFiniteSet(Finished') /\ Finished' \subseteq Calls
    BY CallsFinite, CountSub DEF Finished
  <2>2. Cardinality(Finished) <= Cardinality(Finished') BY <2>1, <1>16, CountSub
  <2>3. Cardinality(Finished) \in Nat /\ Cardinality(Finished') \in Nat
    BY <2>1, FinishedFinite, FS_CardinalityType
  <2>4. evictions \in Nat /\ evictions' = evictions /\ evictions <= Cardinality(Finished)
    BY <1>1, CallsAssumption DEF TypeOK, EvictionsOK
  <2> QED BY <2>2, <2>3, <2>4 DEF EvictionsOK
<1> QED BY <1>5, <1>14, <1>15, <1>17 DEF TypeInv

(* A call that ends is out of its process, and counts once it is answered. *)
LEMMA EndEffect ==
  ASSUME TypeInv, NEW c \in Calls, NEW how \in {"answered", "failed"},
         calls[c].pc = "executing", calls' = [calls EXCEPT ![c] = Ended(@, how)]
  PROVE  /\ calls' \in [Calls -> Call]
         /\ CallsOK'
         /\ \A d \in Calls : d # c => calls'[d] = calls[d]
         /\ calls'[c].pc = how /\ calls'[c].key = calls[c].key
         /\ calls'[c].again = calls[c].again
         /\ IF how = "answered" THEN Cardinality(Finished') = Cardinality(Finished) + 1
                                ELSE Finished' = Finished
<1>1. calls \in [Calls -> Call] /\ CallsOK BY DEF TypeInv, TypeOK
<1> DEFINE e == Ended(calls[c], how)
<1>2. e \in Call /\ e.pc = how /\ e.at = NoProc /\ e.key = calls[c].key /\ e.again = calls[c].again
  BY <1>1, EndedCall
<1> HIDE DEF e
<1>3. calls' = [calls EXCEPT ![c] = e] BY DEF e
<1>4. \A d \in Calls : calls'[d] = IF d = c THEN e ELSE calls[d] BY <1>1, <1>3
<1>5. calls' \in [Calls -> Call] BY <1>1, <1>2, <1>3
<1>6. CallsOK' BY <1>1, <1>2, <1>4 DEF CallsOK
<1>7. how = "answered" => Finished' = Finished \union {c} BY <1>2, <1>4 DEF Finished
<1>8. how # "answered" => Finished' = Finished BY <1>2, <1>4 DEF Finished
<1>9. c \notin Finished BY DEF Finished
<1>10. Cardinality(Finished \union {c}) = Cardinality(Finished) + 1
  BY <1>9, FinishedFinite, FS_AddElement
<1> QED BY <1>2, <1>4, <1>5, <1>6, <1>7, <1>8, <1>10

(* Storing a response: what there is afterwards in the table and the dict. *)
LEMMA StoreEffect ==
  ASSUME TypeOK, DictsOK, NEW c \in Calls, NEW p \in Procs, NEW k \in Keys,
         p = calls[c].at, k = calls[c].key, Finish(c)
  PROVE  /\ done' = [done EXCEPT ![p] = [done[p] EXCEPT ![k] = TtlTicks]]
         /\ \/ /\ persistent[p] /\ pg' = Holding(pg, k)
               /\ UNCHANGED <<mem, stashes, evictions>>
            \/ /\ pg' = pg
               /\ PutMem(p, k)
               /\ IF persistent[p] THEN Stashing ELSE UNCHANGED stashes
BY DEF Finish, TypeOK

LEMMA TypeFinish ==
  ASSUME TypeInv, NEW c \in Calls, Finish(c) PROVE TypeInv'
<1>1. TypeOK /\ CallsOK /\ DictsOK /\ EvictionsOK BY DEF TypeInv
<1>2. /\ calls[c].pc = "executing" /\ calls' = [calls EXCEPT ![c] = Ended(@, "answered")]
      /\ UNCHANGED <<persistent, alive, split, overlapped, crashes, misreads>>
  BY DEF Finish
<1>3. PICK p \in Procs, k \in Keys : p = calls[c].at /\ k = calls[c].key
  BY <1>1, <1>2 DEF CallsOK
<1>4. /\ calls' \in [Calls -> Call] /\ CallsOK'
      /\ Cardinality(Finished') = Cardinality(Finished) + 1
  BY <1>2, EndEffect
<1>5. done' \in [Procs -> [Keys -> 0..TtlTicks]]
  <2>1. TtlTicks \in 0..TtlTicks BY CallsAssumption
  <2>2. done' = [done EXCEPT ![p] = [done[p] EXCEPT ![k] = TtlTicks]] BY <1>1, <1>3, StoreEffect
  <2> QED BY <2>1, <2>2, <1>1 DEF TypeOK
<1>6. Cardinality(Finished) \in 0..MaxCalls /\ Cardinality(Finished') \in 0..MaxCalls
  <2>1. Finished' \subseteq Calls BY DEF Finished
  <2>2. Cardinality(Finished') <= MaxCalls /\ IsFiniteSet(Finished')
    BY <2>1, CallsFinite, CountSub
  <2> QED BY <2>2, FinishedFinite, FS_CardinalityType, CallsAssumption
<1>7. evictions \in Nat /\ evictions <= Cardinality(Finished)
  BY <1>1, CallsAssumption DEF TypeOK, EvictionsOK
<1>8. evictions' = evictions \/ evictions' = evictions + 1
      => EvictionsOK' /\ evictions' \in 0..MaxCalls
  BY <1>4, <1>6, <1>7, CallsAssumption DEF EvictionsOK
<1>9. CASE /\ persistent[p] /\ pg' = Holding(pg, k)
           /\ UNCHANGED <<mem, stashes, evictions>>
  <2>1. pg' \in Stores BY <1>1, <1>9, HoldingStore DEF TypeOK
  <2>2. EvictionsOK' /\ evictions' \in 0..MaxCalls BY <1>8, <1>9
  <2>3. DictsOK' BY <1>1, <1>9 DEF DictsOK
  <2>4. TypeOK' BY <1>1, <1>2, <1>4, <1>5, <1>9, <2>1, <2>2 DEF TypeOK
  <2> QED BY <1>4, <2>2, <2>3, <2>4 DEF TypeInv
<1>10. CASE /\ pg' = pg
            /\ PutMem(p, k)
            /\ IF persistent[p] THEN Stashing ELSE UNCHANGED stashes
  <2>1. PICK m \in Stores :
           /\ mem' = [mem EXCEPT ![p] = m]
           /\ IsFiniteSet(DOMAIN m) /\ Cardinality(DOMAIN m) <= MemMax
           /\ evictions' = evictions \/ evictions' = evictions + 1
    BY <1>1, <1>10, PutMemEffect
  <2>2. /\ mem' \in [Procs -> Stores]
        /\ \A q \in Procs : Cardinality(DOMAIN mem'[q]) <= MemMax
        /\ DictsOK'
    BY <1>1, <2>1, DictStays
  <2>3. EvictionsOK' /\ evictions' \in 0..MaxCalls BY <1>8, <2>1
  <2>4. stashes' \in 0..MaxLapses BY <1>1, <1>10, LapsesType DEF TypeOK
  <2>5. TypeOK' BY <1>1, <1>2, <1>4, <1>5, <1>10, <2>2, <2>3, <2>4 DEF TypeOK
  <2> QED BY <1>4, <2>2, <2>3, <2>5 DEF TypeInv
<1> QED BY <1>1, <1>3, <1>9, <1>10, StoreEffect

LEMMA TypeFail ==
  ASSUME TypeInv, NEW c \in Calls, Fail(c) PROVE TypeInv'
<1> USE DEF Fail, faultVars
<1>1. TypeOK /\ CallsOK /\ DictsOK /\ EvictionsOK BY DEF TypeInv
<1>2. calls' \in [Calls -> Call] /\ CallsOK' /\ Finished' = Finished BY EndEffect
<1>3. TypeOK' BY <1>1, <1>2 DEF TypeOK
<1>4. DictsOK' /\ EvictionsOK' BY <1>1, <1>2 DEF DictsOK, EvictionsOK
<1> QED BY <1>2, <1>3, <1>4 DEF TypeInv

(* Time makes every response a tick older, in every store and every memory.*)
LEMMA TickEffect ==
  ASSUME TypeOK, Tick
  PROVE  /\ pg' \in Stores /\ mem' \in [Procs -> Stores]
         /\ done' \in [Procs -> [Keys -> 0..TtlTicks]]
         /\ \A p \in Procs : DOMAIN mem'[p] = DOMAIN mem[p]
         /\ \A k \in Keys : Left(pg', k) = Less(Left(pg, k))
         /\ \A p \in Procs, k \in Keys : /\ Left(mem'[p], k) = Less(Left(mem[p], k))
                                         /\ done'[p][k] = Less(done[p][k])
<1> USE DEF Tick
<1>1. /\ pg \in Stores /\ \A p \in Procs : mem[p] \in Stores
      /\ done \in [Procs -> [Keys -> 0..TtlTicks]]
  BY DEF TypeOK
<1>2. pg' \in Stores /\ \A k \in Keys : Left(pg', k) = Less(Left(pg, k)) BY <1>1, OlderStore
<1>3. mem' = [p \in Procs |-> Older(mem[p])] OBVIOUS
<1>4. \A p \in Procs : /\ Older(mem[p]) \in Stores /\ DOMAIN Older(mem[p]) = DOMAIN mem[p]
                       /\ \A k \in Keys : Left(Older(mem[p]), k) = Less(Left(mem[p], k))
  BY <1>1, OlderStore
<1>5. mem' \in [Procs -> Stores] BY <1>3, <1>4
<1>6. \A p \in Procs : mem'[p] = Older(mem[p]) BY <1>3
<1>7. done' = [p \in Procs |-> Older(done[p])] OBVIOUS
<1>8. \A p \in Procs : Older(done[p]) = [k \in Keys |-> Less(done[p][k])]
  BY <1>1 DEF Older, Less
<1>9. \A n \in 0..TtlTicks : Less(n) \in 0..TtlTicks BY CallsAssumption DEF Less
<1>10. \A p \in Procs : Older(done[p]) \in [Keys -> 0..TtlTicks] BY <1>1, <1>8, <1>9
<1>11. done' \in [Procs -> [Keys -> 0..TtlTicks]] BY <1>7, <1>10
<1>12. ASSUME NEW p \in Procs, NEW k \in Keys PROVE done'[p][k] = Less(done[p][k])
  <2>1. done'[p] = Older(done[p]) BY <1>7
  <2>2. done'[p] = [i \in Keys |-> Less(done[p][i])] BY <2>1, <1>8
  <2> QED BY <2>2
<1> QED BY <1>2, <1>4, <1>5, <1>6, <1>11, <1>12

LEMMA TypeTick ==
  ASSUME TypeInv, Tick PROVE TypeInv'
<1>1. TypeOK /\ CallsOK /\ DictsOK /\ EvictionsOK BY DEF TypeInv
<1>2. UNCHANGED <<persistent, alive, calls, overlapped, split, crashes, misreads, stashes, evictions>>
  BY DEF Tick, faultVars
<1>3. /\ pg' \in Stores /\ mem' \in [Procs -> Stores]
      /\ done' \in [Procs -> [Keys -> 0..TtlTicks]]
      /\ \A p \in Procs : DOMAIN mem'[p] = DOMAIN mem[p]
  BY <1>1, TickEffect
<1>4. DictsOK' BY <1>1, <1>3 DEF DictsOK
<1>5. \A p \in Procs : Cardinality(DOMAIN mem'[p]) <= MemMax BY <1>1, <1>3 DEF TypeOK
<1>6. TypeOK' BY <1>1, <1>2, <1>3, <1>5 DEF TypeOK
<1>7. CallsOK' BY <1>1, <1>2 DEF CallsOK
<1>8. EvictionsOK' BY <1>1, <1>2 DEF EvictionsOK, Finished
<1> QED BY <1>4, <1>6, <1>7, <1>8 DEF TypeInv

LEMMA TypeNext == TypeInv /\ [Next]_vars => TypeInv'
<1> SUFFICES ASSUME TypeInv, [Next]_vars PROVE TypeInv' OBVIOUS
<1>1. ASSUME NEW p \in Procs, Start(p) PROVE TypeInv' BY <1>1, TypeStart
<1>2. ASSUME NEW p \in Procs, Crash(p) PROVE TypeInv' BY <1>2, TypeCrash
<1>3. ASSUME NEW p \in Procs, Cleanup(p) PROVE TypeInv' BY <1>3, TypeCleanup
<1>4. ASSUME NEW c \in Calls, NEW p \in Procs, NEW k \in Keys, Arrive(c, p, k) PROVE TypeInv'
  BY <1>4, TypeArrive
<1>5. ASSUME NEW c \in Calls, Finish(c) PROVE TypeInv' BY <1>5, TypeFinish
<1>6. ASSUME NEW c \in Calls, Fail(c) PROVE TypeInv' BY <1>6, TypeFail
<1>7. CASE Tick BY <1>7, TypeTick
<1>8. CASE UNCHANGED vars
  <2>1. TypeOK' /\ CallsOK' /\ DictsOK' /\ EvictionsOK'
    BY <1>8 DEF TypeInv, TypeOK, CallsOK, DictsOK, EvictionsOK, Finished, vars
  <2> QED BY <2>1 DEF TypeInv
<1> QED BY <1>1, <1>2, <1>3, <1>4, <1>5, <1>6, <1>7, <1>8 DEF Next

(* TypeInv is inductive: in particular no dict ever holds more than        *)
(* _mem_max entries, and no more is evicted than was answered.             *)
THEOREM TypeInvariant == Spec => []TypeInv
BY TypeInit, TypeNext, PTL DEF Spec

(* Every variable keeps its type.                                          *)
THEOREM TypeCorrect == Spec => []TypeOK
<1>1. TypeInv => TypeOK BY DEF TypeInv
<1> QED BY <1>1, TypeInvariant, PTL

-----------------------------------------------------------------------------
(* What an action does, in the terms the costs are counted in: what the    *)
(* table and a dict have left of a key, and which calls go which way.      *)

Stored(k) == Left(pg, k)
Kept(p, k) == Left(mem[p], k)

Counted == {"own", "other"}

Repeated(k, whose) == {c \in Calls : calls[c].key = k /\ calls[c].pc = "answered"
                                     /\ calls[c].again \in whose}
Repeating(p, k, whose) ==
  \E c \in Calls : /\ calls[c].pc = "executing" /\ calls[c].key = k
                   /\ calls[c].at = p /\ calls[c].again \in whose

\* no call begins, and none is answered
Settling == \A d \in Calls : \/ calls'[d] = calls[d]
                             \/ /\ calls[d].pc = "executing" /\ calls'[d].pc = "failed"
                                /\ calls'[d].again = calls[d].again

LEMMA LeftTypes ==
  ASSUME TypeOK
  PROVE  \A p \in Procs, k \in Keys : /\ Stored(k) \in 0..TtlTicks /\ Kept(p, k) \in 0..TtlTicks
                                      /\ done[p][k] \in 0..TtlTicks
BY LeftType DEF Stored, Kept, TypeOK

LEMMA CrashEffect ==
  ASSUME TypeInv, NEW p \in Procs, Crash(p)
  PROVE  /\ Settling
         /\ \A k \in Keys : Stored(k)' = Stored(k)
         /\ \A q \in Procs, k \in Keys : Kept(q, k)' = IF q = p THEN 0 ELSE Kept(q, k)
<1> USE DEF Crash
<1>1. TypeOK /\ CallsOK BY DEF TypeInv
<1>2. \A c \in Calls : /\ calls[c] \in Call
                       /\ Ended(calls[c], "failed").pc = "failed"
                       /\ Ended(calls[c], "failed").again = calls[c].again
  BY <1>1, EndedCall DEF TypeOK
<1>3. \A c \in Calls : calls'[c] = IF calls[c].at = p THEN Ended(calls[c], "failed")
                                                  ELSE calls[c]
  OBVIOUS
<1>4. Settling BY <1>1, <1>2, <1>3, CallsAssumption DEF Settling, CallsOK
<1>5. \A q \in Procs : mem'[q] = IF q = p THEN Empty ELSE mem[q] BY <1>1 DEF TypeOK
<1> QED BY <1>4, <1>5, EmptyStore DEF Stored, Kept

LEMMA CleanupEffect ==
  ASSUME TypeInv, NEW p \in Procs, Cleanup(p)
  PROVE  /\ Settling
         /\ \A k \in Keys : Stored(k)' = Stored(k)
         /\ \A q \in Procs, k \in Keys : Kept(q, k)' = Kept(q, k)
<1> USE DEF Cleanup, callVars
<1>1. pg \in Stores /\ mem \in [Procs -> Stores] BY DEF TypeInv, TypeOK
<1>2. \A k \in Keys : Stored(k)' = Stored(k) BY <1>1, SweptStore DEF Stored
<1>3. mem' = mem \/ mem' = [mem EXCEPT ![p] = Swept(mem[p])] OBVIOUS
<1>4. \A q \in Procs : mem'[q] = mem[q] \/ mem'[q] = Swept(mem[q]) BY <1>1, <1>3
<1>5. \A q \in Procs, k \in Keys : Kept(q, k)' = Kept(q, k) BY <1>1, <1>4, SweptStore DEF Kept
<1> QED BY <1>2, <1>5 DEF Settling

LEMMA FailEffect ==
  ASSUME TypeInv, NEW c \in Calls, Fail(c)
  PROVE  /\ Settling
         /\ \A k \in Keys : Stored(k)' = Stored(k)
         /\ \A q \in Procs, k \in Keys : Kept(q, k)' = Kept(q, k)
<1> USE DEF Fail
<1>1. /\ \A d \in Calls : d # c => calls'[d] = calls[d]
      /\ calls'[c].pc = "failed" /\ calls'[c].again = calls[c].again
  BY EndEffect
<1> QED BY <1>1 DEF Settling, Stored, Kept

LEMMA ArriveEffect ==
  ASSUME TypeInv, NEW c \in Calls, NEW p \in Procs, NEW k \in Keys, Arrive(c, p, k)
  PROVE  /\ \A i \in Keys : Stored(i)' = Stored(i)
         /\ \A q \in Procs, i \in Keys : Kept(q, i)' = Kept(q, i)
         /\ calls[c].pc = "new"
         /\ \A d \in Calls : d # c => calls'[d] = calls[d]
         /\ calls'[c].key = k
         /\ \E reply \in 0..TtlTicks :
              /\ \/ persistent[p] /\ reply > 0 /\ reply = Stored(k) /\ misreads' = misreads
                 \/ /\ reply = Kept(p, k) /\ misreads' = misreads
                    /\ persistent[p] => Stored(k) = 0
                 \/ reply = Kept(p, k) /\ Stored(k) > 0 /\ misreads' = misreads + 1
              /\ \/ /\ reply > 0 /\ calls'[c].pc = "answered" /\ overlapped' = overlapped
                    /\ calls'[c].again = IF reply < done[p][k] THEN "stale" ELSE "no"
                 \/ /\ reply = 0 /\ calls'[c].pc = "executing" /\ calls'[c].at = p
                    /\ calls'[c].again = Again(p, k)
                    /\ overlapped' = (overlapped \/ Executing(k) # {})
<1>1. /\ TypeOK /\ calls \in [Calls -> Call] /\ mem \in [Procs -> Stores] /\ overlapped \in BOOLEAN
  BY DEF TypeInv, TypeOK
<1>2. PICK reply \in 0..TtlTicks :
       /\ Get(p, k, reply)
       /\ calls' = [calls EXCEPT ![c] =
            IF reply > 0
              THEN [pc |-> "answered", at |-> NoProc, key |-> k,
                    again |-> IF reply < done[p][k] THEN "stale" ELSE "no"]
              ELSE [pc |-> "executing", at |-> p, key |-> k, again |-> Again(p, k)]]
       /\ overlapped' = (overlapped \/ (reply = 0 /\ Executing(k) # {}))
  BY DEF Arrive
<1>3. PICK m \in Stores : mem' = [mem EXCEPT ![p] = m] /\ \A i : Left(m, i) = Left(mem[p], i)
  BY <1>1, <1>2, GetEffect
<1>4. \A q \in Procs : mem'[q] = IF q = p THEN m ELSE mem[q] BY <1>1, <1>3
<1>5. \A q \in Procs, i \in Keys : Kept(q, i)' = Kept(q, i) BY <1>3, <1>4 DEF Kept
<1>6. \A i \in Keys : Stored(i)' = Stored(i) BY DEF Stored, Arrive
<1>7. \/ persistent[p] /\ reply > 0 /\ reply = Stored(k) /\ misreads' = misreads
      \/ /\ reply = Kept(p, k) /\ misreads' = misreads
         /\ persistent[p] => Stored(k) = 0
      \/ reply = Kept(p, k) /\ Stored(k) > 0 /\ Misread
  BY <1>1, <1>2, GetEffect DEF Stored, Kept
<1>8. Misread => misreads' = misreads + 1 BY DEF Misread
<1>9. calls[c].pc = "new" BY DEF Arrive
<1> DEFINE new == IF reply > 0
              THEN [pc |-> "answered", at |-> NoProc, key |-> k,
                    again |-> IF reply < done[p][k] THEN "stale" ELSE "no"]
              ELSE [pc |-> "executing", at |-> p, key |-> k, again |-> Again(p, k)]
<1>10. calls' = [calls EXCEPT ![c] = new] BY <1>2
<1>11. new.key = k OBVIOUS
<1>12. reply > 0 => /\ new.pc = "answered"
                    /\ new.again = IF reply < done[p][k] THEN "stale" ELSE "no"
  OBVIOUS
<1>13. ~(reply > 0) => new.pc = "executing" /\ new.at = p /\ new.again = Again(p, k) OBVIOUS
<1> HIDE DEF new
<1>14. calls'[c] = new /\ \A d \in Calls : d # c => calls'[d] = calls[d] BY <1>1, <1>10
<1>15. reply > 0 \/ reply = 0 BY CallsAssumption
<1>16. \/ /\ reply > 0 /\ calls'[c].pc = "answered" /\ overlapped' = overlapped
          /\ calls'[c].again = IF reply < done[p][k] THEN "stale" ELSE "no"
       \/ /\ reply = 0 /\ calls'[c].pc = "executing" /\ calls'[c].at = p
          /\ calls'[c].again = Again(p, k)
          /\ overlapped' = (overlapped \/ Executing(k) # {})
  <2>1. CASE reply > 0 BY <2>1, <1>1, <1>2, <1>12, <1>14
  <2>2. CASE reply = 0 BY <2>2, <1>1, <1>2, <1>13, <1>14
  <2> QED BY <1>15, <2>1, <2>2
<1> QED BY <1>5, <1>6, <1>7, <1>8, <1>9, <1>11, <1>14, <1>16

LEMMA FinishEffect ==
  ASSUME TypeInv, NEW c \in Calls, Finish(c)
  PROVE  \E p \in Procs, k \in Keys :
         /\ calls[c].pc = "executing" /\ calls[c].at = p /\ calls[c].key = k
         /\ \A d \in Calls : d # c => calls'[d] = calls[d]
         /\ calls'[c].pc = "answered" /\ calls'[c].key = k /\ calls'[c].again = calls[c].again
         /\ \A q \in Procs, i \in Keys :
              done'[q][i] = IF q = p /\ i = k THEN TtlTicks ELSE done[q][i]
         /\ \A q \in Procs, i \in Keys : q # p => Kept(q, i)' = Kept(q, i)
         /\ \A i \in Keys : i # k => Stored(i)' = Stored(i)
         /\ \/ /\ persistent[p] /\ Stored(k)' = TtlTicks /\ UNCHANGED <<stashes, evictions>>
               /\ \A i \in Keys : Kept(p, i)' = Kept(p, i)
            \/ /\ Stored(k)' = Stored(k) /\ Kept(p, k)' = TtlTicks
               /\ stashes' = IF persistent[p] THEN stashes + 1 ELSE stashes
               /\ \A i \in Keys : i # k => Kept(p, i)' = Kept(p, i) \/ Kept(p, i)' = 0
               /\ \/ evictions' = evictions /\ \A i \in Keys : i # k => Kept(p, i)' = Kept(p, i)
                  \/ evictions' = evictions + 1
<1>1. /\ TypeOK /\ DictsOK /\ CallsOK /\ mem \in [Procs -> Stores] /\ pg \in Stores
      /\ done \in [Procs -> [Keys -> 0..TtlTicks]]
  BY DEF TypeInv, TypeOK
<1>2. calls[c].pc = "executing" /\ calls' = [calls EXCEPT ![c] = Ended(@, "answered")]
  BY DEF Finish
<1>3. PICK p \in Procs, k \in Keys : p = calls[c].at /\ k = calls[c].key
  BY <1>1, <1>2 DEF CallsOK
<1>4. /\ \A d \in Calls : d # c => calls'[d] = calls[d]
      /\ calls'[c].pc = "answered" /\ calls'[c].key = k /\ calls'[c].again = calls[c].again
  BY <1>2, <1>3, EndEffect
<1>5. /\ done' = [done EXCEPT ![p] = [done[p] EXCEPT ![k] = TtlTicks]]
      /\ \/ /\ persistent[p] /\ pg' = Holding(pg, k)
            /\ UNCHANGED <<mem, stashes, evictions>>
         \/ /\ pg' = pg
            /\ PutMem(p, k)
            /\ IF persistent[p] THEN Stashing ELSE UNCHANGED stashes
  BY <1>1, <1>3, StoreEffect
<1>6. \A q \in Procs, i \in Keys : done'[q][i] = IF q = p /\ i = k THEN TtlTicks ELSE done[q][i]
  BY <1>1, <1>5
<1>7. CASE /\ persistent[p] /\ pg' = Holding(pg, k)
           /\ UNCHANGED <<mem, stashes, evictions>>
  <2>1. \A i : Left(pg', i) = IF i = k THEN TtlTicks ELSE Left(pg, i)
    BY <1>1, <1>7, HoldingStore
  <2>2. /\ Stored(k)' = TtlTicks /\ \A i \in Keys : i # k => Stored(i)' = Stored(i)
    BY <2>1 DEF Stored
  <2>3. \A q \in Procs, i \in Keys : Kept(q, i)' = Kept(q, i) BY <1>7 DEF Kept
  <2> QED BY <1>2, <1>3, <1>4, <1>6, <1>7, <2>2, <2>3
<1>8. CASE /\ pg' = pg
           /\ PutMem(p, k)
           /\ IF persistent[p] THEN Stashing ELSE UNCHANGED stashes
  <2>1. PICK m \in Stores :
           /\ mem' = [mem EXCEPT ![p] = m]
           /\ Left(m, k) = TtlTicks
           /\ \A i : i # k => Left(m, i) = Left(mem[p], i) \/ Left(m, i) = 0
           /\ \/ evictions' = evictions /\ \A i : i # k => Left(m, i) = Left(mem[p], i)
              \/ evictions' = evictions + 1
    BY <1>1, <1>8, PutMemEffect
  <2>2. \A q \in Procs : mem'[q] = IF q = p THEN m ELSE mem[q] BY <1>1, <2>1
  <2>3. \A q \in Procs, i \in Keys : q # p => Kept(q, i)' = Kept(q, i) BY <2>2 DEF Kept
  <2>4. \A i \in Keys : Kept(p, i)' = Left(m, i) /\ Kept(p, i) = Left(mem[p], i) BY <2>2 DEF Kept
  <2>5. \A i \in Keys : Stored(i)' = Stored(i) BY <1>8 DEF Stored
  <2>6. stashes' = IF persistent[p] THEN stashes + 1 ELSE stashes BY <1>8 DEF Stashing
  <2> QED BY <1>2, <1>3, <1>4, <1>6, <2>1, <2>3, <2>4, <2>5, <2>6
<1> QED BY <1>5, <1>7, <1>8

LEMMA TimeEffect ==
  ASSUME TypeInv, Tick
  PROVE  /\ Settling
         /\ \A k \in Keys : Stored(k)' = Less(Stored(k))
         /\ \A p \in Procs, k \in Keys : /\ Kept(p, k)' = Less(Kept(p, k))
                                         /\ done'[p][k] = Less(done[p][k])
<1>1. TypeOK BY DEF TypeInv
<1>2. Settling BY DEF Tick, Settling
<1> QED BY <1>1, <1>2, TickEffect DEF Stored, Kept

-----------------------------------------------------------------------------
(* At most one execution of a key at a time repeats an earlier one: it     *)
(* began when no other was in flight.                                      *)

OneRepeating ==
  \A c, d \in Calls :
    /\ calls[c].pc = "executing" /\ calls[c].again \in Counted
    /\ calls[d].pc = "executing" /\ calls[d].again \in Counted
    /\ calls[c].key = calls[d].key
    => c = d

(* Settling calls repeat nothing.                                          *)
LEMMA SettlingEffect ==
  ASSUME Settling, NEW k \in Keys, NEW whose
  PROVE  /\ Repeated(k, whose)' = Repeated(k, whose)
         /\ \A p \in Procs : Repeating(p, k, whose)' => Repeating(p, k, whose)
         /\ OneRepeating => OneRepeating'
<1>1. \A d \in Calls : calls'[d].pc \in {"executing", "answered"} => calls'[d] = calls[d]
  BY DEF Settling
<1>2. \A d \in Calls : calls[d].pc = "answered" => calls'[d] = calls[d]
  BY DEF Settling
<1>3. Repeated(k, whose)' = Repeated(k, whose) BY <1>1, <1>2 DEF Repeated
<1>4. \A p \in Procs : Repeating(p, k, whose)' => Repeating(p, k, whose) BY <1>1 DEF Repeating
<1>5. OneRepeating => OneRepeating' BY <1>1 DEF OneRepeating
<1> QED BY <1>3, <1>4, <1>5

LEMMA RepeatedFinite ==
  ASSUME NEW k, NEW whose
  PROVE  /\ IsFiniteSet(Repeated(k, whose)) /\ IsFiniteSet(Repeated(k, whose)')
         /\ Cardinality(Repeated(k, whose)) \in Nat /\ Cardinality(Repeated(k, whose)') \in Nat
<1>1. Repeated(k, whose)' \subseteq Calls /\ Repeated(k, whose) \subseteq Calls BY DEF Repeated
<1>2. IsFiniteSet(Repeated(k, whose)) /\ IsFiniteSet(Repeated(k, whose)')
  BY <1>1, CallsFinite, CountSub
<1> QED BY <1>2, FS_CardinalityType

(* Arriving answers no repeated execution, and starts one only when none   *)
(* of its key is in flight.                                                *)
LEMMA ArrivingRepeats ==
  ASSUME TypeInv, NEW c \in Calls, NEW p \in Procs, NEW k \in Keys, Arrive(c, p, k),
         NEW i \in Keys, NEW whose \in SUBSET Counted
  PROVE  /\ Repeated(i, whose)' \subseteq Repeated(i, whose)
         /\ \A q \in Procs : Repeating(q, i, whose)' =>
              \/ Repeating(q, i, whose)
              \/ /\ q = p /\ i = k /\ Kept(p, k) = 0 /\ Again(p, k) \in whose
                 /\ \/ misreads' = misreads /\ (persistent[p] => Stored(k) = 0)
                    \/ misreads' = misreads + 1
<1>1. /\ calls[c].pc = "new"
      /\ \A d \in Calls : d # c => calls'[d] = calls[d]
      /\ calls'[c].key = k
  BY ArriveEffect
<1>2. PICK reply \in 0..TtlTicks :
              /\ \/ persistent[p] /\ reply > 0 /\ reply = Stored(k) /\ misreads' = misreads
                 \/ /\ reply = Kept(p, k) /\ misreads' = misreads
                    /\ persistent[p] => Stored(k) = 0
                 \/ reply = Kept(p, k) /\ Stored(k) > 0 /\ misreads' = misreads + 1
              /\ \/ /\ reply > 0 /\ calls'[c].pc = "answered" /\ overlapped' = overlapped
                    /\ calls'[c].again = IF reply < done[p][k] THEN "stale" ELSE "no"
                 \/ /\ reply = 0 /\ calls'[c].pc = "executing" /\ calls'[c].at = p
                    /\ calls'[c].again = Again(p, k)
                    /\ overlapped' = (overlapped \/ Executing(k) # {})
  BY ArriveEffect
<1>3. calls'[c].pc = "answered" => calls'[c].again \notin Counted BY <1>2 DEF Counted
<1>4. Repeated(i, whose)' \subseteq Repeated(i, whose)
  BY <1>1, <1>3 DEF Repeated
<1>5. ASSUME NEW q \in Procs, Repeating(q, i, whose)', ~Repeating(q, i, whose)
      PROVE  /\ q = p /\ i = k /\ Kept(p, k) = 0 /\ Again(p, k) \in whose
             /\ \/ misreads' = misreads /\ (persistent[p] => Stored(k) = 0)
                \/ misreads' = misreads + 1
  <2>1. PICK d \in Calls : /\ calls'[d].pc = "executing" /\ calls'[d].key = i
                           /\ calls'[d].at = q /\ calls'[d].again \in whose
    BY <1>5 DEF Repeating
  <2>2. d = c BY <1>1, <1>5, <2>1 DEF Repeating
  <2>3. q = p /\ i = k /\ Again(p, k) \in whose /\ reply = 0 BY <1>1, <1>2, <2>1, <2>2
  <2>4. \/ Kept(p, k) = 0 /\ misreads' = misreads /\ (persistent[p] => Stored(k) = 0)
        \/ Kept(p, k) = 0 /\ misreads' = misreads + 1
    BY <1>2, <2>3
  <2> QED BY <2>3, <2>4
<1> QED BY <1>4, <1>5

(* An answer ends the execution it answers, and no other.                  *)
LEMMA FinishingRepeats ==
  ASSUME TypeInv, OneRepeating, NEW c \in Calls, NEW p \in Procs, NEW k \in Keys,
         calls[c].pc = "executing", calls[c].at = p, calls[c].key = k,
         \A d \in Calls : d # c => calls'[d] = calls[d],
         calls'[c].pc = "answered", calls'[c].key = k, calls'[c].again = calls[c].again,
         NEW i \in Keys, NEW whose \in SUBSET Counted
  PROVE  /\ \A q \in Procs : Repeating(q, i, whose)' => Repeating(q, i, whose)
         /\ IF i = k /\ calls[c].again \in whose
            THEN /\ Repeated(i, whose)' \subseteq Repeated(i, whose) \union {c}
                 /\ Repeating(p, k, whose)
                 /\ \A q \in Procs : ~Repeating(q, i, whose)'
            ELSE Repeated(i, whose)' \subseteq Repeated(i, whose)
<1>1. \A q \in Procs : Repeating(q, i, whose)' => Repeating(q, i, whose) BY DEF Repeating
<1>2. CASE i = k /\ calls[c].again \in whose
  <2>1. Repeated(i, whose)' \subseteq Repeated(i, whose) \union {c} BY DEF Repeated
  <2>2. Repeating(p, k, whose) BY <1>2 DEF Repeating
  <2>3. ASSUME NEW q \in Procs, Repeating(q, i, whose)' PROVE FALSE
    <3>1. PICK d \in Calls : /\ calls'[d].pc = "executing" /\ calls'[d].key = i
                             /\ calls'[d].at = q /\ calls'[d].again \in whose
      BY <2>3 DEF Repeating
    <3>2. d # c /\ calls'[d] = calls[d] BY <3>1
    <3> QED BY <3>1, <3>2, <1>2 DEF OneRepeating
  <2> QED BY <1>1, <1>2, <2>1, <2>2, <2>3
<1>3. CASE ~(i = k /\ calls[c].again \in whose)
  <2>1. Repeated(i, whose)' \subseteq Repeated(i, whose) BY <1>3 DEF Repeated
  <2> QED BY <1>1, <1>3, <2>1
<1> QED BY <1>2, <1>3

LEMMA OneRepeatingNext == TypeInv /\ OneRepeating /\ [Next]_vars => OneRepeating'
<1> SUFFICES ASSUME TypeInv, OneRepeating, [Next]_vars PROVE OneRepeating' OBVIOUS
<1>1. ASSUME Settling PROVE OneRepeating' BY <1>1 DEF Settling, OneRepeating
<1>2. ASSUME NEW c \in Calls, NEW p \in Procs, NEW k \in Keys, Arrive(c, p, k)
      PROVE  OneRepeating'
  <2>1. /\ \A d \in Calls : d # c => calls'[d] = calls[d]
        /\ calls'[c].key = k
        /\ calls'[c].pc = "executing" => calls'[c].again = Again(p, k)
    BY <1>2, ArriveEffect
  <2>2. Again(p, k) \in Counted => Executing(k) = {} BY DEF Again, Counted
  <2>3. Executing(k) = {} => \A d \in Calls : ~(calls[d].pc = "executing" /\ calls[d].key = k)
    BY DEF Executing
  <2> QED BY <2>1, <2>2, <2>3 DEF OneRepeating
<1>3. ASSUME NEW c \in Calls, Finish(c) PROVE OneRepeating'
  <2>1. /\ \A d \in Calls : d # c => calls'[d] = calls[d]
        /\ calls'[c].pc = "answered"
    BY <1>3, FinishEffect
  <2> QED BY <2>1 DEF OneRepeating
<1>4. ASSUME NEW p \in Procs, Start(p) PROVE Settling
  BY <1>4 DEF Start, callVars, Settling
<1>5. UNCHANGED vars => Settling BY DEF vars, Settling
<1> QED
  BY <1>1, <1>2, <1>3, <1>4, <1>5, CrashEffect, CleanupEffect, FailEffect, TimeEffect DEF Next

-----------------------------------------------------------------------------
(* The cost of a process's own repetitions, per key: each answered one was *)
(* paid for, and so was each process that would repeat its last answer, or *)
(* is about to.                                                            *)

Owes(p, k) == /\ persistent[p] => done[p][k] > Stored(k)
              /\ done[p][k] > Kept(p, k)

Debtors(k) == {p \in Procs : Owes(p, k) \/ Repeating(p, k, {"own"})}

Paid == misreads + crashes + evictions

OwnAccount(k) == /\ IsFiniteSet(Debtors(k))
                 /\ Cardinality(Repeated(k, {"own"})) + Cardinality(Debtors(k)) <= Paid

OwnInv == \A k \in Keys : OwnAccount(k)

LEMMA PaidType == ASSUME TypeOK PROVE Paid \in Nat /\ misreads \in Nat /\ crashes \in Nat /\ evictions \in Nat
<1>1. MaxLapses \in Nat /\ MaxCrashes \in Nat /\ MaxCalls \in Nat BY CallsAssumption
<1>2. misreads \in Nat /\ crashes \in Nat /\ evictions \in Nat BY <1>1 DEF TypeOK
<1> QED BY <1>2 DEF Paid

LEMMA PaidNext == ASSUME TypeOK' PROVE Paid' \in Nat
<1>1. MaxLapses \in Nat /\ MaxCrashes \in Nat /\ MaxCalls \in Nat BY CallsAssumption
<1>2. misreads' \in 0..MaxLapses /\ crashes' \in 0..MaxCrashes /\ evictions' \in 0..MaxCalls
  BY DEF TypeOK
<1>3. misreads' \in Nat /\ crashes' \in Nat /\ evictions' \in Nat BY <1>1, <1>2
<1>4. \A a, b, c \in Nat : a + b + c \in Nat OBVIOUS
<1>5. misreads' + crashes' + evictions' \in Nat BY <1>3, <1>4, Zenon
<1> QED BY <1>5, Zenon DEF Paid

LEMMA OwnAccountKept ==
  ASSUME TypeOK, TypeOK', NEW k \in Keys, OwnAccount(k),
         Repeated(k, {"own"})' \subseteq Repeated(k, {"own"}),
         \/ Debtors(k)' \subseteq Debtors(k) /\ Paid' >= Paid
         \/ \E p : Debtors(k)' \subseteq Debtors(k) \union {p} /\ Paid' >= Paid + 1
  PROVE  OwnAccount(k)'
<1> DEFINE R == Repeated(k, {"own"})
           D == Debtors(k)
<1>1. /\ IsFiniteSet(D) /\ Cardinality(D) \in Nat /\ Cardinality(R) + Cardinality(D) <= Paid
  BY FS_CardinalityType DEF OwnAccount
<1>2. /\ IsFiniteSet(R) /\ Cardinality(R) \in Nat /\ Cardinality(R') \in Nat
      /\ Cardinality(R') <= Cardinality(R)
  BY RepeatedFinite, CountSub
<1>3. Paid \in Nat BY PaidType
<1>3b. Paid' \in Nat BY PaidNext
<1>4. CASE D' \subseteq D /\ Paid' >= Paid
  <2>1. IsFiniteSet(D') /\ Cardinality(D') <= Cardinality(D) BY <1>1, <1>4, CountSub
  <2>2. Cardinality(D') \in Nat BY <2>1, FS_CardinalityType
  <2>3. Cardinality(R') + Cardinality(D') <= Paid' BY <1>1, <1>2, <1>3, <1>3b, <1>4, <2>1, <2>2
  <2> QED BY <2>1, <2>3 DEF OwnAccount
<1>5. CASE \E p : D' \subseteq D \union {p} /\ Paid' >= Paid + 1
  <2>1. IsFiniteSet(D') /\ Cardinality(D') <= Cardinality(D) + 1 BY <1>1, <1>5, CountAdd
  <2>2. Cardinality(D') \in Nat BY <2>1, FS_CardinalityType
  <2>3. Cardinality(R') + Cardinality(D') <= Paid' BY <1>1, <1>2, <1>3, <1>3b, <1>5, <2>1, <2>2
  <2> QED BY <2>1, <2>3 DEF OwnAccount
<1> QED BY <1>4, <1>5

LEMMA OwnAccountSpent ==
  ASSUME TypeOK, TypeOK', NEW k \in Keys, OwnAccount(k), NEW c, NEW p \in Debtors(k),
         Repeated(k, {"own"})' \subseteq Repeated(k, {"own"}) \union {c},
         Debtors(k)' \subseteq Debtors(k) \ {p}, Paid' >= Paid
  PROVE  OwnAccount(k)'
<1> DEFINE R == Repeated(k, {"own"})
           D == Debtors(k)
<1>1. /\ IsFiniteSet(D) /\ Cardinality(D) \in Nat /\ Cardinality(R) + Cardinality(D) <= Paid
  BY FS_CardinalityType DEF OwnAccount
<1>2. IsFiniteSet(R) /\ Cardinality(R) \in Nat /\ Cardinality(R') \in Nat BY RepeatedFinite
<1>3. Cardinality(R') <= Cardinality(R) + 1 BY <1>2, CountAdd
<1>4. IsFiniteSet(D') /\ Cardinality(D') + 1 <= Cardinality(D) BY <1>1, CountRemove
<1>5. Cardinality(D') \in Nat BY <1>4, FS_CardinalityType
<1>6. Paid \in Nat BY PaidType
<1>7. Paid' \in Nat BY PaidNext
<1>8. Cardinality(R') + Cardinality(D') <= Paid' BY <1>1, <1>2, <1>3, <1>4, <1>5, <1>6, <1>7
<1> QED BY <1>4, <1>8 DEF OwnAccount

LEMMA OwnInit == Init => OwnInv
<1> SUFFICES ASSUME Init, NEW k \in Keys PROVE OwnAccount(k) BY DEF OwnInv
<1>1. \A p \in Procs : done[p][k] = 0 /\ Stored(k) = 0 /\ Kept(p, k) = 0
  BY EmptyStore DEF Init, Stored, Kept
<1>2. \A c \in Calls : calls[c].pc = "new" BY DEF Init, NewCall
<1>3. Debtors(k) = {} /\ Repeated(k, {"own"}) = {}
  BY <1>1, <1>2 DEF Debtors, Owes, Repeating, Repeated
<1>4. Paid = 0 BY DEF Init, Paid
<1> QED BY <1>3, <1>4, FS_EmptySet DEF OwnAccount

\* a call that ends without an answer, or does not end, costs nothing
LEMMA OwnSettling ==
  ASSUME TypeOK, TypeOK', Settling, NEW k \in Keys, OwnAccount(k),
         \/ /\ Paid' >= Paid
            /\ \A q \in Procs : Owes(q, k)' => Owes(q, k)
         \/ /\ Paid' >= Paid + 1
            /\ \E p : \A q \in Procs : q # p /\ Owes(q, k)' => Owes(q, k)
  PROVE  OwnAccount(k)'
<1>1. /\ Repeated(k, {"own"})' = Repeated(k, {"own"})
      /\ \A q \in Procs : Repeating(q, k, {"own"})' => Repeating(q, k, {"own"})
  BY SettlingEffect
<1>2. CASE Paid' >= Paid /\ \A q \in Procs : Owes(q, k)' => Owes(q, k)
  <2>1. Debtors(k)' \subseteq Debtors(k) BY <1>1, <1>2 DEF Debtors
  <2> QED BY <1>1, <1>2, <2>1, OwnAccountKept
<1>3. CASE /\ Paid' >= Paid + 1
           /\ \E p : \A q \in Procs : q # p /\ Owes(q, k)' => Owes(q, k)
  <2>1. PICK p : \A q \in Procs : q # p /\ Owes(q, k)' => Owes(q, k) BY <1>3
  <2>2. Debtors(k)' \subseteq Debtors(k) \union {p} BY <1>1, <2>1 DEF Debtors
  <2> QED BY <1>1, <1>3, <2>2, OwnAccountKept
<1> QED BY <1>2, <1>3

LEMMA OwnNext == TypeInv /\ TypeInv' /\ OneRepeating /\ OwnInv /\ [Next]_vars => OwnInv'
<1> SUFFICES ASSUME TypeInv, TypeInv', OneRepeating, OwnInv, [Next]_vars, NEW k \in Keys
             PROVE  OwnAccount(k)'
  BY DEF OwnInv
<1>1. OwnAccount(k) /\ TypeOK /\ TypeOK' BY DEF OwnInv, TypeInv
<1>2. misreads \in Nat /\ crashes \in Nat /\ evictions \in Nat BY <1>1, PaidType
<1>3. \A p \in Procs : /\ Stored(k) \in 0..TtlTicks /\ Kept(p, k) \in 0..TtlTicks
                       /\ done[p][k] \in 0..TtlTicks
  BY <1>1, LeftTypes
<1>4. TtlTicks \in Nat BY CallsAssumption
<1>5. ASSUME NEW p \in Procs, Start(p) PROVE OwnAccount(k)'
  <2> USE <1>5 DEF Start, callVars
  <2>1. Settling BY DEF Settling
  <2>2. \A q \in Procs : Stored(k)' = Stored(k) /\ Kept(q, k)' = Kept(q, k) /\ done'[q][k] = done[q][k]
    BY DEF Stored, Kept
  <2>3. persistent \in [Procs -> BOOLEAN] BY <1>1 DEF TypeOK
  <2>4. \A q \in Procs : q # p /\ Owes(q, k)' => Owes(q, k) BY <2>2, <2>3 DEF Owes
  <2>5. CASE persistent' = [persistent EXCEPT ![p] = TRUE] /\ misreads' = misreads
    <3>1. \A q \in Procs : Owes(q, k)' => Owes(q, k) BY <2>2, <2>3, <2>5 DEF Owes
    <3>2. Paid' >= Paid BY <1>2, <2>5 DEF Paid
    <3> QED BY <1>1, <2>1, <3>1, <3>2, OwnSettling
  <2>6. CASE misreads' = misreads + 1
    <3>1. Paid' >= Paid + 1 BY <1>2, <2>6 DEF Paid
    <3> QED BY <1>1, <2>1, <2>4, <3>1, OwnSettling
  <2> QED BY <2>5, <2>6 DEF Misread
<1>6. ASSUME NEW p \in Procs, Crash(p) PROVE OwnAccount(k)'
  <2>1. /\ Settling
        /\ Stored(k)' = Stored(k)
        /\ \A q \in Procs : q # p => Kept(q, k)' = Kept(q, k)
    BY <1>6, CrashEffect
  <2>2. done' = done /\ persistent' = persistent /\ Paid' >= Paid + 1
    BY <1>2, <1>6 DEF Crash, Paid
  <2>3. \A q \in Procs : q # p /\ Owes(q, k)' => Owes(q, k) BY <2>1, <2>2 DEF Owes
  <2> QED BY <1>1, <2>1, <2>2, <2>3, OwnSettling
<1>7. ASSUME NEW p \in Procs, Cleanup(p) PROVE OwnAccount(k)'
  <2>1. /\ Settling
        /\ Stored(k)' = Stored(k)
        /\ \A q \in Procs : Kept(q, k)' = Kept(q, k)
    BY <1>7, CleanupEffect
  <2>2. done' = done /\ persistent' = persistent /\ Paid' >= Paid
    BY <1>2, <1>7 DEF Cleanup, Paid, callVars, faultVars
  <2>3. \A q \in Procs : Owes(q, k)' => Owes(q, k) BY <2>1, <2>2 DEF Owes
  <2> QED BY <1>1, <2>1, <2>2, <2>3, OwnSettling
<1>8. ASSUME NEW c \in Calls, NEW p \in Procs, NEW i \in Keys, Arrive(c, p, i)
      PROVE  OwnAccount(k)'
  <2>1. /\ Stored(k)' = Stored(k) /\ \A q \in Procs : Kept(q, k)' = Kept(q, k)
        /\ misreads' = misreads \/ misreads' = misreads + 1
    BY <1>8, ArriveEffect
  <2>2. /\ done' = done /\ persistent' = persistent /\ Paid' >= Paid
        /\ misreads' = misreads + 1 => Paid' >= Paid + 1
    BY <1>2, <1>8, <2>1 DEF Arrive, Paid
  <2>3. \A q \in Procs : Owes(q, k)' => Owes(q, k) BY <2>1, <2>2 DEF Owes
  <2>4. {"own"} \in SUBSET Counted BY DEF Counted
  <2>5. /\ Repeated(k, {"own"})' \subseteq Repeated(k, {"own"})
        /\ \A q \in Procs : Repeating(q, k, {"own"})' =>
             \/ Repeating(q, k, {"own"})
             \/ /\ q = p /\ k = i /\ Kept(p, i) = 0 /\ Again(p, i) \in {"own"}
                /\ \/ misreads' = misreads /\ (persistent[p] => Stored(i) = 0)
                   \/ misreads' = misreads + 1
    BY <1>8, <2>4, ArrivingRepeats
  <2>6. Again(p, k) = "own" => done[p][k] > 0 BY DEF Again
  <2>7. CASE misreads' = misreads + 1
    <3>1. Debtors(k)' \subseteq Debtors(k) \union {p} BY <2>3, <2>5 DEF Debtors
    <3> QED BY <1>1, <2>2, <2>5, <2>7, <3>1, OwnAccountKept
  <2>8. CASE misreads' # misreads + 1
    <3>1. \A q \in Procs : Repeating(q, k, {"own"})' => Repeating(q, k, {"own"}) \/ Owes(q, k)
      BY <2>5, <2>6, <2>8 DEF Owes
    <3>2. Debtors(k)' \subseteq Debtors(k) BY <2>3, <3>1 DEF Debtors
    <3> QED BY <1>1, <2>2, <2>5, <3>2, OwnAccountKept
  <2> QED BY <2>7, <2>8
<1>9. ASSUME NEW c \in Calls, Finish(c) PROVE OwnAccount(k)'
  <2>1. PICK p \in Procs, i \in Keys :
         /\ calls[c].pc = "executing" /\ calls[c].at = p /\ calls[c].key = i
         /\ \A d \in Calls : d # c => calls'[d] = calls[d]
         /\ calls'[c].pc = "answered" /\ calls'[c].key = i /\ calls'[c].again = calls[c].again
         /\ \A q \in Procs, j \in Keys :
              done'[q][j] = IF q = p /\ j = i THEN TtlTicks ELSE done[q][j]
         /\ \A q \in Procs, j \in Keys : q # p => Kept(q, j)' = Kept(q, j)
         /\ \A j \in Keys : j # i => Stored(j)' = Stored(j)
         /\ \/ /\ persistent[p] /\ Stored(i)' = TtlTicks /\ UNCHANGED <<stashes, evictions>>
               /\ \A j \in Keys : Kept(p, j)' = Kept(p, j)
            \/ /\ Stored(i)' = Stored(i) /\ Kept(p, i)' = TtlTicks
               /\ stashes' = IF persistent[p] THEN stashes + 1 ELSE stashes
               /\ \A j \in Keys : j # i => Kept(p, j)' = Kept(p, j) \/ Kept(p, j)' = 0
               /\ \/ evictions' = evictions /\ \A j \in Keys : j # i => Kept(p, j)' = Kept(p, j)
                  \/ evictions' = evictions + 1
    BY <1>9, FinishEffect
  <2>2. /\ persistent' = persistent /\ misreads' = misreads /\ crashes' = crashes
    BY <1>9 DEF Finish
  <2>3. evictions' = evictions \/ evictions' = evictions + 1 BY <2>1
  <2>4. Paid' >= Paid /\ (evictions' = evictions + 1 => Paid' >= Paid + 1)
    BY <1>2, <2>2, <2>3 DEF Paid
  <2>5. {"own"} \in SUBSET Counted BY DEF Counted
  <2>6. /\ \A q \in Procs : Repeating(q, k, {"own"})' => Repeating(q, k, {"own"})
        /\ IF k = i /\ calls[c].again \in {"own"}
           THEN /\ Repeated(k, {"own"})' \subseteq Repeated(k, {"own"}) \union {c}
                /\ Repeating(p, i, {"own"})
                /\ \A q \in Procs : ~Repeating(q, k, {"own"})'
           ELSE Repeated(k, {"own"})' \subseteq Repeated(k, {"own"})
    BY <2>1, <2>5, FinishingRepeats
  <2>7. CASE k # i
    <3>1. \A q \in Procs : done'[q][k] = done[q][k] BY <2>1, <2>7
    <3>2. Stored(k)' = Stored(k) /\ \A q \in Procs : q # p => Kept(q, k)' = Kept(q, k)
      BY <2>1, <2>7
    <3>3. \A q \in Procs : q # p /\ Owes(q, k)' => Owes(q, k) BY <2>2, <3>1, <3>2 DEF Owes
    <3>4. Repeated(k, {"own"})' \subseteq Repeated(k, {"own"}) BY <2>6, <2>7
    <3>5. CASE Kept(p, k)' = Kept(p, k)
      <4>1. \A q \in Procs : Owes(q, k)' => Owes(q, k) BY <2>2, <3>1, <3>2, <3>5 DEF Owes
      <4>2. Debtors(k)' \subseteq Debtors(k) BY <2>6, <4>1 DEF Debtors
      <4> QED BY <1>1, <2>4, <3>4, <4>2, OwnAccountKept
    <3>6. CASE evictions' = evictions + 1
      <4>1. Debtors(k)' \subseteq Debtors(k) \union {p} BY <2>6, <3>3 DEF Debtors
      <4> QED BY <1>1, <2>4, <3>4, <3>6, <4>1, OwnAccountKept
    <3> QED BY <2>1, <2>7, <3>5, <3>6
  <2>8. CASE k = i
    <3>1. done'[p][k] = TtlTicks /\ \A q \in Procs : q # p => done'[q][k] = done[q][k]
      BY <2>1, <2>8
    <3>2. Stored(k)' = Stored(k) \/ Stored(k)' = TtlTicks BY <2>1, <2>8
    <3>3. \/ persistent[p] /\ Stored(k)' = TtlTicks
          \/ Kept(p, k)' = TtlTicks
      BY <2>1, <2>8
    <3>4. ~Owes(p, k)' BY <1>4, <2>2, <3>1, <3>3 DEF Owes
    <3>5. ASSUME NEW q \in Procs, Owes(q, k)' PROVE Owes(q, k)
      <4>1. q # p BY <3>4, <3>5
      <4>2. done'[q][k] = done[q][k] /\ Kept(q, k)' = Kept(q, k) BY <2>1, <2>8, <4>1
      <4>3. Stored(k) <= TtlTicks BY <1>3
      <4> QED BY <1>3, <1>4, <2>2, <3>2, <3>5, <4>2, <4>3 DEF Owes
    <3>6. CASE calls[c].again = "own"
      <4>1. p \in Debtors(k) BY <2>6, <2>8, <3>6 DEF Debtors
      <4>2. Debtors(k)' \subseteq Debtors(k) \ {p} BY <2>6, <2>8, <3>4, <3>5, <3>6 DEF Debtors
      <4>3. Repeated(k, {"own"})' \subseteq Repeated(k, {"own"}) \union {c} BY <2>6, <2>8, <3>6
      <4> QED BY <1>1, <2>4, <4>1, <4>2, <4>3, OwnAccountSpent
    <3>7. CASE calls[c].again # "own"
      <4>1. Debtors(k)' \subseteq Debtors(k) BY <2>6, <3>5 DEF Debtors
      <4>2. Repeated(k, {"own"})' \subseteq Repeated(k, {"own"}) BY <2>6, <3>7
      <4> QED BY <1>1, <2>4, <4>1, <4>2, OwnAccountKept
    <3> QED BY <3>6, <3>7
  <2> QED BY <2>7, <2>8
<1>10. ASSUME NEW c \in Calls, Fail(c) PROVE OwnAccount(k)'
  <2>1. /\ Settling
        /\ Stored(k)' = Stored(k)
        /\ \A q \in Procs : Kept(q, k)' = Kept(q, k)
    BY <1>10, FailEffect
  <2>2. done' = done /\ persistent' = persistent /\ Paid' >= Paid
    BY <1>2, <1>10 DEF Fail, Paid, faultVars
  <2>3. \A q \in Procs : Owes(q, k)' => Owes(q, k) BY <2>1, <2>2 DEF Owes
  <2> QED BY <1>1, <2>1, <2>2, <2>3, OwnSettling
<1>11. CASE Tick
  <2>1. /\ Settling
        /\ Stored(k)' = Less(Stored(k))
        /\ \A q \in Procs : Kept(q, k)' = Less(Kept(q, k)) /\ done'[q][k] = Less(done[q][k])
    BY <1>11, TimeEffect
  <2>2. persistent' = persistent /\ Paid' >= Paid BY <1>2, <1>11 DEF Tick, Paid, faultVars
  <2>3. \A m, n \in Nat : Less(m) > Less(n) => m > n BY DEF Less
  <2>4. \A q \in Procs : Stored(k) \in Nat /\ Kept(q, k) \in Nat /\ done[q][k] \in Nat
    BY <1>3, <1>4
  <2>5. \A q \in Procs : Owes(q, k)' => Owes(q, k) BY <2>1, <2>2, <2>3, <2>4 DEF Owes
  <2> QED BY <1>1, <2>1, <2>2, <2>5, OwnSettling
<1>12. CASE UNCHANGED vars
  <2> USE <1>12 DEF vars
  <2>1. Settling BY DEF Settling
  <2>2. \A q \in Procs : Owes(q, k)' => Owes(q, k) BY DEF Owes, Stored, Kept
  <2>3. Paid' >= Paid BY <1>2 DEF Paid
  <2> QED BY <1>1, <2>1, <2>2, <2>3, OwnSettling
<1> QED BY <1>5, <1>6, <1>7, <1>8, <1>9, <1>10, <1>11, <1>12 DEF Next

LEMMA OneRepeatingInit == Init => OneRepeating
BY DEF Init, NewCall, OneRepeating

(* At most one execution of a key in flight repeats an earlier one.        *)
THEOREM RepeatsAlone == Spec => []OneRepeating
BY TypeInvariant, OneRepeatingInit, OneRepeatingNext, PTL DEF Spec

(* A process executes again what it answered within the TTL only for a     *)
(* lookup that failed, a crash or an eviction of its own: put-then-get     *)
(* survives a database that flaps.                                         *)
THEOREM OwnRepeats == Spec => []OwnRepeatsPaidFor
<1>1. OwnInv /\ TypeInv => OwnRepeatsPaidFor
  <2> SUFFICES ASSUME OwnInv, TypeInv, NEW k \in Keys
               PROVE  Repeats(k, {"own"}) <= misreads + crashes + evictions
    BY DEF OwnRepeatsPaidFor
  <2>1. /\ IsFiniteSet(Debtors(k))
        /\ Cardinality(Repeated(k, {"own"})) + Cardinality(Debtors(k)) <= Paid
    BY DEF OwnInv, OwnAccount
  <2>2. /\ Cardinality(Debtors(k)) \in Nat /\ Cardinality(Repeated(k, {"own"})) \in Nat
        /\ Paid \in Nat
    BY <2>1, FS_CardinalityType, RepeatedFinite, PaidType DEF TypeInv
  <2>3. Repeats(k, {"own"}) = Cardinality(Repeated(k, {"own"})) BY DEF Repeats, Repeated
  <2> QED BY <2>1, <2>2, <2>3 DEF Paid
<1>2. Spec => []OwnInv
  BY TypeInvariant, RepeatsAlone, OwnInit, OwnNext, PTL DEF Spec
<1> QED BY <1>1, <1>2, TypeInvariant, PTL

-----------------------------------------------------------------------------
(* The cost of every repetition, while each process has its table: a key   *)
(* owes one as long as some answer is not in the table, or one is under    *)
(* way.                                                                    *)

Unstored(k) == \E p \in Procs : done[p][k] > Stored(k) \/ Repeating(p, k, Counted)

SharedAccount(k) ==
  Cardinality(Repeated(k, Counted)) + (IF Unstored(k) THEN 1 ELSE 0) <= lapses

AllPersistent == \A p \in Procs : persistent[p]

SharedInv == ~split => AllPersistent /\ \A k \in Keys : SharedAccount(k)

LEMMA SharedInit == Init => SharedInv
<1> SUFFICES ASSUME Init PROVE SharedInv OBVIOUS
<1>1. AllPersistent BY DEF Init, AllPersistent
<1>2. ASSUME NEW k \in Keys PROVE SharedAccount(k)
  <2>1. \A p \in Procs : done[p][k] = 0 /\ Stored(k) = 0
    BY EmptyStore DEF Init, Stored
  <2>2. \A c \in Calls : calls[c].pc = "new" BY DEF Init, NewCall
  <2>3. ~Unstored(k) /\ Repeated(k, Counted) = {}
    BY <2>1, <2>2 DEF Unstored, Repeating, Repeated
  <2>4. lapses = 0 BY DEF Init, lapses
  <2>5. Cardinality(Repeated(k, Counted)) = 0 BY <2>3, FS_EmptySet
  <2> QED BY <2>3, <2>4, <2>5 DEF SharedAccount
<1> QED BY <1>1, <1>2 DEF SharedInv

LEMMA SharedAccountKept ==
  ASSUME NEW k \in Keys, SharedAccount(k), lapses \in Nat, lapses' \in Nat,
         Repeated(k, Counted)' \subseteq Repeated(k, Counted),
         lapses' >= lapses, Unstored(k)' => Unstored(k) \/ lapses' >= lapses + 1
  PROVE  SharedAccount(k)'
<1> DEFINE R == Repeated(k, Counted)
<1>1. /\ IsFiniteSet(R) /\ Cardinality(R) \in Nat /\ Cardinality(R') \in Nat
      /\ Cardinality(R') <= Cardinality(R)
  BY RepeatedFinite, CountSub
<1> DEFINE u == IF Unstored(k) THEN 1 ELSE 0
           v == IF Unstored(k)' THEN 1 ELSE 0
<1>2. u \in {0, 1} /\ v \in {0, 1} /\ (v <= u \/ lapses' >= lapses + 1) OBVIOUS
<1>3. Cardinality(R) + u <= lapses BY DEF SharedAccount
<1> HIDE DEF u, v
<1>4. Cardinality(R') + v <= lapses' BY <1>1, <1>2, <1>3
<1> QED BY <1>4 DEF SharedAccount, v

LEMMA LapsesNext == ASSUME TypeOK, TypeOK' PROVE lapses \in Nat /\ lapses' \in Nat /\ misreads \in Nat /\ stashes \in Nat
<1>1. MaxLapses \in Nat BY CallsAssumption
<1>2. misreads \in Nat /\ stashes \in Nat BY <1>1 DEF TypeOK
<1>3. misreads' \in Nat /\ stashes' \in Nat BY <1>1 DEF TypeOK
<1>4. \A a, b \in Nat : a + b \in Nat OBVIOUS
<1>5. misreads + stashes \in Nat /\ misreads' + stashes' \in Nat BY <1>2, <1>3, <1>4, Zenon
<1> QED BY <1>2, <1>5, Zenon DEF lapses

LEMMA SharedNext == TypeInv /\ TypeInv' /\ OneRepeating /\ SharedInv /\ [Next]_vars => SharedInv'
<1> SUFFICES ASSUME TypeInv, TypeInv', OneRepeating, SharedInv, [Next]_vars, ~split'
             PROVE  AllPersistent' /\ \A k \in Keys : SharedAccount(k)'
  BY DEF SharedInv
<1>1. TypeOK /\ TypeOK' BY DEF TypeInv
<1>2. lapses \in Nat /\ lapses' \in Nat /\ misreads \in Nat /\ stashes \in Nat BY <1>1, LapsesNext
<1>3. TtlTicks \in Nat BY CallsAssumption
<1>4. Counted \in SUBSET Counted OBVIOUS
<1>5. ASSUME NEW p \in Procs, Start(p) PROVE AllPersistent' /\ \A k \in Keys : SharedAccount(k)'
  <2> USE <1>5 DEF Start, callVars
  <2>1. persistent' = [persistent EXCEPT ![p] = TRUE] /\ UNCHANGED <<split, misreads>> OBVIOUS
  <2>2. AllPersistent /\ \A k \in Keys : SharedAccount(k) BY <2>1 DEF SharedInv
  <2>3. AllPersistent' BY <1>1, <2>1, <2>2 DEF AllPersistent, TypeOK
  <2>4. \A k \in Keys : SharedAccount(k)'
    BY <2>1, <2>2 DEF SharedAccount, Repeated, Unstored, Repeating, Stored, lapses
  <2> QED BY <2>3, <2>4
<1>6. ASSUME NEW p \in Procs, Crash(p) PROVE AllPersistent' /\ \A k \in Keys : SharedAccount(k)'
  <2>1. persistent' = persistent /\ done' = done /\ split' = split /\ lapses' = lapses
    BY <1>6 DEF Crash, lapses
  <2>2. AllPersistent /\ \A k \in Keys : SharedAccount(k) BY <2>1 DEF SharedInv
  <2>3. ASSUME NEW k \in Keys PROVE SharedAccount(k)'
    <3>1. Settling /\ Stored(k)' = Stored(k) BY <1>6, CrashEffect
    <3>2. Repeated(k, Counted)' = Repeated(k, Counted) BY <3>1, SettlingEffect
    <3>3. \A q \in Procs : Repeating(q, k, Counted)' => Repeating(q, k, Counted)
      BY <3>1, SettlingEffect
    <3>4. Unstored(k)' => Unstored(k) BY <2>1, <3>1, <3>3 DEF Unstored
    <3> QED BY <1>2, <2>1, <2>2, <3>2, <3>4, SharedAccountKept
  <2> QED BY <2>1, <2>2, <2>3 DEF AllPersistent
<1>7. ASSUME NEW p \in Procs, Cleanup(p) PROVE AllPersistent' /\ \A k \in Keys : SharedAccount(k)'
  <2>1. persistent' = persistent /\ done' = done /\ split' = split /\ lapses' = lapses
    BY <1>7 DEF Cleanup, lapses, callVars, faultVars
  <2>2. AllPersistent /\ \A k \in Keys : SharedAccount(k) BY <2>1 DEF SharedInv
  <2>3. ASSUME NEW k \in Keys PROVE SharedAccount(k)'
    <3>1. Settling /\ Stored(k)' = Stored(k) BY <1>7, CleanupEffect
    <3>2. Repeated(k, Counted)' = Repeated(k, Counted) BY <3>1, SettlingEffect
    <3>3. \A q \in Procs : Repeating(q, k, Counted)' => Repeating(q, k, Counted)
      BY <3>1, SettlingEffect
    <3>4. Unstored(k)' => Unstored(k) BY <2>1, <3>1, <3>3 DEF Unstored
    <3> QED BY <1>2, <2>1, <2>2, <3>2, <3>4, SharedAccountKept
  <2> QED BY <2>1, <2>2, <2>3 DEF AllPersistent
<1>8. ASSUME NEW c \in Calls, NEW p \in Procs, NEW i \in Keys, Arrive(c, p, i)
      PROVE  AllPersistent' /\ \A k \in Keys : SharedAccount(k)'
  <2>1. persistent' = persistent /\ done' = done /\ split' = split /\ stashes' = stashes
    BY <1>8 DEF Arrive
  <2>2. AllPersistent /\ \A k \in Keys : SharedAccount(k) BY <2>1 DEF SharedInv
  <2>3. misreads' = misreads \/ misreads' = misreads + 1 BY <1>8, ArriveEffect
  <2>4. lapses' >= lapses /\ (misreads' = misreads + 1 => lapses' >= lapses + 1)
    BY <1>2, <2>1, <2>3 DEF lapses
  <2>5. ASSUME NEW k \in Keys PROVE SharedAccount(k)'
    <3>1. Stored(k)' = Stored(k) BY <1>8, ArriveEffect
    <3>2. /\ Repeated(k, Counted)' \subseteq Repeated(k, Counted)
          /\ \A q \in Procs : Repeating(q, k, Counted)' =>
               \/ Repeating(q, k, Counted)
               \/ /\ q = p /\ k = i /\ Kept(p, i) = 0 /\ Again(p, i) \in Counted
                  /\ \/ misreads' = misreads /\ (persistent[p] => Stored(i) = 0)
                     \/ misreads' = misreads + 1
      BY <1>4, <1>8, ArrivingRepeats
    <3>3. Again(p, k) \in Counted => \E q \in Procs : done[q][k] > 0 BY DEF Again, Counted
    <3>4. ASSUME Unstored(k)' PROVE Unstored(k) \/ lapses' >= lapses + 1
      <4>1. PICK q \in Procs : done'[q][k] > Stored(k)' \/ Repeating(q, k, Counted)'
        BY <3>4 DEF Unstored
      <4>2. CASE done'[q][k] > Stored(k)' BY <2>1, <3>1, <4>2 DEF Unstored
      <4>3. CASE Repeating(q, k, Counted)'
        <5>1. CASE Repeating(q, k, Counted) BY <5>1 DEF Unstored
        <5>2. CASE misreads' = misreads + 1 BY <2>4, <5>2
        <5>3. CASE k = i /\ Again(p, i) \in Counted /\ Stored(i) = 0
          BY <3>3, <5>3 DEF Unstored
        <5> QED BY <2>2, <3>2, <4>3, <5>1, <5>2, <5>3 DEF AllPersistent
      <4> QED BY <4>1, <4>2, <4>3
    <3> QED BY <1>2, <2>2, <2>4, <3>2, <3>4, SharedAccountKept
  <2> QED BY <2>1, <2>2, <2>5 DEF AllPersistent
<1>9. ASSUME NEW c \in Calls, Finish(c) PROVE AllPersistent' /\ \A k \in Keys : SharedAccount(k)'
  <2>1. persistent' = persistent /\ split' = split /\ misreads' = misreads BY <1>9 DEF Finish
  <2>2. AllPersistent /\ \A k \in Keys : SharedAccount(k) BY <2>1 DEF SharedInv
  <2>3. PICK p \in Procs, i \in Keys :
         /\ calls[c].pc = "executing" /\ calls[c].at = p /\ calls[c].key = i
         /\ \A d \in Calls : d # c => calls'[d] = calls[d]
         /\ calls'[c].pc = "answered" /\ calls'[c].key = i /\ calls'[c].again = calls[c].again
         /\ \A q \in Procs, j \in Keys :
              done'[q][j] = IF q = p /\ j = i THEN TtlTicks ELSE done[q][j]
         /\ \A j \in Keys : j # i => Stored(j)' = Stored(j)
         /\ \/ Stored(i)' = TtlTicks /\ stashes' = stashes
            \/ Stored(i)' = Stored(i) /\ stashes' = IF persistent[p] THEN stashes + 1 ELSE stashes
    BY <1>9, FinishEffect
  <2>4. \/ Stored(i)' = TtlTicks /\ stashes' = stashes
        \/ Stored(i)' = Stored(i) /\ stashes' = stashes + 1
    BY <2>2, <2>3 DEF AllPersistent
  <2>5. lapses' >= lapses /\ (stashes' = stashes + 1 => lapses' >= lapses + 1)
    BY <1>2, <2>1, <2>4 DEF lapses
  <2>6. ASSUME NEW k \in Keys PROVE SharedAccount(k)'
    <3>1. /\ \A q \in Procs : Repeating(q, k, Counted)' => Repeating(q, k, Counted)
          /\ IF k = i /\ calls[c].again \in Counted
             THEN /\ Repeated(k, Counted)' \subseteq Repeated(k, Counted) \union {c}
                  /\ Repeating(p, i, Counted)
                  /\ \A q \in Procs : ~Repeating(q, k, Counted)'
             ELSE Repeated(k, Counted)' \subseteq Repeated(k, Counted)
      BY <1>4, <2>3, FinishingRepeats
    <3>2. \A q \in Procs : done[q][k] \in 0..TtlTicks /\ Stored(k) \in 0..TtlTicks
      BY <1>1, LeftTypes
    <3>3. CASE k # i
      <4>1. Unstored(k)' => Unstored(k) BY <2>3, <3>1, <3>3 DEF Unstored
      <4> QED BY <1>2, <2>2, <2>5, <3>1, <3>3, <4>1, SharedAccountKept
    <3>4. CASE k = i /\ calls[c].again \notin Counted
      <4>1. ASSUME Stored(k)' = TtlTicks, Unstored(k)' PROVE Unstored(k)
        <5>1. PICK q \in Procs : done'[q][k] > Stored(k)' \/ Repeating(q, k, Counted)'
          BY <4>1 DEF Unstored
        <5>2. done'[q][k] \in 0..TtlTicks BY <1>3, <2>3, <3>2
        <5>3. Repeating(q, k, Counted) BY <1>3, <3>1, <4>1, <5>1, <5>2
        <5> QED BY <5>3 DEF Unstored
      <4>2. Unstored(k)' => Unstored(k) \/ lapses' >= lapses + 1 BY <2>4, <2>5, <3>4, <4>1
      <4> QED BY <1>2, <2>2, <2>5, <3>1, <3>4, <4>2, SharedAccountKept
    <3>5. CASE k = i /\ calls[c].again \in Counted
      <4> DEFINE R == Repeated(k, Counted)
      <4>1. IsFiniteSet(R) /\ Cardinality(R) \in Nat /\ Cardinality(R') \in Nat BY RepeatedFinite
      <4>2. Cardinality(R') <= Cardinality(R) + 1 BY <3>1, <3>5, <4>1, CountAdd
      <4>3. Unstored(k) BY <3>1, <3>5 DEF Unstored
      <4>4. Cardinality(R) + 1 <= lapses BY <2>2, <4>3 DEF SharedAccount
      <4>5. CASE Stored(k)' = TtlTicks
        <5>1. \A q \in Procs : ~(done'[q][k] > Stored(k)') BY <1>3, <2>3, <3>2, <4>5
        <5>2. ~Unstored(k)' BY <3>1, <3>5, <5>1 DEF Unstored
        <5>3. Cardinality(R') <= lapses' BY <1>2, <2>5, <4>1, <4>2, <4>4
        <5> QED BY <4>1, <5>2, <5>3 DEF SharedAccount
      <4>6. CASE stashes' = stashes + 1
        <5>1. Cardinality(R') + 1 <= lapses' BY <1>2, <2>5, <4>1, <4>2, <4>4, <4>6
        <5>2. Cardinality(R') <= lapses' BY <1>2, <4>1, <5>1
        <5> QED BY <4>1, <5>1, <5>2 DEF SharedAccount
      <4> QED BY <2>4, <3>5, <4>5, <4>6
    <3> QED BY <3>3, <3>4, <3>5
  <2> QED BY <2>1, <2>2, <2>6 DEF AllPersistent
<1>10. ASSUME NEW c \in Calls, Fail(c) PROVE AllPersistent' /\ \A k \in Keys : SharedAccount(k)'
  <2>1. persistent' = persistent /\ done' = done /\ split' = split /\ lapses' = lapses
    BY <1>10 DEF Fail, lapses, faultVars
  <2>2. AllPersistent /\ \A k \in Keys : SharedAccount(k) BY <2>1 DEF SharedInv
  <2>3. ASSUME NEW k \in Keys PROVE SharedAccount(k)'
    <3>1. Settling /\ Stored(k)' = Stored(k) BY <1>10, FailEffect
    <3>2. Repeated(k, Counted)' = Repeated(k, Counted) BY <3>1, SettlingEffect
    <3>3. \A q \in Procs : Repeating(q, k, Counted)' => Repeating(q, k, Counted)
      BY <3>1, SettlingEffect
    <3>4. Unstored(k)' => Unstored(k) BY <2>1, <3>1, <3>3 DEF Unstored
    <3> QED BY <1>2, <2>1, <2>2, <3>2, <3>4, SharedAccountKept
  <2> QED BY <2>1, <2>2, <2>3 DEF AllPersistent
<1>11. CASE Tick
  <2>1. persistent' = persistent /\ split' = split /\ lapses' = lapses
    BY <1>11 DEF Tick, lapses, faultVars
  <2>2. AllPersistent /\ \A k \in Keys : SharedAccount(k) BY <2>1 DEF SharedInv
  <2>3. ASSUME NEW k \in Keys PROVE SharedAccount(k)'
    <3>1. /\ Settling /\ Stored(k)' = Less(Stored(k))
          /\ \A q \in Procs : done'[q][k] = Less(done[q][k])
      BY <1>11, TimeEffect
    <3>2. Repeated(k, Counted)' = Repeated(k, Counted) BY <3>1, SettlingEffect
    <3>3. \A q \in Procs : Repeating(q, k, Counted)' => Repeating(q, k, Counted)
      BY <3>1, SettlingEffect
    <3>4. \A m, n \in Nat : Less(m) > Less(n) => m > n BY DEF Less
    <3>5. \A q \in Procs : Stored(k) \in Nat /\ done[q][k] \in Nat BY <1>1, <1>3, LeftTypes
    <3>6. Unstored(k)' => Unstored(k) BY <3>1, <3>3, <3>4, <3>5 DEF Unstored
    <3> QED BY <1>2, <2>1, <2>2, <3>2, <3>6, SharedAccountKept
  <2> QED BY <2>1, <2>2, <2>3 DEF AllPersistent
<1>12. CASE UNCHANGED vars
  BY <1>12 DEF vars, SharedInv, AllPersistent, SharedAccount, Repeated, Unstored, Repeating,
               Stored, lapses
<1> QED BY <1>5, <1>6, <1>7, <1>8, <1>9, <1>10, <1>11, <1>12 DEF Next

(* The accounts of every key, and that no process works without its table  *)
(* unless one started so.                                                  *)
THEOREM SharedInvariant == Spec => []SharedInv
BY TypeInvariant, RepeatsAlone, SharedInit, SharedNext, PTL DEF Spec

(* While no process works without Postgres, each repetition, by whatever   *)
(* process, is paid for by a lookup or a store that failed.                *)
THEOREM SharedRepeats == Spec => []SharedRepeatsPaidFor
<1>1. SharedInv /\ TypeInv => SharedRepeatsPaidFor
  <2> SUFFICES ASSUME SharedInv, TypeInv, ~split, NEW k \in Keys
               PROVE  Repeats(k, {"own", "other"}) <= lapses
    BY DEF SharedRepeatsPaidFor
  <2>1. Cardinality(Repeated(k, Counted)) + (IF Unstored(k) THEN 1 ELSE 0) <= lapses
    BY DEF SharedInv, SharedAccount
  <2>2. Cardinality(Repeated(k, Counted)) \in Nat BY RepeatedFinite
  <2>3. lapses \in Nat BY LapsesType DEF TypeInv
  <2>4. Repeats(k, {"own", "other"}) = Cardinality(Repeated(k, Counted))
    BY DEF Repeats, Repeated, Counted
  <2> QED BY <2>1, <2>2, <2>3, <2>4
<1> QED BY <1>1, SharedInvariant, TypeInvariant, PTL

-----------------------------------------------------------------------------
(* Stale replies.  What a process keeps is no older than what it last      *)
(* answered, unless the table has that.  While every store succeeds the    *)
(* table has every last answer and the dicts are empty; while every lookup *)
(* succeeds too and nothing overlaps, a key is only executed when the      *)
(* table has nothing of it.                                                *)

KeptIsLatest ==
  \A p \in Procs, k \in Keys :
    done[p][k] <= Stored(k) \/ done[p][k] <= Kept(p, k) \/ Kept(p, k) = 0

TableHasAll ==
  ~split /\ stashes = 0 =>
    \A p \in Procs, k \in Keys : done[p][k] <= Stored(k) /\ Kept(p, k) = 0

NothingMasked ==
  ~split /\ misreads = 0 /\ ~overlapped =>
    /\ \A c, d \in Calls : /\ calls[c].pc = "executing" /\ calls[d].pc = "executing"
                           /\ calls[c].key = calls[d].key
                           => c = d
    /\ \A c \in Calls, k \in Keys :
         calls[c].pc = "executing" /\ calls[c].key = k => Stored(k) = 0
    /\ \A p \in Procs, k \in Keys : done[p][k] <= Stored(k) \/ Stored(k) = 0

StaleInv == KeptIsLatest /\ TableHasAll /\ NothingMasked /\ StaleRepliesExplained

LEMMA StaleInit == Init => StaleInv
<1> SUFFICES ASSUME Init PROVE StaleInv OBVIOUS
<1>1. \A p \in Procs, k \in Keys : done[p][k] = 0 /\ Stored(k) = 0 /\ Kept(p, k) = 0
  BY EmptyStore DEF Init, Stored, Kept
<1>2. \A c \in Calls : calls[c].pc = "new" /\ calls[c].again = "no" BY DEF Init, NewCall
<1> QED BY <1>1, <1>2 DEF StaleInv, KeptIsLatest, TableHasAll, NothingMasked, StaleRepliesExplained

\* a call that ends without an answer leaves no reply behind
LEMMA StaleSettling ==
  ASSUME TypeOK, TypeOK', CallsOK, StaleInv, Settling, overlapped' = overlapped,
         split => split', misreads' >= misreads, stashes' = stashes,
         \/ /\ \A k \in Keys : Stored(k)' = Stored(k)
            /\ \A p \in Procs, k \in Keys :
                 /\ done'[p][k] = done[p][k]
                 /\ Kept(p, k)' = Kept(p, k) \/ Kept(p, k)' = 0
         \/ /\ \A k \in Keys : Stored(k)' = Less(Stored(k))
            /\ \A p \in Procs, k \in Keys :
                 Kept(p, k)' = Less(Kept(p, k)) /\ done'[p][k] = Less(done[p][k])
  PROVE  StaleInv'
<1>1. KeptIsLatest /\ TableHasAll /\ NothingMasked /\ StaleRepliesExplained BY DEF StaleInv
<1>2. \A p \in Procs, k \in Keys :
        Stored(k) \in Nat /\ Kept(p, k) \in Nat /\ done[p][k] \in Nat
  BY LeftTypes, CallsAssumption
<1>3. misreads \in Nat /\ misreads' \in Nat /\ stashes \in Nat
  BY CallsAssumption DEF TypeOK
<1>4. \A d \in Calls : calls'[d].pc = "executing" => calls'[d] = calls[d] BY DEF Settling
<1>5. \A d \in Calls : calls'[d].again = calls[d].again BY DEF Settling
<1>6. split' \in BOOLEAN /\ split \in BOOLEAN /\ overlapped \in BOOLEAN BY DEF TypeOK
<1>7. /\ \A m, n \in Nat : m <= n => Less(m) <= Less(n)
      /\ Less(0) = 0
  BY DEF Less
<1>8. /\ \A p \in Procs, k \in Keys : done[p][k] <= Stored(k) => done'[p][k] <= Stored(k)'
      /\ \A p \in Procs, k \in Keys :
           done[p][k] <= Kept(p, k) => done'[p][k] <= Kept(p, k)' \/ Kept(p, k)' = 0
      /\ \A p \in Procs, k \in Keys : Kept(p, k) = 0 => Kept(p, k)' = 0
      /\ \A k \in Keys : Stored(k) = 0 => Stored(k)' = 0
  BY <1>2, <1>7
<1>9. KeptIsLatest' BY <1>1, <1>8 DEF KeptIsLatest
<1>10. TableHasAll' BY <1>1, <1>6, <1>8 DEF TableHasAll
<1>11. ~split' /\ misreads' = 0 /\ ~overlapped' => ~split /\ misreads = 0 /\ ~overlapped
  BY <1>3
<1>12. \A c \in Calls : calls[c].pc = "executing" => calls[c].key \in Keys BY DEF CallsOK
<1>13. NothingMasked' BY <1>1, <1>4, <1>8, <1>11, <1>12 DEF NothingMasked
<1>14. StaleRepliesExplained'
  BY <1>1, <1>3, <1>5 DEF StaleRepliesExplained
<1> QED BY <1>9, <1>10, <1>13, <1>14 DEF StaleInv

LEMMA StaleNext ==
  TypeInv /\ TypeInv' /\ SharedInv /\ StaleInv /\ [Next]_vars => StaleInv'
<1> SUFFICES ASSUME TypeInv, TypeInv', SharedInv, StaleInv, [Next]_vars PROVE StaleInv'
  OBVIOUS
<1>1. TypeOK /\ TypeOK' /\ CallsOK BY DEF TypeInv
<1>2. misreads \in Nat /\ misreads' \in Nat /\ stashes \in Nat /\ stashes' \in Nat
  BY <1>1, CallsAssumption DEF TypeOK
<1>3. TtlTicks \in Nat /\ TtlTicks > 0 BY CallsAssumption
<1>4. KeptIsLatest /\ TableHasAll /\ NothingMasked /\ StaleRepliesExplained BY DEF StaleInv
<1>5. \A p \in Procs, k \in Keys :
        /\ Stored(k) \in 0..TtlTicks /\ Kept(p, k) \in 0..TtlTicks /\ done[p][k] \in 0..TtlTicks
  BY <1>1, LeftTypes
<1>6. ASSUME NEW p \in Procs, Start(p) PROVE StaleInv'
  <2> USE <1>6 DEF Start, callVars
  <2>1. Settling BY DEF Settling
  <2>2. \A q \in Procs, k \in Keys : Stored(k)' = Stored(k) /\ Kept(q, k)' = Kept(q, k)
    BY DEF Stored, Kept
  <2>3. (split => split') /\ misreads' >= misreads BY <1>2 DEF Misread
  <2> QED BY <1>1, <2>1, <2>2, <2>3, StaleSettling
<1>7. ASSUME NEW p \in Procs, Crash(p) PROVE StaleInv'
  <2>1. /\ Settling /\ \A k \in Keys : Stored(k)' = Stored(k)
        /\ \A q \in Procs, k \in Keys : Kept(q, k)' = Kept(q, k) \/ Kept(q, k)' = 0
    BY <1>7, CrashEffect
  <2>2. UNCHANGED <<overlapped, split, misreads, stashes, done>> BY <1>7 DEF Crash
  <2> QED BY <1>1, <1>2, <2>1, <2>2, StaleSettling
<1>8. ASSUME NEW p \in Procs, Cleanup(p) PROVE StaleInv'
  <2>1. /\ Settling /\ \A k \in Keys : Stored(k)' = Stored(k)
        /\ \A q \in Procs, k \in Keys : Kept(q, k)' = Kept(q, k)
    BY <1>8, CleanupEffect
  <2>2. UNCHANGED <<overlapped, split, misreads, stashes, done>>
    BY <1>8 DEF Cleanup, callVars, faultVars
  <2> QED BY <1>1, <1>2, <2>1, <2>2, StaleSettling
<1>9. ASSUME NEW c \in Calls, Fail(c) PROVE StaleInv'
  <2>1. /\ Settling /\ \A k \in Keys : Stored(k)' = Stored(k)
        /\ \A q \in Procs, k \in Keys : Kept(q, k)' = Kept(q, k)
    BY <1>9, FailEffect
  <2>2. UNCHANGED <<overlapped, split, misreads, stashes, done>> BY <1>9 DEF Fail, faultVars
  <2> QED BY <1>1, <1>2, <2>1, <2>2, StaleSettling
<1>10. CASE Tick
  <2>1. UNCHANGED <<overlapped, split, misreads, stashes>> BY <1>10 DEF Tick, faultVars
  <2>2. /\ Settling
        /\ \A k \in Keys : Stored(k)' = Less(Stored(k))
        /\ \A p \in Procs, k \in Keys :
             Kept(p, k)' = Less(Kept(p, k)) /\ done'[p][k] = Less(done[p][k])
    BY <1>10, TimeEffect
  <2> QED BY <1>1, <1>2, <2>1, <2>2, StaleSettling
<1>11. CASE UNCHANGED vars
  <2>1. Settling BY <1>11 DEF vars, Settling
  <2>2. /\ \A k \in Keys : Stored(k)' = Stored(k)
        /\ \A q \in Procs, k \in Keys :
             done'[q][k] = done[q][k] /\ (Kept(q, k)' = Kept(q, k) \/ Kept(q, k)' = 0)
    BY <1>11 DEF vars, Stored, Kept
  <2>3. UNCHANGED <<overlapped, split, misreads, stashes>> BY <1>11 DEF vars
  <2>4. (split => split') /\ misreads' >= misreads BY <1>2, <2>3
  <2> QED BY <1>1, <2>1, <2>2, <2>3, <2>4, StaleSettling
<1>12. ASSUME NEW c \in Calls, NEW p \in Procs, NEW k \in Keys, Arrive(c, p, k) PROVE StaleInv'
  <2>1. UNCHANGED <<persistent, done, split, stashes>> BY <1>12 DEF Arrive
  <2>2. /\ \A i \in Keys : Stored(i)' = Stored(i)
        /\ \A q \in Procs, i \in Keys : Kept(q, i)' = Kept(q, i)
        /\ \A d \in Calls : d # c => calls'[d] = calls[d]
        /\ calls'[c].key = k
    BY <1>12, ArriveEffect
  <2>3. PICK reply \in 0..TtlTicks :
              /\ \/ persistent[p] /\ reply > 0 /\ reply = Stored(k) /\ misreads' = misreads
                 \/ /\ reply = Kept(p, k) /\ misreads' = misreads
                    /\ persistent[p] => Stored(k) = 0
                 \/ reply = Kept(p, k) /\ Stored(k) > 0 /\ misreads' = misreads + 1
              /\ \/ /\ reply > 0 /\ calls'[c].pc = "answered" /\ overlapped' = overlapped
                    /\ calls'[c].again = IF reply < done[p][k] THEN "stale" ELSE "no"
                 \/ /\ reply = 0 /\ calls'[c].pc = "executing" /\ calls'[c].at = p
                    /\ calls'[c].again = Again(p, k)
                    /\ overlapped' = (overlapped \/ Executing(k) # {})
    BY <1>12, ArriveEffect
  <2>4. KeptIsLatest' BY <1>4, <2>1, <2>2 DEF KeptIsLatest
  <2>5. TableHasAll' BY <1>4, <2>1, <2>2 DEF TableHasAll
  <2>6. ~split => persistent[p] BY DEF SharedInv, AllPersistent
  <2>7. overlapped => overlapped' BY <2>3
  <2>8. misreads' >= misreads BY <1>2, <2>3
  <2>9. NothingMasked'
    <3> SUFFICES ASSUME ~split', misreads' = 0, ~overlapped'
                 PROVE
      /\ \A e, d \in Calls : /\ calls'[e].pc = "executing" /\ calls'[d].pc = "executing"
                             /\ calls'[e].key = calls'[d].key
                             => e = d
      /\ \A e \in Calls, j \in Keys :
             calls'[e].pc = "executing" /\ calls'[e].key = j => Stored(j)' = 0
      /\ \A q \in Procs, i \in Keys : done'[q][i] <= Stored(i)' \/ Stored(i)' = 0
      BY DEF NothingMasked
    <3>1. ~split /\ misreads = 0 /\ ~overlapped BY <1>2, <2>1, <2>7, <2>8
    <3>2. /\ \A e, d \in Calls : /\ calls[e].pc = "executing" /\ calls[d].pc = "executing"
                                 /\ calls[e].key = calls[d].key
                                 => e = d
          /\ \A e \in Calls, j \in Keys :
                 calls[e].pc = "executing" /\ calls[e].key = j => Stored(j) = 0
          /\ \A q \in Procs, i \in Keys : done[q][i] <= Stored(i) \/ Stored(i) = 0
      BY <1>4, <3>1 DEF NothingMasked
    <3>3. \A q \in Procs, i \in Keys : done'[q][i] <= Stored(i)' \/ Stored(i)' = 0
      BY <2>1, <2>2, <3>2
    <3>4. CASE calls'[c].pc = "executing"
      <4>1. reply = 0 /\ Executing(k) = {} BY <2>3, <3>4
      <4>2. Stored(k) = 0 BY <1>2, <2>3, <2>6, <3>1, <4>1
      <4>3. \A d \in Calls : ~(calls[d].pc = "executing" /\ calls[d].key = k)
        BY <4>1 DEF Executing
      <4>4. \A e \in Calls : calls[e].pc = "executing" => calls[e].key \in Keys
        BY <1>1 DEF CallsOK
      <4>5. \A e \in Calls, j \in Keys :
             calls'[e].pc = "executing" /\ calls'[e].key = j => Stored(j)' = 0
        BY <2>2, <3>2, <4>2, <4>4
      <4>6. \A e, d \in Calls : /\ calls'[e].pc = "executing" /\ calls'[d].pc = "executing"
                                /\ calls'[e].key = calls'[d].key
                                => e = d
        BY <2>2, <3>2, <4>3
      <4> QED BY <3>3, <4>5, <4>6
    <3>5. CASE calls'[c].pc # "executing"
      <4>1. \A e \in Calls : calls'[e].pc = "executing" => calls'[e] = calls[e] BY <2>2, <3>5
      <4>2. \A e \in Calls : calls[e].pc = "executing" => calls[e].key \in Keys
        BY <1>1 DEF CallsOK
      <4>3. \A e \in Calls, j \in Keys :
             calls'[e].pc = "executing" /\ calls'[e].key = j => Stored(j)' = 0
        BY <2>2, <3>2, <4>1, <4>2
      <4> QED BY <3>2, <3>3, <4>1, <4>3
    <3> QED BY <3>4, <3>5
  <2>10. StaleRepliesExplained'
    <3> SUFFICES ASSUME NEW e \in Calls, calls'[e].again = "stale", ~split'
                 PROVE  stashes' > 0 /\ (misreads' > 0 \/ overlapped')
      BY DEF StaleRepliesExplained
    <3>1. CASE e # c
      <4>1. calls[e].again = "stale" BY <2>2, <3>1
      <4>2. stashes > 0 /\ (misreads > 0 \/ overlapped)
        BY <1>4, <2>1, <4>1 DEF StaleRepliesExplained
      <4> QED BY <1>2, <2>1, <2>7, <2>8, <4>2
    <3>2. CASE e = c
      <4>1. Again(p, k) # "stale" BY DEF Again
      <4>2. reply > 0 /\ reply < done[p][k] BY <2>3, <3>2, <4>1
      <4>3. ~split BY <2>1
      <4>4. stashes > 0
        <5>1. stashes = 0 => done[p][k] <= Stored(k) /\ Kept(p, k) = 0
          BY <1>4, <4>3 DEF TableHasAll
        <5>2. reply = Stored(k) \/ reply = Kept(p, k) BY <2>3
        <5> QED BY <1>2, <1>5, <4>2, <5>1, <5>2
      <4>5. CASE reply = Stored(k)
        <5>1. misreads = 0 /\ ~overlapped => done[p][k] <= Stored(k) \/ Stored(k) = 0
          BY <1>4, <4>3 DEF NothingMasked
        <5>2. misreads > 0 \/ overlapped BY <1>2, <1>5, <4>2, <4>5, <5>1
        <5> QED BY <1>2, <2>1, <2>7, <2>8, <4>4, <5>2
      <4>6. CASE reply = Kept(p, k) /\ Stored(k) = 0
        <5>1. done[p][k] <= Stored(k) \/ done[p][k] <= Kept(p, k) \/ Kept(p, k) = 0
          BY <1>4 DEF KeptIsLatest
        <5> QED BY <1>5, <4>2, <4>6, <5>1
      <4>7. CASE misreads' = misreads + 1 BY <1>2, <2>1, <4>4, <4>7
      <4> QED BY <2>3, <2>6, <4>3, <4>5, <4>6, <4>7
    <3> QED BY <3>1, <3>2
  <2> QED BY <2>4, <2>5, <2>9, <2>10 DEF StaleInv
<1>13. ASSUME NEW c \in Calls, Finish(c) PROVE StaleInv'
  <2>1. UNCHANGED <<persistent, split, overlapped, misreads>> BY <1>13 DEF Finish
  <2>2. PICK p \in Procs, i \in Keys :
         /\ calls[c].pc = "executing" /\ calls[c].at = p /\ calls[c].key = i
         /\ \A d \in Calls : d # c => calls'[d] = calls[d]
         /\ calls'[c].pc = "answered" /\ calls'[c].key = i /\ calls'[c].again = calls[c].again
         /\ \A q \in Procs, j \in Keys :
              done'[q][j] = IF q = p /\ j = i THEN TtlTicks ELSE done[q][j]
         /\ \A q \in Procs, j \in Keys : q # p => Kept(q, j)' = Kept(q, j)
         /\ \A j \in Keys : j # i => Stored(j)' = Stored(j)
         /\ \/ /\ persistent[p] /\ Stored(i)' = TtlTicks /\ stashes' = stashes
               /\ \A j \in Keys : Kept(p, j)' = Kept(p, j)
            \/ /\ Stored(i)' = Stored(i) /\ Kept(p, i)' = TtlTicks
               /\ stashes' = IF persistent[p] THEN stashes + 1 ELSE stashes
               /\ \A j \in Keys : j # i => Kept(p, j)' = Kept(p, j) \/ Kept(p, j)' = 0
    BY <1>13, FinishEffect
  <2>3. ~split => persistent[p] BY DEF SharedInv, AllPersistent
  <2>4. \A q \in Procs, k \in Keys : k # i =>
          /\ Stored(k)' = Stored(k) /\ done'[q][k] = done[q][k]
          /\ Kept(q, k)' = Kept(q, k) \/ Kept(q, k)' = 0
    BY <2>2
  <2>5. \A q \in Procs : done'[q][i] = IF q = p THEN TtlTicks ELSE done[q][i] BY <2>2
  <2>6. CASE /\ Stored(i)' = TtlTicks /\ stashes' = stashes
             /\ \A q \in Procs, j \in Keys : Kept(q, j)' = Kept(q, j)
    <3>1. \A q \in Procs : done'[q][i] <= Stored(i)' BY <1>3, <1>5, <2>5, <2>6
    <3>2. KeptIsLatest' BY <1>4, <2>4, <2>6, <3>1 DEF KeptIsLatest
    <3>3. TableHasAll'
      <4> SUFFICES ASSUME ~split', stashes' = 0, NEW q \in Procs, NEW k \in Keys
                   PROVE  done'[q][k] <= Stored(k)' /\ Kept(q, k)' = 0
        BY DEF TableHasAll
      <4>1. done[q][k] <= Stored(k) /\ Kept(q, k) = 0 BY <1>4, <2>1, <2>6 DEF TableHasAll
      <4> QED BY <2>4, <2>6, <3>1, <4>1
    <3>4. NothingMasked'
      <4> SUFFICES ASSUME ~split', misreads' = 0, ~overlapped'
                   PROVE
        /\ \A e, d \in Calls : /\ calls'[e].pc = "executing" /\ calls'[d].pc = "executing"
                               /\ calls'[e].key = calls'[d].key
                               => e = d
        /\ \A e \in Calls, j \in Keys :
             calls'[e].pc = "executing" /\ calls'[e].key = j => Stored(j)' = 0
        /\ \A q \in Procs, k \in Keys : done'[q][k] <= Stored(k)' \/ Stored(k)' = 0
        BY DEF NothingMasked
      <4>1. /\ \A e, d \in Calls : /\ calls[e].pc = "executing" /\ calls[d].pc = "executing"
                                   /\ calls[e].key = calls[d].key
                                   => e = d
            /\ \A e \in Calls, j \in Keys :
                 calls[e].pc = "executing" /\ calls[e].key = j => Stored(j) = 0
            /\ \A q \in Procs, k \in Keys : done[q][k] <= Stored(k) \/ Stored(k) = 0
        BY <1>4, <2>1 DEF NothingMasked
      <4>2. \A e \in Calls : calls'[e].pc = "executing" => e # c /\ calls'[e] = calls[e]
        BY <2>2
      <4>3. \A e \in Calls : calls[e].pc = "executing" => calls[e].key \in Keys
        BY <1>1 DEF CallsOK
      <4>4. ASSUME NEW e \in Calls, NEW j \in Keys, calls'[e].pc = "executing", calls'[e].key = j
            PROVE  Stored(j)' = 0
        <5>1. e # c /\ calls[e].pc = "executing" /\ calls[e].key = j
          BY <4>2, <4>4
        <5>2. j # i BY <2>2, <4>1, <5>1
        <5> QED BY <2>2, <4>1, <5>1, <5>2
      <4>5. \A q \in Procs, k \in Keys : done'[q][k] <= Stored(k)' \/ Stored(k)' = 0
        BY <2>4, <3>1, <4>1
      <4>6. \A e, d \in Calls : /\ calls'[e].pc = "executing" /\ calls'[d].pc = "executing"
                                /\ calls'[e].key = calls'[d].key
                                => e = d
        BY <4>1, <4>2
      <4> QED BY <4>4, <4>5, <4>6
    <3>5. \A d \in Calls : calls'[d].again = calls[d].again BY <2>2
    <3>6. StaleRepliesExplained' BY <1>4, <2>1, <2>6, <3>5 DEF StaleRepliesExplained
    <3> QED BY <3>2, <3>3, <3>4, <3>6 DEF StaleInv
  <2>7. CASE /\ Stored(i)' = Stored(i) /\ Kept(p, i)' = TtlTicks
             /\ stashes' = IF persistent[p] THEN stashes + 1 ELSE stashes
    <3>1. \A k \in Keys : Stored(k)' = Stored(k) BY <2>2, <2>7
    <3>2. KeptIsLatest'
      <4> SUFFICES ASSUME NEW q \in Procs, NEW k \in Keys
                   PROVE  \/ done'[q][k] <= Stored(k)' \/ done'[q][k] <= Kept(q, k)'
                          \/ Kept(q, k)' = 0
        BY DEF KeptIsLatest
      <4>1. done[q][k] <= Stored(k) \/ done[q][k] <= Kept(q, k) \/ Kept(q, k) = 0
        BY <1>4 DEF KeptIsLatest
      <4>2. CASE k # i BY <2>4, <4>1, <4>2
      <4>3. CASE k = i /\ q = p BY <1>3, <2>5, <2>7, <4>3
      <4>4. CASE k = i /\ q # p
        <5>1. done'[q][k] = done[q][k] /\ Kept(q, k)' = Kept(q, k) BY <2>2, <4>4
        <5> QED BY <3>1, <4>1, <5>1
      <4> QED BY <4>2, <4>3, <4>4
    <3>3. ~split => stashes' = stashes + 1 BY <2>3, <2>7
    <3>4. TableHasAll' BY <1>2, <2>1, <3>3 DEF TableHasAll
    <3>5. NothingMasked'
      <4> SUFFICES ASSUME ~split', misreads' = 0, ~overlapped'
                   PROVE
        /\ \A e, d \in Calls : /\ calls'[e].pc = "executing" /\ calls'[d].pc = "executing"
                               /\ calls'[e].key = calls'[d].key
                               => e = d
        /\ \A e \in Calls, j \in Keys :
             calls'[e].pc = "executing" /\ calls'[e].key = j => Stored(j)' = 0
        /\ \A q \in Procs, k \in Keys : done'[q][k] <= Stored(k)' \/ Stored(k)' = 0
        BY DEF NothingMasked
      <4>1. /\ \A e, d \in Calls : /\ calls[e].pc = "executing" /\ calls[d].pc = "executing"
                                   /\ calls[e].key = calls[d].key
                                   => e = d
            /\ \A e \in Calls, j \in Keys :
                 calls[e].pc = "executing" /\ calls[e].key = j => Stored(j) = 0
            /\ \A q \in Procs, k \in Keys : done[q][k] <= Stored(k) \/ Stored(k) = 0
        BY <1>4, <2>1 DEF NothingMasked
      <4>2. \A e \in Calls : calls'[e].pc = "executing" => calls'[e] = calls[e] BY <2>2
      <4>3. \A e \in Calls : calls[e].pc = "executing" => calls[e].key \in Keys
        BY <1>1 DEF CallsOK
      <4>4. \A e \in Calls, j \in Keys :
             calls'[e].pc = "executing" /\ calls'[e].key = j => Stored(j)' = 0
        BY <3>1, <4>1, <4>2, <4>3
      <4>5. Stored(i) = 0 BY <2>2, <4>1
      <4>6. \A q \in Procs, k \in Keys : done'[q][k] <= Stored(k)' \/ Stored(k)' = 0
        BY <2>4, <3>1, <4>1, <4>5
      <4> QED BY <4>1, <4>2, <4>4, <4>6
    <3>6. \A d \in Calls : calls'[d].again = calls[d].again BY <2>2
    <3>7. stashes' >= stashes BY <1>2, <2>7
    <3>8. StaleRepliesExplained' BY <1>2, <1>4, <2>1, <3>6, <3>7 DEF StaleRepliesExplained
    <3> QED BY <3>2, <3>4, <3>5, <3>8 DEF StaleInv
  <2> QED BY <2>2, <2>6, <2>7
<1> QED BY <1>6, <1>7, <1>8, <1>9, <1>10, <1>11, <1>12, <1>13 DEF Next

(* What a process keeps, what the table has and what was last answered fit *)
(* together, and so every stale reply has its explanation.                 *)
THEOREM StaleInvariant == Spec => []StaleInv
BY TypeInvariant, SharedInvariant, StaleInit, StaleNext, PTL DEF Spec

(* A process answers with a response older than the last it gave only if a *)
(* store failed and a lookup failed too or executions overlapped.          *)
THEOREM StaleReplies == Spec => []StaleRepliesExplained
<1>1. StaleInv => StaleRepliesExplained BY DEF StaleInv
<1> QED BY <1>1, StaleInvariant, PTL
=============================================================================
