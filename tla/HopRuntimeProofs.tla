-------------------------- MODULE HopRuntimeProofs --------------------------
(***************************************************************************)
(* Proofs about HopRuntime and the LlmRouter its hops share, for every     *)
(* finite set of hops, every number of slots and attempts, every           *)
(* sla_seconds and every number of chunks: its type invariant; that the    *)
(* semaphore gets back what it gave; that only checked outputs leave a     *)
(* hop; and how long a hop may wait for the model.                         *)
(***************************************************************************)
EXTENDS HopRuntime, FiniteSetTheorems, SequenceTheorems, TLAPS

(* Sequences whose members are distinct, as the semaphore's queue is.      *)

Elems(s) == {s[i] : i \in DOMAIN s}
Distinct(s) == \A i, j \in DOMAIN s : s[i] = s[j] => i = j

(* Append adds an element that was not there.                              *)
LEMMA AppendDistinct ==
  ASSUME NEW S, NEW s \in Seq(S), Distinct(s), NEW e \in S, e \notin Elems(s)
  PROVE  /\ Append(s, e) \in Seq(S) /\ Distinct(Append(s, e))
         /\ Elems(Append(s, e)) = Elems(s) \union {e}
<1> DEFINE t == Append(s, e)
<1>1. /\ t \in Seq(S) /\ Len(t) = Len(s) + 1 /\ Len(s) \in Nat
      /\ \A i \in 1..Len(s) : t[i] = s[i]
      /\ t[Len(s) + 1] = e
  BY AppendProperties, LenProperties
<1>2. DOMAIN s = 1..Len(s) /\ DOMAIN t = 1..Len(s) + 1
  BY <1>1, LenProperties
<1> HIDE DEF t
<1>3. Distinct(t)
  BY <1>1, <1>2 DEF Distinct, Elems
<1>4. Elems(t) = Elems(s) \union {e}
  BY <1>1, <1>2 DEF Elems
<1>5. QED
  BY <1>1, <1>3, <1>4 DEF t

(* Tail takes the first one away.                                          *)
LEMMA TailDistinct ==
  ASSUME NEW S, NEW s \in Seq(S), Distinct(s), s # <<>>
  PROVE  /\ Tail(s) \in Seq(S) /\ Distinct(Tail(s))
         /\ Elems(Tail(s)) = Elems(s) \ {Head(s)}
<1> DEFINE t == Tail(s)
<1>1. /\ t \in Seq(S) /\ Len(t) = Len(s) - 1 /\ Len(s) \in Nat \ {0}
      /\ \A i \in 1..Len(s) - 1 : t[i] = s[i + 1]
      /\ Head(s) = s[1]
  BY HeadTailProperties, LenProperties, EmptySeq
<1>2. DOMAIN s = 1..Len(s) /\ DOMAIN t = 1..Len(s) - 1
  BY <1>1, LenProperties
<1> HIDE DEF t
<1>3. Distinct(t)
  BY <1>1, <1>2 DEF Distinct
<1>4. Elems(t) = Elems(s) \ {Head(s)}
  <2>1. ASSUME NEW i \in DOMAIN t PROVE t[i] \in Elems(s) \ {Head(s)}
    <3>1. i + 1 \in DOMAIN s /\ 1 \in DOMAIN s /\ i + 1 # 1
      BY <1>1, <1>2
    <3>2. QED
      BY <1>1, <1>2, <3>1 DEF Elems, Distinct
  <2>2. ASSUME NEW i \in DOMAIN s, s[i] # Head(s) PROVE s[i] \in Elems(t)
    <3>1. i - 1 \in DOMAIN t /\ (i - 1) + 1 = i
      BY <1>1, <1>2, <2>2
    <3>2. QED
      BY <1>1, <1>2, <3>1 DEF Elems
  <2>3. QED
    BY <2>1, <2>2 DEF Elems
<1>5. QED
  BY <1>1, <1>3, <1>4 DEF t

(* RemoveAt closes the gap.                                                *)
LEMMA RemoveAtProperties ==
  ASSUME NEW S, NEW s \in Seq(S), NEW i \in 1..Len(s)
  PROVE  /\ RemoveAt(s, i) \in Seq(S)
         /\ Len(RemoveAt(s, i)) = Len(s) - 1
         /\ \A k \in 1..Len(s)-1 : RemoveAt(s, i)[k] = IF k < i THEN s[k] ELSE s[k + 1]
<1> DEFINE a == SubSeq(s, 1, i-1)
           b == SubSeq(s, i+1, Len(s))
<1>1. Len(s) \in Nat /\ \A j \in 1..Len(s) : s[j] \in S
  BY LenProperties, ElementOfSeq
<1>2. a \in Seq(S) /\ Len(a) = i - 1 /\ \A k \in 1..i-1 : a[k] = s[k]
  BY <1>1, SubSeqProperties
<1>3. b \in Seq(S) /\ Len(b) = Len(s) - i /\ \A k \in 1..Len(s)-i : b[k] = s[i + k]
  BY <1>1, SubSeqProperties
<1> HIDE DEF a, b
<1>4. /\ a \o b \in Seq(S) /\ Len(a \o b) = Len(a) + Len(b)
      /\ \A k \in 1..Len(a) + Len(b) : (a \o b)[k] = IF k <= Len(a) THEN a[k] ELSE b[k - Len(a)]
  BY <1>2, <1>3, ConcatProperties
<1>5. Len(a \o b) = Len(s) - 1
  BY <1>1, <1>2, <1>3, <1>4
<1>6. ASSUME NEW k \in 1..Len(s)-1 PROVE (a \o b)[k] = IF k < i THEN s[k] ELSE s[k+1]
  <2>1. (a \o b)[k] = IF k <= i-1 THEN a[k] ELSE b[k - (i-1)]
    BY <1>1, <1>2, <1>3, <1>4
  <2>2. CASE k < i
    BY <1>1, <1>2, <2>1, <2>2
  <2>3. CASE ~(k < i)
    <3>1. k - (i-1) \in 1..Len(s) - i /\ i + (k-(i-1)) = k + 1
      BY <1>1, <2>3
    <3>2. b[k - (i-1)] = s[i + (k - (i-1))]
      BY <1>3, <3>1
    <3>3. QED
      BY <1>1, <2>1, <2>3, <3>1, <3>2
  <2>4. QED
    BY <2>2, <2>3
<1>7. RemoveAt(s, i) = a \o b
  BY DEF RemoveAt, a, b
<1>8. QED
  BY <1>4, <1>5, <1>6, <1>7

LEMMA RemoveAtDistinct ==
  ASSUME NEW S, NEW s \in Seq(S), Distinct(s), NEW i \in DOMAIN s
  PROVE  /\ RemoveAt(s, i) \in Seq(S) /\ Distinct(RemoveAt(s, i))
         /\ Elems(RemoveAt(s, i)) = Elems(s) \ {s[i]}
<1>1. PICK t : t = RemoveAt(s, i)
  OBVIOUS
<1>2. DOMAIN s = 1..Len(s) /\ Len(s) \in Nat
  BY LenProperties
<1>3. /\ t \in Seq(S) /\ Len(t) = Len(s) - 1
      /\ \A k \in 1..Len(s)-1 : t[k] = IF k < i THEN s[k] ELSE s[k + 1]
  BY <1>1, <1>2, RemoveAtProperties
<1>4. DOMAIN t = 1..Len(s) - 1
  BY <1>3, LenProperties
<1>5. \A k \in DOMAIN t :
        \E m \in DOMAIN s : m # i /\ t[k] = s[m] /\ m = IF k < i THEN k ELSE k + 1
  BY <1>2, <1>3, <1>4
<1>6. Distinct(t)
  <2> SUFFICES ASSUME NEW k \in DOMAIN t, NEW n \in DOMAIN t, t[k] = t[n] PROVE k = n
    BY DEF Distinct
  <2>1. PICK m \in DOMAIN s : t[k] = s[m] /\ m = IF k < i THEN k ELSE k + 1
    BY <1>5
  <2>2. PICK o \in DOMAIN s : t[n] = s[o] /\ o = IF n < i THEN n ELSE n + 1
    BY <1>5
  <2>3. m = o
    BY <2>1, <2>2 DEF Distinct
  <2>4. QED
    BY <1>2, <1>4, <2>1, <2>2, <2>3
<1>7. Elems(t) \subseteq Elems(s) \ {s[i]}
  BY <1>5 DEF Elems, Distinct
<1>8. ASSUME NEW m \in DOMAIN s, s[m] # s[i] PROVE s[m] \in Elems(t)
  <2>1. CASE m < i
    <3>1. m \in DOMAIN t /\ t[m] = s[m]
      BY <1>2, <1>3, <1>4, <2>1
    <3>2. QED
      BY <3>1 DEF Elems
  <2>2. CASE ~(m < i)
    <3>1. m - 1 \in DOMAIN t /\ ~(m - 1 < i) /\ (m - 1) + 1 = m
      BY <1>2, <1>4, <1>8, <2>2
    <3>2. t[m - 1] = s[m]
      BY <1>3, <1>4, <3>1
    <3>3. QED
      BY <3>1, <3>2 DEF Elems
  <2>3. QED
    BY <2>1, <2>2
<1>9. Elems(s) \ {s[i]} \subseteq Elems(t)
  <2> SUFFICES ASSUME NEW x \in Elems(s), x # s[i] PROVE x \in Elems(t)
    OBVIOUS
  <2>1. PICK m \in DOMAIN s : x = s[m]
    BY DEF Elems
  <2>2. QED
    BY <1>8, <2>1
<1>10. QED
  BY <1>1, <1>3, <1>6, <1>7, <1>9

-----------------------------------------------------------------------------
(* The router.  What the semaphore holds and what its callers hold add up, *)
(* and a call that sleeps has attempts left.                               *)

Waiting == {h \in Hops : call[h] = "waiting"}

RouterInv ==
  /\ RouterTypeOK
  /\ SlotsConserved
  /\ \A h \in Hops : call[h] = "backoff" => attempt[h] < MaxAttempts

(* SlotsConserved, in the terms of the sequence lemmas.                    *)
LEMMA SlotsDef ==
  SlotsConserved <=> /\ free + Cardinality(Holders) = Slots
                     /\ Elems(waiters) = Waiting
                     /\ Distinct(waiters)
  BY DEF SlotsConserved, Elems, Distinct, Waiting

LEMMA HoldersType ==
  IsFiniteSet(Holders) /\ Cardinality(Holders) \in Nat
<1>1. IsFiniteSet(Hops) /\ Holders \subseteq Hops
  BY RouterAssumption DEF Holders
<1>2. QED
  BY <1>1, FS_Subset, FS_CardinalityType

LEMMA RouterInitInv == RouterInit => RouterInv
<1> SUFFICES ASSUME RouterInit PROVE RouterInv
  OBVIOUS
<1>1. Holders = {} /\ Waiting = {} /\ Elems(waiters) = {} /\ Distinct(waiters)
  BY EmptySeq DEF RouterInit, Holders, Waiting, Elems, Distinct
<1>2. SlotsConserved
  BY <1>1, SlotsDef, FS_EmptySet, RouterAssumption DEF RouterInit
<1>3. RouterTypeOK
  BY EmptySeq, RouterAssumption DEF RouterInit, RouterTypeOK
<1>4. QED
  BY <1>2, <1>3 DEF RouterInv, RouterInit

LEMMA EnterInv ==
  ASSUME RouterInv, NEW h \in Hops, Enter(h)
  PROVE  RouterInv'
<1> USE DEF RouterInv, RouterTypeOK
<1>1. call[h] = "none" /\ waiters' = Append(waiters, h) /\ call' = [call EXCEPT ![h] = "waiting"]
  BY DEF Enter
<1>2. h \notin Elems(waiters)
  BY <1>1, SlotsDef DEF Waiting
<1>3. /\ waiters' \in Seq(Hops) /\ Distinct(waiters')
      /\ Elems(waiters') = Elems(waiters) \union {h}
  BY <1>1, <1>2, SlotsDef, AppendDistinct
<1>4. Holders' = Holders /\ Waiting' = Waiting \union {h}
  BY <1>1 DEF Holders, Waiting
<1>5. SlotsConserved'
  <2>1. /\ free' + Cardinality(Holders)' = Slots
        /\ Elems(waiters') = Waiting' /\ Distinct(waiters')
    BY <1>3, <1>4, SlotsDef DEF Enter
  <2>2. QED
    BY <2>1 DEF SlotsConserved, Elems, Distinct, Waiting
<1>6. QED
  BY <1>1, <1>3, <1>5 DEF Enter

LEMMA AcquireInv ==
  ASSUME RouterInv, NEW h \in Hops, Acquire(h)
  PROVE  RouterInv'
<1> USE DEF RouterInv, RouterTypeOK
<1>1. /\ call[h] = "waiting" /\ Head(waiters) = h /\ waiters' = Tail(waiters)
      /\ call' = [call EXCEPT ![h] = "sent"] /\ free > 0 /\ free' = free - 1
  BY DEF Acquire
<1>2. waiters # <<>>
  <2>1. h \in Elems(waiters)
    BY <1>1, SlotsDef DEF Waiting
  <2>2. QED
    BY <2>1, EmptySeq DEF Elems
<1>3. /\ waiters' \in Seq(Hops) /\ Distinct(waiters')
      /\ Elems(waiters') = Elems(waiters) \ {h}
  BY <1>1, <1>2, SlotsDef, TailDistinct
<1>4. Holders' = Holders \union {h} /\ h \notin Holders /\ Waiting' = Waiting \ {h}
  BY <1>1 DEF Holders, Waiting
<1>5. Cardinality(Holders') = Cardinality(Holders) + 1
  BY <1>4, HoldersType, FS_AddElement
<1>6. SlotsConserved'
  <2>1. /\ free' + Cardinality(Holders)' = Slots
        /\ Elems(waiters') = Waiting' /\ Distinct(waiters')
    BY <1>1, <1>3, <1>4, <1>5, SlotsDef, HoldersType, RouterAssumption
  <2>2. QED
    BY <2>1 DEF SlotsConserved, Elems, Distinct, Waiting
<1>7. free' \in 0..Slots
  BY <1>1, RouterAssumption
<1>8. attempt' \in [Hops -> 0..MaxAttempts]
  BY RouterAssumption DEF Acquire
<1>9. QED
  BY <1>1, <1>3, <1>6, <1>7, <1>8 DEF Acquire

(* A slot that is given back was taken.                                    *)
LEMMA ReleaseInv ==
  ASSUME RouterInv, NEW h \in Holders, Release(h), orphans' \in Nat
  PROVE  RouterInv'
<1> USE DEF RouterInv, RouterTypeOK
<1>1. /\ h \in Hops /\ call' = [call EXCEPT ![h] = "none"]
      /\ attempt' = [attempt EXCEPT ![h] = 0]
      /\ free' = free + 1 /\ waiters' = waiters
  BY DEF Release, Over, Holders
<1>2. Holders' = Holders \ {h} /\ Waiting' = Waiting
  BY <1>1 DEF Holders, Waiting
<1>3. Cardinality(Holders') = Cardinality(Holders) - 1
  BY <1>2, HoldersType, FS_RemoveElement
<1>4. Cardinality(Holders') \in Nat
  <2>1. IsFiniteSet(Holders')
    BY <1>2, HoldersType, FS_Subset
  <2>2. QED
    BY <2>1, FS_CardinalityType
<1>5. SlotsConserved'
  <2>1. /\ free' + Cardinality(Holders)' = Slots
        /\ Elems(waiters') = Waiting' /\ Distinct(waiters')
    BY <1>1, <1>2, <1>3, SlotsDef, HoldersType, RouterAssumption
  <2>2. QED
    BY <2>1 DEF SlotsConserved, Elems, Distinct, Waiting
<1>6. free' \in 0..Slots
  <2>1. free' + Cardinality(Holders') = Slots
    BY <1>5 DEF SlotsConserved
  <2>2. QED
    BY <1>1, <1>4, <2>1, RouterAssumption
<1>7. attempt' \in [Hops -> 0..MaxAttempts]
  BY <1>1, RouterAssumption
<1>8. QED
  BY <1>1, <1>5, <1>6, <1>7

LEMMA SettlesInv ==
  ASSUME RouterInv, NEW h \in Hops, Settles(h)
  PROVE  RouterInv'
<1>1. h \in Holders /\ Release(h) /\ orphans' \in Nat
  BY DEF Settles, Holders, RouterInv, RouterTypeOK
<1>2. QED
  BY <1>1, ReleaseInv

(* What only moves a call between sent and backoff.                        *)
LEMMA SleepInv ==
  ASSUME RouterInv, NEW h \in Hops, BackOff(h) \/ Retry(h)
  PROVE  RouterInv'
<1> USE DEF RouterInv, RouterTypeOK
<1>1. Holders' = Holders /\ Waiting' = Waiting
  BY DEF BackOff, Retry, Holders, Waiting
<1>2. SlotsConserved'
  BY <1>1 DEF SlotsConserved, Waiting, BackOff, Retry
<1>3. QED
  BY <1>2, RouterAssumption DEF BackOff, Retry

LEMMA AbandonInv ==
  ASSUME RouterInv, NEW h \in Hops, Abandon(h)
  PROVE  RouterInv'
<1> USE DEF RouterInv, RouterTypeOK
<1>1. CASE h \in Holders
  <2>1. Release(h) /\ orphans' \in Nat
    BY <1>1 DEF Abandon, Holders
  <2>2. QED
    BY <1>1, <2>1, ReleaseInv
<1>2. CASE h \notin Holders
  <2>1. /\ call[h] = "waiting" /\ call' = [call EXCEPT ![h] = "none"]
        /\ attempt' = [attempt EXCEPT ![h] = 0] /\ UNCHANGED <<free, orphans>>
    BY <1>2 DEF Abandon, Over
  <2>2. PICK i \in DOMAIN waiters : waiters[i] = h /\ waiters' = RemoveAt(waiters, i)
    BY <1>2 DEF Abandon, Leaves
  <2>3. /\ waiters' \in Seq(Hops) /\ Distinct(waiters')
        /\ Elems(waiters') = Elems(waiters) \ {h}
    BY <2>2, SlotsDef, RemoveAtDistinct
  <2>4. Holders' = Holders /\ Waiting' = Waiting \ {h}
    BY <2>1 DEF Holders, Waiting
  <2>5. SlotsConserved'
    <3>1. /\ free' + Cardinality(Holders)' = Slots
          /\ Elems(waiters') = Waiting' /\ Distinct(waiters')
      BY <2>1, <2>3, <2>4, SlotsDef
    <3>2. QED
      BY <3>1 DEF SlotsConserved, Elems, Distinct, Waiting
  <2>6. QED
    BY <2>1, <2>3, <2>5, RouterAssumption
<1>3. QED
  BY <1>1, <1>2

LEMMA OrphanInv ==
  ASSUME RouterInv, OrphanEnds
  PROVE  RouterInv'
<1>1. Holders' = Holders /\ SlotsConserved'
  BY DEF RouterInv, SlotsConserved, OrphanEnds, Holders
<1>2. QED
  BY <1>1 DEF RouterInv, RouterTypeOK, OrphanEnds

LEMMA RouterSame ==
  ASSUME RouterInv, UNCHANGED routerVars
  PROVE  RouterInv'
  BY DEF RouterInv, RouterTypeOK, SlotsConserved, Holders, routerVars

-----------------------------------------------------------------------------
(* The hops.                                                               *)

LEMMA RouterStep == RouterInv /\ [Next]_vars => RouterInv'
<1> SUFFICES ASSUME RouterInv, [Next]_vars PROVE RouterInv'
  OBVIOUS
<1>1. ASSUME NEW h \in Hops, Begin(h) \/ Prepare(h) \/ Ask(h) PROVE RouterInv'
  BY <1>1, EnterInv, RouterSame DEF Begin, Prepare, Ask, routerVars
<1>2. ASSUME NEW h \in Hops, Answered(h) \/ CallRaises(h) PROVE RouterInv'
  BY <1>2, SettlesInv DEF Answered, CallRaises
<1>3. ASSUME NEW h \in Hops, Timeout(h) PROVE RouterInv'
  BY <1>3, AbandonInv DEF Timeout
<1>4. ASSUME NEW h \in Hops, Cancel(h) PROVE RouterInv'
  BY <1>4, AbandonInv, RouterSame DEF Cancel
<1>5. ASSUME NEW h \in Hops, Call(h) PROVE RouterInv'
  BY <1>5, AcquireInv, SleepInv DEF Call, CallAcquires, CallBacksOff, CallRetries
<1>6. ASSUME BedrockReturns PROVE RouterInv'
  BY <1>6, OrphanInv DEF BedrockReturns
<1>7. ASSUME Tick PROVE RouterInv'
  BY <1>7, RouterSame DEF Tick
<1>8. CASE UNCHANGED vars
  BY <1>8, RouterSame DEF vars
<1>9. QED
  BY <1>1, <1>2, <1>3, <1>4, <1>5, <1>6, <1>7, <1>8 DEF Next, Hop

(* Every state of every run accounts for every slot.                       *)
THEOREM RouterInvariant == Spec => []RouterInv
<1>1. Init => RouterInv
  BY RouterInitInv DEF Init
<1>2. QED
  BY <1>1, RouterStep, PTL DEF Spec

(* The semaphore gets back what a call took, however the call ends, and    *)
(* its queue holds the hops that wait, each once.                          *)
THEOREM SlotsKept == Spec => []SlotsConserved
<1>1. RouterInv => SlotsConserved
  BY DEF RouterInv
<1>2. QED
  BY <1>1, RouterInvariant, PTL

-----------------------------------------------------------------------------
(* The types of what a hop keeps.                                          *)

Stages == {"new", "discover", "prepare", "chunks", "contract", "edits", "ended"}

HopTypeOK ==
  /\ stage \in [Hops -> Stages]
  /\ left \in [Hops -> Timers]
  /\ chunk \in [Hops -> 0..MaxChunks]
  /\ shot \in [Hops -> 1..2]
  /\ out \in [Hops -> Output]
  /\ reasked \in [Hops -> SUBSET {"contract", "edits"}]
  /\ outcome \in [Hops -> {"none", "delivered", "raised", "cancelled"}]
  /\ waited \in [Hops -> Nat]
  /\ inGit \in BOOLEAN

LEMMA TypeSplit == TypeOK <=> RouterTypeOK /\ HopTypeOK
  BY DEF TypeOK, HopTypeOK, Stages

LEMMA TimersType ==
  /\ Timers \subseteq Int /\ NoSla \in Timers
  /\ DiscoveryTicks \in Timers
  /\ \A h \in Hops : Sla[h] \in Timers
  /\ \A t \in Timers : t >= NoSla /\ (t > 0 => t - 1 \in Timers)
<1>1. ASSUME NEW h \in Hops PROVE Sla[h] = NoSla \/ (Sla[h] \in Nat \ {0} /\ Sla[h] \in 0..Sla[h])
  BY HopAssumption
<1>2. NoSla \in Timers /\ DiscoveryTicks \in Timers
  BY HopAssumption DEF Timers
<1>3. ASSUME NEW h \in Hops PROVE Sla[h] \in Timers
  BY <1>1, <1>2, <1>3 DEF Timers
<1>4. ASSUME NEW t \in Timers
      PROVE  t \in Int /\ t >= NoSla /\ (t > 0 => t - 1 \in Timers)
  <2>1. CASE t = NoSla
    BY <2>1 DEF NoSla
  <2>2. CASE t \in 0..DiscoveryTicks
    <3>1. t \in Int /\ t >= NoSla /\ (t > 0 => t - 1 \in 0..DiscoveryTicks)
      BY <2>2, HopAssumption DEF NoSla
    <3>2. QED
      BY <3>1 DEF Timers
  <2>3. ASSUME NEW h \in Hops, t \in 0..Sla[h]
        PROVE  t \in Int /\ t >= NoSla /\ (t > 0 => t - 1 \in Timers)
    <3>1. t \in Int /\ t >= NoSla /\ (t > 0 => t - 1 \in 0..Sla[h])
      BY <1>1, <2>3 DEF NoSla
    <3>2. QED
      BY <2>3, <3>1 DEF Timers
  <2>4. QED
    BY <2>1, <2>2, <2>3 DEF Timers
<1>5. QED
  BY <1>2, <1>3, <1>4

LEMMA GotoType ==
  ASSUME HopTypeOK, NEW h \in Hops, NEW s \in Stages, Goto(h, s)
  PROVE  /\ stage' \in [Hops -> Stages] /\ left' \in [Hops -> Timers]
         /\ waited' \in [Hops -> Nat] /\ inGit' \in BOOLEAN
  BY TimersType DEF HopTypeOK, Goto

LEMMA EndsType ==
  ASSUME HopTypeOK, NEW h \in Hops, out' \in [Hops -> Output],
         NEW how \in {"delivered", "raised", "cancelled"}, Ends(h, how)
  PROVE  HopTypeOK'
<1>1. /\ stage' \in [Hops -> Stages] /\ left' \in [Hops -> Timers]
      /\ waited' \in [Hops -> Nat] /\ inGit' \in BOOLEAN
  BY GotoType DEF Ends, Stages
<1>2. chunk' \in [Hops -> 0..MaxChunks] /\ shot' \in [Hops -> 1..2]
  BY HopAssumption DEF HopTypeOK, Ends
<1>3. /\ outcome' \in [Hops -> {"none", "delivered", "raised", "cancelled"}]
      /\ reasked' \in [Hops -> SUBSET {"contract", "edits"}]
  BY DEF HopTypeOK, Ends
<1>4. QED
  BY <1>1, <1>2, <1>3 DEF HopTypeOK

LEMMA RaisesType ==
  ASSUME HopTypeOK, NEW h \in Hops, Raises(h)
  PROVE  HopTypeOK'
<1>1. out' \in [Hops -> Output]
  BY DEF Raises, HopTypeOK
<1>2. QED
  BY <1>1, EndsType DEF Raises

LEMMA DeliversType ==
  ASSUME HopTypeOK, NEW h \in Hops, NEW o \in Output, Delivers(h, o)
  PROVE  HopTypeOK'
<1>1. out' \in [Hops -> Output]
  BY DEF Delivers, HopTypeOK
<1>2. QED
  BY <1>1, EndsType DEF Delivers

LEMMA ReasksType ==
  ASSUME HopTypeOK, NEW h \in Hops, NEW why \in {"contract", "edits"}, Reasks(h, why)
  PROVE  HopTypeOK'
<1>1. /\ stage' \in [Hops -> Stages] /\ left' \in [Hops -> Timers]
      /\ waited' \in [Hops -> Nat] /\ inGit' \in BOOLEAN
  BY GotoType DEF Reasks, Stages
<1>2. QED
  BY <1>1 DEF HopTypeOK, Reasks

LEMMA CheckEditsType ==
  ASSUME HopTypeOK, NEW h \in Hops, NEW o \in Output, CheckEdits(h, o)
  PROVE  HopTypeOK'
  BY DeliversType, ReasksType, RaisesType DEF CheckEdits

LEMMA HopTypeStep == HopTypeOK /\ [Next]_vars => HopTypeOK'
<1> SUFFICES ASSUME HopTypeOK, [Next]_vars PROVE HopTypeOK'
  OBVIOUS
<1>a. ASSUME NEW h \in Hops, NEW s \in Stages, Goto(h, s),
             chunk' \in [Hops -> 0..MaxChunks], shot' \in [Hops -> 1..2],
             UNCHANGED <<out, reasked, outcome>>
      PROVE  HopTypeOK'
  BY <1>a, GotoType DEF HopTypeOK
<1>b. chunk \in [Hops -> 0..MaxChunks] /\ shot \in [Hops -> 1..2]
  BY DEF HopTypeOK
<1>c. "prepare" \in Stages /\ "chunks" \in Stages
  BY DEF Stages
<1>1. ASSUME NEW h \in Hops, Begin(h) PROVE HopTypeOK'
  <2>1. CASE Raises(h)
    BY <2>1, RaisesType
  <2>2. CASE Goto(h, "prepare") /\ UNCHANGED <<chunk, shot, out, reasked, outcome>>
    BY <2>2, <1>a, <1>b, <1>c
  <2>3. CASE /\ stage' = [stage EXCEPT ![h] = "discover"]
             /\ left' = [left EXCEPT ![h] = DiscoveryTicks]
             /\ UNCHANGED <<chunk, shot, out, reasked, outcome, waited, inGit>>
    BY <2>3, TimersType DEF HopTypeOK, Stages
  <2>4. QED
    BY <1>1, <2>1, <2>2, <2>3 DEF Begin
<1>2. ASSUME NEW h \in Hops, Prepare(h) PROVE HopTypeOK'
  <2>1. CASE Raises(h)
    BY <2>1, RaisesType
  <2>2. CASE ~Raises(h)
    <3>1. PICK n \in 1..MaxChunks : chunk' = [chunk EXCEPT ![h] = n]
      BY <1>2, <2>2 DEF Prepare
    <3>2. chunk' \in [Hops -> 0..MaxChunks]
      BY <1>b, <3>1, HopAssumption
    <3>3. QED
      BY <1>2, <2>2, <3>2, <1>a, <1>b, <1>c DEF Prepare
  <2>3. QED
    BY <2>1, <2>2
<1>3. ASSUME NEW h \in Hops, Ask(h) PROVE HopTypeOK'
  <2>1. CASE Raises(h)
    BY <2>1, RaisesType
  <2>2. CASE ~Raises(h)
    BY <1>3, <2>2, TimersType DEF HopTypeOK, Ask
  <2>3. QED
    BY <2>1, <2>2
<1>4. ASSUME NEW h \in Hops, Answered(h) PROVE HopTypeOK'
  <2>1. CASE Discovered(h)
    BY <2>1, <1>a, <1>b, <1>c DEF Discovered
  <2>2. CASE Unparseable(h)
    <3>1. CASE Raises(h)
      BY <3>1, RaisesType
    <3>2. CASE ~Raises(h)
      <4>1. /\ Goto(h, "chunks") /\ shot' = [shot EXCEPT ![h] = 2]
            /\ UNCHANGED <<chunk, out, reasked, outcome>>
        BY <2>2, <3>2 DEF Unparseable
      <4>2. shot' \in [Hops -> 1..2]
        BY <1>b, <4>1
      <4>3. QED
        BY <4>1, <4>2, <1>a, <1>b, <1>c
    <3>3. QED
      BY <3>1, <3>2
  <2>3. CASE ChunkAnswered(h)
    <3>1. chunk' \in [Hops -> 0..MaxChunks] /\ shot' \in [Hops -> 1..2]
      BY <1>b, <2>3, HopAssumption DEF ChunkAnswered
    <3>2. QED
      BY <2>3, <3>1, <1>a, <1>c DEF ChunkAnswered
  <2>4. ASSUME NEW o \in Output, Merged(h, o) PROVE HopTypeOK'
    BY <2>4, CheckEditsType, ReasksType DEF Merged
  <2>5. ASSUME NEW o \in Output, Reasked(h, o) PROVE HopTypeOK'
    BY <2>5, CheckEditsType, DeliversType, RaisesType DEF Reasked
  <2>6. QED
    BY <1>4, <2>1, <2>2, <2>3, <2>4, <2>5 DEF Answered
<1>5. ASSUME NEW h \in Hops, GivesUp(h) PROVE HopTypeOK'
  <2>1. CASE Discovered(h)
    BY <2>1, <1>a, <1>b, <1>c DEF Discovered
  <2>2. QED
    BY <1>5, <2>1, RaisesType DEF GivesUp
<1>6. ASSUME NEW h \in Hops, Cancel(h) PROVE HopTypeOK'
  <2>1. out' \in [Hops -> Output]
    BY <1>6 DEF Cancel, HopTypeOK
  <2>2. QED
    BY <1>6, <2>1, EndsType DEF Cancel
<1>7. ASSUME UNCHANGED hopVars PROVE HopTypeOK'
  BY <1>7 DEF HopTypeOK, hopVars
<1>8. ASSUME Tick PROVE HopTypeOK'
  <2>1. left' \in [Hops -> Timers]
    BY <1>8, TimersType DEF Tick, HopTypeOK
  <2>2. waited' \in [Hops -> Nat]
    BY <1>8 DEF Tick, HopTypeOK
  <2>3. QED
    BY <1>8, <2>1, <2>2 DEF Tick, HopTypeOK
<1>9. QED
  BY <1>1, <1>2, <1>3, <1>4, <1>5, <1>6, <1>7, <1>8
  DEF Next, Hop, Call, CallRaises, Timeout, CallAcquires, CallBacksOff, CallRetries,
      BedrockReturns, vars

LEMMA HopTypeInit == Init => HopTypeOK
  BY TimersType, HopAssumption DEF Init, HopTypeOK, Stages, Output, NoOutput, Edits

(* The variables of the hops and of their router keep their types; for the *)
(* semaphore's value that means that no slot is given back twice.          *)
THEOREM TypeCorrect == Spec => []TypeOK
<1>1. Spec => []HopTypeOK
  BY HopTypeInit, HopTypeStep, PTL DEF Spec
<1>2. RouterInv /\ HopTypeOK => TypeOK
  BY TypeSplit DEF RouterInv
<1>3. QED
  BY <1>1, <1>2, RouterInvariant, PTL

-----------------------------------------------------------------------------
(* What a hop has asked, was told and has waited.                          *)

Asking == {"discover", "chunks", "contract", "edits"}

\* the calls under sla_seconds it has begun, counted as if each chunk took two
Unasked(h) == IF call[h] = "none" THEN 1 ELSE 0
Begun(h) ==
  IF stage[h] = "chunks" THEN 2 * (MaxChunks - chunk[h]) + shot[h] - Unasked(h)
  ELSE IF stage[h] \in {"contract", "edits"}
  THEN 2 * MaxChunks + Cardinality(reasked[h]) - Unasked(h)
  ELSE IF stage[h] = "ended" THEN 2 * MaxChunks + Cardinality(reasked[h])
  ELSE 0

\* what it has waited and may still wait for the call it awaits
Spent(h) == waited[h] + (IF left[h] > 0 THEN left[h] ELSE 0)
Due(h) == DiscoveryTicks + Sla[h] * Begun(h)

(* The timer runs while a call is awaited and only then.                   *)
TimerOK(h) ==
  /\ call[h] = "none" => left[h] = NoSla
  /\ call[h] # "none" => stage[h] \in Asking
  /\ call[h] # "none" /\ left[h] = NoSla => Sla[h] = NoSla

(* The stage a hop is at tells which re-asks it has used.                  *)
StageOK(h) ==
  /\ stage[h] \in {"new", "discover", "prepare", "chunks"} => reasked[h] = {}
  /\ stage[h] = "chunks" => chunk[h] >= 1
  /\ stage[h] = "contract" => reasked[h] = {"contract"}
  /\ stage[h] = "edits" => "edits" \in reasked[h]
  /\ stage[h] = "new" => waited[h] = 0

CheckedOK(h) ==
  outcome[h] = "delivered" =>
    /\ out[h].shaped
    /\ out[h].edits = "bad_ops" => "edits" \in reasked[h]

HopOK(h) ==
  /\ TimerOK(h) /\ StageOK(h) /\ CheckedOK(h)
  /\ Sla[h] # NoSla => Spent(h) <= Due(h)

HopInv == \A h \in Hops : HopOK(h)

LEMMA Mono ==
  ASSUME NEW s \in Nat, NEW a \in Nat, NEW b \in Nat, a <= b
  PROVE  s * a \in Nat /\ s * b \in Nat /\ s * a <= s * b /\ s * (a + 1) = s * a + s
<1>1. s * a \in Nat /\ s * b \in Nat /\ s * (a + 1) = s * a + s
  OBVIOUS
<1>2. b - a \in Nat /\ b = a + (b - a)
  OBVIOUS
<1>3. s * b = s * a + s * (b - a) /\ s * (b - a) \in Nat
  BY <1>2
<1>4. QED
  BY <1>1, <1>3

LEMMA SlaType ==
  ASSUME NEW h \in Hops, Sla[h] # NoSla
  PROVE  Sla[h] \in Nat \ {0}
  BY HopAssumption

LEMMA ReaskedType ==
  ASSUME HopTypeOK, NEW h \in Hops
  PROVE  /\ IsFiniteSet(reasked[h]) /\ Cardinality(reasked[h]) \in Nat
         /\ reasked[h] # {} => Cardinality(reasked[h]) >= 1
<1>1. IsFiniteSet({"contract", "edits"}) /\ reasked[h] \subseteq {"contract", "edits"}
  <2>1. IsFiniteSet({"contract"}) /\ {"contract", "edits"} = {"contract"} \union {"edits"}
    BY FS_Singleton
  <2>2. QED
    BY <2>1, FS_AddElement DEF HopTypeOK
<1>2. IsFiniteSet(reasked[h])
  BY <1>1, FS_Subset
<1>3. Cardinality(reasked[h]) \in Nat
  BY <1>2, FS_CardinalityType
<1>4. Cardinality(reasked[h]) = 0 => reasked[h] = {}
  BY <1>2, FS_EmptySet
<1>5. QED
  BY <1>2, <1>3, <1>4

LEMMA BegunType ==
  ASSUME HopTypeOK, NEW h \in Hops, StageOK(h)
  PROVE  /\ Begun(h) \in Nat
         /\ Begun(h) <= 2 * MaxChunks + Cardinality(reasked[h])
         /\ 2 * MaxChunks + Cardinality(reasked[h]) \in Nat
<1>1. /\ MaxChunks \in Nat /\ chunk[h] \in 0..MaxChunks /\ shot[h] \in 1..2
      /\ stage[h] \in Stages
  BY HopAssumption DEF HopTypeOK
<1>2. Cardinality(reasked[h]) \in Nat /\ (reasked[h] # {} => Cardinality(reasked[h]) >= 1)
  BY ReaskedType
<1>3. CASE stage[h] = "chunks"
  BY <1>1, <1>2, <1>3 DEF Begun, Unasked, StageOK
<1>4. CASE stage[h] \in {"contract", "edits"}
  <2>1. Cardinality(reasked[h]) >= 1
    BY <1>2, <1>4 DEF StageOK
  <2>2. Begun(h) = 2 * MaxChunks + Cardinality(reasked[h]) - Unasked(h)
    BY <1>4 DEF Begun
  <2>3. QED
    BY <1>1, <1>2, <2>1, <2>2 DEF Unasked
<1>5. CASE stage[h] = "ended"
  BY <1>1, <1>2, <1>5 DEF Begun
<1>6. CASE stage[h] \in {"new", "discover", "prepare"}
  <2>1. Begun(h) = 0
    BY <1>6 DEF Begun
  <2>2. QED
    BY <1>1, <1>2, <2>1
<1>7. QED
  BY <1>1, <1>3, <1>4, <1>5, <1>6 DEF Stages

(* A step that awaits nothing more spends nothing more.                    *)
LEMMA SpentOK ==
  ASSUME HopTypeOK, NEW h \in Hops, HopOK(h), Sla[h] # NoSla,
         waited'[h] = waited[h], left'[h] = NoSla,
         Begun(h)' \in Nat, Begun(h) <= Begun(h)'
  PROVE  Spent(h)' <= Due(h)'
<1>1. PICK b \in Nat, c \in Nat : b = Begun(h) /\ c = Begun(h)' /\ b <= c
  BY BegunType DEF HopOK
<1>2. Sla[h] \in Nat /\ DiscoveryTicks \in Nat
  BY SlaType, HopAssumption
<1>3. Sla[h] * b \in Nat /\ Sla[h] * c \in Nat /\ Sla[h] * b <= Sla[h] * c
  BY <1>1, <1>2, Mono
<1>4. Spent(h) \in Int /\ waited[h] <= Spent(h) /\ waited[h] \in Nat
  <2>1. waited[h] \in Nat /\ left[h] \in Int
    BY TimersType DEF HopTypeOK
  <2>2. QED
    BY <2>1 DEF Spent
<1>5. Spent(h)' = waited[h]
  BY <1>4 DEF Spent, NoSla
<1>6. Due(h) = DiscoveryTicks + Sla[h] * b /\ Due(h)' = DiscoveryTicks + Sla[h] * c
  BY <1>1 DEF Due
<1>7. QED
  BY <1>2, <1>3, <1>4, <1>5, <1>6 DEF HopOK

LEMMA EndsOK ==
  ASSUME HopTypeOK, HopTypeOK', NEW h \in Hops, HopOK(h), NEW how, Ends(h, how),
         call'[h] = "none", CheckedOK(h)'
  PROVE  HopOK(h)'
<1>1. /\ stage'[h] = "ended" /\ left'[h] = NoSla
      /\ waited'[h] = waited[h] /\ reasked'[h] = reasked[h]
  BY DEF Ends, Goto, HopTypeOK
<1>2. TimerOK(h)' /\ StageOK(h)'
  BY <1>1 DEF TimerOK, StageOK
<1>3. Begun(h)' = 2 * MaxChunks + Cardinality(reasked[h])
  BY <1>1 DEF Begun
<1>4. Sla[h] # NoSla => Spent(h)' <= Due(h)'
  BY <1>1, <1>3, BegunType, SpentOK DEF HopOK
<1>5. QED
  BY <1>2, <1>4 DEF HopOK

LEMMA RaisesOK ==
  ASSUME HopTypeOK, HopTypeOK', NEW h \in Hops, HopOK(h), Raises(h), call'[h] = "none"
  PROVE  HopOK(h)'
<1>1. CheckedOK(h)'
  BY DEF CheckedOK, Raises, Ends, HopTypeOK
<1>2. QED
  BY <1>1, EndsOK DEF Raises

LEMMA DeliversOK ==
  ASSUME HopTypeOK, HopTypeOK', NEW h \in Hops, HopOK(h), NEW o \in Output, Delivers(h, o),
         call'[h] = "none", o.shaped, o.edits = "bad_ops" => "edits" \in reasked[h]
  PROVE  HopOK(h)'
<1>1. out'[h] = o /\ reasked'[h] = reasked[h]
  BY DEF Delivers, Ends, HopTypeOK
<1>2. CheckedOK(h)'
  BY <1>1 DEF CheckedOK
<1>3. QED
  BY <1>2, EndsOK DEF Delivers

(* A re-ask is new: each is granted once.                                  *)
LEMMA ReasksOK ==
  ASSUME HopTypeOK, HopTypeOK', NEW h \in Hops, HopOK(h), NEW why, Reasks(h, why),
         call'[h] = "none",
         \/ stage[h] = "chunks" /\ why \in {"contract", "edits"}
         \/ stage[h] = "contract" /\ why = "edits"
  PROVE  HopOK(h)'
<1>1. /\ stage'[h] = why /\ left'[h] = NoSla /\ waited'[h] = waited[h]
      /\ reasked'[h] = reasked[h] \union {why} /\ outcome' = outcome /\ out' = out
  BY DEF Reasks, Goto, HopTypeOK
<1>2. why \notin reasked[h] /\ (why = "contract" => reasked'[h] = {"contract"})
  BY <1>1 DEF HopOK, StageOK
<1>3. TimerOK(h)'
  BY <1>1 DEF TimerOK
<1>4. StageOK(h)'
  BY <1>1, <1>2 DEF StageOK
<1>5. CheckedOK(h)'
  BY <1>1 DEF HopOK, CheckedOK
<1>6. Cardinality(reasked'[h]) = Cardinality(reasked[h]) + 1
  <2>1. Cardinality(reasked[h] \union {why}) = Cardinality(reasked[h]) + 1
    BY <1>2, ReaskedType, FS_AddElement
  <2>2. QED
    BY <1>1, <2>1
<1>7. Begun(h)' = 2 * MaxChunks + Cardinality(reasked[h])
  <2>1. Begun(h)' = 2 * MaxChunks + Cardinality(reasked'[h]) - 1
    BY <1>1 DEF Begun, Unasked
  <2>2. QED
    BY <1>6, <2>1, ReaskedType, HopAssumption
<1>8. Sla[h] # NoSla => Spent(h)' <= Due(h)'
  BY <1>1, <1>7, BegunType, SpentOK DEF HopOK
<1>9. QED
  BY <1>3, <1>4, <1>5, <1>8 DEF HopOK

LEMMA CheckEditsOK ==
  ASSUME HopTypeOK, HopTypeOK', NEW h \in Hops, HopOK(h), NEW o \in Output,
         CheckEdits(h, o), o.shaped, call'[h] = "none", stage[h] \in {"chunks", "contract"}
  PROVE  HopOK(h)'
  BY DeliversOK, ReasksOK, RaisesOK DEF CheckEdits

(* Where the hop goes on without its model.                                *)
LEMMA GotoOK ==
  ASSUME HopTypeOK, HopTypeOK', NEW h \in Hops, HopOK(h),
         NEW s \in {"prepare", "chunks"}, Goto(h, s), call'[h] = "none",
         UNCHANGED <<out, reasked, outcome>>, reasked[h] = {},
         s = "chunks" => chunk'[h] >= 1,
         Begun(h)' \in Nat /\ Begun(h) <= Begun(h)'
  PROVE  HopOK(h)'
<1>1. stage'[h] = s /\ left'[h] = NoSla /\ waited'[h] = waited[h]
  BY DEF Goto, HopTypeOK
<1>2. TimerOK(h)' /\ StageOK(h)'
  BY <1>1 DEF TimerOK, StageOK
<1>3. CheckedOK(h)'
  BY DEF HopOK, CheckedOK
<1>4. Sla[h] # NoSla => Spent(h)' <= Due(h)'
  BY <1>1, SpentOK
<1>5. QED
  BY <1>2, <1>3, <1>4 DEF HopOK

LEMMA DiscoveredOK ==
  ASSUME HopTypeOK, HopTypeOK', NEW h \in Hops, HopOK(h), Discovered(h), call'[h] = "none"
  PROVE  HopOK(h)'
<1>1. stage[h] = "discover" /\ stage'[h] = "prepare" /\ reasked[h] = {}
  BY DEF Discovered, Goto, HopTypeOK, HopOK, StageOK
<1>2. Begun(h) = 0 /\ Begun(h)' = 0
  BY <1>1 DEF Begun
<1>3. QED
  BY <1>1, <1>2, GotoOK DEF Discovered

LEMMA UnparseableOK ==
  ASSUME HopTypeOK, HopTypeOK', NEW h \in Hops, HopOK(h), Unparseable(h),
         call[h] # "none", call'[h] = "none"
  PROVE  HopOK(h)'
<1>1. CASE Raises(h)
  BY <1>1, RaisesOK
<1>2. CASE ~Raises(h)
  <2>1. /\ stage[h] = "chunks" /\ shot[h] = 1 /\ Goto(h, "chunks")
        /\ shot' = [shot EXCEPT ![h] = 2] /\ UNCHANGED <<chunk, out, reasked, outcome>>
    BY <1>2 DEF Unparseable
  <2>2. stage'[h] = "chunks" /\ shot'[h] = 2 /\ chunk'[h] = chunk[h] /\ chunk[h] >= 1
    BY <2>1 DEF Goto, HopTypeOK, HopOK, StageOK
  <2>3. reasked[h] = {}
    BY <2>1 DEF HopOK, StageOK
  <2>4. Begun(h)' = Begun(h) /\ Begun(h) \in Nat
    <3>1. Begun(h) = 2 * (MaxChunks - chunk[h]) + 1
      BY <2>1, HopAssumption DEF Begun, Unasked, HopTypeOK
    <3>2. Begun(h)' = 2 * (MaxChunks - chunk[h]) + 2 - 1
      BY <2>2 DEF Begun, Unasked
    <3>3. QED
      BY <3>1, <3>2, BegunType, HopAssumption DEF HopOK, HopTypeOK
  <2>5. QED
    BY <2>1, <2>2, <2>3, <2>4, GotoOK
<1>3. QED
  BY <1>1, <1>2

LEMMA ChunkAnsweredOK ==
  ASSUME HopTypeOK, HopTypeOK', NEW h \in Hops, HopOK(h), ChunkAnswered(h),
         call[h] # "none", call'[h] = "none"
  PROVE  HopOK(h)'
<1>1. /\ stage[h] = "chunks" /\ chunk[h] > 1 /\ Goto(h, "chunks")
      /\ chunk'[h] = chunk[h] - 1 /\ shot'[h] = 1 /\ UNCHANGED <<out, reasked, outcome>>
  BY DEF ChunkAnswered, HopTypeOK
<1>2. /\ stage'[h] = "chunks" /\ reasked[h] = {}
      /\ chunk[h] \in 0..MaxChunks /\ shot[h] \in 1..2 /\ MaxChunks \in Nat
  BY <1>1, HopAssumption DEF Goto, HopTypeOK, HopOK, StageOK
<1>3. Begun(h) = 2 * (MaxChunks - chunk[h]) + shot[h]
  BY <1>1, <1>2 DEF Begun, Unasked
<1>4. Begun(h)' = 2 * (MaxChunks - (chunk[h] - 1)) + 1 - 1
  BY <1>1, <1>2 DEF Begun, Unasked
<1>5. Begun(h)' \in Nat /\ Begun(h) <= Begun(h)' /\ chunk'[h] >= 1
  BY <1>1, <1>2, <1>3, <1>4
<1>6. QED
  BY <1>1, <1>2, <1>5, GotoOK

LEMMA AnsweredOK ==
  ASSUME HopTypeOK, HopTypeOK', NEW h \in Hops, HopOK(h), Answered(h),
         call[h] # "none", call'[h] = "none"
  PROVE  HopOK(h)'
<1>1. ASSUME NEW o \in Output, Merged(h, o) PROVE HopOK(h)'
  BY <1>1, CheckEditsOK, ReasksOK DEF Merged
<1>2. ASSUME NEW o \in Output, Reasked(h, o) PROVE HopOK(h)'
  <2>1. CASE stage[h] = "contract" /\ o.shaped /\ CheckEdits(h, o)
    BY <2>1, CheckEditsOK
  <2>2. CASE stage[h] = "edits" /\ o.shaped /\ Delivers(h, o)
    <3>1. "edits" \in reasked[h]
      BY <2>2 DEF HopOK, StageOK
    <3>2. QED
      BY <2>2, <3>1, DeliversOK
  <2>3. CASE Raises(h)
    BY <2>3, RaisesOK
  <2>4. QED
    BY <1>2, <2>1, <2>2, <2>3 DEF Reasked
<1>3. QED
  BY <1>1, <1>2, DiscoveredOK, UnparseableOK, ChunkAnsweredOK DEF Answered

LEMMA GivesUpOK ==
  ASSUME HopTypeOK, HopTypeOK', NEW h \in Hops, HopOK(h), GivesUp(h), call'[h] = "none"
  PROVE  HopOK(h)'
  BY DiscoveredOK, RaisesOK DEF GivesUp

(* A question is put: the timer starts, and pays for one more call.        *)
LEMMA AskOK ==
  ASSUME HopTypeOK, HopTypeOK', RouterInv, NEW h \in Hops, HopOK(h), Ask(h)
  PROVE  HopOK(h)'
<1>1. stage[h] \in {"chunks", "contract", "edits"} /\ call[h] = "none" /\ left[h] = NoSla
  BY DEF Ask, HopOK, TimerOK
<1>2. CASE Raises(h) /\ UNCHANGED routerVars
  BY <1>1, <1>2, RaisesOK DEF routerVars
<1>3. CASE /\ Enter(h) /\ left' = [left EXCEPT ![h] = Sla[h]]
           /\ UNCHANGED <<stage, chunk, shot, out, reasked, outcome, waited, inGit>>
  <2>1. call'[h] = "waiting" /\ left'[h] = Sla[h]
    BY <1>3 DEF Enter, RouterInv, RouterTypeOK, HopTypeOK
  <2>2. TimerOK(h)' /\ StageOK(h)' /\ CheckedOK(h)'
    BY <1>1, <1>3, <2>1 DEF HopOK, TimerOK, StageOK, CheckedOK, Asking
  <2>3. ASSUME Sla[h] # NoSla PROVE Spent(h)' <= Due(h)'
    <3>1. PICK b \in Nat : b = Begun(h)
      BY BegunType DEF HopOK
    <3>2. Begun(h)' = b + 1
      <4>1. /\ chunk[h] \in 0..MaxChunks /\ shot[h] \in 1..2 /\ MaxChunks \in Nat
            /\ Cardinality(reasked[h]) \in Nat
        BY HopAssumption, ReaskedType DEF HopTypeOK
      <4>2. Unasked(h) = 1 /\ Unasked(h)' = 0
        BY <1>1, <2>1 DEF Unasked
      <4>3. QED
        BY <1>1, <1>3, <3>1, <4>1, <4>2 DEF Begun
    <3>3. Sla[h] \in Nat \ {0} /\ DiscoveryTicks \in Nat /\ waited[h] \in Nat
      BY <2>3, SlaType, HopAssumption DEF HopTypeOK
    <3>4. Sla[h] * b \in Nat /\ Sla[h] * (b + 1) = Sla[h] * b + Sla[h]
      BY <3>1, <3>3, Mono
    <3>5. waited[h] <= DiscoveryTicks + Sla[h] * b
      BY <1>1, <2>3, <3>1, <3>3 DEF HopOK, Spent, Due, NoSla
    <3>6. Spent(h)' = waited[h] + Sla[h]
      BY <1>3, <2>1, <3>3 DEF Spent
    <3>7. Due(h)' = DiscoveryTicks + (Sla[h] * b + Sla[h])
      BY <3>2, <3>4 DEF Due
    <3>8. QED
      BY <3>3, <3>4, <3>5, <3>6, <3>7
  <2>4. QED
    BY <2>2, <2>3 DEF HopOK
<1>4. QED
  BY <1>2, <1>3 DEF Ask

LEMMA BeginOK ==
  ASSUME HopTypeOK, HopTypeOK', RouterInv, NEW h \in Hops, HopOK(h), Begin(h)
  PROVE  HopOK(h)'
<1>1. /\ stage[h] = "new" /\ waited[h] = 0 /\ reasked[h] = {}
      /\ call[h] = "none" /\ left[h] = NoSla
  BY DEF Begin, HopOK, TimerOK, StageOK, Asking
<1>2. Begun(h) = 0
  BY <1>1 DEF Begun
<1>3. CASE Raises(h) /\ UNCHANGED routerVars
  BY <1>1, <1>3, RaisesOK DEF routerVars
<1>4. CASE /\ Goto(h, "prepare")
           /\ UNCHANGED <<chunk, shot, out, reasked, outcome, routerVars>>
  <2>1. stage'[h] = "prepare"
    BY <1>4 DEF Goto, HopTypeOK
  <2>2. Begun(h)' = 0
    BY <2>1 DEF Begun
  <2>3. QED
    BY <1>1, <1>2, <1>4, <2>2, GotoOK DEF routerVars
<1>5. CASE /\ Enter(h) /\ stage' = [stage EXCEPT ![h] = "discover"]
           /\ left' = [left EXCEPT ![h] = DiscoveryTicks]
           /\ UNCHANGED <<chunk, shot, out, reasked, outcome, waited, inGit>>
  <2>1. /\ call'[h] = "waiting" /\ left'[h] = DiscoveryTicks /\ stage'[h] = "discover"
        /\ DiscoveryTicks \in Nat \ {0}
    BY <1>5, HopAssumption DEF Enter, RouterInv, RouterTypeOK, HopTypeOK
  <2>2. TimerOK(h)' /\ StageOK(h)' /\ CheckedOK(h)'
    BY <1>1, <1>5, <2>1 DEF HopOK, TimerOK, StageOK, CheckedOK, Asking, NoSla
  <2>3. ASSUME Sla[h] # NoSla PROVE Spent(h)' <= Due(h)'
    <3>1. Begun(h)' = 0
      BY <2>1 DEF Begun
    <3>2. Spent(h)' = DiscoveryTicks
      BY <1>1, <1>5, <2>1 DEF Spent
    <3>3. Due(h)' = DiscoveryTicks
      BY <2>1, <2>3, <3>1, SlaType DEF Due
    <3>4. QED
      BY <2>1, <3>2, <3>3
  <2>4. QED
    BY <2>2, <2>3 DEF HopOK
<1>6. QED
  BY <1>3, <1>4, <1>5 DEF Begin

LEMMA PrepareOK ==
  ASSUME HopTypeOK, HopTypeOK', NEW h \in Hops, HopOK(h), Prepare(h)
  PROVE  HopOK(h)'
<1>1. stage[h] = "prepare" /\ reasked[h] = {} /\ call[h] = "none" /\ call'[h] = "none"
  BY DEF Prepare, HopOK, TimerOK, StageOK, Asking, routerVars
<1>2. Begun(h) = 0
  BY <1>1 DEF Begun
<1>3. CASE Raises(h)
  BY <1>1, <1>3, RaisesOK
<1>4. CASE ~Raises(h)
  <2>1. PICK n \in 1..MaxChunks : chunk' = [chunk EXCEPT ![h] = n]
    BY <1>4 DEF Prepare
  <2>2. Goto(h, "chunks") /\ UNCHANGED <<shot, out, reasked, outcome>>
    BY <1>4 DEF Prepare
  <2>3. stage'[h] = "chunks" /\ chunk'[h] = n /\ shot'[h] \in 1..2 /\ MaxChunks \in Nat
    BY <2>1, <2>2, HopAssumption DEF Goto, HopTypeOK
  <2>4. Begun(h)' = 2 * (MaxChunks - n) + shot'[h] - 1
    BY <1>1, <2>3 DEF Begun, Unasked
  <2>5. Begun(h)' \in Nat /\ Begun(h) <= Begun(h)' /\ chunk'[h] >= 1
    BY <1>2, <2>3, <2>4
  <2>6. QED
    BY <1>1, <2>2, <2>5, GotoOK
<1>5. QED
  BY <1>3, <1>4

(* A hop's step is its own: it leaves the other hops as they were.         *)
Same(g) ==
  /\ stage'[g] = stage[g] /\ left'[g] = left[g] /\ chunk'[g] = chunk[g]
  /\ shot'[g] = shot[g] /\ out'[g] = out[g] /\ reasked'[g] = reasked[g]
  /\ outcome'[g] = outcome[g] /\ waited'[g] = waited[g]

LEMMA SameOK ==
  ASSUME NEW g \in Hops, HopOK(g), Same(g), call'[g] = "none" <=> call[g] = "none"
  PROVE  HopOK(g)'
<1>1. TimerOK(g)' /\ StageOK(g)' /\ CheckedOK(g)'
  BY DEF HopOK, Same, TimerOK, StageOK, CheckedOK
<1>2. Unasked(g)' = Unasked(g)
  BY DEF Unasked
<1>3. Begun(g)' = Begun(g)
  BY <1>2 DEF Begun, Same
<1>4. Spent(g)' = Spent(g) /\ Due(g)' = Due(g)
  BY <1>3 DEF Spent, Due, Same
<1>5. QED
  BY <1>1, <1>4 DEF HopOK

LEMMA RouterApart ==
  ASSUME RouterInv, NEW h \in Hops, NEW g \in Hops, g # h,
         \/ Enter(h) \/ Settles(h) \/ BackOff(h) \/ Retry(h) \/ Acquire(h) \/ Abandon(h)
         \/ UNCHANGED routerVars
  PROVE  call'[g] = call[g]
  BY DEF RouterInv, RouterTypeOK, Enter, Settles, BackOff, Retry, Acquire, Abandon, Release,
         Over, routerVars

LEMMA EndsApart ==
  ASSUME HopTypeOK, NEW h \in Hops, NEW g \in Hops, g # h,
         \/ Raises(h)
         \/ \E o \in Output : Delivers(h, o)
         \/ \E why \in {"contract", "edits"} : Reasks(h, why)
         \/ Discovered(h)
         \/ Ends(h, "cancelled") /\ UNCHANGED out
  PROVE  Same(g)
<1>1. CASE Raises(h) \/ (Ends(h, "cancelled") /\ UNCHANGED out)
  BY <1>1 DEF HopTypeOK, Same, Raises, Ends, Goto
<1>2. CASE \E o \in Output : Delivers(h, o)
  BY <1>2 DEF HopTypeOK, Same, Delivers, Ends, Goto
<1>3. CASE \E why \in {"contract", "edits"} : Reasks(h, why)
  BY <1>3 DEF HopTypeOK, Same, Reasks, Goto
<1>4. CASE Discovered(h)
  BY <1>4 DEF HopTypeOK, Same, Discovered, Goto
<1>5. QED
  BY <1>1, <1>2, <1>3, <1>4

LEMMA AnsweredApart ==
  ASSUME HopTypeOK, NEW h \in Hops, NEW g \in Hops, g # h, Answered(h)
  PROVE  Same(g)
<1>1. CASE Unparseable(h) \/ ChunkAnswered(h)
  <2>1. ASSUME Goto(h, "chunks"), UNCHANGED <<out, reasked, outcome>>,
               chunk'[g] = chunk[g], shot'[g] = shot[g]
        PROVE  Same(g)
    BY <2>1 DEF HopTypeOK, Same, Goto
  <2>2. CASE Unparseable(h)
    BY <2>1, <2>2, EndsApart DEF Unparseable, HopTypeOK
  <2>3. CASE ChunkAnswered(h)
    BY <2>1, <2>3 DEF ChunkAnswered, HopTypeOK
  <2>4. QED
    BY <1>1, <2>2, <2>3
<1>2. CASE \E o \in Output : Merged(h, o) \/ Reasked(h, o)
  BY <1>2, EndsApart DEF Merged, Reasked, CheckEdits
<1>3. QED
  BY <1>1, <1>2, EndsApart DEF Answered

LEMMA HopApart ==
  ASSUME HopTypeOK, RouterInv, NEW h \in Hops, NEW g \in Hops, g # h, Hop(h)
  PROVE  Same(g) /\ call'[g] = call[g]
<1>1. CASE Begin(h) \/ Ask(h)
  <2>1. Same(g)
    BY <1>1, EndsApart DEF Begin, Ask, Goto, Same, HopTypeOK
  <2>2. QED
    BY <1>1, <2>1, RouterApart DEF Begin, Ask, routerVars
<1>2. CASE Prepare(h)
  <2>1. CASE Raises(h)
    BY <1>2, <2>1, EndsApart, RouterApart DEF Prepare
  <2>2. CASE ~Raises(h)
    <3>1. PICK n \in 1..MaxChunks : chunk' = [chunk EXCEPT ![h] = n]
      BY <1>2, <2>2 DEF Prepare
    <3>2. Same(g)
      BY <1>2, <2>2, <3>1 DEF Prepare, Goto, Same, HopTypeOK
    <3>3. QED
      BY <1>2, <3>2, RouterApart DEF Prepare
  <2>3. QED
    BY <2>1, <2>2
<1>3. CASE Answered(h)
  BY <1>3, AnsweredApart, RouterApart DEF Answered
<1>4. CASE CallRaises(h)
  BY <1>4, EndsApart, RouterApart DEF CallRaises, GivesUp
<1>5. CASE Timeout(h)
  BY <1>5, EndsApart, RouterApart DEF Timeout, GivesUp
<1>6. CASE Cancel(h)
  BY <1>6, EndsApart, RouterApart DEF Cancel
<1>7. QED
  BY <1>1, <1>2, <1>3, <1>4, <1>5, <1>6 DEF Hop

LEMMA HopStep ==
  ASSUME HopTypeOK, HopTypeOK', RouterInv, NEW h \in Hops, HopOK(h), Hop(h)
  PROVE  HopOK(h)'
<1>1. ASSUME Settles(h) PROVE call[h] # "none" /\ call'[h] = "none"
  BY <1>1 DEF Settles, Release, Over, RouterInv, RouterTypeOK
<1>2. ASSUME Abandon(h) PROVE call'[h] = "none"
  BY <1>2 DEF Abandon, Release, Over, RouterInv, RouterTypeOK
<1>3. CASE Answered(h)
  BY <1>1, <1>3, AnsweredOK DEF Answered
<1>4. CASE CallRaises(h)
  BY <1>1, <1>4, GivesUpOK DEF CallRaises
<1>5. CASE Timeout(h)
  BY <1>2, <1>5, GivesUpOK DEF Timeout
<1>6. CASE Cancel(h)
  <2>1. call'[h] = "none"
    BY <1>2, <1>6 DEF Cancel, routerVars
  <2>2. CheckedOK(h)'
    BY <1>6 DEF Cancel, Ends, CheckedOK, HopTypeOK
  <2>3. QED
    BY <1>6, <2>1, <2>2, EndsOK DEF Cancel
<1>7. QED
  BY <1>3, <1>4, <1>5, <1>6, BeginOK, PrepareOK, AskOK DEF Hop

LEMMA CallStep ==
  ASSUME RouterInv, NEW h \in Hops, NEW g \in Hops, Call(h)
  PROVE  Same(g) /\ (call'[g] = "none" <=> call[g] = "none")
<1>1. UNCHANGED hopVars
  BY DEF Call, CallAcquires, CallBacksOff, CallRetries
<1>2. Same(g)
  BY <1>1 DEF Same, hopVars
<1>3. call'[h] # "none" /\ call[h] # "none"
  BY DEF Call, CallAcquires, CallBacksOff, CallRetries, Acquire, BackOff, Retry, RouterInv,
         RouterTypeOK
<1>4. QED
  BY <1>2, <1>3, RouterApart DEF Call, CallAcquires, CallBacksOff, CallRetries

(* A tick moves a wait from what is left to what has passed.               *)
LEMMA TickOK ==
  ASSUME HopTypeOK, NEW h \in Hops, HopOK(h), Tick
  PROVE  HopOK(h)'
<1>1. left[h] \in Int /\ waited[h] \in Nat /\ left[h] >= NoSla /\ left[h] # 0
  BY TimersType DEF HopTypeOK, Tick
<1>2. /\ left'[h] = IF left[h] > 0 THEN left[h] - 1 ELSE left[h]
      /\ waited'[h] = IF left[h] > 0 THEN waited[h] + 1 ELSE waited[h]
      /\ UNCHANGED <<call, stage, chunk, shot, out, reasked, outcome>>
  BY DEF Tick, routerVars
<1>3. TimerOK(h)'
  BY <1>1, <1>2 DEF HopOK, TimerOK, NoSla
<1>4. StageOK(h)' /\ CheckedOK(h)'
  <2>1. stage[h] = "new" => waited'[h] = waited[h]
    BY <1>1, <1>2 DEF HopOK, TimerOK, Asking, NoSla
  <2>2. QED
    BY <1>2, <2>1 DEF HopOK, StageOK, CheckedOK
<1>5. Begun(h)' = Begun(h)
  BY <1>2 DEF Begun, Unasked
<1>6. Spent(h)' = Spent(h) /\ Due(h)' = Due(h)
  BY <1>1, <1>2, <1>5 DEF Spent, Due, NoSla
<1>7. QED
  BY <1>3, <1>4, <1>6 DEF HopOK

LEMMA HopInit == Init => HopInv
<1> SUFFICES ASSUME Init, NEW h \in Hops PROVE HopOK(h)
  BY DEF HopInv
<1>1. TimerOK(h) /\ StageOK(h) /\ CheckedOK(h)
  BY DEF Init, RouterInit, TimerOK, StageOK, CheckedOK
<1>2. ASSUME Sla[h] # NoSla PROVE Spent(h) <= Due(h)
  <2>1. Begun(h) = 0 /\ Spent(h) = 0
    BY DEF Begun, Spent, Init, NoSla
  <2>2. QED
    BY <1>2, <2>1, SlaType, HopAssumption DEF Due
<1>3. QED
  BY <1>1, <1>2 DEF HopOK

LEMMA HopInvStep ==
  RouterInv /\ HopTypeOK /\ HopTypeOK' /\ HopInv /\ [Next]_vars => HopInv'
<1> SUFFICES ASSUME RouterInv, HopTypeOK, HopTypeOK', HopInv, [Next]_vars, NEW g \in Hops
             PROVE  HopOK(g)'
  BY DEF HopInv
<1>1. HopOK(g)
  BY DEF HopInv
<1>2. ASSUME NEW h \in Hops, Hop(h) PROVE HopOK(g)'
  <2>1. CASE g = h
    BY <1>1, <1>2, <2>1, HopStep
  <2>2. CASE g # h
    BY <1>1, <1>2, <2>2, HopApart, SameOK
  <2>3. QED
    BY <2>1, <2>2
<1>3. ASSUME NEW h \in Hops, Call(h) PROVE HopOK(g)'
  BY <1>1, <1>3, CallStep, SameOK
<1>4. ASSUME UNCHANGED hopVars, UNCHANGED call PROVE HopOK(g)'
  BY <1>1, <1>4, SameOK DEF Same, hopVars
<1>5. CASE BedrockReturns
  BY <1>4, <1>5 DEF BedrockReturns, OrphanEnds
<1>6. CASE Tick
  BY <1>1, <1>6, TickOK
<1>7. CASE UNCHANGED vars
  BY <1>4, <1>7 DEF vars, routerVars
<1>8. QED
  BY <1>2, <1>3, <1>5, <1>6, <1>7 DEF Next

(* Every hop's timer, re-asks and waits are accounted for.                 *)
THEOREM HopInvariant == Spec => []HopInv
<1>1. Spec => []HopTypeOK
  BY HopTypeInit, HopTypeStep, PTL DEF Spec
<1>2. QED
  BY <1>1, RouterInvariant, HopInit, HopInvStep, PTL DEF Spec

(* What leaves a hop as its Outcome was held against the contract, and its *)
(* edits either apply or were shown to the model once more.                *)
THEOREM CheckedOutputs == Spec => []OnlyCheckedOutputsLeave
<1>1. HopInv => OnlyCheckedOutputsLeave
  BY DEF HopInv, HopOK, CheckedOK, OnlyCheckedOutputsLeave
<1>2. QED
  BY <1>1, HopInvariant, PTL

(* A hop with an SLA waits for the model no longer than discovery and its  *)
(* calls may take, however many hops share the router.                     *)
THEOREM WaitsBounded == Spec => []WaitBounded
<1>1. Spec => []HopTypeOK
  BY HopTypeInit, HopTypeStep, PTL DEF Spec
<1>2. HopTypeOK /\ HopInv => WaitBounded
  <2> SUFFICES ASSUME HopTypeOK, HopInv, NEW h \in Hops, Sla[h] # NoSla
               PROVE  waited[h] <= DiscoveryTicks
                        + Sla[h] * (2 * MaxChunks + Cardinality(reasked[h]))
    BY DEF WaitBounded
  <2>1. PICK b \in Nat, c \in Nat :
          /\ b = Begun(h) /\ c = 2 * MaxChunks + Cardinality(reasked[h]) /\ b <= c
    BY BegunType DEF HopInv, HopOK
  <2>2. Sla[h] \in Nat /\ DiscoveryTicks \in Nat
    BY SlaType, HopAssumption
  <2>3. Sla[h] * b \in Nat /\ Sla[h] * c \in Nat /\ Sla[h] * b <= Sla[h] * c
    BY <2>1, <2>2, Mono
  <2>4. waited[h] \in Nat /\ left[h] \in Int
    BY TimersType DEF HopTypeOK
  <2>5. waited[h] <= Spent(h) /\ Spent(h) \in Int
    BY <2>4 DEF Spent
  <2>6. Spent(h) <= DiscoveryTicks + Sla[h] * b
    BY <2>1 DEF HopInv, HopOK, Due
  <2>7. waited[h] <= DiscoveryTicks + Sla[h] * c
    BY <2>2, <2>3, <2>4, <2>5, <2>6
  <2>8. QED
    BY <2>1, <2>7
<1>3. QED
  BY <1>1, <1>2, HopInvariant, PTL
=============================================================================
