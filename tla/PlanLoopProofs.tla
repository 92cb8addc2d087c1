-------------------------- MODULE PlanLoopProofs --------------------------
(***************************************************************************)
(* Proofs about PlanLoop: what the command writes is what was reviewed and *)
(* what passed the dry run, what it records as done was tested, and when   *)
(* an approval is left without a patch.                                    *)
(***************************************************************************)
EXTENDS PlanLoop, TLAPS

-----------------------------------------------------------------------------
(* Operators.                                                              *)

(* What is written to a path is a body, or nothing.                        *)
LEMMA WrittenType ==
  ASSUME NEW t \in Tree, NEW op \in FileOp, Satisfiable(t, op)
  PROVE  Written(t, op) \in Body \union {Absent} /\ op.path \in Paths
<1>1. op.path \in Paths BY DEF FileOp
<1>2. t[op.path] \in Body \union {Absent} BY <1>1 DEF Tree
<1>3. CASE op.action = "edit"
  <2>1. op.old \in Snippets /\ op.new \in Snippets BY <1>3 DEF FileOp
  <2>2. t[op.path] \in Body /\ t[op.path][op.old] = 1 BY <1>2, <1>3 DEF Satisfiable
  <2> DEFINE b == t[op.path]
             less == [b EXCEPT ![op.old] = @ - 1]
  <2>3. less \in Body BY <2>1, <2>2 DEF Body
  <2>4. [less EXCEPT ![op.new] = @ + 1] \in Body
    <3> HIDE DEF less
    <3> QED BY <2>1, <2>3 DEF Body
  <2> QED BY <1>1, <1>3, <2>4 DEF Written, Replaced
<1>4. CASE op.action = "delete" BY <1>1, <1>4 DEF Written
<1>5. CASE op.action \in {"create", "replace"}
  <2>1. op.body \in Body BY <1>5 DEF FileOp
  <2> QED BY <1>1, <1>5, <2>1 DEF Written
<1> QED BY <1>3, <1>4, <1>5 DEF Satisfiable

LEMMA TouchedType ==
  ASSUME NEW t \in Tree, NEW op \in FileOp PROVE Touched(t, op) \subseteq Paths
BY DEF Touched, FileOp

LEMMA PatchOps ==
  ASSUME NEW p \in Patch
  PROVE  /\ p.ops \in Seq(FileOp) /\ Len(p.ops) \in Nat /\ DOMAIN p.ops = 1..Len(p.ops)
         /\ \A i \in 1..Len(p.ops) : p.ops[i] \in FileOp
         /\ p.against \in Tree \union {None}
<1>1. p.ops \in Patches \union {<<>>} /\ p.against \in Tree \union {None} BY DEF Patch
<1>2. <<>> \in Seq(FileOp) OBVIOUS
<1>3. p.ops \in Seq(FileOp) BY <1>1, <1>2, PlanAssumption
<1> QED BY <1>1, <1>3

(* An output is a state again.  A developer leaves a patch and no report,  *)
(* qa a report and the patch it was given.                                 *)
LEMMA OutputType ==
  ASSUME NEW s \in State, NEW st \in Output(s), role \in Roles, tree \in Tree
  PROVE  /\ st \in State
         /\ role = "architect" => st.patch = s.patch /\ st.qa = s.qa
         /\ role = "developer" =>
              /\ st.qa = s.qa /\ st.patch \in Patch /\ st.patch # None
              /\ st.patch.against # None => CheckFileOps(st.patch.against, st.patch.ops)
         /\ role = "qa" => st.patch = s.patch /\ st.qa # None /\ st.qa.of = Handed(s)
         /\ role = "ops" => st = s
<1>0. s.patch \in Patch \union {None} /\ s.qa \in Report \union {None} /\ s.plan \in BOOLEAN
  BY DEF State
<1>1. CASE role = "architect"
  <2>1. st = [s EXCEPT !.plan = TRUE] BY <1>1 DEF Output
  <2>2. st \in State /\ st.patch = s.patch /\ st.qa = s.qa BY <2>1 DEF State
  <2> QED BY <1>1, <2>2
<1>2. CASE role = "developer"
  <2>1. PICK q : /\ q \in Patch /\ st = [s EXCEPT !.patch = q]
                 /\ q.against # None => CheckFileOps(q.against, q.ops)
    <3>1. CASE st \in {[s EXCEPT !.patch = [ops |-> p, against |-> tree]] :
                         p \in {q \in Patches : CheckFileOps(tree, q)}}
      <4>1. PICK p \in Patches : CheckFileOps(tree, p)
              /\ st = [s EXCEPT !.patch = [ops |-> p, against |-> tree]]
        BY <3>1
      <4>2. [ops |-> p, against |-> tree] \in Patch BY DEF Patch
      <4> QED BY <4>1, <4>2
    <3>2. CASE st \in {[s EXCEPT !.patch = [ops |-> p, against |-> None]] : p \in Patches}
      <4>1. PICK p \in Patches : st = [s EXCEPT !.patch = [ops |-> p, against |-> None]]
        BY <3>2
      <4>2. [ops |-> p, against |-> None] \in Patch BY DEF Patch
      <4> QED BY <4>1, <4>2
    <3> QED BY <1>2, <3>1, <3>2 DEF Output
  <2>2. st.patch = q /\ st.qa = s.qa /\ st \in State BY <2>1 DEF State
  <2>3. q # None BY <2>1, PlanAssumption
  <2> QED BY <1>2, <2>1, <2>2, <2>3
<1>3. CASE role = "qa"
  <2>1. PICK f \in BOOLEAN : st = [s EXCEPT !.qa = [of |-> Handed(s), failed |-> f]]
    BY <1>3 DEF Output
  <2> DEFINE r == [of |-> Handed(s), failed |-> f]
  <2>2. r \in Report BY <1>0 DEF Report, Handed
  <2>3. r # None BY <2>2, PlanAssumption
  <2>4. st.qa = r /\ st.patch = s.patch /\ st \in State BY <2>1, <2>2 DEF State
  <2> QED BY <1>3, <2>3, <2>4
<1>4. CASE role = "ops" BY <1>4 DEF Output
<1> QED BY <1>1, <1>2, <1>3, <1>4 DEF Roles

(* What is kept of a chain that an exception ended.                        *)
Salvaged(s) == IF s.patch = None THEN [s EXCEPT !.patch = Synthetic] ELSE s

LEMMA SalvagedType ==
  ASSUME NEW s \in State
  PROVE  LET st == Salvaged(s)
         IN /\ st \in State /\ st.patch # None /\ st.qa = s.qa
            /\ s.patch # None => st = s
            /\ s.patch = None => st.patch = Synthetic
<1>1. Synthetic \in Patch BY DEF Synthetic, Patch
<1>2. Synthetic # None BY <1>1, PlanAssumption
<1>3. s.patch # None => Salvaged(s) = s BY DEF Salvaged
<1>4. CASE s.patch = None
  <2>1. Salvaged(s) = [s EXCEPT !.patch = Synthetic] BY <1>4 DEF Salvaged
  <2>2. Salvaged(s) \in State /\ Salvaged(s).patch = Synthetic /\ Salvaged(s).qa = s.qa
    BY <1>1, <2>1 DEF State
  <2> QED BY <1>2, <1>4, <2>2
<1> QED BY <1>3, <1>4

LEMMA NoStateType == NoState \in State /\ NoState.patch = None /\ NoState.qa = None
BY DEF NoState, State

-----------------------------------------------------------------------------
(* Type correctness.  The rounds stay within their bound because a chain   *)
(* and a review leave one to go; ops are only taken from a patch that is   *)
(* there.                                                                  *)

RoundsOK == stage \in {"chain", "review"} => round < MaxRounds /\ verdict = "none"

WritingOK ==
  IF stage = "writing" THEN /\ opts.apply /\ state.patch # None
                            /\ at <= Len(state.patch.ops) /\ (at = 0 => touched = {})
                       ELSE at = 0 /\ touched = {} /\ base = None

TypeInv == TypeOK /\ RoundsOK /\ WritingOK

LEMMA StageAfter == ASSUME NEW st PROVE AfterChain(st) \in {"review", "apply"}
BY DEF AfterChain

LEMMA TypeInit == Init => TypeInv
<1> SUFFICES ASSUME Init PROVE TypeInv OBVIOUS
<1>1. opts \in Options /\ opts.hops \in 1..3 BY PlanAssumption DEF Init, Options
<1>2. tree \in Tree /\ MaxRounds \in Nat \ {0} /\ MaxUserEdits \in Nat
  BY PlanAssumption DEF Init
<1>3. 0 \in 0..MaxRounds /\ 0 \in 0..MaxUserEdits /\ 0 < opts.hops BY <1>1, <1>2
<1>4. stage = "chain" /\ role \in Roles /\ hops = 0 /\ run = NoState /\ state = NoState
  BY DEF Init, Roles
<1>5. /\ target = None /\ round = 0 /\ verdict = "none" /\ reviewed = None
      /\ at = 0 /\ touched = {} /\ base = None /\ applied = {} /\ job = "none"
      /\ refreshed = FALSE /\ userEdits = 0
  BY DEF Init
<1>6. TypeOK BY <1>1, <1>2, <1>3, <1>4, <1>5, NoStateType DEF TypeOK
<1>7. RoundsOK /\ WritingOK BY <1>2, <1>4, <1>5 DEF RoundsOK, WritingOK
<1> QED BY <1>6, <1>7 DEF TypeInv

LEMMA TypeNext == TypeInv /\ [Next]_vars => TypeInv'
<1> SUFFICES ASSUME TypeInv, [Next]_vars PROVE TypeInv' OBVIOUS
<1>1. TypeOK /\ RoundsOK /\ WritingOK BY DEF TypeInv
<1>2. MaxRounds \in Nat \ {0} /\ MaxUserEdits \in Nat BY PlanAssumption
<1>3. /\ opts \in Options /\ opts.hops \in Nat /\ hops \in Nat /\ hops < opts.hops
      /\ run \in State /\ state \in State /\ role \in Roles /\ round \in 0..MaxRounds
      /\ tree \in Tree
  BY <1>1 DEF TypeOK, Options
<1> USE DEF chainVars, reviewVars, applyVars, endVars
<1>4. CASE HopDelivers
  <2> USE <1>4 DEF HopDelivers, ChainEnds
  <2>1. PICK st \in Output(run) :
          IF MoreHops
            THEN /\ run' = st /\ role' = Successors[role] /\ hops' = hops + 1
                 /\ UNCHANGED <<state, stage>>
            ELSE ChainEnds(st) /\ UNCHANGED <<role, hops>>
    OBVIOUS
  <2>2. st \in State BY <1>3, OutputType
  <2>3. CASE MoreHops
    <3>1. role \in {"architect", "developer"} /\ hops + 1 < opts.hops
      BY <2>3 DEF MoreHops, Successors
    <3>2. Successors[role] \in Roles BY <3>1 DEF Successors, Roles
    <3>3. TypeOK' BY <1>1, <1>3, <2>1, <2>2, <2>3, <3>1, <3>2 DEF TypeOK
    <3>4. RoundsOK' /\ WritingOK' BY <1>1, <2>1, <2>3 DEF RoundsOK, WritingOK
    <3> QED BY <3>3, <3>4 DEF TypeInv
  <2>4. CASE ~MoreHops
    <3>1. stage' \in {"review", "apply"} BY <2>1, <2>4, StageAfter
    <3>2. TypeOK' BY <1>1, <1>3, <2>1, <2>2, <2>4, <3>1, NoStateType DEF TypeOK
    <3>3. RoundsOK' /\ WritingOK' BY <1>1, <3>1 DEF RoundsOK, WritingOK
    <3> QED BY <3>2, <3>3 DEF TypeInv
  <2> QED BY <2>3, <2>4
<1>5. CASE HopFails
  <2> USE <1>5 DEF HopFails, ChainEnds
  <2>1. state' = Salvaged(state) BY DEF Salvaged
  <2>2. state' \in State BY <1>3, <2>1, SalvagedType
  <2>3. stage' \in {"review", "apply"} BY StageAfter
  <2>4. TypeOK' BY <1>1, <1>3, <2>2, <2>3, NoStateType DEF TypeOK
  <2>5. RoundsOK' /\ WritingOK' BY <1>1, <2>3 DEF RoundsOK, WritingOK
  <2> QED BY <2>4, <2>5 DEF TypeInv
<1>6. CASE Died /\ stage # "writing"
  <2>1. TypeOK' BY <1>1, <1>6, NoStateType DEF TypeOK, Died
  <2>2. RoundsOK' /\ WritingOK' BY <1>1, <1>6 DEF RoundsOK, WritingOK, Died
  <2> QED BY <2>1, <2>2 DEF TypeInv
<1>7. CASE ReviewEnds
  <2> USE <1>7 DEF ReviewEnds, AllApprove, Overrides, CapReached
  <2>1. verdict' \in {"approved", "overridden", "capped"} /\ round' \in 0..MaxRounds
    BY <1>1, <1>2, <1>3 DEF RoundsOK
  <2>2. opts' = opts \/ opts' = [opts EXCEPT !.apply = FALSE] OBVIOUS
  <2>3. opts' \in Options /\ opts'.hops = opts.hops BY <1>3, <2>2 DEF Options
  <2>4. state.patch \in Patch \union {None} BY <1>3 DEF State
  <2>5. TypeOK' BY <1>1, <1>3, <2>1, <2>3, <2>4 DEF TypeOK
  <2>6. RoundsOK' /\ WritingOK' BY <1>1 DEF RoundsOK, WritingOK
  <2> QED BY <2>5, <2>6 DEF TypeInv
<1>8. CASE RouteNowhere
  <2> USE <1>8 DEF RouteNowhere
  <2>1. state' = Salvaged(state) BY DEF Salvaged
  <2>2. state' \in State BY <1>3, <2>1, SalvagedType
  <2>3. round' \in 0..MaxRounds /\ round' < MaxRounds BY <1>2, <1>3
  <2>4. state.patch \in Patch \union {None} BY <1>3 DEF State
  <2>5. TypeOK' BY <1>1, <2>2, <2>3, <2>4 DEF TypeOK
  <2>6. RoundsOK' /\ WritingOK' BY <1>1, <2>3 DEF RoundsOK, WritingOK
  <2> QED BY <2>5, <2>6 DEF TypeInv
<1>9. ASSUME NEW r \in Roles, RouteBack(r) PROVE TypeInv'
  <2> USE <1>9 DEF RouteBack
  <2>1. round' \in 0..MaxRounds /\ round' < MaxRounds BY <1>2, <1>3
  <2>2. state.patch \in Patch \union {None} BY <1>3 DEF State
  <2>3. TypeOK' BY <1>1, <1>3, <2>1, <2>2, NoStateType DEF TypeOK
  <2>4. RoundsOK' /\ WritingOK' BY <1>1, <2>1 DEF RoundsOK, WritingOK
  <2> QED BY <2>3, <2>4 DEF TypeInv
<1>10. CASE Apply
  <2> USE <1>10 DEF Apply
  <2>1. stage' \in {"writing", "finish"} /\ base' \in Tree \union {None} BY <1>1, <1>3 DEF TypeOK
  <2>2. TypeOK' BY <1>1, <2>1 DEF TypeOK
  <2>3. state.patch # None => Len(state.patch.ops) \in Nat
    BY <1>3, PatchOps DEF State
  <2>4. RoundsOK' /\ WritingOK' BY <1>1, <2>1, <2>3 DEF RoundsOK, WritingOK
  <2> QED BY <2>2, <2>4 DEF TypeInv
<1>11. CASE WriteOp
  <2> USE <1>11 DEF WriteOp
  <2>1. state.patch \in Patch BY <1>1, <1>3 DEF WritingOK, State
  <2>2. at \in Nat /\ at < Len(state.patch.ops) /\ Len(state.patch.ops) \in Nat
    BY <1>1, <2>1, PatchOps DEF TypeOK
  <2>3. NextOp \in FileOp BY <2>1, <2>2, PatchOps DEF NextOp
  <2>4. Written(tree, NextOp) \in Body \union {Absent} /\ NextOp.path \in Paths
    BY <1>3, <2>3, WrittenType
  <2>5. tree' \in Tree BY <1>3, <2>4 DEF Tree
  <2>6. touched' \subseteq Paths BY <1>1, <1>3, <2>3, TouchedType DEF TypeOK
  <2>7. TypeOK' BY <1>1, <2>2, <2>5, <2>6 DEF TypeOK
  <2>8. RoundsOK' /\ WritingOK' BY <1>1, <2>2 DEF RoundsOK, WritingOK
  <2> QED BY <2>7, <2>8 DEF TypeInv
<1>12. CASE WriteFails
  <2>1. TypeOK' BY <1>1, <1>12 DEF TypeOK, WriteFails
  <2>2. RoundsOK' /\ WritingOK' BY <1>1, <1>12 DEF RoundsOK, WritingOK, WriteFails
  <2> QED BY <2>1, <2>2 DEF TypeInv
<1>13. CASE WriteEnds
  <2>1. TypeOK' BY <1>1, <1>13 DEF TypeOK, WriteEnds
  <2>2. RoundsOK' /\ WritingOK' BY <1>1, <1>13 DEF RoundsOK, WritingOK, WriteEnds
  <2> QED BY <2>1, <2>2 DEF TypeInv
<1>14. CASE Finish
  <2>1. CASE Died BY <2>1, <1>6, <1>14 DEF Finish
  <2>2. CASE ~Died
    <3>1. job' \in {"none", "done", "failed"} /\ refreshed' \in BOOLEAN /\ stage' = "ended"
      BY <1>14, <2>2 DEF Finish, Converged
    <3>2. UNCHANGED <<opts, tree, chainVars, state, reviewVars, applyVars, applied, userEdits>>
      BY <1>14, <2>2 DEF Finish
    <3>3. TypeOK' BY <1>1, <1>14, <3>1, <3>2 DEF TypeOK, Finish
    <3>4. RoundsOK' /\ WritingOK' BY <1>1, <1>14, <3>1, <3>2 DEF RoundsOK, WritingOK, Finish
    <3> QED BY <3>3, <3>4 DEF TypeInv
  <2> QED BY <2>1, <2>2
<1>15. ASSUME NEW p \in Paths, NEW t \in Trees, UserEdit(p, t) PROVE TypeInv'
  <2> USE <1>15 DEF UserEdit
  <2>1. t \in Tree BY PlanAssumption
  <2>2. tree' \in Tree BY <1>3, <2>1 DEF Tree
  <2>3. userEdits' \in 0..MaxUserEdits BY <1>1, <1>2 DEF TypeOK
  <2>4. TypeOK' BY <1>1, <2>2, <2>3 DEF TypeOK
  <2>5. RoundsOK' /\ WritingOK' BY <1>1 DEF RoundsOK, WritingOK
  <2> QED BY <2>4, <2>5 DEF TypeInv
<1>16. CASE UNCHANGED vars
  <2>1. TypeOK' /\ RoundsOK' /\ WritingOK'
    BY <1>1, <1>16 DEF TypeOK, RoundsOK, WritingOK, vars
  <2> QED BY <2>1 DEF TypeInv
<1>17. HopCrashes \/ ReviewCrashes => Died /\ stage # "writing"
  BY DEF HopCrashes, ReviewCrashes
<1> QED
  BY <1>4, <1>5, <1>6, <1>7, <1>8, <1>9, <1>10, <1>11, <1>12, <1>13, <1>14, <1>15, <1>16, <1>17
  DEF Next, Command

(* Every variable keeps its type: no chain runs more hops than it may, and *)
(* the tree is one of bodies whatever ops are written to it.               *)
THEOREM TypeInvariant == Spec => []TypeInv
BY TypeInit, TypeNext, PTL DEF Spec

(* The type invariant the runs check: chains, rounds and writes keep to    *)
(* their bounds whatever the model answers.                                *)
THEOREM TypeCorrect == Spec => []TypeOK
<1>1. TypeInv => TypeOK BY DEF TypeInv
<1> QED BY <1>1, TypeInvariant, PTL

-----------------------------------------------------------------------------
(* How a chain, a review and the end of the command fit together.          *)

(* A chain begins with an empty state at the role it was routed back to;   *)
(* its qa hop is the last, and follows a developer unless it is the first. *)
ChainOK ==
  stage = "chain" =>
    /\ run.qa = None
    /\ hops = 0 => run = NoState /\ role = IF target = None THEN "architect" ELSE target
    /\ hops > 0 => \/ role = "qa" /\ run.patch # None /\ target # "qa"
                   \/ role = "developer" /\ target \in {None, "architect"}
    /\ target = None => round = 0

PastDeveloper ==
  \/ target \in {"qa", "ops"}
  \/ target = "architect" /\ (opts.hops = 1 \/ ~opts.chain)

LostOK ==
  state.patch = None =>
    /\ stage = "review" => PastDeveloper
    /\ stage = "apply" /\ verdict \in {"approved", "overridden"} => PastDeveloper

Checked(st) ==
  st.patch # None /\ st.patch.against # None => CheckFileOps(st.patch.against, st.patch.ops)

CheckedOK == Checked(run) /\ Checked(state)

(* A report is on the patch it stands beside, or that patch is the empty   *)
(* one of an exception.                                                    *)
ReportOK ==
  state.qa # None => \/ state.qa.of = state.patch
                     \/ state.patch # None /\ state.patch.ops = <<>>

ApprovedOK ==
  stage \in {"apply", "writing"} /\ opts.review /\ opts.apply /\ state.patch # None =>
    /\ reviewed = state.patch
    /\ \/ verdict = "approved"
       \/ verdict = "overridden" /\ ~QaFailed

AppliedOK ==
  /\ applied # {} => /\ stage \in {"finish", "ended", "died"}
                     /\ state.patch # None /\ state.patch.ops # <<>>
  /\ job # "none" \/ refreshed => stage = "ended"
  /\ job = "done" \/ refreshed => Converged

FlowInv == ChainOK /\ LostOK /\ CheckedOK /\ ReportOK /\ ApprovedOK /\ AppliedOK

LEMMA FlowInit == Init => FlowInv
<1> SUFFICES ASSUME Init PROVE FlowInv OBVIOUS
<1> USE DEF Init
<1>1. ChainOK BY NoStateType DEF ChainOK
<1>2. LostOK BY DEF LostOK
<1>3. CheckedOK /\ ReportOK BY NoStateType DEF CheckedOK, Checked, ReportOK
<1>4. ApprovedOK /\ AppliedOK BY DEF ApprovedOK, AppliedOK
<1> QED BY <1>1, <1>2, <1>3, <1>4 DEF FlowInv

(* A chain that ends with state st, by an answer or by an exception.       *)
LEMMA FlowChainEnds ==
  ASSUME TypeInv, FlowInv, NEW st, ChainEnds(st), stage = "chain", Checked(st),
         UNCHANGED <<opts, target, reviewVars, endVars>>,
         st.patch = None => target = None \/ PastDeveloper,
         st.qa # None => \/ st.qa.of = st.patch
                         \/ st.patch # None /\ st.patch.ops = <<>>
  PROVE  FlowInv'
<1> USE DEF ChainEnds, reviewVars, endVars
<1>1. ChainOK /\ AppliedOK /\ RoundsOK BY DEF FlowInv, TypeInv
<1>2. stage' = AfterChain(st) /\ stage' \in {"review", "apply"} /\ state' = st BY StageAfter
<1>3. stage' = "review" => st.patch # None \/ round > 0 BY <1>2 DEF AfterChain
<1>4. stage' = "apply" /\ opts.review => st.patch = None BY <1>2 DEF AfterChain
<1>5. verdict' = "none" BY <1>1 DEF RoundsOK
<1>6. ChainOK' BY <1>2 DEF ChainOK
<1>7. LostOK'
  <2>1. PastDeveloper' = PastDeveloper BY DEF PastDeveloper
  <2>2. target = None => round = 0 BY <1>1 DEF ChainOK
  <2> QED BY <1>2, <1>3, <1>5, <2>1, <2>2 DEF LostOK
<1>8. CheckedOK' BY NoStateType DEF CheckedOK, Checked
<1>9. ReportOK' BY DEF ReportOK
<1>10. ApprovedOK' BY <1>2, <1>4 DEF ApprovedOK
<1>11. AppliedOK' BY <1>1, <1>2 DEF AppliedOK
<1> QED BY <1>6, <1>7, <1>8, <1>9, <1>10, <1>11 DEF FlowInv

LEMMA FlowSalvaged ==
  ASSUME TypeInv, FlowInv, NEW st, st = Salvaged(state)
  PROVE  /\ Checked(st) /\ st.patch # None
         /\ st.qa # None => \/ st.qa.of = st.patch
                            \/ st.patch # None /\ st.patch.ops = <<>>
<1>1. state \in State BY DEF TypeInv, TypeOK
<1>2. Checked(state) /\ ReportOK BY DEF FlowInv, CheckedOK
<1>3. /\ st.patch # None /\ st.qa = state.qa
      /\ state.patch # None => st = state
      /\ state.patch = None => st.patch = Synthetic
  BY <1>1, SalvagedType
<1>4. CASE state.patch # None BY <1>2, <1>3, <1>4 DEF ReportOK
<1>5. CASE state.patch = None
  <2>1. st.patch.ops = <<>> /\ st.patch.against = None BY <1>3, <1>5 DEF Synthetic
  <2> QED BY <1>3, <2>1 DEF Checked
<1> QED BY <1>4, <1>5

LEMMA FlowDelivers ==
  ASSUME TypeInv, FlowInv, HopDelivers PROVE FlowInv'
<1>1. /\ run \in State /\ state \in State /\ role \in Roles /\ tree \in Tree /\ opts \in Options
      /\ hops \in Nat /\ hops < opts.hops /\ opts.hops \in Nat /\ opts.chain \in BOOLEAN
      /\ run.patch \in Patch \union {None}
      /\ target \in Roles \union {None} /\ RoundsOK
  BY DEF TypeInv, TypeOK, Options, State
<1>2. /\ ChainOK /\ LostOK /\ CheckedOK /\ ReportOK /\ ApprovedOK /\ AppliedOK
      /\ stage = "chain"
  BY DEF FlowInv, HopDelivers
<1>3. UNCHANGED <<opts, tree, target, reviewVars, endVars, userEdits>> BY DEF HopDelivers
<1>4. PICK st \in Output(run) :
          IF MoreHops
            THEN /\ run' = st /\ role' = Successors[role] /\ hops' = hops + 1
                 /\ UNCHANGED <<state, stage>>
            ELSE ChainEnds(st) /\ UNCHANGED <<role, hops>>
  BY DEF HopDelivers
<1>5. /\ role = "architect" => st.patch = run.patch /\ st.qa = run.qa
      /\ role = "developer" =>
           /\ st.qa = run.qa /\ st.patch \in Patch /\ st.patch # None
           /\ st.patch.against # None => CheckFileOps(st.patch.against, st.patch.ops)
      /\ role = "qa" => st.patch = run.patch /\ st.qa # None /\ st.qa.of = Handed(run)
      /\ role = "ops" => st = run
  BY <1>1, OutputType
<1>6. /\ run.qa = None
      /\ hops = 0 => run = NoState /\ role = IF target = None THEN "architect" ELSE target
      /\ hops > 0 => \/ role = "qa" /\ run.patch # None /\ target # "qa"
                     \/ role = "developer" /\ target \in {None, "architect"}
      /\ target = None => round = 0
  BY <1>2 DEF ChainOK
<1>7. Checked(st) BY <1>1, <1>2, <1>5 DEF CheckedOK, Checked, Roles
<1>8. CASE MoreHops
  <2>1. role \in {"architect", "developer"} BY <1>8 DEF MoreHops, Successors
  <2>2. role' = IF role = "architect" THEN "developer" ELSE "qa"
    BY <1>4, <1>8, <2>1 DEF Successors
  <2>3. run' = st /\ hops' = hops + 1 /\ hops' # 0 /\ UNCHANGED <<state, stage>>
    BY <1>1, <1>4, <1>8
  <2>4. role = "architect" => target \in {None, "architect"} BY <1>1, <1>6
  <2>5. role = "developer" => target # "qa" BY <1>1, <1>6, PlanAssumption DEF Roles
  <2>6. ChainOK' BY <1>3, <1>5, <1>6, <2>1, <2>2, <2>3, <2>4, <2>5 DEF ChainOK, reviewVars
  <2>7. LostOK' BY <1>2, <2>3 DEF LostOK
  <2>8. CheckedOK'
    <3>1. Checked(run)' BY <1>7, <2>3 DEF Checked
    <3>2. Checked(state)' BY <1>2, <2>3 DEF CheckedOK, Checked
    <3> QED BY <3>1, <3>2 DEF CheckedOK
  <2>9. ReportOK' BY <1>2, <2>3 DEF ReportOK
  <2>10. ApprovedOK' BY <1>2, <2>3 DEF ApprovedOK
  <2>11. AppliedOK' BY <1>2, <1>3, <2>3 DEF AppliedOK, endVars, Converged, QaFailed
  <2> QED BY <2>6, <2>7, <2>8, <2>9, <2>10, <2>11 DEF FlowInv
<1>9. CASE ~MoreHops
  <2>1. ChainEnds(st) BY <1>4, <1>9
  <2>2. ASSUME st.patch = None PROVE target = None \/ PastDeveloper
    <3>1. role # "developer" BY <1>5, <2>2
    <3>2. role = "qa" => hops = 0 BY <1>1, <1>5, <1>6, <2>2
    <3>3. hops = 0 BY <1>1, <1>6, <3>1, <3>2
    <3>4. target = None \/ role = target BY <1>6, <3>3
    <3>5. role = "architect" => ~opts.chain \/ opts.hops = 1
      BY <1>1, <1>9, <3>3 DEF MoreHops, Successors
    <3> QED BY <1>1, <3>1, <3>4, <3>5 DEF PastDeveloper, Roles
  <2>3. ASSUME st.qa # None PROVE st.qa.of = st.patch
    <3>1. role = "qa" BY <1>1, <1>5, <1>6, <2>3 DEF Roles
    <3>2. target = "qa" => run.patch = None BY <1>1, <1>6, <3>1, NoStateType
    <3>3. Handed(run) = run.patch BY <3>2 DEF Handed
    <3> QED BY <1>5, <3>1, <3>3
  <2> QED BY <1>2, <1>3, <1>7, <2>1, <2>2, <2>3, FlowChainEnds
<1> QED BY <1>8, <1>9

LEMMA FlowNext == TypeInv /\ FlowInv /\ [Next]_vars => FlowInv'
<1> SUFFICES ASSUME TypeInv, FlowInv, [Next]_vars PROVE FlowInv' OBVIOUS
<1>1. /\ ChainOK /\ LostOK /\ CheckedOK /\ ReportOK /\ ApprovedOK /\ AppliedOK
      /\ TypeOK /\ RoundsOK /\ WritingOK
  BY DEF FlowInv, TypeInv
<1>2. state \in State /\ opts \in Options /\ round \in 0..MaxRounds /\ MaxRounds \in Nat
  BY <1>1, PlanAssumption DEF TypeOK
<1> USE DEF chainVars, reviewVars, applyVars, endVars
<1>3. CASE HopDelivers BY <1>3, FlowDelivers
<1>4. CASE HopFails
  <2> DEFINE st == Salvaged(state)
  <2>1. ChainEnds(st) /\ stage = "chain" /\ UNCHANGED <<opts, target, reviewVars, endVars>>
    BY <1>4 DEF HopFails, Salvaged
  <2>2. /\ Checked(st) /\ st.patch # None
        /\ st.qa # None => \/ st.qa.of = st.patch
                           \/ st.patch # None /\ st.patch.ops = <<>>
    BY FlowSalvaged
  <2> HIDE DEF st
  <2> QED BY <2>1, <2>2, FlowChainEnds
<1>5. CASE Died /\ stage # "ended"
  <2> USE <1>5 DEF Died
  <2>1. ChainOK' /\ LostOK' /\ ApprovedOK' BY DEF ChainOK, LostOK, ApprovedOK
  <2>2. CheckedOK' BY <1>1, NoStateType DEF CheckedOK, Checked
  <2>3. ReportOK' BY <1>1 DEF ReportOK
  <2>4. AppliedOK' BY <1>1 DEF AppliedOK, Converged, QaFailed
  <2> QED BY <2>1, <2>2, <2>3, <2>4 DEF FlowInv
<1>6. CASE ReviewEnds
  <2> USE <1>6 DEF ReviewEnds
  <2>1. ChainOK' BY DEF ChainOK
  <2>2. /\ opts'.hops = opts.hops /\ opts'.chain = opts.chain
        /\ verdict' = "capped" => ~opts'.apply
        /\ verdict' = "overridden" => ~QaFailed
        /\ verdict' \in {"approved", "overridden", "capped"}
    BY <1>2 DEF AllApprove, Overrides, CapReached, Options
  <2>3. LostOK' BY <1>1, <2>2 DEF LostOK, PastDeveloper
  <2>4. CheckedOK' /\ ReportOK' BY <1>1 DEF CheckedOK, Checked, ReportOK
  <2>5. ApprovedOK' BY <2>2 DEF ApprovedOK, QaFailed
  <2>6. AppliedOK' BY <1>1 DEF AppliedOK, Converged, QaFailed
  <2> QED BY <2>1, <2>3, <2>4, <2>5, <2>6 DEF FlowInv
<1>7. CASE RouteNowhere
  <2> USE <1>7 DEF RouteNowhere
  <2> DEFINE st == Salvaged(state)
  <2>1. state' = st /\ stage' = "review" /\ run' = run BY DEF Salvaged
  <2>2. /\ Checked(st) /\ st.patch # None
        /\ st.qa # None => \/ st.qa.of = st.patch
                           \/ st.patch # None /\ st.patch.ops = <<>>
    BY FlowSalvaged
  <2> HIDE DEF st
  <2>3. ChainOK' /\ LostOK' /\ ApprovedOK' BY <2>1, <2>2 DEF ChainOK, LostOK, ApprovedOK
  <2>4. CheckedOK' BY <1>1, <2>1, <2>2 DEF CheckedOK, Checked
  <2>5. ReportOK' BY <2>1, <2>2 DEF ReportOK
  <2>6. AppliedOK' BY <1>1, <2>1 DEF AppliedOK
  <2> QED BY <2>3, <2>4, <2>5, <2>6 DEF FlowInv
<1>8. ASSUME NEW r \in Roles, RouteBack(r) PROVE FlowInv'
  <2> USE <1>8 DEF RouteBack
  <2>1. r # None BY PlanAssumption
  <2>2. ChainOK' BY <2>1, NoStateType DEF ChainOK
  <2>3. LostOK' /\ ApprovedOK' BY DEF LostOK, ApprovedOK
  <2>4. CheckedOK' BY <1>1, NoStateType DEF CheckedOK, Checked
  <2>5. ReportOK' BY <1>1 DEF ReportOK
  <2>6. AppliedOK' BY <1>1 DEF AppliedOK
  <2> QED BY <2>2, <2>3, <2>4, <2>5, <2>6 DEF FlowInv
<1>9. CASE Apply
  <2> USE <1>9 DEF Apply
  <2>1. stage' = "writing" \/ stage' = "finish" OBVIOUS
  <2>2. ChainOK' /\ LostOK' BY <2>1 DEF ChainOK, LostOK
  <2>3. CheckedOK' /\ ReportOK' BY <1>1 DEF CheckedOK, Checked, ReportOK
  <2>4. ApprovedOK' BY <1>1, <2>1 DEF ApprovedOK, QaFailed
  <2>5. AppliedOK' BY <1>1, <2>1 DEF AppliedOK
  <2> QED BY <2>2, <2>3, <2>4, <2>5 DEF FlowInv
<1>10. CASE WriteOp
  <2> USE <1>10 DEF WriteOp
  <2>1. ChainOK' /\ LostOK' BY DEF ChainOK, LostOK
  <2>2. CheckedOK' /\ ReportOK' BY <1>1 DEF CheckedOK, Checked, ReportOK
  <2>3. ApprovedOK' /\ AppliedOK' BY <1>1 DEF ApprovedOK, QaFailed, AppliedOK
  <2> QED BY <2>1, <2>2, <2>3 DEF FlowInv
<1>11. CASE WriteFails
  <2> USE <1>11 DEF WriteFails
  <2>1. ChainOK' /\ LostOK' BY DEF ChainOK, LostOK
  <2>2. CheckedOK' /\ ReportOK' BY <1>1 DEF CheckedOK, Checked, ReportOK
  <2>3. ApprovedOK' /\ AppliedOK' BY <1>1 DEF ApprovedOK, AppliedOK
  <2> QED BY <2>1, <2>2, <2>3 DEF FlowInv
<1>12. CASE WriteEnds
  <2> USE <1>12 DEF WriteEnds
  <2>1. ChainOK' /\ LostOK' BY DEF ChainOK, LostOK
  <2>2. CheckedOK' /\ ReportOK' BY <1>1 DEF CheckedOK, Checked, ReportOK
  <2>3. ApprovedOK' BY DEF ApprovedOK
  <2>4. applied' # {} => state.patch # None /\ state.patch.ops # <<>>
    <3>1. state.patch # None /\ (at = 0 => touched = {}) BY <1>1 DEF WritingOK
    <3>2. state.patch.ops = <<>> => at = 0 OBVIOUS
    <3> QED BY <3>1, <3>2
  <2>5. AppliedOK' BY <1>1, <2>4 DEF AppliedOK
  <2> QED BY <2>1, <2>2, <2>3, <2>5 DEF FlowInv
<1>13. CASE Finish
  <2>1. CASE Died BY <2>1, <1>5, <1>13 DEF Finish
  <2>2. CASE ~Died
    <3> USE <1>13, <2>2 DEF Finish
    <3>1. stage' = "ended" /\ (job' = "done" \/ refreshed' => Converged) OBVIOUS
    <3>2. UNCHANGED <<opts, tree, chainVars, state, reviewVars, applyVars, applied, userEdits>>
      OBVIOUS
    <3>3. ChainOK' /\ LostOK' /\ ApprovedOK' BY <3>1 DEF ChainOK, LostOK, ApprovedOK
    <3>4. CheckedOK' /\ ReportOK' BY <1>1, <3>2 DEF CheckedOK, Checked, ReportOK
    <3>5. AppliedOK' BY <1>1, <3>1, <3>2 DEF AppliedOK, Converged, QaFailed
    <3> QED BY <3>3, <3>4, <3>5 DEF FlowInv
  <2> QED BY <2>1, <2>2
<1>14. ASSUME NEW p \in Paths, NEW t \in Trees, UserEdit(p, t) PROVE FlowInv'
  <2> USE <1>14 DEF UserEdit
  <2>1. ChainOK' /\ LostOK' BY <1>1 DEF ChainOK, LostOK, PastDeveloper
  <2>2. CheckedOK' /\ ReportOK' BY <1>1 DEF CheckedOK, Checked, ReportOK
  <2>3. ApprovedOK' /\ AppliedOK' BY <1>1 DEF ApprovedOK, QaFailed, AppliedOK, Converged
  <2> QED BY <2>1, <2>2, <2>3 DEF FlowInv
<1>15. CASE UNCHANGED vars
  <2> USE <1>15 DEF vars
  <2>1. ChainOK' /\ LostOK' BY <1>1 DEF ChainOK, LostOK, PastDeveloper
  <2>2. CheckedOK' /\ ReportOK' BY <1>1 DEF CheckedOK, Checked, ReportOK
  <2>3. ApprovedOK' /\ AppliedOK' BY <1>1 DEF ApprovedOK, QaFailed, AppliedOK, Converged
  <2> QED BY <2>1, <2>2, <2>3 DEF FlowInv
<1>16. HopCrashes \/ ReviewCrashes => Died /\ stage # "ended" BY DEF HopCrashes, ReviewCrashes
<1> QED
  BY <1>3, <1>4, <1>5, <1>6, <1>7, <1>8, <1>9, <1>10, <1>11, <1>12, <1>13, <1>14, <1>15, <1>16
  DEF Next, Command

(* The phases of the command fit together, whatever the roles answer.      *)
THEOREM FlowInvariant == Spec => []FlowInv
BY TypeInvariant, FlowInit, FlowNext, PTL DEF Spec

(* When the review approves and nothing is left to write, the patch was    *)
(* lost past the developer, and in no other way (cli.py:906: every chain   *)
(* starts with an empty state).                                            *)
THEOREM PatchLost == Spec => []PatchLostOnlyPastDeveloper
<1>1. FlowInv => PatchLostOnlyPastDeveloper
  BY DEF FlowInv, LostOK, PastDeveloper, PatchLostOnlyPastDeveloper
<1> QED BY <1>1, FlowInvariant, PTL

(* A chain recorded as done with edits written was tested on these edits:  *)
(* no exception leaves an old report beside a patch that is not empty      *)
(* (cli.py:609-620).                                                       *)
THEOREM DoneTested == Spec => []DoneIsTested
<1>1. FlowInv => DoneIsTested
  <2> SUFFICES ASSUME FlowInv, job = "done" \/ refreshed, applied # {}
               PROVE  state.qa.of = state.patch /\ ~state.qa.failed
    BY DEF DoneIsTested
  <2>1. state.qa # None /\ ~QaFailed BY DEF FlowInv, AppliedOK, Converged
  <2>2. state.patch.ops # <<>> BY DEF FlowInv, AppliedOK
  <2> QED BY <2>1, <2>2 DEF FlowInv, ReportOK, QaFailed
<1> QED BY <1>1, FlowInvariant, PTL

(* The command itself changes the repository only while it writes a patch  *)
(* that the last review round was shown and let pass (cli.py 516-544).     *)
THEOREM WrittenReviewed == Spec => WrittenIsReviewed
<1> DEFINE A == tree' # tree /\ userEdits' = userEdits /\ opts.review =>
                  /\ reviewed = state.patch
                  /\ \/ verdict = "approved"
                     \/ verdict = "overridden" /\ ~QaFailed
<1>1. TypeInv /\ FlowInv /\ [Next]_vars => [A]_vars
  <2> SUFFICES ASSUME TypeInv, FlowInv, Next,
                      tree' # tree, userEdits' = userEdits, opts.review
               PROVE  /\ reviewed = state.patch
                      /\ \/ verdict = "approved"
                         \/ verdict = "overridden" /\ ~QaFailed
    OBVIOUS
  <2>1. userEdits \in 0..MaxUserEdits /\ MaxUserEdits \in Nat
    BY PlanAssumption DEF TypeInv, TypeOK
  <2>2. \A p \in Paths, t \in Trees : ~UserEdit(p, t) BY <2>1 DEF UserEdit
  <2>3. WriteOp
    BY <2>2 DEF Next, Command, HopDelivers, HopFails, HopCrashes, Died, ReviewEnds, RouteBack,
      RouteNowhere, ReviewCrashes, Apply, WriteFails, WriteEnds, Finish
  <2>4. stage = "writing" /\ opts.apply /\ state.patch # None
    BY <2>3 DEF WriteOp, TypeInv, WritingOK
  <2> QED BY <2>4 DEF FlowInv, ApprovedOK
<1>2. Spec => [][A]_vars BY <1>1, TypeInvariant, FlowInvariant, PTL DEF Spec
<1> QED BY <1>2 DEF WrittenIsReviewed

-----------------------------------------------------------------------------
(* A checked patch is written whole.                                       *)

(* What an op does depends on the one file it names.                       *)
LEMMA OneFile ==
  ASSUME NEW t, NEW u, NEW op, t[op.path] = u[op.path]
  PROVE  /\ Written(t, op) = Written(u, op)
         /\ Satisfiable(t, op) <=> Satisfiable(u, op)
<1>1. Written(t, op) = Written(u, op) BY DEF Written
<1>2. Satisfiable(t, op) <=> Satisfiable(u, op) BY DEF Satisfiable
<1> QED BY <1>1, <1>2

(* Nobody changed the tree after the dry run, and no two ops share a path. *)
Undisturbed == base # None /\ state.patch.against = base /\ OnePathEach(state.patch.ops)

(* Half way: the first ops are done as they would be on the tree of the    *)
(* dry run, every other file is as it was, and each change is remembered.  *)
WholeOK ==
  stage = "writing" /\ Undisturbed =>
    /\ \A i \in 1..at : tree[state.patch.ops[i].path] = Written(base, state.patch.ops[i])
    /\ \A p \in Paths : (\A i \in 1..at : state.patch.ops[i].path # p) => tree[p] = base[p]
    /\ \A p \in Paths : tree[p] # base[p] => p \in touched

(* The file the next op names is still what the dry run saw.               *)
LEMMA NextUntouched ==
  ASSUME TypeInv, FlowInv, WholeOK, stage = "writing", Undisturbed, at < Len(state.patch.ops)
  PROVE  /\ \A i \in 1..at : state.patch.ops[i].path # NextOp.path
         /\ NextOp \in FileOp /\ NextOp.path \in Paths
         /\ tree[NextOp.path] = base[NextOp.path]
         /\ Satisfiable(tree, NextOp)
<1>1. state.patch \in Patch /\ at \in Nat
  BY DEF TypeInv, TypeOK, WritingOK, State
<1>2. /\ DOMAIN state.patch.ops = 1..Len(state.patch.ops) /\ Len(state.patch.ops) \in Nat
      /\ \A i \in 1..Len(state.patch.ops) : state.patch.ops[i] \in FileOp
  BY <1>1, PatchOps
<1>3. at + 1 \in DOMAIN state.patch.ops /\ \A i \in 1..at : i \in DOMAIN state.patch.ops /\ i # at + 1
  BY <1>1, <1>2
<1>4. \A i \in 1..at : state.patch.ops[i].path # NextOp.path
  BY <1>3 DEF Undisturbed, OnePathEach, NextOp
<1>5. NextOp \in FileOp BY <1>2, <1>3 DEF NextOp
<1>6. NextOp.path \in Paths BY <1>5 DEF FileOp
<1>7. tree[NextOp.path] = base[NextOp.path] BY <1>4, <1>6 DEF WholeOK
<1>8. Satisfiable(base, NextOp)
  <2>1. CheckFileOps(base, state.patch.ops)
    BY <1>1 DEF FlowInv, CheckedOK, Checked, Undisturbed, TypeInv, WritingOK
  <2> QED BY <1>3, <2>1 DEF CheckFileOps, NextOp
<1>9. Satisfiable(tree, NextOp) BY <1>7, <1>8, OneFile
<1> QED BY <1>4, <1>5, <1>6, <1>7, <1>9

LEMMA WholeNext == TypeInv /\ FlowInv /\ WholeOK /\ [Next]_vars => WholeOK'
<1> SUFFICES ASSUME TypeInv, FlowInv, WholeOK, [Next]_vars, stage' = "writing", Undisturbed'
             PROVE  WholeOK'
  BY DEF WholeOK
<1>1. tree \in Tree /\ at \in Nat BY DEF TypeInv, TypeOK
<1>2. CASE Apply
  <2>1. base' = tree /\ tree' = tree /\ at' = 0
    BY <1>2 DEF Apply, applyVars, TypeInv, WritingOK
  <2> QED BY <2>1 DEF WholeOK
<1>3. CASE WriteOp
  <2> USE <1>3 DEF WriteOp
  <2>1. state' = state /\ base' = base /\ Undisturbed
    BY DEF Undisturbed
  <2>2. /\ \A i \in 1..at : state.patch.ops[i].path # NextOp.path
        /\ NextOp.path \in Paths /\ tree[NextOp.path] = base[NextOp.path]
    BY <2>1, NextUntouched
  <2>3. Written(tree, NextOp) = Written(base, NextOp) BY <2>2, OneFile
  <2>4. /\ tree'[NextOp.path] = Written(base, NextOp)
        /\ \A p \in Paths : p # NextOp.path => tree'[p] = tree[p]
    BY <1>1, <2>2, <2>3 DEF Tree
  <2>5. /\ \A i \in 1..at : tree[state.patch.ops[i].path] = Written(base, state.patch.ops[i])
        /\ \A p \in Paths : (\A i \in 1..at : state.patch.ops[i].path # p) => tree[p] = base[p]
        /\ \A p \in Paths : tree[p] # base[p] => p \in touched
    BY <2>1 DEF WholeOK
  <2>6. at' = at + 1 /\ NextOp = state.patch.ops[at + 1] BY DEF NextOp
  <2>7. ASSUME NEW i \in 1..at' 
        PROVE  tree'[state.patch.ops[i].path] = Written(base, state.patch.ops[i])
    <3>1. CASE i = at + 1 BY <2>4, <2>6, <3>1
    <3>2. CASE i \in 1..at
      <4>1. state.patch.ops[i] \in FileOp
        <5>1. state.patch \in Patch BY DEF TypeInv, TypeOK, WritingOK, State
        <5>2. i \in 1..Len(state.patch.ops) BY <1>1, <3>2, <5>1, PatchOps
        <5> QED BY <5>1, <5>2, PatchOps
      <4>2. state.patch.ops[i].path \in Paths BY <4>1 DEF FileOp
      <4> QED BY <2>2, <2>4, <2>5, <3>2, <4>2
    <3> QED BY <1>1, <2>6, <3>1, <3>2
  <2>8. ASSUME NEW p \in Paths, \A i \in 1..at' : state.patch.ops[i].path # p
        PROVE  tree'[p] = base[p]
    <3>1. at + 1 \in 1..at' /\ \A i \in 1..at : i \in 1..at' BY <1>1, <2>6
    <3> QED BY <2>4, <2>5, <2>6, <2>8, <3>1
  <2>9. ASSUME NEW p \in Paths, tree'[p] # base[p] PROVE p \in touched'
    <3>1. CASE p # NextOp.path BY <2>4, <2>5, <2>9, <3>1
    <3>2. CASE p = NextOp.path
      <4>1. NextOp.action = "delete" => Written(base, NextOp) = Absent BY DEF Written
      <4>2. ~(NextOp.action = "delete" /\ tree[NextOp.path] = Absent)
        BY <2>2, <2>4, <2>9, <3>2, <4>1
      <4> QED BY <3>2, <4>2 DEF Touched
    <3> QED BY <3>1, <3>2
  <2> QED BY <2>1, <2>7, <2>8, <2>9 DEF WholeOK
<1>4. CASE \E p \in Paths, t \in Trees : UserEdit(p, t)
  BY <1>4 DEF UserEdit, Undisturbed
<1>5. CASE UNCHANGED vars BY <1>5 DEF vars, WholeOK, Undisturbed
<1>6. /\ ~(HopDelivers \/ HopFails \/ HopCrashes \/ ReviewEnds \/ RouteNowhere \/ ReviewCrashes)
      /\ ~(\E r \in Roles : RouteBack(r)) /\ ~(WriteFails \/ WriteEnds \/ Finish)
  BY StageAfter DEF HopDelivers, HopFails, HopCrashes, Died, ChainEnds, ReviewEnds, RouteNowhere,
    ReviewCrashes, RouteBack, WriteFails, WriteEnds, Finish
<1> QED BY <1>2, <1>3, <1>4, <1>5, <1>6 DEF Next, Command

(* While a patch is written, nothing but its ops has happened to the tree  *)
(* the dry run saw.                                                        *)
THEOREM WholeInvariant == Spec => []WholeOK
<1>1. Init => WholeOK BY DEF Init, WholeOK
<1> QED BY <1>1, WholeNext, TypeInvariant, FlowInvariant, PTL DEF Spec

(* A patch that passed the dry run, with one op per path and on a tree     *)
(* nobody else has changed, is written whole and reported as written       *)
(* (runtime.py _check_file_ops against sandbox.py apply_file_ops).         *)
THEOREM CheckedWritten == Spec => CheckedIsWritten
<1> DEFINE A == stage = "writing" /\ stage' = "finish" =>
                  (base # None /\ state.patch.against = base /\ OnePathEach(state.patch.ops) =>
                     /\ tree' = Intended(base, state.patch.ops)
                     /\ \A p \in Paths : tree'[p] # base[p] => p \in applied')
<1>1. TypeInv /\ FlowInv /\ WholeOK /\ [Next]_vars => [A]_vars
  <2> SUFFICES ASSUME TypeInv, FlowInv, WholeOK, Next,
                      stage = "writing", stage' = "finish", Undisturbed
               PROVE  /\ tree' = Intended(base, state.patch.ops)
                      /\ \A p \in Paths : tree'[p] # base[p] => p \in applied'
    BY DEF Undisturbed
  <2>1. ~WriteFails BY NextUntouched DEF WriteFails
  <2>2. WriteEnds
    BY <2>1 DEF Next, Command, HopDelivers, HopFails, HopCrashes, Died, ReviewEnds, RouteBack,
      RouteNowhere, ReviewCrashes, Apply, WriteOp, Finish, UserEdit
  <2>3. tree' = tree /\ applied' = touched /\ at = Len(state.patch.ops)
    BY <2>2 DEF WriteEnds
  <2>4. tree \in Tree /\ state.patch \in Patch BY DEF TypeInv, TypeOK, WritingOK, State
  <2>5. DOMAIN state.patch.ops = 1..at BY <2>3, <2>4, PatchOps
  <2>6. ASSUME NEW p \in Paths PROVE tree[p] = Intended(base, state.patch.ops)[p]
    <3>1. CASE \E i \in DOMAIN state.patch.ops : state.patch.ops[i].path = p
      <4> DEFINE j == CHOOSE i \in DOMAIN state.patch.ops : state.patch.ops[i].path = p
      <4>1. j \in DOMAIN state.patch.ops /\ state.patch.ops[j].path = p BY <3>1
      <4>2. Intended(base, state.patch.ops)[p] = Written(base, state.patch.ops[j])
        BY <3>1 DEF Intended
      <4> HIDE DEF j
      <4> QED BY <2>5, <4>1, <4>2 DEF WholeOK
    <3>2. CASE ~\E i \in DOMAIN state.patch.ops : state.patch.ops[i].path = p
      <4>1. Intended(base, state.patch.ops)[p] = base[p] BY <3>2 DEF Intended
      <4> QED BY <2>5, <3>2, <4>1 DEF WholeOK
    <3> QED BY <3>1, <3>2
  <2>7. tree = Intended(base, state.patch.ops) BY <2>4, <2>6 DEF Tree, Intended
  <2> QED BY <2>3, <2>7 DEF WholeOK
<1>2. Spec => [][A]_vars
  BY <1>1, TypeInvariant, FlowInvariant, WholeInvariant, PTL DEF Spec
<1> QED BY <1>2 DEF CheckedIsWritten
=============================================================================
