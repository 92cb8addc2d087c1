------------------------------ MODULE PlanLoop ------------------------------
(***************************************************************************)
(* agentcore plan (cli.py): a chain of hops architect, developer, qa; a    *)
(* review round in which every role but the patch's author votes; on a     *)
(* rejection a new chain from the role the first rejecter names; in the    *)
(* end the developer's edits are written to the repository, in which       *)
(* somebody else may be working all the while.                             *)
(*                                                                         *)
(* A hop is what it returns to the loop: an output, an exception the loop  *)
(* catches (ContractViolation, HandoffRejected, SLAExceeded), or one it    *)
(* does not.  Patches are file_ops: in a git checkout, which the command   *)
(* sets up, a hop that answers with diffs alone ends in a NameError.       *)
(***************************************************************************)
EXTENDS FileOps

CONSTANTS
  Trees,      \* trees the repository may be in before the command
  Patches,    \* file_ops the developer may answer with
  None,
  MaxRounds,  \* bound: review rounds when --max-review-loops is 0
  MaxUserEdits \* bound: edits of the repository by somebody else

Roles == {"architect", "developer", "qa", "ops"}

VARIABLES
  opts,       \* options of the command; apply is cleared at the cap
  tree,       \* the repository
  stage,
  role,       \* the agent of the hop that runs
  hops,       \* hops of this chain so far
  run,        \* _run_chain's state: outputs by role
  state,      \* _plan_async_body's state: what the last chain left
  target,     \* where the last rejection routed back to
  round,      \* review rounds so far
  verdict,    \* how the review loop ended
  reviewed,   \* the patch the last round was shown
  at,         \* how many ops of the patch have been done
  touched,    \* the paths they have touched
  base,       \* the tree before the first; None once somebody else edits meanwhile
  applied,    \* paths reported as applied
  job,        \* status of the row in agentcore_jobs
  refreshed,  \* did the wiki refresh run
  userEdits

vars == <<opts, tree, stage, role, hops, run, state, target, round, verdict, reviewed,
          at, touched, base, applied, job, refreshed, userEdits>>
chainVars == <<role, hops, run, target>>
reviewVars == <<round, verdict, reviewed>>
applyVars == <<at, touched, base>>
endVars == <<applied, job, refreshed>>

(* against: the tree the dry run accepted the ops on; None if they were    *)
(* never accepted (a re-asked answer is taken as it is).                   *)
Patch == [ops : Patches \union {<<>>}, against : Tree \union {None}]
Synthetic == [ops |-> <<>>, against |-> None]
Report == [of : Patch \union {None}, failed : BOOLEAN]
State == [plan : BOOLEAN, patch : Patch \union {None}, qa : Report \union {None}]

ASSUME PlanAssumption ==
  /\ Trees \subseteq Tree /\ Patches \subseteq Seq(FileOp)
  /\ None \notin Tree \union Patch \union Report \union Roles
  /\ MaxRounds \in Nat \ {0} /\ MaxUserEdits \in Nat

NoState == [plan |-> FALSE, patch |-> None, qa |-> None]

Options == [review : BOOLEAN, apply : BOOLEAN, chain : BOOLEAN, hops : Nat, loops : Nat]

TypeOK ==
  /\ opts \in Options
  /\ tree \in Tree
  /\ stage \in {"chain", "review", "apply", "writing", "finish", "ended", "died"}
  /\ role \in Roles /\ hops \in Nat /\ hops < opts.hops
  /\ run \in State /\ state \in State
  /\ stage # "chain" => run = NoState
  /\ target \in Roles \union {None}
  /\ round \in 0..MaxRounds
  /\ verdict \in {"none", "approved", "overridden", "capped"}
  /\ reviewed \in Patch \union {None}
  /\ at \in Nat /\ touched \subseteq Paths /\ base \in Tree \union {None}
  /\ applied \subseteq Paths
  /\ job \in {"none", "done", "failed"} /\ refreshed \in BOOLEAN
  /\ userEdits \in 0..MaxUserEdits

(* A repository, the options, and the chain at its first hop.              *)
Init ==
  /\ opts \in {o \in [review : BOOLEAN, apply : BOOLEAN, chain : BOOLEAN, hops : 1..3,
                      loops : 0..MaxRounds] : o.hops = 3 \/ o.chain}
  /\ tree \in Trees
  /\ stage = "chain" /\ role = "architect" /\ hops = 0
  /\ run = NoState /\ state = NoState /\ target = None
  /\ round = 0 /\ verdict = "none" /\ reviewed = None
  /\ at = 0 /\ touched = {} /\ base = None
  /\ applied = {} /\ job = "none" /\ refreshed = FALSE
  /\ userEdits = 0

-----------------------------------------------------------------------------
(* The chain.                                                              *)

Died ==
  /\ stage' = "died" /\ run' = NoState
  /\ UNCHANGED <<opts, tree, role, hops, state, target, reviewVars, applyVars, endVars, userEdits>>

(* _plan_async_body goes on: a review if there is something to review.     *)
AfterChain(st) ==
  IF opts.review /\ (st.patch # None \/ round > 0) THEN "review" ELSE "apply"

ChainEnds(st) ==
  /\ state' = st /\ run' = NoState
  /\ stage' = AfterChain(st)

(* The edits a qa hop is handed: those of the developer before it. A       *)
(* rejection that enters the chain at qa hands over diffs and notes, and   *)
(* of a patch of file_ops nothing.                                         *)
Handed(st) == IF target = "qa" THEN None ELSE st.patch

(* An output for each role: a plan, edits that passed the dry run or were  *)
(* asked for a second time, a report on the edits the hop was handed.      *)
Output(st) ==
  IF role = "architect" THEN {[st EXCEPT !.plan = TRUE]}
  ELSE IF role = "developer" THEN
    {[st EXCEPT !.patch = [ops |-> p, against |-> tree]] :
       p \in {q \in Patches : CheckFileOps(tree, q)}}
    \union {[st EXCEPT !.patch = [ops |-> p, against |-> None]] : p \in Patches}
  ELSE IF role = "qa" THEN
    {[st EXCEPT !.qa = [of |-> Handed(st), failed |-> f]] : f \in BOOLEAN}
  ELSE {st}

Successors == [architect |-> "developer", developer |-> "qa"]

\* variant: one hop too many
MoreHopsInclusive == opts.chain /\ hops < opts.hops /\ role \in DOMAIN Successors

MoreHops == opts.chain /\ hops + 1 < opts.hops /\ role \in DOMAIN Successors

(* The hop's output is kept and its delegation followed.                   *)
HopDelivers ==
  /\ stage = "chain"
  /\ \E st \in Output(run) :
       IF MoreHops
         THEN /\ run' = st /\ role' = Successors[role] /\ hops' = hops + 1
              /\ UNCHANGED <<state, stage>>
         ELSE ChainEnds(st) /\ UNCHANGED <<role, hops>>
  /\ UNCHANGED <<opts, tree, target, reviewVars, applyVars, endVars, userEdits>>

\* variant: what the chain got done before the exception is returned
HopFailsKeeping ==
  /\ stage = "chain" /\ ChainEnds(run)
  /\ UNCHANGED <<opts, tree, role, hops, target, reviewVars, applyVars, endVars, userEdits>>

(* _safe_run_chain: what the chain has produced is lost, the state before  *)
(* it is kept, with an empty patch when it had none.                       *)
HopFails ==
  /\ stage = "chain"
  /\ ChainEnds(IF state.patch = None THEN [state EXCEPT !.patch = Synthetic] ELSE state)
  /\ UNCHANGED <<opts, tree, role, hops, target, reviewVars, applyVars, endVars, userEdits>>

(* Any other exception: diffs in a checkout, no JSON at all, the router.   *)
HopCrashes == stage = "chain" /\ Died

-----------------------------------------------------------------------------
(* The review.                                                             *)

QaFailed == IF state.qa = None THEN FALSE ELSE state.qa.failed

(* The round, as far as the loop tells its verdicts apart: every role but  *)
(* the author votes, and a call that fails or an answer that is no JSON is *)
(* a rejection that routes back to the architect.                          *)
AllApprove == verdict' = "approved"

(* Every rejection mentions the test environment, and no QA report lists a *)
(* failure: no report will do.                                             *)
Overrides ==
  /\ ~QaFailed
  /\ verdict' = "overridden"

\* variant: at the cap the edits are still applied
CapStopsLoopOnly ==
  /\ opts.loops > 0 /\ round + 1 >= opts.loops
  /\ verdict' = "capped" /\ UNCHANGED opts

(* max_review_loops reached: nothing will be applied.                      *)
CapReached ==
  /\ opts.loops > 0 /\ round + 1 >= opts.loops
  /\ verdict' = "capped"
  /\ opts' = [opts EXCEPT !.apply = FALSE]

ReviewEnds ==
  /\ stage = "review" /\ stage' = "apply"
  /\ reviewed' = state.patch /\ round' = round + 1
  /\ \/ AllApprove /\ UNCHANGED opts
     \/ Overrides /\ UNCHANGED opts
     \/ CapReached
  /\ UNCHANGED <<tree, chainVars, state, applyVars, endVars, userEdits>>

\* variant: the new chain goes on from the outputs of the last one
RouteBackKeeping(r) ==
  /\ stage = "review" /\ ~(opts.loops > 0 /\ round + 1 >= opts.loops)
  /\ round + 1 < MaxRounds
  /\ round' = round + 1 /\ reviewed' = state.patch
  /\ stage' = "chain" /\ role' = r /\ target' = r /\ hops' = 0 /\ run' = state
  /\ UNCHANGED <<opts, tree, state, verdict, applyVars, endVars, userEdits>>

\* variant: every chain counts its rounds from zero
RouteBackUncounted(r) ==
  /\ stage = "review" /\ ~(opts.loops > 0 /\ round + 1 >= opts.loops)
  /\ round' = 0 /\ reviewed' = state.patch
  /\ stage' = "chain" /\ role' = r /\ target' = r /\ hops' = 0 /\ run' = NoState
  /\ UNCHANGED <<opts, tree, state, verdict, applyVars, endVars, userEdits>>

(* A rejection: a new chain, with a state of its own, from the role that   *)
(* the first rejecter names.                                               *)
RouteBack(r) ==
  /\ stage = "review" /\ ~(opts.loops > 0 /\ round + 1 >= opts.loops)
  /\ round + 1 < MaxRounds
  /\ round' = round + 1 /\ reviewed' = state.patch
  /\ stage' = "chain" /\ role' = r /\ target' = r /\ hops' = 0 /\ run' = NoState
  /\ UNCHANGED <<opts, tree, state, verdict, applyVars, endVars, userEdits>>

(* The role does not exist: HandoffRejected, and the state stays.          *)
RouteNowhere ==
  /\ stage = "review" /\ ~(opts.loops > 0 /\ round + 1 >= opts.loops)
  /\ round + 1 < MaxRounds
  /\ round' = round + 1 /\ reviewed' = state.patch
  /\ state' = IF state.patch = None THEN [state EXCEPT !.patch = Synthetic] ELSE state
  /\ UNCHANGED <<opts, tree, stage, chainVars, verdict, applyVars, endVars, userEdits>>

(* A verdict without "approved": KeyError.                                 *)
ReviewCrashes == stage = "review" /\ Died

-----------------------------------------------------------------------------
(* The end of the command.                                                 *)

Apply ==
  /\ stage = "apply"
  /\ IF opts.apply /\ state.patch # None
       THEN stage' = "writing" /\ base' = tree
       ELSE stage' = "finish" /\ UNCHANGED base
  /\ UNCHANGED <<opts, tree, chainVars, state, reviewVars, at, touched, endVars, userEdits>>

NextOp == state.patch.ops[at + 1]

(* One turn of the loop.  Each op reads the file it is about as it is now. *)
WriteOp ==
  /\ stage = "writing" /\ at < Len(state.patch.ops) /\ Satisfiable(tree, NextOp)
  /\ tree' = [tree EXCEPT ![NextOp.path] = Written(tree, NextOp)]
  /\ touched' = touched \union Touched(tree, NextOp)
  /\ at' = at + 1
  /\ UNCHANGED <<opts, stage, chainVars, state, reviewVars, base, endVars, userEdits>>

(* The first op that cannot be done raises; what was written stays, and is *)
(* not reported.                                                           *)
WriteFails ==
  /\ stage = "writing" /\ at < Len(state.patch.ops) /\ ~Satisfiable(tree, NextOp)
  /\ stage' = "finish" /\ at' = 0 /\ touched' = {} /\ base' = None
  /\ UNCHANGED <<opts, tree, chainVars, state, reviewVars, endVars, userEdits>>

WriteEnds ==
  /\ stage = "writing" /\ at = Len(state.patch.ops)
  /\ applied' = touched
  /\ stage' = "finish" /\ at' = 0 /\ touched' = {} /\ base' = None
  /\ UNCHANGED <<opts, tree, chainVars, state, reviewVars, job, refreshed, userEdits>>

Converged == state.qa # None /\ ~QaFailed

(* The row is best effort, as is the wiki; tagging and saving the graph    *)
(* come first and may raise.                                               *)
Finish ==
  /\ stage = "finish"
  /\ \/ Died
     \/ /\ stage' = "ended"
        /\ job' \in {"none", IF Converged THEN "done" ELSE "failed"}
        /\ refreshed' \in {FALSE, Converged /\ applied # {}}
        /\ UNCHANGED <<opts, tree, chainVars, state, reviewVars, applyVars, applied, userEdits>>

(* Somebody else saves a file of the repository.                           *)
UserEdit(p, t) ==
  /\ stage \notin {"ended", "died"} /\ userEdits < MaxUserEdits
  /\ tree[p] # t[p] /\ tree' = [tree EXCEPT ![p] = t[p]]
  /\ userEdits' = userEdits + 1 /\ base' = None
  /\ UNCHANGED <<opts, stage, chainVars, state, reviewVars, at, touched, endVars>>

Command ==
  \/ HopDelivers \/ HopFails \/ HopCrashes
  \/ ReviewEnds \/ RouteNowhere \/ ReviewCrashes
  \/ \E r \in Roles : RouteBack(r)
  \/ Apply \/ WriteOp \/ WriteFails \/ WriteEnds \/ Finish

Next == Command \/ \E p \in Paths, t \in Trees : UserEdit(p, t)

(* The command is one coroutine and the model is assumed to answer.        *)
Spec == Init /\ [][Next]_vars /\ WF_vars(Command)

-----------------------------------------------------------------------------
(* What the command promises.                                              *)

(* What is written is the patch the last review round was shown, and that  *)
(* round ended in approval, or in an override on a report without          *)
(* failures; a command that reached the cap writes nothing.  (cli.py       *)
(* 516-544, 573-585.)                                                      *)
WrittenIsReviewed ==
  [][ tree' # tree /\ userEdits' = userEdits /\ opts.review =>
        /\ reviewed = state.patch
        /\ \/ verdict = "approved"
           \/ verdict = "overridden" /\ ~QaFailed ]_vars

(* A patch that passed the dry run, with one op per path, and a tree that  *)
(* nobody has changed since: it is written whole and reported as written.  *)
(* So the tree is left half written, and reported as untouched (cli.py     *)
(* 586-588), only when it was changed after the dry run, the answer was    *)
(* never dry run, or two ops name one path.  (runtime.py _check_file_ops   *)
(* against sandbox.py apply_file_ops.)                                     *)
CheckedIsWritten ==
  [][ stage = "writing" /\ stage' = "finish" =>
        (base # None /\ state.patch.against = base /\ OnePathEach(state.patch.ops) =>
           /\ tree' = Intended(base, state.patch.ops)
           /\ \A p \in Paths : tree'[p] # base[p] => p \in applied') ]_vars

(* When the review approves there is a patch to write, unless the last     *)
(* rejection routed back to qa or ops, whose chains produce none, or the   *)
(* chains were cut before the developer.  (cli.py:906 starts every chain   *)
(* with an empty state.)                                                   *)
PatchLostOnlyPastDeveloper ==
  stage = "apply" /\ verdict \in {"approved", "overridden"} /\ state.patch = None =>
    \/ target \in {"qa", "ops"}
    \/ target = "architect" /\ (opts.hops = 1 \/ ~opts.chain)

(* A chain is recorded as done, and its wiki refreshed, with edits written *)
(* only if QA has reported on these edits and found no failure.            *)
(* (cli.py:609-620.)                                                       *)
DoneIsTested ==
  job = "done" \/ refreshed =>
    applied = {} \/ (state.qa.of = state.patch /\ ~state.qa.failed)

(* With a cap on the review rounds the command comes to an end, whatever   *)
(* the reviewers answer.                                                   *)
CappedPlanEnds == opts.loops > 0 ~> stage \in {"ended", "died"}

(* cli.py:325: the command iterates until unanimous approval, then applies *)
(* what has been approved.                                                 *)
ApprovedHasPatch ==
  stage = "apply" /\ verdict = "approved" => state.patch # None
=============================================================================
