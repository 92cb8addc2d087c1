----------------------------- MODULE HopRuntime -----------------------------
(***************************************************************************)
(* Runtime.execute (orchestrator/runtime.py): one hop, from the handoff to *)
(* an Outcome or an exception.  Several hops run in one process (the       *)
(* worker's, and those of inline requests) and share its LlmRouter.        *)
(*                                                                         *)
(* An action is what the hop does from one await of the router to the      *)
(* next.  An answer of the model is abstracted to what the hop tests: does *)
(* it parse, does it have the contract's shape, which edits does it carry. *)
(* Time is counted in ticks while a call is awaited; a timer that has run  *)
(* out fires before the next tick.                                         *)
(***************************************************************************)
EXTENDS LlmRouter

CONSTANTS
  Discovering,     \* hops whose agent has discovers_commands
  Sla,             \* per hop: sla_seconds, in ticks; NoSla if None
  DiscoveryTicks,  \* the 180 s of _discover_and_run
  MaxChunks        \* bound: chunks of _split_payload

NoSla == -1

ASSUME HopAssumption ==
  /\ Discovering \subseteq Hops
  /\ Sla \in [Hops -> (Nat \ {0}) \union {NoSla}]
  /\ DiscoveryTicks \in Nat \ {0} /\ MaxChunks \in Nat \ {0}

(* file_ops win over diffs when both are there.                            *)
Edits == {"none", "good_ops", "bad_ops", "diffs"}
Output == [shaped : BOOLEAN, edits : Edits]
NoOutput == [shaped |-> FALSE, edits |-> "none"]

VARIABLES
  stage,    \* per hop: what it asks the model for
  left,     \* per hop: what is left of wait_for's timeout, NoSla if none
  chunk,    \* per hop: chunks that are still to be answered
  shot,     \* per hop: attempt of _one_shot
  out,      \* per hop: the output of its Outcome
  reasked,  \* per hop: the re-asks it has used
  outcome,  \* per hop: how it ended
  waited,   \* per hop: ticks it has spent waiting for the model
  inGit     \* is AGENTCORE_REPO_ROOT a git checkout

hopVars == <<stage, left, chunk, shot, out, reasked, outcome, waited, inGit>>
vars == <<routerVars, hopVars>>

Timers == {NoSla} \union 0..DiscoveryTicks \union UNION {0..Sla[h] : h \in Hops}

TypeOK ==
  /\ RouterTypeOK
  /\ stage \in [Hops -> {"new", "discover", "prepare", "chunks", "contract", "edits", "ended"}]
  /\ left \in [Hops -> Timers]
  /\ chunk \in [Hops -> 0..MaxChunks]
  /\ shot \in [Hops -> 1..2]
  /\ out \in [Hops -> Output]
  /\ reasked \in [Hops -> SUBSET {"contract", "edits"}]
  /\ outcome \in [Hops -> {"none", "delivered", "raised", "cancelled"}]
  /\ waited \in [Hops -> Nat]
  /\ inGit \in BOOLEAN

Init ==
  /\ RouterInit
  /\ stage = [h \in Hops |-> "new"]
  /\ left = [h \in Hops |-> NoSla]
  /\ chunk = [h \in Hops |-> 0]
  /\ shot = [h \in Hops |-> 1]
  /\ out = [h \in Hops |-> NoOutput]
  /\ reasked = [h \in Hops |-> {}]
  /\ outcome = [h \in Hops |-> "none"]
  /\ waited = [h \in Hops |-> 0]
  /\ inGit \in BOOLEAN

-----------------------------------------------------------------------------
(* Where a step leaves the hop.                                            *)

Goto(h, s) ==
  /\ stage' = [stage EXCEPT ![h] = s]
  /\ left' = [left EXCEPT ![h] = NoSla]
  /\ UNCHANGED <<waited, inGit>>

Ends(h, how) ==
  /\ Goto(h, "ended")
  /\ outcome' = [outcome EXCEPT ![h] = how]
  /\ chunk' = [chunk EXCEPT ![h] = 0]
  /\ shot' = [shot EXCEPT ![h] = 1]
  /\ UNCHANGED reasked

Raises(h) == Ends(h, "raised") /\ UNCHANGED out

(* The Outcome is built and the graph enriched; a graph in Postgres may    *)
(* fail there, and nothing catches it.                                     *)
Delivers(h, o) ==
  /\ out' = [out EXCEPT ![h] = o]
  /\ Ends(h, "delivered") \/ Ends(h, "raised")

Reasks(h, why) ==
  /\ Goto(h, why)
  /\ reasked' = [reasked EXCEPT ![h] = @ \union {why}]
  /\ UNCHANGED <<chunk, shot, out, outcome>>

-----------------------------------------------------------------------------
(* From the handoff to the first question.                                 *)

(* Unknown agent or sender: rejected.  Otherwise the first await is the    *)
(* question which commands test the edits, if the agent discovers them.    *)
Begin(h) ==
  /\ stage[h] = "new"
  /\ \/ Raises(h) /\ UNCHANGED routerVars
     \/ Goto(h, "prepare") /\ UNCHANGED <<chunk, shot, out, reasked, outcome, routerVars>>
     \/ /\ h \in Discovering
        /\ Enter(h)
        /\ stage' = [stage EXCEPT ![h] = "discover"]
        /\ left' = [left EXCEPT ![h] = DiscoveryTicks]
        /\ UNCHANGED <<chunk, shot, out, reasked, outcome, waited, inGit>>

(* Commands and executors have run; the payload breaks the contract, or is *)
(* split for the context budget.                                           *)
Prepare(h) ==
  /\ stage[h] = "prepare"
  /\ \/ Raises(h)
     \/ /\ Goto(h, "chunks")
        /\ \E n \in 1..MaxChunks : chunk' = [chunk EXCEPT ![h] = n]
        /\ UNCHANGED <<shot, out, reasked, outcome>>
  /\ UNCHANGED routerVars

\* variant: the re-asks wait without the SLA
AskPatiently(h) ==
  /\ stage[h] \in {"chunks", "contract", "edits"} /\ call[h] = "none"
  /\ \/ Raises(h) /\ (stage[h] = "chunks" => shot[h] = 1) /\ UNCHANGED routerVars
     \/ /\ Enter(h)
        /\ left' = [left EXCEPT ![h] = IF stage[h] = "chunks" THEN Sla[h] ELSE NoSla]
        /\ UNCHANGED <<stage, chunk, shot, out, reasked, outcome, waited, inGit>>

(* Render the messages (operational memory is read unguarded, it may       *)
(* raise; a second shot renders nothing) and call the router under the SLA.*)
Ask(h) ==
  /\ stage[h] \in {"chunks", "contract", "edits"} /\ call[h] = "none"
  /\ \/ Raises(h) /\ (stage[h] = "chunks" => shot[h] = 1) /\ UNCHANGED routerVars
     \/ /\ Enter(h)
        /\ left' = [left EXCEPT ![h] = Sla[h]]
        /\ UNCHANGED <<stage, chunk, shot, out, reasked, outcome, waited, inGit>>

-----------------------------------------------------------------------------
(* The model answered.                                                     *)

(* _check_file_ops or _check_diffs.  The latter's cleanup names contextlib,*)
(* which the module does not import: it raises NameError in every checkout.*)
CheckEdits(h, o) ==
  \/ o.edits \in {"none", "good_ops"} /\ Delivers(h, o)
  \/ o.edits = "bad_ops" /\ Reasks(h, "edits")
  \/ o.edits = "diffs" /\ inGit /\ Raises(h)
  \/ o.edits = "diffs" /\ ~inGit /\ Delivers(h, o)

(* What discovery says, nothing included, never ends the hop.              *)
Discovered(h) ==
  /\ stage[h] = "discover"
  /\ Goto(h, "prepare")
  /\ UNCHANGED <<chunk, shot, out, reasked, outcome>>

\* variant: the second shot is not the last
UnparseableForever(h) ==
  \/ /\ stage[h] = "chunks"
     /\ Goto(h, "chunks")
     /\ shot' = [shot EXCEPT ![h] = 2]
     /\ UNCHANGED <<chunk, out, reasked, outcome>>
  \/ stage[h] \in {"contract", "edits"} /\ Raises(h)

(* An answer without a JSON object: one more shot, for a chunk's question. *)
Unparseable(h) ==
  \/ /\ stage[h] = "chunks" /\ shot[h] = 1
     /\ Goto(h, "chunks")
     /\ shot' = [shot EXCEPT ![h] = 2]
     /\ UNCHANGED <<chunk, out, reasked, outcome>>
  \/ stage[h] = "chunks" /\ shot[h] = 2 /\ Raises(h)
  \/ stage[h] \in {"contract", "edits"} /\ Raises(h)

ChunkAnswered(h) ==
  /\ stage[h] = "chunks" /\ chunk[h] > 1
  /\ Goto(h, "chunks")
  /\ chunk' = [chunk EXCEPT ![h] = @ - 1]
  /\ shot' = [shot EXCEPT ![h] = 1]
  /\ UNCHANGED <<out, reasked, outcome>>

(* The last chunk: o is the merged output.                                 *)
Merged(h, o) ==
  /\ stage[h] = "chunks" /\ chunk[h] = 1
  /\ IF o.shaped THEN CheckEdits(h, o) ELSE Reasks(h, "contract")

\* variant: the corrected edits are not held against the contract
ReaskedUnchecked(h, o) ==
  \/ stage[h] = "contract" /\ o.shaped /\ CheckEdits(h, o)
  \/ stage[h] = "contract" /\ ~o.shaped /\ Raises(h)
  \/ stage[h] = "edits" /\ Delivers(h, o)

(* A second violation of the contract ends the hop.  Edits are checked     *)
(* once: what the re-ask returns is held against the contract only.        *)
Reasked(h, o) ==
  \/ stage[h] = "contract" /\ o.shaped /\ CheckEdits(h, o)
  \/ stage[h] = "edits" /\ o.shaped /\ Delivers(h, o)
  \/ stage[h] \in {"contract", "edits"} /\ ~o.shaped /\ Raises(h)

Answered(h) ==
  /\ Settles(h)
  /\ \/ Discovered(h)
     \/ Unparseable(h)
     \/ ChunkAnswered(h)
     \/ \E o \in Output : Merged(h, o) \/ Reasked(h, o)

-----------------------------------------------------------------------------
(* It did not.                                                             *)

(* A failed discovery is logged; elsewhere the error ends the hop, a       *)
(* timeout as SLAExceeded.                                                 *)
GivesUp(h) == IF stage[h] = "discover" THEN Discovered(h) ELSE Raises(h)

CallRaises(h) == Settles(h) /\ GivesUp(h)
Timeout(h) == left[h] = 0 /\ Abandon(h) /\ GivesUp(h)

CallBacksOff(h) == BackOff(h) /\ UNCHANGED hopVars
CallRetries(h) == Retry(h) /\ UNCHANGED hopVars
CallAcquires(h) == Acquire(h) /\ UNCHANGED hopVars
BedrockReturns == OrphanEnds /\ UNCHANGED hopVars

(* The chain's cap (AGENTCORE_MAX_CHAIN_SECONDS) or a shutdown cancels the *)
(* hop wherever it awaits.                                                 *)
Cancel(h) ==
  /\ stage[h] \notin {"new", "ended"}
  /\ Abandon(h) \/ (call[h] = "none" /\ UNCHANGED routerVars)
  /\ Ends(h, "cancelled")
  /\ UNCHANGED out

Tick ==
  /\ \A h \in Hops : left[h] # 0
  /\ \E h \in Hops : left[h] > 0
  /\ left' = [h \in Hops |-> IF left[h] > 0 THEN left[h] - 1 ELSE left[h]]
  /\ waited' = [h \in Hops |-> IF left[h] > 0 THEN waited[h] + 1 ELSE waited[h]]
  /\ UNCHANGED <<routerVars, stage, chunk, shot, out, reasked, outcome, inGit>>

Hop(h) ==
  \/ Begin(h) \/ Prepare(h) \/ Ask(h)
  \/ Answered(h) \/ CallRaises(h) \/ Timeout(h) \/ Cancel(h)

Call(h) == CallAcquires(h) \/ CallBacksOff(h) \/ CallRetries(h)

Next ==
  \/ \E h \in Hops : Hop(h) \/ Call(h)
  \/ BedrockReturns
  \/ Tick

(* The event loop runs what is ready and the clock moves.  Nothing makes a *)
(* provider answer, and nobody has to cancel.                              *)
Fairness ==
  /\ WF_vars(Tick)
  /\ \A h \in Hops :
       /\ WF_vars(Prepare(h))
       /\ WF_vars(Ask(h))
       /\ WF_vars(Timeout(h))
       /\ WF_vars(CallAcquires(h))
       /\ WF_vars(CallRetries(h))

Spec == Init /\ [][Next]_vars /\ Fairness

-----------------------------------------------------------------------------
(* Properties.                                                             *)

(* What leaves a hop as its Outcome, and reaches the next agent, has the   *)
(* contract's shape, whichever of its answers, merges and re-asks it comes *)
(* from; edits that do not apply leave it only after the model was shown   *)
(* the errors.                                                             *)
OnlyCheckedOutputsLeave ==
  \A h \in Hops :
    outcome[h] = "delivered" =>
      /\ out[h].shaped
      /\ out[h].edits = "bad_ops" => "edits" \in reasked[h]

(* docs/SPEC.md:67 says of sla_seconds "soft deadline; runtime emits a     *)
(* warning trace but does not hard-kill": a hop that waits for its turn at *)
(* the model, or between two attempts, where nothing but a timer can raise,*)
(* is not ended by one.  It is: wait_for cancels the call, and SLAExceeded *)
(* ends the hop, as README:74 and runtime.py:91-104 say.                   *)
DeadlineIsSoft ==
  [][\A h \in Hops :
       call[h] \in {"waiting", "backoff"} /\ stage[h] # "discover"
         => outcome'[h] # "raised"]_vars

(* sla_seconds limits each call, not the hop ("enforced around each LLM    *)
(* call", README): what a hop may spend waiting is a multiple of it, two   *)
(* shots for each chunk and one for each re-ask.                           *)
WaitBounded ==
  \A h \in Hops :
    Sla[h] # NoSla =>
      waited[h] <= DiscoveryTicks
                   + Sla[h] * (2 * MaxChunks + Cardinality(reasked[h]))

(* A hop of an agent with an SLA ends even if the provider never answers   *)
(* and others hold every slot: each of its waits has a timeout, discovery  *)
(* and the wait for a slot included, and it makes finitely many.           *)
HopsEnd ==
  \A h \in Hops :
    Sla[h] # NoSla => (stage[h] # "new" ~> stage[h] = "ended")
=============================================================================
