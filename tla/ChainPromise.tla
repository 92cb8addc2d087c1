---------------------------- MODULE ChainPromise ----------------------------
(***************************************************************************)
(* What a client of a durable chain may rely on (POST /run with durable,   *)
(* GET and DELETE /chains/{id}), with no queue, no worker and no lease.    *)
(* A chain has at most one answer at a time.  Hops begin only while there  *)
(* is none; a cancellation begins only while no hop has answered.  What    *)
(* has begun may still answer, over another answer too: an answer is final *)
(* once nothing that could answer is in flight.  That a hop's answer       *)
(* survives a DELETE which began before it, as app.py:692 says, is not     *)
(* promised: DurableChain's CancelKeepsResults states it and is violated.  *)
(***************************************************************************)
EXTENDS Naturals

CONSTANTS
  Chains,
  NoAnswer,      \* nothing stored: GET says "running"
  HopAnswers,    \* the done and failed records
  CancelAnswer   \* the record DELETE stores

VARIABLES
  answer,      \* per chain
  working,     \* per chain: is a hop in flight
  cancelling   \* per chain: is a DELETE between its check and its store

pvars == <<answer, working, cancelling>>

PromiseTypeOK ==
  /\ answer \in [Chains -> HopAnswers \union {NoAnswer, CancelAnswer}]
  /\ working \in [Chains -> BOOLEAN]
  /\ cancelling \in [Chains -> BOOLEAN]

PromiseInit ==
  /\ answer = [c \in Chains |-> NoAnswer]
  /\ working = [c \in Chains |-> FALSE]
  /\ cancelling = [c \in Chains |-> FALSE]

HopBegins(c) ==
  /\ answer[c] = NoAnswer
  /\ working' = [working EXCEPT ![c] = TRUE]
  /\ UNCHANGED <<answer, cancelling>>

HopSettles(c) ==
  /\ working[c]
  /\ answer'[c] \in HopAnswers
  /\ answer' = [answer EXCEPT ![c] = answer'[c]]
  /\ \E still \in BOOLEAN : working' = [working EXCEPT ![c] = still]
  /\ UNCHANGED cancelling

HopEnds(c) ==
  /\ working' = [working EXCEPT ![c] = FALSE]
  /\ UNCHANGED <<answer, cancelling>>

CancelBegins(c) ==
  /\ answer[c] \notin HopAnswers
  /\ cancelling' = [cancelling EXCEPT ![c] = TRUE]
  /\ UNCHANGED <<answer, working>>

CancelSettles(c) ==
  /\ cancelling[c]
  /\ answer' = [answer EXCEPT ![c] = CancelAnswer]
  /\ cancelling' = [cancelling EXCEPT ![c] = FALSE]
  /\ UNCHANGED working

CancelEnds(c) ==
  /\ cancelling' = [cancelling EXCEPT ![c] = FALSE]
  /\ UNCHANGED <<answer, working>>

PromiseNext ==
  \E c \in Chains : \/ HopBegins(c) \/ HopSettles(c) \/ HopEnds(c)
                    \/ CancelBegins(c) \/ CancelSettles(c) \/ CancelEnds(c)

PromiseSpec == PromiseInit /\ [][PromiseNext]_pvars
=============================================================================
