----------------------------- MODULE LlmRouter -----------------------------
(***************************************************************************)
(* LLMRouter.complete (llm/router.py): one call of the model, made by a    *)
(* hop, under the semaphore of the process and with bounded retries.       *)
(*                                                                         *)
(* The operators below are parts of the actions of HopRuntime, which says  *)
(* what the hop makes of an answer, an error or a timeout.  asyncio's      *)
(* semaphore serves its waiters in order.  The slot is held from the first *)
(* attempt to the last, backoff included.                                  *)
(***************************************************************************)
EXTENDS Integers, Sequences, SequencesExt, FiniteSets

CONSTANTS
  Hops,          \* the Runtime.execute() calls of one process
  BedrockHops,   \* those whose agent's provider resolves to Bedrock
  Slots,         \* llm_max_concurrency
  MaxAttempts    \* llm_max_retries

ASSUME RouterAssumption ==
  /\ IsFiniteSet(Hops) /\ BedrockHops \subseteq Hops
  /\ Slots \in Nat \ {0} /\ MaxAttempts \in Nat \ {0}

VARIABLES
  call,      \* per hop: where its complete() is
  attempt,   \* per hop: attempt of _with_retry
  waiters,   \* hops that wait for the semaphore
  free,      \* the semaphore's value
  orphans    \* Bedrock requests that nobody waits for any more

routerVars == <<call, attempt, waiters, free, orphans>>

RouterTypeOK ==
  /\ call \in [Hops -> {"none", "waiting", "sent", "backoff"}]
  /\ attempt \in [Hops -> 0..MaxAttempts]
  /\ waiters \in Seq(Hops)
  /\ free \in 0..Slots
  /\ orphans \in Nat

RouterInit ==
  /\ call = [h \in Hops |-> "none"]
  /\ attempt = [h \in Hops |-> 0]
  /\ waiters = <<>>
  /\ free = Slots
  /\ orphans = 0

Holders == {h \in Hops : call[h] \in {"sent", "backoff"}}

-----------------------------------------------------------------------------
Enter(h) ==
  /\ call[h] = "none"
  /\ call' = [call EXCEPT ![h] = "waiting"]
  /\ waiters' = Append(waiters, h)
  /\ UNCHANGED <<attempt, free, orphans>>

Acquire(h) ==
  /\ call[h] = "waiting" /\ Head(waiters) = h
  /\ free > 0
  /\ free' = free - 1
  /\ waiters' = Tail(waiters)
  /\ call' = [call EXCEPT ![h] = "sent"]
  /\ attempt' = [attempt EXCEPT ![h] = 1]
  /\ UNCHANGED orphans

Over(h) ==
  /\ call' = [call EXCEPT ![h] = "none"]
  /\ attempt' = [attempt EXCEPT ![h] = 0]

(* The `async with' is left, by a return or by an exception.               *)
Release(h) ==
  /\ Over(h)
  /\ free' = free + 1
  /\ UNCHANGED waiters

(* The provider answered, or raised what is not retried: an error that is  *)
(* not transient, any error of the last attempt, any error of boto3.       *)
Settles(h) ==
  /\ call[h] = "sent"
  /\ Release(h)
  /\ UNCHANGED orphans

\* variant: off by one
BackOffLate(h) ==
  /\ call[h] = "sent" /\ h \notin BedrockHops
  /\ attempt[h] <= MaxAttempts
  /\ call' = [call EXCEPT ![h] = "backoff"]
  /\ UNCHANGED <<attempt, waiters, free, orphans>>

(* A 429, a 5xx or a network error, and attempts are left.                 *)
BackOff(h) ==
  /\ call[h] = "sent" /\ h \notin BedrockHops
  /\ attempt[h] < MaxAttempts
  /\ call' = [call EXCEPT ![h] = "backoff"]
  /\ UNCHANGED <<attempt, waiters, free, orphans>>

Retry(h) ==
  /\ call[h] = "backoff"
  /\ call' = [call EXCEPT ![h] = "sent"]
  /\ attempt' = [attempt EXCEPT ![h] = @ + 1]
  /\ UNCHANGED <<waiters, free, orphans>>

(* The finally of Semaphore.acquire: its future leaves the queue.          *)
Leaves(h) ==
  \E i \in DOMAIN waiters : waiters[i] = h /\ waiters' = RemoveAt(waiters, i)

\* variant: the slot is not given back when the call is cancelled in backoff
AbandonSleeping(h) ==
  \/ /\ call[h] = "waiting"
     /\ Over(h)
     /\ Leaves(h)
     /\ UNCHANGED <<free, orphans>>
  \/ /\ call[h] = "backoff"
     /\ Over(h)
     /\ UNCHANGED <<waiters, free, orphans>>
  \/ /\ call[h] = "sent"
     /\ Release(h)
     /\ orphans' = IF h \in BedrockHops THEN orphans + 1 ELSE orphans

(* CancelledError, from wait_for or from above.  It leaves the queue or    *)
(* gives the slot back; asyncio.to_thread's thread, which is inside boto3, *)
(* cannot be cancelled and goes on.                                        *)
Abandon(h) ==
  \/ /\ call[h] = "waiting"
     /\ Over(h)
     /\ Leaves(h)
     /\ UNCHANGED <<free, orphans>>
  \/ /\ h \in Holders
     /\ Release(h)
     /\ orphans' = IF call[h] = "sent" /\ h \in BedrockHops THEN orphans + 1
                                                            ELSE orphans

(* boto3 came back in a thread that nobody waits for.                      *)
OrphanEnds ==
  /\ orphans > 0
  /\ orphans' = orphans - 1
  /\ UNCHANGED <<call, attempt, waiters, free>>

-----------------------------------------------------------------------------
(* Properties.                                                             *)

(* However a call ends - answered, failed, out of attempts, timed out or   *)
(* cancelled while it waits, runs or sleeps - the semaphore gets back what *)
(* the call took, and the queue holds the hops that wait, each once.       *)
SlotsConserved ==
  /\ free + Cardinality(Holders) = Slots
  /\ {waiters[i] : i \in DOMAIN waiters} = {h \in Hops : call[h] = "waiting"}
  /\ \A i, j \in DOMAIN waiters : waiters[i] = waiters[j] => i = j

(* README: the semaphore "caps in-flight provider calls per process".      *)
InFlight == Cardinality({h \in Hops : call[h] = "sent"}) + orphans
InFlightCapped == InFlight <= Slots
=============================================================================
