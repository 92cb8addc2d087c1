----------------------------- MODULE MCJobQueue -----------------------------
(* Instances of JobQueue for TLC.                                          *)
EXTENDS JobQueue, TLC

CONSTANTS w1, w2, p1, p2, k1, c1

MCWorkers == {w1, w2}

Advance == "runtime.chain.advance"
WikiRefresh == "wiki.refresh"

Request(p, kind, key, c, pri, n) ==
  [project |-> p, kind |-> kind, key |-> key, chain |-> c, priority |-> pri, max |-> n]

(* A hop of a durable chain, deduplicated by its key; a capped wiki job of *)
(* higher priority; a job of another tenant, of a kind without a handler.  *)
MCRequests ==
  {Request(p1, Advance, k1, c1, 0, 2),
   Request(p1, WikiRefresh, NoKey, NoChain, 1, 1),
   Request(p2, "signal.scan", NoKey, NoChain, 0, 1)}

(* For liveness: two jobs of the tenant both processes serve, one of them  *)
(* without a handler.                                                      *)
MCFewRequests ==
  {Request(p1, Advance, k1, c1, 0, 2),
   Request(p1, "signal.scan", NoKey, NoChain, 1, 1)}

MCWorkerProject == w1 :> p1 @@ w2 :> AnyProject
MCHandledKinds == {Advance, WikiRefresh}
MCKindLimits == WikiRefresh :> 1
=============================================================================
