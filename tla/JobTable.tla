------------------------------ MODULE JobTable ------------------------------
(***************************************************************************)
(* The rows of the Postgres table agentcore_jobs (state/jobs.py) and what  *)
(* each SQL statement of JobQueue does to one of them.  Pure operators:    *)
(* JobQueue and DurableChain put them together into state machines.        *)
(*                                                                         *)
(* Times are remaining ticks, not timestamps: `wait' is what is left of    *)
(* run_after - now(), `lease' what is left of locked_until - now().  A     *)
(* NULL locked_by / locked_until is owner = NoWorker.                      *)
(***************************************************************************)
EXTENDS Integers

CONSTANTS
  Workers,      \* worker ids; default_worker_id() makes a new one per process
  NoWorker,     \* NULL locked_by
  Requests,     \* what callers pass to enqueue(): the columns that never change
  NoKey,        \* NULL idempotency_key
  NoChain,      \* a payload without a chain_id
  LockTicks,    \* lock_seconds (600), in ticks
  RetryTicks    \* retry_in_seconds of fail() (30), in ticks

ASSUME NoWorkerAssumption == NoWorker \notin Workers
ASSUME TicksAssumption ==
  /\ LockTicks \in Nat \ {0}
  /\ RetryTicks \in Nat
ASSUME RequestsAssumption ==
  /\ Requests # {}
  /\ \A r \in Requests : r.max \in Nat \ {0} /\ r.priority \in Int

Live == {"queued", "running"}
Settled == {"done", "dead_letter", "cancelled"}
\* "free": the id was never handed out; "deleted": cleanup or a purge took the row
Status == Live \union Settled \union {"free", "deleted"}

Row == [status: Status, req: Requests, attempts: Nat, wait: 0..RetryTicks,
        owner: Workers \union {NoWorker}, lease: 0..LockTicks]

RowOf(r, status, attempts, wait, owner, lease) ==
  [status |-> status, req |-> r, attempts |-> attempts, wait |-> wait,
   owner |-> owner, lease |-> lease]

(* INSERT: status, attempts and the lock columns take the DDL's defaults.  *)
Inserted(r) == RowOf(r, "queued", 0, 0, NoWorker, 0)

FreeRow == RowOf(CHOOSE r \in Requests : TRUE, "free", 0, 0, NoWorker, 0)

(* The partial unique index on (project_id, kind, idempotency_key).        *)
Conflicts(row, r) ==
  /\ r.key # NoKey
  /\ row.status \notin {"free", "deleted"}
  /\ row.req.project = r.project
  /\ row.req.kind = r.kind
  /\ row.req.key = r.key

HasLease(row) == row.status = "running" /\ row.owner # NoWorker /\ row.lease > 0

\* variants for the mutants: the expiry test dropped; the reclaim branch missing
ExpiredEarly(row) == row.status = "running" /\ row.owner # NoWorker
ExpiredNever(row) == FALSE

Expired(row) == row.status = "running" /\ row.owner # NoWorker /\ row.lease = 0

(* The WHERE clause of the claim, without its project and cap conjuncts.   *)
Ready(row) == (row.status = "queued" /\ row.wait = 0) \/ Expired(row)

(* ORDER BY priority DESC, created_at ASC; ids grow with created_at.       *)
Precedes(rows, i, j) ==
  \/ rows[i].req.priority > rows[j].req.priority
  \/ rows[i].req.priority = rows[j].req.priority /\ i <= j

Claimed(row, w) ==
  RowOf(row.req, "running", row.attempts + 1, row.wait, w, LockTicks)

(* WHERE id AND locked_by = worker AND status = 'running'; it does not ask *)
(* whether the lease is still valid.                                       *)
CanExtend(row, w) == row.status = "running" /\ row.owner = w

Extended(row) == [row EXCEPT !.lease = LockTicks]

(* locked_by = NULL, locked_until = NULL.                                  *)
Unlocked(row, status, attempts, wait) ==
  RowOf(row.req, status, attempts, wait, NoWorker, 0)

(* complete(), fail() and _update_status() name the row by id alone: no    *)
(* owner, no status.  An id that is gone matches nothing.                  *)
Update(row, new) == IF row.status = "deleted" THEN row ELSE new

Completed(row) == Update(row, Unlocked(row, "done", row.attempts, row.wait))

\* variant: off by one
ExhaustedLate(row) == row.attempts > row.req.max

Exhausted(row) == row.attempts >= row.req.max

\* variant: the two outcomes swapped
FailedSwapped(row, final) ==
  Update(row, IF final THEN Unlocked(row, "queued", row.attempts, RetryTicks)
              ELSE Unlocked(row, "dead_letter", row.attempts, row.wait))

Failed(row, final) ==
  Update(row, IF final THEN Unlocked(row, "dead_letter", row.attempts, row.wait)
              ELSE Unlocked(row, "queued", row.attempts, RetryTicks))

\* variant: the status conjunct dropped
CancellableAny(row, p, c) ==
  row.status \notin {"free", "deleted"} /\ row.req.project = p /\ row.req.chain = c /\ c # NoChain

(* cancel_chain matches kind 'runtime.chain.advance', the two live states  *)
(* and the payload's chain_id; only jobs of that kind carry one here.      *)
Cancellable(row, p, c) ==
  /\ row.status \in Live
  /\ row.req.project = p
  /\ row.req.chain = c
  /\ c # NoChain

Cancelled(row) == Unlocked(row, "cancelled", row.attempts, row.wait)

Revived(row) == Unlocked(row, "queued", 0, 0)

Deleted(row) == RowOf(row.req, "deleted", row.attempts, row.wait, row.owner, row.lease)


(* One tick of the database clock.                                         *)
Elapsed(n) == IF n > 0 THEN n - 1 ELSE 0
Aged(row) == RowOf(row.req, row.status, row.attempts, Elapsed(row.wait), row.owner,
                   Elapsed(row.lease))
=============================================================================
