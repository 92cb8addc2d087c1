------------------------------ MODULE JobQueue ------------------------------
(***************************************************************************)
(* The durable job queue (state/jobs.py): the table, and the orchestrator  *)
(* processes whose worker loops (run_worker) drain it.  Every process has  *)
(* its own worker id, its own in-memory fallback list and one serial loop. *)
(*                                                                         *)
(* Time is counted in ticks.  Synchronous database calls block a process's *)
(* event loop, so between two ticks a process that is not stalled finishes *)
(* the statement it is in and sends the heartbeat that is due.  What can   *)
(* go wrong is injected and counted: `crashes' (a process is killed, or    *)
(* its lifespan shutdown cancels the loop) and `lapses' (a database call   *)
(* fails and its exception is swallowed, or a process is paused).          *)
(***************************************************************************)
EXTENDS JobTable, Sequences, FiniteSets

CONSTANTS
  WorkerProject,  \* settings.project_name of each process, AnyProject for "*"
  AnyProject,
  HandledKinds,   \* the keys of job_handlers
  KindLimits,     \* kind_limits: a function on the kinds that have a cap
  BeatFloor,      \* the 15 s of _heartbeat_loop, in ticks
  MaxJobs,        \* bound: ids the table hands out
  FallbackMax,    \* the 1024 of _enqueue_mem
  MaxCrashes,     \* bound: crashes injected
  MaxLapses,      \* bound: swallowed database errors and pauses injected
  MaxRetries      \* bound: operator retries

HbInterval == IF LockTicks \div 3 > BeatFloor THEN LockTicks \div 3 ELSE BeatFloor

(* The default lease (600 s) is longer than the floor, so the first        *)
(* heartbeat comes before the lease runs out.                              *)
ASSUME HeartbeatAssumption == HbInterval \in Nat \ {0} /\ HbInterval < LockTicks
ASSUME BoundsAssumption ==
  /\ MaxJobs \in Nat /\ FallbackMax \in Nat
  /\ MaxCrashes \in Nat /\ MaxLapses \in Nat /\ MaxRetries \in Nat

VARIABLES
  rows,      \* agentcore_jobs, by id
  mode,      \* per process: "pg", or "mem" when init_schema failed
  fallback,  \* per process: JobQueue._fallback
  pc,        \* per process: where run_worker is
  holds,     \* per process: id of the job it works on, NoJob if none
  hbOn,      \* per process: is the heartbeat task of that job alive
  beat,      \* per process: ticks until the next heartbeat is due
  final,     \* per process: what fail() read, attempts >= max_attempts
  stalled,   \* processes that are paused
  crashes, lapses, retries

tableVars == <<rows>>
loopVars == <<pc, holds, hbOn, beat, final>>
faultVars == <<crashes, lapses>>
vars == <<rows, mode, fallback, pc, holds, hbOn, beat, final, stalled,
          crashes, lapses, retries>>

NoJob == 0
JobIds == 1..MaxJobs
PCs == {"new", "idle", "claiming", "running", "rejecting", "marking",
        "draining", "stopped"}
Busy == {"claiming", "running", "rejecting", "marking"}

TypeOK ==
  /\ rows \in [JobIds -> Row]
  /\ mode \in [Workers -> {"pg", "mem"}]
  /\ fallback \in [Workers -> Seq(Requests)]
  /\ \A w \in Workers : Len(fallback[w]) <= FallbackMax
  /\ pc \in [Workers -> PCs]
  /\ holds \in [Workers -> JobIds \union {NoJob}]
  /\ \A w \in Workers : pc[w] \in Busy => holds[w] \in JobIds
  /\ hbOn \in [Workers -> BOOLEAN]
  /\ beat \in [Workers -> 0..HbInterval]
  /\ final \in [Workers -> BOOLEAN]
  /\ stalled \in SUBSET Workers
  /\ crashes \in 0..MaxCrashes
  /\ lapses \in 0..MaxLapses
  /\ retries \in 0..MaxRetries

Init ==
  /\ rows = [j \in JobIds |-> FreeRow]
  /\ mode = [w \in Workers |-> "pg"]
  /\ fallback = [w \in Workers |-> <<>>]
  /\ pc = [w \in Workers |-> "new"]
  /\ holds = [w \in Workers |-> NoJob]
  /\ hbOn = [w \in Workers |-> FALSE]
  /\ beat = [w \in Workers |-> 0]
  /\ final = [w \in Workers |-> FALSE]
  /\ stalled = {}
  /\ crashes = 0 /\ lapses = 0 /\ retries = 0

-----------------------------------------------------------------------------
(* Helpers.                                                                *)

(* The handler runs, or fail() is between its SELECT and its UPDATE.       *)
Executing(w) == pc[w] \in {"running", "rejecting", "marking"}

(* The event loop answers HTTP requests unless a statement blocks it.      *)
Serving(w) == pc[w] \in {"idle", "running", "draining"} /\ w \notin stalled

(* The claim's FOR UPDATE lock, held until its statement commits.          *)
RowLocked(j) == \E w \in Workers : pc[w] = "claiming" /\ holds[w] = j

RunningOf(k) == Cardinality({j \in JobIds : HasLease(rows[j]) /\ rows[j].req.kind = k})

(* GROUP BY yields no group for a kind that has no running row, so a cap   *)
(* of 0 excludes nothing until one row runs.                               *)
Capped(k) ==
  k \in DOMAIN KindLimits /\ RunningOf(k) >= 1 /\ RunningOf(k) >= KindLimits[k]

InScope(w, j) == WorkerProject[w] \in {AnyProject, rows[j].req.project}

ClaimableBy(w) ==
  {j \in JobIds : Ready(rows[j]) /\ InScope(w, j) /\ ~Capped(rows[j].req.kind)
                  /\ ~RowLocked(j)}

(* A statement that raises is logged and nothing else.  A claim that       *)
(* raises is no step: nothing was claimed, and the next poll tries again.  *)
Lapse == lapses < MaxLapses /\ lapses' = lapses + 1

-----------------------------------------------------------------------------
(* Processes start, pause, stop.                                           *)

Start(w) ==
  /\ pc[w] = "new"
  /\ pc' = [pc EXCEPT ![w] = "idle"]
  /\ \/ UNCHANGED <<mode, lapses>>
     \/ Lapse /\ mode' = [mode EXCEPT ![w] = "mem"]
  /\ UNCHANGED <<rows, fallback, holds, hbOn, beat, final, stalled, crashes, retries>>

Stall(w) ==
  /\ Executing(w) /\ w \notin stalled
  /\ Lapse
  /\ stalled' = stalled \union {w}
  /\ UNCHANGED <<rows, mode, fallback, loopVars, crashes, retries>>

Resume(w) ==
  /\ w \in stalled
  /\ stalled' = stalled \ {w}
  /\ UNCHANGED <<rows, mode, fallback, loopVars, faultVars, retries>>

(* Nothing is written on the way down: worker.cancel() raises              *)
(* CancelledError through the handler, past `except Exception'.            *)
Crash(w) ==
  /\ pc[w] \notin {"new", "stopped"}
  /\ crashes < MaxCrashes
  /\ crashes' = crashes + 1
  /\ pc' = [pc EXCEPT ![w] = "stopped"]
  /\ holds' = [holds EXCEPT ![w] = NoJob]
  /\ hbOn' = [hbOn EXCEPT ![w] = FALSE]
  /\ fallback' = [fallback EXCEPT ![w] = <<>>]
  /\ stalled' = stalled \ {w}
  /\ UNCHANGED <<rows, mode, beat, final, lapses, retries>>

-----------------------------------------------------------------------------
(* Producers.                                                              *)

(* A duplicate key changes nothing: ON CONFLICT returns the row's id.      *)
Enqueue(w, r) ==
  /\ Serving(w) /\ mode[w] = "pg"
  /\ \A j \in JobIds : ~Conflicts(rows[j], r)
  /\ \E j \in JobIds :
       /\ rows[j].status = "free"
       /\ \A i \in JobIds : i < j => rows[i].status # "free"
       /\ rows' = [rows EXCEPT ![j] = Inserted(r)]
  /\ UNCHANGED <<mode, fallback, loopVars, stalled, faultVars, retries>>

\* variant: the list is never cut
Untrimmed(s) == s

(* The list keeps its newest FallbackMax jobs.                             *)
Trimmed(s) ==
  IF Len(s) > FallbackMax THEN SubSeq(s, Len(s) - FallbackMax + 1, Len(s)) ELSE s

(* _enqueue_mem: the whole queue in "mem" mode, and where enqueue() puts a *)
(* job when the INSERT raised.                                             *)
Stash(w, r) ==
  /\ Serving(w)
  /\ \/ mode[w] = "mem" /\ UNCHANGED lapses
     \/ mode[w] = "pg" /\ Lapse
  /\ fallback' = [fallback EXCEPT ![w] = Trimmed(Append(@, r))]
  /\ UNCHANGED <<rows, mode, loopVars, stalled, crashes, retries>>

-----------------------------------------------------------------------------
(* The worker loop.                                                        *)

(* The CTE of _claim_pg: pick the first ready row that no other claim has  *)
(* locked and lock it, on what is committed now.                           *)
ClaimSelect(w) ==
  /\ pc[w] = "idle" /\ mode[w] = "pg"
  /\ \E j \in ClaimableBy(w) :
       /\ \A i \in ClaimableBy(w) : Precedes(rows, j, i)
       /\ holds' = [holds EXCEPT ![w] = j]
  /\ pc' = [pc EXCEPT ![w] = "claiming"]
  /\ UNCHANGED <<rows, mode, fallback, hbOn, beat, final, stalled, faultVars, retries>>

\* variant: the heartbeat task is never started
ClaimCommitUnbeaten(w) ==
  LET j == holds[w]
  IN /\ pc[w] = "claiming"
     /\ rows' = [rows EXCEPT ![j] = Claimed(@, w)]
     /\ pc' = [pc EXCEPT ![w] =
                 IF rows[j].req.kind \in HandledKinds THEN "running" ELSE "rejecting"]
     /\ UNCHANGED <<mode, fallback, holds, hbOn, beat, final, stalled, faultVars, retries>>

(* The UPDATE of the same statement commits; run_worker looks the handler  *)
(* up and starts the heartbeat only if there is one.                       *)
ClaimCommit(w) ==
  LET j == holds[w]
      handled == rows[j].req.kind \in HandledKinds
  IN /\ pc[w] = "claiming"
     /\ rows' = [rows EXCEPT ![j] = Claimed(@, w)]
     /\ pc' = [pc EXCEPT ![w] = IF handled THEN "running" ELSE "rejecting"]
     /\ hbOn' = [hbOn EXCEPT ![w] = handled]
     /\ beat' = [beat EXCEPT ![w] = HbInterval]
     /\ UNCHANGED <<mode, fallback, holds, final, stalled, faultVars, retries>>

(* _heartbeat_loop: one beat.  It ends for good when the lease was not     *)
(* extended, whether the row has another owner or the call failed.         *)
Heartbeat(w) ==
  LET j == holds[w]
  IN /\ pc[w] = "running" /\ hbOn[w] /\ beat[w] = 0 /\ w \notin stalled
     /\ \/ /\ ~RowLocked(j) /\ CanExtend(rows[j], w)
           /\ rows' = [rows EXCEPT ![j] = Extended(@)]
           /\ beat' = [beat EXCEPT ![w] = HbInterval]
           /\ UNCHANGED <<hbOn, lapses>>
        \/ /\ ~RowLocked(j) /\ ~CanExtend(rows[j], w)
           /\ hbOn' = [hbOn EXCEPT ![w] = FALSE]
           /\ UNCHANGED <<rows, beat, lapses>>
        \/ /\ Lapse
           /\ hbOn' = [hbOn EXCEPT ![w] = FALSE]
           /\ UNCHANGED <<rows, beat>>
     /\ UNCHANGED <<mode, fallback, pc, holds, final, stalled, crashes, retries>>

BackToIdle(w) ==
  /\ pc' = [pc EXCEPT ![w] = "idle"]
  /\ holds' = [holds EXCEPT ![w] = NoJob]
  /\ hbOn' = [hbOn EXCEPT ![w] = FALSE]

(* The handler returned: complete(job.id), whose errors are suppressed.    *)
Complete(w) ==
  LET j == holds[w]
  IN /\ pc[w] = "running" /\ w \notin stalled
     /\ \/ ~RowLocked(j) /\ rows' = [rows EXCEPT ![j] = Completed(@)] /\ UNCHANGED lapses
        \/ Lapse /\ UNCHANGED rows
     /\ BackToIdle(w)
     /\ UNCHANGED <<mode, fallback, beat, final, stalled, crashes, retries>>

(* The handler raised, or there is none: fail() reads the row.  A row that *)
(* is gone, or an error, ends it.                                          *)
FailSelect(w) ==
  LET j == holds[w]
  IN /\ pc[w] \in {"running", "rejecting"} /\ w \notin stalled
     /\ \/ /\ rows[j].status # "deleted"
           /\ pc' = [pc EXCEPT ![w] = "marking"]
           /\ final' = [final EXCEPT ![w] = Exhausted(rows[j])]
           /\ UNCHANGED <<holds, hbOn, lapses>>
        \/ /\ rows[j].status = "deleted"
           /\ BackToIdle(w)
           /\ UNCHANGED <<final, lapses>>
        \/ Lapse /\ BackToIdle(w) /\ UNCHANGED final
     /\ UNCHANGED <<rows, mode, fallback, beat, stalled, crashes, retries>>

(* Its second statement (the connection is in autocommit): dead-letter the *)
(* job or put it back, as the SELECT decided.                              *)
FailUpdate(w) ==
  LET j == holds[w]
  IN /\ pc[w] = "marking" /\ w \notin stalled
     /\ \/ ~RowLocked(j) /\ rows' = [rows EXCEPT ![j] = Failed(@, final[w])]
           /\ UNCHANGED lapses
        \/ Lapse /\ UNCHANGED rows
     /\ BackToIdle(w)
     /\ UNCHANGED <<mode, fallback, beat, final, stalled, crashes, retries>>

(* _claim_mem pops; complete() and fail() do nothing in this mode, so the  *)
(* job is gone whatever its handler does.                                  *)
ClaimMem(w) ==
  /\ pc[w] = "idle" /\ mode[w] = "mem" /\ fallback[w] # <<>>
  /\ fallback' = [fallback EXCEPT ![w] = Tail(@)]
  /\ pc' = [pc EXCEPT ![w] = "draining"]
  /\ UNCHANGED <<rows, mode, holds, hbOn, beat, final, stalled, faultVars, retries>>

FinishMem(w) ==
  /\ pc[w] = "draining"
  /\ pc' = [pc EXCEPT ![w] = "idle"]
  /\ UNCHANGED <<rows, mode, fallback, holds, hbOn, beat, final, stalled, faultVars,
                 retries>>

-----------------------------------------------------------------------------
(* Operators and the cleanup loop, through any process that is serving.    *)

PgServing == \E w \in Workers : Serving(w) /\ mode[w] = "pg"

(* One UPDATE over all matching rows; it waits for rows a claim has locked. *)
CancelChain(p, c) ==
  LET hit == {j \in JobIds : Cancellable(rows[j], p, c)}
  IN /\ PgServing
     /\ hit # {}
     /\ \A j \in hit : ~RowLocked(j)
     /\ rows' = [j \in JobIds |-> IF j \in hit THEN Cancelled(rows[j]) ELSE rows[j]]
     /\ UNCHANGED <<mode, fallback, loopVars, stalled, faultVars, retries>>

RetryDeadLetter(j) ==
  /\ PgServing
  /\ rows[j].status = "dead_letter"
  /\ retries < MaxRetries
  /\ retries' = retries + 1
  /\ rows' = [rows EXCEPT ![j] = Revived(@)]
  /\ UNCHANGED <<mode, fallback, loopVars, stalled, faultVars>>

Delete(gone) ==
  /\ gone # {}
  /\ rows' = [j \in JobIds |-> IF j \in gone THEN Deleted(rows[j]) ELSE rows[j]]
  /\ UNCHANGED <<mode, fallback, loopVars, stalled, faultVars, retries>>

(* Dead letters of one project: all of them, or those finished before the  *)
(* cutoff; finished_at is not kept, so any of them may be the old ones.    *)
PurgeDeadLetter(p) ==
  /\ PgServing
  /\ \E gone \in SUBSET {j \in JobIds : rows[j].status = "dead_letter"
                                        /\ rows[j].req.project = p} : Delete(gone)

(* `done' rows past retention, of every project.                           *)
Cleanup ==
  /\ PgServing
  /\ \E gone \in SUBSET {j \in JobIds : rows[j].status = "done"} : Delete(gone)

-----------------------------------------------------------------------------
(* What a process that is not stalled does before the clock moves.         *)
Urgent(w) ==
  /\ w \notin stalled
  /\ \/ pc[w] \in {"claiming", "rejecting", "marking"}
     \/ pc[w] = "running" /\ hbOn[w] /\ beat[w] = 0

Tick ==
  /\ \A w \in Workers : ~Urgent(w)
  /\ rows' = [j \in JobIds |-> Aged(rows[j])]
  /\ beat' = [w \in Workers |-> IF pc[w] = "running" /\ beat[w] > 0
                                THEN beat[w] - 1 ELSE beat[w]]
  /\ <<rows', beat'>> # <<rows, beat>>
  /\ UNCHANGED <<mode, fallback, pc, holds, hbOn, final, stalled, faultVars, retries>>

Projects == {r.project : r \in Requests}
Chains == {r.chain : r \in Requests} \ {NoChain}

Worker(w) ==
  \/ ClaimSelect(w) \/ ClaimCommit(w) \/ Heartbeat(w)
  \/ Complete(w) \/ FailSelect(w) \/ FailUpdate(w)
  \/ ClaimMem(w) \/ FinishMem(w)

Environment(w) ==
  \/ Start(w) \/ Stall(w) \/ Resume(w) \/ Crash(w)
  \/ \E r \in Requests : Enqueue(w, r) \/ Stash(w, r)

Operator ==
  \/ \E p \in Projects, c \in Chains : CancelChain(p, c)
  \/ \E j \in JobIds : RetryDeadLetter(j)
  \/ \E p \in Projects : PurgeDeadLetter(p)
  \/ Cleanup

Next ==
  \/ \E w \in Workers : Worker(w) \/ Environment(w)
  \/ Operator
  \/ Tick

SafetySpec == Init /\ [][Next]_vars

(* The event loop of a live process keeps running: it polls, commits,      *)
(* sends the heartbeats that are due, and a handler comes back (every hop  *)
(* has an SLA timeout).  A pause ends and the clock moves.  Nothing makes  *)
(* a client enqueue, an operator act or a fault happen.                    *)
Fairness ==
  /\ WF_vars(Tick)
  /\ \A w \in Workers :
       /\ WF_vars(Start(w))
       /\ WF_vars(Resume(w))
       /\ WF_vars(ClaimSelect(w))
       /\ WF_vars(ClaimCommit(w))
       /\ WF_vars(Heartbeat(w))
       /\ WF_vars(Complete(w) \/ FailSelect(w))
       /\ WF_vars(FailUpdate(w))
       /\ WF_vars(ClaimMem(w))
       /\ WF_vars(FinishMem(w))

Spec == SafetySpec /\ Fairness

-----------------------------------------------------------------------------
(* Properties.                                                             *)

(* While nothing lapsed, crashes or not, the row of a job whose handler    *)
(* runs is leased to that worker, and its next heartbeat falls before the  *)
(* lease ends.  Only a cancellation takes the row away from it.            *)
KeepsLease(w) ==
  LET row == rows[holds[w]]
  IN \/ row.status = "cancelled"
     \/ /\ row.status = "running" /\ row.owner = w /\ row.lease > 0
        /\ pc[w] = "running" => hbOn[w] /\ beat[w] < row.lease

LeaseOutlivesHandler ==
  lapses = 0 => \A w \in Workers : Executing(w) => KeepsLease(w)

(* While nothing lapsed no two live processes run the same job: a job is   *)
(* taken from a process only once that process is dead (run_worker:        *)
(* handlers can run longer than lock_seconds without a worker stealing     *)
(* the job).                                                               *)
ExclusiveExecution ==
  lapses = 0 =>
    \A v, w \in Workers :
      v # w /\ Executing(v) /\ Executing(w) => holds[v] # holds[w]

(* Attempts are charged at the claim and spent by fail(), so every claim   *)
(* past max_attempts is paid for by a crash or a lapse.                    *)
AttemptsBounded ==
  \A j \in JobIds : rows[j].attempts <= rows[j].req.max + crashes + lapses

(* fail() decides between its SELECT and its UPDATE.  While nothing lapsed *)
(* no job is given up before its last attempt.                             *)
GivenUpOnlyAfterAllAttempts ==
  lapses = 0 =>
    \A j \in JobIds : rows[j].status = "dead_letter" => Exhausted(rows[j])

(* complete() and fail() look at no status.  While nothing lapsed they     *)
(* still never overwrite a finished row: done and dead-lettered jobs only  *)
(* leave by deletion, dead letters also by the operator's retry.           *)
RowStaysFinished(j) ==
  lapses = 0 /\ rows[j].status \in {"done", "dead_letter"} =>
    \/ rows'[j].status \in {rows[j].status, "deleted"}
    \/ rows[j].status = "dead_letter" /\ retries' = retries + 1

FinishedRowsStay == [][\A j \in JobIds : RowStaysFinished(j)]_vars

(* What makes the three inductive: a claim in progress still has its row   *)
(* ready and to itself, a paused process is one that executes, and what    *)
(* fail() read stays true until it writes.                                 *)
ClaimsAreSound ==
  /\ \A w \in Workers : pc[w] = "claiming" => Ready(rows[holds[w]])
  /\ \A v, w \in Workers :
       v # w /\ pc[v] = "claiming" /\ pc[w] = "claiming" => holds[v] # holds[w]

PausesAreLapses ==
  /\ \A w \in stalled : Executing(w)
  /\ lapses = 0 => stalled = {}

VerdictIsCurrent ==
  lapses = 0 =>
    \A w \in Workers : pc[w] = "marking" /\ final[w] => Exhausted(rows[holds[w]])

QueueInvariant ==
  /\ TypeOK
  /\ ClaimsAreSound
  /\ PausesAreLapses
  /\ LeaseOutlivesHandler
  /\ ExclusiveExecution
  /\ VerdictIsCurrent
  /\ GivenUpOnlyAfterAllAttempts

(* A queued job, or one whose worker died, is settled in the end, as long  *)
(* as its project keeps a process whose loop reads the table: the expired  *)
(* lease is reclaimed, retries run out, and a lost complete() is redone.   *)
EveryJobSettles ==
  \A j \in JobIds :
    rows[j].status \in Live ~>
      \/ rows[j].status \notin Live
      \/ \A w \in Workers : InScope(w, j) => pc[w] = "stopped" \/ mode[w] = "mem"

(* _heartbeat_loop's docstring: after a peer took the job, "the handler    *)
(* still finishes, but its complete() will no-op cleanly".                 *)
LostJobCompletesNothing ==
  [][\A w \in Workers :
       LET row == rows[holds[w]]
       IN /\ pc[w] = "running" /\ pc'[w] = "idle"
          /\ row.status = "running" /\ row.owner # w
          => rows' = rows]_vars
=============================================================================
