---------------------------- MODULE Idempotency ----------------------------
(***************************************************************************)
(* The idempotency store (state/idempotency.py) and the handlers that use  *)
(* it for one scope and project: POST /run, /handoff and /signal look the  *)
(* caller's key up, execute on a miss, and store the response.  The        *)
(* processes share the Postgres table; each has its own bounded dict for   *)
(* when Postgres cannot be reached.                                        *)
(*                                                                         *)
(* A store maps the keys it has a response for to what is left of its TTL. *)
(* Within a process nothing runs between a lookup and the start of its     *)
(* execution, nor between storing and answering: these statements block    *)
(* its event loop.  Executions themselves interleave.                      *)
(***************************************************************************)
EXTENDS Integers, FiniteSets, TLC

CONSTANTS
  Procs, NoProc,
  Keys,         \* values of the Idempotency-Key header
  NoKey,
  MaxCalls,     \* bound: calls that arrive
  TtlTicks,     \* ttl_seconds (24 h), in ticks
  MemMax,       \* _mem_max (4096)
  MaxCrashes,   \* bound: crashes injected
  MaxLapses     \* bound: failed Postgres calls injected, all swallowed

ASSUME CallsAssumption ==
  /\ NoProc \notin Procs /\ NoKey \notin Keys
  /\ MaxCalls \in Nat /\ TtlTicks \in Nat \ {0} /\ MemMax \in Nat \ {0}
  /\ MaxCrashes \in Nat /\ MaxLapses \in Nat

VARIABLES
  pg,          \* agentcore_idempotency
  mem,         \* per process: _mem
  persistent,  \* per process: did the probe of __post_init__ succeed
  alive,       \* the processes that run
  calls,       \* the calls, in the order they arrive
  done,        \* per process and key: what is left of the TTL of its last response
  split,       \* did a process ever start without Postgres
  overlapped,  \* did two executions of a key ever overlap
  crashes, misreads, stashes, evictions

vars == <<pg, mem, persistent, alive, calls, done, split, overlapped, crashes, misreads,
          stashes, evictions>>
callVars == <<calls, done, overlapped>>
faultVars == <<split, crashes, misreads, stashes, evictions>>

Calls == 1..MaxCalls
Stores == UNION {[K -> 0..TtlTicks] : K \in SUBSET Keys}
Empty == [k \in {} |-> 0]

\* again: it executes what was answered within the TTL, by its process or another,
\* or it is answered with a response older than its process last gave
Call == [pc : {"new", "executing", "answered", "failed"}, at : Procs \union {NoProc},
         key : Keys \union {NoKey}, again : {"no", "own", "other", "stale"}]
NewCall == [pc |-> "new", at |-> NoProc, key |-> NoKey, again |-> "no"]

\* a call that no process executes any more
Ended(call, how) == [pc |-> how, at |-> NoProc, key |-> call.key, again |-> call.again]

lapses == misreads + stashes

TypeOK ==
  /\ pg \in Stores
  /\ mem \in [Procs -> Stores]
  /\ \A p \in Procs : Cardinality(DOMAIN mem[p]) <= MemMax    \* _put_mem
  /\ persistent \in [Procs -> BOOLEAN]
  /\ alive \in SUBSET Procs
  /\ calls \in [Calls -> Call]
  /\ done \in [Procs -> [Keys -> 0..TtlTicks]]
  /\ split \in BOOLEAN /\ overlapped \in BOOLEAN
  /\ crashes \in 0..MaxCrashes
  /\ misreads \in 0..MaxLapses /\ stashes \in 0..MaxLapses
  /\ evictions \in 0..MaxCalls

Init ==
  /\ pg = Empty
  /\ mem = [p \in Procs |-> Empty]
  /\ persistent = [p \in Procs |-> TRUE]
  /\ alive = {}
  /\ calls = [c \in Calls |-> NewCall]
  /\ done = [p \in Procs |-> [k \in Keys |-> 0]]
  /\ split = FALSE /\ overlapped = FALSE
  /\ crashes = 0 /\ misreads = 0 /\ stashes = 0 /\ evictions = 0

Misread == lapses < MaxLapses /\ misreads' = misreads + 1
Stashing == lapses < MaxLapses /\ stashes' = stashes + 1

-----------------------------------------------------------------------------
(* The store.                                                              *)

Has(store, k) == k \in DOMAIN store /\ store[k] > 0

Left(store, k) == IF k \in DOMAIN store THEN store[k] ELSE 0

Without(store, k) == [i \in DOMAIN store \ {k} |-> store[i]]

Swept(store) == [k \in {i \in DOMAIN store : Has(store, i)} |-> store[k]]

\* variant: ON CONFLICT DO NOTHING
HoldingFirst(store, k) == store @@ (k :> TtlTicks)

Holding(store, k) == [i \in DOMAIN store \union {k} |-> IF i = k THEN TtlTicks ELSE store[i]]

\* variant: off by one
FullLate(store) == Cardinality(DOMAIN store) > MemMax

Full(store) == Cardinality(DOMAIN store) >= MemMax

(* _put_mem makes room, for an update too: sweep when full, and if that    *)
(* does not help drop the entry that expires first.  Ties fall either way, *)
(* a tick is coarser than its clock.                                       *)
Roomy(store) == IF Full(store) THEN Swept(store) ELSE store

Victims(store) == {k \in DOMAIN store : \A i \in DOMAIN store : store[k] <= store[i]}

PutMem(p, k) ==
  LET room == Roomy(mem[p])
  IN \/ /\ ~Full(room)
        /\ mem' = [mem EXCEPT ![p] = Holding(room, k)]
        /\ UNCHANGED evictions
     \/ /\ Full(room)
        /\ \E v \in Victims(room) :
             /\ mem' = [mem EXCEPT ![p] = Holding(Without(room, v), k)]
             /\ evictions' = IF v = k THEN evictions ELSE evictions + 1

-----------------------------------------------------------------------------
(* Processes.  A restarted one probes Postgres again, its dict is empty.   *)

Start(p) ==
  /\ p \notin alive
  /\ alive' = alive \union {p}
  /\ \/ persistent' = [persistent EXCEPT ![p] = TRUE] /\ UNCHANGED <<split, misreads>>
     \/ persistent' = [persistent EXCEPT ![p] = FALSE] /\ split' = TRUE /\ Misread
  /\ UNCHANGED <<pg, mem, callVars, crashes, stashes, evictions>>

Crash(p) ==
  /\ p \in alive /\ crashes < MaxCrashes
  /\ crashes' = crashes + 1
  /\ alive' = alive \ {p}
  /\ mem' = [mem EXCEPT ![p] = Empty]
  /\ calls' = [c \in Calls |-> IF calls[c].at = p THEN Ended(calls[c], "failed")
                                                 ELSE calls[c]]
  /\ UNCHANGED <<pg, persistent, done, split, overlapped, misreads, stashes, evictions>>

-----------------------------------------------------------------------------
(* Calls.                                                                  *)

Executing(k) == {c \in Calls : calls[c].pc = "executing" /\ calls[c].key = k}

(* Does an execution that begins now repeat one?  Not if it overlaps one.  *)
Again(p, k) ==
  IF Executing(k) # {} THEN "no"
  ELSE IF done[p][k] > 0 THEN "own"
  ELSE IF \E q \in Procs : done[q][k] > 0 THEN "other" ELSE "no"

\* variant: no look in memory after a miss in Postgres
GetOnce(p, k, reply) ==
  /\ \/ persistent[p] /\ reply = Left(pg, k) /\ UNCHANGED misreads
     \/ persistent[p] /\ reply = 0 /\ Misread
     \/ ~persistent[p] /\ reply = Left(mem[p], k) /\ UNCHANGED misreads
  /\ UNCHANGED mem

(* get(): a response in Postgres; when it has none, or fails, in memory,   *)
(* where an expired one is dropped.  A reply is what is left of its TTL.   *)
Get(p, k, reply) ==
  \/ persistent[p] /\ Has(pg, k) /\ reply = pg[k] /\ UNCHANGED <<mem, misreads>>
  \/ /\ reply = Left(mem[p], k)
     /\ mem' = IF reply > 0 THEN mem ELSE [mem EXCEPT ![p] = Without(@, k)]
     /\ IF persistent[p] /\ Has(pg, k) THEN Misread ELSE UNCHANGED misreads

(* A hit is the answer, a miss starts the execution.                       *)
Arrive(c, p, k) ==
  /\ p \in alive
  /\ calls[c].pc = "new" /\ \A d \in Calls : d < c => calls[d].pc # "new"
  /\ \E reply \in 0..TtlTicks :
       /\ Get(p, k, reply)
       /\ calls' = [calls EXCEPT ![c] =
            IF reply > 0
              THEN [pc |-> "answered", at |-> NoProc, key |-> k,
                    again |-> IF reply < done[p][k] THEN "stale" ELSE "no"]
              ELSE [pc |-> "executing", at |-> p, key |-> k, again |-> Again(p, k)]]
       /\ overlapped' = (overlapped \/ (reply = 0 /\ Executing(k) # {}))
  /\ UNCHANGED <<pg, persistent, alive, done, split, crashes, stashes, evictions>>

(* It returned: put() the response, in memory if Postgres is out or fails, *)
(* and answer.                                                             *)
Finish(c) ==
  LET p == calls[c].at
      k == calls[c].key
  IN /\ calls[c].pc = "executing"
     /\ calls' = [calls EXCEPT ![c] = Ended(@, "answered")]
     /\ done' = [done EXCEPT ![p][k] = TtlTicks]
     /\ \/ /\ persistent[p]
           /\ pg' = Holding(pg, k)
           /\ UNCHANGED <<mem, stashes, evictions>>
        \/ /\ PutMem(p, k)
           /\ IF persistent[p] THEN Stashing ELSE UNCHANGED stashes
           /\ UNCHANGED pg
     /\ UNCHANGED <<persistent, alive, split, overlapped, crashes, misreads>>

(* It raised or timed out: an HTTP error, nothing is stored.               *)
Fail(c) ==
  /\ calls[c].pc = "executing"
  /\ calls' = [calls EXCEPT ![c] = Ended(@, "failed")]
  /\ UNCHANGED <<pg, mem, persistent, alive, done, overlapped, faultVars>>

-----------------------------------------------------------------------------
(* The cleanup loop sweeps the table, or the dict where there is no table. *)
Cleanup(p) ==
  /\ p \in alive
  /\ IF persistent[p] THEN pg' = Swept(pg) /\ UNCHANGED mem
     ELSE mem' = [mem EXCEPT ![p] = Swept(@)] /\ UNCHANGED pg
  /\ <<pg', mem'>> # <<pg, mem>>
  /\ UNCHANGED <<persistent, alive, callVars, faultVars>>

Older(ttls) == [k \in DOMAIN ttls |-> IF ttls[k] > 0 THEN ttls[k] - 1 ELSE 0]

Tick ==
  /\ pg' = Older(pg)
  /\ mem' = [p \in Procs |-> Older(mem[p])]
  /\ done' = [p \in Procs |-> Older(done[p])]
  /\ <<pg', mem', done'>> # <<pg, mem, done>>
  /\ UNCHANGED <<persistent, alive, calls, overlapped, faultVars>>

Next ==
  \/ \E p \in Procs : Start(p) \/ Crash(p) \/ Cleanup(p)
  \/ \E c \in Calls : \/ \E p \in Procs, k \in Keys : Arrive(c, p, k)
                      \/ Finish(c) \/ Fail(c)
  \/ Tick

Spec == Init /\ [][Next]_vars

-----------------------------------------------------------------------------
(* Properties.                                                             *)

Repeats(k, whose) ==
  Cardinality({c \in Calls : calls[c].key = k /\ calls[c].pc = "answered"
                             /\ calls[c].again \in whose})

(* A process does not execute again what it answered within the TTL, even  *)
(* if it could not store the answer in Postgres: put-then-get survives a   *)
(* database that flaps (get).  Each repetition is paid for by a lookup     *)
(* that failed, a crash or an eviction; overlapping calls are not counted. *)
OwnRepeatsPaidFor ==
  \A k \in Keys : Repeats(k, {"own"}) <= misreads + crashes + evictions

(* Nor does another process execute it, unless one works without Postgres: *)
(* then each repetition is paid for by a lookup or a store that failed.    *)
(* Crashes and evictions cost none, a stored answer is in the table.       *)
SharedRepeatsPaidFor ==
  ~split => \A k \in Keys : Repeats(k, {"own", "other"}) <= lapses

(* A process answers with a response older than the last it gave only if   *)
(* that one could not be stored, and was executed beside another of its    *)
(* key or after a lookup that failed: then the older row in Postgres masks *)
(* the newer response in memory, which get() reads second.  A process that *)
(* worked without Postgres left no row at all.                             *)
StaleRepliesExplained ==
  (\E c \in Calls : calls[c].again = "stale") =>
    split \/ (stashes > 0 /\ (misreads > 0 \/ overlapped))

(* The module's docstring: the same Idempotency-Key header arriving twice  *)
(* "must NOT re-execute the chain".  Not even with the database up and no  *)
(* process ever down may two executions of a key be in flight.             *)
SingleExecution ==
  lapses + crashes = 0 => \A k \in Keys : Cardinality(Executing(k)) <= 1
=============================================================================
