---------------------------- MODULE DurableChain ----------------------------
(***************************************************************************)
(* Durable chains (orchestrator/app.py): POST /run with durable enqueues   *)
(* hop 0 as a runtime.chain.advance job; a worker that claims a hop looks  *)
(* at the chain's slot of the idempotency store, runs the hop, and either  *)
(* enqueues the successor or stores the final record in the slot.  DELETE  *)
(* /chains/{id} stamps the slot and cancels the rows.  Several processes   *)
(* share the tables, so a handler's statements interleave with those of    *)
(* another process; within one process there is no await between them.     *)
(*                                                                         *)
(* The queue is JobTable's, without its clock: JobQueue shows that only a  *)
(* process that died, or lapsed, loses a lease it works under, so a lease  *)
(* expires here when its owner is gone.  The database itself is taken to   *)
(* be reliable; JobQueue injects its failures.                             *)
(***************************************************************************)
EXTENDS Integers, Sequences

CONSTANTS
  Chains, Workers, NoWorker, NoKey, NoChain,
  MaxHops,      \* RunRequest.max_hops
  HopKinds,     \* what a hop's output may hold, a subset of AllHopKinds
  MaxCrashes    \* bound: crashes injected

\* files touched; a failed QA verdict; neither
AllHopKinds == {"patch", "qa_failed", "plain"}

ASSUME ChainAssumption ==
  /\ MaxHops \in Nat \ {0} /\ MaxCrashes \in Nat
  /\ HopKinds \subseteq AllHopKinds
  /\ NoWorker \notin Workers /\ NoChain \notin Chains

Steps == 0..(MaxHops - 1)

\* the job of step s of chain c; its key is f"{chain_id}:{s}"
HopRequest(c, s) ==
  [project |-> "p", kind |-> "runtime.chain.advance", key |-> <<c, s>>,
   chain |-> c, priority |-> 0, max |-> 3]

INSTANCE JobTable WITH
  Requests <- {HopRequest(c, s) : c \in Chains, s \in Steps},
  LockTicks <- 1, RetryTicks <- 0

VARIABLES
  rows,      \* the job of each step of each chain
  carried,   \* payload["hops"] of that job: the outputs before it
  slot,      \* the idempotency store's entry of scope "chain"
  wiki,      \* chains with a wiki.refresh.incremental job
  pc,        \* per worker
  at,        \* per worker: the job <<c, s>> it holds
  deleting,  \* per chain: where a DELETE /chains/{id} is
  crashes

vars == <<rows, carried, slot, wiki, pc, at, deleting, crashes>>

Jobs == Chains \X Steps
NoJob == <<NoChain, 0>>
Hop == [run : Nat, kind : HopKinds]
NoRecord == [status |-> "none", hops |-> <<>>]
Record == [status : {"none", "done", "failed", "cancelled"}, hops : Seq(Hop)]
CancelRecord == [status |-> "cancelled", hops |-> <<>>]

TypeOK ==
  /\ rows \in [Jobs -> Row]
  /\ carried \in [Jobs -> Seq(Hop)]
  /\ slot \in [Chains -> Record]
  /\ wiki \in SUBSET Chains
  /\ pc \in [Workers -> {"idle", "check", "executing", "wiki", "returning", "stopped"}]
  /\ at \in [Workers -> Jobs \union {NoJob}]
  /\ deleting \in [Chains -> {"none", "stamp", "rows"}]
  /\ crashes \in 0..MaxCrashes

Init ==
  /\ rows = [j \in Jobs |-> RowOf(HopRequest(j[1], j[2]), "free", 0, 0, NoWorker, 0)]
  /\ carried = [j \in Jobs |-> <<>>]
  /\ slot = [c \in Chains |-> NoRecord]
  /\ wiki = {}
  /\ pc = [w \in Workers |-> "idle"]
  /\ at = [w \in Workers |-> NoJob]
  /\ deleting = [c \in Chains |-> "none"]
  /\ crashes = 0

Terminal(record) == record.status \in {"cancelled", "failed", "done"}

(* enqueue() with the step's key: the row of an earlier enqueue stays as   *)
(* it is, payload included.                                                *)
EnqueueHop(c, s, hops) ==
  IF rows[<<c, s>>].status = "free"
  THEN /\ rows' = [rows EXCEPT ![<<c, s>>] = Inserted(HopRequest(c, s))]
       /\ carried' = [carried EXCEPT ![<<c, s>>] = hops]
  ELSE UNCHANGED <<rows, carried>>

-----------------------------------------------------------------------------
(* Clients.                                                                *)

(* POST /run.  A repeated POST finds the row and changes nothing.          *)
Submit(c) ==
  /\ rows[<<c, 0>>].status = "free"
  /\ EnqueueHop(c, 0, <<>>)
  /\ UNCHANGED <<slot, wiki, pc, at, deleting, crashes>>

(* DELETE: look at the slot,                                               *)
DeleteCheck(c) ==
  /\ deleting[c] = "none"
  /\ rows[<<c, 0>>].status # "free"
  /\ deleting' = [deleting EXCEPT ![c] =
       IF slot[c].status \in {"done", "failed"} THEN "rows" ELSE "stamp"]
  /\ UNCHANGED <<rows, carried, slot, wiki, pc, at, crashes>>

(* stamp it unless a final record was there,                               *)
DeleteStamp(c) ==
  /\ deleting[c] = "stamp"
  /\ slot' = [slot EXCEPT ![c] = CancelRecord]
  /\ deleting' = [deleting EXCEPT ![c] = "rows"]
  /\ UNCHANGED <<rows, carried, wiki, pc, at, crashes>>

(* and cancel the chain's live rows.                                       *)
DeleteRows(c) ==
  /\ deleting[c] = "rows"
  /\ rows' = [j \in Jobs |-> IF Cancellable(rows[j], "p", c) THEN Cancelled(rows[j])
                                                             ELSE rows[j]]
  /\ deleting' = [deleting EXCEPT ![c] = "none"]
  /\ UNCHANGED <<carried, slot, wiki, pc, at, crashes>>

-----------------------------------------------------------------------------
(* Workers: _runtime_chain_advance between claim() and complete().         *)

Claim(w) ==
  /\ pc[w] = "idle"
  /\ \E j \in Jobs :
       /\ Ready(rows[j])
       /\ rows' = [rows EXCEPT ![j] = Claimed(@, w)]
       /\ at' = [at EXCEPT ![w] = j]
  /\ pc' = [pc EXCEPT ![w] = "check"]
  /\ UNCHANGED <<carried, slot, wiki, deleting, crashes>>

\* variant: the slot is not looked at
CheckSlotBlind(w) ==
  /\ pc[w] = "check"
  /\ pc' = [pc EXCEPT ![w] = "executing"]
  /\ UNCHANGED <<rows, carried, slot, wiki, at, deleting, crashes>>

(* The cooperative cancel: a chain with a final record does no more work.  *)
CheckSlot(w) ==
  /\ pc[w] = "check"
  /\ pc' = [pc EXCEPT ![w] = IF Terminal(slot[at[w][1]]) THEN "returning" ELSE "executing"]
  /\ UNCHANGED <<rows, carried, slot, wiki, at, deleting, crashes>>

\* variants: a status no reader knows; no record; no return before the wiki block
HopRaisesOddly(w) ==
  LET c == at[w][1]
  IN /\ pc[w] = "executing"
     /\ slot' = [slot EXCEPT ![c] = [status |-> "error", hops |-> carried[at[w]]]]
     /\ pc' = [pc EXCEPT ![w] = "returning"]
     /\ UNCHANGED <<rows, carried, wiki, at, deleting, crashes>>

HopRaisesSilently(w) ==
  /\ pc[w] = "executing"
  /\ pc' = [pc EXCEPT ![w] = "returning"]
  /\ UNCHANGED <<rows, carried, slot, wiki, at, deleting, crashes>>

HopRaisesOn(w) ==
  LET c == at[w][1]
  IN /\ pc[w] = "executing"
     /\ slot' = [slot EXCEPT ![c] = [status |-> "failed", hops |-> carried[at[w]]]]
     /\ pc' = [pc EXCEPT ![w] = "wiki"]
     /\ UNCHANGED <<rows, carried, wiki, at, deleting, crashes>>

(* execute_for_project raised: any exception ends the chain as failed, and *)
(* the job with it (complete(), never fail()).                             *)
HopRaises(w) ==
  LET c == at[w][1]
  IN /\ pc[w] = "executing"
     /\ slot' = [slot EXCEPT ![c] = [status |-> "failed", hops |-> carried[at[w]]]]
     /\ pc' = [pc EXCEPT ![w] = "returning"]
     /\ UNCHANGED <<rows, carried, wiki, at, deleting, crashes>>

\* variant: the outputs carried so far are dropped
HopsAlone(w, k) == <<[run |-> rows[at[w]].attempts, kind |-> k]>>

(* The hops after this run of the hop; run tells two runs of one job apart. *)
HopsAfter(w, k) == Append(carried[at[w]], [run |-> rows[at[w]].attempts, kind |-> k])

(* It delegated and hops are left: enqueue the successor.                  *)
HopDelegates(w) ==
  LET c == at[w][1]
      s == at[w][2]
  IN /\ pc[w] = "executing"
     /\ s + 1 < MaxHops
     /\ \E k \in HopKinds : EnqueueHop(c, s + 1, HopsAfter(w, k))
     /\ pc' = [pc EXCEPT ![w] = "returning"]
     /\ UNCHANGED <<slot, wiki, at, deleting, crashes>>

Kinds(hops) == {hops[i].kind : i \in DOMAIN hops}
WantsRefresh(hops) == "patch" \in Kinds(hops) /\ "qa_failed" \notin Kinds(hops)

(* It did not, or this was the last hop: store the final record.           *)
HopFinishes(w) ==
  LET c == at[w][1]
  IN /\ pc[w] = "executing"
     /\ \E k \in HopKinds :
          /\ slot' = [slot EXCEPT ![c] = [status |-> "done", hops |-> HopsAfter(w, k)]]
          /\ pc' = [pc EXCEPT ![w] = IF WantsRefresh(HopsAfter(w, k)) THEN "wiki"
                                                                     ELSE "returning"]
     /\ UNCHANGED <<rows, carried, wiki, at, deleting, crashes>>

(* The wiki job, deduplicated by its key f"chain:{chain_id}".              *)
RefreshWiki(w) ==
  /\ pc[w] = "wiki"
  /\ wiki' = wiki \union {at[w][1]}
  /\ pc' = [pc EXCEPT ![w] = "returning"]
  /\ UNCHANGED <<rows, carried, slot, at, deleting, crashes>>

(* run_worker: the handler returned, complete(job.id).                     *)
Complete(w) ==
  /\ pc[w] = "returning"
  /\ rows' = [rows EXCEPT ![at[w]] = Completed(@)]
  /\ pc' = [pc EXCEPT ![w] = "idle"]
  /\ at' = [at EXCEPT ![w] = NoJob]
  /\ UNCHANGED <<carried, slot, wiki, deleting, crashes>>

-----------------------------------------------------------------------------
(* Processes die, a worker's or the one that answers a DELETE.             *)

CrashAllowed == crashes < MaxCrashes /\ crashes' = crashes + 1

WorkerDies(w) ==
  /\ pc[w] # "stopped"
  /\ CrashAllowed
  /\ pc' = [pc EXCEPT ![w] = "stopped"]
  /\ at' = [at EXCEPT ![w] = NoJob]
  /\ UNCHANGED <<rows, carried, slot, wiki, deleting>>

DeleteDies(c) ==
  /\ deleting[c] # "none"
  /\ CrashAllowed
  /\ deleting' = [deleting EXCEPT ![c] = "none"]
  /\ UNCHANGED <<rows, carried, slot, wiki, pc, at>>

(* No heartbeat comes from a dead process.                                 *)
LeaseExpires(j) ==
  /\ HasLease(rows[j]) /\ pc[rows[j].owner] = "stopped"
  /\ rows' = [rows EXCEPT ![j] = Aged(@)]
  /\ UNCHANGED <<carried, slot, wiki, pc, at, deleting, crashes>>

HandlerEnds(w) == HopRaises(w) \/ HopDelegates(w) \/ HopFinishes(w)

Next ==
  \/ \E c \in Chains : \/ Submit(c)
                      \/ DeleteCheck(c) \/ DeleteStamp(c) \/ DeleteRows(c) \/ DeleteDies(c)
  \/ \E w \in Workers : \/ Claim(w) \/ CheckSlot(w) \/ HandlerEnds(w) \/ RefreshWiki(w)
                       \/ Complete(w) \/ WorkerDies(w)
  \/ \E j \in Jobs : LeaseExpires(j)

(* A worker that lives keeps polling and its statements run; a hop ends,   *)
(* at the latest at its agent's sla_seconds; locked_until passes.          *)
Fairness ==
  /\ \A w \in Workers : /\ WF_vars(Claim(w))
                        /\ WF_vars(CheckSlot(w))
                        /\ WF_vars(HandlerEnds(w))
                        /\ WF_vars(RefreshWiki(w))
                        /\ WF_vars(Complete(w))
  /\ \A j \in Jobs : WF_vars(LeaseExpires(j))

Spec == Init /\ [][Next]_vars /\ Fairness

-----------------------------------------------------------------------------
(* Properties.                                                             *)

(* An execution of the chain is in flight: it passed the check of the slot *)
(* and has not stored its outcome.                                         *)
InFlight(c) == \E w \in Workers : pc[w] = "executing" /\ at[w][1] = c

(* To a client a chain is what ChainPromise says, whatever crashes and is  *)
(* run again: a hop begins only on a chain without a record, DELETE never  *)
(* begins on a final one, and a record nothing in flight can overwrite is  *)
(* final.                                                                  *)
Promise == INSTANCE ChainPromise WITH
  NoAnswer <- NoRecord,
  HopAnswers <- {a \in Record : a.status \in {"done", "failed"}},
  CancelAnswer <- CancelRecord,
  answer <- slot,
  working <- [c \in Chains |-> InFlight(c)],
  cancelling <- [c \in Chains |-> deleting[c] = "stamp"]

KeepsPromise == Promise!PromiseSpec

(* While no process died, a chain runs one hop at a time, although the     *)
(* successor is enqueued before its predecessor's job is completed.        *)
OneHopAtATime ==
  crashes = 0 =>
    \A v, w \in Workers :
      v # w /\ pc[v] = "executing" /\ pc[w] = "executing" => at[v][1] # at[w][1]

(* build_app: "at-most-once hop OUTPUT".  What a hop of the final record   *)
(* says is what the successor's job was given as that hop's output.        *)
OneOutputPerHop ==
  \A c \in Chains, s \in Steps :
    s > 0 /\ rows[<<c, s>>].status # "free" /\ s <= Len(slot[c].hops) =>
      slot[c].hops[s] = carried[<<c, s>>][s]

(* The same, as far as it goes: it holds while no process died.            *)
OneOutputPerHopWithoutCrash == crashes = 0 => OneOutputPerHop

(* The wiki is refreshed from chains that ended cleanly: while no process  *)
(* died, never for one whose record says failed.                           *)
NoRefreshAfterFailure ==
  crashes = 0 => \A c \in wiki : slot[c].status # "failed"

(* A submitted chain gets an answer although a process dies in the middle  *)
(* of a hop: the expired lease is reclaimed (README: durable chains).      *)
ChainSettles ==
  \A c \in Chains : rows[<<c, 0>>].status # "free" ~> Terminal(slot[c])

(* DELETE's comment (app.py:692): a done or failed record is preserved "in *)
(* a race between the last hop's terminal write and a concurrently-        *)
(* arriving DELETE".  DELETE looks before it stamps: another process may   *)
(* store the record in between, and loses it.                              *)
CancelKeepsResults ==
  [][\A c \in Chains :
       slot[c].status \in {"done", "failed"} => slot'[c].status # "cancelled"]_vars

(* DELETE's docstring: an in-flight hop is not interrupted, "but the next  *)
(* hop will not be enqueued".                                              *)
CancelStopsSuccessors ==
  [][\A c \in Chains :
       slot[c].status = "cancelled" =>
         \A s \in Steps : rows[<<c, s>>].status = "free" =>
                              rows'[<<c, s>>].status = "free"]_vars
=============================================================================
