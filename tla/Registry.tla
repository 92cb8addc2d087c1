------------------------------- MODULE Registry -------------------------------
(***************************************************************************)
(* The hot-reloading registry of agent specs (spec/loader.py,              *)
(* spec/parser.py), the directory it mirrors, and a chain of hops that     *)
(* looks its agents up in it (orchestrator/runtime.py, app.py).            *)
(*                                                                         *)
(* The watcher reads the directory once, then follows the batches of       *)
(* changes watchfiles reports: sets of (change, path), without an order.   *)
(* It handles a batch without yielding, but the directory does not wait.   *)
(* Files are numbered in the order sorted() gives them.                    *)
(***************************************************************************)
EXTENDS Integers, FiniteSets

CONSTANTS
  Names,        \* agent names
  Files,        \* paths, as numbers
  Specs,        \* what a file may say: records of a name and its contract
  Missing, Broken, Garbled,   \* ... or a file is not there, no spec, no text
  NoSpec,
  MaxEdits,     \* bound: changes to the directory
  MaxStarts,    \* bound: starts of the process
  MaxChains     \* bound: chains

User == "user"
Nobody == "nobody"

AgentSpec == [name : Names, accepts : SUBSET (Names \cup {User}), delegates : SUBSET Names]

ASSUME RegistryAssumption ==
  /\ Files \subseteq Nat /\ Specs \subseteq AgentSpec /\ {User, Nobody} \cap Names = {}
  /\ {Missing, Broken, Garbled} \cap Specs = {} /\ NoSpec \notin Specs
  /\ MaxEdits \in Nat /\ MaxStarts \in Nat /\ MaxChains \in Nat

VARIABLES
  dir,        \* per file: a spec or a mark
  byName,     \* _by_name: the spec and the file it came from, or NoEntry
  errors,     \* _errors: files that did not parse
  watcher,    \* off, loading, arming, watching or dead
  toLoad,     \* load_dir: files still to read
  seen,       \* changes watchfiles has noticed and not yet delivered
  batch,      \* changes delivered and not yet handled
  doubts,     \* per file: why the registry may disagree with it
  hop,        \* the chain: idle, a handoff to deliver, or an agent at work
  moved,      \* the registry changed since the chain began
  refused,    \* how the last chain ended: NotRefused or the handoff refused
  edits, starts, chains

dirVars == <<dir, edits>>
registry == <<byName, errors>>
watching == <<watcher, toLoad, seen, batch>>
chainVars == <<hop, moved, refused, chains>>
vars == <<dirVars, registry, watching, doubts, chainVars, starts>>

Marks == {Missing, Broken, Garbled}
NoEntry == [spec |-> NoSpec, file |-> -1]
Entry == [spec : Specs, file : Files] \cup {NoEntry}
(* step: 0 for the first handoff, 1 for what an agent made. *)
Idle == [at |-> "idle"]
NotRefused == [from |-> Nobody, to |-> Nobody, step |-> 0]
Changes == {"added", "modified", "deleted"} \X Files

IsSpec(c) == c \in Specs
Known(n) == byName[n] # NoEntry
From(f) == {n \in Names : byName[n].file = f}

(* The directory may start with anything that parses, one agent per file. *)
Init ==
  /\ dir \in [Files -> Specs \cup {Missing}]
  /\ \A f, g \in Files : IsSpec(dir[f]) /\ IsSpec(dir[g]) /\ f # g => dir[f].name # dir[g].name
  /\ byName = [n \in Names |-> NoEntry] /\ errors = {}
  /\ watcher = "off" /\ toLoad = {} /\ seen = {} /\ batch = {}
  /\ doubts = [f \in Files |-> {}]
  /\ hop = Idle /\ moved = FALSE /\ refused = NotRefused
  /\ edits = 0 /\ starts = 0 /\ chains = 0

-----------------------------------------------------------------------------
(* The directory: somebody creates, changes or removes a file. *)

Change(f, c) ==
  IF c = Missing THEN "deleted" ELSE IF dir[f] = Missing THEN "added" ELSE "modified"

Namesakes(f, c) ==
  {g \in Files \ {f} : IsSpec(c) /\ IsSpec(dir[g]) /\ dir[g].name = c.name}

(* Why f's place in the registry becomes doubtful: the change comes after  *)
(* the file was read and before awatch listens; it shares a batch with a   *)
(* removal or a creation of the same path; or another file has the name.   *)
Doubt(f, c) ==
  {k \in {"missed", "unordered", "namesake"} :
     \/ /\ k = "missed"
        /\ watcher = "arming" \/ (watcher = "loading" /\ f \notin toLoad)
     \/ /\ k = "unordered" /\ watcher = "watching"
        /\ \E ch \in {"added", "modified", "deleted"} :
             /\ <<ch, f>> \in seen
             /\ "deleted" \in {ch, Change(f, c)} /\ ch # Change(f, c)
     \/ k = "namesake" /\ Namesakes(f, c) # {}}

Edit(f, c) ==
  /\ c # dir[f] /\ edits < MaxEdits /\ edits' = edits + 1
  /\ dir' = [dir EXCEPT ![f] = c]
  /\ seen' = IF watcher = "watching" THEN seen \cup {<<Change(f, c), f>>} ELSE seen
  /\ doubts' = [g \in Files |->
                  doubts[g] \cup (IF g = f THEN Doubt(f, c) ELSE {})
                            \cup (IF g \in Namesakes(f, c) THEN {"namesake"} ELSE {})]
  /\ UNCHANGED <<registry, watcher, toLoad, batch, chainVars, starts>>

-----------------------------------------------------------------------------
(* The registry. *)

(* upsert: by name; the path's error is forgotten. *)
\* variant: what the file said before is replaced where it stands
UpsertInPlace(f, s) ==
  LET keys == IF From(f) = {} THEN {s.name} ELSE From(f) IN
  /\ byName' = [n \in Names |-> IF n \in keys THEN [spec |-> s, file |-> f] ELSE byName[n]]
  /\ errors' = errors \ {f}
Upsert(f, s) ==
  /\ byName' = [byName EXCEPT ![s.name] = [spec |-> s, file |-> f]]
  /\ errors' = errors \ {f}

\* variant: the file's error is not forgotten
RemoveKeepingError(f) ==
  /\ byName' = [n \in Names |-> IF byName[n].file = f THEN NoEntry ELSE byName[n]]
  /\ UNCHANGED errors
RemoveByPath(f) ==
  /\ byName' = [n \in Names |-> IF byName[n].file = f THEN NoEntry ELSE byName[n]]
  /\ errors' = errors \ {f}

(* _load_one: a file that does not parse is recorded and what it said last *)
(* stays registered. A file that is gone, or that is not text, raises      *)
(* something else than SpecParseError, which nothing on the way catches.   *)
Raises(f) == dir[f] \in {Missing, Garbled}
LoadOne(f) ==
  /\ ~Raises(f)
  /\ \/ IsSpec(dir[f]) /\ Upsert(f, dir[f])
     \/ dir[f] = Broken /\ errors' = errors \cup {f} /\ UNCHANGED byName
  /\ moved' = (moved \/ byName' # byName)

(* The file was read: it is what the registry says, unless its old name is *)
(* still there, another file has the name, or its change was one of two.   *)
Reread(f, unsure) ==
  doubts' = [doubts EXCEPT ![f] =
    {k \in @ : \/ k = "renamed"
               \/ k \in {"missed", "unordered"} /\ unsure
               \/ k = "namesake" /\ Namesakes(f, dir[f]) # {}}
      \cup (IF IsSpec(dir[f]) /\ From(f) \ {dir[f].name} # {} THEN {"renamed"} ELSE {})]

(* Its removal was handled, the last change of it there was. *)
Forgotten(f, unsure) ==
  doubts' = [doubts EXCEPT ![f] =
    IF unsure THEN @ ELSE IF dir[f] = Missing THEN {} ELSE @ \cap {"unordered", "namesake"}]

-----------------------------------------------------------------------------
(* The watcher task. *)

StartProcess ==
  /\ watcher = "off" /\ starts < MaxStarts /\ starts' = starts + 1
  /\ watcher' = "loading" /\ toLoad' = {f \in Files : dir[f] # Missing}
  /\ UNCHANGED <<dirVars, registry, seen, batch, doubts, chainVars>>

First(f) == f \in toLoad /\ \A g \in toLoad : f <= g

(* load_dir, file after file; then awatch is called. *)
LoadDir ==
  /\ watcher = "loading"
  /\ \/ /\ toLoad = {} /\ watcher' = "arming"
        /\ UNCHANGED <<registry, toLoad, doubts, moved>>
     \/ \E f \in toLoad :
          /\ First(f) /\ toLoad' = toLoad \ {f}
          /\ LoadOne(f) /\ Reread(f, FALSE)
          /\ UNCHANGED watcher
  /\ UNCHANGED <<dirVars, seen, batch, hop, refused, chains, starts>>

(* From here on the changes are noticed. *)
Armed ==
  /\ watcher = "arming" /\ watcher' = "watching"
  /\ UNCHANGED <<dirVars, registry, toLoad, seen, batch, doubts, chainVars, starts>>

\* variant: only one change of a batch is handled
TakeOne ==
  /\ watcher = "watching" /\ batch = {} /\ seen # {}
  /\ \E change \in seen : batch' = {change}
  /\ seen' = {}
  /\ UNCHANGED <<dirVars, registry, watcher, toLoad, doubts, chainVars, starts>>
TakeBatch ==
  /\ watcher = "watching" /\ batch = {} /\ seen # {}
  /\ batch' = seen /\ seen' = {}
  /\ UNCHANGED <<dirVars, registry, watcher, toLoad, doubts, chainVars, starts>>

(* The body of the async for: one change of the batch, any of them. *)
HandleChange ==
  \E change \in batch :
    LET f == change[2]
        others == \E d \in batch' \cup seen : d[2] = f
    IN
    /\ watcher = "watching" /\ batch' = batch \ {change}
    /\ \/ /\ change[1] = "deleted" /\ RemoveByPath(f)
          /\ moved' = (moved \/ byName' # byName)
          /\ Forgotten(f, others)
       \/ change[1] # "deleted" /\ LoadOne(f) /\ Reread(f, others)
    /\ UNCHANGED <<dirVars, watcher, toLoad, seen, hop, refused, chains, starts>>

(* An exception of _load_one ends the watcher task; the process serves on. *)
WatcherDies ==
  /\ \/ watcher = "loading" /\ \E f \in toLoad : First(f) /\ Raises(f)
     \/ watcher = "watching" /\ \E change \in batch : change[1] # "deleted" /\ Raises(change[2])
  /\ watcher' = "dead" /\ toLoad' = {} /\ batch' = {} /\ seen' = {}
  /\ UNCHANGED <<dirVars, registry, doubts, chainVars, starts>>

(* The process ends, with what it had in memory. *)
Stop ==
  /\ watcher # "off"
  /\ watcher' = "off" /\ toLoad' = {} /\ seen' = {} /\ batch' = {}
  /\ byName' = [n \in Names |-> NoEntry] /\ errors' = {}
  /\ doubts' = [f \in Files |-> IF Namesakes(f, dir[f]) = {} THEN {} ELSE {"namesake"}]
  /\ hop' = Idle /\ moved' = FALSE /\ refused' = NotRefused
  /\ UNCHANGED <<dirVars, chains, starts>>

-----------------------------------------------------------------------------
(* A chain. A hop resolves its agent and keeps that spec until it ends;    *)
(* the event loop is not in the middle of a batch when it does.            *)

Accepts(n, from) == Known(n) /\ from \in byName[n].spec.accepts

StartChain(n) ==
  /\ hop = Idle /\ watcher # "off" /\ chains < MaxChains /\ chains' = chains + 1
  /\ hop' = [at |-> "handoff", from |-> User, to |-> n, step |-> 0]
  /\ moved' = FALSE /\ refused' = NotRefused
  /\ UNCHANGED <<dirVars, registry, watching, doubts, starts>>

Resolve ==
  /\ hop.at = "handoff" /\ batch = {} /\ toLoad = {}
  /\ \/ /\ ~Accepts(hop.to, hop.from)                    \* HandoffRejected
        /\ refused' = [from |-> hop.from, to |-> hop.to, step |-> hop.step]
        /\ hop' = Idle
        /\ UNCHANGED moved
     \/ /\ Accepts(hop.to, hop.from)
        /\ LET spec == byName[hop.to].spec IN
             /\ hop' = [at |-> "work", spec |-> spec]
             /\ moved' = \E d \in spec.delegates : ~Accepts(d, spec.name)
        /\ UNCHANGED refused
  /\ UNCHANGED <<dirVars, registry, watching, doubts, chains, starts>>

(* _infer_delegation: the only delegate, or what the output asks for. *)
Delegation(spec) ==
  IF Cardinality(spec.delegates) = 1 THEN spec.delegates ELSE spec.delegates \cup {Nobody}

(* The hop ends, by an exception or with a successor or none. *)
\* variant: the successor keeps the sender of the first handoff
EndHopFromUser ==
  /\ hop.at = "work"
  /\ \/ hop' = Idle
     \/ \E d \in Delegation(hop.spec) \ {Nobody} :
          hop' = [at |-> "handoff", from |-> User, to |-> d, step |-> 1]
  /\ UNCHANGED <<dirVars, registry, watching, doubts, moved, refused, chains, starts>>
EndHop ==
  /\ hop.at = "work"
  /\ \/ hop' = Idle
     \/ \E d \in Delegation(hop.spec) \ {Nobody} :
          hop' = [at |-> "handoff", from |-> hop.spec.name, to |-> d, step |-> 1]
  /\ UNCHANGED <<dirVars, registry, watching, doubts, moved, refused, chains, starts>>

-----------------------------------------------------------------------------
Watch == LoadDir \/ Armed \/ TakeBatch \/ HandleChange \/ WatcherDies

Next ==
  \/ \E f \in Files, c \in Specs \cup Marks : Edit(f, c)
  \/ StartProcess \/ Watch \/ Stop
  \/ (\E n \in Names : StartChain(n)) \/ Resolve \/ EndHop

(* The event loop runs the watcher task while the process is there. *)
Spec == Init /\ [][Next]_vars /\ WF_vars(Watch)

-----------------------------------------------------------------------------
(* Types; an agent is found under the name its spec carries. *)
TypeOK ==
  /\ dir \in [Files -> Specs \cup Marks]
  /\ byName \in [Names -> Entry] /\ errors \subseteq Files
  /\ \A n \in Names : Known(n) => byName[n].spec.name = n
  /\ watcher \in {"off", "loading", "arming", "watching", "dead"}
  /\ toLoad \subseteq Files /\ seen \subseteq Changes /\ batch \subseteq Changes
  /\ doubts \in [Files -> SUBSET {"missed", "unordered", "namesake", "renamed"}]
  /\ moved \in BOOLEAN
  /\ edits \in 0..MaxEdits /\ starts \in 0..MaxStarts /\ chains \in 0..MaxChains

(* What the registry owes a file it has read. *)
Agrees(f) ==
  IF dir[f] = Missing THEN From(f) = {} /\ f \notin errors
  ELSE IF dir[f] = Broken THEN f \in errors
  ELSE /\ IsSpec(dir[f]) /\ byName[dir[f].name] = [spec |-> dir[f], file |-> f]
       /\ From(f) = {dir[f].name} /\ f \notin errors

(* A file the watcher has no change of to handle is in the registry as it  *)
(* is in the directory, but for four reasons: a change between load_dir    *)
(* and awatch, a removal and a creation in one batch, a rename in place,   *)
(* two files with one name (loader.py:99-118).                             *)
RegistryAgrees ==
  watcher \in {"arming", "watching"} =>
    \A f \in Files :
      doubts[f] = {} /\ (\A change \in seen \cup batch : change[2] # f) => Agrees(f)

(* A handoff an agent makes is refused only if, when that agent began, one *)
(* of its delegates would have refused it, or the registry changed since   *)
(* (runtime.py:126-138: each hop looks its agent up anew).                 *)
RefusedOnlyIfMoved ==
  refused # NotRefused /\ refused.step > 0 => moved

(* Once the directory rests the registry follows it, unless the process is *)
(* gone or its watcher died of a file it could not read.                   *)
RegistrySettles ==
  <>[](\/ watcher \in {"off", "dead"}
       \/ \A f \in Files : doubts[f] = {} => Agrees(f))

(* spec/loader.py:4-5: in-flight tasks should pin the spec version they    *)
(* started with; nobody calls snapshot().                                  *)
NeverRefusedMidChain ==
  refused = NotRefused \/ refused.step = 0
=============================================================================
