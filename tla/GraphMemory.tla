----------------------------- MODULE GraphMemory -----------------------------
(***************************************************************************)
(* The operational graph (memory/graph.py) and the calls a hop makes on it *)
(* (orchestrator/runtime.py, _enrich_graph; cli.py at the end of a plan).  *)
(*                                                                         *)
(* Every process keeps a NetworkX mirror and writes each mutation through  *)
(* to Postgres, one autocommitted statement at a time; recording a hop is  *)
(* a program of such statements, and an exception ends it where it stands. *)
(* A process that cannot load from Postgres keeps its mirror in a file.    *)
(*                                                                         *)
(* One file and one symbol stand for all: they are what the tasks and the  *)
(* projects share. One label stands for all: labels are merged key by key. *)
(* Its record is the number it was made with, 0 when the node has none.    *)
(***************************************************************************)
EXTENDS Integers, Sequences

CONSTANTS
  Procs, Projects, Tasks,
  Agents,       \* who may have produced a hop's output
  Extras,       \* what a hop adds to its snippet: sets of "tag", "impact"
  MaxHops,      \* bound: hops recorded
  MaxStarts,    \* bound: starts of a process
  MaxFaults     \* bound: failed statements and crashes

ASSUME GraphAssumption ==
  Extras \subseteq SUBSET {"tag", "impact"} /\ MaxHops \in Nat
  /\ MaxStarts \in Nat /\ MaxFaults \in Nat

Upstream == "upstream"     \* from_agent of every hop

Agent(a) == <<"agent", a>>
Task(t) == <<"task", t>>
Snippet(t, r) == <<"snippet", t, r>>
File == <<"file">>
Symbol == <<"symbol">>
Snippets(t) == {Snippet(t, r) : r \in Agents}
Nodes == {Agent(a) : a \in Agents \cup {Upstream}} \cup {File, Symbol}
           \cup {Task(t) : t \in Tasks} \cup UNION {Snippets(t) : t \in Tasks}

VARIABLES
  project,     \* per process: settings.project_name
  owner,       \* per task: the project whose processes work on it
  nodes,       \* agentcore_graph_nodes, per project: the label or Absent
  edges,       \* agentcore_graph_edges, per project
  events,      \* agentcore_graph_events, per project
  file,        \* the JSON snapshot of the memory-only mode
  mode,        \* per process: off, postgres or file
  mirror,      \* per process: its nx.Graph
  todo,        \* per process: the statements it has still to run
  recalled,    \* per process: the tasks operational_memory last gave a hop
  makers,      \* per record of a label, by number: who made it, if it still runs
  hops, starts, faults

vars == <<project, owner, nodes, edges, events, file, mode, mirror, todo,
          recalled, makers, hops, starts, faults>>
tables == <<nodes, edges, events>>
bounds == <<hops, starts, faults>>

Absent == -1
Tagging == {"tag_relevance", "tag_task"}
Empty == [label |-> [n \in Nodes |-> Absent], links |-> {}]

(* The file modes share one snapshot; the tables start without a row. *)
Init ==
  /\ project \in [Procs -> Projects] /\ owner \in [Tasks -> Projects]
  /\ nodes = [q \in Projects |-> Empty.label]
  /\ edges = [q \in Projects |-> {}] /\ events = [q \in Projects |-> {}]
  /\ file = Empty
  /\ mode = [p \in Procs |-> "off"] /\ mirror = [p \in Procs |-> Empty]
  /\ todo = [p \in Procs |-> <<>>] /\ recalled = [p \in Procs |-> {}]
  /\ makers = <<>> /\ hops = 0 /\ starts = 0 /\ faults = 0

-----------------------------------------------------------------------------
(* Programs: what record_* and tag_* run, statement by statement. *)

WorkedOn(a, t) == <<Agent(a), "worked_on", Task(t)>>
Handoff(r) == <<Agent(Upstream), "handoff", Agent(r)>>
Changed(t) == <<Task(t), "changed", File>>
Made(t, n) == <<Task(t), "produced", n>>
Contains(rel, n) == <<File, rel, n>>
BlastRadius(t) == <<Task(t), "blast_radius", Symbol>>

PutNode(n) == [op |-> "node", node |-> n]
PutEdge(e) == [op |-> "edge", edge |-> e]
PutEvent(kind, t, r) == [op |-> "event", event |-> [kind |-> kind, task |-> t, by |-> r]]
TagEvent(kind, t, found) ==
  [op |-> "event", event |-> [kind |-> kind, task |-> t, found |-> found]]
PutLabel(n, s) == [op |-> "label", node |-> n, record |-> s]
Find(t, s) == [op |-> "find", task |-> t, record |-> s]
Save == [op |-> "save"]

(* A loop over _merge_node_labels, in no order.                            *)
Labels(S, s) == IF S = {} THEN <<>> ELSE <<[op |-> "labels", nodes |-> S, record |-> s]>>

RecordHandoff(t, r) ==
  <<PutNode(Agent(Upstream)), PutNode(Agent(r)), PutNode(Task(t)),
    PutEdge(Handoff(r)), PutEdge(WorkedOn(Upstream, t)), PutEdge(WorkedOn(r, t)),
    PutEvent("handoff", t, r)>>
RecordChange(t, r) ==
  <<PutNode(Task(t)), PutNode(File), PutEdge(Changed(t)), PutEvent("changed", t, r)>>
\* variant: the event is written before the edges it speaks of
RecordSnippetEventFirst(t, r) ==
  <<PutNode(Snippet(t, r)), PutNode(Task(t)), PutNode(File), PutEvent("snippet", t, r),
    PutEdge(Made(t, Snippet(t, r))), PutEdge(Contains("contains_snippet", Snippet(t, r)))>>
RecordSnippet(t, r) ==
  <<PutNode(Snippet(t, r)), PutNode(Task(t)), PutNode(File),
    PutEdge(Made(t, Snippet(t, r))), PutEdge(Contains("contains_snippet", Snippet(t, r))),
    PutEvent("snippet", t, r)>>

\* The edges that merge_subgraph adds between symbols are left out: there is
\* one symbol.
RecordImpact(t, r) ==
  <<PutNode(Task(t)), PutNode(File), PutEdge(Changed(t)),
    PutNode(Symbol), PutEdge(Contains("contains", Symbol)), PutEdge(BlastRadius(t)),
    PutEvent("impact", t, r), PutNode(Symbol)>>       \* merge_subgraph

(* tag_relevance and tag_task make their record when they are called: see  *)
(* Remaining.                                                              *)
TagRelevance(t) == <<[op |-> "tag_relevance", task |-> t]>>
TagTask(t) == <<[op |-> "tag_task", task |-> t]>>

EnrichGraph(t, r, extras) ==
  RecordHandoff(t, r) \o RecordChange(t, r) \o RecordSnippet(t, r)
    \o (IF "tag" \in extras THEN TagRelevance(t) ELSE <<>>)
    \o (IF "impact" \in extras THEN RecordImpact(t, r) \o TagRelevance(t) ELSE <<>>)

(* After a hop: a durable hop leaves the graph alone, an inline chain saves *)
(* it, a plan tags what it did first.                                      *)
Afterwards(t, how) ==
  CASE how = "durable" -> <<>>
    [] how = "inline"  -> <<Save>>
    [] how = "plan"    -> TagRelevance(t) \o TagTask(t) \o <<Save>>

(* The edges an event speaks of. *)
EdgesOf(kind, t, r) ==
  CASE kind = "handoff" -> {Handoff(r), WorkedOn(Upstream, t), WorkedOn(r, t)}
    [] kind = "changed" -> {Changed(t)}
    [] kind = "snippet" -> {Made(t, Snippet(t, r)), Contains("contains_snippet", Snippet(t, r))}
    [] kind = "impact"  -> {Changed(t), Contains("contains", Symbol), BlastRadius(t)}

-----------------------------------------------------------------------------
(* load(): every row of the tables, whatever its project. A node that has  *)
(* a label belongs to one task, so no two projects disagree about it.      *)
Loaded ==
  [label |-> [n \in Nodes |-> CHOOSE l \in {nodes[q][n] : q \in Projects} :
                                \A q \in Projects : nodes[q][n] <= l],
   links |-> {{e[1], e[3]} : e \in UNION {edges[q] : q \in Projects}}]

(* A process starts: it loads from Postgres, or from the file if it cannot. *)
Start(p) ==
  /\ mode[p] = "off" /\ starts < MaxStarts /\ starts' = starts + 1
  /\ \/ /\ mode' = [mode EXCEPT ![p] = "postgres"]
        /\ mirror' = [mirror EXCEPT ![p] = Loaded]
     \/ /\ mode' = [mode EXCEPT ![p] = "file"]
        /\ mirror' = [mirror EXCEPT ![p] = file]
  /\ UNCHANGED <<project, owner, tables, file, todo, recalled, makers, hops, faults>>

(* save(): Postgres has everything already; the file is written whole. *)
Saved(p) == IF mode[p] = "file" THEN mirror[p] ELSE file

Gone(p) ==
  /\ mode' = [mode EXCEPT ![p] = "off"]
  /\ mirror' = [mirror EXCEPT ![p] = Empty]
  /\ todo' = [todo EXCEPT ![p] = <<>>]
  /\ recalled' = [recalled EXCEPT ![p] = {}]
  /\ makers' = [s \in DOMAIN makers |-> makers[s] \ {p}]
  /\ UNCHANGED <<project, owner, tables, hops, starts>>

(* The lifespan ends: the graph is saved. *)
Stop(p) ==
  /\ mode[p] # "off" /\ todo[p] = <<>>
  /\ file' = Saved(p) /\ Gone(p) /\ UNCHANGED faults

(* A crash in the middle of write_text leaves a file that does not parse. *)
Crash(p) ==
  /\ mode[p] # "off" /\ faults < MaxFaults /\ faults' = faults + 1
  /\ \/ UNCHANGED file
     \/ mode[p] = "file" /\ todo[p] # <<>> /\ Head(todo[p]).op = "save" /\ file' = Empty
  /\ Gone(p)

(* operational_memory(): the tasks that changed the file; in Postgres the  *)
(* join asks for no project.                                               *)
ChangedIn(E) == {t \in Tasks : Changed(t) \in E}
Recall(p) ==
  CASE mode[p] = "postgres" -> ChangedIn(UNION {edges[q] : q \in Projects})
    [] mode[p] = "file"     -> {t \in Tasks : {Task(t), File} \in mirror[p].links}

(* A hop: its prompt is built with the memory of the file, and its output  *)
(* recorded. Saving means nothing in Postgres.                             *)
Hop(p, t, r) ==
  /\ mode[p] # "off" /\ todo[p] = <<>> /\ owner[t] = project[p]
  /\ hops < MaxHops /\ hops' = hops + 1
  /\ recalled' = [recalled EXCEPT ![p] = Recall(p)]
  /\ \E extras \in Extras, how \in {"durable", "inline", "plan"} :
       /\ how = "inline" => mode[p] = "file"
       /\ todo' = [todo EXCEPT ![p] = EnrichGraph(t, r, extras) \o Afterwards(t, how)]
  /\ UNCHANGED <<project, owner, tables, file, mode, mirror, makers, starts, faults>>

-----------------------------------------------------------------------------
(* What a statement does to the mirror, and to the tables. *)

(* add_node keeps the mirror's attributes; _merge_node_labels labels only  *)
(* a node the mirror has; add_edge joins what add_node put there before.   *)
Mirrored(m, c) ==
  CASE c.op = "node"  -> [m EXCEPT !.label[c.node] = IF @ = Absent THEN 0 ELSE @]
    [] c.op = "edge"  -> [m EXCEPT !.links = @ \cup {{c.edge[1], c.edge[3]}}]
    [] c.op = "label" -> [m EXCEPT !.label[c.node] = IF @ = Absent THEN @ ELSE c.record]
    [] OTHER          -> m

(* labels || EXCLUDED.labels: a record the upsert brings replaces the      *)
(* stored one, a record it does not bring stays.                           *)
\* variant: labels = EXCLUDED.labels
LabelsReplaced(stored, brought) == IF brought > 0 THEN brought ELSE 0
MergedLabels(stored, brought) ==
  IF brought > 0 THEN brought ELSE IF stored = Absent THEN 0 ELSE stored

\* variant: a node the mirror has is taken to be in the table
StoredOnce(p, c) ==
  LET q == project[p]
      new == c.op = "node" /\ mirror[p].label[c.node] = Absent
  IN
  /\ nodes' = IF new THEN [nodes EXCEPT ![q][c.node] = MergedLabels(@, 0)] ELSE nodes
  /\ edges' = IF c.op = "edge" THEN [edges EXCEPT ![q] = @ \cup {c.edge}] ELSE edges
  /\ UNCHANGED events
Stored(p, c) ==
  LET q == project[p] IN
  /\ nodes' = CASE c.op = "node" ->
                     [nodes EXCEPT ![q][c.node] = MergedLabels(@, mirror[p].label[c.node])]
                [] c.op = "label" ->       \* by id, in every project
                     [x \in Projects |->
                        [nodes[x] EXCEPT ![c.node] = IF @ = Absent THEN @ ELSE c.record]]
                [] OTHER -> nodes
  /\ edges' = IF c.op = "edge" THEN [edges EXCEPT ![q] = @ \cup {c.edge}] ELSE edges
  /\ events' = IF c.op = "event" THEN [events EXCEPT ![q] = @ \cup {c.event}] ELSE events

Produced(t) == {n \in Snippets(t) : \E q \in Projects : Made(t, n) \in edges[q]}
Neighbours(p, t) == {n \in Snippets(t) : {Task(t), n} \in mirror[p].links}

(* The statements that may run now: a loop takes its labels one by one.    *)
Ready(p) ==
  LET c == Head(todo[p]) IN
  IF c.op = "labels" THEN {PutLabel(n, c.record) : n \in c.nodes} ELSE {c}

(* What remains after a statement. tag_relevance labels the snippets its   *)
(* mirror knows, then asks the table for all of them and labels those;     *)
(* without Postgres it returns before the second half.                     *)
Remaining(p, c) ==
  LET rest == Tail(todo[p])
      now == Len(makers) + 1
  IN
  CASE c.op = "tag_relevance" -> Labels(Neighbours(p, c.task), now) \o <<Find(c.task, now)>> \o rest
    [] c.op = "tag_task" ->
         Labels({Task(c.task)}, now) \o <<TagEvent(c.op, c.task, {Task(c.task)})>> \o rest
    [] c.op = "find" /\ mode[p] = "postgres" ->
         Labels(Produced(c.task), c.record)
           \o <<TagEvent("tag_relevance", c.task, Produced(c.task))>> \o rest
    [] c.op = "label" -> Labels(Head(todo[p]).nodes \ {c.node}, c.record) \o rest
    [] OTHER -> rest

(* The next statement runs. In the memory-only mode it is the mirror alone. *)
Statement(p) ==
  /\ todo[p] # <<>>
  /\ \E c \in Ready(p) :
       /\ mirror' = [mirror EXCEPT ![p] = Mirrored(@, c)]
       /\ IF mode[p] = "postgres" THEN Stored(p, c) ELSE UNCHANGED tables
       /\ todo' = [todo EXCEPT ![p] = Remaining(p, c)]
       /\ file' = IF c.op = "save" THEN Saved(p) ELSE file
       /\ makers' = IF c.op \in Tagging THEN Append(makers, {p}) ELSE makers
  /\ UNCHANGED <<project, owner, mode, recalled, bounds>>

(* A statement fails: the mirror was changed before it, the tables are     *)
(* not, and the exception ends the hop.                                    *)
StatementFails(p) ==
  /\ mode[p] = "postgres" /\ todo[p] # <<>> /\ Head(todo[p]).op \notin Tagging \cup {"save"}
  /\ faults < MaxFaults /\ faults' = faults + 1
  /\ \E c \in Ready(p) : mirror' = [mirror EXCEPT ![p] = Mirrored(@, c)]
  /\ todo' = [todo EXCEPT ![p] = <<>>]
  /\ UNCHANGED <<project, owner, tables, file, mode, recalled, makers, hops, starts>>

Next ==
  \E p \in Procs :
    \/ Start(p) \/ Stop(p) \/ Crash(p) \/ Statement(p) \/ StatementFails(p)
    \/ \E t \in Tasks, r \in Agents : Hop(p, t, r)

Spec == Init /\ [][Next]_vars

-----------------------------------------------------------------------------
Label == [Nodes -> Absent..Len(makers)]
(* Types, and the schema's foreign keys: the statement that stores an edge *)
(* never finds an endpoint missing, although the mirror may hold nodes     *)
(* whose own statement failed, or that are rows of another project.        *)
TypeOK ==
  /\ project \in [Procs -> Projects] /\ owner \in [Tasks -> Projects]
  /\ nodes \in [Projects -> Label]
  /\ \A q \in Projects : \A e \in edges[q] :
       nodes[q][e[1]] # Absent /\ nodes[q][e[3]] # Absent
  /\ mode \in [Procs -> {"off", "postgres", "file"}]
  /\ \A p \in Procs : mirror[p].label \in Label /\ mirror[p].links \subseteq SUBSET Nodes
  /\ recalled \in [Procs -> SUBSET Tasks]
  /\ makers \in Seq(SUBSET Procs) /\ hops \in 0..MaxHops
  /\ starts \in 0..MaxStarts /\ faults \in 0..MaxFaults

(* An event of the audit log tells the truth: what it says was recorded is *)
(* in its project's tables, and what it says was labelled has the label,   *)
(* wherever a program stopped and whoever else was writing. (record_event  *)
(* comes last in every record_*; count = len(rows) in tag_relevance.)      *)
EventsAreBacked ==
  \A q \in Projects : \A e \in events[q] :
    IF e.kind \in Tagging THEN \A n \in e.found : nodes[q][n] > 0
                          ELSE EdgesOf(e.kind, e.task, e.by) \subseteq edges[q]

(* A stored label is never lost, and never replaced with an older one by   *)
(* the process that made it: only by another, whose mirror was loaded or   *)
(* labelled before it, as add_node sends the labels of the mirror.         *)
TagsKept ==
  [][\A q \in Projects, n \in Nodes :
       LET stored == nodes[q][n] IN
       stored > 0 =>
         /\ nodes'[q][n] > 0
         /\ nodes'[q][n] < stored => \E p \in Procs \ makers[stored] : todo'[p] # todo[p]]_vars

(* What the class says of itself (graph.py:175-178): operational_memory()  *)
(* filters by project. The join does not, and files have the same id in    *)
(* every project.                                                          *)
RecallsOwnProject ==
  \A p \in Procs : \A t \in recalled[p] : owner[t] = project[p]
=============================================================================
