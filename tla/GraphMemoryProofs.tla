-------------------------- MODULE GraphMemoryProofs --------------------------
(***************************************************************************)
(* Proofs about GraphMemory, for every set of processes, projects, tasks   *)
(* and agents and every bound: its types with the foreign keys, that an    *)
(* event says only what the tables hold, and that no label is lost or put  *)
(* back by the process that replaced it.                                   *)
(***************************************************************************)
EXTENDS GraphMemory, SequenceTheorems, TLAPS

-----------------------------------------------------------------------------
(* Types.                                                                  *)

TaskNodes(t) == {Task(t)} \cup Snippets(t)
Labelled == UNION {TaskNodes(t) : t \in Tasks}

Relations == {"worked_on", "handoff", "changed", "produced", "contains_snippet",
              "contains", "blast_radius"}
Edge == Nodes \X Relations \X Nodes
Recorded == {"handoff", "changed", "snippet", "impact"}
Event == [kind : Recorded, task : Tasks, by : Agents]
         \cup [kind : Tagging, task : Tasks, found : SUBSET Nodes]

\* one label of a loop
LabelCall == [op : {"label"}, node : Labelled, record : Nat]
Call == [op : {"node"}, node : Nodes] \cup [op : {"edge"}, edge : Edge]
        \cup [op : {"event"}, event : Event]
        \cup [op : {"labels"}, nodes : SUBSET Labelled, record : Nat]
        \cup [op : {"find"}, task : Tasks, record : Nat]
        \cup [op : Tagging, task : Tasks] \cup [op : {"save"}]

Graph == [label : Label, links : SUBSET SUBSET Nodes]

TypeInv ==
  /\ project \in [Procs -> Projects] /\ owner \in [Tasks -> Projects]
  /\ nodes \in [Projects -> Label]
  /\ edges \in [Projects -> SUBSET Edge] /\ events \in [Projects -> SUBSET Event]
  /\ file \in Graph
  /\ mode \in [Procs -> {"off", "postgres", "file"}] /\ mirror \in [Procs -> Graph]
  /\ todo \in [Procs -> Seq(Call)] /\ recalled \in [Procs -> SUBSET Tasks]
  /\ makers \in Seq(SUBSET Procs) /\ hops \in 0..MaxHops
  /\ starts \in 0..MaxStarts /\ faults \in 0..MaxFaults

ForeignKeys ==
  \A q \in Projects : \A e \in edges[q] :
    nodes[q][e[1]] # Absent /\ nodes[q][e[3]] # Absent

-----------------------------------------------------------------------------
(* What a program needs.                                                   *)

Elems(s) == {s[i] : i \in DOMAIN s}
Earlier(s, i) == {s[j] : j \in 1..(i - 1)}

(* What statement c needs, of the tables of project q or of the statements *)
(* X that come before it.                                                  *)
Needs(q, c, X) ==
  /\ c.op = "edge" =>
       \A n \in {c.edge[1], c.edge[3]} : nodes[q][n] # Absent \/ PutNode(n) \in X
  /\ c.op = "event" =>
       IF c.event.kind \in Tagging
         THEN \A n \in c.event.found :
                \/ nodes[q][n] > 0
                \/ /\ nodes[q][n] # Absent
                   /\ \E d \in X : d.op = "labels" /\ n \in d.nodes
         ELSE \A e \in EdgesOf(c.event.kind, c.event.task, c.event.by) :
                e \in edges[q] \/ PutEdge(e) \in X
  /\ c.op = "tag_task" =>
       nodes[q][Task(c.task)] # Absent \/ PutNode(Task(c.task)) \in X

Sound(q, s, X) == \A i \in 1..Len(s) : Needs(q, s[i], X \cup Earlier(s, i))

(* A program speaks of the tasks of its project alone.                     *)
Own(q, c) ==
  /\ c.op = "node" => \A t \in Tasks : c.node \in TaskNodes(t) => owner[t] = q
  /\ c.op \in Tagging \cup {"find"} => owner[c.task] = q

(* s is the number of the last record that p has made.                     *)
Newest(p, s) ==
  s \in 1..Len(makers) /\ p \in makers[s] /\ \A r \in 1..Len(makers) : p \in makers[r] => r <= s

\* the statements that have a record
Numbered == {"labels", "find"}

ProgramOK(p) ==
  LET s == todo[p] IN
  /\ mode[p] = "off" => s = <<>>
  /\ mode[p] = "postgres" => Sound(project[p], s, {})
  /\ \A i \in 1..Len(s) : Own(project[p], s[i])
  /\ \A i \in 1..Len(s) :
       s[i].op \in Numbered =>
         Newest(p, s[i].record) /\ \A j \in 1..(i - 1) : s[j].op \notin Tagging

-----------------------------------------------------------------------------
(* Whose nodes and labels they are.                                        *)

Copies == {nodes[q] : q \in Projects} \cup {mirror[p].label : p \in Procs} \cup {file.label}

OwnedOK ==
  \A t \in Tasks, q \in Projects :
    \A n \in TaskNodes(t) : nodes[q][n] # Absent => owner[t] = q

UnlabelledOK == \A L \in Copies : \A n \in Nodes \ Labelled : L[n] <= 0

MakersOK ==
  \A r \in 1..Len(makers) : \A p \in makers[r] :
    mode[p] # "off" /\ \A o \in makers[r] : o = p

(* No copy has a newer record of p's own than p's mirror.                  *)
AheadOK ==
  \A L \in Copies : \A n \in Nodes :
    L[n] > 0 =>
      \A p \in makers[L[n]] : mirror[p].label[n] <= 0 \/ L[n] <= mirror[p].label[n]

GraphInv ==
  /\ TypeInv /\ ForeignKeys /\ EventsAreBacked
  /\ \A p \in Procs : ProgramOK(p)
  /\ OwnedOK /\ UnlabelledOK /\ MakersOK /\ AheadOK

-----------------------------------------------------------------------------
(* Programs as sequences.                                                  *)

LEMMA Split ==
  ASSUME NEW a \in Seq(Call), NEW b \in Seq(Call)
  PROVE  /\ a \o b \in Seq(Call)
         /\ \A i \in 1..Len(a \o b) :
              \/ i \in 1..Len(a) /\ (a \o b)[i] = a[i] /\ Earlier(a \o b, i) = Earlier(a, i)
              \/ /\ i - Len(a) \in 1..Len(b) /\ (a \o b)[i] = b[i - Len(a)]
                 /\ Earlier(a \o b, i) = Elems(a) \cup Earlier(b, i - Len(a))
<1> DEFINE u == a \o b
<1>1. /\ u \in Seq(Call) /\ Len(u) = Len(a) + Len(b)
      /\ \A i \in 1..(Len(a) + Len(b)) : u[i] = IF i <= Len(a) THEN a[i] ELSE b[i - Len(a)]
  BY ConcatProperties
<1>2. Len(a) \in Nat /\ Len(b) \in Nat /\ DOMAIN a = 1..Len(a)
  BY LenProperties
<1> HIDE DEF u
<1>3. ASSUME NEW i \in 1..Len(u), i <= Len(a)
      PROVE  i \in 1..Len(a) /\ u[i] = a[i] /\ Earlier(u, i) = Earlier(a, i)
  <2>1. \A j \in 1..(i - 1) : u[j] = a[j]
    BY <1>1, <1>2, <1>3
  <2>2. Earlier(u, i) = Earlier(a, i)
    BY <2>1 DEF Earlier
  <2>3. QED
    BY <2>2, <1>1, <1>2, <1>3
<1>4. ASSUME NEW i \in 1..Len(u), ~(i <= Len(a))
      PROVE  /\ i - Len(a) \in 1..Len(b) /\ u[i] = b[i - Len(a)]
             /\ Earlier(u, i) = Elems(a) \cup Earlier(b, i - Len(a))
  <2>1. i - Len(a) \in 1..Len(b) /\ u[i] = b[i - Len(a)]
    BY <1>1, <1>2, <1>4
  <2>2. Earlier(u, i) \subseteq Elems(a) \cup Earlier(b, i - Len(a))
    <3>1. ASSUME NEW j \in 1..(i - 1) PROVE u[j] \in Elems(a) \cup Earlier(b, i - Len(a))
      <4>1. CASE j <= Len(a)
        <5>1. j \in DOMAIN a /\ u[j] = a[j]
          BY <4>1, <1>1, <1>2, <1>4
        <5>2. QED
          BY <5>1 DEF Elems
      <4>2. CASE ~(j <= Len(a))
        <5>1. j - Len(a) \in 1..(i - Len(a) - 1) /\ u[j] = b[j - Len(a)]
          BY <4>2, <1>1, <1>2, <1>4
        <5>2. QED
          BY <5>1 DEF Earlier
      <4>3. QED
        BY <4>1, <4>2
    <3>2. QED
      BY <3>1 DEF Earlier
  <2>3. Elems(a) \subseteq Earlier(u, i)
    <3>1. \A j \in 1..Len(a) : j \in 1..(i - 1) /\ u[j] = a[j]
      BY <1>1, <1>2, <1>4
    <3>2. QED
      BY <3>1, <1>2 DEF Elems, Earlier
  <2>4. Earlier(b, i - Len(a)) \subseteq Earlier(u, i)
    <3>1. ASSUME NEW j \in 1..(i - Len(a) - 1) PROVE b[j] \in Earlier(u, i)
      <4>1. /\ j + Len(a) \in 1..(i - 1) /\ j + Len(a) \in 1..(Len(a) + Len(b))
            /\ ~(j + Len(a) <= Len(a)) /\ (j + Len(a)) - Len(a) = j
        BY <1>1, <1>2, <1>4
      <4>2. u[j + Len(a)] = b[j]
        BY <4>1, <1>1
      <4>3. QED
        BY <4>1, <4>2 DEF Earlier
    <3>2. QED
      BY <3>1 DEF Earlier
  <2>5. QED
    BY <2>1, <2>2, <2>3, <2>4
<1>5. QED
  BY <1>1, <1>2, <1>3, <1>4 DEF u

LEMMA Rest ==
  ASSUME NEW s \in Seq(Call), s # <<>>
  PROVE  /\ Head(s) \in Call /\ Tail(s) \in Seq(Call) /\ s[1] = Head(s) /\ 1 \in 1..Len(s)
         /\ \A i \in 1..Len(Tail(s)) :
              /\ i + 1 \in 1..Len(s) /\ Tail(s)[i] = s[i + 1]
              /\ Earlier(s, i + 1) = {Head(s)} \cup Earlier(Tail(s), i)
<1> DEFINE v == Tail(s)
<1>1. /\ Head(s) \in Call /\ v \in Seq(Call) /\ Len(v) = Len(s) - 1
      /\ \A i \in 1..Len(v) : v[i] = s[i + 1]
  BY HeadTailProperties
<1>2. Len(s) \in Nat \ {0} /\ Len(v) \in Nat /\ s[1] = Head(s)
  BY <1>1, EmptySeq, LenProperties
<1> HIDE DEF v
<1>3. ASSUME NEW i \in 1..Len(v) PROVE Earlier(s, i + 1) = {Head(s)} \cup Earlier(v, i)
  <2>1. \A j \in 1..i : s[j] = Head(s) \/ (j - 1 \in 1..(i - 1) /\ s[j] = v[j - 1])
    <3>1. ASSUME NEW j \in 1..i, j # 1 PROVE j - 1 \in 1..(i - 1) /\ s[j] = v[j - 1]
      <4>1. j - 1 \in 1..Len(v) /\ (j - 1) + 1 = j
        BY <1>1, <1>2, <3>1
      <4>2. QED
        BY <4>1, <1>1, <3>1
    <3>2. QED
      BY <3>1, <1>2
  <2>2. \A j \in 1..(i - 1) : j + 1 \in 1..i /\ s[j + 1] = v[j]
    BY <1>1, <1>2
  <2>3. 1 \in 1..i /\ (i + 1) - 1 = i
    OBVIOUS
  <2>4. ASSUME NEW x \in Earlier(s, i + 1) PROVE x \in {Head(s)} \cup Earlier(v, i)
    BY <2>1, <2>3, <2>4 DEF Earlier
  <2>5. ASSUME NEW x \in Earlier(v, i) PROVE x \in Earlier(s, i + 1)
    BY <2>2, <2>3, <2>5 DEF Earlier
  <2>6. Head(s) \in Earlier(s, i + 1)
    BY <2>3, <1>2 DEF Earlier
  <2>7. QED
    BY <2>4, <2>5, <2>6
<1>4. QED
  BY <1>1, <1>2, <1>3 DEF v

-----------------------------------------------------------------------------
(* What a statement needs stays there.                                     *)

(* Rows and labels do not go.                                              *)
Grows(q) ==
  /\ \A n \in Nodes : nodes[q][n] # Absent => nodes'[q][n] # Absent
  /\ \A n \in Nodes : nodes[q][n] > 0 => nodes'[q][n] > 0
  /\ edges[q] \subseteq edges'[q]

(* Statement h has done its work, or has left it to the statements of B.   *)
Done(q, h, B) ==
  /\ h.op = "node" => nodes'[q][h.node] # Absent
  /\ h.op = "edge" => h.edge \in edges'[q]
  /\ h.op = "labels" =>
       \A n \in h.nodes : nodes[q][n] # Absent =>
         nodes'[q][n] > 0 \/ \E d \in B : d.op = "labels" /\ n \in d.nodes

LEMMA CallParts ==
  ASSUME NEW c \in Call
  PROVE  /\ c.op \in {"node", "edge", "event", "labels", "find", "save"} \cup Tagging
         /\ c.op = "node" => c.node \in Nodes
         /\ c.op = "edge" => c.edge \in Edge
         /\ c.op = "event" => c.event \in Event
         /\ c.op = "labels" => c.nodes \subseteq Labelled /\ c.record \in Nat
         /\ c.op = "find" => c.task \in Tasks /\ c.record \in Nat
         /\ c.op \in Tagging => c.task \in Tasks
  BY DEF Call, Tagging

LEMMA EventParts ==
  ASSUME NEW e \in Event
  PROVE  /\ e.kind \in Tagging => e.found \subseteq Nodes
         /\ e.kind \notin Tagging => e.kind \in Recorded /\ e.task \in Tasks /\ e.by \in Agents
  BY DEF Event, Tagging, Recorded

LEMMA SomeNodes ==
  /\ Labelled \subseteq Nodes
  /\ \A t \in Tasks : Task(t) \in Nodes /\ Task(t) \in Labelled /\ Task(t) \in TaskNodes(t)
  /\ \A t \in Tasks : TaskNodes(t) \subseteq Labelled /\ Snippets(t) \subseteq TaskNodes(t)
  /\ \A t \in Tasks, r \in Agents : Snippet(t, r) \in Snippets(t) /\ Snippet(t, r) \in Nodes
  /\ \A r \in Agents \cup {Upstream} : Agent(r) \in Nodes
  /\ File \in Nodes /\ Symbol \in Nodes
<1>1. \A t \in Tasks : Task(t) \in Nodes /\ Snippets(t) \subseteq Nodes
  BY DEF Nodes
<1>2. \A t \in Tasks : TaskNodes(t) \subseteq Labelled /\ Task(t) \in TaskNodes(t)
  BY DEF Labelled, TaskNodes
<1>3. \A t \in Tasks : TaskNodes(t) \subseteq Nodes /\ Snippets(t) \subseteq TaskNodes(t)
  BY <1>1 DEF TaskNodes
<1>4. Labelled \subseteq Nodes
  BY <1>3 DEF Labelled
<1>5. \A t \in Tasks, r \in Agents : Snippet(t, r) \in Snippets(t)
  BY DEF Snippets
<1>6. (\A r \in Agents \cup {Upstream} : Agent(r) \in Nodes) /\ File \in Nodes /\ Symbol \in Nodes
  BY DEF Nodes
<1>7. QED
  BY <1>1, <1>2, <1>3, <1>4, <1>5, <1>6

LEMMA EdgeParts ==
  ASSUME NEW e \in Edge
  PROVE  e[1] \in Nodes /\ e[3] \in Nodes
  BY DEF Edge

LEMMA NeedsKept ==
  ASSUME NEW q, Grows(q), NEW c \in Call, NEW X, NEW Y, X \subseteq Y, Needs(q, c, X)
  PROVE  Needs(q, c, Y)'
<1>1. c.op = "edge" =>
        \A n \in {c.edge[1], c.edge[3]} : nodes'[q][n] # Absent \/ PutNode(n) \in Y
  BY CallParts, EdgeParts DEF Grows, Needs
<1>2. ASSUME c.op = "event", c.event.kind \in Tagging, NEW n \in c.event.found
      PROVE  \/ nodes'[q][n] > 0
             \/ nodes'[q][n] # Absent /\ \E d \in Y : d.op = "labels" /\ n \in d.nodes
  <2>1. n \in Nodes
    BY <1>2, CallParts, EventParts
  <2>2. \/ nodes[q][n] > 0
        \/ nodes[q][n] # Absent /\ \E d \in X : d.op = "labels" /\ n \in d.nodes
    BY <1>2 DEF Needs
  <2>3. QED
    BY <2>1, <2>2 DEF Grows
<1>3. ASSUME c.op = "event", c.event.kind \notin Tagging
      PROVE  \A e \in EdgesOf(c.event.kind, c.event.task, c.event.by) :
               e \in edges'[q] \/ PutEdge(e) \in Y
  BY <1>3 DEF Needs, Grows
<1>4. c.op = "tag_task" =>
        nodes'[q][Task(c.task)] # Absent \/ PutNode(Task(c.task)) \in Y
  BY CallParts, SomeNodes DEF Needs, Grows, Tagging
<1>5. QED
  BY <1>1, <1>2, <1>3, <1>4 DEF Needs

LEMMA NeedsMet ==
  ASSUME NEW q, Grows(q), NEW c \in Call, NEW h, NEW X, NEW B,
         Done(q, h, B), Needs(q, c, {h} \cup X)
  PROVE  Needs(q, c, B \cup X)'
<1>1. \A n \in Nodes : PutNode(n) \in {h} \cup X => nodes'[q][n] # Absent \/ PutNode(n) \in B \cup X
  BY DEF PutNode, Done
<1>2. \A e : PutEdge(e) \in {h} \cup X => e \in edges'[q] \/ PutEdge(e) \in B \cup X
  BY DEF PutEdge, Done
<1>3. c.op = "edge" =>
        \A n \in {c.edge[1], c.edge[3]} : nodes'[q][n] # Absent \/ PutNode(n) \in B \cup X
  BY <1>1, CallParts, EdgeParts DEF Grows, Needs
<1>4. ASSUME c.op = "event", c.event.kind \in Tagging, NEW n \in c.event.found
      PROVE  \/ nodes'[q][n] > 0
             \/ nodes'[q][n] # Absent /\ \E d \in B \cup X : d.op = "labels" /\ n \in d.nodes
  <2>1. n \in Nodes
    BY <1>4, CallParts, EventParts
  <2>2. \/ nodes[q][n] > 0
        \/ nodes[q][n] # Absent /\ \E d \in {h} \cup X : d.op = "labels" /\ n \in d.nodes
    BY <1>4 DEF Needs
  <2>3. CASE nodes[q][n] > 0
    BY <2>1, <2>3 DEF Grows
  <2>4. ASSUME nodes[q][n] # Absent, NEW d \in {h} \cup X, d.op = "labels", n \in d.nodes
        PROVE  \/ nodes'[q][n] > 0
               \/ nodes'[q][n] # Absent /\ \E b \in B \cup X : b.op = "labels" /\ n \in b.nodes
    <3>1. nodes'[q][n] # Absent
      BY <2>1, <2>4 DEF Grows
    <3>2. CASE d = h
      BY <3>1, <3>2, <2>4 DEF Done
    <3>3. CASE d # h
      BY <3>1, <3>3, <2>4
    <3>4. QED
      BY <3>2, <3>3
  <2>5. QED
    BY <2>2, <2>3, <2>4
<1>5. ASSUME c.op = "event", c.event.kind \notin Tagging
      PROVE  \A e \in EdgesOf(c.event.kind, c.event.task, c.event.by) :
               e \in edges'[q] \/ PutEdge(e) \in B \cup X
  BY <1>5, <1>2 DEF Needs, Grows
<1>6. c.op = "tag_task" =>
        nodes'[q][Task(c.task)] # Absent \/ PutNode(Task(c.task)) \in B \cup X
  BY <1>1, CallParts, SomeNodes DEF Needs, Grows, Tagging
<1>7. QED
  BY <1>3, <1>4, <1>5, <1>6 DEF Needs

-----------------------------------------------------------------------------
(* What a program needs.                                                   *)

LEMMA SoundKept ==
  ASSUME NEW q, Grows(q), NEW s \in Seq(Call), NEW X, Sound(q, s, X)
  PROVE  Sound(q, s, X)'
<1>1. ASSUME NEW i \in 1..Len(s) PROVE Needs(q, s[i], X \cup Earlier(s, i))'
  <2>1. s[i] \in Call
    BY ElementOfSeq
  <2>2. Needs(q, s[i], X \cup Earlier(s, i))
    BY DEF Sound
  <2>3. QED
    BY <2>1, <2>2, NeedsKept
<1>2. QED
  BY <1>1 DEF Sound, Earlier

LEMMA SoundMet ==
  ASSUME NEW q, Grows(q), NEW s \in Seq(Call), NEW h, NEW B, Done(q, h, B), Sound(q, s, {h})
  PROVE  Sound(q, s, B)'
<1>1. ASSUME NEW i \in 1..Len(s) PROVE Needs(q, s[i], B \cup Earlier(s, i))'
  <2>1. s[i] \in Call
    BY ElementOfSeq
  <2>2. Needs(q, s[i], {h} \cup Earlier(s, i))
    BY DEF Sound
  <2>3. QED
    BY <2>1, <2>2, NeedsMet
<1>2. QED
  BY <1>1 DEF Sound, Earlier

LEMMA NeedsMore ==
  ASSUME NEW q, NEW c, NEW X, NEW Y, X \subseteq Y, Needs(q, c, X)
  PROVE  Needs(q, c, Y)
<1>1. c.op = "edge" =>
        \A n \in {c.edge[1], c.edge[3]} : nodes[q][n] # Absent \/ PutNode(n) \in Y
  BY DEF Needs
<1>2. ASSUME c.op = "event", c.event.kind \in Tagging, NEW n \in c.event.found
      PROVE  \/ nodes[q][n] > 0
             \/ nodes[q][n] # Absent /\ \E d \in Y : d.op = "labels" /\ n \in d.nodes
  BY <1>2 DEF Needs
<1>3. ASSUME c.op = "event", c.event.kind \notin Tagging
      PROVE  \A e \in EdgesOf(c.event.kind, c.event.task, c.event.by) :
               e \in edges[q] \/ PutEdge(e) \in Y
  BY <1>3 DEF Needs
<1>4. c.op = "tag_task" => nodes[q][Task(c.task)] # Absent \/ PutNode(Task(c.task)) \in Y
  BY DEF Needs
<1>5. QED
  BY <1>1, <1>2, <1>3, <1>4 DEF Needs

LEMMA SoundMore ==
  ASSUME NEW q, NEW s, NEW X, NEW Y, X \subseteq Y, Sound(q, s, X)
  PROVE  Sound(q, s, Y)
<1>1. ASSUME NEW i \in 1..Len(s) PROVE Needs(q, s[i], Y \cup Earlier(s, i))
  <2>1. Needs(q, s[i], X \cup Earlier(s, i)) /\ X \cup Earlier(s, i) \subseteq Y \cup Earlier(s, i)
    BY DEF Sound
  <2>2. QED
    BY <2>1, NeedsMore
<1>2. QED
  BY <1>1 DEF Sound

LEMMA SoundConcat ==
  ASSUME NEW q, NEW a \in Seq(Call), NEW b \in Seq(Call), NEW X,
         Sound(q, a, X), Sound(q, b, X \cup Elems(a))
  PROVE  Sound(q, a \o b, X)
<1>1. ASSUME NEW i \in 1..Len(a \o b) PROVE Needs(q, (a \o b)[i], X \cup Earlier(a \o b, i))
  <2>1. CASE i \in 1..Len(a) /\ (a \o b)[i] = a[i] /\ Earlier(a \o b, i) = Earlier(a, i)
    BY <2>1 DEF Sound
  <2>2. CASE /\ i - Len(a) \in 1..Len(b) /\ (a \o b)[i] = b[i - Len(a)]
             /\ Earlier(a \o b, i) = Elems(a) \cup Earlier(b, i - Len(a))
    <3>1. Needs(q, b[i - Len(a)], (X \cup Elems(a)) \cup Earlier(b, i - Len(a)))
      BY <2>2 DEF Sound
    <3>2. (X \cup Elems(a)) \cup Earlier(b, i - Len(a)) = X \cup Earlier(a \o b, i)
      BY <2>2
    <3>3. QED
      BY <3>1, <3>2, <2>2
  <2>3. QED
    BY <2>1, <2>2, Split
<1>2. QED
  BY <1>1 DEF Sound

LEMMA SoundRest ==
  ASSUME NEW q, NEW s \in Seq(Call), s # <<>>, Sound(q, s, {})
  PROVE  Needs(q, Head(s), {}) /\ Sound(q, Tail(s), {Head(s)})
<1>1. Needs(q, Head(s), {})
  <2>1. Earlier(s, 1) = {}
    BY DEF Earlier
  <2>2. s[1] = Head(s) /\ 1 \in 1..Len(s)
    BY Rest
  <2>3. Needs(q, s[1], {} \cup Earlier(s, 1))
    BY <2>2 DEF Sound
  <2>4. QED
    BY <2>1, <2>2, <2>3
<1>2. ASSUME NEW i \in 1..Len(Tail(s))
      PROVE  Needs(q, Tail(s)[i], {Head(s)} \cup Earlier(Tail(s), i))
  <2>1. Needs(q, s[i + 1], {} \cup Earlier(s, i + 1))
    BY Rest DEF Sound
  <2>2. QED
    BY <2>1, Rest
<1>3. QED
  BY <1>1, <1>2 DEF Sound

(* Part of the program of a hop, that follows the statements of X.         *)
Block(q, s, X) ==
  /\ s \in Seq(Call) /\ Sound(q, s, X)
  /\ \A i \in 1..Len(s) : Own(q, s[i]) /\ s[i].op \notin Numbered

LEMMA BlockConcat ==
  ASSUME NEW q, NEW a, NEW b, NEW X, Block(q, a, X), Block(q, b, X \cup Elems(a))
  PROVE  Block(q, a \o b, X)
<1>1. a \in Seq(Call) /\ b \in Seq(Call)
  BY DEF Block
<1>2. a \o b \in Seq(Call) /\ Sound(q, a \o b, X)
  BY <1>1, Split, SoundConcat DEF Block
<1>3. ASSUME NEW i \in 1..Len(a \o b)
      PROVE  Own(q, (a \o b)[i]) /\ (a \o b)[i].op \notin Numbered
  BY <1>1, Split DEF Block
<1>4. QED
  BY <1>2, <1>3 DEF Block

LEMMA BlockMore ==
  ASSUME NEW q, NEW s, NEW X, NEW Y, X \subseteq Y, Block(q, s, X)
  PROVE  Block(q, s, Y)
  BY SoundMore DEF Block

LEMMA BlockPrefix ==
  ASSUME NEW a \in Seq(Call), NEW b \in Seq(Call)
  PROVE  Elems(a) \subseteq Elems(a \o b)
<1>1. \A i \in 1..Len(a) : i \in 1..Len(a \o b) /\ (a \o b)[i] = a[i]
  BY ConcatProperties, LenProperties
<1>2. DOMAIN a = 1..Len(a) /\ DOMAIN (a \o b) = 1..Len(a \o b)
  BY Split, LenProperties
<1>3. QED
  BY <1>1, <1>2 DEF Elems

-----------------------------------------------------------------------------
(* The programs of a hop need nothing that they do not bring.              *)

LEMMA TaskOf ==
  ASSUME NEW t \in Tasks
  PROVE  /\ \A u \in Tasks : Task(t) \in TaskNodes(u) => u = t
         /\ \A u \in Tasks, r \in Agents : Snippet(t, r) \in TaskNodes(u) => u = t
         /\ \A u \in Tasks, r \in Agents \cup {Upstream} : Agent(r) \notin TaskNodes(u)
         /\ \A u \in Tasks : File \notin TaskNodes(u) /\ Symbol \notin TaskNodes(u)
  BY DEF TaskNodes, Snippets, Snippet, Task, Agent, File, Symbol

LEMMA CallsOf ==
  ASSUME NEW q, NEW t \in Tasks, owner[t] = q, NEW r \in Agents
  PROVE  /\ \A n \in {Task(t), Snippet(t, r), File, Symbol, Agent(r), Agent(Upstream)} :
              PutNode(n) \in Call /\ Own(q, PutNode(n))
         /\ \A e \in {Handoff(r), WorkedOn(Upstream, t), WorkedOn(r, t), Changed(t),
                      Made(t, Snippet(t, r)), Contains("contains_snippet", Snippet(t, r)),
                      Contains("contains", Symbol), BlastRadius(t)} :
              PutEdge(e) \in Call /\ Own(q, PutEdge(e))
         /\ \A k \in Recorded : PutEvent(k, t, r) \in Call /\ Own(q, PutEvent(k, t, r))
<1>1. ASSUME NEW n \in {Task(t), Snippet(t, r), File, Symbol, Agent(r), Agent(Upstream)}
      PROVE  PutNode(n) \in Call /\ Own(q, PutNode(n))
  <2>1. n \in Nodes
    BY SomeNodes
  <2>2. \A u \in Tasks : n \in TaskNodes(u) => owner[u] = q
    BY TaskOf
  <2>3. QED
    BY <2>1, <2>2 DEF PutNode, Call, Own, Tagging
<1>2. ASSUME NEW e \in {Handoff(r), WorkedOn(Upstream, t), WorkedOn(r, t), Changed(t),
                        Made(t, Snippet(t, r)), Contains("contains_snippet", Snippet(t, r)),
                        Contains("contains", Symbol), BlastRadius(t)}
      PROVE  PutEdge(e) \in Call /\ Own(q, PutEdge(e))
  <2>1. e \in Edge
    BY SomeNodes
    DEF Handoff, WorkedOn, Changed, Made, Contains, BlastRadius, Edge, Relations
  <2>2. QED
    BY <2>1 DEF PutEdge, Call, Own, Tagging
<1>3. ASSUME NEW k \in Recorded
      PROVE  PutEvent(k, t, r) \in Call /\ Own(q, PutEvent(k, t, r))
  BY DEF PutEvent, Event, Call, Own, Tagging
<1>4. QED
  BY <1>1, <1>2, <1>3

(* Statements that need nothing, and statements after what they need.      *)
LEMMA NodeNeeds ==
  ASSUME NEW q, NEW n, NEW X
  PROVE  Needs(q, PutNode(n), X)
  BY DEF Needs, PutNode

LEMMA EdgeNeeds ==
  ASSUME NEW q, NEW e, NEW X, PutNode(e[1]) \in X, PutNode(e[3]) \in X
  PROVE  Needs(q, PutEdge(e), X)
  BY DEF Needs, PutEdge

LEMMA EventNeeds ==
  ASSUME NEW q, NEW k \in Recorded, NEW t, NEW r, NEW X,
         \A e \in EdgesOf(k, t, r) : PutEdge(e) \in X
  PROVE  Needs(q, PutEvent(k, t, r), X)
  BY DEF Needs, PutEvent, Recorded, Tagging

LEMMA EarlierOf ==
  ASSUME NEW s, NEW i \in Nat, NEW j \in 1..(i - 1)
  PROVE  s[j] \in Earlier(s, i)
  BY DEF Earlier

LEMMA HandoffBlock ==
  ASSUME NEW q, NEW t \in Tasks, owner[t] = q, NEW r \in Agents
  PROVE  Block(q, RecordHandoff(t, r), {}) /\ PutNode(Task(t)) \in Elems(RecordHandoff(t, r))
<1> DEFINE s == RecordHandoff(t, r)
<1>1. /\ s \in Seq(Call) /\ Len(s) = 7 /\ DOMAIN s = 1..7
      /\ s[1] = PutNode(Agent(Upstream)) /\ s[2] = PutNode(Agent(r)) /\ s[3] = PutNode(Task(t))
      /\ s[4] = PutEdge(Handoff(r)) /\ s[5] = PutEdge(WorkedOn(Upstream, t))
      /\ s[6] = PutEdge(WorkedOn(r, t)) /\ s[7] = PutEvent("handoff", t, r)
  BY CallsOf DEF RecordHandoff, Recorded
<1> HIDE DEF s
<1>2. \A i \in 1..7 : Own(q, s[i]) /\ s[i].op \notin Numbered
  <2>1. Own(q, s[1]) /\ Own(q, s[2]) /\ Own(q, s[3]) /\ Own(q, s[4]) /\ Own(q, s[5])
        /\ Own(q, s[6]) /\ Own(q, s[7])
    BY <1>1, CallsOf DEF Recorded
  <2>2. \A i \in 1..7 : s[i].op \in {"node", "edge", "event"}
    BY <1>1 DEF PutNode, PutEdge, PutEvent
  <2>3. QED
    BY <2>1, <2>2 DEF Numbered
<1>3. \A i \in 1..3 : Needs(q, s[i], Earlier(s, i))
  BY <1>1, NodeNeeds
<1>4. \A i \in 4..7 : s[1] \in Earlier(s, i) /\ s[2] \in Earlier(s, i) /\ s[3] \in Earlier(s, i)
  BY DEF Earlier
<1>5. Needs(q, s[4], Earlier(s, 4))
  BY <1>1, <1>4, EdgeNeeds DEF Handoff
<1>6. Needs(q, s[5], Earlier(s, 5))
  BY <1>1, <1>4, EdgeNeeds DEF WorkedOn
<1>7. Needs(q, s[6], Earlier(s, 6))
  BY <1>1, <1>4, EdgeNeeds DEF WorkedOn
<1>8. Needs(q, s[7], Earlier(s, 7))
  <2>1. s[4] \in Earlier(s, 7) /\ s[5] \in Earlier(s, 7) /\ s[6] \in Earlier(s, 7)
    BY EarlierOf
  <2>2. \A e \in EdgesOf("handoff", t, r) : PutEdge(e) \in Earlier(s, 7)
    BY <1>1, <2>1 DEF EdgesOf
  <2>3. QED
    BY <1>1, <2>2, EventNeeds DEF Recorded
<1>9. \A i \in 1..7 : Needs(q, s[i], {} \cup Earlier(s, i))
  BY <1>3, <1>5, <1>6, <1>7, <1>8
<1>10. QED
  BY <1>1, <1>2, <1>9 DEF Block, Sound, Elems, s

LEMMA ChangeBlock ==
  ASSUME NEW q, NEW t \in Tasks, owner[t] = q, NEW r \in Agents
  PROVE  Block(q, RecordChange(t, r), {})
<1> DEFINE s == RecordChange(t, r)
<1>1. /\ s \in Seq(Call) /\ Len(s) = 4 /\ DOMAIN s = 1..4
      /\ s[1] = PutNode(Task(t)) /\ s[2] = PutNode(File)
      /\ s[3] = PutEdge(Changed(t)) /\ s[4] = PutEvent("changed", t, r)
  BY CallsOf DEF RecordChange, Recorded
<1> HIDE DEF s
<1>2. \A i \in 1..4 : Own(q, s[i]) /\ s[i].op \notin Numbered
  <2>1. Own(q, s[1]) /\ Own(q, s[2]) /\ Own(q, s[3]) /\ Own(q, s[4])
    BY <1>1, CallsOf DEF Recorded
  <2>2. \A i \in 1..4 : s[i].op \in {"node", "edge", "event"}
    BY <1>1 DEF PutNode, PutEdge, PutEvent
  <2>3. QED
    BY <2>1, <2>2 DEF Numbered
<1>3. \A i \in {1, 2} : Needs(q, s[i], Earlier(s, i))
  BY <1>1, NodeNeeds
<1>4. Needs(q, s[3], Earlier(s, 3))
  <2>1. s[1] \in Earlier(s, 3) /\ s[2] \in Earlier(s, 3)
    BY EarlierOf
  <2>2. QED
    BY <1>1, <2>1, EdgeNeeds DEF Changed
<1>5. Needs(q, s[4], Earlier(s, 4))
  <2>1. s[3] \in Earlier(s, 4)
    BY EarlierOf
  <2>2. \A e \in EdgesOf("changed", t, r) : PutEdge(e) \in Earlier(s, 4)
    BY <1>1, <2>1 DEF EdgesOf
  <2>3. QED
    BY <1>1, <2>2, EventNeeds DEF Recorded
<1>6. \A i \in 1..4 : Needs(q, s[i], {} \cup Earlier(s, i))
  BY <1>3, <1>4, <1>5
<1>7. QED
  BY <1>1, <1>2, <1>6 DEF Block, Sound, s

LEMMA SnippetBlock ==
  ASSUME NEW q, NEW t \in Tasks, owner[t] = q, NEW r \in Agents
  PROVE  Block(q, RecordSnippet(t, r), {})
<1> DEFINE s == RecordSnippet(t, r)
<1>1. /\ s \in Seq(Call) /\ Len(s) = 6 /\ DOMAIN s = 1..6
      /\ s[1] = PutNode(Snippet(t, r)) /\ s[2] = PutNode(Task(t))
      /\ s[3] = PutNode(File) /\ s[4] = PutEdge(Made(t, Snippet(t, r)))
      /\ s[5] = PutEdge(Contains("contains_snippet", Snippet(t, r))) /\ s[6] = PutEvent("snippet", t, r)
  BY CallsOf DEF RecordSnippet, Recorded
<1> HIDE DEF s
<1>2. \A i \in 1..6 : Own(q, s[i]) /\ s[i].op \notin Numbered
  <2>1. Own(q, s[1]) /\ Own(q, s[2]) /\ Own(q, s[3]) /\ Own(q, s[4]) /\ Own(q, s[5])
        /\ Own(q, s[6])
    BY <1>1, CallsOf DEF Recorded
  <2>2. \A i \in 1..6 : s[i].op \in {"node", "edge", "event"}
    BY <1>1 DEF PutNode, PutEdge, PutEvent
  <2>3. QED
    BY <2>1, <2>2 DEF Numbered
<1>3. \A i \in {1, 2, 3} : Needs(q, s[i], Earlier(s, i))
  BY <1>1, NodeNeeds
<1>4. Needs(q, s[4], Earlier(s, 4))
  <2>1. s[2] \in Earlier(s, 4) /\ s[1] \in Earlier(s, 4)
    BY EarlierOf
  <2>2. QED
    BY <1>1, <2>1, EdgeNeeds DEF Made
<1>5. Needs(q, s[5], Earlier(s, 5))
  <2>1. s[3] \in Earlier(s, 5) /\ s[1] \in Earlier(s, 5)
    BY EarlierOf
  <2>2. QED
    BY <1>1, <2>1, EdgeNeeds DEF Contains
<1>6. Needs(q, s[6], Earlier(s, 6))
  <2>1. s[4] \in Earlier(s, 6) /\ s[5] \in Earlier(s, 6)
    BY EarlierOf
  <2>2. \A e \in EdgesOf("snippet", t, r) : PutEdge(e) \in Earlier(s, 6)
    BY <1>1, <2>1 DEF EdgesOf
  <2>3. QED
    BY <1>1, <2>2, EventNeeds DEF Recorded
<1>7. \A i \in 1..6 : Needs(q, s[i], {} \cup Earlier(s, i))
  BY <1>3, <1>4, <1>5, <1>6
<1>8. QED
  BY <1>1, <1>2, <1>7 DEF Block, Sound, s

LEMMA ImpactBlock ==
  ASSUME NEW q, NEW t \in Tasks, owner[t] = q, NEW r \in Agents
  PROVE  Block(q, RecordImpact(t, r), {})
<1> DEFINE s == RecordImpact(t, r)
<1>1. /\ s \in Seq(Call) /\ Len(s) = 8 /\ DOMAIN s = 1..8
      /\ s[1] = PutNode(Task(t)) /\ s[2] = PutNode(File)
      /\ s[3] = PutEdge(Changed(t)) /\ s[4] = PutNode(Symbol)
      /\ s[5] = PutEdge(Contains("contains", Symbol)) /\ s[6] = PutEdge(BlastRadius(t))
      /\ s[7] = PutEvent("impact", t, r) /\ s[8] = PutNode(Symbol)
  BY CallsOf DEF RecordImpact, Recorded
<1> HIDE DEF s
<1>2. \A i \in 1..8 : Own(q, s[i]) /\ s[i].op \notin Numbered
  <2>1. Own(q, s[1]) /\ Own(q, s[2]) /\ Own(q, s[3]) /\ Own(q, s[4]) /\ Own(q, s[5])
        /\ Own(q, s[6]) /\ Own(q, s[7]) /\ Own(q, s[8])
    BY <1>1, CallsOf DEF Recorded
  <2>2. \A i \in 1..8 : s[i].op \in {"node", "edge", "event"}
    BY <1>1 DEF PutNode, PutEdge, PutEvent
  <2>3. QED
    BY <2>1, <2>2 DEF Numbered
<1>3. \A i \in {1, 2, 4, 8} : Needs(q, s[i], Earlier(s, i))
  BY <1>1, NodeNeeds
<1>4. Needs(q, s[3], Earlier(s, 3))
  <2>1. s[1] \in Earlier(s, 3) /\ s[2] \in Earlier(s, 3)
    BY EarlierOf
  <2>2. QED
    BY <1>1, <2>1, EdgeNeeds DEF Changed
<1>5. Needs(q, s[5], Earlier(s, 5))
  <2>1. s[2] \in Earlier(s, 5) /\ s[4] \in Earlier(s, 5)
    BY EarlierOf
  <2>2. QED
    BY <1>1, <2>1, EdgeNeeds DEF Contains
<1>6. Needs(q, s[6], Earlier(s, 6))
  <2>1. s[1] \in Earlier(s, 6) /\ s[4] \in Earlier(s, 6)
    BY EarlierOf
  <2>2. QED
    BY <1>1, <2>1, EdgeNeeds DEF BlastRadius
<1>7. Needs(q, s[7], Earlier(s, 7))
  <2>1. s[3] \in Earlier(s, 7) /\ s[5] \in Earlier(s, 7) /\ s[6] \in Earlier(s, 7)
    BY EarlierOf
  <2>2. \A e \in EdgesOf("impact", t, r) : PutEdge(e) \in Earlier(s, 7)
    BY <1>1, <2>1 DEF EdgesOf
  <2>3. QED
    BY <1>1, <2>2, EventNeeds DEF Recorded
<1>8. \A i \in 1..8 : Needs(q, s[i], {} \cup Earlier(s, i))
  BY <1>3, <1>4, <1>5, <1>6, <1>7
<1>9. QED
  BY <1>1, <1>2, <1>8 DEF Block, Sound, s


LEMMA TagBlocks ==
  ASSUME NEW q, NEW t \in Tasks, owner[t] = q, NEW X
  PROVE  /\ Block(q, TagRelevance(t), {}) /\ Block(q, <<Save>>, {}) /\ Block(q, <<>>, {})
         /\ PutNode(Task(t)) \in X => Block(q, TagTask(t), X)
<1>1. ASSUME NEW c \in Call, Own(q, c), c.op \notin Numbered, NEW Y, Needs(q, c, Y)
      PROVE  Block(q, <<c>>, Y)
  <2>1. <<c>> \in Seq(Call) /\ Len(<<c>>) = 1 /\ <<c>>[1] = c
    OBVIOUS
  <2>2. \A i \in 1..1 : Needs(q, <<c>>[i], Y \cup Earlier(<<c>>, i))
    BY <1>1, <2>1, NeedsMore
  <2>3. QED
    BY <1>1, <2>1, <2>2 DEF Block, Sound
<1>2. Block(q, TagRelevance(t), {})
  <2> DEFINE c == [op |-> "tag_relevance", task |-> t]
  <2>1. c \in Call /\ Own(q, c) /\ c.op \notin Numbered /\ Needs(q, c, {})
    BY DEF Call, Own, Needs, Tagging, Numbered
  <2>2. QED
    BY <1>1, <2>1 DEF TagRelevance
<1>3. Block(q, <<Save>>, {})
  <2>1. Save \in Call /\ Own(q, Save) /\ Save.op \notin Numbered /\ Needs(q, Save, {})
    BY DEF Call, Own, Needs, Tagging, Numbered, Save
  <2>2. QED
    BY <1>1, <2>1
<1>4. Block(q, <<>>, {})
  BY EmptySeq DEF Block, Sound
<1>5. ASSUME PutNode(Task(t)) \in X PROVE Block(q, TagTask(t), X)
  <2> DEFINE c == [op |-> "tag_task", task |-> t]
  <2>1. c \in Call /\ Own(q, c) /\ c.op \notin Numbered /\ Needs(q, c, X)
    BY <1>5 DEF Call, Own, Needs, Tagging, Numbered
  <2>2. QED
    BY <1>1, <2>1 DEF TagTask
<1>6. QED
  BY <1>2, <1>3, <1>4, <1>5

LEMMA HopBlock ==
  ASSUME NEW q, NEW t \in Tasks, owner[t] = q, NEW r \in Agents, NEW extras,
         NEW how \in {"durable", "inline", "plan"}
  PROVE  Block(q, EnrichGraph(t, r, extras) \o Afterwards(t, how), {})
<1> DEFINE tag == IF "tag" \in extras THEN TagRelevance(t) ELSE <<>>
           impact == IF "impact" \in extras THEN RecordImpact(t, r) \o TagRelevance(t) ELSE <<>>
           three == RecordHandoff(t, r) \o RecordChange(t, r) \o RecordSnippet(t, r)
<1>1. /\ Block(q, RecordHandoff(t, r), {}) /\ Block(q, RecordChange(t, r), {})
      /\ Block(q, RecordSnippet(t, r), {}) /\ Block(q, tag, {})
  BY HandoffBlock, ChangeBlock, SnippetBlock, TagBlocks
<1>2. Block(q, impact, {})
  <2>1. Block(q, RecordImpact(t, r), {}) /\ Block(q, TagRelevance(t), {}) /\ Block(q, <<>>, {})
    BY ImpactBlock, TagBlocks
  <2>2. QED
    BY <2>1, BlockConcat, BlockMore
<1>3. ASSUME NEW a, NEW b, Block(q, a, {}), Block(q, b, {})
      PROVE  Block(q, a \o b, {}) /\ Elems(a) \subseteq Elems(a \o b)
  <2>1. Block(q, b, {} \cup Elems(a))
    BY <1>3, BlockMore
  <2>2. Block(q, a \o b, {})
    BY <1>3, <2>1, BlockConcat
  <2>3. QED
    BY <2>2, <1>3, BlockPrefix DEF Block
<1>4. Block(q, three, {}) /\ PutNode(Task(t)) \in Elems(three)
  BY <1>1, <1>3, HandoffBlock
<1> HIDE DEF three, tag, impact
<1>5. Block(q, three \o tag, {}) /\ PutNode(Task(t)) \in Elems(three \o tag)
  BY <1>1, <1>3, <1>4
<1>6. /\ Block(q, three \o tag \o impact, {})
      /\ PutNode(Task(t)) \in Elems(three \o tag \o impact)
  BY <1>2, <1>3, <1>5
<1>7. EnrichGraph(t, r, extras) = three \o tag \o impact
  BY DEF EnrichGraph, three, tag, impact
<1>8. Block(q, Afterwards(t, how), Elems(EnrichGraph(t, r, extras)))
  <2> DEFINE X == Elems(EnrichGraph(t, r, extras))
  <2>1. Block(q, <<>>, X) /\ Block(q, <<Save>>, X) /\ Block(q, TagRelevance(t), X)
    BY TagBlocks, BlockMore
  <2>2. Block(q, TagTask(t), X \cup Elems(TagRelevance(t)))
    BY <1>6, <1>7, TagBlocks
  <2>3. Block(q, TagRelevance(t) \o TagTask(t), X)
    BY <2>1, <2>2, BlockConcat
  <2>4. Block(q, <<Save>>, X \cup Elems(TagRelevance(t) \o TagTask(t)))
    BY <2>1, BlockMore
  <2>5. Block(q, TagRelevance(t) \o TagTask(t) \o <<Save>>, X)
    BY <2>3, <2>4, BlockConcat
  <2>6. QED
    BY <2>1, <2>5 DEF Afterwards
<1>9. QED
  BY <1>6, <1>7, <1>8, BlockConcat

-----------------------------------------------------------------------------
(* What a statement does to the mirror and to the tables.                  *)

(* A statement that may run: a label of a loop has a record already.       *)
Runnable(c) == c \in Call \cup LabelCall /\ (c.op = "label" => c.record \in 1..Len(makers))

LEMMA RunnableParts ==
  ASSUME NEW c, Runnable(c)
  PROVE  /\ c.op \in {"node", "edge", "event", "labels", "find", "save", "label"} \cup Tagging
         /\ c.op = "node" => c.node \in Nodes
         /\ c.op = "label" => c.node \in Nodes /\ c.node \in Labelled /\ c.record \in 1..Len(makers)
         /\ c.op = "edge" => c.edge \in Edge
         /\ c.op = "event" => c.event \in Event
         /\ c.op # "label" => c \in Call
<1>1. CASE c \in Call
  <2>1. c.op # "label"
    BY <1>1, CallParts DEF Tagging
  <2>2. QED
    BY <1>1, <2>1, CallParts
<1>2. CASE c \in LabelCall
  BY <1>2, SomeNodes DEF Runnable, LabelCall
<1>3. QED
  BY <1>1, <1>2 DEF Runnable

LEMMA MirroredParts ==
  ASSUME TypeInv, NEW m \in Graph, NEW c, Runnable(c)
  PROVE  /\ Mirrored(m, c) \in Graph
         /\ \A n \in Nodes :
              Mirrored(m, c).label[n] =
                IF c.op = "node" /\ n = c.node /\ m.label[n] = Absent THEN 0
                ELSE IF c.op = "label" /\ n = c.node /\ m.label[n] # Absent THEN c.record
                ELSE m.label[n]
<1>1. /\ m.label \in [Nodes -> Absent..Len(makers)] /\ m.links \in SUBSET SUBSET Nodes
      /\ m = [label |-> m.label, links |-> m.links] /\ Len(makers) \in Nat
  BY LenProperties DEF Graph, Label, TypeInv
<1>2. CASE c.op = "node"
  <2>1. Mirrored(m, c) =
          [label |-> [m.label EXCEPT ![c.node] = IF @ = Absent THEN 0 ELSE @], links |-> m.links]
    BY <1>1, <1>2 DEF Mirrored
  <2>2. QED
    BY <1>1, <1>2, <2>1, RunnableParts DEF Graph, Label, Absent
<1>3. CASE c.op = "label"
  <2>1. Mirrored(m, c) =
          [label |-> [m.label EXCEPT ![c.node] = IF @ = Absent THEN @ ELSE c.record],
           links |-> m.links]
    BY <1>1, <1>3 DEF Mirrored
  <2>2. QED
    BY <1>1, <1>3, <2>1, RunnableParts DEF Graph, Label, Absent
<1>4. CASE c.op = "edge"
  <2>1. Mirrored(m, c) = [label |-> m.label, links |-> m.links \cup {{c.edge[1], c.edge[3]}}]
    BY <1>1, <1>4 DEF Mirrored
  <2>2. c.edge[1] \in Nodes /\ c.edge[3] \in Nodes
    BY <1>4, RunnableParts, EdgeParts
  <2>3. QED
    BY <1>1, <1>4, <2>1, <2>2 DEF Graph, Label
<1>5. CASE c.op \notin {"node", "label", "edge"}
  <2>1. Mirrored(m, c) = m
    BY <1>5 DEF Mirrored
  <2>2. QED
    BY <2>1, <1>5
<1>6. QED
  BY <1>2, <1>3, <1>4, <1>5

LEMMA MirrorStep ==
  ASSUME TypeInv, NEW p \in Procs, NEW c, Runnable(c),
         mirror' = [mirror EXCEPT ![p] = Mirrored(@, c)]
  PROVE  /\ mirror' \in [Procs -> Graph] /\ \A o \in Procs \ {p} : mirror'[o] = mirror[o]
         /\ mirror'[p] = Mirrored(mirror[p], c)
         /\ \A n \in Nodes :
              mirror'[p].label[n] =
                IF c.op = "node" /\ n = c.node /\ mirror[p].label[n] = Absent THEN 0
                ELSE IF c.op = "label" /\ n = c.node /\ mirror[p].label[n] # Absent THEN c.record
                ELSE mirror[p].label[n]
<1>1. mirror \in [Procs -> Graph] /\ mirror[p] \in Graph
  BY DEF TypeInv
<1>2. mirror'[p] = Mirrored(mirror[p], c) /\ Mirrored(mirror[p], c) \in Graph
  BY <1>1, MirroredParts
<1>3. mirror' \in [Procs -> Graph] /\ \A o \in Procs \ {p} : mirror'[o] = mirror[o]
  BY <1>1, <1>2
<1>4. QED
  BY <1>1, <1>2, <1>3, MirroredParts

LEMMA StoredParts ==
  ASSUME TypeInv, NEW p \in Procs, NEW c, Runnable(c), Stored(p, c)
  PROVE  /\ nodes' \in [Projects -> Label]
         /\ edges' \in [Projects -> SUBSET Edge] /\ events' \in [Projects -> SUBSET Event]
         /\ \A q \in Projects, n \in Nodes :
              nodes'[q][n] =
                IF c.op = "node" /\ q = project[p] /\ n = c.node
                  THEN MergedLabels(nodes[q][n], mirror[p].label[n])
                ELSE IF c.op = "label" /\ n = c.node /\ nodes[q][n] # Absent THEN c.record
                ELSE nodes[q][n]
         /\ \A q \in Projects :
              /\ edges'[q] =
                   IF c.op = "edge" /\ q = project[p] THEN edges[q] \cup {c.edge} ELSE edges[q]
              /\ events'[q] =
                   IF c.op = "event" /\ q = project[p] THEN events[q] \cup {c.event} ELSE events[q]
<1>1. /\ nodes \in [Projects -> Label] /\ project[p] \in Projects /\ Len(makers) \in Nat
      /\ mirror[p].label \in Label
      /\ \A q \in Projects : nodes[q] \in [Nodes -> Absent..Len(makers)]
  BY LenProperties DEF TypeInv, Graph, Label
<1>2. /\ edges' \in [Projects -> SUBSET Edge] /\ events' \in [Projects -> SUBSET Event]
      /\ \A q \in Projects :
              /\ edges'[q] =
                   IF c.op = "edge" /\ q = project[p] THEN edges[q] \cup {c.edge} ELSE edges[q]
              /\ events'[q] =
                   IF c.op = "event" /\ q = project[p] THEN events[q] \cup {c.event} ELSE events[q]
  BY <1>1, RunnableParts DEF Stored, TypeInv
<1> DEFINE new(q, n) == 
             IF c.op = "node" /\ q = project[p] /\ n = c.node
                  THEN MergedLabels(nodes[q][n], mirror[p].label[n])
                ELSE IF c.op = "label" /\ n = c.node /\ nodes[q][n] # Absent THEN c.record
                ELSE nodes[q][n]
<1>3. nodes' \in [Projects -> Label] /\ \A q \in Projects, n \in Nodes : nodes'[q][n] = new(q, n)
  <2>1. CASE c.op = "node"
    <3> DEFINE m == MergedLabels(nodes[project[p]][c.node], mirror[p].label[c.node])
    <3>1. c.node \in Nodes
      BY <2>1, RunnableParts
    <3>2. m \in Absent..Len(makers)
      BY <1>1, <3>1 DEF MergedLabels, Label, Absent
    <3>3. nodes' = [nodes EXCEPT ![project[p]] = [nodes[project[p]] EXCEPT ![c.node] = m]]
      BY <2>1, <1>1, <3>1 DEF Stored
    <3> HIDE DEF m
    <3>4. [nodes[project[p]] EXCEPT ![c.node] = m] \in Label
      BY <1>1, <3>1, <3>2 DEF Label
    <3>5. /\ nodes' \in [Projects -> Label]
          /\ nodes'[project[p]] = [nodes[project[p]] EXCEPT ![c.node] = m]
          /\ \A q \in Projects \ {project[p]} : nodes'[q] = nodes[q]
      BY <1>1, <3>3, <3>4
    <3>6. \A n \in Nodes : nodes'[project[p]][n] = IF n = c.node THEN m ELSE nodes[project[p]][n]
      BY <1>1, <3>5
    <3>7. QED
      BY <2>1, <3>5, <3>6 DEF m
  <2>2. CASE c.op = "label"
    <3>1. c.node \in Nodes /\ c.record \in 1..Len(makers)
      BY <2>2, RunnableParts
    <3>2. nodes' = [x \in Projects |->
                      [nodes[x] EXCEPT ![c.node] = IF @ = Absent THEN @ ELSE c.record]]
      BY <2>2 DEF Stored
    <3>3. ASSUME NEW q \in Projects
          PROVE  nodes'[q] \in Label /\ \A n \in Nodes : nodes'[q][n] = new(q, n)
      BY <1>1, <2>2, <3>1, <3>2 DEF Label, Absent
    <3>4. QED
      BY <3>2, <3>3
  <2>3. CASE c.op \notin {"node", "label"}
    <3>1. nodes' = nodes
      BY <2>3 DEF Stored
    <3>2. QED
      BY <2>3, <3>1, <1>1
  <2>4. QED
    BY <2>1, <2>2, <2>3
<1>4. QED
  BY <1>2, <1>3

LEMMA StoredGrows ==
  ASSUME TypeInv, NEW p \in Procs, NEW c, Runnable(c), Stored(p, c), NEW q \in Projects
  PROVE  Grows(q)
<1>1. Len(makers) \in Nat /\ \A n \in Nodes : nodes[q][n] \in Absent..Len(makers)
  BY LenProperties DEF TypeInv, Label
<1>2. c.op = "label" => c.record > 0 /\ c.record # Absent
  BY RunnableParts, <1>1 DEF Absent
<1>3. ASSUME NEW n \in Nodes
      PROVE  /\ nodes[q][n] # Absent => nodes'[q][n] # Absent
             /\ nodes[q][n] > 0 => nodes'[q][n] > 0
  <2>1. mirror[p].label[n] \in Absent..Len(makers)
    BY DEF TypeInv, Graph, Label
  <2>2. QED
    BY <1>1, <1>2, <2>1, StoredParts DEF MergedLabels, Absent
<1>4. edges[q] \subseteq edges'[q]
  BY StoredParts
<1>5. QED
  BY <1>3, <1>4 DEF Grows

-----------------------------------------------------------------------------
(* The statement that runs, and what it puts before the rest.              *)

LEMMA ReadyParts ==
  ASSUME TypeInv, NEW p \in Procs, ProgramOK(p), todo[p] # <<>>, NEW c \in Ready(p)
  PROVE  LET h == Head(todo[p]) IN
         /\ h \in Call /\ Runnable(c) /\ mode[p] # "off" /\ Own(project[p], h)
         /\ h.op # "labels" => c = h /\ c.op # "label"
         /\ h.op = "labels" =>
              /\ c.op = "label" /\ c.node \in h.nodes /\ c.record = h.record
              /\ h.nodes \subseteq Labelled /\ Newest(p, c.record)
         /\ c.op = "find" => Newest(p, c.record)
<1> DEFINE h == Head(todo[p])
<1>1. todo[p] \in Seq(Call)
  BY DEF TypeInv
<1>2. h \in Call /\ todo[p][1] = h /\ 1 \in 1..Len(todo[p])
  BY <1>1, Rest
<1>3. /\ mode[p] # "off" /\ Own(project[p], h)
      /\ h.op \in Numbered => Newest(p, h.record)
  BY <1>2 DEF ProgramOK
<1> HIDE DEF h
<1>4. CASE h.op = "labels"
  <2>1. PICK n \in h.nodes : c = PutLabel(n, h.record)
    BY <1>4 DEF Ready, h
  <2>2. h.nodes \subseteq Labelled /\ Newest(p, h.record)
    BY <1>2, <1>3, <1>4, CallParts DEF Numbered
  <2>3. /\ c.op = "label" /\ c.node \in h.nodes /\ c.record = h.record
        /\ c.record \in 1..Len(makers)
    BY <2>1, <2>2 DEF PutLabel, Newest
  <2>4. Len(makers) \in Nat
    BY LenProperties DEF TypeInv
  <2>5. c \in LabelCall
    BY <2>1, <2>2, <2>3, <2>4 DEF PutLabel, LabelCall
  <2>6. QED
    BY <1>2, <1>3, <1>4, <2>2, <2>3, <2>5 DEF Runnable, h
<1>5. CASE h.op # "labels"
  <2>1. c = h
    BY <1>5 DEF Ready, h
  <2>2. c.op # "label"
    BY <1>2, <2>1, CallParts DEF Tagging
  <2>3. QED
    BY <1>2, <1>3, <1>5, <2>1, <2>2 DEF Runnable, Numbered, h
<1>6. QED
  BY <1>4, <1>5

LEMMA LabelsParts ==
  ASSUME NEW q, NEW S \in SUBSET Labelled, NEW s \in Nat
  PROVE  /\ Labels(S, s) \in Seq(Call) /\ Sound(q, Labels(S, s), {})
         /\ \A i \in 1..Len(Labels(S, s)) :
              Labels(S, s)[i] = [op |-> "labels", nodes |-> S, record |-> s]
         /\ S # {} => [op |-> "labels", nodes |-> S, record |-> s] \in Elems(Labels(S, s))
<1> DEFINE d == [op |-> "labels", nodes |-> S, record |-> s]
<1>1. d \in Call /\ \A X : Needs(q, d, X)
  BY DEF Call, Needs, Tagging
<1> HIDE DEF d
<1>2. CASE S = {}
  BY <1>2, EmptySeq DEF Labels, Sound
<1>3. CASE S # {}
  <2>1. Labels(S, s) = <<d>>
    BY <1>3 DEF Labels, d
  <2>2. <<d>> \in Seq(Call) /\ Len(<<d>>) = 1 /\ <<d>>[1] = d /\ DOMAIN <<d>> = 1..1
    BY <1>1
  <2>3. QED
    BY <1>1, <1>3, <2>1, <2>2 DEF Sound, Elems, d
<1>4. QED
  BY <1>2, <1>3 DEF d

(* The statements that c puts before the rest of the program of p, and the *)
(* number of their record.                                                 *)
Before(p, c) ==
  CASE c.op = "tag_relevance" ->
         Labels(Neighbours(p, c.task), Len(makers) + 1) \o <<Find(c.task, Len(makers) + 1)>>
    [] c.op = "tag_task" ->
         Labels({Task(c.task)}, Len(makers) + 1) \o <<TagEvent(c.op, c.task, {Task(c.task)})>>
    [] c.op = "find" /\ mode[p] = "postgres" ->
         Labels(Produced(c.task), c.record)
           \o <<TagEvent("tag_relevance", c.task, Produced(c.task))>>
    [] c.op = "label" -> Labels(Head(todo[p]).nodes \ {c.node}, c.record)
    [] OTHER -> <<>>
Number(c) == IF c.op \in Tagging THEN Len(makers) + 1 ELSE c.record

LEMMA RemainingIs ==
  ASSUME TypeInv, NEW p \in Procs, todo[p] # <<>>, NEW c
  PROVE  Remaining(p, c) = Before(p, c) \o Tail(todo[p])
<1> DEFINE rest == Tail(todo[p])
<1>1. rest \in Seq(Call)
  BY Rest DEF TypeInv
<1>2. <<>> \o rest = rest
  BY <1>1, ConcatEmptySeq
<1> HIDE DEF rest
<1>3. CASE c.op = "tag_relevance"
  BY <1>3 DEF Remaining, Before, rest
<1>4. CASE c.op = "tag_task"
  BY <1>4 DEF Remaining, Before, rest
<1>5. CASE c.op = "find" /\ mode[p] = "postgres"
  BY <1>5 DEF Remaining, Before, rest
<1>6. CASE c.op = "label"
  BY <1>6 DEF Remaining, Before, rest
<1>7. CASE c.op \notin {"tag_relevance", "tag_task", "label"} /\ ~(c.op = "find" /\ mode[p] = "postgres")
  <2>1. Remaining(p, c) = rest /\ Before(p, c) = <<>>
    BY <1>7 DEF Remaining, Before, rest
  <2>2. QED
    BY <1>2, <2>1 DEF rest
<1>8. QED
  BY <1>3, <1>4, <1>5, <1>6, <1>7

(* Statements of project q, those with a record having number s.           *)
Piece(q, b, s) ==
  /\ b \in Seq(Call)
  /\ \A i \in 1..Len(b) :
       Own(q, b[i]) /\ b[i].op \notin Tagging /\ (b[i].op \in Numbered => b[i].record = s)

(* A loop over labels and one statement after it.                          *)
LEMMA LoopThen ==
  ASSUME NEW q, NEW S \in SUBSET Labelled, NEW s \in Nat, NEW d \in Call,
         Own(q, d), d.op \notin Tagging, d.op \in Numbered => d.record = s
  PROVE  /\ Piece(q, Labels(S, s) \o <<d>>, s)
         /\ Needs(q, d, Elems(Labels(S, s))) => Sound(q, Labels(S, s) \o <<d>>, {})
<1> DEFINE a == Labels(S, s)
<1>1. /\ a \in Seq(Call) /\ Sound(q, a, {})
      /\ \A i \in 1..Len(a) : a[i] = [op |-> "labels", nodes |-> S, record |-> s]
  BY LabelsParts
<1>2. \A i \in 1..Len(a) : Own(q, a[i]) /\ a[i].op \notin Tagging /\ a[i].record = s
  BY <1>1 DEF Own, Tagging
<1> HIDE DEF a
<1>3. <<d>> \in Seq(Call) /\ Len(<<d>>) = 1 /\ <<d>>[1] = d
  OBVIOUS
<1>4. ASSUME Needs(q, d, Elems(a)) PROVE Sound(q, <<d>>, {} \cup Elems(a))
  <2>1. Needs(q, d, ({} \cup Elems(a)) \cup Earlier(<<d>>, 1))
    BY <1>4, NeedsMore
  <2>2. QED
    BY <2>1, <1>3 DEF Sound
<1>5. /\ a \o <<d>> \in Seq(Call)
      /\ Needs(q, d, Elems(a)) => Sound(q, a \o <<d>>, {})
  BY <1>1, <1>3, <1>4, Split, SoundConcat
<1>6. ASSUME NEW i \in 1..Len(a \o <<d>>)
      PROVE  LET e == (a \o <<d>>)[i] IN
             Own(q, e) /\ e.op \notin Tagging /\ (e.op \in Numbered => e.record = s)
  <2>1. CASE i \in 1..Len(a) /\ (a \o <<d>>)[i] = a[i]
    BY <2>1, <1>2
  <2>2. CASE i - Len(a) \in 1..Len(<<d>>) /\ (a \o <<d>>)[i] = <<d>>[i - Len(a)]
    <3>1. (a \o <<d>>)[i] = d
      BY <2>2, <1>3
    <3>2. QED
      BY <3>1
  <2>3. QED
    BY <2>1, <2>2, <1>1, <1>3, Split
<1>7. QED
  BY <1>5, <1>6 DEF a, Piece

LEMMA TagEventParts ==
  ASSUME NEW q, NEW k \in Tagging, NEW t \in Tasks, NEW S \in SUBSET Labelled, NEW s \in Nat
  PROVE  /\ TagEvent(k, t, S) \in Call /\ Own(q, TagEvent(k, t, S))
         /\ TagEvent(k, t, S).op \notin Tagging \cup Numbered
         /\ (\A n \in S : nodes[q][n] # Absent) =>
              Needs(q, TagEvent(k, t, S), Elems(Labels(S, s)))
<1> DEFINE d == [op |-> "labels", nodes |-> S, record |-> s]
<1>1. S \subseteq Nodes
  BY SomeNodes
<1>2. /\ TagEvent(k, t, S) \in Call /\ Own(q, TagEvent(k, t, S))
      /\ TagEvent(k, t, S).op \notin Tagging \cup Numbered
  BY <1>1 DEF TagEvent, Event, Call, Own, Tagging, Numbered
<1>3. ASSUME \A n \in S : nodes[q][n] # Absent
      PROVE  Needs(q, TagEvent(k, t, S), Elems(Labels(S, s)))
  <2>1. \A n \in S : d \in Elems(Labels(S, s)) /\ d.op = "labels" /\ n \in d.nodes
    BY LabelsParts
  <2> HIDE DEF d
  <2>2. QED
    BY <1>3, <2>1 DEF Needs, TagEvent, Tagging
<1>4. QED
  BY <1>2, <1>3

LEMMA ProducedOwn ==
  ASSUME TypeInv, ForeignKeys, OwnedOK, NEW t \in Tasks
  PROVE  Produced(t) \subseteq Labelled /\ \A n \in Produced(t) : nodes[owner[t]][n] # Absent
<1>1. ASSUME NEW n \in Produced(t) PROVE n \in Labelled /\ nodes[owner[t]][n] # Absent
  <2>1. n \in Snippets(t)
    BY DEF Produced
  <2>2. PICK q \in Projects : Made(t, n) \in edges[q]
    BY DEF Produced
  <2>3. nodes[q][Task(t)] # Absent /\ nodes[q][n] # Absent
    BY <2>2 DEF ForeignKeys, Made
  <2>4. owner[t] = q
    BY <2>3, SomeNodes DEF OwnedOK
  <2>5. QED
    BY <2>1, <2>3, <2>4, SomeNodes
<1>2. QED
  BY <1>1

LEMMA BeforeParts ==
  ASSUME TypeInv, ForeignKeys, OwnedOK, NEW p \in Procs, ProgramOK(p), todo[p] # <<>>,
         NEW c \in Ready(p)
  PROVE  /\ Piece(project[p], Before(p, c), Number(c))
         /\ mode[p] = "postgres" => Sound(project[p], Before(p, c), {})
         /\ Before(p, c) = <<>> \/ c.op \in Tagging \/ Newest(p, c.record)
<1> DEFINE b == Before(p, c)  q == project[p]  now == Len(makers) + 1
<1>1. Len(makers) \in Nat /\ now \in Nat
  BY LenProperties DEF TypeInv
<1>2. \A s : Newest(p, s) => s \in Nat
  BY <1>1 DEF Newest
<1>3. CASE c.op = "tag_relevance"
  <2>1. c \in Call /\ Own(q, c)
    BY <1>3, ReadyParts
  <2>2. c.task \in Tasks /\ owner[c.task] = q
    BY <1>3, <2>1, CallParts DEF Own, Tagging
  <2>3. Neighbours(p, c.task) \in SUBSET Labelled
    BY <2>2, SomeNodes DEF Neighbours
  <2>4. /\ Find(c.task, now) \in Call /\ Own(q, Find(c.task, now))
        /\ Find(c.task, now).op \notin Tagging /\ Find(c.task, now).record = now
        /\ \A X : Needs(q, Find(c.task, now), X)
    BY <1>1, <2>2 DEF Find, Call, Own, Tagging, Needs
  <2>5. b = Labels(Neighbours(p, c.task), now) \o <<Find(c.task, now)>> /\ Number(c) = now
    BY <1>3 DEF Before, Number, Tagging
  <2>6. Piece(q, b, now) /\ Sound(q, b, {})
    BY <1>1, <2>3, <2>4, <2>5, LoopThen
  <2>7. QED
    BY <1>3, <2>5, <2>6 DEF Tagging
<1>4. CASE c.op = "tag_task"
  <2> DEFINE e == TagEvent(c.op, c.task, {Task(c.task)})
  <2>1. c \in Call /\ c = Head(todo[p])
    BY <1>4, ReadyParts
  <2>2. c.task \in Tasks /\ {Task(c.task)} \in SUBSET Labelled
    BY <1>4, <2>1, CallParts, SomeNodes DEF Tagging
  <2>3. /\ e \in Call /\ Own(q, e) /\ e.op \notin Tagging /\ e.op \notin Numbered
        /\ (\A n \in {Task(c.task)} : nodes[q][n] # Absent) =>
              Needs(q, e, Elems(Labels({Task(c.task)}, now)))
    BY <1>1, <1>4, <2>2, TagEventParts DEF Tagging
  <2>4. mode[p] = "postgres" => nodes[q][Task(c.task)] # Absent
    <3>1. todo[p] \in Seq(Call) /\ (mode[p] = "postgres" => Sound(q, todo[p], {}))
      BY DEF TypeInv, ProgramOK
    <3>2. mode[p] = "postgres" => Needs(q, c, {})
      BY <2>1, <3>1, SoundRest
    <3>3. QED
      BY <1>4, <3>2 DEF Needs
  <2>5. b = Labels({Task(c.task)}, now) \o <<e>> /\ Number(c) = now
    BY <1>4 DEF Before, Number, Tagging
  <2> HIDE DEF e
  <2>6. Piece(q, b, now)
    BY <1>1, <2>2, <2>3, <2>5, LoopThen
  <2>7. mode[p] = "postgres" => Sound(q, b, {})
    BY <1>1, <2>2, <2>3, <2>4, <2>5, LoopThen
  <2>8. QED
    BY <1>4, <2>5, <2>6, <2>7 DEF Tagging
<1>5. CASE c.op = "find" /\ mode[p] = "postgres"
  <2> DEFINE e == TagEvent("tag_relevance", c.task, Produced(c.task))
  <2>1. c \in Call /\ Own(q, c) /\ Newest(p, c.record)
    BY <1>5, ReadyParts
  <2>2. c.task \in Tasks /\ owner[c.task] = q /\ c.record \in Nat
    BY <1>2, <1>5, <2>1, CallParts DEF Own
  <2>3. /\ Produced(c.task) \in SUBSET Labelled
        /\ \A n \in Produced(c.task) : nodes[q][n] # Absent
    BY <2>2, ProducedOwn
  <2>4. /\ e \in Call /\ Own(q, e) /\ e.op \notin Tagging /\ e.op \notin Numbered
        /\ Needs(q, e, Elems(Labels(Produced(c.task), c.record)))
    BY <2>2, <2>3, TagEventParts DEF Tagging
  <2>5. b = Labels(Produced(c.task), c.record) \o <<e>> /\ Number(c) = c.record
    BY <1>5 DEF Before, Number, Tagging
  <2> HIDE DEF e
  <2>6. Piece(q, b, c.record) /\ Sound(q, b, {})
    BY <2>2, <2>3, <2>4, <2>5, LoopThen
  <2>7. QED
    BY <2>1, <2>5, <2>6
<1>6. CASE c.op = "label"
  <2> DEFINE S == Head(todo[p]).nodes \ {c.node}
  <2>1. S \in SUBSET Labelled /\ Newest(p, c.record)
    BY <1>6, ReadyParts
  <2>2. b = Labels(S, c.record) /\ Number(c) = c.record /\ c.record \in Nat
    BY <1>2, <1>6, <2>1 DEF Before, Number, Tagging
  <2> HIDE DEF S
  <2>3. \A i \in 1..Len(b) : b[i] = [op |-> "labels", nodes |-> S, record |-> c.record]
    BY <2>1, <2>2, LabelsParts
  <2>4. \A i \in 1..Len(b) : Own(q, b[i]) /\ b[i].op \notin Tagging /\ b[i].record = Number(c)
    BY <2>2, <2>3 DEF Own, Tagging
  <2>5. b \in Seq(Call) /\ Sound(q, b, {})
    BY <2>1, <2>2, LabelsParts
  <2>6. QED
    BY <2>1, <2>2, <2>4, <2>5 DEF Piece
<1>7. CASE c.op \notin {"tag_relevance", "tag_task", "label"} /\ ~(c.op = "find" /\ mode[p] = "postgres")
  <2>1. b = <<>>
    BY <1>7 DEF Before
  <2>2. QED
    BY <2>1, EmptySeq DEF Sound, Piece
<1>8. QED
  BY <1>3, <1>4, <1>5, <1>6, <1>7

-----------------------------------------------------------------------------
(* A statement leaves its process a program in order.                      *)

(* Statement(p) with c as the statement that runs.                         *)
Runs(p, c) ==
  /\ todo[p] # <<>> /\ c \in Ready(p)
  /\ mirror' = [mirror EXCEPT ![p] = Mirrored(@, c)]
  /\ IF mode[p] = "postgres" THEN Stored(p, c) ELSE UNCHANGED tables
  /\ todo' = [todo EXCEPT ![p] = Remaining(p, c)]
  /\ file' = IF c.op = "save" THEN Saved(p) ELSE file
  /\ makers' = IF c.op \in Tagging THEN Append(makers, {p}) ELSE makers
  /\ UNCHANGED <<project, owner, mode, recalled, bounds>>

LEMMA StatementRuns ==
  ASSUME NEW p, Statement(p)
  PROVE  \E c : Runs(p, c)
  BY DEF Statement, Runs

LEMMA SoundAfter ==
  ASSUME NEW q, Grows(q), NEW b \in Seq(Call), NEW rest \in Seq(Call), NEW h,
         Done(q, h, Elems(b)), Sound(q, b, {}), Sound(q, rest, {h})
  PROVE  Sound(q, b \o rest, {})'
<1> DEFINE u == b \o rest
<1>1. ASSUME NEW i \in 1..Len(u) PROVE Needs(q, u[i], {} \cup Earlier(u, i))'
  <2>1. CASE i \in 1..Len(b) /\ u[i] = b[i] /\ Earlier(u, i) = Earlier(b, i)
    <3>1. b[i] \in Call /\ Needs(q, b[i], {} \cup Earlier(b, i))
      BY <2>1, ElementOfSeq DEF Sound
    <3>2. Needs(q, u[i], {} \cup Earlier(u, i))'
      BY <2>1, <3>1, NeedsKept
    <3>3. QED
      BY <3>2
  <2>2. CASE /\ i - Len(b) \in 1..Len(rest) /\ u[i] = rest[i - Len(b)]
             /\ Earlier(u, i) = Elems(b) \cup Earlier(rest, i - Len(b))
    <3>1. /\ rest[i - Len(b)] \in Call
          /\ Needs(q, rest[i - Len(b)], {h} \cup Earlier(rest, i - Len(b)))
      BY <2>2, ElementOfSeq DEF Sound
    <3>2. Needs(q, u[i], Elems(b) \cup Earlier(rest, i - Len(b)))'
      BY <2>2, <3>1, NeedsMet
    <3>3. QED
      BY <2>2, <3>2
  <2>3. QED
    BY <2>1, <2>2, Split
<1>2. QED
  BY <1>1 DEF Sound, Earlier

(* Every record of the program is the newest of p, and made before the     *)
(* next record is.                                                         *)
Ordered(p, s) ==
  \A i \in 1..Len(s) :
    s[i].op \in Numbered =>
      Newest(p, s[i].record) /\ \A j \in 1..(i - 1) : s[j].op \notin Tagging

LEMMA NewestStep ==
  ASSUME TypeInv, NEW p \in Procs, NEW c,
         makers' = IF c.op \in Tagging THEN Append(makers, {p}) ELSE makers
  PROVE  /\ c.op \in Tagging => \A s : s = Number(c) => Newest(p, s)'
         /\ c.op \notin Tagging => \A s : Newest(p, s) => Newest(p, s)'
         /\ \A o \in Procs \ {p} : \A s : Newest(o, s) => Newest(o, s)'
         /\ Len(makers') \in Nat /\ Len(makers) \in Nat /\ Len(makers') >= Len(makers)
         /\ makers' \in Seq(SUBSET Procs)
         /\ \A s \in 1..Len(makers) : makers'[s] = makers[s]
         /\ \A s \in 1..Len(makers') : s \in 1..Len(makers) \/ makers'[s] = {p}
<1>1. makers \in Seq(SUBSET Procs) /\ {p} \in SUBSET Procs /\ Len(makers) \in Nat
  BY LenProperties DEF TypeInv
<1>2. CASE c.op \in Tagging
  <2>1. makers' = Append(makers, {p})
    BY <1>2
  <2>2. /\ makers' \in Seq(SUBSET Procs) /\ Len(makers') = Len(makers) + 1
        /\ \A s \in 1..Len(makers) : makers'[s] = makers[s]
        /\ makers'[Len(makers) + 1] = {p}
    BY <1>1, <2>1, AppendProperties
  <2>3. Number(c) = Len(makers) + 1
    BY <1>2 DEF Number
  <2>4. ASSUME NEW s, s = Number(c) PROVE Newest(p, s)'
    <3>1. /\ s \in 1..Len(makers') /\ p \in makers'[s]
          /\ \A r \in 1..Len(makers') : r <= s
      BY <1>1, <2>2, <2>3, <2>4
    <3>2. QED
      BY <3>1 DEF Newest
  <2>5. ASSUME NEW o \in Procs \ {p}, NEW s, Newest(o, s) PROVE Newest(o, s)'
    <3>1. /\ s \in 1..Len(makers') /\ o \in makers'[s]
          /\ \A r \in 1..Len(makers') : o \in makers'[r] => r \in 1..Len(makers) /\ o \in makers[r]
      BY <1>1, <2>2, <2>5 DEF Newest
    <3>2. QED
      BY <3>1, <2>5 DEF Newest
  <2>6. \A s \in 1..Len(makers') : s \in 1..Len(makers) \/ makers'[s] = {p}
    BY <1>1, <2>2
  <2>7. QED
    BY <1>1, <1>2, <2>2, <2>4, <2>5, <2>6
<1>3. CASE c.op \notin Tagging
  <2>1. makers' = makers
    BY <1>3
  <2>2. QED
    BY <1>1, <1>3, <2>1 DEF Newest
<1>4. QED
  BY <1>2, <1>3

LEMMA OrderedAfter ==
  ASSUME TypeInv, ForeignKeys, OwnedOK, NEW p \in Procs, ProgramOK(p), NEW c, Runs(p, c),
         NEW s, s = todo[p], NEW b, b = Before(p, c)
  PROVE  Ordered(p, b \o Tail(s))'
<1> DEFINE rest == Tail(s)  u == b \o rest
<1>1. c \in Ready(p) /\ s # <<>> /\ s \in Seq(Call)
  BY DEF Runs, TypeInv
<1>2. Piece(project[p], b, Number(c)) /\ b \in Seq(Call)
  BY <1>1, BeforeParts DEF Piece
<1>3. /\ rest \in Seq(Call) /\ s[1] = Head(s) /\ 1 \in 1..Len(s)
      /\ \A i \in 1..Len(rest) : i + 1 \in 1..Len(s) /\ rest[i] = s[i + 1]
  BY <1>1, Rest
<1>4. Len(b) \in Nat /\ Len(rest) \in Nat /\ Len(u) = Len(b) + Len(rest)
  BY <1>2, <1>3, LenProperties, ConcatProperties
<1>5. \A i \in 1..Len(b) : u[i] = b[i]
  BY <1>2, <1>3, <1>4, ConcatProperties
<1>6. \A i \in 1..Len(rest) : u[Len(b) + i] = rest[i]
  <2>1. ASSUME NEW i \in 1..Len(rest) PROVE u[Len(b) + i] = rest[i]
    <3>1. Len(b) + i \in 1..(Len(b) + Len(rest)) /\ ~(Len(b) + i <= Len(b)) /\ (Len(b) + i) - Len(b) = i
      BY <1>4
    <3>2. QED
      BY <3>1, <1>2, <1>3, ConcatProperties
  <2>2. QED
    BY <2>1
<1>7. ASSUME NEW i \in 1..Len(b), b[i].op \in Numbered
      PROVE  Newest(p, u[i].record)' /\ \A j \in 1..(i - 1) : u[j].op \notin Tagging
  <2>1. b[i].record = Number(c) /\ \A j \in 1..(i - 1) : b[j].op \notin Tagging
    BY <1>2, <1>4, <1>7 DEF Piece
  <2>2. Newest(p, b[i].record)'
    <3>1. CASE c.op \in Tagging
      BY <2>1, <3>1, NewestStep DEF Runs
    <3>2. CASE c.op \notin Tagging
      <4>1. b # <<>>
        BY <1>7, <1>2, EmptySeq
      <4>2. Newest(p, c.record) /\ b[i].record = c.record
        BY <2>1, <3>2, <4>1, <1>1, BeforeParts DEF Number
      <4>3. QED
        BY <3>2, <4>2, NewestStep DEF Runs
    <3>3. QED
      BY <3>1, <3>2
  <2>3. u[i] = b[i] /\ \A j \in 1..(i - 1) : u[j] = b[j]
    BY <1>4, <1>5
  <2>4. QED
    BY <2>1, <2>2, <2>3
<1>8. ASSUME NEW k \in 1..Len(rest), rest[k].op \in Numbered
      PROVE  Newest(p, u[Len(b) + k].record)' /\ \A j \in 1..(Len(b) + k - 1) : u[j].op \notin Tagging
  <2>1. /\ Newest(p, rest[k].record) /\ \A j \in 1..((k + 1) - 1) : s[j].op \notin Tagging
    BY <1>3, <1>8 DEF ProgramOK
  <2>2. Head(s).op \notin Tagging /\ \A j \in 1..(k - 1) : rest[j].op \notin Tagging
    <3>1. 1 \in 1..((k + 1) - 1) /\ \A j \in 1..(k - 1) : j + 1 \in 1..((k + 1) - 1) /\ rest[j] = s[j + 1]
      BY <1>3, <1>4
    <3>2. QED
      BY <1>3, <2>1, <3>1
  <2>3. c.op \notin Tagging
    <3>1. c = Head(s) \/ c.op = "label"
      BY <1>1, ReadyParts
    <3>2. QED
      BY <2>2, <3>1 DEF Tagging
  <2>4. Newest(p, rest[k].record)'
    BY <2>1, <2>3, NewestStep DEF Runs
  <2>5. ASSUME NEW j \in 1..(Len(b) + k - 1) PROVE u[j].op \notin Tagging
    <3>1. CASE j \in 1..Len(b)
      BY <3>1, <1>2, <1>5 DEF Piece
    <3>2. CASE j \notin 1..Len(b)
      <4>1. j - Len(b) \in 1..(k - 1) /\ j - Len(b) \in 1..Len(rest) /\ Len(b) + (j - Len(b)) = j
        BY <1>4, <3>2
      <4>2. QED
        BY <4>1, <1>6, <2>2
    <3>3. QED
      BY <3>1, <3>2
  <2>6. QED
    BY <2>4, <2>5, <1>6
<1> HIDE DEF u, rest
<1>9. ASSUME NEW i \in 1..Len(u), u[i].op \in Numbered
      PROVE  Newest(p, u[i].record)' /\ \A j \in 1..(i - 1) : u[j].op \notin Tagging
  <2>1. CASE i \in 1..Len(b)
    BY <2>1, <1>5, <1>7, <1>9
  <2>2. CASE i \notin 1..Len(b)
    <3>1. i - Len(b) \in 1..Len(rest) /\ Len(b) + (i - Len(b)) = i
      BY <1>4, <2>2
    <3>2. u[i] = rest[i - Len(b)] /\ rest[i - Len(b)].op \in Numbered
      BY <3>1, <1>6, <1>9
    <3>3. /\ Newest(p, u[Len(b) + (i - Len(b))].record)'
          /\ \A j \in 1..(Len(b) + (i - Len(b)) - 1) : u[j].op \notin Tagging
      BY <3>1, <3>2, <1>8
    <3>4. QED
      BY <3>1, <3>3
  <2>3. QED
    BY <2>1, <2>2
<1>10. Ordered(p, u)'
  BY <1>9 DEF Ordered
<1>11. QED
  BY <1>10 DEF u, rest

LEMMA DoneStep ==
  ASSUME TypeInv, NEW p \in Procs, ProgramOK(p), mode[p] = "postgres", NEW c, Runs(p, c),
         NEW h, h = Head(todo[p]), NEW B, B = Elems(Before(p, c))
  PROVE  Done(project[p], h, B)
<1> DEFINE q == project[p]
<1>1. /\ c \in Ready(p) /\ todo[p] # <<>> /\ Stored(p, c) /\ q \in Projects
      /\ Runnable(c) /\ h \in Call
  BY ReadyParts DEF Runs, TypeInv
<1>2. Len(makers) \in Nat
  BY LenProperties DEF TypeInv
<1>3. CASE h.op = "labels"
  <2>1. /\ c.op = "label" /\ c.node \in h.nodes /\ c.record = h.record
        /\ h.nodes \subseteq Labelled /\ c.record \in 1..Len(makers)
    BY <1>1, <1>3, ReadyParts DEF Newest
  <2>2. ASSUME NEW n \in h.nodes, nodes[q][n] # Absent
        PROVE  nodes'[q][n] > 0 \/ \E d \in B : d.op = "labels" /\ n \in d.nodes
    <3>1. CASE n = c.node
      <4>1. n \in Nodes
        BY <2>1, SomeNodes
      <4>2. nodes'[q][n] = c.record
        BY <1>1, <2>1, <2>2, <3>1, <4>1, StoredParts
      <4>3. QED
        BY <2>1, <4>2, <1>2
    <3>2. CASE n # c.node
      <4> DEFINE S == h.nodes \ {c.node}  d == [op |-> "labels", nodes |-> S, record |-> c.record]
      <4>1. S \in SUBSET Labelled /\ n \in S /\ c.record \in Nat
        BY <2>1, <3>2, <1>2
      <4>2. B = Elems(Labels(S, c.record))
        BY <2>1 DEF Before
      <4>3. d \in B /\ d.op = "labels" /\ d.nodes = S
        BY <4>1, <4>2, LabelsParts
      <4>4. QED
        BY <4>1, <4>3
    <3>3. QED
      BY <3>1, <3>2
  <2>3. QED
    BY <1>3, <2>2 DEF Done
<1>4. CASE h.op # "labels"
  <2>1. c = h
    BY <1>1, <1>4, ReadyParts
  <2>2. h.op = "node" => nodes'[q][h.node] # Absent
    <3>1. ASSUME h.op = "node" PROVE nodes'[q][h.node] # Absent
      <4>1. h.node \in Nodes
        BY <1>1, <3>1, CallParts
      <4>2. nodes'[q][h.node] = MergedLabels(nodes[q][h.node], mirror[p].label[h.node])
        BY <1>1, <2>1, <3>1, <4>1, StoredParts
      <4>3. mirror[p].label[h.node] \in Int /\ nodes[q][h.node] \in Int
        BY <1>1, <1>2, <4>1 DEF TypeInv, Graph, Label, Absent
      <4>4. QED
        BY <4>2, <4>3 DEF MergedLabels, Absent
    <3>2. QED
      BY <3>1
  <2>3. h.op = "edge" => h.edge \in edges'[q]
    <3>1. c.op = "edge" => edges'[q] = edges[q] \cup {c.edge}
      BY <1>1, StoredParts
    <3>2. QED
      BY <2>1, <3>1
  <2>4. QED
    BY <1>4, <2>2, <2>3 DEF Done
<1>5. QED
  BY <1>3, <1>4

LEMMA TablesGrow ==
  ASSUME TypeInv, NEW p \in Procs, ProgramOK(p), NEW c, Runs(p, c), NEW q \in Projects
  PROVE  Grows(q)
<1>1. CASE mode[p] = "postgres"
  BY <1>1, ReadyParts, StoredGrows DEF Runs
<1>2. CASE mode[p] # "postgres"
  BY <1>2 DEF Runs, tables, Grows
<1>3. QED
  BY <1>1, <1>2

LEMMA ProgramStep ==
  ASSUME TypeInv, ForeignKeys, OwnedOK, NEW p \in Procs, ProgramOK(p), NEW c, Runs(p, c)
  PROVE  ProgramOK(p)' /\ todo'[p] \in Seq(Call)
<1>1. PICK s : s = todo[p]
  OBVIOUS
<1>2. PICK b : b = Before(p, c)
  OBVIOUS
<1>3. PICK q : q = project[p]
  OBVIOUS
<1>4. PICK h : h = Head(s)
  OBVIOUS
<1>5. /\ c \in Ready(p) /\ s # <<>> /\ s \in Seq(Call) /\ q \in Projects /\ mode[p] # "off"
      /\ project' = project /\ owner' = owner /\ mode' = mode
  BY <1>1, <1>3, ReadyParts DEF Runs, TypeInv
<1>6. Piece(q, b, Number(c)) /\ b \in Seq(Call)
  BY <1>1, <1>2, <1>3, <1>5, BeforeParts DEF Piece
<1>7. /\ Tail(s) \in Seq(Call)
      /\ \A i \in 1..Len(Tail(s)) : i + 1 \in 1..Len(s) /\ Tail(s)[i] = s[i + 1]
  BY <1>5, Rest
<1>8. todo'[p] = b \o Tail(s)
  BY <1>1, <1>2, <1>5, RemainingIs DEF Runs, TypeInv
<1>9. b \o Tail(s) \in Seq(Call)
  BY <1>6, <1>7, Split
<1>10. ASSUME NEW i \in 1..Len(b \o Tail(s)) PROVE Own(q, (b \o Tail(s))[i])'
  <2>1. Own(q, (b \o Tail(s))[i])
    <3>1. \A j \in 1..Len(Tail(s)) : Own(q, Tail(s)[j])
      BY <1>1, <1>3, <1>7 DEF ProgramOK
    <3>2. \A j \in 1..Len(b) : Own(q, b[j])
      BY <1>6 DEF Piece
    <3>3. QED
      BY <3>1, <3>2, <1>6, <1>7, Split
  <2>2. QED
    BY <2>1, <1>5 DEF Own
<1>11. ASSUME mode[p] = "postgres" PROVE Sound(q, b \o Tail(s), {})'
  <2>1. Sound(q, s, {}) /\ Sound(q, b, {})
    BY <1>1, <1>2, <1>3, <1>5, <1>11, BeforeParts DEF ProgramOK
  <2>2. Sound(q, Tail(s), {h})
    BY <1>4, <1>5, <2>1, SoundRest
  <2>3. Grows(q)
    BY <1>5, TablesGrow
  <2>4. Done(q, h, Elems(b))
    BY <1>1, <1>2, <1>3, <1>4, <1>11, DoneStep
  <2>5. QED
    BY <1>6, <1>7, <2>1, <2>2, <2>3, <2>4, SoundAfter
<1>12. Ordered(p, b \o Tail(s))'
  BY <1>1, <1>2, OrderedAfter
<1>13. project'[p] = q /\ mode'[p] = mode[p]
  BY <1>3, <1>5
<1>14. QED
  BY <1>5, <1>8, <1>9, <1>10, <1>11, <1>12, <1>13 DEF ProgramOK, Ordered

-----------------------------------------------------------------------------
(* What a statement leaves of the tables.                                  *)

LEMMA OtherProgram ==
  ASSUME TypeInv, NEW o \in Procs, ProgramOK(o), Grows(project[o]),
         todo'[o] = todo[o], mode'[o] = mode[o], project' = project, owner' = owner,
         \A s : Newest(o, s) => Newest(o, s)'
  PROVE  ProgramOK(o)'
<1>1. PICK s : s = todo[o]
  OBVIOUS
<1>2. PICK q : q = project[o]
  OBVIOUS
<1>3. s \in Seq(Call) /\ q \in Projects
  BY <1>1, <1>2 DEF TypeInv
<1>4. mode[o] = "postgres" => Sound(q, s, {})'
  <2>1. mode[o] = "postgres" => Sound(q, s, {})
    BY <1>1, <1>2 DEF ProgramOK
  <2>2. Grows(q)
    BY <1>2
  <2>3. QED
    BY <1>3, <2>1, <2>2, SoundKept
<1>5. \A i \in 1..Len(s) : Own(q, s[i])'
  BY <1>1, <1>2 DEF ProgramOK, Own
<1>6. \A i \in 1..Len(s) :
        s[i].op \in Numbered =>
          Newest(o, s[i].record)' /\ \A j \in 1..(i - 1) : s[j].op \notin Tagging
  BY <1>1 DEF ProgramOK
<1>7. mode[o] = "off" => s = <<>>
  BY <1>1 DEF ProgramOK
<1>8. todo'[o] = s /\ project'[o] = q
  BY <1>1, <1>2
<1>9. QED
  BY <1>4, <1>5, <1>6, <1>7, <1>8 DEF ProgramOK

LEMMA ProgramsStep ==
  ASSUME GraphInv, NEW p \in Procs, NEW c, Runs(p, c)
  PROVE  \A o \in Procs : ProgramOK(o)' /\ todo'[o] \in Seq(Call)
<1>1. ASSUME NEW o \in Procs \ {p} PROVE ProgramOK(o)' /\ todo'[o] \in Seq(Call)
  <2>1. /\ TypeInv /\ project[o] \in Projects /\ todo[o] \in Seq(Call) /\ todo'[o] = todo[o]
        /\ mode' = mode /\ project' = project /\ owner' = owner /\ ProgramOK(o) /\ ProgramOK(p)
    BY DEF GraphInv, TypeInv, Runs
  <2>2. \A s : Newest(o, s) => Newest(o, s)'
    BY <2>1, NewestStep DEF Runs
  <2>3. Grows(project[o])
    BY <2>1, TablesGrow
  <2>4. QED
    BY <2>1, <2>2, <2>3, OtherProgram
<1>2. QED
  BY <1>1, ProgramStep DEF GraphInv

LEMMA RunsTypes ==
  ASSUME GraphInv, NEW p \in Procs, NEW c, Runs(p, c)
  PROVE  TypeInv'
<1>1. /\ TypeInv /\ ProgramOK(p) /\ Runnable(c)
  BY ReadyParts DEF GraphInv, Runs
<1>2. Label \subseteq Label' /\ Graph \subseteq Graph' /\ makers' \in Seq(SUBSET Procs)
  <2>1. /\ Len(makers) \in Nat /\ Len(makers') \in Nat /\ Len(makers') >= Len(makers)
        /\ makers' \in Seq(SUBSET Procs)
    BY <1>1, NewestStep DEF Runs
  <2>2. Absent..Len(makers) \subseteq Absent..Len(makers')
    BY <2>1 DEF Absent
  <2>3. Label \subseteq Label'
    BY <2>2 DEF Label
  <2>4. QED
    BY <2>1, <2>3 DEF Graph
<1>3. mirror' \in [Procs -> Graph]
  BY <1>1, MirrorStep DEF Runs
<1>4. /\ nodes' \in [Projects -> Label]
      /\ edges' \in [Projects -> SUBSET Edge] /\ events' \in [Projects -> SUBSET Event]
  <2>1. CASE mode[p] = "postgres"
    BY <2>1, <1>1, StoredParts DEF Runs
  <2>2. CASE mode[p] # "postgres"
    BY <2>2, <1>1 DEF Runs, tables, TypeInv
  <2>3. QED
    BY <2>1, <2>2
<1>5. file' \in Graph
  BY <1>1 DEF Runs, Saved, TypeInv
<1>6. todo' \in [Procs -> Seq(Call)]
  <2>1. \A o \in Procs : todo'[o] \in Seq(Call)
    BY ProgramsStep
  <2>2. QED
    BY <2>1, <1>1 DEF Runs, TypeInv
<1>7. /\ project' = project /\ owner' = owner /\ mode' = mode /\ recalled' = recalled
      /\ hops' = hops /\ starts' = starts /\ faults' = faults
  BY DEF Runs, bounds
<1>8. Edge' = Edge /\ Event' = Event /\ Call' = Call
  BY DEF Edge, Event, Call
<1>9. QED
  BY <1>1, <1>2, <1>3, <1>4, <1>5, <1>6, <1>7 DEF TypeInv

LEMMA RunsTables ==
  ASSUME GraphInv, NEW p \in Procs, NEW c, Runs(p, c)
  PROVE  ForeignKeys' /\ EventsAreBacked' /\ OwnedOK'
<1>1. /\ TypeInv /\ ProgramOK(p) /\ c \in Ready(p) /\ Runnable(c) /\ owner' = owner
      /\ todo[p] \in Seq(Call) /\ todo[p] # <<>> /\ project[p] \in Projects
      /\ ForeignKeys /\ EventsAreBacked /\ OwnedOK
  BY ReadyParts DEF GraphInv, Runs, TypeInv
<1>2. CASE mode[p] # "postgres"
  BY <1>1, <1>2 DEF Runs, tables, ForeignKeys, EventsAreBacked, OwnedOK
<1>3. CASE mode[p] = "postgres"
  <2>1. Stored(p, c) /\ \A q \in Projects : Grows(q)
    BY <1>1, <1>3, StoredGrows DEF Runs
  <2>2. c.op # "label" => Needs(project[p], c, {}) /\ Own(project[p], c)
    <3>1. Needs(project[p], Head(todo[p]), {})
      BY <1>1, <1>3, SoundRest DEF ProgramOK
    <3>2. c.op # "label" => c = Head(todo[p]) /\ Own(project[p], Head(todo[p]))
      BY <1>1, ReadyParts
    <3>3. QED
      BY <3>1, <3>2
  <2>3. ASSUME NEW q \in Projects, NEW e \in edges'[q]
        PROVE  nodes'[q][e[1]] # Absent /\ nodes'[q][e[3]] # Absent
    <3>1. e \in Edge /\ nodes[q][e[1]] # Absent /\ nodes[q][e[3]] # Absent
      <4>1. CASE e \in edges[q]
        BY <4>1, <1>1 DEF TypeInv, ForeignKeys
      <4>2. CASE e \notin edges[q]
        <5>1. edges'[q] = IF c.op = "edge" /\ q = project[p]
                            THEN edges[q] \cup {c.edge} ELSE edges[q]
          BY <1>1, <2>1, StoredParts
        <5>2. c.op = "edge" /\ q = project[p] /\ e = c.edge
          BY <4>2, <5>1
        <5>3. QED
          BY <5>2, <1>1, <2>2, RunnableParts DEF Needs
      <4>3. QED
        BY <4>1, <4>2
    <3>2. QED
      BY <3>1, <2>1, EdgeParts DEF Grows
  <2>4. ASSUME NEW q \in Projects, NEW e \in events'[q]
        PROVE  IF e.kind \in Tagging THEN \A n \in e.found : nodes'[q][n] > 0
               ELSE EdgesOf(e.kind, e.task, e.by) \subseteq edges'[q]
    <3>1. e \in Event /\ IF e.kind \in Tagging THEN \A n \in e.found : nodes[q][n] > 0
                         ELSE EdgesOf(e.kind, e.task, e.by) \subseteq edges[q]
      <4>1. CASE e \in events[q]
        BY <4>1, <1>1 DEF TypeInv, EventsAreBacked
      <4>2. CASE e \notin events[q]
        <5>1. events'[q] = IF c.op = "event" /\ q = project[p]
                             THEN events[q] \cup {c.event} ELSE events[q]
          BY <1>1, <2>1, StoredParts
        <5>2. c.op = "event" /\ q = project[p] /\ e = c.event
          BY <4>2, <5>1
        <5>3. QED
          BY <5>2, <1>1, <2>2, RunnableParts DEF Needs
      <4>3. QED
        BY <4>1, <4>2
    <3>2. e.kind \in Tagging => e.found \subseteq Nodes
      BY <3>1, EventParts
    <3>3. QED
      BY <3>1, <3>2, <2>1 DEF Grows
  <2>5. ASSUME NEW t \in Tasks, NEW q \in Projects, NEW n \in TaskNodes(t), nodes'[q][n] # Absent
        PROVE  owner[t] = q
    <3>1. n \in Nodes
      BY SomeNodes
    <3>2. CASE nodes[q][n] # Absent
      BY <3>2, <1>1 DEF OwnedOK
    <3>3. CASE nodes[q][n] = Absent
      <4>1. c.op = "node" /\ q = project[p] /\ n = c.node
        BY <3>1, <3>3, <2>5, <1>1, <2>1, StoredParts
      <4>2. QED
        BY <4>1, <2>2 DEF Own
    <3>4. QED
      BY <3>2, <3>3
  <2>6. QED
    BY <2>3, <2>4, <2>5, <1>1 DEF ForeignKeys, EventsAreBacked, OwnedOK
<1>4. QED
  BY <1>2, <1>3

-----------------------------------------------------------------------------
(* Where the labels of a step come from.                                   *)

(* Value v is no label, the label that a copy had, or a record that none   *)
(* of its makers is behind.                                                *)
Fine(v, n) ==
  \/ v <= 0 \/ \E M \in Copies : v = M[n]
  \/ /\ n \in Labelled /\ v \in 1..Len(makers)
     /\ \A o \in makers'[v] : mirror'[o].label[n] <= 0 \/ v <= mirror'[o].label[n]

(* The mirror of o does not fall behind the records o has made.            *)
Ahead(o, n) ==
  \/ mirror'[o].label[n] <= 0 \/ mirror'[o].label[n] = mirror[o].label[n]
  \/ \A s \in 1..Len(makers) : o \in makers'[s] => s <= mirror'[o].label[n]

LEMMA CopyTypes ==
  ASSUME TypeInv, NEW L \in Copies, NEW n \in Nodes
  PROVE  L \in Label /\ L[n] \in Absent..Len(makers) /\ L[n] \in Int /\ Len(makers) \in Nat
<1>1. Len(makers) \in Nat
  BY LenProperties DEF TypeInv
<1>2. L \in Label
  BY DEF TypeInv, Copies, Graph
<1>3. L[n] \in Absent..Len(makers)
  BY <1>2 DEF Label
<1>4. QED
  BY <1>1, <1>2, <1>3 DEF Absent

LEMMA CopiesStep ==
  ASSUME GraphInv, TypeInv',
         \A q \in Projects, n \in Nodes : Fine(nodes'[q][n], n),
         \A o \in Procs, n \in Nodes : Fine(mirror'[o].label[n], n),
         \A n \in Nodes : Fine(file'.label[n], n),
         \A s \in 1..Len(makers) : makers'[s] \subseteq makers[s],
         \A o \in Procs, n \in Nodes : Ahead(o, n)
  PROVE  UnlabelledOK' /\ AheadOK'
<1>1. \A L \in Copies' : \A n \in Nodes : Fine(L[n], n)
  BY DEF Copies
<1>2. ASSUME NEW L \in Copies', NEW n \in Nodes \ Labelled PROVE L[n] <= 0
  <2>1. L[n] <= 0 \/ \E M \in Copies : L[n] = M[n]
    BY <1>1, <1>2 DEF Fine
  <2>2. QED
    BY <2>1 DEF GraphInv, UnlabelledOK
<1>3. ASSUME NEW L \in Copies', NEW n \in Nodes, L[n] > 0, NEW o \in makers'[L[n]]
      PROVE  mirror'[o].label[n] <= 0 \/ L[n] <= mirror'[o].label[n]
  <2>1. L[n] \in Absent..Len(makers') /\ L[n] \in Int /\ Len(makers') \in Nat
    <3>1. L \in Label'
      BY <1>3 DEF TypeInv, Copies, Graph
    <3>2. Len(makers') \in Nat
      BY LenProperties DEF TypeInv
    <3>3. L[n] \in Absent..Len(makers')
      BY <1>3, <3>1 DEF Label, Absent
    <3>4. QED
      BY <3>2, <3>3 DEF Absent
  <2>2. ASSUME NEW M \in Copies, L[n] = M[n]
        PROVE  mirror'[o].label[n] <= 0 \/ L[n] <= mirror'[o].label[n]
    <3>1. L[n] \in 1..Len(makers)
      BY <1>3, <2>2, CopyTypes DEF GraphInv, Absent
    <3>2. o \in makers[L[n]] /\ o \in Procs
      <4>1. makers[L[n]] \in SUBSET Procs
        BY <3>1, ElementOfSeq DEF GraphInv, TypeInv
      <4>2. QED
        BY <1>3, <3>1, <4>1
    <3>3. mirror[o].label[n] <= 0 \/ L[n] <= mirror[o].label[n]
      BY <1>3, <2>2, <3>2 DEF GraphInv, AheadOK
    <3>4. Ahead(o, n)
      BY <3>2
    <3>5. QED
      BY <1>3, <3>1, <3>3, <3>4 DEF Ahead
  <2>3. QED
    BY <1>1, <1>3, <2>1, <2>2 DEF Fine
<1>4. UnlabelledOK'
  BY <1>2 DEF UnlabelledOK, Labelled, TaskNodes, Snippets
<1>5. AheadOK'
  BY <1>3 DEF AheadOK
<1>6. QED
  BY <1>4, <1>5

(* What a statement that runs and one that fails have in common.           *)
Acts(p, c) ==
  /\ todo[p] # <<>> /\ c \in Ready(p)
  /\ mirror' = [mirror EXCEPT ![p] = Mirrored(@, c)]
  /\ nodes' = nodes \/ Stored(p, c)
  /\ file' = file \/ file' = mirror[p]
  /\ makers' = IF c.op \in Tagging THEN Append(makers, {p}) ELSE makers
  /\ mode' = mode

LEMMA ActsCopies ==
  ASSUME GraphInv, TypeInv', NEW p \in Procs, NEW c, Acts(p, c)
  PROVE  UnlabelledOK' /\ AheadOK' /\ MakersOK'
<1>1. /\ TypeInv /\ ProgramOK(p) /\ MakersOK /\ c \in Ready(p) /\ Runnable(c) /\ mode[p] # "off"
      /\ todo[p] # <<>> /\ mode' = mode
      /\ \A s \in 1..Len(makers) : makers'[s] = makers[s]
      /\ \A s \in 1..Len(makers') : s \in 1..Len(makers) \/ makers'[s] = {p}
  BY ReadyParts, NewestStep DEF GraphInv, Acts
<1>2. /\ \A o \in Procs \ {p} : mirror'[o] = mirror[o]
      /\ \A n \in Nodes :
           mirror'[p].label[n] =
             IF c.op = "node" /\ n = c.node /\ mirror[p].label[n] = Absent THEN 0
             ELSE IF c.op = "label" /\ n = c.node /\ mirror[p].label[n] # Absent THEN c.record
             ELSE mirror[p].label[n]
  BY <1>1, MirrorStep DEF Acts
<1>3. /\ \A q \in Projects : nodes[q] \in Copies
      /\ \A o \in Procs : mirror[o].label \in Copies
      /\ file.label \in Copies
  BY DEF Copies
<1>4. ASSUME c.op = "label"
      PROVE  /\ Newest(p, c.record) /\ c.record \in 1..Len(makers) /\ c.node \in Labelled
             /\ c.node \in Nodes /\ makers' = makers /\ makers[c.record] = {p}
  <2>1. Newest(p, c.record) /\ c.record \in 1..Len(makers) /\ c.node \in Labelled /\ c.node \in Nodes
    BY <1>1, <1>4, ReadyParts, RunnableParts
  <2>2. makers' = makers
    BY <1>4 DEF Acts, Tagging
  <2>3. makers[c.record] = {p}
    BY <1>1, <2>1 DEF MakersOK, Newest
  <2>4. QED
    BY <2>1, <2>2, <2>3
<1>5. ASSUME c.op = "label" PROVE Fine(c.record, c.node)
  <2>1. mirror'[p].label[c.node] <= 0 \/ c.record <= mirror'[p].label[c.node]
    <3>1. CASE mirror[p].label[c.node] = Absent
      BY <1>2, <1>4, <1>5, <3>1 DEF Absent
    <3>2. CASE mirror[p].label[c.node] # Absent
      <4>1. mirror'[p].label[c.node] = c.record /\ c.record \in Int
        BY <1>2, <1>4, <1>5, <3>2
      <4>2. QED
        BY <4>1
    <3>3. QED
      BY <3>1, <3>2
  <2>2. QED
    BY <1>4, <1>5, <2>1 DEF Fine
<1>6. ASSUME NEW o \in Procs, NEW n \in Nodes PROVE Fine(mirror'[o].label[n], n) /\ Ahead(o, n)
  <2>1. CASE o # p
    BY <2>1, <1>2, <1>3 DEF Fine, Ahead
  <2>2. CASE o = p /\ mirror'[p].label[n] = mirror[p].label[n]
    BY <2>2, <1>3 DEF Fine, Ahead
  <2>3. CASE o = p /\ mirror'[p].label[n] = 0
    BY <2>3 DEF Fine, Ahead
  <2>4. CASE o = p /\ c.op = "label" /\ n = c.node /\ mirror'[p].label[n] = c.record
    <3>1. \A s \in 1..Len(makers) : p \in makers'[s] => s <= c.record
      BY <1>4, <2>4 DEF Newest
    <3>2. QED
      BY <2>4, <3>1, <1>5 DEF Ahead
  <2>5. QED
    BY <2>1, <2>2, <2>3, <2>4, <1>2
<1>7. ASSUME NEW q \in Projects, NEW n \in Nodes PROVE Fine(nodes'[q][n], n)
  <2>1. Fine(nodes[q][n], n)
    BY <1>3 DEF Fine
  <2>2. CASE nodes' = nodes
    BY <2>1, <2>2
  <2>3. CASE Stored(p, c)
    <3>1. nodes'[q][n] =
            IF c.op = "node" /\ q = project[p] /\ n = c.node
              THEN MergedLabels(nodes[q][n], mirror[p].label[n])
            ELSE IF c.op = "label" /\ n = c.node /\ nodes[q][n] # Absent THEN c.record
            ELSE nodes[q][n]
      BY <1>1, <2>3, StoredParts
    <3>2. Fine(mirror[p].label[n], n) /\ Fine(0, n)
      BY <1>3 DEF Fine
    <3>3. Fine(MergedLabels(nodes[q][n], mirror[p].label[n]), n)
      BY <2>1, <3>2 DEF MergedLabels
    <3>4. QED
      BY <2>1, <3>1, <3>3, <1>5
  <2>4. QED
    BY <2>2, <2>3 DEF Acts
<1>8. ASSUME NEW n \in Nodes PROVE Fine(file'.label[n], n)
  BY <1>3 DEF Fine, Acts
<1>9. UnlabelledOK' /\ AheadOK'
  BY <1>1, <1>6, <1>7, <1>8, CopiesStep
<1>10. MakersOK'
  BY <1>1 DEF MakersOK
<1>11. QED
  BY <1>9, <1>10

LEMMA StatementStep ==
  ASSUME GraphInv, NEW p \in Procs, Statement(p)
  PROVE  GraphInv'
<1>1. PICK c : Runs(p, c)
  BY StatementRuns
<1>2. TypeInv' /\ ForeignKeys' /\ EventsAreBacked' /\ OwnedOK'
  BY <1>1, RunsTypes, RunsTables
<1>3. \A o \in Procs : ProgramOK(o)'
  BY <1>1, ProgramsStep
<1>4. Acts(p, c)
  BY <1>1 DEF Runs, Acts, Saved, tables
<1>5. UnlabelledOK' /\ AheadOK' /\ MakersOK'
  BY <1>2, <1>4, ActsCopies
<1>6. QED
  BY <1>2, <1>3, <1>5 DEF GraphInv

-----------------------------------------------------------------------------
(* The other actions leave the tables alone.                               *)

LEMMA TablesStill ==
  ASSUME GraphInv, UNCHANGED <<project, owner, tables>>
  PROVE  ForeignKeys' /\ EventsAreBacked' /\ OwnedOK' /\ \A q \in Projects : Grows(q)
  BY DEF GraphInv, tables, ForeignKeys, EventsAreBacked, OwnedOK, Grows

LEMMA OthersStill ==
  ASSUME GraphInv, UNCHANGED <<project, owner, tables>>, NEW p \in Procs,
         NEW o \in Procs \ {p}, todo'[o] = todo[o], mode'[o] = mode[o],
         \/ makers' = makers
         \/ makers' = [s \in DOMAIN makers |-> makers[s] \ {p}]
  PROVE  ProgramOK(o)'
<1>1. TypeInv /\ ProgramOK(o) /\ Grows(project[o]) /\ DOMAIN makers = 1..Len(makers)
  BY TablesStill, LenProperties DEF GraphInv, TypeInv
<1>2. ASSUME NEW s, Newest(o, s) PROVE Newest(o, s)'
  <2>1. CASE makers' = makers
    BY <1>2, <2>1 DEF Newest
  <2>2. CASE makers' = [r \in DOMAIN makers |-> makers[r] \ {p}]
    <3>1. /\ DOMAIN makers' = 1..Len(makers) /\ Len(makers') = Len(makers)
          /\ \A r \in 1..Len(makers) : makers'[r] = makers[r] \ {p}
      <4>1. Len(makers) \in Nat
        BY LenProperties DEF GraphInv, TypeInv
      <4>2. QED
        BY <1>1, <2>2, <4>1
    <3>2. QED
      BY <1>2, <3>1 DEF Newest
  <2>3. QED
    BY <2>1, <2>2
<1>3. QED
  BY <1>1, <1>2, OtherProgram

LEMMA NoProgram ==
  ASSUME NEW p \in Procs, todo'[p] = <<>>
  PROVE  ProgramOK(p)'
  BY EmptySeq DEF ProgramOK, Sound

LEMMA FailureStep ==
  ASSUME GraphInv, NEW p \in Procs, StatementFails(p)
  PROVE  GraphInv'
<1>1. /\ TypeInv /\ ProgramOK(p) /\ todo[p] # <<>> /\ faults' \in 0..MaxFaults
      /\ todo' = [todo EXCEPT ![p] = <<>>]
      /\ UNCHANGED <<project, owner, tables, file, mode, recalled, makers, hops, starts>>
  BY GraphAssumption DEF GraphInv, TypeInv, StatementFails
<1>2. PICK c \in Ready(p) : mirror' = [mirror EXCEPT ![p] = Mirrored(@, c)]
  BY DEF StatementFails
<1>3. c.op \notin Tagging /\ Runnable(c)
  <2>1. (c = Head(todo[p]) \/ c.op = "label") /\ Runnable(c)
    BY <1>1, ReadyParts
  <2>2. QED
    BY <2>1 DEF StatementFails, Tagging
<1>4. TypeInv'
  <2>1. mirror' \in [Procs -> Graph]
    BY <1>1, <1>2, <1>3, MirrorStep
  <2>2. todo' \in [Procs -> Seq(Call)]
    BY <1>1, EmptySeq DEF TypeInv
  <2>3. QED
    BY <1>1, <2>1, <2>2 DEF TypeInv, tables, Label, Graph
<1>5. Acts(p, c)
  BY <1>1, <1>2, <1>3 DEF Acts, tables
<1>6. UnlabelledOK' /\ AheadOK' /\ MakersOK'
  BY <1>4, <1>5, ActsCopies
<1>7. ForeignKeys' /\ EventsAreBacked' /\ OwnedOK'
  BY <1>1, TablesStill
<1>8. ASSUME NEW o \in Procs PROVE ProgramOK(o)'
  <2>1. CASE o = p
    <3>1. todo'[p] = <<>>
      BY <1>1 DEF TypeInv
    <3>2. QED
      BY <2>1, <3>1, NoProgram
  <2>2. CASE o # p
    <3>1. todo'[o] = todo[o] /\ mode'[o] = mode[o]
      BY <1>1, <2>2 DEF TypeInv
    <3>2. QED
      BY <1>1, <2>2, <3>1, OthersStill
  <2>3. QED
    BY <2>1, <2>2
<1>9. QED
  BY <1>4, <1>6, <1>7, <1>8 DEF GraphInv

LEMMA HopStep ==
  ASSUME GraphInv, NEW p \in Procs, NEW t \in Tasks, NEW r \in Agents, Hop(p, t, r)
  PROVE  GraphInv'
<1>1. /\ TypeInv /\ mode[p] # "off" /\ owner[t] = project[p] /\ hops' \in 0..MaxHops
      /\ recalled' = [recalled EXCEPT ![p] = Recall(p)]
      /\ UNCHANGED <<project, owner, tables, file, mode, mirror, makers, starts, faults>>
      /\ project[p] \in Projects
  BY GraphAssumption DEF GraphInv, TypeInv, Hop
<1>2. PICK extras \in Extras, how \in {"durable", "inline", "plan"} :
        todo' = [todo EXCEPT ![p] = EnrichGraph(t, r, extras) \o Afterwards(t, how)]
  BY DEF Hop
<1>3. PICK s : s = EnrichGraph(t, r, extras) \o Afterwards(t, how)
  OBVIOUS
<1>4. PICK q \in Projects : q = project[p]
  BY <1>1
<1>5. Block(q, s, {})
  BY <1>1, <1>3, <1>4, HopBlock
<1>6. s \in Seq(Call) /\ todo'[p] = s /\ \A o \in Procs \ {p} : todo'[o] = todo[o]
  BY <1>1, <1>2, <1>3, <1>5 DEF Block, TypeInv
<1>7. ForeignKeys' /\ EventsAreBacked' /\ OwnedOK' /\ Grows(q)
  BY <1>1, TablesStill
<1>8. TypeInv'
  <2>1. todo' \in [Procs -> Seq(Call)]
    BY <1>1, <1>2, <1>3, <1>6 DEF TypeInv
  <2>2. recalled' \in [Procs -> SUBSET Tasks]
    <3>1. Recall(p) \subseteq Tasks
      BY <1>1 DEF Recall, ChangedIn, TypeInv
    <3>2. QED
      BY <1>1, <3>1 DEF TypeInv
  <2>3. QED
    BY <1>1, <2>1, <2>2 DEF TypeInv, tables, Label, Graph
<1>9. ProgramOK(p)'
  <2>1. Sound(q, s, {})'
    BY <1>5, <1>6, <1>7, SoundKept DEF Block
  <2>2. \A i \in 1..Len(s) : Own(q, s[i])' /\ s[i].op \notin Numbered
    BY <1>1, <1>5 DEF Block, Own
  <2>3. project'[p] = q /\ mode'[p] # "off"
    BY <1>1, <1>4
  <2>4. QED
    BY <1>6, <2>1, <2>2, <2>3 DEF ProgramOK
<1>10. \A o \in Procs : ProgramOK(o)'
  <2>1. ASSUME NEW o \in Procs \ {p} PROVE ProgramOK(o)'
    BY <1>1, <1>6, OthersStill
  <2>2. QED
    BY <1>9, <2>1
<1>11. UnlabelledOK' /\ AheadOK' /\ MakersOK'
  BY <1>1 DEF GraphInv, UnlabelledOK, AheadOK, MakersOK, Copies, tables
<1>12. QED
  BY <1>7, <1>8, <1>10, <1>11 DEF GraphInv

(* What load() reads of a node, some project stores.                       *)
LEMMA LoadedIs ==
  ASSUME GraphInv, NEW p \in Procs
  PROVE  /\ Loaded \in Graph
         /\ \A n \in Nodes : \E q \in Projects : Loaded.label[n] = nodes[q][n]
<1>1. TypeInv /\ OwnedOK /\ UnlabelledOK /\ project[p] \in Projects /\ Len(makers) \in Nat
  BY LenProperties DEF GraphInv, TypeInv
<1>2. \A q \in Projects, n \in Nodes : nodes[q][n] \in Absent..Len(makers)
  BY <1>1 DEF TypeInv, Label
<1>3. ASSUME NEW n \in Nodes
      PROVE  \E l \in {nodes[q][n] : q \in Projects} : \A q \in Projects : nodes[q][n] <= l
  <2>1. CASE n \in Labelled
    <3>1. PICK t \in Tasks : n \in TaskNodes(t)
      BY <2>1 DEF Labelled
    <3>2. owner[t] \in Projects /\ \A q \in Projects : q # owner[t] => nodes[q][n] = Absent
      BY <1>1, <3>1 DEF TypeInv, OwnedOK
    <3>3. \A q \in Projects : nodes[q][n] <= nodes[owner[t]][n]
      BY <1>1, <1>2, <3>2 DEF Absent
    <3>4. QED
      BY <3>2, <3>3
  <2>2. CASE n \notin Labelled
    <3>1. \A q \in Projects : nodes[q][n] <= 0
      BY <1>1, <2>2 DEF UnlabelledOK, Copies
    <3>2. \A q \in Projects : nodes[q][n] = Absent \/ nodes[q][n] = 0
      BY <1>1, <1>2, <3>1 DEF Absent
    <3>3. CASE \E q \in Projects : nodes[q][n] = 0
      BY <3>1, <3>3
    <3>4. CASE \A q \in Projects : nodes[q][n] = Absent
      BY <1>1, <3>4 DEF Absent
    <3>5. QED
      BY <3>2, <3>3, <3>4
  <2>3. QED
    BY <2>1, <2>2
<1>4. ASSUME NEW n \in Nodes PROVE \E q \in Projects : Loaded.label[n] = nodes[q][n]
  <2>1. Loaded.label[n] = CHOOSE l \in {nodes[q][n] : q \in Projects} :
                            \A q \in Projects : nodes[q][n] <= l
    BY DEF Loaded
  <2>2. Loaded.label[n] \in {nodes[q][n] : q \in Projects}
    BY <1>3, <2>1
  <2>3. QED
    BY <2>2
<1>5. Loaded.label \in Label
  <2>1. Loaded.label = [n \in Nodes |-> Loaded.label[n]]
    BY DEF Loaded
  <2>2. \A n \in Nodes : Loaded.label[n] \in Absent..Len(makers)
    BY <1>2, <1>4
  <2>3. QED
    BY <2>1, <2>2 DEF Label
<1>6. Loaded.links \subseteq SUBSET Nodes
  <2>1. \A q \in Projects : \A e \in edges[q] : e[1] \in Nodes /\ e[3] \in Nodes
    BY <1>1, EdgeParts DEF TypeInv
  <2>2. QED
    BY <2>1 DEF Loaded
<1>7. Loaded = [label |-> Loaded.label, links |-> Loaded.links]
  BY DEF Loaded
<1>8. QED
  BY <1>4, <1>5, <1>6, <1>7 DEF Graph

LEMMA StartStep ==
  ASSUME GraphInv, NEW p \in Procs, Start(p)
  PROVE  GraphInv'
<1>1. /\ TypeInv /\ MakersOK /\ ProgramOK(p) /\ mode[p] = "off" /\ starts' \in 0..MaxStarts
      /\ UNCHANGED <<project, owner, tables, file, todo, recalled, makers, hops, faults>>
  BY GraphAssumption DEF GraphInv, TypeInv, Start
<1>2. /\ mode' \in [Procs -> {"off", "postgres", "file"}] /\ mode'[p] # "off"
      /\ \A o \in Procs \ {p} : mode'[o] = mode[o]
  BY <1>1 DEF Start, TypeInv
<1>3. PICK m \in {Loaded, file} : mirror' = [mirror EXCEPT ![p] = m]
  BY DEF Start
<1>4. m \in Graph
  BY <1>1, <1>3, LoadedIs DEF TypeInv
<1>5. mirror' \in [Procs -> Graph] /\ mirror'[p] = m /\ \A o \in Procs \ {p} : mirror'[o] = mirror[o]
  BY <1>1, <1>3, <1>4 DEF TypeInv
<1>6. TypeInv'
  BY <1>1, <1>2, <1>5 DEF TypeInv, tables, Label, Graph
<1>7. ForeignKeys' /\ EventsAreBacked' /\ OwnedOK'
  BY <1>1, TablesStill
<1>8. \A o \in Procs : ProgramOK(o)'
  <2>1. todo'[p] = <<>>
    BY <1>1 DEF ProgramOK
  <2>2. ASSUME NEW o \in Procs \ {p} PROVE ProgramOK(o)'
    BY <1>1, <1>2, OthersStill
  <2>3. QED
    BY <2>1, <2>2, NoProgram
<1>9. \A s \in 1..Len(makers) : p \notin makers'[s]
  BY <1>1 DEF MakersOK
<1>10. MakersOK'
  <2>1. makers' = makers /\ \A s \in 1..Len(makers) : makers[s] \in SUBSET Procs
    BY <1>1, ElementOfSeq DEF TypeInv
  <2>2. ASSUME NEW s \in 1..Len(makers), NEW o \in makers[s]
        PROVE  mode'[o] # "off" /\ \A u \in makers[s] : u = o
    <3>1. o \in Procs \ {p}
      BY <1>9, <2>1, <2>2
    <3>2. QED
      BY <1>1, <1>2, <2>2, <3>1 DEF MakersOK
  <2>3. QED
    BY <2>1, <2>2 DEF MakersOK
<1>11. UnlabelledOK' /\ AheadOK'
  <2>1. \A n \in Nodes : Fine(m.label[n], n)
    BY <1>3, LoadedIs DEF Fine, Copies
  <2>2. \A o \in Procs, n \in Nodes : Fine(mirror'[o].label[n], n) /\ Ahead(o, n)
    <3>1. ASSUME NEW o \in Procs \ {p}, NEW n \in Nodes
          PROVE  Fine(mirror'[o].label[n], n) /\ Ahead(o, n)
      BY <1>5 DEF Fine, Ahead, Copies
    <3>2. QED
      BY <1>5, <1>9, <2>1, <3>1 DEF Ahead
  <2>3. \A q \in Projects, n \in Nodes : Fine(nodes'[q][n], n)
    BY <1>1 DEF tables, Fine, Copies
  <2>4. \A n \in Nodes : Fine(file'.label[n], n)
    BY <1>1 DEF Fine, Copies
  <2>5. \A s \in 1..Len(makers) : makers'[s] \subseteq makers[s]
    BY <1>1
  <2>6. QED
    BY <1>6, <2>2, <2>3, <2>4, <2>5, CopiesStep
<1>12. QED
  BY <1>6, <1>7, <1>8, <1>10, <1>11 DEF GraphInv

LEMMA EmptyIs ==
  ASSUME TypeInv
  PROVE  Empty \in Graph /\ \A n \in Nodes : Empty.label[n] = Absent
<1>1. Absent \in Absent..Len(makers)
  BY LenProperties DEF TypeInv, Absent
<1>2. QED
  BY <1>1 DEF Empty, Graph, Label

(* A process is gone, and has left its mirror, or nothing, in the file.    *)
LEMMA GoneStep ==
  ASSUME GraphInv, NEW p \in Procs, Gone(p), file' \in {file, mirror[p], Empty},
         faults' \in 0..MaxFaults
  PROVE  GraphInv'
<1>1. /\ TypeInv /\ MakersOK /\ mode' = [mode EXCEPT ![p] = "off"]
      /\ mirror' = [mirror EXCEPT ![p] = Empty] /\ todo' = [todo EXCEPT ![p] = <<>>]
      /\ recalled' = [recalled EXCEPT ![p] = {}]
      /\ makers' = [s \in DOMAIN makers |-> makers[s] \ {p}]
      /\ UNCHANGED <<project, owner, tables, hops, starts>>
  BY DEF GraphInv, Gone
<1>2. /\ makers \in [1..Len(makers) -> SUBSET Procs] /\ DOMAIN makers = 1..Len(makers)
      /\ Len(makers) \in Nat
  BY <1>1, LenProperties DEF TypeInv
<1>3. /\ makers' \in Seq(SUBSET Procs) /\ Len(makers') = Len(makers)
      /\ \A s \in 1..Len(makers) : makers'[s] = makers[s] \ {p}
  BY <1>1, <1>2
<1>4. Empty \in Graph /\ \A n \in Nodes : Empty.label[n] <= 0
  BY <1>1, EmptyIs DEF Absent
<1>5. /\ mirror' \in [Procs -> Graph] /\ mirror'[p] = Empty
      /\ \A o \in Procs \ {p} : mirror'[o] = mirror[o] /\ mode'[o] = mode[o] /\ todo'[o] = todo[o]
      /\ todo'[p] = <<>> /\ mode' \in [Procs -> {"off", "postgres", "file"}]
      /\ todo' \in [Procs -> Seq(Call)] /\ recalled' \in [Procs -> SUBSET Tasks]
  BY <1>1, <1>4, EmptySeq DEF TypeInv
<1>6. file' \in Graph
  BY <1>1, <1>4 DEF TypeInv
<1>7. TypeInv'
  <2>1. Label' = Label /\ Graph' = Graph
    BY <1>3 DEF Label, Graph
  <2>2. QED
    BY <1>1, <1>3, <1>5, <1>6, <2>1 DEF TypeInv, tables
<1>8. ForeignKeys' /\ EventsAreBacked' /\ OwnedOK'
  BY <1>1, TablesStill
<1>9. \A o \in Procs : ProgramOK(o)'
  <2>1. ASSUME NEW o \in Procs \ {p} PROVE ProgramOK(o)'
    BY <1>1, <1>5, OthersStill
  <2>2. QED
    BY <1>5, <2>1, NoProgram
<1>10. MakersOK'
  <2>1. ASSUME NEW s \in 1..Len(makers'), NEW o \in makers'[s]
        PROVE  mode'[o] # "off" /\ \A u \in makers'[s] : u = o
    <3>1. o \in makers[s] /\ o # p /\ o \in Procs /\ makers'[s] \subseteq makers[s]
      BY <1>2, <1>3, <2>1
    <3>2. QED
      BY <1>1, <1>3, <1>5, <2>1, <3>1 DEF MakersOK
  <2>2. QED
    BY <2>1 DEF MakersOK
<1>11. UnlabelledOK' /\ AheadOK'
  <2>1. \A o \in Procs, n \in Nodes : Fine(mirror'[o].label[n], n) /\ Ahead(o, n)
    <3>1. ASSUME NEW o \in Procs \ {p}, NEW n \in Nodes
          PROVE  Fine(mirror'[o].label[n], n) /\ Ahead(o, n)
      BY <1>5 DEF Fine, Ahead, Copies
    <3>2. QED
      BY <1>4, <1>5, <3>1 DEF Fine, Ahead
  <2>2. \A q \in Projects, n \in Nodes : Fine(nodes'[q][n], n)
    BY <1>1 DEF tables, Fine, Copies
  <2>3. \A n \in Nodes : Fine(file'.label[n], n)
    BY <1>4 DEF Fine, Copies
  <2>4. \A s \in 1..Len(makers) : makers'[s] \subseteq makers[s]
    BY <1>3
  <2>5. QED
    BY <1>7, <2>1, <2>2, <2>3, <2>4, CopiesStep
<1>12. QED
  BY <1>7, <1>8, <1>9, <1>10, <1>11 DEF GraphInv

LEMMA StopStep ==
  ASSUME GraphInv, NEW p \in Procs, Stop(p)
  PROVE  GraphInv'
<1>1. Gone(p) /\ file' \in {file, mirror[p], Empty} /\ faults' \in 0..MaxFaults
  BY DEF GraphInv, TypeInv, Stop, Saved
<1>2. QED
  BY <1>1, GoneStep

LEMMA CrashStep ==
  ASSUME GraphInv, NEW p \in Procs, Crash(p)
  PROVE  GraphInv'
<1>1. Gone(p) /\ file' \in {file, mirror[p], Empty}
  BY DEF Crash
<1>2. faults' \in 0..MaxFaults
  BY GraphAssumption DEF GraphInv, TypeInv, Crash
<1>3. QED
  BY <1>1, <1>2, GoneStep

-----------------------------------------------------------------------------
(* The theorems.                                                           *)

LEMMA InvInit == Init => GraphInv
<1> SUFFICES ASSUME Init PROVE GraphInv
  OBVIOUS
<1>1. Len(makers) = 0 /\ makers \in Seq(SUBSET Procs)
  BY EmptySeq DEF Init
<1>2. Empty \in Graph /\ \A n \in Nodes : Empty.label[n] = Absent
  BY <1>1 DEF Empty, Graph, Label, Absent
<1>3. TypeInv
  BY <1>1, <1>2, GraphAssumption, EmptySeq DEF Init, TypeInv, Graph
<1>4. \A L \in Copies : \A n \in Nodes : L[n] = Absent
  BY <1>2 DEF Init, Copies
<1>5. UnlabelledOK /\ AheadOK
  BY <1>4 DEF UnlabelledOK, AheadOK, Absent
<1>6. MakersOK
  BY <1>1 DEF MakersOK
<1>7. ForeignKeys /\ EventsAreBacked
  BY DEF Init, ForeignKeys, EventsAreBacked
<1>8. OwnedOK
  BY <1>2, SomeNodes DEF Init, OwnedOK
<1>9. ASSUME NEW p \in Procs PROVE ProgramOK(p)
  <2>1. mode[p] = "off" /\ todo[p] = <<>> /\ Len(todo[p]) = 0
    BY EmptySeq DEF Init
  <2>2. 1..Len(todo[p]) = {}
    BY <2>1
  <2>3. QED
    BY <2>1, <2>2 DEF ProgramOK
<1>10. QED
  BY <1>3, <1>5, <1>6, <1>7, <1>8, <1>9 DEF GraphInv

LEMMA InvStep == GraphInv /\ [Next]_vars => GraphInv'
<1> SUFFICES ASSUME GraphInv, [Next]_vars PROVE GraphInv'
  OBVIOUS
<1>1. ASSUME NEW p \in Procs, Start(p) PROVE GraphInv'
  BY <1>1, StartStep
<1>2. ASSUME NEW p \in Procs, Stop(p) PROVE GraphInv'
  BY <1>2, StopStep
<1>3. ASSUME NEW p \in Procs, Crash(p) PROVE GraphInv'
  BY <1>3, CrashStep
<1>4. ASSUME NEW p \in Procs, Statement(p) PROVE GraphInv'
  BY <1>4, StatementStep
<1>5. ASSUME NEW p \in Procs, StatementFails(p) PROVE GraphInv'
  BY <1>5, FailureStep
<1>6. ASSUME NEW p \in Procs, NEW t \in Tasks, NEW r \in Agents, Hop(p, t, r) PROVE GraphInv'
  BY <1>6, HopStep
<1>7. CASE UNCHANGED vars
  <2>1. /\ UNCHANGED <<project, owner, nodes, edges, events, file, mode, mirror, todo>>
        /\ UNCHANGED <<recalled, makers, hops, starts, faults>>
    BY <1>7 DEF vars
  <2>2. UNCHANGED <<project, owner, tables>>
    BY <2>1 DEF tables
  <2>3. ForeignKeys' /\ EventsAreBacked' /\ OwnedOK'
    BY <2>2, TablesStill
  <2>4. TypeInv'
    BY <2>1 DEF GraphInv, TypeInv, Label, Graph
  <2>5. UnlabelledOK' /\ AheadOK' /\ MakersOK'
    BY <2>1 DEF GraphInv, UnlabelledOK, AheadOK, MakersOK, Copies
  <2>6. ASSUME NEW p \in Procs PROVE ProgramOK(p)'
    BY <2>1 DEF GraphInv, ProgramOK, Sound, Needs, Own, Newest
  <2>7. QED
    BY <2>3, <2>4, <2>5, <2>6 DEF GraphInv
<1>8. QED
  BY <1>1, <1>2, <1>3, <1>4, <1>5, <1>6, <1>7 DEF Next

(* The inductive invariant: what the tables hold, what every program that  *)
(* a process runs still needs of them, and whose the labels are.           *)
THEOREM GraphInvariant == Spec => []GraphInv
<1>1. Init => GraphInv
  BY InvInit
<1>2. GraphInv /\ [Next]_vars => GraphInv'
  BY InvStep
<1>3. QED
  BY <1>1, <1>2, PTL DEF Spec

(* Types, and the foreign keys of the tables: no statement that stores an  *)
(* edge finds an endpoint missing.                                         *)
THEOREM TypeCorrect == Spec => []TypeOK
<1>1. GraphInv => TypeOK
  BY DEF GraphInv, TypeInv, ForeignKeys, TypeOK, Graph
<1>2. QED
  BY <1>1, GraphInvariant, PTL

(* An event is written after all it speaks of (record_event comes last in  *)
(* every record_*, and after the labels in tag_relevance and tag_task).    *)
THEOREM EventsBacked == Spec => []EventsAreBacked
<1>1. GraphInv => EventsAreBacked
  BY DEF GraphInv
<1>2. QED
  BY <1>1, GraphInvariant, PTL

LEMMA RemainingShorter ==
  ASSUME TypeInv, NEW p \in Procs, todo[p] # <<>>, NEW c, c.op \in {"node", "label"},
         c \in Ready(p), ProgramOK(p)
  PROVE  Remaining(p, c) # todo[p]
<1>1. todo[p] \in Seq(Call) /\ Runnable(c)
  BY ReadyParts DEF TypeInv
<1>2. /\ Tail(todo[p]) \in Seq(Call) /\ Len(Tail(todo[p])) = Len(todo[p]) - 1
      /\ Len(todo[p]) \in Nat
  BY <1>1, HeadTailProperties, LenProperties
<1>3. CASE c.op = "node"
  <2>1. Remaining(p, c) = Tail(todo[p])
    BY <1>3 DEF Remaining
  <2>2. Len(Remaining(p, c)) # Len(todo[p])
    BY <1>2, <2>1
  <2>3. QED
    BY <2>2
<1>4. CASE c.op = "label"
  <2> DEFINE h == Head(todo[p])  S == h.nodes \ {c.node}
  <2>1. h.op = "labels" /\ c.node \in h.nodes /\ S \in SUBSET Labelled /\ c.record \in Nat
    BY <1>1, <1>4, ReadyParts, RunnableParts DEF Newest
  <2>2. Remaining(p, c) = Labels(S, c.record) \o Tail(todo[p])
    BY <1>4 DEF Remaining
  <2>3. CASE S = {}
    <3>1. Remaining(p, c) = Tail(todo[p])
      BY <1>2, <2>2, <2>3, ConcatEmptySeq DEF Labels
    <3>2. Len(Remaining(p, c)) # Len(todo[p])
      BY <1>2, <3>1
    <3>3. QED
      BY <3>2
  <2>4. CASE S # {}
    <3> DEFINE d == [op |-> "labels", nodes |-> S, record |-> c.record]
    <3>1. Labels(S, c.record) = <<d>> /\ d \in Call
      BY <2>1, <2>4 DEF Labels, Call
    <3>2. <<d>> \in Seq(Call) /\ Len(<<d>>) = 1 /\ <<d>>[1] = d
      BY <3>1
    <3>3. (<<d>> \o Tail(todo[p]))[1] = d
      BY <1>2, <3>2, ConcatProperties
    <3>4. todo[p][1] = h
      BY <1>1, Rest
    <3>5. d.nodes # h.nodes
      BY <2>1
    <3>6. QED
      BY <2>2, <3>1, <3>3, <3>4, <3>5
  <2>5. QED
    BY <2>3, <2>4
<1>5. QED
  BY <1>3, <1>4

(* A statement puts an older label back only for a process that has not    *)
(* made the newer one.                                                     *)
LEMMA LabelsStep ==
  ASSUME GraphInv, [Next]_vars, NEW q \in Projects, NEW n \in Nodes, nodes[q][n] > 0
  PROVE  /\ nodes'[q][n] > 0
         /\ nodes'[q][n] < nodes[q][n] =>
              \E p \in Procs \ makers[nodes[q][n]] : todo'[p] # todo[p]
<1>1. TypeInv /\ nodes[q][n] \in 1..Len(makers) /\ Len(makers) \in Nat /\ nodes[q][n] \in Int
  BY CopyTypes DEF GraphInv, Copies, Absent
<1>2. CASE nodes' = nodes
  BY <1>1, <1>2
<1>3. ASSUME NEW p \in Procs, NEW c, Runs(p, c), Stored(p, c)
      PROVE  /\ nodes'[q][n] > 0
             /\ nodes'[q][n] < nodes[q][n] =>
                  \E o \in Procs \ makers[nodes[q][n]] : todo'[o] # todo[o]
  <2>1. /\ ProgramOK(p) /\ c \in Ready(p) /\ Runnable(c) /\ todo[p] # <<>>
        /\ todo'[p] = Remaining(p, c)
    BY <1>1, <1>3, ReadyParts DEF GraphInv, Runs, TypeInv
  <2>2. nodes'[q][n] > 0
    BY <1>1, <1>3, <2>1, StoredGrows DEF Grows
  <2>3. nodes'[q][n] =
          IF c.op = "node" /\ q = project[p] /\ n = c.node
            THEN MergedLabels(nodes[q][n], mirror[p].label[n])
          ELSE IF c.op = "label" /\ n = c.node /\ nodes[q][n] # Absent THEN c.record
          ELSE nodes[q][n]
    BY <1>1, <1>3, <2>1, StoredParts
  <2>4. ASSUME nodes'[q][n] < nodes[q][n]
        PROVE  p \notin makers[nodes[q][n]] /\ c.op \in {"node", "label"}
    <3>1. mirror[p].label[n] \in Int
      BY <1>1 DEF TypeInv, Graph, Label, Absent
    <3>2. CASE c.op = "node" /\ q = project[p] /\ n = c.node
      <4>1. mirror[p].label[n] > 0 /\ mirror[p].label[n] < nodes[q][n]
        BY <1>1, <2>3, <2>4, <3>1, <3>2 DEF MergedLabels, Absent
      <4>2. nodes[q] \in Copies
        BY DEF Copies
      <4>3. p \notin makers[nodes[q][n]]
        BY <1>1, <3>1, <4>1, <4>2 DEF GraphInv, AheadOK
      <4>4. QED
        BY <3>2, <4>3
    <3>3. CASE c.op = "label" /\ n = c.node /\ nodes'[q][n] = c.record
      <4>1. Newest(p, c.record) /\ c.record \in 1..Len(makers)
        BY <1>1, <2>1, <3>3, ReadyParts, RunnableParts
      <4>2. p \notin makers[nodes[q][n]]
        BY <1>1, <2>4, <3>3, <4>1 DEF Newest
      <4>3. QED
        BY <3>3, <4>2
    <3>4. QED
      BY <1>1, <2>3, <2>4, <3>2, <3>3
  <2>5. c.op \in {"node", "label"} => todo'[p] # todo[p]
    BY <1>1, <2>1, RemainingShorter
  <2>6. QED
    BY <2>2, <2>4, <2>5
<1>4. ASSUME NEW p \in Procs, Statement(p)
      PROVE  nodes' = nodes \/ \E c : Runs(p, c) /\ Stored(p, c)
  <2>1. PICK c : Runs(p, c)
    BY <1>4, StatementRuns
  <2>2. QED
    BY <2>1 DEF Runs, tables
<1>5. nodes' = nodes \/ \E p \in Procs : Statement(p)
  BY DEF Next, vars, tables, Start, Stop, Crash, Gone, StatementFails, Hop
<1>6. QED
  BY <1>2, <1>3, <1>4, <1>5

(* No stored label is ever lost, and no process puts an older one back     *)
(* over a label that it made itself.                                       *)
THEOREM TagsStay == Spec => TagsKept
<1>1. GraphInv /\ [Next]_vars =>
        [\A q \in Projects, n \in Nodes :
           LET stored == nodes[q][n] IN
           stored > 0 =>
             /\ nodes'[q][n] > 0
             /\ nodes'[q][n] < stored => \E p \in Procs \ makers[stored] : todo'[p] # todo[p]]_vars
  BY LabelsStep
<1>2. QED
  BY <1>1, GraphInvariant, PTL DEF Spec, TagsKept
=============================================================================
