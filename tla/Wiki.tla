-------------------------------- MODULE Wiki --------------------------------
(***************************************************************************)
(* The living wiki (wiki/storage.py, curator.py, index.py): one module     *)
(* page, kept as a file on the disk of every node that writes it, as one   *)
(* row in the shared Postgres table, and as one entry of the vector index. *)
(* Curators (the job worker of a server, the CLI) render it from the       *)
(* sources of the module, which developers edit meanwhile.                 *)
(*                                                                         *)
(* A text stands for the versions of the sources it was written from.  The *)
(* model is not always shown all there is: a prompt holds a bounded number *)
(* of files, the beginning of a long one, and none that cannot be read.    *)
(* The catalogue index.md and log.md are left out, and one curator is one  *)
(* process: within it write() is synchronous, between processes it is a    *)
(* read, a rename and an upsert.                                           *)
(***************************************************************************)
EXTENDS Integers, FiniteSets, TLC

CONSTANTS
  Curators,
  Sources,      \* files of the module
  Long,         \* those longer than _MAX_BODY_PER_FILE
  AbsoluteRoot, \* curators given an absolute repo root (the CLI resolves it)
  Slack,        \* _STALE_SLACK_SECONDS, in ticks
  MaxFiles,     \* _MAX_FILES_PER_MODULE
  MaxClock,     \* bound: ticks
  MaxEdits,     \* bound: edits and removals of sources
  MaxRenders,   \* bound: questions put to the model
  MaxFaults,    \* bound: failed Postgres and index calls, crashes
  MaxMishaps    \* bound: kinds of mishap in one behaviour

ASSUME WikiAssumption ==
  /\ AbsoluteRoot \subseteq Curators /\ Long \subseteq Sources
  /\ Slack \in Nat /\ MaxFiles \in Nat \ {0}
  /\ MaxClock \in Nat /\ MaxEdits \in Nat
  /\ MaxRenders \in Nat /\ MaxFaults \in Nat /\ MaxMishaps \in Nat

VARIABLES
  clock,
  repo,        \* per source: version, is it there, mtime
  disk,        \* per curator: the page in its wiki root
  row,         \* the page's row of agentcore_wiki_pages
  entry,       \* what the vector index holds for the page
  persistent,  \* curators whose storage found Postgres when it was built
  stage,       \* per curator: what it is about to do
  draft,       \* per curator: the page it renders, and later writes
  edits, renders, faults,
  mishaps      \* what has gone wrong or raced so far

vars == <<clock, repo, disk, row, entry, persistent, stage, draft, edits,
          renders, faults, mishaps>>
curatorVars == <<stage, draft>>
pageVars == <<disk, row, entry>>

Versions == 0..MaxEdits + 1
File == [version : Versions, there : BOOLEAN, mtime : 0..MaxClock]
Shown == [Sources -> Versions]     \* 0: not shown
Nothing == [s \in Sources |-> 0]

\* a source that was there, and of which the model was not shown all
Withheld == -1
Views == [Sources -> Versions \union {Withheld}]

(* text: what the body was written from; seen: what the model had before   *)
(* it when the body was last written or confirmed; at: last_updated.       *)
Page == [text : Shown, seen : Views, sources : SUBSET Sources, at : -1..MaxClock]
NoPage == [text |-> Nothing, seen |-> Nothing, sources |-> {}, at |-> -1]

Entry == [text : Shown, sources : SUBSET Sources]
NoEntry == [text |-> Nothing, sources |-> {}]
EntryOf(p) == [text |-> p.text, sources |-> p.sources]

(* old: the text a revision starts from, until it is answered.             *)
Draft == [page : Page, old : Shown]
NoDraft == [page |-> NoPage, old |-> Nothing]

Copies == {row} \union {disk[c] : c \in Curators}

Mishaps == {"raced", "overtaken", "overlapped", "misread", "unreadable",
            "mirror lost", "index lost"}
Writing == {"replace", "mirror", "confirm", "index"}

TypeOK ==
  /\ clock \in 0..MaxClock
  /\ repo \in [Sources -> File]
  /\ disk \in [Curators -> Page] /\ row \in Page /\ entry \in Entry
  /\ \A p \in Copies : p = NoPage \/ p.at >= 0
  /\ persistent \in SUBSET Curators
  /\ stage \in [Curators -> {"idle", "asked"} \union Writing]
  /\ draft \in [Curators -> Draft]

  /\ edits \in 0..MaxEdits /\ renders \in 0..MaxRenders /\ faults \in 0..MaxFaults
  /\ mishaps \in SUBSET Mishaps

(* A checkout, an empty wiki.                                              *)
Init ==
  /\ clock = 0
  /\ repo \in [Sources -> [version : {1}, there : BOOLEAN, mtime : {0}]]
  /\ disk = [c \in Curators |-> NoPage] /\ row = NoPage /\ entry = NoEntry
  /\ persistent \in SUBSET Curators
  /\ stage = [c \in Curators |-> "idle"]
  /\ draft = [c \in Curators |-> NoDraft]
  /\ edits = 0 /\ renders = 0 /\ faults = 0 /\ mishaps = {}

Fault == faults < MaxFaults /\ faults' = faults + 1
Notes(M) == mishaps' = mishaps \union M /\ Cardinality(mishaps') <= MaxMishaps
If(b, mishap) == IF b THEN {mishap} ELSE {}

-----------------------------------------------------------------------------
(* The repository.                                                         *)

Present == {s \in Sources : repo[s].there}
Snapshot(S) == [s \in Sources |-> IF s \in S \intersect Present THEN repo[s].version ELSE 0]
Newer(p, s) == repo[s].mtime > p.at + Slack

(* A developer changes, adds or removes a file.  The edit races a render   *)
(* that has read the file, and the slack after last_updated hides it.      *)
Touch(s, file) ==
  /\ edits < MaxEdits /\ edits' = edits + 1
  /\ repo' = [repo EXCEPT ![s] = file]
  /\ Notes(If(\/ \E c \in Curators : stage[c] # "idle"
              \/ \E p \in Copies : p # NoPage /\ clock <= p.at + Slack, "raced"))
  /\ UNCHANGED <<clock, pageVars, persistent, curatorVars, renders, faults>>

Edit(s) == Touch(s, [version |-> repo[s].version + 1, there |-> TRUE, mtime |-> clock])

Remove(s) == s \in Present /\ Touch(s, [repo[s] EXCEPT !.there = FALSE])

Tick ==
  /\ clock < MaxClock /\ clock' = clock + 1
  /\ UNCHANGED <<repo, edits, pageVars, persistent, curatorVars, renders, faults, mishaps>>

-----------------------------------------------------------------------------
(* WikiStorage.                                                            *)

Served(c) == IF c \in persistent /\ row # NoPage THEN row ELSE disk[c]

(* read and walk: a failed query is swallowed and the disk answers.        *)
Reading(c, p, mishap) ==
  \/ p = Served(c) /\ mishap = {} /\ UNCHANGED faults
  \/ c \in persistent /\ Fault /\ p = disk[c] /\ mishap = {"misread"}

SameHash(p, q) == p.text = q.text /\ p.sources = q.sources

\* variant: the sources of the new page replace the recorded ones
MergedReplacing(old, new) == new

(* merge_frontmatter: the sources are united, inbound audit fields dropped.*)
Merged(old, new) == [new EXCEPT !.sources = old.sources \union new.sources]

\* variant: a page is stored as it comes
WithoutAudit(p) == p

WithAudit(p) == [p EXCEPT !.at = clock]

\* variant: ON CONFLICT DO NOTHING
WritesRowOnce(c, mishap) ==
  IF c \in persistent
    THEN \/ row' = (IF row = NoPage THEN draft[c].page ELSE row) /\ mishap = {} /\ UNCHANGED faults
         \/ Fault /\ mishap = {"mirror lost"} /\ UNCHANGED row
    ELSE mishap = {"mirror lost"} /\ UNCHANGED <<row, faults>>

(* _write_pg: nothing without Postgres, and a failure is suppressed.       *)
WritesRow(c, mishap) ==
  IF c \in persistent
    THEN \/ row' = draft[c].page /\ mishap = {} /\ UNCHANGED faults
         \/ Fault /\ mishap = {"mirror lost"} /\ UNCHANGED row
    ELSE mishap = {"mirror lost"} /\ UNCHANGED <<row, faults>>

-----------------------------------------------------------------------------
(* WikiCurator.                                                            *)

Others(c, S) == \E d \in Curators \ {c} : stage[d] \in S

Goto(c, s) == stage' = [stage EXCEPT ![c] = s]

Idles(c) == Goto(c, "idle") /\ draft' = [draft EXCEPT ![c] = NoDraft]

(* files[:_MAX_FILES_PER_MODULE], in an order nobody chose, without those  *)
(* that raise OSError; with none left there is no question.                *)
Batch(files, shown) ==
  shown \in (SUBSET files) \ {{}} /\ Cardinality(shown) <= MaxFiles

Skips(files, shown) == shown # files /\ Cardinality(shown) < MaxFiles

(* What the model has of the files that are there: the whole of one that   *)
(* is shown, unless text[:_MAX_BODY_PER_FILE] cuts it.                     *)
View(files, shown) ==
  [s \in Sources |-> IF s \notin files THEN 0
                     ELSE IF s \in shown \ Long THEN repo[s].version ELSE Withheld]

Asks(c, sources, files, shown, old) ==
  /\ renders < MaxRenders /\ renders' = renders + 1
  /\ Goto(c, "asked")
  /\ draft' = [draft EXCEPT ![c] =
       [page |-> [text |-> Snapshot(shown), seen |-> View(files, shown),
                  sources |-> sources, at |-> -1],
        old |-> old]]
  /\ UNCHANGED <<clock, repo, edits, pageVars, persistent>>

(* The recorded sources are relative paths; those of an absolute root are  *)
(* not, and never equal them.                                              *)
NeedsRefresh(c, p) ==
  \/ p.sources # {} /\ (c \in AbsoluteRoot \/ p.sources # Present)
  \/ \E s \in Present : Newer(p, s)

(* What goes wrong between reading page p and asking about these files.    *)
NotesAsking(c, mishap, files, shown) ==
  Notes(mishap \union If(Others(c, Writing), "overlapped")
               \union If(Skips(files, shown), "unreadable"))

(* seed_from_repo: skip a page that is up to date, else show the files of  *)
(* the module.  Those that are shown are the sources of the new page.      *)
SeedStart(c, force) ==
  /\ stage[c] = "idle"
  /\ \E p \in Copies, mishap \in SUBSET {"misread"}, shown \in SUBSET Present :
       /\ Reading(c, p, mishap)
       /\ force \/ p = NoPage \/ NeedsRefresh(c, p)
       /\ Batch(Present, shown)
       /\ NotesAsking(c, mishap, Present, shown)
       /\ Asks(c, shown, Present, shown, Snapshot(shown))

\* variant: only the changed files are shown to the model
IncrementalShowingChanged(c, changed) ==
  /\ stage[c] = "idle"
  /\ \E p \in Copies, mishap \in SUBSET {"misread"}, shown \in SUBSET Present :
       LET files == p.sources \intersect Present \intersect changed IN
         /\ Reading(c, p, mishap)
         /\ Batch(files, shown)
         /\ NotesAsking(c, mishap, files, shown)
         /\ Asks(c, p.sources, files, shown, p.text)

(* incremental: a page one of whose sources changed is revised from those  *)
(* of its sources that are left.  It keeps them all, shown or not.         *)
IncrementalStart(c, changed) ==
  /\ stage[c] = "idle"
  /\ \E p \in Copies, mishap \in SUBSET {"misread"}, shown \in SUBSET Present :
       LET files == p.sources \intersect Present IN
         /\ Reading(c, p, mishap)
         /\ p.sources \intersect changed # {}
         /\ Batch(files, shown)
         /\ NotesAsking(c, mishap, files, shown)
         /\ Asks(c, p.sources, files, shown, p.text)

(* The call fails or the text is empty: the page stays as it is.  The      *)
(* curator sets no timeout.                                                *)
NoAnswer(c) ==
  /\ stage[c] = "asked" /\ Idles(c)
  /\ UNCHANGED <<clock, repo, edits, pageVars, persistent, renders, faults, mishaps>>

(* A new text, or for a revision the old one; write() reads and merges.    *)
Answer(c) ==
  /\ stage[c] = "asked"
  /\ \E text \in {draft[c].page.text, draft[c].old}, p \in Copies, mishap \in SUBSET {"misread"} :
       /\ Reading(c, p, mishap)
       /\ LET new == WithAudit(Merged(p, [draft[c].page EXCEPT !.text = text])) IN
            /\ Goto(c, IF p # NoPage /\ SameHash(p, new) THEN "confirm" ELSE "replace")
            /\ draft' = [draft EXCEPT ![c] = [page |-> new, old |-> Nothing]]
       /\ Notes(mishap \union If(Others(c, Writing), "overlapped")
                       \union If(Others(c, {"asked"}), "overtaken"))
  /\ UNCHANGED <<clock, repo, edits, pageVars, persistent, renders>>

(* The hash is the same: the file stays, the row is still brought forward, *)
(* and None is returned, so nothing is indexed.                            *)
Confirm(c) ==
  /\ stage[c] = "confirm" /\ Idles(c)
  /\ \E mishap \in SUBSET {"mirror lost"} : WritesRow(c, mishap) /\ Notes(mishap)
  /\ UNCHANGED <<clock, repo, edits, disk, entry, persistent, renders>>

Replace(c) ==
  /\ stage[c] = "replace" /\ Goto(c, "mirror")
  /\ disk' = [disk EXCEPT ![c] = draft[c].page]
  /\ UNCHANGED <<clock, repo, edits, row, entry, persistent, draft, renders, faults, mishaps>>

Mirror(c) ==
  /\ stage[c] = "mirror" /\ Goto(c, "index")
  /\ \E mishap \in SUBSET {"mirror lost"} : WritesRow(c, mishap) /\ Notes(mishap)
  /\ UNCHANGED <<clock, repo, edits, disk, entry, persistent, draft, renders>>

\* variant: the page as rendered is indexed, not the one write() returned
IndexRendered(c) ==
  /\ stage[c] = "index" /\ Idles(c)
  /\ \/ /\ entry' = [text |-> draft[c].page.text,
                     sources |-> {s \in Sources : draft[c].page.seen[s] # 0}]
        /\ UNCHANGED <<faults, mishaps>>
     \/ Fault /\ Notes({"index lost"}) /\ UNCHANGED entry
  /\ UNCHANGED <<clock, repo, edits, disk, row, persistent, renders>>

(* upsert_page: embed, then upsert; either may fail, and is not repeated.  *)
Index(c) ==
  /\ stage[c] = "index" /\ Idles(c)
  /\ \/ entry' = EntryOf(draft[c].page) /\ UNCHANGED <<faults, mishaps>>
     \/ Fault /\ Notes({"index lost"}) /\ UNCHANGED entry
  /\ UNCHANGED <<clock, repo, edits, disk, row, persistent, renders>>


(* The process dies, or the disk fails; it comes back with or without      *)
(* Postgres.                                                               *)
Restart(c) ==
  /\ stage[c] # "idle" /\ Fault /\ Idles(c)
  /\ persistent' \in {persistent \union {c}, persistent \ {c}}
  /\ Notes(If(stage[c] = "mirror", "mirror lost") \union If(stage[c] = "index", "index lost"))
  /\ UNCHANGED <<clock, repo, edits, pageVars, renders>>

Curate(c) ==
  \/ \E force \in BOOLEAN : SeedStart(c, force)
  \/ \E changed \in SUBSET Sources : IncrementalStart(c, changed)
  \/ NoAnswer(c) \/ Answer(c)
  \/ Confirm(c) \/ Replace(c) \/ Mirror(c) \/ Index(c)
  \/ Restart(c)

Next ==
  \/ \E c \in Curators : Curate(c)
  \/ \E s \in Sources : Edit(s) \/ Remove(s)
  \/ Tick

Spec == Init /\ [][Next]_vars

-----------------------------------------------------------------------------
(* What the wiki promises.                                                 *)

(* lint: some recorded source is gone, or newer than last_updated.         *)
Reported(p) == \E s \in p.sources : s \notin Present \/ Newer(p, s)

Clean(M) == mishaps \intersect M = {}

(* A page that says less or other than its sources do is never silent:     *)
(* whatever was edited, removed, restored or half written, lint reports    *)
(* the page, unless the edit came between the model's reading and the end  *)
(* of the slack, or two curators rendered at once, or a query failed.      *)
(* About a source that was withheld when the page was last written, by the *)
(* cap on files, the cut of a long file or a failed read, lint says        *)
(* nothing: see NothingIsWithheld.  (curator.py, the last_updated test of  *)
(* lint and _needs_refresh.)                                               *)
StaleIsReported ==
  Clean({"raced", "overtaken", "overlapped", "misread"}) =>
    \A p \in Copies, s \in Sources :
      s \in p.sources /\ p.seen[s] \notin {repo[s].version, Withheld} => Reported(p)

(* Without that exception it is refuted, and nothing needs to go wrong:    *)
(* last_updated is renewed for every recorded source although only         *)
(* MaxFiles of them, and the beginning of each, were shown.                *)
NothingIsWithheld ==
  Clean({"raced", "overtaken", "overlapped", "misread", "unreadable"}) =>
    \A p \in Copies, s \in Sources :
      s \in p.sources /\ p.seen[s] # repo[s].version => Reported(p)

(* The row, which every reader prefers, is never older than a file a       *)
(* curator has written, unless an upsert was lost or two writes            *)
(* overlapped.  (storage.py: write swallows a failed upsert, read prefers  *)
(* Postgres.)                                                              *)
NewestIsServed ==
  Clean({"mirror lost", "overlapped"}) =>
    \A c \in Curators : stage[c] # "mirror" => disk[c].at <= row.at

(* When no curator is writing, a search finds the page that is served: the *)
(* text and the sources of the row.  (storage.py:288, index.py.)           *)
IndexFollowsPage ==
  /\ Clean({"mirror lost", "index lost", "overlapped", "misread"})
  /\ \A c \in Curators : stage[c] \notin Writing
  => entry = EntryOf(row)

(* No write drops a source a page has recorded, whoever wrote it: a page   *)
(* whose source is deleted stays reported.  (storage.py:7.)                *)
SourcesKept ==
  [][ mishaps' \intersect {"misread", "overlapped", "mirror lost"} = {} =>
        /\ row.sources \subseteq row'.sources
        /\ \A c \in Curators : disk[c].sources \subseteq disk'[c].sources ]_vars
=============================================================================
