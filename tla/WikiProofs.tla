------------------------------ MODULE WikiProofs ------------------------------
(***************************************************************************)
(* Proofs about Wiki: which page is served, that no write drops a source,  *)
(* that a stale page is reported and that the index follows the row,       *)
(* unless one of the named mishaps has happened.                           *)
(***************************************************************************)
EXTENDS Wiki, TLAPS

-----------------------------------------------------------------------------
(* Types and times.                                                        *)

(* Times do not lie ahead, and a page about to be stored has one.          *)
TimesOK ==
  /\ \A s \in Sources : repo[s].version <= edits + 1
  /\ row.at <= clock /\ (row.at = -1 => row = NoPage)
  /\ \A c \in Curators :
       /\ disk[c].at <= clock /\ (disk[c].at = -1 => disk[c] = NoPage)
       /\ draft[c].page.at <= clock
       /\ stage[c] # "idle" => draft[c].page.sources # {}
       /\ stage[c] \in Writing => draft[c].page.at >= 0

TypeInv == TypeOK /\ TimesOK

(* Two curators write at once only as a mishap, and so does one write      *)
(* while another renders.                                                  *)
AloneOK ==
  /\ Clean({"overlapped"}) =>
       \A c, d \in Curators : stage[c] \in Writing /\ stage[d] \in Writing => c = d
  /\ Clean({"overlapped", "overtaken"}) =>
       \A c, d \in Curators : stage[c] \in Writing /\ stage[d] # "idle" => c = d

(* The page about to be written is the newest there is.                    *)
NewestOK ==
  /\ Clean({"overlapped"}) =>
       \A c \in Curators : stage[c] \in Writing =>
         /\ row.at <= draft[c].page.at
         /\ \A d \in Curators : disk[d].at <= draft[c].page.at
  /\ \A c \in Curators : stage[c] = "mirror" => disk[c] = draft[c].page
  /\ NewestIsServed

(* It has the sources of all that it will replace.                         *)
SourcesOK ==
  Clean({"misread", "overlapped", "mirror lost"}) =>
    \A c \in Curators :
      /\ stage[c] # "mirror" => disk[c].sources \subseteq row.sources
      /\ stage[c] \in {"replace", "mirror", "confirm"} =>
           /\ disk[c].sources \subseteq draft[c].page.sources
           /\ c \in persistent => row.sources \subseteq draft[c].page.sources

(* Between the row and the index stands at most the curator that indexes.  *)
IndexOK ==
  Clean({"mirror lost", "index lost", "overlapped", "misread"}) =>
    /\ (\A c \in Curators : stage[c] # "index") => entry = EntryOf(row)
    /\ \A c \in Curators :
         /\ stage[c] = "index" => EntryOf(row) = EntryOf(draft[c].page)
         /\ stage[c] = "confirm" /\ c \in persistent => EntryOf(row) = EntryOf(draft[c].page)

(* The model had source s before it as it is, or not all of it.            *)
Current(p, s) == p.seen[s] \in {repo[s].version, Withheld}

(* A page was written from its sources as they are, source by source, or   *)
(* from what was not withheld of them, or lint sees that it was not.       *)
Honest(p) == \A s \in p.sources : Current(p, s) \/ s \notin Present \/ Newer(p, s)

(* What the model was shown is still there, and so are the sources of the  *)
(* page that will be merged, shown or withheld.                            *)
HonestOK ==
  Clean({"raced", "overtaken", "overlapped", "misread"}) =>
    /\ Honest(row)
    /\ \A c \in Curators :
         /\ Honest(disk[c])
         /\ stage[c] = "asked" =>
              \A s \in (draft[c].page.sources \union Served(c).sources) \intersect Present :
                Current(draft[c].page, s)
         /\ stage[c] \in Writing =>
              \A s \in draft[c].page.sources \intersect Present : Current(draft[c].page, s)

-----------------------------------------------------------------------------
(* Operators.                                                              *)

LEMMA PageType ==
  /\ NoPage \in Page /\ NoPage.sources = {} /\ NoPage.at = -1
  /\ NoEntry \in Entry /\ NoDraft \in Draft /\ NoDraft.page = NoPage
  /\ EntryOf(NoPage) = NoEntry
  /\ Nothing \in Shown
<1>1. -1 \in -1..MaxClock /\ 0 \in Versions BY WikiAssumption DEF Versions
<1>2. Nothing \in Shown /\ Nothing \in Views BY <1>1 DEF Nothing, Shown, Views
<1>3. NoPage \in Page /\ NoPage.sources = {} /\ NoPage.at = -1 BY <1>1, <1>2 DEF NoPage, Page
<1>4. NoEntry \in Entry BY <1>2 DEF NoEntry, Entry
<1>5. NoDraft \in Draft /\ NoDraft.page = NoPage BY <1>2, <1>3 DEF NoDraft, Draft
<1>6. EntryOf(NoPage) = NoEntry BY DEF EntryOf, NoPage, NoEntry
<1> QED BY <1>2, <1>3, <1>4, <1>5, <1>6

LEMMA PageFields ==
  ASSUME NEW p \in Page
  PROVE  /\ p.text \in Shown /\ p.seen \in Views /\ p.sources \in SUBSET Sources
         /\ p.at \in Int /\ p.at \in -1..MaxClock /\ EntryOf(p) \in Entry
         /\ p = [text |-> p.text, seen |-> p.seen, sources |-> p.sources, at |-> p.at]
BY WikiAssumption DEF Page, EntryOf, Entry

LEMMA SnapshotType ==
  ASSUME TypeOK, NEW S
  PROVE  Snapshot(S) \in Shown
<1>1. \A s \in Sources : repo[s].version \in Versions BY DEF TypeOK, File
<1>2. 0 \in Versions BY WikiAssumption DEF Versions
<1> QED BY <1>1, <1>2 DEF Snapshot, Shown, Present

(* Of a file that is there the model has the version it is in, or less.    *)
LEMMA ViewType ==
  ASSUME TypeOK, NEW files \in SUBSET Sources, NEW shown
  PROVE  /\ View(files, shown) \in Views
         /\ \A s \in files : View(files, shown)[s] \in {repo[s].version, Withheld}
<1>1. \A s \in Sources : repo[s].version \in Versions BY DEF TypeOK, File
<1>2. 0 \in Versions BY WikiAssumption DEF Versions
<1> QED BY <1>1, <1>2 DEF View, Views

LEMMA CleanMore ==
  ASSUME NEW M, NEW N, N \subseteq M, Clean(M) PROVE Clean(N)
BY DEF Clean

(* No mishap is forgotten.                                                 *)
LEMMA CleanBefore ==
  ASSUME NEW M, NEW N, mishaps' = mishaps \union N \/ mishaps' = mishaps, Clean(M)'
  PROVE  Clean(M) /\ (mishaps' = mishaps \union N => M \intersect N = {})
BY DEF Clean

(* A page that is read is the served one, or a query has failed.           *)
LEMMA ReadingServed ==
  ASSUME TypeOK, NEW c \in Curators, NEW p, NEW mishap, Reading(c, p, mishap)
  PROVE  /\ p \in Page /\ p \in Copies
         /\ mishap \subseteq {"misread"}
         /\ mishap = {} => p = Served(c)
         /\ p = row \/ p = disk[c]
         /\ faults' \in Nat /\ (faults' = faults \/ (faults' = faults + 1 /\ faults < MaxFaults))
<1>1. row \in Page /\ disk[c] \in Page /\ faults \in Nat BY DEF TypeOK
<1>2. Served(c) = row \/ Served(c) = disk[c] BY DEF Served
<1>3. p = row \/ p = disk[c] BY <1>2 DEF Reading
<1>4. p \in Page /\ p \in Copies BY <1>1, <1>3 DEF Copies
<1>5. faults' \in Nat /\ (faults' = faults \/ (faults' = faults + 1 /\ faults < MaxFaults))
  BY <1>1 DEF Reading, Fault
<1>6. mishap \subseteq {"misread"} /\ (mishap = {} => p = Served(c)) BY DEF Reading
<1> QED BY <1>3, <1>4, <1>5, <1>6

LEMMA RowWritten ==
  ASSUME TypeOK, NEW c \in Curators, NEW mishap, WritesRow(c, mishap)
  PROVE  /\ faults' = faults \/ (faults' = faults + 1 /\ faults < MaxFaults)
         /\ row' = row \/ row' = draft[c].page
         /\ mishap \subseteq {"mirror lost"}
         /\ mishap = {} => c \in persistent /\ row' = draft[c].page
BY DEF WritesRow, Fault

-----------------------------------------------------------------------------
(* What the steps of a curator do.                                         *)

(* A curator shows the model some of the files it has found.               *)
Asked(c, S, files, shown) ==
  /\ \E d \in Draft :
       /\ d.page.seen = View(files, shown) /\ d.page.sources = S /\ d.page.at = -1
       /\ draft' = [draft EXCEPT ![c] = d]
  /\ stage' = [stage EXCEPT ![c] = "asked"]
  /\ renders' \in 0..MaxRenders
  /\ UNCHANGED <<clock, repo, edits, disk, row, entry, persistent>>

LEMMA AskEffect ==
  ASSUME TypeOK, NEW c \in Curators, NEW S \in SUBSET Sources, NEW files \in SUBSET Sources,
         NEW shown, NEW old \in Shown, S # {}, stage[c] = "idle",
         Asks(c, S, files, shown, old)
  PROVE  Asked(c, S, files, shown)
<1> DEFINE page == [text |-> Snapshot(shown), seen |-> View(files, shown), sources |-> S,
                    at |-> -1]
           d == [page |-> page, old |-> old]
<1>1. -1 \in -1..MaxClock BY WikiAssumption
<1>2. Snapshot(shown) \in Shown /\ View(files, shown) \in Views BY SnapshotType, ViewType
<1>3. page \in Page /\ page.seen = View(files, shown) /\ page.sources = S /\ page.at = -1
  BY <1>1, <1>2 DEF Page
<1>4. d \in Draft /\ d.page = page BY <1>3 DEF Draft
<1>5. renders' \in 0..MaxRenders BY WikiAssumption DEF Asks, TypeOK
<1>6. draft' = [draft EXCEPT ![c] = d] BY DEF Asks
<1> HIDE DEF d, page
<1> QED BY <1>3, <1>4, <1>5, <1>6 DEF Asks, Asked, Goto, pageVars

(* Either way of starting: the files it has found and what it shows of     *)
(* them.  Unless a query failed these files cover what is served of the    *)
(* page.                                                                   *)
Starts(c, S, files, shown, old) ==
  /\ stage[c] = "idle" /\ S \in SUBSET Sources /\ S # {} /\ old \in Shown
  /\ files \subseteq Present /\ S \intersect Present \subseteq files
  /\ \E mishap \in SUBSET {"misread"} :
       /\ mishap = {} => Served(c).sources \intersect Present \subseteq files
       /\ mishaps' = mishaps \union (mishap \union If(Others(c, Writing), "overlapped")
                                            \union If(Skips(files, shown), "unreadable"))
  /\ faults' = faults \/ (faults' = faults + 1 /\ faults < MaxFaults)
  /\ Asks(c, S, files, shown, old)

Start(c) ==
  \/ \E force \in BOOLEAN : SeedStart(c, force)
  \/ \E changed \in SUBSET Sources : IncrementalStart(c, changed)

LEMMA StartEffect ==
  ASSUME TypeOK, NEW c \in Curators, Start(c)
  PROVE  \E S, files, shown, old : Starts(c, S, files, shown, old)
<1>1. CASE \E force \in BOOLEAN : SeedStart(c, force)
  <2>1. PICK force \in BOOLEAN : SeedStart(c, force) BY <1>1
  <2>2. PICK p \in Copies, mishap \in SUBSET {"misread"}, shown \in SUBSET Present :
          /\ Reading(c, p, mishap)
          /\ Batch(Present, shown)
          /\ NotesAsking(c, mishap, Present, shown)
          /\ Asks(c, shown, Present, shown, Snapshot(shown))
    BY <2>1 DEF SeedStart
  <2>3. faults' = faults \/ (faults' = faults + 1 /\ faults < MaxFaults)
    BY <2>2, ReadingServed
  <2>4. Present \in SUBSET Sources /\ shown # {} BY <2>2 DEF Present, Batch
  <2>5. Snapshot(shown) \in Shown BY SnapshotType
  <2>6. Starts(c, shown, Present, shown, Snapshot(shown))
    BY <2>1, <2>2, <2>3, <2>4, <2>5 DEF SeedStart, Starts, NotesAsking, Notes
  <2> QED BY <2>6
<1>2. CASE \E changed \in SUBSET Sources : IncrementalStart(c, changed)
  <2>1. PICK changed \in SUBSET Sources : IncrementalStart(c, changed) BY <1>2
  <2>2. PICK p \in Copies, mishap \in SUBSET {"misread"}, shown \in SUBSET Present :
          /\ Reading(c, p, mishap)
          /\ p.sources \intersect changed # {}
          /\ NotesAsking(c, mishap, p.sources \intersect Present, shown)
          /\ Asks(c, p.sources, p.sources \intersect Present, shown, p.text)
    BY <2>1 DEF IncrementalStart
  <2>3. /\ p \in Page /\ (mishap = {} => p = Served(c))
        /\ faults' = faults \/ (faults' = faults + 1 /\ faults < MaxFaults)
    BY <2>2, ReadingServed
  <2>4. p.sources \in SUBSET Sources /\ p.text \in Shown BY <2>3, PageFields
  <2>5. Starts(c, p.sources, p.sources \intersect Present, shown, p.text)
    BY <2>1, <2>2, <2>3, <2>4 DEF IncrementalStart, Starts, NotesAsking, Notes
  <2> QED BY <2>5
<1> QED BY <1>1, <1>2 DEF Start

(* The answer is merged with the page that is read, and dated.             *)
Answers(c, new, p, mishap) ==
  /\ stage[c] = "asked" /\ p \in Page /\ (p = row \/ p = disk[c]) /\ new \in Page
  /\ mishap \subseteq {"misread"} /\ (mishap = {} => p = Served(c))
  /\ new.seen = draft[c].page.seen /\ new.at = clock
  /\ new.sources = p.sources \union draft[c].page.sources
  /\ stage' = [stage EXCEPT ![c] = IF p # NoPage /\ SameHash(p, new) THEN "confirm" ELSE "replace"]
  /\ draft' = [draft EXCEPT ![c] = [page |-> new, old |-> Nothing]]
  /\ mishaps' = mishaps \union (mishap \union If(Others(c, Writing), "overlapped")
                                       \union If(Others(c, {"asked"}), "overtaken"))
  /\ faults' = faults \/ (faults' = faults + 1 /\ faults < MaxFaults)
  /\ UNCHANGED <<clock, repo, edits, disk, row, entry, persistent, renders>>

LEMMA AnswerEffect ==
  ASSUME TypeOK, NEW c \in Curators, Answer(c)
  PROVE  \E new, p, mishap : Answers(c, new, p, mishap)
<1>1. /\ draft \in [Curators -> Draft] /\ draft[c] \in Draft /\ draft[c].page \in Page
      /\ draft[c].old \in Shown /\ clock \in -1..MaxClock
  BY WikiAssumption DEF TypeOK, Draft
<1>2. PICK text \in {draft[c].page.text, draft[c].old}, p \in Copies,
           mishap \in SUBSET {"misread"} :
       /\ Reading(c, p, mishap)
       /\ LET new == WithAudit(Merged(p, [draft[c].page EXCEPT !.text = text])) IN
            /\ Goto(c, IF p # NoPage /\ SameHash(p, new) THEN "confirm" ELSE "replace")
            /\ draft' = [draft EXCEPT ![c] = [page |-> new, old |-> Nothing]]
       /\ Notes(mishap \union If(Others(c, Writing), "overlapped")
                       \union If(Others(c, {"asked"}), "overtaken"))
  BY DEF Answer
<1> DEFINE new == WithAudit(Merged(p, [draft[c].page EXCEPT !.text = text]))
<1>3. /\ p \in Page /\ (p = row \/ p = disk[c])
      /\ mishap \subseteq {"misread"} /\ (mishap = {} => p = Served(c))
      /\ faults' = faults \/ (faults' = faults + 1 /\ faults < MaxFaults)
  BY <1>2, ReadingServed
<1>4. text \in Shown BY <1>1, <1>2, PageFields
<1>5. p.sources \in SUBSET Sources BY <1>3, PageFields
<1>6. /\ new \in Page /\ new.seen = draft[c].page.seen /\ new.at = clock
      /\ new.sources = p.sources \union draft[c].page.sources
  <2> DEFINE q == draft[c].page
             a == [q EXCEPT !.text = text]
             m == [a EXCEPT !.sources = p.sources \union a.sources]
             w == [m EXCEPT !.at = clock]
  <2>1. q \in Page BY <1>1
  <2> HIDE DEF q
  <2>2. a \in Page /\ a.seen = q.seen /\ a.sources = q.sources BY <1>4, <2>1 DEF Page
  <2> HIDE DEF a
  <2>3. m \in Page /\ m.seen = a.seen /\ m.sources = p.sources \union a.sources
    BY <1>5, <2>2 DEF Page
  <2> HIDE DEF m
  <2>4. w \in Page /\ w.seen = m.seen /\ w.sources = m.sources /\ w.at = clock
    BY <1>1, <2>3 DEF Page
  <2>5. new = w BY DEF w, m, a, q, WithAudit, Merged
  <2> HIDE DEF w, new
  <2> QED BY <2>2, <2>3, <2>4, <2>5 DEF q
<1>7. draft' = [draft EXCEPT ![c] = [page |-> new, old |-> Nothing]] BY <1>2
<1> HIDE DEF new
<1>8. Answers(c, new, p, mishap)
  BY <1>2, <1>3, <1>6, <1>7 DEF Answer, Answers, Goto, Notes, new, pageVars
<1> QED BY <1>8

LEMMA IfType == ASSUME NEW b, NEW m PROVE If(b, m) \subseteq {m} /\ (b => m \in If(b, m))
BY DEF If

(* Back to idle, the draft thrown away.                                    *)
LEMMA IdlesEffect ==
  ASSUME TypeInv, NEW c \in Curators, Idles(c)
  PROVE  /\ stage' \in [Curators -> {"idle", "asked"} \union Writing]
         /\ draft' \in [Curators -> Draft]
         /\ stage'[c] = "idle" /\ draft'[c] = NoDraft
         /\ \A d \in Curators : d # c => stage'[d] = stage[d] /\ draft'[d] = draft[d]
<1>1. NoDraft \in Draft BY PageType
<1> QED BY <1>1 DEF Idles, Goto, TypeInv, TypeOK

LEMMA WritingStages ==
  /\ "idle" \notin Writing /\ "asked" \notin Writing
  /\ "replace" \in Writing /\ "mirror" \in Writing /\ "confirm" \in Writing /\ "index" \in Writing
BY DEF Writing

(* What the row holds after an upsert of c's draft, done or lost.          *)
LEMMA RowTimes ==
  ASSUME TypeInv, NEW c \in Curators, stage[c] \in Writing, NEW r,
         r = row \/ r = draft[c].page
  PROVE  r \in Page /\ r.at <= clock /\ (r.at = -1 => r = NoPage) /\ (r = NoPage \/ r.at >= 0)
<1>1. draft[c].page \in Page /\ row \in Page BY DEF TypeInv, TypeOK, Draft
<1>2. draft[c].page.at \in Int /\ draft[c].page.at >= 0 /\ draft[c].page.at <= clock
  BY <1>1, PageFields DEF TypeInv, TimesOK
<1>3. row.at <= clock /\ (row.at = -1 => row = NoPage) /\ (row = NoPage \/ row.at >= 0)
  BY DEF TypeInv, TypeOK, TimesOK, Copies
<1> QED BY <1>1, <1>2, <1>3

LEMMA IdlesTimes ==
  ASSUME TypeInv, NEW c \in Curators, Idles(c), UNCHANGED <<clock, repo, edits, disk>>,
         row'.at <= clock, row'.at = -1 => row' = NoPage
  PROVE  TimesOK'
<1>1. TimesOK /\ clock \in Nat BY DEF TypeInv, TypeOK
<1>2. /\ stage'[c] = "idle" /\ draft'[c] = NoDraft
      /\ \A d \in Curators : d # c => stage'[d] = stage[d] /\ draft'[d] = draft[d]
  BY IdlesEffect
<1>3. draft'[c].page.at = -1 BY <1>2, PageType
<1>4. ASSUME NEW d \in Curators
      PROVE  /\ draft'[d].page.at <= clock
             /\ stage'[d] # "idle" => draft'[d].page.sources # {}
             /\ stage'[d] \in Writing => draft'[d].page.at >= 0
  BY <1>1, <1>2, <1>3, WritingStages DEF TimesOK
<1> QED BY <1>1, <1>4 DEF TimesOK

LEMMA TypeInit == Init => TypeInv
<1> SUFFICES ASSUME Init PROVE TypeInv OBVIOUS
<1> USE DEF Init
<1>1. 1 \in Versions /\ 0 \in 0..MaxClock /\ 0 \in 0..MaxEdits /\ 0 \in 0..MaxRenders
      /\ 0 \in 0..MaxFaults
  BY WikiAssumption DEF Versions
<1>2. repo \in [Sources -> File] BY <1>1 DEF File
<1>3. TypeOK BY <1>1, <1>2, PageType DEF TypeOK, Copies
<1>4. TimesOK
  <2>1. \A s \in Sources : repo[s].version <= edits + 1 OBVIOUS
  <2> QED BY <2>1, PageType, WritingStages DEF TimesOK
<1> QED BY <1>3, <1>4 DEF TypeInv

LEMMA TypeTouch ==
  ASSUME TypeInv, NEW s \in Sources, NEW file, Touch(s, file),
         file.version \in {repo[s].version, repo[s].version + 1},
         file.version \in Versions => file \in File
  PROVE  TypeInv'
<1> USE DEF Touch, pageVars, curatorVars
<1>1. TypeOK /\ TimesOK BY DEF TypeInv
<1>2. edits \in 0..MaxEdits /\ edits' = edits + 1 /\ edits' \in 0..MaxEdits /\ MaxEdits \in Nat
  BY <1>1, WikiAssumption DEF TypeOK
<1>3. repo[s].version \in Nat /\ repo[s].version <= edits + 1
  BY <1>1 DEF TypeOK, TimesOK, Versions, File
<1>4. file.version \in Versions /\ file.version <= edits' + 1 BY <1>2, <1>3 DEF Versions
<1>5. repo' \in [Sources -> File] BY <1>1, <1>4 DEF TypeOK
<1>6. ASSUME NEW r \in Sources PROVE repo'[r].version <= edits' + 1
  <2>1. CASE r = s BY <1>1, <1>4, <2>1 DEF TypeOK
  <2>2. CASE r # s
    <3>1. repo'[r] = repo[r] BY <1>1, <2>2 DEF TypeOK
    <3>2. repo[r].version \in Nat /\ repo[r].version <= edits + 1
      BY <1>1 DEF TypeOK, TimesOK, Versions, File
    <3> QED BY <1>2, <3>1, <3>2
  <2> QED BY <2>1, <2>2
<1>7. mishaps' \in SUBSET Mishaps BY <1>1, IfType DEF TypeOK, Notes, Mishaps
<1>8. TypeOK' BY <1>1, <1>2, <1>5, <1>7 DEF TypeOK, Copies
<1>9. TimesOK' BY <1>1, <1>6 DEF TimesOK
<1> QED BY <1>8, <1>9 DEF TypeInv

LEMMA TypeNext == TypeInv /\ [Next]_vars => TypeInv'
<1> SUFFICES ASSUME TypeInv, [Next]_vars PROVE TypeInv' OBVIOUS
<1>1. TypeOK /\ TimesOK BY DEF TypeInv
<1>2. MaxClock \in Nat /\ MaxFaults \in Nat /\ clock \in 0..MaxClock /\ faults \in 0..MaxFaults
      /\ renders \in 0..MaxRenders /\ edits \in 0..MaxEdits
  BY <1>1, WikiAssumption DEF TypeOK
<1>3. (faults' = faults \/ (faults' = faults + 1 /\ faults < MaxFaults))
        => faults' \in 0..MaxFaults
  BY <1>2
<1>4. \A d \in Curators : draft[d] \in Draft /\ draft[d].page \in Page
  BY <1>1 DEF TypeOK, Draft
<1> USE DEF pageVars, curatorVars
<1>5. ASSUME NEW c \in Curators, Start(c) PROVE TypeInv'
  <2>1. PICK S, files, shown, old : Starts(c, S, files, shown, old)
    BY <1>1, <1>5, StartEffect
  <2>2. /\ S \in SUBSET Sources /\ S # {} /\ files \in SUBSET Sources /\ old \in Shown
        /\ stage[c] = "idle" /\ Asks(c, S, files, shown, old)
    BY <2>1 DEF Starts, Present
  <2>3. PICK d \in Draft :
          /\ d.page.sources = S /\ d.page.at = -1
          /\ draft' = [draft EXCEPT ![c] = d]
          /\ stage' = [stage EXCEPT ![c] = "asked"]
          /\ renders' \in 0..MaxRenders
          /\ UNCHANGED <<clock, repo, edits, disk, row, entry, persistent>>
    <3>1. Asked(c, S, files, shown) BY <1>1, <2>2, AskEffect
    <3> QED BY <3>1 DEF Asked
  <2>4. mishaps' \in SUBSET Mishaps
    <3>1. /\ If(Others(c, Writing), "overlapped") \subseteq {"overlapped"}
          /\ If(Skips(files, shown), "unreadable") \subseteq {"unreadable"}
      BY IfType
    <3> QED BY <1>1, <2>1, <3>1 DEF TypeOK, Starts, Mishaps
  <2>5. faults' \in 0..MaxFaults BY <1>3, <2>1 DEF Starts
  <2>6. TypeOK' BY <1>1, <2>3, <2>4, <2>5, WritingStages DEF TypeOK, Copies
  <2>7. TimesOK' BY <1>1, <1>2, <2>2, <2>3, WritingStages DEF TimesOK, TypeOK
  <2> QED BY <2>6, <2>7 DEF TypeInv
<1>6. ASSUME NEW c \in Curators, NoAnswer(c) PROVE TypeInv'
  <2> USE <1>6 DEF NoAnswer
  <2>1. TypeOK' BY <1>1, IdlesEffect DEF TypeOK, Copies
  <2>2. TimesOK' BY <1>1, IdlesTimes DEF TimesOK
  <2> QED BY <2>1, <2>2 DEF TypeInv
<1>7. ASSUME NEW c \in Curators, Answer(c) PROVE TypeInv'
  <2>1. PICK new, p, mishap : Answers(c, new, p, mishap) BY <1>1, <1>7, AnswerEffect
  <2> DEFINE d == [page |-> new, old |-> Nothing]
  <2>2. d \in Draft /\ d.page = new BY <2>1, PageType DEF Answers, Draft
  <2>3. new.sources # {} /\ new.at = clock BY <1>1, <2>1 DEF Answers, TimesOK
  <2>5. draft' = [draft EXCEPT ![c] = d] BY <2>1 DEF Answers
  <2> HIDE DEF d
  <2>6. /\ stage' \in [Curators -> {"idle", "asked"} \union Writing]
        /\ stage'[c] \in Writing
        /\ \A e \in Curators : e # c => stage'[e] = stage[e]
    BY <1>1, <2>1, WritingStages DEF Answers, TypeOK
  <2>7. mishaps' \in SUBSET Mishaps
    <3>1. /\ If(Others(c, Writing), "overlapped") \subseteq {"overlapped"}
          /\ If(Others(c, {"asked"}), "overtaken") \subseteq {"overtaken"}
      BY IfType
    <3> QED BY <1>1, <2>1, <3>1 DEF TypeOK, Answers, Mishaps
  <2>8. faults' \in 0..MaxFaults BY <1>3, <2>1 DEF Answers
  <2>9. UNCHANGED <<clock, repo, edits, disk, row, entry, persistent, renders>>
    BY <2>1 DEF Answers
  <2>10. TypeOK' BY <1>1, <2>2, <2>5, <2>6, <2>7, <2>8, <2>9 DEF TypeOK, Copies
  <2>11. TimesOK'
    BY <1>1, <1>2, <2>2, <2>3, <2>5, <2>6, <2>9, WritingStages DEF TimesOK, TypeOK
  <2> QED BY <2>10, <2>11 DEF TypeInv
<1>8. ASSUME NEW c \in Curators, Confirm(c) PROVE TypeInv'
  <2> USE <1>8 DEF Confirm
  <2>1. PICK mishap \in SUBSET {"mirror lost"} : WritesRow(c, mishap) /\ Notes(mishap) OBVIOUS
  <2>2. (row' = row \/ row' = draft[c].page) /\ faults' \in 0..MaxFaults
    BY <1>1, <1>3, <2>1, RowWritten
  <2> HIDE DEF Confirm, Mirror
  <2>3. mishaps' \in SUBSET Mishaps BY <1>1, <2>1 DEF TypeOK, Notes, Mishaps
  <2>4. /\ row' \in Page /\ row'.at <= clock /\ (row'.at = -1 => row' = NoPage)
        /\ (row' = NoPage \/ row'.at >= 0)
    BY <2>2, RowTimes, WritingStages DEF Confirm, Mirror
  <2>5. TypeOK' BY <1>1, <2>2, <2>3, <2>4, IdlesEffect DEF TypeOK, Copies, Confirm
  <2>6. TimesOK' BY <2>4, IdlesTimes DEF Confirm
  <2> QED BY <2>5, <2>6 DEF TypeInv
<1>9. ASSUME NEW c \in Curators, Replace(c) PROVE TypeInv'
  <2> USE <1>9 DEF Replace, Goto
  <2>2. draft[c].page.at <= clock /\ draft[c].page.at >= 0 /\ draft[c].page.at \in Int
    BY <1>1, <1>4, WritingStages, PageFields DEF TimesOK
  <2>3. /\ disk'[c] = draft[c].page /\ \A d \in Curators : d # c => disk'[d] = disk[d]
        /\ stage'[c] = "mirror" /\ \A d \in Curators : d # c => stage'[d] = stage[d]
    BY <1>1 DEF TypeOK
  <2>1. TypeOK' BY <1>1, <1>4, <2>2, <2>3, WritingStages DEF TypeOK, Copies
  <2>4. TimesOK' BY <1>1, <2>2, <2>3, WritingStages DEF TimesOK
  <2> QED BY <2>1, <2>4 DEF TypeInv
<1>10. ASSUME NEW c \in Curators, Mirror(c) PROVE TypeInv'
  <2> USE <1>10 DEF Mirror, Goto
  <2>1. PICK mishap \in SUBSET {"mirror lost"} : WritesRow(c, mishap) /\ Notes(mishap) OBVIOUS
  <2>2. (row' = row \/ row' = draft[c].page) /\ faults' \in 0..MaxFaults
    BY <1>1, <1>3, <2>1, RowWritten
  <2> HIDE DEF Confirm, Mirror
  <2>3. mishaps' \in SUBSET Mishaps BY <1>1, <2>1 DEF TypeOK, Notes, Mishaps
  <2>5. /\ row' \in Page /\ row'.at <= clock /\ (row'.at = -1 => row' = NoPage)
        /\ (row' = NoPage \/ row'.at >= 0)
    BY <2>2, RowTimes, WritingStages DEF Confirm, Mirror
  <2>4. TypeOK' BY <1>1, <2>2, <2>3, <2>5, WritingStages DEF TypeOK, Copies, Mirror
  <2>6. stage'[c] = "index" /\ \A d \in Curators : d # c => stage'[d] = stage[d]
    BY <1>1 DEF TypeOK, Mirror
  <2>7. UNCHANGED <<clock, repo, edits, disk, draft>> BY DEF Mirror
  <2>8. TimesOK' BY <1>1, <1>2, <2>5, <2>6, <2>7, WritingStages DEF TimesOK, Mirror
  <2> QED BY <2>4, <2>8 DEF TypeInv
<1>11. ASSUME NEW c \in Curators, Index(c) PROVE TypeInv'
  <2> USE <1>11 DEF Index
  <2>1. entry' \in Entry BY <1>1, <1>4, PageFields DEF TypeOK
  <2>2. faults' \in 0..MaxFaults BY <1>2, <1>3 DEF Fault
  <2>3. mishaps' \in SUBSET Mishaps BY <1>1 DEF TypeOK, Notes, Mishaps
  <2>4. TypeOK' BY <1>1, <2>1, <2>2, <2>3, IdlesEffect DEF TypeOK, Copies
  <2>5. row' = row /\ UNCHANGED <<clock, repo, edits, disk>> /\ Idles(c) OBVIOUS
  <2>6. TimesOK' BY <1>1, <2>5, IdlesTimes DEF TimesOK
  <2> QED BY <2>4, <2>6 DEF TypeInv
<1>12. ASSUME NEW c \in Curators, Restart(c) PROVE TypeInv'
  <2> USE <1>12 DEF Restart
  <2>1. faults' \in 0..MaxFaults BY <1>2, <1>3 DEF Fault
  <2>2. mishaps' \in SUBSET Mishaps
    <3>1. /\ If(stage[c] = "mirror", "mirror lost") \subseteq {"mirror lost"}
          /\ If(stage[c] = "index", "index lost") \subseteq {"index lost"}
      BY IfType
    <3> QED BY <1>1, <3>1 DEF TypeOK, Notes, Mishaps
  <2>3. persistent' \in SUBSET Curators BY <1>1 DEF TypeOK
  <2>4. TypeOK' BY <1>1, <2>1, <2>2, <2>3, IdlesEffect DEF TypeOK, Copies
  <2>5. row' = row /\ UNCHANGED <<clock, repo, edits, disk>> /\ Idles(c) OBVIOUS
  <2>6. TimesOK' BY <1>1, <2>5, IdlesTimes DEF TimesOK
  <2> QED BY <2>4, <2>6 DEF TypeInv
<1>13. ASSUME NEW s \in Sources, Edit(s) \/ Remove(s) PROVE TypeInv'
  <2>1. repo[s] \in File BY <1>1 DEF TypeOK
  <2>2. CASE Edit(s)
    <3> DEFINE file == [version |-> repo[s].version + 1, there |-> TRUE, mtime |-> clock]
    <3>1. file.version = repo[s].version + 1 /\ (file.version \in Versions => file \in File)
      BY <1>2 DEF File
    <3>2. Touch(s, file) BY <2>2 DEF Edit
    <3> HIDE DEF file
    <3> QED BY <3>1, <3>2, TypeTouch
  <2>3. CASE Remove(s)
    <3> DEFINE file == [repo[s] EXCEPT !.there = FALSE]
    <3>1. file.version = repo[s].version /\ file \in File BY <2>1 DEF File
    <3>2. Touch(s, file) BY <2>3 DEF Remove
    <3> HIDE DEF file
    <3> QED BY <3>1, <3>2, TypeTouch
  <2> QED BY <1>13, <2>2, <2>3
<1>14. CASE Tick
  <2> USE <1>14 DEF Tick
  <2>1. TypeOK' BY <1>1, <1>2 DEF TypeOK, Copies
  <2>2. clock' = clock + 1 /\ \A n \in Int : n <= clock => n <= clock' BY <1>2
  <2>3. row \in Page /\ \A c \in Curators : disk[c] \in Page BY <1>1 DEF TypeOK
  <2>4. row.at \in Int /\ \A c \in Curators : disk[c].at \in Int /\ draft[c].page.at \in Int
    BY <1>4, <2>3, PageFields
  <2>5. TimesOK' BY <1>1, <2>2, <2>4 DEF TimesOK
  <2> QED BY <2>1, <2>5 DEF TypeInv
<1>15. CASE UNCHANGED vars
  <2>1. TypeOK' BY <1>1, <1>15 DEF TypeOK, Copies, vars
  <2>2. TimesOK' BY <1>1, <1>15 DEF TimesOK, vars
  <2> QED BY <2>1, <2>2 DEF TypeInv
<1> QED
  BY <1>5, <1>6, <1>7, <1>8, <1>9, <1>10, <1>11, <1>12, <1>13, <1>14, <1>15
  DEF Next, Curate, Start

(* Pages, times and drafts keep their types, every stored page has a time, *)
(* and a curator that is not idle has a draft with sources.                *)
THEOREM TypeInvariant == Spec => []TypeInv
BY TypeInit, TypeNext, PTL DEF Spec

(* The type invariant the runs check.                                      *)
THEOREM TypeCorrect == Spec => []TypeOK
<1>1. TypeInv => TypeOK BY DEF TypeInv
<1> QED BY <1>1, TypeInvariant, PTL

-----------------------------------------------------------------------------
(* The steps, as far as the invariants tell them apart.                    *)

Moves(c, s, d) ==
  /\ stage'[c] = s /\ draft'[c] = d
  /\ \A e \in Curators : e # c => stage'[e] = stage[e] /\ draft'[e] = draft[e]

Started(c, d) ==
  /\ stage[c] = "idle" /\ Moves(c, "asked", d)
  /\ \A s \in d.page.sources \intersect Present : Current(d.page, s)
  /\ \E mishap \in SUBSET {"misread"}, more \in SUBSET {"overlapped", "unreadable"} :
       /\ mishap = {} =>
            \A s \in Served(c).sources \intersect Present : Current(d.page, s)
       /\ Others(c, Writing) => "overlapped" \in more
       /\ mishaps' = mishaps \union (mishap \union more)
  /\ UNCHANGED <<clock, repo, disk, row, entry, persistent>>

Answered(c, new, p, mishap) ==
  /\ stage[c] = "asked" /\ p \in Page /\ (p = row \/ p = disk[c]) /\ new \in Page
  /\ mishap \subseteq {"misread"} /\ (mishap = {} => p = Served(c))
  /\ new.seen = draft[c].page.seen /\ new.at = clock
  /\ new.sources = p.sources \union draft[c].page.sources
  /\ \E s \in {"confirm", "replace"}, d \in Draft :
       /\ Moves(c, s, d) /\ d.page = new
       /\ s = "confirm" => p # NoPage /\ SameHash(p, new)
  /\ mishaps' = mishaps \union (mishap \union If(Others(c, Writing), "overlapped")
                                       \union If(Others(c, {"asked"}), "overtaken"))
  /\ UNCHANGED <<clock, repo, disk, row, entry, persistent>>

Gaveup(c) ==
  /\ stage[c] = "asked" /\ Moves(c, "idle", NoDraft)
  /\ UNCHANGED <<clock, repo, disk, row, entry, persistent, mishaps>>

Upserted(c, from, to, d) ==
  /\ stage[c] = from /\ Moves(c, to, d)
  /\ row' = row \/ row' = draft[c].page
  /\ \/ mishaps' = mishaps /\ c \in persistent /\ row' = draft[c].page
     \/ mishaps' = mishaps \union {"mirror lost"}
  /\ UNCHANGED <<clock, repo, disk, entry, persistent>>

Replaced(c) ==
  /\ stage[c] = "replace" /\ Moves(c, "mirror", draft[c])
  /\ disk'[c] = draft[c].page /\ \A e \in Curators : e # c => disk'[e] = disk[e]
  /\ UNCHANGED <<clock, repo, row, entry, persistent, mishaps>>

Indexed(c) ==
  /\ stage[c] = "index" /\ Moves(c, "idle", NoDraft)
  /\ \/ mishaps' = mishaps /\ entry' = EntryOf(draft[c].page)
     \/ mishaps' = mishaps \union {"index lost"}
  /\ UNCHANGED <<clock, repo, disk, row, persistent>>

Restarted(c) ==
  /\ stage[c] # "idle" /\ Moves(c, "idle", NoDraft)
  /\ \A e \in Curators : e # c => (e \in persistent' <=> e \in persistent)
  /\ mishaps' = mishaps \union (If(stage[c] = "mirror", "mirror lost")
                                  \union If(stage[c] = "index", "index lost"))
  /\ UNCHANGED <<clock, repo, disk, row, entry>>

(* Only the repository changes, or the time passes.                        *)
Elsewhere ==
  /\ UNCHANGED <<disk, row, entry, persistent, stage, draft>>
  /\ \/ clock' = clock + 1 /\ UNCHANGED <<repo, mishaps>>
     \/ UNCHANGED <<clock, repo, mishaps>>
     \/ /\ clock' = clock
        /\ \E s \in Sources :
             /\ \A r \in Sources : r # s => repo'[r] = repo[r]
             /\ ~repo'[s].there \/ repo'[s].mtime = clock
        /\ mishaps' = mishaps \union
             If(\/ \E c \in Curators : stage[c] # "idle"
                \/ \E p \in Copies : p # NoPage /\ clock <= p.at + Slack, "raced")

Step ==
  \/ \E c \in Curators : \E d \in Draft : Started(c, d)
  \/ \E c \in Curators : \E new, p, mishap : Answered(c, new, p, mishap)
  \/ \E c \in Curators : Gaveup(c)
  \/ \E c \in Curators : Upserted(c, "confirm", "idle", NoDraft)
  \/ \E c \in Curators : Replaced(c)
  \/ \E c \in Curators : Upserted(c, "mirror", "index", draft[c])
  \/ \E c \in Curators : Indexed(c)
  \/ \E c \in Curators : Restarted(c)
  \/ Elsewhere

LEMMA IdlesMoves ==
  ASSUME TypeInv, NEW c \in Curators, Idles(c) PROVE Moves(c, "idle", NoDraft)
BY IdlesEffect DEF Moves

LEMMA Steps == TypeInv /\ [Next]_vars => Step
<1> SUFFICES ASSUME TypeInv, [Next]_vars PROVE Step OBVIOUS
<1>1. TypeOK BY DEF TypeInv
<1>2. /\ stage \in [Curators -> {"idle", "asked"} \union Writing]
      /\ draft \in [Curators -> Draft] /\ disk \in [Curators -> Page]
  BY <1>1 DEF TypeOK
<1> USE DEF pageVars, curatorVars
<1>3. ASSUME NEW c \in Curators, Start(c)
      PROVE  \E d \in Draft : Started(c, d)
  <2>1. PICK S, files, shown, old : Starts(c, S, files, shown, old)
    BY <1>1, <1>3, StartEffect
  <2>2. /\ S \in SUBSET Sources /\ S # {} /\ files \in SUBSET Sources /\ old \in Shown
        /\ stage[c] = "idle" /\ Asks(c, S, files, shown, old)
    BY <2>1 DEF Starts, Present
  <2>3. PICK d \in Draft :
          /\ d.page.seen = View(files, shown) /\ d.page.sources = S
          /\ draft' = [draft EXCEPT ![c] = d]
          /\ stage' = [stage EXCEPT ![c] = "asked"]
          /\ UNCHANGED <<clock, repo, edits, disk, row, entry, persistent>>
    <3>1. Asked(c, S, files, shown) BY <1>1, <2>2, AskEffect
    <3> QED BY <3>1 DEF Asked
  <2>4. \A s \in files : Current(d.page, s) BY <1>1, <2>2, <2>3, ViewType DEF Current
  <2>5. Moves(c, "asked", d) BY <1>2, <2>3 DEF Moves
  <2>6. S \intersect Present \subseteq files BY <2>1 DEF Starts
  <2>7. PICK mishap \in SUBSET {"misread"} :
          /\ mishap = {} => Served(c).sources \intersect Present \subseteq files
          /\ mishaps' = mishaps \union (mishap \union If(Others(c, Writing), "overlapped")
                                               \union If(Skips(files, shown), "unreadable"))
    BY <2>1 DEF Starts
  <2> DEFINE more == If(Others(c, Writing), "overlapped")
                       \union If(Skips(files, shown), "unreadable")
  <2>8. more \in SUBSET {"overlapped", "unreadable"} /\ (Others(c, Writing) => "overlapped" \in more)
    BY IfType
  <2>9. mishaps' = mishaps \union (mishap \union more) BY <2>7
  <2> HIDE DEF more
  <2>10. Started(c, d) BY <2>2, <2>3, <2>4, <2>5, <2>6, <2>7, <2>8, <2>9 DEF Started
  <2> QED BY <2>10
<1>4. ASSUME NEW c \in Curators, Answer(c)
      PROVE  \E new, p, mishap : Answered(c, new, p, mishap)
  <2>1. PICK new, p, mishap : Answers(c, new, p, mishap) BY <1>1, <1>4, AnswerEffect
  <2> DEFINE d == [page |-> new, old |-> Nothing]
             s == IF p # NoPage /\ SameHash(p, new) THEN "confirm" ELSE "replace"
  <2>2. d \in Draft /\ d.page = new
    <3>1. Nothing \in Shown BY WikiAssumption DEF Nothing, Shown, Versions
    <3> QED BY <2>1, <3>1 DEF Answers, Draft
  <2>3. draft' = [draft EXCEPT ![c] = d] /\ stage' = [stage EXCEPT ![c] = s] BY <2>1 DEF Answers
  <2>4. s \in {"confirm", "replace"} /\ (s = "confirm" => p # NoPage /\ SameHash(p, new))
    OBVIOUS
  <2> HIDE DEF d, s
  <2>5. Moves(c, s, d) BY <1>2, <2>3 DEF Moves
  <2>6. Answered(c, new, p, mishap) BY <2>1, <2>2, <2>4, <2>5 DEF Answered, Answers
  <2> QED BY <2>6
<1>5. ASSUME NEW c \in Curators, NoAnswer(c) PROVE Gaveup(c)
  BY <1>5, IdlesMoves DEF NoAnswer, Gaveup
<1>6. ASSUME NEW c \in Curators, NEW mishap \in SUBSET {"mirror lost"},
             WritesRow(c, mishap), Notes(mishap)
      PROVE  /\ row' = row \/ row' = draft[c].page
             /\ \/ mishaps' = mishaps /\ c \in persistent /\ row' = draft[c].page
                \/ mishaps' = mishaps \union {"mirror lost"}
  <2>1. mishap = {} \/ mishap = {"mirror lost"} OBVIOUS
  <2> QED BY <1>1, <1>6, <2>1, RowWritten DEF Notes
<1>7. ASSUME NEW c \in Curators, Confirm(c) PROVE Upserted(c, "confirm", "idle", NoDraft)
  <2>1. PICK mishap \in SUBSET {"mirror lost"} : WritesRow(c, mishap) /\ Notes(mishap)
    BY <1>7 DEF Confirm
  <2>2. Moves(c, "idle", NoDraft) BY <1>7, IdlesMoves DEF Confirm
  <2> QED BY <1>6, <1>7, <2>1, <2>2 DEF Confirm, Upserted
<1>8. ASSUME NEW c \in Curators, Replace(c) PROVE Replaced(c)
  BY <1>2, <1>8 DEF Replace, Goto, Replaced, Moves
<1>9. ASSUME NEW c \in Curators, Mirror(c) PROVE Upserted(c, "mirror", "index", draft[c])
  <2>1. PICK mishap \in SUBSET {"mirror lost"} : WritesRow(c, mishap) /\ Notes(mishap)
    BY <1>9 DEF Mirror
  <2>2. Moves(c, "index", draft[c]) BY <1>2, <1>9 DEF Mirror, Goto, Moves
  <2> QED BY <1>6, <1>9, <2>1, <2>2 DEF Mirror, Upserted
<1>10. ASSUME NEW c \in Curators, Index(c) PROVE Indexed(c)
  BY <1>10, IdlesMoves DEF Index, Indexed, Notes
<1>11. ASSUME NEW c \in Curators, Restart(c) PROVE Restarted(c)
  BY <1>11, IdlesMoves DEF Restart, Restarted, Notes
<1>12. ASSUME NEW s \in Sources, Edit(s) PROVE Elsewhere
  <2>1. Touch(s, [version |-> repo[s].version + 1, there |-> TRUE, mtime |-> clock])
    BY <1>12 DEF Edit
  <2>2. repo'[s].mtime = clock /\ \A r \in Sources : r # s => repo'[r] = repo[r]
    BY <1>1, <2>1 DEF Touch, TypeOK
  <2> QED BY <2>1, <2>2 DEF Touch, Notes, Elsewhere
<1>13. ASSUME NEW s \in Sources, Remove(s) PROVE Elsewhere
  <2>1. Touch(s, [repo[s] EXCEPT !.there = FALSE]) BY <1>13 DEF Remove
  <2>2. ~repo'[s].there /\ \A r \in Sources : r # s => repo'[r] = repo[r]
    <3>1. repo'[s] = [repo[s] EXCEPT !.there = FALSE]
          /\ \A r \in Sources : r # s => repo'[r] = repo[r]
      BY <1>1, <2>1 DEF Touch, TypeOK
    <3>2. repo[s] \in File BY <1>1 DEF TypeOK
    <3> QED BY <3>1, <3>2 DEF File
  <2> QED BY <2>1, <2>2 DEF Touch, Notes, Elsewhere
<1>14. CASE Tick BY <1>14 DEF Tick, Elsewhere, Step
<1>15. CASE UNCHANGED vars BY <1>15 DEF vars, Elsewhere, Step
<1> QED
  BY <1>3, <1>4, <1>5, <1>7, <1>8, <1>9, <1>10, <1>11, <1>12, <1>13, <1>14, <1>15
  DEF Next, Curate, Start, Step

(* Mishaps are never taken back.                                           *)
LEMMA MishapsGrow == ASSUME Step, NEW M, Clean(M)' PROVE Clean(M)
<1>1. mishaps \subseteq mishaps'
  BY DEF Step, Started, Answered, Gaveup, Upserted, Replaced, Indexed, Restarted, Elsewhere
<1> QED BY <1>1 DEF Clean

LEMMA AloneNext == TypeInv /\ AloneOK /\ Step => AloneOK'
<1> SUFFICES ASSUME TypeInv, AloneOK, Step PROVE AloneOK' OBVIOUS
<1>1. \A d \in Curators : stage[d] \in {"idle", "asked"} \union Writing
  BY DEF TypeInv, TypeOK
<1>2. Clean({"overlapped"})' => Clean({"overlapped"}) BY MishapsGrow
<1>3. Clean({"overlapped", "overtaken"})' => Clean({"overlapped", "overtaken"})
  BY MishapsGrow
<1>4. ASSUME NEW c \in Curators, NEW d \in Draft, Started(c, d)
      PROVE  AloneOK'
  <2>1. Others(c, Writing) => "overlapped" \in mishaps' BY <1>4 DEF Started
  <2>2. stage'[c] = "asked" /\ \A e \in Curators : e # c => stage'[e] = stage[e]
    BY <1>4 DEF Started, Moves
  <2>3. Clean({"overlapped"})' \/ Clean({"overlapped", "overtaken"})'
          => \A e \in Curators : stage'[e] \notin Writing
    BY <2>1, <2>2, WritingStages DEF Clean, Others
  <2> QED BY <2>3 DEF AloneOK
<1>5. ASSUME NEW c \in Curators, NEW new, NEW p, NEW mishap, Answered(c, new, p, mishap)
      PROVE  AloneOK'
  <2>1. /\ Others(c, Writing) => "overlapped" \in mishaps'
        /\ Others(c, {"asked"}) => "overtaken" \in mishaps'
    BY <1>5, IfType DEF Answered
  <2>2. \A e \in Curators : e # c => stage'[e] = stage[e]
    BY <1>5 DEF Answered, Moves
  <2>3. Clean({"overlapped"})' => \A e \in Curators : e # c => stage'[e] \notin Writing
    BY <2>1, <2>2 DEF Clean, Others
  <2>4. Clean({"overlapped", "overtaken"})' => \A e \in Curators : e # c => stage'[e] = "idle"
    BY <1>1, <2>1, <2>2 DEF Clean, Others
  <2> QED BY <2>3, <2>4, WritingStages DEF AloneOK
<1>6. ASSUME NEW c \in Curators, stage'[c] = "idle",
             \A e \in Curators : e # c => stage'[e] = stage[e]
      PROVE  AloneOK'
  BY <1>2, <1>3, <1>6, WritingStages DEF AloneOK
<1>7. ASSUME NEW c \in Curators, stage[c] \in Writing, stage'[c] \in Writing,
             \A e \in Curators : e # c => stage'[e] = stage[e]
      PROVE  AloneOK'
  BY <1>2, <1>3, <1>7, WritingStages DEF AloneOK
<1>8. CASE Elsewhere BY <1>2, <1>3, <1>8 DEF AloneOK, Elsewhere
<1> QED
  BY <1>4, <1>5, <1>6, <1>7, <1>8, WritingStages
  DEF Step, Gaveup, Upserted, Replaced, Indexed, Restarted, Moves

-----------------------------------------------------------------------------
(* The newest page.                                                        *)

LEMMA AtTypes ==
  ASSUME TypeInv
  PROVE  /\ clock \in Int /\ row.at \in Int /\ row.at <= clock
         /\ \A c \in Curators :
              /\ disk[c].at \in Int /\ disk[c].at <= clock
              /\ draft[c].page.at \in Int /\ draft[c].page.at <= clock
<1>1. row \in Page /\ \A c \in Curators : disk[c] \in Page /\ draft[c].page \in Page
  BY DEF TypeInv, TypeOK, Draft
<1>2. row.at \in Int /\ \A c \in Curators : disk[c].at \in Int /\ draft[c].page.at \in Int
  BY <1>1, PageFields
<1> QED BY <1>2 DEF TypeInv, TypeOK, TimesOK

(* A file without a time is not there.                                     *)
LEMMA Undated ==
  ASSUME TypeInv, NEW c \in Curators, disk[c].at <= row.at, row.at = -1
  PROVE  disk[c] = NoPage
<1>1. disk[c] \in Page BY DEF TypeInv, TypeOK
<1>2. disk[c].at \in -1..MaxClock BY <1>1, PageFields
<1>3. \A n \in -1..MaxClock : n <= -1 => n = -1 BY WikiAssumption
<1>4. disk[c].at = -1 BY <1>2, <1>3
<1> QED BY <1>4 DEF TypeInv, TimesOK

(* Nobody else writes when a curator writes, by the mishaps so far.        *)
LEMMA OnlyWriter ==
  ASSUME AloneOK, NEW c \in Curators, stage[c] \in Writing
  PROVE  /\ Clean({"overlapped"}) => \A e \in Curators : e # c => stage[e] \notin Writing
         /\ Clean({"overlapped", "overtaken"}) => \A e \in Curators : e # c => stage[e] = "idle"
BY DEF AloneOK

LEMMA NewestNext == TypeInv /\ AloneOK /\ NewestOK /\ Step => NewestOK'
<1> SUFFICES ASSUME TypeInv, AloneOK, NewestOK, Step PROVE NewestOK' OBVIOUS
<1> DEFINE Ahead(c) == /\ row.at <= draft[c].page.at
                       /\ \A d \in Curators : disk[d].at <= draft[c].page.at
           Behind == \A c \in Curators : stage[c] # "mirror" => disk[c].at <= row.at
           Held == \A c \in Curators : stage[c] = "mirror" => disk[c] = draft[c].page
<1>1. /\ Clean({"overlapped"})' => Clean({"overlapped"})
      /\ Clean({"mirror lost", "overlapped"})' =>
           /\ Clean({"mirror lost", "overlapped"}) /\ Clean({"overlapped"})
           /\ "mirror lost" \notin mishaps'
  BY MishapsGrow DEF Clean
<1>2. /\ Clean({"overlapped"}) => \A c \in Curators : stage[c] \in Writing => Ahead(c)
      /\ Held
      /\ Clean({"mirror lost", "overlapped"}) => Behind
  BY DEF NewestOK, NewestIsServed
<1>3. ASSUME /\ Clean({"overlapped"})' =>
                    \A c \in Curators : stage'[c] \in Writing => Ahead(c)'
             /\ Held'
             /\ Clean({"mirror lost", "overlapped"})' => Behind'
      PROVE  NewestOK'
  BY <1>3 DEF NewestOK, NewestIsServed
<1>4. /\ clock \in Int /\ row.at \in Int /\ row.at <= clock
      /\ \A c \in Curators :
           /\ disk[c].at \in Int /\ disk[c].at <= clock
           /\ draft[c].page.at \in Int /\ draft[c].page.at <= clock
  BY AtTypes
(* A curator whose pages stay as they are, and that does not begin or end  *)
(* the mirroring.                                                          *)
<1>5. ASSUME NEW c \in Curators, UNCHANGED <<disk, row>>,
             stage'[c] # "mirror", stage[c] # "mirror" \/ "mirror lost" \in mishaps',
             stage'[c] \notin Writing \/ (\E d \in Draft : draft'[c] = d /\ d.page.at = clock),
             \A e \in Curators : e # c => stage'[e] = stage[e] /\ draft'[e] = draft[e]
      PROVE  /\ Clean({"overlapped"})' =>
                    \A e \in Curators : stage'[e] \in Writing => Ahead(e)'
             /\ Held'
             /\ Clean({"mirror lost", "overlapped"})' => Behind'
  <2>1. Held' BY <1>2, <1>5
  <2>2. Clean({"mirror lost", "overlapped"})' => Behind' BY <1>1, <1>2, <1>5
  <2>3. ASSUME Clean({"overlapped"})', NEW e \in Curators, stage'[e] \in Writing
        PROVE  Ahead(e)'
    <3>1. CASE e = c
      <4>1. draft'[c].page.at = clock BY <1>5, <2>3, <3>1
      <4> QED BY <1>4, <1>5, <3>1, <4>1
    <3>2. CASE e # c BY <1>1, <1>2, <1>5, <2>3, <3>2
    <3> QED BY <3>1, <3>2
  <2> QED BY <2>1, <2>2, <2>3
<1>6. ASSUME NEW c \in Curators, \E d \in Draft : Started(c, d)
      PROVE  NewestOK'
  <2>1. UNCHANGED <<disk, row>> /\ stage'[c] = "asked" /\ stage[c] = "idle"
        /\ \A e \in Curators : e # c => stage'[e] = stage[e] /\ draft'[e] = draft[e]
    BY <1>6 DEF Started, Moves
  <2> QED BY <1>3, <1>5, <2>1, WritingStages
<1>7. ASSUME NEW c \in Curators, NEW new, NEW p, NEW mishap, Answered(c, new, p, mishap)
      PROVE  NewestOK'
  <2>1. UNCHANGED <<disk, row>> /\ stage'[c] \in {"confirm", "replace"} /\ stage[c] = "asked"
        /\ (\E d \in Draft : draft'[c] = d /\ d.page.at = clock)
        /\ \A e \in Curators : e # c => stage'[e] = stage[e] /\ draft'[e] = draft[e]
    BY <1>7 DEF Answered, Moves
  <2> QED BY <1>3, <1>5, <2>1
<1>8. ASSUME NEW c \in Curators, Gaveup(c) \/ Indexed(c) \/ Restarted(c) PROVE NewestOK'
  <2>1. UNCHANGED <<disk, row>> /\ stage'[c] = "idle"
        /\ \A e \in Curators : e # c => stage'[e] = stage[e] /\ draft'[e] = draft[e]
    BY <1>8 DEF Gaveup, Indexed, Restarted, Moves
  <2>2. stage[c] # "mirror" \/ "mirror lost" \in mishaps'
    BY <1>8, IfType DEF Gaveup, Indexed, Restarted
  <2> QED BY <1>3, <1>5, <2>1, <2>2, WritingStages
<1>9. ASSUME NEW c \in Curators, NEW d, Upserted(c, "confirm", "idle", d) PROVE NewestOK'
  <2> USE <1>9 DEF Upserted, Moves
  <2>1. Clean({"overlapped"})' => \A e \in Curators : stage'[e] \notin Writing
    BY <1>1, OnlyWriter, WritingStages
  <2>2. Held' BY <1>2
  <2>3. Clean({"mirror lost", "overlapped"})' => Behind'
    BY <1>1, <1>2, WritingStages DEF Clean
  <2> QED BY <1>3, <2>1, <2>2, <2>3
<1>10. ASSUME NEW c \in Curators, Replaced(c) PROVE NewestOK'
  <2> USE <1>10 DEF Replaced, Moves
  <2>1. ASSUME Clean({"overlapped"})', NEW e \in Curators, stage'[e] \in Writing
        PROVE  Ahead(e)'
    <3>1. e = c BY <1>1, <2>1, OnlyWriter, WritingStages
    <3>2. Ahead(c) BY <1>1, <1>2, <2>1, WritingStages
    <3> QED BY <1>4, <3>1, <3>2
  <2>2. Held' BY <1>2
  <2>3. Clean({"mirror lost", "overlapped"})' => Behind' BY <1>1, <1>2
  <2> QED BY <1>3, <2>1, <2>2, <2>3
<1>11. ASSUME NEW c \in Curators, Upserted(c, "mirror", "index", draft[c]) PROVE NewestOK'
  <2> USE <1>11 DEF Upserted, Moves
  <2>1. ASSUME Clean({"overlapped"})', NEW e \in Curators, stage'[e] \in Writing
        PROVE  Ahead(e)'
    <3>1. e = c BY <1>1, <2>1, OnlyWriter, WritingStages
    <3>2. Ahead(c) BY <1>1, <1>2, <2>1, WritingStages
    <3>3. draft'[c] = draft[c] /\ disk' = disk /\ (row' = row \/ row' = draft[c].page)
      OBVIOUS
    <3> HIDE DEF Upserted, Moves
    <3>4. row'.at <= draft[c].page.at BY <1>4, <3>2, <3>3
    <3> QED BY <3>1, <3>2, <3>3, <3>4
  <2>2. Held' BY <1>2
  <2>3. Clean({"mirror lost", "overlapped"})' => Behind'
    BY <1>1, <1>2, WritingStages DEF Clean
  <2> QED BY <1>3, <2>1, <2>2, <2>3
<1>12. CASE Elsewhere
  <2>1. UNCHANGED <<disk, row, stage, draft>> BY <1>12 DEF Elsewhere
  <2> QED BY <1>1, <1>2, <1>3, <2>1
<1> QED BY <1>6, <1>7, <1>8, <1>9, <1>10, <1>11, <1>12 DEF Step

-----------------------------------------------------------------------------
(* The sources of a page.                                                  *)

LEMMA SourcesNext ==
  TypeInv /\ AloneOK /\ NewestOK /\ SourcesOK /\ Step => SourcesOK'
<1> SUFFICES ASSUME TypeInv, AloneOK, NewestOK, SourcesOK, Step,
                    Clean({"misread", "overlapped", "mirror lost"})'
             PROVE  SourcesOK'
  BY DEF SourcesOK
<1> DEFINE Kept(c) == stage[c] # "mirror" => disk[c].sources \subseteq row.sources
           Covers(c) == stage[c] \in {"replace", "mirror", "confirm"} =>
             /\ disk[c].sources \subseteq draft[c].page.sources
             /\ c \in persistent => row.sources \subseteq draft[c].page.sources
<1>1. /\ Clean({"misread", "overlapped", "mirror lost"}) /\ Clean({"overlapped"})
      /\ "misread" \notin mishaps' /\ "mirror lost" \notin mishaps'
  BY MishapsGrow DEF Clean
<1>2. \A c \in Curators : Kept(c) /\ Covers(c) BY <1>1 DEF SourcesOK
<1>3. ASSUME \A c \in Curators : Kept(c)' /\ Covers(c)' PROVE SourcesOK'
  BY <1>3 DEF SourcesOK
<1>4. ASSUME NEW c \in Curators, \E d \in Draft : Started(c, d)
      PROVE  SourcesOK'
  <2>1. /\ UNCHANGED <<disk, row, persistent>> /\ stage[c] = "idle" /\ stage'[c] = "asked"
        /\ \A e \in Curators : e # c => stage'[e] = stage[e] /\ draft'[e] = draft[e]
    BY <1>4 DEF Started, Moves
  <2> QED BY <1>2, <1>3, <2>1
<1>5. ASSUME NEW c \in Curators, NEW new, NEW p, NEW mishap, Answered(c, new, p, mishap)
      PROVE  SourcesOK'
  <2>1. /\ UNCHANGED <<disk, row, persistent>> /\ stage[c] = "asked" /\ stage'[c] # "mirror"
        /\ draft'[c].page = new
        /\ \A e \in Curators : e # c => stage'[e] = stage[e] /\ draft'[e] = draft[e]
    BY <1>5 DEF Answered, Moves
  <2>2. p = Served(c) /\ p.sources \subseteq new.sources BY <1>1, <1>5 DEF Answered
  <2>3. c \in persistent /\ row = NoPage => row.sources = {} BY PageType
  <2>4. Covers(c)' BY <1>2, <2>1, <2>2, <2>3 DEF Served
  <2> QED BY <1>2, <1>3, <2>1, <2>4
<1>6. ASSUME NEW c \in Curators, Gaveup(c) \/ Indexed(c) \/ Restarted(c) PROVE SourcesOK'
  <2>1. /\ UNCHANGED <<disk, row>> /\ stage'[c] = "idle"
        /\ \A e \in Curators : e # c => /\ stage'[e] = stage[e] /\ draft'[e] = draft[e]
                                        /\ e \in persistent' => e \in persistent
    BY <1>6 DEF Gaveup, Indexed, Restarted, Moves
  <2>2. stage[c] # "mirror" BY <1>1, <1>6, IfType DEF Gaveup, Indexed, Restarted
  <2> QED BY <1>2, <1>3, <2>1, <2>2
<1>7. ASSUME NEW c \in Curators, NEW d, Upserted(c, "confirm", "idle", d) PROVE SourcesOK'
  <2>1. /\ disk' = disk /\ c \in persistent /\ row' = draft[c].page
        /\ stage[c] = "confirm" /\ stage'[c] = "idle"
        /\ \A e \in Curators : e # c => stage'[e] = stage[e]
    BY <1>1, <1>7 DEF Upserted, Moves
  <2>2. \A e \in Curators : stage'[e] \notin Writing BY <1>1, <2>1, OnlyWriter, WritingStages
  <2>3. row.sources \subseteq row'.sources BY <1>2, <2>1
  <2>4. \A e \in Curators : stage[e] # "mirror" BY <1>1, <2>1, OnlyWriter, WritingStages
  <2> QED BY <1>2, <1>3, <2>1, <2>2, <2>3, <2>4, WritingStages
<1>8. ASSUME NEW c \in Curators, Replaced(c) PROVE SourcesOK'
  <2>1. /\ disk'[c] = draft[c].page /\ draft'[c] = draft[c] /\ UNCHANGED <<row, persistent>>
        /\ stage[c] = "replace" /\ stage'[c] = "mirror"
        /\ \A e \in Curators : e # c => stage'[e] = stage[e] /\ draft'[e] = draft[e]
                                        /\ disk'[e] = disk[e]
    BY <1>8 DEF Replaced, Moves
  <2> QED BY <1>2, <1>3, <2>1
<1>9. ASSUME NEW c \in Curators, Upserted(c, "mirror", "index", draft[c]) PROVE SourcesOK'
  <2>1. /\ disk' = disk /\ c \in persistent /\ row' = draft[c].page
        /\ stage[c] = "mirror" /\ stage'[c] = "index"
        /\ \A e \in Curators : e # c => stage'[e] = stage[e]
    BY <1>1, <1>9 DEF Upserted, Moves
  <2>2. \A e \in Curators : e # c => stage[e] \notin Writing
    BY <1>1, <2>1, OnlyWriter, WritingStages
  <2>3. row.sources \subseteq row'.sources BY <1>2, <2>1
  <2>4. disk[c] = draft[c].page BY <2>1 DEF NewestOK
  <2> QED BY <1>2, <1>3, <2>1, <2>2, <2>3, <2>4, WritingStages
<1>10. CASE Elsewhere
  <2>1. UNCHANGED <<disk, row, persistent, stage, draft>> BY <1>10 DEF Elsewhere
  <2> QED BY <1>2, <1>3, <2>1
<1> QED BY <1>4, <1>5, <1>6, <1>7, <1>8, <1>9, <1>10 DEF Step

-----------------------------------------------------------------------------
(* The index.                                                              *)

LEMMA IndexNext ==
  TypeInv /\ AloneOK /\ NewestOK /\ IndexOK /\ Step => IndexOK'
<1> SUFFICES ASSUME TypeInv, AloneOK, NewestOK, IndexOK, Step,
                    Clean({"mirror lost", "index lost", "overlapped", "misread"})'
             PROVE  IndexOK'
  BY DEF IndexOK
<1> DEFINE Follows == (\A c \in Curators : stage[c] # "index") => entry = EntryOf(row)
           Same(c) ==
             /\ stage[c] = "index" => EntryOf(row) = EntryOf(draft[c].page)
             /\ stage[c] = "confirm" /\ c \in persistent => EntryOf(row) = EntryOf(draft[c].page)
<1>1. /\ Clean({"mirror lost", "index lost", "overlapped", "misread"}) /\ Clean({"overlapped"})
      /\ Clean({"mirror lost", "overlapped"})
      /\ "misread" \notin mishaps' /\ "mirror lost" \notin mishaps' /\ "index lost" \notin mishaps'
  BY MishapsGrow DEF Clean
<1>2. Follows /\ \A c \in Curators : Same(c) BY <1>1 DEF IndexOK
<1>3. ASSUME Follows', \A c \in Curators : Same(c)' PROVE IndexOK'
  BY <1>3 DEF IndexOK
<1>4. ASSUME NEW c \in Curators, \E d \in Draft : Started(c, d)
      PROVE  IndexOK'
  <2>1. /\ UNCHANGED <<row, entry, persistent>> /\ stage[c] = "idle" /\ stage'[c] = "asked"
        /\ \A e \in Curators : e # c => stage'[e] = stage[e] /\ draft'[e] = draft[e]
    BY <1>4 DEF Started, Moves
  <2> QED BY <1>2, <1>3, <2>1
<1>5. ASSUME NEW c \in Curators, NEW new, NEW p, NEW mishap, Answered(c, new, p, mishap)
      PROVE  IndexOK'
  <2>1. /\ UNCHANGED <<row, entry, persistent>> /\ stage[c] = "asked"
        /\ stage'[c] \in {"confirm", "replace"} /\ draft'[c].page = new
        /\ \A e \in Curators : e # c => stage'[e] = stage[e] /\ draft'[e] = draft[e]
        /\ stage'[c] = "confirm" => p # NoPage /\ EntryOf(p) = EntryOf(new)
    BY <1>5 DEF Answered, Moves, SameHash, EntryOf
  <2>2. p = Served(c) BY <1>1, <1>5 DEF Answered
  <2>3. ASSUME p # NoPage, c \in persistent PROVE p = row
    <3>1. CASE row # NoPage BY <2>2, <2>3, <3>1 DEF Served
    <3>2. CASE row = NoPage
      <4>1. p = disk[c] /\ row.at = -1 BY <2>2, <3>2, PageType DEF Served
      <4>2. disk[c].at <= row.at BY <1>1, <2>1 DEF NewestOK, NewestIsServed
      <4> QED BY <2>3, <4>1, <4>2, Undated
    <3> QED BY <3>1, <3>2
  <2>4. Same(c)' BY <2>1, <2>3
  <2>5. \A e \in Curators : Same(e)' BY <1>2, <2>1, <2>4
  <2>6. Follows' BY <1>2, <2>1
  <2> QED BY <1>3, <2>5, <2>6
<1>6. ASSUME NEW c \in Curators, Gaveup(c) \/ Restarted(c) PROVE IndexOK'
  <2>1. /\ UNCHANGED <<row, entry>> /\ stage'[c] = "idle"
        /\ \A e \in Curators : e # c => /\ stage'[e] = stage[e] /\ draft'[e] = draft[e]
                                        /\ e \in persistent' => e \in persistent
    BY <1>6 DEF Gaveup, Restarted, Moves
  <2>2. stage[c] # "index" BY <1>1, <1>6, IfType DEF Gaveup, Restarted
  <2> QED BY <1>2, <1>3, <2>1, <2>2
<1>7. ASSUME NEW c \in Curators, Indexed(c) PROVE IndexOK'
  <2>1. /\ row' = row /\ persistent' = persistent /\ entry' = EntryOf(draft[c].page)
        /\ stage[c] = "index" /\ stage'[c] = "idle"
        /\ \A e \in Curators : e # c => stage'[e] = stage[e] /\ draft'[e] = draft[e]
    BY <1>1, <1>7 DEF Indexed, Moves
  <2> QED BY <1>2, <1>3, <2>1
<1>8. ASSUME NEW c \in Curators, NEW d, Upserted(c, "confirm", "idle", d) PROVE IndexOK'
  <2>1. /\ entry' = entry /\ c \in persistent /\ row' = draft[c].page
        /\ stage[c] = "confirm" /\ stage'[c] = "idle"
        /\ \A e \in Curators : e # c => stage'[e] = stage[e]
    BY <1>1, <1>8 DEF Upserted, Moves
  <2>2. \A e \in Curators : stage'[e] \notin Writing /\ stage[e] # "index"
    BY <1>1, <2>1, OnlyWriter, WritingStages
  <2> QED BY <1>2, <1>3, <2>1, <2>2, WritingStages
<1>9. ASSUME NEW c \in Curators, Replaced(c) PROVE IndexOK'
  <2>1. /\ UNCHANGED <<row, entry, persistent>> /\ stage[c] = "replace" /\ stage'[c] = "mirror"
        /\ \A e \in Curators : e # c => stage'[e] = stage[e] /\ draft'[e] = draft[e]
    BY <1>9 DEF Replaced, Moves
  <2> QED BY <1>2, <1>3, <2>1
<1>10. ASSUME NEW c \in Curators, Upserted(c, "mirror", "index", draft[c]) PROVE IndexOK'
  <2>1. /\ row' = draft[c].page /\ draft'[c] = draft[c] /\ stage[c] = "mirror"
        /\ stage'[c] = "index" /\ \A e \in Curators : e # c => stage'[e] = stage[e]
    BY <1>1, <1>10 DEF Upserted, Moves
  <2>2. \A e \in Curators : e # c => stage'[e] \notin Writing
    BY <1>1, <2>1, OnlyWriter, WritingStages
  <2> QED BY <1>3, <2>1, <2>2, WritingStages
<1>11. CASE Elsewhere
  <2>1. UNCHANGED <<row, entry, persistent, stage, draft>> BY <1>11 DEF Elsewhere
  <2> QED BY <1>2, <1>3, <2>1
<1> QED BY <1>4, <1>5, <1>6, <1>7, <1>8, <1>9, <1>10, <1>11 DEF Step

-----------------------------------------------------------------------------
(* What lint can see.                                                      *)

(* An honest page stays so when a file changes that nobody is reading and  *)
(* that is newer than every page.                                          *)
LEMMA HonestElsewhere ==
  ASSUME TypeInv, Elsewhere, "raced" \notin mishaps', NEW p, p \in Copies, p \in Page, Honest(p)
  PROVE  Honest(p)'
<1>1. CASE repo' = repo BY <1>1 DEF Honest, Current, Present, Newer
<1>2. CASE repo' # repo
  <2>1. PICK s \in Sources : /\ \A r \in Sources : r # s => repo'[r] = repo[r]
                             /\ ~repo'[s].there \/ repo'[s].mtime = clock
    BY <1>2 DEF Elsewhere
  <2>2. p = NoPage \/ ~(clock <= p.at + Slack)
    <3>1. mishaps' = mishaps \union
             If(\/ \E c \in Curators : stage[c] # "idle"
                \/ \E q \in Copies : q # NoPage /\ clock <= q.at + Slack, "raced")
      BY <1>2 DEF Elsewhere
    <3> QED BY <3>1, IfType
  <2>3. p.sources \subseteq Sources BY PageFields
  <2>4. ASSUME NEW r \in p.sources
        PROVE  \/ p.seen[r] \in {repo'[r].version, Withheld}
               \/ ~repo'[r].there
               \/ repo'[r].mtime > p.at + Slack
    <3>1. CASE r # s BY <2>1, <2>3, <3>1 DEF Honest, Current, Present, Newer
    <3>2. CASE r = s
      <4>1. p # NoPage BY PageType
      <4>2. p.at \in Int /\ clock \in Int /\ Slack \in Int
        BY PageFields, AtTypes, WikiAssumption
      <4>3. clock > p.at + Slack BY <2>2, <4>1, <4>2
      <4> QED BY <2>1, <3>2, <4>3
    <3> QED BY <3>1, <3>2
  <2> QED BY <2>3, <2>4 DEF Honest, Current, Present, Newer
<1> QED BY <1>1, <1>2

LEMMA HonestNext == TypeInv /\ AloneOK /\ HonestOK /\ Step => HonestOK'
<1> SUFFICES ASSUME TypeInv, AloneOK, HonestOK, Step,
                    Clean({"raced", "overtaken", "overlapped", "misread"})'
             PROVE  HonestOK'
  BY DEF HonestOK
<1> DEFINE Shows(c) == \A s \in draft[c].page.sources \intersect Present :
                         draft[c].page.seen[s] \in {repo[s].version, Withheld}
           Wide(c) == \A s \in Served(c).sources \intersect Present :
                        draft[c].page.seen[s] \in {repo[s].version, Withheld}
           Plain(c) == /\ Honest(disk[c])
                       /\ stage[c] = "asked" => Shows(c) /\ Wide(c)
                       /\ stage[c] \in Writing => Shows(c)
<1>1. /\ Clean({"raced", "overtaken", "overlapped", "misread"})
      /\ Clean({"overlapped", "overtaken"}) /\ Clean({"overlapped", "overtaken"})'
      /\ {"raced", "misread", "overlapped", "overtaken"} \intersect mishaps' = {}
  BY MishapsGrow DEF Clean
<1>2. Honest(row) /\ \A c \in Curators : Plain(c) BY <1>1 DEF HonestOK, Current
<1>3. ASSUME Honest(row)', \A c \in Curators : Plain(c)' PROVE HonestOK'
  BY <1>3 DEF HonestOK, Current
<1>4. ASSUME repo' = repo
      PROVE  /\ Present' = Present
             /\ Honest(row)' <=> \A s \in row'.sources :
                  row'.seen[s] \in {repo[s].version, Withheld} \/ s \notin Present
                    \/ repo[s].mtime > row'.at + Slack
             /\ \A c \in Curators : Honest(disk[c])' <=> \A s \in disk'[c].sources :
                  disk'[c].seen[s] \in {repo[s].version, Withheld} \/ s \notin Present
                    \/ repo[s].mtime > disk'[c].at + Slack
  BY <1>4 DEF Present, Honest, Current, Newer
<1>5. ASSUME repo' = repo, row' = row PROVE Honest(row)'
  BY <1>2, <1>4, <1>5 DEF Honest, Current, Newer
<1>6. ASSUME repo' = repo, NEW c \in Curators, disk'[c] = disk[c] PROVE Honest(disk[c])'
  BY <1>2, <1>4, <1>6 DEF Honest, Current, Newer
<1>7. ASSUME NEW c \in Curators, stage[c] \in Writing
      PROVE  \A s \in draft[c].page.sources :
               draft[c].page.seen[s] \in {repo[s].version, Withheld} \/ s \notin Present
  BY <1>2, <1>7
(* A curator that is not concerned by the step.                            *)
<1>8. ASSUME NEW e \in Curators, UNCHANGED <<repo, row>>, disk'[e] = disk[e],
             stage'[e] = stage[e], draft'[e] = draft[e],
             e \in persistent' <=> e \in persistent
      PROVE  Plain(e)'
  <2>1. Served(e)' = Served(e) BY <1>8 DEF Served
  <2> QED BY <1>2, <1>4, <1>6, <1>8, <2>1
<1>9. ASSUME NEW c \in Curators, NEW d \in Draft, Started(c, d)
      PROVE  HonestOK'
  <2>1. /\ UNCHANGED <<repo, disk, row, persistent>> /\ stage'[c] = "asked" /\ draft'[c] = d
        /\ \A e \in Curators : e # c => stage'[e] = stage[e] /\ draft'[e] = draft[e]
    BY <1>9 DEF Started, Moves
  <2>2. \A s \in d.page.sources \intersect Present : d.page.seen[s] \in {repo[s].version, Withheld}
    BY <1>9 DEF Started, Current
  <2>3. \A s \in Served(c).sources \intersect Present :
          d.page.seen[s] \in {repo[s].version, Withheld}
    BY <1>1, <1>9 DEF Started, Current
  <2>4. Served(c)' = Served(c) BY <2>1 DEF Served
  <2>5. Plain(c)' BY <1>4, <1>6, <2>1, <2>2, <2>3, <2>4, WritingStages
  <2> QED BY <1>3, <1>5, <1>8, <2>1, <2>5
<1>10. ASSUME NEW c \in Curators, NEW new, NEW p, NEW mishap, Answered(c, new, p, mishap)
      PROVE  HonestOK'
  <2>1. /\ UNCHANGED <<repo, disk, row, persistent>> /\ stage[c] = "asked"
        /\ stage'[c] \in {"confirm", "replace"} /\ draft'[c].page = new
        /\ \A e \in Curators : e # c => stage'[e] = stage[e] /\ draft'[e] = draft[e]
    BY <1>10 DEF Answered, Moves
  <2>2. p = Served(c) /\ new.seen = draft[c].page.seen
        /\ new.sources = p.sources \union draft[c].page.sources
    BY <1>1, <1>10 DEF Answered
  <2>3. Shows(c) /\ Wide(c) BY <1>2, <2>1
  <2>4. Shows(c)' BY <1>2, <1>4, <2>1, <2>2, <2>3
  <2>5. Plain(c)' BY <1>6, <2>1, <2>4
  <2> QED BY <1>3, <1>5, <1>8, <2>1, <2>5
<1>11. ASSUME NEW c \in Curators, Gaveup(c) \/ Indexed(c) \/ Restarted(c) PROVE HonestOK'
  <2>1. /\ UNCHANGED <<repo, disk, row>> /\ stage'[c] = "idle"
        /\ \A e \in Curators : e # c => /\ stage'[e] = stage[e] /\ draft'[e] = draft[e]
                                        /\ e \in persistent' <=> e \in persistent
    BY <1>11 DEF Gaveup, Indexed, Restarted, Moves
  <2>2. Plain(c)' BY <1>6, <2>1, WritingStages
  <2> QED BY <1>3, <1>5, <1>8, <2>1, <2>2
<1>12. ASSUME NEW c \in Curators, NEW from, NEW to, NEW d, from \in Writing, to # "asked",
              to \in Writing => d = draft[c], Upserted(c, from, to, d)
      PROVE  HonestOK'
  <2>1. /\ UNCHANGED <<repo, disk, persistent>> /\ stage[c] \in Writing
        /\ stage'[c] = to /\ draft'[c] = d /\ (row' = row \/ row' = draft[c].page)
        /\ \A e \in Curators : e # c => stage'[e] = stage[e]
    BY <1>12 DEF Upserted, Moves
  <2>2. Honest(row)' BY <1>4, <1>5, <1>7, <2>1
  <2>3. ASSUME NEW e \in Curators PROVE Plain(e)'
    <3>1. Honest(disk[e])' BY <1>6, <2>1
    <3>2. CASE e = c BY <1>2, <1>4, <1>12, <2>1, <3>1, <3>2
    <3>3. CASE e # c
      <4>1. stage'[e] = "idle" BY <1>1, <2>1, <3>3, OnlyWriter
      <4> QED BY <3>1, <4>1, WritingStages
    <3> QED BY <3>2, <3>3
  <2> QED BY <1>3, <2>2, <2>3
<1>13. ASSUME NEW c \in Curators, Replaced(c) PROVE HonestOK'
  <2>1. /\ disk'[c] = draft[c].page /\ draft'[c] = draft[c] /\ UNCHANGED <<repo, row, persistent>>
        /\ stage[c] = "replace" /\ stage'[c] = "mirror"
        /\ \A e \in Curators : e # c => stage'[e] = stage[e] /\ draft'[e] = draft[e]
                                        /\ disk'[e] = disk[e]
    BY <1>13 DEF Replaced, Moves
  <2>2. Honest(disk[c])' BY <1>4, <1>7, <2>1, WritingStages
  <2>3. Plain(c)' BY <1>2, <1>4, <2>1, <2>2, WritingStages
  <2> QED BY <1>3, <1>5, <1>8, <2>1, <2>3
<1>14. CASE Elsewhere
  <2>1. UNCHANGED <<disk, row, persistent, stage, draft>> BY <1>14 DEF Elsewhere
  <2>2. /\ row \in Page /\ row \in Copies
        /\ \A c \in Curators : disk[c] \in Page /\ disk[c] \in Copies
    BY DEF TypeInv, TypeOK, Copies
  <2>3. \A p : p \in Copies /\ p \in Page /\ Honest(p) => Honest(p)'
    BY <1>1, <1>14, HonestElsewhere
  <2>4. Honest(row)' BY <1>2, <2>1, <2>2, <2>3 DEF Honest, Current, Newer
  <2>5. \A c \in Curators : Honest(disk[c])'
    BY <1>2, <2>1, <2>2, <2>3 DEF Honest, Current, Newer
  <2>6. CASE repo' = repo BY <1>3, <1>8, <2>1, <2>4, <2>6
  <2>7. CASE repo' # repo
    <3>1. \A c \in Curators : stage[c] = "idle" BY <1>1, <1>14, <2>7, IfType DEF Elsewhere
    <3> QED BY <1>3, <2>1, <2>4, <2>5, <3>1, WritingStages
  <2> QED BY <2>6, <2>7
<1> QED
  BY <1>9, <1>10, <1>11, <1>12, <1>13, <1>14, WritingStages DEF Step

-----------------------------------------------------------------------------
(* The wiki's promises.                                                    *)

PagesInv == AloneOK /\ NewestOK /\ SourcesOK /\ IndexOK /\ HonestOK

LEMMA PagesInit == Init => PagesInv
<1> SUFFICES ASSUME Init PROVE PagesInv OBVIOUS
<1> USE DEF Init
<1>1. /\ \A c \in Curators : disk[c] = NoPage /\ stage[c] = "idle"
      /\ row = NoPage /\ entry = EntryOf(row)
  BY PageType
<1>2. AloneOK BY <1>1, WritingStages DEF AloneOK
<1>3. NewestOK
  <2>1. NoPage.at <= NoPage.at BY PageType
  <2> QED BY <1>1, <2>1, WritingStages DEF NewestOK, NewestIsServed
<1>4. SourcesOK BY <1>1, WritingStages DEF SourcesOK
<1>5. IndexOK BY <1>1, WritingStages DEF IndexOK
<1>6. Honest(NoPage) BY PageType DEF Honest
<1>7. HonestOK BY <1>1, <1>6, WritingStages DEF HonestOK
<1> QED BY <1>2, <1>3, <1>4, <1>5, <1>7 DEF PagesInv

LEMMA PagesNext == TypeInv /\ PagesInv /\ [Next]_vars => PagesInv'
BY Steps, AloneNext, NewestNext, SourcesNext, IndexNext, HonestNext DEF PagesInv

(* The pages, the row and the index fit together, up to named mishaps.     *)
THEOREM PagesInvariant == Spec => []PagesInv
BY TypeInvariant, PagesInit, PagesNext, PTL DEF Spec

(* The row is never older than a file, unless an upsert was lost or two    *)
(* writes overlapped (storage.py: write swallows a failed upsert, read     *)
(* prefers Postgres).                                                      *)
THEOREM NewestServed == Spec => []NewestIsServed
<1>1. PagesInv => NewestIsServed BY DEF PagesInv, NewestOK
<1> QED BY <1>1, PagesInvariant, PTL

(* When nobody writes, a search finds the page that is served (index.py).  *)
THEOREM IndexFollows == Spec => []IndexFollowsPage
<1>1. PagesInv => IndexFollowsPage
  BY WritingStages DEF PagesInv, IndexOK, IndexFollowsPage
<1> QED BY <1>1, PagesInvariant, PTL

(* A page that says other than its sources do is reported by lint, up to   *)
(* the sources that were withheld from the model by the cap on files, the  *)
(* cut of a long one or a failed read, which lint knows nothing of         *)
(* (curator.py, the last_updated test of lint and _needs_refresh).  It     *)
(* holds of every cap and for every set of long files.                     *)
THEOREM StaleReported == Spec => []StaleIsReported
<1>1. PagesInv => StaleIsReported
  <2> SUFFICES ASSUME PagesInv, Clean({"raced", "overtaken", "overlapped", "misread"}),
                      NEW p \in Copies, NEW s \in Sources,
                      s \in p.sources, p.seen[s] \notin {repo[s].version, Withheld}
               PROVE  Reported(p)
    BY DEF StaleIsReported
  <2>1. Honest(p) BY DEF PagesInv, HonestOK, Copies
  <2> QED BY <2>1 DEF Honest, Current, Reported
<1> QED BY <1>1, PagesInvariant, PTL

(* No write drops a source that a page has recorded, whoever wrote it      *)
(* (storage.py:7).                                                         *)
THEOREM SourcesStay == Spec => SourcesKept
<1> DEFINE A == mishaps' \intersect {"misread", "overlapped", "mirror lost"} = {} =>
                  /\ row.sources \subseteq row'.sources
                  /\ \A c \in Curators : disk[c].sources \subseteq disk'[c].sources
<1>1. TypeInv /\ PagesInv /\ [Next]_vars => [A]_vars
  <2> SUFFICES ASSUME TypeInv, PagesInv, Step,
                      mishaps' \intersect {"misread", "overlapped", "mirror lost"} = {}
               PROVE  /\ row.sources \subseteq row'.sources
                      /\ \A c \in Curators : disk[c].sources \subseteq disk'[c].sources
    BY Steps
  <2>1. Clean({"misread", "overlapped", "mirror lost"}) BY MishapsGrow DEF Clean
  <2>2. \A c \in Curators : stage[c] \in {"replace", "mirror", "confirm"} =>
           /\ disk[c].sources \subseteq draft[c].page.sources
           /\ c \in persistent => row.sources \subseteq draft[c].page.sources
    BY <2>1 DEF PagesInv, SourcesOK
  <2>3. ASSUME NEW c \in Curators, NEW from \in {"mirror", "confirm"}, NEW to, NEW d,
               Upserted(c, from, to, d)
        PROVE  row.sources \subseteq row'.sources /\ disk' = disk
    BY <2>2, <2>3 DEF Upserted
  <2>4. ASSUME NEW c \in Curators, Replaced(c)
        PROVE  row' = row /\ \A e \in Curators : disk[e].sources \subseteq disk'[e].sources
    BY <2>2, <2>4 DEF Replaced
  <2> QED
    BY <2>3, <2>4 DEF Step, Started, Answered, Gaveup, Indexed, Restarted, Elsewhere
<1>2. Spec => [][A]_vars BY <1>1, TypeInvariant, PagesInvariant, PTL DEF Spec
<1> QED BY <1>2 DEF SourcesKept
=============================================================================
