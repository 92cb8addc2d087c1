---------------------------- MODULE RegistryProofs ----------------------------
(***************************************************************************)
(* Proofs about Registry: when a file may be missing from the registry or  *)
(* be there as it no longer is, and when a handoff in the middle of a      *)
(* chain may be refused.                                                   *)
(***************************************************************************)
EXTENDS Registry, TLAPS

-----------------------------------------------------------------------------
(* Types.                                                                  *)

Handoff == [at : {"handoff"}, from : Names \cup {User}, to : Names, step : {0, 1}]
Work == [at : {"work"}, spec : Specs]
Refusal == [from : Names \cup {User, Nobody}, to : Names \cup {Nobody}, step : {0, 1}]

TypeInv == TypeOK /\ hop \in {Idle} \cup Handoff \cup Work /\ refused \in Refusal

(* A process that is not there holds nothing, and only a watcher that      *)
(* watches has changes to handle.                                          *)
QuietOK ==
  /\ watcher = "off" =>
       byName = [n \in Names |-> NoEntry] /\ errors = {} /\ toLoad = {}
  /\ watcher # "watching" => seen = {} /\ batch = {}

(* Two files with one name are both in doubt.                              *)
NamesakesOK == \A f \in Files : Namesakes(f, dir[f]) # {} => "namesake" \in doubts[f]

(* The removal of a file that is back is in doubt, unless its return is    *)
(* still to be delivered.                                                  *)
RemovedOK ==
  \A f \in Files : dir[f] # Missing =>
    /\ <<"deleted", f>> \in seen => "unordered" \in doubts[f]
    /\ <<"deleted", f>> \in batch =>
         "unordered" \in doubts[f] \/ \E change \in seen : change[2] = f

AgreesOK ==
  /\ watcher = "loading" =>
       \A f \in Files : f \notin toLoad /\ doubts[f] = {} => Agrees(f)
  /\ RegistryAgrees

RegistryInv == QuietOK /\ NamesakesOK /\ RemovedOK /\ AgreesOK

(* The delegates of an agent at work, and the target of a handoff it made, *)
(* would take it, unless the registry has changed.                         *)
WelcomeOK ==
  /\ hop # Idle => refused = NotRefused
  /\ hop.at = "work" =>
       moved \/ \A d \in hop.spec.delegates : Accepts(d, hop.spec.name)
  /\ hop.at = "handoff" /\ hop.step > 0 => moved \/ Accepts(hop.to, hop.from)
  /\ RefusedOnlyIfMoved

-----------------------------------------------------------------------------
(* What the registry's operations do.                                      *)

LEMMA SpecTypes ==
  ASSUME NEW s \in Specs
  PROVE  /\ s.name \in Names /\ s.accepts \subseteq Names \cup {User}
         /\ s.delegates \subseteq Names /\ s # NoSpec /\ s \notin Marks
BY RegistryAssumption DEF AgentSpec, Marks

LEMMA EntryTypes ==
  /\ NoEntry \in Entry /\ NoEntry.file \notin Files
  /\ \A e \in Entry : e # NoEntry => e.spec \in Specs /\ e.file \in Files
  /\ \A s \in Specs, f \in Files :
       /\ [spec |-> s, file |-> f] \in Entry /\ [spec |-> s, file |-> f] # NoEntry
<1>1. -1 \notin Files BY RegistryAssumption
<1>2. \A s \in Specs, f \in Files : [spec |-> s, file |-> f] # NoEntry
  BY RegistryAssumption DEF NoEntry
<1> QED BY <1>1, <1>2 DEF NoEntry, Entry

LEMMA UpsertEffect ==
  ASSUME TypeOK, NEW f \in Files, NEW s \in Specs, Upsert(f, s)
  PROVE  /\ byName' \in [Names -> Entry] /\ errors' \subseteq Files
         /\ \A n \in Names : Known(n)' => byName'[n].spec.name = n
         /\ byName'[s.name] = [spec |-> s, file |-> f]
         /\ \A n \in Names \ {s.name} : byName'[n] = byName[n]
         /\ From(f)' = From(f) \cup {s.name}
         /\ \A g \in Files \ {f} : From(g)' = From(g) \ {s.name}
         /\ errors' = errors \ {f}
<1>1. s.name \in Names /\ byName \in [Names -> Entry] BY SpecTypes DEF TypeOK
<1>2. [spec |-> s, file |-> f] \in Entry BY EntryTypes
<1>3. byName' \in [Names -> Entry] BY <1>1, <1>2 DEF Upsert
<1>4. /\ byName'[s.name] = [spec |-> s, file |-> f]
      /\ \A n \in Names \ {s.name} : byName'[n] = byName[n]
  BY <1>1 DEF Upsert
<1>5. byName'[s.name].file = f /\ byName'[s.name].spec = s BY <1>4
<1>6. \A n \in Names : Known(n)' => byName'[n].spec.name = n
  BY <1>4, <1>5 DEF Known, TypeOK
<1>7. From(f)' = From(f) \cup {s.name} BY <1>1, <1>4, <1>5 DEF From
<1>8. \A g \in Files \ {f} : From(g)' = From(g) \ {s.name} BY <1>4, <1>5 DEF From
<1>9. errors' = errors \ {f} /\ errors' \subseteq Files BY DEF Upsert, TypeOK
<1> QED BY <1>3, <1>4, <1>6, <1>7, <1>8, <1>9

LEMMA RemoveEffect ==
  ASSUME TypeOK, NEW f \in Files, RemoveByPath(f)
  PROVE  /\ byName' \in [Names -> Entry] /\ errors' \subseteq Files
         /\ \A n \in Names : Known(n)' => byName'[n].spec.name = n
         /\ From(f)' = {} /\ errors' = errors \ {f}
         /\ \A g \in Files \ {f} : From(g)' = From(g)
         /\ \A n \in Names : byName[n].file # f => byName'[n] = byName[n]
<1>1. byName \in [Names -> Entry] BY DEF TypeOK
<1>2. \A n \in Names : byName'[n] = IF byName[n].file = f THEN NoEntry ELSE byName[n]
  BY DEF RemoveByPath
<1>3. byName' \in [Names -> Entry] BY <1>1, EntryTypes DEF RemoveByPath
<1>4. From(f)' = {} BY <1>2, EntryTypes DEF From
<1>5. \A g \in Files \ {f} : From(g)' = From(g) BY <1>2, EntryTypes DEF From
<1>6. \A n \in Names : Known(n)' => byName'[n].spec.name = n BY <1>2 DEF Known, TypeOK
<1>7. errors' = errors \ {f} /\ errors' \subseteq Files BY DEF RemoveByPath, TypeOK
<1> QED BY <1>2, <1>3, <1>4, <1>5, <1>6, <1>7

(* A file that was read without a new doubt is registered as it is, and    *)
(* nobody loses a name to it but a namesake.                               *)
LEMMA LoadEffect ==
  ASSUME TypeOK, NamesakesOK, NEW f \in Files, NEW u \in BOOLEAN, LoadOne(f), Reread(f, u),
         dir' = dir
  PROVE  /\ byName' \in [Names -> Entry] /\ errors' \subseteq Files /\ moved' \in BOOLEAN
         /\ \A n \in Names : Known(n)' => byName'[n].spec.name = n
         /\ doubts' \in [Files -> SUBSET {"missed", "unordered", "namesake", "renamed"}]
         /\ NamesakesOK'
         /\ doubts'[f] = {} => Agrees(f)'
         /\ u /\ "unordered" \in doubts[f] => "unordered" \in doubts'[f]
         /\ \A g \in Files \ {f} :
              doubts'[g] = doubts[g] /\ (doubts[g] = {} /\ Agrees(g) => Agrees(g)')
         /\ byName' # byName => moved'
<1> DEFINE keep == {k \in doubts[f] :
                      \/ k = "renamed"
                      \/ k \in {"missed", "unordered"} /\ u
                      \/ k = "namesake" /\ Namesakes(f, dir[f]) # {}}
           new == IF IsSpec(dir[f]) /\ From(f) \ {dir[f].name} # {} THEN {"renamed"} ELSE {}
<1>1. doubts \in [Files -> SUBSET {"missed", "unordered", "namesake", "renamed"}]
  BY DEF TypeOK
<1>2. /\ doubts'[f] = keep \cup new
      /\ \A g \in Files \ {f} : doubts'[g] = doubts[g]
      /\ doubts' = [doubts EXCEPT ![f] = keep \cup new]
  BY <1>1 DEF Reread
<1>3. keep \subseteq doubts[f] /\ new \subseteq {"renamed"} OBVIOUS
<1>4. doubts' \in [Files -> SUBSET {"missed", "unordered", "namesake", "renamed"}]
  BY <1>1, <1>2, <1>3
<1>5. /\ "namesake" \in doubts[f] /\ Namesakes(f, dir[f]) # {} => "namesake" \in doubts'[f]
      /\ u /\ "unordered" \in doubts[f] => "unordered" \in doubts'[f]
      /\ doubts'[f] = {} => new = {}
  BY <1>2
<1>6. NamesakesOK'
  <2>1. \A g, h \in Files : Namesakes(g, dir[h])' = Namesakes(g, dir[h]) BY DEF Namesakes
  <2> QED BY <1>2, <1>5, <2>1 DEF NamesakesOK
<1>7. moved' \in BOOLEAN /\ (byName' # byName => moved') BY DEF LoadOne, TypeOK
<1>8. CASE IsSpec(dir[f]) /\ Upsert(f, dir[f])
  <2> DEFINE s == dir[f]
  <2>1. s \in Specs BY <1>8 DEF IsSpec
  <2> HIDE DEF s
  <2>2. Upsert(f, s) BY <1>8 DEF s
  <2>3. /\ byName' \in [Names -> Entry] /\ errors' \subseteq Files
        /\ \A n \in Names : Known(n)' => byName'[n].spec.name = n
        /\ byName'[s.name] = [spec |-> s, file |-> f]
        /\ \A n \in Names \ {s.name} : byName'[n] = byName[n]
        /\ From(f)' = From(f) \cup {s.name}
        /\ \A g \in Files \ {f} : From(g)' = From(g) \ {s.name}
        /\ errors' = errors \ {f}
    BY <2>1, <2>2, UpsertEffect
  <2>4. dir[f] = s /\ s # Missing /\ s # Broken /\ s.name \in Names
    BY <2>1, SpecTypes DEF s, Marks
  <2>5. doubts'[f] = {} => Agrees(f)'
    <3>1. doubts'[f] = {} => From(f) \subseteq {s.name} BY <1>5, <1>8, <2>4
    <3>2. IsSpec(s) BY <2>1 DEF IsSpec
    <3> HIDE DEF new, keep
    <3> QED BY <2>3, <2>4, <3>1, <3>2 DEF Agrees, IsSpec
  <2>6. ASSUME NEW g \in Files \ {f}, doubts[g] = {}, Agrees(g) PROVE Agrees(g)'
    <3>1. IsSpec(dir[g]) => dir[g].name # s.name
      <4>1. Namesakes(g, dir[g]) = {} BY <2>6 DEF NamesakesOK
      <4> QED BY <1>8, <2>4, <4>1 DEF Namesakes
    <3>2. From(g)' = From(g) \ {s.name} /\ (g \in errors' <=> g \in errors) BY <2>3
    <3>3. CASE dir[g] = Missing BY <2>6, <3>2, <3>3 DEF Agrees
    <3>4. CASE dir[g] # Missing /\ dir[g] = Broken BY <2>6, <3>2, <3>4 DEF Agrees
    <3>5. CASE dir[g] # Missing /\ dir[g] # Broken
      <4>1. /\ IsSpec(dir[g]) /\ byName[dir[g].name] = [spec |-> dir[g], file |-> g]
            /\ From(g) = {dir[g].name} /\ g \notin errors
        BY <2>6, <3>5 DEF Agrees
      <4>2. dir[g].name \in Names \ {s.name} BY <3>1, <4>1, SpecTypes DEF IsSpec
      <4>3. byName'[dir[g].name] = byName[dir[g].name] BY <2>3, <4>2
      <4> QED BY <3>2, <3>5, <4>1, <4>2, <4>3 DEF Agrees, IsSpec
    <3> QED BY <3>3, <3>4, <3>5
  <2> HIDE DEF keep, new
  <2> QED BY <1>2, <1>4, <1>5, <1>6, <1>7, <2>3, <2>5, <2>6
<1>9. CASE dir[f] = Broken /\ errors' = errors \cup {f} /\ byName' = byName
  <2>1. dir[f] # Missing BY DEF LoadOne, Raises
  <2>2. doubts'[f] = {} => Agrees(f)' BY <1>9, <2>1 DEF Agrees
  <2>3. \A g \in Files \ {f} : Agrees(g) => Agrees(g)' BY <1>9 DEF Agrees, From, IsSpec
  <2>4. errors' \subseteq Files BY <1>9 DEF TypeOK
  <2>5. byName' \in [Names -> Entry] /\ \A n \in Names : Known(n)' => byName'[n].spec.name = n
    BY <1>9 DEF TypeOK, Known
  <2> HIDE DEF keep, new
  <2> QED BY <1>2, <1>4, <1>5, <1>6, <1>7, <2>2, <2>3, <2>4, <2>5
<1> QED BY <1>8, <1>9 DEF LoadOne

(* A removal that was handled last leaves no trace, or a doubt.            *)
LEMMA ForgetEffect ==
  ASSUME TypeOK, NamesakesOK, NEW f \in Files, NEW u \in BOOLEAN, RemoveByPath(f),
         Forgotten(f, u), dir' = dir,
         ~u /\ dir[f] # Missing => "unordered" \in doubts[f]
  PROVE  /\ byName' \in [Names -> Entry] /\ errors' \subseteq Files
         /\ \A n \in Names : Known(n)' => byName'[n].spec.name = n
         /\ doubts' \in [Files -> SUBSET {"missed", "unordered", "namesake", "renamed"}]
         /\ NamesakesOK'
         /\ ~u /\ doubts'[f] = {} => Agrees(f)'
         /\ dir[f] # Missing /\ "unordered" \in doubts[f] => "unordered" \in doubts'[f]
         /\ \A g \in Files \ {f} :
              doubts'[g] = doubts[g] /\ (doubts[g] = {} /\ Agrees(g) => Agrees(g)')
<1> DEFINE left == IF u THEN doubts[f] ELSE IF dir[f] = Missing THEN {}
                   ELSE doubts[f] \cap {"unordered", "namesake"}
<1>1. doubts \in [Files -> SUBSET {"missed", "unordered", "namesake", "renamed"}]
  BY DEF TypeOK
<1>2. /\ doubts'[f] = left /\ left \subseteq doubts[f]
      /\ \A g \in Files \ {f} : doubts'[g] = doubts[g]
      /\ doubts' = [doubts EXCEPT ![f] = left]
  BY <1>1 DEF Forgotten
<1>3. doubts' \in [Files -> SUBSET {"missed", "unordered", "namesake", "renamed"}]
  BY <1>1, <1>2
<1>4. /\ byName' \in [Names -> Entry] /\ errors' \subseteq Files
      /\ \A n \in Names : Known(n)' => byName'[n].spec.name = n
      /\ From(f)' = {} /\ errors' = errors \ {f}
      /\ \A g \in Files \ {f} : From(g)' = From(g)
      /\ \A n \in Names : byName[n].file # f => byName'[n] = byName[n]
  BY RemoveEffect
<1>5. NamesakesOK'
  <2>1. \A g, h \in Files : Namesakes(g, dir[h])' = Namesakes(g, dir[h]) BY DEF Namesakes
  <2>2. ~IsSpec(Missing) BY RegistryAssumption DEF IsSpec
  <2>3. dir[f] = Missing => Namesakes(f, dir[f]) = {} BY <2>2 DEF Namesakes
  <2>4. dir[f] # Missing /\ "namesake" \in doubts[f] => "namesake" \in doubts'[f] BY <1>2
  <2> HIDE DEF left
  <2> QED BY <1>2, <2>1, <2>3, <2>4 DEF NamesakesOK
<1>6. ~u /\ doubts'[f] = {} => Agrees(f)'
  <2>1. ~u /\ doubts'[f] = {} => dir[f] = Missing BY <1>2
  <2> HIDE DEF left
  <2> QED BY <1>4, <2>1 DEF Agrees
<1>7. dir[f] # Missing /\ "unordered" \in doubts[f] => "unordered" \in doubts'[f] BY <1>2
<1>8. ASSUME NEW g \in Files \ {f}, Agrees(g) PROVE Agrees(g)'
  <2>1. From(g)' = From(g) /\ (g \in errors' <=> g \in errors) BY <1>4
  <2>2. CASE dir[g] = Missing BY <1>8, <2>1, <2>2 DEF Agrees
  <2>3. CASE dir[g] # Missing /\ dir[g] = Broken BY <1>8, <2>1, <2>3 DEF Agrees
  <2>4. CASE dir[g] # Missing /\ dir[g] # Broken
    <3>1. /\ IsSpec(dir[g]) /\ byName[dir[g].name] = [spec |-> dir[g], file |-> g]
          /\ From(g) = {dir[g].name} /\ g \notin errors
      BY <1>8, <2>4 DEF Agrees
    <3>2. dir[g].name \in Names /\ byName[dir[g].name].file = g
      BY <3>1, SpecTypes DEF IsSpec
    <3>3. byName'[dir[g].name] = byName[dir[g].name] BY <1>4, <3>2
    <3> QED BY <2>1, <2>4, <3>1, <3>3 DEF Agrees, IsSpec
  <2> QED BY <2>2, <2>3, <2>4
<1> HIDE DEF left
<1> QED BY <1>2, <1>3, <1>4, <1>5, <1>6, <1>7, <1>8

-----------------------------------------------------------------------------
(* Type correctness.                                                       *)

LEMMA HopTypes ==
  /\ Idle.at = "idle" /\ NotRefused \in Refusal /\ NotRefused.step = 0
  /\ \A h \in Handoff : /\ h.at = "handoff" /\ h # Idle /\ h.to \in Names
                        /\ h.from \in Names \cup {User} /\ h.step \in {0, 1}
  /\ \A h \in Work : h.at = "work" /\ h # Idle /\ h.spec \in Specs
<1>1. Idle.at = "idle" BY DEF Idle
<1>2. NotRefused \in Refusal /\ NotRefused.step = 0 BY DEF NotRefused, Refusal
<1>3. \A h \in Handoff : h.at = "handoff" /\ h.to \in Names
                         /\ h.from \in Names \cup {User} /\ h.step \in {0, 1}
  BY DEF Handoff
<1>4. \A h \in Work : h.at = "work" /\ h.spec \in Specs BY DEF Work
<1> QED BY <1>1, <1>2, <1>3, <1>4

(* An agent that accepts is registered, with a spec.                       *)
LEMMA AcceptsKnown ==
  ASSUME TypeOK, NEW n \in Names, NEW from, Accepts(n, from)
  PROVE  byName[n].spec \in Specs /\ byName[n].spec.name = n
BY EntryTypes DEF Accepts, Known, TypeOK

LEMMA TypeInit == Init => TypeInv
<1> SUFFICES ASSUME Init PROVE TypeInv OBVIOUS
<1> USE DEF Init
<1>1. 0 \in 0..MaxEdits /\ 0 \in 0..MaxStarts /\ 0 \in 0..MaxChains BY RegistryAssumption
<1>2. dir \in [Files -> Specs \cup Marks] BY DEF Marks
<1>3. byName \in [Names -> Entry] /\ \A n \in Names : ~Known(n) BY EntryTypes DEF Known
<1>4. TypeOK BY <1>1, <1>2, <1>3 DEF TypeOK
<1> QED BY <1>4, HopTypes DEF TypeInv

LEMMA ChangeType == ASSUME NEW f, NEW c PROVE Change(f, c) \in {"added", "modified", "deleted"}
BY DEF Change

LEMMA BatchTypes ==
  ASSUME TypeOK, NEW change \in batch \cup seen
  PROVE  change \in Changes /\ change[2] \in Files /\ change = <<change[1], change[2]>>
BY DEF TypeOK, Changes

(* Which step of the watcher is taken, on which file.                      *)
LEMMA HandleSteps ==
  ASSUME TypeOK, HandleChange
  PROVE  \E f \in Files, u \in BOOLEAN, kind \in {"added", "modified", "deleted"} :
           /\ watcher = "watching" /\ <<kind, f>> \in batch
           /\ batch' = batch \ {<<kind, f>>}
           /\ u <=> \E d \in batch' \cup seen : d[2] = f
           /\ \/ kind = "deleted" /\ RemoveByPath(f) /\ Forgotten(f, u)
                 /\ moved' = (moved \/ byName' # byName)
              \/ kind # "deleted" /\ LoadOne(f) /\ Reread(f, u)
           /\ UNCHANGED <<dirVars, watcher, toLoad, seen, hop, refused, chains, starts>>
<1>1. PICK change \in batch :
        LET f == change[2]
            others == \E d \in batch' \cup seen : d[2] = f
        IN
        /\ watcher = "watching" /\ batch' = batch \ {change}
        /\ \/ /\ change[1] = "deleted" /\ RemoveByPath(f)
              /\ moved' = (moved \/ byName' # byName)
              /\ Forgotten(f, others)
           \/ change[1] # "deleted" /\ LoadOne(f) /\ Reread(f, others)
        /\ UNCHANGED <<dirVars, watcher, toLoad, seen, hop, refused, chains, starts>>
  BY DEF HandleChange
<1> DEFINE f == change[2]
           kind == change[1]
           u == \E d \in batch' \cup seen : d[2] = f
<1>2. f \in Files /\ kind \in {"added", "modified", "deleted"} /\ change = <<kind, f>>
  BY BatchTypes DEF Changes
<1>3. u \in BOOLEAN OBVIOUS
<1>4. /\ watcher = "watching" /\ <<kind, f>> \in batch
      /\ batch' = batch \ {<<kind, f>>}
      /\ u <=> \E d \in batch' \cup seen : d[2] = f
      /\ \/ kind = "deleted" /\ RemoveByPath(f) /\ Forgotten(f, u)
            /\ moved' = (moved \/ byName' # byName)
         \/ kind # "deleted" /\ LoadOne(f) /\ Reread(f, u)
      /\ UNCHANGED <<dirVars, watcher, toLoad, seen, hop, refused, chains, starts>>
  BY <1>1, <1>2
<1> HIDE DEF f, kind, u
<1> QED BY <1>2, <1>3, <1>4

LEMMA TypeNext == TypeInv /\ NamesakesOK /\ RemovedOK /\ [Next]_vars => TypeInv'
<1> SUFFICES ASSUME TypeInv, NamesakesOK, RemovedOK, [Next]_vars PROVE TypeInv' OBVIOUS
<1>1. /\ TypeOK /\ hop \in {Idle} \cup Handoff \cup Work /\ refused \in Refusal
  BY DEF TypeInv
<1>2. /\ edits \in 0..MaxEdits /\ starts \in 0..MaxStarts /\ chains \in 0..MaxChains
      /\ MaxEdits \in Nat /\ MaxStarts \in Nat /\ MaxChains \in Nat
  BY <1>1, RegistryAssumption DEF TypeOK
<1> USE DEF dirVars, registry, watching, chainVars
<1>3. ASSUME NEW f \in Files, NEW c \in Specs \cup Marks, Edit(f, c) PROVE TypeInv'
  <2> USE <1>3 DEF Edit
  <2>1. dir' \in [Files -> Specs \cup Marks] BY <1>1 DEF TypeOK
  <2>2. seen' \subseteq Changes BY <1>1, ChangeType DEF TypeOK, Changes
  <2>3. Doubt(f, c) \subseteq {"missed", "unordered", "namesake", "renamed"} BY DEF Doubt
  <2>4. doubts' \in [Files -> SUBSET {"missed", "unordered", "namesake", "renamed"}]
    BY <1>1, <2>3 DEF TypeOK
  <2>5. edits' \in 0..MaxEdits BY <1>2
  <2>6. TypeOK' BY <1>1, <2>1, <2>2, <2>4, <2>5 DEF TypeOK, Known
  <2> QED BY <1>1, <2>6 DEF TypeInv
<1>4. CASE StartProcess
  <2> USE <1>4 DEF StartProcess
  <2>1. starts' \in 0..MaxStarts /\ toLoad' \subseteq Files BY <1>2
  <2>2. TypeOK' BY <1>1, <2>1 DEF TypeOK, Known
  <2> QED BY <1>1, <2>2 DEF TypeInv
<1>5. CASE LoadDir
  <2>1. CASE toLoad = {} /\ watcher' = "arming" /\ UNCHANGED <<registry, toLoad, doubts, moved>>
    <3>1. UNCHANGED <<dirVars, seen, batch, hop, refused, chains, starts>> BY <1>5 DEF LoadDir
    <3>2. TypeOK' BY <1>1, <2>1, <3>1 DEF TypeOK, Known
    <3> QED BY <1>1, <3>1, <3>2 DEF TypeInv
  <2>2. CASE ~(toLoad = {} /\ watcher' = "arming" /\ UNCHANGED <<registry, toLoad, doubts, moved>>)
    <3>1. PICK f \in toLoad : /\ toLoad' = toLoad \ {f} /\ LoadOne(f) /\ Reread(f, FALSE)
                              /\ UNCHANGED watcher
      BY <1>5, <2>2 DEF LoadDir
    <3>2. UNCHANGED <<dirVars, seen, batch, hop, refused, chains, starts>> BY <1>5 DEF LoadDir
    <3>3. f \in Files BY <1>1 DEF TypeOK
    <3>4. /\ byName' \in [Names -> Entry] /\ errors' \subseteq Files /\ moved' \in BOOLEAN
          /\ \A n \in Names : Known(n)' => byName'[n].spec.name = n
          /\ doubts' \in [Files -> SUBSET {"missed", "unordered", "namesake", "renamed"}]
      BY <1>1, <3>1, <3>2, <3>3, LoadEffect
    <3>5. TypeOK' BY <1>1, <3>1, <3>2, <3>4 DEF TypeOK
    <3> QED BY <1>1, <3>2, <3>5 DEF TypeInv
  <2> QED BY <2>1, <2>2
<1>6. CASE Armed \/ TakeBatch
  <2>1. TypeOK' BY <1>1, <1>6 DEF TypeOK, Known, Armed, TakeBatch
  <2>2. hop' = hop /\ refused' = refused BY <1>6 DEF Armed, TakeBatch
  <2> QED BY <1>1, <2>1, <2>2 DEF TypeInv
<1>7. CASE HandleChange
  <2>1. PICK f \in Files, u \in BOOLEAN, kind \in {"added", "modified", "deleted"} :
           /\ watcher = "watching" /\ <<kind, f>> \in batch
           /\ batch' = batch \ {<<kind, f>>}
           /\ u <=> \E d \in batch' \cup seen : d[2] = f
           /\ \/ kind = "deleted" /\ RemoveByPath(f) /\ Forgotten(f, u)
                 /\ moved' = (moved \/ byName' # byName)
              \/ kind # "deleted" /\ LoadOne(f) /\ Reread(f, u)
           /\ UNCHANGED <<dirVars, watcher, toLoad, seen, hop, refused, chains, starts>>
    BY <1>1, <1>7, HandleSteps
  <2>2. /\ byName' \in [Names -> Entry] /\ errors' \subseteq Files /\ moved' \in BOOLEAN
        /\ \A n \in Names : Known(n)' => byName'[n].spec.name = n
        /\ doubts' \in [Files -> SUBSET {"missed", "unordered", "namesake", "renamed"}]
    <3>1. CASE kind # "deleted" BY <1>1, <2>1, <3>1, LoadEffect
    <3>2. CASE kind = "deleted"
      <4>1. ~u /\ dir[f] # Missing => "unordered" \in doubts[f]
        BY <2>1, <3>2 DEF RemovedOK
      <4>2. moved' \in BOOLEAN BY <1>1, <2>1, <3>2 DEF TypeOK
      <4> QED BY <1>1, <2>1, <3>2, <4>1, <4>2, ForgetEffect
    <3> QED BY <3>1, <3>2
  <2>3. TypeOK' BY <1>1, <2>1, <2>2 DEF TypeOK
  <2> QED BY <1>1, <2>1, <2>3 DEF TypeInv
<1>8. CASE WatcherDies
  <2>1. TypeOK' BY <1>1, <1>8 DEF TypeOK, Known, WatcherDies
  <2> QED BY <1>1, <1>8, <2>1 DEF TypeInv, WatcherDies
<1>9. CASE Stop
  <2> USE <1>9 DEF Stop
  <2>1. byName' \in [Names -> Entry] /\ \A n \in Names : ~Known(n)' BY EntryTypes DEF Known
  <2>2. TypeOK' BY <1>1, <2>1 DEF TypeOK
  <2> QED BY <2>2, HopTypes DEF TypeInv
<1>10. ASSUME NEW n \in Names, StartChain(n) PROVE TypeInv'
  <2> USE <1>10 DEF StartChain
  <2>1. hop' \in Handoff BY DEF Handoff
  <2>2. chains' \in 0..MaxChains BY <1>2
  <2>3. TypeOK' BY <1>1, <2>2 DEF TypeOK, Known
  <2> QED BY <2>1, <2>3, HopTypes DEF TypeInv
<1>11. CASE Resolve
  <2> USE <1>11 DEF Resolve
  <2>1. hop \in Handoff BY <1>1, HopTypes
  <2>2. moved' \in BOOLEAN BY <1>1 DEF TypeOK
  <2>3. TypeOK' BY <1>1, <2>2 DEF TypeOK, Known
  <2>4. CASE ~Accepts(hop.to, hop.from)
    <3>1. hop.from \in Names \cup {User} /\ hop.to \in Names /\ hop.step \in {0, 1}
      BY <2>1, HopTypes
    <3>2. /\ refused' = [from |-> hop.from, to |-> hop.to, step |-> hop.step]
          /\ hop' = Idle
      BY <2>4
    <3> HIDE <1>11
    <3>3. refused' \in Refusal BY <3>1, <3>2 DEF Refusal
    <3> QED BY <2>3, <3>2, <3>3 DEF TypeInv
  <2>5. CASE Accepts(hop.to, hop.from)
    <3>1. byName[hop.to].spec \in Specs BY <1>1, <2>1, <2>5, HopTypes, AcceptsKnown
    <3>2. hop' \in Work BY <2>5, <3>1 DEF Work
    <3> QED BY <1>1, <2>3, <2>5, <3>2 DEF TypeInv
  <2> QED BY <2>4, <2>5
<1>12. CASE EndHop
  <2> USE <1>12 DEF EndHop
  <2>1. TypeOK' BY <1>1 DEF TypeOK, Known
  <2>2. hop \in Work BY <1>1, HopTypes
  <2>3. hop.spec.name \in Names /\ hop.spec.delegates \subseteq Names BY <2>2, HopTypes, SpecTypes
  <2>4. Delegation(hop.spec) \ {Nobody} \subseteq Names BY <2>3 DEF Delegation
  <2>5. hop' = Idle \/ hop' \in Handoff BY <2>3, <2>4 DEF Handoff
  <2> QED BY <1>1, <2>1, <2>5 DEF TypeInv
<1>13. CASE UNCHANGED vars
  <2>1. TypeOK' BY <1>1, <1>13 DEF TypeOK, Known, vars
  <2> QED BY <1>1, <1>13, <2>1 DEF TypeInv, vars
<1> QED
  BY <1>3, <1>4, <1>5, <1>6, <1>7, <1>8, <1>9, <1>10, <1>11, <1>12, <1>13 DEF Next, Watch

-----------------------------------------------------------------------------
(* When the registry agrees with the directory.                            *)

LEMMA RegistryInit == Init => RegistryInv
<1> SUFFICES ASSUME Init PROVE RegistryInv OBVIOUS
<1> USE DEF Init
<1>1. QuietOK BY DEF QuietOK
<1>2. NamesakesOK BY DEF NamesakesOK, Namesakes
<1>3. RemovedOK BY DEF RemovedOK
<1>4. AgreesOK BY DEF AgreesOK, RegistryAgrees
<1> QED BY <1>1, <1>2, <1>3, <1>4 DEF RegistryInv

(* A file that nothing has been read of is in nobody's name.               *)
LEMMA NothingRead ==
  ASSUME TypeOK, NEW f \in Files, byName = [n \in Names |-> NoEntry], errors = {}, dir[f] = Missing
  PROVE  Agrees(f)
BY EntryTypes DEF Agrees, From

(* The namesakes of a file are its namesakes by either's name.             *)
LEMMA EditNamesakes ==
  ASSUME TypeOK, NamesakesOK, NEW f \in Files, NEW c \in Specs \cup Marks, Edit(f, c)
  PROVE  NamesakesOK'
<1> SUFFICES ASSUME NEW g \in Files, Namesakes(g, dir[g])' # {}
             PROVE  "namesake" \in doubts'[g]
  BY DEF NamesakesOK
<1>1. /\ dir'[f] = c /\ \A h \in Files \ {f} : dir'[h] = dir[h]
      /\ doubts'[g] = doubts[g] \cup (IF g = f THEN Doubt(f, c) ELSE {})
                           \cup (IF g \in Namesakes(f, c) THEN {"namesake"} ELSE {})
  BY DEF Edit, TypeOK
<1>2. PICK h \in Files \ {g} : IsSpec(dir'[g]) /\ IsSpec(dir'[h]) /\ dir'[h].name = dir'[g].name
  BY DEF Namesakes, IsSpec
<1>3. CASE g = f
  <2>1. h \in Namesakes(f, c) BY <1>1, <1>2, <1>3 DEF Namesakes, IsSpec
  <2>2. "namesake" \in Doubt(f, c) BY <2>1 DEF Doubt
  <2> QED BY <1>1, <1>3, <2>2
<1>4. CASE g # f /\ h = f
  <2>1. g \in Namesakes(f, c) BY <1>1, <1>2, <1>4 DEF Namesakes, IsSpec
  <2> QED BY <1>1, <2>1
<1>5. CASE g # f /\ h # f
  <2>1. h \in Namesakes(g, dir[g]) BY <1>1, <1>2, <1>5 DEF Namesakes, IsSpec
  <2>2. "namesake" \in doubts[g] BY <2>1 DEF NamesakesOK
  <2> QED BY <1>1, <2>2
<1> QED BY <1>3, <1>4, <1>5

LEMMA EditRegistry ==
  ASSUME TypeOK, RegistryInv, NEW f \in Files, NEW c \in Specs \cup Marks, Edit(f, c)
  PROVE  RegistryInv'
<1>1. QuietOK /\ NamesakesOK /\ RemovedOK /\ AgreesOK BY DEF RegistryInv
<1>2. /\ dir'[f] = c /\ \A g \in Files \ {f} : dir'[g] = dir[g]
      /\ \A g \in Files : doubts[g] \subseteq doubts'[g]
      /\ Doubt(f, c) \subseteq doubts'[f]
      /\ UNCHANGED <<byName, errors, watcher, toLoad, batch>>
      /\ seen' = IF watcher = "watching" THEN seen \cup {<<Change(f, c), f>>} ELSE seen
      /\ c # dir[f]
  BY DEF Edit, TypeOK, registry
<1>3. QuietOK' BY <1>1, <1>2 DEF QuietOK
<1>4. NamesakesOK' BY <1>1, EditNamesakes
<1>5. ASSUME NEW g \in Files, dir'[g] # Missing
      PROVE  /\ <<"deleted", g>> \in seen' => "unordered" \in doubts'[g]
             /\ <<"deleted", g>> \in batch' =>
                  "unordered" \in doubts'[g] \/ \E change \in seen' : change[2] = g
  <2>1. CASE g # f
    <3>1. dir[g] # Missing BY <1>2, <1>5, <2>1
    <3>2. <<"deleted", g>> \in seen' => <<"deleted", g>> \in seen BY <1>2, <2>1
    <3>3. seen \subseteq seen' BY <1>2
    <3> QED BY <1>1, <1>2, <3>1, <3>2, <3>3 DEF RemovedOK
  <2>2. CASE g = f
    <3>1. Change(f, c) # "deleted" BY <1>2, <1>5, <2>2 DEF Change
    <3>2. <<"deleted", f>> \in seen' => <<"deleted", f>> \in seen BY <1>2, <3>1
    <3>3. <<"deleted", f>> \in seen => watcher = "watching" BY <1>1 DEF QuietOK
    <3>4. <<"deleted", f>> \in seen => "unordered" \in Doubt(f, c)
      BY <3>1, <3>3 DEF Doubt
    <3>5. <<"deleted", f>> \in batch => <<Change(f, c), f>> \in seen'
      BY <1>1, <1>2 DEF QuietOK
    <3> QED BY <1>2, <2>2, <3>2, <3>4, <3>5
  <2> QED BY <2>1, <2>2
<1>6. RemovedOK' BY <1>5 DEF RemovedOK
<1>7. \A g \in Files \ {f} : Agrees(g) => Agrees(g)' BY <1>2 DEF Agrees, From, IsSpec
<1>8. watcher' = "loading" => \A g \in Files : g \notin toLoad' /\ doubts'[g] = {} => Agrees(g)'
  <2> SUFFICES ASSUME watcher' = "loading", NEW g \in Files, g \notin toLoad', doubts'[g] = {}
               PROVE  Agrees(g)'
    OBVIOUS
  <2>1. watcher = "loading" /\ g \notin toLoad /\ doubts[g] = {} BY <1>2
  <2>2. g # f
    <3>1. g = f => "missed" \in Doubt(f, c) BY <2>1 DEF Doubt
    <3> QED BY <1>2, <3>1
  <2> QED BY <1>1, <1>7, <2>1, <2>2 DEF AgreesOK
<1>9. RegistryAgrees'
  <2> SUFFICES ASSUME watcher' \in {"arming", "watching"}, NEW g \in Files, doubts'[g] = {},
                      \A change \in seen' \cup batch' : change[2] # g
               PROVE  Agrees(g)'
    BY DEF RegistryAgrees
  <2>1. watcher \in {"arming", "watching"} /\ doubts[g] = {} BY <1>2
  <2>2. seen \cup batch \subseteq seen' \cup batch' BY <1>2
  <2>3. g # f
    <3>1. g = f /\ watcher = "arming" => "missed" \in Doubt(f, c) BY DEF Doubt
    <3>2. watcher = "watching" => <<Change(f, c), f>> \in seen' BY <1>2
    <3> QED BY <1>2, <2>1, <3>1, <3>2
  <2> QED BY <1>1, <1>7, <2>1, <2>2, <2>3 DEF AgreesOK, RegistryAgrees
<1> QED BY <1>3, <1>4, <1>6, <1>8, <1>9 DEF RegistryInv, AgreesOK

LEMMA StartRegistry == TypeOK /\ RegistryInv /\ StartProcess => RegistryInv'
<1> SUFFICES ASSUME TypeOK, RegistryInv, StartProcess PROVE RegistryInv' OBVIOUS
<1> USE DEF StartProcess, dirVars, registry
<1>1. QuietOK /\ NamesakesOK /\ RemovedOK BY DEF RegistryInv
<1>2. QuietOK' /\ NamesakesOK' /\ RemovedOK'
  BY <1>1 DEF QuietOK, NamesakesOK, Namesakes, RemovedOK
<1>3. ASSUME NEW f \in Files, f \notin toLoad' PROVE Agrees(f)'
  <2>1. dir[f] = Missing BY <1>3
  <2>2. Agrees(f) BY <1>1, <2>1, NothingRead DEF QuietOK
  <2> QED BY <2>2 DEF Agrees, From, IsSpec
<1>4. AgreesOK' BY <1>3 DEF AgreesOK, RegistryAgrees
<1> QED BY <1>2, <1>4 DEF RegistryInv

LEMMA LoadRegistry == TypeOK /\ RegistryInv /\ LoadDir => RegistryInv'
<1> SUFFICES ASSUME TypeOK, RegistryInv, LoadDir PROVE RegistryInv' OBVIOUS
<1>1. QuietOK /\ NamesakesOK /\ RemovedOK /\ AgreesOK BY DEF RegistryInv
<1>2. /\ watcher = "loading" /\ seen = {} /\ batch = {}
      /\ UNCHANGED <<dir, seen, batch>>
  BY <1>1 DEF LoadDir, QuietOK, dirVars
<1>3. RemovedOK' BY <1>2 DEF RemovedOK
<1>4. CASE toLoad = {} /\ watcher' = "arming" /\ UNCHANGED <<registry, toLoad, doubts, moved>>
  <2> USE DEF registry
  <2>1. QuietOK' /\ NamesakesOK'
    BY <1>1, <1>2, <1>4 DEF QuietOK, NamesakesOK, Namesakes
  <2>2. \A f \in Files : doubts'[f] = {} => Agrees(f)'
    BY <1>1, <1>2, <1>4 DEF AgreesOK, Agrees, From, IsSpec
  <2>3. AgreesOK' BY <1>4, <2>2 DEF AgreesOK, RegistryAgrees
  <2> QED BY <1>3, <2>1, <2>3 DEF RegistryInv
<1>5. CASE ~(toLoad = {} /\ watcher' = "arming" /\ UNCHANGED <<registry, toLoad, doubts, moved>>)
  <2>1. PICK f \in toLoad : /\ toLoad' = toLoad \ {f} /\ LoadOne(f) /\ Reread(f, FALSE)
                            /\ UNCHANGED watcher
    BY <1>5 DEF LoadDir
  <2>2. f \in Files BY DEF TypeOK
  <2>3. /\ NamesakesOK' /\ (doubts'[f] = {} => Agrees(f)')
        /\ \A g \in Files \ {f} :
              doubts'[g] = doubts[g] /\ (doubts[g] = {} /\ Agrees(g) => Agrees(g)')
    BY <1>1, <1>2, <2>1, <2>2, LoadEffect
  <2>4. QuietOK' BY <1>2, <2>1 DEF QuietOK
  <2>5. \A g \in Files : g \notin toLoad' /\ doubts'[g] = {} => Agrees(g)'
    BY <1>1, <1>2, <2>1, <2>3 DEF AgreesOK
  <2>6. AgreesOK' BY <1>2, <2>1, <2>5 DEF AgreesOK, RegistryAgrees
  <2> QED BY <1>3, <2>3, <2>4, <2>6 DEF RegistryInv
<1> QED BY <1>4, <1>5

LEMMA HandleRegistry == TypeOK /\ RegistryInv /\ HandleChange => RegistryInv'
<1> SUFFICES ASSUME TypeOK, RegistryInv, HandleChange PROVE RegistryInv' OBVIOUS
<1>1. QuietOK /\ NamesakesOK /\ RemovedOK /\ AgreesOK BY DEF RegistryInv
<1>2. PICK f \in Files, u \in BOOLEAN, kind \in {"added", "modified", "deleted"} :
           /\ watcher = "watching" /\ <<kind, f>> \in batch
           /\ batch' = batch \ {<<kind, f>>}
           /\ u <=> \E d \in batch' \cup seen : d[2] = f
           /\ \/ kind = "deleted" /\ RemoveByPath(f) /\ Forgotten(f, u)
                 /\ moved' = (moved \/ byName' # byName)
              \/ kind # "deleted" /\ LoadOne(f) /\ Reread(f, u)
           /\ UNCHANGED <<dirVars, watcher, toLoad, seen, hop, refused, chains, starts>>
  BY HandleSteps
<1>3. dir' = dir /\ watcher' = "watching" /\ seen' = seen BY <1>2 DEF dirVars
<1>4. ~u /\ dir[f] # Missing /\ kind = "deleted" => "unordered" \in doubts[f]
  BY <1>1, <1>2 DEF RemovedOK
<1>5. /\ NamesakesOK'
      /\ ~u /\ doubts'[f] = {} => Agrees(f)'
      /\ u /\ dir[f] # Missing /\ "unordered" \in doubts[f] => "unordered" \in doubts'[f]
      /\ \A g \in Files \ {f} :
            doubts'[g] = doubts[g] /\ (doubts[g] = {} /\ Agrees(g) => Agrees(g)')
  <2>1. CASE kind # "deleted" BY <1>1, <1>2, <1>3, <2>1, LoadEffect
  <2>2. CASE kind = "deleted" BY <1>1, <1>2, <1>3, <1>4, <2>2, ForgetEffect
  <2> QED BY <2>1, <2>2
<1>6. QuietOK' BY <1>3 DEF QuietOK
<1>7. ASSUME NEW g \in Files, dir'[g] # Missing
      PROVE  /\ <<"deleted", g>> \in seen' => "unordered" \in doubts'[g]
             /\ <<"deleted", g>> \in batch' =>
                  "unordered" \in doubts'[g] \/ \E change \in seen' : change[2] = g
  <2>1. dir[g] # Missing BY <1>3, <1>7
  <2>2. CASE g # f BY <1>1, <1>2, <1>3, <1>5, <2>1, <2>2 DEF RemovedOK
  <2>3. CASE g = f
    <3>1. <<"deleted", f>>[2] = f OBVIOUS
    <3>2. <<"deleted", f>> \in seen' \cup batch' => u BY <1>2, <1>3, <3>1
    <3> QED BY <1>1, <1>2, <1>3, <1>5, <2>1, <2>3, <3>2 DEF RemovedOK
  <2> QED BY <2>2, <2>3
<1>8. RemovedOK' BY <1>7 DEF RemovedOK
<1>9. RegistryAgrees'
  <2> SUFFICES ASSUME NEW g \in Files, doubts'[g] = {},
                      \A change \in seen' \cup batch' : change[2] # g
               PROVE  Agrees(g)'
    BY DEF RegistryAgrees
  <2>1. CASE g = f BY <1>2, <1>3, <1>5, <2>1
  <2>2. CASE g # f
    <3>1. <<kind, f>>[2] = f OBVIOUS
    <3>2. \A change \in seen \cup batch : change[2] # g BY <1>2, <1>3, <2>2, <3>1
    <3> QED BY <1>1, <1>2, <1>5, <2>2, <3>2 DEF AgreesOK, RegistryAgrees
  <2> QED BY <2>1, <2>2
<1>10. AgreesOK' BY <1>3, <1>9 DEF AgreesOK
<1> QED BY <1>5, <1>6, <1>8, <1>10 DEF RegistryInv

(* The other steps read no file.                                           *)
LEMMA OtherRegistry ==
  ASSUME TypeOK, RegistryInv,
         \/ Armed \/ TakeBatch \/ WatcherDies \/ Stop \/ Resolve \/ EndHop
         \/ (\E n \in Names : StartChain(n)) \/ UNCHANGED vars
  PROVE  RegistryInv'
<1>1. QuietOK /\ NamesakesOK /\ RemovedOK /\ AgreesOK BY DEF RegistryInv
<1> USE DEF dirVars, registry, watching
<1>2. CASE Armed
  <2> USE <1>2 DEF Armed
  <2>1. QuietOK' /\ NamesakesOK' /\ RemovedOK'
    BY <1>1 DEF QuietOK, NamesakesOK, Namesakes, RemovedOK
  <2>2. \A f \in Files : Agrees(f)' <=> Agrees(f) BY DEF Agrees, From, IsSpec
  <2>3. AgreesOK' BY <1>1, <2>2 DEF AgreesOK, RegistryAgrees
  <2> QED BY <2>1, <2>3 DEF RegistryInv
<1>3. CASE TakeBatch
  <2> USE <1>3 DEF TakeBatch
  <2>1. QuietOK' /\ NamesakesOK' /\ RemovedOK'
    BY <1>1 DEF QuietOK, NamesakesOK, Namesakes, RemovedOK
  <2>2. \A f \in Files : Agrees(f)' <=> Agrees(f) BY DEF Agrees, From, IsSpec
  <2>3. seen' \cup batch' = seen \cup batch OBVIOUS
  <2>4. AgreesOK' BY <1>1, <2>2, <2>3 DEF AgreesOK, RegistryAgrees
  <2> QED BY <2>1, <2>4 DEF RegistryInv
<1>4. CASE WatcherDies
  <2> USE <1>4 DEF WatcherDies
  <2>1. QuietOK' /\ NamesakesOK' /\ RemovedOK'
    BY <1>1 DEF QuietOK, NamesakesOK, Namesakes, RemovedOK
  <2>2. AgreesOK' BY DEF AgreesOK, RegistryAgrees
  <2> QED BY <2>1, <2>2 DEF RegistryInv
<1>5. CASE Stop
  <2> USE <1>5 DEF Stop
  <2>1. \A f \in Files : Namesakes(f, dir[f])' = Namesakes(f, dir[f]) BY DEF Namesakes
  <2>2. QuietOK' /\ NamesakesOK' /\ RemovedOK'
    BY <1>1, <2>1 DEF QuietOK, NamesakesOK, RemovedOK
  <2>3. AgreesOK' BY DEF AgreesOK, RegistryAgrees
  <2> QED BY <2>2, <2>3 DEF RegistryInv
<1>6. CASE UNCHANGED <<dirVars, registry, watching, doubts>>
  <2>1. QuietOK' /\ NamesakesOK' /\ RemovedOK'
    BY <1>1, <1>6 DEF QuietOK, NamesakesOK, Namesakes, RemovedOK
  <2>2. \A f \in Files : Agrees(f)' <=> Agrees(f) BY <1>6 DEF Agrees, From, IsSpec
  <2>3. AgreesOK' BY <1>1, <1>6, <2>2 DEF AgreesOK, RegistryAgrees
  <2> QED BY <2>1, <2>3 DEF RegistryInv
<1> QED BY <1>2, <1>3, <1>4, <1>5, <1>6 DEF Resolve, EndHop, StartChain, vars

LEMMA RegistryNext == TypeOK /\ RegistryInv /\ [Next]_vars => RegistryInv'
BY EditRegistry, StartRegistry, LoadRegistry, HandleRegistry, OtherRegistry DEF Next, Watch

(* What holds of the types and of the registry is kept by every step; the  *)
(* types rest on the registry's doubts and the other way round.            *)
THEOREM TypeInvariant == Spec => [](TypeInv /\ RegistryInv)
<1>1. Init => TypeInv /\ RegistryInv BY TypeInit, RegistryInit
<1>2. TypeInv /\ RegistryInv /\ [Next]_vars => (TypeInv /\ RegistryInv)'
  BY TypeNext, RegistryNext DEF TypeInv, RegistryInv
<1> QED BY <1>1, <1>2, PTL DEF Spec

(* Every variable keeps its type, and an agent is found under the name its *)
(* spec carries (spec/loader.py: _by_name is keyed by spec.name).          *)
THEOREM TypeCorrect == Spec => []TypeOK
<1>1. TypeInv => TypeOK BY DEF TypeInv
<1> QED BY <1>1, TypeInvariant, PTL

(* A file without a pending change is in the registry as it is in the      *)
(* directory, but for the four reasons of doubt (loader.py: load_dir, run, *)
(* upsert, remove_by_path).                                                *)
THEOREM Agreement == Spec => []RegistryAgrees
<1>1. RegistryInv => RegistryAgrees BY DEF RegistryInv, AgreesOK
<1> QED BY <1>1, TypeInvariant, PTL

-----------------------------------------------------------------------------
(* When a handoff is refused.                                              *)

LEMMA WelcomeInit == Init => WelcomeOK
BY HopTypes DEF Init, WelcomeOK, RefusedOnlyIfMoved

(* Reading a file changes nobody's welcome without being noticed.          *)
LEMMA WatchWelcome ==
  ASSUME TypeInv, WelcomeOK, moved => moved', byName' # byName => moved',
         hop' = hop, refused' = refused
  PROVE  WelcomeOK'
<1>1. byName' = byName => \A n, from : Accepts(n, from)' <=> Accepts(n, from)
  BY DEF Accepts, Known
<1>2. CASE moved' BY <1>2 DEF WelcomeOK, RefusedOnlyIfMoved
<1>3. CASE ~moved' /\ byName' = byName
  BY <1>1, <1>3 DEF WelcomeOK, RefusedOnlyIfMoved
<1> QED BY <1>2, <1>3

LEMMA ResolveWelcome ==
  ASSUME TypeInv, WelcomeOK, Resolve
  PROVE  WelcomeOK'
<1> USE DEF Resolve
<1>1. hop \in Handoff /\ TypeOK BY HopTypes DEF TypeInv
<1>2. refused = NotRefused BY <1>1, HopTypes DEF WelcomeOK
<1>4. CASE ~Accepts(hop.to, hop.from)
  <2>1. /\ hop' = Idle /\ moved' = moved
        /\ refused' = [from |-> hop.from, to |-> hop.to, step |-> hop.step]
    BY <1>4
  <2>2. hop.step > 0 => moved BY <1>1, <1>4, HopTypes DEF WelcomeOK
  <2> HIDE DEF Resolve
  <2>3. refused'.step = hop.step BY <2>1
  <2> QED BY <2>1, <2>2, <2>3, HopTypes DEF WelcomeOK, RefusedOnlyIfMoved
<1>5. CASE Accepts(hop.to, hop.from)
  <2> DEFINE spec == byName[hop.to].spec
  <2>1. /\ hop' = [at |-> "work", spec |-> spec] /\ refused' = refused
        /\ moved' = \E d \in spec.delegates : ~Accepts(d, spec.name)
    BY <1>5
  <2> HIDE DEF spec
  <2>2. hop'.at = "work" /\ hop'.spec = spec BY <2>1
  <2>3. moved' \/ \A d \in spec.delegates : Accepts(d, spec.name) BY <2>1
  <2>4. moved' \/ \A d \in hop'.spec.delegates : Accepts(d, hop.spec.name)'
    BY <2>2, <2>3 DEF Accepts, Known, registry
  <2> QED BY <1>2, <2>1, <2>2, <2>4 DEF WelcomeOK, RefusedOnlyIfMoved
<1> QED BY <1>4, <1>5

LEMMA EndHopWelcome ==
  ASSUME TypeInv, WelcomeOK, EndHop
  PROVE  WelcomeOK'
<1> USE DEF EndHop
<1>1. hop \in Work /\ TypeOK BY HopTypes DEF TypeInv
<1>2. refused = NotRefused /\ refused' = NotRefused BY <1>1, HopTypes DEF WelcomeOK
<1>4. moved' = moved BY DEF EndHop
<1>5. CASE hop' = Idle BY <1>2, <1>5, HopTypes DEF WelcomeOK, RefusedOnlyIfMoved
<1>6. ASSUME NEW d \in Delegation(hop.spec) \ {Nobody},
             hop' = [at |-> "handoff", from |-> hop.spec.name, to |-> d, step |-> 1]
      PROVE  WelcomeOK'
  <2>1. d \in hop.spec.delegates BY DEF Delegation
  <2>2. moved \/ Accepts(d, hop.spec.name) BY <1>1, <2>1, HopTypes DEF WelcomeOK
  <2>3. hop'.at = "handoff" /\ hop'.to = d /\ hop'.from = hop.spec.name BY <1>6
  <2>4. moved' \/ Accepts(hop.to, hop.from)'
    BY <1>4, <2>2, <2>3 DEF Accepts, Known, registry
  <2> QED BY <1>2, <2>3, <2>4 DEF WelcomeOK, RefusedOnlyIfMoved
<1> QED BY <1>5, <1>6

LEMMA WelcomeNext == TypeInv /\ WelcomeOK /\ [Next]_vars => WelcomeOK'
<1> SUFFICES ASSUME TypeInv, WelcomeOK, [Next]_vars PROVE WelcomeOK' OBVIOUS
<1>1. TypeOK BY DEF TypeInv
<1>2. CASE LoadDir
  <2>1. moved => moved' BY <1>2 DEF LoadDir, LoadOne
  <2>2. byName' # byName => moved' BY <1>2 DEF LoadDir, LoadOne, registry
  <2> QED BY <1>2, <2>1, <2>2, WatchWelcome DEF LoadDir
<1>3. CASE HandleChange
  <2>1. (moved => moved') /\ (byName' # byName => moved') /\ hop' = hop /\ refused' = refused
    BY <1>1, <1>3, HandleSteps DEF LoadOne
  <2> QED BY <2>1, WatchWelcome
<1>4. CASE Stop BY <1>4, HopTypes DEF Stop, WelcomeOK, RefusedOnlyIfMoved
<1>5. ASSUME NEW n \in Names, StartChain(n) PROVE WelcomeOK'
  BY <1>5 DEF StartChain, WelcomeOK, RefusedOnlyIfMoved
<1>6. CASE UNCHANGED <<registry, chainVars>>
  BY <1>6, WatchWelcome DEF registry, chainVars
<1>7. CASE UNCHANGED vars BY <1>6, <1>7 DEF vars
<1>8. CASE (\E f \in Files, c \in Specs \cup Marks : Edit(f, c)) \/ StartProcess
           \/ Armed \/ TakeBatch \/ WatcherDies
  BY <1>6, <1>8 DEF Edit, StartProcess, Armed, TakeBatch, WatcherDies
<1> QED
  BY <1>2, <1>3, <1>4, <1>5, <1>7, <1>8, ResolveWelcome, EndHopWelcome DEF Next, Watch

(* A handoff an agent made is refused only if a delegate was not welcome   *)
(* when the agent began, or the registry has changed since                 *)
(* (runtime.py:126-138: each hop looks its agent up anew).                 *)
THEOREM Welcome == Spec => []RefusedOnlyIfMoved
<1>1. Init => TypeInv /\ WelcomeOK BY TypeInit, WelcomeInit
<1>2. TypeInv /\ TypeInv' /\ WelcomeOK /\ [Next]_vars => WelcomeOK'
  BY WelcomeNext
<1>3. WelcomeOK => RefusedOnlyIfMoved BY DEF WelcomeOK
<1> QED BY <1>1, <1>2, <1>3, TypeInvariant, PTL DEF Spec
=============================================================================
