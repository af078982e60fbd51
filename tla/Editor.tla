-------------------------------- MODULE Editor --------------------------------
(***************************************************************************)
(* The editor of one Short (editor-state.ts, EditorWorkspace.tsx): a local *)
(* draft of four sections, saved one section at a time under the revision  *)
(* the editor has seen, while other clients save the same Short, and calls *)
(* whose handlers use what they captured before they awaited the answer.   *)
(*                                                                         *)
(* A section is a value; sidecars and diagnostics of the captions, which   *)
(* follow from the timeline, are what "forced" stands for.                 *)
(***************************************************************************)
EXTENDS Naturals, Sequences

CONSTANTS Sections,         \* with timeline, composition and captions
          Values,           \* positive numbers
          MaxRevision,      \* of the server's Short
          MaxCommits

ASSUME EditorAssumption ==
    /\ {"timeline", "composition", "captions"} \subseteq Sections
    /\ Values \subseteq Nat \ {0} /\ MaxRevision \in Nat \ {0}

VARIABLES
    server,     \* the Short in the database: revision and content
    seen,       \* project.revision
    baseline, draft, history,
    forced,     \* forcedDirty
    conflict,
    flights,    \* by kind, the call under way with what its handler captured
    meant,      \* per section, what the user last put there between calls
    commits     \* so far

editorVars == <<server, seen, baseline, draft, history, forced, conflict, flights, meant, commits>>

Contents  == [Sections -> Values]
Kinds     == {"save", "load", "approve"}
Untouched == 0

NoFlight == [stage |-> "none"]

EditorInit ==
    /\ \E v \in Values : LET content == [s \in Sections |-> v] IN
         /\ server = [revision |-> 1, content |-> content]
         /\ baseline = content /\ draft = content
         /\ history = [entries |-> <<content>>, index |-> 1]
    /\ seen = 1
    /\ forced = {}
    /\ conflict = FALSE
    /\ flights = [k \in Kinds |-> NoFlight]
    /\ meant = [s \in Sections |-> Untouched]
    /\ commits = 0

dirtySections(from, to) == {s \in Sections : from[s] # to[s]}

dirty == dirtySections(baseline, draft) \cup forced

Quiet == \A k \in Kinds : flights[k] = NoFlight

\* What the user sets between calls and has not saved is meant; a section
\* that changes while a call is under way is no longer followed.
Means(content) ==
    meant' = [s \in Sections |->
        CASE Quiet /\ content[s] # baseline[s] -> content[s]
          [] ~Quiet /\ content[s] = draft[s]   -> meant[s]
          [] OTHER                             -> Untouched]

pushHistory(content) ==
    LET kept == SubSeq(history.entries, 1, history.index)
    IN  IF history.entries[history.index] = content THEN history
        ELSE [entries |-> Append(kept, content), index |-> Len(kept) + 1]
-----------------------------------------------------------------------------
commit(s, v) ==
    LET next == [draft EXCEPT ![s] = v]
    IN  /\ next # draft
        /\ commits < MaxCommits
        /\ commits' = commits + 1
        /\ draft' = next
        /\ history' = pushHistory(next)
        /\ Means(next)
        /\ UNCHANGED <<server, seen, baseline, forced, conflict, flights>>

undoOrRedo ==
    /\ \E i \in {history.index - 1, history.index + 1} \cap DOMAIN history.entries :
         /\ history' = [history EXCEPT !.index = i]
         /\ draft' = history.entries[i]
         /\ Means(history.entries[i])
    /\ UNCHANGED <<server, seen, baseline, forced, conflict, flights, commits>>

\* A call leaves with the revision the editor has seen; its handler will use
\* the draft and the marks of now.
Call(kind, section) ==
    /\ flights[kind] = NoFlight
    /\ flights' = [flights EXCEPT ![kind] =
         [stage    |-> "sent",
          section  |-> section,
          expected |-> IF kind = "load" THEN 0 ELSE seen,
          held     |-> IF kind = "approve" THEN <<>> ELSE <<draft, dirty, forced>>]]
    /\ UNCHANGED <<server, seen, baseline, draft, history, forced, conflict, meant, commits>>

save(s)  == s \in Sections /\ ~conflict /\ Call("save", s)

reanalyze == "composition" \notin dirty /\ ~conflict /\ Call("save", "reanalyze")

approve  == dirty = {} /\ ~conflict /\ Call("approve", "approve")

loadLatest(rebase) == conflict /\ Call("load", IF rebase THEN "rebase" ELSE "discard")
-----------------------------------------------------------------------------
(***************************************************************************)
(* The server.  Every update is refused unless the expected revision is    *)
(* the current one.                                                        *)
(***************************************************************************)
Updates(content) == server' = [revision |-> server.revision + 1, content |-> content]

Content(section, held) ==
    CASE section = "approve"   -> {server.content}
      [] section = "reanalyze" -> {[server.content EXCEPT !["composition"] = v] : v \in Values}
      [] OTHER                 -> {[server.content EXCEPT ![section] = held[1][section]]}

Serve(kind) ==
    LET f == flights[kind]
        answer(short) == [stage |-> "ok", section |-> f.section, held |-> f.held, short |-> short]
    IN  /\ f.stage = "sent"
        /\ \/ /\ kind = "load"
              /\ flights' = [flights EXCEPT ![kind] = answer(server)]
              /\ UNCHANGED server
           \/ /\ kind # "load" /\ f.expected = server.revision
              /\ server.revision < MaxRevision
              /\ \E content \in Content(f.section, f.held) : Updates(content)
              /\ flights' = [flights EXCEPT ![kind] = answer(server')]
           \/ /\ kind # "load" /\ f.expected # server.revision
              /\ flights' = [flights EXCEPT ![kind] = [stage |-> "conflict"]]
              /\ UNCHANGED server
        /\ UNCHANGED <<seen, baseline, draft, history, forced, conflict, meant, commits>>

\* Another client saves a section.
OtherSaves ==
    /\ server.revision < MaxRevision
    /\ \E s \in Sections, v \in Values : Updates([server.content EXCEPT ![s] = v])
    /\ UNCHANGED <<seen, baseline, draft, history, forced, conflict, flights, meant, commits>>
-----------------------------------------------------------------------------
(***************************************************************************)
(* The answers                                                             *)
(***************************************************************************)

Answered(kind, stage) ==
    /\ flights[kind].stage = stage
    /\ flights' = [flights EXCEPT ![kind] = NoFlight]

\* Mutant: a save forgets the drafts of the other sections.
mergeForgetful(prior, canonical, section, dirtyBefore) == canonical

\* The draft after a save: other sections that were dirty are kept, and the
\* captions whatever they were when the timeline is saved.
mergeCanonicalSave(prior, canonical, section, dirtyBefore) ==
    LET kept == (dirtyBefore \ {section}) \cup (IF section = "timeline" THEN {"captions"} ELSE {})
    IN  [s \in Sections |-> IF s \in kept THEN prior[s] ELSE canonical[s]]

Saved ==
    /\ Answered("save", "ok")
    /\ LET f       == flights["save"]
           section == IF f.section = "reanalyze" THEN "composition" ELSE f.section
           merged  == mergeCanonicalSave(f.held[1], f.short.content, section, f.held[2])
       IN  /\ seen' = f.short.revision
           /\ baseline' = f.short.content
           /\ draft' = merged
           /\ history' = pushHistory(merged)
           /\ forced' = (forced \ {section}) \cup (IF section = "timeline" THEN {"captions"} ELSE {})
           /\ meant' = [meant EXCEPT ![section] = Untouched]
    /\ UNCHANGED <<server, conflict, commits>>

Approved ==
    /\ Answered("approve", "ok")
    /\ seen' = flights["approve"].short.revision
    /\ UNCHANGED <<server, baseline, draft, history, forced, conflict, meant, commits>>

Conflicts ==
    /\ Answered("save", "conflict") \/ Answered("approve", "conflict")
    /\ conflict' = TRUE
    /\ UNCHANGED <<server, seen, baseline, draft, history, forced, meant, commits>>

NewBaseline(latest, next) == latest

Loaded ==
    /\ Answered("load", "ok")
    /\ LET f      == flights["load"]
           latest == f.short.content
           kept   == IF f.section = "rebase" THEN f.held[2] ELSE {}
           next   == [s \in Sections |-> IF s \in kept THEN f.held[1][s] ELSE latest[s]]
       IN  /\ seen' = f.short.revision
           /\ baseline' = NewBaseline(latest, next)
           /\ draft' = next
           /\ history' = [entries |-> <<next>>, index |-> 1]
           /\ forced' = IF f.section = "rebase" THEN f.held[3] ELSE {}
           /\ conflict' = FALSE
           /\ meant' = [s \in Sections |-> IF s \in kept THEN meant[s] ELSE Untouched]
    /\ UNCHANGED <<server, commits>>

\* Any other error changes nothing; a save may still have been carried out.
CallFails ==
    /\ \E k \in Kinds :
         /\ flights[k] # NoFlight
         /\ flights' = [flights EXCEPT ![k] = NoFlight]
    /\ UNCHANGED <<server, seen, baseline, draft, history, forced, conflict, meant, commits>>

EditorNext ==
    \/ \E s \in Sections, v \in Values : commit(s, v)
    \/ undoOrRedo
    \/ \E s \in Sections : save(s)
    \/ reanalyze \/ approve \/ loadLatest(TRUE) \/ loadLatest(FALSE)
    \/ \E k \in Kinds : Serve(k)
    \/ OtherSaves
    \/ Saved \/ Approved \/ Conflicts \/ Loaded \/ CallFails

EditorSpec == EditorInit /\ [][EditorNext]_editorVars

\* The latest revision is not loaded while a save is under way.  Nothing in
\* the editor enforces it, and a save that is overtaken by a load and another
\* approval would be taken for the content of that approval.
Patient == flights["save"] = NoFlight \/ flights["load"] = NoFlight

PatientSpec == EditorInit /\ [][EditorNext /\ Patient']_editorVars
-----------------------------------------------------------------------------
EditorTypeOK ==
    /\ server \in [revision : 1..MaxRevision, content : Contents]
    /\ seen \in 1..MaxRevision
    /\ baseline \in Contents /\ draft \in Contents
    /\ history.index \in DOMAIN history.entries
    /\ forced \subseteq Sections /\ conflict \in BOOLEAN

(***************************************************************************)
(* The editor tells the truth.  When it would save under the revision the  *)
(* server has, what it shows as saved is what the server has, so that no   *)
(* save silently takes back another client's; and what its user put into a *)
(* section between calls is still there after saves of other sections,     *)
(* conflicts and rebases, in whatever order their answers come, provided   *)
(* that no load overtakes a save.                                          *)
(***************************************************************************)
EditorIsTruthful ==
    /\ seen = server.revision => baseline = server.content
    /\ Quiet => \A s \in Sections : meant[s] # Untouched => draft[s] = meant[s]
=============================================================================
