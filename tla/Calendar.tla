-------------------------------- MODULE Calendar --------------------------------
(***************************************************************************)
(* The calendar of publications (service.ts, repository.ts): its rules,    *)
(* the drafts made under them, moves and publications.  Every call names   *)
(* the revision its client has on the screen, which may be an old one; a   *)
(* call that is refused changes nothing.                                   *)
(*                                                                         *)
(* One client may act on an old screen, the others on what is.  Which      *)
(* Short has a Render that may be scheduled, and what flags an entry, is   *)
(* RenderLifecycle's; slots and drafts are ScheduleDraft's.                *)
(***************************************************************************)
EXTENDS ScheduleDraft

CONSTANTS Planned,          \* Shorts, by their identifiers
          Priority,         \* [Planned -> Int]
          Owner,            \* the Episode of each
          Rules,            \* the rules that are tried
          MaxRuleSets,      \* bound: revisions of the rules
          MaxPlaces         \* bound: drafts and moves

ASSUME CalendarAssumption ==
    /\ Planned \subseteq Int
    /\ Priority \in [Planned -> Int]
    /\ \A r \in Rules : r.zone \in Zones /\ AreRules(r)

ShortOf(s) == [id |-> s, priority |-> Priority[s], episode |-> Owner[s]]

\* Moves to other instants are refused under any of them.
Instants == UNION {legalSlots(r.zone, r) : r \in Rules}

VARIABLES rules,            \* by their revision
          calendar,         \* the entry of each Short
          places,           \* how many times an entry was given an instant
          shown,            \* on the screen: revisions of the rules and of the entries
          announced         \* of a published Short, the instant its client saw ({} before)

calendarVars == <<rules, calendar, places, shown, announced>>

NoPlan == [status |-> "none", at |-> 0, revision |-> 0, named |-> 0, under |-> 0, turn |-> 0]

Screen == [rules |-> Len(rules), entries |-> calendar]

CalendarInit ==
    /\ rules = <<>> /\ places = 0
    /\ calendar = [s \in Planned |-> NoPlan]
    /\ shown = [rules |-> 0, entries |-> calendar]
    /\ announced = [s \in Planned |-> {}]
-----------------------------------------------------------------------------
InForce == rules[Len(rules)]

Scheduled == {s \in Planned : calendar[s].status # "none"}

Occupied(S) == {[at |-> calendar[s].at, episode |-> ShortOf(s).episode] : s \in S}

Refresh ==
    /\ shown' = Screen
    /\ UNCHANGED <<rules, calendar, places, announced>>

\* Rules are created once, and then replaced at the revision the client names.
updateScheduleRules(screen, new) ==
    /\ screen.rules = Len(rules) /\ Len(rules) < MaxRuleSets
    /\ rules' = Append(rules, new)
    /\ UNCHANGED <<calendar, places, shown, announced>>

ExpectedRules(screen) == rules # <<>> /\ screen.rules = Len(rules)

\* named is the revision the client gave, under the one in force, and turn the
\* order in which entries were placed.
Placed(status, at, revision, named) ==
    [status |-> status, at |-> at, revision |-> revision, named |-> named,
     under |-> Len(rules), turn |-> places + 1]

draftEntries(screen, S) ==
    LET made == draftSchedule(InForce.zone, InForce, {ShortOf(s) : s \in S}, Occupied(Scheduled))
    IN  /\ ExpectedRules(screen) /\ places < MaxPlaces
        /\ S \cap Scheduled = {}
        /\ ~made.refused
        /\ calendar' = [s \in Planned |->
               IF s \in S
               THEN Placed("draft", (CHOOSE e \in made.entries : e.id = s).at, 1, screen.rules)
               ELSE calendar[s]]
        /\ places' = places + 1
        /\ UNCHANGED <<rules, shown, announced>>

ExpectedEntry(screen, s) == s \in Scheduled /\ screen.entries[s].revision = calendar[s].revision

Open(s) == calendar[s].status # "published"

moveScheduleEntry(screen, s, at) ==
    /\ ExpectedEntry(screen, s) /\ Open(s) /\ places < MaxPlaces
    /\ isLegalScheduleInstant(InForce.zone, InForce, at)
    /\ \A other \in Occupied(Scheduled \ {s}) :
         /\ other.at # at
         /\ other.episode = ShortOf(s).episode => Apart(other.at, at, InForce.spacing)
    /\ calendar' = [calendar EXCEPT ![s] = Placed("planned", at, @.revision + 1, 0)]
    /\ places' = places + 1
    /\ UNCHANGED <<rules, shown, announced>>

markPublished(screen, s) ==
    /\ ExpectedEntry(screen, s) /\ Open(s)
    /\ calendar' = [calendar EXCEPT ![s].status = "published", ![s].revision = @ + 1]
    /\ announced' = [announced EXCEPT ![s] = {screen.entries[s].at}]
    /\ UNCHANGED <<rules, places, shown>>

ClientStep(screen) ==
    \/ \E new \in Rules : updateScheduleRules(screen, new)
    \/ \E S \in (SUBSET Planned) \ {{}} : draftEntries(screen, S)
    \/ \E s \in Planned, at \in Instants : moveScheduleEntry(screen, s, at)
    \/ \E s \in Planned : markPublished(screen, s)

CalendarNext == Refresh \/ ClientStep(Screen) \/ ClientStep(shown)

CalendarSpec == CalendarInit /\ [][CalendarNext]_calendarVars
-----------------------------------------------------------------------------
SpacedUnderTheLater(s, t) ==
    calendar[s].turn <= calendar[t].turn =>
        Apart(calendar[s].at, calendar[t].at, rules[calendar[t].under].spacing)

\* No two entries share an instant, and Shorts of one Episode keep the spacing
\* of the rules under which the later was placed.  What a client drafted is
\* legal under the rules it saw, and what it published was due when it saw.
CalendarIsKept ==
    /\ \A s, t \in Scheduled : s # t =>
         /\ calendar[s].at # calendar[t].at
         /\ ShortOf(s).episode = ShortOf(t).episode => SpacedUnderTheLater(s, t)
    /\ \A s \in Scheduled : calendar[s].named # 0 =>
         LET seen == rules[calendar[s].named] IN isLegalScheduleInstant(seen.zone, seen, calendar[s].at)
    /\ \A s \in Planned : calendar[s].status = "published" => announced[s] = {calendar[s].at}
================================================================================
