----------------------------- MODULE ScheduleDraft -----------------------------
(***************************************************************************)
(* Drafts of the publication schedule (scheduler.ts) and the wall times of *)
(* a zone (schedule-time.ts): slots that the rules allow, resolved to      *)
(* instants across a change of the zone's offset, and given to the Shorts  *)
(* by priority.  The same rules are read backwards, from an instant to the *)
(* dates it may stand for, when an entry is edited or committed.           *)
(*                                                                         *)
(* Instants and wall times are hours; a zone is [change, before, after],   *)
(* an offset before and one from the instant of its change; rules have     *)
(* days, those left by start, weekdays and blackouts, times, spacing.      *)
(***************************************************************************)
EXTENDS Integers, Sequences, FiniteSets, FiniteSetsExt

CONSTANT DayHours

ASSUME DayAssumption == DayHours \in Nat \ {0}

\* No zone is more than a day from UTC.
Offsets == -DayHours..DayHours

Zones == [change : Int, before : Offsets, after : Offsets]

AreRules(rules) ==
    /\ rules.days \subseteq Int
    /\ rules.times \in Seq(0..(DayHours - 1))
    /\ rules.spacing \in Nat

offsetAt(zone, instant) == IF instant < zone.change THEN zone.before ELSE zone.after

LocalTime(zone, instant) == instant + offsetAt(zone, instant)

\* Every offset in force within three days of the wall time.
OffsetsNear(zone, desired) ==
    {offsetAt(zone, desired + h) : h \in -(3 * DayHours)..(3 * DayHours)}

\* A time that comes twice is the earlier one; a time that is skipped is
\* moved on by what was skipped.
resolveZonedWallTime(zone, day, time) ==
    LET desired    == day * DayHours + time
        offsets    == OffsetsNear(zone, desired)
        candidates == {i \in {desired - o : o \in offsets} : LocalTime(zone, i) = desired}
    IN  IF candidates # {} THEN Min(candidates) ELSE desired - Min(offsets)

SlotsOf(zone, rules, day) == {resolveZonedWallTime(zone, day, rules.times[k]) : k \in DOMAIN rules.times}

legalSlots(zone, rules) == UNION {SlotsOf(zone, rules, day) : day \in rules.days}

\* Mutant: only the date in UTC is tried.
SameDate == {0}

NearbyDates == {-1, 0, 1}

isLegalScheduleInstant(zone, rules, instant) ==
    \E near \in NearbyDates :
        LET day == instant \div DayHours + near
        IN  day \in rules.days /\ instant \in SlotsOf(zone, rules, day)

Apart(s, t, hours) == s - t >= hours \/ t - s >= hours

ByPriority(left, right) ==
    left.priority > right.priority \/ (left.priority = right.priority /\ left.id < right.id)

\* What is left to a Short beside these entries, each [at, episode].
FreeSlots(zone, rules, short, entries) ==
    {slot \in legalSlots(zone, rules) : \A e \in entries :
        /\ e.at # slot
        /\ e.episode = short.episode => Apart(slot, e.at, rules.spacing)}

EntriesOf(at, shorts) == {[at |-> at[s], episode |-> s.episode, id |-> s.id] : s \in shorts}

\* By priority, each Short is given the earliest slot that is free beside the
\* entries that stand and those of the Shorts before it.
GivenInTurn(zone, rules, shorts, occupied, at) ==
    \A short \in shorts :
        LET before == {s \in shorts : ByPriority(s, short)}
            free   == FreeSlots(zone, rules, short, occupied \cup EntriesOf(at, before))
        IN  at[short] \in free /\ \A slot \in free : at[short] <= slot

\* Without a slot for one Short the whole draft is refused.
draftSchedule(zone, rules, shorts, occupied) ==
    LET drafts == {at \in [shorts -> legalSlots(zone, rules)] :
                     GivenInTurn(zone, rules, shorts, occupied, at)}
    IN  [refused |-> drafts = {},
         entries |-> IF drafts = {} THEN {} ELSE EntriesOf(CHOOSE at \in drafts : TRUE, shorts)]
-----------------------------------------------------------------------------
\* A wall time becomes the first instant that shows it; one that no instant
\* shows is shown late, by what the change skipped.
WallTimesResolve(zone, rules) ==
    \A day \in rules.days, k \in DOMAIN rules.times :
        LET instant == resolveZonedWallTime(zone, day, rules.times[k])
            local   == LocalTime(zone, instant)
            desired == day * DayHours + rules.times[k]
        IN  \/ local = desired /\ \A i \in (instant - DayHours)..(instant - 1) : LocalTime(zone, i) # desired
            \/ /\ local = desired + zone.after - zone.before
               /\ \A i \in (desired - DayHours)..(desired + DayHours) : LocalTime(zone, i) # desired

\* A draft has every Short, at instants that the reading backwards accepts,
\* that are free, and that keep the spacing of their Episodes.
DraftIsLegal(zone, rules, shorts, occupied) ==
    LET draft == draftSchedule(zone, rules, shorts, occupied)
    IN  ~draft.refused =>
          /\ Cardinality(draft.entries) = Cardinality(shorts)
          /\ \A e \in draft.entries :
               /\ isLegalScheduleInstant(zone, rules, e.at)
               /\ \A other \in (draft.entries \ {e}) \cup occupied :
                    e.at # other.at /\ (e.episode = other.episode => Apart(e.at, other.at, rules.spacing))

ScheduleIsSound(zone, rules, shorts, occupied) ==
    WallTimesResolve(zone, rules) /\ DraftIsLegal(zone, rules, shorts, occupied)
=============================================================================
