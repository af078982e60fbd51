---------------------------- MODULE ProposalProofs ----------------------------
(***************************************************************************)
(* Proofs about what the application proposes and plans: Candidates, for   *)
(* any transcript, highlight and count; ScheduleDraft and Calendar, for    *)
(* any zone within a day of UTC, any rules and any Shorts.                 *)
(***************************************************************************)
EXTENDS Calendar, Candidates, CompositionProofs, FiniteSetTheorems, TLAPS

-----------------------------------------------------------------------------
(***************************************************************************)
(* Wall times.                                                             *)
(***************************************************************************)

LEMMA LeastOfTwo ==
    ASSUME NEW a \in Int, NEW b \in Int, NEW S \in SUBSET {a, b}, S # {}
    PROVE  Min(S) \in S /\ \A x \in S : Min(S) <= x
<1>1. \E x \in S : \A y \in S : x <= y
  <2>1. CASE a \in S /\ (b \in S => a <= b)
    BY <2>1
  <2>2. CASE b \in S /\ (a \in S => b <= a)
    BY <2>2
  <2>3. a \in S \/ b \in S
    OBVIOUS
  <2>4. a <= b \/ b <= a
    OBVIOUS
  <2>5. QED
    BY <2>1, <2>2, <2>3, <2>4
<1>2. QED
  BY <1>1 DEF Min

\* Dates are read back with \div.
LEMMA DateOf ==
    ASSUME NEW day \in Int, NEW hour \in 0..(DayHours - 1)
    PROVE  (day * DayHours + hour) \div DayHours = day
<1> DEFINE q == (day * DayHours + hour) \div DayHours
           m == (day * DayHours + hour) % DayHours
<1>1. DayHours \in Int /\ DayHours > 0 /\ day * DayHours \in Int /\ hour \in Int
  BY DayAssumption
<1>2. q \in Int /\ m \in 0..(DayHours - 1) /\ day * DayHours + hour = DayHours * q + m
  BY <1>1
<1> HIDE DEF q, m
<1>3. (q - day) * DayHours = hour - m
  BY <1>1, <1>2
<1>4. ~ (q - day >= 1)
  BY <1>1, <1>2, <1>3
<1>5. ~ (q - day <= -1)
  BY <1>1, <1>2, <1>3
<1>6. q = day
  BY <1>2, <1>4, <1>5
<1>7. QED
  BY <1>6 DEF q

\* The offsets that are tried, and what each would make of the wall time.
LEMMA TriedOffsets ==
    ASSUME NEW zone \in Zones, NEW desired \in Int
    PROVE  /\ OffsetsNear(zone, desired) \in SUBSET {zone.before, zone.after}
           /\ OffsetsNear(zone, desired) # {}
           /\ \A i \in Int : i - desired \in -(3 * DayHours)..(3 * DayHours) =>
                offsetAt(zone, i) \in OffsetsNear(zone, desired)
<1>1. DayHours \in Nat /\ zone.change \in Int
  BY DayAssumption DEF Zones
<1>2. ASSUME NEW i \in Int, i - desired \in -(3 * DayHours)..(3 * DayHours)
      PROVE  offsetAt(zone, i) \in OffsetsNear(zone, desired)
  <2>1. i = desired + (i - desired)
    OBVIOUS
  <2>2. QED
    BY <1>2, <2>1 DEF OffsetsNear
<1>3. 0 \in -(3 * DayHours)..(3 * DayHours)
  BY <1>1
<1>4. offsetAt(zone, desired) \in OffsetsNear(zone, desired)
  BY <1>2, <1>3
<1>5. OffsetsNear(zone, desired) \in SUBSET {zone.before, zone.after}
  BY DEF OffsetsNear, offsetAt
<1>6. QED
  BY <1>2, <1>4, <1>5

\* What a wall time resolves to: the earlier of the instants that show it, or,
\* where the change skips it, the instant by the offset before the change.
LEMMA Resolution ==
    ASSUME NEW zone \in Zones, NEW day \in Int, NEW time \in 0..(DayHours - 1),
           NEW desired \in Int, desired = day * DayHours + time,
           NEW instant, instant = resolveZonedWallTime(zone, day, time)
    PROVE  /\ instant \in {desired - zone.before, desired - zone.after}
           /\ \/ /\ LocalTime(zone, instant) = desired
                 /\ \A i \in (desired - DayHours)..(desired + DayHours) :
                      LocalTime(zone, i) = desired => instant <= i
              \/ /\ LocalTime(zone, instant) = desired + zone.after - zone.before
                 /\ \A i \in (desired - DayHours)..(desired + DayHours) :
                      LocalTime(zone, i) # desired
<1> DEFINE offsets    == OffsetsNear(zone, desired)
           candidates == {i \in {desired - o : o \in offsets} : LocalTime(zone, i) = desired}
<1>1. /\ zone.change \in Int /\ DayHours \in Nat
      /\ zone.before \in Int /\ -DayHours <= zone.before /\ zone.before <= DayHours
      /\ zone.after \in Int /\ -DayHours <= zone.after /\ zone.after <= DayHours
  BY DayAssumption DEF Zones, Offsets
<1>2. /\ offsets \in SUBSET {zone.before, zone.after} /\ offsets # {}
      /\ \A i \in Int : i - desired \in -(3 * DayHours)..(3 * DayHours) =>
                offsetAt(zone, i) \in offsets
  BY TriedOffsets
<1>3. instant = IF candidates # {} THEN Min(candidates) ELSE desired - Min(offsets)
  BY DEF resolveZonedWallTime
<1>4. ASSUME NEW i \in Int, i - desired \in -(3 * DayHours)..(3 * DayHours),
             LocalTime(zone, i) = desired
      PROVE  i \in candidates
  <2>1. offsetAt(zone, i) \in offsets
    BY <1>2, <1>4
  <2>2. offsetAt(zone, i) \in Int /\ i + offsetAt(zone, i) = desired
    BY <1>1, <1>4 DEF offsetAt, LocalTime
  <2>3. i = desired - offsetAt(zone, i)
    BY <2>2
  <2>4. QED
    BY <1>4, <2>1, <2>3
<1>5. candidates \in SUBSET {desired - zone.before, desired - zone.after}
  BY <1>2
<1>6. \A i \in candidates : LocalTime(zone, i) = desired
  OBVIOUS
<1> HIDE DEF offsets, candidates
<1>7. ASSUME NEW i \in (desired - DayHours)..(desired + DayHours)
      PROVE  i \in Int /\ i - desired \in -(3 * DayHours)..(3 * DayHours)
  BY <1>1, <1>7
<1>8. CASE candidates # {}
  <2>1. instant \in candidates /\ \A i \in candidates : instant <= i
    <3>1. PICK a \in Int : a = desired - zone.before
      BY <1>1
    <3>2. PICK b \in Int : b = desired - zone.after
      BY <1>1
    <3>3. candidates \in SUBSET {a, b}
      BY <1>5, <3>1, <3>2
    <3>4. Min(candidates) \in candidates /\ \A i \in candidates : Min(candidates) <= i
      BY <1>8, <3>3, LeastOfTwo
    <3>5. QED
      BY <1>3, <1>8, <3>4
  <2>2. \A i \in (desired - DayHours)..(desired + DayHours) :
          LocalTime(zone, i) = desired => instant <= i
    BY <1>4, <1>7, <2>1
  <2>3. QED
    BY <1>5, <1>6, <2>1, <2>2
<1>9. CASE candidates = {}
  <2>1. instant = desired - Min(offsets) /\ Min(offsets) \in offsets
        /\ \A o \in offsets : Min(offsets) <= o
    BY <1>1, <1>2, <1>3, <1>9, LeastOfTwo
  <2>2. \A i \in Int : i - desired \in -(3 * DayHours)..(3 * DayHours) =>
          LocalTime(zone, i) # desired
    BY <1>4, <1>9
  <2>3. /\ LocalTime(zone, desired - zone.before) # desired
        /\ LocalTime(zone, desired - zone.after) # desired
    BY <1>1, <2>2
  <2>4. /\ desired - zone.before >= zone.change /\ desired - zone.after < zone.change
    BY <1>1, <2>3 DEF LocalTime, offsetAt
  <2>5. desired - 3 * DayHours < zone.change /\ zone.change <= desired + 3 * DayHours
    BY <1>1, <2>4
  <2>6. zone.before \in offsets
    <3>1. offsetAt(zone, desired - 3 * DayHours) \in offsets
      BY <1>1, <1>2
    <3>2. QED
      BY <1>1, <2>5, <3>1 DEF offsetAt
  <2>7. Min(offsets) = zone.before
    BY <1>1, <1>2, <2>1, <2>4, <2>6
  <2>8. LocalTime(zone, instant) = desired + zone.after - zone.before
    BY <1>1, <2>1, <2>4, <2>7 DEF LocalTime, offsetAt
  <2>9. QED
    BY <1>1, <1>7, <2>1, <2>2, <2>7, <2>8
<1>10. QED
  BY <1>8, <1>9

LEMMA WallTimeInstants ==
    ASSUME NEW zone \in Zones, NEW r, AreRules(r), NEW day \in r.days,
           NEW k \in DOMAIN r.times
    PROVE  /\ day \in Int /\ r.times[k] \in 0..(DayHours - 1)
           /\ day * DayHours + r.times[k] \in Int
           /\ resolveZonedWallTime(zone, day, r.times[k]) \in Int
<1>1. day \in Int /\ r.times[k] \in 0..(DayHours - 1) /\ DayHours \in Int
  BY DayAssumption DEF AreRules
<1>2. PICK time \in 0..(DayHours - 1) : time = r.times[k]
  BY <1>1
<1>3. PICK desired \in Int : desired = day * DayHours + time
  BY <1>1
<1>4. PICK instant : instant = resolveZonedWallTime(zone, day, time)
  OBVIOUS
<1>5. instant \in {desired - zone.before, desired - zone.after}
  BY <1>1, <1>3, <1>4, Resolution
<1>6. instant \in Int
  BY <1>5 DEF Zones, Offsets
<1>7. QED
  BY <1>1, <1>2, <1>3, <1>4, <1>6

\* Every wall time the rules name becomes the first instant that shows it, or
\* is shown late by what a change of the offset skipped (resolveZonedWallTime).
THEOREM WallTimesAreResolved ==
    ASSUME NEW zone \in Zones, NEW r, AreRules(r)
    PROVE  WallTimesResolve(zone, r)
<1> SUFFICES ASSUME NEW day \in r.days, NEW k \in DOMAIN r.times
             PROVE  LET instant == resolveZonedWallTime(zone, day, r.times[k])
                        local   == LocalTime(zone, instant)
                        desired == day * DayHours + r.times[k]
                    IN  \/ /\ local = desired
                           /\ \A i \in (instant - DayHours)..(instant - 1) :
                                LocalTime(zone, i) # desired
                        \/ /\ local = desired + zone.after - zone.before
                           /\ \A i \in (desired - DayHours)..(desired + DayHours) :
                                LocalTime(zone, i) # desired
  BY DEF WallTimesResolve
<1>1. PICK time \in 0..(DayHours - 1) : time = r.times[k]
  BY WallTimeInstants
<1>2. PICK desired \in Int : desired = day * DayHours + time
  BY <1>1, WallTimeInstants
<1>3. PICK instant \in Int : instant = resolveZonedWallTime(zone, day, time)
  BY <1>1, WallTimeInstants
<1>4. day \in Int
  BY WallTimeInstants
<1>5. CASE /\ LocalTime(zone, instant) = desired + zone.after - zone.before
           /\ \A i \in (desired - DayHours)..(desired + DayHours) : LocalTime(zone, i) # desired
  BY <1>1, <1>2, <1>3, <1>5
<1>6. CASE /\ LocalTime(zone, instant) = desired
           /\ \A i \in (desired - DayHours)..(desired + DayHours) :
                LocalTime(zone, i) = desired => instant <= i
  <2>1. /\ zone.before \in Int /\ zone.after \in Int /\ DayHours \in Nat
        /\ -DayHours <= zone.before /\ zone.before <= DayHours
        /\ -DayHours <= zone.after /\ zone.after <= DayHours
    BY DayAssumption DEF Zones, Offsets
  <2>2. ASSUME NEW i \in (instant - DayHours)..(instant - 1), LocalTime(zone, i) = desired
        PROVE  FALSE
    <3>1. i \in Int /\ i < instant
      BY <2>1, <2>2
    <3>2. i \in (desired - DayHours)..(desired + DayHours)
      BY <2>1, <2>2, <3>1 DEF LocalTime, offsetAt
    <3>3. instant <= i
      BY <1>6, <2>2, <3>2
    <3>4. QED
      BY <3>1, <3>3
  <2>3. QED
    BY <1>1, <1>2, <1>3, <1>6, <2>2
<1>7. QED
  BY <1>2, <1>3, <1>4, <1>5, <1>6, Resolution
-----------------------------------------------------------------------------
(***************************************************************************)
(* Slots and drafts.                                                       *)
(***************************************************************************)

\* An instant lies on the date of its wall time, or on one beside it.
LEMMA SlotsAreLegal ==
    ASSUME NEW zone \in Zones, NEW r, AreRules(r), NEW slot \in legalSlots(zone, r)
    PROVE  slot \in Int /\ isLegalScheduleInstant(zone, r, slot)
<1>1. PICK day \in r.days : slot \in SlotsOf(zone, r, day)
  BY DEF legalSlots
<1>2. PICK k \in DOMAIN r.times : slot = resolveZonedWallTime(zone, day, r.times[k])
  BY <1>1 DEF SlotsOf
<1>3. PICK time \in 0..(DayHours - 1) : time = r.times[k]
  BY WallTimeInstants
<1>4. PICK desired \in Int : desired = day * DayHours + time
  BY <1>3, WallTimeInstants
<1>5. slot \in Int /\ day \in Int
  BY <1>2, WallTimeInstants
<1>6. slot \in {desired - zone.before, desired - zone.after}
  BY <1>2, <1>3, <1>4, <1>5, Resolution
<1>7. /\ zone.before \in Int /\ zone.after \in Int /\ DayHours \in Nat /\ DayHours > 0
      /\ -DayHours <= zone.before /\ zone.before <= DayHours
      /\ -DayHours <= zone.after /\ zone.after <= DayHours
  BY DayAssumption DEF Zones, Offsets
<1>8. PICK offset \in Int : /\ slot = desired - offset
                            /\ -DayHours <= offset /\ offset <= DayHours
  BY <1>6, <1>7
<1>9. PICK near \in NearbyDates : day = slot \div DayHours + near
  <2>1. CASE time - offset < 0
    <3>1. time - offset + DayHours \in 0..(DayHours - 1) /\ day - 1 \in Int
      BY <1>5, <1>7, <1>8, <2>1
    <3>2. slot = (day - 1) * DayHours + (time - offset + DayHours)
      BY <1>4, <1>5, <1>7, <1>8
    <3>3. slot \div DayHours = day - 1
      BY <3>1, <3>2, DateOf
    <3>4. QED
      BY <1>5, <3>3 DEF NearbyDates
  <2>2. CASE time - offset >= 0 /\ time - offset < DayHours
    <3>1. time - offset \in 0..(DayHours - 1)
      BY <1>7, <1>8, <2>2
    <3>2. slot = day * DayHours + (time - offset)
      BY <1>4, <1>5, <1>7, <1>8
    <3>3. slot \div DayHours = day
      BY <1>5, <3>1, <3>2, DateOf
    <3>4. QED
      BY <1>5, <3>3 DEF NearbyDates
  <2>3. CASE time - offset >= DayHours
    <3>1. time - offset - DayHours \in 0..(DayHours - 1) /\ day + 1 \in Int
      BY <1>5, <1>7, <1>8, <2>3
    <3>2. slot = (day + 1) * DayHours + (time - offset - DayHours)
      BY <1>4, <1>5, <1>7, <1>8
    <3>3. slot \div DayHours = day + 1
      BY <3>1, <3>2, DateOf
    <3>4. QED
      BY <1>5, <3>3 DEF NearbyDates
  <2>4. QED
    BY <1>7, <1>8, <2>1, <2>2, <2>3
<1>10. QED
  BY <1>1, <1>5, <1>9 DEF isLegalScheduleInstant

LEMMA ApartIsMutual ==
    ASSUME NEW s, NEW t, NEW hours PROVE Apart(s, t, hours) <=> Apart(t, s, hours)
BY DEF Apart

\* What makes Shorts a list that can be put in order.
Orderable(shorts) ==
    /\ \A s \in shorts : s.id \in Int /\ s.priority \in Int
    /\ \A s, t \in shorts : s # t => s.id # t.id

\* The instants of a draft that is not refused.
LEMMA DraftedInTurn ==
    ASSUME NEW zone, NEW r, NEW shorts, NEW occupied,
           ~draftSchedule(zone, r, shorts, occupied).refused
    PROVE  \E at \in [shorts -> legalSlots(zone, r)] :
             /\ GivenInTurn(zone, r, shorts, occupied, at)
             /\ draftSchedule(zone, r, shorts, occupied).entries = EntriesOf(at, shorts)
<1> DEFINE drafts == {at \in [shorts -> legalSlots(zone, r)] :
                        GivenInTurn(zone, r, shorts, occupied, at)}
           chosen == CHOOSE at \in drafts : TRUE
<1>1. drafts # {} /\ draftSchedule(zone, r, shorts, occupied).entries
                       = EntriesOf(chosen, shorts)
  BY DEF draftSchedule
<1>2. chosen \in drafts
  BY <1>1
<1>3. QED
  BY <1>1, <1>2

\* Two Shorts of a draft, and a Short and an entry that stands.
LEMMA DraftKeepsApart ==
    ASSUME NEW zone \in Zones, NEW r, AreRules(r), NEW shorts, Orderable(shorts),
           NEW occupied, NEW at \in [shorts -> legalSlots(zone, r)],
           GivenInTurn(zone, r, shorts, occupied, at)
    PROVE  /\ \A s \in shorts, o \in occupied :
                /\ at[s] # o.at
                /\ o.episode = s.episode => Apart(at[s], o.at, r.spacing)
           /\ \A s, t \in shorts : s # t =>
                /\ at[s] # at[t]
                /\ s.episode = t.episode => Apart(at[s], at[t], r.spacing)
<1>1. ASSUME NEW s \in shorts,
             NEW e \in occupied \cup EntriesOf(at, {t \in shorts : ByPriority(t, s)})
      PROVE  at[s] # e.at /\ (e.episode = s.episode => Apart(at[s], e.at, r.spacing))
  BY <1>1 DEF GivenInTurn, FreeSlots
<1>2. ASSUME NEW s \in shorts, NEW t \in shorts, ByPriority(t, s)
      PROVE  /\ at[s] # at[t]
             /\ s.episode = t.episode => Apart(at[s], at[t], r.spacing)
  <2> DEFINE e == [at |-> at[t], episode |-> t.episode, id |-> t.id]
  <2>1. e \in EntriesOf(at, {u \in shorts : ByPriority(u, s)})
    BY <1>2 DEF EntriesOf
  <2>2. e.at = at[t] /\ e.episode = t.episode
    OBVIOUS
  <2>3. QED
    BY <1>1, <2>1, <2>2
<1>3. ASSUME NEW s \in shorts, NEW t \in shorts, s # t
      PROVE  ByPriority(s, t) \/ ByPriority(t, s)
  BY <1>3 DEF Orderable, ByPriority
<1>4. ASSUME NEW s \in shorts, NEW t \in shorts, s # t
      PROVE  /\ at[s] # at[t]
             /\ s.episode = t.episode => Apart(at[s], at[t], r.spacing)
  BY <1>2, <1>3, <1>4, ApartIsMutual
<1>5. QED
  BY <1>1, <1>4

\* A draft that is not refused gives every Short one instant that the rules,
\* read backwards, allow, that nobody has and that keeps the spacing of its
\* Episode (draftSchedule, isLegalScheduleInstant).
THEOREM DraftsAreLegal ==
    ASSUME NEW zone \in Zones, NEW r, AreRules(r), NEW shorts, Orderable(shorts),
           IsFiniteSet(shorts), NEW occupied
    PROVE  DraftIsLegal(zone, r, shorts, occupied)
<1> SUFFICES ASSUME ~draftSchedule(zone, r, shorts, occupied).refused
             PROVE  LET entries == draftSchedule(zone, r, shorts, occupied).entries
                    IN  /\ Cardinality(entries) = Cardinality(shorts)
                        /\ \A e \in entries :
                             /\ isLegalScheduleInstant(zone, r, e.at)
                             /\ \A other \in (entries \ {e}) \cup occupied :
                                  /\ e.at # other.at
                                  /\ e.episode = other.episode =>
                                       Apart(e.at, other.at, r.spacing)
  BY DEF DraftIsLegal
<1>1. PICK at \in [shorts -> legalSlots(zone, r)] :
             /\ GivenInTurn(zone, r, shorts, occupied, at)
             /\ draftSchedule(zone, r, shorts, occupied).entries = EntriesOf(at, shorts)
  BY DraftedInTurn
<1> DEFINE entry(s) == [at |-> at[s], episode |-> s.episode, id |-> s.id]
           entries  == EntriesOf(at, shorts)
<1>2. entries = {entry(s) : s \in shorts}
  BY DEF EntriesOf
<1>3. \A s \in shorts : entry(s).at = at[s] /\ entry(s).episode = s.episode /\ entry(s).id = s.id
  OBVIOUS
<1>4. \A s, t \in shorts : s # t => entry(s) # entry(t)
  BY <1>3 DEF Orderable
<1>5. Cardinality(entries) = Cardinality(shorts)
  <2> DEFINE f == [s \in shorts |-> entry(s)]
  <2>1. f \in Bijection(shorts, entries)
    BY <1>2, <1>4 DEF Bijection, Injection, Surjection, IsInjective
  <2>2. QED
    BY <2>1, FS_Bijection DEF ExistsBijection
<1>6. \A e \in entries : isLegalScheduleInstant(zone, r, e.at)
  BY <1>1, <1>2, <1>3, SlotsAreLegal
<1> HIDE DEF entry, entries
<1>7. ASSUME NEW e \in entries, NEW other \in (entries \ {e}) \cup occupied
      PROVE  /\ e.at # other.at
             /\ e.episode = other.episode => Apart(e.at, other.at, r.spacing)
  <2>1. PICK s \in shorts : e = entry(s)
    BY <1>2
  <2>2. CASE other \in occupied
    BY <1>1, <1>3, <2>1, <2>2, DraftKeepsApart
  <2>3. CASE other \in entries /\ other # e
    <3>1. PICK t \in shorts : other = entry(t)
      BY <1>2, <2>3
    <3>2. s # t
      BY <2>1, <2>3, <3>1
    <3>3. QED
      BY <1>1, <1>3, <2>1, <3>1, <3>2, DraftKeepsApart
  <2>4. QED
    BY <1>7, <2>2, <2>3
<1>8. QED
  BY <1>1, <1>5, <1>6, <1>7 DEF entries

\* The two together: what the run checks on small zones and rules.
THEOREM SchedulesAreSound ==
    ASSUME NEW zone \in Zones, NEW r, AreRules(r), NEW shorts, Orderable(shorts),
           IsFiniteSet(shorts), NEW occupied
    PROVE  ScheduleIsSound(zone, r, shorts, occupied)
BY WallTimesAreResolved, DraftsAreLegal DEF ScheduleIsSound
-----------------------------------------------------------------------------
(***************************************************************************)
(* The calendar.  CalendarIsKept speaks of the rules an entry was placed   *)
(* under and of what a client saw, so the invariant says that both exist   *)
(* (RowsAreRead) and that a screen which shows the revision of an entry    *)
(* shows its instant (ScreenIsTrue): a call is refused otherwise.          *)
(***************************************************************************)
PlanRow == [status : {"none", "draft", "planned", "published"}, at : Int, revision : Nat,
            named : Nat, under : Nat, turn : Nat]

CalendarTypes ==
    /\ rules \in Seq(Rules)
    /\ calendar \in [Planned -> PlanRow]
    /\ places \in Nat
    /\ shown \in [rules : Nat, entries : [Planned -> PlanRow]]
    /\ announced \in [Planned -> SUBSET Int]

RowsAreRead ==
    \A s \in Planned :
        /\ calendar[s].status = "none" => calendar[s] = NoPlan
        /\ calendar[s].status # "none" =>
             /\ calendar[s].under \in 1..Len(rules)
             /\ calendar[s].turn \in 1..places
        /\ calendar[s].named # 0 =>
             /\ calendar[s].named \in 1..Len(rules)
             /\ isLegalScheduleInstant(rules[calendar[s].named].zone,
                                       rules[calendar[s].named], calendar[s].at)

TrueOf(row, entry) == row.revision <= entry.revision
                      /\ (row.revision = entry.revision => row.at = entry.at)

ScreenIsTrue == \A s \in Planned : TrueOf(shown.entries[s], calendar[s])

SpacedBeside(s, t) ==
    /\ calendar[s].at # calendar[t].at
    /\ ShortOf(s).episode = ShortOf(t).episode => SpacedUnderTheLater(s, t)

EntriesAreApart == \A s, t \in Scheduled : s # t => SpacedBeside(s, t)

PublicationsWereSeen ==
    \A s \in Planned : calendar[s].status = "published" => announced[s] = {calendar[s].at}

CalendarInv ==
    CalendarTypes /\ RowsAreRead /\ ScreenIsTrue /\ EntriesAreApart /\ PublicationsWereSeen

LEMMA NoPlanRow == NoPlan \in PlanRow
BY DEF NoPlan, PlanRow

LEMMA InitCalendar == CalendarInit => CalendarInv
<1> SUFFICES ASSUME CalendarInit PROVE CalendarInv
  OBVIOUS
<1>1. \A s \in Planned : calendar[s] = NoPlan /\ shown.entries[s] = NoPlan
  BY DEF CalendarInit
<1>2. CalendarTypes
  BY NoPlanRow DEF CalendarInit, CalendarTypes
<1>3. RowsAreRead /\ ScreenIsTrue /\ EntriesAreApart /\ PublicationsWereSeen
  BY <1>1 DEF RowsAreRead, ScreenIsTrue, TrueOf, EntriesAreApart, PublicationsWereSeen,
              Scheduled, NoPlan
<1>4. QED
  BY <1>2, <1>3 DEF CalendarInv

LEMMA RefreshCalendar == ASSUME CalendarInv, Refresh PROVE CalendarInv'
<1>1. CalendarTypes /\ UNCHANGED <<rules, calendar, places, announced>>
  BY DEF CalendarInv, Refresh
<1>2. shown'.entries = calendar /\ shown'.rules = Len(rules)
  BY DEF Refresh, Screen
<1>3. CalendarTypes'
  BY <1>1 DEF CalendarTypes, Refresh, Screen
<1>4. ScreenIsTrue'
  BY <1>1, <1>2 DEF ScreenIsTrue, TrueOf, CalendarTypes, PlanRow
<1>5. RowsAreRead' /\ EntriesAreApart' /\ PublicationsWereSeen'
  BY <1>1 DEF CalendarInv, RowsAreRead, EntriesAreApart, PublicationsWereSeen, Scheduled,
              SpacedBeside, SpacedUnderTheLater
<1>6. QED
  BY <1>3, <1>4, <1>5 DEF CalendarInv

\* Rules are only added: what an entry was read under stays.
LEMMA RulesCalendar ==
    ASSUME CalendarInv, NEW screen, NEW new \in Rules, updateScheduleRules(screen, new)
    PROVE  CalendarInv'
<1>1. CalendarTypes /\ UNCHANGED <<calendar, places, shown, announced>>
  BY DEF CalendarInv, updateScheduleRules
<1>2. /\ rules' \in Seq(Rules) /\ Len(rules') = Len(rules) + 1 /\ Len(rules) \in Nat
      /\ \A k \in 1..Len(rules) : rules'[k] = rules[k]
  BY <1>1 DEF CalendarTypes, updateScheduleRules
<1>3. CalendarTypes'
  BY <1>1, <1>2 DEF CalendarTypes
<1>4. RowsAreRead'
  <2> SUFFICES ASSUME NEW s \in Planned
      PROVE /\ calendar[s].status = "none" => calendar[s] = NoPlan
            /\ calendar[s].status # "none" =>
                 /\ calendar[s].under \in 1..Len(rules')
                 /\ calendar[s].turn \in 1..places
            /\ calendar[s].named # 0 =>
                 /\ calendar[s].named \in 1..Len(rules')
                 /\ isLegalScheduleInstant(rules'[calendar[s].named].zone,
                                           rules'[calendar[s].named], calendar[s].at)
    BY <1>1 DEF RowsAreRead
  <2>1. /\ calendar[s].status = "none" => calendar[s] = NoPlan
        /\ calendar[s].status # "none" =>
             calendar[s].under \in 1..Len(rules') /\ calendar[s].turn \in 1..places
    BY <1>2 DEF CalendarInv, RowsAreRead
  <2>2. calendar[s].named # 0 =>
          /\ calendar[s].named \in 1..Len(rules')
          /\ rules'[calendar[s].named] = rules[calendar[s].named]
          /\ isLegalScheduleInstant(rules[calendar[s].named].zone,
                                    rules[calendar[s].named], calendar[s].at)
    BY <1>2 DEF CalendarInv, RowsAreRead
  <2>3. QED
    BY <2>1, <2>2
<1>5. EntriesAreApart'
  <2>1. ASSUME NEW s \in Scheduled, NEW t \in Scheduled, s # t PROVE SpacedBeside(s, t)'
    <3>1. SpacedBeside(s, t)
      BY <2>1 DEF CalendarInv, EntriesAreApart
    <3>2. calendar[t].under \in 1..Len(rules)
      BY DEF CalendarInv, RowsAreRead, Scheduled
    <3>3. rules'[calendar[t].under] = rules[calendar[t].under]
      BY <1>2, <3>2
    <3>4. QED
      BY <1>1, <3>1, <3>3 DEF SpacedBeside, SpacedUnderTheLater
  <2>2. Scheduled' = Scheduled
    BY <1>1 DEF Scheduled
  <2>3. QED
    BY <2>1, <2>2 DEF EntriesAreApart
<1>6. ScreenIsTrue' /\ PublicationsWereSeen'
  BY <1>1 DEF CalendarInv, ScreenIsTrue, PublicationsWereSeen
<1>7. QED
  BY <1>3, <1>4, <1>5, <1>6 DEF CalendarInv

\* Entries are given instants: by a draft to several Shorts, by a move to one.
LEMMA PlacingCalendar ==
    ASSUME CalendarInv, rules # <<>>, NEW S \in SUBSET Planned,
           UNCHANGED <<rules, shown, announced>>, places' = places + 1,
           calendar' \in [Planned -> PlanRow],
           \A s \in Planned \ S : calendar'[s] = calendar[s],
           \A s \in S : /\ calendar'[s].status \in {"draft", "planned"}
                        /\ calendar'[s].under = Len(rules)
                        /\ calendar'[s].turn = places + 1
                        /\ calendar'[s].revision > calendar[s].revision
                        /\ calendar'[s].named # 0 =>
                             /\ calendar'[s].named = Len(rules)
                             /\ isLegalScheduleInstant(InForce.zone, InForce, calendar'[s].at),
           \A s \in S : \A t \in (Scheduled \cup S) \ {s} :
             /\ calendar'[s].at # calendar'[t].at
             /\ ShortOf(s).episode = ShortOf(t).episode =>
                  Apart(calendar'[s].at, calendar'[t].at, InForce.spacing)
    PROVE  CalendarInv'
<1>1. CalendarTypes /\ RowsAreRead /\ Len(rules) \in Nat /\ Len(rules) \in 1..Len(rules)
      /\ places \in Nat
  BY DEF CalendarInv, CalendarTypes
<1>2. CalendarTypes'
  BY <1>1 DEF CalendarTypes
<1>3. RowsAreRead'
  <2> SUFFICES ASSUME NEW s \in Planned
      PROVE /\ calendar'[s].status = "none" => calendar'[s] = NoPlan
            /\ calendar'[s].status # "none" =>
                 /\ calendar'[s].under \in 1..Len(rules)
                 /\ calendar'[s].turn \in 1..(places + 1)
            /\ calendar'[s].named # 0 =>
                 /\ calendar'[s].named \in 1..Len(rules)
                 /\ isLegalScheduleInstant(rules[calendar'[s].named].zone,
                                           rules[calendar'[s].named], calendar'[s].at)
    BY DEF RowsAreRead
  <2>1. CASE s \in S
    BY <1>1, <2>1 DEF InForce
  <2>2. CASE s \notin S
    <3>1. calendar'[s] = calendar[s]
      BY <2>2
    <3>2. 1..places \subseteq 1..(places + 1)
      BY <1>1
    <3>3. QED
      BY <1>1, <3>1, <3>2 DEF RowsAreRead
  <2>3. QED
    BY <2>1, <2>2
<1>4. ScreenIsTrue'
  <2> SUFFICES ASSUME NEW s \in Planned PROVE TrueOf(shown.entries[s], calendar'[s])
    BY DEF ScreenIsTrue
  <2>1. TrueOf(shown.entries[s], calendar[s])
    BY DEF CalendarInv, ScreenIsTrue
  <2>2. CASE s \in S
    <3>1. /\ shown.entries[s].revision \in Nat /\ calendar[s].revision \in Nat
          /\ calendar'[s].revision \in Nat
      BY <1>1 DEF CalendarTypes, PlanRow
    <3>2. calendar'[s].revision > calendar[s].revision
      BY <2>2
    <3>3. QED
      BY <2>1, <3>1, <3>2 DEF TrueOf
  <2>3. CASE s \notin S
    BY <2>1, <2>3
  <2>4. QED
    BY <2>2, <2>3
<1>5. EntriesAreApart'
  <2>1. Scheduled' = Scheduled \cup S
    BY DEF Scheduled
  <2>2. ASSUME NEW s \in Scheduled \cup S, NEW t \in Scheduled \cup S, s # t
        PROVE  SpacedBeside(s, t)'
    <3>1. s \in Planned /\ t \in Planned
      BY DEF Scheduled
    <3>2. CASE s \in S /\ t \in S
      BY <2>2, <3>2 DEF SpacedBeside, SpacedUnderTheLater, InForce
    <3>3. CASE s \notin S /\ t \in S
      <4>1. calendar'[s].at # calendar'[t].at
        BY <2>2, <3>3
      <4>2. ShortOf(s).episode = ShortOf(t).episode =>
              Apart(calendar'[s].at, calendar'[t].at, InForce.spacing)
        BY <2>2, <3>3, ApartIsMutual
      <4>3. QED
        BY <3>3, <4>1, <4>2 DEF SpacedBeside, SpacedUnderTheLater, InForce, ShortOf
    <3>4. CASE s \in S /\ t \notin S
      <4>1. calendar'[s].at # calendar'[t].at
        BY <2>2, <3>4
      <4>2. calendar'[t] = calendar[t] /\ calendar[t].turn \in 1..places
        BY <1>1, <3>1, <3>4, <2>2 DEF RowsAreRead, Scheduled
      <4>3. ~(calendar'[s].turn <= calendar'[t].turn)
        BY <1>1, <3>4, <4>2
      <4>4. QED
        BY <4>1, <4>3 DEF SpacedBeside, SpacedUnderTheLater
    <3>5. CASE s \notin S /\ t \notin S
      <4>1. calendar'[s] = calendar[s] /\ calendar'[t] = calendar[t]
        BY <3>1, <3>5
      <4>2. SpacedBeside(s, t)
        BY <2>2, <3>5 DEF CalendarInv, EntriesAreApart
      <4>3. QED
        BY <4>1, <4>2 DEF SpacedBeside, SpacedUnderTheLater
    <3>6. QED
      BY <3>2, <3>3, <3>4, <3>5
  <2>3. QED
    BY <2>1, <2>2 DEF EntriesAreApart
<1>6. PublicationsWereSeen'
  BY DEF CalendarInv, PublicationsWereSeen
<1>7. QED
  BY <1>2, <1>3, <1>4, <1>5, <1>6 DEF CalendarInv

LEMMA RulesInForce ==
    ASSUME CalendarTypes, rules # <<>>
    PROVE  InForce.zone \in Zones /\ AreRules(InForce)
<1>1. InForce \in Rules
  BY DEF CalendarTypes, InForce
<1>2. QED
  BY <1>1, CalendarAssumption

LEMMA DraftCalendar ==
    ASSUME CalendarInv, NEW screen, NEW S \in SUBSET Planned, draftEntries(screen, S)
    PROVE  CalendarInv'
<1> DEFINE shorts == {ShortOf(s) : s \in S}
           made   == draftSchedule(InForce.zone, InForce, shorts, Occupied(Scheduled))
           given(s) == (CHOOSE e \in made.entries : e.id = s).at
<1>1. /\ CalendarTypes /\ RowsAreRead /\ rules # <<>> /\ screen.rules = Len(rules)
      /\ S \cap Scheduled = {} /\ ~made.refused
      /\ UNCHANGED <<rules, shown, announced>> /\ places' = places + 1
      /\ calendar' = [s \in Planned |->
           IF s \in S THEN Placed("draft", given(s), 1, screen.rules) ELSE calendar[s]]
  BY DEF CalendarInv, draftEntries, ExpectedRules
<1>2. \A s \in Planned : /\ ShortOf(s).id = s /\ ShortOf(s).priority \in Int /\ s \in Int
                         /\ ShortOf(s).episode = Owner[s]
  BY CalendarAssumption DEF ShortOf
<1>3. Orderable(shorts)
  BY <1>2 DEF Orderable
<1>4. PICK at \in [shorts -> legalSlots(InForce.zone, InForce)] :
             /\ GivenInTurn(InForce.zone, InForce, shorts, Occupied(Scheduled), at)
             /\ made.entries = EntriesOf(at, shorts)
  <2>1. ~made.refused
    BY <1>1
  <2> HIDE DEF shorts
  <2>2. QED
    BY <2>1, DraftedInTurn
<1>5. ASSUME NEW s \in S PROVE given(s) = at[ShortOf(s)] /\ ShortOf(s) \in shorts
  <2> DEFINE e == [at |-> at[ShortOf(s)], episode |-> ShortOf(s).episode,
                   id |-> ShortOf(s).id]
  <2>1. e \in made.entries /\ e.id = s
    BY <1>2, <1>4 DEF EntriesOf
  <2>2. ASSUME NEW d \in made.entries, d.id = s PROVE d.at = at[ShortOf(s)]
    <3>1. PICK u \in S : d = [at |-> at[ShortOf(u)], episode |-> ShortOf(u).episode,
                              id |-> ShortOf(u).id]
      BY <1>4 DEF EntriesOf
    <3>2. u = s
      BY <1>2, <2>2, <3>1
    <3>3. QED
      BY <3>1, <3>2
  <2> HIDE DEF e, made
  <2>3. QED
    BY <2>1, <2>2
<1> HIDE DEF made, given
<1>6. InForce.zone \in Zones /\ AreRules(InForce)
  BY <1>1, RulesInForce
<1>7. ASSUME NEW s \in S
      PROVE  /\ given(s) \in Int /\ isLegalScheduleInstant(InForce.zone, InForce, given(s))
  BY <1>4, <1>5, <1>6, SlotsAreLegal
<1>8. /\ \A s \in shorts, o \in Occupied(Scheduled) :
           /\ at[s] # o.at
           /\ o.episode = s.episode => Apart(at[s], o.at, InForce.spacing)
      /\ \A s, t \in shorts : s # t =>
           /\ at[s] # at[t]
           /\ s.episode = t.episode => Apart(at[s], at[t], InForce.spacing)
  BY <1>3, <1>4, <1>6, DraftKeepsApart
<1> HIDE DEF shorts
<1>9. ASSUME NEW s \in S
      PROVE  /\ calendar'[s] \in PlanRow
             /\ calendar'[s].status = "draft" /\ calendar'[s].at = given(s)
             /\ calendar'[s].revision = 1 /\ calendar'[s].named = Len(rules)
             /\ calendar'[s].under = Len(rules) /\ calendar'[s].turn = places + 1
  <2>1. calendar'[s] = [status |-> "draft", at |-> given(s), revision |-> 1,
                        named |-> Len(rules), under |-> Len(rules), turn |-> places + 1]
    BY <1>1 DEF Placed
  <2>2. Len(rules) \in Nat /\ places + 1 \in Nat
    BY <1>1 DEF CalendarTypes
  <2>3. QED
    BY <1>7, <2>1, <2>2 DEF PlanRow
<1>10. \A s \in Planned \ S : calendar'[s] = calendar[s]
  BY <1>1
<1>11. \A s \in S : calendar[s].revision = 0
  BY <1>1 DEF RowsAreRead, Scheduled, NoPlan
<1>12. calendar' \in [Planned -> PlanRow]
  <2>1. \A s \in Planned : calendar'[s] \in PlanRow
    BY <1>1, <1>9, <1>10 DEF CalendarTypes
  <2>2. calendar' = [s \in Planned |-> calendar'[s]]
    BY <1>1
  <2>3. QED
    BY <2>1, <2>2
<1>13. ASSUME NEW s \in S, NEW t \in (Scheduled \cup S) \ {s}
       PROVE  /\ calendar'[s].at # calendar'[t].at
              /\ ShortOf(s).episode = ShortOf(t).episode =>
                   Apart(calendar'[s].at, calendar'[t].at, InForce.spacing)
  <2>1. CASE t \in S
    <3>1. ShortOf(s) # ShortOf(t) /\ ShortOf(s) \in shorts /\ ShortOf(t) \in shorts
      BY <1>2, <1>5, <1>13, <2>1
    <3>2. calendar'[s].at = at[ShortOf(s)] /\ calendar'[t].at = at[ShortOf(t)]
      BY <1>5, <1>9, <2>1
    <3>3. QED
      BY <1>8, <3>1, <3>2
  <2>2. CASE t \in Scheduled
    <3> DEFINE o == [at |-> calendar[t].at, episode |-> ShortOf(t).episode]
    <3>1. o \in Occupied(Scheduled) /\ o.at = calendar[t].at /\ o.episode = ShortOf(t).episode
      BY <2>2 DEF Occupied
    <3> HIDE DEF o
    <3>2. calendar'[t] = calendar[t]
      BY <1>1, <1>10, <2>2 DEF Scheduled
    <3>3. calendar'[s].at = at[ShortOf(s)] /\ ShortOf(s) \in shorts
      BY <1>5, <1>9
    <3>4. QED
      BY <1>8, <3>1, <3>2, <3>3
  <2>3. QED
    BY <1>13, <2>1, <2>2
<1>14. \A s \in S : /\ calendar'[s].status \in {"draft", "planned"}
                    /\ calendar'[s].under = Len(rules)
                    /\ calendar'[s].turn = places + 1
                    /\ calendar'[s].revision > calendar[s].revision
                    /\ calendar'[s].named # 0 =>
                         /\ calendar'[s].named = Len(rules)
                         /\ isLegalScheduleInstant(InForce.zone, InForce, calendar'[s].at)
  BY <1>7, <1>9, <1>11
<1>15. QED
  BY <1>1, <1>10, <1>12, <1>13, <1>14, PlacingCalendar

LEMMA MoveCalendar ==
    ASSUME CalendarInv, NEW screen, NEW s \in Planned, NEW at \in Int,
           moveScheduleEntry(screen, s, at)
    PROVE  CalendarInv'
<1>1. /\ CalendarTypes /\ RowsAreRead /\ s \in Scheduled
      /\ UNCHANGED <<rules, shown, announced>> /\ places' = places + 1
      /\ calendar[s] \in PlanRow
  BY DEF CalendarInv, CalendarTypes, moveScheduleEntry, ExpectedEntry
<1>2. calendar' = [calendar EXCEPT ![s] = Placed("planned", at, calendar[s].revision + 1, 0)]
  BY <1>1 DEF moveScheduleEntry, CalendarTypes
<1>3. calendar'[s] = [status |-> "planned", at |-> at, revision |-> calendar[s].revision + 1,
                      named |-> 0, under |-> Len(rules), turn |-> places + 1]
  BY <1>1, <1>2 DEF CalendarTypes, Placed
<1>4. calendar[s].revision \in Nat /\ Len(rules) \in Nat /\ places \in Nat
  BY <1>1 DEF CalendarTypes, PlanRow
<1>5. calendar'[s] \in PlanRow
  BY <1>3, <1>4 DEF PlanRow
<1>6. calendar' \in [Planned -> PlanRow] /\ \A t \in Planned \ {s} : calendar'[t] = calendar[t]
  <2>1. calendar' = [calendar EXCEPT ![s] = calendar'[s]]
    BY <1>1, <1>2 DEF CalendarTypes
  <2>2. QED
    BY <1>1, <1>5, <2>1 DEF CalendarTypes
<1>7. rules # <<>>
  <2>1. calendar[s].under \in 1..Len(rules)
    BY <1>1 DEF RowsAreRead, Scheduled
  <2>2. QED
    BY <1>4, <2>1
<1>8. ASSUME NEW t \in (Scheduled \cup {s}) \ {s}
      PROVE  /\ calendar'[s].at # calendar'[t].at
             /\ ShortOf(s).episode = ShortOf(t).episode =>
                  Apart(calendar'[s].at, calendar'[t].at, InForce.spacing)
  <2> DEFINE o == [at |-> calendar[t].at, episode |-> ShortOf(t).episode]
  <2>1. t \in Planned /\ t # s /\ o \in Occupied(Scheduled \ {s})
    BY <1>8 DEF Occupied, Scheduled
  <2>2. o.at = calendar[t].at /\ o.episode = ShortOf(t).episode
    OBVIOUS
  <2> HIDE DEF o
  <2>3. o.at # at /\ (o.episode = ShortOf(s).episode => Apart(o.at, at, InForce.spacing))
    BY <2>1 DEF moveScheduleEntry
  <2>4. calendar'[t].at = calendar[t].at /\ calendar'[s].at = at
    BY <1>3, <1>6, <2>1
  <2>5. QED
    BY <2>2, <2>3, <2>4, ApartIsMutual
<1>9. /\ calendar'[s].status \in {"draft", "planned"} /\ calendar'[s].under = Len(rules)
      /\ calendar'[s].turn = places + 1 /\ calendar'[s].revision > calendar[s].revision
      /\ calendar'[s].named = 0
  BY <1>3, <1>4
<1> DEFINE S == {s}
<1>10. \A u \in S : u = s
  OBVIOUS
<1>11. /\ S \in SUBSET Planned /\ \A t \in Planned \ S : calendar'[t] = calendar[t]
       /\ \A u \in S : \A t \in (Scheduled \cup S) \ {u} :
             /\ calendar'[u].at # calendar'[t].at
             /\ ShortOf(u).episode = ShortOf(t).episode =>
                  Apart(calendar'[u].at, calendar'[t].at, InForce.spacing)
  BY <1>6, <1>8
<1> HIDE DEF S
<1>12. \A u \in S : /\ calendar'[u].status \in {"draft", "planned"}
                    /\ calendar'[u].under = Len(rules)
                    /\ calendar'[u].turn = places + 1
                    /\ calendar'[u].revision > calendar[u].revision
                    /\ calendar'[u].named # 0 =>
                         /\ calendar'[u].named = Len(rules)
                         /\ isLegalScheduleInstant(InForce.zone, InForce, calendar'[u].at)
  BY <1>9, <1>10
<1>13. QED
  BY <1>1, <1>6, <1>7, <1>11, <1>12, PlacingCalendar

LEMMA PublishCalendar ==
    ASSUME CalendarInv, NEW screen, NEW s \in Planned, markPublished(screen, s),
           TrueOf(screen.entries[s], calendar[s]), screen.entries[s].at \in Int
    PROVE  CalendarInv'
<1>1. /\ CalendarTypes /\ RowsAreRead /\ s \in Scheduled
      /\ UNCHANGED <<rules, places, shown>>
      /\ calendar[s] \in PlanRow
      /\ screen.entries[s].revision = calendar[s].revision
  BY DEF CalendarInv, CalendarTypes, markPublished, ExpectedEntry
<1>2. calendar' = [calendar EXCEPT ![s] = [calendar[s] EXCEPT !.status = "published",
                                                              !.revision = @ + 1]]
  BY <1>1 DEF markPublished, CalendarTypes
<1>3. calendar[s].revision \in Nat
  BY <1>1 DEF PlanRow
<1>4. calendar'[s] = [calendar[s] EXCEPT !.status = "published", !.revision = @ + 1]
  BY <1>1, <1>2 DEF CalendarTypes
<1>5. /\ calendar'[s].status = "published" /\ calendar'[s].revision = calendar[s].revision + 1
      /\ calendar'[s].at = calendar[s].at /\ calendar'[s].named = calendar[s].named
      /\ calendar'[s].under = calendar[s].under /\ calendar'[s].turn = calendar[s].turn
  BY <1>1, <1>3, <1>4 DEF PlanRow
<1>6. calendar'[s] \in PlanRow
  <2> DEFINE n == calendar[s].revision + 1
  <2>1. n \in Nat /\ calendar'[s] = [calendar[s] EXCEPT !.status = "published", !.revision = n]
    BY <1>3, <1>4
  <2> HIDE DEF n
  <2>2. QED
    BY <1>1, <2>1 DEF PlanRow
<1>7. calendar' \in [Planned -> PlanRow] /\ \A t \in Planned \ {s} : calendar'[t] = calendar[t]
  <2>1. calendar' = [calendar EXCEPT ![s] = calendar'[s]]
    BY <1>1, <1>2 DEF CalendarTypes
  <2>2. QED
    BY <1>1, <1>6, <2>1 DEF CalendarTypes
<1>8. \A t \in Planned : /\ calendar'[t].at = calendar[t].at
                         /\ calendar'[t].named = calendar[t].named
                         /\ calendar'[t].under = calendar[t].under
                         /\ calendar'[t].turn = calendar[t].turn
                         /\ calendar'[t].status = "none" <=> calendar[t].status = "none"
  BY <1>1, <1>5, <1>7 DEF Scheduled
<1>9. Scheduled' = Scheduled
  BY <1>8 DEF Scheduled
<1>10. /\ announced' \in [Planned -> SUBSET Int] /\ announced'[s] = {calendar[s].at}
       /\ \A t \in Planned \ {s} : announced'[t] = announced[t]
  BY <1>1 DEF markPublished, CalendarTypes, TrueOf
<1>11. CalendarTypes'
  BY <1>1, <1>7, <1>10 DEF CalendarTypes
<1>12. RowsAreRead'
  <2> SUFFICES ASSUME NEW t \in Planned
      PROVE /\ calendar'[t].status = "none" => calendar'[t] = NoPlan
            /\ calendar'[t].status # "none" =>
                 calendar'[t].under \in 1..Len(rules) /\ calendar'[t].turn \in 1..places
            /\ calendar'[t].named # 0 =>
                 /\ calendar'[t].named \in 1..Len(rules)
                 /\ isLegalScheduleInstant(rules[calendar'[t].named].zone,
                                           rules[calendar'[t].named], calendar'[t].at)
    BY <1>1 DEF RowsAreRead
  <2>1. calendar'[t].status = "none" => calendar'[t] = NoPlan
    BY <1>1, <1>5, <1>7 DEF RowsAreRead
  <2>2. QED
    BY <1>1, <1>8, <2>1 DEF RowsAreRead
<1>13. ScreenIsTrue'
  <2> SUFFICES ASSUME NEW t \in Planned PROVE TrueOf(shown.entries[t], calendar'[t])
    BY <1>1 DEF ScreenIsTrue
  <2>1. TrueOf(shown.entries[t], calendar[t]) /\ shown.entries[t].revision \in Nat
    BY <1>1 DEF CalendarInv, ScreenIsTrue, CalendarTypes, PlanRow
  <2>2. CASE t = s
    BY <1>3, <1>5, <2>1, <2>2 DEF TrueOf
  <2>3. CASE t # s
    BY <1>7, <2>1, <2>3
  <2>4. QED
    BY <2>2, <2>3
<1>14. EntriesAreApart'
  <2>1. ASSUME NEW q \in Scheduled, NEW t \in Scheduled, q # t PROVE SpacedBeside(q, t)'
    <3>1. SpacedBeside(q, t) /\ q \in Planned /\ t \in Planned
      BY <2>1 DEF CalendarInv, EntriesAreApart, Scheduled
    <3>2. QED
      BY <1>1, <1>8, <3>1 DEF SpacedBeside, SpacedUnderTheLater
  <2>2. QED
    BY <1>9, <2>1 DEF EntriesAreApart
<1>15. PublicationsWereSeen'
  BY <1>5, <1>7, <1>10 DEF CalendarInv, PublicationsWereSeen
<1>16. QED
  BY <1>11, <1>12, <1>13, <1>14, <1>15 DEF CalendarInv

LEMMA InstantsAreIntegers == Instants \subseteq Int
<1> SUFFICES ASSUME NEW r \in Rules, NEW slot \in legalSlots(r.zone, r) PROVE slot \in Int
  BY DEF Instants
<1>1. r.zone \in Zones /\ AreRules(r)
  BY CalendarAssumption
<1>2. QED
  BY <1>1, SlotsAreLegal

LEMMA ClientCalendar ==
    ASSUME CalendarInv, NEW screen, ClientStep(screen),
           \A s \in Planned : /\ TrueOf(screen.entries[s], calendar[s])
                              /\ screen.entries[s].at \in Int
    PROVE  CalendarInv'
<1>1. ASSUME NEW new \in Rules, updateScheduleRules(screen, new) PROVE CalendarInv'
  BY <1>1, RulesCalendar
<1>2. ASSUME NEW S \in SUBSET Planned, draftEntries(screen, S) PROVE CalendarInv'
  BY <1>2, DraftCalendar
<1>3. ASSUME NEW s \in Planned, NEW at \in Instants, moveScheduleEntry(screen, s, at)
      PROVE  CalendarInv'
  BY <1>3, MoveCalendar, InstantsAreIntegers
<1>4. ASSUME NEW s \in Planned, markPublished(screen, s) PROVE CalendarInv'
  BY <1>4, PublishCalendar
<1>5. QED
  BY <1>1, <1>2, <1>3, <1>4 DEF ClientStep

LEMMA NextCalendar == ASSUME CalendarInv, [CalendarNext]_calendarVars PROVE CalendarInv'
<1>1. CASE Refresh
  BY <1>1, RefreshCalendar
<1>2. CASE ClientStep(Screen)
  <2>1. Screen.entries = calendar
    BY DEF Screen
  <2>2. \A s \in Planned : TrueOf(Screen.entries[s], calendar[s]) /\ Screen.entries[s].at \in Int
    BY <2>1 DEF CalendarInv, CalendarTypes, PlanRow, TrueOf
  <2>3. QED
    BY <1>2, <2>2, ClientCalendar
<1>3. CASE ClientStep(shown)
  <2>1. \A s \in Planned : TrueOf(shown.entries[s], calendar[s]) /\ shown.entries[s].at \in Int
    BY DEF CalendarInv, CalendarTypes, PlanRow, ScreenIsTrue
  <2>2. QED
    BY <1>3, <2>1, ClientCalendar
<1>4. CASE UNCHANGED calendarVars
  <2>1. UNCHANGED <<rules, calendar, places, shown, announced>>
    BY <1>4 DEF calendarVars
  <2>2. CalendarTypes' /\ ScreenIsTrue' /\ PublicationsWereSeen'
    BY <2>1 DEF CalendarInv, CalendarTypes, ScreenIsTrue, PublicationsWereSeen
  <2>3. RowsAreRead' /\ EntriesAreApart'
    BY <2>1 DEF CalendarInv, RowsAreRead, EntriesAreApart, Scheduled, SpacedBeside,
                SpacedUnderTheLater
  <2>4. QED
    BY <2>2, <2>3 DEF CalendarInv
<1>5. QED
  BY <1>1, <1>2, <1>3, <1>4 DEF CalendarNext

\* Through changes of the rules, drafts, moves and publications on old screens,
\* entries keep apart, a draft is legal under the rules its client named, and
\* what was published is what the client saw (updateScheduleRules,
\* draftSchedule, moveScheduleEntry, markPublished).
THEOREM TheCalendarIsKept == CalendarSpec => []CalendarIsKept
<1>1. CalendarInv => CalendarIsKept
  BY DEF CalendarInv, CalendarIsKept, EntriesAreApart, SpacedBeside, RowsAreRead, Scheduled,
         PublicationsWereSeen
<1>2. QED
  BY <1>1, InitCalendar, NextCalendar, PTL DEF CalendarSpec
-----------------------------------------------------------------------------
(***************************************************************************)
(* Candidates: what clusterProposals has made of the first k proposals.    *)
(***************************************************************************)
LEMMA MinIs ==
  ASSUME NEW S \in SUBSET Nat, S # {}
  PROVE  Min(S) \in S /\ \A y \in S : Min(S) <= y
<1>1. \E x \in S : \A y \in S : x <= y
  BY SmallestNat
<1> QED
  BY <1>1 DEF Min

LEMMA MaxIs ==
  ASSUME NEW S \in SUBSET Nat, S # {}, NEW b \in Nat, \A x \in S : x <= b
  PROVE  Max(S) \in S /\ \A y \in S : y <= Max(S)
<1>1. S \in SUBSET Int /\ b \in Int
  OBVIOUS
<1>2. \E x \in S : \A y \in S : y <= x
  BY <1>1, Greatest
<1>3. \A x, y \in S : y <= x <=> x >= y
  OBVIOUS
<1>4. \E x \in S : \A y \in S : x >= y
  BY <1>2, <1>3
<1>5. Max(S) \in S /\ \A y \in S : Max(S) >= y
  BY <1>4 DEF Max
<1> QED
  BY <1>3, <1>5

\* Proposals, which differ in their times.
AreProposals(S) ==
    /\ \A p \in S : p.from \in Int /\ p.to \in Int /\ p.score \in Int
    /\ \A p, q \in S : p.from = q.from /\ p.to = q.to => p = q

LEMMA BestFirstSorts ==
  ASSUME NEW S, IsFiniteSet(S), AreProposals(S)
  PROVE  /\ Cardinality(S) \in Nat
         /\ BestFirst(S) \in [1..Cardinality(S) -> S]
         /\ \A i, j \in 1..Cardinality(S) : i < j => compareCandidates(BestFirst(S)[i], BestFirst(S)[j])
         /\ \A x \in S : \E i \in 1..Cardinality(S) : BestFirst(S)[i] = x
<1> DEFINE R == {p \in S \X S : compareCandidates(p[1], p[2])}
<1>1. \A x, y \in S : <<x, y>> \in R <=> compareCandidates(x, y)
  OBVIOUS
<1>2. IsStrictOrder(R, S)
  <2>1. \A x \in S : ~compareCandidates(x, x)
    BY DEF compareCandidates, AreProposals
  <2>2. \A x, y \in S : x # y => compareCandidates(x, y) \/ compareCandidates(y, x)
    <3> TAKE x, y \in S
    <3> HAVE x # y
    <3>1. x.from # y.from \/ x.to # y.to
      BY DEF AreProposals
    <3>2. PICK a, b, c, d, e, f \in Int : a = x.score /\ b = x.from /\ c = x.to
                                           /\ d = y.score /\ e = y.from /\ f = y.to
      BY DEF AreProposals
    <3> QED BY <3>1, <3>2 DEF compareCandidates
  <2>3. \A x, y, z \in S : compareCandidates(x, y) /\ compareCandidates(y, z) => compareCandidates(x, z)
    BY DEF compareCandidates, AreProposals
  <2> HIDE DEF R
  <2> QED BY <1>1, <2>1, <2>2, <2>3 DEF IsStrictOrder
<1> HIDE DEF R
<1>3. \A x \in S : RankIn(x, S, R) = Cardinality({y \in S : compareCandidates(y, x)})
  <2> TAKE x \in S
  <2>1. {y \in S : <<y, x>> \in R} = {y \in S : compareCandidates(y, x)}
    BY <1>1
  <2> QED BY <2>1 DEF RankIn
<1>4. IsRanked(BestFirst(S), S, R)
  <2>1. \A i \in 1..Cardinality(S) : \E x \in S : RankIn(x, S, R) = i - 1
    BY <1>2, Ranked
  <2>2. \A i \in 1..Cardinality(S) : \E x \in S : Cardinality({y \in S : compareCandidates(y, x)}) = i - 1
    BY <2>1, <1>3
  <2>3. \A i \in 1..Cardinality(S) :
          /\ BestFirst(S)[i] \in S
          /\ Cardinality({y \in S : compareCandidates(y, BestFirst(S)[i])}) = i - 1
    BY <2>2 DEF BestFirst
  <2>4. \A i \in 1..Cardinality(S) : RankIn(BestFirst(S)[i], S, R) = i - 1
    BY <2>3, <1>3
  <2>5. BestFirst(S) \in [1..Cardinality(S) -> S]
    BY <2>3 DEF BestFirst
  <2> QED BY <2>4, <2>5, <1>2, Ranked
<1>5. Cardinality(S) \in Nat
  BY FS_CardinalityType
<1>6. \A i, j \in 1..Cardinality(S) : i < j => compareCandidates(BestFirst(S)[i], BestFirst(S)[j])
  BY <1>1, <1>4 DEF IsRanked
<1> QED
  BY <1>4, <1>5, <1>6 DEF IsRanked

LEMMA ConflictIsMutual ==
  ASSUME NEW a, NEW b
  PROVE  candidatesConflict(a, b) <=> candidatesConflict(b, a)
<1>1. Overlap(a, b) <=> Overlap(b, a)
  <2>1. {a.to, b.to} = {b.to, a.to} /\ {a.from, b.from} = {b.from, a.from}
        /\ {Duration(a), Duration(b)} = {Duration(b), Duration(a)}
    OBVIOUS
  <2> QED BY <2>1, Zenon DEF Overlap
<1>2. SameWords(a, b) <=> SameWords(b, a)
  <2>1. a.words \cup b.words = b.words \cup a.words /\ a.words \cap b.words = b.words \cap a.words
    OBVIOUS
  <2> QED BY <2>1, Zenon DEF SameWords
<1> QED
  BY <1>1, <1>2 DEF candidatesConflict

(***************************************************************************)
(* The first k proposals are in disjoint clusters, which come in the order *)
(* of their best; the best of two clusters differ, and whatever else is in *)
(* one is a likeness of its best.                                          *)
(***************************************************************************)
Clustering(cl, sorted, k) ==
    /\ cl \in Seq(SUBSET Nat)
    /\ \A c \in DOMAIN cl : cl[c] # {} /\ cl[c] \subseteq 1..k
    /\ \A i \in 1..k : \E c \in DOMAIN cl : i \in cl[c]
    /\ \A c, d \in DOMAIN cl : c < d => cl[c] \cap cl[d] = {} /\ Min(cl[c]) < Min(cl[d])
    /\ \A c, d \in DOMAIN cl : c < d => ~candidatesConflict(sorted[Min(cl[c])], sorted[Min(cl[d])])
    /\ \A c \in DOMAIN cl : \A i \in cl[c] :
         i # Min(cl[c]) => candidatesConflict(sorted[Min(cl[c])], sorted[i])

Like(cl, sorted, k) == {c \in DOMAIN cl : candidatesConflict(sorted[Representative(cl[c])], sorted[k])}

LEMMA JoinedIsAClustering ==
  ASSUME NEW cl, NEW sorted, NEW k \in Nat \ {0}, Clustering(cl, sorted, k - 1)
  PROVE  Clustering(Joined(cl, sorted, k), sorted, k)
<1>1. PICK n, N : n = Len(cl) /\ N = SUBSET Nat
  OBVIOUS
<1>2. cl \in Seq(N) /\ n \in Nat /\ DOMAIN cl = 1..n /\ \A c \in 1..n : cl[c] \in SUBSET Nat
  <2>1. cl \in Seq(N)
    BY <1>1 DEF Clustering
  <2> QED BY <2>1, <1>1
<1>3. PICK j \in Nat : j = k - 1
  OBVIOUS
<1>4. /\ \A c \in 1..n : cl[c] # {} /\ cl[c] \subseteq 1..j
      /\ \A i \in 1..j : \E c \in 1..n : i \in cl[c]
      /\ \A c, d \in 1..n : c < d => cl[c] \cap cl[d] = {} /\ Min(cl[c]) < Min(cl[d])
      /\ \A c, d \in 1..n : c < d => ~candidatesConflict(sorted[Min(cl[c])], sorted[Min(cl[d])])
      /\ \A c \in 1..n : \A i \in cl[c] :
           i # Min(cl[c]) => candidatesConflict(sorted[Min(cl[c])], sorted[i])
  BY <1>2, <1>3 DEF Clustering
<1>5. \A c \in 1..n : Min(cl[c]) \in cl[c] /\ Min(cl[c]) \in 1..j /\ \A y \in cl[c] : Min(cl[c]) <= y
  <2> TAKE c \in 1..n
  <2>1. Min(cl[c]) \in cl[c] /\ \A y \in cl[c] : Min(cl[c]) <= y
    BY <1>2, <1>4, MinIs
  <2> QED BY <2>1, <1>4
<1>6. k \notin 1..j /\ 1..k = (1..j) \cup {k} /\ \A i \in 1..j : i < k
  BY <1>3
<1>7. PICK like : like = Like(cl, sorted, k)
  OBVIOUS
<1>8. like = {c \in 1..n : candidatesConflict(sorted[Min(cl[c])], sorted[k])}
  BY <1>2, <1>7 DEF Like, Representative
<1>9. CASE like = {}
  <2>1. PICK u : u = Append(cl, {k})
    OBVIOUS
  <2>2. Joined(cl, sorted, k) = u
    BY <1>7, <1>9, <2>1 DEF Joined, Like
  <2>3. /\ u \in Seq(N) /\ DOMAIN u = 1..(n + 1) /\ u[n + 1] = {k}
        /\ \A c \in 1..n : u[c] = cl[c]
    <3>1. {k} \in N
      BY <1>1
    <3> QED BY <3>1, <2>1, <1>1, <1>2
  <2>4. Min({k}) = k
    <3>1. {k} \in SUBSET Nat /\ {k} # {}
      OBVIOUS
    <3>2. Min({k}) \in {k}
      BY <3>1, MinIs
    <3> QED BY <3>2
  <2>5. \A c \in 1..(n + 1) : c \in 1..n \/ c = n + 1
    BY <1>2
  <2>6. \A c \in DOMAIN u : u[c] # {} /\ u[c] \subseteq 1..k
    <3> TAKE c \in DOMAIN u
    <3>1. CASE c \in 1..n
      BY <3>1, <2>3, <1>4, <1>6
    <3>2. CASE c = n + 1
      BY <3>2, <2>3, <1>6
    <3> QED BY <3>1, <3>2, <2>3, <2>5
  <2>7. \A i \in 1..k : \E c \in DOMAIN u : i \in u[c]
    <3> TAKE i \in 1..k
    <3>1. CASE i \in 1..j
      <4>1. PICK c \in 1..n : i \in cl[c]
        BY <3>1, <1>4
      <4>2. c \in DOMAIN u /\ i \in u[c]
        BY <4>1, <2>3, <1>2
      <4> QED BY <4>2
    <3>2. CASE i = k
      <4>1. n + 1 \in DOMAIN u /\ i \in u[n + 1]
        BY <3>2, <2>3, <1>2
      <4> QED BY <4>1
    <3> QED BY <3>1, <3>2, <1>6
  <2>8. \A c \in DOMAIN u : Min(u[c]) = IF c \in 1..n THEN Min(cl[c]) ELSE k
    <3> TAKE c \in DOMAIN u
    <3>1. n + 1 \notin 1..n
      BY <1>2
    <3> QED BY <3>1, <2>3, <2>4, <2>5
  <2>9. \A c, d \in DOMAIN u : c < d => c \in 1..n /\ (d \in 1..n \/ d = n + 1)
    BY <2>3, <1>2
  <2>10. \A c, d \in DOMAIN u : c < d => u[c] \cap u[d] = {} /\ Min(u[c]) < Min(u[d])
    <3> TAKE c, d \in DOMAIN u
    <3> HAVE c < d
    <3>1. c \in 1..n /\ u[c] = cl[c] /\ Min(u[c]) = Min(cl[c])
      BY <2>3, <2>8, <2>9
    <3>2. CASE d \in 1..n
      BY <3>1, <3>2, <2>3, <2>8, <1>4
    <3>3. CASE d = n + 1
      <4>0. d \in DOMAIN u /\ d \notin 1..n
        BY <3>3, <1>2
      <4>1. u[d] = {k} /\ Min(u[d]) = k
        BY <4>0, <3>3, <2>3, <2>8
      <4>2. k \notin cl[c] /\ Min(cl[c]) < k
        BY <3>1, <1>4, <1>5, <1>6
      <4> QED BY <3>1, <4>1, <4>2
    <3> QED BY <3>2, <3>3, <2>9
  <2>11. \A c, d \in DOMAIN u : c < d => ~candidatesConflict(sorted[Min(u[c])], sorted[Min(u[d])])
    <3> TAKE c, d \in DOMAIN u
    <3> HAVE c < d
    <3>1. c \in 1..n /\ Min(u[c]) = Min(cl[c])
      BY <2>8, <2>9
    <3>2. CASE d \in 1..n
      BY <3>1, <3>2, <2>8, <1>4
    <3>3. CASE d = n + 1
      <4>1. Min(u[d]) = k
        BY <3>3, <2>8, <1>2
      <4>2. ~candidatesConflict(sorted[Min(cl[c])], sorted[k])
        BY <3>1, <1>8, <1>9
      <4> QED BY <3>1, <4>1, <4>2
    <3> QED BY <3>2, <3>3, <2>9
  <2>12. \A c \in DOMAIN u : \A i \in u[c] :
           i # Min(u[c]) => candidatesConflict(sorted[Min(u[c])], sorted[i])
    <3> TAKE c \in DOMAIN u
    <3> TAKE i \in u[c]
    <3> HAVE i # Min(u[c])
    <3>1. CASE c \in 1..n
      BY <3>1, <2>3, <2>8, <1>4
    <3>2. CASE c = n + 1
      BY <3>2, <2>3, <2>8, <2>4
    <3> QED BY <3>1, <3>2, <2>3, <2>5
  <2>13. u \in Seq(SUBSET Nat)
    BY <1>1, <2>3
  <2> QED BY <2>2, <2>6, <2>7, <2>10, <2>11, <2>12, <2>13 DEF Clustering
<1>10. CASE like # {}
  <2>1. PICK m : m = Min(like)
    OBVIOUS
  <2>2. m \in like /\ m \in 1..n /\ \A y \in like : m <= y
    <3>1. like \in SUBSET Nat
      BY <1>8
    <3> QED BY <3>1, <1>8, <1>10, <2>1, MinIs
  <2>3. PICK u : u = [c \in 1..n |-> IF c = m THEN cl[c] \cup {k} ELSE cl[c]]
    OBVIOUS
  <2>4. Joined(cl, sorted, k) = u
    <3>1. Joined(cl, sorted, k) = [cl EXCEPT ![m] = @ \cup {k}]
      BY <1>7, <1>10, <2>1 DEF Joined, Like
    <3>2. [cl EXCEPT ![m] = @ \cup {k}] = u
      <4>1. cl = [c \in 1..n |-> cl[c]]
        BY <1>2
      <4> QED BY <4>1, <2>2, <2>3
    <3> QED BY <3>1, <3>2
  <2>5. DOMAIN u = 1..n /\ u[m] = cl[m] \cup {k} /\ \A c \in 1..n : c # m => u[c] = cl[c]
    BY <2>2, <2>3
  <2>6. \A c \in 1..n : u[c] \in SUBSET Nat
    BY <2>5, <1>2
  <2>7. u \in Seq(SUBSET Nat)
    <3>1. u \in [1..n -> N]
      <4>1. \A c \in 1..n : u[c] \in N
        BY <2>6, <1>1
      <4> QED BY <4>1, <2>3
    <3>2. u \in Seq(N)
      BY <3>1, <1>2
    <3> QED BY <3>2, <1>1
  <2>8. \A c \in 1..n : Min(u[c]) = Min(cl[c])
    <3> TAKE c \in 1..n
    <3>1. CASE c # m
      BY <3>1, <2>5
    <3>2. CASE c = m
      <4>1. u[c] = cl[c] \cup {k} /\ Min(cl[c]) \in cl[c] /\ Min(cl[c]) < k
            /\ \A y \in cl[c] : Min(cl[c]) <= y
        BY <3>2, <2>5, <1>5, <1>6
      <4>2. u[c] \in SUBSET Nat /\ u[c] # {}
        BY <4>1, <2>6
      <4>3. PICK x \in Nat, y \in Nat : x = Min(u[c]) /\ y = Min(cl[c])
        BY <4>2, <1>2, <1>5, MinIs
      <4>4. x \in u[c] /\ \A z \in u[c] : x <= z
        BY <4>2, <4>3, MinIs
      <4>5. x <= y /\ (x \in cl[c] \/ x = k)
        BY <4>1, <4>3, <4>4
      <4>6. y <= x
        BY <4>1, <4>3, <4>5
      <4> QED BY <4>3, <4>5, <4>6
    <3> QED BY <3>1, <3>2
  <2>9. \A c \in DOMAIN u : u[c] # {} /\ u[c] \subseteq 1..k
    BY <2>5, <2>2, <1>4, <1>6
  <2>10. \A i \in 1..k : \E c \in DOMAIN u : i \in u[c]
    <3> TAKE i \in 1..k
    <3>1. CASE i \in 1..j
      <4>1. PICK c \in 1..n : i \in cl[c]
        BY <3>1, <1>4
      <4> QED BY <4>1, <2>5
    <3>2. CASE i = k
      BY <3>2, <2>5, <2>2
    <3> QED BY <3>1, <3>2, <1>6
  <2>11. \A c, d \in DOMAIN u : c < d => u[c] \cap u[d] = {} /\ Min(u[c]) < Min(u[d])
    <3> TAKE c, d \in DOMAIN u
    <3> HAVE c < d
    <3>1. c \in 1..n /\ d \in 1..n /\ cl[c] \cap cl[d] = {} /\ Min(cl[c]) < Min(cl[d])
      BY <2>5, <1>4
    <3>2. k \notin cl[c] /\ k \notin cl[d]
      BY <3>1, <1>4, <1>6
    <3>3. c # d
      BY <3>1
    <3>4. u[c] \cap u[d] = {}
      BY <3>1, <3>2, <3>3, <2>5
    <3> QED BY <3>1, <3>4, <2>8
  <2>12. \A c, d \in DOMAIN u : c < d => ~candidatesConflict(sorted[Min(u[c])], sorted[Min(u[d])])
    BY <2>5, <2>8, <1>4
  <2>13. \A c \in DOMAIN u : \A i \in u[c] :
           i # Min(u[c]) => candidatesConflict(sorted[Min(u[c])], sorted[i])
    <3> TAKE c \in DOMAIN u
    <3> TAKE i \in u[c]
    <3> HAVE i # Min(u[c])
    <3>1. c \in 1..n /\ Min(u[c]) = Min(cl[c])
      BY <2>5, <2>8
    <3>2. CASE i \in cl[c]
      BY <3>1, <3>2, <1>4
    <3>3. CASE i \notin cl[c]
      <4>1. c = m /\ i = k
        BY <3>1, <3>3, <2>5
      <4>2. candidatesConflict(sorted[Min(cl[m])], sorted[k])
        BY <2>2, <1>8
      <4> QED BY <4>1, <4>2, <3>1
    <3> QED BY <3>2, <3>3
  <2> QED BY <2>4, <2>7, <2>9, <2>10, <2>11, <2>12, <2>13 DEF Clustering
<1> QED
  BY <1>9, <1>10

\* What a recursive function like that of clusterProposals is.
IsClustered(h, sorted, n) ==
    /\ h \in [0..n -> Seq(SUBSET Nat)] /\ h[0] = <<>>
    /\ \A k \in 1..n : h[k] = Joined(h[k - 1], sorted, k)

LEMMA JoinedIsTyped ==
  ASSUME NEW cl \in Seq(SUBSET Nat), NEW sorted, NEW k \in Nat
  PROVE  Joined(cl, sorted, k) \in Seq(SUBSET Nat)
<1>1. PICK n, N : n = Len(cl) /\ N = SUBSET Nat
  OBVIOUS
<1>2. cl \in Seq(N) /\ n \in Nat /\ DOMAIN cl = 1..n /\ \A c \in 1..n : cl[c] \in N
  <2>1. cl \in Seq(N)
    BY <1>1
  <2> QED BY <2>1, <1>1
<1>3. PICK like : like = Like(cl, sorted, k)
  OBVIOUS
<1>4. CASE like = {}
  <2>1. Joined(cl, sorted, k) = Append(cl, {k})
    BY <1>3, <1>4 DEF Joined, Like
  <2>2. {k} \in N
    BY <1>1
  <2>3. Append(cl, {k}) \in Seq(N)
    BY <2>2, <1>2
  <2> QED BY <2>1, <2>3, <1>1
<1>5. CASE like # {}
  <2>1. PICK m : m = Min(like)
    OBVIOUS
  <2>2. like \in SUBSET (1..n)
    BY <1>2, <1>3 DEF Like
  <2>3. m \in 1..n
    <3>1. like \in SUBSET Nat
      BY <2>2
    <3>2. m \in like
      BY <3>1, <2>1, <1>5, MinIs
    <3> QED BY <3>2, <2>2
  <2>4. Joined(cl, sorted, k) = [cl EXCEPT ![m] = @ \cup {k}]
    BY <1>3, <1>5, <2>1 DEF Joined, Like
  <2>5. PICK s : s = cl[m] \cup {k}
    OBVIOUS
  <2>6. s \in N
    BY <2>3, <2>5, <1>1, <1>2
  <2>7. [cl EXCEPT ![m] = s] \in Seq(N)
    BY <2>3, <2>6, <1>2
  <2> QED BY <2>4, <2>5, <2>7, <1>1
<1> QED
  BY <1>4, <1>5

LEMMA ClustersAre ==
  ASSUME NEW sorted, Len(sorted) \in Nat
  PROVE  Clustering(clusterProposals(sorted), sorted, Len(sorted))
<1>1. PICK n, V : n = Len(sorted) /\ V = Seq(SUBSET Nat)
  OBVIOUS
<1>2. n \in Nat
  BY <1>1
<1>3. PICK step : step = [k \in 1..n |-> [cl \in V |-> Joined(cl, sorted, k)]]
  OBVIOUS
<1>4. \A k \in 1..n : \A cl \in V : Joined(cl, sorted, k) \in V
  <2> TAKE k \in 1..n
  <2> TAKE cl \in V
  <2>1. k \in Nat /\ cl \in Seq(SUBSET Nat)
    BY <1>1
  <2> QED BY <2>1, <1>1, JoinedIsTyped
<1>5. step \in [1..n -> [V -> V]] /\ \A k \in 1..n : \A cl \in V : step[k][cl] = Joined(cl, sorted, k)
  BY <1>3, <1>4
<1>6. PICK empty : empty = <<>>
  OBVIOUS
<1>7. empty \in V
  BY <1>1, <1>6
<1>8. PICK f : IsRun(f, V, n, empty, step)
  BY <1>2, <1>5, <1>7, Runs
<1>9. f \in [0..n -> V] /\ f[0] = empty /\ \A k \in 1..n : f[k] = step[k][f[k - 1]]
  BY <1>8 DEF IsRun
<1> DEFINE Solution(h) == h = [k \in 0..n |-> IF k = 0 THEN <<>> ELSE Joined(h[k - 1], sorted, k)]
<1>10. Solution(f)
  <2>1. \A k \in 0..n : f[k] = IF k = 0 THEN <<>> ELSE Joined(f[k - 1], sorted, k)
    <3> TAKE k \in 0..n
    <3>1. k = 0 => f[k] = <<>>
      BY <1>6, <1>9
    <3>2. ASSUME k # 0 PROVE f[k] = Joined(f[k - 1], sorted, k)
      <4>1. k \in 1..n /\ k - 1 \in 0..n
        BY <3>2, <1>2
      <4>2. f[k - 1] \in V
        BY <4>1, <1>9
      <4> QED BY <4>1, <4>2, <1>5, <1>9
    <3> QED BY <3>1, <3>2
  <2>2. f = [k \in 0..n |-> f[k]]
    BY <1>9
  <2> QED BY <2>1, <2>2
<1>11. PICK h : h = CHOOSE g : Solution(g)
  OBVIOUS
<1>12. clusterProposals(sorted) = h[n]
  BY <1>1, <1>11 DEF clusterProposals
<1>13. Solution(h)
  BY <1>10, <1>11
<1>14. h[0] = <<>> /\ \A k \in 1..n : h[k] = Joined(h[k - 1], sorted, k)
  BY <1>2, <1>13
<1> HIDE DEF Solution
<1> DEFINE T == {k \in 0..n : Clustering(h[k], sorted, k)}
<1>15. 0 \in T
  <2>1. PICK e : e = <<>>
    OBVIOUS
  <2>2. e \in Seq(SUBSET Nat) /\ DOMAIN e = {}
    BY <2>1
  <2>3. Clustering(e, sorted, 0)
    BY <2>2 DEF Clustering
  <2> QED BY <2>1, <2>3, <1>2, <1>14
<1>16. \A k \in 1..n : k - 1 \in T => k \in T
  <2> TAKE k \in 1..n
  <2> HAVE k - 1 \in T
  <2>1. k \in Nat \ {0} /\ k \in 0..n /\ Clustering(h[k - 1], sorted, k - 1)
    BY <1>2
  <2>2. Clustering(Joined(h[k - 1], sorted, k), sorted, k)
    BY <2>1, JoinedIsAClustering
  <2> QED BY <2>1, <2>2, <1>14
<1>17. \A k \in 0..n : k \in T
  <2> HIDE DEF T
  <2> QED BY <1>2, <1>15, <1>16, Throughout
<1>18. n \in 0..n
  BY <1>2
<1> QED
  BY <1>1, <1>12, <1>17, <1>18

-----------------------------------------------------------------------------
\* Sums.
IsTotal(f, counts, n) ==
    /\ f \in [0..n -> Int] /\ f[0] = 0
    /\ \A k \in 1..n : f[k] = f[k - 1] + counts[k]

LEMMA TotalIs ==
  ASSUME NEW counts, NEW n \in Nat, Len(counts) = n, \A k \in 1..n : counts[k] \in Int
  PROVE  \E f : IsTotal(f, counts, n) /\ Total(counts) = f[n]
<1>1. PICK V, zero : V = Int /\ zero = 0
  OBVIOUS
<1>2. PICK step : step = [k \in 1..n |-> [v \in V |-> v + counts[k]]]
  OBVIOUS
<1>3. step \in [1..n -> [V -> V]] /\ \A k \in 1..n : \A v \in V : step[k][v] = v + counts[k]
  BY <1>1, <1>2
<1>4. zero \in V
  BY <1>1
<1>5. PICK f : IsRun(f, V, n, zero, step)
  BY <1>3, <1>4, Runs
<1>6. f \in [0..n -> V] /\ f[0] = 0 /\ \A k \in 1..n : f[k] = step[k][f[k - 1]]
  BY <1>1, <1>5 DEF IsRun
<1>7. \A k \in 1..n : f[k] = f[k - 1] + counts[k]
  <2> TAKE k \in 1..n
  <2>1. k - 1 \in 0..n
    OBVIOUS
  <2>2. f[k - 1] \in V
    BY <2>1, <1>6
  <2> QED BY <2>2, <1>3, <1>6
<1> DEFINE Solution(h) == h = [k \in 0..n |-> IF k = 0 THEN 0 ELSE h[k - 1] + counts[k]]
<1>8. Solution(f)
  <2>1. \A k \in 0..n : f[k] = IF k = 0 THEN 0 ELSE f[k - 1] + counts[k]
    <3> TAKE k \in 0..n
    <3>1. k # 0 => k \in 1..n
      OBVIOUS
    <3> QED BY <3>1, <1>6, <1>7
  <2>2. f = [k \in 0..n |-> f[k]]
    BY <1>6
  <2> QED BY <2>1, <2>2
<1>9. PICK h : h = CHOOSE g : Solution(g)
  OBVIOUS
<1>10. Total(counts) = h[n]
  BY <1>9 DEF Total
<1>11. Solution(h)
  BY <1>8, <1>9
<1>12. h[0] = 0 /\ h = [k \in 0..n |-> h[k]] /\ \A k \in 1..n : h[k] = h[k - 1] + counts[k]
  BY <1>11
<1> HIDE DEF Solution
<1> DEFINE T == {k \in 0..n : h[k] \in Int}
<1>13. 0 \in T
  BY <1>12
<1>14. \A k \in 1..n : k - 1 \in T => k \in T
  <2> TAKE k \in 1..n
  <2> HAVE k - 1 \in T
  <2>1. PICK v \in Int : v = h[k - 1]
    OBVIOUS
  <2>2. v + counts[k] \in Int /\ k \in 0..n
    OBVIOUS
  <2> QED BY <2>1, <2>2, <1>12
<1>15. \A k \in 0..n : k \in T
  <2> HIDE DEF T
  <2> QED BY <1>13, <1>14, Throughout
<1>16. h \in [0..n -> Int]
  BY <1>12, <1>15
<1> QED
  BY <1>10, <1>12, <1>16 DEF IsTotal

AddUp(a, b, c, n) ==
    /\ Len(a) = n /\ Len(b) = n /\ Len(c) = n
    /\ \A k \in 1..n : a[k] \in Int /\ b[k] \in Int /\ c[k] = a[k] + b[k]

LEMMA TotalsAdd ==
  ASSUME NEW n \in Nat, NEW a, NEW b, NEW c, AddUp(a, b, c, n)
  PROVE  Total(a) \in Int /\ Total(b) \in Int /\ Total(c) = Total(a) + Total(b)
<1> USE DEF AddUp
<1>1. PICK f : IsTotal(f, a, n) /\ Total(a) = f[n]
  BY TotalIs
<1>2. PICK g : IsTotal(g, b, n) /\ Total(b) = g[n]
  BY TotalIs
<1>3. \A k \in 1..n : c[k] \in Int
  OBVIOUS
<1>4. PICK h : IsTotal(h, c, n) /\ Total(c) = h[n]
  BY <1>3, TotalIs
<1> DEFINE T == {k \in 0..n : h[k] = f[k] + g[k]}
<1>5. 0 \in T
  BY <1>1, <1>2, <1>4 DEF IsTotal
<1>6. \A k \in 1..n : k - 1 \in T => k \in T
  <2> TAKE k \in 1..n
  <2> HAVE k - 1 \in T
  <2>1. k - 1 \in 0..n /\ k \in 0..n
    OBVIOUS
  <2>2. PICK x \in Int, y \in Int, u \in Int, v \in Int :
           x = f[k - 1] /\ y = g[k - 1] /\ u = a[k] /\ v = b[k]
    BY <2>1, <1>1, <1>2 DEF IsTotal
  <2>3. h[k - 1] = x + y /\ c[k] = u + v
    BY <2>2
  <2>4. f[k] = x + u /\ g[k] = y + v /\ h[k] = (x + y) + (u + v)
    BY <2>2, <2>3, <1>1, <1>2, <1>4 DEF IsTotal
  <2>5. h[k] = f[k] + g[k]
    BY <2>2, <2>4
  <2> QED BY <2>1, <2>5
<1>7. \A k \in 0..n : k \in T
  <2> HIDE DEF T
  <2> QED BY <1>5, <1>6, Throughout
<1>8. n \in 0..n
  OBVIOUS
<1>9. f[n] \in Int /\ g[n] \in Int
  BY <1>1, <1>2, <1>8 DEF IsTotal
<1> QED
  BY <1>1, <1>2, <1>4, <1>7, <1>8, <1>9

\* The sizes of disjoint sets add up.
ArePartsOf(parts, counts, n) ==
    /\ Len(counts) = n
    /\ \A k \in 1..n : IsFiniteSet(parts[k]) /\ counts[k] = Cardinality(parts[k])
    /\ \A j, k \in 1..n : j < k => parts[j] \cap parts[k] = {}

Joint(parts, n) == UNION {parts[k] : k \in 1..n}

LEMMA TotalOfParts ==
  ASSUME NEW n \in Nat, NEW parts, NEW counts, ArePartsOf(parts, counts, n)
  PROVE  IsFiniteSet(Joint(parts, n)) /\ Total(counts) = Cardinality(Joint(parts, n))
<1> USE DEF ArePartsOf
<1> DEFINE Upto(k) == UNION {parts[j] : j \in 1..k}
<1>1. \A k \in 1..n : counts[k] \in Int
  <2> TAKE k \in 1..n
  <2>1. Cardinality(parts[k]) \in Nat
    BY FS_CardinalityType
  <2> QED BY <2>1
<1>2. PICK f : IsTotal(f, counts, n) /\ Total(counts) = f[n]
  BY <1>1, TotalIs
<1> DEFINE T == {k \in 0..n : IsFiniteSet(Upto(k)) /\ Cardinality(Upto(k)) = f[k]}
<1>3. 0 \in T
  <2>1. Upto(0) = {}
    OBVIOUS
  <2>2. f[0] = 0
    BY <1>2 DEF IsTotal
  <2> HIDE DEF Upto
  <2>3. IsFiniteSet({}) /\ Cardinality({}) = 0
    BY FS_EmptySet
  <2>4. IsFiniteSet(Upto(0)) /\ Cardinality(Upto(0)) = f[0]
    BY <2>1, <2>2, <2>3
  <2>5. 0 \in 0..n
    OBVIOUS
  <2> QED BY <2>4, <2>5
<1>4. \A k \in 1..n : k - 1 \in T => k \in T
  <2> TAKE k \in 1..n
  <2> HAVE k - 1 \in T
  <2>1. Upto(k) = Upto(k - 1) \cup parts[k]
    <3>1. \A j : j \in 1..k <=> j \in 1..(k - 1) \/ j = k
      OBVIOUS
    <3> QED BY <3>1
  <2>2. Upto(k - 1) \cap parts[k] = {}
    <3>1. \A j \in 1..(k - 1) : parts[j] \cap parts[k] = {}
      OBVIOUS
    <3> QED BY <3>1
  <2>3. IsFiniteSet(Upto(k - 1)) /\ Cardinality(Upto(k - 1)) = f[k - 1]
    OBVIOUS
  <2> HIDE DEF Upto
  <2>4. PICK U, P : U = Upto(k - 1) /\ P = parts[k]
    OBVIOUS
  <2>5. IsFiniteSet(U) /\ IsFiniteSet(P) /\ U \cap P = {}
    BY <2>2, <2>3, <2>4
  <2>6. /\ IsFiniteSet(U \cup P)
        /\ Cardinality(U \cup P) = Cardinality(U) + Cardinality(P) - Cardinality(U \cap P)
    BY <2>5, FS_Union
  <2>7. Cardinality(U \cap P) = 0
    BY <2>5, FS_EmptySet
  <2>8. Cardinality(U) \in Nat /\ Cardinality(P) \in Nat
    BY <2>5, FS_CardinalityType
  <2>9. f[k] = f[k - 1] + counts[k]
    BY <1>2 DEF IsTotal
  <2>10. Cardinality(U \cup P) = f[k]
    BY <2>3, <2>4, <2>6, <2>7, <2>8, <2>9
  <2>11. IsFiniteSet(Upto(k)) /\ Cardinality(Upto(k)) = f[k]
    BY <2>1, <2>4, <2>6, <2>10
  <2>12. k \in 0..n
    OBVIOUS
  <2> QED BY <2>11, <2>12
<1>5. \A k \in 0..n : k \in T
  <2> HIDE DEF T
  <2> QED BY <1>3, <1>4, Throughout
<1>6. n \in 0..n
  OBVIOUS
<1>7. Joint(parts, n) = Upto(n)
  BY DEF Joint
<1>8. IsFiniteSet(Upto(n)) /\ Cardinality(Upto(n)) = f[n]
  BY <1>5, <1>6
<1> QED
  BY <1>2, <1>7, <1>8

LEMMA TotalOfOnes ==
  ASSUME NEW n \in Nat, NEW ones, Len(ones) = n, \A k \in 1..n : ones[k] = 1
  PROVE  Total(ones) = n
<1>1. PICK parts : parts = [k \in 1..n |-> {k}]
  OBVIOUS
<1>2. \A k \in 1..n : IsFiniteSet(parts[k]) /\ ones[k] = Cardinality(parts[k])
  <2> TAKE k \in 1..n
  <2>1. parts[k] = {k} /\ ones[k] = 1
    BY <1>1
  <2>2. IsFiniteSet({k}) /\ Cardinality({k}) = 1
    BY FS_Singleton
  <2> QED BY <2>1, <2>2
<1>3. \A j, k \in 1..n : j < k => parts[j] \cap parts[k] = {}
  BY <1>1
<1>4. Total(ones) = Cardinality(Joint(parts, n))
  <2>1. ArePartsOf(parts, ones, n)
    BY <1>2, <1>3 DEF ArePartsOf
  <2> QED BY <2>1, TotalOfParts
<1>5. Joint(parts, n) = 1..n
  BY <1>1 DEF Joint
<1>6. 1 \in Int /\ n \in Int
  OBVIOUS
<1>7. Cardinality(1..n) = n
  <2>1. Cardinality(1..n) = IF 1 > n THEN 0 ELSE n - 1 + 1
    BY <1>6, FS_Interval
  <2> QED BY <2>1
<1> QED
  BY <1>4, <1>5, <1>7

\* What is dropped in the clusters of N proposals, and what is not.
LEMMA DroppedIsCounted ==
  ASSUME NEW cl, NEW sorted, NEW n \in Nat, Clustering(cl, sorted, n),
         NEW temporal, NEW semantic, NEW m \in Nat, Len(cl) = m, Len(temporal) = m, Len(semantic) = m,
         \A c \in 1..m : temporal[c] = Cardinality(TemporalDuplicates(sorted, cl[c])),
         \A c \in 1..m : semantic[c] = Cardinality(cl[c]) - 1 - temporal[c]
  PROVE  /\ Total(temporal) \in Int /\ Total(semantic) \in Int
         /\ n = m + Total(temporal) + Total(semantic)
<1>1. /\ DOMAIN cl = 1..m
      /\ \A c \in 1..m : cl[c] # {} /\ cl[c] \subseteq 1..n
      /\ \A i \in 1..n : \E c \in 1..m : i \in cl[c]
      /\ \A c, d \in 1..m : c < d => cl[c] \cap cl[d] = {}
  <2>1. DOMAIN cl = 1..m
    <3>1. PICK N : N = SUBSET Nat
      OBVIOUS
    <3>2. cl \in Seq(N)
      BY <3>1 DEF Clustering
    <3> QED BY <3>2
  <2> QED BY <2>1 DEF Clustering
<1>2. 1 \in Int /\ n \in Int
  OBVIOUS
<1>3. IsFiniteSet(1..n) /\ Cardinality(1..n) = n
  <2>1. IsFiniteSet(1..n) /\ Cardinality(1..n) = IF 1 > n THEN 0 ELSE n - 1 + 1
    BY <1>2, FS_Interval
  <2> QED BY <2>1
<1>4. \A c \in 1..m : IsFiniteSet(cl[c])
  BY <1>1, <1>3, FS_Subset
<1>5. \A c \in 1..m : Cardinality(cl[c]) \in Nat
  BY <1>4, FS_CardinalityType
<1>6. \A c \in 1..m : temporal[c] \in Nat
  <2> TAKE c \in 1..m
  <2>1. TemporalDuplicates(sorted, cl[c]) \in SUBSET cl[c]
    BY DEF TemporalDuplicates
  <2>2. IsFiniteSet(TemporalDuplicates(sorted, cl[c]))
    BY <1>4, <2>1, FS_Subset
  <2>3. Cardinality(TemporalDuplicates(sorted, cl[c])) \in Nat
    BY <2>2, FS_CardinalityType
  <2> QED BY <2>3
<1>7. PICK sizes, ones, rest :
         /\ sizes = [c \in 1..m |-> Cardinality(cl[c])]
         /\ ones = [c \in 1..m |-> 1]
         /\ rest = [c \in 1..m |-> Cardinality(cl[c]) - 1]
  OBVIOUS
<1>8. /\ Len(sizes) = m /\ Len(ones) = m /\ Len(rest) = m
      /\ \A c \in 1..m : sizes[c] = Cardinality(cl[c]) /\ ones[c] = 1 /\ rest[c] = Cardinality(cl[c]) - 1
  BY <1>7
<1>9. Total(sizes) = n
  <2>1. \A c \in 1..m : IsFiniteSet(cl[c]) /\ sizes[c] = Cardinality(cl[c])
    BY <1>4, <1>8
  <2>2. ArePartsOf(cl, sizes, m)
    BY <2>1, <1>1, <1>8 DEF ArePartsOf
  <2>3. Total(sizes) = Cardinality(Joint(cl, m))
    BY <2>2, TotalOfParts
  <2>4. Joint(cl, m) = 1..n
    BY <1>1 DEF Joint
  <2> QED BY <2>3, <2>4, <1>3
<1>10. Total(ones) = m
  BY <1>8, TotalOfOnes
<1>11. Total(ones) \in Int /\ Total(rest) \in Int /\ Total(sizes) = Total(ones) + Total(rest)
  <2>1. \A c \in 1..m : ones[c] \in Int /\ rest[c] \in Int /\ sizes[c] = ones[c] + rest[c]
    <3> TAKE c \in 1..m
    <3>1. PICK s \in Nat : s = Cardinality(cl[c])
      BY <1>5
    <3> QED BY <3>1, <1>8
  <2>2. AddUp(ones, rest, sizes, m)
    BY <2>1, <1>8 DEF AddUp
  <2> QED BY <2>2, TotalsAdd
<1>12. Total(temporal) \in Int /\ Total(semantic) \in Int /\ Total(rest) = Total(temporal) + Total(semantic)
  <2>1. \A c \in 1..m : temporal[c] \in Int /\ semantic[c] \in Int /\ rest[c] = temporal[c] + semantic[c]
    <3> TAKE c \in 1..m
    <3>1. PICK s \in Nat, t \in Nat : s = Cardinality(cl[c]) /\ t = temporal[c]
      BY <1>5, <1>6
    <3>2. semantic[c] = s - 1 - t /\ rest[c] = s - 1
      BY <3>1, <1>8
    <3> QED BY <3>1, <3>2
  <2>2. AddUp(temporal, semantic, rest, m)
    BY <2>1, <1>8 DEF AddUp
  <2> QED BY <2>2, TotalsAdd
<1> QED
  BY <1>9, <1>10, <1>11, <1>12

LEMMA SelectionIsSound ==
  ASSUME NEW proposals, IsFiniteSet(proposals), AreProposals(proposals), NEW count \in Nat \ {0},
         \A p \in proposals : Duration(p) \in MinDuration..MaxDuration
  PROVE  DistinctAndBest(proposals, Selected(proposals, count), count)
<1>1. PICK good : good = {p \in proposals : passesQuality(p)}
  OBVIOUS
<1>2. good \in SUBSET proposals /\ IsFiniteSet(good) /\ AreProposals(good)
  <2>1. good \in SUBSET proposals
    BY <1>1
  <2> QED BY <2>1, FS_Subset DEF AreProposals
<1>3. PICK sorted, n : sorted = BestFirst(good) /\ n = Cardinality(good)
  OBVIOUS
<1>4. /\ n \in Nat /\ sorted \in [1..n -> good]
      /\ \A i, j \in 1..n : i < j => compareCandidates(sorted[i], sorted[j])
      /\ \A x \in good : \E i \in 1..n : sorted[i] = x
  <2>1. Cardinality(good) \in Nat
    BY <1>2, BestFirstSorts
  <2>2. BestFirst(good) \in [1..Cardinality(good) -> good]
    BY <1>2, BestFirstSorts
  <2>3. \A i, j \in 1..Cardinality(good) : i < j => compareCandidates(BestFirst(good)[i], BestFirst(good)[j])
    BY <1>2, BestFirstSorts
  <2>4. \A x \in good : \E i \in 1..Cardinality(good) : BestFirst(good)[i] = x
    BY <1>2, BestFirstSorts
  <2> QED BY <1>3, <2>1, <2>2, <2>3, <2>4
<1>5. Len(sorted) = n
  BY <1>4
<1>6. PICK cl, m : cl = clusterProposals(sorted) /\ m = Len(cl)
  OBVIOUS
<1>7. Clustering(cl, sorted, n)
  BY <1>4, <1>5, <1>6, ClustersAre
<1>8. m \in Nat /\ DOMAIN cl = 1..m /\ \A c \in 1..m : cl[c] \in SUBSET Nat
  <2>1. PICK N : N = SUBSET Nat
    OBVIOUS
  <2>2. cl \in Seq(N)
    BY <1>7, <2>1 DEF Clustering
  <2> QED BY <2>1, <2>2, <1>6
<1>9. /\ \A c \in 1..m : cl[c] # {} /\ cl[c] \subseteq 1..n
      /\ \A i \in 1..n : \E c \in 1..m : i \in cl[c]
      /\ \A c, d \in 1..m : c < d => Min(cl[c]) < Min(cl[d])
      /\ \A c, d \in 1..m : c < d => ~candidatesConflict(sorted[Min(cl[c])], sorted[Min(cl[d])])
      /\ \A c \in 1..m : \A i \in cl[c] :
           i # Min(cl[c]) => candidatesConflict(sorted[Min(cl[c])], sorted[i])
  BY <1>7, <1>8 DEF Clustering
<1>10. \A c \in 1..m : Min(cl[c]) \in 1..n /\ \A y \in cl[c] : Min(cl[c]) <= y
  <2> TAKE c \in 1..m
  <2>1. Min(cl[c]) \in cl[c] /\ \A y \in cl[c] : Min(cl[c]) <= y
    BY <1>8, <1>9, MinIs
  <2> QED BY <2>1, <1>9
<1>11. PICK best : best = [c \in 1..m |-> sorted[Min(cl[c])]]
  OBVIOUS
<1>12. best \in [1..m -> good] /\ \A c \in 1..m : best[c] = sorted[Min(cl[c])]
  BY <1>4, <1>10, <1>11
<1>13. PICK temporal : temporal = [c \in 1..m |-> Cardinality(TemporalDuplicates(sorted, cl[c]))]
  OBVIOUS
<1>14. PICK semantic : semantic = [c \in 1..m |-> Cardinality(cl[c]) - 1 - temporal[c]]
  OBVIOUS
<1>15. PICK upto : upto = IF m > count THEN count ELSE m
  OBVIOUS
<1>16. PICK candidates : candidates = SubSeq(best, 1, upto)
  OBVIOUS
<1>17. Selected(proposals, count) =
         [candidates |-> candidates, found |-> m, quality |-> Cardinality(proposals) - n,
          overlap |-> Total(temporal), semantic |-> Total(semantic)]
  <2>1. Len(best) = m
    BY <1>8, <1>12
  <2>2. best = [c \in DOMAIN cl |-> sorted[Best(cl[c])]]
    BY <1>8, <1>11 DEF Best
  <2>3. temporal = [c \in DOMAIN cl |-> Cardinality(TemporalDuplicates(sorted, cl[c]))]
    BY <1>8, <1>13
  <2>4. semantic = [c \in DOMAIN cl |-> Cardinality(cl[c]) - 1 - temporal[c]]
    BY <1>8, <1>14
  <2> QED BY <1>1, <1>3, <1>6, <1>15, <1>16, <2>1, <2>2, <2>3, <2>4, Zenon DEF Selected
<1>18. PICK result : result = Selected(proposals, count)
  OBVIOUS
<1>19. /\ result.candidates = candidates /\ result.found = m
       /\ result.quality = Cardinality(proposals) - n
       /\ result.overlap = Total(temporal) /\ result.semantic = Total(semantic)
  BY <1>17, <1>18
<1>20. /\ upto \in 0..m /\ upto <= count /\ (upto < m => m > count)
       /\ (m >= 1 => 1 \in 1..upto)
  BY <1>8, <1>15
<1>21. DOMAIN candidates = 1..upto /\ \A c \in 1..upto : candidates[c] = best[c]
  <2>1. best \in Seq(good) /\ Len(best) = m
    BY <1>8, <1>12
  <2> QED BY <2>1, <1>16, <1>20
<1>22. PICK chosen : chosen = {result.candidates[c] : c \in DOMAIN result.candidates}
  OBVIOUS
<1>23. \A p : p \in chosen <=> \E c \in 1..upto : p = best[c]
  BY <1>19, <1>21, <1>22
<1>24. 1..upto \subseteq 1..m
  BY <1>20, <1>8
<1>25. \A p, q \in chosen : p # q => ~candidatesConflict(p, q)
  <2> TAKE p, q \in chosen
  <2> HAVE p # q
  <2>1. PICK c \in 1..m, d \in 1..m : p = best[c] /\ q = best[d]
    BY <1>23, <1>24
  <2>2. c # d
    BY <2>1
  <2>3. \A i, j \in 1..m : i < j => ~candidatesConflict(best[i], best[j])
    BY <1>9, <1>12
  <2>4. CASE c < d
    BY <2>1, <2>3, <2>4
  <2>5. CASE d < c
    <3>1. ~candidatesConflict(q, p)
      BY <2>1, <2>3, <2>5
    <3> QED BY <3>1, ConflictIsMutual
  <2> QED BY <2>2, <2>4, <2>5
<1>26. \A p \in chosen : Duration(p) \in MinDuration..MaxDuration
  BY <1>2, <1>12, <1>23, <1>24
<1>27. \A p \in proposals : passesQuality(p) => \E q \in chosen :
         /\ q.score >= p.score
         /\ q = p \/ candidatesConflict(q, p) \/ result.found > count
  <2> TAKE p \in proposals
  <2> HAVE passesQuality(p)
  <2>1. p \in good
    BY <1>1
  <2>2. PICK k \in 1..n : sorted[k] = p
    BY <2>1, <1>4
  <2>3. PICK c \in 1..m : k \in cl[c]
    BY <1>9
  <2>4. \A i \in 1..n : i <= k => sorted[i].score >= p.score
    <3> TAKE i \in 1..n
    <3> HAVE i <= k
    <3>1. sorted[i] \in good /\ p \in good
      BY <2>1, <1>4
    <3>2. sorted[i].score \in Int /\ p.score \in Int
      BY <3>1, <1>2 DEF AreProposals
    <3>3. i = k \/ i < k
      OBVIOUS
    <3>4. i < k => compareCandidates(sorted[i], p)
      BY <2>2, <1>4
    <3> QED BY <3>2, <3>3, <3>4, <2>2 DEF compareCandidates
  <2>5. CASE c <= upto
    <3>1. c \in 1..upto
      BY <2>5, <1>20
    <3>2. best[c] \in chosen /\ best[c] = sorted[Min(cl[c])]
      BY <3>1, <1>12, <1>23
    <3>3. Min(cl[c]) \in 1..n /\ Min(cl[c]) <= k
      BY <2>3, <1>10
    <3>4. best[c].score >= p.score
      BY <3>2, <3>3, <2>4
    <3>5. best[c] = p \/ candidatesConflict(best[c], p)
      <4>1. k = Min(cl[c]) => best[c] = p
        BY <3>2, <2>2
      <4>2. k # Min(cl[c]) => candidatesConflict(sorted[Min(cl[c])], sorted[k])
        BY <2>3, <1>9
      <4> QED BY <4>1, <4>2, <3>2, <2>2
    <3> QED BY <3>2, <3>4, <3>5
  <2>6. CASE ~(c <= upto)
    <3>1. upto < m /\ m >= 1 /\ 1 < c
      BY <2>6, <1>20, <1>8
    <3>2. result.found > count /\ 1 \in 1..upto /\ 1 \in 1..m
      BY <3>1, <1>8, <1>19, <1>20
    <3>3. best[1] \in chosen /\ best[1] = sorted[Min(cl[1])]
      BY <3>2, <1>12, <1>23
    <3>4. Min(cl[1]) \in 1..n /\ Min(cl[c]) \in 1..n /\ Min(cl[1]) < Min(cl[c]) /\ Min(cl[c]) <= k
      BY <3>1, <3>2, <2>3, <1>9, <1>10
    <3>5. best[1].score >= p.score
      BY <3>3, <3>4, <2>4
    <3> QED BY <3>2, <3>3, <3>5
  <2> QED BY <2>5, <2>6
<1>28. Cardinality(proposals) = result.found + result.quality + result.overlap + result.semantic
  <2>1. Len(temporal) = m /\ \A c \in 1..m : temporal[c] = Cardinality(TemporalDuplicates(sorted, cl[c]))
    BY <1>8, <1>13
  <2>2. Len(semantic) = m /\ \A c \in 1..m : semantic[c] = Cardinality(cl[c]) - 1 - temporal[c]
    BY <1>8, <1>14
  <2>3. /\ Total(temporal) \in Int /\ Total(semantic) \in Int
        /\ n = m + Total(temporal) + Total(semantic)
    BY <2>1, <2>2, <1>4, <1>6, <1>7, <1>8, DroppedIsCounted
  <2>4. Cardinality(proposals) \in Nat
    BY FS_CardinalityType
  <2>5. PICK a \in Int, b \in Int, x \in Nat : a = Total(temporal) /\ b = Total(semantic) /\ x = Cardinality(proposals)
    BY <2>3, <2>4
  <2>6. n = m + a + b /\ n \in Nat /\ m \in Nat
    BY <2>3, <2>5, <1>4, <1>8
  <2>7. /\ result.found = m /\ result.quality = x - n /\ result.overlap = a /\ result.semantic = b
    BY <2>5, <1>19
  <2>8. x = m + (x - n) + a + b
    BY <2>5, <2>6
  <2> QED BY <2>5, <2>7, <2>8
<1> QED
  BY <1>18, <1>22, <1>25, <1>26, <1>27, <1>28 DEF DistinctAndBest
-----------------------------------------------------------------------------
\* A transcript: its segments come one after the other, which timedSegmentsSchema demands.
IsTranscript(segments) ==
    /\ Len(segments) \in Nat /\ DOMAIN segments = 1..Len(segments)
    /\ \A i \in 1..Len(segments) :
         /\ segments[i].from \in Int /\ segments[i].to \in Int /\ segments[i].quality \in Int
         /\ segments[i].from < segments[i].to
    /\ \A i, j \in 1..Len(segments) : i < j => segments[i].to <= segments[j].from

LEMMA TimesGrow ==
  ASSUME NEW segments, IsTranscript(segments)
  PROVE  \A i, j \in 1..Len(segments) : i < j =>
           segments[i].from < segments[j].from /\ segments[i].to < segments[j].to
<1> TAKE i, j \in 1..Len(segments)
<1> HAVE i < j
<1>1. PICK a, b, c, d \in Int : a = segments[i].from /\ b = segments[i].to
                               /\ c = segments[j].from /\ d = segments[j].to
  BY DEF IsTranscript
<1>2. a < b /\ c < d /\ b <= c
  BY <1>1 DEF IsTranscript
<1> QED
  BY <1>1, <1>2

ArePairs(P, i, J) == P = {<<i, j>> : j \in J}

LEMMA PairsWith ==
  ASSUME NEW i, NEW J, NEW P, IsFiniteSet(J), ArePairs(P, i, J)
  PROVE  IsFiniteSet(P) /\ Cardinality(P) = Cardinality(J)
<1>1. P = {<<i, j>> : j \in J}
  BY DEF ArePairs
<1>2. PICK f : f = [j \in J |-> <<i, j>>]
  OBVIOUS
<1>3. f \in Bijection(J, P)
  <2>1. f \in [J -> P] /\ \A j \in J : f[j] = <<i, j>>
    BY <1>1, <1>2
  <2>2. \A a, b \in J : f[a] = f[b] => a = b
    BY <2>1
  <2>3. \A p \in P : \E j \in J : f[j] = p
    BY <1>1, <2>1
  <2> QED BY <2>1, <2>2, <2>3 DEF Bijection, Injection, Surjection, IsInjective
<1>4. ExistsBijection(J, P)
  BY <1>3 DEF ExistsBijection
<1> QED
  BY <1>4, FS_Bijection

LEMMA DisjointSizes ==
  ASSUME NEW A, NEW B, IsFiniteSet(A), IsFiniteSet(B), A \cap B = {}
  PROVE  /\ IsFiniteSet(A \cup B) /\ Cardinality(A) \in Nat /\ Cardinality(B) \in Nat
         /\ Cardinality(A \cup B) = Cardinality(A) + Cardinality(B)
<1>1. /\ IsFiniteSet(A \cup B)
      /\ Cardinality(A \cup B) = Cardinality(A) + Cardinality(B) - Cardinality(A \cap B)
  BY FS_Union
<1>2. Cardinality(A \cap B) = 0
  BY FS_EmptySet
<1>3. Cardinality(A) \in Nat /\ Cardinality(B) \in Nat
  BY FS_CardinalityType
<1> QED
  BY <1>1, <1>2, <1>3

\* The windows that begin with one segment.
WindowsOf(segments, i) == {w \in Windows(segments) : w[1] = i}
AllowedOf(segments, i) == {w \in Windows(segments) : w[1] = i /\ Allowed(segments, w)}

LEMMA RowIsCounted ==
  ASSUME NEW segments, IsTranscript(segments), NEW i \in 1..Len(segments)
  PROVE  /\ IsFiniteSet(WindowsOf(segments, i)) /\ IsFiniteSet(AllowedOf(segments, i))
         /\ RejectedFrom(segments, i) \in Nat /\ Cardinality(AllowedOf(segments, i)) \in Nat
         /\ Cardinality(WindowsOf(segments, i)) =
              RejectedFrom(segments, i) + Cardinality(AllowedOf(segments, i))
<1>1. PICK n \in Nat : n = Len(segments)
  BY DEF IsTranscript
<1>2. i \in 1..n /\ i \in Int /\ n \in Int /\ DOMAIN segments = 1..n
  BY <1>1 DEF IsTranscript
<1>3. MinDuration \in Int /\ MaxDuration \in Int /\ MinDuration <= MaxDuration
  BY DurationAssumption
<1> DEFINE length(j) == segments[j].to - segments[i].from
<1>4. \A j \in i..n : j \in 1..n /\ length(j) \in Int
  BY <1>1, <1>2 DEF IsTranscript
<1>5. \A j, k \in i..n : j < k => length(j) < length(k)
  <2> TAKE j, k \in i..n
  <2> HAVE j < k
  <2>1. PICK a, b, c \in Int : a = segments[j].to /\ b = segments[k].to /\ c = segments[i].from
    BY <1>1, <1>2, <1>4 DEF IsTranscript
  <2>2. a < b
    BY <1>1, <1>4, <2>1, TimesGrow
  <2>3. a - c < b - c
    BY <2>2
  <2>4. length(j) = a - c /\ length(k) = b - c
    BY <2>1
  <2> QED BY <2>3, <2>4
<1>6. PICK short, long, allowed :
        /\ short = {j \in i..n : length(j) < MinDuration}
        /\ long = {j \in i..n : length(j) > MaxDuration}
        /\ allowed = {j \in i..n : length(j) \in MinDuration..MaxDuration}
  OBVIOUS
<1>7. RejectedFrom(segments, i) = Cardinality(short) + IF long = {} THEN 0 ELSE n - Min(long) + 1
  BY <1>1, <1>6 DEF RejectedFrom
<1>8. WindowsOf(segments, i) = {<<i, j>> : j \in i..n}
  BY <1>2 DEF WindowsOf, Windows
<1>9. AllowedOf(segments, i) = {<<i, j>> : j \in allowed}
  <2>1. \A w : w \in AllowedOf(segments, i) => w \in {<<i, j>> : j \in allowed}
    <3> TAKE w
    <3> HAVE w \in AllowedOf(segments, i)
    <3>1. w \in {<<i, j>> : j \in i..n} /\ Allowed(segments, w)
      BY <1>8 DEF AllowedOf, WindowsOf
    <3>2. PICK j \in i..n : w = <<i, j>>
      BY <3>1
    <3>3. length(j) \in MinDuration..MaxDuration
      BY <3>1, <3>2 DEF Allowed
    <3>4. j \in allowed
      BY <3>3, <1>6
    <3> QED BY <3>2, <3>4
  <2>2. \A j \in allowed : <<i, j>> \in AllowedOf(segments, i)
    <3> TAKE j \in allowed
    <3>1. j \in i..n /\ length(j) \in MinDuration..MaxDuration
      BY <1>6
    <3>2. PICK w : w = <<i, j>>
      OBVIOUS
    <3>3. w \in WindowsOf(segments, i) /\ w[1] = i /\ w[2] = j
      BY <1>8, <3>1, <3>2
    <3>4. Allowed(segments, w)
      BY <3>1, <3>3 DEF Allowed
    <3> QED BY <3>2, <3>3, <3>4 DEF WindowsOf, AllowedOf
  <2> QED BY <2>1, <2>2
<1>10. IsFiniteSet(i..n)
  BY <1>2, FS_Interval
<1>11. IsFiniteSet(short) /\ IsFiniteSet(long) /\ IsFiniteSet(allowed)
  <2>1. short \in SUBSET (i..n) /\ long \in SUBSET (i..n) /\ allowed \in SUBSET (i..n)
    BY <1>6
  <2> QED BY <2>1, <1>10, FS_Subset
<1>12. short \cap long = {} /\ (short \cup long) \cap allowed = {} /\ (short \cup long) \cup allowed = i..n
  BY <1>3, <1>4, <1>6
<1>13. RejectedFrom(segments, i) = Cardinality(short) + Cardinality(long)
  <2>1. CASE long = {}
    BY <2>1, <1>7, FS_EmptySet
  <2>2. CASE long # {}
    <3>1. long \in SUBSET Nat
      BY <1>2, <1>6
    <3>2. PICK m : m = Min(long)
      OBVIOUS
    <3>3. m \in long /\ \A y \in long : m <= y
      BY <2>2, <3>1, <3>2, MinIs
    <3>4. m \in i..n /\ length(m) > MaxDuration
      BY <3>3, <1>6
    <3>5. \A j \in m..n : j \in i..n /\ length(j) > MaxDuration
      <4> TAKE j \in m..n
      <4>1. j \in i..n /\ (j = m \/ m < j)
        BY <3>4, <1>2
      <4>2. CASE j = m
        BY <4>1, <4>2, <3>4
      <4>3. CASE m < j
        <5>1. PICK a, b \in Int : a = length(m) /\ b = length(j)
          BY <4>1, <3>4, <1>4
        <5>2. a < b /\ a > MaxDuration
          BY <4>1, <4>3, <3>4, <5>1, <1>5
        <5>3. b > MaxDuration
          BY <5>2, <1>3
        <5> QED BY <4>1, <5>1, <5>3
      <4> QED BY <4>1, <4>2, <4>3
    <3>6. long = m..n
      <4>1. \A j \in long : j \in m..n
        BY <3>3, <3>4, <1>2, <1>6
      <4>2. \A j \in m..n : j \in long
        BY <3>5, <1>6
      <4> QED BY <4>1, <4>2
    <3>7. m \in Int /\ m <= n
      BY <3>4, <1>2
    <3>8. Cardinality(m..n) = IF m > n THEN 0 ELSE n - m + 1
      BY <3>7, <1>2, FS_Interval
    <3> HIDE DEF length
    <3>9. Cardinality(long) = n - m + 1
      BY <3>6, <3>7, <3>8, <1>2
    <3> QED BY <2>2, <3>2, <3>9, <1>7
  <2> QED BY <2>1, <2>2
<1> HIDE DEF length
<1>14. PICK s, l, a, t \in Nat : s = Cardinality(short) /\ l = Cardinality(long) /\ a = Cardinality(allowed)
                                  /\ t = Cardinality(i..n)
  BY <1>10, <1>11, FS_CardinalityType
<1>15. IsFiniteSet(short \cup long) /\ Cardinality(short \cup long) = s + l
  BY <1>11, <1>12, <1>14, DisjointSizes
<1>16. t = s + l + a
  <2>1. Cardinality((short \cup long) \cup allowed) = (s + l) + a
    BY <1>11, <1>12, <1>14, <1>15, DisjointSizes
  <2> QED BY <2>1, <1>12, <1>14
<1>17. /\ IsFiniteSet(WindowsOf(segments, i)) /\ Cardinality(WindowsOf(segments, i)) = t
       /\ IsFiniteSet(AllowedOf(segments, i)) /\ Cardinality(AllowedOf(segments, i)) = a
  <2>1. PICK w, v, row : w = WindowsOf(segments, i) /\ v = AllowedOf(segments, i) /\ row = i..n
    OBVIOUS
  <2>2. ArePairs(w, i, row) /\ ArePairs(v, i, allowed)
    BY <2>1, <1>8, <1>9 DEF ArePairs
  <2>3. IsFiniteSet(w) /\ Cardinality(w) = Cardinality(row)
    BY <2>1, <2>2, <1>10, PairsWith
  <2>4. IsFiniteSet(v) /\ Cardinality(v) = Cardinality(allowed)
    BY <2>2, <1>11, PairsWith
  <2> QED BY <2>1, <2>3, <2>4, <1>14
<1>18. RejectedFrom(segments, i) = s + l
  BY <1>13, <1>14
<1> QED
  BY <1>14, <1>16, <1>17, <1>18
LEMMA WindowsCounted ==
  ASSUME NEW segments, IsTranscript(segments)
  PROVE  WindowsAreCounted(segments)
<1>1. PICK n \in Nat : n = Len(segments)
  BY DEF IsTranscript
<1>2. DOMAIN segments = 1..n
  BY <1>1 DEF IsTranscript
<1>3. PICK all, allowed, rejected, sizes, kept :
        /\ all = [i \in 1..n |-> WindowsOf(segments, i)]
        /\ allowed = [i \in 1..n |-> AllowedOf(segments, i)]
        /\ rejected = [i \in 1..n |-> RejectedFrom(segments, i)]
        /\ sizes = [i \in 1..n |-> Cardinality(WindowsOf(segments, i))]
        /\ kept = [i \in 1..n |-> Cardinality(AllowedOf(segments, i))]
  OBVIOUS
<1>4. \A i \in 1..n : /\ all[i] = WindowsOf(segments, i) /\ allowed[i] = AllowedOf(segments, i)
                      /\ rejected[i] = RejectedFrom(segments, i)
                      /\ sizes[i] = Cardinality(WindowsOf(segments, i))
                      /\ kept[i] = Cardinality(AllowedOf(segments, i))
  BY <1>3
<1>5. Len(rejected) = n /\ Len(sizes) = n /\ Len(kept) = n
  BY <1>3
<1>6. \A i \in 1..n :
        /\ IsFiniteSet(WindowsOf(segments, i)) /\ IsFiniteSet(AllowedOf(segments, i))
        /\ RejectedFrom(segments, i) \in Nat /\ Cardinality(AllowedOf(segments, i)) \in Nat
        /\ Cardinality(WindowsOf(segments, i)) =
             RejectedFrom(segments, i) + Cardinality(AllowedOf(segments, i))
  BY <1>1, RowIsCounted
<1>7. ArePartsOf(all, sizes, n)
  <2>1. \A i, j \in 1..n : i < j => all[i] \cap all[j] = {}
    <3> TAKE i, j \in 1..n
    <3> HAVE i < j
    <3>1. \A w : ~(w \in WindowsOf(segments, i) /\ w \in WindowsOf(segments, j))
      BY DEF WindowsOf
    <3> QED BY <3>1, <1>4
  <2>2. \A i \in 1..n : IsFiniteSet(all[i]) /\ sizes[i] = Cardinality(all[i])
    BY <1>4, <1>6
  <2> QED BY <1>5, <2>1, <2>2 DEF ArePartsOf
<1>8. ArePartsOf(allowed, kept, n)
  <2>1. \A i, j \in 1..n : i < j => allowed[i] \cap allowed[j] = {}
    <3> TAKE i, j \in 1..n
    <3> HAVE i < j
    <3>1. \A w : ~(w \in AllowedOf(segments, i) /\ w \in AllowedOf(segments, j))
      BY DEF AllowedOf
    <3> QED BY <3>1, <1>4
  <2>2. \A i \in 1..n : IsFiniteSet(allowed[i]) /\ kept[i] = Cardinality(allowed[i])
    BY <1>4, <1>6
  <2> QED BY <1>5, <2>1, <2>2 DEF ArePartsOf
<1>9. AddUp(rejected, kept, sizes, n)
  <2>1. \A i \in 1..n : rejected[i] \in Int /\ kept[i] \in Int /\ sizes[i] = rejected[i] + kept[i]
    BY <1>4, <1>6
  <2> QED BY <1>5, <2>1 DEF AddUp
<1>10. Total(sizes) = Total(rejected) + Total(kept)
  BY <1>9, TotalsAdd
<1>11. Total(sizes) = Cardinality(Joint(all, n))
  BY <1>7, TotalOfParts
<1>12. Total(kept) = Cardinality(Joint(allowed, n))
  BY <1>8, TotalOfParts
<1>13. \A w \in Windows(segments) : w[1] \in 1..n
  BY <1>2 DEF Windows
<1>14. Joint(all, n) = Windows(segments)
  <2>1. \A w \in Windows(segments) : w \in all[w[1]]
    BY <1>4, <1>13 DEF WindowsOf
  <2>2. \A i \in 1..n : \A w \in all[i] : w \in Windows(segments)
    BY <1>4 DEF WindowsOf
  <2> QED BY <2>1, <2>2, <1>13 DEF Joint
<1>15. Joint(allowed, n) = {w \in Windows(segments) : Allowed(segments, w)}
  <2>1. PICK A : A = {w \in Windows(segments) : Allowed(segments, w)}
    OBVIOUS
  <2>2. \A w \in A : w[1] \in 1..n /\ w \in allowed[w[1]]
    BY <2>1, <1>4, <1>13 DEF AllowedOf
  <2>3. \A i \in 1..n : \A w \in allowed[i] : w \in A
    BY <2>1, <1>4 DEF AllowedOf
  <2> QED BY <2>1, <2>2, <2>3 DEF Joint
<1>16. RejectedDurations(segments) = Total(rejected)
  BY <1>2, <1>3 DEF RejectedDurations
<1> QED
  BY <1>10, <1>11, <1>12, <1>14, <1>15, <1>16 DEF WindowsAreCounted

\* A window of whole segments around those touched, from first to last.
Encloses(segments, w, first, last) ==
    /\ w \in (1..Len(segments)) \X (1..Len(segments))
    /\ w[1] <= first /\ last <= w[2]

LEMMA WidenedCovers ==
  ASSUME NEW segments, IsTranscript(segments), NEW w, NEW first \in Nat, NEW last \in Nat, first <= last,
         Encloses(segments, w, first, last), Widened(segments, w) # <<>>
  PROVE  /\ Encloses(segments, Widened(segments, w), first, last)
         /\ \/ Allowed(segments, w) /\ Widened(segments, w) = w
            \/ Widened(segments, w)[2] - Widened(segments, w)[1] = w[2] - w[1] + 1
<1>1. PICK n \in Nat : n = Len(segments)
  BY DEF IsTranscript
<1>2. PICK a \in 1..n, b \in 1..n : w = <<a, b>>
  BY <1>1 DEF Encloses
<1>3. w[1] = a /\ w[2] = b /\ a <= first /\ last <= b
  BY <1>2 DEF Encloses
<1>4. MinDuration \in Int /\ MaxDuration \in Int
  BY DurationAssumption
<1>5. PICK d \in Int : d = segments[b].to - segments[a].from
  BY <1>1 DEF IsTranscript
<1>6. PICK v : v = Widened(segments, w)
  OBVIOUS
<1>7. w # <<>>
  BY <1>2
<1>8. d <= MaxDuration
  BY <1>3, <1>4, <1>5, <1>7 DEF Widened
<1>9. CASE d >= MinDuration
  <2>1. v = w
    BY <1>3, <1>4, <1>5, <1>6, <1>7, <1>8, <1>9 DEF Widened
  <2>2. Allowed(segments, w)
    BY <1>3, <1>4, <1>5, <1>8, <1>9 DEF Allowed
  <2> QED BY <2>1, <2>2, <1>6
<1>10. CASE ~(d >= MinDuration)
  <2>1. \/ a > 1 /\ v = <<a - 1, b>>
        \/ b < n /\ v = <<a, b + 1>>
    BY <1>1, <1>3, <1>4, <1>5, <1>6, <1>7, <1>8, <1>10 DEF Widened
  <2>2. CASE a > 1 /\ v = <<a - 1, b>>
    <3>1. a - 1 \in 1..n /\ v[1] = a - 1 /\ v[2] = b
      BY <2>2, <1>1
    <3>2. a - 1 <= first /\ b - (a - 1) = b - a + 1
      BY <1>3
    <3>3. Encloses(segments, v, first, last)
      BY <2>2, <3>1, <3>2, <1>1, <1>3 DEF Encloses
    <3> QED BY <3>1, <3>2, <3>3, <1>3, <1>6
  <2>3. CASE b < n /\ v = <<a, b + 1>>
    <3>1. b + 1 \in 1..n /\ v[1] = a /\ v[2] = b + 1
      BY <2>3, <1>1
    <3>2. last <= b + 1 /\ (b + 1) - a = b - a + 1
      BY <1>3
    <3>3. Encloses(segments, v, first, last)
      BY <2>3, <3>1, <3>2, <1>1, <1>3 DEF Encloses
    <3> QED BY <3>1, <3>2, <3>3, <1>3, <1>6
  <2> QED BY <2>1, <2>2, <2>3
<1> QED
  BY <1>9, <1>10

\* What the window of a highlight is after k rounds.
IsWidening(segments, w, first, last, k) ==
    \/ w = <<>>
    \/ Encloses(segments, w, first, last) /\ (Allowed(segments, w) \/ w[2] - w[1] >= k)

LEMMA WidenedIsTyped ==
  ASSUME NEW segments, IsTranscript(segments), NEW w,
         w = <<>> \/ w \in (1..Len(segments)) \X (1..Len(segments))
  PROVE  \/ Widened(segments, w) = <<>>
         \/ Widened(segments, w) \in (1..Len(segments)) \X (1..Len(segments))
<1>1. PICK n \in Nat : n = Len(segments)
  BY DEF IsTranscript
<1>2. CASE w = <<>>
  BY <1>2 DEF Widened
<1>3. CASE w # <<>>
  <2>1. PICK a \in 1..n, b \in 1..n : w = <<a, b>>
    BY <1>1, <1>3
  <2>2. w[1] = a /\ w[2] = b
    BY <2>1
  <2>3. \/ Widened(segments, w) = <<>> \/ Widened(segments, w) = w
        \/ a > 1 /\ Widened(segments, w) = <<a - 1, b>>
        \/ b < n /\ Widened(segments, w) = <<a, b + 1>>
    BY <1>1, <1>3, <2>2 DEF Widened
  <2>4. (a > 1 => a - 1 \in 1..n) /\ (b < n => b + 1 \in 1..n)
    OBVIOUS
  <2> QED BY <2>1, <2>3, <2>4, <1>1
<1> QED
  BY <1>2, <1>3

LEMMA WideningGoesOn ==
  ASSUME NEW segments, IsTranscript(segments), NEW w, NEW first \in Nat, NEW last \in Nat, first <= last,
         NEW j \in Nat, IsWidening(segments, w, first, last, j)
  PROVE  IsWidening(segments, Widened(segments, w), first, last, j + 1)
<1>1. PICK v : v = Widened(segments, w)
  OBVIOUS
<1>2. CASE w = <<>>
  BY <1>2 DEF Widened, IsWidening
<1>3. CASE v = <<>>
  BY <1>1, <1>3 DEF IsWidening
<1>4. CASE w # <<>> /\ v # <<>>
  <2>1. Encloses(segments, w, first, last) /\ (Allowed(segments, w) \/ w[2] - w[1] >= j)
    BY <1>4 DEF IsWidening
  <2>2. /\ Encloses(segments, v, first, last)
        /\ \/ Allowed(segments, w) /\ v = w
           \/ v[2] - v[1] = w[2] - w[1] + 1
    BY <2>1, <1>1, <1>4, WidenedCovers
  <2>3. CASE Allowed(segments, w) /\ v = w
    BY <2>2, <2>3, <1>1 DEF IsWidening
  <2>4. CASE ~(Allowed(segments, w) /\ v = w)
    <3>1. PICK a, b, c, d \in Int : a = w[1] /\ b = w[2] /\ c = v[1] /\ d = v[2]
      BY <2>1, <2>2 DEF Encloses
    <3>2. d - c = b - a + 1
      BY <2>2, <2>4, <3>1
    <3>3. Allowed(segments, w) => v = w
      <4> HAVE Allowed(segments, w)
      <4>1. w[2] - w[1] + 0 = b - a
        BY <3>1
      <4> QED BY <1>1, <1>4, <2>1, DurationAssumption DEF Widened, Allowed, Encloses
    <3>4. b - a >= j
      BY <2>1, <2>4, <3>1, <3>3
    <3>5. v[2] - v[1] >= j + 1
      BY <3>1, <3>2, <3>4
    <3> QED BY <2>2, <3>5, <1>1 DEF IsWidening
  <2> QED BY <2>3, <2>4
<1> QED
  BY <1>2, <1>3, <1>4
LEMMA HighlightCovered ==
  ASSUME NEW segments, IsTranscript(segments), NEW highlight
  PROVE  HighlightsAreCovered(segments, highlight)
<1>1. PICK n \in Nat : n = Len(segments)
  BY DEF IsTranscript
<1>2. PICK touched : touched = Touched(segments, highlight)
  OBVIOUS
<1>3. touched \in SUBSET (1..n) /\ touched \in SUBSET Nat
  BY <1>1, <1>2 DEF Touched, IsTranscript
<1>4. CASE touched = {}
  <2>1. alignHighlight(segments, highlight) = <<>>
    BY <1>2, <1>4 DEF alignHighlight
  <2> QED BY <2>1 DEF HighlightsAreCovered
<1>5. CASE touched # {}
  <2>1. PICK first, last : first = Min(touched) /\ last = Max(touched)
    OBVIOUS
  <2>2. first \in touched /\ \A y \in touched : first <= y
    BY <1>3, <1>5, <2>1, MinIs
  <2>3. last \in touched /\ \A y \in touched : y <= last
    <3>1. \A y \in touched : y <= n
      BY <1>3
    <3> QED BY <3>1, <1>3, <1>5, <2>1, MaxIs
  <2>4. first \in 1..n /\ last \in 1..n /\ first \in Nat /\ last \in Nat /\ first <= last
    BY <1>3, <2>2, <2>3
  <2>5. PICK V, start : V = {<<>>} \cup ((1..n) \X (1..n)) /\ start = <<first, last>>
    OBVIOUS
  <2>6. start \in V
    BY <2>4, <2>5
  <2>7. PICK step : step = [k \in 1..n |-> [w \in V |-> Widened(segments, w)]]
    OBVIOUS
  <2>8. \A w \in V : Widened(segments, w) \in V
    <3> TAKE w \in V
    <3>1. w = <<>> \/ w \in (1..Len(segments)) \X (1..Len(segments))
      BY <1>1, <2>5
    <3>2. PICK v : v = Widened(segments, w)
      OBVIOUS
    <3>3. v = <<>> \/ v \in (1..Len(segments)) \X (1..Len(segments))
      BY <3>1, <3>2, WidenedIsTyped
    <3> QED BY <1>1, <2>5, <3>2, <3>3
  <2>9. step \in [1..n -> [V -> V]] /\ \A k \in 1..n : \A w \in V : step[k][w] = Widened(segments, w)
    BY <2>7, <2>8
  <2>10. PICK f : IsRun(f, V, n, start, step)
    BY <2>6, <2>9, Runs
  <2>11. f \in [0..n -> V] /\ f[0] = start /\ \A k \in 1..n : f[k] = step[k][f[k - 1]]
    BY <2>10 DEF IsRun
  <2> DEFINE Solution(h) == h = [k \in 0..n |-> IF k = 0 THEN <<Min(touched), Max(touched)>>
                                               ELSE Widened(segments, h[k - 1])]
  <2>12. Solution(f)
    <3>1. \A k \in 0..n : f[k] = IF k = 0 THEN <<Min(touched), Max(touched)>>
                                 ELSE Widened(segments, f[k - 1])
      <4> TAKE k \in 0..n
      <4>1. k = 0 => f[k] = <<Min(touched), Max(touched)>>
        BY <2>1, <2>5, <2>11
      <4>2. ASSUME k # 0 PROVE f[k] = Widened(segments, f[k - 1])
        <5>1. k \in 1..n /\ k - 1 \in 0..n
          BY <4>2
        <5>2. f[k - 1] \in V
          BY <5>1, <2>11
        <5> QED BY <5>1, <5>2, <2>9, <2>11
      <4> QED BY <4>1, <4>2
    <3>2. f = [k \in 0..n |-> f[k]]
      BY <2>11
    <3> QED BY <3>1, <3>2
  <2>13. PICK h : h = CHOOSE g : Solution(g)
    OBVIOUS
  <2>14. alignHighlight(segments, highlight) = h[n]
    BY <1>1, <1>2, <1>5, <2>13 DEF alignHighlight
  <2>15. Solution(h)
    BY <2>12, <2>13
  <2>16. h[0] = start /\ \A k \in 1..n : h[k] = Widened(segments, h[k - 1])
    <3>1. \A k \in 0..n : h[k] = IF k = 0 THEN <<Min(touched), Max(touched)>> ELSE Widened(segments, h[k - 1])
      BY ONLY <2>15
    <3>2. 0 \in 0..n /\ \A k \in 1..n : k \in 0..n /\ k # 0
      OBVIOUS
    <3> QED BY ONLY <3>1, <3>2, <2>1, <2>5
  <2> HIDE DEF Solution
  <2> DEFINE T == {k \in 0..n : IsWidening(segments, h[k], first, last, k)}
  <2>17. 0 \in T
    <3>1. Encloses(segments, start, first, last)
      BY <1>1, <2>4, <2>5 DEF Encloses
    <3>2. start[2] - start[1] >= 0
      BY <2>4, <2>5
    <3>3. IsWidening(segments, h[0], first, last, 0)
      BY <3>1, <3>2, <2>16 DEF IsWidening
    <3> QED BY <3>3
  <2>18. \A k \in 1..n : k - 1 \in T => k \in T
    <3> TAKE k \in 1..n
    <3> HAVE k - 1 \in T
    <3>1. PICK j \in Nat : j = k - 1
      OBVIOUS
    <3>2. IsWidening(segments, h[j], first, last, j)
      BY <3>1
    <3>3. IsWidening(segments, Widened(segments, h[j]), first, last, j + 1)
      BY <2>4, <3>2, WideningGoesOn
    <3>4. j + 1 = k /\ h[k] = Widened(segments, h[j]) /\ k \in 0..n
      BY <2>16, <3>1
    <3> QED BY <3>3, <3>4
  <2>19. \A k \in 0..n : k \in T
    <3> HIDE DEF T
    <3> QED BY <2>17, <2>18, Throughout
  <2>20. PICK window : window = alignHighlight(segments, highlight)
    OBVIOUS
  <2>21. IsWidening(segments, window, first, last, n)
    <3>1. n \in 0..n
      OBVIOUS
    <3> QED BY <3>1, <2>14, <2>19, <2>20
  <2>22. ASSUME window # <<>>
         PROVE  /\ Allowed(segments, window)
                /\ touched \subseteq window[1]..window[2]
    <3>1. Encloses(segments, window, first, last) /\ (Allowed(segments, window) \/ window[2] - window[1] >= n)
      BY <2>21, <2>22 DEF IsWidening
    <3>2. window[1] \in 1..n /\ window[2] \in 1..n /\ window[1] <= first /\ last <= window[2]
      BY <3>1, <1>1 DEF Encloses
    <3>3. ~(window[2] - window[1] >= n)
      BY <3>2
    <3>4. touched \subseteq window[1]..window[2]
      BY <3>2, <1>3, <2>2, <2>3, <2>4
    <3> QED BY <3>1, <3>3, <3>4
  <2> QED BY <1>2, <2>20, <2>22 DEF HighlightsAreCovered
<1> QED
  BY <1>4, <1>5

-----------------------------------------------------------------------------
\* The heuristic proposals are finitely many, differ in their times, and none
\* is too short or too long.
LEMMA HeuristicProposalsAre ==
  ASSUME NEW segments, IsTranscript(segments)
  PROVE  /\ IsFiniteSet(HeuristicProposals(segments)) /\ AreProposals(HeuristicProposals(segments))
         /\ \A p \in HeuristicProposals(segments) : Duration(p) \in MinDuration..MaxDuration
<1>1. PICK n \in Nat : n = Len(segments)
  BY DEF IsTranscript
<1>2. DOMAIN segments = 1..n
  BY <1>1 DEF IsTranscript
<1>3. PICK W : W = {v \in Windows(segments) : Allowed(segments, v)}
  OBVIOUS
<1>4. PICK S : S = HeuristicProposals(segments)
  OBVIOUS
<1>5. S = {Proposal(segments, w[1], w[2]) : w \in W}
  BY <1>3, <1>4 DEF HeuristicProposals
<1>6. IsFiniteSet(S)
  <2>1. 1 \in Int /\ n \in Int
    OBVIOUS
  <2>2. IsFiniteSet(1..n)
    BY <2>1, FS_Interval
  <2>3. IsFiniteSet((1..n) \X (1..n))
    BY <2>2, FS_Product
  <2>4. W \in SUBSET ((1..n) \X (1..n))
    BY <1>2, <1>3 DEF Windows
  <2>5. IsFiniteSet(W)
    BY <2>3, <2>4, FS_Subset
  <2>6. PICK f : f = [w \in W |-> Proposal(segments, w[1], w[2])]
    OBVIOUS
  <2>7. f \in Surjection(W, S)
    BY <1>5, <2>6 DEF Surjection
  <2> QED BY <2>5, <2>7, FS_Surjection
<1>7. \A p \in S : \E i, j \in 1..n :
        /\ i <= j /\ p = Proposal(segments, i, j)
        /\ p.from = segments[i].from /\ p.to = segments[j].to
        /\ p.score = 2 * segments[i].quality + segments[j].quality
        /\ segments[j].to - segments[i].from \in MinDuration..MaxDuration
  <2> TAKE p \in S
  <2>1. PICK w \in W : p = Proposal(segments, w[1], w[2])
    BY <1>5
  <2>2. PICK i, j \in 1..n : i = w[1] /\ j = w[2] /\ i <= j
    BY <2>1, <1>2, <1>3 DEF Windows
  <2>3. segments[j].to - segments[i].from \in MinDuration..MaxDuration
    BY <2>1, <2>2, <1>3 DEF Allowed
  <2>4. p = Proposal(segments, i, j)
    BY <2>1, <2>2
  <2>5. /\ p.from = segments[i].from /\ p.to = segments[j].to
        /\ p.score = 2 * segments[i].quality + segments[j].quality
    BY <2>4 DEF Proposal
  <2> QED BY <2>2, <2>3, <2>4, <2>5
<1>8. AreProposals(S)
  <2>1. \A p \in S : p.from \in Int /\ p.to \in Int /\ p.score \in Int
    <3> TAKE p \in S
    <3>1. PICK i, j \in 1..n :
            /\ p.from = segments[i].from /\ p.to = segments[j].to
            /\ p.score = 2 * segments[i].quality + segments[j].quality
      BY <1>7
    <3>2. PICK a, b, c, d \in Int : a = segments[i].from /\ b = segments[j].to
                                   /\ c = segments[i].quality /\ d = segments[j].quality
      BY <1>1 DEF IsTranscript
    <3>3. p.score = 2 * c + d
      BY <3>1, <3>2
    <3> QED BY <3>1, <3>2, <3>3
  <2>2. \A p, q \in S : p.from = q.from /\ p.to = q.to => p = q
    <3> TAKE p, q \in S
    <3> HAVE p.from = q.from /\ p.to = q.to
    <3>1. PICK i, j \in 1..n :
            p = Proposal(segments, i, j) /\ p.from = segments[i].from /\ p.to = segments[j].to
      BY <1>7
    <3>2. PICK k, l \in 1..n :
            q = Proposal(segments, k, l) /\ q.from = segments[k].from /\ q.to = segments[l].to
      BY <1>7
    <3>3. \A a, b \in 1..n : segments[a].from \in Int /\ segments[a].to \in Int
      BY <1>1 DEF IsTranscript
    <3>4. \A a, b \in 1..n : a < b => segments[a].from < segments[b].from /\ segments[a].to < segments[b].to
      BY <1>1, TimesGrow
    <3>5. \A a, b \in 1..n : segments[a].from = segments[b].from \/ segments[a].to = segments[b].to => a = b
      <4> TAKE a, b \in 1..n
      <4>1. PICK x, y, u, v \in Int : x = segments[a].from /\ y = segments[b].from
                                     /\ u = segments[a].to /\ v = segments[b].to
        BY <3>3
      <4>2. (a < b => x < y /\ u < v) /\ (b < a => y < x /\ v < u)
        BY <3>4, <4>1
      <4> QED BY <4>1, <4>2
    <3>6. i = k /\ j = l
      BY <3>1, <3>2, <3>5
    <3> QED BY <3>1, <3>2, <3>6
  <2> QED BY <2>1, <2>2 DEF AreProposals
<1>9. \A p \in S : Duration(p) \in MinDuration..MaxDuration
  BY <1>7 DEF Duration
<1> QED
  BY <1>4, <1>6, <1>8, <1>9

(***************************************************************************)
(* What a reader is offered of a transcript is distinct, of an allowed     *)
(* length and the best of what there is, and nothing is missing from the   *)
(* diagnostic; a highlight that is kept is covered.                        *)
(***************************************************************************)
THEOREM CandidatesAlwaysSound ==
  ASSUME NEW segments, IsTranscript(segments), NEW highlight, NEW count \in Nat \ {0}
  PROVE  CandidatesAreSound(segments, highlight, count)
<1>1. PICK S : S = HeuristicProposals(segments)
  OBVIOUS
<1>2. IsFiniteSet(S) /\ AreProposals(S) /\ \A p \in S : Duration(p) \in MinDuration..MaxDuration
  BY <1>1, HeuristicProposalsAre
<1>3. DistinctAndBest(S, Selected(S, count), count)
  BY <1>2, SelectionIsSound
<1> QED
  BY <1>1, <1>3, WindowsCounted, HighlightCovered DEF generateCandidates, CandidatesAreSound
=============================================================================
