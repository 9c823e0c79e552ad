----------------------------- MODULE DayPicture -----------------------------
(***************************************************************************)
(* One specialist's day as the dashboard draws it                           *)
(* (src/src/core/booking-operations/day-schedule-service.ts, buildDay):     *)
(* opening hours, breaks and exceptions become intervals, visits are laid   *)
(* side by side, and what is left over is offered for booking.  Minutes     *)
(* count from the start of the local day, in units of a quarter of an hour. *)
(* The loops are recursive functions over the list that the code walks; the *)
(* invariants compare what they compute with sets of minutes.  A sheet of   *)
(* rows is drawn after each row is added.                                   *)
(***************************************************************************)
EXTENDS Integers, FiniteSets, Sequences

CONSTANTS
    Spans,         \* intervals <<from, to>> that rows of the schedule may have
    VisitSpans,    \* the same for visits
    Buffers,       \* time that a service blocks before and after a visit
    DayUnits,      \* length of the day
    HourUnits,     \* 60 minutes
    SlotUnits,     \* SLOT_MINUTES
    DefaultView,   \* EMPTY_DAY_START_MINUTE, EMPTY_DAY_END_MINUTE
    MaxRows        \* bound on the rows of a sheet

ASSUME DayPictureAssumption ==
    /\ Spans \cup VisitSpans \subseteq Int \X Int /\ Buffers \subseteq Nat
    /\ {DayUnits, HourUnits, SlotUnits} \subseteq Nat \ {0} /\ MaxRows \in Nat
    /\ DayUnits % HourUnits = 0
    /\ DefaultView \in (0 .. DayUnits) \X (0 .. DayUnits)

VARIABLE sheet   \* ScheduleRule, ScheduleBreak, ScheduleException and Booking rows

(* Rules of the branch and of the specialist on this weekday; ownElsewhere: *)
(* the specialist has a rule on another weekday; breaks and exceptions for  *)
(* everybody or for the specialist.                                         *)
DayPictureTypeOK ==
    sheet \in [branchRules : SUBSET Spans, ownRules : SUBSET Spans, ownElsewhere : BOOLEAN,
               breaks : SUBSET Spans, opened : SUBSET Spans, closed : SUBSET Spans,
               visits : SUBSET (VisitSpans \X Buffers)]

---------------------------------------------------------------------------
(***************************************************************************)
(* day-intervals.ts                                                         *)
(***************************************************************************)
From(i) == i[1]
To(i) == i[2]
Later(a, b) == IF a >= b THEN a ELSE b
Earlier(a, b) == IF a <= b THEN a ELSE b
SpanBefore(i, j) == From(i) < From(j) \/ (From(i) = From(j) /\ To(i) <= To(j))

(* The elements of a finite set, one after another. *)
InOrder(set, Before(_, _)) ==
    CHOOSE line \in [1 .. Cardinality(set) -> set] :
        \A m, n \in 1 .. Cardinality(set) : m < n => line[m] # line[n] /\ Before(line[m], line[n])

(* Sorted; what overlaps or touches is merged. *)
MergeInto(merged, i) ==
    IF merged # <<>> /\ From(i) <= To(merged[Len(merged)])
    THEN [merged EXCEPT ![Len(merged)] = <<From(@), Later(To(@), To(i))>>]
    ELSE Append(merged, i)
Merging(line) ==
    LET merged[n \in 0 .. Len(line)] == IF n = 0 THEN <<>> ELSE MergeInto(merged[n - 1], line[n])
    IN  merged
NormalizeIntervals(set) ==
    LET line == InOrder({i \in set : To(i) > From(i)}, SpanBefore)
    IN  Merging(line)[Len(line)]

(* One interval with its holes cut out *)
CutHole(acc, hole) ==
    IF To(hole) <= acc.at \/ From(hole) >= acc.end THEN acc
    ELSE [acc EXCEPT !.at = Later(@, To(hole)),
                     !.kept = IF From(hole) > acc.at THEN @ \cup {<<acc.at, From(hole)>>} ELSE @]
Whole(i) == [at |-> From(i), end |-> To(i), kept |-> {}]
Cutting(i, holes) ==
    LET cut[n \in 0 .. Len(holes)] == IF n = 0 THEN Whole(i) ELSE CutHole(cut[n - 1], holes[n])
    IN  cut
CutHoles(i, holes) ==
    LET cut == Cutting(i, holes)[Len(holes)]
    IN  cut.kept \cup (IF cut.at < To(i) THEN {<<cut.at, To(i)>>} ELSE {})
SubtractIntervals(from, remove) ==
    LET whole == NormalizeIntervals(from)
        holes == NormalizeIntervals(remove)
    IN  UNION {CutHoles(whole[n], holes) : n \in 1 .. Len(whole)}

ClampInterval(i) == <<Later(From(i), 0), Earlier(To(i), DayUnits)>>
ClampIntervals(set) == {i \in {ClampInterval(j) : j \in set} : To(i) > From(i)}

---------------------------------------------------------------------------
(***************************************************************************)
(* buildDay                                                                 *)
(***************************************************************************)
(* A specialist with any rule is governed by those rules alone. *)
BaseIntervals ==
    IF sheet.ownElsewhere \/ sheet.ownRules # {} THEN sheet.ownRules ELSE sheet.branchRules
WorkingIntervals ==
    SubtractIntervals(BaseIntervals \cup ClampIntervals(sheet.opened),
                      sheet.breaks \cup ClampIntervals(sheet.closed))

(* Altered: the visit alone *)
VisitWindow(visit) == visit[1]

BlockedWindow(visit) == <<From(visit[1]) - visit[2], To(visit[1]) + visit[2]>>
FreeIntervals == SubtractIntervals(WorkingIntervals, {BlockedWindow(v) : v \in sheet.visits})

(* assignLanes: each visit takes the leftmost lane that is free at its      *)
(* start; laneCount is that of its run of overlapping visits.               *)
VisitBefore(v, w) == IF v[1] = w[1] THEN v[2] <= w[2] ELSE SpanBefore(v[1], w[1])
Ordered == InOrder(sheet.visits, VisitBefore)

(* Altered: a lane is free if its last visit begins earlier *)
BegunEarlier(lane, visit) == From(lane.last) < From(visit[1])

LaneFree(lane, visit) == To(lane.last) <= From(visit[1])
TakeLane(acc, visit) ==
    LET free == {k \in 1 .. Len(acc.lanes) : LaneFree(acc.lanes[k], visit)}
        taken == IF free = {} THEN Len(acc.lanes) + 1 ELSE CHOOSE k \in free : \A l \in free : k <= l
        next == [last |-> visit[1]]
    IN  [lanes |-> IF free = {} THEN Append(acc.lanes, next) ELSE [acc.lanes EXCEPT ![taken] = next],
         laneOf |-> Append(acc.laneOf, taken - 1)]
Placing(line) ==
    LET placed[n \in 0 .. Len(line)] ==
            IF n = 0 THEN [lanes |-> <<>>, laneOf |-> <<>>] ELSE TakeLane(placed[n - 1], line[n])
    IN  placed
LaneOf == Placing(Ordered)[Len(Ordered)].laneOf

(* A run ends where a visit begins at or after the end of all before it.    *)
ExtendRun(runs, visit, lane, n) ==
    LET run == runs[Len(runs)]
    IN  IF runs # <<>> /\ From(visit[1]) < run.end
        THEN [runs EXCEPT ![Len(runs)] = [end |-> Later(run.end, To(visit[1])),
                                          lanes |-> Later(run.lanes, lane + 1),
                                          members |-> run.members \cup {n}]]
        ELSE Append(runs, [end |-> To(visit[1]), lanes |-> lane + 1, members |-> {n}])
Clustering(line, laneOf) ==
    LET runs[n \in 0 .. Len(line)] ==
            IF n = 0 THEN <<>> ELSE ExtendRun(runs[n - 1], line[n], laneOf[n], n)
    IN  runs
Runs == Clustering(Ordered, LaneOf)[Len(Ordered)]
LaneCount(n) == Runs[CHOOSE k \in 1 .. Len(Runs) : n \in Runs[k].members].lanes

(* resolveViewBounds: whole hours around all that is open or booked *)
Covered == NormalizeIntervals(ClampIntervals(WorkingIntervals \cup {BlockedWindow(v) : v \in sheet.visits}))
View ==
    IF Covered = <<>> THEN DefaultView
    ELSE LET start == (From(Covered[1]) \div HourUnits) * HourUnits
             end == ((To(Covered[Len(Covered)]) + HourUnits - 1) \div HourUnits) * HourUnits
         IN  <<start, Later(Earlier(DayUnits, end), start + HourUnits)>>

(* freeSlots: whole slots of the clock inside the free time *)
FreeSlots ==
    LET Fits(slot, i) == /\ slot % SlotUnits = 0
                         /\ slot >= Later(From(i), From(View))
                         /\ slot + SlotUnits <= Earlier(To(i), To(View))
    IN  {slot \in 0 .. DayUnits : \E i \in FreeIntervals : Fits(slot, i)}

---------------------------------------------------------------------------
(***************************************************************************)
(* The sheet is filled row by row.                                          *)
(***************************************************************************)
SheetRows ==
    Cardinality(sheet.branchRules) + Cardinality(sheet.ownRules) + Cardinality(sheet.breaks)
    + Cardinality(sheet.opened) + Cardinality(sheet.closed) + Cardinality(sheet.visits)
WithinDay(i) == From(i) >= 0 /\ To(i) <= DayUnits

DayPictureInit ==
    sheet \in [branchRules : {{}}, ownRules : {{}}, ownElsewhere : BOOLEAN, breaks : {{}},
               opened : {{}}, closed : {{}}, visits : {{}}]

SetRule(i) ==
    /\ WithinDay(i)
    /\ \/ sheet' = [sheet EXCEPT !.branchRules = @ \cup {i}]
       \/ sheet' = [sheet EXCEPT !.ownRules = @ \cup {i}]
       \/ sheet' = [sheet EXCEPT !.breaks = @ \cup {i}]

(* An exception may begin or end on another day. *)
SetException(i) ==
    \/ sheet' = [sheet EXCEPT !.opened = @ \cup {i}]
    \/ sheet' = [sheet EXCEPT !.closed = @ \cup {i}]

(* A visit that begins on this day; visits may overlap on one specialist.   *)
DrawVisit(i, buffer) ==
    /\ From(i) \in 0 .. DayUnits - 1
    /\ sheet' = [sheet EXCEPT !.visits = @ \cup {<<i, buffer>>}]

DayPictureNext ==
    /\ SheetRows < MaxRows
    /\ \/ \E i \in Spans : SetRule(i) \/ SetException(i)
       \/ \E i \in VisitSpans, b \in Buffers : DrawVisit(i, b)

DayPictureSpec == DayPictureInit /\ [][DayPictureNext]_sheet

---------------------------------------------------------------------------
Minutes(set) == UNION {From(i) .. To(i) - 1 : i \in set}
Inside(i) == From(i) .. To(i) - 1

(* "a calendar that draws one on top of the other hides a visit nobody will *)
(* then prepare for": visits that share time share the width of their       *)
(* column and lie in lanes of their own, and every visit that begins today  *)
(* lies within the hours drawn.                                             *)
NoVisitHidden ==
    \A m, n \in 1 .. Len(Ordered) :
        /\ LaneOf[n] < LaneCount(n)
        /\ Inside(Ordered[n][1]) \cap 0 .. DayUnits - 1 \subseteq Inside(View)
        /\ (m # n /\ Inside(Ordered[m][1]) \cap Inside(Ordered[n][1]) # {}) =>
               LaneOf[m] # LaneOf[n] /\ LaneCount(m) = LaneCount(n)

(* "the grid must not offer a gap that the reservation transaction would    *)
(* then refuse": a slot is offered exactly if every minute of it is open,   *)
(* no break and no day off, and blocked by no visit or its buffers.         *)
OffersAreFree ==
    LET open == (Minutes(BaseIntervals) \cup Minutes(sheet.opened))
                   \ (Minutes(sheet.breaks) \cup Minutes(sheet.closed))
        free == open \ UNION {From(v[1]) - v[2] .. To(v[1]) + v[2] - 1 : v \in sheet.visits}
    IN  FreeSlots = {slot \in 0 .. DayUnits - 1 :
                       slot % SlotUnits = 0 /\ slot .. slot + SlotUnits - 1 \subseteq free \cap 0 .. DayUnits - 1}
=============================================================================
