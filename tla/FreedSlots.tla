----------------------------- MODULE FreedSlots -----------------------------
(***************************************************************************)
(* Visits that are cancelled, and who is told of the time they leave free:  *)
(* a series is booked visit by visit and cancelled visit by visit           *)
(* (src/src/core/bookings/recurring-booking-service.ts), customers and      *)
(* staff cancel single visits, and each cancellation alerts the waitlist    *)
(* (waitlist-service.ts) through the queue of messages.  Visit n is the     *)
(* n-th of the series and has a time of its own; MessageOutbox has the      *)
(* retries and channels of an alert.                                        *)
(***************************************************************************)
EXTENDS Integers, FiniteSets

CONSTANTS
    Visits,        \* 1 .. n, the occurrences of the series
    Entries,       \* places on the waitlist, 1 .. n in the order of joining
    Desired,       \* Desired[e]: the visits whose time lies in the window of entry e
    Cancellers,    \* requests that cancel
    NotifyLimit,   \* WAITLIST_NOTIFY_LIMIT
    MaxSlotDeaths  \* bound on processes that die

ASSUME FreedSlotsAssumption ==
    /\ Visits \subseteq Nat /\ 1 \in Visits /\ Entries \subseteq Nat
    /\ Desired \in [Entries -> SUBSET Visits]
    /\ NotifyLimit \in Nat \ {0} /\ MaxSlotDeaths \in Nat

VARIABLES
    occurrence,  \* Booking: whether it holds its time, and whether seriesId is written
    series,      \* BookingSeries.status
    creator,     \* createRecurringBooking
    canceller,   \* cancelBookingSeries, cancelBooking, cancelBusinessBooking
    waiting,     \* WaitlistEntry, and its Message (CLOSED: none, sent or skipped)
    alertJob,    \* the entry and the slot the job is telling of
    offeredAgain, \* history: a time that was given back was given back again
    quiet,       \* history: entries withdrawn while nobody was at work on them
    disturbed,   \* history: one of them was told of a time afterwards
    excused,     \* history: visits of a cancelled series linked late, or left by the dead
    slotDeaths

freedVars == <<occurrence, series, creator, canceller, waiting, alertJob, offeredAgain, quiet,
               disturbed, excused, slotDeaths>>

NoVisit == 0
NoEntry == 0
IdleCanceller == [pc |-> "idle", list |-> {}, visit |-> NoVisit, found |-> {},
                  overtaken |-> FALSE]
NoAlert == [entry |-> NoEntry, sends |-> FALSE]

FreedSlotsTypeOK ==
    /\ occurrence \in [Visits -> [linked : BOOLEAN, status : {"NONE", "HELD", "CANCELLED", "EXPIRED"}]]
    /\ series \in {"NONE", "ACTIVE", "CANCELLED"}
    /\ creator \in [pc : {"idle", "reserve", "link"}, at : Nat]
    /\ canceller \in [Cancellers ->
         [pc : {"idle", "mark", "list", "walk", "update", "commit"}, list : SUBSET Visits,
          visit : Visits \cup {NoVisit}, found : SUBSET Entries, overtaken : BOOLEAN]]
    /\ waiting \in [Entries -> [status : {"NONE", "WAITING", "NOTIFIED", "CANCELLED"},
                               alert : {"CLOSED", "SCHEDULED", "PROCESSING"}]]
    /\ alertJob \in [entry : Entries \cup {NoEntry}, sends : BOOLEAN]
    /\ quiet \subseteq Entries /\ {disturbed, offeredAgain} \subseteq BOOLEAN
    /\ excused \subseteq Visits
    /\ slotDeaths \in 0 .. MaxSlotDeaths

FreedSlotsInit ==
    /\ occurrence = [v \in Visits |-> [linked |-> FALSE, status |-> "NONE"]]
    /\ series = "NONE" /\ creator = [pc |-> "idle", at |-> 1]
    /\ canceller = [c \in Cancellers |-> IdleCanceller]
    /\ waiting = [e \in Entries |-> [status |-> "NONE", alert |-> "CLOSED"]]
    /\ alertJob = NoAlert
    /\ quiet = {} /\ disturbed = FALSE /\ offeredAgain = FALSE /\ excused = {}
    /\ slotDeaths = 0

Held(v) == occurrence[v].status = "HELD"

VisitsKept == UNCHANGED <<occurrence, series, creator>>
EntriesKept == UNCHANGED <<waiting, alertJob, quiet, disturbed>>
CancelKept == UNCHANGED <<canceller, offeredAgain>>
Dies == slotDeaths < MaxSlotDeaths /\ slotDeaths' = slotDeaths + 1

---------------------------------------------------------------------------
(***************************************************************************)
(* createRecurringBooking: a row for the series, then one reservation after *)
(* another, each followed by a write of its seriesId.                       *)
(***************************************************************************)
CreateSeries ==
    /\ series = "NONE"
    /\ series' = "ACTIVE" /\ creator' = [pc |-> "reserve", at |-> 1]
    /\ UNCHANGED <<occurrence, excused, slotDeaths>> /\ EntriesKept /\ CancelKept

CreatorGoesOn ==
    creator' = IF creator.at + 1 \in Visits THEN [pc |-> "reserve", at |-> creator.at + 1]
               ELSE [pc |-> "idle", at |-> 1]

(* A time that is taken, or over, is skipped. *)
ReserveOccurrence ==
    /\ creator.pc = "reserve"
    /\ \/ /\ occurrence' = [occurrence EXCEPT ![creator.at].status = "HELD"]
          /\ creator' = [creator EXCEPT !.pc = "link"]
       \/ CreatorGoesOn /\ UNCHANGED occurrence
    /\ UNCHANGED <<series, excused, slotDeaths>> /\ EntriesKept /\ CancelKept

(* History: the visit may be linked when its series is already cancelled. *)
LinkOccurrence ==
    /\ creator.pc = "link"
    /\ occurrence' = [occurrence EXCEPT ![creator.at].linked = TRUE]
    /\ excused' = IF series = "CANCELLED" THEN excused \cup {creator.at} ELSE excused
    /\ CreatorGoesOn
    /\ UNCHANGED <<series, slotDeaths>> /\ EntriesKept /\ CancelKept

(* The process ends, or an error that is not about the time is thrown on. *)
CreatorDies ==
    /\ creator.pc # "idle" /\ Dies
    /\ creator' = [pc |-> "idle", at |-> 1]
    /\ UNCHANGED <<occurrence, series, excused>> /\ EntriesKept /\ CancelKept

---------------------------------------------------------------------------
(***************************************************************************)
(* Cancelling.  A transaction holds its booking's row from the update until *)
(* it commits; in between it reads the waitlist.                            *)
(***************************************************************************)
CancellerAt(c, pc) == canceller[c].pc = pc
Locked(v) == \E c \in Cancellers : CancellerAt(c, "commit") /\ canceller[c].visit = v
CancellerKept == VisitsKept /\ EntriesKept /\ UNCHANGED <<offeredAgain, excused, slotDeaths>>

(* notifyWaitlistForFreedSlot: the entries in the order of their joining *)
Candidates(v) == {e \in Entries : waiting[e].status = "WAITING" /\ v \in Desired[e]}
FirstOf(set) == {e \in set : Cardinality({d \in set : d < e}) < NotifyLimit}

Walks(c, list) ==
    canceller' = [canceller EXCEPT ![c] = IF list = {} THEN IdleCanceller
                                         ELSE [IdleCanceller EXCEPT !.pc = "walk", !.list = list]]
LocksVisit(c, v, overtaken) ==
    /\ ~Locked(v)
    /\ canceller' = [canceller EXCEPT ![c].pc = "commit", ![c].visit = v, ![c].overtaken = overtaken,
                                      ![c].found = FirstOf(Candidates(v))]

(* Altered: the update by cancelBooking has no condition *)
ByItsId(v) == occurrence[v].status # "NONE"

StillHeld(v) == Held(v)

(* cancelBooking by the customer or for a series *)
CancelOne(c, v) ==
    /\ CancellerAt(c, "idle") \/ (CancellerAt(c, "walk") /\ v \in canceller[c].list)
    /\ StillHeld(v) /\ LocksVisit(c, v, FALSE)
    /\ CancellerKept

(* Altered: the refusal ends the loop *)
LoopEnds(c, v) == {}

(* The loop over a series swallows the refusal, and goes on. *)
AfterRefusal(c, v) == canceller[c].list \ {v}

SkipOne(c, v) ==
    /\ CancellerAt(c, "walk") /\ v \in canceller[c].list /\ ~Locked(v) /\ ~StillHeld(v)
    /\ Walks(c, AfterRefusal(c, v))
    /\ CancellerKept

(* cancelBusinessBooking reads the status first, and writes by id. *)
StaffReads(c, v) ==
    /\ CancellerAt(c, "idle") /\ Held(v)
    /\ canceller' = [canceller EXCEPT ![c].pc = "update", ![c].visit = v]
    /\ CancellerKept

StaffUpdates(c) ==
    /\ CancellerAt(c, "update")
    /\ LocksVisit(c, canceller[c].visit, ~Held(canceller[c].visit))
    /\ CancellerKept

(* The entries are updated by id, and their alerts scheduled (again).       *)
CommitCancellation(c) ==
    LET v == canceller[c].visit
        found == canceller[c].found
    IN  /\ CancellerAt(c, "commit")
        /\ occurrence' = [occurrence EXCEPT ![v].status = "CANCELLED"]
        /\ waiting' = [e \in Entries |-> IF e \notin found THEN waiting[e]
                         ELSE [status |-> "NOTIFIED", alert |-> "SCHEDULED"]]
        /\ offeredAgain' = (offeredAgain \/ (~Held(v) /\ ~canceller[c].overtaken))
        /\ Walks(c, canceller[c].list \ {v})
        /\ UNCHANGED <<series, creator, alertJob, quiet, disturbed, excused, slotDeaths>>

(* cancelBookingSeries, from the page of a visit that knows its series *)
OpenSeries(c) ==
    /\ CancellerAt(c, "idle") /\ series = "ACTIVE"
    /\ \E v \in Visits : occurrence[v].linked
    /\ canceller' = [canceller EXCEPT ![c].pc = "mark"]
    /\ CancellerKept

MarkSeries(c) ==
    /\ CancellerAt(c, "mark")
    /\ series' = "CANCELLED"
    /\ canceller' = [canceller EXCEPT ![c].pc = "list"]
    /\ EntriesKept /\ UNCHANGED <<occurrence, creator, offeredAgain, excused, slotDeaths>>

(* The visits lie in the future; one that has begun is left as it is. *)
ListedOccurrences == {v \in Visits : occurrence[v].linked /\ Held(v)}

ListSeries(c) ==
    /\ CancellerAt(c, "list")
    /\ Walks(c, ListedOccurrences)
    /\ CancellerKept

(* The transaction under way is rolled back; the series stays CANCELLED,    *)
(* and no later call walks it again.                                        *)
CancellerDies(c) ==
    /\ ~CancellerAt(c, "idle") /\ Dies
    /\ canceller' = [canceller EXCEPT ![c] = IdleCanceller]
    /\ excused' = excused \cup canceller[c].list
                     \cup (IF CancellerAt(c, "list") THEN ListedOccurrences ELSE {})
    /\ VisitsKept /\ EntriesKept /\ UNCHANGED offeredAgain

---------------------------------------------------------------------------
(***************************************************************************)
(* The waitlist, and the sweep of unpaid holds                              *)
(***************************************************************************)
JoinWaitlist(e) ==
    /\ waiting[e].status = "NONE" /\ \A d \in Entries : d < e => waiting[d].status # "NONE"
    /\ waiting' = [waiting EXCEPT ![e].status = "WAITING"]
    /\ VisitsKept /\ CancelKept /\ UNCHANGED <<alertJob, quiet, disturbed, excused, slotDeaths>>

CancelWaitlistEntry(e) ==
    /\ waiting[e].status \in {"WAITING", "NOTIFIED"}
    /\ waiting' = [waiting EXCEPT ![e].status = "CANCELLED"]
    /\ quiet' = IF alertJob = [entry |-> e, sends |-> TRUE]
                   \/ \E c \in Cancellers : e \in canceller[c].found
                THEN quiet ELSE quiet \cup {e}
    /\ VisitsKept /\ CancelKept /\ UNCHANGED <<alertJob, disturbed, excused, slotDeaths>>

(* Nobody is told: the sweep does not look at the waitlist. *)
ExpireOccurrence(v) ==
    /\ Held(v) /\ ~Locked(v)
    /\ occurrence' = [occurrence EXCEPT ![v].status = "EXPIRED"]
    /\ EntriesKept /\ CancelKept /\ UNCHANGED <<series, creator, excused, slotDeaths>>

---------------------------------------------------------------------------
(***************************************************************************)
(* The job that sends the alert: claimed, then read with its entry, sent,   *)
(* and written by id.                                                       *)
(***************************************************************************)
AlertKept == VisitsKept /\ CancelKept /\ UNCHANGED <<quiet, excused>>

ClaimAlert(e) ==
    /\ alertJob = NoAlert /\ waiting[e].alert = "SCHEDULED"
    /\ waiting' = [waiting EXCEPT ![e].alert = "PROCESSING"]
    /\ alertJob' = [entry |-> e, sends |-> FALSE]
    /\ AlertKept /\ UNCHANGED <<disturbed, slotDeaths>>

(* resolveTarget; the freed time may have begun in the meantime *)
ResolveAlert ==
    LET e == alertJob.entry
    IN  /\ e # NoEntry /\ ~alertJob.sends
        /\ \/ /\ waiting[e].status = "NOTIFIED"
              /\ alertJob' = [alertJob EXCEPT !.sends = TRUE] /\ UNCHANGED waiting
           \/ alertJob' = NoAlert /\ waiting' = [waiting EXCEPT ![e].alert = "CLOSED"]
        /\ AlertKept /\ UNCHANGED <<disturbed, slotDeaths>>

(* Sent, or kept for another attempt *)
SendAlert ==
    LET e == alertJob.entry
    IN  /\ alertJob.sends
        /\ \/ /\ waiting' = [waiting EXCEPT ![e].alert = "CLOSED"]
              /\ disturbed' = (disturbed \/ e \in quiet)
           \/ waiting' = [waiting EXCEPT ![e].alert = "SCHEDULED"] /\ UNCHANGED disturbed
        /\ alertJob' = NoAlert
        /\ AlertKept /\ UNCHANGED slotDeaths

AlertJobDies ==
    /\ alertJob # NoAlert /\ Dies
    /\ alertJob' = NoAlert
    /\ AlertKept /\ UNCHANGED <<waiting, disturbed>>

FreedSlotsNext ==
    \/ CreateSeries \/ ReserveOccurrence \/ LinkOccurrence \/ CreatorDies
    \/ \E c \in Cancellers :
         \/ \E v \in Visits : CancelOne(c, v) \/ SkipOne(c, v) \/ StaffReads(c, v)
         \/ StaffUpdates(c) \/ CommitCancellation(c) \/ CancellerDies(c)
         \/ OpenSeries(c) \/ MarkSeries(c) \/ ListSeries(c)
    \/ \E e \in Entries : JoinWaitlist(e) \/ CancelWaitlistEntry(e) \/ ClaimAlert(e)
    \/ \E v \in Visits : ExpireOccurrence(v)
    \/ ResolveAlert \/ SendAlert \/ AlertJobDies

FreedSlotsSpec == FreedSlotsInit /\ [][FreedSlotsNext]_freedVars

---------------------------------------------------------------------------
(* A customer whose place on the waitlist was withdrawn hears nothing more  *)
(* of free times, although cancellations update entries by id, unless the   *)
(* withdrawal met a cancellation or a delivery of the alert half way.       *)
(*                                                                          *)
(* "so at most a handful of people race for the same freed slot"            *)
(* (notifyWaitlistForFreedSlot): a visit is cancelled, and its time offered  *)
(* to the first who wait, once, whether the series, the customer or the      *)
(* staff cancel it, unless staff read its status before another cancellation *)
(* and write after it.                                                       *)
FreedTimesOfferedOnce == ~disturbed /\ ~offeredAgain

(* A series that was cancelled holds no time any more, except for visits    *)
(* that were still being booked then, or left by a process that died.       *)
CancelledSeriesIsEmpty ==
    (series = "CANCELLED" /\ \A c \in Cancellers : canceller[c].list = {} /\ ~CancellerAt(c, "list")) =>
        \A v \in Visits : (occurrence[v].linked /\ Held(v)) => v \in excused
=============================================================================
