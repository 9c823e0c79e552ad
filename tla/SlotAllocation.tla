--------------------------- MODULE SlotAllocation ---------------------------
(***************************************************************************)
(* The booking rows of one business and every operation that creates one,  *)
(* moves one or changes its status, as far as the calendar is concerned.   *)
(*                                                                         *)
(* A handler of the application does not run atomically.  It reads rows,   *)
(* decides, and writes later, and other handlers run in between; req holds *)
(* what a handler has read and decided so far.  The write of a SERIALIZABLE *)
(* transaction (reserveAllocation, the two reschedules) is one action that *)
(* repeats the transaction's own reads.  The READ COMMITTED transactions   *)
(* (confirmBusinessBooking, cancelBusinessBooking, markBusinessBookingNoShow) *)
(* read the status in one step and update the row by its id in a later one. *)
(*                                                                         *)
(* An operator whose comment begins with "Altered" is a deliberate slip    *)
(* that a property must notice; the specification does not use it.         *)
(*                                                                         *)
(* Left to other modules: money and the deadline of a hold (ReceiptPayment *)
(* says when a pending booking may lapse; here any may), messages, audit.  *)
(***************************************************************************)
EXTENDS Integers, FiniteSets

CONSTANTS
  Bookings,        \* identities of booking rows; bounds how many are created
  Requests,        \* handlers that may be in flight at the same time
  Staff, Resources, Services,
  Assigned,        \* <<staff, service>>: performs it, and works in its branch
  BranchOf,        \* BranchOf[service], the branch the service belongs to
  Needs,           \* Needs[service], the resources it occupies
  Duration, BufferBefore, BufferAfter,  \* minutes, per service
  MaxBuffer,       \* MAX_BUFFER_MINUTES
  Opening, Closing,                     \* working hours
  MinLead, MaxAdvance,                  \* customers book within now+MinLead .. now+MaxAdvance
  ChangeWindow,    \* freeCancellationHours; 0 means customers may always change
  MaxReschedules,  \* maxCustomerReschedules
  MaxTime          \* bound: the clock stops here

ASSUME DurationsAssumption ==
  /\ Duration \in [Services -> Nat \ {0}]
  /\ BufferBefore \in [Services -> Nat]
  /\ BufferAfter \in [Services -> Nat]
  /\ MaxBuffer \in Nat
ASSUME CatalogueAssumption ==
  /\ Assigned \subseteq Staff \X Services
  /\ Needs \in [Services -> SUBSET Resources]
  /\ Staff \cap Resources = {}
ASSUME PolicyAssumption ==
  /\ Opening \in Int /\ Closing \in Int
  /\ {MinLead, MaxAdvance, ChangeWindow, MaxReschedules, MaxTime} \subseteq Nat
  /\ IsFiniteSet(Requests) /\ Requests # {}

Active == {"PENDING_PAYMENT", "CONFIRMED"}
Statuses == Active \cup {"CANCELLED", "EXPIRED", "NO_SHOW"}
Actors == {"customer", "staff"}
Starts == Opening .. Closing

VARIABLES
  now,      \* the wall clock
  booking,  \* booking[b], the row of every booking created so far
  req,      \* req[r], what the handler r has read and decided
  revived   \* history: bookings put back into the calendar by a stale write, and not placed again since

vars == <<now, booking, req, revived>>

Row == [status : Statuses, service : Services, staff : Staff, startsAt : Starts, moves : Nat]

Idle == [op |-> "idle"]
ReserveRequest == [op : {"reserve"}, actor : Actors, service : Services, staff : Staff, startsAt : Starts]
MoveRequest == [op : {"move"}, actor : Actors, booking : Bookings, staff : Staff, startsAt : Starts]
StatusRequest == [op : {"confirm", "cancel", "noShow", "conditionalCancel"}, booking : Bookings]
Pending == ReserveRequest \cup MoveRequest \cup StatusRequest

TypeOK ==
  /\ now \in 0 .. MaxTime
  /\ DOMAIN booking \subseteq Bookings
  /\ booking \in [DOMAIN booking -> Row]
  /\ \A b \in DOMAIN booking : <<booking[b].staff, booking[b].service>> \in Assigned
  /\ req \in [Requests -> Pending \cup {Idle}]
  /\ \A r \in Requests :
       /\ req[r] \in ReserveRequest => <<req[r].staff, req[r].service>> \in Assigned
       /\ req[r] \in MoveRequest \cup StatusRequest => req[r].booking \in DOMAIN booking
       /\ req[r] \in MoveRequest => <<req[r].staff, booking[req[r].booking].service>> \in Assigned
  /\ revived \subseteq {b \in DOMAIN booking : booking[b].status = "CONFIRMED"}

-----------------------------------------------------------------------------
(* booking-window.ts: which bookings stand in the way of a visit *)

Clamp(minutes) == IF minutes > MaxBuffer THEN MaxBuffer ELSE minutes

EndsAt(sv, start) == start + Duration[sv]

BlockedWindow(sv, start) ==
  [from |-> start - Clamp(BufferBefore[sv]), to |-> EndsAt(sv, start) + Clamp(BufferAfter[sv])]

\* Altered: only a window that begins inside the other counts.
BeginsInside(v, w) == w.from <= v.from /\ v.from < w.to

WindowsOverlap(v, w) == v.from < w.to /\ v.to > w.from

\* Altered: resources are forgotten.
SharesSpecialist(b, sv, st) == booking[b].staff = st

SharesLane(b, sv, st) == booking[b].staff = st \/ Needs[booking[b].service] \cap Needs[sv] # {}

\* The database query: same branch, active, near the range, and sharing the specialist or a resource.
ListOccupied(sv, st, start, excluded) ==
  {b \in DOMAIN booking \ excluded :
     /\ BranchOf[booking[b].service] = BranchOf[sv]
     /\ booking[b].status \in Active
     /\ booking[b].startsAt < EndsAt(sv, start) + MaxBuffer
     /\ EndsAt(booking[b].service, booking[b].startsAt) > start - MaxBuffer
     /\ SharesLane(b, sv, st)}

\* The comparison made in memory on what the query returned.
FindBlocking(sv, st, start, excluded) ==
  {b \in ListOccupied(sv, st, start, excluded) :
     WindowsOverlap(BlockedWindow(sv, start), BlockedWindow(booking[b].service, booking[b].startsAt))}

\* Altered: any specialist of the business will do.
WorksHere(st, sv) == st \in Staff

Performs(st, sv) == <<st, sv>> \in Assigned

\* getAvailableStarts for a single candidate start; it runs outside any transaction.
Available(sv, st, start, actor, excluded) ==
  /\ Performs(st, sv)
  /\ actor = "customer" => now + MinLead <= start /\ start <= now + MaxAdvance
  /\ Opening <= start /\ EndsAt(sv, start) <= Closing
  /\ FindBlocking(sv, st, start, excluded) = {}

-----------------------------------------------------------------------------
IsIdle(r) == req[r] = Idle
IsActive(b) == booking[b].status \in Active
Begin(r, request) == req' = [req EXCEPT ![r] = request] /\ UNCHANGED <<now, booking, revived>>
Finish(r) == req' = [req EXCEPT ![r] = Idle]
SetStatus(b, status) == booking' = [booking EXCEPT ![b].status = status]

\* createPendingBooking and createManualBooking look for a free slot before they reserve it.
SearchSlot(r, actor, sv, st, start) ==
  /\ IsIdle(r)
  /\ Available(sv, st, start, actor, {})
  /\ Begin(r, [op |-> "reserve", actor |-> actor, service |-> sv, staff |-> st, startsAt |-> start])

\* A customer's booking waits for money unless nothing is due; a receptionist's is confirmed at once.
ReserveAllocation(r, b, due) ==
  LET q == req[r] IN
  /\ q.op = "reserve"
  /\ b \notin DOMAIN booking
  /\ FindBlocking(q.service, q.staff, q.startsAt, {}) = {}
  /\ booking' = [x \in DOMAIN booking \cup {b} |->
       IF x # b THEN booking[x]
       ELSE [status |-> IF q.actor = "customer" /\ due THEN "PENDING_PAYMENT" ELSE "CONFIRMED",
             service |-> q.service, staff |-> q.staff, startsAt |-> q.startsAt, moves |-> 0]]
  /\ Finish(r)
  /\ UNCHANGED <<now, revived>>

WithinChangeWindow(b) == ChangeWindow = 0 \/ booking[b].startsAt - now >= ChangeWindow

\* Altered: one move too many.
MayRescheduleOnceMore(b) == WithinChangeWindow(b) /\ booking[b].moves <= MaxReschedules

MayReschedule(b) == WithinChangeWindow(b) /\ booking[b].moves < MaxReschedules

\* rescheduleBooking up to its transaction: the policy and the availability are read here, once.
ReadCustomerMove(r, b, start) ==
  /\ IsIdle(r)
  /\ IsActive(b)
  /\ MayReschedule(b)
  /\ Available(booking[b].service, booking[b].staff, start, "customer", {b})
  /\ Begin(r, [op |-> "move", actor |-> "customer", booking |-> b, staff |-> booking[b].staff, startsAt |-> start])

\* rescheduleBusinessBooking up to its transaction; the specialist is chosen or read here.
ReadStaffMove(r, b, st, start) ==
  /\ IsIdle(r)
  /\ start > now
  /\ IsActive(b)
  /\ Available(booking[b].service, st, start, "staff", {b})
  /\ Begin(r, [op |-> "move", actor |-> "staff", booking |-> b, staff |-> st, startsAt |-> start])

\* A customer's transaction keeps the specialist the row has now, a receptionist's writes the one it read.
MoveTarget(q) == IF q.actor = "customer" THEN booking[q.booking].staff ELSE q.staff

Reschedule(r) ==
  LET q == req[r]
      b == q.booking IN
  /\ q.op = "move"
  /\ IsActive(b)
  /\ FindBlocking(booking[b].service, MoveTarget(q), q.startsAt, {b}) = {}
  /\ booking' = [booking EXCEPT ![b].startsAt = q.startsAt,
                                ![b].staff = MoveTarget(q),
                                ![b].moves = @ + (IF q.actor = "customer" THEN 1 ELSE 0)]
  /\ revived' = revived \ {b}
  /\ Finish(r)
  /\ UNCHANGED now

\* The transaction finds the slot taken, or the booking gone, and throws.
RefuseSlot(r) ==
  LET q == req[r] IN
  /\ \/ q.op = "reserve" /\ FindBlocking(q.service, q.staff, q.startsAt, {}) # {}
     \/ q.op = "move" /\ ~IsActive(q.booking)
     \/ /\ q.op = "move" /\ IsActive(q.booking)
        /\ FindBlocking(booking[q.booking].service, MoveTarget(q), q.startsAt, {q.booking}) # {}
  /\ Finish(r)
  /\ UNCHANGED <<now, booking, revived>>

-----------------------------------------------------------------------------
\* confirmBusinessBooking; the two approvals of a payment review read the booking and write it the same way.
ReadConfirm(r, b) ==
  /\ IsIdle(r)
  /\ booking[b].status = "PENDING_PAYMENT"
  /\ Begin(r, [op |-> "confirm", booking |-> b])

\* The update names the row by its id only: whatever the status has become, it is CONFIRMED now.
CommitConfirm(r) ==
  LET b == req[r].booking IN
  /\ req[r].op = "confirm"
  /\ SetStatus(b, "CONFIRMED")
  /\ revived' = IF IsActive(b) THEN revived ELSE revived \cup {b}
  /\ Finish(r)
  /\ UNCHANGED now

ReadCancel(r, b) ==
  /\ IsIdle(r)
  /\ IsActive(b)
  /\ Begin(r, [op |-> "cancel", booking |-> b])

CommitCancel(r) ==
  LET b == req[r].booking IN
  /\ req[r].op = "cancel"
  /\ SetStatus(b, "CANCELLED")
  /\ revived' = revived \ {b}
  /\ Finish(r)
  /\ UNCHANGED now

ReadNoShow(r, b) ==
  /\ IsIdle(r)
  /\ booking[b].status = "CONFIRMED"
  /\ booking[b].startsAt <= now
  /\ Begin(r, [op |-> "noShow", booking |-> b])

CommitNoShow(r) ==
  LET b == req[r].booking IN
  /\ req[r].op = "noShow"
  /\ SetStatus(b, "NO_SHOW")
  /\ revived' = revived \ {b}
  /\ Finish(r)
  /\ UNCHANGED now

\* cancelBooking checks a customer's window outside its transaction, and only if the booking is active then.
ReadConditionalCancel(r, b, actor) ==
  /\ IsIdle(r)
  /\ actor = "customer" /\ IsActive(b) => WithinChangeWindow(b)
  /\ Begin(r, [op |-> "conditionalCancel", booking |-> b])

\* Its update is conditional on an active status, so a booking that went away meanwhile is left alone.
CommitConditionalCancel(r) ==
  LET b == req[r].booking IN
  /\ req[r].op = "conditionalCancel"
  /\ IsActive(b)
  /\ SetStatus(b, "CANCELLED")
  /\ revived' = revived \ {b}
  /\ Finish(r)
  /\ UNCHANGED now

\* A transaction gives up after three serialization failures, a condition fails, or the process dies.
Abandon(r) ==
  /\ ~IsIdle(r)
  /\ Finish(r)
  /\ UNCHANGED <<now, booking, revived>>

-----------------------------------------------------------------------------
\* confirmFromReceipt: a serializable transaction that requires the booking to be pending.
ConfirmFromReceipt(b) ==
  /\ booking[b].status = "PENDING_PAYMENT"
  /\ SetStatus(b, "CONFIRMED")
  /\ UNCHANGED <<now, req, revived>>

\* One statement expires every pending booking whose hold is over; which ones those are is not modelled here.
ExpirePendingBookings(B) ==
  /\ B # {}
  /\ \A b \in B : booking[b].status = "PENDING_PAYMENT"
  /\ booking' = [b \in DOMAIN booking |-> IF b \in B THEN [booking[b] EXCEPT !.status = "EXPIRED"] ELSE booking[b]]
  /\ UNCHANGED <<now, req, revived>>

Tick ==
  /\ now < MaxTime
  /\ now' = now + 1
  /\ UNCHANGED <<booking, req, revived>>

Init ==
  /\ now = 0
  /\ booking = [b \in {} |-> Idle]
  /\ req = [r \in Requests |-> Idle]
  /\ revived = {}

Next ==
  \/ \E r \in Requests :
       \/ \E actor \in Actors, sv \in Services, st \in Staff, start \in Starts : SearchSlot(r, actor, sv, st, start)
       \/ \E b \in Bookings, due \in BOOLEAN : ReserveAllocation(r, b, due)
       \/ \E b \in DOMAIN booking, start \in Starts : ReadCustomerMove(r, b, start)
       \/ \E b \in DOMAIN booking, st \in Staff, start \in Starts : ReadStaffMove(r, b, st, start)
       \/ Reschedule(r)
       \/ RefuseSlot(r)
       \/ \E b \in DOMAIN booking : ReadConfirm(r, b)
       \/ CommitConfirm(r)
       \/ \E b \in DOMAIN booking : ReadCancel(r, b)
       \/ CommitCancel(r)
       \/ \E b \in DOMAIN booking : ReadNoShow(r, b)
       \/ CommitNoShow(r)
       \/ \E b \in DOMAIN booking, actor \in Actors : ReadConditionalCancel(r, b, actor)
       \/ CommitConditionalCancel(r)
       \/ Abandon(r)
  \/ \E b \in DOMAIN booking : ConfirmFromReceipt(b)
  \/ \E B \in SUBSET DOMAIN booking : ExpirePendingBookings(B)
  \/ Tick

Spec == Init /\ [][Next]_vars

-----------------------------------------------------------------------------
(* The calendar these rows stand for *)

Held == {b \in DOMAIN booking : IsActive(b)}

ClaimOf(row) ==
  [lanes |-> {row.staff} \cup Needs[row.service],
   from |-> BlockedWindow(row.service, row.startsAt).from,
   to |-> BlockedWindow(row.service, row.startsAt).to]

TheCalendar == INSTANCE Calendar WITH
  Visits <- Bookings,
  Lanes <- Staff \cup Resources,
  claim <- [b \in DOMAIN booking |-> ClaimOf(booking[b])],
  held <- Held,
  overridden <- revived

(***************************************************************************)
(* Every operation on the rows is a step of the calendar: a booking takes  *)
(* or changes its place only when nothing that shares its specialist or a  *)
(* resource overlaps it, buffers included, however the requests interleave. *)
(* This is the promise of reserveAllocation's transaction                  *)
(* (booking-allocation.ts) and of the reschedules.                         *)
(***************************************************************************)
ImplementsCalendar == TheCalendar!Spec

\* The two conditions on the catalogue under which the code keeps that promise.
SlackCoversBuffers ==
  \A s, t \in Services : Clamp(BufferAfter[s]) + Clamp(BufferBefore[t]) <= MaxBuffer

OneBranchPerLane ==
  \A s, t \in Services :
    \/ \E st \in Staff : <<st, s>> \in Assigned /\ <<st, t>> \in Assigned
    \/ Needs[s] \cap Needs[t] # {}
    => BranchOf[s] = BranchOf[t]

(***************************************************************************)
(* No two bookings that nobody restored by hand share a specialist or a    *)
(* resource at the same time.  With a catalogue that breaks                *)
(* SlackCoversBuffers the query of listOccupiedWindows misses conflicts.   *)
(***************************************************************************)
NoUnexplainedOverlap == TheCalendar!Exclusive

(***************************************************************************)
(* The plain statement of the product design: two customers never occupy   *)
(* one slot.  A manual confirmation that commits after the hold expired    *)
(* breaks it.                                                              *)
(***************************************************************************)
NoDoubleBooking ==
  \A b, c \in Held : b # c => ~TheCalendar!Clash(ClaimOf(booking[b]), ClaimOf(booking[c]))

(***************************************************************************)
(* The reschedule limit is read before the transaction that increments the *)
(* counter, so requests in flight together can pass it, but never by more  *)
(* than the number of requests beyond the one that was entitled to move.   *)
(***************************************************************************)
LimitOvershootBounded ==
  \A b \in DOMAIN booking : booking[b].moves <= MaxReschedules + Cardinality(Requests) - 1
=============================================================================
