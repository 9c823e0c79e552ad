--------------------------- MODULE ReceiptPayment ---------------------------
(***************************************************************************)
(* Prepaid bookings while they wait for money: the deadline of the hold,   *)
(* the customer's receipts, their recognition, the review by a person, and *)
(* the sweep that gives the slot back.                                     *)
(*                                                                         *)
(* A handler reads, decides and writes in separate steps, and forgets what *)
(* it read if its process dies; handler[h] holds what h knows so far.      *)
(* confirmFromReceipt is SERIALIZABLE and is one step; every other         *)
(* transaction is READ COMMITTED and may find that its reads have aged.    *)
(*                                                                         *)
(* All bookings are created at time 0 with their payment, as               *)
(* createPendingBooking leaves them.  A booking is named by its payment.   *)
(* What a receipt says is chosen when it is recognised: the operation, the *)
(* time of the transfer, and whether amount, card and status agree.        *)
(*                                                                         *)
(* An operator whose comment begins with "Altered" is a deliberate slip    *)
(* that a property must notice; the specification does not use it.         *)
(***************************************************************************)
EXTENDS Integers, FiniteSets

CONSTANTS
  Payments,        \* bookings that wait for a prepayment
  Submissions,     \* receipt images; bounds how many are accepted in all
  Handlers,        \* request handlers and job runs that may be in flight together
  Operations,      \* bank operation numbers
  StartsAt,        \* when the visits begin
  Hold, Extension, MaxHold,   \* RESERVATION_MINUTES, EXTENSION_MINUTES, MAX_HOLD_MINUTES
  ReviewWindow, Cooldown,     \* REVIEW_WINDOW_MS, SUBMISSION_COOLDOWN_MS
  MaxSubmissions,  \* MAX_SUBMISSIONS_PER_PAYMENT
  MaxAttempts,     \* a submission is listed for retry below this
  MaxTime          \* bound: the clock stops here

ASSUME TimesAssumption ==
  /\ {StartsAt, Hold, Extension, MaxHold, ReviewWindow, Cooldown, MaxSubmissions, MaxAttempts, MaxTime} \subseteq Nat
  /\ Hold <= MaxHold

VARIABLES
  now,
  booking,     \* booking[p]: status and expiresAt
  payment,     \* payment[p]: status, operation number and reviewDeadline
  submission,  \* submission[s], the receipts sent so far
  handler,     \* handler[h], what h has read and decided
  audit        \* <<p, o>>: a booking.confirmed event says p was confirmed by the receipt of operation o

vars == <<now, booking, payment, submission, handler, audit>>

Never == -1      \* a null date
NoOperation == "none"

BookingStatuses == {"PENDING_PAYMENT", "CONFIRMED", "CANCELLED", "EXPIRED"}
PaymentStatuses == {"PENDING", "RECEIPT_PROCESSING", "RECEIPT_ACCEPTED", "NEEDS_ATTENTION", "REJECTED"}
SubmissionStatuses == {"UPLOADED", "PROCESSING", "ACCEPTED", "NEEDS_REVIEW", "FAILED", "REJECTED"}

BookingRow == [status : BookingStatuses, expiresAt : 0 .. MaxHold \cup {Never}]
PaymentRow == [status : PaymentStatuses, operation : Operations \cup {NoOperation}, reviewDeadline : Nat \cup {Never}]
SubmissionRow == [payment : Payments, status : SubmissionStatuses, attempts : Nat, createdAt : Nat]

Idle == [op |-> "idle"]
Submitting == [op : {"submit"}, payment : Payments, at : Nat]
Claiming == [op : {"claim", "recognise"}, submission : Submissions]
Finishing == [op : {"finish"}, submission : Submissions, result : {"ACCEPTED", "NEEDS_REVIEW"}]
Reviewing == [op : {"approve", "reject"}, payment : Payments, submission : Submissions]
Extending == [op : {"extend"}, payment : Payments, until : 0 .. MaxHold]
Changing == [op : {"confirm", "cancel"}, payment : Payments]
Busy == Submitting \cup Claiming \cup Finishing \cup Reviewing \cup Extending \cup Changing

TypeOK ==
  /\ now \in 0 .. MaxTime
  /\ booking \in [Payments -> BookingRow]
  /\ payment \in [Payments -> PaymentRow]
  /\ DOMAIN submission \subseteq Submissions
  /\ submission \in [DOMAIN submission -> SubmissionRow]
  /\ handler \in [Handlers -> Busy \cup {Idle}]
  /\ \A h \in Handlers : handler[h] \in Claiming \cup Finishing \cup Reviewing => handler[h].submission \in DOMAIN submission
  /\ audit \subseteq Payments \X Operations

-----------------------------------------------------------------------------
IsPending(p) == booking[p].status = "PENDING_PAYMENT"
IsIdle(h) == handler[h] = Idle
Lower(a, b) == IF a < b THEN a ELSE b
SubmissionsOf(p) == {s \in DOMAIN submission : submission[s].payment = p}

Begin(h, work) == handler' = [handler EXCEPT ![h] = work]
Finish(h) == Begin(h, Idle)
Keep == UNCHANGED <<now, audit>>

\* Altered: the booking is confirmed only if it still waits, and nobody asks whether it did.
ConfirmIfPending(p) ==
  booking' = IF IsPending(p) THEN [booking EXCEPT ![p] = [status |-> "CONFIRMED", expiresAt |-> Never]] ELSE booking

ConfirmBooking(p) == booking' = [booking EXCEPT ![p] = [status |-> "CONFIRMED", expiresAt |-> Never]]

(* submitReceiptImage *)

WithinRateLimit(p) ==
  /\ Cardinality(SubmissionsOf(p)) < MaxSubmissions
  /\ \A s \in SubmissionsOf(p) : now - submission[s].createdAt >= Cooldown

ReadSubmit(h, p) ==
  /\ IsIdle(h)
  /\ IsPending(p)
  /\ payment[p].status # "RECEIPT_ACCEPTED"
  /\ WithinRateLimit(p)
  /\ Begin(h, [op |-> "submit", payment |-> p, at |-> now])
  /\ UNCHANGED <<booking, payment, submission>> /\ Keep

\* Neither the booking nor the payment is looked at again; the handler goes on to process what it stored.
CommitSubmit(h, s) ==
  LET q == handler[h] IN
  /\ q.op = "submit"
  /\ s \notin DOMAIN submission
  /\ submission' = [t \in DOMAIN submission \cup {s} |->
       IF t # s THEN submission[t]
       ELSE [payment |-> q.payment, status |-> "UPLOADED", attempts |-> 0, createdAt |-> q.at]]
  /\ payment' = [payment EXCEPT ![q.payment].status = "RECEIPT_PROCESSING",
                                ![q.payment].reviewDeadline = Lower(StartsAt, q.at + ReviewWindow)]
  /\ Begin(h, [op |-> "claim", submission |-> s])
  /\ UNCHANGED booking /\ Keep

\* Altered: rows that a dead process left behind may be claimed again.
ClaimableAgain(s) == submission[s].status \in {"UPLOADED", "FAILED", "PROCESSING"}

Claimable(s) == submission[s].status \in {"UPLOADED", "FAILED"}

\* retryReceiptSubmissions lists what is left to do, and comes to each row of its list later.
ListForRetry(h, s) ==
  /\ IsIdle(h)
  /\ Claimable(s)
  /\ submission[s].attempts < MaxAttempts
  /\ Begin(h, [op |-> "claim", submission |-> s])
  /\ UNCHANGED <<booking, payment, submission>> /\ Keep

(* processReceiptSubmission *)

Claim(h) ==
  LET s == handler[h].submission IN
  /\ handler[h].op = "claim"
  /\ Claimable(s)
  /\ submission' = [submission EXCEPT ![s].status = "PROCESSING", ![s].attempts = @ + 1]
  /\ Begin(h, [op |-> "recognise", submission |-> s])
  /\ UNCHANGED <<booking, payment>> /\ Keep

\* The image is unreadable, or confirmFromReceipt rolled back because another payment has the operation.
MarkNeedsReview(h) ==
  LET s == handler[h].submission IN
  /\ handler[h].op = "recognise"
  /\ submission' = [submission EXCEPT ![s].status = "NEEDS_REVIEW"]
  /\ payment' = [payment EXCEPT ![submission[s].payment].status = "NEEDS_ATTENTION"]
  /\ Finish(h)
  /\ UNCHANGED booking /\ Keep

\* Altered: a failure also asks for a person's attention, but leaves the receipt to the retry job.
MarkFailedForReview(h) ==
  LET s == handler[h].submission IN
  /\ handler[h].op = "recognise"
  /\ submission' = [submission EXCEPT ![s].status = "FAILED"]
  /\ payment' = [payment EXCEPT ![submission[s].payment].status = "NEEDS_ATTENTION"]
  /\ Finish(h)
  /\ UNCHANGED booking /\ Keep

\* confirmFromReceipt rolled back for another reason, a serialization failure for one; it is not retried.
MarkFailed(h) ==
  /\ handler[h].op = "recognise"
  /\ submission' = [submission EXCEPT ![handler[h].submission].status = "FAILED"]
  /\ Finish(h)
  /\ UNCHANGED <<booking, payment>> /\ Keep

\* The unique index on (businessId, operationNumber).
OperationFree(p, o) == \A x \in Payments \ {p} : payment[x].operation # o

Matches(p, agrees, at) == agrees /\ booking[p].expiresAt # Never /\ at <= booking[p].expiresAt

\* confirmFromReceipt, and the verdict its caller will write on the submission.

\* Altered: a known operation number is taken for an accepted one.
SameOperation(p, o) == payment[p].operation = o

AlreadyAccepted(p, o) == payment[p].status = "RECEIPT_ACCEPTED" /\ payment[p].operation = o

ConfirmAgain(h, o) ==
  LET s == handler[h].submission IN
  /\ handler[h].op = "recognise"
  /\ AlreadyAccepted(submission[s].payment, o)
  /\ Begin(h, [op |-> "finish", submission |-> s, result |-> "ACCEPTED"])
  /\ UNCHANGED <<booking, payment, submission>> /\ Keep

ConfirmAccept(h, o, agrees, at) ==
  LET s == handler[h].submission
      p == submission[s].payment IN
  /\ handler[h].op = "recognise"
  /\ ~AlreadyAccepted(p, o)
  /\ Matches(p, agrees, at) /\ IsPending(p)
  /\ OperationFree(p, o)
  /\ payment' = [payment EXCEPT ![p].status = "RECEIPT_ACCEPTED", ![p].operation = o]
  /\ ConfirmBooking(p)
  /\ audit' = audit \cup {<<p, o>>}
  /\ Begin(h, [op |-> "finish", submission |-> s, result |-> "ACCEPTED"])
  /\ UNCHANGED <<now, submission>>

ConfirmDoubt(h, o, agrees, at) ==
  LET s == handler[h].submission
      p == submission[s].payment IN
  /\ handler[h].op = "recognise"
  /\ ~AlreadyAccepted(p, o)
  /\ ~(Matches(p, agrees, at) /\ IsPending(p))
  /\ OperationFree(p, o)
  /\ payment' = [payment EXCEPT ![p].status = "NEEDS_ATTENTION", ![p].operation = o]
  /\ Begin(h, [op |-> "finish", submission |-> s, result |-> "NEEDS_REVIEW"])
  /\ UNCHANGED <<booking, submission>> /\ Keep

FinishSubmission(h) ==
  LET q == handler[h] IN
  /\ q.op = "finish"
  /\ submission' = [submission EXCEPT ![q.submission].status = q.result]
  /\ Finish(h)
  /\ UNCHANGED <<booking, payment>> /\ Keep

-----------------------------------------------------------------------------
(* A membership or a platform administrator reviews the latest receipt in doubt. *)

InDoubt(p) == {s \in SubmissionsOf(p) : submission[s].status = "NEEDS_REVIEW"}
LatestInDoubt(p) == {s \in InDoubt(p) : \A t \in InDoubt(p) : submission[t].createdAt <= submission[s].createdAt}

ReadReview(h, p, s, verdict) ==
  /\ IsIdle(h)
  /\ payment[p].status = "NEEDS_ATTENTION"
  /\ IsPending(p)
  /\ s \in LatestInDoubt(p)
  /\ Begin(h, [op |-> verdict, payment |-> p, submission |-> s])
  /\ UNCHANGED <<booking, payment, submission>> /\ Keep

\* The payment is claimed conditionally; the booking is then confirmed whatever has become of it.
CommitApprove(h) ==
  LET q == handler[h] IN
  /\ q.op = "approve"
  /\ payment[q.payment].status = "NEEDS_ATTENTION"
  /\ payment' = [payment EXCEPT ![q.payment].status = "RECEIPT_ACCEPTED"]
  /\ submission' = [submission EXCEPT ![q.submission].status = "ACCEPTED"]
  /\ ConfirmBooking(q.payment)
  /\ Finish(h)
  /\ Keep

CommitReject(h) ==
  LET q == handler[h] IN
  /\ q.op = "reject"
  /\ payment[q.payment].status = "NEEDS_ATTENTION"
  /\ payment' = [payment EXCEPT ![q.payment].status = "REJECTED"]
  /\ submission' = [submission EXCEPT ![q.submission].status = "REJECTED"]
  /\ Finish(h)
  /\ UNCHANGED booking /\ Keep

-----------------------------------------------------------------------------
(* extendPaymentHold: the customer comes back to the payment page. *)

\* Altered: every return buys the full extension.
FullExtension == now + Extension

ExtendedUntil == Lower(now + Extension, MaxHold)

ReadExtend(h, p) ==
  /\ IsIdle(h)
  /\ IsPending(p)
  /\ booking[p].expiresAt # Never
  /\ now <= MaxHold
  /\ ExtendedUntil > booking[p].expiresAt
  /\ Begin(h, [op |-> "extend", payment |-> p, until |-> ExtendedUntil])
  /\ UNCHANGED <<booking, payment, submission>> /\ Keep

CommitExtend(h) ==
  LET q == handler[h] IN
  /\ q.op = "extend"
  /\ IsPending(q.payment)
  /\ booking' = [booking EXCEPT ![q.payment].expiresAt = q.until]
  /\ Finish(h)
  /\ UNCHANGED <<payment, submission>> /\ Keep

(* confirmBusinessBooking and cancelBusinessBooking: the status is read, then the row is updated by its id. *)

ReadChange(h, p, op) ==
  /\ IsIdle(h)
  /\ booking[p].status \in IF op = "confirm" THEN {"PENDING_PAYMENT"} ELSE {"PENDING_PAYMENT", "CONFIRMED"}
  /\ Begin(h, [op |-> op, payment |-> p])
  /\ UNCHANGED <<booking, payment, submission>> /\ Keep

CommitConfirm(h) ==
  /\ handler[h].op = "confirm"
  /\ ConfirmBooking(handler[h].payment)
  /\ Finish(h)
  /\ UNCHANGED <<payment, submission>> /\ Keep

CommitCancel(h) ==
  /\ handler[h].op = "cancel"
  /\ booking' = [booking EXCEPT ![handler[h].payment].status = "CANCELLED"]
  /\ Finish(h)
  /\ UNCHANGED <<payment, submission>> /\ Keep

\* The process dies, or a condition of the next statement fails and the handler returns.
Abandon(h) ==
  /\ ~IsIdle(h)
  /\ Finish(h)
  /\ UNCHANGED <<booking, payment, submission>> /\ Keep

-----------------------------------------------------------------------------
\* Altered: a booking with a receipt is left to the reviewer for good.
NeverSubmitted(p) == payment[p].reviewDeadline = Never

ReviewOver(p) == payment[p].reviewDeadline = Never \/ payment[p].reviewDeadline <= now

\* One statement of the every-minute job: holds that are over, unless a receipt still has time to be reviewed.
Overdue ==
  {p \in Payments :
     /\ IsPending(p)
     /\ booking[p].expiresAt # Never /\ booking[p].expiresAt <= now
     /\ ReviewOver(p)}

ExpirePendingBookings ==
  /\ Overdue # {}
  /\ booking' = [p \in Payments |-> IF p \in Overdue THEN [booking[p] EXCEPT !.status = "EXPIRED"] ELSE booking[p]]
  /\ UNCHANGED <<payment, submission, handler>> /\ Keep

Tick ==
  /\ now < MaxTime
  /\ now' = now + 1
  /\ UNCHANGED <<booking, payment, submission, handler, audit>>

Init ==
  /\ now = 0
  /\ booking = [p \in Payments |-> [status |-> "PENDING_PAYMENT", expiresAt |-> Hold]]
  /\ payment = [p \in Payments |-> [status |-> "PENDING", operation |-> NoOperation, reviewDeadline |-> Never]]
  /\ submission = [s \in {} |-> Idle]
  /\ handler = [h \in Handlers |-> Idle]
  /\ audit = {}

Next ==
  \/ \E h \in Handlers :
       \/ \E p \in Payments : ReadSubmit(h, p)
       \/ \E s \in Submissions : CommitSubmit(h, s)
       \/ \E s \in DOMAIN submission : ListForRetry(h, s)
       \/ Claim(h)
       \/ MarkNeedsReview(h)
       \/ MarkFailed(h)
       \/ \E o \in Operations : ConfirmAgain(h, o)
       \/ \E o \in Operations, agrees \in BOOLEAN, at \in 0 .. now :
            ConfirmAccept(h, o, agrees, at) \/ ConfirmDoubt(h, o, agrees, at)
       \/ FinishSubmission(h)
       \/ \E p \in Payments, s \in DOMAIN submission, verdict \in {"approve", "reject"} : ReadReview(h, p, s, verdict)
       \/ CommitApprove(h)
       \/ CommitReject(h)
       \/ \E p \in Payments : ReadExtend(h, p)
       \/ CommitExtend(h)
       \/ \E p \in Payments, op \in {"confirm", "cancel"} : ReadChange(h, p, op)
       \/ CommitConfirm(h)
       \/ CommitCancel(h)
       \/ Abandon(h)
  \/ ExpirePendingBookings
  \/ Tick

SafetySpec == Init /\ [][Next]_vars

\* Time passes, and the scheduler runs the sweep again and again; nothing else is promised to happen.
Spec == SafetySpec /\ WF_vars(Tick) /\ WF_vars(ExpirePendingBookings)

-----------------------------------------------------------------------------
(***************************************************************************)
(* Accepted money always has a booking to show for it: whatever sweeps,    *)
(* reviews and late writes do, a payment marked RECEIPT_ACCEPTED belongs   *)
(* to a booking that was confirmed, never to one that lapsed or still      *)
(* waits (confirmFromReceipt and the approvals against the sweep).         *)
(***************************************************************************)
AcceptedNotLost ==
  \A p \in Payments : payment[p].status = "RECEIPT_ACCEPTED" => booking[p].status \in {"CONFIRMED", "CANCELLED"}

(***************************************************************************)
(* A payment that says it is being processed has a receipt that is not     *)
(* decided yet, so its customer is not left waiting for nothing, whatever  *)
(* the order in which several receipts of one payment are processed.       *)
(***************************************************************************)
Undecided == {"UPLOADED", "PROCESSING", "FAILED"}

ProcessingHasWork ==
  \A p \in Payments : payment[p].status = "RECEIPT_PROCESSING" =>
    \E s \in SubmissionsOf(p) : submission[s].status \in Undecided

(***************************************************************************)
(* "An unreadable receipt ... goes to the business for review": a payment  *)
(* that needs attention has a receipt in the review queue, or one that is  *)
(* still in a handler's hands (or was, when its process died).             *)
(***************************************************************************)
AttentionIsQueued ==
  \A p \in Payments : payment[p].status = "NEEDS_ATTENTION" =>
    \E s \in SubmissionsOf(p) : submission[s].status \in {"NEEDS_REVIEW", "PROCESSING"}

(***************************************************************************)
(* Together: no payment with a receipt is forgotten between the retry job, *)
(* which looks for FAILED rows, and the review queue, which looks for      *)
(* NEEDS_REVIEW.                                                           *)
(***************************************************************************)
NoReceiptForgotten == ProcessingHasWork /\ AttentionIsQueued

(***************************************************************************)
(* A receipt is never processed by the customer's request and the retry    *)
(* job at once, although both start from a status they read earlier.       *)
(***************************************************************************)
Processing(h) == handler[h].op \in {"recognise", "finish"}

SingleProcessor ==
  \A g, h \in Handlers : g # h /\ Processing(g) /\ Processing(h) => handler[g].submission # handler[h].submission

(***************************************************************************)
(* A slot is never held forever: every booking that waits for money is     *)
(* confirmed, cancelled or expired, also when handlers die, receipts stay  *)
(* half processed, and the customer keeps coming back or sending receipts. *)
(***************************************************************************)
HoldEnds == \A p \in Payments : IsPending(p) ~> ~IsPending(p)

(***************************************************************************)
(* The design's rule that one bank operation confirms one booking of a     *)
(* business only.  A second receipt of the same payment that was read      *)
(* before the first was accepted frees the first operation number.         *)
(***************************************************************************)
OperationUsedOnce == \A x, y \in audit : x[2] = y[2] => x[1] = y[1]
=============================================================================
