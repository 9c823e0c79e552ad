---------------------------- MODULE MessageOutbox ----------------------------
(***************************************************************************)
(* Messages to a customer about one visit: how they are scheduled by the   *)
(* operations on the visit, claimed and sent by the delivery job, retried, *)
(* and handed down the ladder of channels.                                 *)
(*                                                                         *)
(* A row is found by its visit, kind and channel, and the kinds never      *)
(* meet: the module follows the rows of one visit and one kind, whichever. *)
(* message[n] is the row of the n-th rung of the ladder.  Runs of the job  *)
(* normally exclude each other by a lock; when a lock connection is lost   *)
(* they overlap, so several are modelled.                                  *)
(*                                                                         *)
(* What a provider does with a call is a free choice: it delivers, it      *)
(* cannot carry the message, or it throws, which says nothing about what   *)
(* reached the customer.  Rows about waiting lists are left out.           *)
(*                                                                         *)
(* An operator whose comment begins with "Altered" is a deliberate slip    *)
(* that a property must notice; the specification does not use it.         *)
(***************************************************************************)
EXTENDS Integers, FiniteSets, Sequences

CONSTANTS
  Kinds,         \* the kinds of message followed, one in each behaviour
  Ladder,        \* CHANNEL_LADDER, the cheapest channel first
  Runs,          \* runs of the delivery job
  Requests,      \* requests of staff and reviewers, which take several steps
  Starts,        \* when the visit may begin
  Lead,          \* a reminder is due this long before the visit
  ReviewDelay,   \* and a request for a review this long after its start, the visit's duration included
  RetryDelay,    \* a failed attempt is repeated after this time
  MaxAttempts,   \* Message.maxAttempts
  MaxScheduled,  \* bound: how often the operations schedule a message of each kind
  MaxTime        \* bound: the clock stops here

Rungs == DOMAIN Ladder
Channels == {Ladder[n] : n \in Rungs}

ASSUME OutboxAssumption ==
  /\ Ladder \in Seq({"TELEGRAM", "WHATSAPP", "SMS"})
  /\ Starts \subseteq Nat
  /\ IsFiniteSet(Runs)
  /\ MaxScheduled \in [Kinds -> Nat]
  /\ {Lead, ReviewDelay, RetryDelay, MaxAttempts, MaxTime} \subseteq Nat

VARIABLES
  kind,       \* which rows are followed
  now,
  visit,      \* the booking: status, start, and whether its payment is still PENDING
  settings,   \* channels that the customer's and the business's settings allow
  message,    \* message[n], the row of the n-th channel
  request,    \* request[r], what r has decided to do, or still schedules after its commit
  run,        \* run[j], where a run of the job is
  scheduled,  \* history: how often an operation scheduled the message
  delivered,  \* history: how often a provider said it delivered it
  died        \* history: rows whose run died with them in hand

vars == <<kind, now, visit, settings, message, request, run, scheduled, delivered, died>>

VisitStatuses == {"PENDING_PAYMENT", "CONFIRMED", "CANCELLED", "EXPIRED", "NO_SHOW"}
MessageStatuses == {"NONE", "SCHEDULED", "PROCESSING", "SENT", "FAILED", "SKIPPED"}
Row == [status : MessageStatuses, due : Int, attempts : Nat, externalId : BOOLEAN]
NoRow == [status |-> "NONE", due |-> 0, attempts |-> 0, externalId |-> FALSE]

Idle == [op |-> "idle"]
Decisions == {"confirm", "approve", "cancel", "no-show"}
Deciding == [op : {"decided"}, on : Decisions]
Owing == [op : {"date"}] \cup [op : {"read"}, due : Int] \cup [op : {"write"}, rung : Rungs, due : Int]

Outcomes == {"SENT", "STALE", "UNAVAILABLE", "RETRY", "EXHAUSTED"}
Picking == [op : {"pick"}, at : Nat, batch : SUBSET Rungs]
Reading == [op : {"read"}, at : Nat, batch : SUBSET Rungs, rung : Rungs]
Sending == [op : {"send"}, at : Nat, batch : SUBSET Rungs, rung : Rungs, attempts : Nat, settings : SUBSET Channels]
Recording == [op : {"record"}, at : Nat, batch : SUBSET Rungs, rung : Rungs, attempts : Nat, settings : SUBSET Channels,
              outcome : Outcomes]
Handing == [op : {"hand"}, at : Nat, batch : SUBSET Rungs, rung : Rungs, settings : SUBSET Channels]
Works == {Idle} \cup Picking \cup Reading \cup Sending \cup Recording \cup Handing

Exists(n) == message[n].status # "NONE"

TypeOK ==
  /\ kind \in Kinds
  /\ now \in 0 .. MaxTime
  /\ visit \in [status : VisitStatuses, startsAt : Starts, unpaid : BOOLEAN]
  /\ settings \subseteq Channels
  /\ message \in [Rungs -> Row]
  /\ request \in [Requests -> {Idle} \cup Deciding \cup Owing]
  /\ run \in [Runs -> Works]
  /\ \A j \in Runs : run[j] # Idle => \A n \in run[j].batch : Exists(n)
  /\ scheduled \in 0 .. MaxScheduled[kind]
  /\ delivered \in Nat
  /\ died \subseteq Rungs

-----------------------------------------------------------------------------
(* Kinds of message *)

\* resolveTarget: the status a visit must have when the message is sent.
StatusWhenSent ==
  IF kind \in {"PAYMENT_REMINDER", "PAYMENT_REJECTED", "RECEIPT_NEEDS_REVIEW"} THEN "PENDING_PAYMENT"
  ELSE IF kind = "BOOKING_CANCELLED" THEN "CANCELLED"
  ELSE "CONFIRMED"

Eligible(at) ==
  /\ visit.status = StatusWhenSent
  /\ kind = "PAYMENT_REMINDER" => visit.unpaid
  /\ kind \in {"BOOKING_REMINDER", "PAYMENT_REMINDER"} => visit.startsAt > at

\* REQUIRED_STATUS: kinds that are only scheduled in the status they are sent in.
CheckedWhenScheduled ==
  {"BOOKING_REMINDER", "BOOKING_CONFIRMATION", "REVIEW_REQUEST", "BOOKING_CANCELLED", "PAYMENT_REJECTED"}

MayBeScheduled(v) == kind \in CheckedWhenScheduled => v.status = StatusWhenSent

DueFor(v) ==
  IF kind = "BOOKING_REMINDER" THEN v.startsAt - Lead
  ELSE IF kind = "REVIEW_REQUEST" THEN v.startsAt + ReviewDelay
  ELSE now

(* The ladder *)

WhatsAppKinds == {"BOOKING_REMINDER", "BOOKING_CONFIRMATION", "PAYMENT_APPROVED", "BOOKING_CANCELLED", "PAYMENT_REJECTED"}
SmsKinds == WhatsAppKinds   \* findPayomTemplateKind knows the same kinds, and the waiting list's

CanDeliverOn(channel, allowed) ==
  /\ channel \in allowed
  /\ channel = "WHATSAPP" => kind \in WhatsAppKinds
  /\ channel = "SMS" => kind \in SmsKinds

\* Altered: the search begins at the top of the ladder again.
NextRungFromTop(n, allowed) ==
  LET others == {m \in Rungs : m # n /\ CanDeliverOn(Ladder[m], allowed)}
  IN  {m \in others : \A o \in others : m <= o}

\* The highest rung below the n-th that can carry the message: a set with one member, or none.
NextRung(n, allowed) ==
  LET below == {m \in Rungs : m > n /\ CanDeliverOn(Ladder[m], allowed)}
  IN  {m \in below : \A o \in below : m <= o}

FirstRung == NextRung(0, settings)

(* Rows *)

\* An upsert opens the row again, whatever has become of it; the provider's id stays.
Opened(rows, n, due) ==
  [rows EXCEPT ![n] = [status |-> "SCHEDULED", due |-> due, attempts |-> 0, externalId |-> @.externalId]]

Skipped(rows) ==
  [n \in Rungs |-> IF rows[n].status = "SCHEDULED" THEN [rows[n] EXCEPT !.status = "SKIPPED"] ELSE rows[n]]

\* An operation opens the row of rung n on top of what it has done to the rows before.
Open(rows, n, due) ==
  /\ scheduled < MaxScheduled[kind]
  /\ message' = Opened(rows, n, due)
  /\ scheduled' = scheduled + 1
  /\ died' = died \ {n}

Leave(rows) == message' = rows /\ UNCHANGED <<scheduled, died>>

\* scheduleCustomerMessage for each of the kinds, inside the transaction that makes the visit v.
Schedule(kinds, v, rows) ==
  IF kind \in kinds /\ MayBeScheduled(v) /\ FirstRung # {}
  THEN \E n \in FirstRung : Open(rows, n, DueFor(v))
  ELSE Leave(rows)

-----------------------------------------------------------------------------
(* Operations on the visit, as far as its messages go *)

IsActive == visit.status \in {"PENDING_PAYMENT", "CONFIRMED"}
SetStatus(s) == visit' = [visit EXCEPT !.status = s]
NotDelivery == UNCHANGED <<kind, now, settings, run, delivered>>
AtOnce == NotDelivery /\ UNCHANGED request

\* confirmFromReceipt, which is serializable.
ConfirmFromReceipt ==
  /\ visit.status = "PENDING_PAYMENT"
  /\ SetStatus("CONFIRMED")
  /\ Schedule({"BOOKING_REMINDER", "REVIEW_REQUEST", "PAYMENT_APPROVED"}, visit', message)
  /\ AtOnce

\* Other handlers read the visit's status, and write it by the visit's id in a later statement.
Decide(r, decision) ==
  /\ request[r] = Idle
  /\ CASE decision = "confirm" -> visit.status = "PENDING_PAYMENT"
       [] decision = "approve" -> visit.status = "PENDING_PAYMENT" /\ ~visit.unpaid
       [] decision = "cancel" -> IsActive
       [] decision = "no-show" -> visit.status = "CONFIRMED" /\ visit.startsAt <= now
  /\ request' = [request EXCEPT ![r] = [op |-> "decided", on |-> decision]]
  /\ Leave(message)
  /\ NotDelivery /\ UNCHANGED visit

Commits(r, decision) == request[r] = [op |-> "decided", on |-> decision]
Settle(r) == NotDelivery /\ request' = [request EXCEPT ![r] = Idle]

\* A request commits, and schedules the kinds it owes in statements of their own.
OweAfterCommit(r, kinds) ==
  /\ request' = [request EXCEPT ![r] = IF kind \in kinds THEN [op |-> "date"] ELSE Idle]
  /\ Leave(message)
  /\ NotDelivery

\* confirmBusinessBooking.
ConfirmByStaff(r) ==
  /\ Commits(r, "confirm")
  /\ SetStatus("CONFIRMED")
  /\ OweAfterCommit(r, {"BOOKING_REMINDER", "REVIEW_REQUEST"})

\* approvePaymentReview, approvePaymentAsPlatformAdmin.
Approve(r) ==
  /\ Commits(r, "approve")
  /\ SetStatus("CONFIRMED")
  /\ Schedule({"BOOKING_REMINDER", "REVIEW_REQUEST", "PAYMENT_APPROVED"}, visit', message)
  /\ Settle(r)

\* rescheduleBusinessBooking, which is serializable.
MoveByStaff(r, t) ==
  /\ request[r] = Idle
  /\ IsActive
  /\ t > now
  /\ visit' = [visit EXCEPT !.startsAt = t]
  /\ OweAfterCommit(r, {"BOOKING_REMINDER"})

\* scheduleBookingReminder and its like read the visit for its date,
ReadDate(r) ==
  /\ request[r].op = "date"
  /\ request' = [request EXCEPT ![r] = [op |-> "read", due |-> DueFor(visit)]]
  /\ Leave(message)
  /\ NotDelivery /\ UNCHANGED visit

\* and scheduleCustomerMessage reads it again for its channel.
ReadOwed(r) ==
  /\ request[r].op = "read"
  /\ request' = [request EXCEPT ![r] =
       IF MayBeScheduled(visit) /\ FirstRung # {}
       THEN [op |-> "write", rung |-> CHOOSE n \in FirstRung : TRUE, due |-> @.due]
       ELSE Idle]
  /\ Leave(message)
  /\ NotDelivery /\ UNCHANGED visit

WriteOwed(r) ==
  /\ request[r].op = "write"
  /\ Open(message, request[r].rung, request[r].due)
  /\ Settle(r) /\ UNCHANGED visit

\* The process dies before the commit, or after it.
Abandon(r) ==
  /\ request[r] # Idle
  /\ Leave(message)
  /\ Settle(r) /\ UNCHANGED visit

\* rescheduleBooking, by the customer: the new time is announced, and nothing else is scheduled.
MoveByCustomer(t) ==
  /\ IsActive
  /\ t > now
  /\ visit' = [visit EXCEPT !.startsAt = t]
  /\ Schedule({"BOOKING_RESCHEDULED"}, visit', message)
  /\ AtOnce

\* cancelBooking leaves the scheduled rows to the job.
Cancel ==
  /\ IsActive
  /\ SetStatus("CANCELLED")
  /\ Schedule({"BOOKING_CANCELLED"}, visit', message)
  /\ AtOnce

\* cancelBusinessBooking.
CancelByStaff(r) ==
  /\ Commits(r, "cancel")
  /\ SetStatus("CANCELLED")
  /\ Schedule({"BOOKING_CANCELLED"}, visit', Skipped(message))
  /\ Settle(r)

MarkNoShow(r) ==
  /\ Commits(r, "no-show")
  /\ SetStatus("NO_SHOW")
  /\ Leave(Skipped(message))
  /\ Settle(r)

Expire ==
  /\ visit.status = "PENDING_PAYMENT"
  /\ SetStatus("EXPIRED")
  /\ Leave(message)
  /\ AtOnce

\* A receipt is sent to review, or rejected, whatever has become of the visit; the payment is no longer PENDING.
DecideReceipt(news) ==
  /\ visit' = [visit EXCEPT !.unpaid = FALSE]
  /\ Schedule({news}, visit', message)
  /\ AtOnce

\* remindBusinessBookingPayment: on Telegram only, and once (createMany with skipDuplicates).
RemindPayment(n) ==
  /\ kind = "PAYMENT_REMINDER"
  /\ Ladder[n] = "TELEGRAM" /\ "TELEGRAM" \in settings
  /\ visit.status = "PENDING_PAYMENT" /\ visit.unpaid
  /\ ~Exists(n)
  /\ Open(message, n, now)
  /\ AtOnce /\ UNCHANGED visit

\* The customer links or leaves the bot; the business edits its settings; a plan ends.
ChangeSettings ==
  /\ settings' \in SUBSET Channels
  /\ UNCHANGED <<kind, now, visit, message, request, run, scheduled, delivered, died>>

-----------------------------------------------------------------------------
(* sendDueBookingReminders *)

Go(j, work) == run' = [run EXCEPT ![j] = work]
Elsewhere == UNCHANGED <<kind, now, visit, settings, request, scheduled>>

\* Altered: the query forgets the status.
IsDueByTime(n) == message[n].due <= now

IsDue(n) == message[n].status = "SCHEDULED" /\ message[n].due <= now

\* Any part of the due rows: a batch is limited, and a run may die before it comes to the last one.
StartRun(j) ==
  /\ run[j] = Idle
  /\ \E batch \in SUBSET {n \in Rungs : IsDue(n)} \ {{}} : Go(j, [op |-> "pick", at |-> now, batch |-> batch])
  /\ UNCHANGED <<message, delivered, died>> /\ Elsewhere

Rest(j, n) ==
  IF run[j].batch \ {n} = {} THEN Idle
  ELSE [op |-> "pick", at |-> run[j].at, batch |-> run[j].batch \ {n}]

\* Altered: the row is claimed as it was listed.
ClaimListed(j, n) ==
  /\ run[j].op = "pick"
  /\ n \in run[j].batch
  /\ message' = [message EXCEPT ![n].status = "PROCESSING"]
  /\ Go(j, [op |-> "read", at |-> run[j].at, batch |-> run[j].batch \ {n}, rung |-> n])
  /\ UNCHANGED <<delivered, died>> /\ Elsewhere

\* The claim asks for the status again, not for the time.
Claim(j, n) ==
  /\ run[j].op = "pick"
  /\ n \in run[j].batch
  /\ message[n].status = "SCHEDULED"
  /\ message' = [message EXCEPT ![n].status = "PROCESSING"]
  /\ Go(j, [op |-> "read", at |-> run[j].at, batch |-> run[j].batch \ {n}, rung |-> n])
  /\ UNCHANGED <<delivered, died>> /\ Elsewhere

PassOver(j, n) ==
  /\ run[j].op = "pick"
  /\ n \in run[j].batch
  /\ message[n].status # "SCHEDULED"
  /\ Go(j, Rest(j, n))
  /\ UNCHANGED <<message, delivered, died>> /\ Elsewhere

Outcome(j, outcome) ==
  LET q == run[j] IN
  Go(j, [op |-> "record", at |-> q.at, batch |-> q.batch, rung |-> q.rung,
         attempts |-> q.attempts, settings |-> q.settings, outcome |-> outcome])

\* The row is read with its visit, customer and business; the job judges by the time at which it began.
ResolveTarget(j) ==
  LET q == run[j] IN
  /\ q.op = "read"
  /\ Eligible(q.at)
  /\ Go(j, [op |-> "send", at |-> q.at, batch |-> q.batch, rung |-> q.rung,
            attempts |-> message[q.rung].attempts, settings |-> settings])
  /\ UNCHANGED <<message, delivered, died>> /\ Elsewhere

\* The news is stale: no channel would improve on saying nothing.
ResolveNothing(j) ==
  LET q == run[j] IN
  /\ q.op = "read"
  /\ ~Eligible(q.at)
  /\ Go(j, [op |-> "record", at |-> q.at, batch |-> q.batch, rung |-> q.rung,
            attempts |-> message[q.rung].attempts, settings |-> settings, outcome |-> "STALE"])
  /\ UNCHANGED <<message, delivered, died>> /\ Elsewhere

Deliver(j) ==
  /\ run[j].op = "send"
  /\ Outcome(j, "SENT")
  /\ delivered' = delivered + 1
  /\ UNCHANGED <<message, died>> /\ Elsewhere

\* No chat, no bot, no template any more.  An SMS row is only written for a kind that has its template.
BeUnavailable(j) ==
  /\ run[j].op = "send"
  /\ Ladder[run[j].rung] # "SMS"
  /\ Outcome(j, "UNAVAILABLE")
  /\ UNCHANGED <<message, delivered, died>> /\ Elsewhere

Throw(j) ==
  /\ run[j].op = "send"
  /\ Outcome(j, IF run[j].attempts + 1 >= MaxAttempts THEN "EXHAUSTED" ELSE "RETRY")
  /\ UNCHANGED <<message, delivered, died>> /\ Elsewhere

\* What the job writes over the row it claimed, by its id.  The time of a closed row is not looked at again.
Written(q, row) ==
  [SENT        |-> [row EXCEPT !.status = "SENT", !.attempts = @ + 1, !.externalId = @ \/ Ladder[q.rung] # "TELEGRAM"],
   STALE       |-> [row EXCEPT !.status = "SKIPPED"],
   UNAVAILABLE |-> [row EXCEPT !.status = "SKIPPED"],
   RETRY       |-> [row EXCEPT !.status = "SCHEDULED", !.attempts = q.attempts + 1, !.due = q.at + RetryDelay],
   EXHAUSTED   |-> [row EXCEPT !.status = "FAILED", !.attempts = q.attempts + 1]]

\* Altered: stale news is passed over without closing its row.
RecordedUnlessStale(q, row) == IF q.outcome = "STALE" THEN row ELSE Written(q, row)[q.outcome]

Recorded(q, row) == Written(q, row)[q.outcome]

\* The message is written for the next channel after a channel could not carry it.
Record(j) ==
  LET q == run[j] IN
  /\ q.op = "record"
  /\ message' = [message EXCEPT ![q.rung] = Recorded(q, @)]
  /\ Go(j, IF q.outcome \in {"UNAVAILABLE", "EXHAUSTED"}
           THEN [op |-> "hand", at |-> q.at, batch |-> q.batch, rung |-> q.rung, settings |-> q.settings]
           ELSE Rest(j, q.rung))
  /\ UNCHANGED <<delivered, died>> /\ Elsewhere

HandDown(j) ==
  LET q == run[j] IN
  /\ q.op = "hand"
  /\ \E n \in NextRung(q.rung, q.settings) :
       /\ message' = Opened(message, n, q.at)
       /\ died' = died \ {n}
  /\ Go(j, Rest(j, q.rung))
  /\ UNCHANGED delivered /\ Elsewhere

LadderExhausted(j) ==
  LET q == run[j] IN
  /\ q.op = "hand"
  /\ NextRung(q.rung, q.settings) = {}
  /\ Go(j, Rest(j, q.rung))
  /\ UNCHANGED <<message, delivered, died>> /\ Elsewhere

\* The process dies with a row in its hands; nothing but a new scheduling brings it back.
Die(j) ==
  /\ run[j].op \in {"read", "send", "record", "hand"}
  /\ died' = IF run[j].op = "hand" THEN died ELSE died \cup {run[j].rung}
  /\ Go(j, Idle)
  /\ UNCHANGED <<message, delivered>> /\ Elsewhere

\* WhatsApp reports on a message that it accepted, at any time and more than once.
WhatsAppWebhook(n, status) ==
  /\ Ladder[n] = "WHATSAPP"
  /\ message[n].externalId
  /\ message' = [message EXCEPT ![n].status = status]
  /\ UNCHANGED <<run, delivered, died>> /\ Elsewhere

Tick ==
  /\ now < MaxTime
  /\ now' = now + 1
  /\ UNCHANGED <<kind, visit, settings, message, request, run, scheduled, delivered, died>>

-----------------------------------------------------------------------------
\* createPendingBooking and createManualBooking: a visit that needs no prepayment is created
\* confirmed, and its messages are scheduled after that commit.
InitialRequests ==
  LET none == [r \in Requests |-> Idle]
      owed == visit.status = "CONFIRMED" /\ kind \in {"BOOKING_REMINDER", "REVIEW_REQUEST", "BOOKING_CONFIRMATION"}
  IN  IF owed THEN {[none EXCEPT ![r] = [op |-> "date"]] : r \in Requests} ELSE {none}

Init ==
  /\ kind \in Kinds
  /\ now = 0
  /\ visit \in [status : {"PENDING_PAYMENT", "CONFIRMED"}, startsAt : {t \in Starts : t > 0}, unpaid : {TRUE}]
  /\ settings \in SUBSET Channels
  /\ message = [n \in Rungs |-> NoRow]
  /\ request \in InitialRequests
  /\ run = [j \in Runs |-> Idle]
  /\ scheduled = 0
  /\ delivered = 0
  /\ died = {}

Operate ==
  \/ ConfirmFromReceipt
  \/ \E r \in Requests, decision \in Decisions : Decide(r, decision)
  \/ \E r \in Requests : ConfirmByStaff(r) \/ Approve(r) \/ CancelByStaff(r) \/ MarkNoShow(r)
  \/ \E r \in Requests : ReadDate(r) \/ ReadOwed(r) \/ WriteOwed(r) \/ Abandon(r)
  \/ \E r \in Requests, t \in Starts : MoveByStaff(r, t)
  \/ \E t \in Starts : MoveByCustomer(t)
  \/ Cancel
  \/ Expire
  \/ \E news \in {"RECEIPT_NEEDS_REVIEW", "PAYMENT_REJECTED"} : DecideReceipt(news)
  \/ \E n \in Rungs : RemindPayment(n)
  \/ ChangeSettings

\* A run that has begun goes on to its next statement.
Advance(j) ==
  \/ \E n \in Rungs : Claim(j, n) \/ PassOver(j, n)
  \/ ResolveTarget(j)
  \/ ResolveNothing(j)
  \/ Deliver(j)
  \/ BeUnavailable(j)
  \/ Throw(j)
  \/ Record(j)
  \/ HandDown(j)
  \/ LadderExhausted(j)

Next ==
  \/ Operate
  \/ \E j \in Runs : StartRun(j) \/ Advance(j) \/ Die(j)
  \/ \E n \in Rungs, status \in {"SENT", "FAILED"} : WhatsAppWebhook(n, status)
  \/ Tick

SafetySpec == Init /\ [][Next]_vars

\* The job is run again and again, and its statements and calls end; no request is promised to happen.
Spec ==
  /\ SafetySpec
  /\ WF_vars(Tick)
  /\ \A j \in Runs : WF_vars(StartRun(j) \/ Advance(j))

-----------------------------------------------------------------------------
(***************************************************************************)
(* The customer is told at most once for each time the message was         *)
(* scheduled, by one channel: overlapping runs, stale writes over a row    *)
(* that was opened again, retries, deaths and the walk down the ladder     *)
(* never make two deliveries of one scheduling (the claim of the job and   *)
(* the upserts).  An attempt that throws does not count as delivered.      *)
(***************************************************************************)
DeliveredOnce == delivered <= scheduled

(***************************************************************************)
(* Every row that is due is closed in the end (sent, skipped or failed),   *)
(* unless the process that held it died, or it is due after the clock      *)
(* stops: no message waits for ever in the queue.  Nor does it cause work  *)
(* for ever: retries and the walk down the ladder write new rows that are  *)
(* due at once, but they come to an end and the job comes to rest.         *)
(***************************************************************************)
IsOpen(n) == message[n].status \in {"SCHEDULED", "PROCESSING"}

Settles ==
    /\ \A n \in Rungs : IsOpen(n) ~> (~IsOpen(n) \/ n \in died \/ message[n].due > MaxTime)
    /\ <>[](\A j \in Runs : run[j] = Idle)

(***************************************************************************)
(* "A day before the visit" and "two hours after the visit ends": the job  *)
(* never begins to send a reminder or a request for a review earlier than  *)
(* the time of the visit, as it then is, allows.                           *)
(***************************************************************************)
IsTimed == kind \in {"BOOKING_REMINDER", "REVIEW_REQUEST"}

SentInItsTime ==
  [][\A j \in Runs : IsTimed /\ run[j].op = "read" /\ run'[j].op = "send" => run[j].at >= DueFor(visit)]_vars
=============================================================================
