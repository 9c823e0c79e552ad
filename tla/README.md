# ManClient: models, checks and proofs

ManClient takes bookings for salons and workshops: a customer chooses a service,
a specialist and a time on a public page or in Telegram, holds the slot for a
quarter of an hour, transfers the prepayment to the branch's card, and sends a
picture of the receipt; staff work in a dashboard and in a bot. It is a Next.js
application and a scheduler process over one PostgreSQL database. Every handler
reads rows, decides, and writes later, while other requests, the jobs and other
instances do the same; every page shows a copy of the rows and sends requests
whose answers come in any order. That is what makes the program hard.

This directory holds TLA+ modules for it, TLC configurations that check them on
small instances, and TLAPS proofs for all instances. `PROJECT.json` lists runs,
mutants, findings, hazards and the source lines of every definition.

    tlc -workers 2 -config MCServices.cfg MCServices.tla
    tlapm Pages_proofs.tla

## Inventory

Paths are relative to `src/src/`. "Correct when" is what the project checks.

| component | state | operations | correct when |
|---|---|---|---|
| booking allocation and windows (`core/bookings/booking-allocation.ts`, `core/availability/booking-window.ts`, `core/bookings/booking-service.ts`) | `Booking`, `BookingResource` | availability search, then a SERIALIZABLE reservation | no two active visits overlap on a specialist or a resource, buffers included |
| booking operations and policy (`core/booking-operations`, `reschedule-booking.ts`, `cancel-booking.ts`, `booking-policy.ts`) | status, start, specialist, `rescheduleCount` | move (customer, staff), confirm, cancel, no-show | moves only to free places; limits hold; nobody brings a lapsed booking back over another |
| holds and expiry (`hold-extension.ts`, `jobs/expire-pending-bookings.ts`) | `expiresAt`, `reviewDeadline` | extend, sweep | a slot is neither held forever nor lost while its receipt is decided |
| receipts and payment confirmation (`core/payments/receipt-submission-service.ts`, `payment-service.ts`) | `Payment`, `ReceiptSubmission` | submit, claim, recognise, confirm, retry | each receipt has one processor and one verdict; accepted money has a booking |
| payment review (`payment-review-service.ts`, `features/platform/attention-payments-queue.tsx`) | same rows, `CommissionEntry`; the queue's ticks and dialogs | approve, reject, bulk forms, by members and the platform | two reviewers, or a reviewer and a new receipt, leave one decision, about what the page showed |
| promo codes and prepayment (`core/promotions/promo-code-service.ts`, `core/payments/prepayment-policy.ts`) | counters, the form's field | create, check, redeem in the reservation | counters and limits hold; what is owed is what was promised, never more than the price |
| waitlist and series (`waitlist-service.ts`, `recurring-booking-service.ts`) | entries, series | join, notify, withdraw; create and cancel visit by visit | one offer per freed time; a withdrawn entry stays so; a cancelled series leaves no visit |
| customer notifications (`core/notifications`, `jobs/send-booking-reminder.ts`) | `Message` | schedule (upsert), claim, send, retry, hand down the ladder of channels | every due message is sent or closed, once for each time it was scheduled |
| business notifications (`business-notification-service.ts`, `jobs/send-business-telegram-notifications.ts`) | notification, deliveries | schedule, skip, deliver per chat | a card is sent once; a cancelled visit is not announced |
| scheduler and job locks (`jobs/scheduler.ts`, `jobs/run-job.ts`, `core/database/advisory-lock.ts`) | running flags, backoff, advisory locks | tick, run, unlock, shut down | one run of a job at a time; every job runs again |
| subscriptions (`jobs/subscription-lifecycle.ts`, `core/platform/subscription-*`) | status, period, invoices, transfers | hourly transitions, transfer, review, grant | a paid period is not cut short; a lapsed one ends |
| phone verification (`core/security`) | codes, counters | send, check, spend, sweep | bounded attempts; one use |
| signing in and recovery (`core/auth/login-throttle.ts`, `password-reset.ts`, `features/auth/password-reset-form.tsx`) | counters, codes | sign in, ask, confirm | wrong passwords, texts and comparisons are bounded; one code buys one reset |
| Telegram inbound (`core/integrations/inbound-update-service.ts`) | `InboundChannelUpdate` | claim, handle, complete | an update takes effect once, and at last |
| customer bot (`core/conversations`, `integrations/telegram/business-update-handler.ts`) | session, one-time actions | choose, book, pay, send a receipt | a tap books once; a receipt goes to the booking chosen |
| staff bot and chats of members (`integrations/telegram/business-bot-handler.ts`, `core/integrations/platform-chat-link.ts`) | cards, links | buttons, commands, linking | a button takes effect once; a chat serves whom it belongs to |
| the salon's own bot (`core/integrations/business-telegram-service.ts`, `managed-bot-intent.ts`) | integration row, webhook, intents | connect, rotate, disconnect, retry, create | a webhook leads to its own bot's row |
| settings and onboarding (`core/business-settings`, `core/onboarding`) | branches, specialists, services, resources | publish, hide, archive, restore, save | owners' decisions stand; what is booked is not archived |
| public pages (`features/public-booking`, `features/public-payment`, `features/customer-visits`) | forms, polls, cookie | choose, book, pay, cancel, move | what is shown and sent is what was chosen, by whom it belongs to |
| dashboard pages (`features/dashboard/bookings`, `day-schedule-service.ts`) | day, drag, card, form | draw, drag, act, book | nothing is hidden, dropped or sent otherwise than shown |
| sessions and registration, reviews, retention, platform pages, audit, gateways, rendering | single rows or none | | not modelled, see the end |

How they interact: public pages and Telegram call the booking and payment
services; those call the notification services inside their transactions, which
only insert outbox rows; the scheduler's jobs drain the outboxes, retry receipts
and expire holds; staff act through the dashboard and the business bot. All
communication between servers is through rows.

What is hard: transactions are READ COMMITTED unless they say SERIALIZABLE, and
only the reservation, the two reschedules and `confirmFromReceipt` do. Updates
are conditional (`updateMany` with a status) in some places and by id in others.
Processes die between two statements; jobs of two instances overlap when a lock
connection is lost; time passes between a check and its write; Telegram repeats
what was not answered; a browser applies late answers to a form that has moved on.

## Modules

A module is one component. A READ COMMITTED transaction that reads a status and
then updates by id is two actions; one that decides in the `where` clause of its
update is one; a SERIALIZABLE one is one (see `SlotAllocation`). Requests in
flight are records with a `pc`. History variables are named as such where they are
declared; they serve the properties.

### The core

| module | what it is |
|---|---|
| `Calendar` | abstract: visits claim lanes (a specialist, resources) for an interval; a claim is taken or moved only where it is free, and comes back after release only by a person's override |
| `SlotAllocation` | the booking rows and every operation on them; implements `Calendar` |
| `ReceiptPayment` | the deadline of a hold, receipts, recognition, review, sweep |
| `MessageOutbox` | messages to a customer: scheduling, the delivery job, the ladder of channels |
| `MCSlotAllocation`, `MCReceiptPayment`, `MCMessageOutbox` | their small instances |

#### SlotAllocation and the code

`booking[b]` is a row: status, service, specialist, start, and the number of
customer moves (`rescheduleCount`). `req[r]` is a handler in flight. `now` is the
clock. `revived` is a history variable: bookings that a late confirmation put
back, until they are moved or released.

| action | code |
|---|---|
| `SearchSlot`, `ReserveAllocation`, `RefuseSlot` | `createPendingBooking` and `createManualBooking`: `getAvailableStarts` outside a transaction, then `reserveAllocation` |
| `ReadCustomerMove`, `ReadStaffMove`, `Reschedule` | `rescheduleBooking`, `rescheduleBusinessBooking`: policy, specialist and availability read once, then the transaction |
| `ReadConfirm`, `CommitConfirm` | `confirmBusinessBooking`, and the booking half of the payment approvals |
| `ReadCancel`, `CommitCancel`; `ReadNoShow`, `CommitNoShow` | `cancelBusinessBooking`, `markBusinessBookingNoShow` |
| `ReadConditionalCancel`, `CommitConditionalCancel` | `cancelBooking`, by a customer (window checked first) or for a series |
| `ConfirmFromReceipt`, `ExpirePendingBookings` | the serializable confirmation and the sweep |
| `Abandon` | a retry limit reached, a condition that fails, a process that dies |

A SERIALIZABLE transaction is one action that does its reads and its write. This
is sound here: two such transactions whose rows matter to each other are ordered
or one is aborted, and a READ COMMITTED write that falls between the snapshot and
the commit can be ordered after the transaction, because the transaction writes
only new rows, or rows whose concurrent update would abort it. The three
attempts of `runSerializableTransaction` are therefore invisible except for
giving up (`PromoCodes` has them step by step).

Data is abstracted to minutes on a line: branches, weekly schedules, breaks and
exceptions become one interval of working hours, which neither the proofs nor
the properties depend on. Archiving and unpublishing, roles and promo codes are
left out here; a service always uses the resources of the catalogue.

#### ReceiptPayment and the code

`booking[p]`, `payment[p]` and `submission[s]` are the rows; `handler[h]` is what
a request or a job run knows; `audit` collects the `booking.confirmed` events of
receipts. `submitReceiptImage` is `ReadSubmit`, `CommitSubmit`, and goes on with
`Claim` as the code does; `retryReceiptSubmissions` is `ListForRetry` followed by
`Claim`. After a claim the handler ends in `MarkNeedsReview` (unreadable, or a
duplicate operation), `MarkFailed` (any other error), or one of `ConfirmAgain`,
`ConfirmAccept`, `ConfirmDoubt` (the three exits of `confirmFromReceipt`)
followed by `FinishSubmission`. Reviews, hold extension, manual confirmation and
cancellation are a read and a commit each. `Abandon` may end any handler at any
point. What the picture says (operation, time, agreement of amount, card and
status) is chosen when it is recognised, so every recognition is covered, also
one that changes its mind on a retry. All bookings start at time 0.

#### MessageOutbox and the code

A `Message` row is found by its booking, its kind and its channel, and nothing
relates rows of two bookings or two kinds. The module therefore follows one visit
and one kind, chosen at the start of a behaviour; `message[n]` is the row of the
n-th channel of `CHANNEL_LADDER`. `visit` is the booking as far as messages read
it, `settings` the channels that the stored settings of customer and business
allow, `request[r]` a handler of staff or of a reviewer, `run[j]` a run of
`sendDueBookingReminders`. `scheduled`, `delivered` and `died` are history.

| action | code |
|---|---|
| `ConfirmFromReceipt`, `Approve` | `scheduleConfirmationEffects` and the approvals, inside the transaction that confirms |
| `ConfirmByStaff`, `MoveByStaff`, and the visits that are created confirmed (`InitialRequests`) | the commit; then `ReadDate`, `ReadOwed`, `WriteOwed`: `scheduleBookingReminder` and `scheduleReviewRequest` read the visit for its date, `scheduleCustomerMessage` reads it again and upserts |
| `Decide`, then `ConfirmByStaff`, `Approve`, `CancelByStaff`, `MarkNoShow` | handlers that read the status and write it by id later |
| `MoveByCustomer`, `Cancel`, `Expire`, `DecideReceipt`, `RemindPayment` | one conditional update or one serializable transaction each |
| `Abandon` | a request that ends before its commit, or before it has scheduled what it owes |
| `StartRun`, `Claim`, `PassOver` | the list of due rows, and the conditional claim of each |
| `ResolveTarget`, `ResolveNothing`; `Deliver`, `BeUnavailable`, `Throw` | the row read with its visit and settings; what the sender returns |
| `Record`, `HandDown`, `LadderExhausted` | the update by id, and the upsert of the next channel's row |
| `Die` | the process ends with a row in its hands |
| `WhatsAppWebhook`, `ChangeSettings` | a delivery report; links, templates, switches and plans that change |

A run takes any part of the due rows, in any order: the batch of a hundred, the
order by date and a run that dies before its last row are all among the choices.
What a provider does is a free choice, except that an SMS row is only written for
a kind that has a template, so the SMS sender never declines. `Throw` says nothing
about what reached the customer, and does not count as delivered. The `REVIEWS`
feature of the plan is taken to be in force. Rows of waitlist entries, and the
confirmation that the Telegram conversation sends without a row, are left out.

### The services

Each has rows of its own; none writes a row of another module of this list.
What a service needs of the core (is the time free, is the receipt accepted) is
a free choice in it. `Access` puts two of them together.

| module | code | state and actions |
|---|---|---|
| `BusinessOutbox` | `business-notification-service.ts`, `send-business-telegram-notifications.ts` | one visit, its notices by deduplication key, a delivery for each chat. `SalonStep`: every operation that schedules, repeats or skips a notice; `SenderStep`: list, claim, send, record, retry; `DieSender` |
| `Subscription` | `core/platform/subscription-*`, `business-directory.ts`, `subscription-lifecycle.ts` | one business: status and end of its period, invoices, transfers. Requests of owners (`CreateInvoice`, `ReadTransfer`, `CommitTransfer`), of operators (`ReadForDecision`, `ReadEndsAt`, `CommitApproval`, `CommitRejection`, `GrantPlan`), and runs of the job (`LifecycleStep`), each read and write apart |
| `JobScheduler` | `scheduler.ts`, `run-job.ts`, `advisory-lock.ts` | processes, their lock sessions, the promise of each job. `Tick`, `StartCli`, `JobStep` (lock, run, unlock), `Sever`, `NoticeSevered`, `Signal`, `Kill` |
| `PhoneVerification` | `phone-verification-service.ts` and the gate of the booking routes | codes of one number, tabs with a request each, the counter. Sending (`ExpirePending`, `CreateCode`, `SmsAccepted`), confirming (`CompareCode`, `CountWrongCode`, `MarkVerified`), spending before or after the booking, the sweeps |
| `LoginThrottle` | `login-throttle.ts`, `rate-limit.ts` | counters by subject and window, sign-ins in flight: both counters read, compared, charged; the clean-up; a limiter that fails |
| `PasswordRecovery` | `password-reset-form.tsx`, its routes, `password-reset.ts` | the form and its requests, codes seen from the form, counters of one window; lost answers |
| `Access` | | both ways into the dashboard, side by side |
| `BusinessBot` | `business-bot-handler.ts`, `business-bot-actions.ts` | one visit and its receipts, cards with mutation buttons, handlers of taps. `Tap` consumes the button, `ReadCommand` and a commit follow; customers, the sweep and the recogniser act meanwhile |
| `PlatformChat` | `platform-chat-link.ts`, `platform-update-handler.ts`, `business-bot-handler.ts` | links, chats and their member, cards, language, the update being handled |
| `InboundUpdates` | `inbound-update-service.ts`, the webhook route | rows of updates, deliveries. `ClaimNew`, `SeeReclaimable`, `Reclaim`, `Handle`, `CompleteUpdate`, `FailUpdate`, `HookDies` |
| `CustomerBot` | `core/conversations`, `business-update-handler.ts` | one chat: session, confirmation cards, orders, handlers. The session's version is a flag: a handler is current until somebody writes the session after its read |
| `TelegramSetup` | `business-telegram-service.ts`, `managed-bot-intent.ts`, `platform-update-handler.ts` | rows, what Telegram has as the address of each bot, intents, and the hands at work: each call and each write of `Connect`, `Rotate`, `Disconnect`, `Retry` and of the creation by an intent is a step |
| `FreedSlots` | `recurring-booking-service.ts`, `waitlist-service.ts` | a series booked and cancelled visit by visit; entries of the waitlist; the alert job |
| `FirstService` | `core/onboarding`, `core/business-settings` | services with their publication; requests of owners; `publishFirstServiceWhenReady` in its three steps |
| `Catalogue` | `core/business-settings` | branches, one specialist, service and resource; archiving in count and write; one customer who finds a time and reserves it |
| `ReviewDesk` | `attention-payments-queue.tsx`, `payment-review-service.ts` | payments, their receipts, operators' pages with ticks and dialogs, bulk loops, the salon's owner |
| `PromoCodes` | `promo-code-service.ts`, `prepayment-policy.ts`, the reservation, the form's field | codes, snapshots of serializable transactions with their conflicts and retries (`OpenTransaction`, `Commit`, `SerializationFailure`), the price promised |
| `BookingForm` | `booking-form.tsx`, `phone-verification-panel.tsx` | one tab: choices, shown times, requests in flight with their aborts |
| `PaymentPage` | `payment-page.tsx` and its routes | the page's copy of the payment, chains of timers, polls, returns to the tab, uploads |
| `Cabinet` | `app/my`, `features/customer-visits`, `core/customers`, `app/reschedule` | codes, cookie, sign-in form, the list as drawn, the link that moves a visit |
| `DayPicture` | `day-schedule-service.ts`, `day-intervals.ts` | the rows of a day; the loops are recursive functions along them |
| `CalendarBoard` | `use-calendar-drag.ts` | rows, the page as rendered, `pendingMove`, loads and the answer on their way |
| `VisitDesk` | `booking-actions-panel.tsx`, `manual-booking-form.tsx` | the card with its panel and dialogs, the form of a new visit, requests for times |
| `MCServices` | | a small instance of each (below) |

Some abstractions worth knowing. `PromoCodes` spells the SERIALIZABLE
transaction out: a snapshot, and a commit that fails if what it read was written
meanwhile; the other modules use such transactions as one step. `Subscription`
counts time in days, `JobScheduler` in ticks of the loop, `DayPicture` in quarters
of an hour. `VisitDesk` and `Cabinet` give a day one start. `ReviewDesk` leaves
the cursor of queues longer than a page out, `CustomerBot` several salons in one
chat, `BusinessBot` its navigation (which leaves no state a member could not
reach anyway). In pages the order of answers is free unless the code aborts or
compares; the queue of server actions in `VisitDesk` is in order, as the router
keeps it.

## Runs

| run | bounds | shows |
|---|---|---|
| `slots_calendar` | 2 bookings, 2 handlers, 2 specialists, 1 chair, 2 services (one with a buffer), a day of 3 starts, clock still | types, `ImplementsCalendar`, `NoUnexplainedOverlap`. 750 thousand states |
| `slots_policy` | 1 booking, 3 handlers, clock to 2, window 1, limit 1 | `LimitOvershootBounded`. 1 million states |
| `receipts_safety` | 1 payment, 2 receipts, 2 handlers, 2 operations, clock to 3 | types and three safety invariants. 2 million states |
| `receipts_release` | 1 payment, 1 receipt, 2 handlers, clock to 3 | `HoldEnds`, with fairness. 70 thousand states |
| `messages` | four kinds, 2 channels, 2 runs of the job, 1 request, 2 attempts, 2 schedulings (a reminder: 1), clock still | types, `DeliveredOnce`. 1.2 million states |
| `messages_settle` | three kinds, 2 channels, 1 run, 1 request, 2 attempts, schedulings as above, clock to 1 | `Settles`, with fairness. 290 thousand states |
| `services` | below | types and 22 safety invariants of the services. 1.2 million states |
| `services_settle` | below | five promises, with fairness. 96 thousand states |
| `slots_stale_confirm` | as `slots_calendar` | finding 1 |
| `slots_wide_buffers` | two services with buffers that meet | finding 2 |
| `receipts_operation_reused` | 2 payments, 3 receipts | finding 3 |
| `messages_early` | a request for a review, 1 run, clock to 4 | finding 4 |

Why the bounds are enough: an overlap needs two bookings, and a race two
handlers; the limit is passed by handlers beyond the first, so three show that
the bound is reached by two. Day, durations and buffers are small but make every
relation of two windows occur (apart, touching, meeting only through a buffer,
overlapping, equal). Two receipts and two handlers are enough for one receipt to
overtake the other at every step, and the clock passes every deadline. The
theorems remove the bounds where they exist. `slots_calendar` keeps the clock at
0, since no guard but the no-show's and the customer's lead time reads it; the
no-show is reached in `slots_policy`, where the clock moves.

In `messages` the clock stands still and a failed attempt may be repeated at once
(`RetryDelay` 0): every order of claims, retries and schedulings occurs without
it. Two runs are enough for one to overtake the other between any two statements,
and two schedulings for a row to be opened again while it is sent. Time, and with
it reminders that come too late and no-shows, is in `messages_settle`.

### One run for the services

The services share no row, so their states need not be multiplied. `MCServices`
chooses one of them at the start (`focus`), lets it take every step of its own
next-state relation, and leaves the rows of the others in a first state. `MCView`
tells states apart by the rows of the service that moves, since the others cannot
differ. So the states of the services add up, and each is explored as in a run of
its own:

| service | states | bounds | larger instances that hold too |
|---|---|---|---|
| notices | 154 thousand | 1 chat, 1 time, 2 runs, 2 changes, 1 death | |
| plans | 120 thousand | 2 invoices, 2 transfers, 1 request each, 1 run, 2 days | |
| jobs | 8 thousand | 2 processes, 1 job, 2 faults | |
| codes | 79 thousand | 2 codes, 2 tabs, 2 purposes, clock to 2 | |
| staff bot | 72 thousand | 1 member, 2 taps, 2 cards, 1 receipt, 1 death | 2 receipts (300 thousand) |
| updates | 9 thousand | 1 update, 2 deliveries, lease 1, clock to 2 | |
| customer bot | 122 thousand | 2 handlers, 2 orders, 1 card, 1 death | 2 cards without deaths (2.9 million) |
| form | 16 thousand | 2 branches, 2 days, 1 time, 1 post | 2 posts (126 thousand) |
| payment page | 39 thousand | 1 chain of timers, 1 return | |
| bot setup | 73 thousand | 2 bots, 2 hands, 2 keys, 1 fault | 3 hands (3.1 million) |
| freed slots | 74 thousand | 2 visits, 1 entry, 2 cancellers, 1 death | 2 entries (770 thousand) |
| day picture | 5 thousand | 3 rows of 9 spans on a day of 8 quarters | |
| calendar | 8 thousand | 2 visits, 2 places, 2 changes by others | 3 changes (87 thousand) |
| first service | 7 thousand | 2 services, 2 owners, 5 edits | |
| catalogue | 11 thousand | 2 branches, 2 owners, 3 requests | 4 requests (68 thousand) |
| review desk | 128 thousand | 2 payments, 1 operator, 1 receipt each | 2 receipts each (507 thousand) |
| cabinet | 36 thousand | 2 numbers, 1 visit, 2 codes, clock to 2 | 2 visits (169 thousand) |
| platform | 44 thousand | 2 members, 2 people, a group, 2 links, 1 card | 2 cards (410 thousand) |
| visit desk | 45 thousand | 2 days, 1 service, 2 specialists, 2 loads, 1 press | 2 presses (145 thousand) |
| promo codes | 41 thousand | 2 customers, 1 code, 2 services, 2 retries | 2 kinds of discount (79 thousand) |
| sign-in | 62 thousand | 2 names, 2 sign-ins at once, 3 in all, 2 windows | |
| recovery | 38 thousand | 2 numbers, 2 requests at once, 3 presses, 1 code | 2 codes (115 thousand), 4 presses (943 thousand) |

One actor fewer and a race of that service cannot happen; each bound on deaths,
faults, changes and presses is reached. The mutants show it: each invariant fails
when the guard it rests on is dropped from the code, under the same bounds.

Symmetry is used for bookings, handlers, runs, receipts and operations, which the
modules only compare; never in a run with a liveness property. Deadlock is not
checked: at the clock's bound with everything settled the system may stop.

### Fairness

`ReceiptPayment!Spec`: time advances, and the sweep, when it has something to
expire, is run. `jobs/scheduler.ts` runs every job each minute, and again after
a failure with a backoff of at most fifteen minutes. No request, retry or review
is assumed to happen, so `HoldEnds` says that the sweep alone frees every slot.

`MessageOutbox!Spec`: time advances, and each run of the job starts again when
something is due and goes on to its next statement. The scheduler runs
`booking-reminders` each minute; a statement returns or fails, and a provider's
call ends at the latest with the HTTP client's own timeout. A process that dies is
not excluded, and is what `Settles` excepts. No operation, webhook or change of
settings is assumed to happen.

`MCServices!SettleFairness`, for the service that a behaviour follows:

- *notices, plans*: time advances, and the scheduler starts runs that go on to
  their next statement; again nothing is asked of people or of Telegram.
- *jobs*: the loop starts with its container, its timer fires, promises settle, and
  a severed session is noticed at last. A loop that is lost is not started again,
  which the property excepts.
- *updates*: Telegram repeats what was not answered with 200, a handler goes on,
  and of deliveries that are made again and again some get through: strong
  fairness, since a lease closes and opens the way.
- *payment page*: the customer comes back to the tab; a timer fires in a tab that
  is looked at again and again (browsers hold timers of hidden tabs), and a poll
  that is asked again and again is answered. The verdict itself is not assumed.

## Findings

1. *Late confirmation* (`slots_stale_confirm`). `confirmBusinessBooking` (and the
   approvals) confirm by id after reading the status. If the hold expires, or the
   customer cancels, in between, and another customer books the slot, both
   bookings are active. `Calendar` has an action for this, `Override`, so that
   everything else can be shown to be exclusive.
2. *Two buffers, one slack* (`slots_wide_buffers`). The overlap query is widened
   by `MAX_BUFFER_MINUTES` (240), but two visits may need up to twice that
   between them. A catalogue in which one service's buffer after and another's
   buffer before sum to more than 240 double-books without any race. Under
   `SlackCoversBuffers` it cannot (theorem `RefinesCalendar`).
3. *Operation number freed* (`receipts_operation_reused`). A receipt that is
   recognised after another of the same payment was accepted overwrites the
   operation number, and the unique index then admits the accepted operation for
   a second booking.
4. *Thanked too early* (`messages_early`). A move by staff schedules the reminder
   again, a move by the customer schedules only the news of the move; the request
   for a review stays due two hours after the *old* end, and is sent if the visit
   is CONFIRMED then. After a move by the customer the reminder, too, comes a day
   before the old time. The comments promise both relative to the visit
   (`notification-service.ts`, lines 69 and 79).

### Exceptions the properties name

Several properties hold with an exception, and each exception is behaviour of the
code that a model shows. In the order of the modules:

- `OneRunPerJob`: a run that has not noticed yet that its lock session was severed
  overlaps the next one. `PaidTimeNotTakenAway` depends on it: with two lifecycle
  runs at once, one brings GRACE back from a row it read before the payment and the
  other ends the plan. TLC finds this with `LifecycleRuns = {r1, r2}`, `MaxDay = 3`;
  only the advisory lock prevents it.
- `CardSentOnce`: a card is sent again when its outcome could not be written.
  `EndedVisitIsQuiet`: a run that had listed a notice before it was skipped
  delivers it.
- `CodeLimitsHold`, `AccessIsLimited`: two confirmations of one code that overlap
  (a lost answer that is retried is enough) write VERIFIED over CONSUMED, and the
  code buys again, although `password-reset.ts:73` says a code must buy exactly one
  reset. Sign-ins in flight together pass the limit by their number. A reset neither
  ends sessions nor lifts the lock, and two spellings of one number are counted apart.
- `StaffDecideOnce`, `DecidedAsShown`: another receipt that puts the payment back
  to NEEDS_ATTENTION while a decision is half way lets it be decided twice, and an
  approved payment be rejected; the second commission's unique violation is
  swallowed in a transaction that is aborted already.
- `HandledOnce`: a handler that outlives its lease, or a process that ends between
  the handler's last effect and the row.
- `ChatKeepsItsChoice`: another booking chosen while a receipt is read makes the
  conversation say COMPLETE about an unpaid booking.
- `SetupLeadsHome`: a rotation or disconnection that overtakes a connection lets
  its intent be closed for a bot that never was the salon's. A webhook may lead
  nowhere after a failure, which the property does not exclude.
- `FreedTimesOfferedOnce`: staff cancel by id, so a visit that somebody else
  cancelled meanwhile is offered again; a withdrawn entry comes back as NOTIFIED.
- `CancelledSeriesIsEmpty`: visits linked after the series was marked, and those
  that a dead process had still to cancel, stay; a second call returns at once.
- `ArchivedIsFree`: a reservation does not look again at the branch, the service
  and the resource it found, nor an archiving at what was booked after its count.
- `KeptWhereDropped`: a second drop replaces the pending move of the first visit,
  which jumps back until the page is loaded.
- `DeskSendsWhatItShows`: `ManualBookingForm.loadSlots` neither aborts nor compares,
  so the answer to an earlier choice is shown, and booked, as the current one;
  `bypassConfirmation` stays set when the browser refuses the form.
- `FormKeepsItsChoice`: a choice changed while its answer is applied; a panel left
  while its code is confirmed books the time that was left.
- `DiscountsAddUp`: a price promised for another code or service, or for a series.
- `ChatServesItsMember`: what a held update answers in a chat linked anew meanwhile.
- `PageSettles`: a poll whose fetch throws ends the chain of timers.
- `NoticesSettle`, `Settles`, `UpdatesSettle`, `HoldEnds`: rows left PROCESSING by a
  process that died; an update answered with 200 while its claim was held.

Also visible, and without a property: a hold shortened by two returns to the
payment page that overlap; a no-show written over a visit moved to the future; a
specialist of two branches booked in both at once; a reminder lost when the process
dies after the staff's confirmation; a retry of a connection that races a
disconnection and activates a row without a token; two owners who archive the last
two branches at once; a payment page that polls for ever once its booking is over;
a code redeemed under an expired plan, which the billing design says switches
promo codes off.

## Proofs

All theorems are about every value of the constants under the ASSUMEs of their
modules (positive limits, finite sets where something is counted, distinct
names), for any number of actors, rows and steps. The bounds that the guards carry
are constants too and may be as large as one likes.

| theorem | says | inductive invariant |
|---|---|---|
| `Calendar_proofs!CalendarTyped`, `CalendarExclusive` | claims not overridden never clash | itself |
| `SlotAllocation_proofs!Typed` | `TypeOK` | itself |
| `SlotAllocation_proofs!RefinesCalendar` | `Spec => TheCalendar!Spec`, under `SlackCoversBuffers` and `OneBranchPerLane` | `TypeOK` |
| `SlotAllocation_proofs!NoOverlap` | `NoUnexplainedOverlap`, under the same | through the refinement |
| `SlotAllocation_proofs!LimitOvershoot` | `LimitOvershootBounded` | `LimitInv` |
| `ReceiptPayment_proofs!Typed`, `AcceptedKept` | `TypeOK`, `AcceptedNotLost` | itself |
| `ReceiptPayment_proofs!ProcessedOnce` | `SingleProcessor` | `ClaimInv` |
| `ReceiptPayment_proofs!NoneForgotten` | `NoReceiptForgotten` | `WorkInv`, `QueueInv` |
| `MessageOutbox_proofs!Typed`, `DeliveredOncePerScheduling` | `TypeOK`, `DeliveredOnce` | `Budget` |
| `Unattended_proofs!OneRunner` | `OneRunPerJob` | `SessionInv` |
| `Unattended_proofs!CardsSentOnce`, `EndedVisitsQuiet` | `CardSentOnce`, `EndedVisitIsQuiet` | `CardInv`, `QuietInv` |
| `Unattended_proofs!PaidTimeStands` | `PaidTimeNotTakenAway`, under `OneLifecycleRun` | `LapseInv`, `BoughtInv` |
| `Unattended_proofs!FreedOnce`, `SeriesEmptied` | `FreedTimesOfferedOnce`, `CancelledSeriesIsEmpty` | `OfferInv`, `WithdrawnInv`, `SeriesInv` |
| `Unattended_proofs!UpdatesHandledOnce` | `HandledOnce` | `UpdateInv` |
| `Unattended_proofs!StaffDecide` | `StaffDecideOnce` | `ButtonInv`, `VerdictInv` |
| `Unattended_proofs!ChatServesOneBooking` | `ChatKeepsItsChoice` | `OneBooking`, `ChoiceInv` |
| `Unattended_proofs!BotsLeadHome` | `SetupLeadsHome` | `OneBotPerKey`, `ClosedRightly` |
| `Unattended_proofs!ChatsServe` | `ChatServesItsMember` | `ChatsOwned` |
| `Salon_proofs!SignInsAreLimited`, `ResetsAreLimited`, `BothWaysAreLimited` | the two halves of `AccessIsLimited`, and both | `LoginInv`, `RecoveryInv` |
| `Salon_proofs!OneCodeBuysOnce` | `CodeLimitsHold` | `CodesInv` |
| `Salon_proofs!DecisionsStand` | `OwnersDecisionStands` | `DecisionInv` |
| `Salon_proofs!ArchivingRespectsVisits` | `ArchivedIsFree` | `CatalogueInv` |
| `Pages_proofs!PagesAreTheirOwn` | `CabinetIsTheirOwn` | `CabinetInv` |
| `Pages_proofs!SentAsShown` | `DeskSendsWhatItShows` | `VisitDeskInv` |
| `Pages_proofs!DropsAreKept` | `KeptWhereDropped` | `CalendarBoardInv` |
| `Pages_proofs!ReviewsAreAsShown` | `DecidedAsShown` | `ReviewDeskInv` |
| `Pages_proofs!MoneyAddsUp` | `DiscountsAddUp` | `PromoInv` |
| `Pages_proofs!FormIsTrue` | `FormKeepsItsChoice` | `BookingFormInv` |
| `Salon_proofs!DayDrawnTrue` | `NoVisitHidden`, `OffersAreFree` | `SheetInv` |
| 22 theorems `...Typed` in `Unattended_proofs`, `Salon_proofs`, `Pages_proofs`, `Services_proofs` | the types of each service | the invariants above and `...Limits` |
| `Services_proofs!ServicesRefine` | `ServicesSpec` implies the specification of each of the 22 services | none: step by step |
| `Services_proofs!ServicesTyped`, `DaysDrawnTrue` | `ServicesTypeOK`, `DayIsDrawnTrue` | through `ServicesRefine` |
| `Services_proofs!ServicesKeepTheirPromises` | all the invariants of run `services`, of all services at once | through `ServicesRefine` |

The theorems about services speak of each module's own specification;
`ServicesRefine` carries them over to `MCServices`, the specification that TLC
runs. So every invariant and action property of every passing run is proved for
all values of the constants, and what is left to TLC is what must eventually happen.

### How the arguments go

*Refinement.* The mapping sends a row to the claim of its specialist and the
resources of its service over the blocked window. The step that matters is
`FindBlockingComplete`: under the two conditions, if `FindBlocking` returns
nothing, no active booking clashes, although the query filters by branch and by a
range widened by one buffer only. Each action then maps to `Take`, `Move`,
`Release`, `Override` or a stutter. `TypeOK` is needed because a move relies on
the specialist performing the service (so that sharing implies one branch).
`NoOverlap` is `CalendarExclusive` seen through the refinement.

*Reschedule limit.* `moves <= limit + N - 1` is not inductive. `LimitInv` adds
the customer moves in flight for the booking: once the limit is reached none can
begin, so those in flight plus the moves made stay within limit + N; and they are
at most N - 1 after the move that reaches it.

*One processor.* `ClaimInv` adds that the receipt of a processor is PROCESSING
and that a reviewer only holds receipts that nobody can claim any more; without it
an old approval could settle a receipt under a processor's hands.

*One delivery per scheduling.* `delivered <= scheduled` says nothing of what may
still be delivered. `Budget` adds the rows that are SCHEDULED and the runs that
carry a message: deliveries made, open rows and carriers together never exceed the
schedulings. Each step of a run moves one unit or loses it; an upsert adds at most
one with its scheduling. Two carriers may hold one row, so runs and rows are
counted, not rows alone; the proof rests on the cardinality facts of
`FiniteSetTheorems`.

*One runner.* A process with a live session that is at work on a job holds its
lock, and a lock is held by such a process: so two live ones cannot both run.

*A card once, a quiet end.* At most one run holds a delivery between claim and
record, and the row is PROCESSING then; what was sent and not recorded is counted.
A notice that was skipped is open in no row and listed by no run that starts later.

*Paid time.* A run that is about to advance knows the end of the period as long as
the status stayed GRACE; a payment never leaves GRACE, so the condition on the
status catches it. A transfer that one operator holds alone has bought nothing yet.

*One code.* Requests about one purpose that do not overlap leave at most one at
work, so the attempts it read are those of the row, and a code that was used is
spent, or about to be by that request. For sign-ins the counts are sums: failures
counted plus those still owed are the wrong passwords, and with the sign-ins that
have passed the check they stay below the limit plus the number in flight.

*Telegram.* `OneBotPerKey` says that a public id ever drawn belongs to one bot,
wherever it is found (a row, a hand, a webhook). `ChoiceInv` ties each handler's
`current` to the session: who may still write it sees the choice it was read with.
`ChatsOwned` carries the consumed link from the chat through the cards and the
update in hand. A button is in nobody's hands before it is consumed, and in one
handler's after.

*Archiving.* What a visit uses and is archived, or being archived, was missed by
the reservation (archived after its search, or counted before its commit).

*The pages.* `CabinetInv`: whatever a page offers was drawn for a number proven in
this browser. `VisitDeskInv` follows each queued action from the press with what
the card showed. `CalendarBoardInv` adds the order of answers and loads: a load
that read too early is followed by another, and a refusal forgets a drop only when
nothing else hangs on it. `ReviewDeskInv`: outside crossings a decision whose
payment still needs attention is about a receipt that is still open, of a payment
that was not approved; and an operator works on what the page listed. `PromoInv`: a code's counter is
the number of visits made with it, and a snapshot that is still valid holds the
current counter, so that of two overlapping redemptions one fails. `BookingFormInv`:
times come from the last request that was not aborted, and a panel, a post and the
code they wait for belong together.

*The picture of a day.* `SheetInv` says of the rows only what they are: finitely
many, of whole units of time, the visits beginning on the day. The rest is about the loops, each a recursive function
`f[0 .. n]` along the sorted rows, and is shown at each of its steps: the merged
intervals stay sorted, apart and cover the minutes of what was merged; a hole is
cut from what is left behind the holes before it; a lane's last visit is the one
that ends last in it, so two visits in one lane never share a minute; and the run
that a visit belongs to counts at least its lane. The order along the loop is the
order of the natural numbers, so that no induction over sequences is needed: the
first n at which a claim failed would have an n - 1 at which it held
(`LeastOf`).

*Types.* A type invariant is seldom inductive by itself: a counter that a guard
stops at its limit is, but not an id that is written only after it was drawn, or a
field that means something only in one state. `...Limits` has those; the shape of
the rows comes from the invariant of the service's own theorem.

*Side by side.* Every step of `MCServices` is a step of one service and leaves the
rows of the others alone (`EachStepsAlone`), and its first states are first states
of all of them: so its behaviours are behaviours of each service.

*What the proofs corrected.* Some types and assumptions were right for the constants
of the runs only, and were put right when the proof for all constants failed:
`ReviewDesk.verdictsOf` was bounded by two, which more operators exceed; `Cabinet`
needs more than one bookable hour (`LastHour > 1`), `FreedSlots` a first visit
(`1 \in Visits`) and `PromoCodes` finitely many guests.

### Only model-checked

- `HoldEnds`, `Settles` and the five properties of `services_settle`: liveness under
  fairness (and ENABLED) is beyond the prover.

Everything else that a run checks has its theorem. What the proofs assume and the
runs have only on their instances: `SlackCoversBuffers` and `OneBranchPerLane` for
`RefinesCalendar` and `NoOverlap`, `OneLifecycleRun` for `PaidTimeNotTakenAway`.

No module declares a RECURSIVE operator.

## Plan

What is modelled is proved as far as the list above; next in line is an abstract
specification for the claims that keep
coming back (a receipt, a delivery, a card and an update are each claimed by one of
many), implemented by the modules that have them.

## Not modelled

Rendering, request parsing, OCR, HTTP gateways and storage (their outcomes are
free choices of the callers); the signed session, its roles and registration;
reviews (one row per visit behind a unique index), platform pages and retention
(single-row edits, or deletion of rows that nothing reads any more); audit and
logs, except the confirmation events. Of modelled parts: the forfeited deposit,
messages of waitlist entries, the cursor of long queues, several salons in one
chat. `PROJECT.json` has a line for each.
