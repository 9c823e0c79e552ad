-------------------------- MODULE BusinessOutbox --------------------------
(***************************************************************************)
(* The notices a salon gets in Telegram, src/src/core/notifications/        *)
(* business-notification-service.ts, and the job that delivers them,        *)
(* src/src/jobs/send-business-telegram-notifications.ts.  A notice has one  *)
(* row, found by its deduplication key, and one delivery for each chat that *)
(* it goes to.  The module follows one visit: its notice of confirmation    *)
(* (News), and for each time the visit ever had the notice of the upcoming  *)
(* visit, whose key holds that time.                                        *)
(***************************************************************************)
EXTENDS Integers, FiniteSets

CONSTANTS
    Chats,          \* chats that members can link to the platform's bot
    Specialists,    \* the chats among them of members with the role STAFF
    Moments,        \* the times a visit can have
    Senders,        \* runs of the job that may overlap
    BatchSize,      \* notices that a run lists: take 100
    MaxAttempts,    \* BusinessNotificationDelivery.maxAttempts
    RetryDelay,     \* 5 minutes
    Lead,           \* an upcoming visit is announced this long before: 60 minutes
    MaxChanges,     \* bound on changes of the visit and of the linked chats
    MaxDeaths,      \* bound on runs that end early and outcomes that get lost
    MaxOutboxClock  \* bound on the clock; a retry beyond it is due at the bound

ASSUME BusinessOutboxAssumption ==
    /\ Specialists \subseteq Chats
    /\ Specialists # {}
    /\ Moments \subseteq Nat \ {0}
    /\ Moments # {}
    /\ BatchSize \in Nat \ {0}
    /\ MaxAttempts \in Nat \ {0}
    /\ RetryDelay \in Nat
    /\ Lead \in Nat
    /\ MaxChanges \in Nat
    /\ MaxDeaths \in Nat
    /\ MaxOutboxClock \in Nat

VARIABLES
    salonVisit,   \* the booking: status, start, specialist
    notice,       \* notice[k]: the row with key k
    delivery,     \* delivery[k][c]: the row of notice k for chat c
    linkedChat,   \* chats that are active
    sender,       \* sender[j]: what run j of the job knows
    sentTo,       \* history: cards of notice k that reached chat c
    unrecorded,   \* history: cards sent whose outcome could not be written
    hushed,       \* history: notices that no run had listed when staff ended the visit
    salonChanges, \* changes made so far
    deaths,       \* runs that ended early, outcomes that got lost so far
    outboxClock

outboxVars == <<salonVisit, notice, delivery, linkedChat, sender, sentTo,
                unrecorded, hushed, salonChanges, deaths, outboxClock>>

News == 0
NoticeKeys == {News} \cup Moments
NoRow == [status |-> "NONE", due |-> 0]
NoDelivery == [status |-> "NONE", due |-> 0, attempts |-> 0]

OpenNotice == {"SCHEDULED", "PROCESSING"}
RowStatus == {"NONE", "SCHEDULED", "PROCESSING", "SENT", "FAILED", "SKIPPED"}

IdleSender == [pc |-> "idle", now |-> 0, list |-> {}, key |-> News, todo |-> {},
               chat |-> CHOOSE c \in Chats : TRUE, seen |-> [c \in Chats |-> 0]]

BusinessOutboxTypeOK ==
    /\ salonVisit \in [status : {"PENDING", "CONFIRMED", "CANCELLED", "NO_SHOW"},
                       start : Moments, staff : Specialists]
    /\ notice \in [NoticeKeys -> [status : RowStatus, due : Int]]
    /\ delivery \in [NoticeKeys -> [Chats ->
                        [status : RowStatus, due : Int, attempts : 0 .. MaxAttempts]]]
    /\ linkedChat \subseteq Chats
    /\ sender \in [Senders ->
                    [pc : {"idle", "notice", "rows", "row", "send", "record", "retry"},
                     now : 0 .. MaxOutboxClock, list : SUBSET NoticeKeys,
                     key : NoticeKeys, todo : SUBSET Chats, chat : Chats,
                     seen : [Chats -> 0 .. MaxAttempts]]]
    /\ sentTo \in [NoticeKeys -> [Chats -> Nat]]
    /\ unrecorded \in [NoticeKeys -> [Chats -> Nat]]
    /\ hushed \subseteq Moments
    /\ salonChanges \in 0 .. MaxChanges
    /\ deaths \in 0 .. MaxDeaths
    /\ outboxClock \in 0 .. MaxOutboxClock

BusinessOutboxInit ==
    /\ salonVisit \in [status : {"PENDING"}, start : Moments, staff : Specialists]
    /\ notice = [k \in NoticeKeys |-> NoRow]
    /\ delivery = [k \in NoticeKeys |-> [c \in Chats |-> NoDelivery]]
    /\ linkedChat = Chats
    /\ sender = [j \in Senders |-> IdleSender]
    /\ sentTo = [k \in NoticeKeys |-> [c \in Chats |-> 0]]
    /\ unrecorded = [k \in NoticeKeys |-> [c \in Chats |-> 0]]
    /\ hushed = {}
    /\ salonChanges = 0
    /\ deaths = 0
    /\ outboxClock = 0

---------------------------------------------------------------------------
(***************************************************************************)
(* The operations on the visit, each in the transaction that makes it.      *)
(***************************************************************************)

(* scheduleBusinessNotification: an upsert whose update leaves the status   *)
(* alone, so a row that was sent or skipped stays so.                       *)
Upserted(rows, k, due) ==
    [rows EXCEPT ![k] = [status |-> IF @.status = "NONE" THEN "SCHEDULED" ELSE @.status,
                         due |-> due]]

(* Altered: a notice that a run has worked on is left open *)
ScheduledSkipped(rows) ==
    [k \in NoticeKeys |->
        IF k \in Moments /\ rows[k].status = "SCHEDULED"
        THEN [rows[k] EXCEPT !.status = "SKIPPED"] ELSE rows[k]]

(* skipUpcomingBusinessVisit *)
UpcomingSkipped(rows) ==
    [k \in NoticeKeys |->
        IF k \in Moments /\ rows[k].status \in OpenNotice
        THEN [rows[k] EXCEPT !.status = "SKIPPED"] ELSE rows[k]]

(* scheduleUpcomingBusinessVisit: skip what is open, then upsert the row    *)
(* whose key has the time of the visit.                                     *)
UpcomingScheduled(rows, start) == Upserted(UpcomingSkipped(rows), start, start - Lead)

Change == salonChanges < MaxChanges /\ salonChanges' = salonChanges + 1

Active == salonVisit.status \in {"PENDING", "CONFIRMED"}

(* confirmBusinessBooking, the approvals of payments, scheduleConfirmationEffects *)
ConfirmVisit ==
    /\ Change
    /\ salonVisit.status = "PENDING"
    /\ salonVisit' = [salonVisit EXCEPT !.status = "CONFIRMED"]
    /\ notice' = UpcomingScheduled(Upserted(notice, News, outboxClock), salonVisit.start)
    /\ UNCHANGED <<delivery, linkedChat, sender, sentTo, unrecorded, hushed, deaths, outboxClock>>

(* rescheduleBusinessBooking, also with only the specialist changed *)
MoveVisitByStaff(start, staff) ==
    /\ Change
    /\ Active
    /\ start > outboxClock
    /\ <<start, staff>> # <<salonVisit.start, salonVisit.staff>>
    /\ salonVisit' = [salonVisit EXCEPT !.start = start, !.staff = staff]
    /\ notice' = UpcomingScheduled(notice, start)
    /\ UNCHANGED <<delivery, linkedChat, sender, sentTo, unrecorded, hushed, deaths, outboxClock>>

(* rescheduleBooking: a move by the customer writes no notice *)
MoveVisitByCustomer(start) ==
    /\ Change
    /\ Active
    /\ start > outboxClock
    /\ start # salonVisit.start
    /\ salonVisit' = [salonVisit EXCEPT !.start = start]
    /\ UNCHANGED <<notice, delivery, linkedChat, sender, sentTo, unrecorded, hushed, deaths, outboxClock>>

(* cancelBusinessBooking, markBusinessBookingNoShow *)
EndVisitByStaff(status) ==
    /\ Change
    /\ IF status = "CANCELLED"
       THEN Active
       ELSE salonVisit.status = "CONFIRMED" /\ salonVisit.start <= outboxClock
    /\ salonVisit' = [salonVisit EXCEPT !.status = status]
    /\ notice' = UpcomingSkipped(notice)
    /\ hushed' = {k \in Moments : \A j \in Senders : k \notin sender[j].list}
    /\ UNCHANGED <<delivery, linkedChat, sender, sentTo, unrecorded, deaths, outboxClock>>

(* cancelBooking by the customer, and the sweep of holds, skip nothing *)
EndVisitByCustomer ==
    /\ Change
    /\ Active
    /\ salonVisit' = [salonVisit EXCEPT !.status = "CANCELLED"]
    /\ UNCHANGED <<notice, delivery, linkedChat, sender, sentTo, unrecorded, hushed, deaths, outboxClock>>

(* consumePlatformChatLink takes a chat over or brings one back *)
SwitchChat(c) ==
    /\ Change
    /\ linkedChat' = IF c \in linkedChat THEN linkedChat \ {c} ELSE linkedChat \cup {c}
    /\ UNCHANGED <<salonVisit, notice, delivery, sender, sentTo, unrecorded, hushed, deaths, outboxClock>>

---------------------------------------------------------------------------
(***************************************************************************)
(* The job.  Every action is one statement of                               *)
(* sendDueBusinessTelegramNotifications.                                    *)
(***************************************************************************)
DueNotices == {k \in NoticeKeys :
                 notice[k].status \in OpenNotice /\ notice[k].due <= outboxClock}

(* The oldest due notices, a batch at most *)
NoticeBatches ==
    {L \in SUBSET DueNotices :
        /\ Cardinality(L) <= BatchSize
        /\ Cardinality(L) = BatchSize \/ L = DueNotices
        /\ \A k \in L, m \in DueNotices \ L : notice[k].due <= notice[m].due}

(* isEligible, over listBusinessTelegramDestinations *)
EligibleChats == {c \in linkedChat : c \in Specialists => c = salonVisit.staff}

RowIsDue(j, c) ==
    /\ delivery[sender[j].key][c].status = "SCHEDULED"
    /\ delivery[sender[j].key][c].due <= sender[j].now

Continue(r, k) == IF r.list = {k} THEN IdleSender
                  ELSE [IdleSender EXCEPT !.pc = "notice", !.now = r.now, !.list = r.list \ {k}]

VisitKept == UNCHANGED <<salonVisit, linkedChat, hushed, salonChanges, outboxClock>>
JobOnly == VisitKept /\ UNCHANGED deaths

StartSender(j) ==
    /\ sender[j].pc = "idle"
    /\ DueNotices # {}
    /\ \E L \in NoticeBatches :
         sender' = [sender EXCEPT ![j] =
                      [IdleSender EXCEPT !.pc = "notice", !.now = outboxClock, !.list = L]]
    /\ UNCHANGED <<notice, delivery, sentTo, unrecorded>> /\ JobOnly

(* No chat may get the notice: it is closed by id, whatever happened to it. *)
SkipUnaddressed(j, k) ==
    /\ sender[j].pc = "notice" /\ k \in sender[j].list
    /\ EligibleChats = {}
    /\ notice' = [notice EXCEPT ![k].status = "SKIPPED"]
    /\ sender' = [sender EXCEPT ![j] = Continue(@, k)]
    /\ UNCHANGED <<delivery, sentTo, unrecorded>> /\ JobOnly

(* The upserts of the missing deliveries, in one transaction *)
OpenDeliveries(j, k) ==
    /\ sender[j].pc = "notice" /\ k \in sender[j].list
    /\ EligibleChats # {}
    /\ delivery' = [delivery EXCEPT ![k] =
         [c \in Chats |-> IF c \in EligibleChats /\ @[c].status = "NONE"
                          THEN [status |-> "SCHEDULED", due |-> notice[k].due, attempts |-> 0]
                          ELSE @[c]]]
    /\ sender' = [sender EXCEPT ![j].pc = "rows", ![j].key = k]
    /\ UNCHANGED <<notice, sentTo, unrecorded>> /\ JobOnly

ListDeliveries(j) ==
    /\ sender[j].pc = "rows"
    /\ sender' = [sender EXCEPT
         ![j].pc = "row",
         ![j].todo = {c \in Chats : RowIsDue(j, c)},
         ![j].seen = [c \in Chats |-> IF RowIsDue(j, c)
                                      THEN delivery[sender[j].key][c].attempts ELSE 0]]
    /\ UNCHANGED <<notice, delivery, sentTo, unrecorded>> /\ JobOnly

(* Altered: the row is claimed by its id *)
Listed(j, c) == delivery[sender[j].key][c].status # "NONE"

(* The condition of the update that claims *)
Claimable(j, c) == RowIsDue(j, c)

ClaimDelivery(j, c) ==
    /\ sender[j].pc = "row" /\ c \in sender[j].todo
    /\ Claimable(j, c)
    /\ delivery' = [delivery EXCEPT ![sender[j].key][c].status = "PROCESSING"]
    /\ sender' = [sender EXCEPT ![j].pc = "send", ![j].chat = c, ![j].todo = @ \ {c}]
    /\ UNCHANGED <<notice, sentTo, unrecorded>> /\ JobOnly

MissDelivery(j, c) ==
    /\ sender[j].pc = "row" /\ c \in sender[j].todo
    /\ ~Claimable(j, c)
    /\ sender' = [sender EXCEPT ![j].todo = @ \ {c}]
    /\ UNCHANGED <<notice, delivery, sentTo, unrecorded>> /\ JobOnly

SendCard(j) ==
    /\ sender[j].pc = "send"
    /\ sender' = [sender EXCEPT ![j].pc = "record"]
    /\ sentTo' = [sentTo EXCEPT ![sender[j].key][sender[j].chat] = @ + 1]
    /\ UNCHANGED <<notice, delivery, unrecorded>> /\ JobOnly

(* Telegram refuses, or the call fails *)
RefuseCard(j) ==
    /\ sender[j].pc = "send"
    /\ sender' = [sender EXCEPT ![j].pc = "retry"]
    /\ UNCHANGED <<notice, delivery, sentTo, unrecorded>> /\ JobOnly

RecordSent(j) ==
    /\ sender[j].pc = "record"
    /\ delivery' = [delivery EXCEPT ![sender[j].key][sender[j].chat] =
                      [status |-> "SENT", due |-> @.due, attempts |-> @.attempts + 1]]
    /\ sender' = [sender EXCEPT ![j].pc = "row"]
    /\ UNCHANGED <<notice, sentTo, unrecorded>> /\ JobOnly

(* The update after the send is in the same try block: when it throws, the  *)
(* card counts as not delivered.                                            *)
FailToRecord(j) ==
    /\ sender[j].pc = "record" /\ deaths < MaxDeaths
    /\ deaths' = deaths + 1
    /\ sender' = [sender EXCEPT ![j].pc = "retry"]
    /\ unrecorded' = [unrecorded EXCEPT ![sender[j].key][sender[j].chat] = @ + 1]
    /\ UNCHANGED <<notice, delivery, sentTo>> /\ VisitKept

RetryAt(now) == IF now + RetryDelay <= MaxOutboxClock THEN now + RetryDelay ELSE MaxOutboxClock

(* Altered: a refusal is not counted *)
AttemptsSeen(j) == sender[j].seen[sender[j].chat]

AttemptsMade(j) == sender[j].seen[sender[j].chat] + 1

RecordRetry(j) ==
    /\ sender[j].pc = "retry"
    /\ LET attempts == AttemptsMade(j)
           over == attempts >= MaxAttempts
       IN  delivery' = [delivery EXCEPT ![sender[j].key][sender[j].chat] =
             [status |-> IF over THEN "FAILED" ELSE "SCHEDULED",
              due |-> IF over THEN @.due ELSE RetryAt(sender[j].now),
              attempts |-> attempts]]
    /\ sender' = [sender EXCEPT ![j].pc = "row"]
    /\ UNCHANGED <<notice, sentTo, unrecorded>> /\ JobOnly

(* refreshNotificationStatus: written by id, also over a skipped notice *)
RefreshNotice(j) ==
    /\ sender[j].pc = "row" /\ sender[j].todo = {}
    /\ LET k == sender[j].key
           found == {delivery[k][c].status : c \in Chats}
       IN  /\ notice' = [notice EXCEPT ![k].status =
                IF found \cap OpenNotice # {} THEN "PROCESSING"
                ELSE IF "FAILED" \in found THEN "FAILED" ELSE "SENT"]
           /\ sender' = [sender EXCEPT ![j] = Continue(@, k)]
    /\ UNCHANGED <<delivery, sentTo, unrecorded>> /\ JobOnly

(* The process ends, or a statement outside the try block throws. *)
DieSender(j) ==
    /\ sender[j].pc # "idle" /\ deaths < MaxDeaths
    /\ sender' = [sender EXCEPT ![j] = IdleSender]
    /\ deaths' = deaths + 1
    /\ UNCHANGED <<notice, delivery, sentTo, unrecorded>> /\ VisitKept

OutboxTick ==
    /\ outboxClock < MaxOutboxClock
    /\ outboxClock' = outboxClock + 1
    /\ UNCHANGED <<salonVisit, notice, delivery, linkedChat, sender, sentTo,
                   unrecorded, hushed, salonChanges, deaths>>

(* The next statement of run j, the process staying alive *)
SenderStep(j) ==
    \/ \E k \in NoticeKeys : SkipUnaddressed(j, k) \/ OpenDeliveries(j, k)
    \/ \E c \in Chats : ClaimDelivery(j, c) \/ MissDelivery(j, c)
    \/ ListDeliveries(j) \/ SendCard(j) \/ RefuseCard(j)
    \/ RecordSent(j) \/ FailToRecord(j) \/ RecordRetry(j) \/ RefreshNotice(j)

SalonStep ==
    \/ ConfirmVisit
    \/ \E s \in Moments, p \in Specialists : MoveVisitByStaff(s, p)
    \/ \E s \in Moments : MoveVisitByCustomer(s)
    \/ \E status \in {"CANCELLED", "NO_SHOW"} : EndVisitByStaff(status)
    \/ EndVisitByCustomer
    \/ \E c \in Chats : SwitchChat(c)

BusinessOutboxNext ==
    \/ SalonStep
    \/ \E j \in Senders : StartSender(j) \/ SenderStep(j) \/ DieSender(j)
    \/ OutboxTick

BusinessOutboxSpec == BusinessOutboxInit /\ [][BusinessOutboxNext]_outboxVars

(* The scheduler starts the job every minute and a statement returns. *)
BusinessOutboxFairness ==
    /\ WF_outboxVars(OutboxTick)
    /\ \A j \in Senders : WF_outboxVars(StartSender(j)) /\ WF_outboxVars(SenderStep(j))

---------------------------------------------------------------------------
(***************************************************************************)
(* What the outbox promises                                                 *)
(***************************************************************************)

(* "A repeated delivery does not duplicate events" (the design of the bot): *)
(* a chat gets the card of a notice once, and once more only for each card  *)
(* whose outcome the job could not write, however many runs of the job      *)
(* overlap or die.  This rests on the conditional claim of each delivery.   *)
CardSentOnce ==
    \A k \in NoticeKeys, c \in Chats : sentTo[k][c] <= 1 + unrecorded[k][c]

(* When staff cancel a visit or mark it as missed, no run takes up a notice *)
(* of the upcoming visit afterwards, unless a run had listed it already:    *)
(* the notices are skipped in the same transaction, and no later operation  *)
(* opens one again.                                                         *)
EndedVisitIsQuiet == \A k \in hushed, j \in Senders : k \notin sender[j].list

(* A delivery in the hands of nobody after a crash is never taken up again. *)
Orphaned(k, c) ==
    /\ delivery[k][c].status = "PROCESSING"
    /\ \A j \in Senders : ~(sender[j].pc \in {"send", "record", "retry"}
                            /\ sender[j].key = k /\ sender[j].chat = c)
StuckNotices == {k \in NoticeKeys : \E c \in Chats : Orphaned(k, c)}

(* Every notice that is due is closed, unless a crash left one of its own   *)
(* deliveries PROCESSING; a stuck notice is listed by every run, first as   *)
(* it is the oldest, so this holds only while fewer than a batch are stuck. *)
NoticesClose ==
    \A k \in NoticeKeys :
        (k \in DueNotices) ~> \/ k \notin DueNotices
                              \/ k \in StuckNotices
                              \/ Cardinality(StuckNotices) >= BatchSize
===========================================================================
