--------------------------- MODULE Subscription ---------------------------
(***************************************************************************)
(* What a business pays the platform: the subscription on its row, the      *)
(* invoices it is billed, the transfers it claims to have made, the         *)
(* operators who decide on them, and the hourly job that walks a lapsed     *)
(* subscription into grace and out of its plan.  src/src/core/platform/     *)
(* subscription-*.ts, business-directory.ts, src/src/jobs/                  *)
(* subscription-lifecycle.ts.  The module follows one business; time is     *)
(* counted in days that stand for any.                                      *)
(***************************************************************************)
EXTENDS Integers, FiniteSets

CONSTANTS
    Invoices,        \* 1 .. n, in the order of creation
    Transfers,       \* rows of SubscriptionReceipt
    Operations,      \* operation numbers that a picture can show
    Owners,          \* requests of the business in flight
    Operators,       \* requests of platform administrators in flight
    LifecycleRuns,   \* runs of the job that may overlap
    Periods,         \* lengths of the billing periods
    TrialDays, GraceDays, WarningDays,
    MaxGrants,       \* bound on the plans an operator sets by hand
    MaxLapseDeaths,  \* bound on runs of the job that end early
    MaxDay           \* bound on the clock

ASSUME SubscriptionAssumption ==
    /\ Invoices \subseteq Nat
    /\ Periods \subseteq Nat \ {0} /\ Periods # {}
    /\ {TrialDays, GraceDays, WarningDays, MaxGrants, MaxLapseDeaths, MaxDay} \subseteq Nat

NoEnd == -1                    \* subscriptionEndsAt: null
Unread == "UNREAD"             \* parsedOperationNumber: null

VARIABLES
    subscription,   \* status and subscriptionEndsAt of the business
    invoice,        \* SubscriptionInvoice rows
    transfer,       \* SubscriptionReceipt rows
    owner,          \* what a request of the business knows
    operator,       \* what a request of an operator knows
    lapseRun,       \* what a run of the job knows
    warned,         \* deduplication keys of the warnings queued
    bought,         \* history: periods that a transfer bought
    contested,      \* history: transfers that two operators decided at once
    grants,
    lapseDeaths,
    day

subscriptionVars == <<subscription, invoice, transfer, owner, operator, lapseRun,
                      warned, bought, contested, grants, lapseDeaths, day>>

Statuses == {"TRIALING", "ACTIVE", "GRACE", "EXPIRED"}
PeriodEnds == {NoEnd} \cup Nat
IdleOwner == [pc |-> "idle", invoice |-> 0, operation |-> Unread, agrees |-> FALSE]
IdleOperator == [pc |-> "idle", transfer |-> 0, endsAt |-> NoEnd]
IdleRun == [pc |-> "idle", now |-> 0, status |-> "ACTIVE", endsAt |-> NoEnd]

SubscriptionTypeOK ==
    /\ subscription \in [status : Statuses, endsAt : PeriodEnds]
    /\ invoice \in [Invoices -> [status : {"NONE", "OPEN", "NEEDS_ATTENTION", "PAID"},
                                 period : Periods]]
    /\ transfer \in [Transfers -> [status : {"NONE", "NEEDS_REVIEW", "ACCEPTED", "REJECTED"},
                                   invoice : Invoices \cup {0},
                                   operation : Operations \cup {Unread}]]
    /\ owner \in [Owners -> [pc : {"idle", "create", "submit"}, invoice : Invoices \cup {0},
                             operation : Operations \cup {Unread}, agrees : BOOLEAN]]
    /\ operator \in [Operators -> [pc : {"idle", "approve", "reject", "settle", "grant"},
                                   transfer : Transfers \cup {0}, endsAt : PeriodEnds]]
    /\ lapseRun \in [LifecycleRuns -> [pc : {"idle", "advance", "warn"}, now : 0 .. MaxDay,
                                       status : Statuses, endsAt : PeriodEnds]]
    /\ warned \subseteq {"ending", "grace", "expired"} \X Nat
    /\ bought \in [Transfers -> Nat]
    /\ contested \subseteq Transfers
    /\ grants \in 0 .. MaxGrants
    /\ lapseDeaths \in 0 .. MaxLapseDeaths
    /\ day \in 0 .. MaxDay

(* registerBusiness starts the trial, unless the business is from before billing. *)
SubscriptionInit ==
    /\ subscription \in {[status |-> "TRIALING", endsAt |-> TrialDays],
                         [status |-> "ACTIVE", endsAt |-> NoEnd]}
    /\ invoice = [i \in Invoices |-> [status |-> "NONE", period |-> CHOOSE p \in Periods : TRUE]]
    /\ transfer = [t \in Transfers |-> [status |-> "NONE", invoice |-> 0, operation |-> Unread]]
    /\ owner = [h \in Owners |-> IdleOwner]
    /\ operator = [o \in Operators |-> IdleOperator]
    /\ lapseRun = [j \in LifecycleRuns |-> IdleRun]
    /\ warned = {}
    /\ bought = [t \in Transfers |-> 0]
    /\ contested = {}
    /\ grants = 0
    /\ lapseDeaths = 0
    /\ day = 0

---------------------------------------------------------------------------
(* extendPeriod: from the later of the end and today *)
Extended(endsAt, period) == (IF endsAt > day THEN endsAt ELSE day) + period

(* What an invoice, once settled, makes of the subscription *)
Renewed(endsAt, i) == [status |-> "ACTIVE", endsAt |-> Extended(endsAt, invoice[i].period)]

Owed == {i \in Invoices : invoice[i].status \in {"OPEN", "NEEDS_ATTENTION"}}
NewestOwed(i) == \A k \in Owed : k <= i
Unused == {i \in Invoices : invoice[i].status = "NONE"}

BusinessRowKept == UNCHANGED <<subscription, warned, lapseRun, grants, lapseDeaths, day>>

---------------------------------------------------------------------------
(***************************************************************************)
(* The business: a bill, and the picture of a transfer                      *)
(***************************************************************************)

(* createSubscriptionInvoice looks for an open invoice first; one that it   *)
(* finds is handed back and nothing is written.                             *)
FindNoOpenInvoice(h) ==
    /\ owner[h].pc = "idle" /\ Owed = {} /\ Unused # {}
    /\ owner' = [owner EXCEPT ![h].pc = "create"]
    /\ UNCHANGED <<invoice, transfer, operator, bought, contested>> /\ BusinessRowKept

CreateInvoice(h, period) ==
    /\ owner[h].pc = "create" /\ Unused # {}
    /\ LET i == CHOOSE n \in Unused : \A k \in Unused : n <= k
       IN  invoice' = [invoice EXCEPT ![i] = [status |-> "OPEN", period |-> period]]
    /\ owner' = [owner EXCEPT ![h] = IdleOwner]
    /\ UNCHANGED <<transfer, operator, bought, contested>> /\ BusinessRowKept

(* submitSubscriptionReceipt before its transaction: the invoice is read,   *)
(* the picture stored and recognised.  mismatchReason is a free choice for  *)
(* a picture that can be read; one that cannot never agrees.                *)
ReadTransfer(h, operation, agrees) ==
    /\ owner[h].pc = "idle"
    /\ agrees => operation # Unread
    /\ \E i \in Owed :
         /\ NewestOwed(i)
         /\ owner' = [owner EXCEPT ![h] = [pc |-> "submit", invoice |-> i,
                                           operation |-> operation, agrees |-> agrees]]
    /\ UNCHANGED <<invoice, transfer, operator, bought, contested>> /\ BusinessRowKept

Repeated(operation) == operation # Unread /\ \E t \in Transfers : transfer[t].operation = operation

(* The serializable transaction: the row, then the verdict by invoice id.   *)
(* The status of the invoice is not read again.                             *)
CommitTransfer(h, t) ==
    /\ owner[h].pc = "submit" /\ transfer[t].status = "NONE"
    /\ ~Repeated(owner[h].operation)
    /\ LET i == owner[h].invoice IN
       /\ transfer' = [transfer EXCEPT ![t] =
            [status |-> IF owner[h].agrees THEN "ACCEPTED" ELSE "NEEDS_REVIEW",
             invoice |-> i, operation |-> owner[h].operation]]
       /\ invoice' = [invoice EXCEPT ![i].status =
                        IF owner[h].agrees THEN "PAID" ELSE "NEEDS_ATTENTION"]
       /\ subscription' = IF owner[h].agrees THEN Renewed(subscription.endsAt, i) ELSE subscription
       /\ bought' = [bought EXCEPT ![t] = IF owner[h].agrees THEN @ + 1 ELSE @]
    /\ owner' = [owner EXCEPT ![h] = IdleOwner]
    /\ UNCHANGED <<operator, contested, warned, lapseRun, grants, lapseDeaths, day>>

(* A picture refused, a price missing, a repeated operation (P2002), a      *)
(* serialization failure: nothing is written.                               *)
GiveUpRequest(h) ==
    /\ owner[h].pc # "idle"
    /\ owner' = [owner EXCEPT ![h] = IdleOwner]
    /\ UNCHANGED <<invoice, transfer, operator, bought, contested>> /\ BusinessRowKept

---------------------------------------------------------------------------
(***************************************************************************)
(* The operators, in READ COMMITTED transactions                            *)
(***************************************************************************)
Deciding(t) == {o \in Operators : operator[o].pc # "idle" /\ operator[o].transfer = t}

Reviewable(t) == transfer[t].status = "NEEDS_REVIEW"

(* approveSubscriptionReceipt and rejectSubscriptionReceipt read the status *)
(* and write by id later.                                                   *)
ReadForDecision(o, t, decision) ==
    /\ operator[o].pc = "idle"
    /\ Reviewable(t)
    /\ operator' = [operator EXCEPT ![o] = [pc |-> decision, transfer |-> t, endsAt |-> NoEnd]]
    /\ contested' = IF Deciding(t) # {} THEN contested \cup {t} ELSE contested
    /\ UNCHANGED <<invoice, transfer, owner, bought>> /\ BusinessRowKept

(* The update of the receipt takes its row lock: another approval of the    *)
(* same receipt waits, and reads the end of the period afterwards.          *)
ReadEndsAt(o) ==
    /\ operator[o].pc = "approve"
    /\ \A p \in Deciding(operator[o].transfer) : operator[p].pc # "settle"
    /\ operator' = [operator EXCEPT ![o].pc = "settle", ![o].endsAt = subscription.endsAt]
    /\ UNCHANGED <<invoice, transfer, owner, bought, contested>> /\ BusinessRowKept

(* settleInvoice *)
CommitApproval(o) ==
    /\ operator[o].pc = "settle"
    /\ LET t == operator[o].transfer
           i == transfer[t].invoice
       IN  /\ transfer' = [transfer EXCEPT ![t].status = "ACCEPTED"]
           /\ invoice' = [invoice EXCEPT ![i].status = "PAID"]
           /\ subscription' = Renewed(operator[o].endsAt, i)
           /\ bought' = [bought EXCEPT ![t] = @ + 1]
    /\ operator' = [operator EXCEPT ![o] = IdleOperator]
    /\ UNCHANGED <<owner, contested, warned, lapseRun, grants, lapseDeaths, day>>

(* Also waits for the lock of an approval that is under way. *)
CommitRejection(o) ==
    /\ operator[o].pc = "reject"
    /\ LET t == operator[o].transfer IN
       /\ \A p \in Deciding(t) : operator[p].pc # "settle"
       /\ transfer' = [transfer EXCEPT ![t].status = "REJECTED"]
       /\ invoice' = [invoice EXCEPT ![transfer[t].invoice].status = "OPEN"]
    /\ operator' = [operator EXCEPT ![o] = IdleOperator]
    /\ UNCHANGED <<owner, bought, contested>> /\ BusinessRowKept

(* setBusinessSubscriptionPlan, with an end or (ReadGrant) without one *)
GrantPlan(o, endsAt) ==
    /\ operator[o].pc = "idle" /\ grants < MaxGrants
    /\ subscription' = [status |-> "ACTIVE", endsAt |-> endsAt]
    /\ grants' = grants + 1
    /\ UNCHANGED <<invoice, transfer, owner, operator, lapseRun, warned, bought, contested, lapseDeaths, day>>

ReadGrant(o) ==
    /\ operator[o].pc = "idle" /\ grants < MaxGrants
    /\ operator' = [operator EXCEPT ![o] = [IdleOperator EXCEPT !.pc = "grant",
                                                               !.endsAt = subscription.endsAt]]
    /\ grants' = grants + 1
    /\ UNCHANGED <<subscription, invoice, transfer, owner, lapseRun, warned, bought, contested, lapseDeaths, day>>

CommitGrant(o) ==
    /\ operator[o].pc = "grant"
    /\ subscription' = [status |-> "ACTIVE", endsAt |-> operator[o].endsAt]
    /\ operator' = [operator EXCEPT ![o] = IdleOperator]
    /\ UNCHANGED <<invoice, transfer, owner, lapseRun, warned, bought, contested, grants,
                   lapseDeaths, day>>

GiveUpDecision(o) ==
    /\ operator[o].pc # "idle"
    /\ operator' = [operator EXCEPT ![o] = IdleOperator]
    /\ UNCHANGED <<invoice, transfer, owner, bought, contested>> /\ BusinessRowKept

---------------------------------------------------------------------------
(***************************************************************************)
(* The job                                                                  *)
(***************************************************************************)
RowsOnly == UNCHANGED <<invoice, transfer, owner, operator, bought, contested, grants,
                        lapseDeaths, day>>

(* Altered: the days of grace have no end *)
GraceForEver(status, endsAt, now) ==
    IF status \in {"TRIALING", "ACTIVE"} /\ now > endsAt THEN "GRACE" ELSE "NONE"

(* nextSubscriptionStatus; "NONE" where the code returns null *)
NextStatus(status, endsAt, now) ==
    IF status \in {"TRIALING", "ACTIVE"} /\ now > endsAt THEN "GRACE"
    ELSE IF status = "GRACE" /\ now > endsAt + GraceDays THEN "EXPIRED"
    ELSE "NONE"

EventOf(status) == IF status = "GRACE" THEN "grace" ELSE "expired"

ListSubscriptions(j) ==
    /\ lapseRun[j].pc = "idle"
    /\ subscription.endsAt # NoEnd /\ subscription.status # "EXPIRED"
    /\ lapseRun' = [lapseRun EXCEPT ![j] = [pc |-> "advance", now |-> day,
                       status |-> subscription.status, endsAt |-> subscription.endsAt]]
    /\ UNCHANGED <<subscription, warned>> /\ RowsOnly

(* advance, when the status stays: the warning before the end *)
WarnOfEnd(j) ==
    /\ lapseRun[j].pc = "advance"
    /\ LET r == lapseRun[j] IN
       /\ NextStatus(r.status, r.endsAt, r.now) = "NONE"
       /\ warned' = IF r.now >= r.endsAt - WarningDays /\ r.status # "GRACE"
                    THEN warned \cup {<<"ending", r.endsAt>>} ELSE warned
    /\ lapseRun' = [lapseRun EXCEPT ![j] = IdleRun]
    /\ UNCHANGED subscription /\ RowsOnly

(* Altered: written by id *)
Exists(r) == r.status # "EXPIRED"

StillAsRead(r) == subscription.status = r.status

(* The update is conditioned on the status that the run read. *)
AdvanceStatus(j) ==
    /\ lapseRun[j].pc = "advance"
    /\ LET r == lapseRun[j]
           next == NextStatus(r.status, r.endsAt, r.now)
       IN  /\ next # "NONE"
           /\ IF StillAsRead(r)
              THEN /\ subscription' = [subscription EXCEPT !.status = next]
                   /\ lapseRun' = [lapseRun EXCEPT ![j].pc = "warn", ![j].status = next]
              ELSE /\ lapseRun' = [lapseRun EXCEPT ![j] = IdleRun]
                   /\ UNCHANGED subscription
    /\ UNCHANGED warned /\ RowsOnly

WarnOfTransition(j) ==
    /\ lapseRun[j].pc = "warn"
    /\ warned' = warned \cup {<<EventOf(lapseRun[j].status), lapseRun[j].endsAt>>}
    /\ lapseRun' = [lapseRun EXCEPT ![j] = IdleRun]
    /\ UNCHANGED subscription /\ RowsOnly

(* The process ends, or the warning cannot be written. *)
DieInLifecycle(j) ==
    /\ lapseRun[j].pc # "idle" /\ lapseDeaths < MaxLapseDeaths
    /\ lapseRun' = [lapseRun EXCEPT ![j] = IdleRun]
    /\ lapseDeaths' = lapseDeaths + 1
    /\ UNCHANGED <<subscription, invoice, transfer, owner, operator, warned, bought, contested,
                   grants, day>>

NextDay ==
    /\ day < MaxDay
    /\ day' = day + 1
    /\ UNCHANGED <<subscription, invoice, transfer, owner, operator, lapseRun, warned,
                   bought, contested, grants, lapseDeaths>>

LifecycleStep(j) == ListSubscriptions(j) \/ WarnOfEnd(j) \/ AdvanceStatus(j) \/ WarnOfTransition(j)

SubscriptionNext ==
    \/ \E h \in Owners :
         \/ FindNoOpenInvoice(h) \/ GiveUpRequest(h)
         \/ \E p \in Periods : CreateInvoice(h, p)
         \/ \E n \in Operations \cup {Unread}, agrees \in BOOLEAN : ReadTransfer(h, n, agrees)
         \/ \E t \in Transfers : CommitTransfer(h, t)
    \/ \E o \in Operators :
         \/ \E t \in Transfers, d \in {"approve", "reject"} : ReadForDecision(o, t, d)
         \/ ReadEndsAt(o) \/ CommitApproval(o) \/ CommitRejection(o)
         \/ \E e \in 0 .. MaxDay \cup {NoEnd} : GrantPlan(o, e)
         \/ ReadGrant(o) \/ CommitGrant(o) \/ GiveUpDecision(o)
    \/ \E j \in LifecycleRuns : LifecycleStep(j) \/ DieInLifecycle(j)
    \/ NextDay

SubscriptionSpec == SubscriptionInit /\ [][SubscriptionNext]_subscriptionVars

SubscriptionFairness ==
    /\ WF_subscriptionVars(NextDay)
    /\ \A j \in LifecycleRuns : WF_subscriptionVars(LifecycleStep(j))

---------------------------------------------------------------------------
(* A business whose period is not over never loses its plan: the job may    *)
(* decide on a row that a payment or a grant changes meanwhile, but only    *)
(* EXPIRED takes features away, and a payment never leaves GRACE, so the    *)
(* condition on the status catches it, as long as the lock of the job keeps *)
(* its runs apart.  Of two runs that overlap, one can bring GRACE back from *)
(* a row it read before the payment, for the other to end.                  *)
(*                                                                          *)
(* A transfer buys one period.  It buys more only when two operators held   *)
(* the same receipt at once, since the approval writes by id.               *)
PaidTimeNotTakenAway ==
    /\ subscription.status = "EXPIRED" => subscription.endsAt # NoEnd /\ subscription.endsAt < day
    /\ \A t \in Transfers : bought[t] > 1 => t \in contested

(* A subscription that lapsed, and is neither paid nor granted again, ends. *)
Lapsed == subscription.endsAt # NoEnd /\ day > subscription.endsAt + GraceDays
LapsedExpires == Lapsed ~> (subscription.status = "EXPIRED" \/ ~Lapsed)
===========================================================================
