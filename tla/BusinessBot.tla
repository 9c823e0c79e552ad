---------------------------- MODULE BusinessBot ----------------------------
(***************************************************************************)
(* The bot of the salon's staff: cards with buttons about one visit and its *)
(* payment (src/src/integrations/telegram/business-bot-handler.ts), the     *)
(* rows behind the buttons (core/integrations/business-bot-actions.ts) and  *)
(* the commands they call.  Telegram may deliver a tap twice, a card stays  *)
(* in the chat after the state it showed, and members tap at once.          *)
(*                                                                          *)
(* Navigation rows are reusable and a typed command makes new ones, so a    *)
(* member reaches every view at any time: only the cards that hold MUTATION *)
(* buttons are recorded.  A button is <<command, argument>>.                *)
(***************************************************************************)
EXTENDS Integers, FiniteSets

CONSTANTS
    Members,        \* memberships linked to a chat
    Taps,           \* update handlers in flight
    Receipts,       \* receipt submissions, 1 .. n in the order of arrival
    Starts,         \* times the visit may be moved to
    ButtonLife,     \* actionLifetimeMs
    MaxCards,       \* bound on the cards recorded
    MaxBotDeaths,   \* bound on handlers that die
    MaxBotClock     \* bound on the clock

ASSUME BusinessBotAssumption ==
    /\ Members # {} /\ Receipts \subseteq Nat \ {0} /\ Starts \subseteq Nat /\ Starts # {}
    /\ {ButtonLife, MaxCards, MaxBotDeaths, MaxBotClock} \subseteq Nat

VARIABLES
    visit,      \* the booking: status, start, payment status, reminder message
    receipt,    \* ReceiptSubmission.status
    card,       \* cards with MUTATION rows: owner, buttons, made, consumed
    tap,        \* what the handler of an update knows
    acts,       \* history: acts[c][b], times button b of card c took effect
    verdicts,   \* history: times a person decided on a receipt
    overtaken,  \* history: receipts being decided when another came up for review
    botDeaths, botClock

botVars == <<visit, receipt, card, tap, acts, verdicts, overtaken, botDeaths, botClock>>

Cards == 1 .. MaxCards
Buttons == ({"confirm", "remind", "cancel"} \X {0}) \cup ({"move"} \X Starts)
             \cup ({"approve", "reject"} \X Receipts)
NoCard == [member |-> CHOOSE m \in Members : TRUE, buttons |-> {}, made |-> 0, consumed |-> {}]
IdleTap == [pc |-> "idle", card |-> 0, button |-> <<"confirm", 0>>]
VisitOver == {"CANCELLED", "EXPIRED"}

BusinessBotTypeOK ==
    /\ visit \in [status : {"PENDING_PAYMENT", "CONFIRMED"} \cup VisitOver, startsAt : Starts,
                  paid : {"PENDING", "RECEIPT_PROCESSING", "NEEDS_ATTENTION",
                          "RECEIPT_ACCEPTED", "REJECTED"},
                  reminder : {"none", "SCHEDULED", "SKIPPED"}]
    /\ receipt \in [Receipts -> {"none", "PROCESSING", "NEEDS_REVIEW", "ACCEPTED", "REJECTED"}]
    /\ card \in [Cards -> [member : Members, buttons : SUBSET Buttons, made : 0 .. MaxBotClock,
                           consumed : SUBSET Buttons]]
    /\ tap \in [Taps -> [pc : {"idle", "read", "write"}, card : Cards \cup {0}, button : Buttons]]
    /\ acts \in [Cards -> [Buttons -> Nat]]
    /\ verdicts \in [Receipts -> Nat]
    /\ overtaken \subseteq Receipts
    /\ botDeaths \in 0 .. MaxBotDeaths /\ botClock \in 0 .. MaxBotClock

BusinessBotInit ==
    /\ visit \in [status : {"PENDING_PAYMENT"}, startsAt : Starts, paid : {"PENDING"},
                  reminder : {"none"}]
    /\ receipt = [s \in Receipts |-> "none"]
    /\ card = [c \in Cards |-> NoCard]
    /\ tap = [t \in Taps |-> IdleTap]
    /\ acts = [c \in Cards |-> [b \in Buttons |-> 0]]
    /\ verdicts = [s \in Receipts |-> 0]
    /\ overtaken = {}
    /\ botDeaths = 0 /\ botClock = 0

---------------------------------------------------------------------------
(***************************************************************************)
(* The cards                                                                *)
(***************************************************************************)
Unpaid == visit.status = "PENDING_PAYMENT"
Ahead == Unpaid \/ visit.status = "CONFIRMED"
Awaiting == {s \in Receipts : receipt[s] = "NEEDS_REVIEW"}
Newest(s) == s \in Awaiting /\ \A q \in Awaiting : q <= s
Actionable == visit.paid = "NEEDS_ATTENTION" /\ Unpaid

BookingCard == (IF Unpaid THEN {<<"confirm", 0>>} ELSE {})
                 \cup (IF Unpaid /\ visit.paid = "PENDING" THEN {<<"remind", 0>>} ELSE {})
RescheduleSlots == IF Ahead THEN {<<"move", at>> : at \in {a \in Starts : a > botClock}} ELSE {}
CancellationReasons == {<<"cancel", 0>>}
ApprovalConfirmation == {<<"approve", s>> : s \in {q \in Receipts : Actionable /\ Newest(q)}}
RejectionReasons == {<<"reject", s>> : s \in {q \in Receipts : Actionable /\ Newest(q)}}

(* A view is built from one read; a view without commands only navigates.   *)
ShowCard(m, c) ==
    /\ card[c].buttons = {} /\ \A d \in Cards : d < c => card[d].buttons # {}
    /\ \E buttons \in {BookingCard, RescheduleSlots, CancellationReasons,
                       ApprovalConfirmation, RejectionReasons} :
         /\ buttons # {}
         /\ card' = [card EXCEPT ![c] = [member |-> m, buttons |-> buttons,
                                         made |-> botClock, consumed |-> {}]]
    /\ UNCHANGED <<visit, receipt, tap, acts, verdicts, overtaken, botDeaths, botClock>>

---------------------------------------------------------------------------
(***************************************************************************)
(* A tap                                                                    *)
(***************************************************************************)
(* Altered: the row is read, and not marked *)
ConsumeNothing(c, b) == b \notin card[c].consumed /\ UNCHANGED card

ConsumeAction(c, b) ==
    /\ b \notin card[c].consumed
    /\ card[c].made + ButtonLife > botClock
    /\ card' = [card EXCEPT ![c].consumed = @ \cup {b}]

(* The tap of the card's owner; any other tap, and a tap that cannot be     *)
(* consumed, is answered by a card that says the button is stale.           *)
Tap(t, c, b) ==
    /\ tap[t].pc = "idle" /\ b \in card[c].buttons
    /\ ConsumeAction(c, b)
    /\ tap' = [tap EXCEPT ![t] = [pc |-> "read", card |-> c, button |-> b]]
    /\ UNCHANGED <<visit, receipt, acts, verdicts, overtaken, botDeaths, botClock>>

Command(t) == tap[t].button[1]
Argument(t) == tap[t].button[2]

(* Altered: the receipt that the button names is not compared *)
AnyReceipt(t) == Actionable /\ Awaiting # {}

ReviewAllowed(t) == Actionable /\ Newest(Argument(t))

Allowed(t) ==
    \/ Command(t) = "confirm" /\ Unpaid
    \/ Command(t) = "remind" /\ Unpaid /\ visit.paid = "PENDING"
    \/ Command(t) = "cancel" /\ Ahead
    \/ Command(t) = "move" /\ Ahead /\ Argument(t) > botClock
    \/ Command(t) \in {"approve", "reject"} /\ ReviewAllowed(t)

(* The command reads and decides; refused, it leaves an error or the state. *)
ReadCommand(t) ==
    /\ tap[t].pc = "read"
    /\ tap' = [tap EXCEPT ![t] = IF Allowed(t) THEN [@ EXCEPT !.pc = "write"] ELSE IdleTap]
    /\ UNCHANGED <<visit, receipt, card, acts, verdicts, overtaken, botDeaths, botClock>>

Acts(t) == acts' = [acts EXCEPT ![tap[t].card][tap[t].button] = @ + 1]
Writes(t, command) ==
    /\ tap[t].pc = "write" /\ Command(t) \in command
    /\ tap' = [tap EXCEPT ![t] = IdleTap]
    /\ UNCHANGED <<card, overtaken, botDeaths, botClock>>

(* confirmBusinessBooking and cancelBusinessBooking write by id. *)
ConfirmByTap(t) ==
    /\ Writes(t, {"confirm"}) /\ Acts(t)
    /\ visit' = [visit EXCEPT !.status = "CONFIRMED"]
    /\ UNCHANGED <<receipt, verdicts>>

CancelByTap(t) ==
    /\ Writes(t, {"cancel"}) /\ Acts(t)
    /\ visit' = [visit EXCEPT !.status = "CANCELLED",
                              !.reminder = IF @ = "SCHEDULED" THEN "SKIPPED" ELSE @]
    /\ UNCHANGED <<receipt, verdicts>>

(* createMany skips the duplicate. *)
RemindByTap(t) ==
    /\ Writes(t, {"remind"})
    /\ IF visit.reminder = "none"
       THEN visit' = [visit EXCEPT !.reminder = "SCHEDULED"] /\ Acts(t)
       ELSE UNCHANGED <<visit, acts>>
    /\ UNCHANGED <<receipt, verdicts>>

(* SERIALIZABLE, and the calendar may refuse (SlotAllocation). *)
MoveByTap(t) ==
    /\ Writes(t, {"move"})
    /\ \/ Ahead /\ visit' = [visit EXCEPT !.startsAt = Argument(t)] /\ Acts(t)
       \/ UNCHANGED <<visit, acts>>
    /\ UNCHANGED <<receipt, verdicts>>

(* approvePaymentReview and rejectPaymentReview claim the payment while it  *)
(* needs attention; the receipt and the booking are written by id.          *)
ReviewByTap(t, command, paid, status) ==
    /\ Writes(t, {command})
    /\ IF visit.paid = "NEEDS_ATTENTION"
       THEN /\ visit' = [visit EXCEPT !.paid = paid, !.status = status]
            /\ receipt' = [receipt EXCEPT ![Argument(t)] =
                 IF command = "approve" THEN "ACCEPTED" ELSE "REJECTED"]
            /\ verdicts' = [verdicts EXCEPT ![Argument(t)] = @ + 1]
            /\ Acts(t)
       ELSE UNCHANGED <<visit, receipt, verdicts, acts>>

ApproveByTap(t) == ReviewByTap(t, "approve", "RECEIPT_ACCEPTED", "CONFIRMED")
RejectByTap(t) == ReviewByTap(t, "reject", "REJECTED", visit.status)

(* The process ends: the row stays consumed. *)
TapDies(t) ==
    /\ tap[t].pc # "idle" /\ botDeaths < MaxBotDeaths
    /\ tap' = [tap EXCEPT ![t] = IdleTap]
    /\ botDeaths' = botDeaths + 1
    /\ UNCHANGED <<visit, receipt, card, acts, verdicts, overtaken, botClock>>

---------------------------------------------------------------------------
(***************************************************************************)
(* The rest of the system, as ReceiptPayment details it                     *)
(***************************************************************************)
Elsewhere == UNCHANGED <<card, tap, acts, verdicts, botDeaths>>

CustomerSends(s) ==
    /\ Unpaid /\ visit.paid # "RECEIPT_ACCEPTED"
    /\ receipt[s] = "none" /\ \A q \in Receipts : q < s => receipt[q] # "none"
    /\ receipt' = [receipt EXCEPT ![s] = "PROCESSING"]
    /\ visit' = [visit EXCEPT !.paid = "RECEIPT_PROCESSING"]
    /\ Elsewhere /\ UNCHANGED <<overtaken, botClock>>

RecogniserDoubts(s) ==
    /\ receipt[s] = "PROCESSING"
    /\ receipt' = [receipt EXCEPT ![s] = "NEEDS_REVIEW"]
    /\ visit' = [visit EXCEPT !.paid = "NEEDS_ATTENTION"]
    /\ overtaken' = overtaken \cup {Argument(t) : t \in
         {u \in Taps : tap[u].pc = "write" /\ Command(u) \in {"approve", "reject"}}}
    /\ Elsewhere /\ UNCHANGED botClock

RecogniserAccepts(s) ==
    /\ receipt[s] = "PROCESSING" /\ Unpaid
    /\ receipt' = [receipt EXCEPT ![s] = "ACCEPTED"]
    /\ visit' = [visit EXCEPT !.paid = "RECEIPT_ACCEPTED", !.status = "CONFIRMED"]
    /\ Elsewhere /\ UNCHANGED <<overtaken, botClock>>

HoldExpires ==
    /\ Unpaid
    /\ visit' = [visit EXCEPT !.status = "EXPIRED"]
    /\ Elsewhere /\ UNCHANGED <<receipt, overtaken, botClock>>

BotTick ==
    /\ botClock < MaxBotClock
    /\ botClock' = botClock + 1
    /\ Elsewhere /\ UNCHANGED <<visit, receipt, overtaken>>

BusinessBotNext ==
    \/ \E m \in Members, c \in Cards : ShowCard(m, c)
    \/ \E t \in Taps :
        \/ \E c \in Cards : \E b \in card[c].buttons : Tap(t, c, b)
        \/ ReadCommand(t) \/ ConfirmByTap(t) \/ CancelByTap(t) \/ RemindByTap(t) \/ MoveByTap(t)
        \/ ApproveByTap(t) \/ RejectByTap(t) \/ TapDies(t)
    \/ \E s \in Receipts : CustomerSends(s) \/ RecogniserDoubts(s) \/ RecogniserAccepts(s)
    \/ HoldExpires \/ BotTick

BusinessBotSpec == BusinessBotInit /\ [][BusinessBotNext]_botVars

---------------------------------------------------------------------------
(* A mutation button takes effect at most once, whoever taps it again, on   *)
(* whatever device, and however often Telegram delivers the tap: the row is *)
(* consumed before its command starts (consumeBusinessBotAction).           *)
(* Two members who decide on one receipt at once do not both decide: the    *)
(* payment is claimed with one conditional update.  It holds unless another *)
(* receipt puts the payment back to NEEDS_ATTENTION between the read and    *)
(* the claim.                                                               *)
StaffDecideOnce ==
    /\ \A c \in Cards, b \in Buttons : acts[c][b] <= 1
    /\ \A s \in Receipts : verdicts[s] > 1 => s \in overtaken
===========================================================================
