----------------------------- MODULE ReviewDesk -----------------------------
(***************************************************************************)
(* The screens on which people decide about doubtful receipts: the queue of *)
(* the platform's operators with its ticks, dialogs and bulk decisions      *)
(* (src/src/features/platform/attention-payments-queue.tsx), the salon's    *)
(* own queue, and the transactions behind them                              *)
(* (src/src/core/payments/payment-review-service.ts).  A transaction reads  *)
(* the payment and its newest receipt, and claims the payment with a        *)
(* conditional update; other commits come in between.  ReceiptPayment has   *)
(* deadlines, retries and crashes; BusinessBot the buttons of the chat.     *)
(***************************************************************************)
EXTENDS Integers, FiniteSets

CONSTANTS
    Bills,      \* payments that started out with one doubtful receipt
    Clerks,     \* operators of the platform, each with one tab
    MaxSlips    \* receipts sent after those (a bound)

ASSUME ReviewDeskAssumption == Bills \subseteq Nat \ {0} /\ MaxSlips \in Nat

VARIABLES
    claim,      \* Payment, its booking, its receipts and its commission
    clerk,      \* the operator's page, its React state and the server action it waits for
    salonOwner, \* the decision of the salon's owner
    verdictsOf, \* history: decisions about each receipt
    crossing,   \* history: payments on which a receipt was read while a decision was half way
    strays      \* history: receipts decided by an operator whose page did not show the payment

deskVars == <<claim, clerk, salonOwner, verdictsOf, crossing, strays>>

Slips == 1 .. 1 + MaxSlips
NoBill == 0
NoReview == [bill |-> NoBill, slip |-> 0, verdict |-> "approve"]
BlankPage == [listed |-> {}, ticked |-> {}, dialog |-> "closed", sent |-> FALSE, todo |-> {},
              review |-> NoReview]

ReviewDeskTypeOK ==
    /\ claim \in [Bills -> [status : {"PROCESSING", "NEEDS_ATTENTION", "ACCEPTED", "REJECTED"},
                            booking : {"PENDING", "CONFIRMED", "OVER"},
                            newest : Slips, reading : SUBSET Slips, open : SUBSET Slips,
                            commission : BOOLEAN]]
    /\ \A c \in Clerks : /\ clerk[c].listed \cup clerk[c].ticked \cup clerk[c].todo \subseteq Bills
                         /\ clerk[c].dialog \in {"closed", "approve", "reject"}
                         /\ clerk[c].review.bill # NoBill => clerk[c].sent
    /\ salonOwner.bill \in Bills \cup {NoBill}
    /\ verdictsOf \in [Bills -> [Slips -> Nat]]
    /\ crossing \subseteq Bills /\ strays \subseteq Bills

ReviewDeskInit ==
    /\ claim = [b \in Bills |-> [status |-> "NEEDS_ATTENTION", booking |-> "PENDING", newest |-> 1,
                                 reading |-> {}, open |-> {1}, commission |-> FALSE]]
    /\ clerk = [c \in Clerks |-> BlankPage]
    /\ salonOwner = NoReview
    /\ verdictsOf = [b \in Bills |-> [s \in Slips |-> 0]]
    /\ crossing = {} /\ strays = {}

---------------------------------------------------------------------------
(***************************************************************************)
(* The customer's receipts and the booking.                                 *)
(***************************************************************************)
HistoryStays == UNCHANGED <<verdictsOf, crossing, strays>>
DesksStay == UNCHANGED <<clerk, salonOwner>>
HalfWay(b) == salonOwner.bill = b \/ \E c \in Clerks : clerk[c].review.bill = b

FurtherSlips == {sent \in Bills \X Slips : sent[2] \in 2 .. claim[sent[1]].newest}

SendSlip(b) ==
    /\ claim[b].booking = "PENDING" /\ claim[b].status # "ACCEPTED"
    /\ Cardinality(FurtherSlips) < MaxSlips
    /\ LET slip == claim[b].newest + 1
       IN  claim' = [claim EXCEPT ![b].newest = slip, ![b].reading = @ \cup {slip},
                                  ![b].status = "PROCESSING"]
    /\ DesksStay /\ HistoryStays

(* It matches, and the booking is confirmed ...                             *)
SlipMatches(b, slip) ==
    /\ slip \in claim[b].reading /\ claim[b].booking = "PENDING"
    /\ claim' = [claim EXCEPT ![b].reading = @ \ {slip}, ![b].status = "ACCEPTED",
                              ![b].booking = "CONFIRMED"]
    /\ DesksStay /\ HistoryStays

(* ... or it is doubtful, or the booking is not pending any more: the       *)
(* payment needs attention, whatever became of it meanwhile.                *)
SlipDoubted(b, slip) ==
    /\ slip \in claim[b].reading
    /\ claim' = [claim EXCEPT ![b].reading = @ \ {slip}, ![b].open = @ \cup {slip},
                              ![b].status = "NEEDS_ATTENTION"]
    /\ crossing' = IF HalfWay(b) THEN crossing \cup {b} ELSE crossing
    /\ DesksStay /\ UNCHANGED <<verdictsOf, strays>>

(* Cancelled or expired *)
VisitFalls(b) ==
    /\ claim[b].booking = "PENDING"
    /\ claim' = [claim EXCEPT ![b].booking = "OVER"]
    /\ DesksStay /\ HistoryStays

---------------------------------------------------------------------------
(***************************************************************************)
(* The transactions.                                                        *)
(***************************************************************************)
Decidable(b) ==
    claim[b].status = "NEEDS_ATTENTION" /\ claim[b].booking = "PENDING" /\ claim[b].open # {}

NewestOpen(b) == CHOOSE slip \in claim[b].open : \A other \in claim[b].open : other <= slip

ReviewOf(b, verdict) == [bill |-> b, slip |-> NewestOpen(b), verdict |-> verdict]

(* The conditional update, and the rows written by id after it *)
Claimed(review) == claim[review.bill].status = "NEEDS_ATTENTION"

(* A second entry breaks the unique index, which fails the transaction.     *)
Commissioned(review) == review.verdict = "approve" /\ claim[review.bill].commission

Decided(review) ==
    LET b == review.bill
    IN  IF review.verdict = "approve"
          THEN [claim EXCEPT ![b].status = "ACCEPTED", ![b].booking = "CONFIRMED",
                             ![b].open = @ \ {review.slip}, ![b].commission = TRUE]
          ELSE [claim EXCEPT ![b].status = "REJECTED", ![b].open = @ \ {review.slip}]

ClaimTakes(review) == Claimed(review) /\ ~Commissioned(review)

SettleClaim(review) ==
    IF ClaimTakes(review)
      THEN /\ claim' = Decided(review)
           /\ verdictsOf' = [verdictsOf EXCEPT ![review.bill][review.slip] = @ + 1]
      ELSE UNCHANGED <<claim, verdictsOf>>

---------------------------------------------------------------------------
(***************************************************************************)
(* The salon's queue: one card with both buttons, which lead to a decision  *)
(* about whatever receipt is the newest by then.                            *)
(***************************************************************************)
OwnersQueue == {b \in Bills : claim[b].status = "NEEDS_ATTENTION" /\ claim[b].open # {}}

OwnerReads(b, verdict) ==
    /\ salonOwner = NoReview
    /\ b \in OwnersQueue /\ Decidable(b)
    /\ salonOwner' = ReviewOf(b, verdict)
    /\ UNCHANGED <<claim, clerk>> /\ HistoryStays

OwnerWrites ==
    /\ salonOwner # NoReview
    /\ SettleClaim(salonOwner)
    /\ salonOwner' = NoReview
    /\ UNCHANGED <<clerk, crossing, strays>>

---------------------------------------------------------------------------
(***************************************************************************)
(* The operators' queue.  A redirect after a decision brings new rows and   *)
(* keeps the React state: the ticks, and a bulk dialog that is open; only   *)
(* an empty queue takes the component, and with it the state, away.         *)
(***************************************************************************)
Attention == {b \in Bills : claim[b].status = "NEEDS_ATTENTION"}

WithPage(c, page) == clerk' = [clerk EXCEPT ![c] = page]
AtHand(c) == ~clerk[c].sent

LoadQueue(c) ==
    /\ AtHand(c)
    /\ WithPage(c, [BlankPage EXCEPT !.listed = Attention])
    /\ UNCHANGED <<claim, salonOwner>> /\ HistoryStays

(* Altered: the ticks themselves *)
TickedAtAll(c) == clerk[c].ticked

Selection(c) == clerk[c].listed \cap clerk[c].ticked

(* One box, or the box above them *)
TickBox(c, ticked) ==
    /\ AtHand(c) /\ clerk[c].dialog = "closed"
    /\ \/ \E b \in clerk[c].listed : ticked = clerk[c].ticked \cup {b} \/ ticked = clerk[c].ticked \ {b}
       \/ ticked \in {clerk[c].listed, {}}
    /\ ticked # clerk[c].ticked
    /\ WithPage(c, [clerk[c] EXCEPT !.ticked = ticked])
    /\ UNCHANGED <<claim, salonOwner>> /\ HistoryStays

OpenBulk(c, verdict) ==
    /\ AtHand(c) /\ clerk[c].dialog = "closed" /\ Selection(c) # {}
    /\ WithPage(c, [clerk[c] EXCEPT !.dialog = verdict])
    /\ UNCHANGED <<claim, salonOwner>> /\ HistoryStays

CloseBulk(c) ==
    /\ AtHand(c) /\ clerk[c].dialog # "closed"
    /\ WithPage(c, [clerk[c] EXCEPT !.dialog = "closed"])
    /\ UNCHANGED <<claim, salonOwner>> /\ HistoryStays

SubmitBulk(c) ==
    /\ AtHand(c) /\ clerk[c].dialog # "closed"
    /\ WithPage(c, [clerk[c] EXCEPT !.sent = TRUE, !.todo = Selection(c),
                                    !.review.verdict = clerk[c].dialog])
    /\ UNCHANGED <<claim, salonOwner>> /\ HistoryStays

(* The dialog of a row *)
SubmitRow(c, b, verdict) ==
    /\ AtHand(c) /\ clerk[c].dialog = "closed" /\ b \in clerk[c].listed
    /\ WithPage(c, [clerk[c] EXCEPT !.sent = TRUE, !.todo = {b}, !.review.verdict = verdict])
    /\ UNCHANGED <<claim, salonOwner>> /\ HistoryStays

(* One transaction for each payment; what is refused counts as skipped.     *)
ClerkReads(c, b) ==
    /\ clerk[c].sent /\ clerk[c].review.bill = NoBill /\ b \in clerk[c].todo
    /\ WithPage(c, [clerk[c] EXCEPT !.todo = @ \ {b},
                      !.review = IF Decidable(b) THEN ReviewOf(b, @.verdict) ELSE @])
    /\ UNCHANGED <<claim, salonOwner>> /\ HistoryStays

ClerkWrites(c) ==
    /\ clerk[c].review.bill # NoBill
    /\ SettleClaim(clerk[c].review)
    /\ strays' = IF ClaimTakes(clerk[c].review) /\ clerk[c].review.bill \notin clerk[c].listed
                   THEN strays \cup {clerk[c].review.bill} ELSE strays
    /\ WithPage(c, [clerk[c] EXCEPT !.review = [NoReview EXCEPT !.verdict = clerk[c].review.verdict]])
    /\ UNCHANGED <<salonOwner, crossing>>

Redirected(c) ==
    /\ clerk[c].sent /\ clerk[c].todo = {} /\ clerk[c].review.bill = NoBill
    /\ WithPage(c, IF Attention = {} THEN BlankPage
                   ELSE [clerk[c] EXCEPT !.sent = FALSE, !.listed = Attention, !.review = NoReview])
    /\ UNCHANGED <<claim, salonOwner>> /\ HistoryStays

ReviewDeskNext ==
    \/ \E b \in Bills : \/ SendSlip(b) \/ VisitFalls(b)
                        \/ \E slip \in Slips : SlipMatches(b, slip) \/ SlipDoubted(b, slip)
                        \/ \E verdict \in {"approve", "reject"} : OwnerReads(b, verdict)
    \/ OwnerWrites
    \/ \E c \in Clerks :
         \/ LoadQueue(c) \/ CloseBulk(c) \/ SubmitBulk(c) \/ ClerkWrites(c) \/ Redirected(c)
         \/ \E ticked \in SUBSET Bills : TickBox(c, ticked)
         \/ \E verdict \in {"approve", "reject"} : OpenBulk(c, verdict)
         \/ \E b \in Bills : \/ ClerkReads(c, b)
                             \/ \E verdict \in {"approve", "reject"} : SubmitRow(c, b, verdict)

ReviewDeskSpec == ReviewDeskInit /\ [][ReviewDeskNext]_deskVars

---------------------------------------------------------------------------
(* "a receipt decided a moment ago cannot ride along in the next bulk       *)
(* decision just because its checkbox state outlived it": an operator       *)
(* decides only about payments that the page showed.  And whoever decides   *)
(* at once, each receipt is decided once, and a payment that was approved   *)
(* is not rejected afterwards, nor approved again, unless another receipt   *)
(* put it back to NEEDS_ATTENTION while a decision was half way.            *)
DecidedAsShown ==
    /\ strays = {}
    /\ \A b \in Bills \ crossing :
         /\ \A s \in Slips : verdictsOf[b][s] <= 1
         /\ claim[b].commission => claim[b].booking = "CONFIRMED" /\ claim[b].status # "REJECTED"
=============================================================================
