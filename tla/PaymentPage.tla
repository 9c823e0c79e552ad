---------------------------- MODULE PaymentPage ----------------------------
(***************************************************************************)
(* The page on which a customer pays and sends the receipt                  *)
(* (src/src/features/public-payment/payment-page.tsx), and the routes       *)
(* behind it.  The page shows a copy of the payment; polls, returns to the  *)
(* tab and uploads are answered in any order, each with a copy of its own.  *)
(* ReceiptPayment has the rules of the payment itself, which changes here   *)
(* in every way that it may, and the time of the hold: here a hold may be   *)
(* over at any moment.                                                      *)
(***************************************************************************)
EXTENDS Integers

CONSTANTS
    Pollers,        \* chains of the poll timer, 1 .. n (a bound)
    Returns         \* requests of extendHold in flight (a bound)

ASSUME PaymentPageAssumption == Pollers \subseteq Nat

VARIABLES
    bill,       \* Payment.status and Booking.status
    page,       \* the state "payment" of the page: a copy of them
    hidden,     \* document.hidden
    poller,     \* the chain of timers and requests of each poll()
    return,     \* requests of extendHold
    upload,     \* the request of upload, and its answer
    stopped     \* history: a poll threw, and its chain ended

paymentPageVars == <<bill, page, hidden, poller, return, upload, stopped>>

Bill == [paid : {"PENDING", "RECEIPT_PROCESSING", "NEEDS_ATTENTION", "RECEIPT_ACCEPTED", "REJECTED"},
         booking : {"PENDING_PAYMENT", "CONFIRMED", "EXPIRED", "CANCELLED"}]
Answers == {"ACCEPTED", "NEEDS_REVIEW", "PROCESSING", "error"}

Complete(view) == view.paid = "RECEIPT_ACCEPTED" \/ view.booking = "CONFIRMED"
Reviewing(view) == view.paid \in {"RECEIPT_PROCESSING", "NEEDS_ATTENTION"}

(* The panel with the card to pay to, and the input for a receipt; it gives *)
(* way to others when the payment is complete or reviewed, or the hold over *)
MayShowPay == ~Complete(page) /\ ~Reviewing(page) /\ page.booking # "EXPIRED"

Resting == [paid |-> "PENDING", booking |-> "PENDING_PAYMENT"]   \* no answer in hand
Silent == [pc |-> "off", own |-> FALSE, view |-> Resting]

PaymentPageTypeOK ==
    /\ bill \in Bill /\ page \in Bill
    /\ hidden \in BOOLEAN /\ stopped \in BOOLEAN
    /\ poller \in [Pollers -> [pc : {"off", "armed", "sent", "read"}, own : BOOLEAN, view : Bill]]
    /\ return \in [Returns -> [pc : {"idle", "sent", "read"}, view : Bill]]
    /\ upload \in {"idle", "sent", "stored"} \cup Answers

PaymentPageInit ==
    /\ bill = [paid |-> "PENDING", booking |-> "PENDING_PAYMENT"]
    /\ page = bill
    /\ hidden = FALSE /\ stopped = FALSE
    /\ poller = [k \in Pollers |-> Silent]
    /\ return = [c \in Returns |-> [pc |-> "idle", view |-> Resting]]
    /\ upload = "idle"

---------------------------------------------------------------------------
(***************************************************************************)
(* The page                                                                 *)
(***************************************************************************)
(* The effect of the polling: it arms a timer when a review begins.  Its    *)
(* cleanup stops the timer, but not a request: that one, answered, arms a   *)
(* timer nobody knows of.                                                   *)
Effect(view, pollers) ==
    IF Reviewing(page) /\ ~Reviewing(view)
    THEN poller' = [k \in Pollers |->
                      IF pollers[k].own
                      THEN [pollers[k] EXCEPT !.own = FALSE,
                                              !.pc = IF @ = "armed" THEN "off" ELSE @]
                      ELSE pollers[k]]
    ELSE IF ~Reviewing(page) /\ Reviewing(view)
    THEN \E k \in Pollers :
            /\ pollers[k].pc = "off" /\ \A m \in Pollers : m < k => pollers[m].pc # "off"
            /\ poller' = [pollers EXCEPT ![k].pc = "armed", ![k].own = TRUE]
    ELSE poller' = pollers

(* setPayment *)
Shows(view, pollers) == page' = view /\ Effect(view, pollers)

(* Altered: a hidden tab is not asked again *)
RestsWhenHidden == IF hidden THEN "off" ELSE "sent"

(* A hidden tab sends nothing and waits for its next beat. *)
NextBeat == IF hidden THEN "armed" ELSE "sent"

PollerFires(k) ==
    /\ poller[k].pc = "armed"
    /\ poller' = [poller EXCEPT ![k].pc = NextBeat]
    /\ UNCHANGED <<bill, page, hidden, return, upload, stopped>>

(* GET answers with getPublicPaymentView. *)
PollServed(k) ==
    /\ poller[k].pc = "sent"
    /\ poller' = [poller EXCEPT ![k].pc = "read", ![k].view = bill]
    /\ UNCHANGED <<bill, page, hidden, return, upload, stopped>>

PollArrives(k) ==
    /\ poller[k].pc = "read"
    /\ Shows(poller[k].view, [poller EXCEPT ![k].pc = "armed", ![k].view = Resting])
    /\ UNCHANGED <<bill, hidden, return, upload, stopped>>

(* An answer that is not ok changes nothing; the next beat asks again.      *)
PollRefused(k) ==
    /\ poller[k].pc = "sent"
    /\ poller' = [poller EXCEPT ![k].pc = "armed"]
    /\ UNCHANGED <<bill, page, hidden, return, upload, stopped>>

(* poll() catches nothing: offline, it throws and never sets its timer.     *)
PollThrows(k) ==
    /\ poller[k].pc \in {"sent", "read"}
    /\ poller' = [poller EXCEPT ![k] = Silent]
    /\ stopped' = TRUE
    /\ UNCHANGED <<bill, page, hidden, return, upload>>

Leave ==
    /\ ~hidden /\ hidden' = TRUE
    /\ UNCHANGED <<bill, page, poller, return, upload, stopped>>

(* visibilitychange, listened to unless the payment is complete or reviewed *)
ComeBack ==
    /\ hidden /\ hidden' = FALSE
    /\ IF Complete(page) \/ Reviewing(page)
       THEN UNCHANGED return
       ELSE \/ \E c \in Returns : return[c].pc = "idle" /\ return' = [return EXCEPT ![c].pc = "sent"]
            \/ (\A c \in Returns : return[c].pc # "idle") /\ UNCHANGED return
    /\ UNCHANGED <<bill, page, poller, upload, stopped>>

(* POST: extendPaymentHold, which changes no status, then the payment as it *)
(* stands                                                                   *)
ExtendServed(c) ==
    /\ return[c].pc = "sent"
    /\ return' = [return EXCEPT ![c] = [pc |-> "read", view |-> bill]]
    /\ UNCHANGED <<bill, page, hidden, poller, upload, stopped>>

ExtendArrives(c) ==
    /\ return[c].pc = "read"
    /\ Shows(return[c].view, poller)
    /\ return' = [return EXCEPT ![c] = [pc |-> "idle", view |-> Resting]]
    /\ UNCHANGED <<bill, hidden, upload, stopped>>

ExtendFails(c) ==
    /\ return[c].pc # "idle"
    /\ return' = [return EXCEPT ![c] = [pc |-> "idle", view |-> Resting]]
    /\ UNCHANGED <<bill, page, hidden, poller, upload, stopped>>

(* The file input is on the panel with the card, disabled while it uploads. *)
Upload ==
    /\ MayShowPay /\ upload = "idle"
    /\ upload' = "sent"
    /\ UNCHANGED <<bill, page, hidden, poller, return, stopped>>

(* The answer sets the status alone; an error leaves a message.             *)
UploadAnswered ==
    /\ upload \in Answers
    /\ upload' = "idle"
    /\ IF upload = "error" THEN UNCHANGED <<page, poller>>
       ELSE Shows([page EXCEPT !.paid = CASE upload = "ACCEPTED" -> "RECEIPT_ACCEPTED"
                                          [] upload = "NEEDS_REVIEW" -> "NEEDS_ATTENTION"
                                          [] OTHER -> "RECEIPT_PROCESSING"], poller)
    /\ UNCHANGED <<bill, hidden, return, stopped>>

UploadFails ==
    /\ upload \in {"sent"} \cup Answers
    /\ upload' = "idle"
    /\ UNCHANGED <<bill, page, hidden, poller, return, stopped>>

---------------------------------------------------------------------------
(***************************************************************************)
(* The server                                                               *)
(***************************************************************************)
PageKept == UNCHANGED <<page, hidden, poller, return, stopped>>
Pending == bill.booking = "PENDING_PAYMENT"
Accepted == [bill EXCEPT !.paid = "RECEIPT_ACCEPTED", !.booking = "CONFIRMED"]

CanSend == Pending /\ bill.paid # "RECEIPT_ACCEPTED"
Sent == [bill EXCEPT !.paid = "RECEIPT_PROCESSING"]

(* submitReceipt refuses, or stores the receipt ... *)
ReceiptStored ==
    /\ upload = "sent"
    /\ \/ CanSend /\ bill' = Sent /\ upload' = "stored"
       \/ UNCHANGED bill /\ upload' = "error"
    /\ PageKept

(* Confirmed by a receipt, or left for the salon: with no look at the status *)
Read == {[bill EXCEPT !.paid = "NEEDS_ATTENTION"]} \cup (IF Pending THEN {Accepted} ELSE {})

(* ... and reads it, unless the retry job is doing so; when that throws, the *)
(* answer is an error though the receipt is kept for that job.               *)
ReceiptRead ==
    /\ upload = "stored"
    /\ \/ /\ bill' \in Read
          /\ upload' = IF bill'.paid = "NEEDS_ATTENTION" THEN "NEEDS_REVIEW" ELSE "ACCEPTED"
       \/ UNCHANGED bill /\ upload' \in {"PROCESSING", "error"}
    /\ PageKept

(* A receipt sent in the chat of the bot *)
ReceiptByChat ==
    /\ CanSend /\ bill' = Sent
    /\ UNCHANGED upload /\ PageKept

(* Of the chat, or by the retry job *)
ReceiptReadLater ==
    /\ bill.paid = "RECEIPT_PROCESSING"
    /\ bill' \in Read
    /\ UNCHANGED upload /\ PageKept

Review ==
    /\ bill.paid = "NEEDS_ATTENTION" /\ Pending
    /\ bill' \in {Accepted, [bill EXCEPT !.paid = "REJECTED"]}
    /\ UNCHANGED upload /\ PageKept

(* By the salon, or by the customer; a review that was open stays open.     *)
BookingCancelled ==
    /\ bill.booking \in {"PENDING_PAYMENT", "CONFIRMED"}
    /\ bill' = [bill EXCEPT !.booking = "CANCELLED"]
    /\ UNCHANGED upload /\ PageKept

(* expirePendingBookings: the review may outlast the hold, and is over too. *)
HoldEnded ==
    /\ Pending
    /\ bill' = [bill EXCEPT !.booking = "EXPIRED"]
    /\ UNCHANGED upload /\ PageKept

PaymentPageNext ==
    \/ \E k \in Pollers : PollerFires(k) \/ PollServed(k) \/ PollArrives(k)
                          \/ PollRefused(k) \/ PollThrows(k)
    \/ Leave \/ ComeBack
    \/ \E c \in Returns : ExtendServed(c) \/ ExtendArrives(c) \/ ExtendFails(c)
    \/ Upload \/ UploadAnswered \/ UploadFails
    \/ ReceiptStored \/ ReceiptRead \/ ReceiptByChat \/ ReceiptReadLater
    \/ Review \/ BookingCancelled \/ HoldEnded

PaymentPageSpec == PaymentPageInit /\ [][PaymentPageNext]_paymentPageVars

(* The browser fires its timers and answers come, not all of them errors;   *)
(* the customer looks at the tab again and again, so that a beat finds it   *)
(* visible.                                                                 *)
PaymentPageFairness ==
    /\ WF_paymentPageVars(ComeBack)
    /\ \A k \in Pollers : /\ SF_paymentPageVars(~hidden /\ PollerFires(k))
                           /\ SF_paymentPageVars(PollServed(k))
                           /\ WF_paymentPageVars(PollArrives(k))

---------------------------------------------------------------------------
(* A page that says "we are checking" finds out: once the receipt has been  *)
(* accepted or rejected, the page shows so, however long the tab was hidden *)
(* and whatever answers crossed, unless a poll failed on the way: the code  *)
(* does not poll again after an error.                                      *)
Verdict == bill.paid \in {"RECEIPT_ACCEPTED", "REJECTED"}
PageShowsVerdict ==
    (Reviewing(page) /\ Verdict) ~> (~Reviewing(page) \/ ~Verdict \/ stopped)
============================================================================
