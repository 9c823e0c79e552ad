----------------------- MODULE ReceiptPayment_proofs -----------------------
(***************************************************************************)
(* For any number of bookings, receipts and handlers: rows are well formed *)
(* (a hold never outlasts MaxHold), accepted money keeps its booking, and  *)
(* no receipt is processed twice at once.                                  *)
(***************************************************************************)
EXTENDS ReceiptPayment, TLAPS

USE TimesAssumption

LEMMA LowerBounds ==
  ASSUME NEW a \in Nat, NEW b \in Nat
  PROVE  Lower(a, b) \in Nat /\ Lower(a, b) <= a /\ Lower(a, b) <= b
BY DEF Lower

LEMMA TypeInit == Init => TypeOK
<1> SUFFICES ASSUME Init PROVE TypeOK
  OBVIOUS
<1>1. booking \in [Payments -> BookingRow]
  BY DEF Init, BookingRow, BookingStatuses
<1>2. payment \in [Payments -> PaymentRow]
  BY DEF Init, PaymentRow, PaymentStatuses, Never, NoOperation
<1>3. Idle \notin Claiming \cup Finishing \cup Reviewing
  BY DEF Idle, Claiming, Finishing, Reviewing
<1> QED
  BY <1>1, <1>2, <1>3 DEF Init, TypeOK

\* The tag of a handler's work tells what it is.
LEMMA WorkKinds ==
  ASSUME TypeOK, NEW h \in Handlers
  PROVE  /\ handler[h].op = "submit" => handler[h] \in Submitting
         /\ handler[h].op \in {"claim", "recognise"} => handler[h] \in Claiming
         /\ handler[h].op = "finish" => handler[h] \in Finishing
         /\ handler[h].op \in {"approve", "reject"} => handler[h] \in Reviewing
         /\ handler[h].op = "extend" => handler[h] \in Extending
         /\ handler[h].op \in {"confirm", "cancel"} => handler[h] \in Changing
         /\ handler[h].op \in {"claim", "recognise", "finish", "approve", "reject"} => handler[h].submission \in DOMAIN submission
BY DEF TypeOK, Busy, Idle, Submitting, Claiming, Finishing, Reviewing, Extending, Changing

\* A handler turns to other work; receipts are only added.
LEMMA HandlerTyped ==
  ASSUME TypeOK, NEW h \in Handlers, NEW work \in Busy \cup {Idle}, Begin(h, work),
         DOMAIN submission \subseteq DOMAIN submission',
         work \in Claiming \cup Finishing \cup Reviewing => work.submission \in DOMAIN submission'
  PROVE  /\ handler' \in [Handlers -> Busy \cup {Idle}]
         /\ \A g \in Handlers : handler'[g] \in Claiming \cup Finishing \cup Reviewing => handler'[g].submission \in DOMAIN submission'
<1>1. \A g \in Handlers : handler'[g] = IF g = h THEN work ELSE handler[g]
  BY DEF TypeOK, Begin
<1> QED
  BY <1>1 DEF TypeOK, Begin

LEMMA IdleTyped == Idle \notin Claiming \cup Finishing \cup Reviewing
BY DEF Idle, Claiming, Finishing, Reviewing

\* A step that sets the status, and perhaps more, of one receipt.
LEMMA SubmissionTyped ==
  ASSUME TypeOK, NEW s \in DOMAIN submission, NEW status \in SubmissionStatuses,
         submission' = [submission EXCEPT ![s].status = status]
  PROVE  DOMAIN submission' = DOMAIN submission /\ submission' \in [DOMAIN submission' -> SubmissionRow]
<1> DEFINE row == [submission[s] EXCEPT !.status = status]
<1>1. submission[s] \in SubmissionRow
  BY DEF TypeOK
<1>2. row \in SubmissionRow
  BY <1>1 DEF SubmissionRow
<1>3. submission' = [submission EXCEPT ![s] = row]
  OBVIOUS
<1> HIDE DEF row
<1> QED
  BY <1>2, <1>3 DEF TypeOK

LEMMA PaymentTyped ==
  ASSUME TypeOK, NEW p \in Payments, NEW status \in PaymentStatuses,
         payment' = [payment EXCEPT ![p].status = status]
  PROVE  payment' \in [Payments -> PaymentRow]
<1> DEFINE row == [payment[p] EXCEPT !.status = status]
<1>1. payment[p] \in PaymentRow
  BY DEF TypeOK
<1>2. row \in PaymentRow
  BY <1>1 DEF PaymentRow
<1>3. payment' = [payment EXCEPT ![p] = row]
  OBVIOUS
<1> HIDE DEF row
<1> QED
  BY <1>2, <1>3 DEF TypeOK

LEMMA OperationTyped ==
  ASSUME TypeOK, NEW p \in Payments, NEW status \in PaymentStatuses, NEW o \in Operations,
         payment' = [payment EXCEPT ![p].status = status, ![p].operation = o]
  PROVE  payment' \in [Payments -> PaymentRow]
<1> DEFINE decided == [payment[p] EXCEPT !.status = status]
           row == [decided EXCEPT !.operation = o]
<1>1. payment[p] \in PaymentRow
  BY DEF TypeOK
<1>2. payment' = [payment EXCEPT ![p] = row]
  OBVIOUS
<1>3. decided \in PaymentRow
  BY <1>1 DEF PaymentRow
<1> HIDE DEF decided
<1>4. row \in PaymentRow
  BY <1>3 DEF PaymentRow
<1> HIDE DEF row
<1> QED
  BY <1>2, <1>4 DEF TypeOK

LEMMA ConfirmTyped ==
  ASSUME TypeOK, NEW p \in Payments, ConfirmBooking(p)
  PROVE  booking' \in [Payments -> BookingRow]
BY DEF TypeOK, ConfirmBooking, BookingRow, BookingStatuses

\* A step that leaves the rows alone and gives a handler other work.
LEMMA TypeHandler ==
  ASSUME TypeOK, NEW h \in Handlers, NEW work \in Busy \cup {Idle}, Begin(h, work),
         work \in Claiming \cup Finishing \cup Reviewing => work.submission \in DOMAIN submission,
         UNCHANGED <<now, booking, payment, submission, audit>>
  PROVE  TypeOK'
<1>1. /\ handler' \in [Handlers -> Busy \cup {Idle}]
      /\ \A g \in Handlers : handler'[g] \in Claiming \cup Finishing \cup Reviewing => handler'[g].submission \in DOMAIN submission'
  BY HandlerTyped
<1> QED
  BY <1>1 DEF TypeOK

\* A step that leaves the handler idle and the set of receipts as it is.
LEMMA TypeFinish ==
  ASSUME TypeOK, NEW h \in Handlers, Finish(h),
         booking' \in [Payments -> BookingRow],
         payment' \in [Payments -> PaymentRow],
         DOMAIN submission' = DOMAIN submission,
         submission' \in [DOMAIN submission' -> SubmissionRow],
         UNCHANGED <<now, audit>>
  PROVE  TypeOK'
<1>1. /\ handler' \in [Handlers -> Busy \cup {Idle}]
      /\ \A g \in Handlers : handler'[g] \in Claiming \cup Finishing \cup Reviewing => handler'[g].submission \in DOMAIN submission'
  BY HandlerTyped, IdleTyped DEF Finish
<1> QED
  BY <1>1 DEF TypeOK

LEMMA TypeSubmit ==
  ASSUME TypeOK, NEW h \in Handlers, NEW s \in Submissions, CommitSubmit(h, s)
  PROVE  TypeOK'
<1> DEFINE q == handler[h]
           sent == [payment |-> q.payment, status |-> "UPLOADED", attempts |-> 0, createdAt |-> q.at]
           deadline == Lower(StartsAt, q.at + ReviewWindow)
           decided == [payment[q.payment] EXCEPT !.status = "RECEIPT_PROCESSING"]
           row == [decided EXCEPT !.reviewDeadline = deadline]
           work == [op |-> "claim", submission |-> s]
<1>1. q \in Submitting
  BY WorkKinds DEF CommitSubmit
<1>2. q.payment \in Payments /\ q.at \in Nat
  BY <1>1 DEF Submitting
<1>3. sent \in SubmissionRow
  BY <1>2 DEF SubmissionRow, SubmissionStatuses
<1>4. submission' = [t \in DOMAIN submission \cup {s} |-> IF t # s THEN submission[t] ELSE sent]
  BY DEF CommitSubmit
<1> HIDE DEF sent
<1>5. /\ DOMAIN submission' = DOMAIN submission \cup {s}
      /\ submission' \in [DOMAIN submission' -> SubmissionRow]
  BY <1>3, <1>4 DEF TypeOK
<1>6. deadline \in Nat
  BY <1>2 DEF Lower
<1>7. payment' = [payment EXCEPT ![q.payment] = row]
  BY DEF CommitSubmit
<1>8. payment[q.payment] \in PaymentRow
  BY <1>2 DEF TypeOK
<1> HIDE DEF deadline
<1>9. decided \in PaymentRow
  BY <1>8 DEF PaymentRow, PaymentStatuses
<1> HIDE DEF decided
<1>10. row \in PaymentRow
  BY <1>6, <1>9 DEF PaymentRow
<1> HIDE DEF row
<1>11. payment' \in [Payments -> PaymentRow]
  BY <1>2, <1>7, <1>10 DEF TypeOK
<1>12. work \in Busy /\ work.submission \in DOMAIN submission'
  BY <1>5 DEF Busy, Claiming
<1>13. Begin(h, work) /\ UNCHANGED <<now, booking, audit>>
  BY DEF CommitSubmit, Keep
<1> HIDE DEF work
<1>14. /\ handler' \in [Handlers -> Busy \cup {Idle}]
       /\ \A g \in Handlers : handler'[g] \in Claiming \cup Finishing \cup Reviewing => handler'[g].submission \in DOMAIN submission'
  BY <1>5, <1>12, <1>13, HandlerTyped
<1> QED
  BY <1>5, <1>11, <1>13, <1>14 DEF TypeOK

LEMMA TypeClaim ==
  ASSUME TypeOK, NEW h \in Handlers, Claim(h)
  PROVE  TypeOK'
<1> DEFINE s == handler[h].submission
           claimed == [submission[s] EXCEPT !.status = "PROCESSING"]
           row == [claimed EXCEPT !.attempts = @ + 1]
           work == [op |-> "recognise", submission |-> s]
<1>1. s \in DOMAIN submission /\ submission[s] \in SubmissionRow /\ s \in Submissions
  BY WorkKinds DEF Claim, TypeOK
<1>2. claimed \in SubmissionRow
  BY <1>1 DEF SubmissionRow, SubmissionStatuses
<1>3. submission' = [submission EXCEPT ![s] = row]
  BY DEF Claim
<1> HIDE DEF claimed
<1>4. row \in SubmissionRow
  BY <1>2 DEF SubmissionRow
<1> HIDE DEF row
<1>5. DOMAIN submission' = DOMAIN submission /\ submission' \in [DOMAIN submission' -> SubmissionRow]
  BY <1>1, <1>3, <1>4 DEF TypeOK
<1>6. work \in Busy /\ work.submission \in DOMAIN submission'
  BY <1>1, <1>5 DEF Busy, Claiming
<1>7. Begin(h, work) /\ UNCHANGED <<now, booking, payment, audit>>
  BY DEF Claim, Keep
<1> HIDE DEF work
<1>8. /\ handler' \in [Handlers -> Busy \cup {Idle}]
      /\ \A g \in Handlers : handler'[g] \in Claiming \cup Finishing \cup Reviewing => handler'[g].submission \in DOMAIN submission'
  BY <1>5, <1>6, <1>7, HandlerTyped
<1> QED
  BY <1>5, <1>7, <1>8 DEF TypeOK

\* The three outcomes of confirmFromReceipt that leave a verdict to write.
LEMMA TypeConfirm ==
  ASSUME TypeOK, NEW h \in Handlers, NEW o \in Operations, NEW agrees \in BOOLEAN, NEW at \in 0 .. now,
         ConfirmAgain(h, o) \/ ConfirmAccept(h, o, agrees, at) \/ ConfirmDoubt(h, o, agrees, at)
  PROVE  TypeOK'
<1> DEFINE s == handler[h].submission
           p == submission[s].payment
<1>1. /\ s \in DOMAIN submission
      /\ s \in Submissions
      /\ submission[s] \in SubmissionRow
      /\ p \in Payments
  BY WorkKinds DEF ConfirmAgain, ConfirmAccept, ConfirmDoubt, TypeOK, SubmissionRow
<1>2. PICK result \in {"ACCEPTED", "NEEDS_REVIEW"} : Begin(h, [op |-> "finish", submission |-> s, result |-> result])
  BY DEF ConfirmAgain, ConfirmAccept, ConfirmDoubt
<1> DEFINE work == [op |-> "finish", submission |-> s, result |-> result]
<1>3. work \in Busy /\ work.submission \in DOMAIN submission
  BY <1>1 DEF Busy, Finishing
<1>4. submission' = submission /\ now' = now
  BY DEF ConfirmAgain, ConfirmAccept, ConfirmDoubt, Keep
<1> HIDE DEF work
<1>5. /\ handler' \in [Handlers -> Busy \cup {Idle}]
      /\ \A g \in Handlers : handler'[g] \in Claiming \cup Finishing \cup Reviewing => handler'[g].submission \in DOMAIN submission'
  BY <1>2, <1>3, <1>4, HandlerTyped DEF work
<1>6. CASE ConfirmAgain(h, o)
  BY <1>4, <1>5, <1>6 DEF TypeOK, ConfirmAgain, Keep
<1>7. CASE ConfirmAccept(h, o, agrees, at)
  <2>1. ConfirmBooking(p)
    BY <1>7 DEF ConfirmAccept
  <2>2. booking' \in [Payments -> BookingRow]
    BY <1>1, <2>1, ConfirmTyped
  <2>3. payment' = [payment EXCEPT ![p].status = "RECEIPT_ACCEPTED", ![p].operation = o]
    BY <1>7 DEF ConfirmAccept
  <2> HIDE DEF p, s
  <2>4. payment' \in [Payments -> PaymentRow]
    BY <1>1, <2>3, OperationTyped DEF PaymentStatuses
  <2>5. audit' \subseteq Payments \X Operations
    BY <1>1, <1>7 DEF ConfirmAccept, TypeOK, p, s
  <2> QED
    BY <1>4, <1>5, <2>2, <2>4, <2>5 DEF TypeOK
<1>8. CASE ConfirmDoubt(h, o, agrees, at)
  <2>1. payment' = [payment EXCEPT ![p].status = "NEEDS_ATTENTION", ![p].operation = o]
    BY <1>8 DEF ConfirmDoubt
  <2> HIDE DEF p, s
  <2>2. payment' \in [Payments -> PaymentRow]
    BY <1>1, <2>1, OperationTyped DEF PaymentStatuses
  <2>3. UNCHANGED <<booking, audit>>
    BY <1>8 DEF ConfirmDoubt, Keep
  <2> QED
    BY <1>4, <1>5, <2>2, <2>3 DEF TypeOK
<1> QED
  BY <1>6, <1>7, <1>8

LEMMA TypeNext == TypeOK /\ [Next]_vars => TypeOK'
<1> SUFFICES ASSUME TypeOK, [Next]_vars PROVE TypeOK'
  OBVIOUS
<1> USE DEF Keep
<1>1. ASSUME NEW h \in Handlers, NEW p \in Payments, ReadSubmit(h, p) PROVE TypeOK'
  <2> DEFINE work == [op |-> "submit", payment |-> p, at |-> now]
  <2>1. work \in Submitting /\ work \notin Claiming \cup Finishing \cup Reviewing
    BY DEF Submitting, Claiming, Finishing, Reviewing, TypeOK
  <2>2. Begin(h, work) /\ UNCHANGED <<now, booking, payment, submission, audit>>
    BY <1>1 DEF ReadSubmit
  <2> HIDE DEF work
  <2> QED
    BY <2>1, <2>2, TypeHandler DEF Busy
<1>2. ASSUME NEW h \in Handlers, NEW s \in DOMAIN submission, ListForRetry(h, s) PROVE TypeOK'
  <2> DEFINE work == [op |-> "claim", submission |-> s]
  <2>1. work \in Claiming /\ work.submission \in DOMAIN submission
    BY DEF Claiming, TypeOK
  <2>2. Begin(h, work) /\ UNCHANGED <<now, booking, payment, submission, audit>>
    BY <1>2 DEF ListForRetry
  <2> HIDE DEF work
  <2> QED
    BY <2>1, <2>2, TypeHandler DEF Busy
<1>3. ASSUME NEW h \in Handlers, MarkNeedsReview(h) PROVE TypeOK'
  <2> DEFINE s == handler[h].submission
             p == submission[s].payment
  <2>1. s \in DOMAIN submission /\ p \in Payments
    BY <1>3, WorkKinds DEF MarkNeedsReview, TypeOK, SubmissionRow
  <2>2. DOMAIN submission' = DOMAIN submission /\ submission' \in [DOMAIN submission' -> SubmissionRow]
    BY <1>3, <2>1, SubmissionTyped DEF MarkNeedsReview, SubmissionStatuses
  <2>3. payment' \in [Payments -> PaymentRow]
    BY <1>3, <2>1, PaymentTyped DEF MarkNeedsReview, PaymentStatuses
  <2>4. booking' \in [Payments -> BookingRow]
    BY <1>3 DEF MarkNeedsReview, TypeOK
  <2> QED
    BY <1>3, <2>2, <2>3, <2>4, TypeFinish DEF MarkNeedsReview
<1>4. ASSUME NEW h \in Handlers, MarkFailed(h) \/ FinishSubmission(h) PROVE TypeOK'
  <2>1. handler[h].submission \in DOMAIN submission
    BY <1>4, WorkKinds DEF MarkFailed, FinishSubmission
  <2>2. PICK status \in SubmissionStatuses : submission' = [submission EXCEPT ![handler[h].submission].status = status]
    <3>1. CASE MarkFailed(h)
      BY <3>1 DEF MarkFailed, SubmissionStatuses
    <3>2. CASE FinishSubmission(h)
      <4>1. handler[h].result \in SubmissionStatuses
        BY <3>2, WorkKinds DEF FinishSubmission, Finishing, SubmissionStatuses
      <4> QED
        BY <3>2, <4>1 DEF FinishSubmission
    <3> QED
      BY <1>4, <3>1, <3>2
  <2>3. DOMAIN submission' = DOMAIN submission /\ submission' \in [DOMAIN submission' -> SubmissionRow]
    BY <2>1, <2>2, SubmissionTyped
  <2>4. Finish(h) /\ UNCHANGED <<now, booking, payment, audit>>
    BY <1>4 DEF MarkFailed, FinishSubmission
  <2> QED
    BY <2>3, <2>4, TypeFinish DEF TypeOK
<1>5. ASSUME NEW h \in Handlers, NEW p \in Payments, NEW s \in DOMAIN submission,
             NEW verdict \in {"approve", "reject"}, ReadReview(h, p, s, verdict)
      PROVE  TypeOK'
  <2> DEFINE work == [op |-> verdict, payment |-> p, submission |-> s]
  <2>1. work \in Reviewing /\ work.submission \in DOMAIN submission
    BY DEF Reviewing, TypeOK
  <2>2. Begin(h, work) /\ UNCHANGED <<now, booking, payment, submission, audit>>
    BY <1>5 DEF ReadReview
  <2> HIDE DEF work
  <2> QED
    BY <2>1, <2>2, TypeHandler DEF Busy
<1>6. ASSUME NEW h \in Handlers, CommitApprove(h) \/ CommitReject(h) PROVE TypeOK'
  <2>1. handler[h].submission \in DOMAIN submission /\ handler[h].payment \in Payments
    BY <1>6, WorkKinds DEF CommitApprove, CommitReject, Reviewing
  <2>2. PICK status \in SubmissionStatuses : submission' = [submission EXCEPT ![handler[h].submission].status = status]
    BY <1>6 DEF CommitApprove, CommitReject, SubmissionStatuses
  <2>3. PICK verdict \in PaymentStatuses : payment' = [payment EXCEPT ![handler[h].payment].status = verdict]
    BY <1>6 DEF CommitApprove, CommitReject, PaymentStatuses
  <2>4. DOMAIN submission' = DOMAIN submission /\ submission' \in [DOMAIN submission' -> SubmissionRow]
    BY <2>1, <2>2, SubmissionTyped
  <2>5. payment' \in [Payments -> PaymentRow]
    BY <2>1, <2>3, PaymentTyped
  <2>6. booking' \in [Payments -> BookingRow]
    BY <1>6, <2>1, ConfirmTyped DEF CommitApprove, CommitReject, TypeOK
  <2>7. Finish(h) /\ UNCHANGED <<now, audit>>
    BY <1>6 DEF CommitApprove, CommitReject
  <2> QED
    BY <2>4, <2>5, <2>6, <2>7, TypeFinish
<1>7. ASSUME NEW h \in Handlers, NEW p \in Payments, ReadExtend(h, p) PROVE TypeOK'
  <2> DEFINE work == [op |-> "extend", payment |-> p, until |-> ExtendedUntil]
  <2>1. ExtendedUntil \in 0 .. MaxHold
    BY DEF ExtendedUntil, Lower, TypeOK
  <2>2. work \in Extending /\ work \notin Claiming \cup Finishing \cup Reviewing
    BY <2>1 DEF Extending, Claiming, Finishing, Reviewing
  <2>3. Begin(h, work) /\ UNCHANGED <<now, booking, payment, submission, audit>>
    BY <1>7 DEF ReadExtend
  <2> HIDE DEF work
  <2> QED
    BY <2>2, <2>3, TypeHandler DEF Busy
<1>8. ASSUME NEW h \in Handlers, CommitExtend(h) PROVE TypeOK'
  <2> DEFINE p == handler[h].payment
             row == [booking[p] EXCEPT !.expiresAt = handler[h].until]
  <2>1. p \in Payments /\ handler[h].until \in 0 .. MaxHold /\ booking[p] \in BookingRow
    BY <1>8, WorkKinds DEF CommitExtend, Extending, TypeOK
  <2>2. row \in BookingRow
    BY <2>1 DEF BookingRow
  <2>3. booking' = [booking EXCEPT ![p] = row]
    BY <1>8 DEF CommitExtend
  <2> HIDE DEF row
  <2>4. booking' \in [Payments -> BookingRow]
    BY <2>1, <2>2, <2>3 DEF TypeOK
  <2>5. Finish(h) /\ UNCHANGED <<now, payment, submission, audit>>
    BY <1>8 DEF CommitExtend
  <2> QED
    BY <2>4, <2>5, TypeFinish DEF TypeOK
<1>9. ASSUME NEW h \in Handlers, NEW p \in Payments, NEW op \in {"confirm", "cancel"}, ReadChange(h, p, op)
      PROVE  TypeOK'
  <2> DEFINE work == [op |-> op, payment |-> p]
  <2>1. work \in Changing /\ work \notin Claiming \cup Finishing \cup Reviewing
    BY DEF Changing, Claiming, Finishing, Reviewing
  <2>2. Begin(h, work) /\ UNCHANGED <<now, booking, payment, submission, audit>>
    BY <1>9 DEF ReadChange
  <2> HIDE DEF work
  <2> QED
    BY <2>1, <2>2, TypeHandler DEF Busy
<1>10. ASSUME NEW h \in Handlers, CommitConfirm(h) PROVE TypeOK'
  <2>1. handler[h].payment \in Payments
    BY <1>10, WorkKinds DEF CommitConfirm, Changing
  <2>2. booking' \in [Payments -> BookingRow]
    BY <1>10, <2>1, ConfirmTyped DEF CommitConfirm
  <2> QED
    BY <1>10, <2>2, TypeFinish DEF CommitConfirm, TypeOK
<1>11. ASSUME NEW h \in Handlers, CommitCancel(h) PROVE TypeOK'
  <2> DEFINE p == handler[h].payment
             row == [booking[p] EXCEPT !.status = "CANCELLED"]
  <2>1. p \in Payments /\ booking[p] \in BookingRow
    BY <1>11, WorkKinds DEF CommitCancel, Changing, TypeOK
  <2>2. row \in BookingRow
    BY <2>1 DEF BookingRow, BookingStatuses
  <2>3. booking' = [booking EXCEPT ![p] = row]
    BY <1>11 DEF CommitCancel
  <2> HIDE DEF row
  <2>4. booking' \in [Payments -> BookingRow]
    BY <2>2, <2>3 DEF TypeOK
  <2>5. Finish(h) /\ UNCHANGED <<now, payment, submission, audit>>
    BY <1>11 DEF CommitCancel
  <2> QED
    BY <2>4, <2>5, TypeFinish DEF TypeOK
<1>12. ASSUME NEW h \in Handlers, Abandon(h) PROVE TypeOK'
  BY <1>12, TypeFinish DEF Abandon, TypeOK
<1>13. CASE ExpirePendingBookings
  <2>1. \A p \in Payments : booking[p] \in BookingRow
    BY DEF TypeOK
  <2>2. \A row \in BookingRow : [row EXCEPT !.status = "EXPIRED"] \in BookingRow
    BY DEF BookingRow, BookingStatuses
  <2>3. booking' \in [Payments -> BookingRow]
    BY <1>13, <2>1, <2>2 DEF ExpirePendingBookings
  <2> QED
    BY <1>13, <2>3 DEF ExpirePendingBookings, TypeOK
<1>14. CASE Tick
  BY <1>14 DEF Tick, TypeOK
<1>15. CASE UNCHANGED vars
  BY <1>15 DEF vars, TypeOK
<1>16. ASSUME NEW h \in Handlers, NEW s \in Submissions, CommitSubmit(h, s) PROVE TypeOK'
  BY <1>16, TypeSubmit
<1>17. ASSUME NEW h \in Handlers, Claim(h) PROVE TypeOK'
  BY <1>17, TypeClaim
<1>18. ASSUME NEW h \in Handlers, NEW o \in Operations, NEW agrees \in BOOLEAN, NEW at \in 0 .. now,
              ConfirmAccept(h, o, agrees, at) \/ ConfirmDoubt(h, o, agrees, at)
       PROVE  TypeOK'
  BY <1>18, TypeConfirm
<1>19. ASSUME NEW h \in Handlers, NEW o \in Operations, ConfirmAgain(h, o) PROVE TypeOK'
  <2>1. now \in 0 .. now
    BY DEF TypeOK
  <2> QED
    BY <1>19, <2>1, TRUE \in BOOLEAN, TypeConfirm
<1>20. ASSUME Next PROVE TypeOK'
  BY <1>20, <1>1, <1>2, <1>3, <1>4, <1>5, <1>6, <1>7, <1>8, <1>9, <1>10, <1>11, <1>12, <1>13, <1>14,
     <1>16, <1>17, <1>18, <1>19, ZenonT(60)
  DEF Next
<1> QED
  BY <1>15, <1>20

(***************************************************************************)
(* Rows and work in progress stay well formed; in particular, however      *)
(* often and however concurrently a customer comes back to the page, the   *)
(* hold never ends later than MaxHold after the booking was made.          *)
(***************************************************************************)
THEOREM Typed == SafetySpec => []TypeOK
  BY TypeInit, TypeNext, PTL DEF SafetySpec

-----------------------------------------------------------------------------
\* A step that touches the status of one booking, or of its payment, at most.
LEMMA MoneyStep ==
  ASSUME AcceptedNotLost, NEW p \in Payments,
         \A x \in Payments \ {p} : payment'[x].status = payment[x].status /\ booking'[x].status = booking[x].status,
         payment'[p].status = "RECEIPT_ACCEPTED" => booking'[p].status \in {"CONFIRMED", "CANCELLED"}
  PROVE  AcceptedNotLost'
BY DEF AcceptedNotLost

\* What is written on one booking leaves the others alone.
LEMMA BookingWritten ==
  ASSUME TypeOK, NEW p \in Payments, NEW row, booking' = [booking EXCEPT ![p] = row]
  PROVE  booking'[p] = row /\ \A x \in Payments \ {p} : booking'[x] = booking[x]
BY DEF TypeOK

LEMMA BookingConfirmed ==
  ASSUME TypeOK, NEW p \in Payments, ConfirmBooking(p)
  PROVE  booking'[p].status = "CONFIRMED" /\ \A x \in Payments \ {p} : booking'[x] = booking[x]
BY DEF TypeOK, ConfirmBooking

LEMMA AcceptedNotLostNext == TypeOK /\ AcceptedNotLost /\ [Next]_vars => AcceptedNotLost'
<1> SUFFICES ASSUME TypeOK, AcceptedNotLost, [Next]_vars PROVE AcceptedNotLost'
  OBVIOUS
<1>1. ASSUME UNCHANGED <<booking, payment>> PROVE AcceptedNotLost'
  BY <1>1 DEF AcceptedNotLost
<1>2. ASSUME NEW h \in Handlers, NEW s \in Submissions, CommitSubmit(h, s) PROVE AcceptedNotLost'
  <2> DEFINE p == handler[h].payment
  <2>1. p \in Payments
    BY <1>2, WorkKinds DEF CommitSubmit, Submitting
  <2>2. /\ payment'[p].status = "RECEIPT_PROCESSING"
        /\ \A x \in Payments \ {p} : payment'[x] = payment[x]
        /\ booking' = booking
    BY <1>2, <2>1 DEF CommitSubmit, TypeOK, PaymentRow
  <2> QED
    BY <2>1, <2>2, MoneyStep
<1>3. ASSUME NEW h \in Handlers, MarkNeedsReview(h) PROVE AcceptedNotLost'
  <2> DEFINE p == submission[handler[h].submission].payment
  <2>1. p \in Payments
    BY <1>3, WorkKinds DEF MarkNeedsReview, TypeOK, SubmissionRow
  <2>2. /\ payment'[p].status = "NEEDS_ATTENTION"
        /\ \A x \in Payments \ {p} : payment'[x] = payment[x]
        /\ booking' = booking
    BY <1>3, <2>1 DEF MarkNeedsReview, TypeOK, PaymentRow
  <2> QED
    BY <2>1, <2>2, MoneyStep
<1>4. ASSUME NEW h \in Handlers, NEW o \in Operations, NEW agrees \in BOOLEAN, NEW at \in 0 .. now,
             ConfirmAccept(h, o, agrees, at)
      PROVE  AcceptedNotLost'
  <2> DEFINE p == submission[handler[h].submission].payment
  <2>1. p \in Payments
    BY <1>4, WorkKinds DEF ConfirmAccept, TypeOK, SubmissionRow
  <2>2. \A x \in Payments \ {p} : payment'[x] = payment[x]
    BY <1>4, <2>1 DEF ConfirmAccept, TypeOK
  <2>3. booking'[p].status = "CONFIRMED" /\ \A x \in Payments \ {p} : booking'[x] = booking[x]
    BY <1>4, <2>1, BookingConfirmed DEF ConfirmAccept
  <2> QED
    BY <2>1, <2>2, <2>3, MoneyStep
<1>5. ASSUME NEW h \in Handlers, NEW o \in Operations, NEW agrees \in BOOLEAN, NEW at \in 0 .. now,
             ConfirmDoubt(h, o, agrees, at)
      PROVE  AcceptedNotLost'
  <2> DEFINE p == submission[handler[h].submission].payment
  <2>1. p \in Payments
    BY <1>5, WorkKinds DEF ConfirmDoubt, TypeOK, SubmissionRow
  <2>2. /\ payment'[p].status = "NEEDS_ATTENTION"
        /\ \A x \in Payments \ {p} : payment'[x] = payment[x]
        /\ booking' = booking
    BY <1>5, <2>1 DEF ConfirmDoubt, TypeOK, PaymentRow
  <2> QED
    BY <2>1, <2>2, MoneyStep
<1>6. ASSUME NEW h \in Handlers, CommitApprove(h) PROVE AcceptedNotLost'
  <2> DEFINE p == handler[h].payment
  <2>1. p \in Payments
    BY <1>6, WorkKinds DEF CommitApprove, Reviewing
  <2>2. \A x \in Payments \ {p} : payment'[x] = payment[x]
    BY <1>6, <2>1 DEF CommitApprove, TypeOK
  <2>3. booking'[p].status = "CONFIRMED" /\ \A x \in Payments \ {p} : booking'[x] = booking[x]
    BY <1>6, <2>1, BookingConfirmed DEF CommitApprove
  <2> QED
    BY <2>1, <2>2, <2>3, MoneyStep
<1>7. ASSUME NEW h \in Handlers, CommitReject(h) PROVE AcceptedNotLost'
  <2> DEFINE p == handler[h].payment
  <2>1. p \in Payments
    BY <1>7, WorkKinds DEF CommitReject, Reviewing
  <2>2. /\ payment'[p].status = "REJECTED"
        /\ \A x \in Payments \ {p} : payment'[x] = payment[x]
        /\ booking' = booking
    BY <1>7, <2>1 DEF CommitReject, TypeOK, PaymentRow
  <2> QED
    BY <2>1, <2>2, MoneyStep
<1>8. ASSUME NEW h \in Handlers, CommitExtend(h) PROVE AcceptedNotLost'
  <2> DEFINE p == handler[h].payment
             row == [booking[p] EXCEPT !.expiresAt = handler[h].until]
  <2>1. p \in Payments
    BY <1>8, WorkKinds DEF CommitExtend, Extending
  <2>2. row.status = booking[p].status
    BY <2>1 DEF TypeOK, BookingRow
  <2>3. booking' = [booking EXCEPT ![p] = row] /\ payment' = payment
    BY <1>8 DEF CommitExtend
  <2> HIDE DEF row
  <2> QED
    BY <2>1, <2>2, <2>3, BookingWritten DEF AcceptedNotLost
<1>9. ASSUME NEW h \in Handlers, CommitConfirm(h) PROVE AcceptedNotLost'
  <2> DEFINE p == handler[h].payment
  <2>1. p \in Payments
    BY <1>9, WorkKinds DEF CommitConfirm, Changing
  <2>2. booking'[p].status = "CONFIRMED" /\ \A x \in Payments \ {p} : booking'[x] = booking[x]
    BY <1>9, <2>1, BookingConfirmed DEF CommitConfirm
  <2>3. payment' = payment
    BY <1>9 DEF CommitConfirm
  <2> QED
    BY <2>1, <2>2, <2>3, MoneyStep
<1>10. ASSUME NEW h \in Handlers, CommitCancel(h) PROVE AcceptedNotLost'
  <2> DEFINE p == handler[h].payment
             row == [booking[p] EXCEPT !.status = "CANCELLED"]
  <2>1. p \in Payments
    BY <1>10, WorkKinds DEF CommitCancel, Changing
  <2>2. row.status = "CANCELLED"
    BY <2>1 DEF TypeOK, BookingRow
  <2>3. booking' = [booking EXCEPT ![p] = row] /\ payment' = payment
    BY <1>10 DEF CommitCancel
  <2> HIDE DEF row
  <2> QED
    BY <2>1, <2>2, <2>3, BookingWritten, MoneyStep, ZenonT(40)
<1>11. CASE ExpirePendingBookings
  <2>1. \A p \in Payments : p \in Overdue \/ booking'[p] = booking[p]
    BY <1>11 DEF ExpirePendingBookings
  <2>2. \A p \in Overdue : booking[p].status = "PENDING_PAYMENT"
    BY DEF Overdue, IsPending
  <2>3. payment' = payment
    BY <1>11 DEF ExpirePendingBookings
  <2> QED
    BY <2>1, <2>2, <2>3 DEF AcceptedNotLost
<1>12. ASSUME NEW h \in Handlers, NEW p \in Payments,
              \/ ReadSubmit(h, p) \/ ReadExtend(h, p)
              \/ \E op \in {"confirm", "cancel"} : ReadChange(h, p, op)
              \/ \E s \in DOMAIN submission, verdict \in {"approve", "reject"} : ReadReview(h, p, s, verdict)
       PROVE  UNCHANGED <<booking, payment>>
  BY <1>12 DEF ReadSubmit, ReadExtend, ReadChange, ReadReview
<1>13. ASSUME NEW h \in Handlers,
              \/ \E s \in DOMAIN submission : ListForRetry(h, s)
              \/ Claim(h) \/ MarkFailed(h) \/ FinishSubmission(h) \/ Abandon(h)
              \/ \E o \in Operations : ConfirmAgain(h, o)
       PROVE  UNCHANGED <<booking, payment>>
  BY <1>13 DEF ListForRetry, Claim, MarkFailed, FinishSubmission, Abandon, ConfirmAgain
<1>14. CASE Tick
  BY <1>14, <1>1 DEF Tick
<1>15. CASE UNCHANGED vars
  BY <1>15, <1>1 DEF vars
<1>16. CASE Next
  BY <1>16, <1>1, <1>2, <1>3, <1>4, <1>5, <1>6, <1>7, <1>8, <1>9, <1>10, <1>11, <1>12, <1>13, <1>14, ZenonT(60)
  DEF Next
<1> QED
  BY <1>15, <1>16

(***************************************************************************)
(* Accepted money always has a booking to show for it, whatever sweeps,    *)
(* reviews and late writes do.                                             *)
(***************************************************************************)
THEOREM AcceptedKept == SafetySpec => []AcceptedNotLost
<1>1. Init => AcceptedNotLost
  BY DEF Init, AcceptedNotLost
<1> QED
  BY <1>1, Typed, AcceptedNotLostNext, PTL DEF SafetySpec

-----------------------------------------------------------------------------
(***************************************************************************)
(* What makes it impossible to process a receipt twice: whoever processes  *)
(* it has claimed it, and a reviewer only ever holds receipts that nobody  *)
(* can claim any more.                                                     *)
(***************************************************************************)
Judging(h) == handler[h].op \in {"approve", "reject"}
Settled == {"NEEDS_REVIEW", "ACCEPTED", "REJECTED"}

ClaimInv ==
  /\ \A h \in Handlers : Processing(h) => submission[handler[h].submission].status = "PROCESSING"
  /\ \A h \in Handlers : Judging(h) => submission[handler[h].submission].status \in Settled
  /\ SingleProcessor

\* A step of h that leaves the receipts alone.
LEMMA ClaimKept ==
  ASSUME TypeOK, ClaimInv, NEW h \in Handlers, NEW work, Begin(h, work), submission' = submission,
         work.op \in {"recognise", "finish"} => Processing(h) /\ work.submission = handler[h].submission,
         work.op \in {"approve", "reject"} => submission[work.submission].status \in Settled
  PROVE  ClaimInv'
<1>1. \A g \in Handlers : handler'[g] = IF g = h THEN work ELSE handler[g]
  BY DEF TypeOK, Begin
<1> QED
  BY <1>1 DEF ClaimInv, Processing, Judging, SingleProcessor

\* The processor of a receipt, or its reviewer, settles it and is done.
LEMMA ClaimSettled ==
  ASSUME TypeOK, ClaimInv, NEW h \in Handlers, Finish(h), Processing(h) \/ Judging(h),
         \A t \in DOMAIN submission : t # handler[h].submission => submission'[t] = submission[t],
         \/ submission'[handler[h].submission].status \in Settled
         \/ Processing(h)
  PROVE  ClaimInv'
<1> DEFINE s == handler[h].submission
<1>1. \A g \in Handlers : handler'[g] = IF g = h THEN Idle ELSE handler[g]
  BY DEF TypeOK, Begin, Finish
<1>2. ~Processing(h)' /\ ~Judging(h)'
  BY <1>1 DEF Processing, Judging, Idle
<1>3. ASSUME NEW g \in Handlers, Processing(g) \/ Judging(g)
      PROVE  handler[g].submission \in DOMAIN submission
  BY <1>3, WorkKinds DEF Processing, Judging
<1>4. ASSUME NEW g \in Handlers \ {h}, Processing(g) PROVE handler[g].submission # s
  BY <1>4 DEF ClaimInv, SingleProcessor, Settled
<1>5. ASSUME NEW g \in Handlers, Processing(g)'
      PROVE  submission'[handler'[g].submission].status = "PROCESSING"
  <2>1. g # h /\ handler'[g] = handler[g] /\ Processing(g)
    BY <1>1, <1>2, <1>5 DEF Processing
  <2> QED
    BY <1>3, <1>4, <2>1 DEF ClaimInv
<1>6. ASSUME NEW g \in Handlers, Judging(g)'
      PROVE  submission'[handler'[g].submission].status \in Settled
  <2>1. g # h /\ handler'[g] = handler[g] /\ Judging(g)
    BY <1>1, <1>2, <1>6 DEF Judging
  <2>2. CASE handler[g].submission = s
    BY <2>1, <2>2 DEF ClaimInv, Settled
  <2>3. CASE handler[g].submission # s
    BY <1>3, <2>1, <2>3 DEF ClaimInv
  <2> QED
    BY <2>2, <2>3
<1>7. SingleProcessor'
  BY <1>1, <1>2 DEF ClaimInv, SingleProcessor, Processing
<1> QED
  BY <1>5, <1>6, <1>7 DEF ClaimInv

LEMMA ClaimNext == TypeOK /\ ClaimInv /\ [Next]_vars => ClaimInv'
<1> SUFFICES ASSUME TypeOK, ClaimInv, [Next]_vars PROVE ClaimInv'
  OBVIOUS
<1>1. ASSUME NEW h \in Handlers, NEW s \in Submissions, CommitSubmit(h, s) PROVE ClaimInv'
  <2> DEFINE work == [op |-> "claim", submission |-> s]
  <2>1. \A g \in Handlers : handler'[g] = IF g = h THEN work ELSE handler[g]
    BY <1>1 DEF CommitSubmit, Begin, TypeOK
  <2>2. \A t \in DOMAIN submission : submission'[t] = submission[t]
    BY <1>1 DEF CommitSubmit
  <2>3. \A g \in Handlers : Processing(g) \/ Judging(g) => handler[g].submission \in DOMAIN submission
    BY WorkKinds DEF Processing, Judging
  <2>4. \A g \in Handlers : Processing(g)' \/ Judging(g)' => handler'[g] = handler[g]
    BY <2>1 DEF Processing, Judging
  <2> QED
    BY <2>2, <2>3, <2>4 DEF ClaimInv, Processing, Judging, SingleProcessor
<1>2. ASSUME NEW h \in Handlers, Claim(h) PROVE ClaimInv'
  <2> DEFINE s == handler[h].submission
             work == [op |-> "recognise", submission |-> s]
  <2>1. s \in DOMAIN submission /\ submission[s] \in SubmissionRow
    BY <1>2, WorkKinds DEF Claim, TypeOK
  <2>2. \A g \in Handlers : handler'[g] = IF g = h THEN work ELSE handler[g]
    BY <1>2 DEF Claim, Begin, TypeOK
  <2>3. \A t \in DOMAIN submission \ {s} : submission'[t] = submission[t]
    BY <1>2 DEF Claim, TypeOK
  <2>4. submission'[s].status = "PROCESSING"
    BY <1>2, <2>1 DEF Claim, TypeOK, SubmissionRow
  <2>5. submission[s].status \notin Settled \cup {"PROCESSING"}
    BY <1>2 DEF Claim, Claimable, Settled
  <2>6. \A g \in Handlers : Processing(g) \/ Judging(g) =>
          handler[g].submission \in DOMAIN submission /\ handler[g].submission # s
    BY <2>5, WorkKinds DEF Processing, Judging, ClaimInv
  <2>7. \A g \in Handlers \ {h} : handler'[g] = handler[g]
    BY <2>2
  <2>8. handler'[h].op = "recognise" /\ handler'[h].submission = s
    BY <2>2
  <2> HIDE DEF s, work
  <2>9. \A g \in Handlers : Processing(g)' => submission'[handler'[g].submission].status = "PROCESSING"
    BY <2>3, <2>4, <2>6, <2>7, <2>8 DEF ClaimInv, Processing
  <2>10. \A g \in Handlers : Judging(g)' => submission'[handler'[g].submission].status \in Settled
    BY <2>3, <2>6, <2>7, <2>8 DEF ClaimInv, Judging
  <2>11. SingleProcessor'
    BY <2>6, <2>7, <2>8 DEF ClaimInv, SingleProcessor, Processing
  <2> QED
    BY <2>9, <2>10, <2>11 DEF ClaimInv
<1>3. ASSUME NEW h \in Handlers, MarkNeedsReview(h) \/ MarkFailed(h) \/ FinishSubmission(h) PROVE ClaimInv'
  <2>1. Finish(h) /\ Processing(h)
    BY <1>3 DEF MarkNeedsReview, MarkFailed, FinishSubmission, Processing
  <2>2. \A t \in DOMAIN submission : t # handler[h].submission => submission'[t] = submission[t]
    BY <1>3 DEF MarkNeedsReview, MarkFailed, FinishSubmission, TypeOK
  <2> QED
    BY <2>1, <2>2, ClaimSettled
<1>4. ASSUME NEW h \in Handlers, CommitApprove(h) \/ CommitReject(h) PROVE ClaimInv'
  <2> DEFINE s == handler[h].submission
  <2>1. Finish(h) /\ Judging(h)
    BY <1>4 DEF CommitApprove, CommitReject, Judging
  <2>2. s \in DOMAIN submission /\ submission[s] \in SubmissionRow
    BY <2>1, WorkKinds DEF Judging, TypeOK
  <2>3. \A t \in DOMAIN submission : t # s => submission'[t] = submission[t]
    BY <1>4 DEF CommitApprove, CommitReject, TypeOK
  <2>4. submission'[s].status \in Settled
    BY <1>4, <2>2 DEF CommitApprove, CommitReject, TypeOK, SubmissionRow, Settled
  <2> QED
    BY <2>1, <2>3, <2>4, ClaimSettled
<1>5. ASSUME NEW h \in Handlers, NEW p \in Payments, NEW s \in DOMAIN submission,
             NEW verdict \in {"approve", "reject"}, ReadReview(h, p, s, verdict)
      PROVE  ClaimInv'
  <2> DEFINE work == [op |-> verdict, payment |-> p, submission |-> s]
  <2>1. submission[work.submission].status \in Settled /\ work.op \notin {"recognise", "finish"}
    BY <1>5 DEF ReadReview, LatestInDoubt, InDoubt, Settled
  <2>2. Begin(h, work) /\ submission' = submission
    BY <1>5 DEF ReadReview
  <2> HIDE DEF work
  <2> QED
    BY <2>1, <2>2, ClaimKept
<1>6. ASSUME NEW h \in Handlers, NEW o \in Operations, NEW agrees \in BOOLEAN, NEW at \in 0 .. now,
             ConfirmAgain(h, o) \/ ConfirmAccept(h, o, agrees, at) \/ ConfirmDoubt(h, o, agrees, at)
      PROVE  ClaimInv'
  <2>1. PICK result \in {"ACCEPTED", "NEEDS_REVIEW"} :
          Begin(h, [op |-> "finish", submission |-> handler[h].submission, result |-> result])
    BY <1>6 DEF ConfirmAgain, ConfirmAccept, ConfirmDoubt
  <2> DEFINE work == [op |-> "finish", submission |-> handler[h].submission, result |-> result]
  <2>2. Processing(h) /\ submission' = submission
    BY <1>6 DEF ConfirmAgain, ConfirmAccept, ConfirmDoubt, Processing
  <2>3. work.op = "finish" /\ work.submission = handler[h].submission /\ Begin(h, work)
    BY <2>1
  <2> HIDE DEF work
  <2> QED
    BY <2>2, <2>3, ClaimKept
<1>7. ASSUME NEW h \in Handlers, NEW work, Begin(h, work), submission' = submission,
             work.op \in {"idle", "submit", "claim", "extend", "confirm", "cancel"}
      PROVE  ClaimInv'
  BY <1>7, ClaimKept
<1>8. ASSUME NEW h \in Handlers, NEW p \in Payments, ReadSubmit(h, p) \/ ReadExtend(h, p) PROVE ClaimInv'
  BY <1>7, <1>8 DEF ReadSubmit, ReadExtend
<1>9. ASSUME NEW h \in Handlers, NEW p \in Payments, NEW op \in {"confirm", "cancel"}, ReadChange(h, p, op)
      PROVE  ClaimInv'
  BY <1>7, <1>9 DEF ReadChange
<1>10. ASSUME NEW h \in Handlers, NEW s \in DOMAIN submission, ListForRetry(h, s) PROVE ClaimInv'
  BY <1>7, <1>10 DEF ListForRetry
<1>11. ASSUME NEW h \in Handlers, CommitExtend(h) \/ CommitConfirm(h) \/ CommitCancel(h) \/ Abandon(h)
       PROVE  ClaimInv'
  <2>1. Begin(h, Idle) /\ submission' = submission
    BY <1>11 DEF CommitExtend, CommitConfirm, CommitCancel, Abandon, Finish
  <2>2. Idle.op = "idle"
    BY DEF Idle
  <2> QED
    BY <1>7, <2>1, <2>2
<1>12. ASSUME UNCHANGED <<submission, handler>> PROVE ClaimInv'
  BY <1>12 DEF ClaimInv, SingleProcessor, Processing, Judging
<1>13. CASE ExpirePendingBookings \/ Tick \/ UNCHANGED vars
  BY <1>12, <1>13 DEF ExpirePendingBookings, Tick, vars
<1>14. ASSUME NEW h \in Handlers, NEW o \in Operations, ConfirmAgain(h, o) PROVE ClaimInv'
  <2>1. now \in 0 .. now
    BY DEF TypeOK
  <2> QED
    BY <1>6, <1>14, <2>1, TRUE \in BOOLEAN
<1>15. CASE Next
  BY <1>15, <1>1, <1>2, <1>3, <1>4, <1>5, <1>6, <1>8, <1>9, <1>10, <1>11, <1>13, <1>14, ZenonT(60)
  DEF Next
<1> QED
  BY <1>13, <1>15

(***************************************************************************)
(* However many requests and retry jobs run at once, no receipt has two    *)
(* processors, because the claim is one conditional update.                *)
(***************************************************************************)
THEOREM ProcessedOnce == SafetySpec => []SingleProcessor
<1>1. Init => ClaimInv
  BY DEF Init, ClaimInv, SingleProcessor, Processing, Judging, Idle
<1>2. ClaimInv => SingleProcessor
  BY DEF ClaimInv
<1> QED
  BY <1>1, <1>2, Typed, ClaimNext, PTL DEF SafetySpec

-----------------------------------------------------------------------------
(***************************************************************************)
(* What keeps a payment from waiting for nothing.  That some receipt is    *)
(* undecided is not enough: it may be in the hands of a handler that is    *)
(* about to write its verdict.  The receipt that a payment waits for is    *)
(* one without such a handler; and the receipt that waits for a person is  *)
(* one that nobody can take out of the queue before the person does.       *)
(***************************************************************************)
Working(s) ==
  /\ submission[s].status \in Undecided
  /\ \A h \in Handlers : handler[h].op = "finish" => handler[h].submission # s

WorkInv ==
  \A p \in Payments : payment[p].status = "RECEIPT_PROCESSING" => \E s \in SubmissionsOf(p) : Working(s)

Queued(s) ==
  \/ submission[s].status = "NEEDS_REVIEW"
  \/ /\ submission[s].status = "PROCESSING"
     /\ \A h \in Handlers : Processing(h) /\ handler[h].submission = s =>
          handler[h].op = "finish" /\ handler[h].result = "NEEDS_REVIEW"

QueueInv ==
  /\ \A h \in Handlers : Judging(h) => submission[handler[h].submission].payment = handler[h].payment
  /\ \A p \in Payments : payment[p].status = "NEEDS_ATTENTION" => \E s \in SubmissionsOf(p) : Queued(s)

LEMMA HandlerBegins ==
  ASSUME TypeOK, NEW h \in Handlers, NEW work, Begin(h, work)
  PROVE  handler'[h] = work /\ \A g \in Handlers \ {h} : handler'[g] = handler[g]
BY DEF TypeOK, Begin

LEMMA StatusWritten ==
  ASSUME TypeOK, NEW s \in DOMAIN submission, NEW status,
         submission' = [submission EXCEPT ![s].status = status]
  PROVE  /\ DOMAIN submission' = DOMAIN submission
         /\ submission'[s].status = status
         /\ \A t \in DOMAIN submission \ {s} : submission'[t] = submission[t]
         /\ \A t \in DOMAIN submission : submission'[t].payment = submission[t].payment
BY DEF TypeOK, SubmissionRow

LEMMA PaymentStatusWritten ==
  ASSUME TypeOK, NEW p \in Payments, NEW status, payment' = [payment EXCEPT ![p].status = status]
  PROVE  payment'[p].status = status /\ \A x \in Payments \ {p} : payment'[x] = payment[x]
BY DEF TypeOK, PaymentRow

\* Receipts stay with their payments in every step.
OwnersKept ==
  /\ DOMAIN submission \subseteq DOMAIN submission'
  /\ \A t \in DOMAIN submission : submission'[t].payment = submission[t].payment

\* A step after which the payments that waited for a receipt still have theirs.
LEMMA WorkKept ==
  ASSUME TypeOK, WorkInv, OwnersKept,
         \A p \in Payments : payment'[p].status = "RECEIPT_PROCESSING" =>
           /\ payment[p].status = "RECEIPT_PROCESSING"
           /\ \A s \in SubmissionsOf(p) : Working(s) => Working(s)'
  PROVE  WorkInv'
BY DEF WorkInv, OwnersKept, SubmissionsOf

LEMMA QueueKept ==
  ASSUME TypeOK, QueueInv, OwnersKept,
         \A h \in Handlers : Judging(h)' =>
           submission'[handler'[h].submission].payment = handler'[h].payment,
         \A p \in Payments : payment'[p].status = "NEEDS_ATTENTION" =>
           /\ payment[p].status = "NEEDS_ATTENTION"
           /\ \A s \in SubmissionsOf(p) : Queued(s) => Queued(s)'
  PROVE  QueueInv'
BY DEF QueueInv, OwnersKept, SubmissionsOf

\* A step of h that writes no row: it does not begin to finish a receipt, nor to judge a wrong one.
LEMMA QueuesUntouched ==
  ASSUME TypeOK, WorkInv, QueueInv, NEW h \in Handlers, NEW work, Begin(h, work),
         UNCHANGED <<payment, submission>>,
         work.op \notin {"recognise", "finish"},
         work.op \in {"approve", "reject"} => submission[work.submission].payment = work.payment
  PROVE  WorkInv' /\ QueueInv'
<1>1. handler'[h] = work /\ \A g \in Handlers \ {h} : handler'[g] = handler[g]
  BY HandlerBegins
<1>2. \A s \in DOMAIN submission : (Working(s) => Working(s)') /\ (Queued(s) => Queued(s)')
  BY <1>1 DEF Working, Queued, Processing
<1>3. \A g \in Handlers : Judging(g)' => submission'[handler'[g].submission].payment = handler'[g].payment
  BY <1>1 DEF QueueInv, Judging
<1>4. OwnersKept
  BY DEF OwnersKept
<1> QED
  BY <1>2, <1>3, <1>4, WorkKept, QueueKept DEF SubmissionsOf

LEMMA QueuesNext == TypeOK /\ ClaimInv /\ WorkInv /\ QueueInv /\ [Next]_vars => WorkInv' /\ QueueInv'
<1> SUFFICES ASSUME TypeOK, ClaimInv, WorkInv, QueueInv, [Next]_vars PROVE WorkInv' /\ QueueInv'
  OBVIOUS
<1> USE DEF Keep
<1>1. ASSUME NEW h \in Handlers, NEW s \in Submissions, CommitSubmit(h, s) PROVE WorkInv' /\ QueueInv'
  <2> PICK p : p = handler[h].payment
    OBVIOUS
  <2> DEFINE work == [op |-> "claim", submission |-> s]
  <2>1. p \in Payments /\ s \notin DOMAIN submission
    BY <1>1, WorkKinds DEF CommitSubmit, Submitting
  <2>2. /\ payment'[p].status = "RECEIPT_PROCESSING"
        /\ \A x \in Payments \ {p} : payment'[x] = payment[x]
    BY <1>1, <2>1 DEF CommitSubmit, TypeOK, PaymentRow
  <2>3. /\ DOMAIN submission' = DOMAIN submission \cup {s}
        /\ \A t \in DOMAIN submission : submission'[t] = submission[t]
        /\ submission'[s].payment = p /\ submission'[s].status = "UPLOADED"
    BY <1>1, <2>1 DEF CommitSubmit
  <2>4. Begin(h, work)
    BY <1>1 DEF CommitSubmit
  <2>5. handler'[h] = work /\ \A g \in Handlers \ {h} : handler'[g] = handler[g]
    BY <2>4, HandlerBegins
  <2>6. work.op = "claim"
    OBVIOUS
  <2> HIDE DEF work
  <2>7. \A g \in Handlers : Processing(g) \/ Judging(g) => handler[g].submission \in DOMAIN submission
    BY WorkKinds DEF Processing, Judging
  <2>8. \A t \in DOMAIN submission : (Working(t) => Working(t)') /\ (Queued(t) => Queued(t)')
    BY <2>1, <2>3, <2>5, <2>6 DEF Working, Queued, Processing
  <2>9. s \in SubmissionsOf(p)' /\ Working(s)'
    BY <2>1, <2>3, <2>5, <2>6, <2>7 DEF SubmissionsOf, Working, Undecided, Processing
  <2>10. \A x \in Payments : SubmissionsOf(x) \subseteq SubmissionsOf(x)'
    BY <2>3 DEF SubmissionsOf
  <2>11. WorkInv'
    BY <2>2, <2>8, <2>9, <2>10 DEF WorkInv, SubmissionsOf
  <2>12. \A g \in Handlers : Judging(g)' => submission'[handler'[g].submission].payment = handler'[g].payment
    BY <2>3, <2>5, <2>6, <2>7 DEF QueueInv, Judging
  <2>13. \A x \in Payments : payment'[x].status = "NEEDS_ATTENTION" => \E t \in SubmissionsOf(x)' : Queued(t)'
    BY <2>2, <2>8, <2>10 DEF QueueInv, SubmissionsOf
  <2> QED
    BY <2>11, <2>12, <2>13 DEF QueueInv
<1>2. ASSUME NEW h \in Handlers, Claim(h) PROVE WorkInv' /\ QueueInv'
  <2> PICK s : s = handler[h].submission
    OBVIOUS
  <2> DEFINE work == [op |-> "recognise", submission |-> s]
  <2>1. s \in DOMAIN submission /\ submission[s] \in SubmissionRow
    BY <1>2, WorkKinds DEF Claim, TypeOK
  <2>2. /\ DOMAIN submission' = DOMAIN submission
        /\ \A t \in DOMAIN submission \ {s} : submission'[t] = submission[t]
        /\ submission'[s].status = "PROCESSING" /\ submission'[s].payment = submission[s].payment
    BY <1>2, <2>1 DEF Claim, TypeOK, SubmissionRow
  <2>3. submission[s].status \in {"UPLOADED", "FAILED"} /\ payment' = payment /\ Begin(h, work)
    BY <1>2 DEF Claim, Claimable
  <2>4. handler'[h] = work /\ \A g \in Handlers \ {h} : handler'[g] = handler[g]
    BY <2>3, HandlerBegins
  <2>5. work.op = "recognise" /\ work.submission = s
    OBVIOUS
  <2> HIDE DEF work
  <2>6. \A t \in DOMAIN submission : (Working(t) => Working(t)') /\ (Queued(t) => Queued(t)')
    BY <2>2, <2>3, <2>4, <2>5 DEF Working, Queued, Processing, Undecided
  <2>7. \A g \in Handlers : Judging(g) => handler[g].submission \in DOMAIN submission
    BY WorkKinds DEF Judging
  <2>8. \A g \in Handlers : Judging(g)' => submission'[handler'[g].submission].payment = handler'[g].payment
    BY <2>2, <2>4, <2>5, <2>7 DEF QueueInv, Judging
  <2>9. OwnersKept
    BY <2>2 DEF OwnersKept
  <2> QED
    BY <2>3, <2>6, <2>8, <2>9, WorkKept, QueueKept DEF SubmissionsOf
<1>3. ASSUME NEW h \in Handlers, MarkNeedsReview(h) \/ MarkFailed(h) \/ FinishSubmission(h)
      PROVE  WorkInv' /\ QueueInv'
  <2> PICK s, p : s = handler[h].submission /\ p = submission[s].payment
    OBVIOUS
  <2>1. s \in DOMAIN submission /\ p \in Payments /\ Processing(h)
    BY <1>3, WorkKinds DEF MarkNeedsReview, MarkFailed, FinishSubmission, Processing, TypeOK, SubmissionRow
  <2>2. PICK status : /\ submission' = [submission EXCEPT ![s].status = status]
                      /\ \/ MarkNeedsReview(h) /\ status = "NEEDS_REVIEW"
                         \/ MarkFailed(h) /\ status = "FAILED"
                         \/ FinishSubmission(h) /\ status = handler[h].result
    <3>1. CASE MarkNeedsReview(h)
      BY <3>1 DEF MarkNeedsReview
    <3>2. CASE MarkFailed(h)
      BY <3>2 DEF MarkFailed
    <3>3. CASE FinishSubmission(h)
      BY <3>3 DEF FinishSubmission
    <3> QED
      BY <1>3, <3>1, <3>2, <3>3
  <2>3. /\ DOMAIN submission' = DOMAIN submission
        /\ submission'[s].status = status
        /\ \A t \in DOMAIN submission \ {s} : submission'[t] = submission[t]
        /\ \A t \in DOMAIN submission : submission'[t].payment = submission[t].payment
    BY <2>1, <2>2, StatusWritten
  <2>4. handler'[h] = Idle /\ \A g \in Handlers \ {h} : handler'[g] = handler[g]
    BY <1>3, HandlerBegins DEF MarkNeedsReview, MarkFailed, FinishSubmission, Finish
  <2>5. Idle.op = "idle"
    BY DEF Idle
  <2>6. submission[s].status = "PROCESSING" /\ \A g \in Handlers \ {h} : Processing(g) => handler[g].submission # s
    BY <2>1 DEF ClaimInv, SingleProcessor
  <2>7. OwnersKept
    BY <2>3 DEF OwnersKept
  <2>8. \A t \in DOMAIN submission \ {s} : (Working(t) => Working(t)') /\ (Queued(t) => Queued(t)')
    BY <2>3, <2>4, <2>5 DEF Working, Queued, Processing
  <2>9. \A g \in Handlers : Judging(g) => handler[g].submission \in DOMAIN submission
    BY WorkKinds DEF Judging
  <2>10. \A g \in Handlers : Judging(g)' => submission'[handler'[g].submission].payment = handler'[g].payment
    BY <2>3, <2>4, <2>5, <2>9 DEF QueueInv, Judging
  <2>11. CASE MarkNeedsReview(h) /\ status = "NEEDS_REVIEW"
    <3>1. payment'[p].status = "NEEDS_ATTENTION" /\ \A x \in Payments \ {p} : payment'[x] = payment[x]
      BY <2>1, <2>11, PaymentStatusWritten DEF MarkNeedsReview
    <3>2. \A x \in Payments : payment'[x].status = "RECEIPT_PROCESSING" =>
            x # p /\ payment[x].status = "RECEIPT_PROCESSING" /\ s \notin SubmissionsOf(x)
      BY <3>1 DEF SubmissionsOf
    <3>3. WorkInv'
      BY <2>7, <2>8, <3>2, WorkKept DEF SubmissionsOf
    <3>4. s \in SubmissionsOf(p)' /\ Queued(s)'
      BY <2>1, <2>2, <2>3, <2>11 DEF SubmissionsOf, Queued
    <3>5. \A x \in Payments \ {p} : \A t \in SubmissionsOf(x) : t \in DOMAIN submission \ {s} /\ t \in SubmissionsOf(x)'
      BY <2>3 DEF SubmissionsOf
    <3>6. \A x \in Payments : payment'[x].status = "NEEDS_ATTENTION" => \E t \in SubmissionsOf(x)' : Queued(t)'
      BY <2>8, <3>1, <3>4, <3>5 DEF QueueInv
    <3> QED
      BY <2>10, <3>3, <3>6 DEF QueueInv
  <2>12. CASE MarkFailed(h) /\ status = "FAILED"
    <3>1. payment' = payment /\ handler[h].op = "recognise"
      BY <2>12 DEF MarkFailed
    <3>2. Working(s) => Working(s)'
      BY <2>2, <2>3, <2>4, <2>5, <2>12 DEF Working, Undecided
    <3>3. ~Queued(s)
      BY <2>6, <3>1 DEF Queued, Processing
    <3> QED
      BY <2>7, <2>8, <2>10, <3>1, <3>2, <3>3, WorkKept, QueueKept DEF SubmissionsOf
  <2>13. CASE FinishSubmission(h) /\ status = handler[h].result
    <3>1. payment' = payment /\ handler[h].op = "finish"
      BY <2>13 DEF FinishSubmission
    <3>2. ~Working(s)
      BY <3>1 DEF Working
    <3>3. Queued(s) => Queued(s)'
      BY <2>2, <2>3, <2>6, <2>13, <3>1 DEF Queued, Processing
    <3> QED
      BY <2>7, <2>8, <2>10, <3>1, <3>2, <3>3, WorkKept, QueueKept DEF SubmissionsOf
  <2> QED
    BY <2>2, <2>11, <2>12, <2>13
<1>4. ASSUME NEW h \in Handlers, CommitApprove(h) \/ CommitReject(h) PROVE WorkInv' /\ QueueInv'
  <2> PICK s, p : s = handler[h].submission /\ p = handler[h].payment
    OBVIOUS
  <2>1. /\ Judging(h) /\ s \in DOMAIN submission /\ p \in Payments /\ submission[s].payment = p
        /\ submission[s].status \in Settled
    BY <1>4, WorkKinds DEF CommitApprove, CommitReject, Reviewing, Judging, QueueInv, ClaimInv
  <2>2. PICK status : submission' = [submission EXCEPT ![s].status = status]
    BY <1>4 DEF CommitApprove, CommitReject
  <2>3. PICK verdict \in {"RECEIPT_ACCEPTED", "REJECTED"} : payment' = [payment EXCEPT ![p].status = verdict]
    BY <1>4 DEF CommitApprove, CommitReject
  <2>4. payment'[p].status = verdict /\ \A x \in Payments \ {p} : payment'[x] = payment[x]
    BY <2>1, <2>3, PaymentStatusWritten
  <2>5. /\ DOMAIN submission' = DOMAIN submission
        /\ \A t \in DOMAIN submission \ {s} : submission'[t] = submission[t]
        /\ \A t \in DOMAIN submission : submission'[t].payment = submission[t].payment
    BY <2>1, <2>2, StatusWritten
  <2>6. handler'[h] = Idle /\ \A g \in Handlers \ {h} : handler'[g] = handler[g]
    BY <1>4, HandlerBegins DEF CommitApprove, CommitReject, Finish
  <2>7. Idle.op = "idle"
    BY DEF Idle
  <2>8. \A t \in DOMAIN submission \ {s} : (Working(t) => Working(t)') /\ (Queued(t) => Queued(t)')
    BY <2>5, <2>6, <2>7 DEF Working, Queued, Processing
  <2>9. \A g \in Handlers : Judging(g) => handler[g].submission \in DOMAIN submission
    BY WorkKinds DEF Judging
  <2>10. \A g \in Handlers : Judging(g)' => submission'[handler'[g].submission].payment = handler'[g].payment
    BY <2>5, <2>6, <2>7, <2>9 DEF QueueInv, Judging
  <2>11. OwnersKept
    BY <2>5 DEF OwnersKept
  <2>12. \A x \in Payments \ {p} : s \notin SubmissionsOf(x)
    BY <2>1 DEF SubmissionsOf
  <2> QED
    BY <2>4, <2>8, <2>10, <2>11, <2>12, WorkKept, QueueKept DEF SubmissionsOf
<1>5. ASSUME NEW h \in Handlers, NEW p \in Payments, NEW s \in DOMAIN submission,
             NEW verdict \in {"approve", "reject"}, ReadReview(h, p, s, verdict)
      PROVE  WorkInv' /\ QueueInv'
  <2> DEFINE work == [op |-> verdict, payment |-> p, submission |-> s]
  <2>1. submission[work.submission].payment = work.payment /\ work.op \notin {"recognise", "finish"}
    BY <1>5 DEF ReadReview, LatestInDoubt, InDoubt, SubmissionsOf
  <2>2. Begin(h, work) /\ UNCHANGED <<payment, submission>>
    BY <1>5 DEF ReadReview
  <2> HIDE DEF work
  <2> QED
    BY <2>1, <2>2, QueuesUntouched
<1>6. ASSUME NEW h \in Handlers, NEW o \in Operations, NEW agrees \in BOOLEAN, NEW at \in 0 .. now,
             ConfirmAgain(h, o) \/ ConfirmAccept(h, o, agrees, at) \/ ConfirmDoubt(h, o, agrees, at)
      PROVE  WorkInv' /\ QueueInv'
  <2> PICK s, p : s = handler[h].submission /\ p = submission[s].payment
    OBVIOUS
  <2>1. /\ s \in DOMAIN submission /\ p \in Payments
        /\ Processing(h) /\ handler[h].op = "recognise" /\ submission[s].status = "PROCESSING"
    BY <1>6, WorkKinds DEF ConfirmAgain, ConfirmAccept, ConfirmDoubt, Processing, TypeOK, SubmissionRow, ClaimInv
  <2>2. PICK result : /\ Begin(h, [op |-> "finish", submission |-> s, result |-> result])
                      /\ ConfirmDoubt(h, o, agrees, at) => result = "NEEDS_REVIEW"
    <3>1. CASE ConfirmDoubt(h, o, agrees, at)
      BY <3>1 DEF ConfirmDoubt
    <3>2. CASE ConfirmAgain(h, o) \/ ConfirmAccept(h, o, agrees, at)
      BY <3>2 DEF ConfirmAgain, ConfirmAccept, ConfirmDoubt
    <3> QED
      BY <1>6, <3>1, <3>2
  <2> DEFINE work == [op |-> "finish", submission |-> s, result |-> result]
  <2>3. handler'[h] = work /\ \A g \in Handlers \ {h} : handler'[g] = handler[g]
    BY <2>2, HandlerBegins
  <2>4. work.op = "finish" /\ work.submission = s /\ work.result = result
    OBVIOUS
  <2>5. submission' = submission
    BY <1>6 DEF ConfirmAgain, ConfirmAccept, ConfirmDoubt
  <2>6. /\ \A x \in Payments \ {p} : payment'[x].status = payment[x].status
        /\ payment'[p].status \in {"RECEIPT_ACCEPTED", "NEEDS_ATTENTION"}
        /\ payment'[p].status = "NEEDS_ATTENTION" => result = "NEEDS_REVIEW"
    <3>1. CASE ConfirmAgain(h, o)
      BY <3>1 DEF ConfirmAgain, AlreadyAccepted
    <3>2. CASE ConfirmAccept(h, o, agrees, at)
      BY <2>1, <3>2 DEF ConfirmAccept, TypeOK, PaymentRow
    <3>3. CASE ConfirmDoubt(h, o, agrees, at)
      BY <2>1, <2>2, <3>3 DEF ConfirmDoubt, TypeOK, PaymentRow
    <3> QED
      BY <1>6, <3>1, <3>2, <3>3
  <2>7. \A g \in Handlers \ {h} : Processing(g) => handler[g].submission # s
    BY <2>1 DEF ClaimInv, SingleProcessor
  <2>8. OwnersKept
    BY <2>5 DEF OwnersKept
  <2> HIDE DEF work
  <2>9. \A t \in DOMAIN submission \ {s} : (Working(t) => Working(t)') /\ (Queued(t) => Queued(t)')
    BY <2>3, <2>4, <2>5 DEF Working, Queued, Processing
  <2>10. \A g \in Handlers : Judging(g)' => submission'[handler'[g].submission].payment = handler'[g].payment
    BY <2>3, <2>4, <2>5 DEF QueueInv, Judging
  <2>11. \A x \in Payments \ {p} : s \notin SubmissionsOf(x)
    BY DEF SubmissionsOf
  <2>12. WorkInv'
    BY <2>6, <2>8, <2>9, <2>11, WorkKept DEF SubmissionsOf
  <2>13. payment'[p].status = "NEEDS_ATTENTION" => s \in SubmissionsOf(p)' /\ Queued(s)'
    BY <2>1, <2>3, <2>4, <2>5, <2>6, <2>7 DEF SubmissionsOf, Queued, Processing
  <2>14. \A x \in Payments : payment'[x].status = "NEEDS_ATTENTION" => \E t \in SubmissionsOf(x)' : Queued(t)'
    BY <2>5, <2>6, <2>9, <2>11, <2>13 DEF QueueInv, SubmissionsOf
  <2> QED
    BY <2>10, <2>12, <2>14 DEF QueueInv
<1>7. ASSUME NEW h \in Handlers, NEW work, Begin(h, work), UNCHANGED <<payment, submission>>,
             work.op \in {"idle", "submit", "claim", "extend", "confirm", "cancel"}
      PROVE  WorkInv' /\ QueueInv'
  BY <1>7, QueuesUntouched
<1>8. ASSUME NEW h \in Handlers, NEW p \in Payments, ReadSubmit(h, p) \/ ReadExtend(h, p)
      PROVE  WorkInv' /\ QueueInv'
  BY <1>7, <1>8 DEF ReadSubmit, ReadExtend
<1>9. ASSUME NEW h \in Handlers, NEW p \in Payments, NEW op \in {"confirm", "cancel"}, ReadChange(h, p, op)
      PROVE  WorkInv' /\ QueueInv'
  BY <1>7, <1>9 DEF ReadChange
<1>10. ASSUME NEW h \in Handlers, NEW s \in DOMAIN submission, ListForRetry(h, s) PROVE WorkInv' /\ QueueInv'
  BY <1>7, <1>10 DEF ListForRetry
<1>11. ASSUME NEW h \in Handlers, CommitExtend(h) \/ CommitConfirm(h) \/ CommitCancel(h) \/ Abandon(h)
       PROVE  WorkInv' /\ QueueInv'
  <2>1. Begin(h, Idle) /\ UNCHANGED <<payment, submission>>
    BY <1>11 DEF CommitExtend, CommitConfirm, CommitCancel, Abandon, Finish
  <2>2. Idle.op = "idle"
    BY DEF Idle
  <2> QED
    BY <1>7, <2>1, <2>2
<1>12. ASSUME UNCHANGED <<payment, submission, handler>> PROVE WorkInv' /\ QueueInv'
  BY <1>12 DEF WorkInv, QueueInv, SubmissionsOf, Working, Queued, Processing, Judging
<1>13. CASE ExpirePendingBookings \/ Tick \/ UNCHANGED vars
  BY <1>12, <1>13 DEF ExpirePendingBookings, Tick, vars
<1>14. ASSUME NEW h \in Handlers, NEW o \in Operations, ConfirmAgain(h, o) PROVE WorkInv' /\ QueueInv'
  <2>1. now \in 0 .. now
    BY DEF TypeOK
  <2> QED
    BY <1>6, <1>14, <2>1, TRUE \in BOOLEAN
<1>15. CASE Next
  BY <1>15, <1>1, <1>2, <1>3, <1>4, <1>5, <1>6, <1>8, <1>9, <1>10, <1>11, <1>13, <1>14, ZenonT(60)
  DEF Next
<1> QED
  BY <1>13, <1>15

LEMMA QueuesHold == SafetySpec => [](WorkInv /\ QueueInv)
<1>1. Init => WorkInv /\ QueueInv
  BY DEF Init, WorkInv, QueueInv, Judging, Idle
<1>2. Init => ClaimInv
  BY DEF Init, ClaimInv, SingleProcessor, Processing, Judging, Idle
<1> QED
  BY <1>1, <1>2, Typed, ClaimNext, QueuesNext, PTL DEF SafetySpec

(***************************************************************************)
(* However many receipts of a payment are sent, read, retried and          *)
(* reviewed, and wherever their handlers die, a payment that says it is    *)
(* being processed has a receipt that somebody still has to decide, and a  *)
(* payment that needs a person's attention has a receipt in the review     *)
(* queue, or one whose handler is about to put it there, or died.          *)
(***************************************************************************)
THEOREM NoneForgotten == SafetySpec => []NoReceiptForgotten
<1>1. WorkInv => ProcessingHasWork
  BY DEF WorkInv, ProcessingHasWork, Working
<1>2. QueueInv => AttentionIsQueued
  BY DEF QueueInv, AttentionIsQueued, Queued
<1> QED
  BY <1>1, <1>2, QueuesHold, PTL DEF NoReceiptForgotten
=============================================================================
