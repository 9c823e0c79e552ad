----------------------------- MODULE Services_proofs -----------------------------
(***************************************************************************)
(* The services side by side (MCServices).  A behaviour follows one of them *)
(* and a step of a service leaves the rows of the others alone; so every    *)
(* service, seen by itself, behaves as its own specification says, and      *)
(* what holds of each holds of all of them together.  The page that a       *)
(* receipt is sent from has its types here: no other proof is about it.     *)
(***************************************************************************)
EXTENDS MCServices, Unattended_proofs, Salon_proofs, Pages_proofs

---------------------------------------------------------------------------
PollerRows == [pc : {"off", "armed", "sent", "read"}, own : BOOLEAN, view : Bill]
ReturnRows == [pc : {"idle", "sent", "read"}, view : Bill]

(* A row of a poller or of a return stays one when a step rewrites it.      *)
LEMMA PollersStay ==
  ASSUME NEW pollers \in [Pollers -> PollerRows], NEW k \in Pollers, NEW row \in PollerRows
  PROVE  [pollers EXCEPT ![k] = row] \in [Pollers -> PollerRows]
OBVIOUS

LEMMA ReturnsStay ==
  ASSUME NEW returns \in [Returns -> ReturnRows], NEW c \in Returns, NEW row \in ReturnRows
  PROVE  [returns EXCEPT ![c] = row] \in [Returns -> ReturnRows]
OBVIOUS

LEMMA RestingIsABill == Resting \in Bill /\ Silent \in PollerRows
BY DEF Resting, Silent, Bill, PollerRows

LEMMA EffectTyped ==
  ASSUME NEW view, NEW pollers \in [Pollers -> PollerRows], Effect(view, pollers)
  PROVE  poller' \in [Pollers -> PollerRows]
<1>1. ASSUME Reviewing(page) /\ ~Reviewing(view) PROVE poller' \in [Pollers -> PollerRows]
  <2> DEFINE rested(k) == IF pollers[k].own
                         THEN [pollers[k] EXCEPT !.own = FALSE,
                                                 !.pc = IF @ = "armed" THEN "off" ELSE @]
                         ELSE pollers[k]
  <2>1. poller' = [k \in Pollers |-> rested(k)]
    BY <1>1 DEF Effect
  <2>2. ASSUME NEW k \in Pollers PROVE rested(k) \in PollerRows
    <3>1. pollers[k] \in PollerRows
      OBVIOUS
    <3> QED
      BY <3>1 DEF PollerRows
  <2> HIDE DEF rested
  <2> QED
    BY <2>1, <2>2
<1>2. ASSUME ~Reviewing(page) /\ Reviewing(view) PROVE poller' \in [Pollers -> PollerRows]
  <2>1. PICK k \in Pollers : poller' = [pollers EXCEPT ![k].pc = "armed", ![k].own = TRUE]
    BY <1>2 DEF Effect
  <2> DEFINE row == [pollers[k] EXCEPT !.pc = "armed", !.own = TRUE]
  <2>2. row \in PollerRows
    <3>1. pollers[k] \in PollerRows
      OBVIOUS
    <3> QED
      BY <3>1 DEF PollerRows
  <2>3. poller' = [pollers EXCEPT ![k] = row]
    BY <2>1
  <2> HIDE DEF row
  <2> QED
    BY <2>2, <2>3, PollersStay
<1> QED
  BY <1>1, <1>2 DEF Effect

(* The rows of the payment, the page's copy of them, and the polls, returns *)
(* and uploads of payment-page.tsx keep their types.                        *)
THEOREM PaymentPageTyped == PaymentPageSpec => []PaymentPageTypeOK
<1>1. PaymentPageInit => PaymentPageTypeOK
  <2> SUFFICES ASSUME PaymentPageInit PROVE PaymentPageTypeOK
    OBVIOUS
  <2>1. [pc |-> "idle", view |-> Resting] \in ReturnRows
    BY RestingIsABill DEF ReturnRows
  <2>2. poller \in [Pollers -> PollerRows] /\ return \in [Returns -> ReturnRows]
    BY <2>1, RestingIsABill DEF PaymentPageInit
  <2>3. bill \in Bill /\ page \in Bill
    BY DEF PaymentPageInit, Bill
  <2> QED
    BY <2>2, <2>3 DEF PaymentPageInit, PaymentPageTypeOK, PollerRows, ReturnRows
<1>2. ASSUME PaymentPageTypeOK, [PaymentPageNext]_paymentPageVars PROVE PaymentPageTypeOK'
  <2>1. /\ bill \in Bill /\ page \in Bill /\ hidden \in BOOLEAN /\ stopped \in BOOLEAN
        /\ poller \in [Pollers -> PollerRows] /\ return \in [Returns -> ReturnRows]
        /\ upload \in {"idle", "sent", "stored"} \cup Answers
    BY <1>2 DEF PaymentPageTypeOK, PollerRows, ReturnRows
  <2>2. ASSUME bill' \in Bill, page' \in Bill, hidden' \in BOOLEAN, stopped' \in BOOLEAN,
               poller' \in [Pollers -> PollerRows], return' \in [Returns -> ReturnRows],
               upload' \in {"idle", "sent", "stored"} \cup Answers
        PROVE  PaymentPageTypeOK'
    BY <2>2 DEF PaymentPageTypeOK, PollerRows, ReturnRows, Bill, Answers
  <2>3. ASSUME NEW k \in Pollers,
               PollerFires(k) \/ PollServed(k) \/ PollRefused(k) \/ PollThrows(k)
        PROVE  PaymentPageTypeOK'
    <3>1. poller[k] \in PollerRows
      BY <2>1
    <3>2. PICK row \in PollerRows : poller' = [poller EXCEPT ![k] = row]
      <4>1. CASE PollerFires(k)
        <5> DEFINE row == [poller[k] EXCEPT !.pc = NextBeat]
        <5>1. row \in PollerRows
          BY <3>1 DEF PollerRows, NextBeat
        <5>2. poller' = [poller EXCEPT ![k] = row]
          BY <4>1 DEF PollerFires
        <5> QED
          BY <5>1, <5>2
      <4>2. CASE PollServed(k)
        <5> DEFINE row == [poller[k] EXCEPT !.pc = "read", !.view = bill]
        <5>1. row \in PollerRows
          BY <2>1, <3>1 DEF PollerRows
        <5>2. poller' = [poller EXCEPT ![k] = row]
          BY <4>2 DEF PollServed
        <5> QED
          BY <5>1, <5>2
      <4>3. CASE PollRefused(k)
        <5> DEFINE row == [poller[k] EXCEPT !.pc = "armed"]
        <5>1. row \in PollerRows
          BY <3>1 DEF PollerRows
        <5>2. poller' = [poller EXCEPT ![k] = row]
          BY <4>3 DEF PollRefused
        <5> QED
          BY <5>1, <5>2
      <4>4. CASE PollThrows(k)
        BY <4>4, RestingIsABill DEF PollThrows
      <4> QED
        BY <2>3, <4>1, <4>2, <4>3, <4>4
    <3>3. poller' \in [Pollers -> PollerRows]
      BY <2>1, <3>2, PollersStay
    <3>4. UNCHANGED <<bill, page, hidden, return, upload>> /\ stopped' \in BOOLEAN
      BY <2>1, <2>3 DEF PollerFires, PollServed, PollRefused, PollThrows
    <3> QED
      BY <2>1, <2>2, <3>3, <3>4
  <2>4. ASSUME NEW k \in Pollers, PollArrives(k) PROVE PaymentPageTypeOK'
    <3>1. poller[k] \in PollerRows
      BY <2>1
    <3> DEFINE row == [poller[k] EXCEPT !.pc = "armed", !.view = Resting]
               rest == [poller EXCEPT ![k] = row]
    <3>2. row \in PollerRows /\ poller[k].view \in Bill
      BY <3>1, RestingIsABill DEF PollerRows
    <3>3. [poller EXCEPT ![k].pc = "armed", ![k].view = Resting] = rest
      OBVIOUS
    <3>4. Shows(poller[k].view, rest) /\ UNCHANGED <<bill, hidden, return, upload, stopped>>
      BY <2>4, <3>3 DEF PollArrives
    <3>5. rest \in [Pollers -> PollerRows]
      BY <2>1, <3>2, PollersStay
    <3> HIDE DEF row, rest
    <3> QED
      BY <2>1, <2>2, <3>2, <3>4, <3>5, EffectTyped DEF Shows
  <2>5. ASSUME NEW c \in Returns, ExtendServed(c) \/ ExtendFails(c) PROVE PaymentPageTypeOK'
    <3>1. PICK row \in ReturnRows : return' = [return EXCEPT ![c] = row]
      <4>1. [pc |-> "idle", view |-> Resting] \in ReturnRows /\ [pc |-> "read", view |-> bill] \in ReturnRows
        BY <2>1, RestingIsABill DEF ReturnRows
      <4> QED
        BY <2>5, <4>1 DEF ExtendServed, ExtendFails
    <3>2. UNCHANGED <<bill, page, hidden, poller, upload, stopped>>
      BY <2>5 DEF ExtendServed, ExtendFails
    <3> QED
      BY <2>1, <2>2, <3>1, <3>2, ReturnsStay
  <2>6. ASSUME NEW c \in Returns, ExtendArrives(c) PROVE PaymentPageTypeOK'
    <3>1. return[c] \in ReturnRows /\ [pc |-> "idle", view |-> Resting] \in ReturnRows
      BY <2>1, RestingIsABill DEF ReturnRows
    <3>2. return[c].view \in Bill
      BY <3>1 DEF ReturnRows
    <3>3. return' \in [Returns -> ReturnRows]
      BY <2>1, <2>6, <3>1, ReturnsStay DEF ExtendArrives
    <3> QED
      BY <2>1, <2>2, <2>6, <3>2, <3>3, EffectTyped DEF ExtendArrives, Shows
  <2>7. ASSUME ComeBack PROVE PaymentPageTypeOK'
    <3>1. return' \in [Returns -> ReturnRows]
      <4>1. ASSUME NEW c \in Returns, return' = [return EXCEPT ![c].pc = "sent"]
            PROVE  return' \in [Returns -> ReturnRows]
        <5> DEFINE row == [return[c] EXCEPT !.pc = "sent"]
        <5>1. return[c] \in ReturnRows
          BY <2>1
        <5>2. row \in ReturnRows
          BY <5>1 DEF ReturnRows
        <5>3. return' = [return EXCEPT ![c] = row]
          BY <4>1
        <5> HIDE DEF row
        <5> QED
          BY <2>1, <5>2, <5>3, ReturnsStay
      <4> QED
        BY <2>1, <2>7, <4>1 DEF ComeBack
    <3> QED
      BY <2>1, <2>2, <2>7, <3>1 DEF ComeBack
  <2>8. ASSUME UploadAnswered PROVE PaymentPageTypeOK'
    <3> DEFINE seen == CASE upload = "ACCEPTED" -> "RECEIPT_ACCEPTED"
                         [] upload = "NEEDS_REVIEW" -> "NEEDS_ATTENTION"
                         [] OTHER -> "RECEIPT_PROCESSING"
               view == [page EXCEPT !.paid = seen]
    <3>1. seen \in {"RECEIPT_ACCEPTED", "NEEDS_ATTENTION", "RECEIPT_PROCESSING"}
      OBVIOUS
    <3>2. upload' = "idle" /\ UNCHANGED <<bill, hidden, return, stopped>>
          /\ (UNCHANGED <<page, poller>> \/ Shows(view, poller))
      BY <2>8 DEF UploadAnswered
    <3> HIDE DEF seen
    <3>3. view \in Bill
      BY <2>1, <3>1 DEF Bill
    <3> HIDE DEF view
    <3> QED
      BY <2>1, <2>2, <3>2, <3>3, EffectTyped DEF Shows
  <2>9. ASSUME Leave \/ Upload \/ UploadFails PROVE PaymentPageTypeOK'
    BY <2>1, <2>2, <2>9 DEF Leave, Upload, UploadFails
  <2>10. Accepted \in Bill /\ Sent \in Bill /\ Read \subseteq Bill
    BY <2>1 DEF Accepted, Sent, Read, Bill
  <2>11. ASSUME ReceiptStored \/ ReceiptRead \/ ReceiptByChat \/ ReceiptReadLater
         PROVE  PaymentPageTypeOK'
    <3>1. /\ bill' \in Bill /\ upload' \in {"idle", "sent", "stored"} \cup Answers
          /\ UNCHANGED <<page, hidden, poller, return, stopped>>
      BY <2>1, <2>10, <2>11
         DEF ReceiptStored, ReceiptRead, ReceiptByChat, ReceiptReadLater, PageKept, Answers
    <3> QED
      BY <2>1, <2>2, <3>1
  <2>12. ASSUME Review \/ BookingCancelled \/ HoldEnded PROVE PaymentPageTypeOK'
    <3>1. bill' \in Bill /\ UNCHANGED <<page, hidden, poller, return, stopped, upload>>
      BY <2>1, <2>10, <2>12 DEF Review, BookingCancelled, HoldEnded, PageKept, Bill
    <3> QED
      BY <2>1, <2>2, <3>1
  <2>13. ASSUME UNCHANGED paymentPageVars PROVE PaymentPageTypeOK'
    BY <2>1, <2>2, <2>13 DEF paymentPageVars
  <2> QED
    BY <1>2, <2>3, <2>4, <2>5, <2>6, <2>7, <2>8, <2>9, <2>11, <2>12, <2>13 DEF PaymentPageNext
<1> QED
  BY <1>1, <1>2, PTL DEF PaymentPageSpec

---------------------------------------------------------------------------
(***************************************************************************)
(* Side by side.  Whoever knows the other services too sees no more of a    *)
(* service than its own steps.                                              *)
(***************************************************************************)
LEMMA EachStepsAlone ==
  ASSUME [ServicesNext]_servicesVars
  PROVE
      /\ [BusinessOutboxNext]_outboxVars
      /\ [SubscriptionNext]_subscriptionVars
      /\ [SchedulerNext]_schedulerVars
      /\ [PhoneNext]_phoneVars
      /\ [BusinessBotNext]_botVars
      /\ [InboundNext]_inboundVars
      /\ [CustomerBotNext]_chatVars
      /\ [BookingFormNext]_formVars
      /\ [PaymentPageNext]_paymentPageVars
      /\ [TelegramSetupNext]_setupVars
      /\ [FreedSlotsNext]_freedVars
      /\ [DayPictureNext]_sheet
      /\ [CalendarBoardNext]_boardVars
      /\ [FirstServiceNext]_firstServiceVars
      /\ [CatalogueNext]_catalogueVars
      /\ [ReviewDeskNext]_deskVars
      /\ [CabinetNext]_cabinetVars
      /\ [PlatformChatNext]_platformVars
      /\ [VisitDeskNext]_deskViewVars
      /\ [PromoCodesNext]_promoVars
      /\ [LoginThrottleNext]_loginVars
      /\ [PasswordRecoveryNext]_recoveryVars
<1>1. CASE UNCHANGED servicesVars
  BY <1>1 DEF servicesVars
<1>2. CASE ServicesNext
  <2>1. CASE NoticesStep
    BY <2>1 DEF NoticesStep
  <2>2. CASE PlansStep
    BY <2>2 DEF PlansStep
  <2>3. CASE JobsStep
    BY <2>3 DEF JobsStep
  <2>4. CASE CodesStep
    BY <2>4 DEF CodesStep
  <2>5. CASE StaffBotStep
    BY <2>5 DEF StaffBotStep
  <2>6. CASE UpdatesStep
    BY <2>6 DEF UpdatesStep
  <2>7. CASE CustomerBotStep
    BY <2>7 DEF CustomerBotStep
  <2>8. CASE FormStep
    BY <2>8 DEF FormStep
  <2>9. CASE PaymentPageStep
    BY <2>9 DEF PaymentPageStep
  <2>10. CASE BotSetupStep
    BY <2>10 DEF BotSetupStep
  <2>11. CASE FreedSlotsStep
    BY <2>11 DEF FreedSlotsStep
  <2>12. CASE DayPictureStep
    BY <2>12 DEF DayPictureStep
  <2>13. CASE CalendarBoardStep
    BY <2>13 DEF CalendarBoardStep
  <2>14. CASE FirstServiceStep
    BY <2>14 DEF FirstServiceStep
  <2>15. CASE CatalogueStep
    BY <2>15 DEF CatalogueStep
  <2>16. CASE ReviewDeskStep
    BY <2>16 DEF ReviewDeskStep
  <2>17. CASE CabinetStep
    BY <2>17 DEF CabinetStep
  <2>18. CASE PlatformChatStep
    BY <2>18 DEF PlatformChatStep
  <2>19. CASE VisitDeskStep
    BY <2>19 DEF VisitDeskStep
  <2>20. CASE PromoCodesStep
    BY <2>20 DEF PromoCodesStep
  <2>21. CASE SignInStep
    BY <2>21 DEF SignInStep
  <2>22. CASE RecoveryStep
    BY <2>22 DEF RecoveryStep
  <2> QED
    BY <1>2,
       <2>1, <2>2, <2>3, <2>4, <2>5, <2>6, <2>7, <2>8, <2>9, <2>10, <2>11, <2>12, <2>13, <2>14,
       <2>15, <2>16, <2>17, <2>18, <2>19, <2>20, <2>21, <2>22
       DEF ServicesNext
<1> QED
  BY <1>1, <1>2

(* The composition refines each of the services that it is composed of: a   *)
(* behaviour of all of them is a behaviour of every one, and what TLC found *)
(* of each in their common run is about the service itself.                 *)
THEOREM ServicesRefine ==
    ServicesSpec =>
      /\ BusinessOutboxSpec
      /\ SubscriptionSpec
      /\ SchedulerSpec
      /\ PhoneSpec
      /\ BusinessBotSpec
      /\ InboundSpec
      /\ CustomerBotSpec
      /\ BookingFormSpec
      /\ PaymentPageSpec
      /\ TelegramSetupSpec
      /\ FreedSlotsSpec
      /\ DayPictureSpec
      /\ CalendarBoardSpec
      /\ FirstServiceSpec
      /\ CatalogueSpec
      /\ ReviewDeskSpec
      /\ CabinetSpec
      /\ PlatformChatSpec
      /\ VisitDeskSpec
      /\ PromoCodesSpec
      /\ LoginThrottleSpec
      /\ PasswordRecoverySpec
<1>1. ServicesInit =>
        /\ BusinessOutboxInit
        /\ SubscriptionInit
        /\ SchedulerInit
        /\ PhoneInit
        /\ BusinessBotInit
        /\ InboundInit
        /\ CustomerBotInit
        /\ BookingFormInit
        /\ PaymentPageInit
        /\ TelegramSetupInit
        /\ FreedSlotsInit
        /\ DayPictureInit
        /\ CalendarBoardInit
        /\ FirstServiceInit
        /\ CatalogueInit
        /\ ReviewDeskInit
        /\ CabinetInit
        /\ PlatformChatInit
        /\ VisitDeskInit
        /\ PromoCodesInit
        /\ LoginThrottleInit
        /\ PasswordRecoveryInit
  BY DEF ServicesInit
<1> QED
  BY <1>1, EachStepsAlone, PTL
     DEF ServicesSpec,
         BusinessOutboxSpec, SubscriptionSpec, SchedulerSpec, PhoneSpec, BusinessBotSpec,
         InboundSpec, CustomerBotSpec, BookingFormSpec, PaymentPageSpec, TelegramSetupSpec,
         FreedSlotsSpec, DayPictureSpec, CalendarBoardSpec, FirstServiceSpec, CatalogueSpec,
         ReviewDeskSpec, CabinetSpec, PlatformChatSpec, VisitDeskSpec, PromoCodesSpec,
         LoginThrottleSpec, PasswordRecoverySpec

(* Whichever service a behaviour follows, its rows have their types, for    *)
(* however many clients, requests, messages and visits there are.           *)
THEOREM ServicesTyped == ServicesSpec => []ServicesTypeOK
<1>1. /\ BusinessOutboxTypeOK
      /\ SubscriptionTypeOK
      /\ SchedulerTypeOK
      /\ PhoneTypeOK
      /\ BusinessBotTypeOK
      /\ InboundTypeOK
      /\ CustomerBotTypeOK
      /\ BookingFormTypeOK
      /\ PaymentPageTypeOK
      /\ TelegramSetupTypeOK
      /\ FreedSlotsTypeOK
      /\ DayPictureTypeOK
      /\ CalendarBoardTypeOK
      /\ FirstServiceTypeOK
      /\ CatalogueTypeOK
      /\ ReviewDeskTypeOK
      /\ CabinetTypeOK
      /\ PlatformChatTypeOK
      /\ VisitDeskTypeOK
      /\ PromoCodesTypeOK
      /\ LoginThrottleTypeOK
      /\ PasswordRecoveryTypeOK
      => ServicesTypeOK
  BY DEF ServicesTypeOK
<1> QED
  BY <1>1, ServicesRefine,
     NoticesTyped, PlansTyped, JobsTyped, CodesTyped, StaffBotTyped, UpdatesTyped, ChatTyped,
     BookingFormTyped, PaymentPageTyped, BotSetupTyped, FreedSlotsTyped, DayPictureTyped,
     CalendarBoardTyped, FirstServiceTyped, CatalogueTyped, ReviewDeskTyped, CabinetTyped,
     PlatformChatTyped, VisitDeskTyped, PromoCodesTyped, SignInsTyped, RecoveriesTyped,
     PTL

(* What the services promise, all at once: everything that is checked of    *)
(* them side by side on a small instance holds for every value of the       *)
(* constants; of subscriptions, with one lifecycle run at a time.           *)
THEOREM ServicesKeepTheirPromises ==
    ServicesSpec =>
      /\ []CardSentOnce
      /\ []EndedVisitIsQuiet
      /\ (OneLifecycleRun => []PaidTimeNotTakenAway)
      /\ []OneRunPerJob
      /\ []CodeLimitsHold
      /\ []StaffDecideOnce
      /\ []HandledOnce
      /\ []ChatKeepsItsChoice
      /\ []FormKeepsItsChoice
      /\ []SetupLeadsHome
      /\ []FreedTimesOfferedOnce
      /\ []CancelledSeriesIsEmpty
      /\ []KeptWhereDropped
      /\ []OwnersDecisionStands
      /\ []ArchivedIsFree
      /\ []DecidedAsShown
      /\ []CabinetIsTheirOwn
      /\ []ChatServesItsMember
      /\ []DeskSendsWhatItShows
      /\ []DiscountsAddUp
      /\ []AccessIsLimited
<1>1. LoginsAreLimited /\ RecoveriesAreLimited => AccessIsLimited
  BY DEF AccessIsLimited
<1> QED
  BY <1>1, ServicesRefine,
     CardsSentOnce, EndedVisitsQuiet, PaidTimeStands, OneRunner, OneCodeBuysOnce, StaffDecide,
     UpdatesHandledOnce, ChatServesOneBooking, FormIsTrue, BotsLeadHome, FreedOnce,
     SeriesEmptied, DropsAreKept, DecisionsStand, ArchivingRespectsVisits, ReviewsAreAsShown,
     PagesAreTheirOwn, ChatsServe, SentAsShown, MoneyAddsUp, SignInsAreLimited, ResetsAreLimited,
     PTL

(* The picture of a day is true to its rows in whatever company the         *)
(* dashboard keeps: visits that share time do not cover each other          *)
(* (assignLanes), and the gaps on offer are free (subtractIntervals).       *)
THEOREM DaysDrawnTrue == ServicesSpec => []DayIsDrawnTrue
<1>1. NoVisitHidden /\ OffersAreFree => DayIsDrawnTrue
  BY DEF DayIsDrawnTrue
<1> QED
  BY <1>1, ServicesRefine, DayDrawnTrue, PTL
=============================================================================
