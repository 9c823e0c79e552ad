----------------------------- MODULE MCServices -----------------------------
(***************************************************************************)
(* The services that share no row with each other, side by side: small      *)
(* instances of each for TLC.  A behaviour follows one of them, named by    *)
(* focus, while the others rest in a first state; so the states of the      *)
(* services add up, and every step, interleaving and failure of each is     *)
(* explored as in a run of its own.                                         *)
(***************************************************************************)
EXTENDS BusinessOutbox, Subscription, JobScheduler, PhoneVerification, BusinessBot,
        InboundUpdates, CustomerBot, BookingForm, PaymentPage, TelegramSetup, FreedSlots,
        DayPicture, CalendarBoard, FirstService, Catalogue, ReviewDesk, Cabinet,
        PlatformChat, VisitDesk, PromoCodes, Access, TLC

VARIABLE focus   \* the service that this behaviour follows

MCServiceNames == {"notices", "plans", "jobs", "codes", "staff bot", "updates", "customer bot",
                   "form", "payment page", "bot setup", "freed slots", "day picture", "calendar",
                   "first service", "catalogue", "review desk", "cabinet", "platform",
                   "visit desk", "promo codes", "sign-in", "recovery"}
MCIntervals == [j \in Jobs |-> 2]
MCDesired == <<{1, 2}>>
MCSpans == {<<0, 4>>, <<2, 6>>, <<5, 10>>, <<-1, 3>>}
MCVisitSpans == {<<0, 2>>, <<1, 3>>, <<2, 5>>, <<4, 6>>, <<7, 9>>}
MCDefaultView == <<2, 6>>
MCPlaces == {<<"ann", 9>>, <<"bob", 9>>}
MCHolder == <<"p1">>
MCRole == [s \in Seats |-> IF s = "worker" THEN "STAFF" ELSE "OWNER"]
MCDoneBy == <<{1, 2}>>
MCPriceOf == <<7, 4>>
MCSales == {[kind |-> "PERCENT", value |-> 30, limit |-> 1]}
MCRule(m, f, p) == [mode |-> m, fixed |-> f, percent |-> p]
MCPrepayRules == {[house |-> MCRule("FULL", 0, 0), own |-> MCRule("DEPOSIT", 3, 0)],
                  [house |-> MCRule("DEPOSIT", 0, 30), own |-> MCRule("UNSET", 0, 0)]}
MCSteps == <<"SLOT">>
MCOffers == <<{"north", "south"}, {"cut"}, {"ann"}>>

servicesVars == <<focus, outboxVars, subscriptionVars, schedulerVars, phoneVars, botVars,
                  inboundVars, chatVars, formVars, paymentPageVars, setupVars, freedVars, sheet,
                  boardVars, firstServiceVars, catalogueVars, deskVars, cabinetVars, platformVars,
                  deskViewVars, promoVars, loginVars, recoveryVars>>

(* What tells two states apart: the rows that rest are those of the first   *)
(* state.                                                                   *)
MCView ==
    CASE focus = "notices" -> <<focus, outboxVars>>
      [] focus = "plans" -> <<focus, subscriptionVars>>
      [] focus = "jobs" -> <<focus, schedulerVars>>
      [] focus = "codes" -> <<focus, phoneVars>>
      [] focus = "staff bot" -> <<focus, botVars>>
      [] focus = "updates" -> <<focus, inboundVars>>
      [] focus = "customer bot" -> <<focus, chatVars>>
      [] focus = "form" -> <<focus, formVars>>
      [] focus = "payment page" -> <<focus, paymentPageVars>>
      [] focus = "bot setup" -> <<focus, setupVars>>
      [] focus = "freed slots" -> <<focus, freedVars>>
      [] focus = "day picture" -> <<focus, sheet>>
      [] focus = "calendar" -> <<focus, boardVars>>
      [] focus = "first service" -> <<focus, firstServiceVars>>
      [] focus = "catalogue" -> <<focus, catalogueVars>>
      [] focus = "review desk" -> <<focus, deskVars>>
      [] focus = "cabinet" -> <<focus, cabinetVars>>
      [] focus = "platform" -> <<focus, platformVars>>
      [] focus = "visit desk" -> <<focus, deskViewVars>>
      [] focus = "promo codes" -> <<focus, promoVars>>
      [] focus = "sign-in" -> <<focus, loginVars>>
      [] focus = "recovery" -> <<focus, recoveryVars>>

ServicesInit ==
    /\ focus \in MCServiceNames
    /\ BusinessOutboxInit /\ (focus # "notices" => salonVisit.start = CHOOSE m \in Moments : TRUE)
    /\ SubscriptionInit /\ (focus # "plans" => subscription.endsAt = NoEnd)
    /\ SchedulerInit /\ PhoneInit /\ BusinessBotInit /\ InboundInit /\ CustomerBotInit
    /\ BookingFormInit /\ (focus # "form" => form.wish = NoWish)
    /\ PaymentPageInit /\ TelegramSetupInit /\ FreedSlotsInit
    /\ FirstServiceInit /\ CatalogueInit /\ ReviewDeskInit /\ CabinetInit /\ PlatformChatInit
    /\ VisitDeskInit /\ PromoCodesInit /\ LoginThrottleInit /\ PasswordRecoveryInit
    /\ DayPictureInit /\ (focus # "day picture" => ~sheet.ownElsewhere)
    /\ CalendarBoardInit
    /\ (focus # "calendar" => \A v \in Blocks : agenda[v].place = CHOOSE place \in Places : TRUE)
    /\ servicesVars = servicesVars   \* makes TLC evaluate the rows that MCView leaves out

(* A step of one service leaves the rows of the others alone. *)
NoticesStep ==
    /\ focus = "notices"
    /\ UNCHANGED <<focus, subscriptionVars, schedulerVars, phoneVars, botVars, inboundVars,
                   chatVars, formVars, paymentPageVars, setupVars, freedVars, sheet, boardVars,
                   firstServiceVars, catalogueVars, deskVars, cabinetVars, platformVars,
                   deskViewVars, promoVars, loginVars, recoveryVars>>
    /\ BusinessOutboxNext

PlansStep ==
    /\ focus = "plans"
    /\ UNCHANGED <<focus, outboxVars, schedulerVars, phoneVars, botVars, inboundVars, chatVars,
                   formVars, paymentPageVars, setupVars, freedVars, sheet, boardVars,
                   firstServiceVars, catalogueVars, deskVars, cabinetVars, platformVars,
                   deskViewVars, promoVars, loginVars, recoveryVars>>
    /\ SubscriptionNext

JobsStep ==
    /\ focus = "jobs"
    /\ UNCHANGED <<focus, outboxVars, subscriptionVars, phoneVars, botVars, inboundVars, chatVars,
                   formVars, paymentPageVars, setupVars, freedVars, sheet, boardVars,
                   firstServiceVars, catalogueVars, deskVars, cabinetVars, platformVars,
                   deskViewVars, promoVars, loginVars, recoveryVars>>
    /\ SchedulerNext

CodesStep ==
    /\ focus = "codes"
    /\ UNCHANGED <<focus, outboxVars, subscriptionVars, schedulerVars, botVars, inboundVars,
                   chatVars, formVars, paymentPageVars, setupVars, freedVars, sheet, boardVars,
                   firstServiceVars, catalogueVars, deskVars, cabinetVars, platformVars,
                   deskViewVars, promoVars, loginVars, recoveryVars>>
    /\ PhoneNext

StaffBotStep ==
    /\ focus = "staff bot"
    /\ UNCHANGED <<focus, outboxVars, subscriptionVars, schedulerVars, phoneVars, inboundVars,
                   chatVars, formVars, paymentPageVars, setupVars, freedVars, sheet, boardVars,
                   firstServiceVars, catalogueVars, deskVars, cabinetVars, platformVars,
                   deskViewVars, promoVars, loginVars, recoveryVars>>
    /\ BusinessBotNext

UpdatesStep ==
    /\ focus = "updates"
    /\ UNCHANGED <<focus, outboxVars, subscriptionVars, schedulerVars, phoneVars, botVars,
                   chatVars, formVars, paymentPageVars, setupVars, freedVars, sheet, boardVars,
                   firstServiceVars, catalogueVars, deskVars, cabinetVars, platformVars,
                   deskViewVars, promoVars, loginVars, recoveryVars>>
    /\ InboundNext

CustomerBotStep ==
    /\ focus = "customer bot"
    /\ UNCHANGED <<focus, outboxVars, subscriptionVars, schedulerVars, phoneVars, botVars,
                   inboundVars, formVars, paymentPageVars, setupVars, freedVars, sheet, boardVars,
                   firstServiceVars, catalogueVars, deskVars, cabinetVars, platformVars,
                   deskViewVars, promoVars, loginVars, recoveryVars>>
    /\ CustomerBotNext

FormStep ==
    /\ focus = "form"
    /\ UNCHANGED <<focus, outboxVars, subscriptionVars, schedulerVars, phoneVars, botVars,
                   inboundVars, chatVars, paymentPageVars, setupVars, freedVars, sheet, boardVars,
                   firstServiceVars, catalogueVars, deskVars, cabinetVars, platformVars,
                   deskViewVars, promoVars, loginVars, recoveryVars>>
    /\ BookingFormNext

PaymentPageStep ==
    /\ focus = "payment page"
    /\ UNCHANGED <<focus, outboxVars, subscriptionVars, schedulerVars, phoneVars, botVars,
                   inboundVars, chatVars, formVars, setupVars, freedVars, sheet, boardVars,
                   firstServiceVars, catalogueVars, deskVars, cabinetVars, platformVars,
                   deskViewVars, promoVars, loginVars, recoveryVars>>
    /\ PaymentPageNext

BotSetupStep ==
    /\ focus = "bot setup"
    /\ UNCHANGED <<focus, outboxVars, subscriptionVars, schedulerVars, phoneVars, botVars,
                   inboundVars, chatVars, formVars, paymentPageVars, freedVars, sheet, boardVars,
                   firstServiceVars, catalogueVars, deskVars, cabinetVars, platformVars,
                   deskViewVars, promoVars, loginVars, recoveryVars>>
    /\ TelegramSetupNext

FreedSlotsStep ==
    /\ focus = "freed slots"
    /\ UNCHANGED <<focus, outboxVars, subscriptionVars, schedulerVars, phoneVars, botVars,
                   inboundVars, chatVars, formVars, paymentPageVars, setupVars, sheet, boardVars,
                   firstServiceVars, catalogueVars, deskVars, cabinetVars, platformVars,
                   deskViewVars, promoVars, loginVars, recoveryVars>>
    /\ FreedSlotsNext

DayPictureStep ==
    /\ focus = "day picture"
    /\ UNCHANGED <<focus, outboxVars, subscriptionVars, schedulerVars, phoneVars, botVars,
                   inboundVars, chatVars, formVars, paymentPageVars, setupVars, freedVars,
                   boardVars, firstServiceVars, catalogueVars, deskVars, cabinetVars, platformVars,
                   deskViewVars, promoVars, loginVars, recoveryVars>>
    /\ DayPictureNext

CalendarBoardStep ==
    /\ focus = "calendar"
    /\ UNCHANGED <<focus, outboxVars, subscriptionVars, schedulerVars, phoneVars, botVars,
                   inboundVars, chatVars, formVars, paymentPageVars, setupVars, freedVars, sheet,
                   firstServiceVars, catalogueVars, deskVars, cabinetVars, platformVars,
                   deskViewVars, promoVars, loginVars, recoveryVars>>
    /\ CalendarBoardNext

FirstServiceStep ==
    /\ focus = "first service"
    /\ UNCHANGED <<focus, outboxVars, subscriptionVars, schedulerVars, phoneVars, botVars,
                   inboundVars, chatVars, formVars, paymentPageVars, setupVars, freedVars, sheet,
                   boardVars, catalogueVars, deskVars, cabinetVars, platformVars, deskViewVars,
                   promoVars, loginVars, recoveryVars>>
    /\ FirstServiceNext

CatalogueStep ==
    /\ focus = "catalogue"
    /\ UNCHANGED <<focus, outboxVars, subscriptionVars, schedulerVars, phoneVars, botVars,
                   inboundVars, chatVars, formVars, paymentPageVars, setupVars, freedVars, sheet,
                   boardVars, firstServiceVars, deskVars, cabinetVars, platformVars, deskViewVars,
                   promoVars, loginVars, recoveryVars>>
    /\ CatalogueNext

ReviewDeskStep ==
    /\ focus = "review desk"
    /\ UNCHANGED <<focus, outboxVars, subscriptionVars, schedulerVars, phoneVars, botVars,
                   inboundVars, chatVars, formVars, paymentPageVars, setupVars, freedVars, sheet,
                   boardVars, firstServiceVars, catalogueVars, cabinetVars, platformVars,
                   deskViewVars, promoVars, loginVars, recoveryVars>>
    /\ ReviewDeskNext

CabinetStep ==
    /\ focus = "cabinet"
    /\ UNCHANGED <<focus, outboxVars, subscriptionVars, schedulerVars, phoneVars, botVars,
                   inboundVars, chatVars, formVars, paymentPageVars, setupVars, freedVars, sheet,
                   boardVars, firstServiceVars, catalogueVars, deskVars, platformVars,
                   deskViewVars, promoVars, loginVars, recoveryVars>>
    /\ CabinetNext

PlatformChatStep ==
    /\ focus = "platform"
    /\ UNCHANGED <<focus, outboxVars, subscriptionVars, schedulerVars, phoneVars, botVars,
                   inboundVars, chatVars, formVars, paymentPageVars, setupVars, freedVars, sheet,
                   boardVars, firstServiceVars, catalogueVars, deskVars, cabinetVars, deskViewVars,
                   promoVars, loginVars, recoveryVars>>
    /\ PlatformChatNext

VisitDeskStep ==
    /\ focus = "visit desk"
    /\ UNCHANGED <<focus, outboxVars, subscriptionVars, schedulerVars, phoneVars, botVars,
                   inboundVars, chatVars, formVars, paymentPageVars, setupVars, freedVars, sheet,
                   boardVars, firstServiceVars, catalogueVars, deskVars, cabinetVars, platformVars,
                   promoVars, loginVars, recoveryVars>>
    /\ VisitDeskNext

PromoCodesStep ==
    /\ focus = "promo codes"
    /\ UNCHANGED <<focus, outboxVars, subscriptionVars, schedulerVars, phoneVars, botVars,
                   inboundVars, chatVars, formVars, paymentPageVars, setupVars, freedVars, sheet,
                   boardVars, firstServiceVars, catalogueVars, deskVars, cabinetVars, platformVars,
                   deskViewVars, loginVars, recoveryVars>>
    /\ PromoCodesNext

SignInStep ==
    /\ focus = "sign-in"
    /\ UNCHANGED <<focus, outboxVars, subscriptionVars, schedulerVars, phoneVars, botVars,
                   inboundVars, chatVars, formVars, paymentPageVars, setupVars, freedVars, sheet,
                   boardVars, firstServiceVars, catalogueVars, deskVars, cabinetVars, platformVars,
                   deskViewVars, promoVars, recoveryVars>>
    /\ LoginThrottleNext

RecoveryStep ==
    /\ focus = "recovery"
    /\ UNCHANGED <<focus, outboxVars, subscriptionVars, schedulerVars, phoneVars, botVars,
                   inboundVars, chatVars, formVars, paymentPageVars, setupVars, freedVars, sheet,
                   boardVars, firstServiceVars, catalogueVars, deskVars, cabinetVars, platformVars,
                   deskViewVars, promoVars, loginVars>>
    /\ PasswordRecoveryNext

ServicesNext ==
    \/ NoticesStep \/ PlansStep \/ JobsStep \/ CodesStep \/ StaffBotStep
    \/ UpdatesStep \/ CustomerBotStep \/ FormStep \/ PaymentPageStep \/ BotSetupStep
    \/ FreedSlotsStep \/ DayPictureStep \/ CalendarBoardStep \/ FirstServiceStep
    \/ CatalogueStep \/ ReviewDeskStep \/ CabinetStep \/ PlatformChatStep \/ VisitDeskStep
    \/ PromoCodesStep \/ SignInStep \/ RecoveryStep

ServicesSpec == ServicesInit /\ [][ServicesNext]_servicesVars

ServicesTypeOK ==
    /\ focus = "notices" => BusinessOutboxTypeOK
    /\ focus = "plans" => SubscriptionTypeOK
    /\ focus = "jobs" => SchedulerTypeOK
    /\ focus = "codes" => PhoneTypeOK
    /\ focus = "staff bot" => BusinessBotTypeOK
    /\ focus = "updates" => InboundTypeOK
    /\ focus = "customer bot" => CustomerBotTypeOK
    /\ focus = "form" => BookingFormTypeOK
    /\ focus = "payment page" => PaymentPageTypeOK
    /\ focus = "bot setup" => TelegramSetupTypeOK
    /\ focus = "freed slots" => FreedSlotsTypeOK
    /\ focus = "day picture" => DayPictureTypeOK
    /\ focus = "calendar" => CalendarBoardTypeOK
    /\ focus = "first service" => FirstServiceTypeOK
    /\ focus = "catalogue" => CatalogueTypeOK
    /\ focus = "review desk" => ReviewDeskTypeOK
    /\ focus = "cabinet" => CabinetTypeOK
    /\ focus = "platform" => PlatformChatTypeOK
    /\ focus = "visit desk" => VisitDeskTypeOK
    /\ focus = "promo codes" => PromoCodesTypeOK
    /\ focus = "sign-in" => LoginThrottleTypeOK
    /\ focus = "recovery" => PasswordRecoveryTypeOK

(* The picture of a day is a function of its rows: it is drawn for those    *)
(* behaviours only that are about it.  Visits that share time do not cover  *)
(* each other (computeLanes), and the gaps on offer are those that a        *)
(* reservation finds free (buildDaySchedule).                               *)
DayIsDrawnTrue == focus = "day picture" => NoVisitHidden /\ OffersAreFree

---------------------------------------------------------------------------
(***************************************************************************)
(* The services with something that must happen.  The fairness of each      *)
(* module, asked only of the behaviours that follow it.                     *)
(***************************************************************************)
SettleFairness ==
    /\ WF_outboxVars(focus = "notices" /\ OutboxTick)
    /\ \A j \in Senders : /\ WF_outboxVars(focus = "notices" /\ StartSender(j))
                           /\ WF_outboxVars(focus = "notices" /\ SenderStep(j))
    /\ WF_subscriptionVars(focus = "plans" /\ NextDay)
    /\ \A j \in LifecycleRuns : WF_subscriptionVars(focus = "plans" /\ LifecycleStep(j))
    /\ \A p \in Procs :
         /\ WF_schedulerVars(focus = "jobs" /\ StartScheduler(p))
         /\ WF_schedulerVars(focus = "jobs" /\ Tick(p))
         /\ WF_schedulerVars(focus = "jobs" /\ EndCli(p))
         /\ WF_schedulerVars(focus = "jobs" /\ (FinishShutdown(p) \/ ForceExit(p)))
         /\ WF_schedulerVars(focus = "jobs" /\ NoticeSevered(p))
         /\ \A j \in Jobs : WF_schedulerVars(focus = "jobs" /\ JobStep(p, j))
    /\ \A d \in Deliveries :
         /\ WF_inboundVars(focus = "updates" /\ HookStep(d))
         /\ SF_inboundVars(focus = "updates" /\ HookAnswered(d))
    /\ \A u \in Updates : SF_inboundVars(focus = "updates" /\ DeliveredAgain(u))
    /\ WF_paymentPageVars(focus = "payment page" /\ ComeBack)
    /\ \A k \in Pollers :
         /\ SF_paymentPageVars(focus = "payment page" /\ ~hidden /\ PollerFires(k))
         /\ SF_paymentPageVars(focus = "payment page" /\ PollServed(k))
         /\ WF_paymentPageVars(focus = "payment page" /\ PollArrives(k))

SettleInit ==
    ServicesInit /\ focus \in {"notices", "plans", "jobs", "updates", "payment page"}

SettleSpec ==
    /\ SettleInit
    /\ [][ServicesNext]_servicesVars
    /\ SettleFairness

(* The promises of those modules, for the service that a behaviour follows. *)
NoticesSettle == focus = "notices" => NoticesClose
PlansSettle == focus = "plans" => LapsedExpires
JobsSettle == focus = "jobs" => JobsRunAgain
UpdatesSettle == focus = "updates" => UpdatesComplete
PageSettles == focus = "payment page" => PageShowsVerdict
=============================================================================
