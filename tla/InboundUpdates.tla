--------------------------- MODULE InboundUpdates ---------------------------
(***************************************************************************)
(* The webhook of a salon's customer bot: Telegram repeats an update until  *)
(* it is answered with 200, and InboundChannelUpdate rows keep repeated     *)
(* deliveries from being handled twice                                      *)
(* (src/src/core/integrations/inbound-update-service.ts and the route       *)
(* api/webhooks/telegram/business/[publicId]).                              *)
(***************************************************************************)
EXTENDS Integers, FiniteSets

CONSTANTS
    Updates,           \* updates of one bot
    Deliveries,        \* webhook requests in flight
    ClaimLease,        \* the 60 seconds after which a claim is stale
    MaxHandlerFaults,  \* bound on handlers that throw
    MaxHandlerDeaths,  \* bound on processes that end
    MaxHookClock       \* bound on the clock

ASSUME InboundAssumption ==
    /\ Updates # {}
    /\ {ClaimLease, MaxHandlerFaults, MaxHandlerDeaths, MaxHookClock} \subseteq Nat

VARIABLES
    inbound,    \* InboundChannelUpdate rows
    undelivered,\* updates that Telegram will deliver (again)
    hook,       \* what a webhook request knows
    handled,    \* history: times the handler of an update finished
    faulty,     \* history: updates whose handler threw
    overdue,    \* history: updates whose claim outlived the lease while their handler ran
    orphaned,   \* history: updates whose process ended
    dismissed,  \* history: updates answered with 200 while another delivery held the claim
    hookClock

inboundVars == <<inbound, undelivered, hook, handled, faulty, overdue, orphaned,
                 dismissed, hookClock>>

NoHook == [pc |-> "idle", update |-> CHOOSE u \in Updates : TRUE, now |-> 0]

InboundTypeOK ==
    /\ inbound \in [Updates -> [status : {"NONE", "PROCESSING", "COMPLETED", "FAILED"},
                                claimedAt : 0 .. MaxHookClock]]
    /\ undelivered \subseteq Updates
    /\ hook \in [Deliveries -> [pc : {"idle", "claim", "reclaim", "handle", "complete", "fail"},
                                    update : Updates, now : 0 .. MaxHookClock]]
    /\ handled \in [Updates -> Nat]
    /\ faulty \subseteq Updates /\ overdue \subseteq Updates /\ orphaned \subseteq Updates /\ dismissed \subseteq Updates
    /\ hookClock \in 0 .. MaxHookClock

InboundInit ==
    /\ inbound = [u \in Updates |-> [status |-> "NONE", claimedAt |-> 0]]
    /\ undelivered = Updates
    /\ hook = [d \in Deliveries |-> NoHook]
    /\ handled = [u \in Updates |-> 0]
    /\ faulty = {} /\ overdue = {} /\ orphaned = {} /\ dismissed = {}
    /\ hookClock = 0

---------------------------------------------------------------------------
HandlerOf(d) == hook[d].update
Stale(d) == inbound[HandlerOf(d)].claimedAt <= hook[d].now - ClaimLease
(* Altered: only a stale claim is taken up *)
StaleOnly(d) == inbound[HandlerOf(d)].status = "PROCESSING" /\ Stale(d)

Reclaimable(d) ==
    \/ inbound[HandlerOf(d)].status = "FAILED"
    \/ inbound[HandlerOf(d)].status = "PROCESSING" /\ Stale(d)
Handling(u) == \E d \in Deliveries : hook[d].pc \in {"handle", "complete", "fail"}
                                     /\ hook[d].update = u
At(d, pc) == hook[d].pc = pc
Goes(d, pc) == hook' = [hook EXCEPT ![d].pc = pc]
Claims(d) ==
    inbound' = [inbound EXCEPT ![HandlerOf(d)] =
                  [status |-> "PROCESSING", claimedAt |-> hook[d].now]]
RowsKept == UNCHANGED <<inbound, handled, faulty, overdue>>
WorldKept == UNCHANGED <<orphaned, hookClock>>
QueueKept == UNCHANGED <<undelivered, dismissed>>

(* A response of 200 takes the update off Telegram's queue, unless Telegram *)
(* has stopped waiting for it.                                              *)
Answers200(d) ==
    /\ Goes(d, "idle")
    /\ undelivered' \in {undelivered, undelivered \ {HandlerOf(d)}}

AnswersBusy(d) ==
    /\ Answers200(d)
    /\ dismissed' = dismissed \cup (undelivered \ undelivered')

(* Telegram delivers, or gives up waiting and delivers again. *)
Deliver(d, u) ==
    /\ At(d, "idle") /\ u \in undelivered
    /\ hook' = [hook EXCEPT ![d] = [pc |-> "claim", update |-> u, now |-> hookClock]]
    /\ QueueKept /\ RowsKept /\ WorldKept

(* claimInboundUpdate: the unique key lets one delivery create the row. *)
ClaimNew(d) ==
    /\ At(d, "claim") /\ inbound[HandlerOf(d)].status = "NONE"
    /\ Claims(d) /\ Goes(d, "handle")
    /\ UNCHANGED <<handled, faulty, overdue>> /\ QueueKept /\ WorldKept

(* COMPLETED, or BUSY: claimed less than a lease ago; answered with 200 *)
AnswerKnown(d) ==
    /\ At(d, "claim")
    /\ \/ inbound[HandlerOf(d)].status = "COMPLETED" /\ Answers200(d) /\ UNCHANGED dismissed
       \/ inbound[HandlerOf(d)].status = "PROCESSING" /\ ~Stale(d) /\ AnswersBusy(d)
    /\ RowsKept /\ WorldKept

SeeReclaimable(d) ==
    /\ At(d, "claim") /\ Reclaimable(d)
    /\ Goes(d, "reclaim")
    /\ QueueKept /\ RowsKept /\ WorldKept

(* The conditional update; who loses it is BUSY. *)
Reclaim(d) ==
    /\ At(d, "reclaim")
    /\ IF Reclaimable(d)
       THEN /\ Claims(d) /\ Goes(d, "handle")
            /\ overdue' = IF Handling(HandlerOf(d)) THEN overdue \cup {HandlerOf(d)} ELSE overdue
            /\ UNCHANGED <<handled, faulty>> /\ QueueKept
       ELSE AnswersBusy(d) /\ RowsKept
    /\ WorldKept

(* dispatchLoadedBusinessTelegramUpdate *)
Handle(d) ==
    /\ At(d, "handle")
    /\ handled' = [handled EXCEPT ![HandlerOf(d)] = @ + 1]
    /\ Goes(d, "complete")
    /\ UNCHANGED <<inbound, faulty, overdue>> /\ QueueKept /\ WorldKept

(* Telegram, the storage or the database is away for a moment. *)
HandlerThrows(d) ==
    /\ At(d, "handle") /\ Cardinality(faulty) < MaxHandlerFaults
    /\ faulty' = faulty \cup {HandlerOf(d)}
    /\ Goes(d, "fail")
    /\ UNCHANGED <<inbound, handled, overdue>> /\ QueueKept /\ WorldKept

(* Altered: a finished update is left claimed *)
LeftClaimed(d) == inbound

Completed(d) == [inbound EXCEPT ![HandlerOf(d)].status = "COMPLETED"]

(* Both by key, whoever holds the claim by now *)
CompleteUpdate(d) ==
    /\ At(d, "complete")
    /\ inbound' = Completed(d)
    /\ Answers200(d)
    /\ UNCHANGED <<handled, faulty, overdue, dismissed>> /\ WorldKept

(* Answered with 500, so Telegram delivers again *)
FailUpdate(d) ==
    /\ At(d, "fail")
    /\ inbound' = [inbound EXCEPT ![HandlerOf(d)].status = "FAILED"]
    /\ Goes(d, "idle")
    /\ UNCHANGED <<handled, faulty, overdue>> /\ QueueKept /\ WorldKept

HookDies(d) ==
    /\ ~At(d, "idle") /\ Cardinality(orphaned) < MaxHandlerDeaths
    /\ orphaned' = orphaned \cup {HandlerOf(d)}
    /\ Goes(d, "idle")
    /\ UNCHANGED hookClock /\ QueueKept /\ RowsKept

HookTick ==
    /\ hookClock < MaxHookClock
    /\ hookClock' = hookClock + 1
    /\ UNCHANGED <<hook, orphaned>> /\ QueueKept /\ RowsKept

InboundNext ==
    \/ \E d \in Deliveries :
        \/ \E u \in Updates : Deliver(d, u)
        \/ ClaimNew(d) \/ AnswerKnown(d) \/ SeeReclaimable(d) \/ Reclaim(d)
        \/ Handle(d) \/ HandlerThrows(d) \/ CompleteUpdate(d) \/ FailUpdate(d) \/ HookDies(d)
    \/ HookTick

InboundSpec == InboundInit /\ [][InboundNext]_inboundVars

HookStep(d) ==
    \/ ClaimNew(d) \/ AnswerKnown(d) \/ SeeReclaimable(d) \/ Reclaim(d)
    \/ Handle(d) \/ CompleteUpdate(d) \/ FailUpdate(d)
HookAnswered(d) == AnswerKnown(d) /\ undelivered' # undelivered
DeliveredAgain(u) == \E d \in Deliveries : Deliver(d, u)

(* Requests run on; Telegram delivers what is not answered, and does not    *)
(* miss every answer.                                                       *)
InboundFairness ==
    /\ \A d \in Deliveries :
        /\ WF_inboundVars(HookStep(d))
        /\ SF_inboundVars(HookAnswered(d))
    /\ \A u \in Updates : SF_inboundVars(DeliveredAgain(u))

---------------------------------------------------------------------------
(* Repeated deliveries alone never handle an update twice: one delivery     *)
(* creates the row, the others answer that it is known.  A second run needs *)
(* a handler that outlived its lease, or a process that ended between the   *)
(* handler's last effect and the completion of the row.                     *)
(*                                                                          *)
(* "конкурентный повтор не выполняет обработчик параллельно" (a concurrent  *)
(* repeat does not run the handler in parallel), while the lease lasts.     *)
HandledOnce ==
    /\ \A u \in Updates : handled[u] > 1 => u \in overdue \cup orphaned
    /\ \A d, e \in Deliveries :
         d # e /\ HandlerOf(d) = HandlerOf(e) /\ {hook[d].pc, hook[e].pc} \subseteq {"handle"}
           => HandlerOf(d) \in overdue

(* Every update is handled to its end: an error after the claim leaves it   *)
(* FAILED, the end of a process leaves it claimed until the lease is over,  *)
(* and a later delivery takes it up.  Only an answer of 200 given to a      *)
(* repeat while the claim was held can lose it.                             *)
UpdatesComplete ==
    \A u \in Updates : <>(inbound[u].status = "COMPLETED" \/ u \in dismissed)
===========================================================================
