------------------------------ MODULE PromoCodes ------------------------------
(***************************************************************************)
(* What a visit costs: promo codes (src/src/core/promotions/                *)
(* promo-code-service.ts), the prepayment that is asked for                 *)
(* (src/src/core/payments/prepayment-policy.ts), the serializable           *)
(* reservation that redeems a code and settles what asks for no money, and  *)
(* the field of the public form that promises a price beforehand.           *)
(*                                                                          *)
(* Several customers post at once; a code's counter is kept right only by   *)
(* the isolation of their transactions.  Whether the time is free is in     *)
(* SlotAllocation.                                                          *)
(***************************************************************************)
EXTENDS Integers, FiniteSets

CONSTANTS
    Guests,          \* customers who book
    OnForm,          \* the one whose form is modelled; the others post any code
    Words,           \* texts that may be typed as a code, numbers
    Menu,            \* services
    PriceOf,         \* PriceOf[m], the price of service m in diram
    Sales,           \* discounts an owner may create: kind, value, limit
    PrepayRules,     \* prepayment settings that a business and its service may have
    Somoni,          \* diram in a somoni
    Retries,         \* SERIALIZATION_RETRY_COUNT
    MaxOwnerSteps    \* bound on what the owner and the clock do meanwhile

ASSUME PromoCodesAssumption ==
    /\ IsFiniteSet(Guests) /\ OnForm \in Guests
    /\ Words \subseteq Nat \ {0} /\ Menu \subseteq Nat \ {0}
    /\ Menu # {} /\ PriceOf \in [Menu -> Nat]
    /\ Sales \subseteq [kind : {"PERCENT", "FIXED"}, value : Nat \ {0}, limit : Nat]
    /\ PrepayRules # {}
    /\ LET Rule == [mode : {"UNSET", "NONE", "DEPOSIT", "FULL"}, fixed : Nat, percent : Nat]
       IN  PrepayRules \subseteq [own : Rule, house : Rule]
    /\ {Somoni, Retries, MaxOwnerSteps} \subseteq Nat \ {0}

VARIABLES
    promoCode,    \* PromoCode rows by their text
    tenant,        \* the business: its plan, and the codes that ran out
    promoField,   \* the field of the form and the checks on their way
    guest         \* the requests of the customers, and the visits they made

promoVars == <<promoCode, tenant, promoField, guest>>

NoWord == 0
FirstOnMenu == CHOOSE m \in Menu : TRUE
NoPrice == -1
NoSale == [kind |-> "none"]
Unlimited == 0
FreshField == [word |-> NoWord, status |-> "idle", service |-> FirstOnMenu,
               shown |-> NoPrice, checks |-> {}, doubt |-> FALSE]
NoRules == [mode |-> "none"]
NothingMade == [status |-> "none"]
NotAsked == [at |-> "idle", word |-> NoWord, service |-> 0, promised |-> NoPrice,
             doubt |-> FALSE, series |-> FALSE, rules |-> NoRules, carded |-> FALSE, tries |-> 0,
             seen |-> NoSale, made |-> NothingMade]

---------------------------------------------------------------------------
(***************************************************************************)
(* Amounts                                                                  *)
(***************************************************************************)
Smaller(a, b) == IF a <= b THEN a ELSE b

(* validatePromoCode: Math.round is half up. *)
Discount(row, amount) ==
    IF row.kind = "PERCENT" THEN Smaller(amount, (2 * amount * row.value + 100) \div 200)
    ELSE Smaller(amount, row.value)

(* amountDue: a deposit in percent is rounded up to a whole somoni; one     *)
(* without an amount asks for everything.                                   *)
Due(total, rules) ==
    LET rule == IF rules.own.mode # "UNSET" THEN rules.own ELSE rules.house
    IN  IF total = 0 \/ rule.mode = "NONE" THEN 0
        ELSE IF rule.mode = "FULL" THEN total
        ELSE IF rule.fixed > 0 THEN Smaller(rule.fixed, total)
        ELSE IF rule.percent > 0
          THEN Smaller(total,
                       ((total * rule.percent + 100 * Somoni - 1) \div (100 * Somoni)) * Somoni)
        ELSE total

ModeTold(due, total) ==
    CASE due = 0 -> "NONE" [] due > 0 /\ due >= total -> "FULL" [] OTHER -> "DEPOSIT"

Redeemable(w) ==
    /\ promoCode[w] # NoSale /\ promoCode[w].isActive /\ w \notin tenant.over
    /\ promoCode[w].limit # Unlimited => promoCode[w].count < promoCode[w].limit

---------------------------------------------------------------------------
PromoCodesTypeOK ==
    /\ \A w \in Words : promoCode[w] # NoSale => promoCode[w].count \in 0 .. Cardinality(Guests)
    /\ tenant.over \subseteq Words /\ tenant.paid \in BOOLEAN
    /\ tenant.steps \in 0 .. MaxOwnerSteps
    /\ promoField.status \in {"idle", "checking", "valid", "invalid"}
    /\ promoField.word \in Words \cup {NoWord} /\ promoField.service \in Menu
    /\ \A c \in Guests :
         /\ guest[c].at \in {"idle", "posted", "reading", "open", "refused", "done"}
         /\ guest[c].tries \in 0 .. Retries - 1
         /\ guest[c].made # NothingMade => guest[c].made.mode \in {"NONE", "DEPOSIT", "FULL"}

PromoCodesInit ==
    /\ promoCode = [w \in Words |-> NoSale]
    /\ tenant = [paid |-> TRUE, over |-> {}, steps |-> 0]
    /\ promoField = FreshField
    /\ guest = [c \in Guests |-> NotAsked]

---------------------------------------------------------------------------
(***************************************************************************)
(* The owner, and the clock                                                 *)
(***************************************************************************)
OwnerStep(s) ==
    /\ tenant.steps < MaxOwnerSteps
    /\ tenant' = [s EXCEPT !.steps = @ + 1]
    /\ UNCHANGED <<promoField, guest>>

(* A code is unique whatever its case; the plan must include codes. *)
CreatePromoCode(w, sale) ==
    /\ tenant.paid /\ promoCode[w] = NoSale
    /\ promoCode' = [promoCode EXCEPT ![w] =
         [kind |-> sale.kind, value |-> sale.value, limit |-> sale.limit,
          isActive |-> TRUE, count |-> 0]]
    /\ OwnerStep(tenant)

DeactivatePromoCode(w) ==
    /\ promoCode[w] # NoSale
    /\ promoCode' = [promoCode EXCEPT ![w].isActive = FALSE]
    /\ OwnerStep(tenant)

CodeRunsOut(w) ==
    /\ promoCode[w] # NoSale /\ w \notin tenant.over
    /\ OwnerStep([tenant EXCEPT !.over = @ \cup {w}])
    /\ UNCHANGED promoCode

PlanEnds ==
    /\ tenant.paid /\ OwnerStep([tenant EXCEPT !.paid = FALSE])
    /\ UNCHANGED promoCode

---------------------------------------------------------------------------
(***************************************************************************)
(* The field of the form                                                    *)
(***************************************************************************)
AtField == guest[OnForm].at = "idle"
InForm == guest[OnForm].at # "done"
OnlyField == UNCHANGED <<promoCode, tenant, guest>>

OnPromoCodeChange(w) ==
    /\ AtField
    /\ promoField' = [promoField EXCEPT !.word = w, !.status = "idle", !.shown = NoPrice,
                                        !.doubt = FALSE]
    /\ OnlyField

(* A change of the service leaves the price promised for another. *)
ChangeService(m) ==
    /\ AtField /\ m # promoField.service
    /\ promoField' = [promoField EXCEPT !.service = m, !.doubt = @ \/ promoField.shown # NoPrice]
    /\ OnlyField

(* The button waits for the check, leaving the field does not; meanwhile    *)
(* the full price is shown again, and posted.                               *)
ApplyPromoCode ==
    /\ AtField /\ promoField.word # NoWord
    /\ promoField' = [promoField EXCEPT !.status = "checking",
         !.shown = NoPrice, !.doubt = FALSE,
         !.checks = @ \cup {[word |-> promoField.word, service |-> promoField.service]}]
    /\ OnlyField

(* POST /api/public/promo/validate and its answer, applied whatever the     *)
(* field says by then.                                                      *)
CheckAnswered(q) ==
    /\ InForm /\ q \in promoField.checks
    /\ promoField' = [promoField EXCEPT
         !.checks = @ \ {q},
         !.status = IF Redeemable(q.word) THEN "valid" ELSE "invalid",
         !.shown = IF Redeemable(q.word)
                   THEN PriceOf[q.service] - Discount(promoCode[q.word], PriceOf[q.service])
                   ELSE NoPrice,
         !.doubt = q # [word |-> promoField.word, service |-> promoField.service]]
    /\ OnlyField

CheckFails(q) ==
    /\ InForm /\ q \in promoField.checks
    /\ promoField' = [promoField EXCEPT !.checks = @ \ {q}, !.status = "invalid",
                                        !.shown = NoPrice, !.doubt = FALSE]
    /\ OnlyField

(* A series of visits is posted without the code. *)
SubmitForm(series) ==
    /\ AtField
    /\ LET applied == IF promoField.status = "valid" /\ ~ series THEN promoField.word ELSE NoWord
       IN guest' = [guest EXCEPT ![OnForm] = [NotAsked EXCEPT
                      !.at = "posted", !.word = applied, !.service = promoField.service,
                      !.promised = promoField.shown, !.doubt = promoField.doubt,
                      !.series = series]]
    /\ UNCHANGED <<promoCode, tenant, promoField>>

(* Another customer, of whom only the code matters here, not the service,   *)
(* the settings or the card.                                                *)
PostDirectly(c, w) ==
    /\ c # OnForm /\ guest[c].at = "idle"
    /\ guest' = [guest EXCEPT ![c] = [NotAsked EXCEPT
                   !.at = "reading", !.word = w, !.service = FirstOnMenu, !.carded = TRUE,
                   !.rules = CHOOSE rules \in PrepayRules : TRUE]]
    /\ UNCHANGED <<promoCode, tenant, promoField>>

---------------------------------------------------------------------------
(***************************************************************************)
(* The server                                                               *)
(***************************************************************************)
OnlyGuest == UNCHANGED <<promoCode, tenant, promoField>>
GuestBecomes(c, g) == guest' = [guest EXCEPT ![c] = g]
Price(c) == PriceOf[guest[c].service]

(* createPendingBooking reads the settings as they are then; a card is      *)
(* required if money may be asked for, but a series does not look for it.   *)
ReadSettings(c, rules, carded) ==
    /\ guest[c].at = "posted"
    /\ IF ~ guest[c].series /\ Due(Price(c), rules) > 0 /\ ~ carded
       THEN GuestBecomes(c, [guest[c] EXCEPT !.at = "refused"])
       ELSE GuestBecomes(c, [guest[c] EXCEPT !.at = "reading", !.rules = rules, !.carded = carded])
    /\ OnlyGuest

(* The snapshot of the serializable transaction, in which the code is       *)
(* validated; the time may be taken, too.                                   *)
OpenTransaction(c) ==
    /\ guest[c].at = "reading"
    /\ \/ GuestBecomes(c, [guest[c] EXCEPT !.at = "refused"])
       \/ /\ guest[c].word # NoWord => Redeemable(guest[c].word)
          /\ GuestBecomes(c, [guest[c] EXCEPT !.at = "open",
                 !.seen = IF guest[c].word = NoWord THEN @ ELSE promoCode[guest[c].word]])
    /\ OnlyGuest

(* Altered: the isolation of the database's default *)
AsCommitted(c) == guest[c].word # NoWord => promoCode[guest[c].word] # NoSale

(* PostgreSQL: the row is as in the snapshot, or the update fails. *)
AsInSnapshot(c) == guest[c].word # NoWord => promoCode[guest[c].word] = guest[c].seen

VisitMade(c) ==
    LET off == IF guest[c].word = NoWord THEN 0 ELSE Discount(guest[c].seen, Price(c))
        total == Price(c) - off
        due == Due(total, guest[c].rules)
    IN [status |-> IF due = 0 THEN "CONFIRMED" ELSE "PENDING_PAYMENT",
        off |-> off, total |-> total, due |-> due, mode |-> ModeTold(due, total)]

(* redeemPromoCode validates again, on the same snapshot but by the clock;  *)
(* the customer goes on to the page of the payment.                         *)
Commit(c) ==
    /\ guest[c].at = "open" /\ AsInSnapshot(c)
    /\ guest[c].word # NoWord => guest[c].word \notin tenant.over
    /\ GuestBecomes(c, [guest[c] EXCEPT !.at = "done", !.seen = NoSale, !.rules = NoRules,
                                  !.made = VisitMade(c)])
    /\ promoCode' = [w \in Words |->
         IF w = guest[c].word THEN [promoCode[w] EXCEPT !.count = @ + 1] ELSE promoCode[w]]
    /\ promoField' = IF c = OnForm THEN FreshField ELSE promoField
    /\ UNCHANGED tenant

RanOutMeanwhile(c) ==
    /\ guest[c].at = "open" /\ guest[c].word \in tenant.over
    /\ GuestBecomes(c, [guest[c] EXCEPT !.at = "refused", !.seen = NoSale])
    /\ OnlyGuest

SerializationFailure(c) ==
    /\ guest[c].at = "open" /\ ~ AsInSnapshot(c)
    /\ GuestBecomes(c, IF guest[c].tries + 1 < Retries
                  THEN [guest[c] EXCEPT !.at = "reading", !.tries = @ + 1, !.seen = NoSale]
                  ELSE [guest[c] EXCEPT !.at = "refused", !.seen = NoSale])
    /\ OnlyGuest

(* A refusal of the code is shown in the field, and the form may be posted  *)
(* again.                                                                   *)
Refuse(c) ==
    /\ guest[c].at = "refused"
    /\ GuestBecomes(c, NotAsked)
    /\ promoField' = IF c = OnForm /\ guest[c].word # NoWord
                     THEN [promoField EXCEPT !.status = "invalid", !.shown = NoPrice,
                                                !.doubt = FALSE]
                     ELSE promoField
    /\ UNCHANGED <<promoCode, tenant>>

PromoCodesNext ==
    \/ \E w \in Words, sale \in Sales : CreatePromoCode(w, sale)
    \/ \E w \in Words : DeactivatePromoCode(w) \/ CodeRunsOut(w) \/ OnPromoCodeChange(w)
    \/ PlanEnds \/ ApplyPromoCode
    \/ \E m \in Menu : ChangeService(m)
    \/ \E q \in [word : Words, service : Menu] : CheckAnswered(q) \/ CheckFails(q)
    \/ \E series \in BOOLEAN : SubmitForm(series)
    \/ \E c \in Guests :
         \/ \E w \in Words : PostDirectly(c, w)
         \/ \E rules \in PrepayRules, carded \in BOOLEAN : ReadSettings(c, rules, carded)
         \/ OpenTransaction(c) \/ Commit(c) \/ RanOutMeanwhile(c)
         \/ SerializationFailure(c) \/ Refuse(c)

PromoCodesSpec == PromoCodesInit /\ [][PromoCodesNext]_promoVars

---------------------------------------------------------------------------
(* The money adds up.  A code's counter is the number of visits that were   *)
(* made with it and stays within its limit, however many are reserved at    *)
(* once.  A visit waits for money exactly when money is due, never more     *)
(* than its price, and money is asked for only by a salon that had a card.  *)
(* It costs what the form promised, unless the promise was given for        *)
(* another code or service, or the visit is one of a series.                *)
MadeWith(w) == {c \in Guests : guest[c].made # NothingMade /\ guest[c].word = w}

DiscountsAddUp ==
    /\ \A w \in Words : promoCode[w] # NoSale =>
         /\ promoCode[w].count = Cardinality(MadeWith(w))
         /\ promoCode[w].limit # Unlimited => promoCode[w].count <= promoCode[w].limit
    /\ \A c \in Guests : guest[c].made # NothingMade =>
         LET v == guest[c].made IN
           /\ v.total + v.off = Price(c) /\ v.due \in 0 .. v.total
           /\ v.status = "PENDING_PAYMENT" <=> v.due > 0
           /\ v.due > 0 => guest[c].carded \/ guest[c].series
           /\ guest[c].promised # NoPrice =>
                v.total = guest[c].promised \/ guest[c].doubt \/ guest[c].series
=============================================================================
