------------------------------ MODULE VisitDesk ------------------------------
(***************************************************************************)
(* The two pages at which a receptionist changes the calendar by hand: the  *)
(* card of a visit with its panel of actions                                *)
(* (src/src/features/dashboard/bookings/booking-actions-panel.tsx) and the  *)
(* form of a new visit (manual-booking-form.tsx).  Both ask the server for  *)
(* free times while the choice they are for may change; every action of the *)
(* card is asked about in a dialog that stays open over the answer.         *)
(*                                                                          *)
(* A day has one start.  What else happens to the calendar is in            *)
(* SlotAllocation; here the server finds a start free or not.               *)
(***************************************************************************)
EXTENDS Integers, Sequences, FiniteSets

CONSTANTS
    OpenDays,       \* days, 1 .. n
    Treatments,     \* services offered
    Masters,        \* specialists
    DoneBy,         \* DoneBy[t], the specialists who perform t
    MaxLoads,       \* bound on the form's requests for times at once
    MaxPresses      \* bound on the card's actions under way at once

ASSUME VisitDeskAssumption ==
    /\ OpenDays \subseteq Nat \ {0} /\ Treatments \subseteq Nat \ {0}
    /\ Masters \subseteq Nat \ {0} /\ DoneBy \in [Treatments -> SUBSET Masters]
    /\ {MaxLoads, MaxPresses} \subseteq Nat \ {0}

VARIABLES
    screen,     \* the page that is open
    opened,      \* Booking of the open card: status and start
    isOver,     \* the visits of the first day are in the past
    visitCard,       \* the card as drawn, and its panel
    pressed,    \* actions of the card on their way, as the router queues them
    visitForm        \* the form of a new visit

deskViewVars == <<screen, opened, isOver, visitCard, pressed, visitForm>>

NoDay == 0
FirstDay == CHOOSE d \in OpenDays : \A e \in OpenDays : d <= e
FullChoices == [service : Treatments, staff : Masters, day : OpenDays]
NothingPicked == [service |-> 0, staff |-> 0, day |-> NoDay]
Dialogs == {"confirm", "move", "no show", "cancel"}
Commands == Dialogs \cup {"cancel series"}
Standing == {"PENDING_PAYMENT", "CONFIRMED"}
NoVisitOpen == [status |-> "CANCELLED", at |-> NoDay]
FreshPanel == [day |-> NoDay, loads |-> {}, list |-> NoDay, at |-> NoDay,
               dialog |-> "none", reason |-> FALSE, bypass |-> FALSE]
NoCardOpen == [status |-> "CANCELLED", missed |-> FALSE, panel |-> FreshPanel]
EmptyVisitForm == [choice |-> NothingPicked, wish |-> NoDay, calls |-> {}, list |-> NothingPicked,
                   at |-> NothingPicked, crossed |-> FALSE, posted |-> <<>>]

VisitDeskTypeOK ==
    /\ screen \in {"list", "card", "new"} /\ isOver \in BOOLEAN
    /\ opened \in {NoVisitOpen}
         \cup [status : Standing \cup {"CANCELLED", "EXPIRED", "NO_SHOW"}, at : OpenDays]
    /\ visitCard.panel.loads \subseteq OpenDays /\ visitCard.panel.dialog \in Dialogs \cup {"none"}
    /\ {visitCard.panel.day, visitCard.panel.list, visitCard.panel.at}
         \subseteq OpenDays \cup {NoDay}
    /\ {visitCard.panel.reason, visitCard.panel.bypass, visitCard.missed, visitForm.crossed}
         \subseteq BOOLEAN
    /\ \A i \in DOMAIN pressed : pressed[i] \in
         [command : Commands, at : OpenDays \cup {NoDay}, shown : OpenDays \cup {NoDay},
          asked : BOOLEAN, refused : BOOLEAN]
    /\ visitForm.calls \subseteq FullChoices
    /\ {visitForm.list, visitForm.at} \subseteq FullChoices \cup {NothingPicked}
    /\ Len(pressed) <= MaxPresses /\ Len(visitForm.posted) <= 1

VisitDeskInit ==
    /\ screen = "list" /\ opened = NoVisitOpen /\ isOver = FALSE
    /\ visitCard = NoCardOpen /\ pressed = <<>> /\ visitForm = EmptyVisitForm

---------------------------------------------------------------------------
(***************************************************************************)
(* The card                                                                 *)
(***************************************************************************)
CardDrawn(v, panel) ==
    [status |-> v.status,
     missed |-> v.status = "CONFIRMED" /\ isOver /\ v.at = FirstDay,
     panel |-> IF v.status \in Standing THEN panel ELSE FreshPanel]

OpenCard(v) ==
    /\ screen = "list" /\ screen' = "card"
    /\ opened' = v /\ visitCard' = CardDrawn(v, FreshPanel)
    /\ UNCHANGED <<isOver, pressed, visitForm>>

LeaveCard ==
    /\ screen = "card" /\ pressed = <<>> /\ screen' = "list"
    /\ opened' = NoVisitOpen /\ visitCard' = NoCardOpen /\ isOver' = FALSE
    /\ UNCHANGED <<pressed, visitForm>>

InPanel == screen = "card" /\ visitCard.status \in Standing
OnlyCard == UNCHANGED <<screen, opened, isOver, pressed, visitForm>>
Panel(p) == visitCard' = [visitCard EXCEPT !.panel = p]

(* /api/availability: the start of that day if it is free, or none. *)
FreeStarts(d) == {NoDay, d}

(* A new date aborts the request before it; no date asks for nothing. *)
PickNewDay(d) ==
    /\ InPanel /\ visitCard.panel.dialog = "none"
    /\ Panel([visitCard.panel EXCEPT !.day = d, !.list = NoDay, !.at = NoDay,
                                !.loads = IF d = NoDay THEN @ ELSE @ \cup {d}])
    /\ OnlyCard

(* Altered: an answer is applied whichever request it belongs to *)
AnyAnswer(d) == d \in visitCard.panel.loads

OwnAnswer(d) == d = visitCard.panel.day

TimesLoaded(d) ==
    /\ InPanel /\ d \in visitCard.panel.loads
    /\ \E free \in FreeStarts(d) :
         Panel([visitCard.panel EXCEPT !.loads = @ \ {d},
                                       !.list = IF OwnAnswer(d) THEN free ELSE @])
    /\ OnlyCard

PressFreeTime(d) ==
    /\ InPanel /\ visitCard.panel.dialog = "none" /\ d = visitCard.panel.list /\ d # NoDay
    /\ Panel([visitCard.panel EXCEPT !.at = d])
    /\ OnlyCard

TypeReason ==
    /\ InPanel /\ visitCard.panel.dialog = "none" /\ ~ visitCard.panel.reason
    /\ Panel([visitCard.panel EXCEPT !.reason = TRUE])
    /\ OnlyCard

(* The forms on the card, and what the browser requires of each. *)
OnCard(command) ==
    \/ command = "confirm" /\ visitCard.status = "PENDING_PAYMENT"
    \/ command = "move" /\ visitCard.panel.at # NoDay
    \/ command = "no show" /\ visitCard.missed
    \/ command = "cancel" /\ visitCard.panel.reason

Press(command) ==
    [command |-> command, at |-> NoDay, shown |-> NoDay, asked |-> TRUE, refused |-> FALSE]

Pressed(command, viaDialog) ==
    /\ Len(pressed) < MaxPresses
    /\ pressed' = Append(pressed,
         IF command = "move"
         THEN [Press(command) EXCEPT !.at = visitCard.panel.at, !.shown = visitCard.panel.day]
         ELSE [Press(command) EXCEPT !.asked = viaDialog,
                                     !.refused = command = "cancel" /\ visitCard.panel.bypass])
    /\ UNCHANGED <<screen, opened, isOver, visitForm>>

(* The button of a form opens its dialog, unless bypassConfirmation is left *)
(* from a submission that the browser refused.                              *)
AskFirst(command) ==
    /\ InPanel /\ visitCard.panel.dialog = "none" /\ OnCard(command)
    /\ ~ (command = "cancel" /\ visitCard.panel.bypass)
    /\ Panel([visitCard.panel EXCEPT !.dialog = command])
    /\ OnlyCard

SubmitUnasked ==
    /\ InPanel /\ visitCard.panel.dialog = "none" /\ OnCard("cancel") /\ visitCard.panel.bypass
    /\ Pressed("cancel", FALSE)
    /\ Panel([visitCard.panel EXCEPT !.bypass = FALSE])

(* The dialog's button submits the form and leaves the dialog open; a form  *)
(* that lost its reason is refused by the browser.                          *)
ConfirmDialog ==
    /\ InPanel /\ visitCard.panel.dialog # "none" /\ OnCard(visitCard.panel.dialog)
    /\ Pressed(visitCard.panel.dialog, TRUE)
    /\ UNCHANGED visitCard

RefusedByBrowser ==
    /\ InPanel /\ visitCard.panel.dialog = "cancel" /\ ~ OnCard("cancel")
    /\ Panel([visitCard.panel EXCEPT !.bypass = TRUE])
    /\ OnlyCard

CloseDialog ==
    /\ InPanel /\ visitCard.panel.dialog # "none"
    /\ Panel([visitCard.panel EXCEPT !.dialog = "none"])
    /\ OnlyCard

(* The series' button asks in a window of the browser, and waits for its    *)
(* answer.                                                                  *)
CancelSeries ==
    /\ InPanel /\ visitCard.panel.dialog = "none"
    /\ \A i \in DOMAIN pressed : pressed[i].command # "cancel series"
    /\ Pressed("cancel series", TRUE)
    /\ UNCHANGED visitCard

---------------------------------------------------------------------------
(***************************************************************************)
(* The server's part of an action, and the page after its redirect          *)
(***************************************************************************)
Past(d) == isOver /\ d = FirstDay

Carried(p, v) ==
    CASE p.command = "confirm" /\ opened.status = "PENDING_PAYMENT" ->
           v = [opened EXCEPT !.status = "CONFIRMED"]
      [] p.command = "move" /\ opened.status \in Standing /\ ~ Past(p.at) ->
           v \in {opened, [opened EXCEPT !.at = p.at]}
      [] p.command = "no show" /\ opened.status = "CONFIRMED" /\ Past(opened.at) ->
           v = [opened EXCEPT !.status = "NO_SHOW"]
      [] p.command \in {"cancel", "cancel series"} /\ opened.status \in Standing ->
           v \in {opened, [opened EXCEPT !.status = "CANCELLED"]}
      [] OTHER -> v = opened

(* The panel stays where it is while the visit is alive, but for a dialog   *)
(* whose form went with the redirect; the reason may be reset.              *)
AfterRedirect(p, v) ==
    \E kept \in {visitCard.panel.reason} \cup (IF p.command = "cancel" THEN {FALSE} ELSE {}) :
      LET again == CardDrawn(v, [visitCard.panel EXCEPT !.reason = kept])
          gone == \/ visitCard.panel.dialog = "confirm" /\ v.status # "PENDING_PAYMENT"
                  \/ visitCard.panel.dialog = "no show" /\ ~ again.missed
      IN visitCard' = IF gone THEN [again EXCEPT !.panel.dialog = "none"] ELSE again

Carry ==
    /\ pressed # <<>>
    /\ pressed' = Tail(pressed)
    /\ \E v \in [status : Standing \cup {"CANCELLED", "NO_SHOW"}, at : OpenDays] :
         Carried(Head(pressed), v) /\ opened' = v /\ AfterRedirect(Head(pressed), v)
    /\ UNCHANGED <<screen, isOver, visitForm>>

(* Others, the sweep and the receipts meanwhile. *)
ChangedByOthers(v) ==
    /\ screen = "card" /\ opened.status \in Standing
    /\ v \in {[opened EXCEPT !.at = d] : d \in OpenDays}
             \cup {[opened EXCEPT !.status = s] :
                     s \in IF opened.status = "CONFIRMED" THEN {"CANCELLED"}
                           ELSE {"CONFIRMED", "CANCELLED", "EXPIRED"}}
    /\ opened' = v
    /\ UNCHANGED <<screen, isOver, visitCard, pressed, visitForm>>

FirstDayPasses ==
    /\ screen = "card" /\ ~ isOver /\ isOver' = TRUE
    /\ UNCHANGED <<screen, opened, visitCard, pressed, visitForm>>

---------------------------------------------------------------------------
(***************************************************************************)
(* The form of a new visit                                                  *)
(***************************************************************************)
OnlyForm == UNCHANGED <<screen, opened, isOver, visitCard, pressed>>

(* Opened from a gap of the calendar, the form wishes for its start. *)
OpenForm(wish) ==
    /\ screen = "list" /\ screen' = "new"
    /\ \E m \in Masters : visitForm' = [EmptyVisitForm EXCEPT !.wish = wish,
         !.choice = [service |-> 0, staff |-> IF wish = NoDay THEN 0 ELSE m, day |-> wish]]
    /\ UNCHANGED <<opened, isOver, visitCard, pressed>>

LeaveForm ==
    /\ screen = "new" /\ visitForm.posted = <<>> /\ screen' = "list"
    /\ visitForm' = EmptyVisitForm
    /\ UNCHANGED <<opened, isOver, visitCard, pressed>>

Cleared(choice) ==
    [visitForm EXCEPT !.choice = choice, !.list = NothingPicked, !.at = NothingPicked,
                      !.crossed = FALSE]

(* loadSlots: no request is aborted, none asked without a full choice. *)
Loads(choice) ==
    LET asks == choice \in FullChoices IN
      /\ asks => Cardinality(visitForm.calls \cup {choice}) <= MaxLoads
      /\ visitForm' = [Cleared(choice) EXCEPT !.calls = IF asks THEN @ \cup {choice} ELSE @]

PickBranch ==
    /\ screen = "new"
    /\ visitForm' = [visitForm EXCEPT !.choice = NothingPicked, !.list = NothingPicked]
    /\ OnlyForm

PickService(t) ==
    /\ screen = "new"
    /\ Loads([visitForm.choice EXCEPT !.service = t,
                                 !.staff = IF @ # 0 /\ @ \in DoneBy[t] THEN @ ELSE 0])
    /\ OnlyForm

PickMaster(m) ==
    /\ screen = "new" /\ visitForm.choice.service # 0 /\ m \in DoneBy[visitForm.choice.service]
    /\ Loads([visitForm.choice EXCEPT !.staff = m])
    /\ OnlyForm

PickDate(d) ==
    /\ screen = "new" /\ visitForm.choice.staff # 0
    /\ Loads([visitForm.choice EXCEPT !.day = d])
    /\ OnlyForm

(* The answer is shown whatever is chosen by then, and the wish is chosen   *)
(* only when it is in the list.                                             *)
Answer(c) ==
    /\ screen = "new" /\ c \in visitForm.calls
    /\ \E start \in FreeStarts(c.day) :
         visitForm' = [visitForm EXCEPT !.calls = @ \ {c},
                         !.list = IF start = c.day THEN c ELSE NothingPicked,
                         !.at = IF start # NoDay /\ start = visitForm.wish THEN c ELSE @,
                         !.crossed = @ \/ c # visitForm.choice]
    /\ OnlyForm

AnswerFails(c) ==
    /\ screen = "new" /\ c \in visitForm.calls
    /\ visitForm' = [visitForm EXCEPT !.calls = @ \ {c}]
    /\ OnlyForm

PressStart ==
    /\ screen = "new" /\ visitForm.list # NothingPicked
    /\ visitForm' = [visitForm EXCEPT !.at = visitForm.list]
    /\ OnlyForm

(* The fields are required; the button waits for the answer. *)
PostVisit ==
    /\ screen = "new" /\ visitForm.posted = <<>>
    /\ visitForm.at # NothingPicked /\ visitForm.choice \in FullChoices
    /\ visitForm' = [visitForm EXCEPT
         !.posted = <<[choice |-> visitForm.choice, at |-> visitForm.at,
                                          crossed |-> visitForm.crossed]>>]
    /\ OnlyForm

(* createManualBooking: booked, and on to the visit's card; or refused, and *)
(* the form stays as it is.                                                 *)
Create(booked) ==
    /\ screen = "new" /\ visitForm.posted # <<>>
    /\ screen' = IF booked THEN "list" ELSE "new"
    /\ visitForm' = IF booked THEN EmptyVisitForm ELSE [visitForm EXCEPT !.posted = <<>>]
    /\ UNCHANGED <<opened, isOver, visitCard, pressed>>

VisitDeskNext ==
    \/ \E v \in [status : Standing, at : OpenDays] : OpenCard(v)
    \/ LeaveCard
    \/ \E d \in OpenDays \cup {NoDay} : PickNewDay(d)
    \/ \E d \in OpenDays : TimesLoaded(d) \/ PressFreeTime(d)
    \/ TypeReason
    \/ \E k \in Dialogs : AskFirst(k)
    \/ CancelSeries \/ SubmitUnasked \/ ConfirmDialog \/ RefusedByBrowser \/ CloseDialog \/ Carry
    \/ \E v \in [status : Standing \cup {"CANCELLED", "EXPIRED"}, at : OpenDays] :
         ChangedByOthers(v)
    \/ FirstDayPasses
    \/ \E d \in {NoDay, FirstDay} : OpenForm(d)
    \/ LeaveForm \/ PickBranch \/ PressStart \/ PostVisit
    \/ \E t \in Treatments : PickService(t)
    \/ \E m \in Masters : PickMaster(m)
    \/ \E d \in OpenDays : PickDate(d)
    \/ \E c \in FullChoices : Answer(c) \/ AnswerFails(c)
    \/ \E booked \in BOOLEAN : Create(booked)

VisitDeskSpec == VisitDeskInit /\ [][VisitDeskNext]_deskViewVars

---------------------------------------------------------------------------
(* What the receptionist sends is what the page shows.  The card moves a    *)
(* visit to the day it shows, in whatever order answers come, and carries   *)
(* out nothing it did not ask about, unless the browser refused the same    *)
(* form before and bypassConfirmation was left set.  The form books the     *)
(* start of the choice it shows, unless the answer to an earlier choice     *)
(* came after it was changed, which the form shows as its own.              *)
DeskSendsWhatItShows ==
    /\ \A i \in DOMAIN pressed :
         /\ pressed[i].command = "move" => pressed[i].at = pressed[i].shown
         /\ pressed[i].asked \/ pressed[i].refused
    /\ \A i \in DOMAIN visitForm.posted :
         visitForm.posted[i].at = visitForm.posted[i].choice \/ visitForm.posted[i].crossed
=============================================================================
