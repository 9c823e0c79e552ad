----------------------------- MODULE BookingForm -----------------------------
(***************************************************************************)
(* The form on a salon's page, src/src/features/public-booking/             *)
(* booking-form.tsx, in one browser tab.  The customer chooses a branch, a  *)
(* service, a specialist, a day and a time; the free days and the free      *)
(* times are fetched, a booking or a place on the waitlist is sent, and a   *)
(* code from an SMS is confirmed on the way (phone-verification-panel.tsx). *)
(* Answers come in any order, and the customer does not wait for them.      *)
(* What the server answers is free here.                                    *)
(***************************************************************************)
EXTENDS Integers, FiniteSets, Sequences

CONSTANTS
    Offers,       \* Offers[n]: the branches, the services, the specialists of step n
    Days, Times,  \* in order
    Posts,        \* requests of one kind that may be in flight at once
    Unchosen      \* the empty string

ASSUME BookingFormAssumption ==
    /\ DOMAIN Offers = 1 .. 3
    /\ Days \subseteq Nat \ {0} /\ Times \subseteq Nat \ {0} /\ 0 \notin Posts
    /\ \A n \in 1 .. 3 : Unchosen \notin Offers[n]

VARIABLES
    form,       \* what the customer sees
    stripCall,  \* the request for the free days
    slotCall,   \* requestRef.current: the last request for the times of a day
    bookCall,   \* bookCall[k]: the time a request on its way books, 0 for none
    codeCall,   \* codeCall[k]: the confirmation of a code, and what follows it (a time, to book)
    waitCall,   \* the request that joins the waitlist is in flight
    dayWanted,  \* history: the day the customer chose last, 0 for none
    lateAnswer, \* history: a choice was left while the answer for it was being applied
    leftPanel   \* history: a panel was left while its code was being confirmed

formVars == <<form, stripCall, slotCall, bookCall, codeCall, waitCall,
              dayWanted, lateAnswer, leftPanel>>

Choices == {c \in [1 .. 3 -> (UNION {Offers[n] : n \in 1 .. 3}) \cup {Unchosen}] :
              \A n \in 1 .. 3 : /\ c[n] \in Offers[n] \cup {Unchosen}
                                /\ n > 1 /\ c[n] # Unchosen => c[n - 1] # Unchosen}
Wishes == [choice : Choices, day : Days \cup {0}, time : Times \cup {0}]
NoChoice == [n \in 1 .. 3 |-> Unchosen]
NoWish == [choice |-> NoChoice, day |-> 0, time |-> 0]
Purpose == {"none", "booking", "waitlist"}

BookingFormTypeOK ==
    /\ form \in [wish : Wishes, starts : SUBSET Times, startsOf : Wishes,
                 submitting : BOOLEAN, pending : Purpose, gone : BOOLEAN,
                 panel : {"off", "sending", "ready", "confirming"}, post : Posts \cup {0},
                 waitlist : {"closed", "open", "done"}]
    /\ stripCall \in {"none", "sent"}
    /\ slotCall \in [pc : {"none", "sent", "arrived"}, of : Wishes]
    /\ bookCall \in [Posts -> Times \cup {0}]
    /\ codeCall \in [Posts -> [for : Purpose, time : Times \cup {0}]]
    /\ waitCall \in BOOLEAN
    /\ dayWanted \in Days \cup {0}
    /\ lateAnswer \in BOOLEAN /\ leftPanel \in BOOLEAN

(* A draft may bring back a branch, a service and a specialist, never a day; *)
(* the only branch is chosen from the start.                                 *)
BookingFormInit ==
    /\ \E c \in Choices :
         /\ c[1] = Unchosen => Cardinality(Offers[1]) > 1
         /\ form = [wish |-> [NoWish EXCEPT !.choice = c], starts |-> {}, startsOf |-> NoWish,
                    submitting |-> FALSE, pending |-> "none", gone |-> FALSE,
                    panel |-> "off", post |-> 0, waitlist |-> "closed"]
         /\ stripCall = IF c[3] # Unchosen THEN "sent" ELSE "none"
    /\ slotCall = [pc |-> "none", of |-> NoWish]
    /\ bookCall = [k \in Posts |-> 0]
    /\ codeCall = [k \in Posts |-> [for |-> "none", time |-> 0]]
    /\ waitCall = FALSE
    /\ dayWanted = 0
    /\ lateAnswer = FALSE /\ leftPanel = FALSE

---------------------------------------------------------------------------
(* getBookingStep: 1 to 3 for the choices, 4 for the time, 5 for the contact *)
StepOf(w) == IF w.time # 0 THEN 5
             ELSE IF \E n \in 1 .. 3 : w.choice[n] = Unchosen
             THEN CHOOSE n \in 1 .. 3 : /\ w.choice[n] = Unchosen
                                        /\ \A k \in 1 .. n - 1 : w.choice[k] # Unchosen
             ELSE 4
Step == StepOf(form.wish)
OnPage == ~form.gone
DialogClosed == form.waitlist = "closed"

(* The panel is on the page with the contacts, or in the dialog; it is made *)
(* anew each time it appears.                                               *)
HasPanel(f) == \/ f.pending = "booking" /\ StepOf(f.wish) = 5
               \/ f.pending = "waitlist" /\ f.waitlist = "open"
Rendered(f) ==
    [f EXCEPT !.panel = IF HasPanel(f) THEN IF @ = "off" THEN "sending" ELSE @ ELSE "off",
              !.post = IF HasPanel(f) THEN @ ELSE 0]
Draws(f) ==
    /\ form' = Rendered(f)
    /\ leftPanel' = (leftPanel \/ (form.panel = "confirming" /\ ~HasPanel(f)))

PostsKept == UNCHANGED <<bookCall, codeCall, waitCall>>
HistoryKept == UNCHANGED <<dayWanted, lateAnswer, leftPanel>>
FetchesKept == UNCHANGED <<stripCall, slotCall, dayWanted, lateAnswer>>

(* abort() ends a request on its way; an answer that has arrived is applied. *)
Aborted(call) == IF call.pc = "sent" THEN [call EXCEPT !.pc = "none"] ELSE call

(* Altered: a choice leaves the requests for times alone *)
NotAborted(call) == call
ClearedCall(call) == Aborted(call)

(* The new choice, clearSlots, and the effect that asks for the free days   *)
ChangesChoice(c) ==
    /\ Draws([form EXCEPT !.wish = [NoWish EXCEPT !.choice = c], !.starts = {},
                          !.startsOf = NoWish])
    /\ stripCall' = IF c[3] # Unchosen THEN "sent" ELSE "none"
    /\ slotCall' = ClearedCall(slotCall)
    /\ lateAnswer' = (lateAnswer \/ slotCall.pc = "arrived")
    /\ dayWanted' = 0
    /\ PostsKept

(* chooseBranch, chooseService, chooseStaff *)
ChoosePart(v) ==
    /\ OnPage /\ DialogClosed /\ Step \in 1 .. 3
    /\ v \in Offers[Step]
    /\ ChangesChoice([form.wish.choice EXCEPT ![Step] = v])

(* goBack; from the contacts it takes the time back, and the panel with it. *)
GoBack ==
    /\ OnPage /\ DialogClosed
    /\ \/ /\ Step \in 2 .. 4
          /\ Step = 2 => Cardinality(Offers[1]) > 1
          /\ ChangesChoice([form.wish.choice EXCEPT ![Step - 1] = Unchosen])
       \/ /\ Step = 5
          /\ Draws([form EXCEPT !.wish.time = 0])
          /\ FetchesKept /\ PostsKept

---------------------------------------------------------------------------
(***************************************************************************)
(* The free days and the free times                                         *)
(***************************************************************************)
(* loadSlots: an empty day aborts and asks for nothing. *)
LoadSlots(day) ==
    /\ Draws([form EXCEPT !.wish.day = day, !.wish.time = 0, !.starts = {},
                          !.startsOf = NoWish, !.waitlist = "closed"])
    /\ slotCall' = IF day = 0 THEN Aborted(slotCall)
                   ELSE [pc |-> "sent", of |-> [form.wish EXCEPT !.day = day, !.time = 0]]
    /\ lateAnswer' = (lateAnswer \/ (day = 0 /\ slotCall.pc = "arrived"))

PickDay(day) ==
    /\ OnPage /\ DialogClosed /\ Step = 4
    /\ LoadSlots(day)
    /\ dayWanted' = day
    /\ PostsKept /\ UNCHANGED stripCall

OpensFirstFree(firstFree) == firstFree # 0 /\ form.wish.day = 0

(* The strip; it opens the first free day, unless a day was chosen. *)
StripAnswered(firstFree) ==
    /\ OnPage /\ stripCall = "sent"
    /\ stripCall' = "none"
    /\ IF OpensFirstFree(firstFree) THEN LoadSlots(firstFree)
       ELSE UNCHANGED <<form, slotCall, lateAnswer, leftPanel>>
    /\ PostsKept /\ UNCHANGED dayWanted

SlotsArrive ==
    /\ OnPage /\ slotCall.pc = "sent"
    /\ slotCall' = [slotCall EXCEPT !.pc = "arrived"]
    /\ PostsKept /\ HistoryKept /\ UNCHANGED <<form, stripCall>>

(* The request is still the last one; a failure shows an error and no time. *)
SlotsAnswered(starts) ==
    /\ OnPage /\ slotCall.pc = "arrived"
    /\ form' = [form EXCEPT !.starts = starts, !.startsOf = slotCall.of]
    /\ slotCall' = [slotCall EXCEPT !.pc = "none"]
    /\ PostsKept /\ HistoryKept /\ UNCHANGED stripCall

(* The contacts appear, with the panel when a code is still asked for. *)
PickTime(time) ==
    /\ OnPage /\ DialogClosed /\ Step = 4 /\ time \in form.starts
    /\ Draws([form EXCEPT !.wish.time = time])
    /\ FetchesKept /\ PostsKept

---------------------------------------------------------------------------
(***************************************************************************)
(* Booking                                                                  *)
(***************************************************************************)
SendsBooking(k, time) ==
    /\ bookCall[k] = 0
    /\ bookCall' = [bookCall EXCEPT ![k] = time]

SubmitEnabled == Step = 5 /\ form.pending # "booking" /\ ~form.submitting

(* createBooking *)
SubmitBooking(k) ==
    /\ OnPage /\ DialogClosed /\ SubmitEnabled
    /\ SendsBooking(k, form.wish.time)
    /\ form' = [form EXCEPT !.submitting = TRUE]
    /\ FetchesKept /\ UNCHANGED <<codeCall, waitCall, leftPanel>>

(* 201 leaves the page; 403 asks for a code; 409 takes the time off the     *)
(* list; anything else, also a lost answer, is an error message.            *)
BookingAnswered(k, answer) ==
    /\ OnPage /\ bookCall[k] # 0
    /\ bookCall' = [bookCall EXCEPT ![k] = 0]
    /\ LET settled == [form EXCEPT !.submitting = FALSE] IN
       Draws(CASE answer = "created"  -> [settled EXCEPT !.gone = TRUE]
               [] answer = "verify"   -> [settled EXCEPT !.pending = "booking"]
               [] answer = "conflict" -> [settled EXCEPT !.wish.time = 0,
                                            !.starts = @ \ {bookCall[k]}]
               [] answer = "error"    -> settled)
    /\ FetchesKept /\ UNCHANGED <<codeCall, waitCall>>

---------------------------------------------------------------------------
(***************************************************************************)
(* The waitlist, offered when a day has no free time                        *)
(***************************************************************************)
OpenWaitlist ==
    /\ OnPage /\ DialogClosed /\ Step = 4
    /\ form.wish.day # 0 /\ form.starts = {} /\ slotCall.pc = "none"
    /\ Draws([form EXCEPT !.waitlist = "open", !.pending = "none"])
    /\ FetchesKept /\ PostsKept

SubmitWaitlist ==
    /\ OnPage /\ form.waitlist = "open" /\ form.pending # "waitlist" /\ ~waitCall
    /\ waitCall' = TRUE
    /\ FetchesKept /\ UNCHANGED <<form, bookCall, codeCall, leftPanel>>

WaitlistAnswered(answer) ==
    /\ OnPage /\ waitCall
    /\ waitCall' = FALSE
    /\ Draws(CASE answer = "joined" -> [form EXCEPT !.pending = "none",
                                          !.waitlist = IF @ = "open" THEN "done" ELSE @]
            [] answer = "verify" -> [form EXCEPT !.pending = "waitlist"]
            [] answer = "error"  -> form)
    /\ FetchesKept /\ UNCHANGED <<bookCall, codeCall>>

CloseWaitlist ==
    /\ OnPage /\ ~DialogClosed
    /\ Draws([form EXCEPT !.waitlist = "closed"])
    /\ FetchesKept /\ PostsKept

---------------------------------------------------------------------------
(***************************************************************************)
(* The panel for the code                                                   *)
(***************************************************************************)
(* sendCode, on mount and again; without an answer the field stays disabled. *)
CodeSent ==
    /\ OnPage /\ form.panel = "sending"
    /\ form' = [form EXCEPT !.panel = "ready"]
    /\ FetchesKept /\ PostsKept /\ UNCHANGED leftPanel

EnterCode(k) ==
    /\ OnPage /\ form.panel = "ready"
    /\ codeCall[k].for = "none"
    /\ codeCall' = [codeCall EXCEPT ![k] = [for |-> form.pending,
                                           time |-> IF form.pending = "booking" THEN form.wish.time ELSE 0]]
    /\ form' = [form EXCEPT !.panel = "confirming", !.post = k]
    /\ FetchesKept /\ UNCHANGED <<bookCall, waitCall, leftPanel>>

(* onVerified goes on with the wish of the render that the panel was in,    *)
(* also when the panel is gone by now.                                      *)
CodeConfirmed(k, p) ==
    /\ OnPage /\ codeCall[k].for # "none"
    /\ IF codeCall[k].for = "booking"
       THEN /\ SendsBooking(p, codeCall[k].time)
            /\ form' = Rendered([form EXCEPT !.pending = "none", !.submitting = TRUE])
            /\ UNCHANGED waitCall
       ELSE /\ waitCall' = TRUE
            /\ form' = Rendered([form EXCEPT !.pending = "none"])
            /\ UNCHANGED bookCall
    /\ codeCall' = [codeCall EXCEPT ![k] = [for |-> "none", time |-> 0]]
    /\ FetchesKept /\ UNCHANGED leftPanel

CodeRefused(k) ==
    /\ OnPage /\ codeCall[k].for # "none"
    /\ codeCall' = [codeCall EXCEPT ![k] = [for |-> "none", time |-> 0]]
    /\ form' = IF form.post = k THEN [form EXCEPT !.panel = "ready", !.post = 0] ELSE form
    /\ FetchesKept /\ UNCHANGED <<bookCall, waitCall, leftPanel>>

BookingFormNext ==
    \/ \E v \in UNION {Offers[n] : n \in 1 .. 3} : ChoosePart(v)
    \/ GoBack
    \/ \E d \in Days \cup {0} : PickDay(d) \/ StripAnswered(d)
    \/ SlotsArrive \/ \E S \in SUBSET Times : SlotsAnswered(S)
    \/ \E time \in Times : PickTime(time)
    \/ \E k \in Posts : SubmitBooking(k) \/ EnterCode(k) \/ CodeRefused(k)
    \/ \E k \in Posts, a \in {"created", "verify", "conflict", "error"} : BookingAnswered(k, a)
    \/ \E k, p \in Posts : CodeConfirmed(k, p)
    \/ OpenWaitlist \/ SubmitWaitlist \/ CloseWaitlist \/ CodeSent
    \/ \E a \in {"joined", "verify", "error"} : WaitlistAnswered(a)

BookingFormSpec == BookingFormInit /\ [][BookingFormNext]_formVars

---------------------------------------------------------------------------
(* The times on the page are those of the chosen specialist and day, in     *)
(* whatever order answers come (requestRef, clearSlots), unless a choice    *)
(* was changed in the moment its answer was being applied: loadSlots looks  *)
(* at requestRef, which a new choice does not replace.                      *)
(*                                                                          *)
(* "reading `date` from the closure would then quietly move them off it"    *)
(* (chosenDateRef): the strip never moves the customer off a chosen day.    *)
(*                                                                          *)
(* The form asks for one booking at a time, so a customer who presses twice *)
(* or goes back holds one time, unless a panel was left while its code was  *)
(* being confirmed: its answer still books the time that was left.          *)
FormKeepsItsChoice ==
    /\ form.starts # {} => lateAnswer \/ form.startsOf = [form.wish EXCEPT !.time = 0]
    /\ dayWanted # 0 => form.wish.day = dayWanted
    /\ leftPanel \/ \A k, p \in Posts : bookCall[k] # 0 /\ bookCall[p] # 0 => k = p
===========================================================================
