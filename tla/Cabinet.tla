------------------------------ MODULE Cabinet ------------------------------
(***************************************************************************)
(* The customer's own pages, on a phone that several customers share: the   *)
(* list of visits behind a number that an SMS proved (src/src/app/my,       *)
(* src/src/features/customer-visits), its session cookie                    *)
(* (src/src/core/customers), the buttons that cancel a visit, and the       *)
(* signed link under which a visit is moved (src/src/app/reschedule).       *)
(* What is drawn is a picture of the rows at some earlier moment, drawn for *)
(* whoever was signed in then; requests carry the cookie of the moment they *)
(* are sent.  Codes are as in PhoneVerification, without their clock; free  *)
(* times and racing moves are those of SlotAllocation.                      *)
(***************************************************************************)
EXTENDS Integers, Sequences

CONSTANTS
    Phones,     \* numbers of customers
    Records,    \* visits
    Holder,     \* the number that each visit was booked with
    NoNumber,     \* no number
    FreeHours,  \* freeCancellationHours
    MoveLimit,  \* maxCustomerReschedules
    MaxCodes,   \* codes sent (a bound)
    LastHour    \* the clock stops here (a bound)

ASSUME CabinetAssumption ==
    /\ Holder \in [Records -> Phones] /\ NoNumber \notin Phones
    /\ {FreeHours, MoveLimit, MaxCodes, LastHour} \subseteq Nat /\ LastHour > 1

VARIABLES
    hour,       \* the clock
    record,     \* Booking
    smsCode,    \* PhoneVerification rows of purpose CUSTOMER_LOGIN, by number of sending
    cookie,     \* the number in the signed session cookie
    login,      \* CustomerLoginForm
    list,       \* VisitList as it was drawn, with the requests of its cards
    mover,      \* the tab with the reschedule form
    proven,     \* history: numbers whose code was typed in this browser
    touched     \* history: visits cancelled or moved from this browser

cabinetVars == <<hour, record, smsCode, cookie, login, list, mover, proven, touched>>

Hours == 1 .. LastHour
Requests == [visit : Records, as : Phones \cup {NoNumber}]
NoSms == 0
NoRecord == 0
NoTime == 0
EmptyForm == [phone |-> NoNumber, id |-> NoSms, busy |-> "no"]
SignedOutPage == [for |-> NoNumber, cancels |-> {}, links |-> {}, asking |-> {}, posted |-> {}]
NoMover == [visit |-> NoRecord, until |-> 0, offered |-> NoTime,
            sent |-> {}]

CabinetTypeOK ==
    /\ hour \in 0 .. LastHour
    /\ record \in [Records -> [live : BOOLEAN, start : Hours, moves : 0 .. MoveLimit]]
    /\ \A c \in DOMAIN smsCode : smsCode[c].phone \in Phones
                                 /\ smsCode[c].status \in {"PENDING", "EXPIRED", "CONSUMED"}
    /\ cookie \in Phones \cup {NoNumber} /\ login.id \in {NoSms} \cup DOMAIN smsCode
    /\ list.cancels \cup list.asking \subseteq Records /\ list.posted \subseteq Requests
    /\ \A link \in list.links : link.visit \in Records
    /\ mover.visit \in {NoRecord} \cup Records /\ mover.sent \subseteq Hours
    /\ proven \subseteq Phones /\ touched \subseteq Records

CabinetInit ==
    /\ hour = 0
    /\ record = [v \in Records |-> [live |-> TRUE, start |-> LastHour - 1, moves |-> 0]]
    /\ smsCode = <<>> /\ cookie = NoNumber
    /\ login = EmptyForm /\ list = SignedOutPage /\ mover = NoMover
    /\ proven = {} /\ touched = {}

---------------------------------------------------------------------------
(***************************************************************************)
(* The rules of the salon, and the page /my as the server draws it.         *)
(***************************************************************************)
IsWithinChangeWindow(start) == FreeHours = 0 \/ start - hour >= FreeHours
MayMove(v) == IsWithinChangeWindow(record[v].start) /\ record[v].moves < MoveLimit

(* "The token dies when the visit starts": as it starts when it is drawn     *)
LinkTo(v, rows) == [visit |-> v, until |-> rows[v].start]

VisitsDrawn(phone, rows) ==
    LET mine == {v \in Records : Holder[v] = phone /\ rows[v].live /\ rows[v].start >= hour}
        open == {v \in mine : IsWithinChangeWindow(rows[v].start)}
    IN  [SignedOutPage EXCEPT
           !.for = phone, !.cancels = open,
           !.links = {LinkTo(v, rows) : v \in {w \in open : rows[w].moves < MoveLimit}}]

(* Requests outlive the page that sent them; a card is kept by its visit.   *)
Refreshed(page, phone, rows) ==
    LET drawn == VisitsDrawn(phone, rows)
    IN  [drawn EXCEPT !.asking = page.asking \cap drawn.cancels, !.posted = page.posted]

HistoriesStay == UNCHANGED <<proven, touched>>

OpenMyVisits ==
    /\ list' = Refreshed([list EXCEPT !.asking = {}], cookie, record) /\ login' = EmptyForm
    /\ UNCHANGED <<hour, record, smsCode, cookie, mover>> /\ HistoriesStay

SignOut ==
    /\ list.for # NoNumber
    /\ cookie' = NoNumber /\ list' = Refreshed(list, NoNumber, record) /\ login' = EmptyForm
    /\ UNCHANGED <<hour, record, smsCode, mover>> /\ HistoriesStay

(* In another tab, or because the session is sixty days old: the page that  *)
(* is open notices nothing.                                                 *)
CookieGone ==
    /\ cookie # NoNumber /\ cookie' = NoNumber
    /\ UNCHANGED <<hour, record, smsCode, login, list, mover>> /\ HistoriesStay

---------------------------------------------------------------------------
(***************************************************************************)
(* Signing in.  The number may be edited while the field of the code is     *)
(* open; a second request within the cooldown keeps the code that is known. *)
(***************************************************************************)
FormShown == list.for = NoNumber /\ login.busy = "no"

TypePhone(phone) ==
    /\ FormShown /\ phone # login.phone
    /\ login' = [login EXCEPT !.phone = phone]
    /\ UNCHANGED <<hour, record, smsCode, cookie, list, mover>> /\ HistoriesStay

(* The older code is closed first, also when the SMS cannot be sent.        *)
WithCode(phone, status) ==
    Append([c \in DOMAIN smsCode |->
              IF smsCode[c] = [phone |-> phone, status |-> "PENDING"]
                THEN [smsCode[c] EXCEPT !.status = "EXPIRED"] ELSE smsCode[c]],
           [phone |-> phone, status |-> status])

SendCode ==
    /\ FormShown /\ login.phone # NoNumber /\ Len(smsCode) < MaxCodes
    /\ \/ /\ smsCode' = WithCode(login.phone, "PENDING")
          /\ login' = [login EXCEPT !.id = Len(smsCode')]
       \/ /\ smsCode' = WithCode(login.phone, "EXPIRED")
          /\ login' = login
    /\ UNCHANGED <<hour, record, cookie, list, mover>> /\ HistoriesStay

(* The six digits that the SMS of this code brought *)
Confirm ==
    /\ FormShown /\ login.id # NoSms
    /\ login' = [login EXCEPT !.busy = "confirm"]
    /\ UNCHANGED <<hour, record, smsCode, cookie, list, mover>> /\ HistoriesStay

\* Altered: the code is looked up by its id only.
CodeById(row, phone) == row.status = "PENDING"

CodeFits(row, phone) == row.status = "PENDING" /\ row.phone = phone

VerifyLogin ==
    /\ login.busy = "confirm" /\ CodeFits(smsCode[login.id], login.phone)
    /\ smsCode' = [smsCode EXCEPT ![login.id].status = "CONSUMED"]
    /\ cookie' = login.phone
    /\ proven' = proven \cup {smsCode[login.id].phone}
    /\ list' = Refreshed(list, cookie', record) /\ login' = EmptyForm
    /\ UNCHANGED <<hour, record, mover, touched>>

(* Another number, a wrong code, a code that is spent, or no answer         *)
LoginRefused ==
    /\ login.busy = "confirm" /\ login' = [login EXCEPT !.busy = "no"]
    /\ UNCHANGED <<hour, record, smsCode, cookie, list, mover>> /\ HistoriesStay

---------------------------------------------------------------------------
(***************************************************************************)
(* Cancelling: the card asks, posts, and the page is refreshed.             *)
(***************************************************************************)
AskToCancel(v) ==
    /\ v \in list.cancels \ list.asking
    /\ list' = [list EXCEPT !.asking = @ \cup {v}]
    /\ UNCHANGED <<hour, record, smsCode, cookie, login, mover>> /\ HistoriesStay

Keep(v) ==
    /\ v \in list.asking /\ list' = [list EXCEPT !.asking = @ \ {v}]
    /\ UNCHANGED <<hour, record, smsCode, cookie, login, mover>> /\ HistoriesStay

PostCancel(v) ==
    /\ v \in list.asking /\ \A request \in list.posted : request.visit # v
    /\ list' = [list EXCEPT !.posted = @ \cup {[visit |-> v, as |-> cookie]}]
    /\ UNCHANGED <<hour, record, smsCode, cookie, login, mover>> /\ HistoriesStay

Answered(request) ==
    [list EXCEPT !.posted = @ \ {request}, !.asking = @ \ {request.visit}]

CancelVisit(request) ==
    /\ record[request.visit].live /\ Holder[request.visit] = request.as
    /\ IsWithinChangeWindow(record[request.visit].start)
    /\ record' = [record EXCEPT ![request.visit].live = FALSE]
    /\ touched' = touched \cup {request.visit}
    /\ list' = Refreshed(Answered(request), cookie, record')
    /\ UNCHANGED <<hour, smsCode, cookie, login, mover, proven>>

(* Signed out, not this number's, over, too late, or no answer *)
CancelRefused(request) ==
    /\ list' = Answered(request)
    /\ UNCHANGED <<hour, record, smsCode, cookie, login, mover>> /\ HistoriesStay

---------------------------------------------------------------------------
(***************************************************************************)
(* Moving: the link opens a page of its own, which nobody has to be signed  *)
(* in for.  Its buttons stay enabled while a choice is on its way.          *)
(***************************************************************************)
OpenMover(link) ==
    /\ link \in list.links /\ link.until > hour /\ record[link.visit].live
    /\ mover' = [NoMover EXCEPT !.visit = link.visit, !.until = link.until]
    /\ UNCHANGED <<hour, record, smsCode, cookie, login, list>> /\ HistoriesStay

(* The times of a date; an answer about a date that was left is dropped,     *)
(* and a date that is over, or a request that fails, offers nothing.        *)
TimesArrive(day) ==
    /\ mover.visit # NoRecord /\ day > hour
    /\ mover' = [mover EXCEPT !.offered = day]
    /\ UNCHANGED <<hour, record, smsCode, cookie, login, list>> /\ HistoriesStay

DateCleared ==
    /\ mover.offered # NoTime /\ mover' = [mover EXCEPT !.offered = NoTime]
    /\ UNCHANGED <<hour, record, smsCode, cookie, login, list>> /\ HistoriesStay

PressTime ==
    /\ mover.offered # NoTime
    /\ mover' = [mover EXCEPT !.sent = @ \cup {mover.offered}]
    /\ UNCHANGED <<hour, record, smsCode, cookie, login, list>> /\ HistoriesStay

LinkWorks == mover.until > hour /\ record[mover.visit].live

MoveVisit(start) ==
    /\ start \in mover.sent
    /\ LinkWorks /\ MayMove(mover.visit) /\ start > hour
    /\ record' = [record EXCEPT ![mover.visit].start = start, ![mover.visit].moves = @ + 1]
    /\ touched' = touched \cup {mover.visit}
    /\ mover' = [mover EXCEPT !.sent = @ \ {start}, !.offered = NoTime]
    /\ UNCHANGED <<hour, smsCode, cookie, login, list, proven>>

(* Only a refusal by the salon's rules takes the offered times away.        *)
LinkMoveRefused(start) ==
    /\ start \in mover.sent
    /\ mover' = [mover EXCEPT !.sent = @ \ {start},
                              !.offered = IF LinkWorks /\ ~MayMove(mover.visit) THEN NoTime ELSE @]
    /\ UNCHANGED <<hour, record, smsCode, cookie, login, list>> /\ HistoriesStay

---------------------------------------------------------------------------
HourPasses ==
    /\ hour < LastHour /\ hour' = hour + 1
    /\ UNCHANGED <<record, smsCode, cookie, login, list, mover>> /\ HistoriesStay

CabinetNext ==
    \/ OpenMyVisits \/ SignOut \/ CookieGone \/ HourPasses
    \/ \E phone \in Phones : TypePhone(phone)
    \/ SendCode \/ Confirm \/ VerifyLogin \/ LoginRefused
    \/ \E v \in Records : AskToCancel(v) \/ Keep(v) \/ PostCancel(v)
    \/ \E request \in list.posted : CancelVisit(request) \/ CancelRefused(request)
    \/ \E link \in list.links : OpenMover(link)
    \/ \E h \in Hours : TimesArrive(h) \/ MoveVisit(h) \/ LinkMoveRefused(h)
    \/ DateCleared \/ PressTime

CabinetSpec == CabinetInit /\ [][CabinetNext]_cabinetVars

---------------------------------------------------------------------------
(* "Signing out matters on a shared phone": whatever pages, links and       *)
(* requests of one customer are still open when the next one signs in, and  *)
(* however the number was edited on the way, the browser is signed in under *)
(* a number only after the code sent to that number was typed in it, and    *)
(* from it only visits of such numbers are cancelled or moved.              *)
CabinetIsTheirOwn ==
    /\ cookie # NoNumber => cookie \in proven
    /\ \A v \in touched : Holder[v] \in proven
=============================================================================
