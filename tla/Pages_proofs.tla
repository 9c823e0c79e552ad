------------------------------ MODULE Pages_proofs ------------------------------
(***************************************************************************)
(* What holds, for every value of the constants, of the pages that people   *)
(* look at while others act: a customer's own page, the receptionist's      *)
(* dialogs, the calendar that is dragged on, the review of receipts, the    *)
(* price of a visit and the form that books it.                             *)
(*                                                                          *)
(* Each part states what always holds of a page as one inductive invariant, *)
(* shows that every step keeps it, and ends in the theorem.                 *)
(***************************************************************************)
EXTENDS Cabinet, CalendarBoard, VisitDesk, ReviewDesk, PromoCodes, BookingForm,
        FiniteSetTheorems, WellFoundedInduction, TLAPS

---------------------------------------------------------------------------
(***************************************************************************)
(* Cabinet: whose cookie, links, requests and moves there are.              *)
(***************************************************************************)
CabinetPages ==
    /\ list = [for |-> list.for, cancels |-> list.cancels, links |-> list.links,
               asking |-> list.asking, posted |-> list.posted]
    /\ mover = [visit |-> mover.visit, until |-> mover.until, offered |-> mover.offered,
                sent |-> mover.sent]

LinksProven(page, known) == \A link \in page.links : Holder[link.visit] \in known

PostsProven(page, known) ==
    \A request \in page.posted : request.visit \in Records /\ request.as \in known \cup {NoNumber}

MoverProven(tab, known) ==
    (tab.visit # NoRecord \/ tab.offered # NoTime \/ tab.sent # {}) => Holder[tab.visit] \in known

CabinetInv ==
    /\ CabinetPages
    /\ cookie \in proven \cup {NoNumber}
    /\ \A v \in touched : Holder[v] \in proven
    /\ LinksProven(list, proven) /\ PostsProven(list, proven) /\ MoverProven(mover, proven)

(* The page drawn for a number has links to its visits only, and hands the  *)
(* requests on.                                                             *)
LEMMA DrawnForItsNumber ==
    ASSUME NEW page, NEW phone, NEW rows, NEW known,
           phone \in known \cup {NoNumber}, PostsProven(page, known)
    PROVE  LET drawn == Refreshed(page, phone, rows) IN
           /\ drawn = [for |-> drawn.for, cancels |-> drawn.cancels, links |-> drawn.links,
                       asking |-> drawn.asking, posted |-> drawn.posted]
           /\ LinksProven(drawn, known) /\ PostsProven(drawn, known)
<1> DEFINE open == {v \in {w \in Records : Holder[w] = phone /\ rows[w].live /\ rows[w].start >= hour} :
                      IsWithinChangeWindow(rows[v].start)}
           drawn == Refreshed(page, phone, rows)
           links == {LinkTo(v, rows) : v \in {w \in open : rows[w].moves < MoveLimit}}
<1>a. VisitsDrawn(phone, rows)
      = [SignedOutPage EXCEPT !.for = phone, !.cancels = open, !.links = links]
  BY DEF VisitsDrawn
<1>b. drawn = [VisitsDrawn(phone, rows) EXCEPT
                 !.asking = page.asking \cap VisitsDrawn(phone, rows).cancels,
                 !.posted = page.posted]
  BY DEF Refreshed
<1>2. ASSUME NEW link \in links PROVE Holder[link.visit] \in known
  <2>1. PICK v \in open : link = LinkTo(v, rows)
    OBVIOUS
  <2>2. link.visit = v
    BY <2>1 DEF LinkTo
  <2>3. v \in Records /\ Holder[v] = phone
    OBVIOUS
  <2> QED
    BY <2>2, <2>3, CabinetAssumption
<1> HIDE DEF open, links, drawn
<1>1. drawn = [for |-> phone, cancels |-> open, links |-> links,
               asking |-> page.asking \cap open, posted |-> page.posted]
  <2>1. VisitsDrawn(phone, rows) = [for |-> phone, cancels |-> open, links |-> links,
                                    asking |-> {}, posted |-> {}]
    BY <1>a DEF SignedOutPage
  <2>2. PICK asks, posts : asks = page.asking \cap open /\ posts = page.posted
    OBVIOUS
  <2>3. PICK base : base = VisitsDrawn(phone, rows)
    OBVIOUS
  <2>4. base.cancels = open
    BY <2>1, <2>3
  <2>5. drawn = [base EXCEPT !.asking = asks, !.posted = posts]
    BY <1>b, <2>2, <2>3, <2>4
  <2>6. PICK asked : asked = [base EXCEPT !.asking = asks]
    OBVIOUS
  <2>7. asked = [for |-> phone, cancels |-> open, links |-> links, asking |-> asks, posted |-> {}]
    BY <2>1, <2>3, <2>6
  <2>8. drawn = [asked EXCEPT !.posted = posts]
    BY <2>5, <2>6
  <2> QED
    BY <2>2, <2>7, <2>8
<1>3. LinksProven(drawn, known)
  BY <1>1, <1>2 DEF LinksProven
<1>4. PostsProven(drawn, known)
  BY <1>1 DEF PostsProven
<1>5. drawn = Refreshed(page, phone, rows)
  BY DEF drawn
<1> QED
  BY <1>1, <1>3, <1>4, <1>5

LEMMA CabinetStarts == CabinetInit => CabinetInv
BY DEF CabinetInit, CabinetInv, CabinetPages, LinksProven, PostsProven, MoverProven,
       SignedOutPage, NoMover

(* Steps of the list that leave the mover, the links and the histories alone *)
LEMMA ListStep ==
    ASSUME CabinetInv, UNCHANGED <<cookie, proven, touched, mover>>,
           list' = [for |-> list'.for, cancels |-> list'.cancels, links |-> list'.links,
                    asking |-> list'.asking, posted |-> list'.posted],
           LinksProven(list', proven), PostsProven(list', proven)
    PROVE  CabinetInv'
BY DEF CabinetInv, CabinetPages, LinksProven, PostsProven, MoverProven

(* Steps of the tab that moves a visit                                      *)
LEMMA MoverStep ==
    ASSUME CabinetInv, UNCHANGED <<cookie, proven, touched, list>>,
           mover' = [visit |-> mover'.visit, until |-> mover'.until, offered |-> mover'.offered,
                     sent |-> mover'.sent],
           MoverProven(mover', proven)
    PROVE  CabinetInv'
BY DEF CabinetInv, CabinetPages, LinksProven, PostsProven, MoverProven

LEMMA CabinetRedrawn ==
    ASSUME CabinetInv, OpenMyVisits \/ SignOut
    PROVE  CabinetInv'
<1>1. PICK page : /\ PostsProven(page, proven)
                  /\ list' = Refreshed(page, cookie', record)
  <2>1. CASE OpenMyVisits
    <3>1. [list EXCEPT !.asking = {}].posted = list.posted
      BY DEF CabinetInv, CabinetPages
    <3>2. PostsProven([list EXCEPT !.asking = {}], proven)
      BY <3>1 DEF CabinetInv, PostsProven
    <3> QED
      BY <2>1, <3>2 DEF OpenMyVisits
  <2>2. CASE SignOut
    BY <2>2 DEF SignOut, CabinetInv
  <2> QED
    BY <2>1, <2>2
<1>2. /\ cookie' \in proven \cup {NoNumber}
      /\ UNCHANGED <<mover, proven, touched>>
  BY DEF OpenMyVisits, SignOut, HistoriesStay, CabinetInv
<1>3. /\ list' = [for |-> list'.for, cancels |-> list'.cancels, links |-> list'.links,
                  asking |-> list'.asking, posted |-> list'.posted]
      /\ LinksProven(list', proven) /\ PostsProven(list', proven)
  BY <1>1, <1>2, DrawnForItsNumber
<1> QED
  BY <1>2, <1>3 DEF CabinetInv, CabinetPages, LinksProven, PostsProven, MoverProven

(* The code that was typed was sent to the number that is signed in.        *)
LEMMA SignedInByItsCode ==
    ASSUME CabinetInv, VerifyLogin
    PROVE  CabinetInv'
<1>1. /\ cookie' = login.phone /\ login.phone \in proven' /\ proven \subseteq proven'
      /\ UNCHANGED <<mover, touched>> /\ list' = Refreshed(list, cookie', record)
  BY DEF VerifyLogin, CodeFits
<1>2. PostsProven(list, proven')
  BY <1>1 DEF CabinetInv, PostsProven
<1>3. /\ list' = [for |-> list'.for, cancels |-> list'.cancels, links |-> list'.links,
                  asking |-> list'.asking, posted |-> list'.posted]
      /\ LinksProven(list', proven') /\ PostsProven(list', proven')
  BY <1>1, <1>2, DrawnForItsNumber
<1> QED
  BY <1>1, <1>3 DEF CabinetInv, CabinetPages, LinksProven, PostsProven, MoverProven

LEMMA CabinetAsks ==
    ASSUME CabinetInv, NEW v \in Records, AskToCancel(v) \/ Keep(v) \/ PostCancel(v)
    PROVE  CabinetInv'
<1>1. PICK asking, posted :
        /\ list' = [list EXCEPT !.asking = asking, !.posted = posted]
        /\ posted \subseteq list.posted \cup {[visit |-> v, as |-> cookie]}
  <2>1. CASE AskToCancel(v)
    <3>1. list' = [list EXCEPT !.asking = list.asking \cup {v}, !.posted = list.posted]
      BY <2>1 DEF AskToCancel, CabinetInv, CabinetPages
    <3> QED
      BY <3>1
  <2>2. CASE Keep(v)
    <3>1. list' = [list EXCEPT !.asking = list.asking \ {v}, !.posted = list.posted]
      BY <2>2 DEF Keep, CabinetInv, CabinetPages
    <3> QED
      BY <3>1
  <2>3. CASE PostCancel(v)
    <3>1. list' = [list EXCEPT !.asking = list.asking,
                               !.posted = list.posted \cup {[visit |-> v, as |-> cookie]}]
      BY <2>3 DEF PostCancel, CabinetInv, CabinetPages
    <3> QED
      BY <3>1
  <2> QED
    BY <2>1, <2>2, <2>3
<1>2. /\ list'.links = list.links /\ list'.posted = posted
      /\ list' = [for |-> list'.for, cancels |-> list'.cancels, links |-> list'.links,
                  asking |-> list'.asking, posted |-> list'.posted]
  BY <1>1 DEF CabinetInv, CabinetPages
<1>3. LinksProven(list', proven) /\ PostsProven(list', proven)
  BY <1>1, <1>2 DEF CabinetInv, LinksProven, PostsProven
<1>4. UNCHANGED <<cookie, proven, touched, mover>>
  BY DEF AskToCancel, Keep, PostCancel, HistoriesStay
<1> QED
  BY <1>2, <1>3, <1>4, ListStep

LEMMA CabinetCancels ==
    ASSUME CabinetInv, NEW request \in list.posted, CancelVisit(request) \/ CancelRefused(request)
    PROVE  CabinetInv'
<1> DEFINE rest == Answered(request)
<1>1. /\ rest.posted \subseteq list.posted /\ rest.links = list.links
      /\ rest = [for |-> rest.for, cancels |-> rest.cancels, links |-> rest.links,
                 asking |-> rest.asking, posted |-> rest.posted]
  <2>1. rest = [for |-> list.for, cancels |-> list.cancels, links |-> list.links,
                asking |-> list.asking \ {request.visit}, posted |-> list.posted \ {request}]
    <3>1. PICK asks, posts : /\ asks = list.asking \ {request.visit}
                             /\ posts = list.posted \ {request}
      OBVIOUS
    <3>2. rest = [list EXCEPT !.posted = posts, !.asking = asks]
      BY <3>1 DEF Answered
    <3> HIDE DEF rest
    <3> QED
      BY <3>1, <3>2 DEF CabinetInv, CabinetPages
  <2> HIDE DEF rest
  <2> QED
    BY <2>1
<1> HIDE DEF rest
<1>2. LinksProven(rest, proven) /\ PostsProven(rest, proven)
  BY <1>1 DEF CabinetInv, LinksProven, PostsProven
<1>3. CASE CancelVisit(request)
  <2>1. /\ list' = Refreshed(rest, cookie, record') /\ touched' = touched \cup {request.visit}
        /\ Holder[request.visit] = request.as /\ UNCHANGED <<cookie, mover, proven>>
    BY <1>3 DEF CancelVisit, rest
  <2>2. Holder[request.visit] \in proven
    BY <2>1, CabinetAssumption DEF CabinetInv, PostsProven
  <2>3. cookie \in proven \cup {NoNumber}
    BY DEF CabinetInv
  <2>4. /\ list' = [for |-> list'.for, cancels |-> list'.cancels, links |-> list'.links,
                    asking |-> list'.asking, posted |-> list'.posted]
        /\ LinksProven(list', proven) /\ PostsProven(list', proven)
    BY <1>2, <2>1, <2>3, DrawnForItsNumber
  <2> QED
    BY <2>1, <2>2, <2>4 DEF CabinetInv, CabinetPages, LinksProven, PostsProven, MoverProven
<1>4. CASE CancelRefused(request)
  <2>1. list' = rest /\ UNCHANGED <<cookie, proven, touched, mover>>
    BY <1>4 DEF CancelRefused, HistoriesStay, rest
  <2> QED
    BY <1>1, <1>2, <2>1, ListStep
<1> QED
  BY <1>3, <1>4

LEMMA CabinetMoves ==
    ASSUME CabinetInv,
           \/ \E link \in list.links : OpenMover(link)
           \/ \E h \in Hours : TimesArrive(h) \/ MoveVisit(h) \/ LinkMoveRefused(h)
           \/ DateCleared \/ PressTime
    PROVE  CabinetInv'
<1>1. ASSUME NEW link \in list.links, OpenMover(link) PROVE CabinetInv'
  <2>1. /\ mover' = [visit |-> link.visit, until |-> link.until, offered |-> NoTime, sent |-> {}]
        /\ UNCHANGED <<cookie, proven, touched, list>>
    BY <1>1 DEF OpenMover, NoMover, HistoriesStay
  <2>2. Holder[link.visit] \in proven
    BY DEF CabinetInv, LinksProven
  <2>3. MoverProven(mover', proven)
    BY <2>1, <2>2 DEF MoverProven
  <2> QED
    BY <2>1, <2>3, MoverStep
<1>2. ASSUME NEW h \in Hours, TimesArrive(h) PROVE CabinetInv'
  <2>1. /\ mover' = [mover EXCEPT !.offered = h] /\ mover.visit # NoRecord
        /\ UNCHANGED <<cookie, proven, touched, list>>
    BY <1>2 DEF TimesArrive, HistoriesStay
  <2>2. /\ mover' = [visit |-> mover'.visit, until |-> mover'.until, offered |-> mover'.offered,
                     sent |-> mover'.sent]
        /\ mover'.visit = mover.visit
    BY <2>1 DEF CabinetInv, CabinetPages
  <2>3. MoverProven(mover', proven)
    BY <2>1, <2>2 DEF MoverProven, CabinetInv
  <2> QED
    BY <2>1, <2>2, <2>3, MoverStep
<1>3. ASSUME NEW h \in Hours, MoveVisit(h) PROVE CabinetInv'
  <2>1. /\ mover' = [mover EXCEPT !.sent = mover.sent \ {h}, !.offered = NoTime]
        /\ h \in mover.sent /\ touched' = touched \cup {mover.visit}
        /\ UNCHANGED <<cookie, proven, list>>
    BY <1>3 DEF MoveVisit, CabinetInv, CabinetPages
  <2>2. /\ mover' = [visit |-> mover'.visit, until |-> mover'.until, offered |-> mover'.offered,
                     sent |-> mover'.sent]
        /\ mover'.visit = mover.visit
    BY <2>1 DEF CabinetInv, CabinetPages
  <2>3. Holder[mover.visit] \in proven
    BY <2>1 DEF MoverProven, CabinetInv
  <2>4. MoverProven(mover', proven)
    BY <2>2, <2>3 DEF MoverProven
  <2> QED
    BY <2>1, <2>2, <2>3, <2>4 DEF CabinetInv, CabinetPages, LinksProven, PostsProven
<1>4. ASSUME NEW h \in Hours, LinkMoveRefused(h) PROVE CabinetInv'
  <2>1. /\ h \in mover.sent /\ UNCHANGED <<cookie, proven, touched, list>>
        /\ mover' = [visit |-> mover'.visit, until |-> mover'.until, offered |-> mover'.offered,
                     sent |-> mover'.sent]
        /\ mover'.visit = mover.visit
    BY <1>4 DEF LinkMoveRefused, HistoriesStay, CabinetInv, CabinetPages
  <2>2. MoverProven(mover', proven)
    BY <2>1 DEF MoverProven, CabinetInv
  <2> QED
    BY <2>1, <2>2, MoverStep
<1>5. ASSUME DateCleared PROVE CabinetInv'
  <2>1. /\ mover.offered # NoTime /\ UNCHANGED <<cookie, proven, touched, list>>
        /\ mover' = [visit |-> mover'.visit, until |-> mover'.until, offered |-> mover'.offered,
                     sent |-> mover'.sent]
        /\ mover'.visit = mover.visit
    BY <1>5 DEF DateCleared, HistoriesStay, CabinetInv, CabinetPages
  <2>2. MoverProven(mover', proven)
    BY <2>1 DEF MoverProven, CabinetInv
  <2> QED
    BY <2>1, <2>2, MoverStep
<1>6. ASSUME PressTime PROVE CabinetInv'
  <2>1. /\ mover.offered # NoTime /\ UNCHANGED <<cookie, proven, touched, list>>
        /\ mover' = [visit |-> mover'.visit, until |-> mover'.until, offered |-> mover'.offered,
                     sent |-> mover'.sent]
        /\ mover'.visit = mover.visit
    BY <1>6 DEF PressTime, HistoriesStay, CabinetInv, CabinetPages
  <2>2. MoverProven(mover', proven)
    BY <2>1 DEF MoverProven, CabinetInv
  <2> QED
    BY <2>1, <2>2, MoverStep
<1> QED
  BY <1>1, <1>2, <1>3, <1>4, <1>5, <1>6

LEMMA CabinetSteps ==
    ASSUME CabinetInv, [CabinetNext]_cabinetVars
    PROVE  CabinetInv'
<1>1. ASSUME \/ CookieGone \/ HourPasses \/ \E phone \in Phones : TypePhone(phone)
             \/ SendCode \/ Confirm \/ LoginRefused
      PROVE  CabinetInv'
  <2>1. /\ cookie' \in {cookie, NoNumber} /\ UNCHANGED <<list, mover, proven, touched>>
    BY <1>1 DEF CookieGone, HourPasses, TypePhone, SendCode, Confirm, LoginRefused, HistoriesStay
  <2> QED
    BY <2>1 DEF CabinetInv, CabinetPages, LinksProven, PostsProven, MoverProven
<1>2. CASE UNCHANGED cabinetVars
  BY <1>2 DEF cabinetVars, CabinetInv, CabinetPages, LinksProven, PostsProven, MoverProven
<1> QED
  BY <1>1, <1>2, CabinetRedrawn, SignedInByItsCode, CabinetAsks, CabinetCancels, CabinetMoves, ZenonT(60)
     DEF CabinetNext

(* Whatever pages, links and requests of however many customers are open on *)
(* one phone (app/my, verify-customer-login.ts, cancel-own-booking.ts,      *)
(* reschedule-own-booking.ts), and whatever was sent, edited and signed out *)
(* meanwhile: the browser is signed in under numbers whose codes were typed *)
(* in it, and only their visits are cancelled or moved from it.             *)
THEOREM PagesAreTheirOwn == CabinetSpec => []CabinetIsTheirOwn
<1>1. CabinetInv => CabinetIsTheirOwn
  BY DEF CabinetInv, CabinetIsTheirOwn
<1> QED
  BY <1>1, CabinetStarts, CabinetSteps, PTL DEF CabinetSpec

---------------------------------------------------------------------------
(***************************************************************************)
(* VisitDesk: what the card and the form show, and what they send.          *)
(***************************************************************************)
SomeDay == OpenDays \cup {NoDay}
PanelRows ==
    [day : SomeDay, loads : SUBSET OpenDays, list : SomeDay, at : SomeDay,
     dialog : Dialogs \cup {"none"}, reason : BOOLEAN, bypass : BOOLEAN]
OrderRows ==
    [command : Commands, at : SomeDay, shown : SomeDay, asked : BOOLEAN, refused : BOOLEAN]

(* The list and the start that was chosen are those of the day shown.       *)
PanelFine(panel) ==
    panel \in PanelRows /\ {panel.list, panel.at} \subseteq {NoDay, panel.day}

(* What is sent is the day shown, and was asked about.                      *)
OrdersFine ==
    {p \in OrderRows : (p.command = "move" => p.at = p.shown) /\ (p.asked \/ p.refused)}

CardFine ==
    /\ visitCard = [status |-> visitCard.status, missed |-> visitCard.missed,
                    panel |-> visitCard.panel]
    /\ PanelFine(visitCard.panel)

(* What the form shows as found or chosen belongs to its choice, unless an  *)
(* answer crossed a change, or the branch was changed.                      *)
FormFine(pane) ==
    /\ pane = [choice |-> pane.choice, wish |-> pane.wish, calls |-> pane.calls, list |-> pane.list,
               at |-> pane.at, crossed |-> pane.crossed, posted |-> pane.posted]
    /\ pane.crossed \in BOOLEAN
    /\ ~ pane.crossed => /\ pane.list \in {NothingPicked, pane.choice}
                         /\ pane.choice # NothingPicked => pane.at \in {NothingPicked, pane.choice}
    /\ \A i \in DOMAIN pane.posted : pane.posted[i].at = pane.posted[i].choice \/ pane.posted[i].crossed

VisitDeskInv == CardFine /\ pressed \in Seq(OrdersFine) /\ FormFine(visitForm)

LEMMA FreshPanelFine == PanelFine(FreshPanel)
BY DEF PanelFine, FreshPanel, PanelRows, SomeDay

LEMMA VisitDeskStarts == VisitDeskInit => VisitDeskInv
<1> SUFFICES ASSUME VisitDeskInit PROVE VisitDeskInv
  OBVIOUS
<1>1. CardFine
  BY FreshPanelFine DEF VisitDeskInit, CardFine, NoCardOpen
<1>2. pressed \in Seq(OrdersFine)
  BY DEF VisitDeskInit
<1>3. FormFine(visitForm)
  BY DEF VisitDeskInit, FormFine, EmptyVisitForm
<1> QED
  BY <1>1, <1>2, <1>3 DEF VisitDeskInv

LEMMA PanelStep ==
    ASSUME VisitDeskInv, NEW p, Panel(p), PanelFine(p), UNCHANGED <<pressed, visitForm>>
    PROVE  VisitDeskInv'
<1>1. visitCard' = [status |-> visitCard.status, missed |-> visitCard.missed, panel |-> p]
  BY DEF VisitDeskInv, CardFine, Panel
<1>2. CardFine'
  BY <1>1 DEF CardFine
<1> QED
  BY <1>2 DEF VisitDeskInv

LEMMA CardDrawnFine ==
    ASSUME NEW v, NEW panel, PanelFine(panel)
    PROVE  LET drawn == CardDrawn(v, panel) IN
           /\ drawn = [status |-> drawn.status, missed |-> drawn.missed, panel |-> drawn.panel]
           /\ PanelFine(drawn.panel)
BY FreshPanelFine DEF CardDrawn

LEMMA CardOpensCloses ==
    ASSUME VisitDeskInv,
           \/ \E v \in [status : Standing, at : OpenDays] : OpenCard(v)
           \/ LeaveCard
    PROVE  VisitDeskInv'
<1>1. UNCHANGED <<pressed, visitForm>>
  BY DEF OpenCard, LeaveCard
<1>2. CardFine'
  <2>1. ASSUME NEW v \in [status : Standing, at : OpenDays], OpenCard(v) PROVE CardFine'
    <3>1. visitCard' = CardDrawn(v, FreshPanel)
      BY <2>1 DEF OpenCard
    <3> QED
      BY <3>1, CardDrawnFine, FreshPanelFine DEF CardFine
  <2>2. ASSUME LeaveCard PROVE CardFine'
    BY <2>2, FreshPanelFine DEF LeaveCard, NoCardOpen, CardFine
  <2> QED
    BY <2>1, <2>2
<1> QED
  BY <1>1, <1>2 DEF VisitDeskInv

LEMMA PanelChanges ==
    ASSUME VisitDeskInv,
           \/ \E d \in OpenDays \cup {NoDay} : PickNewDay(d)
           \/ \E d \in OpenDays : TimesLoaded(d) \/ PressFreeTime(d)
           \/ TypeReason \/ RefusedByBrowser \/ CloseDialog
           \/ \E k \in Dialogs : AskFirst(k)
    PROVE  VisitDeskInv'
<1>0. PanelFine(visitCard.panel)
  BY DEF VisitDeskInv, CardFine
<1>1. ASSUME NEW d \in OpenDays \cup {NoDay}, PickNewDay(d) PROVE VisitDeskInv'
  <2>1. PICK loads \in SUBSET OpenDays :
          loads = IF d = NoDay THEN visitCard.panel.loads ELSE visitCard.panel.loads \cup {d}
    BY <1>0 DEF PanelFine, PanelRows
  <2>2. PICK p : p = [visitCard.panel EXCEPT !.day = d, !.list = NoDay, !.at = NoDay, !.loads = loads]
    OBVIOUS
  <2>3. Panel(p) /\ UNCHANGED <<pressed, visitForm>>
    BY <1>1, <2>1, <2>2 DEF PickNewDay, OnlyCard
  <2>4. PanelFine(p)
    BY <1>0, <2>2 DEF PanelFine, PanelRows, SomeDay
  <2> QED
    BY <2>3, <2>4, PanelStep
<1>2. ASSUME NEW d \in OpenDays, TimesLoaded(d) PROVE VisitDeskInv'
  <2>1. PICK free \in {NoDay, d} :
          Panel([visitCard.panel EXCEPT !.loads = @ \ {d},
                                        !.list = IF OwnAnswer(d) THEN free ELSE @])
    BY <1>2 DEF TimesLoaded, FreeStarts
  <2>2. PICK shownList : shownList = IF d = visitCard.panel.day THEN free ELSE visitCard.panel.list
    OBVIOUS
  <2>3. PICK loads : loads = visitCard.panel.loads \ {d}
    OBVIOUS
  <2>4. PICK p : p = [visitCard.panel EXCEPT !.loads = loads, !.list = shownList]
    OBVIOUS
  <2>5. Panel(p) /\ UNCHANGED <<pressed, visitForm>>
    <3>1. Panel([visitCard.panel EXCEPT !.loads = visitCard.panel.loads \ {d},
                    !.list = IF d = visitCard.panel.day THEN free ELSE visitCard.panel.list])
      BY <2>1, <1>0 DEF OwnAnswer, PanelFine, PanelRows
    <3> QED
      BY <3>1, <1>2, <2>2, <2>3, <2>4 DEF TimesLoaded, OnlyCard
  <2>6. shownList \in {NoDay, visitCard.panel.day} /\ loads \in SUBSET OpenDays
    BY <1>0, <2>2, <2>3 DEF PanelFine, PanelRows
  <2>7. PanelFine(p)
    BY <1>0, <2>4, <2>6 DEF PanelFine, PanelRows, SomeDay
  <2> QED
    BY <2>5, <2>7, PanelStep
<1>3. ASSUME NEW d \in OpenDays, PressFreeTime(d) PROVE VisitDeskInv'
  <2>1. PICK p : p = [visitCard.panel EXCEPT !.at = d]
    OBVIOUS
  <2>2. Panel(p) /\ d = visitCard.panel.list /\ UNCHANGED <<pressed, visitForm>>
    BY <1>3, <2>1 DEF PressFreeTime, OnlyCard
  <2>3. PanelFine(p)
    BY <1>0, <2>1, <2>2 DEF PanelFine, PanelRows
  <2> QED
    BY <2>2, <2>3, PanelStep
<1>4. ASSUME TypeReason PROVE VisitDeskInv'
  <2>1. PICK p : p = [visitCard.panel EXCEPT !.reason = TRUE]
    OBVIOUS
  <2>2. Panel(p) /\ UNCHANGED <<pressed, visitForm>>
    BY <1>4, <2>1 DEF TypeReason, OnlyCard
  <2>3. PanelFine(p)
    BY <1>0, <2>1 DEF PanelFine, PanelRows
  <2> QED
    BY <2>2, <2>3, PanelStep
<1>5. ASSUME RefusedByBrowser PROVE VisitDeskInv'
  <2>1. PICK p : p = [visitCard.panel EXCEPT !.bypass = TRUE]
    OBVIOUS
  <2>2. Panel(p) /\ UNCHANGED <<pressed, visitForm>>
    BY <1>5, <2>1 DEF RefusedByBrowser, OnlyCard
  <2>3. PanelFine(p)
    BY <1>0, <2>1 DEF PanelFine, PanelRows
  <2> QED
    BY <2>2, <2>3, PanelStep
<1>6. ASSUME NEW k \in Dialogs \cup {"none"},
             Panel([visitCard.panel EXCEPT !.dialog = k]), OnlyCard
      PROVE  VisitDeskInv'
  <2>1. PICK p : p = [visitCard.panel EXCEPT !.dialog = k]
    OBVIOUS
  <2>2. Panel(p) /\ UNCHANGED <<pressed, visitForm>>
    BY <1>6, <2>1 DEF OnlyCard
  <2>3. PanelFine(p)
    BY <1>0, <2>1 DEF PanelFine, PanelRows
  <2> QED
    BY <2>2, <2>3, PanelStep
<1>7. ASSUME CloseDialog PROVE VisitDeskInv'
  BY <1>6, <1>7 DEF CloseDialog
<1>8. ASSUME NEW k \in Dialogs, AskFirst(k) PROVE VisitDeskInv'
  BY <1>6, <1>8 DEF AskFirst
<1> QED
  BY <1>1, <1>2, <1>3, <1>4, <1>5, <1>7, <1>8

LEMMA OrdersSent ==
    ASSUME VisitDeskInv, SubmitUnasked \/ ConfirmDialog \/ CancelSeries
    PROVE  VisitDeskInv'
<1>0. PanelFine(visitCard.panel)
  BY DEF VisitDeskInv, CardFine
<1>1. ASSUME NEW p \in OrdersFine, pressed' = Append(pressed, p)
      PROVE  pressed' \in Seq(OrdersFine)
  BY <1>1 DEF VisitDeskInv
<1>2. ASSUME SubmitUnasked PROVE VisitDeskInv'
  <2>1. visitCard.panel.bypass
    BY <1>2 DEF SubmitUnasked
  <2>2. PICK p : p = [Press("cancel") EXCEPT !.asked = FALSE, !.refused = TRUE]
    OBVIOUS
  <2>3. pressed' = Append(pressed, p) /\ UNCHANGED visitForm
    BY <1>2, <2>1, <2>2 DEF SubmitUnasked, Pressed
  <2>4. p \in OrdersFine
    <3>1. p = [command |-> "cancel", at |-> NoDay, shown |-> NoDay, asked |-> FALSE, refused |-> TRUE]
      BY <2>2 DEF Press
    <3> QED
      BY <3>1 DEF OrdersFine, OrderRows, SomeDay, Commands, Dialogs
  <2>5. PICK q : q = [visitCard.panel EXCEPT !.bypass = FALSE]
    OBVIOUS
  <2>6. PanelFine(q) /\ Panel(q)
    BY <1>0, <1>2, <2>5 DEF PanelFine, PanelRows, SubmitUnasked
  <2>7. CardFine'
    BY <2>6 DEF VisitDeskInv, CardFine, Panel
  <2> QED
    BY <1>1, <2>3, <2>4, <2>7 DEF VisitDeskInv
<1>3. ASSUME NEW k \in Commands, Pressed(k, TRUE), UNCHANGED visitCard,
             k = "move" => visitCard.panel.at # NoDay
      PROVE  VisitDeskInv'
  <2>1. PICK at \in SomeDay, shown \in SomeDay, flag \in BOOLEAN :
          /\ at = visitCard.panel.at /\ shown = visitCard.panel.day
          /\ flag = (k = "cancel" /\ visitCard.panel.bypass)
    BY <1>0 DEF PanelFine, PanelRows
  <2>2. PICK p : p = IF k = "move" THEN [Press(k) EXCEPT !.at = at, !.shown = shown]
                     ELSE [Press(k) EXCEPT !.asked = TRUE, !.refused = flag]
    OBVIOUS
  <2>3. pressed' = Append(pressed, p) /\ UNCHANGED visitForm
    BY <1>3, <2>1, <2>2 DEF Pressed
  <2>4. p \in OrdersFine
    <3>1. CASE k = "move"
      <4>1. at = shown
        BY <1>0, <1>3, <2>1, <3>1 DEF PanelFine
      <4>2. p = [command |-> k, at |-> at, shown |-> shown, asked |-> TRUE, refused |-> FALSE]
        BY <2>2, <3>1 DEF Press
      <4> QED
        BY <4>1, <4>2 DEF OrdersFine, OrderRows
    <3>2. CASE k # "move"
      <4>1. p = [command |-> k, at |-> NoDay, shown |-> NoDay, asked |-> TRUE, refused |-> flag]
        BY <2>2, <3>2 DEF Press
      <4> QED
        BY <4>1 DEF OrdersFine, OrderRows, SomeDay
    <3> QED
      BY <3>1, <3>2
  <2> QED
    BY <1>1, <1>3, <2>3, <2>4 DEF VisitDeskInv, CardFine
<1>4. ASSUME ConfirmDialog PROVE VisitDeskInv'
  <2>1. PICK k \in Dialogs : k = visitCard.panel.dialog
    BY <1>0, <1>4 DEF PanelFine, PanelRows, ConfirmDialog
  <2>2. Pressed(k, TRUE) /\ UNCHANGED visitCard /\ OnCard(k)
    BY <1>4, <2>1 DEF ConfirmDialog
  <2> QED
    BY <1>3, <2>2 DEF OnCard, Commands
<1>5. ASSUME CancelSeries PROVE VisitDeskInv'
  BY <1>3, <1>5 DEF CancelSeries, Commands
<1> QED
  BY <1>2, <1>4, <1>5

LEMMA OrdersCarried ==
    ASSUME VisitDeskInv, Carry
    PROVE  VisitDeskInv'
<1>0. PanelFine(visitCard.panel)
  BY DEF VisitDeskInv, CardFine
<1>1. pressed' \in Seq(OrdersFine) /\ UNCHANGED visitForm
  BY DEF Carry, VisitDeskInv
<1>2. PICK v : AfterRedirect(Head(pressed), v)
  BY DEF Carry
<1>3. PICK kept \in BOOLEAN : 
        LET again == CardDrawn(v, [visitCard.panel EXCEPT !.reason = kept])
        IN  visitCard' = again \/ visitCard' = [again EXCEPT !.panel.dialog = "none"]
  BY <1>0, <1>2 DEF AfterRedirect, PanelFine, PanelRows
<1>4. PICK panel : panel = [visitCard.panel EXCEPT !.reason = kept]
  OBVIOUS
<1>5. PanelFine(panel)
  BY <1>0, <1>4 DEF PanelFine, PanelRows
<1>6. PICK drawn : drawn = CardDrawn(v, panel)
  OBVIOUS
<1>7. /\ drawn = [status |-> drawn.status, missed |-> drawn.missed, panel |-> drawn.panel]
      /\ PanelFine(drawn.panel)
  BY <1>5, <1>6, CardDrawnFine
<1>8. visitCard' = drawn \/ visitCard' = [drawn EXCEPT !.panel.dialog = "none"]
  BY <1>3, <1>4, <1>6
<1>9. CardFine'
  <2>1. CASE visitCard' = drawn
    BY <1>7, <2>1 DEF CardFine
  <2>2. CASE visitCard' = [drawn EXCEPT !.panel.dialog = "none"]
    <3>1. PICK quiet : quiet = [drawn.panel EXCEPT !.dialog = "none"]
      OBVIOUS
    <3>2. PanelFine(quiet)
      BY <1>7, <3>1 DEF PanelFine, PanelRows
    <3>3. visitCard' = [status |-> drawn.status, missed |-> drawn.missed, panel |-> quiet]
      BY <1>7, <2>2, <3>1
    <3> QED
      BY <3>2, <3>3 DEF CardFine
  <2> QED
    BY <1>8, <2>1, <2>2
<1> QED
  BY <1>1, <1>9 DEF VisitDeskInv

(* The form: an answer is what was asked, and only a change in between      *)
(* makes it another choice's.                                               *)
LEMMA FormMoves ==
    ASSUME VisitDeskInv, FormFine(visitForm'), UNCHANGED <<visitCard, pressed>>
    PROVE  VisitDeskInv'
BY DEF VisitDeskInv, CardFine

LEMMA NothingIsNoFullChoice == NothingPicked \notin FullChoices
<1>1. NothingPicked.service = 0 /\ 0 \notin Treatments
  BY VisitDeskAssumption DEF NothingPicked
<1> QED
  BY <1>1 DEF FullChoices

LEMMA LoadsFine ==
    ASSUME VisitDeskInv, NEW choice, Loads(choice)
    PROVE  FormFine(visitForm')
<1>1. PICK calls :
        visitForm' = [Cleared(choice) EXCEPT !.calls = calls]
  BY DEF Loads
<1>2. FormFine(visitForm)
  BY DEF VisitDeskInv
<1>3. PICK pane : pane = visitForm
  OBVIOUS
<1>4. PICK cleared : cleared = [pane EXCEPT !.choice = choice, !.list = NothingPicked,
                                            !.at = NothingPicked, !.crossed = FALSE]
  OBVIOUS
<1>5. cleared = Cleared(choice)
  BY <1>3, <1>4 DEF Cleared
<1>6. pane = [choice |-> pane.choice, wish |-> pane.wish, calls |-> pane.calls, list |-> pane.list,
              at |-> pane.at, crossed |-> pane.crossed, posted |-> pane.posted]
  BY <1>2, <1>3 DEF FormFine
<1>7. cleared = [choice |-> choice, wish |-> pane.wish, calls |-> pane.calls, list |-> NothingPicked,
                 at |-> NothingPicked, crossed |-> FALSE, posted |-> pane.posted]
  BY <1>4, <1>6
<1>8. visitForm' = [choice |-> choice, wish |-> pane.wish, calls |-> calls, list |-> NothingPicked,
                    at |-> NothingPicked, crossed |-> FALSE, posted |-> pane.posted]
  <2>1. visitForm' = [cleared EXCEPT !.calls = calls]
    BY <1>1, <1>5
  <2> QED
    BY <1>7, <2>1
<1>9. \A i \in DOMAIN pane.posted : pane.posted[i].at = pane.posted[i].choice \/ pane.posted[i].crossed
  BY <1>2, <1>3 DEF FormFine
<1> QED
  BY <1>8, <1>9 DEF FormFine

LEMMA FormChoices ==
    ASSUME VisitDeskInv,
           \/ PickBranch
           \/ \E t \in Treatments : PickService(t)
           \/ \E m \in Masters : PickMaster(m)
           \/ \E d \in OpenDays : PickDate(d)
    PROVE  VisitDeskInv'
<1>1. UNCHANGED <<visitCard, pressed>>
  BY DEF PickBranch, PickService, PickMaster, PickDate, OnlyForm
<1>2. ASSUME PickBranch PROVE FormFine(visitForm')
  <2>1. PICK pane : pane = visitForm
    OBVIOUS
  <2>2. FormFine(pane)
    BY <2>1 DEF VisitDeskInv
  <2>3. visitForm' = [pane EXCEPT !.choice = NothingPicked, !.list = NothingPicked]
    BY <1>2, <2>1 DEF PickBranch
  <2>4. pane = [choice |-> pane.choice, wish |-> pane.wish, calls |-> pane.calls, list |-> pane.list,
                at |-> pane.at, crossed |-> pane.crossed, posted |-> pane.posted]
    BY <2>2 DEF FormFine
  <2>5. visitForm' = [choice |-> NothingPicked, wish |-> pane.wish, calls |-> pane.calls,
                      list |-> NothingPicked, at |-> pane.at, crossed |-> pane.crossed,
                      posted |-> pane.posted]
    BY <2>3, <2>4
  <2> QED
    BY <2>2, <2>5 DEF FormFine
<1>3. ASSUME NEW t \in Treatments, PickService(t) PROVE FormFine(visitForm')
  <2>1. PICK choice : Loads(choice)
    BY <1>3 DEF PickService
  <2> QED
    BY <2>1, LoadsFine
<1>4. ASSUME NEW m \in Masters, PickMaster(m) PROVE FormFine(visitForm')
  <2>1. PICK choice : Loads(choice)
    BY <1>4 DEF PickMaster
  <2> QED
    BY <2>1, LoadsFine
<1>5. ASSUME NEW d \in OpenDays, PickDate(d) PROVE FormFine(visitForm')
  <2>1. PICK choice : Loads(choice)
    BY <1>5 DEF PickDate
  <2> QED
    BY <2>1, LoadsFine
<1> QED
  BY <1>1, <1>2, <1>3, <1>4, <1>5, FormMoves

LEMMA FormAnswers ==
    ASSUME VisitDeskInv,
           \/ \E c \in FullChoices : Answer(c) \/ AnswerFails(c)
           \/ PressStart \/ PostVisit
    PROVE  VisitDeskInv'
<1>1. UNCHANGED <<visitCard, pressed>>
  BY DEF Answer, AnswerFails, PressStart, PostVisit, OnlyForm
<1>2. PICK pane : pane = visitForm
  OBVIOUS
<1>3. FormFine(pane)
  BY <1>2 DEF VisitDeskInv
<1>4. pane = [choice |-> pane.choice, wish |-> pane.wish, calls |-> pane.calls, list |-> pane.list,
              at |-> pane.at, crossed |-> pane.crossed, posted |-> pane.posted]
  BY <1>3 DEF FormFine
<1>5. ASSUME NEW c \in FullChoices, Answer(c) PROVE FormFine(visitForm')
  <2>1. PICK start \in {NoDay, c.day} :
          visitForm' = [pane EXCEPT !.calls = @ \ {c},
                           !.list = IF start = c.day THEN c ELSE NothingPicked,
                           !.at = IF start # NoDay /\ start = pane.wish THEN c ELSE @,
                           !.crossed = @ \/ c # pane.choice]
    BY <1>2, <1>5 DEF Answer, FreeStarts
  <2>2. PICK flag \in BOOLEAN : flag = (pane.crossed \/ c # pane.choice)
    OBVIOUS
  <2>3. PICK shownList : shownList = IF start = c.day THEN c ELSE NothingPicked
    OBVIOUS
  <2>4. PICK at : at = IF start # NoDay /\ start = pane.wish THEN c ELSE pane.at
    OBVIOUS
  <2>5. PICK calls : calls = pane.calls \ {c}
    OBVIOUS
  <2>6. visitForm' = [pane EXCEPT !.calls = calls, !.list = shownList, !.at = at, !.crossed = flag]
    <3>1. visitForm' = [pane EXCEPT !.calls = pane.calls \ {c},
                           !.list = IF start = c.day THEN c ELSE NothingPicked,
                           !.at = IF start # NoDay /\ start = pane.wish THEN c ELSE pane.at,
                           !.crossed = pane.crossed \/ c # pane.choice]
      BY <2>1, <1>4
    <3> QED
      BY <3>1, <2>2, <2>3, <2>4, <2>5
  <2>7. visitForm' = [choice |-> pane.choice, wish |-> pane.wish, calls |-> calls, list |-> shownList,
                      at |-> at, crossed |-> flag, posted |-> pane.posted]
    BY <1>4, <2>6
  <2>8. ~ flag => shownList \in {NothingPicked, pane.choice}
    BY <2>2, <2>3
  <2>9. ~ flag => (pane.choice # NothingPicked => at \in {NothingPicked, pane.choice})
    BY <1>3, <2>2, <2>4 DEF FormFine
  <2>10. \A i \in DOMAIN pane.posted :
           pane.posted[i].at = pane.posted[i].choice \/ pane.posted[i].crossed
    BY <1>3 DEF FormFine
  <2> QED
    BY <2>7, <2>8, <2>9, <2>10 DEF FormFine
<1>6. ASSUME NEW c \in FullChoices, AnswerFails(c) PROVE FormFine(visitForm')
  <2>1. PICK calls : calls = pane.calls \ {c}
    OBVIOUS
  <2>2. visitForm' = [pane EXCEPT !.calls = calls]
    BY <1>2, <1>4, <1>6, <2>1 DEF AnswerFails
  <2>3. visitForm' = [choice |-> pane.choice, wish |-> pane.wish, calls |-> calls,
                      list |-> pane.list, at |-> pane.at, crossed |-> pane.crossed,
                      posted |-> pane.posted]
    BY <1>4, <2>2
  <2> QED
    BY <1>3, <2>3 DEF FormFine
<1>7. ASSUME PressStart PROVE FormFine(visitForm')
  <2>1. visitForm' = [pane EXCEPT !.at = pane.list]
    BY <1>2, <1>7 DEF PressStart
  <2>2. visitForm' = [choice |-> pane.choice, wish |-> pane.wish, calls |-> pane.calls,
                      list |-> pane.list, at |-> pane.list, crossed |-> pane.crossed,
                      posted |-> pane.posted]
    BY <1>4, <2>1
  <2> QED
    BY <1>3, <2>2 DEF FormFine
<1>8. ASSUME PostVisit PROVE FormFine(visitForm')
  <2>1. PICK order : order = [choice |-> pane.choice, at |-> pane.at, crossed |-> pane.crossed]
    OBVIOUS
  <2>2. visitForm' = [pane EXCEPT !.posted = <<order>>]
    BY <1>2, <1>8, <2>1 DEF PostVisit
  <2>3. visitForm' = [choice |-> pane.choice, wish |-> pane.wish, calls |-> pane.calls,
                      list |-> pane.list, at |-> pane.at, crossed |-> pane.crossed,
                      posted |-> <<order>>]
    BY <1>4, <2>2
  <2>4. pane.at # NothingPicked /\ pane.choice \in FullChoices
    BY <1>2, <1>8 DEF PostVisit
  <2>5. order.at = order.choice \/ order.crossed
    BY <1>3, <2>1, <2>4, NothingIsNoFullChoice DEF FormFine
  <2> QED
    BY <1>3, <2>3, <2>5 DEF FormFine
<1> QED
  BY <1>1, <1>5, <1>6, <1>7, <1>8, FormMoves

LEMMA FormOpensCloses ==
    ASSUME VisitDeskInv,
           \/ \E d \in {NoDay, FirstDay} : OpenForm(d)
           \/ LeaveForm
           \/ \E booked \in BOOLEAN : Create(booked)
    PROVE  VisitDeskInv'
<1>1. UNCHANGED <<visitCard, pressed>>
  BY DEF OpenForm, LeaveForm, Create
<1>2. FormFine(EmptyVisitForm)
  BY DEF FormFine, EmptyVisitForm
<1>3. ASSUME NEW d \in {NoDay, FirstDay}, OpenForm(d) PROVE FormFine(visitForm')
  <2>1. PICK m \in Masters :
          visitForm' = [EmptyVisitForm EXCEPT !.wish = d,
            !.choice = [service |-> 0, staff |-> IF d = NoDay THEN 0 ELSE m, day |-> d]]
    BY <1>3 DEF OpenForm
  <2>2. PICK choice : choice = [service |-> 0, staff |-> IF d = NoDay THEN 0 ELSE m, day |-> d]
    OBVIOUS
  <2>3. visitForm' = [choice |-> choice, wish |-> d, calls |-> {}, list |-> NothingPicked,
                      at |-> NothingPicked, crossed |-> FALSE, posted |-> <<>>]
    BY <2>1, <2>2 DEF EmptyVisitForm
  <2> QED
    BY <2>3 DEF FormFine
<1>4. ASSUME LeaveForm PROVE FormFine(visitForm')
  BY <1>2, <1>4 DEF LeaveForm
<1>5. ASSUME NEW booked \in BOOLEAN, Create(booked) PROVE FormFine(visitForm')
  <2>1. CASE booked
    BY <1>2, <1>5, <2>1 DEF Create
  <2>2. CASE ~ booked
    <3>1. PICK pane : pane = visitForm
      OBVIOUS
    <3>2. FormFine(pane)
      BY <3>1 DEF VisitDeskInv
    <3>3. visitForm' = [pane EXCEPT !.posted = <<>>]
      BY <1>5, <2>2, <3>1 DEF Create
    <3>4. visitForm' = [choice |-> pane.choice, wish |-> pane.wish, calls |-> pane.calls,
                        list |-> pane.list, at |-> pane.at, crossed |-> pane.crossed,
                        posted |-> <<>>]
      BY <3>2, <3>3 DEF FormFine
    <3> QED
      BY <3>2, <3>4 DEF FormFine
  <2> QED
    BY <2>1, <2>2
<1> QED
  BY <1>1, <1>3, <1>4, <1>5, FormMoves

LEMMA VisitDeskSteps ==
    ASSUME VisitDeskInv, [VisitDeskNext]_deskViewVars
    PROVE  VisitDeskInv'
<1>1. CASE UNCHANGED deskViewVars
  BY <1>1 DEF deskViewVars, VisitDeskInv, CardFine
<1>2. ASSUME \/ FirstDayPasses
             \/ \E v \in [status : Standing \cup {"CANCELLED", "EXPIRED"}, at : OpenDays] :
                  ChangedByOthers(v)
      PROVE  VisitDeskInv'
  <2>1. UNCHANGED <<visitCard, pressed, visitForm>>
    BY <1>2 DEF FirstDayPasses, ChangedByOthers
  <2> QED
    BY <2>1 DEF VisitDeskInv, CardFine
<1> QED
  BY <1>1, <1>2, CardOpensCloses, PanelChanges, OrdersSent, OrdersCarried, FormChoices, FormAnswers,
     FormOpensCloses, ZenonT(60) DEF VisitDeskNext

(* However many days, specialists, services and actions under way there     *)
(* are, and in whatever order answers come (booking-actions-panel.tsx,      *)
(* manual-booking-form.tsx): the card sends the day it shows and nothing it *)
(* did not ask about, except after the browser refused the same form, and   *)
(* the form books its own choice, except after a crossed answer.            *)
THEOREM SentAsShown == VisitDeskSpec => []DeskSendsWhatItShows
<1>1. VisitDeskInv => DeskSendsWhatItShows
  <2> SUFFICES ASSUME VisitDeskInv PROVE DeskSendsWhatItShows
    OBVIOUS
  <2>1. \A i \in DOMAIN pressed : pressed[i] \in OrdersFine
    BY DEF VisitDeskInv
  <2>2. \A i \in DOMAIN visitForm.posted :
          visitForm.posted[i].at = visitForm.posted[i].choice \/ visitForm.posted[i].crossed
    BY DEF VisitDeskInv, FormFine
  <2> QED
    BY <2>1, <2>2 DEF DeskSendsWhatItShows, OrdersFine
<1> QED
  BY <1>1, VisitDeskStarts, VisitDeskSteps, PTL DEF VisitDeskSpec

---------------------------------------------------------------------------
(***************************************************************************)
(* CalendarBoard: who answers for a visit that is drawn as it was dropped.  *)
(***************************************************************************)
Behind(rows, v) == rows[v].rev < answered[v]

(* What a call, a drag and a load of the page know of each other.           *)
BoardOrder ==
    /\ dragged # NoDrag => moveCall = NoCall
    /\ moveCall # NoCall => dropped.block = moveCall.block
    /\ \A v \in Blocks : answered[v] <= agenda[v].rev
    /\ (moveCall # NoCall /\ moveCall.pc = "done") => moveCall.rev <= agenda[moveCall.block].rev
    /\ refreshes.read # <<>> => refreshes.asked >= 1

(* A load that read too early is followed by another.                       *)
ReadInTime ==
    refreshes.read # <<>> =>
      \A v \in Blocks \ replaced :
        Behind(refreshes.read, v) => refreshes.asked >= 2 /\ dropped.block = v

(* A refusal may forget the drop: nothing else hangs on it.                 *)
RefusalIsSafe ==
    (moveCall # NoCall /\ moveCall.block \notin replaced) =>
      /\ ~ Behind(board, moveCall.block)
      /\ refreshes.read # <<>> => ~ Behind(refreshes.read, moveCall.block)

CalendarBoardInv ==
    CalendarBoardTypeOK /\ BoardOrder /\ KeptWhereDropped /\ ReadInTime /\ RefusalIsSafe

LEMMA HighestOf ==
    ASSUME NEW top \in Nat, NEW S, S \subseteq 0 .. top, S # {}
    PROVE  \E n \in S : \A m \in S : m <= n
<1> DEFINE T == {top - i : i \in S}
<1>t. \A i \in S : top - i \in T
  OBVIOUS
<1>u. \A y \in T : \E i \in S : y = top - i
  OBVIOUS
<1>s. \A i \in S : i \in 0 .. top
  OBVIOUS
<1> HIDE DEF T
<1>2. T \subseteq Nat /\ T # {}
  <2>1. ASSUME NEW y \in T PROVE y \in Nat
    <3>1. PICK i \in S : y = top - i
      BY <1>u
    <3>2. i \in 0 .. top
      BY <1>s
    <3> QED
      BY <3>1, <3>2
  <2> QED
    BY <2>1, <1>t
<1>3. PICK x \in T : \A y \in T : ~(<<y, x>> \in OpToRel(<, Nat))
  BY <1>2, NatLessThanWellFounded, WFMin
<1>4. \A y \in T : ~(y < x)
  BY <1>2, <1>3 DEF OpToRel
<1>5. PICK i \in S : x = top - i
  BY <1>3, <1>u
<1>6. ASSUME NEW j \in S PROVE j <= i
  <2>1. top - j \in T /\ i \in 0 .. top /\ j \in 0 .. top
    BY <1>s, <1>t
  <2>2. ~(top - j < top - i)
    BY <2>1, <1>4, <1>5
  <2> QED
    BY <2>1, <2>2
<1> QED
  BY <1>5, <1>6

(* The revision of a change is later than every other.                      *)
LEMMA NextRevIsLatest ==
    ASSUME CalendarBoardTypeOK, Blocks # {}
    PROVE  NextRev \in Nat /\ \A v \in Blocks : agenda[v].rev < NextRev
<1>1. \A v \in Blocks : agenda[v].rev \in 0 .. MaxAgendaChanges
  BY DEF CalendarBoardTypeOK, AgendaRow
<1> DEFINE S == {n \in 0 .. MaxAgendaChanges : \E v \in Blocks : agenda[v].rev = n}
<1>2. PICK n \in S : \A m \in S : m <= n
  <2>1. S \subseteq 0 .. MaxAgendaChanges /\ S # {}
    BY <1>1
  <2> HIDE DEF S
  <2> QED
    BY <2>1, CalendarBoardAssumption, HighestOf
<1>3. \A v \in Blocks : agenda[v].rev <= n
  BY <1>1, <1>2
<1> DEFINE Highest(k) == /\ \E v \in Blocks : agenda[v].rev = k
                         /\ \A v \in Blocks : agenda[v].rev <= k
<1>4. PICK top \in 0 .. MaxAgendaChanges : /\ top = CHOOSE k \in 0 .. MaxAgendaChanges : Highest(k)
                                           /\ Highest(top)
  <2>1. n \in 0 .. MaxAgendaChanges /\ Highest(n)
    BY <1>2, <1>3
  <2> HIDE DEF Highest
  <2> QED
    BY <2>1
<1>5. NextRev = 1 + top
  BY <1>4 DEF NextRev
<1>6. top \in Nat
  BY <1>4, CalendarBoardAssumption
<1> QED
  BY <1>1, <1>4, <1>5, <1>6, CalendarBoardAssumption

LEMMA BoardStarts == CalendarBoardInit => CalendarBoardInv
<1> SUFFICES ASSUME CalendarBoardInit PROVE CalendarBoardInv
  OBVIOUS
<1>1. agenda \in [Blocks -> AgendaRow] /\ \A v \in Blocks : agenda[v].rev = 0
  BY DEF CalendarBoardInit
<1>2. 0 \in 0 .. MaxAgendaChanges /\ 0 \in 0 .. MaxRefreshes
  BY CalendarBoardAssumption
<1>3. CalendarBoardTypeOK
  BY <1>1, <1>2 DEF CalendarBoardInit, CalendarBoardTypeOK
<1>4. \A v \in Blocks : answered[v] = 0 /\ board[v].rev = 0
  BY <1>1 DEF CalendarBoardInit
<1>5. BoardOrder
  BY <1>1, <1>4 DEF CalendarBoardInit, BoardOrder
<1>6. KeptWhereDropped /\ ReadInTime /\ RefusalIsSafe
  BY <1>4 DEF CalendarBoardInit, KeptWhereDropped, ReadInTime, RefusalIsSafe
<1> QED
  BY <1>3, <1>5, <1>6 DEF CalendarBoardInv

LEMMA InFlightIsDropped ==
    ASSUME NEW v \in Blocks
    PROVE  /\ InFlightMove.block = v <=> (Submitting \/ Refreshing) /\ dropped.block = v
           /\ (InFlightMove.block = v <=> (Submitting \/ Refreshing) /\ dropped.block = v)'
<1>1. NoDrop.block # v
  BY CalendarBoardAssumption DEF NoDrop, NoBlock
<1> QED
  BY <1>1 DEF InFlightMove

LEMMA BoardNumbers ==
    ASSUME CalendarBoardTypeOK
    PROVE  /\ \A v \in Blocks : /\ agenda[v].rev \in Int /\ board[v].rev \in Int
                                /\ answered[v] \in Int
                                /\ refreshes.read # <<>> => refreshes.read[v].rev \in Int
           /\ refreshes.asked \in Nat
<1>1. /\ refreshes.asked \in 0 .. MaxRefreshes
      /\ refreshes.read # <<>> => refreshes.read \in [Blocks -> AgendaRow]
      /\ agenda \in [Blocks -> AgendaRow] /\ board \in [Blocks -> AgendaRow]
      /\ answered \in [Blocks -> 0 .. MaxAgendaChanges]
  BY DEF CalendarBoardTypeOK
<1>2. 0 .. MaxAgendaChanges \subseteq Int /\ 0 .. MaxRefreshes \subseteq Nat
  BY CalendarBoardAssumption
<1>3. ASSUME NEW row \in AgendaRow PROVE row.rev \in Int
  BY <1>2 DEF AgendaRow
<1> QED
  BY <1>1, <1>2, <1>3

(* Steps of the rows: revisions only grow.                                  *)
LEMMA AgendaStep ==
    ASSUME CalendarBoardInv,
           UNCHANGED <<board, dragged, dropped, refreshes, answered, replaced>>,
           \A v \in Blocks : agenda[v].rev <= agenda'[v].rev /\ agenda'[v].rev \in Int,
           CalendarBoardTypeOK',
           moveCall' # NoCall => moveCall # NoCall /\ moveCall'.block = moveCall.block,
           moveCall # NoCall => moveCall' # NoCall,
           (moveCall' # NoCall /\ moveCall'.pc = "done") =>
              moveCall'.rev <= agenda'[moveCall'.block].rev
    PROVE  CalendarBoardInv'
<1> USE BoardNumbers DEF CalendarBoardInv
<1>1. BoardOrder'
  BY DEF BoardOrder
<1>2. KeptWhereDropped'
  BY InFlightIsDropped DEF KeptWhereDropped, Submitting, Refreshing
<1>3. ReadInTime'
  BY DEF ReadInTime, Behind
<1>4. RefusalIsSafe'
  BY DEF RefusalIsSafe, Behind
<1> QED
  BY <1>1, <1>2, <1>3, <1>4

LEMMA BoardServerMoves ==
    ASSUME CalendarBoardInv, ServerMoves
    PROVE  CalendarBoardInv'
<1>0. CalendarBoardTypeOK /\ moveCall # NoCall /\ moveCall.pc = "sent"
  BY DEF ServerMoves, CalendarBoardInv
<1>1. moveCall \in [pc : {"sent", "done", "refused"}, block : Blocks, place : Places,
                    rev : 0 .. MaxAgendaChanges]
  BY <1>0 DEF CalendarBoardTypeOK
<1>2. PICK v \in Blocks : v = moveCall.block
  BY <1>1
<1>3. PICK n : n = NextRev
  OBVIOUS
<1>4. n \in Nat /\ \A w \in Blocks : agenda[w].rev < n
  BY <1>0, <1>2, <1>3, NextRevIsLatest
<1>5. CASE /\ Changeable(v) /\ agenda' = [agenda EXCEPT ![v].place = moveCall.place, ![v].rev = NextRev]
           /\ moveCall' = [moveCall EXCEPT !.pc = "done", !.rev = NextRev]
  <2>1. n \in 0 .. MaxAgendaChanges
    BY <1>3, <1>4, <1>5, CalendarBoardAssumption DEF Changeable
  <2>2. PICK row : row = [agenda[v] EXCEPT !.place = moveCall.place, !.rev = n]
    OBVIOUS
  <2>3. agenda \in [Blocks -> AgendaRow]
    BY <1>0 DEF CalendarBoardTypeOK
  <2>4. agenda' = [agenda EXCEPT ![v] = row]
    BY <1>3, <1>5, <2>2, <2>3
  <2>5. row \in AgendaRow /\ row.rev = n
    BY <1>1, <2>1, <2>2, <2>3 DEF AgendaRow
  <2>6. agenda' \in [Blocks -> AgendaRow] /\ \A w \in Blocks : agenda'[w].rev = IF w = v THEN n ELSE agenda[w].rev
    BY <2>3, <2>4, <2>5
  <2>7. moveCall' = [moveCall EXCEPT !.pc = "done", !.rev = n]
    BY <1>3, <1>5
  <2>8. /\ moveCall' \in [pc : {"sent", "done", "refused"}, block : Blocks, place : Places,
                          rev : 0 .. MaxAgendaChanges]
        /\ moveCall'.block = v /\ moveCall'.rev = n
    BY <1>1, <1>2, <2>1, <2>7
  <2>9. UNCHANGED <<board, dragged, dropped, refreshes, answered, replaced>>
    BY DEF ServerMoves
  <2>10. CalendarBoardTypeOK'
    BY <1>0, <2>6, <2>8, <2>9 DEF CalendarBoardTypeOK
  <2>11. \A w \in Blocks : agenda[w].rev <= agenda'[w].rev /\ agenda'[w].rev \in Int
    BY <1>0, <1>4, <2>6, BoardNumbers
  <2>12. moveCall' # NoCall
    BY <2>7, <1>1 DEF NoCall
  <2>13. moveCall'.rev <= agenda'[moveCall'.block].rev
    BY <1>4, <2>6, <2>8
  <2> QED
    BY <1>0, <1>2, <2>8, <2>9, <2>10, <2>11, <2>12, <2>13, AgendaStep
<1>6. CASE moveCall' = [moveCall EXCEPT !.pc = "refused"] /\ UNCHANGED agenda
  <2>1. /\ moveCall' \in [pc : {"sent", "done", "refused"}, block : Blocks, place : Places,
                          rev : 0 .. MaxAgendaChanges]
        /\ moveCall'.block = v /\ moveCall'.pc = "refused"
    BY <1>1, <1>2, <1>6
  <2>2. UNCHANGED <<board, dragged, dropped, refreshes, answered, replaced>>
    BY DEF ServerMoves
  <2>3. CalendarBoardTypeOK'
    BY <1>0, <1>6, <2>1, <2>2 DEF CalendarBoardTypeOK
  <2>4. \A w \in Blocks : agenda[w].rev <= agenda'[w].rev /\ agenda'[w].rev \in Int
    BY <1>0, <1>6, BoardNumbers
  <2>5. moveCall' # NoCall
    BY <2>1 DEF NoCall
  <2> QED
    BY <1>0, <1>2, <2>1, <2>2, <2>3, <2>4, <2>5, AgendaStep
<1> QED
  BY <1>2, <1>5, <1>6 DEF ServerMoves

LEMMA BoardOthersChange ==
    ASSUME CalendarBoardInv, NEW v \in Blocks, OthersChange(v)
    PROVE  CalendarBoardInv'
<1>0. CalendarBoardTypeOK
  BY DEF CalendarBoardInv
<1>1. PICK n : n = NextRev
  OBVIOUS
<1>2. n \in Nat /\ \A w \in Blocks : agenda[w].rev < n
  BY <1>0, <1>1, NextRevIsLatest
<1>3. n \in 0 .. MaxAgendaChanges
  BY <1>1, <1>2, CalendarBoardAssumption DEF OthersChange, Changeable
<1>4. agenda \in [Blocks -> AgendaRow]
  BY <1>0 DEF CalendarBoardTypeOK
<1>5. PICK row \in AgendaRow : agenda' = [agenda EXCEPT ![v] = row] /\ row.rev = n
  <2>1. ASSUME NEW place \in Places,
               agenda' = [agenda EXCEPT ![v].place = place, ![v].rev = NextRev]
        PROVE  \E row \in AgendaRow : agenda' = [agenda EXCEPT ![v] = row] /\ row.rev = n
    <3>1. PICK row : row = [agenda[v] EXCEPT !.place = place, !.rev = n]
      OBVIOUS
    <3>2. agenda' = [agenda EXCEPT ![v] = row]
      BY <1>1, <1>4, <2>1, <3>1
    <3>3. row \in AgendaRow /\ row.rev = n
      BY <1>3, <1>4, <3>1 DEF AgendaRow
    <3> QED
      BY <3>2, <3>3
  <2>2. ASSUME agenda' = [agenda EXCEPT ![v].status = "HISTORY", ![v].rev = NextRev]
        PROVE  \E row \in AgendaRow : agenda' = [agenda EXCEPT ![v] = row] /\ row.rev = n
    <3>1. PICK row : row = [agenda[v] EXCEPT !.status = "HISTORY", !.rev = n]
      OBVIOUS
    <3>2. agenda' = [agenda EXCEPT ![v] = row]
      BY <1>1, <1>4, <2>2, <3>1
    <3>3. row \in AgendaRow /\ row.rev = n
      BY <1>3, <1>4, <3>1 DEF AgendaRow
    <3> QED
      BY <3>2, <3>3
  <2> QED
    BY <2>1, <2>2 DEF OthersChange
<1>6. agenda' \in [Blocks -> AgendaRow] /\ \A w \in Blocks : agenda'[w].rev = IF w = v THEN n ELSE agenda[w].rev
  BY <1>4, <1>5
<1>7. UNCHANGED <<board, dragged, dropped, moveCall, refreshes, answered, replaced>>
  BY DEF OthersChange
<1>8. CalendarBoardTypeOK'
  BY <1>0, <1>6, <1>7 DEF CalendarBoardTypeOK
<1>9. \A w \in Blocks : agenda[w].rev <= agenda'[w].rev /\ agenda'[w].rev \in Int
  BY <1>0, <1>2, <1>6, BoardNumbers
<1>10. (moveCall # NoCall /\ moveCall.pc = "done") => moveCall.rev <= agenda'[moveCall.block].rev
  <2> SUFFICES ASSUME moveCall # NoCall, moveCall.pc = "done"
               PROVE  moveCall.rev <= agenda'[moveCall.block].rev
    OBVIOUS
  <2>1. moveCall.block \in Blocks /\ moveCall.rev \in 0 .. MaxAgendaChanges
    BY <1>0 DEF CalendarBoardTypeOK
  <2>2. PICK w \in Blocks : w = moveCall.block
    BY <2>1
  <2>3. PICK r \in Nat : r = moveCall.rev
    BY <2>1, CalendarBoardAssumption
  <2>4. r <= agenda[w].rev
    BY <2>2, <2>3 DEF CalendarBoardInv, BoardOrder
  <2>5. agenda[w].rev \in Int
    BY <1>0, BoardNumbers
  <2> QED
    BY <1>9, <2>2, <2>3, <2>4, <2>5
<1> QED
  BY <1>7, <1>8, <1>9, <1>10, AgendaStep

LEMMA BoardPointer ==
    ASSUME CalendarBoardInv, PointerUpInPlace \/ \E v \in Blocks : PointerDown(v)
    PROVE  CalendarBoardInv'
<1>1. UNCHANGED <<agenda, board, dropped, moveCall, refreshes, answered, replaced>>
  BY DEF PointerUpInPlace, PointerDown
<1>2. /\ dragged' \in {NoDrag} \cup [block : Blocks, lost : BOOLEAN]
      /\ dragged' # NoDrag => moveCall = NoCall
  <2>1. CASE PointerUpInPlace
    BY <2>1 DEF PointerUpInPlace
  <2>2. ASSUME NEW v \in Blocks, PointerDown(v)
        PROVE  dragged' \in [block : Blocks, lost : BOOLEAN] /\ moveCall = NoCall
    BY <2>2 DEF PointerDown, Submitting
  <2> QED
    BY <2>1, <2>2
<1>3. CalendarBoardTypeOK'
  BY <1>1, <1>2 DEF CalendarBoardInv, CalendarBoardTypeOK
<1>4. BoardOrder'
  BY <1>1, <1>2 DEF CalendarBoardInv, BoardOrder
<1>5. KeptWhereDropped'
  BY <1>1 DEF CalendarBoardInv, KeptWhereDropped, InFlightMove, Submitting, Refreshing
<1>6. ReadInTime' /\ RefusalIsSafe'
  BY <1>1 DEF CalendarBoardInv, ReadInTime, RefusalIsSafe, Behind
<1> QED
  BY <1>3, <1>4, <1>5, <1>6 DEF CalendarBoardInv

(* Whatever the calendar still held in place is now counted as replaced.    *)
LEMMA BoardDrops ==
    ASSUME CalendarBoardInv, NEW place \in Places, Drop(place)
    PROVE  CalendarBoardInv'
<1>1. dragged \in [block : Blocks, lost : BOOLEAN]
  BY DEF CalendarBoardInv, CalendarBoardTypeOK, Drop
<1>2. PICK v \in Blocks : v = dragged.block
  BY <1>1
<1>3. /\ dropped' = [block |-> v, place |-> place]
      /\ moveCall' = [pc |-> "sent", block |-> v, place |-> place, rev |-> 0]
      /\ dragged' = NoDrag /\ moveCall = NoCall
      /\ UNCHANGED <<agenda, board, refreshes, answered>>
  BY <1>2 DEF Drop, CalendarBoardInv, BoardOrder
<1>4. moveCall' # NoCall /\ moveCall'.block = v /\ moveCall'.pc = "sent"
  BY <1>3 DEF NoCall
<1>5. \A w \in Blocks : w \notin replaced' => w \notin replaced /\ InFlightMove.block # w
  <2>1. SUFFICES ASSUME NEW w \in Blocks, w \notin replaced'
                 PROVE  w \notin replaced /\ InFlightMove.block # w
    OBVIOUS
  <2>2. CASE InFlightMove # NoDrop
    BY <2>1, <2>2 DEF Drop
  <2>3. CASE InFlightMove = NoDrop
    BY <2>1, <2>3, CalendarBoardAssumption DEF Drop, NoDrop, NoBlock
  <2> QED
    BY <2>2, <2>3
<1>6. CalendarBoardTypeOK'
  <2>1. replaced' \subseteq Blocks
    <3>1. InFlightMove \in {NoDrop} \cup [block : Blocks, place : Places]
      BY DEF InFlightMove, CalendarBoardInv, CalendarBoardTypeOK
    <3> QED
      BY <3>1 DEF Drop, CalendarBoardInv, CalendarBoardTypeOK
  <2>2. 0 \in 0 .. MaxAgendaChanges
    BY CalendarBoardAssumption
  <2>3. /\ dropped' \in [block : Blocks, place : Places]
        /\ moveCall' \in [pc : {"sent", "done", "refused"}, block : Blocks, place : Places,
                          rev : 0 .. MaxAgendaChanges]
    BY <1>3, <2>2
  <2> QED
    BY <1>3, <2>1, <2>3 DEF CalendarBoardInv, CalendarBoardTypeOK
<1>7. BoardOrder'
  BY <1>3, <1>4 DEF CalendarBoardInv, BoardOrder
<1>8. \A w \in Blocks \ replaced' : ~ Behind(board, w)
  BY <1>5, BoardNumbers DEF CalendarBoardInv, KeptWhereDropped, Behind
<1>9. refreshes.read # <<>> => \A w \in Blocks \ replaced' : ~ Behind(refreshes.read, w)
  <2> SUFFICES ASSUME refreshes.read # <<>>, NEW w \in Blocks \ replaced', Behind(refreshes.read, w)
               PROVE  FALSE
    OBVIOUS
  <2>1. refreshes.asked >= 2 /\ dropped.block = w
    BY <1>5 DEF CalendarBoardInv, ReadInTime
  <2>2. Refreshing
    BY <2>1, BoardNumbers DEF Refreshing, CalendarBoardInv
  <2> QED
    BY <1>5, <2>1, <2>2, InFlightIsDropped
<1>10. KeptWhereDropped'
  BY <1>3, <1>8, BoardNumbers DEF KeptWhereDropped, Behind, CalendarBoardInv
<1>11. ReadInTime'
  BY <1>3, <1>9 DEF ReadInTime, Behind
<1>12. RefusalIsSafe'
  BY <1>3, <1>4, <1>8, <1>9 DEF RefusalIsSafe, Behind
<1> QED
  BY <1>6, <1>7, <1>10, <1>11, <1>12 DEF CalendarBoardInv

LEMMA BoardMoveDone ==
    ASSUME CalendarBoardInv, MoveDone
    PROVE  CalendarBoardInv'
<1>0. /\ CalendarBoardTypeOK /\ moveCall # NoCall /\ moveCall.pc = "done" /\ moveCall' = NoCall
      /\ dropped.block = moveCall.block /\ dragged = NoDrag
      /\ UNCHANGED <<agenda, board, dragged, dropped, replaced>>
  BY DEF MoveDone, CalendarBoardInv, BoardOrder
<1>1. moveCall \in [pc : {"sent", "done", "refused"}, block : Blocks, place : Places,
                    rev : 0 .. MaxAgendaChanges]
  BY <1>0 DEF CalendarBoardTypeOK
<1>2. PICK v \in Blocks, n \in 0 .. MaxAgendaChanges : v = moveCall.block /\ n = moveCall.rev
  BY <1>1
<1>3. PICK k \in 0 .. MaxRefreshes : k = refreshes.asked
  BY <1>0 DEF CalendarBoardTypeOK
<1>4. k + 1 \in 0 .. MaxRefreshes /\ k \in Nat /\ n \in Nat
  BY <1>2, <1>3, CalendarBoardAssumption DEF MoveDone
<1>5. PICK asks \in 0 .. MaxRefreshes : asks = k + 1
  BY <1>4
<1>6. refreshes' = [refreshes EXCEPT !.asked = asks]
  BY <1>3, <1>5 DEF MoveDone
<1>7. /\ refreshes' \in [asked : 0 .. MaxRefreshes, read : [Blocks -> AgendaRow] \cup {<<>>}]
      /\ refreshes'.asked = asks /\ refreshes'.read = refreshes.read
  BY <1>0, <1>6 DEF CalendarBoardTypeOK
<1>8. /\ answered' = [answered EXCEPT ![v] = n]
      /\ answered \in [Blocks -> 0 .. MaxAgendaChanges]
  BY <1>0, <1>2 DEF MoveDone, CalendarBoardTypeOK
<1>9. CalendarBoardTypeOK'
  BY <1>0, <1>7, <1>8 DEF CalendarBoardTypeOK
<1>10. \A w \in Blocks : answered'[w] = IF w = v THEN n ELSE answered[w]
  BY <1>8
<1>11. n <= agenda[v].rev
  BY <1>0, <1>2 DEF CalendarBoardInv, BoardOrder
<1>12. BoardOrder'
  BY <1>0, <1>4, <1>5, <1>7, <1>10, <1>11 DEF CalendarBoardInv, BoardOrder
<1>13. asks > 0 /\ (refreshes.read # <<>> => asks >= 2)
  BY <1>3, <1>4, <1>5 DEF CalendarBoardInv, BoardOrder
<1>14. KeptWhereDropped'
  <2>1. SUFFICES ASSUME NEW w \in Blocks, w \notin replaced, InFlightMove'.block # w
                 PROVE  board[w].rev >= answered'[w]
    BY <1>0 DEF KeptWhereDropped
  <2>2. dropped.block # w
    BY <1>0, <1>7, <1>13, <2>1, InFlightIsDropped DEF Refreshing
  <2>3. w # v /\ InFlightMove.block # w
    BY <1>0, <1>2, <2>2, InFlightIsDropped
  <2> QED
    BY <1>10, <2>1, <2>3 DEF CalendarBoardInv, KeptWhereDropped
<1>15. ReadInTime'
  <2>1. SUFFICES ASSUME refreshes.read # <<>>, NEW w \in Blocks, w \notin replaced,
                        refreshes.read[w].rev < answered'[w]
                 PROVE  asks >= 2 /\ dropped.block = w
    BY <1>0, <1>7 DEF ReadInTime, Behind
  <2>2. CASE w = v
    BY <1>0, <1>2, <1>13, <2>1, <2>2
  <2>3. CASE w # v
    BY <1>10, <1>13, <2>1, <2>3 DEF CalendarBoardInv, ReadInTime, Behind
  <2> QED
    BY <2>2, <2>3
<1>16. RefusalIsSafe'
  BY <1>0 DEF RefusalIsSafe
<1> QED
  BY <1>9, <1>12, <1>14, <1>15, <1>16 DEF CalendarBoardInv

LEMMA BoardMoveRefused ==
    ASSUME CalendarBoardInv, MoveRefused
    PROVE  CalendarBoardInv'
<1>0. /\ CalendarBoardTypeOK /\ moveCall # NoCall /\ moveCall' = NoCall /\ dropped' = NoDrop
      /\ dropped.block = moveCall.block /\ moveCall.block \in Blocks
      /\ UNCHANGED <<agenda, board, dragged, refreshes, answered, replaced>>
  BY DEF MoveRefused, CalendarBoardInv, BoardOrder, CalendarBoardTypeOK
<1>1. PICK v \in Blocks : v = moveCall.block
  BY <1>0
<1>2. CalendarBoardTypeOK'
  BY <1>0 DEF CalendarBoardTypeOK
<1>3. BoardOrder'
  BY <1>0 DEF CalendarBoardInv, BoardOrder
<1>4. ASSUME NEW w \in Blocks, w \notin replaced
      PROVE  /\ ~ Behind(board, w)
             /\ refreshes.read # <<>> => ~ Behind(refreshes.read, w)
  <2>1. CASE w = v
    BY <1>0, <1>1, <1>4, <2>1 DEF CalendarBoardInv, RefusalIsSafe
  <2>2. CASE w # v
    <3>1. dropped.block # w /\ InFlightMove.block # w
      BY <1>0, <1>1, <2>2, InFlightIsDropped
    <3>2. ~ Behind(board, w)
      BY <1>0, <1>4, <3>1, BoardNumbers DEF CalendarBoardInv, KeptWhereDropped, Behind
    <3> QED
      BY <1>4, <3>1, <3>2 DEF CalendarBoardInv, ReadInTime
  <2> QED
    BY <2>1, <2>2
<1>5. KeptWhereDropped'
  BY <1>0, <1>4, BoardNumbers DEF KeptWhereDropped, Behind
<1>6. ReadInTime'
  BY <1>0, <1>4 DEF ReadInTime, Behind
<1>7. RefusalIsSafe'
  BY <1>0 DEF RefusalIsSafe
<1> QED
  BY <1>2, <1>3, <1>5, <1>6, <1>7 DEF CalendarBoardInv

LEMMA BoardReads ==
    ASSUME CalendarBoardInv, RefreshReads
    PROVE  CalendarBoardInv'
<1>0. /\ CalendarBoardTypeOK /\ refreshes.asked > 0 /\ refreshes' = [refreshes EXCEPT !.read = agenda]
      /\ UNCHANGED <<agenda, board, dragged, dropped, moveCall, answered, replaced>>
  BY DEF RefreshReads, Refreshing, CalendarBoardInv
<1>1. /\ refreshes' \in [asked : 0 .. MaxRefreshes, read : [Blocks -> AgendaRow] \cup {<<>>}]
      /\ refreshes'.asked = refreshes.asked /\ refreshes'.read = agenda
  BY <1>0 DEF CalendarBoardTypeOK
<1>2. CalendarBoardTypeOK'
  BY <1>0, <1>1 DEF CalendarBoardTypeOK
<1>3. refreshes.asked \in Nat
  BY <1>0, BoardNumbers
<1>4. BoardOrder'
  BY <1>0, <1>1, <1>3 DEF CalendarBoardInv, BoardOrder
<1>5. KeptWhereDropped'
  BY <1>0, <1>1 DEF CalendarBoardInv, KeptWhereDropped, InFlightMove, Submitting, Refreshing
<1>6. \A w \in Blocks : ~ Behind(agenda, w)
  BY <1>0, BoardNumbers DEF CalendarBoardInv, BoardOrder, Behind
<1>7. ReadInTime'
  BY <1>0, <1>1, <1>6 DEF ReadInTime, Behind
<1>8. RefusalIsSafe'
  <2>1. moveCall # NoCall => moveCall.block \in Blocks
    BY <1>0 DEF CalendarBoardTypeOK
  <2> QED
    BY <1>0, <1>1, <1>6, <2>1 DEF CalendarBoardInv, RefusalIsSafe, Behind
<1> QED
  BY <1>2, <1>4, <1>5, <1>7, <1>8 DEF CalendarBoardInv

LEMMA BoardShows ==
    ASSUME CalendarBoardInv, RefreshShown
    PROVE  CalendarBoardInv'
<1>0. /\ CalendarBoardTypeOK /\ refreshes.asked > 0 /\ refreshes.read # <<>>
      /\ board' = refreshes.read /\ replaced' = {v \in replaced : Behind(refreshes.read, v)}
      /\ UNCHANGED <<agenda, dropped, moveCall, answered>>
  BY DEF RefreshShown, Refreshing, CalendarBoardInv, Behind
<1>1. PICK k \in 0 .. MaxRefreshes : k = refreshes.asked
  BY <1>0 DEF CalendarBoardTypeOK
<1>2. k \in Nat /\ k - 1 \in 0 .. MaxRefreshes
  BY <1>0, <1>1, CalendarBoardAssumption
<1>3. PICK asks \in 0 .. MaxRefreshes : asks = k - 1
  BY <1>2
<1>4. refreshes' = [asked |-> asks, read |-> <<>>]
  BY <1>1, <1>3 DEF RefreshShown
<1>5. refreshes.read \in [Blocks -> AgendaRow]
  BY <1>0 DEF CalendarBoardTypeOK
<1>6. /\ dragged' \in {NoDrag} \cup [block : Blocks, lost : BOOLEAN]
      /\ dragged' # NoDrag => dragged # NoDrag
  <2>1. CASE dragged = NoDrag
    BY <2>1 DEF RefreshShown
  <2>2. CASE dragged # NoDrag
    <3>1. dragged \in [block : Blocks, lost : BOOLEAN]
      BY <1>0, <2>2 DEF CalendarBoardTypeOK
    <3>2. PICK flag \in BOOLEAN :
            flag = (dragged.lost \/ Column(refreshes.read[dragged.block].place) # Column(Drawn(dragged.block)))
      OBVIOUS
    <3>3. dragged' = [dragged EXCEPT !.lost = flag]
      BY <2>2, <3>1, <3>2 DEF RefreshShown
    <3> QED
      BY <2>2, <3>1, <3>3
  <2> QED
    BY <2>1, <2>2
<1>7. CalendarBoardTypeOK'
  BY <1>0, <1>4, <1>5, <1>6 DEF CalendarBoardTypeOK
<1>8. BoardOrder'
  BY <1>0, <1>4, <1>6 DEF CalendarBoardInv, BoardOrder
<1>9. KeptWhereDropped'
  <2>1. SUFFICES ASSUME NEW w \in Blocks, w \notin replaced', ~(refreshes.read[w].rev >= answered[w])
                 PROVE  InFlightMove'.block = w
    BY <1>0 DEF KeptWhereDropped
  <2>2. Behind(refreshes.read, w)
    BY <1>0, <2>1, BoardNumbers DEF Behind
  <2>3. w \notin replaced
    BY <1>0, <2>1, <2>2
  <2>4. refreshes.asked >= 2 /\ dropped.block = w
    BY <1>0, <2>2, <2>3 DEF CalendarBoardInv, ReadInTime
  <2>5. Refreshing'
    BY <1>1, <1>2, <1>3, <1>4, <2>4 DEF Refreshing
  <2> QED
    BY <1>0, <2>4, <2>5, InFlightIsDropped
<1>10. ReadInTime'
  BY <1>4 DEF ReadInTime
<1>11. RefusalIsSafe'
  <2>1. SUFFICES ASSUME moveCall # NoCall, moveCall.block \notin replaced'
                 PROVE  ~ Behind(refreshes.read, moveCall.block)
    BY <1>0, <1>4 DEF RefusalIsSafe, Behind
  <2>2. CASE moveCall.block \in replaced
    BY <1>0, <2>1, <2>2
  <2>3. CASE moveCall.block \notin replaced
    BY <1>0, <2>1, <2>3 DEF CalendarBoardInv, RefusalIsSafe
  <2> QED
    BY <2>2, <2>3
<1> QED
  BY <1>7, <1>8, <1>9, <1>10, <1>11 DEF CalendarBoardInv

LEMMA BoardSteps ==
    ASSUME CalendarBoardInv, [CalendarBoardNext]_boardVars
    PROVE  CalendarBoardInv'
<1>1. CASE UNCHANGED boardVars
  BY <1>1 DEF boardVars, CalendarBoardInv, CalendarBoardTypeOK, BoardOrder, KeptWhereDropped,
     ReadInTime, RefusalIsSafe, Behind, InFlightMove, Submitting, Refreshing
<1> QED
  BY <1>1, BoardServerMoves, BoardOthersChange, BoardPointer, BoardDrops, BoardMoveDone,
     BoardMoveRefused, BoardReads, BoardShows, ZenonT(60) DEF CalendarBoardNext

(* However many visits, drops, changes by others and loads of the page      *)
(* there are, and in whatever order their answers come                      *)
(* (use-calendar-drag.ts): a visit whose move was accepted is not drawn at  *)
(* its old place again, unless another drop replaced it in pendingMove.     *)
THEOREM DropsAreKept == CalendarBoardSpec => []KeptWhereDropped
<1>1. CalendarBoardInv => KeptWhereDropped
  BY DEF CalendarBoardInv
<1> QED
  BY <1>1, BoardStarts, BoardSteps, PTL DEF CalendarBoardSpec

---------------------------------------------------------------------------
(***************************************************************************)
(* ReviewDesk: what the rows say of the decisions made, and what a decision *)
(* half way may rely on.                                                    *)
(***************************************************************************)
Verdicts == {"approve", "reject"}
ClaimRows ==
    [status : {"PROCESSING", "NEEDS_ATTENTION", "ACCEPTED", "REJECTED"},
     booking : {"PENDING", "CONFIRMED", "OVER"}, newest : Nat,
     reading : SUBSET Nat, open : SUBSET Nat, commission : BOOLEAN]
ReviewRows == [bill : Bills \cup {NoBill}, slip : Nat, verdict : Verdicts]
PageRows ==
    [listed : SUBSET Bills, ticked : SUBSET Bills, dialog : {"closed"} \cup Verdicts,
     sent : BOOLEAN, todo : SUBSET Bills, review : ReviewRows]

DeskShape ==
    /\ claim \in [Bills -> ClaimRows] /\ clerk \in [Clerks -> PageRows] /\ salonOwner \in ReviewRows
    /\ verdictsOf \in [Bills -> [Slips -> Nat]]
    /\ salonOwner = NoReview \/ salonOwner.bill \in Bills

SlipsSent(row) == row.open \cup row.reading \subseteq 1 .. row.newest

(* Receipts that are read or open are not decided yet, nor are those to     *)
(* come; each is decided once; and an approval stays.                       *)
SlipsFine(row, made) ==
    /\ row.open \cap row.reading = {}
    /\ \A s \in Slips : (s \in row.open \cup row.reading \/ s > row.newest) => made[s] = 0
    /\ \A s \in Slips : made[s] <= 1
    /\ row.commission => row.booking = "CONFIRMED" /\ row.status # "REJECTED"

(* A decision whose payment still needs attention is about a receipt that   *)
(* is still open, of a payment that was not approved.                       *)
StillToDecide(row, review) ==
    row.status = "NEEDS_ATTENTION" => review.slip \in row.open /\ ~ row.commission

(* An operator works on what the page showed.                               *)
PageFine(page) ==
    /\ page.todo \subseteq page.listed
    /\ page.review.bill # NoBill => page.sent /\ page.review.bill \in page.listed

ReviewFine(review) ==
    review.bill \in Bills \ crossing => StillToDecide(claim[review.bill], review)

ReviewDeskInv ==
    /\ DeskShape /\ strays = {}
    /\ \A b \in Bills : SlipsSent(claim[b])
    /\ \A b \in Bills \ crossing : SlipsFine(claim[b], verdictsOf[b])
    /\ ReviewFine(salonOwner)
    /\ \A c \in Clerks : PageFine(clerk[c]) /\ ReviewFine(clerk[c].review)

LEMMA NoBillIsNone == NoBill \notin Bills
BY ReviewDeskAssumption DEF NoBill

LEMMA ReviewDeskStarts == ReviewDeskInit => ReviewDeskInv
<1> SUFFICES ASSUME ReviewDeskInit PROVE ReviewDeskInv
  OBVIOUS
<1>1. NoReview \in ReviewRows /\ BlankPage \in PageRows
  BY DEF NoReview, ReviewRows, BlankPage, PageRows, Verdicts
<1>2. DeskShape
  BY <1>1 DEF ReviewDeskInit, DeskShape, ClaimRows
<1>3. ASSUME NEW b \in Bills PROVE SlipsSent(claim[b]) /\ SlipsFine(claim[b], verdictsOf[b])
  BY DEF ReviewDeskInit, SlipsSent, SlipsFine
<1>4. NoReview.bill \notin Bills
  BY NoBillIsNone DEF NoReview
<1>5. PageFine(BlankPage) /\ ReviewFine(BlankPage.review) /\ ReviewFine(NoReview)
  BY <1>4 DEF PageFine, ReviewFine, BlankPage, NoReview
<1> QED
  BY <1>2, <1>3, <1>5 DEF ReviewDeskInit, ReviewDeskInv

(* Steps about one payment's receipts or booking                            *)
BillStep(b, row) ==
    /\ row \in ClaimRows /\ SlipsSent(row) /\ claim' = [claim EXCEPT ![b] = row]
    /\ UNCHANGED <<clerk, salonOwner, verdictsOf, strays>> /\ crossing \subseteq crossing'
    /\ b \notin crossing' => SlipsFine(row, verdictsOf[b])
    /\ (b \notin crossing' /\ HalfWay(b) /\ row.status = "NEEDS_ATTENTION") =>
         claim[b].status = "NEEDS_ATTENTION" /\ row.open = claim[b].open
         /\ row.commission = claim[b].commission

LEMMA BillStepKeeps ==
    ASSUME ReviewDeskInv, NEW b \in Bills, NEW row, BillStep(b, row)
    PROVE  ReviewDeskInv'
<1>1. /\ claim \in [Bills -> ClaimRows] /\ row \in ClaimRows /\ claim' = [claim EXCEPT ![b] = row]
      /\ UNCHANGED <<clerk, salonOwner, verdictsOf, strays>> /\ crossing \subseteq crossing'
  BY DEF ReviewDeskInv, DeskShape, BillStep
<1>2. claim' \in [Bills -> ClaimRows] /\ \A d \in Bills : claim'[d] = IF d = b THEN row ELSE claim[d]
  BY <1>1
<1>3. DeskShape'
  BY <1>1, <1>2 DEF ReviewDeskInv, DeskShape
<1>4. ASSUME NEW d \in Bills \ crossing' PROVE SlipsFine(claim'[d], verdictsOf[d])
  <2>1. CASE d = b
    BY <1>2, <2>1 DEF BillStep
  <2>2. CASE d # b
    BY <1>1, <1>2, <2>2 DEF ReviewDeskInv
  <2> QED
    BY <2>1, <2>2
<1>8. ASSUME NEW d \in Bills PROVE SlipsSent(claim'[d])
  BY <1>2 DEF BillStep, ReviewDeskInv
<1>5. ASSUME NEW review, ReviewFine(review), review.bill = b => HalfWay(b)
      PROVE  review.bill \in Bills \ crossing' => StillToDecide(claim'[review.bill], review)
  <2> SUFFICES ASSUME review.bill \in Bills \ crossing'
               PROVE  StillToDecide(claim'[review.bill], review)
    OBVIOUS
  <2>1. StillToDecide(claim[review.bill], review)
    BY <1>1, <1>5 DEF ReviewFine
  <2>2. CASE review.bill = b
    BY <1>2, <1>5, <2>1, <2>2 DEF BillStep, StillToDecide
  <2>3. CASE review.bill # b
    BY <1>2, <2>1, <2>3
  <2> QED
    BY <2>2, <2>3
<1>6. ReviewFine(salonOwner)'
  BY <1>1, <1>5 DEF ReviewDeskInv, HalfWay, ReviewFine
<1>7. ASSUME NEW c \in Clerks PROVE ReviewFine(clerk[c].review)'
  <2>1. PICK review : review = clerk[c].review
    OBVIOUS
  <2>2. ReviewFine(review) /\ (review.bill = b => HalfWay(b))
    BY <2>1 DEF ReviewDeskInv, HalfWay
  <2>3. review.bill \in Bills \ crossing' => StillToDecide(claim'[review.bill], review)
    BY <1>5, <2>2
  <2> QED
    BY <1>1, <2>1, <2>3 DEF ReviewFine
<1> QED
  BY <1>1, <1>3, <1>4, <1>6, <1>7, <1>8 DEF ReviewDeskInv, PageFine

LEMMA SlipsChange ==
    ASSUME ReviewDeskInv, NEW b \in Bills,
           SendSlip(b) \/ VisitFalls(b) \/ \E slip \in Slips : SlipMatches(b, slip) \/ SlipDoubted(b, slip)
    PROVE  ReviewDeskInv'
<1> DEFINE old == claim[b]
<1>0. old \in ClaimRows /\ claim \in [Bills -> ClaimRows] /\ verdictsOf \in [Bills -> [Slips -> Nat]]
  BY DEF ReviewDeskInv, DeskShape
<1>a. SlipsSent(old) /\ (b \notin crossing => SlipsFine(old, verdictsOf[b]))
  BY DEF ReviewDeskInv
<1>1. ASSUME SendSlip(b) PROVE ReviewDeskInv'
  <2>1. PICK slip \in Nat : slip = old.newest + 1 /\ old.newest \in Nat
    BY <1>0 DEF ClaimRows
  <2>2. PICK reading : reading = old.reading \cup {slip}
    OBVIOUS
  <2>3. PICK row : row = [old EXCEPT !.newest = slip, !.reading = reading, !.status = "PROCESSING"]
    OBVIOUS
  <2>4. claim' = [claim EXCEPT ![b] = row]
    BY <1>0, <1>1, <2>1, <2>2, <2>3 DEF SendSlip
  <2>5. reading \in SUBSET Nat
    BY <1>0, <2>1, <2>2 DEF ClaimRows
  <2>6. /\ row \in ClaimRows /\ row.status = "PROCESSING" /\ row.newest = slip
        /\ row.reading = reading /\ row.open = old.open /\ row.commission = old.commission
        /\ row.booking = old.booking
    BY <1>0, <2>1, <2>3, <2>5 DEF ClaimRows
  <2>8. slip \notin old.open /\ SlipsSent(row)
    <3>1. slip \notin old.open /\ slip \in 1 .. slip /\ 1 .. old.newest \subseteq 1 .. slip
      BY <1>a, <2>1 DEF SlipsSent
    <3> QED
      BY <1>a, <2>2, <2>6, <3>1 DEF SlipsSent
  <2>7. b \notin crossing => SlipsFine(row, verdictsOf[b])
    <3> SUFFICES ASSUME b \notin crossing PROVE SlipsFine(row, verdictsOf[b])
      OBVIOUS
    <3>1. /\ old.open \cap old.reading = {}
          /\ \A s \in Slips : (s \in old.open \cup old.reading \/ s > old.newest) => verdictsOf[b][s] = 0
      BY <1>a DEF SlipsFine
    <3>3. row.open \cap row.reading = {}
      BY <2>2, <2>6, <2>8, <3>1
    <3>4. ASSUME NEW s \in Slips, s \in row.open \cup row.reading \/ s > row.newest
          PROVE  verdictsOf[b][s] = 0
      <4>0. s \in Int
        BY ReviewDeskAssumption DEF Slips
      <4>1. CASE s \in old.open \cup old.reading
        BY <3>1, <4>1
      <4>2. CASE s = slip \/ s > slip
        BY <2>1, <3>1, <4>0, <4>2
      <4> QED
        BY <2>2, <2>6, <3>4, <4>1, <4>2
    <3> QED
      BY <1>a, <2>6, <3>3, <3>4 DEF SlipsFine
  <2> QED
    BY <1>1, <2>4, <2>6, <2>7, <2>8, BillStepKeeps DEF SendSlip, DesksStay, HistoryStays, BillStep
<1>2. ASSUME VisitFalls(b) PROVE ReviewDeskInv'
  <2>1. PICK row : row = [old EXCEPT !.booking = "OVER"]
    OBVIOUS
  <2>2. claim' = [claim EXCEPT ![b] = row] /\ old.booking = "PENDING"
    BY <1>2, <2>1 DEF VisitFalls
  <2>3. row \in ClaimRows
    BY <1>0, <2>1 DEF ClaimRows
  <2>4. /\ row.open = old.open /\ row.reading = old.reading /\ row.newest = old.newest
        /\ row.commission = old.commission /\ row.status = old.status
    BY <1>0, <2>1 DEF ClaimRows
  <2>5. b \notin crossing => SlipsFine(row, verdictsOf[b])
    BY <1>a, <2>2, <2>4 DEF SlipsFine
  <2>6. UNCHANGED <<clerk, salonOwner, verdictsOf, strays, crossing>>
    BY <1>2 DEF VisitFalls, DesksStay, HistoryStays
  <2>7. BillStep(b, row)
    BY <1>a, <2>2, <2>3, <2>4, <2>5, <2>6 DEF BillStep, SlipsSent
  <2> QED
    BY <2>7, BillStepKeeps
<1>3. ASSUME NEW slip \in Slips, SlipMatches(b, slip) PROVE ReviewDeskInv'
  <2>1. PICK reading : reading = old.reading \ {slip}
    OBVIOUS
  <2>2. PICK row : row = [old EXCEPT !.reading = reading, !.status = "ACCEPTED", !.booking = "CONFIRMED"]
    OBVIOUS
  <2>3. claim' = [claim EXCEPT ![b] = row]
    BY <1>0, <1>3, <2>1, <2>2 DEF SlipMatches
  <2>4. reading \in SUBSET Nat /\ reading \subseteq old.reading
    BY <1>0, <2>1 DEF ClaimRows
  <2>5. /\ row \in ClaimRows /\ row.open = old.open /\ row.reading = reading /\ row.newest = old.newest
        /\ row.commission = old.commission /\ row.status = "ACCEPTED" /\ row.booking = "CONFIRMED"
    BY <1>0, <2>2, <2>4 DEF ClaimRows
  <2>6. b \notin crossing => SlipsFine(row, verdictsOf[b])
    BY <1>a, <2>4, <2>5 DEF SlipsFine
  <2>7. UNCHANGED <<clerk, salonOwner, verdictsOf, strays, crossing>>
    BY <1>3 DEF SlipMatches, DesksStay, HistoryStays
  <2>8. BillStep(b, row)
    <3>1. SlipsSent(row)
      BY <1>a, <2>4, <2>5 DEF SlipsSent
    <3> QED
      BY <2>3, <2>5, <2>6, <2>7, <3>1 DEF BillStep
  <2> QED
    BY <2>8, BillStepKeeps
<1>4. ASSUME NEW slip \in Slips, SlipDoubted(b, slip) PROVE ReviewDeskInv'
  <2>1. PICK reading, open : reading = old.reading \ {slip} /\ open = old.open \cup {slip}
    OBVIOUS
  <2>2. PICK row : row = [old EXCEPT !.reading = reading, !.open = open, !.status = "NEEDS_ATTENTION"]
    OBVIOUS
  <2>3. claim' = [claim EXCEPT ![b] = row] /\ slip \in old.reading
    BY <1>0, <1>4, <2>1, <2>2 DEF SlipDoubted
  <2>4. reading \in SUBSET Nat /\ open \in SUBSET Nat
    BY <1>0, <2>1, <2>3 DEF ClaimRows
  <2>5. /\ row \in ClaimRows /\ row.open = open /\ row.reading = reading /\ row.newest = old.newest
        /\ row.commission = old.commission /\ row.status = "NEEDS_ATTENTION" /\ row.booking = old.booking
    BY <1>0, <2>2, <2>4 DEF ClaimRows
  <2>6. b \notin crossing => SlipsFine(row, verdictsOf[b])
    BY <1>a, <2>1, <2>3, <2>5 DEF SlipsFine
  <2>7. /\ UNCHANGED <<clerk, salonOwner, verdictsOf, strays>> /\ crossing \subseteq crossing'
        /\ b \notin crossing' => ~ HalfWay(b)
    BY <1>4 DEF SlipDoubted, DesksStay
  <2>8. BillStep(b, row)
    <3>1. SlipsSent(row)
      BY <1>a, <2>1, <2>3, <2>5 DEF SlipsSent
    <3> QED
      BY <2>3, <2>5, <2>6, <2>7, <3>1 DEF BillStep
  <2> QED
    BY <2>8, BillStepKeeps
<1> QED
  BY <1>1, <1>2, <1>3, <1>4

(* A decision that is written marks its receipt, and no other decision that *)
(* is half way may be written after it, unless the payment comes back.      *)
LEMMA ClaimSettled ==
    ASSUME ReviewDeskInv, NEW review \in ReviewRows, review.bill \in Bills, ReviewFine(review),
           SettleClaim(review), UNCHANGED crossing
    PROVE  /\ claim' \in [Bills -> ClaimRows] /\ verdictsOf' \in [Bills -> [Slips -> Nat]]
           /\ \A b \in Bills : SlipsSent(claim'[b])
           /\ \A b \in Bills \ crossing : SlipsFine(claim'[b], verdictsOf'[b])
           /\ \A other : ReviewFine(other) =>
                (other.bill \in Bills \ crossing => StillToDecide(claim'[other.bill], other))
<1>0. claim \in [Bills -> ClaimRows] /\ verdictsOf \in [Bills -> [Slips -> Nat]]
  BY DEF ReviewDeskInv, DeskShape
<1>a. /\ \A b \in Bills : SlipsSent(claim[b])
      /\ \A b \in Bills \ crossing : SlipsFine(claim[b], verdictsOf[b])
  BY DEF ReviewDeskInv
<1>1. CASE ~ ClaimTakes(review)
  BY <1>0, <1>1, <1>a DEF SettleClaim, ReviewFine
<1>2. CASE ClaimTakes(review)
  <2>1. PICK b \in Bills, s \in Nat : b = review.bill /\ s = review.slip
    BY DEF ReviewRows
  <2> DEFINE old == claim[b]
             made == verdictsOf[b]
  <2>2. old \in ClaimRows /\ made \in [Slips -> Nat]
    BY <1>0
  <2>3. old.status = "NEEDS_ATTENTION"
    BY <1>2, <2>1 DEF ClaimTakes, Claimed
  <2>4. PICK open : open = old.open \ {s}
    OBVIOUS
  <2>5. open \in SUBSET Nat
    BY <2>2, <2>4 DEF ClaimRows
  <2>6. PICK row \in ClaimRows :
          /\ claim' = [claim EXCEPT ![b] = row]
          /\ row.open = open /\ row.reading = old.reading /\ row.newest = old.newest
          /\ row.status # "NEEDS_ATTENTION"
          /\ \/ row.status = "ACCEPTED" /\ row.booking = "CONFIRMED"
             \/ row.status = "REJECTED" /\ row.booking = old.booking /\ row.commission = old.commission
    <3>1. CASE review.verdict = "approve"
      <4>1. PICK row : row = [old EXCEPT !.status = "ACCEPTED", !.booking = "CONFIRMED",
                                         !.open = open, !.commission = TRUE]
        OBVIOUS
      <4>2. claim' = [claim EXCEPT ![b].status = "ACCEPTED", ![b].booking = "CONFIRMED",
                                   ![b].open = @ \ {s}, ![b].commission = TRUE]
        BY <1>2, <2>1, <3>1 DEF SettleClaim, Decided
      <4>3. claim' = [claim EXCEPT ![b] = row]
        BY <1>0, <2>4, <4>1, <4>2
      <4>4. /\ row \in ClaimRows /\ row.open = open /\ row.reading = old.reading
            /\ row.newest = old.newest /\ row.status = "ACCEPTED" /\ row.booking = "CONFIRMED"
        BY <2>2, <2>5, <4>1 DEF ClaimRows
      <4> QED
        BY <4>3, <4>4
    <3>2. CASE review.verdict # "approve"
      <4>1. PICK row : row = [old EXCEPT !.status = "REJECTED", !.open = open]
        OBVIOUS
      <4>2. claim' = [claim EXCEPT ![b].status = "REJECTED", ![b].open = @ \ {s}]
        BY <1>2, <2>1, <3>2 DEF SettleClaim, Decided
      <4>3. claim' = [claim EXCEPT ![b] = row]
        BY <1>0, <2>4, <4>1, <4>2
      <4>4. /\ row \in ClaimRows /\ row.open = open /\ row.reading = old.reading
            /\ row.newest = old.newest /\ row.status = "REJECTED" /\ row.booking = old.booking
            /\ row.commission = old.commission
        BY <2>2, <2>5, <4>1 DEF ClaimRows
      <4> QED
        BY <4>3, <4>4
    <3> QED
      BY <3>1, <3>2
  <2>7. verdictsOf' = [verdictsOf EXCEPT ![b][s] = @ + 1]
    BY <1>2, <2>1 DEF SettleClaim
  <2>8. PICK now \in [Slips -> Nat] :
          /\ verdictsOf' = [verdictsOf EXCEPT ![b] = now]
          /\ \A t \in Slips : now[t] = IF t = s THEN made[t] + 1 ELSE made[t]
    <3>1. PICK now : now = [made EXCEPT ![s] = made[s] + 1]
      OBVIOUS
    <3>2. verdictsOf' = [verdictsOf EXCEPT ![b] = now]
      BY <1>0, <2>7, <3>1
    <3>3. ASSUME s \in Slips PROVE now \in [Slips -> Nat]
      <4>1. PICK n \in Nat : n = made[s] + 1
        BY <2>2, <3>3
      <4> QED
        BY <2>2, <3>1, <4>1
    <3>4. s \notin Slips => now = made
      BY <2>2, <3>1
    <3>5. now \in [Slips -> Nat]
      BY <2>2, <3>3, <3>4
    <3>6. \A t \in Slips : now[t] = IF t = s THEN made[t] + 1 ELSE made[t]
      BY <2>2, <3>1
    <3> QED
      BY <3>2, <3>5, <3>6
  <2>9. /\ claim' \in [Bills -> ClaimRows]
        /\ \A d \in Bills : claim'[d] = IF d = b THEN row ELSE claim[d]
    BY <1>0, <2>6
  <2>10. /\ verdictsOf' \in [Bills -> [Slips -> Nat]]
         /\ \A d \in Bills : verdictsOf'[d] = IF d = b THEN now ELSE verdictsOf[d]
    BY <1>0, <2>8
  <2>11. b \notin crossing => SlipsFine(row, now)
    <3> SUFFICES ASSUME b \notin crossing PROVE SlipsFine(row, now)
      OBVIOUS
    <3>1. SlipsFine(old, made)
      BY <1>a
    <3>2. s \in old.open /\ ~ old.commission
      BY <2>1, <2>3 DEF ReviewFine, StillToDecide
    <3>3. s \in 1 .. old.newest /\ s \notin old.reading /\ old.newest \in Nat
      BY <1>a, <2>2, <3>1, <3>2 DEF SlipsFine, SlipsSent, ClaimRows
    <3>4. /\ row.open \cap row.reading = {}
          /\ s \notin row.open \cup row.reading
      BY <2>4, <2>6, <3>1, <3>3 DEF SlipsFine
    <3>5. ASSUME NEW t \in Slips
          PROVE  /\ (t \in row.open \cup row.reading \/ t > row.newest) => now[t] = 0
                 /\ now[t] <= 1
      <4>0. t \in Int /\ made[t] \in Nat
        BY <2>2, ReviewDeskAssumption DEF Slips
      <4>1. CASE t = s
        <5>1. made[t] = 0 /\ now[t] = 1
          BY <2>8, <3>1, <3>2, <4>0, <4>1 DEF SlipsFine
        <5>2. ~ (t > row.newest)
          BY <2>6, <3>3, <4>1
        <5> QED
          BY <3>4, <4>1, <5>1, <5>2
      <4>2. CASE t # s
        <5>1. now[t] = made[t]
          BY <2>8, <4>2
        <5> QED
          BY <2>4, <2>6, <3>1, <5>1 DEF SlipsFine
      <4> QED
        BY <4>1, <4>2
    <3>6. row.commission => row.booking = "CONFIRMED" /\ row.status # "REJECTED"
      BY <2>6, <3>2
    <3> QED
      BY <3>4, <3>5, <3>6 DEF SlipsFine
  <2>14. \A d \in Bills : SlipsSent(claim'[d])
    <3>1. SlipsSent(row)
      BY <1>a, <2>4, <2>6 DEF SlipsSent
    <3> QED
      BY <1>a, <2>9, <3>1
  <2>12. \A d \in Bills \ crossing : SlipsFine(claim'[d], verdictsOf'[d])
    BY <1>a, <2>9, <2>10, <2>11
  <2>13. ASSUME NEW other, ReviewFine(other), other.bill \in Bills \ crossing
         PROVE  StillToDecide(claim'[other.bill], other)
    <3>1. CASE other.bill = b
      BY <2>6, <2>9, <3>1 DEF StillToDecide
    <3>2. CASE other.bill # b
      BY <2>9, <2>13, <3>2 DEF ReviewFine
    <3> QED
      BY <3>1, <3>2
  <2> QED
    BY <2>9, <2>10, <2>12, <2>13, <2>14
<1> QED
  BY <1>1, <1>2

(* The newest receipt that needs review, of a payment that was not approved *)
LEMMA ReviewStarts ==
    ASSUME ReviewDeskInv, NEW b \in Bills, Decidable(b), NEW verdict \in Verdicts
    PROVE  ReviewOf(b, verdict) \in ReviewRows /\ ReviewFine(ReviewOf(b, verdict))
<1>0. claim[b] \in ClaimRows /\ claim[b].open # {} /\ claim[b].booking = "PENDING"
  BY DEF ReviewDeskInv, DeskShape, Decidable
<1>1. ReviewOf(b, verdict) = [bill |-> b, slip |-> NewestOpen(b), verdict |-> verdict]
  BY DEF ReviewOf
<1>2. claim[b].open \subseteq 0 .. claim[b].newest /\ claim[b].newest \in Nat
  BY <1>0 DEF ReviewDeskInv, SlipsSent, ClaimRows
<1>3. \E n \in claim[b].open : \A m \in claim[b].open : m <= n
  BY <1>0, <1>2, HighestOf
<1>4. NewestOpen(b) \in claim[b].open
  BY <1>3 DEF NewestOpen
<1>5. NewestOpen(b) \in Nat
  BY <1>2, <1>4
<1>6. b \notin crossing => ~ claim[b].commission
  BY <1>0 DEF ReviewDeskInv, SlipsFine
<1> QED
  BY <1>1, <1>4, <1>5, <1>6 DEF ReviewRows, ReviewFine, StillToDecide

(* Steps of one operator's page that leave the payments alone               *)
LEMMA PageStepKeeps ==
    ASSUME ReviewDeskInv, NEW c \in Clerks, NEW page \in PageRows, WithPage(c, page),
           PageFine(page), ReviewFine(page.review),
           UNCHANGED <<claim, salonOwner, verdictsOf, crossing, strays>>
    PROVE  ReviewDeskInv'
<1>1. /\ clerk \in [Clerks -> PageRows] /\ clerk' = [clerk EXCEPT ![c] = page]
  BY DEF ReviewDeskInv, DeskShape, WithPage
<1>2. clerk' \in [Clerks -> PageRows] /\ \A d \in Clerks : clerk'[d] = IF d = c THEN page ELSE clerk[d]
  BY <1>1
<1>3. ASSUME NEW d \in Clerks PROVE PageFine(clerk'[d]) /\ ReviewFine(clerk'[d].review)
  BY <1>2 DEF ReviewDeskInv
<1>4. DeskShape'
  BY <1>2 DEF ReviewDeskInv, DeskShape
<1> QED
  BY <1>3, <1>4 DEF ReviewDeskInv, ReviewFine

LEMMA PageOpened ==
    ASSUME ReviewDeskInv, NEW c \in Clerks, LoadQueue(c) \/ Redirected(c)
    PROVE  ReviewDeskInv'
<1>0. clerk[c] \in PageRows /\ PageFine(clerk[c])
  BY DEF ReviewDeskInv, DeskShape
<1>1. NoReview \in ReviewRows /\ NoReview.bill = NoBill /\ NoBill \notin Bills /\ Attention \subseteq Bills
  BY NoBillIsNone DEF NoReview, ReviewRows, Verdicts, Attention
<1>2. ReviewFine(NoReview)
  BY <1>1 DEF ReviewFine
<1>3. PICK attention \in SUBSET Bills : attention = Attention
  BY <1>1
<1>4. PICK page : page \in {[BlankPage EXCEPT !.listed = attention], BlankPage,
                            [clerk[c] EXCEPT !.sent = FALSE, !.listed = attention, !.review = NoReview]}
                  /\ WithPage(c, page) /\ (page # [BlankPage EXCEPT !.listed = attention] => clerk[c].todo = {})
  BY <1>3 DEF LoadQueue, Redirected
<1>5. page \in PageRows /\ page.review = NoReview /\ page.todo = {}
  <2>1. CASE page = [BlankPage EXCEPT !.listed = attention]
    BY <1>1, <2>1 DEF BlankPage, PageRows
  <2>2. CASE page = BlankPage
    BY <1>1, <2>2 DEF BlankPage, PageRows
  <2>3. CASE /\ page = [clerk[c] EXCEPT !.sent = FALSE, !.listed = attention, !.review = NoReview]
             /\ page # [BlankPage EXCEPT !.listed = attention]
    BY <1>0, <1>1, <1>4, <2>3 DEF PageRows
  <2> QED
    BY <1>4, <2>1, <2>2, <2>3
<1>6. PageFine(page) /\ ReviewFine(page.review)
  BY <1>1, <1>2, <1>5 DEF PageFine
<1>7. UNCHANGED <<claim, salonOwner, verdictsOf, crossing, strays>>
  BY DEF LoadQueue, Redirected, HistoryStays
<1> QED
  BY <1>4, <1>5, <1>6, <1>7, PageStepKeeps

LEMMA PageTicked ==
    ASSUME ReviewDeskInv, NEW c \in Clerks,
           \/ CloseBulk(c)
           \/ \E ticked \in SUBSET Bills : TickBox(c, ticked)
           \/ \E verdict \in Verdicts : OpenBulk(c, verdict)
    PROVE  ReviewDeskInv'
<1>0. clerk[c] \in PageRows /\ PageFine(clerk[c]) /\ ReviewFine(clerk[c].review)
  BY DEF ReviewDeskInv, DeskShape
<1>1. PICK page \in PageRows : /\ WithPage(c, page) /\ page.listed = clerk[c].listed
                               /\ page.todo = clerk[c].todo /\ page.sent = clerk[c].sent
                               /\ page.review = clerk[c].review
  <2>1. CASE CloseBulk(c)
    <3>1. PICK page : page = [clerk[c] EXCEPT !.dialog = "closed"]
      OBVIOUS
    <3> QED
      BY <1>0, <2>1, <3>1 DEF CloseBulk, PageRows
  <2>2. ASSUME NEW ticked \in SUBSET Bills, TickBox(c, ticked)
        PROVE  \E page \in PageRows : /\ WithPage(c, page) /\ page.listed = clerk[c].listed
                               /\ page.todo = clerk[c].todo /\ page.sent = clerk[c].sent
                               /\ page.review = clerk[c].review
    <3>1. PICK page : page = [clerk[c] EXCEPT !.ticked = ticked]
      OBVIOUS
    <3>2. page \in PageRows /\ page.listed = clerk[c].listed /\ page.todo = clerk[c].todo
          /\ page.sent = clerk[c].sent /\ page.review = clerk[c].review
      BY <1>0, <3>1 DEF PageRows
    <3> QED
      BY <2>2, <3>1, <3>2 DEF TickBox
  <2>3. ASSUME NEW verdict \in Verdicts, OpenBulk(c, verdict)
        PROVE  \E page \in PageRows : /\ WithPage(c, page) /\ page.listed = clerk[c].listed
                               /\ page.todo = clerk[c].todo /\ page.sent = clerk[c].sent
                               /\ page.review = clerk[c].review
    <3>1. PICK page : page = [clerk[c] EXCEPT !.dialog = verdict]
      OBVIOUS
    <3> QED
      BY <1>0, <2>3, <3>1 DEF OpenBulk, PageRows
  <2> QED
    BY <2>1, <2>2, <2>3
<1>2. UNCHANGED <<claim, salonOwner, verdictsOf, crossing, strays>>
  BY DEF CloseBulk, TickBox, OpenBulk, HistoryStays
<1>3. PageFine(page) /\ ReviewFine(page.review)
  BY <1>0, <1>1 DEF PageFine
<1> QED
  BY <1>1, <1>2, <1>3, PageStepKeeps

LEMMA PageSubmitted ==
    ASSUME ReviewDeskInv, NEW c \in Clerks,
           \/ SubmitBulk(c)
           \/ \E b \in Bills : \E verdict \in Verdicts : SubmitRow(c, b, verdict)
    PROVE  ReviewDeskInv'
<1>0. clerk[c] \in PageRows /\ PageFine(clerk[c]) /\ ~ clerk[c].sent
  BY DEF ReviewDeskInv, DeskShape, SubmitBulk, SubmitRow, AtHand
<1>1. clerk[c].review \in ReviewRows /\ clerk[c].review.bill = NoBill
  BY <1>0 DEF PageRows, PageFine
<1>2. PICK verdict \in Verdicts, todo \in SUBSET Bills :
        /\ todo \subseteq clerk[c].listed
        /\ WithPage(c, [clerk[c] EXCEPT !.sent = TRUE, !.todo = todo, !.review.verdict = verdict])
  <2>1. CASE SubmitBulk(c)
    <3>1. clerk[c].dialog \in Verdicts
      BY <1>0, <2>1 DEF SubmitBulk, PageRows
    <3>2. Selection(c) \subseteq clerk[c].listed /\ Selection(c) \in SUBSET Bills
      BY <1>0 DEF Selection, PageRows
    <3> QED
      BY <2>1, <3>1, <3>2 DEF SubmitBulk
  <2>2. ASSUME NEW b \in Bills, NEW verdict \in Verdicts, SubmitRow(c, b, verdict)
        PROVE  /\ {b} \subseteq clerk[c].listed /\ {b} \in SUBSET Bills
               /\ WithPage(c, [clerk[c] EXCEPT !.sent = TRUE, !.todo = {b}, !.review.verdict = verdict])
    BY <2>2 DEF SubmitRow
  <2> QED
    BY <2>1, <2>2
<1>3. PICK review : review = [clerk[c].review EXCEPT !.verdict = verdict]
  OBVIOUS
<1>4. review \in ReviewRows /\ review.bill = NoBill
  BY <1>1, <1>3 DEF ReviewRows
<1>5. PICK page : page = [clerk[c] EXCEPT !.sent = TRUE, !.todo = todo, !.review = review]
  OBVIOUS
<1>6. WithPage(c, page)
  BY <1>0, <1>2, <1>3, <1>5 DEF PageRows
<1>7. page \in PageRows /\ page.listed = clerk[c].listed /\ page.todo = todo /\ page.review = review
  BY <1>0, <1>4, <1>5 DEF PageRows
<1>8. PageFine(page) /\ ReviewFine(page.review)
  BY <1>2, <1>4, <1>7, NoBillIsNone DEF PageFine, ReviewFine
<1>9. UNCHANGED <<claim, salonOwner, verdictsOf, crossing, strays>>
  BY DEF SubmitBulk, SubmitRow, HistoryStays
<1> QED
  BY <1>6, <1>7, <1>8, <1>9, PageStepKeeps

LEMMA PageReads ==
    ASSUME ReviewDeskInv, NEW c \in Clerks, NEW b \in Bills, ClerkReads(c, b)
    PROVE  ReviewDeskInv'
<1>0. clerk[c] \in PageRows /\ PageFine(clerk[c]) /\ ReviewFine(clerk[c].review)
      /\ clerk[c].sent /\ b \in clerk[c].todo
  BY DEF ReviewDeskInv, DeskShape, ClerkReads
<1>1. clerk[c].review \in ReviewRows /\ clerk[c].review.verdict \in Verdicts
  BY <1>0 DEF PageRows, ReviewRows
<1>2. PICK review : review = IF Decidable(b) THEN ReviewOf(b, clerk[c].review.verdict) ELSE clerk[c].review
  OBVIOUS
<1>3. review \in ReviewRows /\ ReviewFine(review) /\ review.bill \in {b, clerk[c].review.bill}
  <2>1. CASE Decidable(b)
    <3>1. review = ReviewOf(b, clerk[c].review.verdict)
      BY <1>2, <2>1
    <3>2. review.bill = b
      BY <3>1 DEF ReviewOf
    <3> QED
      BY <1>1, <2>1, <3>1, <3>2, ReviewStarts
  <2>2. CASE ~ Decidable(b)
    BY <1>0, <1>1, <1>2, <2>2
  <2> QED
    BY <2>1, <2>2
<1>4. PICK todo : todo = clerk[c].todo \ {b}
  OBVIOUS
<1>5. PICK page : page = [clerk[c] EXCEPT !.todo = todo, !.review = review]
  OBVIOUS
<1>6. WithPage(c, page)
  <2>1. WithPage(c, [clerk[c] EXCEPT !.todo = clerk[c].todo \ {b},
                      !.review = IF Decidable(b) THEN ReviewOf(b, clerk[c].review.verdict)
                                 ELSE clerk[c].review])
    BY <1>0 DEF ClerkReads, PageRows
  <2> QED
    BY <1>2, <1>4, <1>5, <2>1
<1>7. todo \in SUBSET Bills /\ todo \subseteq clerk[c].listed /\ b \in clerk[c].listed
  BY <1>0, <1>4 DEF PageRows, PageFine
<1>8. page \in PageRows /\ page.listed = clerk[c].listed /\ page.todo = todo /\ page.review = review
      /\ page.sent = clerk[c].sent
  BY <1>0, <1>3, <1>5, <1>7 DEF PageRows
<1>9. PageFine(page)
  BY <1>0, <1>3, <1>7, <1>8 DEF PageFine
<1>10. UNCHANGED <<claim, salonOwner, verdictsOf, crossing, strays>>
  BY DEF ClerkReads, HistoryStays
<1> QED
  BY <1>3, <1>6, <1>8, <1>9, <1>10, PageStepKeeps

LEMMA PageWrites ==
    ASSUME ReviewDeskInv, NEW c \in Clerks, ClerkWrites(c)
    PROVE  ReviewDeskInv'
<1>0. clerk \in [Clerks -> PageRows] /\ clerk[c] \in PageRows /\ PageFine(clerk[c])
      /\ ReviewFine(clerk[c].review)
  BY DEF ReviewDeskInv, DeskShape
<1>1. PICK review \in ReviewRows : review = clerk[c].review
  BY <1>0 DEF PageRows
<1>2. review.bill \in Bills /\ review.bill \in clerk[c].listed /\ SettleClaim(review)
      /\ UNCHANGED <<salonOwner, crossing>>
  BY <1>0, <1>1 DEF ClerkWrites, ReviewRows, PageFine
<1>3. UNCHANGED strays
  BY <1>1, <1>2 DEF ClerkWrites
<1>4. /\ claim' \in [Bills -> ClaimRows] /\ verdictsOf' \in [Bills -> [Slips -> Nat]]
      /\ \A b \in Bills : SlipsSent(claim'[b])
      /\ \A b \in Bills \ crossing : SlipsFine(claim'[b], verdictsOf'[b])
      /\ \A other : ReviewFine(other) =>
           (other.bill \in Bills \ crossing => StillToDecide(claim'[other.bill], other))
  BY <1>0, <1>1, <1>2, ClaimSettled
<1>5. PICK rest : rest = [NoReview EXCEPT !.verdict = review.verdict]
  OBVIOUS
<1>6. rest \in ReviewRows /\ rest.bill = NoBill
  BY <1>1, <1>5 DEF NoReview, ReviewRows
<1>7. PICK page : page = [clerk[c] EXCEPT !.review = rest]
  OBVIOUS
<1>8. clerk' = [clerk EXCEPT ![c] = page]
  BY <1>1, <1>5, <1>7 DEF ClerkWrites, WithPage
<1>9. page \in PageRows /\ page.listed = clerk[c].listed /\ page.todo = clerk[c].todo
      /\ page.review = rest
  BY <1>0, <1>6, <1>7 DEF PageRows
<1>10. clerk' \in [Clerks -> PageRows] /\ \A d \in Clerks : clerk'[d] = IF d = c THEN page ELSE clerk[d]
  BY <1>0, <1>8, <1>9
<1>11. ASSUME NEW d \in Clerks PROVE PageFine(clerk'[d]) /\ ReviewFine(clerk[d].review)'
  <2>1. CASE d = c
    <3>1. PageFine(clerk'[d])
      BY <1>0, <1>6, <1>9, <1>10, <2>1 DEF PageFine
    <3>2. clerk'[d].review.bill \notin Bills
      BY <1>6, <1>9, <1>10, <2>1, NoBillIsNone
    <3> QED
      BY <3>1, <3>2 DEF ReviewFine
  <2>2. CASE d # c
    <3>1. PICK other : other = clerk[d].review
      OBVIOUS
    <3>2. PageFine(clerk[d]) /\ ReviewFine(other)
      BY <3>1 DEF ReviewDeskInv
    <3>3. other.bill \in Bills \ crossing => StillToDecide(claim'[other.bill], other)
      BY <1>4, <3>2
    <3> QED
      BY <1>2, <1>10, <2>2, <3>1, <3>2, <3>3 DEF ReviewFine
  <2> QED
    BY <2>1, <2>2
<1>12. ReviewFine(salonOwner)'
  <2>1. ReviewFine(salonOwner)
    BY DEF ReviewDeskInv
  <2>2. salonOwner.bill \in Bills \ crossing => StillToDecide(claim'[salonOwner.bill], salonOwner)
    BY <1>4, <2>1
  <2> QED
    BY <1>2, <2>2 DEF ReviewFine
<1>13. DeskShape'
  BY <1>2, <1>4, <1>10 DEF ReviewDeskInv, DeskShape
<1> QED
  BY <1>2, <1>3, <1>4, <1>11, <1>12, <1>13 DEF ReviewDeskInv

LEMMA OwnerDecides ==
    ASSUME ReviewDeskInv,
           \/ OwnerWrites
           \/ \E b \in Bills : \E verdict \in Verdicts : OwnerReads(b, verdict)
    PROVE  ReviewDeskInv'
<1>1. ASSUME NEW b \in Bills, NEW verdict \in Verdicts, OwnerReads(b, verdict) PROVE ReviewDeskInv'
  <2>1. Decidable(b) /\ salonOwner' = ReviewOf(b, verdict)
        /\ UNCHANGED <<claim, clerk, verdictsOf, crossing, strays>>
    BY <1>1 DEF OwnerReads, HistoryStays
  <2>2. salonOwner' \in ReviewRows /\ ReviewFine(salonOwner') /\ salonOwner'.bill = b
    BY <2>1, ReviewStarts DEF ReviewOf
  <2> QED
    BY <2>1, <2>2 DEF ReviewDeskInv, DeskShape, ReviewFine
<1>2. ASSUME OwnerWrites PROVE ReviewDeskInv'
  <2>1. PICK review \in ReviewRows : review = salonOwner
    BY DEF ReviewDeskInv, DeskShape
  <2>2. /\ SettleClaim(review) /\ salonOwner' = NoReview
        /\ UNCHANGED <<clerk, crossing, strays>>
    BY <1>2, <2>1 DEF OwnerWrites
  <2>3. ReviewFine(review)
    BY <2>1 DEF ReviewDeskInv
  <2>4. review.bill \in Bills
    BY <1>2, <2>1 DEF ReviewDeskInv, DeskShape, OwnerWrites
  <2>5. /\ claim' \in [Bills -> ClaimRows] /\ verdictsOf' \in [Bills -> [Slips -> Nat]]
        /\ \A b \in Bills : SlipsSent(claim'[b])
        /\ \A b \in Bills \ crossing : SlipsFine(claim'[b], verdictsOf'[b])
        /\ \A other : ReviewFine(other) =>
             (other.bill \in Bills \ crossing => StillToDecide(claim'[other.bill], other))
    BY <2>1, <2>2, <2>3, <2>4, ClaimSettled
  <2>6. ASSUME NEW c \in Clerks PROVE ReviewFine(clerk[c].review)'
    <3>1. PICK other : other = clerk[c].review
      OBVIOUS
    <3>2. ReviewFine(other)
      BY <3>1 DEF ReviewDeskInv
    <3>3. other.bill \in Bills \ crossing => StillToDecide(claim'[other.bill], other)
      BY <2>5, <3>2
    <3> QED
      BY <2>2, <3>1, <3>3 DEF ReviewFine
  <2>7. NoReview \in ReviewRows /\ ReviewFine(salonOwner)'
    BY <2>2, NoBillIsNone DEF NoReview, ReviewRows, ReviewFine, Verdicts
  <2>8. DeskShape'
    BY <2>2, <2>5, <2>7 DEF ReviewDeskInv, DeskShape
  <2> QED
    BY <2>2, <2>5, <2>6, <2>7, <2>8 DEF ReviewDeskInv
<1> QED
  BY <1>1, <1>2

LEMMA ReviewDeskSteps ==
    ASSUME ReviewDeskInv, [ReviewDeskNext]_deskVars
    PROVE  ReviewDeskInv'
<1>1. CASE UNCHANGED deskVars
  BY <1>1 DEF deskVars, ReviewDeskInv, DeskShape, ReviewFine
<1>2. Verdicts = {"approve", "reject"}
  BY DEF Verdicts
<1> QED
  BY <1>1, <1>2, SlipsChange, PageOpened, PageTicked, PageSubmitted, PageReads, PageWrites,
     OwnerDecides, ZenonT(60) DEF ReviewDeskNext

(* However many operators and receipts there are (payment-review-service.ts,*)
(* attention-payments-queue.tsx), and whatever their pages still show: an   *)
(* operator decides about payments the page showed, each receipt is decided *)
(* once, and an approval stays, unless a receipt crossed a decision.        *)
THEOREM ReviewsAreAsShown == ReviewDeskSpec => []DecidedAsShown
<1>1. ReviewDeskInv => DecidedAsShown
  BY DEF ReviewDeskInv, DecidedAsShown, SlipsFine
<1> QED
  BY <1>1, ReviewDeskStarts, ReviewDeskSteps, PTL DEF ReviewDeskSpec

---------------------------------------------------------------------------
(***************************************************************************)
(* PromoCodes: amounts.                                                     *)
(***************************************************************************)
PrepayRule == [mode : {"UNSET", "NONE", "DEPOSIT", "FULL"}, fixed : Nat, percent : Nat]
SaleRows == [kind : {"PERCENT", "FIXED"}, value : Nat \ {0}, limit : Nat,
             isActive : BOOLEAN, count : Nat]

LEMMA SharesAreNat ==
    ASSUME NEW a \in Nat, NEW b \in Nat \ {0}
    PROVE  a \div b \in Nat /\ (a >= b => a \div b >= 1)
<1>1. PICK q, r : q = a \div b /\ r = a % b
  OBVIOUS
<1>2. q \in Int /\ r \in 0 .. b - 1 /\ a = b * q + r
  BY <1>1
<1>3. q >= 0
  <2>1. SUFFICES ASSUME q <= -1 PROVE FALSE
    BY <1>2
  <2>2. b * q <= - b
    BY <1>2, <2>1
  <2> QED
    BY <1>2, <2>2
<1>4. a >= b => q >= 1
  <2>1. SUFFICES ASSUME a >= b, q = 0 PROVE FALSE
    BY <1>2, <1>3
  <2>2. a = r
    BY <1>2, <2>1
  <2> QED
    BY <1>2, <2>1, <2>2
<1> QED
  BY <1>1, <1>2, <1>3, <1>4

LEMMA ProductsAreNat ==
    /\ \A a, b \in Nat : a * b \in Nat
    /\ \A a, b \in Nat \ {0} : a * b \in Nat \ {0}
<1>1. \A a, b \in Nat : a * b \in Nat
  OBVIOUS
<1>2. ASSUME NEW a \in Nat \ {0}, NEW b \in Nat \ {0} PROVE a * b \in Nat \ {0}
  <2>1. a * b \in Nat
    BY <1>1
  <2>2. a * b # 0
    OBVIOUS
  <2> QED
    BY <2>1, <2>2
<1> QED
  BY <1>1, <1>2

LEMMA DiscountWithin ==
    ASSUME NEW row \in SaleRows, NEW amount \in Nat
    PROVE  Discount(row, amount) \in 0 .. amount
<1>1. PICK v \in Nat : v = row.value
  BY DEF SaleRows
<1>2. 2 * amount * v \in Nat
  <2>1. 2 * amount \in Nat
    OBVIOUS
  <2> QED
    BY <2>1, ProductsAreNat
<1>3. PICK n \in Nat : n = 2 * amount * v + 100
  BY <1>2
<1>4. PICK off \in Nat : off = n \div 200
  BY SharesAreNat
<1>5. Discount(row, amount) = IF row.kind = "PERCENT" THEN Smaller(amount, off) ELSE Smaller(amount, v)
  BY <1>1, <1>3, <1>4 DEF Discount
<1> QED
  BY <1>1, <1>5 DEF Smaller

(* What a deposit in percent asks for, before it is cut to the price        *)
Rounded(total, percent) == ((total * percent + 100 * Somoni - 1) \div (100 * Somoni)) * Somoni

LEMMA RoundedUp ==
    ASSUME NEW total \in Nat, NEW percent \in Nat
    PROVE  /\ Rounded(total, percent) \in Nat
           /\ (total > 0 /\ percent > 0) => Rounded(total, percent) > 0
<1>1. PICK s \in Nat \ {0} : s = Somoni
  BY PromoCodesAssumption
<1>2. PICK hundred \in Nat \ {0} : hundred = 100 * s
  BY <1>1
<1>3. PICK part \in Nat : part = total * percent
  BY ProductsAreNat
<1>4. PICK n \in Nat : n = part + hundred - 1
  BY <1>2, <1>3
<1>5. PICK q \in Nat : q = n \div hundred /\ (n >= hundred => q >= 1)
  BY <1>2, <1>4, SharesAreNat
<1>6. Rounded(total, percent) = q * s
  BY <1>1, <1>2, <1>3, <1>4, <1>5 DEF Rounded
<1>7. q * s \in Nat
  BY <1>1, ProductsAreNat
<1>8. ASSUME total > 0, percent > 0 PROVE q * s > 0
  <2>1. part > 0
    BY <1>3, <1>8, ProductsAreNat
  <2>2. n >= hundred
    BY <1>2, <1>4, <2>1
  <2>3. q \in Nat \ {0}
    BY <1>5, <2>2
  <2>4. q * s \in Nat \ {0}
    BY <1>1, <2>3, ProductsAreNat
  <2> QED
    BY <2>4
<1> QED
  BY <1>6, <1>7, <1>8

(* No more is asked for than the visit costs; and who owes something for a  *)
(* discounted visit would owe something for the full price.                 *)
LEMMA DueWithin ==
    ASSUME NEW rules \in PrepayRules, NEW price \in Nat, NEW total \in Nat, total <= price
    PROVE  /\ Due(total, rules) \in 0 .. total
           /\ Due(total, rules) > 0 => Due(price, rules) > 0
<1>1. rules.own \in PrepayRule /\ rules.house \in PrepayRule
  BY PromoCodesAssumption DEF PrepayRule
<1>2. PICK rule \in PrepayRule : rule = IF rules.own.mode # "UNSET" THEN rules.own ELSE rules.house
  BY <1>1
<1>3. rule.fixed \in Nat /\ rule.percent \in Nat
  BY DEF PrepayRule
<1>4. ASSUME NEW t \in Nat
      PROVE  Due(t, rules) = IF t = 0 \/ rule.mode = "NONE" THEN 0
                             ELSE IF rule.mode = "FULL" THEN t
                             ELSE IF rule.fixed > 0 THEN Smaller(rule.fixed, t)
                             ELSE IF rule.percent > 0 THEN Smaller(t, Rounded(t, rule.percent))
                             ELSE t
  BY <1>2 DEF Due, Rounded
<1>5. ASSUME NEW t \in Nat
      PROVE  /\ (t = 0 \/ rule.mode = "NONE") => Due(t, rules) = 0
             /\ ~ (t = 0 \/ rule.mode = "NONE") => Due(t, rules) > 0 /\ Due(t, rules) <= t
             /\ Due(t, rules) \in Nat
  <2>1. Rounded(t, rule.percent) \in Nat
        /\ ((t > 0 /\ rule.percent > 0) => Rounded(t, rule.percent) > 0)
    BY <1>3, RoundedUp
  <2>2. PICK up \in Nat : up = Rounded(t, rule.percent) /\ ((t > 0 /\ rule.percent > 0) => up > 0)
    BY <2>1
  <2>3. PICK fixed \in Nat, percent \in Nat : fixed = rule.fixed /\ percent = rule.percent
    BY <1>3
  <2>4. CASE t = 0 \/ rule.mode = "NONE"
    BY <1>4, <2>4
  <2>5. CASE t # 0 /\ rule.mode = "FULL"
    <3>1. Due(t, rules) = t
      BY <1>4, <2>5
    <3> QED
      BY <2>5, <3>1
  <2>6. CASE t # 0 /\ rule.mode \notin {"NONE", "FULL"} /\ fixed > 0
    <3>1. Due(t, rules) = Smaller(fixed, t)
      BY <1>4, <2>3, <2>6
    <3> QED
      BY <2>6, <3>1 DEF Smaller
  <2>7. CASE t # 0 /\ rule.mode \notin {"NONE", "FULL"} /\ ~ (fixed > 0) /\ percent > 0
    <3>1. Due(t, rules) = Smaller(t, up)
      BY <1>4, <2>2, <2>3, <2>7
    <3> QED
      BY <2>2, <2>3, <2>7, <3>1 DEF Smaller
  <2>8. CASE t # 0 /\ rule.mode \notin {"NONE", "FULL"} /\ ~ (fixed > 0) /\ ~ (percent > 0)
    <3>1. Due(t, rules) = t
      BY <1>4, <2>3, <2>8
    <3> QED
      BY <2>8, <3>1
  <2> QED
    BY <2>4, <2>5, <2>6, <2>7, <2>8
<1> QED
  BY <1>5

---------------------------------------------------------------------------
(***************************************************************************)
(* PromoCodes: what always holds.                                           *)
(***************************************************************************)
(* The price promised is the price with this code, which an owner may       *)
(* switch off but whose discount never changes                              *)
PromisedBy(codes, w, m, price) ==
    /\ w \in Words /\ codes[w] # NoSale
    /\ price = PriceOf[m] - Discount(codes[w], PriceOf[m])

SameDiscounts(old, new) ==
    \A w \in Words : old[w] # NoSale =>
        new[w] # NoSale /\ new[w].kind = old[w].kind /\ new[w].value = old[w].value

Tallied(row, visits) ==
    /\ IsFiniteSet(visits)
    /\ row = NoSale => visits = {}
    /\ row # NoSale =>
         /\ row.count = Cardinality(visits)
         /\ row.limit # Unlimited => row.count <= row.limit

PromoFieldFine(codes, f) ==
    /\ f = [word |-> f.word, status |-> f.status, service |-> f.service, shown |-> f.shown,
            checks |-> f.checks, doubt |-> f.doubt]
    /\ f.service \in Menu /\ f.doubt \in BOOLEAN /\ f.word \in Words \cup {NoWord}
    /\ (f.shown # NoPrice /\ ~ f.doubt) =>
         (f.status = "valid" /\ PromisedBy(codes, f.word, f.service, f.shown))

(* What a visit made owes                                                   *)
BillFine(g) ==
    LET v == g.made IN
    /\ v.total + v.off = PriceOf[g.service] /\ v.due \in 0 .. v.total
    /\ v.status = "PENDING_PAYMENT" <=> v.due > 0
    /\ v.due > 0 => g.carded \/ g.series
    /\ g.promised # NoPrice => v.total = g.promised \/ g.doubt \/ g.series

OnItsWay(codes, g) ==
    /\ g.service \in Menu /\ g.made = NothingMade
    /\ g.word \in Words \cup {NoWord}
    /\ (g.promised # NoPrice /\ ~ g.doubt /\ ~ g.series) =>
         PromisedBy(codes, g.word, g.service, g.promised)

Steady(g) ==
    /\ g.rules \in PrepayRules
    /\ g.carded \/ g.series \/ ~ (Due(PriceOf[g.service], g.rules) > 0)

InItsSnapshot(g) ==
    g.word # NoWord =>
        /\ g.seen \in SaleRows
        /\ g.seen.limit # Unlimited => g.seen.count < g.seen.limit

GuestShape(g) ==
    g = [at |-> g.at, word |-> g.word, service |-> g.service, promised |-> g.promised,
         doubt |-> g.doubt, series |-> g.series, rules |-> g.rules, carded |-> g.carded,
         tries |-> g.tries, seen |-> g.seen, made |-> g.made]

GuestFine(codes, g) ==
    /\ GuestShape(g)
    /\ g.at \in {"idle", "refused"} => g.made = NothingMade
    /\ g.at \in {"posted", "reading", "open"} => OnItsWay(codes, g)
    /\ g.at \in {"reading", "open"} => Steady(g)
    /\ g.at = "open" => InItsSnapshot(g)
    /\ g.at = "done" => g.made # NothingMade /\ BillFine(g)
    /\ g.at \in {"idle", "posted", "reading", "open", "refused", "done"}

PromoInv ==
    /\ promoCode \in [Words -> {NoSale} \cup SaleRows]
    /\ guest = [c \in Guests |-> guest[c]]
    /\ \A w \in Words : Tallied(promoCode[w], MadeWith(w))
    /\ PromoFieldFine(promoCode, promoField)
    /\ \A c \in Guests : GuestFine(promoCode, guest[c])

LEMMA SalesAreSales ==
    /\ NoSale \notin SaleRows
    /\ NoWord \notin Words
    /\ FirstOnMenu \in Menu
    /\ \A m \in Menu : PriceOf[m] \in Nat
<1>1. NoSale.kind = "none" /\ \A row \in SaleRows : row.kind # "none"
  BY DEF NoSale, SaleRows
<1> QED
  BY <1>1, PromoCodesAssumption DEF FirstOnMenu, NoWord

LEMMA SamePromise ==
    ASSUME NEW old, NEW new, SameDiscounts(old, new),
           NEW w, NEW m, NEW price, PromisedBy(old, w, m, price)
    PROVE  PromisedBy(new, w, m, price)
<1>1. w \in Words /\ old[w] # NoSale /\ price = PriceOf[m] - Discount(old[w], PriceOf[m])
  BY DEF PromisedBy
<1>2. new[w] # NoSale /\ new[w].kind = old[w].kind /\ new[w].value = old[w].value
  BY <1>1 DEF SameDiscounts
<1>3. Discount(new[w], PriceOf[m]) = Discount(old[w], PriceOf[m])
  BY <1>2 DEF Discount
<1> QED
  BY <1>1, <1>2, <1>3 DEF PromisedBy

LEMMA StillFine ==
    ASSUME NEW old, NEW new, SameDiscounts(old, new)
    PROVE  /\ \A f : PromoFieldFine(old, f) => PromoFieldFine(new, f)
           /\ \A g : GuestFine(old, g) => GuestFine(new, g)
<1>1. \A w, m, price : PromisedBy(old, w, m, price) => PromisedBy(new, w, m, price)
  BY SamePromise
<1>2. \A f : PromoFieldFine(old, f) => PromoFieldFine(new, f)
  BY <1>1 DEF PromoFieldFine
<1>3. \A g : OnItsWay(old, g) => OnItsWay(new, g)
  BY <1>1 DEF OnItsWay
<1>4. \A g : GuestFine(old, g) => GuestFine(new, g)
  BY <1>3 DEF GuestFine
<1> QED
  BY <1>2, <1>4

(* The rows change, and nobody's visit                                      *)
LEMMA RowsChange ==
    ASSUME PromoInv, UNCHANGED <<promoField, guest>>, SameDiscounts(promoCode, promoCode'),
           promoCode' \in [Words -> {NoSale} \cup SaleRows],
           \A w \in Words : Tallied(promoCode'[w], MadeWith(w))
    PROVE  PromoInv'
<1>1. \A w \in Words : MadeWith(w)' = MadeWith(w)
  BY DEF MadeWith
<1>2. \A w \in Words : Tallied(promoCode'[w], MadeWith(w)')
  BY <1>1
<1>3. (\A w \in Words : Tallied(promoCode[w], MadeWith(w)))'
  BY <1>2
<1>4. PromoFieldFine(promoCode', promoField) /\ \A c \in Guests : GuestFine(promoCode', guest[c])
  BY StillFine DEF PromoInv
<1>5. PromoFieldFine(promoCode', promoField') /\ \A c \in Guests : GuestFine(promoCode', guest'[c])
  BY <1>4
<1>6. guest' = [c \in Guests |-> guest'[c]]
  BY DEF PromoInv
<1>7. PromoFieldFine(promoCode, promoField)' /\ (\A c \in Guests : GuestFine(promoCode, guest[c]))'
  BY <1>5
<1> QED
  BY <1>3, <1>6, <1>7 DEF PromoInv

(* The field changes, or a request that has made no visit                   *)
LEMMA RequestChanges ==
    ASSUME PromoInv, UNCHANGED promoCode, PromoFieldFine(promoCode, promoField'),
           NEW c \in Guests, NEW g, guest' = [guest EXCEPT ![c] = g],
           GuestFine(promoCode, g), g.made = NothingMade, guest[c].made = NothingMade
    PROVE  PromoInv'
<1>1. guest' = [d \in Guests |-> IF d = c THEN g ELSE guest[d]]
  BY DEF PromoInv
<1>2. \A w \in Words : MadeWith(w)' = MadeWith(w)
  BY <1>1 DEF MadeWith
<1>3. \A w \in Words : Tallied(promoCode[w], MadeWith(w))
  BY DEF PromoInv
<1>4. \A w \in Words : Tallied(promoCode'[w], MadeWith(w)')
  BY <1>2, <1>3
<1>5. (\A w \in Words : Tallied(promoCode[w], MadeWith(w)))'
  BY <1>4
<1>6. guest' = [d \in Guests |-> guest'[d]]
  BY <1>1
<1>7. \A d \in Guests : GuestFine(promoCode, guest[d])
  BY DEF PromoInv
<1>8. \A d \in Guests : GuestFine(promoCode', guest'[d])
  BY <1>1, <1>7
<1>9. PromoFieldFine(promoCode, promoField)' /\ (\A d \in Guests : GuestFine(promoCode, guest[d]))'
  BY <1>8
<1>10. (promoCode \in [Words -> {NoSale} \cup SaleRows])'
  BY DEF PromoInv
<1> QED
  BY <1>5, <1>6, <1>9, <1>10 DEF PromoInv

LEMMA FieldChanges ==
    ASSUME PromoInv, UNCHANGED <<promoCode, tenant, guest>>, PromoFieldFine(promoCode, promoField')
    PROVE  PromoInv'
<1>1. \A w \in Words : MadeWith(w)' = MadeWith(w)
  BY DEF MadeWith
<1>2. (\A w \in Words : Tallied(promoCode[w], MadeWith(w)))'
  BY <1>1 DEF PromoInv
<1>3. PromoFieldFine(promoCode, promoField)'
  OBVIOUS
<1>4. (\A d \in Guests : GuestFine(promoCode, guest[d]))'
  BY DEF PromoInv
<1>5. (promoCode \in [Words -> {NoSale} \cup SaleRows] /\ guest = [d \in Guests |-> guest[d]])'
  BY DEF PromoInv
<1> QED
  BY <1>2, <1>3, <1>4, <1>5 DEF PromoInv

---------------------------------------------------------------------------
(***************************************************************************)
(* PromoCodes: the steps.                                                   *)
(***************************************************************************)
LEMMA PromoStarts == PromoCodesInit => PromoInv
<1> SUFFICES ASSUME PromoCodesInit PROVE PromoInv
  OBVIOUS
<1>1. promoCode = [w \in Words |-> NoSale] /\ promoField = FreshField
      /\ guest = [c \in Guests |-> NotAsked]
  BY DEF PromoCodesInit
<1>2. \A w \in Words : MadeWith(w) = {}
  BY <1>1 DEF MadeWith, NotAsked
<1>3. \A w \in Words : Tallied(promoCode[w], MadeWith(w))
  BY <1>1, <1>2, FS_EmptySet DEF Tallied
<1>4. PromoFieldFine(promoCode, promoField)
  BY <1>1, SalesAreSales DEF FreshField, PromoFieldFine
<1>5. \A c \in Guests : GuestFine(promoCode, guest[c])
  BY <1>1 DEF NotAsked, GuestFine, GuestShape
<1>6. promoCode \in [Words -> {NoSale} \cup SaleRows] /\ guest = [c \in Guests |-> guest[c]]
  BY <1>1
<1> QED
  BY <1>3, <1>4, <1>5, <1>6 DEF PromoInv

LEMMA NewCodeKeeps ==
    ASSUME PromoInv, NEW w \in Words, NEW sale \in Sales, CreatePromoCode(w, sale)
    PROVE  PromoInv'
<1>1. PICK row : row = [kind |-> sale.kind, value |-> sale.value, limit |-> sale.limit,
                        isActive |-> TRUE, count |-> 0]
  OBVIOUS
<1>2. sale \in [kind : {"PERCENT", "FIXED"}, value : Nat \ {0}, limit : Nat]
  BY PromoCodesAssumption
<1>3. row \in SaleRows /\ row.count = 0 /\ row # NoSale
  <2>1. sale.kind \in {"PERCENT", "FIXED"} /\ sale.value \in Nat \ {0} /\ sale.limit \in Nat
    BY <1>2
  <2>2. row \in SaleRows /\ row.count = 0
    BY <1>1, <2>1 DEF SaleRows
  <2> QED
    BY <2>2, SalesAreSales
<1>4. promoCode[w] = NoSale /\ promoCode' = [promoCode EXCEPT ![w] = row]
      /\ UNCHANGED <<promoField, guest>>
  BY <1>1 DEF CreatePromoCode, OwnerStep
<1>5. promoCode \in [Words -> {NoSale} \cup SaleRows]
  BY DEF PromoInv
<1>6. SameDiscounts(promoCode, promoCode')
  BY <1>4, <1>5 DEF SameDiscounts
<1>7. \A v \in Words : Tallied(promoCode[v], MadeWith(v))
  BY DEF PromoInv
<1>8. MadeWith(w) = {}
  BY <1>4, <1>7 DEF Tallied
<1>9. row.limit \in Nat
  BY <1>3 DEF SaleRows
<1>10. Tallied(row, MadeWith(w))
  BY <1>3, <1>8, <1>9, FS_EmptySet DEF Tallied
<1>11. \A v \in Words : Tallied(promoCode'[v], MadeWith(v))
  BY <1>4, <1>5, <1>7, <1>10
<1>12. promoCode' \in [Words -> {NoSale} \cup SaleRows]
  BY <1>3, <1>4, <1>5
<1> QED
  BY <1>4, <1>6, <1>11, <1>12, RowsChange

LEMMA DeactivateKeeps ==
    ASSUME PromoInv, NEW w \in Words, DeactivatePromoCode(w)
    PROVE  PromoInv'
<1>1. promoCode \in [Words -> {NoSale} \cup SaleRows]
  BY DEF PromoInv
<1>2. promoCode[w] \in SaleRows
  BY <1>1 DEF DeactivatePromoCode
<1>3. PICK row : row = [promoCode[w] EXCEPT !.isActive = FALSE]
  OBVIOUS
<1>4. row \in SaleRows /\ row.kind = promoCode[w].kind /\ row.value = promoCode[w].value
      /\ row.limit = promoCode[w].limit /\ row.count = promoCode[w].count
  BY <1>2, <1>3 DEF SaleRows
<1>5. promoCode' = [promoCode EXCEPT ![w] = row] /\ UNCHANGED <<promoField, guest>>
  BY <1>3 DEF DeactivatePromoCode, OwnerStep
<1>6. row # NoSale /\ promoCode[w] # NoSale
  BY <1>2, <1>4, SalesAreSales
<1>7. SameDiscounts(promoCode, promoCode')
  BY <1>1, <1>4, <1>5, <1>6 DEF SameDiscounts
<1>8. \A v \in Words : Tallied(promoCode[v], MadeWith(v))
  BY DEF PromoInv
<1>9. Tallied(row, MadeWith(w))
  BY <1>4, <1>6, <1>8 DEF Tallied
<1>10. \A v \in Words : Tallied(promoCode'[v], MadeWith(v))
  BY <1>1, <1>5, <1>8, <1>9
<1>11. promoCode' \in [Words -> {NoSale} \cup SaleRows]
  BY <1>1, <1>4, <1>5
<1> QED
  BY <1>5, <1>7, <1>10, <1>11, RowsChange

LEMMA OwnerKeeps ==
    ASSUME PromoInv, UNCHANGED <<promoCode, promoField, guest>>
    PROVE  PromoInv'
<1>1. \A v \in Words : Tallied(promoCode'[v], MadeWith(v))
  BY DEF PromoInv
<1>2. promoCode' \in [Words -> {NoSale} \cup SaleRows]
  BY DEF PromoInv
<1>3. SameDiscounts(promoCode, promoCode')
  BY DEF SameDiscounts
<1> QED
  BY <1>1, <1>2, <1>3, RowsChange

LEMMA TypingKeeps ==
    ASSUME PromoInv,
           \/ \E w \in Words : OnPromoCodeChange(w)
           \/ ApplyPromoCode
           \/ \E m \in Menu : ChangeService(m)
           \/ \E q \in [word : Words, service : Menu] : CheckFails(q)
    PROVE  PromoInv'
<1> DEFINE f == promoField
<1>1. f = [word |-> f.word, status |-> f.status, service |-> f.service, shown |-> f.shown,
           checks |-> f.checks, doubt |-> f.doubt]
      /\ f.service \in Menu /\ f.doubt \in BOOLEAN /\ f.word \in Words \cup {NoWord}
  BY DEF PromoInv, PromoFieldFine
<1>2. ASSUME NEW w \in Words, OnPromoCodeChange(w) PROVE PromoInv'
  <2>1. promoField' = [word |-> w, status |-> "idle", service |-> f.service, shown |-> NoPrice,
                       checks |-> f.checks, doubt |-> FALSE]
    BY <1>1, <1>2 DEF OnPromoCodeChange
  <2>2. PromoFieldFine(promoCode, promoField')
    BY <1>1, <2>1 DEF PromoFieldFine
  <2> QED
    BY <1>2, <2>2, FieldChanges DEF OnPromoCodeChange, OnlyField
<1>3. ASSUME ApplyPromoCode PROVE PromoInv'
  <2>1. PICK checks : promoField' = [word |-> f.word, status |-> "checking", service |-> f.service,
                                     shown |-> NoPrice, checks |-> checks, doubt |-> FALSE]
    <3>1. PICK checks : checks = f.checks \cup {[word |-> f.word, service |-> f.service]}
      OBVIOUS
    <3>2. promoField' = [f EXCEPT !.status = "checking", !.shown = NoPrice, !.doubt = FALSE,
                                  !.checks = checks]
      BY <1>3, <3>1 DEF ApplyPromoCode
    <3> QED
      BY <1>1, <3>2
  <2>2. PromoFieldFine(promoCode, promoField')
    BY <1>1, <2>1 DEF PromoFieldFine
  <2> QED
    BY <1>3, <2>2, FieldChanges DEF ApplyPromoCode, OnlyField
<1>4. ASSUME NEW m \in Menu, ChangeService(m) PROVE PromoInv'
  <2>1. PICK doubt \in BOOLEAN : doubt <=> (f.doubt \/ f.shown # NoPrice)
    OBVIOUS
  <2>2. promoField' = [word |-> f.word, status |-> f.status, service |-> m, shown |-> f.shown,
                       checks |-> f.checks, doubt |-> f.doubt \/ f.shown # NoPrice]
    BY <1>1, <1>4 DEF ChangeService
  <2>3. (f.doubt \/ f.shown # NoPrice) = doubt
    BY <1>1, <2>1
  <2>4. promoField' = [word |-> f.word, status |-> f.status, service |-> m, shown |-> f.shown,
                       checks |-> f.checks, doubt |-> doubt]
    BY <2>2, <2>3
  <2>5. PromoFieldFine(promoCode, promoField')
    BY <1>1, <2>1, <2>4 DEF PromoFieldFine
  <2> QED
    BY <1>4, <2>5, FieldChanges DEF ChangeService, OnlyField
<1>5. ASSUME NEW q \in [word : Words, service : Menu], CheckFails(q) PROVE PromoInv'
  <2>1. PICK checks : checks = f.checks \ {q}
    OBVIOUS
  <2>2. promoField' = [f EXCEPT !.checks = checks, !.status = "invalid", !.shown = NoPrice,
                                !.doubt = FALSE]
    BY <1>5, <2>1 DEF CheckFails
  <2>3. promoField' = [word |-> f.word, status |-> "invalid", service |-> f.service,
                       shown |-> NoPrice, checks |-> checks, doubt |-> FALSE]
    BY <1>1, <2>2
  <2>4. PromoFieldFine(promoCode, promoField')
    BY <1>1, <2>3 DEF PromoFieldFine
  <2> QED
    BY <1>5, <2>4, FieldChanges DEF CheckFails, OnlyField
<1> QED
  BY <1>2, <1>3, <1>4, <1>5

(* An answer is in doubt unless it is about what the field says             *)
LEMMA AnswerKeeps ==
    ASSUME PromoInv, NEW q \in [word : Words, service : Menu], CheckAnswered(q)
    PROVE  PromoInv'
<1> DEFINE f == promoField
<1>1. f = [word |-> f.word, status |-> f.status, service |-> f.service, shown |-> f.shown,
           checks |-> f.checks, doubt |-> f.doubt]
      /\ f.service \in Menu /\ f.word \in Words \cup {NoWord}
  BY DEF PromoInv, PromoFieldFine
<1>2. PICK checks : checks = f.checks \ {q}
  OBVIOUS
<1>3. PICK status : status = IF Redeemable(q.word) THEN "valid" ELSE "invalid"
  OBVIOUS
<1>4. PICK shown : shown = IF Redeemable(q.word)
                           THEN PriceOf[q.service] - Discount(promoCode[q.word], PriceOf[q.service])
                           ELSE NoPrice
  OBVIOUS
<1>5. PICK doubt \in BOOLEAN : doubt = (q # [word |-> f.word, service |-> f.service])
  OBVIOUS
<1>6. promoField' = [f EXCEPT !.checks = checks, !.status = status, !.shown = shown, !.doubt = doubt]
  BY <1>2, <1>3, <1>4, <1>5 DEF CheckAnswered
<1>7. promoField' = [word |-> f.word, status |-> status, service |-> f.service, shown |-> shown,
                     checks |-> checks, doubt |-> doubt]
  BY <1>1, <1>6
<1>8. ASSUME shown # NoPrice, ~ doubt
      PROVE  status = "valid" /\ PromisedBy(promoCode, f.word, f.service, shown)
  <2>1. Redeemable(q.word)
    BY <1>4, <1>8
  <2>2. promoCode[q.word] # NoSale /\ q.word \in Words
    BY <2>1 DEF Redeemable
  <2>3. q = [word |-> f.word, service |-> f.service]
    BY <1>5, <1>8
  <2>4. q.word = f.word /\ q.service = f.service
    BY <2>3
  <2> QED
    BY <1>3, <1>4, <2>1, <2>2, <2>4 DEF PromisedBy
<1>9. PromoFieldFine(promoCode, promoField')
  BY <1>1, <1>5, <1>7, <1>8 DEF PromoFieldFine
<1> QED
  BY <1>9, FieldChanges DEF CheckAnswered, OnlyField

LEMMA SubmitKeeps ==
    ASSUME PromoInv, NEW series \in BOOLEAN, SubmitForm(series)
    PROVE  PromoInv'
<1> DEFINE f == promoField
<1>1. OnForm \in Guests
  BY PromoCodesAssumption
<1>2. PICK word : word = IF f.status = "valid" /\ ~ series THEN f.word ELSE NoWord
  OBVIOUS
<1>3. PICK g : g = [NotAsked EXCEPT !.at = "posted", !.word = word, !.service = f.service,
                        !.promised = f.shown, !.doubt = f.doubt, !.series = series]
  OBVIOUS
<1>4. guest' = [guest EXCEPT ![OnForm] = g]
  BY <1>2, <1>3 DEF SubmitForm
<1>13. g = [at |-> "posted", word |-> word, service |-> f.service, promised |-> f.shown,
            doubt |-> f.doubt, series |-> series, rules |-> NoRules, carded |-> FALSE,
            tries |-> 0, seen |-> NoSale, made |-> NothingMade]
  <2>1. GuestShape(NotAsked) /\ NotAsked.rules = NoRules /\ NotAsked.carded = FALSE
        /\ NotAsked.tries = 0 /\ NotAsked.seen = NoSale /\ NotAsked.made = NothingMade
    BY DEF GuestShape, NotAsked
  <2>2. PICK service, shown, doubt, at, blank :
           service = f.service /\ shown = f.shown /\ doubt = f.doubt
           /\ at = "posted" /\ blank = NotAsked
    OBVIOUS
  <2>3. g = [blank EXCEPT !.at = at, !.word = word, !.service = service,
                 !.promised = shown, !.doubt = doubt, !.series = series]
    BY <1>3, <2>2
  <2>4. g = [at |-> at, word |-> word, service |-> service, promised |-> shown,
             doubt |-> doubt, series |-> series, rules |-> blank.rules, carded |-> blank.carded,
             tries |-> blank.tries, seen |-> blank.seen, made |-> blank.made]
    <3>1. GuestShape(blank)
      BY <2>1, <2>2
    <3> HIDE DEF f
    <3> QED
      BY <2>3, <3>1 DEF GuestShape
  <2> QED
    BY <2>1, <2>2, <2>4
<1>5. guest[OnForm].at = "idle" /\ UNCHANGED <<promoCode, tenant, promoField>>
  BY DEF SubmitForm, AtField
<1>6. guest[OnForm].made = NothingMade
  BY <1>1, <1>5 DEF PromoInv, GuestFine
<1>7. PromoFieldFine(promoCode, f)
  BY DEF PromoInv
<1> HIDE DEF f
<1>8. GuestShape(g)
  BY <1>13 DEF GuestShape
<1>9. OnItsWay(promoCode, g)
  <2>1. ASSUME f.shown # NoPrice, ~ f.doubt, ~ series
        PROVE  word = f.word /\ PromisedBy(promoCode, word, f.service, f.shown)
    BY <1>2, <1>7, <2>1 DEF PromoFieldFine
  <2>2. word \in Words \cup {NoWord}
    BY <1>2, <1>7 DEF PromoFieldFine
  <2> QED
    BY <1>13, <1>7, <2>1, <2>2 DEF OnItsWay, PromoFieldFine
<1>11. GuestFine(promoCode, g)
  BY <1>13, <1>8, <1>9 DEF GuestFine
<1>12. PromoFieldFine(promoCode, promoField')
  BY <1>5, <1>7 DEF f
<1>14. g.made = NothingMade
  BY <1>13
<1> QED
  BY <1>1, <1>4, <1>5, <1>6, <1>11, <1>12, <1>14, RequestChanges

---------------------------------------------------------------------------
(***************************************************************************)
(* PromoCodes: the requests on the server.                                  *)
(***************************************************************************)
LEMMA OpenRequest ==
    ASSUME PromoInv, NEW c \in Guests
    PROVE  /\ GuestFine(promoCode, guest[c]) /\ GuestShape(guest[c])
           /\ PromoFieldFine(promoCode, promoField)
           /\ guest[c].at # "done" => guest[c].made = NothingMade
BY DEF PromoInv, GuestFine, OnItsWay

LEMMA PostKeeps ==
    ASSUME PromoInv, NEW c \in Guests, NEW w \in Words, PostDirectly(c, w)
    PROVE  PromoInv'
<1>1. PICK rules \in PrepayRules : rules = CHOOSE r \in PrepayRules : TRUE
  BY PromoCodesAssumption
<1>2. PICK g : g = [NotAsked EXCEPT !.at = "reading", !.word = w, !.service = FirstOnMenu,
                        !.carded = TRUE, !.rules = rules]
  OBVIOUS
<1>3. guest' = [guest EXCEPT ![c] = g] /\ guest[c].at = "idle"
      /\ UNCHANGED <<promoCode, tenant, promoField>>
  BY <1>1, <1>2 DEF PostDirectly
<1>4. g = [at |-> "reading", word |-> w, service |-> FirstOnMenu, promised |-> NoPrice,
           doubt |-> FALSE, series |-> FALSE, rules |-> rules, carded |-> TRUE,
           tries |-> 0, seen |-> NoSale, made |-> NothingMade]
  <2>1. GuestShape(NotAsked) /\ NotAsked.promised = NoPrice /\ NotAsked.doubt = FALSE
        /\ NotAsked.series = FALSE /\ NotAsked.tries = 0 /\ NotAsked.seen = NoSale
        /\ NotAsked.made = NothingMade
    BY DEF GuestShape, NotAsked
  <2>2. PICK at, service, carded, blank :
           at = "reading" /\ service = FirstOnMenu /\ carded = TRUE /\ blank = NotAsked
    OBVIOUS
  <2>3. g = [blank EXCEPT !.at = at, !.word = w, !.service = service, !.carded = carded,
                 !.rules = rules]
    BY <1>2, <2>2
  <2>4. g = [at |-> at, word |-> w, service |-> service, promised |-> blank.promised,
             doubt |-> blank.doubt, series |-> blank.series, rules |-> rules,
             carded |-> carded, tries |-> blank.tries, seen |-> blank.seen,
             made |-> blank.made]
    <3>1. GuestShape(blank)
      BY <2>1, <2>2
    <3> QED
      BY <2>3, <3>1 DEF GuestShape
  <2> QED
    BY <2>1, <2>2, <2>4
<1>5. GuestShape(g)
  BY <1>4 DEF GuestShape
<1>6. OnItsWay(promoCode, g)
  BY <1>4, SalesAreSales DEF OnItsWay
<1>7. Steady(g)
  BY <1>1, <1>4 DEF Steady
<1>8. GuestFine(promoCode, g) /\ g.made = NothingMade
  BY <1>4, <1>5, <1>6, <1>7 DEF GuestFine
<1>9. PromoFieldFine(promoCode, promoField') /\ guest[c].made = NothingMade
  BY <1>3, OpenRequest
<1> QED
  BY <1>3, <1>8, <1>9, RequestChanges

(* What a request becomes while nothing is promised anew                    *)
LEMMA ReadKeeps ==
    ASSUME PromoInv, NEW c \in Guests, NEW rules \in PrepayRules, NEW carded \in BOOLEAN,
           ReadSettings(c, rules, carded)
    PROVE  PromoInv'
<1>1. PICK old : old = guest[c]
  OBVIOUS
<1>2. GuestFine(promoCode, old) /\ GuestShape(old) /\ old.at = "posted" /\ old.made = NothingMade
      /\ PromoFieldFine(promoCode, promoField') /\ UNCHANGED promoCode
      /\ PromoFieldFine(promoCode, promoField)
  BY <1>1, OpenRequest DEF ReadSettings, OnlyGuest
<1>3. OnItsWay(promoCode, old)
  BY <1>2 DEF GuestFine
<1>4. CASE ~ old.series /\ Due(PriceOf[old.service], rules) > 0 /\ ~ carded
  <2>1. PICK at : at = "refused"
    OBVIOUS
  <2>2. PICK g : g = [old EXCEPT !.at = at]
    OBVIOUS
  <2>3. guest' = [guest EXCEPT ![c] = g]
    BY <1>1, <1>4, <2>1, <2>2 DEF ReadSettings, GuestBecomes, Price
  <2>4. g = [at |-> at, word |-> old.word, service |-> old.service, promised |-> old.promised,
             doubt |-> old.doubt, series |-> old.series, rules |-> old.rules,
             carded |-> old.carded, tries |-> old.tries, seen |-> old.seen, made |-> old.made]
    BY <1>2, <2>2 DEF GuestShape
  <2>5. GuestFine(promoCode, g) /\ g.made = NothingMade
    BY <1>2, <2>1, <2>4 DEF GuestFine, GuestShape
  <2> QED
    BY <1>1, <1>2, <2>3, <2>5, RequestChanges
<1>5. CASE ~ (~ old.series /\ Due(PriceOf[old.service], rules) > 0 /\ ~ carded)
  <2>1. PICK at : at = "reading"
    OBVIOUS
  <2>2. PICK g : g = [old EXCEPT !.at = at, !.rules = rules, !.carded = carded]
    OBVIOUS
  <2>3. guest' = [guest EXCEPT ![c] = g]
    BY <1>1, <1>5, <2>1, <2>2 DEF ReadSettings, GuestBecomes, Price
  <2>4. g = [at |-> at, word |-> old.word, service |-> old.service, promised |-> old.promised,
             doubt |-> old.doubt, series |-> old.series, rules |-> rules,
             carded |-> carded, tries |-> old.tries, seen |-> old.seen, made |-> old.made]
    BY <1>2, <2>2 DEF GuestShape
  <2>5. OnItsWay(promoCode, g)
    BY <1>3, <2>4 DEF OnItsWay
  <2>6. Steady(g)
    BY <1>5, <2>4 DEF Steady
  <2>7. GuestShape(g) /\ g.made = NothingMade /\ g.at = "reading"
    BY <1>2, <2>1, <2>4 DEF GuestShape
  <2>8. GuestFine(promoCode, g)
    BY <2>5, <2>6, <2>7 DEF GuestFine
  <2> QED
    BY <1>1, <1>2, <2>3, <2>7, <2>8, RequestChanges
<1> QED
  BY <1>4, <1>5

(* A request that stands where it stood, in another state                   *)
LEMMA GoesOn ==
    ASSUME NEW codes, NEW old, GuestFine(codes, old), old.at \in {"reading", "open"},
           NEW at, NEW tries, NEW seen, NEW g,
           g = [at |-> at, word |-> old.word, service |-> old.service, promised |-> old.promised,
                doubt |-> old.doubt, series |-> old.series, rules |-> old.rules,
                carded |-> old.carded, tries |-> tries, seen |-> seen, made |-> old.made],
           at \in {"reading", "refused", "open"},
           at = "open" /\ old.word # NoWord =>
              seen \in SaleRows /\ (seen.limit # Unlimited => seen.count < seen.limit)
    PROVE  GuestFine(codes, g) /\ g.made = NothingMade
<1>1. OnItsWay(codes, old) /\ Steady(old)
  BY DEF GuestFine
<1>2. OnItsWay(codes, g)
  BY <1>1 DEF OnItsWay
<1>3. Steady(g)
  BY <1>1 DEF Steady
<1>4. GuestShape(g)
  BY DEF GuestShape
<1>5. g.at = "open" => InItsSnapshot(g)
  BY DEF InItsSnapshot
<1>6. g.made = NothingMade
  BY <1>1 DEF OnItsWay
<1> QED
  BY <1>2, <1>3, <1>4, <1>5, <1>6 DEF GuestFine

LEMMA OpenKeeps ==
    ASSUME PromoInv, NEW c \in Guests, OpenTransaction(c)
    PROVE  PromoInv'
<1>1. PICK old : old = guest[c]
  OBVIOUS
<1>2. GuestFine(promoCode, old) /\ GuestShape(old) /\ old.at = "reading" /\ old.made = NothingMade
      /\ PromoFieldFine(promoCode, promoField') /\ UNCHANGED promoCode
      /\ PromoFieldFine(promoCode, promoField)
  BY <1>1, OpenRequest DEF OpenTransaction, OnlyGuest
<1>3. CASE GuestBecomes(c, [guest[c] EXCEPT !.at = "refused"])
  <2>1. PICK at : at = "refused"
    OBVIOUS
  <2>2. PICK g : g = [old EXCEPT !.at = at]
    OBVIOUS
  <2>3. guest' = [guest EXCEPT ![c] = g]
    BY <1>1, <1>3, <2>1, <2>2 DEF GuestBecomes
  <2>4. g = [at |-> at, word |-> old.word, service |-> old.service, promised |-> old.promised,
             doubt |-> old.doubt, series |-> old.series, rules |-> old.rules,
             carded |-> old.carded, tries |-> old.tries, seen |-> old.seen, made |-> old.made]
    BY <1>2, <2>2 DEF GuestShape
  <2>5. GuestFine(promoCode, g) /\ g.made = NothingMade
    <3>1. at \in {"reading", "refused", "open"} /\ at # "open" /\ old.at \in {"reading", "open"}
      BY <1>2, <2>1
    <3> QED
      BY <1>2, <2>4, <3>1, GoesOn
  <2> QED
    BY <1>1, <1>2, <2>3, <2>5, RequestChanges
<1>4. CASE /\ guest[c].word # NoWord => Redeemable(guest[c].word)
           /\ GuestBecomes(c, [guest[c] EXCEPT !.at = "open",
                 !.seen = IF guest[c].word = NoWord THEN @ ELSE promoCode[guest[c].word]])
  <2>1. PICK at : at = "open"
    OBVIOUS
  <2>2. PICK seen : seen = IF old.word = NoWord THEN old.seen ELSE promoCode[old.word]
    OBVIOUS
  <2>3. PICK g : g = [old EXCEPT !.at = at, !.seen = seen]
    OBVIOUS
  <2>4. guest' = [guest EXCEPT ![c] = g]
    <3>1. PICK new : new = [guest[c] EXCEPT !.at = "open",
                 !.seen = IF guest[c].word = NoWord THEN @ ELSE promoCode[guest[c].word]]
      OBVIOUS
    <3>2. new = [old EXCEPT !.at = at,
                 !.seen = IF old.word = NoWord THEN old.seen ELSE promoCode[old.word]]
      BY <1>1, <2>1, <3>1
    <3>3. new = g
      BY <2>2, <2>3, <3>2
    <3> QED
      BY <1>4, <3>1, <3>3 DEF GuestBecomes
  <2>5. g = [at |-> at, word |-> old.word, service |-> old.service, promised |-> old.promised,
             doubt |-> old.doubt, series |-> old.series, rules |-> old.rules,
             carded |-> old.carded, tries |-> old.tries, seen |-> seen, made |-> old.made]
    BY <1>2, <2>3 DEF GuestShape
  <2>6. ASSUME old.word # NoWord
        PROVE  seen \in SaleRows /\ (seen.limit # Unlimited => seen.count < seen.limit)
    <3>1. Redeemable(old.word) /\ seen = promoCode[old.word]
      BY <1>1, <1>4, <2>2, <2>6
    <3>2. old.word \in Words
      BY <1>2, <2>6 DEF GuestFine, OnItsWay
    <3>3. promoCode[old.word] # NoSale /\ promoCode \in [Words -> {NoSale} \cup SaleRows]
      BY <3>1 DEF Redeemable, PromoInv
    <3> QED
      BY <3>1, <3>2, <3>3 DEF Redeemable
  <2>7. GuestFine(promoCode, g) /\ g.made = NothingMade
    <3>1. at \in {"reading", "refused", "open"} /\ old.at \in {"reading", "open"}
      BY <1>2, <2>1
    <3> QED
      BY <1>2, <2>5, <2>6, <3>1, GoesOn
  <2> QED
    BY <1>1, <1>2, <2>4, <2>7, RequestChanges
<1> QED
  BY <1>3, <1>4 DEF OpenTransaction

LEMMA RunOutKeeps ==
    ASSUME PromoInv, NEW c \in Guests, RanOutMeanwhile(c)
    PROVE  PromoInv'
<1>1. PICK old, at, seen : old = guest[c] /\ at = "refused" /\ seen = NoSale
  OBVIOUS
<1>2. GuestFine(promoCode, old) /\ GuestShape(old) /\ old.at = "open" /\ old.made = NothingMade
      /\ PromoFieldFine(promoCode, promoField') /\ UNCHANGED promoCode
  BY <1>1, OpenRequest DEF RanOutMeanwhile, OnlyGuest
<1>3. PICK g : g = [old EXCEPT !.at = at, !.seen = seen]
  OBVIOUS
<1>4. guest' = [guest EXCEPT ![c] = g]
  BY <1>1, <1>3 DEF RanOutMeanwhile, GuestBecomes
<1>5. g = [at |-> at, word |-> old.word, service |-> old.service, promised |-> old.promised,
           doubt |-> old.doubt, series |-> old.series, rules |-> old.rules,
           carded |-> old.carded, tries |-> old.tries, seen |-> seen, made |-> old.made]
  BY <1>2, <1>3 DEF GuestShape
<1>6. GuestFine(promoCode, g) /\ g.made = NothingMade
  <2>1. at \in {"reading", "refused", "open"} /\ at # "open" /\ old.at \in {"reading", "open"}
    BY <1>1, <1>2
  <2> QED
    BY <1>2, <1>5, <2>1, GoesOn
<1> QED
  BY <1>1, <1>2, <1>4, <1>6, RequestChanges

LEMMA FailureKeeps ==
    ASSUME PromoInv, NEW c \in Guests, SerializationFailure(c)
    PROVE  PromoInv'
<1>1. PICK old, seen : old = guest[c] /\ seen = NoSale
  OBVIOUS
<1>2. GuestFine(promoCode, old) /\ GuestShape(old) /\ old.at = "open" /\ old.made = NothingMade
      /\ PromoFieldFine(promoCode, promoField') /\ UNCHANGED promoCode
  BY <1>1, OpenRequest DEF SerializationFailure, OnlyGuest
<1>3. CASE old.tries + 1 < Retries
  <2>1. PICK at, tries : at = "reading" /\ tries = old.tries + 1
    OBVIOUS
  <2>2. PICK g : g = [old EXCEPT !.at = at, !.tries = tries, !.seen = seen]
    OBVIOUS
  <2>3. guest' = [guest EXCEPT ![c] = g]
    <3>1. PICK new : new = [guest[c] EXCEPT !.at = "reading", !.tries = @ + 1, !.seen = NoSale]
      OBVIOUS
    <3>2. new = [old EXCEPT !.at = at, !.tries = old.tries + 1, !.seen = seen]
      BY <1>1, <2>1, <3>1
    <3>3. new = g
      BY <2>1, <2>2, <3>2
    <3> QED
      BY <1>1, <1>3, <3>1, <3>3 DEF SerializationFailure, GuestBecomes
  <2>4. g = [at |-> at, word |-> old.word, service |-> old.service, promised |-> old.promised,
             doubt |-> old.doubt, series |-> old.series, rules |-> old.rules,
             carded |-> old.carded, tries |-> tries, seen |-> seen, made |-> old.made]
    BY <1>2, <2>2 DEF GuestShape
  <2>5. GuestFine(promoCode, g) /\ g.made = NothingMade
    <3>1. at \in {"reading", "refused", "open"} /\ at # "open" /\ old.at \in {"reading", "open"}
      BY <1>2, <2>1
    <3> QED
      BY <1>2, <2>4, <3>1, GoesOn
  <2> QED
    BY <1>1, <1>2, <2>3, <2>5, RequestChanges
<1>4. CASE ~ (old.tries + 1 < Retries)
  <2>1. PICK at : at = "refused"
    OBVIOUS
  <2>2. PICK g : g = [old EXCEPT !.at = at, !.seen = seen]
    OBVIOUS
  <2>3. guest' = [guest EXCEPT ![c] = g]
    BY <1>1, <1>4, <2>1, <2>2 DEF SerializationFailure, GuestBecomes
  <2>4. g = [at |-> at, word |-> old.word, service |-> old.service, promised |-> old.promised,
             doubt |-> old.doubt, series |-> old.series, rules |-> old.rules,
             carded |-> old.carded, tries |-> old.tries, seen |-> seen, made |-> old.made]
    BY <1>2, <2>2 DEF GuestShape
  <2>5. GuestFine(promoCode, g) /\ g.made = NothingMade
    <3>1. at \in {"reading", "refused", "open"} /\ at # "open" /\ old.at \in {"reading", "open"}
      BY <1>2, <2>1
    <3> QED
      BY <1>2, <2>4, <3>1, GoesOn
  <2> QED
    BY <1>1, <1>2, <2>3, <2>5, RequestChanges
<1> QED
  BY <1>3, <1>4

LEMMA RefusalKeeps ==
    ASSUME PromoInv, NEW c \in Guests, Refuse(c)
    PROVE  PromoInv'
<1> DEFINE f == promoField
<1>1. guest' = [guest EXCEPT ![c] = NotAsked] /\ UNCHANGED promoCode
      /\ guest[c].made = NothingMade
  BY OpenRequest DEF Refuse, GuestBecomes
<1>2. GuestFine(promoCode, NotAsked) /\ NotAsked.made = NothingMade
  BY DEF GuestFine, GuestShape, NotAsked
<1>3. PromoFieldFine(promoCode, f)
  BY DEF PromoInv
<1>4. PromoFieldFine(promoCode, promoField')
  <2>1. CASE promoField' = promoField
    BY <1>3, <2>1
  <2>2. CASE promoField' = [promoField EXCEPT !.status = "invalid", !.shown = NoPrice, !.doubt = FALSE]
    <3>1. f = [word |-> f.word, status |-> f.status, service |-> f.service, shown |-> f.shown,
               checks |-> f.checks, doubt |-> f.doubt]
      BY <1>3 DEF PromoFieldFine
    <3>2. promoField' = [word |-> f.word, status |-> "invalid", service |-> f.service,
                         shown |-> NoPrice, checks |-> f.checks, doubt |-> FALSE]
      BY <2>2, <3>1
    <3> QED
      BY <1>3, <3>2 DEF PromoFieldFine
  <2> QED
    BY <2>1, <2>2 DEF Refuse
<1> QED
  BY <1>1, <1>2, <1>4, RequestChanges

---------------------------------------------------------------------------
(***************************************************************************)
(* PromoCodes: a visit is made and its code redeemed.                       *)
(***************************************************************************)
BillOf(c) ==
    LET off == IF guest[c].word = NoWord THEN 0 ELSE Discount(guest[c].seen, Price(c))
        total == Price(c) - off
    IN  /\ off \in 0 .. Price(c) /\ total \in Nat
        /\ Due(total, guest[c].rules) \in 0 .. total
        /\ Due(total, guest[c].rules) > 0 => guest[c].carded \/ guest[c].series
        /\ guest[c].promised # NoPrice =>
             total = guest[c].promised \/ guest[c].doubt \/ guest[c].series

LEMMA BillsAreRight ==
    ASSUME PromoInv, NEW c \in Guests, guest[c].at = "open", AsInSnapshot(c)
    PROVE  BillOf(c)
<1>1. PICK g : g = guest[c]
  OBVIOUS
<1>2. GuestFine(promoCode, g) /\ g.at = "open"
  BY <1>1, OpenRequest
<1>3. OnItsWay(promoCode, g) /\ Steady(g) /\ InItsSnapshot(g)
  BY <1>2 DEF GuestFine
<1>4. PICK price \in Nat : price = PriceOf[g.service]
  BY <1>3, SalesAreSales DEF OnItsWay
<1>5. PICK off : off = IF g.word = NoWord THEN 0 ELSE Discount(g.seen, price)
  OBVIOUS
<1>6. off \in 0 .. price
  BY <1>3, <1>5, DiscountWithin DEF InItsSnapshot
<1>7. PICK total \in Nat : total = price - off
  BY <1>6
<1>8. g.rules \in PrepayRules /\ (g.carded \/ g.series \/ ~ (Due(price, g.rules) > 0))
  BY <1>3, <1>4 DEF Steady
<1>9. Due(total, g.rules) \in 0 .. total /\ (Due(total, g.rules) > 0 => Due(price, g.rules) > 0)
  <2>1. total <= price
    BY <1>6, <1>7
  <2> QED
    BY <1>8, <2>1, DueWithin
<1>10. Due(total, g.rules) > 0 => g.carded \/ g.series
  BY <1>8, <1>9
<1>11. ASSUME g.promised # NoPrice, ~ g.doubt, ~ g.series
       PROVE  total = g.promised
  <2>1. PromisedBy(promoCode, g.word, g.service, g.promised)
    BY <1>3, <1>11 DEF OnItsWay
  <2>2. g.word # NoWord /\ g.promised = price - Discount(promoCode[g.word], price)
    BY <1>4, <2>1, SalesAreSales DEF PromisedBy
  <2>3. promoCode[g.word] = g.seen
    BY <1>1, <2>2 DEF AsInSnapshot
  <2> QED
    BY <1>5, <1>7, <2>2, <2>3
<1>12. Price(c) = price
  BY <1>1, <1>4 DEF Price
<1> QED
  BY <1>1, <1>5, <1>6, <1>7, <1>9, <1>10, <1>11, <1>12 DEF BillOf

LEMMA RedemptionKeeps ==
    ASSUME PromoInv, NEW c \in Guests, Commit(c)
    PROVE  PromoInv'
<1>1. PICK old, at, seen, rules, v :
         old = guest[c] /\ at = "done" /\ seen = NoSale /\ rules = NoRules /\ v = VisitMade(c)
  OBVIOUS
<1>2. GuestFine(promoCode, old) /\ GuestShape(old) /\ old.at = "open" /\ old.made = NothingMade
      /\ PromoFieldFine(promoCode, promoField)
  BY <1>1, OpenRequest DEF Commit
<1>3. OnItsWay(promoCode, old) /\ InItsSnapshot(old)
  BY <1>2 DEF GuestFine
<1>4. PICK g : g = [old EXCEPT !.at = at, !.seen = seen, !.rules = rules, !.made = v]
  OBVIOUS
<1>5. guest' = [guest EXCEPT ![c] = g]
  BY <1>1, <1>4 DEF Commit, GuestBecomes
<1>6. g = [at |-> at, word |-> old.word, service |-> old.service, promised |-> old.promised,
           doubt |-> old.doubt, series |-> old.series, rules |-> rules,
           carded |-> old.carded, tries |-> old.tries, seen |-> seen, made |-> v]
  BY <1>2, <1>4 DEF GuestShape
<1>7. PICK off, total, due, status, mode :
         /\ off = IF guest[c].word = NoWord THEN 0 ELSE Discount(guest[c].seen, Price(c))
         /\ total = Price(c) - off /\ due = Due(total, guest[c].rules)
         /\ status = IF due = 0 THEN "CONFIRMED" ELSE "PENDING_PAYMENT"
         /\ mode = ModeTold(due, total)
  OBVIOUS
<1>8. v = [status |-> status, off |-> off, total |-> total, due |-> due, mode |-> mode]
  BY <1>1, <1>7 DEF VisitMade
<1>9. /\ off \in 0 .. Price(c) /\ total \in Nat /\ due \in 0 .. total
      /\ due > 0 => old.carded \/ old.series
      /\ old.promised # NoPrice => total = old.promised \/ old.doubt \/ old.series
  BY <1>1, <1>2, <1>7, BillsAreRight DEF BillOf, Commit
<1>10. Price(c) \in Nat /\ Price(c) = PriceOf[old.service]
  BY <1>1, <1>3, SalesAreSales DEF Price, OnItsWay
<1>11. v # NothingMade
  BY <1>7, <1>8 DEF NothingMade
<1>12. BillFine(g)
  <2>1. total + off = PriceOf[old.service]
    BY <1>7, <1>9, <1>10
  <2>2. status = "PENDING_PAYMENT" <=> due > 0
    BY <1>7, <1>9
  <2> QED
    BY <1>6, <1>8, <1>9, <2>1, <2>2 DEF BillFine
<1>13. GuestFine(promoCode, g)
  BY <1>1, <1>6, <1>11, <1>12 DEF GuestFine, GuestShape
<1>14. promoCode \in [Words -> {NoSale} \cup SaleRows]
  BY DEF PromoInv
<1>15. promoCode' = [w \in Words |->
          IF w = old.word THEN [promoCode[w] EXCEPT !.count = @ + 1] ELSE promoCode[w]]
  BY <1>1 DEF Commit
<1>16. \A w \in Words : Tallied(promoCode[w], MadeWith(w))
  BY DEF PromoInv
<1>17. guest' = [d \in Guests |-> IF d = c THEN g ELSE guest[d]]
  BY <1>5 DEF PromoInv
<1>18. \A w \in Words : MadeWith(w)' = IF w = old.word THEN MadeWith(w) \cup {c} ELSE MadeWith(w)
  BY <1>1, <1>2, <1>6, <1>11, <1>17 DEF MadeWith
<1>19. \A w \in Words : c \notin MadeWith(w)
  BY <1>1, <1>2 DEF MadeWith
<1>20. ASSUME NEW w \in Words, w = old.word
       PROVE  /\ promoCode'[w] \in SaleRows /\ Tallied(promoCode'[w], MadeWith(w)')
              /\ promoCode'[w].kind = promoCode[w].kind /\ promoCode'[w].value = promoCode[w].value
  <2>1. w # NoWord
    BY SalesAreSales
  <2>2. old.seen \in SaleRows /\ (old.seen.limit # Unlimited => old.seen.count < old.seen.limit)
    BY <1>3, <1>20, <2>1 DEF InItsSnapshot
  <2>3. promoCode[w] = old.seen
    BY <1>1, <1>20, <2>1 DEF Commit, AsInSnapshot
  <2>4. PICK n \in Nat, limit \in Nat : n = promoCode[w].count /\ limit = promoCode[w].limit
    BY <2>2, <2>3 DEF SaleRows
  <2>5. PICK more \in Nat : more = n + 1
    BY <2>4
  <2>6. PICK row : row = [promoCode[w] EXCEPT !.count = more]
    OBVIOUS
  <2>7. promoCode'[w] = row
    BY <1>15, <1>20, <2>4, <2>5, <2>6
  <2>8. row \in SaleRows /\ row.count = more /\ row.limit = limit
        /\ row.kind = promoCode[w].kind /\ row.value = promoCode[w].value
    BY <2>2, <2>3, <2>4, <2>5, <2>6 DEF SaleRows
  <2>9. row # NoSale /\ promoCode[w] # NoSale
    BY <2>2, <2>3, <2>8, SalesAreSales
  <2>10. IsFiniteSet(MadeWith(w)) /\ n = Cardinality(MadeWith(w))
    BY <1>16, <2>4, <2>9 DEF Tallied
  <2>11. MadeWith(w)' = MadeWith(w) \cup {c}
    BY <1>18, <1>20
  <2>12. IsFiniteSet(MadeWith(w)') /\ Cardinality(MadeWith(w)') = n + 1
    BY <1>19, <2>10, <2>11, FS_AddElement
  <2>13. limit # Unlimited => more <= limit
    BY <2>2, <2>3, <2>4, <2>5 DEF Unlimited
  <2>14. Tallied(row, MadeWith(w)')
    BY <2>5, <2>8, <2>9, <2>12, <2>13 DEF Tallied
  <2> QED
    BY <2>7, <2>8, <2>14
<1>21. ASSUME NEW w \in Words, w # old.word
       PROVE  promoCode'[w] = promoCode[w] /\ Tallied(promoCode'[w], MadeWith(w)')
  BY <1>15, <1>16, <1>18, <1>21
<1>22. \A w \in Words : Tallied(promoCode'[w], MadeWith(w)')
  BY <1>20, <1>21
<1>23. (\A w \in Words : Tallied(promoCode[w], MadeWith(w)))'
  BY <1>22
<1>24. SameDiscounts(promoCode, promoCode')
  BY <1>20, <1>21, SalesAreSales DEF SameDiscounts
<1>25. promoCode' \in [Words -> {NoSale} \cup SaleRows]
  <2>1. \A w \in Words : promoCode'[w] \in {NoSale} \cup SaleRows
    BY <1>14, <1>20, <1>21
  <2>2. promoCode' = [w \in Words |-> promoCode'[w]]
    BY <1>15
  <2> QED
    BY <2>1, <2>2
<1>26. \A d \in Guests : GuestFine(promoCode', guest'[d])
  <2>1. \A d \in Guests : GuestFine(promoCode, guest'[d])
    BY <1>13, <1>17 DEF PromoInv
  <2> QED
    BY <1>24, <2>1, StillFine
<1>27. PromoFieldFine(promoCode', promoField')
  <2>1. PromoFieldFine(promoCode', FreshField)
    BY SalesAreSales DEF PromoFieldFine, FreshField
  <2>2. PromoFieldFine(promoCode', promoField)
    BY <1>2, <1>24, StillFine
  <2>3. promoField' = FreshField \/ promoField' = promoField
    BY DEF Commit
  <2> QED
    BY <2>1, <2>2, <2>3
<1>28. guest' = [d \in Guests |-> guest'[d]]
  BY <1>17
<1>29. (\A d \in Guests : GuestFine(promoCode, guest[d]))' /\ PromoFieldFine(promoCode, promoField)'
  BY <1>26, <1>27
<1> QED
  BY <1>23, <1>25, <1>28, <1>29 DEF PromoInv

LEMMA PromoStep == PromoInv /\ [PromoCodesNext]_promoVars => PromoInv'
<1> SUFFICES ASSUME PromoInv, [PromoCodesNext]_promoVars PROVE PromoInv'
  OBVIOUS
<1>1. ASSUME NEW w \in Words, NEW sale \in Sales, CreatePromoCode(w, sale) PROVE PromoInv'
  BY <1>1, NewCodeKeeps
<1>2. ASSUME NEW w \in Words, DeactivatePromoCode(w) PROVE PromoInv'
  BY <1>2, DeactivateKeeps
<1>3. ASSUME NEW w \in Words, CodeRunsOut(w) PROVE PromoInv'
  BY <1>3, OwnerKeeps DEF CodeRunsOut, OwnerStep
<1>4. ASSUME PlanEnds PROVE PromoInv'
  BY <1>4, OwnerKeeps DEF PlanEnds, OwnerStep
<1>5. ASSUME NEW q \in [word : Words, service : Menu], CheckAnswered(q) PROVE PromoInv'
  BY <1>5, AnswerKeeps
<1>6. ASSUME NEW series \in BOOLEAN, SubmitForm(series) PROVE PromoInv'
  BY <1>6, SubmitKeeps
<1>7. ASSUME NEW c \in Guests, NEW w \in Words, PostDirectly(c, w) PROVE PromoInv'
  BY <1>7, PostKeeps
<1>8. ASSUME NEW c \in Guests, NEW rules \in PrepayRules, NEW carded \in BOOLEAN,
             ReadSettings(c, rules, carded)
      PROVE  PromoInv'
  BY <1>8, ReadKeeps
<1>9. ASSUME NEW c \in Guests,
             OpenTransaction(c) \/ Commit(c) \/ RanOutMeanwhile(c) \/ SerializationFailure(c)
             \/ Refuse(c)
      PROVE  PromoInv'
  BY <1>9, OpenKeeps, RedemptionKeeps, RunOutKeeps, FailureKeeps, RefusalKeeps
<1>10. CASE UNCHANGED promoVars
  BY <1>10, OwnerKeeps DEF promoVars
<1>11. ASSUME \/ \E w \in Words : OnPromoCodeChange(w)
              \/ ApplyPromoCode
              \/ \E m \in Menu : ChangeService(m)
              \/ \E q \in [word : Words, service : Menu] : CheckFails(q)
       PROVE  PromoInv'
  BY <1>11, TypingKeeps
<1> QED
  BY <1>1, <1>2, <1>3, <1>4, <1>5, <1>6, <1>7, <1>8, <1>9, <1>10, <1>11, ZenonT(60)
     DEF PromoCodesNext

LEMMA PromoInvSays == PromoInv => DiscountsAddUp
<1> SUFFICES ASSUME PromoInv PROVE DiscountsAddUp
  OBVIOUS
<1>1. \A w \in Words : promoCode[w] # NoSale =>
        /\ promoCode[w].count = Cardinality(MadeWith(w))
        /\ promoCode[w].limit # Unlimited => promoCode[w].count <= promoCode[w].limit
  BY DEF PromoInv, Tallied
<1>2. ASSUME NEW c \in Guests, guest[c].made # NothingMade PROVE BillFine(guest[c])
  BY <1>2, OpenRequest DEF GuestFine
<1> QED
  BY <1>1, <1>2 DEF DiscountsAddUp, BillFine, Price

(* However many customers reserve at once and whatever the owner does        *)
(* meanwhile, a code's counter is the number of visits made with it and      *)
(* stays within its limit, and every visit owes what its price, its code and *)
(* its settings make of it, which is what the form had promised.             *)
THEOREM MoneyAddsUp == PromoCodesSpec => []DiscountsAddUp
<1>1. PromoCodesInit => PromoInv
  BY PromoStarts
<1>2. PromoInv /\ [PromoCodesNext]_promoVars => PromoInv'
  BY PromoStep
<1>3. PromoInv => DiscountsAddUp
  BY PromoInvSays
<1> QED
  BY <1>1, <1>2, <1>3, PTL DEF PromoCodesSpec

---------------------------------------------------------------------------
(***************************************************************************)
(* BookingForm: what always holds.                                          *)
(***************************************************************************)
DayOf(w) == [choice |-> w.choice, day |-> w.day, time |-> 0]

WishShape(w) == w = [choice |-> w.choice, day |-> w.day, time |-> w.time]

FormShape(f) ==
    /\ f = [wish |-> f.wish, starts |-> f.starts, startsOf |-> f.startsOf,
            submitting |-> f.submitting, pending |-> f.pending, gone |-> f.gone,
            panel |-> f.panel, post |-> f.post, waitlist |-> f.waitlist]
    /\ WishShape(f.wish)

(* The times shown, and those on their way, are of the day chosen           *)
TimesRight(f, call, late) ==
    /\ f.starts # {} => late \/ f.startsOf = DayOf(f.wish)
    /\ call = [pc |-> call.pc, of |-> call.of]
    /\ call.pc \in {"none", "sent", "arrived"}
    /\ call.pc # "none" => late \/ call.of = DayOf(f.wish)

(* A panel is drawn only where it belongs                                   *)
PanelRight(f) ==
    /\ (f.panel # "off" \/ f.post # 0) => HasPanel(f)
    /\ f.waitlist # "closed" => f.wish.time = 0

(* One booking on its way, and then no code for another                     *)
BookedOnce(f, books) ==
    /\ \A k, p \in Posts : books[k] # 0 /\ books[p] # 0 => k = p
    /\ \A k \in Posts : books[k] # 0 => f.submitting /\ f.pending # "booking"

(* A code on its way is that of the panel on the page                       *)
OneCode(f, codes) ==
    \A k \in Posts : codes[k].for # "none" =>
        f.panel = "confirming" /\ f.post = k /\ codes[k].for = f.pending

PostsRight(f, books, codes, left) == left \/ (BookedOnce(f, books) /\ OneCode(f, codes))

BookingFormInv ==
    /\ FormShape(form)
    /\ bookCall = [k \in Posts |-> bookCall[k]] /\ codeCall = [k \in Posts |-> codeCall[k]]
    /\ lateAnswer \in BOOLEAN /\ leftPanel \in BOOLEAN
    /\ TimesRight(form, slotCall, lateAnswer)
    /\ dayWanted # 0 => form.wish.day = dayWanted
    /\ PanelRight(form)
    /\ PostsRight(form, bookCall, codeCall, leftPanel)

LEMMA ContactsLast == ASSUME NEW w, StepOf(w) = 5 PROVE w.time # 0
<1> SUFFICES ASSUME w.time = 0 PROVE FALSE
  OBVIOUS
<1> DEFINE First(n) == w.choice[n] = Unchosen /\ \A k \in 1 .. n - 1 : w.choice[k] # Unchosen
<1>1. CASE \E n \in 1 .. 3 : w.choice[n] = Unchosen
  <2>1. \E n \in 1 .. 3 : First(n)
    <3>1. CASE w.choice[1] = Unchosen
      <4>1. First(1)
        BY <3>1
      <4> QED
        BY <4>1
    <3>2. CASE w.choice[1] # Unchosen /\ w.choice[2] = Unchosen
      <4>1. First(2)
        BY <3>2
      <4> QED
        BY <4>1
    <3>3. CASE w.choice[1] # Unchosen /\ w.choice[2] # Unchosen
      <4>1. First(3)
        BY <1>1, <3>3
      <4> QED
        BY <4>1
    <3> QED
      BY <3>1, <3>2, <3>3
  <2>2. (CHOOSE n \in 1 .. 3 : First(n)) \in 1 .. 3
    <3> HIDE DEF First
    <3> QED
      BY <2>1
  <2>3. StepOf(w) = CHOOSE n \in 1 .. 3 : First(n)
    BY <1>1 DEF StepOf
  <2>4. PICK n \in 1 .. 3 : n = StepOf(w)
    BY <2>2, <2>3
  <2> QED
    BY <2>4
<1>2. CASE ~ \E n \in 1 .. 3 : w.choice[n] = Unchosen
  BY <1>2 DEF StepOf
<1> QED
  BY <1>1, <1>2

LEMMA OnContacts == ASSUME NEW w, w.time # 0 PROVE StepOf(w) = 5
BY DEF StepOf

LEMMA SameDay ==
    ASSUME NEW w, WishShape(w)
    PROVE  [w EXCEPT !.time = 0] = DayOf(w)
<1>1. PICK d : d = [w EXCEPT !.time = 0]
  OBVIOUS
<1>2. d = [choice |-> w.choice, day |-> w.day, time |-> 0]
  BY <1>1 DEF WishShape
<1> QED
  BY <1>1, <1>2 DEF DayOf

LEMMA RenderedIs ==
    ASSUME NEW f, FormShape(f), NEW r, r = Rendered(f)
    PROVE  /\ FormShape(r) /\ r.wish = f.wish /\ r.starts = f.starts /\ r.startsOf = f.startsOf
           /\ r.submitting = f.submitting /\ r.pending = f.pending /\ r.gone = f.gone
           /\ r.waitlist = f.waitlist
           /\ r.panel = IF HasPanel(f) THEN IF f.panel = "off" THEN "sending" ELSE f.panel
                        ELSE "off"
           /\ r.post = IF HasPanel(f) THEN f.post ELSE 0
<1>1. PICK panel : panel = IF HasPanel(f) THEN IF f.panel = "off" THEN "sending" ELSE f.panel
                           ELSE "off"
  OBVIOUS
<1>2. PICK post : post = IF HasPanel(f) THEN f.post ELSE 0
  OBVIOUS
<1>3. r = [f EXCEPT !.panel = panel, !.post = post]
  BY <1>1, <1>2 DEF Rendered
<1>4. r = [wish |-> f.wish, starts |-> f.starts, startsOf |-> f.startsOf,
           submitting |-> f.submitting, pending |-> f.pending, gone |-> f.gone,
           panel |-> panel, post |-> post, waitlist |-> f.waitlist]
  BY <1>3 DEF FormShape
<1> QED
  BY <1>1, <1>2, <1>4 DEF FormShape

(* Whatever is drawn, a panel in which a code is being confirmed stays as   *)
(* it is or is left                                                         *)
LEMMA PanelDrawn ==
    ASSUME BookingFormInv, NEW f, FormShape(f), Draws(f),
           f.panel = form.panel /\ f.post = form.post,
           f.waitlist # "closed" => f.wish.time = 0,
           (form.panel = "confirming" /\ HasPanel(f)) => (leftPanel \/ f.pending = form.pending),
           UNCHANGED codeCall,
           leftPanel \/ BookedOnce(f, bookCall')
    PROVE  /\ FormShape(form') /\ form'.wish = f.wish /\ form'.starts = f.starts
           /\ form'.startsOf = f.startsOf
           /\ PanelRight(form') /\ PostsRight(form', bookCall', codeCall', leftPanel')
           /\ leftPanel' \in BOOLEAN
<1>1. form' = Rendered(f) /\ leftPanel' = (leftPanel \/ (form.panel = "confirming" /\ ~ HasPanel(f)))
  BY DEF Draws
<1>2. PICK r : r = form'
  OBVIOUS
<1>3. /\ FormShape(r) /\ r.wish = f.wish /\ r.starts = f.starts /\ r.startsOf = f.startsOf
      /\ r.submitting = f.submitting /\ r.pending = f.pending /\ r.waitlist = f.waitlist
      /\ r.panel = IF HasPanel(f) THEN IF f.panel = "off" THEN "sending" ELSE f.panel ELSE "off"
      /\ r.post = IF HasPanel(f) THEN f.post ELSE 0
  BY <1>1, <1>2, RenderedIs
<1>4. HasPanel(r) <=> HasPanel(f)
  BY <1>3 DEF HasPanel
<1>5. PanelRight(r)
  BY <1>3, <1>4 DEF PanelRight
<1>6. leftPanel' \in BOOLEAN
  BY <1>1
<1>7. leftPanel' \/ (~ leftPanel /\ (form.panel = "confirming" => HasPanel(f)))
  <2>1. leftPanel' <=> (leftPanel \/ (form.panel = "confirming" /\ ~ HasPanel(f)))
    BY <1>1, Zenon
  <2> QED
    BY <2>1
<1>8. ASSUME ~ leftPanel, form.panel = "confirming" => HasPanel(f)
      PROVE  BookedOnce(r, bookCall') /\ OneCode(r, codeCall')
  <2>1. BookedOnce(r, bookCall')
    BY <1>3, <1>8 DEF BookedOnce
  <2>2. OneCode(form, codeCall)
    BY <1>8 DEF BookingFormInv, PostsRight
  <2>3. OneCode(r, codeCall')
    BY <1>3, <1>8, <2>2 DEF OneCode
  <2> QED
    BY <2>1, <2>3
<1>9. PostsRight(r, bookCall', codeCall', leftPanel')
  BY <1>7, <1>8 DEF PostsRight
<1> QED
  BY <1>2, <1>3, <1>5, <1>6, <1>9

---------------------------------------------------------------------------
(***************************************************************************)
(* BookingForm: choices, days and times.                                    *)
(***************************************************************************)
LEMMA FormDrawn ==
    ASSUME BookingFormInv, NEW f, FormShape(f), Draws(f),
           f.panel = form.panel /\ f.post = form.post,
           f.waitlist # "closed" => f.wish.time = 0,
           (form.panel = "confirming" /\ HasPanel(f)) => (leftPanel \/ f.pending = form.pending),
           UNCHANGED codeCall, bookCall' = [k \in Posts |-> bookCall'[k]],
           leftPanel \/ BookedOnce(f, bookCall'),
           TimesRight(f, slotCall', lateAnswer'), lateAnswer' \in BOOLEAN,
           dayWanted' # 0 => f.wish.day = dayWanted'
    PROVE  BookingFormInv'
<1>1. /\ FormShape(form') /\ form'.wish = f.wish /\ form'.starts = f.starts
      /\ form'.startsOf = f.startsOf
      /\ PanelRight(form') /\ PostsRight(form', bookCall', codeCall', leftPanel')
      /\ leftPanel' \in BOOLEAN
  BY PanelDrawn
<1>2. TimesRight(form', slotCall', lateAnswer')
  BY <1>1 DEF TimesRight
<1>3. codeCall' = [k \in Posts |-> codeCall'[k]]
  BY DEF BookingFormInv
<1> QED
  BY <1>1, <1>2, <1>3 DEF BookingFormInv

(* What was being posted goes on                                            *)
LEMMA QuietlyDrawn ==
    ASSUME BookingFormInv, NEW f, FormShape(f), Draws(f),
           f.panel = form.panel /\ f.post = form.post,
           f.pending = form.pending /\ f.submitting = form.submitting,
           f.waitlist # "closed" => f.wish.time = 0,
           UNCHANGED <<bookCall, codeCall>>,
           TimesRight(f, slotCall', lateAnswer'), lateAnswer' \in BOOLEAN,
           dayWanted' # 0 => f.wish.day = dayWanted'
    PROVE  BookingFormInv'
<1>1. leftPanel \/ BookedOnce(f, bookCall')
  BY DEF BookingFormInv, PostsRight, BookedOnce
<1>2. bookCall' = [k \in Posts |-> bookCall'[k]]
  BY DEF BookingFormInv
<1> QED
  BY <1>1, <1>2, FormDrawn

LEMMA ChoiceKeeps ==
    ASSUME BookingFormInv, NEW c, ChangesChoice(c)
    PROVE  BookingFormInv'
<1>1. PICK wish : wish = [NoWish EXCEPT !.choice = c]
  OBVIOUS
<1>2. wish = [choice |-> c, day |-> 0, time |-> 0]
  BY <1>1 DEF NoWish
<1>3. PICK f : f = [form EXCEPT !.wish = wish, !.starts = {}, !.startsOf = NoWish]
  OBVIOUS
<1>4. Draws(f)
  BY <1>1, <1>3 DEF ChangesChoice
<1>5. f = [wish |-> wish, starts |-> {}, startsOf |-> NoWish,
           submitting |-> form.submitting, pending |-> form.pending, gone |-> form.gone,
           panel |-> form.panel, post |-> form.post, waitlist |-> form.waitlist]
  BY <1>3 DEF BookingFormInv, FormShape
<1>6. FormShape(f)
  BY <1>2, <1>5 DEF FormShape, WishShape
<1>7. slotCall = [pc |-> slotCall.pc, of |-> slotCall.of]
      /\ slotCall.pc \in {"none", "sent", "arrived"} /\ lateAnswer \in BOOLEAN
  BY DEF BookingFormInv, TimesRight
<1>8. lateAnswer' \in BOOLEAN /\ (lateAnswer' <=> (lateAnswer \/ slotCall.pc = "arrived"))
  <2>1. lateAnswer' = (lateAnswer \/ slotCall.pc = "arrived")
    BY DEF ChangesChoice
  <2> QED
    BY <1>7, <2>1, Zenon
<1>9. TimesRight(f, slotCall', lateAnswer')
  <2>1. slotCall' = IF slotCall.pc = "sent" THEN [slotCall EXCEPT !.pc = "none"] ELSE slotCall
    BY DEF ChangesChoice, ClearedCall, Aborted
  <2>2. CASE slotCall.pc = "sent"
    <3>1. slotCall' = [pc |-> "none", of |-> slotCall.of]
      BY <1>7, <2>1, <2>2
    <3> QED
      BY <1>5, <3>1 DEF TimesRight
  <2>3. CASE slotCall.pc = "arrived"
    <3>1. lateAnswer'
      BY <1>8, <2>3
    <3> QED
      BY <1>5, <1>7, <2>1, <2>3, <3>1 DEF TimesRight
  <2>4. CASE slotCall.pc = "none"
    BY <1>5, <1>7, <2>1, <2>4 DEF TimesRight
  <2> QED
    BY <1>7, <2>2, <2>3, <2>4
<1>10. UNCHANGED <<bookCall, codeCall>> /\ dayWanted' = 0
  BY DEF ChangesChoice, PostsKept
<1>11. f.panel = form.panel /\ f.post = form.post /\ f.wish.time = 0
       /\ f.pending = form.pending /\ f.submitting = form.submitting
  BY <1>2, <1>5
<1> QED
  BY <1>4, <1>6, <1>8, <1>9, <1>10, <1>11, QuietlyDrawn

(* A time taken or taken back is on the same day                            *)
LEMMA TimeKeeps ==
    ASSUME BookingFormInv, NEW time, NEW f, f = [form EXCEPT !.wish.time = time], Draws(f),
           FetchesKept, PostsKept, form.waitlist = "closed" \/ time = 0
    PROVE  BookingFormInv'
<1>1. PICK wish : wish = [form.wish EXCEPT !.time = time]
  OBVIOUS
<1>2. f = [form EXCEPT !.wish = wish]
  BY <1>1
<1>3. FormShape(form)
  BY DEF BookingFormInv
<1>4. wish = [choice |-> form.wish.choice, day |-> form.wish.day, time |-> time]
  BY <1>1, <1>3 DEF FormShape, WishShape
<1>5. f = [wish |-> wish, starts |-> form.starts, startsOf |-> form.startsOf,
           submitting |-> form.submitting, pending |-> form.pending, gone |-> form.gone,
           panel |-> form.panel, post |-> form.post, waitlist |-> form.waitlist]
  BY <1>2, <1>3 DEF FormShape
<1>6. FormShape(f)
  <2>1. f.wish = wish /\ WishShape(wish)
    BY <1>4, <1>5 DEF WishShape
  <2> QED
    BY <1>5, <2>1 DEF FormShape
<1>7. DayOf(f.wish) = DayOf(form.wish)
  BY <1>4, <1>5 DEF DayOf
<1>8. TimesRight(f, slotCall, lateAnswer)
  BY <1>5, <1>7 DEF BookingFormInv, TimesRight
<1>9. UNCHANGED <<bookCall, codeCall, slotCall, dayWanted, lateAnswer>>
  BY DEF FetchesKept, PostsKept
<1>10. dayWanted # 0 => f.wish.day = dayWanted
  BY <1>4, <1>5 DEF BookingFormInv
<1>11. lateAnswer \in BOOLEAN
  BY DEF BookingFormInv
<1>12. f.panel = form.panel /\ f.post = form.post /\ (f.waitlist # "closed" => f.wish.time = 0)
       /\ f.pending = form.pending /\ f.submitting = form.submitting
  BY <1>4, <1>5
<1>13. TimesRight(f, slotCall', lateAnswer') /\ lateAnswer' \in BOOLEAN
       /\ (dayWanted' # 0 => f.wish.day = dayWanted')
  BY <1>8, <1>9, <1>10, <1>11
<1> QED
  BY <1>6, <1>9, <1>12, <1>13, QuietlyDrawn

(* loadSlots: the times of another day, and nothing of the day before       *)
LEMMA LoadKeeps ==
    ASSUME BookingFormInv, NEW day, LoadSlots(day), UNCHANGED <<bookCall, codeCall>>,
           dayWanted' # 0 => day = dayWanted'
    PROVE  BookingFormInv'
<1>1. PICK f : f = [form EXCEPT !.wish.day = day, !.wish.time = 0, !.starts = {},
                          !.startsOf = NoWish, !.waitlist = "closed"]
  OBVIOUS
<1>2. Draws(f)
  BY <1>1 DEF LoadSlots
<1>3. FormShape(form) /\ WishShape(form.wish)
  BY DEF BookingFormInv, FormShape
<1>4. PICK wish : wish = [choice |-> form.wish.choice, day |-> day, time |-> 0]
  OBVIOUS
<1>5. f = [wish |-> wish, starts |-> {}, startsOf |-> NoWish,
           submitting |-> form.submitting, pending |-> form.pending, gone |-> form.gone,
           panel |-> form.panel, post |-> form.post, waitlist |-> "closed"]
  <2>1. PICK w1 : w1 = [form.wish EXCEPT !.day = day]
    OBVIOUS
  <2>2. w1 = [choice |-> form.wish.choice, day |-> day, time |-> form.wish.time]
    BY <1>3, <2>1 DEF WishShape
  <2>3. PICK f1 : f1 = [form EXCEPT !.wish.day = day]
    OBVIOUS
  <2>4. f1 = [form EXCEPT !.wish = w1]
    BY <2>1, <2>3
  <2>5. f1 = [wish |-> w1, starts |-> form.starts, startsOf |-> form.startsOf,
           submitting |-> form.submitting, pending |-> form.pending, gone |-> form.gone,
           panel |-> form.panel, post |-> form.post, waitlist |-> form.waitlist]
    BY <1>3, <2>4 DEF FormShape
  <2>6. PICK f2 : f2 = [f1 EXCEPT !.wish.time = 0]
    OBVIOUS
  <2>7. PICK w2 : w2 = [w1 EXCEPT !.time = 0]
    OBVIOUS
  <2>8. w2 = wish
    BY <1>4, <2>2, <2>7
  <2>9. f2 = [f1 EXCEPT !.wish = wish]
    BY <2>5, <2>6, <2>7, <2>8
  <2>10. f2 = [wish |-> wish, starts |-> form.starts, startsOf |-> form.startsOf,
           submitting |-> form.submitting, pending |-> form.pending, gone |-> form.gone,
           panel |-> form.panel, post |-> form.post, waitlist |-> form.waitlist]
    BY <2>5, <2>9
  <2>11. f = [f2 EXCEPT !.starts = {}, !.startsOf = NoWish, !.waitlist = "closed"]
    BY <1>1, <2>3, <2>6
  <2> QED
    BY <2>10, <2>11
<1>6. FormShape(f) /\ f.wish = wish /\ f.wish.time = 0 /\ f.wish.day = day
      /\ f.panel = form.panel /\ f.post = form.post
      /\ f.pending = form.pending /\ f.submitting = form.submitting
      /\ f.starts = {} /\ f.waitlist = "closed"
  <2>1. WishShape(wish) /\ wish.time = 0 /\ wish.day = day
    BY <1>4 DEF WishShape
  <2>2. f.wish = wish /\ f.panel = form.panel /\ f.post = form.post
        /\ f.pending = form.pending /\ f.submitting = form.submitting
        /\ f.starts = {} /\ f.waitlist = "closed"
    BY <1>5
  <2>3. FormShape(f)
    BY <1>5, <2>1, <2>2 DEF FormShape
  <2> QED
    BY <2>1, <2>2, <2>3
<1>7. slotCall = [pc |-> slotCall.pc, of |-> slotCall.of]
      /\ slotCall.pc \in {"none", "sent", "arrived"} /\ lateAnswer \in BOOLEAN
  BY DEF BookingFormInv, TimesRight
<1>8. lateAnswer' \in BOOLEAN /\ (lateAnswer' <=> (lateAnswer \/ (day = 0 /\ slotCall.pc = "arrived")))
  <2>1. lateAnswer' = (lateAnswer \/ (day = 0 /\ slotCall.pc = "arrived"))
    BY DEF LoadSlots
  <2> QED
    BY <1>7, <2>1, Zenon
<1>9. TimesRight(f, slotCall', lateAnswer')
  <2>1. CASE day # 0
    <3>1. PICK of : of = [form.wish EXCEPT !.day = day, !.time = 0]
      OBVIOUS
    <3>2. slotCall' = [pc |-> "sent", of |-> of]
      BY <2>1, <3>1 DEF LoadSlots
    <3>3. of = [choice |-> form.wish.choice, day |-> day, time |-> 0]
      BY <1>3, <3>1 DEF WishShape
    <3>4. of = DayOf(f.wish)
      BY <1>4, <1>6, <3>3 DEF DayOf
    <3> QED
      BY <1>6, <3>2, <3>4 DEF TimesRight
  <2>2. CASE day = 0
    <3>1. slotCall' = IF slotCall.pc = "sent" THEN [slotCall EXCEPT !.pc = "none"] ELSE slotCall
      BY <2>2 DEF LoadSlots, Aborted
    <3>2. CASE slotCall.pc = "sent"
      <4>1. slotCall' = [pc |-> "none", of |-> slotCall.of]
        BY <1>7, <3>1, <3>2
      <4> QED
        BY <1>6, <4>1 DEF TimesRight
    <3>3. CASE slotCall.pc = "arrived"
      <4>1. lateAnswer'
        BY <1>8, <2>2, <3>3
      <4> QED
        BY <1>6, <1>7, <3>1, <3>3, <4>1 DEF TimesRight
    <3>4. CASE slotCall.pc = "none"
      BY <1>6, <1>7, <3>1, <3>4 DEF TimesRight
    <3> QED
      BY <1>7, <3>2, <3>3, <3>4
  <2> QED
    BY <2>1, <2>2
<1>10. dayWanted' # 0 => f.wish.day = dayWanted'
  BY <1>6
<1> QED
  BY <1>2, <1>6, <1>8, <1>9, <1>10, QuietlyDrawn

---------------------------------------------------------------------------
(***************************************************************************)
(* BookingForm: the steps.                                                  *)
(***************************************************************************)
LEMMA FormStarts == BookingFormInit => BookingFormInv
<1> SUFFICES ASSUME BookingFormInit PROVE BookingFormInv
  OBVIOUS
<1>1. PICK c \in Choices :
        form = [wish |-> [NoWish EXCEPT !.choice = c], starts |-> {}, startsOf |-> NoWish,
                submitting |-> FALSE, pending |-> "none", gone |-> FALSE,
                panel |-> "off", post |-> 0, waitlist |-> "closed"]
  BY DEF BookingFormInit
<1>2. PICK wish : wish = [NoWish EXCEPT !.choice = c]
  OBVIOUS
<1>3. WishShape(wish)
  BY <1>2 DEF NoWish, WishShape
<1>4. form = [wish |-> wish, starts |-> {}, startsOf |-> NoWish,
              submitting |-> FALSE, pending |-> "none", gone |-> FALSE,
              panel |-> "off", post |-> 0, waitlist |-> "closed"]
  BY <1>1, <1>2
<1>5. FormShape(form)
  BY <1>3, <1>4 DEF FormShape
<1>6. slotCall = [pc |-> "none", of |-> NoWish] /\ bookCall = [k \in Posts |-> 0]
      /\ codeCall = [k \in Posts |-> [for |-> "none", time |-> 0]]
      /\ dayWanted = 0 /\ lateAnswer = FALSE /\ leftPanel = FALSE
  BY DEF BookingFormInit
<1>7. TimesRight(form, slotCall, lateAnswer)
  BY <1>4, <1>6 DEF TimesRight
<1>8. PanelRight(form)
  BY <1>4 DEF PanelRight
<1>9. BookedOnce(form, bookCall) /\ OneCode(form, codeCall)
  BY <1>6 DEF BookedOnce, OneCode
<1> QED
  BY <1>5, <1>6, <1>7, <1>8, <1>9 DEF BookingFormInv, PostsRight

LEMMA ChoosePartKeeps == ASSUME BookingFormInv, NEW v, ChoosePart(v) PROVE BookingFormInv'
<1>1. PICK c : ChangesChoice(c)
  BY DEF ChoosePart
<1> QED
  BY <1>1, ChoiceKeeps

LEMMA GoBackKeeps == ASSUME BookingFormInv, GoBack PROVE BookingFormInv'
<1>1. CASE \E c : ChangesChoice(c)
  BY <1>1, ChoiceKeeps
<1>2. CASE Draws([form EXCEPT !.wish.time = 0]) /\ FetchesKept /\ PostsKept
  <2>1. PICK f : f = [form EXCEPT !.wish.time = 0]
    OBVIOUS
  <2>2. PICK time : time = 0
    OBVIOUS
  <2>3. f = [form EXCEPT !.wish.time = time] /\ Draws(f)
    BY <1>2, <2>1, <2>2
  <2> QED
    BY <1>2, <2>2, <2>3, TimeKeeps
<1>3. (\E c : ChangesChoice(c)) \/ (Draws([form EXCEPT !.wish.time = 0]) /\ FetchesKept /\ PostsKept)
  BY DEF GoBack
<1> QED
  BY <1>1, <1>2, <1>3

LEMMA PickDayKeeps == ASSUME BookingFormInv, NEW day, PickDay(day) PROVE BookingFormInv'
<1>1. LoadSlots(day) /\ UNCHANGED <<bookCall, codeCall>> /\ dayWanted' = day
  BY DEF PickDay, PostsKept
<1> QED
  BY <1>1, LoadKeeps

(* Only what the page drew changes, or a request for days                   *)
LEMMA NothingDrawn ==
    ASSUME BookingFormInv,
           UNCHANGED <<form, slotCall, bookCall, codeCall, dayWanted, lateAnswer, leftPanel>>
    PROVE  BookingFormInv'
<1>1. TimesRight(form, slotCall, lateAnswer)' /\ PanelRight(form)' /\ FormShape(form)'
  BY DEF BookingFormInv
<1>2. PostsRight(form, bookCall, codeCall, leftPanel)'
  BY DEF BookingFormInv
<1>3. (/\ bookCall = [k \in Posts |-> bookCall[k]] /\ codeCall = [k \in Posts |-> codeCall[k]]
       /\ lateAnswer \in BOOLEAN /\ leftPanel \in BOOLEAN
       /\ dayWanted # 0 => form.wish.day = dayWanted)'
  BY DEF BookingFormInv
<1> QED
  BY <1>1, <1>2, <1>3 DEF BookingFormInv

LEMMA StripKeeps == ASSUME BookingFormInv, NEW day, StripAnswered(day) PROVE BookingFormInv'
<1>1. UNCHANGED <<bookCall, codeCall, dayWanted>>
  BY DEF StripAnswered, PostsKept
<1>2. CASE OpensFirstFree(day)
  <2>1. LoadSlots(day)
    BY <1>2 DEF StripAnswered
  <2>2. dayWanted = 0
    BY <1>2 DEF BookingFormInv, OpensFirstFree
  <2> QED
    BY <1>1, <2>1, <2>2, LoadKeeps
<1>3. CASE ~ OpensFirstFree(day)
  <2>1. UNCHANGED <<form, slotCall, lateAnswer, leftPanel>>
    BY <1>3 DEF StripAnswered
  <2> QED
    BY <1>1, <2>1, NothingDrawn
<1> QED
  BY <1>2, <1>3

LEMMA ArrivalKeeps == ASSUME BookingFormInv, SlotsArrive PROVE BookingFormInv'
<1>1. slotCall = [pc |-> slotCall.pc, of |-> slotCall.of] /\ slotCall.pc = "sent"
      /\ TimesRight(form, slotCall, lateAnswer)
  BY DEF BookingFormInv, TimesRight, SlotsArrive
<1>2. slotCall' = [pc |-> "arrived", of |-> slotCall.of]
  BY <1>1 DEF SlotsArrive
<1>3. TimesRight(form, slotCall', lateAnswer)
  BY <1>1, <1>2 DEF TimesRight
<1>4. UNCHANGED <<form, bookCall, codeCall, dayWanted, lateAnswer, leftPanel>>
  BY DEF SlotsArrive, PostsKept, HistoryKept
<1>5. TimesRight(form', slotCall', lateAnswer')
  BY <1>3, <1>4
<1>6. PanelRight(form') /\ FormShape(form') /\ PostsRight(form', bookCall', codeCall', leftPanel')
  BY <1>4 DEF BookingFormInv
<1>7. (/\ bookCall = [k \in Posts |-> bookCall[k]] /\ codeCall = [k \in Posts |-> codeCall[k]]
       /\ lateAnswer \in BOOLEAN /\ leftPanel \in BOOLEAN
       /\ dayWanted # 0 => form.wish.day = dayWanted)'
  BY <1>4 DEF BookingFormInv
<1> QED
  BY <1>5, <1>6, <1>7 DEF BookingFormInv

LEMMA AnswerShown == ASSUME BookingFormInv, NEW starts, SlotsAnswered(starts) PROVE BookingFormInv'
<1>1. slotCall = [pc |-> slotCall.pc, of |-> slotCall.of] /\ slotCall.pc = "arrived"
      /\ TimesRight(form, slotCall, lateAnswer) /\ FormShape(form)
  BY DEF BookingFormInv, TimesRight, SlotsAnswered
<1>2. slotCall' = [pc |-> "none", of |-> slotCall.of]
  BY <1>1 DEF SlotsAnswered
<1>3. PICK of : of = slotCall.of
  OBVIOUS
<1>4. PICK f : f = form'
  OBVIOUS
<1>5. f = [form EXCEPT !.starts = starts, !.startsOf = of]
  BY <1>3, <1>4 DEF SlotsAnswered
<1>6. f = [wish |-> form.wish, starts |-> starts, startsOf |-> of,
           submitting |-> form.submitting, pending |-> form.pending, gone |-> form.gone,
           panel |-> form.panel, post |-> form.post, waitlist |-> form.waitlist]
  BY <1>1, <1>5 DEF FormShape
<1>7. UNCHANGED <<bookCall, codeCall, dayWanted, lateAnswer, leftPanel>>
  BY DEF SlotsAnswered, PostsKept, HistoryKept
<1>8. TimesRight(f, slotCall', lateAnswer)
  BY <1>1, <1>2, <1>3, <1>6 DEF TimesRight
<1>9. FormShape(f)
  BY <1>1, <1>6 DEF FormShape
<1>10. PanelRight(f)
  BY <1>6 DEF BookingFormInv, PanelRight, HasPanel
<1>11. PostsRight(f, bookCall, codeCall, leftPanel)
  BY <1>6 DEF BookingFormInv, PostsRight, BookedOnce, OneCode
<1>12. TimesRight(form', slotCall', lateAnswer') /\ PanelRight(form') /\ FormShape(form')
       /\ PostsRight(form', bookCall', codeCall', leftPanel')
  BY <1>4, <1>7, <1>8, <1>9, <1>10, <1>11
<1>13. (/\ bookCall = [k \in Posts |-> bookCall[k]] /\ codeCall = [k \in Posts |-> codeCall[k]]
        /\ lateAnswer \in BOOLEAN /\ leftPanel \in BOOLEAN
        /\ dayWanted # 0 => form.wish.day = dayWanted)'
  BY <1>4, <1>6, <1>7 DEF BookingFormInv
<1> QED
  BY <1>12, <1>13 DEF BookingFormInv

LEMMA PickTimeKeeps == ASSUME BookingFormInv, NEW time, PickTime(time) PROVE BookingFormInv'
<1>1. PICK f : f = [form EXCEPT !.wish.time = time]
  OBVIOUS
<1>2. Draws(f) /\ FetchesKept /\ PostsKept /\ form.waitlist = "closed"
  BY <1>1 DEF PickTime, DialogClosed
<1> QED
  BY <1>1, <1>2, TimeKeeps

---------------------------------------------------------------------------
(***************************************************************************)
(* BookingForm: what is posted.                                             *)
(***************************************************************************)
LEMMA PostStep ==
    ASSUME BookingFormInv, FetchesKept, NEW f, form' = f, FormShape(f),
           f.wish = form.wish /\ f.starts = form.starts /\ f.startsOf = form.startsOf,
           PanelRight(f), PostsRight(f, bookCall', codeCall', leftPanel'), leftPanel' \in BOOLEAN,
           bookCall' = [k \in Posts |-> bookCall'[k]], codeCall' = [k \in Posts |-> codeCall'[k]]
    PROVE  BookingFormInv'
<1>1. UNCHANGED <<slotCall, dayWanted, lateAnswer>>
  BY DEF FetchesKept
<1>2. TimesRight(form, slotCall, lateAnswer) /\ lateAnswer \in BOOLEAN
      /\ (dayWanted # 0 => form.wish.day = dayWanted)
  BY DEF BookingFormInv
<1>3. TimesRight(f, slotCall, lateAnswer) /\ (dayWanted # 0 => f.wish.day = dayWanted)
  BY <1>2 DEF TimesRight
<1>4. TimesRight(form', slotCall', lateAnswer') /\ lateAnswer' \in BOOLEAN
      /\ (dayWanted' # 0 => form'.wish.day = dayWanted')
  BY <1>1, <1>2, <1>3
<1> QED
  BY <1>4 DEF BookingFormInv

LEMMA SubmitBookingKeeps ==
    ASSUME BookingFormInv, NEW k \in Posts, SubmitBooking(k)
    PROVE  BookingFormInv'
<1>1. PICK f : f = [form EXCEPT !.submitting = TRUE]
  OBVIOUS
<1>2. form' = f /\ FetchesKept /\ UNCHANGED <<codeCall, leftPanel>>
      /\ bookCall' = [bookCall EXCEPT ![k] = form.wish.time]
      /\ form.pending # "booking" /\ form.submitting # TRUE /\ form.waitlist = "closed"
  BY <1>1 DEF SubmitBooking, SendsBooking, SubmitEnabled, DialogClosed
<1>3. f = [wish |-> form.wish, starts |-> form.starts, startsOf |-> form.startsOf,
           submitting |-> TRUE, pending |-> form.pending, gone |-> form.gone,
           panel |-> form.panel, post |-> form.post, waitlist |-> form.waitlist]
      /\ FormShape(form)
  BY <1>1 DEF BookingFormInv, FormShape
<1>4. FormShape(f)
  BY <1>3 DEF FormShape
<1>5. PanelRight(f)
  BY <1>3 DEF BookingFormInv, PanelRight, HasPanel
<1>6. bookCall' = [p \in Posts |-> IF p = k THEN form.wish.time ELSE bookCall[p]]
  BY <1>2 DEF BookingFormInv
<1>7. ASSUME BookedOnce(form, bookCall), OneCode(form, codeCall)
      PROVE  BookedOnce(f, bookCall') /\ OneCode(f, codeCall')
  <2>1. ~ form.submitting
    BY DEF SubmitBooking, SubmitEnabled
  <2>2. \A p \in Posts : bookCall[p] = 0
    BY <1>7, <2>1 DEF BookedOnce
  <2>3. \A p \in Posts : bookCall'[p] # 0 => p = k
    BY <1>6, <2>2
  <2>4. BookedOnce(f, bookCall')
    BY <1>2, <1>3, <2>3 DEF BookedOnce
  <2>5. OneCode(f, codeCall')
    BY <1>2, <1>3, <1>7 DEF OneCode
  <2> QED
    BY <2>4, <2>5
<1>8. PostsRight(f, bookCall', codeCall', leftPanel') /\ leftPanel' \in BOOLEAN
  BY <1>2, <1>7 DEF BookingFormInv, PostsRight
<1>9. bookCall' = [p \in Posts |-> bookCall'[p]] /\ codeCall' = [p \in Posts |-> codeCall'[p]]
  BY <1>2, <1>6 DEF BookingFormInv
<1>10. f.wish = form.wish /\ f.starts = form.starts /\ f.startsOf = form.startsOf
  BY <1>3
<1> QED
  BY <1>2, <1>4, <1>5, <1>8, <1>9, <1>10, PostStep

(* The one booking on its way is answered                                   *)
LEMMA AnswerDrawn ==
    ASSUME BookingFormInv, NEW k \in Posts, bookCall[k] # 0, bookCall' = [bookCall EXCEPT ![k] = 0],
           UNCHANGED codeCall, FetchesKept, NEW f, FormShape(f), Draws(f),
           f.panel = form.panel /\ f.post = form.post /\ f.waitlist = form.waitlist,
           f.wish = form.wish \/ f.wish = DayOf(form.wish),
           f.starts \subseteq form.starts, f.startsOf = form.startsOf,
           f.pending = form.pending \/ f.pending = "booking"
    PROVE  BookingFormInv'
<1>1. bookCall' = [p \in Posts |-> IF p = k THEN 0 ELSE bookCall[p]]
  BY DEF BookingFormInv
<1>2. leftPanel \/ \A p \in Posts : bookCall'[p] = 0
  <2>1. ASSUME ~ leftPanel PROVE \A p \in Posts : bookCall'[p] = 0
    <3>1. BookedOnce(form, bookCall)
      BY <2>1 DEF BookingFormInv, PostsRight
    <3> QED
      BY <1>1, <3>1 DEF BookedOnce
  <2> QED
    BY <2>1 DEF BookingFormInv
<1>3. leftPanel \/ BookedOnce(f, bookCall')
  BY <1>2 DEF BookedOnce
<1>4. PanelRight(form) /\ TimesRight(form, slotCall, lateAnswer) /\ lateAnswer \in BOOLEAN
  BY DEF BookingFormInv
<1>5. f.waitlist # "closed" => f.wish.time = 0
  BY <1>4 DEF PanelRight, DayOf
<1>6. ASSUME form.panel = "confirming", HasPanel(f)
      PROVE  f.pending = form.pending
  <2>1. HasPanel(form)
    BY <1>4, <1>6 DEF PanelRight
  <2>2. SUFFICES ASSUME f.pending = "booking", form.pending # "booking" PROVE FALSE
    OBVIOUS
  <2>3. form.waitlist = "open"
    BY <2>1, <2>2 DEF HasPanel
  <2>4. StepOf(f.wish) = 5
    BY <1>6, <2>2 DEF HasPanel
  <2>5. f.wish.time # 0
    BY <2>4, ContactsLast
  <2> QED
    BY <1>5, <2>3, <2>5
<1>7. DayOf(f.wish) = DayOf(form.wish) /\ f.wish.day = form.wish.day
  BY DEF DayOf
<1>8. TimesRight(f, slotCall, lateAnswer)
  BY <1>4, <1>7 DEF TimesRight
<1>9. UNCHANGED <<slotCall, dayWanted, lateAnswer>>
  BY DEF FetchesKept
<1>10. dayWanted' # 0 => f.wish.day = dayWanted'
  BY <1>7, <1>9 DEF BookingFormInv
<1>11. TimesRight(f, slotCall', lateAnswer') /\ lateAnswer' \in BOOLEAN
  BY <1>4, <1>8, <1>9
<1>12. bookCall' = [p \in Posts |-> bookCall'[p]]
  BY <1>1
<1>13. (form.panel = "confirming" /\ HasPanel(f)) => (leftPanel \/ f.pending = form.pending)
  BY <1>6
<1>14. f.panel = form.panel /\ f.post = form.post
  OBVIOUS
<1> QED
  BY <1>3, <1>5, <1>10, <1>11, <1>12, <1>13, <1>14, FormDrawn

LEMMA BookingAnsweredKeeps ==
    ASSUME BookingFormInv, NEW k \in Posts,
           NEW a \in {"created", "verify", "conflict", "error"}, BookingAnswered(k, a)
    PROVE  BookingFormInv'
<1>1. bookCall[k] # 0 /\ bookCall' = [bookCall EXCEPT ![k] = 0] /\ UNCHANGED codeCall /\ FetchesKept
  BY DEF BookingAnswered
<1>2. PICK settled : settled = [form EXCEPT !.submitting = FALSE]
  OBVIOUS
<1>3. settled = [wish |-> form.wish, starts |-> form.starts, startsOf |-> form.startsOf,
                 submitting |-> FALSE, pending |-> form.pending, gone |-> form.gone,
                 panel |-> form.panel, post |-> form.post, waitlist |-> form.waitlist]
      /\ FormShape(form)
  BY <1>2 DEF BookingFormInv, FormShape
<1>4. CASE a = "created"
  <2>1. PICK f : f = [settled EXCEPT !.gone = TRUE]
    OBVIOUS
  <2>2. Draws(f)
    BY <1>2, <1>4, <2>1 DEF BookingAnswered
  <2>3. f = [wish |-> form.wish, starts |-> form.starts, startsOf |-> form.startsOf,
             submitting |-> FALSE, pending |-> form.pending, gone |-> TRUE,
             panel |-> form.panel, post |-> form.post, waitlist |-> form.waitlist]
    BY <1>3, <2>1
  <2>4. FormShape(f)
    BY <1>3, <2>3 DEF FormShape
  <2>5. /\ f.panel = form.panel /\ f.post = form.post /\ f.waitlist = form.waitlist
        /\ f.wish = form.wish \/ f.wish = DayOf(form.wish)
        /\ f.starts \subseteq form.starts /\ f.startsOf = form.startsOf
        /\ f.pending = form.pending \/ f.pending = "booking"
    BY <2>3
  <2> QED
    BY <1>1, <2>2, <2>4, <2>5, AnswerDrawn
<1>5. CASE a = "verify"
  <2>1. PICK f : f = [settled EXCEPT !.pending = "booking"]
    OBVIOUS
  <2>2. Draws(f)
    BY <1>2, <1>5, <2>1 DEF BookingAnswered
  <2>3. f = [wish |-> form.wish, starts |-> form.starts, startsOf |-> form.startsOf,
             submitting |-> FALSE, pending |-> "booking", gone |-> form.gone,
             panel |-> form.panel, post |-> form.post, waitlist |-> form.waitlist]
    BY <1>3, <2>1
  <2>4. FormShape(f)
    BY <1>3, <2>3 DEF FormShape
  <2>5. /\ f.panel = form.panel /\ f.post = form.post /\ f.waitlist = form.waitlist
        /\ f.wish = form.wish \/ f.wish = DayOf(form.wish)
        /\ f.starts \subseteq form.starts /\ f.startsOf = form.startsOf
        /\ f.pending = form.pending \/ f.pending = "booking"
    BY <2>3
  <2> QED
    BY <1>1, <2>2, <2>4, <2>5, AnswerDrawn
<1>6. CASE a = "conflict"
  <2>1. PICK f : f = [settled EXCEPT !.wish.time = 0, !.starts = @ \ {bookCall[k]}]
    OBVIOUS
  <2>2. Draws(f)
    BY <1>2, <1>6, <2>1 DEF BookingAnswered
  <2>3. PICK starts : starts = form.starts \ {bookCall[k]}
    OBVIOUS
  <2>4. PICK wish : wish = [form.wish EXCEPT !.time = 0]
    OBVIOUS
  <2>5. wish = DayOf(form.wish) /\ WishShape(wish)
    BY <1>3, <2>4, SameDay DEF FormShape, DayOf, WishShape
  <2>6. PICK f1 : f1 = [settled EXCEPT !.wish.time = 0]
    OBVIOUS
  <2>7. f1 = [settled EXCEPT !.wish = wish]
    BY <1>3, <2>4, <2>6
  <2>8. f1 = [wish |-> wish, starts |-> form.starts, startsOf |-> form.startsOf,
             submitting |-> FALSE, pending |-> form.pending, gone |-> form.gone,
             panel |-> form.panel, post |-> form.post, waitlist |-> form.waitlist]
    BY <1>3, <2>7
  <2>9. f = [f1 EXCEPT !.starts = @ \ {bookCall[k]}]
    BY <2>1, <2>6
  <2>10. f = [f1 EXCEPT !.starts = starts]
    BY <2>3, <2>8, <2>9
  <2>11. f = [wish |-> wish, starts |-> starts, startsOf |-> form.startsOf,
             submitting |-> FALSE, pending |-> form.pending, gone |-> form.gone,
             panel |-> form.panel, post |-> form.post, waitlist |-> form.waitlist]
    BY <2>8, <2>10
  <2>12. FormShape(f)
    BY <2>5, <2>11 DEF FormShape
  <2>13. /\ f.panel = form.panel /\ f.post = form.post /\ f.waitlist = form.waitlist
         /\ f.wish = form.wish \/ f.wish = DayOf(form.wish)
         /\ f.starts \subseteq form.starts /\ f.startsOf = form.startsOf
         /\ f.pending = form.pending \/ f.pending = "booking"
    BY <2>3, <2>5, <2>11
  <2> QED
    BY <1>1, <2>2, <2>12, <2>13, AnswerDrawn
<1>7. CASE a = "error"
  <2>1. Draws(settled)
    BY <1>2, <1>7 DEF BookingAnswered
  <2>2. FormShape(settled)
    BY <1>3 DEF FormShape
  <2>3. /\ settled.panel = form.panel /\ settled.post = form.post /\ settled.waitlist = form.waitlist
        /\ settled.wish = form.wish \/ settled.wish = DayOf(form.wish)
        /\ settled.starts \subseteq form.starts /\ settled.startsOf = form.startsOf
        /\ settled.pending = form.pending \/ settled.pending = "booking"
    BY <1>3
  <2> QED
    BY <1>1, <2>1, <2>2, <2>3, AnswerDrawn
<1> QED
  BY <1>4, <1>5, <1>6, <1>7

---------------------------------------------------------------------------
(***************************************************************************)
(* BookingForm: the waitlist and the codes.                                 *)
(***************************************************************************)
LEMMA DialogDrawn ==
    ASSUME BookingFormInv, FetchesKept, UNCHANGED <<bookCall, codeCall>>,
           NEW f, FormShape(f), Draws(f),
           f.panel = form.panel /\ f.post = form.post /\ f.submitting = form.submitting,
           f.wish = form.wish /\ f.starts = form.starts /\ f.startsOf = form.startsOf,
           f.waitlist # "closed" => f.wish.time = 0,
           f.pending \in {"none", "waitlist", form.pending}
    PROVE  BookingFormInv'
<1>1. PanelRight(form) /\ TimesRight(form, slotCall, lateAnswer) /\ lateAnswer \in BOOLEAN
  BY DEF BookingFormInv
<1>2. leftPanel \/ BookedOnce(f, bookCall')
  BY DEF BookingFormInv, PostsRight, BookedOnce
<1>3. ASSUME form.panel = "confirming", HasPanel(f)
      PROVE  f.pending = form.pending
  <2>1. HasPanel(form)
    BY <1>1, <1>3 DEF PanelRight
  <2>2. SUFFICES ASSUME f.pending = "waitlist", form.pending = "booking" PROVE FALSE
    BY <1>3, <2>1 DEF HasPanel
  <2>3. f.waitlist = "open"
    BY <1>3, <2>2 DEF HasPanel
  <2>4. StepOf(form.wish) = 5
    BY <2>1, <2>2 DEF HasPanel
  <2>5. form.wish.time # 0
    BY <2>4, ContactsLast
  <2> QED
    BY <2>3, <2>5
<1>4. TimesRight(f, slotCall, lateAnswer)
  BY <1>1 DEF TimesRight
<1>5. UNCHANGED <<slotCall, dayWanted, lateAnswer>>
  BY DEF FetchesKept
<1>6. TimesRight(f, slotCall', lateAnswer') /\ lateAnswer' \in BOOLEAN
      /\ (dayWanted' # 0 => f.wish.day = dayWanted')
  BY <1>1, <1>4, <1>5 DEF BookingFormInv
<1>7. bookCall' = [p \in Posts |-> bookCall'[p]]
  BY DEF BookingFormInv
<1>8. (form.panel = "confirming" /\ HasPanel(f)) => (leftPanel \/ f.pending = form.pending)
  BY <1>3
<1> QED
  BY <1>2, <1>6, <1>7, <1>8, FormDrawn

LEMMA OpenWaitlistKeeps == ASSUME BookingFormInv, OpenWaitlist PROVE BookingFormInv'
<1>1. PICK f : f = [form EXCEPT !.waitlist = "open", !.pending = "none"]
  OBVIOUS
<1>2. f = [wish |-> form.wish, starts |-> form.starts, startsOf |-> form.startsOf,
           submitting |-> form.submitting, pending |-> "none", gone |-> form.gone,
           panel |-> form.panel, post |-> form.post, waitlist |-> "open"]
      /\ FormShape(form)
  BY <1>1 DEF BookingFormInv, FormShape
<1>3. FormShape(f)
  BY <1>2 DEF FormShape
<1>4. f.wish.time = 0
  <2>1. StepOf(form.wish) # 5
    BY DEF OpenWaitlist, Step
  <2> QED
    BY <1>2, <2>1, OnContacts
<1>5. Draws(f) /\ FetchesKept /\ UNCHANGED <<bookCall, codeCall>>
  BY <1>1 DEF OpenWaitlist, PostsKept
<1>6. f.panel = form.panel /\ f.post = form.post /\ f.submitting = form.submitting
      /\ f.wish = form.wish /\ f.starts = form.starts /\ f.startsOf = form.startsOf
      /\ f.pending \in {"none", "waitlist", form.pending}
  BY <1>2
<1> QED
  BY <1>3, <1>4, <1>5, <1>6, DialogDrawn

LEMMA CloseWaitlistKeeps == ASSUME BookingFormInv, CloseWaitlist PROVE BookingFormInv'
<1>1. PICK f : f = [form EXCEPT !.waitlist = "closed"]
  OBVIOUS
<1>2. f = [wish |-> form.wish, starts |-> form.starts, startsOf |-> form.startsOf,
           submitting |-> form.submitting, pending |-> form.pending, gone |-> form.gone,
           panel |-> form.panel, post |-> form.post, waitlist |-> "closed"]
      /\ FormShape(form)
  BY <1>1 DEF BookingFormInv, FormShape
<1>3. FormShape(f)
  BY <1>2 DEF FormShape
<1>4. Draws(f) /\ FetchesKept /\ UNCHANGED <<bookCall, codeCall>>
  BY <1>1 DEF CloseWaitlist, PostsKept
<1>5. f.panel = form.panel /\ f.post = form.post /\ f.submitting = form.submitting
      /\ f.wish = form.wish /\ f.starts = form.starts /\ f.startsOf = form.startsOf
      /\ f.waitlist = "closed" /\ f.pending \in {"none", "waitlist", form.pending}
  BY <1>2
<1> QED
  BY <1>3, <1>4, <1>5, DialogDrawn

LEMMA WaitlistAnsweredKeeps ==
    ASSUME BookingFormInv, NEW a \in {"joined", "verify", "error"}, WaitlistAnswered(a)
    PROVE  BookingFormInv'
<1>1. FetchesKept /\ UNCHANGED <<bookCall, codeCall>> /\ FormShape(form)
      /\ (form.waitlist # "closed" => form.wish.time = 0)
  BY DEF WaitlistAnswered, BookingFormInv, PanelRight
<1>2. CASE a = "joined"
  <2>1. PICK waitlist : waitlist = IF form.waitlist = "open" THEN "done" ELSE form.waitlist
    OBVIOUS
  <2>2. PICK f : f = [form EXCEPT !.pending = "none", !.waitlist = IF @ = "open" THEN "done" ELSE @]
    OBVIOUS
  <2>3. PICK f1 : f1 = [form EXCEPT !.pending = "none"]
    OBVIOUS
  <2>4. f1 = [wish |-> form.wish, starts |-> form.starts, startsOf |-> form.startsOf,
              submitting |-> form.submitting, pending |-> "none", gone |-> form.gone,
              panel |-> form.panel, post |-> form.post, waitlist |-> form.waitlist]
    BY <1>1, <2>3 DEF FormShape
  <2>5. f = [f1 EXCEPT !.waitlist = IF @ = "open" THEN "done" ELSE @]
    BY <2>2, <2>3
  <2>6. f = [f1 EXCEPT !.waitlist = waitlist]
    BY <2>1, <2>4, <2>5
  <2>7. f = [wish |-> form.wish, starts |-> form.starts, startsOf |-> form.startsOf,
             submitting |-> form.submitting, pending |-> "none", gone |-> form.gone,
             panel |-> form.panel, post |-> form.post, waitlist |-> waitlist]
    BY <2>4, <2>6
  <2>8. FormShape(f)
    BY <1>1, <2>7 DEF FormShape
  <2>9. Draws(f)
    BY <1>2, <2>2 DEF WaitlistAnswered
  <2>10. f.panel = form.panel /\ f.post = form.post /\ f.submitting = form.submitting
         /\ f.wish = form.wish /\ f.starts = form.starts /\ f.startsOf = form.startsOf
         /\ (f.waitlist # "closed" => f.wish.time = 0)
         /\ f.pending \in {"none", "waitlist", form.pending}
    BY <1>1, <2>1, <2>7
  <2> QED
    BY <1>1, <2>8, <2>9, <2>10, DialogDrawn
<1>3. CASE a = "verify"
  <2>1. PICK f : f = [form EXCEPT !.pending = "waitlist"]
    OBVIOUS
  <2>2. f = [wish |-> form.wish, starts |-> form.starts, startsOf |-> form.startsOf,
             submitting |-> form.submitting, pending |-> "waitlist", gone |-> form.gone,
             panel |-> form.panel, post |-> form.post, waitlist |-> form.waitlist]
    BY <1>1, <2>1 DEF FormShape
  <2>3. FormShape(f)
    BY <1>1, <2>2 DEF FormShape
  <2>4. Draws(f)
    BY <1>3, <2>1 DEF WaitlistAnswered
  <2>5. f.panel = form.panel /\ f.post = form.post /\ f.submitting = form.submitting
        /\ f.wish = form.wish /\ f.starts = form.starts /\ f.startsOf = form.startsOf
        /\ (f.waitlist # "closed" => f.wish.time = 0)
        /\ f.pending \in {"none", "waitlist", form.pending}
    BY <1>1, <2>2
  <2> QED
    BY <1>1, <2>3, <2>4, <2>5, DialogDrawn
<1>4. CASE a = "error"
  <2>1. PICK f : f = form
    OBVIOUS
  <2>2. FormShape(f) /\ Draws(f)
    BY <1>1, <1>4, <2>1 DEF WaitlistAnswered
  <2>3. f.panel = form.panel /\ f.post = form.post /\ f.submitting = form.submitting
        /\ f.wish = form.wish /\ f.starts = form.starts /\ f.startsOf = form.startsOf
        /\ (f.waitlist # "closed" => f.wish.time = 0)
        /\ f.pending \in {"none", "waitlist", form.pending}
    BY <1>1, <2>1
  <2> QED
    BY <1>1, <2>2, <2>3, DialogDrawn
<1> QED
  BY <1>2, <1>3, <1>4

LEMMA CodeSentKeeps == ASSUME BookingFormInv, CodeSent PROVE BookingFormInv'
<1>1. PICK f : f = [form EXCEPT !.panel = "ready"]
  OBVIOUS
<1>2. f = [wish |-> form.wish, starts |-> form.starts, startsOf |-> form.startsOf,
           submitting |-> form.submitting, pending |-> form.pending, gone |-> form.gone,
           panel |-> "ready", post |-> form.post, waitlist |-> form.waitlist]
      /\ FormShape(form)
  BY <1>1 DEF BookingFormInv, FormShape
<1>3. FormShape(f)
  BY <1>2 DEF FormShape
<1>4. form' = f /\ FetchesKept /\ UNCHANGED <<bookCall, codeCall, leftPanel>> /\ form.panel = "sending"
  BY <1>1 DEF CodeSent, PostsKept
<1>5. PanelRight(f)
  BY <1>2, <1>4 DEF BookingFormInv, PanelRight, HasPanel
<1>6. PostsRight(f, bookCall', codeCall', leftPanel') /\ leftPanel' \in BOOLEAN
  BY <1>2, <1>4 DEF BookingFormInv, PostsRight, BookedOnce, OneCode
<1>7. bookCall' = [p \in Posts |-> bookCall'[p]] /\ codeCall' = [p \in Posts |-> codeCall'[p]]
  BY <1>4 DEF BookingFormInv
<1>8. f.wish = form.wish /\ f.starts = form.starts /\ f.startsOf = form.startsOf
  BY <1>2
<1> QED
  BY <1>3, <1>4, <1>5, <1>6, <1>7, <1>8, PostStep

LEMMA EnterCodeKeeps ==
    ASSUME BookingFormInv, NEW k \in Posts, EnterCode(k)
    PROVE  BookingFormInv'
<1>1. PICK f : f = [form EXCEPT !.panel = "confirming", !.post = k]
  OBVIOUS
<1>2. f = [wish |-> form.wish, starts |-> form.starts, startsOf |-> form.startsOf,
           submitting |-> form.submitting, pending |-> form.pending, gone |-> form.gone,
           panel |-> "confirming", post |-> k, waitlist |-> form.waitlist]
      /\ FormShape(form)
  BY <1>1 DEF BookingFormInv, FormShape
<1>3. FormShape(f)
  BY <1>2 DEF FormShape
<1>4. form' = f /\ FetchesKept /\ UNCHANGED <<bookCall, leftPanel>> /\ form.panel = "ready"
  BY <1>1 DEF EnterCode
<1>5. PICK code : code = [for |-> form.pending,
                          time |-> IF form.pending = "booking" THEN form.wish.time ELSE 0]
  OBVIOUS
<1>6. codeCall' = [p \in Posts |-> IF p = k THEN code ELSE codeCall[p]] /\ code.for = form.pending
  BY <1>5 DEF EnterCode, BookingFormInv
<1>7. PanelRight(f)
  BY <1>2, <1>4 DEF BookingFormInv, PanelRight, HasPanel
<1>8. ASSUME BookedOnce(form, bookCall), OneCode(form, codeCall)
      PROVE  BookedOnce(f, bookCall') /\ OneCode(f, codeCall')
  <2>1. \A p \in Posts : codeCall[p].for = "none"
    BY <1>4, <1>8 DEF OneCode
  <2>2. \A p \in Posts : codeCall'[p].for # "none" => p = k /\ codeCall'[p].for = form.pending
    BY <1>6, <2>1
  <2>3. OneCode(f, codeCall')
    BY <1>2, <2>2 DEF OneCode
  <2>4. BookedOnce(f, bookCall')
    BY <1>2, <1>4, <1>8 DEF BookedOnce
  <2> QED
    BY <2>3, <2>4
<1>9. PostsRight(f, bookCall', codeCall', leftPanel') /\ leftPanel' \in BOOLEAN
  BY <1>4, <1>8 DEF BookingFormInv, PostsRight
<1>10. bookCall' = [p \in Posts |-> bookCall'[p]] /\ codeCall' = [p \in Posts |-> codeCall'[p]]
  BY <1>4, <1>6 DEF BookingFormInv
<1>11. f.wish = form.wish /\ f.starts = form.starts /\ f.startsOf = form.startsOf
  BY <1>2
<1> QED
  BY <1>3, <1>4, <1>7, <1>9, <1>10, <1>11, PostStep

LEMMA CodeRefusedKeeps ==
    ASSUME BookingFormInv, NEW k \in Posts, CodeRefused(k)
    PROVE  BookingFormInv'
<1>1. FetchesKept /\ UNCHANGED <<bookCall, leftPanel>> /\ codeCall[k].for # "none" /\ FormShape(form)
  BY DEF CodeRefused, BookingFormInv
<1>2. PICK none : none = [for |-> "none", time |-> 0]
  OBVIOUS
<1>3. codeCall' = [p \in Posts |-> IF p = k THEN none ELSE codeCall[p]] /\ none.for = "none"
  BY <1>2 DEF CodeRefused, BookingFormInv
<1>4. PICK f : f = form'
  OBVIOUS
<1>5. CASE form.post = k
  <2>1. f = [form EXCEPT !.panel = "ready", !.post = 0]
    BY <1>4, <1>5 DEF CodeRefused
  <2>2. f = [wish |-> form.wish, starts |-> form.starts, startsOf |-> form.startsOf,
             submitting |-> form.submitting, pending |-> form.pending, gone |-> form.gone,
             panel |-> "ready", post |-> 0, waitlist |-> form.waitlist]
    BY <1>1, <2>1 DEF FormShape
  <2>3. FormShape(f)
    BY <1>1, <2>2 DEF FormShape
  <2>4. form.post # 0
    BY <1>5, BookingFormAssumption
  <2>5. PanelRight(f)
    BY <2>2, <2>4 DEF BookingFormInv, PanelRight, HasPanel
  <2>6. ASSUME BookedOnce(form, bookCall), OneCode(form, codeCall)
        PROVE  BookedOnce(f, bookCall') /\ OneCode(f, codeCall')
    <3>1. \A p \in Posts : codeCall'[p].for = "none"
      BY <1>3, <1>5, <2>6 DEF OneCode
    <3>2. OneCode(f, codeCall')
      BY <3>1 DEF OneCode
    <3>3. BookedOnce(f, bookCall')
      BY <1>1, <2>2, <2>6 DEF BookedOnce
    <3> QED
      BY <3>2, <3>3
  <2>7. PostsRight(f, bookCall', codeCall', leftPanel') /\ leftPanel' \in BOOLEAN
    BY <1>1, <2>6 DEF BookingFormInv, PostsRight
  <2>8. bookCall' = [p \in Posts |-> bookCall'[p]] /\ codeCall' = [p \in Posts |-> codeCall'[p]]
    BY <1>1, <1>3 DEF BookingFormInv
  <2>9. f.wish = form.wish /\ f.starts = form.starts /\ f.startsOf = form.startsOf
    BY <2>2
  <2> QED
    BY <1>1, <1>4, <2>3, <2>5, <2>7, <2>8, <2>9, PostStep
<1>6. CASE form.post # k
  <2>1. f = form
    BY <1>4, <1>6 DEF CodeRefused
  <2>2. FormShape(f) /\ PanelRight(f)
    BY <2>1 DEF BookingFormInv
  <2>3. leftPanel
    <3>1. ~ OneCode(form, codeCall)
      BY <1>1, <1>6 DEF OneCode
    <3> QED
      BY <3>1 DEF BookingFormInv, PostsRight
  <2>4. PostsRight(f, bookCall', codeCall', leftPanel') /\ leftPanel' \in BOOLEAN
    BY <1>1, <2>3 DEF BookingFormInv, PostsRight
  <2>5. bookCall' = [p \in Posts |-> bookCall'[p]] /\ codeCall' = [p \in Posts |-> codeCall'[p]]
    BY <1>1, <1>3 DEF BookingFormInv
  <2>6. f.wish = form.wish /\ f.starts = form.starts /\ f.startsOf = form.startsOf
    BY <2>1
  <2> QED
    BY <1>1, <1>4, <2>2, <2>4, <2>5, <2>6, PostStep
<1> QED
  BY <1>5, <1>6

(* The code confirmed, the panel goes and what it was asked for is posted   *)
LEMMA CodeConfirmedKeeps ==
    ASSUME BookingFormInv, NEW k \in Posts, NEW p \in Posts, CodeConfirmed(k, p)
    PROVE  BookingFormInv'
<1>1. FetchesKept /\ UNCHANGED leftPanel /\ codeCall[k].for # "none" /\ FormShape(form)
  BY DEF CodeConfirmed, BookingFormInv
<1>2. PICK none : none = [for |-> "none", time |-> 0]
  OBVIOUS
<1>3. codeCall' = [q \in Posts |-> IF q = k THEN none ELSE codeCall[q]] /\ none.for = "none"
  BY <1>2 DEF CodeConfirmed, BookingFormInv
<1>4. ASSUME ~ leftPanel
      PROVE  /\ \A q \in Posts : codeCall'[q].for = "none"
             /\ codeCall[k].for = form.pending /\ BookedOnce(form, bookCall)
  <2>1. OneCode(form, codeCall) /\ BookedOnce(form, bookCall)
    BY <1>4 DEF BookingFormInv, PostsRight
  <2> QED
    BY <1>1, <1>3, <2>1 DEF OneCode
<1>5. codeCall' = [q \in Posts |-> codeCall'[q]]
  BY <1>3
<1>6. PICK r : r = form'
  OBVIOUS
<1>7. ASSUME NEW f, r = Rendered(f), FormShape(f), f.wish = form.wish, f.starts = form.starts,
             f.startsOf = form.startsOf, f.pending = "none", f.waitlist = form.waitlist,
             bookCall' = [q \in Posts |-> bookCall'[q]],
             leftPanel \/ BookedOnce(f, bookCall')
      PROVE  BookingFormInv'
  <2>1. ~ HasPanel(f)
    BY <1>7 DEF HasPanel
  <2>2. /\ FormShape(r) /\ r.wish = f.wish /\ r.starts = f.starts /\ r.startsOf = f.startsOf
        /\ r.submitting = f.submitting /\ r.pending = f.pending /\ r.waitlist = f.waitlist
        /\ r.panel = "off" /\ r.post = 0
    BY <1>7, <2>1, RenderedIs
  <2>3. f.waitlist # "closed" => f.wish.time = 0
    BY <1>7 DEF BookingFormInv, PanelRight
  <2>4. PanelRight(r)
    BY <2>2, <2>3 DEF PanelRight
  <2>5. PostsRight(r, bookCall', codeCall', leftPanel') /\ leftPanel' \in BOOLEAN
    BY <1>1, <1>4, <1>7, <2>2 DEF BookingFormInv, PostsRight, BookedOnce, OneCode
  <2>6. r.wish = form.wish /\ r.starts = form.starts /\ r.startsOf = form.startsOf
    BY <1>7, <2>2
  <2> QED
    BY <1>1, <1>5, <1>6, <1>7, <2>2, <2>4, <2>5, <2>6, PostStep
<1>9. CASE codeCall[k].for = "booking"
  <2>1. PICK f : f = [form EXCEPT !.pending = "none", !.submitting = TRUE]
    OBVIOUS
  <2>2. f = [wish |-> form.wish, starts |-> form.starts, startsOf |-> form.startsOf,
             submitting |-> TRUE, pending |-> "none", gone |-> form.gone,
             panel |-> form.panel, post |-> form.post, waitlist |-> form.waitlist]
    BY <1>1, <2>1 DEF FormShape
  <2>3. FormShape(f)
    BY <1>1, <2>2 DEF FormShape
  <2>4. r = Rendered(f) /\ bookCall' = [bookCall EXCEPT ![p] = codeCall[k].time]
    BY <1>6, <1>9, <2>1 DEF CodeConfirmed, SendsBooking
  <2>5. bookCall' = [q \in Posts |-> IF q = p THEN codeCall[k].time ELSE bookCall[q]]
    BY <2>4 DEF BookingFormInv
  <2>6. ASSUME ~ leftPanel PROVE BookedOnce(f, bookCall')
    <3>1. \A q \in Posts : bookCall[q] = 0
      BY <1>4, <1>9, <2>6 DEF BookedOnce
    <3>2. \A q \in Posts : bookCall'[q] # 0 => q = p
      BY <2>5, <3>1
    <3> QED
      BY <2>2, <3>2 DEF BookedOnce
  <2>7. leftPanel \/ BookedOnce(f, bookCall')
    BY <2>6
  <2>8. f.wish = form.wish /\ f.starts = form.starts /\ f.startsOf = form.startsOf
        /\ f.pending = "none" /\ f.waitlist = form.waitlist
    BY <2>2
  <2>9. bookCall' = [q \in Posts |-> bookCall'[q]]
    BY <2>5
  <2> QED
    BY <1>7, <2>3, <2>4, <2>7, <2>8, <2>9
<1>10. CASE codeCall[k].for # "booking"
  <2>1. PICK f : f = [form EXCEPT !.pending = "none"]
    OBVIOUS
  <2>2. f = [wish |-> form.wish, starts |-> form.starts, startsOf |-> form.startsOf,
             submitting |-> form.submitting, pending |-> "none", gone |-> form.gone,
             panel |-> form.panel, post |-> form.post, waitlist |-> form.waitlist]
    BY <1>1, <2>1 DEF FormShape
  <2>3. FormShape(f)
    BY <1>1, <2>2 DEF FormShape
  <2>4. r = Rendered(f) /\ UNCHANGED bookCall
    BY <1>6, <1>10, <2>1 DEF CodeConfirmed
  <2>5. leftPanel \/ BookedOnce(f, bookCall')
    <3>1. ASSUME ~ leftPanel PROVE BookedOnce(f, bookCall')
      BY <1>4, <2>2, <2>4, <3>1 DEF BookedOnce
    <3> QED
      BY <3>1
  <2>6. f.wish = form.wish /\ f.starts = form.starts /\ f.startsOf = form.startsOf
        /\ f.pending = "none" /\ f.waitlist = form.waitlist
    BY <2>2
  <2>7. bookCall' = [q \in Posts |-> bookCall'[q]]
    BY <2>4 DEF BookingFormInv
  <2> QED
    BY <1>7, <2>3, <2>4, <2>5, <2>6, <2>7
<1> QED
  BY <1>9, <1>10

LEMMA BookingFormStep == BookingFormInv /\ [BookingFormNext]_formVars => BookingFormInv'
<1> SUFFICES ASSUME BookingFormInv, [BookingFormNext]_formVars PROVE BookingFormInv'
  OBVIOUS
<1>1. ASSUME NEW v, ChoosePart(v) PROVE BookingFormInv'
  BY <1>1, ChoosePartKeeps
<1>2. ASSUME NEW d, PickDay(d) \/ StripAnswered(d) PROVE BookingFormInv'
  BY <1>2, PickDayKeeps, StripKeeps
<1>3. ASSUME GoBack \/ SlotsArrive PROVE BookingFormInv'
  BY <1>3, GoBackKeeps, ArrivalKeeps
<1>4. ASSUME NEW starts, SlotsAnswered(starts) PROVE BookingFormInv'
  BY <1>4, AnswerShown
<1>5. ASSUME NEW time, PickTime(time) PROVE BookingFormInv'
  BY <1>5, PickTimeKeeps
<1>6. ASSUME NEW k \in Posts, SubmitBooking(k) \/ EnterCode(k) \/ CodeRefused(k)
      PROVE  BookingFormInv'
  BY <1>6, SubmitBookingKeeps, EnterCodeKeeps, CodeRefusedKeeps
<1>7. ASSUME NEW k \in Posts, NEW a \in {"created", "verify", "conflict", "error"},
             BookingAnswered(k, a)
      PROVE  BookingFormInv'
  BY <1>7, BookingAnsweredKeeps
<1>8. ASSUME NEW k \in Posts, NEW p \in Posts, CodeConfirmed(k, p) PROVE BookingFormInv'
  BY <1>8, CodeConfirmedKeeps
<1>9. ASSUME OpenWaitlist \/ CloseWaitlist \/ CodeSent PROVE BookingFormInv'
  BY <1>9, OpenWaitlistKeeps, CloseWaitlistKeeps, CodeSentKeeps
<1>10. ASSUME SubmitWaitlist PROVE BookingFormInv'
  BY <1>10, NothingDrawn DEF SubmitWaitlist, FetchesKept
<1>11. ASSUME NEW a \in {"joined", "verify", "error"}, WaitlistAnswered(a) PROVE BookingFormInv'
  BY <1>11, WaitlistAnsweredKeeps
<1>12. CASE UNCHANGED formVars
  BY <1>12, NothingDrawn DEF formVars
<1> QED
  BY <1>1, <1>2, <1>3, <1>4, <1>5, <1>6, <1>7, <1>8, <1>9, <1>10, <1>11, <1>12, ZenonT(60)
     DEF BookingFormNext

(* In whatever order answers come and however often the customer goes back,  *)
(* the times shown are those of the chosen day, the strip moves nobody off   *)
(* it, and one booking is on its way, with the two exceptions that the       *)
(* property names.                                                           *)
THEOREM FormIsTrue == BookingFormSpec => []FormKeepsItsChoice
<1>1. BookingFormInit => BookingFormInv
  BY FormStarts
<1>2. BookingFormInv /\ [BookingFormNext]_formVars => BookingFormInv'
  BY BookingFormStep
<1>3. BookingFormInv => FormKeepsItsChoice
  <2> SUFFICES ASSUME BookingFormInv PROVE FormKeepsItsChoice
    OBVIOUS
  <2>1. [form.wish EXCEPT !.time = 0] = DayOf(form.wish)
    BY SameDay DEF BookingFormInv, FormShape
  <2>2. form.starts # {} => lateAnswer \/ form.startsOf = DayOf(form.wish)
    BY DEF BookingFormInv, TimesRight
  <2>3. dayWanted # 0 => form.wish.day = dayWanted
    BY DEF BookingFormInv
  <2>4. leftPanel \/ \A k, p \in Posts : bookCall[k] # 0 /\ bookCall[p] # 0 => k = p
    BY DEF BookingFormInv, PostsRight, BookedOnce
  <2> QED
    BY <2>1, <2>2, <2>3, <2>4 DEF FormKeepsItsChoice
<1> QED
  BY <1>1, <1>2, <1>3, PTL DEF BookingFormSpec

---------------------------------------------------------------------------
(***************************************************************************)
(* Types.  What the invariants above leave open: the bounds that the guards *)
(* keep, the histories, and what a row carries while it has a meaning.      *)
(***************************************************************************)

(* The calendar's rows, the visit that is dragged or dropped, and the loads *)
(* of the page (use-calendar-drag.ts) keep their types.                     *)
THEOREM CalendarBoardTyped == CalendarBoardSpec => []CalendarBoardTypeOK
<1>1. CalendarBoardInv => CalendarBoardTypeOK
  BY DEF CalendarBoardInv
<1> QED
  BY <1>1, BoardStarts, BoardSteps, PTL DEF CalendarBoardSpec

VisitRows == [live : BOOLEAN, start : Hours, moves : 0 .. MoveLimit]
SmsRows == [phone : Phones, status : {"PENDING", "EXPIRED", "CONSUMED"}]
LoginRows == [phone : Phones \cup {NoNumber}, id : Nat, busy : {"no", "confirm"}]

(* What a page shows and posts, and where the tab that moves a visit stands *)
PageOfRecords(page) ==
    /\ page.cancels \cup page.asking \subseteq Records /\ page.posted \subseteq Requests
    /\ \A link \in page.links : link.visit \in Records
TabOfRecords(tab) ==
    /\ tab.visit \in {NoRecord} \cup Records /\ tab.offered \in {NoTime} \cup Hours
    /\ tab.sent \subseteq Hours
    /\ (tab.offered # NoTime \/ tab.sent # {}) => tab.visit \in Records

CabinetLimits ==
    /\ hour \in 0 .. LastHour /\ record \in [Records -> VisitRows]
    /\ smsCode \in Seq(SmsRows) /\ login \in LoginRows /\ login.id \in 0 .. Len(smsCode)
    /\ login.busy = "confirm" => login.id # NoSms
    /\ cookie \in Phones \cup {NoNumber} /\ proven \subseteq Phones /\ touched \subseteq Records
    /\ PageOfRecords(list) /\ TabOfRecords(mover)

(* The page drawn for a number shows the visits there are.                  *)
LEMMA DrawnOfRecords ==
  ASSUME NEW page, NEW phone, NEW rows, page.posted \subseteq Requests
  PROVE  PageOfRecords(Refreshed(page, phone, rows))
<1> DEFINE open == {v \in {w \in Records : Holder[w] = phone /\ rows[w].live /\ rows[w].start >= hour} :
                      IsWithinChangeWindow(rows[v].start)}
           links == {LinkTo(v, rows) : v \in {w \in open : rows[w].moves < MoveLimit}}
           drawn == VisitsDrawn(phone, rows)
           next == Refreshed(page, phone, rows)
<1>1. open \subseteq Records /\ \A link \in links : link.visit \in Records
  BY DEF LinkTo
<1>2. drawn = [for |-> phone, cancels |-> open, links |-> links, asking |-> {}, posted |-> {}]
  <2>1. drawn = [SignedOutPage EXCEPT !.for = phone, !.cancels = open, !.links = links]
    BY DEF VisitsDrawn
  <2> HIDE DEF open, links, drawn
  <2> QED
    BY <2>1 DEF SignedOutPage
<1> HIDE DEF open, links
<1>3. next = [drawn EXCEPT !.asking = page.asking \cap drawn.cancels, !.posted = page.posted]
  BY DEF Refreshed
<1> HIDE DEF drawn, next
<1>4. /\ next.cancels = open /\ next.links = links /\ next.posted = page.posted
      /\ next.asking = page.asking \cap open
  BY <1>2, <1>3
<1>5. PageOfRecords(next)
  BY <1>1, <1>4 DEF PageOfRecords
<1> QED
  BY <1>5 DEF next

LEMMA CabinetLimitsStart == CabinetInit => CabinetLimits
<1> SUFFICES ASSUME CabinetInit PROVE CabinetLimits
  OBVIOUS
<1>1. LastHour - 1 \in Hours /\ LastHour \in Nat /\ MoveLimit \in Nat
  BY CabinetAssumption DEF Hours
<1>2. record \in [Records -> VisitRows]
  BY <1>1 DEF CabinetInit, VisitRows
<1>3. smsCode \in Seq(SmsRows) /\ Len(smsCode) = 0
  BY DEF CabinetInit
<1>4. login \in LoginRows /\ login.id = 0 /\ login.busy = "no"
  BY DEF CabinetInit, LoginRows, EmptyForm, NoSms
<1>5. PageOfRecords(list)
  BY DEF CabinetInit, PageOfRecords, SignedOutPage
<1>6. TabOfRecords(mover)
  BY DEF CabinetInit, TabOfRecords, NoMover, NoRecord, NoTime
<1>7. hour \in 0 .. LastHour /\ cookie = NoNumber /\ proven = {} /\ touched = {}
  BY <1>1 DEF CabinetInit
<1>8. login.id \in 0 .. Len(smsCode) /\ (login.busy = "confirm" => login.id # NoSms)
  BY <1>3, <1>4
<1> QED
  BY <1>2, <1>3, <1>4, <1>5, <1>6, <1>7, <1>8 DEF CabinetLimits

LEMMA CabinetLimitsNext ==
  ASSUME CabinetInv, CabinetLimits, [CabinetNext]_cabinetVars
  PROVE  CabinetLimits'
<1>1. /\ hour \in 0 .. LastHour /\ record \in [Records -> VisitRows]
      /\ smsCode \in Seq(SmsRows) /\ login \in LoginRows /\ login.id \in 0 .. Len(smsCode)
      /\ login.busy = "confirm" => login.id # NoSms
      /\ cookie \in Phones \cup {NoNumber} /\ proven \subseteq Phones /\ touched \subseteq Records
      /\ PageOfRecords(list) /\ TabOfRecords(mover)
      /\ list.posted \subseteq Requests /\ \A link \in list.links : link.visit \in Records
      /\ {LastHour, MoveLimit} \subseteq Nat
  BY CabinetAssumption DEF CabinetLimits, PageOfRecords
<1>2. /\ list = [for |-> list.for, cancels |-> list.cancels, links |-> list.links,
                 asking |-> list.asking, posted |-> list.posted]
      /\ mover = [visit |-> mover.visit, until |-> mover.until, offered |-> mover.offered,
                  sent |-> mover.sent]
  BY DEF CabinetInv, CabinetPages
<1>3. EmptyForm \in LoginRows /\ EmptyForm.id = 0 /\ EmptyForm.busy = "no"
  BY DEF EmptyForm, LoginRows, NoSms
<1>4. ASSUME NEW phone \in Phones \cup {NoNumber}, NEW rows, NEW page, page.posted = list.posted,
             list' = Refreshed(page, phone, rows)
      PROVE  PageOfRecords(list')
  BY <1>1, <1>4, DrawnOfRecords
<1>5. ASSUME NEW v \in Records, NEW row \in VisitRows PROVE [record EXCEPT ![v] = row] \in [Records -> VisitRows]
  BY <1>1
<1>6. ASSUME OpenMyVisits PROVE CabinetLimits'
  <2>1. [list EXCEPT !.asking = {}].posted = list.posted
    BY <1>2
  <2>2. PageOfRecords(list')
    BY <1>1, <1>4, <1>6, <2>1 DEF OpenMyVisits
  <2> QED
    BY <1>1, <1>3, <1>6, <2>2 DEF OpenMyVisits, HistoriesStay, CabinetLimits
<1>7. ASSUME SignOut PROVE CabinetLimits'
  <2>1. PageOfRecords(list')
    BY <1>4, <1>7 DEF SignOut
  <2> QED
    BY <1>1, <1>3, <1>7, <2>1 DEF SignOut, HistoriesStay, CabinetLimits
<1>8. ASSUME CookieGone \/ HourPasses PROVE CabinetLimits'
  BY <1>1, <1>8 DEF CookieGone, HourPasses, HistoriesStay, CabinetLimits, TabOfRecords, PageOfRecords
<1>9. ASSUME UNCHANGED <<hour, record, smsCode, cookie, list, mover, proven, touched>>,
             login' \in LoginRows, login'.id = login.id, login'.busy = "confirm" => login.id # NoSms
      PROVE  CabinetLimits'
  BY <1>1, <1>9 DEF CabinetLimits
<1>10. ASSUME NEW phone \in Phones, TypePhone(phone) PROVE CabinetLimits'
  <2>1. /\ login' = [login EXCEPT !.phone = phone] /\ login.busy = "no"
        /\ UNCHANGED <<hour, record, smsCode, cookie, list, mover, proven, touched>>
    BY <1>10 DEF TypePhone, FormShown, HistoriesStay
  <2>2. login' \in LoginRows /\ login'.id = login.id /\ login'.busy = "no"
    BY <1>1, <2>1 DEF LoginRows
  <2> QED
    BY <1>9, <2>1, <2>2
<1>11. ASSUME Confirm \/ LoginRefused PROVE CabinetLimits'
  <2>1. PICK busy \in {"no", "confirm"} :
          /\ login' = [login EXCEPT !.busy = busy] /\ (busy = "confirm" => login.id # NoSms)
          /\ UNCHANGED <<hour, record, smsCode, cookie, list, mover, proven, touched>>
    BY <1>11 DEF Confirm, LoginRefused, HistoriesStay
  <2>2. login' \in LoginRows /\ login'.id = login.id /\ login'.busy = busy
    BY <1>1, <2>1 DEF LoginRows
  <2> QED
    BY <1>9, <2>1, <2>2
<1>12. ASSUME NEW phone \in Phones, NEW status \in {"PENDING", "EXPIRED", "CONSUMED"}
       PROVE  /\ WithCode(phone, status) \in Seq(SmsRows)
              /\ Len(WithCode(phone, status)) = Len(smsCode) + 1
  <2> DEFINE closed(c) == IF smsCode[c] = [phone |-> phone, status |-> "PENDING"]
                            THEN [smsCode[c] EXCEPT !.status = "EXPIRED"] ELSE smsCode[c]
             older == [c \in DOMAIN smsCode |-> closed(c)]
             new == [phone |-> phone, status |-> status]
  <2>1. ASSUME NEW c \in DOMAIN smsCode PROVE closed(c) \in SmsRows
    <3>1. smsCode[c] \in SmsRows
      BY <1>1
    <3> QED
      BY <3>1 DEF SmsRows
  <2>2. new \in SmsRows
    BY DEF SmsRows
  <2>3. WithCode(phone, status) = Append(older, new)
    BY DEF WithCode
  <2> HIDE DEF closed, new
  <2>4. older \in [1 .. Len(smsCode) -> SmsRows] /\ Len(smsCode) \in Nat
    BY <1>1, <2>1
  <2> HIDE DEF older
  <2>5. older \in Seq(SmsRows) /\ Len(older) = Len(smsCode)
    BY <2>4
  <2> QED
    BY <2>2, <2>3, <2>5
<1>13. ASSUME SendCode PROVE CabinetLimits'
  <2>1. /\ login.phone \in Phones /\ login.busy = "no"
        /\ UNCHANGED <<hour, record, cookie, list, mover, proven, touched>>
    BY <1>1, <1>13 DEF SendCode, FormShown, HistoriesStay, LoginRows
  <2>2. smsCode' \in Seq(SmsRows) /\ Len(smsCode') = Len(smsCode) + 1
    BY <1>12, <1>13, <2>1 DEF SendCode
  <2>3. login' = login \/ login' = [login EXCEPT !.id = Len(smsCode')]
    BY <1>13 DEF SendCode
  <2>4. login' \in LoginRows /\ login'.id \in 0 .. Len(smsCode') /\ login'.busy = "no"
    BY <1>1, <2>1, <2>2, <2>3 DEF LoginRows
  <2> QED
    BY <1>1, <2>1, <2>2, <2>4 DEF CabinetLimits
<1>14. ASSUME VerifyLogin PROVE CabinetLimits'
  <2> DEFINE id == login.id
             row == [smsCode[id] EXCEPT !.status = "CONSUMED"]
  <2>1. id \in 1 .. Len(smsCode) /\ smsCode[id] \in SmsRows
    BY <1>1, <1>14 DEF VerifyLogin, NoSms
  <2>2. smsCode[id].phone \in Phones /\ login.phone = smsCode[id].phone
    BY <1>14, <2>1 DEF VerifyLogin, CodeFits, SmsRows
  <2>3. row \in SmsRows
    BY <2>1 DEF SmsRows
  <2>4. /\ smsCode' = [smsCode EXCEPT ![id] = row] /\ cookie' = login.phone
        /\ proven' = proven \cup {smsCode[id].phone} /\ login' = EmptyForm
        /\ list' = Refreshed(list, cookie', record) /\ UNCHANGED <<hour, record, mover, touched>>
    BY <1>14 DEF VerifyLogin
  <2> HIDE DEF id, row
  <2>5. smsCode' \in Seq(SmsRows) /\ Len(smsCode') \in Nat
    BY <1>1, <2>1, <2>3, <2>4
  <2>6. PageOfRecords(list')
    BY <1>4, <2>2, <2>4
  <2> QED
    BY <1>1, <1>3, <2>2, <2>4, <2>5, <2>6 DEF CabinetLimits
<1>15. ASSUME UNCHANGED <<hour, record, smsCode, cookie, login, mover, proven, touched>>,
              NEW asks \in SUBSET Records, NEW posts \in SUBSET Requests,
              list' = [list EXCEPT !.asking = asks, !.posted = posts]
       PROVE  CabinetLimits'
  <2>1. /\ list'.asking = asks /\ list'.posted = posts /\ list'.cancels = list.cancels
        /\ list'.links = list.links
    BY <1>2, <1>15
  <2>2. PageOfRecords(list')
    BY <1>1, <2>1 DEF PageOfRecords
  <2> QED
    BY <1>1, <1>15, <2>2 DEF CabinetLimits
<1>16. list.asking \subseteq Records
  BY <1>1 DEF PageOfRecords
<1>17. ASSUME NEW v \in Records, AskToCancel(v) PROVE CabinetLimits'
  <2>1. list' = [list EXCEPT !.asking = list.asking \cup {v}, !.posted = list.posted]
    BY <1>2, <1>17 DEF AskToCancel
  <2> QED
    BY <1>1, <1>15, <1>16, <1>17, <2>1, ZenonT(30) DEF AskToCancel, HistoriesStay
<1>18. ASSUME NEW v \in Records, Keep(v) PROVE CabinetLimits'
  <2>1. list' = [list EXCEPT !.asking = list.asking \ {v}, !.posted = list.posted]
    BY <1>2, <1>18 DEF Keep
  <2> QED
    BY <1>1, <1>15, <1>16, <1>18, <2>1 DEF Keep, HistoriesStay
<1>19. ASSUME NEW v \in Records, PostCancel(v) PROVE CabinetLimits'
  <2> DEFINE request == [visit |-> v, as |-> cookie]
  <2>1. request \in Requests
    BY <1>1 DEF Requests
  <2>2. list' = [list EXCEPT !.asking = list.asking, !.posted = list.posted \cup {request}]
    BY <1>2, <1>19 DEF PostCancel
  <2>3. list.posted \cup {request} \in SUBSET Requests
    BY <1>1, <2>1
  <2> HIDE DEF request
  <2> QED
    BY <1>1, <1>15, <1>16, <1>19, <2>2, <2>3 DEF PostCancel, HistoriesStay
<1>20. ASSUME NEW request \in list.posted
       PROVE  LET rest == Answered(request) IN
              /\ rest = [list EXCEPT !.asking = list.asking \ {request.visit},
                                     !.posted = list.posted \ {request}]
              /\ rest.posted = list.posted \ {request}
  <2> DEFINE posts == list.posted \ {request}
             asks == list.asking \ {request.visit}
             rest == Answered(request)
  <2>1. rest = [list EXCEPT !.posted = posts, !.asking = asks]
    BY DEF Answered
  <2> HIDE DEF posts, asks, rest
  <2>2. rest = [list EXCEPT !.asking = asks, !.posted = posts] /\ rest.posted = posts
    BY <1>2, <2>1
  <2> QED
    BY <2>2 DEF posts, asks, rest
<1>21. ASSUME NEW request \in list.posted, CancelRefused(request) PROVE CabinetLimits'
  <2>1. list' = [list EXCEPT !.asking = list.asking \ {request.visit},
                             !.posted = list.posted \ {request}]
    BY <1>20, <1>21 DEF CancelRefused
  <2> QED
    BY <1>1, <1>15, <1>16, <1>21, <2>1 DEF CancelRefused, HistoriesStay
<1>22. ASSUME NEW request \in list.posted, CancelVisit(request) PROVE CabinetLimits'
  <2> DEFINE v == request.visit
             row == [record[v] EXCEPT !.live = FALSE]
             rest == Answered(request)
  <2>1. v \in Records
    BY <1>1 DEF Requests
  <2>2. row \in VisitRows
    <3>1. record[v] \in VisitRows
      BY <1>1, <2>1
    <3> QED
      BY <3>1 DEF VisitRows
  <2>3. /\ record' = [record EXCEPT ![v] = row] /\ touched' = touched \cup {v}
        /\ list' = Refreshed(rest, cookie, record')
        /\ UNCHANGED <<hour, smsCode, cookie, login, mover, proven>>
    BY <1>22 DEF CancelVisit
  <2>4. rest.posted \subseteq Requests
    BY <1>1, <1>20
  <2> HIDE DEF v, row, rest
  <2>5. PageOfRecords(list')
    BY <2>3, <2>4, DrawnOfRecords
  <2>6. record' \in [Records -> VisitRows]
    BY <1>5, <2>1, <2>2, <2>3
  <2> QED
    BY <1>1, <2>1, <2>3, <2>5, <2>6 DEF CabinetLimits
<1>23. ASSUME NEW tab, mover' = tab, TabOfRecords(tab),
              UNCHANGED <<hour, record, smsCode, cookie, login, list, proven, touched>>
       PROVE  CabinetLimits'
  BY <1>1, <1>23 DEF CabinetLimits
<1>24. ASSUME NEW link \in list.links, OpenMover(link) PROVE CabinetLimits'
  <2>1. mover' = [visit |-> link.visit, until |-> link.until, offered |-> NoTime, sent |-> {}]
    BY <1>24 DEF OpenMover, NoMover
  <2>2. TabOfRecords(mover')
    BY <1>1, <2>1 DEF TabOfRecords
  <2> QED
    BY <1>23, <1>24, <2>2 DEF OpenMover, HistoriesStay
<1>25. ASSUME NEW offered \in {NoTime} \cup Hours, NEW sent \in SUBSET Hours,
              mover' = [mover EXCEPT !.offered = offered, !.sent = sent],
              (offered # NoTime \/ sent # {}) => mover.visit \in Records
       PROVE  TabOfRecords(mover')
  <2>1. mover'.visit = mover.visit /\ mover'.offered = offered /\ mover'.sent = sent
    BY <1>2, <1>25
  <2> QED
    BY <1>1, <1>25, <2>1 DEF TabOfRecords
<1>26. /\ mover.sent \subseteq Hours /\ mover.offered \in {NoTime} \cup Hours
       /\ (mover.offered # NoTime \/ mover.sent # {}) => mover.visit \in Records
       /\ mover.visit # NoRecord => mover.visit \in Records
  BY <1>1 DEF TabOfRecords
<1>27. ASSUME NEW h \in Hours, TimesArrive(h) PROVE CabinetLimits'
  <2>1. mover' = [mover EXCEPT !.offered = h, !.sent = mover.sent] /\ mover.visit # NoRecord
    BY <1>2, <1>27 DEF TimesArrive
  <2>2. TabOfRecords(mover')
    BY <1>25, <1>26, <2>1
  <2> QED
    BY <1>23, <1>27, <2>2 DEF TimesArrive, HistoriesStay
<1>28. ASSUME DateCleared PROVE CabinetLimits'
  <2>1. mover' = [mover EXCEPT !.offered = NoTime, !.sent = mover.sent]
    BY <1>2, <1>28 DEF DateCleared
  <2>2. TabOfRecords(mover')
    BY <1>25, <1>26, <2>1
  <2> QED
    BY <1>23, <1>28, <2>2 DEF DateCleared, HistoriesStay
<1>29. ASSUME PressTime PROVE CabinetLimits'
  <2>1. mover' = [mover EXCEPT !.offered = mover.offered, !.sent = mover.sent \cup {mover.offered}]
    BY <1>2, <1>29 DEF PressTime
  <2>2. mover.offered \in Hours /\ mover.visit \in Records
    BY <1>26, <1>29 DEF PressTime
  <2> DEFINE sent == mover.sent \cup {mover.offered}
  <2>3. sent \in SUBSET Hours
    BY <1>26, <2>2
  <2> HIDE DEF sent
  <2>4. mover' = [mover EXCEPT !.offered = mover.offered, !.sent = sent]
    BY <2>1 DEF sent
  <2>5. TabOfRecords(mover')
    BY <1>25, <1>26, <2>2, <2>3, <2>4
  <2> QED
    BY <1>23, <1>29, <2>5 DEF PressTime, HistoriesStay
<1>30. ASSUME NEW h \in Hours, MoveVisit(h) PROVE CabinetLimits'
  <2> DEFINE v == mover.visit
             row == [record[v] EXCEPT !.start = h, !.moves = record[v].moves + 1]
  <2>1. v \in Records
    BY <1>26, <1>30 DEF MoveVisit
  <2>2. record[v] \in VisitRows /\ record[v].moves < MoveLimit
    BY <1>1, <1>30, <2>1 DEF MoveVisit, MayMove
  <2>3. row \in VisitRows
    <3>1. record[v].moves + 1 \in 0 .. MoveLimit
      BY <1>1, <2>2 DEF VisitRows
    <3> QED
      BY <2>2, <3>1 DEF VisitRows
  <2>4. record' = [record EXCEPT ![v] = row]
    BY <1>30 DEF MoveVisit
  <2>5. /\ mover' = [mover EXCEPT !.offered = NoTime, !.sent = mover.sent \ {h}]
        /\ touched' = touched \cup {v}
        /\ UNCHANGED <<hour, smsCode, cookie, login, list, proven>>
    BY <1>2, <1>30 DEF MoveVisit
  <2>6. TabOfRecords(mover')
    BY <1>25, <1>26, <2>1, <2>5
  <2> HIDE DEF v, row
  <2>7. record' \in [Records -> VisitRows]
    BY <1>5, <2>1, <2>3, <2>4
  <2> QED
    BY <1>1, <2>1, <2>5, <2>6, <2>7 DEF CabinetLimits
<1>31. ASSUME NEW h \in Hours, LinkMoveRefused(h) PROVE CabinetLimits'
  <2> DEFINE left == IF LinkWorks /\ ~MayMove(mover.visit) THEN NoTime ELSE mover.offered
  <2>1. mover' = [mover EXCEPT !.offered = left, !.sent = mover.sent \ {h}]
    BY <1>2, <1>31 DEF LinkMoveRefused
  <2>2. left \in {NoTime, mover.offered}
    OBVIOUS
  <2> HIDE DEF left
  <2>3. TabOfRecords(mover')
    BY <1>25, <1>26, <2>1, <2>2
  <2> QED
    BY <1>23, <1>31, <2>3 DEF LinkMoveRefused, HistoriesStay
<1>32. CASE UNCHANGED cabinetVars
  BY <1>1, <1>32 DEF cabinetVars, CabinetLimits
<1> QED
  BY <1>6, <1>7, <1>8, <1>10, <1>11, <1>13, <1>14, <1>17, <1>18, <1>19, <1>21, <1>22, <1>24, <1>27,
     <1>28, <1>29, <1>30, <1>31, <1>32, ZenonT(60) DEF CabinetNext

(* A customer's visits, codes, session, list and reschedule tab (app/my,    *)
(* customer-visits, app/reschedule) keep their types; a visit is moved at   *)
(* most maxCustomerReschedules times.                                       *)
THEOREM CabinetTyped == CabinetSpec => []CabinetTypeOK
<1>1. CabinetLimits => CabinetTypeOK
  <2> SUFFICES ASSUME CabinetLimits PROVE CabinetTypeOK
    OBVIOUS
  <2>1. ASSUME NEW c \in DOMAIN smsCode
        PROVE  smsCode[c].phone \in Phones /\ smsCode[c].status \in {"PENDING", "EXPIRED", "CONSUMED"}
    <3>1. smsCode[c] \in SmsRows
      BY DEF CabinetLimits
    <3> QED
      BY <3>1 DEF SmsRows
  <2>2. login.id \in {NoSms} \cup DOMAIN smsCode
    BY DEF CabinetLimits, NoSms
  <2> QED
    BY <2>1, <2>2 DEF CabinetLimits, CabinetTypeOK, VisitRows, PageOfRecords, TabOfRecords
<1>2. ASSUME CabinetInv /\ CabinetLimits, [CabinetNext]_cabinetVars
      PROVE  CabinetInv' /\ CabinetLimits'
  BY <1>2, CabinetSteps, CabinetLimitsNext
<1> QED
  BY <1>1, <1>2, CabinetStarts, CabinetLimitsStart, PTL DEF CabinetSpec

OpenedRows == {NoVisitOpen} \cup [status : Standing \cup {"CANCELLED", "EXPIRED", "NO_SHOW"}, at : OpenDays]

CardLimits ==
    /\ screen \in {"list", "card", "new"} /\ isOver \in BOOLEAN
    /\ opened \in OpenedRows /\ visitCard.missed \in BOOLEAN
PressLimit == Len(pressed) <= MaxPresses

(* What is asked for, shown or chosen has a service, a specialist and a day. *)
FormLimits(pane) ==
    /\ pane.calls \subseteq FullChoices
    /\ {pane.list, pane.at} \subseteq FullChoices \cup {NothingPicked}
    /\ Len(pane.posted) <= 1
VisitLimits == CardLimits /\ PressLimit /\ FormLimits(visitForm)

LEMMA CardLimitsNext ==
  ASSUME VisitDeskInv, CardLimits, [VisitDeskNext]_deskViewVars
  PROVE  CardLimits'
<1>1. visitCard = [status |-> visitCard.status, missed |-> visitCard.missed, panel |-> visitCard.panel]
  BY DEF VisitDeskInv, CardFine
<1>2. ASSUME NEW p, Panel(p), OnlyCard PROVE CardLimits'
  <2>1. visitCard'.missed = visitCard.missed
    BY <1>1, <1>2 DEF Panel
  <2> QED
    BY <1>2, <2>1 DEF CardLimits, OnlyCard
<1>3. ASSUME UNCHANGED <<screen, opened, isOver, visitCard>> PROVE CardLimits'
  BY <1>3 DEF CardLimits
<1>4. ASSUME NEW v, NEW panel PROVE CardDrawn(v, panel).missed \in BOOLEAN
  BY DEF CardDrawn
<1>5. ASSUME NEW v \in [status : Standing, at : OpenDays], OpenCard(v) PROVE CardLimits'
  BY <1>4, <1>5 DEF OpenCard, CardLimits, OpenedRows
<1>6. CASE LeaveCard
  BY <1>6 DEF LeaveCard, CardLimits, OpenedRows, NoCardOpen
<1>7. ASSUME NEW d \in OpenDays \cup {NoDay}, PickNewDay(d) PROVE CardLimits'
  BY <1>2, <1>7 DEF PickNewDay
<1>8. ASSUME NEW d \in OpenDays, TimesLoaded(d) \/ PressFreeTime(d) PROVE CardLimits'
  BY <1>2, <1>8 DEF TimesLoaded, PressFreeTime
<1>9. ASSUME TypeReason \/ RefusedByBrowser \/ CloseDialog \/ \E k \in Dialogs : AskFirst(k) PROVE CardLimits'
  BY <1>2, <1>9 DEF TypeReason, RefusedByBrowser, CloseDialog, AskFirst
<1>10. ASSUME CancelSeries \/ ConfirmDialog PROVE CardLimits'
  BY <1>3, <1>10 DEF CancelSeries, ConfirmDialog, Pressed
<1>11. CASE SubmitUnasked
  <2>1. visitCard'.missed = visitCard.missed
    BY <1>1, <1>11 DEF Panel, SubmitUnasked
  <2> QED
    BY <1>11, <2>1 DEF CardLimits, SubmitUnasked, Pressed
<1>12. CASE Carry
  <2>1. PICK v \in [status : Standing \cup {"CANCELLED", "NO_SHOW"}, at : OpenDays] :
          opened' = v /\ AfterRedirect(Head(pressed), v)
    BY <1>12 DEF Carry
  <2>2. PICK kept : LET again == CardDrawn(v, [visitCard.panel EXCEPT !.reason = kept])
                    IN  visitCard' = again \/ visitCard' = [again EXCEPT !.panel.dialog = "none"]
    BY <2>1 DEF AfterRedirect
  <2> DEFINE again == CardDrawn(v, [visitCard.panel EXCEPT !.reason = kept])
  <2>3. again.missed \in BOOLEAN /\ again = [status |-> again.status, missed |-> again.missed, panel |-> again.panel]
    BY <1>4 DEF CardDrawn
  <2> HIDE DEF again
  <2>4. visitCard' = again \/ visitCard' = [again EXCEPT !.panel.dialog = "none"]
    BY <2>2 DEF again
  <2>5. visitCard'.missed \in BOOLEAN
    BY <2>3, <2>4
  <2> QED
    BY <1>12, <2>1, <2>5 DEF CardLimits, Carry, OpenedRows
<1>13. ASSUME NEW v \in [status : Standing \cup {"CANCELLED", "EXPIRED"}, at : OpenDays], ChangedByOthers(v) PROVE CardLimits'
  BY <1>13 DEF ChangedByOthers, CardLimits, OpenedRows
<1>14. CASE FirstDayPasses
  BY <1>14 DEF FirstDayPasses, CardLimits
<1>15. ASSUME UNCHANGED <<opened, isOver, visitCard>>, screen' \in {"list", "card", "new"} PROVE CardLimits'
  BY <1>15 DEF CardLimits
<1>16. ASSUME (\E d \in {NoDay, FirstDay} : OpenForm(d)) \/ LeaveForm \/ \E booked \in BOOLEAN : Create(booked) PROVE CardLimits'
  BY <1>15, <1>16 DEF OpenForm, LeaveForm, Create
<1>17. ASSUME OnlyForm PROVE CardLimits'
  BY <1>3, <1>17 DEF OnlyForm
<1>18. ASSUME PickBranch \/ PressStart \/ PostVisit PROVE CardLimits'
  BY <1>17, <1>18 DEF PickBranch, PressStart, PostVisit
<1>19. CASE UNCHANGED deskViewVars
  BY <1>3, <1>19 DEF deskViewVars
<1>20. ASSUME NEW c, Answer(c) \/ AnswerFails(c) \/ PickService(c) \/ PickMaster(c) \/ PickDate(c) PROVE CardLimits'
  BY <1>17, <1>20 DEF Answer, AnswerFails, PickService, PickMaster, PickDate
<1> QED
  BY <1>5, <1>6, <1>7, <1>8, <1>9, <1>10, <1>11, <1>12, <1>13, <1>14, <1>16, <1>18, <1>19, <1>20 DEF VisitDeskNext

LEMMA PressLimitNext ==
  ASSUME VisitDeskInv, PressLimit, [VisitDeskNext]_deskViewVars
  PROVE  PressLimit'
<1>1. pressed \in Seq(OrdersFine) /\ MaxPresses \in Nat
  BY VisitDeskAssumption DEF VisitDeskInv
<1>2. ASSUME UNCHANGED pressed PROVE PressLimit'
  BY <1>2 DEF PressLimit
<1>3. ASSUME NEW k, NEW b, Pressed(k, b) PROVE PressLimit'
  <2>1. PICK e : pressed' = Append(pressed, e)
    BY <1>3 DEF Pressed
  <2>2. Len(pressed) < MaxPresses /\ Len(pressed) \in Nat
    BY <1>1, <1>3 DEF Pressed
  <2>3. Len(Append(pressed, e)) = Len(pressed) + 1
    <3>1. ASSUME NEW T, NEW s \in Seq(T) PROVE Len(Append(s, e)) = Len(s) + 1
      OBVIOUS
    <3> QED
      BY <1>1, <3>1, Zenon
  <2> QED
    BY <1>1, <2>1, <2>2, <2>3 DEF PressLimit
<1>4. ASSUME Carry PROVE PressLimit'
  <2>1. pressed # <<>> /\ pressed' = Tail(pressed)
    BY <1>4 DEF Carry
  <2>2. Len(Tail(pressed)) <= Len(pressed) /\ Len(pressed) \in Nat /\ Len(Tail(pressed)) \in Nat
    BY <1>1, <2>1
  <2> QED
    BY <1>1, <2>1, <2>2 DEF PressLimit
<1>5. ASSUME OnlyCard \/ OnlyForm PROVE PressLimit'
  BY <1>2, <1>5 DEF OnlyCard, OnlyForm
<1>6. ASSUME CancelSeries \/ ConfirmDialog \/ SubmitUnasked PROVE PressLimit'
  BY <1>3, <1>6 DEF CancelSeries, ConfirmDialog, SubmitUnasked
<1>7. ASSUME \/ \E v \in [status : Standing, at : OpenDays] : OpenCard(v)
             \/ \E v \in [status : Standing \cup {"CANCELLED", "EXPIRED"}, at : OpenDays] : ChangedByOthers(v)
             \/ LeaveCard \/ FirstDayPasses \/ LeaveForm
             \/ (\E d \in {NoDay, FirstDay} : OpenForm(d)) \/ \E booked \in BOOLEAN : Create(booked)
             \/ UNCHANGED deskViewVars
      PROVE  PressLimit'
  BY <1>2, <1>7 DEF OpenCard, ChangedByOthers, LeaveCard, FirstDayPasses, LeaveForm, OpenForm, Create, deskViewVars
<1>8. ASSUME \/ \E d \in OpenDays \cup {NoDay} : PickNewDay(d)
             \/ \E d \in OpenDays : TimesLoaded(d) \/ PressFreeTime(d)
             \/ TypeReason \/ RefusedByBrowser \/ CloseDialog \/ \E k \in Dialogs : AskFirst(k)
             \/ PickBranch \/ PressStart \/ PostVisit
      PROVE  PressLimit'
  BY <1>5, <1>8 DEF PickNewDay, TimesLoaded, PressFreeTime, TypeReason, RefusedByBrowser, CloseDialog, AskFirst,
     PickBranch, PressStart, PostVisit
<1>9. ASSUME NEW c, Answer(c) \/ AnswerFails(c) \/ PickService(c) \/ PickMaster(c) \/ PickDate(c) PROVE PressLimit'
  BY <1>5, <1>9 DEF Answer, AnswerFails, PickService, PickMaster, PickDate
<1> QED
  BY <1>4, <1>6, <1>7, <1>8, <1>9 DEF VisitDeskNext

LEMMA FormLimitsNext ==
  ASSUME VisitDeskInv, FormLimits(visitForm), [VisitDeskNext]_deskViewVars
  PROVE  FormLimits(visitForm)'
<1>1. visitForm = [choice |-> visitForm.choice, wish |-> visitForm.wish, calls |-> visitForm.calls,
                   list |-> visitForm.list, at |-> visitForm.at, crossed |-> visitForm.crossed,
                   posted |-> visitForm.posted]
  BY DEF VisitDeskInv, FormFine
<1>2. ASSUME UNCHANGED visitForm PROVE FormLimits(visitForm)'
  BY <1>2 DEF FormLimits
<1>3. Len(<<>>) = 0 /\ \A x : Len(<<x>>) = 1
  OBVIOUS
<1>4. FormLimits(EmptyVisitForm)
  BY <1>3 DEF FormLimits, EmptyVisitForm
<1>5. ASSUME NEW pane, visitForm' = pane, FormLimits(pane) PROVE FormLimits(visitForm)'
  BY <1>5
<1>6. ASSUME NEW choice, Loads(choice) PROVE FormLimits(visitForm)'
  <2>1. /\ visitForm'.calls \subseteq FullChoices
        /\ visitForm'.list = NothingPicked /\ visitForm'.at = NothingPicked
        /\ visitForm'.posted = visitForm.posted
    BY <1>1, <1>6 DEF Loads, Cleared, FormLimits
  <2> QED
    BY <2>1 DEF FormLimits
<1>7. ASSUME NEW d, OpenForm(d) PROVE FormLimits(visitForm)'
  <2>1. PICK choice : visitForm' = [EmptyVisitForm EXCEPT !.wish = d, !.choice = choice]
    BY <1>7 DEF OpenForm
  <2>2. /\ visitForm'.calls = {} /\ visitForm'.list = NothingPicked /\ visitForm'.at = NothingPicked
        /\ visitForm'.posted = <<>>
    BY <2>1 DEF EmptyVisitForm
  <2> QED
    BY <2>2, <1>3 DEF FormLimits
<1>8. CASE LeaveForm
  BY <1>4, <1>5, <1>8 DEF LeaveForm
<1>9. CASE PickBranch
  <2>1. /\ visitForm'.calls = visitForm.calls /\ visitForm'.list = NothingPicked
        /\ visitForm'.at = visitForm.at /\ visitForm'.posted = visitForm.posted
    BY <1>1, <1>9 DEF PickBranch
  <2> QED
    BY <2>1 DEF FormLimits
<1>10. ASSUME NEW c, PickService(c) \/ PickMaster(c) \/ PickDate(c) PROVE FormLimits(visitForm)'
  BY <1>6, <1>10 DEF PickService, PickMaster, PickDate
<1>11. ASSUME NEW c \in FullChoices, Answer(c) PROVE FormLimits(visitForm)'
  <2>1. PICK start \in FreeStarts(c.day) :
          visitForm' = [visitForm EXCEPT !.calls = @ \ {c},
                         !.list = IF start = c.day THEN c ELSE NothingPicked,
                         !.at = IF start # NoDay /\ start = visitForm.wish THEN c ELSE @,
                         !.crossed = @ \/ c # visitForm.choice]
    BY <1>11 DEF Answer
  <2>2. /\ visitForm'.calls = visitForm.calls \ {c} /\ visitForm'.list \in {c, NothingPicked}
        /\ visitForm'.at \in {c, visitForm.at} /\ visitForm'.posted = visitForm.posted
    BY <1>1, <2>1
  <2> QED
    BY <1>11, <2>2 DEF FormLimits
<1>12. ASSUME NEW c \in FullChoices, AnswerFails(c) PROVE FormLimits(visitForm)'
  <2>1. /\ visitForm'.calls = visitForm.calls \ {c} /\ visitForm'.list = visitForm.list
        /\ visitForm'.at = visitForm.at /\ visitForm'.posted = visitForm.posted
    BY <1>1, <1>12 DEF AnswerFails
  <2> QED
    BY <2>1 DEF FormLimits
<1>13. CASE PressStart
  <2>1. /\ visitForm'.calls = visitForm.calls /\ visitForm'.list = visitForm.list
        /\ visitForm'.at = visitForm.list /\ visitForm'.posted = visitForm.posted
    BY <1>1, <1>13 DEF PressStart
  <2> QED
    BY <2>1 DEF FormLimits
<1>14. CASE PostVisit
  <2> DEFINE sent == [choice |-> visitForm.choice, at |-> visitForm.at, crossed |-> visitForm.crossed]
  <2>1. /\ visitForm'.calls = visitForm.calls /\ visitForm'.list = visitForm.list
        /\ visitForm'.at = visitForm.at /\ visitForm'.posted = <<sent>>
    BY <1>1, <1>14 DEF PostVisit
  <2> HIDE DEF sent
  <2> QED
    BY <1>3, <2>1 DEF FormLimits
<1>15. ASSUME NEW booked \in BOOLEAN, Create(booked) PROVE FormLimits(visitForm)'
  <2>1. CASE booked
    BY <1>4, <1>5, <1>15, <2>1 DEF Create
  <2>2. CASE ~ booked
    <3>1. /\ visitForm'.calls = visitForm.calls /\ visitForm'.list = visitForm.list
          /\ visitForm'.at = visitForm.at /\ visitForm'.posted = <<>>
      BY <1>1, <1>15, <2>2 DEF Create
    <3> QED
      BY <1>3, <3>1 DEF FormLimits
  <2> QED
    BY <2>1, <2>2
<1>16. ASSUME \/ \E v \in [status : Standing, at : OpenDays] : OpenCard(v)
              \/ \E v \in [status : Standing \cup {"CANCELLED", "EXPIRED"}, at : OpenDays] : ChangedByOthers(v)
              \/ LeaveCard \/ FirstDayPasses \/ Carry \/ UNCHANGED deskViewVars
       PROVE  FormLimits(visitForm)'
  BY <1>2, <1>16 DEF OpenCard, ChangedByOthers, LeaveCard, FirstDayPasses, Carry, deskViewVars
<1>17. ASSUME \/ \E d \in OpenDays \cup {NoDay} : PickNewDay(d)
              \/ \E d \in OpenDays : TimesLoaded(d) \/ PressFreeTime(d)
              \/ TypeReason \/ RefusedByBrowser \/ CloseDialog \/ \E k \in Dialogs : AskFirst(k)
       PROVE  FormLimits(visitForm)'
  BY <1>2, <1>17 DEF PickNewDay, TimesLoaded, PressFreeTime, TypeReason, RefusedByBrowser, CloseDialog, AskFirst, OnlyCard
<1>18. ASSUME CancelSeries \/ ConfirmDialog \/ SubmitUnasked PROVE FormLimits(visitForm)'
  BY <1>2, <1>18 DEF CancelSeries, ConfirmDialog, SubmitUnasked, Pressed
<1> QED
  BY <1>7, <1>8, <1>9, <1>10, <1>11, <1>12, <1>13, <1>14, <1>15, <1>16, <1>17, <1>18 DEF VisitDeskNext

(* The card, the form and the actions under way have their types: a form    *)
(* offers and posts full choices only.                                      *)
THEOREM VisitDeskTyped == VisitDeskSpec => []VisitDeskTypeOK
<1>1. VisitDeskInit => VisitLimits
  <2> SUFFICES ASSUME VisitDeskInit PROVE VisitLimits
    OBVIOUS
  <2>1. Len(<<>>) = 0 /\ MaxPresses \in Nat
    BY VisitDeskAssumption
  <2>2. CardLimits
    BY DEF VisitDeskInit, CardLimits, OpenedRows, NoCardOpen
  <2>3. PressLimit
    BY <2>1 DEF VisitDeskInit, PressLimit
  <2>4. FormLimits(visitForm)
    BY <2>1 DEF VisitDeskInit, FormLimits, EmptyVisitForm
  <2> QED
    BY <2>2, <2>3, <2>4 DEF VisitLimits
<1>2. VisitDeskInv /\ VisitLimits => VisitDeskTypeOK
  <2> SUFFICES ASSUME VisitDeskInv, VisitLimits PROVE VisitDeskTypeOK
    OBVIOUS
  <2>1. /\ visitCard.panel.loads \subseteq OpenDays /\ visitCard.panel.dialog \in Dialogs \cup {"none"}
        /\ {visitCard.panel.day, visitCard.panel.list, visitCard.panel.at} \subseteq OpenDays \cup {NoDay}
        /\ visitCard.panel.reason \in BOOLEAN /\ visitCard.panel.bypass \in BOOLEAN
    BY DEF VisitDeskInv, CardFine, PanelFine, PanelRows, SomeDay
  <2>2. \A i \in DOMAIN pressed : pressed[i] \in
          [command : Commands, at : OpenDays \cup {NoDay}, shown : OpenDays \cup {NoDay},
           asked : BOOLEAN, refused : BOOLEAN]
    BY DEF VisitDeskInv, OrdersFine, OrderRows, SomeDay
  <2>3. visitForm.crossed \in BOOLEAN /\ visitCard.missed \in BOOLEAN
    BY DEF VisitDeskInv, FormFine, VisitLimits, CardLimits
  <2> QED
    BY <2>1, <2>2, <2>3 DEF VisitLimits, CardLimits, PressLimit, FormLimits, OpenedRows, VisitDeskTypeOK
<1>3. VisitDeskInv /\ VisitLimits /\ [VisitDeskNext]_deskViewVars => VisitLimits'
  BY CardLimitsNext, PressLimitNext, FormLimitsNext DEF VisitLimits
<1> QED
  BY <1>1, <1>2, <1>3, VisitDeskStarts, VisitDeskSteps, PTL DEF VisitDeskSpec

DeskBounds ==
    /\ IsFiniteSet(FurtherSlips) /\ \A b \in Bills : claim[b].newest \in Slips
    /\ crossing \subseteq Bills

(* While further receipts are left, each payment may have one more. *)
LEMMA RoomForASlip ==
  ASSUME IsFiniteSet(FurtherSlips), Cardinality(FurtherSlips) < MaxSlips,
         NEW b \in Bills, claim[b].newest \in Slips
  PROVE  claim[b].newest + 1 \in Slips
<1> DEFINE n == claim[b].newest
           S == 2 .. n
           f == [slip \in S |-> <<b, slip>>]
<1>1. MaxSlips \in Nat /\ n \in 1 .. 1 + MaxSlips
  BY ReviewDeskAssumption DEF Slips
<1>2. \A slip \in S : <<b, slip>> \in FurtherSlips
  <2> SUFFICES ASSUME NEW slip \in S PROVE <<b, slip>> \in FurtherSlips
    OBVIOUS
  <2>1. slip \in Slips
    BY <1>1 DEF Slips
  <2> QED
    BY <2>1 DEF FurtherSlips
<1>3. f \in Injection(S, FurtherSlips)
  <2>1. f \in [S -> FurtherSlips]
    BY <1>2
  <2>2. \A s, t \in S : f[s] = f[t] => s = t
    OBVIOUS
  <2> HIDE DEF f, S
  <2> QED
    BY <2>1, <2>2 DEF Injection, IsInjective
<1>4. Cardinality(S) <= Cardinality(FurtherSlips)
  <2> HIDE DEF f, S
  <2> QED
    BY <1>3, FS_Injection
<1>5. Cardinality(S) = IF 2 > n THEN 0 ELSE n - 2 + 1
  <2>1. 2 \in Int /\ n \in Int
    BY <1>1
  <2> HIDE DEF n
  <2> QED
    BY <2>1, FS_Interval, Zenon
<1>6. Cardinality(FurtherSlips) \in Nat
  BY FS_CardinalityType
<1>7. n <= MaxSlips
  <2> HIDE DEF S
  <2> QED
    BY <1>1, <1>4, <1>5, <1>6
<1> QED
  BY <1>1, <1>7 DEF Slips

LEMMA DeskBoundsNext ==
  ASSUME DeskShape, DeskBounds, [ReviewDeskNext]_deskVars
  PROVE  DeskBounds'
<1>1. claim \in [Bills -> ClaimRows]
  BY DEF DeskShape
<1>2. ASSUME \A b \in Bills : claim'[b].newest = claim[b].newest, crossing' \subseteq Bills
      PROVE  DeskBounds'
  BY <1>2 DEF DeskBounds, FurtherSlips
<1>3. ASSUME UNCHANGED claim, UNCHANGED crossing
      PROVE  DeskBounds'
  BY <1>2, <1>3 DEF DeskBounds
<1>4. ASSUME NEW b, NEW row, claim' = [claim EXCEPT ![b] = row], b \in Bills => row.newest = claim[b].newest,
             crossing' \subseteq Bills
      PROVE  DeskBounds'
  BY <1>1, <1>2, <1>4
<1>5. ASSUME NEW r, SettleClaim(r), UNCHANGED crossing
      PROVE  DeskBounds'
  <2> DEFINE b == r.bill
             approved == [claim[b] EXCEPT !.status = "ACCEPTED", !.booking = "CONFIRMED",
                                          !.open = @ \ {r.slip}, !.commission = TRUE]
             rejected == [claim[b] EXCEPT !.status = "REJECTED", !.open = @ \ {r.slip}]
  <2>1. b \in Bills => approved.newest = claim[b].newest /\ rejected.newest = claim[b].newest
    BY <1>1 DEF ClaimRows
  <2>2. \/ claim' = claim
        \/ claim' = [claim EXCEPT ![b] = approved] \/ claim' = [claim EXCEPT ![b] = rejected]
    BY <1>1, <1>5 DEF SettleClaim, Decided
  <2>3. crossing' \subseteq Bills
    BY <1>5 DEF DeskBounds
  <2> HIDE DEF approved, rejected, b
  <2> QED
    BY <2>1, <2>2, <2>3, <1>2, <1>4
<1>6. ASSUME NEW b \in Bills, SendSlip(b) PROVE DeskBounds'
  <2> DEFINE slip == claim[b].newest + 1
             row == [claim[b] EXCEPT !.newest = slip, !.reading = @ \cup {slip}, !.status = "PROCESSING"]
  <2>1. claim' = [claim EXCEPT ![b] = row] /\ UNCHANGED crossing /\ claim[b].newest \in Slips /\ slip \in Slips
    BY <1>1, <1>6, RoomForASlip DEF SendSlip, HistoryStays, DeskBounds
  <2>2. row.newest = slip
    BY <1>1 DEF ClaimRows
  <2> HIDE DEF row
  <2>3. \A d \in Bills : claim'[d].newest = IF d = b THEN slip ELSE claim[d].newest
    BY <1>1, <2>1, <2>2
  <2>4. FurtherSlips' = FurtherSlips \cup {<<b, slip>>}
    <3>1. claim[b].newest \in Nat /\ slip \in 2 .. slip /\ \A i \in Slips : i \in 2 .. slip <=> (i \in 2 .. claim[b].newest \/ i = slip)
      BY <2>1, ReviewDeskAssumption DEF Slips
    <3> HIDE DEF slip
    <3>2. FurtherSlips' = {sent \in Bills \X Slips : sent[2] \in 2 .. claim'[sent[1]].newest}
      BY DEF FurtherSlips
    <3> QED
      BY <2>1, <2>3, <3>1, <3>2 DEF FurtherSlips
  <2>5. IsFiniteSet(FurtherSlips')
    BY <2>4, FS_AddElement DEF DeskBounds
  <2> QED
    BY <2>1, <2>3, <2>5 DEF DeskBounds
<1>7. ASSUME NEW b \in Bills, NEW slip \in Slips, SlipMatches(b, slip) PROVE DeskBounds'
  <2> DEFINE row == [claim[b] EXCEPT !.reading = @ \ {slip}, !.status = "ACCEPTED", !.booking = "CONFIRMED"]
  <2>1. claim' = [claim EXCEPT ![b] = row] /\ UNCHANGED crossing
    BY <1>1, <1>7 DEF SlipMatches, HistoryStays
  <2>2. row.newest = claim[b].newest /\ crossing' \subseteq Bills
    BY <1>1, <2>1 DEF ClaimRows, DeskBounds
  <2> HIDE DEF row
  <2> QED
    BY <2>1, <2>2, <1>4
<1>8. ASSUME NEW b \in Bills, NEW slip \in Slips, SlipDoubted(b, slip) PROVE DeskBounds'
  <2> DEFINE row == [claim[b] EXCEPT !.reading = @ \ {slip}, !.open = @ \cup {slip}, !.status = "NEEDS_ATTENTION"]
  <2>1. claim' = [claim EXCEPT ![b] = row] /\ crossing' \subseteq crossing \cup {b}
    BY <1>1, <1>8 DEF SlipDoubted
  <2>2. row.newest = claim[b].newest /\ crossing' \subseteq Bills
    BY <1>1, <2>1 DEF ClaimRows, DeskBounds
  <2> HIDE DEF row
  <2> QED
    BY <2>1, <2>2, <1>4
<1>9. ASSUME NEW b \in Bills, VisitFalls(b) PROVE DeskBounds'
  <2> DEFINE row == [claim[b] EXCEPT !.booking = "OVER"]
  <2>1. claim' = [claim EXCEPT ![b] = row] /\ UNCHANGED crossing
    BY <1>1, <1>9 DEF VisitFalls, HistoryStays
  <2>2. row.newest = claim[b].newest /\ crossing' \subseteq Bills
    BY <1>1, <2>1 DEF ClaimRows, DeskBounds
  <2> HIDE DEF row
  <2> QED
    BY <2>1, <2>2, <1>4
<1>10. ASSUME OwnerWrites PROVE DeskBounds'
  BY <1>5, <1>10 DEF OwnerWrites
<1>11. ASSUME NEW c \in Clerks, ClerkWrites(c) PROVE DeskBounds'
  BY <1>5, <1>11 DEF ClerkWrites
<1>12. ASSUME NEW b \in Bills, NEW verdict \in {"approve", "reject"}, OwnerReads(b, verdict) PROVE DeskBounds'
  BY <1>3, <1>12 DEF OwnerReads, HistoryStays
<1>13. ASSUME NEW c \in Clerks, LoadQueue(c) \/ CloseBulk(c) \/ SubmitBulk(c) \/ Redirected(c) PROVE DeskBounds'
  BY <1>3, <1>13 DEF LoadQueue, CloseBulk, SubmitBulk, Redirected, HistoryStays
<1>14. ASSUME NEW c \in Clerks, NEW ticked \in SUBSET Bills, TickBox(c, ticked) PROVE DeskBounds'
  BY <1>3, <1>14 DEF TickBox, HistoryStays
<1>15. ASSUME NEW c \in Clerks, NEW verdict \in {"approve", "reject"}, OpenBulk(c, verdict) PROVE DeskBounds'
  BY <1>3, <1>15 DEF OpenBulk, HistoryStays
<1>16. ASSUME NEW c \in Clerks, NEW b \in Bills, NEW verdict \in {"approve", "reject"},
              ClerkReads(c, b) \/ SubmitRow(c, b, verdict)
       PROVE  DeskBounds'
  BY <1>3, <1>16 DEF ClerkReads, SubmitRow, HistoryStays
<1>17. CASE UNCHANGED deskVars
  BY <1>3, <1>17 DEF deskVars
<1>18. ASSUME NEW c \in Clerks, NEW b \in Bills, ClerkReads(c, b) PROVE DeskBounds'
  BY <1>16, <1>18
<1> QED
  BY <1>6, <1>7, <1>8, <1>9, <1>10, <1>11, <1>12, <1>13, <1>14, <1>15, <1>16, <1>17, <1>18 DEF ReviewDeskNext

(* Payments, receipts and the pages of those who decide have their types,   *)
(* and no payment has more receipts than were sent.                         *)
THEOREM ReviewDeskTyped == ReviewDeskSpec => []ReviewDeskTypeOK
<1>1. ReviewDeskInit => DeskBounds
  <2> SUFFICES ASSUME ReviewDeskInit PROVE DeskBounds
    OBVIOUS
  <2>1. \A b \in Bills : claim[b].newest = 1
    BY DEF ReviewDeskInit
  <2>2. FurtherSlips = {}
    BY <2>1 DEF FurtherSlips
  <2> QED
    BY <2>1, <2>2, FS_EmptySet, ReviewDeskAssumption DEF DeskBounds, Slips, ReviewDeskInit
<1>2. ReviewDeskInv /\ DeskBounds => ReviewDeskTypeOK
  <2> SUFFICES ASSUME ReviewDeskInv, DeskBounds PROVE ReviewDeskTypeOK
    OBVIOUS
  <2>1. ASSUME NEW b \in Bills
        PROVE  claim[b] \in [status : {"PROCESSING", "NEEDS_ATTENTION", "ACCEPTED", "REJECTED"},
                             booking : {"PENDING", "CONFIRMED", "OVER"},
                             newest : Slips, reading : SUBSET Slips, open : SUBSET Slips, commission : BOOLEAN]
    <3>1. claim[b] \in ClaimRows /\ claim[b].newest \in Slips /\ 1 .. claim[b].newest \subseteq Slips
      BY ReviewDeskAssumption DEF ReviewDeskInv, DeskShape, DeskBounds, Slips
    <3>2. claim[b].open \subseteq Slips /\ claim[b].reading \subseteq Slips
      BY <3>1 DEF ReviewDeskInv, SlipsSent
    <3> QED
      BY <3>1, <3>2 DEF ClaimRows
  <2>2. ASSUME NEW c \in Clerks
        PROVE  /\ clerk[c].listed \cup clerk[c].ticked \cup clerk[c].todo \subseteq Bills
               /\ clerk[c].dialog \in {"closed", "approve", "reject"}
               /\ clerk[c].review.bill # NoBill => clerk[c].sent
    BY DEF ReviewDeskInv, DeskShape, PageRows, PageFine, Verdicts
  <2>3. salonOwner.bill \in Bills \cup {NoBill}
    BY DEF ReviewDeskInv, DeskShape, ReviewRows
  <2>4. claim \in [Bills -> [status : {"PROCESSING", "NEEDS_ATTENTION", "ACCEPTED", "REJECTED"},
                             booking : {"PENDING", "CONFIRMED", "OVER"},
                             newest : Slips, reading : SUBSET Slips, open : SUBSET Slips, commission : BOOLEAN]]
    BY <2>1 DEF ReviewDeskInv, DeskShape
  <2> QED
    BY <2>2, <2>3, <2>4 DEF ReviewDeskInv, DeskShape, DeskBounds, ReviewDeskTypeOK
<1>3. ReviewDeskInv /\ DeskBounds /\ [ReviewDeskNext]_deskVars => DeskBounds'
  BY DeskBoundsNext DEF ReviewDeskInv
<1> QED
  BY <1>1, <1>2, <1>3, ReviewDeskStarts, ReviewDeskSteps, PTL DEF ReviewDeskSpec

TenantRows == [paid : BOOLEAN, over : SUBSET Words, steps : 0 .. MaxOwnerSteps]
FieldStates == {"idle", "checking", "valid", "invalid"}

(* A transaction is tried Retries times at most, and a visit made has a way *)
(* of paying.                                                               *)
GuestLimits(g) ==
    /\ g.tries \in 0 .. Retries - 1
    /\ g.made # NothingMade => g.made.mode \in {"NONE", "DEPOSIT", "FULL"}
PromoLimits ==
    /\ tenant \in TenantRows /\ promoField.status \in FieldStates
    /\ \A c \in Guests : GuestLimits(guest[c])

LEMMA PromoLimitsNext ==
  ASSUME PromoInv, PromoLimits, [PromoCodesNext]_promoVars
  PROVE  PromoLimits'
<1>1. /\ guest = [c \in Guests |-> guest[c]] /\ \A c \in Guests : GuestShape(guest[c]) /\ GuestLimits(guest[c])
      /\ tenant \in TenantRows /\ promoField.status \in FieldStates
      /\ Retries \in Nat \ {0} /\ MaxOwnerSteps \in Nat
  BY PromoCodesAssumption DEF PromoInv, GuestFine, PromoLimits
<1>2. promoField = [word |-> promoField.word, status |-> promoField.status, service |-> promoField.service,
                    shown |-> promoField.shown, checks |-> promoField.checks, doubt |-> promoField.doubt]
  BY DEF PromoInv, PromoFieldFine
<1>3. ASSUME NEW c, NEW g, guest' = [guest EXCEPT ![c] = g], GuestLimits(g)
      PROVE  \A d \in Guests : GuestLimits(guest'[d])
  <2> TAKE d \in Guests
  <2>1. guest'[d] = IF d = c THEN g ELSE guest[d]
    BY <1>1, <1>3
  <2> QED
    BY <1>1, <1>3, <2>1
<1>4. GuestLimits(NotAsked)
  BY <1>1 DEF GuestLimits, NotAsked
<1>5. ASSUME NEW c \in Guests, NEW g, g.tries = guest[c].tries, g.made = guest[c].made PROVE GuestLimits(g)
  BY <1>1, <1>5 DEF GuestLimits
<1>6. ASSUME NEW s, OwnerStep(s), s \in TenantRows, s.steps = tenant.steps PROVE PromoLimits'
  <2>1. tenant' = [s EXCEPT !.steps = s.steps + 1] /\ tenant.steps < MaxOwnerSteps
    BY <1>1, <1>6 DEF OwnerStep
  <2>2. tenant' \in TenantRows
    BY <1>1, <1>6, <2>1 DEF TenantRows
  <2> QED
    BY <1>1, <1>6, <2>2 DEF OwnerStep, PromoLimits
<1>7. ASSUME NEW w \in Words, NEW sale \in Sales, CreatePromoCode(w, sale) PROVE PromoLimits'
  BY <1>1, <1>6, <1>7 DEF CreatePromoCode
<1>8. ASSUME NEW w \in Words, DeactivatePromoCode(w) PROVE PromoLimits'
  BY <1>1, <1>6, <1>8 DEF DeactivatePromoCode
<1>9. ASSUME NEW w \in Words, CodeRunsOut(w) PROVE PromoLimits'
  <2> DEFINE s == [tenant EXCEPT !.over = @ \cup {w}]
  <2>1. OwnerStep(s)
    BY <1>9 DEF CodeRunsOut
  <2>2. s \in TenantRows /\ s.steps = tenant.steps
    BY <1>1 DEF TenantRows
  <2> HIDE DEF s
  <2> QED
    BY <2>1, <2>2, <1>6
<1>10. ASSUME PlanEnds PROVE PromoLimits'
  <2> DEFINE s == [tenant EXCEPT !.paid = FALSE]
  <2>1. OwnerStep(s)
    BY <1>10 DEF PlanEnds
  <2>2. s \in TenantRows /\ s.steps = tenant.steps
    BY <1>1 DEF TenantRows
  <2> HIDE DEF s
  <2> QED
    BY <2>1, <2>2, <1>6
<1>11. ASSUME OnlyField, promoField'.status \in FieldStates PROVE PromoLimits'
  BY <1>1, <1>11 DEF PromoLimits, OnlyField
<1>12. ASSUME NEW w \in Words, OnPromoCodeChange(w) PROVE PromoLimits'
  <2>1. promoField'.status = "idle"
    BY <1>2, <1>12 DEF OnPromoCodeChange
  <2> QED
    BY <1>11, <1>12, <2>1 DEF OnPromoCodeChange, FieldStates
<1>13. ASSUME NEW m \in Menu, ChangeService(m) PROVE PromoLimits'
  <2>1. promoField'.status = promoField.status
    BY <1>2, <1>13 DEF ChangeService
  <2> QED
    BY <1>1, <1>11, <1>13, <2>1 DEF ChangeService
<1>14. ASSUME ApplyPromoCode PROVE PromoLimits'
  <2>1. promoField'.status = "checking"
    BY <1>2, <1>14 DEF ApplyPromoCode
  <2> QED
    BY <1>11, <1>14, <2>1 DEF ApplyPromoCode, FieldStates
<1>15. ASSUME NEW q, CheckAnswered(q) PROVE PromoLimits'
  <2>1. promoField'.status = IF Redeemable(q.word) THEN "valid" ELSE "invalid"
    BY <1>2, <1>15 DEF CheckAnswered
  <2> QED
    BY <1>11, <1>15, <2>1 DEF CheckAnswered, FieldStates
<1>16. ASSUME NEW q, CheckFails(q) PROVE PromoLimits'
  <2>1. promoField'.status = "invalid"
    BY <1>2, <1>16 DEF CheckFails
  <2> QED
    BY <1>11, <1>16, <2>1 DEF CheckFails, FieldStates
<1>17. ASSUME NEW c, NEW g, guest' = [guest EXCEPT ![c] = g], GuestLimits(g), UNCHANGED tenant,
              promoField'.status \in FieldStates
       PROVE  PromoLimits'
  BY <1>1, <1>3, <1>17 DEF PromoLimits
<1>18. ASSUME NEW series \in BOOLEAN, SubmitForm(series) PROVE PromoLimits'
  <2> DEFINE g == [NotAsked EXCEPT
                      !.at = "posted", !.word = IF promoField.status = "valid" /\ ~ series THEN promoField.word ELSE NoWord,
                      !.service = promoField.service,
                      !.promised = promoField.shown, !.doubt = promoField.doubt, !.series = series]
  <2>1. guest' = [guest EXCEPT ![OnForm] = g] /\ UNCHANGED <<tenant, promoField>>
    BY <1>18 DEF SubmitForm
  <2>2. g.tries = 0 /\ g.made = NothingMade
    BY DEF NotAsked
  <2> HIDE DEF g
  <2>3. GuestLimits(g)
    BY <1>1, <2>2 DEF GuestLimits
  <2> QED
    BY <1>1, <1>17, <2>1, <2>3
<1>19. ASSUME NEW c \in Guests, NEW w \in Words, PostDirectly(c, w) PROVE PromoLimits'
  <2> DEFINE g == [NotAsked EXCEPT
                   !.at = "reading", !.word = w, !.service = FirstOnMenu, !.carded = TRUE,
                   !.rules = CHOOSE rules \in PrepayRules : TRUE]
  <2>1. guest' = [guest EXCEPT ![c] = g] /\ UNCHANGED <<tenant, promoField>>
    BY <1>19 DEF PostDirectly
  <2>2. g.tries = 0 /\ g.made = NothingMade
    BY DEF NotAsked
  <2> HIDE DEF g
  <2>3. GuestLimits(g)
    BY <1>1, <2>2 DEF GuestLimits
  <2> QED
    BY <1>1, <1>17, <2>1, <2>3
<1>20. ASSUME NEW c \in Guests, NEW g, GuestBecomes(c, g), GuestLimits(g), OnlyGuest PROVE PromoLimits'
  BY <1>1, <1>17, <1>20 DEF GuestBecomes, OnlyGuest
<1>21. ASSUME NEW c \in Guests, NEW rules \in PrepayRules, NEW carded \in BOOLEAN, ReadSettings(c, rules, carded) PROVE PromoLimits'
  <2> DEFINE refused == [guest[c] EXCEPT !.at = "refused"]
             reading == [guest[c] EXCEPT !.at = "reading", !.rules = rules, !.carded = carded]
  <2>1. OnlyGuest /\ (GuestBecomes(c, refused) \/ GuestBecomes(c, reading))
    BY <1>21 DEF ReadSettings
  <2>2. /\ refused.tries = guest[c].tries /\ refused.made = guest[c].made
        /\ reading.tries = guest[c].tries /\ reading.made = guest[c].made
    BY <1>1 DEF GuestShape
  <2> HIDE DEF refused, reading
  <2> QED
    BY <1>5, <1>20, <2>1, <2>2
<1>22. ASSUME NEW c \in Guests, OpenTransaction(c) PROVE PromoLimits'
  <2> DEFINE refused == [guest[c] EXCEPT !.at = "refused"]
             openedRow == [guest[c] EXCEPT !.at = "open",
                             !.seen = IF guest[c].word = NoWord THEN guest[c].seen ELSE promoCode[guest[c].word]]
  <2>1. OnlyGuest /\ (GuestBecomes(c, refused) \/ GuestBecomes(c, openedRow))
    BY <1>1, <1>22 DEF OpenTransaction, GuestShape
  <2>2. /\ refused.tries = guest[c].tries /\ refused.made = guest[c].made
        /\ openedRow.tries = guest[c].tries /\ openedRow.made = guest[c].made
    BY <1>1 DEF GuestShape
  <2> HIDE DEF refused, openedRow
  <2> QED
    BY <1>5, <1>20, <2>1, <2>2
<1>23. ASSUME NEW c \in Guests, Commit(c) PROVE PromoLimits'
  <2> DEFINE visit == VisitMade(c)
             g == [guest[c] EXCEPT !.at = "done", !.seen = NoSale, !.rules = NoRules, !.made = visit]
  <2>1. guest' = [guest EXCEPT ![c] = g] /\ UNCHANGED tenant /\ (promoField' = FreshField \/ promoField' = promoField)
    BY <1>23 DEF Commit, GuestBecomes
  <2>2. visit.mode \in {"NONE", "DEPOSIT", "FULL"}
    BY DEF VisitMade, ModeTold
  <2> HIDE DEF visit
  <2>3. g.tries = guest[c].tries /\ g.made = visit
    BY <1>1 DEF GuestShape
  <2> HIDE DEF g
  <2>4. GuestLimits(g)
    BY <1>1, <2>2, <2>3 DEF GuestLimits
  <2>5. promoField'.status \in FieldStates
    BY <1>1, <2>1 DEF FreshField, FieldStates
  <2> QED
    BY <1>17, <2>1, <2>4, <2>5
<1>24. ASSUME NEW c \in Guests, RanOutMeanwhile(c) PROVE PromoLimits'
  <2> DEFINE g == [guest[c] EXCEPT !.at = "refused", !.seen = NoSale]
  <2>1. g.tries = guest[c].tries /\ g.made = guest[c].made
    BY <1>1 DEF GuestShape
  <2>2. OnlyGuest /\ GuestBecomes(c, g)
    BY <1>24 DEF RanOutMeanwhile
  <2> HIDE DEF g
  <2> QED
    BY <1>5, <1>20, <2>1, <2>2
<1>25. ASSUME NEW c \in Guests, SerializationFailure(c) PROVE PromoLimits'
  <2> DEFINE again == [guest[c] EXCEPT !.at = "reading", !.tries = guest[c].tries + 1, !.seen = NoSale]
             g == [guest[c] EXCEPT !.at = "refused", !.seen = NoSale]
  <2>1. g.tries = guest[c].tries /\ g.made = guest[c].made /\ again.tries = guest[c].tries + 1 /\ again.made = guest[c].made
    BY <1>1 DEF GuestShape
  <2>2. OnlyGuest /\ (GuestBecomes(c, g) \/ (GuestBecomes(c, again) /\ guest[c].tries + 1 < Retries))
    BY <1>1, <1>25 DEF SerializationFailure, GuestShape
  <2> HIDE DEF g, again
  <2>3. GuestLimits(g)
    BY <1>5, <2>1
  <2>4. guest[c].tries + 1 < Retries => GuestLimits(again)
    BY <1>1, <2>1 DEF GuestLimits
  <2> QED
    BY <1>20, <2>2, <2>3, <2>4
<1>26. ASSUME NEW c \in Guests, Refuse(c) PROVE PromoLimits'
  <2>1. guest' = [guest EXCEPT ![c] = NotAsked] /\ UNCHANGED tenant
    BY <1>26 DEF Refuse, GuestBecomes
  <2>2. promoField'.status \in FieldStates
    <3>1. [promoField EXCEPT !.status = "invalid", !.shown = NoPrice, !.doubt = FALSE].status = "invalid"
      BY <1>2
    <3> QED
      BY <1>1, <1>26, <3>1 DEF Refuse, FieldStates
  <2> QED
    BY <1>4, <1>17, <2>1, <2>2
<1>27. CASE UNCHANGED promoVars
  BY <1>1, <1>27 DEF promoVars, PromoLimits
<1> QED
  BY <1>7, <1>8, <1>9, <1>10, <1>12, <1>13, <1>14, <1>15, <1>16, <1>18, <1>19, <1>21, <1>22, <1>23, <1>24, <1>25, <1>26, <1>27
     DEF PromoCodesNext

(* Codes, customers and the form have their types: a code is used by as     *)
(* many customers as there are at most.                                     *)
THEOREM PromoCodesTyped == PromoCodesSpec => []PromoCodesTypeOK
<1>1. PromoCodesInit => PromoLimits
  <2> SUFFICES ASSUME PromoCodesInit PROVE PromoLimits
    OBVIOUS
  <2>1. tenant \in TenantRows
    BY PromoCodesAssumption DEF PromoCodesInit, TenantRows
  <2>2. promoField.status \in FieldStates
    BY DEF PromoCodesInit, FreshField, FieldStates
  <2>3. GuestLimits(NotAsked)
    BY PromoCodesAssumption DEF GuestLimits, NotAsked
  <2> QED
    BY <2>1, <2>2, <2>3 DEF PromoCodesInit, PromoLimits
<1>2. PromoInv /\ PromoLimits => PromoCodesTypeOK
  <2> SUFFICES ASSUME PromoInv, PromoLimits PROVE PromoCodesTypeOK
    OBVIOUS
  <2>1. ASSUME NEW w \in Words, promoCode[w] # NoSale PROVE promoCode[w].count \in 0 .. Cardinality(Guests)
    <3>1. promoCode[w].count = Cardinality(MadeWith(w))
      BY <2>1 DEF PromoInv, Tallied
    <3>2. MadeWith(w) \in SUBSET Guests /\ IsFiniteSet(Guests)
      BY PromoCodesAssumption DEF MadeWith
    <3>3. /\ Cardinality(MadeWith(w)) <= Cardinality(Guests)
          /\ Cardinality(MadeWith(w)) \in Nat /\ Cardinality(Guests) \in Nat
      BY <3>2, FS_Subset, FS_CardinalityType
    <3> QED
      BY <3>1, <3>3
  <2>2. promoField.word \in Words \cup {NoWord} /\ promoField.service \in Menu
    BY DEF PromoInv, PromoFieldFine
  <2>3. \A c \in Guests : guest[c].at \in {"idle", "posted", "reading", "open", "refused", "done"}
    BY DEF PromoInv, GuestFine
  <2> QED
    BY <2>1, <2>2, <2>3 DEF PromoLimits, TenantRows, FieldStates, GuestLimits, PromoCodesTypeOK
<1>3. PromoInv /\ PromoLimits /\ [PromoCodesNext]_promoVars => PromoLimits'
  BY PromoLimitsNext
<1>4. PromoInv /\ [PromoCodesNext]_promoVars => PromoInv'
  BY PromoStep
<1> QED
  BY <1>1, <1>2, <1>3, <1>4, PromoStarts, PTL DEF PromoCodesSpec

FormRows ==
    [wish : Wishes, starts : SUBSET Times, startsOf : Wishes,
     submitting : BOOLEAN, pending : Purpose, gone : BOOLEAN,
     panel : {"off", "sending", "ready", "confirming"}, post : Posts \cup {0},
     waitlist : {"closed", "open", "done"}]
LastCalls == [pc : {"none", "sent", "arrived"}, of : Wishes]
CodeCalls == [for : Purpose, time : Times \cup {0}]

(* The first choice that is missing is the step of the form.                *)
LEMMA StepIsFirstUnchosen ==
  ASSUME NEW w
  PROVE  /\ StepOf(w) \in 1 .. 3 => /\ w.choice[StepOf(w)] = Unchosen
                                    /\ \A k \in 1 .. StepOf(w) - 1 : w.choice[k] # Unchosen
         /\ StepOf(w) \in 1 .. 5
         /\ StepOf(w) = 4 => \A n \in 1 .. 3 : w.choice[n] # Unchosen
<1> DEFINE First(n) == w.choice[n] = Unchosen /\ \A k \in 1 .. n - 1 : w.choice[k] # Unchosen
           n0 == CHOOSE n \in 1 .. 3 : First(n)
<1>1. CASE w.time # 0
  BY <1>1 DEF StepOf
<1>2. CASE w.time = 0 /\ \E n \in 1 .. 3 : w.choice[n] = Unchosen
  <2>1. \E n \in 1 .. 3 : First(n)
    <3>1. CASE w.choice[1] = Unchosen
      BY <3>1
    <3>2. CASE w.choice[1] # Unchosen /\ w.choice[2] = Unchosen
      <4>1. First(2)
        BY <3>2
      <4> QED
        BY <4>1
    <3>3. CASE w.choice[1] # Unchosen /\ w.choice[2] # Unchosen
      <4>1. w.choice[3] = Unchosen
        BY <1>2, <3>3
      <4>2. First(3)
        BY <3>3, <4>1
      <4> QED
        BY <4>2
    <3> QED
      BY <3>1, <3>2, <3>3
  <2>2. n0 \in 1 .. 3 /\ First(n0)
    BY <2>1
  <2>3. StepOf(w) = n0
    BY <1>2 DEF StepOf
  <2> HIDE DEF n0
  <2> QED
    BY <2>2, <2>3
<1>3. CASE w.time = 0 /\ ~\E n \in 1 .. 3 : w.choice[n] = Unchosen
  BY <1>3 DEF StepOf
<1> QED
  BY <1>1, <1>2, <1>3

LEMMA NoWishIsAWish == NoWish \in Wishes
<1>1. NoChoice \in Choices
  BY DEF NoChoice, Choices
<1> QED
  BY <1>1 DEF NoWish, Wishes

(* Only the first missing choice is made, and only the last one taken back. *)
LEMMA ChoicesStay ==
  ASSUME NEW w \in Wishes, NEW s \in 1 .. 3, NEW v
  PROVE  /\ s = StepOf(w) /\ v \in Offers[s] => [w.choice EXCEPT ![s] = v] \in Choices
         /\ s + 1 = StepOf(w) /\ v = Unchosen => [w.choice EXCEPT ![s] = v] \in Choices
<1> DEFINE every == (UNION {Offers[n] : n \in 1 .. 3}) \cup {Unchosen}
           c == w.choice
           next == [c EXCEPT ![s] = v]
<1>1. /\ c \in [1 .. 3 -> every]
      /\ \A n \in 1 .. 3 : /\ c[n] \in Offers[n] \cup {Unchosen}
                           /\ n > 1 /\ c[n] # Unchosen => c[n - 1] # Unchosen
  <2>1. c \in Choices
    BY DEF Wishes
  <2> QED
    BY <2>1 DEF Choices
<1>2. ASSUME v \in Offers[s] \cup {Unchosen} PROVE v \in every
  BY <1>2
<1>3. ASSUME NEW f \in [1 .. 3 -> every],
             \A n \in 1 .. 3 : /\ f[n] \in Offers[n] \cup {Unchosen}
                               /\ n > 1 /\ f[n] # Unchosen => f[n - 1] # Unchosen
      PROVE  f \in Choices
  BY <1>3 DEF Choices
<1> HIDE DEF every, c
<1>4. ASSUME s = StepOf(w), v \in Offers[s] PROVE next \in Choices
  <2>1. c[s] = Unchosen /\ \A k \in 1 .. s - 1 : c[k] # Unchosen
    BY <1>4, StepIsFirstUnchosen DEF c
  <2>2. next \in [1 .. 3 -> every]
    BY <1>1, <1>2, <1>4
  <2>3. ASSUME NEW n \in 1 .. 3
        PROVE  /\ next[n] \in Offers[n] \cup {Unchosen}
               /\ n > 1 /\ next[n] # Unchosen => next[n - 1] # Unchosen
    <3>1. v # Unchosen
      BY <1>4, BookingFormAssumption
    <3> QED
      BY <1>1, <1>4, <2>1, <3>1
  <2> HIDE DEF next
  <2> QED
    BY <1>3, <2>2, <2>3
<1>5. ASSUME s + 1 = StepOf(w), v = Unchosen PROVE next \in Choices
  <2>1. s + 1 \in 1 .. 3 => c[s + 1] = Unchosen
    BY <1>5, StepIsFirstUnchosen DEF c
  <2>2. next \in [1 .. 3 -> every]
    BY <1>1, <1>2, <1>5
  <2>3. ASSUME NEW n \in 1 .. 3
        PROVE  /\ next[n] \in Offers[n] \cup {Unchosen}
               /\ n > 1 /\ next[n] # Unchosen => next[n - 1] # Unchosen
    BY <1>1, <1>5, <2>1
  <2> HIDE DEF next
  <2> QED
    BY <1>3, <2>2, <2>3
<1> QED
  BY <1>4, <1>5 DEF c

LEMMA RenderedRows == ASSUME NEW f \in FormRows PROVE Rendered(f) \in FormRows
<1> DEFINE has == HasPanel(f)
           panel == IF has THEN IF f.panel = "off" THEN "sending" ELSE f.panel ELSE "off"
           post == IF has THEN f.post ELSE 0
<1>1. panel \in {"off", "sending", "ready", "confirming"} /\ post \in Posts \cup {0}
  BY DEF FormRows
<1>2. Rendered(f) = [f EXCEPT !.panel = panel, !.post = post]
  BY DEF Rendered
<1> HIDE DEF panel, post
<1> QED
  BY <1>1, <1>2 DEF FormRows

LEMMA FormTypesStart == BookingFormInit => BookingFormTypeOK
<1> SUFFICES ASSUME BookingFormInit PROVE BookingFormTypeOK
  OBVIOUS
<1>1. PICK c \in Choices :
        /\ form = [wish |-> [NoWish EXCEPT !.choice = c], starts |-> {}, startsOf |-> NoWish,
                   submitting |-> FALSE, pending |-> "none", gone |-> FALSE,
                   panel |-> "off", post |-> 0, waitlist |-> "closed"]
        /\ stripCall = IF c[3] # Unchosen THEN "sent" ELSE "none"
  BY DEF BookingFormInit
<1> DEFINE wish == [NoWish EXCEPT !.choice = c]
<1>2. wish \in Wishes
  BY NoWishIsAWish DEF Wishes
<1>3. form \in FormRows
  <2> HIDE DEF wish
  <2> QED
    BY <1>1, <1>2, NoWishIsAWish DEF FormRows, Purpose, wish
<1>4. slotCall \in LastCalls
  BY NoWishIsAWish DEF BookingFormInit, LastCalls
<1>5. bookCall \in [Posts -> Times \cup {0}] /\ codeCall \in [Posts -> CodeCalls]
  BY DEF BookingFormInit, CodeCalls, Purpose
<1>6. stripCall \in {"none", "sent"}
  BY <1>1
<1> QED
  BY <1>3, <1>4, <1>5, <1>6 DEF BookingFormInit, BookingFormTypeOK, FormRows, LastCalls, CodeCalls

LEMMA FormTypesNext ==
  ASSUME BookingFormTypeOK, [BookingFormNext]_formVars
  PROVE  BookingFormTypeOK'
<1>1. /\ form \in FormRows /\ stripCall \in {"none", "sent"} /\ slotCall \in LastCalls
      /\ bookCall \in [Posts -> Times \cup {0}] /\ codeCall \in [Posts -> CodeCalls]
      /\ waitCall \in BOOLEAN /\ dayWanted \in Days \cup {0}
      /\ lateAnswer \in BOOLEAN /\ leftPanel \in BOOLEAN
  BY DEF BookingFormTypeOK, FormRows, LastCalls, CodeCalls
<1>2. ASSUME form' \in FormRows, stripCall' \in {"none", "sent"}, slotCall' \in LastCalls,
             bookCall' \in [Posts -> Times \cup {0}], codeCall' \in [Posts -> CodeCalls],
             waitCall' \in BOOLEAN, dayWanted' \in Days \cup {0},
             lateAnswer' \in BOOLEAN, leftPanel' \in BOOLEAN
      PROVE  BookingFormTypeOK'
  BY <1>2 DEF BookingFormTypeOK, FormRows, LastCalls, CodeCalls, Wishes, Choices, Purpose
<1>3. /\ form.wish \in Wishes /\ form.startsOf \in Wishes /\ form.starts \subseteq Times
      /\ form.wish.choice \in Choices /\ form.wish.time \in Times \cup {0}
      /\ form.pending \in Purpose
  BY <1>1 DEF FormRows, Wishes
<1>4. /\ Aborted(slotCall) \in LastCalls /\ slotCall.of \in Wishes
      /\ \A pc \in {"none", "arrived"} : [slotCall EXCEPT !.pc = pc] \in LastCalls
  BY <1>1 DEF Aborted, LastCalls
<1>5. ASSUME NEW f \in FormRows, Draws(f) PROVE form' \in FormRows /\ leftPanel' \in BOOLEAN
  BY <1>1, <1>5, RenderedRows DEF Draws
<1>6. ASSUME NEW f \in FormRows, NEW time \in Times \cup {0}
      PROVE  [f EXCEPT !.wish.time = time] \in FormRows
  <2> DEFINE wish == [f.wish EXCEPT !.time = time]
  <2>1. f.wish \in Wishes
    BY DEF FormRows
  <2>2. wish \in Wishes
    BY <2>1 DEF Wishes
  <2>3. [f EXCEPT !.wish.time = time] = [f EXCEPT !.wish = wish]
    OBVIOUS
  <2> HIDE DEF wish
  <2> QED
    BY <2>2, <2>3 DEF FormRows
<1>7. ASSUME NEW c \in Choices, ChangesChoice(c) PROVE BookingFormTypeOK'
  <2> DEFINE wish == [NoWish EXCEPT !.choice = c]
             f == [form EXCEPT !.wish = wish, !.starts = {}, !.startsOf = NoWish]
  <2>1. wish \in Wishes
    BY NoWishIsAWish DEF Wishes
  <2>2. f \in FormRows
    <3> HIDE DEF wish
    <3> QED
      BY <1>1, <2>1, NoWishIsAWish DEF FormRows
  <2>3. Draws(f)
    BY <1>7 DEF ChangesChoice
  <2> HIDE DEF f, wish
  <2>4. /\ stripCall' \in {"none", "sent"} /\ slotCall' \in LastCalls /\ lateAnswer' \in BOOLEAN
        /\ dayWanted' = 0 /\ UNCHANGED <<bookCall, codeCall, waitCall>>
    BY <1>1, <1>4, <1>7 DEF ChangesChoice, ClearedCall, PostsKept
  <2> QED
    BY <1>1, <1>2, <1>5, <2>2, <2>3, <2>4
<1>8. ASSUME NEW v, ChoosePart(v) PROVE BookingFormTypeOK'
  <2>1. [form.wish.choice EXCEPT ![Step] = v] \in Choices
    BY <1>3, <1>8, ChoicesStay DEF ChoosePart, Step
  <2> QED
    BY <1>7, <1>8, <2>1 DEF ChoosePart
<1>9. ASSUME FetchesKept, PostsKept, NEW f \in FormRows, Draws(f) PROVE BookingFormTypeOK'
  BY <1>1, <1>2, <1>5, <1>9 DEF FetchesKept, PostsKept
<1>10. ASSUME GoBack PROVE BookingFormTypeOK'
  <2>1. CASE Step \in 2 .. 4 /\ ChangesChoice([form.wish.choice EXCEPT ![Step - 1] = Unchosen])
    <3>1. Step - 1 \in 1 .. 3 /\ (Step - 1) + 1 = Step
      BY <2>1
    <3>2. [form.wish.choice EXCEPT ![Step - 1] = Unchosen] \in Choices
      BY <1>3, <3>1, ChoicesStay DEF Step
    <3> QED
      BY <1>7, <2>1, <3>2
  <2>2. CASE Draws([form EXCEPT !.wish.time = 0]) /\ FetchesKept /\ PostsKept
    BY <1>1, <1>6, <1>9, <2>2
  <2> QED
    BY <1>10, <2>1, <2>2 DEF GoBack
<1>11. ASSUME NEW day \in Days \cup {0}, LoadSlots(day)
       PROVE  /\ form' \in FormRows /\ leftPanel' \in BOOLEAN
              /\ slotCall' \in LastCalls /\ lateAnswer' \in BOOLEAN
  <2> DEFINE wish == [form.wish EXCEPT !.day = day, !.time = 0]
             f == [form EXCEPT !.wish = wish, !.starts = {}, !.startsOf = NoWish,
                               !.waitlist = "closed"]
  <2>1. wish \in Wishes
    BY <1>3 DEF Wishes
  <2>2. Draws(f)
    <3>1. f = [form EXCEPT !.wish.day = day, !.wish.time = 0, !.starts = {},
                           !.startsOf = NoWish, !.waitlist = "closed"]
      BY <1>1 DEF FormRows
    <3> QED
      BY <1>11, <3>1 DEF LoadSlots
  <2>3. slotCall' = Aborted(slotCall) \/ slotCall' = [pc |-> "sent", of |-> wish]
    BY <1>11 DEF LoadSlots
  <2> HIDE DEF wish
  <2>4. f \in FormRows
    BY <1>1, <2>1, NoWishIsAWish DEF FormRows
  <2>5. slotCall' \in LastCalls
    BY <1>4, <2>1, <2>3 DEF LastCalls
  <2> HIDE DEF f
  <2> QED
    BY <1>1, <1>5, <1>11, <2>2, <2>4, <2>5 DEF LoadSlots
<1>12. ASSUME NEW day \in Days \cup {0}, PickDay(day) PROVE BookingFormTypeOK'
  BY <1>1, <1>2, <1>11, <1>12 DEF PickDay, PostsKept
<1>13. ASSUME NEW day \in Days \cup {0}, StripAnswered(day) PROVE BookingFormTypeOK'
  BY <1>1, <1>2, <1>11, <1>13 DEF StripAnswered, PostsKept
<1>14. ASSUME SlotsArrive PROVE BookingFormTypeOK'
  BY <1>1, <1>2, <1>4, <1>14 DEF SlotsArrive, PostsKept, HistoryKept
<1>15. ASSUME NEW S \in SUBSET Times, SlotsAnswered(S) PROVE BookingFormTypeOK'
  <2>1. form' \in FormRows
    BY <1>1, <1>4, <1>15 DEF SlotsAnswered, FormRows
  <2> QED
    BY <1>1, <1>2, <1>4, <1>15, <2>1 DEF SlotsAnswered, PostsKept, HistoryKept
<1>16. ASSUME NEW time \in Times, PickTime(time) PROVE BookingFormTypeOK'
  BY <1>1, <1>6, <1>9, <1>16 DEF PickTime
<1>17. ASSUME NEW k \in Posts, NEW time \in Times \cup {0}, SendsBooking(k, time)
       PROVE  bookCall' \in [Posts -> Times \cup {0}]
  BY <1>1, <1>17 DEF SendsBooking
<1>18. ASSUME NEW k \in Posts, SubmitBooking(k) PROVE BookingFormTypeOK'
  <2>1. form' \in FormRows
    BY <1>1, <1>18 DEF SubmitBooking, FormRows
  <2>2. bookCall' \in [Posts -> Times \cup {0}]
    BY <1>3, <1>17, <1>18 DEF SubmitBooking
  <2> QED
    BY <1>1, <1>2, <1>18, <2>1, <2>2 DEF SubmitBooking, FetchesKept
<1>19. ASSUME NEW k \in Posts, NEW answer \in {"created", "verify", "conflict", "error"},
              BookingAnswered(k, answer)
       PROVE  BookingFormTypeOK'
  <2> DEFINE settled == [form EXCEPT !.submitting = FALSE]
             f == CASE answer = "created"  -> [settled EXCEPT !.gone = TRUE]
                    [] answer = "verify"   -> [settled EXCEPT !.pending = "booking"]
                    [] answer = "conflict" -> [settled EXCEPT !.wish.time = 0,
                                                 !.starts = @ \ {bookCall[k]}]
                    [] answer = "error"    -> settled
  <2>1. Draws(f)
    BY <1>19 DEF BookingAnswered
  <2>2. settled \in FormRows
    BY <1>1 DEF FormRows
  <2>3. /\ [settled EXCEPT !.gone = TRUE] \in FormRows
        /\ [settled EXCEPT !.pending = "booking"] \in FormRows
    BY <2>2 DEF FormRows, Purpose
  <2>4. [settled EXCEPT !.wish.time = 0, !.starts = @ \ {bookCall[k]}] \in FormRows
    <3> DEFINE open == settled.starts \ {bookCall[k]}
               timeless == [settled EXCEPT !.wish.time = 0]
    <3>1. open \subseteq Times
      BY <2>2 DEF FormRows
    <3>2. timeless \in FormRows
      BY <1>6, <2>2
    <3>3. [settled EXCEPT !.wish.time = 0, !.starts = @ \ {bookCall[k]}]
            = [timeless EXCEPT !.starts = open]
      BY <2>2 DEF FormRows
    <3> HIDE DEF timeless, open
    <3> QED
      BY <3>1, <3>2, <3>3, ZenonT(30) DEF FormRows
  <2>5. f \in FormRows
    BY <2>2, <2>3, <2>4
  <2>6. bookCall' \in [Posts -> Times \cup {0}]
    BY <1>1, <1>19 DEF BookingAnswered
  <2> HIDE DEF f, settled
  <2> QED
    BY <1>1, <1>2, <1>5, <1>19, <2>1, <2>5, <2>6 DEF BookingAnswered, FetchesKept
<1>20. ASSUME OpenWaitlist \/ CloseWaitlist PROVE BookingFormTypeOK'
  <2>1. /\ [form EXCEPT !.waitlist = "open", !.pending = "none"] \in FormRows
        /\ [form EXCEPT !.waitlist = "closed"] \in FormRows
    BY <1>1 DEF FormRows, Purpose
  <2> QED
    BY <1>9, <1>20, <2>1 DEF OpenWaitlist, CloseWaitlist
<1>21. ASSUME SubmitWaitlist PROVE BookingFormTypeOK'
  BY <1>1, <1>2, <1>21 DEF SubmitWaitlist, FetchesKept
<1>22. ASSUME NEW answer \in {"joined", "verify", "error"}, WaitlistAnswered(answer)
       PROVE  BookingFormTypeOK'
  <2> DEFINE left == IF form.waitlist = "open" THEN "done" ELSE form.waitlist
             f == CASE answer = "joined" -> [form EXCEPT !.pending = "none", !.waitlist = left]
                    [] answer = "verify" -> [form EXCEPT !.pending = "waitlist"]
                    [] answer = "error"  -> form
  <2>1. Draws(f)
    BY <1>22 DEF WaitlistAnswered
  <2>2. left \in {"closed", "open", "done"}
    BY <1>1 DEF FormRows
  <2> HIDE DEF left
  <2>3. /\ [form EXCEPT !.pending = "none", !.waitlist = left] \in FormRows
        /\ [form EXCEPT !.pending = "waitlist"] \in FormRows
    BY <1>1, <2>2 DEF FormRows, Purpose
  <2>4. f \in FormRows
    BY <1>1, <2>3
  <2> HIDE DEF f
  <2> QED
    BY <1>1, <1>2, <1>5, <1>22, <2>1, <2>4 DEF WaitlistAnswered, FetchesKept
<1>23. ASSUME CodeSent PROVE BookingFormTypeOK'
  <2>1. form' \in FormRows
    BY <1>1, <1>23 DEF CodeSent, FormRows
  <2> QED
    BY <1>1, <1>2, <1>23, <2>1 DEF CodeSent, FetchesKept, PostsKept
<1>24. ASSUME NEW k \in Posts, NEW call \in CodeCalls
       PROVE  [codeCall EXCEPT ![k] = call] \in [Posts -> CodeCalls]
  BY <1>1
<1>25. [for |-> "none", time |-> 0] \in CodeCalls
  BY DEF CodeCalls, Purpose
<1>26. ASSUME NEW k \in Posts, EnterCode(k) PROVE BookingFormTypeOK'
  <2> DEFINE time == IF form.pending = "booking" THEN form.wish.time ELSE 0
  <2>1. time \in Times \cup {0}
    BY <1>3
  <2>2. codeCall' = [codeCall EXCEPT ![k] = [for |-> form.pending, time |-> time]]
    BY <1>26 DEF EnterCode
  <2> HIDE DEF time
  <2>3. [for |-> form.pending, time |-> time] \in CodeCalls
    BY <1>3, <2>1 DEF CodeCalls
  <2>4. form' \in FormRows
    BY <1>1, <1>26 DEF EnterCode, FormRows
  <2> QED
    BY <1>1, <1>2, <1>24, <1>26, <2>2, <2>3, <2>4 DEF EnterCode, FetchesKept
<1>27. ASSUME NEW k \in Posts, CodeRefused(k) PROVE BookingFormTypeOK'
  <2>1. form' \in FormRows
    BY <1>1, <1>27 DEF CodeRefused, FormRows
  <2>2. codeCall' \in [Posts -> CodeCalls]
    BY <1>24, <1>25, <1>27 DEF CodeRefused
  <2> QED
    BY <1>1, <1>2, <1>27, <2>1, <2>2 DEF CodeRefused, FetchesKept
<1>28. ASSUME NEW k \in Posts, NEW p \in Posts, CodeConfirmed(k, p) PROVE BookingFormTypeOK'
  <2>1. /\ [form EXCEPT !.pending = "none", !.submitting = TRUE] \in FormRows
        /\ [form EXCEPT !.pending = "none"] \in FormRows
    BY <1>1 DEF FormRows, Purpose
  <2>2. form' \in FormRows
    BY <1>28, <2>1, RenderedRows DEF CodeConfirmed
  <2>3. codeCall[k].time \in Times \cup {0}
    BY <1>1 DEF CodeCalls
  <2>4. bookCall' \in [Posts -> Times \cup {0}] /\ waitCall' \in BOOLEAN
    BY <1>1, <1>17, <1>28, <2>3 DEF CodeConfirmed
  <2>5. codeCall' \in [Posts -> CodeCalls]
    BY <1>24, <1>25, <1>28 DEF CodeConfirmed
  <2> QED
    BY <1>1, <1>2, <1>28, <2>2, <2>4, <2>5 DEF CodeConfirmed, FetchesKept
<1>29. CASE UNCHANGED formVars
  BY <1>1, <1>2, <1>29 DEF formVars
<1> QED
  BY <1>8, <1>10, <1>12, <1>13, <1>14, <1>15, <1>16, <1>18, <1>19, <1>20, <1>21, <1>22, <1>23,
     <1>26, <1>27, <1>28, <1>29, ZenonT(60) DEF BookingFormNext

(* The form, its requests for days and times, its bookings and codes on     *)
(* their way (booking-form.tsx) keep their types: choices are made in order *)
(* and taken back in order.                                                 *)
THEOREM BookingFormTyped == BookingFormSpec => []BookingFormTypeOK
BY FormTypesStart, FormTypesNext, PTL DEF BookingFormSpec
=============================================================================
