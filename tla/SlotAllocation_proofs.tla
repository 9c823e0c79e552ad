----------------------- MODULE SlotAllocation_proofs -----------------------
(***************************************************************************)
(* For every catalogue, every number of bookings and of requests in flight: *)
(* the rows are well formed, and, when the two conditions on the catalogue  *)
(* hold, every operation of the code is a step of the abstract calendar.    *)
(***************************************************************************)
EXTENDS SlotAllocation, FiniteSetTheorems, TLAPS

USE DurationsAssumption, CatalogueAssumption, PolicyAssumption

LEMMA StartsAreIntegers == \A start \in Starts : start \in Int
  BY DEF Starts

LEMMA TypeInit == Init => TypeOK
  BY DEF Init, TypeOK, Idle, MoveRequest, StatusRequest, ReserveRequest

\* Steps that leave the rows alone and change one request.
LEMMA TypeRequest ==
  ASSUME TypeOK, NEW r \in Requests, NEW q \in Pending \cup {Idle},
         req' = [req EXCEPT ![r] = q], UNCHANGED <<now, booking, revived>>,
         q \in ReserveRequest => <<q.staff, q.service>> \in Assigned,
         q \in MoveRequest \cup StatusRequest => q.booking \in DOMAIN booking,
         q \in MoveRequest => <<q.staff, booking[q.booking].service>> \in Assigned
  PROVE  TypeOK'
BY DEF TypeOK

\* Steps that change one existing row, keep its service, and end the request that made them.
LEMMA TypeRow ==
  ASSUME TypeOK, NEW b \in DOMAIN booking, NEW row \in Row,
         booking' = [booking EXCEPT ![b] = row],
         row.service = booking[b].service,
         <<row.staff, row.service>> \in Assigned,
         req' = req \/ \E r \in Requests : req' = [req EXCEPT ![r] = Idle],
         revived' \subseteq {x \in DOMAIN booking' : booking'[x].status = "CONFIRMED"},
         UNCHANGED now
  PROVE  TypeOK'
<1>1. DOMAIN booking' = DOMAIN booking
  OBVIOUS
<1>2. booking' \in [DOMAIN booking -> Row]
  BY DEF TypeOK
<1>3. \A x \in DOMAIN booking :
        /\ <<booking'[x].staff, booking'[x].service>> \in Assigned
        /\ booking'[x].service = booking[x].service
  BY DEF TypeOK
<1>4. req' \in [Requests -> Pending \cup {Idle}]
  BY DEF TypeOK
<1>5. \A r \in Requests : req'[r] = req[r] \/ req'[r] = Idle
  BY DEF TypeOK
<1>6. Idle \notin MoveRequest \cup StatusRequest /\ Idle \notin ReserveRequest
  BY DEF Idle, MoveRequest, StatusRequest, ReserveRequest
<1>7. \A r \in Requests :
        /\ req'[r] \in ReserveRequest => <<req'[r].staff, req'[r].service>> \in Assigned
        /\ req'[r] \in MoveRequest \cup StatusRequest => req'[r].booking \in DOMAIN booking
        /\ req'[r] \in MoveRequest => <<req'[r].staff, booking'[req'[r].booking].service>> \in Assigned
  BY <1>3, <1>5, <1>6 DEF TypeOK
<1> QED
  BY <1>1, <1>2, <1>3, <1>4, <1>7 DEF TypeOK

\* The tag of a request tells what it is.
LEMMA RequestKinds ==
  ASSUME TypeOK, NEW r \in Requests
  PROVE  /\ req[r].op = "reserve" => req[r] \in ReserveRequest
         /\ req[r].op = "move" => req[r] \in MoveRequest
         /\ req[r].op \in {"confirm", "cancel", "noShow", "conditionalCancel"} => req[r] \in StatusRequest
BY DEF TypeOK, Pending, Idle, ReserveRequest, MoveRequest, StatusRequest

\* A step that only sets the status of one existing row.
LEMMA TypeStatus ==
  ASSUME TypeOK, NEW b \in DOMAIN booking, NEW status \in Statuses, SetStatus(b, status),
         req' = req \/ \E r \in Requests : req' = [req EXCEPT ![r] = Idle],
         revived' \subseteq {x \in DOMAIN booking' : booking'[x].status = "CONFIRMED"},
         UNCHANGED now
  PROVE  TypeOK'
<1> DEFINE row == [booking[b] EXCEPT !.status = status]
<1>1. booking[b] \in Row
  BY DEF TypeOK
<1>2. row \in Row /\ row.service = booking[b].service /\ row.staff = booking[b].staff
  BY <1>1 DEF Row
<1>3. booking' = [booking EXCEPT ![b] = row]
  BY DEF SetStatus
<1>4. <<row.staff, row.service>> \in Assigned
  BY <1>2 DEF TypeOK
<1> HIDE DEF row
<1> QED
  BY <1>2, <1>3, <1>4, TypeRow

\* What a reschedule writes.
LEMMA RescheduledRow ==
  ASSUME TypeOK, NEW r \in Requests, Reschedule(r)
  PROVE  LET b == req[r].booking
             row == booking'[b] IN
         /\ b \in DOMAIN booking
         /\ booking' = [booking EXCEPT ![b] = row]
         /\ row \in Row
         /\ row.service = booking[b].service
         /\ row.status = booking[b].status
         /\ row.staff = MoveTarget(req[r])
         /\ row.startsAt = req[r].startsAt
         /\ row.moves = booking[b].moves + (IF req[r].actor = "customer" THEN 1 ELSE 0)
         /\ <<row.staff, row.service>> \in Assigned
<1> DEFINE q == req[r]
           b == q.booking
           more == IF q.actor = "customer" THEN 1 ELSE 0
           moved == [booking[b] EXCEPT !.startsAt = q.startsAt]
           given == [moved EXCEPT !.staff = MoveTarget(q)]
           row == [given EXCEPT !.moves = @ + more]
<1>1. q \in MoveRequest
  BY RequestKinds DEF Reschedule
<1>2. b \in DOMAIN booking /\ booking[b] \in Row
  BY <1>1 DEF TypeOK
<1>3. MoveTarget(q) \in Staff /\ <<MoveTarget(q), booking[b].service>> \in Assigned
  BY <1>1, <1>2 DEF MoveTarget, TypeOK, Row, MoveRequest
<1>4. booking' = [booking EXCEPT ![b] = row]
  BY ZenonT(40) DEF Reschedule
<1>5. more \in Nat
  OBVIOUS
<1> HIDE DEF more
<1>6. /\ moved \in Row
      /\ moved.service = booking[b].service
      /\ moved.status = booking[b].status
      /\ moved.moves = booking[b].moves
      /\ moved.startsAt = q.startsAt
  BY <1>1, <1>2 DEF Row, MoveRequest
<1> HIDE DEF moved
<1>7. /\ given \in Row
      /\ given.service = moved.service
      /\ given.status = moved.status
      /\ given.staff = MoveTarget(q)
      /\ given.moves = moved.moves
      /\ given.startsAt = moved.startsAt
      /\ given.moves \in Nat
  BY <1>3, <1>6 DEF Row
<1> HIDE DEF given
<1>8. /\ row \in Row
      /\ row.service = given.service
      /\ row.status = given.status
      /\ row.staff = given.staff
      /\ row.startsAt = given.startsAt
      /\ row.moves = given.moves + more
  BY <1>5, <1>7 DEF Row
<1> HIDE DEF row
<1>9. booking'[b] = row
  BY <1>2, <1>4
<1> QED
  BY <1>2, <1>3, <1>4, <1>6, <1>7, <1>8, <1>9 DEF more

LEMMA TypeNext == TypeOK /\ [Next]_vars => TypeOK'
<1> SUFFICES ASSUME TypeOK, [Next]_vars PROVE TypeOK'
  OBVIOUS
<1>1. ASSUME NEW r \in Requests, NEW actor \in Actors, NEW sv \in Services, NEW st \in Staff,
             NEW start \in Starts, SearchSlot(r, actor, sv, st, start)
      PROVE  TypeOK'
  <2> DEFINE q == [op |-> "reserve", actor |-> actor, service |-> sv, staff |-> st, startsAt |-> start]
  <2>1. q \in ReserveRequest /\ q \notin MoveRequest \cup StatusRequest
    BY DEF ReserveRequest, MoveRequest, StatusRequest
  <2>2. q \in Pending /\ <<q.staff, q.service>> \in Assigned
    BY <1>1, <2>1 DEF Pending, SearchSlot, Available, Performs
  <2>3. req' = [req EXCEPT ![r] = q] /\ UNCHANGED <<now, booking, revived>>
    BY <1>1 DEF SearchSlot, Begin
  <2> HIDE DEF q
  <2> QED
    BY <2>1, <2>2, <2>3, TypeRequest
<1>2. ASSUME NEW r \in Requests, NEW b \in Bookings, NEW due \in BOOLEAN, ReserveAllocation(r, b, due)
      PROVE  TypeOK'
  <2> DEFINE q == req[r]
             row == [status |-> IF q.actor = "customer" /\ due THEN "PENDING_PAYMENT" ELSE "CONFIRMED",
                     service |-> q.service, staff |-> q.staff, startsAt |-> q.startsAt, moves |-> 0]
  <2>1. q \in ReserveRequest
    BY <1>2, RequestKinds DEF ReserveAllocation
  <2>2. row \in Row /\ <<row.staff, row.service>> \in Assigned
    BY <2>1 DEF ReserveRequest, Row, Statuses, Active, TypeOK
  <2>3. /\ b \notin DOMAIN booking
        /\ booking' = [x \in DOMAIN booking \cup {b} |-> IF x # b THEN booking[x] ELSE row]
        /\ req' = [req EXCEPT ![r] = Idle]
        /\ UNCHANGED <<now, revived>>
    BY <1>2 DEF ReserveAllocation, Finish
  <2> HIDE DEF row
  <2>4. /\ DOMAIN booking' = DOMAIN booking \cup {b}
        /\ booking'[b] = row
        /\ \A x \in DOMAIN booking : booking'[x] = booking[x]
    BY <2>3
  <2>5. booking' \in [DOMAIN booking' -> Row]
    BY <2>2, <2>3 DEF TypeOK
  <2>6. Idle \notin MoveRequest \cup StatusRequest /\ Idle \notin ReserveRequest
    BY DEF Idle, MoveRequest, StatusRequest, ReserveRequest
  <2>7. \A x \in Requests : req'[x] = req[x] \/ req'[x] = Idle
    BY <2>3 DEF TypeOK
  <2>8. \A x \in Requests :
        /\ req'[x] \in ReserveRequest => <<req'[x].staff, req'[x].service>> \in Assigned
        /\ req'[x] \in MoveRequest \cup StatusRequest => req'[x].booking \in DOMAIN booking'
        /\ req'[x] \in MoveRequest => <<req'[x].staff, booking'[req'[x].booking].service>> \in Assigned
    BY <2>4, <2>6, <2>7 DEF TypeOK
  <2>9. req' \in [Requests -> Pending \cup {Idle}]
    BY <2>3 DEF TypeOK
  <2> QED
    BY <2>2, <2>3, <2>4, <2>5, <2>8, <2>9 DEF TypeOK
<1>3. ASSUME NEW r \in Requests, NEW b \in DOMAIN booking, NEW start \in Starts, ReadCustomerMove(r, b, start)
      PROVE  TypeOK'
  <2> DEFINE q == [op |-> "move", actor |-> "customer", booking |-> b, staff |-> booking[b].staff, startsAt |-> start]
  <2>1. booking[b] \in Row /\ b \in Bookings
    BY DEF TypeOK
  <2>2. q \in MoveRequest /\ q \notin ReserveRequest
    BY <2>1 DEF MoveRequest, ReserveRequest, Row, Actors
  <2>3. <<q.staff, booking[q.booking].service>> \in Assigned
    BY DEF TypeOK
  <2>4. req' = [req EXCEPT ![r] = q] /\ UNCHANGED <<now, booking, revived>>
    BY <1>3 DEF ReadCustomerMove, Begin
  <2>5. q.booking \in DOMAIN booking
    OBVIOUS
  <2> HIDE DEF q
  <2> QED
    BY <2>2, <2>3, <2>4, <2>5, TypeRequest DEF Pending
<1>4. ASSUME NEW r \in Requests, NEW b \in DOMAIN booking, NEW st \in Staff, NEW start \in Starts,
             ReadStaffMove(r, b, st, start)
      PROVE  TypeOK'
  <2> DEFINE q == [op |-> "move", actor |-> "staff", booking |-> b, staff |-> st, startsAt |-> start]
  <2>1. b \in Bookings
    BY DEF TypeOK
  <2>2. q \in MoveRequest /\ q \notin ReserveRequest
    BY <2>1 DEF MoveRequest, ReserveRequest, Actors
  <2>3. <<q.staff, booking[q.booking].service>> \in Assigned
    BY <1>4 DEF ReadStaffMove, Available, Performs
  <2>4. req' = [req EXCEPT ![r] = q] /\ UNCHANGED <<now, booking, revived>>
    BY <1>4 DEF ReadStaffMove, Begin
  <2>5. q.booking \in DOMAIN booking
    OBVIOUS
  <2> HIDE DEF q
  <2> QED
    BY <2>2, <2>3, <2>4, <2>5, TypeRequest DEF Pending
<1>5. ASSUME NEW r \in Requests, Reschedule(r) PROVE TypeOK'
  <2> DEFINE b == req[r].booking
             row == booking'[b]
  <2>1. /\ b \in DOMAIN booking
        /\ booking' = [booking EXCEPT ![b] = row]
        /\ row \in Row
        /\ row.service = booking[b].service
        /\ row.status = booking[b].status
        /\ <<row.staff, row.service>> \in Assigned
    BY <1>5, RescheduledRow
  <2>2. req' = [req EXCEPT ![r] = Idle] /\ UNCHANGED now /\ revived' = revived \ {b}
    BY <1>5 DEF Reschedule, Finish
  <2>3. revived' \subseteq {x \in DOMAIN booking' : booking'[x].status = "CONFIRMED"}
    BY <2>1, <2>2 DEF TypeOK
  <2> HIDE DEF row, b
  <2> QED
    BY <2>1, <2>2, <2>3, TypeRow
<1>6. ASSUME NEW r \in Requests, RefuseSlot(r) \/ Abandon(r) PROVE TypeOK'
  <2>1. req' = [req EXCEPT ![r] = Idle] /\ UNCHANGED <<now, booking, revived>>
    BY <1>6 DEF RefuseSlot, Abandon, Finish
  <2>2. Idle \notin MoveRequest \cup StatusRequest /\ Idle \notin ReserveRequest
    BY DEF Idle, MoveRequest, StatusRequest, ReserveRequest
  <2> QED
    BY <2>1, <2>2, TypeRequest
<1>7. ASSUME NEW r \in Requests, NEW b \in DOMAIN booking,
             NEW op \in {"confirm", "cancel", "noShow", "conditionalCancel"},
             Begin(r, [op |-> op, booking |-> b])
      PROVE  TypeOK'
  <2> DEFINE q == [op |-> op, booking |-> b]
  <2>1. q \in StatusRequest /\ q \notin ReserveRequest /\ q \notin MoveRequest /\ q.booking \in DOMAIN booking
    BY DEF StatusRequest, ReserveRequest, MoveRequest, TypeOK
  <2>2. req' = [req EXCEPT ![r] = q] /\ UNCHANGED <<now, booking, revived>>
    BY <1>7 DEF Begin
  <2> HIDE DEF q
  <2> QED
    BY <2>1, <2>2, TypeRequest DEF Pending
<1>8. ASSUME NEW r \in Requests, CommitConfirm(r) PROVE TypeOK'
  <2> DEFINE b == req[r].booking
  <2>1. b \in DOMAIN booking
    BY <1>8, RequestKinds DEF CommitConfirm, TypeOK
  <2>2. revived' \subseteq {x \in DOMAIN booking' : booking'[x].status = "CONFIRMED"}
    BY <1>8, <2>1 DEF CommitConfirm, SetStatus, IsActive, TypeOK, Active, Row
  <2> QED
    BY <1>8, <2>1, <2>2, TypeStatus DEF CommitConfirm, Finish, Statuses, Active
<1>9. ASSUME NEW r \in Requests, CommitCancel(r) \/ CommitNoShow(r) \/ CommitConditionalCancel(r) PROVE TypeOK'
  <2> DEFINE b == req[r].booking
  <2>1. b \in DOMAIN booking
    BY <1>9, RequestKinds DEF CommitCancel, CommitNoShow, CommitConditionalCancel, TypeOK
  <2>2. revived' \subseteq {x \in DOMAIN booking' : booking'[x].status = "CONFIRMED"}
    BY <1>9, <2>1 DEF CommitCancel, CommitNoShow, CommitConditionalCancel, SetStatus, TypeOK
  <2> QED
    BY <1>9, <2>1, <2>2, TypeStatus DEF CommitCancel, CommitNoShow, CommitConditionalCancel, Finish, Statuses
<1>10. ASSUME NEW b \in DOMAIN booking, ConfirmFromReceipt(b) PROVE TypeOK'
  <2>1. revived' \subseteq {x \in DOMAIN booking' : booking'[x].status = "CONFIRMED"}
    BY <1>10 DEF ConfirmFromReceipt, SetStatus, TypeOK, Active, Row
  <2> QED
    BY <1>10, <2>1, TypeStatus DEF ConfirmFromReceipt, Statuses, Active
<1>11. ASSUME NEW B \in SUBSET DOMAIN booking, ExpirePendingBookings(B) PROVE TypeOK'
  <2> DEFINE expired(x) == [booking[x] EXCEPT !.status = "EXPIRED"]
  <2>0. \A x \in DOMAIN booking :
          /\ booking[x] \in Row /\ expired(x) \in Row
          /\ expired(x).service = booking[x].service
          /\ expired(x).staff = booking[x].staff
    <3>1. \A x \in DOMAIN booking : booking[x] \in Row
      BY DEF TypeOK
    <3>2. \A row \in Row :
            LET e == [row EXCEPT !.status = "EXPIRED"] IN
            e \in Row /\ e.service = row.service /\ e.staff = row.staff
      BY DEF Row, Statuses
    <3> QED
      BY <3>1, <3>2
  <2>a. booking' = [x \in DOMAIN booking |-> IF x \in B THEN expired(x) ELSE booking[x]]
    BY <1>11 DEF ExpirePendingBookings
  <2> HIDE DEF expired
  <2>1. /\ DOMAIN booking' = DOMAIN booking
        /\ \A x \in DOMAIN booking :
             /\ booking'[x] \in Row
             /\ booking'[x].service = booking[x].service /\ booking'[x].staff = booking[x].staff
             /\ x \notin B => booking'[x] = booking[x]
    BY <2>0, <2>a
  <2>2. booking' \in [DOMAIN booking' -> Row]
    BY <2>a, <2>1
  <2>3. revived' \subseteq {x \in DOMAIN booking' : booking'[x].status = "CONFIRMED"}
    <3>1. \A x \in revived : x \in DOMAIN booking /\ x \notin B
      BY <1>11 DEF ExpirePendingBookings, TypeOK
    <3> QED
      BY <1>11, <2>1, <3>1 DEF ExpirePendingBookings, TypeOK
  <2>4. UNCHANGED <<now, req, revived>>
    BY <1>11 DEF ExpirePendingBookings
  <2>5. \A x \in Requests : req[x] \in MoveRequest => req[x].booking \in DOMAIN booking
    BY DEF TypeOK
  <2> QED
    BY <2>1, <2>2, <2>3, <2>4, <2>5 DEF TypeOK
<1>12. CASE Tick
  BY <1>12 DEF Tick, TypeOK
<1>13. CASE UNCHANGED vars
  BY <1>13 DEF vars, TypeOK
<1> QED
  BY <1>1, <1>2, <1>3, <1>4, <1>5, <1>6, <1>7, <1>8, <1>9, <1>10, <1>11, <1>12, <1>13
  DEF Next, ReadConfirm, ReadCancel, ReadNoShow, ReadConditionalCancel

(***************************************************************************)
(* Rows and requests in flight stay well formed; in particular a booking's *)
(* specialist always performs its service in its branch, also after a move *)
(* to another specialist raced another change.                             *)
(***************************************************************************)
THEOREM Typed == Spec => []TypeOK
  BY TypeInit, TypeNext, PTL DEF Spec

-----------------------------------------------------------------------------
(* The conflict query finds every clash *)

LEMMA ClampBounds ==
  ASSUME NEW m \in Nat
  PROVE  Clamp(m) \in Nat /\ Clamp(m) <= MaxBuffer
BY DEF Clamp

LEMMA ClaimTyped ==
  ASSUME NEW row \in Row
  PROVE  /\ ClaimOf(row) \in TheCalendar!Claims
         /\ ClaimOf(row).lanes = {row.staff} \cup Needs[row.service]
         /\ ClaimOf(row).from = row.startsAt - Clamp(BufferBefore[row.service])
         /\ ClaimOf(row).to = row.startsAt + Duration[row.service] + Clamp(BufferAfter[row.service])
BY ClampBounds, StartsAreIntegers DEF ClaimOf, BlockedWindow, EndsAt, Row, TheCalendar!Claims

\* A place that FindBlocking finds free clashes with no booking in force, whatever its branch and distance.
LEMMA FindBlockingComplete ==
  ASSUME TypeOK, SlackCoversBuffers, OneBranchPerLane,
         NEW row \in Row, <<row.staff, row.service>> \in Assigned,
         NEW excluded,
         FindBlocking(row.service, row.staff, row.startsAt, excluded) = {},
         NEW b \in Held, b \notin excluded
  PROVE  ~TheCalendar!Clash(ClaimOf(row), ClaimOf(booking[b]))
<1> DEFINE other == booking[b]
<1>1. other \in Row /\ <<other.staff, other.service>> \in Assigned /\ other.status \in Active /\ b \in DOMAIN booking
  BY DEF Held, IsActive, TypeOK
<1> HIDE DEF other
<1> SUFFICES ASSUME TheCalendar!Clash(ClaimOf(row), ClaimOf(other)) PROVE FALSE
  BY DEF other
<1>2. row.staff = other.staff \/ Needs[other.service] \cap Needs[row.service] # {}
  <2>1. ({row.staff} \cup Needs[row.service]) \cap ({other.staff} \cup Needs[other.service]) # {}
    BY <1>1, ClaimTyped DEF TheCalendar!Clash
  <2>2. /\ row.staff \in Staff /\ other.staff \in Staff
        /\ Needs[row.service] \subseteq Resources /\ Needs[other.service] \subseteq Resources
    BY <1>1 DEF Row
  <2> QED
    BY <2>1, <2>2
<1>3. BranchOf[other.service] = BranchOf[row.service]
  <2>1. row.service \in Services /\ other.service \in Services /\ row.staff \in Staff
    BY <1>1 DEF Row
  <2> QED
    BY <1>1, <1>2, <2>1 DEF OneBranchPerLane
<1> DEFINE rs == row.startsAt
           os == other.startsAt
           rd == Duration[row.service]
           od == Duration[other.service]
           rb == Clamp(BufferBefore[row.service])
           ra == Clamp(BufferAfter[row.service])
           ob == Clamp(BufferBefore[other.service])
           oa == Clamp(BufferAfter[other.service])
<1>4. rs \in Int /\ os \in Int /\ rd \in Nat /\ od \in Nat /\ rb \in Nat /\ ra \in Nat /\ ob \in Nat /\ oa \in Nat
  BY <1>1, ClampBounds, StartsAreIntegers DEF Row
<1>5. ra + ob <= MaxBuffer /\ oa + rb <= MaxBuffer
  BY <1>1 DEF SlackCoversBuffers, Row
<1>6. rs - rb < os + od + oa /\ rs + rd + ra > os - ob
  BY <1>1, ClaimTyped DEF TheCalendar!Clash
<1>7. os < rs + rd + MaxBuffer /\ os + od > rs - MaxBuffer
  <2> HIDE DEF rs, os, rd, od, rb, ra, ob, oa
  <2> QED
    BY <1>4, <1>5, <1>6
<1>8. b \in ListOccupied(row.service, row.staff, row.startsAt, excluded)
  BY <1>1, <1>2, <1>3, <1>7 DEF ListOccupied, SharesLane, EndsAt, other
<1>9. b \in FindBlocking(row.service, row.staff, row.startsAt, excluded)
  BY <1>6, <1>8 DEF FindBlocking, WindowsOverlap, BlockedWindow, EndsAt, other
<1> QED
  BY <1>9

-----------------------------------------------------------------------------
(* Every step of the rows is a step of the calendar *)

LEMMA CalendarInit == Init => TheCalendar!Init
BY DEF Init, TheCalendar!Init, Held, Idle

\* A step that changes statuses only, and brings none back, releases claims.
LEMMA ReleaseStep ==
  ASSUME DOMAIN booking' = DOMAIN booking,
         \A x \in DOMAIN booking : ClaimOf(booking'[x]) = ClaimOf(booking[x]),
         Held' \subseteq Held,
         revived' = revived \cap Held'
  PROVE  TheCalendar!Next
<1>1. [b \in DOMAIN booking |-> ClaimOf(booking[b])]' = [b \in DOMAIN booking |-> ClaimOf(booking[b])]
  BY DEF ClaimOf, BlockedWindow, EndsAt
<1> QED
  BY <1>1 DEF TheCalendar!Next, TheCalendar!Release

LEMMA StatusSets ==
  ASSUME TypeOK, NEW b \in DOMAIN booking, NEW status \in Statuses, SetStatus(b, status)
  PROVE  /\ DOMAIN booking' = DOMAIN booking
         /\ \A x \in DOMAIN booking : ClaimOf(booking'[x]) = ClaimOf(booking[x])
         /\ Held' = IF status \in Active THEN Held \cup {b} ELSE Held \ {b}
<1>1. DOMAIN booking' = DOMAIN booking
  BY DEF SetStatus
<1>2. \A x \in DOMAIN booking : booking[x] \in Row
  BY DEF TypeOK
<1>3. \A x \in DOMAIN booking :
        /\ booking'[x].service = booking[x].service
        /\ booking'[x].staff = booking[x].staff
        /\ booking'[x].startsAt = booking[x].startsAt
        /\ x # b => booking'[x].status = booking[x].status
  BY <1>2 DEF SetStatus, Row
<1>4. booking'[b].status = status
  BY <1>2 DEF SetStatus, Row
<1>5. Held' = IF status \in Active THEN Held \cup {b} ELSE Held \ {b}
  <2>1. Held' = {x \in DOMAIN booking' : booking'[x].status \in Active}
    BY DEF Held, IsActive
  <2>2. Held = {x \in DOMAIN booking : booking[x].status \in Active}
    BY DEF Held, IsActive
  <2> QED
    BY <1>1, <1>3, <1>4, <2>1, <2>2
<1>6. \A x \in DOMAIN booking : ClaimOf(booking'[x]) = ClaimOf(booking[x])
  BY <1>3 DEF ClaimOf
<1> QED
  BY <1>1, <1>5, <1>6

LEMMA RevivedHeld == TypeOK => revived \subseteq Held
BY DEF TypeOK, Held, IsActive, Active

\* The mapped claims, and what a step does to them when the rows' claims are known.
LEMMA ClaimMap ==
  ASSUME TypeOK
  PROVE  [b \in DOMAIN booking |-> ClaimOf(booking[b])] \in [DOMAIN booking -> TheCalendar!Claims]
<1>1. \A b \in DOMAIN booking : booking[b] \in Row
  BY DEF TypeOK
<1> QED
  BY <1>1, ClaimTyped

LEMMA StatusRefines ==
  ASSUME TypeOK, NEW b \in DOMAIN booking, NEW status \in Statuses \ Active, SetStatus(b, status),
         revived' = revived \ {b}
  PROVE  TheCalendar!Next
<1>1. /\ DOMAIN booking' = DOMAIN booking
      /\ \A x \in DOMAIN booking : ClaimOf(booking'[x]) = ClaimOf(booking[x])
      /\ Held' = Held \ {b}
  BY StatusSets
<1>2. revived' = revived \cap Held'
  BY <1>1, RevivedHeld
<1> QED
  BY <1>1, <1>2, ReleaseStep

\* A confirmation is a stutter while the booking is in force, and an override once it is not.
LEMMA ConfirmRefines ==
  ASSUME TypeOK, NEW b \in DOMAIN booking, SetStatus(b, "CONFIRMED"),
         revived' = IF IsActive(b) THEN revived ELSE revived \cup {b}
  PROVE  TheCalendar!Next
<1>1. /\ DOMAIN booking' = DOMAIN booking
      /\ \A x \in DOMAIN booking : ClaimOf(booking'[x]) = ClaimOf(booking[x])
      /\ Held' = Held \cup {b}
  BY StatusSets DEF Statuses, Active
<1>2. CASE IsActive(b)
  <2>1. Held' = Held /\ revived' = revived
    BY <1>1, <1>2 DEF Held
  <2>2. revived' = revived \cap Held'
    BY <2>1, RevivedHeld
  <2> QED
    BY <1>1, <2>1, <2>2, ReleaseStep
<1>3. CASE ~IsActive(b)
  <2>1. b \notin Held /\ b \in Bookings
    BY <1>3 DEF Held, TypeOK
  <2>2. [x \in DOMAIN booking |-> ClaimOf(booking[x])]' = [x \in DOMAIN booking |-> ClaimOf(booking[x])]
    BY <1>1
  <2>3. b \in DOMAIN [x \in DOMAIN booking |-> ClaimOf(booking[x])]
    OBVIOUS
  <2> QED
    BY <1>1, <1>3, <2>1, <2>2, <2>3 DEF TheCalendar!Next, TheCalendar!Override
<1> QED
  BY <1>2, <1>3

LEMMA ReserveRefines ==
  ASSUME TypeOK, SlackCoversBuffers, OneBranchPerLane,
         NEW r \in Requests, NEW b \in Bookings, NEW due \in BOOLEAN, ReserveAllocation(r, b, due)
  PROVE  TheCalendar!Next
<1> DEFINE q == req[r]
           row == [status |-> IF q.actor = "customer" /\ due THEN "PENDING_PAYMENT" ELSE "CONFIRMED",
                   service |-> q.service, staff |-> q.staff, startsAt |-> q.startsAt, moves |-> 0]
           claims == [x \in DOMAIN booking |-> ClaimOf(booking[x])]
<1>1. q \in ReserveRequest
  BY RequestKinds DEF ReserveAllocation
<1>2. row \in Row /\ <<row.staff, row.service>> \in Assigned
  BY <1>1 DEF ReserveRequest, Row, Statuses, Active, TypeOK
<1>3. row.status \in Active
  BY DEF Active
<1>4. /\ b \notin DOMAIN booking
      /\ FindBlocking(row.service, row.staff, row.startsAt, {}) = {}
      /\ booking' = [x \in DOMAIN booking \cup {b} |-> IF x # b THEN booking[x] ELSE row]
      /\ revived' = revived
  BY DEF ReserveAllocation
<1> HIDE DEF row, q
<1>5. /\ DOMAIN booking' = DOMAIN booking \cup {b}
      /\ booking'[b] = row
      /\ \A x \in DOMAIN booking : booking'[x] = booking[x]
  BY <1>4
<1>6. \A w \in Held : ~TheCalendar!Clash(ClaimOf(row), ClaimOf(booking[w]))
  BY <1>2, <1>4, FindBlockingComplete
<1>7. Held' = Held \cup {b}
  <2>1. Held' = {x \in DOMAIN booking' : booking'[x].status \in Active}
    BY DEF Held, IsActive
  <2>2. Held = {x \in DOMAIN booking : booking[x].status \in Active}
    BY DEF Held, IsActive
  <2> QED
    BY <1>3, <1>5, <2>1, <2>2
<1>8. claims' = [x \in DOMAIN booking \cup {b} |-> IF x # b THEN claims[x] ELSE ClaimOf(row)]
  BY <1>4, <1>5
<1>9. claims \in [DOMAIN booking -> TheCalendar!Claims] /\ ClaimOf(row) \in TheCalendar!Claims
  BY <1>2, ClaimMap, ClaimTyped
<1>10. \A w \in Held : w \in DOMAIN booking /\ claims[w] = ClaimOf(booking[w])
  BY DEF Held
<1> HIDE DEF claims
<1>11. claims' \in [DOMAIN claims \cup {b} -> TheCalendar!Claims] /\ DOMAIN claims = DOMAIN booking
  BY <1>8, <1>9
<1>12. claims'[b] = ClaimOf(row) /\ \A w \in DOMAIN claims : claims'[w] = claims[w]
  BY <1>4, <1>8, <1>11
<1>13. \A w \in Held \ {b} : ~TheCalendar!Clash(claims'[b], claims[w])
  BY <1>6, <1>10, <1>12
<1> QED
  BY <1>4, <1>7, <1>11, <1>12, <1>13 DEF TheCalendar!Next, TheCalendar!Take, TheCalendar!Free, claims

LEMMA RescheduleRefines ==
  ASSUME TypeOK, SlackCoversBuffers, OneBranchPerLane, NEW r \in Requests, Reschedule(r)
  PROVE  TheCalendar!Next
<1> DEFINE b == req[r].booking
           row == booking'[b]
           claims == [x \in DOMAIN booking |-> ClaimOf(booking[x])]
<1>1. /\ b \in DOMAIN booking
      /\ booking' = [booking EXCEPT ![b] = row]
      /\ row \in Row
      /\ row.service = booking[b].service
      /\ row.status = booking[b].status
      /\ row.staff = MoveTarget(req[r])
      /\ row.startsAt = req[r].startsAt
      /\ <<row.staff, row.service>> \in Assigned
  BY RescheduledRow
<1>2. /\ b \in Held
      /\ FindBlocking(booking[b].service, MoveTarget(req[r]), req[r].startsAt, {b}) = {}
      /\ revived' = revived \ {b}
  BY <1>1 DEF Reschedule, Held
<1>3. b \in Bookings
  BY <1>1 DEF TypeOK
<1> HIDE DEF row, b
<1>4. FindBlocking(row.service, row.staff, row.startsAt, {b}) = {}
  BY <1>1, <1>2
<1>5. \A w \in Held \ {b} : ~TheCalendar!Clash(ClaimOf(row), ClaimOf(booking[w]))
  BY <1>1, <1>4, FindBlockingComplete
<1>6. DOMAIN booking' = DOMAIN booking /\ booking'[b] = row /\ \A x \in DOMAIN booking \ {b} : booking'[x] = booking[x]
  BY <1>1
<1>7. Held' = Held
  <2>1. Held' = {x \in DOMAIN booking' : booking'[x].status \in Active}
    BY DEF Held, IsActive
  <2>2. Held = {x \in DOMAIN booking : booking[x].status \in Active}
    BY DEF Held, IsActive
  <2> QED
    BY <1>1, <1>6, <2>1, <2>2
<1>8. claims' = [claims EXCEPT ![b] = ClaimOf(row)]
  <2>1. claims' = [x \in DOMAIN booking |-> ClaimOf(booking'[x])]
    BY <1>6
  <2>2. \A x \in DOMAIN booking : ClaimOf(booking'[x]) = IF x = b THEN ClaimOf(row) ELSE ClaimOf(booking[x])
    BY <1>6
  <2>3. claims' = [x \in DOMAIN booking |-> IF x = b THEN ClaimOf(row) ELSE ClaimOf(booking[x])]
    BY <2>1, <2>2
  <2> QED
    BY <2>3
<1>9. claims \in [DOMAIN booking -> TheCalendar!Claims] /\ ClaimOf(row) \in TheCalendar!Claims
  BY <1>1, ClaimMap, ClaimTyped
<1>10. \A w \in Held : w \in DOMAIN booking /\ claims[w] = ClaimOf(booking[w])
  BY DEF Held
<1> HIDE DEF claims
<1>11. claims' \in [DOMAIN claims -> TheCalendar!Claims] /\ DOMAIN claims = DOMAIN booking
  BY <1>8, <1>9
<1>12. claims'[b] = ClaimOf(row) /\ \A w \in DOMAIN claims \ {b} : claims'[w] = claims[w]
  BY <1>1, <1>8, <1>11
<1>13. \A w \in Held \ {b} : ~TheCalendar!Clash(claims'[b], claims[w])
  BY <1>5, <1>10, <1>12
<1> QED
  BY <1>2, <1>3, <1>7, <1>11, <1>12, <1>13 DEF TheCalendar!Next, TheCalendar!Move, TheCalendar!Free, claims

LEMMA ExpiryRefines ==
  ASSUME TypeOK, NEW B \in SUBSET DOMAIN booking, ExpirePendingBookings(B)
  PROVE  TheCalendar!Next
<1>1. \A x \in DOMAIN booking : booking[x] \in Row
  BY DEF TypeOK
<1>2. /\ DOMAIN booking' = DOMAIN booking
      /\ \A x \in DOMAIN booking : booking'[x] = IF x \in B THEN [booking[x] EXCEPT !.status = "EXPIRED"] ELSE booking[x]
  BY DEF ExpirePendingBookings
<1>3. \A row \in Row :
        LET e == [row EXCEPT !.status = "EXPIRED"] IN
        /\ e.service = row.service
        /\ e.staff = row.staff
        /\ e.startsAt = row.startsAt
        /\ e.status \notin Active
  BY DEF Row, Active
<1>4. \A x \in DOMAIN booking :
        /\ booking'[x].service = booking[x].service
        /\ booking'[x].staff = booking[x].staff
        /\ booking'[x].startsAt = booking[x].startsAt
        /\ booking'[x].status \in Active => booking'[x] = booking[x]
  BY <1>1, <1>2, <1>3
<1>5. \A x \in DOMAIN booking : ClaimOf(booking'[x]) = ClaimOf(booking[x])
  BY <1>4 DEF ClaimOf
<1>6. Held' \subseteq Held
  <2>1. Held' = {x \in DOMAIN booking' : booking'[x].status \in Active}
    BY DEF Held, IsActive
  <2>2. Held = {x \in DOMAIN booking : booking[x].status \in Active}
    BY DEF Held, IsActive
  <2> QED
    BY <1>2, <1>4, <2>1, <2>2
<1>7. revived' = revived \cap Held'
  <2>1. \A x \in revived : x \in DOMAIN booking /\ x \notin B /\ booking[x].status \in Active
    BY DEF ExpirePendingBookings, TypeOK, Active
  <2>2. \A x \in revived : x \in Held'
    BY <1>2, <2>1 DEF Held, IsActive
  <2> QED
    BY <2>2 DEF ExpirePendingBookings
<1> QED
  BY <1>2, <1>5, <1>6, <1>7, ReleaseStep

LEMMA NextRefines ==
  ASSUME TypeOK, SlackCoversBuffers, OneBranchPerLane, Next
  PROVE  [TheCalendar!Next]_(TheCalendar!vars)
<1> DEFINE unchanged == UNCHANGED <<booking, revived>>
<1>1. unchanged => UNCHANGED TheCalendar!vars
  BY DEF TheCalendar!vars, Held, IsActive
<1>2. ASSUME NEW r \in Requests, NEW actor \in Actors, NEW sv \in Services, NEW st \in Staff,
             NEW start \in Starts, SearchSlot(r, actor, sv, st, start)
      PROVE  unchanged
  BY <1>2 DEF SearchSlot, Begin
<1>3. ASSUME NEW r \in Requests, NEW b \in DOMAIN booking, NEW start \in Starts, ReadCustomerMove(r, b, start)
      PROVE  unchanged
  BY <1>3 DEF ReadCustomerMove, Begin
<1>4. ASSUME NEW r \in Requests, NEW b \in DOMAIN booking, NEW st \in Staff, NEW start \in Starts,
             ReadStaffMove(r, b, st, start)
      PROVE  unchanged
  BY <1>4 DEF ReadStaffMove, Begin
<1>5. ASSUME NEW r \in Requests, NEW b \in DOMAIN booking,
             ReadConfirm(r, b) \/ ReadCancel(r, b) \/ ReadNoShow(r, b) \/ (\E actor \in Actors : ReadConditionalCancel(r, b, actor))
      PROVE  unchanged
  BY <1>5 DEF ReadConfirm, ReadCancel, ReadNoShow, ReadConditionalCancel, Begin
<1>6. ASSUME NEW r \in Requests, RefuseSlot(r) \/ Abandon(r)
      PROVE  unchanged
  BY <1>6 DEF RefuseSlot, Abandon
<1>7. ASSUME Tick PROVE unchanged
  BY <1>7 DEF Tick
<1> HIDE DEF unchanged
<1>8. ASSUME NEW r \in Requests, CommitConfirm(r) PROVE TheCalendar!Next
  <2>1. req[r].booking \in DOMAIN booking
    BY <1>8, RequestKinds DEF CommitConfirm, TypeOK
  <2> QED
    BY <1>8, <2>1, ConfirmRefines DEF CommitConfirm
<1>9. ASSUME NEW r \in Requests, CommitCancel(r) \/ CommitNoShow(r) \/ CommitConditionalCancel(r)
      PROVE  TheCalendar!Next
  <2>1. req[r].booking \in DOMAIN booking
    BY <1>9, RequestKinds DEF CommitCancel, CommitNoShow, CommitConditionalCancel, TypeOK
  <2> QED
    BY <1>9, <2>1, StatusRefines DEF CommitCancel, CommitNoShow, CommitConditionalCancel, Statuses, Active
<1>10. ASSUME NEW b \in DOMAIN booking, ConfirmFromReceipt(b) PROVE TheCalendar!Next
  <2>1. IsActive(b)
    BY <1>10 DEF ConfirmFromReceipt, IsActive, Active
  <2> QED
    BY <1>10, <2>1, ConfirmRefines DEF ConfirmFromReceipt
<1> QED
  BY <1>1, <1>2, <1>3, <1>4, <1>5, <1>6, <1>7, <1>8, <1>9, <1>10,
     ReserveRefines, RescheduleRefines, ExpiryRefines
  DEF Next

(***************************************************************************)
(* The operations on the booking rows implement the abstract calendar, for *)
(* every catalogue in which one MAX_BUFFER_MINUTES of slack covers both    *)
(* buffers of any two services and no specialist or resource is shared by  *)
(* two branches: neither the search outside the transaction nor any        *)
(* interleaving of handlers lets a booking take an occupied place.         *)
(***************************************************************************)
THEOREM RefinesCalendar ==
  ASSUME SlackCoversBuffers, OneBranchPerLane
  PROVE  Spec => ImplementsCalendar
<1>1. Init => TheCalendar!Init
  BY CalendarInit
<1>2. TypeOK /\ [Next]_vars => [TheCalendar!Next]_(TheCalendar!vars)
  <2>1. UNCHANGED vars => UNCHANGED TheCalendar!vars
    BY DEF vars, TheCalendar!vars, Held, IsActive
  <2> QED
    BY <2>1, NextRefines
<1> QED
  BY <1>1, <1>2, Typed, PTL DEF Spec, ImplementsCalendar, TheCalendar!Spec

CalendarFacts == INSTANCE Calendar_proofs WITH
  Visits <- Bookings,
  Lanes <- Staff \cup Resources,
  claim <- [b \in DOMAIN booking |-> ClaimOf(booking[b])],
  held <- Held,
  overridden <- revived

(***************************************************************************)
(* Two bookings that nobody restored by a late confirmation never occupy   *)
(* one specialist or one resource at the same time, buffers included:      *)
(* what reserveAllocation and the reschedules are for.                     *)
(***************************************************************************)
THEOREM NoOverlap ==
  ASSUME SlackCoversBuffers, OneBranchPerLane
  PROVE  Spec => []NoUnexplainedOverlap
<1>1. TheCalendar!Init => CalendarFacts!Init
  BY DEF TheCalendar!Init, CalendarFacts!Init
<1>2. [TheCalendar!Next]_(TheCalendar!vars) => [CalendarFacts!Next]_(CalendarFacts!vars)
  BY DEF TheCalendar!Next, CalendarFacts!Next, TheCalendar!vars, CalendarFacts!vars,
         TheCalendar!Take, CalendarFacts!Take, TheCalendar!Move, CalendarFacts!Move,
         TheCalendar!Override, CalendarFacts!Override, TheCalendar!Release, CalendarFacts!Release,
         TheCalendar!Free, CalendarFacts!Free, TheCalendar!Clash, CalendarFacts!Clash,
         TheCalendar!Claims, CalendarFacts!Claims
<1>3. CalendarFacts!Exclusive => NoUnexplainedOverlap
  BY DEF CalendarFacts!Exclusive, TheCalendar!Exclusive, NoUnexplainedOverlap,
         TheCalendar!Clash, CalendarFacts!Clash
<1>4. CalendarFacts!Spec => []CalendarFacts!Exclusive
  BY CalendarFacts!CalendarExclusive
<1> QED
  BY <1>1, <1>2, <1>3, <1>4, RefinesCalendar, PTL
  DEF ImplementsCalendar, TheCalendar!Spec, CalendarFacts!Spec

-----------------------------------------------------------------------------
(* The reschedule limit *)

\* Moves that a customer was entitled to when they were read, and that have not been written yet.
MovesInFlight(b) == {r \in Requests : req[r] \in MoveRequest /\ req[r].actor = "customer" /\ req[r].booking = b}

\* Inductive: a booking's moves, those in flight included, never pass the bound.
LimitInv ==
  \A b \in DOMAIN booking :
    booking[b].moves + Cardinality(MovesInFlight(b)) <= MaxReschedules + Cardinality(Requests) - 1

LEMMA InFlightFinite ==
  \A b : /\ IsFiniteSet(MovesInFlight(b))
         /\ Cardinality(MovesInFlight(b)) \in Nat
         /\ Cardinality(MovesInFlight(b)) <= Cardinality(Requests)
<1> SUFFICES ASSUME NEW b
             PROVE  /\ IsFiniteSet(MovesInFlight(b))
                    /\ Cardinality(MovesInFlight(b)) \in Nat
                    /\ Cardinality(MovesInFlight(b)) <= Cardinality(Requests)
  OBVIOUS
<1>1. MovesInFlight(b) \subseteq Requests
  BY DEF MovesInFlight
<1> QED
  BY <1>1, FS_Subset, FS_CardinalityType

LEMMA RequestsCounted == Cardinality(Requests) \in Nat \ {0}
  BY FS_CardinalityType, FS_EmptySet

\* A step that starts no customer move and leaves the counters alone.
LEMMA LimitKept ==
  ASSUME TypeOK, LimitInv,
         DOMAIN booking' = DOMAIN booking,
         \A x \in DOMAIN booking : booking'[x].moves = booking[x].moves,
         \A x \in DOMAIN booking : MovesInFlight(x)' \subseteq MovesInFlight(x)
  PROVE  LimitInv'
<1> SUFFICES ASSUME NEW b \in DOMAIN booking
             PROVE  booking[b].moves + Cardinality(MovesInFlight(b)') <= MaxReschedules + Cardinality(Requests) - 1
  BY DEF LimitInv
<1>1. Cardinality(MovesInFlight(b)') \in Nat /\ Cardinality(MovesInFlight(b)') <= Cardinality(MovesInFlight(b))
  BY InFlightFinite, FS_Subset, FS_CardinalityType
<1>2. booking[b].moves \in Nat
  BY DEF TypeOK, Row
<1>3. booking[b].moves + Cardinality(MovesInFlight(b)) <= MaxReschedules + Cardinality(Requests) - 1
  BY DEF LimitInv
<1> QED
  BY <1>1, <1>2, <1>3, InFlightFinite, RequestsCounted

\* Ending a request, or changing it into anything but a customer's move, adds no move in flight.
LEMMA InFlightShrinks ==
  ASSUME TypeOK, NEW r \in Requests, NEW q,
         q \in MoveRequest => q.actor # "customer",
         req' = [req EXCEPT ![r] = q], NEW b
  PROVE  MovesInFlight(b)' \subseteq MovesInFlight(b)
<1>1. \A x \in Requests : req'[x] = IF x = r THEN q ELSE req[x]
  BY DEF TypeOK
<1>2. \A x \in MovesInFlight(b)' : x \in Requests /\ req'[x] \in MoveRequest /\ req'[x].actor = "customer" /\ req'[x].booking = b
  BY DEF MovesInFlight
<1> QED
  BY <1>1, <1>2 DEF MovesInFlight

LEMMA InFlightEnds ==
  ASSUME TypeOK, NEW r \in Requests, Finish(r), NEW b
  PROVE  MovesInFlight(b)' \subseteq MovesInFlight(b) \ {r}
<1>1. \A x \in Requests : req'[x] = IF x = r THEN Idle ELSE req[x]
  BY DEF TypeOK, Finish
<1>2. Idle \notin MoveRequest
  BY DEF Idle, MoveRequest
<1>3. \A x \in MovesInFlight(b)' : x \in Requests /\ req'[x] \in MoveRequest /\ req'[x].actor = "customer" /\ req'[x].booking = b
  BY DEF MovesInFlight
<1> QED
  BY <1>1, <1>2, <1>3 DEF MovesInFlight

LEMMA InFlightSame ==
  ASSUME req' = req, NEW b
  PROVE  MovesInFlight(b)' = MovesInFlight(b)
BY DEF MovesInFlight

LEMMA LimitNext == TypeOK /\ LimitInv /\ [Next]_vars => LimitInv'
<1> SUFFICES ASSUME TypeOK, LimitInv, [Next]_vars PROVE LimitInv'
  OBVIOUS
<1> DEFINE bound == MaxReschedules + Cardinality(Requests) - 1
           same == UNCHANGED booking
<1>1. ASSUME NEW r \in Requests, NEW actor \in Actors, NEW sv \in Services, NEW st \in Staff,
             NEW start \in Starts, SearchSlot(r, actor, sv, st, start)
      PROVE  LimitInv'
  <2> DEFINE q == [op |-> "reserve", actor |-> actor, service |-> sv, staff |-> st, startsAt |-> start]
  <2>1. q \notin MoveRequest
    BY DEF MoveRequest
  <2>2. req' = [req EXCEPT ![r] = q] /\ booking' = booking
    BY <1>1 DEF SearchSlot, Begin
  <2> HIDE DEF q
  <2>3. \A x : MovesInFlight(x)' \subseteq MovesInFlight(x)
    BY <2>1, <2>2, InFlightShrinks
  <2> QED
    BY <2>2, <2>3, LimitKept
<1>2. ASSUME NEW r \in Requests, NEW b \in Bookings, NEW due \in BOOLEAN, ReserveAllocation(r, b, due)
      PROVE  LimitInv'
  <2> SUFFICES ASSUME NEW x \in DOMAIN booking'
               PROVE  booking'[x].moves + Cardinality(MovesInFlight(x)') <= bound
    BY DEF LimitInv
  <2>1. /\ DOMAIN booking' = DOMAIN booking \cup {b}
        /\ b \notin DOMAIN booking
        /\ booking'[b].moves = 0
        /\ \A y \in DOMAIN booking : booking'[y] = booking[y]
    BY <1>2 DEF ReserveAllocation
  <2>2. MovesInFlight(x)' \subseteq MovesInFlight(x)
    BY <1>2, InFlightEnds DEF ReserveAllocation
  <2>3. Cardinality(MovesInFlight(x)') \in Nat /\ Cardinality(MovesInFlight(x)') <= Cardinality(MovesInFlight(x))
    BY <2>2, InFlightFinite, FS_Subset, FS_CardinalityType
  <2>4. CASE x = b
    <3>1. MovesInFlight(x) = {}
      BY <2>1, <2>4 DEF MovesInFlight, TypeOK
    <3>2. Cardinality(MovesInFlight(x)) = 0
      BY <3>1, FS_EmptySet
    <3> QED
      BY <2>1, <2>3, <2>4, <3>2, RequestsCounted
  <2>5. CASE x \in DOMAIN booking
    <3>1. booking[x].moves \in Nat /\ booking[x].moves + Cardinality(MovesInFlight(x)) <= bound
      BY <2>5 DEF LimitInv, TypeOK, Row
    <3> QED
      BY <2>1, <2>3, <2>5, <3>1, InFlightFinite, RequestsCounted
  <2> QED
    BY <2>1, <2>4, <2>5
<1>3. ASSUME NEW r \in Requests, NEW b \in DOMAIN booking, NEW start \in Starts, ReadCustomerMove(r, b, start)
      PROVE  LimitInv'
  <2> SUFFICES ASSUME NEW x \in DOMAIN booking
               PROVE  booking[x].moves + Cardinality(MovesInFlight(x)') <= bound
    BY <1>3 DEF LimitInv, ReadCustomerMove, Begin
  <2>1. booking[x].moves \in Nat /\ booking[x].moves + Cardinality(MovesInFlight(x)) <= bound
    BY DEF LimitInv, TypeOK, Row
  <2>2. /\ r \notin MovesInFlight(x)
        /\ \A y \in Requests \ {r} : req'[y] = req[y]
        /\ req'[r].booking = b
    BY <1>3 DEF ReadCustomerMove, Begin, IsIdle, Idle, MovesInFlight, MoveRequest, TypeOK
  <2>3. CASE x = b
    <3>1. booking[x].moves < MaxReschedules
      BY <1>3, <2>3 DEF ReadCustomerMove, MayReschedule
    <3>2. Cardinality(MovesInFlight(x)') \in Nat /\ Cardinality(MovesInFlight(x)') <= Cardinality(Requests)
      <4>1. MovesInFlight(x)' \subseteq Requests
        BY DEF MovesInFlight
      <4> QED
        BY <4>1, FS_Subset, FS_CardinalityType
    <3> QED
      BY <2>1, <3>1, <3>2, RequestsCounted
  <2>4. CASE x # b
    <3>1. MovesInFlight(x)' \subseteq MovesInFlight(x)
      <4>1. \A y \in MovesInFlight(x)' : y \in Requests /\ req'[y] \in MoveRequest /\ req'[y].actor = "customer" /\ req'[y].booking = x
        BY DEF MovesInFlight
      <4> QED
        BY <2>2, <2>4, <4>1 DEF MovesInFlight
    <3>2. Cardinality(MovesInFlight(x)') \in Nat /\ Cardinality(MovesInFlight(x)') <= Cardinality(MovesInFlight(x))
      BY <3>1, InFlightFinite, FS_Subset, FS_CardinalityType
    <3> QED
      BY <2>1, <3>2, InFlightFinite, RequestsCounted
  <2> QED
    BY <2>3, <2>4
<1>4. ASSUME NEW r \in Requests, NEW b \in DOMAIN booking, NEW st \in Staff, NEW start \in Starts,
             ReadStaffMove(r, b, st, start)
      PROVE  LimitInv'
  <2> DEFINE q == [op |-> "move", actor |-> "staff", booking |-> b, staff |-> st, startsAt |-> start]
  <2>1. q.actor # "customer"
    OBVIOUS
  <2>2. req' = [req EXCEPT ![r] = q] /\ booking' = booking
    BY <1>4 DEF ReadStaffMove, Begin
  <2> HIDE DEF q
  <2>3. \A x : MovesInFlight(x)' \subseteq MovesInFlight(x)
    BY <2>1, <2>2, InFlightShrinks
  <2> QED
    BY <2>2, <2>3, LimitKept
<1>5. ASSUME NEW r \in Requests, Reschedule(r) PROVE LimitInv'
  <2> DEFINE b == req[r].booking
             row == booking'[b]
             more == IF req[r].actor = "customer" THEN 1 ELSE 0
  <2>1. /\ b \in DOMAIN booking
        /\ booking' = [booking EXCEPT ![b] = row]
        /\ row.moves = booking[b].moves + more
    BY <1>5, RescheduledRow
  <2>2. req[r] \in MoveRequest
    BY <1>5, RequestKinds DEF Reschedule
  <2>3. \A x : MovesInFlight(x)' \subseteq MovesInFlight(x) \ {r}
    BY <1>5, InFlightEnds DEF Reschedule
  <2>4. more = 1 => r \in MovesInFlight(b)
    BY <2>2 DEF MovesInFlight
  <2>5. more \in {0, 1}
    OBVIOUS
  <2> HIDE DEF row, more, b
  <2>6. DOMAIN booking' = DOMAIN booking /\ \A x \in DOMAIN booking : booking'[x] = IF x = b THEN row ELSE booking[x]
    BY <2>1
  <2> SUFFICES ASSUME NEW x \in DOMAIN booking
               PROVE  booking'[x].moves + Cardinality(MovesInFlight(x)') <= bound
    BY <2>6 DEF LimitInv
  <2>7. booking[x].moves \in Nat /\ booking[x].moves + Cardinality(MovesInFlight(x)) <= bound
    BY DEF LimitInv, TypeOK, Row
  <2>8. Cardinality(MovesInFlight(x)') \in Nat /\ Cardinality(MovesInFlight(x)') <= Cardinality(MovesInFlight(x))
    BY <2>3, InFlightFinite, FS_Subset, FS_CardinalityType
  <2>9. CASE x = b /\ more = 1
    <3>1. Cardinality(MovesInFlight(x) \ {r}) = Cardinality(MovesInFlight(x)) - 1
      BY <2>4, <2>9, InFlightFinite, FS_RemoveElement
    <3>2. IsFiniteSet(MovesInFlight(x) \ {r})
      BY InFlightFinite, FS_RemoveElement, <2>4, <2>9
    <3>3. Cardinality(MovesInFlight(x)') <= Cardinality(MovesInFlight(x)) - 1
      BY <2>3, <3>1, <3>2, FS_Subset
    <3> QED
      BY <2>1, <2>6, <2>7, <2>8, <2>9, <3>3, InFlightFinite, RequestsCounted
  <2>10. CASE ~(x = b /\ more = 1)
    <3>1. booking'[x].moves = booking[x].moves
      BY <2>1, <2>5, <2>6, <2>7, <2>10
    <3> QED
      BY <2>7, <2>8, <3>1, InFlightFinite, RequestsCounted
  <2> QED
    BY <2>9, <2>10
<1>6. ASSUME NEW r \in Requests, RefuseSlot(r) \/ Abandon(r) PROVE LimitInv'
  <2>1. Finish(r) /\ booking' = booking
    BY <1>6 DEF RefuseSlot, Abandon
  <2>2. \A x : MovesInFlight(x)' \subseteq MovesInFlight(x)
    BY <2>1, InFlightEnds
  <2> QED
    BY <2>1, <2>2, LimitKept
<1>7. ASSUME NEW r \in Requests, NEW b \in DOMAIN booking,
             NEW op \in {"confirm", "cancel", "noShow", "conditionalCancel"},
             Begin(r, [op |-> op, booking |-> b])
      PROVE  LimitInv'
  <2> DEFINE q == [op |-> op, booking |-> b]
  <2>1. q \notin MoveRequest
    BY DEF MoveRequest
  <2>2. req' = [req EXCEPT ![r] = q] /\ booking' = booking
    BY <1>7 DEF Begin
  <2> HIDE DEF q
  <2>3. \A x : MovesInFlight(x)' \subseteq MovesInFlight(x)
    BY <2>1, <2>2, InFlightShrinks
  <2> QED
    BY <2>2, <2>3, LimitKept
<1>8. ASSUME NEW b \in DOMAIN booking, NEW status \in Statuses, SetStatus(b, status),
             \A x : MovesInFlight(x)' \subseteq MovesInFlight(x)
      PROVE  LimitInv'
  <2>1. \A x \in DOMAIN booking : booking[x] \in Row
    BY DEF TypeOK
  <2>2. DOMAIN booking' = DOMAIN booking /\ \A x \in DOMAIN booking : booking'[x].moves = booking[x].moves
    BY <1>8, <2>1 DEF SetStatus, Row
  <2> QED
    BY <1>8, <2>2, LimitKept
<1>9. ASSUME NEW r \in Requests, CommitConfirm(r) \/ CommitCancel(r) \/ CommitNoShow(r) \/ CommitConditionalCancel(r)
      PROVE  LimitInv'
  <2>1. req[r].booking \in DOMAIN booking /\ Finish(r)
    BY <1>9, RequestKinds DEF CommitConfirm, CommitCancel, CommitNoShow, CommitConditionalCancel, TypeOK
  <2>2. PICK status \in Statuses : SetStatus(req[r].booking, status)
    BY <1>9 DEF CommitConfirm, CommitCancel, CommitNoShow, CommitConditionalCancel, Statuses, Active
  <2>3. \A x : MovesInFlight(x)' \subseteq MovesInFlight(x)
    BY <2>1, InFlightEnds
  <2> QED
    BY <1>8, <2>1, <2>2, <2>3
<1>10. ASSUME NEW b \in DOMAIN booking, ConfirmFromReceipt(b) PROVE LimitInv'
  <2>1. \A x : MovesInFlight(x)' \subseteq MovesInFlight(x)
    BY <1>10, InFlightSame DEF ConfirmFromReceipt
  <2> QED
    BY <1>8, <1>10, <2>1 DEF ConfirmFromReceipt, Statuses, Active
<1>11. ASSUME NEW B \in SUBSET DOMAIN booking, ExpirePendingBookings(B) PROVE LimitInv'
  <2>1. \A x : MovesInFlight(x)' \subseteq MovesInFlight(x)
    BY <1>11, InFlightSame DEF ExpirePendingBookings
  <2>2. \A row \in Row : [row EXCEPT !.status = "EXPIRED"].moves = row.moves
    BY DEF Row
  <2>3. \A x \in DOMAIN booking : booking[x] \in Row
    BY DEF TypeOK
  <2>4. /\ DOMAIN booking' = DOMAIN booking
        /\ \A x \in DOMAIN booking : booking'[x] = IF x \in B THEN [booking[x] EXCEPT !.status = "EXPIRED"] ELSE booking[x]
    BY <1>11 DEF ExpirePendingBookings
  <2>5. \A x \in DOMAIN booking : booking'[x].moves = booking[x].moves
    BY <2>2, <2>3, <2>4
  <2> QED
    BY <2>1, <2>4, <2>5, LimitKept
<1>12. ASSUME UNCHANGED <<booking, req>> PROVE LimitInv'
  BY <1>12, InFlightSame, LimitKept
<1> QED
  BY <1>1, <1>2, <1>3, <1>4, <1>5, <1>6, <1>7, <1>9, <1>10, <1>11, <1>12
  DEF Next, ReadConfirm, ReadCancel, ReadNoShow, ReadConditionalCancel, Tick, vars

(***************************************************************************)
(* However many handlers are in flight, a customer moves one booking at    *)
(* most MaxReschedules + N - 1 times, N being the handlers that may run at *)
(* the same time: the counter is read before the transaction that writes   *)
(* it, and each handler still in flight was entitled when it read it.      *)
(***************************************************************************)
THEOREM LimitOvershoot == Spec => []LimitOvershootBounded
<1>1. Init => LimitInv
  BY DEF Init, LimitInv
<1>2. TypeOK /\ LimitInv => LimitOvershootBounded
  <2> SUFFICES ASSUME TypeOK, LimitInv, NEW b \in DOMAIN booking
               PROVE  booking[b].moves <= MaxReschedules + Cardinality(Requests) - 1
    BY DEF LimitOvershootBounded
  <2>1. booking[b].moves \in Nat
    BY DEF TypeOK, Row
  <2> QED
    BY <2>1, InFlightFinite, RequestsCounted DEF LimitInv
<1> QED
  BY <1>1, <1>2, LimitNext, Typed, PTL DEF Spec
=============================================================================
