------------------------ MODULE MessageOutbox_proofs ------------------------
(***************************************************************************)
(* For any ladder, any number of overlapping runs of the job and any       *)
(* number of requests: rows and runs are well formed, and a message is     *)
(* delivered at most once for each time it was scheduled.                  *)
(*                                                                         *)
(* The invariant counts what may still become a delivery: rows that are    *)
(* SCHEDULED, and runs that carry a message between its claim and the end  *)
(* of their work on it.                                                    *)
(***************************************************************************)
EXTENDS MessageOutbox, FiniteSetTheorems, TLAPS

USE OutboxAssumption

OpenRows == {n \in Rungs : message[n].status = "SCHEDULED"}

Carries(q) == q.op \in {"read", "send", "hand"} \/ (q.op = "record" /\ q.outcome \in {"UNAVAILABLE", "RETRY", "EXHAUSTED"})
Carriers == {j \in Runs : Carries(run[j])}

Budget == delivered + Cardinality(OpenRows) + Cardinality(Carriers) <= scheduled

LEMMA RungsFinite == Rungs \subseteq Nat /\ IsFiniteSet(Rungs) /\ \A n \in Rungs : Ladder[n] \in Channels
<1>1. Rungs = 1 .. Len(Ladder) /\ Len(Ladder) \in Nat
  BY DEF Rungs
<1>2. IsFiniteSet(1 .. Len(Ladder))
  BY <1>1, FS_Interval
<1> QED
  BY <1>1, <1>2 DEF Channels

-----------------------------------------------------------------------------
(* What is put aside by an operation on the visit *)

\* What an operation has done to the rows before it opens one.
RowsKept(rows) ==
  /\ rows \in [Rungs -> Row]
  /\ \A n \in Rungs : Exists(n) => rows[n].status # "NONE"
  /\ \A n \in Rungs : rows[n].status = "SCHEDULED" => n \in OpenRows

Accounted ==
  /\ message' \in [Rungs -> Row]
  /\ died' \subseteq Rungs
  /\ scheduled' \in 0 .. MaxScheduled[kind]
  /\ \A n \in Rungs : Exists(n) => Exists(n)'
  /\ \/ OpenRows' \subseteq OpenRows /\ scheduled' = scheduled
     \/ \E n \in Rungs : OpenRows' \subseteq OpenRows \cup {n} /\ scheduled' = scheduled + 1

LEMMA MessageKept == ASSUME TypeOK PROVE RowsKept(message)
BY DEF RowsKept, TypeOK, OpenRows, Exists

LEMMA SkippedKept == ASSUME TypeOK PROVE RowsKept(Skipped(message))
<1>1. ASSUME NEW n \in Rungs
      PROVE  /\ Skipped(message)[n] \in Row
             /\ Skipped(message)[n].status # "SCHEDULED"
             /\ Exists(n) => Skipped(message)[n].status # "NONE"
  <2>1. message[n] \in Row
    BY DEF TypeOK
  <2> QED
    BY <2>1 DEF Skipped, Row, MessageStatuses, Exists
<1> QED
  BY <1>1 DEF RowsKept, Skipped

LEMMA OpenedRow ==
  ASSUME NEW rows \in [Rungs -> Row], NEW n \in Rungs, NEW due \in Int
  PROVE  /\ Opened(rows, n, due) \in [Rungs -> Row]
         /\ Opened(rows, n, due)[n].status = "SCHEDULED"
         /\ \A m \in Rungs \ {n} : Opened(rows, n, due)[m] = rows[m]
<1>1. rows[n] \in Row
  OBVIOUS
<1>2. [status |-> "SCHEDULED", due |-> due, attempts |-> 0, externalId |-> rows[n].externalId] \in Row
  BY <1>1 DEF Row, MessageStatuses
<1> QED
  BY <1>2 DEF Opened

LEMMA OpenAccounted ==
  ASSUME TypeOK, NEW rows, RowsKept(rows), NEW n \in Rungs, NEW due \in Int, Open(rows, n, due)
  PROVE  Accounted
<1>1. message' = Opened(rows, n, due) /\ scheduled' = scheduled + 1 /\ scheduled < MaxScheduled[kind] /\ died' = died \ {n}
  BY DEF Open
<1>2. /\ message' \in [Rungs -> Row]
      /\ message'[n].status = "SCHEDULED"
      /\ \A m \in Rungs \ {n} : message'[m] = rows[m]
  BY <1>1, OpenedRow DEF RowsKept
<1>3. OpenRows' \subseteq OpenRows \cup {n}
  BY <1>2 DEF OpenRows, RowsKept
<1>4. \A m \in Rungs : Exists(m) => Exists(m)'
  BY <1>2 DEF Exists, RowsKept
<1> QED
  BY <1>1, <1>2, <1>3, <1>4 DEF Accounted, TypeOK

LEMMA LeaveAccounted ==
  ASSUME TypeOK, NEW rows, RowsKept(rows), Leave(rows)
  PROVE  Accounted
<1>1. OpenRows' \subseteq OpenRows
  BY DEF Leave, RowsKept, OpenRows
<1> QED
  BY <1>1 DEF Leave, RowsKept, Accounted, TypeOK, Exists

LEMMA NextRungIn == ASSUME NEW n, NEW allowed PROVE NextRung(n, allowed) \subseteq Rungs
BY DEF NextRung

LEMMA ScheduleAccounted ==
  ASSUME TypeOK, NEW kinds, NEW v, v.startsAt \in Nat, NEW rows, RowsKept(rows), Schedule(kinds, v, rows)
  PROVE  Accounted
<1>1. DueFor(v) \in Int
  BY DEF DueFor, TypeOK
<1>2. ASSUME NEW n \in FirstRung, Open(rows, n, DueFor(v)) PROVE Accounted
  <2>1. n \in Rungs
    BY <1>2, NextRungIn DEF FirstRung
  <2> QED
    BY <2>1, <1>1, <1>2, OpenAccounted
<1>3. CASE Leave(rows)
  BY <1>3, LeaveAccounted
<1> QED
  BY <1>2, <1>3 DEF Schedule

Requested == {Idle} \cup Deciding \cup Owing
VisitRow == [status : VisitStatuses, startsAt : Starts, unpaid : BOOLEAN]

LEMMA OperationTyped ==
  ASSUME TypeOK, Accounted, NotDelivery, visit' \in VisitRow, request' \in [Requests -> Requested]
  PROVE  TypeOK'
<1>1. \A j \in Runs : run'[j] # Idle => \A n \in run'[j].batch : Exists(n)'
  <2> SUFFICES ASSUME NEW j \in Runs, run[j] # Idle, NEW n \in run[j].batch PROVE Exists(n)'
    BY DEF NotDelivery
  <2>1. run[j] \in Picking \cup Reading \cup Sending \cup Recording \cup Handing
    BY DEF TypeOK, Works
  <2>2. n \in Rungs
    BY <2>1 DEF Picking, Reading, Sending, Recording, Handing
  <2> QED
    BY <2>2 DEF TypeOK, Accounted
<1>2. /\ message' \in [Rungs -> Row] /\ died' \subseteq Rungs /\ scheduled' \in 0 .. MaxScheduled[kind]
      /\ kind' = kind /\ now' = now /\ settings' = settings /\ run' = run /\ delivered' = delivered
  BY DEF Accounted, NotDelivery
<1> QED
  BY <1>1, <1>2 DEF TypeOK, VisitRow, Requested

LEMMA VisitRows ==
  ASSUME TypeOK
  PROVE  /\ visit \in VisitRow
         /\ visit.startsAt \in Starts
         /\ \A s \in VisitStatuses : [visit EXCEPT !.status = s] \in VisitRow
         /\ \A t \in Starts : [visit EXCEPT !.startsAt = t] \in VisitRow
         /\ [visit EXCEPT !.unpaid = FALSE] \in VisitRow
BY DEF TypeOK, VisitRow

Tended == Accounted /\ NotDelivery /\ visit' \in VisitRow /\ request' \in [Requests -> Requested]

\* A request that is settled, or goes on to owe something, keeps its shape.
LEMMA RequestTyped ==
  ASSUME TypeOK, NEW r \in Requests, NEW work \in Requested, request' = [request EXCEPT ![r] = work]
  PROVE  request' \in [Requests -> Requested]
BY DEF TypeOK, Requested

LEMMA OwingTyped ==
  ASSUME TypeOK, NEW r \in Requests, NEW kinds, OweAfterCommit(r, kinds), visit' \in VisitRow
  PROVE  Tended
<1>1. Idle \in Requested /\ [op |-> "date"] \in Requested
  BY DEF Owing, Requested
<1>2. request' \in [Requests -> Requested]
  BY <1>1, RequestTyped DEF OweAfterCommit
<1> QED
  BY <1>2, MessageKept, LeaveAccounted DEF OweAfterCommit, Tended

LEMMA SettledTended ==
  ASSUME TypeOK, Accounted, NEW r \in Requests, Settle(r), visit' \in VisitRow
  PROVE  Tended
<1>1. Idle \in Requested
  BY DEF Requested
<1> QED
  BY <1>1, RequestTyped DEF Settle, Tended

LEMMA AtOnceTended ==
  ASSUME TypeOK, Accounted, AtOnce, visit' \in VisitRow
  PROVE  Tended
BY DEF AtOnce, Tended, TypeOK, Requested

LEMMA ScheduleTended ==
  ASSUME TypeOK, AtOnce \/ \E r \in Requests : Settle(r), visit' \in VisitRow,
         NEW kinds, NEW rows, RowsKept(rows), Schedule(kinds, visit', rows)
  PROVE  Tended
<1>1. visit'.startsAt \in Nat
  BY DEF VisitRow
<1>2. Accounted
  BY <1>1, ScheduleAccounted
<1> QED
  BY <1>2, AtOnceTended, SettledTended

\* An operation on the visit accounts for what it opens, or is a change of the settings.
LEMMA OperateTended ==
  ASSUME TypeOK, Operate
  PROVE  Tended \/ ChangeSettings
<1> USE VisitRows, MessageKept, SkippedKept
<1>s. {"CONFIRMED", "CANCELLED", "EXPIRED", "NO_SHOW"} \subseteq VisitStatuses
  BY DEF VisitStatuses
<1>1. ASSUME ConfirmFromReceipt PROVE Tended
  BY <1>1, <1>s, ScheduleTended DEF ConfirmFromReceipt, SetStatus
<1>2. ASSUME NEW r \in Requests, NEW decision \in Decisions, Decide(r, decision) PROVE Tended
  <2>1. [op |-> "decided", on |-> decision] \in Requested
    BY DEF Requested, Deciding
  <2>2. request' \in [Requests -> Requested]
    BY <1>2, <2>1, RequestTyped DEF Decide
  <2> QED
    BY <1>2, <2>2, LeaveAccounted DEF Decide, Tended
<1>3. ASSUME NEW r \in Requests, ConfirmByStaff(r) PROVE Tended
  BY <1>3, <1>s, OwingTyped DEF ConfirmByStaff, SetStatus
<1>4. ASSUME NEW r \in Requests, Approve(r) PROVE Tended
  BY <1>4, <1>s, ScheduleTended DEF Approve, SetStatus
<1>5. ASSUME NEW r \in Requests, CancelByStaff(r) PROVE Tended
  BY <1>5, <1>s, ScheduleTended DEF CancelByStaff, SetStatus
<1>6. ASSUME NEW r \in Requests, MarkNoShow(r) PROVE Tended
  BY <1>6, <1>s, LeaveAccounted, SettledTended DEF MarkNoShow, SetStatus
<1>7. ASSUME NEW r \in Requests, ReadDate(r) PROVE Tended
  <2>1. DueFor(visit) \in Int
    BY DEF DueFor, TypeOK
  <2>2. [op |-> "read", due |-> DueFor(visit)] \in Requested
    BY <2>1 DEF Owing, Requested
  <2>3. request' \in [Requests -> Requested]
    BY <1>7, <2>2, RequestTyped DEF ReadDate
  <2> QED
    BY <1>7, <2>3, LeaveAccounted DEF ReadDate, Tended
<1>8. ASSUME NEW r \in Requests, ReadOwed(r) PROVE Tended
  <2> DEFINE next == IF MayBeScheduled(visit) /\ FirstRung # {}
                     THEN [op |-> "write", rung |-> CHOOSE n \in FirstRung : TRUE, due |-> request[r].due]
                     ELSE Idle
  <2>1. request[r].due \in Int
    <3>1. request[r].op = "read" /\ request[r] \in Requested
      BY <1>8 DEF ReadOwed, TypeOK, Requested
    <3>2. request[r] \in [op : {"read"}, due : Int]
      BY <3>1 DEF Requested, Owing, Deciding, Idle
    <3> QED
      BY <3>2
  <2>2. FirstRung # {} => (CHOOSE n \in FirstRung : TRUE) \in Rungs
    BY NextRungIn DEF FirstRung
  <2>3. next \in Requested
    BY <2>1, <2>2 DEF Requested, Owing
  <2>4. request' = [request EXCEPT ![r] = next]
    BY <1>8 DEF ReadOwed
  <2>5. request' \in [Requests -> Requested]
    BY <2>3, <2>4, RequestTyped
  <2> QED
    BY <1>8, <2>5, LeaveAccounted DEF ReadOwed, Tended
<1>9. ASSUME NEW r \in Requests, WriteOwed(r) PROVE Tended
  <2>1. request[r].rung \in Rungs /\ request[r].due \in Int
    BY <1>9 DEF WriteOwed, TypeOK, Owing, Deciding, Idle
  <2>2. Accounted
    BY <1>9, <2>1, OpenAccounted DEF WriteOwed
  <2> QED
    BY <1>9, <2>2, SettledTended DEF WriteOwed
<1>10. ASSUME NEW r \in Requests, Abandon(r) PROVE Tended
  BY <1>10, LeaveAccounted, SettledTended DEF Abandon
<1>11. ASSUME NEW r \in Requests, NEW t \in Starts, MoveByStaff(r, t) PROVE Tended
  BY <1>11, OwingTyped DEF MoveByStaff
<1>12. ASSUME NEW t \in Starts, MoveByCustomer(t) PROVE Tended
  BY <1>12, ScheduleTended DEF MoveByCustomer
<1>13. ASSUME Cancel PROVE Tended
  BY <1>13, <1>s, ScheduleTended DEF Cancel, SetStatus
<1>14. ASSUME Expire PROVE Tended
  BY <1>14, <1>s, LeaveAccounted, AtOnceTended DEF Expire, SetStatus
<1>15. ASSUME NEW news, DecideReceipt(news) PROVE Tended
  BY <1>15, ScheduleTended DEF DecideReceipt
<1>16. ASSUME NEW n \in Rungs, RemindPayment(n) PROVE Tended
  <2>1. Accounted
    BY <1>16, OpenAccounted DEF RemindPayment, TypeOK
  <2> QED
    BY <1>16, <2>1, AtOnceTended DEF RemindPayment
<1> QED
  BY <1>1, <1>2, <1>3, <1>4, <1>5, <1>6, <1>7, <1>8, <1>9, <1>10, <1>11, <1>12, <1>13, <1>14, <1>15, <1>16 DEF Operate

-----------------------------------------------------------------------------
(* The runs of the job *)

\* The tag of a run tells what it holds.
LEMMA RunShape ==
  ASSUME TypeOK, NEW j \in Runs
  PROVE  /\ run[j] # Idle => run[j].at \in Nat /\ run[j].batch \in SUBSET Rungs
         /\ run[j].op = "pick" => run[j] \in Picking
         /\ run[j].op = "read" => run[j] \in Reading
         /\ run[j].op = "send" => run[j] \in Sending
         /\ run[j].op = "record" => run[j] \in Recording
         /\ run[j].op = "hand" => run[j] \in Handing
         /\ run[j].op \in {"pick", "read", "send", "record", "hand"} => run[j] # Idle
BY DEF TypeOK, Works, Idle, Picking, Reading, Sending, Recording, Handing

\* A run goes on to other work; rows are never deleted.
Worked(j, work) ==
  /\ work \in Works
  /\ Go(j, work)
  /\ work # Idle => \A n \in work.batch : Exists(n)'
  /\ message' \in [Rungs -> Row]
  /\ \A n \in Rungs : Exists(n) => Exists(n)'
  /\ died' \subseteq Rungs
  /\ delivered' \in Nat
  /\ Elsewhere

LEMMA WorkedTyped ==
  ASSUME TypeOK, NEW j \in Runs, NEW work, Worked(j, work)
  PROVE  TypeOK'
<1>1. \A i \in Runs : run'[i] = IF i = j THEN work ELSE run[i]
  BY DEF TypeOK, Worked, Go
<1>2. run' \in [Runs -> Works]
  BY DEF TypeOK, Worked, Go
<1>3. ASSUME NEW i \in Runs, run'[i] # Idle PROVE \A n \in run'[i].batch : Exists(n)'
  <2>1. CASE i = j
    BY <1>1, <1>3, <2>1 DEF Worked
  <2>2. CASE i # j
    <3>1. run[i] # Idle /\ run'[i] = run[i]
      BY <1>1, <1>3, <2>2
    <3>2. run[i].batch \in SUBSET Rungs
      BY <3>1, RunShape
    <3> QED
      BY <3>1, <3>2 DEF TypeOK, Worked
  <2> QED
    BY <2>1, <2>2
<1> QED
  BY <1>2, <1>3 DEF TypeOK, Worked, Elsewhere

LEMMA RestTyped ==
  ASSUME TypeOK, NEW j \in Runs, run[j] # Idle, NEW n
  PROVE  /\ Rest(j, n) \in Works
         /\ Rest(j, n) # Idle => Rest(j, n).batch \subseteq run[j].batch
         /\ ~Carries(Rest(j, n))
<1>1. run[j].at \in Nat /\ run[j].batch \in SUBSET Rungs
  BY RunShape
<1>2. [op |-> "pick", at |-> run[j].at, batch |-> run[j].batch \ {n}] \in Works
  BY <1>1 DEF Works, Picking
<1> QED
  BY <1>2 DEF Rest, Works, Carries, Idle

\* A write over one row leaves every row in its place.
LEMMA RowWritten ==
  ASSUME TypeOK, NEW n \in Rungs, NEW row \in Row, row.status # "NONE", message' = [message EXCEPT ![n] = row]
  PROVE  /\ message' \in [Rungs -> Row]
         /\ \A m \in Rungs : Exists(m) => Exists(m)'
         /\ OpenRows' \subseteq IF row.status = "SCHEDULED" THEN OpenRows \cup {n} ELSE OpenRows \ {n}
<1>1. \A m \in Rungs : message'[m] = IF m = n THEN row ELSE message[m]
  BY DEF TypeOK
<1>2. message' \in [Rungs -> Row]
  BY DEF TypeOK
<1> QED
  BY <1>1, <1>2 DEF Exists, OpenRows

LEMMA GoCarriers ==
  ASSUME TypeOK, NEW j \in Runs, NEW work, Go(j, work)
  PROVE  Carriers' = IF Carries(work) THEN Carriers \cup {j} ELSE Carriers \ {j}
<1>1. \A i \in Runs : run'[i] = IF i = j THEN work ELSE run[i]
  BY DEF TypeOK, Go
<1> QED
  BY <1>1 DEF Carriers

(* What a step of a run does to the count *)

Loses == OpenRows' \subseteq OpenRows /\ Carriers' \subseteq Carriers /\ delivered' = delivered
Takes(j, n) == n \in OpenRows /\ OpenRows' \subseteq OpenRows \ {n} /\ Carriers' \subseteq Carriers \cup {j} /\ delivered' = delivered
Returns(j, n) == j \in Carriers /\ OpenRows' \subseteq OpenRows \cup {n} /\ Carriers' \subseteq Carriers \ {j} /\ delivered' = delivered
Delivers(j) == j \in Carriers /\ OpenRows' \subseteq OpenRows /\ Carriers' \subseteq Carriers \ {j} /\ delivered' = delivered + 1

Counted(j) ==
  /\ scheduled' = scheduled
  /\ Loses \/ Delivers(j) \/ \E n \in Rungs : Takes(j, n) \/ Returns(j, n)

LEMMA CountFinite ==
  /\ IsFiniteSet(OpenRows) /\ Cardinality(OpenRows) \in Nat
  /\ IsFiniteSet(Carriers) /\ Cardinality(Carriers) \in Nat
<1>1. OpenRows \in SUBSET Rungs /\ Carriers \in SUBSET Runs
  BY DEF OpenRows, Carriers
<1> QED
  BY <1>1, RungsFinite, FS_Subset, FS_CardinalityType

\* Adding one member, or taking one away, changes the number of members by one at most.
LEMMA OneMore ==
  ASSUME NEW S, IsFiniteSet(S), NEW x, NEW T, T \subseteq S \cup {x}
  PROVE  Cardinality(T) <= Cardinality(S) + 1
<1>1. /\ IsFiniteSet(S \cup {x})
      /\ Cardinality(S \cup {x}) \in Nat /\ Cardinality(S) \in Nat
      /\ Cardinality(S \cup {x}) <= Cardinality(S) + 1
  <2>1. IsFiniteSet(S \cup {x}) /\ Cardinality(S \cup {x}) = IF x \in S THEN Cardinality(S) ELSE Cardinality(S) + 1
    BY FS_AddElement
  <2>2. Cardinality(S) \in Nat
    BY FS_CardinalityType
  <2> QED
    BY <2>1, <2>2
<1>2. Cardinality(T) <= Cardinality(S \cup {x}) /\ Cardinality(T) \in Nat
  BY <1>1, FS_Subset, FS_CardinalityType
<1> QED
  BY <1>1, <1>2

LEMMA OneLess ==
  ASSUME NEW S, IsFiniteSet(S), NEW x \in S, NEW T, T \subseteq S \ {x}
  PROVE  Cardinality(T) <= Cardinality(S) - 1
<1>1. /\ IsFiniteSet(S \ {x})
      /\ Cardinality(S \ {x}) = Cardinality(S) - 1
  BY FS_RemoveElement
<1> QED
  BY <1>1, FS_Subset

LEMMA NoMore ==
  ASSUME NEW S, IsFiniteSet(S), NEW T, T \subseteq S
  PROVE  Cardinality(T) <= Cardinality(S)
BY FS_Subset

\* The arithmetic of a delivery.
LEMMA Fewer ==
  ASSUME NEW d \in Nat, NEW o \in Nat, NEW c \in Nat, NEW s \in Nat, d + o + c <= s,
         NEW o2 \in Nat, NEW c2 \in Nat, o2 <= o, c2 <= c - 1
  PROVE  d + 1 + o2 + c2 <= s
OBVIOUS

LEMMA CountKept ==
  ASSUME TypeOK, Budget, NEW j \in Runs, Counted(j)
  PROVE  Budget'
<1> DEFINE O == Cardinality(OpenRows)
           C == Cardinality(Carriers)
<1>1. O \in Nat /\ C \in Nat /\ O' \in Nat /\ C' \in Nat /\ delivered \in Nat /\ scheduled \in Nat
  <2>1. OpenRows' \in SUBSET Rungs /\ Carriers' \in SUBSET Runs
    BY DEF OpenRows, Carriers
  <2>2. IsFiniteSet(OpenRows') /\ IsFiniteSet(Carriers')
    BY <2>1, RungsFinite, FS_Subset
  <2>3. O' \in Nat /\ C' \in Nat
    BY <2>2, FS_CardinalityType
  <2> QED
    BY <2>3, CountFinite DEF TypeOK, Counted
<1>2. CASE Loses
  <2>1. O' <= O /\ C' <= C
    BY <1>2, CountFinite, NoMore DEF Loses
  <2> QED
    BY <1>1, <1>2, <2>1, SMTT(20) DEF Loses, Budget, Counted
<1>3. CASE Delivers(j)
  <2>1. O' <= O /\ C' <= C - 1
    BY <1>3, CountFinite, NoMore, OneLess DEF Delivers
  <2>2. delivered' = delivered + 1 /\ scheduled' = scheduled
    BY <1>3 DEF Delivers, Counted
  <2>3. delivered + O + C <= scheduled
    BY DEF Budget
  <2>4. delivered' + O' + C' <= scheduled'
    BY <1>1, <2>1, <2>2, <2>3, Fewer
  <2> QED
    BY <2>4 DEF Budget
<1>4. ASSUME NEW n \in Rungs, Takes(j, n) PROVE Budget'
  <2>1. O' <= O - 1 /\ C' <= C + 1
    BY <1>4, CountFinite, OneLess, OneMore DEF Takes
  <2> QED
    BY <1>1, <1>4, <2>1, SMTT(20) DEF Takes, Budget, Counted
<1>5. ASSUME NEW n \in Rungs, Returns(j, n) PROVE Budget'
  <2>1. O' <= O + 1 /\ C' <= C - 1
    BY <1>5, CountFinite, OneLess, OneMore DEF Returns
  <2> QED
    BY <1>1, <1>5, <2>1, SMTT(20) DEF Returns, Budget, Counted
<1> QED
  BY <1>2, <1>3, <1>4, <1>5 DEF Counted

-----------------------------------------------------------------------------
(* One step of a run *)

\* The step is well formed, and accounts for what it takes up and puts down.
Done(j) == (\E work : Worked(j, work)) /\ Counted(j)

\* A step that changes no row.
LEMMA Moved ==
  ASSUME TypeOK, NEW j \in Runs, NEW work \in Works, Go(j, work), Elsewhere, message' = message,
         died' \subseteq Rungs, delivered' \in Nat, work # Idle => work.batch \subseteq run[j].batch,
         run[j] # Idle,
         \/ delivered' = delivered /\ (Carries(work) => j \in Carriers)
         \/ delivered' = delivered + 1 /\ ~Carries(work) /\ j \in Carriers
  PROVE  Done(j)
<1>1. Worked(j, work)
  BY DEF Worked, TypeOK, Exists
<1>2. OpenRows' \subseteq OpenRows /\ scheduled' = scheduled
  BY DEF OpenRows, Elsewhere
<1>3. Loses \/ Delivers(j)
  BY <1>2, GoCarriers DEF Loses, Delivers
<1> QED
  BY <1>1, <1>2, <1>3 DEF Done, Counted

\* A run that begins has rows that exist.
LEMMA StartDone == ASSUME TypeOK, NEW j \in Runs, StartRun(j) PROVE Done(j)
<1>1. PICK batch \in SUBSET {n \in Rungs : IsDue(n)} \ {{}} : Go(j, [op |-> "pick", at |-> now, batch |-> batch])
  BY DEF StartRun
<1> DEFINE work == [op |-> "pick", at |-> now, batch |-> batch]
<1>2. work \in Works /\ ~Carries(work)
  BY DEF TypeOK, Works, Picking, Carries
<1>3. \A n \in batch : Exists(n)'
  BY DEF StartRun, IsDue, Exists
<1>4. Worked(j, work)
  BY <1>1, <1>2, <1>3 DEF Worked, StartRun, TypeOK, Exists
<1>5. Loses /\ scheduled' = scheduled
  <2> HIDE DEF work
  <2>1. Carriers' \subseteq Carriers
    BY <1>1, <1>2, GoCarriers DEF work
  <2> QED
    BY <2>1 DEF Loses, OpenRows, StartRun, Elsewhere
<1> QED
  BY <1>4, <1>5 DEF Done, Counted

LEMMA ClaimDone == ASSUME TypeOK, NEW j \in Runs, NEW n \in Rungs, Claim(j, n) PROVE Done(j)
<1> DEFINE work == [op |-> "read", at |-> run[j].at, batch |-> run[j].batch \ {n}, rung |-> n]
           row == [message[n] EXCEPT !.status = "PROCESSING"]
<1>1. run[j] \in Picking /\ run[j] # Idle
  BY RunShape DEF Claim
<1>2. work \in Works /\ Carries(work)
  BY <1>1 DEF Works, Picking, Reading, Carries
<1>3. row \in Row /\ row.status = "PROCESSING"
  BY DEF TypeOK, Row, MessageStatuses
<1>4. message' = [message EXCEPT ![n] = row]
  BY DEF Claim
<1>5. /\ message' \in [Rungs -> Row]
      /\ \A m \in Rungs : Exists(m) => Exists(m)'
      /\ OpenRows' \subseteq OpenRows \ {n}
  BY <1>3, <1>4, RowWritten
<1>6. \A m \in work.batch : Exists(m)'
  BY <1>1, <1>5 DEF TypeOK, Picking
<1>7. Worked(j, work)
  BY <1>2, <1>5, <1>6 DEF Worked, Claim, TypeOK
<1>8. Takes(j, n)
  <2>1. Carriers' \subseteq Carriers \cup {j}
    BY GoCarriers, <1>2 DEF Claim
  <2> QED
    BY <2>1, <1>5 DEF Takes, Claim, OpenRows
<1> QED
  BY <1>7, <1>8 DEF Done, Counted, Claim, Elsewhere

LEMMA PassOverDone == ASSUME TypeOK, NEW j \in Runs, NEW n \in Rungs, PassOver(j, n) PROVE Done(j)
<1>1. run[j] # Idle
  BY RunShape DEF PassOver
<1> QED
  BY <1>1, RestTyped, Moved DEF PassOver, TypeOK

\* A run that carries on with the row in its hands.
LEMMA OutcomeDone ==
  ASSUME TypeOK, NEW j \in Runs, run[j].op = "send", NEW outcome \in Outcomes, Outcome(j, outcome),
         Elsewhere, UNCHANGED <<message, died>>,
         IF outcome = "SENT" THEN delivered' = delivered + 1 ELSE delivered' = delivered
  PROVE  Done(j)
<1> DEFINE q == run[j]
           work == [op |-> "record", at |-> q.at, batch |-> q.batch, rung |-> q.rung,
                    attempts |-> q.attempts, settings |-> q.settings, outcome |-> outcome]
<1>1. q \in Sending /\ q # Idle
  BY RunShape
<1>2. work \in Works
  BY <1>1 DEF Works, Sending, Recording
<1>3. Go(j, work)
  BY DEF Outcome
<1>4. j \in Carriers
  BY DEF Carriers, Carries
<1>5. outcome = "SENT" => ~Carries(work)
  BY DEF Carries
<1> QED
  BY <1>1, <1>2, <1>3, <1>4, <1>5, Moved DEF TypeOK

LEMMA ResolveDone == ASSUME TypeOK, NEW j \in Runs, ResolveTarget(j) \/ ResolveNothing(j) PROVE Done(j)
<1> DEFINE q == run[j]
           go == [op |-> "send", at |-> q.at, batch |-> q.batch, rung |-> q.rung,
                  attempts |-> message[q.rung].attempts, settings |-> settings]
           stop == [op |-> "record", at |-> q.at, batch |-> q.batch, rung |-> q.rung,
                    attempts |-> message[q.rung].attempts, settings |-> settings, outcome |-> "STALE"]
<1>1. q \in Reading /\ q # Idle
  BY RunShape DEF ResolveTarget, ResolveNothing
<1>2. message[q.rung].attempts \in Nat /\ settings \in SUBSET Channels
  BY <1>1 DEF TypeOK, Reading, Row
<1>3. go \in Works /\ stop \in Works
  BY <1>1, <1>2 DEF Works, Reading, Sending, Recording, Outcomes
<1>4. j \in Carriers
  BY DEF Carriers, Carries, ResolveTarget, ResolveNothing
<1>5. CASE ResolveTarget(j)
  BY <1>1, <1>3, <1>4, <1>5, Moved DEF ResolveTarget, TypeOK
<1>6. CASE ResolveNothing(j)
  BY <1>1, <1>3, <1>4, <1>6, Moved DEF ResolveNothing, TypeOK
<1> QED
  BY <1>5, <1>6

LEMMA SendDone == ASSUME TypeOK, NEW j \in Runs, Deliver(j) \/ BeUnavailable(j) \/ Throw(j) PROVE Done(j)
<1>1. {"SENT", "UNAVAILABLE", "RETRY", "EXHAUSTED"} \subseteq Outcomes
  BY DEF Outcomes
<1>2. CASE Deliver(j)
  BY <1>1, <1>2, OutcomeDone DEF Deliver
<1>3. CASE BeUnavailable(j)
  BY <1>1, <1>3, OutcomeDone DEF BeUnavailable
<1>4. CASE Throw(j)
  BY <1>1, <1>4, OutcomeDone DEF Throw
<1> QED
  BY <1>2, <1>3, <1>4

\* What is recorded is a row, and is open again only for a retry.
LEMMA RecordedRow ==
  ASSUME NEW q \in Recording, NEW row \in Row
  PROVE  /\ Recorded(q, row) \in Row
         /\ Recorded(q, row).status # "NONE"
         /\ Recorded(q, row).status = "SCHEDULED" => q.outcome = "RETRY"
<1>1. q.outcome \in {"SENT", "STALE", "UNAVAILABLE", "RETRY", "EXHAUSTED"} /\ q.at \in Nat /\ q.attempts \in Nat
  BY DEF Recording, Outcomes
<1>2. RetryDelay \in Nat
  OBVIOUS
<1>3. row.attempts \in Nat /\ row.externalId \in BOOLEAN /\ row.due \in Int
  BY DEF Row
<1>4. CASE q.outcome = "SENT"
  <2> DEFINE b == row.externalId \/ Ladder[q.rung] # "TELEGRAM"
  <2>1. Recorded(q, row) = [row EXCEPT !.status = "SENT", !.attempts = row.attempts + 1, !.externalId = b]
    BY <1>4 DEF Recorded, Written
  <2>2. b \in BOOLEAN
    BY Zenon
  <2> HIDE DEF b
  <2>3. Recorded(q, row) = [status |-> "SENT", due |-> row.due, attempts |-> row.attempts + 1, externalId |-> b]
    BY <2>1 DEF Row
  <2> QED
    BY <1>3, <2>2, <2>3 DEF Row, MessageStatuses
<1>5. CASE q.outcome \in {"STALE", "UNAVAILABLE"}
  BY <1>5, SMTT(20) DEF Recorded, Written, Row, MessageStatuses
<1>6. CASE q.outcome = "RETRY"
  <2>1. Recorded(q, row) = [status |-> "SCHEDULED", due |-> q.at + RetryDelay, attempts |-> q.attempts + 1,
                            externalId |-> row.externalId]
    <3>1. Recorded(q, row) = [row EXCEPT !.status = "SCHEDULED", !.attempts = q.attempts + 1, !.due = q.at + RetryDelay]
      BY <1>6 DEF Recorded, Written
    <3> QED
      BY <3>1 DEF Row
  <2> QED
    BY <1>1, <1>2, <1>3, <1>6, <2>1, SMTT(20) DEF Row, MessageStatuses
<1>7. CASE q.outcome = "EXHAUSTED"
  <2>1. Recorded(q, row) = [status |-> "FAILED", due |-> row.due, attempts |-> q.attempts + 1,
                            externalId |-> row.externalId]
    <3>1. Recorded(q, row) = [row EXCEPT !.status = "FAILED", !.attempts = q.attempts + 1]
      BY <1>7 DEF Recorded, Written
    <3> QED
      BY <3>1 DEF Row
  <2> QED
    BY <1>1, <1>3, <2>1 DEF Row, MessageStatuses
<1> QED
  BY <1>1, <1>4, <1>5, <1>6, <1>7

LEMMA RecordDone == ASSUME TypeOK, NEW j \in Runs, Record(j) PROVE Done(j)
<1> DEFINE q == run[j]
           n == q.rung
           hand == [op |-> "hand", at |-> q.at, batch |-> q.batch, rung |-> q.rung, settings |-> q.settings]
           work == IF q.outcome \in {"UNAVAILABLE", "EXHAUSTED"} THEN hand ELSE Rest(j, n)
<1>1. q \in Recording /\ q # Idle /\ q.op = "record" /\ n \in Rungs
  <2>1. q \in Recording /\ q # Idle /\ q.op = "record"
    BY RunShape DEF Record
  <2> QED
    BY <2>1 DEF Recording
<1>2. hand \in Works /\ Carries(hand)
  BY <1>1 DEF Recording, Handing, Works, Carries
<1>3. work \in Works /\ (work # Idle => work.batch \subseteq q.batch)
  BY <1>1, <1>2, RestTyped
<1>4. /\ message' = [message EXCEPT ![n] = Recorded(q, message[n])]
      /\ Go(j, work)
      /\ UNCHANGED <<delivered, died>> /\ Elsewhere
  BY DEF Record
<1>5. message[n] \in Row
  BY <1>1 DEF TypeOK
<1>6. /\ Recorded(q, message[n]) \in Row
      /\ Recorded(q, message[n]).status # "NONE"
      /\ Recorded(q, message[n]).status = "SCHEDULED" => q.outcome = "RETRY"
  BY <1>1, <1>5, RecordedRow
<1>7. /\ message' \in [Rungs -> Row]
      /\ \A m \in Rungs : Exists(m) => Exists(m)'
      /\ OpenRows' \subseteq IF q.outcome = "RETRY" THEN OpenRows \cup {n} ELSE OpenRows
  BY <1>1, <1>4, <1>6, RowWritten
<1>8. \A m \in q.batch : Exists(m)'
  <2>1. q.batch \subseteq Rungs
    BY <1>1 DEF Recording
  <2> QED
    BY <1>1, <1>7, <2>1 DEF TypeOK
<1>9. Worked(j, work)
  BY <1>3, <1>4, <1>7, <1>8 DEF Worked, TypeOK
<1>10. Carriers' = IF Carries(work) THEN Carriers \cup {j} ELSE Carriers \ {j}
  BY <1>4, GoCarriers
<1>11. CASE q.outcome = "RETRY"
  <2>1. j \in Carriers
    BY <1>1, <1>11 DEF Carriers, Carries
  <2>2. ~Carries(work)
    BY <1>1, <1>11, RestTyped
  <2>3. Returns(j, n)
    BY <1>4, <1>7, <1>10, <1>11, <2>1, <2>2 DEF Returns
  <2> QED
    BY <1>1, <1>4, <1>9, <2>3 DEF Done, Counted, Elsewhere
<1>12. CASE q.outcome # "RETRY"
  <2>1. Carries(work) => j \in Carriers
    BY <1>1, RestTyped DEF Carriers, Carries
  <2>2. Loses
    BY <1>4, <1>7, <1>10, <1>12, <2>1 DEF Loses
  <2> QED
    BY <1>4, <1>9, <2>2 DEF Done, Counted, Elsewhere
<1> QED
  BY <1>11, <1>12

LEMMA HandDownDone == ASSUME TypeOK, NEW j \in Runs, HandDown(j) PROVE Done(j)
<1> DEFINE q == run[j]
<1>1. q \in Handing /\ q # Idle /\ j \in Carriers
  BY RunShape DEF HandDown, Carriers, Carries
<1>2. PICK n \in NextRung(q.rung, q.settings) : message' = Opened(message, n, q.at) /\ died' = died \ {n}
  BY DEF HandDown
<1>3. n \in Rungs /\ q.at \in Int
  BY <1>1, NextRungIn DEF Handing
<1>4. /\ message' \in [Rungs -> Row]
      /\ message'[n].status = "SCHEDULED"
      /\ \A m \in Rungs \ {n} : message'[m] = message[m]
  BY <1>2, <1>3, OpenedRow DEF TypeOK
<1>5. (\A m \in Rungs : Exists(m) => Exists(m)') /\ OpenRows' \subseteq OpenRows \cup {n}
  BY <1>4 DEF Exists, OpenRows
<1>6. /\ Rest(j, q.rung) \in Works
      /\ Rest(j, q.rung) # Idle => Rest(j, q.rung).batch \subseteq q.batch
      /\ ~Carries(Rest(j, q.rung))
  BY <1>1, RestTyped
<1>7. \A m \in q.batch : Exists(m)'
  BY <1>1, <1>5 DEF TypeOK, Handing
<1>8. Go(j, Rest(j, q.rung)) /\ delivered' = delivered /\ Elsewhere
  BY DEF HandDown
<1>9. Worked(j, Rest(j, q.rung))
  BY <1>2, <1>4, <1>5, <1>6, <1>7, <1>8 DEF Worked, TypeOK
<1>10. Returns(j, n)
  BY <1>1, <1>5, <1>6, <1>8, GoCarriers DEF Returns
<1> QED
  BY <1>3, <1>8, <1>9, <1>10 DEF Done, Counted, Elsewhere

LEMMA LadderExhaustedDone == ASSUME TypeOK, NEW j \in Runs, LadderExhausted(j) PROVE Done(j)
<1>1. run[j] # Idle
  BY RunShape DEF LadderExhausted
<1> QED
  BY <1>1, RestTyped, Moved DEF LadderExhausted, TypeOK

LEMMA DieDone == ASSUME TypeOK, NEW j \in Runs, Die(j) PROVE Done(j)
<1>1. run[j] # Idle
  BY RunShape DEF Die
<1>2. run[j].rung \in Rungs
  BY RunShape DEF Die, Reading, Sending, Recording, Handing
<1>3. Idle \in Works /\ ~Carries(Idle)
  BY DEF Works, Idle, Carries
<1> QED
  BY <1>1, <1>2, <1>3, Moved DEF Die, TypeOK

LEMMA RunDone == ASSUME TypeOK, NEW j \in Runs, StartRun(j) \/ Advance(j) \/ Die(j) PROVE Done(j)
BY StartDone, ClaimDone, PassOverDone, ResolveDone, SendDone, RecordDone, HandDownDone, LadderExhaustedDone, DieDone
   DEF Advance

-----------------------------------------------------------------------------
(* The theorems *)

LEMMA TendedKept == ASSUME TypeOK, Budget, Tended PROVE TypeOK' /\ Budget'
<1> DEFINE O == Cardinality(OpenRows)
           C == Cardinality(Carriers)
<1>1. TypeOK'
  BY OperationTyped DEF Tended
<1>2. Carriers' = Carriers /\ delivered' = delivered
  BY DEF Tended, NotDelivery, Carriers
<1>3. \/ O' <= O /\ scheduled' = scheduled
      \/ O' <= O + 1 /\ scheduled' = scheduled + 1
  BY CountFinite, NoMore, OneMore DEF Tended, Accounted
<1>4. O \in Nat /\ C \in Nat /\ O' \in Nat
  <2>1. OpenRows' \in SUBSET Rungs
    BY DEF OpenRows
  <2>2. IsFiniteSet(OpenRows')
    BY <2>1, RungsFinite, FS_Subset
  <2> QED
    BY <2>2, CountFinite, FS_CardinalityType
<1>5. delivered \in Nat /\ scheduled \in Nat /\ delivered + O + C <= scheduled
  BY DEF TypeOK, Budget
<1>6. C' = C
  BY <1>2
<1>7. delivered' + O' + C' <= scheduled'
  <2> HIDE DEF O, C
  <2> QED
    BY <1>2, <1>3, <1>4, <1>5, <1>6
<1> QED
  BY <1>1, <1>7 DEF Budget

LEMMA OutsideKept ==
  ASSUME TypeOK, Budget,
         \/ ChangeSettings
         \/ Tick
         \/ \E n \in Rungs, status \in {"SENT", "FAILED"} : WhatsAppWebhook(n, status)
         \/ UNCHANGED vars
  PROVE  TypeOK' /\ Budget'
<1>1. /\ message' \in [Rungs -> Row]
      /\ \A m \in Rungs : Exists(m) => Exists(m)'
      /\ OpenRows' \subseteq OpenRows
  <2>1. CASE message' = message
    BY <2>1 DEF TypeOK, Exists, OpenRows
  <2>2. ASSUME NEW n \in Rungs, NEW status \in {"SENT", "FAILED"}, WhatsAppWebhook(n, status)
        PROVE  /\ message' \in [Rungs -> Row]
               /\ \A m \in Rungs : Exists(m) => Exists(m)'
               /\ OpenRows' \subseteq OpenRows
    <3> DEFINE row == [message[n] EXCEPT !.status = status]
    <3>1. row \in Row /\ row.status # "NONE" /\ row.status # "SCHEDULED"
      BY DEF TypeOK, Row, MessageStatuses
    <3>2. message' = [message EXCEPT ![n] = row]
      BY <2>2 DEF WhatsAppWebhook
    <3> QED
      BY <3>1, <3>2, RowWritten
  <2> QED
    BY <2>1, <2>2 DEF ChangeSettings, Tick, vars
<1>2. /\ UNCHANGED <<kind, visit, request, run, scheduled, delivered, died>>
      /\ now' \in 0 .. MaxTime /\ settings' \subseteq Channels
  BY DEF ChangeSettings, Tick, WhatsAppWebhook, Elsewhere, vars, TypeOK
<1>3. TypeOK'
  <2>1. \A j \in Runs : run[j] # Idle => \A n \in run[j].batch : Exists(n)'
    BY <1>1, RunShape DEF TypeOK
  <2> QED
    BY <1>1, <1>2, <2>1 DEF TypeOK
<1>4. Carriers' \subseteq Carriers
  BY <1>2 DEF Carriers
<1>5. Cardinality(OpenRows') <= Cardinality(OpenRows) /\ Carriers' = Carriers
  BY <1>1, <1>2, CountFinite, NoMore DEF Carriers
<1>6. Cardinality(OpenRows') \in Nat
  BY <1>1, CountFinite, FS_Subset, FS_CardinalityType
<1>7. delivered' + Cardinality(OpenRows') + Cardinality(Carriers') <= scheduled'
  <2> DEFINE o2 == Cardinality(OpenRows')
             c2 == Cardinality(Carriers')
             o == Cardinality(OpenRows)
             c == Cardinality(Carriers)
  <2>1. delivered' = delivered /\ scheduled' = scheduled /\ c2 = c /\ o2 <= o
    BY <1>2, <1>5
  <2>2. delivered \in Nat /\ scheduled \in Nat /\ o \in Nat /\ c \in Nat /\ o2 \in Nat /\ delivered + o + c <= scheduled
    BY <1>6, CountFinite DEF TypeOK, Budget
  <2> HIDE DEF o, o2, c, c2
  <2>3. delivered' + o2 + c2 <= scheduled'
    BY <2>1, <2>2
  <2> QED
    BY <2>3 DEF o2, c2
<1> QED
  BY <1>3, <1>7 DEF Budget

LEMMA InitBudget == Init => TypeOK /\ Budget
<1> SUFFICES ASSUME Init PROVE TypeOK /\ Budget
  OBVIOUS
<1>1. TypeOK
  <2>1. now \in 0 .. MaxTime /\ scheduled \in 0 .. MaxScheduled[kind] /\ delivered \in Nat /\ died \subseteq Rungs
    BY DEF Init
  <2>2. visit \in [status : VisitStatuses, startsAt : Starts, unpaid : BOOLEAN]
    BY DEF Init, VisitStatuses
  <2>3. NoRow \in Row /\ message \in [Rungs -> Row]
    BY DEF Init, NoRow, Row, MessageStatuses
  <2>0. request \in [Requests -> Requested]
    <3>1. [op |-> "date"] \in Requested /\ Idle \in Requested
      BY DEF Requested, Owing
    <3> QED
      BY <3>1 DEF Init, InitialRequests
  <2>4. run \in [Runs -> Works] /\ \A j \in Runs : run[j] = Idle
    BY DEF Init, Works
  <2> QED
    BY <2>0, <2>1, <2>2, <2>3, <2>4 DEF Init, TypeOK, Requested
<1>2. OpenRows = {} /\ Carriers = {}
  BY DEF Init, OpenRows, Carriers, Carries, NoRow, Idle
<1>3. Cardinality(OpenRows) = 0 /\ Cardinality(Carriers) = 0
  BY <1>2, FS_EmptySet
<1> QED
  BY <1>1, <1>3 DEF Init, Budget

LEMMA NextBudget == TypeOK /\ Budget /\ [Next]_vars => TypeOK' /\ Budget'
<1> SUFFICES ASSUME TypeOK, Budget, [Next]_vars PROVE TypeOK' /\ Budget'
  OBVIOUS
<1>1. CASE Operate
  BY <1>1, OperateTended, TendedKept, OutsideKept
<1>2. ASSUME NEW j \in Runs, StartRun(j) \/ Advance(j) \/ Die(j) PROVE TypeOK' /\ Budget'
  <2>1. Done(j)
    BY <1>2, RunDone
  <2> QED
    BY <2>1, WorkedTyped, CountKept DEF Done
<1>3. CASE (\E n \in Rungs, status \in {"SENT", "FAILED"} : WhatsAppWebhook(n, status)) \/ Tick \/ UNCHANGED vars
  BY <1>3, OutsideKept
<1> QED
  BY <1>1, <1>2, <1>3 DEF Next

\* Rows, runs of the job and requests keep their shape, and a run only holds rows that exist.
THEOREM Typed == SafetySpec => []TypeOK
<1>1. SafetySpec => [](TypeOK /\ Budget)
  BY InitBudget, NextBudget, PTL DEF SafetySpec
<1> QED
  BY <1>1, PTL

\* The customer is told at most once for each scheduling, however many runs of the job overlap
\* and wherever they die, and whatever is scheduled, moved or cancelled meanwhile.
THEOREM DeliveredOncePerScheduling == SafetySpec => []DeliveredOnce
<1>1. SafetySpec => [](TypeOK /\ Budget)
  BY InitBudget, NextBudget, PTL DEF SafetySpec
<1>2. TypeOK /\ Budget => DeliveredOnce
  BY CountFinite DEF TypeOK, Budget, DeliveredOnce
<1> QED
  BY <1>1, <1>2, PTL
=============================================================================
