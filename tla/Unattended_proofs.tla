---------------------------- MODULE Unattended_proofs ----------------------------
(***************************************************************************)
(* What holds, for every value of the constants, of what the system does    *)
(* with nobody at a page: the jobs and the lock that lets one process run   *)
(* each of them, the notices a salon's staff get, the subscription of a     *)
(* business, the times that cancelled visits leave free, and the            *)
(* conversations of its bots: an update is handled once, a card's button    *)
(* takes effect once, a customer's chat pays for the visit it chose, a      *)
(* webhook leads to the bot it was registered for, and the platform's chat  *)
(* serves the member whose link was consumed.                               *)
(***************************************************************************)
EXTENDS JobScheduler, BusinessOutbox, Subscription, FreedSlots,
        InboundUpdates, BusinessBot, CustomerBot, TelegramSetup, PlatformChat,
        FiniteSetTheorems, WellFoundedInduction, TLAPS


-----------------------------------------------------------------------------
(***************************************************************************)
(* JobScheduler.  The session that runs a job holds the job's lock, and the *)
(* lock belongs to a session that is connected; a process whose session is  *)
(* gone runs nothing.                                                       *)
(***************************************************************************)

Pcs == {"idle", "lock", "run", "done", "failed"}
JobState == [pc : Pcs, failures : Nat, wait : Nat]
Busy(p, j) == task[p][j].pc \in {"run", "done", "failed"}

SessionInv ==
    /\ task \in [Procs -> [Jobs -> JobState]]
    /\ lockOf \in [Jobs -> Procs \cup {Nobody}]
    /\ mode \in [Procs -> {"off", "up", "stopping", "cli", "lost"}]
    /\ connected \in [Procs -> BOOLEAN]
    /\ faults \in 0 .. MaxFaults
    /\ \A p \in Procs : mode[p] \in {"off", "lost"} => ~connected[p]
    /\ \A p \in Procs, j \in Jobs : connected[p] /\ Busy(p, j) => lockOf[j] = p
    /\ \A j \in Jobs : lockOf[j] # Nobody => connected[lockOf[j]] /\ Busy(lockOf[j], j)

LEMMA RestedIsAState == Rested \in JobState /\ Rested.pc = "idle"
BY DEF Rested, JobState, Pcs

LEMMA OutcomeIsAState ==
  ASSUME NEW t \in JobState, NEW j \in Jobs
  PROVE  {Failed(t), Settled(j)} \subseteq JobState /\ Failed(t).pc = "idle" /\ Settled(j).pc = "idle"
<1> DEFINE n == Counted(t.failures)
<1>1. n \in Nat
  BY DEF Counted, JobState
<1> HIDE DEF n
<1>2. Backoff(n) \in Nat
  BY <1>1, JobSchedulerAssumption DEF Backoff
<1> HIDE DEF Backoff
<1>3. Failed(t) = [pc |-> "idle", failures |-> n, wait |-> Backoff(n)]
  BY DEF Failed, n
<1>4. Settled(j) = [pc |-> "idle", failures |-> 0, wait |-> Interval[j]]
  BY DEF Settled, Rested
<1> QED
  BY <1>1, <1>2, <1>3, <1>4, JobSchedulerAssumption DEF JobState, Pcs

LEMMA TickedIsAState ==
  ASSUME NEW row \in [Jobs -> JobState]
  PROVE  /\ Ticked(row) \in [Jobs -> JobState]
         /\ \A j \in Jobs : Ticked(row)[j].pc = row[j].pc
                              \/ (row[j].pc = "idle" /\ Ticked(row)[j].pc = "lock")
<1> DEFINE f == Ticked(row)
<1>1. \A j \in Jobs : f[j] \in JobState /\ (f[j].pc = row[j].pc \/ (row[j].pc = "idle" /\ f[j].pc = "lock"))
  <2> TAKE j \in Jobs
  <2>0. row[j] \in JobState
    OBVIOUS
  <2>1. CASE row[j].pc # "idle"
    <3>1. f[j] = row[j]
      BY <2>1 DEF Ticked
    <3> HIDE DEF f
    <3> QED
      BY <2>0, <3>1
  <2>2. CASE row[j].pc = "idle" /\ row[j].wait = 0
    BY <2>2 DEF Ticked, JobState, Pcs
  <2>3. CASE row[j].pc = "idle" /\ row[j].wait # 0
    <3>1. f[j] = [row[j] EXCEPT !.wait = @ - 1]
      BY <2>3 DEF Ticked
    <3> HIDE DEF f
    <3> QED
      BY <2>0, <2>3, <3>1 DEF JobState
  <2> QED
    BY <2>1, <2>2, <2>3
<1>2. f = [j \in Jobs |-> f[j]]
  BY DEF Ticked
<1> HIDE DEF f
<1>3. f \in [Jobs -> JobState]
  BY <1>1, <1>2
<1> QED
  BY <1>1, <1>3 DEF f

\* A step on one job of one process
LEMMA TaskWritten ==
  ASSUME task \in [Procs -> [Jobs -> JobState]], NEW p \in Procs, NEW j \in Jobs, NEW t \in JobState,
         task' = [task EXCEPT ![p][j] = t]
  PROVE  /\ task' \in [Procs -> [Jobs -> JobState]] /\ task'[p][j] = t
         /\ \A q \in Procs, k \in Jobs : q # p \/ k # j => task'[q][k] = task[q][k]
OBVIOUS

LEMMA PcWritten ==
  ASSUME task \in [Procs -> [Jobs -> JobState]], NEW p \in Procs, NEW j \in Jobs, NEW pc \in Pcs,
         task' = [task EXCEPT ![p][j].pc = pc]
  PROVE  /\ task' \in [Procs -> [Jobs -> JobState]] /\ task'[p][j].pc = pc
         /\ \A q \in Procs, k \in Jobs : q # p \/ k # j => task'[q][k] = task[q][k]
<1> DEFINE t == [task[p][j] EXCEPT !.pc = pc]
<1>1. task' = [task EXCEPT ![p][j] = t]
  OBVIOUS
<1>2. t \in JobState /\ t.pc = pc
  <2>1. task[p][j] \in JobState
    OBVIOUS
  <2> QED
    BY <2>1 DEF JobState
<1> HIDE DEF t
<1> QED
  BY <1>1, <1>2

LEMMA SessionNext == SessionInv /\ [SchedulerNext]_schedulerVars => SessionInv'
<1> SUFFICES ASSUME SessionInv, [SchedulerNext]_schedulerVars PROVE SessionInv'
  OBVIOUS
<1>1. CASE UNCHANGED schedulerVars
  BY <1>1 DEF schedulerVars, SessionInv, Busy
<1>2. ASSUME NEW p \in Procs, NEW row \in [Jobs -> JobState], \A j \in Jobs : row[j].pc \in {"idle", "lock"},
             ~connected[p], task' = [task EXCEPT ![p] = row],
             lockOf' = lockOf, faults' \in 0 .. MaxFaults,
             connected' = [connected EXCEPT ![p] = TRUE],
             NEW m \in {"up", "cli"}, mode' = [mode EXCEPT ![p] = m]
      PROVE  SessionInv'
  BY <1>2, NobodyIsNoProcess DEF SessionInv, Busy
<1>3. ASSUME NEW p \in Procs, StartScheduler(p) PROVE SessionInv'
  <2> DEFINE row == Ticked([j \in Jobs |-> Rested])
  <2>1. row \in [Jobs -> JobState] /\ \A j \in Jobs : row[j].pc \in {"idle", "lock"}
    BY RestedIsAState, TickedIsAState
  <2>2. task' = [task EXCEPT ![p] = row]
    BY <1>3 DEF StartScheduler
  <2> HIDE DEF row
  <2> QED
    BY <1>2, <1>3, <2>1, <2>2 DEF StartScheduler, SessionInv
<1>4. ASSUME NEW p \in Procs, NEW k \in Jobs, StartCli(p, k) PROVE SessionInv'
  <2> DEFINE row == [j \in Jobs |-> IF j = k THEN [Rested EXCEPT !.pc = "lock"] ELSE Rested]
  <2>1. row \in [Jobs -> JobState] /\ \A j \in Jobs : row[j].pc \in {"idle", "lock"}
    BY DEF Rested, JobState, Pcs
  <2>2. task' = [task EXCEPT ![p] = row]
    BY <1>4 DEF StartCli
  <2> HIDE DEF row
  <2>3. faults' \in 0 .. MaxFaults
    BY <1>4, JobSchedulerAssumption DEF StartCli, Fault, SessionInv
  <2> QED
    BY <1>2, <1>4, <2>1, <2>2, <2>3 DEF StartCli, SessionInv
<1>5. ASSUME NEW p \in Procs, Tick(p) PROVE SessionInv'
  <2> DEFINE row == Ticked(task[p])
  <2>1. /\ row \in [Jobs -> JobState]
        /\ \A j \in Jobs : row[j].pc = task[p][j].pc \/ {row[j].pc, task[p][j].pc} \subseteq {"idle", "lock"}
    BY TickedIsAState DEF SessionInv
  <2>2. task' = [task EXCEPT ![p] = row]
    BY <1>5 DEF Tick
  <2> HIDE DEF row
  <2>3. \A q \in Procs, j \in Jobs : Busy(q, j)' <=> Busy(q, j)
    BY <2>1, <2>2 DEF Busy, SessionInv
  <2>4. task' \in [Procs -> [Jobs -> JobState]]
    BY <2>1, <2>2 DEF SessionInv
  <2> QED
    BY <1>5, <2>3, <2>4 DEF Tick, SessionInv
<1>6. ASSUME NEW p \in Procs, NEW k \in Jobs, TakeLock(p, k) PROVE SessionInv'
  <2>1. /\ task' \in [Procs -> [Jobs -> JobState]] /\ task'[p][k].pc = "run"
        /\ \A q \in Procs, j \in Jobs : q # p \/ j # k => task'[q][j] = task[q][j]
    BY <1>6, PcWritten DEF TakeLock, SessionInv, Pcs
  <2> QED
    BY <1>6, <2>1, NobodyIsNoProcess DEF TakeLock, Free, SessionInv, Busy
<1>7. ASSUME NEW p \in Procs, NEW k \in Jobs, MissLock(p, k) PROVE SessionInv'
  <2>1. /\ task' \in [Procs -> [Jobs -> JobState]] /\ task'[p][k].pc = "idle"
        /\ \A q \in Procs, j \in Jobs : q # p \/ j # k => task'[q][j] = task[q][j]
    <3>1. Settled(k) \in JobState /\ Settled(k).pc = "idle"
      BY OutcomeIsAState, RestedIsAState
    <3> QED
      BY <1>7, <3>1, TaskWritten DEF MissLock, SessionInv
  <2> QED
    BY <1>7, <2>1 DEF MissLock, SessionInv, Busy
<1>8. ASSUME NEW p \in Procs, NEW k \in Jobs, NEW outcome \in {"done", "failed"}, EndRun(p, k, outcome)
      PROVE  SessionInv'
  <2>1. /\ task' \in [Procs -> [Jobs -> JobState]] /\ task'[p][k].pc = outcome
        /\ \A q \in Procs, j \in Jobs : q # p \/ j # k => task'[q][j] = task[q][j]
    BY <1>8, PcWritten DEF EndRun, SessionInv, Pcs
  <2> QED
    BY <1>8, <2>1 DEF EndRun, SessionInv, Busy
<1>9. ASSUME NEW p \in Procs, NEW k \in Jobs, Unlock(p, k) PROVE SessionInv'
  <2> DEFINE t == IF task[p][k].pc = "failed" THEN Failed(task[p][k]) ELSE Settled(k)
  <2>1. t \in JobState /\ t.pc = "idle"
    BY OutcomeIsAState DEF SessionInv
  <2>2. task' = [task EXCEPT ![p][k] = t]
    BY <1>9 DEF Unlock
  <2> HIDE DEF t
  <2>3. /\ task' \in [Procs -> [Jobs -> JobState]] /\ task'[p][k].pc = "idle"
        /\ \A q \in Procs, j \in Jobs : q # p \/ j # k => task'[q][j] = task[q][j]
    BY <2>1, <2>2, TaskWritten DEF SessionInv
  <2> QED
    BY <1>9, <2>3, NobodyIsNoProcess DEF Unlock, Unlocked, SessionInv, Busy
<1>10. ASSUME NEW p \in Procs, NEW next \in {"off", "lost"}, Gone(p, next), faults' \in 0 .. MaxFaults PROVE SessionInv'
  <2>1. task' = [task EXCEPT ![p] = [j \in Jobs |-> Rested]]
    BY <1>10 DEF Gone
  <2>2. /\ task' \in [Procs -> [Jobs -> JobState]] /\ \A j \in Jobs : task'[p][j].pc = "idle"
        /\ \A q \in Procs \ {p} : task'[q] = task[q]
    BY <2>1, RestedIsAState DEF SessionInv
  <2> QED
    BY <1>10, <2>2, NobodyIsNoProcess DEF Gone, Released, SessionInv, Busy
<1>11. ASSUME NEW p \in Procs, Signal(p) \/ Sever(p) PROVE SessionInv'
  <2>1. faults' \in 0 .. MaxFaults /\ \A q \in Procs, j \in Jobs : Busy(q, j)' <=> Busy(q, j)
    BY <1>11, JobSchedulerAssumption DEF Signal, Sever, Fault, SessionInv, Busy
  <2>2. CASE Signal(p)
    BY <2>1, <2>2 DEF Signal, SessionInv
  <2>3. CASE Sever(p)
    <3>1. lockOf' \in [Jobs -> Procs \cup {Nobody}]
      BY <2>3 DEF Sever, Released, SessionInv
    <3>2. \A j \in Jobs : lockOf'[j] = IF lockOf[j] = p THEN Nobody ELSE lockOf[j]
      BY <2>3 DEF Sever, Released
    <3>3. connected' = [connected EXCEPT ![p] = FALSE] /\ mode' = mode /\ task' = task
      BY <2>3 DEF Sever
    <3> QED
      BY <2>1, <3>1, <3>2, <3>3, NobodyIsNoProcess DEF SessionInv
  <2> QED
    BY <1>11, <2>2, <2>3
<1>12. ASSUME NEW p \in Procs, EndCli(p) \/ FinishShutdown(p) \/ ForceExit(p) \/ NoticeSevered(p) \/ Kill(p)
       PROVE  SessionInv'
  <2>1. faults' \in 0 .. MaxFaults
    BY <1>12, JobSchedulerAssumption
    DEF EndCli, FinishShutdown, ForceExit, NoticeSevered, Kill, Fault, SessionInv
  <2> QED
    BY <1>10, <1>12, <2>1 DEF EndCli, FinishShutdown, ForceExit, NoticeSevered, Kill
<1> QED
  BY <1>1, <1>3, <1>4, <1>5, <1>6, <1>7, <1>8, <1>9, <1>11, <1>12, ZenonT(60) DEF SchedulerNext, JobStep

(***************************************************************************)
(* No two processes run the same job at once, although schedulers and       *)
(* runs from the command line are started freely, sessions are lost and     *)
(* processes die (job-lock.ts, scheduler.ts).                               *)
(***************************************************************************)
THEOREM OneRunner == SchedulerSpec => []OneRunPerJob
<1>1. SchedulerInit => SessionInv
  BY RestedIsAState, JobSchedulerAssumption DEF SchedulerInit, SessionInv, Busy
<1>2. SessionInv => OneRunPerJob
  BY DEF SessionInv, OneRunPerJob, Busy
<1> QED
  BY <1>1, <1>2, SessionNext, PTL DEF SchedulerSpec

-----------------------------------------------------------------------------
(***************************************************************************)
(* BusinessOutbox.                                                         *)
(***************************************************************************)
DeliveryRow == [status : RowStatus, due : Int, attempts : Int]
SenderRow ==
    [pc : {"idle", "notice", "rows", "row", "send", "record", "retry"}, now : Int,
     list : SUBSET NoticeKeys, key : NoticeKeys, todo : SUBSET Chats, chat : Chats, seen : [Chats -> Int]]

OutboxShape ==
    /\ salonVisit \in [status : {"PENDING", "CONFIRMED", "CANCELLED", "NO_SHOW"}, start : Moments, staff : Specialists]
    /\ notice \in [NoticeKeys -> [status : RowStatus, due : Int]]
    /\ delivery \in [NoticeKeys -> [Chats -> DeliveryRow]]
    /\ sender \in [Senders -> SenderRow]
    /\ sentTo \in [NoticeKeys -> [Chats -> Nat]]
    /\ unrecorded \in [NoticeKeys -> [Chats -> Nat]]
    /\ hushed \subseteq Moments
    /\ outboxClock \in Int

\* Run j has claimed the delivery of notice k to chat c and has not written its outcome.
Holds(j, k, c) ==
    sender[j].pc \in {"send", "record", "retry"} /\ sender[j].key = k /\ sender[j].chat = c

\* No run can have sent a card of this delivery whose outcome is still to be written.
Accounted(k, c) ==
    \/ delivery[k][c].status \notin {"PROCESSING", "SENT"}
    \/ \E j \in Senders : Holds(j, k, c) /\ sender[j].pc # "record"

CardInv ==
    \A k \in NoticeKeys, c \in Chats :
      /\ \A i, j \in Senders : Holds(i, k, c) /\ Holds(j, k, c) => i = j
      /\ \A j \in Senders : Holds(j, k, c) => delivery[k][c].status = "PROCESSING"
      /\ sentTo[k][c] <= 1 + unrecorded[k][c]
      /\ Accounted(k, c) => sentTo[k][c] <= unrecorded[k][c]

LEMMA IdleSenderIsARow == IdleSender \in SenderRow /\ IdleSender.pc = "idle" /\ IdleSender.list = {}
<1>1. PICK c \in Chats : IdleSender.chat = c
  BY BusinessOutboxAssumption DEF IdleSender
<1>2. IdleSender = [pc |-> "idle", now |-> 0, list |-> {}, key |-> News, todo |-> {},
                    chat |-> IdleSender.chat, seen |-> [d \in Chats |-> 0]]
  BY DEF IdleSender
<1> QED
  BY <1>1, <1>2 DEF SenderRow, NoticeKeys

LEMMA SenderWritten ==
  ASSUME OutboxShape, NEW j \in Senders, NEW r \in SenderRow, sender' = [sender EXCEPT ![j] = r]
  PROVE  sender' \in [Senders -> SenderRow] /\ sender'[j] = r /\ \A i \in Senders \ {j} : sender'[i] = sender[i]
BY DEF OutboxShape

LEMMA DeliveryWritten ==
  ASSUME OutboxShape, NEW k \in NoticeKeys, NEW c \in Chats, NEW d \in DeliveryRow,
         delivery' = [delivery EXCEPT ![k][c] = d]
  PROVE  /\ delivery' \in [NoticeKeys -> [Chats -> DeliveryRow]] /\ delivery'[k][c] = d
         /\ \A m \in NoticeKeys, e \in Chats : m # k \/ e # c => delivery'[m][e] = delivery[m][e]
BY DEF OutboxShape

\* The fields of the run that a statement of the job leaves behind
LEMMA RunMoves ==
  ASSUME OutboxShape, NEW j \in Senders, NEW pc \in {"idle", "notice", "rows", "row", "send", "record", "retry"},
         sender' = [sender EXCEPT ![j].pc = pc]
  PROVE  /\ sender' \in [Senders -> SenderRow]
         /\ sender'[j].pc = pc /\ sender'[j].key = sender[j].key /\ sender'[j].chat = sender[j].chat
         /\ sender'[j].list = sender[j].list
         /\ \A i \in Senders \ {j} : sender'[i] = sender[i]
BY ZenonT(40) DEF OutboxShape, SenderRow

\* A step after which nobody holds a delivery that was not held before, which sends nothing and
\* writes no delivery but those that do not exist yet.
LEMMA CardsKept ==
  ASSUME CardInv, UNCHANGED <<sentTo, unrecorded>>,
         \A j \in Senders, k \in NoticeKeys, c \in Chats : Holds(j, k, c)' => Holds(j, k, c) /\ sender'[j].pc = sender[j].pc,
         \A k \in NoticeKeys, c \in Chats :
           \/ delivery'[k][c].status = delivery[k][c].status
           \/ delivery[k][c].status = "NONE" /\ delivery'[k][c].status = "SCHEDULED"
  PROVE  CardInv'
BY DEF CardInv, Accounted

NoticeRows == [NoticeKeys -> [status : RowStatus, due : Int]]

LEMMA ShapeOfNotices ==
  ASSUME NEW notes \in NoticeRows
  PROVE  /\ UpcomingSkipped(notes) \in NoticeRows
         /\ \A k \in NoticeKeys, due \in Int : Upserted(notes, k, due) \in NoticeRows
<1>1. \A m \in NoticeKeys : [notes[m] EXCEPT !.status = "SKIPPED"] \in [status : RowStatus, due : Int]
  BY DEF NoticeRows, RowStatus
<1>2. UpcomingSkipped(notes) \in NoticeRows
  BY <1>1 DEF UpcomingSkipped, NoticeRows
<1>3. ASSUME NEW k \in NoticeKeys, NEW due \in Int PROVE Upserted(notes, k, due) \in NoticeRows
  <2> DEFINE row == [status |-> IF notes[k].status = "NONE" THEN "SCHEDULED" ELSE notes[k].status, due |-> due]
  <2>1. Upserted(notes, k, due) = [notes EXCEPT ![k] = row]
    BY DEF Upserted
  <2>2. row \in [status : RowStatus, due : Int]
    BY DEF RowStatus, NoticeRows
  <2> HIDE DEF row
  <2> QED
    BY <2>1, <2>2 DEF NoticeRows
<1> QED
  BY <1>2, <1>3

LEMMA SalonShape == OutboxShape /\ SalonStep => OutboxShape'
<1> SUFFICES ASSUME OutboxShape, SalonStep PROVE OutboxShape'
  OBVIOUS
<1> USE BusinessOutboxAssumption
<1>0. \A s \in Moments : s \in NoticeKeys /\ s \in Int /\ s - Lead \in Int
  BY DEF NoticeKeys
<1>1. /\ UpcomingSkipped(notice) \in NoticeRows
      /\ \A s \in Moments : UpcomingScheduled(notice, s) \in NoticeRows
      /\ \A s \in Moments : UpcomingScheduled(Upserted(notice, News, outboxClock), s) \in NoticeRows
  <2>1. notice \in NoticeRows /\ News \in NoticeKeys /\ outboxClock \in Int
    BY DEF OutboxShape, NoticeRows, NoticeKeys
  <2>2. Upserted(notice, News, outboxClock) \in NoticeRows
    BY <2>1, ShapeOfNotices
  <2>3. \A notes \in NoticeRows, s \in Moments : UpcomingScheduled(notes, s) \in NoticeRows
    BY <1>0, ShapeOfNotices DEF UpcomingScheduled
  <2> QED
    BY <2>1, <2>2, <2>3, ShapeOfNotices
<1>2. CASE ConfirmVisit
  BY <1>1, <1>2 DEF ConfirmVisit, OutboxShape, NoticeRows
<1>3. ASSUME NEW s \in Moments, NEW p \in Specialists, MoveVisitByStaff(s, p) PROVE OutboxShape'
  BY <1>1, <1>3 DEF MoveVisitByStaff, OutboxShape, NoticeRows
<1>4. ASSUME NEW s \in Moments, MoveVisitByCustomer(s) PROVE OutboxShape'
  BY <1>4 DEF MoveVisitByCustomer, OutboxShape
<1>5. ASSUME NEW status \in {"CANCELLED", "NO_SHOW"}, EndVisitByStaff(status) PROVE OutboxShape'
  BY <1>1, <1>5 DEF EndVisitByStaff, OutboxShape, NoticeRows
<1>6. CASE EndVisitByCustomer
  BY <1>6 DEF EndVisitByCustomer, OutboxShape
<1>7. ASSUME NEW c \in Chats, SwitchChat(c) PROVE OutboxShape'
  BY <1>7 DEF SwitchChat, OutboxShape
<1> QED
  BY <1>2, <1>3, <1>4, <1>5, <1>6, <1>7 DEF SalonStep

LEMMA CountedOnce ==
  ASSUME NEW f \in [NoticeKeys -> [Chats -> Nat]], NEW k \in NoticeKeys, NEW c \in Chats,
         NEW g, g = [f EXCEPT ![k][c] = @ + 1]
  PROVE  /\ g \in [NoticeKeys -> [Chats -> Nat]] /\ g[k][c] = f[k][c] + 1
         /\ \A m \in NoticeKeys, e \in Chats : m # k \/ e # c => g[m][e] = f[m][e]
<1> DEFINE row == [f[k] EXCEPT ![c] = f[k][c] + 1]
<1>1. row \in [Chats -> Nat] /\ row[c] = f[k][c] + 1 /\ \A e \in Chats \ {c} : row[e] = f[k][e]
  OBVIOUS
<1>2. g = [f EXCEPT ![k] = row]
  OBVIOUS
<1> HIDE DEF row
<1> QED
  BY <1>1, <1>2

LEMMA SentRecorded ==
  ASSUME OutboxShape, NEW j \in Senders, RecordSent(j)
  PROVE  \E d \in DeliveryRow : d.status = "SENT" /\ delivery' = [delivery EXCEPT ![sender[j].key][sender[j].chat] = d]
<1> PICK k \in NoticeKeys, c \in Chats : k = sender[j].key /\ c = sender[j].chat
  BY DEF OutboxShape, SenderRow
<1> DEFINE old == delivery[k][c]
           d == [status |-> "SENT", due |-> old.due, attempts |-> old.attempts + 1]
<1>1. old \in DeliveryRow
  BY DEF OutboxShape
<1>2. d \in DeliveryRow
  BY <1>1 DEF DeliveryRow, RowStatus
<1>3. delivery' = [delivery EXCEPT ![k][c] = d]
  BY DEF RecordSent
<1> QED
  BY <1>2, <1>3

LEMMA JobShape == ASSUME OutboxShape, NEW j \in Senders, StartSender(j) \/ SenderStep(j) \/ DieSender(j) PROVE OutboxShape'
<1> USE DEF JobOnly, VisitKept
<1>0. sender[j].key \in NoticeKeys /\ sender[j].chat \in Chats
  BY DEF OutboxShape, SenderRow
<1>1. ASSUME StartSender(j) PROVE OutboxShape'
  <2>1. PICK L \in NoticeBatches :
          sender' = [sender EXCEPT ![j] = [IdleSender EXCEPT !.pc = "notice", !.now = outboxClock, !.list = L]]
    BY <1>1 DEF StartSender
  <2>2. [IdleSender EXCEPT !.pc = "notice", !.now = outboxClock, !.list = L] \in SenderRow
    BY IdleSenderIsARow DEF SenderRow, NoticeBatches, DueNotices, OutboxShape
  <2> QED
    BY <1>1, <2>1, <2>2 DEF StartSender, OutboxShape
<1>2. \A k \in NoticeKeys : Continue(sender[j], k) \in SenderRow
  BY IdleSenderIsARow DEF Continue, SenderRow, OutboxShape
<1>3. ASSUME NEW k \in NoticeKeys, SkipUnaddressed(j, k) PROVE OutboxShape'
  BY <1>2, <1>3 DEF SkipUnaddressed, OutboxShape, RowStatus
<1>4. ASSUME NEW k \in NoticeKeys, OpenDeliveries(j, k) PROVE OutboxShape'
  <2> DEFINE row == [c \in Chats |-> IF c \in EligibleChats /\ delivery[k][c].status = "NONE"
                                     THEN [status |-> "SCHEDULED", due |-> notice[k].due, attempts |-> 0]
                                     ELSE delivery[k][c]]
             r == [sender[j] EXCEPT !.pc = "rows", !.key = k]
  <2>1. delivery' = [delivery EXCEPT ![k] = row]
    BY <1>4 DEF OpenDeliveries
  <2>2. [status |-> "SCHEDULED", due |-> notice[k].due, attempts |-> 0] \in DeliveryRow
    BY DEF OutboxShape, DeliveryRow, RowStatus
  <2>3. row \in [Chats -> DeliveryRow]
    BY <2>2 DEF OutboxShape
  <2>4. sender' = [sender EXCEPT ![j] = r]
    BY <1>4 DEF OpenDeliveries, OutboxShape
  <2>5. r \in SenderRow
    BY ZenonT(40) DEF OutboxShape, SenderRow
  <2> HIDE DEF row, r
  <2>6. delivery' \in [NoticeKeys -> [Chats -> DeliveryRow]]
    BY <2>1, <2>3 DEF OutboxShape
  <2>7. sender' \in [Senders -> SenderRow]
    BY <2>4, <2>5, SenderWritten
  <2>8. UNCHANGED <<salonVisit, notice, sentTo, unrecorded, hushed, outboxClock>>
    BY <1>4 DEF OpenDeliveries
  <2> QED
    BY <2>6, <2>7, <2>8 DEF OutboxShape
<1>5. ASSUME ListDeliveries(j) PROVE OutboxShape'
  <2> DEFINE seen == [c \in Chats |-> IF RowIsDue(j, c) THEN delivery[sender[j].key][c].attempts ELSE 0]
             todo == {c \in Chats : RowIsDue(j, c)}
             r == [sender[j] EXCEPT !.pc = "row", !.todo = todo, !.seen = seen]
  <2>1. sender' = [sender EXCEPT ![j] = r]
    BY <1>5 DEF ListDeliveries, OutboxShape
  <2>2. seen \in [Chats -> Int] /\ todo \in SUBSET Chats
    BY DEF OutboxShape, SenderRow, DeliveryRow
  <2> HIDE DEF seen, todo
  <2>3. r \in SenderRow
    BY <2>2, ZenonT(40) DEF OutboxShape, SenderRow
  <2> HIDE DEF r
  <2> QED
    BY <1>5, <2>1, <2>3, ZenonT(40) DEF ListDeliveries, OutboxShape
<1>6. ASSUME NEW c \in Chats, ClaimDelivery(j, c) PROVE OutboxShape'
  <2> DEFINE r == [sender[j] EXCEPT !.pc = "send", !.chat = c, !.todo = @ \ {c}]
             d == [delivery[sender[j].key][c] EXCEPT !.status = "PROCESSING"]
  <2>1. sender' = [sender EXCEPT ![j] = r] /\ delivery' = [delivery EXCEPT ![sender[j].key][c] = d]
    BY <1>6 DEF ClaimDelivery, OutboxShape
  <2>2. r \in SenderRow
    BY ZenonT(40) DEF OutboxShape, SenderRow
  <2>3. d \in DeliveryRow
    <3>1. delivery[sender[j].key][c] \in DeliveryRow
      BY <1>0 DEF OutboxShape
    <3> QED
      BY <3>1 DEF DeliveryRow, RowStatus
  <2> HIDE DEF r, d
  <2>4. sender' \in [Senders -> SenderRow] /\ delivery' \in [NoticeKeys -> [Chats -> DeliveryRow]]
    BY <1>0, <2>1, <2>2, <2>3, SenderWritten, DeliveryWritten
  <2> QED
    BY <1>6, <2>4 DEF ClaimDelivery, OutboxShape
<1>7. ASSUME NEW c \in Chats, MissDelivery(j, c) PROVE OutboxShape'
  <2> DEFINE r == [sender[j] EXCEPT !.todo = @ \ {c}]
  <2>1. sender' = [sender EXCEPT ![j] = r] /\ r \in SenderRow
    BY <1>7, ZenonT(40) DEF MissDelivery, OutboxShape, SenderRow
  <2> HIDE DEF r
  <2> QED
    BY <1>7, <2>1 DEF MissDelivery, OutboxShape
<1>8. ASSUME SendCard(j) PROVE OutboxShape'
  <2>1. sentTo' \in [NoticeKeys -> [Chats -> Nat]]
    BY <1>0, <1>8, CountedOnce DEF SendCard, OutboxShape
  <2> QED
    BY <1>8, <2>1, RunMoves DEF SendCard, OutboxShape
<1>9. ASSUME RefuseCard(j) PROVE OutboxShape'
  BY <1>9, RunMoves DEF RefuseCard, OutboxShape
<1>10. ASSUME RecordSent(j) PROVE OutboxShape'
  <2>4. delivery' \in [NoticeKeys -> [Chats -> DeliveryRow]]
    <3>1. PICK d \in DeliveryRow : delivery' = [delivery EXCEPT ![sender[j].key][sender[j].chat] = d]
      BY <1>10, SentRecorded
    <3> QED
      BY <1>0, <3>1, DeliveryWritten
  <2> QED
    BY <1>10, <2>4, RunMoves DEF RecordSent, OutboxShape
<1>11. ASSUME FailToRecord(j) PROVE OutboxShape'
  <2>1. unrecorded' \in [NoticeKeys -> [Chats -> Nat]]
    BY <1>0, <1>11, CountedOnce DEF FailToRecord, OutboxShape
  <2> QED
    BY <1>11, <2>1, RunMoves DEF FailToRecord, OutboxShape
<1>12. ASSUME RecordRetry(j) PROVE OutboxShape'
  <2>1. sender[j].key \in NoticeKeys /\ sender[j].chat \in Chats
    BY DEF OutboxShape, SenderRow
  <2>2. PICK d \in DeliveryRow : delivery' = [delivery EXCEPT ![sender[j].key][sender[j].chat] = d]
    <3> DEFINE old == delivery[sender[j].key][sender[j].chat]
               over == AttemptsMade(j) >= MaxAttempts
               d == [status |-> IF over THEN "FAILED" ELSE "SCHEDULED",
                     due |-> IF over THEN old.due ELSE RetryAt(sender[j].now), attempts |-> AttemptsMade(j)]
    <3>1. delivery' = [delivery EXCEPT ![sender[j].key][sender[j].chat] = d]
      BY <1>12 DEF RecordRetry
    <3>2. AttemptsMade(j) \in Int /\ RetryAt(sender[j].now) \in Int
      BY BusinessOutboxAssumption DEF AttemptsMade, RetryAt, OutboxShape, SenderRow
    <3>3. old.due \in Int
      BY <2>1 DEF OutboxShape, DeliveryRow
    <3> HIDE DEF over, old
    <3>4. d \in DeliveryRow
      BY <3>2, <3>3 DEF DeliveryRow, RowStatus
    <3> QED
      BY <3>1, <3>4
  <2>3. delivery' \in [NoticeKeys -> [Chats -> DeliveryRow]]
    BY <2>1, <2>2, DeliveryWritten
  <2> QED
    BY <1>12, <2>3, RunMoves DEF RecordRetry, OutboxShape
<1>13. ASSUME RefreshNotice(j) PROVE OutboxShape'
  <2>1. sender[j].key \in NoticeKeys
    BY DEF OutboxShape, SenderRow
  <2> QED
    BY <1>2, <1>13, <2>1, SMTT(20) DEF RefreshNotice, OutboxShape, RowStatus
<1>14. ASSUME DieSender(j) PROVE OutboxShape'
  BY <1>14, IdleSenderIsARow DEF DieSender, OutboxShape
<1> QED
  BY <1>1, <1>3, <1>4, <1>5, <1>6, <1>7, <1>8, <1>9, <1>10, <1>11, <1>12, <1>13, <1>14 DEF SenderStep

\* What run j holds after a statement that leaves it at pc with its delivery
LEMMA CardsNext ==
  ASSUME OutboxShape, CardInv, NEW j \in Senders, StartSender(j) \/ SenderStep(j) \/ DieSender(j)
  PROVE  CardInv'
<1> USE DEF JobOnly, VisitKept
<1> PICK k \in NoticeKeys, c \in Chats : k = sender[j].key /\ c = sender[j].chat
  BY DEF OutboxShape, SenderRow
<1>1. ASSUME NEW r \in SenderRow, r.pc \notin {"send", "record", "retry"}, sender' = [sender EXCEPT ![j] = r],
             UNCHANGED <<sentTo, unrecorded>>,
             \A m \in NoticeKeys, e \in Chats :
               \/ delivery'[m][e].status = delivery[m][e].status
               \/ delivery[m][e].status = "NONE" /\ delivery'[m][e].status = "SCHEDULED"
      PROVE  CardInv'
  <2>1. sender'[j] = r /\ \A i \in Senders \ {j} : sender'[i] = sender[i]
    BY <1>1, SenderWritten
  <2>2. \A i \in Senders, m \in NoticeKeys, e \in Chats : Holds(i, m, e)' => Holds(i, m, e) /\ sender'[i].pc = sender[i].pc
    BY <1>1, <2>1 DEF Holds
  <2> QED
    BY <1>1, <2>2, CardsKept
<1>2. ASSUME StartSender(j) PROVE CardInv'
  <2>1. PICK L \in NoticeBatches :
          sender' = [sender EXCEPT ![j] = [IdleSender EXCEPT !.pc = "notice", !.now = outboxClock, !.list = L]]
    BY <1>2 DEF StartSender
  <2> DEFINE r == [IdleSender EXCEPT !.pc = "notice", !.now = outboxClock, !.list = L]
  <2>2. r \in SenderRow /\ r.pc = "notice"
    BY IdleSenderIsARow DEF SenderRow, NoticeBatches, DueNotices, OutboxShape
  <2>3. UNCHANGED <<delivery, sentTo, unrecorded>>
    BY <1>2 DEF StartSender
  <2> HIDE DEF r
  <2> QED
    BY <1>1, <2>1, <2>2, <2>3 DEF r
<1>3. \A m \in NoticeKeys : Continue(sender[j], m) \in SenderRow /\ Continue(sender[j], m).pc \in {"idle", "notice"}
  BY IdleSenderIsARow DEF Continue, SenderRow, OutboxShape
<1>4. ASSUME NEW m \in NoticeKeys, SkipUnaddressed(j, m) PROVE CardInv'
  BY <1>1, <1>3, <1>4 DEF SkipUnaddressed
<1>5. ASSUME NEW m \in NoticeKeys, OpenDeliveries(j, m) PROVE CardInv'
  <2> DEFINE r == [sender[j] EXCEPT !.pc = "rows", !.key = m]
  <2>1. sender' = [sender EXCEPT ![j] = r]
    BY <1>5 DEF OpenDeliveries, OutboxShape
  <2>2. r \in SenderRow /\ r.pc = "rows"
    BY ZenonT(40) DEF OutboxShape, SenderRow
  <2>3. \A n \in NoticeKeys, e \in Chats :
          \/ delivery'[n][e].status = delivery[n][e].status
          \/ delivery[n][e].status = "NONE" /\ delivery'[n][e].status = "SCHEDULED"
    BY <1>5 DEF OpenDeliveries, OutboxShape
  <2>4. UNCHANGED <<sentTo, unrecorded>>
    BY <1>5 DEF OpenDeliveries
  <2> HIDE DEF r
  <2> QED
    BY <1>1, <2>1, <2>2, <2>3, <2>4
<1>6. ASSUME ListDeliveries(j) PROVE CardInv'
  <2>1. \A i \in Senders : sender'[i].pc \in {"send", "record", "retry"} => sender'[i] = sender[i]
    BY <1>6 DEF ListDeliveries, OutboxShape, SenderRow
  <2> QED
    BY <1>6, <2>1, CardsKept DEF Holds, ListDeliveries
<1>7. ASSUME NEW e \in Chats, ClaimDelivery(j, e) PROVE CardInv'
  <2> DEFINE r == [sender[j] EXCEPT !.pc = "send", !.chat = e, !.todo = @ \ {e}]
             d == [delivery[k][e] EXCEPT !.status = "PROCESSING"]
  <2>1. sender' = [sender EXCEPT ![j] = r] /\ delivery' = [delivery EXCEPT ![k][e] = d]
    BY <1>7 DEF ClaimDelivery, OutboxShape
  <2>2. r \in SenderRow /\ r.pc = "send" /\ r.key = k /\ r.chat = e
    BY ZenonT(40) DEF OutboxShape, SenderRow
  <2>3. d \in DeliveryRow /\ d.status = "PROCESSING"
    <3>1. delivery[k][e] \in DeliveryRow
      BY DEF OutboxShape
    <3> QED
      BY <3>1 DEF DeliveryRow, RowStatus
  <2> HIDE DEF r, d
  <2>4. sender'[j] = r /\ \A i \in Senders \ {j} : sender'[i] = sender[i]
    BY <2>1, <2>2, SenderWritten
  <2>5. /\ delivery'[k][e] = d
        /\ \A m \in NoticeKeys, f \in Chats : m # k \/ f # e => delivery'[m][f] = delivery[m][f]
    <3>1. delivery' = [delivery EXCEPT ![k][e] = d] /\ d \in DeliveryRow
      BY <2>1, <2>3
    <3> QED
      BY <3>1 DEF OutboxShape
  <2>6. delivery[k][e].status = "SCHEDULED" /\ sender[j].pc = "row" /\ UNCHANGED <<sentTo, unrecorded>>
    BY <1>7 DEF ClaimDelivery, Claimable, RowIsDue
  <2>7. \A i \in Senders : ~Holds(i, k, e)
    BY <2>6 DEF CardInv
  <2>8. sentTo[k][e] <= unrecorded[k][e]
    BY <2>6 DEF CardInv, Accounted
  <2>9. \A i \in Senders, m \in NoticeKeys, f \in Chats :
          Holds(i, m, f)' <=> IF i = j THEN m = k /\ f = e ELSE Holds(i, m, f)
    BY <2>2, <2>4 DEF Holds
  <2>10. \A m \in NoticeKeys, f \in Chats : (m # k \/ f # e) => (Accounted(m, f)' => Accounted(m, f))
    BY <2>4, <2>5, <2>9 DEF Accounted
  <2> QED
    BY <2>3, <2>5, <2>6, <2>7, <2>8, <2>9, <2>10 DEF CardInv, OutboxShape
<1>8. ASSUME NEW e \in Chats, MissDelivery(j, e) PROVE CardInv'
  <2>1. \A i \in Senders : sender'[i].pc \in {"send", "record", "retry"} => sender'[i] = sender[i]
    BY <1>8 DEF MissDelivery, OutboxShape, SenderRow
  <2> QED
    BY <1>8, <2>1, CardsKept DEF Holds, MissDelivery
<1>9. ASSUME NEW pc \in {"row", "record", "retry"}, sender' = [sender EXCEPT ![j].pc = pc],
             sender[j].pc \in {"send", "record", "retry"}
      PROVE  /\ \A i \in Senders, m \in NoticeKeys, f \in Chats :
                  Holds(i, m, f)' <=> (i = j => pc # "row") /\ Holds(i, m, f)
             /\ Holds(j, k, c) /\ sender'[j].pc = pc /\ \A i \in Senders \ {j} : sender'[i] = sender[i]
  BY <1>9, RunMoves DEF Holds
<1>10. ASSUME SendCard(j) PROVE CardInv'
  <2>1. /\ \A i \in Senders, m \in NoticeKeys, f \in Chats : Holds(i, m, f)' <=> Holds(i, m, f)
        /\ Holds(j, k, c) /\ sender[j].pc = "send" /\ sender'[j].pc = "record"
        /\ \A i \in Senders \ {j} : sender'[i] = sender[i]
    BY <1>9, <1>10 DEF SendCard
  <2>2. /\ sentTo'[k][c] = sentTo[k][c] + 1
        /\ \A m \in NoticeKeys, f \in Chats : m # k \/ f # c => sentTo'[m][f] = sentTo[m][f]
    BY <1>10, CountedOnce DEF SendCard, OutboxShape
  <2>3. UNCHANGED <<delivery, unrecorded>>
    BY <1>10 DEF SendCard
  <2>4. sentTo[k][c] <= unrecorded[k][c]
    BY <2>1 DEF CardInv, Accounted
  <2>5. ~Accounted(k, c)' /\ \A m \in NoticeKeys, f \in Chats : (m # k \/ f # c) => (Accounted(m, f)' => Accounted(m, f))
    BY <2>1, <2>3 DEF Accounted, CardInv, Holds
  <2>6. sentTo[k][c] \in Nat /\ unrecorded[k][c] \in Nat
    BY DEF OutboxShape
  <2> QED
    BY <2>1, <2>2, <2>3, <2>4, <2>5, <2>6 DEF CardInv
<1>11. ASSUME RefuseCard(j) PROVE CardInv'
  <2>1. /\ \A i \in Senders, m \in NoticeKeys, f \in Chats : Holds(i, m, f)' <=> Holds(i, m, f)
        /\ sender[j].pc = "send" /\ \A i \in Senders \ {j} : sender'[i] = sender[i]
    BY <1>9, <1>11 DEF RefuseCard
  <2>2. UNCHANGED <<delivery, sentTo, unrecorded>>
    BY <1>11 DEF RefuseCard
  <2>3. \A m \in NoticeKeys, f \in Chats : Accounted(m, f)' => Accounted(m, f)
    BY <2>1, <2>2 DEF Accounted
  <2> QED
    BY <2>1, <2>2, <2>3 DEF CardInv
<1>12. ASSUME RecordSent(j) PROVE CardInv'
  <2>1. /\ \A i \in Senders, m \in NoticeKeys, f \in Chats : Holds(i, m, f)' <=> i # j /\ Holds(i, m, f)
        /\ Holds(j, k, c) /\ \A i \in Senders \ {j} : sender'[i] = sender[i]
    BY <1>9, <1>12 DEF RecordSent
  <2>2. PICK d \in DeliveryRow : d.status = "SENT" /\ delivery' = [delivery EXCEPT ![k][c] = d]
    BY <1>12, SentRecorded
  <2>3. /\ delivery'[k][c] = d
        /\ \A m \in NoticeKeys, f \in Chats : m # k \/ f # c => delivery'[m][f] = delivery[m][f]
    <3>1. delivery' = [delivery EXCEPT ![k][c] = d]
      BY <2>2
    <3> QED
      BY <3>1 DEF OutboxShape
  <2>4. UNCHANGED <<sentTo, unrecorded>>
    BY <1>12 DEF RecordSent
  <2>5. \A i \in Senders : ~Holds(i, k, c)'
    BY <2>1 DEF CardInv
  <2>6. ~Accounted(k, c)' /\ \A m \in NoticeKeys, f \in Chats : (m # k \/ f # c) => (Accounted(m, f)' => Accounted(m, f))
    BY <2>1, <2>2, <2>3, <2>5 DEF Accounted, Holds
  <2> QED
    BY <2>1, <2>3, <2>4, <2>5, <2>6 DEF CardInv
<1>13. ASSUME FailToRecord(j) PROVE CardInv'
  <2>1. /\ \A i \in Senders, m \in NoticeKeys, f \in Chats : Holds(i, m, f)' <=> Holds(i, m, f)
        /\ Holds(j, k, c) /\ \A i \in Senders \ {j} : sender'[i] = sender[i]
    BY <1>9, <1>13 DEF FailToRecord
  <2>2. /\ unrecorded'[k][c] = unrecorded[k][c] + 1
        /\ \A m \in NoticeKeys, f \in Chats : m # k \/ f # c => unrecorded'[m][f] = unrecorded[m][f]
    BY <1>13, CountedOnce DEF FailToRecord, OutboxShape
  <2>3. UNCHANGED <<delivery, sentTo>>
    BY <1>13 DEF FailToRecord
  <2>4. \A m \in NoticeKeys, f \in Chats : (m # k \/ f # c) => (Accounted(m, f)' => Accounted(m, f))
    BY <2>1, <2>3 DEF Accounted, Holds
  <2>5. sentTo[k][c] \in Nat /\ unrecorded[k][c] \in Nat /\ sentTo[k][c] <= 1 + unrecorded[k][c]
    BY DEF OutboxShape, CardInv
  <2> QED
    BY <2>1, <2>2, <2>3, <2>4, <2>5 DEF CardInv
<1>14. ASSUME RecordRetry(j) PROVE CardInv'
  <2>1. /\ \A i \in Senders, m \in NoticeKeys, f \in Chats : Holds(i, m, f)' <=> i # j /\ Holds(i, m, f)
        /\ Holds(j, k, c) /\ sender[j].pc = "retry" /\ \A i \in Senders \ {j} : sender'[i] = sender[i]
    BY <1>9, <1>14 DEF RecordRetry
  <2>2. UNCHANGED <<sentTo, unrecorded>> /\ \A m \in NoticeKeys, f \in Chats : m # k \/ f # c => delivery'[m][f] = delivery[m][f]
    BY <1>14 DEF RecordRetry, OutboxShape
  <2>3. \A i \in Senders : ~Holds(i, k, c)'
    BY <2>1 DEF CardInv
  <2>4. sentTo[k][c] <= unrecorded[k][c]
    BY <2>1 DEF CardInv, Accounted
  <2>5. \A m \in NoticeKeys, f \in Chats : (m # k \/ f # c) => (Accounted(m, f)' => Accounted(m, f))
    BY <2>1, <2>2 DEF Accounted, Holds
  <2> QED
    BY <2>1, <2>2, <2>3, <2>4, <2>5 DEF CardInv
<1>15. ASSUME RefreshNotice(j) PROVE CardInv'
  BY <1>1, <1>3, <1>15 DEF RefreshNotice
<1>16. ASSUME DieSender(j) PROVE CardInv'
  BY <1>1, <1>16, IdleSenderIsARow DEF DieSender
<1> QED
  BY <1>2, <1>4, <1>5, <1>6, <1>7, <1>8, <1>10, <1>11, <1>12, <1>13, <1>14, <1>15, <1>16 DEF SenderStep

OutboxInv == OutboxShape /\ CardInv

LEMMA OutboxInvHolds == BusinessOutboxSpec => []OutboxInv
<1>1. BusinessOutboxInit => OutboxInv
  <2> SUFFICES ASSUME BusinessOutboxInit PROVE OutboxInv
    OBVIOUS
  <2>1. NoDelivery \in DeliveryRow /\ NoRow \in [status : RowStatus, due : Int]
    BY DEF NoDelivery, NoRow, DeliveryRow, RowStatus
  <2>2. OutboxShape
    BY <2>1, IdleSenderIsARow DEF BusinessOutboxInit, OutboxShape
  <2>3. \A j \in Senders, k \in NoticeKeys, c \in Chats : ~Holds(j, k, c)
    BY IdleSenderIsARow DEF BusinessOutboxInit, Holds
  <2> QED
    BY <2>2, <2>3 DEF BusinessOutboxInit, OutboxInv, CardInv
<1>2. OutboxInv /\ [BusinessOutboxNext]_outboxVars => OutboxInv'
  <2> SUFFICES ASSUME OutboxInv, [BusinessOutboxNext]_outboxVars PROVE OutboxInv'
    OBVIOUS
  <2>1. CASE UNCHANGED outboxVars
    BY <2>1 DEF outboxVars, OutboxInv, OutboxShape, CardInv, Accounted, Holds
  <2>2. CASE OutboxTick
    BY <2>2 DEF OutboxTick, OutboxInv, OutboxShape, CardInv, Accounted, Holds
  <2>3. CASE SalonStep
    <3>1. UNCHANGED <<delivery, sender, sentTo, unrecorded>>
      BY <2>3 DEF SalonStep, ConfirmVisit, MoveVisitByStaff, MoveVisitByCustomer, EndVisitByStaff,
                  EndVisitByCustomer, SwitchChat
    <3> QED
      BY <2>3, <3>1, SalonShape DEF OutboxInv, CardInv, Accounted, Holds
  <2>4. ASSUME NEW j \in Senders, StartSender(j) \/ SenderStep(j) \/ DieSender(j) PROVE OutboxInv'
    BY <2>4, JobShape, CardsNext DEF OutboxInv
  <2> QED
    BY <2>1, <2>2, <2>3, <2>4 DEF BusinessOutboxNext
<1> QED
  BY <1>1, <1>2, PTL DEF BusinessOutboxSpec

(***************************************************************************)
(* However many runs of the job overlap, and wherever they die, a chat     *)
(* gets the card of a notice once, and once more only for each card whose  *)
(* outcome could not be written.                                           *)
(***************************************************************************)
THEOREM CardsSentOnce == BusinessOutboxSpec => []CardSentOnce
<1>1. OutboxInv => CardSentOnce
  BY DEF OutboxInv, CardInv, CardSentOnce
<1> QED
  BY <1>1, OutboxInvHolds, PTL

(***************************************************************************)
(* Once staff have ended the visit, the notices of it that no run had      *)
(* listed are closed, and a run writes only the notices it has listed.     *)
(***************************************************************************)
QuietInv ==
    /\ hushed # {} => salonVisit.status \in {"CANCELLED", "NO_SHOW"}
    /\ \A k \in hushed : notice[k].status \notin OpenNotice /\ \A j \in Senders : k \notin sender[j].list
    /\ \A j \in Senders : sender[j].pc \notin {"idle", "notice"} => sender[j].key \in sender[j].list

LEMMA QuietNext == OutboxShape /\ QuietInv /\ [BusinessOutboxNext]_outboxVars => QuietInv'
<1> SUFFICES ASSUME OutboxShape, QuietInv, [BusinessOutboxNext]_outboxVars PROVE QuietInv'
  OBVIOUS
<1> USE DEF JobOnly, VisitKept
<1>0. hushed \subseteq Moments /\ Moments \subseteq NoticeKeys
  BY DEF OutboxShape, NoticeKeys
<1>1. CASE UNCHANGED outboxVars \/ OutboxTick \/ EndVisitByCustomer
  BY <1>1 DEF outboxVars, OutboxTick, EndVisitByCustomer, Active, QuietInv, OutboxShape
<1>2. CASE ConfirmVisit
  BY <1>2 DEF ConfirmVisit, QuietInv
<1>3. ASSUME NEW s \in Moments, NEW p \in Specialists, MoveVisitByStaff(s, p) PROVE QuietInv'
  BY <1>3 DEF MoveVisitByStaff, Active, QuietInv
<1>4. ASSUME NEW s \in Moments, MoveVisitByCustomer(s) PROVE QuietInv'
  BY <1>4 DEF MoveVisitByCustomer, Active, QuietInv
<1>5. ASSUME NEW status \in {"CANCELLED", "NO_SHOW"}, EndVisitByStaff(status) PROVE QuietInv'
  <2>1. \A k \in Moments : notice'[k].status \notin OpenNotice
    BY <1>0, <1>5 DEF EndVisitByStaff, UpcomingSkipped, OutboxShape, OpenNotice
  <2>2. hushed' \subseteq Moments /\ \A k \in hushed', j \in Senders : k \notin sender[j].list
    BY <1>5 DEF EndVisitByStaff
  <2>3. salonVisit'.status = status /\ sender' = sender
    BY <1>5 DEF EndVisitByStaff, OutboxShape
  <2> QED
    BY <2>1, <2>2, <2>3 DEF QuietInv
<1>6. ASSUME NEW c \in Chats, SwitchChat(c) PROVE QuietInv'
  BY <1>6 DEF SwitchChat, QuietInv
<1>7. ASSUME NEW j \in Senders, NEW r \in SenderRow, sender' = [sender EXCEPT ![j] = r],
             \A k \in hushed : k \notin r.list, r.pc \notin {"idle", "notice"} => r.key \in r.list,
             UNCHANGED <<salonVisit, hushed>>,
             \A k \in hushed : notice'[k].status = notice[k].status
      PROVE  QuietInv'
  <2>1. sender'[j] = r /\ \A i \in Senders \ {j} : sender'[i] = sender[i]
    BY <1>7, SenderWritten
  <2> QED
    BY <1>7, <2>1 DEF QuietInv
<1>8. ASSUME NEW j \in Senders, StartSender(j) PROVE QuietInv'
  <2>1. PICK L \in NoticeBatches :
          sender' = [sender EXCEPT ![j] = [IdleSender EXCEPT !.pc = "notice", !.now = outboxClock, !.list = L]]
    BY <1>8 DEF StartSender
  <2> DEFINE r == [IdleSender EXCEPT !.pc = "notice", !.now = outboxClock, !.list = L]
  <2>2. r \in SenderRow /\ r.pc = "notice" /\ r.list = L
    BY IdleSenderIsARow DEF SenderRow, NoticeBatches, DueNotices, OutboxShape
  <2>3. \A k \in L : notice[k].status \in OpenNotice
    BY DEF NoticeBatches, DueNotices
  <2>4. UNCHANGED <<notice, salonVisit, hushed>>
    BY <1>8 DEF StartSender
  <2>5. sender' = [sender EXCEPT ![j] = r]
    BY <2>1
  <2> HIDE DEF r
  <2> QED
    BY <1>7, <2>2, <2>3, <2>4, <2>5 DEF QuietInv
<1>9. ASSUME NEW j \in Senders, NEW k \in NoticeKeys
      PROVE  /\ Continue(sender[j], k) \in SenderRow /\ Continue(sender[j], k).pc \in {"idle", "notice"}
             /\ Continue(sender[j], k).list \subseteq sender[j].list
  BY IdleSenderIsARow DEF Continue, SenderRow, OutboxShape
<1>10. ASSUME NEW j \in Senders, NEW k \in NoticeKeys, k \in sender[j].list,
              sender' = [sender EXCEPT ![j] = Continue(@, k)], UNCHANGED <<salonVisit, hushed>>,
              NEW status, notice' = [notice EXCEPT ![k].status = status]
       PROVE  QuietInv'
  <2>1. \A m \in hushed : m # k
    BY <1>10 DEF QuietInv
  <2>2. \A m \in hushed : notice'[m].status = notice[m].status
    BY <1>0, <1>10, <2>1 DEF OutboxShape
  <2> DEFINE r == Continue(sender[j], k)
  <2>3. sender' = [sender EXCEPT ![j] = r] /\ r \in SenderRow /\ r.pc \in {"idle", "notice"} /\ r.list \subseteq sender[j].list
    BY <1>9, <1>10
  <2> HIDE DEF r
  <2> QED
    BY <1>7, <1>10, <2>2, <2>3 DEF QuietInv
<1>11. ASSUME NEW j \in Senders, NEW k \in NoticeKeys, SkipUnaddressed(j, k) PROVE QuietInv'
  BY <1>10, <1>11 DEF SkipUnaddressed
<1>12. ASSUME NEW j \in Senders, RefreshNotice(j) PROVE QuietInv'
  <2>1. PICK k \in NoticeKeys : k = sender[j].key
    BY DEF OutboxShape, SenderRow
  <2>2. PICK status : notice' = [notice EXCEPT ![k].status = status]
    BY <1>12, <2>1 DEF RefreshNotice
  <2>3. /\ k \in sender[j].list /\ UNCHANGED <<salonVisit, hushed>>
        /\ sender' = [sender EXCEPT ![j] = Continue(@, k)]
    BY <1>12, <2>1 DEF RefreshNotice, QuietInv
  <2> QED
    BY <1>10, <2>2, <2>3
<1>13. ASSUME NEW j \in Senders, NEW k \in NoticeKeys, OpenDeliveries(j, k) PROVE QuietInv'
  <2> DEFINE r == [sender[j] EXCEPT !.pc = "rows", !.key = k]
  <2>1. sender' = [sender EXCEPT ![j] = r]
    BY <1>13 DEF OpenDeliveries, OutboxShape
  <2>2. r \in SenderRow /\ r.key = k /\ r.list = sender[j].list
    BY DEF OutboxShape, SenderRow
  <2>3. k \in sender[j].list /\ UNCHANGED <<notice, salonVisit, hushed>>
    BY <1>13 DEF OpenDeliveries
  <2> HIDE DEF r
  <2> QED
    BY <1>7, <2>1, <2>2, <2>3 DEF QuietInv
<1>14. ASSUME NEW j \in Senders, UNCHANGED <<notice, salonVisit, hushed>>, sender[j].pc \notin {"idle", "notice"},
              sender' \in [Senders -> SenderRow], \A i \in Senders \ {j} : sender'[i] = sender[i],
              sender'[j].key = sender[j].key, sender'[j].list = sender[j].list
       PROVE  QuietInv'
  BY <1>14 DEF QuietInv
<1>15. ASSUME NEW j \in Senders, ListDeliveries(j) \/ (\E c \in Chats : ClaimDelivery(j, c) \/ MissDelivery(j, c))
       PROVE  QuietInv'
  <2>1. /\ sender[j].pc \notin {"idle", "notice"} /\ UNCHANGED <<notice, salonVisit, hushed>>
        /\ sender'[j].key = sender[j].key /\ sender'[j].list = sender[j].list
        /\ \A i \in Senders \ {j} : sender'[i] = sender[i]
    <3>1. CASE ListDeliveries(j)
      BY <3>1 DEF ListDeliveries, OutboxShape, SenderRow
    <3>2. ASSUME NEW c \in Chats, ClaimDelivery(j, c)
          PROVE  /\ sender[j].pc \notin {"idle", "notice"} /\ UNCHANGED <<notice, salonVisit, hushed>>
                 /\ sender'[j].key = sender[j].key /\ sender'[j].list = sender[j].list
                 /\ \A i \in Senders \ {j} : sender'[i] = sender[i]
      BY <3>2 DEF ClaimDelivery, OutboxShape, SenderRow
    <3>3. ASSUME NEW c \in Chats, MissDelivery(j, c)
          PROVE  /\ sender[j].pc \notin {"idle", "notice"} /\ UNCHANGED <<notice, salonVisit, hushed>>
                 /\ sender'[j].key = sender[j].key /\ sender'[j].list = sender[j].list
                 /\ \A i \in Senders \ {j} : sender'[i] = sender[i]
      BY <3>3 DEF MissDelivery, OutboxShape, SenderRow
    <3> QED
      BY <1>15, <3>1, <3>2, <3>3
  <2>2. sender' \in [Senders -> SenderRow]
    BY <1>15, JobShape DEF SenderStep, OutboxShape
  <2> QED
    BY <1>14, <2>1, <2>2
<1>16. ASSUME NEW j \in Senders, SendCard(j) \/ RefuseCard(j) \/ RecordSent(j) \/ FailToRecord(j) \/ RecordRetry(j)
       PROVE  QuietInv'
  <2>1. /\ sender[j].pc \notin {"idle", "notice"} /\ UNCHANGED <<notice, salonVisit, hushed>>
        /\ \E pc \in {"row", "record", "retry"} : sender' = [sender EXCEPT ![j].pc = pc]
    BY <1>16 DEF SendCard, RefuseCard, RecordSent, FailToRecord, RecordRetry
  <2> QED
    BY <1>14, <2>1, RunMoves
<1>17. ASSUME NEW j \in Senders, DieSender(j) PROVE QuietInv'
  BY <1>7, <1>17, IdleSenderIsARow DEF DieSender
<1>18. ASSUME NEW j \in Senders, StartSender(j) \/ SenderStep(j) \/ DieSender(j) PROVE QuietInv'
  BY <1>8, <1>11, <1>12, <1>13, <1>15, <1>16, <1>17, <1>18 DEF SenderStep
<1> QED
  BY <1>1, <1>2, <1>3, <1>4, <1>5, <1>6, <1>18 DEF BusinessOutboxNext, SalonStep

(***************************************************************************)
(* When staff cancel a visit or mark it as missed, no run takes up a       *)
(* notice of it afterwards that it had not listed before.                  *)
(***************************************************************************)
THEOREM EndedVisitsQuiet == BusinessOutboxSpec => []EndedVisitIsQuiet
<1>1. BusinessOutboxInit => QuietInv
  BY IdleSenderIsARow DEF BusinessOutboxInit, QuietInv
<1>2. QuietInv => EndedVisitIsQuiet
  BY DEF QuietInv, EndedVisitIsQuiet
<1>3. OutboxInv => OutboxShape
  BY DEF OutboxInv
<1> QED
  BY <1>1, <1>2, <1>3, OutboxInvHolds, QuietNext, PTL DEF BusinessOutboxSpec

-----------------------------------------------------------------------------
(***************************************************************************)
(* Subscription.  A run that read GRACE finds GRACE only if nothing was    *)
(* paid since: a payment and a grant leave GRACE, and only a run enters it.*)
(* So the end of the period it read is the end in the row, if no other run *)
(* is at work, which the advisory lock of the job sees to.                 *)
(***************************************************************************)
OneLifecycleRun == \A i, j \in LifecycleRuns : i = j

Plan == [status : Statuses, endsAt : PeriodEnds]
InvoiceRow == [status : {"NONE", "OPEN", "NEEDS_ATTENTION", "PAID"}, period : Periods]
TransferRow == [status : {"NONE", "NEEDS_REVIEW", "ACCEPTED", "REJECTED"}, invoice : Invoices \cup {0},
                operation : Operations \cup {Unread}]
OwnerRequest == [pc : {"idle", "create", "submit"}, invoice : Invoices \cup {0},
                 operation : Operations \cup {Unread}, agrees : BOOLEAN]
Decision == [pc : {"idle", "approve", "reject", "settle", "grant"}, transfer : Transfers \cup {0}, endsAt : PeriodEnds]
LapseRun == [pc : {"idle", "advance", "warn"}, now : Int, status : Statuses, endsAt : PeriodEnds]

\* An operator who read receipt t has not written its decision.
AtDecision(o, t) == operator[o].pc \in {"approve", "reject", "settle"} /\ operator[o].transfer = t

\* Every bill that somebody is about to settle exists.
PlanShape ==
    /\ subscription \in Plan
    /\ invoice \in [Invoices -> InvoiceRow]
    /\ transfer \in [Transfers -> TransferRow]
    /\ owner \in [Owners -> OwnerRequest]
    /\ operator \in [Operators -> Decision]
    /\ lapseRun \in [LifecycleRuns -> LapseRun]
    /\ bought \in [Transfers -> Nat]
    /\ day \in Nat
    /\ \A t \in Transfers : transfer[t].status # "NONE" => transfer[t].invoice \in Invoices
    /\ \A h \in Owners : owner[h].pc = "submit" => owner[h].invoice \in Invoices
    /\ \A o \in Operators : operator[o].pc \in {"approve", "reject", "settle"} =>
         operator[o].transfer \in Transfers /\ transfer[operator[o].transfer].status # "NONE"

LapseInv ==
    /\ subscription.status = "EXPIRED" => subscription.endsAt # NoEnd /\ subscription.endsAt < day
    /\ \A j \in LifecycleRuns : lapseRun[j].pc = "advance" =>
         /\ lapseRun[j].now <= day /\ lapseRun[j].endsAt # NoEnd
         /\ lapseRun[j].status = "GRACE" /\ subscription.status = "GRACE" => subscription.endsAt = lapseRun[j].endsAt

BoughtInv ==
    \A t \in Transfers \ contested :
      /\ \A o, p \in Operators : AtDecision(o, t) /\ AtDecision(p, t) => o = p
      /\ \A o \in Operators : AtDecision(o, t) => transfer[t].status = "NEEDS_REVIEW"
      /\ bought[t] <= IF transfer[t].status \in {"NONE", "NEEDS_REVIEW"} THEN 0 ELSE 1

LEMMA PlanShapeInit == SubscriptionInit => PlanShape
<1> SUFFICES ASSUME SubscriptionInit PROVE PlanShape
  OBVIOUS
<1>1. (CHOOSE p \in Periods : TRUE) \in Periods /\ TrialDays \in Nat
  BY SubscriptionAssumption
<1>2. invoice \in [Invoices -> InvoiceRow]
  BY <1>1 DEF SubscriptionInit, InvoiceRow
<1>3. subscription \in Plan /\ transfer \in [Transfers -> TransferRow]
  BY <1>1 DEF SubscriptionInit, Plan, Statuses, PeriodEnds, TransferRow
<1>4. owner \in [Owners -> OwnerRequest] /\ operator \in [Operators -> Decision] /\ lapseRun \in [LifecycleRuns -> LapseRun]
  BY DEF SubscriptionInit, IdleOwner, IdleOperator, IdleRun, OwnerRequest, Decision, LapseRun, Statuses, PeriodEnds
<1> QED
  BY <1>2, <1>3, <1>4 DEF SubscriptionInit, PlanShape, IdleOwner, IdleOperator

LEMMA RenewedIsAPlan ==
  ASSUME PlanShape, NEW endsAt \in PeriodEnds, NEW i \in Invoices
  PROVE  Renewed(endsAt, i) \in Plan /\ Renewed(endsAt, i).status = "ACTIVE"
<1>1. invoice[i].period \in Nat /\ day \in Nat
  BY SubscriptionAssumption DEF PlanShape, InvoiceRow
<1>2. Extended(endsAt, invoice[i].period) \in Nat
  BY <1>1 DEF Extended, PeriodEnds, NoEnd
<1> HIDE DEF Extended
<1> QED
  BY <1>2 DEF Renewed, Plan, Statuses, PeriodEnds

LEMMA PlanShapeNext == PlanShape /\ [SubscriptionNext]_subscriptionVars => PlanShape'
<1> SUFFICES ASSUME PlanShape, [SubscriptionNext]_subscriptionVars PROVE PlanShape'
  OBVIOUS
<1> USE DEF BusinessRowKept, RowsOnly
<1>1. IdleOwner \in OwnerRequest /\ IdleOperator \in Decision /\ IdleRun \in LapseRun
      /\ IdleOwner.pc = "idle" /\ IdleOperator.pc = "idle"
  BY DEF IdleOwner, IdleOperator, IdleRun, OwnerRequest, Decision, LapseRun, Statuses, PeriodEnds
<1>2. CASE UNCHANGED subscriptionVars \/ NextDay
  BY <1>2 DEF subscriptionVars, NextDay, PlanShape
<1>3. ASSUME NEW h \in Owners, FindNoOpenInvoice(h) \/ GiveUpRequest(h) PROVE PlanShape'
  <2>1. CASE FindNoOpenInvoice(h)
    <3>1. [owner[h] EXCEPT !.pc = "create"] \in OwnerRequest /\ [owner[h] EXCEPT !.pc = "create"].pc = "create"
      BY DEF PlanShape, OwnerRequest
    <3> QED
      BY <2>1, <3>1 DEF FindNoOpenInvoice, PlanShape
  <2>2. CASE GiveUpRequest(h)
    BY <1>1, <2>2 DEF GiveUpRequest, PlanShape
  <2> QED
    BY <1>3, <2>1, <2>2
<1>4. ASSUME NEW h \in Owners, NEW p \in Periods, CreateInvoice(h, p) PROVE PlanShape'
  BY <1>1, <1>4 DEF CreateInvoice, PlanShape, InvoiceRow
<1>5. ASSUME NEW h \in Owners, NEW n \in Operations \cup {Unread}, NEW agrees \in BOOLEAN, ReadTransfer(h, n, agrees)
      PROVE  PlanShape'
  <2>1. PICK i \in Owed :
          owner' = [owner EXCEPT ![h] = [pc |-> "submit", invoice |-> i, operation |-> n, agrees |-> agrees]]
    BY <1>5 DEF ReadTransfer
  <2> QED
    BY <1>5, <2>1 DEF ReadTransfer, PlanShape, OwnerRequest, Owed
<1>6. ASSUME NEW h \in Owners, NEW t \in Transfers, CommitTransfer(h, t) PROVE PlanShape'
  <2> DEFINE i == owner[h].invoice
             r == [status |-> IF owner[h].agrees THEN "ACCEPTED" ELSE "NEEDS_REVIEW", invoice |-> i,
                   operation |-> owner[h].operation]
  <2>1. i \in Invoices /\ owner[h].agrees \in BOOLEAN /\ owner[h].operation \in Operations \cup {Unread}
    BY <1>6 DEF CommitTransfer, PlanShape, OwnerRequest
  <2>2. r \in TransferRow /\ r.status # "NONE" /\ r.invoice \in Invoices
    BY <2>1 DEF TransferRow
  <2>3. transfer' = [transfer EXCEPT ![t] = r]
    BY <1>6 DEF CommitTransfer
  <2>4. invoice' \in [Invoices -> InvoiceRow]
    BY <1>6, <2>1 DEF CommitTransfer, PlanShape, InvoiceRow
  <2>5. subscription' \in Plan
    <3>1. subscription.endsAt \in PeriodEnds /\ subscription \in Plan
      BY DEF PlanShape, Plan
    <3>2. Renewed(subscription.endsAt, i) \in Plan
      BY <2>1, <3>1, RenewedIsAPlan
    <3> QED
      BY <1>6, <3>1, <3>2 DEF CommitTransfer
  <2>6. bought' \in [Transfers -> Nat]
    BY <1>6 DEF CommitTransfer, PlanShape
  <2>7. owner' = [owner EXCEPT ![h] = IdleOwner] /\ UNCHANGED <<operator, lapseRun, day>>
    BY <1>6 DEF CommitTransfer
  <2> HIDE DEF r
  <2> QED
    BY <1>1, <2>2, <2>3, <2>4, <2>5, <2>6, <2>7 DEF PlanShape
<1>7. ASSUME NEW o \in Operators, NEW t \in Transfers, NEW d \in {"approve", "reject"}, ReadForDecision(o, t, d)
      PROVE  PlanShape'
  BY <1>7 DEF ReadForDecision, Reviewable, PlanShape, Decision, PeriodEnds
<1>8. ASSUME NEW o \in Operators, ReadEndsAt(o) PROVE PlanShape'
  <2> DEFINE r == [operator[o] EXCEPT !.pc = "settle", !.endsAt = subscription.endsAt]
  <2>1. operator' = [operator EXCEPT ![o] = r]
    BY <1>8 DEF ReadEndsAt, PlanShape
  <2>2. r \in Decision /\ r.transfer = operator[o].transfer
    BY DEF PlanShape, Decision, Plan
  <2>3. operator[o].transfer \in Transfers /\ transfer[operator[o].transfer].status # "NONE"
    BY <1>8 DEF ReadEndsAt, PlanShape
  <2> HIDE DEF r
  <2> QED
    BY <1>8, <2>1, <2>2, <2>3 DEF ReadEndsAt, PlanShape
<1>9. ASSUME NEW o \in Operators, CommitApproval(o) PROVE PlanShape'
  <2> PICK t \in Transfers : t = operator[o].transfer /\ transfer[t].status # "NONE"
    BY <1>9 DEF CommitApproval, PlanShape
  <2>1. transfer[t].invoice \in Invoices
    BY DEF PlanShape
  <2>2. transfer' \in [Transfers -> TransferRow] /\ \A x \in Transfers : x # t => transfer'[x] = transfer[x]
    BY <1>9, SMTT(20) DEF CommitApproval, PlanShape, TransferRow
  <2>3. transfer'[t].status = "ACCEPTED" /\ transfer'[t].invoice = transfer[t].invoice
    BY <1>9 DEF CommitApproval, PlanShape, TransferRow
  <2>4. invoice' \in [Invoices -> InvoiceRow]
    BY <1>9, <2>1 DEF CommitApproval, PlanShape, InvoiceRow
  <2>5. subscription' \in Plan
    <3>1. operator[o].endsAt \in PeriodEnds
      BY DEF PlanShape, Decision
    <3> QED
      BY <1>9, <2>1, <3>1, RenewedIsAPlan DEF CommitApproval
  <2>6. bought' \in [Transfers -> Nat]
    BY <1>9 DEF CommitApproval, PlanShape
  <2>7. operator' = [operator EXCEPT ![o] = IdleOperator] /\ UNCHANGED <<owner, lapseRun, day>>
    BY <1>9 DEF CommitApproval
  <2> QED
    BY <1>1, <2>1, <2>2, <2>3, <2>4, <2>5, <2>6, <2>7 DEF PlanShape
<1>10. ASSUME NEW o \in Operators, CommitRejection(o) PROVE PlanShape'
  <2> PICK t \in Transfers : t = operator[o].transfer /\ transfer[t].status # "NONE"
    BY <1>10 DEF CommitRejection, PlanShape
  <2>1. transfer[t].invoice \in Invoices
    BY DEF PlanShape
  <2>2. transfer' \in [Transfers -> TransferRow] /\ \A x \in Transfers : x # t => transfer'[x] = transfer[x]
    BY <1>10 DEF CommitRejection, PlanShape, TransferRow
  <2>3. transfer'[t].status = "REJECTED" /\ transfer'[t].invoice = transfer[t].invoice
    BY <1>10 DEF CommitRejection, PlanShape, TransferRow
  <2>4. invoice' \in [Invoices -> InvoiceRow]
    BY <1>10, <2>1 DEF CommitRejection, PlanShape, InvoiceRow
  <2>5. operator' = [operator EXCEPT ![o] = IdleOperator] /\ UNCHANGED <<subscription, bought, owner, lapseRun, day>>
    BY <1>10 DEF CommitRejection
  <2> QED
    BY <1>1, <2>1, <2>2, <2>3, <2>4, <2>5 DEF PlanShape
<1>11. ASSUME NEW o \in Operators, NEW e \in 0 .. MaxDay \cup {NoEnd}, GrantPlan(o, e) PROVE PlanShape'
  <2>1. e \in PeriodEnds
    BY SubscriptionAssumption DEF PeriodEnds
  <2> QED
    BY <1>11, <2>1 DEF GrantPlan, PlanShape, Plan, Statuses
<1>12. ASSUME NEW o \in Operators, ReadGrant(o) PROVE PlanShape'
  <2> DEFINE r == [IdleOperator EXCEPT !.pc = "grant", !.endsAt = subscription.endsAt]
  <2>1. r \in Decision /\ r.pc = "grant"
    BY <1>1 DEF PlanShape, Plan, Decision
  <2>2. operator' = [operator EXCEPT ![o] = r]
    BY <1>12 DEF ReadGrant
  <2> HIDE DEF r
  <2> QED
    BY <1>12, <2>1, <2>2 DEF ReadGrant, PlanShape
<1>13. ASSUME NEW o \in Operators, CommitGrant(o) PROVE PlanShape'
  <2>1. operator[o].endsAt \in PeriodEnds
    BY DEF PlanShape, Decision
  <2> QED
    BY <1>1, <1>13, <2>1 DEF CommitGrant, PlanShape, Plan, Statuses
<1>14. ASSUME NEW o \in Operators, GiveUpDecision(o) PROVE PlanShape'
  BY <1>1, <1>14 DEF GiveUpDecision, PlanShape
<1>15. ASSUME NEW j \in LifecycleRuns, WarnOfEnd(j) \/ WarnOfTransition(j) \/ DieInLifecycle(j) PROVE PlanShape'
  BY <1>1, <1>15 DEF WarnOfEnd, WarnOfTransition, DieInLifecycle, PlanShape
<1>16. ASSUME NEW j \in LifecycleRuns, ListSubscriptions(j) PROVE PlanShape'
  BY <1>16 DEF ListSubscriptions, PlanShape, LapseRun, Plan
<1>17. ASSUME NEW j \in LifecycleRuns, AdvanceStatus(j) PROVE PlanShape'
  <2> DEFINE next == NextStatus(lapseRun[j].status, lapseRun[j].endsAt, lapseRun[j].now)
             r == [lapseRun[j] EXCEPT !.pc = "warn", !.status = next]
  <2>1. next # "NONE" /\ UNCHANGED <<invoice, transfer, owner, operator, bought, day>>
    BY <1>17 DEF AdvanceStatus
  <2>2. next \in {"GRACE", "EXPIRED"}
    BY <2>1 DEF NextStatus
  <2>3. \/ subscription' = [subscription EXCEPT !.status = next] /\ lapseRun' = [lapseRun EXCEPT ![j] = r]
        \/ subscription' = subscription /\ lapseRun' = [lapseRun EXCEPT ![j] = IdleRun]
    BY <1>17 DEF AdvanceStatus, PlanShape
  <2> HIDE DEF next
  <2>4. r \in LapseRun /\ [subscription EXCEPT !.status = next] \in Plan
    BY <2>2 DEF PlanShape, LapseRun, Plan, Statuses
  <2> HIDE DEF r
  <2> QED
    BY <1>1, <2>1, <2>3, <2>4 DEF PlanShape
<1> QED
  BY <1>2, <1>3, <1>4, <1>5, <1>6, <1>7, <1>8, <1>9, <1>10, <1>11, <1>12, <1>13, <1>14, <1>15, <1>16, <1>17, ZenonT(60)
  DEF SubscriptionNext, LifecycleStep

LEMMA LapseInit == SubscriptionInit => LapseInv /\ BoughtInv
BY DEF SubscriptionInit, LapseInv, BoughtInv, AtDecision, IdleOperator, IdleRun

\* What an operator or a bill writes leaves an active plan.
LEMMA ActiveKeepsLapse ==
  ASSUME PlanShape, LapseInv, UNCHANGED <<lapseRun, day>>, subscription'.status = "ACTIVE" \/ UNCHANGED subscription
  PROVE  LapseInv'
BY DEF LapseInv

LEMMA LapseNext ==
  ASSUME OneLifecycleRun, PlanShape, LapseInv, [SubscriptionNext]_subscriptionVars
  PROVE  LapseInv'
<1> USE DEF BusinessRowKept, RowsOnly
<1>1. CASE UNCHANGED subscriptionVars
  BY <1>1 DEF subscriptionVars, LapseInv
<1>2. CASE NextDay
  <2>1. subscription.endsAt \in Int /\ day \in Nat
    BY DEF PlanShape, Plan, PeriodEnds, NoEnd
  <2> QED
    BY <1>2, <2>1 DEF NextDay, LapseInv, PlanShape, LapseRun
<1>3. ASSUME NEW h \in Owners,
             \/ FindNoOpenInvoice(h) \/ GiveUpRequest(h)
             \/ \E p \in Periods : CreateInvoice(h, p)
             \/ \E n \in Operations \cup {Unread}, agrees \in BOOLEAN : ReadTransfer(h, n, agrees)
      PROVE  LapseInv'
  BY <1>3, ActiveKeepsLapse DEF FindNoOpenInvoice, GiveUpRequest, CreateInvoice, ReadTransfer
<1>4. ASSUME NEW h \in Owners, NEW t \in Transfers, CommitTransfer(h, t) PROVE LapseInv'
  <2>1. UNCHANGED <<lapseRun, day>>
    BY <1>4 DEF CommitTransfer
  <2>2. subscription' = subscription \/ subscription' = Renewed(subscription.endsAt, owner[h].invoice)
    BY <1>4 DEF CommitTransfer
  <2>3. subscription'.status = "ACTIVE" \/ UNCHANGED subscription
    BY <2>2 DEF Renewed
  <2> QED
    BY <2>1, <2>3, ActiveKeepsLapse
<1>5. ASSUME NEW o \in Operators, CommitApproval(o) PROVE LapseInv'
  BY <1>5, ActiveKeepsLapse DEF CommitApproval, Renewed
<1>6. ASSUME NEW o \in Operators,
             \/ \E t \in Transfers, d \in {"approve", "reject"} : ReadForDecision(o, t, d)
             \/ ReadEndsAt(o) \/ CommitRejection(o) \/ GiveUpDecision(o) \/ ReadGrant(o)
      PROVE  LapseInv'
  BY <1>6, ActiveKeepsLapse DEF ReadForDecision, ReadEndsAt, CommitRejection, GiveUpDecision, ReadGrant
<1>7. ASSUME NEW o \in Operators, CommitGrant(o) \/ \E e \in 0 .. MaxDay \cup {NoEnd} : GrantPlan(o, e) PROVE LapseInv'
  BY <1>7, ActiveKeepsLapse DEF CommitGrant, GrantPlan
<1>8. ASSUME NEW j \in LifecycleRuns, WarnOfEnd(j) \/ WarnOfTransition(j) \/ DieInLifecycle(j) PROVE LapseInv'
  BY <1>8 DEF WarnOfEnd, WarnOfTransition, DieInLifecycle, LapseInv, PlanShape, IdleRun
<1>9. ASSUME NEW j \in LifecycleRuns, ListSubscriptions(j) PROVE LapseInv'
  BY <1>9 DEF ListSubscriptions, LapseInv, PlanShape
<1>10. ASSUME NEW j \in LifecycleRuns, AdvanceStatus(j) PROVE LapseInv'
  <2> DEFINE next == NextStatus(lapseRun[j].status, lapseRun[j].endsAt, lapseRun[j].now)
  <2>1. \A i \in LifecycleRuns : i = j
    BY DEF OneLifecycleRun
  <2>2. lapseRun'[j].pc # "advance" /\ UNCHANGED day
    <3>1. lapseRun[j] \in LapseRun
      BY DEF PlanShape
    <3>2. [lapseRun[j] EXCEPT !.pc = "warn", !.status = next].pc = "warn" /\ IdleRun.pc = "idle"
      BY <3>1 DEF LapseRun, IdleRun
    <3>3. \/ lapseRun' = [lapseRun EXCEPT ![j] = [lapseRun[j] EXCEPT !.pc = "warn", !.status = next]]
          \/ lapseRun' = [lapseRun EXCEPT ![j] = IdleRun]
      BY <1>10 DEF AdvanceStatus, PlanShape
    <3> QED
      BY <1>10, <3>2, <3>3 DEF AdvanceStatus, PlanShape
  <2>3. CASE UNCHANGED subscription
    BY <2>1, <2>2, <2>3 DEF LapseInv
  <2>4. CASE subscription' = [subscription EXCEPT !.status = next] /\ StillAsRead(lapseRun[j])
    <3>1. lapseRun[j] \in LapseRun /\ subscription \in Plan /\ day \in Nat /\ GraceDays \in Nat
      BY SubscriptionAssumption DEF PlanShape
    <3>2. next = "EXPIRED" => lapseRun[j].status = "GRACE" /\ lapseRun[j].now > lapseRun[j].endsAt + GraceDays
      BY DEF NextStatus
    <3>3. subscription'.status = next /\ subscription'.endsAt = subscription.endsAt
      BY <2>4, <3>1 DEF Plan
    <3>4. lapseRun[j].pc = "advance" /\ lapseRun[j].now \in Int /\ lapseRun[j].endsAt \in Int
      BY <1>10, <3>1 DEF AdvanceStatus, LapseRun, PeriodEnds, NoEnd
    <3> HIDE DEF next
    <3>5. ASSUME next = "EXPIRED" PROVE subscription.endsAt # NoEnd /\ subscription.endsAt < day
      BY <2>4, <3>1, <3>2, <3>4, <3>5 DEF StillAsRead, LapseInv
    <3> QED
      BY <2>1, <2>2, <3>3, <3>5 DEF LapseInv
  <2> QED
    BY <1>10, <2>3, <2>4 DEF AdvanceStatus
<1> QED
  BY <1>1, <1>2, <1>3, <1>4, <1>5, <1>6, <1>7, <1>8, <1>9, <1>10, ZenonT(60) DEF SubscriptionNext, LifecycleStep

\* A step that reads no receipt for a decision and pays for none.
LEMMA DecidersKeepBought ==
  ASSUME PlanShape, BoughtInv, UNCHANGED <<transfer, bought, contested>>,
         \A o \in Operators, t \in Transfers : AtDecision(o, t)' => AtDecision(o, t)
  PROVE  BoughtInv'
BY DEF BoughtInv

LEMMA BoughtNext ==
  ASSUME PlanShape, BoughtInv, [SubscriptionNext]_subscriptionVars
  PROVE  BoughtInv'
<1> USE DEF BusinessRowKept, RowsOnly
<1>1. CASE UNCHANGED <<transfer, operator, bought, contested>>
  BY <1>1, DecidersKeepBought DEF AtDecision
<1>2. ASSUME NEW h \in Owners, NEW t \in Transfers, CommitTransfer(h, t) PROVE BoughtInv'
  <2>1. UNCHANGED <<operator, contested>> /\ transfer[t].status = "NONE"
    BY <1>2 DEF CommitTransfer
  <2>2. \A o \in Operators : ~AtDecision(o, t)
    BY <2>1 DEF AtDecision, PlanShape
  <2>3. owner[h].agrees \in BOOLEAN
    BY DEF PlanShape, OwnerRequest
  <2>4. transfer'[t].status = IF owner[h].agrees THEN "ACCEPTED" ELSE "NEEDS_REVIEW"
    BY <1>2 DEF CommitTransfer, PlanShape
  <2>5. bought'[t] = IF owner[h].agrees THEN bought[t] + 1 ELSE bought[t]
    BY <1>2 DEF CommitTransfer, PlanShape
  <2>6. \A x \in Transfers : x # t => transfer'[x] = transfer[x] /\ bought'[x] = bought[x]
    BY <1>2 DEF CommitTransfer, PlanShape
  <2>7. bought[t] \in Nat /\ (t \notin contested => bought[t] <= 0)
    BY <2>1 DEF BoughtInv, PlanShape
  <2>8. t \notin contested => bought'[t] <= IF transfer'[t].status \in {"NONE", "NEEDS_REVIEW"} THEN 0 ELSE 1
    BY <2>3, <2>4, <2>5, <2>7
  <2> QED
    BY <2>1, <2>2, <2>6, <2>8 DEF BoughtInv, AtDecision
<1>3. ASSUME NEW o \in Operators, NEW t \in Transfers, NEW d \in {"approve", "reject"}, ReadForDecision(o, t, d)
      PROVE  BoughtInv'
  <2>1. transfer[t].status = "NEEDS_REVIEW" /\ operator[o].pc = "idle" /\ UNCHANGED <<transfer, bought>>
        /\ contested \subseteq contested'
    BY <1>3 DEF ReadForDecision, Reviewable
  <2>2. operator' = [operator EXCEPT ![o] = [pc |-> d, transfer |-> t, endsAt |-> NoEnd]]
    BY <1>3 DEF ReadForDecision
  <2>3. \A p \in Operators, x \in Transfers : AtDecision(p, x)' => AtDecision(p, x) \/ (p = o /\ x = t)
    BY <2>2 DEF AtDecision, PlanShape
  <2>4. t \notin contested' => \A p \in Operators : ~AtDecision(p, t)
    BY <1>3 DEF ReadForDecision, Deciding, AtDecision
  <2> QED
    BY <2>1, <2>3, <2>4 DEF BoughtInv
<1>4. ASSUME NEW o \in Operators, ReadEndsAt(o) PROVE BoughtInv'
  <2>1. \A p \in Operators, x \in Transfers : AtDecision(p, x)' => AtDecision(p, x)
    BY <1>4 DEF ReadEndsAt, PlanShape, Decision, AtDecision
  <2> QED
    BY <1>4, <2>1, DecidersKeepBought DEF ReadEndsAt
<1>5. ASSUME NEW o \in Operators,
             GiveUpDecision(o) \/ ReadGrant(o) \/ CommitGrant(o)
      PROVE  BoughtInv'
  <2>1. \A p \in Operators, x \in Transfers : AtDecision(p, x)' => AtDecision(p, x)
    <3>1. IdleOperator.pc = "idle" /\ [IdleOperator EXCEPT !.pc = "grant", !.endsAt = subscription.endsAt].pc = "grant"
      BY DEF IdleOperator
    <3>2. CASE ReadGrant(o)
      BY <3>1, <3>2 DEF ReadGrant, PlanShape, AtDecision
    <3>3. CASE GiveUpDecision(o) \/ CommitGrant(o)
      BY <3>1, <3>3 DEF GiveUpDecision, CommitGrant, PlanShape, AtDecision
    <3> QED
      BY <1>5, <3>2, <3>3
  <2> QED
    BY <1>5, <2>1, DecidersKeepBought DEF GiveUpDecision, ReadGrant, CommitGrant
<1>6. ASSUME NEW o \in Operators, CommitApproval(o) \/ CommitRejection(o) PROVE BoughtInv'
  <2> PICK t \in Transfers : t = operator[o].transfer /\ AtDecision(o, t)
    BY <1>6 DEF CommitApproval, CommitRejection, PlanShape, AtDecision
  <2>1. operator' = [operator EXCEPT ![o] = IdleOperator] /\ UNCHANGED contested
    BY <1>6 DEF CommitApproval, CommitRejection
  <2>2. \A p \in Operators, x \in Transfers : AtDecision(p, x)' => AtDecision(p, x) /\ p # o
    BY <2>1 DEF PlanShape, AtDecision, IdleOperator
  <2>3. \A x \in Transfers : x # t => transfer'[x] = transfer[x] /\ bought'[x] = bought[x]
    BY <1>6 DEF CommitApproval, CommitRejection, PlanShape
  <2>4. transfer'[t].status \in {"ACCEPTED", "REJECTED"} /\ bought'[t] \in {bought[t], bought[t] + 1}
    BY <1>6, SMTT(20) DEF CommitApproval, CommitRejection, PlanShape, TransferRow
  <2>5. t \notin contested => transfer[t].status = "NEEDS_REVIEW" /\ bought[t] <= 0 /\ bought[t] \in Nat
    BY DEF BoughtInv, PlanShape
  <2>6. t \notin contested => bought'[t] <= 1
    BY <2>4, <2>5
  <2>7. t \notin contested => \A p \in Operators : ~AtDecision(p, t)'
    BY <2>2 DEF BoughtInv
  <2> QED
    BY <2>1, <2>2, <2>3, <2>4, <2>6, <2>7 DEF BoughtInv
<1>7. ASSUME NEW h \in Owners,
             \/ FindNoOpenInvoice(h) \/ GiveUpRequest(h)
             \/ \E p \in Periods : CreateInvoice(h, p)
             \/ \E n \in Operations \cup {Unread}, agrees \in BOOLEAN : ReadTransfer(h, n, agrees)
      PROVE  UNCHANGED <<transfer, operator, bought, contested>>
  BY <1>7 DEF FindNoOpenInvoice, GiveUpRequest, CreateInvoice, ReadTransfer
<1>8. ASSUME NEW j \in LifecycleRuns, LifecycleStep(j) \/ DieInLifecycle(j)
      PROVE  UNCHANGED <<transfer, operator, bought, contested>>
  BY <1>8 DEF LifecycleStep, ListSubscriptions, WarnOfEnd, AdvanceStatus, WarnOfTransition, DieInLifecycle
<1>9. CASE NextDay
  BY <1>1, <1>9 DEF NextDay
<1>10. ASSUME NEW o \in Operators, \E e \in 0 .. MaxDay \cup {NoEnd} : GrantPlan(o, e)
       PROVE  UNCHANGED <<transfer, operator, bought, contested>>
  BY <1>10 DEF GrantPlan
<1>11. CASE UNCHANGED subscriptionVars
  BY <1>1, <1>11 DEF subscriptionVars
<1> QED
  BY <1>1, <1>2, <1>3, <1>4, <1>5, <1>6, <1>7, <1>8, <1>9, <1>10, <1>11, ZenonT(60) DEF SubscriptionNext

\* A business keeps the plan it paid for, as long as the job runs alone, and a
\* transfer that one operator decides buys one period (subscription-service.ts).
THEOREM PaidTimeStands == OneLifecycleRun => (SubscriptionSpec => []PaidTimeNotTakenAway)
<1> SUFFICES ASSUME OneLifecycleRun PROVE SubscriptionSpec => []PaidTimeNotTakenAway
  OBVIOUS
<1>1. SubscriptionInit => PlanShape /\ LapseInv /\ BoughtInv
  BY PlanShapeInit, LapseInit
<1>2. PlanShape /\ LapseInv /\ BoughtInv /\ [SubscriptionNext]_subscriptionVars => (PlanShape /\ LapseInv /\ BoughtInv)'
  BY PlanShapeNext, LapseNext, BoughtNext
<1>3. PlanShape /\ LapseInv /\ BoughtInv => PaidTimeNotTakenAway
  <2> SUFFICES ASSUME PlanShape, LapseInv, BoughtInv PROVE PaidTimeNotTakenAway
    OBVIOUS
  <2>1. ASSUME NEW t \in Transfers, t \notin contested PROVE ~(bought[t] > 1)
    <3>1. bought[t] \in Nat /\ bought[t] <= 1
      BY <2>1 DEF BoughtInv, PlanShape
    <3> QED
      BY <3>1
  <2> QED
    BY <2>1 DEF LapseInv, PaidTimeNotTakenAway
<1> QED
  BY <1>1, <1>2, <1>3, PTL DEF SubscriptionSpec

-----------------------------------------------------------------------------
(***************************************************************************)
(* FreedSlots.  The transaction that cancels a visit keeps the row from the *)
(* update to the commit, so a visit found held is still held when the       *)
(* cancellation commits.  A withdrawn entry that nobody was at work on is   *)
(* on nobody's list, and lists are made of entries that wait.  A visit of   *)
(* the series is reserved before it is linked, so a linked one that holds   *)
(* its time was there to be listed.                                         *)
(***************************************************************************)
Occurrence == [linked : BOOLEAN, status : {"NONE", "HELD", "CANCELLED", "EXPIRED"}]
CancelRequest == [pc : {"idle", "mark", "list", "walk", "update", "commit"}, list : SUBSET Visits,
                  visit : Visits \cup {NoVisit}, found : SUBSET Entries, overtaken : BOOLEAN]
WaitingRow == [status : {"NONE", "WAITING", "NOTIFIED", "CANCELLED"}, alert : {"CLOSED", "SCHEDULED", "PROCESSING"}]

FreedShape ==
    /\ occurrence \in [Visits -> Occurrence]
    /\ series \in {"NONE", "ACTIVE", "CANCELLED"}
    /\ creator \in [pc : {"idle", "reserve", "link"}, at : Nat]
    /\ canceller \in [Cancellers -> CancelRequest]
    /\ waiting \in [Entries -> WaitingRow]
    /\ alertJob \in [entry : Entries \cup {NoEntry}, sends : BOOLEAN]
    /\ \A c \in Cancellers : canceller[c].pc \in {"update", "commit"} => canceller[c].visit \in Visits
    /\ series = "NONE" => creator.pc = "idle" /\ \A v \in Visits : ~occurrence[v].linked
    /\ creator.pc # "idle" => \A v \in Visits : v >= creator.at => ~occurrence[v].linked

OfferInv ==
    /\ offeredAgain = FALSE
    /\ \A c \in Cancellers : CancellerAt(c, "commit") =>
         /\ ~canceller[c].overtaken => Held(canceller[c].visit)
         /\ \A d \in Cancellers : CancellerAt(d, "commit") /\ canceller[d].visit = canceller[c].visit => d = c

WithdrawnInv ==
    /\ disturbed = FALSE
    /\ \A e \in quiet :
         /\ e \in Entries /\ waiting[e].status = "CANCELLED"
         /\ ~(alertJob.entry = e /\ alertJob.sends)
         /\ \A c \in Cancellers : e \notin canceller[c].found

\* Somebody will still cancel visit v for the series.
YetToCancel(v) == \E c \in Cancellers : v \in canceller[c].list \/ CancellerAt(c, "list")

SeriesInv ==
    series = "CANCELLED" => \A v \in Visits : occurrence[v].linked /\ Held(v) => v \in excused \/ YetToCancel(v)

LEMMA FreedInit == FreedSlotsInit => FreedShape /\ OfferInv /\ WithdrawnInv /\ SeriesInv
BY DEF FreedSlotsInit, FreedShape, Occurrence, CancelRequest, WaitingRow, IdleCanceller, NoAlert, OfferInv,
  CancellerAt, WithdrawnInv, SeriesInv

LEMMA WalkShape ==
  ASSUME NEW c \in Cancellers, NEW list \in SUBSET Visits, Walks(c, list), FreedShape
  PROVE  /\ canceller' \in [Cancellers -> CancelRequest]
         /\ canceller'[c].pc \in {"idle", "walk"} /\ canceller'[c].list = list /\ canceller'[c].found = {}
         /\ \A d \in Cancellers : d # c => canceller'[d] = canceller[d]
<1>1. IdleCanceller \in CancelRequest /\ IdleCanceller.pc = "idle" /\ IdleCanceller.list = {} /\ IdleCanceller.found = {}
  BY DEF IdleCanceller, CancelRequest
<1> DEFINE r == [IdleCanceller EXCEPT !.pc = "walk", !.list = list]
<1>2. r \in CancelRequest /\ r.pc = "walk" /\ r.list = list /\ r.found = {}
  BY DEF IdleCanceller, CancelRequest
<1>3. canceller' = [canceller EXCEPT ![c] = IF list = {} THEN IdleCanceller ELSE r]
  BY DEF Walks
<1> HIDE DEF r
<1> QED
  BY <1>1, <1>2, <1>3 DEF FreedShape

LEMMA LockShape ==
  ASSUME NEW c \in Cancellers, NEW v \in Visits, NEW late \in BOOLEAN, LocksVisit(c, v, late), FreedShape
  PROVE  /\ canceller' \in [Cancellers -> CancelRequest]
         /\ CancellerAt(c, "commit")' /\ canceller'[c].visit = v /\ canceller'[c].overtaken = late
         /\ canceller'[c].list = canceller[c].list
         /\ canceller'[c].found \subseteq {e \in Entries : waiting[e].status = "WAITING"}
         /\ \A d \in Cancellers : d # c => canceller'[d] = canceller[d]
<1>1. FirstOf(Candidates(v)) \subseteq {e \in Entries : waiting[e].status = "WAITING"}
  BY DEF FirstOf, Candidates
<1> HIDE DEF FirstOf
<1> DEFINE f == FirstOf(Candidates(v))
           r == [canceller[c] EXCEPT !.pc = "commit", !.visit = v, !.overtaken = late, !.found = f]
<1> HIDE DEF f
<1>2. r \in CancelRequest /\ r.pc = "commit" /\ r.visit = v /\ r.overtaken = late /\ r.found = f /\ r.list = canceller[c].list
  <2>1. canceller[c] \in CancelRequest /\ f \subseteq Entries
    BY <1>1 DEF FreedShape, f
  <2> QED
    BY <2>1 DEF CancelRequest
<1>3. canceller' = [canceller EXCEPT ![c] = r]
  BY DEF LocksVisit, FreedShape, f
<1> HIDE DEF r
<1> QED
  BY <1>1, <1>2, <1>3 DEF FreedShape, CancellerAt, f

\* The steps of those who book the series
SeriesStep == CreateSeries \/ ReserveOccurrence \/ LinkOccurrence \/ CreatorDies
\* The steps of the waitlist and of the job that tells it
EntryStep == (\E e \in Entries : JoinWaitlist(e) \/ CancelWaitlistEntry(e) \/ ClaimAlert(e))
             \/ ResolveAlert \/ SendAlert \/ AlertJobDies

LEMMA SeriesStepShape == FreedShape /\ SeriesStep => FreedShape'
<1> SUFFICES ASSUME FreedShape, SeriesStep PROVE FreedShape'
  OBVIOUS
<1> USE DEF EntriesKept, CancelKept
<1>1. CASE CreateSeries
  BY <1>1 DEF CreateSeries, FreedShape
<1>2. creator.at \in Nat /\ Visits \subseteq Nat
  BY FreedSlotsAssumption DEF FreedShape
<1>3. ASSUME CreatorGoesOn
      PROVE  /\ creator' \in [pc : {"idle", "reserve", "link"}, at : Nat]
             /\ creator'.pc # "idle" => creator'.at = creator.at + 1
  BY <1>2, <1>3 DEF CreatorGoesOn
<1>4. CASE ReserveOccurrence
  <2>1. CASE occurrence' = [occurrence EXCEPT ![creator.at].status = "HELD"] /\ creator' = [creator EXCEPT !.pc = "link"]
    <3>1. occurrence' \in [Visits -> Occurrence] /\ \A v \in Visits : occurrence'[v].linked = occurrence[v].linked
      BY <2>1, ZenonT(40) DEF FreedShape, Occurrence
    <3>2. creator' \in [pc : {"idle", "reserve", "link"}, at : Nat] /\ creator'.at = creator.at /\ creator'.pc = "link"
      BY <2>1 DEF FreedShape
    <3> QED
      BY <1>4, <3>1, <3>2 DEF ReserveOccurrence, FreedShape
  <2>2. CASE CreatorGoesOn /\ UNCHANGED occurrence
    BY <1>2, <1>3, <1>4, <2>2 DEF ReserveOccurrence, FreedShape
  <2> QED
    BY <1>4, <2>1, <2>2 DEF ReserveOccurrence
<1>5. CASE LinkOccurrence
  <2>1. occurrence' \in [Visits -> Occurrence]
        /\ \A v \in Visits : v # creator.at => occurrence'[v].linked = occurrence[v].linked
    BY <1>5 DEF LinkOccurrence, FreedShape, Occurrence
  <2> QED
    BY <1>2, <1>3, <1>5, <2>1 DEF LinkOccurrence, FreedShape
<1>6. CASE CreatorDies
  BY <1>6 DEF CreatorDies, FreedShape
<1> QED
  BY <1>1, <1>4, <1>5, <1>6 DEF SeriesStep

LEMMA FreedShapeNext == FreedShape /\ [FreedSlotsNext]_freedVars => FreedShape'
<1> SUFFICES ASSUME FreedShape, [FreedSlotsNext]_freedVars PROVE FreedShape'
  OBVIOUS
<1> USE DEF VisitsKept, EntriesKept, CancelKept, CancellerKept
<1>1. CASE UNCHANGED freedVars
  BY <1>1 DEF freedVars, FreedShape
<1>2. CASE SeriesStep
  BY <1>2, SeriesStepShape
<1>3. CASE EntryStep
  <2>1. ASSUME NEW e \in Entries, JoinWaitlist(e) \/ CancelWaitlistEntry(e) \/ ClaimAlert(e) PROVE FreedShape'
    <3>1. waiting' \in [Entries -> WaitingRow]
      BY <2>1 DEF JoinWaitlist, CancelWaitlistEntry, ClaimAlert, FreedShape, WaitingRow
    <3> QED
      <4>1. alertJob' = alertJob \/ alertJob' = [entry |-> e, sends |-> FALSE]
        BY <2>1 DEF JoinWaitlist, CancelWaitlistEntry, ClaimAlert
      <4>2. UNCHANGED <<occurrence, series, creator, canceller>>
        BY <2>1 DEF JoinWaitlist, CancelWaitlistEntry, ClaimAlert, AlertKept
      <4>3. alertJob \in [entry : Entries \cup {NoEntry}, sends : BOOLEAN]
        BY DEF FreedShape
      <4>4. alertJob' \in [entry : Entries \cup {NoEntry}, sends : BOOLEAN]
        <5>1. CASE alertJob' = alertJob
          BY <4>3, <5>1
        <5>2. CASE alertJob' = [entry |-> e, sends |-> FALSE]
          BY <5>2
        <5> QED
          BY <4>1, <5>1, <5>2
      <4> QED
        BY <3>1, <4>2, <4>4 DEF FreedShape
  <2>2. CASE ResolveAlert
    <3>1. waiting' \in [Entries -> WaitingRow]
      BY <2>2 DEF ResolveAlert, FreedShape, WaitingRow
    <3>2. alertJob' \in [entry : Entries \cup {NoEntry}, sends : BOOLEAN]
      <4>1. alertJob' = [alertJob EXCEPT !.sends = TRUE] \/ alertJob' = NoAlert
        BY <2>2 DEF ResolveAlert
      <4>2. alertJob \in [entry : Entries \cup {NoEntry}, sends : BOOLEAN]
        BY DEF FreedShape
      <4>3. CASE alertJob' = [alertJob EXCEPT !.sends = TRUE]
        BY <4>2, <4>3
      <4>4. CASE alertJob' = NoAlert
        BY <4>4 DEF NoAlert
      <4> QED
        BY <4>1, <4>3, <4>4
    <3> QED
      BY <2>2, <3>1, <3>2 DEF ResolveAlert, AlertKept, FreedShape
  <2>3. CASE SendAlert
    BY <2>3 DEF SendAlert, AlertKept, FreedShape, WaitingRow, NoAlert
  <2>4. CASE AlertJobDies
    BY <2>4 DEF AlertJobDies, AlertKept, FreedShape, NoAlert
  <2> QED
    BY <1>3, <2>1, <2>2, <2>3, <2>4 DEF EntryStep
<1>4. ASSUME NEW v \in Visits, ExpireOccurrence(v) PROVE FreedShape'
  <2>1. occurrence' \in [Visits -> Occurrence] /\ \A w \in Visits : occurrence'[w].linked = occurrence[w].linked
    BY <1>4 DEF ExpireOccurrence, FreedShape, Occurrence
  <2> QED
    BY <1>4, <2>1 DEF ExpireOccurrence, FreedShape
<1>5. ASSUME NEW c \in Cancellers, NEW v \in Visits, CancelOne(c, v) PROVE FreedShape'
  <2>1. LocksVisit(c, v, FALSE)
    BY <1>5 DEF CancelOne
  <2>2. canceller' \in [Cancellers -> CancelRequest] /\ canceller'[c].visit = v
        /\ \A d \in Cancellers : d # c => canceller'[d] = canceller[d]
    BY <2>1, LockShape
  <2> QED
    BY <1>5, <2>2 DEF CancelOne, FreedShape
<1>6. ASSUME NEW c \in Cancellers, NEW v \in Visits, SkipOne(c, v) PROVE FreedShape'
  <2>1. canceller[c].list \ {v} \in SUBSET Visits /\ Walks(c, canceller[c].list \ {v})
    BY <1>6 DEF SkipOne, AfterRefusal, FreedShape, CancelRequest
  <2> QED
    BY <1>6, <2>1, WalkShape DEF SkipOne, FreedShape
<1>7. ASSUME NEW c \in Cancellers, NEW v \in Visits, StaffReads(c, v) PROVE FreedShape'
  <2> DEFINE r == [canceller[c] EXCEPT !.pc = "update", !.visit = v]
  <2>1. canceller' = [canceller EXCEPT ![c] = r]
    BY <1>7 DEF StaffReads, FreedShape
  <2>2. r \in CancelRequest /\ r.visit = v
    BY ZenonT(40) DEF FreedShape, CancelRequest
  <2> HIDE DEF r
  <2> QED
    BY <1>7, <2>1, <2>2, ZenonT(40) DEF StaffReads, FreedShape
<1>8. ASSUME NEW c \in Cancellers, StaffUpdates(c) PROVE FreedShape'
  <2>1. canceller[c].visit \in Visits
    BY <1>8 DEF StaffUpdates, CancellerAt, FreedShape
  <2>2. canceller' \in [Cancellers -> CancelRequest] /\ canceller'[c].visit = canceller[c].visit
        /\ \A d \in Cancellers : d # c => canceller'[d] = canceller[d]
    BY <1>8, <2>1, LockShape DEF StaffUpdates
  <2> QED
    BY <1>8, <2>1, <2>2 DEF StaffUpdates, FreedShape
<1>9. ASSUME NEW c \in Cancellers, CommitCancellation(c) PROVE FreedShape'
  <2>1. canceller[c].list \ {canceller[c].visit} \in SUBSET Visits /\ Walks(c, canceller[c].list \ {canceller[c].visit})
    BY <1>9 DEF CommitCancellation, FreedShape, CancelRequest
  <2>2. occurrence' \in [Visits -> Occurrence] /\ \A w \in Visits : occurrence'[w].linked = occurrence[w].linked
    BY <1>9, ZenonT(40) DEF CommitCancellation, FreedShape, Occurrence
  <2>3. waiting' \in [Entries -> WaitingRow]
    BY <1>9 DEF CommitCancellation, FreedShape, WaitingRow
  <2> QED
    BY <1>9, <2>1, <2>2, <2>3, WalkShape DEF CommitCancellation, FreedShape
<1>10. ASSUME NEW c \in Cancellers, CancellerDies(c) PROVE FreedShape'
  BY <1>10 DEF CancellerDies, FreedShape, CancelRequest, IdleCanceller
<1>11. ASSUME NEW c \in Cancellers, OpenSeries(c) \/ MarkSeries(c) PROVE FreedShape'
  BY <1>11 DEF OpenSeries, MarkSeries, FreedShape, CancelRequest, CancellerAt
<1>12. ASSUME NEW c \in Cancellers, ListSeries(c) PROVE FreedShape'
  <2>1. ListedOccurrences \in SUBSET Visits /\ Walks(c, ListedOccurrences)
    BY <1>12 DEF ListSeries, ListedOccurrences
  <2> HIDE DEF ListedOccurrences
  <2> QED
    BY <1>12, <2>1, WalkShape DEF ListSeries, FreedShape
<1> QED
  BY <1>1, <1>2, <1>3, <1>4, <1>5, <1>6, <1>7, <1>8, <1>9, <1>10, <1>11, <1>12, ZenonT(60)
  DEF FreedSlotsNext, SeriesStep, EntryStep

\* A step that leaves the visits and the cancellations alone
LEMMA OfferKept ==
  ASSUME OfferInv, UNCHANGED <<canceller, offeredAgain>>,
         \A v \in Visits : Held(v) /\ Locked(v) => Held(v)', FreedShape
  PROVE  OfferInv'
BY DEF OfferInv, CancellerAt, Locked, FreedShape

\* Canceller c writes a visit that no other transaction has written.
LEMMA OfferLocked ==
  ASSUME OfferInv, FreedShape, UNCHANGED <<occurrence, offeredAgain>>,
         NEW c \in Cancellers, NEW v \in Visits, ~Locked(v),
         canceller'[c].visit = v, ~canceller'[c].overtaken => Held(v),
         \A d \in Cancellers : d # c => canceller'[d] = canceller[d]
  PROVE  OfferInv'
BY DEF OfferInv, CancellerAt, Locked, Held

LEMMA OfferLeft ==
  ASSUME OfferInv, FreedShape, UNCHANGED <<occurrence, offeredAgain>>,
         NEW c \in Cancellers, ~CancellerAt(c, "commit")',
         \A d \in Cancellers : d # c => canceller'[d] = canceller[d]
  PROVE  OfferInv'
BY DEF OfferInv, CancellerAt, Held

LEMMA OfferNext == FreedShape /\ OfferInv /\ [FreedSlotsNext]_freedVars => OfferInv'
<1> SUFFICES ASSUME FreedShape, OfferInv, [FreedSlotsNext]_freedVars PROVE OfferInv'
  OBVIOUS
<1> USE DEF VisitsKept, EntriesKept, CancelKept, CancellerKept
<1>1. CASE UNCHANGED freedVars
  BY <1>1, OfferKept DEF freedVars, Held
<1>2. CASE SeriesStep
  <2>1. UNCHANGED <<canceller, offeredAgain>>
    BY <1>2 DEF SeriesStep, CreateSeries, ReserveOccurrence, LinkOccurrence, CreatorDies
  <2>2. \A v \in Visits : Held(v) => Held(v)'
    BY <1>2 DEF SeriesStep, CreateSeries, ReserveOccurrence, LinkOccurrence, CreatorDies, Held, FreedShape, Occurrence
  <2> QED
    BY <2>1, <2>2, OfferKept
<1>3. CASE EntryStep
  <2>1. UNCHANGED <<canceller, offeredAgain, occurrence>>
    BY <1>3 DEF EntryStep, JoinWaitlist, CancelWaitlistEntry, ClaimAlert, ResolveAlert, SendAlert, AlertJobDies, AlertKept
  <2> QED
    BY <2>1, OfferKept DEF Held
<1>4. ASSUME NEW v \in Visits, ExpireOccurrence(v) PROVE OfferInv'
  <2>1. \A w \in Visits : Held(w) /\ Locked(w) => Held(w)'
    BY <1>4 DEF ExpireOccurrence, Held, FreedShape
  <2> QED
    BY <1>4, <2>1, OfferKept DEF ExpireOccurrence
<1>5. ASSUME NEW c \in Cancellers, NEW v \in Visits, CancelOne(c, v) PROVE OfferInv'
  <2>1. LocksVisit(c, v, FALSE) /\ ~Locked(v) /\ Held(v) /\ UNCHANGED <<occurrence, offeredAgain>>
    BY <1>5 DEF CancelOne, LocksVisit, StillHeld
  <2>2. canceller'[c].visit = v /\ \A d \in Cancellers : d # c => canceller'[d] = canceller[d]
    BY <2>1, LockShape
  <2> QED
    BY <2>1, <2>2, OfferLocked
<1>6. ASSUME NEW c \in Cancellers, NEW v \in Visits, SkipOne(c, v) PROVE OfferInv'
  <2>1. canceller[c].list \ {v} \in SUBSET Visits /\ Walks(c, canceller[c].list \ {v})
    BY <1>6 DEF SkipOne, AfterRefusal, FreedShape, CancelRequest
  <2>2. ~CancellerAt(c, "commit")' /\ \A d \in Cancellers : d # c => canceller'[d] = canceller[d]
    BY <2>1, WalkShape DEF CancellerAt
  <2> QED
    BY <1>6, <2>2, OfferLeft DEF SkipOne
<1>7. ASSUME NEW c \in Cancellers, NEW v \in Visits, StaffReads(c, v) PROVE OfferInv'
  <2>1. ~CancellerAt(c, "commit")' /\ \A d \in Cancellers : d # c => canceller'[d] = canceller[d]
    <3> DEFINE r == [canceller[c] EXCEPT !.pc = "update", !.visit = v]
    <3>1. canceller' = [canceller EXCEPT ![c] = r]
      BY <1>7 DEF StaffReads, FreedShape
    <3>2. r.pc = "update"
      BY DEF FreedShape, CancelRequest
    <3> HIDE DEF r
    <3> QED
      BY <3>1, <3>2 DEF FreedShape, CancellerAt
  <2> QED
    BY <1>7, <2>1, OfferLeft DEF StaffReads
<1>8. ASSUME NEW c \in Cancellers, StaffUpdates(c) PROVE OfferInv'
  <2>1. canceller[c].visit \in Visits /\ UNCHANGED <<occurrence, offeredAgain>>
    BY <1>8 DEF StaffUpdates, CancellerAt, FreedShape
  <2>2. LocksVisit(c, canceller[c].visit, ~Held(canceller[c].visit))
    BY <1>8 DEF StaffUpdates
  <2>3. /\ canceller'[c].visit = canceller[c].visit
        /\ canceller'[c].overtaken = ~Held(canceller[c].visit)
        /\ \A d \in Cancellers : d # c => canceller'[d] = canceller[d]
    BY <2>1, <2>2, LockShape
  <2>4. ~Locked(canceller[c].visit)
    BY <2>2 DEF LocksVisit
  <2> QED
    BY <2>1, <2>3, <2>4, OfferLocked
<1>9. ASSUME NEW c \in Cancellers, CommitCancellation(c) PROVE OfferInv'
  <2> PICK v \in Visits : v = canceller[c].visit
    BY <1>9 DEF CommitCancellation, CancellerAt, FreedShape
  <2>1. canceller[c].list \ {v} \in SUBSET Visits /\ Walks(c, canceller[c].list \ {v})
    BY <1>9 DEF CommitCancellation, FreedShape, CancelRequest
  <2>2. ~CancellerAt(c, "commit")' /\ \A d \in Cancellers : d # c => canceller'[d] = canceller[d]
    BY <2>1, WalkShape DEF CancellerAt
  <2>3. \A w \in Visits : w # v => (Held(w)' <=> Held(w))
    BY <1>9 DEF CommitCancellation, FreedShape, Held
  <2>4. offeredAgain' = FALSE
    BY <1>9 DEF CommitCancellation, OfferInv
  <2>5. \A d \in Cancellers : CancellerAt(d, "commit")' => CancellerAt(d, "commit") /\ canceller'[d] = canceller[d] /\ canceller[d].visit # v
    BY <1>9, <2>2 DEF CommitCancellation, OfferInv, CancellerAt
  <2>6. \A d \in Cancellers : CancellerAt(d, "commit") => canceller[d].visit \in Visits
    BY DEF FreedShape, CancellerAt
  <2> QED
    BY <2>3, <2>4, <2>5, <2>6 DEF OfferInv
<1>10. ASSUME NEW c \in Cancellers, CancellerDies(c) \/ OpenSeries(c) \/ MarkSeries(c) PROVE OfferInv'
  <2>1. ~CancellerAt(c, "commit")' /\ \A d \in Cancellers : d # c => canceller'[d] = canceller[d]
    BY <1>10 DEF CancellerDies, OpenSeries, MarkSeries, FreedShape, CancellerAt, IdleCanceller, CancelRequest
  <2> QED
    BY <1>10, <2>1, OfferLeft DEF CancellerDies, OpenSeries, MarkSeries
<1>11. ASSUME NEW c \in Cancellers, ListSeries(c) PROVE OfferInv'
  <2>1. ListedOccurrences \in SUBSET Visits /\ Walks(c, ListedOccurrences)
    BY <1>11 DEF ListSeries, ListedOccurrences
  <2> HIDE DEF ListedOccurrences
  <2>2. ~CancellerAt(c, "commit")' /\ \A d \in Cancellers : d # c => canceller'[d] = canceller[d]
    BY <2>1, WalkShape DEF CancellerAt
  <2> QED
    BY <1>11, <2>2, OfferLeft DEF ListSeries
<1> QED
  BY <1>1, <1>2, <1>3, <1>4, <1>5, <1>6, <1>7, <1>8, <1>9, <1>10, <1>11, ZenonT(60)
  DEF FreedSlotsNext, SeriesStep, EntryStep

LEMMA WithdrawnNext == FreedShape /\ WithdrawnInv /\ [FreedSlotsNext]_freedVars => WithdrawnInv'
<1> SUFFICES ASSUME FreedShape, WithdrawnInv, [FreedSlotsNext]_freedVars PROVE WithdrawnInv'
  OBVIOUS
<1> USE DEF VisitsKept, EntriesKept, CancelKept, CancellerKept
<1>1. ASSUME UNCHANGED <<quiet, disturbed, waiting, alertJob>>,
             \A c \in Cancellers : canceller'[c].found \subseteq
                canceller[c].found \cup {e \in Entries : waiting[e].status = "WAITING"}
      PROVE  WithdrawnInv'
  BY <1>1 DEF WithdrawnInv
<1>2. CASE UNCHANGED freedVars
  BY <1>1, <1>2 DEF freedVars
<1>3. CASE SeriesStep
  BY <1>1, <1>3 DEF SeriesStep, CreateSeries, ReserveOccurrence, LinkOccurrence, CreatorDies
<1>4. ASSUME NEW e \in Entries, JoinWaitlist(e) PROVE WithdrawnInv'
  BY <1>4 DEF JoinWaitlist, WithdrawnInv, FreedShape, WaitingRow
<1>5. ASSUME NEW e \in Entries, CancelWaitlistEntry(e) PROVE WithdrawnInv'
  <2>1. waiting' = [waiting EXCEPT ![e].status = "CANCELLED"] /\ UNCHANGED <<canceller, alertJob, disturbed>>
    BY <1>5 DEF CancelWaitlistEntry
  <2>2. \A d \in Entries : waiting[d].status = "CANCELLED" \/ d = e => waiting'[d].status = "CANCELLED"
    BY <2>1 DEF FreedShape, WaitingRow
  <2>3. e \in quiet' \ quiet => ~(alertJob.entry = e /\ alertJob.sends) /\ \A c \in Cancellers : e \notin canceller[c].found
    <3>1. alertJob \in [entry : Entries \cup {NoEntry}, sends : BOOLEAN]
      BY DEF FreedShape
    <3>2. alertJob.entry = e /\ alertJob.sends => alertJob = [entry |-> e, sends |-> TRUE]
      BY <3>1
    <3> QED
      BY <1>5, <3>2 DEF CancelWaitlistEntry
  <2>4. quiet' \subseteq quiet \cup {e}
    BY <1>5 DEF CancelWaitlistEntry
  <2> QED
    BY <2>1, <2>2, <2>3, <2>4 DEF WithdrawnInv
<1>6. ASSUME NEW e \in Entries, ClaimAlert(e) PROVE WithdrawnInv'
  BY <1>6 DEF ClaimAlert, AlertKept, WithdrawnInv, FreedShape, WaitingRow
<1>7. CASE ResolveAlert
  <2>1. UNCHANGED <<canceller, quiet, disturbed>>
    BY <1>7 DEF ResolveAlert, AlertKept
  <2>2. CASE alertJob' = [alertJob EXCEPT !.sends = TRUE] /\ UNCHANGED waiting /\ waiting[alertJob.entry].status = "NOTIFIED"
    <3>1. alertJob'.entry = alertJob.entry
      BY <2>2 DEF FreedShape
    <3> QED
      BY <2>1, <2>2, <3>1 DEF WithdrawnInv
  <2>3. CASE alertJob' = NoAlert /\ waiting' = [waiting EXCEPT ![alertJob.entry].alert = "CLOSED"]
    <3>1. \A d \in Entries : waiting'[d].status = waiting[d].status
      BY <2>3 DEF FreedShape, WaitingRow
    <3>2. ~alertJob'.sends
      BY <2>3 DEF NoAlert
    <3> QED
      BY <2>1, <3>1, <3>2 DEF WithdrawnInv
  <2> QED
    BY <1>7, <2>2, <2>3 DEF ResolveAlert
<1>8. CASE SendAlert
  <2>1. UNCHANGED <<canceller, quiet>> /\ ~alertJob'.sends
    BY <1>8 DEF SendAlert, AlertKept, NoAlert
  <2>2. \A d \in Entries : waiting'[d].status = waiting[d].status
    BY <1>8 DEF SendAlert, FreedShape, WaitingRow
  <2>3. disturbed' = FALSE
    BY <1>8 DEF SendAlert, WithdrawnInv
  <2> QED
    BY <2>1, <2>2, <2>3 DEF WithdrawnInv
<1>9. CASE AlertJobDies
  BY <1>9 DEF AlertJobDies, AlertKept, WithdrawnInv, NoAlert
<1>10. ASSUME NEW v \in Visits, ExpireOccurrence(v) PROVE WithdrawnInv'
  BY <1>1, <1>10 DEF ExpireOccurrence
<1>11. ASSUME NEW c \in Cancellers, NEW v \in Visits, CancelOne(c, v) PROVE WithdrawnInv'
  <2>1. LocksVisit(c, v, FALSE)
    BY <1>11 DEF CancelOne
  <2> QED
    BY <1>1, <1>11, <2>1, LockShape DEF CancelOne
<1>12. ASSUME NEW c \in Cancellers, NEW v \in Visits, SkipOne(c, v) PROVE WithdrawnInv'
  <2>1. canceller[c].list \ {v} \in SUBSET Visits /\ Walks(c, canceller[c].list \ {v})
    BY <1>12 DEF SkipOne, AfterRefusal, FreedShape, CancelRequest
  <2> QED
    BY <1>1, <1>12, <2>1, WalkShape DEF SkipOne
<1>13. ASSUME NEW c \in Cancellers, NEW v \in Visits, StaffReads(c, v) PROVE WithdrawnInv'
  <2> DEFINE r == [canceller[c] EXCEPT !.pc = "update", !.visit = v]
  <2>1. canceller' = [canceller EXCEPT ![c] = r]
    BY <1>13 DEF StaffReads, FreedShape
  <2>2. r.found = canceller[c].found
    BY DEF FreedShape, CancelRequest
  <2> HIDE DEF r
  <2>3. \A d \in Cancellers : canceller'[d].found = canceller[d].found
    BY <2>1, <2>2 DEF FreedShape
  <2> QED
    BY <1>1, <1>13, <2>3 DEF StaffReads
<1>14. ASSUME NEW c \in Cancellers, StaffUpdates(c) PROVE WithdrawnInv'
  <2>1. canceller[c].visit \in Visits /\ LocksVisit(c, canceller[c].visit, ~Held(canceller[c].visit))
    BY <1>14 DEF StaffUpdates, CancellerAt, FreedShape
  <2>2. \A d \in Cancellers : canceller'[d].found \subseteq
          canceller[d].found \cup {e \in Entries : waiting[e].status = "WAITING"}
    BY <2>1, LockShape
  <2> QED
    BY <1>1, <1>14, <2>2 DEF StaffUpdates
<1>15. ASSUME NEW c \in Cancellers, CommitCancellation(c) PROVE WithdrawnInv'
  <2>1. canceller[c].list \ {canceller[c].visit} \in SUBSET Visits /\ Walks(c, canceller[c].list \ {canceller[c].visit})
    BY <1>15 DEF CommitCancellation, FreedShape, CancelRequest
  <2>2. \A d \in Cancellers : canceller'[d].found \subseteq canceller[d].found
    BY <2>1, WalkShape
  <2>3. \A e \in quiet : waiting'[e] = waiting[e]
    BY <1>15 DEF CommitCancellation, WithdrawnInv
  <2> QED
    BY <1>15, <2>2, <2>3 DEF CommitCancellation, WithdrawnInv
<1>16. ASSUME NEW c \in Cancellers, CancellerDies(c) \/ OpenSeries(c) \/ MarkSeries(c) PROVE WithdrawnInv'
  <2>1. \A d \in Cancellers : canceller'[d].found \subseteq canceller[d].found
    BY <1>16 DEF CancellerDies, OpenSeries, MarkSeries, FreedShape, CancelRequest, IdleCanceller
  <2> QED
    BY <1>1, <1>16, <2>1 DEF CancellerDies, OpenSeries, MarkSeries
<1>17. ASSUME NEW c \in Cancellers, ListSeries(c) PROVE WithdrawnInv'
  <2>1. ListedOccurrences \in SUBSET Visits /\ Walks(c, ListedOccurrences)
    BY <1>17 DEF ListSeries, ListedOccurrences
  <2> HIDE DEF ListedOccurrences
  <2> QED
    BY <1>1, <1>17, <2>1, WalkShape DEF ListSeries
<1> QED
  BY <1>2, <1>3, <1>4, <1>5, <1>6, <1>7, <1>8, <1>9, <1>10, <1>11, <1>12, <1>13, <1>14, <1>15, <1>16, <1>17, ZenonT(60)
  DEF FreedSlotsNext, SeriesStep

LEMMA SeriesNext == FreedShape /\ SeriesInv /\ [FreedSlotsNext]_freedVars => SeriesInv'
<1> SUFFICES ASSUME FreedShape, SeriesInv, [FreedSlotsNext]_freedVars PROVE SeriesInv'
  OBVIOUS
<1> USE DEF VisitsKept, EntriesKept, CancelKept, CancellerKept
<1>1. CASE UNCHANGED <<occurrence, series, excused, canceller>>
  BY <1>1 DEF SeriesInv, YetToCancel, Held, CancellerAt
<1>2. CASE CreateSeries
  BY <1>2 DEF CreateSeries, SeriesInv
<1>3. CASE ReserveOccurrence
  <2>1. \A v \in Visits : occurrence'[v].linked = occurrence[v].linked
    BY <1>3 DEF ReserveOccurrence, FreedShape, Occurrence
  <2>2. \A v \in Visits : v # creator.at \/ UNCHANGED occurrence => (Held(v)' <=> Held(v))
    BY <1>3 DEF ReserveOccurrence, FreedShape, Occurrence, Held
  <2>3. \A v \in Visits : v = creator.at => ~occurrence[v].linked
    BY <1>3, FreedSlotsAssumption DEF ReserveOccurrence, FreedShape
  <2>4. \A v \in Visits : (occurrence[v].linked /\ Held(v))' => occurrence[v].linked /\ Held(v)
    BY <2>1, <2>2, <2>3
  <2> QED
    BY <1>3, <2>4 DEF ReserveOccurrence, SeriesInv, YetToCancel, CancellerAt
<1>4. CASE LinkOccurrence
  <2>1. UNCHANGED <<series, canceller>> /\ excused \subseteq excused'
    BY <1>4 DEF LinkOccurrence
  <2>2. \A v \in Visits : v # creator.at => ((occurrence[v].linked /\ Held(v))' <=> occurrence[v].linked /\ Held(v))
    BY <1>4 DEF LinkOccurrence, FreedShape, Held
  <2>3. series = "CANCELLED" => creator.at \in excused'
    BY <1>4 DEF LinkOccurrence
  <2> QED
    BY <2>1, <2>2, <2>3 DEF SeriesInv, YetToCancel, CancellerAt
<1>5. CASE CreatorDies
  BY <1>1, <1>5 DEF CreatorDies
<1>6. CASE EntryStep
  BY <1>1, <1>6 DEF EntryStep, JoinWaitlist, CancelWaitlistEntry, ClaimAlert, ResolveAlert, SendAlert, AlertJobDies, AlertKept
<1>7. ASSUME NEW v \in Visits, ExpireOccurrence(v) PROVE SeriesInv'
  <2>1. \A w \in Visits : (occurrence[w].linked /\ Held(w))' => occurrence[w].linked /\ Held(w)
    BY <1>7 DEF ExpireOccurrence, FreedShape, Occurrence, Held
  <2> QED
    BY <1>7, <2>1 DEF ExpireOccurrence, SeriesInv, YetToCancel, CancellerAt
<1>8. ASSUME NEW c \in Cancellers, UNCHANGED <<occurrence, series, excused>>, ~CancellerAt(c, "list"),
             canceller'[c].list = canceller[c].list,
             \A d \in Cancellers : d # c => canceller'[d] = canceller[d]
      PROVE  SeriesInv'
  BY <1>8 DEF SeriesInv, YetToCancel, Held, CancellerAt
<1>9. ASSUME NEW c \in Cancellers, NEW v \in Visits, CancelOne(c, v) PROVE SeriesInv'
  <2>1. LocksVisit(c, v, FALSE) /\ ~CancellerAt(c, "list")
    BY <1>9 DEF CancelOne, CancellerAt
  <2> QED
    BY <1>8, <1>9, <2>1, LockShape DEF CancelOne
<1>10. ASSUME NEW c \in Cancellers, NEW v \in Visits, StaffReads(c, v) PROVE SeriesInv'
  <2> DEFINE r == [canceller[c] EXCEPT !.pc = "update", !.visit = v]
  <2>1. canceller' = [canceller EXCEPT ![c] = r]
    BY <1>10 DEF StaffReads, FreedShape
  <2>2. r.list = canceller[c].list
    BY DEF FreedShape, CancelRequest
  <2> HIDE DEF r
  <2>3. canceller'[c].list = canceller[c].list /\ \A d \in Cancellers : d # c => canceller'[d] = canceller[d]
    BY <2>1, <2>2 DEF FreedShape
  <2> QED
    BY <1>8, <1>10, <2>3 DEF StaffReads, CancellerAt
<1>11. ASSUME NEW c \in Cancellers, StaffUpdates(c) PROVE SeriesInv'
  <2>1. canceller[c].visit \in Visits /\ LocksVisit(c, canceller[c].visit, ~Held(canceller[c].visit))
    BY <1>11 DEF StaffUpdates, CancellerAt, FreedShape
  <2>2. canceller'[c].list = canceller[c].list /\ \A d \in Cancellers : d # c => canceller'[d] = canceller[d]
    BY <2>1, LockShape
  <2> QED
    BY <1>8, <1>11, <2>2 DEF StaffUpdates, CancellerAt
<1>12. ASSUME NEW c \in Cancellers, NEW v \in Visits, NEW list \in SUBSET Visits, Walks(c, list),
              list = canceller[c].list \ {v}, ~CancellerAt(c, "list"), ~Held(v)',
              UNCHANGED <<series, excused>>,
              \A w \in Visits : occurrence'[w].linked = occurrence[w].linked /\ (w # v => (Held(w)' <=> Held(w)))
       PROVE  SeriesInv'
  <2>1. canceller'[c].list = list /\ \A d \in Cancellers : d # c => canceller'[d] = canceller[d]
    BY <1>12, WalkShape
  <2>2. \A w \in Visits \ {v} : YetToCancel(w) => YetToCancel(w)'
    BY <1>12, <2>1 DEF YetToCancel, CancellerAt
  <2> QED
    BY <1>12, <2>2 DEF SeriesInv
<1>13. ASSUME NEW c \in Cancellers, NEW v \in Visits, SkipOne(c, v) PROVE SeriesInv'
  <2>1. canceller[c].list \ {v} \in SUBSET Visits /\ Walks(c, canceller[c].list \ {v})
    BY <1>13 DEF SkipOne, AfterRefusal, FreedShape, CancelRequest
  <2>2. ~CancellerAt(c, "list") /\ ~Held(v)' /\ UNCHANGED <<series, excused>>
        /\ \A w \in Visits : occurrence'[w].linked = occurrence[w].linked /\ (w # v => (Held(w)' <=> Held(w)))
    BY <1>13 DEF SkipOne, CancellerAt, StillHeld, Held
  <2> QED
    BY <1>12, <2>1, <2>2
<1>14. ASSUME NEW c \in Cancellers, CommitCancellation(c) PROVE SeriesInv'
  <2> PICK v \in Visits : v = canceller[c].visit
    BY <1>14 DEF CommitCancellation, CancellerAt, FreedShape
  <2>1. canceller[c].list \ {v} \in SUBSET Visits /\ Walks(c, canceller[c].list \ {v})
    BY <1>14 DEF CommitCancellation, FreedShape, CancelRequest
  <2>2. ~CancellerAt(c, "list") /\ UNCHANGED <<series, excused>>
    BY <1>14 DEF CommitCancellation, CancellerAt
  <2>3. ~Held(v)' /\ \A w \in Visits : occurrence'[w].linked = occurrence[w].linked /\ (w # v => (Held(w)' <=> Held(w)))
    BY <1>14 DEF CommitCancellation, FreedShape, Occurrence, Held
  <2> QED
    BY <1>12, <2>1, <2>2, <2>3
<1>15. ASSUME NEW c \in Cancellers, CancellerDies(c) PROVE SeriesInv'
  <2>1. UNCHANGED <<occurrence, series>> /\ canceller' = [canceller EXCEPT ![c] = IdleCanceller]
        /\ excused \cup canceller[c].list \subseteq excused'
        /\ (CancellerAt(c, "list") => ListedOccurrences \subseteq excused')
    BY <1>15 DEF CancellerDies
  <2>2. \A w \in Visits : occurrence[w].linked /\ Held(w) /\ YetToCancel(w) => w \in excused' \/ YetToCancel(w)'
    BY <2>1 DEF YetToCancel, CancellerAt, ListedOccurrences, FreedShape
  <2> QED
    BY <2>1, <2>2 DEF SeriesInv, Held
<1>16. ASSUME NEW c \in Cancellers, OpenSeries(c) PROVE SeriesInv'
  <2>1. canceller'[c].list = canceller[c].list /\ \A d \in Cancellers : d # c => canceller'[d] = canceller[d]
    BY <1>16 DEF OpenSeries, FreedShape, CancelRequest
  <2> QED
    BY <1>8, <1>16, <2>1 DEF OpenSeries, CancellerAt
<1>17. ASSUME NEW c \in Cancellers, MarkSeries(c) PROVE SeriesInv'
  <2>1. CancellerAt(c, "list")'
    BY <1>17 DEF MarkSeries, FreedShape, CancelRequest, CancellerAt
  <2> QED
    BY <2>1 DEF SeriesInv, YetToCancel
<1>18. ASSUME NEW c \in Cancellers, ListSeries(c) PROVE SeriesInv'
  <2>1. ListedOccurrences \in SUBSET Visits /\ Walks(c, ListedOccurrences)
    BY <1>18 DEF ListSeries, ListedOccurrences
  <2> DEFINE list == ListedOccurrences
  <2>2. \A w \in Visits : occurrence[w].linked /\ Held(w) => w \in list
    BY DEF ListedOccurrences
  <2> HIDE DEF list
  <2>3. canceller'[c].list = list
    BY <2>1, WalkShape DEF list
  <2> QED
    BY <1>18, <2>2, <2>3 DEF ListSeries, SeriesInv, YetToCancel, Held
<1>19. CASE UNCHANGED freedVars
  BY <1>1, <1>19 DEF freedVars
<1> QED
  BY <1>2, <1>3, <1>4, <1>5, <1>6, <1>7, <1>9, <1>10, <1>11, <1>13, <1>14, <1>15, <1>16, <1>17, <1>18, <1>19, ZenonT(60)
  DEF FreedSlotsNext, EntryStep

FreedInv == FreedShape /\ OfferInv /\ WithdrawnInv /\ SeriesInv

LEMMA FreedInvHolds == FreedSlotsSpec => []FreedInv
<1>1. FreedSlotsInit => FreedInv
  BY FreedInit DEF FreedInv
<1>2. FreedInv /\ [FreedSlotsNext]_freedVars => FreedInv'
  BY FreedShapeNext, OfferNext, WithdrawnNext, SeriesNext DEF FreedInv
<1> QED
  BY <1>1, <1>2, PTL DEF FreedSlotsSpec

(***************************************************************************)
(* A withdrawn place on the waitlist hears of no free time, and a visit     *)
(* gives its time back once, whoever cancels it (waitlist-service.ts,       *)
(* booking-command-service.ts), with the exceptions the property names.     *)
(***************************************************************************)
THEOREM FreedOnce == FreedSlotsSpec => []FreedTimesOfferedOnce
<1>1. FreedInv => FreedTimesOfferedOnce
  BY DEF FreedInv, OfferInv, WithdrawnInv, FreedTimesOfferedOnce
<1> QED
  BY <1>1, FreedInvHolds, PTL

(***************************************************************************)
(* When the cancellation of a series is over, its visits hold no time,      *)
(* however its steps interleave with other cancellations, the sweep of      *)
(* unpaid holds and the booking of the series itself.                       *)
(***************************************************************************)
THEOREM SeriesEmptied == FreedSlotsSpec => []CancelledSeriesIsEmpty
<1>1. FreedInv => CancelledSeriesIsEmpty
  BY DEF FreedInv, SeriesInv, YetToCancel, CancelledSeriesIsEmpty
<1> QED
  BY <1>1, FreedInvHolds, PTL


-----------------------------------------------------------------------------
(***************************************************************************)
(* InboundUpdates.  Two deliveries work on one update only when one         *)
(* outlived its lease.  As long as nobody did, and no process ended, an     *)
(* update that was handled is completed, or in the hands of the delivery    *)
(* that will complete it; so whoever takes it up finds it not yet handled.  *)
(***************************************************************************)
UpdatePcs == {"idle", "claim", "reclaim", "handle", "complete", "fail"}
HookRow == [pc : UpdatePcs, update : Updates, now : Nat]
UpdateRow == [status : {"NONE", "PROCESSING", "COMPLETED", "FAILED"}, claimedAt : Nat]
AtWork(d, u) == hook[d].pc \in {"handle", "complete", "fail"} /\ hook[d].update = u
Late == overdue \cup orphaned

HookShape ==
    /\ hook \in [Deliveries -> HookRow]
    /\ inbound \in [Updates -> UpdateRow]
    /\ handled \in [Updates -> Nat]
    /\ hookClock \in Nat

UpdateInv ==
    /\ \A d \in Deliveries, u \in Updates : AtWork(d, u) => inbound[u].status # "NONE"
    /\ \A d, e \in Deliveries, u \in Updates : d # e /\ AtWork(d, u) /\ AtWork(e, u) => u \in overdue
    /\ \A u \in Updates \ Late :
         /\ handled[u] \in {0, 1}
         /\ handled[u] = 1 => \/ inbound[u].status = "COMPLETED"
                              \/ \E d \in Deliveries : hook[d].pc = "complete" /\ hook[d].update = u
         /\ \A d \in Deliveries : hook[d].pc \in {"handle", "fail"} /\ hook[d].update = u => handled[u] = 0

LEMMA HookShapeHolds ==
  ASSUME HookShape, [InboundNext]_inboundVars
  PROVE  HookShape'
<1> USE DEF HookShape, HookRow, UpdatePcs, UpdateRow
<1>1. ASSUME NEW d \in Deliveries, NEW u \in Updates, Deliver(d, u) PROVE HookShape'
  BY <1>1 DEF Deliver, QueueKept, RowsKept, WorldKept
<1>2. ASSUME NEW d \in Deliveries, ClaimNew(d) PROVE HookShape'
  BY <1>2 DEF ClaimNew, Claims, Goes, HandlerOf, WorldKept
<1>3. ASSUME NEW d \in Deliveries, AnswerKnown(d) PROVE HookShape'
  BY <1>3, SMTT(60) DEF AnswerKnown, Answers200, AnswersBusy, Goes, RowsKept, WorldKept
<1>4. ASSUME NEW d \in Deliveries, SeeReclaimable(d) PROVE HookShape'
  BY <1>4 DEF SeeReclaimable, Goes, RowsKept, WorldKept
<1>5. ASSUME NEW d \in Deliveries, Reclaim(d) PROVE HookShape'
  BY <1>5, SMTT(20) DEF Reclaim, Claims, AnswersBusy, Answers200, Goes, HandlerOf, RowsKept, WorldKept
<1>6. ASSUME NEW d \in Deliveries, Handle(d) PROVE HookShape'
  BY <1>6 DEF Handle, Goes, HandlerOf, WorldKept
<1>7. ASSUME NEW d \in Deliveries, HandlerThrows(d) PROVE HookShape'
  BY <1>7 DEF HandlerThrows, Goes, WorldKept
<1>8. ASSUME NEW d \in Deliveries, CompleteUpdate(d) PROVE HookShape'
  BY <1>8 DEF CompleteUpdate, Completed, Answers200, Goes, HandlerOf, WorldKept
<1>9. ASSUME NEW d \in Deliveries, FailUpdate(d) PROVE HookShape'
  BY <1>9 DEF FailUpdate, Goes, HandlerOf, WorldKept
<1>10. ASSUME NEW d \in Deliveries, HookDies(d) PROVE HookShape'
  BY <1>10 DEF HookDies, Goes, RowsKept
<1>11. CASE HookTick
  BY <1>11 DEF HookTick, RowsKept
<1>12. CASE UNCHANGED inboundVars
  BY <1>12 DEF inboundVars
<1> QED
  BY <1>1, <1>2, <1>3, <1>4, <1>5, <1>6, <1>7, <1>8, <1>9, <1>10, <1>11, <1>12 DEF InboundNext

LEMMA UpdateInvHolds ==
  ASSUME HookShape, UpdateInv, [InboundNext]_inboundVars
  PROVE  UpdateInv'
<1> USE DEF HookShape, HookRow, UpdatePcs, UpdateRow, UpdateInv, AtWork, Late, HandlerOf
<1>1. ASSUME NEW d \in Deliveries, NEW u \in Updates, Deliver(d, u) PROVE UpdateInv'
  BY <1>1 DEF Deliver, At, RowsKept, WorldKept
<1>2. ASSUME NEW d \in Deliveries, ClaimNew(d) PROVE UpdateInv'
  BY <1>2 DEF ClaimNew, At, Claims, Goes, WorldKept
<1>3. ASSUME NEW d \in Deliveries, AnswerKnown(d) PROVE UpdateInv'
  <2>1. hook' = [hook EXCEPT ![d].pc = "idle"] /\ UNCHANGED <<inbound, handled, overdue, orphaned>>
    BY <1>3 DEF AnswerKnown, Answers200, AnswersBusy, Goes, RowsKept, WorldKept
  <2>2. \A e \in Deliveries : hook'[e].pc \in {"handle", "complete", "fail"} => hook'[e] = hook[e]
    BY <2>1
  <2>3. hook[d].pc = "claim" /\ \A e \in Deliveries : e # d => hook'[e] = hook[e]
    BY <1>3, <2>1 DEF AnswerKnown, At
  <2> QED
    BY <2>1, <2>2, <2>3
<1>4. ASSUME NEW d \in Deliveries, SeeReclaimable(d) PROVE UpdateInv'
  BY <1>4 DEF SeeReclaimable, At, Goes, RowsKept, WorldKept
<1>5. ASSUME NEW d \in Deliveries, Reclaim(d) PROVE UpdateInv'
  <2>0. hook[d].pc = "reclaim" /\ UNCHANGED orphaned
    BY <1>5 DEF Reclaim, At, WorldKept
  <2>1. CASE Reclaimable(d)
    <3> DEFINE u == hook[d].update
    <3>1. /\ inbound' = [inbound EXCEPT ![u] = [status |-> "PROCESSING", claimedAt |-> hook[d].now]]
          /\ hook' = [hook EXCEPT ![d].pc = "handle"]
          /\ overdue' = (IF Handling(u) THEN overdue \cup {u} ELSE overdue)
          /\ handled' = handled
      BY <1>5, <2>1 DEF Reclaim, Claims, Goes
    <3>2. u \in Updates /\ inbound[u].status # "NONE" /\ inbound[u].status # "COMPLETED"
      BY <2>1 DEF Reclaimable
    <3>3. CASE Handling(u)
      BY <2>0, <3>1, <3>2, <3>3 DEF Handling
    <3>4. CASE ~Handling(u)
      <4>1. \A e \in Deliveries : ~AtWork(e, u)
        BY <3>4 DEF Handling
      <4>2. u \notin Late => handled[u] = 0
        BY <3>2, <4>1
      <4> QED
        BY <2>0, <3>1, <3>2, <3>4, <4>1, <4>2
    <3> QED
      BY <3>3, <3>4
  <2>2. CASE ~Reclaimable(d)
    <3>1. hook' = [hook EXCEPT ![d].pc = "idle"] /\ UNCHANGED <<inbound, handled, overdue>>
      BY <1>5, <2>2 DEF Reclaim, AnswersBusy, Answers200, Goes, RowsKept
    <3>2. \A e \in Deliveries : hook'[e].pc \in {"handle", "complete", "fail"} => hook'[e] = hook[e]
      BY <3>1
    <3>3. \A e \in Deliveries : e # d => hook'[e] = hook[e]
      BY <3>1
    <3> QED
      BY <2>0, <3>1, <3>2, <3>3
  <2> QED
    BY <2>1, <2>2
<1>6. ASSUME NEW d \in Deliveries, Handle(d) PROVE UpdateInv'
  BY <1>6 DEF Handle, At, Goes, WorldKept
<1>7. ASSUME NEW d \in Deliveries, HandlerThrows(d) PROVE UpdateInv'
  BY <1>7 DEF HandlerThrows, At, Goes, WorldKept
<1>8. ASSUME NEW d \in Deliveries, CompleteUpdate(d) PROVE UpdateInv'
  BY <1>8 DEF CompleteUpdate, At, Completed, Answers200, Goes, WorldKept
<1>9. ASSUME NEW d \in Deliveries, FailUpdate(d) PROVE UpdateInv'
  BY <1>9 DEF FailUpdate, At, Goes, WorldKept
<1>10. ASSUME NEW d \in Deliveries, HookDies(d) PROVE UpdateInv'
  BY <1>10 DEF HookDies, At, Goes, RowsKept
<1>11. CASE HookTick
  BY <1>11 DEF HookTick, RowsKept
<1>12. CASE UNCHANGED inboundVars
  BY <1>12 DEF inboundVars
<1> QED
  BY <1>1, <1>2, <1>3, <1>4, <1>5, <1>6, <1>7, <1>8, <1>9, <1>10, <1>11, <1>12 DEF InboundNext

(***************************************************************************)
(* However many deliveries of however many updates overlap, and whatever   *)
(* throws or dies in them: an update is handled twice, or by two at once,  *)
(* only when a handler outlived its lease or a process ended.               *)
(***************************************************************************)
THEOREM UpdatesHandledOnce == InboundSpec => []HandledOnce
<1>1. InboundInit => HookShape /\ UpdateInv
  BY InboundAssumption DEF InboundInit, NoHook, HookShape, HookRow, UpdatePcs, UpdateRow, UpdateInv, AtWork, Late
<1>2. HookShape /\ UpdateInv => HandledOnce
  BY DEF HookShape, HookRow, UpdateInv, AtWork, Late, HandledOnce, HandlerOf
<1>3. HookShape /\ UpdateInv /\ [InboundNext]_inboundVars => (HookShape /\ UpdateInv)'
  BY HookShapeHolds, UpdateInvHolds
<1> QED
  BY <1>1, <1>2, <1>3, PTL DEF InboundSpec

-----------------------------------------------------------------------------
(***************************************************************************)
(* BusinessBot.  A button that may still be tapped has had no effect and is *)
(* in nobody's hands; one in somebody's hands is in one handler's, and has  *)
(* had no effect yet.  A receipt that was decided is closed for good, and   *)
(* the handlers that had read it before find its payment decided, unless    *)
(* another receipt put the payment back meanwhile.                          *)
(***************************************************************************)
CardRow == [member : Members, buttons : SUBSET Buttons, made : Nat, consumed : SUBSET Buttons]
TapRow == [pc : {"idle", "read", "write"}, card : Cards \cup {0}, button : Buttons]
Payments == {"PENDING", "RECEIPT_PROCESSING", "NEEDS_ATTENTION", "RECEIPT_ACCEPTED", "REJECTED"}
BotVisitRow == [status : {"PENDING_PAYMENT", "CONFIRMED"} \cup VisitOver, startsAt : Nat,
             paid : Payments, reminder : {"none", "SCHEDULED", "SKIPPED"}]
ReceiptStates == {"none", "PROCESSING", "NEEDS_REVIEW", "ACCEPTED", "REJECTED"}
Decides(t) == tap[t].pc = "write" /\ Command(t) \in {"approve", "reject"}
HoldsButton(t, c, b) == tap[t].pc # "idle" /\ tap[t].card = c /\ tap[t].button = b

BotShape ==
    /\ visit \in BotVisitRow
    /\ receipt \in [Receipts -> ReceiptStates]
    /\ card \in [Cards -> CardRow]
    /\ tap \in [Taps -> TapRow]
    /\ acts \in [Cards -> [Buttons -> Nat]]
    /\ verdicts \in [Receipts -> Nat]
    /\ botClock \in Nat
    /\ \A t \in Taps : tap[t].pc # "idle" => tap[t].card \in Cards

ButtonInv ==
    \A c \in Cards :
       /\ card[c].consumed \subseteq card[c].buttons
       /\ \A b \in Buttons :
            /\ b \notin card[c].consumed => acts[c][b] = 0 /\ \A t \in Taps : ~HoldsButton(t, c, b)
            /\ acts[c][b] \in {0, 1}
            /\ \A t \in Taps : HoldsButton(t, c, b) => acts[c][b] = 0 /\ \A u \in Taps \ {t} : ~HoldsButton(u, c, b)

VerdictInv ==
    \A s \in Receipts :
       /\ verdicts[s] > 0 => receipt[s] \in {"ACCEPTED", "REJECTED"}
       /\ s \notin overtaken => verdicts[s] \in {0, 1}
       /\ \A t \in Taps : Decides(t) /\ Argument(t) = s /\ s \notin overtaken /\ verdicts[s] > 0
                            => visit.paid # "NEEDS_ATTENTION"

LEMMA TheButtons ==
  /\ <<"confirm", 0>> \in Buttons /\ <<"remind", 0>> \in Buttons /\ <<"cancel", 0>> \in Buttons
  /\ \A at \in Starts : <<"move", at>> \in Buttons
  /\ \A s \in Receipts : <<"approve", s>> \in Buttons /\ <<"reject", s>> \in Buttons
  /\ \A b \in Buttons : b[1] \in {"approve", "reject"} => b[2] \in Receipts
  /\ \A b \in Buttons : b[1] = "move" => b[2] \in Starts
BY DEF Buttons

LEMMA TheViews ==
  \A buttons \in {BookingCard, RescheduleSlots, CancellationReasons, ApprovalConfirmation, RejectionReasons} :
     buttons \subseteq Buttons
<1>1. BookingCard \subseteq Buttons
  BY TheButtons DEF BookingCard
<1>2. RescheduleSlots \subseteq Buttons
  BY TheButtons DEF RescheduleSlots
<1>3. CancellationReasons \subseteq Buttons
  BY TheButtons DEF CancellationReasons
<1>4. ApprovalConfirmation \subseteq Buttons /\ RejectionReasons \subseteq Buttons
  BY TheButtons DEF ApprovalConfirmation, RejectionReasons
<1> QED
  BY <1>1, <1>2, <1>3, <1>4

LEMMA IdleTapIsARow == IdleTap \in TapRow /\ IdleTap.pc = "idle"
BY TheButtons DEF IdleTap, TapRow

(* What each command writes, in one formula: a tap ends, and a visit, a     *)
(* receipt and the histories of its button and receipt change.              *)
LEMMA CommandWrites ==
  ASSUME BotShape, NEW t \in Taps,
         ConfirmByTap(t) \/ CancelByTap(t) \/ RemindByTap(t) \/ MoveByTap(t) \/ ApproveByTap(t) \/ RejectByTap(t)
  PROVE  /\ tap[t].pc = "write" /\ tap' = [tap EXCEPT ![t] = IdleTap]
         /\ UNCHANGED <<card, overtaken, botClock>>
         /\ acts' = acts \/ Acts(t)
         /\ visit' \in BotVisitRow
         /\ \/ UNCHANGED <<receipt, verdicts>> /\ visit'.paid = visit.paid
            \/ /\ Decides(t) /\ Argument(t) \in Receipts
               /\ visit.paid = "NEEDS_ATTENTION" /\ visit'.paid # "NEEDS_ATTENTION"
               /\ verdicts' = [verdicts EXCEPT ![Argument(t)] = @ + 1]
               /\ \E final \in {"ACCEPTED", "REJECTED"} : receipt' = [receipt EXCEPT ![Argument(t)] = final]
<1> USE DEF VisitOver, BotVisitRow, Payments, Writes
<1>1. tap[t].button \in Buttons
  BY DEF BotShape, TapRow
<1>2. CASE ConfirmByTap(t)
  BY <1>2 DEF ConfirmByTap, BotShape
<1>3. CASE CancelByTap(t)
  BY <1>3 DEF CancelByTap, BotShape
<1>4. CASE RemindByTap(t)
  BY <1>4 DEF RemindByTap, BotShape
<1>5. CASE MoveByTap(t)
  <2>1. Command(t) = "move" => Argument(t) \in Nat
    BY <1>1, TheButtons, BusinessBotAssumption DEF Command, Argument
  <2> QED
    BY <1>5, <2>1 DEF MoveByTap, BotShape
<1>6. CASE ApproveByTap(t)
  <2>1. Command(t) = "approve" => Argument(t) \in Receipts
    BY <1>1, TheButtons DEF Command, Argument
  <2> QED
    BY <1>6, <2>1 DEF ApproveByTap, ReviewByTap, BotShape, Decides
<1>7. CASE RejectByTap(t)
  <2>1. Command(t) = "reject" => Argument(t) \in Receipts
    BY <1>1, TheButtons DEF Command, Argument
  <2> QED
    BY <1>7, <2>1 DEF RejectByTap, ReviewByTap, BotShape, Decides
<1> QED
  BY <1>2, <1>3, <1>4, <1>5, <1>6, <1>7

LEMMA BotShapeHolds ==
  ASSUME BotShape, [BusinessBotNext]_botVars
  PROVE  BotShape'
<1> USE DEF BotShape
<1>1. ASSUME NEW m \in Members, NEW c \in Cards, ShowCard(m, c) PROVE BotShape'
  <2>1. PICK buttons \in SUBSET Buttons :
          card' = [card EXCEPT ![c] = [member |-> m, buttons |-> buttons, made |-> botClock, consumed |-> {}]]
    BY <1>1, TheViews DEF ShowCard
  <2> QED
    BY <1>1, <2>1 DEF ShowCard, CardRow
<1>2. ASSUME NEW t \in Taps, NEW c \in Cards, NEW b \in card[c].buttons, Tap(t, c, b) PROVE BotShape'
  <2>1. b \in Buttons
    BY DEF CardRow
  <2>2. tap' \in [Taps -> TapRow] /\ \A u \in Taps : tap'[u].pc # "idle" => tap'[u].card \in Cards
    BY <1>2, <2>1 DEF Tap, TapRow
  <2>3. card' \in [Cards -> CardRow]
    BY <1>2, <2>1 DEF Tap, ConsumeAction, CardRow
  <2> QED
    BY <1>2, <2>2, <2>3 DEF Tap
<1>3. ASSUME NEW t \in Taps, ReadCommand(t) PROVE BotShape'
  <2>1. tap[t].card \in Cards
    BY <1>3 DEF ReadCommand
  <2>2. tap' \in [Taps -> TapRow] /\ \A u \in Taps : tap'[u].pc # "idle" => tap'[u].card \in Cards
    BY <1>3, <2>1, IdleTapIsARow DEF ReadCommand, TapRow
  <2> QED
    BY <1>3, <2>2 DEF ReadCommand
<1>4. ASSUME NEW t \in Taps,
             ConfirmByTap(t) \/ CancelByTap(t) \/ RemindByTap(t) \/ MoveByTap(t) \/ ApproveByTap(t) \/ RejectByTap(t)
      PROVE BotShape'
  <2>1. tap' \in [Taps -> TapRow] /\ \A u \in Taps : tap'[u].pc # "idle" => tap'[u].card \in Cards
    BY <1>4, CommandWrites, IdleTapIsARow
  <2>2. tap[t].card \in Cards /\ tap[t].button \in Buttons
    BY <1>4, CommandWrites DEF TapRow
  <2>3. acts' \in [Cards -> [Buttons -> Nat]]
    <3>1. acts' = acts \/ acts' = [acts EXCEPT ![tap[t].card][tap[t].button] = @ + 1]
      BY <1>4, CommandWrites DEF Acts
    <3> DEFINE row == [acts[tap[t].card] EXCEPT ![tap[t].button] = @ + 1]
    <3>2. row \in [Buttons -> Nat]
      BY <2>2
    <3>3. acts' = acts \/ acts' = [acts EXCEPT ![tap[t].card] = row]
      BY <3>1
    <3> HIDE DEF row
    <3> QED
      BY <2>2, <3>2, <3>3
  <2>4. receipt' \in [Receipts -> ReceiptStates] /\ verdicts' \in [Receipts -> Nat]
    BY <1>4, CommandWrites DEF ReceiptStates
  <2> QED
    BY <1>4, <2>1, <2>3, <2>4, CommandWrites
<1>5. ASSUME NEW t \in Taps, TapDies(t) PROVE BotShape'
  BY <1>5, IdleTapIsARow DEF TapDies
<1>6. ASSUME NEW s \in Receipts, CustomerSends(s) \/ RecogniserDoubts(s) \/ RecogniserAccepts(s) PROVE BotShape'
  BY <1>6 DEF CustomerSends, RecogniserDoubts, RecogniserAccepts, Elsewhere, BotVisitRow, VisitOver, Payments, ReceiptStates
<1>7. CASE HoldExpires \/ BotTick \/ UNCHANGED botVars
  BY <1>7 DEF HoldExpires, BotTick, Elsewhere, BotVisitRow, VisitOver, botVars
<1> QED
  BY <1>1, <1>2, <1>3, <1>4, <1>5, <1>6, <1>7, ZenonT(60) DEF BusinessBotNext

LEMMA ButtonInvHolds ==
  ASSUME BotShape, ButtonInv, [BusinessBotNext]_botVars
  PROVE  ButtonInv'
<1>0. ASSUME UNCHANGED <<card, acts>>,
             \A u \in Taps : tap'[u].pc # "idle" => /\ tap[u].pc # "idle"
                                                     /\ tap'[u].card = tap[u].card /\ tap'[u].button = tap[u].button
      PROVE ButtonInv'
  BY <1>0 DEF ButtonInv, HoldsButton
<1>1. ASSUME NEW m \in Members, NEW c \in Cards, ShowCard(m, c) PROVE ButtonInv'
  <2>1. PICK buttons \in SUBSET Buttons :
          card' = [card EXCEPT ![c] = [member |-> m, buttons |-> buttons, made |-> botClock, consumed |-> {}]]
    BY <1>1, TheViews DEF ShowCard
  <2>2. card[c].consumed = {} /\ UNCHANGED <<tap, acts>>
    BY <1>1 DEF ShowCard, ButtonInv
  <2>3. \A d \in Cards : card'[d].consumed = card[d].consumed /\ (d # c => card'[d] = card[d])
    BY <2>1, <2>2 DEF BotShape
  <2>4. card'[c].consumed \subseteq card'[c].buttons
    BY <2>2, <2>3
  <2> QED
    BY <2>2, <2>3, <2>4 DEF ButtonInv, HoldsButton
<1>2. ASSUME NEW t \in Taps, NEW c \in Cards, NEW b \in card[c].buttons, Tap(t, c, b) PROVE ButtonInv'
  <2>1. b \in Buttons /\ b \notin card[c].consumed /\ UNCHANGED acts /\ tap[t].pc = "idle"
    BY <1>2 DEF Tap, ConsumeAction, BotShape, CardRow
  <2>2. /\ \A d \in Cards \ {c} : card'[d] = card[d]
        /\ card'[c].buttons = card[c].buttons /\ card'[c].consumed = card[c].consumed \cup {b}
    BY <1>2 DEF Tap, ConsumeAction, BotShape, CardRow
  <2>3. /\ \A u \in Taps \ {t} : tap'[u] = tap[u]
        /\ tap'[t].card = c /\ tap'[t].button = b
    BY <1>2 DEF Tap, BotShape
  <2>4. acts[c][b] = 0 /\ \A u \in Taps : ~HoldsButton(u, c, b)
    BY <2>1 DEF ButtonInv
  <2>5. \A d \in Cards, e \in Buttons, u \in Taps :
          HoldsButton(u, d, e)' <=> (IF u = t THEN tap'[t].pc # "idle" /\ d = c /\ e = b ELSE HoldsButton(u, d, e))
    BY <2>3 DEF HoldsButton
  <2> QED
    BY <2>1, <2>2, <2>4, <2>5 DEF ButtonInv
<1>3. ASSUME NEW t \in Taps, ReadCommand(t) PROVE ButtonInv'
  BY <1>0, <1>3, IdleTapIsARow DEF ReadCommand, BotShape, TapRow
<1>4. ASSUME NEW t \in Taps,
             ConfirmByTap(t) \/ CancelByTap(t) \/ RemindByTap(t) \/ MoveByTap(t) \/ ApproveByTap(t) \/ RejectByTap(t)
      PROVE ButtonInv'
  <2> DEFINE c == tap[t].card
             b == tap[t].button
  <2>1. /\ tap[t].pc = "write" /\ tap' = [tap EXCEPT ![t] = IdleTap] /\ UNCHANGED card
        /\ acts' = acts \/ acts' = [acts EXCEPT ![c][b] = @ + 1]
    BY <1>4, CommandWrites DEF Acts
  <2>2. c \in Cards /\ b \in Buttons /\ HoldsButton(t, c, b)
    BY <2>1 DEF BotShape, TapRow, HoldsButton
  <2>3. /\ tap'[t].pc = "idle" /\ \A u \in Taps \ {t} : tap'[u] = tap[u]
    BY <2>1, IdleTapIsARow DEF BotShape
  <2>4. acts[c][b] = 0 /\ b \in card[c].consumed /\ \A u \in Taps \ {t} : ~HoldsButton(u, c, b)
    BY <2>2 DEF ButtonInv
  <2>5. CASE acts' = acts
    BY <1>0, <2>1, <2>3, <2>5
  <2>6. CASE acts' = [acts EXCEPT ![c][b] = @ + 1]
    <3>1. \A d \in Cards, e \in Buttons : acts'[d][e] = IF d = c /\ e = b THEN 1 ELSE acts[d][e]
      BY <2>2, <2>4, <2>6 DEF BotShape
    <3>2. \A d \in Cards, e \in Buttons, u \in Taps : HoldsButton(u, d, e)' <=> (u # t /\ HoldsButton(u, d, e))
      BY <2>3 DEF HoldsButton
    <3> QED
      BY <2>1, <2>4, <3>1, <3>2 DEF ButtonInv
  <2> QED
    BY <2>1, <2>5, <2>6
<1>5. ASSUME NEW t \in Taps, TapDies(t) PROVE ButtonInv'
  BY <1>0, <1>5, IdleTapIsARow DEF TapDies, BotShape
<1>6. ASSUME NEW s \in Receipts, CustomerSends(s) \/ RecogniserDoubts(s) \/ RecogniserAccepts(s) PROVE ButtonInv'
  BY <1>0, <1>6 DEF CustomerSends, RecogniserDoubts, RecogniserAccepts, Elsewhere
<1>7. CASE HoldExpires \/ BotTick \/ UNCHANGED botVars
  BY <1>0, <1>7 DEF HoldExpires, BotTick, Elsewhere, botVars
<1> QED
  BY <1>1, <1>2, <1>3, <1>4, <1>5, <1>6, <1>7, ZenonT(60) DEF BusinessBotNext

LEMMA VerdictInvHolds ==
  ASSUME BotShape, VerdictInv, [BusinessBotNext]_botVars
  PROVE  VerdictInv'
<1>0. ASSUME UNCHANGED <<visit, receipt, verdicts, overtaken>>,
             \A u \in Taps : Decides(u)' => Decides(u) /\ tap'[u].button = tap[u].button
      PROVE VerdictInv'
  BY <1>0 DEF VerdictInv, Argument
<1>1. ASSUME NEW m \in Members, NEW c \in Cards, ShowCard(m, c) PROVE VerdictInv'
  BY <1>0, <1>1 DEF ShowCard, Decides, Command
<1>2. ASSUME NEW t \in Taps, NEW c \in Cards, NEW b \in card[c].buttons, Tap(t, c, b) PROVE VerdictInv'
  BY <1>0, <1>2 DEF Tap, Decides, Command, BotShape
<1>3. ASSUME NEW t \in Taps, ReadCommand(t) PROVE VerdictInv'
  <2>1. UNCHANGED <<visit, receipt, verdicts, overtaken>> /\ \A u \in Taps \ {t} : tap'[u] = tap[u]
    BY <1>3 DEF ReadCommand, BotShape
  <2>2. Decides(t)' => tap'[t].button = tap[t].button /\ Command(t) \in {"approve", "reject"} /\ Allowed(t)
    BY <1>3, IdleTapIsARow DEF ReadCommand, Decides, Command, BotShape, TapRow
  <2>3. Decides(t)' => Argument(t) \in Receipts /\ receipt[Argument(t)] = "NEEDS_REVIEW"
    BY <2>2 DEF Allowed, ReviewAllowed, Newest, Awaiting
  <2>4. Decides(t)' => Argument(t)' = Argument(t) /\ verdicts[Argument(t)] = 0
    BY <2>2, <2>3 DEF VerdictInv, Argument, BotShape
  <2>5. \A u \in Taps \ {t} : (Decides(u)' <=> Decides(u)) /\ Argument(u)' = Argument(u)
    BY <2>1 DEF Decides, Command, Argument
  <2> QED
    BY <2>1, <2>4, <2>5 DEF VerdictInv
<1>4. ASSUME NEW t \in Taps,
             ConfirmByTap(t) \/ CancelByTap(t) \/ RemindByTap(t) \/ MoveByTap(t) \/ ApproveByTap(t) \/ RejectByTap(t)
      PROVE VerdictInv'
  <2>1. \A u \in Taps : Decides(u)' => Decides(u) /\ Argument(u)' = Argument(u)
    BY <1>4, CommandWrites, IdleTapIsARow DEF Decides, Command, Argument, BotShape
  <2>2. CASE UNCHANGED <<receipt, verdicts>> /\ visit'.paid = visit.paid
    BY <1>4, <2>1, <2>2, CommandWrites DEF VerdictInv
  <2>3. CASE ~(UNCHANGED <<receipt, verdicts>> /\ visit'.paid = visit.paid)
    <3> DEFINE s == Argument(t)
    <3>1. /\ Decides(t) /\ s \in Receipts /\ visit.paid = "NEEDS_ATTENTION" /\ visit'.paid # "NEEDS_ATTENTION"
          /\ verdicts' = [verdicts EXCEPT ![s] = @ + 1] /\ UNCHANGED overtaken
      BY <1>4, <2>3, CommandWrites
    <3>2. PICK final \in {"ACCEPTED", "REJECTED"} : receipt' = [receipt EXCEPT ![s] = final]
      BY <1>4, <2>3, CommandWrites
    <3>3. s \notin overtaken => verdicts[s] = 0
      BY <3>1 DEF VerdictInv, BotShape
    <3>4. /\ verdicts'[s] = verdicts[s] + 1 /\ receipt'[s] \in {"ACCEPTED", "REJECTED"}
          /\ \A r \in Receipts \ {s} : verdicts'[r] = verdicts[r] /\ receipt'[r] = receipt[r]
      BY <3>1, <3>2 DEF BotShape
    <3> QED
      BY <2>1, <3>1, <3>3, <3>4 DEF VerdictInv
  <2> QED
    BY <2>2, <2>3
<1>5. ASSUME NEW t \in Taps, TapDies(t) PROVE VerdictInv'
  BY <1>0, <1>5, IdleTapIsARow DEF TapDies, Decides, Command, BotShape
<1>6. ASSUME NEW s \in Receipts, CustomerSends(s) PROVE VerdictInv'
  <2>1. visit'.paid # "NEEDS_ATTENTION" /\ UNCHANGED <<tap, verdicts, overtaken>>
    BY <1>6 DEF CustomerSends, Elsewhere, BotShape, BotVisitRow
  <2>2. \A r \in Receipts : receipt[r] \in {"ACCEPTED", "REJECTED"} => receipt'[r] = receipt[r]
    BY <1>6 DEF CustomerSends, BotShape
  <2> QED
    BY <2>1, <2>2 DEF VerdictInv, Decides, Argument, Command
<1>7. ASSUME NEW s \in Receipts, RecogniserDoubts(s) PROVE VerdictInv'
  <2>1. \A r \in Receipts : receipt[r] \in {"ACCEPTED", "REJECTED"} => receipt'[r] = receipt[r]
    BY <1>7 DEF RecogniserDoubts, BotShape
  <2>2. UNCHANGED <<tap, verdicts>> /\ overtaken \subseteq overtaken'
    BY <1>7 DEF RecogniserDoubts, Elsewhere
  <2>3. \A t \in Taps : Decides(t) => Argument(t) \in overtaken'
    BY <1>7 DEF RecogniserDoubts, Decides
  <2> QED
    BY <2>1, <2>2, <2>3 DEF VerdictInv, Decides, Argument, Command
<1>8. ASSUME NEW s \in Receipts, RecogniserAccepts(s) PROVE VerdictInv'
  <2>1. visit'.paid # "NEEDS_ATTENTION" /\ UNCHANGED <<tap, verdicts, overtaken>>
    BY <1>8 DEF RecogniserAccepts, Elsewhere, BotShape, BotVisitRow
  <2>2. \A r \in Receipts : receipt[r] \in {"ACCEPTED", "REJECTED"} => receipt'[r] = receipt[r]
    BY <1>8 DEF RecogniserAccepts, BotShape
  <2> QED
    BY <2>1, <2>2 DEF VerdictInv, Decides, Argument, Command
<1>9. CASE HoldExpires \/ BotTick \/ UNCHANGED botVars
  <2>1. UNCHANGED <<tap, receipt, verdicts, overtaken>> /\ visit'.paid = visit.paid
    BY <1>9 DEF HoldExpires, BotTick, Elsewhere, botVars, BotShape, BotVisitRow
  <2> QED
    BY <2>1 DEF VerdictInv, Decides, Argument, Command
<1> QED
  BY <1>1, <1>2, <1>3, <1>4, <1>5, <1>6, <1>7, <1>8, <1>9, ZenonT(60) DEF BusinessBotNext

(***************************************************************************)
(* However many members tap however many cards at once, and however often  *)
(* a tap is delivered, a button takes effect once, and a receipt is decided *)
(* once unless another receipt overtook the decision.                       *)
(***************************************************************************)
THEOREM StaffDecide == BusinessBotSpec => []StaffDecideOnce
<1>1. BusinessBotInit => BotShape /\ ButtonInv /\ VerdictInv
  <2> SUFFICES ASSUME BusinessBotInit PROVE BotShape /\ ButtonInv /\ VerdictInv
    OBVIOUS
  <2>1. NoCard \in CardRow /\ NoCard.buttons = {} /\ NoCard.consumed = {}
    BY BusinessBotAssumption DEF NoCard, CardRow
  <2>2. BotShape
    BY <2>1, IdleTapIsARow, BusinessBotAssumption DEF BusinessBotInit, BotShape, BotVisitRow, Payments, ReceiptStates
  <2>3. ButtonInv /\ VerdictInv
    BY <2>1, IdleTapIsARow DEF BusinessBotInit, ButtonInv, VerdictInv, HoldsButton, Decides
  <2> QED
    BY <2>2, <2>3
<1>2. BotShape /\ ButtonInv /\ VerdictInv => StaffDecideOnce
  BY DEF BotShape, ButtonInv, VerdictInv, StaffDecideOnce
<1>3. BotShape /\ ButtonInv /\ VerdictInv /\ [BusinessBotNext]_botVars => (BotShape /\ ButtonInv /\ VerdictInv)'
  BY BotShapeHolds, ButtonInvHolds, VerdictInvHolds
<1> QED
  BY <1>1, <1>2, <1>3, PTL DEF BusinessBotSpec

-----------------------------------------------------------------------------
(***************************************************************************)
(* CustomerBot.  The steps of a conversation, in order.                     *)
(***************************************************************************)
Choosing == {"AWAITING_PAYMENT", "AWAITING_RECEIPT"}

LEMMA FlowInOrder ==
  LET n == Len(Steps) IN
  /\ n \in Nat /\ DOMAIN Steps = 1 .. n /\ DOMAIN Flow = 1 .. n + 6
  /\ Flow[1] = "LANGUAGE" /\ Flow[2] = "HOME"
  /\ \A i \in 1 .. n : Flow[i + 2] = Steps[i]
  /\ Flow[n + 3] = "CONFIRM" /\ Flow[n + 4] = "AWAITING_PAYMENT"
  /\ Flow[n + 5] = "AWAITING_RECEIPT" /\ Flow[n + 6] = "COMPLETE"
BY CustomerBotAssumption DEF Flow

LEMMA FlowOnce == \A i, j \in DOMAIN Flow : Flow[i] = Flow[j] => i = j
<1> DEFINE n == Len(Steps)
<1>1. ASSUME NEW i \in DOMAIN Flow
      PROVE  i \in {1, 2, n + 3, n + 4, n + 5, n + 6} \/ (i - 2 \in 1 .. n /\ Flow[i] = Steps[i - 2])
  BY <1>1, FlowInOrder
<1>2. \A i \in 1 .. n : Steps[i] \notin {"LANGUAGE", "HOME", "CONFIRM", "AWAITING_PAYMENT", "AWAITING_RECEIPT", "COMPLETE"}
  BY FlowInOrder, CustomerBotAssumption
<1>3. \A i, j \in 1 .. n : Steps[i] = Steps[j] => i = j
  BY FlowInOrder, CustomerBotAssumption
<1>4. n \in Nat /\ DOMAIN Flow = 1 .. n + 6
  BY FlowInOrder
<1> DEFINE Fixed == {1, 2, n + 3, n + 4, n + 5, n + 6}
           Names == {"LANGUAGE", "HOME", "CONFIRM", "AWAITING_PAYMENT", "AWAITING_RECEIPT", "COMPLETE"}
<1>5. ASSUME NEW i \in Fixed, NEW j \in Fixed, Flow[i] = Flow[j] PROVE i = j
  BY <1>5, FlowInOrder
<1>6. \A i \in Fixed : Flow[i] \in Names
  BY FlowInOrder
<1>7. \A i \in DOMAIN Flow : i \in Fixed \/ (i - 2 \in 1 .. n /\ Flow[i] = Steps[i - 2] /\ Flow[i] \notin Names)
  BY <1>1, <1>2
<1> SUFFICES ASSUME NEW i \in DOMAIN Flow, NEW j \in DOMAIN Flow, Flow[i] = Flow[j] PROVE i = j
  OBVIOUS
<1>8. i \in Int /\ j \in Int
  BY <1>4
<1> HIDE DEF n, Fixed, Names
<1>9. CASE i \in Fixed /\ j \in Fixed
  BY <1>5, <1>9
<1>10. CASE i \notin Fixed /\ j \notin Fixed
  <2>1. Steps[i - 2] = Steps[j - 2] /\ i - 2 \in 1 .. n /\ j - 2 \in 1 .. n
    BY <1>7, <1>10
  <2>2. i - 2 = j - 2
    BY <1>3, <2>1
  <2> QED
    BY <1>8, <2>2
<1>11. CASE ~ (i \in Fixed <=> j \in Fixed)
  BY <1>6, <1>7, <1>11
<1> QED
  BY <1>9, <1>10, <1>11

LEMMA AfterIsNext == \A i \in DOMAIN Flow : After(Flow[i]) = Flow[1 + i]
<1> TAKE i \in DOMAIN Flow
<1>1. (CHOOSE j \in DOMAIN Flow : Flow[j] = Flow[i]) = i
  BY FlowOnce
<1> QED
  BY <1>1 DEF After

LEMMA TheSteps ==
  /\ After("LANGUAGE") = "HOME" /\ After("CONFIRM") = "AWAITING_PAYMENT"
  /\ After("AWAITING_PAYMENT") = "AWAITING_RECEIPT" /\ After("AWAITING_RECEIPT") = "COMPLETE"
  /\ \A s \in Asked : After(s) \in Asked \cup {"CONFIRM"}
  /\ \A s \in Backward : Before(s) \in Asked \cup {"HOME"}
  /\ Steps[1] \in Asked
  /\ Asked \cap {"LANGUAGE", "HOME", "CONFIRM", "AWAITING_PAYMENT", "AWAITING_RECEIPT", "COMPLETE"} = {}
<1> DEFINE n == Len(Steps)
<1>1. Asked = {Steps[i] : i \in 1 .. n} /\ n > 0
  BY FlowInOrder, CustomerBotAssumption DEF Asked
<1>2. ASSUME NEW s \in Asked PROVE After(s) \in Asked \cup {"CONFIRM"}
  <2>1. PICK i \in 1 .. n : s = Steps[i]
    BY <1>1
  <2>2. s = Flow[i + 2] /\ i + 2 \in DOMAIN Flow
    BY <2>1, FlowInOrder
  <2>3. After(s) = Flow[1 + (i + 2)]
    BY <2>2, AfterIsNext
  <2>4. 1 + (i + 2) = (i + 1) + 2 /\ (i + 1 \in 1 .. n \/ (i = n /\ 1 + (i + 2) = n + 3))
    <3>1. n \in Nat
      BY FlowInOrder
    <3> QED
      BY <2>1, <3>1
  <2>5. i + 1 \in 1 .. n => Flow[(i + 1) + 2] = Steps[i + 1]
    BY FlowInOrder
  <2>6. CASE i + 1 \in 1 .. n
    <3>1. After(s) = Steps[i + 1]
      BY <2>3, <2>4, <2>5, <2>6
    <3> QED
      BY <3>1, <2>6, <1>1
  <2>7. CASE i = n
    <3>1. After(s) = Flow[n + 3]
      BY <2>3, <2>4, <2>7
    <3> QED
      BY <3>1, FlowInOrder
  <2> QED
    BY <2>4, <2>6, <2>7
<1>3. ASSUME NEW s \in Backward PROVE Before(s) \in Asked \cup {"HOME"}
  <2>1. CASE s = "CONFIRM"
    BY <2>1, CustomerBotAssumption DEF Before, Asked
  <2>2. CASE s # "CONFIRM"
    <3>1. PICK i \in 1 .. n : s = Steps[i]
      BY <1>1, <2>2 DEF Backward
    <3>2. s = Flow[i + 2] /\ i + 2 \in DOMAIN Flow
      BY <3>1, FlowInOrder
    <3>3. (CHOOSE j \in DOMAIN Flow : Flow[j] = s) = i + 2
      BY <3>2, FlowOnce
    <3>4. Before(s) = Flow[(i + 2) - 1]
      BY <2>2, <3>3 DEF Before
    <3>5. i = 1 \/ i - 1 \in 1 .. n
      BY <3>1, FlowInOrder
    <3>6. i # 1 => Flow[(i + 2) - 1] = Steps[i - 1]
      BY <3>5, FlowInOrder
    <3>7. i = 1 => Flow[(i + 2) - 1] = "HOME"
      BY FlowInOrder
    <3> QED
      BY <1>1, <3>4, <3>5, <3>6, <3>7
  <2> QED
    BY <2>1, <2>2
<1>4. /\ After("LANGUAGE") = "HOME" /\ After("CONFIRM") = "AWAITING_PAYMENT"
      /\ After("AWAITING_PAYMENT") = "AWAITING_RECEIPT" /\ After("AWAITING_RECEIPT") = "COMPLETE"
  <2>1. /\ Flow[1] = "LANGUAGE" /\ Flow[n + 3] = "CONFIRM" /\ Flow[n + 4] = "AWAITING_PAYMENT"
        /\ Flow[n + 5] = "AWAITING_RECEIPT"
        /\ {1, n + 3, n + 4, n + 5} \subseteq DOMAIN Flow
    BY FlowInOrder
  <2>2. /\ After("LANGUAGE") = Flow[1 + 1] /\ After("CONFIRM") = Flow[1 + (n + 3)]
        /\ After("AWAITING_PAYMENT") = Flow[1 + (n + 4)] /\ After("AWAITING_RECEIPT") = Flow[1 + (n + 5)]
    BY <2>1, AfterIsNext
  <2> QED
    BY <2>2, FlowInOrder
<1>5. Steps[1] \in Asked
  BY <1>1, FlowInOrder
<1>6. Asked \cap {"LANGUAGE", "HOME", "CONFIRM", "AWAITING_PAYMENT", "AWAITING_RECEIPT", "COMPLETE"} = {}
  BY CustomerBotAssumption DEF Asked
<1> QED
  BY <1>2, <1>3, <1>4, <1>5, <1>6

(***************************************************************************)
(* A button books while its card is in one handler's hands; a handler that  *)
(* is current writes over the state it read.  The handler of a receipt      *)
(* works for the booking chosen last, unless another one was chosen since,  *)
(* and that booking is paid when it reads the session again.                *)
(***************************************************************************)
OrderRow == [status : {"NONE", "PENDING_PAYMENT", "CONFIRMED", "CANCELLED", "EXPIRED"}, due : BOOLEAN]
ChatCommands == {"LANGUAGE", "CONFIRM"} \cup Choosing \cup Asked
ChatRow == [pc : {"idle", "command", "write", "back", "render", "book", "receipt"},
            current : BOOLEAN, command : SessionStates \cup {"none"},
            arg : Orders \cup ConfirmCards \cup {0}, read : Session]
Ended(b) == b \in Orders /\ order[b].status \in {"CONFIRMED", "CANCELLED"}

Proper(r) ==
    /\ r.pc \in {"command", "write"} => r.command \in ChatCommands
    /\ r.pc \in {"command", "write"} /\ r.command = "CONFIRM" => r.arg \in Orders
    /\ r.pc = "back" => r.command \in Asked \cup {"HOME"}
    /\ r.pc = "book" => r.arg \in ConfirmCards
    /\ r.pc = "receipt" => r.arg \in Orders \cup {NoOrder}

(* A step gives one handler a new row, and may take the others' currency. *)
Moved(h, mine) == chat' = Others(h, mine) \/ chat' = [chat EXCEPT ![h] = mine]

ChatShape ==
    /\ session \in Session
    /\ order \in [Orders -> OrderRow]
    /\ confirmCard \in [ConfirmCards -> {"unsent", "live", "spent"}]
    /\ chat \in [Chat -> ChatRow]
    /\ bookedBy \in [ConfirmCards -> Nat]
    /\ selected \in Orders \cup {NoOrder}
    /\ crossed \subseteq Orders
    /\ \A h \in Chat : Proper(chat[h])

OneBooking ==
    \A c \in ConfirmCards :
       /\ bookedBy[c] \in {0, 1}
       /\ confirmCard[c] # "spent" => bookedBy[c] = 0
       /\ \A h \in Chat : chat[h].pc = "book" /\ chat[h].arg = c =>
            /\ bookedBy[c] = 0 /\ confirmCard[c] = "spent"
            /\ \A g \in Chat \ {h} : ~(chat[g].pc = "book" /\ chat[g].arg = c)

Chosen(b) == b = selected \/ selected \in crossed

ChoiceInv ==
    /\ session.state \in Choosing => session.booking = selected
    /\ session.state = "COMPLETE" => Ended(session.booking) \/ session.booking \in crossed
    /\ \A h \in Chat :
         /\ chat[h].pc = "write" /\ chat[h].current => session.state = chat[h].command
         /\ HasReceipt(h) => Chosen(chat[h].arg)
         /\ chat[h].pc \in {"command", "write"} /\ chat[h].command = "AWAITING_RECEIPT" => Ended(chat[h].arg)
         /\ chat[h].pc = "write" /\ chat[h].current /\ chat[h].command = "AWAITING_RECEIPT" => Chosen(chat[h].arg)

LEMMA AskedAreStates ==
  /\ Asked \subseteq SessionStates /\ ChatCommands \subseteq SessionStates
  /\ \A s \in ChatCommands : After(s) \in SessionStates
  /\ \A s \in ChatCommands \ (Choosing \cup {"CONFIRM"}) : After(s) \notin Choosing \cup {"COMPLETE"}
  /\ \A s \in Backward : Before(s) \in SessionStates
  /\ {"LANGUAGE", "HOME", Steps[1]} \subseteq SessionStates \ (Choosing \cup {"COMPLETE"})
BY TheSteps DEF SessionStates, ChatCommands, Choosing

LEMMA QuietIsARow == QuietChat \in ChatRow /\ QuietChat.pc = "idle" /\ QuietChat.read \in Session /\ ~QuietChat.current
BY DEF QuietChat, ChatRow, Session, SessionStates, NoOrder

(* Rows made from the quiet one. *)
LEMMA BareRow ==
  ASSUME NEW pc \in {"idle", "command", "write", "back", "render", "book", "receipt"}
  PROVE  LET r == [QuietChat EXCEPT !.pc = pc] IN
         r \in ChatRow /\ r.pc = pc
BY QuietIsARow DEF ChatRow

LEMMA TransitionIs ==
  ASSUME session \in Session, NEW command \in ChatCommands, NEW arg, command = "CONFIRM" => arg \in Orders
  PROVE  /\ Transition(command, arg) \in Session
         /\ Transition(command, arg).state = After(command)
         /\ Transition(command, arg).booking = IF command = "CONFIRM" THEN arg ELSE session.booking
<1>1. After(command) \in SessionStates
  BY AskedAreStates
<1>2. (IF command \in Asked THEN session.filled \cup {command} ELSE session.filled) \in SUBSET Asked
  BY DEF Session
<1>3. (IF command = "CONFIRM" THEN arg ELSE session.booking) \in Orders \cup {NoOrder}
  BY DEF Session
<1> QED
  BY <1>1, <1>2, <1>3 DEF Transition, Session

LEMMA MovedIs ==
  ASSUME ChatShape, NEW h \in Chat, NEW mine \in ChatRow, Moved(h, mine)
  PROVE  /\ chat' \in [Chat -> ChatRow]
         /\ chat'[h] = mine
         /\ \A g \in Chat \ {h} :
              /\ chat'[g].pc = chat[g].pc /\ chat'[g].command = chat[g].command
              /\ chat'[g].arg = chat[g].arg /\ chat'[g].read = chat[g].read
              /\ chat'[g].current => chat[g].current
              /\ chat' = Others(h, mine) => ~chat'[g].current
<1>1. CASE chat' = Others(h, mine)
  BY <1>1 DEF Others, ChatShape, ChatRow
<1>2. CASE chat' = [chat EXCEPT ![h] = mine]
  <2>1. \A g \in Chat \ {h} : chat'[g] = chat[g]
    BY <1>2 DEF ChatShape
  <2>2. chat' = Others(h, mine) => \A g \in Chat \ {h} : ~chat'[g].current
    BY DEF Others, ChatShape, ChatRow
  <2> QED
    BY <1>2, <2>1, <2>2 DEF ChatShape
<1> QED
  BY <1>1, <1>2 DEF Moved

LEMMA MovedIsProper ==
  ASSUME ChatShape, NEW h \in Chat, NEW mine \in ChatRow, Moved(h, mine), Proper(mine)
  PROVE  chat' \in [Chat -> ChatRow] /\ \A g \in Chat : Proper(chat[g])'
<1>1. ASSUME NEW g \in Chat \ {h} PROVE Proper(chat[g])'
  BY MovedIs, <1>1 DEF ChatShape, Proper
<1>2. Proper(chat[h])'
  BY MovedIs DEF Proper
<1> QED
  BY <1>1, <1>2, MovedIs

LEMMA ReplacedIs ==
  ASSUME NEW data \in Session, NEW state \in SessionStates
  PROVE  LET s == [data EXCEPT !.state = state, !.live = TRUE] IN
         s \in Session /\ s.state = state /\ s.booking = data.booking
BY DEF Session

LEMMA CommandsAre ==
  /\ {"LANGUAGE", "AWAITING_PAYMENT", "AWAITING_RECEIPT", "CONFIRM"} \cup Asked \subseteq ChatCommands
  /\ Asked \cap {"LANGUAGE", "HOME", "CONFIRM", "AWAITING_PAYMENT", "AWAITING_RECEIPT", "COMPLETE"} = {}
  /\ NoOrder = 0 /\ NoOrder \notin Orders
BY TheSteps, CustomerBotAssumption DEF ChatCommands, Choosing, NoOrder

LEMMA ChatShapeHolds == CustomerBotSpec => []ChatShape
<1>1. ASSUME CustomerBotInit PROVE ChatShape
  BY <1>1, QuietIsARow DEF CustomerBotInit, ChatShape, Proper, OrderRow, NoOrder
<1>2. ASSUME ChatShape, [CustomerBotNext]_chatVars PROVE ChatShape'
  <2> USE <1>2
  <2>q. QuietChat \in ChatRow /\ Proper(QuietChat)
    BY QuietIsARow DEF Proper
  <2>r. Renders \in ChatRow /\ Proper(Renders)
    BY BareRow, QuietIsARow DEF Renders, Proper, ChatRow
  <2>s. session \in Session /\ order \in [Orders -> OrderRow] /\ confirmCard \in [ConfirmCards -> {"unsent", "live", "spent"}]
        /\ chat \in [Chat -> ChatRow] /\ bookedBy \in [ConfirmCards -> Nat] /\ selected \in Orders \cup {NoOrder}
        /\ crossed \subseteq Orders /\ \A g \in Chat : Proper(chat[g])
    BY DEF ChatShape
  <2>f. ASSUME NEW h \in Chat, NEW mine \in ChatRow, Moved(h, mine), Proper(mine), session' \in Session,
               order' \in [Orders -> OrderRow], confirmCard' \in [ConfirmCards -> {"unsent", "live", "spent"}],
               bookedBy' \in [ConfirmCards -> Nat], selected' \in Orders \cup {NoOrder}, crossed' \subseteq Orders
        PROVE  ChatShape'
    BY <2>f, MovedIsProper DEF ChatShape
  <2>1. ASSUME NEW h \in Chat, NEW s \in {"LANGUAGE", "HOME", Steps[1]}, StartOver(h, s) PROVE ChatShape'
    <3>1. session' \in Session
      BY <2>1, ReplacedIs, AskedAreStates, QuietIsARow DEF StartOver, Replace
    <3> QED
      BY <2>1, <3>1, <2>f, <2>r, <2>s DEF StartOver, Replace, Moved, OrdersKept, NotSelecting
  <2>2. ASSUME NEW h \in Chat, NEW command \in {"LANGUAGE", "AWAITING_PAYMENT"} \cup Asked, Choose(h, command) PROVE ChatShape'
    <3> DEFINE mine == [QuietChat EXCEPT !.pc = "write", !.current = TRUE, !.command = command, !.arg = 0]
    <3>1. mine \in ChatRow /\ mine.pc = "write" /\ mine.command = command
      <4>1. command \in SessionStates
        BY AskedAreStates, CommandsAre
      <4> QED
        BY <4>1, QuietIsARow DEF ChatRow
    <3>2. Proper(mine)
      BY <3>1, CommandsAre DEF Proper
    <3>3. Moved(h, mine)
      BY <2>2 DEF Choose, ReadSession, Becomes, Moved
    <3> QED
      BY <2>2, <3>1, <3>2, <3>3, <2>f, <2>s DEF Choose, OrdersKept, NotSelecting
  <2>3. ASSUME NEW h \in Chat, NEW from \in Backward, ReadBack(h, from) PROVE ChatShape'
    <3> DEFINE mine == [QuietChat EXCEPT !.pc = "back", !.command = Before(from), !.read = session]
    <3>1. mine \in ChatRow /\ mine.pc = "back" /\ mine.command = Before(from)
      <4>1. Before(from) \in SessionStates /\ session \in Session
        BY AskedAreStates, <2>s
      <4> QED
        BY <4>1, QuietIsARow DEF ChatRow
    <3>2. Proper(mine)
      BY <3>1, TheSteps DEF Proper
    <3>3. Moved(h, mine)
      BY <2>3 DEF ReadBack, Becomes, Moved
    <3> QED
      BY <2>3, <3>1, <3>2, <3>3, <2>f, <2>s DEF ReadBack, OrdersKept, NotSelecting
  <2>4. ASSUME NEW h \in Chat, CommandAfterEffect(h) PROVE ChatShape'
    <3> DEFINE mine == [QuietChat EXCEPT !.pc = "write", !.current = TRUE, !.command = chat[h].command, !.arg = chat[h].arg]
    <3>b. chat[h].pc = "command"
      BY <2>4 DEF CommandAfterEffect
    <3>c. chat[h] \in ChatRow /\ Proper(chat[h])
      BY <2>s
    <3>a. /\ chat[h].command \in ChatCommands
          /\ chat[h].command = "CONFIRM" => chat[h].arg \in Orders
          /\ chat[h].arg \in Orders \cup ConfirmCards \cup {0}
      <4>1. chat[h].command \in ChatCommands /\ (chat[h].command = "CONFIRM" => chat[h].arg \in Orders)
        BY <3>b, <3>c DEF Proper
      <4> QED
        BY <4>1, <3>c DEF ChatRow
    <3>1. mine \in ChatRow /\ mine.pc = "write" /\ mine.command = chat[h].command /\ mine.arg = chat[h].arg
      <4>1. chat[h].command \in SessionStates
        BY <3>a, AskedAreStates
      <4> QED
        BY <4>1, <3>a, QuietIsARow DEF ChatRow
    <3>2. Proper(mine)
      BY <3>1, <3>a DEF Proper
    <3>3. Moved(h, mine) \/ Moved(h, QuietChat)
      BY <2>4 DEF CommandAfterEffect, ReadSession, Becomes, Moved
    <3>4. UNCHANGED <<session, order, confirmCard, bookedBy, selected, crossed>>
      BY <2>4 DEF CommandAfterEffect, OrdersKept, NotSelecting
    <3> HIDE DEF mine
    <3> QED
      BY <3>1, <3>2, <3>3, <3>4, <2>f, <2>s, <2>q
  <2>5. ASSUME NEW h \in Chat, WriteSession(h) PROVE ChatShape'
    <3>b. chat[h].pc = "write"
      BY <2>5 DEF WriteSession
    <3>c. Proper(chat[h])
      BY <2>s
    <3>a. /\ chat[h].command \in ChatCommands
          /\ chat[h].command = "CONFIRM" => chat[h].arg \in Orders
      BY <3>b, <3>c DEF Proper
    <3>1. Transition(chat[h].command, chat[h].arg) \in Session
      BY <3>a, TransitionIs, <2>s
    <3>2. session' \in Session
      BY <2>5, <3>1, <2>s DEF WriteSession
    <3>3. Moved(h, Renders) \/ Moved(h, QuietChat)
      BY <2>5 DEF WriteSession, Becomes, Moved
    <3>4. selected' \in Orders \cup {NoOrder} /\ crossed' \subseteq Orders
      BY <2>5, <3>a, <2>s DEF WriteSession, Selects, NotSelecting
    <3>5. UNCHANGED <<order, confirmCard, bookedBy>>
      BY <2>5 DEF WriteSession, OrdersKept
    <3> QED
      BY <3>2, <3>3, <3>4, <3>5, <2>f, <2>s, <2>q, <2>r
  <2>6. ASSUME NEW h \in Chat, WriteBack(h) PROVE ChatShape'
    <3>1. chat[h].command \in Asked \cup {"HOME"} /\ chat[h].read \in Session
      BY <2>6, <2>s DEF WriteBack, Proper, ChatRow
    <3>2. session' \in Session
      BY <2>6, <3>1, ReplacedIs, AskedAreStates DEF WriteBack, Replace
    <3> QED
      BY <2>6, <3>2, <2>f, <2>r, <2>s DEF WriteBack, Replace, Moved, OrdersKept, NotSelecting
  <2>7. ASSUME NEW h \in Chat, Render(h) PROVE ChatShape'
    <3>1. confirmCard' \in [ConfirmCards -> {"unsent", "live", "spent"}]
      BY <2>7, <2>s DEF Render
    <3> QED
      BY <2>7, <3>1, <2>f, <2>q, <2>s DEF Render, Becomes, Moved, NotSelecting
  <2>8. ASSUME NEW h \in Chat, NEW c \in ConfirmCards, TapConfirm(h, c) PROVE ChatShape'
    <3> DEFINE mine == [QuietChat EXCEPT !.pc = "book", !.arg = c]
    <3>1. mine \in ChatRow /\ mine.pc = "book" /\ mine.arg = c
      BY QuietIsARow DEF ChatRow
    <3>2. Proper(mine)
      BY <3>1 DEF Proper
    <3>3. Moved(h, mine) /\ confirmCard' \in [ConfirmCards -> {"unsent", "live", "spent"}]
      BY <2>8, <2>s DEF TapConfirm, Becomes, Moved, ConsumeRow
    <3> QED
      BY <2>8, <3>1, <3>2, <3>3, <2>f, <2>s DEF TapConfirm, NotSelecting
  <2>9. ASSUME NEW h \in Chat, NEW b \in Orders, BookSession(h, b) PROVE ChatShape'
    <3> DEFINE mine == [QuietChat EXCEPT !.pc = "command", !.command = "CONFIRM", !.arg = b]
    <3>1. mine \in ChatRow /\ mine.pc = "command" /\ mine.arg = b /\ mine.command = "CONFIRM"
      <4>1. "CONFIRM" \in SessionStates
        BY DEF SessionStates
      <4> QED
        BY <4>1, QuietIsARow DEF ChatRow
    <3>2. Proper(mine)
      BY <3>1, CommandsAre DEF Proper
    <3>3. [session EXCEPT !.booking = b] \in Session
      BY <2>s DEF Session
    <3>4. [[session EXCEPT !.booking = b] EXCEPT !.state = "COMPLETE", !.live = TRUE] \in Session
      BY <3>3, ReplacedIs DEF SessionStates
    <3>5. order' \in [Orders -> OrderRow] /\ bookedBy' \in [ConfirmCards -> Nat]
      <4>1. /\ \/ order' = [order EXCEPT ![b] = [status |-> "PENDING_PAYMENT", due |-> TRUE]]
               \/ order' = [order EXCEPT ![b] = [status |-> "CONFIRMED", due |-> FALSE]]
            /\ bookedBy' = [bookedBy EXCEPT ![chat[h].arg] = @ + 1]
            /\ chat[h].pc = "book"
        BY <2>9 DEF BookSession
      <4>2. chat[h].arg \in ConfirmCards
        BY <4>1, <2>s DEF Proper
      <4>o. [status |-> "PENDING_PAYMENT", due |-> TRUE] \in OrderRow /\ [status |-> "CONFIRMED", due |-> FALSE] \in OrderRow
        BY DEF OrderRow
      <4>3. order' \in [Orders -> OrderRow]
        BY <4>1, <4>o, <2>s
      <4> QED
        BY <4>1, <4>2, <4>3, <2>s
    <3>6. /\ Moved(h, mine) \/ Moved(h, Renders)
          /\ session' \in Session
      BY <2>9, <3>4, <2>s DEF BookSession, Becomes, Replace, Moved
    <3>7. UNCHANGED <<confirmCard, selected, crossed>>
      BY <2>9 DEF BookSession, NotSelecting
    <3> HIDE DEF mine
    <3> QED
      BY <3>1, <3>2, <3>5, <3>6, <3>7, <2>f, <2>r, <2>s
  <2>10. ASSUME NEW h \in Chat, NEW b \in Orders, SelectPayment(h, b) PROVE ChatShape'
    <3>1. [QuietChat.read EXCEPT !.booking = b] \in Session
      BY QuietIsARow DEF Session
    <3>2. session' \in Session
      BY <2>10, <3>1, ReplacedIs DEF SelectPayment, Replace, SessionStates
    <3>3. selected' \in Orders \cup {NoOrder} /\ crossed' \subseteq Orders
      BY <2>10, <2>s DEF SelectPayment, Selects
    <3> QED
      BY <2>10, <3>2, <3>3, <2>f, <2>r, <2>s DEF SelectPayment, Replace, Moved, OrdersKept
  <2>11. ASSUME NEW h \in Chat, RefuseBooking(h) PROVE ChatShape'
    BY <2>11, <2>f, <2>q, <2>s DEF RefuseBooking, Becomes, Moved, OrdersKept, NotSelecting
  <2>12. ASSUME NEW h \in Chat, SendPhoto(h) PROVE ChatShape'
    <3> DEFINE mine == [QuietChat EXCEPT !.pc = "receipt", !.arg = session.booking]
    <3>0. session.booking \in Orders \cup {NoOrder}
      BY <2>s DEF Session
    <3>1. mine \in ChatRow /\ mine.pc = "receipt" /\ mine.arg = session.booking
      <4>1. session.booking \in Orders \cup {0}
        BY <3>0, CommandsAre
      <4> QED
        BY <4>1, QuietIsARow DEF ChatRow
    <3>2. Proper(mine)
      BY <3>0, <3>1 DEF Proper
    <3>3. Moved(h, mine)
      BY <2>12 DEF SendPhoto, Becomes, Moved
    <3> QED
      BY <2>12, <3>1, <3>2, <3>3, <2>f, <2>s DEF SendPhoto, OrdersKept, NotSelecting
  <2>13. ASSUME NEW h \in Chat, ReadReceipt(h) PROVE ChatShape'
    <3> DEFINE mine == [QuietChat EXCEPT !.pc = "command", !.command = "AWAITING_RECEIPT", !.arg = chat[h].arg]
    <3>0. chat[h].arg \in Orders \cup {NoOrder}
      BY <2>13, <2>s DEF ReadReceipt, Proper
    <3>1. mine \in ChatRow /\ mine.pc = "command" /\ mine.arg = chat[h].arg /\ mine.command = "AWAITING_RECEIPT"
      <4>1. "AWAITING_RECEIPT" \in SessionStates /\ chat[h].arg \in Orders \cup {0}
        BY <3>0, CommandsAre DEF SessionStates
      <4> QED
        BY <4>1, QuietIsARow DEF ChatRow
    <3>2. Proper(mine)
      BY <3>1, CommandsAre DEF Proper
    <3>3. Moved(h, mine) \/ Moved(h, QuietChat)
      BY <2>13 DEF ReadReceipt, Becomes, Moved
    <3>4. order' \in [Orders -> OrderRow]
      BY <2>13, <2>s DEF ReadReceipt, OrderRow
    <3>5. UNCHANGED <<session, confirmCard, bookedBy, selected, crossed>>
      BY <2>13 DEF ReadReceipt, NotSelecting
    <3> HIDE DEF mine
    <3> QED
      BY <3>1, <3>2, <3>3, <3>4, <3>5, <2>f, <2>q, <2>s
  <2>14. ASSUME NEW h \in Chat, ChatDies(h) PROVE ChatShape'
    BY <2>14, <2>f, <2>q, <2>s DEF ChatDies, Becomes, Moved, OrdersKept, NotSelecting
  <2>15. ASSUME NEW b \in Orders, NEW status \in {"CANCELLED", "EXPIRED"}, EndOrder(b, status) PROVE ChatShape'
    <3>1. order' \in [Orders -> OrderRow]
      BY <2>15, <2>s DEF EndOrder, OrderRow
    <3> QED
      BY <2>15, <3>1 DEF EndOrder, NotSelecting, ChatShape
  <2>16. ASSUME SessionExpires PROVE ChatShape'
    <3>1. session' \in Session /\ confirmCard' \in [ConfirmCards -> {"unsent", "live", "spent"}]
      BY <2>16, <2>s DEF SessionExpires, CardsExpire, Session
    <3> QED
      BY <2>16, <3>1 DEF SessionExpires, NotSelecting, ChatShape
  <2>17. ASSUME NEW c \in ConfirmCards, CardExpires(c) PROVE ChatShape'
    <3>1. confirmCard' \in [ConfirmCards -> {"unsent", "live", "spent"}]
      BY <2>17, <2>s DEF CardExpires, CardsExpire
    <3> QED
      BY <2>17, <3>1 DEF CardExpires, NotSelecting, ChatShape
  <2>18. ASSUME UNCHANGED chatVars PROVE ChatShape'
    BY <2>18 DEF chatVars, ChatShape
  <2> QED
    BY <2>1, <2>2, <2>3, <2>4, <2>5, <2>6, <2>7, <2>8, <2>9, <2>10, <2>11, <2>12, <2>13, <2>14, <2>15, <2>16, <2>17, <2>18, ZenonT(60)
       DEF CustomerBotNext
<1> QED
  BY <1>1, <1>2, PTL DEF CustomerBotSpec

(* A handler whose new row books nothing leaves the bookings as they are. *)
LEMMA OneBookingHolds == CustomerBotSpec => []OneBooking
<1>1. ASSUME CustomerBotInit PROVE OneBooking
  BY <1>1, QuietIsARow DEF CustomerBotInit, OneBooking
<1>2. ASSUME ChatShape, OneBooking, [CustomerBotNext]_chatVars PROVE OneBooking'
  <2> USE <1>2
  <2>s. confirmCard \in [ConfirmCards -> {"unsent", "live", "spent"}] /\ bookedBy \in [ConfirmCards -> Nat]
        /\ chat \in [Chat -> ChatRow] /\ \A g \in Chat : Proper(chat[g])
    BY DEF ChatShape
  <2>f. ASSUME UNCHANGED bookedBy, \A c \in ConfirmCards : confirmCard'[c] # "spent" => confirmCard[c] # "spent",
               \A g \in Chat : chat'[g].pc = "book" => chat'[g] = chat[g] \/ (chat[g].pc = "book" /\ chat'[g].arg = chat[g].arg)
        PROVE  OneBooking'
    BY <2>f DEF OneBooking
  <2>m. ASSUME NEW h \in Chat, NEW mine \in ChatRow, Moved(h, mine), mine.pc # "book", UNCHANGED bookedBy,
               \A c \in ConfirmCards : confirmCard'[c] # "spent" => confirmCard[c] # "spent"
        PROVE  OneBooking'
    BY <2>m, <2>f, MovedIs
  <2>k. UNCHANGED confirmCard => \A c \in ConfirmCards : confirmCard'[c] # "spent" => confirmCard[c] # "spent"
    OBVIOUS
  <2>e. ASSUME UNCHANGED <<bookedBy, chat>>, \A c \in ConfirmCards : confirmCard'[c] # "spent" => confirmCard[c] # "spent"
        PROVE  OneBooking'
    BY <2>e, <2>f
  <2>q. QuietChat \in ChatRow /\ QuietChat.pc # "book" /\ Renders \in ChatRow /\ Renders.pc # "book"
    BY QuietIsARow, BareRow DEF Renders
  <2>1. ASSUME NEW h \in Chat, NEW s \in {"LANGUAGE", "HOME", Steps[1]}, StartOver(h, s) PROVE OneBooking'
    BY <2>1, <2>m, <2>q, <2>k DEF StartOver, Replace, Moved, OrdersKept
  <2>2. ASSUME NEW h \in Chat, NEW command \in {"LANGUAGE", "AWAITING_PAYMENT"} \cup Asked, Choose(h, command) PROVE OneBooking'
    <3> DEFINE mine == [QuietChat EXCEPT !.pc = "write", !.current = TRUE, !.command = command, !.arg = 0]
    <3>1. mine \in ChatRow /\ mine.pc = "write"
      <4>1. command \in SessionStates
        BY AskedAreStates, CommandsAre
      <4> QED
        BY <4>1, QuietIsARow DEF ChatRow
    <3>2. Moved(h, mine) /\ UNCHANGED <<bookedBy, confirmCard>>
      BY <2>2 DEF Choose, ReadSession, Becomes, Moved, OrdersKept
    <3> HIDE DEF mine
    <3> QED
      BY <3>1, <3>2, <2>m, <2>k
  <2>3. ASSUME NEW h \in Chat, NEW from \in Backward, ReadBack(h, from) PROVE OneBooking'
    <3> DEFINE mine == [QuietChat EXCEPT !.pc = "back", !.command = Before(from), !.read = session]
    <3>1. mine \in ChatRow /\ mine.pc = "back"
      <4>1. Before(from) \in SessionStates /\ session \in Session
        BY AskedAreStates DEF ChatShape
      <4> QED
        BY <4>1, QuietIsARow DEF ChatRow
    <3>2. Moved(h, mine) /\ UNCHANGED <<bookedBy, confirmCard>>
      BY <2>3 DEF ReadBack, Becomes, Moved, OrdersKept
    <3> HIDE DEF mine
    <3> QED
      BY <3>1, <3>2, <2>m, <2>k
  <2>4. ASSUME NEW h \in Chat, CommandAfterEffect(h) PROVE OneBooking'
    <3> DEFINE mine == [QuietChat EXCEPT !.pc = "write", !.current = TRUE, !.command = chat[h].command, !.arg = chat[h].arg]
    <3>1. mine \in ChatRow /\ mine.pc = "write"
      <4>1. chat[h] \in ChatRow /\ chat[h].pc = "command" /\ Proper(chat[h])
        BY <2>4, <2>s DEF CommandAfterEffect
      <4>2. chat[h].command \in SessionStates
        BY <4>1, AskedAreStates DEF Proper
      <4> QED
        BY <4>1, <4>2, QuietIsARow DEF ChatRow
    <3>2. Moved(h, mine) \/ Moved(h, QuietChat)
      BY <2>4 DEF CommandAfterEffect, ReadSession, Becomes, Moved
    <3>3. UNCHANGED <<bookedBy, confirmCard>>
      BY <2>4 DEF CommandAfterEffect, OrdersKept
    <3> HIDE DEF mine
    <3> QED
      BY <3>1, <3>2, <3>3, <2>m, <2>k, <2>q
  <2>5. ASSUME NEW h \in Chat, WriteSession(h) PROVE OneBooking'
    BY <2>5, <2>m, <2>q, <2>k DEF WriteSession, Moved, Becomes, OrdersKept
  <2>6. ASSUME NEW h \in Chat, WriteBack(h) PROVE OneBooking'
    BY <2>6, <2>m, <2>q, <2>k DEF WriteBack, Replace, Moved, OrdersKept
  <2>7. ASSUME NEW h \in Chat, Render(h) PROVE OneBooking'
    <3>1. \A c \in ConfirmCards : confirmCard'[c] # "spent" => confirmCard[c] # "spent"
      BY <2>7, <2>s DEF Render
    <3> QED
      BY <2>7, <3>1, <2>m, <2>q DEF Render, Moved, Becomes
  <2>8. ASSUME NEW h \in Chat, NEW c \in ConfirmCards, TapConfirm(h, c) PROVE OneBooking'
    <3> DEFINE mine == [QuietChat EXCEPT !.pc = "book", !.arg = c]
    <3>1. mine \in ChatRow /\ mine.pc = "book" /\ mine.arg = c
      BY QuietIsARow DEF ChatRow
    <3>2. /\ chat' = [chat EXCEPT ![h] = mine] /\ UNCHANGED bookedBy /\ confirmCard[c] = "live"
          /\ confirmCard' = [confirmCard EXCEPT ![c] = "spent"] /\ chat[h].pc = "idle"
      BY <2>8 DEF TapConfirm, ConsumeRow, Becomes
    <3> HIDE DEF mine
    <3>3. chat'[h] = mine /\ \A g \in Chat \ {h} : chat'[g] = chat[g]
      BY <3>2, <2>s
    <3>4. confirmCard'[c] = "spent" /\ \A d \in ConfirmCards \ {c} : confirmCard'[d] = confirmCard[d]
      BY <3>2, <2>s
    <3>5. bookedBy[c] = 0 /\ \A g \in Chat : ~(chat[g].pc = "book" /\ chat[g].arg = c)
      BY <3>2 DEF OneBooking
    <3> QED
      BY <3>1, <3>2, <3>3, <3>4, <3>5 DEF OneBooking
  <2>9. ASSUME NEW h \in Chat, NEW b \in Orders, BookSession(h, b) PROVE OneBooking'
    <3> DEFINE mine == [QuietChat EXCEPT !.pc = "command", !.command = "CONFIRM", !.arg = b]
    <3>1. mine \in ChatRow /\ mine.pc = "command"
      <4>1. "CONFIRM" \in SessionStates
        BY DEF SessionStates
      <4> QED
        BY <4>1, QuietIsARow DEF ChatRow
    <3>2. /\ Moved(h, mine) \/ Moved(h, Renders)
          /\ chat[h].pc = "book" /\ UNCHANGED confirmCard
          /\ bookedBy' = [bookedBy EXCEPT ![chat[h].arg] = @ + 1]
      BY <2>9 DEF BookSession, Becomes, Replace, Moved
    <3> HIDE DEF mine
    <3>3. /\ chat'[h].pc # "book"
          /\ \A g \in Chat \ {h} : chat'[g].pc = chat[g].pc /\ chat'[g].arg = chat[g].arg
      BY <3>1, <3>2, <2>q, MovedIs
    <3>4. chat[h].arg \in ConfirmCards
      BY <3>2, <2>s DEF Proper
    <3>5. bookedBy'[chat[h].arg] = bookedBy[chat[h].arg] + 1 /\ \A d \in ConfirmCards \ {chat[h].arg} : bookedBy'[d] = bookedBy[d]
      BY <3>2, <3>4, <2>s
    <3>6. bookedBy[chat[h].arg] = 0 /\ confirmCard[chat[h].arg] = "spent"
          /\ \A g \in Chat \ {h} : ~(chat[g].pc = "book" /\ chat[g].arg = chat[h].arg)
      BY <3>2, <3>4 DEF OneBooking
    <3> QED
      BY <3>2, <3>3, <3>4, <3>5, <3>6 DEF OneBooking
  <2>10. ASSUME NEW h \in Chat, NEW b \in Orders, SelectPayment(h, b) PROVE OneBooking'
    BY <2>10, <2>m, <2>q, <2>k DEF SelectPayment, Replace, Moved, OrdersKept
  <2>11. ASSUME NEW h \in Chat, RefuseBooking(h) PROVE OneBooking'
    BY <2>11, <2>m, <2>q, <2>k DEF RefuseBooking, Becomes, Moved, OrdersKept
  <2>12. ASSUME NEW h \in Chat, SendPhoto(h) PROVE OneBooking'
    <3> DEFINE mine == [QuietChat EXCEPT !.pc = "receipt", !.arg = session.booking]
    <3>1. mine \in ChatRow /\ mine.pc = "receipt"
      <4>1. session.booking \in Orders \cup {0}
        BY CommandsAre DEF ChatShape, Session
      <4> QED
        BY <4>1, QuietIsARow DEF ChatRow
    <3>2. Moved(h, mine) /\ UNCHANGED <<bookedBy, confirmCard>>
      BY <2>12 DEF SendPhoto, Becomes, Moved, OrdersKept
    <3> HIDE DEF mine
    <3> QED
      BY <3>1, <3>2, <2>m, <2>k
  <2>13. ASSUME NEW h \in Chat, ReadReceipt(h) PROVE OneBooking'
    <3> DEFINE mine == [QuietChat EXCEPT !.pc = "command", !.command = "AWAITING_RECEIPT", !.arg = chat[h].arg]
    <3>1. mine \in ChatRow /\ mine.pc = "command"
      <4>1. "AWAITING_RECEIPT" \in SessionStates /\ chat[h].arg \in Orders \cup ConfirmCards \cup {0}
        BY <2>s DEF SessionStates, ChatRow
      <4> QED
        BY <4>1, QuietIsARow DEF ChatRow
    <3>2. Moved(h, mine) \/ Moved(h, QuietChat)
      BY <2>13 DEF ReadReceipt, Becomes, Moved
    <3>3. UNCHANGED <<bookedBy, confirmCard>>
      BY <2>13 DEF ReadReceipt
    <3> HIDE DEF mine
    <3> QED
      BY <3>1, <3>2, <3>3, <2>m, <2>k, <2>q
  <2>14. ASSUME NEW h \in Chat, ChatDies(h) PROVE OneBooking'
    BY <2>14, <2>m, <2>q, <2>k DEF ChatDies, Becomes, Moved, OrdersKept
  <2>15. ASSUME NEW b \in Orders, NEW status \in {"CANCELLED", "EXPIRED"}, EndOrder(b, status) PROVE OneBooking'
    BY <2>15, <2>e, <2>k DEF EndOrder
  <2>16. ASSUME SessionExpires PROVE OneBooking'
    BY <2>16, <2>e, <2>s DEF SessionExpires, CardsExpire
  <2>17. ASSUME NEW c \in ConfirmCards, CardExpires(c) PROVE OneBooking'
    BY <2>17, <2>e, <2>s DEF CardExpires, CardsExpire
  <2>18. ASSUME UNCHANGED chatVars PROVE OneBooking'
    BY <2>18, <2>e, <2>k DEF chatVars
  <2> QED
    BY <2>1, <2>2, <2>3, <2>4, <2>5, <2>6, <2>7, <2>8, <2>9, <2>10, <2>11, <2>12, <2>13, <2>14, <2>15, <2>16, <2>17, <2>18, ZenonT(60)
       DEF CustomerBotNext
<1> QED
  BY <1>1, <1>2, ChatShapeHolds, PTL DEF CustomerBotSpec

(* What ChoiceInv says of one handler. *)
RowInv(h) ==
    /\ chat[h].pc = "write" /\ chat[h].current => session.state = chat[h].command
    /\ HasReceipt(h) => Chosen(chat[h].arg)
    /\ chat[h].pc \in {"command", "write"} /\ chat[h].command = "AWAITING_RECEIPT" => Ended(chat[h].arg)
    /\ chat[h].pc = "write" /\ chat[h].current /\ chat[h].command = "AWAITING_RECEIPT" => Chosen(chat[h].arg)

LEMMA ChoiceInvHolds == CustomerBotSpec => []ChoiceInv
<1>1. ASSUME CustomerBotInit PROVE ChoiceInv
  <2>1. \A h \in Chat : chat[h] = QuietChat
    BY <1>1 DEF CustomerBotInit
  <2>2. \A h \in Chat : RowInv(h)
    BY <2>1, QuietIsARow DEF RowInv, HasReceipt
  <2>3. session.state = "LANGUAGE"
    BY <1>1 DEF CustomerBotInit, QuietChat
  <2> QED
    BY <2>2, <2>3 DEF ChoiceInv, RowInv, Choosing
<1>2. ASSUME ChatShape, ChatShape', ChoiceInv, [CustomerBotNext]_chatVars PROVE ChoiceInv'
  <2> USE <1>2
  <2>s. session \in Session /\ order \in [Orders -> OrderRow] /\ chat \in [Chat -> ChatRow] /\ \A g \in Chat : Proper(chat[g])
    BY DEF ChatShape
  <2>i. /\ session.state \in Choosing => session.booking = selected
        /\ session.state = "COMPLETE" => Ended(session.booking) \/ session.booking \in crossed
        /\ \A g \in Chat : RowInv(g)
    BY DEF ChoiceInv, RowInv
  <2>d. ASSUME session'.state \in Choosing => session'.booking = selected',
               session'.state = "COMPLETE" => Ended(session.booking)' \/ session'.booking \in crossed',
               \A g \in Chat : RowInv(g)'
        PROVE  ChoiceInv'
    BY <2>d DEF ChoiceInv, RowInv
  <2>q. QuietChat \in ChatRow /\ QuietChat.pc = "idle" /\ Renders \in ChatRow /\ Renders.pc = "render"
    BY QuietIsARow, BareRow DEF Renders
  (* The handlers that do not move. *)
  <2>o. ASSUME NEW h \in Chat, NEW mine \in ChatRow, Moved(h, mine), \A b : Ended(b) => Ended(b)',
               \A b : Chosen(b) => Chosen(b)', session'.state = session.state \/ chat' = Others(h, mine)
        PROVE  chat'[h] = mine /\ \A g \in Chat \ {h} : RowInv(g)'
    <3> ASSUME NEW g \in Chat \ {h} PROVE RowInv(g)'
      <4>1. /\ chat'[g].pc = chat[g].pc /\ chat'[g].command = chat[g].command /\ chat'[g].arg = chat[g].arg
            /\ chat'[g].current => chat[g].current
            /\ chat' = Others(h, mine) => ~chat'[g].current
        BY <2>o, MovedIs
      <4>2. RowInv(g)
        BY <2>i
      <4> QED
        BY <4>1, <4>2, <2>o DEF RowInv, HasReceipt
    <3> QED
      BY <2>o, MovedIs
  <2>c. UNCHANGED <<selected, crossed>> => \A b : Chosen(b) => Chosen(b)'
    BY DEF Chosen
  <2>n. UNCHANGED order => \A b : Ended(b) => Ended(b)'
    BY DEF Ended
  (* A handler that neither holds a command nor a receipt has nothing to say. *)
  <2>z. ASSUME NEW h \in Chat, chat'[h].pc \in {"idle", "render", "back", "book"} PROVE RowInv(h)'
    BY <2>z DEF RowInv, HasReceipt
  (* Steps that leave the session's state, the orders and the choice alone. *)
  <2>m. ASSUME NEW h \in Chat, NEW mine \in ChatRow, Moved(h, mine), UNCHANGED <<session, order, selected, crossed>>,
               RowInv(h)'
        PROVE  ChoiceInv'
    <3>1. \A g \in Chat : RowInv(g)'
      BY <2>m, <2>o, <2>c, <2>n
    <3> QED
      BY <2>m, <3>1, <2>i, <2>d DEF Ended
  <2>p. ASSUME NEW h \in Chat, NEW mine \in ChatRow, Moved(h, mine), UNCHANGED <<session, order, selected, crossed>>,
               mine.pc \in {"idle", "render", "back", "book"}
        PROVE  ChoiceInv'
    BY <2>p, <2>m, <2>z, MovedIs
  (* Steps that write a state which says nothing of a booking. *)
  <2>w. ASSUME NEW h \in Chat, chat' = Others(h, Renders), UNCHANGED <<order, selected, crossed>>,
               session'.state \notin Choosing \cup {"COMPLETE"}
        PROVE  ChoiceInv'
    <3>1. Moved(h, Renders)
      BY <2>w DEF Moved
    <3>2. \A g \in Chat : RowInv(g)'
      BY <2>w, <3>1, <2>o, <2>c, <2>n, <2>z, <2>q
    <3> QED
      BY <2>w, <3>2, <2>d
  <2>1. ASSUME NEW h \in Chat, NEW s \in {"LANGUAGE", "HOME", Steps[1]}, StartOver(h, s) PROVE ChoiceInv'
    <3>1. session'.state = s
      BY <2>1, ReplacedIs, AskedAreStates, QuietIsARow DEF StartOver, Replace
    <3> QED
      BY <2>1, <3>1, <2>w, AskedAreStates DEF StartOver, Replace, OrdersKept, NotSelecting
  <2>2. ASSUME NEW h \in Chat, NEW command \in {"LANGUAGE", "AWAITING_PAYMENT"} \cup Asked, Choose(h, command) PROVE ChoiceInv'
    <3> DEFINE mine == [QuietChat EXCEPT !.pc = "write", !.current = TRUE, !.command = command, !.arg = 0]
    <3>1. mine \in ChatRow /\ mine.pc = "write" /\ mine.command = command
      <4>1. command \in SessionStates
        BY AskedAreStates, CommandsAre
      <4> QED
        BY <4>1, QuietIsARow DEF ChatRow
    <3>2. Moved(h, mine) /\ UNCHANGED <<session, order, selected, crossed>> /\ session.state = command
      BY <2>2 DEF Choose, ReadSession, Becomes, Moved, OrdersKept, NotSelecting
    <3>3. command # "AWAITING_RECEIPT"
      BY CommandsAre
    <3> HIDE DEF mine
    <3>4. chat'[h] = mine
      BY <3>1, <3>2, MovedIs
    <3>5. RowInv(h)'
      BY <3>1, <3>2, <3>3, <3>4 DEF RowInv, HasReceipt
    <3> QED
      BY <3>1, <3>2, <3>5, <2>m
  <2>3. ASSUME NEW h \in Chat, NEW from \in Backward, ReadBack(h, from) PROVE ChoiceInv'
    <3> DEFINE mine == [QuietChat EXCEPT !.pc = "back", !.command = Before(from), !.read = session]
    <3>1. mine \in ChatRow /\ mine.pc = "back"
      <4>1. Before(from) \in SessionStates
        BY AskedAreStates
      <4> QED
        BY <4>1, <2>s, QuietIsARow DEF ChatRow
    <3>2. Moved(h, mine) /\ UNCHANGED <<session, order, selected, crossed>>
      BY <2>3 DEF ReadBack, Becomes, Moved, OrdersKept, NotSelecting
    <3> HIDE DEF mine
    <3> QED
      BY <3>1, <3>2, <2>p
  <2>4. ASSUME NEW h \in Chat, CommandAfterEffect(h) PROVE ChoiceInv'
    <3> DEFINE mine == [QuietChat EXCEPT !.pc = "write", !.current = TRUE, !.command = chat[h].command, !.arg = chat[h].arg]
    <3>0. chat[h] \in ChatRow /\ chat[h].pc = "command" /\ Proper(chat[h]) /\ RowInv(h)
      BY <2>4, <2>s, <2>i DEF CommandAfterEffect
    <3>1. mine \in ChatRow /\ mine.pc = "write" /\ mine.command = chat[h].command /\ mine.arg = chat[h].arg
      <4>1. chat[h].command \in SessionStates /\ chat[h].arg \in Orders \cup ConfirmCards \cup {0}
        BY <3>0, AskedAreStates DEF Proper, ChatRow
      <4> QED
        BY <4>1, QuietIsARow DEF ChatRow
    <3>2. UNCHANGED <<session, order, selected, crossed>>
      BY <2>4 DEF CommandAfterEffect, OrdersKept, NotSelecting
    <3>3. \/ Moved(h, mine) /\ session.state = chat[h].command
          \/ Moved(h, QuietChat)
      BY <2>4 DEF CommandAfterEffect, ReadSession, Becomes, Moved
    <3> HIDE DEF mine
    <3>4. CASE Moved(h, mine) /\ session.state = chat[h].command
      <4>1. chat'[h] = mine
        BY <3>1, <3>4, MovedIs
      <4>p. PICK a : a = chat[h].arg
        OBVIOUS
      <4>2. chat[h].command = "AWAITING_RECEIPT" => Ended(a)' /\ Chosen(a)'
        BY <3>0, <3>2, <4>p, <2>c, <2>n DEF RowInv, HasReceipt
      <4>3. RowInv(h)'
        BY <3>1, <3>2, <3>4, <4>p, <4>1, <4>2 DEF RowInv, HasReceipt
      <4> QED
        BY <3>1, <3>2, <3>4, <4>3, <2>m
    <3>5. CASE Moved(h, QuietChat)
      BY <3>2, <3>5, <2>p, <2>q
    <3> QED
      BY <3>3, <3>4, <3>5
  <2>5. ASSUME NEW h \in Chat, WriteSession(h) PROVE ChoiceInv'
    <3>0. chat[h].pc = "write" /\ Proper(chat[h]) /\ RowInv(h) /\ UNCHANGED order
      BY <2>5, <2>s, <2>i DEF WriteSession, OrdersKept
    <3>1. CASE ~chat[h].current
      <4>1. Moved(h, QuietChat) /\ UNCHANGED <<session, selected, crossed>>
        BY <2>5, <3>1 DEF WriteSession, Becomes, Moved, NotSelecting
      <4> QED
        BY <3>0, <4>1, <2>p, <2>q
    <3>2. CASE chat[h].current
      <4> DEFINE command == chat[h].command
                 arg == chat[h].arg
      <4>1. /\ command \in ChatCommands /\ (command = "CONFIRM" => arg \in Orders) /\ session.state = command
        BY <3>0, <3>2 DEF Proper, RowInv
      <4>2. /\ session' = Transition(command, arg) /\ chat' = Others(h, Renders)
            /\ IF command = "CONFIRM" THEN Selects(h, arg) ELSE NotSelecting
        BY <2>5, <3>2 DEF WriteSession
      <4>3. /\ session'.state = After(command)
            /\ session'.booking = IF command = "CONFIRM" THEN arg ELSE session.booking
        BY <4>1, <4>2, <2>s, TransitionIs
      <4>4. Moved(h, Renders)
        BY <4>2 DEF Moved
      <4>5. chat'[h].pc = "render"
        BY <4>4, MovedIs, <2>q
      <4>6. CASE command = "CONFIRM"
        <5>1. /\ session'.state = "AWAITING_PAYMENT" /\ session'.booking = arg /\ selected' = arg
              /\ crossed' = IF \E g \in Chat \ {h} : HasReceipt(g) /\ chat[g].arg # arg THEN crossed \cup {arg} ELSE crossed
          BY <4>2, <4>3, <4>6, TheSteps DEF Selects
        <5>2. ASSUME NEW g \in Chat \ {h} PROVE RowInv(g)'
          <6>1. /\ chat'[g].pc = chat[g].pc /\ chat'[g].command = chat[g].command /\ chat'[g].arg = chat[g].arg
                /\ ~chat'[g].current
            BY <4>2, <4>4, <2>q, MovedIs
          <6>2. HasReceipt(g) => Chosen(chat[g].arg)'
            BY <5>1, <6>1 DEF Chosen
          <6> QED
            BY <6>1, <6>2, <2>i, <2>n, <3>0 DEF RowInv, HasReceipt
        <5>3. RowInv(h)'
          BY <4>5, <2>z
        <5>4. session'.state # "COMPLETE"
          BY <5>1
        <5> HIDE DEF command, arg
        <5> QED
          BY <5>1, <5>2, <5>3, <5>4, <2>d
      <4>7. CASE command = "AWAITING_PAYMENT"
        <5>1. /\ session'.state = "AWAITING_RECEIPT" /\ session'.booking = session.booking
              /\ UNCHANGED <<selected, crossed>>
          BY <4>2, <4>3, <4>7, TheSteps DEF NotSelecting
        <5>2. session.booking = selected
          BY <4>1, <4>7, <2>i DEF Choosing
        <5>3. \A g \in Chat : RowInv(g)'
          BY <3>0, <4>2, <4>4, <4>5, <5>1, <2>o, <2>c, <2>n, <2>z, <2>q
        <5> HIDE DEF command, arg
        <5> QED
          BY <5>1, <5>2, <5>3, <2>d
      <4>8. CASE command = "AWAITING_RECEIPT"
        <5>1. /\ session'.state = "COMPLETE" /\ session'.booking = session.booking
              /\ UNCHANGED <<selected, crossed>>
          BY <4>2, <4>3, <4>8, TheSteps DEF NotSelecting
        <5>2. session.booking = selected
          BY <4>1, <4>8, <2>i DEF Choosing
        <5>3. Ended(arg) /\ Chosen(arg)
          BY <3>0, <3>2, <4>8 DEF RowInv
        <5>4. Ended(selected) \/ selected \in crossed
          BY <5>3 DEF Chosen
        <5>5. Ended(session.booking)' \/ session'.booking \in crossed'
          BY <3>0, <5>1, <5>2, <5>4 DEF Ended
        <5>6. \A g \in Chat : RowInv(g)'
          BY <3>0, <4>2, <4>4, <4>5, <5>1, <2>o, <2>c, <2>n, <2>z, <2>q
        <5>7. session'.state \notin Choosing
          BY <5>1 DEF Choosing
        <5> HIDE DEF command, arg
        <5> QED
          BY <5>5, <5>6, <5>7, <2>d
      <4>9. CASE command \notin Choosing \cup {"CONFIRM"}
        <5>1. session'.state \notin Choosing \cup {"COMPLETE"}
          BY <4>1, <4>3, <4>9, AskedAreStates
        <5>2. UNCHANGED <<selected, crossed>>
          BY <4>2, <4>9 DEF NotSelecting
        <5> QED
          BY <3>0, <4>2, <5>1, <5>2, <2>w
      <4> QED
        BY <4>6, <4>7, <4>8, <4>9 DEF Choosing
    <3> QED
      BY <3>1, <3>2
  <2>6. ASSUME NEW h \in Chat, WriteBack(h) PROVE ChoiceInv'
    <3>1. chat[h].command \in Asked \cup {"HOME"} /\ chat[h].read \in Session
      BY <2>6, <2>s DEF WriteBack, Proper, ChatRow
    <3>2. session'.state = chat[h].command
      BY <2>6, <3>1, ReplacedIs, AskedAreStates DEF WriteBack, Replace
    <3>3. session'.state \notin Choosing \cup {"COMPLETE"}
      BY <3>1, <3>2, CommandsAre DEF Choosing
    <3> QED
      BY <2>6, <3>3, <2>w DEF WriteBack, Replace, OrdersKept, NotSelecting
  <2>7. ASSUME NEW h \in Chat, Render(h) PROVE ChoiceInv'
    BY <2>7, <2>p, <2>q DEF Render, Becomes, Moved, NotSelecting
  <2>8. ASSUME NEW h \in Chat, NEW c \in ConfirmCards, TapConfirm(h, c) PROVE ChoiceInv'
    <3> DEFINE mine == [QuietChat EXCEPT !.pc = "book", !.arg = c]
    <3>1. mine \in ChatRow /\ mine.pc = "book"
      BY QuietIsARow DEF ChatRow
    <3>2. Moved(h, mine) /\ UNCHANGED <<session, order, selected, crossed>>
      BY <2>8 DEF TapConfirm, Becomes, Moved, NotSelecting
    <3> HIDE DEF mine
    <3> QED
      BY <3>1, <3>2, <2>p
  <2>9. ASSUME NEW h \in Chat, NEW b \in Orders, BookSession(h, b) PROVE ChoiceInv'
    <3> DEFINE mine == [QuietChat EXCEPT !.pc = "command", !.command = "CONFIRM", !.arg = b]
    <3>0. order[b].status = "NONE" /\ UNCHANGED <<selected, crossed>>
      BY <2>9 DEF BookSession, NotSelecting
    <3>1. /\ \/ order' = [order EXCEPT ![b] = [status |-> "PENDING_PAYMENT", due |-> TRUE]]
             \/ order' = [order EXCEPT ![b] = [status |-> "CONFIRMED", due |-> FALSE]]
      BY <2>9 DEF BookSession
    <3>2. \A d : Ended(d) => Ended(d)'
      BY <3>0, <3>1, <2>s DEF Ended
    <3>3. CASE UNCHANGED session /\ chat' = [chat EXCEPT ![h] = mine]
      <4>1. mine \in ChatRow /\ mine.pc = "command" /\ mine.command = "CONFIRM"
        <5>1. "CONFIRM" \in SessionStates
          BY DEF SessionStates
        <5> QED
          BY <5>1, QuietIsARow DEF ChatRow
      <4>2. Moved(h, mine)
        BY <3>3 DEF Moved
      <4> HIDE DEF mine
      <4>3. chat'[h] = mine
        BY <4>1, <4>2, MovedIs
      <4>4. RowInv(h)'
        BY <4>1, <4>3 DEF RowInv, HasReceipt
      <4>5. \A g \in Chat : RowInv(g)'
        BY <3>0, <3>2, <3>3, <4>1, <4>2, <4>4, <2>o, <2>c
      <4> QED
        BY <3>0, <3>2, <3>3, <4>5, <2>i, <2>d
    <3>4. CASE /\ session' = [[session EXCEPT !.booking = b] EXCEPT !.state = "COMPLETE", !.live = TRUE]
               /\ chat' = Others(h, Renders) /\ order' = [order EXCEPT ![b] = [status |-> "CONFIRMED", due |-> FALSE]]
      <4>1. [session EXCEPT !.booking = b] \in Session /\ [session EXCEPT !.booking = b].booking = b
        BY <2>s DEF Session
      <4>2. session'.state = "COMPLETE" /\ session'.booking = b
        BY <3>4, <4>1, ReplacedIs DEF SessionStates
      <4>3. Ended(session.booking)'
        BY <3>4, <4>2, <2>s DEF Ended
      <4>4. Moved(h, Renders)
        BY <3>4 DEF Moved
      <4>5. \A g \in Chat : RowInv(g)'
        BY <3>0, <3>2, <3>4, <4>4, <2>o, <2>c, <2>z, <2>q
      <4>6. session'.state \notin Choosing
        BY <4>2 DEF Choosing
      <4> QED
        BY <4>3, <4>5, <4>6, <2>d
    <3> QED
      BY <2>9, <3>3, <3>4 DEF BookSession, Becomes, Replace
  <2>10. ASSUME NEW h \in Chat, NEW b \in Orders, SelectPayment(h, b) PROVE ChoiceInv'
    <3>1. [QuietChat.read EXCEPT !.booking = b] \in Session /\ [QuietChat.read EXCEPT !.booking = b].booking = b
      BY QuietIsARow DEF Session
    <3>2. session'.state = "AWAITING_PAYMENT" /\ session'.booking = b
      BY <2>10, <3>1, ReplacedIs DEF SelectPayment, Replace, SessionStates
    <3>3. /\ chat' = Others(h, Renders) /\ UNCHANGED order /\ selected' = b
          /\ crossed' = IF \E g \in Chat \ {h} : HasReceipt(g) /\ chat[g].arg # b THEN crossed \cup {b} ELSE crossed
      BY <2>10 DEF SelectPayment, Replace, Selects, OrdersKept
    <3>4. Moved(h, Renders)
      BY <3>3 DEF Moved
    <3>5. ASSUME NEW g \in Chat \ {h} PROVE RowInv(g)'
      <4>1. /\ chat'[g].pc = chat[g].pc /\ chat'[g].command = chat[g].command /\ chat'[g].arg = chat[g].arg
            /\ ~chat'[g].current
        BY <3>3, <3>4, <2>q, MovedIs
      <4>2. HasReceipt(g) => Chosen(chat[g].arg)'
        BY <3>3, <4>1 DEF Chosen
      <4> QED
        BY <4>1, <4>2, <2>i, <2>n, <3>3 DEF RowInv, HasReceipt
    <3>6. RowInv(h)'
      BY <3>4, <2>z, <2>q, MovedIs
    <3> QED
      BY <3>2, <3>3, <3>5, <3>6, <2>d
  <2>11. ASSUME NEW h \in Chat, RefuseBooking(h) PROVE ChoiceInv'
    BY <2>11, <2>p, <2>q DEF RefuseBooking, Becomes, Moved, OrdersKept, NotSelecting
  <2>12. ASSUME NEW h \in Chat, SendPhoto(h) PROVE ChoiceInv'
    <3> DEFINE mine == [QuietChat EXCEPT !.pc = "receipt", !.arg = session.booking]
    <3>1. mine \in ChatRow /\ mine.pc = "receipt" /\ mine.arg = session.booking
      <4>1. session.booking \in Orders \cup {0}
        BY CommandsAre, <2>s DEF Session
      <4> QED
        BY <4>1, QuietIsARow DEF ChatRow
    <3>2. Moved(h, mine) /\ UNCHANGED <<session, order, selected, crossed>> /\ session.state = "AWAITING_RECEIPT"
      BY <2>12 DEF SendPhoto, Becomes, Moved, OrdersKept, NotSelecting
    <3> HIDE DEF mine
    <3>3. chat'[h] = mine
      BY <3>1, <3>2, MovedIs
    <3>4. session.booking = selected
      BY <3>2, <2>i DEF Choosing
    <3>5. RowInv(h)'
      BY <3>1, <3>2, <3>3, <3>4 DEF RowInv, HasReceipt, Chosen
    <3> QED
      BY <3>1, <3>2, <3>5, <2>m
  <2>13. ASSUME NEW h \in Chat, ReadReceipt(h) PROVE ChoiceInv'
    <3> DEFINE mine == [QuietChat EXCEPT !.pc = "command", !.command = "AWAITING_RECEIPT", !.arg = chat[h].arg]
    <3>b. PICK b : b = chat[h].arg
      OBVIOUS
    <3>0. chat[h].pc = "receipt" /\ Proper(chat[h]) /\ RowInv(h) /\ UNCHANGED <<session, selected, crossed>>
      BY <2>13, <2>s, <2>i DEF ReadReceipt, NotSelecting
    <3>1. mine \in ChatRow /\ mine.pc = "command" /\ mine.command = "AWAITING_RECEIPT" /\ mine.arg = b
      <4>1. "AWAITING_RECEIPT" \in SessionStates /\ chat[h].arg \in Orders \cup ConfirmCards \cup {0}
        BY <2>s DEF SessionStates, ChatRow
      <4> QED
        BY <4>1, <3>b, QuietIsARow DEF ChatRow
    <3>2. UNCHANGED order \/ order' = [order EXCEPT ![b].status = "CONFIRMED"]
      BY <2>13, <3>b DEF ReadReceipt
    <3>3. \A d : Ended(d) => Ended(d)'
      BY <3>2, <2>s DEF Ended, OrderRow
    <3>4. \/ Moved(h, mine) /\ order'[b].status = "CONFIRMED" /\ b # NoOrder
          \/ Moved(h, QuietChat)
      BY <2>13, <3>b DEF ReadReceipt, EndsConversation, Becomes, Moved
    <3>5. /\ session'.state \in Choosing => session'.booking = selected'
          /\ session'.state = "COMPLETE" => Ended(session.booking)' \/ session'.booking \in crossed'
      BY <3>0, <3>3, <2>i
    <3> HIDE DEF mine
    <3>6. CASE Moved(h, mine) /\ order'[b].status = "CONFIRMED" /\ b # NoOrder
      <4>1. chat'[h] = mine
        BY <3>1, <3>6, MovedIs
      <4>2. Ended(b)'
        BY <3>0, <3>b, <3>6 DEF Ended, Proper
      <4>3. Chosen(b)'
        BY <3>0, <3>b, <2>c DEF RowInv, HasReceipt
      <4>4. RowInv(h)'
        BY <3>1, <4>1, <4>2, <4>3 DEF RowInv, HasReceipt
      <4>5. \A g \in Chat : RowInv(g)'
        BY <3>0, <3>1, <3>3, <3>6, <4>4, <2>o, <2>c
      <4> QED
        BY <3>5, <4>5, <2>d
    <3>7. CASE Moved(h, QuietChat)
      <4>1. \A g \in Chat : RowInv(g)'
        BY <3>0, <3>3, <3>7, <2>o, <2>c, <2>z, <2>q
      <4> QED
        BY <3>5, <4>1, <2>d
    <3> QED
      BY <3>4, <3>6, <3>7
  <2>14. ASSUME NEW h \in Chat, ChatDies(h) PROVE ChoiceInv'
    BY <2>14, <2>p, <2>q DEF ChatDies, Becomes, Moved, OrdersKept, NotSelecting
  (* Steps of nobody's handler. *)
  <2>x. ASSUME UNCHANGED <<chat, selected, crossed>>, session'.state = session.state, session'.booking = session.booking,
               \A d : Ended(d) => Ended(d)'
        PROVE  ChoiceInv'
    <3>1. ASSUME NEW g \in Chat PROVE RowInv(g)'
      BY <2>x, <2>i, <2>c DEF RowInv, HasReceipt
    <3> QED
      BY <2>x, <3>1, <2>i, <2>d
  <2>15. ASSUME NEW b \in Orders, NEW status \in {"CANCELLED", "EXPIRED"}, EndOrder(b, status) PROVE ChoiceInv'
    <3>1. /\ order' = [order EXCEPT ![b].status = status]
          /\ status = "EXPIRED" => order[b].status = "PENDING_PAYMENT"
          /\ UNCHANGED <<session, chat, selected, crossed>>
      BY <2>15 DEF EndOrder, NotSelecting
    <3>2. \A d : Ended(d) => Ended(d)'
      BY <3>1, <2>s DEF Ended, OrderRow
    <3> QED
      BY <3>1, <3>2, <2>x
  <2>16. ASSUME SessionExpires PROVE ChoiceInv'
    <3>1. session'.state = session.state /\ session'.booking = session.booking
      BY <2>16, <2>s DEF SessionExpires, Session
    <3> QED
      BY <2>16, <3>1, <2>x, <2>n DEF SessionExpires, NotSelecting
  <2>17. ASSUME NEW c \in ConfirmCards, CardExpires(c) PROVE ChoiceInv'
    BY <2>17, <2>x, <2>n DEF CardExpires, NotSelecting
  <2>18. ASSUME UNCHANGED chatVars PROVE ChoiceInv'
    BY <2>18, <2>x, <2>n DEF chatVars
  <2> QED
    BY <2>1, <2>2, <2>3, <2>4, <2>5, <2>6, <2>7, <2>8, <2>9, <2>10, <2>11, <2>12, <2>13, <2>14, <2>15, <2>16, <2>17, <2>18, ZenonT(60)
       DEF CustomerBotNext
<1> QED
  BY <1>1, <1>2, ChatShapeHolds, PTL DEF CustomerBotSpec

(* A booking is made at most once by a card, a receipt goes to the booking  *)
(* chosen last, and a conversation that says it is complete is about a      *)
(* booking that was confirmed, or one chosen while a receipt was being read *)
(* - for any number of bookings, cards and handlers, and any steps.         *)
THEOREM ChatServesOneBooking == CustomerBotSpec => []ChatKeepsItsChoice
<1>1. ASSUME ChatShape, OneBooking, ChoiceInv PROVE ChatKeepsItsChoice
  BY <1>1 DEF ChatShape, OneBooking, ChoiceInv, ChatKeepsItsChoice, Choosing, Ended
<1> QED
  BY <1>1, ChatShapeHolds, OneBookingHolds, ChoiceInvHolds, PTL

-----------------------------------------------------------------------------
(***************************************************************************)
(* TelegramSetup.  A key is drawn for one bot: whatever carries it - a row, *)
(* a request on its way, a webhook - names that bot.  And a handler that    *)
(* connects a bot finds its row gone, or still its own, unless somebody     *)
(* overtook it.                                                             *)
(***************************************************************************)
HandRow == [pc : Phases, salon : Salons, bot : Bots \cup {NoBot},
            row : Keys \cup {Nothing}, key : Keys \cup {Nothing},
            previous : Bots \cup {NoBot}, intent : Intents \cup {Nothing}]
IntentRow == [state : {"none", "PENDING", "PROCESSING", "COMPLETED", "EXPIRED"},
              salon : Salons, bot : Bots \cup {NoBot}]
Connecting == {"connectHook", "connectSave", "connectDrop"}
Claiming == {"look", "complete"}
WithRow == {"connectHook", "connectSave", "connectDrop", "rotateHook", "rotateSave", "rotateClean",
            "unhook", "disconnectSave", "retryHook", "retrySave"}

Handed(r) ==
    /\ r.pc \in WithRow => r.row \in Keys
    /\ r.pc \in {"rotateHook", "rotateSave"} => r.bot \in Bots /\ r.key \in Keys
    /\ r.pc \in {"look", "complete", "tell", "fail"} => r.intent \in Intents

SetupShape ==
    /\ rows \in [Keys -> Row]
    /\ webhook \in [Bots -> Keys \cup {Nothing}] /\ drawn \in Keys \cup {Nothing}
    /\ intents \in [Intents -> IntentRow]
    /\ hands \in [Hands -> HandRow]
    /\ \A h \in Hands : Handed(hands[h])

(* A row, a request or a webhook has key k for bot b. *)
Carries(k, b) == \/ \E r \in Keys : rows[r].key = k /\ rows[r].bot = b
                 \/ \E h \in Hands : hands[h].key = k /\ hands[h].bot = b
                 \/ b \in Bots /\ webhook[b] = k

OneBotPerKey ==
    \A k \in Keys, b, c \in Bots \cup {NoBot} :
       /\ Carries(k, b) => k <= drawn
       /\ Carries(k, b) /\ Carries(k, c) => b = c

Was(s, b) == <<s, b>> \in everActive

OwnRow(h) == LET row == rows[hands[h].row] IN
    \/ row.state = "none"
    \/ row.state = "PENDING" /\ row.salon = hands[h].salon /\ row.bot = hands[h].bot
    \/ Was(hands[h].salon, hands[h].bot)

ClosedRightly ==
    /\ \A r \in Keys : rows[r].state # "none" => r <= drawn
    /\ \A r \in Keys : rows[r].state = "ACTIVE" => Was(rows[r].salon, rows[r].bot)
    /\ \A i \in Intents : intents[i].state = "COMPLETED" => Was(intents[i].salon, intents[i].bot)
    /\ \A h \in Hands :
         /\ hands[h].intent # Nothing => /\ intents[hands[h].intent].state # "none"
                                         /\ intents[hands[h].intent].salon = hands[h].salon
         /\ hands[h].pc \in Connecting => hands[h].row <= drawn /\ OwnRow(h)
         /\ hands[h].pc = "complete" => Was(hands[h].salon, hands[h].bot)

LEMMA LatestIsOne == ASSUME NEW S \in SUBSET Intents, S # {} PROVE Latest(S) \in S
<1>1. PICK n \in Intents \cup {0} : Intents = 1 .. n
  BY TelegramSetupAssumption
<1>n. \A i \in S : i \in 1 .. n
  BY <1>1
<1> DEFINE T == {n - i : i \in S}
<1>t. \A i \in S : n - i \in T
  OBVIOUS
<1>u. \A y \in T : \E i \in S : y = n - i
  OBVIOUS
<1>2. T \subseteq Nat /\ T # {}
  <2> HIDE DEF T
  <2>1. ASSUME NEW y \in T PROVE y \in Nat
    <3>1. PICK i \in S : y = n - i
      BY <1>u
    <3>2. i \in 1 .. n
      BY <1>n
    <3> QED
      BY <3>1, <3>2
  <2> QED
    BY <2>1, <1>t
<1>3. PICK x \in T : \A y \in T : ~(<<y, x>> \in OpToRel(<, Nat))
  <2> HIDE DEF T
  <2> QED
    BY <1>2, NatLessThanWellFounded, WFMin
<1>4. \A y \in T : ~(y < x)
  BY <1>2, <1>3 DEF OpToRel
<1>5. PICK i \in S : x = n - i
  BY <1>3
<1>6. ASSUME NEW j \in S PROVE j <= i
  <2>1. n - j \in T /\ i \in 1 .. n /\ j \in 1 .. n
    BY <1>n, <1>t
  <2> HIDE DEF T
  <2>2. ~(n - j < n - i)
    BY <2>1, <1>4, <1>5
  <2> QED
    BY <2>1, <2>2
<1> QED
  BY <1>5, <1>6 DEF Latest

SetupInv == SetupShape /\ OneBotPerKey /\ ClosedRightly

LEMMA SetupNumbers == /\ drawn \in Keys \cup {Nothing} => drawn \in Nat
                      /\ Nothing \notin Keys /\ Nothing \notin Intents /\ \A k \in Keys : k \in Nat
<1>1. PICK n \in Intents \cup {0} : Intents = 1 .. n
  BY TelegramSetupAssumption
<1>2. 0 \notin Intents
  BY <1>1
<1>3. \A k \in Keys : k \in Nat /\ k # 0
  BY TelegramSetupAssumption
<1> QED
  BY <1>2, <1>3 DEF Nothing

LEMMA IdleHandIs == IdleHand \in HandRow /\ IdleHand.pc = "idle" /\ IdleHand.key = Nothing /\ IdleHand.intent = Nothing
<1>1. SomeSalon \in Salons
  BY TelegramSetupAssumption DEF SomeSalon
<1> QED
  BY <1>1 DEF IdleHand, HandRow, Phases

LEMMA NoIntegrationIs == NoIntegration \in Row /\ NoIntegration.state = "none" /\ NoIntegration.key = Nothing
<1>1. SomeSalon \in Salons
  BY TelegramSetupAssumption DEF SomeSalon
<1> QED
  BY <1>1 DEF NoIntegration, Row

(* What one request may do to rows, keys and intents without breaking what  *)
(* the others count on.                                                     *)
LEMMA OthersKeep ==
  ASSUME SetupInv, NEW h \in Hands, NEW fresh \in Bots \cup {NoBot},
         rows' \in [Keys -> Row], webhook' \in [Bots -> Keys \cup {Nothing}], drawn' \in Keys \cup {Nothing},
         intents' \in [Intents -> IntentRow], hands' \in [Hands -> HandRow],
         \A g \in Hands \ {h} : hands'[g] = hands[g],
         Handed(hands[h])',
         drawn' \in {drawn, drawn + 1},
         \A k \in Keys, b \in Bots \cup {NoBot} :
            Carries(k, b)' => Carries(k, b) \/ (drawn' = drawn + 1 /\ k = drawn' /\ b = fresh),
         everActive \subseteq everActive',
         \A r \in Keys : \/ rows'[r] = rows[r]
                         \/ r = drawn + 1 /\ drawn' = drawn + 1 /\ rows'[r].state = "PENDING"
                         \/ /\ rows'[r].state # "none" => rows[r].state # "none" /\ Overtaken(r) \subseteq everActive'
                            /\ rows'[r].state = "ACTIVE" => <<rows'[r].salon, rows'[r].bot>> \in everActive',
         \A i \in Intents : \/ intents'[i] = intents[i]
                            \/ /\ intents'[i].state # "none" /\ intents'[i].salon = intents[i].salon
                               /\ intents'[i].state = "COMPLETED" => <<intents'[i].salon, intents'[i].bot>> \in everActive',
         hands'[h].intent # Nothing => /\ intents'[hands'[h].intent].state # "none"
                                       /\ intents'[hands'[h].intent].salon = hands'[h].salon,
         hands'[h].pc \in Connecting => hands'[h].row <= drawn' /\ OwnRow(h)',
         hands'[h].pc = "complete" => Was(hands[h].salon, hands[h].bot)'
  PROVE  SetupInv'
<1> USE DEF SetupInv
<1>n. drawn \in Nat /\ drawn' \in Nat /\ drawn <= drawn' /\ Nothing \notin Keys /\ Nothing \notin Intents /\ \A k \in Keys : k \in Nat
  <2>1. drawn \in Keys \cup {Nothing} /\ (\A k \in Keys : k \in Nat) /\ Nothing = 0
    BY SetupNumbers DEF SetupShape, Nothing
  <2>2. drawn \in Nat /\ drawn' \in Nat
    BY <2>1
  <2> QED
    BY <2>2, SetupNumbers
<1>s. /\ rows \in [Keys -> Row] /\ hands \in [Hands -> HandRow] /\ intents \in [Intents -> IntentRow]
      /\ \A g \in Hands : Handed(hands[g])
  BY DEF SetupShape
<1>1. SetupShape'
  <2>1. ASSUME NEW g \in Hands \ {h} PROVE Handed(hands[g])'
    BY <2>1, <1>s DEF Handed
  <2> QED
    BY <2>1 DEF SetupShape
<1>2. OneBotPerKey'
  <2>1. \A b \in Bots \cup {NoBot} : drawn + 1 \in Keys => ~Carries(drawn + 1, b)
    BY <1>n DEF OneBotPerKey
  <2>2. ASSUME NEW k \in Keys, NEW b \in Bots \cup {NoBot}, NEW c \in Bots \cup {NoBot}, Carries(k, b)'
        PROVE  k <= drawn' /\ (Carries(k, c)' => b = c)
    <3>1. CASE Carries(k, b)
      <4>1. k <= drawn /\ (Carries(k, c) => b = c)
        BY <3>1 DEF OneBotPerKey
      <4>2. Carries(k, c)' => Carries(k, c)
        BY <4>1, <1>n
      <4> QED
        BY <4>1, <4>2, <1>n
    <3>2. CASE drawn' = drawn + 1 /\ k = drawn' /\ b = fresh
      <4>1. Carries(k, c)' => c = fresh
        BY <3>2, <2>1
      <4> QED
        BY <3>2, <4>1, <1>n
    <3> QED
      BY <2>2, <3>1, <3>2
  <2> QED
    BY <2>2 DEF OneBotPerKey
<1>3. ClosedRightly'
  <2>1. \A r \in Keys : rows'[r].state # "none" => r <= drawn'
    <3>1. \A r \in Keys : rows[r].state # "none" => r <= drawn
      BY DEF ClosedRightly
    <3>2. ASSUME NEW r \in Keys, rows'[r].state # "none" PROVE r <= drawn \/ r <= drawn'
      <4>1. rows[r].state # "none" \/ r = drawn'
        BY <3>2
      <4> QED
        BY <4>1, <3>1, <1>n
    <3> QED
      BY <3>2, <1>n
  <2>2. \A r \in Keys : rows'[r].state = "ACTIVE" => <<rows'[r].salon, rows'[r].bot>> \in everActive'
    BY DEF ClosedRightly, Was
  <2>3. \A i \in Intents : intents'[i].state = "COMPLETED" => <<intents'[i].salon, intents'[i].bot>> \in everActive'
    BY DEF ClosedRightly, Was
  <2>4. ASSUME NEW g \in Hands \ {h}, hands[g].intent # Nothing
        PROVE  intents'[hands[g].intent].state # "none" /\ intents'[hands[g].intent].salon = hands[g].salon
    <3>1. hands[g].intent \in Intents
      BY <2>4, <1>s DEF HandRow
    <3> QED
      BY <2>4, <3>1 DEF ClosedRightly
  <2>5. ASSUME NEW g \in Hands \ {h}, hands[g].pc \in Connecting PROVE hands[g].row <= drawn' /\ OwnRow(g)'
    <3>1. hands[g].row <= drawn /\ OwnRow(g)
      BY <2>5 DEF ClosedRightly
    <3>2. hands[g].row \in Keys
      BY <2>5, <1>s DEF Handed, WithRow, Connecting
    <3>r. hands[g].row \in Nat /\ hands[g].row # drawn + 1
      <4>1. hands[g].row \in Nat /\ hands[g].row <= drawn
        BY <3>1, <3>2, <1>n
      <4>2. drawn \in Nat
        BY <1>n
      <4> QED
        BY <4>1, <4>2
    <3>3. Overtaken(hands[g].row) \subseteq everActive' \/ rows'[hands[g].row] = rows[hands[g].row]
            \/ rows'[hands[g].row].state = "none"
      BY <3>2, <3>r
    <3>4. OwnRow(g)'
      <4>1. hands'[g] = hands[g] /\ everActive \subseteq everActive'
        OBVIOUS
      <4>2. CASE rows[hands[g].row].state = "PENDING" /\ <<hands[g].salon, hands[g].bot>> \notin everActive
        BY <3>1, <3>3, <4>1, <4>2 DEF OwnRow, Was, Overtaken
      <4>3. CASE <<hands[g].salon, hands[g].bot>> \in everActive
        BY <4>1, <4>3 DEF OwnRow, Was
      <4>4. CASE rows[hands[g].row].state = "none"
        <5>1. rows'[hands[g].row].state = "none"
          BY <3>2, <4>4, <3>r
        <5> QED
          BY <4>1, <5>1 DEF OwnRow
      <4> QED
        BY <3>1, <4>2, <4>3, <4>4 DEF OwnRow, Was
    <3> QED
      <4>1. hands[g].row \in Nat /\ hands[g].row <= drawn
        BY <3>1, <3>2, <1>n
      <4>2. hands[g].row <= drawn'
        BY <4>1, <1>n
      <4> QED
        BY <3>4, <4>2
  <2>6. \A g \in Hands \ {h} : hands[g].pc = "complete" => <<hands[g].salon, hands[g].bot>> \in everActive'
    BY DEF ClosedRightly, Was
  <2> QED
    BY <2>1, <2>2, <2>3, <2>4, <2>5, <2>6 DEF ClosedRightly, Was
<1> QED
  BY <1>1, <1>2, <1>3

(* A request goes on, in one of ps, or is over. *)
Turned(h, ps) == HandRests(h) \/ \E p \in ps : HandTo(h, p)

LEMMA TurnedIs ==
  ASSUME SetupShape, NEW h \in Hands, NEW ps \in SUBSET Phases, Turned(h, ps)
  PROVE  /\ hands' \in [Hands -> HandRow]
         /\ \A g \in Hands \ {h} : hands'[g] = hands[g]
         /\ \/ hands'[h].pc = "idle" /\ hands'[h].key = Nothing /\ hands'[h].intent = Nothing
            \/ /\ hands'[h].pc \in ps /\ hands'[h].key = hands[h].key /\ hands'[h].bot = hands[h].bot
               /\ hands'[h].row = hands[h].row /\ hands'[h].salon = hands[h].salon
               /\ hands'[h].intent = hands[h].intent
<1>s. hands \in [Hands -> HandRow] /\ hands[h] \in HandRow
  BY DEF SetupShape
<1>1. CASE HandRests(h)
  BY <1>1, <1>s, IdleHandIs DEF HandRests
<1>2. CASE \E p \in ps : HandTo(h, p)
  <2>1. PICK p \in ps : HandTo(h, p)
    BY <1>2
  <2> DEFINE row == [hands[h] EXCEPT !.pc = p]
  <2>2. hands' = [hands EXCEPT ![h] = row]
    BY <2>1 DEF HandTo
  <2>3. /\ row \in HandRow /\ row.pc = p /\ row.key = hands[h].key /\ row.bot = hands[h].bot
        /\ row.row = hands[h].row /\ row.salon = hands[h].salon /\ row.intent = hands[h].intent
    BY <1>s DEF HandRow
  <2> HIDE DEF row
  <2> QED
    BY <2>2, <2>3, <1>s
<1> QED
  BY <1>1, <1>2 DEF Turned

LEMMA TurnKeeps ==
  ASSUME SetupInv, NEW h \in Hands, NEW ps \in SUBSET Phases, Turned(h, ps), UNCHANGED <<drawn, intents>>,
         rows' \in [Keys -> Row], webhook' \in [Bots -> Keys \cup {Nothing}],
         everActive \subseteq everActive',
         \A r \in Keys : \/ rows'[r] = rows[r]
                         \/ /\ rows'[r].state # "none" => rows[r].state # "none" /\ Overtaken(r) \subseteq everActive'
                            /\ rows'[r].state = "ACTIVE" => <<rows'[r].salon, rows'[r].bot>> \in everActive'
                            /\ \/ rows'[r].key = Nothing
                               \/ rows'[r].key = rows[r].key /\ rows'[r].bot = rows[r].bot
                               \/ rows'[r].key = hands[h].key /\ rows'[r].bot = hands[h].bot,
         \A b \in Bots : \/ webhook'[b] \in {webhook[b], Nothing}
                         \/ webhook'[b] = hands[h].key /\ b = hands[h].bot,
         \A p \in ps : /\ p \in WithRow => hands[h].row \in Keys
                       /\ p \in {"rotateHook", "rotateSave"} => hands[h].bot \in Bots /\ hands[h].key \in Keys
                       /\ p \in {"look", "complete", "tell", "fail"} => hands[h].intent \in Intents
                       /\ p \in Connecting => hands[h].pc \in Connecting /\ UNCHANGED rows
                       /\ p = "complete" => <<hands[h].salon, hands[h].bot>> \in everActive'
  PROVE  SetupInv'
<1> USE DEF SetupInv
<1>1. hands' \in [Hands -> HandRow] /\ \A g \in Hands \ {h} : hands'[g] = hands[g]
  BY TurnedIs
<1>2. \/ hands'[h].pc = "idle" /\ hands'[h].key = Nothing /\ hands'[h].intent = Nothing
      \/ /\ hands'[h].pc \in ps /\ hands'[h].key = hands[h].key /\ hands'[h].bot = hands[h].bot
         /\ hands'[h].row = hands[h].row /\ hands'[h].salon = hands[h].salon
         /\ hands'[h].intent = hands[h].intent
  BY TurnedIs
<1>3. Handed(hands[h])'
  <2>1. CASE hands'[h].pc = "idle"
    BY <2>1 DEF Handed, WithRow
  <2>2. CASE hands'[h].pc # "idle"
    BY <2>2, <1>2 DEF Handed
  <2> QED
    BY <2>1, <2>2
<1>4. ASSUME NEW k \in Keys, NEW b \in Bots \cup {NoBot}, Carries(k, b)' PROVE Carries(k, b)
  <2>0. k # Nothing
    BY SetupNumbers
  <2>1. CASE \E r \in Keys : rows'[r].key = k /\ rows'[r].bot = b
    <3>1. PICK r \in Keys : rows'[r].key = k /\ rows'[r].bot = b
      BY <2>1
    <3> QED
      BY <3>1, <2>0 DEF Carries
  <2>2. CASE \E g \in Hands : hands'[g].key = k /\ hands'[g].bot = b
    <3>1. PICK g \in Hands : hands'[g].key = k /\ hands'[g].bot = b
      BY <2>2
    <3> QED
      BY <3>1, <2>0, <1>1, <1>2 DEF Carries
  <2>3. CASE b \in Bots /\ webhook'[b] = k
    BY <2>3, <2>0 DEF Carries
  <2> QED
    BY <1>4, <2>1, <2>2, <2>3 DEF Carries
<1>5. hands'[h].intent # Nothing => /\ intents'[hands'[h].intent].state # "none"
                                    /\ intents'[hands'[h].intent].salon = hands'[h].salon
  BY <1>2 DEF ClosedRightly
<1>6. hands'[h].pc \in Connecting => hands'[h].row <= drawn' /\ OwnRow(h)'
  <2> SUFFICES ASSUME hands'[h].pc \in Connecting PROVE hands'[h].row <= drawn' /\ OwnRow(h)'
    OBVIOUS
  <2>1. /\ hands[h].pc \in Connecting /\ UNCHANGED rows
        /\ hands'[h].row = hands[h].row /\ hands'[h].salon = hands[h].salon /\ hands'[h].bot = hands[h].bot
    BY <1>2 DEF Connecting
  <2>2. hands[h].row <= drawn /\ OwnRow(h)
    BY <2>1 DEF ClosedRightly
  <2> QED
    BY <2>1, <2>2 DEF OwnRow, Was
<1>7. hands'[h].pc = "complete" => Was(hands[h].salon, hands[h].bot)'
  BY <1>2 DEF Was
<1>8. intents' \in [Intents -> IntentRow] /\ drawn' \in Keys \cup {Nothing} /\ drawn' \in {drawn, drawn + 1}
  BY DEF SetupShape
<1>9. NoBot \in Bots \cup {NoBot} /\ \A i \in Intents : intents'[i] = intents[i]
  OBVIOUS
<1>10. \A r \in Keys : \/ rows'[r] = rows[r]
                       \/ /\ rows'[r].state # "none" => rows[r].state # "none" /\ Overtaken(r) \subseteq everActive'
                          /\ rows'[r].state = "ACTIVE" => <<rows'[r].salon, rows'[r].bot>> \in everActive'
  OBVIOUS
<1> HIDE DEF SetupInv
<1> QED
  BY <1>1, <1>3, <1>4, <1>5, <1>6, <1>7, <1>8, <1>9, <1>10, OthersKeep

(* The rows and webhooks stay, or a webhook is set or deleted. *)
LEMMA CallKeeps ==
  ASSUME SetupInv, NEW h \in Hands, NEW ps \in SUBSET Phases, Turned(h, ps), UNCHANGED <<rows, drawn, intents, everActive>>,
         \/ UNCHANGED webhook
         \/ webhook' = [webhook EXCEPT ![hands[h].bot] = hands[h].key]
         \/ \E b : webhook' = [webhook EXCEPT ![b] = Nothing],
         \A p \in ps : /\ p \in WithRow => hands[h].row \in Keys
                       /\ p \in {"rotateHook", "rotateSave"} => hands[h].bot \in Bots /\ hands[h].key \in Keys
                       /\ p \in {"look", "complete", "tell", "fail"} => hands[h].intent \in Intents
                       /\ p \in Connecting => hands[h].pc \in Connecting
                       /\ p # "complete"
  PROVE  SetupInv'
<1>1. webhook \in [Bots -> Keys \cup {Nothing}] /\ rows \in [Keys -> Row] /\ hands[h].key \in Keys \cup {Nothing}
  BY DEF SetupInv, SetupShape, HandRow
<1>2. webhook' \in [Bots -> Keys \cup {Nothing}]
  BY <1>1
<1>3. \A b \in Bots : \/ webhook'[b] \in {webhook[b], Nothing}
                      \/ webhook'[b] = hands[h].key /\ b = hands[h].bot
  BY <1>1
<1>4. everActive \subseteq everActive' /\ rows' \in [Keys -> Row]
  BY <1>1
<1>5. UNCHANGED <<drawn, intents>> /\ UNCHANGED rows
  OBVIOUS
<1>r. \A r \in Keys : \/ rows'[r] = rows[r]
                      \/ /\ rows'[r].state # "none" => rows[r].state # "none" /\ Overtaken(r) \subseteq everActive'
                         /\ rows'[r].state = "ACTIVE" => <<rows'[r].salon, rows'[r].bot>> \in everActive'
                         /\ \/ rows'[r].key = Nothing
                            \/ rows'[r].key = rows[r].key /\ rows'[r].bot = rows[r].bot
                            \/ rows'[r].key = hands[h].key /\ rows'[r].bot = hands[h].bot
  BY <1>5
<1>6. \A p \in ps : /\ p \in WithRow => hands[h].row \in Keys
                    /\ p \in {"rotateHook", "rotateSave"} => hands[h].bot \in Bots /\ hands[h].key \in Keys
                    /\ p \in {"look", "complete", "tell", "fail"} => hands[h].intent \in Intents
                    /\ p \in Connecting => hands[h].pc \in Connecting /\ UNCHANGED rows
                    /\ p = "complete" => <<hands[h].salon, hands[h].bot>> \in everActive'
  BY <1>5
<1> QED
  BY <1>2, <1>3, <1>4, <1>5, <1>r, <1>6, TurnKeeps

LEMMA ConnectHooksKeeps == ASSUME SetupInv, NEW h \in Hands, ConnectHooks(h) PROVE SetupInv'
<1>1. hands[h].pc = "connectHook" /\ hands[h].row \in Keys
  BY DEF ConnectHooks, HandAt, SetupInv, SetupShape, Handed, WithRow
<1>2. Turned(h, {"connectSave", "connectDrop"}) /\ {"connectSave", "connectDrop"} \in SUBSET Phases
  BY DEF ConnectHooks, Turned, Phases
<1> QED
  BY <1>1, <1>2, CallKeeps DEF ConnectHooks, RowsOnlyKept, Connecting

LEMMA RotateHooksKeeps == ASSUME SetupInv, NEW h \in Hands, RotateHooks(h) PROVE SetupInv'
<1>1. hands[h].pc = "rotateHook" /\ hands[h].row \in Keys /\ hands[h].bot \in Bots /\ hands[h].key \in Keys
  BY DEF RotateHooks, HandAt, SetupInv, SetupShape, Handed, WithRow
<1>2. Turned(h, {"rotateSave"}) /\ {"rotateSave"} \in SUBSET Phases
  BY DEF RotateHooks, Turned, Phases
<1> QED
  BY <1>1, <1>2, CallKeeps DEF RotateHooks, RowsOnlyKept, Connecting

LEMMA RotateCleansKeeps == ASSUME SetupInv, NEW h \in Hands, RotateCleans(h) PROVE SetupInv'
<1>1. Turned(h, {}) /\ {} \in SUBSET Phases
  BY DEF RotateCleans, Turned
<1> QED
  BY <1>1, CallKeeps DEF RotateCleans, RowsOnlyKept

LEMMA UnhooksKeeps == ASSUME SetupInv, NEW h \in Hands, Unhooks(h) PROVE SetupInv'
<1>1. hands[h].pc = "unhook" /\ hands[h].row \in Keys
  BY DEF Unhooks, HandAt, SetupInv, SetupShape, Handed, WithRow
<1>2. Turned(h, {"disconnectSave"}) /\ {"disconnectSave"} \in SUBSET Phases
  BY DEF Unhooks, Turned, Phases
<1>3. UNCHANGED webhook \/ \E b : webhook' = [webhook EXCEPT ![b] = Nothing]
  BY DEF Unhooks
<1> QED
  BY <1>1, <1>2, <1>3, CallKeeps DEF Unhooks, RowsOnlyKept, Connecting

LEMMA RetryHooksKeeps == ASSUME SetupInv, NEW h \in Hands, RetryHooks(h) PROVE SetupInv'
<1>1. hands[h].pc = "retryHook" /\ hands[h].row \in Keys
  BY DEF RetryHooks, HandAt, SetupInv, SetupShape, Handed, WithRow
<1>2. Turned(h, {"retrySave"}) /\ {"retrySave"} \in SUBSET Phases
  BY DEF RetryHooks, Turned, Phases
<1> QED
  BY <1>1, <1>2, CallKeeps DEF RetryHooks, RowsOnlyKept, Connecting

LEMMA TellOwnerKeeps == ASSUME SetupInv, NEW h \in Hands, TellOwner(h) PROVE SetupInv'
<1>1. hands[h].pc = "tell" /\ hands[h].intent \in Intents
  BY DEF TellOwner, HandAt, SetupInv, SetupShape, Handed
<1>2. Turned(h, {"fail"}) /\ {"fail"} \in SUBSET Phases
  BY DEF TellOwner, Turned, Phases
<1> QED
  BY <1>1, <1>2, CallKeeps DEF TellOwner, RowsOnlyKept, Connecting, WithRow

LEMMA HandDiesKeeps == ASSUME SetupInv, NEW h \in Hands, HandDies(h) PROVE SetupInv'
<1>1. Turned(h, {}) /\ {} \in SUBSET Phases
  BY DEF HandDies, Turned
<1> QED
  BY <1>1, CallKeeps DEF HandDies, RowsOnlyKept

LEMMA GivesUpTurns ==
  ASSUME SetupInv, NEW h \in Hands, HandGivesUp(h)
  PROVE  /\ hands[h].intent # Nothing => hands[h].intent \in Intents
         /\ Turned(h, IF hands[h].intent = Nothing THEN {} ELSE {"fail"})
BY DEF HandGivesUp, Turned, SetupInv, SetupShape, HandRow

(* A row is deleted, or written anew for the bot of before or of the request. *)
LEMMA WriteKeeps ==
  ASSUME SetupInv, NEW h \in Hands, NEW ps \in SUBSET Phases, Turned(h, ps), UNCHANGED <<webhook, drawn, intents>>,
         hands[h].row \in Keys, NEW row \in Row, rows' = [rows EXCEPT ![hands[h].row] = row],
         everActive \subseteq everActive',
         row.state # "none" => rows[hands[h].row].state # "none" /\ Overtaken(hands[h].row) \subseteq everActive',
         row.state = "ACTIVE" => <<row.salon, row.bot>> \in everActive',
         \/ row.key = Nothing
         \/ row.key = rows[hands[h].row].key /\ row.bot = rows[hands[h].row].bot
         \/ row.key = hands[h].key /\ row.bot = hands[h].bot,
         \A p \in ps : /\ p \notin Connecting \cup {"rotateHook", "rotateSave"}
                       /\ p \in {"look", "complete", "tell", "fail"} => hands[h].intent \in Intents
                       /\ p = "complete" => <<hands[h].salon, hands[h].bot>> \in everActive'
  PROVE  SetupInv'
<1>1. webhook \in [Bots -> Keys \cup {Nothing}] /\ rows \in [Keys -> Row]
  BY DEF SetupInv, SetupShape
<1>2. rows' \in [Keys -> Row] /\ rows'[hands[h].row] = row /\ \A r \in Keys \ {hands[h].row} : rows'[r] = rows[r]
  BY <1>1
<1>3. \A r \in Keys : \/ rows'[r] = rows[r]
                      \/ /\ rows'[r].state # "none" => rows[r].state # "none" /\ Overtaken(r) \subseteq everActive'
                         /\ rows'[r].state = "ACTIVE" => <<rows'[r].salon, rows'[r].bot>> \in everActive'
                         /\ \/ rows'[r].key = Nothing
                            \/ rows'[r].key = rows[r].key /\ rows'[r].bot = rows[r].bot
                            \/ rows'[r].key = hands[h].key /\ rows'[r].bot = hands[h].bot
  BY <1>2
<1>4. \A b \in Bots : webhook'[b] \in {webhook[b], Nothing}
  OBVIOUS
<1> QED
  BY <1>1, <1>2, <1>3, <1>4, TurnKeeps

LEMMA ConnectDropsKeeps == ASSUME SetupInv, NEW h \in Hands, ConnectDrops(h) PROVE SetupInv'
<1>1. hands[h].row \in Keys
  BY DEF ConnectDrops, HandAt, SetupInv, SetupShape, Handed, WithRow
<1>2. HandGivesUp(h)
  BY DEF ConnectDrops
<1>3. PICK ps \in SUBSET {"fail"} : Turned(h, ps) /\ (ps # {} => hands[h].intent \in Intents)
  <2>1. Turned(h, IF hands[h].intent = Nothing THEN {} ELSE {"fail"}) /\ (hands[h].intent # Nothing => hands[h].intent \in Intents)
    BY <1>2, GivesUpTurns
  <2> QED
    BY <2>1
<1>4. ps \in SUBSET Phases
  BY DEF Phases
<1> QED
  BY <1>1, <1>3, <1>4, NoIntegrationIs, WriteKeeps DEF ConnectDrops, Connecting

LEMMA RowAnew ==
  ASSUME SetupInv, NEW r \in Keys
  PROVE  /\ LET row == [rows[r] EXCEPT !.state = "ACTIVE"] IN
            row \in Row /\ row.state = "ACTIVE" /\ row.key = rows[r].key /\ row.bot = rows[r].bot /\ row.salon = rows[r].salon
         /\ LET row == [rows[r] EXCEPT !.state = "DISCONNECTED", !.token = FALSE] IN
            row \in Row /\ row.state = "DISCONNECTED" /\ row.key = rows[r].key /\ row.bot = rows[r].bot
<1>1. rows[r] \in Row
  BY DEF SetupInv, SetupShape
<1> QED
  BY <1>1 DEF Row

LEMMA ConnectSavesKeeps == ASSUME SetupInv, NEW h \in Hands, ConnectSaves(h) PROVE SetupInv'
<1> DEFINE row == [rows[hands[h].row] EXCEPT !.state = "ACTIVE"]
<1>1. hands[h].row \in Keys /\ hands[h].pc = "connectSave" /\ hands[h] \in HandRow
  BY DEF ConnectSaves, HandAt, SetupInv, SetupShape, Handed, WithRow
<1>2. row \in Row /\ row.state = "ACTIVE" /\ row.key = rows[hands[h].row].key /\ row.bot = rows[hands[h].row].bot
      /\ row.salon = rows[hands[h].row].salon
  BY <1>1, RowAnew
<1>3. CASE Fits(hands[h].row, row)
  <2>1. /\ MakesActive(h, row) /\ UNCHANGED <<webhook, drawn, intents>>
        /\ IF hands[h].intent = Nothing THEN HandRests(h) ELSE HandTo(h, "complete")
    BY <1>3 DEF ConnectSaves
  <2>2. /\ rows' = [rows EXCEPT ![hands[h].row] = row] /\ everActive \subseteq everActive'
        /\ Overtaken(hands[h].row) \subseteq everActive' /\ <<row.salon, row.bot>> \in everActive'
        /\ rows[hands[h].row].state # "none"
    BY <2>1, <1>3 DEF MakesActive, Fits
  <2>3. <<hands[h].salon, hands[h].bot>> \in everActive'
    <3>1. OwnRow(h)
      BY <1>1 DEF SetupInv, ClosedRightly, Connecting
    <3> QED
      BY <3>1, <2>2, <1>2 DEF OwnRow, Was
  <2>4. PICK ps \in SUBSET {"complete"} : Turned(h, ps) /\ (ps # {} => hands[h].intent \in Intents)
    <3>1. hands[h].intent \in Intents \cup {Nothing}
      BY <1>1 DEF HandRow
    <3>2. CASE hands[h].intent = Nothing
      <4>1. Turned(h, {})
        BY <2>1, <3>2 DEF Turned
      <4> QED
        BY <4>1
    <3>3. CASE hands[h].intent # Nothing
      <4>1. Turned(h, {"complete"})
        BY <2>1, <3>3 DEF Turned
      <4> QED
        BY <3>1, <3>3, <4>1
    <3> QED
      BY <3>2, <3>3
  <2>5. ps \in SUBSET Phases
    BY DEF Phases
  <2> HIDE DEF row
  <2> QED
    BY <1>1, <1>2, <2>1, <2>2, <2>3, <2>4, <2>5, WriteKeeps DEF Connecting
<1>4. CASE ~Fits(hands[h].row, row)
  <2>1. HandGivesUp(h) /\ UNCHANGED <<rows, everActive, webhook, drawn, intents>>
    BY <1>4 DEF ConnectSaves
  <2>2. Turned(h, IF hands[h].intent = Nothing THEN {} ELSE {"fail"}) /\ (hands[h].intent # Nothing => hands[h].intent \in Intents)
    BY <2>1, GivesUpTurns
  <2>3. PICK ps \in SUBSET {"fail"} : Turned(h, ps) /\ (ps # {} => hands[h].intent \in Intents)
    BY <2>2
  <2>4. ps \in SUBSET Phases
    BY DEF Phases
  <2> QED
    BY <2>1, <2>3, <2>4, CallKeeps DEF Connecting, WithRow
<1> QED
  BY <1>3, <1>4

LEMMA RotateSavesKeeps == ASSUME SetupInv, NEW h \in Hands, RotateSaves(h) PROVE SetupInv'
<1>1. /\ hands[h].row \in Keys /\ hands[h].bot \in Bots /\ hands[h].key \in Keys
      /\ hands[h].pc = "rotateSave" /\ hands[h] \in HandRow /\ rows[hands[h].row] \in Row
  BY DEF RotateSaves, HandAt, SetupInv, SetupShape, Handed, WithRow
<1>2. Rotated(h) \in Row /\ Rotated(h).state = "ACTIVE" /\ Rotated(h).key = hands[h].key /\ Rotated(h).bot = hands[h].bot
  BY <1>1 DEF Rotated, Row
<1>3. CASE Fits(hands[h].row, Rotated(h))
  <2>1. /\ MakesActive(h, Rotated(h)) /\ UNCHANGED <<webhook, drawn, intents>>
        /\ Turned(h, {"rotateClean"})
    BY <1>3 DEF RotateSaves, Turned
  <2>2. /\ rows' = [rows EXCEPT ![hands[h].row] = Rotated(h)] /\ everActive \subseteq everActive'
        /\ Overtaken(hands[h].row) \subseteq everActive' /\ <<Rotated(h).salon, Rotated(h).bot>> \in everActive'
        /\ rows[hands[h].row].state # "none"
    BY <2>1, <1>3 DEF MakesActive, Fits
  <2>3. {"rotateClean"} \in SUBSET Phases
    BY DEF Phases
  <2> QED
    BY <1>1, <1>2, <2>1, <2>2, <2>3, WriteKeeps DEF Connecting
<1>4. CASE ~Fits(hands[h].row, Rotated(h))
  <2>1. Turned(h, {}) /\ {} \in SUBSET Phases /\ UNCHANGED <<rows, everActive, webhook, drawn, intents>>
    BY <1>4 DEF RotateSaves, Turned
  <2> QED
    BY <2>1, CallKeeps
<1> QED
  BY <1>3, <1>4

LEMMA DisconnectSavesKeeps == ASSUME SetupInv, NEW h \in Hands, DisconnectSaves(h) PROVE SetupInv'
<1> DEFINE row == [rows[hands[h].row] EXCEPT !.state = "DISCONNECTED", !.token = FALSE]
<1>1. hands[h].row \in Keys /\ rows \in [Keys -> Row]
  BY DEF DisconnectSaves, HandAt, SetupInv, SetupShape, Handed, WithRow
<1>2. row \in Row /\ row.state = "DISCONNECTED" /\ row.key = rows[hands[h].row].key /\ row.bot = rows[hands[h].row].bot
  BY <1>1, RowAnew
<1>3. Turned(h, {}) /\ {} \in SUBSET Phases /\ UNCHANGED <<webhook, drawn, intents>>
  BY DEF DisconnectSaves, Turned
<1>4. CASE rows[hands[h].row].state = "none"
  BY <1>3, <1>4, CallKeeps DEF DisconnectSaves
<1>5. CASE rows[hands[h].row].state # "none"
  <2>1. /\ rows' = [rows EXCEPT ![hands[h].row].state = "DISCONNECTED", ![hands[h].row].token = FALSE]
        /\ everActive' = everActive \cup Overtaken(hands[h].row)
    BY <1>5 DEF DisconnectSaves
  <2>2. rows' = [rows EXCEPT ![hands[h].row] = row]
    BY <2>1, <1>1
  <2>3. everActive \subseteq everActive' /\ Overtaken(hands[h].row) \subseteq everActive'
    BY <2>1
  <2> HIDE DEF row
  <2> QED
    BY <1>1, <1>2, <1>3, <1>5, <2>2, <2>3, WriteKeeps
<1> QED
  BY <1>4, <1>5

LEMMA RetrySavesKeeps == ASSUME SetupInv, NEW h \in Hands, RetrySaves(h) PROVE SetupInv'
<1> DEFINE row == [rows[hands[h].row] EXCEPT !.state = "ACTIVE"]
<1>1. hands[h].row \in Keys
  BY DEF RetrySaves, HandAt, SetupInv, SetupShape, Handed, WithRow
<1>2. row \in Row /\ row.state = "ACTIVE" /\ row.key = rows[hands[h].row].key /\ row.bot = rows[hands[h].row].bot
  BY <1>1, RowAnew
<1>3. Turned(h, {}) /\ {} \in SUBSET Phases /\ UNCHANGED <<webhook, drawn, intents>>
  BY DEF RetrySaves, Turned
<1>4. CASE ~Fits(hands[h].row, row)
  BY <1>3, <1>4, CallKeeps DEF RetrySaves
<1>5. CASE Fits(hands[h].row, row)
  <2>2. /\ rows' = [rows EXCEPT ![hands[h].row] = row] /\ everActive \subseteq everActive'
        /\ Overtaken(hands[h].row) \subseteq everActive' /\ <<row.salon, row.bot>> \in everActive'
        /\ rows[hands[h].row].state # "none"
    BY <1>5 DEF RetrySaves, MakesActive, Fits
  <2> HIDE DEF row
  <2> QED
    BY <1>1, <1>2, <1>3, <2>2, WriteKeeps
<1> QED
  BY <1>4, <1>5

(* A request that begins, or turns to something new, with row mine; a row of a *)
(* new key may be created for its bot.                                         *)
LEMMA BeginKeeps ==
  ASSUME SetupInv, NEW h \in Hands, NEW mine \in HandRow, hands' = [hands EXCEPT ![h] = mine],
         Handed(mine), UNCHANGED <<webhook, everActive, intents>>, drawn' \in Keys \cup {Nothing},
         \/ UNCHANGED <<rows, drawn>> /\ (mine.key # Nothing => Carries(mine.key, mine.bot))
         \/ UNCHANGED rows /\ drawn' = drawn + 1 /\ mine.key = drawn'
         \/ /\ drawn' = drawn + 1 /\ mine.key = drawn' /\ drawn' \in Keys
            /\ rows' = [rows EXCEPT ![drawn'] = [state |-> "PENDING", salon |-> mine.salon, bot |-> mine.bot,
                                                 key |-> drawn', token |-> TRUE]],
         mine.intent # Nothing => /\ intents[mine.intent].state # "none"
                                  /\ intents[mine.intent].salon = mine.salon,
         mine.pc \in Connecting => mine.row <= drawn' /\ OwnRow(h)',
         mine.pc = "complete" => Was(mine.salon, mine.bot)
  PROVE  SetupInv'
<1>s. /\ rows \in [Keys -> Row] /\ hands \in [Hands -> HandRow] /\ intents \in [Intents -> IntentRow]
      /\ webhook \in [Bots -> Keys \cup {Nothing}]
  BY DEF SetupInv, SetupShape
<1>1. hands'[h] = mine /\ (\A g \in Hands \ {h} : hands'[g] = hands[g]) /\ hands' \in [Hands -> HandRow]
  BY <1>s
<1>2. mine.salon \in Salons /\ mine.bot \in Bots \cup {NoBot}
  BY DEF HandRow
<1>n. Nothing \notin Keys
  BY SetupNumbers
<1>3. /\ rows' \in [Keys -> Row] /\ drawn' \in {drawn, drawn + 1}
      /\ \A r \in Keys : \/ rows'[r] = rows[r]
                         \/ /\ r = drawn + 1 /\ drawn' = drawn + 1 /\ rows'[r].state = "PENDING"
                            /\ rows'[r].key = mine.key /\ rows'[r].bot = mine.bot
  <2>1. CASE UNCHANGED rows
    BY <2>1, <1>s
  <2>2. CASE /\ drawn' = drawn + 1 /\ drawn' \in Keys /\ mine.key = drawn'
             /\ rows' = [rows EXCEPT ![drawn'] = [state |-> "PENDING", salon |-> mine.salon, bot |-> mine.bot,
                                                  key |-> drawn', token |-> TRUE]]
    <3> DEFINE row == [state |-> "PENDING", salon |-> mine.salon, bot |-> mine.bot, key |-> drawn', token |-> TRUE]
    <3>1. row \in Row /\ row.state = "PENDING" /\ row.key = drawn' /\ row.bot = mine.bot
      BY <1>2, <2>2 DEF Row
    <3> HIDE DEF row
    <3>2. rows' = [rows EXCEPT ![drawn'] = row]
      BY <2>2 DEF row
    <3> QED
      BY <2>2, <3>1, <3>2, <1>s
  <2> QED
    BY <2>1, <2>2
<1>4. ASSUME NEW k \in Keys, NEW b \in Bots \cup {NoBot}, Carries(k, b)'
      PROVE  Carries(k, b) \/ (drawn' = drawn + 1 /\ k = drawn' /\ b = mine.bot)
  <2>0. mine.key = k /\ mine.bot = b => Carries(k, b) \/ (drawn' = drawn + 1 /\ k = drawn' /\ b = mine.bot)
    BY <1>n
  <2>1. CASE \E r \in Keys : rows'[r].key = k /\ rows'[r].bot = b
    <3>1. PICK r \in Keys : rows'[r].key = k /\ rows'[r].bot = b
      BY <2>1
    <3>2. rows'[r] = rows[r] \/ (mine.key = k /\ mine.bot = b)
      BY <3>1, <1>3
    <3> QED
      BY <3>1, <3>2, <2>0 DEF Carries
  <2>2. CASE \E g \in Hands : hands'[g].key = k /\ hands'[g].bot = b
    <3>1. PICK g \in Hands : hands'[g].key = k /\ hands'[g].bot = b
      BY <2>2
    <3> QED
      BY <3>1, <1>1, <2>0 DEF Carries
  <2>3. CASE b \in Bots /\ webhook'[b] = k
    BY <2>3 DEF Carries
  <2> QED
    BY <1>4, <2>1, <2>2, <2>3 DEF Carries
<1>5. Handed(hands[h])'
  BY <1>1 DEF Handed
<1>6. /\ webhook' \in [Bots -> Keys \cup {Nothing}] /\ intents' \in [Intents -> IntentRow]
      /\ everActive \subseteq everActive' /\ \A i \in Intents : intents'[i] = intents[i]
  BY <1>s
<1>7. hands'[h].intent # Nothing => /\ intents'[hands'[h].intent].state # "none"
                                    /\ intents'[hands'[h].intent].salon = hands'[h].salon
  BY <1>1
<1>8. hands'[h].pc \in Connecting => hands'[h].row <= drawn' /\ OwnRow(h)'
  BY <1>1
<1>9. hands'[h].pc = "complete" => Was(hands[h].salon, hands[h].bot)'
  BY <1>1 DEF Was
<1>10. \A r \in Keys : \/ rows'[r] = rows[r]
                       \/ r = drawn + 1 /\ drawn' = drawn + 1 /\ rows'[r].state = "PENDING"
  BY <1>3
<1>11. rows' \in [Keys -> Row] /\ drawn' \in {drawn, drawn + 1}
  BY <1>3
<1> QED
  BY <1>1, <1>2, <1>4, <1>5, <1>6, <1>7, <1>8, <1>9, <1>10, <1>11, OthersKeep

LEMMA StartsConnectKeeps ==
  ASSUME SetupInv, NEW h \in Hands, NEW s \in Salons, NEW b \in Bots \cup {NoBot}, NEW i \in Intents \cup {Nothing},
         StartsConnect(h, s, b, i), UNCHANGED intents,
         i # Nothing => intents[i].state # "none" /\ intents[i].salon = s
  PROVE  SetupInv'
<1>s. rows \in [Keys -> Row] /\ hands \in [Hands -> HandRow] /\ drawn \in Keys \cup {Nothing}
  BY DEF SetupInv, SetupShape
<1>1. CASE SalonRow(s) \cup BotRow(b) = {}
  <2> DEFINE mine == [pc |-> "connectHook", salon |-> s, bot |-> b, row |-> NextKey, key |-> NextKey,
                      previous |-> NoBot, intent |-> i]
             row == [state |-> "PENDING", salon |-> s, bot |-> b, key |-> NextKey, token |-> TRUE]
  <2>1. /\ NextKey \in Keys /\ drawn' = NextKey /\ UNCHANGED <<webhook, everActive>>
        /\ hands' = [hands EXCEPT ![h] = mine] /\ rows' = [rows EXCEPT ![NextKey] = row]
    BY <1>1 DEF StartsConnect
  <2>2. mine \in HandRow /\ Handed(mine)
    BY <2>1 DEF HandRow, Phases, Handed, WithRow
  <2>3. OwnRow(h)' /\ mine.row <= drawn'
    <3>1. hands'[h] = mine
      BY <2>1, <1>s
    <3>2. rows'[NextKey] = row
      BY <2>1, <1>s
    <3>3. hands'[h].row = NextKey /\ hands'[h].salon = s /\ hands'[h].bot = b
      BY <3>1
    <3>4. NextKey \in Nat
      BY <2>1, SetupNumbers
    <3> QED
      BY <2>1, <3>2, <3>3, <3>4 DEF OwnRow
  <2>4. drawn' = drawn + 1 /\ drawn' \in Keys
    BY <2>1 DEF NextKey
  <2>5. rows' = [rows EXCEPT ![drawn'] = [state |-> "PENDING", salon |-> mine.salon, bot |-> mine.bot,
                                                 key |-> drawn', token |-> TRUE]]
    BY <2>1
  <2>6. mine.key = drawn' /\ mine.pc # "complete" /\ mine.intent = i /\ mine.salon = s
    BY <2>1
  <2> HIDE DEF mine, row
  <2> QED
    BY <2>1, <2>2, <2>3, <2>4, <2>5, <2>6, BeginKeeps
<1>2. CASE SalonRow(s) \cup BotRow(b) # {}
  <2>1. HandGivesUp(h) /\ UNCHANGED <<rows, everActive, webhook, drawn, intents>>
    BY <1>2 DEF StartsConnect
  <2>2. Turned(h, IF hands[h].intent = Nothing THEN {} ELSE {"fail"}) /\ (hands[h].intent # Nothing => hands[h].intent \in Intents)
    BY <2>1, GivesUpTurns
  <2>3. PICK ps \in SUBSET {"fail"} : Turned(h, ps) /\ (ps # {} => hands[h].intent \in Intents)
    BY <2>2
  <2>4. ps \in SUBSET Phases
    BY DEF Phases
  <2> QED
    BY <2>1, <2>3, <2>4, CallKeeps DEF Connecting, WithRow
<1> QED
  BY <1>1, <1>2

LEMMA StartsRotateKeeps ==
  ASSUME SetupInv, NEW h \in Hands, NEW s \in Salons, NEW b \in Bots, StartsRotate(h, s, b), UNCHANGED intents
  PROVE  SetupInv'
<1>1. PICK r \in SalonRow(s) :
         hands' = [hands EXCEPT ![h] = [pc |-> "rotateHook", salon |-> s, bot |-> b, row |-> r,
                        key |-> NextKey, intent |-> Nothing,
                        previous |-> IF rows[r].token /\ rows[r].bot # b THEN rows[r].bot ELSE NoBot]]
  BY DEF StartsRotate
<1>2. /\ NextKey \in Keys /\ drawn' = NextKey /\ UNCHANGED <<rows, webhook, everActive>> /\ r \in Keys /\ rows[r] \in Row
  BY DEF StartsRotate, SalonRow, SetupInv, SetupShape
<1>3. (IF rows[r].token /\ rows[r].bot # b THEN rows[r].bot ELSE NoBot) \in Bots \cup {NoBot}
  BY <1>2 DEF Row
<1> DEFINE mine == [pc |-> "rotateHook", salon |-> s, bot |-> b, row |-> r, key |-> NextKey, intent |-> Nothing,
                    previous |-> IF rows[r].token /\ rows[r].bot # b THEN rows[r].bot ELSE NoBot]
<1>4. mine \in HandRow /\ Handed(mine)
  BY <1>2, <1>3 DEF HandRow, Phases, Handed, WithRow
<1>5. mine.key = drawn' /\ mine.pc \notin Connecting /\ mine.pc # "complete" /\ mine.intent = Nothing
  BY <1>2 DEF Connecting
<1>6. drawn' = drawn + 1 /\ drawn' \in Keys \cup {Nothing}
  BY <1>2 DEF NextKey
<1>7. hands' = [hands EXCEPT ![h] = mine]
  BY <1>1
<1> HIDE DEF mine
<1> QED
  BY <1>2, <1>4, <1>5, <1>6, <1>7, BeginKeeps

LEMMA TakesKeeps ==
  ASSUME SetupInv, NEW h \in Hands, NEW pc \in {"unhook", "retryHook"}, NEW r \in Keys, Takes(h, pc, r), UNCHANGED intents
  PROVE  SetupInv'
<1> DEFINE mine == [pc |-> pc, salon |-> rows[r].salon, bot |-> rows[r].bot, row |-> r, key |-> rows[r].key,
                    previous |-> NoBot, intent |-> Nothing]
<1>1. hands' = [hands EXCEPT ![h] = mine] /\ UNCHANGED <<rows, webhook, drawn, everActive>>
  BY DEF Takes
<1>2. rows[r] \in Row /\ drawn \in Keys \cup {Nothing}
  BY DEF SetupInv, SetupShape
<1>3. mine \in HandRow /\ Handed(mine)
  BY <1>2 DEF HandRow, Row, Phases, Handed, WithRow
<1>4. Carries(mine.key, mine.bot)
  BY DEF Carries
<1>5. mine.pc \notin Connecting /\ mine.pc # "complete" /\ mine.intent = Nothing
  BY DEF Connecting
<1> HIDE DEF mine
<1> QED
  BY <1>1, <1>2, <1>3, <1>4, <1>5, BeginKeeps

LEMMA ClaimIntentKeeps == ASSUME SetupInv, NEW h \in Hands, NEW b \in Bots, ClaimIntent(h, b) PROVE SetupInv'
<1>s. /\ intents \in [Intents -> IntentRow] /\ hands \in [Hands -> HandRow] /\ rows \in [Keys -> Row]
      /\ webhook \in [Bots -> Keys \cup {Nothing}] /\ drawn \in Keys \cup {Nothing}
  BY DEF SetupInv, SetupShape
<1>1. PICK lapsed \in SUBSET Offered :
         LET open == Offered \ lapsed
             i == IF open # {} THEN Latest(open) ELSE Latest(Underway(b))
         IN  /\ IF open # {} THEN intents[i].bot \in {NoBot, b}
                ELSE Done(b) = {} /\ Underway(b) # {}
             /\ intents' = [Swept(lapsed) EXCEPT ![i].state = "PROCESSING", ![i].bot = b]
             /\ hands' = [hands EXCEPT ![h] = [IdleHand EXCEPT !.pc = "look", !.intent = i,
                                                 !.bot = b, !.salon = intents[i].salon]]
  BY DEF ClaimIntent
<1> DEFINE open == Offered \ lapsed
           claimed == IF open # {} THEN Latest(open) ELSE Latest(Underway(b))
<1>2. claimed \in Intents /\ intents[claimed].state # "none"
  <2>1. Offered \in SUBSET Intents /\ Underway(b) \in SUBSET Intents
    BY DEF Offered, Underway
  <2>2. CASE open # {}
    <3>1. Latest(open) \in open
      BY <2>1, <2>2, LatestIsOne
    <3> QED
      BY <2>2, <3>1 DEF Offered
  <2>3. CASE open = {}
    <3>1. Latest(Underway(b)) \in Underway(b)
      BY <2>1, <2>3, <1>1, LatestIsOne
    <3> QED
      BY <2>3, <3>1 DEF Underway
  <2> QED
    BY <2>2, <2>3
<1>3. /\ intents' = [Swept(lapsed) EXCEPT ![claimed].state = "PROCESSING", ![claimed].bot = b]
      /\ hands' = [hands EXCEPT ![h] = [IdleHand EXCEPT !.pc = "look", !.intent = claimed,
                                          !.bot = b, !.salon = intents[claimed].salon]]
  BY <1>1
<1> HIDE DEF claimed, open
<1>4. intents[claimed] \in IntentRow /\ intents[claimed].salon \in Salons
  BY <1>2, <1>s DEF IntentRow
<1> DEFINE mine == [IdleHand EXCEPT !.pc = "look", !.intent = claimed, !.bot = b, !.salon = intents[claimed].salon]
<1>5. /\ mine \in HandRow /\ mine.pc = "look" /\ mine.intent = claimed /\ mine.key = Nothing
      /\ mine.salon = intents[claimed].salon
  <2>1. "look" \in Phases
    BY DEF Phases
  <2> QED
    BY <1>2, <1>4, <2>1, IdleHandIs DEF HandRow
<1>6. Handed(mine)
  BY <1>2, <1>5 DEF Handed, WithRow
<1>7. hands' = [hands EXCEPT ![h] = mine]
  BY <1>3
<1> HIDE DEF mine
<1>8. hands'[h] = mine /\ (\A g \in Hands \ {h} : hands'[g] = hands[g]) /\ hands' \in [Hands -> HandRow]
  BY <1>5, <1>7, <1>s
<1>9. /\ Swept(lapsed) \in [Intents -> IntentRow]
      /\ \A j \in Intents : \/ Swept(lapsed)[j] = intents[j]
                            \/ /\ Swept(lapsed)[j].state = "EXPIRED" /\ Swept(lapsed)[j].salon = intents[j].salon
  BY <1>s DEF Swept, IntentRow
<1> DEFINE sw == Swept(lapsed)
           done == [sw[claimed] EXCEPT !.state = "PROCESSING", !.bot = b]
<1>10. done \in IntentRow /\ done.state = "PROCESSING" /\ done.salon = intents[claimed].salon
  BY <1>2, <1>9 DEF IntentRow
<1>11. intents' = [sw EXCEPT ![claimed] = done]
  BY <1>2, <1>3, <1>9
<1> HIDE DEF sw, done
<1>12. /\ intents' \in [Intents -> IntentRow]
       /\ intents'[claimed].state = "PROCESSING" /\ intents'[claimed].salon = intents[claimed].salon
       /\ \A j \in Intents \ {claimed} : intents'[j] = sw[j]
  BY <1>2, <1>9, <1>10, <1>11 DEF sw
<1>13. \A j \in Intents : \/ intents'[j] = intents[j]
                          \/ /\ intents'[j].state # "none" /\ intents'[j].salon = intents[j].salon
                             /\ intents'[j].state = "COMPLETED" => <<intents'[j].salon, intents'[j].bot>> \in everActive'
  BY <1>9, <1>12 DEF sw
<1>14. UNCHANGED <<rows, webhook, drawn, everActive>>
  BY DEF ClaimIntent
<1>15. ASSUME NEW k \in Keys, NEW c \in Bots \cup {NoBot}, Carries(k, c)' PROVE Carries(k, c)
  BY <1>15, <1>5, <1>8, <1>14, SetupNumbers DEF Carries
<1>16. Handed(hands[h])'
  BY <1>6, <1>8 DEF Handed
<1>17. hands'[h].intent # Nothing => /\ intents'[hands'[h].intent].state # "none"
                                     /\ intents'[hands'[h].intent].salon = hands'[h].salon
  BY <1>5, <1>8, <1>12
<1>18. hands'[h].pc \notin Connecting /\ hands'[h].pc # "complete"
  BY <1>5, <1>8 DEF Connecting
<1>19. /\ rows' \in [Keys -> Row] /\ webhook' \in [Bots -> Keys \cup {Nothing}] /\ drawn' \in Keys \cup {Nothing}
       /\ drawn' \in {drawn, drawn + 1} /\ everActive \subseteq everActive' /\ NoBot \in Bots \cup {NoBot}
       /\ \A r \in Keys : rows'[r] = rows[r]
  BY <1>s, <1>14
<1> QED
  BY <1>8, <1>12, <1>13, <1>15, <1>16, <1>17, <1>18, <1>19, OthersKeep

(* Only intents change, and the request goes on. *)
LEMMA IntentKeeps ==
  ASSUME SetupInv, NEW h \in Hands, NEW ps \in SUBSET {"tell", "fail"}, Turned(h, ps), hands[h].intent \in Intents,
         UNCHANGED <<rows, webhook, drawn, everActive>>, intents' \in [Intents -> IntentRow],
         \A i \in Intents : \/ intents'[i] = intents[i]
                            \/ /\ intents'[i].state # "none" /\ intents'[i].salon = intents[i].salon
                               /\ intents'[i].state = "COMPLETED" => <<intents'[i].salon, intents'[i].bot>> \in everActive
  PROVE  SetupInv'
<1>1. ps \in SUBSET Phases
  BY DEF Phases
<1>2. hands' \in [Hands -> HandRow] /\ \A g \in Hands \ {h} : hands'[g] = hands[g]
  BY <1>1, TurnedIs DEF SetupInv
<1>3. \/ hands'[h].pc = "idle" /\ hands'[h].key = Nothing /\ hands'[h].intent = Nothing
      \/ /\ hands'[h].pc \in ps /\ hands'[h].key = hands[h].key /\ hands'[h].bot = hands[h].bot
         /\ hands'[h].row = hands[h].row /\ hands'[h].salon = hands[h].salon
         /\ hands'[h].intent = hands[h].intent
  BY <1>1, TurnedIs DEF SetupInv
<1>4. Handed(hands[h])' /\ hands'[h].pc \notin Connecting /\ hands'[h].pc # "complete"
  BY <1>3 DEF Handed, WithRow, Connecting
<1>5. ASSUME NEW k \in Keys, NEW c \in Bots \cup {NoBot}, Carries(k, c)' PROVE Carries(k, c)
  BY <1>5, <1>2, <1>3, SetupNumbers DEF Carries
<1>6. hands'[h].intent # Nothing => /\ intents'[hands'[h].intent].state # "none"
                                    /\ intents'[hands'[h].intent].salon = hands'[h].salon
  <2>1. hands[h].intent # Nothing => intents[hands[h].intent].state # "none" /\ intents[hands[h].intent].salon = hands[h].salon
    BY DEF SetupInv, ClosedRightly
  <2> QED
    BY <1>3, <2>1
<1>7. /\ rows' \in [Keys -> Row] /\ webhook' \in [Bots -> Keys \cup {Nothing}] /\ drawn' \in Keys \cup {Nothing}
      /\ drawn' \in {drawn, drawn + 1} /\ everActive \subseteq everActive' /\ NoBot \in Bots \cup {NoBot}
      /\ \A r \in Keys : rows'[r] = rows[r]
  BY DEF SetupInv, SetupShape
<1>8. \A i \in Intents : \/ intents'[i] = intents[i]
                         \/ /\ intents'[i].state # "none" /\ intents'[i].salon = intents[i].salon
                            /\ intents'[i].state = "COMPLETED" => <<intents'[i].salon, intents'[i].bot>> \in everActive'
  OBVIOUS
<1> QED
  BY <1>2, <1>4, <1>5, <1>6, <1>7, <1>8, OthersKeep

LEMMA CompleteIntentKeeps == ASSUME SetupInv, NEW h \in Hands, CompleteIntent(h) PROVE SetupInv'
<1>s. intents \in [Intents -> IntentRow]
  BY DEF SetupInv, SetupShape
<1>1. hands[h].pc = "complete" /\ hands[h].intent \in Intents
  BY DEF CompleteIntent, HandAt, SetupInv, SetupShape, Handed
<1> DEFINE i == hands[h].intent
<1>2. Was(hands[h].salon, hands[h].bot) /\ intents[i].salon = hands[h].salon
  BY <1>1, SetupNumbers DEF SetupInv, ClosedRightly
<1>3. PICK ps \in SUBSET {"tell", "fail"} : Turned(h, ps)
  <2>1. \E p \in {"tell", "fail"} : HandTo(h, p)
    BY DEF CompleteIntent
  <2> QED
    BY <2>1 DEF Turned
<1>4. /\ UNCHANGED <<rows, webhook, drawn, everActive>>
      /\ intents' = intents \/ (intents[i].bot = hands[h].bot /\ intents' = [intents EXCEPT ![i].state = "COMPLETED"])
  BY DEF CompleteIntent
<1> DEFINE done == [intents[i] EXCEPT !.state = "COMPLETED"]
<1>5. done \in IntentRow /\ done.state = "COMPLETED" /\ done.salon = intents[i].salon /\ done.bot = intents[i].bot
  BY <1>1, <1>s DEF IntentRow
<1>6. intents' = intents \/ (intents[i].bot = hands[h].bot /\ intents' = [intents EXCEPT ![i] = done])
  BY <1>4
<1> HIDE DEF done
<1>7. intents' \in [Intents -> IntentRow]
  BY <1>s, <1>5, <1>6
<1>8. \A j \in Intents : \/ intents'[j] = intents[j]
                         \/ /\ intents'[j].state # "none" /\ intents'[j].salon = intents[j].salon
                            /\ intents'[j].state = "COMPLETED" => <<intents'[j].salon, intents'[j].bot>> \in everActive
  BY <1>1, <1>2, <1>s, <1>5, <1>6 DEF Was
<1> QED
  BY <1>1, <1>3, <1>4, <1>7, <1>8, IntentKeeps

LEMMA FailIntentKeeps == ASSUME SetupInv, NEW h \in Hands, FailIntent(h) PROVE SetupInv'
<1>s. intents \in [Intents -> IntentRow]
  BY DEF SetupInv, SetupShape
<1>1. hands[h].pc = "fail" /\ hands[h].intent \in Intents
  BY DEF FailIntent, HandAt, SetupInv, SetupShape, Handed
<1> DEFINE i == hands[h].intent
           done == [intents[i] EXCEPT !.state = "PENDING", !.bot = NoBot]
<1>2. done \in IntentRow /\ done.state = "PENDING" /\ done.salon = intents[i].salon
  BY <1>1, <1>s, ZenonT(40) DEF IntentRow
<1>3. /\ UNCHANGED <<rows, webhook, drawn, everActive>> /\ Turned(h, {})
      /\ intents' = [intents EXCEPT ![i].state = "PENDING", ![i].bot = NoBot]
  BY DEF FailIntent, Turned
<1>4. intents' = [intents EXCEPT ![i] = done]
  BY <1>1, <1>3, <1>s
<1> HIDE DEF done
<1>5. intents' \in [Intents -> IntentRow]
  BY <1>s, <1>2, <1>4
<1>6. \A j \in Intents : \/ intents'[j] = intents[j]
                         \/ /\ intents'[j].state # "none" /\ intents'[j].salon = intents[j].salon
                            /\ intents'[j].state = "COMPLETED" => <<intents'[j].salon, intents'[j].bot>> \in everActive
  BY <1>1, <1>s, <1>2, <1>4
<1>7. {} \in SUBSET {"tell", "fail"}
  OBVIOUS
<1> QED
  BY <1>1, <1>3, <1>5, <1>6, <1>7, IntentKeeps

LEMMA CreateIntentKeeps == ASSUME SetupInv, NEW i \in Intents, NEW s \in Salons, CreateIntent(i, s) PROVE SetupInv'
<1>s. intents \in [Intents -> IntentRow] /\ hands \in [Hands -> HandRow]
  BY DEF SetupInv, SetupShape
<1>1. UNCHANGED <<rows, webhook, drawn, hands, everActive>> /\ intents[i].state = "none"
  BY DEF CreateIntent, SetupKept
<1>2. intents' = [j \in Intents |->
         IF j = i THEN [intents[i] EXCEPT !.state = "PENDING", !.salon = s]
         ELSE IF intents[j].state = "PENDING" /\ intents[j].salon = s
         THEN [intents[j] EXCEPT !.state = "EXPIRED"] ELSE intents[j]]
  BY DEF CreateIntent
<1>3. /\ intents' \in [Intents -> IntentRow]
      /\ intents'[i].state = "PENDING"
      /\ \A j \in Intents \ {i} : \/ intents'[j] = intents[j]
                                  \/ intents'[j].state = "EXPIRED" /\ intents'[j].salon = intents[j].salon
  BY <1>2, <1>s DEF IntentRow
<1>4. SetupShape'
  BY <1>1, <1>3 DEF SetupInv, SetupShape
<1>5. OneBotPerKey'
  BY <1>1 DEF SetupInv, OneBotPerKey, Carries
<1>6. ClosedRightly'
  <2>1. ASSUME NEW h \in Hands, hands[h].intent # Nothing
        PROVE  intents'[hands[h].intent].state # "none" /\ intents'[hands[h].intent].salon = hands[h].salon
    <3>1. hands[h].intent \in Intents
      BY <2>1, <1>s DEF HandRow
    <3>2. intents[hands[h].intent].state # "none" /\ intents[hands[h].intent].salon = hands[h].salon
      BY <2>1 DEF SetupInv, ClosedRightly
    <3> QED
      BY <3>1, <3>2, <1>1, <1>3
  <2>2. \A h \in Hands : OwnRow(h) <=> OwnRow(h)'
    BY <1>1 DEF OwnRow, Was
  <2>3. ASSUME NEW j \in Intents, intents'[j].state = "COMPLETED" PROVE <<intents'[j].salon, intents'[j].bot>> \in everActive
    <3>1. intents'[j] = intents[j]
      BY <2>3, <1>3
    <3> QED
      BY <2>3, <3>1 DEF SetupInv, ClosedRightly, Was
  <2> QED
    BY <2>1, <2>2, <2>3, <1>1 DEF SetupInv, ClosedRightly, Was
<1> QED
  BY <1>4, <1>5, <1>6 DEF SetupInv

LEMMA SetupInvHolds == TelegramSetupSpec => []SetupInv
<1>1. ASSUME TelegramSetupInit PROVE SetupInv
  <2>1. SomeSalon \in Salons
    BY TelegramSetupAssumption DEF SomeSalon
  <2>2. /\ rows = [k \in Keys |-> NoIntegration] /\ webhook = [b \in Bots |-> Nothing] /\ drawn = Nothing
        /\ intents = [i \in Intents |-> [state |-> "none", salon |-> SomeSalon, bot |-> NoBot]]
        /\ hands = [h \in Hands |-> IdleHand]
    BY <1>1 DEF TelegramSetupInit
  <2>3. SetupShape
    <3>1. intents \in [Intents -> IntentRow]
      BY <2>1, <2>2 DEF IntentRow
    <3>2. \A h \in Hands : Handed(hands[h])
      BY <2>2, IdleHandIs DEF Handed, WithRow
    <3> QED
      BY <2>2, <3>1, <3>2, IdleHandIs, NoIntegrationIs DEF SetupShape
  <2>4. OneBotPerKey
    BY <2>2, IdleHandIs, NoIntegrationIs, SetupNumbers DEF OneBotPerKey, Carries
  <2>5. ClosedRightly
    BY <2>2, IdleHandIs, NoIntegrationIs DEF ClosedRightly, Connecting
  <2> QED
    BY <2>3, <2>4, <2>5 DEF SetupInv
<1>2. ASSUME SetupInv, [TelegramSetupNext]_setupVars PROVE SetupInv'
  <2> USE <1>2
  <2>u. ASSUME UNCHANGED <<rows, webhook, drawn, intents, hands, everActive>> PROVE SetupInv'
    BY <2>u DEF SetupInv, SetupShape, OneBotPerKey, ClosedRightly, Carries, OwnRow, Was
  <2>f. Form \in Hands /\ FormSalon \in Salons
    BY TelegramSetupAssumption
  <2>1. ASSUME NEW h \in Hands, AdminRetries(h) PROVE SetupInv'
    <3>1. PICK r \in Keys : Takes(h, "retryHook", r)
      BY <2>1 DEF AdminRetries
    <3>2. UNCHANGED intents
      BY <2>1 DEF AdminRetries
    <3> QED
      BY <3>1, <3>2, TakesKeeps
  <2>2. ASSUME NEW h \in Hands, OtherTab(h) PROVE SetupInv'
    <3>1. UNCHANGED intents
      BY <2>2 DEF OtherTab
    <3>2. PICK s \in Salons : \/ StartsDisconnect(h, s)
                              \/ \E b \in Bots : StartsConnect(h, s, b, Nothing) \/ StartsRotate(h, s, b)
      BY <2>2 DEF OtherTab
    <3>3. ASSUME StartsDisconnect(h, s) PROVE SetupInv'
      <4>1. PICK r \in Keys : Takes(h, "unhook", r)
        BY <3>3 DEF StartsDisconnect, SalonRow
      <4> QED
        BY <4>1, <3>1, TakesKeeps
    <3> QED
      BY <3>1, <3>2, <3>3, StartsConnectKeeps, StartsRotateKeeps
  <2>3. ASSUME NEW h \in Hands, LookForBot(h) PROVE SetupInv'
    <3>s. rows \in [Keys -> Row] /\ hands[h] \in HandRow /\ intents \in [Intents -> IntentRow]
      BY DEF SetupInv, SetupShape
    <3>1. hands[h].pc = "look" /\ hands[h].intent \in Intents /\ UNCHANGED intents
      BY <2>3 DEF LookForBot, HandAt, SetupInv, SetupShape, Handed
    <3>2. intents[hands[h].intent].state # "none" /\ intents[hands[h].intent].salon = hands[h].salon
      BY <3>1, SetupNumbers DEF SetupInv, ClosedRightly
    <3>3. CASE AlreadyConnected(h)
      <4>1. HandTo(h, "complete") /\ UNCHANGED <<rows, webhook, drawn, everActive>>
        BY <2>3, <3>3 DEF LookForBot
      <4>2. <<hands[h].salon, hands[h].bot>> \in everActive'
        BY <4>1, <3>3 DEF AlreadyConnected, SalonRow, SetupInv, ClosedRightly, Was
      <4>3. Turned(h, {"complete"}) /\ {"complete"} \in SUBSET Phases
        BY <4>1 DEF Turned, Phases
      <4>4. /\ rows' \in [Keys -> Row] /\ webhook' \in [Bots -> Keys \cup {Nothing}] /\ everActive \subseteq everActive'
            /\ \A r \in Keys : rows'[r] = rows[r]
            /\ \A b \in Bots : webhook'[b] \in {webhook[b], Nothing}
            /\ UNCHANGED <<drawn, intents>>
        BY <3>1, <4>1 DEF SetupInv, SetupShape
      <4> QED
        BY <3>1, <4>2, <4>3, <4>4, TurnKeeps DEF Connecting, WithRow
    <3>4. CASE ~AlreadyConnected(h)
      <4>1. StartsConnect(h, hands[h].salon, hands[h].bot, hands[h].intent)
        BY <2>3, <3>4 DEF LookForBot
      <4>2. hands[h].salon \in Salons /\ hands[h].bot \in Bots \cup {NoBot}
        BY <3>s DEF HandRow
      <4> QED
        BY <3>1, <3>2, <4>1, <4>2, StartsConnectKeeps
    <3> QED
      BY <3>3, <3>4
  <2>4. ASSUME NEW b \in Bots, SubmitToken(b) PROVE SetupInv'
    <3>1. UNCHANGED intents /\ (StartsRotate(Form, FormSalon, b) \/ StartsConnect(Form, FormSalon, b, Nothing))
      BY <2>4 DEF SubmitToken
    <3> QED
      BY <2>f, <3>1, StartsConnectKeeps, StartsRotateKeeps
  <2>5. ASSUME SubmitDisconnect PROVE SetupInv'
    <3>1. PICK r \in Keys : Takes(Form, "unhook", r)
      BY <2>5 DEF SubmitDisconnect, StartsDisconnect, SalonRow
    <3>2. UNCHANGED intents
      BY <2>5 DEF SubmitDisconnect
    <3> QED
      BY <2>f, <3>1, <3>2, TakesKeeps
  <2>6. ASSUME ReloadSettings PROVE SetupInv'
    BY <2>6, <2>u DEF ReloadSettings
  <2>7. ASSUME UNCHANGED setupVars PROVE SetupInv'
    BY <2>7, <2>u DEF setupVars
  <2> QED
    BY <2>1, <2>2, <2>3, <2>4, <2>5, <2>6, <2>7, ConnectHooksKeeps, ConnectDropsKeeps, ConnectSavesKeeps, RotateHooksKeeps,
       RotateSavesKeeps, RotateCleansKeeps, UnhooksKeeps, DisconnectSavesKeeps, RetryHooksKeeps, RetrySavesKeeps,
       ClaimIntentKeeps, CompleteIntentKeeps, TellOwnerKeeps, FailIntentKeeps, HandDiesKeeps, CreateIntentKeeps, ZenonT(60)
       DEF TelegramSetupNext
<1> QED
  BY <1>1, <1>2, PTL DEF TelegramSetupSpec

(* The webhook of a bot leads to that bot's row and to no other, and the    *)
(* owner is told of a connection, and the intent closed, only when the bot  *)
(* has been the salon's or was overtaken - for any number of salons, bots,  *)
(* requests, failures and lost answers.                                     *)
THEOREM BotsLeadHome == TelegramSetupSpec => []SetupLeadsHome
<1>1. ASSUME SetupInv PROVE SetupLeadsHome
  <2>1. ASSUME NEW b \in Bots, NEW r \in Keys, webhook[b] # Nothing, rows[r].key = webhook[b] PROVE rows[r].bot = b
    <3>1. webhook[b] \in Keys /\ rows[r].bot \in Bots \cup {NoBot}
      BY <1>1, <2>1 DEF SetupInv, SetupShape, Row
    <3>2. Carries(webhook[b], b) /\ Carries(webhook[b], rows[r].bot)
      BY <2>1 DEF Carries
    <3> QED
      BY <1>1, <3>1, <3>2 DEF SetupInv, OneBotPerKey
  <2> QED
    BY <1>1, <2>1 DEF SetupInv, ClosedRightly, Was, SetupLeadsHome
<1> QED
  BY <1>1, SetupInvHolds, PTL

-----------------------------------------------------------------------------
(***************************************************************************)
(* PlatformChat.  A link is consumed once and remembered; a chat has no     *)
(* member, or one who consumed a link; and whatever is being handled or was *)
(* drawn is of somebody who did.                                            *)
(***************************************************************************)
LinkRow == [state : {"none", "open", "over", "used"}, seat : Seats \cup {NoPerson}, by : People \cup {NoPerson}]
TurnRow == [pc : {"idle", "typed", "tapped", "carry"}, seat : Seats \cup {NoPerson}, user : People \cup {NoPerson},
            room : Rooms, ask : Texts \cup Kinds \cup Locales, slot : CardSlots \cup {0}, crossed : BOOLEAN]
ShownRow == [kind : Kinds \cup {"none"}, seat : Seats \cup {NoPerson}, user : People \cup {NoPerson},
             room : Rooms, spent : BOOLEAN, reach : Reaches]
OnStaff(s) == Role[s] = "STAFF"

ChatsShape ==
    /\ link \in [Tokens -> LinkRow]
    /\ \A l \in Tokens : /\ link[l].state \in {"open", "used"} => link[l].seat \in Seats
                         /\ link[l].state = "used" => link[l].by \in People
    /\ chatRow \in [Rooms -> SUBSET Owned]
    /\ shown \in [CardSlots -> ShownRow]
    /\ turn \in TurnRow
    /\ creators \subseteq Owned

(* A card that names its member. *)
CardOwned(k) ==
    /\ k.kind \in Kinds /\ k.seat \in Seats /\ k.user \in People /\ k.room \in Rooms
    /\ Consumed(k)
    /\ k.kind = "queue" => ~OnStaff(k.seat)
    /\ k.reach = "all" => \E l \in Tokens : link[l].state = "used" /\ link[l].by = k.user /\ ~OnStaff(link[l].seat)
    /\ k.room = Hall => ~OnStaff(k.seat)

TurnOwned ==
    /\ turn.pc # "idle" /\ turn.seat \in Seats /\ turn.user \in People
    /\ Consumed(turn)
    /\ turn.room = Hall => ~OnStaff(turn.seat)
    /\ turn.crossed \/ [seat |-> turn.seat, user |-> turn.user] \in chatRow[turn.room]
    /\ turn.pc \in {"tapped", "carry"} => /\ turn.slot \in CardSlots
                                          /\ CardOwned(shown[turn.slot])
                                          /\ shown[turn.slot].room = turn.room
    /\ turn.pc = "tapped" => turn.ask \in Locales
    /\ turn.pc = "carry" => /\ shown[turn.slot].seat = turn.seat
                            /\ shown[turn.slot].user = turn.user
                            /\ turn.ask = "queue" => shown[turn.slot].kind = "queue"

ChatsOwned ==
    /\ \A r \in Rooms : \/ chatRow[r] = {}
                        \/ \E a \in Owned : chatRow[r] = {a} /\ Consumed(a) /\ (r = Hall => ~OnStaff(a.seat))
    /\ \A c \in CardSlots : shown[c] = NoCardHere \/ CardOwned(shown[c])
    /\ turn = NoTurn \/ TurnOwned
    /\ \A a \in creators : Consumed(a) /\ ~OnStaff(a.seat)

LEMMA NothingHere ==
  /\ NoCardHere \in ShownRow /\ NoCardHere.kind = "none"
  /\ NoTurn \in TurnRow /\ NoTurn.pc = "idle"
BY DEF NoCardHere, NoTurn, ShownRow, TurnRow, Rooms, Reaches, Texts

(* A link that was consumed stays so. *)
LEMMA LinksStay ==
  ASSUME \A l \in Tokens : link[l].state = "used" => link'[l] = link[l]
  PROVE  /\ \A k : Consumed(k) => \E l \in Tokens : link'[l].state = "used" /\ link'[l].seat = k.seat /\ link'[l].by = k.user
         /\ \A u : (\E l \in Tokens : link[l].state = "used" /\ link[l].by = u /\ ~OnStaff(link[l].seat))
                     => \E l \in Tokens : link'[l].state = "used" /\ link'[l].by = u /\ ~OnStaff(link'[l].seat)
BY DEF Consumed, OnStaff

LEMMA OwnersStay ==
  ASSUME \A l \in Tokens : link[l].state = "used" => link'[l] = link[l]
  PROVE  \A k : (Consumed(k) => Consumed(k)') /\ (CardOwned(k) => CardOwned(k)')
<1> TAKE k
<1>1. Consumed(k) => Consumed(k)'
  BY LinksStay DEF Consumed
<1>2. (\E l \in Tokens : link[l].state = "used" /\ link[l].by = k.user /\ ~OnStaff(link[l].seat))
      => \E l \in Tokens : link'[l].state = "used" /\ link'[l].by = k.user /\ ~OnStaff(link'[l].seat)
  BY LinksStay
<1> QED
  BY <1>1, <1>2, LinksStay DEF CardOwned, OnStaff

LEMMA ChatsShapeStays ==
  ASSUME ChatsShape, ChatsOwned, [PlatformChatNext]_platformVars
  PROVE  ChatsShape'
<1>2. ChatsShape'
  <2> USE DEF ChatsShape
  <2>d. ASSUME NEW c \in CardSlots, NEW kind \in Kinds, Draw(c, kind) PROVE shown' \in [CardSlots -> ShownRow]
    <3> DEFINE picture == [kind |-> kind, seat |-> turn.seat, user |-> turn.user, room |-> turn.room, spent |-> FALSE,
                        reach |-> Reach(turn.seat)]
    <3>1. picture \in ShownRow
      BY DEF TurnRow, ShownRow, Reach, Reaches
    <3>2. shown' = [shown EXCEPT ![c] = picture]
      BY <2>d DEF Draw
    <3> HIDE DEF picture
    <3> QED
      BY <3>1, <3>2
  <2>r. Rests => link' = link /\ chatRow' = chatRow /\ turn' \in TurnRow
    BY NothingHere DEF Rests
  <2>1. ASSUME NEW l \in Tokens, NEW s \in Seats, RequestChatLink(l, s) PROVE ChatsShape'
    <3> DEFINE row == [link[l] EXCEPT !.state = "open", !.seat = s]
    <3>1. row \in LinkRow /\ row.state = "open" /\ row.seat = s
      BY DEF LinkRow
    <3>2. link' = [link EXCEPT ![l] = row]
      BY <2>1 DEF RequestChatLink
    <3> HIDE DEF row
    <3> QED
      BY <2>1, <3>1, <3>2 DEF RequestChatLink
  <2>2. ASSUME NEW l \in Tokens, LinkRunsOut(l) PROVE ChatsShape'
    <3> DEFINE row == [link[l] EXCEPT !.state = "over"]
    <3>1. row \in LinkRow /\ row.state = "over"
      BY DEF LinkRow
    <3>2. link' = [link EXCEPT ![l] = row]
      BY <2>2 DEF LinkRunsOut
    <3> HIDE DEF row
    <3> QED
      BY <2>2, <3>1, <3>2 DEF LinkRunsOut
  <2>3. ASSUME NEW l \in Tokens, NEW u \in People, NEW r \in Rooms, ConsumeLink(l, u, r) PROVE ChatsShape'
    <3> DEFINE row == [link[l] EXCEPT !.state = "used", !.by = u]
    <3>0. link[l].seat \in Seats
      BY <2>3 DEF ConsumeLink
    <3>1. row \in LinkRow /\ row.state = "used" /\ row.by = u /\ row.seat = link[l].seat
      BY DEF LinkRow
    <3>2. link' = [link EXCEPT ![l] = row]
      BY <2>3 DEF ConsumeLink
    <3>3. chatRow' \in [Rooms -> SUBSET Owned]
      BY <2>3, <3>0 DEF ConsumeLink, TakeChat, Owned
    <3>4. turn' \in TurnRow
      BY <2>3 DEF ConsumeLink, TurnRow
    <3> HIDE DEF row
    <3> QED
      BY <2>3, <3>0, <3>1, <3>2, <3>3, <3>4 DEF ConsumeLink
  <2>4. ASSUME NEW u \in People, NEW r \in Rooms, NEW k \in Texts, NEW w \in Locales, TypeText(u, r, k, w) PROVE ChatsShape'
    <3>1. PICK a \in Actors(r, u) :
         turn' = [pc |-> "typed", seat |-> a.seat, user |-> u, room |-> r,
                  ask |-> Meaning(a.seat, k, w), slot |-> 0, crossed |-> FALSE]
      BY <2>4 DEF TypeText
    <3>2. a.seat \in Seats /\ Meaning(a.seat, k, w) \in Texts
      BY DEF Actors, Owned, Meaning, Texts
    <3>3. turn' \in TurnRow
      BY <3>1, <3>2 DEF TurnRow
    <3> QED
      BY <2>4, <3>3 DEF TypeText
  <2>5. ASSUME NEW u \in People, NEW c \in CardSlots, NEW w \in Locales, TapCard(u, c, w) PROVE ChatsShape'
    <3>1. PICK a \in Actors(shown[c].room, u) :
         turn' = [pc |-> "tapped", seat |-> a.seat, user |-> u, room |-> shown[c].room,
                  ask |-> w, slot |-> c, crossed |-> FALSE]
      BY <2>5 DEF TapCard
    <3>2. a.seat \in Seats /\ shown[c].room \in Rooms
      BY DEF Actors, Owned, ShownRow
    <3>3. turn' \in TurnRow
      BY <3>1, <3>2 DEF TurnRow
    <3> QED
      BY <2>5, <3>3 DEF TapCard
  <2>6. ASSUME NEW c \in CardSlots, ShowBookingFilters(c) \/ ShowBookingList(c) \/ ShowChecks(c) \/ ShowLanguagePicker(c)
        PROVE  ChatsShape'
    <3>1. {"filters", "bookings", "queue", "language"} \subseteq Kinds
      BY DEF Kinds
    <3>2. shown' \in [CardSlots -> ShownRow] /\ Rests /\ UNCHANGED creators
      BY <2>6, <2>d, <3>1 DEF ShowBookingFilters, ShowBookingList, ShowChecks, ShowLanguagePicker
    <3> QED
      BY <3>2, <2>r
  <2>7. ASSUME StartManagedBotCreation PROVE ChatsShape'
    <3>1. creators' \subseteq Owned
      <4>1. turn.seat \in Seats /\ turn.user \in People
        BY <2>7, NothingHere DEF StartManagedBotCreation, ChatsOwned, TurnOwned
      <4>2. CASE creators' = creators
        BY <4>2
      <4>3. CASE Role[turn.seat] \in {"OWNER", "ADMIN"} /\ creators' = creators \cup {[seat |-> turn.seat, user |-> turn.user]}
        BY <4>1, <4>3 DEF Owned
      <4> QED
        BY <2>7, <4>2, <4>3 DEF StartManagedBotCreation
    <3> QED
      BY <2>7, <3>1, <2>r DEF StartManagedBotCreation
  <2>8. ASSUME ShowMainMenu \/ EndTurn PROVE ChatsShape'
    BY <2>8, <2>r DEF ShowMainMenu, EndTurn
  <2>9. ASSUME ConsumeButton PROVE ChatsShape'
    <3>1. turn.pc = "tapped" /\ turn.slot \in CardSlots /\ turn.ask \in Locales /\ CardOwned(shown[turn.slot])
      BY <2>9, NothingHere DEF ConsumeButton, ChatsOwned, TurnOwned
    <3>2. CASE ShowStaleAction /\ UNCHANGED creators
      <4>1. "stale" \in Kinds
        BY DEF Kinds
      <4>2. shown' \in [CardSlots -> ShownRow] /\ Rests
        BY <3>1, <3>2, <4>1, <2>d DEF ShowStaleAction
      <4> QED
        BY <3>2, <4>2, <2>r
    <3>3. CASE /\ turn' = [turn EXCEPT !.pc = "carry", !.ask = IF shown[turn.slot].kind = "language" THEN @ ELSE shown[turn.slot].kind]
               /\ shown' = [shown EXCEPT ![turn.slot].spent = shown[turn.slot].kind = "language"]
               /\ UNCHANGED <<link, chatRow, creators>>
      <4> DEFINE ask == IF shown[turn.slot].kind = "language" THEN turn.ask ELSE shown[turn.slot].kind
                 b == (shown[turn.slot].kind = "language")
      <4>1. ask \in Kinds \cup Locales
        BY <3>1 DEF CardOwned
      <4>2. turn' = [turn EXCEPT !.pc = "carry", !.ask = ask]
        BY <3>3
      <4>b. b \in BOOLEAN
        OBVIOUS
      <4>3. shown' = [shown EXCEPT ![turn.slot].spent = b]
        BY <3>3
      <4> HIDE DEF ask, b
      <4>4. turn' \in TurnRow
        BY <4>1, <4>2 DEF TurnRow
      <4>5. shown' \in [CardSlots -> ShownRow]
        BY <3>1, <4>b, <4>3 DEF ShownRow
      <4> QED
        BY <3>3, <4>4, <4>5
    <3> QED
      BY <2>9, <3>2, <3>3 DEF ConsumeButton
  <2>10. ASSUME CarryNavigation PROVE ChatsShape'
    <3>1. turn.slot \in CardSlots
      BY <2>10, NothingHere DEF CarryNavigation, ChatsOwned, TurnOwned
    <3>2. shown' \in [CardSlots -> ShownRow] /\ Rests /\ UNCHANGED creators
      BY <2>10, <3>1, <2>d DEF CarryNavigation, Kinds
    <3> QED
      BY <3>2, <2>r
  <2>11. ASSUME SetLanguage PROVE ChatsShape'
    BY <2>11, <2>r DEF SetLanguage
  <2>12. ASSUME UNCHANGED platformVars PROVE ChatsShape'
    BY <2>12 DEF platformVars
  <2> HIDE DEF ChatsShape
  <2> QED
    BY <2>1, <2>2, <2>3, <2>4, <2>5, <2>6, <2>7, <2>8, <2>9, <2>10, <2>11, <2>12, ZenonT(60) DEF PlatformChatNext
<1> QED
  BY <1>2

LEMMA ChatsOwnedStays ==
  ASSUME ChatsShape, ChatsOwned, [PlatformChatNext]_platformVars
  PROVE  ChatsOwned'
<1> DEFINE Stays == \A l \in Tokens : link[l].state = "used" => link'[l] = link[l]
<1>s. /\ link \in [Tokens -> LinkRow] /\ chatRow \in [Rooms -> SUBSET Owned] /\ shown \in [CardSlots -> ShownRow]
      /\ turn \in TurnRow
  BY DEF ChatsShape
<1>o. /\ \A r \in Rooms : \/ chatRow[r] = {}
                          \/ \E a \in Owned : chatRow[r] = {a} /\ Consumed(a) /\ (r = Hall => ~OnStaff(a.seat))
      /\ \A c \in CardSlots : shown[c] = NoCardHere \/ CardOwned(shown[c])
      /\ turn = NoTurn \/ TurnOwned
      /\ \A a \in creators : Consumed(a) /\ ~OnStaff(a.seat)
  BY DEF ChatsOwned
<1>k. UNCHANGED link => Stays
  OBVIOUS
<1>m. Stays => \A k : (Consumed(k) => Consumed(k)') /\ (CardOwned(k) => CardOwned(k)')
  BY OwnersStay
<1> HIDE DEF Stays
(* What a step leaves alone is owned as before. *)
<1>r. ASSUME Stays, UNCHANGED chatRow
      PROVE  \A r \in Rooms : \/ chatRow'[r] = {}
                              \/ \E a \in Owned : chatRow'[r] = {a} /\ Consumed(a)' /\ (r = Hall => ~OnStaff(a.seat))
  BY <1>r, <1>o, <1>m
<1>c. ASSUME Stays, UNCHANGED shown PROVE \A c \in CardSlots : shown'[c] = NoCardHere \/ CardOwned(shown[c])'
  BY <1>c, <1>o, <1>m DEF CardOwned, Consumed
<1>v. ASSUME Stays, UNCHANGED creators PROVE \A a \in creators' : Consumed(a)' /\ ~OnStaff(a.seat)
  BY <1>v, <1>o, <1>m
<1>d. ASSUME \A r \in Rooms : \/ chatRow'[r] = {}
                              \/ \E a \in Owned : chatRow'[r] = {a} /\ Consumed(a)' /\ (r = Hall => ~OnStaff(a.seat)),
             \A c \in CardSlots : shown'[c] = NoCardHere \/ CardOwned(shown[c])',
             turn' = NoTurn \/ TurnOwned',
             \A a \in creators' : Consumed(a)' /\ ~OnStaff(a.seat)
      PROVE  ChatsOwned'
  BY <1>d DEF ChatsOwned, OnStaff
<1>t. ASSUME Stays, UNCHANGED <<turn, shown>>, TurnOwned,
             \A r \in Rooms : turn.room = r /\ ~turn.crossed => chatRow'[r] = chatRow[r]
      PROVE  TurnOwned'
  <2>1. Consumed(turn)' /\ turn.room \in Rooms
    <3>1. Consumed(turn) /\ turn.room \in Rooms
      BY <1>t, <1>s DEF TurnOwned, TurnRow
    <3> QED
      BY <3>1, <1>t, <1>m DEF Consumed
  <2>2. turn.pc \in {"tapped", "carry"} => CardOwned(shown[turn.slot])'
    <3>1. turn.pc \in {"tapped", "carry"} => CardOwned(shown[turn.slot])
      BY <1>t DEF TurnOwned
    <3>2. PICK k : k = shown[turn.slot]
      OBVIOUS
    <3>3. turn.pc \in {"tapped", "carry"} => CardOwned(k)'
      BY <3>1, <3>2, <1>t, <1>m
    <3>4. shown'[turn'.slot] = k
      BY <3>2, <1>t
    <3> QED
      BY <3>3, <3>4 DEF CardOwned, Consumed
  <2> QED
    BY <1>t, <2>1, <2>2 DEF TurnOwned, OnStaff
(* A card drawn for the member of the update. *)
<1>w. ASSUME TurnOwned, UNCHANGED link, NEW c \in CardSlots, NEW kind \in Kinds, Draw(c, kind),
             kind = "queue" => ~OnStaff(turn.seat)
      PROVE  \A d \in CardSlots : shown'[d] = NoCardHere \/ CardOwned(shown[d])'
  <2> DEFINE picture == [kind |-> kind, seat |-> turn.seat, user |-> turn.user, room |-> turn.room, spent |-> FALSE,
                      reach |-> Reach(turn.seat)]
  <2>1. PICK k : k = picture
    OBVIOUS
  <2>2. /\ k.kind = kind /\ k.seat = turn.seat /\ k.user = turn.user /\ k.room = turn.room
        /\ k.reach = Reach(turn.seat)
    BY <2>1
  <2>3. PICK l \in Tokens : link[l].state = "used" /\ link[l].seat = turn.seat /\ link[l].by = turn.user
    BY <1>w DEF TurnOwned, Consumed
  <2>4. k.reach = "all" => ~OnStaff(turn.seat)
    BY <2>2 DEF Reach, OnStaff
  <2>5. CardOwned(k)
    <3>1. Consumed(k)
      BY <2>2, <2>3 DEF Consumed
    <3>2. turn.room \in Rooms /\ turn.seat \in Seats /\ turn.user \in People /\ (turn.room = Hall => ~OnStaff(turn.seat))
      BY <1>w, <1>s DEF TurnOwned, TurnRow
    <3>3. k.reach = "all" => \E m \in Tokens : link[m].state = "used" /\ link[m].by = k.user /\ ~OnStaff(link[m].seat)
      BY <2>2, <2>3, <2>4
    <3> QED
      BY <1>w, <2>2, <3>1, <3>2, <3>3 DEF CardOwned
  <2>6. CardOwned(k)'
    BY <2>5, <1>w, <1>k, <1>m
  <2>7. shown'[c] = k /\ \A d \in CardSlots \ {c} : shown'[d] = shown[d]
    BY <1>w, <2>1, <1>s DEF Draw
  <2>8. ASSUME NEW d \in CardSlots \ {c} PROVE shown'[d] = NoCardHere \/ CardOwned(shown[d])'
    <3>1. PICK q : q = shown[d]
      OBVIOUS
    <3>2. q = NoCardHere \/ CardOwned(q)'
      BY <3>1, <1>o, <1>w, <1>k, <1>m
    <3>3. shown'[d] = q
      BY <2>7, <3>1
    <3> QED
      BY <3>2, <3>3
  <2>9. CardOwned(shown[c])'
    BY <2>6, <2>7
  <2> QED
    BY <2>8, <2>9
<1>q. Rests => turn' = NoTurn /\ UNCHANGED <<link, chatRow>>
  BY DEF Rests
<1>n. turn.pc # "idle" => TurnOwned
  BY <1>o, NothingHere
<1>1. ASSUME NEW l \in Tokens, NEW s \in Seats, RequestChatLink(l, s) PROVE ChatsOwned'
  <2>1. Stays
    BY <1>1, <1>s DEF RequestChatLink, Stays
  <2>2. UNCHANGED <<chatRow, shown, turn, creators>>
    BY <1>1 DEF RequestChatLink
  <2>3. turn' = NoTurn \/ TurnOwned'
    BY <2>1, <2>2, <1>o, <1>t
  <2> QED
    BY <2>1, <2>2, <2>3, <1>r, <1>c, <1>v, <1>d
<1>2. ASSUME NEW l \in Tokens, LinkRunsOut(l) PROVE ChatsOwned'
  <2>1. Stays
    BY <1>2, <1>s DEF LinkRunsOut, Stays
  <2>2. UNCHANGED <<chatRow, shown, turn, creators>>
    BY <1>2 DEF LinkRunsOut
  <2>3. turn' = NoTurn \/ TurnOwned'
    BY <2>1, <2>2, <1>o, <1>t
  <2> QED
    BY <2>1, <2>2, <2>3, <1>r, <1>c, <1>v, <1>d
<1>3. ASSUME NEW l \in Tokens, NEW u \in People, NEW r \in Rooms, ConsumeLink(l, u, r) PROVE ChatsOwned'
  <2>1. Stays
    BY <1>3, <1>s DEF ConsumeLink, Stays
  <2>2. UNCHANGED <<shown, creators>> /\ (r = Hall => ~OnStaff(link[l].seat)) /\ link[l].seat \in Seats
    BY <1>3 DEF ConsumeLink, MayLink, OnStaff, ChatsShape
  <2>3. PICK who : who = [seat |-> link[l].seat, user |-> u]
    OBVIOUS
  <2>4. who \in Owned /\ who.seat = link[l].seat /\ who.user = u
    BY <2>2, <2>3 DEF Owned
  <2>5. chatRow' = [chatRow EXCEPT ![r] = {who}]
    BY <1>3, <2>3 DEF ConsumeLink, TakeChat
  <2>6. link'[l].state = "used" /\ link'[l].seat = link[l].seat /\ link'[l].by = u
    BY <1>3, <1>s DEF ConsumeLink, LinkRow
  <2>7. Consumed(who)'
    BY <2>4, <2>6 DEF Consumed
  <2>8. ASSUME NEW q \in Rooms
        PROVE  \/ chatRow'[q] = {}
               \/ \E a \in Owned : chatRow'[q] = {a} /\ Consumed(a)' /\ (q = Hall => ~OnStaff(a.seat))
    <3>1. CASE q = r
      BY <3>1, <2>2, <2>4, <2>5, <2>7, <1>s
    <3>2. CASE q # r
      BY <3>2, <2>1, <2>5, <1>s, <1>o, <1>m
    <3> QED
      BY <3>1, <3>2
  <2>9. turn' = NoTurn \/ TurnOwned'
    <3>1. CASE turn = NoTurn
      BY <1>3, <3>1 DEF ConsumeLink
    <3>2. CASE turn # NoTurn /\ turn.room = r
      <4>1. turn' = [turn EXCEPT !.crossed = TRUE]
        BY <1>3, <3>2 DEF ConsumeLink
      <4>2. /\ turn'.pc = turn.pc /\ turn'.seat = turn.seat /\ turn'.user = turn.user /\ turn'.room = turn.room
            /\ turn'.ask = turn.ask /\ turn'.slot = turn.slot /\ turn'.crossed
        BY <4>1, <1>s DEF TurnRow
      <4>3. TurnOwned
        BY <3>2, <1>o
      <4>4. Consumed(turn)'
        <5>1. PICK m \in Tokens : link[m].state = "used" /\ link[m].seat = turn.seat /\ link[m].by = turn.user
          BY <4>3 DEF TurnOwned, Consumed
        <5> QED
          BY <5>1, <4>2, <2>1 DEF Consumed, Stays
      <4>5. turn.pc \in {"tapped", "carry"} => CardOwned(shown[turn.slot])'
        <5>1. turn.pc \in {"tapped", "carry"} => CardOwned(shown[turn.slot])
          BY <4>3 DEF TurnOwned
        <5>2. PICK k : k = shown[turn.slot]
          OBVIOUS
        <5>3. turn.pc \in {"tapped", "carry"} => CardOwned(k)'
          BY <5>1, <5>2, <2>1, <1>m
        <5>4. shown'[turn'.slot] = k
          BY <5>2, <2>2, <4>2
        <5> QED
          BY <5>3, <5>4 DEF CardOwned, Consumed
      <4> QED
        BY <2>2, <4>2, <4>3, <4>4, <4>5 DEF TurnOwned, OnStaff
    <3>3. CASE turn # NoTurn /\ turn.room # r
      <4>1. UNCHANGED turn /\ TurnOwned
        BY <1>3, <3>3, <1>o DEF ConsumeLink
      <4>2. \A q \in Rooms : turn.room = q /\ ~turn.crossed => chatRow'[q] = chatRow[q]
        BY <3>3, <2>5, <1>s
      <4> QED
        BY <2>1, <2>2, <4>1, <4>2, <1>t
    <3> QED
      BY <3>1, <3>2, <3>3
  <2>10. \A c \in CardSlots : shown'[c] = NoCardHere \/ CardOwned(shown[c])'
    BY <2>1, <2>2, <1>c
  <2>11. \A a \in creators' : Consumed(a)' /\ ~OnStaff(a.seat)
    BY <2>1, <2>2, <1>v
  <2> QED
    BY <2>8, <2>9, <2>10, <2>11, <1>d
(* Whoever writes or taps is the member of the chat. *)
<1>a. ASSUME NEW r \in Rooms, NEW u, NEW a \in Actors(r, u)
      PROVE  /\ a \in chatRow[r] /\ a.user = u /\ a.seat \in Seats /\ a.user \in People
             /\ a = [seat |-> a.seat, user |-> u]
             /\ Consumed(a) /\ (r = Hall => ~OnStaff(a.seat))
  <2>1. a \in chatRow[r] /\ a.user = u
    BY <1>a DEF Actors
  <2>2. a \in Owned
    BY <2>1, <1>s
  <2>3. Consumed(a) /\ (r = Hall => ~OnStaff(a.seat))
    BY <2>1, <1>o
  <2> QED
    BY <2>1, <2>2, <2>3 DEF Owned
<1>4. ASSUME NEW u \in People, NEW r \in Rooms, NEW k \in Texts, NEW w \in Locales, TypeText(u, r, k, w) PROVE ChatsOwned'
  <2>1. PICK a \in Actors(r, u) :
       turn' = [pc |-> "typed", seat |-> a.seat, user |-> u, room |-> r,
                ask |-> Meaning(a.seat, k, w), slot |-> 0, crossed |-> FALSE]
    BY <1>4 DEF TypeText
  <2>2. UNCHANGED <<link, chatRow, shown, creators>>
    BY <1>4 DEF TypeText
  <2>3. turn'.pc = "typed" /\ turn'.seat = a.seat /\ turn'.user = u /\ turn'.room = r
    BY <2>1
  <2>4. Consumed(turn)'
    BY <2>2, <2>3, <1>a DEF Consumed
  <2>5. [seat |-> turn'.seat, user |-> turn'.user] \in chatRow'[turn'.room]
    BY <2>2, <2>3, <1>a
  <2>6. TurnOwned'
    BY <2>3, <2>4, <2>5, <1>a DEF TurnOwned, OnStaff
  <2> QED
    BY <2>2, <2>6, <1>k, <1>r, <1>c, <1>v, <1>d
<1>5. ASSUME NEW u \in People, NEW c \in CardSlots, NEW w \in Locales, TapCard(u, c, w) PROVE ChatsOwned'
  <2>1. PICK a \in Actors(shown[c].room, u) :
       turn' = [pc |-> "tapped", seat |-> a.seat, user |-> u, room |-> shown[c].room,
                ask |-> w, slot |-> c, crossed |-> FALSE]
    BY <1>5 DEF TapCard
  <2>2. UNCHANGED <<link, chatRow, shown, creators>> /\ shown[c] # NoCardHere /\ shown[c].room \in Rooms
    BY <1>5, <1>s DEF TapCard, ShownRow
  <2>3. /\ turn'.pc = "tapped" /\ turn'.seat = a.seat /\ turn'.user = u /\ turn'.room = shown[c].room
        /\ turn'.slot = c /\ turn'.ask = w
    BY <2>1
  <2>4. Consumed(turn)'
    BY <2>2, <2>3, <1>a DEF Consumed
  <2>5. [seat |-> turn'.seat, user |-> turn'.user] \in chatRow'[turn'.room]
    BY <2>2, <2>3, <1>a
  <2>6. CardOwned(shown[turn.slot])'
    BY <2>2, <2>3, <1>o DEF CardOwned, Consumed
  <2>7. TurnOwned'
    BY <2>2, <2>3, <2>4, <2>5, <2>6, <1>a DEF TurnOwned, OnStaff
  <2> QED
    BY <2>2, <2>7, <1>k, <1>r, <1>c, <1>v, <1>d
(* A step that ends the update and leaves the cards, or draws one. *)
<1>e. ASSUME Rests, UNCHANGED creators,
             UNCHANGED shown \/ \A c \in CardSlots : shown'[c] = NoCardHere \/ CardOwned(shown[c])'
      PROVE  ChatsOwned'
  BY <1>e, <1>q, <1>k, <1>r, <1>c, <1>v, <1>d
<1>6. ASSUME NEW c \in CardSlots, ShowBookingFilters(c) \/ ShowBookingList(c) \/ ShowChecks(c) \/ ShowLanguagePicker(c)
      PROVE  ChatsOwned'
  <2>1. /\ TurnOwned /\ Rests /\ UNCHANGED <<creators, link>>
        /\ \/ UNCHANGED shown
           \/ \E kind \in Kinds : Draw(c, kind) /\ (kind = "queue" => ~OnStaff(turn.seat))
    <3>1. {"filters", "bookings", "queue", "language"} \subseteq Kinds /\ "filters" # "queue"
      BY DEF Kinds
    <3>2. turn.pc = "typed" /\ Rests /\ UNCHANGED creators
      BY <1>6 DEF ShowBookingFilters, ShowBookingList, ShowChecks, ShowLanguagePicker
    <3>3. UNCHANGED shown \/ \E kind \in {"filters", "bookings", "queue", "language"} : Draw(c, kind) /\ (kind = "queue" => ~OnStaff(turn.seat))
      BY <1>6 DEF ShowBookingFilters, ShowBookingList, ShowChecks, ShowLanguagePicker, SeesReceipts, OnStaff
    <3> QED
      BY <3>1, <3>2, <3>3, <1>n, <1>q
  <2> QED
    BY <2>1, <1>w, <1>e
<1>7. ASSUME StartManagedBotCreation PROVE ChatsOwned'
  <2>1. TurnOwned /\ Rests /\ UNCHANGED <<shown, link>>
    BY <1>7, <1>n, <1>q DEF StartManagedBotCreation
  <2>2. \/ UNCHANGED creators
        \/ /\ Role[turn.seat] \in {"OWNER", "ADMIN"}
           /\ creators' = creators \cup {[seat |-> turn.seat, user |-> turn.user]}
    BY <1>7 DEF StartManagedBotCreation
  <2>3. CASE UNCHANGED creators
    BY <2>1, <2>3, <1>e
  <2>4. CASE /\ Role[turn.seat] \in {"OWNER", "ADMIN"}
             /\ creators' = creators \cup {[seat |-> turn.seat, user |-> turn.user]}
    <3>1. PICK a : a = [seat |-> turn.seat, user |-> turn.user]
      OBVIOUS
    <3>2. a.seat = turn.seat /\ a.user = turn.user
      BY <3>1
    <3>3. Consumed(a)' /\ ~OnStaff(a.seat)
      BY <2>1, <2>4, <3>2 DEF TurnOwned, Consumed, OnStaff
    <3>4. \A d \in creators' : Consumed(d)' /\ ~OnStaff(d.seat)
      BY <2>1, <2>4, <3>1, <3>3, <1>o, <1>k, <1>m
    <3> QED
      BY <2>1, <3>4, <1>q, <1>k, <1>r, <1>c, <1>d
  <2> QED
    BY <2>2, <2>3, <2>4
<1>8. ASSUME ShowMainMenu \/ EndTurn PROVE ChatsOwned'
  BY <1>8, <1>e DEF ShowMainMenu, EndTurn
<1>9. ASSUME ConsumeButton PROVE ChatsOwned'
  <2>1. TurnOwned /\ turn.pc = "tapped" /\ turn.slot \in CardSlots /\ turn.ask \in Locales /\ CardOwned(shown[turn.slot])
    BY <1>9, <1>n DEF ConsumeButton, TurnOwned
  <2>2. CASE ShowStaleAction /\ UNCHANGED creators
    <3>1. "stale" \in Kinds /\ "stale" # "queue"
      BY DEF Kinds
    <3>2. Draw(turn.slot, "stale") /\ Rests
      BY <2>2 DEF ShowStaleAction
    <3>3. \A d \in CardSlots : shown'[d] = NoCardHere \/ CardOwned(shown[d])'
      BY <2>1, <3>1, <3>2, <1>q, <1>w
    <3> QED
      BY <2>2, <3>2, <3>3, <1>e
  <2>3. CASE /\ TheirButton(shown[turn.slot])
             /\ turn' = [turn EXCEPT !.pc = "carry", !.ask = IF shown[turn.slot].kind = "language" THEN @ ELSE shown[turn.slot].kind]
             /\ shown' = [shown EXCEPT ![turn.slot].spent = shown[turn.slot].kind = "language"]
             /\ UNCHANGED <<link, chatRow, creators>>
    <3> DEFINE ask == IF shown[turn.slot].kind = "language" THEN turn.ask ELSE shown[turn.slot].kind
               b == (shown[turn.slot].kind = "language")
    <3>1. PICK asked : asked = ask
      OBVIOUS
    <3>2. turn' = [turn EXCEPT !.pc = "carry", !.ask = asked]
      BY <2>3, <3>1
    <3>3. /\ turn'.pc = "carry" /\ turn'.seat = turn.seat /\ turn'.user = turn.user /\ turn'.room = turn.room
          /\ turn'.ask = asked /\ turn'.slot = turn.slot /\ turn'.crossed = turn.crossed
      BY <3>2, <1>s DEF TurnRow
    <3>4. PICK flag \in BOOLEAN : flag = b
      OBVIOUS
    <3>5. shown' = [shown EXCEPT ![turn.slot].spent = flag]
      BY <2>3, <3>4
    <3>6. asked = "queue" => shown[turn.slot].kind = "queue"
      BY <2>1, <3>1 DEF Locales
    <3> HIDE DEF ask, b
    <3>7. PICK old : old = shown[turn.slot]
      OBVIOUS
    <3>8. old \in ShownRow
      BY <2>1, <3>7, <1>s
    <3>9. PICK new : new = [old EXCEPT !.spent = flag]
      OBVIOUS
    <3>10. new.kind = old.kind /\ new.seat = old.seat /\ new.user = old.user /\ new.room = old.room /\ new.reach = old.reach
      BY <3>8, <3>9 DEF ShownRow
    <3>11. shown'[turn.slot] = new /\ \A d \in CardSlots \ {turn.slot} : shown'[d] = shown[d]
      BY <2>1, <3>5, <3>7, <3>9, <1>s
    <3>12. CardOwned(old)'
      BY <2>1, <2>3, <3>7, <1>k, <1>m
    <3>13. CardOwned(new)'
      BY <3>10, <3>12 DEF CardOwned, Consumed
    <3>14. CardOwned(shown[turn.slot])'
      BY <3>3, <3>11, <3>13
    <3>15. ASSUME NEW d \in CardSlots PROVE shown'[d] = NoCardHere \/ CardOwned(shown[d])'
      <4>1. CASE d = turn.slot
        BY <4>1, <3>11, <3>13
      <4>2. CASE d # turn.slot
        <5>1. PICK q : q = shown[d]
          OBVIOUS
        <5>2. q = NoCardHere \/ CardOwned(q)'
          BY <5>1, <1>o, <2>3, <1>k, <1>m
        <5>3. shown'[d] = q
          BY <4>2, <5>1, <3>11
        <5> QED
          BY <5>2, <5>3
      <4> QED
        BY <4>1, <4>2
    <3>16. Consumed(turn)'
      BY <2>1, <2>3, <3>3 DEF TurnOwned, Consumed
    <3>17. TurnOwned'
      <4>1. /\ shown'[turn'.slot].seat = turn'.seat /\ shown'[turn'.slot].user = turn'.user
            /\ shown'[turn'.slot].room = turn'.room /\ (turn'.ask = "queue" => shown'[turn'.slot].kind = "queue")
        BY <2>1, <2>3, <3>3, <3>6, <3>7, <3>10, <3>11 DEF TheirButton, TurnOwned
      <4> QED
        BY <2>1, <2>3, <3>3, <3>14, <3>16, <4>1 DEF TurnOwned, OnStaff
    <3> QED
      BY <2>3, <3>15, <3>17, <1>k, <1>r, <1>v, <1>d
  <2> QED
    BY <1>9, <2>2, <2>3 DEF ConsumeButton
<1>10. ASSUME CarryNavigation PROVE ChatsOwned'
  <2>1. TurnOwned /\ turn.pc = "carry" /\ turn.slot \in CardSlots
    BY <1>10, <1>n DEF CarryNavigation, TurnOwned
  <2>2. PICK kind \in {"queue", "bookings"} : Draw(turn.slot, kind) /\ (kind = "queue" => turn.ask = "queue")
    BY <1>10 DEF CarryNavigation
  <2>3. kind = "queue" => ~OnStaff(turn.seat)
    BY <2>1, <2>2 DEF TurnOwned, CardOwned
  <2>4. kind \in Kinds /\ Rests /\ UNCHANGED creators
    BY <1>10 DEF CarryNavigation, Kinds
  <2> QED
    BY <2>1, <2>2, <2>3, <2>4, <1>q, <1>w, <1>e
<1>11. ASSUME SetLanguage PROVE ChatsOwned'
  BY <1>11, <1>e DEF SetLanguage
<1>12. ASSUME UNCHANGED platformVars PROVE ChatsOwned'
  <2>1. UNCHANGED <<link, chatRow, shown, turn, creators>>
    BY <1>12 DEF platformVars
  <2>2. turn' = NoTurn \/ TurnOwned'
    BY <2>1, <1>k, <1>o, <1>t
  <2> QED
    BY <2>1, <2>2, <1>k, <1>r, <1>c, <1>v, <1>d
<1> QED
  BY <1>1, <1>2, <1>3, <1>4, <1>5, <1>6, <1>7, <1>8, <1>9, <1>10, <1>11, <1>12, ZenonT(60) DEF PlatformChatNext

(* Whatever is drawn or carried out in a chat is for a member whose link    *)
(* the Telegram user consumed, groups never see what staff see, and staff   *)
(* see no receipts - for any number of members, people, links and cards,    *)
(* however links are consumed while updates are being handled.              *)
THEOREM ChatsServe == PlatformChatSpec => []ChatServesItsMember
<1>1. ASSUME PlatformChatInit PROVE ChatsShape /\ ChatsOwned
  <2>1. ChatsShape
    BY <1>1, NothingHere DEF PlatformChatInit, ChatsShape, LinkRow
  <2>2. ChatsOwned
    BY <1>1 DEF PlatformChatInit, ChatsOwned
  <2> QED
    BY <2>1, <2>2
<1>2. ASSUME ChatsShape, ChatsOwned PROVE ChatServesItsMember
  <2>1. \A r \in Rooms : Cardinality(chatRow[r]) <= 1
    <3> TAKE r \in Rooms
    <3>1. chatRow[r] = {} \/ \E a : chatRow[r] = {a}
      BY <1>2 DEF ChatsOwned
    <3> QED
      BY <3>1, FS_EmptySet, FS_Singleton
  <2>2. turn # NoTurn => TurnOwned
    BY <1>2 DEF ChatsOwned
  <2>3. \A c \in CardSlots : shown[c] # NoCardHere => CardOwned(shown[c])
    BY <1>2 DEF ChatsOwned
  <2>4. turn.pc = "carry" => TurnOwned
    BY <2>2, NothingHere
  <2> QED
    BY <1>2, <2>1, <2>2, <2>3, <2>4 DEF ChatsOwned, TurnOwned, CardOwned, OnStaff, ChatServesItsMember
<1> QED
  BY <1>1, <1>2, ChatsShapeStays, ChatsOwnedStays, PTL DEF PlatformChatSpec

---------------------------------------------------------------------------
(***************************************************************************)
(* Types.  What the invariants above leave open: the bounds that the guards *)
(* keep, the histories, and what a row carries while it has a meaning.      *)
(***************************************************************************)

(* Sessions, tasks and locks have their types. *)
THEOREM JobsTyped == SchedulerSpec => []SchedulerTypeOK
<1>1. SchedulerInit => SessionInv
  BY RestedIsAState, JobSchedulerAssumption DEF SchedulerInit, SessionInv, Busy
<1>2. SessionInv => SchedulerTypeOK
  BY DEF SessionInv, SchedulerTypeOK, JobState, Pcs
<1> QED
  BY <1>1, <1>2, SessionNext, PTL DEF SchedulerSpec

OutboxLimits ==
    /\ \A k \in NoticeKeys, d \in Chats :
         /\ delivery[k][d].attempts \in 0 .. MaxAttempts
         /\ delivery[k][d].status \in {"SCHEDULED", "PROCESSING"} => delivery[k][d].attempts < MaxAttempts
    /\ linkedChat \subseteq Chats
    /\ \A i \in Senders : /\ sender[i].now \in 0 .. MaxOutboxClock
                         /\ \A d \in Chats : sender[i].seen[d] \in 0 .. MaxAttempts - 1
    /\ salonChanges \in 0 .. MaxChanges
    /\ deaths \in 0 .. MaxDeaths
    /\ outboxClock \in 0 .. MaxOutboxClock

LEMMA OutboxLimitsNext == OutboxShape /\ CardInv /\ OutboxLimits /\ [BusinessOutboxNext]_outboxVars => OutboxLimits'
<1> SUFFICES ASSUME OutboxShape, CardInv, OutboxLimits, [BusinessOutboxNext]_outboxVars PROVE OutboxLimits'
  OBVIOUS
<1> USE BusinessOutboxAssumption
<1>1. CASE ConfirmVisit
  BY <1>1 DEF OutboxLimits, OutboxShape, NoticeKeys, RowStatus, News, ConfirmVisit, Change,
       UpcomingScheduled, Upserted, UpcomingSkipped, OpenNotice
<1>2. ASSUME NEW s \in Moments, NEW p \in Specialists, MoveVisitByStaff(s, p) PROVE OutboxLimits'
  BY <1>2 DEF OutboxLimits, OutboxShape, NoticeKeys, RowStatus, News, MoveVisitByStaff, Change,
       Active, UpcomingScheduled, Upserted, UpcomingSkipped, OpenNotice
<1>3. ASSUME NEW s \in Moments, MoveVisitByCustomer(s) PROVE OutboxLimits'
  BY <1>3 DEF OutboxLimits, OutboxShape, NoticeKeys, RowStatus, News, MoveVisitByCustomer, Change,
       Active
<1>4. ASSUME NEW status \in {"CANCELLED", "NO_SHOW"}, EndVisitByStaff(status) PROVE OutboxLimits'
  BY <1>4 DEF OutboxLimits, OutboxShape, NoticeKeys, RowStatus, News, EndVisitByStaff, Change,
       Active, UpcomingSkipped, OpenNotice
<1>5. CASE EndVisitByCustomer
  BY <1>5 DEF OutboxLimits, OutboxShape, NoticeKeys, RowStatus, News, EndVisitByCustomer, Change,
       Active
<1>6. ASSUME NEW c \in Chats, SwitchChat(c) PROVE OutboxLimits'
  BY <1>6 DEF OutboxLimits, OutboxShape, NoticeKeys, RowStatus, News, SwitchChat, Change
<1>7. ASSUME NEW j \in Senders, StartSender(j) PROVE OutboxLimits'
  BY <1>7 DEF OutboxLimits, OutboxShape, NoticeKeys, RowStatus, News, StartSender, DueNotices,
       NoticeBatches, IdleSender, JobOnly, OpenNotice, VisitKept
<1>8. ASSUME NEW j \in Senders, DieSender(j) PROVE OutboxLimits'
  BY <1>8 DEF OutboxLimits, OutboxShape, NoticeKeys, RowStatus, News, DieSender, IdleSender,
       VisitKept
<1>9. ASSUME NEW j \in Senders, ListDeliveries(j) PROVE OutboxLimits'
  <2>1. \A i \in Senders : /\ sender'[i].now \in 0 .. MaxOutboxClock
                         /\ \A d \in Chats : sender'[i].seen[d] \in 0 .. MaxAttempts - 1
    <3>1. /\ sender[j] \in SenderRow /\ delivery \in [NoticeKeys -> [Chats -> DeliveryRow]]
          /\ sender[j].key \in NoticeKeys /\ sender[j].chat \in Chats
      BY DEF OutboxShape, SenderRow
    <3> DEFINE read == [d \in Chats |-> IF RowIsDue(j, d) THEN delivery[sender[j].key][d].attempts ELSE 0]
               r == [sender[j] EXCEPT !.pc = "row", !.todo = {d \in Chats : RowIsDue(j, d)}, !.seen = read]
    <3>2. \A d \in Chats : read[d] \in 0 .. MaxAttempts - 1
      <4> TAKE d \in Chats
      <4>1. RowIsDue(j, d) => delivery[sender[j].key][d].attempts \in 0 .. MaxAttempts
                              /\ delivery[sender[j].key][d].attempts < MaxAttempts
        BY <3>1 DEF OutboxLimits, RowIsDue
      <4> QED
        BY <4>1, BusinessOutboxAssumption
    <3>3. sender' = [sender EXCEPT ![j] = r] /\ sender \in [Senders -> SenderRow]
      BY <1>9 DEF ListDeliveries, OutboxShape
    <3>4. r.now = sender[j].now /\ r.seen = read
      BY <3>1 DEF SenderRow
    <3> HIDE DEF r, read
    <3> QED
      BY <3>2, <3>3, <3>4 DEF OutboxLimits
  <2> QED
    BY <1>9, <2>1 DEF OutboxLimits, OutboxShape, NoticeKeys, RowStatus, News, ListDeliveries,
         RowIsDue, JobOnly, VisitKept
<1>10. ASSUME NEW j \in Senders, SendCard(j) PROVE OutboxLimits'
  BY <1>10 DEF OutboxLimits, OutboxShape, NoticeKeys, RowStatus, News, SendCard, JobOnly, VisitKept
<1>11. ASSUME NEW j \in Senders, RefuseCard(j) PROVE OutboxLimits'
  BY <1>11 DEF OutboxLimits, OutboxShape, NoticeKeys, RowStatus, News, RefuseCard, JobOnly,
       VisitKept
<1>12. ASSUME NEW j \in Senders, RecordSent(j) PROVE OutboxLimits'
  <2>1. \A k \in NoticeKeys, d \in Chats :
         /\ delivery'[k][d].attempts \in 0 .. MaxAttempts
         /\ delivery'[k][d].status \in {"SCHEDULED", "PROCESSING"} => delivery'[k][d].attempts < MaxAttempts
    <3>1. /\ sender[j] \in SenderRow /\ delivery \in [NoticeKeys -> [Chats -> DeliveryRow]]
          /\ sender[j].key \in NoticeKeys /\ sender[j].chat \in Chats
      BY DEF OutboxShape, SenderRow
    <3> DEFINE k == sender[j].key
               c == sender[j].chat
    <3>2. delivery[k][c].status = "PROCESSING"
      BY <1>12, <3>1 DEF RecordSent, CardInv, Holds
    <3>3. delivery[k][c].attempts \in 0 .. MaxAttempts /\ delivery[k][c].attempts < MaxAttempts
      BY <3>1, <3>2 DEF OutboxLimits
    <3> DEFINE row == [status |-> "SENT", due |-> delivery[k][c].due, attempts |-> delivery[k][c].attempts + 1]
    <3>4. delivery' = [delivery EXCEPT ![k] = [delivery[k] EXCEPT ![c] = row]]
      BY <1>12, <3>1 DEF RecordSent
    <3>5. row.attempts \in 0 .. MaxAttempts /\ row.status = "SENT"
      BY <3>3, BusinessOutboxAssumption
    <3> HIDE DEF row
    <3> QED
      BY <3>1, <3>4, <3>5 DEF OutboxLimits
  <2>2. linkedChat' \subseteq Chats
    BY <1>12 DEF OutboxLimits, OutboxShape, NoticeKeys, RowStatus, News, RecordSent, JobOnly,
         VisitKept
  <2>3. \A i \in Senders : /\ sender'[i].now \in 0 .. MaxOutboxClock
                         /\ \A d \in Chats : sender'[i].seen[d] \in 0 .. MaxAttempts - 1
    BY <1>12 DEF OutboxLimits, OutboxShape, NoticeKeys, RowStatus, News, RecordSent, JobOnly,
         VisitKept
  <2>4. salonChanges' \in 0 .. MaxChanges
    BY <1>12 DEF OutboxLimits, OutboxShape, NoticeKeys, RowStatus, News, RecordSent, JobOnly,
         VisitKept
  <2>5. deaths' \in 0 .. MaxDeaths
    BY <1>12 DEF OutboxLimits, OutboxShape, NoticeKeys, RowStatus, News, RecordSent, JobOnly,
         VisitKept
  <2>6. outboxClock' \in 0 .. MaxOutboxClock
    BY <1>12 DEF OutboxLimits, OutboxShape, NoticeKeys, RowStatus, News, RecordSent, JobOnly,
         VisitKept
  <2> QED
    BY <2>1, <2>2, <2>3, <2>4, <2>5, <2>6 DEF OutboxLimits
<1>13. ASSUME NEW j \in Senders, FailToRecord(j) PROVE OutboxLimits'
  BY <1>13 DEF OutboxLimits, OutboxShape, NoticeKeys, RowStatus, News, FailToRecord, VisitKept
<1>14. ASSUME NEW j \in Senders, RecordRetry(j) PROVE OutboxLimits'
  BY <1>14, SMTT(30) DEF OutboxLimits, OutboxShape, NoticeKeys, RowStatus, News, RecordRetry, AttemptsMade,
       RetryAt, JobOnly, VisitKept
<1>15. ASSUME NEW j \in Senders, RefreshNotice(j) PROVE OutboxLimits'
  BY <1>15 DEF OutboxLimits, OutboxShape, NoticeKeys, RowStatus, News, RefreshNotice, OpenNotice,
       Continue, JobOnly, IdleSender, VisitKept
<1>16. ASSUME NEW j \in Senders, NEW k \in NoticeKeys, SkipUnaddressed(j, k) PROVE OutboxLimits'
  BY <1>16 DEF OutboxLimits, OutboxShape, NoticeKeys, RowStatus, News, SkipUnaddressed,
       EligibleChats, Continue, JobOnly, IdleSender, VisitKept
<1>17. ASSUME NEW j \in Senders, NEW k \in NoticeKeys, OpenDeliveries(j, k) PROVE OutboxLimits'
  BY <1>17 DEF OutboxLimits, OutboxShape, NoticeKeys, RowStatus, News, OpenDeliveries,
       EligibleChats, JobOnly, VisitKept
<1>18. ASSUME NEW j \in Senders, NEW c \in Chats, ClaimDelivery(j, c) PROVE OutboxLimits'
  <2>1. \A k \in NoticeKeys, d \in Chats :
         /\ delivery'[k][d].attempts \in 0 .. MaxAttempts
         /\ delivery'[k][d].status \in {"SCHEDULED", "PROCESSING"} => delivery'[k][d].attempts < MaxAttempts
    <3>1. /\ sender[j] \in SenderRow /\ delivery \in [NoticeKeys -> [Chats -> DeliveryRow]]
          /\ sender[j].key \in NoticeKeys /\ sender[j].chat \in Chats
      BY DEF OutboxShape, SenderRow
    <3> DEFINE k == sender[j].key
    <3>2. delivery[k][c].status = "SCHEDULED"
      BY <1>18 DEF ClaimDelivery, Claimable, RowIsDue
    <3>3. delivery[k][c].attempts \in 0 .. MaxAttempts /\ delivery[k][c].attempts < MaxAttempts
      BY <3>1, <3>2 DEF OutboxLimits
    <3> DEFINE row == [delivery[k][c] EXCEPT !.status = "PROCESSING"]
    <3>4. delivery' = [delivery EXCEPT ![k] = [delivery[k] EXCEPT ![c] = row]]
      BY <1>18, <3>1 DEF ClaimDelivery
    <3>5. row.attempts = delivery[k][c].attempts
      BY <3>1 DEF DeliveryRow
    <3> HIDE DEF row
    <3> QED
      BY <3>1, <3>3, <3>4, <3>5 DEF OutboxLimits
  <2>2. linkedChat' \subseteq Chats
    BY <1>18 DEF OutboxLimits, OutboxShape, NoticeKeys, RowStatus, News, ClaimDelivery, Claimable,
         JobOnly, RowIsDue, VisitKept
  <2>3. \A i \in Senders : /\ sender'[i].now \in 0 .. MaxOutboxClock
                         /\ \A d \in Chats : sender'[i].seen[d] \in 0 .. MaxAttempts - 1
    BY <1>18 DEF OutboxLimits, OutboxShape, NoticeKeys, RowStatus, News, ClaimDelivery, Claimable,
         JobOnly, RowIsDue, VisitKept
  <2>4. salonChanges' \in 0 .. MaxChanges
    BY <1>18 DEF OutboxLimits, OutboxShape, NoticeKeys, RowStatus, News, ClaimDelivery, Claimable,
         JobOnly, RowIsDue, VisitKept
  <2>5. deaths' \in 0 .. MaxDeaths
    BY <1>18 DEF OutboxLimits, OutboxShape, NoticeKeys, RowStatus, News, ClaimDelivery, Claimable,
         JobOnly, RowIsDue, VisitKept
  <2>6. outboxClock' \in 0 .. MaxOutboxClock
    BY <1>18 DEF OutboxLimits, OutboxShape, NoticeKeys, RowStatus, News, ClaimDelivery, Claimable,
         JobOnly, RowIsDue, VisitKept
  <2> QED
    BY <2>1, <2>2, <2>3, <2>4, <2>5, <2>6 DEF OutboxLimits
<1>19. ASSUME NEW j \in Senders, NEW c \in Chats, MissDelivery(j, c) PROVE OutboxLimits'
  BY <1>19 DEF OutboxLimits, OutboxShape, NoticeKeys, RowStatus, News, MissDelivery, Claimable,
       JobOnly, RowIsDue, VisitKept
<1>20. CASE OutboxTick
  BY <1>20 DEF OutboxLimits, OutboxShape, NoticeKeys, RowStatus, News, OutboxTick
<1>21. CASE UNCHANGED outboxVars
  BY <1>21 DEF OutboxLimits, OutboxShape, NoticeKeys, RowStatus, News, outboxVars
<1> QED
  BY <1>1, <1>2, <1>3, <1>4, <1>5, <1>6, <1>7, <1>8, <1>9, <1>10, <1>11, <1>12, <1>13, <1>14, <1>15,
       <1>16, <1>17, <1>18, <1>19, <1>20, <1>21 DEF BusinessOutboxNext, SalonStep, SenderStep

(* A delivery is tried MaxAttempts times at most, and the rows and runs     *)
(* keep their types (business-outbox.ts).                                   *)
THEOREM NoticesTyped == BusinessOutboxSpec => []BusinessOutboxTypeOK
<1>1. BusinessOutboxInit => OutboxLimits
  BY BusinessOutboxAssumption DEF BusinessOutboxInit, OutboxLimits, NoDelivery, IdleSender
<1>2. OutboxInv /\ OutboxLimits => BusinessOutboxTypeOK
  <2> SUFFICES ASSUME OutboxShape, OutboxLimits PROVE BusinessOutboxTypeOK
    BY DEF OutboxInv
  <2>1. \A k \in NoticeKeys : \A c \in Chats :
          delivery[k][c] \in [status : RowStatus, due : Int, attempts : 0 .. MaxAttempts]
    BY DEF OutboxShape, OutboxLimits, DeliveryRow
  <2>2. \A j \in Senders :
          sender[j] \in [pc : {"idle", "notice", "rows", "row", "send", "record", "retry"},
                         now : 0 .. MaxOutboxClock, list : SUBSET NoticeKeys,
                         key : NoticeKeys, todo : SUBSET Chats, chat : Chats,
                         seen : [Chats -> 0 .. MaxAttempts]]
    <3> TAKE j \in Senders
    <3>1. sender[j] \in SenderRow /\ sender[j].now \in 0 .. MaxOutboxClock
          /\ \A c \in Chats : sender[j].seen[c] \in 0 .. MaxAttempts - 1
      BY DEF OutboxShape, OutboxLimits
    <3>2. sender[j].seen \in [Chats -> 0 .. MaxAttempts]
      BY <3>1, BusinessOutboxAssumption DEF SenderRow
    <3> QED
      BY <3>1, <3>2 DEF SenderRow
  <2>3. \A k \in NoticeKeys : delivery[k] \in [Chats -> [status : RowStatus, due : Int, attempts : 0 .. MaxAttempts]]
    BY <2>1 DEF OutboxShape
  <2> QED
    BY <2>2, <2>3 DEF OutboxShape, OutboxLimits, BusinessOutboxTypeOK
<1>3. OutboxInv /\ OutboxLimits /\ [BusinessOutboxNext]_outboxVars => OutboxLimits'
  BY OutboxLimitsNext DEF OutboxInv
<1> QED
  BY <1>1, <1>2, <1>3, OutboxInvHolds, PTL DEF BusinessOutboxSpec

PlanLimits ==
    /\ \A i \in LifecycleRuns : lapseRun[i].now \in 0 .. MaxDay
    /\ \A i \in LifecycleRuns : lapseRun[i].pc # "idle" => lapseRun[i].endsAt \in Nat
    /\ warned \subseteq {"ending", "grace", "expired"} \X Nat
    /\ contested \subseteq Transfers
    /\ grants \in 0 .. MaxGrants
    /\ lapseDeaths \in 0 .. MaxLapseDeaths
    /\ day \in 0 .. MaxDay

LEMMA PlanLimitsNext == PlanShape /\ PlanLimits /\ [SubscriptionNext]_subscriptionVars => PlanLimits'
<1> SUFFICES ASSUME PlanShape, PlanLimits, [SubscriptionNext]_subscriptionVars PROVE PlanLimits'
  OBVIOUS
<1> USE SubscriptionAssumption
<1>1. ASSUME NEW h \in Owners, FindNoOpenInvoice(h) \/ GiveUpRequest(h) PROVE PlanLimits'
  BY <1>1 DEF PlanLimits, PlanShape, FindNoOpenInvoice, GiveUpRequest, Owed, Unused,
       BusinessRowKept, IdleOwner, Unread
<1>2. ASSUME NEW h \in Owners, NEW p \in Periods, CreateInvoice(h, p) PROVE PlanLimits'
  BY <1>2 DEF PlanLimits, PlanShape, CreateInvoice, Unused, IdleOwner, BusinessRowKept, Unread
<1>3. ASSUME NEW h \in Owners, NEW n \in Operations \cup {Unread}, NEW agrees \in BOOLEAN, 
      ReadTransfer(h, n, agrees)
      PROVE  PlanLimits'
  BY <1>3 DEF PlanLimits, PlanShape, ReadTransfer, Unread, Owed, NewestOwed, BusinessRowKept
<1>4. ASSUME NEW h \in Owners, NEW t \in Transfers, CommitTransfer(h, t) PROVE PlanLimits'
  BY <1>4 DEF PlanLimits, PlanShape, CommitTransfer, Repeated, Renewed, IdleOwner, Unread, Extended
<1>5. ASSUME NEW o \in Operators, NEW t \in Transfers, NEW d \in {"approve", "reject"}, 
      ReadForDecision(o, t, d)
      PROVE  PlanLimits'
  BY <1>5 DEF PlanLimits, PlanShape, ReadForDecision, Reviewable, NoEnd, Deciding, BusinessRowKept
<1>6. ASSUME NEW o \in Operators, ReadEndsAt(o) \/ CommitApproval(o) \/ CommitRejection(o)
      PROVE  PlanLimits'
  BY <1>6 DEF PlanLimits, PlanShape, ReadEndsAt, CommitApproval, CommitRejection, Deciding,
       BusinessRowKept, Renewed, IdleOperator, Extended, NoEnd
<1>7. ASSUME NEW o \in Operators, NEW e \in 0 .. MaxDay \cup {NoEnd}, GrantPlan(o, e)
      PROVE  PlanLimits'
  BY <1>7 DEF PlanLimits, PlanShape, GrantPlan
<1>8. ASSUME NEW o \in Operators, ReadGrant(o) \/ CommitGrant(o) \/ GiveUpDecision(o)
      PROVE  PlanLimits'
  BY <1>8 DEF PlanLimits, PlanShape, ReadGrant, CommitGrant, GiveUpDecision, IdleOperator,
       BusinessRowKept, NoEnd
<1>9. ASSUME NEW j \in LifecycleRuns, ListSubscriptions(j) PROVE PlanLimits'
  <2>1. \A i \in LifecycleRuns : lapseRun'[i].pc # "idle" => lapseRun'[i].endsAt \in Nat
    <3> DEFINE r == [pc |-> "advance", now |-> day, status |-> subscription.status, endsAt |-> subscription.endsAt]
    <3>1. subscription \in Plan /\ lapseRun \in [LifecycleRuns -> LapseRun]
      BY DEF PlanShape
    <3>2. r.endsAt \in Nat /\ lapseRun' = [lapseRun EXCEPT ![j] = r]
      BY <1>9, <3>1, SubscriptionAssumption DEF ListSubscriptions, Plan, PeriodEnds
    <3> HIDE DEF r
    <3> QED
      BY <3>1, <3>2 DEF PlanLimits
  <2> QED
    BY <1>9, <2>1 DEF PlanLimits, PlanShape, ListSubscriptions, NoEnd, RowsOnly
<1>10. ASSUME NEW j \in LifecycleRuns, AdvanceStatus(j) PROVE PlanLimits'
  <2>1. \A i \in LifecycleRuns : lapseRun'[i].now \in 0 .. MaxDay
    <3>1. lapseRun \in [LifecycleRuns -> LapseRun]
      BY DEF PlanShape
    <3>2. \E r : lapseRun' = [lapseRun EXCEPT ![j] = r] /\ (r.now = lapseRun[j].now \/ r.now = 0)
      <4> DEFINE next == NextStatus(lapseRun[j].status, lapseRun[j].endsAt, lapseRun[j].now)
                 r == [lapseRun[j] EXCEPT !.pc = "warn", !.status = next]
      <4>1. lapseRun' = [lapseRun EXCEPT ![j] = r] \/ lapseRun' = [lapseRun EXCEPT ![j] = IdleRun]
        BY <1>10, <3>1 DEF AdvanceStatus
      <4>2. r.now = lapseRun[j].now /\ IdleRun.now = 0
        BY <3>1 DEF LapseRun, IdleRun
      <4> HIDE DEF r
      <4> QED
        BY <4>1, <4>2
    <3> QED
      BY <3>1, <3>2 DEF PlanLimits
  <2>2. \A i \in LifecycleRuns : lapseRun'[i].pc # "idle" => lapseRun'[i].endsAt \in Nat
    <3>1. lapseRun \in [LifecycleRuns -> LapseRun] /\ lapseRun[j].pc # "idle"
      BY <1>10 DEF PlanShape, AdvanceStatus
    <3>2. \E r : lapseRun' = [lapseRun EXCEPT ![j] = r] /\ (r.pc = "idle" \/ r.endsAt = lapseRun[j].endsAt)
      <4> DEFINE next == NextStatus(lapseRun[j].status, lapseRun[j].endsAt, lapseRun[j].now)
                 r == [lapseRun[j] EXCEPT !.pc = "warn", !.status = next]
      <4>1. lapseRun' = [lapseRun EXCEPT ![j] = r] \/ lapseRun' = [lapseRun EXCEPT ![j] = IdleRun]
        BY <1>10, <3>1 DEF AdvanceStatus
      <4>2. r.endsAt = lapseRun[j].endsAt /\ IdleRun.pc = "idle"
        BY <3>1 DEF LapseRun, IdleRun
      <4> HIDE DEF r
      <4> QED
        BY <4>1, <4>2
    <3> QED
      BY <3>1, <3>2 DEF PlanLimits
  <2> QED
    BY <1>10, <2>1, <2>2 DEF PlanLimits, PlanShape, AdvanceStatus, NextStatus, StillAsRead, IdleRun,
         RowsOnly, NoEnd
<1>11. ASSUME NEW j \in LifecycleRuns, WarnOfEnd(j) \/ WarnOfTransition(j) \/ DieInLifecycle(j)
      PROVE  PlanLimits'
  BY <1>11 DEF PlanLimits, PlanShape, WarnOfEnd, WarnOfTransition, DieInLifecycle, NextStatus,
       IdleRun, RowsOnly, EventOf, NoEnd
<1>12. CASE NextDay
  BY <1>12 DEF PlanLimits, PlanShape, NextDay
<1>13. CASE UNCHANGED subscriptionVars
  BY <1>13 DEF PlanLimits, PlanShape, subscriptionVars
<1> QED
  BY <1>1, <1>2, <1>3, <1>4, <1>5, <1>6, <1>7, <1>8, <1>9, <1>10, <1>11, <1>12, <1>13 DEF SubscriptionNext, LifecycleStep

(* Plans, bills, transfers, requests and runs keep their types; a warning   *)
(* names the end of a period.                                               *)
THEOREM PlansTyped == SubscriptionSpec => []SubscriptionTypeOK
<1>1. SubscriptionInit => PlanShape /\ PlanLimits
  <2>1. SubscriptionInit => PlanLimits
    BY SubscriptionAssumption DEF SubscriptionInit, PlanLimits, IdleRun
  <2> QED
    BY <2>1, PlanShapeInit
<1>2. PlanShape /\ PlanLimits => SubscriptionTypeOK
  <2> SUFFICES ASSUME PlanShape, PlanLimits PROVE SubscriptionTypeOK
    OBVIOUS
  <2>1. \A j \in LifecycleRuns : lapseRun[j] \in [pc : {"idle", "advance", "warn"}, now : 0 .. MaxDay,
                                                status : Statuses, endsAt : PeriodEnds]
    BY DEF PlanShape, PlanLimits, LapseRun
  <2> QED
    BY <2>1 DEF PlanShape, PlanLimits, SubscriptionTypeOK, Plan, InvoiceRow, TransferRow, OwnerRequest, Decision
<1> QED
  BY <1>1, <1>2, PlanShapeNext, PlanLimitsNext, PTL DEF SubscriptionSpec

FreedLimits ==
    /\ excused \subseteq Visits
    /\ creator.pc # "idle" => creator.at \in Visits
    /\ slotDeaths \in 0 .. MaxSlotDeaths

LEMMA FreedLimitsNext == FreedShape /\ FreedLimits /\ [FreedSlotsNext]_freedVars => FreedLimits'
<1> SUFFICES ASSUME FreedShape, FreedLimits, [FreedSlotsNext]_freedVars PROVE FreedLimits'
  OBVIOUS
<1> USE FreedSlotsAssumption
<1>1. CASE CreateSeries \/ ReserveOccurrence \/ LinkOccurrence \/ CreatorDies
  BY <1>1 DEF FreedLimits, FreedShape, NoEntry, CreateSeries, ReserveOccurrence, LinkOccurrence,
       CreatorDies, EntriesKept, CancelKept, CreatorGoesOn, Dies
<1>2. ASSUME NEW c \in Cancellers, NEW v \in Visits, CancelOne(c, v) \/ SkipOne(c, v) \/
      StaffReads(c, v)
      PROVE  FreedLimits'
  BY <1>2 DEF FreedLimits, FreedShape, NoEntry, CancelOne, SkipOne, StaffReads, CancellerAt,
       StillHeld, LocksVisit, CancellerKept, Locked, Walks, AfterRefusal, Held, FirstOf, Candidates,
       VisitsKept, EntriesKept, IdleCanceller, NoVisit
<1>3. ASSUME NEW c \in Cancellers, StaffUpdates(c) PROVE FreedLimits'
  BY <1>3 DEF FreedLimits, FreedShape, NoEntry, StaffUpdates, CancellerAt, LocksVisit, Held,
       CancellerKept, Locked, FirstOf, Candidates, VisitsKept, EntriesKept
<1>4. ASSUME NEW c \in Cancellers, CommitCancellation(c) PROVE FreedLimits'
  BY <1>4 DEF FreedLimits, FreedShape, NoEntry, CommitCancellation, CancellerAt, Held, Walks,
       IdleCanceller, NoVisit
<1>5. ASSUME NEW c \in Cancellers, CancellerDies(c) PROVE FreedLimits'
  <2>1. excused' \subseteq Visits
    <3>1. canceller[c].list \subseteq Visits
      BY DEF FreedShape, CancelRequest
    <3>2. ListedOccurrences \subseteq Visits
      BY DEF ListedOccurrences
    <3> QED
      BY <1>5, <3>1, <3>2 DEF FreedLimits, CancellerDies
  <2>2. creator'.pc # "idle" => creator'.at \in Visits
    BY <1>5 DEF FreedLimits, FreedShape, NoEntry, CancellerDies, CancellerAt, Dies, IdleCanceller,
         ListedOccurrences, VisitsKept, EntriesKept, NoVisit, Held
  <2>3. slotDeaths' \in 0 .. MaxSlotDeaths
    BY <1>5 DEF FreedLimits, CancellerDies, CancellerAt, Dies, IdleCanceller, ListedOccurrences,
         VisitsKept, EntriesKept, NoVisit, Held
  <2> QED
    BY <2>1, <2>2, <2>3 DEF FreedLimits
<1>6. ASSUME NEW c \in Cancellers, OpenSeries(c) PROVE FreedLimits'
  BY <1>6 DEF FreedLimits, FreedShape, NoEntry, OpenSeries, CancellerAt, CancellerKept, VisitsKept,
       EntriesKept
<1>7. ASSUME NEW c \in Cancellers, MarkSeries(c) PROVE FreedLimits'
  BY <1>7 DEF FreedLimits, FreedShape, NoEntry, MarkSeries, CancellerAt, EntriesKept
<1>8. ASSUME NEW c \in Cancellers, ListSeries(c) PROVE FreedLimits'
  BY <1>8 DEF FreedLimits, FreedShape, NoEntry, ListSeries, CancellerAt, Walks, ListedOccurrences,
       CancellerKept, IdleCanceller, Held, VisitsKept, EntriesKept, NoVisit
<1>9. ASSUME NEW e \in Entries, JoinWaitlist(e) \/ CancelWaitlistEntry(e) \/ ClaimAlert(e)
      PROVE  FreedLimits'
  BY <1>9 DEF FreedLimits, FreedShape, NoEntry, JoinWaitlist, CancelWaitlistEntry, ClaimAlert,
       VisitsKept, CancelKept, NoAlert, AlertKept
<1>10. ASSUME NEW v \in Visits, ExpireOccurrence(v) PROVE FreedLimits'
  BY <1>10 DEF FreedLimits, FreedShape, NoEntry, ExpireOccurrence, Held, Locked, EntriesKept,
       CancelKept, CancellerAt
<1>11. CASE ResolveAlert \/ SendAlert \/ AlertJobDies
  BY <1>11 DEF FreedLimits, FreedShape, NoEntry, ResolveAlert, SendAlert, AlertJobDies, NoAlert,
       AlertKept, Dies, VisitsKept, CancelKept
<1>12. CASE UNCHANGED freedVars
  BY <1>12 DEF FreedLimits, FreedShape, NoEntry, freedVars
<1> QED
  BY <1>1, <1>2, <1>3, <1>4, <1>5, <1>6, <1>7, <1>8, <1>9, <1>10, <1>11, <1>12 DEF FreedSlotsNext

(* Visits, the requests that cancel them and the waitlist have their types. *)
THEOREM FreedSlotsTyped == FreedSlotsSpec => []FreedSlotsTypeOK
<1>1. FreedSlotsInit => FreedLimits
  BY FreedSlotsAssumption DEF FreedSlotsInit, FreedLimits
<1>2. FreedInv /\ FreedLimits => FreedSlotsTypeOK
  BY DEF FreedInv, FreedShape, OfferInv, WithdrawnInv, FreedLimits, FreedSlotsTypeOK, Occurrence, CancelRequest, WaitingRow
<1>3. FreedInv /\ FreedLimits /\ [FreedSlotsNext]_freedVars => FreedLimits'
  BY FreedLimitsNext DEF FreedInv
<1> QED
  BY <1>1, <1>2, <1>3, FreedInvHolds, PTL DEF FreedSlotsSpec

HookLimits ==
    /\ \A u \in Updates : inbound[u].claimedAt <= MaxHookClock
    /\ \A e \in Deliveries : hook[e].now <= MaxHookClock
    /\ undelivered \subseteq Updates
    /\ faulty \subseteq Updates /\ overdue \subseteq Updates /\ orphaned \subseteq Updates /\ dismissed \subseteq Updates
    /\ hookClock <= MaxHookClock

LEMMA HookLimitsNext == HookShape /\ HookLimits /\ [InboundNext]_inboundVars => HookLimits'
<1> SUFFICES ASSUME HookShape, HookLimits, [InboundNext]_inboundVars PROVE HookLimits'
  OBVIOUS
<1> USE InboundAssumption
<1>1. ASSUME NEW d \in Deliveries, NEW u \in Updates, Deliver(d, u) PROVE HookLimits'
  BY <1>1 DEF HookLimits, HookShape, HookRow, UpdateRow, UpdatePcs, Deliver, At, QueueKept,
       RowsKept, WorldKept
<1>2. ASSUME NEW d \in Deliveries, ClaimNew(d) PROVE HookLimits'
  BY <1>2 DEF HookLimits, HookShape, HookRow, UpdateRow, UpdatePcs, ClaimNew, At, HandlerOf, Claims,
       Goes, QueueKept, WorldKept
<1>3. ASSUME NEW d \in Deliveries, AnswerKnown(d) PROVE HookLimits'
  BY <1>3 DEF HookLimits, HookShape, HookRow, UpdateRow, UpdatePcs, AnswerKnown, At, HandlerOf,
       Answers200, Stale, AnswersBusy, RowsKept, WorldKept, Goes
<1>4. ASSUME NEW d \in Deliveries, SeeReclaimable(d) PROVE HookLimits'
  BY <1>4 DEF HookLimits, HookShape, HookRow, UpdateRow, UpdatePcs, SeeReclaimable, At, Reclaimable,
       Goes, QueueKept, RowsKept, WorldKept, HandlerOf, Stale
<1>5. ASSUME NEW d \in Deliveries, Reclaim(d) PROVE HookLimits'
  <2>1. \A u \in Updates : inbound'[u].claimedAt <= MaxHookClock
    BY <1>5 DEF HookLimits, HookShape, HookRow, UpdateRow, UpdatePcs, Reclaim, At, Reclaimable,
         Claims, Goes, Handling, HandlerOf, QueueKept, AnswersBusy, RowsKept, WorldKept, Stale,
         Answers200
  <2>2. \A e \in Deliveries : hook'[e].now <= MaxHookClock
    BY <1>5 DEF HookLimits, HookShape, HookRow, UpdateRow, UpdatePcs, Reclaim, At, Reclaimable,
         Claims, Goes, Handling, HandlerOf, QueueKept, AnswersBusy, RowsKept, WorldKept, Stale,
         Answers200
  <2>3. undelivered' \subseteq Updates
    BY <1>5 DEF HookLimits, HookShape, HookRow, UpdateRow, UpdatePcs, Reclaim, At, Reclaimable,
         Claims, Goes, Handling, HandlerOf, QueueKept, AnswersBusy, RowsKept, WorldKept, Stale,
         Answers200
  <2>4. faulty' \subseteq Updates /\ overdue' \subseteq Updates /\ orphaned' \subseteq Updates /\ dismissed' \subseteq Updates
    BY <1>5 DEF HookLimits, HookShape, HookRow, UpdateRow, UpdatePcs, Reclaim, At, Reclaimable,
         Claims, Goes, Handling, HandlerOf, QueueKept, AnswersBusy, RowsKept, WorldKept, Stale,
         Answers200
  <2>5. hookClock' <= MaxHookClock
    BY <1>5 DEF HookLimits, HookShape, HookRow, UpdateRow, UpdatePcs, Reclaim, At, Reclaimable,
         Claims, Goes, Handling, HandlerOf, QueueKept, AnswersBusy, RowsKept, WorldKept, Stale,
         Answers200
  <2> QED
    BY <2>1, <2>2, <2>3, <2>4, <2>5 DEF HookLimits
<1>6. ASSUME NEW d \in Deliveries, Handle(d) PROVE HookLimits'
  BY <1>6 DEF HookLimits, HookShape, HookRow, UpdateRow, UpdatePcs, Handle, At, HandlerOf, Goes,
       QueueKept, WorldKept
<1>7. ASSUME NEW d \in Deliveries, HandlerThrows(d) PROVE HookLimits'
  BY <1>7 DEF HookLimits, HookShape, HookRow, UpdateRow, UpdatePcs, HandlerThrows, At, HandlerOf,
       Goes, QueueKept, WorldKept
<1>8. ASSUME NEW d \in Deliveries, CompleteUpdate(d) PROVE HookLimits'
  BY <1>8 DEF HookLimits, HookShape, HookRow, UpdateRow, UpdatePcs, CompleteUpdate, At, Completed,
       Answers200, WorldKept, HandlerOf, Goes
<1>9. ASSUME NEW d \in Deliveries, FailUpdate(d) PROVE HookLimits'
  BY <1>9 DEF HookLimits, HookShape, HookRow, UpdateRow, UpdatePcs, FailUpdate, At, HandlerOf, Goes,
       QueueKept, WorldKept
<1>10. ASSUME NEW d \in Deliveries, HookDies(d) PROVE HookLimits'
  BY <1>10 DEF HookLimits, HookShape, HookRow, UpdateRow, UpdatePcs, HookDies, At, HandlerOf, Goes,
       QueueKept, RowsKept
<1>11. CASE HookTick
  BY <1>11 DEF HookLimits, HookShape, HookRow, UpdateRow, UpdatePcs, HookTick, QueueKept, RowsKept
<1>12. CASE UNCHANGED inboundVars
  BY <1>12 DEF HookLimits, HookShape, HookRow, UpdateRow, UpdatePcs, inboundVars
<1> QED
  BY <1>1, <1>2, <1>3, <1>4, <1>5, <1>6, <1>7, <1>8, <1>9, <1>10, <1>11, <1>12 DEF InboundNext

(* Updates and their deliveries have their types. *)
THEOREM UpdatesTyped == InboundSpec => []InboundTypeOK
<1>1. InboundInit => HookShape /\ HookLimits
  BY InboundAssumption DEF InboundInit, HookShape, HookLimits, HookRow, UpdatePcs, UpdateRow, NoHook
<1>2. HookShape /\ HookLimits => InboundTypeOK
  BY InboundAssumption DEF HookShape, HookLimits, HookRow, UpdatePcs, UpdateRow, InboundTypeOK
<1>3. HookShape /\ [InboundNext]_inboundVars => HookShape'
  BY HookShapeHolds
<1> QED
  BY <1>1, <1>2, <1>3, HookLimitsNext, PTL DEF InboundSpec

BotLimits ==
    /\ visit.startsAt \in Starts
    /\ \A c \in Cards : card[c].made <= MaxBotClock
    /\ overtaken \subseteq Receipts
    /\ botDeaths \in 0 .. MaxBotDeaths /\ botClock \in 0 .. MaxBotClock

LEMMA BotLimitsNext == BotShape /\ BotLimits /\ [BusinessBotNext]_botVars => BotLimits'
<1> SUFFICES ASSUME BotShape, BotLimits, [BusinessBotNext]_botVars PROVE BotLimits'
  OBVIOUS
<1> USE BusinessBotAssumption
<1>1. ASSUME NEW m \in Members, NEW c \in Cards, ShowCard(m, c) PROVE BotLimits'
  BY <1>1 DEF BotLimits, BotShape, Cards, Buttons, ShowCard, BookingCard, RescheduleSlots,
       CancellationReasons, ApprovalConfirmation, RejectionReasons, Unpaid, Ahead, Actionable,
       Newest, Awaiting
<1>2. ASSUME NEW t \in Taps, NEW c \in Cards, NEW b \in card[c].buttons, Tap(t, c, b)
      PROVE  BotLimits'
  BY <1>2 DEF BotLimits, BotShape, Cards, Buttons, Tap, ConsumeAction
<1>3. ASSUME NEW t \in Taps, ReadCommand(t) PROVE BotLimits'
  BY <1>3 DEF BotLimits, BotShape, Cards, Buttons, ReadCommand, Allowed, IdleTap, Command, Unpaid,
       Ahead, Argument, ReviewAllowed, Actionable, Newest, Awaiting
<1>4. ASSUME NEW t \in Taps, ConfirmByTap(t) PROVE BotLimits'
  BY <1>4 DEF BotLimits, BotShape, Cards, Buttons, ConfirmByTap, Writes, Acts, Command, IdleTap
<1>5. ASSUME NEW t \in Taps, CancelByTap(t) PROVE BotLimits'
  BY <1>5 DEF BotLimits, BotShape, Cards, Buttons, CancelByTap, Writes, Acts, Command, IdleTap
<1>6. ASSUME NEW t \in Taps, RemindByTap(t) PROVE BotLimits'
  <2>1. visit'.startsAt \in Starts
    <3>1. visit \in BotVisitRow
      BY DEF BotShape
    <3> QED
      BY <1>6, <3>1 DEF BotLimits, BotVisitRow, RemindByTap
  <2>2. \A c \in Cards : card'[c].made <= MaxBotClock
    BY <1>6 DEF BotLimits, BotShape, Cards, Buttons, RemindByTap, Writes, Acts, Command, IdleTap
  <2>3. overtaken' \subseteq Receipts
    BY <1>6 DEF BotLimits, BotShape, Cards, Buttons, RemindByTap, Writes, Acts, Command, IdleTap
  <2>4. botDeaths' \in 0 .. MaxBotDeaths /\ botClock' \in 0 .. MaxBotClock
    BY <1>6 DEF BotLimits, BotShape, Cards, Buttons, RemindByTap, Writes, Acts, Command, IdleTap
  <2> QED
    BY <2>1, <2>2, <2>3, <2>4 DEF BotLimits
<1>7. ASSUME NEW t \in Taps, MoveByTap(t) PROVE BotLimits'
  <2>1. visit'.startsAt \in Starts
    <3>1. visit \in BotVisitRow /\ tap[t].button \in Buttons
      BY DEF BotShape, TapRow
    <3>2. Command(t) = "move" => Argument(t) \in Starts
      BY <3>1, TheButtons DEF Command, Argument
    <3> QED
      BY <1>7, <3>1, <3>2 DEF BotLimits, BotVisitRow, MoveByTap, Writes
  <2>2. \A c \in Cards : card'[c].made <= MaxBotClock
    BY <1>7 DEF BotLimits, BotShape, Cards, Buttons, MoveByTap, Writes, Ahead, Argument, Acts,
         Command, IdleTap, Unpaid
  <2>3. overtaken' \subseteq Receipts
    BY <1>7 DEF BotLimits, BotShape, Cards, Buttons, MoveByTap, Writes, Ahead, Argument, Acts,
         Command, IdleTap, Unpaid
  <2>4. botDeaths' \in 0 .. MaxBotDeaths /\ botClock' \in 0 .. MaxBotClock
    BY <1>7 DEF BotLimits, BotShape, Cards, Buttons, MoveByTap, Writes, Ahead, Argument, Acts,
         Command, IdleTap, Unpaid
  <2> QED
    BY <2>1, <2>2, <2>3, <2>4 DEF BotLimits
<1>8. ASSUME NEW t \in Taps, ApproveByTap(t) PROVE BotLimits'
  <2>1. visit'.startsAt \in Starts
    <3>1. visit \in BotVisitRow
      BY DEF BotShape
    <3> QED
      BY <1>8, <3>1 DEF BotLimits, BotVisitRow, ApproveByTap, ReviewByTap
  <2>2. \A c \in Cards : card'[c].made <= MaxBotClock
    BY <1>8 DEF BotLimits, BotShape, Cards, Buttons, ApproveByTap, ReviewByTap, Writes, Argument,
         Acts, Command, IdleTap
  <2>3. overtaken' \subseteq Receipts
    BY <1>8 DEF BotLimits, BotShape, Cards, Buttons, ApproveByTap, ReviewByTap, Writes, Argument,
         Acts, Command, IdleTap
  <2>4. botDeaths' \in 0 .. MaxBotDeaths /\ botClock' \in 0 .. MaxBotClock
    BY <1>8 DEF BotLimits, BotShape, Cards, Buttons, ApproveByTap, ReviewByTap, Writes, Argument,
         Acts, Command, IdleTap
  <2> QED
    BY <2>1, <2>2, <2>3, <2>4 DEF BotLimits
<1>9. ASSUME NEW t \in Taps, RejectByTap(t) PROVE BotLimits'
  <2>1. visit'.startsAt \in Starts
    <3>1. visit \in BotVisitRow
      BY DEF BotShape
    <3> QED
      BY <1>9, <3>1 DEF BotLimits, BotVisitRow, RejectByTap, ReviewByTap
  <2>2. \A c \in Cards : card'[c].made <= MaxBotClock
    BY <1>9 DEF BotLimits, BotShape, Cards, Buttons, RejectByTap, ReviewByTap, Writes, Argument,
         Acts, Command, IdleTap
  <2>3. overtaken' \subseteq Receipts
    BY <1>9 DEF BotLimits, BotShape, Cards, Buttons, RejectByTap, ReviewByTap, Writes, Argument,
         Acts, Command, IdleTap
  <2>4. botDeaths' \in 0 .. MaxBotDeaths /\ botClock' \in 0 .. MaxBotClock
    BY <1>9 DEF BotLimits, BotShape, Cards, Buttons, RejectByTap, ReviewByTap, Writes, Argument,
         Acts, Command, IdleTap
  <2> QED
    BY <2>1, <2>2, <2>3, <2>4 DEF BotLimits
<1>10. ASSUME NEW t \in Taps, TapDies(t) PROVE BotLimits'
  BY <1>10 DEF BotLimits, BotShape, Cards, Buttons, TapDies, IdleTap
<1>11. ASSUME NEW s \in Receipts, CustomerSends(s) PROVE BotLimits'
  BY <1>11 DEF BotLimits, BotShape, Cards, Buttons, CustomerSends, Unpaid, Elsewhere
<1>12. ASSUME NEW s \in Receipts, RecogniserDoubts(s) PROVE BotLimits'
  <2>1. visit'.startsAt \in Starts
    BY <1>12 DEF BotLimits, BotShape, Cards, Buttons, RecogniserDoubts, Argument, Command, Elsewhere
  <2>2. \A c \in Cards : card'[c].made <= MaxBotClock
    BY <1>12 DEF BotLimits, BotShape, Cards, Buttons, RecogniserDoubts, Argument, Command, Elsewhere
  <2>3. overtaken' \subseteq Receipts
    <3>1. ASSUME NEW t \in Taps, Command(t) \in {"approve", "reject"} PROVE Argument(t) \in Receipts
      <4>1. tap[t].button \in Buttons
        BY DEF BotShape, TapRow
      <4> QED
        BY <3>1, <4>1, TheButtons DEF Command, Argument
    <3> QED
      BY <1>12, <3>1 DEF BotLimits, RecogniserDoubts
  <2>4. botDeaths' \in 0 .. MaxBotDeaths /\ botClock' \in 0 .. MaxBotClock
    BY <1>12 DEF BotLimits, BotShape, Cards, Buttons, RecogniserDoubts, Argument, Command, Elsewhere
  <2> QED
    BY <2>1, <2>2, <2>3, <2>4 DEF BotLimits
<1>13. ASSUME NEW s \in Receipts, RecogniserAccepts(s) PROVE BotLimits'
  BY <1>13 DEF BotLimits, BotShape, Cards, Buttons, RecogniserAccepts, Unpaid, Elsewhere
<1>14. CASE HoldExpires
  BY <1>14 DEF BotLimits, BotShape, Cards, Buttons, HoldExpires, Unpaid, Elsewhere
<1>15. CASE BotTick
  BY <1>15 DEF BotLimits, BotShape, Cards, Buttons, BotTick, Elsewhere
<1>16. CASE UNCHANGED botVars
  BY <1>16 DEF BotLimits, BotShape, Cards, Buttons, botVars
<1> QED
  BY <1>1, <1>2, <1>3, <1>4, <1>5, <1>6, <1>7, <1>8, <1>9, <1>10, <1>11, <1>12, <1>13, <1>14, <1>15,
       <1>16 DEF BusinessBotNext

(* The visit, its receipts, the cards and the taps have their types. *)
THEOREM StaffBotTyped == BusinessBotSpec => []BusinessBotTypeOK
<1>1. BusinessBotInit => BotShape /\ BotLimits
  <2> SUFFICES ASSUME BusinessBotInit PROVE BotShape /\ BotLimits
    OBVIOUS
  <2>1. NoCard \in CardRow /\ NoCard.made = 0
    BY BusinessBotAssumption DEF NoCard, CardRow
  <2>2. BotShape
    BY <2>1, IdleTapIsARow, BusinessBotAssumption DEF BusinessBotInit, BotShape, BotVisitRow, Payments, ReceiptStates
  <2>3. BotLimits
    BY <2>1, BusinessBotAssumption DEF BusinessBotInit, BotLimits
  <2> QED
    BY <2>2, <2>3
<1>2. BotShape /\ BotLimits => BusinessBotTypeOK
  <2> SUFFICES ASSUME BotShape, BotLimits PROVE BusinessBotTypeOK
    OBVIOUS
  <2>1. \A c \in Cards : card[c] \in [member : Members, buttons : SUBSET Buttons, made : 0 .. MaxBotClock,
                                      consumed : SUBSET Buttons]
    BY BusinessBotAssumption DEF BotShape, BotLimits, CardRow
  <2> QED
    BY <2>1 DEF BotShape, BotLimits, BusinessBotTypeOK, BotVisitRow, Payments, ReceiptStates, TapRow
<1>3. BotShape /\ [BusinessBotNext]_botVars => BotShape'
  BY BotShapeHolds
<1> QED
  BY <1>1, <1>2, <1>3, BotLimitsNext, PTL DEF BusinessBotSpec

ChatLimits ==
    /\ chatDeaths \in 0 .. MaxChatDeaths

LEMMA ChatLimitsNext == ChatLimits /\ [CustomerBotNext]_chatVars => ChatLimits'
<1> SUFFICES ASSUME ChatLimits, [CustomerBotNext]_chatVars PROVE ChatLimits'
  OBVIOUS
<1> USE CustomerBotAssumption
<1>1. ASSUME NEW h \in Chat, NEW s \in {"LANGUAGE", "HOME", Steps[1]}, StartOver(h, s)
      PROVE  ChatLimits'
  BY <1>1 DEF ChatLimits, StartOver, Replace, QuietChat, OrdersKept, NotSelecting, Alive, Others,
       Renders, NoOrder
<1>2. ASSUME NEW h \in Chat, NEW command \in {"LANGUAGE", "AWAITING_PAYMENT"} \cup Asked, 
      Choose(h, command)
      PROVE  ChatLimits'
  BY <1>2 DEF ChatLimits, Choose, ReadSession, OrdersKept, NotSelecting, Alive, Becomes, QuietChat,
       NoOrder
<1>3. ASSUME NEW h \in Chat, NEW from \in Backward, ReadBack(h, from) PROVE ChatLimits'
  BY <1>3 DEF ChatLimits, ReadBack, Becomes, QuietChat, Before, OrdersKept, NotSelecting, Alive,
       NoOrder, Flow
<1>4. ASSUME NEW h \in Chat, CommandAfterEffect(h) \/ WriteSession(h) \/ WriteBack(h) \/ Render(h)
      PROVE  ChatLimits'
  BY <1>4 DEF ChatLimits, CommandAfterEffect, WriteSession, WriteBack, Render, ReadSession, Becomes,
       QuietChat, OrdersKept, NotSelecting, Alive, Transition, Others, Renders, Selects, Replace,
       Asked, NoOrder, After, HasReceipt, Flow
<1>5. ASSUME NEW h \in Chat, NEW c \in ConfirmCards, TapConfirm(h, c) PROVE ChatLimits'
  BY <1>5 DEF ChatLimits, TapConfirm, ConsumeRow, Becomes, QuietChat, NotSelecting, Alive, NoOrder
<1>6. ASSUME NEW h \in Chat, NEW b \in Orders, BookSession(h, b) \/ SelectPayment(h, b)
      PROVE  ChatLimits'
  BY <1>6 DEF ChatLimits, BookSession, SelectPayment, Asked, Becomes, QuietChat, Replace,
       NotSelecting, Alive, Selects, OrdersKept, NoOrder, Others, Renders, HasReceipt
<1>7. ASSUME NEW h \in Chat, RefuseBooking(h) \/ SendPhoto(h) \/ ReadReceipt(h) \/ ChatDies(h)
      PROVE  ChatLimits'
  BY <1>7 DEF ChatLimits, RefuseBooking, SendPhoto, ReadReceipt, ChatDies, Becomes, QuietChat,
       OrdersKept, NotSelecting, Alive, NoOrder, EndsConversation
<1>8. ASSUME NEW b \in Orders, NEW status \in {"CANCELLED", "EXPIRED"}, EndOrder(b, status)
      PROVE  ChatLimits'
  BY <1>8 DEF ChatLimits, EndOrder, Open, NotSelecting, Alive
<1>9. CASE SessionExpires
  BY <1>9 DEF ChatLimits, SessionExpires, CardsExpire, NotSelecting, Alive
<1>10. ASSUME NEW c \in ConfirmCards, CardExpires(c) PROVE ChatLimits'
  BY <1>10 DEF ChatLimits, CardExpires, CardsExpire, NotSelecting, Alive
<1>11. CASE UNCHANGED chatVars
  BY <1>11 DEF ChatLimits, chatVars
<1> QED
  BY <1>1, <1>2, <1>3, <1>4, <1>5, <1>6, <1>7, <1>8, <1>9, <1>10, <1>11 DEF CustomerBotNext

(* The session, the orders and the handlers of a chat have their types. *)
THEOREM ChatTyped == CustomerBotSpec => []CustomerBotTypeOK
<1>1. CustomerBotInit => ChatLimits
  BY CustomerBotAssumption DEF CustomerBotInit, ChatLimits
<1>2. ChatShape /\ ChatLimits => CustomerBotTypeOK
  BY DEF ChatShape, ChatLimits, CustomerBotTypeOK, OrderRow, ChatRow
<1> QED
  BY <1>1, <1>2, ChatShapeHolds, ChatLimitsNext, PTL DEF CustomerBotSpec

SetupLimits ==
    /\ settings \in {"DISCONNECTED", "PENDING", "ACTIVE"}
    /\ setupFaults \in 0 .. MaxSetupFaults

LEMMA SetupLimitsNext == SetupShape /\ SetupLimits /\ [TelegramSetupNext]_setupVars => SetupLimits'
<1> SUFFICES ASSUME SetupShape, SetupLimits, [TelegramSetupNext]_setupVars PROVE SetupLimits'
  OBVIOUS
<1> USE TelegramSetupAssumption
<1>1. ASSUME NEW h \in Hands, ConnectHooks(h) PROVE SetupLimits'
  <2>1. settings' \in {"DISCONNECTED", "PENDING", "ACTIVE"}
    BY <1>1 DEF SetupLimits, ConnectHooks, HandAt, HandTo, Sound, Faulty, RowsOnlyKept
  <2>2. setupFaults' \in 0 .. MaxSetupFaults
    BY <1>1 DEF SetupLimits, ConnectHooks, HandAt, HandTo, Sound, Faulty, RowsOnlyKept
  <2> QED
    BY <2>1, <2>2 DEF SetupLimits
<1>2. ASSUME NEW h \in Hands, ConnectDrops(h) PROVE SetupLimits'
  BY <1>2 DEF SetupLimits, SetupShape, Row, Nothing, NoBot, ConnectDrops, HandAt, NoIntegration,
       HandGivesUp, Sound, SomeSalon, HandRests, HandTo, IdleHand
<1>3. ASSUME NEW h \in Hands, ConnectSaves(h) PROVE SetupLimits'
  BY <1>3 DEF SetupLimits, SetupShape, Row, Nothing, NoBot, ConnectSaves, HandAt, Fits, MakesActive,
       FormShows, HandRests, HandTo, HandGivesUp, Sound, SalonRow, BotRow, Overtaken, IdleHand,
       Kept, SomeSalon
<1>4. ASSUME NEW h \in Hands, RotateHooks(h) PROVE SetupLimits'
  <2>1. settings' \in {"DISCONNECTED", "PENDING", "ACTIVE"}
    BY <1>4 DEF SetupLimits, RotateHooks, HandAt, HandTo, Sound, HandRests, Faulty, RowsOnlyKept,
         IdleHand, SomeSalon
  <2>2. setupFaults' \in 0 .. MaxSetupFaults
    BY <1>4 DEF SetupLimits, RotateHooks, HandAt, HandTo, Sound, HandRests, Faulty, RowsOnlyKept,
         IdleHand, SomeSalon
  <2> QED
    BY <2>1, <2>2 DEF SetupLimits
<1>5. ASSUME NEW h \in Hands, RotateSaves(h) PROVE SetupLimits'
  BY <1>5 DEF SetupLimits, SetupShape, Row, Nothing, NoBot, RotateSaves, HandAt, Fits, Rotated,
       MakesActive, FormShows, HandRests, HandTo, Sound, SalonRow, BotRow, Overtaken, IdleHand,
       Kept, SomeSalon
<1>6. ASSUME NEW h \in Hands, RotateCleans(h) PROVE SetupLimits'
  <2>1. settings' \in {"DISCONNECTED", "PENDING", "ACTIVE"}
    BY <1>6 DEF SetupLimits, RotateCleans, HandAt, Sound, Faulty, HandRests, RowsOnlyKept, IdleHand,
         SomeSalon
  <2>2. setupFaults' \in 0 .. MaxSetupFaults
    BY <1>6 DEF SetupLimits, RotateCleans, HandAt, Sound, Faulty, HandRests, RowsOnlyKept, IdleHand,
         SomeSalon
  <2> QED
    BY <2>1, <2>2 DEF SetupLimits
<1>7. ASSUME NEW h \in Hands, Unhooks(h) PROVE SetupLimits'
  <2>1. settings' \in {"DISCONNECTED", "PENDING", "ACTIVE"}
    BY <1>7 DEF SetupLimits, Unhooks, HandAt, HandTo, Sound, HandRests, Faulty, RowsOnlyKept,
         IdleHand, SomeSalon
  <2>2. setupFaults' \in 0 .. MaxSetupFaults
    BY <1>7 DEF SetupLimits, Unhooks, HandAt, HandTo, Sound, HandRests, Faulty, RowsOnlyKept,
         IdleHand, SomeSalon
  <2> QED
    BY <2>1, <2>2 DEF SetupLimits
<1>8. ASSUME NEW h \in Hands, DisconnectSaves(h) PROVE SetupLimits'
  BY <1>8 DEF SetupLimits, SetupShape, Row, Nothing, NoBot, DisconnectSaves, HandAt, Overtaken,
       FormShows, HandRests, Sound, IdleHand, SomeSalon
<1>9. ASSUME NEW h \in Hands, AdminRetries(h) PROVE SetupLimits'
  BY <1>9 DEF SetupLimits, SetupShape, Row, Nothing, NoBot, AdminRetries, HandAt, Kept, Takes, Sound
<1>10. ASSUME NEW h \in Hands, RetryHooks(h) PROVE SetupLimits'
  <2>1. settings' \in {"DISCONNECTED", "PENDING", "ACTIVE"}
    BY <1>10 DEF SetupLimits, RetryHooks, HandAt, HandTo, Sound, HandRests, Faulty, RowsOnlyKept,
         IdleHand, SomeSalon
  <2>2. setupFaults' \in 0 .. MaxSetupFaults
    BY <1>10 DEF SetupLimits, RetryHooks, HandAt, HandTo, Sound, HandRests, Faulty, RowsOnlyKept,
         IdleHand, SomeSalon
  <2> QED
    BY <2>1, <2>2 DEF SetupLimits
<1>11. ASSUME NEW h \in Hands, RetrySaves(h) PROVE SetupLimits'
  BY <1>11 DEF SetupLimits, SetupShape, Row, Nothing, NoBot, RetrySaves, HandAt, Fits, MakesActive,
       HandRests, Sound, SalonRow, BotRow, Overtaken, IdleHand, Kept, SomeSalon
<1>12. ASSUME NEW h \in Hands, OtherTab(h) PROVE SetupLimits'
  BY <1>12 DEF SetupLimits, SetupShape, Row, Nothing, NoBot, OtherTab, HandAt, StartsDisconnect,
       StartsConnect, StartsRotate, Sound, SalonRow, Takes, NextKey, BotRow, HandGivesUp, Kept,
       HandRests, HandTo, IdleHand, SomeSalon
<1>13. ASSUME NEW h \in Hands, NEW b \in Bots, ClaimIntent(h, b) PROVE SetupLimits'
  BY <1>13 DEF SetupLimits, SetupShape, Row, Nothing, NoBot, ClaimIntent, HandAt, Offered, Latest,
       Underway, Done, Swept, IdleHand, Sound, SomeSalon
<1>14. ASSUME NEW h \in Hands, LookForBot(h) PROVE SetupLimits'
  BY <1>14 DEF SetupLimits, SetupShape, Row, Nothing, NoBot, LookForBot, HandAt, AlreadyConnected,
       HandTo, StartsConnect, Sound, SalonRow, NextKey, BotRow, HandGivesUp, Kept, HandRests,
       IdleHand, SomeSalon
<1>15. ASSUME NEW h \in Hands, CompleteIntent(h) PROVE SetupLimits'
  BY <1>15 DEF SetupLimits, SetupShape, Row, Nothing, NoBot, CompleteIntent, HandAt, HandTo, Sound
<1>16. ASSUME NEW h \in Hands, TellOwner(h) PROVE SetupLimits'
  <2>1. settings' \in {"DISCONNECTED", "PENDING", "ACTIVE"}
    BY <1>16 DEF SetupLimits, TellOwner, HandAt, HandRests, Sound, HandTo, Faulty, RowsOnlyKept,
         IdleHand, SomeSalon
  <2>2. setupFaults' \in 0 .. MaxSetupFaults
    BY <1>16 DEF SetupLimits, TellOwner, HandAt, HandRests, Sound, HandTo, Faulty, RowsOnlyKept,
         IdleHand, SomeSalon
  <2> QED
    BY <2>1, <2>2 DEF SetupLimits
<1>17. ASSUME NEW h \in Hands, FailIntent(h) PROVE SetupLimits'
  BY <1>17 DEF SetupLimits, SetupShape, Row, Nothing, NoBot, FailIntent, HandAt, HandRests, Sound,
       IdleHand, SomeSalon
<1>18. ASSUME NEW h \in Hands, HandDies(h) PROVE SetupLimits'
  <2>1. settings' \in {"DISCONNECTED", "PENDING", "ACTIVE"}
    BY <1>18 DEF SetupLimits, HandDies, HandAt, HandRests, Faulty, RowsOnlyKept, IdleHand, SomeSalon
  <2>2. setupFaults' \in 0 .. MaxSetupFaults
    BY <1>18 DEF SetupLimits, HandDies, HandAt, HandRests, Faulty, RowsOnlyKept, IdleHand, SomeSalon
  <2> QED
    BY <2>1, <2>2 DEF SetupLimits
<1>19. ASSUME NEW b \in Bots, SubmitToken(b) PROVE SetupLimits'
  BY <1>19 DEF SetupLimits, SetupShape, Row, Nothing, NoBot, SubmitToken, HandAt, Configured,
       StartsRotate, StartsConnect, Sound, NextKey, SalonRow, BotRow, HandGivesUp, Kept, HandRests,
       HandTo, IdleHand, SomeSalon
<1>20. CASE SubmitDisconnect \/ ReloadSettings
  BY <1>20 DEF SetupLimits, SetupShape, Row, Nothing, NoBot, SubmitDisconnect, ReloadSettings,
       HandAt, Configured, StartsDisconnect, Sound, SalonRow, Takes, Kept
<1>21. ASSUME NEW i \in Intents, NEW s \in Salons, CreateIntent(i, s) PROVE SetupLimits'
  BY <1>21 DEF SetupLimits, SetupShape, Row, Nothing, NoBot, CreateIntent, SetupKept
<1>22. CASE UNCHANGED setupVars
  BY <1>22 DEF SetupLimits, SetupShape, Row, Nothing, NoBot, setupVars
<1> QED
  BY <1>1, <1>2, <1>3, <1>4, <1>5, <1>6, <1>7, <1>8, <1>9, <1>10, <1>11, <1>12, <1>13, <1>14, <1>15,
       <1>16, <1>17, <1>18, <1>19, <1>20, <1>21, <1>22 DEF TelegramSetupNext

(* Only a bot's own name is ever connected. *)
LookingBot == \A h \in Hands : hands[h].pc = "look" => hands[h].bot \in Bots
RowsBot == \A r \in Keys : rows[r].state # "none" => rows[r].bot \in Bots
EverBot == everActive \subseteq Salons \X Bots
NamesBots == LookingBot /\ RowsBot /\ EverBot

LEMMA LookPut ==
  ASSUME SetupShape, LookingBot, NEW h \in Hands, NEW new, hands' = [hands EXCEPT ![h] = new],
         new.pc = "look" => new.bot \in Bots
  PROVE  LookingBot'
<1> QED
  BY DEF LookingBot, SetupShape
LEMMA LookTo ==
  ASSUME SetupShape, LookingBot, NEW h \in Hands, NEW pc \in Phases, HandTo(h, pc), pc # "look" PROVE LookingBot'
<1>1. hands' = [hands EXCEPT ![h] = [hands[h] EXCEPT !.pc = pc]]
  BY DEF HandTo
<1>2. hands[h] \in HandRow
  BY DEF SetupShape
<1>3. [hands[h] EXCEPT !.pc = pc].pc # "look"
  BY <1>2 DEF HandRow
<1> QED
  BY <1>1, <1>3, LookPut
LEMMA LookRests ==
  ASSUME SetupShape, LookingBot, NEW h \in Hands, HandRests(h) \/ HandGivesUp(h) PROVE LookingBot'
<1>1. CASE HandRests(h)
  BY <1>1, LookPut, IdleHandIs DEF HandRests
<1>2. CASE HandTo(h, "fail")
  BY <1>2, LookTo DEF Phases
<1> QED
  BY <1>1, <1>2 DEF HandGivesUp
LEMMA LookKept ==
  ASSUME LookingBot, UNCHANGED hands PROVE LookingBot'
BY DEF LookingBot

LEMMA RowPut ==
  ASSUME SetupShape, RowsBot, NEW r \in Keys, NEW row, rows' = [rows EXCEPT ![r] = row],
         row.state # "none" => row.bot \in Bots
  PROVE  RowsBot'
BY DEF RowsBot, SetupShape
LEMMA RowsBotKept == ASSUME RowsBot, UNCHANGED rows PROVE RowsBot'
BY DEF RowsBot
LEMMA EverBotKept == ASSUME EverBot, UNCHANGED everActive PROVE EverBot'
BY DEF EverBot

LEMMA OvertakenBots ==
  ASSUME SetupShape, RowsBot, NEW r \in Keys PROVE Overtaken(r) \subseteq Salons \X Bots
<1>1. rows[r] \in Row
  BY DEF SetupShape
<1> QED
  BY <1>1 DEF Overtaken, RowsBot, Row

LEMMA ActiveNames ==
  ASSUME SetupShape, NamesBots, NEW h \in Hands, hands[h].row \in Keys, NEW row \in Row, row.bot \in Bots,
         MakesActive(h, row)
  PROVE  RowsBot' /\ EverBot'
<1>1. Overtaken(hands[h].row) \subseteq Salons \X Bots
  BY OvertakenBots DEF NamesBots
<1>2. <<row.salon, row.bot>> \in Salons \X Bots
  BY DEF Row
<1> QED
  BY <1>1, <1>2, RowPut DEF MakesActive, NamesBots, EverBot

LEMMA ConnectNames ==
  ASSUME SetupShape, NamesBots, NEW h \in Hands, NEW s, NEW b \in Bots, NEW i, StartsConnect(h, s, b, i)
  PROVE  NamesBots'
<1> USE DEF NamesBots
<1>1. EverBot'
  BY EverBotKept DEF StartsConnect
<1>2. CASE HandGivesUp(h) /\ UNCHANGED rows
  BY <1>1, <1>2, LookRests, RowsBotKept
<1>3. CASE ~(HandGivesUp(h) /\ UNCHANGED rows)
  <2> DEFINE row == [state |-> "PENDING", salon |-> s, bot |-> b, key |-> NextKey, token |-> TRUE]
             new == [pc |-> "connectHook", salon |-> s, bot |-> b, row |-> NextKey, key |-> NextKey,
                     previous |-> NoBot, intent |-> i]
  <2>1. NextKey \in Keys /\ rows' = [rows EXCEPT ![NextKey] = row] /\ hands' = [hands EXCEPT ![h] = new]
    BY <1>3 DEF StartsConnect
  <2>2. row.bot \in Bots /\ new.pc # "look"
    OBVIOUS
  <2> HIDE DEF row, new
  <2>3. RowsBot'
    BY <2>1, <2>2, RowPut
  <2>4. LookingBot'
    BY <2>1, <2>2, LookPut
  <2> QED
    BY <1>1, <2>3, <2>4
<1> QED
  BY <1>2, <1>3

LEMMA RotateNames ==
  ASSUME SetupShape, NamesBots, NEW h \in Hands, NEW s, NEW b, StartsRotate(h, s, b) PROVE NamesBots'
<1> USE DEF NamesBots
<1>1. EverBot' /\ RowsBot'
  BY EverBotKept, RowsBotKept DEF StartsRotate
<1>2. PICK r \in SalonRow(s) : hands' =
        [hands EXCEPT ![h] = [pc |-> "rotateHook", salon |-> s, bot |-> b, row |-> r, key |-> NextKey, intent |-> Nothing,
                        previous |-> IF rows[r].token /\ rows[r].bot # b THEN rows[r].bot ELSE NoBot]]
  BY DEF StartsRotate
<1> DEFINE new == [pc |-> "rotateHook", salon |-> s, bot |-> b, row |-> r, key |-> NextKey, intent |-> Nothing,
                   previous |-> IF rows[r].token /\ rows[r].bot # b THEN rows[r].bot ELSE NoBot]
<1>3. new.pc # "look"
  OBVIOUS
<1>4. hands' = [hands EXCEPT ![h] = new]
  BY <1>2
<1> HIDE DEF new
<1>5. LookingBot'
  BY <1>3, <1>4, LookPut
<1> QED
  BY <1>1, <1>5

LEMMA TakesNames ==
  ASSUME SetupShape, NamesBots, NEW h \in Hands, NEW pc \in Phases, pc # "look", NEW r, Takes(h, pc, r) PROVE NamesBots'
<1> USE DEF NamesBots
<1>1. EverBot' /\ RowsBot'
  BY EverBotKept, RowsBotKept DEF Takes
<1> DEFINE new == [pc |-> pc, salon |-> rows[r].salon, bot |-> rows[r].bot, row |-> r, key |-> rows[r].key,
                   previous |-> NoBot, intent |-> Nothing]
<1>3. new.pc # "look"
  OBVIOUS
<1>4. hands' = [hands EXCEPT ![h] = new]
  BY DEF Takes
<1> HIDE DEF new
<1>5. LookingBot'
  BY <1>3, <1>4, LookPut
<1> QED
  BY <1>1, <1>5

LEMMA NamesBotsNext == SetupShape /\ NamesBots /\ [TelegramSetupNext]_setupVars => NamesBots'
<1> SUFFICES ASSUME SetupShape, NamesBots, [TelegramSetupNext]_setupVars PROVE NamesBots'
  OBVIOUS
<1> USE DEF NamesBots
<1>p. Phases = {"idle", "connectHook", "connectSave", "connectDrop", "rotateHook", "rotateSave",
           "rotateClean", "unhook", "disconnectSave", "retryHook", "retrySave",
           "look", "complete", "tell", "fail"}
  BY DEF Phases
<1>t. \A g \in Hands, pc \in Phases : HandTo(g, pc) /\ pc # "look" => LookingBot'
  BY LookTo
<1>s. \A g \in Hands : HandRests(g) \/ HandGivesUp(g) => LookingBot'
  BY LookRests
<1>r. UNCHANGED rows => RowsBot'
  BY RowsBotKept
<1>e. UNCHANGED everActive => EverBot'
  BY EverBotKept
<1>h. \A g \in Hands : hands[g].pc \in WithRow => hands[g].row \in Keys /\ rows[hands[g].row] \in Row
  BY DEF SetupShape, Handed
<1>1. ASSUME NEW h \in Hands,
             ConnectHooks(h) \/ RotateHooks(h) \/ RotateCleans(h) \/ Unhooks(h) \/ RetryHooks(h) \/ TellOwner(h)
             \/ HandDies(h)
      PROVE  NamesBots'
  <2>1. UNCHANGED <<rows, everActive>>
    BY <1>1 DEF ConnectHooks, RotateHooks, RotateCleans, Unhooks, RetryHooks, TellOwner, HandDies, RowsOnlyKept
  <2>2. HandRests(h) \/ \E pc \in Phases \ {"look"} : HandTo(h, pc)
    BY <1>1, <1>p DEF ConnectHooks, RotateHooks, RotateCleans, Unhooks, RetryHooks, TellOwner, HandDies
  <2> QED
    BY <2>1, <2>2, <1>t, <1>s, <1>r, <1>e
<1>2. ASSUME NEW h \in Hands, ConnectDrops(h) PROVE NamesBots'
  <2>1. hands[h].row \in Keys
    BY <1>2, <1>h DEF ConnectDrops, HandAt, WithRow
  <2>2. RowsBot'
    BY <1>2, <2>1, RowPut, NoIntegrationIs DEF ConnectDrops
  <2> QED
    BY <1>2, <2>2, <1>s, <1>e DEF ConnectDrops
<1>3. ASSUME NEW h \in Hands, ConnectSaves(h) \/ RetrySaves(h) PROVE NamesBots'
  <2> DEFINE row == [rows[hands[h].row] EXCEPT !.state = "ACTIVE"]
  <2>1. hands[h].row \in Keys /\ rows[hands[h].row] \in Row
    BY <1>3, <1>h DEF ConnectSaves, RetrySaves, HandAt, WithRow
  <2>2. row \in Row /\ row.bot = rows[hands[h].row].bot
    BY <2>1 DEF Row
  <2>3. /\ \/ MakesActive(h, row) /\ rows[hands[h].row].state # "none"
           \/ UNCHANGED <<rows, everActive>>
        /\ HandRests(h) \/ HandGivesUp(h) \/ HandTo(h, "complete")
    BY <1>3 DEF ConnectSaves, RetrySaves, Fits
  <2>4. rows[hands[h].row].state # "none" => row.bot \in Bots
    BY <2>1, <2>2 DEF RowsBot
  <2> HIDE DEF row
  <2>5. RowsBot' /\ EverBot'
    BY <2>1, <2>2, <2>3, <2>4, <1>r, <1>e, ActiveNames
  <2>6. LookingBot'
    BY <2>3, <1>s, <1>t, <1>p
  <2> QED
    BY <2>5, <2>6
<1>4. ASSUME NEW h \in Hands, RotateSaves(h) PROVE NamesBots'
  <2>1. hands[h].row \in Keys /\ rows[hands[h].row] \in Row /\ hands[h].bot \in Bots /\ hands[h].key \in Keys
    BY <1>4, <1>h DEF RotateSaves, HandAt, WithRow, SetupShape, Handed
  <2>2. Rotated(h) \in Row /\ Rotated(h).bot = hands[h].bot
    BY <2>1 DEF Row, Rotated
  <2>3. /\ MakesActive(h, Rotated(h)) \/ UNCHANGED <<rows, everActive>>
        /\ HandRests(h) \/ HandTo(h, "rotateClean")
    BY <1>4 DEF RotateSaves
  <2>5. RowsBot' /\ EverBot'
    BY <2>1, <2>2, <2>3, <1>r, <1>e, ActiveNames
  <2>6. LookingBot'
    BY <2>3, <1>s, <1>t, <1>p
  <2> QED
    BY <2>5, <2>6
<1>5. ASSUME NEW h \in Hands, DisconnectSaves(h) PROVE NamesBots'
  <2>1. hands[h].row \in Keys /\ rows[hands[h].row] \in Row
    BY <1>5, <1>h DEF DisconnectSaves, HandAt, WithRow
  <2> DEFINE row == [rows[hands[h].row] EXCEPT !.state = "DISCONNECTED", !.token = FALSE]
  <2>2. \/ UNCHANGED <<rows, everActive>>
        \/ /\ rows[hands[h].row].state # "none"
           /\ everActive' = everActive \cup Overtaken(hands[h].row)
           /\ rows' = [rows EXCEPT ![hands[h].row] = row]
    BY <1>5, <2>1 DEF DisconnectSaves, SetupShape
  <2>3. rows[hands[h].row].state # "none" => row.bot \in Bots
    BY <2>1 DEF RowsBot, Row
  <2> HIDE DEF row
  <2>4. RowsBot'
    BY <2>1, <2>2, <2>3, <1>r, RowPut
  <2>5. EverBot'
    BY <2>1, <2>2, <1>e, OvertakenBots DEF EverBot
  <2> QED
    BY <1>5, <2>4, <2>5, <1>s DEF DisconnectSaves
<1>6. ASSUME NEW h \in Hands, AdminRetries(h) PROVE NamesBots'
  BY <1>6, <1>p, TakesNames DEF AdminRetries
<1>7. ASSUME NEW h \in Hands, OtherTab(h) PROVE NamesBots'
  BY <1>7, <1>p, TakesNames, ConnectNames, RotateNames DEF OtherTab, StartsDisconnect
<1>8. ASSUME NEW h \in Hands, NEW b \in Bots, ClaimIntent(h, b) PROVE NamesBots'
  <2>1. PICK i, s : hands' = [hands EXCEPT ![h] = [IdleHand EXCEPT !.pc = "look", !.intent = i, !.bot = b, !.salon = s]]
    BY <1>8 DEF ClaimIntent
  <2>2. [IdleHand EXCEPT !.pc = "look", !.intent = i, !.bot = b, !.salon = s].bot = b
    BY DEF IdleHand
  <2>3. LookingBot'
    BY <2>1, <2>2, LookPut
  <2> QED
    BY <1>8, <2>3, <1>r, <1>e DEF ClaimIntent
<1>9. ASSUME NEW h \in Hands, LookForBot(h) PROVE NamesBots'
  <2>1. hands[h].bot \in Bots
    BY <1>9 DEF LookForBot, HandAt, LookingBot
  <2>2. CASE HandTo(h, "complete") /\ UNCHANGED <<rows, everActive>>
    BY <2>2, <1>p, <1>t, <1>r, <1>e
  <2> QED
    BY <1>9, <2>1, <2>2, ConnectNames DEF LookForBot
<1>10. ASSUME NEW h \in Hands, CompleteIntent(h) \/ FailIntent(h) PROVE NamesBots'
  <2>1. UNCHANGED <<rows, everActive>> /\ (HandRests(h) \/ \E pc \in {"tell", "fail"} : HandTo(h, pc))
    BY <1>10 DEF CompleteIntent, FailIntent
  <2> QED
    BY <2>1, <1>p, <1>s, <1>t, <1>r, <1>e
<1>11. ASSUME NEW b \in Bots, SubmitToken(b) PROVE NamesBots'
  <2>1. Form \in Hands
    BY TelegramSetupAssumption
  <2> QED
    BY <1>11, <2>1, ConnectNames, RotateNames DEF SubmitToken
<1>12. CASE SubmitDisconnect
  <2>1. Form \in Hands
    BY TelegramSetupAssumption
  <2> QED
    BY <1>12, <2>1, <1>p, TakesNames DEF SubmitDisconnect, StartsDisconnect
<1>13. CASE UNCHANGED <<rows, hands, everActive>>
  BY <1>13, LookKept, <1>r, <1>e
<1>14. ASSUME NEW i \in Intents, NEW s \in Salons, CreateIntent(i, s) PROVE NamesBots'
  BY <1>14, <1>13 DEF CreateIntent, SetupKept
<1>15. CASE ReloadSettings
  BY <1>15, <1>13 DEF ReloadSettings
<1>16. CASE UNCHANGED setupVars
  BY <1>16, <1>13 DEF setupVars
<1> QED
  BY <1>1, <1>2, <1>3, <1>4, <1>5, <1>6, <1>7, <1>8, <1>9, <1>10, <1>11, <1>12, <1>14, <1>15, <1>16
     DEF TelegramSetupNext

(* Rows, webhooks, intents and requests have their types, and only a bot    *)
(* has ever been active for a salon.                                        *)
THEOREM BotSetupTyped == TelegramSetupSpec => []TelegramSetupTypeOK
<1>1. TelegramSetupInit => SetupLimits /\ NamesBots
  BY TelegramSetupAssumption, NoIntegrationIs, IdleHandIs
     DEF TelegramSetupInit, SetupLimits, NamesBots, LookingBot, RowsBot, EverBot
<1>2. SetupInv /\ SetupLimits /\ NamesBots => TelegramSetupTypeOK
  BY DEF SetupInv, SetupShape, SetupLimits, NamesBots, EverBot, TelegramSetupTypeOK, HandRow, IntentRow
<1>3. SetupInv /\ SetupLimits /\ NamesBots /\ [TelegramSetupNext]_setupVars => (SetupLimits /\ NamesBots)'
  BY SetupLimitsNext, NamesBotsNext DEF SetupInv
<1> QED
  BY <1>1, <1>2, <1>3, SetupInvHolds, PTL DEF TelegramSetupSpec

(* Links, chats, cards and the update at hand have their types, and a       *)
(* member's language is one of the two.                                     *)
THEOREM PlatformChatTyped == PlatformChatSpec => []PlatformChatTypeOK
<1> DEFINE Speaks == language \in [Seats -> Locales]
<1>1. ASSUME PlatformChatInit PROVE ChatsShape /\ ChatsOwned /\ Speaks
  <2>1. ChatsShape
    BY <1>1, NothingHere DEF PlatformChatInit, ChatsShape, LinkRow
  <2>2. ChatsOwned
    BY <1>1 DEF PlatformChatInit, ChatsOwned
  <2>3. Speaks
    BY <1>1 DEF PlatformChatInit, Locales
  <2> QED
    BY <2>1, <2>2, <2>3
<1>2. ASSUME ChatsShape, ChatsOwned, Speaks PROVE PlatformChatTypeOK
  <2>1. ASSUME NEW c \in CardSlots, shown[c] # NoCardHere
        PROVE  shown[c] \in [kind : Kinds, seat : Seats, user : People, room : Rooms, spent : BOOLEAN, reach : Reaches]
    BY <1>2, <2>1 DEF ChatsShape, ChatsOwned, CardOwned, ShownRow
  <2>2. ASSUME turn # NoTurn
        PROVE  turn \in [pc : {"typed", "tapped", "carry"}, seat : Seats, user : People, room : Rooms,
                         ask : Texts \cup Kinds \cup Locales, slot : CardSlots \cup {0}, crossed : BOOLEAN]
    BY <1>2, <2>2 DEF ChatsShape, ChatsOwned, TurnOwned, TurnRow
  <2> QED
    BY <1>2, <2>1, <2>2 DEF ChatsShape, LinkRow, PlatformChatTypeOK
<1>3. ASSUME Speaks, [PlatformChatNext]_platformVars PROVE Speaks'
  <2>1. CASE UNCHANGED language
    BY <1>3, <2>1
  <2>2. CASE SetLanguage
    BY <1>3, <2>2 DEF SetLanguage
  <2>3. ASSUME PlatformChatNext, ~SetLanguage PROVE UNCHANGED language
    BY <2>3 DEF PlatformChatNext, RequestChatLink, LinkRunsOut, ConsumeLink, TypeText, TapCard, ShowBookingFilters,
       ShowBookingList, ShowChecks, ShowLanguagePicker, StartManagedBotCreation, ShowMainMenu, EndTurn, ConsumeButton,
       CarryNavigation
  <2> QED
    BY <1>3, <2>1, <2>2, <2>3 DEF platformVars
<1> HIDE DEF Speaks
<1> QED
  BY <1>1, <1>2, <1>3, ChatsShapeStays, ChatsOwnedStays, PTL DEF PlatformChatSpec
=============================================================================
