--------------------------- MODULE JobScheduler ---------------------------
(***************************************************************************)
(* The processes that run the background jobs: the loop of                  *)
(* src/src/jobs/scheduler.ts, the one-shot commands of                      *)
(* src/src/jobs/run-job.ts, and the advisory locks of PostgreSQL            *)
(* (src/src/core/database/advisory-lock.ts) that keep two of them off the   *)
(* same job.  Delays are counted in ticks of the loop, one a minute.        *)
(***************************************************************************)
EXTENDS Integers, FiniteSets

CONSTANTS
    Procs,        \* processes that may be up at the same time
    Jobs,         \* names in SCHEDULED_JOBS
    Interval,     \* intervalMs of each job in ticks; 0 for every tick
    MaxBackoff,   \* MAX_BACKOFF_MS: 15 ticks
    MaxFaults     \* bound on severed connections, kills, signals and commands

ASSUME JobSchedulerAssumption ==
    /\ Interval \in [Jobs -> Nat]
    /\ MaxBackoff \in Nat \ {0}
    /\ MaxFaults \in Nat

Nobody == "NOBODY"
ASSUME NobodyIsNoProcess == Nobody \notin Procs

VARIABLES
    mode,       \* mode[p]: what process p is doing as a whole
    connected,  \* connected[p]: the server still has the lock session of p
    task,       \* task[p][j]: the promise of job j, and its JobState
    lockOf,     \* lockOf[j]: who holds the advisory lock, as the server sees it
    faults

schedulerVars == <<mode, connected, task, lockOf, faults>>

(* running is TRUE in every pc but "idle" *)
Rested == [pc |-> "idle", failures |-> 0, wait |-> 0]

SchedulerTypeOK ==
    /\ mode \in [Procs -> {"off", "up", "stopping", "cli", "lost"}]
    /\ connected \in [Procs -> BOOLEAN]
    /\ task \in [Procs -> [Jobs ->
         [pc : {"idle", "lock", "run", "done", "failed"}, failures : Nat, wait : Nat]]]
    /\ lockOf \in [Jobs -> Procs \cup {Nobody}]
    /\ faults \in 0 .. MaxFaults

SchedulerInit ==
    /\ mode = [p \in Procs |-> "off"]
    /\ connected = [p \in Procs |-> FALSE]
    /\ task = [p \in Procs |-> [j \in Jobs |-> Rested]]
    /\ lockOf = [j \in Jobs |-> Nobody]
    /\ faults = 0

---------------------------------------------------------------------------
(* backoffMs; the count of failures stays where it no longer matters *)
Doubled(failures) == 2 ^ (failures - 1)
Backoff(failures) == IF Doubled(failures) \in 1 .. MaxBackoff THEN Doubled(failures) ELSE MaxBackoff
Counted(failures) == IF failures > 0 /\ Backoff(failures) = MaxBackoff THEN failures
                     ELSE failures + 1

(* Altered: a delay is never over *)
TickedIfReady(tasks) ==
    [j \in Jobs |-> IF tasks[j].pc = "idle" /\ tasks[j].wait = 0
                    THEN [tasks[j] EXCEPT !.pc = "lock"] ELSE tasks[j]]

(* One turn of tick(): a job that is neither running nor waiting starts.  A *)
(* run ends between two ticks, so a delay of d passes over d of them.       *)
Ticked(tasks) ==
    [j \in Jobs |->
        IF tasks[j].pc # "idle" THEN tasks[j]
        ELSE IF tasks[j].wait = 0 THEN [tasks[j] EXCEPT !.pc = "lock"]
        ELSE [tasks[j] EXCEPT !.wait = @ - 1]]

(* What the loop makes of an outcome: a failure is waited out, and being    *)
(* locked out counts as a success.                                          *)
Failed(t) == [pc |-> "idle", failures |-> Counted(t.failures),
              wait |-> Backoff(Counted(t.failures))]
Settled(j) == [Rested EXCEPT !.wait = Interval[j]]

Released(p) == [j \in Jobs |-> IF lockOf[j] = p THEN Nobody ELSE lockOf[j]]
Running(p) == mode[p] \in {"up", "stopping", "cli"}
Fault == faults < MaxFaults /\ faults' = faults + 1

---------------------------------------------------------------------------
(* main: connect, then the first tick *)
StartScheduler(p) ==
    /\ mode[p] = "off"
    /\ mode' = [mode EXCEPT ![p] = "up"]
    /\ connected' = [connected EXCEPT ![p] = TRUE]
    /\ task' = [task EXCEPT ![p] = Ticked([j \in Jobs |-> Rested])]
    /\ UNCHANGED <<lockOf, faults>>

(* runJobFromCli, also from cron *)
StartCli(p, j) ==
    /\ mode[p] = "off" /\ Fault
    /\ mode' = [mode EXCEPT ![p] = "cli"]
    /\ connected' = [connected EXCEPT ![p] = TRUE]
    /\ task' = [task EXCEPT ![p] = [k \in Jobs |-> IF k = j THEN [Rested EXCEPT !.pc = "lock"]
                                                   ELSE Rested]]
    /\ UNCHANGED lockOf

Tick(p) ==
    /\ mode[p] = "up"
    /\ task' = [task EXCEPT ![p] = Ticked(@)]
    /\ UNCHANGED <<mode, connected, lockOf, faults>>

(* Altered: every process has locks of its own *)
FreeHere(p, j) == lockOf[j] # p

Free(p, j) == lockOf[j] = Nobody

(* tryLock, on a connection that answers *)
TakeLock(p, j) ==
    /\ task[p][j].pc = "lock" /\ connected[p]
    /\ Free(p, j)
    /\ lockOf' = [lockOf EXCEPT ![j] = p]
    /\ task' = [task EXCEPT ![p][j].pc = "run"]
    /\ UNCHANGED <<mode, connected, faults>>

MissLock(p, j) ==
    /\ task[p][j].pc = "lock" /\ connected[p]
    /\ ~Free(p, j)
    /\ task' = [task EXCEPT ![p][j] = Settled(j)]
    /\ UNCHANGED <<mode, connected, lockOf, faults>>

EndRun(p, j, outcome) ==
    /\ task[p][j].pc = "run"
    /\ task' = [task EXCEPT ![p][j].pc = outcome]
    /\ UNCHANGED <<mode, connected, lockOf, faults>>

Unlocked(p, j) == IF connected[p] THEN [lockOf EXCEPT ![j] = Nobody] ELSE lockOf

(* The finally block, then the outcome.  unlock on a dead connection fails, *)
(* and its failure is logged.                                               *)
Unlock(p, j) ==
    /\ task[p][j].pc \in {"done", "failed"}
    /\ lockOf' = Unlocked(p, j)
    /\ task' = [task EXCEPT ![p][j] = IF @.pc = "failed" THEN Failed(@) ELSE Settled(j)]
    /\ UNCHANGED <<mode, connected, faults>>

Gone(p, next) ==
    /\ mode' = [mode EXCEPT ![p] = next]
    /\ connected' = [connected EXCEPT ![p] = FALSE]
    /\ task' = [task EXCEPT ![p] = [j \in Jobs |-> Rested]]
    /\ lockOf' = Released(p)

(* A command closes its session when its job is over. *)
EndCli(p) ==
    /\ mode[p] = "cli" /\ \A j \in Jobs : task[p][j].pc = "idle"
    /\ Gone(p, "off") /\ UNCHANGED faults

(* SIGTERM or SIGINT: no more ticks *)
Signal(p) ==
    /\ mode[p] = "up" /\ Fault
    /\ mode' = [mode EXCEPT ![p] = "stopping"]
    /\ UNCHANGED <<connected, task, lockOf>>

(* The loop of shutdown ends when nothing runs, or at the deadline.         *)
FinishShutdown(p) ==
    /\ mode[p] = "stopping" /\ \A j \in Jobs : task[p][j].pc = "idle"
    /\ Gone(p, "off") /\ UNCHANGED faults

ForceExit(p) ==
    /\ mode[p] = "stopping" /\ \E j \in Jobs : task[p][j].pc # "idle"
    /\ Gone(p, "off") /\ UNCHANGED faults

(* The server ends a session, and with it the locks; the client hears later. *)
Sever(p) ==
    /\ Running(p) /\ connected[p] /\ Fault
    /\ connected' = [connected EXCEPT ![p] = FALSE]
    /\ lockOf' = Released(p)
    /\ UNCHANGED <<mode, task>>

(* Nobody listens to the error event of the client, nor catches the         *)
(* rejection of tryLock: the process ends.  The image starts the loop once, *)
(* in the background of the web server, and does not start it again.        *)
NoticeSevered(p) ==
    /\ Running(p) /\ ~connected[p]
    /\ Gone(p, IF mode[p] = "up" THEN "lost" ELSE "off") /\ UNCHANGED faults

(* A deploy stops the container, and the loop gets no signal in it; it also *)
(* brings back a loop that was lost.                                        *)
Kill(p) == (Running(p) \/ mode[p] = "lost") /\ Fault /\ Gone(p, "off")

JobStep(p, j) ==
    \/ TakeLock(p, j) \/ MissLock(p, j)
    \/ \E outcome \in {"done", "failed"} : EndRun(p, j, outcome)
    \/ Unlock(p, j)

SchedulerNext ==
    \E p \in Procs :
        \/ StartScheduler(p) \/ Tick(p) \/ EndCli(p)
        \/ Signal(p) \/ FinishShutdown(p) \/ ForceExit(p)
        \/ Sever(p) \/ NoticeSevered(p) \/ Kill(p)
        \/ \E j \in Jobs : StartCli(p, j) \/ JobStep(p, j)

SchedulerSpec == SchedulerInit /\ [][SchedulerNext]_schedulerVars

(* The loop starts with its container, its timer fires, its promises settle. *)
SchedulerFairness ==
    \A p \in Procs :
        /\ WF_schedulerVars(StartScheduler(p))
        /\ WF_schedulerVars(Tick(p))
        /\ WF_schedulerVars(EndCli(p))
        /\ WF_schedulerVars(FinishShutdown(p) \/ ForceExit(p))
        /\ WF_schedulerVars(NoticeSevered(p))
        /\ \A j \in Jobs : WF_schedulerVars(JobStep(p, j))

---------------------------------------------------------------------------
(* Two processes run the same job at once only while one of them has not    *)
(* heard yet that the server ended its session: a rolling deploy, a command *)
(* beside the loop and a restart after a kill behave like one process.      *)
(*                                                                          *)
(* No lock outlives its use: whoever holds one is at work on the job, on    *)
(* the session that took it.  A leaked lock would stop the job for good.    *)
OneRunPerJob ==
    /\ \A j \in Jobs, p, q \in Procs :
         p # q /\ task[p][j].pc = "run" /\ task[q][j].pc = "run" => ~connected[p] \/ ~connected[q]
    /\ \A j \in Jobs : lockOf[j] # Nobody =>
         /\ connected[lockOf[j]]
         /\ task[lockOf[j]][j].pc \in {"run", "done", "failed"}

(* Every job runs again and again, whatever the other processes do, if runs *)
(* end, until every loop is lost: being locked out postpones an hourly job  *)
(* by an hour, and backing off has a limit.                                 *)
Lost == \A p \in Procs : mode[p] = "lost"
JobsRunAgain == \A j \in Jobs : []<>(Lost \/ \E p \in Procs : task[p][j].pc = "run")
===========================================================================
