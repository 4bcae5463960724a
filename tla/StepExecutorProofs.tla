-------------------------- MODULE StepExecutorProofs --------------------------
(***************************************************************************)
(* Proofs about StepExecutor: IndInv is an inductive invariant, and the    *)
(* safety properties of the executor follow from it for every timeout,     *)
(* every set of descendants and exit codes, and any number of steps.       *)
(***************************************************************************)
EXTENDS StepExecutor, TLAPS

(***************************************************************************)
(* What a signal sent by the runner may do to the step's processes.        *)
(***************************************************************************)
Struck(sig) ==
  /\ group' = group
  /\ kids' \subseteq kids
  /\ \/ UNCHANGED <<leader, status>>
     \/ /\ leader = "alive"
        /\ leader' = "zombie"
        /\ status' = [kind |-> "signal", code |-> sig]
  /\ hit' \subseteq hit \cup {"everyone"}

\* kill_pgroup() harms at most the processes of the step's own group.
LEMMA KillPgroupStrikes ==
  ASSUME NEW g \in {"none", "own", "step"}, NEW sig, KillPgroup(g, sig)
  PROVE  Struck(sig)
BY DEF KillPgroup, PgroupRefused, StrikeGroup, StrikeLeader, Struck, procs

\* So does kill_step(), except for its fallback to kill() with a failed pid.
LEMMA KillStepStrikes ==
  ASSUME NEW sig, KillStep(sig)
  PROVE  Struck(sig)
BY DEF KillStep, KillPid, KillPgroup, PgroupRefused, StrikeGroup, StrikeLeader,
       Struck, procs

\* Sending nothing is a special case of a strike.
LEMMA QuietStrikes ==
  ASSUME NEW sig, UNCHANGED <<procs, hit>>
  PROVE  Struck(sig)
BY DEF Struck, procs

\* A command sent to the target is one of those the runner waits for, and
\* changes nothing there yet.
LEMMA CallsOut ==
  ASSUME calls \subseteq Calls, NEW c \in Calls, Call(c) \/ UNCHANGED remote
  PROVE  /\ calls' \subseteq Calls
         /\ UNCHANGED <<target, pidfile, link, linkLost, checkLost>>
BY DEF Call, remote

\* set_timer() leaves the two timer flags Boolean.
LEMMA SetTimerTypes ==
  ASSUME NEW secs \in Nat, SetTimer(secs)
  PROVE  armed' \in BOOLEAN /\ timer_value' \in BOOLEAN
<1>1. armed' \in BOOLEAN
  BY DEF SetTimer
<1>2. timer_value' \in BOOLEAN
  BY DEF SetTimer
<1> QED
  BY <1>1, <1>2

(***************************************************************************)
(* Type correctness, one group of variables at a time.                     *)
(***************************************************************************)
\* Every step keeps the types of the runner's globals and locals.
LEMMA RunnerTypesKept ==
  ASSUME TypeOK, [Next]_vars
  PROVE  RunnerTypes'
<1> USE DEF TypeOK, RunnerTypes, PC, Looping, Checking, Ending, Goto, runner, locals
<1>1. CASE Execute
  BY <1>1 DEF Execute
<1>2. CASE ForkSucceeds \/ ForkFails \/ AssignCurrentData \/ Return
  BY <1>2 DEF ForkSucceeds, ForkFails, AssignCurrentData, Return
<1>3. CASE EnterCommunicate
  <2>1. armed' \in BOOLEAN /\ timer_value' \in BOOLEAN
    BY <1>3, SetTimerTypes, ExecutorAssumption DEF EnterCommunicate
  <2> QED
    BY <1>3, <2>1 DEF EnterCommunicate
<1>4. CASE StorePgid
  BY <1>4 DEF StorePgid, Getpgid, ProcessTypes
<1>5. CASE WaitPid
  BY <1>5 DEF WaitPid, AfterWaitPid, NoChildMeansReady, DataTypes
<1>6. CASE Poll \/ Read \/ CleanTarget
  BY <1>6 DEF Poll, Read, CleanTarget
<1>7. CASE Terminate
  <2>1. armed' \in BOOLEAN /\ timer_value' \in BOOLEAN
    BY <1>7, SetTimerTypes, ExecutorAssumption DEF Terminate, RearmTimer
  <2> QED
    BY <1>7, <2>1 DEF Terminate, AfterBody
<1>8. CASE SoftTimeoutExpired \/ HardTimeoutExpired \/ Kill \/ NoTimeout
  BY <1>8 DEF SoftTimeoutExpired, HardTimeoutExpired, Kill, NoTimeout, AfterBody
<1>9. CASE SweepGroup \/ DisarmTimer
  BY <1>9 DEF SweepGroup, DisarmTimer, ResetTimer
<1>10. CASE Alarm
  BY <1>10 DEF Alarm, MayCutPoll
<1>11. ASSUME NEW sig \in {SIGINT, SIGTERM}, Interrupt(sig)
       PROVE  RunnerTypes'
  BY <1>11 DEF Interrupt, RecordInterrupt, Interrupted, MayCutPoll, SIGINT, SIGTERM
<1>12. CASE CheckReturns \/ RecordConnectionFailure \/ CheckEnds \/ CheckDies
  BY <1>12 DEF CheckReturns, RecordConnectionFailure, CheckEnds, CheckAnswer, CheckDies
<1>13. CASE UNCHANGED <<pc, runner, locals>>
  BY <1>13
<1> QED
  BY <1>1, <1>2, <1>3, <1>4, <1>5, <1>6, <1>7, <1>8, <1>9, <1>10, <1>11, <1>12, <1>13
     DEF Next, InExecute, InCommunicate, Signals, InterruptDiscarded,
         Environment, Setsid, LeaderExits, SpawnDescendant, DescendantExits,
         Write, TargetStarts, TargetExits, LinkChanges, Answer, vars

\* Every step keeps the types of exec_data.
LEMMA DataTypesKept ==
  ASSUME TypeOK, [Next]_vars
  PROVE  DataTypes'
<1> USE DEF TypeOK
<1>1. CASE Execute
  <2>1. pid' \in {"none"} /\ pgid' \in {"none"}
    BY <1>1 DEF Execute
  <2>2. waited' \in BOOLEAN
    BY <1>1 DEF Execute
  <2>3. result' \in 0..255 /\ signaled' \in {0} /\ failure_info' = {}
    BY <1>1 DEF Execute
  <2> QED
    BY <2>1, <2>2, <2>3 DEF DataTypes
<1>2. CASE ForkSucceeds \/ ForkFails
  <2>1. UNCHANGED <<waited, result>> /\ pid' \in {"child", "failed"}
    BY <1>2 DEF ForkSucceeds, ForkFails
  <2>2. UNCHANGED <<pgid, signaled, failure_info>>
    BY <1>2 DEF ForkSucceeds, ForkFails
  <2> QED
    BY <2>1, <2>2 DEF DataTypes
<1>3. CASE StorePgid
  BY <1>3 DEF StorePgid, Getpgid, ProcessTypes, DataTypes
<1>4. CASE WaitPid
  <2>1. FailureOf(status) \subseteq {"signal"}
    BY DEF FailureOf
  <2>2. CASE Waitable /\ leader = "zombie"
    <3>1. status.code \in 0..255
      BY DEF ProcessTypes
    <3>2. UNCHANGED <<pid, pgid, signaled>> /\ waited' = TRUE
          /\ result' = status.code
          /\ failure_info' = failure_info \cup FailureOf(status)
      BY <1>4, <2>2 DEF WaitPid, Reap
    <3> QED
      BY <2>1, <3>1, <3>2 DEF DataTypes
  <2>3. CASE ~(Waitable /\ leader = "zombie")
    <3>1. UNCHANGED <<pid, pgid, waited, result, signaled, failure_info>>
      BY <1>4, <2>3 DEF WaitPid
    <3> QED
      BY <3>1 DEF DataTypes
  <2> QED
    BY <2>2, <2>3
<1>5. CASE Terminate
  BY <1>5 DEF Terminate, DataTypes
<1>6. CASE Kill
  BY <1>6 DEF Kill, DataTypes
<1>7. CASE RecordConnectionFailure
  BY <1>7 DEF RecordConnectionFailure, DataTypes
<1>8. CASE UNCHANGED data
  BY <1>8 DEF data, DataTypes
<1> QED
  BY <1>1, <1>2, <1>3, <1>4, <1>5, <1>6, <1>7, <1>8
     DEF Next, InExecute, InCommunicate, AssignCurrentData,
         EnterCommunicate, Poll, Read, NoTimeout, SweepGroup,
         DisarmTimer, CleanTarget, Return, Signals, Alarm, Interrupt,
         Environment, Setsid, LeaderExits, SpawnDescendant,
         DescendantExits, Write, TargetStarts, TargetExits, LinkChanges,
         CheckReturns, SoftTimeoutExpired, HardTimeoutExpired,
         InterruptDiscarded, CheckEnds, CheckDies, Answer, vars

\* Every step keeps the types of the step's processes and of their output.
LEMMA ProcessTypesKept ==
  ASSUME TypeOK, [Next]_vars
  PROVE  ProcessTypes'
<1> USE DEF TypeOK
<1>1. CASE Execute
  BY <1>1 DEF Execute, ProcessTypes
<1>2. CASE ForkSucceeds
  BY <1>2 DEF ForkSucceeds, ProcessTypes, stream
<1>3. CASE WaitPid \/ Read
  BY <1>3 DEF WaitPid, Reap, Read, ProcessTypes, stream, procs
<1>4. ASSUME NEW sig \in {SIGINT, SIGTERM, SIGKILL}, Struck(sig), UNCHANGED stream
      PROVE  ProcessTypes'
  BY <1>4 DEF Struck, SIGINT, SIGTERM, SIGKILL, ProcessTypes, stream
<1>5. CASE Terminate
  BY <1>4, <1>5, KillStepStrikes, QuietStrikes DEF Terminate
<1>6. CASE Kill
  BY <1>4, <1>6, KillStepStrikes DEF Kill
<1>7. CASE SweepGroup
  BY <1>4, <1>7, KillPgroupStrikes, QuietStrikes DEF SweepGroup, DataTypes
<1>8. ASSUME NEW sig \in {SIGINT, SIGTERM}, Interrupt(sig)
      PROVE  ProcessTypes'
  BY <1>4, <1>8, KillStepStrikes, QuietStrikes DEF Interrupt
<1>9. CASE \E code \in ExitCodes : LeaderExits(code)
  BY <1>9, ExecutorAssumption DEF LeaderExits, ProcessTypes, stream
<1>10. CASE Setsid
  BY <1>10 DEF Setsid, ProcessTypes, stream
<1>11. CASE Write
  <2>1. output' \in 0..MaxOutput
    BY <1>11, ExecutorAssumption DEF Write, ProcessTypes
  <2> QED
    BY <1>11, <2>1 DEF Write, ProcessTypes, procs
<1>12. CASE \E k \in Descendants : SpawnDescendant(k) \/ DescendantExits(k)
  BY <1>12 DEF SpawnDescendant, DescendantExits, ProcessTypes, stream
<1>13. CASE UNCHANGED <<procs, stream>>
  BY <1>13 DEF ProcessTypes, procs, stream
<1> QED
  BY <1>1, <1>2, <1>3, <1>5, <1>6, <1>7, <1>8, <1>9, <1>10, <1>11, <1>12, <1>13
     DEF Next, InExecute, InCommunicate, ForkFails, AssignCurrentData,
         EnterCommunicate, StorePgid, Poll, NoTimeout, DisarmTimer,
         CleanTarget, Return, Signals, Alarm, Environment, TargetStarts,
         TargetExits, LinkChanges, CheckReturns,
         RecordConnectionFailure, SoftTimeoutExpired,
         HardTimeoutExpired, InterruptDiscarded, CheckEnds, CheckDies,
         Answer, vars

\* Every step keeps the types of the target, its pid file and the link.
LEMMA TargetTypesKept ==
  ASSUME TypeOK, [Next]_vars
  PROVE  TargetTypes'
<1> USE DEF TypeOK
<1>1. CASE Execute
  BY <1>1 DEF Execute, TargetTypes
<1>2. ASSUME NEW c \in Calls, Call(c) \/ UNCHANGED remote
      PROVE  TargetTypes'
  BY <1>2, CallsOut DEF TargetTypes
<1>3. CASE SoftTimeoutExpired \/ HardTimeoutExpired \/ CleanTarget
  BY <1>2, <1>3
     DEF SoftTimeoutExpired, HardTimeoutExpired, CleanTarget, CallUnlessBail, Calls
<1>4. ASSUME NEW sig, Interrupt(sig)
      PROVE  TargetTypes'
  BY <1>2, <1>4 DEF Interrupt, Handler, Calls
<1>5. ASSUME NEW c, Answer(c)
      PROVE  TargetTypes'
  BY <1>5 DEF Answer, TargetTypes
<1>6. CASE TargetStarts \/ TargetExits
  BY <1>6 DEF TargetStarts, TargetExits, TargetTypes
<1>7. CASE LinkChanges \/ CheckDies
  BY <1>7 DEF LinkChanges, CheckDies, TargetTypes
<1>8. CASE UNCHANGED remote
  BY <1>8 DEF remote, TargetTypes
<1> QED
  BY <1>1, <1>3, <1>4, <1>5, <1>6, <1>7, <1>8
     DEF Next, InExecute, InCommunicate, ForkSucceeds, ForkFails,
         AssignCurrentData, EnterCommunicate, StorePgid, WaitPid, CheckReturns,
         RecordConnectionFailure, Poll, Read, Terminate, Kill, NoTimeout,
         SweepGroup, DisarmTimer, Return, Signals, Alarm, InterruptDiscarded,
         Environment, Setsid, LeaderExits, SpawnDescendant, DescendantExits,
         Write, CheckEnds, vars

\* The alarms of a step are at most two: TimerFacts bounds them.
LEMMA HistoryTypesKept ==
  ASSUME TypeOK, TimerFacts, [Next]_vars
  PROVE  HistoryTypes'
<1> USE DEF TypeOK
<1>1. CASE Execute
  BY <1>1, ExecutorAssumption DEF Execute, HistoryTypes, user
<1>2. CASE Alarm
  <2>1. alarms \in {0, 1}
    BY <1>2 DEF Alarm, TimerFacts, Unarmed, Looping, Checking, RunnerTypes, PC, Ending,
         HistoryTypes
  <2> QED
    BY <1>2, <2>1 DEF Alarm, HistoryTypes, user
<1>3. ASSUME NEW sig, Struck(sig), UNCHANGED <<alarms, steps, ret, discarded>>,
             asked' \in {asked, TRUE}
      PROVE  HistoryTypes'
  BY <1>3 DEF Struck, HistoryTypes
<1>4. CASE Terminate
  BY <1>3, <1>4, KillStepStrikes, QuietStrikes DEF Terminate, user
<1>5. CASE Kill
  BY <1>3, <1>5, KillStepStrikes DEF Kill, user
<1>6. CASE SweepGroup
  BY <1>3, <1>6, KillPgroupStrikes, QuietStrikes DEF SweepGroup, DataTypes, user
<1>7. ASSUME NEW sig, Interrupt(sig)
      PROVE  HistoryTypes'
  BY <1>3, <1>7, KillStepStrikes, QuietStrikes DEF Interrupt
<1>8. CASE Return \/ InterruptDiscarded
  BY <1>8 DEF Return, InterruptDiscarded, HistoryTypes, user
<1>9. CASE UNCHANGED history
  BY <1>9 DEF history, HistoryTypes, user
<1> QED
  BY <1>1, <1>2, <1>4, <1>5, <1>6, <1>7, <1>8, <1>9
     DEF Next, InExecute, InCommunicate, ForkSucceeds, ForkFails,
         AssignCurrentData, EnterCommunicate, StorePgid, WaitPid, Poll,
         Read, NoTimeout, DisarmTimer, CleanTarget, Signals,
         Environment, Setsid, LeaderExits, SpawnDescendant,
         DescendantExits, Write, TargetStarts, TargetExits, LinkChanges,
         CheckReturns, RecordConnectionFailure, SoftTimeoutExpired,
         HardTimeoutExpired, CheckEnds, CheckDies, Answer, vars

(***************************************************************************)
(* RunnerNeverHit follows from the guards of kill_pgroup().                *)
(***************************************************************************)
LEMMA RunnerStaysUnhit ==
  ASSUME TypeOK, RunnerNeverHit, [Next]_vars
  PROVE  RunnerNeverHit'
<1> USE DEF TypeOK
<1>1. ASSUME NEW sig, Struck(sig)
      PROVE  RunnerNeverHit'
  BY <1>1 DEF Struck, RunnerNeverHit
<1>2. CASE Terminate
  BY <1>1, <1>2, KillStepStrikes, QuietStrikes DEF Terminate
<1>3. CASE Kill
  BY <1>1, <1>3, KillStepStrikes DEF Kill
<1>4. CASE SweepGroup
  BY <1>1, <1>4, KillPgroupStrikes, QuietStrikes DEF SweepGroup, DataTypes
<1>5. ASSUME NEW sig, Interrupt(sig)
      PROVE  RunnerNeverHit'
  BY <1>1, <1>5, KillStepStrikes, QuietStrikes DEF Interrupt
<1>6. CASE UNCHANGED hit
  BY <1>6 DEF RunnerNeverHit
<1> QED
  BY <1>2, <1>3, <1>4, <1>5, <1>6
     DEF Next, Execute, InExecute, InCommunicate, ForkSucceeds,
         ForkFails, AssignCurrentData, EnterCommunicate, StorePgid,
         WaitPid, Poll, Read, NoTimeout, DisarmTimer, CleanTarget,
         Return, Signals, Alarm, Environment, Setsid, LeaderExits,
         SpawnDescendant, DescendantExits, Write, TargetStarts,
         TargetExits, LinkChanges, history, CheckReturns,
         RecordConnectionFailure, SoftTimeoutExpired,
         HardTimeoutExpired, InterruptDiscarded, CheckEnds, CheckDies,
         Answer, vars

(***************************************************************************)
(* ProcessFacts: the loop ends only after the command has been reaped.     *)
(***************************************************************************)
LEMMA ProcessFactsKept ==
  ASSUME TypeOK, ProcessFacts, [Next]_vars
  PROVE  ProcessFacts'
<1> USE DEF TypeOK, ProcessFacts, Looping, Checking, Ending, Goto
<1>1. CASE Execute
  BY <1>1 DEF Execute
<1>2. CASE ForkSucceeds
  BY <1>2 DEF ForkSucceeds, locals, procs
<1>3. CASE ForkFails
  BY <1>3 DEF ForkFails, locals, procs
<1>4. CASE AssignCurrentData
  BY <1>4 DEF AssignCurrentData, locals, procs, data, DataTypes
<1>5. CASE EnterCommunicate
  BY <1>5 DEF EnterCommunicate, procs, data
<1>6. CASE StorePgid
  BY <1>6 DEF StorePgid, procs
<1>7. CASE WaitPid
  <2>1. CASE Waitable /\ leader = "zombie"
    BY <1>7, <2>1 DEF WaitPid, Reap, AfterWaitPid, FailureOf
  <2>2. CASE ~(Waitable /\ leader = "zombie")
    BY <1>7, <2>2 DEF WaitPid, AfterWaitPid, NoChildMeansReady
  <2> QED
    BY <2>1, <2>2
<1>8. CASE Poll \/ Read
  BY <1>8 DEF Poll, Read, locals, procs, data
<1>9. ASSUME NEW sig, Struck(sig), UNCHANGED <<pid, waited, result, ready>>,
             failure_info \subseteq failure_info',
             \/ pc' = pc
             \/ pc = "poll" /\ pc' = "timers"
             \/ Goto("sweep", "disarm")
             \/ pc \in {"soft", "hard"} /\ pc' = AfterBody
      PROVE  ProcessFacts'
  BY <1>9 DEF Struck, AfterBody
<1>10. CASE Terminate
  BY <1>9, <1>10, KillStepStrikes, QuietStrikes DEF Terminate
<1>11. CASE Kill
  BY <1>9, <1>11, KillStepStrikes DEF Kill
<1>12. CASE SweepGroup
  BY <1>9, <1>12, KillPgroupStrikes, QuietStrikes DEF SweepGroup, DataTypes, data, locals
<1>13. ASSUME NEW sig, Interrupt(sig)
       PROVE  ProcessFacts'
  BY <1>9, <1>13, KillStepStrikes, QuietStrikes
     DEF Interrupt, MayCutPoll, data, locals
<1>14. CASE SoftTimeoutExpired \/ HardTimeoutExpired \/ NoTimeout
  BY <1>14 DEF SoftTimeoutExpired, HardTimeoutExpired, NoTimeout, AfterBody,
     locals, procs, data
<1>15. CASE DisarmTimer \/ CleanTarget \/ Return
  BY <1>15 DEF DisarmTimer, CleanTarget, Return, locals, procs, data
<1>16. CASE Alarm
  BY <1>16 DEF Alarm, MayCutPoll, locals, procs, data
<1>17. CASE \E code \in ExitCodes : LeaderExits(code)
  BY <1>17 DEF LeaderExits, CommandRuns, locals, data
<1>18. CASE CheckReturns \/ CheckEnds \/ CheckDies
  BY <1>18 DEF CheckReturns, CheckEnds, CheckAnswer, CheckDies, locals, procs, data
<1>19. CASE RecordConnectionFailure
  BY <1>19 DEF RecordConnectionFailure, locals, procs
<1>20. CASE UNCHANGED <<pc, locals, data, leader, status>>
  BY <1>20 DEF locals, data
<1> QED
  BY <1>1, <1>2, <1>3, <1>4, <1>5, <1>6, <1>7, <1>8, <1>10, <1>11, <1>12,
     <1>13, <1>14, <1>15, <1>16, <1>17, <1>18, <1>19, <1>20
     DEF Next, InExecute, InCommunicate, Signals, Environment, Setsid,
         SpawnDescendant, DescendantExits, Write, TargetStarts,
         TargetExits, LinkChanges, procs, InterruptDiscarded, Answer,
         vars

(***************************************************************************)
(* TimerFacts: each signal sent to a step has been paid for by an alarm.   *)
(***************************************************************************)
LEMMA TimerFactsKept ==
  ASSUME TypeOK, ProcessFacts, TimerFacts, [Next]_vars
  PROVE  TimerFacts'
<1> USE DEF TypeOK, TimerFacts, Looping, Checking, Unarmed, Goto, SIGTERM, SIGKILL
<1>1. CASE Execute
  BY <1>1 DEF Execute, runner
<1>2. CASE ForkSucceeds \/ ForkFails
  BY <1>2 DEF ForkSucceeds, ForkFails, history, runner, ProcessFacts
<1>3. CASE AssignCurrentData
  BY <1>3 DEF AssignCurrentData, history, data
<1>4. CASE EnterCommunicate
  BY <1>4, ExecutorAssumption DEF EnterCommunicate, SetTimer, history, data
<1>5. CASE StorePgid \/ Poll \/ Read
  BY <1>5 DEF StorePgid, Poll, Read, history, runner, locals, data
<1>6. CASE WaitPid
  BY <1>6 DEF WaitPid, AfterWaitPid, history, runner
<1>7. CASE Terminate
  BY <1>7, ExecutorAssumption
     DEF Terminate, AfterBody, RearmTimer, SetTimer, ProcessFacts, RunnerTypes
<1>8. CASE Kill
  BY <1>8 DEF Kill, AfterBody, ProcessFacts, runner
<1>9. CASE SoftTimeoutExpired \/ HardTimeoutExpired \/ NoTimeout
  BY <1>9 DEF SoftTimeoutExpired, HardTimeoutExpired, NoTimeout, AfterBody,
     history, runner, locals, data
<1>10. CASE SweepGroup
  BY <1>10 DEF SweepGroup, runner, locals, data
<1>11. CASE DisarmTimer
  BY <1>11 DEF DisarmTimer, ResetTimer, history, data
<1>12. CASE CleanTarget \/ Return
  BY <1>12 DEF CleanTarget, Return, history, runner, locals, data
<1>13. CASE Alarm
  <2>1. pc \in Looping \cup {"sweep", "disarm"}
    BY <1>13 DEF Alarm, RunnerTypes, PC, Ending
  <2> QED
    BY <1>13, <2>1 DEF Alarm, MayCutPoll, locals, data, HistoryTypes, RunnerTypes
<1>14. ASSUME NEW sig, Interrupt(sig)
       PROVE  TimerFacts'
  BY <1>14 DEF Interrupt, MayCutPoll, locals, data
<1>15. CASE CheckReturns \/ CheckEnds \/ CheckDies
  BY <1>15 DEF CheckReturns, CheckEnds, CheckAnswer, CheckDies, history,
     runner, locals, data
<1>16. CASE RecordConnectionFailure
  BY <1>16 DEF RecordConnectionFailure, history, locals
<1>17. CASE UNCHANGED <<pc, runner, locals, data, alarms>>
  BY <1>17 DEF runner, locals, data
<1> QED
  BY <1>1, <1>2, <1>3, <1>4, <1>5, <1>6, <1>7, <1>8, <1>9, <1>10, <1>11,
     <1>12, <1>13, <1>14, <1>15, <1>16, <1>17
     DEF Next, InExecute, InCommunicate, Signals, Environment, Setsid,
         LeaderExits, SpawnDescendant, DescendantExits, Write,
         TargetStarts, TargetExits, LinkChanges, history,
         InterruptDiscarded, Answer, vars

(***************************************************************************)
(* GroupFacts: the sweep finds every descendant in the recorded group.     *)
(***************************************************************************)
LEMMA GroupFactsKept ==
  ASSUME TypeOK, ProcessFacts, TimerFacts, GroupFacts, [Next]_vars
  PROVE  GroupFacts'
<1> USE DEF TypeOK, GroupFacts, Goto
<1>1. CASE Execute
  BY <1>1 DEF Execute
<1>2. CASE ForkSucceeds \/ ForkFails
  BY <1>2 DEF ForkSucceeds, ForkFails, ProcessFacts, procs
<1>3. CASE AssignCurrentData
  BY <1>3 DEF AssignCurrentData, data, locals, procs, TimerFacts, ProcessFacts
<1>4. CASE EnterCommunicate
  BY <1>4 DEF EnterCommunicate, data, procs
<1>5. CASE StorePgid
  BY <1>5 DEF StorePgid, Getpgid, Present, procs
<1>6. CASE WaitPid
  BY <1>6 DEF WaitPid, AfterWaitPid, Reap, Waitable, Present, ProcessTypes
<1>7. CASE Poll \/ Read \/ SoftTimeoutExpired \/ HardTimeoutExpired \/ NoTimeout
  BY <1>7 DEF Poll, Read, SoftTimeoutExpired, HardTimeoutExpired, NoTimeout,
     AfterBody, data, locals, procs
<1>8. ASSUME NEW sig, Struck(sig), UNCHANGED <<pgid, pgroup>>,
             \/ pc' = pc /\ UNCHANGED signaled
             \/ pc = "poll" /\ pc' = "timers" /\ UNCHANGED signaled
             \/ pc \in {"soft", "hard"} /\ pc' = AfterBody
      PROVE  GroupFacts'
  BY <1>8 DEF Struck, AfterBody
<1>9. CASE Terminate
  BY <1>8, <1>9, KillStepStrikes, QuietStrikes DEF Terminate
<1>10. CASE Kill
  BY <1>8, <1>10, KillStepStrikes DEF Kill
<1>11. ASSUME NEW sig, Interrupt(sig)
       PROVE  GroupFacts'
  BY <1>8, <1>11, KillStepStrikes, QuietStrikes
     DEF Interrupt, MayCutPoll, data, locals
<1>12. CASE SweepGroup
  <2>1. leader = "reaped"
    BY <1>12 DEF SweepGroup, ProcessFacts, Ending
  <2>2. signaled # 0 => kids' = {}
    BY <1>12, <2>1 DEF SweepGroup, SweepNeeded, KillPgroup, PgroupRefused,
       StrikeGroup, procs, DataTypes
  <2>3. UNCHANGED <<group, leader, pgid, signaled>> /\ kids' \subseteq kids
    BY <1>12, <2>1, KillPgroupStrikes, QuietStrikes
       DEF SweepGroup, Struck, data, DataTypes
  <2> QED
    BY <1>12, <2>1, <2>2, <2>3 DEF SweepGroup
<1>13. CASE DisarmTimer \/ CleanTarget \/ Return
  BY <1>13 DEF DisarmTimer, CleanTarget, Return, data, locals, procs
<1>14. CASE Alarm
  BY <1>14 DEF Alarm, MayCutPoll, data, locals, procs
<1>15. CASE Setsid
  BY <1>15 DEF Setsid, data, locals
<1>16. CASE \E code \in ExitCodes : LeaderExits(code)
  BY <1>16 DEF LeaderExits, CommandRuns, data, locals
<1>17. CASE \E k \in Descendants : SpawnDescendant(k) \/ DescendantExits(k)
  BY <1>17 DEF SpawnDescendant, DescendantExits, CommandRuns, data, locals,
     ProcessFacts, TimerFacts, Ending
<1>18. CASE CheckReturns \/ CheckEnds \/ CheckDies \/ RecordConnectionFailure
  BY <1>18 DEF CheckReturns, CheckEnds, CheckAnswer, CheckDies,
     RecordConnectionFailure, data, locals, procs
<1>19. CASE UNCHANGED <<pc, locals, data, procs>>
  BY <1>19 DEF locals, data, procs
<1> QED
  BY <1>1, <1>2, <1>3, <1>4, <1>5, <1>6, <1>7, <1>9, <1>10, <1>11, <1>12,
     <1>13, <1>14, <1>15, <1>16, <1>17, <1>18, <1>19
     DEF Next, InExecute, InCommunicate, Signals, Environment, Write,
         TargetStarts, TargetExits, LinkChanges, InterruptDiscarded,
         Answer, vars

(***************************************************************************)
(* OutputFacts: a reaped command writes no more, and poll() prefers data   *)
(* to signals.                                                             *)
(***************************************************************************)
LEMMA OutputFactsKept ==
  ASSUME TypeOK, ProcessFacts, OutputFacts, [Next]_vars
  PROVE  OutputFacts'
<1> USE DEF TypeOK, OutputFacts, Checking, Goto
<1>1. CASE Execute
  BY <1>1 DEF Execute
<1>2. CASE WaitPid
  BY <1>2 DEF WaitPid, AfterWaitPid
<1>3. CASE Poll \/ Read
  BY <1>3 DEF Poll, Read, stream, data
<1>4. CASE Alarm
  BY <1>4 DEF Alarm, MayCutPoll, stream, data
<1>5. ASSUME NEW sig, Interrupt(sig)
      PROVE  OutputFacts'
  BY <1>5 DEF Interrupt, MayCutPoll, stream, data
<1>6. CASE Write
  BY <1>6 DEF Write, CommandRuns, ProcessFacts, data
<1>7. CASE ForkSucceeds \/ ForkFails \/ AssignCurrentData \/ EnterCommunicate
           \/ StorePgid
  BY <1>7 DEF ForkSucceeds, ForkFails, AssignCurrentData, EnterCommunicate,
     StorePgid, stream, data
<1>8. CASE \/ SoftTimeoutExpired \/ Terminate \/ HardTimeoutExpired \/ Kill
           \/ NoTimeout
  BY <1>8 DEF SoftTimeoutExpired, Terminate, HardTimeoutExpired, Kill,
     NoTimeout, AfterBody, stream, data
<1>9. CASE SweepGroup \/ DisarmTimer \/ CleanTarget \/ Return
  BY <1>9 DEF SweepGroup, DisarmTimer, CleanTarget, Return, stream, data
<1>10. CASE CheckReturns \/ CheckEnds \/ CheckDies \/ RecordConnectionFailure
  BY <1>10 DEF CheckReturns, CheckEnds, CheckAnswer, CheckDies,
     RecordConnectionFailure, stream, data
<1>11. CASE UNCHANGED <<pc, data, stream>>
  BY <1>11 DEF data, stream
<1> QED
  BY <1>1, <1>2, <1>3, <1>4, <1>5, <1>6, <1>7, <1>8, <1>9, <1>10, <1>11
     DEF Next, InExecute, InCommunicate, Signals, Environment, Setsid,
         LeaderExits, SpawnDescendant, DescendantExits, TargetStarts,
         TargetExits, LinkChanges, InterruptDiscarded, Answer, vars

(***************************************************************************)
(* LinkFacts: a check that finds the link down, or is lost, stands behind  *)
(* every connection failure.                                               *)
(***************************************************************************)
LEMMA LinkFactsKept ==
  ASSUME TypeOK, LinkFacts, [Next]_vars
  PROVE  LinkFacts'
<1> USE DEF TypeOK, LinkFacts, NoFalseConnectionFailure, REMOTE_FAIL, Goto
<1>1. CASE Execute
  BY <1>1 DEF Execute, runner, user
<1>2. CASE WaitPid
  <2>1. "connection" \notin FailureOf(status)
    BY DEF FailureOf
  <2> QED
    BY <1>2, <2>1 DEF WaitPid, Reap, AfterWaitPid, remote, runner, history, user
<1>3. CASE SoftTimeoutExpired \/ HardTimeoutExpired \/ CleanTarget
  BY <1>3 DEF SoftTimeoutExpired, HardTimeoutExpired, CleanTarget,
     CallUnlessBail, Call, remote, runner, data, history, user
<1>4. CASE Terminate \/ Kill
  BY <1>4 DEF Terminate, Kill, AfterBody, remote, runner, user
<1>5. ASSUME NEW sig \in {SIGINT, SIGTERM}, Interrupt(sig)
      PROVE  LinkFacts'
  BY <1>5 DEF Interrupt, RecordInterrupt, Call, MayCutPoll, remote, data,
     SIGINT, SIGTERM, RunnerTypes, Interrupted
<1>6. CASE \/ TargetStarts
           \/ TargetExits
           \/ InterruptDiscarded
           \/ \E c \in Calls : Answer(c)
  <2>1. CASE InterruptDiscarded
    BY <2>1 DEF InterruptDiscarded, remote, runner, data
  <2>2. CASE TargetStarts \/ TargetExits
    BY <2>2 DEF TargetStarts, TargetExits, runner, data, history, user
  <2>3. ASSUME NEW c \in Calls, Answer(c)
        PROVE  LinkFacts'
    <3>1. UNCHANGED <<pc, runner, data, history, link, linkLost, checkLost>>
      BY <2>3 DEF Answer
    <3> QED
      BY <3>1 DEF runner, data, history, user
  <2> QED
    BY <1>6, <2>1, <2>2, <2>3
<1>7. CASE LinkChanges
  BY <1>7 DEF LinkChanges, runner, data, history, user, TargetTypes
<1>8. CASE CheckEnds \/ CheckDies \/ CheckReturns
  BY <1>8 DEF CheckEnds, CheckAnswer, CheckDies, CheckReturns, remote, runner,
     data, history, user
<1>9. CASE RecordConnectionFailure
  BY <1>9 DEF RecordConnectionFailure, remote, history, user
<1>10. CASE ForkSucceeds \/ ForkFails
  BY <1>10 DEF ForkSucceeds, ForkFails, remote, runner, history, user
<1>11. CASE AssignCurrentData \/ EnterCommunicate \/ DisarmTimer \/ Return
  BY <1>11 DEF AssignCurrentData, EnterCommunicate, DisarmTimer, Return,
     remote, data, history, user
<1>12. CASE StorePgid \/ Poll \/ Read \/ NoTimeout \/ SweepGroup
  BY <1>12 DEF StorePgid, Poll, Read, NoTimeout, SweepGroup, AfterBody, remote,
     runner, data, history, user
<1>13. CASE Alarm
  BY <1>13 DEF Alarm, MayCutPoll, remote, data, user
<1>14. CASE UNCHANGED <<pc, bail_out, data, remote, user>>
  BY <1>14 DEF data, remote, user
<1> QED
  BY <1>1, <1>2, <1>3, <1>4, <1>5, <1>6, <1>7, <1>8, <1>9, <1>10, <1>11,
     <1>12, <1>13, <1>14
     DEF Next, InExecute, InCommunicate, Signals, Environment, Setsid,
         LeaderExits, SpawnDescendant, DescendantExits, Write, runner,
         history, vars

-----------------------------------------------------------------------------
(***************************************************************************)
(* The strengthening holds initially and is preserved by every step: this  *)
(* is the invariant of the executor.                                       *)
(***************************************************************************)
LEMMA IndInvInitially == Init => IndInv
<1> SUFFICES ASSUME Init PROVE IndInv
  OBVIOUS
<1>1. RunnerTypes
  BY DEF Init, RunnerTypes, PC
<1>2. DataTypes
  <2>1. waited \in BOOLEAN
    BY DEF Init
  <2>2. pid = "none" /\ pgid = "none" /\ failure_info = {}
    BY DEF Init
  <2>3. result \in 0..255 /\ signaled = 0
    BY DEF Init
  <2> QED
    BY <2>1, <2>2, <2>3 DEF DataTypes
<1>3. ProcessTypes
  BY ExecutorAssumption DEF Init, ProcessTypes
<1>4. TargetTypes /\ HistoryTypes
  <2>1. /\ {pidfile, link, linkLost, checkLost} \subseteq BOOLEAN
        /\ {asked, discarded} \subseteq BOOLEAN
    BY DEF Init
  <2>2. target \in {"none"} /\ hit = {} /\ calls = {}
    BY DEF Init
  <2>3. alarms \in 0..2 /\ steps \in 0..MaxSteps /\ ret = 0
    BY ExecutorAssumption DEF Init
  <2> QED
    BY <2>1, <2>2, <2>3 DEF TargetTypes, HistoryTypes
<1>5. ProcessFacts
  BY DEF Init, ProcessFacts, Looping, Checking, Ending
<1>6. TimerFacts
  BY DEF Init, TimerFacts, Looping, Checking, SIGTERM, SIGKILL
<1>7. GroupFacts /\ OutputFacts /\ LinkFacts /\ RunnerNeverHit
  BY DEF Init, GroupFacts, OutputFacts, LinkFacts, RunnerNeverHit,
     NoFalseConnectionFailure, REMOTE_FAIL, Checking
<1> QED
  BY <1>1, <1>2, <1>3, <1>4, <1>5, <1>6, <1>7 DEF IndInv, TypeOK

\* IndInv holds in every reachable state of the executor.
THEOREM ExecutorIndInv == Spec => []IndInv
<1>1. IndInv /\ [Next]_vars => IndInv'
  <2> SUFFICES ASSUME IndInv, [Next]_vars PROVE IndInv'
    OBVIOUS
  <2>1. TypeOK'
    BY RunnerTypesKept, DataTypesKept, ProcessTypesKept, TargetTypesKept,
       HistoryTypesKept DEF IndInv, TypeOK
  <2>2. ProcessFacts' /\ TimerFacts' /\ GroupFacts'
    BY ProcessFactsKept, TimerFactsKept, GroupFactsKept DEF IndInv
  <2>3. OutputFacts' /\ LinkFacts' /\ RunnerNeverHit'
    BY OutputFactsKept, LinkFactsKept, RunnerStaysUnhit DEF IndInv
  <2> QED
    BY <2>1, <2>2, <2>3 DEF IndInv
<1> QED
  BY IndInvInitially, <1>1, PTL DEF Spec

\* Type correctness of the executor.
THEOREM ExecutorTypes == Spec => []TypeOK
<1>1. IndInv => TypeOK
  BY DEF IndInv
<1> QED
  BY ExecutorIndInv, <1>1, PTL

\* A timeout never signals the process group of testrunner-lite itself.
THEOREM ExecutorSparesRunner == Spec => []RunnerNeverHit
<1>1. IndInv => RunnerNeverHit
  BY DEF IndInv
<1> QED
  BY ExecutorIndInv, <1>1, PTL

\* communicate() ends only with the command's own wait status in its result.
THEOREM ExecutorReportsTheCommand == Spec => []ResultIsTheCommands
<1>1. IndInv => ResultIsTheCommands
  BY DEF IndInv, ProcessFacts, ResultIsTheCommands
<1> QED
  BY ExecutorIndInv, <1>1, PTL

\* A step that ran into a timeout leaves no process of its group behind.
THEOREM ExecutorSweepsTimedOutGroup == Spec => []TimedOutGroupGone
<1>1. IndInv => TimedOutGroupGone
  BY DEF IndInv, ProcessFacts, TimerFacts, GroupFacts, TimedOutGroupGone,
     Ending, TypeOK, DataTypes
<1> QED
  BY ExecutorIndInv, <1>1, PTL

\* No SIGTERM before the soft and no SIGKILL before the hard timeout.
THEOREM ExecutorKeepsGracePeriod == Spec => []EscalationNeedsAlarms
<1>1. IndInv => EscalationNeedsAlarms
  BY DEF IndInv, TimerFacts, EscalationNeedsAlarms
<1> QED
  BY ExecutorIndInv, <1>1, PTL

\* No timer survives the step it was set for.
THEOREM ExecutorDisarmsTimer == Spec => []NoTimerBetweenSteps
<1>1. IndInv => NoTimerBetweenSteps
  BY DEF IndInv, TimerFacts, Unarmed, NoTimerBetweenSteps
<1> QED
  BY ExecutorIndInv, <1>1, PTL

\* Everything the command wrote has been read when communicate() ends.
THEOREM ExecutorReadsAllOutput == Spec => []NoOutputLost
<1>1. IndInv => NoOutputLost
  BY DEF IndInv, ProcessFacts, OutputFacts, NoOutputLost,
     Checking, Ending
<1> QED
  BY ExecutorIndInv, <1>1, PTL

\* A connection failure is recorded only after a link that has failed or a check
\* of it that was lost.
THEOREM ExecutorNoFalseConnectionFailure == Spec => []NoFalseConnectionFailure
<1>1. IndInv => NoFalseConnectionFailure
  BY DEF IndInv, LinkFacts
<1> QED
  BY ExecutorIndInv, <1>1, PTL

\* A signal of the user that was not discarded by system() is kept to the end,
\* and only a connection failure takes its place.
THEOREM ExecutorKeepsInterrupt == Spec => InterruptIsKept
<1>1. IndInv /\ IndInv' /\ [Next]_vars => [InterruptIsKeptStep]_vars
  <2> SUFFICES ASSUME IndInv, IndInv', [Next]_vars
               PROVE  InterruptIsKeptStep
    OBVIOUS
  <2>1. asked' => bail_out' # 0 \/ discarded'
    BY DEF IndInv, LinkFacts
  <2>2. ASSUME bail_out \in Interrupted
        PROVE  \/ bail_out' \in Interrupted
               \/ bail_out' = REMOTE_FAIL /\ (linkLost \/ checkLost)
    <3>1. CASE RecordConnectionFailure
      BY <3>1 DEF RecordConnectionFailure, Goto, IndInv, LinkFacts
    <3>2. ASSUME NEW sig, Interrupt(sig)
          PROVE  bail_out' \in Interrupted
      BY <2>2, <3>2 DEF Interrupt, RecordInterrupt, Interrupted, SIGINT, SIGTERM
    <3>3. CASE UNCHANGED bail_out
      BY <2>2, <3>3
    <3> QED
      BY <3>1, <3>2, <3>3
         DEF Next, Execute, InExecute, InCommunicate, ForkSucceeds, ForkFails,
             AssignCurrentData, EnterCommunicate, StorePgid, WaitPid,
             CheckReturns, Poll, Read, SoftTimeoutExpired, Terminate,
             HardTimeoutExpired, Kill, NoTimeout, SweepGroup, DisarmTimer,
             CleanTarget, Return, Signals, Alarm, InterruptDiscarded,
             Environment, Setsid, LeaderExits, SpawnDescendant,
             DescendantExits, Write, TargetStarts, TargetExits, LinkChanges,
             CheckEnds, CheckDies, Answer, runner, vars
  <2> QED
    BY <2>1, <2>2 DEF InterruptIsKeptStep
<1> QED
  BY ExecutorIndInv, <1>1, PTL DEF Spec, InterruptIsKept
=============================================================================
