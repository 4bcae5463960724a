----------------------------- MODULE StepExecutor -----------------------------
(***************************************************************************)
(* The step executor of testrunner-lite (executor.c): execute() forks the  *)
(* command of a step into a session of its own, communicate() polls its    *)
(* output, waits for it and enforces the soft and the hard timeout, while  *)
(* SIGALRM, SIGINT and SIGTERM may interrupt the runner between any two    *)
(* statements.  In a host-based run (-t/-E) the runner also waits for the  *)
(* remote executor it has started itself, without a limit of time.         *)
(*                                                                         *)
(* The runner is a sequential program with the control points of PC; the   *)
(* processes of the step, the kernel timer, the user's signals and, for a  *)
(* host-based run (-t/-E), the link to the target and the command on it    *)
(* move on their own.  Process groups are abstracted to the three values   *)
(* the code can tell apart: the runner's "own" group, the group of the     *)
(* "step", and "none" for everything getpgid() reports as absent.          *)
(***************************************************************************)
EXTENDS Naturals

CONSTANTS
  Remote,       (* options->remote_executor is set                          *)
  SoftTimeout,  (* data->soft_timeout, 0 = no timeout                       *)
  HardTimeout,  (* data->hard_timeout, 0 = no timeout                       *)
  Descendants,  (* processes the command may leave in its process group     *)
  ExitCodes,    (* exit statuses the command may return                     *)
  MaxSteps,     (* bound: calls of execute()                                *)
  MaxOutput,    (* bound: writes of the step's processes, over all calls    *)
  Chatty        (* the command's output never ends (MaxOutput is no bound)  *)

ASSUME ExecutorAssumption ==
  /\ Remote \in BOOLEAN
  /\ SoftTimeout \in Nat
  /\ HardTimeout \in Nat
  /\ ExitCodes \subseteq 0..255
  /\ MaxSteps \in Nat
  /\ MaxOutput \in Nat
  /\ Chatty \in BOOLEAN

SIGINT  == 2
SIGKILL == 9
SIGTERM == 15

REMOTE_FAIL == 2                      \* TESTRUNNER_LITE_REMOTE_FAIL
Interrupted == {255 + SIGINT, 255 + SIGTERM}

VARIABLES
  (* The runner: global state, then locals of communicate(). *)
  pc, bail_out, current_data, armed, timer_value,
  pgroup, ready, terminated, killed,
  (* exec_data of the running (or last) step. *)
  pid, pgid, waited, result, signaled, failure_info,
  (* The step's processes: its leader (data->pid), the group the leader is  *)
  (* in, its wait status, the rest of its group, and the unread output.     *)
  leader, group, status, kids, pipe, output,
  (* The target of a host-based run, and the commands the runner has sent   *)
  (* there and is waiting for.                                              *)
  target, pidfile, link, calls,
  (* Observation only: alarms of this step, victims outside the step, calls *)
  (* of execute(), and what it returned; has the link ever failed, has a    *)
  (* check of it been lost; has the user sent a signal, was one discarded.  *)
  alarms, hit, steps, ret, linkLost, checkLost, asked, discarded

runner  == <<bail_out, current_data, armed, timer_value>>
locals  == <<pgroup, ready, terminated, killed>>
data    == <<pid, pgid, waited, result, signaled, failure_info>>
procs   == <<leader, group, status, kids>>
stream  == <<pipe, output>>
remote  == <<target, pidfile, link, linkLost, checkLost, calls>>
user    == <<asked, discarded>>
history == <<alarms, hit, steps, ret, user>>
vars    == <<pc, runner, locals, data, procs, stream, remote, history>>

\* system() runs in the check of the connection: SIGINT is ignored meanwhile.
Checking == {"check", "up", "down"}
Looping == {"getpgid", "waitpid", "failing", "poll", "read", "timers", "soft",
            "hard"} \cup Checking
Ending  == {"sweep", "disarm", "clean"}
PC      == {"idle", "fork", "assign", "arm", "clear"} \cup Looping \cup Ending

Calls == {"kill", "clean", "int", "term"}

\* The runner goes on once every command it waits for has ended.
Goto(from, to) == pc = from /\ pc' = to /\ calls = {}

-----------------------------------------------------------------------------
(* Signals to the step's processes.                                         *)

Present == leader \in {"alive", "zombie"}

\* getpgid(data->pid): a zombie still has its group, a reaped process none.
Getpgid == IF Present THEN group ELSE "none"

\* SIGTERM may be handled or ignored by the process it is sent to.
StrikeLeader(sig) ==
  \/ /\ leader = "alive"
     /\ leader' = "zombie"
     /\ status' = [kind |-> "signal", code |-> sig]
     /\ UNCHANGED group
  \/ /\ leader = "alive" => sig # SIGKILL
     /\ UNCHANGED <<leader, status, group>>

StrikeGroup(sig) ==
  /\ StrikeLeader(sig)
  /\ kids' \in IF sig = SIGKILL THEN {{}} ELSE SUBSET kids

\* The two guards at the top of kill_pgroup().
PgroupRefusedUnlessOwn(g) == g = "none"
PgroupRefused(g) == g \in {"none", "own"}

KillPgroup(g, sig) ==
  IF PgroupRefused(g) THEN UNCHANGED <<procs, hit>>
  ELSE IF g = "own" THEN hit' = hit \cup {"runner"} /\ UNCHANGED procs
  ELSE StrikeGroup(sig) /\ UNCHANGED hit

\* kill(pid, sig), where pid -1 (a failed fork) addresses every process.
KillPid(sig) ==
  IF pid = "failed" THEN hit' = hit \cup {"everyone"} /\ UNCHANGED procs
  ELSE StrikeLeader(sig) /\ UNCHANGED <<kids, hit>>

KillStep(sig) ==
  IF PgroupRefused(Getpgid) THEN KillPid(sig) ELSE KillPgroup(Getpgid, sig)

\* remote_kill() and remote_clean(): a command for the target is started.
Call(c) == calls' = calls \cup {c} /\ UNCHANGED <<target, pidfile, link, linkLost, checkLost>>

-----------------------------------------------------------------------------
(* The timer.                                                               *)

\* set_timer(): clears timer_value; a timeout of 0 seconds arms nothing.
SetTimer(secs) == armed' = (secs > 0) /\ timer_value' = FALSE

ResetTimerForgotten == UNCHANGED <<armed, timer_value>>
ResetTimer == armed' = FALSE /\ timer_value' = FALSE

\* reset_timer(); set_timer(hard_timeout), as communicate() does on the soft
\* timeout: no alarm can be pending in between.
RearmTimerStale(secs) == armed' = (secs > 0) /\ UNCHANGED timer_value
RearmTimerNever(secs) == ResetTimer
RearmTimer(secs) == SetTimer(secs)

\* A signal makes a blocked poll() return -1; a poll() with data to report
\* returns it first, and one that has not started yet is not disturbed.
MayCutPoll ==
  \/ UNCHANGED pc
  \/ pc = "poll" /\ pipe = {} /\ pc' = "timers"

\* timer_handler()
Alarm ==
  /\ armed
  /\ armed' = FALSE
  /\ timer_value' = TRUE
  /\ alarms' = alarms + 1
  /\ MayCutPoll
  /\ UNCHANGED <<bail_out, current_data, locals, data, procs, stream, remote,
                 hit, steps, ret, user>>

-----------------------------------------------------------------------------
(* handle_sigint() and handle_sigterm().                                    *)

RecordInterruptAgain(sig) == bail_out' = bail_out + 255 + sig
RecordInterruptOfStep(sig) ==
  bail_out' = IF current_data /\ bail_out = 0 THEN 255 + sig ELSE bail_out
RecordInterrupt(sig) ==
  bail_out' = IF bail_out = 0 THEN 255 + sig ELSE bail_out

\* A handler that waits in remote_kill() is not entered again.
Handler(sig) == IF sig = SIGINT THEN "int" ELSE "term"

Interrupt(sig) ==
  /\ ~(sig = SIGINT /\ pc \in Checking)
  /\ Handler(sig) \notin calls
  /\ RecordInterrupt(sig)
  /\ IF ~current_data THEN UNCHANGED <<procs, remote, hit>>
     ELSE IF Remote THEN Call(Handler(sig)) /\ UNCHANGED <<procs, hit>>
     ELSE KillStep(SIGKILL) /\ UNCHANGED remote
  /\ MayCutPoll
  /\ asked' = TRUE
  /\ UNCHANGED <<current_data, armed, timer_value, locals, data, stream,
                 alarms, steps, ret, discarded>>

\* In system() SIGINT is ignored, and nobody hears of it afterwards.
InterruptDiscarded ==
  /\ pc \in Checking
  /\ asked' = TRUE /\ discarded' = TRUE
  /\ UNCHANGED <<pc, runner, locals, data, procs, stream, remote, alarms, hit,
                 steps, ret>>

-----------------------------------------------------------------------------
(* execute() up to communicate().                                           *)

\* The caller hands over an exec_data it has cleared (memset, init_exec_data).
Execute ==
  /\ steps < MaxSteps
  /\ Goto("idle", "fork")
  /\ steps' = steps + 1
  /\ pid' = "none" /\ pgid' = "none" /\ waited' = FALSE
  /\ result' = 0 /\ signaled' = 0 /\ failure_info' = {}
  /\ leader' = "none" /\ group' = "own" /\ kids' = {} /\ pipe' = {}
  /\ status' = [kind |-> "exit", code |-> 0]
  /\ target' = "none" /\ pidfile' = FALSE
  /\ alarms' = 0
  /\ UNCHANGED <<runner, locals, output, link, linkLost, checkLost, calls, hit,
                 ret, user>>

ForkSucceeds ==
  /\ Goto("fork", "assign")
  /\ pid' = "child"
  /\ leader' = "alive"
  /\ UNCHANGED <<runner, locals, pgid, waited, result, signaled, failure_info,
                 group, status, kids, stream, remote, history>>

\* pipe() or fork() failed: fork_process_redirect() returns -1.
ForkFails ==
  /\ Goto("fork", "assign")
  /\ pid' = "failed"
  /\ UNCHANGED <<runner, locals, pgid, waited, result, signaled, failure_info,
                 procs, stream, remote, history>>

\* Until here an interrupt finds no current_data and kills nothing.
AssignCurrentData ==
  /\ Goto("assign", IF pid = "child" THEN "arm" ELSE "clear")
  /\ current_data' = TRUE
  /\ UNCHANGED <<bail_out, armed, timer_value, locals, data, procs, stream,
                 remote, history>>

EnterCommunicate ==
  /\ Goto("arm", "getpgid")
  /\ SetTimer(SoftTimeout)
  /\ ready' = FALSE /\ terminated' = FALSE /\ killed' = FALSE
  /\ pgroup' = "none"
  /\ UNCHANGED <<bail_out, current_data, data, procs, stream, remote, history>>

-----------------------------------------------------------------------------
(* execution_terminated(): getpgid(), then waitpid(-pgroup, WNOHANG).       *)

StorePgid ==
  /\ Goto("getpgid", "waitpid")
  /\ pgroup' = Getpgid
  /\ pgid' = IF Getpgid = "none" THEN pgid ELSE Getpgid
  /\ UNCHANGED <<runner, ready, terminated, killed, pid, waited, result,
                 signaled, failure_info, procs, stream, remote, history>>

ConnectionSuspect(code) == code = 255 \/ code \in 65..79

\* These may be the executor's own as well as the command's exit statuses.
Suspect == Remote /\ status.kind = "exit" /\ ConnectionSuspect(status.code)

FailureOf(st) ==
  IF \/ st.kind = "signal"
     \/ Remote /\ st.code \in 129..159
  THEN {"signal"} ELSE {}

Reap ==
  /\ leader' = "reaped"
  /\ waited' = TRUE
  /\ result' = status.code
  /\ failure_info' = failure_info \cup FailureOf(status)

\* ECHILD ends the loop only after data->pid itself was reaped: before, it
\* means that the child has moved to its own group behind getpgid()'s back.
NoChildMeansReadyAlways == TRUE
NoChildMeansReady == waited

Waitable == Present /\ group = pgroup

\* The loop body goes on to the output streams, whatever waitpid() said.
AfterWaitPidBreak == IF Waitable /\ leader = "zombie" THEN "sweep" ELSE "poll"
AfterWaitPid ==
  IF Waitable /\ leader = "zombie" /\ Suspect THEN "check" ELSE "poll"

WaitPid ==
  /\ Goto("waitpid", AfterWaitPid)
  /\ ready' = (~Waitable /\ NoChildMeansReady)
  /\ IF Waitable /\ leader = "zombie" THEN Reap
     ELSE UNCHANGED <<leader, waited, result, failure_info>>
  /\ UNCHANGED <<runner, pgroup, terminated, killed, pid, pgid, signaled, group,
                 status, kids, stream, remote, history>>

-----------------------------------------------------------------------------
(* remote_check_conn(): system() of another command for the target.         *)

CheckFailsAnyway == "down"
CheckAnswer == IF link THEN "up" ELSE "down"

CheckEnds ==
  /\ pc = "check"
  /\ pc' = CheckAnswer
  /\ UNCHANGED <<runner, locals, data, procs, stream, remote, history>>

\* Ctrl-C reaches the check as it is in the runner's group; system() may fail
\* to start it.  Neither says anything about the link.
CheckDies ==
  /\ pc = "check"
  /\ pc' = "down"
  /\ checkLost' = TRUE
  /\ UNCHANGED <<runner, locals, data, procs, stream, target, pidfile, link,
                 linkLost, calls, history>>

\* system() returns and SIGINT is handled again.
CheckReturns ==
  /\ Goto("up", "poll") \/ Goto("down", "failing")
  /\ UNCHANGED <<runner, locals, data, procs, stream, remote, history>>

RecordConnectionFailure ==
  /\ Goto("failing", "poll")
  /\ bail_out' = REMOTE_FAIL
  /\ failure_info' = failure_info \cup {"connection"}
  /\ UNCHANGED <<current_data, armed, timer_value, locals, pid, pgid, waited,
                 result, signaled, procs, stream, remote, history>>

-----------------------------------------------------------------------------
(* process_output_streams() and read_and_append().                          *)

Poll ==
  /\ Goto("poll", IF pipe = {} THEN "timers" ELSE "read")
  /\ UNCHANGED <<runner, locals, data, procs, stream, remote, history>>

\* The do-while loop of read_and_append(): it ends when there is no more data.
Read ==
  /\ Goto("read", IF pipe = {} THEN "timers" ELSE "read")
  /\ pipe' = {}
  /\ UNCHANGED <<runner, locals, data, procs, output, remote, history>>

-----------------------------------------------------------------------------
(* The timeout branches at the end of the loop body of communicate().       *)

AfterBody == IF ready THEN "sweep" ELSE "getpgid"

\* if (options->remote_executor && !bail_out)
CallUnlessBail(c) ==
  IF Remote /\ bail_out = 0 THEN Call(c) ELSE UNCHANGED remote

SoftTimeoutExpired ==
  /\ Goto("timers", "soft")
  /\ timer_value /\ ~terminated
  /\ CallUnlessBail("kill")
  /\ UNCHANGED <<runner, locals, data, procs, stream, history>>

Terminate ==
  /\ Goto("soft", AfterBody)
  /\ IF Remote THEN UNCHANGED <<procs, hit>> ELSE KillStep(SIGTERM)
  /\ signaled' = SIGTERM
  /\ failure_info' = failure_info \cup {"timeout"}
  /\ terminated' = TRUE
  /\ RearmTimer(HardTimeout)
  /\ UNCHANGED <<bail_out, current_data, pgroup, ready, killed, pid, pgid,
                 waited, result, stream, remote, alarms, steps, ret, user>>

HardTimeoutExpired ==
  /\ Goto("timers", "hard")
  /\ timer_value /\ terminated /\ ~killed
  /\ CallUnlessBail("kill")
  /\ UNCHANGED <<runner, locals, data, procs, stream, history>>

Kill ==
  /\ Goto("hard", AfterBody)
  /\ KillStep(SIGKILL)
  /\ signaled' = SIGKILL
  /\ killed' = TRUE
  /\ UNCHANGED <<runner, pgroup, ready, terminated, pid, pgid, waited, result,
                 failure_info, stream, remote, alarms, steps, ret, user>>

NoTimeout ==
  /\ Goto("timers", AfterBody)
  /\ timer_value => terminated /\ killed
  /\ UNCHANGED <<runner, locals, data, procs, stream, remote, history>>

-----------------------------------------------------------------------------
(* The end of communicate() and execute().                                  *)

SweepNeededAfterKill == signaled = SIGKILL /\ pgid # "none"
SweepNeeded == signaled # 0 /\ pgid # "none"

\* Children that survived SIGTERM are killed with their group.
SweepGroup ==
  /\ Goto("sweep", "disarm")
  /\ IF SweepNeeded THEN KillPgroup(pgid, SIGKILL)
     ELSE UNCHANGED <<procs, hit>>
  /\ UNCHANGED <<runner, locals, data, stream, remote, alarms, steps, ret,
                 user>>

DisarmTimer ==
  /\ Goto("disarm", "clean")
  /\ ResetTimer
  /\ UNCHANGED <<bail_out, current_data, locals, data, procs, stream, remote,
                 history>>

\* remote_clean(), skipped once the run is bailing out.
CleanTarget ==
  /\ Goto("clean", "clear")
  /\ CallUnlessBail("clean")
  /\ UNCHANGED <<runner, locals, data, procs, stream, history>>

Return ==
  /\ Goto("clear", "idle")
  /\ current_data' = FALSE
  /\ ret' = 0
  /\ UNCHANGED <<bail_out, armed, timer_value, locals, data, procs, stream,
                 remote, alarms, hit, steps, user>>

-----------------------------------------------------------------------------
(* The environment: the step's processes, the target and the link.          *)

\* The child leaves the runner's group before it runs the command.
Setsid ==
  /\ leader = "alive" /\ group = "own"
  /\ group' = "step"
  /\ UNCHANGED <<pc, runner, locals, data, leader, status, kids, stream,
                 remote, history>>

CommandRuns == leader = "alive" /\ group = "step"

\* A local command exits by itself; an executor such as ssh exits with the
\* status of the command on the target, or with 255 once the link is lost.
LeaderExits(code) ==
  /\ CommandRuns
  /\ target = "running" => ~link /\ code = 255
  /\ leader' = "zombie"
  /\ status' = [kind |-> "exit", code |-> code]
  /\ UNCHANGED <<pc, runner, locals, data, group, kids, stream, remote,
                 history>>

SpawnDescendant(k) ==
  /\ CommandRuns \/ kids # {}
  /\ kids' = kids \cup {k}
  /\ UNCHANGED <<pc, runner, locals, data, leader, group, status, stream,
                 remote, history>>

DescendantExits(k) ==
  /\ k \in kids
  /\ kids' = kids \ {k}
  /\ UNCHANGED <<pc, runner, locals, data, leader, group, status, stream,
                 remote, history>>

Write ==
  /\ pid = "child"
  /\ output > 0
  /\ \/ CommandRuns /\ pipe' = pipe \cup {"leader"}
     \/ kids # {} /\ pipe' = pipe \cup {"kid"}
  /\ output' = IF Chatty THEN output ELSE output - 1
  /\ UNCHANGED <<pc, runner, locals, data, procs, remote, history>>

\* remote_execute() writes the pid file on the target, then runs the command.
TargetStarts ==
  /\ Remote /\ CommandRuns /\ link /\ target = "none"
  /\ target' = "running"
  /\ pidfile' = TRUE
  /\ UNCHANGED <<pc, runner, locals, data, procs, stream, link, linkLost,
                 checkLost, calls, history>>

TargetExits ==
  /\ target = "running"
  /\ target' = "dead"
  /\ UNCHANGED <<pc, runner, locals, data, procs, stream, pidfile, link,
                 linkLost, checkLost, calls, history>>

LinkChanges ==
  /\ Remote
  /\ link' = ~link
  /\ linkLost' = (linkLost \/ link)
  /\ UNCHANGED <<pc, runner, locals, data, procs, stream, target, pidfile,
                 checkLost, calls, history>>

\* A command the runner waits for ends: over a link that is up it may have
\* done its work (pkill through the pid file, or rm of that file), or not.
Answer(c) ==
  /\ c \in calls
  /\ calls' = calls \ {c}
  /\ target' \in IF c # "clean" /\ link /\ pidfile /\ target = "running"
                 THEN {"running", "dead"} ELSE {target}
  /\ pidfile' \in IF c = "clean" /\ link THEN {FALSE, pidfile} ELSE {pidfile}
  /\ UNCHANGED <<pc, runner, locals, data, procs, stream, link, linkLost,
                 checkLost, history>>

-----------------------------------------------------------------------------
Init ==
  /\ pc = "idle"
  /\ bail_out = 0 /\ current_data = FALSE
  /\ armed = FALSE /\ timer_value = FALSE
  /\ pgroup = "none" /\ ready = FALSE /\ terminated = FALSE /\ killed = FALSE
  /\ pid = "none" /\ pgid = "none" /\ waited = FALSE
  /\ result = 0 /\ signaled = 0 /\ failure_info = {}
  /\ leader = "none" /\ group = "own" /\ kids = {}
  /\ status = [kind |-> "exit", code |-> 0]
  /\ pipe = {} /\ output = MaxOutput
  /\ target = "none" /\ pidfile = FALSE /\ link = TRUE /\ calls = {}
  /\ linkLost = FALSE /\ checkLost = FALSE
  /\ asked = FALSE /\ discarded = FALSE
  /\ alarms = 0 /\ hit = {} /\ steps = 0 /\ ret = 0

InCommunicate ==
  \/ EnterCommunicate
  \/ StorePgid
  \/ WaitPid
  \/ CheckReturns
  \/ RecordConnectionFailure
  \/ Poll
  \/ Read
  \/ SoftTimeoutExpired
  \/ Terminate
  \/ HardTimeoutExpired
  \/ Kill
  \/ NoTimeout
  \/ SweepGroup
  \/ DisarmTimer
  \/ CleanTarget

InExecute ==
  \/ ForkSucceeds
  \/ ForkFails
  \/ AssignCurrentData
  \/ InCommunicate
  \/ Return

Signals ==
  \/ Alarm
  \/ Interrupt(SIGINT)
  \/ Interrupt(SIGTERM)
  \/ InterruptDiscarded

Environment ==
  \/ Setsid
  \/ \E code \in ExitCodes : LeaderExits(code)
  \/ \E k \in Descendants : SpawnDescendant(k)
  \/ \E k \in Descendants : DescendantExits(k)
  \/ Write
  \/ TargetStarts
  \/ TargetExits
  \/ LinkChanges
  \/ CheckEnds
  \/ CheckDies
  \/ \E c \in Calls : Answer(c)

Next == Execute \/ InExecute \/ Signals \/ Environment

\* The runner keeps running and an armed timer expires; nothing is assumed of
\* the command, of the link, of the remote executor or of the user.
Fairness == WF_vars(InExecute) /\ WF_vars(Alarm)

Spec == Init /\ [][Next]_vars /\ Fairness

-----------------------------------------------------------------------------
(* Properties.                                                              *)

\* Types of the variables; bail_out is a success, a lost link or an interrupt.
RunnerTypes ==
  /\ pc \in PC
  /\ bail_out \in {0, REMOTE_FAIL} \cup Interrupted
  /\ {current_data, armed, timer_value} \subseteq BOOLEAN
  /\ pgroup \in {"none", "own", "step"}
  /\ {ready, terminated, killed} \subseteq BOOLEAN

DataTypes ==
  /\ pid \in {"none", "child", "failed"}
  /\ pgid \in {"none", "own", "step"}
  /\ waited \in BOOLEAN
  /\ result \in 0..255
  /\ signaled \in {0, SIGTERM, SIGKILL}
  /\ failure_info \subseteq {"timeout", "connection", "signal"}

ProcessTypes ==
  /\ leader \in {"none", "alive", "zombie", "reaped"}
  /\ group \in {"own", "step"}
  /\ status \in [kind : {"exit", "signal"}, code : 0..255]
  /\ kids \subseteq Descendants
  /\ pipe \subseteq {"leader", "kid"}
  /\ output \in 0..MaxOutput

TargetTypes ==
  /\ target \in {"none", "running", "dead"}
  /\ calls \subseteq Calls
  /\ {pidfile, link, linkLost, checkLost} \subseteq BOOLEAN

HistoryTypes ==
  /\ alarms \in 0..2
  /\ hit \subseteq {"runner", "everyone"}
  /\ steps \in 0..MaxSteps
  /\ ret = 0
  /\ {asked, discarded} \subseteq BOOLEAN

TypeOK ==
  /\ RunnerTypes
  /\ DataTypes
  /\ ProcessTypes
  /\ TargetTypes
  /\ HistoryTypes

\* A step's timeouts never hit the group the runner itself is in, although
\* the child is still in that group between fork() and setsid().
RunnerNeverHit == "runner" \notin hit

\* communicate() leaves its loop only after it has reaped the command, and
\* what it reports is the wait status of the command.
ResultIsTheCommands ==
  pc \in Ending => /\ leader = "reaped"
                   /\ result = status.code
                   /\ status.kind = "signal" => "signal" \in failure_info

\* Once execute() has swept a step that ran into a timeout, no process of the
\* step's group is left, whoever ignored SIGTERM or was spawned meanwhile.
TimedOutGroupGone ==
  pc \in {"disarm", "clean", "clear", "idle"} /\ signaled # 0 =>
    leader # "alive" /\ kids = {}

\* The grace period: SIGTERM is sent only after the soft timeout has expired,
\* SIGKILL only after the hard timeout has expired as well.
EscalationNeedsAlarms ==
  /\ signaled = SIGTERM => alarms >= 1
  /\ signaled = SIGKILL => alarms = 2

\* No timer of a step survives it into the next step.
NoTimerBetweenSteps ==
  pc \in {"idle", "fork", "assign", "arm", "clear"} => ~armed /\ ~timer_value

\* Whatever the command wrote before it died has been read when communicate()
\* ends, even if signals interrupted its poll().
NoOutputLost == pc \in Ending => "leader" \notin pipe

\* A connection failure is recorded only of a link that did fail, or after a
\* check of it was lost: exit status 255 or 65..79 of the command alone is not
\* one.  The check is lost if Ctrl-C kills it, so that an interrupt in this
\* window does make a healthy link a failed one (remote_executor.c:232).
NoFalseConnectionFailure ==
  /\ bail_out = REMOTE_FAIL => linkLost \/ checkLost
  /\ "connection" \in failure_info => (linkLost \/ checkLost) /\ bail_out # 0

\* A signal of the user ends the run unless system() discarded it, and once it
\* is recorded only a connection failure may replace it in bail_out, which is
\* one of the link or of its check.
InterruptIsKeptStep ==
  /\ asked' => bail_out' # 0 \/ discarded'
  /\ bail_out \in Interrupted =>
       \/ bail_out' \in Interrupted
       \/ bail_out' = REMOTE_FAIL /\ (linkLost \/ checkLost)

InterruptIsKept == [][InterruptIsKeptStep]_vars

\* With both timeouts set, every step that is started ends, whatever its
\* processes do with SIGTERM.
StepEnds == (pc = "fork") ~> (pc = "idle")

\* The runner waits for a remote executor it has started: nothing but the
\* executor ends these waits, no timeout does.
WaitsForExecutor == calls # {} \/ pc = "check"

\* The same of a host-based run in which these executors end and the user stops
\* sending signals: whatever the command's own executor does, its step ends.
StepEndsUnlessExecutorHangs == <>[]~WaitsForExecutor => StepEnds

-----------------------------------------------------------------------------
(* The inductive invariant behind the safety properties, in five parts.     *)

Unarmed == {"idle", "fork", "assign", "arm", "clean", "clear"}

\* Which process there is at which control point, and what is known of it.
ProcessFacts ==
  /\ pid = "child" <=> leader # "none"
  /\ waited <=> leader = "reaped"
  /\ pc = "fork" => pid = "none"
  /\ pc \in {"assign", "clear"} => pid # "none"
  /\ pc \in {"arm"} \cup Looping \cup Ending => pid = "child"
  /\ pc \in {"fork", "assign", "arm"} => ~waited
  /\ pc \in {"getpgid", "waitpid", "failing"} \cup Checking => ~ready
  /\ pc \in Checking \cup {"failing"} => waited
  /\ pc \in {"poll", "read", "timers", "soft", "hard"} /\ ready => waited
  /\ pc \in Ending => waited
  /\ pc \in {"clear", "idle"} /\ pid = "child" => waited
  /\ waited => /\ result = status.code
               /\ status.kind = "signal" => "signal" \in failure_info

\* The alarms counted so far pay for what has been sent and what may be sent.
TimerFacts ==
  /\ pc \in Unarmed => ~armed /\ ~timer_value
  /\ pc \in {"fork", "assign", "arm"} => alarms = 0 /\ signaled = 0
  /\ pid # "child" => signaled = 0
  /\ signaled = SIGTERM => alarms >= 1
  /\ signaled = SIGKILL => alarms = 2
  /\ pc = "soft" => timer_value /\ ~terminated
  /\ pc = "hard" => timer_value /\ terminated /\ ~killed
  /\ pc \in Looping \cup {"sweep", "disarm"} =>
       /\ armed => ~timer_value
       /\ ~terminated => /\ signaled = 0 /\ ~killed
                         /\ alarms = IF timer_value THEN 1 ELSE 0
                         /\ armed => alarms = 0
       /\ terminated /\ ~killed => /\ signaled = SIGTERM
                                   /\ alarms = IF timer_value THEN 2 ELSE 1
       /\ killed => terminated /\ signaled = SIGKILL /\ ~armed

\* Descendants exist only in the step's group, and once the command is reaped
\* the group recorded in pgid is the one it was in.
GroupFacts ==
  /\ leader = "none" => group = "own" /\ kids = {}
  /\ kids # {} => group = "step"
  /\ pc = "waitpid" /\ pgroup # "none" => pgid = pgroup
  /\ leader = "reaped" /\ group = "step" => pgid = "step"
  /\ pc \in {"disarm", "clean", "clear", "idle"} /\ signaled # 0 => kids = {}

\* A reaped command's output is still unread only where it is about to be read.
OutputFacts ==
  waited /\ pc \notin {"poll", "read", "failing"} \cup Checking =>
    "leader" \notin pipe

LinkFacts ==
  /\ ~link => Remote /\ linkLost
  /\ pc \in {"down", "failing"} => linkLost \/ checkLost
  /\ asked => bail_out # 0 \/ discarded
  /\ NoFalseConnectionFailure

IndInv ==
  /\ TypeOK
  /\ ProcessFacts
  /\ TimerFacts
  /\ GroupFacts
  /\ OutputFacts
  /\ LinkFacts
  /\ RunnerNeverHit

=============================================================================
