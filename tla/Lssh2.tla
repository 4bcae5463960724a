-------------------------------- MODULE Lssh2 --------------------------------
(***************************************************************************)
(* The built-in ssh executor (remote_executor_libssh2.c, with its callers  *)
(* execute_libssh2(), wait_for_resume_execution() and wait_for_reboot() of *)
(* executor.c): one session to the target, a channel on it per command.  A *)
(* step runs a logger command and then the test command, whose output is   *)
(* read until the channel ends; whenever the read would block, the runner  *)
(* looks at trlite_status, which the alarm and the user's signals set, and *)
(* kills the test by a kill command on a channel of its own.               *)
(*                                                                         *)
(* Retries on EAGAIN are bounded loops without an effect of their own: an  *)
(* operation that uses them is one step that succeeds or fails.            *)
(***************************************************************************)
EXTENDS Integers

CONSTANTS
  Steps,        (* test steps of the run                                    *)
  MaxRetries,   (* MAX_SSH_RETRIES: failed reconnections after a dead link  *)
  MaxSignals    (* bound: SIGINTs and SIGTERMs of the user                  *)

ASSUME Lssh2Assumption == Steps \in Nat /\ MaxRetries \in Nat /\ MaxSignals \in Nat

VARIABLES
  (* The runner: where it is, in which command, failed reconnections of it, *)
  (* the trlite_status it kills for, the step and what the last reported.   *)
  pc, cmd, retries, cause, step, report, bail_out, resumed,
  (* libssh2_conn: ssh2_session ("none" is NULL, "broken" has no working    *)
  (* transport under it), status and signaled.                              *)
  session, status, signaled,
  (* trlite_status and the interval timer.                                  *)
  trlite_status, timer,
  (* The test command on the target, and the user's signals.                *)
  remote, signals,
  (* Observation only: the channel of the test belongs to the session at    *)
  (* hand; signals the test's shell was sent in this step; its exit status  *)
  (* was read; the session was given up in this step where signaled is not  *)
  (* set; a session that was given up has been put back to use.             *)
  mine, sent, collected, gaveUp, revived

conn  == <<session, status, signaled>>
clock == <<trlite_status, timer>>
run   == <<step, report, bail_out, resumed>>
seen  == <<mine, sent, collected, gaveUp, revived>>
world == <<remote, signals>>
vars  == <<pc, cmd, retries, cause, run, conn, clock, world, seen>>

Goto(from, to) == pc = from /\ pc' = to

\* Where lssh2_execute_command() returns to: the test command follows the
\* logger's whatever that returned, a kill returns to lssh2_check_status().
Return(ok) ==
  pc' = CASE cmd = "logger" -> "start"
          [] cmd = "kill"   -> "killed"
          [] cmd = "scripts" -> IF ok THEN "idle" ELSE "no_executor"
          [] OTHER          -> IF ok THEN "collect" ELSE "failed"

-----------------------------------------------------------------------------
(* Timer and signals                                                        *)

\* lssh2_timeout()
ExpiredOnce == IF trlite_status = "OK" THEN "SOFT_TIMEOUT" ELSE trlite_status
Expired ==
  CASE trlite_status = "OK" -> "SOFT_TIMEOUT"
    [] trlite_status \in {"SOFT_TIMEOUT_KILLED", "SIGNALED"} -> "HARD_TIMEOUT"
    [] OTHER -> trlite_status

Alarm ==
  /\ timer
  /\ timer' = FALSE /\ trlite_status' = Expired
  /\ UNCHANGED <<pc, cmd, retries, cause, run, conn, world, seen>>

\* handle_sigint(), handle_sigterm() and lssh2_signal().  SIGINT and SIGTERM
\* differ in the signal passed on only.
Interrupt ==
  /\ pc \notin {"closed", "undefined"} /\ signals < MaxSignals
  /\ signals' = signals + 1
  /\ bail_out' = IF bail_out = "none" THEN "interrupt" ELSE bail_out
  /\ trlite_status' = IF trlite_status = "OK" THEN "SIGNALED" ELSE "EXIT"
  /\ UNCHANGED <<pc, cmd, retries, cause, step, report, resumed, conn, timer, remote, seen>>

-----------------------------------------------------------------------------
(* lssh2_session_connect()                                                  *)

\* The session is started only while trlite_status is OK; without that the
\* key exchange is not made and there is no host key.
StartsAnyway == TRUE
CanStart == trlite_status = "OK"

\* A failure of the socket leaves no session, one of the startup a session
\* without a transport, one of the authentication also gives the session up.
Connects == CanStart /\ session' = "live" /\ UNCHANGED status
ConnectFails ==
  \/ session' = "none" /\ UNCHANGED status
  \/ session' = "broken" /\ UNCHANGED status
  \/ CanStart /\ session' = "broken" /\ status' = "GIVE_UP"

-----------------------------------------------------------------------------
(* lssh2_execute_command()                                                  *)

\* A session that was given up is not reopened.
EnterWithoutSession ==
  /\ pc = "enter" /\ session = "none" /\ status = "GIVE_UP"
  /\ Return(FALSE)
  /\ UNCHANGED <<cmd, retries, cause, run, conn, clock, world, seen>>

EnterWithSession ==
  /\ session # "none" /\ Goto("enter", "open")
  /\ retries' = 0
  /\ UNCHANGED <<cmd, cause, run, conn, clock, world, seen>>

ReopensAnyway == TRUE
MayReopen == status = "OK"

\* Without a session one connection is tried, with a fresh trlite_status.  If
\* it fails lssh2_session_free() frees the connection as soon as there is a
\* session in it, and the caller goes on with the freed connection.
EnterReopens ==
  /\ pc = "enter" /\ session = "none" /\ MayReopen
  /\ trlite_status' = "OK" /\ retries' = 0
  /\ \/ session' = "live" /\ pc' = "open" /\ UNCHANGED <<status, gaveUp>>
     \/ session' = "none" /\ status' = "GIVE_UP" /\ gaveUp' = TRUE /\ Return(FALSE)
     \/ session' = "broken" /\ status' = "GIVE_UP" /\ gaveUp' = TRUE /\ pc' = "undefined"
  /\ UNCHANGED <<cmd, cause, run, signaled, timer, world, mine, sent, collected, revived>>

OpenChannel ==
  /\ session = "live" /\ Goto("open", "exec")
  /\ mine' = (mine \/ cmd = "test")
  /\ UNCHANGED <<cmd, retries, cause, run, conn, clock, world,
                 sent, collected, gaveUp, revived>>

OpenFails ==
  /\ Goto("open", "reconnect")
  /\ UNCHANGED <<cmd, retries, cause, run, conn, clock, world, seen>>

Reconnected ==
  /\ Goto("reconnect", "open") /\ Connects
  /\ mine' = FALSE
  /\ UNCHANGED <<cmd, retries, cause, run, signaled, clock, world,
                 sent, collected, gaveUp, revived>>

RetriesForever == TRUE
MayRetry == retries < MaxRetries

ReconnectFails ==
  /\ pc = "reconnect" /\ MayRetry /\ ConnectFails
  /\ retries' = retries + 1 /\ mine' = FALSE
  /\ gaveUp' = (gaveUp \/ status' = "GIVE_UP")
  /\ UNCHANGED <<pc, cmd, cause, run, signaled, clock, world,
                 sent, collected, revived>>

\* Attempts are counted after the fact: MAX_SSH_RETRIES + 1 are made.
GiveUp ==
  /\ pc = "reconnect" /\ retries = MaxRetries
  /\ \/ session' = "none"
     \/ session' = "broken"
  /\ status' = "GIVE_UP" /\ signaled' = "KILL" /\ mine' = FALSE
  /\ retries' = retries + 1
  /\ Return(FALSE)
  /\ UNCHANGED <<cmd, cause, run, clock, world,
                 sent, collected, gaveUp, revived>>

\* EAGAIN too often: the session is given up, without a word in signaled.
ExecGivesUp ==
  /\ pc = "exec"
  /\ status' = "GIVE_UP" /\ gaveUp' = TRUE /\ Return(FALSE)
  /\ UNCHANGED <<cmd, retries, cause, run, session, signaled, clock, world,
                 mine, sent, collected, revived>>

\* The test has buffers for its output and is read.  Other errors of exec
\* than EAGAIN are not looked at: the runner reads a channel without a command.
ExecTest ==
  /\ cmd = "test" /\ Goto("exec", "read")
  /\ remote' \in IF session = "live" THEN {"starting", "refused"} ELSE {"refused"}
  /\ UNCHANGED <<cmd, retries, cause, run, conn, clock, signals, seen>>

\* Commands without buffers: the channel is closed behind them.
ExecUnread ==
  /\ pc = "exec" /\ cmd \in {"logger", "scripts"} /\ Return(TRUE)
  /\ UNCHANGED <<cmd, retries, cause, run, conn, clock, world, seen>>

\* The kill command signals the shell whose pid file it finds: none, or that
\* of an earlier step, until the shell of the test has written its own.
Signal ==
  CASE cause = "SOFT_TIMEOUT" -> "TERM"
    [] cause = "SIGNALED"     -> "INT"
    [] OTHER                  -> "KILL"

ExecKill ==
  /\ pc = "exec" /\ cmd = "kill" /\ Return(TRUE)
  /\ IF remote = "running" /\ session = "live"
       THEN /\ remote' = "signaled" \/ (Signal # "KILL" /\ UNCHANGED remote)
            /\ sent' = sent \cup {Signal}
       ELSE UNCHANGED <<remote, sent>>
  /\ UNCHANGED <<cmd, retries, cause, run, conn, clock, signals,
                 mine, collected, gaveUp, revived>>

-----------------------------------------------------------------------------
(* lssh2_read_output(), lssh2_check_status(), lssh2_kill()                  *)

\* End of file, or an error that is taken for it.
ReadEnds ==
  /\ remote \in {"exited", "signaled"} \/ session # "live"
  /\ Goto("read", "close")
  /\ UNCHANGED <<cmd, retries, cause, run, conn, clock, world, seen>>

Blocked == pc = "read" /\ session = "live" /\ remote \notin {"exited", "signaled"}

\* After lssh2_check_status(): the read goes on unless the session was given
\* up, then nothing is closed any more, or the hard timeout has been acted on.
Leave(st) ==
  CASE status = "GIVE_UP"        -> pc' = "collect" /\ signaled' = "KILL"
    [] st = "HARD_TIMEOUT_KILLED" -> pc' = "close" /\ signaled' = "KILL"
    [] OTHER                     -> pc' = "read"

NothingToDo ==
  status = "GIVE_UP"
    \/ trlite_status \in {"OK", "SOFT_TIMEOUT_KILLED", "HARD_TIMEOUT_KILLED"}

ReadWaits ==
  /\ Blocked /\ NothingToDo
  /\ Leave(trlite_status)
  /\ pc' = "read" => UNCHANGED signaled
  /\ UNCHANGED <<cmd, retries, cause, run, session, status, clock, world, seen>>

\* The timer is stopped before the kill, except on the way out.
StartKill ==
  /\ Blocked /\ ~NothingToDo
  /\ pc' = "enter" /\ cmd' = "kill" /\ cause' = trlite_status
  /\ timer' = (timer /\ trlite_status = "EXIT")
  /\ UNCHANGED <<retries, run, conn, trlite_status, world,
                 mine, sent, collected, gaveUp, revived>>

\* The state machine goes on from where the kill was begun, whatever a signal
\* has made of trlite_status meanwhile.
NextStatus ==
  CASE cause = "EXIT"         -> trlite_status
    [] cause = "HARD_TIMEOUT" -> "HARD_TIMEOUT_KILLED"
    [] OTHER                  -> "SOFT_TIMEOUT_KILLED"

Unsaid == signaled
KilledBy == Signal

Killed ==
  /\ pc = "killed" /\ cmd' = "test"
  /\ trlite_status' = NextStatus
  /\ timer' = (timer \/ cause \in {"SOFT_TIMEOUT", "SIGNALED"})
  /\ Leave(NextStatus)
  /\ pc' = "read" => signaled' = KilledBy
  /\ UNCHANGED <<retries, cause, run, session, status, world, seen>>

-----------------------------------------------------------------------------
(* lssh2_channel_close() and the end of lssh2_execute()                     *)

\* The exit status of a test that a signal ended, or that goes on, is 0.
ZeroStatus == 0
NoStatus == -127
ExitStatus(c) == IF c = "exited" THEN {0, 1} ELSE {0}

Close ==
  /\ Goto("close", "collect")
  /\ \/ /\ status # "GIVE_UP" /\ session = "live"
        /\ \E code \in ExitStatus(remote) : report' = [report EXCEPT !.result = code]
        /\ collected' = (remote = "exited")
     \/ /\ status # "GIVE_UP"
        /\ report' = [report EXCEPT !.result = NoStatus] /\ UNCHANGED collected
     \/ status = "GIVE_UP" /\ UNCHANGED <<report, collected>>
  /\ UNCHANGED <<cmd, retries, cause, step, bail_out, resumed, conn, clock, world,
                 mine, sent, gaveUp, revived>>

\* A failure of lssh2_execute() sets bail_out over an interrupt that is in it.
Finish(from) ==
  /\ Goto(from, "idle")
  /\ report' = [report EXCEPT !.signaled = signaled]
  /\ signaled' = "none" /\ timer' = FALSE
  /\ UNCHANGED <<cmd, retries, cause, step, resumed, session, status, trlite_status,
                 world, seen>>

Collect == Finish("collect") /\ UNCHANGED bail_out
Fail    == Finish("failed") /\ bail_out' = "remote"

-----------------------------------------------------------------------------
(* lssh2_executor_init(), lssh2_create_shell_scripts()                      *)

FileState == {"readable", "missing", "directory", "unreadable"}
KeyFiles ==
  [path: {"home", "user", "plain"}, home: BOOLEAN, private: FileState, public: FileState]

\* lssh2_verify_keypair(): a path with a ~ needs HOME, unless it names a user;
\* each key has to be there, not a directory, and readable.
KeysUsable(keys) ==
  /\ keys.path = "home" => keys.home
  /\ keys.private = "readable" /\ keys.public = "readable"

InitExecutor ==
  /\ pc = "init"
  /\ \E keys \in KeyFiles :
       \/ ~KeysUsable(keys) /\ pc' = "no_executor" /\ UNCHANGED <<cmd, session, status>>
       \/ KeysUsable(keys) /\ Connects /\ pc' = "enter" /\ cmd' = "scripts"
       \/ KeysUsable(keys) /\ ConnectFails /\ pc' = "no_executor" /\ UNCHANGED cmd
  /\ UNCHANGED <<retries, cause, run, signaled, clock, world, seen>>

\* executor_init_libssh2(): the run ends before its first step.
InitFails ==
  /\ Goto("no_executor", "closed")
  /\ bail_out' = "remote" /\ status' = "GIVE_UP"
  /\ UNCHANGED <<cmd, retries, cause, step, report, resumed, session, signaled, clock,
                 world, seen>>

-----------------------------------------------------------------------------
(* The steps of the run                                                     *)

\* step_execute() and the beginning of lssh2_execute().
NewReport == [result |-> 0, signaled |-> "none"]

BeginStep ==
  /\ pc = "idle" /\ step < Steps /\ bail_out = "none"
  /\ step' = step + 1
  /\ mine' = FALSE /\ sent' = {} /\ collected' = FALSE /\ gaveUp' = FALSE
  /\ remote' = "none"
  /\ IF status = "GIVE_UP"
       THEN /\ pc' = "idle" /\ bail_out' = "remote"
            /\ report' = [NewReport EXCEPT !.signaled = "KILL"]
            /\ UNCHANGED cmd
       ELSE /\ pc' = "enter" /\ cmd' = "logger"
            /\ report' = NewReport /\ UNCHANGED bail_out
  /\ UNCHANGED <<retries, cause, resumed, conn, clock, signals, revived>>

StartTest ==
  /\ Goto("start", "enter") /\ cmd' = "test" /\ timer' = TRUE
  /\ UNCHANGED <<retries, cause, run, conn, trlite_status, world, seen>>

\* wait_for_resume_execution() after the cases of a set: the connection is
\* marked usable in any case; the wait ends with a SIGUSR1, or an interrupt.
WaitForResume ==
  /\ pc = "idle" /\ step \in 1..Steps
  /\ status' = "OK" /\ signaled' = "none"
  /\ revived' = (revived \/ status = "GIVE_UP")
  /\ \/ bail_out = "remote" /\ ~resumed /\ bail_out' = "none" /\ resumed' = TRUE
     \/ UNCHANGED <<bail_out, resumed>>
  /\ UNCHANGED <<pc, cmd, retries, cause, step, report, session, clock, world,
                 mine, sent, collected, gaveUp>>

\* wait_for_reboot(), before a step that reboots the device and after one that
\* was expected to and lost the link: the connection is marked usable too, no
\* resume is needed, and a lost link is forgotten.
WaitForReboot ==
  /\ pc = "idle" /\ bail_out # "interrupt"
  /\ bail_out' = "none"
  /\ status' = "OK" /\ signaled' = "none"
  /\ revived' = (revived \/ status = "GIVE_UP")
  /\ UNCHANGED <<pc, cmd, retries, cause, step, report, resumed, session, clock, world,
                 mine, sent, collected, gaveUp>>

\* lssh2_executor_close()
CloseSession ==
  /\ step = Steps \/ bail_out # "none"
  /\ Goto("idle", "closed")
  /\ UNCHANGED <<cmd, retries, cause, run, conn, clock, world, seen>>

-----------------------------------------------------------------------------
(* The target and the network                                               *)

PidWritten == remote = "starting" /\ remote' = "running"
TestExits  == remote = "running" /\ remote' = "exited"
Target ==
  /\ PidWritten \/ TestExits
  /\ UNCHANGED <<pc, cmd, retries, cause, run, conn, clock, signals, seen>>

LinkDies ==
  /\ session = "live" /\ pc \notin {"closed", "undefined"}
  /\ session' = "broken"
  /\ UNCHANGED <<pc, cmd, retries, cause, run, status, signaled, clock, world, seen>>

-----------------------------------------------------------------------------
Init ==
  /\ pc = "init" /\ cmd = "scripts" /\ retries = 0 /\ cause = "OK"
  /\ step = 0 /\ report = NewReport
  /\ bail_out = "none" /\ resumed = FALSE
  /\ session = "none" /\ status = "OK" /\ signaled = "none"
  /\ trlite_status = "OK" /\ timer = FALSE
  /\ remote = "none" /\ signals = 0
  /\ mine = FALSE /\ sent = {} /\ collected = FALSE
  /\ gaveUp = FALSE /\ revived = FALSE

Execute ==
  \/ EnterWithoutSession \/ EnterWithSession \/ EnterReopens
  \/ OpenChannel \/ OpenFails \/ Reconnected \/ ReconnectFails \/ GiveUp
  \/ ExecGivesUp \/ ExecTest \/ ExecUnread \/ ExecKill
  \/ ReadEnds \/ ReadWaits \/ StartKill \/ Killed
  \/ Close \/ Collect \/ Fail \/ StartTest \/ InitExecutor \/ InitFails

Runner == Execute \/ BeginStep \/ WaitForResume \/ WaitForReboot \/ CloseSession

Next == Runner \/ Alarm \/ Interrupt \/ Target \/ LinkDies

\* The runner goes on and alarms come.  Of the server: a session that is
\* offered again and again gives a channel at last, and the shell of a test
\* that is not refused writes its pid.
Fairness ==
  /\ WF_vars(Execute) /\ WF_vars(Alarm)
  /\ SF_vars(OpenChannel) /\ WF_vars(PidWritten /\ Target)

Spec == Init /\ [][Next]_vars /\ Fairness

-----------------------------------------------------------------------------
(* Properties                                                               *)

FlagsOK ==
  /\ timer \in BOOLEAN /\ resumed \in BOOLEAN
  /\ mine \in BOOLEAN /\ collected \in BOOLEAN
  /\ gaveUp \in BOOLEAN /\ revived \in BOOLEAN

TypeOK ==
  /\ pc \in {"init", "no_executor", "idle", "enter", "open", "reconnect",
             "exec", "read", "killed", "close", "start", "collect", "failed", "closed", "undefined"}
  /\ cmd \in {"scripts", "logger", "test", "kill"} /\ retries \in 0..MaxRetries + 1
  /\ trlite_status \in {"OK", "SOFT_TIMEOUT", "SOFT_TIMEOUT_KILLED", "HARD_TIMEOUT",
                        "HARD_TIMEOUT_KILLED", "SIGNALED", "EXIT"}
  /\ cause \in {"OK", "SOFT_TIMEOUT", "HARD_TIMEOUT", "SIGNALED", "EXIT"}
  /\ step \in 0..Steps /\ signals \in 0..MaxSignals
  /\ report \in [result: {0, 1, NoStatus}, signaled: {"none", "TERM", "INT", "KILL"}]
  /\ bail_out \in {"none", "interrupt", "remote"}
  /\ session \in {"none", "live", "broken"} /\ status \in {"OK", "GIVE_UP"}
  /\ signaled \in {"none", "TERM", "INT", "KILL"}
  /\ remote \in {"none", "refused", "starting", "running", "exited", "signaled"}
  /\ sent \subseteq {"TERM", "INT", "KILL"}
  /\ FlagsOK

\* The channel of the test is read and closed on the session it was opened on,
\* although the kill command in between may replace the session
\* (lssh2_session_reconnect() frees it): no reconnection succeeds while a kill
\* is due, so the session is given up before the channel is used again.
ChannelIsLive == pc \in {"read", "close"} /\ status = "OK" => mine

\* A step that reports 0 without a signal ran its command to the end and read
\* its exit status: the result starts at 0, so every path on which the command
\* did not run to its end has to leave another trace.  Three paths leave none,
\* and the step they end passes if it expects 0: an exec that gives the session
\* up, an authentication that fails, and a session that cannot be reopened.  A
\* session given up or revived before the step is no excuse.
NotRunIsTold ==
  pc = "idle" /\ step > 0 /\ report.result = 0 /\ report.signaled = "none"
    => collected \/ gaveUp

\* What the runner killed is reported as signaled, so that its exit status is
\* not trusted (step_execute()): also when the kill races the end of the test,
\* or the session is lost over it.
KilledIsTold == pc = "idle" /\ sent # {} => report.signaled # "none"

\* A connection freed inside lssh2_execute_command(), which its callers go on
\* to use, is one that was given up and that a wait for a resume or for a reboot
\* has declared usable: without such a wait nothing is freed under its users.
FreedOnlyIfRevived == pc = "undefined" => revived

\* Every step comes to an end, whatever the target does, unless the target
\* refused the command and the user has interrupted twice: nothing then ends
\* the read of a channel without a command behind it.
Idle == pc \in {"idle", "closed", "undefined"}
StepEnds == []<>(Idle \/ (trlite_status = "EXIT" /\ remote = "refused"))

=============================================================================
