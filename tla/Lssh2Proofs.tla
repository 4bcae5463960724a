---------------------------- MODULE Lssh2Proofs ----------------------------
(***************************************************************************)
(* Theorems about Lssh2: its safety properties for any number of steps,    *)
(* reconnections and interrupts.                                           *)
(***************************************************************************)
EXTENDS Lssh2, TLAPS

-----------------------------------------------------------------------------
(* The invariant                                                            *)

\* A connection without a session is given up, about to be, or was revived.
SessionFacts ==
  /\ session = "none" /\ status = "OK"
       => pc \in {"init", "no_executor", "reconnect"} \/ revived
  /\ pc = "undefined" => revived

\* A kill is sent in a status that forbids a new session, so the channel of the
\* test survives it unless the session is given up.
ChannelFacts ==
  /\ pc \in {"read", "close"} => cmd = "test" /\ (mine \/ status = "GIVE_UP")
  /\ pc = "exec" /\ cmd = "test" => mine
  /\ pc = "killed" => cmd = "kill"
  /\ cmd = "kill" /\ pc \in {"enter", "open", "reconnect", "exec"}
       => trlite_status # "OK"
  /\ cmd = "kill" /\ pc \in {"enter", "open", "exec", "killed"}
       => mine \/ status = "GIVE_UP"
  /\ cmd = "kill" /\ pc = "enter" => session # "none"

\* Before the first step.
StartFacts ==
  pc \in {"init", "no_executor"} \/ (pc \in {"enter", "open", "reconnect", "exec"} /\ cmd = "scripts")
    => step = 0 /\ sent = {}

\* A signal that was sent is in signaled as soon as the kill is over, and in the
\* report at the end of the step.
KillFacts ==
  /\ remote = "signaled" => sent # {}
  /\ sent # {} => \/ pc = "idle" /\ report.signaled # "none"
                  \/ pc # "idle" /\ signaled # "none"
                  \/ pc \in {"killed", "closed"}

\* Every way to the end of a step leaves its trace, and so does giving up the
\* session while one runs.
NotDone == report.result # 0 \/ gaveUp
OutsideSteps == {"init", "no_executor", "idle", "closed"}
TraceFacts ==
  /\ pc = "close"
       => remote \in {"exited", "signaled"} \/ session # "live" \/ signaled # "none"
  /\ pc = "collect" => collected \/ signaled # "none" \/ NotDone
  /\ pc = "failed" => cmd = "test" /\ status = "GIVE_UP"
  /\ pc = "collect" => cmd = "test"
  /\ pc = "start" => cmd = "logger"
  /\ status = "GIVE_UP" /\ cmd # "scripts" /\ pc \notin OutsideSteps
       => gaveUp \/ signaled # "none"
  /\ pc \in {"idle", "closed"} /\ step > 0
       => collected \/ report.signaled # "none" \/ NotDone

IndInv ==
  /\ TypeOK /\ SessionFacts /\ ChannelFacts
  /\ StartFacts /\ KillFacts /\ TraceFacts

-----------------------------------------------------------------------------
(* One lemma per part, one step per action                                  *)

LEMMA InvInit == Init => IndInv
<1> SUFFICES ASSUME Init PROVE IndInv
  OBVIOUS
<1> USE Lssh2Assumption DEF Lssh2Assumption, Init
<1>1. FlagsOK
  BY DEF FlagsOK
<1>2. TypeOK
  BY <1>1 DEF TypeOK, NewReport, NoStatus
<1>3. SessionFacts /\ ChannelFacts /\ StartFacts /\ KillFacts
  BY DEF SessionFacts, ChannelFacts, StartFacts, KillFacts
<1>4. TraceFacts
  <2>1. pc = "init" /\ step = 0
    OBVIOUS
  <2> QED BY <2>1 DEF TraceFacts, OutsideSteps
<1> QED BY <1>2, <1>3, <1>4 DEF IndInv

LEMMA FlagStep ==
  ASSUME FlagsOK, [Next]_vars
  PROVE  FlagsOK'
<1> USE Lssh2Assumption DEF FlagsOK, Lssh2Assumption, run, conn, clock, seen, world
<1>1. CASE EnterWithoutSession
  BY <1>1 DEF EnterWithoutSession, Return
<1>2. CASE EnterWithSession
  BY <1>2 DEF EnterWithSession, Goto
<1>3. CASE EnterReopens
  BY <1>3 DEF EnterReopens, Return, MayReopen
<1>4. CASE OpenChannel
  BY <1>4 DEF OpenChannel, Goto
<1>5. CASE OpenFails
  BY <1>5 DEF OpenFails, Goto
<1>6. CASE Reconnected
  BY <1>6 DEF Reconnected, Goto, Connects, CanStart
<1>7. CASE ReconnectFails
  BY <1>7 DEF ReconnectFails, MayRetry, ConnectFails, CanStart
<1>8. CASE GiveUp
  BY <1>8 DEF GiveUp, Return
<1>9. CASE ExecGivesUp
  BY <1>9 DEF ExecGivesUp, Return
<1>10. CASE ExecTest
  BY <1>10 DEF ExecTest, Goto
<1>11. CASE ExecUnread
  BY <1>11 DEF ExecUnread, Return
<1>12. CASE ExecKill
  BY <1>12 DEF ExecKill, Return, Signal
<1>13. CASE ReadEnds
  BY <1>13 DEF ReadEnds, Goto
<1>14. CASE ReadWaits
  BY <1>14 DEF ReadWaits, Blocked, NothingToDo, Leave
<1>15. CASE StartKill
  BY <1>15 DEF StartKill, Blocked, NothingToDo
<1>16. CASE Killed
  BY <1>16 DEF Killed, NextStatus, Leave, KilledBy, Signal
<1>17. CASE Close
  BY <1>17 DEF Close, Goto, NoStatus, ExitStatus
<1>18. CASE Collect
  BY <1>18 DEF Collect, Finish, Goto
<1>19. CASE Fail
  BY <1>19 DEF Fail, Finish, Goto
<1>20. CASE StartTest
  BY <1>20 DEF StartTest, Goto
<1>21. CASE InitExecutor
  BY <1>21 DEF InitExecutor, KeysUsable, Connects, ConnectFails, CanStart
<1>22. CASE InitFails
  BY <1>22 DEF InitFails, Goto
<1>23. CASE BeginStep
  BY <1>23 DEF BeginStep, NewReport
<1>24. CASE WaitForResume
  BY <1>24 DEF WaitForResume
<1>25. CASE CloseSession
  BY <1>25 DEF CloseSession, Goto
<1>26. CASE Alarm
  BY <1>26 DEF Alarm, Expired
<1>27. CASE Interrupt
  BY <1>27 DEF Interrupt
<1>28. CASE Target
  BY <1>28 DEF Target, PidWritten, TestExits
<1>29. CASE LinkDies
  BY <1>29 DEF LinkDies
<1>30. CASE WaitForReboot
  BY <1>30 DEF WaitForReboot
<1>31. CASE UNCHANGED vars
  BY <1>31 DEF vars
<1> QED
  BY <1>1, <1>2, <1>3, <1>4, <1>5, <1>6, <1>7, <1>8, <1>9, <1>10, <1>11, <1>12,
     <1>13, <1>14, <1>15, <1>16, <1>17, <1>18, <1>19, <1>20, <1>21, <1>22,
     <1>23, <1>24, <1>25, <1>26, <1>27, <1>28, <1>29, <1>30, <1>31 DEF Next, Runner,
     Execute

LEMMA TypeStep ==
  ASSUME TypeOK, [Next]_vars
  PROVE  TypeOK'
<1> USE Lssh2Assumption DEF TypeOK, NoStatus, Lssh2Assumption, run, conn, clock,
        seen, world
<1>0. FlagsOK'
  BY FlagStep DEF TypeOK
<1>1. CASE EnterWithoutSession
  BY <1>0, <1>1 DEF EnterWithoutSession, Return
<1>2. CASE EnterWithSession
  BY <1>0, <1>2 DEF EnterWithSession, Goto
<1>3. CASE EnterReopens
  BY <1>0, <1>3 DEF EnterReopens, Return, MayReopen
<1>4. CASE OpenChannel
  BY <1>0, <1>4 DEF OpenChannel, Goto
<1>5. CASE OpenFails
  BY <1>0, <1>5 DEF OpenFails, Goto
<1>6. CASE Reconnected
  BY <1>0, <1>6 DEF Reconnected, Goto, Connects, CanStart
<1>7. CASE ReconnectFails
  BY <1>0, <1>7 DEF ReconnectFails, MayRetry, ConnectFails, CanStart
<1>8. CASE GiveUp
  BY <1>0, <1>8 DEF GiveUp, Return
<1>9. CASE ExecGivesUp
  BY <1>0, <1>9 DEF ExecGivesUp, Return
<1>10. CASE ExecTest
  BY <1>0, <1>10 DEF ExecTest, Goto
<1>11. CASE ExecUnread
  BY <1>0, <1>11 DEF ExecUnread, Return
<1>12. CASE ExecKill
  BY <1>0, <1>12 DEF ExecKill, Return, Signal
<1>13. CASE ReadEnds
  BY <1>0, <1>13 DEF ReadEnds, Goto
<1>14. CASE ReadWaits
  BY <1>0, <1>14 DEF ReadWaits, Blocked, NothingToDo, Leave
<1>15. CASE StartKill
  BY <1>0, <1>15 DEF StartKill, Blocked, NothingToDo
<1>16. CASE Killed
  BY <1>0, <1>16 DEF Killed, NextStatus, Leave, KilledBy, Signal
<1>17. CASE Close
  BY <1>0, <1>17 DEF Close, Goto, ExitStatus
<1>18. CASE Collect
  BY <1>0, <1>18 DEF Collect, Finish, Goto
<1>19. CASE Fail
  BY <1>0, <1>19 DEF Fail, Finish, Goto
<1>20. CASE StartTest
  BY <1>0, <1>20 DEF StartTest, Goto
<1>21. CASE InitExecutor
  BY <1>0, <1>21 DEF InitExecutor, KeysUsable, Connects, ConnectFails, CanStart
<1>22. CASE InitFails
  BY <1>0, <1>22 DEF InitFails, Goto
<1>23. CASE BeginStep
  BY <1>0, <1>23 DEF BeginStep, NewReport
<1>24. CASE WaitForResume
  BY <1>0, <1>24 DEF WaitForResume
<1>25. CASE CloseSession
  BY <1>0, <1>25 DEF CloseSession, Goto
<1>26. CASE Alarm
  BY <1>0, <1>26 DEF Alarm, Expired
<1>27. CASE Interrupt
  BY <1>0, <1>27 DEF Interrupt
<1>28. CASE Target
  BY <1>0, <1>28 DEF Target, PidWritten, TestExits
<1>29. CASE LinkDies
  BY <1>0, <1>29 DEF LinkDies
<1>30. CASE WaitForReboot
  BY <1>0, <1>30 DEF WaitForReboot
<1>31. CASE UNCHANGED vars
  BY <1>0, <1>31 DEF vars
<1> QED
  BY <1>1, <1>2, <1>3, <1>4, <1>5, <1>6, <1>7, <1>8, <1>9, <1>10, <1>11, <1>12,
     <1>13, <1>14, <1>15, <1>16, <1>17, <1>18, <1>19, <1>20, <1>21, <1>22,
     <1>23, <1>24, <1>25, <1>26, <1>27, <1>28, <1>29, <1>30, <1>31 DEF Next, Runner,
     Execute

LEMMA SessionStep ==
  ASSUME IndInv, [Next]_vars
  PROVE  SessionFacts'
<1> USE Lssh2Assumption DEF IndInv, SessionFacts, Lssh2Assumption, run, conn,
        clock, seen, world
<1>1. CASE EnterWithoutSession
  BY <1>1 DEF EnterWithoutSession, Return
<1>2. CASE EnterWithSession
  BY <1>2 DEF EnterWithSession, Goto
<1>3. CASE EnterReopens
  BY <1>3 DEF EnterReopens, Return, MayReopen
<1>4. CASE OpenChannel
  BY <1>4 DEF OpenChannel, Goto
<1>5. CASE OpenFails
  BY <1>5 DEF OpenFails, Goto
<1>6. CASE Reconnected
  BY <1>6 DEF Reconnected, Goto, Connects, CanStart
<1>7. CASE ReconnectFails
  BY <1>7 DEF ReconnectFails, MayRetry, ConnectFails, CanStart
<1>8. CASE GiveUp
  BY <1>8 DEF GiveUp, Return
<1>9. CASE ExecGivesUp
  BY <1>9 DEF ExecGivesUp, Return
<1>10. CASE ExecTest
  BY <1>10 DEF ExecTest, Goto
<1>11. CASE ExecUnread
  BY <1>11 DEF ExecUnread, Return
<1>12. CASE ExecKill
  BY <1>12 DEF ExecKill, Return, Signal
<1>13. CASE ReadEnds
  BY <1>13 DEF ReadEnds, Goto
<1>14. CASE ReadWaits
  BY <1>14 DEF ReadWaits, Blocked, NothingToDo, Leave
<1>15. CASE StartKill
  BY <1>15 DEF StartKill, Blocked, NothingToDo
<1>16. CASE Killed
  BY <1>16 DEF Killed, NextStatus, Leave, KilledBy, Signal
<1>17. CASE Close
  BY <1>17 DEF Close, Goto, NoStatus, ExitStatus
<1>18. CASE Collect
  BY <1>18 DEF Collect, Finish, Goto
<1>19. CASE Fail
  BY <1>19 DEF Fail, Finish, Goto
<1>20. CASE StartTest
  BY <1>20 DEF StartTest, Goto
<1>21. CASE InitExecutor
  BY <1>21 DEF InitExecutor, KeysUsable, Connects, ConnectFails, CanStart
<1>22. CASE InitFails
  BY <1>22 DEF InitFails, Goto
<1>23. CASE BeginStep
  BY <1>23 DEF BeginStep, NewReport
<1>24. CASE WaitForResume
  <2>1. revived' = (revived \/ status = "GIVE_UP") /\ UNCHANGED <<pc, session>>
    BY <1>24 DEF WaitForResume
  <2>2. CASE status = "OK"
    <3>1. revived => revived'
      BY <2>1, Zenon
    <3> QED BY <2>1, <2>2, <3>1
  <2>3. CASE status = "GIVE_UP"
    <3>1. revived'
      BY <2>1, <2>3, Zenon
    <3> QED BY <3>1
  <2> QED BY <2>2, <2>3 DEF TypeOK
<1>25. CASE CloseSession
  BY <1>25 DEF CloseSession, Goto
<1>26. CASE Alarm
  BY <1>26 DEF Alarm, Expired
<1>27. CASE Interrupt
  BY <1>27 DEF Interrupt
<1>28. CASE Target
  BY <1>28 DEF Target, PidWritten, TestExits
<1>29. CASE LinkDies
  BY <1>29 DEF LinkDies
<1>30. CASE WaitForReboot
  <2>1. revived' = (revived \/ status = "GIVE_UP") /\ UNCHANGED <<pc, session>>
    BY <1>30 DEF WaitForReboot
  <2>2. CASE status = "OK"
    <3>1. revived => revived'
      BY <2>1, Zenon
    <3> QED BY <2>1, <2>2, <3>1
  <2>3. CASE status = "GIVE_UP"
    <3>1. revived'
      BY <2>1, <2>3, Zenon
    <3> QED BY <3>1
  <2> QED BY <2>2, <2>3 DEF TypeOK
<1>31. CASE UNCHANGED vars
  BY <1>31 DEF vars
<1> QED
  BY <1>1, <1>2, <1>3, <1>4, <1>5, <1>6, <1>7, <1>8, <1>9, <1>10, <1>11, <1>12,
     <1>13, <1>14, <1>15, <1>16, <1>17, <1>18, <1>19, <1>20, <1>21, <1>22,
     <1>23, <1>24, <1>25, <1>26, <1>27, <1>28, <1>29, <1>30, <1>31 DEF Next, Runner,
     Execute

LEMMA ChannelStep ==
  ASSUME IndInv, [Next]_vars
  PROVE  ChannelFacts'
<1> USE Lssh2Assumption DEF IndInv, ChannelFacts, Lssh2Assumption, run, conn,
        clock, seen, world
<1>1. CASE EnterWithoutSession
  BY <1>1 DEF EnterWithoutSession, Return
<1>2. CASE EnterWithSession
  BY <1>2 DEF EnterWithSession, Goto
<1>3. CASE EnterReopens
  BY <1>3 DEF EnterReopens, Return, MayReopen
<1>4. CASE OpenChannel
  BY <1>4 DEF OpenChannel, Goto
<1>5. CASE OpenFails
  BY <1>5 DEF OpenFails, Goto
<1>6. CASE Reconnected
  BY <1>6 DEF Reconnected, Goto, Connects, CanStart
<1>7. CASE ReconnectFails
  BY <1>7 DEF ReconnectFails, MayRetry, ConnectFails, CanStart
<1>8. CASE GiveUp
  BY <1>8 DEF GiveUp, Return
<1>9. CASE ExecGivesUp
  BY <1>9 DEF ExecGivesUp, Return
<1>10. CASE ExecTest
  BY <1>10 DEF ExecTest, Goto
<1>11. CASE ExecUnread
  BY <1>11 DEF ExecUnread, Return
<1>12. CASE ExecKill
  BY <1>12 DEF ExecKill, Return, Signal
<1>13. CASE ReadEnds
  BY <1>13 DEF ReadEnds, Goto
<1>14. CASE ReadWaits
  BY <1>14 DEF ReadWaits, Blocked, NothingToDo, Leave
<1>15. CASE StartKill
  BY <1>15 DEF StartKill, Blocked, NothingToDo
<1>16. CASE Killed
  BY <1>16 DEF Killed, NextStatus, Leave, KilledBy, Signal
<1>17. CASE Close
  BY <1>17 DEF Close, Goto, NoStatus, ExitStatus
<1>18. CASE Collect
  BY <1>18 DEF Collect, Finish, Goto
<1>19. CASE Fail
  BY <1>19 DEF Fail, Finish, Goto
<1>20. CASE StartTest
  BY <1>20 DEF StartTest, Goto
<1>21. CASE InitExecutor
  BY <1>21 DEF InitExecutor, KeysUsable, Connects, ConnectFails, CanStart
<1>22. CASE InitFails
  BY <1>22 DEF InitFails, Goto
<1>23. CASE BeginStep
  BY <1>23 DEF BeginStep, NewReport
<1>24. CASE WaitForResume
  BY <1>24 DEF WaitForResume
<1>25. CASE CloseSession
  BY <1>25 DEF CloseSession, Goto
<1>26. CASE Alarm
  BY <1>26 DEF Alarm, Expired
<1>27. CASE Interrupt
  BY <1>27 DEF Interrupt
<1>28. CASE Target
  BY <1>28 DEF Target, PidWritten, TestExits
<1>29. CASE LinkDies
  BY <1>29 DEF LinkDies
<1>30. CASE WaitForReboot
  BY <1>30 DEF WaitForReboot
<1>31. CASE UNCHANGED vars
  BY <1>31 DEF vars
<1> QED
  BY <1>1, <1>2, <1>3, <1>4, <1>5, <1>6, <1>7, <1>8, <1>9, <1>10, <1>11, <1>12,
     <1>13, <1>14, <1>15, <1>16, <1>17, <1>18, <1>19, <1>20, <1>21, <1>22,
     <1>23, <1>24, <1>25, <1>26, <1>27, <1>28, <1>29, <1>30, <1>31 DEF Next, Runner,
     Execute

LEMMA StartStep ==
  ASSUME IndInv, [Next]_vars
  PROVE  StartFacts'
<1> USE Lssh2Assumption DEF IndInv, StartFacts, Lssh2Assumption, run, conn,
        clock, seen, world
<1>1. CASE EnterWithoutSession
  BY <1>1 DEF EnterWithoutSession, Return
<1>2. CASE EnterWithSession
  BY <1>2 DEF EnterWithSession, Goto
<1>3. CASE EnterReopens
  BY <1>3 DEF EnterReopens, Return, MayReopen
<1>4. CASE OpenChannel
  BY <1>4 DEF OpenChannel, Goto
<1>5. CASE OpenFails
  BY <1>5 DEF OpenFails, Goto
<1>6. CASE Reconnected
  BY <1>6 DEF Reconnected, Goto, Connects, CanStart
<1>7. CASE ReconnectFails
  BY <1>7 DEF ReconnectFails, MayRetry, ConnectFails, CanStart
<1>8. CASE GiveUp
  BY <1>8 DEF GiveUp, Return
<1>9. CASE ExecGivesUp
  BY <1>9 DEF ExecGivesUp, Return
<1>10. CASE ExecTest
  BY <1>10 DEF ExecTest, Goto
<1>11. CASE ExecUnread
  BY <1>11 DEF ExecUnread, Return
<1>12. CASE ExecKill
  BY <1>12 DEF ExecKill, Return, Signal
<1>13. CASE ReadEnds
  BY <1>13 DEF ReadEnds, Goto
<1>14. CASE ReadWaits
  BY <1>14 DEF ReadWaits, Blocked, NothingToDo, Leave
<1>15. CASE StartKill
  BY <1>15 DEF StartKill, Blocked, NothingToDo
<1>16. CASE Killed
  BY <1>16 DEF Killed, NextStatus, Leave, KilledBy, Signal
<1>17. CASE Close
  BY <1>17 DEF Close, Goto, NoStatus, ExitStatus
<1>18. CASE Collect
  BY <1>18 DEF Collect, Finish, Goto
<1>19. CASE Fail
  BY <1>19 DEF Fail, Finish, Goto
<1>20. CASE StartTest
  BY <1>20 DEF StartTest, Goto
<1>21. CASE InitExecutor
  BY <1>21 DEF InitExecutor, KeysUsable, Connects, ConnectFails, CanStart
<1>22. CASE InitFails
  BY <1>22 DEF InitFails, Goto
<1>23. CASE BeginStep
  BY <1>23 DEF BeginStep, NewReport
<1>24. CASE WaitForResume
  BY <1>24 DEF WaitForResume
<1>25. CASE CloseSession
  BY <1>25 DEF CloseSession, Goto
<1>26. CASE Alarm
  BY <1>26 DEF Alarm, Expired
<1>27. CASE Interrupt
  BY <1>27 DEF Interrupt
<1>28. CASE Target
  BY <1>28 DEF Target, PidWritten, TestExits
<1>29. CASE LinkDies
  BY <1>29 DEF LinkDies
<1>30. CASE WaitForReboot
  BY <1>30 DEF WaitForReboot
<1>31. CASE UNCHANGED vars
  BY <1>31 DEF vars
<1> QED
  BY <1>1, <1>2, <1>3, <1>4, <1>5, <1>6, <1>7, <1>8, <1>9, <1>10, <1>11, <1>12,
     <1>13, <1>14, <1>15, <1>16, <1>17, <1>18, <1>19, <1>20, <1>21, <1>22,
     <1>23, <1>24, <1>25, <1>26, <1>27, <1>28, <1>29, <1>30, <1>31 DEF Next, Runner,
     Execute

LEMMA KillStep ==
  ASSUME IndInv, [Next]_vars
  PROVE  KillFacts'
<1> USE Lssh2Assumption DEF IndInv, KillFacts, StartFacts, TypeOK,
        Lssh2Assumption, run, conn, clock, seen, world
<1>1. CASE EnterWithoutSession
  BY <1>1 DEF EnterWithoutSession, Return
<1>2. CASE EnterWithSession
  BY <1>2 DEF EnterWithSession, Goto
<1>3. CASE EnterReopens
  BY <1>3 DEF EnterReopens, Return, MayReopen
<1>4. CASE OpenChannel
  BY <1>4 DEF OpenChannel, Goto
<1>5. CASE OpenFails
  BY <1>5 DEF OpenFails, Goto
<1>6. CASE Reconnected
  BY <1>6 DEF Reconnected, Goto, Connects, CanStart
<1>7. CASE ReconnectFails
  BY <1>7 DEF ReconnectFails, MayRetry, ConnectFails, CanStart
<1>8. CASE GiveUp
  BY <1>8 DEF GiveUp, Return
<1>9. CASE ExecGivesUp
  BY <1>9 DEF ExecGivesUp, Return
<1>10. CASE ExecTest
  BY <1>10 DEF ExecTest, Goto
<1>11. CASE ExecUnread
  BY <1>11 DEF ExecUnread, Return
<1>12. CASE ExecKill
  BY <1>12 DEF ExecKill, Return, Signal
<1>13. CASE ReadEnds
  BY <1>13 DEF ReadEnds, Goto
<1>14. CASE ReadWaits
  BY <1>14 DEF ReadWaits, Blocked, NothingToDo, Leave
<1>15. CASE StartKill
  BY <1>15 DEF StartKill, Blocked, NothingToDo
<1>16. CASE Killed
  BY <1>16 DEF Killed, NextStatus, Leave, KilledBy, Signal
<1>17. CASE Close
  BY <1>17 DEF Close, Goto, NoStatus, ExitStatus
<1>18. CASE Collect
  BY <1>18 DEF Collect, Finish, Goto
<1>19. CASE Fail
  BY <1>19 DEF Fail, Finish, Goto
<1>20. CASE StartTest
  BY <1>20 DEF StartTest, Goto
<1>21. CASE InitExecutor
  BY <1>21 DEF InitExecutor, KeysUsable, Connects, ConnectFails, CanStart
<1>22. CASE InitFails
  BY <1>22 DEF InitFails, Goto
<1>23. CASE BeginStep
  BY <1>23 DEF BeginStep, NewReport
<1>24. CASE WaitForResume
  BY <1>24 DEF WaitForResume
<1>25. CASE CloseSession
  BY <1>25 DEF CloseSession, Goto
<1>26. CASE Alarm
  BY <1>26 DEF Alarm, Expired
<1>27. CASE Interrupt
  BY <1>27 DEF Interrupt
<1>28. CASE Target
  BY <1>28 DEF Target, PidWritten, TestExits
<1>29. CASE LinkDies
  BY <1>29 DEF LinkDies
<1>30. CASE WaitForReboot
  BY <1>30 DEF WaitForReboot
<1>31. CASE UNCHANGED vars
  BY <1>31 DEF vars
<1> QED
  BY <1>1, <1>2, <1>3, <1>4, <1>5, <1>6, <1>7, <1>8, <1>9, <1>10, <1>11, <1>12,
     <1>13, <1>14, <1>15, <1>16, <1>17, <1>18, <1>19, <1>20, <1>21, <1>22,
     <1>23, <1>24, <1>25, <1>26, <1>27, <1>28, <1>29, <1>30, <1>31 DEF Next, Runner,
     Execute

LEMMA TraceStep ==
  ASSUME IndInv, [Next]_vars
  PROVE  TraceFacts'
<1> USE Lssh2Assumption DEF IndInv, TraceFacts, OutsideSteps, NotDone, StartFacts, KillFacts,
        ChannelFacts, TypeOK, Lssh2Assumption, run, conn, clock, seen, world
<1>1. CASE EnterWithoutSession
  BY <1>1 DEF EnterWithoutSession, Return
<1>2. CASE EnterWithSession
  BY <1>2 DEF EnterWithSession, Goto
<1>3. CASE EnterReopens
  BY <1>3 DEF EnterReopens, Return, MayReopen
<1>4. CASE OpenChannel
  BY <1>4 DEF OpenChannel, Goto
<1>5. CASE OpenFails
  BY <1>5 DEF OpenFails, Goto
<1>6. CASE Reconnected
  BY <1>6 DEF Reconnected, Goto, Connects, CanStart
<1>7. CASE ReconnectFails
  BY <1>7 DEF ReconnectFails, MayRetry, ConnectFails, CanStart
<1>8. CASE GiveUp
  BY <1>8 DEF GiveUp, Return
<1>9. CASE ExecGivesUp
  BY <1>9 DEF ExecGivesUp, Return
<1>10. CASE ExecTest
  BY <1>10 DEF ExecTest, Goto
<1>11. CASE ExecUnread
  BY <1>11 DEF ExecUnread, Return
<1>12. CASE ExecKill
  BY <1>12 DEF ExecKill, Return, Signal
<1>13. CASE ReadEnds
  BY <1>13 DEF ReadEnds, Goto
<1>14. CASE ReadWaits
  BY <1>14 DEF ReadWaits, Blocked, NothingToDo, Leave
<1>15. CASE StartKill
  BY <1>15 DEF StartKill, Blocked, NothingToDo
<1>16. CASE Killed
  BY <1>16 DEF Killed, NextStatus, Leave, KilledBy, Signal
<1>17. CASE Close
  <2>1. pc = "close" /\ pc' = "collect" /\ UNCHANGED <<signaled, status, gaveUp, cmd>>
    BY <1>17 DEF Close, Goto
  <2>2. collected' \/ signaled' # "none" \/ NotDone'
    <3>1. CASE /\ status # "GIVE_UP" /\ session = "live"
               /\ collected' = (remote = "exited")
      <4>1. CASE remote = "exited"
        <5>1. collected'
          BY <3>1, <4>1, Zenon
        <5> QED BY <5>1
      <4>2. CASE remote # "exited"
        BY <2>1, <3>1, <4>2
      <4> QED BY <4>1, <4>2
    <3>2. CASE report' = [report EXCEPT !.result = NoStatus]
      BY <3>2 DEF NoStatus
    <3>3. CASE status = "GIVE_UP"
      <4>1. gaveUp \/ signaled # "none"
        BY <2>1, <3>3
      <4>2. CASE gaveUp
        BY <2>1, <4>2, Zenon DEF NotDone
      <4>3. CASE signaled # "none"
        BY <2>1, <4>3
      <4> QED BY <4>1, <4>2, <4>3
    <3> QED BY <1>17, <3>1, <3>2, <3>3 DEF Close
  <2>3. status = "GIVE_UP" => gaveUp' \/ signaled' # "none"
    <3>1. status = "GIVE_UP" => gaveUp \/ signaled # "none"
      BY <2>1
    <3>2. gaveUp => gaveUp'
      BY <2>1, Zenon
    <3> QED BY <2>1, <3>1, <3>2
  <2>4. cmd' = "test"
    BY <2>1
  <2> HIDE DEF NotDone
  <2> QED BY <2>1, <2>2, <2>3, <2>4
<1>18. CASE Collect
  BY <1>18 DEF Collect, Finish, Goto
<1>19. CASE Fail
  BY <1>19 DEF Fail, Finish, Goto
<1>20. CASE StartTest
  BY <1>20 DEF StartTest, Goto
<1>21. CASE InitExecutor
  BY <1>21 DEF InitExecutor, KeysUsable, Connects, ConnectFails, CanStart
<1>22. CASE InitFails
  BY <1>22 DEF InitFails, Goto
<1>23. CASE BeginStep
  BY <1>23 DEF BeginStep, NewReport
<1>24. CASE WaitForResume
  BY <1>24 DEF WaitForResume
<1>25. CASE CloseSession
  BY <1>25 DEF CloseSession, Goto
<1>26. CASE Alarm
  BY <1>26 DEF Alarm, Expired
<1>27. CASE Interrupt
  BY <1>27 DEF Interrupt
<1>28. CASE Target
  BY <1>28 DEF Target, PidWritten, TestExits
<1>29. CASE LinkDies
  BY <1>29 DEF LinkDies
<1>30. CASE WaitForReboot
  BY <1>30 DEF WaitForReboot
<1>31. CASE UNCHANGED vars
  BY <1>31 DEF vars
<1> QED
  BY <1>1, <1>2, <1>3, <1>4, <1>5, <1>6, <1>7, <1>8, <1>9, <1>10, <1>11, <1>12,
     <1>13, <1>14, <1>15, <1>16, <1>17, <1>18, <1>19, <1>20, <1>21, <1>22,
     <1>23, <1>24, <1>25, <1>26, <1>27, <1>28, <1>29, <1>30, <1>31 DEF Next, Runner,
     Execute

LEMMA Invariance == Spec => []IndInv
<1>1. IndInv /\ [Next]_vars => IndInv'
  <2> SUFFICES ASSUME IndInv, [Next]_vars PROVE IndInv'
    OBVIOUS
  <2>1. TypeOK'
    BY TypeStep DEF IndInv
  <2> QED BY <2>1, SessionStep, ChannelStep, StartStep, KillStep, TraceStep DEF IndInv
<1> QED BY InvInit, <1>1, PTL DEF Spec

-----------------------------------------------------------------------------
(* The theorems                                                             *)

\* Every variable keeps to its values: of lssh2_execute_command() in particular
\* that it never tries more than MAX_SSH_RETRIES + 1 reconnections.
THEOREM TypeCorrect == Spec => []TypeOK
BY Invariance, PTL DEF IndInv

\* lssh2_read_output() and lssh2_channel_close() use a channel of the session
\* at hand, whatever the kill in between made of the session.
THEOREM ChannelSafe == Spec => []ChannelIsLive
<1>1. IndInv => ChannelIsLive
  BY DEF IndInv, TypeOK, ChannelFacts, ChannelIsLive
<1> QED BY Invariance, <1>1, PTL

\* lssh2_execute() never reports a command that did not run to its end like one
\* that succeeded, but where lssh2_execute_command() or lssh2_session_connect()
\* gives the session up during this very step without setting signaled.
THEOREM NoSilentFailure == Spec => []NotRunIsTold
<1>1. IndInv => NotRunIsTold
  BY DEF IndInv, TypeOK, TraceFacts, OutsideSteps, NotDone, NotRunIsTold
<1> QED BY Invariance, <1>1, PTL

\* What lssh2_kill() sent to the test is in the report of the step.
THEOREM KillsAreReported == Spec => []KilledIsTold
<1>1. IndInv => KilledIsTold
  BY DEF IndInv, KillFacts, KilledIsTold
<1> QED BY Invariance, <1>1, PTL

\* The use of a freed connection needs a connection that was given up and that
\* wait_for_resume_execution() or wait_for_reboot() has marked as usable.
THEOREM NoUseAfterFree == Spec => []FreedOnlyIfRevived
<1>1. IndInv => FreedOnlyIfRevived
  BY DEF IndInv, SessionFacts, FreedOnlyIfRevived
<1> QED BY Invariance, <1>1, PTL

=============================================================================
