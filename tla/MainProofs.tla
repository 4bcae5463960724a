----------------------------- MODULE MainProofs -----------------------------
(***************************************************************************)
(* Theorems about Main: where the commands of a run are executed, and what *)
(* the exit status says, for any set of command lines.                     *)
(***************************************************************************)
EXTENDS Main, TLAPS

HwTarget == [address |-> "hwtarget", executor |-> "hwtarget", libssh2 |-> FALSE]
HwOpts   == IF cl.hwtarget THEN HwTarget ELSE OptsOf(cl)

BeforeOptions == {"options"}
WithTestOpts  == {"check", "filters", "executor", "validate", "output", "reader",
                  "hwinfo", "logger", "process", "close"}
WithHwOpts    == {"hwexecutor", "ask"}
AfterInit     == {"validate", "output", "reader", "hwinfo", "hwexecutor", "ask",
                  "logger", "process", "close"}

\* The options in force are those of the phase.
TargetFacts ==
  /\ pc \in WithTestOpts => opts = OptsOf(cl)
  /\ pc \in WithHwOpts => opts = HwOpts /\ saved = OptsOf(cl)

\* An executor that can run commands has been initialised for its device.
ReadyFacts ==
  /\ pc \in AfterInit /\ CanRun(OptsOf(cl)) => TestDevice \in ready
  /\ pc = "ask" /\ CanRun(HwOpts) => HardwareDevice \in ready

PlaceInv == TargetFacts /\ ReadyFacts /\ EachOnItsDevice

\* The device of the hardware commands is that of the options in force.
LEMMA HwDevice == Device(HwOpts) = HardwareDevice
BY DEF Device, HwOpts, HwTarget, HardwareDevice, TestDevice

LEMMA PlaceInit == Init => PlaceInv
BY DEF Init, PlaceInv, TargetFacts, ReadyFacts, EachOnItsDevice, WithTestOpts,
       WithHwOpts, AfterInit

\* Nothing that is said of the command line changes.
LEMMA ProgramFixed ==
  ASSUME UNCHANGED program
  PROVE  /\ OptsOf(cl)' = OptsOf(cl) /\ HwOpts' = HwOpts
         /\ TestDevice' = TestDevice /\ HardwareDevice' = HardwareDevice
         /\ CanRun(OptsOf(cl))' = CanRun(OptsOf(cl)) /\ CanRun(HwOpts)' = CanRun(HwOpts)
         /\ cl' = cl
BY DEF program, HwOpts, TestDevice, HardwareDevice, CanRun, Device

\* A phase that neither initialises an executor nor runs a command.
Quiet ==
  /\ UNCHANGED <<program, saved, ready, queried, tested>>
  /\ opts' = IF pc = "options" /\ pc' = "check" THEN OptsOf(cl) ELSE opts
  /\ pc' \in WithTestOpts => pc \in WithTestOpts \/ (pc = "options" /\ pc' = "check")
  /\ pc' \in WithHwOpts => pc \in WithHwOpts /\ pc' = pc
  /\ pc' \in AfterInit => pc \in AfterInit

LEMMA QuietKeeps ==
  ASSUME PlaceInv, Quiet
  PROVE  PlaceInv'
<1>1. UNCHANGED program
  BY DEF Quiet, program
<1>2. /\ OptsOf(cl)' = OptsOf(cl) /\ HwOpts' = HwOpts
      /\ TestDevice' = TestDevice /\ HardwareDevice' = HardwareDevice
      /\ CanRun(OptsOf(cl))' = CanRun(OptsOf(cl)) /\ CanRun(HwOpts)' = CanRun(HwOpts)
  BY <1>1, ProgramFixed
<1>3. TargetFacts'
  BY <1>2 DEF Quiet, PlaceInv, TargetFacts, WithTestOpts, WithHwOpts
<1>4. ReadyFacts'
  BY <1>2 DEF Quiet, PlaceInv, ReadyFacts, AfterInit, WithHwOpts
<1>5. EachOnItsDevice'
  BY <1>2 DEF Quiet, PlaceInv, EachOnItsDevice
<1> QED BY <1>3, <1>4, <1>5 DEF PlaceInv

LEMMA QuietPhases ==
  ASSUME \/ ArgumentRefused \/ KeyWithoutHome \/ InputMissing \/ ReadOptions \/ CheckFails
         \/ ShowHelp \/ CheckPasses \/ ParseFilters \/ ValidateFails \/ Validate
         \/ OutputFails \/ CreateOutputFolder \/ ReaderFails \/ InitReader
         \/ SkipHwinfo \/ LoggerFails \/ InitLogger \/ CloseAll \/ Out \/ Interrupt
  PROVE  Quiet
<1> USE DEF Quiet, WithTestOpts, WithHwOpts, AfterInit, program, target, seen, status, Goto, Fails
<1>1. CASE ArgumentRefused
  BY <1>1 DEF ArgumentRefused
<1>2. CASE KeyWithoutHome
  BY <1>2 DEF KeyWithoutHome
<1>3. CASE InputMissing
  BY <1>3 DEF InputMissing
<1>4. CASE ReadOptions
  BY <1>4 DEF ReadOptions
<1>5. CASE CheckFails
  BY <1>5 DEF CheckFails
<1>6. CASE ShowHelp
  BY <1>6 DEF ShowHelp
<1>7. CASE CheckPasses
  BY <1>7 DEF CheckPasses
<1>8. CASE ParseFilters
  BY <1>8 DEF ParseFilters
<1>9. CASE ValidateFails
  BY <1>9 DEF ValidateFails
<1>10. CASE Validate
  BY <1>10 DEF Validate
<1>11. CASE OutputFails
  BY <1>11 DEF OutputFails
<1>12. CASE CreateOutputFolder
  BY <1>12 DEF CreateOutputFolder
<1>13. CASE ReaderFails
  BY <1>13 DEF ReaderFails
<1>14. CASE InitReader
  BY <1>14 DEF InitReader
<1>15. CASE SkipHwinfo
  BY <1>15 DEF SkipHwinfo
<1>16. CASE LoggerFails
  BY <1>16 DEF LoggerFails
<1>17. CASE InitLogger
  BY <1>17 DEF InitLogger
<1>18. CASE CloseAll
  BY <1>18 DEF CloseAll
<1>19. CASE Out
  BY <1>19 DEF Out
<1>20. CASE Interrupt
  BY <1>20 DEF Interrupt
<1> QED BY <1>1, <1>2, <1>3, <1>4, <1>5, <1>6, <1>7, <1>8, <1>9, <1>10, <1>11,
     <1>12, <1>13, <1>14, <1>15, <1>16, <1>17, <1>18, <1>19, <1>20

LEMMA InitExecutorKeeps ==
  ASSUME PlaceInv, InitExecutor
  PROVE  PlaceInv'
<1>1. UNCHANGED <<program, opts, saved, queried, tested>>
  BY DEF InitExecutor, Initialised, NotInitialised, target, program
<1>2. /\ OptsOf(cl)' = OptsOf(cl) /\ HwOpts' = HwOpts
      /\ TestDevice' = TestDevice /\ HardwareDevice' = HardwareDevice
      /\ CanRun(OptsOf(cl))' = CanRun(OptsOf(cl)) /\ CanRun(HwOpts)' = CanRun(HwOpts)
  BY <1>1, ProgramFixed DEF program
<1>3. opts = OptsOf(cl)
  BY DEF InitExecutor, PlaceInv, TargetFacts, WithTestOpts
<1>4. pc' \in {"validate", "out"} /\ ready \subseteq ready'
  BY DEF InitExecutor, Initialised, NotInitialised
<1>5. pc' = "validate" /\ CanRun(OptsOf(cl)) => TestDevice \in ready'
  BY <1>3 DEF InitExecutor, Initialised, NotInitialised, TestDevice
<1>6. TargetFacts'
  BY <1>1, <1>2, <1>3, <1>4 DEF TargetFacts, WithTestOpts, WithHwOpts
<1>7. ReadyFacts'
  BY <1>2, <1>4, <1>5 DEF ReadyFacts, AfterInit
<1>8. EachOnItsDevice'
  BY <1>1, <1>2, <1>4 DEF PlaceInv, EachOnItsDevice
<1> QED BY <1>6, <1>7, <1>8 DEF PlaceInv

LEMMA InitHwinfoExecutorKeeps ==
  ASSUME PlaceInv, InitHwinfoExecutor
  PROVE  PlaceInv'
<1>1. UNCHANGED <<program, opts, saved, queried, tested>>
  BY DEF InitHwinfoExecutor, Initialised, NotInitialised, target, program
<1>2. /\ OptsOf(cl)' = OptsOf(cl) /\ HwOpts' = HwOpts
      /\ TestDevice' = TestDevice /\ HardwareDevice' = HardwareDevice
      /\ CanRun(OptsOf(cl))' = CanRun(OptsOf(cl)) /\ CanRun(HwOpts)' = CanRun(HwOpts)
  BY <1>1, ProgramFixed DEF program
<1>3. opts = HwOpts /\ saved = OptsOf(cl) /\ pc \in AfterInit
  BY DEF InitHwinfoExecutor, PlaceInv, TargetFacts, WithHwOpts, AfterInit
<1>4. pc' \in {"ask", "out"} /\ ready \subseteq ready'
  BY DEF InitHwinfoExecutor, Initialised, NotInitialised
<1>5. pc' = "ask" /\ CanRun(HwOpts) => HardwareDevice \in ready'
  BY <1>3, HwDevice DEF InitHwinfoExecutor, Initialised, NotInitialised
<1>6. TargetFacts'
  BY <1>1, <1>2, <1>3, <1>4 DEF TargetFacts, WithTestOpts, WithHwOpts
<1>7. ReadyFacts'
  BY <1>2, <1>3, <1>4, <1>5 DEF PlaceInv, ReadyFacts, AfterInit
<1>8. EachOnItsDevice'
  BY <1>1, <1>2, <1>4 DEF PlaceInv, EachOnItsDevice
<1> QED BY <1>6, <1>7, <1>8 DEF PlaceInv

\* The swap of the options and its end.
LEMMA SwapKeeps ==
  ASSUME PlaceInv, SaveTarget \/ RestoreTarget
  PROVE  PlaceInv'
<1>1. UNCHANGED <<program, ready, queried, tested>>
  BY DEF SaveTarget, RestoreTarget, seen, program
<1>2. /\ OptsOf(cl)' = OptsOf(cl) /\ HwOpts' = HwOpts
      /\ TestDevice' = TestDevice /\ HardwareDevice' = HardwareDevice
      /\ CanRun(OptsOf(cl))' = CanRun(OptsOf(cl)) /\ CanRun(HwOpts)' = CanRun(HwOpts)
  BY <1>1, ProgramFixed DEF program
<1>3. EachOnItsDevice'
  BY <1>1, <1>2 DEF PlaceInv, EachOnItsDevice
<1>4. CASE SaveTarget
  <2>1. opts = OptsOf(cl) /\ pc \in AfterInit
    BY <1>4 DEF SaveTarget, Goto, PlaceInv, TargetFacts, WithTestOpts, AfterInit
  <2>2. pc' = (IF cl.hwtarget THEN "hwexecutor" ELSE "ask") /\ saved' = opts /\ opts' = HwOpts
    BY <1>4, <2>1 DEF SaveTarget, Goto, HwOpts, HwTarget
  <2>3. TargetFacts'
    BY <1>2, <2>1, <2>2 DEF TargetFacts, WithTestOpts, WithHwOpts
  <2>4. ~cl.hwtarget => HwOpts = OptsOf(cl) /\ HardwareDevice = TestDevice
    BY DEF HwOpts, HardwareDevice
  <2>5. ReadyFacts'
    BY <1>1, <1>2, <2>1, <2>2, <2>4 DEF PlaceInv, ReadyFacts, AfterInit
  <2> QED BY <1>3, <2>3, <2>5 DEF PlaceInv
<1>5. CASE RestoreTarget
  <2>1. pc = "ask" /\ pc' = "logger" /\ saved = OptsOf(cl) /\ opts' = saved
    BY <1>5 DEF RestoreTarget, PutBack, Goto, PlaceInv, TargetFacts, WithHwOpts
  <2>2. TargetFacts'
    BY <1>2, <2>1 DEF TargetFacts, WithTestOpts, WithHwOpts
  <2>3. ReadyFacts'
    BY <1>1, <1>2, <2>1 DEF PlaceInv, ReadyFacts, AfterInit
  <2> QED BY <1>3, <2>2, <2>3 DEF PlaceInv
<1> QED BY <1>4, <1>5

\* Commands are run with the options of the phase.
LEMMA CommandsKeep ==
  ASSUME PlaceInv, ExecCommand \/ Process
  PROVE  PlaceInv'
<1>1. UNCHANGED <<program, opts, saved, ready>>
  BY DEF ExecCommand, Process, target, program
<1>2. /\ OptsOf(cl)' = OptsOf(cl) /\ HwOpts' = HwOpts
      /\ TestDevice' = TestDevice /\ HardwareDevice' = HardwareDevice
      /\ CanRun(OptsOf(cl))' = CanRun(OptsOf(cl)) /\ CanRun(HwOpts)' = CanRun(HwOpts)
  BY <1>1, ProgramFixed DEF program
<1>3. \/ pc = "ask" /\ pc' = pc
      \/ pc = "process" /\ pc' = "close"
  BY DEF ExecCommand, Process, Goto
<1>4. TargetFacts' /\ ReadyFacts'
  BY <1>1, <1>2, <1>3 DEF PlaceInv, TargetFacts, ReadyFacts, WithTestOpts,
     WithHwOpts, AfterInit
<1>5. CASE ExecCommand
  <2>1. opts = HwOpts /\ tested' = tested /\ pc = "ask"
    BY <1>5 DEF ExecCommand, PlaceInv, TargetFacts, WithHwOpts
  <2>2. queried' = queried \/ (CanRun(opts) /\ queried' = queried \union {Device(opts)})
    BY <1>5 DEF ExecCommand
  <2>3. EachOnItsDevice'
    BY <1>1, <1>2, <2>1, <2>2, HwDevice DEF PlaceInv, EachOnItsDevice, ReadyFacts
  <2> QED BY <1>4, <2>3 DEF PlaceInv
<1>6. CASE Process
  <2>1. opts = OptsOf(cl) /\ queried' = queried /\ pc = "process"
    BY <1>6 DEF Process, Goto, PlaceInv, TargetFacts, WithTestOpts
  <2>2. tested' = tested \/ (CanRun(opts) /\ tested' = tested \union {TestDevice})
    BY <1>6, <2>1 DEF Process, TestDevice
  <2>3. EachOnItsDevice'
    BY <1>1, <1>2, <2>1, <2>2 DEF PlaceInv, EachOnItsDevice, ReadyFacts, AfterInit
  <2> QED BY <1>4, <2>3 DEF PlaceInv
<1> QED BY <1>5, <1>6

LEMMA PlaceStep == PlaceInv /\ [Next]_vars => PlaceInv'
<1> SUFFICES ASSUME PlaceInv, [Next]_vars PROVE PlaceInv'
  OBVIOUS
<1>1. CASE UNCHANGED vars
  <2>1. Quiet
    BY <1>1 DEF Quiet, vars, program, target, seen, AfterInit, WithHwOpts, WithTestOpts
  <2> QED BY <2>1, QuietKeeps
<1>2. CASE Quiet
  BY <1>2, QuietKeeps
<1>3. CASE Next
  BY <1>3, <1>2, QuietPhases, InitExecutorKeeps, InitHwinfoExecutorKeeps,
     SwapKeeps, CommandsKeep
     DEF Next
<1> QED BY <1>1, <1>3

\* The tests run on the device the arguments name and the hardware commands on
\* the one of -i, each after its executor was initialised, in every run.
THEOREM CommandsRunInPlace == Spec => []EachOnItsDevice
<1>1. PlaceInv => EachOnItsDevice
  BY DEF PlaceInv
<1> QED BY PlaceInit, PlaceStep, <1>1, PTL DEF Spec
-----------------------------------------------------------------------------
(* The exit status                                                          *)

Codes == ReturnCode \ {"OK", "REMOTE_FAIL"}

\* Why a bail out is recorded, and how an interrupt may be forgotten.
BailOutFacts ==
  /\ bail_out \in {"none", "signal", "remote"}
  /\ bail_out = "remote" => lost \/ mistaken
  /\ mistaken => interrupted \/ HostBased
  /\ bail_out = "signal" => interrupted
  /\ interrupted => bail_out # "none" \/ lost \/ mistaken

\* A return value other than OK ends the run, and with it all chance to test.
ReturnFacts ==
  /\ retval \in Codes \union {"OK"}
  /\ retval = "OK" => failure \in {"none", "executor", "reader"}
  /\ retval # "OK" => pc \in {"out", "exited"} /\ failure = FailedPhase(retval)
  /\ tested # {} => pc \in {"close", "out", "exited"} /\ retval = "OK"

\* The exit status is made of the two when the program ends.
ExitFacts ==
  /\ pc # "exited" => exit = "none"
  /\ pc = "exited" => exit = "segv" \/ exit = ExitStatus(retval)

StatusInv == BailOutFacts /\ ReturnFacts /\ ExitFacts

LEMMA StatusInit == Init => StatusInv
BY DEF Init, StatusInv, BailOutFacts, ReturnFacts, ExitFacts

LEMMA StatusImplies == StatusInv => StatusTellsWhy
BY DEF StatusInv, BailOutFacts, ReturnFacts, ExitFacts, StatusTellsWhy,
     ExitStatus, Codes, ReturnCode

\* A session that could not be connected is a lost link.
LEMMA NotInitialisedIsRecorded ==
  ASSUME NEW o, NotInitialised(o)
  PROVE  \/ bail_out' = "remote" /\ lost'
         \/ bail_out' = bail_out /\ (lost => lost')
<1>1. CASE o.libssh2
  BY <1>1, Zenon DEF NotInitialised
<1>2. CASE ~o.libssh2
  BY <1>2, Zenon DEF NotInitialised
<1> QED BY <1>1, <1>2

\* The initialisation of an executor leaves the rest of the status alone.
LEMMA InitialisationKeeps ==
  ASSUME StatusInv, NEW o, NEW to \in AfterInit,
         pc \in {"executor", "hwexecutor"}, HostBased' = HostBased,
         Initialised(o, to) \/ NotInitialised(o)
  PROVE  StatusInv'
<1>1. UNCHANGED <<retval, exit, tested, interrupted, mistaken>> /\ pc' # "exited"
  BY DEF Initialised, NotInitialised, status, AfterInit
<1>2. retval = "OK" /\ tested = {} /\ exit = "none"
  BY DEF StatusInv, ReturnFacts, ExitFacts
<1>3. \/ bail_out' = "remote" /\ lost'
      \/ bail_out' = bail_out /\ (lost => lost')
  <2>1. CASE Initialised(o, to)
    BY <2>1 DEF Initialised, status
  <2>2. CASE NotInitialised(o)
    BY <2>2, NotInitialisedIsRecorded
  <2> QED BY <2>1, <2>2
<1>4. BailOutFacts'
  BY <1>1, <1>3 DEF StatusInv, BailOutFacts
<1>5. failure' \in {"none", "executor", "reader"}
  BY <1>2 DEF StatusInv, ReturnFacts, Initialised, NotInitialised
<1>6. ReturnFacts' /\ ExitFacts'
  BY <1>1, <1>2, <1>5 DEF ReturnFacts, ExitFacts
<1> QED BY <1>4, <1>6 DEF StatusInv

\* A command that loses its link is one of a host-based run.
LEMMA LinkIsHostBased ==
  ASSUME PlaceInv, pc \in {"ask", "process"}, IsRemote(opts)
  PROVE  HostBased
<1>1. opts = OptsOf(cl) \/ (opts = HwTarget /\ cl.hwtarget)
  BY DEF PlaceInv, TargetFacts, WithTestOpts, WithHwOpts, HwOpts
<1> QED BY <1>1 DEF HostBased

\* Nothing in a run makes it host-based or not.
LEMMA HostBasedIsFixed ==
  ASSUME [Next]_vars
  PROVE  HostBased' = HostBased
<1>1. cl' = cl
  BY DEF Next, vars, program, ArgumentRefused, KeyWithoutHome, InputMissing, ReadOptions, CheckFails,
     ShowHelp, CheckPasses, ParseFilters, InitExecutor, ValidateFails, Validate, OutputFails,
     CreateOutputFolder, ReaderFails, InitReader, SaveTarget, SkipHwinfo, InitHwinfoExecutor,
     ExecCommand, RestoreTarget, LoggerFails, InitLogger, Process, CloseAll, Out, Interrupt
<1> QED BY <1>1 DEF HostBased

\* A command that loses its link, or is taken to, says so.
LEMMA ExecCommandKeeps ==
  ASSUME PlaceInv, StatusInv, ExecCommand, HostBased' = HostBased
  PROVE  StatusInv'
<1>1. UNCHANGED <<pc, retval, exit, tested, failure, interrupted>> /\ pc = "ask"
  BY DEF ExecCommand
<1>2. ReturnFacts' /\ ExitFacts'
  BY <1>1 DEF StatusInv, ReturnFacts, ExitFacts
<1>3. CASE UNCHANGED <<bail_out, lost, mistaken>>
  BY <1>1, <1>2, <1>3 DEF StatusInv, BailOutFacts
<1>4. CASE LinkFails(opts) /\ bail_out' = "remote"
  <2>1. HostBased
    BY <1>1, <1>4, LinkIsHostBased DEF LinkFails
  <2>2. (lost' \/ mistaken') /\ (lost => lost') /\ (mistaken => mistaken')
    BY <1>4 DEF LinkFails
  <2> QED BY <1>1, <1>2, <1>4, <2>1, <2>2 DEF StatusInv, BailOutFacts
<1> QED BY <1>3, <1>4 DEF ExecCommand

\* So does a run that takes an interrupt for a lost link.
LEMMA ProcessKeeps ==
  ASSUME PlaceInv, StatusInv, Process, HostBased' = HostBased
  PROVE  StatusInv'
<1>1. UNCHANGED <<retval, exit, failure, interrupted>> /\ pc = "process" /\ pc' = "close"
  BY DEF Process, Goto
<1>2. ReturnFacts' /\ ExitFacts'
  BY <1>1 DEF StatusInv, ReturnFacts, ExitFacts
<1>3. CASE UNCHANGED <<bail_out, lost, mistaken>>
  BY <1>1, <1>2, <1>3 DEF StatusInv, BailOutFacts
<1>4. CASE (LinkFails(opts) \/ InterruptMistaken) /\ bail_out' \in {"none", "remote"}
  <2>1. HostBased \/ interrupted
    BY <1>1, <1>4, LinkIsHostBased DEF LinkFails, InterruptMistaken, StatusInv, BailOutFacts
  <2>2. (lost' \/ mistaken') /\ (lost => lost') /\ (mistaken => mistaken')
    BY <1>4 DEF LinkFails, InterruptMistaken
  <2> QED BY <1>1, <1>2, <1>4, <2>1, <2>2 DEF StatusInv, BailOutFacts
<1> QED BY <1>3, <1>4 DEF Process

\* Every step keeps the status and its reasons.
LEMMA StatusStep == PlaceInv /\ StatusInv /\ [Next]_vars => StatusInv'
<1> SUFFICES ASSUME PlaceInv, StatusInv, [Next]_vars PROVE StatusInv'
  OBVIOUS
<1>0. HostBased' = HostBased
  BY HostBasedIsFixed
<1> USE DEF StatusInv, BailOutFacts, ReturnFacts, ExitFacts, ExitStatus, Codes, ReturnCode,
            FailedPhase, program, target, status, seen, Goto, Fails
<1>1. CASE ArgumentRefused
  BY <1>0, <1>1 DEF ArgumentRefused
<1>2. CASE KeyWithoutHome
  BY <1>0, <1>2 DEF KeyWithoutHome
<1>3. CASE InputMissing
  BY <1>0, <1>3 DEF InputMissing
<1>4. CASE ReadOptions
  BY <1>0, <1>4 DEF ReadOptions
<1>5. CASE CheckFails
  BY <1>0, <1>5 DEF CheckFails
<1>6. CASE ShowHelp
  BY <1>0, <1>6 DEF ShowHelp
<1>7. CASE CheckPasses
  BY <1>0, <1>7 DEF CheckPasses
<1>8. CASE ParseFilters
  BY <1>0, <1>8 DEF ParseFilters
<1>9. CASE InitExecutor
  BY <1>0, <1>9, InitialisationKeeps DEF InitExecutor, AfterInit
<1>10. CASE ValidateFails
  BY <1>0, <1>10 DEF ValidateFails
<1>11. CASE Validate
  BY <1>0, <1>11 DEF Validate
<1>12. CASE OutputFails
  BY <1>0, <1>12 DEF OutputFails
<1>13. CASE CreateOutputFolder
  BY <1>0, <1>13 DEF CreateOutputFolder
<1>14. CASE ReaderFails
  BY <1>0, <1>14 DEF ReaderFails
<1>15. CASE InitReader
  BY <1>0, <1>15 DEF InitReader
<1>16. CASE SaveTarget
  BY <1>0, <1>16 DEF SaveTarget
<1>17. CASE SkipHwinfo
  BY <1>0, <1>17 DEF SkipHwinfo
<1>18. CASE InitHwinfoExecutor
  BY <1>0, <1>18, InitialisationKeeps DEF InitHwinfoExecutor, AfterInit
<1>19. CASE ExecCommand
  BY <1>0, <1>19, ExecCommandKeeps
<1>20. CASE RestoreTarget
  BY <1>0, <1>20 DEF RestoreTarget
<1>21. CASE LoggerFails
  BY <1>0, <1>21 DEF LoggerFails
<1>22. CASE InitLogger
  BY <1>0, <1>22 DEF InitLogger
<1>23. CASE Process
  BY <1>0, <1>23, ProcessKeeps
<1>24. CASE CloseAll
  BY <1>0, <1>24 DEF CloseAll
<1>25. CASE Out
  BY <1>0, <1>25 DEF Out
<1>26. CASE Interrupt
  BY <1>0, <1>26 DEF Interrupt
<1>27. CASE UNCHANGED vars
  BY <1>0, <1>27 DEF vars
<1> QED
  BY <1>1, <1>2, <1>3, <1>4, <1>5, <1>6, <1>7, <1>8, <1>9, <1>10, <1>11, <1>12,
     <1>13, <1>14, <1>15, <1>16, <1>17, <1>18, <1>19, <1>20, <1>21, <1>22,
     <1>23, <1>24, <1>25, <1>26, <1>27 DEF Next

\* The exit status names the phase that failed, an interrupt, or a link that was
\* lost; of a link that was not it speaks in host-based or interrupted runs only.
THEOREM StatusIsTrue == Spec => []StatusTellsWhy
BY PlaceInit, PlaceStep, StatusInit, StatusStep, StatusImplies, PTL DEF Spec
=============================================================================
