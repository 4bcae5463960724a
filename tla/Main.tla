-------------------------------- MODULE Main --------------------------------
(***************************************************************************)
(* main() of testrunner-lite (src/src/main.c): the phases of a run, the    *)
(* options that are replaced around the query of the hardware information, *)
(* and the exit status.  What td_process() does is TestRun's and           *)
(* TestDefinition's subject: here it is one step that may use the device   *)
(* and may lose the link.  The build is one with ENABLE_LIBSSH2.           *)
(***************************************************************************)
EXTENDS Naturals

CONSTANT CommandLines   \* the command lines the program may be started with

Devices == {"here", "chroot", "external", "target", "hwtarget"}

\* What the arguments say, after getopt: -h or -V; the target of -t or -n; -E,
\* -G, -C, -i; -a with -m; -f with a file that can be opened or not; -l; -A;
\* -o; -H; --ci.
CommandLine ==
  [show: BOOLEAN, target: BOOLEAN, libssh2: BOOLEAN, executor: BOOLEAN,
   getter: BOOLEAN, chroot: BOOLEAN, hwtarget: BOOLEAN, bothModes: BOOLEAN,
   input: {"none", "missing", "there"}, filter: {"none", "bad", "good"},
   validateOnly: BOOLEAN, output: BOOLEAN, noHwinfo: BOOLEAN, ci: BOOLEAN]

ASSUME CommandLinesAssumption == CommandLines \subseteq CommandLine

VARIABLES
  cl,          \* the command line
  startable,   \* can a remote executor's command be executed at all?
  pc,
  opts,        \* opts.target_address, .remote_executor, .libssh2 (testrunner_lite_options)
  saved,       \* address, executor, libssh2: the locals of main()
  bail_out,
  retval,
  asked,       \* commands of read_hwinfo() that are over
  exit,        \* the exit status, or the signal the program died of
  (* Observation only *)
  ready,       \* devices an executor was initialised for
  queried,     \* devices that answered a hardware command
  tested,      \* devices that ran the test definition's commands
  failure,     \* the phase that failed
  interrupted, \* was a SIGINT or SIGTERM recorded?
  lost,        \* was a link lost?
  mistaken     \* was REMOTE_FAIL recorded of a link that was not lost?

program == <<cl, startable>>
target  == <<opts, saved>>
status  == <<bail_out, retval, exit>>
seen    == <<ready, queried, tested, failure, interrupted, lost, mistaken>>
vars    == <<program, pc, target, asked, status, seen>>

\* testrunner_lite_return_code
ReturnCode == {"OK", "INVALID_ARGUMENTS", "REMOTE_FAIL", "XML_PARSE_FAIL",
               "XML_VALIDATION_FAIL", "OUTPUT_FOLDER_CREATE_FAIL",
               "XML_READER_FAIL", "RESULT_LOGGING_FAIL"}

-----------------------------------------------------------------------------
(* Options                                                                  *)

NoOpts == [address |-> "none", executor |-> "none", libssh2 |-> FALSE]

\* -t makes a default ssh executor of the address; with -n the address is the
\* session's.
OptsOf(c) ==
  [address  |-> IF c.target \/ c.libssh2 THEN "target" ELSE "none",
   executor |-> CASE c.executor -> "external"
                  [] c.target /\ ~c.libssh2 -> "target"
                  [] OTHER -> "none",
   libssh2  |-> c.libssh2]

RemoteGetter(c) == c.getter \/ (c.target /\ ~c.libssh2)

\* The checks of main() that end in TESTRUNNER_LITE_INVALID_ARGUMENTS.
ArgumentsClash(c) ==
  LET remote == OptsOf(c).executor # "none"
  IN  \/ c.libssh2 /\ (c.chroot \/ c.executor \/ c.getter)
      \/ c.chroot /\ (remote \/ RemoteGetter(c))
      \/ remote # RemoteGetter(c)
      \/ c.bothModes
      \/ c.input = "none"

\* -t with -E or -G is refused before -h and -V are looked at.
TargetClash(c) == ~c.libssh2 /\ c.target /\ (c.executor \/ c.getter)

-----------------------------------------------------------------------------
(* Arguments of options: <<option, what parse_...() looks at>>              *)

\* Ports are kept in an in_port_t before they are compared with its limits.
Port(n) == n % 65536
AddressRefused(n) == Port(n) < 0 \/ Port(n) > 65535

\* -n without a user takes the one of LOGNAME.
Libssh2Refused(a) == (~a.user /\ ~a.logname) \/ AddressRefused(a.port)

\* A key under ~/ needs HOME; it is a file that can be read.
HomeKnown(k)  == k.path = "home" => k.home
KeyRefused(k) == ~HomeKnown(k) \/ k.file # "readable"

\* test_chroot() tries the folder out in a child.
FolderRefused(f) == f # "usable"

Arguments ==
  {<<"-r", f>> : f \in {"xml", "text", "other"}} \cup
  {<<o, n>> : o \in {"-t", "-i"}, n \in {0, 22, 65535, 65536}} \cup
  {<<"-n", a>> : a \in [user: BOOLEAN, logname: BOOLEAN, port: {0, 65535, 65536}]} \cup
  {<<"-k", k>> : k \in [path: {"home", "user", "plain"}, home: BOOLEAN,
                         file: {"readable", "missing", "directory", "unreadable"}]} \cup
  {<<"-C", f>> : f \in {"usable", "missing", "file", "inaccessible", "no chroot", "no shell", "no fork"}} \cup
  {<<"-R", r>> : r \in {"default", "exit", "continue", "other"}} \cup
  {<<"-d", d>> : d \in {"folder", "empty"}} \cup
  {<<"--logid", l>> : l \in {"alphanumeric", "other"}} \cup
  {<<"--utf8-limit", n>> : n \in 0..5} \cup
  {<<"option", o>> : o \in {"known", "unknown", "without argument"}}

Refused(a) ==
  LET v == a[2]
  IN  CASE a[1] \in {"-t", "-i"}   -> AddressRefused(v)
        [] a[1] = "-n"             -> Libssh2Refused(v)
        [] a[1] = "-k"             -> KeyRefused(v)
        [] a[1] = "-C"             -> FolderRefused(v)
        [] a[1] = "-d"             -> v = "empty"
        [] a[1] = "--utf8-limit"   -> v \notin 1..4
        [] a[1] = "option"         -> v # "known"
        [] OTHER                   -> v = "other"

-----------------------------------------------------------------------------
(* Helpers                                                                  *)

Goto(from, to) == pc = from /\ pc' = to

\* retval = code; goto OUT
Fails(phase, code) ==
  /\ pc' = "out" /\ retval' = code /\ failure' = phase
  /\ UNCHANGED <<bail_out, exit, ready, queried, tested, interrupted, lost, mistaken>>

\* Where execute() runs a command: lssh2_conn, remote_execute(), or the shell,
\* in the chroot if there is one.
Device(o) ==
  CASE o.libssh2 -> "target"
    [] ~o.libssh2 /\ o.executor # "none" -> o.executor
    [] OTHER -> IF cl.chroot THEN "chroot" ELSE "here"

IsRemote(o) == o.libssh2 \/ o.executor # "none"
CanRun(o)   == o.executor = "none" \/ o.libssh2 \/ startable

CodeFirst(code) == IF code # "OK" \/ bail_out = "none" THEN code ELSE "signal"

\* The end of main(): a recorded signal is raised again with its default
\* action, any other bail out is a lost link.
ExitStatus(code) ==
  CASE bail_out = "signal" -> "signal"
    [] bail_out = "remote" -> "REMOTE_FAIL"
    [] OTHER -> code

\* executor_init().  The session of libssh2 is connected, or bail_out is set.
\* An external executor is run once; if it cannot be executed, the child
\* returns from _execute() into main(), goes to OUT and ends with main()'s
\* status, which the parent takes for the executor's.
Initialised(o, to) ==
  /\ pc' = to
  /\ \/ CanRun(o) /\ ready' = ready \union {Device(o)}
     \/ ~CanRun(o) /\ ExitStatus(retval) = "OK" /\ UNCHANGED ready
  /\ UNCHANGED <<status, queried, tested, failure, interrupted, lost, mistaken>>

NotInitialised(o) ==
  /\ IsRemote(o)
  /\ pc' = "out" /\ failure' = "executor"
  /\ bail_out' = IF o.libssh2 THEN "remote" ELSE bail_out
  /\ lost' = (lost \/ o.libssh2)
  /\ UNCHANGED <<retval, exit, ready, queried, tested, interrupted, mistaken>>

-----------------------------------------------------------------------------
(* The phases of main()                                                     *)

\* An argument is refused: getopt's loop ends at once.
ArgumentRefused ==
  /\ pc = "options" /\ \E a \in Arguments : Refused(a)
  /\ Fails("arguments", "INVALID_ARGUMENTS")
  /\ UNCHANGED <<program, target, asked>>

\* parse_key() without HOME frees a pointer it never set.
KeyWithoutHome ==
  /\ Goto("options", "exited") /\ exit' = "segv"
  /\ \E a \in Arguments : a[1] = "-k" /\ ~HomeKnown(a[2])
  /\ UNCHANGED <<program, target, asked, bail_out, retval, seen>>

InputMissing ==
  /\ pc = "options" /\ cl.input = "missing"
  /\ Fails("arguments", "INVALID_ARGUMENTS")
  /\ UNCHANGED <<program, target, asked>>

ReadOptions ==
  /\ Goto("options", "check") /\ cl.input # "missing"
  /\ opts' = OptsOf(cl)
  /\ UNCHANGED <<program, saved, asked, status, seen>>

CheckFails ==
  /\ pc = "check"
  /\ TargetClash(cl) \/ (~cl.show /\ ArgumentsClash(cl))
  /\ Fails("arguments", "INVALID_ARGUMENTS")
  /\ UNCHANGED <<program, target, asked>>

ShowHelp ==
  /\ Goto("check", "out") /\ cl.show /\ ~TargetClash(cl)
  /\ UNCHANGED <<program, target, asked, status, seen>>

CheckPasses ==
  /\ Goto("check", IF cl.filter = "none" THEN "executor" ELSE "filters")
  /\ ~TargetClash(cl) /\ ~cl.show /\ ~ArgumentsClash(cl)
  /\ UNCHANGED <<program, target, asked, status, seen>>

ParseFilters ==
  /\ pc = "filters"
  /\ IF cl.filter = "bad" THEN Fails("arguments", "INVALID_ARGUMENTS")
     ELSE pc' = "executor" /\ UNCHANGED <<status, seen>>
  /\ UNCHANGED <<program, target, asked>>

InitExecutor ==
  /\ pc = "executor"
  /\ Initialised(opts, "validate") \/ NotInitialised(opts)
  /\ UNCHANGED <<program, target, asked>>

\* parse_test_definition(): not XML, or no schema (3), or not valid (4).
ValidateFails ==
  /\ pc = "validate"
  /\ Fails("xml", "XML_PARSE_FAIL") \/ (~cl.ci /\ Fails("schema", "XML_VALIDATION_FAIL"))
  /\ UNCHANGED <<program, target, asked>>

Validate ==
  /\ Goto("validate", IF cl.validateOnly THEN "out" ELSE "output")
  /\ retval' = "OK"
  /\ UNCHANGED <<program, target, asked, bail_out, exit, seen>>

\* -o is only missed now; then create_output_folder().
OutputFails ==
  /\ pc = "output"
  /\ IF cl.output THEN Fails("folder", "OUTPUT_FOLDER_CREATE_FAIL") ELSE Fails("arguments", "INVALID_ARGUMENTS")
  /\ UNCHANGED <<program, target, asked>>

CreateOutputFolder ==
  /\ Goto("output", "reader") /\ cl.output
  /\ UNCHANGED <<program, target, asked, status, seen>>

\* td_reader_init().  With --ci a reader that could not be created is not
\* reported; td_next_node() then ends the loop at once.
ReaderFails ==
  /\ pc = "reader"
  /\ IF cl.ci
     THEN pc' = "hwinfo" /\ failure' = "reader"
          /\ UNCHANGED <<status, ready, queried, tested, interrupted, lost, mistaken>>
     ELSE Fails("reader", "XML_READER_FAIL")
  /\ UNCHANGED <<program, target, asked>>

InitReader ==
  /\ Goto("reader", "hwinfo")
  /\ UNCHANGED <<program, target, asked, status, seen>>

\* The target options are saved and, with -i, replaced.
SaveTarget ==
  /\ Goto("hwinfo", IF cl.hwtarget THEN "hwexecutor" ELSE "ask") /\ ~cl.noHwinfo
  /\ saved' = opts
  /\ opts' = IF cl.hwtarget
             THEN [address |-> "hwtarget", executor |-> "hwtarget", libssh2 |-> FALSE]
             ELSE opts
  /\ UNCHANGED <<program, asked, status, seen>>

SkipHwinfo ==
  /\ Goto("hwinfo", "logger") /\ cl.noHwinfo
  /\ UNCHANGED <<program, target, asked, status, seen>>

InitHwinfoExecutor ==
  /\ pc = "hwexecutor"
  /\ Initialised(opts, "ask") \/ NotInitialised(opts)
  /\ UNCHANGED <<program, target, asked>>

\* REMOTE_FAIL is recorded once a link is lost, or its check: the check of an
\* external executor is killed by Ctrl-C as well (remote_executor.c:232).
LinkFails(o) ==
  /\ IsRemote(o) /\ CanRun(o)
  /\ \/ lost' = TRUE /\ UNCHANGED mistaken
     \/ ~o.libssh2 /\ mistaken' = TRUE /\ UNCHANGED lost

\* One exec_command() of read_hwinfo(): nothing is run after a bail out, and
\* the child of an executor that cannot be started exits with 1.
HwinfoCommands == 3
ExecCommand ==
  /\ pc = "ask" /\ asked < HwinfoCommands
  /\ asked' = asked + 1
  /\ \/ /\ bail_out # "none" \/ ~CanRun(opts)
        /\ UNCHANGED <<bail_out, queried, lost, mistaken>>
     \/ /\ bail_out = "none" /\ CanRun(opts)
        /\ queried' = queried \union {Device(opts)}
        /\ UNCHANGED <<bail_out, lost, mistaken>>
     \/ /\ bail_out = "none" /\ LinkFails(opts)
        /\ bail_out' = "remote"
        /\ UNCHANGED queried
  /\ UNCHANGED <<program, pc, target, retval, exit, ready, tested, failure, interrupted>>

KeepReplaced == saved' = saved /\ opts' = opts
PutBack == saved' = saved /\ opts' = saved

\* Also without a plugin that names the commands.
RestoreTarget ==
  /\ Goto("ask", "logger") /\ asked \in {0, HwinfoCommands}
  /\ PutBack
  /\ UNCHANGED <<program, asked, status, seen>>

LoggerFails ==
  /\ pc = "logger" /\ Fails("logger", "RESULT_LOGGING_FAIL")
  /\ UNCHANGED <<program, target, asked>>

InitLogger ==
  /\ Goto("logger", "process")
  /\ UNCHANGED <<program, target, asked, status, seen>>

\* A step with control="reboot" takes any bail out for a lost link, an
\* interrupt of the wait for the reboot included, also on the device itself.
InterruptMistaken == bail_out = "signal" /\ mistaken' = TRUE /\ UNCHANGED lost

\* td_process(): the tests run, or all is skipped after a bail out.  A resume or
\* a reboot clears bail_out again.
Process ==
  /\ Goto("process", "close")
  /\ tested' = IF bail_out = "none" /\ CanRun(opts) /\ failure = "none"
               THEN tested \union {Device(opts)} ELSE tested
  /\ \/ UNCHANGED <<bail_out, lost, mistaken>>
     \/ (LinkFails(opts) \/ InterruptMistaken) /\ bail_out' \in {"none", "remote"}
  /\ UNCHANGED <<program, target, asked, retval, exit, ready, queried, failure, interrupted>>

\* executor_close(), td_reader_close(), close_result_logger(), ...
CloseAll ==
  /\ Goto("close", "out")
  /\ UNCHANGED <<program, target, asked, status, seen>>

Out ==
  /\ Goto("out", "exited")
  /\ exit' = ExitStatus(retval)
  /\ UNCHANGED <<program, target, asked, bail_out, retval, seen>>

\* handle_sigint(), handle_sigterm().  Before executor_init() has set the
\* executor's pointer to the options the handler reads through NULL.
HasOptions == pc \notin {"options", "check", "filters", "executor"}
Interrupt ==
  /\ pc # "exited"
  /\ interrupted' = TRUE
  /\ bail_out' = IF bail_out = "none" THEN "signal" ELSE bail_out
  /\ \/ pc' = "exited" /\ ~HasOptions /\ exit' = "segv"
     \/ HasOptions /\ UNCHANGED <<pc, exit>>
  /\ UNCHANGED <<program, target, asked, retval, ready, queried, tested, failure, lost, mistaken>>

-----------------------------------------------------------------------------
Init ==
  /\ cl \in CommandLines /\ startable \in BOOLEAN
  /\ pc = "options" /\ opts = NoOpts /\ saved = NoOpts
  /\ bail_out = "none" /\ retval = "OK" /\ asked = 0 /\ exit = "none"
  /\ ready = {} /\ queried = {} /\ tested = {}
  /\ failure = "none" /\ interrupted = FALSE
  /\ lost = FALSE /\ mistaken = FALSE

Next ==
  \/ ArgumentRefused \/ KeyWithoutHome \/ InputMissing \/ ReadOptions \/ CheckFails \/ ShowHelp \/ CheckPasses
  \/ ParseFilters \/ InitExecutor \/ ValidateFails \/ Validate
  \/ OutputFails \/ CreateOutputFolder \/ ReaderFails \/ InitReader
  \/ SaveTarget \/ SkipHwinfo \/ InitHwinfoExecutor \/ ExecCommand \/ RestoreTarget
  \/ LoggerFails \/ InitLogger \/ Process \/ CloseAll \/ Out \/ Interrupt

Spec == Init /\ [][Next]_vars

-----------------------------------------------------------------------------
(* Properties                                                               *)

\* The tests run on the device the arguments name and the hardware commands on
\* the one of -i, if it is given, each after executor_init() for that device:
\* the options are replaced in between and one executor serves both.
TestDevice     == Device(OptsOf(cl))
HardwareDevice == IF cl.hwtarget THEN "hwtarget" ELSE TestDevice
EachOnItsDevice ==
  /\ tested \subseteq {TestDevice} /\ queried \subseteq {HardwareDevice}
  /\ queried \union tested \subseteq ready

\* A command of the run, or a hardware command, goes through an executor.
HostBased == IsRemote(OptsOf(cl)) \/ cl.hwtarget

\* The phase a status blames.
FailedPhase(code) ==
  CASE code = "INVALID_ARGUMENTS" -> "arguments"
    [] code = "XML_PARSE_FAIL" -> "xml"
    [] code = "XML_VALIDATION_FAIL" -> "schema"
    [] code = "OUTPUT_FOLDER_CREATE_FAIL" -> "folder"
    [] code = "XML_READER_FAIL" -> "reader"
    [] code = "RESULT_LOGGING_FAIL" -> "logger"

\* The exit status names what went wrong, and nothing of a failed phase's run
\* was tested.  REMOTE_FAIL is said of a lost link; of another one only in a
\* host-based run, or if the user has interrupted the run, since a reboot step
\* takes that for a lost link.  An interrupted run dies of the signal, unless
\* one of the two has replaced its record.  Status 0 hides an executor that could
\* not be initialised and, with --ci, a missing reader, but no other failure.
StatusTellsWhy ==
  /\ exit = "OK" => failure \in {"none", "executor", "reader"}
  /\ exit \in ReturnCode \ {"OK", "REMOTE_FAIL"} => tested = {} /\ failure = FailedPhase(exit)
  /\ exit = "REMOTE_FAIL" => lost \/ (mistaken /\ (interrupted \/ HostBased))
  /\ exit = "signal" => interrupted
  /\ interrupted /\ pc = "exited" => exit \in {"signal", "segv"} \/ lost \/ mistaken
=============================================================================
