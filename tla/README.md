# TLA+ models of testrunner-lite

testrunner-lite reads a test definition (XML: suites, sets, cases, steps), runs
the steps as shell commands - on the device itself, or on a target reached
through ssh or another remote executor - and writes the results. It is one
single-threaded C program, and what makes it hard is everything around that one
thread: the processes a step leaves behind, timers and user signals that arrive
between any two statements, a link that fails and comes back, a device that
reboots, and a parent process (the *conductor*) that it waits for.

Paths below are relative to the repository (`src/src/executor.c` is the file
`src/executor.c` of its checkout).

## 1. Inventory

| Component | State it keeps | Operations | What is hard |
|---|---|---|---|
| Step executor, `executor.c` | `bail_out`, `current_data`, `timer_value`, `exec_data` of the step, the interval timer | `execute`, `communicate`, `execution_terminated`, `kill_step`, `kill_pgroup`, `set_timer`/`reset_timer`, signal handlers, `wait_for_reboot`, `wait_for_resume_execution` | child processes and descendants in a group, two timeouts, SIGALRM/SIGINT/SIGTERM at any point, pipes, pid reuse |
| Remote executor, `remote_executor.c` | unique id, pid files on the target | `remote_execute`, `remote_kill`, `remote_clean`, `remote_check_conn`, init/close | the link fails between two commands; exit status 255 means two things |
| libssh2 executor (optional build) | session, `trlite_status` | connect, reconnect, execute, kill, signal | a status machine driven from a signal handler, retries |
| Test definition processor, `testdefinitionprocessor.c` | current td/suite/set, dummy case, results of cases and steps, counters | callbacks `process_suite/set`, `process_case`, `step_execute`, gets | bail out, reboots in the middle of a step, resume, who sweeps which process group |
| Crash report collection (same file) | hash of crash reports and URLs | scan markers, wait for the upload log, fetch leftovers | an external uploader works on the same directory |
| Parser, `testdefinitionparser.c` | libxml2 reader, current suite, attribute defaults | `td_next_node` and its element handlers | ownership of shared lists, state carried from element to element |
| Data types, `testdefinitiondatatypes.c` | - | create/delete of the structures | release of shared lists |
| Result logger, `testresultlogger.c` | libxml2 writer, open elements | `write_pre_*`, `write_post_*` | nesting on every path, result strings versus verdicts |
| Filters, `testfilters.c` | list of filters | parse, apply to suite/set/case | combination of several filters |
| Measurements, `testmeasurement.c` | measurement lists of a case | read file, evaluate limits | direction of limits, equality, NaN, malformed lines |
| Manual executor, `manual_executor.c` | - | prompts of the tester | end of input |
| Main, `main.c`, hardware information, `hwinfo*.c` | `opts`, return value | options, phases of a run, exit status | error paths, options swapped around the hardware query |
| Events, `event.c` (optional build) | broker connection | send, wait | reconnects |
| Logging and utilities, `log.c`, `utils.c` | log targets | messages, UTF-8 check, string lists | - |

Interactions: `main` registers the processor's callbacks with the parser and
calls `td_process`; the parser hands every set to `process_set`, which calls
`execute` of the step executor for each step and the result logger around them.
The executor and the processor share the globals `bail_out`, `global_failure`
and `opts.remote_executor`: signal handlers write `bail_out`, the executor sets
it when the link is lost, the waits for resume and reboot clear it, and nearly
every function of the processor reads it. The runner sends SIGUSR1, SIGUSR2 and
SIGRTMIN to its parent and waits for SIGUSR1.

What has to be right:

* *executor*: the step ends; what it left behind is gone; no signal goes to
  anyone else; its result is its own; its output is complete; soft before hard
  timeout; a lost link is told from a failing command; interrupts are kept.
* *processor*: a case passes exactly if it earned it; nothing is run on a target
  that is not there; a failed pre step aborts the set; one resume; counters agree
  with results; the run ends.
* *crash reports*: every report is either linked or fetched; the wait ends.
* *libssh2*: the same timeout promises as the executor.
* *parser and logger*: elements are nested, every set is handed over once, every
  structure released once.
* *filters, measurements, UTF-8*: agree with a definition one can read.

## 2. Modules

| Module | Models | Status |
|---|---|---|
| `StepExecutor` | `executor.c` and what it uses of `remote_executor.c` | checked, safety proved |
| `StepExecutorProofs` | theorems about `StepExecutor` | proved |
| `Lssh2` | `remote_executor_libssh2.c` and its callers in `executor.c` | checked, safety proved |
| `Lssh2Proofs` | theorems about `Lssh2` | proved |
| `TestRun` | how `testdefinitionprocessor.c` runs the sets, and the waits of `executor.c` | checked, safety proved |
| `SetVerdicts` | abstract: what a run promises about verdicts | implemented by `TestRun` (proved) |
| `TestRunProofs` | theorems about types, verdicts, aborts, lost links, resuming, groups and counts, and that `TestRun` implements `SetVerdicts` | proved |
| `CrashUpload` | `fetch_rich_core_dumps` and its helpers, with the dumper and the uploader of the device | checked, safety proved |
| `CrashUploadProofs` | theorems about `CrashUpload` | proved |
| `TestDefinition` | `testdefinitionparser.c`, `testdefinitiondatatypes.c`, the callbacks of `td_process` | checked, safety proved but for `ReportIsComplete` |
| `TestDefinitionProofs` | theorems about `TestDefinition`: types, memory, nesting of the report | proved |
| `TestDefinitionReads` | theorem about `TestDefinition`: only marked files are removed | proved |
| `DefinitionFile` | a test definition as the tokens of libxml2's reader (external) | used by `TestDefinition` |
| `TestFilters` | `testfilters.c` | used by `TestDefinition` |
| `ResultLogger` | `testresultlogger.c` | used by `TestDefinition` |
| `Measurements` | `testmeasurement.c`, `process_get_case` | checked, safety proved |
| `MeasurementsProofs` | theorems that the limits decide the verdict and every value is reported | proved |
| `Main` | `main.c`, `read_hwinfo` of `hwinfo.c`, initialisation of executors | checked, safety proved |
| `MainProofs` | theorems about `Main` | proved |
| `MCTestRun`, `MCCrashUpload`, `MCTestDefinition`, `MCMeasurements`, `MCMain` | plans, timeouts, files and command lines for TLC | - |

How they fit together: `Main` has `td_process` as one step; `TestDefinition` is that
step seen as a translation of a file into a report, with the outcome of the pre
steps left open; `TestRun` is the run of the sets, with the outcome of a command left
open; `StepExecutor` and `Lssh2` are the two ways a command is executed. `Measurements` and
`CrashUpload` are what happens to one case after its steps, which `TestRun` has as the
verdict of the case; `Measurements` writes the case with the operators of `ResultLogger`.

### StepExecutor

One action per statement group that a signal can separate. `pc` is the control
point of the runner:

| `pc` | code |
|---|---|
| `idle` | between two calls of `execute` |
| `fork` | `init_exec_data` is done, `fork_process*` not yet (`executor.c:846-868`) |
| `assign` | fork returned, `current_data` not assigned (869) |
| `arm` | before `set_timer(soft_timeout)` in `communicate` (672) |
| `getpgid`, `waitpid` | the two system calls of `execution_terminated` (517, 525) |
| `check`, `up`, `down` | `remote_check_conn()`: `system()` runs the check; its answer is there, `system()` has not returned (562) |
| `failing` | the check has failed, `bail_out = REMOTE_FAIL` is not assigned yet (563-564) |
| `poll`, `read`, `timers` | the rest of the loop body: `process_output_streams`, the timeout branches |
| `soft`, `hard` | in a timeout branch, after `remote_kill` was called (694-705, 716-721) |
| `sweep`, `disarm`, `clean` | after the loop: kill of the group, `reset_timer`, `remote_clean` (724-738) |
| `clear` | before `current_data = NULL` (875-879) |

The step is a *leader* (the forked child: `/bin/sh`, or the remote executor) and
`Descendants` that it may spawn in its process group; a process may ignore
SIGTERM, nobody ignores SIGKILL, and descendants may be spawned while a signal is
delivered. The child is in the runner's group until it has called `setsid()`:
`group` is `"own"` or `"step"`. `pipe` says whose unread output there is; a
descendant may keep writing after the leader is dead. The timer is `armed` and
`timer_value`; `Alarm`, `Interrupt` (SIGINT or SIGTERM) may happen between any
two actions. In a remote run the target's command, its pid file and the link
move on their own.

In a host-based run (`-t`, `-E`) the runner starts commands of its own for the target and
waits for them without a limit of time. `calls` are those it waits for: `"kill"` of the
timeout branches, `"clean"` after the loop, and `"int"`, `"term"`, the `remote_kill()` of a
signal handler, which may be under way while another call is. The runner does not move
before all have ended (`Goto`); `Answer(c)` is the end of one, and need not come. The check
of the connection is such a wait too, with two hazards of its own, since `system()` runs it
in the runner's process group and ignores SIGINT in the runner meanwhile: Ctrl-C kills the
check and makes a healthy link a failed one (`CheckDies`), and the runner itself does not
hear of it (`InterruptDiscarded`). SIGTERM and SIGALRM are handled there as anywhere.

Signal handlers are atomic but for that wait, in which other signals are handled; a
handler that waits is not entered again for the same signal.

### TestRun and SetVerdicts

`process_set` walks lists with `xmlListWalk`; the model's cursor is
`<<list, block, step>>`. `Walk(on)` is the walker's return value. One action per
exit of `step_execute`: bail out, step without a command (`EmptyStep`, the branch
`if (step->step)` not taken: the step is not run and counts as passed), manual step,
command, expected reboot begun or missed, reboot failed, reboot succeeded with and without
post reboot steps. What `execute` returns is one of `Outcomes`: result, timed out or not,
link recorded as lost or not, processes alive or not - with what `StepExecutor` and `Lssh2`
establish about it. After a timeout nothing is alive. An external executor records a lost
link only with a status of `LinkCodes`, 255 or 65 to 79. The built-in one leaves no process
on the host, and when it fails the result stays 0, since its own return value of -1 is not
looked at (630): `Builtin` are the plans run with it, and `Returns` is what the executor of
the plan may hand back. The plan (sets, cases, steps, with the outcome of filters, hardware
and environment tests) is a constant.

The variables below *Observation only* in the module (`went`, `lostAt`, `told`,
`report`, ...) are not in the program: they record what really happened, so that
verdicts can be compared with it. `went` is `"unrun"` of a step that counts as passed
without anything being known of it: it has no command, is a manual step that is not asked
about, or was given up by the built-in executor with the result it expects. So
`VerdictIsEarned` says of a PASS that the run got to every step and none went otherwise than
expected, not that each was run.

`CaseStepsSwept` is about the list of the case's own steps and about the host: the walk of
`step_post_process` covers `c->steps` only (909), so what the post reboot steps of a case
have started is never killed, and the kill of what a remote step left on the target is
commented out (816-820).

`SetVerdicts` is the promise: cases are decided in order, each once; a set is
closed only when all its cases are decided; a case begun while the run bails out
never passes; the run is mended at most once and only when no case of the set is
left - or by a reboot that a step expects: a step of the open case, or one before the
first or after the last case of the set. `TestRun` implements it under the mapping of its
last section (`Promise`).

The data of an expected reboot (`edata`) is kept per list, since it is local to
`step_execute()`: a post reboot step may itself expect a reboot, and its lists are walked
inside the call of the step they belong to. A manual step of a pre, post or post reboot
list is not asked about.

### CrashUpload

`TestRun` leaves out what happens between the sweep of a case and its get files:
the collection of crash reports. `CrashUpload` is that call, for one case, against
two programs that work in the same directory.

| `pc` | code (`testdefinitionprocessor.c`) |
|---|---|
| `open`, `scan` | `collect_crash_reports` (289-344) |
| `log` | `collect_urls_from_uploadlog` and what the loop does with its result (194-365) |
| `watch`, `wait` | first time in the loop: `inotify_add_watch` (367-388); `select` and `read` (391-414) |
| `leftovers`, `fetch` | `xmlHashScan` with `fetch_leftover_report` (262-276, 447) |
| `copy`, `delete` | the two commands of `process_get` (1064, 1089) |

`unsure` is what POSIX leaves open of `readdir`: entries added since the last
`rewinddir` may or may not be returned. `crashes` is the hash table from report
names to URLs. `events` counts the queued inotify events; one `read` takes any
positive number of them. `OpenLogFails` is an `fopen` of a log that is there but cannot be
opened: the runner goes on as if it were empty. Either command of `process_get` may fail. The dumper
writes a report with its marker; the uploader appends to the log and then deletes
the report. These are external, and the runner relies on that order.
`stuck` are markers that cannot be unlinked.
An upload that ends after the log was read and before the watch is set wakes nobody and is not
promised anything: `UploadIsNoticed` begins with the watch.

### Lssh2

The built-in ssh executor, compiled in with `ENABLE_LIBSSH2`. One session to the target,
a channel for every command.

| `pc` | code (`remote_executor_libssh2.c`) |
|---|---|
| `init`, `no_executor` | `lssh2_executor_init` (1209-1256); its failure in `executor_init_libssh2` |
| `idle` | between two steps: here `step_execute` begins a step, or the processor waits to be resumed (`WaitForResume`) or for a reboot (`WaitForReboot`) |
| `enter` | beginning of `lssh2_execute_command`: is there a session, may it be reopened (847-869) |
| `open`, `reconnect` | the loop that opens a channel and reconnects if it cannot (871-911) |
| `exec` | `libssh2_channel_exec` (917-946) |
| `read` | `lssh2_read_output`: end of file, or a look at `trlite_status` when it would block |
| `killed` | back in `lssh2_check_status` after `lssh2_kill` (275-312) |
| `close`, `collect`, `failed` | `lssh2_channel_close`, end of `lssh2_execute`, `execute_libssh2` |
| `undefined` | the connection was freed under its user: nothing can be said from here on |

`cmd` is the command that is being executed: a kill is itself a command on the same
session, run from inside the read of the test's output, so `lssh2_execute_command` is
entered again and may replace the session (`mine` records whether the test's channel
survived that). `session` is `"none"` (NULL), `"live"` or `"broken"` (there is a
`LIBSSH2_SESSION` without a transport); `status` is `libssh2_conn.status`;
`trlite_status` and `signaled` have the names of the code. `Alarm` and `Interrupt`
may come between any two actions; the link may die at any time (`LinkDies`). The test
on the target is `starting` until its shell has written its pid file, which the kill
command needs. A loop that retries on `EAGAIN` is one action that succeeds or fails.

Both waits of `executor.c` set the connection to `SESSION_OK` without looking at it, and
the second needs no resume: `wait_for_reboot()` (1158-1209) is called before a step that
reboots and after one that was expected to, in the middle of a case, and clears `bail_out`
too. `revived` records that a connection that was given up was put back to use by one of
them; `FreedOnlyIfRevived` says that only then its memory can be used after it was freed.

`NotRunIsTold` is about a result of 0, which is where a step starts: a step reported with 0
was run to its end or its report says that it was signalled - or the session was given up
*in this very step* (`gaveUp`). Of those there are three: `libssh2_channel_exec` fails in a
way that gives the session up, the authentication of a reconnection fails, and a session
that is not there cannot be opened again. Such a step passes if it expects 0. A session that
was given up before, or revived, is no excuse.

### TestDefinition, DefinitionFile, TestFilters, ResultLogger

`DefinitionFile` turns a tree of suites, sets, cases, steps, events and files into the
nodes the `xmlTextReader` delivers; with `selfClosing` what is empty is written
`<x/>` and has no end node. One step of `TestDefinition` is one node. `fn` is the
call stack of the parser (`<<"td_process", "td_parse_set", "td_parse_case",
"td_parse_step">>`), the other variables are the locals of these functions: the
structures that are being built. An action is named for the function and the kind of
node: `StepStart` is the beginning of `td_parse_step`, `CaseEnd` the end of
`td_parse_case` with the correction of `manual`. `SetEnd` hands the set to
`process_set`, which decides whether it is skipped, filters its cases, writes
it with the logger and releases it, in the same step as in the code.

`ResultLogger` has an operator per function that writes elements. A writer is the path of
open elements and the list of elements written so far, each with its path from the
root: a lost or doubled end element changes every later path. `Walk` is `xmlListWalk`
with callbacks that may stop it.

The last part of `TestDefinition` reads off the tree of the file - not of the nodes -
what should be reported (`Asked`), and `Reported` compares the two. It is a second,
declarative definition of inheritance, filters, hardware, environments, manual cases
and post reboot steps. Of the attributes all that decide this are modelled: `manual`, and
what filters compare (`name`, `hwid`, `type`, `feature`, `requirement`).

A set outside of a suite is handed over as well: `gen` is the first member of `td_suite`
(`testdefinitiondatatypes.h:75-76`), so with `current_suite` NULL its address is NULL too
and `td_parse_set` only skips inheritance (`testdefinitionparser.c:128, 829`). The set is
run and written below `<testresults>`; the null pointer is followed at the end of the suite
(`SuiteEndWithoutSuite`). This takes an empty `<hwiddetect/>` that swallows the start of the
first suite (`DetectorIsMisread`); after a suite `current_suite` still points to it.

Two things in `SetEnd` are left open by the code, and so by the model. The callback
`add_post_reboot_step` (886-891) has no return statement, so whether the walk goes on after the
first case is undefined: at least the first gets the list (`CasesWalked`). And `td_set_delete`
releases that list once for the set and once for each case that points to it: the run may
end there (`FreedTwice`, `AfterDelete`) or go on.

For some files parser and logger are known to go wrong, and the properties name them:

* `Readable` - the parser reads on from an empty element that it does not recognise (with
  `selfClosing`; the run `test_definition_empty` is about this), and it takes the text of an
  element from whatever text node it meets (`TextsAreRead`). Of two texts of a detector or a
  param, which a comment separates, it keeps the last and loses the other. The `delete_after`
  of a `file` element is reset when its text is read, so that of an element without text
  stays set for the next file, which is then removed from the target unasked
  (`td_parse_gets`).
* `Closable` - the logger cannot close steps and params without text. This includes an empty list
  of steps (`ListsRunOn`), which runs on into the next set up to the end of a list there: the steps
  without a command of the cases in between become steps of a list (`MisreadDocs`).
* `NamesTell` - which sets were given up after a failed pre step is known by the name of the set
  (`aborted`), so a set is reported as given up if another of its name was.
* `FirstCaseReboots` - whether a case behind the first has the post reboot steps is the undefined
  walk above, so the report is compared if only first cases have steps that reboot.

`NestingIsValid` allows for two things that the result schema does not: with `--vcsurl`,
`<vcsurl>` is written before the root, as a root of its own (`Roots`), and a set that
follows a misread detector stands below `<testresults>` (`MayHold`). `MemoryIsThere` says that a
run crashes only after a misread detector, or of a file in which *one* set has both post
reboot steps and cases, never by the steps of one set and the cases of another that a
misread list ran on into. `OnlyMarkedFilesAreRemoved` is about files in which every `file`
element has a text.

`TestDefinitionAssumption` says what `Documents` may hold, in `DefinitionFile`: trees of the
shape the schema gives them, with strings, flags and lists of strings as attributes.

### Measurements

| `pc` | code |
|---|---|
| `power` | samples of the power measurement, a series without a limit (`process_current_measurement`) |
| `gets` | the list of get elements, and `process_get` for the next one |
| `open`, `read` | `get_measurements`: the file, then line by line |
| `done` | `xml_write_case` has written the case |

A file is a sequence of lines, a line the sequence of its fields between semicolons, a
field what `strtod()` makes of it - a number, NaN, a timestamp or a word - and whether it
starts with white space (`blank`), as the line end does: a fourth field that does is no
target (153), and a line that does is skipped (123).
`Judge` is the tail of `process_get_case`, in the same step as the last line. `folder` is
the output folder, which nobody empties: `process_get` copies into it, or fails
to without saying so. `power`, `before`, `measured` and `stale` are observations.
`LimitsDecide` and `EveryValueIsReported` compare the outcome with the files as a whole
(`Unreadable`, `OutOfLimits`, `Values`), without going through them line by line.

### Main

`pc` is the phase of `main()`: `options`, `check`, `filters`, `executor`, `validate`,
`output`, `reader`, `hwinfo`, `hwexecutor`, `ask`, `logger`, `process`, `close`, `out`,
`exited`. `cl` is the command line as flags; `opts` and `saved` are the options
that are replaced around `read_hwinfo()`. An argument that is refused ends the option loop
whichever it is, so the arguments are the set `Arguments`, with `Refused` telling what each
`parse_...()` function refuses. `startable` says whether the remote executor's command
can be executed at all. `ready`, `queried`, `tested`, `failure`, `interrupted` and
`lost` are observations: what really happened, to compare the exit status with.

`mistaken` is one more: `REMOTE_FAIL` was recorded of a link that was not lost. There are two
ways to that. In a host-based run the check of an external executor dies of Ctrl-C, see
`StepExecutor` (`LinkFails`). And in any run, local ones included, a step with
`control="reboot"` that meets a bail out of any kind sets `REMOTE_FAIL`
(`testdefinitionprocessor.c:566-569`), as does the wait for the reboot when it is
interrupted (676), so an interrupt ends as a lost link (`InterruptMistaken`).
`StatusTellsWhy` therefore promises: exit status `REMOTE_FAIL` means a lost link, or one
taken to be lost in a run that was interrupted or host-based.

## 3. Runs

| Run | What it asks | Bounds |
|---|---|---|
| `executor_local` | the executor's safety and `StepEnds`, local steps | 2 steps, 2 descendants, 2 writes of output, both timeouts |
| `executor_remote` | the link and its check, interrupts, `StepEndsUnlessExecutorHangs`, remote steps | 2 steps, 1 descendant, 1 write of output, link fails and recovers freely |
| `lssh2` | timeouts, kills, lost sessions and the end of every step with the built-in ssh | 2 steps, 1 failed reconnection, 2 interrupts |
| `testrun` | verdicts, abort, resume, counters, refinement, termination | 6 plans, results {0, 255}, `--resume=exit` |
| `testrun_interrupted` | is a run that ends with 0 an uninterrupted one? (no) | the reboot plan |
| `crash_upload` | is every report found and accounted for, does the wait end? | 2 reports, timeouts {0, 30, -1}, 1 deletion of another file |
| `crash_upload_lost` | is a report kept until it is copied? (no) | 1 report |
| `test_definition` | is all reported that the file and the command line ask for, well nested? | the files of `MCDocuments` with the options of `MCOptions` |
| `test_definition_empty` | is it, however empty elements are written? (no) | the same |
| `measurements` | do the limits decide the verdict, is every value in the report? | two files of a case, one of them plain; power samples or none |
| `measurements_stale` | are only files evaluated that could be fetched? (no) | the same |
| `main` | do tests and hardware commands run where they should, does the exit status tell why? | all combinations of options, in two families |

Why the bounds are enough. *Two steps*: state that leaks from one step to the next
(timer, flags, group, `trlite_status`, session) shows in the second, and the third
starts like the second.
*Two descendants*: one that dies and one that stays. *Results {0, 255}*: as
expected, not as expected, and the one that stands for all of `LinkCodes`, which the code
treats alike. *Plans*: sets
are independent but for `bail_out`, the resume count and the counters, so two
sets show every carry-over; within a set one plan has all lists with a second
case and a second step after each failure, one has everything that is skipped,
one has reboots with post reboot steps, one has reboots without and two
`pre_steps` elements, one expects reboots in pre, post and post reboot steps, with a
manual step among the latter, and one has steps without a command in every list and is run
with the built-in executor. *Two reports*: reports meet only in the one loop that waits for
all of them, so one that is pending and one that is done are all it can tell apart.
*One failed reconnection, two interrupts*: the loop over reconnections has no memory but
its count, and both its ends are reached; `trlite_status` is in its last state after the
second interrupt. *Files*: a family of `MCDocuments` varies one concern in all ways
(manual flags on all four levels, lists of steps, reboots and events, files to fetch,
environments with hardware, filters, empty parents) and has a plain second case
or set behind it, where state carried over would show. *Two files of measurements*: the first varies in all ways (values below, at and above the
limit in both directions, NaN, words, limits that are missing, halved, equal, behind a blank
or not numbers, blank and malformed lines), the second shows what is carried over; their names are
the same or not, copies fail, and the folder may hold an older file. *Command lines*: the options that
say where to run meet each other in the checks only, and those of the other kind only with
the two phases they belong to, so each kind is enumerated completely.
For the safety of `StepExecutor`, `TestRun`, `CrashUpload`, `Lssh2`, `Main` and
`Measurements`, and for `TypeOK`, `NestingIsValid`, `MemoryIsThere` and
`OnlyMarkedFilesAreRemoved` of `TestDefinition`, the theorems replace the bounds.

### Fairness

`StepExecutor`: the runner's own steps are weakly fair (it is a running process, and its
`poll` has a timeout) and an armed timer expires: `WF_vars(InExecute) /\ WF_vars(Alarm)`.
Nothing is assumed of the commands: a step that never ends by itself still ends, if both
timeouts are set, as the processor does (`COMMON_SOFT_TIMEOUT`, `COMMON_HARD_TIMEOUT`). In
local runs that is `StepEnds`. In host-based runs it is not what the code gives:
`remote_kill`, `remote_clean` and `remote_check_conn` wait for an executor of theirs in
`waitpid(..., 0)` or `system()`, which no timeout ends, so one that hangs holds the step for
ever. No fairness is stated for the ends of these waits (`Answer`, `CheckEnds`,
`CheckDies`); `StepEndsUnlessExecutorHangs` says that the step ends if from some time on the
runner waits for no executor (`WaitsForExecutor`), which excludes a user who goes on sending
signals, since each handler starts another kill.

`Lssh2`: the same for the runner and the timer (`Execute`, `Alarm`); every wait of the code
is a `select` with a timeout. Of the server: `SF_vars(OpenChannel)`, a session that is
offered again and again gives a channel at last - the code reconnects without a limit as
long as reconnecting works - and the shell of a test that was not refused writes its
pid (`WF_vars(PidWritten /\ Target)`), without which no kill reaches it. Nothing is
assumed of the test itself, of the link or of the user.

`TestRun`: the runner goes on (each `execute` returns: that is `StepEnds`, and in host-based
runs an assumption about the external executor), and a
conductor answers a runner that waits for it *after it was told*; user
interrupts are not fair.

`CrashUpload`: only the runner goes on; of the dumper and the uploader nothing is
assumed. A timeout counts as a step of the runner, enabled while nothing is queued.

`TestDefinition`, `Measurements` and `Main` have no liveness property and no fairness.

Deadlock is not checked where the modelled call or program simply ends: `CrashUpload` (which
with timeout -1 may also wait for ever), `Lssh2`, `Measurements` and `Main`.

### What the violations show

* `InterruptIsNotForgotten` - the loss of the link replaces a recorded interrupt,
  and the wait for an expected reboot clears it.
* `ReportIsKept` - `process_get` deletes the report whether or not the copy succeeded.
* `EmptyElementsAreRead` - `<step control="reboot"/>` is not recognised as empty, since
  the reader is asked while it stands on the attribute: what follows up to the next
  `</step>` is taken for its content. Lists of steps are not asked at all.
* `OnlyFetchedIsEvaluated` - a copy that fails is not noticed, and a file of that name from an
  earlier case or run is evaluated in its place.

Known limits that the properties state as conditions: `Chatty = FALSE` (a command that
writes without end is read without end), a channel without a command behind it after two
interrupts (`StepEnds` of `Lssh2`), an external executor that hangs
(`StepEndsUnlessExecutorHangs`), a check of the connection that Ctrl-C kills and an interrupt
that `system()` discards (`NoFalseConnectionFailure`, `InterruptIsKept`), a session marked
usable again by the wait for the conductor or for a reboot (`FreedOnlyIfRevived`), a session
given up in the step itself (`NotRunIsTold`), a crash log that cannot be opened
(`UploadIsNoticed`), post reboot steps, which are never swept (`CaseStepsSwept`), steps and
params without text (`Closable`), the release of the post reboot steps of a set by the set and
by each of its cases (`MemoryIsThere`), the walk without a return value (`FirstCaseReboots`),
and exit status 0 of a run whose executor could not be initialised, or `REMOTE_FAIL` of one
whose link is up (`StatusTellsWhy`).

## 4. Proofs

`StepExecutorProofs` proves, for all timeouts, sets of descendants, exit codes,
numbers of steps and amounts of output (`ExecutorAssumption` only types the
constants), that `IndInv` is inductive, and from it the safety invariants of
both executor runs and the action property `InterruptIsKept`.

`IndInv` is type correctness and five parts, each needed by the next:

* `ProcessFacts` - which process exists at which control point; without it nothing
  is known of `result` after the loop.
* `TimerFacts` - `alarms`, `timer_value`, `armed`, `terminated` and `killed` agree: an
  alarm counted pays for exactly one escalation. `EscalationNeedsAlarms` alone is
  not inductive, since it does not say why `timer_value` is set.
* `GroupFacts` - descendants live only in the step's group and, once the leader is
  reaped, `pgid` is the group they are in: this is why the sweep after the loop,
  which has only `pgid`, hits them. It is also what keeps the runner's own group
  out.
* `OutputFacts` - a reaped leader's output is unread only where it is about to be
  read.
* `LinkFacts` - a link that is down is one that was lost; where a failed check is on its way to
  `bail_out` (`down`, `failing`), the link or the check was lost. Signals come between the
  check, its answer and the assignment, so what is said of `bail_out` has to hold at each of
  these points.

`NoFalseConnectionFailure` then says that a connection failure is recorded only of a link that
failed or of a check that was lost, whatever exit status the command has; `InterruptIsKept`,
that a signal of the user is recorded unless `system()` discarded it, and that of a recorded
one only a connection failure takes the place.

The proof that a step preserves `IndInv` has a lemma per action group; effects of
signals on processes are first abstracted (`KillPgroup`, `KillStep`
are shown to be a strike that leaves all else alone).

`TestRunProofs` proves all safety
properties of `testrun` and the refinement of `SetVerdicts`, for every plan - any number of
sets, cases, blocks and steps of any kind -, every set of result codes and each `--resume`
action (`TestRunAssumption` only types the constants). The invariants are proved one after
the other, each from those before it:

* `Layout` - the cursor is in the list, and in the case, that the control point says, and
  the tables of results are those of the current set.
* `Earned` - `VerdictIsEarned` is not inductive, since it is silent about the case that is
  being run. What is added: the verdict of the open case is PASS exactly if its steps so far
  went well (`OpenVerdict`); nothing ahead of the walk was run (`AheadIsUntouched`); a walk
  that goes on without bailing out passes so far (`StillPassing`); and the dummy case says
  how the post reboot steps went (`RebootWalk`). Actions that end a step are first shown to
  be `StepEndsAs(v, w, on)`, those that run and judge nothing to be `Quiet`.
* `PreSteps` - a failed pre step is remembered in the dummy case, which nothing but the walk
  of the pre steps reads, until `AbortSet`.
* `Lost` - after the link was lost in a case the run bails out until the cases are done. Only
  `bail_out` stands between that and a command: it is what no action clears in between.
* `Resumed` - a resumed run is in the tail of the set it was resumed in.
* `Groups` - a process group that a step of a case's own list left is known to
  `step_post_process()`, unless the step expected a reboot (`CaseStepsAreSwept`).
* `Undecided` - a case that was not reached, or is filtered, still has the FAIL it was
  allocated with.
* `Counting` - the counter of passes is, at every moment, the number of passes in the sets
  reported and among the finished cases of this one; `PassesAreCounted` compares them only
  at the end.
* `Scalars`, `Flags`, `Written` - the types of what is left.
* `Tainted` - of a case that was begun while the run was bailing out nothing is executed, so
  the run bails out until the case is decided, and it is PASS only up to its first step.

The refinement then maps every step to a step of `SetVerdicts` or to a stutter
(`PromiseStep`), by what it does to the answers given so far (`Answers`).

`CrashUploadProofs` proves the safety properties of `crash_upload` for any finite set
of reports, any timeouts and any number of other deletions. Its `IndInv` is type
correctness (in three parts, since a prover is used that keeps Booleans, numbers and
sets apart best when they are asked for one at a time) and

* `ScanFacts` - markers that were there at the start are found or sure to be returned
  by `readdir`; what is known of a report is on the device, in the log, copied, or its
  copy failed. The rewind after each deletion is what keeps the first part.
* `WatchFacts` - a deletion seen while watching is queued until the log is read
  again: `UploadIsNoticed` alone says nothing about the time before the wait ends.
* `FetchFacts` - an entry of the table is yet to be visited, being copied, or
  accounted for.

`Lssh2Proofs` proves the safety properties of `lssh2` for any number of steps,
reconnections and interrupts (`Lssh2Assumption`). Its `IndInv` is type correctness and

* `SessionFacts` - a connection without a session is given up, being connected, or was
  revived by the wait for the conductor or for a reboot: why it takes such a wait to use a
  freed one.
* `ChannelFacts` - a kill is under way only in a `trlite_status` in which no new session
  can be started. So the test's channel is either still the session's own or the session
  is given up, whatever reconnections the kill command needed.
* `StartFacts` - nothing has been signalled before the first step.
* `KillFacts` - a signal that was sent is in `signaled` once the kill is over, and from
  there in the report.
* `TraceFacts` - at each point on the way out of `lssh2_execute` one of the traces is there:
  an exit status was read, `signaled` is set, the result is not 0 or the session was given up
  in this step (`gaveUp`).

`MainProofs` proves two properties of `main` for any set of arguments and command lines.
`PlaceInv` says which options are in force in which phase (those of the tests, or
those of the hardware query, with the former saved) and that the executor of the
device they name was initialised before the first command. `StatusInv` relates the bail
out, the return value and the exit status to the phase that failed; it uses `PlaceInv`,
which says that only a host-based run loses a link or its check (`LinkIsHostBased`).

`MeasurementsProofs` proves `LimitsDecide` for files of any number and length, any fields and
limits, with or without white space in front of a field. `MeasurementsAssumption` only types the
constants. The property compares two views of a file: the code
walks over lines, fields and lists and keeps flags; `Unreadable` and `OutOfLimits` ask whether
there *is* a line or a sample. So the proof has two halves.

The first is induction over lists. The induction theorems of the library take the predicate
as a parameter; here it is a set of numbers instead (`LeastNumber`: a set of numbers that is
not empty has a least one, from the well-foundedness of `<`; `Induction` from it). With it:
`FoldLeft` has a value that is the last of its partial results (`FoldExists`, `FoldPlaces`);
a walk over a list that carries a flag keeps it as long as all samples are good and drops it
at the first that is not (`SinglesWalk`, `ItemsWalk`, `SeriesWalk`); and a line is parsed to
its first bad field (`Search`).

The second is the inductive invariant. `LimitsDecide` speaks of the end, so `IInv` says what
holds on the way there:

* `FileAtHand` - while a file is read, `lines` and the number of lines read are those of the
  file that was opened, fetched or left over.
* `LinesWereGood` - the lines read so far could be read: the first that cannot ends the reading
  and fails the case.
* `SeriesAtHand` - the series that is read holds the limits of its header and a value for each
  line that had one.
* `PowerHasNoLimit` - the samples of the power measurement, which are judged by the same walk, have
  no limit to miss.
* `Clean`, `Verdicts` - the result is still that of the steps as long as nothing was
  unreadable or out of limits, and is FAIL after that; no later file clears it.

The run `measurements` was used to check `IInv` before it was proved.

The same module proves `EveryValueIsReported`, under the same assumption. The report
is written by walks over lists of lists, and the property flattens what lines and files give,
so the lemmas are about flattening: `FlattenSeq()` is a recursive function whose partial
results agree as far as the sequences do, hence one more line or file adds its values at the
end (`FlatGrows`), a line without a value adds none (`FlatStays`), and a walk of the writer
writes the entries of the elements one after the other (`Collect`, `CaseWritten`). The
invariant adds to `IInv`:

* `PowerAtHand` - the samples that are left are the last of the power measurement, and its
  series was created exactly if one of the others had a value.
* `SinglesKept`, `SeriesKept` - the lists of the case hold the values of the files judged so far
  and of the lines read of the file at hand, in this order; the series of the power
  measurement comes first. A file of measurements gives those before a line that cannot be
  processed; a series whose header cannot be processed is not created.
* `WrittenOnce` - nothing is written before the last step.

`TestDefinitionProofs` proves `TypeOK`, `MemoryIsThere` and `NestingIsValid` of
`TestDefinition` for every file and every command line: any number of suites, sets, lists,
steps and cases, with or without `selfClosing`, sets that lost their suite included, and
whichever cases get the post reboot steps. `TestDefinitionAssumption` says of a file
that it is one (`IsDocument`) and types two options. The parser never checks that what it
reads nests as the schema has it: it relies on the file for that, so the proof has to say
what a file is.

* *Files*. `Places` are the places between two tokens: what is open there, which set it is,
  how far the set has got (`stage`), and whether the step that is open has had a text. `Move`
  says which tokens can stand at a place and where the next one is; `Leads`, that a sequence
  of tokens goes from a place to another by such moves. `FileLeads` shows it for the tokens
  of any file, one lemma for each kind of element (`StepLeads`, `CaseLeads`, `SetLeads`, ...).
  A place has one element per level instead of a stack of tokens, so that no induction over
  the tree is needed but that over lists (`LeadsEach`). The lemmas about lists it needs stand at its top, as they do in
  `MeasurementsProofs`.
* *The parser*. `Level`, `Stages` and `TextsSeen` relate the call stack and what it has built
  to the place of the next node. They say why a list of post reboot steps and cases meet in
  one set only if they do so in the file (else the list would be freed twice without cause),
  and which step can be left without a command. `DataOf(b)` types the structures; with `b`,
  when the logger can close every element of the file, no step of a list is without a
  command and no param without a value. Each action is a `Move`, and keeps all of it
  (`SetKeepsParse`, `ListKeepsParse`, `CaseKeepsParse`, ...).
* *The writer*. `Writers(p, n)` are those that have nested everything so far and, with `n`,
  have the path `p` open. Each function of the logger takes the one to the other (`StepWritten`,
  `CaseWritten`, `SetWritten`, ...); those that walk over a list are folds (`WalkExists`, `WalkIn`).
  `WrittenAt` says which path is open between two sets, up to the end of the definition,
  where the root is closed.

`DefinitionInv`, the inductive invariant, says that there is a place from which the rest of the
file leads on, where the parser is, and for which the writer has the right path open. `Leads`
is beyond TLC; the moves and the parts about the parser were checked with TLC on the files of
`MCDocuments`, with the place as a history variable, before they were proved. Proving
`NestingIsValid` showed that its first form was false: an empty list of steps runs on up to
the next end of a list and takes along the empty steps of the cases in between, which
`Closable` now excludes.

`TestDefinitionReads` proves `OnlyMarkedFilesAreRemoved`: the set that is run has, case by case,
the files of one set of the definition, each with the mark of its own element, for every
`Readable` file and every command line. `DefinitionInv` does not say this: its places know
which element is open, not what was read in it. `process_get` removes what the
structure says, and the structure is what the parser made of the tokens with locals that
outlive an element (the flags of `td_parse_gets`, `step`, `param`, the defaults). So:

* *Files again*. A place now carries what has been read of each structure that is open (`OnSet`,
  `OnCase`, `OnCaseStep`, `OnParam`, ...), as if the file were read without a fault.
  `ReadsTo(D, c, k, d)`, with one definition per kind of place (`SetReads`, `CaseReads`,
  ...), says where the token `k` leads; `Takes` that a sequence of tokens leads from one place
  to another, which is a way through a machine (`Way`, with its own lemmas: `WayOn`,
  `WayFrom`, ...). `DefinitionTakes` proves for every `Readable` file that its tokens lead from the start to
  the end, and its lemmas what they have made of each structure: `StepsTake`, `CasesTake`,
  `SetTakes`. `Fine` keeps along the way that the set is the one at `i`, `j` of the tree.
* *The parser*. `IsAt(c)` compares the variables with the place: the function (`InFunction`), the
  structures (`Around`) and the locals (`LocalsAt`). `SetSeen` and `CaseSeen` forget what does
  not matter, such as the order in which files are listed. An action at `IsAt(c)` that reads the
  node leading to `d` makes `IsAt(d)` true; one lemma for each function (`SetStepsOn`,
  `ListStepsOn`, `StepGoesOn`, `CaseStepsOn`, `FilesGoOn`, ...), together `ReaderGoesOn`.
* *The set*. `SetIsOfFile` says that the set at hand, and the one whose processing just ended, has the
  files of a set of the tree.

`ReaderInv` adds to `DefinitionInv`, for `Readable` files, `SetIsOfFile` and that the rest of
the file leads on from a place where the parser is. It is not evaluated by TLC (`Takes`
quantifies over machines); the property it implies is, on the files of `MCDocuments`.

The first attempts at these proofs did not go through, for reasons that were faults of the
properties, not of the prover. The mark of a `file` element without text reaches the next file, so the
property was false of such files, which `MCDocuments` did not have; of several texts the
parser keeps the last; two sets of one name share the record that the pre steps of one failed;
with an environment that is neither `hardware` nor `scratchbox` sets were expected in the report, which
the code skips; a step with `reboot="false"` was taken for one with a reboot; the `requirement`
attribute and its filter were missing. The properties now name the files they are
about (`TextsAreRead`, `NamesTell`), and `Asked` has the environments and requirements.

Only model-checked: liveness (`StepEnds`, `StepEndsUnlessExecutorHangs`, `RunEnds`,
`RunnerGetsThrough`), which the
prover does not do, and `ReportIsComplete` of `TestDefinition`. The latter compares the report
with what the whole file asks for, in its order. The reading half of its proof is there:
`IsAt` says that the set at hand is, at its end, all that the tree has for it (`SetTakes`). The half
that is missing is the writing: that the folds of the logger and of the filters over that set
write what `Asked` selects from the tree, which `SelectSeq` and `FlattenSeq` (recursive in the
library) define, and that `Reported` adds up over the sets.

## 5. Not modelled, and why

* Failures of `malloc` and friends (the code logs and goes on or exits).
* `DONT_REDIRECT_OUTPUT` (no caller uses it for steps).
* Nested signal handlers and the async-signal-safety of what they call: memory
  corruption inside libc has no meaningful model here.
* What happens after memory was released twice or a null pointer followed: the models
  stop there (`undefined`, `crashed`, `segv`). A double free that the allocator survives is
  taken to change nothing else.
* Of measurements: lines longer than the buffer, the date in a timestamp, and the commands
  that start and stop the power measurement; values are integers or NaN. `TestRun` takes the
  verdict as an input.
* Events (`event.c`, off by default): a client of a message broker, whose library decides
  what happens. Event elements are parsed and written.
* Logging, `utils.c`, help texts: output and string helpers without state.
* The tester's dialogue of manual steps: its verdict is an input of `TestRun`.
* Files that are not well-formed XML: `main()` has validated the file before it is read. Values of
  attributes and result strings in the report: the paths of elements are compared.
* Several pid files on the target at once; retries on `EAGAIN` in the libssh2 executor.
* The parsing of filter strings, log lines and names of crash reports; a line of the upload
  log that is longer than the buffer, which loses the end of its URL.

## 6. Plan

1. *(done)* `StepExecutor`, `CrashUpload`, `Lssh2` and `Main` with their proofs; `TestRun`
   and `SetVerdicts`; `TestDefinition` with `ResultLogger`, `TestFilters` and
   `DefinitionFile`; `Measurements`.
2. *(done)* Proofs about `TestRun`: the invariants and the refinement of `SetVerdicts`.
3. *(done)* `LimitsDecide` and `EveryValueIsReported` of `Measurements`, with the lemmas
   about folds.
4. *(done)* `TypeOK`, `MemoryIsThere`, `NestingIsValid` and `OnlyMarkedFilesAreRemoved` of
   `TestDefinition`.
5. `ReportIsComplete`: what the writer writes of a set, related to `Asked`; with `ReaderInv`
   that is an invariant over the sets written so far.
