------------------------------- MODULE TestRun -------------------------------
(***************************************************************************)
(* The test definition processor of testrunner-lite                        *)
(* (testdefinitionprocessor.c) with the waits of executor.c it calls:      *)
(* process_set() walks the pre steps, the cases, the post steps and the    *)
(* get files of one set after the other; step_execute() runs one step and  *)
(* judges it; a lost link or an interrupt makes the run bail out, and the  *)
(* conductor (the parent process) may resume it or confirm a reboot with   *)
(* SIGUSR1.                                                                *)
(*                                                                         *)
(* xmlListWalk() is the cursor <<list, block, step>>: list is the list of  *)
(* the set that is walked, block the element of it (a case, or one         *)
(* pre_steps element), step the step in it; a walk that a step ends early  *)
(* moves behind the last step.  execute() is the outcome that StepExecutor *)
(* describes in detail.                                                    *)
(***************************************************************************)
EXTENDS Naturals, Sequences, FiniteSets

CONSTANTS
  Plans,         (* the test definitions to run: sequences of sets          *)
  Builtin,       (* those run with the built-in ssh executor (Lssh2)        *)
  Remote,        (* host-based run: a step may lose the link                *)
  ResumeAction,  (* --resume: "none", "exit" or "continue"                  *)
  Codes          (* results a command may return                            *)

Lists    == {"pre", "case", "reboot", "post"}
Kinds    == {"command", "empty", "manual", "reboot", "expected_reboot"}
Verdicts == {"PASS", "FAIL", "N/A"}

(* A step, "empty" without a command; checked is has_expected_result.       *)
Step == [kind : Kinds, expected : Nat, checked : BOOLEAN]

(* A set: excluded stands for the filter, the hardware and the environment  *)
(* test; state for the filters and the design state of each case; measured  *)
(* are the cases with a measurement file among their gets, and cleaned the  *)
(* cases (0: the set) with a get file that is deleted on the target.        *)
TestSet ==
  [excluded : BOOLEAN,
   pre : Seq(Seq(Step)), case : Seq(Seq(Step)),
   reboot : Seq(Seq(Step)), post : Seq(Seq(Step)),
   state : Seq({"run", "filtered", "design"}),
   measured : SUBSET Nat, cleaned : SUBSET Nat]

ASSUME TestRunAssumption ==
  /\ \A p \in Plans : p \in Seq(TestSet)
  /\ \A p \in Plans : \A s \in DOMAIN p : Len(p[s].state) = Len(p[s].case)
  /\ Builtin \subseteq Plans
  /\ Remote \in BOOLEAN
  /\ ResumeAction \in {"none", "exit", "continue"}
  /\ Codes \subseteq 0..255

REMOTE_FAIL == 2                        \* TESTRUNNER_LITE_REMOTE_FAIL
Interrupted == {255 + 2, 255 + 15}      \* 255 + SIGINT, 255 + SIGTERM

VARIABLES
  (* Where the run is: the plan, the set, the case, the walk; outer is the  *)
  (* case step whose post_reboot_steps are being walked.                    *)
  plan, pc, set, case, cursor, outer,
  (* Results of the current set: case_res, filtered, the dummy case's       *)
  (* case_res, has_result/fail/return_code of each step, the exec_data of   *)
  (* the step that is executed in each list.                                *)
  verdict, filtered, dummy, res, edata,
  (* Globals: bail_out, resume_testrun_count, the counters.                 *)
  bail_out, resumed, casecount, passcount, failcount,
  (* Steps whose pgid and start are recorded, and steps whose process group *)
  (* still has processes in it.                                             *)
  recorded, left,
  (* Observation only: how each step really went, cases with a bad          *)
  (* measurement, was the case begun while bailing out, the case that lost  *)
  (* the link, the set the run was resumed in, was the conductor told, the  *)
  (* verdicts written, and was the user's interrupt recorded.               *)
  went, unmeasured, tainted, lostAt, resumedIn, told, report,
  interrupted

position == <<plan, pc, set, case, cursor, outer>>
results  == <<verdict, filtered, dummy, res, edata>>
counters == <<casecount, passcount, failcount>>
groups   == <<recorded, left>>
observed == <<went, unmeasured, tainted, lostAt, resumedIn, told, report>>
history  == <<observed, interrupted>>
vars     == <<position, results, bail_out, resumed, counters, groups, history>>

-----------------------------------------------------------------------------
(* The walk.                                                                *)

Current == plan[set]
Block   == Current[cursor.list][cursor.block]
Atomic  == Block[cursor.step]          \* the step at the cursor

At(list, block, step) == [list |-> list, block |-> block, step |-> step]

Places(list) ==
  UNION {{At(list, b, i) : i \in DOMAIN Current[list][b]} :
           b \in DOMAIN Current[list]}
AllPlaces == UNION {Places(list) : list \in Lists}
StepAt(a) == Current[a.list][a.block][a.step]

Walking  == pc = "walk" /\ cursor.step <= Len(Block)
WalkDone == pc = "walk" /\ cursor.step > Len(Block)
InDummy  == cursor.list # "case"

\* The walker's return value: 0 ends the walk of this block.
Walk(on) ==
  cursor' = [cursor EXCEPT !.step = IF on THEN @ + 1 ELSE Len(Block) + 1]

\* Enter a list at its first block, with a fresh dummy case.
EnterList(list) ==
  /\ pc' = "walk"
  /\ cursor' = At(list, 1, 1)
  /\ dummy' = "PASS"

\* out: of step_execute() with res = v, in the case or the dummy case.
Judge(v) ==
  IF v = "PASS" THEN UNCHANGED <<verdict, dummy>>
  ELSE IF InDummy THEN dummy' = v /\ UNCHANGED verdict
  ELSE verdict' = [verdict EXCEPT ![cursor.block] = v] /\ UNCHANGED dummy

Mark(a, w) == went' = [went EXCEPT ![a] = w]
Well(w) == w \in {"good", "unrun"}

-----------------------------------------------------------------------------
(* Signals, and the parent of testrunner-lite.                              *)

RecordInterrupt(sig) ==
  bail_out' = IF bail_out = 0 THEN 255 + sig ELSE bail_out

\* handle_sigint(), handle_sigterm(); both end a sigsuspend().
Interrupt(sig) ==
  /\ RecordInterrupt(sig)
  /\ interrupted' = (interrupted \/ bail_out = 0)
  /\ pc' = CASE pc = "rebooting" -> "rebooted"
             [] pc = "suspended" -> "post"
             [] OTHER -> pc
  /\ UNCHANGED <<plan, set, case, cursor, outer, results, resumed, counters,
                 groups, observed>>

\* SIGUSR1 ends wait_for_reboot() (handle_reboot).
ConfirmReboot ==
  /\ pc = "rebooting" /\ pc' = "rebooted"
  /\ UNCHANGED <<plan, set, case, cursor, outer, results, bail_out, resumed,
                 counters, groups, history>>

\* SIGUSR1 ends wait_for_resume_execution() (handle_resume_testrun).
ResumeRun ==
  /\ pc = "suspended" /\ told /\ pc' = "post"
  /\ resumed' = resumed + 1
  /\ bail_out' = IF bail_out = REMOTE_FAIL THEN 0 ELSE bail_out
  /\ resumedIn' = set
  /\ UNCHANGED <<plan, set, case, cursor, outer, results, counters, groups,
                 went, unmeasured, tainted, lostAt, told, report,
                 interrupted>>

-----------------------------------------------------------------------------
(* step_execute()                                                           *)

BailingOutOnInterrupt == bail_out \in Interrupted
BailingOut == bail_out # 0

BailOutAfter == IF Atomic.kind = "reboot" THEN REMOTE_FAIL ELSE bail_out

\* The run is bailing out: the step gets a result without being run.
BailOutStep ==
  /\ Walking /\ BailingOut
  /\ bail_out' = BailOutAfter
  /\ res' = [res EXCEPT ![cursor].has_result = TRUE, ![cursor].code = bail_out']
  /\ Judge("FAIL")
  /\ Walk(TRUE)
  /\ UNCHANGED <<plan, pc, set, case, outer, filtered, edata, resumed,
                 counters, groups, history>>

\* A step without a command is neither run nor judged.
EmptyStep ==
  /\ Walking /\ ~BailingOut /\ Atomic.kind = "empty"
  /\ Judge("PASS")
  /\ Mark(cursor, "unrun")
  /\ Walk(TRUE)
  /\ UNCHANGED <<plan, pc, set, case, outer, filtered, res, edata, bail_out,
                 resumed, counters, groups, unmeasured, tainted, lostAt,
                 resumedIn, told, report, interrupted>>

\* execute_manual(): a step the tester does not judge has no result.
ManualStep(v) ==
  /\ Walking /\ ~BailingOut /\ Atomic.kind = "manual"
  /\ IF InDummy
     THEN UNCHANGED <<verdict, dummy, res>> /\ Mark(cursor, "unrun") /\ Walk(TRUE)
     ELSE /\ res' = [res EXCEPT
                ![cursor].has_result = (v # "N/A"),
                ![cursor].code = CASE v = "PASS" -> Atomic.expected
                                   [] v = "FAIL" -> IF Atomic.expected = 0
                                                    THEN 1 ELSE 0
                                   [] OTHER -> @]
          /\ Judge(v)
          /\ Mark(cursor, IF v = "PASS" THEN "good" ELSE "bad")
          /\ Walk(v = "PASS")
  /\ UNCHANGED <<plan, pc, set, case, outer, filtered, edata, bail_out, resumed,
                 counters, groups, unmeasured, tainted, lostAt, resumedIn,
                 told, report, interrupted>>

\* execute() is called, or wait_for_reboot() for a step that forces a reboot.
BeginStep ==
  /\ Walking /\ ~BailingOut /\ Atomic.kind \notin {"manual", "empty"}
  /\ pc' = IF Atomic.kind = "reboot" THEN "rebooting" ELSE "exec"
  /\ UNCHANGED <<plan, set, case, cursor, outer, results, bail_out, resumed,
                 counters, groups, history>>

\* What execute() hands back: a timed out step leaves no process behind.  The
\* link is asked for when an external executor exits with 255 or 65 to 79; the
\* built-in one, which has no processes on the host, leaves a result of 0 when
\* it fails, and execute() is not asked whether it did.
LinkCodes == {255} \cup 65..79
Outcomes ==
  {o \in [code : Codes, signaled : BOOLEAN, lost : BOOLEAN, alive : BOOLEAN] :
     /\ o.signaled => ~o.alive
     /\ o.lost => Remote /\ o.code \in LinkCodes \cup {0}}
Returns ==
  {o \in Outcomes :
     IF plan \in Builtin THEN ~o.alive /\ (o.lost => o.code = 0)
     ELSE o.lost => o.code \in LinkCodes}
NoOutcome == [code |-> 0, signaled |-> FALSE, lost |-> FALSE, alive |-> FALSE]

\* Pre and post steps fail only if an expected result is given; the result of
\* a step that was terminated on its timeout is not trusted.
FailedOnResult(o, code) == code # Atomic.expected
Failed(o, code) == o.signaled \/ code # Atomic.expected
Ignored == InDummy /\ ~Atomic.checked

Went(o, code) ==
  IF Ignored \/ (~o.signaled /\ code = Atomic.expected) THEN "good" ELSE "bad"

\* Of a command that the built-in executor gave up nothing is known.
CommandWent(o) ==
  IF Went(o, o.code) = "good" /\ o.lost /\ o.code = 0 THEN "unrun"
  ELSE Went(o, o.code)

\* The tail of step_execute(), from the recording of exec_data to out:
Conclude(o, code) ==
  LET bad == ~Ignored /\ Failed(o, code) IN
  /\ recorded' = recorded \cup {cursor}
  /\ res' = [res EXCEPT ![cursor] =
               [has_result |-> TRUE, code |-> code,
                fail |-> @.fail \/ (~Ignored /\ o.signaled)]]
  /\ Judge(IF bad THEN "FAIL" ELSE "PASS")
  /\ Walk(~bad)

\* execute() returns with the link up, or lost by an ordinary step.
CommandEnds(o) ==
  /\ pc = "exec" /\ Atomic.kind = "command"
  /\ bail_out' = IF o.lost THEN REMOTE_FAIL ELSE bail_out
  /\ lostAt' = IF o.lost /\ cursor.list = "case" THEN cursor.block ELSE lostAt
  /\ left' = IF o.alive THEN left \cup {cursor} ELSE left
  /\ Conclude(o, o.code)
  /\ Mark(cursor, CommandWent(o))
  /\ pc' = "walk"
  /\ UNCHANGED <<plan, set, case, outer, filtered, edata, resumed, counters,
                 unmeasured, tainted, resumedIn, told, report, interrupted>>

\* The link is lost, as the step expects: wait_for_reboot() takes bail_out
\* back and tells the conductor.
ExpectedRebootBegins(o) ==
  /\ pc = "exec" /\ Atomic.kind = "expected_reboot" /\ o.lost
  /\ pc' = "rebooting"
  /\ bail_out' = 0
  /\ left' = IF o.alive THEN left \cup {cursor} ELSE left
  /\ edata' = [edata EXCEPT ![cursor.list] = o]
  /\ UNCHANGED <<plan, set, case, cursor, outer, verdict, filtered, dummy, res,
                 resumed, counters, recorded, went, unmeasured, tainted, lostAt,
                 resumedIn, told, report, interrupted>>

\* The device did not reboot.
ExpectedRebootMissed(o) ==
  /\ pc = "exec" /\ Atomic.kind = "expected_reboot" /\ ~o.lost
  /\ left' = IF o.alive THEN left \cup {cursor} ELSE left
  /\ res' = [res EXCEPT ![cursor].has_result = TRUE,
                        ![cursor].code = Atomic.expected + 1]
  /\ Judge("FAIL")
  /\ Mark(cursor, "bad")
  /\ Walk(FALSE)
  /\ pc' = "walk"
  /\ UNCHANGED <<plan, set, case, outer, filtered, edata, bail_out, resumed,
                 counters, recorded, unmeasured, tainted, lostAt, resumedIn,
                 told, report, interrupted>>

\* Only an interrupt ends wait_for_reboot() with bail_out set.
RebootFails ==
  /\ pc = "rebooted" /\ bail_out # 0
  /\ bail_out' = REMOTE_FAIL
  /\ res' = [res EXCEPT ![cursor].has_result = TRUE,
                        ![cursor].code = REMOTE_FAIL]
  /\ Judge("FAIL")
  /\ Mark(cursor, "bad")
  /\ Walk(TRUE)
  /\ pc' = "walk"
  /\ UNCHANGED <<plan, set, case, outer, filtered, edata, resumed, counters,
                 groups, unmeasured, tainted, lostAt, resumedIn, told,
                 report, interrupted>>

PostRebootSteps == cursor.list = "case" /\ Len(Current.reboot) > 0

\* A forced reboot leaves return_code alone; after an expected one the result
\* is the expected one, but a timeout still counts.
RebootSucceeds ==
  IF Atomic.kind = "reboot"
  THEN /\ res' = [res EXCEPT ![cursor].has_result = TRUE]
       /\ Walk(TRUE)
       /\ UNCHANGED <<verdict, dummy, recorded>>
  ELSE Conclude(edata[cursor.list], Atomic.expected)

RebootWent ==
  IF Atomic.kind = "reboot" THEN "good"
  ELSE Went(edata[cursor.list], Atomic.expected)

Rebooted ==
  /\ pc = "rebooted" /\ bail_out = 0 /\ ~PostRebootSteps
  /\ RebootSucceeds
  /\ Mark(cursor, RebootWent)
  /\ pc' = "walk"
  /\ UNCHANGED <<plan, set, case, outer, filtered, edata, bail_out, resumed,
                 counters, left, unmeasured, tainted, lostAt, resumedIn,
                 told, report, interrupted>>

BeginPostRebootSteps ==
  /\ pc = "rebooted" /\ bail_out = 0 /\ PostRebootSteps
  /\ outer' = cursor
  /\ EnterList("reboot")
  /\ went' = [a \in AllPlaces |-> IF a.list = "reboot" THEN "none" ELSE went[a]]
  /\ UNCHANGED <<plan, set, case, verdict, filtered, res, edata, bail_out,
                 resumed, counters, groups, unmeasured, tainted, lostAt,
                 resumedIn, told, report, interrupted>>

\* Back in the step that caused the reboot.
PostRebootStepsDone ==
  /\ WalkDone /\ cursor.list = "reboot"
  /\ cursor.block = Len(Current.reboot)
  /\ cursor' = outer
  /\ pc' = "judge"
  /\ UNCHANGED <<plan, set, case, outer, results, bail_out, resumed, counters,
                 groups, history>>

RebootStepsWent ==
  IF \E a \in Places("reboot") : ~Well(went[a]) THEN "bad" ELSE RebootWent

JudgeReboot ==
  /\ pc = "judge"
  /\ IF dummy = "PASS" THEN RebootSucceeds
     ELSE /\ res' = [res EXCEPT ![cursor].has_result = TRUE,
                                ![cursor].code = Atomic.expected + 1]
          /\ Judge("FAIL")
          /\ Walk(FALSE)
          /\ UNCHANGED recorded
  /\ Mark(cursor, RebootStepsWent)
  /\ pc' = "walk"
  /\ UNCHANGED <<plan, set, case, outer, filtered, edata, bail_out, resumed,
                 counters, left, unmeasured, tainted, lostAt, resumedIn,
                 told, report, interrupted>>

-----------------------------------------------------------------------------
(* process_set()                                                            *)

NoResult == [has_result |-> FALSE, fail |-> FALSE, code |-> 0]
PlacesOf(s) ==
  UNION {UNION {{At(l, b, i) : i \in DOMAIN s[l][b]} : b \in DOMAIN s[l]} :
           l \in Lists}

ExcludeSet ==
  /\ pc = "set" /\ set <= Len(plan) /\ Current.excluded
  /\ set' = set + 1
  /\ UNCHANGED <<plan, pc, case, cursor, outer, results, bail_out, resumed,
                 counters, groups, history>>

\* The parser has just allocated the set, its cases and its steps.
EnterSet ==
  /\ pc = "set" /\ set <= Len(plan) /\ ~Current.excluded
  /\ verdict' = [j \in DOMAIN Current.case |-> "FAIL"]
  /\ res' = [a \in PlacesOf(Current) |-> NoResult]
  /\ filtered' = {} /\ recorded' = {} /\ left' = {}
  /\ case' = 1
  /\ IF Len(Current.pre) > 0 THEN EnterList("pre")
     ELSE pc' = "case" /\ UNCHANGED <<cursor, dummy>>
  /\ went' = [a \in PlacesOf(Current) |-> "none"]
  /\ unmeasured' = {} /\ tainted' = FALSE /\ lostAt' = 0
  /\ UNCHANGED <<plan, set, outer, edata, bail_out, resumed, counters,
                 resumedIn, told, report, interrupted>>

\* prepost_steps_execute() returns 1 whatever its steps did.
DummyClearedByBlock == "PASS"
DummyAfterBlock == dummy

NextBlock ==
  /\ WalkDone /\ InDummy
  /\ cursor.block < Len(Current[cursor.list])
  /\ cursor' = At(cursor.list, cursor.block + 1, 1)
  /\ dummy' = DummyAfterBlock
  /\ UNCHANGED <<plan, pc, set, case, outer, verdict, filtered, res, edata,
                 bail_out, resumed, counters, groups, history>>

LastBlockDone(list) ==
  WalkDone /\ cursor.list = list /\ cursor.block = Len(Current[list])

PreStepsPass ==
  /\ LastBlockDone("pre") /\ dummy = "PASS"
  /\ pc' = "case"
  /\ UNCHANGED <<plan, set, case, cursor, outer, results, bail_out, resumed,
                 counters, groups, history>>

\* case_result_fail() and step_result_fail() for every case and step.
AbortSet ==
  /\ LastBlockDone("pre") /\ dummy # "PASS"
  /\ pc' = "write"
  /\ verdict' = [j \in DOMAIN verdict |-> "FAIL"]
  /\ res' = [a \in DOMAIN res |->
               IF a.list = "case"
               THEN [res[a] EXCEPT !.has_result = TRUE, !.fail = TRUE]
               ELSE res[a]]
  /\ UNCHANGED <<plan, set, case, cursor, outer, filtered, dummy, edata,
                 bail_out, resumed, counters, groups, history>>

-----------------------------------------------------------------------------
(* process_case()                                                           *)

MoreCases == pc = "case" /\ case <= Len(Current.case)

SkipCase ==
  /\ MoreCases /\ Current.state[case] # "run"
  /\ IF Current.state[case] = "filtered"
     THEN filtered' = filtered \cup {case} /\ UNCHANGED verdict
     ELSE verdict' = [verdict EXCEPT ![case] = "N/A"] /\ UNCHANGED filtered
  /\ case' = case + 1
  /\ UNCHANGED <<plan, pc, set, cursor, outer, dummy, res, edata, bail_out,
                 resumed, counters, groups, history>>

BeginCase ==
  /\ MoreCases /\ Current.state[case] = "run"
  /\ casecount' = casecount + 1
  /\ verdict' = [verdict EXCEPT ![case] =
                   IF Current.case[case] = <<>> THEN "N/A" ELSE "PASS"]
  /\ cursor' = At("case", case, 1)
  /\ pc' = "walk"
  /\ tainted' = (bail_out # 0)
  /\ UNCHANGED <<plan, set, case, outer, filtered, dummy, res, edata, bail_out,
                 resumed, passcount, failcount, groups, went, unmeasured,
                 lostAt, resumedIn, told, report, interrupted>>

SweepNothing(places) == left
Sweep(places) == left \ (recorded \cap places)

\* step_post_process() for every step of the case.
CaseWalked ==
  /\ WalkDone /\ cursor.list = "case"
  /\ left' = Sweep({a \in recorded : a.list = "case" /\ a.block = case})
  /\ pc' = "case_gets"
  /\ UNCHANGED <<plan, set, case, cursor, outer, results, bail_out, resumed,
                 counters, recorded, history>>

\* process_get(): the copy runs on the host, the deletion on the target.
GetsOf(c) ==
  /\ bail_out' \in {bail_out} \cup
       {f \in {REMOTE_FAIL} : bail_out = 0 /\ Remote /\ c \in Current.cleaned}

MeasurementsOf(c) ==
  IF bail_out' # 0 \/ c \notin Current.measured \/ verdict[c] # "PASS"
  THEN UNCHANGED <<verdict, unmeasured>>
  ELSE \/ UNCHANGED <<verdict, unmeasured>>
       \/ /\ verdict' = [verdict EXCEPT ![c] = "FAIL"]
          /\ unmeasured' = unmeasured \cup {c}

CountedBeforeGets == verdict[case]
Counted == verdict'[case]

\* process_get_case() for the gets of the case, then the counters.
CaseEnds ==
  /\ pc = "case_gets" /\ pc' = "case"
  /\ GetsOf(case)
  /\ MeasurementsOf(case)
  /\ lostAt' = IF bail_out' # bail_out THEN case ELSE lostAt
  /\ passcount' = passcount + (IF Counted = "PASS" THEN 1 ELSE 0)
  /\ failcount' = failcount + (IF Counted = "FAIL" THEN 1 ELSE 0)
  /\ case' = case + 1
  /\ UNCHANGED <<plan, set, cursor, outer, filtered, dummy, res, edata,
                 resumed, casecount, groups, went, tainted, resumedIn, told,
                 report, interrupted>>

-----------------------------------------------------------------------------
(* process_set(), after the cases.                                          *)

ResumeAlways == bail_out = REMOTE_FAIL
MayResume == bail_out = REMOTE_FAIL /\ resumed = 0

TellNobody == told
TellParent == told \/ pc' = "suspended"

\* wait_for_resume_execution() signals the parent and suspends.
CasesDone ==
  /\ pc = "case" /\ case > Len(Current.case)
  /\ pc' = IF ResumeAction # "none" /\ MayResume THEN "suspended" ELSE "post"
  /\ told' = TellParent
  /\ UNCHANGED <<plan, set, case, cursor, outer, results, bail_out, resumed,
                 counters, groups, went, unmeasured, tainted, lostAt, resumedIn,
                 report, interrupted>>

PostSteps ==
  /\ pc = "post"
  /\ IF Len(Current.post) > 0 THEN EnterList("post")
     ELSE pc' = "gets" /\ UNCHANGED <<cursor, dummy>>
  /\ UNCHANGED <<plan, set, case, outer, verdict, filtered, res, edata,
                 bail_out, resumed, counters, groups, history>>

PostStepsDone ==
  /\ LastBlockDone("post")
  /\ pc' = "gets"
  /\ UNCHANGED <<plan, set, case, cursor, outer, results, bail_out, resumed,
                 counters, groups, history>>

\* process_get() for the files of the set.
SetGets ==
  /\ pc = "gets" /\ pc' = "restore"
  /\ GetsOf(0)
  /\ UNCHANGED <<plan, set, case, cursor, outer, results, resumed, counters,
                 groups, went, unmeasured, tainted, lostAt, resumedIn, told,
                 report, interrupted>>

\* restore_bail_out_after_resume_execution(), for --resume=exit.
RestoredForgotten == bail_out
Restored ==
  IF ResumeAction = "exit" /\ resumed > 0 /\ bail_out = 0
  THEN REMOTE_FAIL ELSE bail_out

RestoreBailOut ==
  /\ pc = "restore" /\ pc' = "write"
  /\ bail_out' = Restored
  /\ UNCHANGED <<plan, set, case, cursor, outer, results, resumed, counters,
                 groups, history>>

\* write_post_set(), then step_post_process() for the first pre_steps and the
\* first post_steps element.
WriteSet ==
  /\ pc = "write" /\ pc' = "set"
  /\ report' = Append(report, [j \in DOMAIN verdict \ filtered |-> verdict[j]])
  /\ left' = Sweep({a \in recorded : a.list \in {"pre", "post"} /\ a.block = 1})
  /\ set' = set + 1
  /\ UNCHANGED <<plan, case, cursor, outer, results, bail_out, resumed,
                 counters, recorded, went, unmeasured, tainted, lostAt,
                 resumedIn, told, interrupted>>

EndRun ==
  /\ pc = "set" /\ set > Len(plan)
  /\ pc' = "end"
  /\ UNCHANGED <<plan, set, case, cursor, outer, results, bail_out, resumed,
                 counters, groups, history>>

-----------------------------------------------------------------------------
Init ==
  /\ plan \in Plans
  /\ pc = "set" /\ set = 1 /\ case = 1
  /\ cursor = At("pre", 1, 1) /\ outer = At("case", 1, 1)
  /\ verdict = <<>> /\ filtered = {} /\ dummy = "PASS" /\ res = <<>>
  /\ edata = [l \in Lists |-> NoOutcome]
  /\ bail_out = 0 /\ resumed = 0
  /\ casecount = 0 /\ passcount = 0 /\ failcount = 0
  /\ recorded = {} /\ left = {}
  /\ went = <<>> /\ unmeasured = {} /\ tainted = FALSE
  /\ lostAt = 0 /\ resumedIn = 0
  /\ told = FALSE /\ report = <<>>
  /\ interrupted = FALSE

StepActions ==
  \/ BailOutStep
  \/ EmptyStep
  \/ \E v \in Verdicts : ManualStep(v)
  \/ BeginStep
  \/ \E o \in Returns : CommandEnds(o)
  \/ \E o \in Returns : ExpectedRebootBegins(o)
  \/ \E o \in Returns : ExpectedRebootMissed(o)
  \/ RebootFails
  \/ Rebooted
  \/ BeginPostRebootSteps
  \/ PostRebootStepsDone
  \/ JudgeReboot

SetActions ==
  \/ ExcludeSet
  \/ EnterSet
  \/ NextBlock
  \/ PreStepsPass
  \/ AbortSet
  \/ SkipCase
  \/ BeginCase
  \/ CaseWalked
  \/ CaseEnds
  \/ CasesDone
  \/ PostSteps
  \/ PostStepsDone
  \/ SetGets
  \/ RestoreBailOut
  \/ WriteSet
  \/ EndRun

Runner    == StepActions \/ SetActions
Conductor == ConfirmReboot \/ ResumeRun
Next      == Runner \/ Conductor \/ Interrupt(2) \/ Interrupt(15)

\* The run goes on, every step it executes ends (StepExecutor), and the
\* conductor answers a runner that waits for it.
Fairness == WF_vars(Runner) /\ WF_vars(Conductor)

Spec == Init /\ [][Next]_vars /\ Fairness

-----------------------------------------------------------------------------
(* The promise of SetVerdicts, kept by the processor.                       *)

InSet == pc \notin {"set", "end"}
CaseOpen ==
  /\ pc \in {"walk", "exec", "rebooting", "rebooted", "judge", "case_gets"}
  /\ cursor.list \in {"case", "reboot"}
DecidedCases == IF pc = "write" THEN Len(verdict) ELSE case - 1

Promise == INSTANCE SetVerdicts WITH
  size    <- IF InSet THEN Len(Current.case) ELSE 0,
  decided <- IF InSet
             THEN [j \in 1..DecidedCases |->
                    IF j \in filtered THEN "filtered" ELSE verdict[j]]
             ELSE <<>>,
  open    <- IF ~CaseOpen THEN "no" ELSE IF tainted THEN "tainted" ELSE "clean",
  broken  <- bail_out # 0,
  mended  <- resumed > 0

-----------------------------------------------------------------------------
(* Properties.                                                              *)

PC == {"set", "walk", "exec", "rebooting", "rebooted", "judge", "case",
       "case_gets", "suspended", "post", "gets", "restore", "write", "end"}

\* Types of the variables of the processor.
TypeOK ==
  /\ plan \in Plans /\ pc \in PC
  /\ set \in 1..Len(plan) + 1 /\ case \in Nat
  /\ {cursor.list, outer.list} \subseteq Lists
  /\ dummy \in {"PASS", "FAIL"}
  /\ \A j \in DOMAIN verdict : verdict[j] \in Verdicts
  /\ filtered \subseteq DOMAIN verdict
  /\ edata \in [Lists -> Outcomes \cup {NoOutcome}]
  /\ bail_out \in {0, REMOTE_FAIL} \cup Interrupted
  /\ resumed \in 0..1
  /\ {casecount, passcount, failcount} \subseteq Nat
  /\ left \cup recorded \subseteq DOMAIN res
  /\ {tainted, told, interrupted} \subseteq BOOLEAN

\* Cases of the current set that process_case() has finished.
Finished ==
  IF pc \in {"set", "end"} THEN {} ELSE {j \in DOMAIN verdict : j < case}
StepsOf(j) == {a \in DOMAIN res : a.list = "case" /\ a.block = j}

\* A case is PASS exactly if it has steps, the run got to every one of them,
\* none went otherwise than expected, reboots and post reboot steps included,
\* and no measurement failed it: neither an interrupt nor a lost link nor a
\* resume earns a PASS.  Two kinds of steps count as passed without having been
\* run: one without a command, and one that expects 0 and that the built-in
\* executor gave up.  The first step of a case that does not go well ends it:
\* what comes after it is not run.
PassIsEarned ==
  \A j \in Finished :
    Current.state[j] = "run" =>
      (verdict[j] = "PASS" <=> /\ StepsOf(j) # {}
                               /\ \A a \in StepsOf(j) : Well(went[a])
                               /\ j \notin unmeasured)
FailureEndsCase ==
  \A a, b \in DOMAIN went :
    a.list = "case" /\ b.list = "case" /\ a.block = b.block /\ a.step < b.step
      /\ went[b] # "none" => Well(went[a])
VerdictIsEarned == PassIsEarned /\ FailureEndsCase

\* After the link was lost in a case, the remaining cases of the set are not
\* run, resumed or not.
LostLinkSkipsRest ==
  lostAt # 0 =>
    \A a \in DOMAIN went :
      a.list = "case" /\ a.block > lostAt => went[a] = "none"

\* With --resume=exit a resumed run finishes the set it was resumed in and
\* runs no step of a later set.
ExitRunsNoFurtherSet ==
  ResumeAction = "exit" /\ resumedIn # 0 /\ set > resumedIn /\ InSet =>
    \A a \in DOMAIN went : went[a] = "none"

\* No case and no post step of a set is run if one of its pre steps failed.
FailedPreStepAbortsSet ==
  (\E a \in DOMAIN went : a.list = "pre" /\ went[a] = "bad") =>
    \A a \in DOMAIN went : a.list \in {"case", "post"} => went[a] = "none"

\* No process group that a step of a finished case's own list was started in
\* is left running on the host, except after a reboot that was expected.  Only
\* the steps of the case are walked for that: what the post reboot steps it ran
\* have started is never killed, and this says nothing of it.
CaseStepsSwept ==
  \A a \in left :
    a.list = "case" /\ a.block \in Finished =>
      StepAt(a).kind = "expected_reboot"

Passes(verdicts) == {j \in DOMAIN verdicts : verdicts[j] = "PASS"}

\* The number of passed cases the log ends with is the number of cases that
\* are PASS in the results.
PassesAreCounted ==
  pc = "end" =>
    passcount = Cardinality(UNION {{<<s, j>> : j \in Passes(report[s])} :
                                     s \in DOMAIN report})

\* The verdicts are given as SetVerdicts promises: in order, once, no PASS for
\* a case begun while bailing out, one resume and only after the last case.
PromiseIsKept == Promise!Spec

\* Every run comes to its end.
RunEnds == <>(pc = "end")

\* A run that ends as a successful one was not interrupted by the user.
InterruptIsNotForgotten == pc = "end" /\ bail_out = 0 => ~interrupted

=============================================================================
