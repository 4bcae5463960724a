------------------------------ MODULE MCTestRun ------------------------------
(***************************************************************************)
(* Test definitions for model-checking TestRun.  A manual case without     *)
(* steps is given as pre_manual() leaves it, with its one pseudo step.     *)
(***************************************************************************)
EXTENDS TestRun

Command(checked) == [kind |-> "command", expected |-> 0, checked |-> checked]
Make(kind) == [kind |-> kind, expected |-> 0, checked |-> TRUE]

EmptySet ==
  [excluded |-> FALSE, pre |-> <<>>, case |-> <<>>, reboot |-> <<>>,
   post |-> <<>>, state |-> <<>>, measured |-> {}, cleaned |-> {}]

OneCase ==
  [EmptySet EXCEPT !.case = <<<<Command(TRUE)>>>>, !.state = <<"run">>]

\* Pre steps, cases with a sequel, post steps, get files; then a set more.
Ordinary ==
  <<[EmptySet EXCEPT !.pre = <<<<Command(TRUE), Command(FALSE)>>>>,
                     !.case = <<<<Command(TRUE), Command(TRUE)>>, <<Command(TRUE)>>>>,
                     !.state = <<"run", "run">>,
                     !.post = <<<<Command(FALSE)>>>>,
                     !.measured = {1}, !.cleaned = {0, 1}],
    OneCase>>

\* Everything that is not run, and what the tester judges.
Skipped ==
  <<[OneCase EXCEPT !.excluded = TRUE],
    [EmptySet EXCEPT !.case = <<<<Command(TRUE)>>, <<Command(TRUE)>>, <<>>,
                                <<Make("manual"), Make("manual")>>>>,
                     !.state = <<"filtered", "design", "run", "run">>,
                     !.post = <<<<Make("manual"), Command(FALSE)>>>>]>>

\* Forced and expected reboots with post reboot steps, and a set more.
Reboots ==
  <<[EmptySet EXCEPT !.case = <<<<Make("reboot"), Command(TRUE)>>,
                                <<Make("expected_reboot")>>>>,
                     !.state = <<"run", "run">>,
                     !.reboot = <<<<Command(TRUE)>>>>],
    OneCase>>

\* Reboots in the steps around the cases and in the post reboot steps.
Nested ==
  <<[EmptySet EXCEPT !.pre = <<<<Make("expected_reboot")>>>>,
                     !.case = <<<<Make("expected_reboot")>>, <<Command(TRUE)>>>>,
                     !.state = <<"run", "run">>,
                     !.reboot = <<<<Make("manual"), Make("expected_reboot")>>>>,
                     !.post = <<<<Make("reboot"), Make("expected_reboot")>>>>]>>

\* A reboot without post reboot steps, two pre_steps elements.
TwoBlocks ==
  <<[EmptySet EXCEPT !.pre = <<<<Command(TRUE)>>, <<Command(TRUE)>>>>,
                     !.case = <<<<Make("reboot")>>, <<Make("expected_reboot")>>>>,
                     !.state = <<"run", "run">>]>>

\* Steps without a command wherever a step may be; for the built-in executor.
Empty ==
  <<[EmptySet EXCEPT !.pre = <<<<Make("empty")>>>>,
                     !.case = <<<<Make("empty"), Command(TRUE)>>,
                                <<Make("expected_reboot"), Make("empty")>>>>,
                     !.state = <<"run", "run">>,
                     !.reboot = <<<<Make("empty")>>>>,
                     !.post = <<<<Command(TRUE)>>>>],
    OneCase>>

RebootPlan   == {Reboots}
AllPlans     == {Ordinary, Skipped, Reboots, Nested, TwoBlocks, Empty}
BuiltinPlan  == {Empty}
NoPlan       == {}
=============================================================================
