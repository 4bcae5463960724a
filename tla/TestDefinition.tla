--------------------------- MODULE TestDefinition ---------------------------
(***************************************************************************)
(* Reading a test definition and writing its results: the parser           *)
(* (testdefinitionparser.c), which builds suites and sets node by node and *)
(* hands each to the processor as soon as it is complete, the callbacks    *)
(* of the processor (testdefinitionprocessor.c, td_process() and below),   *)
(* the data they share (testdefinitiondatatypes.c) and the result logger.  *)
(* How the steps of a set are run is the subject of TestRun.               *)
(*                                                                         *)
(* A step of the model is one node of the reader.  fn is the call stack of *)
(* the parser, from the loop of td_process() down.                         *)
(***************************************************************************)
EXTENDS ResultLogger, TestFilters, DefinitionFile, FiniteSets

CONSTANTS
  Documents,    (* the test definition files, see DefinitionFile            *)
  Options       (* the command lines: filters, environment, run_manual,     *)
                (* run_automatic, text, vcsurl                              *)

\* main() has had the file validated before it is read.
TestDefinitionAssumption ==
  /\ \A d \in Documents : IsDocument(d)
  /\ \A o \in Options :
       /\ {o.text, o.vcsurl, o.run_manual, o.run_automatic} \subseteq BOOLEAN
       /\ o.filters \in Seq([key : STRING, exclude : BOOLEAN, values : SUBSET STRING])
ASSUME TestDefinitionAssumption

VARIABLES
  doc, opts,                 (* the file, the command line                  *)
  input, fn, parsing_level,  (* the nodes not yet read, the call stack      *)
  td, suite,                 (* current_td and current_suite                *)
  set, case, step, steps,    (* the structures being built ...              *)
  tag, file, env_name, param,(* ... and locals of the parser's functions    *)
  w,                         (* the result logger                           *)
  aborted                    (* observation only: sets whose pre steps failed *)

locals == <<set, case, step, steps, tag, file, env_name, param>>
vars   == <<doc, opts, input, fn, parsing_level, td, suite, locals, w, aborted>>

-----------------------------------------------------------------------------
(* The reader                                                               *)

Node == Head(input)
Read == input # <<>> /\ input' = Tail(input)
Starts(n) == input # <<>> /\ Node.t = "start" /\ Node.n = n
Ends(n)   == input # <<>> /\ Node.t = "end" /\ Node.n = n
IsText    == input # <<>> /\ Node.t = "text"

In(f) == Last(fn) = f
Call(f) == fn' = Append(fn, f)
Ret == fn' = Front(fn)
Caller == fn[Len(fn) - 1]

\* xmlTextReaderIsEmptyElement() asked while the reader is still on the last
\* attribute: a step with attributes is never empty.
EmptyStep == Node.empty /\ DOMAIN Node.a = {}

ValueOr(k, default) == IF k \in DOMAIN Node.a THEN Node.a[k] ELSE default

-----------------------------------------------------------------------------
(* The data types                                                           *)

NoText == <<>>
GenAttributes == {"name", "manual", "hwid", "type", "feature", "requirement"}
NoGen == [k \in GenAttributes |->
            CASE k = "manual" -> FALSE [] k \in ListNames -> {} [] OTHER -> NULL]

\* td_parse_gen_attribs(): all but the name and the description are inherited.
td_parse_gen_attribs(defaults) ==
  [k \in GenAttributes |-> ValueOr(k, IF k = "name" THEN NoGen.name ELSE defaults[k])]

NewSet(gen) ==
  [gen |-> gen, described |-> FALSE, pre_steps |-> <<>>, post_steps |-> <<>>,
   post_reboot_steps |-> <<>>, cases |-> <<>>, gets |-> <<>>,
   environments |-> {"hardware", "scratchbox"}]

\* reboot: the list of post reboot steps the case points to, which is its own
\* empty one or, with shared, the set's.
NewCase(gen) ==
  [gen |-> gen, described |-> FALSE, steps |-> <<>>, gets |-> <<>>,
   measurements |-> <<>>, series |-> <<>>,
   reboot |-> <<>>, shared |-> FALSE, filtered |-> FALSE]

NewStep(manual) ==
  [cmd |-> NoText, manual |-> manual, reboot |-> FALSE, event |-> FALSE, params |-> <<>>]

NewFile == [name |-> NULL, delete_after |-> FALSE, measurement |-> FALSE]

NoTd    == [hw_detector |-> NoText, detected_hw |-> NULL, described |-> FALSE]

\* No suite.  The general attributes come first in a suite, so those of the
\* null current_suite are a null pointer too, and nothing is inherited.
Nowhere == [gen |-> NoGen, described |-> FALSE, live |-> FALSE]

-----------------------------------------------------------------------------
(* process_set()                                                            *)

\* The detected hardware is looked up in the list of the attribute.
FilteredByHw(s) ==
  s.gen.hwid # {} /\ td.detected_hw # NULL /\ td.detected_hw \notin s.gen.hwid

NotHere(s) == opts.environment \notin s.environments
Skipped(s) == filter_set(opts.filters, s) \/ FilteredByHw(s) \/ NotHere(s)

\* process_case() as far as it decides whether the case is run and reported.
WrongMode(c) == IF c.gen.manual THEN ~opts.run_manual ELSE ~opts.run_automatic
process_case(c) == [c EXCEPT !.filtered = WrongMode(c) \/ filter_case(opts.filters, c)]

\* After failed pre steps no case is looked at: none is filtered.
CasesAfter(s, failed) ==
  IF failed THEN s.cases ELSE [i \in DOMAIN s.cases |-> process_case(s.cases[i])]

SkipSet(s) ==
  /\ Skipped(s)
  /\ UNCHANGED <<w, aborted>>

\* xml_end_element() is called for the report in plain text as well, where
\* there is no writer and it does nothing.
EndSet(v) == IF opts.text THEN v ELSE End(v)

RunSet(s) ==
  /\ ~Skipped(s)
  /\ \E failed \in IF s.pre_steps = <<>> THEN {FALSE} ELSE BOOLEAN :
       LET cases  == CasesAfter(s, failed)
           opened == write_pre_set(opts, w, s)
       IN  /\ w' = EndSet(write_post_set(opts, opened, [s EXCEPT !.cases = cases]))
           /\ aborted' = IF failed THEN aborted \cup {s.gen.name} ELSE aborted

process_set(s) == SkipSet(s) \/ RunSet(s)

\* td_set_delete(), which ends process_set(): a case that points to the list of
\* the set frees it a second time, and the allocator may not survive that.
FreedTwice(s) == \E i \in DOMAIN s.cases : s.cases[i].shared
AfterDelete(s, stack) == {stack} \cup IF FreedTwice(s) THEN {<<"crashed">>} ELSE {}

-----------------------------------------------------------------------------
(* td_next_node(): the definition and its suites                            *)

InLoop == fn = <<"td_process">>

TestDefinitionStart ==
  /\ InLoop /\ Starts("testdefinition") /\ Read
  /\ parsing_level' = parsing_level + 1
  /\ td' = NoTd
  /\ UNCHANGED <<doc, opts, fn, suite, locals, w, aborted>>

TestDefinitionEnd ==
  /\ InLoop /\ Ends("testdefinition") /\ Read
  /\ parsing_level' = parsing_level - 1
  /\ w' = write_td_end(opts, w, td)
  /\ UNCHANGED <<doc, opts, fn, td, suite, locals, aborted>>

Hwiddetect ==
  /\ InLoop /\ Starts("hwiddetect") /\ Read
  /\ Call("td_parse_hwiddetect")
  /\ UNCHANGED <<doc, opts, parsing_level, td, suite, locals, w, aborted>>

\* td_parse_hwiddetect() takes the text of every node up to the next end.
DetectorText ==
  /\ In("td_parse_hwiddetect") /\ input # <<>> /\ Node.t # "end" /\ Read
  /\ td' = IF IsText THEN [td EXCEPT !.hw_detector = <<Node.n>>] ELSE td
  /\ UNCHANGED <<doc, opts, fn, parsing_level, suite, locals, w, aborted>>

\* process_hwiddetect(): what the detector prints is the environment's choice,
\* and it may fail.
HwidDetected ==
  /\ In("td_parse_hwiddetect") /\ input # <<>> /\ Node.t = "end" /\ Read
  /\ Ret
  /\ \E hw \in IF td.hw_detector = NoText THEN {NULL} ELSE {NULL, "n900"} :
       td' = [td EXCEPT !.detected_hw = hw]
  /\ UNCHANGED <<doc, opts, parsing_level, suite, locals, w, aborted>>

DescriptionNode ==
  /\ InLoop /\ Starts("description") /\ Read
  /\ \/ /\ parsing_level = 1
        /\ td' = [td EXCEPT !.described = TRUE] /\ UNCHANGED suite
     \/ /\ parsing_level = 2
        /\ suite' = [suite EXCEPT !.described = TRUE] /\ UNCHANGED td
  /\ UNCHANGED <<doc, opts, fn, parsing_level, locals, w, aborted>>

\* An empty suite has no end node: it is ended at once, and the level with it.
EmptyOrNamed == Node.empty \/ DOMAIN Node.a # {}
SuiteIsEmpty == Node.empty
NotLowered == parsing_level + 1
LevelInSuite == IF SuiteIsEmpty THEN parsing_level ELSE parsing_level + 1

SuiteStart ==
  /\ InLoop /\ Starts("suite") /\ Read
  /\ LET s == [gen |-> td_parse_gen_attribs(NoGen), described |-> FALSE, live |-> TRUE]
         opened == write_pre_suite(opts, w, s)
     IN  /\ w' = IF SuiteIsEmpty THEN write_post_suite(opts, opened, s) ELSE opened
         /\ suite' = IF SuiteIsEmpty THEN Nowhere ELSE s
  /\ parsing_level' = LevelInSuite
  /\ UNCHANGED <<doc, opts, fn, td, locals, aborted>>

SuiteEnd ==
  /\ InLoop /\ Ends("suite") /\ suite.live /\ Read
  /\ parsing_level' = parsing_level - 1
  /\ w' = write_post_suite(opts, w, suite)
  /\ suite' = Nowhere
  /\ UNCHANGED <<doc, opts, fn, td, locals, aborted>>

\* end_suite() without a suite: the null pointer is followed.
SuiteEndWithoutSuite ==
  /\ InLoop /\ Ends("suite") /\ ~suite.live
  /\ fn' = <<"crashed">>
  /\ UNCHANGED <<doc, opts, input, parsing_level, td, suite, locals, w, aborted>>

\* A set outside of a suite is run and written like any other.
SetStart ==
  /\ InLoop /\ Starts("set") /\ Read
  /\ set' = NewSet(td_parse_gen_attribs(suite.gen))
  /\ IF Node.empty
     THEN process_set(set') /\ UNCHANGED fn
     ELSE Call("td_parse_set") /\ UNCHANGED <<w, aborted>>
  /\ UNCHANGED <<doc, opts, parsing_level, td, suite, case, step, steps, tag, file,
                 env_name, param>>

OtherNode ==
  /\ InLoop /\ input # <<>> /\ Read
  /\ \/ IsText
     \/ Node.t = "end" /\ Node.n \notin {"testdefinition", "suite"}
     \/ Node.t = "start" /\ Node.n \notin {"testdefinition", "hwiddetect", "description",
                                           "suite", "set"}
  /\ UNCHANGED <<doc, opts, fn, parsing_level, td, suite, locals, w, aborted>>

\* The end of the file ends the loop.  Inside an element it is an error of
\* every function on the stack: the set is dropped and the loop ends as well.
EndOfFile ==
  /\ InLoop \/ Len(fn) > 2
  /\ input = <<>>
  /\ fn' = <<"finished">>
  /\ UNCHANGED <<doc, opts, input, parsing_level, td, suite, locals, w, aborted>>

-----------------------------------------------------------------------------
(* td_parse_set()                                                           *)

Within(f) == In(f) /\ Read
          /\ UNCHANGED <<doc, opts, parsing_level, td, suite, w, aborted>>

StepsStart ==
  /\ Within("td_parse_set")
  /\ \E t \in {"pre_steps", "post_steps", "post_reboot_steps"} : Starts(t) /\ tag' = t
  /\ steps' = <<>> /\ Call("td_parse_steps")
  /\ UNCHANGED <<set, case, step, file, env_name, param>>

CaseStart ==
  /\ Within("td_parse_set") /\ Starts("case")
  /\ LET c == NewCase(td_parse_gen_attribs(set.gen))
     IN  IF Node.empty
         THEN set' = [set EXCEPT !.cases = Append(@, c)] /\ UNCHANGED <<case, fn>>
         ELSE case' = c /\ Call("td_parse_case") /\ UNCHANGED set
  /\ UNCHANGED <<step, steps, tag, file, env_name, param>>

EnvironmentsStart ==
  /\ Within("td_parse_set") /\ Starts("environments")
  /\ Call("td_parse_environments")
  /\ UNCHANGED locals

\* td_parse_gets() starts with all flags off; a case has files of its own.
GetStart ==
  /\ Within("td_parse_set") \/ Within("td_parse_case")
  /\ Starts("get")
  /\ file' = NewFile /\ Call("td_parse_gets")
  /\ UNCHANGED <<set, case, step, steps, tag, env_name, param>>

SetDescription ==
  /\ Within("td_parse_set") /\ Starts("description")
  /\ set' = [set EXCEPT !.described = TRUE]
  /\ UNCHANGED <<fn, case, step, steps, tag, file, env_name, param>>

SetOther ==
  /\ Within("td_parse_set")
  /\ IsText \/ (Node.t = "end" /\ Node.n # "set")
  /\ UNCHANGED <<fn, locals>>

\* add_post_reboot_step(): a case gives up its list for the set's.  The walk
\* over the cases goes on while the function returns anything but 0, and it
\* has no return statement: at least the first case is reached.
Shared(s, n) ==
  [s EXCEPT !.cases = [i \in DOMAIN @ |->
     IF i > n THEN @[i]
     ELSE [@[i] EXCEPT !.reboot = s.post_reboot_steps, !.shared = TRUE]]]
CasesWalked(s) ==
  IF s.post_reboot_steps = <<>> \/ s.cases = <<>> THEN {0} ELSE DOMAIN s.cases

SetEnd ==
  /\ In("td_parse_set") /\ Ends("set") /\ Read
  /\ \E n \in CasesWalked(set) : set' = Shared(set, n)
  /\ process_set(set')
  /\ fn' \in AfterDelete(set', Front(fn))
  /\ UNCHANGED <<doc, opts, parsing_level, td, suite, case, step, steps, tag, file,
                 env_name, param>>

-----------------------------------------------------------------------------
(* td_parse_steps() and td_parse_step()                                     *)

\* Where a step goes when it is complete.
AddStep(s, to) ==
  \/ to = "td_parse_case" /\ case' = [case EXCEPT !.steps = Append(@, s)] /\ UNCHANGED steps
  \/ to = "td_parse_steps" /\ steps' = Append(steps, s) /\ UNCHANGED case

ManualDefault == IF In("td_parse_case") THEN case.gen.manual ELSE set.gen.manual

StepStart ==
  /\ Within("td_parse_steps") \/ Within("td_parse_case")
  /\ Starts("step")
  /\ LET s == [NewStep(ValueOr("manual", ManualDefault)) EXCEPT !.reboot = ValueOr("reboot", FALSE)]
     IN  IF EmptyStep
         THEN AddStep(s, Last(fn)) /\ UNCHANGED <<step, fn>>
         ELSE step' = s /\ Call("td_parse_step") /\ UNCHANGED <<case, steps>>
  /\ UNCHANGED <<set, tag, file, env_name, param>>

StepText ==
  /\ Within("td_parse_step") /\ IsText
  /\ step' = [step EXCEPT !.cmd = Append(@, Node.n)]
  /\ UNCHANGED <<fn, set, case, steps, tag, file, env_name, param>>

\* Up to the end of a step every other node is passed over.
StepOther ==
  /\ Within("td_parse_step") /\ ~IsText /\ ~Ends("step")
  /\ UNCHANGED <<fn, locals>>

StepEnd ==
  /\ Within("td_parse_step") /\ Ends("step")
  /\ AddStep(step, Caller) /\ Ret
  /\ UNCHANGED <<set, step, tag, file, env_name, param>>

StepsOther ==
  /\ Within("td_parse_steps") /\ ~Starts("step") /\ ~Ends(tag)
  /\ UNCHANGED <<fn, locals>>

StepsEnd ==
  /\ Within("td_parse_steps") /\ Ends(tag)
  /\ set' = [set EXCEPT ![tag] = Append(@, steps)]
  /\ Ret
  /\ UNCHANGED <<case, step, steps, tag, file, env_name, param>>

-----------------------------------------------------------------------------
(* td_parse_case() and td_parse_event()                                     *)

CaseDescription ==
  /\ Within("td_parse_case") /\ Starts("description")
  /\ case' = [case EXCEPT !.described = TRUE]
  /\ UNCHANGED <<fn, set, step, steps, tag, file, env_name, param>>

CaseOther ==
  /\ Within("td_parse_case")
  /\ IsText \/ (Node.t = "end" /\ Node.n # "case")
            \/ (Node.t = "start" /\ Node.n \notin {"description", "step", "event", "get"})
  /\ UNCHANGED <<fn, locals>>

\* A case with steps is manual exactly if one of them is.
ManualSteps == \E i \in DOMAIN case.steps : case.steps[i].manual
DeclaredManual == case.gen.manual
SaneManual == IF case.steps = <<>> THEN case.gen.manual ELSE ManualSteps

CaseEnd ==
  /\ Within("td_parse_case") /\ Ends("case")
  /\ set' = [set EXCEPT !.cases = Append(@, [case EXCEPT !.gen.manual = SaneManual])]
  /\ Ret
  /\ UNCHANGED <<case, step, steps, tag, file, env_name, param>>

EventStart ==
  /\ Within("td_parse_case") /\ Starts("event")
  /\ LET s == [NewStep(FALSE) EXCEPT !.event = TRUE]
     IN  IF Node.empty
         THEN AddStep(s, "td_parse_case") /\ UNCHANGED <<step, fn>>
         ELSE step' = s /\ Call("td_parse_event") /\ UNCHANGED <<case, steps>>
  /\ UNCHANGED <<set, tag, file, env_name, param>>

AddParam(value) == step' = [step EXCEPT !.params = Append(@, value)]

ParamStart ==
  /\ Within("td_parse_event") /\ Starts("param")
  /\ IF Node.empty THEN AddParam(NoText) /\ UNCHANGED <<fn, param>>
     ELSE param' = NoText /\ Call("td_parse_event_param") /\ UNCHANGED step
  /\ UNCHANGED <<set, case, steps, tag, file, env_name>>

ParamText ==
  /\ Within("td_parse_event_param") /\ IsText
  /\ param' = <<Node.n>>
  /\ UNCHANGED <<fn, set, case, step, steps, tag, file, env_name>>

ParamEnd ==
  /\ Within("td_parse_event_param") /\ Ends("param")
  /\ AddParam(param) /\ Ret
  /\ UNCHANGED <<set, case, steps, tag, file, env_name, param>>

EventEnd ==
  /\ Within("td_parse_event") /\ Ends("event")
  /\ AddStep(step, "td_parse_case") /\ Ret
  /\ UNCHANGED <<set, step, tag, file, env_name, param>>

-----------------------------------------------------------------------------
(* td_parse_environments() and td_parse_gets()                              *)

EnvironmentName ==
  /\ Within("td_parse_environments") /\ Node.t = "start"
  /\ env_name' = Node.n
  /\ UNCHANGED <<fn, set, case, step, steps, tag, file, param>>

EnvironmentValue ==
  /\ Within("td_parse_environments") /\ IsText
  /\ set' = IF Node.n = "false" THEN [set EXCEPT !.environments = @ \ {env_name}] ELSE set
  /\ UNCHANGED <<fn, case, step, steps, tag, file, env_name, param>>

EnvironmentsEnd ==
  /\ Within("td_parse_environments") /\ Node.t = "end"
  /\ IF Node.n = "environments" THEN Ret ELSE UNCHANGED fn
  /\ UNCHANGED locals

\* An attribute that is missing leaves the flag of the file before.
FileStart ==
  /\ Within("td_parse_gets") /\ Node.t = "start"
  /\ file' = [file EXCEPT !.delete_after = ValueOr("delete_after", @),
                          !.measurement = ValueOr("measurement", @)]
  /\ UNCHANGED <<fn, set, case, step, steps, tag, env_name, param>>

\* Only delete_after is reset after a file.  The list has no comparison
\* function: libxml2 orders it by address, so the file may go anywhere.
KeptFlags == file
NextFlags == [file EXCEPT !.delete_after = FALSE]
FileText ==
  /\ Within("td_parse_gets") /\ IsText
  /\ LET f == [file EXCEPT !.name = Node.n]
     IN  IF Caller = "td_parse_case"
         THEN /\ \E i \in 1..Len(case.gets) + 1 :
                   case' = [case EXCEPT !.gets = InsertAt(@, i, f)]
              /\ UNCHANGED set
         ELSE /\ \E i \in 1..Len(set.gets) + 1 :
                   set' = [set EXCEPT !.gets = InsertAt(@, i, f)]
              /\ UNCHANGED case
  /\ file' = NextFlags
  /\ UNCHANGED <<fn, step, steps, tag, env_name, param>>

GetEnd ==
  /\ Within("td_parse_gets") /\ Node.t = "end"
  /\ IF Node.n = "get" THEN Ret ELSE UNCHANGED fn
  /\ UNCHANGED locals

-----------------------------------------------------------------------------
Init ==
  /\ doc \in Documents /\ opts \in Options
  /\ input = FileTokens(doc) /\ fn = <<"td_process">> /\ parsing_level = 0
  /\ td = NoTd /\ suite = Nowhere
  /\ set = NewSet(NoGen) /\ case = NewCase(NoGen) /\ step = NewStep(FALSE)
  /\ steps = <<>> /\ tag = NULL /\ file = NewFile /\ env_name = NULL /\ param = NoText
  /\ w = init_result_logger(opts)
  /\ aborted = {}

Finished == fn \in {<<"finished">>, <<"crashed">>} /\ UNCHANGED vars

ReadTd ==
  TestDefinitionStart \/ TestDefinitionEnd \/ Hwiddetect \/ DetectorText \/ HwidDetected
    \/ DescriptionNode \/ SuiteStart \/ SuiteEnd \/ SuiteEndWithoutSuite
    \/ SetStart \/ OtherNode \/ EndOfFile
ReadSet ==
  StepsStart \/ CaseStart \/ EnvironmentsStart \/ GetStart \/ SetDescription \/ SetOther
    \/ SetEnd \/ StepStart \/ StepText \/ StepOther \/ StepEnd \/ StepsOther \/ StepsEnd
ReadCase ==
  CaseDescription \/ CaseOther \/ CaseEnd \/ EventStart \/ ParamStart \/ ParamText
    \/ ParamEnd \/ EventEnd
ReadLists ==
  EnvironmentName \/ EnvironmentValue \/ EnvironmentsEnd \/ FileStart \/ FileText \/ GetEnd

Next == ReadTd \/ ReadSet \/ ReadCase \/ ReadLists \/ Finished

Spec == Init /\ [][Next]_vars

-----------------------------------------------------------------------------
(* What the file asks for, read off its tree                                *)

\* The attribute of the innermost element that has it.
Attr(k, elements) ==
  LET having == {i \in DOMAIN elements : k \in DOMAIN elements[i].a}
  IN  IF having = {} THEN NoGen[k]
      ELSE elements[CHOOSE i \in having : \A j \in having : i <= j].a[k]

IsMarked(flag, element) == flag \in DOMAIN element.a /\ element.a[flag]

IsManual(c, s, u) ==
  IF c.steps = <<>> THEN Attr("manual", <<c, s, u>>)
  ELSE \E i \in DOMAIN c.steps :
         c.steps[i].n = "step" /\ Attr("manual", <<c.steps[i], c, s, u>>)

Accepts(key, value) ==
  \A i \in DOMAIN opts.filters :
     LET f == opts.filters[i]
     IN  f.key = key => (value \cap f.values # {} <=> ~f.exclude)

SetIsWanted(s, u) ==
  /\ Accepts("testset", {Attr("name", <<s>>)})
  /\ Accepts("feature", Attr("feature", <<s, u>>))
  /\ Attr("hwid", <<s, u>>) = {} \/ td.detected_hw \in Attr("hwid", <<s, u>>) \cup {NULL}
  /\ opts.environment \in {"hardware", "scratchbox"}
  /\ \A i \in DOMAIN s.envs : s.envs[i].n = opts.environment => s.envs[i].v # "false"

CaseIsWanted(c, s, u) ==
  \/ Attr("name", <<s>>) \in aborted
  \/ /\ IF IsManual(c, s, u) THEN opts.run_manual ELSE opts.run_automatic
     /\ Accepts("testcase", {Attr("name", <<c>>)})
     /\ Accepts("type", {Attr("type", <<c, s, u>>)})
     /\ Accepts("requirement", Attr("requirement", <<c, s, u>>))

Under(e, entries) == <<<<e>>>> \o [i \in DOMAIN entries |-> <<e>> \o entries[i]]
Told == When(doc.described, <<<<Element("description", NULL)>>>>)
ListEntries(t, lists) ==
  When(lists # <<>>,
       Under(Element(t, NULL),
             [i \in DOMAIN lists[1] |-> <<Element("step", lists[1][i].text)>>]))

StepEntries(x, s) ==
  IF x.n = "event"
  THEN Under(Element("event", NULL),
             [i \in DOMAIN x.params |-> <<Element("param", x.params[i])>>])
  ELSE Under(Element("step", x.text),
             When(IsMarked("reboot", x), ListEntries("post_reboot_steps", s.reboot_steps)))

CaseEntries(c, s, u) ==
  When(CaseIsWanted(c, s, u),
       Under(Element("case", Attr("name", <<c>>)),
             Told \o Each(LAMBDA x : StepEntries(x, s), c.steps)))

SetEntries(s, u) ==
  When(SetIsWanted(s, u),
       Under(Element("set", Attr("name", <<s>>)),
             Told \o ListEntries("pre_steps", s.pre_steps)
               \o Each(LAMBDA c : CaseEntries(c, s, u), s.cases)
               \o ListEntries("post_steps", s.post_steps)
               \o When(s.gets # <<>>, <<<<Element("get", NULL)>>>>)))

SuiteEntries(u) ==
  Under(Element("suite", Attr("name", <<u>>)), Each(LAMBDA s : SetEntries(s, u), u.sets) \o Told)

Asked ==
  Under(Element("testresults", NULL),
        Each(SuiteEntries, doc.suites)
          \o When(doc.hwiddetect /\ doc.detector # <<>>,
                  <<<<Element("hwiddetect", doc.detector)>>>>)
          \o Told)

\* The files of a get element come in no particular order.
InOrder(entries) == SelectSeq(entries, LAMBDA p : Last(p).n # "file")
AskedFiles ==
  UNION {UNION {IF ~SetIsWanted(doc.suites[i].sets[j], doc.suites[i]) THEN {}
                ELSE {[set |-> Attr("name", <<doc.suites[i].sets[j]>>), file |-> f.text[1]] :
                        f \in ToSet(doc.suites[i].sets[j].gets)}
                : j \in DOMAIN doc.suites[i].sets} : i \in DOMAIN doc.suites}
WrittenFiles ==
  {[set |-> p[3].id, file |-> Last(p).id] :
     p \in {p \in ToSet(w.out) : Last(p).n = "file"}}

\* The plain report has the suites, sets, cases and their steps only.
Plain(entries) ==
  LET kept == SelectSeq(entries, LAMBDA p :
                \/ Last(p).n \in {"suite", "set", "case"}
                \/ Last(p).n \in {"step", "event"} /\ p[Len(p) - 1].n = "case")
  IN  [i \in DOMAIN kept |->
        <<IF Last(kept[i]).n = "event" THEN Element("step", NoText) ELSE Last(kept[i])>>]

Reported ==
  IF opts.text THEN w.out = Plain(Asked)
  ELSE /\ InOrder(w.out) = When(opts.vcsurl, <<<<Element("vcsurl", NULL)>>>>) \o Asked
       /\ WrittenFiles = AskedFiles

\* An element that the parser does not recognise as empty: one that it reads
\* as a list of steps, a step with attributes, the detector.
StepIsMisread(x) == x.n = "step" /\ x.text = <<>> /\ DOMAIN x.a # {}
ListsOf(s) == s.pre_steps \o s.post_steps \o s.reboot_steps
SetIsMisread(s) ==
  \/ \E i \in DOMAIN ListsOf(s) :
       \/ ListsOf(s)[i] = <<>>
       \/ \E j \in DOMAIN ListsOf(s)[i] : StepIsMisread(ListsOf(s)[i][j])
  \/ \E i \in DOMAIN s.cases : \E j \in DOMAIN s.cases[i].steps :
       StepIsMisread(s.cases[i].steps[j])
DetectorIsMisread == doc.selfClosing /\ doc.hwiddetect /\ doc.detector = <<>>
Sets == UNION {ToSet(doc.suites[i].sets) : i \in DOMAIN doc.suites}

\* Of several texts, which a comment separates, the parser keeps the last; the
\* flags of a file that has none go to the next one.
FilesAsked(s) == ToSet(s.gets) \cup UNION {ToSet(s.cases[i].gets) : i \in DOMAIN s.cases}
ParamsAsked(s) ==
  UNION {UNION {ToSet(s.cases[i].steps[j].params) : j \in DOMAIN s.cases[i].steps}
         : i \in DOMAIN s.cases}
TextsAreRead ==
  /\ Len(doc.detector) <= 1
  /\ \A s \in Sets : /\ \A f \in FilesAsked(s) : Len(f.text) = 1
                     /\ \A p \in ParamsAsked(s) : Len(p) <= 1

Readable ==
  /\ ~DetectorIsMisread /\ TextsAreRead
  /\ doc.selfClosing => \A s \in Sets : ~SetIsMisread(s)

\* The sets whose pre steps failed are known by their names.
SetPlaces == UNION {{i} \X DOMAIN doc.suites[i].sets : i \in DOMAIN doc.suites}
SetAt(p) == doc.suites[p[1]].sets[p[2]]
NamesTell ==
  \A p, q \in SetPlaces :
    Attr("name", <<SetAt(p)>>) = Attr("name", <<SetAt(q)>>) => p = q \/ SetAt(p).pre_steps = <<>>

\* Elements the logger cannot close: a pre, post or post reboot step without
\* a command, a param without a value. An empty list of steps runs on up to the
\* end of another and takes the empty steps of the cases in between as well.
ListsRunOn == doc.selfClosing /\ \E s \in Sets : <<>> \in ToSet(ListsOf(s))
Closable ==
  \A s \in Sets :
    /\ \A i \in DOMAIN ListsOf(s) : \A j \in DOMAIN ListsOf(s)[i] : ListsOf(s)[i][j].text # <<>>
    /\ \A i \in DOMAIN s.cases : \A j \in DOMAIN s.cases[i].steps :
         LET x == s.cases[i].steps[j]
         IN  /\ <<>> \notin ToSet(x.params)
             /\ ListsRunOn /\ x.n = "step" /\ DOMAIN x.a = {} => x.text # <<>>

\* Whether another case than the first has the post reboot steps is left open.
FirstCaseReboots ==
  \A s \in Sets : s.reboot_steps # <<>> =>
    \A i \in DOMAIN s.cases : \A j \in DOMAIN s.cases[i].steps :
      IsMarked("reboot", s.cases[i].steps[j]) => i = 1

-----------------------------------------------------------------------------
(* Properties                                                               *)

\* The call stacks of the parser, and the names of the sets.
InSet == <<"td_process", "td_parse_set">>
InCase == Append(InSet, "td_parse_case")
Stacks ==
  {<<"crashed">>, <<"finished">>, <<"td_process">>, <<"td_process", "td_parse_hwiddetect">>,
   InSet, Append(InSet, "td_parse_steps"), InSet \o <<"td_parse_steps", "td_parse_step">>,
   Append(InSet, "td_parse_environments"), Append(InSet, "td_parse_gets"),
   InCase, Append(InCase, "td_parse_step"), Append(InCase, "td_parse_gets"),
   Append(InCase, "td_parse_event"), InCase \o <<"td_parse_event", "td_parse_event_param">>}
SetNames == {Attr("name", <<s>>) : s \in Sets}

\* The state has the types of the structures: the parser's functions call each
\* other as the elements nest, a walk that a callback has stopped does not stop
\* the next one, and sets whose pre steps failed are sets of the file.
TypeOK ==
  /\ fn \in Stacks /\ parsing_level \in 0..2
  /\ Len(td.hw_detector) \in 0..1 /\ td.detected_hw \in {NULL, "n900"}
  /\ suite.live \in BOOLEAN
  /\ set.environments \subseteq {"hardware", "scratchbox"}
  /\ w.ok /\ aborted \subseteq SetNames

\* Of a file without the empty elements the parser misses, the report has
\* what the file and the command line ask for, and in that order: every set
\* that no filter, no hardware and no environment excludes, its wanted cases,
\* all of them if its pre steps failed, with their steps and the post reboot
\* steps of the first, each under its parent.  It relates td_parse_set(), the
\* filters, process_set() and the logger.
ReportIsComplete ==
  fn = <<"finished">> /\ Readable /\ Closable /\ NamesTell /\ FirstCaseReboots => Reported

\* Whatever the parser made of the file, the elements of the report nest the
\* way the result schema has them as long as the logger can close each.  Two
\* things are not as the schema has them: --vcsurl is written before the root,
\* as a second one, and a set that follows a misread detector has no suite.
Parents ==
  [testresults |-> {}, suite |-> {"testresults"}, set |-> {"suite"}, case |-> {"set"},
   pre_steps |-> {"set"}, post_steps |-> {"set"}, post_reboot_steps |-> {"step"},
   step |-> {"case", "pre_steps", "post_steps", "post_reboot_steps"},
   event |-> {"case"}, param |-> {"event"}, get |-> {"set"}, file |-> {"get"},
   hwiddetect |-> {"testresults"}, vcsurl |-> {},
   description |-> {"testresults", "suite", "set", "case"}]
Roots == {"testresults"} \cup (IF opts.vcsurl THEN {"vcsurl"} ELSE {})
MayHold(outer, inner) ==
  \/ outer \in Parents[inner]
  \/ DetectorIsMisread /\ outer = "testresults" /\ inner = "set"
NestingIsValid ==
  Closable /\ ~opts.text =>
    \A i \in DOMAIN w.out : LET p == w.out[i] IN
      IF Len(p) = 1 THEN p[1].n \in Roots ELSE MayHold(p[Len(p) - 1].n, Last(p).n)

\* Memory is used only while it is there, however a misread list runs on from
\* set to set and over the ends of suites.  The null current_suite is followed
\* only after an empty hwiddetect, which takes the start of the suite for its
\* own content; a list is freed twice only if one set of the file has both post
\* reboot steps and cases, never by the steps of one and the cases of another.
MemoryIsThere ==
  fn = <<"crashed">> =>
    DetectorIsMisread \/ \E s \in Sets : s.reboot_steps # <<>> /\ s.cases # <<>>

\* Of a file in which every file element has a text, a file on the target is
\* removed only if its own element says so: the flag of one file does not reach
\* the next, of a case nor of a set.
Marks(files) == {<<f.name, f.delete_after>> : f \in ToSet(files)}
AskedMarks(files) == {<<f.text[1], IsMarked("delete_after", f)>> : f \in ToSet(files)}
OnlyMarkedFilesAreRemoved ==
  Readable /\ set # NewSet(NoGen) =>
    \E s \in Sets :
      /\ set.gen.name = Attr("name", <<s>>)
      /\ Marks(set.gets) \subseteq AskedMarks(s.gets)
      /\ \A i \in DOMAIN set.cases :
           i \in DOMAIN s.cases /\ Marks(set.cases[i].gets) = AskedMarks(s.cases[i].gets)

\* What a file asks for is reported however its empty elements are written:
\* the parser looks for the empty ones.  Violated by <step control="reboot"/>,
\* which takes what follows it up to the end of another step for its own.
EmptyElementsAreRead ==
  fn = <<"finished">> /\ TextsAreRead /\ Closable /\ NamesTell /\ FirstCaseReboots
    => Reported
==============================================================================
