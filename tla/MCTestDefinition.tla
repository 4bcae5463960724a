-------------------------- MODULE MCTestDefinition --------------------------
(***************************************************************************)
(* Small files for TestDefinition, each of them about one thing: what is   *)
(* not varied in a family is ordinary.                                     *)
(***************************************************************************)
EXTENDS TestDefinition, TLC

Named(n) == "name" :> n

AStep(cmd) == [n |-> "step", a |-> NoAttributes, text |-> <<cmd>>, params |-> <<>>]
RebootStep == [n |-> "step", a |-> "reboot" :> TRUE, text |-> <<>>, params |-> <<>>]
BareStep == [AStep("x") EXCEPT !.text = <<>>]
AnEvent(params) == [n |-> "event", a |-> NoAttributes, text |-> <<>>, params |-> params]
ManualStep(b) == [AStep("look") EXCEPT !.a = "manual" :> b]
AFile(name_, a) == [a |-> a, text |-> <<name_>>]

ACase(n, list) == [a |-> Named(n), steps |-> list, gets |-> <<>>]
ASet(n, cases_) ==
  [a |-> Named(n), pre_steps |-> <<>>, post_steps |-> <<>>, reboot_steps |-> <<>>,
   cases |-> cases_, gets |-> <<>>, envs |-> <<>>]
ASuite(n, sets) == [a |-> Named(n), sets |-> sets]
ADoc(suites_) ==
  [suites |-> suites_, hwiddetect |-> FALSE, detector |-> <<>>,
   selfClosing |-> FALSE, described |-> FALSE]

OfSets(sets) == ADoc(<<ASuite("suite1", sets)>>)
c1 == ACase("c1", <<AStep("a"), AStep("b")>>)
c2 == ACase("c2", <<AStep("c")>>)
plain == ASet("set2", <<c2>>)

Flags == {NoAttributes, "manual" :> TRUE, "manual" :> FALSE}

\* Manual by the suite, the set, the case or a step.
ManualDocs ==
  {ADoc(<<[ASuite("suite1", <<[ASet("set1", <<[c1 EXCEPT !.a = @ @@ mc, !.steps = l]>>)
                                 EXCEPT !.a = @ @@ ms]>>) EXCEPT !.a = @ @@ mu]>>) :
     mu \in Flags, ms \in Flags, mc \in Flags,
     l \in {<<>>, <<AStep("a")>>, <<ManualStep(TRUE), AStep("a")>>, <<ManualStep(FALSE)>>}}

\* Steps around the cases, none, one and an empty one, however written.
Lists == {<<>>, <<<<AStep("p"), AStep("q")>>>>, <<<<AStep("p")>>, <<AStep("q")>>>>, <<<<>>>>,
          <<<<BareStep, AStep("q")>>>>}
ListDocs ==
  {[OfSets(<<[ASet("set1", <<c1>>) EXCEPT !.pre_steps = pre, !.post_steps = post], plain>>)
      EXCEPT !.selfClosing = sc] : pre \in Lists, post \in Lists, sc \in BOOLEAN}

\* Steps that reboot, with and without a command and steps to run after it; the
\* second case has one too, or none.
RebootingCase == ACase("c3", <<[RebootStep EXCEPT !.text = <<"c">>]>>)
RebootDocs ==
  {[OfSets(<<[ASet("set1", <<ACase("c1", l), c>>) EXCEPT !.reboot_steps = r], plain>>)
      EXCEPT !.selfClosing = sc] :
     l \in {<<RebootStep>>, <<RebootStep, AStep("b")>>, <<BareStep, AStep("b")>>,
            <<AStep("a"), AnEvent(<<<<"v">>>>)>>, <<AnEvent(<<<<>>>>), AStep("b")>>},
     c \in {c2, RebootingCase}, r \in {<<>>, <<<<AStep("r")>>>>}, sc \in BOOLEAN}

\* Files to fetch, whose flags are given or not, in the set or in the case.
GetFiles ==
  {<<AFile("f", NoAttributes)>>, <<AFile("f", "delete_after" :> TRUE)>>,
   <<AFile("f", "delete_after" :> TRUE), AFile("g", NoAttributes)>>,
   <<AFile("f", "delete_after" :> FALSE), AFile("g", "delete_after" :> TRUE)>>,
   <<AFile("f", NoAttributes), AFile("g", "delete_after" :> TRUE), AFile("h", NoAttributes)>>}
GetDocs ==
  {OfSets(<<ASet("set1", <<[c1 EXCEPT !.gets = cg]>>),
            [plain EXCEPT !.gets = sg, !.post_steps = post]>>) :
     cg \in GetFiles, sg \in GetFiles, post \in {<<>>, <<<<AStep("p")>>>>}}

\* The environments, the hardware and the filters a set and a case can fail.
EnvDocs ==
  {[OfSets(<<[ASet("set1", <<c1>>) EXCEPT !.envs = <<[n |-> "scratchbox", v |-> "true"],
                                                     [n |-> "hardware", v |-> v]>>,
                                          !.a = @ @@ h], plain>>)
      EXCEPT !.hwiddetect = d, !.detector = t, !.described = b, !.selfClosing = sc] :
     v \in {"true", "false"}, h \in {NoAttributes, "hwid" :> {"n900"}, "hwid" :> {"n9"}},
     d \in BOOLEAN, t \in {<<>>, <<"detect">>}, b \in BOOLEAN, sc \in BOOLEAN}
FeatureDocs ==
  {OfSets(<<[ASet("set1", <<[c1 EXCEPT !.a = @ @@ t], c2>>) EXCEPT !.a = @ @@ f,
                                                                  !.pre_steps = pre],
            [plain EXCEPT !.gets = <<AFile("f", "delete_after" :> TRUE)>>]>>) :
     t \in {NoAttributes, "type" :> "Unit"},
     f \in {NoAttributes, "feature" :> {"ui", "net"}},
     pre \in {<<>>, <<<<AStep("p")>>>>}}

\* Nothing in them, and two suites.
BareDocs ==
  {[ADoc(<<ASuite("suite1", s), ASuite("suite2", <<plain>>)>>) EXCEPT !.selfClosing = sc] :
     s \in {<<>>, <<ASet("set1", <<>>)>>, <<ASet("set1", <<ACase("c1", <<>>)>>), plain>>},
     sc \in BOOLEAN}

\* An empty list of steps, which goes on up to the end of that of another set,
\* with empty steps of a case in between.
MisreadDocs ==
  {[OfSets(<<[ASet("set1", <<ACase("c1", l)>>) EXCEPT !.post_steps = <<<<>>>>],
             [plain EXCEPT !.post_steps = <<<<AStep("p")>>>>,
                           !.gets = <<AFile("f", NoAttributes)>>]>>)
      EXCEPT !.selfClosing = TRUE] : l \in {<<AStep("a")>>, <<BareStep>>, <<RebootStep>>,
                                             <<RebootStep, AStep("b")>>}}

\* Texts the parser takes together or leaves out, two sets of one name, a value of
\* an attribute that is a list.
OddDocs ==
  {[OfSets(<<[ASet("set1", <<[ACase("c1", <<AnEvent(<<p>>)>>) EXCEPT !.gets = <<f, AFile("g", NoAttributes)>>,
                                                                    !.a = @ @@ r]>>)
                EXCEPT !.pre_steps = pre], [plain EXCEPT !.a = Named(n)]>>)
      EXCEPT !.hwiddetect = TRUE, !.detector = p] :
     p \in {<<"v">>, <<"v", "w">>}, n \in {"set1", "set2"}, pre \in {<<>>, <<<<AStep("p")>>>>},
     r \in {NoAttributes, "requirement" :> {"R1"}},
     f \in {AFile("f", "delete_after" :> TRUE), [AFile("f", "delete_after" :> TRUE) EXCEPT !.text = <<>>]}}

MCDocuments == OddDocs \cup MisreadDocs \cup ManualDocs \cup ListDocs \cup RebootDocs \cup GetDocs \cup EnvDocs
                 \cup FeatureDocs \cup BareDocs

Filter(k, b, v) == [key |-> k, exclude |-> b, values |-> v]
NoOptions ==
  [filters |-> <<>>, environment |-> "hardware", run_manual |-> TRUE,
   run_automatic |-> TRUE, text |-> FALSE, vcsurl |-> FALSE]
FilterLists ==
  {<<Filter("testcase", b, {"c1"})>> : b \in BOOLEAN}
    \cup {<<Filter("testset", b, {"set1"}), Filter("type", ~b, {"Unit"})>> : b \in BOOLEAN}
    \cup {<<Filter("feature", b, {"ui", "gps"}), Filter("testcase", TRUE, {"c2"}),
            Filter("level", b, {"x"})>> : b \in BOOLEAN}
    \cup {<<Filter("requirement", b, {"R1", "R2"})>> : b \in BOOLEAN}
MCOptions ==
  {[NoOptions EXCEPT !.filters = f] : f \in FilterLists}
    \cup {NoOptions, [NoOptions EXCEPT !.text = TRUE], [NoOptions EXCEPT !.vcsurl = TRUE],
          [NoOptions EXCEPT !.run_manual = FALSE], [NoOptions EXCEPT !.environment = "other"],
          [NoOptions EXCEPT !.run_automatic = FALSE, !.environment = "scratchbox"]}
==============================================================================
