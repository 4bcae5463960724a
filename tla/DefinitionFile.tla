--------------------------- MODULE DefinitionFile ---------------------------
(***************************************************************************)
(* A test definition file and how the xmlTextReader of libxml2 delivers    *)
(* it: one token per node, in document order.  The file is a tree of       *)
(* suites, sets, cases, steps and files; an element is its attributes and  *)
(* its children.  What is empty is written <x/> when selfClosing, and the  *)
(* reader then delivers no end of it.                                      *)
(***************************************************************************)
EXTENDS Sequences, SequencesExt

NoAttributes == [x \in {} |-> x]

StartToken(n, a) == [t |-> "start", n |-> n, a |-> a, empty |-> FALSE]
EmptyToken(n, a) == [t |-> "start", n |-> n, a |-> a, empty |-> TRUE]
EndToken(n)      == [t |-> "end", n |-> n, a |-> NoAttributes, empty |-> FALSE]
TextToken(v)     == [t |-> "text", n |-> v, a |-> NoAttributes, empty |-> FALSE]

ElementTokens(doc, n, a, content) ==
  IF content = <<>> /\ doc.selfClosing THEN <<EmptyToken(n, a)>>
  ELSE <<StartToken(n, a)>> \o content \o <<EndToken(n)>>

Each(Tokens(_), list) == FlattenSeq([i \in DOMAIN list |-> Tokens(list[i])])
Texts(list) == Each(LAMBDA v : <<TextToken(v)>>, list)
When(cond, tokens) == IF cond THEN tokens ELSE <<>>

StepTokens(doc, step) ==
  ElementTokens(doc, step.n, step.a,
    Texts(step.text) \o Each(LAMBDA p : ElementTokens(doc, "param", NoAttributes, Texts(p)),
                             step.params))

StepListTokens(doc, tag, lists) ==
  Each(LAMBDA l : ElementTokens(doc, tag, NoAttributes,
                                Each(LAMBDA s : StepTokens(doc, s), l)), lists)

GetTokens(doc, files) ==
  When(files # <<>>,
       ElementTokens(doc, "get", NoAttributes,
         Each(LAMBDA f : ElementTokens(doc, "file", f.a, Texts(f.text)), files)))

EnvironmentTokens(doc, envs) ==
  When(envs # <<>>,
       ElementTokens(doc, "environments", NoAttributes,
         Each(LAMBDA e : ElementTokens(doc, e.n, NoAttributes, <<TextToken(e.v)>>), envs)))

Description(doc) ==
  When(doc.described, ElementTokens(doc, "description", NoAttributes, <<TextToken("what")>>))

CaseTokens(doc, c) ==
  ElementTokens(doc, "case", c.a,
    Description(doc) \o Each(LAMBDA s : StepTokens(doc, s), c.steps) \o GetTokens(doc, c.gets))

SetTokens(doc, s) ==
  ElementTokens(doc, "set", s.a,
    Description(doc) \o StepListTokens(doc, "pre_steps", s.pre_steps)
      \o StepListTokens(doc, "post_steps", s.post_steps)
      \o StepListTokens(doc, "post_reboot_steps", s.reboot_steps)
      \o Each(LAMBDA c : CaseTokens(doc, c), s.cases)
      \o EnvironmentTokens(doc, s.envs) \o GetTokens(doc, s.gets))

SuiteTokens(doc, s) ==
  ElementTokens(doc, "suite", s.a,
    Description(doc) \o Each(LAMBDA set : SetTokens(doc, set), s.sets))

FileTokens(doc) ==
  ElementTokens(doc, "testdefinition", NoAttributes,
    When(doc.hwiddetect,
         ElementTokens(doc, "hwiddetect", NoAttributes, Texts(doc.detector)))
      \o Description(doc) \o Each(LAMBDA s : SuiteTokens(doc, s), doc.suites))

-----------------------------------------------------------------------------
(* What a file that is valid may hold.                                      *)

Every(Is(_), list) ==
  /\ list \in Seq({list[i] : i \in DOMAIN list})
  /\ \A i \in DOMAIN list : Is(list[i])

FlagNames == {"manual", "reboot", "delete_after", "measurement"}
TextNames == {"name", "type"}
ListNames == {"hwid", "feature", "requirement"}
AttributeNames == FlagNames \cup TextNames \cup ListNames
IsAttributes(a) ==
  /\ a = [k \in DOMAIN a |-> a[k]] /\ DOMAIN a \subseteq AttributeNames
  /\ \A k \in DOMAIN a : /\ k \in FlagNames => a[k] \in BOOLEAN
                         /\ k \in TextNames => a[k] \in STRING
                         /\ k \in ListNames => a[k] \in SUBSET STRING

\* A step has a command, an event has params; only a case has events.
IsStep(x) ==
  /\ x.n \in {"step", "event"} /\ IsAttributes(x.a)
  /\ x.text \in Seq(STRING) /\ x.params \in Seq(Seq(STRING))
  /\ IF x.n = "step" THEN x.params = <<>> ELSE x.text = <<>>
IsStepList(list) == Every(IsStep, list) /\ \A i \in DOMAIN list : list[i].n = "step"

IsFile(f) == IsAttributes(f.a) /\ f.text \in Seq(STRING)
IsEnvironment(e) == e.n \in {"hardware", "scratchbox"} /\ e.v \in STRING
IsCase(c) == IsAttributes(c.a) /\ Every(IsStep, c.steps) /\ Every(IsFile, c.gets)
IsSet(s) ==
  /\ IsAttributes(s.a) /\ Every(IsCase, s.cases)
  /\ Every(IsStepList, s.pre_steps) /\ Every(IsStepList, s.post_steps)
  /\ Every(IsStepList, s.reboot_steps)
  /\ Every(IsFile, s.gets) /\ Every(IsEnvironment, s.envs)
IsSuite(s) == IsAttributes(s.a) /\ Every(IsSet, s.sets)
IsDocument(doc) ==
  /\ Every(IsSuite, doc.suites) /\ doc.detector \in Seq(STRING)
  /\ {doc.selfClosing, doc.hwiddetect, doc.described} \subseteq BOOLEAN
==============================================================================
