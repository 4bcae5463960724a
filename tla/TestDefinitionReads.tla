------------------------ MODULE TestDefinitionReads -------------------------
(***************************************************************************)
(* A file on the target is removed only if its own element says so, for    *)
(* every file and every command line (OnlyMarkedFilesAreRemoved).          *)
(*                                                                         *)
(* The parser keeps no tree: what it makes of a file depends on the flags  *)
(* and structures that its functions have at hand when a token comes.  So  *)
(* the first part is again about files.  A place is where in the file a    *)
(* token is, with what has been read of the structures that are open       *)
(* there; ReadsTo(D, c, k, d) says that the token k takes the place c of   *)
(* the definition D to d, and Takes that a sequence of tokens does: they   *)
(* are a way through the machine with these moves.  DefinitionTakes proves *)
(* element by element that the tokens of a file that can be read (Readable *)
(* in TestDefinition) go through it, and what each list and structure has  *)
(* become at its end (ListRead, CaseRead, SetRead).                        *)
(*                                                                         *)
(* The second part is about the parser.  IsAt(c) says that the parser has  *)
(* at hand what has been read at the place c: the functions it is in, the  *)
(* structures (SetSeen, CaseSeen) and the flags of the element that is     *)
(* read.  Each of its actions goes along: from IsAt(c), the node that      *)
(* takes c to d makes IsAt(d) true (ReaderGoesOn).                         *)
(*                                                                         *)
(* ReaderInv, the inductive invariant, adds to DefinitionInv that what is  *)
(* left of a file that can be read leads on from a place the parser is at, *)
(* and that the set at hand has the files of one set of the file, case by  *)
(* case (SetIsOfFile).                                                     *)
(***************************************************************************)
EXTENDS TestDefinitionProofs

-----------------------------------------------------------------------------
(* The ways through a machine.  M is what its moves are: from a place, with a *)
(* token of T, to a place.                                                  *)

\* a are the places that the tokens x go through from c to d.
Through(M, a, x, c, d) ==
  /\ a[1] = c /\ a[Len(x) + 1] = d
  /\ \A i \in 1..Len(x) : <<a[i], x[i], a[i + 1]>> \in M
Way(T, M, x, c, d) == x \in Seq(T) /\ \E a : Through(M, a, x, c, d)

\* No tokens lead nowhere else.
LEMMA WayNowhere ==
  ASSUME NEW T, NEW M, NEW c
  PROVE  Way(T, M, <<>>, c, c)
<1> DEFINE a == [i \in 1..1 |-> c]
<1>1. a[1] = c /\ Len(<<>>) = 0 /\ <<>> \in Seq(T)
  OBVIOUS
<1> HIDE DEF a
<1>2. Through(M, a, <<>>, c, c)
  BY <1>1 DEF Through
<1> QED
  BY <1>1, <1>2 DEF Way

\* If there are no tokens, the places are one.
LEMMA WayOfNothing ==
  ASSUME NEW T, NEW M, NEW c, NEW d, Way(T, M, <<>>, c, d)
  PROVE  c = d
<1>1. Len(<<>>) = 0
  OBVIOUS
<1> QED
  BY <1>1 DEF Way, Through

\* One token is a move.
LEMMA WayOne ==
  ASSUME NEW T, NEW M, NEW c, NEW d, NEW k \in T, <<c, k, d>> \in M
  PROVE  Way(T, M, <<k>>, c, d)
<1> DEFINE x == <<k>>
           a == [i \in 1..2 |-> IF i = 1 THEN c ELSE d]
<1>1. x \in Seq(T) /\ Len(x) = 1 /\ x[1] = k
  OBVIOUS
<1>2. a[1] = c /\ a[2] = d
  OBVIOUS
<1> HIDE DEF a, x
<1>3. \A i \in 1..1 : <<a[i], x[i], a[i + 1]>> \in M
  BY <1>1, <1>2
<1>4. Through(M, a, x, c, d)
  BY <1>1, <1>2, <1>3 DEF Through
<1> QED
  BY <1>1, <1>4 DEF Way, x

\* What leads to a place can be followed by what leads on from there.
LEMMA WayOn ==
  ASSUME NEW T, NEW M, NEW x, NEW y, NEW c, NEW d, NEW e, Way(T, M, x, c, d), Way(T, M, y, d, e)
  PROVE  Way(T, M, x \o y, c, e)
<1>1. PICK a : Through(M, a, x, c, d)
  BY DEF Way
<1>2. PICK b : Through(M, b, y, d, e)
  BY DEF Way
<1>3. x \in Seq(T) /\ y \in Seq(T)
  BY DEF Way
<1> DEFINE n == Len(x)
           m == Len(y)
           z == x \o y
           f == [i \in 1..n + m + 1 |-> IF i <= n THEN a[i] ELSE b[i - n]]
<1>4. /\ n \in Nat /\ m \in Nat /\ z \in Seq(T) /\ Len(z) = n + m
      /\ \A i \in 1..n : z[i] = x[i]
      /\ \A i \in 1..m : z[i + n] = y[i]
  BY <1>3
<1> HIDE DEF z
<1>5. /\ \A i \in 1..n : f[i] = a[i]
      /\ \A i \in 1..m + 1 : f[i + n] = b[i]
  <2> HIDE DEF n, m
  <2>1. \A i \in 1..n : i \in 1..n + m + 1 /\ i <= n
    BY <1>4
  <2>2. \A i \in 1..m + 1 : i + n \in 1..n + m + 1 /\ ~(i + n <= n) /\ (i + n) - n = i
    BY <1>4
  <2> QED
    BY <2>1, <2>2
<1> HIDE DEF f
<1>6. f[n + 1] = d /\ f[n + m + 1] = e /\ f[1] = c /\ a[n + 1] = d
  <2>1. f[1 + n] = b[1] /\ f[(m + 1) + n] = b[m + 1]
    <3> HIDE DEF n, m
    <3>1. 1 \in 1..m + 1 /\ m + 1 \in 1..m + 1
      BY <1>4
    <3> QED
      BY <1>5, <3>1
  <2>2. a[1] = c /\ a[n + 1] = d /\ b[1] = d /\ b[m + 1] = e
    BY <1>1, <1>2 DEF Through
  <2> HIDE DEF n, m
  <2>3. n = 0 => f[1] = b[1] /\ c = d
    BY <2>1, <2>2
  <2>4. n # 0 => f[1] = a[1]
    BY <1>4, <1>5
  <2>5. 1 + n = n + 1 /\ (m + 1) + n = n + m + 1
    BY <1>4
  <2> QED
    BY <2>1, <2>2, <2>3, <2>4, <2>5
<1>7. ASSUME NEW i \in 1..n + m PROVE <<f[i], z[i], f[i + 1]>> \in M
  <2>1. /\ \A j \in 1..n : <<a[j], x[j], a[j + 1]>> \in M
        /\ \A j \in 1..m : <<b[j], y[j], b[j + 1]>> \in M
    BY <1>1, <1>2 DEF Through
  <2> HIDE DEF n, m
  <2>2. CASE i < n
    <3>1. i \in 1..n /\ i + 1 \in 1..n
      BY <1>4, <2>2
    <3>2. f[i] = a[i] /\ z[i] = x[i] /\ f[i + 1] = a[i + 1]
      BY <1>4, <1>5, <3>1
    <3> QED
      BY <2>1, <3>1, <3>2
  <2>3. CASE i = n
    <3>1. i \in 1..n
      BY <1>4, <2>3
    <3>2. f[i] = a[i] /\ z[i] = x[i] /\ f[i + 1] = a[i + 1]
      BY <1>4, <1>5, <1>6, <2>3, <3>1
    <3> QED
      BY <2>1, <3>1, <3>2
  <2>4. CASE i > n
    <3>1. PICK j \in 1..m : i = j + n
      <4>1. i - n \in 1..m /\ i = (i - n) + n
        BY <1>4, <2>4
      <4> QED
        BY <4>1
    <3>2. j + 1 \in 1..m + 1 /\ j \in 1..m + 1
      BY <1>4
    <3>3. f[j + n] = b[j] /\ z[j + n] = y[j] /\ f[(j + 1) + n] = b[j + 1]
      BY <1>4, <1>5, <3>2
    <3>4. (j + 1) + n = i + 1
      BY <1>4, <3>1
    <3> QED
      BY <2>1, <3>1, <3>3, <3>4
  <2> QED
    BY <1>4, <2>2, <2>3, <2>4
<1> HIDE DEF n, m
<1>8. Through(M, f, z, c, e)
  BY <1>4, <1>6, <1>7 DEF Through
<1> QED
  BY <1>4, <1>8 DEF Way, z

\* The first token is a move, and the others lead on.
LEMMA WayFrom ==
  ASSUME NEW T, NEW M, NEW x, NEW c, NEW d, Way(T, M, x, c, d), x # <<>>
  PROVE  Head(x) \in T /\ \E e : <<c, Head(x), e>> \in M /\ Way(T, M, Tail(x), e, d)
<1>1. PICK a : Through(M, a, x, c, d)
  BY DEF Way
<1> DEFINE y == Tail(x)
           b == [i \in 1..Len(y) + 1 |-> a[i + 1]]
<1>2. /\ x \in Seq(T) /\ Len(x) \in Nat \ {0} /\ Head(x) = x[1] /\ x[1] \in T
      /\ y \in Seq(T) /\ Len(y) = Len(x) - 1 /\ \A i \in 1..Len(y) : y[i] = x[i + 1]
  BY DEF Way
<1> HIDE DEF y
<1>3. \A i \in 1..Len(x) : <<a[i], x[i], a[i + 1]>> \in M
  BY <1>1 DEF Through
<1>4. a[1] = c /\ a[Len(x) + 1] = d
  BY <1>1 DEF Through
<1>5. /\ b[1] = a[2] /\ b[Len(y) + 1] = d
      /\ \A i \in 1..Len(y) : b[i] = a[i + 1] /\ b[i + 1] = a[(i + 1) + 1]
  BY <1>2, <1>4
<1> HIDE DEF b
<1>6. ASSUME NEW i \in 1..Len(y) PROVE <<b[i], y[i], b[i + 1]>> \in M
  <2>1. PICK j \in 1..Len(x) : j = i + 1
    BY <1>2
  <2>2. <<a[j], x[j], a[j + 1]>> \in M
    BY <1>3
  <2>3. b[i] = a[j] /\ b[i + 1] = a[j + 1] /\ y[i] = x[j]
    BY <1>2, <1>5, <2>1
  <2> QED
    BY <2>2, <2>3
<1>7. <<c, Head(x), a[2]>> \in M
  <2>1. PICK i \in 1..Len(x) : i = 1 /\ i + 1 = 2
    BY <1>2
  <2>2. <<a[i], x[i], a[i + 1]>> \in M
    BY <1>3
  <2> QED
    BY <1>2, <1>4, <2>1, <2>2
<1>8. Through(M, b, y, a[2], d)
  BY <1>5, <1>6 DEF Through
<1>9. Way(T, M, y, a[2], d)
  BY <1>2, <1>8 DEF Way
<1> QED
  BY <1>2, <1>7, <1>9 DEF y

\* With more moves, the way is still there.
LEMMA WayWithMore ==
  ASSUME NEW T, NEW M, NEW N, M \subseteq N, NEW x, NEW c, NEW d, Way(T, M, x, c, d)
  PROVE  Way(T, N, x, c, d)
<1>1. PICK a : Through(M, a, x, c, d)
  BY DEF Way
<1>2. Through(N, a, x, c, d)
  BY <1>1 DEF Through
<1> QED
  BY <1>2 DEF Way

-----------------------------------------------------------------------------
(* What is read at a place.                                                 *)

ValueIn(a, k, default) == IF k \in DOMAIN a THEN a[k] ELSE default
GenOf(a, defaults) ==
  [k \in GenAttributes |-> ValueIn(a, k, IF k = "name" THEN NULL ELSE defaults[k])]

\* The structures, with the files of a get as the set of their marks.
SetOf(gen, told, pre, post, reboot, cases, gets, envs) ==
  [gen |-> gen, described |-> told, pre_steps |-> pre, post_steps |-> post,
   post_reboot_steps |-> reboot, cases |-> cases, gets |-> gets, environments |-> envs]
CaseLike(gen, told, list, gets, none, no) ==
  [gen |-> gen, described |-> told, steps |-> list, gets |-> gets, measurements |-> none,
   series |-> none, reboot |-> none, shared |-> no, filtered |-> no]
CaseOf(gen, told, list, gets) == CaseLike(gen, told, list, gets, <<>>, FALSE)
StepOf(cmd, manual, reboot, event, params) ==
  [cmd |-> cmd, manual |-> manual, reboot |-> reboot, event |-> event, params |-> params]

NewSetOf(gen) == SetOf(gen, FALSE, <<>>, <<>>, <<>>, <<>>, {}, {"hardware", "scratchbox"})
NewCaseOf(gen) == CaseOf(gen, FALSE, <<>>, {})
CommandOf(cmd, manual, reboot) == StepOf(cmd, manual, reboot, FALSE, <<>>)
EventOf(params) == StepOf(<<>>, FALSE, FALSE, TRUE, params)
NewStepOf(a, manual) == CommandOf(<<>>, ValueIn(a, "manual", manual), ValueIn(a, "reboot", FALSE))
NewEvent == EventOf(<<>>)
Sane(c) ==
  [c EXCEPT !.gen.manual =
     IF c.steps = <<>> THEN @ ELSE \E i \in DOMAIN c.steps : c.steps[i].manual]

\* How they change.
Said(x, v) == [x EXCEPT !.cmd = Append(@, v)]
WithParam(x, p) == [x EXCEPT !.params = Append(@, p)]
Described(c) == [c EXCEPT !.described = TRUE]
Marked(c, g) == [c EXCEPT !.gets = @ \cup {g}]
WithStep(c, x) == [c EXCEPT !.steps = Append(@, x)]
WithCase(s, c) == [s EXCEPT !.cases = Append(@, c)]
WithList(s, t, l) == [s EXCEPT ![t] = Append(@, l)]
Without(s, v) == [s EXCEPT !.environments = @ \ {v}]

\* The places: before the definition and after it, in it (after the first i
\* suites, with this detector and description), in the detector,
OnStart == [at |-> "start"]
OnEnd == [at |-> "end"]
OnDefinition(i, det, told) == [at |-> "definition", i |-> i, det |-> det, told |-> told]
OnDetector(det) == [at |-> "detector", det |-> det]
\* in the suite i after j sets, in its set j, of which this has been read,
OnSuite(i, j, told) == [at |-> "suite", i |-> i, j |-> j, told |-> told]
Base(i, j, s) == [i |-> i, j |-> j, set |-> s]
OnSet(b) == [at |-> "set", b |-> b]
\* in a list or other element of a set, and in a step of a list,
OnList(b, t, l) == [at |-> "list", b |-> b, tag |-> t, list |-> l]
OnListStep(b, t, l, x) == [at |-> "liststep", b |-> b, tag |-> t, list |-> l, step |-> x]
OnEnvs(b) == [at |-> "envs", b |-> b]
OnEnv(b, v) == [at |-> "env", b |-> b, env |-> v]
OnSetGets(b, m) == [at |-> "setgets", b |-> b, mark |-> m]
\* in a case and its elements.
OnCase(b, c) == [at |-> "case", b |-> b, case |-> c]
OnCaseStep(b, c, x) == [at |-> "casestep", b |-> b, case |-> c, step |-> x]
OnCaseGets(b, c, m) == [at |-> "casegets", b |-> b, case |-> c, mark |-> m]
OnEvent(b, c, x) == [at |-> "event", b |-> b, case |-> c, step |-> x]
OnParam(b, c, x, p) == [at |-> "param", b |-> b, case |-> c, step |-> x, param |-> p]

\* The structures at the end of their elements in the file D.
DetectorOf(D) == IF D.hwiddetect THEN D.detector ELSE NoText
SuiteGen(D, i) == GenOf(D.suites[i].a, NoGen)
SetGen(D, i, j) == GenOf(D.suites[i].sets[j].a, SuiteGen(D, i))
StepRead(x, manual) ==
  IF x.n = "event" THEN EventOf(x.params)
  ELSE CommandOf(x.text, ValueIn(x.a, "manual", manual), ValueIn(x.a, "reboot", FALSE))
ListRead(l, manual) == [n \in DOMAIN l |-> StepRead(l[n], manual)]
ListsRead(ls, manual) == [n \in DOMAIN ls |-> ListRead(ls[n], manual)]
CaseRead(D, c, defaults) ==
  LET gen == GenOf(c.a, defaults)
  IN  Sane(CaseOf(gen, D.described, ListRead(c.steps, gen.manual), AskedMarks(c.gets)))
CasesRead(D, cs, gen) == [n \in DOMAIN cs |-> CaseRead(D, cs[n], gen)]
EnvsLeft(envs, n) ==
  {"hardware", "scratchbox"} \ {envs[k].n : k \in {k \in 1..n : envs[k].v = "false"}}
SetRead(D, s, gen) ==
  SetOf(gen, D.described, ListsRead(s.pre_steps, gen.manual), ListsRead(s.post_steps, gen.manual),
        ListsRead(s.reboot_steps, gen.manual), CasesRead(D, s.cases, gen), AskedMarks(s.gets),
        EnvsLeft(s.envs, Len(s.envs)))

\* The token k takes the place c to d, in the definition and its suites,
OtherEnd(k, names) == k.t = "text" \/ (k.t = "end" /\ k.n \notin names)
DefinitionReads(D, c, k, d) ==
  \/ /\ Begins(k, "hwiddetect") /\ c.i = 0 /\ c.det = NoText /\ ~c.told
     /\ d = OnDetector(NoText)
  \/ Begins(k, "description") /\ d = OnDefinition(c.i, c.det, TRUE)
  \/ OtherEnd(k, {"testdefinition", "suite"}) /\ d = c
  \/ /\ Begins(k, "suite") /\ c.i + 1 \in DOMAIN D.suites /\ k.a = D.suites[c.i + 1].a
     /\ c.det = DetectorOf(D) /\ c.told = D.described
     /\ IF k.empty THEN /\ D.suites[c.i + 1].sets = <<>> /\ ~D.described
                        /\ d = OnDefinition(c.i + 1, c.det, c.told)
        ELSE d = OnSuite(c.i + 1, 0, FALSE)
  \/ /\ Closes(k, "testdefinition") /\ c.i = Len(D.suites)
     /\ c.det = DetectorOf(D) /\ c.told = D.described /\ d = OnEnd
DetectorReads(D, c, k, d) ==
  \/ k.t = "text" /\ d = OnDetector(<<k.n>>)
  \/ Closes(k, "hwiddetect") /\ c.det = DetectorOf(D) /\ d = OnDefinition(0, c.det, FALSE)
SuiteReads(D, c, k, d) ==
  \/ Begins(k, "description") /\ d = OnSuite(c.i, c.j, TRUE)
  \/ OtherEnd(k, {"testdefinition", "suite"}) /\ d = c
  \/ /\ Begins(k, "set") /\ c.j + 1 \in DOMAIN D.suites[c.i].sets /\ c.told = D.described
     /\ k.a = D.suites[c.i].sets[c.j + 1].a
     /\ LET s == D.suites[c.i].sets[c.j + 1]
            gen == SetGen(D, c.i, c.j + 1)
        IN  IF k.empty THEN NewSetOf(gen) = SetRead(D, s, gen) /\ d = OnSuite(c.i, c.j + 1, c.told)
            ELSE d = OnSet(Base(c.i, c.j + 1, NewSetOf(gen)))
  \/ /\ Closes(k, "suite") /\ c.j = Len(D.suites[c.i].sets) /\ c.told = D.described
     /\ d = OnDefinition(c.i, DetectorOf(D), D.described)
\* in a set and its lists of steps,
With(b, s) == Base(b.i, b.j, s)
SetReads(D, c, k, d) ==
  LET b == c.b
      S == c.b.set
  IN  \/ Begins(k, "description") /\ d = OnSet(With(b, Described(S)))
      \/ OtherEnd(k, {"set"}) /\ d = c
      \/ \E t \in ListTags : Begins(k, t) /\ d = OnList(b, t, <<>>)
      \/ /\ Begins(k, "case")
         /\ LET C == NewCaseOf(GenOf(k.a, S.gen))
            IN  d = IF k.empty THEN OnSet(With(b, WithCase(S, C)))
                    ELSE OnCase(b, C)
      \/ Begins(k, "environments") /\ d = OnEnvs(b)
      \/ Begins(k, "get") /\ d = OnSetGets(b, FALSE)
      \/ /\ Closes(k, "set") /\ d = OnSuite(b.i, b.j, D.described)
         /\ S = SetRead(D, D.suites[b.i].sets[b.j], SetGen(D, b.i, b.j))
ListReads(c, k, d) ==
  \/ /\ Begins(k, "step")
     /\ LET x == NewStepOf(k.a, c.b.set.gen.manual)
        IN  d = IF k.empty /\ DOMAIN k.a = {} THEN OnList(c.b, c.tag, Append(c.list, x))
                ELSE OnListStep(c.b, c.tag, c.list, x)
  \/ /\ Closes(k, c.tag)
     /\ d = OnSet(With(c.b, WithList(c.b.set, c.tag, c.list)))
ListStepReads(c, k, d) ==
  \/ /\ k.t = "text"
     /\ d = OnListStep(c.b, c.tag, c.list, Said(c.step, k.n))
  \/ Closes(k, "step") /\ d = OnList(c.b, c.tag, Append(c.list, c.step))
\* in the other elements of a set,
EnvsReads(c, k, d) ==
  \/ k.t = "start" /\ d = OnEnv(c.b, k.n)
  \/ Closes(k, "environments") /\ d = OnSet(c.b)
EnvReads(c, k, d) ==
  \/ /\ k.t = "text"
     /\ d = IF k.n = "false"
            THEN OnEnv(With(c.b, Without(c.b.set, c.env)), c.env) ELSE c
  \/ k.t = "end" /\ k.n # "environments" /\ d = OnEnvs(c.b)
SetGetsReads(c, k, d) ==
  \/ k.t = "start" /\ d = OnSetGets(c.b, ValueIn(k.a, "delete_after", c.mark))
  \/ /\ k.t = "text"
     /\ d = OnSetGets(With(c.b, Marked(c.b.set, <<k.n, c.mark>>)), FALSE)
  \/ k.t = "end" /\ d = IF k.n = "get" THEN OnSet(c.b) ELSE c
\* in a case and its elements.
CaseReads(c, k, d) ==
  LET C == c.case
      Step(x) == OnCase(c.b, WithStep(C, x))
  IN  \/ Begins(k, "description") /\ d = OnCase(c.b, Described(C))
      \/ OtherEnd(k, {"case"}) /\ d = c
      \/ /\ Begins(k, "step")
         /\ LET x == NewStepOf(k.a, C.gen.manual)
            IN  d = IF k.empty /\ DOMAIN k.a = {} THEN Step(x) ELSE OnCaseStep(c.b, C, x)
      \/ Begins(k, "event") /\ d = IF k.empty THEN Step(NewEvent) ELSE OnEvent(c.b, C, NewEvent)
      \/ Begins(k, "get") /\ d = OnCaseGets(c.b, C, FALSE)
      \/ /\ Closes(k, "case")
         /\ d = OnSet(With(c.b, WithCase(c.b.set, Sane(C))))
CaseStepReads(c, k, d) ==
  \/ k.t = "text" /\ d = OnCaseStep(c.b, c.case, Said(c.step, k.n))
  \/ Closes(k, "step") /\ d = OnCase(c.b, WithStep(c.case, c.step))
CaseGetsReads(c, k, d) ==
  \/ k.t = "start" /\ d = OnCaseGets(c.b, c.case, ValueIn(k.a, "delete_after", c.mark))
  \/ /\ k.t = "text"
     /\ d = OnCaseGets(c.b, Marked(c.case, <<k.n, c.mark>>), FALSE)
  \/ k.t = "end" /\ d = IF k.n = "get" THEN OnCase(c.b, c.case) ELSE c
EventReads(c, k, d) ==
  \/ /\ Begins(k, "param")
     /\ d = IF k.empty THEN OnEvent(c.b, c.case, WithParam(c.step, <<>>))
            ELSE OnParam(c.b, c.case, c.step, <<>>)
  \/ Closes(k, "event") /\ d = OnCase(c.b, WithStep(c.case, c.step))
ParamReads(c, k, d) ==
  \/ k.t = "text" /\ d = OnParam(c.b, c.case, c.step, <<k.n>>)
  \/ /\ Closes(k, "param")
     /\ d = OnEvent(c.b, c.case, WithParam(c.step, c.param))

\* What has been read of a set is of the set j of the suite i.
OfSet(D, b) ==
  /\ b.i \in DOMAIN D.suites /\ b.j \in DOMAIN D.suites[b.i].sets
  /\ LET s == D.suites[b.i].sets[b.j]
     IN  /\ b.set.gen = SetGen(D, b.i, b.j)
         /\ b.set.gets \subseteq AskedMarks(s.gets)
         /\ \A n \in DOMAIN b.set.cases :
              n \in DOMAIN s.cases /\ b.set.cases[n].gets = AskedMarks(s.cases[n].gets)
LoopPlaces == {"start", "end", "definition", "detector", "suite"}
Fine(D, d) == d.at \notin LoopPlaces => OfSet(D, d.b)

Moves(D, c, k, d) ==
  \/ c.at = "start" /\ Begins(k, "testdefinition") /\ d = OnDefinition(0, NoText, FALSE)
  \/ c.at = "definition" /\ DefinitionReads(D, c, k, d)
  \/ c.at = "detector" /\ DetectorReads(D, c, k, d)
  \/ c.at = "suite" /\ SuiteReads(D, c, k, d)
  \/ c.at = "set" /\ SetReads(D, c, k, d)
  \/ c.at = "list" /\ ListReads(c, k, d)
  \/ c.at = "liststep" /\ ListStepReads(c, k, d)
  \/ c.at = "envs" /\ EnvsReads(c, k, d)
  \/ c.at = "env" /\ EnvReads(c, k, d)
  \/ c.at = "setgets" /\ SetGetsReads(c, k, d)
  \/ c.at = "case" /\ CaseReads(c, k, d)
  \/ c.at = "casestep" /\ CaseStepReads(c, k, d)
  \/ c.at = "casegets" /\ CaseGetsReads(c, k, d)
  \/ c.at = "event" /\ EventReads(c, k, d)
  \/ c.at = "param" /\ ParamReads(c, k, d)
ReadsTo(D, c, k, d) == IsToken(k) /\ Moves(D, c, k, d) /\ Fine(D, d)

\* The tokens x take the place c to d.
AreReads(D, M) == \A c, k, d : <<c, k, d>> \in M => ReadsTo(D, c, k, d)
Takes(D, x, c, d) == \E M : AreReads(D, M) /\ Way(Tokens, M, x, c, d)

\* No tokens lead nowhere else,
LEMMA TakesNone ==
  ASSUME NEW D, NEW c
  PROVE  Takes(D, <<>>, c, c)
<1>1. AreReads(D, {})
  BY DEF AreReads
<1>2. Way(Tokens, {}, <<>>, c, c)
  BY WayNowhere, Zenon
<1> QED
  BY <1>1, <1>2 DEF Takes

\* and nowhere at all.
LEMMA TakesNothing ==
  ASSUME NEW D, NEW c, NEW d, Takes(D, <<>>, c, d)
  PROVE  c = d
<1>1. PICK M : Way(Tokens, M, <<>>, c, d)
  BY DEF Takes
<1> QED
  BY <1>1, WayOfNothing, Zenon

\* One token is read.
LEMMA TakesOne ==
  ASSUME NEW D, NEW c, NEW k, NEW d, ReadsTo(D, c, k, d)
  PROVE  Takes(D, <<k>>, c, d)
<1> DEFINE M == {<<c, k, d>>}
<1>1. k \in Tokens
  BY DEF ReadsTo, IsToken
<1>2. <<c, k, d>> \in M
  OBVIOUS
<1>3. AreReads(D, M)
  <2>1. SUFFICES ASSUME NEW c1, NEW k1, NEW d1, <<c1, k1, d1>> \in M PROVE ReadsTo(D, c1, k1, d1)
    BY DEF AreReads
  <2>2. c1 = c /\ k1 = k /\ d1 = d
    BY <2>1
  <2> QED
    BY <2>2
<1> HIDE DEF M
<1>4. Way(Tokens, M, <<k>>, c, d)
  BY <1>1, <1>2, WayOne, Zenon
<1> QED
  BY <1>3, <1>4 DEF Takes

\* What takes a place to another can be followed by what goes on from there.
LEMMA TakesOn ==
  ASSUME NEW D, NEW x, NEW y, NEW c, NEW d, NEW e, Takes(D, x, c, d), Takes(D, y, d, e)
  PROVE  Takes(D, x \o y, c, e)
<1>1. PICK M : AreReads(D, M) /\ Way(Tokens, M, x, c, d)
  BY DEF Takes
<1>2. PICK N : AreReads(D, N) /\ Way(Tokens, N, y, d, e)
  BY DEF Takes
<1> DEFINE U == M \cup N
<1>3. M \subseteq U /\ N \subseteq U
  OBVIOUS
<1>4. AreReads(D, U)
  BY <1>1, <1>2, Zenon DEF AreReads
<1> HIDE DEF U
<1>5. Way(Tokens, U, x, c, d)
  BY <1>1, <1>3, WayWithMore, Zenon
<1>6. Way(Tokens, U, y, d, e)
  BY <1>2, <1>3, WayWithMore, Zenon
<1>7. Way(Tokens, U, x \o y, c, e)
  BY <1>5, <1>6, WayOn, Zenon
<1> QED
  BY <1>4, <1>7 DEF Takes

\* The first token is read, and the others go on.
LEMMA TakesFirst ==
  ASSUME NEW D, NEW x, NEW c, NEW d, Takes(D, x, c, d), x # <<>>
  PROVE  \E e : ReadsTo(D, c, Head(x), e) /\ Takes(D, Tail(x), e, d)
<1>1. PICK M : AreReads(D, M) /\ Way(Tokens, M, x, c, d)
  BY DEF Takes
<1>2. PICK e : <<c, Head(x), e>> \in M /\ Way(Tokens, M, Tail(x), e, d)
  BY <1>1, WayFrom, Zenon
<1>3. ReadsTo(D, c, Head(x), e)
  BY <1>1, <1>2, Zenon DEF AreReads
<1> QED
  BY <1>1, <1>2, <1>3 DEF Takes

\* They are tokens.
LEMMA TakesTokens ==
  ASSUME NEW D, NEW x, NEW c, NEW d, Takes(D, x, c, d)
  PROVE  x \in Seq(Tokens)
BY DEF Takes, Way

\* Sequences of tokens one after the other, the i-th of which takes the place p
\* is at i - 1 to the one it is at i.
Steps(D, e, n, p) == \A i \in 1..n : Takes(D, e[i], p[i - 1], p[i])

\* All of them take the first to the last.
LEMMA TakesEach ==
  ASSUME NEW D, NEW n \in Nat, NEW e, NEW p, Steps(D, e, n, p),
         NEW x, x = FlattenSeq([i \in 1..n |-> e[i]])
  PROVE  Takes(D, x, p[0], p[n])
<1> DEFINE S == {i \in Nat : i <= n => Takes(D, Flat(e, i), p[0], p[i])}
<1>1. 0 \in S
  <2>1. Flat(e, 0) = <<>>
    BY FlatNone
  <2> QED
    BY <2>1, TakesNone
<1>2. ASSUME NEW i \in 0..n - 1, i \in S PROVE i + 1 \in S
  <2>1. PICK m \in Nat : m = i + 1 /\ m \in 1..n /\ m - 1 = i
    OBVIOUS
  <2>2. Flat(e, m) = Flat(e, i) \o e[m]
    <3> DEFINE Y == Tokens
    <3>1. \A j \in 1..n : e[j] \in Seq(Y)
      BY TakesTokens, Zenon DEF Steps
    <3>2. Sequences(e, Y, m)
      BY <2>1, <3>1 DEF Sequences
    <3> HIDE DEF Y
    <3>3. i \in Nat
      OBVIOUS
    <3> QED
      BY <2>1, <3>2, <3>3, FlatGrows
  <2>3. Takes(D, Flat(e, i), p[0], p[i])
    BY <1>2
  <2>4. Takes(D, e[m], p[i], p[m])
    BY <2>1 DEF Steps
  <2>5. Takes(D, Flat(e, m), p[0], p[m])
    BY <2>2, <2>3, <2>4, TakesOn
  <2> QED
    BY <2>1, <2>5
<1>3. n \in S
  <2> HIDE DEF S
  <2>1. S \in SUBSET Nat
    BY DEF S
  <2> QED
    BY <1>1, <1>2, <2>1, Induction
<1> QED
  BY <1>3 DEF Flat

\* An element is read from its start over its content to its end; what is empty
\* by its one token.
LEMMA TakesElement ==
  ASSUME NEW D, NEW n, NEW a, NEW content, NEW c, NEW c1, NEW d1, NEW d,
         Takes(D, content, c1, d1),
         D.selfClosing /\ content = <<>> /\ c1 = d1 => ReadsTo(D, c, EmptyToken(n, a), d),
         ~(D.selfClosing /\ content = <<>>) =>
           ReadsTo(D, c, StartToken(n, a), c1) /\ ReadsTo(D, d1, EndToken(n), d)
  PROVE  Takes(D, ElementTokens(D, n, a, content), c, d)
<1>1. CASE D.selfClosing /\ content = <<>>
  <2> DEFINE k == EmptyToken(n, a)
  <2>1. c1 = d1
    BY <1>1, TakesNothing
  <2>2. ReadsTo(D, c, k, d) /\ ElementTokens(D, n, a, content) = <<k>>
    BY <1>1, <2>1 DEF ElementTokens
  <2> HIDE DEF k
  <2> QED
    BY <2>2, TakesOne
<1>2. CASE ~(D.selfClosing /\ content = <<>>)
  <2> DEFINE k == StartToken(n, a)
             l == EndToken(n)
  <2>1. ElementTokens(D, n, a, content) = <<k>> \o content \o <<l>>
    BY <1>2 DEF ElementTokens
  <2>2. ReadsTo(D, c, k, c1) /\ ReadsTo(D, d1, l, d)
    BY <1>2
  <2> HIDE DEF k, l
  <2>3. Takes(D, <<k>>, c, c1) /\ Takes(D, <<l>>, d1, d)
    BY <2>2, TakesOne
  <2>4. Takes(D, <<k>> \o content, c, d1)
    BY <2>3, TakesOn
  <2>5. Takes(D, (<<k>> \o content) \o <<l>>, c, d)
    BY <2>3, <2>4, TakesOn
  <2> QED
    BY <2>1, <2>5
<1> QED
  BY <1>1, <1>2

-----------------------------------------------------------------------------
(* Lists that grow while they are read.                                     *)

Pre(f, n) == [i \in 1..n |-> f[i]]

\* The first elements of a list.
LEMMA PreGrows ==
  ASSUME NEW f, NEW n \in Nat
  PROVE  /\ Pre(f, 0) = <<>> /\ Len(Pre(f, n)) = n /\ DOMAIN Pre(f, n) = 1..n
         /\ Append(Pre(f, n), f[n + 1]) = Pre(f, n + 1)
         /\ \A i \in 1..n : Pre(f, n)[i] = f[i]
<1> DEFINE X == {f[i] : i \in 1..n + 1}
           s == Pre(f, n)
           t == Pre(f, n + 1)
<1>1. \A i \in 1..n + 1 : f[i] \in X
  OBVIOUS
<1> HIDE DEF X
<1>2. s \in Seq(X) /\ t \in Seq(X) /\ Len(s) = n /\ Len(t) = n + 1 /\ f[n + 1] \in X
  BY <1>1 DEF Pre
<1>3. \A i \in 1..n + 1 : t[i] = f[i] /\ (i \in 1..n => s[i] = f[i])
  BY DEF Pre
<1> HIDE DEF s, t
<1>4. Append(s, f[n + 1]) \in Seq(X) /\ Len(Append(s, f[n + 1])) = n + 1
  BY <1>2
<1>5. \A i \in 1..n + 1 : Append(s, f[n + 1])[i] = t[i]
  <2>1. \A i \in 1..n + 1 : i \in 1..n \/ i = n + 1
    OBVIOUS
  <2> QED
    BY <1>2, <1>3, <2>1
<1>6. Append(s, f[n + 1]) = t
  BY <1>2, <1>4, <1>5
<1>7. Pre(f, 0) = <<>>
  BY DEF Pre
<1>8. Len(Pre(f, n)) = n /\ DOMAIN Pre(f, n) = 1..n /\ \A i \in 1..n : Pre(f, n)[i] = f[i]
  BY <1>2, <1>3 DEF s, Pre
<1> QED
  BY <1>6, <1>7, <1>8 DEF s, t

\* All of them.
LEMMA PreAll ==
  ASSUME NEW l, NEW n \in Nat, DOMAIN l = 1..n, l = [i \in DOMAIN l |-> l[i]]
  PROVE  Pre(l, n) = l
BY DEF Pre

\* A list of a file has a length and its elements.
LEMMA ListIs ==
  ASSUME NEW list, list \in Seq({list[i] : i \in DOMAIN list})
  PROVE  /\ Len(list) \in Nat /\ DOMAIN list = 1..Len(list)
         /\ list = [i \in DOMAIN list |-> list[i]] /\ Pre(list, Len(list)) = list
         /\ (Len(list) = 0 <=> list = <<>>)
<1>1. /\ Len(list) \in Nat /\ DOMAIN list = 1..Len(list)
      /\ list = [i \in DOMAIN list |-> list[i]] /\ (Len(list) = 0 <=> list = <<>>)
  OBVIOUS
<1> QED
  BY <1>1, PreAll

\* The structures change where they are changed.
LEMMA StepChanges ==
  /\ \A cmd, manual, reboot, v :
       /\ Said(CommandOf(cmd, manual, reboot), v) = CommandOf(Append(cmd, v), manual, reboot)
       /\ CommandOf(cmd, manual, reboot).cmd = cmd
  /\ \A params, v :
       /\ WithParam(EventOf(params), v) = EventOf(Append(params, v))
       /\ EventOf(params).params = params
<1> DEFINE none == <<>>
           no == FALSE
           yes == TRUE
<1>1. /\ \A cmd, manual, reboot : CommandOf(cmd, manual, reboot) = StepOf(cmd, manual, reboot, no, none)
      /\ \A params : EventOf(params) = StepOf(none, no, no, yes, params)
  BY DEF CommandOf, EventOf
<1> HIDE DEF none, no, yes
<1>2. ASSUME NEW cmd, NEW manual, NEW reboot, NEW event, NEW params, NEW v
      PROVE  /\ Said(StepOf(cmd, manual, reboot, event, params), v)
                  = StepOf(Append(cmd, v), manual, reboot, event, params)
             /\ StepOf(cmd, manual, reboot, event, params).cmd = cmd
  BY DEF StepOf, Said
<1>3. ASSUME NEW cmd, NEW manual, NEW reboot, NEW event, NEW params, NEW v
      PROVE  /\ WithParam(StepOf(cmd, manual, reboot, event, params), v)
                  = StepOf(cmd, manual, reboot, event, Append(params, v))
             /\ StepOf(cmd, manual, reboot, event, params).params = params
  BY DEF StepOf, WithParam
<1> QED
  BY <1>1, <1>2, <1>3

\* What has changed in a case,
LEMMA CaseChanges ==
  \A gen, told, list, gets, x, g :
    LET c == CaseOf(gen, told, list, gets)
    IN  /\ c.gen = gen /\ c.steps = list /\ c.gets = gets
        /\ Described(c) = CaseOf(gen, TRUE, list, gets)
        /\ [c EXCEPT !.gen = x] = CaseOf(x, told, list, gets)
        /\ [c EXCEPT !.steps = x] = CaseOf(gen, told, x, gets)
        /\ WithStep(c, x) = CaseOf(gen, told, Append(list, x), gets)
        /\ Marked(c, g) = CaseOf(gen, told, list, gets \cup {g})
<1> TAKE gen, told, list, gets, x, g
<1> DEFINE none == <<>>
           no == FALSE
           yes == TRUE
           c == CaseLike(gen, told, list, gets, none, no)
<1> HIDE DEF none, no, yes
<1>1. c.gen = gen /\ c.steps = list /\ c.gets = gets
  BY DEF CaseLike, Described, Marked, WithStep
<1>2. Described(c) = CaseLike(gen, yes, list, gets, none, no)
  <2>1. [c EXCEPT !.described = yes] = CaseLike(gen, yes, list, gets, none, no)
    BY DEF CaseLike
  <2> HIDE DEF c
  <2> QED
    BY <2>1 DEF Described, yes
<1>3. [c EXCEPT !.gen = x] = CaseLike(x, told, list, gets, none, no)
  BY DEF CaseLike, Described, Marked, WithStep
<1>4. [c EXCEPT !.steps = x] = CaseLike(gen, told, x, gets, none, no)
  BY DEF CaseLike, Described, Marked, WithStep
<1>5. WithStep(c, x) = CaseLike(gen, told, Append(list, x), gets, none, no)
  BY DEF CaseLike, Described, Marked, WithStep
<1>6. Marked(c, g) = CaseLike(gen, told, list, gets \cup {g}, none, no)
  BY DEF CaseLike, Described, Marked, WithStep
<1>7. CaseOf(gen, told, list, gets) = c /\ yes = TRUE
  BY DEF CaseOf, none, no, yes
<1>8. /\ CaseOf(gen, TRUE, list, gets) = CaseLike(gen, yes, list, gets, none, no)
      /\ CaseOf(x, told, list, gets) = CaseLike(x, told, list, gets, none, no)
      /\ CaseOf(gen, told, x, gets) = CaseLike(gen, told, x, gets, none, no)
      /\ CaseOf(gen, told, Append(list, x), gets) = CaseLike(gen, told, Append(list, x), gets, none, no)
      /\ CaseOf(gen, told, list, gets \cup {g}) = CaseLike(gen, told, list, gets \cup {g}, none, no)
  BY DEF CaseOf, none, no, yes
<1> HIDE DEF c
<1> QED
  BY <1>1, <1>2, <1>3, <1>4, <1>5, <1>6, <1>7, <1>8

\* and in a set.
LEMMA SetChanges ==
  \A gen, told, pre, post, reboot, cases, gets, envs, x :
    LET s == SetOf(gen, told, pre, post, reboot, cases, gets, envs)
    IN  /\ s.gen = gen /\ s.cases = cases /\ s.gets = gets
        /\ Described(s) = SetOf(gen, TRUE, pre, post, reboot, cases, gets, envs)
        /\ WithList(s, "pre_steps", x)
             = SetOf(gen, told, Append(pre, x), post, reboot, cases, gets, envs)
        /\ WithList(s, "post_steps", x)
             = SetOf(gen, told, pre, Append(post, x), reboot, cases, gets, envs)
        /\ WithList(s, "post_reboot_steps", x)
             = SetOf(gen, told, pre, post, Append(reboot, x), cases, gets, envs)
        /\ WithCase(s, x)
             = SetOf(gen, told, pre, post, reboot, Append(cases, x), gets, envs)
        /\ Marked(s, x)
             = SetOf(gen, told, pre, post, reboot, cases, gets \cup {x}, envs)
        /\ Without(s, x)
             = SetOf(gen, told, pre, post, reboot, cases, gets, envs \ {x})
<1> TAKE gen, told, pre, post, reboot, cases, gets, envs, x
<1> DEFINE s == SetOf(gen, told, pre, post, reboot, cases, gets, envs)
<1>1. s.gen = gen /\ s.cases = cases /\ s.gets = gets
  BY DEF SetOf, Marked, WithCase, WithList, Without
<1>2. Described(s) = SetOf(gen, TRUE, pre, post, reboot, cases, gets, envs)
  <2>1. \A t : [s EXCEPT !.described = t] = SetOf(gen, t, pre, post, reboot, cases, gets, envs)
    BY DEF SetOf
  <2> HIDE DEF s
  <2> QED
    BY <2>1 DEF Described
<1>3. WithList(s, "pre_steps", x) = SetOf(gen, told, Append(pre, x), post, reboot, cases, gets, envs)
  BY DEF SetOf, Marked, WithCase, WithList, Without
<1>4. WithList(s, "post_steps", x) = SetOf(gen, told, pre, Append(post, x), reboot, cases, gets, envs)
  BY DEF SetOf, Marked, WithCase, WithList, Without
<1>5. WithList(s, "post_reboot_steps", x) = SetOf(gen, told, pre, post, Append(reboot, x), cases, gets, envs)
  BY DEF SetOf, Marked, WithCase, WithList, Without
<1>6. WithCase(s, x) = SetOf(gen, told, pre, post, reboot, Append(cases, x), gets, envs)
  BY DEF SetOf, Marked, WithCase, WithList, Without
<1>7. Marked(s, x) = SetOf(gen, told, pre, post, reboot, cases, gets \cup {x}, envs)
  BY DEF SetOf, Marked, WithCase, WithList, Without
<1>8. Without(s, x) = SetOf(gen, told, pre, post, reboot, cases, gets, envs \ {x})
  BY DEF SetOf, Marked, WithCase, WithList, Without
<1> QED
  BY <1>1, <1>2, <1>3, <1>4, <1>5, <1>6, <1>7, <1>8

\* The tokens of an element.
LEMMA ElementTypes ==
  ASSUME NEW n \in Names, NEW a, IsAttributes(a)
  PROVE  /\ IsToken(StartToken(n, a)) /\ StartToken(n, a).t = "start" /\ StartToken(n, a).n = n
         /\ StartToken(n, a).a = a /\ ~StartToken(n, a).empty /\ Begins(StartToken(n, a), n)
         /\ IsToken(EmptyToken(n, a)) /\ EmptyToken(n, a).t = "start" /\ EmptyToken(n, a).n = n
         /\ EmptyToken(n, a).a = a /\ EmptyToken(n, a).empty /\ Begins(EmptyToken(n, a), n)
         /\ IsToken(EndToken(n)) /\ EndToken(n).t = "end" /\ EndToken(n).n = n
         /\ Closes(EndToken(n), n)
<1>1. IsToken(StartToken(n, a)) /\ IsToken(EmptyToken(n, a)) /\ IsToken(EndToken(n))
  BY TokenTypes
<1> QED
  BY <1>1 DEF StartToken, EmptyToken, EndToken, Begins, Closes

\* The tokens of texts, each of which takes a place p to the next.
LEMMA TextsTake ==
  ASSUME NEW D, NEW list \in Seq(Words), NEW p,
         \A i \in 1..Len(list) : ReadsTo(D, p[i - 1], TextToken(list[i]), p[i])
  PROVE  Takes(D, Texts(list), p[0], p[Len(list)])
<1> DEFINE n == Len(list)
           e == [i \in 1..n |-> <<TextToken(list[i])>>]
<1>1. Texts(list) = FlattenSeq([i \in DOMAIN list |-> <<TextToken(list[i])>>])
  BY Zenon DEF Texts, Each
<1>2. Texts(list) = FlattenSeq([i \in 1..n |-> e[i]])
  <2>1. [i \in DOMAIN list |-> <<TextToken(list[i])>>] = [i \in 1..n |-> e[i]]
    OBVIOUS
  <2> QED
    BY <1>1, <2>1
<1>3. ASSUME NEW i \in 1..n PROVE Takes(D, e[i], p[i - 1], p[i])
  <2>1. Takes(D, <<TextToken(list[i])>>, p[i - 1], p[i])
    BY TakesOne
  <2> QED
    BY <2>1
<1>4. n \in Nat
  OBVIOUS
<1> HIDE DEF e, n
<1>5. Steps(D, e, n, p)
  BY <1>3 DEF Steps
<1>6. Takes(D, Texts(list), p[0], p[n])
  BY <1>2, <1>4, <1>5, TakesEach
<1> QED
  BY <1>6 DEF n

\* A text is a token.
LEMMA TextIs ==
  ASSUME NEW v \in Words
  PROVE  IsToken(TextToken(v)) /\ TextToken(v).t = "text" /\ TextToken(v).n = v
BY TextTypes DEF TextToken

-----------------------------------------------------------------------------
(* Steps, events and params.                                                *)

\* Where steps are read: in a case or in a list of a set.
Holder(D, h) ==
  /\ OfSet(D, h.b)
  /\ \/ \E gen, told, l, gets : h = OnCase(h.b, CaseOf(gen, told, l, gets))
     \/ \E t, l : h = OnList(h.b, t, l)
StepsAt(h) == IF h.at = "case" THEN h.case.steps ELSE h.list
ManualAt(h) == IF h.at = "case" THEN h.case.gen.manual ELSE h.b.set.gen.manual
WithSteps(h, l) ==
  IF h.at = "case" THEN OnCase(h.b, [h.case EXCEPT !.steps = l]) ELSE OnList(h.b, h.tag, l)
InStep(h, x) ==
  IF h.at = "case" THEN OnCaseStep(h.b, h.case, x) ELSE OnListStep(h.b, h.tag, h.list, x)
Added(h, x) == WithSteps(h, Append(StepsAt(h), x))

\* A holder has its steps.
LEMMA HolderIs ==
  ASSUME NEW D, NEW h, Holder(D, h)
  PROVE  /\ h.at \in {"case", "list"} /\ WithSteps(h, StepsAt(h)) = h
         /\ \A l : /\ Holder(D, WithSteps(h, l)) /\ StepsAt(WithSteps(h, l)) = l
                   /\ ManualAt(WithSteps(h, l)) = ManualAt(h)
                   /\ WithSteps(h, l).at = h.at
                   /\ \A m : WithSteps(WithSteps(h, l), m) = WithSteps(h, m)
<1>1. CASE \E gen, told, l, gets : h = OnCase(h.b, CaseOf(gen, told, l, gets))
  <2>1. PICK gen, told, l, gets : h = OnCase(h.b, CaseOf(gen, told, l, gets))
    BY <1>1
  <2>2. h.at = "case" /\ h.case = CaseOf(gen, told, l, gets) /\ StepsAt(h) = l
    <3>1. h.at = "case" /\ h.case = CaseOf(gen, told, l, gets)
      BY <2>1 DEF OnCase
    <3> QED
      BY <3>1, CaseChanges DEF StepsAt
  <2>3. ASSUME NEW m PROVE WithSteps(h, m) = OnCase(h.b, CaseOf(gen, told, m, gets))
    BY <2>2, CaseChanges DEF WithSteps
  <2>4. ASSUME NEW m
        PROVE  /\ WithSteps(h, m).at = "case" /\ WithSteps(h, m).b = h.b
               /\ WithSteps(h, m).case = CaseOf(gen, told, m, gets)
               /\ WithSteps(h, m).case.steps = m
               /\ WithSteps(h, m).case.gen = gen
    BY <2>3, CaseChanges DEF OnCase
  <2>5. h.case.gen = gen
    BY <2>2, CaseChanges
  <2>6. ASSUME NEW m
        PROVE  /\ Holder(D, WithSteps(h, m)) /\ StepsAt(WithSteps(h, m)) = m
               /\ ManualAt(WithSteps(h, m)) = ManualAt(h) /\ WithSteps(h, m).at = h.at
    <3>1. WithSteps(h, m) = OnCase(WithSteps(h, m).b, CaseOf(gen, told, m, gets))
      BY <2>3, <2>4
    <3>2. Holder(D, WithSteps(h, m))
      <4>1. OfSet(D, WithSteps(h, m).b)
        BY <2>4 DEF Holder
      <4> QED
        BY <3>1, <4>1, Zenon DEF Holder
    <3> QED
      BY <3>2, <2>4, <2>5, <2>2 DEF StepsAt, ManualAt
  <2>7. ASSUME NEW m, NEW q PROVE WithSteps(WithSteps(h, m), q) = WithSteps(h, q)
    <3> DEFINE g == WithSteps(h, m)
    <3>1. g.at = "case" /\ g.b = h.b /\ g.case = CaseOf(gen, told, m, gets)
      BY <2>4
    <3> HIDE DEF g
    <3>2. WithSteps(g, q) = OnCase(h.b, CaseOf(gen, told, q, gets))
      BY <3>1, CaseChanges DEF WithSteps
    <3> QED
      BY <2>3, <3>2 DEF g
  <2> QED
    BY <2>1, <2>2, <2>3, <2>6, <2>7
<1>2. CASE \E t, l : h = OnList(h.b, t, l)
  <2>1. PICK t, l : h = OnList(h.b, t, l)
    BY <1>2
  <2>2. h.at = "list" /\ h.tag = t /\ h.list = l /\ StepsAt(h) = l
    BY <2>1 DEF OnList, StepsAt
  <2>3. ASSUME NEW m PROVE WithSteps(h, m) = OnList(h.b, t, m)
    BY <2>2 DEF WithSteps
  <2>4. ASSUME NEW m
        PROVE  /\ WithSteps(h, m).at = "list" /\ WithSteps(h, m).b = h.b
               /\ WithSteps(h, m).tag = t /\ WithSteps(h, m).list = m
    BY <2>3 DEF OnList
  <2>6. ASSUME NEW m
        PROVE  /\ Holder(D, WithSteps(h, m)) /\ StepsAt(WithSteps(h, m)) = m
               /\ ManualAt(WithSteps(h, m)) = ManualAt(h) /\ WithSteps(h, m).at = h.at
    <3>1. WithSteps(h, m) = OnList(WithSteps(h, m).b, t, m)
      BY <2>3, <2>4
    <3>2. Holder(D, WithSteps(h, m))
      <4>1. OfSet(D, WithSteps(h, m).b)
        BY <2>4 DEF Holder
      <4> QED
        BY <3>1, <4>1, Zenon DEF Holder
    <3> QED
      BY <3>2, <2>4, <2>2 DEF StepsAt, ManualAt
  <2>7. ASSUME NEW m, NEW q PROVE WithSteps(WithSteps(h, m), q) = WithSteps(h, q)
    <3> DEFINE g == WithSteps(h, m)
    <3>1. g.at = "list" /\ g.b = h.b /\ g.tag = t
      BY <2>4
    <3> HIDE DEF g
    <3>2. WithSteps(g, q) = OnList(h.b, t, q)
      BY <3>1 DEF WithSteps
    <3> QED
      BY <2>3, <3>2 DEF g
  <2> QED
    BY <2>1, <2>2, <2>3, <2>6, <2>7
<1> QED
  BY <1>1, <1>2 DEF Holder

\* How a step is read there.
LEMMA HolderReads ==
  ASSUME NEW D, NEW h, Holder(D, h), NEW k, IsToken(k)
  PROVE  /\ Begins(k, "step") =>
              LET x == NewStepOf(k.a, ManualAt(h))
              IN  ReadsTo(D, h, k, IF k.empty /\ DOMAIN k.a = {} THEN Added(h, x) ELSE InStep(h, x))
         /\ \A x : k.t = "text" =>
              ReadsTo(D, InStep(h, x), k, InStep(h, Said(x, k.n)))
         /\ \A x : Closes(k, "step") => ReadsTo(D, InStep(h, x), k, Added(h, x))
<1>1. \A x : /\ InStep(h, x).at \in {"casestep", "liststep"} /\ InStep(h, x).b = h.b
             /\ Added(h, x).at = h.at /\ Added(h, x).b = h.b /\ InStep(h, x).step = x
  <2>1. h.at \in {"case", "list"}
    BY HolderIs
  <2> QED
    BY <2>1 DEF InStep, Added, WithSteps, OnCase, OnList, OnCaseStep, OnListStep
<1>2. OfSet(D, h.b)
  BY DEF Holder
<1>3. \A x : Fine(D, InStep(h, x)) /\ Fine(D, Added(h, x))
  BY <1>1, <1>2 DEF Fine
<1>4. CASE h.at = "case"
  <2>1. ASSUME NEW x PROVE /\ InStep(h, x) = OnCaseStep(h.b, h.case, x)
                           /\ Added(h, x) = OnCase(h.b, WithStep(h.case, x))
    <3>1. PICK gen, told, l, gets : h.case = CaseOf(gen, told, l, gets)
      BY <1>4 DEF Holder, OnCase, OnList
    <3>2. h.case.steps = l /\ WithStep(h.case, x) = [h.case EXCEPT !.steps = Append(l, x)]
      <4>1. /\ h.case.steps = l /\ WithStep(h.case, x) = CaseOf(gen, told, Append(l, x), gets)
            /\ \A m : [h.case EXCEPT !.steps = m] = CaseOf(gen, told, m, gets)
        BY <3>1, CaseChanges
      <4> QED
        BY <4>1
    <3> QED
      BY <1>4, <3>2 DEF InStep, Added, WithSteps, StepsAt
  <2>2. ManualAt(h) = h.case.gen.manual
    BY <1>4 DEF ManualAt
  <2>3. ASSUME Begins(k, "step")
        PROVE  LET x == NewStepOf(k.a, ManualAt(h))
               IN  ReadsTo(D, h, k, IF k.empty /\ DOMAIN k.a = {} THEN Added(h, x) ELSE InStep(h, x))
    <3> DEFINE x == NewStepOf(k.a, ManualAt(h))
               d == IF k.empty /\ DOMAIN k.a = {} THEN Added(h, x) ELSE InStep(h, x)
    <3>1. d = IF k.empty /\ DOMAIN k.a = {} THEN OnCase(h.b, WithStep(h.case, x))
              ELSE OnCaseStep(h.b, h.case, x)
      BY <2>1
    <3>2. Fine(D, d)
      BY <1>3
    <3> HIDE DEF d
    <3>3. CaseReads(h, k, d)
      BY <2>2, <2>3, <3>1 DEF CaseReads
    <3>4. ReadsTo(D, h, k, d)
      BY <1>4, <3>2, <3>3 DEF ReadsTo, Moves
    <3> QED
      BY <3>4 DEF d
  <2>4. ASSUME NEW x, k.t = "text"
        PROVE  ReadsTo(D, InStep(h, x), k, InStep(h, Said(x, k.n)))
    <3> DEFINE y == Said(x, k.n)
               c == InStep(h, x)
               d == InStep(h, y)
    <3>1. c = OnCaseStep(h.b, h.case, x) /\ d = OnCaseStep(h.b, h.case, y) /\ Fine(D, d)
      BY <1>3, <2>1
    <3>2. c.at = "casestep" /\ c.b = h.b /\ c.case = h.case /\ c.step = x
      BY <3>1 DEF OnCaseStep
    <3> HIDE DEF c, d
    <3>3. CaseStepReads(c, k, d)
      BY <2>4, <3>1, <3>2 DEF CaseStepReads
    <3>4. ReadsTo(D, c, k, d)
      BY <3>1, <3>2, <3>3 DEF ReadsTo, Moves
    <3> QED
      BY <3>4 DEF c, d
  <2>5. ASSUME NEW x, Closes(k, "step")
        PROVE  ReadsTo(D, InStep(h, x), k, Added(h, x))
    <3> DEFINE c == InStep(h, x)
               d == Added(h, x)
    <3>1. c = OnCaseStep(h.b, h.case, x) /\ d = OnCase(h.b, WithStep(h.case, x))
          /\ Fine(D, d)
      BY <1>3, <2>1
    <3>2. c.at = "casestep" /\ c.b = h.b /\ c.case = h.case /\ c.step = x
      BY <3>1 DEF OnCaseStep
    <3> HIDE DEF c, d
    <3>3. CaseStepReads(c, k, d)
      BY <2>5, <3>1, <3>2 DEF CaseStepReads
    <3>4. ReadsTo(D, c, k, d)
      BY <3>1, <3>2, <3>3 DEF ReadsTo, Moves
    <3> QED
      BY <3>4 DEF c, d
  <2> QED
    BY <2>3, <2>4, <2>5
<1>5. CASE h.at = "list"
  <2>1. ASSUME NEW x PROVE /\ InStep(h, x) = OnListStep(h.b, h.tag, h.list, x)
                           /\ Added(h, x) = OnList(h.b, h.tag, Append(h.list, x))
    BY <1>5 DEF InStep, Added, WithSteps, StepsAt
  <2>2. ManualAt(h) = h.b.set.gen.manual
    BY <1>5 DEF ManualAt
  <2>3. ASSUME Begins(k, "step")
        PROVE  LET x == NewStepOf(k.a, ManualAt(h))
               IN  ReadsTo(D, h, k, IF k.empty /\ DOMAIN k.a = {} THEN Added(h, x) ELSE InStep(h, x))
    <3> DEFINE x == NewStepOf(k.a, ManualAt(h))
               d == IF k.empty /\ DOMAIN k.a = {} THEN Added(h, x) ELSE InStep(h, x)
    <3>1. d = IF k.empty /\ DOMAIN k.a = {} THEN OnList(h.b, h.tag, Append(h.list, x))
              ELSE OnListStep(h.b, h.tag, h.list, x)
      BY <2>1
    <3>2. Fine(D, d)
      BY <1>3
    <3> HIDE DEF d
    <3>3. ListReads(h, k, d)
      BY <2>2, <2>3, <3>1 DEF ListReads
    <3>4. ReadsTo(D, h, k, d)
      BY <1>5, <3>2, <3>3 DEF ReadsTo, Moves
    <3> QED
      BY <3>4 DEF d
  <2>4. ASSUME NEW x, k.t = "text"
        PROVE  ReadsTo(D, InStep(h, x), k, InStep(h, Said(x, k.n)))
    <3> DEFINE y == Said(x, k.n)
               c == InStep(h, x)
               d == InStep(h, y)
    <3>1. c = OnListStep(h.b, h.tag, h.list, x) /\ d = OnListStep(h.b, h.tag, h.list, y) /\ Fine(D, d)
      BY <1>3, <2>1
    <3>2. c.at = "liststep" /\ c.b = h.b /\ c.tag = h.tag /\ c.list = h.list /\ c.step = x
      BY <3>1 DEF OnListStep
    <3> HIDE DEF c, d
    <3>3. ListStepReads(c, k, d)
      BY <2>4, <3>1, <3>2 DEF ListStepReads
    <3>4. ReadsTo(D, c, k, d)
      BY <3>1, <3>2, <3>3 DEF ReadsTo, Moves
    <3> QED
      BY <3>4 DEF c, d
  <2>5. ASSUME NEW x, Closes(k, "step")
        PROVE  ReadsTo(D, InStep(h, x), k, Added(h, x))
    <3> DEFINE c == InStep(h, x)
               d == Added(h, x)
    <3>1. c = OnListStep(h.b, h.tag, h.list, x) /\ d = OnList(h.b, h.tag, Append(h.list, x)) /\ Fine(D, d)
      BY <1>3, <2>1
    <3>2. c.at = "liststep" /\ c.b = h.b /\ c.tag = h.tag /\ c.list = h.list /\ c.step = x
      BY <3>1 DEF OnListStep
    <3> HIDE DEF c, d
    <3>3. ListStepReads(c, k, d)
      BY <2>5, <3>1, <3>2 DEF ListStepReads
    <3>4. ReadsTo(D, c, k, d)
      BY <3>1, <3>2, <3>3 DEF ReadsTo, Moves
    <3> QED
      BY <3>4 DEF c, d
  <2> QED
    BY <2>3, <2>4, <2>5
<1> QED
  BY <1>4, <1>5, HolderIs

\* The texts of a step are its command.
LEMMA CommandTakes ==
  ASSUME NEW D, NEW h, Holder(D, h), NEW list \in Seq(STRING), NEW manual, NEW reboot
  PROVE  Takes(D, Texts(list), InStep(h, CommandOf(<<>>, manual, reboot)),
               InStep(h, CommandOf(list, manual, reboot)))
<1> DEFINE n == Len(list)
           X(i) == CommandOf(Pre(list, i), manual, reboot)
           p == [i \in 0..n |-> InStep(h, X(i))]
<1>1. n \in Nat /\ DOMAIN list = 1..n /\ list = [i \in DOMAIN list |-> list[i]]
      /\ list \in Seq(Words)
  BY StringsAreWords
<1>2. ASSUME NEW i \in 1..n PROVE ReadsTo(D, p[i - 1], TextToken(list[i]), p[i])
  <2>1. PICK j \in 0..n - 1 : j = i - 1 /\ j \in Nat /\ j + 1 = i
    BY <1>1
  <2> DEFINE k == TextToken(list[i])
             x == X(j)
  <2>2. IsToken(k) /\ k.t = "text" /\ k.n = list[j + 1]
    <3>1. list[i] \in Words
      BY <1>1
    <3> QED
      BY <3>1, <2>1, TextIs
  <2> HIDE DEF k
  <2>3. Said(x, k.n) = X(i)
    <3>1. Append(Pre(list, j), list[j + 1]) = Pre(list, i)
      BY <2>1, PreGrows
    <3>2. Said(x, k.n) = CommandOf(Append(Pre(list, j), k.n), manual, reboot)
      <4>1. \A cmd, v : Said(CommandOf(cmd, manual, reboot), v)
                         = CommandOf(Append(cmd, v), manual, reboot)
        BY StepChanges, Zenon
      <4> QED
        BY <4>1
    <3> QED
      BY <2>2, <3>1, <3>2
  <2>4. p[i - 1] = InStep(h, x) /\ p[i] = InStep(h, X(i))
    BY <1>1, <2>1
  <2> HIDE DEF x, X, p
  <2>5. ReadsTo(D, InStep(h, x), k, InStep(h, Said(x, k.n)))
    BY <2>2, HolderReads
  <2> QED
    BY <2>3, <2>4, <2>5 DEF k
<1>3. p[0] = InStep(h, CommandOf(<<>>, manual, reboot))
      /\ p[n] = InStep(h, CommandOf(list, manual, reboot))
  <2>1. Pre(list, 0) = <<>>
    BY PreGrows
  <2>2. Pre(list, n) = list
    BY <1>1, PreAll
  <2>3. p[0] = InStep(h, X(0)) /\ p[n] = InStep(h, X(n))
    BY <1>1
  <2> QED
    BY <2>1, <2>2, <2>3
<1> HIDE DEF p
<1>4. Takes(D, Texts(list), p[0], p[n])
  BY <1>1, <1>2, TextsTake
<1> QED
  BY <1>3, <1>4

\* A step is read where steps are.
LEMMA StepTakes ==
  ASSUME NEW D, NEW h, Holder(D, h), NEW x, IsStep(x), x.n = "step",
         D.selfClosing => ~StepIsMisread(x)
  PROVE  Takes(D, StepTokens(D, x), h, Added(h, StepRead(x, ManualAt(h))))
<1> DEFINE texts == Texts(x.text)
           params == FlattenSeq([i \in DOMAIN x.params |->
                                   ElementTokens(D, "param", NoAttributes, Texts(x.params[i]))])
           content == texts \o params
           s0 == NewStepOf(x.a, ManualAt(h))
           s1 == StepRead(x, ManualAt(h))
           manual == ValueIn(x.a, "manual", ManualAt(h))
           reboot == ValueIn(x.a, "reboot", FALSE)
<1>1. StepTokens(D, x) = ElementTokens(D, "step", x.a, content)
  BY Zenon DEF StepTokens, Each
<1>2. x.text \in Seq(STRING) /\ x.params = <<>> /\ IsAttributes(x.a)
  BY DEF IsStep
<1>3. s0 = CommandOf(<<>>, manual, reboot) /\ s1 = CommandOf(x.text, manual, reboot)
  BY DEF NewStepOf, StepRead
<1>4. Takes(D, texts, InStep(h, s0), InStep(h, s1))
  BY <1>2, <1>3, CommandTakes
<1>5. content = texts
  <2>1. params = <<>>
    BY <1>2, FlattenEmpty
  <2>2. texts \in Seq(Tokens)
    BY <1>4, TakesTokens
  <2> HIDE DEF params, texts
  <2> QED
    BY <2>1, <2>2
<1> DEFINE k == StartToken("step", x.a)
           e == EmptyToken("step", x.a)
           l == EndToken("step")
<1>6. /\ IsToken(k) /\ Begins(k, "step") /\ k.a = x.a /\ ~k.empty
      /\ IsToken(e) /\ Begins(e, "step") /\ e.a = x.a /\ e.empty
      /\ IsToken(l) /\ Closes(l, "step")
  BY <1>2, ElementTypes DEF Names
<1> HIDE DEF k, e, l, s0, s1, content, texts
<1>7. ReadsTo(D, h, k, InStep(h, s0)) /\ ReadsTo(D, InStep(h, s1), l, Added(h, s1))
  <2>1. s0 = NewStepOf(k.a, ManualAt(h))
    BY <1>6 DEF s0
  <2> QED
    BY <1>6, <2>1, HolderReads
<1>8. D.selfClosing /\ InStep(h, s0) = InStep(h, s1) => ReadsTo(D, h, e, Added(h, s1))
  <2>1. SUFFICES ASSUME D.selfClosing, InStep(h, s0) = InStep(h, s1)
                 PROVE  ReadsTo(D, h, e, Added(h, s1))
    OBVIOUS
  <2>2. s0 = s1
    <3>1. \A y : InStep(h, y).step = y
      BY HolderIs DEF InStep, OnCaseStep, OnListStep
    <3> QED
      BY <2>1, <3>1
  <2>3. x.text = <<>>
    <3>1. s0.cmd = <<>> /\ s1.cmd = x.text
      BY <1>3, StepChanges, Zenon
    <3> QED
      BY <2>2, <3>1
  <2>4. DOMAIN x.a = {}
    BY <2>1, <2>3 DEF StepIsMisread
  <2>5. s0 = NewStepOf(e.a, ManualAt(h))
    BY <1>6 DEF s0
  <2>6. ReadsTo(D, h, e, IF e.empty /\ DOMAIN e.a = {} THEN Added(h, s0) ELSE InStep(h, s0))
    BY <1>6, <2>5, HolderReads
  <2> QED
    BY <1>6, <2>2, <2>4, <2>6
<1>9. Takes(D, ElementTokens(D, "step", x.a, content), h, Added(h, s1))
  BY <1>4, <1>5, <1>7, <1>8, TakesElement DEF k, e, l
<1> QED
  BY <1>1, <1>9 DEF s1

\* A list that is neither empty nor longer than one.
LEMMA OneOrNone ==
  ASSUME NEW X, NEW p \in Seq(X), Len(p) <= 1, p # <<>>
  PROVE  \E v \in X : p = <<v>>
<1>1. Len(p) \in Nat /\ Len(p) # 0
  OBVIOUS
<1>2. Len(p) = 1
  BY <1>1
<1>3. p[1] \in X /\ p = <<p[1]>>
  BY <1>2
<1> QED
  BY <1>3

\* A param is read in an event.
LEMMA ParamTakes ==
  ASSUME NEW D, NEW b, OfSet(D, b), NEW c, NEW list, NEW p \in Seq(STRING), Len(p) <= 1
  PROVE  Takes(D, ElementTokens(D, "param", NoAttributes, Texts(p)),
               OnEvent(b, c, EventOf(list)),
               OnEvent(b, c, EventOf(Append(list, p))))
<1> DEFINE x == EventOf(list)
           y == EventOf(Append(list, p))
           c0 == OnEvent(b, c, x)
           c1 == OnParam(b, c, x, <<>>)
           d1 == OnParam(b, c, x, p)
           d0 == OnEvent(b, c, y)
<1>1. y = WithParam(x, p)
  BY StepChanges, Zenon
<1> HIDE DEF x, y
<1>2. /\ c0.at = "event" /\ c0.b = b /\ c0.case = c /\ c0.step = x
      /\ c1.at = "param" /\ c1.b = b /\ c1.case = c /\ c1.step = x
      /\ d1.at = "param" /\ d1.b = b /\ d1.case = c /\ d1.step = x /\ d1.param = p
      /\ d0.at = "event" /\ d0.b = b /\ c1.param = <<>>
  BY DEF OnEvent, OnParam
<1>3. Fine(D, c1) /\ Fine(D, d1) /\ Fine(D, d0)
  BY <1>2 DEF Fine
<1> DEFINE k == StartToken("param", NoAttributes)
           e == EmptyToken("param", NoAttributes)
           l == EndToken("param")
<1>4. /\ IsToken(k) /\ Begins(k, "param") /\ ~k.empty
      /\ IsToken(e) /\ Begins(e, "param") /\ e.empty /\ IsToken(l) /\ Closes(l, "param")
  BY NoAttributesAre, ElementTypes DEF Names
<1>5. Takes(D, Texts(p), c1, d1)
  <2>1. CASE p = <<>>
    <3>1. Texts(p) = <<>>
      BY <2>1, FlattenEmpty DEF Texts, Each
    <3> QED
      BY <2>1, <3>1, TakesNone
  <2>2. CASE p # <<>>
    <3>1. PICK v \in STRING : p = <<v>>
      BY <2>2, OneOrNone, Zenon
    <3> DEFINE q == TextToken(v)
    <3>2. Texts(p) = <<q>>
      <4>1. <<v>> \in Seq(Words)
        BY DEF Words
      <4> QED
        BY <3>1, <4>1, OneText
    <3>3. IsToken(q) /\ q.t = "text" /\ p = <<q.n>>
      <4>1. v \in Words
        BY DEF Words
      <4> QED
        BY <3>1, <4>1, TextIs
    <3> HIDE DEF q
    <3>4. ParamReads(c1, q, d1)
      BY <1>2, <3>3 DEF ParamReads
    <3> HIDE DEF c1, d1
    <3>5. ReadsTo(D, c1, q, d1)
      BY <1>2, <1>3, <3>3, <3>4 DEF ReadsTo, Moves
    <3> QED
      BY <3>2, <3>5, TakesOne
  <2> QED
    BY <2>1, <2>2
<1> HIDE DEF k, e, l
<1>6. EventReads(c0, k, c1)
  BY <1>2, <1>4 DEF EventReads
<1>7. ParamReads(d1, l, d0)
  BY <1>1, <1>2, <1>4 DEF ParamReads
<1>8. c1 = d1 => EventReads(c0, e, d0)
  <2>1. c1 = d1 => p = <<>>
    BY <1>2
  <2> QED
    BY <1>1, <1>2, <1>4, <2>1 DEF EventReads
<1> HIDE DEF c0, c1, d1, d0
<1>9. ReadsTo(D, c0, k, c1) /\ ReadsTo(D, d1, l, d0) /\ (c1 = d1 => ReadsTo(D, c0, e, d0))
  BY <1>2, <1>3, <1>4, <1>6, <1>7, <1>8 DEF ReadsTo, Moves
<1>10. Takes(D, ElementTokens(D, "param", NoAttributes, Texts(p)), c0, d0)
  BY <1>5, <1>9, TakesElement DEF k, e, l
<1> QED
  BY <1>10 DEF c0, d0, x, y

\* What is added to a case or to a list.
LEMMA AddedIs ==
  ASSUME NEW D, NEW h, Holder(D, h), NEW x
  PROVE  /\ h.at = "case" => Added(h, x) = OnCase(h.b, WithStep(h.case, x))
         /\ h.at = "list" => Added(h, x) = OnList(h.b, h.tag, Append(h.list, x))
         /\ Added(h, x).at = h.at /\ Added(h, x).b = h.b
         /\ h.at = "case" => h = OnCase(h.b, h.case)
<1>1. CASE h.at = "case"
  <2>1. PICK gen, told, l, gets : h = OnCase(h.b, CaseOf(gen, told, l, gets))
    BY <1>1 DEF Holder, OnList
  <2>2. h.case = CaseOf(gen, told, l, gets)
    BY <2>1 DEF OnCase
  <2>3. h.case.steps = l /\ WithStep(h.case, x) = [h.case EXCEPT !.steps = Append(l, x)]
    <3>1. /\ h.case.steps = l /\ WithStep(h.case, x) = CaseOf(gen, told, Append(l, x), gets)
          /\ \A m : [h.case EXCEPT !.steps = m] = CaseOf(gen, told, m, gets)
      BY <2>2, CaseChanges
    <3> QED
      BY <3>1
  <2>4. Added(h, x) = OnCase(h.b, WithStep(h.case, x))
    BY <1>1, <2>3 DEF Added, WithSteps, StepsAt
  <2>5. h = OnCase(h.b, h.case)
    BY <2>1, <2>2
  <2> QED
    BY <1>1, <2>4, <2>5 DEF OnCase
<1>2. CASE h.at = "list"
  BY <1>2 DEF Added, WithSteps, StepsAt, OnList
<1> QED
  BY <1>1, <1>2, HolderIs

\* An event is read in a case.
LEMMA EventTakes ==
  ASSUME NEW D, NEW h, Holder(D, h), h.at = "case", NEW x, IsStep(x), x.n = "event",
         \A i \in DOMAIN x.params : Len(x.params[i]) <= 1
  PROVE  Takes(D, StepTokens(D, x), h, Added(h, StepRead(x, ManualAt(h))))
<1> DEFINE texts == Texts(x.text)
           n == Len(x.params)
           e == [i \in 1..n |-> ElementTokens(D, "param", NoAttributes, Texts(x.params[i]))]
           params == FlattenSeq([i \in DOMAIN x.params |->
                                   ElementTokens(D, "param", NoAttributes, Texts(x.params[i]))])
           content == texts \o params
           b == h.b
           c == h.case
           P(i) == OnEvent(b, c, EventOf(Pre(x.params, i)))
           p == [i \in 0..n |-> P(i)]
           d == OnCase(b, WithStep(c, EventOf(x.params)))
<1>1. StepTokens(D, x) = ElementTokens(D, "event", x.a, content)
  BY Zenon DEF StepTokens, Each
<1>2. x.text = <<>> /\ x.params \in Seq(Seq(STRING)) /\ IsAttributes(x.a)
  BY DEF IsStep
<1>3. n \in Nat /\ DOMAIN x.params = 1..n /\ Pre(x.params, n) = x.params /\ Pre(x.params, 0) = <<>>
  <2>1. x.params = [i \in DOMAIN x.params |-> x.params[i]] /\ n \in Nat /\ DOMAIN x.params = 1..n
    BY <1>2
  <2> QED
    BY <2>1, PreAll, PreGrows
<1>4. OfSet(D, b) /\ Added(h, StepRead(x, ManualAt(h))) = d /\ h = OnCase(b, c)
  <2>1. StepRead(x, ManualAt(h)) = EventOf(x.params)
    BY DEF StepRead
  <2> HIDE DEF b, c
  <2> QED
    BY <2>1, AddedIs DEF Holder, b, c
<1>5. ASSUME NEW i \in 1..n PROVE Takes(D, e[i], p[i - 1], p[i])
  <2>1. PICK j \in 0..n - 1 : j = i - 1 /\ j \in Nat /\ j + 1 = i /\ i \in 0..n /\ j \in 0..n
    BY <1>3
  <2>2. x.params[i] \in Seq(STRING) /\ Len(x.params[i]) <= 1
    <3>1. i \in DOMAIN x.params
      BY <1>3
    <3> HIDE DEF n, e, p, P, params, content, texts, d, b, c
    <3>2. \A l \in Seq(Seq(STRING)) : \A m \in DOMAIN l : l[m] \in Seq(STRING)
      OBVIOUS
    <3>3. x.params[i] \in Seq(STRING)
      BY <1>2, <3>1, <3>2
    <3>4. Len(x.params[i]) <= 1
      BY <3>1
    <3> QED
      BY <3>3, <3>4
  <2>3. Append(Pre(x.params, j), x.params[j + 1]) = Pre(x.params, i)
    BY <2>1, PreGrows
  <2>4. p[i - 1] = P(j) /\ p[i] = P(i)
    BY <2>1
  <2>5. e[i] = ElementTokens(D, "param", NoAttributes, Texts(x.params[i]))
    OBVIOUS
  <2> DEFINE l == Pre(x.params, j)
             q == x.params[i]
  <2>6. P(j) = OnEvent(b, c, EventOf(l)) /\ P(i) = OnEvent(b, c, EventOf(Append(l, q)))
    BY <2>1, <2>3
  <2> HIDE DEF l, q, p, P, e, b, c
  <2>7. Takes(D, ElementTokens(D, "param", NoAttributes, Texts(q)), OnEvent(b, c, EventOf(l)),
              OnEvent(b, c, EventOf(Append(l, q))))
    BY <1>4, <2>2, ParamTakes DEF q
  <2> QED
    BY <2>4, <2>5, <2>6, <2>7 DEF q
<1>6. p[0] = OnEvent(b, c, NewEvent) /\ p[n] = OnEvent(b, c, EventOf(x.params))
  <2>1. p[0] = P(0) /\ p[n] = P(n)
    BY <1>3
  <2> HIDE DEF p
  <2> QED
    BY <1>3, <2>1 DEF NewEvent
<1>7. Takes(D, params, p[0], p[n])
  <2>1. params = FlattenSeq([i \in 1..n |-> e[i]])
    BY <1>3
  <2> HIDE DEF p, e, params, n
  <2>2. Steps(D, e, n, p)
    BY <1>5 DEF Steps
  <2> QED
    BY <1>3, <2>1, <2>2, TakesEach
<1>8. content = params
  <2>1. texts = <<>>
    BY <1>2, FlattenEmpty DEF Texts, Each
  <2>2. params \in Seq(Tokens)
    BY <1>7, TakesTokens
  <2> HIDE DEF params, texts
  <2> QED
    BY <2>1, <2>2
<1> DEFINE k == StartToken("event", x.a)
           o == EmptyToken("event", x.a)
           l == EndToken("event")
<1>9. /\ IsToken(k) /\ Begins(k, "event") /\ ~k.empty
      /\ IsToken(o) /\ Begins(o, "event") /\ o.empty /\ IsToken(l) /\ Closes(l, "event")
  BY <1>2, ElementTypes DEF Names
<1> DEFINE c1 == OnEvent(b, c, NewEvent)
           d1 == OnEvent(b, c, EventOf(x.params))
<1>10. /\ c1.at = "event" /\ c1.b = b /\ d1.at = "event" /\ d1.b = b /\ d1.case = c
       /\ d1.step = EventOf(x.params) /\ c1.step = NewEvent /\ d.at = "case" /\ d.b = b
       /\ h.at = "case"
  BY DEF OnEvent, OnCase
<1>11. Fine(D, c1) /\ Fine(D, d1) /\ Fine(D, d)
  BY <1>4, <1>10 DEF Fine
<1> HIDE DEF k, o, l, p, e, n, content, texts, params
<1>12. CaseReads(h, k, c1) /\ EventReads(d1, l, d)
  <2>1. CaseReads(h, k, c1)
    BY <1>4, <1>9 DEF CaseReads
  <2> HIDE DEF d1
  <2>2. EventReads(d1, l, d)
    BY <1>9, <1>10 DEF EventReads
  <2> QED
    BY <2>1, <2>2
<1>13. c1 = d1 => CaseReads(h, o, d)
  <2>1. c1 = d1 => EventOf(x.params) = NewEvent
    BY <1>10
  <2> HIDE DEF c1, d1
  <2> QED
    BY <1>9, <2>1 DEF CaseReads
<1> HIDE DEF c1, d1, d, b, c
<1>14. ReadsTo(D, h, k, c1) /\ ReadsTo(D, d1, l, d) /\ (c1 = d1 => ReadsTo(D, h, o, d))
  BY <1>9, <1>10, <1>11, <1>12, <1>13 DEF ReadsTo, Moves
<1>15. Takes(D, content, c1, d1)
  BY <1>6, <1>7, <1>8 DEF c1, d1
<1>16. Takes(D, ElementTokens(D, "event", x.a, content), h, d)
  BY <1>14, <1>15, TakesElement DEF k, o, l
<1> QED
  BY <1>1, <1>4, <1>16

\* The steps and events that the parser can read.
StepIsRead(D, x) ==
  /\ IsStep(x) /\ (D.selfClosing => ~StepIsMisread(x))
  /\ \A i \in DOMAIN x.params : Len(x.params[i]) <= 1

\* The tokens of a list of steps.
StepsTokens(D, list) == Each(LAMBDA s : StepTokens(D, s), list)

\* A list of steps is read into what it is in.
LEMMA StepsTake ==
  ASSUME NEW D, NEW h, Holder(D, h), StepsAt(h) = <<>>, NEW list,
         list \in Seq({list[i] : i \in DOMAIN list}),
         \A i \in DOMAIN list : StepIsRead(D, list[i]) /\ (h.at = "list" => list[i].n = "step")
  PROVE  Takes(D, StepsTokens(D, list), h,
               WithSteps(h, ListRead(list, ManualAt(h))))
<1> DEFINE n == Len(list)
           m == ManualAt(h)
           f == ListRead(list, m)
           e == [i \in 1..n |-> StepTokens(D, list[i])]
           x == StepsTokens(D, list)
           P(i) == WithSteps(h, Pre(f, i))
           p == [i \in 0..n |-> P(i)]
<1>1. n \in Nat /\ DOMAIN list = 1..n
  BY ListIs
<1>2. DOMAIN f = 1..n /\ f = [i \in DOMAIN f |-> f[i]] /\ \A i \in 1..n : f[i] = StepRead(list[i], m)
  BY <1>1 DEF ListRead
<1>3. x = FlattenSeq([i \in DOMAIN list |-> StepTokens(D, list[i])])
  BY Zenon DEF StepsTokens, Each
<1>4. x = FlattenSeq([i \in 1..n |-> e[i]])
  BY <1>1, <1>3
<1>5. ASSUME NEW i \in 1..n PROVE Takes(D, e[i], p[i - 1], p[i])
  <2>1. PICK j \in 0..n - 1 : j = i - 1 /\ j \in Nat /\ j + 1 = i /\ i \in 0..n /\ j \in 0..n
    BY <1>1
  <2> DEFINE g == WithSteps(h, Pre(f, j))
             y == list[i]
  <2>2. p[i - 1] = g /\ p[i] = P(i) /\ e[i] = StepTokens(D, y)
    BY <2>1
  <2>3. /\ Holder(D, g) /\ StepsAt(g) = Pre(f, j) /\ ManualAt(g) = m /\ g.at = h.at
        /\ \A l : WithSteps(g, l) = WithSteps(h, l)
    BY HolderIs
  <2>4. StepIsRead(D, y) /\ (h.at = "list" => y.n = "step") /\ h.at \in {"case", "list"}
    BY <1>1, HolderIs
  <2>5. f[j + 1] = StepRead(y, m)
    BY <1>2, <2>1
  <2> HIDE DEF g, y, f, p, e, m, n
  <2>6. Append(Pre(f, j), f[j + 1]) = Pre(f, i)
    BY <2>1, PreGrows
  <2>7. Added(g, StepRead(y, m)) = P(i)
    BY <2>3, <2>5, <2>6 DEF Added
  <2>8. Takes(D, StepTokens(D, y), g, Added(g, StepRead(y, ManualAt(g))))
    <3>1. CASE y.n = "step"
      BY <2>3, <2>4, <3>1, StepTakes DEF StepIsRead
    <3>2. CASE y.n = "event"
      <4>1. g.at = "case"
        BY <2>3, <2>4, <3>2
      <4> QED
        BY <2>3, <2>4, <3>2, <4>1, EventTakes DEF StepIsRead
    <3>3. y.n \in {"step", "event"}
      BY <2>4 DEF StepIsRead, IsStep
    <3> QED
      BY <3>1, <3>2, <3>3
  <2> QED
    BY <2>2, <2>3, <2>7, <2>8
<1>6. p[0] = h /\ p[n] = WithSteps(h, f)
  <2>1. p[0] = P(0) /\ p[n] = P(n)
    BY <1>1
  <2>2. Pre(f, 0) = <<>> /\ Pre(f, n) = f
    <3> HIDE DEF f, n
    <3> QED
      BY <1>1, <1>2, PreGrows, PreAll
  <2> HIDE DEF p, f
  <2> QED
    BY <2>1, <2>2, HolderIs
<1> HIDE DEF p, e, x, n, f
<1>7. Steps(D, e, n, p)
  BY <1>5 DEF Steps
<1>8. Takes(D, x, p[0], p[n])
  BY <1>1, <1>4, <1>7, TakesEach
<1> QED
  BY <1>6, <1>8 DEF x, f

-----------------------------------------------------------------------------
(* Descriptions, and the lists of steps of a set.                           *)

\* Of a set of the file has been read what is part of it.
FitsSet(D, i, j, gen, cases, gets) ==
  /\ i \in DOMAIN D.suites /\ j \in DOMAIN D.suites[i].sets
  /\ LET s == D.suites[i].sets[j]
     IN  /\ gen = SetGen(D, i, j)
         /\ gets \subseteq AskedMarks(s.gets)
         /\ \A n \in DOMAIN cases : n \in DOMAIN s.cases /\ cases[n].gets = AskedMarks(s.cases[n].gets)

\* That is what fits a set.
LEMMA OfSetIs ==
  ASSUME NEW D, NEW i, NEW j, NEW gen, NEW told, NEW pre, NEW post, NEW reboot, NEW cases,
         NEW gets, NEW envs
  PROVE  OfSet(D, Base(i, j, SetOf(gen, told, pre, post, reboot, cases, gets, envs)))
           <=> FitsSet(D, i, j, gen, cases, gets)
<1> DEFINE s == SetOf(gen, told, pre, post, reboot, cases, gets, envs)
           b == Base(i, j, s)
<1>1. s.gen = gen /\ s.cases = cases /\ s.gets = gets
  BY SetChanges
<1>2. b.i = i /\ b.j = j /\ b.set = s
  BY DEF Base
<1> HIDE DEF s, b
<1>3. OfSet(D, b) <=> FitsSet(D, i, j, gen, cases, gets)
  BY <1>1, <1>2 DEF OfSet, FitsSet
<1> QED
  BY <1>3 DEF s, b

\* What a base holds.
LEMMA BaseIs ==
  \A i, j, s, x : /\ Base(i, j, s).i = i /\ Base(i, j, s).j = j /\ Base(i, j, s).set = s
                  /\ With(Base(i, j, s), x) = Base(i, j, x)
BY DEF Base, With

\* A description is read from the place before it to the one after it.
LEMMA DescriptionTakes ==
  ASSUME NEW D, NEW c, NEW d, D.described \in BOOLEAN, ~D.described => c = d,
         D.described =>
           \A k : IsToken(k) => /\ Begins(k, "description") => ReadsTo(D, c, k, d)
                                /\ k.t = "text" \/ Closes(k, "description") => ReadsTo(D, d, k, d)
  PROVE  Takes(D, Description(D), c, d)
<1> DEFINE content == <<TextToken("what")>>
           x == ElementTokens(D, "description", NoAttributes, content)
<1>1. CASE ~D.described
  <2>1. Description(D) = <<>>
    BY <1>1, Zenon DEF Description, When
  <2> QED
    BY <1>1, <2>1, TakesNone
<1>2. CASE D.described
  <2>1. Description(D) = x
    BY <1>2, Zenon DEF Description, When
  <2> DEFINE k == StartToken("description", NoAttributes)
             l == EndToken("description")
             q == TextToken("what")
  <2>2. /\ IsToken(k) /\ IsToken(l) /\ Begins(k, "description") /\ Closes(l, "description")
    BY NoAttributesAre, ElementTypes DEF Names
  <2>3. IsToken(q) /\ q.t = "text"
    BY TextIs DEF Words
  <2>4. content = <<q>> /\ content # <<>>
    OBVIOUS
  <2> HIDE DEF k, l, q, content
  <2>5. ReadsTo(D, c, k, d) /\ ReadsTo(D, d, q, d) /\ ReadsTo(D, d, l, d)
    BY <1>2, <2>2, <2>3
  <2>6. Takes(D, content, d, d)
    BY <2>4, <2>5, TakesOne
  <2>7. Takes(D, x, c, d)
    BY <2>4, <2>5, <2>6, TakesElement DEF k, l
  <2> QED
    BY <2>1, <2>7
<1> QED
  BY <1>1, <1>2

Retold(s, x) == [s EXCEPT !.described = x]

\* What a description changes.
LEMMA RetoldIs ==
  ASSUME NEW x
  PROVE  /\ \A gen, told, pre, post, reboot, cases, gets, envs :
              Retold(SetOf(gen, told, pre, post, reboot, cases, gets, envs), x)
                = SetOf(gen, x, pre, post, reboot, cases, gets, envs)
         /\ \A gen, told, list, gets :
              Retold(CaseOf(gen, told, list, gets), x) = CaseOf(gen, x, list, gets)
<1> DEFINE none == <<>>
           no == FALSE
<1>2. \A gen, told, list, gets : CaseOf(gen, told, list, gets) = CaseLike(gen, told, list, gets, none, no)
  BY DEF CaseOf
<1> HIDE DEF none, no
<1>6. ASSUME NEW gen, NEW told, NEW pre, NEW post, NEW reboot, NEW cases, NEW gets, NEW envs
      PROVE  Retold(SetOf(gen, told, pre, post, reboot, cases, gets, envs), x)
               = SetOf(gen, x, pre, post, reboot, cases, gets, envs)
  BY DEF SetOf, Retold
<1>7. ASSUME NEW gen, NEW told, NEW list, NEW gets
      PROVE  Retold(CaseOf(gen, told, list, gets), x) = CaseOf(gen, x, list, gets)
  <2> DEFINE s == CaseLike(gen, told, list, gets, none, no)
  <2>1. Retold(s, x) = CaseLike(gen, x, list, gets, none, no)
    BY DEF CaseLike, Retold
  <2>2. CaseOf(gen, told, list, gets) = s /\ CaseOf(gen, x, list, gets) = CaseLike(gen, x, list, gets, none, no)
    BY <1>2
  <2> HIDE DEF s
  <2> QED
    BY <2>1, <2>2
<1> QED
  BY <1>6, <1>7

\* Before it.
NotTold == FALSE

\* A description of a set,
LEMMA SetIsDescribed ==
  ASSUME NEW D, D.described \in BOOLEAN, NEW i, NEW j, NEW gen, NEW pre, NEW post, NEW reboot,
         NEW cases, NEW gets, NEW envs, FitsSet(D, i, j, gen, cases, gets)
  PROVE  Takes(D, Description(D),
               OnSet(Base(i, j, SetOf(gen, NotTold, pre, post, reboot, cases, gets, envs))),
               OnSet(Base(i, j, SetOf(gen, D.described, pre, post, reboot, cases, gets, envs))))
<1> DEFINE s == SetOf(gen, NotTold, pre, post, reboot, cases, gets, envs)
           t == SetOf(gen, D.described, pre, post, reboot, cases, gets, envs)
           b == Base(i, j, s)
           c == OnSet(b)
           a == Base(i, j, t)
           d == OnSet(a)
<1>1. ~D.described => c = d
  BY DEF NotTold
<1>2. D.described => a = With(b, Described(b.set))
  <2>1. D.described => t = Described(s)
    <3> DEFINE no == NotTold
               yes == D.described
    <3>1. D.described => yes = TRUE
      OBVIOUS
    <3>2. s = SetOf(gen, no, pre, post, reboot, cases, gets, envs)
          /\ t = SetOf(gen, yes, pre, post, reboot, cases, gets, envs)
      OBVIOUS
    <3>3. Retold(s, yes) = t
      <4> HIDE DEF no, yes
      <4>1. Retold(SetOf(gen, no, pre, post, reboot, cases, gets, envs), yes)
              = SetOf(gen, yes, pre, post, reboot, cases, gets, envs)
        BY RetoldIs
      <4> QED
        BY <3>2, <4>1
    <3> HIDE DEF s, t, no, yes
    <3>4. D.described => Described(s) = Retold(s, yes)
      BY <3>1 DEF Described, Retold
    <3> QED
      BY <3>3, <3>4
  <2> HIDE DEF s, t
  <2> QED
    BY <2>1, BaseIs
<1>3. OfSet(D, b) /\ OfSet(D, a)
  BY OfSetIs, Zenon
<1> HIDE DEF b, a, s, t
<1>4. c.at = "set" /\ c.b = b /\ d.at = "set" /\ d.b = a /\ d = OnSet(a)
  BY DEF OnSet
<1> HIDE DEF c, d
<1>5. ASSUME D.described, NEW k, IsToken(k)
      PROVE  /\ Begins(k, "description") => ReadsTo(D, c, k, d)
             /\ k.t = "text" \/ Closes(k, "description") => ReadsTo(D, d, k, d)
  <2>1. Fine(D, d)
    BY <1>3, <1>4 DEF Fine
  <2>2. Begins(k, "description") => SetReads(D, c, k, d)
    BY <1>2, <1>4, <1>5 DEF SetReads
  <2>3. k.t = "text" \/ Closes(k, "description") => SetReads(D, d, k, d)
    BY DEF SetReads, OtherEnd, Closes
  <2> QED
    BY <1>4, <1>5, <2>1, <2>2, <2>3 DEF ReadsTo, Moves
<1>6. Takes(D, Description(D), c, d)
  BY <1>1, <1>5, DescriptionTakes
<1> QED
  BY <1>6 DEF c, d, a, b, s, t

\* of a case,
LEMMA CaseIsDescribed ==
  ASSUME NEW D, D.described \in BOOLEAN, NEW b, OfSet(D, b), NEW gen, NEW list, NEW gets
  PROVE  Takes(D, Description(D), OnCase(b, CaseOf(gen, NotTold, list, gets)),
               OnCase(b, CaseOf(gen, D.described, list, gets)))
<1> DEFINE s == CaseOf(gen, NotTold, list, gets)
           t == CaseOf(gen, D.described, list, gets)
           c == OnCase(b, s)
           d == OnCase(b, t)
<1>1. ~D.described => c = d
  BY DEF NotTold
<1>2. D.described => t = Described(s)
  <2> DEFINE no == NotTold
             yes == D.described
  <2>1. D.described => yes = TRUE
    OBVIOUS
  <2>2. s = CaseOf(gen, no, list, gets) /\ t = CaseOf(gen, yes, list, gets)
    OBVIOUS
  <2>3. Retold(s, yes) = t
    <3> HIDE DEF no, yes
    <3>1. Retold(CaseOf(gen, no, list, gets), yes) = CaseOf(gen, yes, list, gets)
      BY RetoldIs
    <3> QED
      BY <2>2, <3>1
  <2> HIDE DEF s, t, no, yes
  <2>4. D.described => Described(s) = Retold(s, yes)
    BY <2>1 DEF Described, Retold
  <2> QED
    BY <2>3, <2>4
<1> HIDE DEF s, t
<1>4. c.at = "case" /\ c.b = b /\ d.at = "case" /\ d.b = b /\ c.case = s /\ d = OnCase(b, t)
  BY DEF OnCase
<1> HIDE DEF c, d
<1>5. ASSUME D.described, NEW k, IsToken(k)
      PROVE  /\ Begins(k, "description") => ReadsTo(D, c, k, d)
             /\ k.t = "text" \/ Closes(k, "description") => ReadsTo(D, d, k, d)
  <2>1. Fine(D, d)
    BY <1>4 DEF Fine
  <2>2. Begins(k, "description") => CaseReads(c, k, d)
    BY <1>2, <1>4, <1>5 DEF CaseReads
  <2>3. k.t = "text" \/ Closes(k, "description") => CaseReads(d, k, d)
    BY DEF CaseReads, OtherEnd, Closes
  <2> QED
    BY <1>4, <1>5, <2>1, <2>2, <2>3 DEF ReadsTo, Moves
<1>6. Takes(D, Description(D), c, d)
  BY <1>1, <1>5, DescriptionTakes
<1> QED
  BY <1>6 DEF c, d, s, t

\* of a suite,
LEMMA SuiteIsDescribed ==
  ASSUME NEW D, D.described \in BOOLEAN, NEW i, NEW j
  PROVE  Takes(D, Description(D), OnSuite(i, j, NotTold), OnSuite(i, j, D.described))
<1> DEFINE c == OnSuite(i, j, NotTold)
           d == OnSuite(i, j, D.described)
<1>1. ~D.described => c = d
  BY DEF NotTold
<1>4. c.at = "suite" /\ d.at = "suite" /\ d = OnSuite(c.i, c.j, D.described)
  BY DEF OnSuite
<1> HIDE DEF c, d
<1>5. ASSUME D.described, NEW k, IsToken(k)
      PROVE  /\ Begins(k, "description") => ReadsTo(D, c, k, d)
             /\ k.t = "text" \/ Closes(k, "description") => ReadsTo(D, d, k, d)
  <2>1. Fine(D, d)
    BY <1>4 DEF Fine, LoopPlaces
  <2>2. Begins(k, "description") => SuiteReads(D, c, k, d)
    BY <1>4, <1>5 DEF SuiteReads
  <2>3. k.t = "text" \/ Closes(k, "description") => SuiteReads(D, d, k, d)
    BY DEF SuiteReads, OtherEnd, Closes
  <2> QED
    BY <1>4, <1>5, <2>1, <2>2, <2>3 DEF ReadsTo, Moves
<1>6. Takes(D, Description(D), c, d)
  BY <1>1, <1>5, DescriptionTakes
<1> QED
  BY <1>6 DEF c, d

\* and of the definition.
LEMMA FileIsDescribed ==
  ASSUME NEW D, D.described \in BOOLEAN, NEW i, NEW det
  PROVE  Takes(D, Description(D), OnDefinition(i, det, NotTold), OnDefinition(i, det, D.described))
<1> DEFINE c == OnDefinition(i, det, NotTold)
           d == OnDefinition(i, det, D.described)
<1>1. ~D.described => c = d
  BY DEF NotTold
<1>4. c.at = "definition" /\ d.at = "definition" /\ d = OnDefinition(c.i, c.det, D.described)
  BY DEF OnDefinition
<1> HIDE DEF c, d
<1>5. ASSUME D.described, NEW k, IsToken(k)
      PROVE  /\ Begins(k, "description") => ReadsTo(D, c, k, d)
             /\ k.t = "text" \/ Closes(k, "description") => ReadsTo(D, d, k, d)
  <2>1. Fine(D, d)
    BY <1>4 DEF Fine, LoopPlaces
  <2>2. Begins(k, "description") => DefinitionReads(D, c, k, d)
    BY <1>4, <1>5 DEF DefinitionReads
  <2>3. k.t = "text" \/ Closes(k, "description") => DefinitionReads(D, d, k, d)
    BY DEF DefinitionReads, OtherEnd, Closes
  <2> QED
    BY <1>4, <1>5, <2>1, <2>2, <2>3 DEF ReadsTo, Moves
<1>6. Takes(D, Description(D), c, d)
  BY <1>1, <1>5, DescriptionTakes
<1> QED
  BY <1>6 DEF c, d

\* A list of steps of a set is read.
LEMMA ListTakes ==
  ASSUME NEW D, NEW b, OfSet(D, b), NEW t \in ListTags, NEW list, IsStepList(list),
         D.selfClosing => list # <<>> /\ \A i \in DOMAIN list : ~StepIsMisread(list[i]),
         NEW s, s = WithList(b.set, t, ListRead(list, b.set.gen.manual)), OfSet(D, With(b, s))
  PROVE  Takes(D, ElementTokens(D, t, NoAttributes, StepsTokens(D, list)),
               OnSet(b), OnSet(With(b, s)))
<1> DEFINE content == StepsTokens(D, list)
           read == ListRead(list, b.set.gen.manual)
           h == OnList(b, t, <<>>)
           g == OnList(b, t, read)
           c == OnSet(b)
           d == OnSet(With(b, s))
<1>1. /\ h.at = "list" /\ h.b = b /\ h.tag = t /\ h.list = <<>>
      /\ g.at = "list" /\ g.b = b /\ g.tag = t /\ g.list = read
      /\ c.at = "set" /\ c.b = b /\ d.at = "set" /\ d.b = With(b, s)
  BY DEF OnList, OnSet
<1>2. list \in Seq({list[i] : i \in DOMAIN list})
  BY DEF IsStepList, Every
<1>3. Holder(D, h) /\ StepsAt(h) = <<>> /\ ManualAt(h) = b.set.gen.manual /\ WithSteps(h, read) = g
  <2>1. Holder(D, h)
    <3>1. h = OnList(h.b, t, <<>>)
      BY <1>1
    <3> HIDE DEF h
    <3> QED
      BY <1>1, <3>1, Zenon DEF Holder
  <2> QED
    BY <1>1, <2>1 DEF StepsAt, ManualAt, WithSteps
<1>4. \A i \in DOMAIN list : StepIsRead(D, list[i]) /\ list[i].n = "step"
  <2>1. ASSUME NEW i \in DOMAIN list PROVE IsStep(list[i]) /\ list[i].n = "step"
    BY DEF IsStepList, Every
  <2>2. ASSUME NEW i \in DOMAIN list PROVE list[i].params = <<>>
    BY <2>1 DEF IsStep
  <2> QED
    BY <2>1, <2>2 DEF StepIsRead
<1> HIDE DEF c, d, h, g, content, read
<1>5. Takes(D, content, h, g)
  <2>1. Takes(D, content, h, WithSteps(h, ListRead(list, ManualAt(h))))
    <3>1. \A i \in DOMAIN list : StepIsRead(D, list[i]) /\ (h.at = "list" => list[i].n = "step")
      BY <1>4
    <3> QED
      BY <1>2, <1>3, <3>1, StepsTake DEF content
  <2> QED
    BY <1>3, <2>1 DEF read
<1> DEFINE k == StartToken(t, NoAttributes)
           l == EndToken(t)
<1>6. IsToken(k) /\ Begins(k, t) /\ IsToken(l) /\ Closes(l, t)
  <2>1. t \in Names
    BY DEF Names, ListTags, Boxes
  <2> QED
    BY <2>1, NoAttributesAre, ElementTypes
<1> HIDE DEF k, l
<1>7. Fine(D, h) /\ Fine(D, d)
  BY <1>1 DEF Fine
<1>8. SetReads(D, c, k, h) /\ ListReads(g, l, d)
  <2>1. SetReads(D, c, k, h)
    BY <1>1, <1>6 DEF SetReads, h
  <2>2. d = OnSet(With(g.b, WithList(g.b.set, g.tag, g.list)))
    BY <1>1 DEF d, read
  <2>3. ListReads(g, l, d)
    BY <1>1, <1>6, <2>2 DEF ListReads
  <2> QED
    BY <2>1, <2>3
<1>9. ReadsTo(D, c, k, h) /\ ReadsTo(D, g, l, d)
  BY <1>1, <1>6, <1>7, <1>8 DEF ReadsTo, Moves
<1>10. D.selfClosing => h # g
  <2>1. SUFFICES ASSUME D.selfClosing, h = g PROVE FALSE
    OBVIOUS
  <2>2. read = <<>>
    BY <1>1, <2>1
  <2>3. DOMAIN list = {}
    BY <2>2 DEF read, ListRead
  <2>4. list = <<>>
    BY <1>2, <2>3
  <2> QED
    BY <2>1, <2>4
<1>11. Takes(D, ElementTokens(D, t, NoAttributes, content), c, d)
  BY <1>5, <1>9, <1>10, TakesElement DEF k, l
<1> QED
  BY <1>11 DEF content, c, d

\* So are those of one kind, which the set q(n) has n of.
LEMMA TagTakes ==
  ASSUME NEW D, NEW i, NEW j, NEW t \in ListTags, NEW lists, Every(IsStepList, lists),
         D.selfClosing => \A m \in DOMAIN lists : /\ lists[m] # <<>>
                                                  /\ \A x \in DOMAIN lists[m] : ~StepIsMisread(lists[m][x]),
         NEW q, \A m \in 0..Len(lists) : OfSet(D, Base(i, j, q[m])),
         \A m \in 1..Len(lists) : q[m] = WithList(q[m - 1], t, ListRead(lists[m], q[m - 1].gen.manual))
  PROVE  Takes(D, StepListTokens(D, t, lists), OnSet(Base(i, j, q[0])),
               OnSet(Base(i, j, q[Len(lists)])))
<1> DEFINE n == Len(lists)
           e == [m \in 1..n |-> ElementTokens(D, t, NoAttributes, StepsTokens(D, lists[m]))]
           p == [m \in 0..n |-> OnSet(Base(i, j, q[m]))]
           tokens == StepListTokens(D, t, lists)
<1>1. n \in Nat /\ DOMAIN lists = 1..n
  BY ListIs DEF Every
<1>2. tokens = FlattenSeq([m \in DOMAIN lists |->
                   ElementTokens(D, t, NoAttributes, StepsTokens(D, lists[m]))])
  BY Zenon DEF StepListTokens, StepsTokens, Each
<1>3. tokens = FlattenSeq([m \in 1..n |-> e[m]])
  <2>1. [m \in DOMAIN lists |->
            ElementTokens(D, t, NoAttributes, StepsTokens(D, lists[m]))]
          = [m \in 1..n |-> e[m]]
    BY <1>1, Zenon
  <2> HIDE DEF e, n, tokens
  <2> QED
    BY <1>2, <2>1
<1>4. ASSUME NEW m \in 1..n PROVE Takes(D, e[m], p[m - 1], p[m])
  <2> DEFINE list == lists[m]
             b == Base(i, j, q[m - 1])
             s == q[m]
  <2>1. m - 1 \in 0..n /\ m \in 0..n /\ m \in DOMAIN lists
    BY <1>1
  <2>2. OfSet(D, b) /\ OfSet(D, With(b, s)) /\ b.set = q[m - 1] /\ With(b, s) = Base(i, j, q[m])
    BY <2>1, BaseIs
  <2>3. IsStepList(list)
    BY <2>1 DEF Every
  <2>4. D.selfClosing => list # <<>> /\ \A x \in DOMAIN list : ~StepIsMisread(list[x])
    BY <2>1
  <2>5. s = WithList(b.set, t, ListRead(list, b.set.gen.manual))
    BY <2>2
  <2>6. p[m - 1] = OnSet(b) /\ p[m] = OnSet(With(b, s))
    BY <2>1, <2>2
  <2>7. e[m] = ElementTokens(D, t, NoAttributes, StepsTokens(D, list))
    BY Zenon
  <2> HIDE DEF list, b, s, e, p
  <2>8. Takes(D, ElementTokens(D, t, NoAttributes, StepsTokens(D, list)),
              OnSet(b), OnSet(With(b, s)))
    BY <2>2, <2>3, <2>4, <2>5, ListTakes
  <2> QED
    BY <2>6, <2>7, <2>8
<1>5. p[0] = OnSet(Base(i, j, q[0])) /\ p[n] = OnSet(Base(i, j, q[Len(lists)]))
  BY <1>1
<1> HIDE DEF e, p, n, tokens
<1>6. Steps(D, e, n, p)
  BY <1>4 DEF Steps
<1>7. Takes(D, tokens, p[0], p[n])
  BY <1>1, <1>3, <1>6, TakesEach
<1> QED
  BY <1>5, <1>7 DEF tokens

\* The lists of steps that the parser can read.
ListsAreRead(D, lists) ==
  /\ Every(IsStepList, lists)
  /\ D.selfClosing => \A m \in DOMAIN lists :
       lists[m] # <<>> /\ \A x \in DOMAIN lists[m] : ~StepIsMisread(lists[m][x])

\* What has been read of them.
LEMMA ListsGrow ==
  ASSUME NEW lists, Every(IsStepList, lists), NEW manual
  PROVE  LET R == ListsRead(lists, manual)
             n == Len(lists)
         IN  /\ n \in Nat /\ Pre(R, 0) = <<>> /\ Pre(R, n) = R
             /\ \A m \in 1..n : /\ m - 1 \in 0..n /\ m \in 0..n
                                /\ Append(Pre(R, m - 1), ListRead(lists[m], manual)) = Pre(R, m)
<1> DEFINE R == ListsRead(lists, manual)
           n == Len(lists)
<1>1. n \in Nat /\ DOMAIN lists = 1..n
  BY ListIs DEF Every
<1>2. /\ DOMAIN R = 1..n /\ R = [m \in DOMAIN R |-> R[m]]
      /\ \A m \in 1..n : R[m] = ListRead(lists[m], manual)
  BY <1>1 DEF ListsRead
<1> HIDE DEF R, n
<1>3. Pre(R, 0) = <<>> /\ Pre(R, n) = R
  BY <1>1, <1>2, PreGrows, PreAll
<1>4. ASSUME NEW m \in 1..n
      PROVE  /\ m - 1 \in 0..n /\ m \in 0..n
             /\ Append(Pre(R, m - 1), ListRead(lists[m], manual)) = Pre(R, m)
  <2>1. PICK x \in Nat : x = m - 1 /\ x + 1 = m /\ x \in 0..n /\ m \in 0..n
    BY <1>1
  <2>2. Append(Pre(R, x), R[x + 1]) = Pre(R, x + 1)
    BY <2>1, PreGrows
  <2>3. R[x + 1] = ListRead(lists[m], manual)
    BY <1>2, <2>1
  <2> QED
    BY <2>1, <2>2, <2>3
<1> QED
  BY <1>1, <1>3, <1>4 DEF R, n

\* The pre steps of a set are read,
LEMMA PreStepsTake ==
  ASSUME NEW D, NEW i, NEW j, NEW gen, NEW told, NEW post, NEW reboot, NEW cases, NEW gets, NEW envs,
         FitsSet(D, i, j, gen, cases, gets), NEW lists, ListsAreRead(D, lists)
  PROVE  Takes(D, StepListTokens(D, "pre_steps", lists),
               OnSet(Base(i, j, SetOf(gen, told, <<>>, post, reboot, cases, gets, envs))),
               OnSet(Base(i, j, SetOf(gen, told, ListsRead(lists, gen.manual), post, reboot, cases,
                                      gets, envs))))
<1> DEFINE t == "pre_steps"
           n == Len(lists)
           R == ListsRead(lists, gen.manual)
           S(l) == SetOf(gen, told, l, post, reboot, cases, gets, envs)
           q == [m \in 0..n |-> S(Pre(R, m))]
<1>1. /\ n \in Nat /\ Pre(R, 0) = <<>> /\ Pre(R, n) = R
      /\ \A m \in 1..n : /\ m - 1 \in 0..n /\ m \in 0..n
                         /\ Append(Pre(R, m - 1), ListRead(lists[m], gen.manual)) = Pre(R, m)
  BY ListsGrow DEF ListsAreRead
<1>2. \A l, x : /\ S(l).gen = gen /\ WithList(S(l), t, x) = S(Append(l, x))
                /\ OfSet(D, Base(i, j, S(l)))
  <2>1. \A l : OfSet(D, Base(i, j, S(l)))
    BY OfSetIs
  <2> QED
    BY <2>1, SetChanges
<1>3. t \in ListTags
  BY DEF ListTags
<1> HIDE DEF R, S, n, t
<1>4. \A m \in 0..n : q[m] = S(Pre(R, m))
  OBVIOUS
<1> HIDE DEF q
<1>5. \A m \in 0..n : OfSet(D, Base(i, j, q[m]))
  BY <1>2, <1>4
<1>6. \A m \in 1..n : q[m] = WithList(q[m - 1], t, ListRead(lists[m], q[m - 1].gen.manual))
  <2> TAKE m \in 1..n
  <2>1. q[m - 1] = S(Pre(R, m - 1)) /\ q[m] = S(Pre(R, m)) /\ q[m - 1].gen = gen
    BY <1>1, <1>2, <1>4
  <2>2. WithList(S(Pre(R, m - 1)), t, ListRead(lists[m], gen.manual))
          = S(Append(Pre(R, m - 1), ListRead(lists[m], gen.manual)))
    BY <1>2
  <2>3. Append(Pre(R, m - 1), ListRead(lists[m], gen.manual)) = Pre(R, m)
    BY <1>1
  <2> QED
    BY <2>1, <2>2, <2>3
<1>7. q[0] = S(<<>>) /\ q[n] = S(R)
  BY <1>1, <1>4
<1>8. Takes(D, StepListTokens(D, t, lists), OnSet(Base(i, j, q[0])), OnSet(Base(i, j, q[n])))
  BY <1>3, <1>5, <1>6, TagTakes DEF ListsAreRead, n
<1>9. Takes(D, StepListTokens(D, t, lists), OnSet(Base(i, j, S(<<>>))), OnSet(Base(i, j, S(R))))
  BY <1>7, <1>8
<1> QED
  BY <1>9 DEF S, R, t

\* the post steps,
LEMMA PostStepsTake ==
  ASSUME NEW D, NEW i, NEW j, NEW gen, NEW told, NEW pre, NEW reboot, NEW cases, NEW gets, NEW envs,
         FitsSet(D, i, j, gen, cases, gets), NEW lists, ListsAreRead(D, lists)
  PROVE  Takes(D, StepListTokens(D, "post_steps", lists),
               OnSet(Base(i, j, SetOf(gen, told, pre, <<>>, reboot, cases, gets, envs))),
               OnSet(Base(i, j, SetOf(gen, told, pre, ListsRead(lists, gen.manual), reboot, cases,
                                      gets, envs))))
<1> DEFINE t == "post_steps"
           n == Len(lists)
           R == ListsRead(lists, gen.manual)
           S(l) == SetOf(gen, told, pre, l, reboot, cases, gets, envs)
           q == [m \in 0..n |-> S(Pre(R, m))]
<1>1. /\ n \in Nat /\ Pre(R, 0) = <<>> /\ Pre(R, n) = R
      /\ \A m \in 1..n : /\ m - 1 \in 0..n /\ m \in 0..n
                         /\ Append(Pre(R, m - 1), ListRead(lists[m], gen.manual)) = Pre(R, m)
  BY ListsGrow DEF ListsAreRead
<1>2. \A l, x : /\ S(l).gen = gen /\ WithList(S(l), t, x) = S(Append(l, x))
                /\ OfSet(D, Base(i, j, S(l)))
  <2>1. \A l : OfSet(D, Base(i, j, S(l)))
    BY OfSetIs
  <2> QED
    BY <2>1, SetChanges
<1>3. t \in ListTags
  BY DEF ListTags
<1> HIDE DEF R, S, n, t
<1>4. \A m \in 0..n : q[m] = S(Pre(R, m))
  OBVIOUS
<1> HIDE DEF q
<1>5. \A m \in 0..n : OfSet(D, Base(i, j, q[m]))
  BY <1>2, <1>4
<1>6. \A m \in 1..n : q[m] = WithList(q[m - 1], t, ListRead(lists[m], q[m - 1].gen.manual))
  <2> TAKE m \in 1..n
  <2>1. q[m - 1] = S(Pre(R, m - 1)) /\ q[m] = S(Pre(R, m)) /\ q[m - 1].gen = gen
    BY <1>1, <1>2, <1>4
  <2>2. WithList(S(Pre(R, m - 1)), t, ListRead(lists[m], gen.manual))
          = S(Append(Pre(R, m - 1), ListRead(lists[m], gen.manual)))
    BY <1>2
  <2>3. Append(Pre(R, m - 1), ListRead(lists[m], gen.manual)) = Pre(R, m)
    BY <1>1
  <2> QED
    BY <2>1, <2>2, <2>3
<1>7. q[0] = S(<<>>) /\ q[n] = S(R)
  BY <1>1, <1>4
<1>8. Takes(D, StepListTokens(D, t, lists), OnSet(Base(i, j, q[0])), OnSet(Base(i, j, q[n])))
  BY <1>3, <1>5, <1>6, TagTakes DEF ListsAreRead, n
<1>9. Takes(D, StepListTokens(D, t, lists), OnSet(Base(i, j, S(<<>>))), OnSet(Base(i, j, S(R))))
  BY <1>7, <1>8
<1> QED
  BY <1>9 DEF S, R, t

\* and the post reboot steps.
LEMMA RebootStepsTake ==
  ASSUME NEW D, NEW i, NEW j, NEW gen, NEW told, NEW pre, NEW post, NEW cases, NEW gets, NEW envs,
         FitsSet(D, i, j, gen, cases, gets), NEW lists, ListsAreRead(D, lists)
  PROVE  Takes(D, StepListTokens(D, "post_reboot_steps", lists),
               OnSet(Base(i, j, SetOf(gen, told, pre, post, <<>>, cases, gets, envs))),
               OnSet(Base(i, j, SetOf(gen, told, pre, post, ListsRead(lists, gen.manual), cases,
                                      gets, envs))))
<1> DEFINE t == "post_reboot_steps"
           n == Len(lists)
           R == ListsRead(lists, gen.manual)
           S(l) == SetOf(gen, told, pre, post, l, cases, gets, envs)
           q == [m \in 0..n |-> S(Pre(R, m))]
<1>1. /\ n \in Nat /\ Pre(R, 0) = <<>> /\ Pre(R, n) = R
      /\ \A m \in 1..n : /\ m - 1 \in 0..n /\ m \in 0..n
                         /\ Append(Pre(R, m - 1), ListRead(lists[m], gen.manual)) = Pre(R, m)
  BY ListsGrow DEF ListsAreRead
<1>2. \A l, x : /\ S(l).gen = gen /\ WithList(S(l), t, x) = S(Append(l, x))
                /\ OfSet(D, Base(i, j, S(l)))
  <2>1. \A l : OfSet(D, Base(i, j, S(l)))
    BY OfSetIs
  <2> QED
    BY <2>1, SetChanges
<1>3. t \in ListTags
  BY DEF ListTags
<1> HIDE DEF R, S, n, t
<1>4. \A m \in 0..n : q[m] = S(Pre(R, m))
  OBVIOUS
<1> HIDE DEF q
<1>5. \A m \in 0..n : OfSet(D, Base(i, j, q[m]))
  BY <1>2, <1>4
<1>6. \A m \in 1..n : q[m] = WithList(q[m - 1], t, ListRead(lists[m], q[m - 1].gen.manual))
  <2> TAKE m \in 1..n
  <2>1. q[m - 1] = S(Pre(R, m - 1)) /\ q[m] = S(Pre(R, m)) /\ q[m - 1].gen = gen
    BY <1>1, <1>2, <1>4
  <2>2. WithList(S(Pre(R, m - 1)), t, ListRead(lists[m], gen.manual))
          = S(Append(Pre(R, m - 1), ListRead(lists[m], gen.manual)))
    BY <1>2
  <2>3. Append(Pre(R, m - 1), ListRead(lists[m], gen.manual)) = Pre(R, m)
    BY <1>1
  <2> QED
    BY <2>1, <2>2, <2>3
<1>7. q[0] = S(<<>>) /\ q[n] = S(R)
  BY <1>1, <1>4
<1>8. Takes(D, StepListTokens(D, t, lists), OnSet(Base(i, j, q[0])), OnSet(Base(i, j, q[n])))
  BY <1>3, <1>5, <1>6, TagTakes DEF ListsAreRead, n
<1>9. Takes(D, StepListTokens(D, t, lists), OnSet(Base(i, j, S(<<>>))), OnSet(Base(i, j, S(R))))
  BY <1>7, <1>8
<1> QED
  BY <1>9 DEF S, R, t

-----------------------------------------------------------------------------
(* Files and environments.                                                  *)

\* An element of elements, which take the place p is at 0 to the one at n.
LEMMA BoxTakes ==
  ASSUME NEW D, NEW t \in Names, NEW c, NEW d, NEW n \in Nat, n # 0, NEW e, NEW p, Steps(D, e, n, p),
         \A m \in 1..n : e[m] # <<>>, NEW content, content = FlattenSeq([m \in 1..n |-> e[m]]),
         \A k : IsToken(k) => /\ Begins(k, t) => ReadsTo(D, c, k, p[0])
                              /\ Closes(k, t) => ReadsTo(D, p[n], k, d)
  PROVE  Takes(D, ElementTokens(D, t, NoAttributes, content), c, d)
<1> DEFINE k == StartToken(t, NoAttributes)
           l == EndToken(t)
           Y == Tokens
<1>1. IsToken(k) /\ Begins(k, t) /\ IsToken(l) /\ Closes(l, t)
  BY NoAttributesAre, ElementTypes
<1> HIDE DEF k, l
<1>2. Takes(D, content, p[0], p[n])
  BY TakesEach
<1>3. content # <<>>
  <2>1. \A m \in 1..n : e[m] \in Seq(Y)
    BY TakesTokens, Zenon DEF Steps
  <2> HIDE DEF Y
  <2>2. Sequences(e, Y, n) /\ e[n] # <<>>
    BY <2>1 DEF Sequences
  <2> QED
    BY <2>2, FlatIsThere DEF Flat
<1>4. ReadsTo(D, c, k, p[0]) /\ ReadsTo(D, p[n], l, d)
  BY <1>1
<1> QED
  BY <1>2, <1>3, <1>4, TakesElement DEF k, l

\* A file is read from c over o, where its name is expected, to d.
FileReads(D, f, c, o, d) ==
  \A k : IsToken(k) =>
    /\ k.t = "start" /\ k.a = f.a => ReadsTo(D, c, k, o)
    /\ k.t = "text" /\ k.n = f.text[1] => ReadsTo(D, o, k, d)
    /\ Closes(k, "file") => ReadsTo(D, d, k, d)

\* Its mark is read with its start and the name with its text.
LEMMA FileTakes ==
  ASSUME NEW D, NEW f, IsFile(f), Len(f.text) = 1, NEW c, NEW d, NEW o,
         FileReads(D, f, c, o, d)
  PROVE  /\ Takes(D, ElementTokens(D, "file", f.a, Texts(f.text)), c, d)
         /\ ElementTokens(D, "file", f.a, Texts(f.text)) # <<>>
<1> DEFINE k == StartToken("file", f.a)
           l == EndToken("file")
           v == f.text[1]
           x == TextToken(v)
           content == Texts(f.text)
           all == ElementTokens(D, "file", f.a, content)
<1>1. IsAttributes(f.a) /\ v \in Words /\ <<v>> \in Seq(Words) /\ f.text = <<v>>
  <2>1. IsAttributes(f.a) /\ f.text \in Seq(STRING)
    BY DEF IsFile
  <2>2. v \in STRING /\ f.text = <<v>>
    BY <2>1
  <2> QED
    BY <2>1, <2>2 DEF Words
<1>2. /\ IsToken(k) /\ k.t = "start" /\ k.a = f.a /\ IsToken(l) /\ Closes(l, "file")
  BY <1>1, ElementTypes DEF Names
<1>3. IsToken(x) /\ x.t = "text" /\ x.n = v
  BY <1>1, TextIs
<1>4. content = <<x>>
  BY <1>1, OneText
<1> HIDE DEF k, l, x, v
<1>5. ReadsTo(D, c, k, o) /\ ReadsTo(D, o, x, d) /\ ReadsTo(D, d, l, d)
  BY <1>2, <1>3 DEF v, FileReads
<1>6. Takes(D, content, o, d) /\ content # <<>>
  BY <1>4, <1>5, TakesOne
<1> HIDE DEF content
<1>7. Takes(D, all, c, d)
  BY <1>5, <1>6, TakesElement DEF k, l
<1>8. all # <<>>
  <2>1. content \in Seq(Tokens) /\ k \in Tokens /\ l \in Tokens
    BY <1>2, <1>6, TakesTokens DEF IsToken
  <2>2. all = <<k>> \o content \o <<l>>
    BY <1>6 DEF ElementTokens, k, l
  <2> DEFINE Y == Tokens
  <2> HIDE DEF Y
  <2>3. \A y \in Seq(Y), q, r \in Y : <<q>> \o y \o <<r>> # <<>>
    OBVIOUS
  <2> QED
    BY <2>1, <2>2, <2>3 DEF Y
<1> QED
  BY <1>7, <1>8 DEF content

\* The marks of the first n files, and of all.
MarkOf(f) == <<f.text[1], IsMarked("delete_after", f)>>
MarksTo(files, n) == {MarkOf(files[m]) : m \in 1..n}

\* One more file at a time.
LEMMA MarksGrow ==
  ASSUME NEW files, Every(IsFile, files)
  PROVE  LET n == Len(files)
         IN  /\ n \in Nat /\ DOMAIN files = 1..n /\ (n = 0 <=> files = <<>>)
             /\ MarksTo(files, 0) = {} /\ MarksTo(files, n) = AskedMarks(files)
             /\ \A m \in 0..n : MarksTo(files, m) \subseteq AskedMarks(files)
             /\ \A m \in 1..n : /\ m - 1 \in 0..n /\ m \in 0..n
                                /\ MarksTo(files, m) = MarksTo(files, m - 1) \cup {MarkOf(files[m])}
<1> DEFINE n == Len(files)
<1>1. n \in Nat /\ DOMAIN files = 1..n /\ (n = 0 <=> files = <<>>)
  BY ListIs DEF Every
<1>2. AskedMarks(files) = {MarkOf(files[m]) : m \in DOMAIN files}
  BY DEF AskedMarks, MarkOf, ToSet
<1> HIDE DEF n
<1>3. MarksTo(files, 0) = {} /\ MarksTo(files, n) = AskedMarks(files)
  BY <1>1, <1>2 DEF MarksTo
<1>4. \A m \in 0..n : MarksTo(files, m) \subseteq AskedMarks(files)
  BY <1>1, <1>2 DEF MarksTo
<1>5. ASSUME NEW m \in 1..n
      PROVE  /\ m - 1 \in 0..n /\ m \in 0..n
             /\ MarksTo(files, m) = MarksTo(files, m - 1) \cup {MarkOf(files[m])}
  <2>1. m - 1 \in 0..n /\ m \in 0..n /\ \A x : x \in 1..m <=> x \in 1..m - 1 \/ x = m
    BY <1>1
  <2> QED
    BY <2>1 DEF MarksTo
<1> QED
  BY <1>1, <1>3, <1>4, <1>5 DEF n

\* A mark is what the parser makes of the attributes.
LEMMA MarkIs ==
  ASSUME NEW f, IsFile(f)
  PROVE  ValueIn(f.a, "delete_after", FALSE) = IsMarked("delete_after", f)
<1>1. "delete_after" \in DOMAIN f.a => f.a["delete_after"] \in BOOLEAN
  BY DEF IsFile, IsAttributes, FlagNames
<1> QED
  BY <1>1 DEF ValueIn, IsMarked

\* The files of a get.
LEMMA FilesTake ==
  ASSUME NEW D, NEW files, Every(IsFile, files), \A m \in DOMAIN files : Len(files[m].text) = 1,
         NEW c, NEW d, NEW p, NEW o, files = <<>> => c = d,
         files # <<>> => \A k : IsToken(k) =>
           /\ Begins(k, "get") => ReadsTo(D, c, k, p[0])
           /\ Closes(k, "get") => ReadsTo(D, p[Len(files)], k, d),
         \A m \in 1..Len(files) : FileReads(D, files[m], p[m - 1], o[m], p[m])
  PROVE  Takes(D, GetTokens(D, files), c, d)
<1> DEFINE n == Len(files)
           content == Each(LAMBDA f : ElementTokens(D, "file", f.a, Texts(f.text)), files)
           e == [i \in 1..n |-> ElementTokens(D, "file", files[i].a, Texts(files[i].text))]
<1>1. n \in Nat /\ DOMAIN files = 1..n /\ (n = 0 <=> files = <<>>)
  BY ListIs DEF Every
<1>2. CASE files = <<>>
  <2>1. GetTokens(D, files) = <<>>
    BY <1>2 DEF GetTokens, When
  <2> QED
    BY <1>2, <2>1, TakesNone
<1>3. CASE files # <<>>
  <2>1. GetTokens(D, files) = ElementTokens(D, "get", NoAttributes, content)
    BY <1>3, Zenon DEF GetTokens, When
  <2>2. content = FlattenSeq([i \in DOMAIN files |->
                                ElementTokens(D, "file", files[i].a, Texts(files[i].text))])
    BY Zenon DEF Each
  <2>3. content = FlattenSeq([i \in 1..n |-> e[i]])
    <3>1. [i \in DOMAIN files |-> ElementTokens(D, "file", files[i].a, Texts(files[i].text))]
            = [i \in 1..n |-> e[i]]
      BY <1>1
    <3> HIDE DEF content
    <3> QED
      BY <2>2, <3>1
  <2>4. ASSUME NEW i \in 1..n PROVE Takes(D, e[i], p[i - 1], p[i]) /\ e[i] # <<>>
    <3> DEFINE f == files[i]
    <3>1. IsFile(f) /\ Len(f.text) = 1
      BY <1>1 DEF Every
    <3>2. e[i] = ElementTokens(D, "file", f.a, Texts(f.text))
      OBVIOUS
    <3> DEFINE a == p[i - 1]
               b == p[i]
               g == o[i]
    <3>3. FileReads(D, f, a, g, b)
      OBVIOUS
    <3> HIDE DEF e, f, a, b, g
    <3>4. /\ Takes(D, ElementTokens(D, "file", f.a, Texts(f.text)), a, b)
          /\ ElementTokens(D, "file", f.a, Texts(f.text)) # <<>>
      BY <3>1, <3>3, FileTakes
    <3> QED
      BY <3>2, <3>4 DEF a, b
  <2> HIDE DEF n, content, e
  <2>5. Steps(D, e, n, p)
    BY <2>4 DEF Steps
  <2>6. "get" \in Names
    BY DEF Names, Boxes
  <2>7. \A k : IsToken(k) => /\ Begins(k, "get") => ReadsTo(D, c, k, p[0])
                             /\ Closes(k, "get") => ReadsTo(D, p[n], k, d)
    BY <1>3 DEF n
  <2> QED
    BY <1>1, <1>3, <2>1, <2>3, <2>4, <2>5, <2>6, <2>7, BoxTakes
<1> QED
  BY <1>2, <1>3

\* The files of a case are read,
LEMMA CaseGetsTake ==
  ASSUME NEW D, NEW b, OfSet(D, b), NEW gen, NEW told, NEW list,
         NEW files, Every(IsFile, files), \A m \in DOMAIN files : Len(files[m].text) = 1
  PROVE  Takes(D, GetTokens(D, files), OnCase(b, CaseOf(gen, told, list, {})),
               OnCase(b, CaseOf(gen, told, list, AskedMarks(files))))
<1> DEFINE n == Len(files)
           C(g) == CaseOf(gen, told, list, g)
           G(m) == MarksTo(files, m)
           no == FALSE
           none == {}
           c == OnCase(b, C(none))
           d == OnCase(b, C(AskedMarks(files)))
           p == [m \in 0..n |-> OnCaseGets(b, C(G(m)), no)]
           o == [m \in 1..n |-> OnCaseGets(b, C(G(m - 1)), IsMarked("delete_after", files[m]))]
<1>1. /\ n \in Nat /\ DOMAIN files = 1..n /\ (n = 0 <=> files = <<>>)
      /\ G(0) = none /\ G(n) = AskedMarks(files)
      /\ \A m \in 1..n : /\ m - 1 \in 0..n /\ m \in 0..n
                         /\ G(m) = G(m - 1) \cup {MarkOf(files[m])}
  BY MarksGrow
<1>2. \A g, x : Marked(C(g), x) = C(g \cup {x})
  BY CaseChanges
<1>3. \A x, m : /\ OnCaseGets(b, x, m).at = "casegets" /\ OnCaseGets(b, x, m).b = b
                /\ OnCaseGets(b, x, m).case = x /\ OnCaseGets(b, x, m).mark = m
                /\ OnCase(b, x).at = "case" /\ OnCase(b, x).b = b /\ OnCase(b, x).case = x
  BY DEF OnCaseGets, OnCase
<1>4. \A x, m : Fine(D, OnCaseGets(b, x, m)) /\ Fine(D, OnCase(b, x))
  BY <1>3 DEF Fine
<1>5. files = <<>> => c = d
  BY <1>1
<1>6. /\ \A m \in 0..n : p[m] = OnCaseGets(b, C(G(m)), no)
      /\ \A m \in 1..n : o[m] = OnCaseGets(b, C(G(m - 1)), IsMarked("delete_after", files[m]))
  OBVIOUS
<1>7. c = OnCase(b, C(G(0))) /\ d = OnCase(b, C(G(n)))
  BY <1>1
<1> HIDE DEF n, C, G, c, d, p, o, no, none
<1>8. ASSUME NEW k, IsToken(k)
      PROVE  /\ Begins(k, "get") => ReadsTo(D, c, k, p[0])
             /\ Closes(k, "get") => ReadsTo(D, p[n], k, d)
  <2>1. p[0] = OnCaseGets(b, C(G(0)), no) /\ p[n] = OnCaseGets(b, C(G(n)), no)
    BY <1>1, <1>6
  <2>2. Begins(k, "get") => CaseReads(c, k, p[0])
    BY <1>3, <1>7, <2>1 DEF CaseReads, no
  <2>3. Closes(k, "get") => CaseGetsReads(p[n], k, d)
    BY <1>3, <1>7, <2>1 DEF CaseGetsReads, Closes
  <2>4. c.at = "case" /\ p[n].at = "casegets" /\ Fine(D, p[0]) /\ Fine(D, d)
    BY <1>3, <1>4, <1>7, <2>1
  <2> QED
    BY <1>8, <2>2, <2>3, <2>4 DEF ReadsTo, Moves
<1>9. ASSUME NEW m \in 1..n PROVE FileReads(D, files[m], p[m - 1], o[m], p[m])
  <2> SUFFICES ASSUME NEW k, IsToken(k)
               PROVE  /\ k.t = "start" /\ k.a = files[m].a => ReadsTo(D, p[m - 1], k, o[m])
                      /\ k.t = "text" /\ k.n = files[m].text[1] => ReadsTo(D, o[m], k, p[m])
                      /\ Closes(k, "file") => ReadsTo(D, p[m], k, p[m])
    BY DEF FileReads
  <2> DEFINE y == C(G(m - 1))
             mark == IsMarked("delete_after", files[m])
             a == p[m - 1]
             g == o[m]
             r == p[m]
  <2>1. a = OnCaseGets(b, y, no) /\ g = OnCaseGets(b, y, mark) /\ r = OnCaseGets(b, C(G(m)), no)
    BY <1>1, <1>6
  <2>2. C(G(m)) = Marked(y, <<files[m].text[1], mark>>)
    BY <1>1, <1>2 DEF MarkOf
  <2>3. ValueIn(files[m].a, "delete_after", no) = mark
    <3>1. IsFile(files[m])
      BY <1>1 DEF Every
    <3> QED
      BY <3>1, MarkIs DEF no
  <2> HIDE DEF y, mark, a, g, r, no
  <2>4. k.t = "start" /\ k.a = files[m].a => CaseGetsReads(a, k, g)
    BY <1>3, <2>1, <2>3 DEF CaseGetsReads
  <2>5. k.t = "text" /\ k.n = files[m].text[1] => CaseGetsReads(g, k, r)
    <3>1. k.n = files[m].text[1] => r = OnCaseGets(g.b, Marked(g.case, <<k.n, g.mark>>), no)
      BY <1>3, <2>1, <2>2
    <3> QED
      BY <3>1, Zenon DEF CaseGetsReads, no
  <2>6. Closes(k, "file") => CaseGetsReads(r, k, r)
    BY DEF CaseGetsReads, Closes
  <2>7. /\ k.t = "start" /\ k.a = files[m].a => ReadsTo(D, a, k, g)
        /\ k.t = "text" /\ k.n = files[m].text[1] => ReadsTo(D, g, k, r)
        /\ Closes(k, "file") => ReadsTo(D, r, k, r)
    BY <1>3, <1>4, <2>1, <2>4, <2>5, <2>6 DEF ReadsTo, Moves
  <2> QED
    BY <2>7 DEF a, g, r
<1>10. Takes(D, GetTokens(D, files), c, d)
  BY <1>5, <1>8, <1>9, FilesTake DEF n
<1> QED
  BY <1>10 DEF c, d, C, none

\* and those of a set.
LEMMA SetGetsTake ==
  ASSUME NEW D, NEW i, NEW j, NEW gen, NEW told, NEW pre, NEW post, NEW reboot, NEW cases, NEW envs,
         NEW files, FitsSet(D, i, j, gen, cases, AskedMarks(files)),
         Every(IsFile, files), \A m \in DOMAIN files : Len(files[m].text) = 1
  PROVE  Takes(D, GetTokens(D, files),
               OnSet(Base(i, j, SetOf(gen, told, pre, post, reboot, cases, {}, envs))),
               OnSet(Base(i, j, SetOf(gen, told, pre, post, reboot, cases, AskedMarks(files), envs))))
<1> DEFINE n == Len(files)
           B(g) == Base(i, j, SetOf(gen, told, pre, post, reboot, cases, g, envs))
           G(m) == MarksTo(files, m)
           no == FALSE
           none == {}
           c == OnSet(B(none))
           d == OnSet(B(AskedMarks(files)))
           p == [m \in 0..n |-> OnSetGets(B(G(m)), no)]
           o == [m \in 1..n |-> OnSetGets(B(G(m - 1)), IsMarked("delete_after", files[m]))]
<1>1. /\ n \in Nat /\ DOMAIN files = 1..n /\ (n = 0 <=> files = <<>>)
      /\ G(0) = none /\ G(n) = AskedMarks(files)
      /\ \A m \in 0..n : G(m) \subseteq AskedMarks(files)
      /\ \A m \in 1..n : /\ m - 1 \in 0..n /\ m \in 0..n
                         /\ G(m) = G(m - 1) \cup {MarkOf(files[m])}
  BY MarksGrow
<1>2. \A g, x : With(B(g), Marked(B(g).set, x)) = B(g \cup {x})
  BY SetChanges, BaseIs
<1>3. \A x, m : /\ OnSetGets(x, m).at = "setgets" /\ OnSetGets(x, m).b = x /\ OnSetGets(x, m).mark = m
                /\ OnSet(x).at = "set" /\ OnSet(x).b = x
  BY DEF OnSetGets, OnSet
<1>4. \A m \in 0..n : \A x : Fine(D, OnSetGets(B(G(m)), x)) /\ Fine(D, OnSet(B(G(m))))
  <2>1. ASSUME NEW m \in 0..n PROVE OfSet(D, B(G(m)))
    <3>1. FitsSet(D, i, j, gen, cases, G(m))
      <4>1. G(m) \subseteq AskedMarks(files)
        BY <1>1
      <4> HIDE DEF G
      <4> QED
        BY <4>1 DEF FitsSet
    <3> HIDE DEF G
    <3> QED
      BY <3>1, OfSetIs
  <2> HIDE DEF B, G
  <2> QED
    BY <1>3, <2>1 DEF Fine
<1>5. files = <<>> => c = d
  BY <1>1
<1>6. /\ \A m \in 0..n : p[m] = OnSetGets(B(G(m)), no)
      /\ \A m \in 1..n : o[m] = OnSetGets(B(G(m - 1)), IsMarked("delete_after", files[m]))
  OBVIOUS
<1>7. c = OnSet(B(G(0))) /\ d = OnSet(B(G(n)))
  BY <1>1
<1> HIDE DEF n, B, G, c, d, p, o, no, none
<1>8. ASSUME NEW k, IsToken(k)
      PROVE  /\ Begins(k, "get") => ReadsTo(D, c, k, p[0])
             /\ Closes(k, "get") => ReadsTo(D, p[n], k, d)
  <2>1. p[0] = OnSetGets(B(G(0)), no) /\ p[n] = OnSetGets(B(G(n)), no) /\ 0 \in 0..n /\ n \in 0..n
    BY <1>1, <1>6
  <2>2. Begins(k, "get") => SetReads(D, c, k, p[0])
    BY <1>3, <1>7, <2>1 DEF SetReads, no
  <2>3. Closes(k, "get") => SetGetsReads(p[n], k, d)
    BY <1>3, <1>7, <2>1 DEF SetGetsReads, Closes
  <2>4. c.at = "set" /\ p[n].at = "setgets" /\ Fine(D, p[0]) /\ Fine(D, d)
    BY <1>3, <1>4, <1>7, <2>1
  <2> QED
    BY <1>8, <2>2, <2>3, <2>4 DEF ReadsTo, Moves
<1>9. ASSUME NEW m \in 1..n PROVE FileReads(D, files[m], p[m - 1], o[m], p[m])
  <2> SUFFICES ASSUME NEW k, IsToken(k)
               PROVE  /\ k.t = "start" /\ k.a = files[m].a => ReadsTo(D, p[m - 1], k, o[m])
                      /\ k.t = "text" /\ k.n = files[m].text[1] => ReadsTo(D, o[m], k, p[m])
                      /\ Closes(k, "file") => ReadsTo(D, p[m], k, p[m])
    BY DEF FileReads
  <2> DEFINE y == B(G(m - 1))
             z == B(G(m))
             mark == IsMarked("delete_after", files[m])
             a == p[m - 1]
             g == o[m]
             r == p[m]
  <2>1. a = OnSetGets(y, no) /\ g = OnSetGets(y, mark) /\ r = OnSetGets(z, no)
    BY <1>1, <1>6
  <2>2. z = With(y, Marked(y.set, <<files[m].text[1], mark>>))
    <3>1. G(m) = G(m - 1) \cup {MarkOf(files[m])}
      BY <1>1
    <3>2. With(B(G(m - 1)), Marked(B(G(m - 1)).set, MarkOf(files[m])))
            = B(G(m - 1) \cup {MarkOf(files[m])})
      BY <1>2
    <3> QED
      BY <3>1, <3>2 DEF MarkOf
  <2>3. ValueIn(files[m].a, "delete_after", no) = mark
    <3>1. IsFile(files[m])
      BY <1>1 DEF Every
    <3> QED
      BY <3>1, MarkIs DEF no
  <2>0. Fine(D, g) /\ Fine(D, r)
    BY <1>1, <1>4, <2>1
  <2> HIDE DEF y, z, mark, a, g, r, no
  <2>4. k.t = "start" /\ k.a = files[m].a => SetGetsReads(a, k, g)
    BY <1>3, <2>1, <2>3 DEF SetGetsReads
  <2>5. k.t = "text" /\ k.n = files[m].text[1] => SetGetsReads(g, k, r)
    <3>1. k.n = files[m].text[1] => r = OnSetGets(With(g.b, Marked(g.b.set, <<k.n, g.mark>>)), no)
      BY <1>3, <2>1, <2>2
    <3> QED
      BY <3>1, Zenon DEF SetGetsReads, no
  <2>6. Closes(k, "file") => SetGetsReads(r, k, r)
    BY DEF SetGetsReads, Closes
  <2>7. /\ k.t = "start" /\ k.a = files[m].a => ReadsTo(D, a, k, g)
        /\ k.t = "text" /\ k.n = files[m].text[1] => ReadsTo(D, g, k, r)
        /\ Closes(k, "file") => ReadsTo(D, r, k, r)
    BY <1>3, <2>0, <2>1, <2>4, <2>5, <2>6 DEF ReadsTo, Moves
  <2> QED
    BY <2>7 DEF a, g, r
<1>10. Takes(D, GetTokens(D, files), c, d)
  BY <1>5, <1>8, <1>9, FilesTake DEF n
<1> QED
  BY <1>10 DEF c, d, B, none

\* An environment is read from b to z: it goes unless its value says so.
LEMMA EnvTakes ==
  ASSUME NEW D, NEW x, IsEnvironment(x), NEW b, NEW z, OfSet(D, b), OfSet(D, z),
         z = IF x.v = "false" THEN With(b, Without(b.set, x.n)) ELSE b
  PROVE  /\ Takes(D, ElementTokens(D, x.n, NoAttributes, <<TextToken(x.v)>>), OnEnvs(b), OnEnvs(z))
         /\ ElementTokens(D, x.n, NoAttributes, <<TextToken(x.v)>>) # <<>>
<1> DEFINE n == x.n
           v == x.v
           k == StartToken(n, NoAttributes)
           l == EndToken(n)
           y == TextToken(v)
           content == <<y>>
           all == ElementTokens(D, n, NoAttributes, content)
           c == OnEnvs(b)
           d == OnEnvs(z)
           o == OnEnv(b, n)
           r == OnEnv(z, n)
<1>1. n \in Names /\ n # "environments" /\ v \in Words
  BY DEF IsEnvironment, Names, Words
<1>2. /\ IsToken(k) /\ k.t = "start" /\ k.n = n /\ IsToken(l) /\ l.t = "end" /\ l.n = n
  BY <1>1, NoAttributesAre, ElementTypes
<1>3. IsToken(y) /\ y.t = "text" /\ y.n = v
  BY <1>1, TextIs
<1>4. /\ c.at = "envs" /\ c.b = b /\ d.at = "envs" /\ d.b = z
      /\ o.at = "env" /\ o.b = b /\ o.env = n /\ r.at = "env" /\ r.b = z /\ r.env = n
  BY DEF OnEnvs, OnEnv
<1>5. o = OnEnv(b, n) /\ r = OnEnv(z, n) /\ d = OnEnvs(z)
  OBVIOUS
<1> HIDE DEF k, l, y, v, n, c, d, o, r
<1>6. Fine(D, o) /\ Fine(D, r) /\ Fine(D, d)
  BY <1>4 DEF Fine
<1>7. EnvsReads(c, k, o) /\ EnvReads(r, l, d)
  BY <1>1, <1>2, <1>4, <1>5 DEF EnvsReads, EnvReads
<1>8. EnvReads(o, y, r)
  <2>1. r = IF y.n = "false" THEN OnEnv(With(o.b, Without(o.b.set, o.env)), o.env) ELSE o
    BY <1>3, <1>4, <1>5 DEF v, n
  <2> QED
    BY <1>3, <2>1 DEF EnvReads
<1>9. ReadsTo(D, c, k, o) /\ ReadsTo(D, r, l, d) /\ ReadsTo(D, o, y, r)
  BY <1>2, <1>3, <1>4, <1>6, <1>7, <1>8 DEF ReadsTo, Moves
<1>10. Takes(D, content, o, r) /\ content # <<>>
  BY <1>9, TakesOne
<1>11. content \in Seq(Tokens) /\ k \in Tokens /\ l \in Tokens
  BY <1>2, <1>10, TakesTokens DEF IsToken
<1> HIDE DEF content
<1>12. Takes(D, all, c, d)
  BY <1>9, <1>10, TakesElement DEF k, l
<1>13. all # <<>>
  <2>2. all = <<k>> \o content \o <<l>>
    BY <1>10 DEF ElementTokens, k, l
  <2> DEFINE Y == Tokens
  <2> HIDE DEF Y
  <2>3. \A u \in Seq(Y), q, p \in Y : <<q>> \o u \o <<p>> # <<>>
    OBVIOUS
  <2> QED
    BY <1>11, <2>2, <2>3 DEF Y
<1> QED
  BY <1>12, <1>13 DEF content, c, d, n, v, y

\* The environments left over of the first.
LEMMA EnvsShrink ==
  ASSUME NEW envs, Every(IsEnvironment, envs)
  PROVE  LET n == Len(envs)
         IN  /\ n \in Nat /\ DOMAIN envs = 1..n /\ (n = 0 <=> envs = <<>>)
             /\ EnvsLeft(envs, 0) = {"hardware", "scratchbox"}
             /\ \A m \in 1..n : /\ m - 1 \in 0..n /\ m \in 0..n /\ IsEnvironment(envs[m])
                                /\ EnvsLeft(envs, m) = IF envs[m].v = "false"
                                                       THEN EnvsLeft(envs, m - 1) \ {envs[m].n}
                                                       ELSE EnvsLeft(envs, m - 1)
<1> DEFINE n == Len(envs)
<1>1. n \in Nat /\ DOMAIN envs = 1..n /\ (n = 0 <=> envs = <<>>)
  BY ListIs DEF Every
<1>2. \A m \in 1..n : IsEnvironment(envs[m])
  BY <1>1 DEF Every
<1> HIDE DEF n
<1>3. EnvsLeft(envs, 0) = {"hardware", "scratchbox"}
  BY DEF EnvsLeft
<1>4. ASSUME NEW m \in 1..n
      PROVE  /\ m - 1 \in 0..n /\ m \in 0..n
             /\ EnvsLeft(envs, m) = IF envs[m].v = "false" THEN EnvsLeft(envs, m - 1) \ {envs[m].n}
                                    ELSE EnvsLeft(envs, m - 1)
  <2>1. m - 1 \in 0..n /\ m \in 0..n /\ \A x : x \in 1..m <=> x \in 1..m - 1 \/ x = m
    BY <1>1
  <2> QED
    BY <2>1 DEF EnvsLeft
<1> QED
  BY <1>1, <1>2, <1>3, <1>4 DEF n

\* The environments of a set are read.
LEMMA EnvironmentsTake ==
  ASSUME NEW D, NEW i, NEW j, NEW gen, NEW told, NEW pre, NEW post, NEW reboot, NEW cases, NEW gets,
         FitsSet(D, i, j, gen, cases, gets), NEW envs, Every(IsEnvironment, envs)
  PROVE  Takes(D, EnvironmentTokens(D, envs),
               OnSet(Base(i, j, SetOf(gen, told, pre, post, reboot, cases, gets,
                                      {"hardware", "scratchbox"}))),
               OnSet(Base(i, j, SetOf(gen, told, pre, post, reboot, cases, gets,
                                      EnvsLeft(envs, Len(envs))))))
<1> DEFINE n == Len(envs)
           B(g) == Base(i, j, SetOf(gen, told, pre, post, reboot, cases, gets, g))
           G(m) == EnvsLeft(envs, m)
           all == {"hardware", "scratchbox"}
           c == OnSet(B(all))
           d == OnSet(B(G(n)))
           content == Each(LAMBDA x : ElementTokens(D, x.n, NoAttributes, <<TextToken(x.v)>>), envs)
           e == [m \in 1..n |-> ElementTokens(D, envs[m].n, NoAttributes, <<TextToken(envs[m].v)>>)]
           p == [m \in 0..n |-> OnEnvs(B(G(m)))]
<1>1. /\ n \in Nat /\ DOMAIN envs = 1..n /\ (n = 0 <=> envs = <<>>) /\ G(0) = all
      /\ \A m \in 1..n : /\ m - 1 \in 0..n /\ m \in 0..n /\ IsEnvironment(envs[m])
                         /\ G(m) = IF envs[m].v = "false" THEN G(m - 1) \ {envs[m].n} ELSE G(m - 1)
  BY EnvsShrink
<1>2. \A g, x : With(B(g), Without(B(g).set, x)) = B(g \ {x})
  <2> TAKE g, x
  <2> DEFINE S(y) == SetOf(gen, told, pre, post, reboot, cases, gets, y)
  <2>1. Without(S(g), x) = S(g \ {x})
    BY SetChanges
  <2> HIDE DEF S
  <2>2. \A y : Base(i, j, S(y)).set = S(y) /\ \A z : With(Base(i, j, S(y)), S(z)) = Base(i, j, S(z))
    BY BaseIs
  <2> QED
    BY <2>1, <2>2 DEF S
<1>3. \A x : /\ OnEnvs(x).at = "envs" /\ OnEnvs(x).b = x /\ OnSet(x).at = "set" /\ OnSet(x).b = x
  BY DEF OnEnvs, OnSet
<1>4. \A g : OfSet(D, B(g)) /\ Fine(D, OnEnvs(B(g))) /\ Fine(D, OnSet(B(g)))
  <2>1. \A g : OfSet(D, B(g))
    BY OfSetIs
  <2> HIDE DEF B
  <2> QED
    BY <1>3, <2>1 DEF Fine
<1>5. p[0] = OnEnvs(B(G(0))) /\ p[n] = OnEnvs(B(G(n)))
      /\ \A m \in 1..n : p[m - 1] = OnEnvs(B(G(m - 1))) /\ p[m] = OnEnvs(B(G(m)))
  BY <1>1
<1>6. c = OnSet(B(G(0))) /\ d = OnSet(B(G(n)))
  BY <1>1
<1>7. CASE envs = <<>>
  <2>1. EnvironmentTokens(D, envs) = <<>> /\ c = d
    BY <1>1, <1>7 DEF EnvironmentTokens, When
  <2>2. Takes(D, EnvironmentTokens(D, envs), c, d)
    BY <2>1, TakesNone
  <2> QED
    BY <2>2
<1>8. CASE envs # <<>>
  <2>1. EnvironmentTokens(D, envs) = ElementTokens(D, "environments", NoAttributes, content)
    BY <1>8, Zenon DEF EnvironmentTokens, When
  <2>2. content = FlattenSeq([m \in DOMAIN envs |->
                                ElementTokens(D, envs[m].n, NoAttributes, <<TextToken(envs[m].v)>>)])
    BY Zenon DEF Each
  <2>3. content = FlattenSeq([m \in 1..n |-> e[m]])
    <3>1. [m \in DOMAIN envs |-> ElementTokens(D, envs[m].n, NoAttributes, <<TextToken(envs[m].v)>>)]
            = [m \in 1..n |-> e[m]]
      BY <1>1
    <3> HIDE DEF content
    <3> QED
      BY <2>2, <3>1
  <2>4. ASSUME NEW m \in 1..n PROVE Takes(D, e[m], p[m - 1], p[m]) /\ e[m] # <<>>
    <3> DEFINE x == envs[m]
               b == B(G(m - 1))
               z == B(G(m))
    <3>1. e[m] = ElementTokens(D, x.n, NoAttributes, <<TextToken(x.v)>>)
      OBVIOUS
    <3>2. IsEnvironment(x) /\ OfSet(D, b) /\ OfSet(D, z)
          /\ p[m - 1] = OnEnvs(b) /\ p[m] = OnEnvs(z)
      <4> HIDE DEF G, B, p
      <4> QED
        BY <1>1, <1>4, <1>5
    <3>3. z = IF x.v = "false" THEN With(b, Without(b.set, x.n)) ELSE b
      <4> HIDE DEF G, B
      <4>1. With(b, Without(b.set, x.n)) = B(G(m - 1) \ {x.n})
        BY <1>2
      <4> QED
        BY <1>1, <4>1
    <3> HIDE DEF x, b, z, e, p
    <3>4. /\ Takes(D, ElementTokens(D, x.n, NoAttributes, <<TextToken(x.v)>>), OnEnvs(b), OnEnvs(z))
          /\ ElementTokens(D, x.n, NoAttributes, <<TextToken(x.v)>>) # <<>>
      BY <3>2, <3>3, EnvTakes
    <3> QED
      BY <3>1, <3>2, <3>4
  <2> HIDE DEF n, B, G, content, e, p, c, d
  <2>5. ASSUME NEW k, IsToken(k)
        PROVE  /\ Begins(k, "environments") => ReadsTo(D, c, k, p[0])
               /\ Closes(k, "environments") => ReadsTo(D, p[n], k, d)
    <3>1. Begins(k, "environments") => SetReads(D, c, k, p[0])
      BY <1>3, <1>5, <1>6 DEF SetReads
    <3>2. Closes(k, "environments") => EnvsReads(p[n], k, d)
      BY <1>3, <1>5, <1>6 DEF EnvsReads
    <3>3. c.at = "set" /\ p[n].at = "envs" /\ Fine(D, p[0]) /\ Fine(D, d)
      BY <1>3, <1>4, <1>5, <1>6
    <3> QED
      BY <2>5, <3>1, <3>2, <3>3 DEF ReadsTo, Moves
  <2>6. Steps(D, e, n, p)
    BY <2>4 DEF Steps
  <2>7. "environments" \in Names
    BY DEF Names, Boxes
  <2>8. Takes(D, EnvironmentTokens(D, envs), c, d)
    BY <1>1, <1>8, <2>1, <2>3, <2>4, <2>5, <2>6, <2>7, BoxTakes
  <2> QED
    BY <2>8 DEF c, d, B, G, n
<1> QED
  BY <1>7, <1>8

-----------------------------------------------------------------------------
(* Cases.                                                                   *)

\* At its end a case has the same files; one without steps stays as it is.
LEMMA SaneIs ==
  ASSUME NEW gen, NEW told, NEW list, NEW gets
  PROVE  /\ Sane(CaseOf(gen, told, list, gets)).gets = gets
         /\ list = <<>> /\ gen = [k \in GenAttributes |-> gen[k]] =>
              Sane(CaseOf(gen, told, list, gets)) = CaseOf(gen, told, list, gets)
<1> DEFINE c == CaseOf(gen, told, list, gets)
<1>1. c.gets = gets /\ c.gen = gen /\ c.steps = list
  BY CaseChanges
<1>2. DOMAIN c = {"gen", "described", "steps", "gets", "measurements", "series", "reboot", "shared", "filtered"}
      /\ c = [x \in DOMAIN c |-> c[x]]
  BY DEF CaseOf, CaseLike
<1> HIDE DEF c
<1>3. Sane(c).gets = c.gets
  BY <1>2 DEF Sane
<1>4. ASSUME list = <<>>, gen = [k \in GenAttributes |-> gen[k]] PROVE Sane(c) = c
  <2>1. Sane(c) = [c EXCEPT !.gen = [c.gen EXCEPT !.manual = c.gen.manual]]
    BY <1>1, <1>2, <1>4 DEF Sane
  <2>2. [c.gen EXCEPT !.manual = c.gen.manual] = c.gen
    BY <1>1, <1>4
  <2>3. [c EXCEPT !.gen = c.gen] = c
    BY <1>2
  <2> QED
    BY <2>1, <2>2, <2>3
<1> QED
  BY <1>1, <1>3, <1>4 DEF c

\* The cases that the parser can read.
CaseIsRead(D, c) ==
  /\ IsCase(c) /\ \A i \in DOMAIN c.steps : StepIsRead(D, c.steps[i])
  /\ \A m \in DOMAIN c.gets : Len(c.gets[m].text) = 1

\* A case is read.
LEMMA CaseTakes ==
  ASSUME NEW D, D.described \in BOOLEAN, NEW b, OfSet(D, b), NEW x, CaseIsRead(D, x),
         NEW s, s = WithCase(b.set, CaseRead(D, x, b.set.gen)), OfSet(D, With(b, s))
  PROVE  Takes(D, CaseTokens(D, x), OnSet(b), OnSet(With(b, s)))
<1> DEFINE what == Description(D)
           allsteps == StepsTokens(D, x.steps)
           files == GetTokens(D, x.gets)
           content == what \o allsteps \o files
           gen == GenOf(x.a, b.set.gen)
           told == D.described
           list == ListRead(x.steps, gen.manual)
           marks == AskedMarks(x.gets)
           C(t, l, g) == CaseOf(gen, t, l, g)
           no == NotTold
           none == <<>>
           nil == {}
           c0 == OnCase(b, C(no, none, nil))
           c1 == OnCase(b, C(told, none, nil))
           c2 == OnCase(b, C(told, list, nil))
           c3 == OnCase(b, C(told, list, marks))
           c == OnSet(b)
           d == OnSet(With(b, s))
<1>1. CaseTokens(D, x) = ElementTokens(D, "case", x.a, content)
  BY Zenon DEF CaseTokens, StepsTokens
<1>2. /\ IsAttributes(x.a) /\ Every(IsStep, x.steps) /\ Every(IsFile, x.gets)
      /\ x.steps \in Seq({x.steps[i] : i \in DOMAIN x.steps})
  BY DEF CaseIsRead, IsCase, Every
<1>3. Takes(D, what, c0, c1)
  <2> HIDE DEF gen, none, nil
  <2>1. Takes(D, Description(D), OnCase(b, CaseOf(gen, NotTold, none, nil)),
              OnCase(b, CaseOf(gen, D.described, none, nil)))
    BY CaseIsDescribed
  <2> QED
    BY <2>1
<1>4. Takes(D, allsteps, c1, c2)
  <2> HIDE DEF told, gen, no, nil
  <2>1. Holder(D, c1) /\ StepsAt(c1) = <<>> /\ ManualAt(c1) = gen.manual /\ WithSteps(c1, list) = c2
        /\ c1.at = "case"
    <3>1. c1.at = "case" /\ c1.b = b /\ c1.case = CaseOf(gen, told, none, nil) /\ c1 = OnCase(b, c1.case)
      BY DEF OnCase
    <3>2. c1.case.gen = gen /\ c1.case.steps = <<>>
          /\ [c1.case EXCEPT !.steps = list] = CaseOf(gen, told, list, nil)
      <4>1. /\ CaseOf(gen, told, none, nil).gen = gen /\ CaseOf(gen, told, none, nil).steps = none
            /\ [CaseOf(gen, told, none, nil) EXCEPT !.steps = list] = CaseOf(gen, told, list, nil)
        <5> HIDE DEF none, list
        <5> QED
          BY CaseChanges
      <4> QED
        BY <3>1, <4>1
    <3> HIDE DEF c1, list, none
    <3>3. Holder(D, c1)
      BY <3>1, Zenon DEF Holder
    <3> QED
      BY <3>1, <3>2, <3>3 DEF StepsAt, ManualAt, WithSteps
  <2> HIDE DEF c1, c2, list
  <2>2. Takes(D, StepsTokens(D, x.steps), c1, WithSteps(c1, ListRead(x.steps, ManualAt(c1))))
    <3>1. \A i \in DOMAIN x.steps : /\ StepIsRead(D, x.steps[i])
                                    /\ c1.at = "list" => x.steps[i].n = "step"
      BY <2>1 DEF CaseIsRead
    <3> QED
      BY <1>2, <2>1, <3>1, StepsTake
  <2> QED
    BY <2>1, <2>2 DEF list
<1>5. Takes(D, files, c2, c3)
  <2>1. \A m \in DOMAIN x.gets : Len(x.gets[m].text) = 1
    BY DEF CaseIsRead
  <2> HIDE DEF told, list, gen
  <2> QED
    BY <1>2, <2>1, CaseGetsTake
<1>6. Takes(D, content, c0, c3)
  <2> HIDE DEF what, allsteps, files, c0, c1, c2, c3
  <2>1. Takes(D, what \o allsteps, c0, c2)
    BY <1>3, <1>4, TakesOn
  <2>2. Takes(D, (what \o allsteps) \o files, c0, c3)
    BY <1>5, <2>1, TakesOn
  <2> QED
    BY <2>2
<1> DEFINE k == StartToken("case", x.a)
           e == EmptyToken("case", x.a)
           l == EndToken("case")
<1>7. /\ IsToken(k) /\ Begins(k, "case") /\ k.a = x.a /\ ~k.empty
      /\ IsToken(e) /\ Begins(e, "case") /\ e.a = x.a /\ e.empty
      /\ IsToken(l) /\ Closes(l, "case")
  BY <1>2, ElementTypes DEF Names, Boxes
<1>8. Sane(C(told, list, marks)) = CaseRead(D, x, b.set.gen)
  BY DEF CaseRead
<1>9. NewCaseOf(gen) = C(no, none, nil)
  BY DEF NewCaseOf, NotTold
<1>10. C(no, none, nil) = C(told, list, marks) => C(no, none, nil) = CaseRead(D, x, b.set.gen)
  <2>1. gen = [q \in GenAttributes |-> gen[q]]
    BY DEF GenOf
  <2> HIDE DEF gen, no, nil, told, list, marks
  <2>2. C(no, none, nil) = CaseOf(gen, no, <<>>, nil)
    OBVIOUS
  <2>3. Sane(C(no, none, nil)) = C(no, none, nil)
    BY <2>1, <2>2, SaneIs
  <2> HIDE DEF C, none
  <2> QED
    BY <1>8, <2>3
<1>11. /\ c0.at = "case" /\ c0.b = b /\ c3.at = "case" /\ c3.b = b /\ c3.case = C(told, list, marks)
       /\ c0.case = C(no, none, nil) /\ c.at = "set" /\ c.b = b /\ d.at = "set" /\ d.b = With(b, s)
       /\ c0 = OnCase(b, C(no, none, nil)) /\ d = OnSet(With(b, s))
  BY DEF OnCase, OnSet
<1> HIDE DEF k, e, l, content, C, no, none, nil, told, list, marks, c0, c1, c2, c3, c, d
<1>12. Fine(D, c0) /\ Fine(D, d)
  BY <1>11 DEF Fine
<1>13. SetReads(D, c, k, c0)
  BY <1>7, <1>9, <1>11 DEF SetReads, gen
<1>14. CaseReads(c3, l, d)
  <2>1. d = OnSet(With(c3.b, WithCase(c3.b.set, Sane(c3.case))))
    BY <1>8, <1>11
  <2> QED
    BY <1>7, <2>1 DEF CaseReads
<1>15. c0 = c3 => SetReads(D, c, e, d)
  <2>1. c0 = c3 => d = OnSet(With(b, WithCase(b.set, NewCaseOf(gen))))
    <3>1. c0 = c3 => C(no, none, nil) = C(told, list, marks)
      BY <1>11
    <3> QED
      BY <1>9, <1>10, <1>11, <3>1
  <2> QED
    BY <1>7, <1>11, <2>1 DEF SetReads, gen
<1>16. ReadsTo(D, c, k, c0) /\ ReadsTo(D, c3, l, d) /\ (c0 = c3 => ReadsTo(D, c, e, d))
  BY <1>7, <1>11, <1>12, <1>13, <1>14, <1>15 DEF ReadsTo, Moves
<1>17. Takes(D, ElementTokens(D, "case", x.a, content), c, d)
  BY <1>6, <1>16, TakesElement DEF k, e, l
<1> QED
  BY <1>1, <1>17 DEF c, d

\* The tokens of the cases of a set.
CasesTokens(D, cs) == Each(LAMBDA c : CaseTokens(D, c), cs)

\* The cases of a set are read.
LEMMA CasesTake ==
  ASSUME NEW D, D.described \in BOOLEAN, NEW i, NEW j, NEW gen, NEW told, NEW pre, NEW post, NEW reboot,
         NEW gets, NEW envs, FitsSet(D, i, j, gen, <<>>, gets), NEW cs, cs = D.suites[i].sets[j].cases,
         Every(IsCase, cs), \A m \in DOMAIN cs : CaseIsRead(D, cs[m])
  PROVE  /\ Takes(D, CasesTokens(D, cs),
                  OnSet(Base(i, j, SetOf(gen, told, pre, post, reboot, <<>>, gets, envs))),
                  OnSet(Base(i, j, SetOf(gen, told, pre, post, reboot, CasesRead(D, cs, gen), gets, envs))))
         /\ FitsSet(D, i, j, gen, CasesRead(D, cs, gen), gets)
<1> DEFINE n == Len(cs)
           R == CasesRead(D, cs, gen)
           S(l) == SetOf(gen, told, pre, post, reboot, l, gets, envs)
           B(l) == Base(i, j, S(l))
           x == CasesTokens(D, cs)
           e == [m \in 1..n |-> CaseTokens(D, cs[m])]
           p == [m \in 0..n |-> OnSet(B(Pre(R, m)))]
<1>1. n \in Nat /\ DOMAIN cs = 1..n
  <2>1. cs \in Seq({cs[m] : m \in DOMAIN cs})
    BY Zenon DEF Every
  <2> QED
    BY <2>1, ListIs
<1>2. /\ DOMAIN R = 1..n /\ R = [m \in DOMAIN R |-> R[m]]
      /\ \A m \in 1..n : R[m] = CaseRead(D, cs[m], gen)
  BY <1>1 DEF CasesRead
<1>3. \A m \in 1..n : R[m].gets = AskedMarks(cs[m].gets)
  <2> TAKE m \in 1..n
  <2> DEFINE g == GenOf(cs[m].a, gen)
             l == ListRead(cs[m].steps, g.manual)
             marks == AskedMarks(cs[m].gets)
  <2>1. R[m] = Sane(CaseOf(g, D.described, l, marks))
    BY <1>2 DEF CaseRead
  <2> HIDE DEF g, l, marks
  <2>2. R[m].gets = marks
    BY <2>1, SaneIs
  <2> QED
    BY <2>2 DEF marks
<1>4. x = FlattenSeq([m \in DOMAIN cs |-> CaseTokens(D, cs[m])])
  BY Zenon DEF CasesTokens, Each
<1>5. x = FlattenSeq([m \in 1..n |-> e[m]])
  BY <1>1, <1>4
<1>6. \A l, y : /\ S(l).gen = gen /\ WithCase(S(l), y) = S(Append(l, y))
                /\ B(l).set = S(l) /\ With(B(l), S(y)) = B(y)
                /\ FitsSet(D, i, j, gen, l, gets) => OfSet(D, B(l))
  <2>1. \A l, y : S(l).gen = gen /\ WithCase(S(l), y) = S(Append(l, y))
    BY SetChanges
  <2>2. \A l : FitsSet(D, i, j, gen, l, gets) => OfSet(D, B(l))
    BY OfSetIs
  <2>3. \A l, y : B(l).set = S(l) /\ With(B(l), S(y)) = B(y)
    <3> HIDE DEF S
    <3> QED
      BY BaseIs
  <2> QED
    BY <2>1, <2>2, <2>3
<1>7. /\ \A m \in 0..n : p[m] = OnSet(B(Pre(R, m)))
      /\ \A m \in 1..n : e[m] = CaseTokens(D, cs[m])
  OBVIOUS
<1> HIDE DEF n, R, S, B, x, e, p
<1>8. ASSUME NEW m \in 0..n PROVE FitsSet(D, i, j, gen, Pre(R, m), gets)
  <2>1. DOMAIN Pre(R, m) = 1..m /\ \A y \in 1..m : Pre(R, m)[y] = R[y] /\ y \in 1..n
    BY <1>1, PreGrows
  <2>2. \A y \in DOMAIN Pre(R, m) : y \in DOMAIN cs /\ Pre(R, m)[y].gets = AskedMarks(cs[y].gets)
    BY <1>1, <1>3, <2>1
  <2> QED
    BY <2>2 DEF FitsSet
<1>9. ASSUME NEW m \in 1..n PROVE Takes(D, e[m], p[m - 1], p[m])
  <2> DEFINE y == cs[m]
             b == B(Pre(R, m - 1))
             s == S(Pre(R, m))
  <2>1. m - 1 \in 0..n /\ m \in 0..n /\ m \in DOMAIN cs /\ m - 1 \in Nat /\ (m - 1) + 1 = m
    BY <1>1
  <2>2. OfSet(D, b) /\ With(b, s) = B(Pre(R, m)) /\ OfSet(D, With(b, s)) /\ b.set = S(Pre(R, m - 1))
        /\ b.set.gen = gen
    BY <1>6, <1>8, <2>1
  <2>3. s = WithCase(b.set, CaseRead(D, y, b.set.gen))
    <3>1. Append(Pre(R, m - 1), R[m]) = Pre(R, m)
      <4>1. Append(Pre(R, m - 1), R[(m - 1) + 1]) = Pre(R, (m - 1) + 1)
        BY <2>1, PreGrows
      <4> QED
        BY <2>1, <4>1
    <3>2. R[m] = CaseRead(D, y, gen)
      BY <1>2
    <3>3. WithCase(S(Pre(R, m - 1)), R[m]) = S(Append(Pre(R, m - 1), R[m]))
      BY <1>6
    <3> QED
      BY <2>2, <3>1, <3>2, <3>3
  <2>4. p[m - 1] = OnSet(b) /\ p[m] = OnSet(With(b, s)) /\ e[m] = CaseTokens(D, y)
    BY <1>7, <2>1, <2>2
  <2>5. CaseIsRead(D, y)
    BY <2>1
  <2> HIDE DEF y, b, s
  <2>6. Takes(D, CaseTokens(D, y), OnSet(b), OnSet(With(b, s)))
    BY <2>2, <2>3, <2>5, CaseTakes
  <2> QED
    BY <2>4, <2>6
<1>10. p[0] = OnSet(B(<<>>)) /\ p[n] = OnSet(B(R)) /\ Pre(R, n) = R
  <2>1. Pre(R, 0) = <<>> /\ Pre(R, n) = R
    BY <1>1, <1>2, PreGrows, PreAll
  <2>2. 0 \in 0..n /\ n \in 0..n
    BY <1>1
  <2> QED
    BY <1>7, <2>1, <2>2
<1>11. Steps(D, e, n, p)
  BY <1>9 DEF Steps
<1>12. Takes(D, x, OnSet(B(<<>>)), OnSet(B(R)))
  <2>1. Takes(D, x, p[0], p[n])
    BY <1>1, <1>5, <1>11, TakesEach
  <2> QED
    BY <1>10, <2>1
<1>13. FitsSet(D, i, j, gen, R, gets)
  <2>1. n \in 0..n
    BY <1>1
  <2> QED
    BY <1>8, <1>10, <2>1
<1> QED
  BY <1>12, <1>13 DEF x, B, S, R

-----------------------------------------------------------------------------
(* Sets, suites and the file.                                               *)

\* The sets that the parser can read.
SetIsRead(D, s) ==
  /\ IsSet(s)
  /\ ListsAreRead(D, s.pre_steps) /\ ListsAreRead(D, s.post_steps) /\ ListsAreRead(D, s.reboot_steps)
  /\ \A m \in DOMAIN s.cases : CaseIsRead(D, s.cases[m])
  /\ \A m \in DOMAIN s.gets : Len(s.gets[m].text) = 1

\* The content of a set is read.
LEMMA InSetTakes ==
  ASSUME NEW D, D.described \in BOOLEAN, NEW i, NEW j, i \in DOMAIN D.suites,
         j \in DOMAIN D.suites[i].sets, NEW s, s = D.suites[i].sets[j], SetIsRead(D, s),
         NEW gen, gen = SetGen(D, i, j)
  PROVE  Takes(D, Description(D) \o StepListTokens(D, "pre_steps", s.pre_steps)
                    \o StepListTokens(D, "post_steps", s.post_steps)
                    \o StepListTokens(D, "post_reboot_steps", s.reboot_steps)
                    \o CasesTokens(D, s.cases)
                    \o EnvironmentTokens(D, s.envs) \o GetTokens(D, s.gets),
               OnSet(Base(i, j, NewSetOf(gen))), OnSet(Base(i, j, SetRead(D, s, gen))))
<1> DEFINE what == Description(D)
           pre == StepListTokens(D, "pre_steps", s.pre_steps)
           post == StepListTokens(D, "post_steps", s.post_steps)
           reboot == StepListTokens(D, "post_reboot_steps", s.reboot_steps)
           cases == CasesTokens(D, s.cases)
           envs == EnvironmentTokens(D, s.envs)
           files == GetTokens(D, s.gets)
           told == D.described
           none == <<>>
           nil == {}
           all == {"hardware", "scratchbox"}
           l1 == ListsRead(s.pre_steps, gen.manual)
           l2 == ListsRead(s.post_steps, gen.manual)
           l3 == ListsRead(s.reboot_steps, gen.manual)
           cs == CasesRead(D, s.cases, gen)
           left == EnvsLeft(s.envs, Len(s.envs))
           marks == AskedMarks(s.gets)
           P(t, a, b, c, d, g, v) == OnSet(Base(i, j, SetOf(gen, t, a, b, c, d, g, v)))
           c0 == P(NotTold, none, none, none, none, nil, all)
           c1 == P(told, none, none, none, none, nil, all)
           c2 == P(told, l1, none, none, none, nil, all)
           c3 == P(told, l1, l2, none, none, nil, all)
           c4 == P(told, l1, l2, l3, none, nil, all)
           c5 == P(told, l1, l2, l3, cs, nil, all)
           c6 == P(told, l1, l2, l3, cs, nil, left)
           c7 == P(told, l1, l2, l3, cs, marks, left)
<1>1. FitsSet(D, i, j, gen, none, nil)
  BY DEF FitsSet
<1>2. /\ Every(IsCase, s.cases) /\ Every(IsEnvironment, s.envs) /\ Every(IsFile, s.gets)
      /\ \A m \in DOMAIN s.gets : Len(s.gets[m].text) = 1
      /\ ListsAreRead(D, s.pre_steps) /\ ListsAreRead(D, s.post_steps) /\ ListsAreRead(D, s.reboot_steps)
      /\ \A m \in DOMAIN s.cases : CaseIsRead(D, s.cases[m])
  BY DEF SetIsRead, IsSet
<1>3. Takes(D, what, c0, c1)
  BY <1>1, SetIsDescribed
<1>4. Takes(D, pre, c1, c2)
  <2> HIDE DEF told
  <2> QED
    BY <1>1, <1>2, PreStepsTake
<1>5. Takes(D, post, c2, c3)
  <2> HIDE DEF told, l1
  <2> QED
    BY <1>1, <1>2, PostStepsTake
<1>6. Takes(D, reboot, c3, c4)
  <2> HIDE DEF told, l1, l2
  <2> QED
    BY <1>1, <1>2, RebootStepsTake
<1>7. Takes(D, cases, c4, c5) /\ FitsSet(D, i, j, gen, cs, nil)
  <2> DEFINE x == s.cases
  <2>1. x = D.suites[i].sets[j].cases
    OBVIOUS
  <2>2. Every(IsCase, x) /\ \A m \in DOMAIN x : CaseIsRead(D, x[m])
    BY <1>2
  <2> HIDE DEF told, l1, l2, l3, nil, all, x
  <2>3. /\ Takes(D, CasesTokens(D, x), P(told, l1, l2, l3, none, nil, all),
                 P(told, l1, l2, l3, CasesRead(D, x, gen), nil, all))
        /\ FitsSet(D, i, j, gen, CasesRead(D, x, gen), nil)
    BY <1>1, <2>1, <2>2, CasesTake
  <2> QED
    BY <2>3 DEF x
<1>8. FitsSet(D, i, j, gen, cs, marks)
  <2> HIDE DEF cs
  <2>1. marks \subseteq AskedMarks(D.suites[i].sets[j].gets)
    OBVIOUS
  <2> HIDE DEF marks
  <2> QED
    BY <1>7, <2>1 DEF FitsSet
<1>9. Takes(D, envs, c5, c6)
  <2> HIDE DEF told, l1, l2, l3, cs
  <2> QED
    BY <1>2, <1>7, EnvironmentsTake
<1>10. Takes(D, files, c6, c7)
  <2> HIDE DEF told, l1, l2, l3, cs, left
  <2> QED
    BY <1>2, <1>8, SetGetsTake
<1>11. c0 = OnSet(Base(i, j, NewSetOf(gen))) /\ c7 = OnSet(Base(i, j, SetRead(D, s, gen)))
  BY DEF NewSetOf, SetRead, NotTold
<1> HIDE DEF what, pre, post, reboot, cases, envs, files, P, c0, c1, c2, c3, c4, c5, c6, c7
<1>12. Takes(D, what \o pre, c0, c2)
  BY <1>3, <1>4, TakesOn
<1>13. Takes(D, (what \o pre) \o post, c0, c3)
  BY <1>5, <1>12, TakesOn
<1>14. Takes(D, ((what \o pre) \o post) \o reboot, c0, c4)
  BY <1>6, <1>13, TakesOn
<1>15. Takes(D, (((what \o pre) \o post) \o reboot) \o cases, c0, c5)
  BY <1>7, <1>14, TakesOn
<1>16. Takes(D, ((((what \o pre) \o post) \o reboot) \o cases) \o envs, c0, c6)
  BY <1>9, <1>15, TakesOn
<1>17. Takes(D, (((((what \o pre) \o post) \o reboot) \o cases) \o envs) \o files, c0, c7)
  BY <1>10, <1>16, TakesOn
<1> QED
  BY <1>11, <1>17 DEF what, pre, post, reboot, cases, envs, files

\* A set is read.
LEMMA SetTakes ==
  ASSUME NEW D, D.described \in BOOLEAN, NEW i \in DOMAIN D.suites, NEW j \in DOMAIN D.suites[i].sets,
         NEW n, n + 1 = j, NEW s, s = D.suites[i].sets[j], SetIsRead(D, s)
  PROVE  Takes(D, SetTokens(D, s), OnSuite(i, n, D.described), OnSuite(i, j, D.described))
<1> DEFINE told == D.described
           gen == SetGen(D, i, j)
           content == Description(D) \o StepListTokens(D, "pre_steps", s.pre_steps)
                        \o StepListTokens(D, "post_steps", s.post_steps)
                        \o StepListTokens(D, "post_reboot_steps", s.reboot_steps)
                        \o CasesTokens(D, s.cases)
                        \o EnvironmentTokens(D, s.envs) \o GetTokens(D, s.gets)
           c == OnSuite(i, n, told)
           d == OnSuite(i, j, told)
           b1 == Base(i, j, NewSetOf(gen))
           b2 == Base(i, j, SetRead(D, s, gen))
           c1 == OnSet(b1)
           c2 == OnSet(b2)
<1>1. SetTokens(D, s) = ElementTokens(D, "set", s.a, content)
  BY Zenon DEF SetTokens, CasesTokens
<1>2. Takes(D, content, c1, c2)
  <2> HIDE DEF gen
  <2> QED
    BY InSetTakes DEF gen
<1> DEFINE k == StartToken("set", s.a)
           e == EmptyToken("set", s.a)
           l == EndToken("set")
<1>3. /\ IsToken(k) /\ Begins(k, "set") /\ k.a = s.a /\ ~k.empty
      /\ IsToken(e) /\ Begins(e, "set") /\ e.a = s.a /\ e.empty
      /\ IsToken(l) /\ Closes(l, "set")
  <2>1. IsAttributes(s.a) /\ "set" \in Names
    BY DEF SetIsRead, IsSet, Names
  <2> QED
    BY <2>1, ElementTypes
<1>4. /\ c.at = "suite" /\ c.i = i /\ c.j = n /\ c.told = told /\ d.at = "suite"
      /\ c1.at = "set" /\ c1.b = b1 /\ c2.at = "set" /\ c2.b = b2
  BY DEF OnSuite, OnSet
<1>5. b1.i = i /\ b1.j = j /\ b1.set = NewSetOf(gen) /\ b2.i = i /\ b2.j = j /\ b2.set = SetRead(D, s, gen)
  BY BaseIs
<1>6. OfSet(D, b1)
  <2>1. FitsSet(D, i, j, gen, <<>>, {})
    BY DEF FitsSet
  <2> DEFINE none == <<>>
             nil == {}
             all == {"hardware", "scratchbox"}
  <2>2. b1 = Base(i, j, SetOf(gen, NotTold, none, none, none, none, nil, all))
    BY DEF NewSetOf, NotTold
  <2> HIDE DEF none, nil, all, gen, b1
  <2>3. FitsSet(D, i, j, gen, none, nil)
    BY <2>1 DEF none, nil
  <2> QED
    BY <2>2, <2>3, OfSetIs
<1> HIDE DEF content, gen, c, d, c1, c2, b1, b2, k, e, l
<1>7. Fine(D, c1) /\ Fine(D, d)
  BY <1>4, <1>6 DEF Fine, LoopPlaces
<1>8. SuiteReads(D, c, k, c1)
  BY <1>3, <1>4 DEF SuiteReads, gen, c1, b1
<1>9. SetReads(D, c2, l, d)
  <2>1. d = OnSuite(c2.b.i, c2.b.j, D.described)
    BY <1>4, <1>5 DEF d
  <2>2. c2.b.set = SetRead(D, D.suites[c2.b.i].sets[c2.b.j], SetGen(D, c2.b.i, c2.b.j))
    BY <1>4, <1>5 DEF gen
  <2> QED
    BY <1>3, <2>1, <2>2 DEF SetReads
<1>10. c1 = c2 => SuiteReads(D, c, e, d)
  <2>1. c1 = c2 => NewSetOf(gen) = SetRead(D, s, gen)
    BY <1>4, <1>5
  <2> QED
    BY <1>3, <1>4, <2>1 DEF SuiteReads, gen, d
<1>11. ReadsTo(D, c, k, c1) /\ ReadsTo(D, c2, l, d) /\ (c1 = c2 => ReadsTo(D, c, e, d))
  BY <1>3, <1>4, <1>7, <1>8, <1>9, <1>10 DEF ReadsTo, Moves
<1>12. Takes(D, ElementTokens(D, "set", s.a, content), c, d)
  BY <1>2, <1>11, TakesElement DEF k, e, l
<1> QED
  BY <1>1, <1>12 DEF c, d

\* The suites that the parser can read.
SuiteIsRead(D, u) == IsSuite(u) /\ \A m \in DOMAIN u.sets : SetIsRead(D, u.sets[m])

\* A suite is read.
LEMMA SuiteTakes ==
  ASSUME NEW D, D.described \in BOOLEAN, NEW i \in DOMAIN D.suites, NEW n, n + 1 = i,
         NEW u, u = D.suites[i], SuiteIsRead(D, u)
  PROVE  Takes(D, SuiteTokens(D, u), OnDefinition(n, DetectorOf(D), D.described),
               OnDefinition(i, DetectorOf(D), D.described))
<1> DEFINE told == D.described
           what == Description(D)
           sets == Each(LAMBDA s : SetTokens(D, s), u.sets)
           content == what \o sets
           N == Len(u.sets)
           x == [m \in 1..N |-> SetTokens(D, u.sets[m])]
           p == [m \in 0..N |-> OnSuite(i, m, told)]
           c == OnDefinition(n, DetectorOf(D), told)
           d == OnDefinition(i, DetectorOf(D), told)
           c0 == OnSuite(i, 0, NotTold)
           c1 == OnSuite(i, 0, told)
           c2 == OnSuite(i, N, told)
<1>1. SuiteTokens(D, u) = ElementTokens(D, "suite", u.a, content)
  BY Zenon DEF SuiteTokens
<1>2. IsAttributes(u.a) /\ \A m \in DOMAIN u.sets : SetIsRead(D, u.sets[m])
  BY DEF SuiteIsRead, IsSuite
<1>3. N \in Nat /\ DOMAIN u.sets = 1..N /\ (N = 0 <=> u.sets = <<>>)
  <2>1. u.sets \in Seq({u.sets[m] : m \in DOMAIN u.sets})
    BY Zenon DEF SuiteIsRead, IsSuite, Every
  <2> QED
    BY <2>1, ListIs
<1>4. Takes(D, what, c0, c1)
  BY SuiteIsDescribed
<1>5. ASSUME NEW m \in 1..N PROVE Takes(D, x[m], p[m - 1], p[m])
  <2>1. m - 1 \in 0..N /\ m \in 0..N /\ m \in DOMAIN D.suites[i].sets /\ (m - 1) + 1 = m
    BY <1>3
  <2>2. p[m - 1] = OnSuite(i, m - 1, told) /\ p[m] = OnSuite(i, m, told)
        /\ x[m] = SetTokens(D, u.sets[m])
    BY <2>1
  <2>3. SetIsRead(D, u.sets[m]) /\ u.sets[m] = D.suites[i].sets[m]
    BY <1>2, <2>1
  <2>4. Takes(D, SetTokens(D, u.sets[m]), OnSuite(i, m - 1, told), OnSuite(i, m, told))
    <3> DEFINE y == m - 1
               s == u.sets[m]
    <3>1. y + 1 = m /\ m \in DOMAIN D.suites[i].sets /\ s = D.suites[i].sets[m] /\ SetIsRead(D, s)
      BY <2>1, <2>3
    <3> HIDE DEF y, s, p, x, N, content, c, d, c0, c1, c2, what, sets
    <3>2. Takes(D, SetTokens(D, s), OnSuite(i, y, D.described), OnSuite(i, m, D.described))
      BY <3>1, SetTakes
    <3> QED
      BY <3>2 DEF y, s
  <2> HIDE DEF p, x, N
  <2> QED
    BY <2>2, <2>4
<1>6. sets = FlattenSeq([m \in DOMAIN u.sets |-> SetTokens(D, u.sets[m])])
  BY Zenon DEF Each
<1>7. sets = FlattenSeq([m \in 1..N |-> x[m]])
  BY <1>3, <1>6
<1>8. p[0] = c1 /\ p[N] = c2
  BY <1>3
<1> HIDE DEF p, x, N, sets, what
<1>9. Steps(D, x, N, p)
  BY <1>5 DEF Steps
<1>10. Takes(D, sets, c1, c2)
  <2>1. Takes(D, sets, p[0], p[N])
    BY <1>3, <1>7, <1>9, TakesEach
  <2> QED
    BY <1>8, <2>1
<1>11. Takes(D, content, c0, c2)
  <2> HIDE DEF c0, c1, c2
  <2> QED
    BY <1>4, <1>10, TakesOn
<1> DEFINE k == StartToken("suite", u.a)
           e == EmptyToken("suite", u.a)
           l == EndToken("suite")
<1>12. /\ IsToken(k) /\ Begins(k, "suite") /\ k.a = u.a /\ ~k.empty
       /\ IsToken(e) /\ Begins(e, "suite") /\ e.a = u.a /\ e.empty
       /\ IsToken(l) /\ Closes(l, "suite")
  <2>1. "suite" \in Names
    BY DEF Names
  <2> QED
    BY <1>2, <2>1, ElementTypes
<1>13. /\ c.at = "definition" /\ c.i = n /\ c.det = DetectorOf(D) /\ c.told = told /\ d.at = "definition"
       /\ c0.at = "suite" /\ c0.j = 0 /\ c0.told = NotTold
       /\ c2.at = "suite" /\ c2.i = i /\ c2.j = N /\ c2.told = told
  BY DEF OnSuite, OnDefinition
<1>14. c0 = OnSuite(i, 0, FALSE)
  BY DEF NotTold
<1> HIDE DEF content, c, d, c0, c1, c2, k, e, l
<1>15. Fine(D, c0) /\ Fine(D, d)
  BY <1>13 DEF Fine, LoopPlaces
<1>16. DefinitionReads(D, c, k, c0)
  BY <1>12, <1>13, <1>14 DEF DefinitionReads
<1>17. SuiteReads(D, c2, l, d)
  BY <1>12, <1>13 DEF SuiteReads, d, N
<1>18. c0 = c2 => DefinitionReads(D, c, e, d)
  <2>1. c0 = c2 => u.sets = <<>> /\ ~D.described
    BY <1>3, <1>13 DEF NotTold
  <2> QED
    BY <1>12, <1>13, <2>1 DEF DefinitionReads, d
<1>19. ReadsTo(D, c, k, c0) /\ ReadsTo(D, c2, l, d) /\ (c0 = c2 => ReadsTo(D, c, e, d))
  BY <1>12, <1>13, <1>15, <1>16, <1>17, <1>18 DEF ReadsTo, Moves
<1>20. Takes(D, ElementTokens(D, "suite", u.a, content), c, d)
  BY <1>11, <1>19, TakesElement DEF k, e, l
<1> QED
  BY <1>1, <1>20 DEF c, d

DetectorTokens(D) ==
  When(D.hwiddetect, ElementTokens(D, "hwiddetect", NoAttributes, Texts(D.detector)))
DetectorIsRead(D) ==
  /\ D.hwiddetect \in BOOLEAN /\ D.detector \in Seq(STRING) /\ Len(D.detector) <= 1
  /\ ~(D.selfClosing /\ D.hwiddetect /\ D.detector = <<>>)

\* The detector is read at the start of the definition.
LEMMA DetectorTakes ==
  ASSUME NEW D, DetectorIsRead(D)
  PROVE  Takes(D, DetectorTokens(D), OnDefinition(0, NoText, NotTold),
               OnDefinition(0, DetectorOf(D), NotTold))
<1> DEFINE texts == Texts(D.detector)
           element == ElementTokens(D, "hwiddetect", NoAttributes, texts)
           n == Len(D.detector)
           c == OnDefinition(0, NoText, NotTold)
           d == OnDefinition(0, DetectorOf(D), NotTold)
           p == [m \in 0..n |-> IF m = 0 THEN OnDetector(NoText) ELSE OnDetector(D.detector)]
           c0 == OnDetector(NoText)
           c1 == OnDetector(D.detector)
<1> USE DEF DetectorIsRead
<1>1. CASE ~D.hwiddetect
  <2>1. DetectorTokens(D) = <<>>
    BY <1>1, Zenon DEF When, DetectorTokens
  <2>2. c = d
    BY <1>1 DEF DetectorOf
  <2> HIDE DEF c, d, element
  <2>3. Takes(D, <<>>, c, d)
    BY <2>2, TakesNone
  <2> QED
    BY <2>1, <2>3 DEF c, d, element
<1>2. CASE D.hwiddetect
  <2>1. DetectorTokens(D) = element /\ DetectorOf(D) = D.detector
    BY <1>2, Zenon DEF When, DetectorOf, DetectorTokens
  <2>2. D.detector \in Seq(Words) /\ n \in 0..1 /\ (n = 0 <=> D.detector = <<>>)
    <3>1. D.detector \in Seq(Words)
      BY StringsAreWords
    <3>2. n \in Nat /\ n <= 1 /\ (n = 0 <=> D.detector = <<>>)
      OBVIOUS
    <3> HIDE DEF n
    <3>3. n \in 0..1
      BY <3>2
    <3> QED
      BY <3>1, <3>2, <3>3
  <2>3. c0.at = "detector" /\ c1.at = "detector" /\ c1.det = D.detector /\ d.at = "definition"
        /\ c.at = "definition" /\ c.i = 0 /\ c.det = NoText /\ c.told = NotTold
    BY DEF OnDetector, OnDefinition, NotTold
  <2>4. p[0] = c0 /\ p[n] = c1
    BY <2>2 DEF NoText
  <2> DEFINE k == StartToken("hwiddetect", NoAttributes)
             l == EndToken("hwiddetect")
             q == TextToken(D.detector[1])
  <2>5. IsToken(k) /\ IsToken(l) /\ Begins(k, "hwiddetect") /\ Closes(l, "hwiddetect")
    BY NoAttributesAre, ElementTypes DEF Names, Boxes
  <2>6. ASSUME n = 1 PROVE ReadsTo(D, p[0], q, p[1]) /\ p[1] = p[n]
    <3>1. D.detector[1] \in Words /\ D.detector = <<D.detector[1]>>
      BY <2>2, <2>6
    <3>2. IsToken(q) /\ q.t = "text" /\ q.n = D.detector[1]
      BY <3>1, TextIs
    <3> HIDE DEF q, p
    <3>3. p[0] = c0 /\ p[1] = c1
      BY <2>4, <2>6
    <3>4. c1 = OnDetector(<<q.n>>)
      BY <3>1, <3>2
    <3> HIDE DEF c0, c1
    <3>5. DetectorReads(D, c0, q, c1)
      BY <3>2, <3>4 DEF DetectorReads
    <3>6. ReadsTo(D, c0, q, c1)
      BY <2>3, <3>2, <3>5 DEF ReadsTo, Moves, Fine, LoopPlaces
    <3> QED
      BY <2>6, <3>3, <3>6
  <2>7. \A i \in 1..n : ReadsTo(D, p[i - 1], TextToken(D.detector[i]), p[i])
    <3> HIDE DEF p
    <3>1. ASSUME NEW i \in 1..n PROVE i = 1 /\ i - 1 = 0 /\ n = 1
      BY <2>2
    <3> QED
      BY <2>6, <3>1
  <2> HIDE DEF p, c0, c1, c, d, k, l, element
  <2>8. Takes(D, texts, c0, c1)
    <3>1. Takes(D, texts, p[0], p[n])
      BY <2>2, <2>7, TextsTake
    <3> QED
      BY <2>4, <3>1
  <2>9. ReadsTo(D, c, k, c0)
    <3>1. DefinitionReads(D, c, k, c0)
      BY <2>3, <2>5 DEF DefinitionReads, NotTold, c0
    <3> QED
      BY <2>3, <2>5, <3>1 DEF ReadsTo, Moves, Fine, LoopPlaces
  <2>10. ReadsTo(D, c1, l, d)
    <3>1. DetectorReads(D, c1, l, d)
      BY <2>1, <2>3, <2>5 DEF DetectorReads, d, NotTold
    <3> QED
      BY <2>3, <2>5, <3>1 DEF ReadsTo, Moves, Fine, LoopPlaces
  <2>11. D.selfClosing /\ texts = <<>> /\ c0 = c1 => FALSE
    <3>1. c0 = c1 => D.detector = <<>>
      BY <2>3 DEF c0, OnDetector, NoText
    <3> QED
      BY <1>2, <3>1
  <2> HIDE DEF texts
  <2>12. Takes(D, element, c, d)
    BY <2>8, <2>9, <2>10, <2>11, TakesElement DEF k, l, element
  <2> QED
    BY <2>1, <2>12 DEF c, d, element, texts
<1> QED
  BY <1>1, <1>2

\* What of a file can be read.
FileIsRead(D) ==
  /\ IsDocument(D) /\ DetectorIsRead(D)
  /\ \A i \in DOMAIN D.suites : SuiteIsRead(D, D.suites[i])

\* A file is read from its start.
LEMMA DefinitionTakes ==
  ASSUME NEW D, FileIsRead(D)
  PROVE  \E d : d.at \in LoopPlaces /\ Takes(D, FileTokens(D), OnStart, d)
<1> DEFINE told == D.described
           detect == DetectorTokens(D)
           what == Description(D)
           suites == Each(LAMBDA s : SuiteTokens(D, s), D.suites)
           content == detect \o what \o suites
           N == Len(D.suites)
           x == [m \in 1..N |-> SuiteTokens(D, D.suites[m])]
           p == [m \in 0..N |-> OnDefinition(m, DetectorOf(D), told)]
           c == OnStart
           c0 == OnDefinition(0, NoText, FALSE)
           c1 == OnDefinition(0, DetectorOf(D), FALSE)
           c2 == OnDefinition(0, DetectorOf(D), told)
           c3 == OnDefinition(N, DetectorOf(D), told)
           d == OnEnd
<1>1. FileTokens(D) = ElementTokens(D, "testdefinition", NoAttributes, content)
  BY Zenon DEF FileTokens, DetectorTokens
<1>2. /\ Every(IsSuite, D.suites) /\ D.detector \in Seq(STRING) /\ D.hwiddetect \in BOOLEAN
      /\ told \in BOOLEAN /\ \A m \in DOMAIN D.suites : SuiteIsRead(D, D.suites[m])
  BY DEF FileIsRead, IsDocument
<1>3. N \in Nat /\ DOMAIN D.suites = 1..N
  <2>1. D.suites \in Seq({D.suites[m] : m \in DOMAIN D.suites})
    BY <1>2, Zenon DEF Every
  <2> QED
    BY <2>1, ListIs
<1>4. Takes(D, detect, c0, c1)
  <2>1. Takes(D, detect, OnDefinition(0, NoText, NotTold), OnDefinition(0, DetectorOf(D), NotTold))
    BY DetectorTakes DEF FileIsRead
  <2> QED
    BY <2>1 DEF NotTold
<1>5. Takes(D, what, c1, c2)
  <2> DEFINE det == DetectorOf(D)
             no == NotTold
  <2>1. Takes(D, Description(D), OnDefinition(0, det, NotTold), OnDefinition(0, det, D.described))
    <3> HIDE DEF det
    <3> QED
      BY <1>2, FileIsDescribed
  <2> QED
    BY <2>1 DEF NotTold
<1>6. ASSUME NEW m \in 1..N PROVE Takes(D, x[m], p[m - 1], p[m])
  <2>1. m - 1 \in 0..N /\ m \in 0..N /\ m \in DOMAIN D.suites /\ (m - 1) + 1 = m
    BY <1>3
  <2>2. p[m - 1] = OnDefinition(m - 1, DetectorOf(D), told) /\ p[m] = OnDefinition(m, DetectorOf(D), told)
        /\ x[m] = SuiteTokens(D, D.suites[m])
    BY <2>1
  <2>3. Takes(D, SuiteTokens(D, D.suites[m]), OnDefinition(m - 1, DetectorOf(D), told),
              OnDefinition(m, DetectorOf(D), told))
    <3> DEFINE y == m - 1
               u == D.suites[m]
    <3>1. y + 1 = m /\ m \in DOMAIN D.suites /\ u = D.suites[m] /\ SuiteIsRead(D, u)
      BY <1>2, <2>1
    <3> HIDE DEF y, u, p, x, N, content, c, d, c0, c1, c2, c3, what, suites, detect
    <3>2. Takes(D, SuiteTokens(D, u), OnDefinition(y, DetectorOf(D), D.described),
                OnDefinition(m, DetectorOf(D), D.described))
      BY <1>2, <3>1, SuiteTakes
    <3> QED
      BY <3>2 DEF y, u
  <2> HIDE DEF p, x, N
  <2> QED
    BY <2>2, <2>3
<1>7. suites = FlattenSeq([m \in DOMAIN D.suites |-> SuiteTokens(D, D.suites[m])])
  BY Zenon DEF Each
<1>8. suites = FlattenSeq([m \in 1..N |-> x[m]])
  BY <1>3, <1>7
<1>9. p[0] = c2 /\ p[N] = c3
  BY <1>3
<1> HIDE DEF p, x, N, suites, what, detect
<1>10. Takes(D, suites, c2, c3)
  <2>1. Steps(D, x, N, p)
    BY <1>6 DEF Steps
  <2>2. Takes(D, suites, p[0], p[N])
    BY <1>3, <1>8, <2>1, TakesEach
  <2> QED
    BY <1>9, <2>2
<1>11. Takes(D, content, c0, c3)
  <2> HIDE DEF c0, c1, c2, c3
  <2>1. Takes(D, detect \o what, c0, c2)
    BY <1>4, <1>5, TakesOn
  <2>2. Takes(D, (detect \o what) \o suites, c0, c3)
    BY <1>10, <2>1, TakesOn
  <2> QED
    BY <2>2
<1> DEFINE k == StartToken("testdefinition", NoAttributes)
           e == EmptyToken("testdefinition", NoAttributes)
           l == EndToken("testdefinition")
<1>12. /\ IsToken(k) /\ Begins(k, "testdefinition") /\ IsToken(e) /\ Begins(e, "testdefinition")
       /\ IsToken(l) /\ Closes(l, "testdefinition")
  BY NoAttributesAre, ElementTypes DEF Names
<1>13. /\ c.at = "start" /\ c0.at = "definition" /\ d.at = "end"
       /\ c3.at = "definition" /\ c3.i = N /\ c3.det = DetectorOf(D) /\ c3.told = told
  BY DEF OnStart, OnEnd, OnDefinition
<1>14. c0 = OnDefinition(0, NoText, FALSE)
  OBVIOUS
<1> HIDE DEF content, c, d, c0, c1, c2, c3, k, e, l
<1>15. ReadsTo(D, c, k, c0) /\ ReadsTo(D, c, e, c0)
  BY <1>12, <1>13, <1>14 DEF ReadsTo, Moves, Fine, LoopPlaces
<1>16. ReadsTo(D, c3, l, d)
  <2>1. DefinitionReads(D, c3, l, d)
    BY <1>12, <1>13 DEF DefinitionReads, N, d
  <2> QED
    BY <1>12, <1>13, <2>1 DEF ReadsTo, Moves, Fine, LoopPlaces
<1>17. \E f : f.at \in LoopPlaces
              /\ Takes(D, ElementTokens(D, "testdefinition", NoAttributes, content), c, f)
  <2>1. CASE D.selfClosing /\ content = <<>>
    <3>1. ElementTokens(D, "testdefinition", NoAttributes, content) = <<e>>
      BY <2>1 DEF ElementTokens, e
    <3>2. Takes(D, <<e>>, c, c0)
      BY <1>15, TakesOne
    <3>3. c0.at \in LoopPlaces
      BY <1>13 DEF LoopPlaces
    <3> QED
      BY <3>1, <3>2, <3>3
  <2>2. CASE ~(D.selfClosing /\ content = <<>>)
    <3>1. Takes(D, ElementTokens(D, "testdefinition", NoAttributes, content), c, d)
      BY <1>11, <1>15, <1>16, <2>2, TakesElement DEF k, e, l
    <3>2. d.at \in LoopPlaces
      BY <1>13 DEF LoopPlaces
    <3> QED
      BY <3>1, <3>2
  <2> QED
    BY <2>1, <2>2
<1> QED
  BY <1>1, <1>17 DEF c

\* A file that is Readable can be read.
LEMMA ReadableIsRead ==
  ASSUME IsDocument(doc), Readable
  PROVE  FileIsRead(doc)
<1>1. /\ ~DetectorIsMisread /\ Len(doc.detector) <= 1 /\ Every(IsSuite, doc.suites)
      /\ doc.selfClosing \in BOOLEAN
  BY DEF Readable, TextsAreRead, IsDocument
<1>2. DetectorIsRead(doc)
  BY <1>1 DEF DetectorIsRead, DetectorIsMisread, IsDocument
<1>3. ASSUME NEW s \in Sets, IsSet(s) PROVE SetIsRead(doc, s)
  <2>1. /\ \A f \in FilesAsked(s) : Len(f.text) = 1
        /\ \A p \in ParamsAsked(s) : Len(p) <= 1
    BY <1>3 DEF Readable, TextsAreRead
  <2>2. doc.selfClosing => ~SetIsMisread(s)
    BY <1>3 DEF Readable
  <2>3. /\ Every(IsCase, s.cases) /\ Every(IsFile, s.gets) /\ Every(IsStepList, s.pre_steps)
        /\ Every(IsStepList, s.post_steps) /\ Every(IsStepList, s.reboot_steps)
    BY <1>3 DEF IsSet
  <2>4. \A m \in DOMAIN s.gets : Len(s.gets[m].text) = 1
    BY <2>1 DEF FilesAsked, ToSet
  <2>5. ListsAreRead(doc, s.pre_steps) /\ ListsAreRead(doc, s.post_steps)
        /\ ListsAreRead(doc, s.reboot_steps)
    <3> DEFINE z == ListsOf(s)
    <3>1. HasAll(z, s.pre_steps) /\ HasAll(z, s.post_steps) /\ HasAll(z, s.reboot_steps)
      <4>1. \A t \in ListTags : HasAll(z, TaggedLists(s)[t])
        BY <1>3, ListsAre DEF HasAll
      <4>2. /\ TaggedLists(s)["pre_steps"] = s.pre_steps /\ TaggedLists(s)["post_steps"] = s.post_steps
            /\ TaggedLists(s)["post_reboot_steps"] = s.reboot_steps
        BY DEF TaggedLists
      <4>3. {"pre_steps", "post_steps", "post_reboot_steps"} = ListTags
        BY DEF ListTags
      <4> HIDE DEF z
      <4> QED
        BY <4>1, <4>2, <4>3
    <3>2. doc.selfClosing => \A i \in DOMAIN z :
            z[i] # <<>> /\ \A j \in DOMAIN z[i] : ~StepIsMisread(z[i][j])
      BY <2>2 DEF SetIsMisread
    <3> HIDE DEF z
    <3> QED
      BY <2>3, <3>1, <3>2 DEF ListsAreRead, HasAll
  <2>6. ASSUME NEW m \in DOMAIN s.cases PROVE CaseIsRead(doc, s.cases[m])
    <3>1. IsCase(s.cases[m])
      BY <2>3 DEF Every
    <3>2. \A n \in DOMAIN s.cases[m].gets : Len(s.cases[m].gets[n].text) = 1
      BY <2>1 DEF FilesAsked, ToSet
    <3>3. ASSUME NEW n \in DOMAIN s.cases[m].steps PROVE StepIsRead(doc, s.cases[m].steps[n])
      <4>1. IsStep(s.cases[m].steps[n])
        BY <3>1 DEF IsCase, Every
      <4>2. \A i \in DOMAIN s.cases[m].steps[n].params : Len(s.cases[m].steps[n].params[i]) <= 1
        BY <2>1 DEF ParamsAsked, ToSet
      <4>3. doc.selfClosing => ~StepIsMisread(s.cases[m].steps[n])
        BY <2>2 DEF SetIsMisread
      <4> QED
        BY <4>1, <4>2, <4>3 DEF StepIsRead
    <3> QED
      BY <3>1, <3>2, <3>3 DEF CaseIsRead
  <2> QED
    BY <1>3, <2>4, <2>5, <2>6 DEF SetIsRead
<1>4. ASSUME NEW i \in DOMAIN doc.suites PROVE SuiteIsRead(doc, doc.suites[i])
  <2>1. IsSuite(doc.suites[i])
    BY <1>1 DEF Every
  <2>2. ASSUME NEW m \in DOMAIN doc.suites[i].sets PROVE SetIsRead(doc, doc.suites[i].sets[m])
    <3>1. doc.suites[i].sets[m] \in Sets
      BY SetsAre
    <3>2. IsSet(doc.suites[i].sets[m])
      BY <2>1 DEF IsSuite, Every
    <3> QED
      BY <1>3, <3>1, <3>2
  <2> QED
    BY <2>1, <2>2 DEF SuiteIsRead
<1> QED
  BY <1>2, <1>4 DEF FileIsRead

-----------------------------------------------------------------------------
(* What the structures of the parser amount to.                             *)

CaseSeen(c) == CaseOf(c.gen, c.described, c.steps, Marks(c.gets))
CasesSeen(list) == [n \in DOMAIN list |-> CaseSeen(list[n])]
SetSeen(s) ==
  SetOf(s.gen, s.described, s.pre_steps, s.post_steps, s.post_reboot_steps, CasesSeen(s.cases),
        Marks(s.gets), s.environments)

\* A file put into a list adds its mark.
LEMMA MarksInserted ==
  ASSUME NEW S, NEW s \in Seq(S), NEW i \in 1..Len(s) + 1, NEW x \in S
  PROVE  Marks(InsertAt(s, i, x)) = Marks(s) \cup {<<x.name, x.delete_after>>}
<1>1. Len(s) \in Nat /\ i \in Int
  OBVIOUS
<1> DEFINE l == SubSeq(s, 1, i - 1)
           m == <<x>>
           n == SubSeq(s, i, Len(s))
           all == (l \o m) \o n
<1>2. InsertAt(s, i, x) = all
  BY DEF InsertAt
<1>3. /\ l \in Seq(S) /\ Len(l) = i - 1 /\ \A k \in 1..i - 1 : l[k] = s[k]
      /\ n \in Seq(S) /\ Len(n) = Len(s) - i + 1 /\ \A k \in 1..(Len(s) - i + 1) : n[k] = s[k + i - 1]
  <2>1. (\A j \in 1..(i - 1) : s[j] \in S) /\ (\A j \in i..Len(s) : s[j] \in S)
    BY <1>1
  <2>2. l \in Seq(S) /\ Len(l) = i - 1 /\ \A k \in 1..i - 1 : l[k] = s[k]
    <3>1. 1 \in Int /\ i - 1 \in Int
      BY <1>1
    <3> QED
      BY <1>1, <2>1, <3>1, SubSeqProperties
  <2>3. n \in Seq(S) /\ Len(n) = Len(s) - i + 1 /\ \A k \in 1..(Len(s) - i + 1) : n[k] = s[k + i - 1]
    BY <1>1, <2>1, SubSeqProperties
  <2> QED
    BY <2>2, <2>3
<1>4. m \in Seq(S) /\ Len(m) = 1 /\ m[1] = x
  OBVIOUS
<1> HIDE DEF l, m, n
<1>5. /\ DOMAIN all = 1..Len(s) + 1
      /\ \A k \in 1..i - 1 : all[k] = l[k]
      /\ all[i] = m[1]
      /\ \A k \in 1..(Len(s) - i + 1) : all[i + k] = n[k]
  <2> DEFINE y == l \o m
  <2>1. /\ y \in Seq(S) /\ Len(y) = i /\ y[i] = m[1]
        /\ \A k \in 1..i - 1 : y[k] = l[k]
    <3>7. l \in Seq(S) /\ m \in Seq(S)
      BY <1>3, <1>4
    <3>1. y \in Seq(S) /\ Len(y) = Len(l) + Len(m)
      BY <3>7, ConcatProperties
    <3>2. \A k \in 1..Len(l) + Len(m) : y[k] = IF k <= Len(l) THEN l[k] ELSE m[k - Len(l)]
      BY <3>7, ConcatProperties
    <3> HIDE DEF y
    <3>3. i - 1 \in Nat /\ Len(l) = i - 1 /\ Len(m) = 1
      BY <1>1, <1>3, <1>4
    <3>8. Len(l) + Len(m) = i /\ i \in 1..i /\ i - Len(l) = 1 /\ ~(i <= Len(l))
      BY <3>3
    <3>4. y[i] = m[1]
      BY <3>2, <3>8
    <3>5. ASSUME NEW k \in 1..i - 1 PROVE y[k] = l[k]
      <4>1. k \in 1..Len(l) + Len(m) /\ k <= Len(l)
        BY <1>1, <3>3
      <4> QED
        BY <3>2, <4>1
    <3> QED
      BY <3>1, <3>8, <3>4, <3>5
  <2> HIDE DEF y
  <2>2. /\ DOMAIN (y \o n) = 1..Len(s) + 1
        /\ \A k \in 1..i : (y \o n)[k] = y[k]
        /\ \A k \in 1..(Len(s) - i + 1) : (y \o n)[i + k] = n[k]
    BY <1>1, <1>3, <2>1
  <2>3. all = y \o n
    BY DEF y
  <2> HIDE DEF all
  <2>4. i \in 1..i /\ \A k \in 1..i - 1 : k \in 1..i
    BY <1>1
  <2>5. all[i] = y[i] /\ \A k \in 1..i - 1 : all[k] = y[k]
    BY <2>2, <2>3, <2>4
  <2> QED
    BY <2>1, <2>2, <2>3, <2>5
<1> HIDE DEF all
<1>6. /\ \A k \in 1..i - 1 : all[k] = s[k]
      /\ all[i] = x
      /\ \A k \in i..Len(s) : all[k + 1] = s[k]
  <2>1. ASSUME NEW k \in i..Len(s) PROVE all[k + 1] = s[k]
    <3> DEFINE j == k - i + 1
    <3>1. j \in 1..(Len(s) - i + 1) /\ i + j = k + 1 /\ j + i - 1 = k
      BY <1>1
    <3> HIDE DEF j
    <3> QED
      BY <1>3, <1>5, <3>1
  <2> QED
    BY <1>3, <1>4, <1>5, <2>1
<1>7. ToSet(all) = ToSet(s) \cup {x}
  <2>1. ASSUME NEW k \in DOMAIN all PROVE all[k] \in ToSet(s) \cup {x}
    <3>1. k \in 1..i - 1 \/ k = i \/ (k - 1 \in i..Len(s) /\ k = (k - 1) + 1)
      BY <1>1, <1>5
    <3>2. CASE k \in 1..i - 1
      BY <1>1, <1>6, <3>2 DEF ToSet
    <3>3. CASE k - 1 \in i..Len(s) /\ k = (k - 1) + 1
      <4>1. all[k] = s[k - 1] /\ k - 1 \in DOMAIN s
        BY <1>1, <1>6, <3>3
      <4> QED
        BY <4>1 DEF ToSet
    <3> QED
      BY <1>6, <3>1, <3>2, <3>3
  <2>2. ASSUME NEW k \in DOMAIN s PROVE \E j \in DOMAIN all : all[j] = s[k]
    <3>1. k \in 1..i - 1 \/ k \in i..Len(s)
      BY <1>1
    <3>2. k \in DOMAIN all /\ k + 1 \in DOMAIN all
      BY <1>1, <1>5
    <3> QED
      BY <1>6, <3>1, <3>2
  <2>3. i \in DOMAIN all
    BY <1>1, <1>5
  <2> QED
    BY <1>6, <2>1, <2>2, <2>3 DEF ToSet
<1> QED
  BY <1>2, <1>7 DEF Marks

\* A new set, and what the parser changes of one.
LEMMA SetIsSeen ==
  ASSUME NEW b, NEW s \in SetsOf(b)
  PROVE  /\ SetSeen([s EXCEPT !.described = TRUE]) = Described(SetSeen(s))
         /\ \A t \in ListTags : \A l :
              SetSeen([s EXCEPT ![t] = Append(@, l)]) = WithList(SetSeen(s), t, l)
         /\ \A c \in CasesOf(b) :
              SetSeen([s EXCEPT !.cases = Append(@, c)]) = WithCase(SetSeen(s), CaseSeen(c))
         /\ \A v : SetSeen([s EXCEPT !.environments = @ \ {v}]) = Without(SetSeen(s), v)
         /\ \A f \in FilesOf : \A i \in 1..Len(s.gets) + 1 :
              SetSeen([s EXCEPT !.gets = InsertAt(@, i, f)])
                = Marked(SetSeen(s), <<f.name, f.delete_after>>)
<1> DEFINE seen1 == CasesSeen(s.cases)
           marks == Marks(s.gets)
<1>1. /\ Described(SetSeen(s))
           = SetOf(s.gen, TRUE, s.pre_steps, s.post_steps, s.post_reboot_steps, seen1, marks,
                   s.environments)
      /\ \A x : /\ WithList(SetSeen(s), "pre_steps", x)
                     = SetOf(s.gen, s.described, Append(s.pre_steps, x), s.post_steps,
                             s.post_reboot_steps, seen1, marks, s.environments)
                /\ WithList(SetSeen(s), "post_steps", x)
                     = SetOf(s.gen, s.described, s.pre_steps, Append(s.post_steps, x),
                             s.post_reboot_steps, seen1, marks, s.environments)
                /\ WithList(SetSeen(s), "post_reboot_steps", x)
                     = SetOf(s.gen, s.described, s.pre_steps, s.post_steps,
                             Append(s.post_reboot_steps, x), seen1, marks, s.environments)
                /\ WithCase(SetSeen(s), x)
                     = SetOf(s.gen, s.described, s.pre_steps, s.post_steps, s.post_reboot_steps,
                             Append(seen1, x), marks, s.environments)
                /\ Marked(SetSeen(s), x)
                     = SetOf(s.gen, s.described, s.pre_steps, s.post_steps, s.post_reboot_steps,
                             seen1, marks \cup {x}, s.environments)
                /\ Without(SetSeen(s), x)
                     = SetOf(s.gen, s.described, s.pre_steps, s.post_steps, s.post_reboot_steps,
                             seen1, marks, s.environments \ {x})
  <2> DEFINE g == s.gen
             told == s.described
             pre == s.pre_steps
             post == s.post_steps
             reboot == s.post_reboot_steps
             envs == s.environments
  <2>1. SetSeen(s) = SetOf(g, told, pre, post, reboot, seen1, marks, envs)
    BY DEF SetSeen
  <2> HIDE DEF g, told, pre, post, reboot, envs, seen1, marks
  <2>2. Described(SetSeen(s)) = SetOf(g, TRUE, pre, post, reboot, seen1, marks, envs)
    <3> DEFINE yes == TRUE
               x == SetOf(g, told, pre, post, reboot, seen1, marks, envs)
    <3>1. Described(x) = Retold(x, yes)
      BY DEF Described, Retold
    <3> HIDE DEF yes
    <3>2. Retold(x, yes) = SetOf(g, yes, pre, post, reboot, seen1, marks, envs)
      BY RetoldIs
    <3> HIDE DEF x
    <3> QED
      BY <2>1, <3>1, <3>2 DEF yes, x
  <2>3. ASSUME NEW x
        PROVE  /\ WithList(SetSeen(s), "pre_steps", x) = SetOf(g, told, Append(pre, x), post, reboot, seen1, marks, envs)
               /\ WithList(SetSeen(s), "post_steps", x) = SetOf(g, told, pre, Append(post, x), reboot, seen1, marks, envs)
               /\ WithList(SetSeen(s), "post_reboot_steps", x) = SetOf(g, told, pre, post, Append(reboot, x), seen1, marks, envs)
               /\ WithCase(SetSeen(s), x) = SetOf(g, told, pre, post, reboot, Append(seen1, x), marks, envs)
               /\ Marked(SetSeen(s), x) = SetOf(g, told, pre, post, reboot, seen1, marks \cup {x}, envs)
    BY <2>1, SetChanges
  <2>4. ASSUME NEW x PROVE Without(SetSeen(s), x) = SetOf(g, told, pre, post, reboot, seen1, marks, envs \ {x})
    BY <2>1 DEF SetOf, Without
  <2> QED
    BY <2>2, <2>3, <2>4 DEF g, told, pre, post, reboot, envs
<1>2. s = [gen |-> s.gen, described |-> s.described, pre_steps |-> s.pre_steps,
           post_steps |-> s.post_steps, post_reboot_steps |-> s.post_reboot_steps,
           cases |-> s.cases, gets |-> s.gets, environments |-> s.environments]
  BY DEF SetsOf
<1>3. SetSeen([s EXCEPT !.described = TRUE]) = Described(SetSeen(s))
  <2> DEFINE u == [s EXCEPT !.described = TRUE]
  <2>1. u.gen = s.gen /\ u.described = TRUE /\ u.pre_steps = s.pre_steps /\ u.post_steps = s.post_steps
        /\ u.post_reboot_steps = s.post_reboot_steps /\ u.cases = s.cases /\ u.gets = s.gets
        /\ u.environments = s.environments
    BY <1>2
  <2> HIDE DEF u
  <2>2. SetSeen(u) = Described(SetSeen(s))
    BY <1>1, <2>1 DEF SetSeen
  <2> QED
    BY <2>2 DEF u
<1>4. ASSUME NEW t \in ListTags, NEW l
      PROVE  SetSeen([s EXCEPT ![t] = Append(@, l)]) = WithList(SetSeen(s), t, l)
  <2> DEFINE u == [s EXCEPT ![t] = Append(@, l)]
  <2>1. /\ u.gen = s.gen /\ u.described = s.described /\ u.cases = s.cases /\ u.gets = s.gets
        /\ u.environments = s.environments
        /\ u.pre_steps = IF t = "pre_steps" THEN Append(s.pre_steps, l) ELSE s.pre_steps
        /\ u.post_steps = IF t = "post_steps" THEN Append(s.post_steps, l) ELSE s.post_steps
        /\ u.post_reboot_steps = IF t = "post_reboot_steps" THEN Append(s.post_reboot_steps, l)
                                 ELSE s.post_reboot_steps
    BY <1>2 DEF ListTags
  <2>2. t = "pre_steps" \/ t = "post_steps" \/ t = "post_reboot_steps"
    BY DEF ListTags
  <2> HIDE DEF u
  <2>3. SetSeen(u) = WithList(SetSeen(s), t, l)
    BY <1>1, <2>1, <2>2 DEF SetSeen
  <2> QED
    BY <2>3 DEF u
<1>5. ASSUME NEW c \in CasesOf(b)
      PROVE  SetSeen([s EXCEPT !.cases = Append(@, c)]) = WithCase(SetSeen(s), CaseSeen(c))
  <2> DEFINE u == [s EXCEPT !.cases = Append(@, c)]
             C == CasesOf(b)
             z == {CaseSeen(x) : x \in C}
             list == s.cases
             x == CaseSeen(c)
  <2>1. u.gen = s.gen /\ u.described = s.described /\ u.pre_steps = s.pre_steps /\ u.post_steps = s.post_steps
        /\ u.post_reboot_steps = s.post_reboot_steps /\ u.cases = Append(list, c) /\ u.gets = s.gets
        /\ u.environments = s.environments
    BY <1>2
  <2>2. list \in Seq(C)
    BY DEF SetsOf
  <2>3. CasesSeen(Append(list, c)) = Append(CasesSeen(list), x)
    <3> HIDE DEF C, list
    <3>1. c \in C
      BY DEF C
    <3>2. /\ Append(list, c) \in Seq(C) /\ Len(Append(list, c)) = Len(list) + 1
          /\ \A n \in 1..Len(list) : Append(list, c)[n] = list[n]
          /\ Append(list, c)[Len(list) + 1] = c
      BY <2>2, <3>1
    <3> DEFINE y == Append(list, c)
    <3>3. CasesSeen(y) = [n \in 1..Len(list) + 1 |-> CaseSeen(y[n])]
      BY <2>2, <3>2 DEF CasesSeen
    <3>4. CasesSeen(list) = [n \in 1..Len(list) |-> CaseSeen(list[n])]
      BY <2>2 DEF CasesSeen
    <3> DEFINE f == CasesSeen(list)
               q == CasesSeen(y)
    <3>5. f \in Seq(z) /\ Len(f) = Len(list) /\ x \in z
      <4>1. \A n \in 1..Len(list) : CaseSeen(list[n]) \in z
        BY <2>2
      <4>2. x \in z
        BY <3>1
      <4>3. Len(list) \in Nat
        BY <2>2
      <4> HIDE DEF z, x
      <4> QED
        BY <3>4, <4>1, <4>2, <4>3
    <3>6. q \in Seq(z) /\ Len(q) = Len(list) + 1
      <4>1. \A n \in 1..Len(list) + 1 : CaseSeen(y[n]) \in z
        BY <2>2, <3>2
      <4>2. Len(list) + 1 \in Nat
        BY <2>2
      <4> HIDE DEF z, y
      <4> QED
        BY <3>3, <4>1, <4>2
    <3>7. \A n \in 1..Len(list) : q[n] = f[n]
      <4> HIDE DEF y
      <4>1. ASSUME NEW n \in 1..Len(list) PROVE q[n] = f[n]
        <5>1. n \in 1..Len(list) + 1 /\ y[n] = list[n]
          BY <2>2, <3>2 DEF y
        <5> QED
          BY <3>3, <3>4, <5>1
      <4> QED
        BY <4>1
    <3>8. q[Len(list) + 1] = x
      <4>1. Len(list) + 1 \in 1..Len(list) + 1
        BY <2>2
      <4> QED
        BY <3>2, <3>3, <4>1
    <3> HIDE DEF f, q, x, z
    <3>9. /\ Append(f, x) \in Seq(z) /\ Len(Append(f, x)) = Len(q)
          /\ \A n \in 1..Len(q) : Append(f, x)[n] = q[n]
      BY <3>5, <3>6, <3>7, <3>8
    <3>10. Append(f, x) = q
      BY <3>6, <3>9, SeqEqual
    <3> QED
      BY <3>10 DEF f, q, y
  <2> HIDE DEF u, list, x
  <2>4. SetSeen(u) = WithCase(SetSeen(s), x)
    BY <1>1, <2>1, <2>3 DEF SetSeen, list
  <2> QED
    BY <2>4 DEF u, x
<1>6. ASSUME NEW v PROVE SetSeen([s EXCEPT !.environments = @ \ {v}]) = Without(SetSeen(s), v)
  <2> DEFINE u == [s EXCEPT !.environments = @ \ {v}]
  <2>1. u.gen = s.gen /\ u.described = s.described /\ u.pre_steps = s.pre_steps /\ u.post_steps = s.post_steps
        /\ u.post_reboot_steps = s.post_reboot_steps /\ u.cases = s.cases /\ u.gets = s.gets
        /\ u.environments = s.environments \ {v}
    BY <1>2
  <2> HIDE DEF u
  <2>2. SetSeen(u) = Without(SetSeen(s), v)
    BY <1>1, <2>1 DEF SetSeen
  <2> QED
    BY <2>2 DEF u
<1>7. ASSUME NEW f \in FilesOf, NEW i \in 1..Len(s.gets) + 1
      PROVE  SetSeen([s EXCEPT !.gets = InsertAt(@, i, f)]) = Marked(SetSeen(s), <<f.name, f.delete_after>>)
  <2> DEFINE u == [s EXCEPT !.gets = InsertAt(@, i, f)]
             x == <<f.name, f.delete_after>>
  <2>1. u.gen = s.gen /\ u.described = s.described /\ u.pre_steps = s.pre_steps /\ u.post_steps = s.post_steps
        /\ u.post_reboot_steps = s.post_reboot_steps /\ u.cases = s.cases
        /\ u.gets = InsertAt(s.gets, i, f) /\ u.environments = s.environments
    BY <1>2
  <2>2. Marks(InsertAt(s.gets, i, f)) = marks \cup {x}
    <3>1. s.gets \in Seq(FilesOf)
      BY DEF SetsOf
    <3> QED
      BY <3>1, MarksInserted
  <2> HIDE DEF u, x, marks
  <2>3. SetSeen(u) = Marked(SetSeen(s), x)
    BY <1>1, <2>1, <2>2 DEF SetSeen, marks
  <2> QED
    BY <2>3 DEF u, x
<1> QED
  BY <1>3, <1>4, <1>5, <1>6, <1>7

\* A case, and what the parser changes of one.
LEMMA CaseIsSeen ==
  ASSUME NEW b, NEW c \in CasesOf(b)
  PROVE  /\ CaseSeen(c).gen = c.gen
         /\ CaseSeen([c EXCEPT !.described = TRUE]) = Described(CaseSeen(c))
         /\ \A x : CaseSeen([c EXCEPT !.steps = Append(@, x)]) = WithStep(CaseSeen(c), x)
         /\ \A f \in FilesOf : \A i \in 1..Len(c.gets) + 1 :
              CaseSeen([c EXCEPT !.gets = InsertAt(@, i, f)])
                = Marked(CaseSeen(c), <<f.name, f.delete_after>>)
         /\ CaseSeen([c EXCEPT !.gen.manual =
                        IF c.steps = <<>> THEN c.gen.manual
                        ELSE \E i \in DOMAIN c.steps : c.steps[i].manual])
              = Sane(CaseSeen(c))
<1> DEFINE g == c.gen
           told == c.described
           l == c.steps
           marks == Marks(c.gets)
           C == CaseSeen(c)
<1>1. C = CaseOf(g, told, l, marks)
  BY DEF CaseSeen
<1>2. c = [gen |-> c.gen, described |-> c.described, steps |-> c.steps, gets |-> c.gets,
           measurements |-> c.measurements, series |-> c.series, reboot |-> c.reboot,
           shared |-> c.shared, filtered |-> c.filtered]
  BY DEF CasesOf
<1>3. c.gen \in Gens /\ c.gets \in Seq(FilesOf)
  BY DEF CasesOf
<1>4. ASSUME NEW u, NEW x, NEW y, NEW z, NEW o, u.gen = x, u.described = y, u.steps = z, Marks(u.gets) = o
      PROVE  CaseSeen(u) = CaseOf(x, y, z, o)
  BY <1>4 DEF CaseSeen
<1>5. CaseSeen([c EXCEPT !.described = TRUE]) = Described(C)
  <2> DEFINE u == [c EXCEPT !.described = TRUE]
             yes == TRUE
  <2>1. u.gen = c.gen /\ u.described = yes /\ u.steps = c.steps /\ u.gets = c.gets
    BY <1>2
  <2> HIDE DEF u
  <2>2. CaseSeen(u) = CaseOf(g, yes, l, marks)
    BY <2>1 DEF CaseSeen
  <2>3. Described(C) = Retold(C, yes)
    BY DEF Described, Retold
  <2> HIDE DEF yes, C, g, told, l, marks
  <2>4. Retold(CaseOf(g, told, l, marks), yes) = CaseOf(g, yes, l, marks)
    BY RetoldIs
  <2> QED
    BY <1>1, <2>2, <2>3, <2>4 DEF u
<1>6. /\ C.gen = g /\ C.steps = l
      /\ \A x : WithStep(C, x) = CaseOf(g, told, Append(l, x), marks)
      /\ \A x : Marked(C, x) = CaseOf(g, told, l, marks \cup {x})
      /\ \A x : [C EXCEPT !.gen = x] = CaseOf(x, told, l, marks)
  <2> HIDE DEF C, g, told, l, marks
  <2> QED
    BY <1>1, CaseChanges
<1>7. ASSUME NEW x PROVE CaseSeen([c EXCEPT !.steps = Append(@, x)]) = WithStep(C, x)
  <2> DEFINE u == [c EXCEPT !.steps = Append(@, x)]
  <2>1. u.gen = c.gen /\ u.described = c.described /\ u.steps = Append(c.steps, x) /\ u.gets = c.gets
    BY <1>2
  <2> HIDE DEF u
  <2>2. CaseSeen(u) = CaseOf(g, told, Append(l, x), marks)
    BY <2>1 DEF CaseSeen
  <2> HIDE DEF C, g, told, l, marks
  <2> QED
    BY <1>6, <2>2 DEF u
<1>8. ASSUME NEW f \in FilesOf, NEW i \in 1..Len(c.gets) + 1
      PROVE  CaseSeen([c EXCEPT !.gets = InsertAt(@, i, f)]) = Marked(C, <<f.name, f.delete_after>>)
  <2> DEFINE u == [c EXCEPT !.gets = InsertAt(@, i, f)]
             x == <<f.name, f.delete_after>>
  <2>1. u.gen = c.gen /\ u.described = c.described /\ u.steps = c.steps /\ u.gets = InsertAt(c.gets, i, f)
    BY <1>2
  <2>2. Marks(InsertAt(c.gets, i, f)) = marks \cup {x}
    BY <1>3, MarksInserted
  <2> HIDE DEF u, x, marks
  <2>3. CaseSeen(u) = CaseOf(g, told, l, marks \cup {x})
    BY <2>1, <2>2 DEF CaseSeen
  <2> HIDE DEF C, g, told, l
  <2> QED
    BY <1>6, <2>3 DEF u, x
<1>9. CaseSeen([c EXCEPT !.gen.manual =
                  IF c.steps = <<>> THEN c.gen.manual
                  ELSE \E i \in DOMAIN c.steps : c.steps[i].manual])
        = Sane(C)
  <2> DEFINE m == IF c.steps = <<>> THEN c.gen.manual ELSE \E i \in DOMAIN c.steps : c.steps[i].manual
             u == [c EXCEPT !.gen.manual = m]
             h == [g EXCEPT !.manual = m]
  <2>1. u.gen = h /\ u.described = c.described /\ u.steps = c.steps /\ u.gets = c.gets
    <3> HIDE DEF m
    <3> QED
      BY <1>2
  <2>2. Sane(C) = [C EXCEPT !.gen.manual = m]
    <3>1. C.gen.manual = c.gen.manual /\ C.steps = c.steps
      BY <1>6
    <3> HIDE DEF C
    <3> QED
      BY <3>1 DEF Sane
  <2> HIDE DEF u, m
  <2>3. CaseSeen(u) = CaseOf(h, told, l, marks)
    BY <2>1 DEF CaseSeen
  <2>4. [C EXCEPT !.gen.manual = m] = [C EXCEPT !.gen = h]
    BY <1>6
  <2> HIDE DEF C, g, told, l, marks, h
  <2> QED
    BY <1>6, <2>2, <2>3, <2>4 DEF u, m
<1> QED
  BY <1>5, <1>6, <1>7, <1>8, <1>9

\* The structures as they are made.
LEMMA NewIsSeen ==
  /\ \A g : SetSeen(NewSet(g)) = NewSetOf(g)
  /\ \A g : CaseSeen(NewCase(g)) = NewCaseOf(g)
  /\ \A a, m, x : x = NewStep(ValueIn(a, "manual", m)) =>
       [x EXCEPT !.reboot = ValueIn(a, "reboot", FALSE)] = NewStepOf(a, m)
  /\ [NewStep(FALSE) EXCEPT !.event = TRUE] = NewEvent
<1>1. Marks(<<>>) = {} /\ CasesSeen(<<>>) = <<>>
  <2>1. ToSet(<<>>) = {}
    BY DEF ToSet
  <2>2. CasesSeen(<<>>) = <<>>
    BY DEF CasesSeen
  <2> QED
    BY <2>1, <2>2 DEF Marks
<1>2. ASSUME NEW g PROVE SetSeen(NewSet(g)) = NewSetOf(g)
  <2> DEFINE u == NewSet(g)
             none == <<>>
             nil == {}
             no == FALSE
             all == {"hardware", "scratchbox"}
  <2>1. /\ u.gen = g /\ u.described = no /\ u.pre_steps = none /\ u.post_steps = none
        /\ u.post_reboot_steps = none /\ u.cases = none /\ u.gets = none /\ u.environments = all
    BY DEF NewSet
  <2>2. NewSetOf(g) = SetOf(g, no, none, none, none, none, nil, all)
    BY DEF NewSetOf
  <2>3. Marks(none) = nil /\ CasesSeen(none) = none
    BY <1>1
  <2> HIDE DEF u, none, nil, no, all
  <2> QED
    BY <2>1, <2>2, <2>3 DEF SetSeen, u
<1>3. ASSUME NEW g PROVE CaseSeen(NewCase(g)) = NewCaseOf(g)
  <2> DEFINE u == NewCase(g)
             none == <<>>
             nil == {}
             no == FALSE
  <2>1. u.gen = g /\ u.described = no /\ u.steps = none /\ u.gets = none
    BY DEF NewCase
  <2>2. NewCaseOf(g) = CaseOf(g, no, none, nil)
    BY DEF NewCaseOf
  <2>3. Marks(none) = nil
    BY <1>1
  <2> HIDE DEF u, none, nil, no
  <2> QED
    BY <2>1, <2>2, <2>3 DEF CaseSeen, u
<1>4. ASSUME NEW a, NEW m, NEW x, x = NewStep(ValueIn(a, "manual", m))
      PROVE  [x EXCEPT !.reboot = ValueIn(a, "reboot", FALSE)] = NewStepOf(a, m)
  <2> DEFINE y == ValueIn(a, "manual", m)
             z == ValueIn(a, "reboot", FALSE)
  <2>1. NewStepOf(a, m) = CommandOf(<<>>, y, z)
    BY DEF NewStepOf
  <2>2. x = NewStep(y)
    BY <1>4
  <2> HIDE DEF y, z
  <2>3. [x EXCEPT !.reboot = z] = CommandOf(<<>>, y, z)
    <3> DEFINE no == FALSE
               none == <<>>
    <3>1. x = StepOf(none, y, no, no, none) /\ CommandOf(<<>>, y, z) = StepOf(none, y, z, no, none)
      BY <2>2 DEF CommandOf, StepOf, NewStep, NoText
    <3> HIDE DEF no, none
    <3>2. [x EXCEPT !.reboot = z] = StepOf(none, y, z, no, none)
      BY <3>1 DEF StepOf
    <3> QED
      BY <3>1, <3>2
  <2> QED
    BY <2>1, <2>3 DEF z
<1>5. [NewStep(FALSE) EXCEPT !.event = TRUE] = NewEvent
  <2> DEFINE no == FALSE
             yes == TRUE
             none == <<>>
             x == NewStep(FALSE)
  <2>1. x = StepOf(none, no, no, no, none) /\ NewEvent = StepOf(none, no, no, yes, none)
    BY DEF NewEvent, EventOf, StepOf, NewStep, NoText
  <2>2. [x EXCEPT !.event = TRUE] = [x EXCEPT !.event = yes]
    OBVIOUS
  <2> HIDE DEF no, yes, none, x
  <2>3. [x EXCEPT !.event = yes] = StepOf(none, no, no, yes, none)
    BY <2>1 DEF StepOf
  <2> QED
    BY <2>1, <2>2, <2>3 DEF x
<1> QED
  BY <1>2, <1>3, <1>4, <1>5

\* What td_parse_gen_attribs() makes of a node.
LEMMA GenIs ==
  \A g : td_parse_gen_attribs(g) = GenOf(Node.a, g)
<1>1. NoGen.name = NULL
  BY NoGenIs
<1>2. \A k, v : ValueOr(k, v) = ValueIn(Node.a, k, v)
  BY DEF ValueOr, ValueIn
<1> QED
  BY <1>1, <1>2 DEF td_parse_gen_attribs, GenOf

-----------------------------------------------------------------------------
(* The parser at a place.                                                   *)

InFunction(c) ==
  \/ c.at \in {"start", "definition", "suite", "end"} /\ In("td_process")
  \/ c.at = "detector" /\ In("td_parse_hwiddetect")
  \/ c.at = "set" /\ In("td_parse_set")
  \/ c.at = "list" /\ In("td_parse_steps")
  \/ c.at = "liststep" /\ In("td_parse_step") /\ Caller = "td_parse_steps"
  \/ c.at \in {"envs", "env"} /\ In("td_parse_environments")
  \/ c.at = "setgets" /\ In("td_parse_gets") /\ Caller = "td_parse_set"
  \/ c.at = "case" /\ In("td_parse_case")
  \/ c.at = "casestep" /\ In("td_parse_step") /\ Caller = "td_parse_case"
  \/ c.at = "casegets" /\ In("td_parse_gets") /\ Caller = "td_parse_case"
  \/ c.at = "event" /\ In("td_parse_event")
  \/ c.at = "param" /\ In("td_parse_event_param")

\* The definition, the suite and the set,
InDefinition(det, told) ==
  /\ parsing_level = 1 /\ ~suite.live /\ td.hw_detector = det /\ td.described = told
InSuite(i, told) ==
  /\ i \in DOMAIN doc.suites
  /\ parsing_level = 2 /\ suite.live /\ td.hw_detector = DetectorOf(doc)
  /\ td.described = doc.described /\ suite.gen = SuiteGen(doc, i) /\ suite.described = told
Around(c) ==
  /\ c.at = "start" => parsing_level = 0 /\ ~suite.live
  /\ c.at = "definition" => InDefinition(c.det, c.told)
  /\ c.at = "detector" => InDefinition(c.det, FALSE)
  /\ c.at = "suite" => InSuite(c.i, c.told)
  /\ c.at \notin LoopPlaces => InSuite(c.b.i, doc.described) /\ SetSeen(set) = c.b.set
\* and what is read of an element of a set.
LocalsAt(c) ==
  /\ c.at \in {"list", "liststep"} => tag \in ListTags /\ tag = c.tag /\ steps = c.list
  /\ c.at \in {"liststep", "casestep", "event", "param"} => step = c.step
  /\ c.at = "env" => env_name = c.env
  /\ c.at \in {"setgets", "casegets"} => file.delete_after = c.mark
  /\ c.at \in {"case", "casestep", "casegets", "event", "param"} => CaseSeen(case) = c.case
  /\ c.at = "param" => param = c.param

IsAt(c) == InFunction(c) /\ Around(c) /\ LocalsAt(c)

\* The parser is at the place c, and the next node takes it to d.
AtNode(b, c, d) == DataOf(b) /\ fn \in Stacks /\ IsAt(c) /\ ReadsTo(doc, c, Node, d)

\* Which tokens are read in a function.
LEMMA FunctionReads ==
  ASSUME NEW b, NEW c, NEW d, AtNode(b, c, d)
  PROVE  /\ In("td_process") => c.at \in {"start", "definition", "suite"}
         /\ In("td_parse_hwiddetect") => c.at = "detector" /\ DetectorReads(doc, c, Node, d)
         /\ In("td_parse_set") => c.at = "set" /\ SetReads(doc, c, Node, d)
         /\ In("td_parse_steps") => c.at = "list" /\ ListReads(c, Node, d)
         /\ In("td_parse_step") =>
              \/ c.at = "liststep" /\ Caller = "td_parse_steps" /\ ListStepReads(c, Node, d)
              \/ c.at = "casestep" /\ Caller = "td_parse_case" /\ CaseStepReads(c, Node, d)
         /\ In("td_parse_environments") =>
              \/ c.at = "envs" /\ EnvsReads(c, Node, d)
              \/ c.at = "env" /\ EnvReads(c, Node, d)
         /\ In("td_parse_gets") =>
              \/ c.at = "setgets" /\ Caller = "td_parse_set" /\ SetGetsReads(c, Node, d)
              \/ c.at = "casegets" /\ Caller = "td_parse_case" /\ CaseGetsReads(c, Node, d)
         /\ In("td_parse_case") => c.at = "case" /\ CaseReads(c, Node, d)
         /\ In("td_parse_event") => c.at = "event" /\ EventReads(c, Node, d)
         /\ In("td_parse_event_param") => c.at = "param" /\ ParamReads(c, Node, d)
<1>1. InFunction(c) /\ Moves(doc, c, Node, d)
  BY DEF AtNode, IsAt, ReadsTo
<1>2. /\ In("td_process") => c.at \in {"start", "definition", "suite", "end"}
      /\ In("td_parse_hwiddetect") => c.at = "detector"
      /\ In("td_parse_set") => c.at = "set"
      /\ In("td_parse_steps") => c.at = "list"
      /\ In("td_parse_step") =>
           \/ c.at = "liststep" /\ Caller = "td_parse_steps"
           \/ c.at = "casestep" /\ Caller = "td_parse_case"
      /\ In("td_parse_environments") => c.at \in {"envs", "env"}
      /\ In("td_parse_gets") =>
           \/ c.at = "setgets" /\ Caller = "td_parse_set"
           \/ c.at = "casegets" /\ Caller = "td_parse_case"
      /\ In("td_parse_case") => c.at = "case"
      /\ In("td_parse_event") => c.at = "event"
      /\ In("td_parse_event_param") => c.at = "param"
  BY <1>1 DEF InFunction, In
<1>3. /\ c.at # "end"
      /\ c.at = "detector" => DetectorReads(doc, c, Node, d)
      /\ c.at = "set" => SetReads(doc, c, Node, d)
      /\ c.at = "list" => ListReads(c, Node, d)
      /\ c.at = "liststep" => ListStepReads(c, Node, d)
      /\ c.at = "envs" => EnvsReads(c, Node, d)
      /\ c.at = "env" => EnvReads(c, Node, d)
      /\ c.at = "setgets" => SetGetsReads(c, Node, d)
      /\ c.at = "case" => CaseReads(c, Node, d)
      /\ c.at = "casestep" => CaseStepReads(c, Node, d)
      /\ c.at = "casegets" => CaseGetsReads(c, Node, d)
      /\ c.at = "event" => EventReads(c, Node, d)
      /\ c.at = "param" => ParamReads(c, Node, d)
  BY <1>1 DEF Moves
<1> QED
  BY <1>2, <1>3

\* Inside a set, the definition, the suite and the file stay.
LEMMA SuiteStays ==
  ASSUME NEW f, Within(f)
  PROVE  /\ doc' = doc /\ input # <<>>
         /\ \A i, told : InSuite(i, told)' <=> InSuite(i, told)
<1>1. doc' = doc /\ td' = td /\ suite' = suite /\ parsing_level' = parsing_level /\ input # <<>>
  BY DEF Within, Read
<1> QED
  BY <1>1 DEF InSuite

\* What is left to show of a place inside a set.
LEMMA Arrives ==
  ASSUME NEW b, NEW c, NEW d, AtNode(b, c, d), NEW f, Within(f), c.at \notin LoopPlaces,
         d.at \notin LoopPlaces, d.b.i = c.b.i, SetSeen(set') = d.b.set, InFunction(d)',
         LocalsAt(d)'
  PROVE  IsAt(d)'
<1>1. InSuite(c.b.i, doc.described)
  BY DEF AtNode, IsAt, Around
<1>2. InSuite(d.b.i, doc.described)'
  BY <1>1, SuiteStays
<1>3. Around(d)'
  BY <1>2 DEF Around, LoopPlaces
<1> QED
  BY <1>3 DEF IsAt

\* What a base keeps.
LEMMA WithIs == \A b, s : With(b, s).i = b.i /\ With(b, s).j = b.j /\ With(b, s).set = s
BY DEF With, Base

\* A call from one function,
LEMMA CallIs ==
  ASSUME fn \in Stacks, NEW f \in ParserFunctions, Call(f), Last(fn) \in Callers(f)
  PROVE  In(f)' /\ Caller' = Last(fn)
BY Calls DEF In, Caller, CallerOf

\* and the return to it.
LEMMA RetIs ==
  ASSUME fn \in Stacks, Ret, Last(fn) \in ParserFunctions
  PROVE  /\ Last(fn') = Caller /\ Caller \in Callers(Last(fn))
         /\ Last(fn') \in ParserFunctions => Caller' \in Callers(Last(fn'))
BY Returns DEF In, Caller, CallerOf

\* The elements of a set.
LEMMA SetStepsOn ==
  ASSUME NEW b, NEW c, NEW d, AtNode(b, c, d),
         StepsStart \/ CaseStart \/ EnvironmentsStart \/ (GetStart /\ Within("td_parse_set"))
           \/ SetDescription \/ SetOther
  PROVE  IsAt(d)'
<1>1. Within("td_parse_set") /\ In("td_parse_set")
  BY DEF StepsStart, CaseStart, EnvironmentsStart, SetDescription, SetOther, Within
<1>2. c.at = "set" /\ SetReads(doc, c, Node, d)
  BY <1>1, FunctionReads
<1>3. input # <<>> /\ fn \in Stacks /\ Last(fn) = "td_parse_set" /\ set \in SetsOf(b)
  BY <1>1, SuiteStays DEF AtNode, In, DataOf
<1>4. SetSeen(set) = c.b.set
  BY <1>2 DEF AtNode, IsAt, Around, LoopPlaces
<1>5. ASSUME d.at \notin LoopPlaces, d.b.i = c.b.i, SetSeen(set') = d.b.set, InFunction(d)', LocalsAt(d)'
      PROVE  IsAt(d)'
  BY <1>1, <1>2, <1>5, Arrives DEF LoopPlaces
<1>6. ASSUME NEW f \in {"td_parse_steps", "td_parse_environments", "td_parse_gets", "td_parse_case"},
             Call(f)
      PROVE  In(f)' /\ Caller' = "td_parse_set"
  <2>1. f \in ParserFunctions /\ Last(fn) \in Callers(f)
    BY <1>3 DEF ParserFunctions, Callers
  <2> QED
    BY <1>3, <1>6, <2>1, CallIs
<1>7. CASE StepsStart
  <2>1. PICK t \in ListTags : Begins(Node, t) /\ tag' = t
    BY <1>7 DEF StepsStart, ListTags, Starts, Begins
  <2>2. steps' = <<>> /\ set' = set /\ Call("td_parse_steps")
    BY <1>7 DEF StepsStart
  <2>3. d = OnList(c.b, t, <<>>)
    BY <1>2, <2>1 DEF SetReads, Begins, Closes, OtherEnd, ListTags
  <2>4. d.at = "list" /\ d.b = c.b /\ d.tag = t /\ d.list = <<>>
    BY <2>3 DEF OnList
  <2>5. InFunction(d)'
    BY <1>6, <2>2, <2>4 DEF InFunction
  <2>6. LocalsAt(d)'
    BY <2>1, <2>2, <2>4 DEF LocalsAt
  <2> QED
    BY <1>4, <1>5, <2>2, <2>4, <2>5, <2>6 DEF LoopPlaces
<1>8. CASE CaseStart
  <2> DEFINE g == GenOf(Node.a, set.gen)
             x == NewCase(g)
             C == NewCaseOf(g)
  <2>1. Begins(Node, "case") /\ td_parse_gen_attribs(set.gen) = g
    BY <1>8, GenIs DEF CaseStart, Starts, Begins
  <2>2. CaseSeen(x) = C
    BY NewIsSeen
  <2>3. c.b.set.gen = set.gen
    <3>1. SetSeen(set).gen = set.gen
      BY SetChanges DEF SetSeen
    <3> QED
      BY <1>4, <3>1
  <2>4. d = IF Node.empty THEN OnSet(With(c.b, WithCase(c.b.set, C))) ELSE OnCase(c.b, C)
    BY <1>2, <2>1, <2>3 DEF SetReads, Begins, Closes, OtherEnd, ListTags
  <2>5. IF Node.empty THEN set' = [set EXCEPT !.cases = Append(@, x)] /\ UNCHANGED fn
        ELSE case' = x /\ Call("td_parse_case") /\ set' = set
    BY <1>8, <2>1 DEF CaseStart
  <2>6. x \in CasesOf(b)
    <3>1. set.gen \in Gens
      BY <1>3 DEF SetsOf
    <3>2. g \in Gens /\ FALSE \in Values
      <4>1. IsAttributes(Node.a)
        BY DEF AtNode, ReadsTo, IsToken
      <4>2. \A k, v : v \in Values => ValueIn(Node.a, k, v) \in Values
        BY <4>1 DEF ValueIn, IsAttributes, AttributeNames, Values
      <4>3. NULL \in Values
        BY ValuesAre
      <4>4. \A k \in GenAttributes : ValueIn(Node.a, k, IF k = "name" THEN NULL ELSE set.gen[k]) \in Values
        BY <3>1, <4>2, <4>3 DEF Gens
      <4> QED
        BY <4>4, ValuesAre DEF GenOf, Gens
    <3> HIDE DEF g
    <3> QED
      BY <3>2, NewData DEF ParsedCases
  <2> HIDE DEF x, C, g
  <2>7. CASE Node.empty
    <3> DEFINE e == With(c.b, WithCase(c.b.set, C))
    <3>1. d.at = "set" /\ d.b = e
      BY <2>4, <2>7 DEF OnSet
    <3>2. e.i = c.b.i /\ e.set = WithCase(c.b.set, C)
      BY WithIs
    <3> HIDE DEF e
    <3>3. SetSeen(set') = e.set
      <4>1. set' = [set EXCEPT !.cases = Append(@, x)]
        BY <2>5, <2>7
      <4>2. SetSeen([set EXCEPT !.cases = Append(@, x)]) = WithCase(SetSeen(set), CaseSeen(x))
        BY <1>3, <2>6, SetIsSeen
      <4> QED
        BY <1>4, <2>2, <3>2, <4>1, <4>2
    <3>4. InFunction(d)' /\ LocalsAt(d)'
      BY <1>3, <2>5, <2>7, <3>1 DEF InFunction, LocalsAt, In
    <3> QED
      BY <1>5, <3>1, <3>2, <3>3, <3>4 DEF LoopPlaces
  <2>8. CASE ~Node.empty
    <3>1. d.at = "case" /\ d.b = c.b /\ d.case = C
      BY <2>4, <2>8 DEF OnCase
    <3>2. InFunction(d)'
      BY <1>6, <2>5, <2>8, <3>1 DEF InFunction
    <3>3. LocalsAt(d)'
      BY <2>2, <2>5, <2>8, <3>1 DEF LocalsAt
    <3> QED
      BY <1>4, <1>5, <2>5, <2>8, <3>1, <3>2, <3>3 DEF LoopPlaces
  <2> QED
    BY <2>7, <2>8
<1>9. CASE EnvironmentsStart
  <2>1. Begins(Node, "environments") /\ Call("td_parse_environments") /\ set' = set
    BY <1>9 DEF EnvironmentsStart, Starts, Begins, locals
  <2>2. d = OnEnvs(c.b)
    BY <1>2, <2>1 DEF SetReads, Begins, Closes, OtherEnd, ListTags
  <2>3. d.at = "envs" /\ d.b = c.b
    BY <2>2 DEF OnEnvs
  <2>4. InFunction(d)' /\ LocalsAt(d)'
    BY <1>6, <2>1, <2>3 DEF InFunction, LocalsAt
  <2> QED
    BY <1>4, <1>5, <2>1, <2>3, <2>4 DEF LoopPlaces
<1>10. CASE GetStart
  <2>1. Begins(Node, "get") /\ Call("td_parse_gets") /\ set' = set /\ file' = NewFile
    BY <1>10 DEF GetStart, Starts, Begins
  <2>2. d = OnSetGets(c.b, FALSE)
    BY <1>2, <2>1 DEF SetReads, Begins, Closes, OtherEnd, ListTags
  <2>3. d.at = "setgets" /\ d.b = c.b /\ d.mark = FALSE
    BY <2>2 DEF OnSetGets
  <2>4. InFunction(d)'
    BY <1>6, <2>1, <2>3 DEF InFunction
  <2>5. LocalsAt(d)'
    BY <2>1, <2>3 DEF LocalsAt, NewFile
  <2> QED
    BY <1>4, <1>5, <2>1, <2>3, <2>4, <2>5 DEF LoopPlaces
<1>11. CASE SetDescription
  <2> DEFINE e == With(c.b, Described(c.b.set))
  <2>1. Begins(Node, "description") /\ fn' = fn /\ set' = [set EXCEPT !.described = TRUE]
    BY <1>11 DEF SetDescription, Starts, Begins
  <2>2. d = OnSet(e)
    BY <1>2, <2>1 DEF SetReads, Begins, Closes, OtherEnd, ListTags
  <2>3. d.at = "set" /\ d.b = e /\ e.i = c.b.i /\ e.set = Described(c.b.set)
    BY <2>2, WithIs DEF OnSet
  <2> HIDE DEF e
  <2>4. InFunction(d)' /\ LocalsAt(d)'
    BY <1>3, <2>1, <2>3 DEF InFunction, LocalsAt, In
  <2>5. SetSeen(set') = d.b.set
    BY <1>3, <1>4, <2>1, <2>3, SetIsSeen
  <2> QED
    BY <1>5, <2>3, <2>4, <2>5 DEF LoopPlaces
<1>12. CASE SetOther
  <2>1. OtherEnd(Node, {"set"}) /\ fn' = fn /\ set' = set
    BY <1>12 DEF SetOther, IsText, OtherEnd, locals
  <2>2. d = c
    BY <1>2, <2>1 DEF SetReads, Begins, Closes, OtherEnd
  <2>3. InFunction(d)' /\ LocalsAt(d)'
    BY <1>2, <1>3, <2>1, <2>2 DEF InFunction, LocalsAt, In
  <2> QED
    BY <1>2, <1>4, <1>5, <2>1, <2>2, <2>3 DEF LoopPlaces
<1> QED
  BY <1>7, <1>8, <1>9, <1>10, <1>11, <1>12

\* What the sets and cases of the parser have for their attributes.
LEMMA GensSeen == \A s : SetSeen(s).gen = s.gen /\ CaseSeen(s).gen = s.gen
BY SetChanges, CaseChanges DEF SetSeen, CaseSeen

\* A step that starts.
LEMMA StepMade ==
  ASSUME NEW m, m = ManualDefault
  PROVE  [NewStep(ValueOr("manual", ManualDefault)) EXCEPT !.reboot = ValueOr("reboot", FALSE)]
           = NewStepOf(Node.a, m)
<1> DEFINE y == ValueIn(Node.a, "manual", m)
           z == ValueIn(Node.a, "reboot", FALSE)
           x == NewStep(y)
<1>1. ValueOr("manual", ManualDefault) = y /\ ValueOr("reboot", FALSE) = z
  BY DEF ValueOr, ValueIn
<1>2. [x EXCEPT !.reboot = z] = NewStepOf(Node.a, m)
  BY NewIsSeen
<1> HIDE DEF y, z
<1> QED
  BY <1>1, <1>2

\* What AddStep() changes.
LEMMA StepAdded ==
  ASSUME NEW b, DataOf(b), NEW x, NEW f, AddStep(x, f)
  PROVE  \/ f = "td_parse_case" /\ steps' = steps /\ CaseSeen(case') = WithStep(CaseSeen(case), x)
         \/ f = "td_parse_steps" /\ steps' = Append(steps, x) /\ case' = case
<1>1. case \in CasesOf(b)
  BY DEF DataOf, ParsedCases
<1>2. CASE f = "td_parse_case" /\ case' = [case EXCEPT !.steps = Append(@, x)] /\ steps' = steps
  <2>1. CaseSeen([case EXCEPT !.steps = Append(@, x)]) = WithStep(CaseSeen(case), x)
    BY <1>1, CaseIsSeen
  <2> QED
    BY <1>2, <2>1
<1>3. CASE f = "td_parse_steps" /\ steps' = Append(steps, x) /\ case' = case
  BY <1>3
<1> QED
  BY <1>2, <1>3 DEF AddStep

\* A list of steps.
LEMMA ListStepsOn ==
  ASSUME NEW b, NEW c, NEW d, AtNode(b, c, d), In("td_parse_steps"),
         StepStart \/ StepsOther \/ StepsEnd
  PROVE  IsAt(d)'
<1>1. Within("td_parse_steps")
  <2>1. ~Within("td_parse_case")
    BY DEF Within, In
  <2> QED
    BY <2>1 DEF StepStart, StepsOther, StepsEnd
<1>2. c.at = "list" /\ ListReads(c, Node, d)
  BY FunctionReads
<1>3. input # <<>> /\ fn \in Stacks /\ Last(fn) = "td_parse_steps" /\ set \in SetsOf(b) /\ DataOf(b)
  BY <1>1, SuiteStays DEF AtNode, In, DataOf
<1>4. SetSeen(set) = c.b.set /\ tag \in ListTags /\ tag = c.tag /\ steps = c.list
  BY <1>2 DEF AtNode, IsAt, Around, LoopPlaces, LocalsAt
<1>5. ASSUME d.at \notin LoopPlaces, d.b.i = c.b.i, SetSeen(set') = d.b.set, InFunction(d)', LocalsAt(d)'
      PROVE  IsAt(d)'
  BY <1>1, <1>2, <1>5, Arrives DEF LoopPlaces
<1>7. CASE StepStart
  <2> DEFINE m == ManualDefault
             x == NewStepOf(Node.a, m)
  <2>1. m = c.b.set.gen.manual
    <3>1. m = set.gen.manual
      BY DEF ManualDefault, In
    <3> QED
      BY <1>4, <3>1, GensSeen
  <2>2. Begins(Node, "step")
    BY <1>7 DEF StepStart, Starts, Begins
  <2>3. d = IF EmptyStep THEN OnList(c.b, c.tag, Append(c.list, x)) ELSE OnListStep(c.b, c.tag, c.list, x)
    BY <1>2, <2>1, <2>2 DEF ListReads, Begins, Closes, EmptyStep
  <2>4. [NewStep(ValueOr("manual", ManualDefault)) EXCEPT !.reboot = ValueOr("reboot", FALSE)] = x
    BY StepMade
  <2>5. /\ set' = set /\ tag' = tag
        /\ IF EmptyStep THEN AddStep(x, Last(fn)) /\ fn' = fn
           ELSE step' = x /\ Call("td_parse_step") /\ steps' = steps
    BY <1>7, <2>4, Zenon DEF StepStart
  <2> HIDE DEF x, m
  <2>6. CASE EmptyStep
    <3>1. d.at = "list" /\ d.b = c.b /\ d.tag = c.tag /\ d.list = Append(c.list, x)
      BY <2>3, <2>6 DEF OnList
    <3>2. steps' = Append(steps, x)
      BY <1>3, <2>5, <2>6, StepAdded
    <3>3. InFunction(d)' /\ LocalsAt(d)'
      BY <1>3, <1>4, <2>5, <2>6, <3>1, <3>2 DEF InFunction, LocalsAt, In
    <3> QED
      BY <1>4, <1>5, <2>5, <3>1, <3>3 DEF LoopPlaces
  <2>7. CASE ~EmptyStep
    <3>1. d.at = "liststep" /\ d.b = c.b /\ d.tag = c.tag /\ d.list = c.list /\ d.step = x
      BY <2>3, <2>7 DEF OnListStep
    <3>2. In("td_parse_step")' /\ Caller' = "td_parse_steps"
      <4>1. "td_parse_step" \in ParserFunctions /\ Last(fn) \in Callers("td_parse_step")
        BY <1>3 DEF ParserFunctions, Callers
      <4> QED
        BY <1>3, <2>5, <2>7, <4>1, CallIs
    <3>3. InFunction(d)'
      BY <3>1, <3>2 DEF InFunction
    <3>4. LocalsAt(d)'
      BY <1>4, <2>5, <2>7, <3>1 DEF LocalsAt
    <3> QED
      BY <1>4, <1>5, <2>5, <3>1, <3>3, <3>4 DEF LoopPlaces
  <2> QED
    BY <2>6, <2>7
<1>8. CASE StepsOther
  <2>1. ~Begins(Node, "step") /\ ~Closes(Node, tag)
    BY <1>3, <1>8 DEF StepsOther, Starts, Ends, Begins, Closes
  <2> QED
    BY <1>2, <1>4, <2>1 DEF ListReads
<1>9. CASE StepsEnd
  <2> DEFINE e == With(c.b, WithList(c.b.set, c.tag, c.list))
  <2>1. Closes(Node, tag) /\ Ret /\ set' = [set EXCEPT ![tag] = Append(@, steps)]
    BY <1>9 DEF StepsEnd, Ends, Closes
  <2>2. d = OnSet(e)
    BY <1>2, <1>4, <2>1 DEF ListReads, Begins, Closes
  <2>3. d.at = "set" /\ d.b = e /\ e.i = c.b.i /\ e.set = WithList(c.b.set, c.tag, c.list)
    BY <2>2, WithIs DEF OnSet
  <2> HIDE DEF e
  <2>4. InFunction(d)' /\ LocalsAt(d)'
    <3>1. Last(fn') = "td_parse_set"
      <4>1. Last(fn) \in ParserFunctions /\ Callers(Last(fn)) = {"td_parse_set"}
        BY <1>3 DEF ParserFunctions, Callers
      <4> QED
        BY <1>3, <2>1, <4>1, RetIs
    <3> QED
      BY <2>3, <3>1 DEF InFunction, LocalsAt, In
  <2>5. SetSeen(set') = d.b.set
    <3>1. SetSeen([set EXCEPT ![tag] = Append(@, steps)]) = WithList(SetSeen(set), tag, steps)
      BY <1>3, <1>4, SetIsSeen
    <3> QED
      BY <1>4, <2>1, <2>3, <3>1
  <2> QED
    BY <1>5, <2>3, <2>4, <2>5 DEF LoopPlaces
<1> QED
  BY <1>7, <1>8, <1>9

\* A step.
LEMMA StepGoesOn ==
  ASSUME NEW b, NEW c, NEW d, AtNode(b, c, d), StepText \/ StepOther \/ StepEnd
  PROVE  IsAt(d)'
<1>1. Within("td_parse_step") /\ In("td_parse_step") /\ set' = set
  BY DEF StepText, StepOther, StepEnd, Within, locals
<1>2. \/ c.at = "liststep" /\ Caller = "td_parse_steps" /\ ListStepReads(c, Node, d)
      \/ c.at = "casestep" /\ Caller = "td_parse_case" /\ CaseStepReads(c, Node, d)
  BY <1>1, FunctionReads
<1>3. input # <<>> /\ fn \in Stacks /\ Last(fn) = "td_parse_step" /\ DataOf(b)
  BY <1>1, SuiteStays DEF AtNode, In
<1>4. /\ SetSeen(set) = c.b.set /\ step = c.step
      /\ c.at = "liststep" => tag \in ListTags /\ tag = c.tag /\ steps = c.list
      /\ c.at = "casestep" => CaseSeen(case) = c.case
  BY <1>2 DEF AtNode, IsAt, Around, LoopPlaces, LocalsAt
<1>5. ASSUME d.at \notin LoopPlaces, d.b = c.b, InFunction(d)', LocalsAt(d)'
      PROVE  IsAt(d)'
  BY <1>1, <1>2, <1>4, <1>5, Arrives DEF LoopPlaces
<1>6. CASE StepText
  <2> DEFINE x == Said(c.step, Node.n)
  <2>1. Node.t = "text" /\ ~Closes(Node, "step")
    BY <1>6 DEF StepText, IsText, Closes
  <2>2. step' = x /\ fn' = fn /\ case' = case /\ steps' = steps /\ tag' = tag
    BY <1>4, <1>6 DEF StepText, Said
  <2>3. InFunction(c)' <=> InFunction(c)
    BY <2>2 DEF InFunction, In, Caller
  <2>4. InFunction(c)
    BY DEF AtNode, IsAt
  <2> HIDE DEF x
  <2>5. CASE c.at = "liststep"
    <3>1. d = OnListStep(c.b, c.tag, c.list, x)
      BY <1>2, <2>1, <2>5 DEF ListStepReads, x
    <3>2. d.at = "liststep" /\ d.b = c.b /\ d.tag = c.tag /\ d.list = c.list /\ d.step = x
      BY <3>1 DEF OnListStep
    <3>3. InFunction(d)'
      BY <2>3, <2>4, <2>5, <3>2 DEF InFunction
    <3>4. LocalsAt(d)'
      BY <1>4, <2>2, <2>5, <3>2 DEF LocalsAt
    <3> QED
      BY <1>5, <3>2, <3>3, <3>4 DEF LoopPlaces
  <2>6. CASE c.at = "casestep"
    <3>1. d = OnCaseStep(c.b, c.case, x)
      BY <1>2, <2>1, <2>6 DEF CaseStepReads, x
    <3>2. d.at = "casestep" /\ d.b = c.b /\ d.case = c.case /\ d.step = x
      BY <3>1 DEF OnCaseStep
    <3>3. InFunction(d)'
      BY <2>3, <2>4, <2>6, <3>2 DEF InFunction
    <3>4. LocalsAt(d)'
      BY <1>4, <2>2, <2>6, <3>2 DEF LocalsAt
    <3> QED
      BY <1>5, <3>2, <3>3, <3>4 DEF LoopPlaces
  <2> QED
    BY <1>2, <2>5, <2>6
<1>7. CASE StepOther
  <2>1. Node.t # "text" /\ ~Closes(Node, "step")
    BY <1>3, <1>7 DEF StepOther, IsText, Ends, Closes
  <2> QED
    BY <1>2, <2>1 DEF ListStepReads, CaseStepReads
<1>8. CASE StepEnd
  <2>1. Closes(Node, "step") /\ Node.t # "text"
    BY <1>8 DEF StepEnd, Ends, Closes
  <2>2. AddStep(c.step, Caller) /\ Ret /\ tag' = tag
    BY <1>4, <1>8 DEF StepEnd
  <2>3. Last(fn') = Caller
    <3>1. Last(fn) \in ParserFunctions
      BY <1>3 DEF ParserFunctions
    <3> QED
      BY <1>3, <2>2, <3>1, RetIs
  <2>4. \/ Caller = "td_parse_case" /\ CaseSeen(case') = WithStep(CaseSeen(case), c.step)
        \/ Caller = "td_parse_steps" /\ steps' = Append(steps, c.step)
    BY <1>3, <2>2, StepAdded
  <2>5. CASE c.at = "liststep"
    <3>1. d = OnList(c.b, c.tag, Append(c.list, c.step))
      BY <1>2, <2>1, <2>5 DEF ListStepReads
    <3>2. d.at = "list" /\ d.b = c.b /\ d.tag = c.tag /\ d.list = Append(c.list, c.step)
      BY <3>1 DEF OnList
    <3>3. InFunction(d)'
      BY <1>2, <2>3, <2>5, <3>2 DEF InFunction, In
    <3>4. LocalsAt(d)'
      BY <1>2, <1>4, <2>2, <2>4, <2>5, <3>2 DEF LocalsAt
    <3> QED
      BY <1>5, <3>2, <3>3, <3>4 DEF LoopPlaces
  <2>6. CASE c.at = "casestep"
    <3>1. d = OnCase(c.b, WithStep(c.case, c.step))
      BY <1>2, <2>1, <2>6 DEF CaseStepReads
    <3>2. d.at = "case" /\ d.b = c.b /\ d.case = WithStep(c.case, c.step)
      BY <3>1 DEF OnCase
    <3>3. InFunction(d)'
      BY <1>2, <2>3, <2>6, <3>2 DEF InFunction, In
    <3>4. LocalsAt(d)'
      BY <1>2, <1>4, <2>2, <2>4, <2>6, <3>2 DEF LocalsAt
    <3> QED
      BY <1>5, <3>2, <3>3, <3>4 DEF LoopPlaces
  <2> QED
    BY <1>2, <2>5, <2>6
<1> QED
  BY <1>6, <1>7, <1>8

\* An event and its params.
LEMMA EventGoesOn ==
  ASSUME NEW b, NEW c, NEW d, AtNode(b, c, d), ParamStart \/ ParamText \/ ParamEnd \/ EventEnd
  PROVE  IsAt(d)'
<1>1. \/ Within("td_parse_event") /\ In("td_parse_event") /\ (ParamStart \/ EventEnd)
      \/ Within("td_parse_event_param") /\ In("td_parse_event_param") /\ (ParamText \/ ParamEnd)
  BY DEF ParamStart, ParamText, ParamEnd, EventEnd, Within
<1>2. \/ c.at = "event" /\ EventReads(c, Node, d) /\ (ParamStart \/ EventEnd)
      \/ c.at = "param" /\ ParamReads(c, Node, d) /\ (ParamText \/ ParamEnd)
  BY <1>1, FunctionReads
<1>3. /\ input # <<>> /\ fn \in Stacks /\ DataOf(b) /\ set' = set
      /\ c.at = "event" => Last(fn) = "td_parse_event"
      /\ c.at = "param" => Last(fn) = "td_parse_event_param"
  <2>1. set' = set
    BY DEF ParamStart, ParamText, ParamEnd, EventEnd
  <2>2. input # <<>>
    BY <1>1, SuiteStays
  <2>3. InFunction(c)
    BY DEF AtNode, IsAt
  <2> QED
    BY <1>2, <2>1, <2>2, <2>3 DEF AtNode, InFunction, In
<1>4. /\ SetSeen(set) = c.b.set /\ step = c.step /\ CaseSeen(case) = c.case
      /\ c.at = "param" => param = c.param
  BY <1>2 DEF AtNode, IsAt, Around, LoopPlaces, LocalsAt
<1>5. ASSUME d.at \notin LoopPlaces, d.b = c.b, InFunction(d)', LocalsAt(d)'
      PROVE  IsAt(d)'
  BY <1>1, <1>2, <1>3, <1>4, <1>5, Arrives DEF LoopPlaces
<1>6. CASE c.at = "event" /\ ParamStart
  <2> DEFINE x == WithParam(c.step, <<>>)
  <2>1. Begins(Node, "param") /\ ~Closes(Node, "event")
    BY <1>6 DEF ParamStart, Starts, Begins, Closes
  <2>2. d = IF Node.empty THEN OnEvent(c.b, c.case, x) ELSE OnParam(c.b, c.case, c.step, <<>>)
    BY <1>2, <1>6, <2>1 DEF EventReads
  <2>3. /\ case' = case
        /\ IF Node.empty THEN step' = x /\ fn' = fn
           ELSE param' = <<>> /\ Call("td_parse_event_param") /\ step' = step
    BY <1>4, <1>6 DEF ParamStart, AddParam, WithParam, NoText
  <2> HIDE DEF x
  <2>4. CASE Node.empty
    <3>1. d.at = "event" /\ d.b = c.b /\ d.case = c.case /\ d.step = x
      BY <2>2, <2>4 DEF OnEvent
    <3>2. InFunction(d)' /\ LocalsAt(d)'
      BY <1>3, <1>4, <1>6, <2>3, <2>4, <3>1 DEF InFunction, LocalsAt, In
    <3> QED
      BY <1>5, <3>1, <3>2 DEF LoopPlaces
  <2>5. CASE ~Node.empty
    <3>1. d.at = "param" /\ d.b = c.b /\ d.case = c.case /\ d.step = c.step /\ d.param = <<>>
      BY <2>2, <2>5 DEF OnParam
    <3>2. In("td_parse_event_param")'
      <4>1. "td_parse_event_param" \in ParserFunctions /\ Last(fn) \in Callers("td_parse_event_param")
        BY <1>3, <1>6 DEF ParserFunctions, Callers
      <4> QED
        BY <1>3, <2>3, <2>5, <4>1, CallIs
    <3>3. InFunction(d)' /\ LocalsAt(d)'
      BY <1>4, <2>3, <2>5, <3>1, <3>2 DEF InFunction, LocalsAt
    <3> QED
      BY <1>5, <3>1, <3>3 DEF LoopPlaces
  <2> QED
    BY <2>4, <2>5
<1>7. CASE c.at = "event" /\ EventEnd
  <2>1. Closes(Node, "event") /\ ~Begins(Node, "param")
    BY <1>7 DEF EventEnd, Ends, Begins, Closes
  <2>2. d = OnCase(c.b, WithStep(c.case, c.step))
    BY <1>2, <1>7, <2>1 DEF EventReads
  <2>3. d.at = "case" /\ d.b = c.b /\ d.case = WithStep(c.case, c.step)
    BY <2>2 DEF OnCase
  <2>4. AddStep(c.step, "td_parse_case") /\ Ret
    BY <1>4, <1>7 DEF EventEnd
  <2>5. CaseSeen(case') = WithStep(CaseSeen(case), c.step)
    BY <1>3, <2>4, StepAdded
  <2>6. Last(fn') = "td_parse_case"
    <3>1. Last(fn) \in ParserFunctions /\ Callers(Last(fn)) = {"td_parse_case"}
      BY <1>3, <1>7 DEF ParserFunctions, Callers
    <3> QED
      BY <1>3, <2>4, <3>1, RetIs
  <2>7. InFunction(d)' /\ LocalsAt(d)'
    BY <1>4, <2>3, <2>5, <2>6 DEF InFunction, LocalsAt, In
  <2> QED
    BY <1>5, <2>3, <2>7 DEF LoopPlaces
<1>8. CASE c.at = "param" /\ ParamText
  <2>1. Node.t = "text" /\ ~Closes(Node, "param")
    BY <1>8 DEF ParamText, IsText, Closes
  <2>2. d = OnParam(c.b, c.case, c.step, <<Node.n>>)
    BY <1>2, <1>8, <2>1 DEF ParamReads
  <2>3. d.at = "param" /\ d.b = c.b /\ d.case = c.case /\ d.step = c.step /\ d.param = <<Node.n>>
    BY <2>2 DEF OnParam
  <2>4. param' = <<Node.n>> /\ step' = step /\ case' = case /\ fn' = fn
    BY <1>8 DEF ParamText
  <2>5. InFunction(d)' /\ LocalsAt(d)'
    BY <1>3, <1>4, <1>8, <2>3, <2>4 DEF InFunction, LocalsAt, In
  <2> QED
    BY <1>5, <2>3, <2>5 DEF LoopPlaces
<1>9. CASE c.at = "param" /\ ParamEnd
  <2> DEFINE x == WithParam(c.step, c.param)
  <2>1. Node.t # "text" /\ Closes(Node, "param")
    BY <1>9 DEF ParamEnd, Ends, Closes
  <2>2. d = OnEvent(c.b, c.case, x)
    BY <1>2, <1>9, <2>1 DEF ParamReads
  <2>3. step' = x /\ case' = case /\ Ret
    BY <1>4, <1>9 DEF ParamEnd, AddParam, WithParam
  <2> HIDE DEF x
  <2>4. d.at = "event" /\ d.b = c.b /\ d.case = c.case /\ d.step = x
    BY <2>2 DEF OnEvent
  <2>5. Last(fn') = "td_parse_event"
    <3>1. Last(fn) \in ParserFunctions /\ Callers(Last(fn)) = {"td_parse_event"}
      BY <1>3, <1>9 DEF ParserFunctions, Callers
    <3> QED
      BY <1>3, <2>3, <3>1, RetIs
  <2>6. InFunction(d)' /\ LocalsAt(d)'
    BY <1>4, <2>3, <2>4, <2>5 DEF InFunction, LocalsAt, In
  <2> QED
    BY <1>5, <2>4, <2>6 DEF LoopPlaces
<1> QED
  BY <1>2, <1>6, <1>7, <1>8, <1>9

\* A case and what it may have.
LEMMA CaseStepsOn ==
  ASSUME NEW b, NEW c, NEW d, AtNode(b, c, d), In("td_parse_case"),
         StepStart \/ CaseDescription \/ CaseOther \/ CaseEnd \/ EventStart \/ GetStart
  PROVE  IsAt(d)'
<1>1. Within("td_parse_case")
  <2>1. ~Within("td_parse_steps") /\ ~Within("td_parse_set")
    BY DEF Within, In
  <2> QED
    BY <2>1 DEF StepStart, CaseDescription, CaseOther, CaseEnd, EventStart, GetStart
<1>2. c.at = "case" /\ CaseReads(c, Node, d)
  BY FunctionReads
<1>3. /\ input # <<>> /\ fn \in Stacks /\ Last(fn) = "td_parse_case" /\ set \in SetsOf(b) /\ DataOf(b)
      /\ case \in CasesOf(b)
  BY <1>1, SuiteStays DEF AtNode, In, DataOf, ParsedCases
<1>4. SetSeen(set) = c.b.set /\ CaseSeen(case) = c.case
  BY <1>2 DEF AtNode, IsAt, Around, LoopPlaces, LocalsAt
<1>5. ASSUME d.at \notin LoopPlaces, d.b.i = c.b.i, SetSeen(set') = d.b.set, InFunction(d)', LocalsAt(d)'
      PROVE  IsAt(d)'
  BY <1>1, <1>2, <1>5, Arrives DEF LoopPlaces
<1>6. ASSUME NEW f \in {"td_parse_step", "td_parse_event", "td_parse_gets"}, Call(f)
      PROVE  In(f)' /\ Caller' = "td_parse_case"
  <2>1. f \in ParserFunctions /\ Last(fn) \in Callers(f)
    BY <1>3 DEF ParserFunctions, Callers
  <2> QED
    BY <1>3, <1>6, <2>1, CallIs
<1>7. ASSUME NEW x, d = OnCase(c.b, WithStep(c.case, x)), AddStep(x, "td_parse_case"), fn' = fn, set' = set
      PROVE  IsAt(d)'
  <2>1. d.at = "case" /\ d.b = c.b /\ d.case = WithStep(c.case, x)
    BY <1>7 DEF OnCase
  <2>2. CaseSeen(case') = WithStep(CaseSeen(case), x)
    BY <1>3, <1>7, StepAdded
  <2>3. InFunction(d)' /\ LocalsAt(d)'
    BY <1>3, <1>4, <1>7, <2>1, <2>2 DEF InFunction, LocalsAt, In
  <2> QED
    BY <1>4, <1>5, <1>7, <2>1, <2>3 DEF LoopPlaces
<1>8. CASE StepStart
  <2> DEFINE m == ManualDefault
             x == NewStepOf(Node.a, m)
  <2>1. m = c.case.gen.manual
    <3>1. m = case.gen.manual
      BY <1>3 DEF ManualDefault, In
    <3> QED
      BY <1>4, <3>1, GensSeen
  <2>2. Begins(Node, "step")
    BY <1>8 DEF StepStart, Starts, Begins
  <2>3. d = IF EmptyStep THEN OnCase(c.b, WithStep(c.case, x)) ELSE OnCaseStep(c.b, c.case, x)
    BY <1>2, <2>1, <2>2 DEF CaseReads, Begins, Closes, OtherEnd, EmptyStep
  <2>4. [NewStep(ValueOr("manual", ManualDefault)) EXCEPT !.reboot = ValueOr("reboot", FALSE)] = x
    BY StepMade
  <2>5. /\ set' = set
        /\ IF EmptyStep THEN AddStep(x, Last(fn)) /\ fn' = fn
           ELSE step' = x /\ Call("td_parse_step") /\ case' = case
    BY <1>8, <2>4, Zenon DEF StepStart
  <2> HIDE DEF x, m
  <2>6. CASE EmptyStep
    BY <1>3, <1>7, <2>3, <2>5, <2>6
  <2>7. CASE ~EmptyStep
    <3>1. d.at = "casestep" /\ d.b = c.b /\ d.case = c.case /\ d.step = x
      BY <2>3, <2>7 DEF OnCaseStep
    <3>2. InFunction(d)'
      BY <1>6, <2>5, <2>7, <3>1 DEF InFunction
    <3>3. LocalsAt(d)'
      BY <1>4, <2>5, <2>7, <3>1 DEF LocalsAt
    <3> QED
      BY <1>4, <1>5, <2>5, <3>1, <3>2, <3>3 DEF LoopPlaces
  <2> QED
    BY <2>6, <2>7
<1>9. CASE CaseDescription
  <2>1. Begins(Node, "description") /\ fn' = fn /\ set' = set /\ case' = [case EXCEPT !.described = TRUE]
    BY <1>9 DEF CaseDescription, Starts, Begins
  <2>2. d = OnCase(c.b, Described(c.case))
    BY <1>2, <2>1 DEF CaseReads, Begins, Closes, OtherEnd
  <2>3. d.at = "case" /\ d.b = c.b /\ d.case = Described(c.case)
    BY <2>2 DEF OnCase
  <2>4. CaseSeen(case') = Described(c.case)
    BY <1>3, <1>4, <2>1, CaseIsSeen
  <2>5. InFunction(d)' /\ LocalsAt(d)'
    BY <1>3, <2>1, <2>3, <2>4 DEF InFunction, LocalsAt, In
  <2> QED
    BY <1>4, <1>5, <2>1, <2>3, <2>5 DEF LoopPlaces
<1>10. CASE CaseOther
  <2>1. fn' = fn /\ set' = set /\ case' = case
    BY <1>10 DEF CaseOther, locals
  <2>2. d = c
    <3>1. /\ Node.t \in {"text", "end", "start"}
          /\ Node.t = "end" => Node.n # "case"
          /\ Node.t = "start" => Node.n \notin {"description", "step", "event", "get"}
      BY <1>10 DEF CaseOther, IsText
    <3> QED
      BY <1>2, <3>1 DEF CaseReads, Begins, Closes, OtherEnd
  <2>3. InFunction(d)' /\ LocalsAt(d)'
    BY <1>2, <1>3, <1>4, <2>1, <2>2 DEF InFunction, LocalsAt, In
  <2> QED
    BY <1>2, <1>4, <1>5, <2>1, <2>2, <2>3 DEF LoopPlaces
<1>11. CASE CaseEnd
  <2> DEFINE v == [case EXCEPT !.gen.manual = SaneManual]
             e == With(c.b, WithCase(c.b.set, Sane(c.case)))
  <2>1. Closes(Node, "case") /\ Ret /\ set' = [set EXCEPT !.cases = Append(@, v)]
    BY <1>11 DEF CaseEnd, Ends, Closes
  <2>2. d = OnSet(e)
    BY <1>2, <2>1 DEF CaseReads, Begins, Closes, OtherEnd
  <2>3. d.at = "set" /\ d.b = e /\ e.i = c.b.i /\ e.set = WithCase(c.b.set, Sane(c.case))
    BY <2>2, WithIs DEF OnSet
  <2>4. CaseSeen(v) = Sane(c.case)
    <3>1. CaseSeen(v) = Sane(CaseSeen(case))
      BY <1>3, CaseIsSeen DEF SaneManual, ManualSteps
    <3> QED
      BY <1>4, <3>1
  <2>5. v \in CasesOf(b)
    <3>1. case.gen \in Gens
      BY <1>3 DEF CasesOf
    <3>2. SaneManual \in Values
      <4>1. ManualSteps \in Values
        BY DEF ManualSteps, Values
      <4>2. case.gen.manual \in Values
        BY <3>1 DEF Gens, GenAttributes
      <4> QED
        BY <4>1, <4>2 DEF SaneManual
    <3>3. [case.gen EXCEPT !.manual = SaneManual] \in Gens
      BY <3>1, <3>2 DEF Gens
    <3> QED
      BY <1>3, <3>3 DEF CasesOf
  <2> HIDE DEF e, v
  <2>6. SetSeen(set') = d.b.set
    <3>1. SetSeen([set EXCEPT !.cases = Append(@, v)]) = WithCase(SetSeen(set), CaseSeen(v))
      BY <1>3, <2>5, SetIsSeen
    <3> QED
      BY <1>4, <2>1, <2>3, <2>4, <3>1
  <2>7. Last(fn') = "td_parse_set"
    <3>1. Last(fn) \in ParserFunctions /\ Callers(Last(fn)) = {"td_parse_set"}
      BY <1>3 DEF ParserFunctions, Callers
    <3> QED
      BY <1>3, <2>1, <3>1, RetIs
  <2>8. InFunction(d)' /\ LocalsAt(d)'
    BY <2>3, <2>7 DEF InFunction, LocalsAt, In
  <2> QED
    BY <1>5, <2>3, <2>6, <2>8 DEF LoopPlaces
<1>12. CASE EventStart
  <2> DEFINE x == NewEvent
  <2>1. Begins(Node, "event")
    BY <1>12 DEF EventStart, Starts, Begins
  <2>2. d = IF Node.empty THEN OnCase(c.b, WithStep(c.case, x)) ELSE OnEvent(c.b, c.case, x)
    BY <1>2, <2>1 DEF CaseReads, Begins, Closes, OtherEnd
  <2>3. [NewStep(FALSE) EXCEPT !.event = TRUE] = x
    BY NewIsSeen
  <2>4. /\ set' = set
        /\ IF Node.empty THEN AddStep(x, "td_parse_case") /\ fn' = fn
           ELSE step' = x /\ Call("td_parse_event") /\ case' = case
    BY <1>12, <2>3, Zenon DEF EventStart
  <2> HIDE DEF x
  <2>5. CASE Node.empty
    BY <1>7, <2>2, <2>4, <2>5
  <2>6. CASE ~Node.empty
    <3>1. d.at = "event" /\ d.b = c.b /\ d.case = c.case /\ d.step = x
      BY <2>2, <2>6 DEF OnEvent
    <3>2. InFunction(d)'
      BY <1>6, <2>4, <2>6, <3>1 DEF InFunction
    <3>3. LocalsAt(d)'
      BY <1>4, <2>4, <2>6, <3>1 DEF LocalsAt
    <3> QED
      BY <1>4, <1>5, <2>4, <3>1, <3>2, <3>3 DEF LoopPlaces
  <2> QED
    BY <2>5, <2>6
<1>13. CASE GetStart
  <2>1. Begins(Node, "get") /\ Call("td_parse_gets") /\ set' = set /\ case' = case /\ file' = NewFile
    BY <1>13 DEF GetStart, Starts, Begins
  <2>2. d = OnCaseGets(c.b, c.case, FALSE)
    BY <1>2, <2>1 DEF CaseReads, Begins, Closes, OtherEnd
  <2>3. d.at = "casegets" /\ d.b = c.b /\ d.case = c.case /\ d.mark = FALSE
    BY <2>2 DEF OnCaseGets
  <2>4. InFunction(d)'
    BY <1>6, <2>1, <2>3 DEF InFunction
  <2>5. LocalsAt(d)'
    BY <1>4, <2>1, <2>3 DEF LocalsAt, NewFile
  <2> QED
    BY <1>4, <1>5, <2>1, <2>3, <2>4, <2>5 DEF LoopPlaces
<1> QED
  BY <1>8, <1>9, <1>10, <1>11, <1>12, <1>13

\* The environments of a set.
LEMMA EnvironmentsGoOn ==
  ASSUME NEW b, NEW c, NEW d, AtNode(b, c, d), EnvironmentName \/ EnvironmentValue \/ EnvironmentsEnd
  PROVE  IsAt(d)'
<1>1. Within("td_parse_environments") /\ In("td_parse_environments")
  BY DEF EnvironmentName, EnvironmentValue, EnvironmentsEnd, Within
<1>2. \/ c.at = "envs" /\ EnvsReads(c, Node, d)
      \/ c.at = "env" /\ EnvReads(c, Node, d)
  BY <1>1, FunctionReads
<1>3. input # <<>> /\ fn \in Stacks /\ Last(fn) = "td_parse_environments" /\ set \in SetsOf(b)
  BY <1>1, SuiteStays DEF AtNode, In, DataOf
<1>4. SetSeen(set) = c.b.set /\ (c.at = "env" => env_name = c.env)
  BY <1>2 DEF AtNode, IsAt, Around, LoopPlaces, LocalsAt
<1>5. ASSUME d.at \notin LoopPlaces, d.b.i = c.b.i, SetSeen(set') = d.b.set, InFunction(d)', LocalsAt(d)'
      PROVE  IsAt(d)'
  BY <1>1, <1>2, <1>5, Arrives DEF LoopPlaces
<1>6. CASE EnvironmentName
  <2>1. Node.t = "start" /\ env_name' = Node.n /\ fn' = fn /\ set' = set
    BY <1>6 DEF EnvironmentName
  <2>2. d = OnEnv(c.b, Node.n)
    BY <1>2, <2>1 DEF EnvsReads, EnvReads, Closes
  <2>3. d.at = "env" /\ d.b = c.b /\ d.env = Node.n
    BY <2>2 DEF OnEnv
  <2>4. InFunction(d)' /\ LocalsAt(d)'
    BY <1>3, <2>1, <2>3 DEF InFunction, LocalsAt, In
  <2> QED
    BY <1>4, <1>5, <2>1, <2>3, <2>4 DEF LoopPlaces
<1>7. CASE EnvironmentValue
  <2>1. /\ Node.t = "text" /\ fn' = fn /\ env_name' = env_name
        /\ set' = IF Node.n = "false" THEN [set EXCEPT !.environments = @ \ {env_name}] ELSE set
    BY <1>7 DEF EnvironmentValue, IsText
  <2> DEFINE e == With(c.b, Without(c.b.set, c.env))
  <2>2. c.at = "env" /\ d = IF Node.n = "false" THEN OnEnv(e, c.env) ELSE c
    BY <1>2, <2>1 DEF EnvsReads, EnvReads, Closes
  <2>3. e.i = c.b.i /\ e.set = Without(c.b.set, c.env)
    BY WithIs
  <2> HIDE DEF e
  <2>4. CASE Node.n = "false"
    <3>1. d.at = "env" /\ d.b = e /\ d.env = c.env
      BY <2>2, <2>4 DEF OnEnv
    <3>2. SetSeen(set') = d.b.set
      <4>1. SetSeen([set EXCEPT !.environments = @ \ {env_name}]) = Without(SetSeen(set), env_name)
        BY <1>3, SetIsSeen
      <4> QED
        BY <1>4, <2>1, <2>2, <2>3, <2>4, <3>1, <4>1
    <3>3. InFunction(d)' /\ LocalsAt(d)'
      BY <1>3, <1>4, <2>1, <2>2, <3>1 DEF InFunction, LocalsAt, In
    <3> QED
      BY <1>5, <2>3, <3>1, <3>2, <3>3 DEF LoopPlaces
  <2>5. CASE Node.n # "false"
    <3>1. d = c /\ set' = set
      BY <2>1, <2>2, <2>5
    <3>2. InFunction(d)' /\ LocalsAt(d)'
      BY <1>3, <1>4, <2>1, <2>2, <3>1 DEF InFunction, LocalsAt, In
    <3> QED
      BY <1>4, <1>5, <2>2, <3>1, <3>2 DEF LoopPlaces
  <2> QED
    BY <2>4, <2>5
<1>8. CASE EnvironmentsEnd
  <2>1. Node.t = "end" /\ set' = set /\ IF Node.n = "environments" THEN Ret ELSE fn' = fn
    BY <1>8 DEF EnvironmentsEnd, locals
  <2>2. CASE c.at = "envs"
    <3>1. Node.n = "environments" /\ d = OnSet(c.b)
      BY <1>2, <2>1, <2>2 DEF EnvsReads, Closes
    <3>2. d.at = "set" /\ d.b = c.b
      BY <3>1 DEF OnSet
    <3>3. Last(fn') = "td_parse_set"
      <4>1. Last(fn) \in ParserFunctions /\ Callers(Last(fn)) = {"td_parse_set"}
        BY <1>3 DEF ParserFunctions, Callers
      <4> QED
        BY <1>3, <2>1, <3>1, <4>1, RetIs
    <3>4. InFunction(d)' /\ LocalsAt(d)'
      BY <3>2, <3>3 DEF InFunction, LocalsAt, In
    <3> QED
      BY <1>4, <1>5, <2>1, <3>2, <3>4 DEF LoopPlaces
  <2>3. CASE c.at = "env"
    <3>1. Node.n # "environments" /\ d = OnEnvs(c.b)
      BY <1>2, <2>1, <2>3 DEF EnvReads, Closes
    <3>2. d.at = "envs" /\ d.b = c.b
      BY <3>1 DEF OnEnvs
    <3>3. InFunction(d)' /\ LocalsAt(d)'
      BY <1>3, <2>1, <3>1, <3>2 DEF InFunction, LocalsAt, In
    <3> QED
      BY <1>4, <1>5, <2>1, <3>2, <3>3 DEF LoopPlaces
  <2> QED
    BY <1>2, <2>2, <2>3
<1> QED
  BY <1>6, <1>7, <1>8

\* The files of a get element, of a set and of a case.
LEMMA FilesGoOn ==
  ASSUME NEW b, NEW c, NEW d, AtNode(b, c, d), FileStart \/ FileText \/ GetEnd
  PROVE  IsAt(d)'
<1>1. Within("td_parse_gets") /\ In("td_parse_gets")
  BY DEF FileStart, FileText, GetEnd, Within
<1>2. \/ c.at = "setgets" /\ Caller = "td_parse_set" /\ SetGetsReads(c, Node, d)
      \/ c.at = "casegets" /\ Caller = "td_parse_case" /\ CaseGetsReads(c, Node, d)
  BY <1>1, FunctionReads
<1>3. /\ input # <<>> /\ fn \in Stacks /\ Last(fn) = "td_parse_gets" /\ set \in SetsOf(b)
      /\ case \in CasesOf(b) /\ file \in FilesOf
  BY <1>1, SuiteStays DEF AtNode, In, DataOf, ParsedCases
<1>4. /\ SetSeen(set) = c.b.set /\ file.delete_after = c.mark
      /\ c.at = "casegets" => CaseSeen(case) = c.case
  BY <1>2 DEF AtNode, IsAt, Around, LoopPlaces, LocalsAt
<1>5. ASSUME d.at \notin LoopPlaces, d.b.i = c.b.i, SetSeen(set') = d.b.set, InFunction(d)', LocalsAt(d)'
      PROVE  IsAt(d)'
  BY <1>1, <1>2, <1>5, Arrives DEF LoopPlaces
<1>6. CASE FileStart
  <2> DEFINE m == ValueIn(Node.a, "delete_after", c.mark)
             y == ValueOr("measurement", file.measurement)
  <2>1. ValueOr("delete_after", file.delete_after) = m
    BY <1>4 DEF ValueOr, ValueIn
  <2>2. /\ Node.t = "start" /\ fn' = fn /\ set' = set /\ case' = case
        /\ file' = [file EXCEPT !.delete_after = m, !.measurement = y]
    BY <1>6, <2>1 DEF FileStart
  <2> HIDE DEF m, y
  <2>3. file'.delete_after = m
    BY <1>3, <2>2 DEF FilesOf
  <2>4. CASE c.at = "setgets"
    <3>1. d = OnSetGets(c.b, m)
      BY <1>2, <2>2, <2>4 DEF SetGetsReads, m
    <3>2. d.at = "setgets" /\ d.b = c.b /\ d.mark = m
      BY <3>1 DEF OnSetGets
    <3>3. InFunction(d)' /\ LocalsAt(d)'
      BY <1>2, <1>3, <2>2, <2>3, <2>4, <3>2 DEF InFunction, LocalsAt, In, Caller
    <3> QED
      BY <1>4, <1>5, <2>2, <3>2, <3>3 DEF LoopPlaces
  <2>5. CASE c.at = "casegets"
    <3>1. d = OnCaseGets(c.b, c.case, m)
      BY <1>2, <2>2, <2>5 DEF CaseGetsReads, m
    <3>2. d.at = "casegets" /\ d.b = c.b /\ d.case = c.case /\ d.mark = m
      BY <3>1 DEF OnCaseGets
    <3>3. InFunction(d)' /\ LocalsAt(d)'
      BY <1>2, <1>3, <1>4, <2>2, <2>3, <2>5, <3>2 DEF InFunction, LocalsAt, In, Caller
    <3> QED
      BY <1>4, <1>5, <2>2, <3>2, <3>3 DEF LoopPlaces
  <2> QED
    BY <1>2, <2>4, <2>5
<1>7. CASE FileText
  <2> DEFINE f == [file EXCEPT !.name = Node.n]
             m == <<Node.n, c.mark>>
             no == FALSE
  <2>1. Node.t = "text" /\ fn' = fn /\ file' = [file EXCEPT !.delete_after = no]
    BY <1>7 DEF FileText, IsText, NextFlags
  <2>2. f \in FilesOf /\ <<f.name, f.delete_after>> = m
    <3>1. Node.n \in Words
      BY <2>1 DEF AtNode, ReadsTo, IsToken
    <3> QED
      BY <1>3, <1>4, <3>1 DEF FilesOf
  <2>3. IF Caller = "td_parse_case"
        THEN /\ \E i \in 1..Len(case.gets) + 1 : case' = [case EXCEPT !.gets = InsertAt(@, i, f)]
             /\ set' = set
        ELSE /\ \E i \in 1..Len(set.gets) + 1 : set' = [set EXCEPT !.gets = InsertAt(@, i, f)]
             /\ case' = case
    BY <1>7 DEF FileText
  <2> HIDE DEF f, no
  <2>4. file'.delete_after = no
    BY <1>3, <2>1 DEF FilesOf
  <2>5. CASE c.at = "setgets"
    <3> DEFINE e == With(c.b, Marked(c.b.set, m))
    <3>1. d = OnSetGets(e, no)
      BY <1>2, <2>1, <2>5 DEF SetGetsReads, no
    <3>2. d.at = "setgets" /\ d.b = e /\ d.mark = no /\ e.i = c.b.i /\ e.set = Marked(c.b.set, m)
      BY <3>1, WithIs DEF OnSetGets
    <3> HIDE DEF e
    <3>3. PICK i \in 1..Len(set.gets) + 1 : set' = [set EXCEPT !.gets = InsertAt(@, i, f)]
      BY <1>2, <2>3, <2>5
    <3>4. SetSeen(set') = d.b.set
      <4>1. SetSeen([set EXCEPT !.gets = InsertAt(@, i, f)])
              = Marked(SetSeen(set), <<f.name, f.delete_after>>)
        BY <1>3, <2>2, SetIsSeen
      <4> HIDE DEF m
      <4> QED
        BY <1>4, <2>2, <3>2, <3>3, <4>1
    <3>5. InFunction(d)' /\ LocalsAt(d)'
      BY <1>2, <1>3, <2>1, <2>4, <2>5, <3>2 DEF InFunction, LocalsAt, In, Caller
    <3> QED
      BY <1>5, <3>2, <3>4, <3>5 DEF LoopPlaces
  <2>6. CASE c.at = "casegets"
    <3> DEFINE e == Marked(c.case, m)
    <3>1. d = OnCaseGets(c.b, e, no)
      BY <1>2, <2>1, <2>6 DEF CaseGetsReads, no
    <3>2. d.at = "casegets" /\ d.b = c.b /\ d.case = e /\ d.mark = no
      BY <3>1 DEF OnCaseGets
    <3>3. PICK i \in 1..Len(case.gets) + 1 :
            case' = [case EXCEPT !.gets = InsertAt(@, i, f)] /\ set' = set
      BY <1>2, <2>3, <2>6
    <3>4. CaseSeen(case') = e
      <4>1. CaseSeen([case EXCEPT !.gets = InsertAt(@, i, f)])
              = Marked(CaseSeen(case), <<f.name, f.delete_after>>)
        BY <1>3, <2>2, CaseIsSeen
      <4> HIDE DEF m
      <4> QED
        BY <1>4, <2>2, <2>6, <3>3, <4>1
    <3> HIDE DEF e
    <3>5. InFunction(d)' /\ LocalsAt(d)'
      BY <1>2, <1>3, <2>1, <2>4, <2>6, <3>2, <3>4 DEF InFunction, LocalsAt, In, Caller
    <3> QED
      BY <1>4, <1>5, <3>2, <3>3, <3>5 DEF LoopPlaces
  <2> QED
    BY <1>2, <2>5, <2>6
<1>8. CASE GetEnd
  <2>1. Node.t = "end" /\ set' = set /\ case' = case /\ file' = file
        /\ IF Node.n = "get" THEN Ret ELSE fn' = fn
    BY <1>8 DEF GetEnd, locals
  <2>2. CASE Node.n # "get"
    <3>1. d = c /\ fn' = fn
      BY <1>2, <2>1, <2>2 DEF SetGetsReads, CaseGetsReads
    <3>2. InFunction(d)' /\ LocalsAt(d)'
      BY <1>2, <1>3, <1>4, <2>1, <3>1 DEF InFunction, LocalsAt, In, Caller
    <3> QED
      BY <1>2, <1>4, <1>5, <2>1, <3>1, <3>2 DEF LoopPlaces
  <2>3. CASE Node.n = "get"
    <3>1. Last(fn') = Caller
      <4>1. Last(fn) \in ParserFunctions
        BY <1>3 DEF ParserFunctions
      <4> QED
        BY <1>3, <2>1, <2>3, <4>1, RetIs
    <3>2. CASE c.at = "setgets"
      <4>1. d = OnSet(c.b)
        BY <1>2, <2>1, <2>3, <3>2 DEF SetGetsReads
      <4>2. d.at = "set" /\ d.b = c.b
        BY <4>1 DEF OnSet
      <4>3. InFunction(d)' /\ LocalsAt(d)'
        BY <1>2, <3>1, <3>2, <4>2 DEF InFunction, LocalsAt, In
      <4> QED
        BY <1>4, <1>5, <2>1, <4>2, <4>3 DEF LoopPlaces
    <3>3. CASE c.at = "casegets"
      <4>1. d = OnCase(c.b, c.case)
        BY <1>2, <2>1, <2>3, <3>3 DEF CaseGetsReads
      <4>2. d.at = "case" /\ d.b = c.b /\ d.case = c.case
        BY <4>1 DEF OnCase
      <4>3. InFunction(d)' /\ LocalsAt(d)'
        BY <1>2, <1>4, <2>1, <3>1, <3>3, <4>2 DEF InFunction, LocalsAt, In
      <4> QED
        BY <1>4, <1>5, <2>1, <4>2, <4>3 DEF LoopPlaces
    <3> QED
      BY <1>2, <3>2, <3>3
  <2> QED
    BY <2>2, <2>3
<1> QED
  BY <1>6, <1>7, <1>8

\* The reader in the loop, at the place c, with a node that takes it to d.
InLoopAt(b, c, d) == AtNode(b, c, d) /\ InLoop /\ input # <<>>

\* The kinds of nodes that the loop takes.
LEMMA LoopReads ==
  ASSUME NEW b, NEW c, NEW d, InLoopAt(b, c, d)
  PROVE  /\ In("td_process") /\ td \in Definitions /\ suite \in Suites
         /\ \/ /\ c.at = "start" /\ Begins(Node, "testdefinition")
               /\ d = OnDefinition(0, NoText, FALSE) /\ parsing_level = 0 /\ ~suite.live
            \/ c.at = "definition" /\ DefinitionReads(doc, c, Node, d) /\ InDefinition(c.det, c.told)
            \/ c.at = "suite" /\ SuiteReads(doc, c, Node, d) /\ InSuite(c.i, c.told)
<1>1. In("td_process")
  BY DEF InLoopAt, InLoop, In, Last
<1>2. c.at \in {"start", "definition", "suite"}
  BY <1>1, FunctionReads DEF InLoopAt
<1>3. Moves(doc, c, Node, d) /\ Around(c)
  BY DEF InLoopAt, AtNode, IsAt, ReadsTo
<1>4. td \in Definitions /\ suite \in Suites
  BY DEF InLoopAt, AtNode, DataOf
<1>5. CASE c.at = "start"
  BY <1>1, <1>3, <1>4, <1>5 DEF Moves, Around
<1>6. CASE c.at = "definition"
  BY <1>1, <1>3, <1>4, <1>6 DEF Moves, Around
<1>7. CASE c.at = "suite"
  BY <1>1, <1>3, <1>4, <1>7 DEF Moves, Around
<1> QED
  BY <1>2, <1>5, <1>6, <1>7

\* A call from the loop, and the return to it.
LEMMA LoopCalls ==
  ASSUME fn \in Stacks, NEW f \in {"td_parse_hwiddetect", "td_parse_set"}
  PROVE  /\ In("td_process") /\ Call(f) => In(f)'
         /\ In(f) /\ Ret => In("td_process")'
<1>1. f \in ParserFunctions /\ Callers(f) = {"td_process"}
  BY DEF ParserFunctions, Callers
<1>2. ASSUME In("td_process"), Call(f) PROVE In(f)'
  <2>1. Last(fn) \in Callers(f)
    BY <1>1, <1>2 DEF In
  <2> QED
    BY <1>1, <1>2, <2>1, CallIs
<1>3. ASSUME In(f), Ret PROVE In("td_process")'
  <2>1. Last(fn) = f
    BY <1>3 DEF In
  <2>2. Last(fn') = Caller /\ Caller \in Callers(f)
    BY <1>1, <1>3, <2>1, RetIs
  <2> QED
    BY <1>1, <2>2 DEF In
<1> QED
  BY <1>2, <1>3

\* The start and the end of the definition, its detector and description, and a
\* suite that starts.
LEMMA DefinitionGoesOn ==
  ASSUME NEW b, NEW c, NEW d, InLoopAt(b, c, d), doc' = doc,
         TestDefinitionStart \/ TestDefinitionEnd \/ Hwiddetect \/ SuiteStart
  PROVE  IsAt(d)'
<1>1. /\ In("td_process") /\ td \in Definitions /\ suite \in Suites /\ fn \in Stacks
      /\ \/ /\ c.at = "start" /\ Begins(Node, "testdefinition")
            /\ d = OnDefinition(0, NoText, FALSE) /\ parsing_level = 0 /\ ~suite.live
         \/ c.at = "definition" /\ DefinitionReads(doc, c, Node, d) /\ InDefinition(c.det, c.told)
         \/ c.at = "suite" /\ SuiteReads(doc, c, Node, d) /\ InSuite(c.i, c.told)
  BY LoopReads DEF InLoopAt, AtNode
<1>2. ASSUME fn' = fn PROVE In("td_process")'
  BY <1>1, <1>2 DEF In
<1>3. CASE TestDefinitionStart
  <2>1. Begins(Node, "testdefinition") /\ fn' = fn /\ parsing_level' = parsing_level + 1
        /\ td' = NoTd /\ suite' = suite
    BY <1>3 DEF TestDefinitionStart, Starts, Begins
  <2>2. d = OnDefinition(0, NoText, FALSE) /\ parsing_level = 0 /\ ~suite.live
    BY <1>1, <2>1 DEF DefinitionReads, SuiteReads, Begins, Closes, OtherEnd
  <2>3. d.at = "definition" /\ d.det = NoText /\ d.told = FALSE
    BY <2>2 DEF OnDefinition
  <2>4. InFunction(d)'
    BY <1>2, <2>1, <2>3 DEF InFunction
  <2>5. Around(d)'
    <3>1. td'.hw_detector = d.det /\ (td'.described = d.told)
      BY <2>1, <2>3 DEF NoTd
    <3>2. parsing_level' = 1 /\ ~suite'.live
      BY <2>1, <2>2
    <3>3. InDefinition(d.det, d.told)'
      BY <3>1, <3>2 DEF InDefinition
    <3> QED
      BY <2>3, <3>3 DEF Around, LoopPlaces
  <2>6. LocalsAt(d)'
    BY <2>3 DEF LocalsAt
  <2> QED
    BY <2>4, <2>5, <2>6 DEF IsAt
<1>4. CASE TestDefinitionEnd
  <2>1. Closes(Node, "testdefinition") /\ fn' = fn
    BY <1>4 DEF TestDefinitionEnd, Ends, Closes
  <2>2. d = OnEnd
    BY <1>1, <2>1 DEF DefinitionReads, SuiteReads, Begins, Closes, OtherEnd
  <2>3. d.at = "end"
    BY <2>2 DEF OnEnd
  <2>4. InFunction(d)'
    BY <1>2, <2>1, <2>3 DEF InFunction
  <2>5. Around(d)' /\ LocalsAt(d)'
    BY <2>3 DEF Around, LocalsAt, LoopPlaces
  <2> QED
    BY <2>4, <2>5 DEF IsAt
<1>5. CASE Hwiddetect
  <2>1. Begins(Node, "hwiddetect") /\ Call("td_parse_hwiddetect")
        /\ parsing_level' = parsing_level /\ td' = td /\ suite' = suite
    BY <1>5 DEF Hwiddetect, Starts, Begins
  <2>2. c.at = "definition" /\ c.det = NoText /\ ~c.told /\ d = OnDetector(NoText) /\ InDefinition(c.det, c.told)
    BY <1>1, <2>1 DEF DefinitionReads, SuiteReads, Begins, Closes, OtherEnd
  <2>3. d.at = "detector" /\ d.det = NoText
    BY <2>2 DEF OnDetector
  <2>4. In("td_parse_hwiddetect")'
    BY <1>1, <2>1, LoopCalls
  <2>5. InFunction(d)'
    BY <2>3, <2>4 DEF InFunction
  <2>6. InDefinition(d.det, FALSE)'
    <3>1. td.described = FALSE
      BY <1>1, <2>2 DEF InDefinition, Definitions
    <3> QED
      BY <2>1, <2>2, <2>3, <3>1 DEF InDefinition
  <2>7. Around(d)' /\ LocalsAt(d)'
    BY <2>3, <2>6 DEF Around, LocalsAt, LoopPlaces
  <2> QED
    BY <2>5, <2>7 DEF IsAt
<1>6. CASE SuiteStart
  <2> DEFINE i == c.i + 1
             g == GenOf(Node.a, NoGen)
  <2>1. /\ Begins(Node, "suite") /\ fn' = fn /\ td' = td
        /\ IF Node.empty THEN suite' = Nowhere /\ parsing_level' = parsing_level
           ELSE suite' = [gen |-> g, described |-> FALSE, live |-> TRUE]
                /\ parsing_level' = parsing_level + 1
    BY <1>6, GenIs DEF SuiteStart, Starts, Begins, LevelInSuite, SuiteIsEmpty
  <2>2. /\ InDefinition(c.det, c.told) /\ Node.a = doc.suites[i].a /\ i \in DOMAIN doc.suites
        /\ c.det = DetectorOf(doc) /\ c.told = doc.described
        /\ IF Node.empty THEN d = OnDefinition(i, c.det, c.told) ELSE d = OnSuite(i, 0, FALSE)
    BY <1>1, <2>1 DEF DefinitionReads, SuiteReads, Begins, Closes, OtherEnd
  <2>3. g = SuiteGen(doc, i)
    BY <2>2 DEF SuiteGen
  <2> HIDE DEF i, g
  <2>4. CASE Node.empty
    <3>1. d.at = "definition" /\ d.det = c.det /\ d.told = c.told
      BY <2>2, <2>4 DEF OnDefinition
    <3>2. InFunction(d)'
      BY <1>2, <2>1, <3>1 DEF InFunction
    <3>3. Around(d)'
      BY <2>1, <2>2, <2>4, <3>1 DEF Around, InDefinition, Nowhere, LoopPlaces
    <3>4. LocalsAt(d)'
      BY <3>1 DEF LocalsAt
    <3> QED
      BY <3>2, <3>3, <3>4 DEF IsAt
  <2>5. CASE ~Node.empty
    <3>1. d.at = "suite" /\ d.i = i /\ d.told = FALSE
      BY <2>2, <2>5 DEF OnSuite
    <3>2. InFunction(d)'
      BY <1>2, <2>1, <3>1 DEF InFunction
    <3>3. Around(d)'
      <4>1. parsing_level' = 2 /\ suite'.live /\ suite'.gen = g /\ suite'.described = FALSE
        BY <2>1, <2>2, <2>5 DEF InDefinition
      <4>2. td.hw_detector = DetectorOf(doc) /\ td.described = doc.described
        BY <2>2 DEF InDefinition
      <4>3. InSuite(d.i, d.told)'
        BY <2>1, <2>2, <2>3, <3>1, <4>1, <4>2 DEF InSuite
      <4> QED
        BY <3>1, <4>3 DEF Around, LoopPlaces
    <3>4. LocalsAt(d)'
      BY <3>1 DEF LocalsAt
    <3> QED
      BY <3>2, <3>3, <3>4 DEF IsAt
  <2> QED
    BY <2>4, <2>5
<1> QED
  BY <1>3, <1>4, <1>5, <1>6

\* A suite, its sets and what the loop passes over.
LEMMA SuiteGoesOn ==
  ASSUME NEW b, NEW c, NEW d, InLoopAt(b, c, d), doc' = doc,
         DescriptionNode \/ SuiteEnd \/ SetStart \/ OtherNode
  PROVE  IsAt(d)'
<1>1. /\ In("td_process") /\ td \in Definitions /\ suite \in Suites /\ fn \in Stacks
      /\ \/ /\ c.at = "start" /\ Begins(Node, "testdefinition")
            /\ d = OnDefinition(0, NoText, FALSE) /\ parsing_level = 0 /\ ~suite.live
         \/ c.at = "definition" /\ DefinitionReads(doc, c, Node, d) /\ InDefinition(c.det, c.told)
         \/ c.at = "suite" /\ SuiteReads(doc, c, Node, d) /\ InSuite(c.i, c.told)
  BY LoopReads DEF InLoopAt, AtNode
<1>2. ASSUME fn' = fn PROVE In("td_process")'
  BY <1>1, <1>2 DEF In
<1>3. CASE DescriptionNode
  <2>1. /\ Begins(Node, "description") /\ fn' = fn /\ parsing_level' = parsing_level
        /\ \/ parsing_level = 1 /\ td' = [td EXCEPT !.described = TRUE] /\ suite' = suite
           \/ parsing_level = 2 /\ suite' = [suite EXCEPT !.described = TRUE] /\ td' = td
    BY <1>3 DEF DescriptionNode, Starts, Begins
  <2>2. \/ c.at = "definition" /\ InDefinition(c.det, c.told) /\ d = OnDefinition(c.i, c.det, TRUE)
        \/ c.at = "suite" /\ InSuite(c.i, c.told) /\ d = OnSuite(c.i, c.j, TRUE)
    BY <1>1, <2>1 DEF DefinitionReads, SuiteReads, Begins, Closes, OtherEnd
  <2>3. CASE c.at = "definition"
    <3>1. d.at = "definition" /\ d.det = c.det /\ d.told = TRUE
      BY <2>2, <2>3 DEF OnDefinition
    <3>2. InFunction(d)'
      BY <1>2, <2>1, <3>1 DEF InFunction
    <3>3. InDefinition(d.det, d.told)'
      <4>1. parsing_level = 1 /\ ~suite.live /\ td.hw_detector = c.det
        BY <2>2, <2>3 DEF InDefinition
      <4>2. td' = [td EXCEPT !.described = TRUE] /\ suite' = suite /\ parsing_level' = 1
        BY <2>1, <4>1
      <4>3. td'.hw_detector = c.det /\ (td'.described = TRUE)
        BY <1>1, <4>1, <4>2 DEF Definitions
      <4> QED
        BY <3>1, <4>1, <4>2, <4>3 DEF InDefinition
    <3>4. Around(d)' /\ LocalsAt(d)'
      BY <3>1, <3>3 DEF Around, LocalsAt, LoopPlaces
    <3> QED
      BY <3>2, <3>4 DEF IsAt
  <2>4. CASE c.at = "suite"
    <3>1. d.at = "suite" /\ d.i = c.i /\ d.told = TRUE
      BY <2>2, <2>4 DEF OnSuite
    <3>2. InFunction(d)'
      BY <1>2, <2>1, <3>1 DEF InFunction
    <3>3. InSuite(d.i, d.told)'
      <4>1. parsing_level = 2 /\ suite.live /\ suite.gen = SuiteGen(doc, c.i)
        BY <2>2, <2>4 DEF InSuite
      <4>2. suite' = [suite EXCEPT !.described = TRUE] /\ td' = td /\ parsing_level' = 2
        BY <2>1, <4>1
      <4>3. suite'.live /\ suite'.gen = SuiteGen(doc, c.i) /\ (suite'.described = TRUE)
        BY <1>1, <4>1, <4>2 DEF Suites
      <4> QED
        BY <2>2, <2>4, <3>1, <4>2, <4>3 DEF InSuite
    <3>4. Around(d)' /\ LocalsAt(d)'
      BY <3>1, <3>3 DEF Around, LocalsAt, LoopPlaces
    <3> QED
      BY <3>2, <3>4 DEF IsAt
  <2> QED
    BY <2>2, <2>3, <2>4
<1>4. CASE SuiteEnd
  <2>1. /\ Closes(Node, "suite") /\ fn' = fn /\ parsing_level' = parsing_level - 1 /\ td' = td
        /\ suite' = Nowhere
    BY <1>4 DEF SuiteEnd, Ends, Closes
  <2>2. c.at = "suite" /\ InSuite(c.i, c.told) /\ d = OnDefinition(c.i, DetectorOf(doc), doc.described)
    BY <1>1, <2>1 DEF DefinitionReads, SuiteReads, Begins, Closes, OtherEnd
  <2>3. d.at = "definition" /\ d.det = DetectorOf(doc) /\ d.told = doc.described
    BY <2>2 DEF OnDefinition
  <2>4. InFunction(d)'
    BY <1>2, <2>1, <2>3 DEF InFunction
  <2>5. InDefinition(d.det, d.told)'
    BY <2>1, <2>2, <2>3 DEF InDefinition, InSuite, Nowhere
  <2>6. Around(d)' /\ LocalsAt(d)'
    BY <2>3, <2>5 DEF Around, LocalsAt, LoopPlaces
  <2> QED
    BY <2>4, <2>6 DEF IsAt
<1>5. CASE SetStart
  <2> DEFINE j == c.j + 1
             g == GenOf(Node.a, suite.gen)
  <2>1. /\ Begins(Node, "set") /\ parsing_level' = parsing_level /\ td' = td /\ suite' = suite
        /\ set' = NewSet(g)
        /\ IF Node.empty THEN fn' = fn ELSE Call("td_parse_set")
    BY <1>5, GenIs, Zenon DEF SetStart, Starts, Begins
  <2>2. /\ c.at = "suite" /\ InSuite(c.i, c.told) /\ c.told = doc.described
        /\ Node.a = doc.suites[c.i].sets[j].a
        /\ IF Node.empty THEN d = OnSuite(c.i, j, c.told)
           ELSE d = OnSet(Base(c.i, j, NewSetOf(SetGen(doc, c.i, j))))
    BY <1>1, <2>1 DEF DefinitionReads, SuiteReads, Begins, Closes, OtherEnd
  <2>3. g = SetGen(doc, c.i, j)
    BY <2>2 DEF SetGen, InSuite
  <2>4. InSuite(c.i, c.told)'
    BY <2>1, <2>2 DEF InSuite
  <2> HIDE DEF j, g
  <2>5. CASE Node.empty
    <3>1. d.at = "suite" /\ d.i = c.i /\ d.told = c.told
      BY <2>2, <2>5 DEF OnSuite
    <3>2. InFunction(d)'
      BY <1>2, <2>1, <2>5, <3>1 DEF InFunction
    <3>3. Around(d)' /\ LocalsAt(d)'
      BY <2>4, <3>1 DEF Around, LocalsAt, LoopPlaces
    <3> QED
      BY <3>2, <3>3 DEF IsAt
  <2>6. CASE ~Node.empty
    <3> DEFINE x == NewSetOf(g)
               e == Base(c.i, j, x)
    <3>1. d.at = "set" /\ d.b = e /\ e.i = c.i /\ e.set = x
      BY <2>2, <2>3, <2>6 DEF OnSet, Base
    <3>2. SetSeen(set') = x
      BY <2>1, NewIsSeen
    <3> HIDE DEF x, e
    <3>3. In("td_parse_set")'
      BY <1>1, <2>1, <2>6, LoopCalls
    <3>4. InFunction(d)' /\ LocalsAt(d)'
      BY <3>1, <3>3 DEF InFunction, LocalsAt
    <3>5. InSuite(d.b.i, doc.described)'
      BY <2>2, <2>4, <3>1
    <3>6. Around(d)'
      BY <3>1, <3>2, <3>5 DEF Around, LoopPlaces
    <3> QED
      BY <3>4, <3>6 DEF IsAt
  <2> QED
    BY <2>5, <2>6
<1>6. CASE OtherNode
  <2>1. fn' = fn /\ parsing_level' = parsing_level /\ td' = td /\ suite' = suite
    BY <1>6 DEF OtherNode
  <2>2. /\ Node.t \in {"text", "end", "start"}
        /\ Node.t = "end" => Node.n \notin {"testdefinition", "suite"}
        /\ Node.t = "start" => Node.n \notin {"testdefinition", "hwiddetect", "description", "suite", "set"}
    BY <1>6 DEF OtherNode, IsText
  <2>3. \/ c.at = "definition" /\ InDefinition(c.det, c.told) /\ d = c
        \/ c.at = "suite" /\ InSuite(c.i, c.told) /\ d = c
    BY <1>1, <2>2 DEF DefinitionReads, SuiteReads, Begins, Closes, OtherEnd
  <2>4. InFunction(d)'
    BY <1>2, <2>1, <2>3 DEF InFunction
  <2>5. /\ d.at \in {"definition", "suite"}
        /\ d.at = "definition" => InDefinition(d.det, d.told)'
        /\ d.at = "suite" => InSuite(d.i, d.told)'
    BY <2>1, <2>3 DEF InDefinition, InSuite
  <2>6. Around(d)' /\ LocalsAt(d)'
    BY <2>5 DEF Around, LocalsAt, LoopPlaces
  <2> QED
    BY <2>4, <2>6 DEF IsAt
<1> QED
  BY <1>3, <1>4, <1>5, <1>6

\* The detector.
LEMMA DetectorGoesOn ==
  ASSUME NEW b, NEW c, NEW d, AtNode(b, c, d), DetectorText \/ HwidDetected
  PROVE  IsAt(d)'
<1>1. In("td_parse_hwiddetect") /\ input # <<>> /\ fn \in Stacks /\ td \in Definitions
  BY DEF DetectorText, HwidDetected, AtNode, DataOf
<1>2. c.at = "detector" /\ DetectorReads(doc, c, Node, d)
  BY <1>1, FunctionReads
<1>3. InDefinition(c.det, FALSE)
  BY <1>2 DEF AtNode, IsAt, Around
<1>4. CASE DetectorText
  <2>1. Node.t # "end" /\ fn' = fn /\ parsing_level' = parsing_level /\ suite' = suite
        /\ td' = IF Node.t = "text" THEN [td EXCEPT !.hw_detector = <<Node.n>>] ELSE td
    BY <1>1, <1>4 DEF DetectorText, IsText
  <2>2. Node.t = "text" /\ d = OnDetector(<<Node.n>>)
    BY <1>2, <2>1 DEF DetectorReads, Closes
  <2>3. d.at = "detector" /\ d.det = <<Node.n>>
    BY <2>2 DEF OnDetector
  <2>4. td'.hw_detector = d.det /\ td'.described = td.described
    BY <1>1, <2>1, <2>2, <2>3 DEF Definitions
  <2>5. InDefinition(d.det, FALSE)'
    BY <1>3, <2>1, <2>4 DEF InDefinition
  <2>6. InFunction(d)'
    BY <1>1, <2>1, <2>3 DEF InFunction, In
  <2>7. Around(d)' /\ LocalsAt(d)'
    BY <2>3, <2>5 DEF Around, LocalsAt, LoopPlaces
  <2> QED
    BY <2>6, <2>7 DEF IsAt
<1>5. CASE HwidDetected
  <2>1. Node.t = "end" /\ Ret /\ parsing_level' = parsing_level /\ suite' = suite
    BY <1>5 DEF HwidDetected
  <2>2. PICK hw : td' = [td EXCEPT !.detected_hw = hw]
    BY <1>5 DEF HwidDetected
  <2>3. d = OnDefinition(0, c.det, FALSE)
    BY <1>2, <2>1 DEF DetectorReads, Closes
  <2>4. d.at = "definition" /\ d.det = c.det /\ d.told = FALSE
    BY <2>3 DEF OnDefinition
  <2>5. td'.hw_detector = td.hw_detector /\ td'.described = td.described
    BY <1>1, <2>2 DEF Definitions
  <2>6. InDefinition(d.det, d.told)'
    BY <1>3, <2>1, <2>4, <2>5 DEF InDefinition
  <2>7. In("td_process")'
    BY <1>1, <2>1, LoopCalls
  <2>8. InFunction(d)'
    BY <2>4, <2>7 DEF InFunction
  <2>9. Around(d)' /\ LocalsAt(d)'
    BY <2>4, <2>6 DEF Around, LocalsAt, LoopPlaces
  <2> QED
    BY <2>8, <2>9 DEF IsAt
<1> QED
  BY <1>4, <1>5

\* The end of a set that is released without a crash.
LEMMA SetEndsOn ==
  ASSUME NEW b, NEW c, NEW d, AtNode(b, c, d), SetEnd, Ret, doc' = doc
  PROVE  IsAt(d)'
<1>1. In("td_parse_set") /\ input # <<>> /\ fn \in Stacks
  BY DEF SetEnd, AtNode, Ends
<1>2. c.at = "set" /\ SetReads(doc, c, Node, d)
  BY <1>1, FunctionReads
<1>3. InSuite(c.b.i, doc.described)
  BY <1>2 DEF AtNode, IsAt, Around, LoopPlaces
<1>4. Closes(Node, "set") /\ Ret /\ parsing_level' = parsing_level /\ td' = td /\ suite' = suite
  BY DEF SetEnd, Ends, Closes
<1>5. d = OnSuite(c.b.i, c.b.j, doc.described)
  BY <1>2, <1>4 DEF SetReads, Begins, Closes, OtherEnd
<1>6. d.at = "suite" /\ d.i = c.b.i /\ d.told = doc.described
  BY <1>5 DEF OnSuite
<1>7. InSuite(d.i, d.told)'
  BY <1>3, <1>4, <1>6 DEF InSuite
<1>8. In("td_process")'
  BY <1>1, <1>4, LoopCalls
<1>9. InFunction(d)'
  BY <1>6, <1>8 DEF InFunction
<1>10. Around(d)' /\ LocalsAt(d)'
  BY <1>6, <1>7 DEF Around, LocalsAt, LoopPlaces
<1> QED
  BY <1>9, <1>10 DEF IsAt

-----------------------------------------------------------------------------
(* The set that the parser has.                                             *)

SetIsOfFile ==
  set = NewSet(NoGen) \/ \E i, j : OfSet(doc, Base(i, j, SetSeen(set)))

\* A set whose cases have its post reboot steps has the files it had.
LEMMA SharedFits ==
  ASSUME NEW b, NEW s \in SetsOf(b), NEW n, NEW i, NEW j, OfSet(doc, Base(i, j, SetSeen(s)))
  PROVE  OfSet(doc, Base(i, j, SetSeen(Shared(s, n))))
<1> DEFINE t == Shared(s, n)
<1>1. /\ t.gen = s.gen /\ t.gets = s.gets /\ DOMAIN t.cases = DOMAIN s.cases
      /\ \A m \in DOMAIN s.cases : t.cases[m].gets = s.cases[m].gets
  <2> DEFINE y == [m \in DOMAIN s.cases |->
                     IF m > n THEN s.cases[m]
                     ELSE [s.cases[m] EXCEPT !.reboot = s.post_reboot_steps, !.shared = TRUE]]
  <2>1. t = [s EXCEPT !.cases = y]
    BY DEF Shared
  <2>2. \A m \in DOMAIN s.cases : s.cases[m] \in CasesOf(b)
    BY DEF SetsOf
  <2>3. DOMAIN y = DOMAIN s.cases /\ \A m \in DOMAIN s.cases : y[m].gets = s.cases[m].gets
    BY <2>2 DEF CasesOf
  <2> HIDE DEF y, t
  <2>4. t.gen = s.gen /\ t.gets = s.gets /\ t.cases = y
    BY <2>1 DEF SetsOf
  <2> QED
    BY <2>3, <2>4
<1> HIDE DEF t
<1>2. /\ SetSeen(t).gen = t.gen /\ SetSeen(t).gets = Marks(t.gets)
      /\ SetSeen(t).cases = CasesSeen(t.cases)
      /\ SetSeen(s).gen = s.gen /\ SetSeen(s).gets = Marks(s.gets)
      /\ SetSeen(s).cases = CasesSeen(s.cases)
  BY SetChanges DEF SetSeen
<1>3. /\ DOMAIN CasesSeen(t.cases) = DOMAIN CasesSeen(s.cases)
      /\ \A m \in DOMAIN CasesSeen(s.cases) : CasesSeen(t.cases)[m].gets = CasesSeen(s.cases)[m].gets
  <2>1. \A c : CaseSeen(c).gets = Marks(c.gets)
    BY CaseChanges DEF CaseSeen
  <2> HIDE DEF CaseSeen
  <2> QED
    BY <1>1, <2>1 DEF CasesSeen
<1> DEFINE S == SetSeen(s)
           T == SetSeen(t)
<1>4. /\ T.gen = S.gen /\ T.gets = S.gets /\ DOMAIN T.cases = DOMAIN S.cases
      /\ \A m \in DOMAIN S.cases : T.cases[m].gets = S.cases[m].gets
  BY <1>1, <1>2, <1>3
<1> HIDE DEF S, T
<1>5. Base(i, j, S).i = i /\ Base(i, j, S).j = j /\ Base(i, j, S).set = S
      /\ Base(i, j, T).i = i /\ Base(i, j, T).j = j /\ Base(i, j, T).set = T
  BY BaseIs
<1>6. OfSet(doc, Base(i, j, S))
  BY DEF S
<1>7. OfSet(doc, Base(i, j, T))
  BY <1>4, <1>5, <1>6 DEF OfSet
<1> QED
  BY <1>7 DEF T, t

\* A set that starts has nothing yet.
LEMMA StartFits ==
  ASSUME NEW i \in DOMAIN doc.suites, NEW j \in DOMAIN doc.suites[i].sets, NEW g, g = SetGen(doc, i, j)
  PROVE  OfSet(doc, Base(i, j, SetSeen(NewSet(g))))
<1> DEFINE nil == {}
           none == <<>>
           no == FALSE
           all == {"hardware", "scratchbox"}
<1>1. SetSeen(NewSet(g)) = SetOf(g, no, none, none, none, none, nil, all)
  BY NewIsSeen DEF NewSetOf
<1>2. FitsSet(doc, i, j, g, none, nil)
  BY DEF FitsSet
<1> HIDE DEF nil, none, no, all
<1> QED
  BY <1>1, <1>2, OfSetIs

\* What a set of the file has been read for is what it asks for.
LEMMA FileIsAsked ==
  ASSUME SetIsOfFile, set # NewSet(NoGen)
  PROVE  \E s \in Sets :
           /\ set.gen.name = Attr("name", <<s>>)
           /\ Marks(set.gets) \subseteq AskedMarks(s.gets)
           /\ \A i \in DOMAIN set.cases :
                i \in DOMAIN s.cases /\ Marks(set.cases[i].gets) = AskedMarks(s.cases[i].gets)
<1>1. PICK i, j : OfSet(doc, Base(i, j, SetSeen(set)))
  BY DEF SetIsOfFile
<1> DEFINE s == doc.suites[i].sets[j]
           S == SetSeen(set)
<1>2. /\ S.gen = set.gen /\ S.gets = Marks(set.gets) /\ S.cases = CasesSeen(set.cases)
  BY SetChanges DEF SetSeen
<1>3. /\ DOMAIN CasesSeen(set.cases) = DOMAIN set.cases
      /\ \A n \in DOMAIN set.cases : CasesSeen(set.cases)[n].gets = Marks(set.cases[n].gets)
  <2>1. \A c : CaseSeen(c).gets = Marks(c.gets)
    BY CaseChanges DEF CaseSeen
  <2> HIDE DEF CaseSeen
  <2> QED
    BY <2>1 DEF CasesSeen
<1> HIDE DEF S
<1>4. /\ i \in DOMAIN doc.suites /\ j \in DOMAIN doc.suites[i].sets
      /\ S.gen = SetGen(doc, i, j) /\ S.gets \subseteq AskedMarks(s.gets)
      /\ \A n \in DOMAIN S.cases : n \in DOMAIN s.cases /\ S.cases[n].gets = AskedMarks(s.cases[n].gets)
  <2>1. Base(i, j, S).i = i /\ Base(i, j, S).j = j /\ Base(i, j, S).set = S
    BY BaseIs
  <2> QED
    BY <1>1, <2>1 DEF OfSet, S
<1>5. s \in Sets
  BY <1>4 DEF Sets, ToSet
<1>6. set.gen.name = Attr("name", <<s>>)
  <2>1. SetGen(doc, i, j).name = IF "name" \in DOMAIN s.a THEN s.a["name"] ELSE NULL
    BY DEF SetGen, GenOf, ValueIn, GenAttributes
  <2> HIDE DEF s
  <2>2. Attr("name", <<s>>) = IF "name" \in DOMAIN s.a THEN s.a["name"] ELSE NULL
    BY SetNameIs
  <2> QED
    BY <1>2, <1>4, <2>1, <2>2
<1> HIDE DEF s
<1> QED
  BY <1>2, <1>3, <1>4, <1>5, <1>6

-----------------------------------------------------------------------------
(* The parser goes on along the file.                                       *)

\* Each action that reads a node takes the parser to the place that the node does.
LEMMA ReaderGoesOn ==
  ASSUME NEW b, NEW c, NEW d, AtNode(b, c, d), ReadLoop \/ SetStart \/ SetEnd \/ ReadInside,
         SetEnd => Ret
  PROVE  IsAt(d)'
<1>1. doc' = doc /\ input # <<>>
  BY NodeIsRead, Zenon
<1>2. CASE ReadLoop \/ SetStart
  <2>1. CASE DetectorText \/ HwidDetected
    BY <2>1, DetectorGoesOn, Zenon
  <2>2. CASE TestDefinitionStart \/ TestDefinitionEnd \/ Hwiddetect \/ SuiteStart
    <3>1. InLoopAt(b, c, d)
      BY <1>1, <2>2 DEF InLoopAt, TestDefinitionStart, TestDefinitionEnd, Hwiddetect, SuiteStart
    <3> QED
      BY <1>1, <2>2, <3>1, DefinitionGoesOn, Zenon
  <2>3. CASE DescriptionNode \/ SuiteEnd \/ SetStart \/ OtherNode
    <3>1. InLoopAt(b, c, d)
      BY <1>1, <2>3 DEF InLoopAt, DescriptionNode, SuiteEnd, SetStart, OtherNode
    <3> QED
      BY <1>1, <2>3, <3>1, SuiteGoesOn, Zenon
  <2> QED
    BY <1>2, <2>1, <2>2, <2>3, Zenon DEF ReadLoop
<1>3. CASE SetEnd
  BY <1>1, <1>3, SetEndsOn, Zenon
<1>4. CASE ReadInside
  <2>1. CASE ReadStep
    <3>1. CASE StepStart
      <4>1. In("td_parse_steps") \/ In("td_parse_case")
        BY <3>1 DEF StepStart, Within
      <4> QED
        BY <3>1, <4>1, ListStepsOn, CaseStepsOn, Zenon
    <3>2. CASE StepText \/ StepOther \/ StepEnd
      BY <3>2, StepGoesOn, Zenon
    <3> QED
      BY <2>1, <3>1, <3>2, Zenon DEF ReadStep
  <2>2. CASE ReadSteps
    <3>1. In("td_parse_steps")
      BY <2>2 DEF ReadSteps, StepsOther, StepsEnd, Within
    <3> QED
      BY <2>2, <3>1, ListStepsOn, Zenon DEF ReadSteps
  <2>3. CASE ReadInSet
    BY <2>3, SetStepsOn, Zenon DEF ReadInSet
  <2>4. CASE ReadInCase
    <3>1. CASE ParamStart \/ ParamText \/ ParamEnd \/ EventEnd
      BY <3>1, EventGoesOn, Zenon
    <3>2. CASE (GetStart /\ Within("td_parse_case")) \/ CaseDescription \/ CaseOther \/ CaseEnd \/ EventStart
      <4>1. In("td_parse_case")
        BY <3>2 DEF CaseDescription, CaseOther, CaseEnd, EventStart, Within
      <4> QED
        BY <3>2, <4>1, CaseStepsOn, Zenon
    <3> QED
      BY <2>4, <3>1, <3>2, Zenon DEF ReadInCase
  <2>5. CASE ReadEnvironment
    BY <2>5, EnvironmentsGoOn, Zenon DEF ReadEnvironment
  <2>6. CASE ReadFile
    BY <2>6, FilesGoOn, Zenon DEF ReadFile
  <2> QED
    BY <1>4, <2>1, <2>2, <2>3, <2>4, <2>5, <2>6, Zenon DEF ReadInside
<1> QED
  BY <1>2, <1>3, <1>4, Zenon

\* Only the end of a set leads back to the loop.
LEMMA StaysInSet ==
  ASSUME NEW b, NEW c, NEW d, AtNode(b, c, d), ReadInside
  PROVE  d.at \notin LoopPlaces
<1> SUFFICES ASSUME d.at \in LoopPlaces PROVE FALSE
  OBVIOUS
<1>1. Inside /\ InFunction(c) /\ Moves(doc, c, Node, d)
  BY WhereInside, Zenon DEF AtNode, ReadInside, IsAt, ReadsTo
<1>2. c.at \notin LoopPlaces
  BY <1>1 DEF InFunction, Inside, InFile, In, LoopPlaces
<1>3. /\ ~ListReads(c, Node, d) /\ ~ListStepReads(c, Node, d) /\ ~EnvsReads(c, Node, d)
      /\ ~CaseStepReads(c, Node, d) /\ ~EventReads(c, Node, d) /\ ~ParamReads(c, Node, d)
      /\ c.at = "env" => ~EnvReads(c, Node, d)
      /\ c.at = "setgets" => ~SetGetsReads(c, Node, d)
      /\ c.at = "case" => ~CaseReads(c, Node, d)
      /\ c.at = "casegets" => ~CaseGetsReads(c, Node, d)
  <2>1. d.at \in {"start", "end", "definition", "detector", "suite"}
    BY DEF LoopPlaces
  <2>2. ~ListReads(c, Node, d) /\ ~ListStepReads(c, Node, d)
    BY <2>1 DEF ListReads, ListStepReads, OnList, OnListStep, OnSet
  <2>3. ~EnvsReads(c, Node, d) /\ (c.at = "env" => ~EnvReads(c, Node, d))
    BY <2>1 DEF EnvsReads, EnvReads, OnEnv, OnEnvs, OnSet
  <2>4. (c.at = "setgets" => ~SetGetsReads(c, Node, d)) /\ (c.at = "casegets" => ~CaseGetsReads(c, Node, d))
    BY <2>1 DEF SetGetsReads, CaseGetsReads, OnSetGets, OnCaseGets, OnSet, OnCase
  <2>5. ~CaseStepReads(c, Node, d) /\ ~EventReads(c, Node, d) /\ ~ParamReads(c, Node, d)
    BY <2>1 DEF CaseStepReads, EventReads, ParamReads, OnCaseStep, OnEvent, OnParam, OnCase
  <2>6. c.at = "case" => ~CaseReads(c, Node, d)
    BY <2>1 DEF CaseReads, OnCase, OnCaseStep, OnCaseGets, OnEvent, OnSet
  <2> QED
    BY <2>2, <2>3, <2>4, <2>5, <2>6
<1>4. c.at = "set" /\ SetReads(doc, c, Node, d)
  BY <1>1, <1>2, <1>3 DEF Moves, LoopPlaces
<1>5. Closes(Node, "set")
  <2>1. d.at \in {"start", "end", "definition", "detector", "suite"}
    BY DEF LoopPlaces
  <2> QED
    BY <1>4, <2>1 DEF SetReads, OnSet, OnList, OnCase, OnEnvs, OnSetGets
<1>6. ASSUME NEW f, Within(f) PROVE f = "td_parse_set"
  BY <1>1, <1>4, <1>6 DEF InFunction, Within, In
<1>7. ~ReadStep /\ ~ReadSteps /\ ~ReadInCase /\ ~ReadEnvironment /\ ~ReadFile
  <2>1. /\ ~Within("td_parse_steps") /\ ~Within("td_parse_step") /\ ~Within("td_parse_case")
        /\ ~Within("td_parse_event") /\ ~Within("td_parse_event_param")
        /\ ~Within("td_parse_environments") /\ ~Within("td_parse_gets")
    BY <1>6
  <2> QED
    BY <2>1, Zenon DEF ReadStep, ReadSteps, ReadInCase, ReadEnvironment, ReadFile,
      StepStart, StepText, StepOther, StepEnd, StepsOther, StepsEnd, CaseDescription, CaseOther,
      CaseEnd, EventStart, ParamStart, ParamText, ParamEnd, EventEnd, EnvironmentName,
      EnvironmentValue, EnvironmentsEnd, FileStart, FileText, GetEnd
<1>8. ~ReadInSet
  BY <1>5 DEF ReadInSet, StepsStart, CaseStart, EnvironmentsStart, GetStart, SetDescription, SetOther,
     Starts, IsText, Closes
<1> QED
  BY <1>7, <1>8 DEF ReadInside

\* The set stays one of the file.
LEMMA SetStaysOfFile ==
  ASSUME NEW b, NEW c, NEW d, AtNode(b, c, d), Fine(doc, c), SetIsOfFile,
         ReadLoop \/ SetStart \/ SetEnd \/ ReadInside, SetEnd \/ IsAt(d)'
  PROVE  SetIsOfFile'
<1>1. doc' = doc /\ input # <<>> /\ set \in SetsOf(b) /\ Fine(doc, d)
  BY NodeIsRead, Zenon DEF AtNode, DataOf, ReadsTo
<1>2. ASSUME set' = set PROVE SetIsOfFile'
  BY <1>1, <1>2 DEF SetIsOfFile
<1>3. CASE IsAt(d)' /\ d.at \notin LoopPlaces
  <2> DEFINE i == d.b.i
             j == d.b.j
             s == d.b.set
  <2>1. OfSet(doc, d.b) /\ SetSeen(set') = s
    BY <1>1, <1>3 DEF Fine, IsAt, Around
  <2>2. Base(i, j, s).i = i /\ Base(i, j, s).j = j /\ Base(i, j, s).set = s
    BY BaseIs
  <2>3. OfSet(doc, Base(i, j, s))
    BY <2>1, <2>2 DEF OfSet
  <2> HIDE DEF i, j, s
  <2> QED
    BY <1>1, <2>1, <2>3 DEF SetIsOfFile
<1>4. CASE ReadLoop
  <2>1. set' = set
    BY <1>4 DEF ReadLoop, TestDefinitionStart, TestDefinitionEnd, Hwiddetect, DescriptionNode,
       SuiteStart, SuiteEnd, OtherNode, DetectorText, HwidDetected, locals
  <2> QED
    BY <1>2, <2>1
<1>5. CASE SetStart
  <2>1. InLoopAt(b, c, d)
    BY <1>1, <1>5 DEF InLoopAt, SetStart
  <2> DEFINE i == c.i
             j == c.j + 1
             g == GenOf(Node.a, suite.gen)
  <2>2. Begins(Node, "set") /\ set' = NewSet(g)
    BY <1>5, GenIs DEF SetStart, Starts, Begins
  <2>3. SuiteReads(doc, c, Node, d) /\ InSuite(i, c.told)
    BY <2>1, <2>2, LoopReads DEF DefinitionReads, Begins, Closes, OtherEnd
  <2>4. i \in DOMAIN doc.suites /\ j \in DOMAIN doc.suites[i].sets /\ Node.a = doc.suites[i].sets[j].a
    BY <2>2, <2>3 DEF SuiteReads, Begins, Closes, OtherEnd, InSuite
  <2>5. g = SetGen(doc, i, j)
    BY <2>3, <2>4 DEF SetGen, InSuite
  <2> HIDE DEF i, j, g
  <2>6. OfSet(doc, Base(i, j, SetSeen(NewSet(g))))
    BY <2>4, <2>5, StartFits
  <2> QED
    BY <1>1, <2>2, <2>6 DEF SetIsOfFile
<1>6. CASE SetEnd
  <2>1. In("td_parse_set")
    BY <1>6 DEF SetEnd
  <2> PICK n : set' = Shared(set, n)
    BY <1>6 DEF SetEnd
  <2>2. c.at = "set"
    BY <2>1, FunctionReads
  <2> DEFINE i == c.b.i
             j == c.b.j
             s == c.b.set
  <2>3. OfSet(doc, c.b) /\ SetSeen(set) = s
    BY <2>2 DEF Fine, AtNode, IsAt, Around, LoopPlaces
  <2>4. Base(i, j, s).i = i /\ Base(i, j, s).j = j /\ Base(i, j, s).set = s
    BY BaseIs
  <2>5. OfSet(doc, Base(i, j, s))
    BY <2>3, <2>4 DEF OfSet
  <2> HIDE DEF i, j, s
  <2>6. OfSet(doc, Base(i, j, SetSeen(Shared(set, n))))
    BY <1>1, <2>3, <2>5, SharedFits
  <2> QED
    BY <1>1, <2>6 DEF SetIsOfFile
<1>7. ReadInside => d.at \notin LoopPlaces
  BY StaysInSet
<1> QED
  BY <1>3, <1>4, <1>5, <1>6, <1>7, Zenon

-----------------------------------------------------------------------------
(* The theorem.                                                             *)

\* Of a file that can be read, what is left leads on from where the parser is, and the
\* set is one of the file.
ReaderAt == \E c, d : IsAt(c) /\ Fine(doc, c) /\ Takes(doc, input, c, d)
ReaderInv == DefinitionInv /\ (Readable => SetIsOfFile /\ (InFile => ReaderAt))

\* It holds at the start: the whole file is left.
LEMMA ReaderInvInit == Init => ReaderInv
<1> SUFFICES ASSUME Init PROVE ReaderInv
  OBVIOUS
<1>1. DefinitionInv
  BY DefinitionInvInit
<1>2. SetIsOfFile
  BY DEF Init, SetIsOfFile
<1>3. ASSUME Readable PROVE ReaderAt
  <2> DEFINE c == OnStart
  <2>1. IsDocument(doc)
    BY TestDefinitionAssumption DEF Init, TestDefinitionAssumption
  <2>2. FileIsRead(doc)
    BY <1>3, <2>1, ReadableIsRead
  <2>3. PICK d : Takes(doc, FileTokens(doc), c, d)
    BY <2>2, DefinitionTakes
  <2>4. c.at = "start"
    BY DEF OnStart
  <2>5. fn = <<"td_process">> /\ parsing_level = 0 /\ suite = Nowhere /\ input = FileTokens(doc)
    BY DEF Init
  <2>6. In("td_process") /\ ~suite.live
    BY <2>5 DEF In, Last, Nowhere
  <2> HIDE DEF c
  <2>7. IsAt(c) /\ Fine(doc, c)
    BY <2>4, <2>5, <2>6 DEF IsAt, InFunction, Around, LocalsAt, Fine, LoopPlaces
  <2> QED
    BY <2>3, <2>5, <2>7 DEF ReaderAt
<1> QED
  BY <1>1, <1>2, <1>3 DEF ReaderInv

\* Whether a file can be read does not change.
LEMMA ReadableStays ==
  ASSUME doc' = doc
  PROVE  Readable' = Readable
BY DEF Readable, DetectorIsMisread, TextsAreRead, Sets

\* Nodes are read by the parser's functions.
LEMMA ReadsInFile ==
  ASSUME fn \in Stacks, ReadLoop \/ SetStart \/ SetEnd \/ ReadInside
  PROVE  InFile
<1>1. CASE ReadInside
  BY <1>1, WhereInside, Zenon DEF ReadInside, Inside
<1>2. CASE DetectorText \/ HwidDetected \/ SetEnd
  BY <1>2 DEF DetectorText, HwidDetected, SetEnd, InFile, In
<1>3. CASE ~DetectorText /\ ~HwidDetected /\ (ReadLoop \/ SetStart)
  <2>1. InLoop
    BY <1>3 DEF ReadLoop, TestDefinitionStart, TestDefinitionEnd, Hwiddetect, DescriptionNode,
       SuiteStart, SuiteEnd, OtherNode, SetStart
  <2> QED
    BY <2>1 DEF InLoop, InFile, In, Last
<1> QED
  BY <1>1, <1>2, <1>3

\* Every action keeps it: each that reads a node goes to where the node leads.
LEMMA ReaderInvStep == ReaderInv /\ [Next]_vars => ReaderInv'
<1> SUFFICES ASSUME ReaderInv, [Next]_vars PROVE ReaderInv'
  OBVIOUS
<1>1. DefinitionInv'
  BY DefinitionInvStep DEF ReaderInv
<1>2. doc' = doc
  BY NodeIsRead, NextIs, Zenon DEF vars
<1>3. CASE ~Readable
  BY <1>1, <1>2, <1>3, ReadableStays DEF ReaderInv
<1>4. CASE Readable /\ (ReadLoop \/ SetStart \/ SetEnd \/ ReadInside)
  <2>1. input # <<>> /\ input' = Tail(input)
    BY <1>4, NodeIsRead, Zenon
  <2>2. PICK b : DataOf(b) /\ fn \in Stacks
    <3>1. PICK b, n \in BOOLEAN : \E c, d : ParserAt(b, c, d) /\ WrittenAt(n, c)
      BY DEF ReaderInv, DefinitionInv
    <3>2. DataOf(b) /\ fn \in Stacks
      BY <3>1 DEF ParserAt, ParseAt, Parse
    <3> QED
      BY <3>2
  <2>3. SetIsOfFile /\ InFile
    <3>1. InFile
      BY <1>4, <2>2, ReadsInFile
    <3> QED
      BY <1>4, <3>1 DEF ReaderInv
  <2>4. PICK c, d : IsAt(c) /\ Fine(doc, c) /\ Takes(doc, input, c, d)
    BY <1>4, <2>3 DEF ReaderInv, ReaderAt
  <2>5. PICK e : ReadsTo(doc, c, Node, e) /\ Takes(doc, Tail(input), e, d)
    BY <2>1, <2>4, TakesFirst DEF Node
  <2>6. AtNode(b, c, e)
    BY <2>2, <2>4, <2>5 DEF AtNode
  <2>7. ASSUME SetEnd => Ret PROVE IsAt(e)'
    BY <1>4, <2>6, <2>7, ReaderGoesOn
  <2>8. SetIsOfFile'
    <3>1. SetEnd \/ IsAt(e)'
      BY <2>7
    <3> QED
      BY <1>4, <2>3, <2>4, <2>6, <3>1, SetStaysOfFile
  <2>9. Fine(doc, e)' /\ Takes(doc, input, e, d)'
    <3>1. Fine(doc, e) /\ Takes(doc, Tail(input), e, d)
      BY <2>5 DEF ReadsTo
    <3>2. Fine(doc', e) /\ Takes(doc', input', e, d)
      BY <1>2, <2>1, <3>1
    <3> QED
      BY <3>2
  <2>10. ASSUME InFile' PROVE ReaderAt'
    <3>1. fn' # <<"crashed">>
      BY <2>10 DEF InFile, In, Last
    <3>2. SetEnd => fn' \in AfterDelete(set', Front(fn))
      BY Zenon DEF SetEnd
    <3>3. SetEnd => Ret
      BY <3>1, <3>2 DEF AfterDelete, Ret
    <3>4. IsAt(e)'
      BY <2>7, <3>3
    <3> QED
      BY <2>9, <3>4, Zenon DEF ReaderAt
  <2> QED
    BY <1>1, <2>8, <2>10 DEF ReaderInv
<1>5. CASE Readable /\ (SuiteEndWithoutSuite \/ EndOfFile)
  <2>1. set' = set /\ ~InFile'
    BY <1>5 DEF SuiteEndWithoutSuite, EndOfFile, InFile, In, Last, locals
  <2>2. SetIsOfFile'
    BY <1>2, <1>5, <2>1 DEF ReaderInv, SetIsOfFile
  <2> QED
    BY <1>1, <2>1, <2>2 DEF ReaderInv
<1>6. CASE Readable /\ (Finished \/ vars' = vars)
  <2>1. vars' = vars
    BY <1>6 DEF Finished
  <2>2. SetIsOfFile' = SetIsOfFile /\ InFile' = InFile
    BY <2>1 DEF vars, locals, SetIsOfFile, InFile, In
  <2>3. ReaderAt => ReaderAt'
    BY <2>1 DEF vars, locals, ReaderAt, IsAt, InFunction, Around, LocalsAt, InDefinition, InSuite, In, Caller
  <2> QED
    BY <1>1, <1>6, <2>2, <2>3 DEF ReaderInv
<1> QED
  BY <1>3, <1>4, <1>5, <1>6, NextIs, Zenon

\* A file on the target is removed only if its own element says so, for every definition
\* that can be read and every command line: the flag of one file of td_parse_gets()
\* reaches no other, the files of a case are its own, and the set has the cases of one
\* set of the definition.
THEOREM OnlyMarkedFilesAreRemovedAlways == Spec => []OnlyMarkedFilesAreRemoved
<1>1. ReaderInv => OnlyMarkedFilesAreRemoved
  BY FileIsAsked, Zenon DEF ReaderInv, OnlyMarkedFilesAreRemoved
<1> QED
  BY <1>1, ReaderInvInit, ReaderInvStep, PTL DEF Spec

=============================================================================
