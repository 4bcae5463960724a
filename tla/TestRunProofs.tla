--------------------------- MODULE TestRunProofs ----------------------------
(***************************************************************************)
(* Proofs about TestRun, for every plan, every --resume action and every   *)
(* set of result codes: where the run can be (Layout), that no case is     *)
(* PASS that has not earned it (VerdictIsEarned), its other safety         *)
(* invariants, and that it implements SetVerdicts.                         *)
(*                                                                         *)
(* VerdictIsEarned is not inductive: it says nothing of the case that is   *)
(* being run. Earned is: it adds what the verdict of the open case stands  *)
(* for while its steps are walked (OpenVerdict), that what lies ahead of   *)
(* the walk is untouched (AheadIsUntouched), that a walk that goes on      *)
(* without bailing out is one of a case that passes so far (StillPassing), *)
(* and what the dummy case stands for while the post reboot steps of a     *)
(* step are walked (RebootWalk).                                           *)
(*                                                                         *)
(* Every action that ends a step is StepEndsAs(v, w, on) for some verdict  *)
(* v, some w that it went as, and some decision on to walk on              *)
(* (StepOutcome); the actions that run and judge nothing are Quiet. The    *)
(* invariant is proved for those two, and for the few actions that open    *)
(* and close sets, cases and the walk of the post reboot steps.            *)
(*                                                                         *)
(* The other invariants are proved each from an inductive invariant of its *)
(* own beside those two: PreSteps for FailedPreStepAbortsSet, Lost for     *)
(* LostLinkSkipsRest, Resumed for ExitRunsNoFurtherSet, Groups for         *)
(* CaseStepsSwept, Undecided and Counting for PassesAreCounted, several   *)
(* of them for TypeOK.                                                     *)
(*                                                                         *)
(* At the end, TestRun implements SetVerdicts: its initial states are      *)
(* initial states of SetVerdicts, and each of its steps is one of          *)
(* SetVerdicts or a stutter. The steps that end, begin or walk steps of a  *)
(* plan decide nothing; a set is opened by EnterSet, closed by WriteSet,   *)
(* aborted by AbortSet; a case is opened by BeginCase, closed by CaseEnds, *)
(* skipped by SkipCase; the promise is mended by ResumeRun and by a reboot *)
(* that a step expected. The mapping needs Tainted: nothing of a case that *)
(* was begun while the run was bailing out is executed.                    *)
(***************************************************************************)
EXTENDS TestRun, FiniteSetTheorems, TLAPS

-----------------------------------------------------------------------------
(* Where the walk is.                                                       *)

\* A place in some set, the places of the current set, and the states of the
\* processor by what it does at the cursor: a step is under way (AtStep), or a
\* list is walked (Active), the list called list (In).
Positions == [list : Lists, block : Nat \ {0}, step : Nat \ {0}]
Spots  == PlacesOf(Current)
AtStep == pc \in {"exec", "rebooting", "rebooted", "judge"}
Active == pc = "walk" \/ AtStep
Cases  == Len(Current.case)
In(list) == Active /\ cursor.list = list

\* Where the run is.
Here ==
  /\ plan \in Plans /\ pc \in PC
  /\ set \in 1..Len(plan) + 1 /\ (InSet => set <= Len(plan))
  /\ case \in Nat \ {0} /\ cursor \in Positions /\ outer \in Positions

\* What the processor keeps of the current set is kept for its cases and steps.
Tables ==
  InSet =>
    /\ verdict \in [1..Cases -> Verdicts]
    /\ DOMAIN res = Spots /\ DOMAIN went = Spots
    /\ case <= Cases + 1

\* The cursor is where the state of the processor says: in a list of the set, at
\* a step of it while one is under way, in the block of the open case.
CursorOK ==
  /\ Active => cursor.block \in DOMAIN Current[cursor.list]
  /\ AtStep => cursor \in Spots
  /\ In("case") => cursor.block = case
  /\ In("reboot") => outer \in Spots /\ outer.list = "case" /\ outer.block = case
  /\ In("pre") => case = 1
  /\ pc = "judge" => cursor.list = "case"
  /\ pc = "case_gets" => case <= Cases /\ cursor.list = "case"
  /\ pc \in {"suspended", "post", "gets", "restore"} \/ In("post") =>
       case = Cases + 1

\* The shape of every state.
Layout == Here /\ Tables /\ CursorOK

-----------------------------------------------------------------------------
\* The case step that is being run: the one at the cursor, or the one whose
\* post reboot steps are walked.
Anchor == IF cursor.list = "reboot" THEN outer ELSE cursor
CaseWalk == Active /\ cursor.list \in {"case", "reboot"}
\* The walk of the open case is past a.
Reached(a) == pc = "case_gets" \/ a.step < Anchor.step

\* What is ahead of the walk has not been run.
AheadIsUntouched ==
  InSet =>
    \A a \in Spots :
      a.list = "case" /\ (\/ a.block > case
                          \/ a.block = case /\ ~CaseOpen
                          \/ a.block = case /\ CaseWalk /\ a.step >= Anchor.step)
        => went[a] = "none"

\* The verdict of the open case is PASS exactly if it has steps, and those that
\* are done went well.
OpenVerdict ==
  CaseOpen =>
    (verdict[case] = "PASS" <=>
      /\ StepsOf(case) # {}
      /\ \A a \in StepsOf(case) : Reached(a) => Well(went[a]))

\* While the walk goes on, not bailing out, the open case passes.
StillPassing ==
  CaseWalk /\ Anchor.step <= Len(Current.case[case])
    /\ (bail_out = 0 \/ pc # "walk" \/ cursor.list = "reboot")
  => verdict[case] = "PASS"

\* Only finished cases are judged by their measurements.
MeasuredCases == InSet => unmeasured \subseteq 1..case - 1

\* The walk of the post reboot steps is past a.
Passed(a) ==
  \/ pc = "judge"
  \/ a.block < cursor.block
  \/ a.block = cursor.block /\ a.step < cursor.step

\* The dummy case of the post reboot steps is PASS exactly if those that are
\* done went well; the others are untouched.
RebootWalk ==
  In("reboot") \/ pc = "judge" =>
    /\ dummy = "PASS" <=>
         \A a \in Spots : a.list = "reboot" /\ Passed(a) => Well(went[a])
    /\ \A a \in Spots : a.list = "reboot" /\ ~Passed(a) => went[a] = "none"

\* The inductive form of VerdictIsEarned.
Earned ==
  /\ AheadIsUntouched /\ OpenVerdict /\ StillPassing /\ MeasuredCases
  /\ RebootWalk /\ PassIsEarned /\ FailureEndsCase

-----------------------------------------------------------------------------
\* What the constants say of the set that is run.
LEMMA ProgramTypes ==
  ASSUME plan \in Plans, set \in 1..Len(plan)
  PROVE  /\ Current \in TestSet
         /\ Cases \in Nat /\ DOMAIN Current.case = 1..Cases
         /\ \A l \in Lists : Current[l] \in Seq(Seq(Step))
<1>1. plan \in Seq(TestSet)
  BY TestRunAssumption
<1>2. Current \in TestSet
  BY <1>1 DEF Current
<1>3. \A l \in Lists : Current[l] \in Seq(Seq(Step))
  BY <1>2 DEF TestSet, Lists
<1>4. Current.case \in Seq(Seq(Step))
  BY <1>2 DEF TestSet
<1> QED
  BY <1>2, <1>3, <1>4 DEF Cases

\* A block of a list is a sequence of steps.
LEMMA BlockTypes ==
  ASSUME plan \in Plans, set \in 1..Len(plan),
         NEW l \in Lists, NEW b \in DOMAIN Current[l]
  PROVE  /\ b \in Nat \ {0} /\ b \in 1..Len(Current[l]) /\ Len(Current[l]) \in Nat
         /\ Current[l][b] \in Seq(Step)
         /\ Len(Current[l][b]) \in Nat
         /\ DOMAIN Current[l][b] = 1..Len(Current[l][b])
<1>1. Current[l] \in Seq(Seq(Step))
  BY ProgramTypes
<1> HIDE DEF Current
<1> QED
  BY <1>1

\* The places of the set are those with a block of one of its lists and a step
\* of that block.
LEMMA SpotIs ==
  ASSUME plan \in Plans, set \in 1..Len(plan)
  PROVE  /\ \A a \in Spots :
              /\ a \in Positions /\ a.block \in DOMAIN Current[a.list]
              /\ a.step \in 1..Len(Current[a.list][a.block])
         /\ \A a \in Positions :
              a.block \in DOMAIN Current[a.list]
                /\ a.step <= Len(Current[a.list][a.block]) => a \in Spots
         /\ AllPlaces = Spots
         /\ Places("reboot") = {a \in Spots : a.list = "reboot"}
<1>1. ASSUME NEW a \in Spots
      PROVE  /\ a \in Positions /\ a.block \in DOMAIN Current[a.list]
             /\ a.step \in 1..Len(Current[a.list][a.block])
  <2>a. PICK l \in Lists :
          a \in UNION {{At(l, b, i) : i \in DOMAIN Current[l][b]} :
                         b \in DOMAIN Current[l]}
    BY DEF Spots, PlacesOf
  <2>b. PICK b \in DOMAIN Current[l] : a \in {At(l, b, i) : i \in DOMAIN Current[l][b]}
    BY <2>a
  <2>1. PICK i \in DOMAIN Current[l][b] : a = At(l, b, i)
    BY <2>b
  <2>2. b \in Nat \ {0} /\ i \in 1..Len(Current[l][b]) /\ Len(Current[l][b]) \in Nat
    BY <2>1, BlockTypes
  <2> QED
    BY <2>1, <2>2 DEF At, Positions
<1>2. ASSUME NEW a \in Positions, a.block \in DOMAIN Current[a.list],
             a.step <= Len(Current[a.list][a.block])
      PROVE  a \in Spots
  <2>1. a = At(a.list, a.block, a.step) /\ a.list \in Lists /\ a.step \in Nat \ {0}
    BY DEF Positions, At
  <2>2. a.step \in DOMAIN Current[a.list][a.block]
    BY <1>2, <2>1, BlockTypes
  <2> QED
    BY <1>2, <2>1, <2>2 DEF Spots, PlacesOf
<1>3. AllPlaces = Spots
  BY DEF AllPlaces, Places, Spots, PlacesOf
<1>4. Places("reboot") = {a \in Spots : a.list = "reboot"}
  BY DEF Spots, PlacesOf, Places, At, Lists
<1> QED
  BY <1>1, <1>2, <1>3, <1>4

\* The set stays the same as long as the position does.
LEMMA SameSet ==
  ASSUME UNCHANGED <<plan, set>>
  PROVE  Current' = Current /\ Spots' = Spots /\ Cases' = Cases
BY DEF Current, Spots, Cases, PlacesOf, At, Lists

\* Within a set, the cases are numbered from 1.
LEMMA InSetTypes ==
  ASSUME Here, InSet
  PROVE  /\ plan \in Plans /\ set \in 1..Len(plan)
         /\ Cases \in Nat /\ DOMAIN Current.case = 1..Cases
<1>1. plan \in Seq(TestSet)
  BY TestRunAssumption DEF Here
<1>2. set \in 1..Len(plan)
  BY <1>1 DEF Here
<1> QED
  BY <1>2, ProgramTypes DEF Here

\* Walk moves the cursor within its block.
LEMMA WalkMoves ==
  ASSUME Layout, Active, NEW on, Walk(on)
  PROVE  /\ cursor' \in Positions
         /\ cursor'.list = cursor.list /\ cursor'.block = cursor.block
         /\ cursor'.step = IF on THEN cursor.step + 1 ELSE Len(Block) + 1
<1>1. cursor \in Positions /\ plan \in Plans /\ set \in 1..Len(plan)
  BY InSetTypes DEF Layout, Here, Active, AtStep, InSet
<1>2. Len(Block) \in Nat
  BY <1>1, BlockTypes DEF Layout, CursorOK, Block, Positions
<1> QED
  BY <1>1, <1>2 DEF Walk, Positions

\* The verdicts stay verdicts of the cases of the set.
LEMMA JudgeTypes ==
  ASSUME Layout, Active, NEW v \in Verdicts, Judge(v)
  PROVE  verdict' \in [1..Cases -> Verdicts]
<1>1. verdict \in [1..Cases -> Verdicts]
  BY DEF Layout, Tables, Active, AtStep, InSet
<1> QED
  BY <1>1 DEF Judge

\* A step that ends moves the cursor within its block.
StepEnds ==
  /\ Active /\ pc' = "walk"
  /\ UNCHANGED <<plan, set, case, outer>>
  /\ \E on \in BOOLEAN : Walk(on)
  /\ \E v \in Verdicts : Judge(v)
  /\ DOMAIN res' = DOMAIN res /\ DOMAIN went' = DOMAIN went

\* All actions that end a step do so.
LEMMA EndOfStep ==
  ASSUME \/ BailOutStep
         \/ EmptyStep
         \/ \E v \in Verdicts : ManualStep(v)
         \/ \E o \in Returns : CommandEnds(o)
         \/ \E o \in Returns : ExpectedRebootMissed(o)
         \/ RebootFails
         \/ Rebooted
         \/ JudgeReboot
  PROVE  StepEnds
<1>1. CASE BailOutStep
  BY <1>1 DEF BailOutStep, StepEnds, Active, AtStep, Walking, Verdicts,
              history, observed
<1>2. ASSUME NEW v \in Verdicts, ManualStep(v) PROVE StepEnds
  <2>1. CASE InDummy
    <3>1. Judge("PASS") /\ Walk(TRUE)
      BY <1>2, <2>1 DEF ManualStep, Judge
    <3> QED
      BY <1>2, <2>1, <3>1 DEF ManualStep, StepEnds, Active, AtStep, Walking,
                              Verdicts, Mark
  <2>2. CASE ~InDummy
    BY <1>2, <2>2 DEF ManualStep, StepEnds, Active, AtStep, Walking, Verdicts,
                      Mark
  <2> QED
    BY <2>1, <2>2
<1>3. ASSUME NEW o \in Returns, CommandEnds(o) PROVE StepEnds
  BY <1>3 DEF CommandEnds, Conclude, StepEnds, Active, AtStep, Verdicts, Mark
<1>4. ASSUME NEW o \in Returns, ExpectedRebootMissed(o) PROVE StepEnds
  BY <1>4 DEF ExpectedRebootMissed, StepEnds, Active, AtStep, Verdicts, Mark
<1>5. CASE RebootFails
  BY <1>5 DEF RebootFails, StepEnds, Active, AtStep, Verdicts, Mark
<1>6. CASE Rebooted
  BY <1>6 DEF Rebooted, RebootSucceeds, Conclude, StepEnds, Active, AtStep,
              Verdicts, Mark, Judge
<1>7. CASE JudgeReboot
  BY <1>7 DEF JudgeReboot, RebootSucceeds, Conclude, StepEnds, Active, AtStep,
              Verdicts, Mark, Judge
<1>8. CASE EmptyStep
  BY <1>8 DEF EmptyStep, StepEnds, Active, AtStep, Walking, Verdicts, Mark
<1> QED
  BY <1>1, <1>2, <1>3, <1>4, <1>5, <1>6, <1>7, <1>8

\* The end of a step keeps the shape of the state.
LEMMA EndOfStepLayout ==
  ASSUME Layout, StepEnds
  PROVE  Layout'
<1>1. PICK on \in BOOLEAN : Walk(on)
  BY DEF StepEnds
<1>2. PICK v \in Verdicts : Judge(v)
  BY DEF StepEnds
<1>3. Active
  BY DEF StepEnds
<1>4. /\ cursor' \in Positions /\ cursor'.list = cursor.list
      /\ cursor'.block = cursor.block
  BY <1>1, <1>3, WalkMoves
<1>5. verdict' \in [1..Cases -> Verdicts]
  BY <1>2, <1>3, JudgeTypes
<1>6. Current' = Current /\ Spots' = Spots /\ Cases' = Cases
  BY SameSet DEF StepEnds
<1>7. InSet /\ InSet' /\ ~AtStep' /\ Active'
  BY <1>3 DEF InSet, Active, AtStep, StepEnds
<1>8. Here'
  BY <1>4, <1>7 DEF Layout, Here, StepEnds, PC
<1>9. Tables'
  BY <1>5, <1>6, <1>7 DEF Layout, Tables, StepEnds
<1>10. CursorOK'
  <2>1. pc' = "walk" /\ case' = case /\ outer' = outer
    BY DEF StepEnds
  <2> QED
    BY <1>3, <1>4, <1>6, <1>7, <2>1 DEF Layout, CursorOK, In
<1> QED
  BY <1>8, <1>9, <1>10 DEF Layout

\* The cursor stays where it is, in a place that suits the new pc.
Stays ==
  /\ InSet
  /\ UNCHANGED <<plan, set, case, cursor, outer>>
  /\ verdict' \in {verdict, [j \in DOMAIN verdict |-> "FAIL"]}
  /\ DOMAIN res' = DOMAIN res /\ DOMAIN went' = DOMAIN went
  /\ \/ pc' = pc
     \/ pc = "rebooting" /\ pc' = "rebooted"
     \/ Walking /\ pc' \in {"exec", "rebooting"}
     \/ pc = "exec" /\ pc' = "rebooting"
     \/ pc = "suspended" /\ pc' = "post"
     \/ LastBlockDone("pre") /\ pc' \in {"case", "write"}
     \/ LastBlockDone("post") /\ pc' = "gets"
     \/ WalkDone /\ cursor.list = "case" /\ pc' = "case_gets"
     \/ pc = "case" /\ case > Cases /\ pc' \in {"suspended", "post"}
     \/ pc = "post" /\ pc' = "gets"
     \/ pc = "gets" /\ pc' = "restore"
     \/ pc = "restore" /\ pc' = "write"

\* The first state has it.
LEMMA LayoutInit == Init => Layout
<1> SUFFICES ASSUME Init PROVE Layout
  OBVIOUS
<1>1. plan \in Seq(TestSet)
  BY TestRunAssumption DEF Init
<1>2. Here
  BY <1>1 DEF Init, Here, PC, InSet, Positions, At, Lists
<1>3. Tables
  BY DEF Init, Tables, InSet
<1>4. CursorOK
  BY DEF Init, CursorOK, Active, AtStep, In
<1> QED
  BY <1>2, <1>3, <1>4 DEF Layout

\* A walk that is not done is at a step of the set.
LEMMA WalkingSpot ==
  ASSUME Layout, Walking
  PROVE  cursor \in Spots
<1>1. InSet /\ Active
  BY DEF Walking, InSet, Active
<1> QED
  BY <1>1, InSetTypes, SpotIs DEF Layout, Here, CursorOK, Walking, Block

\* The steps that leave the cursor alone keep the shape of the state.
LEMMA StaysLayout ==
  ASSUME Layout, Stays
  PROVE  Layout'
<1>1. Current' = Current /\ Spots' = Spots /\ Cases' = Cases
  BY SameSet DEF Stays
<1>2. InSet /\ InSet'
  BY DEF InSet, Walking, WalkDone, LastBlockDone, Stays
<1>3. Here'
  BY <1>2 DEF Layout, Here, PC, Stays, Walking, WalkDone, LastBlockDone
<1>4. Tables'
  BY <1>1, <1>2 DEF Layout, Tables, Stays, Verdicts
<1>5. cursor' = cursor /\ outer' = outer /\ case' = case
  BY DEF Stays
<1>6. Walking => cursor \in Spots
  BY WalkingSpot
<1>7. Cases \in Nat /\ case \in Nat /\ case <= Cases + 1
  BY <1>2, InSetTypes DEF Layout, Here, Tables
<1>8. WalkDone /\ cursor.list = "case" => case <= Cases
  <2>1. WalkDone /\ cursor.list = "case" => case \in DOMAIN Current.case
    BY DEF Layout, CursorOK, WalkDone, Active, In
  <2> QED
    BY <1>2, <2>1, InSetTypes DEF Layout
<1>9. CursorOK'
  BY <1>1, <1>5, <1>6, <1>7, <1>8
     DEF Stays, Layout, CursorOK, In, Active, AtStep, Walking, WalkDone,
         LastBlockDone
<1> QED
  BY <1>3, <1>4, <1>9 DEF Layout

\* The actions that leave the cursor alone.
LEMMA CursorStays ==
  ASSUME Layout, InSet,
         \/ UNCHANGED vars
         \/ Interrupt(2) \/ Interrupt(15) \/ ConfirmReboot \/ ResumeRun
         \/ BeginStep \/ \E o \in Returns : ExpectedRebootBegins(o)
         \/ PreStepsPass \/ AbortSet \/ CaseWalked \/ CasesDone
         \/ pc' = "gets" /\ (PostSteps \/ PostStepsDone)
         \/ SetGets \/ RestoreBailOut
  PROVE  Stays
<1> USE DEF Stays, position, results, history, observed, InSet
<1>1. CASE UNCHANGED vars
  BY <1>1 DEF vars
<1>2. ASSUME NEW sig, Interrupt(sig) PROVE Stays
  BY <1>2 DEF Interrupt
<1>3. CASE ConfirmReboot
  BY <1>3 DEF ConfirmReboot
<1>4. CASE ResumeRun
  BY <1>4 DEF ResumeRun
<1>5. CASE BeginStep
  BY <1>5 DEF BeginStep
<1>6. ASSUME NEW o \in Returns, ExpectedRebootBegins(o) PROVE Stays
  BY <1>6 DEF ExpectedRebootBegins
<1>7. CASE PreStepsPass
  BY <1>7 DEF PreStepsPass
<1>8. CASE AbortSet
  BY <1>8 DEF AbortSet
<1>9. CASE CaseWalked
  BY <1>9 DEF CaseWalked
<1>10. CASE CasesDone
  BY <1>10 DEF CasesDone, Cases
<1>11. CASE pc' = "gets" /\ PostSteps
  BY <1>11 DEF PostSteps, EnterList
<1>12. CASE PostStepsDone
  BY <1>12 DEF PostStepsDone
<1>13. CASE SetGets
  BY <1>13 DEF SetGets
<1>14. CASE RestoreBailOut
  BY <1>14 DEF RestoreBailOut
<1> QED
  BY <1>1, <1>2, <1>3, <1>4, <1>5, <1>6, <1>7, <1>8, <1>9, <1>10, <1>11,
     <1>12, <1>13, <1>14

\* Between the sets nothing but the set and the pc change.
LEMMA BetweenSetsLayout ==
  ASSUME Layout, plan' = plan, case' = case, cursor' = cursor, outer' = outer,
         set' \in 1..Len(plan) + 1, pc' \in {"set", "end"}
  PROVE  Layout'
<1>1. Here'
  BY DEF Layout, Here, InSet, PC
<1>2. Tables'
  BY DEF Tables, InSet
<1>3. CursorOK'
  BY DEF CursorOK, Active, AtStep, In
<1> QED
  BY <1>1, <1>2, <1>3 DEF Layout

\* Entering a list puts the cursor on its first block.
LEMMA EnterListLayout ==
  ASSUME plan \in Plans, set \in 1..Len(plan), NEW list \in Lists,
         Len(Current[list]) > 0, EnterList(list)
  PROVE  /\ cursor' \in Positions /\ cursor'.list = list
         /\ cursor'.block \in DOMAIN Current[list]
         /\ cursor'.block = 1 /\ cursor'.step = 1
         /\ pc' = "walk" /\ dummy' = "PASS"
<1>1. Current[list] \in Seq(Seq(Step))
  BY ProgramTypes
<1>2. 1 \in DOMAIN Current[list]
  BY <1>1
<1> QED
  BY <1>2 DEF EnterList, At, Positions

\* A set is entered in shape.
LEMMA EnterSetLayout ==
  ASSUME Layout, EnterSet
  PROVE  Layout'
<1>1. plan \in Plans /\ set \in 1..Len(plan) /\ set' = set /\ plan' = plan
  BY TestRunAssumption DEF Layout, Here, EnterSet
<1>2. Cases \in Nat /\ DOMAIN Current.case = 1..Cases
  BY <1>1, ProgramTypes
<1>3. Current' = Current /\ Spots' = Spots /\ Cases' = Cases
  BY <1>1, SameSet
<1>4. "pre" \in Lists
  BY DEF Lists
<1>5. CASE Len(Current.pre) > 0
  <2>1. EnterList("pre") /\ case' = 1 /\ outer' = outer
    BY <1>5 DEF EnterSet
  <2>2. /\ cursor' \in Positions /\ cursor'.list = "pre"
        /\ cursor'.block \in DOMAIN Current["pre"] /\ pc' = "walk"
    BY <1>1, <1>4, <1>5, <2>1, EnterListLayout
  <2>3. Here'
    BY <1>1, <2>1, <2>2 DEF Layout, Here, PC
  <2>4. Tables'
    BY <1>2, <1>3, <2>1 DEF Tables, EnterSet, Spots, Verdicts
  <2>5. CursorOK'
    BY <1>3, <2>1, <2>2 DEF CursorOK, Active, AtStep, In
  <2> QED
    BY <2>3, <2>4, <2>5 DEF Layout
<1>6. CASE ~(Len(Current.pre) > 0)
  <2>1. pc' = "case" /\ case' = 1 /\ UNCHANGED <<cursor, outer>>
    BY <1>6 DEF EnterSet
  <2>3. Here'
    BY <1>1, <2>1 DEF Layout, Here, PC
  <2>4. Tables'
    BY <1>2, <1>3, <2>1 DEF Tables, EnterSet, Spots, Verdicts
  <2>5. CursorOK'
    BY <2>1 DEF CursorOK, Active, AtStep, In
  <2> QED
    BY <2>3, <2>4, <2>5 DEF Layout
<1> QED
  BY <1>5, <1>6

\* The actions that send the walk, or process_set(), somewhere else.
LEMMA CursorMoves ==
  ASSUME Layout, InSet,
         \/ NextBlock \/ BeginPostRebootSteps \/ PostRebootStepsDone
         \/ SkipCase \/ BeginCase \/ CaseEnds
         \/ Len(Current.post) > 0 /\ PostSteps
  PROVE  Layout'
<1>1. plan \in Plans /\ set \in 1..Len(plan) /\ Cases \in Nat
      /\ DOMAIN Current.case = 1..Cases /\ case \in Nat \ {0} /\ case <= Cases + 1
  BY InSetTypes DEF Layout, Here, Tables
<1>2. plan' = plan /\ set' = set
  BY DEF NextBlock, BeginPostRebootSteps, PostRebootStepsDone, SkipCase,
         BeginCase, CaseEnds, PostSteps, EnterList
<1>3. Current' = Current /\ Spots' = Spots /\ Cases' = Cases
  BY <1>2, SameSet
<1>4. Lists = {"pre", "case", "reboot", "post"}
  BY DEF Lists
<1>5. CASE NextBlock
  <2>1. pc = "walk" /\ pc' = "walk" /\ UNCHANGED <<case, outer, verdict, res, went>>
    BY <1>5 DEF NextBlock, WalkDone, history, observed
  <2>2. cursor \in Positions /\ cursor.block \in DOMAIN Current[cursor.list]
    BY <2>1 DEF Layout, Here, CursorOK, Active
  <2>3. /\ cursor' \in Positions /\ cursor'.list = cursor.list
        /\ cursor'.block \in DOMAIN Current[cursor.list] /\ cursor.list # "case"
    <3>1. Current[cursor.list] \in Seq(Seq(Step)) /\ cursor.list \in Lists
      BY <1>1, <2>2, ProgramTypes DEF Positions
    <3>2. cursor' = At(cursor.list, cursor.block + 1, 1)
          /\ cursor.block < Len(Current[cursor.list]) /\ cursor.list # "case"
      BY <1>5 DEF NextBlock, InDummy
    <3> QED
      BY <2>2, <3>1, <3>2 DEF At, Positions
  <2>4. Here'
    BY <1>2, <2>1, <2>3 DEF Layout, Here, InSet
  <2>5. Tables'
    BY <1>3, <2>1 DEF Layout, Tables, InSet
  <2>6. CursorOK'
    BY <1>3, <2>1, <2>3 DEF Layout, CursorOK, Active, AtStep, In
  <2> QED
    BY <2>4, <2>5, <2>6 DEF Layout
<1>6. CASE BeginPostRebootSteps
  <2>1. /\ pc = "rebooted" /\ pc' = "walk" /\ UNCHANGED <<case, verdict, res>>
        /\ outer' = cursor /\ cursor.list = "case" /\ DOMAIN went' = AllPlaces
    BY <1>6 DEF BeginPostRebootSteps, PostRebootSteps, EnterList
  <2>2. cursor \in Positions /\ cursor \in Spots /\ cursor.block = case
    BY <2>1 DEF Layout, Here, CursorOK, AtStep, Active, In
  <2>3. /\ cursor' \in Positions /\ cursor'.list = "reboot"
        /\ cursor'.block \in DOMAIN Current["reboot"]
    BY <1>1, <1>4, <1>6, EnterListLayout DEF BeginPostRebootSteps,
       PostRebootSteps
  <2>4. Here'
    BY <1>2, <2>1, <2>2, <2>3 DEF Layout, Here, InSet, PC
  <2>5. Tables'
    BY <1>1, <1>3, <2>1, SpotIs DEF Layout, Tables, InSet
  <2>6. CursorOK'
    BY <1>3, <2>1, <2>2, <2>3 DEF CursorOK, Active, AtStep, In
  <2> QED
    BY <2>4, <2>5, <2>6 DEF Layout
<1>7. CASE PostRebootStepsDone
  <2>1. /\ pc = "walk" /\ pc' = "judge" /\ cursor.list = "reboot" /\ cursor' = outer
        /\ UNCHANGED <<case, outer, verdict, res, went>>
    BY <1>7 DEF PostRebootStepsDone, WalkDone, results, history, observed
  <2>2. outer \in Positions /\ outer \in Spots /\ outer.list = "case" /\ outer.block = case
    BY <2>1 DEF Layout, Here, CursorOK, Active, In
  <2>3. outer.block \in DOMAIN Current[outer.list]
    BY <1>1, <2>2, SpotIs
  <2>4. Here'
    BY <1>2, <2>1 DEF Layout, Here, InSet, PC
  <2>5. Tables'
    BY <1>3, <2>1 DEF Layout, Tables, InSet
  <2>6. CursorOK'
    BY <1>3, <2>1, <2>2, <2>3 DEF CursorOK, Active, AtStep, In
  <2> QED
    BY <2>4, <2>5, <2>6 DEF Layout
<1>8. CASE SkipCase
  <2>1. /\ pc = "case" /\ pc' = "case" /\ case <= Cases /\ case' = case + 1
        /\ UNCHANGED <<cursor, outer, res, went>>
        /\ verdict' \in {verdict, [verdict EXCEPT ![case] = "N/A"]}
    BY <1>8 DEF SkipCase, MoreCases, Cases, history, observed
  <2>4. Here'
    BY <1>1, <1>2, <2>1 DEF Layout, Here, InSet, PC
  <2>5. Tables'
    BY <1>1, <1>3, <2>1 DEF Layout, Tables, InSet, Verdicts
  <2>6. CursorOK'
    BY <2>1 DEF CursorOK, Active, AtStep, In
  <2> QED
    BY <2>4, <2>5, <2>6 DEF Layout
<1>9. CASE BeginCase
  <2>1. /\ pc = "case" /\ pc' = "walk" /\ case <= Cases
        /\ cursor' = At("case", case, 1)
        /\ UNCHANGED <<case, outer, res, went>>
    BY <1>9 DEF BeginCase, MoreCases, Cases
  <2>2. verdict' \in {[verdict EXCEPT ![case] = "N/A"], [verdict EXCEPT ![case] = "PASS"]}
    BY <1>9 DEF BeginCase
  <2>3. cursor' \in Positions /\ cursor'.list = "case" /\ cursor'.block = case
    BY <1>1, <1>4, <2>1 DEF At, Positions
  <2>4. Here'
    BY <1>1, <1>2, <2>1, <2>3 DEF Layout, Here, InSet, PC
  <2>5. Tables'
    BY <1>1, <1>3, <2>1, <2>2 DEF Layout, Tables, InSet, Verdicts
  <2>6. CursorOK'
    <3>1. case \in DOMAIN Current["case"]
      BY <1>1, <2>1
    <3> QED
      BY <1>3, <2>1, <2>3, <3>1 DEF CursorOK, Active, AtStep, In
  <2> QED
    BY <2>4, <2>5, <2>6 DEF Layout
<1>10. CASE CaseEnds
  <2>1. /\ pc = "case_gets" /\ pc' = "case" /\ case <= Cases /\ case' = case + 1
        /\ UNCHANGED <<cursor, outer, res, went>>
    BY <1>10 DEF CaseEnds, Layout, CursorOK
  <2>2. verdict' \in {verdict, [verdict EXCEPT ![case] = "FAIL"]}
    BY <1>10 DEF CaseEnds, MeasurementsOf
  <2>4. Here'
    BY <1>1, <1>2, <2>1 DEF Layout, Here, InSet, PC
  <2>5. Tables'
    BY <1>1, <1>3, <2>1, <2>2 DEF Layout, Tables, InSet, Verdicts
  <2>6. CursorOK'
    BY <2>1 DEF CursorOK, Active, AtStep, In
  <2> QED
    BY <2>4, <2>5, <2>6 DEF Layout
<1>11. CASE Len(Current.post) > 0 /\ PostSteps
  <2>1. /\ pc = "post" /\ EnterList("post")
        /\ UNCHANGED <<case, outer, verdict, res, went>>
    BY <1>11 DEF PostSteps, history, observed
  <2>2. /\ cursor' \in Positions /\ cursor'.list = "post" /\ pc' = "walk"
        /\ cursor'.block \in DOMAIN Current["post"]
    BY <1>1, <1>4, <1>11, <2>1, EnterListLayout
  <2>3. case = Cases + 1
    BY <2>1 DEF Layout, CursorOK
  <2>4. Here'
    BY <1>2, <2>1, <2>2 DEF Layout, Here, InSet, PC
  <2>5. Tables'
    BY <1>3, <2>1, <2>2 DEF Layout, Tables, InSet
  <2>6. CursorOK'
    BY <1>3, <2>1, <2>2, <2>3 DEF CursorOK, Active, AtStep, In
  <2> QED
    BY <2>4, <2>5, <2>6 DEF Layout
<1> QED
  BY <1>5, <1>6, <1>7, <1>8, <1>9, <1>10, <1>11

\* Where the actions of Next can be taken.
LEMMA ActionsInSet ==
  /\ StepActions => InSet
  /\ SetActions => InSet \/ ExcludeSet \/ EnterSet \/ EndRun
  /\ Conductor => InSet
<1> USE DEF InSet, Walking, WalkDone, LastBlockDone, MoreCases
<1>1. StepActions => InSet
  BY DEF StepActions, BailOutStep, EmptyStep, ManualStep, BeginStep, CommandEnds,
         ExpectedRebootBegins, ExpectedRebootMissed, RebootFails, Rebooted,
         BeginPostRebootSteps, PostRebootStepsDone, JudgeReboot
<1>2. SetActions => InSet \/ ExcludeSet \/ EnterSet \/ EndRun
  BY DEF SetActions, NextBlock, PreStepsPass, AbortSet, SkipCase, BeginCase,
         CaseWalked, CaseEnds, CasesDone, PostSteps, PostStepsDone, SetGets,
         RestoreBailOut, WriteSet
<1>3. Conductor => InSet
  BY DEF Conductor, ConfirmReboot, ResumeRun
<1> QED
  BY <1>1, <1>2, <1>3

\* Layout is kept by every action.
LEMMA LayoutStep == Layout /\ [Next]_vars => Layout'
<1> SUFFICES ASSUME Layout, [Next]_vars PROVE Layout'
  OBVIOUS
<1>1. CASE InSet /\ ~WriteSet
  <2>1. CASE StepActions
    BY <1>1, <2>1, EndOfStep, EndOfStepLayout, CursorStays, StaysLayout,
       CursorMoves
       DEF StepActions
  <2>2. CASE SetActions
    <3>1. ~ExcludeSet /\ ~EnterSet /\ ~EndRun
      BY <1>1 DEF InSet, ExcludeSet, EnterSet, EndRun
    <3>2. PostSteps => pc' = "gets" \/ Len(Current.post) > 0
      BY DEF PostSteps
    <3>3. CASE \/ PreStepsPass \/ AbortSet \/ CaseWalked \/ CasesDone
               \/ pc' = "gets" /\ (PostSteps \/ PostStepsDone)
               \/ SetGets \/ RestoreBailOut
      BY <1>1, <3>3, CursorStays, StaysLayout
    <3>4. CASE \/ NextBlock \/ SkipCase \/ BeginCase \/ CaseEnds
               \/ Len(Current.post) > 0 /\ PostSteps
      BY <1>1, <3>4, CursorMoves
    <3>5. PostStepsDone => pc' = "gets"
      BY DEF PostStepsDone
    <3> QED
      BY <1>1, <2>2, <3>1, <3>2, <3>3, <3>4, <3>5 DEF SetActions
  <2>3. CASE Conductor \/ Interrupt(2) \/ Interrupt(15) \/ UNCHANGED vars
    BY <1>1, <2>3, CursorStays, StaysLayout DEF Conductor
  <2> QED
    BY <2>1, <2>2, <2>3 DEF Next, Runner
<1>2. CASE ~InSet \/ WriteSet
  <2>1. CASE UNCHANGED vars
    <3>1. CASE InSet
      BY <2>1, <3>1, CursorStays, StaysLayout
    <3>2. CASE ~InSet
      BY <2>1, <3>2, BetweenSetsLayout DEF vars, position, Layout, Here, InSet
    <3> QED
      BY <3>1, <3>2
  <2>2. CASE WriteSet
    <3>1. set \in 1..Len(plan) /\ Len(plan) \in Nat
      BY <2>2, InSetTypes, TestRunAssumption DEF Layout, Here, WriteSet, InSet
    <3> QED
      BY <2>2, <3>1, BetweenSetsLayout DEF WriteSet
  <2>3. CASE ExcludeSet
    <3>1. Len(plan) \in Nat /\ set \in 1..Len(plan)
      BY <2>3, TestRunAssumption DEF Layout, Here, ExcludeSet
    <3> QED
      BY <2>3, <3>1, BetweenSetsLayout DEF ExcludeSet
  <2>4. CASE EndRun
    BY <2>4, BetweenSetsLayout DEF Layout, Here, EndRun
  <2>5. CASE EnterSet
    BY <2>5, EnterSetLayout
  <2>6. ASSUME NEW sig, Interrupt(sig), ~InSet PROVE Layout'
    BY <2>6, BetweenSetsLayout DEF Interrupt, InSet, Layout, Here
  <2> QED
    BY <1>2, <2>1, <2>2, <2>3, <2>4, <2>5, <2>6, ActionsInSet, CursorStays,
       StaysLayout
       DEF Next, Runner
<1> QED
  BY <1>1, <1>2

\* The position of the run is always a position in its plan.
THEOREM LayoutInvariant == Spec => []Layout
<1>1. Init => Layout
  BY LayoutInit
<1>2. Layout /\ [Next]_vars => Layout'
  BY LayoutStep
<1> QED
  BY <1>1, <1>2, PTL DEF Spec

-----------------------------------------------------------------------------
(* What the end of a step means for the verdict and the walk.               *)

\* A step ends with verdict v, went as w, and the walk goes on or not. A step
\* that is not run (w = "none") is one of a run that bails out; one that fails
\* ends the walk unless the run bails out.
StepEndsAs(v, w, on) ==
  /\ Active /\ pc' = "walk" /\ cursor.step <= Len(Block)
  /\ UNCHANGED <<plan, set, case, outer, filtered, unmeasured, tainted>>
  /\ Walk(on) /\ Judge(v)
  /\ v = "PASS" <=> Well(w)
  /\ v = "PASS" => on
  /\ v # "PASS" => ~on \/ bail_out' # 0
  /\ IF w = "none" THEN pc = "walk" /\ bail_out # 0 /\ went' = went
     ELSE (AtStep \/ bail_out = 0) /\ Mark(cursor, w)

\* Some step ends in some way.
Marks == {"good", "unrun", "bad", "none"}
StepEndsSomehow ==
  \E v \in Verdicts, w \in Marks, on \in BOOLEAN : StepEndsAs(v, w, on)

\* All actions that end a step end it in such a way: what is judged PASS went
\* well, post reboot steps included, and nothing else did.
LEMMA StepOutcome ==
  ASSUME Layout, RebootWalk,
         \/ BailOutStep
         \/ EmptyStep
         \/ \E v \in Verdicts : ManualStep(v)
         \/ \E o \in Returns : CommandEnds(o)
         \/ \E o \in Returns : ExpectedRebootMissed(o)
         \/ RebootFails
         \/ Rebooted
         \/ JudgeReboot
  PROVE  StepEndsSomehow
<1> USE DEF StepEndsAs, StepEndsSomehow, Active, AtStep, Verdicts, Well, Marks
<1>a. AtStep => cursor.step <= Len(Block)
  <2>1. AtStep => cursor \in Spots /\ InSet
    BY DEF Layout, CursorOK, InSet
  <2> QED
    BY <2>1, InSetTypes, SpotIs DEF Layout, Block
<1>1. CASE BailOutStep
  <2>0. bail_out' # 0
    BY <1>1 DEF BailOutStep, BailingOut, BailOutAfter, REMOTE_FAIL
  <2>1. StepEndsAs("FAIL", "none", TRUE)
    BY <1>1, <2>0 DEF BailOutStep, Walking, BailingOut, history, observed
  <2> QED
    BY <2>1
<1>2. ASSUME NEW v \in Verdicts, ManualStep(v) PROVE StepEndsSomehow
  <2>1. CASE InDummy
    <3>1. StepEndsAs("PASS", "unrun", TRUE)
      BY <1>2, <2>1 DEF ManualStep, Judge, Walking, BailingOut
    <3> QED
      BY <3>1
  <2>2. CASE ~InDummy
    <3>1. StepEndsAs(v, IF v = "PASS" THEN "good" ELSE "bad", v = "PASS")
      BY <1>2, <2>2 DEF ManualStep, Walking, BailingOut
    <3>2. (IF v = "PASS" THEN "good" ELSE "bad") \in Marks
          /\ (v = "PASS") \in BOOLEAN
      OBVIOUS
    <3> QED
      BY <3>1, <3>2
  <2> QED
    BY <2>1, <2>2
<1>3. ASSUME NEW o, NEW code, NEW w, Conclude(o, code), AtStep, pc' = "walk",
             Mark(cursor, w),
             w = Went(o, code) \/ (Went(o, code) = "good" /\ w = "unrun"),
             UNCHANGED <<plan, set, case, outer, filtered, unmeasured, tainted>>
      PROVE  StepEndsSomehow
  <2>1. CASE ~Ignored /\ Failed(o, code)
    <3>1. StepEndsAs("FAIL", "bad", FALSE)
      BY <1>a, <1>3, <2>1 DEF Conclude, Went, Failed
    <3> QED
      BY <3>1
  <2>2. CASE ~(~Ignored /\ Failed(o, code))
    <3>1. StepEndsAs("PASS", w, TRUE)
      BY <1>a, <1>3, <2>2 DEF Conclude, Went, Failed
    <3>2. w \in Marks
      BY <1>3 DEF Went
    <3> QED
      BY <3>1, <3>2
  <2> QED
    BY <2>1, <2>2
<1>4. ASSUME NEW o \in Returns, CommandEnds(o) PROVE StepEndsSomehow
  <2>1. CommandWent(o) = Went(o, o.code)
        \/ (Went(o, o.code) = "good" /\ CommandWent(o) = "unrun")
    BY DEF CommandWent
  <2> QED
    BY <1>3, <1>4, <2>1 DEF CommandEnds
<1>5. ASSUME NEW o \in Returns, ExpectedRebootMissed(o) PROVE StepEndsSomehow
  <2>1. StepEndsAs("FAIL", "bad", FALSE)
    BY <1>a, <1>5 DEF ExpectedRebootMissed
  <2> QED
    BY <2>1
<1>6. CASE RebootFails
  <2>0. bail_out' # 0
    BY <1>6 DEF RebootFails, REMOTE_FAIL
  <2>1. StepEndsAs("FAIL", "bad", TRUE)
    BY <1>a, <1>6, <2>0 DEF RebootFails
  <2> QED
    BY <2>1
<1>7. ASSUME RebootSucceeds, AtStep, pc' = "walk", Mark(cursor, RebootWent),
             UNCHANGED <<plan, set, case, outer, filtered, unmeasured, tainted>>
      PROVE  StepEndsSomehow
  <2>1. CASE Atomic.kind = "reboot"
    <3>1. StepEndsAs("PASS", "good", TRUE)
      BY <1>a, <1>7, <2>1 DEF RebootSucceeds, RebootWent, Judge
    <3> QED
      BY <3>1
  <2>2. CASE Atomic.kind # "reboot"
    BY <1>3, <1>7, <2>2 DEF RebootSucceeds, RebootWent
  <2> QED
    BY <2>1, <2>2
<1>8. CASE Rebooted
  BY <1>7, <1>8 DEF Rebooted
<1>9. CASE JudgeReboot
  <2>1. plan \in Plans /\ set \in 1..Len(plan)
    BY <1>9, InSetTypes DEF Layout, InSet, JudgeReboot
  <2>2. dummy = "PASS" <=> \A a \in Places("reboot") : Well(went[a])
    BY <1>9, <2>1, SpotIs DEF RebootWalk, Passed, JudgeReboot
  <2>3. CASE dummy = "PASS"
    BY <1>7, <1>9, <2>2, <2>3 DEF JudgeReboot, RebootStepsWent
  <2>4. CASE dummy # "PASS"
    <3>1. StepEndsAs("FAIL", "bad", FALSE)
      BY <1>a, <1>9, <2>2, <2>4 DEF JudgeReboot, RebootStepsWent
    <3> QED
      BY <3>1
  <2> QED
    BY <2>3, <2>4
<1>10. CASE EmptyStep
  <2>1. StepEndsAs("PASS", "unrun", TRUE)
    BY <1>10 DEF EmptyStep, Walking, BailingOut
  <2> QED
    BY <2>1
<1> QED
  BY <1>1, <1>2, <1>4, <1>5, <1>6, <1>8, <1>9, <1>10

\* The end of a step keeps Earned.
LEMMA EndOfStepEarned ==
  ASSUME Layout, Layout', Earned, StepEndsSomehow
  PROVE  Earned'
<1>1. PICK v \in Verdicts, w \in Marks, on \in BOOLEAN :
        StepEndsAs(v, w, on)
  BY DEF StepEndsSomehow
<1>2. Active /\ Walk(on)
  BY <1>1 DEF StepEndsAs
<1>3. /\ cursor' \in Positions /\ cursor'.list = cursor.list
      /\ cursor'.block = cursor.block
      /\ cursor'.step = IF on THEN cursor.step + 1 ELSE Len(Block) + 1
  BY <1>2, WalkMoves
<1>4. /\ plan' = plan /\ set' = set /\ case' = case /\ outer' = outer
      /\ unmeasured' = unmeasured /\ pc' = "walk"
  BY <1>1 DEF StepEndsAs
<1>5. Spots' = Spots /\ Cases' = Cases /\ Current' = Current
  BY <1>4, SameSet
<1>6. InSet /\ InSet' /\ pc # "case_gets" /\ Active'
  BY <1>2, <1>4 DEF Active, AtStep, InSet
<1>7. /\ plan \in Plans /\ set \in 1..Len(plan)
      /\ Cases \in Nat /\ DOMAIN Current.case = 1..Cases
  BY <1>6, InSetTypes DEF Layout
<1>8. /\ verdict \in [1..Cases -> Verdicts] /\ case \in Nat
      /\ DOMAIN res = Spots /\ DOMAIN went = Spots /\ cursor \in Positions
      /\ DOMAIN res' = Spots /\ DOMAIN went' = Spots
  BY <1>5, <1>6 DEF Layout, Tables, Here
<1>9. /\ Len(Block) \in Nat /\ cursor.step <= Len(Block) /\ cursor \in Spots
      /\ cursor.step \in Nat /\ cursor.block \in Nat /\ cursor.list \in Lists
  <2>1. cursor.block \in DOMAIN Current[cursor.list]
    BY <1>2 DEF Layout, CursorOK
  <2>2. Len(Block) \in Nat /\ cursor.step <= Len(Block)
    BY <1>1, <1>7, <1>8, <2>1, BlockTypes DEF StepEndsAs, Block, Positions
  <2>3. cursor \in Spots
    BY <1>7, <1>8, <2>1, <2>2, SpotIs DEF Block
  <2> QED
    BY <1>8, <2>2, <2>3 DEF Positions
<1>10. \A a \in Spots : a \in Positions /\ a.list \in Lists
                        /\ a.block \in Nat /\ a.step \in Nat
  BY <1>7, SpotIs DEF Positions
<1>11. \A a, b \in Spots :
         a.list = b.list /\ a.block = b.block /\ a.step = b.step => a = b
  BY <1>10 DEF Positions
<1>12. \A a \in Spots : went'[a] = IF a = cursor /\ w # "none" THEN w ELSE went[a]
  BY <1>1, <1>8 DEF StepEndsAs, Mark
<1>13. \A a \in Spots : a.list = cursor.list /\ a.block = cursor.block => a.step <= Len(Block)
  BY <1>7, SpotIs DEF Block
<1>c. CASE cursor.list = "case"
  <2>1. cursor.block = case /\ CaseWalk /\ CaseOpen /\ CaseWalk' /\ CaseOpen'
        /\ Anchor = cursor /\ Anchor' = cursor'
    BY <1>2, <1>3, <1>4, <1>6, <1>c
       DEF Layout, CursorOK, In, CaseWalk, CaseOpen, Active, AtStep, Anchor
  <2>2. case \in 1..Cases /\ Len(Current.case[case]) = Len(Block)
    BY <1>2, <1>7, <1>c, <2>1 DEF Layout, CursorOK, Block
  <2>3. verdict'[case] = IF v = "PASS" THEN verdict[case] ELSE v
    BY <1>1, <1>8, <1>c, <2>1, <2>2 DEF StepEndsAs, Judge, InDummy
  <2>4. \A j \in 1..Cases : j # case => verdict'[j] = verdict[j]
    BY <1>1, <1>8, <1>c, <2>1, <2>2 DEF StepEndsAs, Judge, InDummy
  <2>5. went[cursor] = "none"
    BY <1>6, <1>9, <1>c, <2>1 DEF Earned, AheadIsUntouched
  <2>6. w # "none" => verdict[case] = "PASS"
    BY <1>1, <1>9, <2>1, <2>2 DEF StepEndsAs, Earned, StillPassing, AtStep
  <2>7. \A a \in Spots : a.list = "case" /\ a.block = case =>
          (Reached(a) <=> a.step < cursor.step) /\ (Reached(a)' <=> a.step < cursor'.step)
    BY <1>4, <1>6, <2>1 DEF Reached
  <2>8. AheadIsUntouched'
    BY <1>3, <1>4, <1>5, <1>6, <1>8, <1>9, <1>10, <1>12, <2>1 DEF Earned,
       AheadIsUntouched
  <2>9. OpenVerdict'
    <3>1. StepsOf(case) = {a \in Spots : a.list = "case" /\ a.block = case}
          /\ StepsOf(case)' = {a \in Spots : a.list = "case" /\ a.block = case}
      BY <1>4, <1>8 DEF StepsOf
    <3>2. verdict[case] = "PASS" <=>
            \A a \in Spots : a.list = "case" /\ a.block = case /\ a.step < cursor.step
              => Well(went[a])
      BY <1>9, <1>c, <2>1, <2>7, <3>1 DEF Earned, OpenVerdict
    <3>3. verdict'[case] = "PASS" <=>
            \A a \in Spots : a.list = "case" /\ a.block = case /\ a.step < cursor'.step
              => Well(went'[a])
      <4>1. CASE v = "PASS"
        <5>1. on /\ Well(w)
          BY <1>1, <4>1 DEF StepEndsAs
        <5>2. \A a \in Spots : a.list = "case" /\ a.block = case =>
                (a.step < cursor'.step <=> a.step < cursor.step \/ a = cursor)
          BY <1>3, <1>9, <1>10, <1>11, <1>c, <2>1, <5>1
        <5> QED
          BY <1>9, <1>12, <2>3, <3>2, <4>1, <5>1, <5>2 DEF Well
      <4>2. CASE v # "PASS"
        <5>1. ~Well(w) /\ cursor.step < cursor'.step
          BY <1>1, <1>3, <1>9, <4>2 DEF StepEndsAs
        <5> QED
          BY <1>9, <1>12, <1>c, <2>1, <2>3, <2>5, <4>2, <5>1
      <4> QED
        BY <4>1, <4>2
    <3>4. StepsOf(case) # {}
      BY <1>9, <1>c, <2>1, <3>1
    <3> QED
      BY <1>4, <2>7, <3>1, <3>3, <3>4 DEF OpenVerdict
  <2>10. StillPassing'
    <3>1. SUFFICES ASSUME cursor'.step <= Len(Block), bail_out' = 0
                   PROVE  verdict'[case] = "PASS"
      BY <1>3, <1>4, <1>5, <1>c, <2>1, <2>2 DEF StillPassing
    <3>2. on
      BY <1>3, <1>9, <3>1
    <3>3. v = "PASS" /\ Well(w)
      BY <1>1, <3>1, <3>2 DEF StepEndsAs
    <3> QED
      BY <2>3, <2>6, <3>3 DEF Well
  <2>11. RebootWalk'
    BY <1>3, <1>4, <1>c DEF RebootWalk, In
  <2>12. PassIsEarned'
    <3>1. SUFFICES ASSUME NEW j \in Finished', Current.state[j] = "run"
                   PROVE  (verdict'[j] = "PASS" <=> /\ StepsOf(j)' # {}
                                                  /\ \A a \in StepsOf(j)' : Well(went'[a])
                                                  /\ j \notin unmeasured')
      BY <1>5 DEF PassIsEarned
    <3>2. j \in 1..Cases /\ j < case /\ j \in Finished
      <4>1. verdict' \in [1..Cases -> Verdicts]
        BY <1>5, <1>6 DEF Layout, Tables
      <4> QED
        BY <1>4, <1>6, <1>8, <4>1 DEF Finished, InSet
    <3>3. verdict'[j] = verdict[j] /\ StepsOf(j)' = StepsOf(j)
      BY <1>8, <2>4, <3>2 DEF StepsOf
    <3>4. \A a \in StepsOf(j) : went'[a] = went[a]
      BY <1>8, <1>12, <2>1, <3>2 DEF StepsOf
    <3> QED
      BY <1>4, <3>1, <3>2, <3>3, <3>4 DEF Earned, PassIsEarned
  <2>13. FailureEndsCase'
    <3>1. SUFFICES ASSUME NEW a \in Spots, NEW b \in Spots,
                          a.list = "case", b.list = "case", a.block = b.block,
                          a.step < b.step, went'[b] # "none"
                   PROVE  Well(went'[a])
      BY <1>8 DEF FailureEndsCase
    <3>2. CASE b = cursor /\ w # "none"
      <4>1. Well(went[a])
        BY <1>6, <1>8, <1>c, <2>1, <2>6, <2>7, <3>1, <3>2 DEF Earned,
           OpenVerdict, StepsOf
      <4> QED
        BY <1>9, <1>12, <3>1, <3>2, <4>1
    <3>3. CASE ~(b = cursor /\ w # "none")
      <4>1. went[b] # "none"
        BY <1>12, <3>1, <3>3
      <4>2. Well(went[a])
        BY <1>6, <1>8, <3>1, <4>1 DEF Earned, FailureEndsCase
      <4>3. a # cursor
        BY <2>5, <4>2 DEF Well
      <4> QED
        BY <1>12, <4>2, <4>3
    <3> QED
      BY <3>2, <3>3
  <2> QED
    BY <1>4, <1>6, <2>8, <2>9, <2>10, <2>11, <2>12, <2>13 DEF Earned,
       MeasuredCases
<1>d. CASE cursor.list # "case"
  <2>1. verdict' = verdict /\ pc # "judge"
    BY <1>1, <1>d DEF StepEndsAs, Judge, InDummy, Layout, CursorOK
  <2>2. \A a \in Spots : a.list = "case" => went'[a] = went[a]
    BY <1>12, <1>d
  <2>3. (CaseWalk' <=> CaseWalk) /\ (CaseOpen' <=> CaseOpen)
        /\ (CaseOpen => CaseWalk /\ cursor.list = "reboot" /\ Anchor' = Anchor)
    BY <1>2, <1>3, <1>4, <1>6, <1>d DEF CaseWalk, CaseOpen, Active, AtStep,
                                        Anchor
  <2>4. \A a \in Spots : CaseOpen => (Reached(a) <=> Reached(a)')
    BY <1>4, <1>6, <2>3 DEF Reached
  <2>5. StepsOf(case)' = StepsOf(case) /\ \A j : StepsOf(j)' = StepsOf(j)
    BY <1>4, <1>8 DEF StepsOf
  <2>6. AheadIsUntouched'
    BY <1>4, <1>5, <1>6, <2>2, <2>3 DEF Earned, AheadIsUntouched, CaseOpen,
                                        CaseWalk
  <2>7. OpenVerdict'
    <3>1. SUFFICES ASSUME CaseOpen PROVE OpenVerdict'
      BY <2>3 DEF OpenVerdict
    <3>2. \A a \in StepsOf(case) : a \in Spots /\ went'[a] = went[a]
      BY <1>8, <2>2 DEF StepsOf
    <3> QED
      BY <1>4, <2>1, <2>3, <2>4, <2>5, <3>1, <3>2 DEF Earned, OpenVerdict
  <2>8. StillPassing'
    BY <1>3, <1>4, <1>5, <1>6, <1>d, <2>1, <2>3
       DEF Earned, StillPassing, CaseOpen, CaseWalk
  <2>9. RebootWalk'
    <3>1. SUFFICES ASSUME cursor.list = "reboot" PROVE RebootWalk'
      BY <1>3, <1>4 DEF RebootWalk, In
    <3>2. /\ dummy = "PASS" <=>
               \A a \in Spots : a.list = "reboot" /\ Passed(a) => Well(went[a])
          /\ \A a \in Spots : a.list = "reboot" /\ ~Passed(a) => went[a] = "none"
      BY <1>2, <3>1 DEF Earned, RebootWalk, In
    <3>3. dummy' = IF v = "PASS" THEN dummy ELSE v
      BY <1>1, <1>d DEF StepEndsAs, Judge, InDummy
    <3>4. ASSUME NEW a
          PROVE  /\ Passed(a) <=> \/ a.block < cursor.block
                                  \/ a.block = cursor.block /\ a.step < cursor.step
                 /\ Passed(a)' <=> \/ a.block < cursor.block
                                   \/ a.block = cursor.block /\ a.step < cursor'.step
      BY <1>3, <1>4, <2>1 DEF Passed
    <3>5. cursor.step < cursor'.step /\ went[cursor] = "none"
      BY <1>3, <1>9, <3>1, <3>2, <3>4
    <3>6. \A a \in Spots : a.list = "reboot" /\ ~Passed(a)' => went'[a] = "none"
      BY <1>3, <1>9, <1>10, <1>12, <3>2, <3>4, <3>5 DEF Positions
    <3>7. dummy' = "PASS" <=>
            \A a \in Spots : a.list = "reboot" /\ Passed(a)' => Well(went'[a])
      <4>1. CASE v = "PASS"
        <5>1. on /\ Well(w)
          BY <1>1, <4>1 DEF StepEndsAs
        <5>2. \A a \in Spots : a.list = "reboot" => (Passed(a)' <=> Passed(a) \/ a = cursor)
          BY <1>3, <1>9, <1>10, <1>11, <3>1, <3>4, <5>1
        <5>3. \A a \in Spots : Passed(a) => a # cursor
          BY <1>9, <3>4
        <5> QED
          BY <1>12, <3>2, <3>3, <4>1, <5>1, <5>2, <5>3
      <4>2. CASE v # "PASS"
        <5>1. ~Well(w)
          BY <1>1, <4>2 DEF StepEndsAs
        <5>2. PICK c \in Spots : c = cursor
          BY <1>9
        <5>3. Passed(c)' /\ ~Well(went'[c])
          BY <1>9, <1>12, <3>4, <3>5, <5>1, <5>2
        <5> QED
          BY <3>1, <3>3, <4>2, <5>2, <5>3
      <4> QED
        BY <4>1, <4>2
    <3> QED
      BY <1>5, <3>6, <3>7 DEF RebootWalk
  <2>10. PassIsEarned'
    <3>1. Finished' = Finished
      BY <1>4, <1>6, <2>1 DEF Finished, InSet
    <3>2. \A j : \A a \in StepsOf(j) : went'[a] = went[a]
      BY <1>8, <2>2 DEF StepsOf
    <3> QED
      BY <1>4, <1>5, <2>1, <2>5, <3>1, <3>2 DEF Earned, PassIsEarned
  <2>11. FailureEndsCase'
    BY <1>6, <1>8, <2>2 DEF Earned, FailureEndsCase
  <2> QED
    BY <1>4, <1>6, <2>6, <2>7, <2>8, <2>9, <2>10, <2>11 DEF Earned,
       MeasuredCases
<1> QED
  BY <1>c, <1>d

\* The steps of the processor that neither run nor judge anything.
Quiet ==
  /\ InSet /\ InSet'
  /\ UNCHANGED <<plan, set, case, verdict, went, unmeasured>>
  /\ DOMAIN res' = DOMAIN res
  /\ CaseOpen \/ pc = "judge" => UNCHANGED <<cursor, outer>>
  /\ CaseWalk' <=> CaseWalk
  /\ CaseOpen' <=> CaseOpen
  /\ In("reboot")' <=> In("reboot")
  /\ pc' = "judge" <=> pc = "judge"
  /\ pc' = "case_gets" <=> pc = "case_gets"
  /\ In("reboot") \/ pc = "judge" => dummy' = dummy
  /\ CaseWalk /\ (bail_out' = 0 \/ pc' # "walk") => bail_out = 0 \/ pc # "walk"

\* The quiet steps keep Earned.
LEMMA QuietEarned ==
  ASSUME Earned, Quiet
  PROVE  Earned'
<1>1. Current' = Current /\ Spots' = Spots /\ Cases' = Cases
  BY SameSet DEF Quiet
<1>2. AheadIsUntouched'
  BY <1>1 DEF Earned, Quiet, AheadIsUntouched, Anchor, CaseWalk, CaseOpen,
              Active, AtStep
<1>3. \A j : StepsOf(j)' = StepsOf(j)
  BY DEF Quiet, StepsOf
<1>4. OpenVerdict'
  <2>1. ASSUME CaseOpen, NEW a PROVE Reached(a)' <=> Reached(a)
    BY <2>1 DEF Quiet, Reached, Anchor
  <2> QED
    BY <1>1, <1>3, <2>1 DEF Earned, Quiet, OpenVerdict
<1>5. StillPassing'
  BY <1>1 DEF Earned, Quiet, StillPassing, Anchor, CaseWalk, CaseOpen, Active,
              AtStep
<1>6. MeasuredCases'
  BY DEF Earned, Quiet, MeasuredCases
<1>7. RebootWalk'
  <2>1. ASSUME In("reboot") \/ pc = "judge", NEW a PROVE Passed(a)' <=> Passed(a)
    BY <2>1 DEF Quiet, Passed, In, CaseOpen, Active, AtStep
  <2> QED
    BY <1>1, <2>1 DEF Earned, Quiet, RebootWalk
<1>8. PassIsEarned'
  <2>1. Finished' = Finished
    BY DEF Quiet, Finished, InSet
  <2> QED
    BY <1>1, <1>3, <2>1 DEF Earned, Quiet, PassIsEarned
<1>9. FailureEndsCase'
  BY DEF Earned, Quiet, FailureEndsCase
<1> QED
  BY <1>2, <1>4, <1>5, <1>6, <1>7, <1>8, <1>9 DEF Earned, Quiet

\* The actions that are quiet.
LEMMA QuietSteps ==
  ASSUME Layout, InSet,
         \/ UNCHANGED vars
         \/ Interrupt(2) \/ Interrupt(15) \/ ConfirmReboot \/ ResumeRun
         \/ BeginStep \/ \E o \in Returns : ExpectedRebootBegins(o)
         \/ PreStepsPass \/ CasesDone
         \/ PostSteps \/ PostStepsDone
         \/ SetGets \/ RestoreBailOut
         \/ cursor.list # "reboot" /\ NextBlock
  PROVE  Quiet
<1> USE DEF Quiet, position, results, history, observed, InSet, CaseWalk,
            CaseOpen,
            Active, AtStep, In
<1>1. CASE UNCHANGED vars
  BY <1>1 DEF vars
<1>2. ASSUME NEW sig \in {2, 15}, Interrupt(sig) PROVE Quiet
  <2>1. bail_out' = 0 => bail_out = 0
    BY <1>2 DEF Interrupt, RecordInterrupt
  <2> QED
    BY <1>2, <2>1 DEF Interrupt
<1>3. CASE ConfirmReboot
  BY <1>3 DEF ConfirmReboot
<1>4. CASE ResumeRun
  BY <1>4 DEF ResumeRun
<1>5. CASE BeginStep
  BY <1>5 DEF BeginStep, BailingOut, Walking
<1>6. ASSUME NEW o \in Returns, ExpectedRebootBegins(o) PROVE Quiet
  BY <1>6 DEF ExpectedRebootBegins
<1>7. CASE PreStepsPass
  BY <1>7 DEF PreStepsPass, LastBlockDone, WalkDone
<1>8. CASE CasesDone
  BY <1>8 DEF CasesDone
<1>9. CASE PostSteps
  BY <1>9 DEF PostSteps, EnterList, At
<1>10. CASE PostStepsDone
  BY <1>10 DEF PostStepsDone, LastBlockDone, WalkDone
<1>11. CASE SetGets
  BY <1>11 DEF SetGets
<1>12. CASE RestoreBailOut
  BY <1>12 DEF RestoreBailOut
<1>13. CASE cursor.list # "reboot" /\ NextBlock
  BY <1>13 DEF NextBlock, At, InDummy, WalkDone
<1> QED
  BY <1>1, <1>2, <1>3, <1>4, <1>5, <1>6, <1>7, <1>8, <1>9, <1>10, <1>11,
     <1>12, <1>13

\* The finished cases keep what was said of them.
LEMMA PassesKept ==
  ASSUME PassIsEarned, Current' = Current,
         \A j \in Finished' : Current.state[j] = "run" =>
           /\ j \in Finished /\ verdict'[j] = verdict[j] /\ StepsOf(j)' = StepsOf(j)
           /\ \A a \in StepsOf(j) : went'[a] = went[a]
           /\ j \in unmeasured' <=> j \in unmeasured
  PROVE  PassIsEarned'
BY DEF PassIsEarned

\* The steps that open and close a case, and those around a reboot.
LEMMA CaseStepsEarned ==
  ASSUME Layout, Layout', Earned, InSet,
         \/ AbortSet \/ CaseWalked \/ (cursor.list = "reboot" /\ NextBlock)
         \/ BeginPostRebootSteps \/ PostRebootStepsDone
         \/ SkipCase \/ BeginCase \/ CaseEnds
  PROVE  Earned'
<1>1. plan' = plan /\ set' = set /\ InSet'
  BY DEF AbortSet, CaseWalked, NextBlock, BeginPostRebootSteps,
         PostRebootStepsDone,
         SkipCase, BeginCase, CaseEnds, EnterList, InSet
<1>2. Spots' = Spots /\ Cases' = Cases /\ Current' = Current
  BY <1>1, SameSet
<1>3. /\ plan \in Plans /\ set \in 1..Len(plan) /\ Cases \in Nat
      /\ DOMAIN Current.case = 1..Cases
  BY InSetTypes DEF Layout
<1>4. /\ verdict \in [1..Cases -> Verdicts] /\ verdict' \in [1..Cases -> Verdicts]
      /\ case \in Nat \ {0} /\ DOMAIN res = Spots /\ DOMAIN went = Spots
      /\ DOMAIN res' = Spots /\ DOMAIN went' = Spots
  BY <1>1, <1>2 DEF Layout, Tables, Here
<1>5. /\ \A j : StepsOf(j) = {a \in Spots : a.list = "case" /\ a.block = j}
      /\ \A j : StepsOf(j)' = {a \in Spots : a.list = "case" /\ a.block = j}
  BY <1>4 DEF StepsOf
<1>6. \A a \in Spots : a \in Positions /\ a.list \in Lists
                       /\ a.block \in Nat /\ a.step \in Nat /\ a.step > 0
  BY <1>3, SpotIs DEF Positions
<1>7. \A a \in Spots : a.step <= Len(Current[a.list][a.block])
  BY <1>3, SpotIs
<1>8. Finished = {j \in 1..Cases : j < case} /\ Finished' = {j \in 1..Cases : j < case'}
  BY <1>1, <1>4 DEF Finished, InSet
<1>9. PassIsEarned /\ FailureEndsCase /\ AheadIsUntouched /\ MeasuredCases
      /\ RebootWalk /\ OpenVerdict /\ StillPassing
  BY DEF Earned
<1>10. CASE AbortSet
  <2>1. /\ pc = "walk" /\ pc' = "write" /\ cursor.list = "pre" /\ case = 1
        /\ UNCHANGED <<case, went, unmeasured>>
    BY <1>10 DEF AbortSet, LastBlockDone, WalkDone, history, observed,
                 Layout, CursorOK, In, Active
  <2>2. ~CaseOpen /\ ~CaseWalk /\ ~CaseOpen' /\ ~CaseWalk'
    BY <2>1 DEF CaseOpen, CaseWalk, Active, AtStep
  <2>3. Finished' = {}
    BY <1>8, <2>1
  <2> QED
    BY <1>1, <1>2, <1>4, <1>9, <2>1, <2>2, <2>3
       DEF Earned, AheadIsUntouched, OpenVerdict, StillPassing, MeasuredCases,
           RebootWalk, In, Active, AtStep, PassIsEarned, FailureEndsCase
<1>11. CASE CaseWalked
  <2>1. /\ pc = "walk" /\ pc' = "case_gets" /\ cursor.list = "case"
        /\ UNCHANGED <<case, went, unmeasured, verdict, cursor, outer>>
        /\ cursor.step > Len(Block)
    BY <1>11 DEF CaseWalked, WalkDone, history, observed, results
  <2>2. CaseOpen /\ CaseOpen' /\ ~CaseWalk' /\ Anchor = cursor
    BY <2>1 DEF CaseOpen, CaseWalk, Active, AtStep, Anchor
  <2>3. Finished' = Finished
    BY <1>8, <2>1
  <2>4. cursor.block = case /\ Len(Block) = Len(Current["case"][case])
    BY <2>1 DEF Layout, CursorOK, In, Active, Block
  <2>5. cursor.step \in Nat /\ Len(Block) \in Nat
    BY <1>3, <2>1, BlockTypes DEF Layout, Here, Positions, CursorOK, Active,
                                  Block
  <2>6. \A a \in Spots : a.list = "case" /\ a.block = case => Reached(a)
    BY <1>6, <1>7, <2>1, <2>2, <2>4, <2>5 DEF Reached
  <2>7. OpenVerdict'
    <3>1. \A a : Reached(a)'
      BY <2>1 DEF Reached
    <3> QED
      BY <1>5, <1>9, <2>1, <2>2, <2>6, <3>1 DEF OpenVerdict
  <2>8. AheadIsUntouched'
    BY <1>2, <1>9, <2>1, <2>2 DEF AheadIsUntouched, InSet
  <2>9. PassIsEarned'
    BY <1>2, <1>5, <1>9, <2>1, <2>3, PassesKept
  <2> QED
    BY <1>1, <1>4, <1>9, <2>1, <2>2, <2>7, <2>8, <2>9
       DEF Earned, StillPassing, MeasuredCases,
           RebootWalk, In, Active, AtStep, FailureEndsCase
<1>12. CASE cursor.list = "reboot" /\ NextBlock
  <2>1. /\ pc = "walk" /\ pc' = "walk" /\ cursor.step > Len(Block)
        /\ UNCHANGED <<case, went, unmeasured, verdict, outer, dummy>>
        /\ cursor' = At("reboot", cursor.block + 1, 1)
    BY <1>12 DEF NextBlock, WalkDone, history, observed, DummyAfterBlock
  <2>2. cursor'.list = "reboot" /\ cursor'.block = cursor.block + 1 /\ cursor'.step = 1
    BY <2>1 DEF At
  <2>3. /\ (CaseOpen' <=> CaseOpen) /\ (CaseWalk' <=> CaseWalk) /\ Anchor' = Anchor
    BY <1>12, <2>1, <2>2 DEF CaseOpen, CaseWalk, Active, AtStep, Anchor
  <2>4. Finished' = Finished
    BY <1>8, <2>1
  <2>5. \A a : Reached(a)' <=> Reached(a)
    BY <2>1, <2>3 DEF Reached
  <2>6. cursor.step \in Nat /\ cursor.block \in Nat /\ Len(Block) \in Nat
    BY <1>3, <2>1, BlockTypes DEF Layout, Here, Positions, CursorOK, Active,
                                  Block
  <2>7. \A a \in Spots : a.list = "reboot" => (Passed(a)' <=> Passed(a))
    BY <1>6, <1>7, <1>12, <2>1, <2>2, <2>6 DEF Passed, Block
  <2>8. RebootWalk'
    BY <1>2, <1>9, <1>12, <2>1, <2>2, <2>7 DEF RebootWalk, In, Active
  <2>9. PassIsEarned'
    BY <1>2, <1>5, <1>9, <2>1, <2>4, PassesKept
  <2>10. AheadIsUntouched'
    BY <1>1, <1>2, <1>9, <2>1, <2>3 DEF AheadIsUntouched
  <2>11. OpenVerdict'
    BY <1>5, <1>9, <2>1, <2>3, <2>5 DEF OpenVerdict
  <2>12. StillPassing'
    BY <1>2, <1>9, <1>12, <2>1, <2>2, <2>3 DEF StillPassing
  <2> QED
    BY <1>1, <1>4, <1>9, <2>1, <2>8, <2>9, <2>10, <2>11, <2>12
       DEF Earned, MeasuredCases, FailureEndsCase
<1>13. CASE BeginPostRebootSteps
  <2>1. /\ pc = "rebooted" /\ pc' = "walk" /\ cursor.list = "case"
        /\ outer' = cursor /\ cursor' = At("reboot", 1, 1) /\ dummy' = "PASS"
        /\ UNCHANGED <<case, unmeasured, verdict>>
        /\ went' = [a \in AllPlaces |-> IF a.list = "reboot" THEN "none" ELSE went[a]]
    BY <1>13 DEF BeginPostRebootSteps, EnterList, PostRebootSteps
  <2>2. \A a \in Spots : went'[a] = IF a.list = "reboot" THEN "none" ELSE went[a]
    BY <1>3, <2>1, SpotIs
  <2>3. cursor'.list = "reboot" /\ cursor'.block = 1 /\ cursor'.step = 1
    BY <2>1 DEF At
  <2>4. /\ CaseOpen' /\ CaseOpen /\ CaseWalk' /\ CaseWalk
        /\ Anchor' = cursor /\ Anchor = cursor
    BY <2>1, <2>3 DEF CaseOpen, CaseWalk, Active, AtStep, Anchor
  <2>5. Finished' = Finished
    BY <1>8, <2>1
  <2>6. \A a : Reached(a)' <=> Reached(a)
    BY <2>1, <2>4 DEF Reached
  <2>7. \A a \in Spots : a.list = "reboot" => ~Passed(a)'
    <3>1. \A a \in Spots : a.block \in Nat \ {0}
      BY <1>6 DEF Positions
    <3> QED
      BY <1>6, <2>1, <2>3, <3>1 DEF Passed
  <2>8. RebootWalk'
    BY <1>2, <2>1, <2>2, <2>7 DEF RebootWalk
  <2>9. verdict[case] = "PASS"
    <3>1. cursor \in Spots /\ cursor.block = case
      BY <2>1 DEF Layout, CursorOK, In, Active, AtStep
    <3> QED
      BY <1>7, <1>9, <2>1, <2>4, <3>1 DEF StillPassing
  <2>10. AheadIsUntouched'
    BY <1>1, <1>2, <1>9, <2>1, <2>2, <2>4 DEF AheadIsUntouched
  <2>11. OpenVerdict'
    BY <1>5, <1>9, <2>1, <2>2, <2>4, <2>6 DEF OpenVerdict
  <2>12. PassIsEarned'
    BY <1>2, <1>5, <1>9, <2>1, <2>2, <2>5, PassesKept
  <2>13. FailureEndsCase'
    BY <1>4, <1>9, <2>2 DEF FailureEndsCase
  <2> QED
    BY <1>1, <1>9, <2>1, <2>8, <2>9, <2>10, <2>11, <2>12, <2>13
       DEF Earned, StillPassing, MeasuredCases
<1>14. CASE PostRebootStepsDone
  <2>1. /\ pc = "walk" /\ pc' = "judge" /\ cursor.list = "reboot"
        /\ cursor' = outer /\ outer' = outer
        /\ UNCHANGED <<case, unmeasured, verdict, went, dummy>>
        /\ cursor.step > Len(Block) /\ cursor.block = Len(Current.reboot)
    BY <1>14 DEF PostRebootStepsDone, WalkDone, history, observed, results
  <2>2. outer.list = "case" /\ outer.block = case /\ outer \in Spots
    BY <2>1 DEF Layout, CursorOK, In, Active
  <2>3. /\ CaseOpen' /\ CaseOpen /\ CaseWalk' /\ CaseWalk
        /\ Anchor' = outer /\ Anchor = outer
    BY <2>1, <2>2 DEF CaseOpen, CaseWalk, Active, AtStep, Anchor
  <2>4. Finished' = Finished
    BY <1>8, <2>1
  <2>5. \A a : Reached(a)' <=> Reached(a)
    BY <2>1, <2>3 DEF Reached
  <2>6. cursor.step \in Nat /\ cursor.block \in Nat /\ Len(Block) \in Nat
    BY <1>3, <2>1, BlockTypes DEF Layout, Here, Positions, CursorOK, Active,
                                  Block
  <2>7. \A a \in Spots : a.list = "reboot" => Passed(a) /\ Passed(a)'
    <3>1. \A a \in Spots : a.list = "reboot" => a.block <= Len(Current["reboot"])
                                                /\ Len(Current["reboot"]) \in Nat
      BY <1>3, SpotIs, BlockTypes DEF Lists
    <3> QED
      BY <1>6, <1>7, <2>1, <2>6, <3>1 DEF Passed, Block
  <2>8. RebootWalk'
    BY <1>2, <1>9, <2>1, <2>7 DEF RebootWalk, In, Active
  <2>9. verdict[case] = "PASS"
    BY <1>7, <1>9, <2>1, <2>2, <2>3 DEF StillPassing
  <2>10. PassIsEarned'
    BY <1>2, <1>5, <1>9, <2>1, <2>4, PassesKept
  <2>11. AheadIsUntouched'
    BY <1>1, <1>2, <1>9, <2>1, <2>3 DEF AheadIsUntouched
  <2>12. OpenVerdict'
    BY <1>5, <1>9, <2>1, <2>3, <2>5 DEF OpenVerdict
  <2> QED
    BY <1>1, <1>4, <1>9, <2>1, <2>8, <2>9, <2>10, <2>11, <2>12
       DEF Earned, StillPassing, MeasuredCases, FailureEndsCase
<1>15. CASE SkipCase
  <2>1. /\ pc = "case" /\ pc' = "case" /\ case <= Cases /\ case' = case + 1
        /\ UNCHANGED <<unmeasured, went, cursor, outer>> /\ Current.state[case] # "run"
        /\ verdict' \in {verdict, [verdict EXCEPT ![case] = "N/A"]}
    BY <1>15 DEF SkipCase, MoreCases, Cases, history, observed
  <2>2. ~CaseOpen /\ ~CaseWalk /\ ~CaseOpen' /\ ~CaseWalk'
    BY <2>1 DEF CaseOpen, CaseWalk, Active, AtStep
  <2>3. AheadIsUntouched'
    BY <1>1, <1>2, <1>4, <1>6, <1>9, <2>1, <2>2 DEF AheadIsUntouched
  <2>4. MeasuredCases'
    BY <1>1, <1>4, <1>9, <2>1 DEF MeasuredCases
  <2>5. PassIsEarned'
    <3>1. \A j \in Finished' : Current.state[j] = "run" =>
            j \in Finished /\ verdict'[j] = verdict[j]
      BY <1>4, <1>8, <2>1
    <3> QED
      BY <1>2, <1>5, <1>9, <2>1, <3>1, PassesKept
  <2> QED
    BY <1>1, <1>4, <1>9, <2>1, <2>2, <2>3, <2>4, <2>5
       DEF Earned, OpenVerdict, StillPassing, RebootWalk, In, Active, AtStep,
           FailureEndsCase
<1>16. CASE BeginCase
  <2>1. /\ pc = "case" /\ pc' = "walk" /\ case <= Cases /\ case' = case
        /\ UNCHANGED <<unmeasured, went>> /\ cursor' = At("case", case, 1)
        /\ verdict' = [verdict EXCEPT ![case] =
                         IF Current.case[case] = <<>> THEN "N/A" ELSE "PASS"]
    BY <1>16 DEF BeginCase, MoreCases, Cases
  <2>2. cursor'.list = "case" /\ cursor'.block = case /\ cursor'.step = 1
    BY <2>1 DEF At
  <2>3. ~CaseOpen /\ ~CaseWalk /\ CaseOpen' /\ CaseWalk' /\ Anchor' = cursor'
    BY <2>1, <2>2 DEF CaseOpen, CaseWalk, Active, AtStep, Anchor
  <2>4. AheadIsUntouched'
    BY <1>1, <1>2, <1>6, <1>9, <2>1, <2>3 DEF AheadIsUntouched
  <2>5. case \in 1..Cases /\ Current.case[case] \in Seq(Step)
        /\ Len(Current.case[case]) \in Nat
    BY <1>3, <1>4, <2>1, BlockTypes DEF Lists
  <2>6. verdict'[case] = IF Current.case[case] = <<>> THEN "N/A" ELSE "PASS"
    BY <1>4, <2>1, <2>5
  <2>7. \A a : ~(a \in Spots /\ Reached(a)')
    BY <1>6, <2>1, <2>2, <2>3 DEF Reached
  <2>8. Current.case[case] = <<>> <=> StepsOf(case)' = {}
    <3>1. CASE Current.case[case] = <<>>
      <4>1. \A a \in Spots : ~(a.list = "case" /\ a.block = case)
        <5>1. Len(Current.case[case]) = 0
          BY <3>1
        <5> QED
          BY <1>6, <1>7, <5>1
      <4> QED
        BY <1>5, <2>1, <3>1, <4>1
    <3>2. CASE Current.case[case] # <<>>
      <4>1. Len(Current.case[case]) >= 1
        BY <2>5, <3>2
      <4>2. cursor' \in Positions
        BY <1>1 DEF Layout, Here
      <4>3. cursor' \in Spots
        BY <1>3, <1>4, <2>2, <2>5, <4>1, <4>2, SpotIs
      <4> QED
        BY <1>5, <2>1, <2>2, <3>2, <4>3
    <3> QED
      BY <3>1, <3>2
  <2>9. OpenVerdict'
    BY <1>5, <2>1, <2>6, <2>7, <2>8 DEF OpenVerdict
  <2>10. StillPassing'
    <3>1. Current.case[case] = <<>> => Len(Current.case[case]) = 0
      OBVIOUS
    <3> QED
      BY <1>2, <2>1, <2>2, <2>3, <2>6, <3>1 DEF StillPassing
  <2>11. PassIsEarned'
    <3>1. \A j \in Finished' : j \in Finished /\ verdict'[j] = verdict[j]
      BY <1>4, <1>8, <2>1
    <3> QED
      BY <1>2, <1>5, <1>9, <2>1, <3>1, PassesKept
  <2> QED
    BY <1>1, <1>4, <1>9, <2>1, <2>2, <2>4, <2>9, <2>10, <2>11
       DEF Earned, MeasuredCases, RebootWalk, In, FailureEndsCase
<1>17. CASE CaseEnds
  <2>1. /\ pc = "case_gets" /\ pc' = "case" /\ case' = case + 1
        /\ UNCHANGED <<went, cursor, outer>>
        /\ \/ UNCHANGED <<verdict, unmeasured>>
           \/ /\ verdict' = [verdict EXCEPT ![case] = "FAIL"]
              /\ unmeasured' = unmeasured \cup {case}
    BY <1>17 DEF CaseEnds, MeasurementsOf
  <2>2. CaseOpen /\ ~CaseWalk /\ ~CaseOpen' /\ ~CaseWalk' /\ case <= Cases
    BY <2>1 DEF CaseOpen, CaseWalk, Active, AtStep, Layout, CursorOK
  <2>3. AheadIsUntouched'
    BY <1>1, <1>2, <1>4, <1>6, <1>9, <2>1, <2>2 DEF AheadIsUntouched
  <2>4. MeasuredCases' /\ case \notin unmeasured
    BY <1>1, <1>4, <1>9, <2>1 DEF MeasuredCases
  <2>5. verdict[case] = "PASS" <=> /\ StepsOf(case) # {}
                                   /\ \A a \in StepsOf(case) : Well(went[a])
    BY <1>9, <2>1, <2>2 DEF OpenVerdict, Reached
  <2>6. PassIsEarned'
    <3>1. SUFFICES ASSUME NEW j \in 1..Cases, j < case + 1, Current.state[j] = "run"
                   PROVE  (verdict'[j] = "PASS" <=> /\ StepsOf(j) # {}
                                                  /\ \A a \in StepsOf(j) : Well(went[a])
                                                  /\ j \notin unmeasured')
      BY <1>2, <1>5, <1>8, <2>1 DEF PassIsEarned
    <3>2. CASE j = case
      BY <1>4, <2>1, <2>4, <2>5, <3>1, <3>2
    <3>3. CASE j # case
      <4>1. j \in Finished /\ verdict'[j] = verdict[j] /\ (j \in unmeasured' <=> j \in unmeasured)
        BY <1>4, <1>8, <2>1, <3>1, <3>3
      <4> QED
        BY <1>9, <3>1, <4>1 DEF PassIsEarned
    <3> QED
      BY <3>2, <3>3
  <2> QED
    BY <1>1, <1>4, <1>9, <2>1, <2>2, <2>3, <2>4, <2>6
       DEF Earned, OpenVerdict, StillPassing, RebootWalk, In, Active, AtStep,
           FailureEndsCase
<1> QED
  BY <1>10, <1>11, <1>12, <1>13, <1>14, <1>15, <1>16, <1>17

\* In the first state nothing is to be earned.
LEMMA EarnedInit == Init => Earned
<1> SUFFICES ASSUME Init PROVE Earned
  OBVIOUS
<1>1. ~InSet /\ ~CaseOpen /\ ~CaseWalk /\ ~In("reboot") /\ pc # "judge" /\ Finished = {}
  BY DEF Init, InSet, CaseOpen, CaseWalk, In, Active, AtStep, Finished
<1> QED
  BY <1>1 DEF Init, Earned, AheadIsUntouched, OpenVerdict, StillPassing,
              MeasuredCases, RebootWalk, PassIsEarned, FailureEndsCase

\* Between the sets there is nothing to be earned.
LEMMA BetweenSetsEarned ==
  ASSUME FailureEndsCase, went' = went, ~InSet'
  PROVE  Earned'
<1>1. ~CaseOpen' /\ ~CaseWalk' /\ ~In("reboot")' /\ pc' # "judge" /\ Finished' = {}
  BY DEF InSet, CaseOpen, CaseWalk, In, Active, AtStep, Finished
<1> QED
  BY <1>1 DEF Earned, AheadIsUntouched, OpenVerdict, StillPassing,
              MeasuredCases, RebootWalk, PassIsEarned, FailureEndsCase

\* When a set is entered, nothing of it has been run.
LEMMA EnterSetEarned ==
  ASSUME Layout', EnterSet
  PROVE  Earned'
<1>1. /\ case' = 1 /\ unmeasured' = {} /\ Spots' = Spots
      /\ went' = [a \in Spots |-> "none"] /\ InSet'
      /\ (pc' = "walk" /\ cursor'.list = "pre") \/ pc' = "case"
  <2>1. Spots' = Spots
    BY SameSet DEF EnterSet
  <2>2. EnterList("pre") => pc' = "walk" /\ cursor'.list = "pre"
    BY DEF EnterList, At
  <2> QED
    BY <2>1, <2>2 DEF EnterSet, Spots, InSet
<1>2. ~CaseOpen' /\ ~CaseWalk' /\ ~In("reboot")' /\ pc' # "judge"
  BY <1>1 DEF CaseOpen, CaseWalk, In, Active, AtStep
<1>3. Finished' = {}
  BY <1>1, InSetTypes DEF Layout, Tables, Finished
<1> QED
  BY <1>1, <1>2, <1>3
     DEF Earned, AheadIsUntouched, OpenVerdict, StillPassing, MeasuredCases,
         RebootWalk, PassIsEarned, FailureEndsCase

\* Between two sets the results of the run stay as they are.
LEMMA BetweenSets ==
  ASSUME \/ ExcludeSet \/ WriteSet \/ EndRun
         \/ ~InSet /\ (UNCHANGED vars \/ Interrupt(2) \/ Interrupt(15))
  PROVE  /\ ~InSet' /\ went' = went /\ UNCHANGED <<verdict, filtered, dummy, res>>
         /\ UNCHANGED <<resumed, resumedIn, lostAt, passcount>>
<1> USE DEF history, observed, results, counters, InSet
<1>1. CASE ExcludeSet
  BY <1>1 DEF ExcludeSet
<1>2. CASE WriteSet
  BY <1>2 DEF WriteSet
<1>3. CASE EndRun
  BY <1>3 DEF EndRun
<1>4. ASSUME NEW sig, ~InSet, Interrupt(sig)
      PROVE  /\ ~InSet' /\ went' = went /\ UNCHANGED <<verdict, filtered, dummy, res>>
             /\ UNCHANGED <<resumed, resumedIn, lostAt, passcount>>
  BY <1>4 DEF Interrupt
<1>5. CASE ~InSet /\ UNCHANGED vars
  BY <1>5 DEF vars, position
<1> QED
  BY <1>1, <1>2, <1>3, <1>4, <1>5

\* Earned is kept by every action.
LEMMA EarnedStep == Layout /\ Layout' /\ Earned /\ [Next]_vars => Earned'
<1> SUFFICES ASSUME Layout, Layout', Earned, [Next]_vars PROVE Earned'
  OBVIOUS
<1>1. CASE StepActions
  <2>1. CASE BeginStep \/ \E o \in Returns : ExpectedRebootBegins(o)
    BY <1>1, <2>1, ActionsInSet, QuietSteps, QuietEarned
  <2>2. CASE BeginPostRebootSteps \/ PostRebootStepsDone
    BY <1>1, <2>2, ActionsInSet, CaseStepsEarned
  <2>3. CASE \/ BailOutStep
             \/ EmptyStep
             \/ \E v \in Verdicts : ManualStep(v)
             \/ \E o \in Returns : CommandEnds(o)
             \/ \E o \in Returns : ExpectedRebootMissed(o)
             \/ RebootFails
             \/ Rebooted
             \/ JudgeReboot
    <3>1. RebootWalk
      BY DEF Earned
    <3>2. StepEndsSomehow
      BY <2>3, <3>1, StepOutcome
    <3> QED
      BY <3>2, EndOfStepEarned
  <2> QED
    BY <1>1, <2>1, <2>2, <2>3 DEF StepActions
<1>2. CASE SetActions
  <2>1. CASE ExcludeSet \/ WriteSet \/ EndRun
    BY <2>1, BetweenSets, BetweenSetsEarned DEF Earned
  <2>2. CASE EnterSet
    BY <2>2, EnterSetEarned
  <2>3. CASE ~ExcludeSet /\ ~EndRun /\ ~EnterSet /\ ~WriteSet
    <3>1. InSet
      BY <1>2, <2>3, ActionsInSet
    <3>2. CASE \/ PreStepsPass \/ CasesDone \/ PostSteps \/ PostStepsDone
               \/ SetGets \/ RestoreBailOut
      BY <3>1, <3>2, QuietSteps, QuietEarned
    <3>3. CASE \/ AbortSet \/ CaseWalked \/ SkipCase \/ BeginCase \/ CaseEnds
      BY <3>1, <3>3, CaseStepsEarned
    <3>4. CASE NextBlock
      BY <3>1, <3>4, QuietSteps, QuietEarned, CaseStepsEarned
    <3> QED
      BY <1>2, <2>3, <3>2, <3>3, <3>4 DEF SetActions
  <2> QED
    BY <2>1, <2>2, <2>3
<1>3. CASE Conductor
  BY <1>3, ActionsInSet, QuietSteps, QuietEarned DEF Conductor
<1>4. CASE Interrupt(2) \/ Interrupt(15) \/ UNCHANGED vars
  <2>1. CASE InSet
    BY <1>4, <2>1, QuietSteps, QuietEarned
  <2>2. CASE ~InSet
    BY <1>4, <2>2, BetweenSets, BetweenSetsEarned DEF Earned
  <2> QED
    BY <2>1, <2>2
<1> QED
  BY <1>1, <1>2, <1>3, <1>4 DEF Next, Runner

\* Earned holds in every state.
THEOREM EarnedInvariant == Spec => []Earned
<1>1. Init => Earned
  BY EarnedInit
<1>2. Layout /\ Layout' /\ Earned /\ [Next]_vars => Earned'
  BY EarnedStep
<1> QED
  BY <1>1, <1>2, LayoutInvariant, PTL DEF Spec

\* A case passes exactly if no step of it went otherwise than expected: every
\* one was run and judged, or had no command, or was given up by the built-in
\* executor with the result that it expects.
THEOREM VerdictIsEarnedAlways == Spec => []VerdictIsEarned
<1>1. Earned => VerdictIsEarned
  BY DEF Earned, VerdictIsEarned
<1> QED
  BY <1>1, EarnedInvariant, PTL

-----------------------------------------------------------------------------
(* What the safety invariants need beside Layout and Earned.                *)

\* The steps that neither end a step nor enter a list of post reboot steps or
\* a set.
OtherSteps ==
  \/ BeginStep
  \/ \E o \in Returns : ExpectedRebootBegins(o)
  \/ PostRebootStepsDone
  \/ SetActions /\ ~EnterSet
  \/ Conductor
  \/ Interrupt(2)
  \/ Interrupt(15)
  \/ UNCHANGED vars

\* All steps are of these kinds.
LEMMA StepKinds ==
  ASSUME Layout, Earned, [Next]_vars
  PROVE  StepEndsSomehow \/ BeginPostRebootSteps \/ EnterSet \/ OtherSteps
<1>1. RebootWalk
  BY DEF Earned
<1> QED
  BY <1>1, StepOutcome DEF Next, Runner, StepActions, OtherSteps

-----------------------------------------------------------------------------
(* The pre steps.                                                           *)

\* A pre step went wrong; nothing of the cases and the post steps was run.
PreBad == \E a \in DOMAIN went : a.list = "pre" /\ went[a] = "bad"
NoneAfterPre == \A a \in DOMAIN went : a.list \in {"case", "post"} => went[a] = "none"
\* Once a pre step went wrong, the walk of the pre steps remembers it in the
\* dummy case, until the set is aborted; until it is over, no case is run.
PreSteps ==
  /\ PreBad => (In("pre") /\ dummy # "PASS") \/ pc \in {"write", "set", "end"}
  /\ PreBad \/ In("pre") => NoneAfterPre

\* The steps that leave all of this alone, but for the abortion.
PreFrame ==
  /\ went' = went
  /\ In("pre")' => In("pre")
  /\ In("pre") /\ dummy # "PASS" => (In("pre")' /\ dummy' # "PASS") \/ pc' = "write"
  /\ pc \in {"write", "set", "end"} => pc' \in {"write", "set", "end"}

\* All but the ends of steps and the entries to lists are such steps.
LEMMA PreFrameSteps ==
  ASSUME Layout, OtherSteps
  PROVE  PreFrame
<1> USE DEF position, results, history, observed, PreFrame, In, Active,
            AtStep, At, Walking, WalkDone, MoreCases, LastBlockDone
<1>1. CASE BeginStep
  BY <1>1 DEF BeginStep
<1>2. CASE PostRebootStepsDone
  BY <1>2 DEF PostRebootStepsDone, Layout, CursorOK
<1>3. CASE ExcludeSet
  BY <1>3 DEF ExcludeSet
<1>4. CASE NextBlock
  BY <1>4 DEF NextBlock, DummyAfterBlock
<1>5. CASE PreStepsPass
  BY <1>5 DEF PreStepsPass
<1>6. CASE AbortSet
  BY <1>6 DEF AbortSet
<1>7. CASE SkipCase
  BY <1>7 DEF SkipCase
<1>8. CASE BeginCase
  BY <1>8 DEF BeginCase
<1>9. CASE CaseWalked
  BY <1>9 DEF CaseWalked
<1>10. CASE CaseEnds
  BY <1>10 DEF CaseEnds
<1>11. CASE CasesDone
  BY <1>11 DEF CasesDone
<1>12. CASE PostSteps
  BY <1>12 DEF PostSteps, EnterList
<1>13. CASE PostStepsDone
  BY <1>13 DEF PostStepsDone
<1>14. CASE SetGets
  BY <1>14 DEF SetGets
<1>15. CASE RestoreBailOut
  BY <1>15 DEF RestoreBailOut
<1>16. CASE WriteSet
  BY <1>16 DEF WriteSet
<1>17. CASE EndRun
  BY <1>17 DEF EndRun
<1>18. CASE ConfirmReboot
  BY <1>18 DEF ConfirmReboot
<1>19. CASE ResumeRun
  BY <1>19 DEF ResumeRun
<1>20. ASSUME NEW o \in Returns, ExpectedRebootBegins(o) PROVE PreFrame
  BY <1>20 DEF ExpectedRebootBegins
<1>21. ASSUME NEW sig, Interrupt(sig) PROVE PreFrame
  BY <1>21 DEF Interrupt
<1>22. CASE UNCHANGED vars
  BY <1>22 DEF vars
<1> QED
  BY <1>1, <1>2, <1>3, <1>4, <1>5, <1>6, <1>7, <1>8, <1>9, <1>10, <1>11,
     <1>12, <1>13, <1>14, <1>15, <1>16, <1>17, <1>18, <1>19, <1>20, <1>21,
     <1>22 DEF OtherSteps, SetActions, Conductor

\* PreSteps is kept by every action.
LEMMA PreStepsStep ==
  ASSUME Layout, Layout', Earned, PreSteps, [Next]_vars
  PROVE  PreSteps'
<1>1. CASE StepEndsSomehow
  <2>1. PICK v \in Verdicts, w \in Marks, on \in BOOLEAN :
          StepEndsAs(v, w, on)
    BY <1>1 DEF StepEndsSomehow
  <2>2. Active /\ Active' /\ Walk(on) /\ pc' = "walk" /\ InSet /\ InSet'
    BY <2>1 DEF StepEndsAs, Active, AtStep, InSet
  <2>3. cursor'.list = cursor.list
    BY <2>2, WalkMoves
  <2>4. DOMAIN went' = DOMAIN went
    BY <2>1 DEF StepEndsAs, Mark
  <2>5. \A a \in DOMAIN went : a.list # cursor.list => went'[a] = went[a]
    BY <2>1 DEF StepEndsAs, Mark
  <2>6. CASE cursor.list = "pre"
    <3>1. v = "PASS" => dummy' = dummy /\ \A a \in DOMAIN went : went'[a] \in {went[a], "good", "unrun"}
      BY <2>1 DEF Well, StepEndsAs, Judge, Mark
    <3>2. v # "PASS" => dummy' # "PASS"
      BY <2>1, <2>6 DEF StepEndsAs, Judge, InDummy
    <3> QED
      BY <2>2, <2>3, <2>4, <2>5, <2>6, <3>1, <3>2 DEF PreSteps, PreBad,
         NoneAfterPre, In, Active, AtStep
  <2>7. CASE cursor.list # "pre"
    BY <2>2, <2>3, <2>4, <2>5, <2>7 DEF PreSteps, PreBad, NoneAfterPre, In,
                                        Active, AtStep
  <2> QED
    BY <2>6, <2>7
<1>2. CASE BeginPostRebootSteps
  <2>1. /\ pc = "rebooted" /\ pc' = "walk" /\ cursor.list = "case" /\ cursor'.list = "reboot"
        /\ went' = [a \in AllPlaces |-> IF a.list = "reboot" THEN "none" ELSE went[a]]
    BY <1>2 DEF BeginPostRebootSteps, EnterList, PostRebootSteps, At
  <2>2. DOMAIN went = AllPlaces
    BY <2>1, InSetTypes, SpotIs DEF Layout, Tables, InSet
  <2> QED
    BY <2>1, <2>2 DEF PreSteps, PreBad, NoneAfterPre, In
<1>3. CASE EnterSet
  BY <1>3 DEF EnterSet, PreSteps, PreBad, NoneAfterPre
<1>4. CASE OtherSteps
  <2>1. PreFrame
    BY <1>4, PreFrameSteps
  <2> QED
    BY <2>1 DEF PreFrame, PreSteps, PreBad, NoneAfterPre
<1> QED
  BY <1>1, <1>2, <1>3, <1>4, StepKinds

\* A failed pre step keeps the cases and the post steps from being run.
THEOREM PreStepFailureAborts == Spec => []FailedPreStepAbortsSet
<1>1. Init => PreSteps
  BY DEF Init, PreSteps, PreBad, In, Active, AtStep
<1>2. Layout /\ Layout' /\ Earned /\ PreSteps /\ [Next]_vars => PreSteps'
  BY PreStepsStep
<1>3. PreSteps => FailedPreStepAbortsSet
  BY DEF PreSteps, PreBad, NoneAfterPre, FailedPreStepAbortsSet
<1> QED
  BY <1>1, <1>2, <1>3, LayoutInvariant, EarnedInvariant, PTL DEF Spec

-----------------------------------------------------------------------------
(* The lost link.                                                           *)

\* After the link was lost in a case, the run bails out as long as there is a
\* case left, and no step is under way.
Lost ==
  /\ lostAt \in Nat
  /\ InSet /\ lostAt # 0 => lostAt <= case
  /\ InSet /\ lostAt # 0 /\ case <= Cases =>
    /\ bail_out # 0
    /\ pc \in {"case", "case_gets"} \/ (pc = "walk" /\ cursor.list = "case")

\* Lost is kept by every action.
LEMMA LostStep ==
  ASSUME Layout, Layout', Lost, [Next]_vars
  PROVE  Lost'
<1> USE DEF position, results, history, observed, counters, In, Active,
            AtStep, At
<1>a. InSet => /\ Cases \in Nat /\ case \in Nat /\ case <= Cases + 1
               /\ In("case") \/ pc = "case_gets" => case <= Cases
  <2>1. ASSUME In("case") PROVE case \in DOMAIN Current["case"]
    BY <2>1 DEF Layout, CursorOK
  <2> QED
    BY <2>1, InSetTypes DEF Layout, Here, Tables, CursorOK
<1>b. plan' = plan /\ set' = set => Cases' = Cases
  BY SameSet
<1>c. StepEnds => plan' = plan /\ set' = set /\ case' = case /\ pc' = "walk"
                  /\ cursor'.list = cursor.list
  BY WalkMoves DEF StepEnds
<1>1. CASE BailOutStep
  <2>1. bail_out' # 0 /\ pc = "walk" /\ lostAt' = lostAt
    BY <1>1 DEF BailOutStep, BailOutAfter, BailingOut, REMOTE_FAIL, Walking
  <2>2. StepEnds
    BY <1>1, EndOfStep
  <2> QED
    BY <1>b, <1>c, <2>1, <2>2 DEF Lost, InSet
<1>2. CASE BeginStep
  BY <1>a, <1>b, <1>2 DEF BeginStep, Lost, InSet, Layout, CursorOK,
                          BailingOut, Walking
<1>3. CASE RebootFails
  BY <1>a, <1>b, <1>3, <1>c, EndOfStep DEF RebootFails, Lost, InSet, Layout,
                                           CursorOK, REMOTE_FAIL
<1>4. CASE Rebooted
  BY <1>a, <1>b, <1>4, <1>c, EndOfStep DEF Rebooted, Lost, InSet, Layout,
                                           CursorOK
<1>5. CASE BeginPostRebootSteps
  BY <1>a, <1>b, <1>5 DEF BeginPostRebootSteps, Lost, InSet, Layout, CursorOK,
                          EnterList
<1>6. CASE PostRebootStepsDone
  BY <1>a, <1>b, <1>6 DEF PostRebootStepsDone, Lost, InSet, Layout, CursorOK,
                          WalkDone
<1>7. CASE JudgeReboot
  BY <1>a, <1>b, <1>7, <1>c, EndOfStep DEF JudgeReboot, Lost, InSet, Layout,
                                           CursorOK
<1>8. CASE NextBlock
  BY <1>a, <1>b, <1>8 DEF NextBlock, Lost, InSet, Layout, CursorOK, WalkDone,
                          InDummy
<1>9. CASE PreStepsPass
  BY <1>a, <1>b, <1>9 DEF PreStepsPass, Lost, InSet, Layout, CursorOK,
                          LastBlockDone, WalkDone
<1>10. CASE AbortSet
  BY <1>a, <1>b, <1>10 DEF AbortSet, Lost, InSet, Layout, CursorOK,
                           LastBlockDone, WalkDone
<1>11. CASE SkipCase
  BY <1>a, <1>b, <1>11 DEF SkipCase, Lost, InSet, Layout, CursorOK, MoreCases
<1>12. CASE BeginCase
  BY <1>a, <1>b, <1>12 DEF BeginCase, Lost, InSet, Layout, CursorOK, MoreCases
<1>13. CASE CaseWalked
  BY <1>a, <1>b, <1>13 DEF CaseWalked, Lost, InSet, Layout, CursorOK, WalkDone
<1>14. CASE CaseEnds
  BY <1>a, <1>b, <1>14 DEF CaseEnds, Lost, InSet, Layout, CursorOK, GetsOf,
                           REMOTE_FAIL
<1>15. CASE CasesDone
  BY <1>a, <1>b, <1>15 DEF CasesDone, Lost, InSet, Layout, CursorOK
<1>16. CASE PostSteps
  BY <1>a, <1>b, <1>16 DEF PostSteps, Lost, InSet, Layout, CursorOK, EnterList
<1>17. CASE PostStepsDone
  BY <1>a, <1>b, <1>17 DEF PostStepsDone, Lost, InSet, Layout, CursorOK,
                           LastBlockDone, WalkDone
<1>18. CASE SetGets
  BY <1>a, <1>b, <1>18 DEF SetGets, Lost, InSet, Layout, CursorOK, GetsOf,
                           REMOTE_FAIL
<1>19. CASE RestoreBailOut
  BY <1>a, <1>b, <1>19 DEF RestoreBailOut, Lost, InSet, Layout, CursorOK,
                           Restored, REMOTE_FAIL
<1>20. CASE ConfirmReboot
  BY <1>a, <1>b, <1>20 DEF ConfirmReboot, Lost, InSet, Layout, CursorOK
<1>21. CASE ResumeRun
  BY <1>a, <1>b, <1>21 DEF ResumeRun, Lost, InSet, Layout, CursorOK
<1>22. ASSUME NEW v \in Verdicts, ManualStep(v) PROVE Lost'
  BY <1>a, <1>b, <1>22, <1>c, EndOfStep DEF ManualStep, Lost, InSet, Layout,
                                            CursorOK, Walking, BailingOut
<1>23. ASSUME NEW o \in Returns, CommandEnds(o) PROVE Lost'
  BY <1>a, <1>b, <1>23, <1>c, EndOfStep DEF CommandEnds, Lost, InSet, Layout,
                                            CursorOK, REMOTE_FAIL
<1>24. ASSUME NEW o \in Returns, ExpectedRebootBegins(o) PROVE Lost'
  BY <1>a, <1>b, <1>24 DEF ExpectedRebootBegins, Lost, InSet, Layout, CursorOK
<1>25. ASSUME NEW o \in Returns, ExpectedRebootMissed(o) PROVE Lost'
  BY <1>a, <1>b, <1>25, <1>c, EndOfStep DEF ExpectedRebootMissed, Lost, InSet,
                                            Layout, CursorOK
<1>26. ASSUME NEW sig \in {2, 15}, Interrupt(sig) PROVE Lost'
  BY <1>a, <1>b, <1>26 DEF Interrupt, RecordInterrupt, Lost, InSet, Layout,
                           CursorOK
<1>27. CASE UNCHANGED vars
  BY <1>b, <1>27 DEF vars, Lost, InSet
<1>28. CASE ExcludeSet \/ WriteSet \/ EndRun
  BY <1>28, BetweenSets DEF Lost
<1>29. CASE EnterSet
  BY <1>29 DEF EnterSet, Lost
<1>30. CASE EmptyStep
  BY <1>a, <1>b, <1>30, <1>c, EndOfStep DEF EmptyStep, Lost, InSet, Layout,
                                            CursorOK, Walking, BailingOut
<1> QED
  BY <1>1, <1>2, <1>3, <1>4, <1>5, <1>6, <1>7, <1>8, <1>9, <1>10, <1>11,
     <1>12, <1>13, <1>14, <1>15, <1>16, <1>17, <1>18, <1>19, <1>20, <1>21,
     <1>22, <1>23, <1>24, <1>25, <1>26, <1>27, <1>28, <1>29, <1>30 DEF Next, Runner,
     StepActions, SetActions, Conductor

\* The steps that lose the link in the open case.
LostNow ==
  /\ CaseOpen /\ lostAt' = case /\ InSet'
  /\ UNCHANGED <<plan, set>>
  /\ case' = case \/ (case' = case + 1 /\ ~CaseOpen')

\* No other step, but for the start of a set, changes lostAt.
LEMMA LostAtChanges ==
  ASSUME Layout, [Next]_vars, lostAt' # lostAt
  PROVE  EnterSet \/ LostNow
<1> USE DEF history, observed, InSet
<1>1. ASSUME NEW o \in Returns, CommandEnds(o) PROVE LostNow
  BY <1>1 DEF CommandEnds, CaseOpen, Layout, CursorOK, In, Active, AtStep,
              LostNow
<1>2. CASE CaseEnds
  BY <1>2 DEF CaseEnds, CaseOpen, Layout, CursorOK, LostNow
<1>3. CASE StepActions
  BY <1>1, <1>3 DEF StepActions, BailOutStep, EmptyStep, ManualStep, BeginStep,
       ExpectedRebootBegins, ExpectedRebootMissed, RebootFails, Rebooted,
       BeginPostRebootSteps, PostRebootStepsDone, JudgeReboot
<1>4. CASE SetActions /\ ~EnterSet
  BY <1>2, <1>4 DEF SetActions, ExcludeSet, NextBlock, PreStepsPass, AbortSet,
       SkipCase, BeginCase, CaseWalked, CasesDone, PostSteps, PostStepsDone, SetGets,
       RestoreBailOut, WriteSet, EndRun
<1>5. CASE Conductor \/ Interrupt(2) \/ Interrupt(15) \/ UNCHANGED vars
  BY <1>5 DEF Conductor, ConfirmReboot, ResumeRun, Interrupt, vars
<1> QED
  BY <1>3, <1>4, <1>5 DEF Next, Runner

\* The cases after the one that lost the link stay untouched.
LEMMA SkipStep ==
  ASSUME Layout, Layout', Earned, Earned', Lost, LostLinkSkipsRest, [Next]_vars
  PROVE  LostLinkSkipsRest'
<1>1. CASE EnterSet
  BY <1>1 DEF EnterSet, LostLinkSkipsRest
<1>2. CASE LostNow
  <2>1. InSet /\ InSet' /\ case \in Nat
    BY <1>2 DEF LostNow, CaseOpen, InSet, Layout, Here
  <2>2. DOMAIN went' = Spots' /\ \A a \in Spots' : a.block \in Nat
    <3>1. \A a \in Spots : a.block \in Nat
      BY <2>1, InSetTypes, SpotIs DEF Layout, Positions
    <3> QED
      BY <1>2, <2>1, <3>1, SameSet DEF LostNow, Layout, Tables
  <2>3. \A a \in Spots' : a.list = "case" /\ a.block > case => went'[a] = "none"
    BY <1>2, <2>1, <2>2 DEF Earned, AheadIsUntouched, LostNow
  <2> QED
    BY <1>2, <2>2, <2>3 DEF LostNow, LostLinkSkipsRest
<1>3. CASE lostAt' = lostAt /\ BeginPostRebootSteps
  <2>1. InSet /\ pc = "rebooted"
        /\ went' = [a \in AllPlaces |-> IF a.list = "reboot" THEN "none" ELSE went[a]]
    BY <1>3 DEF BeginPostRebootSteps, InSet
  <2>2. DOMAIN went = AllPlaces
    BY <2>1, InSetTypes, SpotIs DEF Layout, Tables
  <2> QED
    BY <1>3, <2>1, <2>2 DEF LostLinkSkipsRest
<1>4. CASE lostAt' = lostAt /\ OtherSteps
  BY <1>4, PreFrameSteps DEF PreFrame, LostLinkSkipsRest
<1>5. CASE lostAt' = lostAt /\ StepEndsSomehow
  <2>1. PICK v \in Verdicts, w \in Marks, on \in BOOLEAN :
          StepEndsAs(v, w, on)
    BY <1>5 DEF StepEndsSomehow
  <2>2. CASE w = "none"
    BY <1>5, <2>1, <2>2 DEF StepEndsAs, LostLinkSkipsRest
  <2>3. CASE w # "none"
    <3>1. InSet /\ (AtStep \/ bail_out = 0) /\ Active /\ went' = [went EXCEPT ![cursor] = w]
      BY <2>1, <2>3 DEF StepEndsAs, Mark, Active, AtStep, InSet
    <3>2. cursor.list = "case" => cursor.block = case /\ case <= Cases
      <4>1. cursor.list = "case" => case \in DOMAIN Current["case"] /\ cursor.block = case
        BY <3>1 DEF Layout, CursorOK, In
      <4> QED
        BY <3>1, <4>1, InSetTypes DEF Layout
    <3>3. lostAt # 0 => cursor.list # "case"
      BY <3>1, <3>2 DEF Lost, AtStep
    <3> QED
      BY <1>5, <3>1, <3>3 DEF LostLinkSkipsRest
  <2> QED
    BY <2>2, <2>3
<1> QED
  BY <1>1, <1>2, <1>3, <1>4, <1>5, StepKinds, LostAtChanges

\* After the link was lost in a case no later case of the set is run.
THEOREM LostLinkSkips == Spec => []LostLinkSkipsRest
<1>1. Init => Lost /\ LostLinkSkipsRest
  BY DEF Init, Lost, LostLinkSkipsRest
<1>2. Layout /\ Layout' /\ Earned /\ Earned' /\ Lost /\ LostLinkSkipsRest /\ [Next]_vars
        => Lost' /\ LostLinkSkipsRest'
  BY LostStep, SkipStep
<1> QED
  BY <1>1, <1>2, LayoutInvariant, EarnedInvariant, PTL DEF Spec

-----------------------------------------------------------------------------
(* The resume.                                                              *)

\* The run is resumed at most once, when the cases of the set are done; from
\* then on it is in the tail of that set, and with --resume=exit it leaves the
\* set bailing out, with no step under way.
Resumed ==
  /\ resumed \in 0..1 /\ resumedIn \in 0..set
  /\ resumedIn = 0 <=> resumed = 0
  /\ ~InSet => resumedIn < set
  /\ pc = "suspended" => resumed = 0 /\ bail_out = REMOTE_FAIL
  /\ InSet /\ resumedIn = set =>
       pc \in {"post", "gets", "restore", "write"} \/ In("post")
  /\ ResumeAction = "exit" /\ resumedIn # 0 /\ (set > resumedIn \/ pc = "write")
       => bail_out # 0 /\ ~AtStep /\ ~In("reboot")

\* Resumed is kept by every action.
LEMMA ResumedStep ==
  ASSUME Layout, Layout', Resumed, [Next]_vars
  PROVE  Resumed'
<1> USE DEF position, results, history, observed, counters, In, Active,
            AtStep, At
<1>a. set \in Nat /\ set > 0
  <2>1. plan \in Seq(TestSet)
    BY TestRunAssumption DEF Layout, Here
  <2> QED
    BY <2>1 DEF Layout, Here
<1>c. StepEnds => plan' = plan /\ set' = set /\ case' = case /\ pc' = "walk"
                  /\ cursor'.list = cursor.list
  BY WalkMoves DEF StepEnds
<1>1. CASE BailOutStep
  <2>1. bail_out' # 0 /\ pc = "walk" /\ UNCHANGED <<resumed, resumedIn>>
    BY <1>1 DEF BailOutStep, BailOutAfter, BailingOut, REMOTE_FAIL, Walking
  <2>2. StepEnds
    BY <1>1, EndOfStep
  <2> QED
    BY <1>a, <1>c, <2>1, <2>2 DEF Resumed, InSet
<1>2. CASE BeginStep
  BY <1>a, <1>2 DEF BeginStep, Resumed, InSet, Layout, CursorOK, BailingOut,
                    Walking
<1>3. CASE RebootFails
  BY <1>a, <1>3, <1>c, EndOfStep DEF RebootFails, Resumed, InSet, Layout,
                                     CursorOK, REMOTE_FAIL
<1>4. CASE Rebooted
  BY <1>a, <1>4, <1>c, EndOfStep DEF Rebooted, Resumed, InSet, Layout, CursorOK
<1>5. CASE BeginPostRebootSteps
  BY <1>a, <1>5 DEF BeginPostRebootSteps, Resumed, InSet, Layout, CursorOK,
                    EnterList, PostRebootSteps
<1>6. CASE PostRebootStepsDone
  BY <1>a, <1>6 DEF PostRebootStepsDone, Resumed, InSet, Layout, CursorOK,
                    WalkDone
<1>7. CASE JudgeReboot
  BY <1>a, <1>7, <1>c, EndOfStep DEF JudgeReboot, Resumed, InSet, Layout,
                                     CursorOK
<1>8. CASE NextBlock
  BY <1>a, <1>8 DEF NextBlock, Resumed, InSet, Layout, CursorOK, WalkDone,
                    InDummy
<1>9. CASE PreStepsPass
  BY <1>a, <1>9 DEF PreStepsPass, Resumed, InSet, Layout, CursorOK,
                    LastBlockDone, WalkDone
<1>10. CASE AbortSet
  <2>1. /\ pc = "walk" /\ cursor.list = "pre" /\ pc' = "write"
        /\ UNCHANGED <<set, resumed, resumedIn, bail_out, cursor>>
    BY <1>10 DEF AbortSet, LastBlockDone, WalkDone
  <2>2. InSet /\ resumedIn < set
    BY <1>a, <2>1 DEF Resumed, InSet
  <2> QED
    BY <1>a, <2>1, <2>2 DEF Resumed, InSet
<1>11. CASE SkipCase
  BY <1>a, <1>11 DEF SkipCase, Resumed, InSet, Layout, CursorOK, MoreCases
<1>12. CASE BeginCase
  BY <1>a, <1>12 DEF BeginCase, Resumed, InSet, Layout, CursorOK, MoreCases
<1>13. CASE CaseWalked
  BY <1>a, <1>13 DEF CaseWalked, Resumed, InSet, Layout, CursorOK, WalkDone
<1>14. CASE CaseEnds
  BY <1>a, <1>14 DEF CaseEnds, Resumed, InSet, Layout, CursorOK, GetsOf,
                     REMOTE_FAIL
<1>15. CASE CasesDone
  BY <1>a, <1>15 DEF CasesDone, Resumed, InSet, Layout, CursorOK, MayResume
<1>16. CASE PostSteps
  BY <1>a, <1>16 DEF PostSteps, Resumed, InSet, Layout, CursorOK, EnterList
<1>17. CASE PostStepsDone
  BY <1>a, <1>17 DEF PostStepsDone, Resumed, InSet, Layout, CursorOK,
                     LastBlockDone, WalkDone
<1>18. CASE SetGets
  BY <1>a, <1>18 DEF SetGets, Resumed, InSet, Layout, CursorOK, GetsOf,
                     REMOTE_FAIL
<1>19. CASE RestoreBailOut
  BY <1>a, <1>19 DEF RestoreBailOut, Resumed, InSet, Layout, CursorOK,
                     Restored, REMOTE_FAIL
<1>20. CASE ConfirmReboot
  BY <1>a, <1>20 DEF ConfirmReboot, Resumed, InSet, Layout, CursorOK
<1>21. CASE ResumeRun
  BY <1>a, <1>21 DEF ResumeRun, Resumed, InSet, Layout, CursorOK, REMOTE_FAIL
<1>22. CASE ExcludeSet
  BY <1>a, <1>22 DEF ExcludeSet, Resumed, InSet, Layout, CursorOK
<1>23. CASE EnterSet
  BY <1>a, <1>23 DEF EnterSet, Resumed, InSet, Layout, CursorOK, EnterList
<1>24. CASE WriteSet
  BY <1>a, <1>24 DEF WriteSet, Resumed, InSet, Layout, CursorOK
<1>25. CASE EndRun
  BY <1>a, <1>25 DEF EndRun, Resumed, InSet, Layout, CursorOK
<1>26. ASSUME NEW v \in Verdicts, ManualStep(v) PROVE Resumed'
  BY <1>a, <1>26, <1>c, EndOfStep DEF ManualStep, Resumed, InSet, Layout,
                                      CursorOK, Walking, BailingOut
<1>27. ASSUME NEW o \in Returns, CommandEnds(o) PROVE Resumed'
  BY <1>a, <1>27, <1>c, EndOfStep DEF CommandEnds, Resumed, InSet, Layout,
                                      CursorOK, REMOTE_FAIL
<1>28. ASSUME NEW o \in Returns, ExpectedRebootBegins(o) PROVE Resumed'
  BY <1>a, <1>28 DEF ExpectedRebootBegins, Resumed, InSet, Layout, CursorOK
<1>29. ASSUME NEW o \in Returns, ExpectedRebootMissed(o) PROVE Resumed'
  BY <1>a, <1>29, <1>c, EndOfStep DEF ExpectedRebootMissed, Resumed, InSet,
                                      Layout, CursorOK
<1>30. ASSUME NEW sig \in {2, 15}, Interrupt(sig) PROVE Resumed'
  BY <1>a, <1>30 DEF Interrupt, RecordInterrupt, Resumed, InSet, REMOTE_FAIL
<1>31. CASE UNCHANGED vars
  BY <1>31 DEF vars, Resumed, InSet
<1>32. CASE EmptyStep
  BY <1>a, <1>32, <1>c, EndOfStep DEF EmptyStep, Resumed, InSet, Layout,
                                      CursorOK, Walking, BailingOut
<1> QED
  BY <1>1, <1>2, <1>3, <1>4, <1>5, <1>6, <1>7, <1>8, <1>9, <1>10, <1>11,
     <1>12, <1>13, <1>14, <1>15, <1>16, <1>17, <1>18, <1>19, <1>20, <1>21,
     <1>22, <1>23, <1>24, <1>25, <1>26, <1>27, <1>28, <1>29, <1>30, <1>31, <1>32
       DEF Next, Runner, StepActions, SetActions, Conductor

\* Which set is run changes between the sets only, and resumedIn when the run
\* is resumed.
LEMMA SetChanges ==
  ASSUME [Next]_vars, ~EnterSet, InSet'
  PROVE  InSet /\ set' = set /\ (resumedIn' = resumedIn \/ resumedIn' = set)
<1> USE DEF history, observed, position, InSet
<1>1. CASE StepActions
  BY <1>1, ActionsInSet DEF StepActions, BailOutStep, EmptyStep, ManualStep, BeginStep,
                            CommandEnds,
       ExpectedRebootBegins, ExpectedRebootMissed, RebootFails, Rebooted,
       BeginPostRebootSteps, PostRebootStepsDone, JudgeReboot
<1>2. CASE SetActions
  BY <1>2, ActionsInSet DEF SetActions, ExcludeSet, NextBlock, PreStepsPass,
                            AbortSet,
       SkipCase, BeginCase, CaseWalked, CaseEnds, CasesDone, PostSteps, PostStepsDone,
       SetGets, RestoreBailOut, WriteSet, EndRun
<1>3. CASE Conductor \/ Interrupt(2) \/ Interrupt(15) \/ UNCHANGED vars
  BY <1>3, ActionsInSet DEF Conductor, ConfirmReboot, ResumeRun, Interrupt, vars
<1> QED
  BY <1>1, <1>2, <1>3 DEF Next, Runner

\* With --resume=exit no step of a set after the resume is run.
LEMMA ExitStep ==
  ASSUME Layout, Earned, Resumed, ExitRunsNoFurtherSet, [Next]_vars
  PROVE  ExitRunsNoFurtherSet'
<1>1. CASE EnterSet
  BY <1>1 DEF EnterSet, ExitRunsNoFurtherSet
<1>2. CASE ~EnterSet
  <2>1. SUFFICES ASSUME ResumeAction = "exit", resumedIn' # 0, set' > resumedIn', InSet'
                 PROVE  \A a \in DOMAIN went' : went'[a] = "none"
    BY DEF ExitRunsNoFurtherSet
  <2>2. /\ InSet /\ set' = set /\ resumedIn' = resumedIn /\ set \in Nat
    <3>1. set \in Nat
      BY TestRunAssumption DEF Layout, Here
    <3> QED
      BY <1>2, <2>1, <3>1, SetChanges
  <2>3. /\ \A a \in DOMAIN went : went[a] = "none"
        /\ bail_out # 0 /\ ~AtStep
    BY <2>1, <2>2 DEF ExitRunsNoFurtherSet, Resumed
  <2>4. ~BeginPostRebootSteps
    BY <2>3 DEF BeginPostRebootSteps, AtStep
  <2>5. CASE StepEndsSomehow
    BY <2>3, <2>5 DEF StepEndsSomehow, StepEndsAs
  <2>6. CASE OtherSteps
    BY <2>3, <2>6, PreFrameSteps DEF PreFrame
  <2> QED
    BY <1>2, <2>4, <2>5, <2>6, StepKinds
<1> QED
  BY <1>1, <1>2

\* Resumed holds in every state.
THEOREM ResumedInvariant == Spec => []Resumed
<1>1. Init => Resumed
  BY DEF Init, Resumed, InSet, In, Active, AtStep
<1>2. Layout /\ Layout' /\ Resumed /\ [Next]_vars => Resumed'
  BY ResumedStep
<1> QED
  BY <1>1, <1>2, LayoutInvariant, PTL DEF Spec

\* A run resumed with --resume=exit runs no step of a later set.
THEOREM ExitRunsNoFurther == Spec => []ExitRunsNoFurtherSet
<1>1. Init => ExitRunsNoFurtherSet
  BY DEF Init, ExitRunsNoFurtherSet, InSet
<1>2. Layout /\ Layout' /\ Earned /\ Resumed /\ Resumed' /\ ExitRunsNoFurtherSet
        /\ [Next]_vars => ExitRunsNoFurtherSet'
  BY ExitStep
<1> QED
  BY <1>1, <1>2, LayoutInvariant, EarnedInvariant, ResumedInvariant, PTL
       DEF Spec

-----------------------------------------------------------------------------
(* The process groups.                                                      *)

\* Process groups are left by the steps of the set; one left by a case is of
\* a case already begun, and step_post_process() will know it, unless the step
\* expected a reboot.
Groups ==
  /\ left \cup recorded \subseteq DOMAIN res
  /\ InSet =>
       \A a \in left : a.list = "case" =>
         /\ a.block < case \/ (a.block = case /\ CaseOpen)
         /\ StepAt(a).kind = "expected_reboot" \/ a \in recorded
         /\ a.block < case \/ pc = "case_gets" =>
              StepAt(a).kind = "expected_reboot"

\* The steps that at most add the group of the step at the cursor.
GroupsGrow ==
  /\ InSet /\ InSet'
  /\ UNCHANGED <<plan, set, case>>
  /\ DOMAIN res' = DOMAIN res
  /\ CaseOpen => CaseOpen'
  /\ pc' = "case_gets" => pc = "case_gets"
  /\ recorded' = recorded \/ (AtStep /\ recorded' = recorded \cup {cursor})
  /\ \/ left' = left
     \/ /\ AtStep /\ left' = left \cup {cursor}
        /\ cursor \in recorded' \/ Atomic.kind = "expected_reboot"

\* What they add suits Groups.
LEMMA GroupsGrowStep ==
  ASSUME Layout, Groups, GroupsGrow
  PROVE  Groups'
<1>1. Current' = Current
  BY SameSet DEF GroupsGrow
<1>2. \A a : StepAt(a)' = StepAt(a)
  BY <1>1 DEF StepAt
<1>3. AtStep => cursor \in DOMAIN res
  BY DEF Layout, Tables, CursorOK, GroupsGrow
<1>4. (left \cup recorded)' \subseteq DOMAIN res'
  BY <1>3 DEF Groups, GroupsGrow
<1>5. ASSUME NEW a \in left', a.list = "case"
      PROVE  /\ a.block < case' \/ (a.block = case' /\ CaseOpen')
             /\ StepAt(a)'.kind = "expected_reboot" \/ a \in recorded'
             /\ a.block < case' \/ pc' = "case_gets" =>
                  StepAt(a)'.kind = "expected_reboot"
  <2>1. CASE a \in left
    BY <1>2, <1>5, <2>1 DEF Groups, GroupsGrow
  <2>2. CASE a \notin left
    <3>1. /\ AtStep /\ a = cursor
          /\ cursor \in recorded' \/ Atomic.kind = "expected_reboot"
      BY <1>5, <2>2 DEF GroupsGrow
    <3>2. cursor.block = case /\ CaseOpen /\ pc # "case_gets" /\ case \in Nat
      BY <1>5, <3>1 DEF Layout, Here, CursorOK, In, Active, AtStep, CaseOpen
    <3>3. StepAt(a) = Atomic
      BY <3>1 DEF StepAt, Atomic, Block
    <3> QED
      BY <1>2, <3>1, <3>2, <3>3 DEF GroupsGrow
  <2> QED
    BY <2>1, <2>2
<1> QED
  BY <1>4, <1>5 DEF Groups

\* Groups is kept by every action.
LEMMA GroupsStep ==
  ASSUME Layout, Layout', Groups, [Next]_vars
  PROVE  Groups'
<1> USE DEF position, results, history, observed, groups, InSet, AtStep
<1>a. Walking => Active
  BY DEF Walking, Active
<1>c. StepEnds => /\ UNCHANGED <<plan, set, case>> /\ DOMAIN res' = DOMAIN res
                  /\ InSet /\ InSet' /\ pc' = "walk" /\ (CaseOpen => CaseOpen')
  BY WalkMoves DEF StepEnds, CaseOpen, Active
<1>1. CASE BailOutStep
  BY <1>1, <1>c, EndOfStep, GroupsGrowStep DEF BailOutStep, GroupsGrow
<1>2. CASE BeginStep
  BY <1>2, GroupsGrowStep DEF BeginStep, GroupsGrow, CaseOpen, Walking
<1>3. CASE RebootFails
  BY <1>3, <1>c, EndOfStep, GroupsGrowStep DEF RebootFails, GroupsGrow
<1>4. CASE Rebooted
  BY <1>4, <1>c, EndOfStep, GroupsGrowStep DEF Rebooted, GroupsGrow,
     RebootSucceeds, Conclude
<1>5. CASE BeginPostRebootSteps
  BY <1>5, GroupsGrowStep DEF BeginPostRebootSteps, GroupsGrow, EnterList,
                              CaseOpen, At
<1>6. CASE PostRebootStepsDone
  BY <1>6, GroupsGrowStep DEF PostRebootStepsDone, GroupsGrow, WalkDone,
                              CaseOpen, Layout, CursorOK, In, Active
<1>7. CASE JudgeReboot
  BY <1>7, <1>c, EndOfStep, GroupsGrowStep DEF JudgeReboot, GroupsGrow,
     RebootSucceeds, Conclude
<1>8. CASE PreStepsPass
  BY <1>8, GroupsGrowStep DEF PreStepsPass, GroupsGrow, LastBlockDone,
                              WalkDone, CaseOpen
<1>9. CASE AbortSet
  BY <1>9, GroupsGrowStep DEF AbortSet, GroupsGrow, LastBlockDone, WalkDone,
                              CaseOpen
<1>10. CASE NextBlock
  BY <1>10, GroupsGrowStep DEF NextBlock, GroupsGrow, WalkDone, CaseOpen, At
<1>11. CASE CasesDone
  BY <1>11, GroupsGrowStep DEF CasesDone, GroupsGrow, CaseOpen
<1>12. CASE PostSteps
  BY <1>12, GroupsGrowStep DEF PostSteps, GroupsGrow, EnterList, CaseOpen
<1>13. CASE PostStepsDone
  BY <1>13, GroupsGrowStep DEF PostStepsDone, GroupsGrow, LastBlockDone,
                               WalkDone, CaseOpen
<1>14. CASE SetGets
  BY <1>14, GroupsGrowStep DEF SetGets, GroupsGrow, CaseOpen
<1>15. CASE RestoreBailOut
  BY <1>15, GroupsGrowStep DEF RestoreBailOut, GroupsGrow, CaseOpen
<1>16. CASE BeginCase
  BY <1>16, GroupsGrowStep DEF BeginCase, GroupsGrow, MoreCases, CaseOpen
<1>17. CASE ConfirmReboot
  BY <1>17, GroupsGrowStep DEF ConfirmReboot, GroupsGrow, CaseOpen
<1>18. CASE ResumeRun
  BY <1>18, GroupsGrowStep DEF ResumeRun, GroupsGrow, CaseOpen
<1>19. ASSUME NEW v \in Verdicts, ManualStep(v) PROVE Groups'
  BY <1>19, <1>c, EndOfStep, GroupsGrowStep DEF ManualStep, GroupsGrow
<1>20. ASSUME NEW o \in Returns, CommandEnds(o) PROVE Groups'
  BY <1>20, <1>c, EndOfStep, GroupsGrowStep DEF CommandEnds, GroupsGrow,
     Conclude
<1>21. ASSUME NEW o \in Returns, ExpectedRebootBegins(o) PROVE Groups'
  BY <1>21, GroupsGrowStep DEF ExpectedRebootBegins, GroupsGrow, CaseOpen
<1>22. ASSUME NEW o \in Returns, ExpectedRebootMissed(o) PROVE Groups'
  BY <1>22, <1>c, EndOfStep, GroupsGrowStep DEF ExpectedRebootMissed, GroupsGrow
<1>23. CASE InSet /\ (Interrupt(2) \/ Interrupt(15) \/ UNCHANGED vars)
  BY <1>23, GroupsGrowStep DEF Interrupt, GroupsGrow, CaseOpen, vars
<1>24. CASE ~InSet /\ (Interrupt(2) \/ Interrupt(15) \/ UNCHANGED vars)
  BY <1>24, BetweenSets DEF Interrupt, Groups, vars
<1>25. CASE ExcludeSet \/ WriteSet \/ EndRun
  BY <1>25, BetweenSets DEF Groups, ExcludeSet, WriteSet, EndRun, Sweep
<1>26. CASE EnterSet
  BY <1>26 DEF EnterSet, Groups
<1>27. CASE SkipCase
  <2>1. /\ InSet /\ InSet' /\ case' = case + 1 /\ pc' = "case" /\ case \in Nat
        /\ pc = "case_gets" \/ ~CaseOpen
        /\ UNCHANGED <<plan, set, res, left, recorded>>
    BY <1>27 DEF SkipCase, MoreCases, Layout, Here, CaseOpen
  <2>2. Current' = Current /\ \A a : StepAt(a)' = StepAt(a)
    BY <2>1, SameSet DEF StepAt
  <2>3. \A a \in left : a.list = "case" =>
          a.block \in Nat /\ a.block < case' /\ StepAt(a).kind = "expected_reboot"
    <3>1. \A a \in left : a.block \in Nat
      BY <2>1, InSetTypes, SpotIs DEF Layout, Tables, Groups, Positions
    <3> QED
      BY <2>1, <3>1 DEF Groups
  <2> QED
    BY <2>1, <2>2, <2>3 DEF Groups
<1>28. CASE CaseEnds
  <2>1. /\ InSet /\ InSet' /\ case' = case + 1 /\ pc' = "case" /\ case \in Nat
        /\ pc = "case_gets" \/ ~CaseOpen
        /\ UNCHANGED <<plan, set, res, left, recorded>>
    BY <1>28 DEF CaseEnds, Layout, Here, CaseOpen
  <2>2. Current' = Current /\ \A a : StepAt(a)' = StepAt(a)
    BY <2>1, SameSet DEF StepAt
  <2>3. \A a \in left : a.list = "case" =>
          a.block \in Nat /\ a.block < case' /\ StepAt(a).kind = "expected_reboot"
    <3>1. \A a \in left : a.block \in Nat
      BY <2>1, InSetTypes, SpotIs DEF Layout, Tables, Groups, Positions
    <3> QED
      BY <2>1, <3>1 DEF Groups
  <2> QED
    BY <2>1, <2>2, <2>3 DEF Groups
<1>29. CASE CaseWalked
  <2>1. /\ InSet /\ InSet' /\ CaseOpen /\ CaseOpen' /\ case \in Nat
        /\ UNCHANGED <<plan, set, case, res, recorded>>
        /\ left' = left \ {a \in recorded : a.list = "case" /\ a.block = case}
    BY <1>29 DEF CaseWalked, WalkDone, Layout, Here, CaseOpen, Sweep
  <2>2. Current' = Current /\ \A a : StepAt(a)' = StepAt(a)
    BY <2>1, SameSet DEF StepAt
  <2> QED
    BY <2>1, <2>2 DEF Groups
<1>30. CASE EmptyStep
  BY <1>30, <1>c, EndOfStep, GroupsGrowStep DEF EmptyStep, GroupsGrow
<1> QED
  BY <1>1, <1>2, <1>3, <1>4, <1>5, <1>6, <1>7, <1>8, <1>9, <1>10, <1>11,
     <1>12, <1>13, <1>14, <1>15, <1>16, <1>17, <1>18, <1>19, <1>20, <1>21,
     <1>22, <1>23, <1>24, <1>25, <1>26, <1>27, <1>28, <1>29, <1>30 DEF Next, Runner,
     StepActions, SetActions, Conductor

\* Groups holds in every state.
THEOREM GroupsInvariant == Spec => []Groups
<1>1. Init => Groups
  BY DEF Init, Groups, InSet
<1>2. Layout /\ Layout' /\ Groups /\ [Next]_vars => Groups'
  BY GroupsStep
<1> QED
  BY <1>1, <1>2, LayoutInvariant, PTL DEF Spec

\* No group of a step of a finished case's own list is left running on the host,
\* expected reboots apart; post reboot steps are not walked for that.
THEOREM CaseStepsAreSwept == Spec => []CaseStepsSwept
<1>1. Groups => CaseStepsSwept
  BY DEF Groups, CaseStepsSwept, Finished, InSet
<1> QED
  BY <1>1, GroupsInvariant, PTL

-----------------------------------------------------------------------------
(* The verdicts that are not given yet.                                     *)

\* A case that is not begun, or filtered, has the FAIL it was allocated with.
Undecided ==
  InSet =>
    /\ \A j \in 1..Cases :
         j > case \/ (j = case /\ ~CaseOpen) => verdict[j] = "FAIL"
    /\ filtered \subseteq 1..case - 1
    /\ \A j \in filtered : verdict[j] = "FAIL"
    /\ pc = "write" /\ case # Cases + 1 =>
         case = 1 /\ \A j \in 1..Cases : verdict[j] = "FAIL"

\* The steps that decide no case: they change the verdict of the open one.
DecidesNothing ==
  /\ InSet /\ InSet'
  /\ UNCHANGED <<plan, set, case, filtered>>
  /\ CaseOpen => CaseOpen'
  /\ \A j \in 1..Cases : j # case \/ ~CaseOpen' => verdict'[j] = verdict[j]
  /\ pc' = "write" => pc = "write" \/ case = Cases + 1
  /\ pc = "write" => pc' = "write"

\* The end of a step decides nothing.
LEMMA EndOfStepDecidesNothing ==
  ASSUME Layout, StepEndsSomehow
  PROVE  DecidesNothing
<1>1. PICK v \in Verdicts, w \in Marks, on \in BOOLEAN :
        StepEndsAs(v, w, on)
  BY DEF StepEndsSomehow
<1>2. /\ InSet /\ InSet' /\ Active /\ Active' /\ Walk(on) /\ Judge(v) /\ pc' = "walk"
      /\ UNCHANGED <<plan, set, case, filtered>> /\ pc # "write"
  BY <1>1 DEF StepEndsAs, Active, AtStep, InSet
<1>3. cursor'.list = cursor.list
  BY <1>2, WalkMoves
<1>4. CaseOpen => CaseOpen'
  BY <1>2, <1>3 DEF CaseOpen
<1>5. \A j \in 1..Cases : j # case \/ ~CaseOpen' => verdict'[j] = verdict[j]
  <2>1. CASE InDummy
    BY <1>2, <2>1 DEF Judge
  <2>2. CASE ~InDummy
    <3>1. cursor.list = "case" /\ cursor.block = case /\ CaseOpen'
      BY <1>2, <1>3, <2>2 DEF InDummy, Layout, CursorOK, In, CaseOpen
    <3>2. verdict \in [1..Cases -> Verdicts]
      BY <1>2 DEF Layout, Tables
    <3> QED
      BY <1>2, <2>2, <3>1, <3>2 DEF Judge
  <2> QED
    BY <2>1, <2>2
<1> QED
  BY <1>2, <1>4, <1>5 DEF DecidesNothing

\* Neither do the steps that run nothing, nor the beginning of a case.
LEMMA QuietDecidesNothing ==
  ASSUME Layout,
         \/ BeginStep \/ (\E o \in Returns : ExpectedRebootBegins(o))
         \/ BeginPostRebootSteps \/ PostRebootStepsDone
         \/ NextBlock \/ PreStepsPass \/ BeginCase \/ CaseWalked
         \/ CasesDone \/ PostSteps \/ PostStepsDone \/ SetGets \/ RestoreBailOut
         \/ Conductor
         \/ (InSet /\ (Interrupt(2) \/ Interrupt(15) \/ UNCHANGED vars))
  PROVE  DecidesNothing
<1> USE DEF DecidesNothing, position, results, history, observed, InSet,
            CaseOpen
<1>1. CASE BeginStep
  BY <1>1 DEF BeginStep, Walking
<1>2. CASE BeginPostRebootSteps
  BY <1>2 DEF BeginPostRebootSteps, EnterList, At
<1>3. CASE PostRebootStepsDone
  BY <1>3 DEF PostRebootStepsDone, WalkDone, Layout, CursorOK, In, Active
<1>4. CASE NextBlock
  BY <1>4 DEF NextBlock, WalkDone, At
<1>5. CASE PreStepsPass
  BY <1>5 DEF PreStepsPass, LastBlockDone, WalkDone
<1>6. CASE BeginCase
  BY <1>6 DEF BeginCase, MoreCases, At, Layout, Tables
<1>7. CASE CaseWalked
  BY <1>7 DEF CaseWalked, WalkDone
<1>8. CASE CasesDone
  BY <1>8 DEF CasesDone
<1>9. CASE PostSteps
  BY <1>9 DEF PostSteps, EnterList
<1>10. CASE PostStepsDone
  BY <1>10 DEF PostStepsDone, LastBlockDone, WalkDone
<1>11. CASE SetGets
  BY <1>11 DEF SetGets
<1>12. CASE RestoreBailOut
  BY <1>12 DEF RestoreBailOut, Layout, CursorOK
<1>13. ASSUME NEW o \in Returns, ExpectedRebootBegins(o) PROVE DecidesNothing
  BY <1>13 DEF ExpectedRebootBegins
<1>14. CASE Conductor
  BY <1>14 DEF Conductor, ConfirmReboot, ResumeRun
<1>15. CASE InSet /\ (Interrupt(2) \/ Interrupt(15) \/ UNCHANGED vars)
  BY <1>15 DEF Interrupt, vars
<1> QED
  BY <1>1, <1>2, <1>3, <1>4, <1>5, <1>6, <1>7, <1>8, <1>9, <1>10, <1>11,
     <1>12, <1>13, <1>14, <1>15

\* All other steps skip, close or abort cases, or stand between two sets.
LEMMA Deciding ==
  ASSUME Layout, Earned, [Next]_vars
  PROVE  \/ DecidesNothing
         \/ SkipCase \/ CaseEnds \/ AbortSet \/ EnterSet
         \/ ExcludeSet \/ WriteSet \/ EndRun
         \/ (~InSet /\ (Interrupt(2) \/ Interrupt(15) \/ UNCHANGED vars))
BY StepKinds, EndOfStepDecidesNothing, QuietDecidesNothing DEF OtherSteps,
   SetActions

\* Undecided is kept by every action.
LEMMA UndecidedStep ==
  ASSUME Layout, Layout', Earned, Undecided, [Next]_vars
  PROVE  Undecided'
<1>a. InSet => /\ Cases \in Nat /\ case \in Nat \ {0} /\ verdict \in [1..Cases -> Verdicts]
               /\ case <= Cases + 1
  BY InSetTypes DEF Layout, Here, Tables
<1>b. plan' = plan /\ set' = set => Cases' = Cases
  BY SameSet
<1>1. CASE DecidesNothing
  <2>1. /\ InSet /\ InSet' /\ Cases' = Cases
    BY <1>1, <1>b DEF DecidesNothing
  <2>2. \A j \in filtered : j \in 1..Cases /\ j # case
    BY <1>a, <2>1 DEF Undecided
  <2>3. pc' = "write" => ~CaseOpen'
    BY DEF CaseOpen
  <2> QED
    BY <1>1, <1>a, <2>1, <2>2, <2>3 DEF DecidesNothing, Undecided
<1>2. CASE SkipCase
  <2>1. /\ InSet /\ InSet' /\ Cases' = Cases /\ case' = case + 1 /\ case <= Cases
        /\ pc' = "case" /\ ~CaseOpen
        /\ \/ filtered' = filtered \cup {case} /\ verdict' = verdict
           \/ verdict' = [verdict EXCEPT ![case] = "N/A"] /\ filtered' = filtered
    BY <1>2, <1>b DEF SkipCase, MoreCases, InSet, Cases, CaseOpen
  <2> QED
    BY <1>a, <2>1 DEF Undecided
<1>3. CASE CaseEnds
  <2>1. /\ InSet /\ InSet' /\ Cases' = Cases /\ case' = case + 1 /\ filtered' = filtered
        /\ pc' = "case" /\ verdict' \in {verdict, [verdict EXCEPT ![case] = "FAIL"]}
    BY <1>3, <1>b DEF CaseEnds, MeasurementsOf, InSet
  <2> QED
    BY <1>a, <2>1 DEF Undecided
<1>4. CASE AbortSet
  <2>1. /\ InSet /\ InSet' /\ Cases' = Cases /\ case' = case /\ filtered' = filtered
        /\ case = 1 /\ verdict' = [j \in DOMAIN verdict |-> "FAIL"]
    BY <1>4, <1>b DEF AbortSet, InSet, LastBlockDone, WalkDone, Layout,
                      CursorOK, In, Active
  <2> QED
    BY <1>a, <2>1 DEF Undecided
<1>5. CASE EnterSet
  <2>1. /\ InSet' /\ case' = 1 /\ filtered' = {} /\ pc' # "write"
        /\ verdict' = [j \in DOMAIN Current.case |-> "FAIL"]
        /\ DOMAIN Current.case = 1..Cases' /\ Cases' \in Nat
    <3>1. plan \in Plans /\ set \in 1..Len(plan)
      BY <1>5, TestRunAssumption DEF EnterSet, Layout, Here
    <3> QED
      BY <1>5, <1>b, <3>1, ProgramTypes DEF EnterSet, EnterList, InSet
  <2> QED
    BY <2>1 DEF Undecided
<1>6. CASE \/ ExcludeSet \/ WriteSet \/ EndRun
           \/ (~InSet /\ (Interrupt(2) \/ Interrupt(15) \/ UNCHANGED vars))
  BY <1>6, BetweenSets DEF Undecided
<1> QED
  BY <1>1, <1>2, <1>3, <1>4, <1>5, <1>6, Deciding

\* Undecided holds in every state.
THEOREM UndecidedInvariant == Spec => []Undecided
<1>1. Init => Undecided
  BY DEF Init, Undecided, InSet
<1>2. Layout /\ Layout' /\ Earned /\ Undecided /\ [Next]_vars => Undecided'
  BY UndecidedStep
<1> QED
  BY <1>1, <1>2, LayoutInvariant, EarnedInvariant, PTL DEF Spec

-----------------------------------------------------------------------------
(* The counter of passed cases.                                             *)

\* The verdicts written for a set; the passed cases of the sets written so far,
\* and of the current set.
SetReports == UNION {[S -> Verdicts] : S \in SUBSET Nat}
ReportedPasses(r) == UNION {{<<s, j>> : j \in Passes(r[s])} : s \in DOMAIN r}
OwnPasses == {j \in Finished : verdict[j] = "PASS"}

\* The cases that passed: those of the sets that are reported, and those of
\* this set that are finished.
CountedPasses ==
  ReportedPasses(report) \cup {<<Len(report) + 1, j>> : j \in OwnPasses}

\* The counter is the number of them at every moment, not only at the end.
Counting ==
  /\ report \in Seq(SetReports)
  /\ IsFiniteSet(CountedPasses)
  /\ passcount = Cardinality(CountedPasses)

\* Only the end of a case counts, only the end of a set reports.
LEMMA CountersMove ==
  ASSUME [Next]_vars
  PROVE  UNCHANGED <<report, passcount>> \/ CaseEnds \/ WriteSet
BY DEF Next, Runner, StepActions, SetActions, Conductor, BailOutStep,
       EmptyStep, ManualStep,
       BeginStep, CommandEnds, ExpectedRebootBegins, ExpectedRebootMissed,
       RebootFails, Rebooted, BeginPostRebootSteps, PostRebootStepsDone,
       JudgeReboot, NextBlock, PreStepsPass, AbortSet, SkipCase, BeginCase,
       CaseWalked, CasesDone, PostSteps, PostStepsDone, SetGets, RestoreBailOut,
       ExcludeSet, EnterSet, EndRun, ConfirmReboot, ResumeRun, Interrupt, vars,
       counters, history, observed

\* Reporting a set adds its passed cases.
LEMMA ReportPasses ==
  ASSUME NEW r \in Seq(SetReports), NEW t \in SetReports
  PROVE  /\ Append(r, t) \in Seq(SetReports)
         /\ ReportedPasses(Append(r, t)) =
              ReportedPasses(r) \cup {<<Len(r) + 1, j>> : j \in Passes(t)}
         /\ \A p \in ReportedPasses(r) : p[1] \in 1..Len(r)
<1> DEFINE q == Append(r, t)
<1>1. /\ q \in Seq(SetReports) /\ Len(q) = Len(r) + 1 /\ Len(r) \in Nat
      /\ \A i \in 1..Len(r) : q[i] = r[i]
      /\ q[Len(r) + 1] = t
  OBVIOUS
<1>2. DOMAIN r = 1..Len(r) /\ DOMAIN q = 1..Len(r) + 1
  BY <1>1
<1>3. DOMAIN q = DOMAIN r \cup {Len(r) + 1}
  BY <1>1, <1>2
<1>4. \A i \in DOMAIN r : q[i] = r[i]
  BY <1>1, <1>2
<1>5. \A p \in ReportedPasses(r) : p[1] \in 1..Len(r)
  BY <1>2 DEF ReportedPasses
<1> HIDE DEF q
<1>6. ReportedPasses(q) =
        ReportedPasses(r) \cup {<<Len(r) + 1, j>> : j \in Passes(t)}
  <2>1. \A x, p : p \in ReportedPasses(x) <=>
          \E i \in DOMAIN x : \E j \in Passes(x[i]) : p = <<i, j>>
    <3> TAKE x, p
    <3>1. ASSUME p \in ReportedPasses(x)
          PROVE  \E i \in DOMAIN x : \E j \in Passes(x[i]) : p = <<i, j>>
      <4>1. PICK i \in DOMAIN x : p \in {<<i, j>> : j \in Passes(x[i])}
        BY <3>1 DEF ReportedPasses
      <4> QED
        BY <4>1
    <3>2. ASSUME NEW i \in DOMAIN x, NEW j \in Passes(x[i]), p = <<i, j>>
          PROVE  p \in ReportedPasses(x)
      BY <3>2 DEF ReportedPasses
    <3> QED
      BY <3>1, <3>2
  <2>2. q[Len(r) + 1] = t
    BY <1>1 DEF q
  <2>3. ASSUME NEW p
        PROVE  p \in ReportedPasses(q) <=>
                 \/ p \in ReportedPasses(r)
                 \/ \E j \in Passes(t) : p = <<Len(r) + 1, j>>
    <3>1. \A i \in DOMAIN r : Passes(q[i]) = Passes(r[i])
      BY <1>4
    <3>2. Passes(q[Len(r) + 1]) = Passes(t)
      BY <2>2
    <3>3. p \in ReportedPasses(q) <=>
            \/ \E i \in DOMAIN r : \E j \in Passes(q[i]) : p = <<i, j>>
            \/ \E j \in Passes(q[Len(r) + 1]) : p = <<Len(r) + 1, j>>
      BY <1>3, <2>1
    <3> QED
      BY <2>1, <3>1, <3>2, <3>3
  <2>4. \A p : p \in ReportedPasses(q) <=>
               p \in ReportedPasses(r) \cup {<<Len(r) + 1, j>> : j \in Passes(t)}
    BY <2>3, Zenon
  <2> QED
    BY <2>4
<1> QED
  BY <1>1, <1>5, <1>6 DEF q

\* Counting is kept by every action.
LEMMA CountingStep ==
  ASSUME Layout, Layout', Earned, Undecided, Counting, [Next]_vars
  PROVE  Counting'
<1>a. InSet => /\ Cases \in Nat /\ case \in Nat \ {0}
               /\ verdict \in [1..Cases -> Verdicts] /\ case <= Cases + 1
               /\ OwnPasses = {j \in 1..Cases : j < case /\ verdict[j] = "PASS"}
  BY InSetTypes DEF Layout, Here, Tables, OwnPasses, Finished, InSet
<1>b. ~InSet => OwnPasses = {}
  BY DEF OwnPasses, Finished, InSet
<1>c. plan' = plan /\ set' = set => Cases' = Cases
  BY SameSet
<1>d. InSet' => OwnPasses' = {j \in DOMAIN verdict' : j < case' /\ verdict'[j] = "PASS"}
  BY DEF OwnPasses, Finished, InSet
<1>e. ~InSet' => OwnPasses' = {}
  BY DEF OwnPasses, Finished, InSet
<1>f. InSet' => DOMAIN verdict' = 1..Cases'
  BY DEF Layout, Tables
<1>0. ASSUME OwnPasses' = OwnPasses, UNCHANGED <<report, passcount>>
      PROVE  Counting'
  BY <1>0 DEF Counting, CountedPasses, ReportedPasses, Passes
<1>1. CASE DecidesNothing /\ UNCHANGED <<report, passcount>>
  <2>1. /\ InSet /\ InSet' /\ Cases' = Cases /\ case' = case
        /\ \A j \in 1..Cases : j # case => verdict'[j] = verdict[j]
    BY <1>1, <1>c DEF DecidesNothing
  <2>2. OwnPasses' = {j \in 1..Cases : j < case /\ verdict'[j] = "PASS"}
    BY <1>d, <1>f, <2>1
  <2>3. \A j \in 1..Cases : j < case /\ verdict'[j] = "PASS"
                            <=> j < case /\ verdict[j] = "PASS"
    BY <1>a, <2>1
  <2>4. OwnPasses' = OwnPasses
    BY <1>a, <2>1, <2>2, <2>3
  <2> QED
    BY <1>0, <1>1, <2>4
<1>2. CASE SkipCase
  <2>1. /\ InSet /\ InSet' /\ Cases' = Cases /\ case' = case + 1
        /\ pc = "case" /\ case <= Cases
        /\ UNCHANGED <<report, passcount>>
        /\ \/ verdict' = verdict
           \/ verdict' = [verdict EXCEPT ![case] = "N/A"]
    BY <1>2, <1>c DEF SkipCase, MoreCases, InSet, Cases, counters, history,
                      observed
  <2>2. verdict[case] = "FAIL"
    BY <1>a, <2>1 DEF Undecided, CaseOpen
  <2>3. OwnPasses' = {j \in 1..Cases : j < case + 1 /\ verdict'[j] = "PASS"}
    BY <1>d, <1>f, <2>1
  <2>4. \A j \in 1..Cases : j < case + 1 /\ verdict'[j] = "PASS"
                            <=> j < case /\ verdict[j] = "PASS"
    BY <1>a, <2>1, <2>2
  <2>5. OwnPasses' = OwnPasses
    BY <1>a, <2>1, <2>3, <2>4
  <2> QED
    BY <1>0, <2>1, <2>5
<1>3. CASE CaseEnds
  <2>1. /\ InSet /\ InSet' /\ Cases' = Cases /\ case' = case + 1 /\ report' = report
        /\ case <= Cases
        /\ verdict' \in {verdict, [verdict EXCEPT ![case] = "FAIL"]}
        /\ passcount' = passcount + (IF verdict'[case] = "PASS" THEN 1 ELSE 0)
    BY <1>3, <1>c DEF CaseEnds, MeasurementsOf, InSet, Counted, Layout, CursorOK
  <2>2. OwnPasses' = OwnPasses \cup (IF verdict'[case] = "PASS" THEN {case} ELSE {})
    BY <1>a, <1>d, <1>f, <2>1
  <2>3. case \notin OwnPasses
    BY <1>a, <2>1
  <2>4. Len(report) \in Nat
        /\ \A p \in ReportedPasses(report) : p[1] \in 1..Len(report)
    <3>1. PICK t : t \in SetReports
      <4>1. [j \in {} |-> "PASS"] \in [{} -> Verdicts]
        BY DEF Verdicts
      <4> QED
        BY <4>1 DEF SetReports
    <3> QED
      BY <3>1, ReportPasses DEF Counting
  <2>5. CASE verdict'[case] = "PASS"
    <3>1. CountedPasses' = CountedPasses \cup {<<Len(report) + 1, case>>}
      BY <2>1, <2>2, <2>5 DEF CountedPasses
    <3>2. <<Len(report) + 1, case>> \notin CountedPasses
      BY <2>3, <2>4 DEF CountedPasses
    <3> QED
      BY <2>1, <2>5, <3>1, <3>2, FS_AddElement, FS_CardinalityType DEF Counting
  <2>6. CASE verdict'[case] # "PASS"
    BY <2>1, <2>2, <2>6, <1>0, FS_CardinalityType DEF Counting
  <2> QED
    BY <2>5, <2>6
<1>4. CASE AbortSet
  <2>1. /\ InSet /\ InSet' /\ case' = case /\ case = 1
        /\ UNCHANGED <<report, passcount>>
    BY <1>4 DEF AbortSet, InSet, LastBlockDone, WalkDone, Layout, CursorOK,
                In, Active,
                counters, history, observed
  <2>2. OwnPasses = {} /\ OwnPasses' = {}
    BY <1>a, <1>d, <1>f, <2>1
  <2> QED
    BY <1>0, <2>1, <2>2
<1>5. CASE EnterSet
  <2>1. /\ ~InSet /\ InSet' /\ case' = 1 /\ UNCHANGED <<report, passcount>>
    BY <1>5 DEF EnterSet, EnterList, InSet, counters
  <2>2. OwnPasses' = {}
    BY <1>d, <1>f, <2>1
  <2> QED
    BY <1>0, <1>b, <2>1, <2>2
<1>6. CASE WriteSet
  <2> DEFINE t == [j \in DOMAIN verdict \ filtered |-> verdict[j]]
  <2>1. /\ InSet /\ ~InSet' /\ report' = Append(report, t) /\ passcount' = passcount
        /\ pc = "write"
    BY <1>6 DEF WriteSet, InSet, counters
  <2>2. Passes(t) = OwnPasses
    BY <1>a, <2>1 DEF Passes, Undecided, CaseOpen
  <2>3. t \in SetReports
    <3>1. /\ DOMAIN verdict \ filtered \in SUBSET Nat
          /\ t \in [DOMAIN verdict \ filtered -> Verdicts]
      BY <1>a, <2>1
    <3> QED
      BY <3>1 DEF SetReports
  <2>4. CountedPasses' = CountedPasses /\ report' \in Seq(SetReports)
    <3> HIDE DEF t
    <3> QED
      BY <1>e, <2>1, <2>2, <2>3, ReportPasses DEF CountedPasses, Counting
  <2> QED
    BY <2>1, <2>4 DEF Counting
<1>7. CASE \/ ExcludeSet \/ EndRun
           \/ (~InSet /\ (Interrupt(2) \/ Interrupt(15) \/ UNCHANGED vars))
  <2>1. ~InSet /\ UNCHANGED <<report, passcount>>
    BY <1>7 DEF ExcludeSet, EndRun, InSet, Interrupt, vars, counters, history,
                observed
  <2>2. ~InSet'
    BY <1>7, BetweenSets
  <2> QED
    BY <1>0, <1>b, <1>e, <2>1, <2>2
<1>8. DecidesNothing => UNCHANGED <<report, passcount>> \/ CaseEnds \/ WriteSet
  BY CountersMove
<1> QED
  BY <1>1, <1>2, <1>3, <1>4, <1>5, <1>6, <1>7, <1>8, Deciding

\* The number of passed cases the log ends with is the number of cases that
\* are PASS in the results.
THEOREM PassesAreCountedAlways == Spec => []PassesAreCounted
<1>1. Init => Counting
  <2> SUFFICES ASSUME Init PROVE Counting
    OBVIOUS
  <2>1. /\ report = <<>> /\ passcount = 0 /\ OwnPasses = {}
    BY DEF Init, OwnPasses, Finished
  <2>2. CountedPasses = {}
    BY <2>1 DEF CountedPasses, ReportedPasses
  <2> QED
    BY <2>1, <2>2, FS_EmptySet DEF Counting
<1>2. Layout /\ Layout' /\ Earned /\ Undecided /\ Counting /\ [Next]_vars => Counting'
  BY CountingStep
<1>3. Counting => PassesAreCounted
  <2> SUFFICES ASSUME Counting, pc = "end" PROVE PassesAreCounted
    BY DEF PassesAreCounted
  <2>1. OwnPasses = {}
    BY DEF OwnPasses, Finished
  <2>2. CountedPasses = ReportedPasses(report)
    BY <2>1 DEF CountedPasses
  <2> QED
    BY <2>2 DEF Counting, PassesAreCounted, ReportedPasses
<1> QED
  BY <1>1, <1>2, <1>3, LayoutInvariant, EarnedInvariant, UndecidedInvariant,
     PTL DEF Spec

-----------------------------------------------------------------------------
(* The types.                                                               *)

\* The variables that no other invariant speaks of.
Scalars ==
  /\ dummy \in {"PASS", "FAIL"}
  /\ edata \in [Lists -> Outcomes \cup {NoOutcome}]
  /\ bail_out \in {0, REMOTE_FAIL} \cup Interrupted
  /\ casecount \in Nat /\ passcount \in Nat /\ failcount \in Nat

\* The flags.
Flags == tainted \in BOOLEAN /\ told \in BOOLEAN /\ interrupted \in BOOLEAN

\* Scalars and Flags are kept by every action.
LEMMA ScalarsStep ==
  ASSUME Layout, Scalars, Flags, [Next]_vars
  PROVE  Scalars' /\ Flags'
<1> USE DEF Next, Runner, StepActions, SetActions, Conductor, BailOutStep,
        EmptyStep, ManualStep, BeginStep, CommandEnds, ExpectedRebootBegins,
        ExpectedRebootMissed, RebootFails, Rebooted, BeginPostRebootSteps,
        PostRebootStepsDone, JudgeReboot, NextBlock, PreStepsPass, AbortSet,
        SkipCase, BeginCase, CaseWalked, CaseEnds, CasesDone, PostSteps,
        PostStepsDone, SetGets, RestoreBailOut, WriteSet, ExcludeSet, EnterSet,
        EndRun, ConfirmReboot, ResumeRun, Interrupt, vars
<1>1. dummy' \in {"PASS", "FAIL"}
  BY DEF Scalars, Judge, EnterList, Conclude, RebootSucceeds, DummyAfterBlock,
         results
<1>2. edata' \in [Lists -> Outcomes \cup {NoOutcome}]
  <2>1. \/ edata' = edata
        \/ \E o \in Returns : edata' = [edata EXCEPT ![cursor.list] = o]
    BY DEF results
  <2>2. Returns \subseteq Outcomes
    BY DEF Returns
  <2> QED
    BY <2>1, <2>2 DEF Scalars
<1>3. bail_out' \in {0, REMOTE_FAIL} \cup Interrupted
  BY DEF Scalars, GetsOf, RecordInterrupt, BailOutAfter, Restored,
         REMOTE_FAIL, Interrupted
<1>4. casecount' \in Nat /\ passcount' \in Nat /\ failcount' \in Nat
  <2>1. casecount' \in {casecount, casecount + 1}
    BY DEF counters
  <2>2. passcount' \in {passcount, passcount + 1, passcount + 0}
    BY DEF counters
  <2>3. failcount' \in {failcount, failcount + 1, failcount + 0}
    BY DEF counters
  <2> HIDE DEF Next
  <2> QED
    BY <2>1, <2>2, <2>3 DEF Scalars
<1>5. tainted' \in {tainted, bail_out # 0, FALSE}
  BY Zenon DEF observed, history
<1>6. told' \in {told, told \/ pc' = "suspended"}
  BY Zenon DEF observed, history, TellParent
<1>7. interrupted' \in {interrupted, interrupted \/ bail_out = 0}
  BY Zenon DEF history
<1>8. Flags'
  <2> HIDE DEF Next
  <2> QED
    BY <1>5, <1>6, <1>7 DEF Flags
<1> QED
  BY <1>1, <1>2, <1>3, <1>4, <1>8 DEF Scalars

\* The verdicts are verdicts, also when the set is left.
Written ==
  /\ \A j \in DOMAIN verdict : verdict[j] \in Verdicts
  /\ filtered \subseteq DOMAIN verdict

\* Written is kept by every action.
LEMMA WrittenStep ==
  ASSUME Layout, Layout', Earned, Undecided', Written, [Next]_vars
  PROVE  Written'
<1>1. CASE InSet'
  <2>1. Cases' \in Nat
    <3>1. plan' \in Seq(TestSet) /\ set' \in 1..Len(plan')
      BY <1>1, TestRunAssumption DEF Layout, Here
    <3>2. plan'[set'] \in TestSet
      BY <3>1
    <3>3. plan'[set'].case \in Seq(Seq(Step))
      BY <3>2 DEF TestSet
    <3> QED
      BY <3>3 DEF Cases, Current
  <2> QED
    <3>1. /\ verdict' \in [1..Cases' -> Verdicts]
          /\ case' \in Nat \ {0} /\ case' <= Cases' + 1
      BY <1>1 DEF Layout, Here, Tables
    <3>2. filtered' \subseteq 1..case' - 1
      BY <1>1 DEF Undecided
    <3>3. 1..case' - 1 \subseteq 1..Cases'
      <4>1. \A c, n \in Nat : c <= n + 1 => 1..c - 1 \subseteq 1..n
        OBVIOUS
      <4>2. case' \in Nat /\ Cases' \in Nat /\ case' <= Cases' + 1
        BY <2>1, <3>1
      <4> QED
        BY <4>1, <4>2
    <3>4. DOMAIN verdict' = 1..Cases'
          /\ \A j \in DOMAIN verdict' : verdict'[j] \in Verdicts
      BY <3>1
    <3> QED
      BY <3>2, <3>3, <3>4 DEF Written
<1>2. CASE ~InSet'
  <2>1. \/ ExcludeSet \/ WriteSet \/ EndRun
        \/ ~InSet /\ (UNCHANGED vars \/ Interrupt(2) \/ Interrupt(15))
    BY <1>2, Deciding DEF DecidesNothing, SkipCase, CaseEnds, AbortSet,
                          EnterSet,
                          MoreCases, EnterList, InSet
  <2>2. UNCHANGED <<verdict, filtered>>
    BY <2>1, BetweenSets
  <2> QED
    BY <2>2 DEF Written
<1> QED
  BY <1>1, <1>2

\* The variables of the processor have their types.
THEOREM TypeCorrect == Spec => []TypeOK
<1>1. Init => Scalars /\ Flags /\ Written
  <2> SUFFICES ASSUME Init PROVE Scalars /\ Flags /\ Written
    OBVIOUS
  <2>1. Scalars
    BY DEF Init, Scalars
  <2>2. Flags
    BY Zenon DEF Init, Flags
  <2>3. Written
    BY DEF Init, Written
  <2> QED
    BY <2>1, <2>2, <2>3
<1>2. Layout /\ Layout' /\ Earned /\ Undecided' /\ Scalars /\ Flags /\ Written
        /\ [Next]_vars => Scalars' /\ Flags' /\ Written'
  BY ScalarsStep, WrittenStep
<1>3. Layout /\ Scalars /\ Flags /\ Written /\ Resumed /\ Groups => TypeOK
  <2> SUFFICES ASSUME Layout, Scalars, Flags, Written, Resumed, Groups PROVE TypeOK
    OBVIOUS
  <2>1. {tainted, told, interrupted} \subseteq BOOLEAN
    BY Zenon DEF Flags
  <2>2. {cursor.list, outer.list} \subseteq Lists /\ case \in Nat
    BY DEF Layout, Here, Positions
  <2>3. plan \in Plans /\ pc \in PC /\ set \in 1..Len(plan) + 1
    BY DEF Layout, Here
  <2>4. resumed \in 0..1 /\ left \cup recorded \subseteq DOMAIN res
    BY DEF Resumed, Groups
  <2>5. {casecount, passcount, failcount} \subseteq Nat
    BY DEF Scalars
  <2> QED
    BY <2>1, <2>2, <2>3, <2>4, <2>5 DEF TypeOK, Scalars, Written
<1> QED
  BY <1>1, <1>2, <1>3, LayoutInvariant, EarnedInvariant, UndecidedInvariant,
     ResumedInvariant, GroupsInvariant, PTL DEF Spec

-----------------------------------------------------------------------------
(* The state of SetVerdicts, as the processor keeps it.                     *)

\* The expressions that Promise substitutes for the variables of SetVerdicts.
Size   == IF InSet THEN Cases ELSE 0
Answer == [j \in 1..DecidedCases |-> IF j \in filtered THEN "filtered" ELSE verdict[j]]
Given  == IF InSet THEN Answer ELSE <<>>
Open   == IF ~CaseOpen THEN "no" ELSE IF tainted THEN "tainted" ELSE "clean"
Broken == bail_out # 0
Mended == resumed > 0

\* What the actions of SetVerdicts say of that state.
LEMMA Mapped ==
  /\ UNCHANGED <<Size, Given, Open, Broken, Mended>> => UNCHANGED Promise!svars
  /\ Size = 0 /\ Size' \in Nat /\ UNCHANGED <<Given, Open, Broken, Mended>>
       => Promise!OpenSet
  /\ Open = "no" /\ Len(Given) < Size
       /\ Open' = (IF Broken THEN "tainted" ELSE "clean")
       /\ UNCHANGED <<Size, Given, Broken, Mended>>
       => Promise!OpenCase
  /\ \A v \in {"PASS", "FAIL", "N/A"} :
       Open # "no" /\ (Open = "tainted" => v # "PASS") /\ Given' = Append(Given, v)
         /\ Open' = "no" /\ Broken' \in {Broken, TRUE} /\ UNCHANGED <<Size, Mended>>
         => Promise!CloseCase
  /\ \A v \in {"filtered", "N/A"} :
       Open = "no" /\ Len(Given) < Size /\ Given' = Append(Given, v)
         /\ UNCHANGED <<Size, Open, Broken, Mended>>
         => Promise!SkipCase
  /\ Open = "no" /\ Given = <<>> /\ Given' = [j \in 1..Size |-> "FAIL"]
       /\ UNCHANGED <<Size, Open, Broken, Mended>>
       => Promise!AbortSet
  /\ Open = "no" /\ Len(Given) = Size /\ Size' = 0 /\ Given' = <<>>
       /\ UNCHANGED <<Open, Broken, Mended>>
       => Promise!CloseSet
  /\ Broken' = TRUE /\ UNCHANGED <<Size, Given, Open, Mended>> => Promise!Break
  /\ Broken /\ ~Mended /\ Open = "no" /\ Len(Given) = Size
       /\ Broken' = FALSE /\ Mended' = TRUE /\ UNCHANGED <<Size, Given, Open>>
       => Promise!Mend
  /\ (Open = "clean" \/ (Open = "no" /\ (Given = <<>> \/ Len(Given) = Size)))
       /\ Broken' = FALSE /\ UNCHANGED <<Size, Given, Open, Mended>>
       => Promise!Reboot
BY DEF Promise!svars, Promise!OpenSet, Promise!OpenCase, Promise!CloseCase,
       Promise!SkipCase, Promise!AbortSet, Promise!CloseSet, Promise!Break,
       Promise!Mend, Promise!Reboot, Size, Cases, Answer, Given, Open, Broken, Mended

-----------------------------------------------------------------------------
(* The tainted case.                                                        *)

\* A case that was begun while the run was bailing out stays one: nothing of
\* it is executed, and it is PASS only until its first step is reached.
Tainted ==
  CaseOpen /\ tainted =>
    /\ bail_out # 0
    /\ pc \in {"walk", "case_gets"} /\ cursor.list = "case"
    /\ verdict[case] = "PASS" =>
         pc = "walk" /\ cursor.step = 1 /\ Len(Current.case[case]) > 0

\* The steps that change nothing of what SetVerdicts calls open, broken and
\* mended, but for a run that begins to bail out.
GoesOn ==
  /\ UNCHANGED <<tainted, resumed>>
  /\ CaseOpen' => CaseOpen
  /\ bail_out # 0 => bail_out' # 0

\* Only a resume and an expected reboot take bail_out back.
LEMMA BailOutStays ==
  ASSUME [Next]_vars
  PROVE  \/ ResumeRun \/ (\E o \in Returns : ExpectedRebootBegins(o))
         \/ (resumed' = resumed /\ (bail_out # 0 => bail_out' # 0))
<1>1. CASE StepActions
  <2>1. CASE BailOutStep
    BY <2>1 DEF BailOutStep, BailOutAfter, REMOTE_FAIL
  <2>2. ASSUME NEW o \in Returns, CommandEnds(o)
        PROVE  resumed' = resumed /\ (bail_out # 0 => bail_out' # 0)
    BY <2>2 DEF CommandEnds, REMOTE_FAIL
  <2>3. ASSUME NEW v \in Verdicts, ManualStep(v)
        PROVE  UNCHANGED <<resumed, bail_out>>
    BY <2>3 DEF ManualStep
  <2>4. ASSUME NEW o \in Returns, ExpectedRebootMissed(o)
        PROVE  UNCHANGED <<resumed, bail_out>>
    BY <2>4 DEF ExpectedRebootMissed
  <2>5. CASE RebootFails
    BY <2>5 DEF RebootFails, REMOTE_FAIL
  <2>6. CASE BeginPostRebootSteps
    BY <2>6 DEF BeginPostRebootSteps
  <2>7. CASE EmptyStep \/ BeginStep \/ Rebooted \/ PostRebootStepsDone \/ JudgeReboot
    BY <2>7 DEF EmptyStep, BeginStep, Rebooted, PostRebootStepsDone, JudgeReboot
  <2> QED
    BY <1>1, <2>1, <2>2, <2>3, <2>4, <2>5, <2>6, <2>7 DEF StepActions
<1>2. CASE SetActions
  BY <1>2 DEF SetActions, NextBlock, PreStepsPass, AbortSet, SkipCase,
              BeginCase,
              CaseWalked, CaseEnds, CasesDone, PostSteps, PostStepsDone, SetGets,
              RestoreBailOut, WriteSet, ExcludeSet, EnterSet, EndRun, GetsOf,
              Restored, REMOTE_FAIL
<1>3. ASSUME NEW sig \in {2, 15}, Interrupt(sig)
      PROVE  resumed' = resumed /\ (bail_out # 0 => bail_out' # 0)
  BY <1>3 DEF Interrupt, RecordInterrupt
<1>4. CASE ConfirmReboot \/ UNCHANGED vars
  BY <1>4 DEF ConfirmReboot, vars
<1> QED
  BY <1>1, <1>2, <1>3, <1>4 DEF Next, Runner, Conductor

\* A case is called tainted when it is begun, and stays so.
LEMMA TaintedStays ==
  ASSUME [Next]_vars
  PROVE  BeginCase \/ EnterSet \/ tainted' = tainted
BY DEF Next, Runner, StepActions, SetActions, Conductor, BailOutStep,
       EmptyStep, ManualStep,
       BeginStep, CommandEnds, ExpectedRebootBegins, ExpectedRebootMissed,
       RebootFails, Rebooted, BeginPostRebootSteps, PostRebootStepsDone,
       JudgeReboot, NextBlock, PreStepsPass, AbortSet, SkipCase, CaseWalked,
       CaseEnds, CasesDone, PostSteps, PostStepsDone, SetGets, RestoreBailOut,
       WriteSet, ExcludeSet, EndRun, ConfirmReboot, ResumeRun, Interrupt, vars,
       observed, history

\* Only BeginCase opens a case.
LEMMA CaseOpens ==
  ASSUME Layout, Earned, [Next]_vars, CaseOpen', ~BeginCase
  PROVE  CaseOpen
<1> USE DEF CaseOpen, position, Walking, WalkDone, LastBlockDone, MoreCases, At
<1>1. CASE StepEndsSomehow
  <2>1. Active /\ \E on \in BOOLEAN : Walk(on)
    BY <1>1 DEF StepEndsSomehow, StepEndsAs
  <2>2. cursor'.list = cursor.list
    BY <2>1, WalkMoves
  <2> QED
    BY <2>1, <2>2 DEF Active, AtStep
<1>2. CASE BeginPostRebootSteps
  BY <1>2 DEF BeginPostRebootSteps, PostRebootSteps
<1>3. CASE EnterSet
  BY <1>3 DEF EnterSet, EnterList
<1>4. CASE BeginStep \/ \E o \in Returns : ExpectedRebootBegins(o)
  BY <1>4 DEF BeginStep, ExpectedRebootBegins
<1>5. CASE PostRebootStepsDone
  BY <1>5 DEF PostRebootStepsDone
<1>6. CASE SetActions /\ ~EnterSet
  <2>1. ASSUME NextBlock PROVE CaseOpen
    BY <2>1 DEF NextBlock
  <2>2. ASSUME PostSteps PROVE CaseOpen
    BY <2>2 DEF PostSteps, EnterList
  <2>3. ASSUME \/ ExcludeSet \/ PreStepsPass \/ AbortSet \/ SkipCase \/ CaseWalked
               \/ CaseEnds \/ CasesDone \/ PostStepsDone \/ SetGets
               \/ RestoreBailOut \/ WriteSet \/ EndRun
        PROVE  CaseOpen
    BY <2>3 DEF ExcludeSet, PreStepsPass, AbortSet, SkipCase, CaseWalked,
                CaseEnds,
                CasesDone, PostStepsDone, SetGets, RestoreBailOut, WriteSet, EndRun
  <2> QED
    BY <1>6, <2>1, <2>2, <2>3 DEF SetActions
<1>7. CASE Conductor \/ Interrupt(2) \/ Interrupt(15) \/ UNCHANGED vars
  BY <1>7 DEF Conductor, ConfirmReboot, ResumeRun, Interrupt, vars
<1> QED
  BY <1>1, <1>2, <1>3, <1>4, <1>5, <1>6, <1>7, StepKinds DEF OtherSteps

\* All steps but these go on.
LEMMA GoingOn ==
  ASSUME Layout, Earned, [Next]_vars
  PROVE  \/ GoesOn \/ BeginCase \/ EnterSet \/ ResumeRun
         \/ \E o \in Returns : ExpectedRebootBegins(o)
BY BailOutStays, TaintedStays, CaseOpens DEF GoesOn

\* Tainted is kept by every action.
LEMMA TaintedStep ==
  ASSUME Layout, Layout', Earned, Undecided, Tainted, [Next]_vars
  PROVE  Tainted'
<1> USE DEF InSet
<1>a. CaseOpen => InSet
  BY DEF CaseOpen
<1>b. InSet => /\ Cases \in Nat /\ DOMAIN Current.case = 1..Cases /\ plan \in Plans
               /\ set \in 1..Len(plan) /\ verdict \in [1..Cases -> Verdicts]
  BY InSetTypes DEF Layout, Tables
<1>1. CASE BeginCase
  <2>1. /\ InSet /\ UNCHANGED <<plan, set, case, bail_out>> /\ pc' = "walk"
        /\ cursor' = At("case", case, 1) /\ tainted' = (bail_out # 0)
        /\ case \in 1..Cases
        /\ verdict' = [verdict EXCEPT ![case] =
                         IF Current.case[case] = <<>> THEN "N/A" ELSE "PASS"]
    BY <1>1 DEF BeginCase, MoreCases, Layout, Here, Cases
  <2>2. /\ Current' = Current
        /\ verdict'[case] = IF Current.case[case] = <<>> THEN "N/A" ELSE "PASS"
    BY <1>b, <2>1, SameSet
  <2>3. Current.case[case] \in Seq(Step)
    BY <1>b, <2>1, BlockTypes DEF Lists
  <2>4. Current.case[case] # <<>> => Len(Current.case[case]) > 0
    BY <2>3
  <2>5. verdict'[case] = "PASS" => Len(Current.case[case]) > 0
    BY <2>2, <2>4
  <2>6. cursor'.list = "case" /\ cursor'.step = 1
    BY <2>1 DEF At
  <2> QED
    BY <2>1, <2>2, <2>5, <2>6, Zenon DEF Tainted
<1>2. CASE EnterSet
  BY <1>2 DEF EnterSet, Tainted
<1>3. CASE ResumeRun
  BY <1>3 DEF ResumeRun, Tainted, CaseOpen
<1>4. ASSUME NEW o \in Returns, ExpectedRebootBegins(o) PROVE Tainted'
  BY <1>4 DEF ExpectedRebootBegins, Tainted, CaseOpen
<1>5. CASE GoesOn /\ ~BeginCase
  <2> SUFFICES ASSUME CaseOpen', tainted' PROVE Tainted'
    BY DEF Tainted
  <2>1. /\ CaseOpen /\ tainted /\ bail_out # 0 /\ bail_out' # 0 /\ InSet
        /\ pc \in {"walk", "case_gets"} /\ cursor.list = "case"
        /\ verdict[case] = "PASS" =>
             pc = "walk" /\ cursor.step = 1 /\ Len(Current.case[case]) > 0
    BY <1>5, <1>a DEF GoesOn, Tainted
  <2>2. CASE BailOutStep
    <3>1. /\ Walk(TRUE) /\ Judge("FAIL") /\ UNCHANGED <<plan, set, case, pc>>
          /\ pc = "walk" /\ cursor.block = case
      BY <2>1, <2>2 DEF BailOutStep, Walking, Layout, CursorOK, In, Active
    <3>2. cursor'.list = "case" /\ cursor.block = case
      BY <2>1, <3>1, WalkMoves DEF Active
    <3>3. case \in 1..Cases
      BY <1>b, <2>1, <3>1 DEF Layout, CursorOK, Active
    <3>4. verdict'[case] = "FAIL"
      BY <1>b, <2>1, <3>1, <3>3 DEF Judge, InDummy
    <3> QED
      BY <2>1, <3>1, <3>2, <3>4 DEF Tainted
  <2>3. CASE CaseWalked
    <3>1. /\ UNCHANGED <<plan, set, case, cursor, verdict>> /\ pc' = "case_gets"
          /\ cursor.step > Len(Block) /\ pc = "walk"
      BY <2>3 DEF CaseWalked, WalkDone, results
    <3>2. Block = Current.case[case] /\ cursor.step \in Nat
      BY <2>1, <3>1 DEF Block, Layout, Here, CursorOK, In, Active, Positions
    <3>3. Current.case[case] \in Seq(Step)
      BY <1>b, <2>1, <3>1, BlockTypes DEF Layout, CursorOK, In, Active, Lists
    <3>4. verdict[case] # "PASS"
      BY <2>1, <3>1, <3>2, <3>3
    <3> QED
      BY <2>1, <3>1, <3>4 DEF Tainted
  <2>4. CASE Interrupt(2) \/ Interrupt(15) \/ UNCHANGED vars
    <3>1. UNCHANGED <<plan, set, case, cursor, verdict, pc>>
      BY <2>1, <2>4 DEF Interrupt, vars, position, results
    <3> QED
      BY <2>1, <3>1, SameSet DEF Tainted
  <2>5. ~BailOutStep /\ ~CaseWalked =>
          Interrupt(2) \/ Interrupt(15) \/ UNCHANGED vars
    BY <1>5, <2>1 DEF Next, Runner, StepActions, SetActions, Conductor,
                      EmptyStep, ManualStep,
         BeginStep, BailingOut, CommandEnds, ExpectedRebootBegins,
         ExpectedRebootMissed, RebootFails, Rebooted, BeginPostRebootSteps,
         PostRebootStepsDone, WalkDone, JudgeReboot, NextBlock, InDummy,
         PreStepsPass, LastBlockDone, AbortSet, SkipCase, MoreCases, CaseEnds,
         CasesDone, PostSteps, PostStepsDone, SetGets, RestoreBailOut, WriteSet,
         ExcludeSet, EnterSet, EndRun, ConfirmReboot, ResumeRun, CaseOpen
  <2> QED
    BY <2>2, <2>3, <2>4, <2>5
<1> QED
  BY <1>1, <1>2, <1>3, <1>4, <1>5, GoingOn

\* Tainted holds in every state.
THEOREM TaintedInvariant == Spec => []Tainted
<1>1. Init => Tainted
  BY DEF Init, Tainted, CaseOpen
<1>2. Layout /\ Layout' /\ Earned /\ Undecided /\ Tainted /\ [Next]_vars => Tainted'
  BY TaintedStep
<1> QED
  BY <1>1, <1>2, LayoutInvariant, EarnedInvariant, UndecidedInvariant, PTL
       DEF Spec

-----------------------------------------------------------------------------
(* The steps of SetVerdicts.                                                *)

\* What is given are answers to the first cases of the set: to all of them
\* when the last one is decided or the set aborted.
Answers ==
  /\ Cases \in Nat /\ DecidedCases \in 0..Cases /\ Len(Given) = DecidedCases
  /\ Given \in Seq(Verdicts \cup {"filtered"})
  /\ Given = [j \in 1..DecidedCases |->
               IF j \in filtered THEN "filtered" ELSE verdict[j]]
  /\ pc # "write" => DecidedCases = case - 1
  /\ case = Cases + 1 => DecidedCases = Cases
  /\ Given = <<>> <=> DecidedCases = 0

\* The answers that are given, in this state and in the next one.
LEMMA GivenIs == Layout /\ InSet => Answers
<1> SUFFICES ASSUME Layout, InSet PROVE Answers
  OBVIOUS
<1>1. /\ Cases \in Nat /\ verdict \in [1..Cases -> Verdicts] /\ Len(verdict) = Cases
      /\ case \in Nat \ {0} /\ case <= Cases + 1
  BY InSetTypes DEF Layout, Here, Tables
<1>2. /\ DecidedCases \in 0..Cases
      /\ pc # "write" => DecidedCases = case - 1
      /\ case = Cases + 1 => DecidedCases = Cases
  BY <1>1 DEF DecidedCases
<1>3. Given = [j \in 1..DecidedCases |-> IF j \in filtered THEN "filtered" ELSE verdict[j]]
  BY DEF Given, Answer
<1>4. Given \in [1..DecidedCases -> Verdicts \cup {"filtered"}]
  BY <1>1, <1>2, <1>3
<1>5. DecidedCases \in Nat
  BY <1>1, <1>2
<1>6. Given \in Seq(Verdicts \cup {"filtered"}) /\ Len(Given) = DecidedCases
  BY <1>4, <1>5
<1>7. Given = <<>> <=> DecidedCases = 0
  BY <1>5, <1>6
<1> QED
  BY <1>1, <1>2, <1>3, <1>6, <1>7 DEF Answers

\* The same of the next state.
LEMMA GivenIsNext == Layout' /\ InSet' => Answers'
BY GivenIs, PTL

\* A step that decides nothing leaves the answers as they are.
LEMMA AnswersStay ==
  ASSUME Layout, Layout', DecidesNothing
  PROVE  Size' = Size /\ Given' = Given
<1>1. /\ InSet /\ InSet' /\ case' = case /\ filtered' = filtered /\ Cases' = Cases
      /\ case \in Nat \ {0} /\ Cases \in Nat /\ Answers /\ Answers'
  BY GivenIs, GivenIsNext, SameSet DEF DecidesNothing, Layout, Here, Answers
<1>2. DecidedCases' = DecidedCases
  <2>1. CASE pc = "write" /\ pc' = "write"
    <3>1. Len(verdict) = Cases /\ Len(verdict') = Cases
      BY <1>1 DEF Layout, Tables
    <3> QED
      BY <2>1, <3>1 DEF DecidedCases
  <2>2. CASE pc # "write" /\ pc' = "write"
    <3>1. case = Cases + 1
      BY <2>2 DEF DecidesNothing
    <3> QED
      BY <1>1, <3>1 DEF Answers
  <2>3. CASE pc # "write" /\ pc' # "write"
    BY <1>1, <2>3 DEF DecidedCases
  <2> QED
    BY <2>1, <2>2, <2>3 DEF DecidesNothing
<1>3. \A j \in 1..DecidedCases : verdict'[j] = verdict[j]
  <2> SUFFICES ASSUME NEW j \in 1..DecidedCases PROVE verdict'[j] = verdict[j]
    OBVIOUS
  <2>1. j \in 1..Cases
    BY <1>1 DEF Answers
  <2>2. CASE pc = "write"
    BY <2>1, <2>2 DEF DecidesNothing, CaseOpen
  <2>3. CASE pc # "write"
    <3>1. j # case
      BY <1>1, <2>3 DEF Answers
    <3> QED
      BY <2>1, <3>1 DEF DecidesNothing
  <2> QED
    BY <2>2, <2>3
<1>4. Given' = Given
  BY <1>1, <1>2, <1>3 DEF Answers
<1> QED
  BY <1>1, <1>4 DEF Size

\* A case that is decided is answered once, after those before it.
LEMMA AnswerAdded ==
  ASSUME Layout, Layout', InSet, InSet', UNCHANGED <<plan, set>>,
         pc # "write", pc' # "write", case \in 1..Cases, case' = case + 1,
         \A j \in 1..case - 1 :
           verdict'[j] = verdict[j] /\ (j \in filtered' <=> j \in filtered)
  PROVE  /\ Size' = Size /\ Len(Given) < Size
         /\ Given' = Append(Given, IF case \in filtered' THEN "filtered"
                                                         ELSE verdict'[case])
<1> DEFINE e == IF case \in filtered' THEN "filtered" ELSE verdict'[case]
<1>1. Answers /\ Answers' /\ Cases' = Cases
  BY GivenIs, GivenIsNext, SameSet
<1>2. /\ Cases \in Nat /\ case \in Nat /\ DecidedCases = case - 1
      /\ DecidedCases' = case /\ Len(Given) = case - 1 /\ Len(Given') = case
      /\ Given \in Seq(Verdicts \cup {"filtered"})
      /\ Given' \in Seq(Verdicts \cup {"filtered"})
  BY <1>1 DEF Answers
<1>3. /\ \A j \in 1..case - 1 : Given'[j] = Given[j]
      /\ Given'[case] = e
  BY <1>1, <1>2 DEF Answers
<1>4. e \in Verdicts \cup {"filtered"}
  BY <1>1, <1>2 DEF Layout, Tables
<1> HIDE DEF e
<1>5. Given' = Append(Given, e)
  BY <1>2, <1>3, <1>4
<1> QED
  BY <1>1, <1>2, <1>5 DEF Size, e

\* Steps that decide nothing open a case, break or mend the run, or stutter.
LEMMA QuietPromise ==
  ASSUME Layout, Layout', Earned, Resumed, Tainted, DecidesNothing, [Next]_vars
  PROVE  [Promise!Next]_Promise!svars
<1> USE DEF Promise!Next
<1>1. /\ Size' = Size /\ Given' = Given /\ InSet /\ Answers /\ Size = Cases
      /\ Cases \in Nat /\ case \in Nat
  BY AnswersStay, GivenIs DEF DecidesNothing, Size, Layout, Here, Answers
<1>2. CASE BeginCase
  <2>1. /\ pc = "case" /\ pc' = "walk" /\ cursor'.list = "case"
        /\ tainted' = Broken /\ Broken' = Broken /\ Mended' = Mended
        /\ case <= Cases
    BY <1>2 DEF BeginCase, MoreCases, At, Broken, Mended, Cases
  <2>2. Open = "no" /\ Open' = (IF Broken THEN "tainted" ELSE "clean")
    BY <2>1 DEF Open, CaseOpen
  <2>3. Len(Given) < Size
    BY <1>1, <2>1 DEF Answers
  <2> QED
    BY <1>1, <2>1, <2>2, <2>3, Mapped
<1>3. CASE ResumeRun
  <2>1. /\ pc = "suspended" /\ resumed' = resumed + 1 /\ pc' = "post"
        /\ bail_out' = IF bail_out = REMOTE_FAIL THEN 0 ELSE bail_out
    BY <1>3 DEF ResumeRun
  <2>2. resumed = 0 /\ bail_out = REMOTE_FAIL /\ case = Cases + 1
    BY <2>1 DEF Resumed, Layout, CursorOK
  <2>3. Broken /\ ~Mended /\ Broken' = FALSE /\ Mended' = TRUE
    BY <2>1, <2>2 DEF Broken, Mended, REMOTE_FAIL
  <2>4. Open = "no" /\ Open' = Open
    BY <2>1 DEF Open, CaseOpen
  <2>5. Len(Given) = Size
    BY <1>1, <2>2 DEF Answers
  <2> QED
    BY <1>1, <2>3, <2>4, <2>5, Mapped
<1>4. ASSUME NEW o \in Returns, ExpectedRebootBegins(o)
      PROVE  [Promise!Next]_Promise!svars
  <2>1. /\ pc = "exec" /\ pc' = "rebooting"
        /\ UNCHANGED <<cursor, tainted, resumed>> /\ bail_out' = 0
    BY <1>4 DEF ExpectedRebootBegins
  <2>2. Broken' = FALSE /\ Mended' = Mended /\ Open' = Open
    BY <2>1 DEF Broken, Mended, Open, CaseOpen
  <2>3. Open = "clean" \/ (Open = "no" /\ (Given = <<>> \/ Len(Given) = Size))
    <3>1. CASE cursor.list \in {"case", "reboot"}
      BY <2>1, <3>1 DEF Open, CaseOpen, Tainted
    <3>2. CASE cursor.list = "pre"
      <4>1. case = 1
        BY <2>1, <3>2 DEF Layout, CursorOK, In, Active, AtStep
      <4> QED
        BY <1>1, <2>1, <3>2, <4>1 DEF Open, CaseOpen, Answers
    <3>3. CASE cursor.list = "post"
      <4>1. case = Cases + 1
        BY <2>1, <3>3 DEF Layout, CursorOK, In, Active, AtStep
      <4> QED
        BY <1>1, <2>1, <3>3, <4>1 DEF Open, CaseOpen, Answers
    <3>4. cursor.list \in Lists
      BY DEF Layout, Here, Positions
    <3> QED
      BY <3>1, <3>2, <3>3, <3>4 DEF Lists
  <2> QED
    BY <1>1, <2>2, <2>3, Mapped
<1>5. CASE GoesOn /\ ~BeginCase
  <2>1. Open' = Open /\ Mended' = Mended
    BY <1>5 DEF GoesOn, DecidesNothing, Open, Mended
  <2>2. Broken' = Broken \/ Broken' = TRUE
    BY <1>5 DEF GoesOn, Broken
  <2> QED
    BY <1>1, <2>1, <2>2, Mapped
<1>6. ~EnterSet
  BY <1>1 DEF EnterSet, InSet
<1> QED
  BY <1>2, <1>3, <1>4, <1>5, <1>6, GoingOn

\* Every step of the processor is one of SetVerdicts, or a stutter.
LEMMA PromiseStep ==
  ASSUME Layout, Layout', Earned, Undecided, Resumed, Tainted, [Next]_vars
  PROVE  [Promise!Next]_Promise!svars
<1> USE DEF Promise!Next
<1>a. /\ InSet => /\ Size = Cases /\ Cases \in Nat /\ case \in Nat \ {0} /\ Answers
                  /\ verdict \in [1..Cases -> Verdicts] /\ case <= Cases + 1
      /\ InSet' => Size' = Cases' /\ Cases' \in Nat /\ Answers'
      /\ ~InSet => Size = 0 /\ Given = <<>>
      /\ ~InSet' => Size' = 0 /\ Given' = <<>>
      /\ Len(<<>>) = 0
  BY GivenIs, GivenIsNext DEF Size, Given, Layout, Here, Tables, Answers
<1>b. ~InSet => ~CaseOpen
  BY DEF InSet, CaseOpen
<1>c. plan' = plan /\ set' = set => Cases' = Cases
  BY SameSet
<1>1. CASE DecidesNothing
  BY <1>1, QuietPromise
<1>2. CASE SkipCase
  <2>1. /\ InSet /\ InSet' /\ UNCHANGED <<plan, set, bail_out, resumed>>
        /\ pc = "case" /\ pc' = "case" /\ case' = case + 1 /\ case <= Cases
        /\ \/ filtered' = filtered \cup {case} /\ verdict' = verdict
           \/ /\ verdict' = [verdict EXCEPT ![case] = "N/A"]
              /\ filtered' = filtered
    BY <1>2 DEF SkipCase, MoreCases, InSet, Cases
  <2>2. case \in 1..Cases /\ \A j \in 1..case - 1 : j \in 1..Cases /\ j # case
    BY <1>a, <2>1
  <2>3. \A j \in 1..case - 1 :
          verdict'[j] = verdict[j] /\ (j \in filtered' <=> j \in filtered)
    BY <1>a, <2>1, <2>2
  <2>4. /\ Size' = Size /\ Len(Given) < Size
        /\ Given' = Append(Given, IF case \in filtered' THEN "filtered"
                                                        ELSE verdict'[case])
    BY <2>1, <2>2, <2>3, AnswerAdded
  <2>5. case \notin filtered
    BY <1>a, <2>1 DEF Undecided
  <2>6. (IF case \in filtered' THEN "filtered" ELSE verdict'[case])
          \in {"filtered", "N/A"}
    BY <1>a, <2>1, <2>2, <2>5
  <2>7. Open = "no" /\ Open' = Open /\ Broken' = Broken /\ Mended' = Mended
    BY <2>1 DEF Open, CaseOpen, Broken, Mended
  <2> QED
    BY <2>4, <2>6, <2>7, Mapped
<1>3. CASE CaseEnds
  <2>1. /\ InSet /\ InSet' /\ UNCHANGED <<plan, set, resumed, filtered>>
        /\ pc = "case_gets" /\ pc' = "case" /\ case' = case + 1
        /\ case <= Cases /\ CaseOpen
        /\ bail_out' \in {bail_out, REMOTE_FAIL}
        /\ bail_out # 0 => bail_out' # 0
        /\ verdict' \in {verdict, [verdict EXCEPT ![case] = "FAIL"]}
    BY <1>3 DEF CaseEnds, GetsOf, MeasurementsOf, InSet, CaseOpen, Layout,
                CursorOK,
                REMOTE_FAIL
  <2>2. case \in 1..Cases /\ \A j \in 1..case - 1 : j \in 1..Cases /\ j # case
    BY <1>a, <2>1
  <2>3. \A j \in 1..case - 1 :
          verdict'[j] = verdict[j] /\ (j \in filtered' <=> j \in filtered)
    BY <1>a, <2>1, <2>2
  <2>4. case \notin filtered'
    BY <1>a, <2>1 DEF Undecided
  <2>5. Size' = Size /\ Given' = Append(Given, verdict'[case])
    BY <2>1, <2>2, <2>3, <2>4, AnswerAdded
  <2>6. verdict'[case] \in {"PASS", "FAIL", "N/A"}
    BY <1>a, <2>1, <2>2 DEF Verdicts
  <2>7. Open = "tainted" => verdict'[case] # "PASS"
    <3>1. Open = "tainted" => verdict[case] # "PASS"
      BY <2>1 DEF Open, Tainted
    <3> QED
      BY <1>a, <2>1, <2>2, <3>1
  <2>8. /\ Open # "no" /\ Open' = "no" /\ Broken' \in {Broken, TRUE}
        /\ Mended' = Mended
    <3>1. Open # "no" /\ Open' = "no" /\ Mended' = Mended
      BY <2>1 DEF Open, CaseOpen, Mended
    <3>2. Broken' \in {Broken, TRUE}
      BY <2>1, Zenon DEF Broken
    <3> QED
      BY <3>1, <3>2
  <2> QED
    BY <2>5, <2>6, <2>7, <2>8, Mapped
<1>4. CASE AbortSet
  <2>1. /\ InSet /\ InSet' /\ UNCHANGED <<plan, set, case, bail_out, resumed, filtered>>
        /\ pc = "walk" /\ pc' = "write" /\ case = 1
        /\ cursor.list = "pre" /\ cursor' = cursor
        /\ verdict' = [j \in DOMAIN verdict |-> "FAIL"]
    BY <1>4 DEF AbortSet, InSet, LastBlockDone, WalkDone, Layout, CursorOK,
                In, Active
  <2>2. filtered = {} /\ DecidedCases = 0 /\ Given = <<>>
    BY <1>a, <2>1 DEF Undecided, Answers
  <2>3. verdict' = [j \in 1..Cases |-> "FAIL"] /\ Len(verdict') = Cases
    BY <1>a, <2>1
  <2>4. DecidedCases' = Cases
    BY <2>1, <2>3 DEF DecidedCases
  <2>5. Given' = [j \in 1..Size |-> "FAIL"] /\ Size' = Size
    BY <1>a, <1>c, <2>1, <2>2, <2>3, <2>4 DEF Answers
  <2>6. Open = "no" /\ Open' = Open /\ Broken' = Broken /\ Mended' = Mended
    BY <2>1 DEF Open, CaseOpen, Broken, Mended
  <2> QED
    BY <2>2, <2>5, <2>6, Mapped
<1>5. CASE EnterSet
  <2>1. /\ ~InSet /\ InSet' /\ case' = 1 /\ pc' # "write" /\ ~CaseOpen'
        /\ UNCHANGED <<bail_out, resumed>>
    BY <1>5 DEF EnterSet, EnterList, InSet, CaseOpen, At
  <2>2. Given' = <<>>
    BY <1>a, <2>1 DEF Answers
  <2>3. Open = "no" /\ Open' = "no" /\ Broken' = Broken /\ Mended' = Mended
    BY <1>b, <2>1 DEF Open, Broken, Mended
  <2> QED
    BY <1>a, <2>1, <2>2, <2>3, Mapped
<1>6. CASE WriteSet
  <2>1. /\ InSet /\ ~InSet' /\ pc = "write" /\ pc' = "set"
        /\ UNCHANGED <<bail_out, resumed>>
    BY <1>6 DEF WriteSet, InSet
  <2>2. Len(Given) = Size
    <3>1. Len(verdict) = Cases
      BY <1>a, <2>1
    <3> QED
      BY <1>a, <2>1, <3>1 DEF DecidedCases, Answers
  <2>3. Open = "no" /\ Open' = Open /\ Broken' = Broken /\ Mended' = Mended
    BY <2>1 DEF Open, CaseOpen, Broken, Mended
  <2> QED
    BY <1>a, <2>1, <2>2, <2>3, Mapped
<1>7. CASE \/ ExcludeSet \/ EndRun
           \/ (~InSet /\ (Interrupt(2) \/ Interrupt(15) \/ UNCHANGED vars))
  <2>1. ~InSet
    BY <1>7 DEF ExcludeSet, EndRun, InSet
  <2>2. ~InSet' /\ resumed' = resumed
    BY <1>7, BetweenSets
  <2>3. Size' = Size /\ Given' = Given
    BY <1>a, <2>1, <2>2
  <2>4. Open = "no" /\ Open' = "no"
    BY <2>1, <2>2 DEF Open, InSet, CaseOpen
  <2>5. Broken' = Broken \/ Broken' = TRUE
    <3>1. GoesOn
      <4>1. ~EnterSet
        BY <2>2 DEF EnterSet, EnterList, InSet
      <4>2. ~BeginCase /\ ~ResumeRun
        BY <2>1 DEF BeginCase, MoreCases, ResumeRun, InSet
      <4>3. ~\E o \in Returns : ExpectedRebootBegins(o)
        BY <2>1 DEF ExpectedRebootBegins, InSet
      <4> QED
        BY <4>1, <4>2, <4>3, GoingOn
    <3> QED
      BY <3>1 DEF GoesOn, Broken
  <2>6. Mended' = Mended
    BY <2>2 DEF Mended
  <2> QED
    BY <2>3, <2>4, <2>5, <2>6, Mapped
<1> QED
  BY <1>1, <1>2, <1>3, <1>4, <1>5, <1>6, <1>7, Deciding

\* The processor implements SetVerdicts: the verdicts are given in order, each
\* once, none is PASS of a case begun while bailing out, a set is written only
\* when all its cases are decided, and the run is mended only as promised.
THEOREM PromiseKept == Spec => PromiseIsKept
<1>1. Init => Promise!Init
  BY DEF Init, Promise!Init, InSet, CaseOpen
<1>2. Layout /\ Layout' /\ Earned /\ Undecided /\ Resumed /\ Tainted /\ [Next]_vars
        => [Promise!Next]_Promise!svars
  BY PromiseStep
<1> QED
  BY <1>1, <1>2, LayoutInvariant, EarnedInvariant, UndecidedInvariant,
     ResumedInvariant, TaintedInvariant, PTL DEF Spec, PromiseIsKept, Promise!Spec
=============================================================================
