------------------------ MODULE TestDefinitionProofs ------------------------
(***************************************************************************)
(* Proofs about TestDefinition, for every file and every command line: its *)
(* type invariant, that memory is freed twice or lost only where the code  *)
(* says so (MemoryIsThere), and that every element of the results is under *)
(* an element that may hold it (NestingIsValid).                           *)
(*                                                                         *)
(* The parser trusts the file: nothing in it says that a step is closed in *)
(* the list it was opened in.  So the first part is about files.  The      *)
(* place of a token (Places) is what is open around it; Move says which    *)
(* tokens may stand at a place, and the place after each; Leads, that a    *)
(* sequence of tokens takes one place to another by such moves.  FileLeads *)
(* proves it for the tokens of every file, element by element.             *)
(*                                                                         *)
(* The second part ties the parser to the place of the next node:          *)
(* its level and the function it is in (Level), which lists of the set can *)
(* have been read (Stages), whether the text of a step has (TextsSeen) --  *)
(* and says what its data are (DataOf): with b, when every element of the  *)
(* file has an end the parser sees, no command and no parameter is empty.  *)
(* Each action is a move of the file, and keeps the three and the data.    *)
(*                                                                         *)
(* The third part is about the writer.  Writers(p, n) are the writers that *)
(* have written only what is nested as it should be and, with n, have the  *)
(* path p open; each function of the writer takes one of them to another.  *)
(* The folds it is written with are taken apart by WalkIn.                 *)
(*                                                                         *)
(* DefinitionInv, the inductive invariant, puts them together: the rest of *)
(* the file leads on from a place c that the parser and the writer are at. *)
(***************************************************************************)
EXTENDS TestDefinition, Integers, WellFoundedInduction, SequenceTheorems, TLAPS

-----------------------------------------------------------------------------
(* Induction, and what a fold over a sequence computes.                     *)

\* A set of numbers that is not empty has a least one.
LEMMA LeastNumber ==
  \A T \in SUBSET Nat : T # {} => \E x \in T : \A y \in T : x <= y
<1> SUFFICES ASSUME NEW T \in SUBSET Nat, T # {}
             PROVE  \E x \in T : \A y \in T : x <= y
  OBVIOUS
<1> DEFINE R == {ss \in Nat \X Nat : ss[1] < ss[2]}
<1>1. IsWellFoundedOn(R, Nat)
  BY NatLessThanWellFounded DEF OpToRel
<1> HIDE DEF R
<1>2. PICK x \in T : \A y \in T : ~(<<y, x>> \in R)
  BY <1>1, WFMin
<1>3. \A y \in T : ~(y < x)
  BY <1>2 DEF R
<1> QED
  BY <1>3

\* Induction, for the set of numbers that have the property.
LEMMA Induction ==
  \A S \in SUBSET Nat, n \in Nat :
    0 \in S /\ (\A i \in 0..n - 1 : i \in S => i + 1 \in S) => n \in S
<1> SUFFICES ASSUME NEW S \in SUBSET Nat, NEW n \in Nat, 0 \in S,
                    \A i \in 0..n - 1 : i \in S => i + 1 \in S, n \notin S
             PROVE  FALSE
  OBVIOUS
<1> DEFINE T == 0..n \ S
<1>1. T \in SUBSET Nat /\ n \in T
  OBVIOUS
<1> HIDE DEF T
<1>2. PICK x \in T : \A y \in T : x <= y
  BY <1>1, LeastNumber
<1>3. x \in 1..n /\ x \notin S
  BY <1>2 DEF T
<1>4. x - 1 \in 0..n - 1 /\ x - 1 \notin T
  BY <1>2, <1>3 DEF T
<1>5. x - 1 \in S
  BY <1>4 DEF T
<1> QED
  BY <1>3, <1>4, <1>5

\* The greatest of the first numbers.
LEMMA MaxOfPrefix ==
  \A n \in Nat : \A s \in SUBSET (1..n + 1) :
    n + 1 \in s => Max(s) = n + 1 /\ s \ {n + 1} \in SUBSET (1..n)
<1> SUFFICES ASSUME NEW n \in Nat, NEW s \in SUBSET (1..n + 1), n + 1 \in s
             PROVE  Max(s) = n + 1 /\ s \ {n + 1} \in SUBSET (1..n)
  OBVIOUS
<1>1. \A y \in s : n + 1 >= y
  OBVIOUS
<1>2. \A x \in s : (\A y \in s : x >= y) => x = n + 1
  OBVIOUS
<1>3. Max(s) \in s /\ \A y \in s : Max(s) >= y
  BY <1>1 DEF Max
<1>4. Max(s) = n + 1
  BY <1>2, <1>3
<1>5. s \ {n + 1} \in SUBSET (1..n)
  OBVIOUS
<1> QED
  BY <1>4, <1>5

\* f is what the fold of F over the first n places of list computes for sets of
\* them: the recursion of FoldLeft, for values V and elements X.
Folded(V, base, F, list, n) ==
  {f \in [SUBSET (1..n) -> V] :
     \A s \in SUBSET (1..n) :
       f[s] = IF s = {} THEN base ELSE F[f[s \ {Max(s)}]][list[Max(s)]]}
\* f is the fold of F over list.
IsFold(f, V, X, base, F, list) ==
  /\ base \in V /\ F \in [V -> [X -> V]] /\ list \in Seq(X)
  /\ f \in Folded(V, base, F, list, Len(list))

\* There is such a function: the recursion of FoldLeft is well-founded.
LEMMA FoldExists ==
  ASSUME NEW V, NEW X, NEW base \in V, NEW F \in [V -> [X -> V]],
         NEW list \in Seq(X)
  PROVE  \E f : IsFold(f, V, X, base, F, list)
<1> DEFINE G(n) == Folded(V, base, F, list, n)
           S == {n \in Nat : G(n) # {}}
<1>1. 0 \in S
  <2> DEFINE f == [s \in SUBSET (1..0) |-> base]
  <2>0. 1..0 = {} /\ SUBSET (1..0) = {{}}
    OBVIOUS
  <2>1. f \in G(0)
    BY <2>0 DEF Folded
  <2> QED
    BY <2>1
<1>2. ASSUME NEW i \in 0..Len(list) - 1, i \in S PROVE i + 1 \in S
  <2>1. PICK g : g \in G(i)
    BY <1>2
  <2> DEFINE f == [s \in SUBSET (1..i + 1) |->
                     IF i + 1 \in s THEN F[g[s \ {i + 1}]][list[i + 1]] ELSE g[s]]
  <2>2. g \in [SUBSET (1..i) -> V]
    BY <2>1 DEF Folded
  <2>3. list[i + 1] \in X
    OBVIOUS
  <2>4. \A s \in SUBSET (1..i + 1) : i + 1 \notin s => s \in SUBSET (1..i)
    OBVIOUS
  <2>5. ASSUME NEW s \in SUBSET (1..i + 1)
        PROVE  /\ f[s] \in V
               /\ f[s] = IF s = {} THEN base ELSE F[f[s \ {Max(s)}]][list[Max(s)]]
    <3>1. CASE i + 1 \in s
      <4>1. Max(s) = i + 1 /\ s \ {i + 1} \in SUBSET (1..i)
        BY <3>1, MaxOfPrefix
      <4>2. f[s] = F[g[s \ {i + 1}]][list[i + 1]]
        BY <3>1
      <4>3. s \ {i + 1} \in SUBSET (1..i + 1) /\ i + 1 \notin s \ {i + 1}
        OBVIOUS
      <4>4. f[s \ {i + 1}] = g[s \ {i + 1}]
        BY <4>3
      <4>5. g[s \ {i + 1}] \in V
        BY <4>1, <2>2
      <4>6. F[g[s \ {i + 1}]][list[i + 1]] \in V
        BY <4>5, <2>3
      <4> QED
        BY <3>1, <4>1, <4>2, <4>4, <4>6
    <3>2. CASE i + 1 \notin s
      <4>1. s \in SUBSET (1..i)
        BY <3>2, <2>4
      <4>2. f[s] = g[s]
        BY <3>2
      <4>3. g[s] \in V
        BY <4>1, <2>2
      <4>4. g[s] = IF s = {} THEN base ELSE F[g[s \ {Max(s)}]][list[Max(s)]]
        BY <4>1, <2>1 DEF Folded
      <4>5. s \ {Max(s)} \in SUBSET (1..i + 1) /\ i + 1 \notin s \ {Max(s)}
        BY <3>2
      <4>6. f[s \ {Max(s)}] = g[s \ {Max(s)}]
        BY <4>5
      <4> HIDE DEF f
      <4> QED
        BY <4>2, <4>3, <4>4, <4>6
    <3> QED
      BY <3>1, <3>2
  <2> HIDE DEF f
  <2>6. f \in [SUBSET (1..i + 1) -> V]
    <3>1. f = [s \in SUBSET (1..i + 1) |-> f[s]]
      BY DEF f
    <3> QED
      BY <3>1, <2>5
  <2>7. f \in G(i + 1)
    BY <2>5, <2>6 DEF Folded
  <2> QED
    BY <2>7
<1>3. Len(list) \in S
  <2> HIDE DEF S
  <2>1. S \in SUBSET Nat /\ Len(list) \in Nat
    BY DEF S
  <2>2. \A i \in 0..Len(list) - 1 : i \in S => i + 1 \in S
    BY <1>2
  <2> QED
    BY <1>1, <2>1, <2>2, Induction
<1> QED
  BY <1>3 DEF IsFold

\* A set of places has a greatest one.
LEMMA MaxOfPlaces ==
  ASSUME NEW n \in Nat, NEW s \in SUBSET (1..n), s # {}
  PROVE  Max(s) \in s
<1> DEFINE T == {n - x : x \in s}
<1>1. T \in SUBSET Nat /\ T # {}
  <2>1. \A x \in s : n - x \in Nat
    OBVIOUS
  <2>2. \A d \in T : d \in Nat
    BY <2>1
  <2>3. PICK x \in s : TRUE
    OBVIOUS
  <2>4. n - x \in T
    OBVIOUS
  <2> QED
    BY <2>2, <2>4
<1>2. PICK d \in T : \A y \in T : d <= y
  <2> HIDE DEF T
  <2> QED
    BY <1>1, LeastNumber
<1>3. PICK x \in s : d = n - x
  BY <1>2
<1>4. \A y \in s : n - x <= n - y
  BY <1>2, <1>3
<1>5. \A y \in s : x >= y
  BY <1>4
<1> QED
  BY <1>5 DEF Max

\* The sets of places of a list.
PlaceSets(list) == SUBSET (1..Len(list))

\* What is folded at a set of places: the element at its greatest.
LEMMA FoldPlaces ==
  ASSUME NEW f, NEW V, NEW X, NEW base, NEW F, NEW list,
         IsFold(f, V, X, base, F, list)
  PROVE  /\ f \in [PlaceSets(list) -> V] /\ f[{}] = base
         /\ \A s \in PlaceSets(list) : s # {} =>
              /\ list[Max(s)] \in X /\ f[s \ {Max(s)}] \in V
              /\ f[s] = F[f[s \ {Max(s)}]][list[Max(s)]]
<1> USE DEF IsFold, Folded, PlaceSets
<1>1. f \in [PlaceSets(list) -> V]
  OBVIOUS
<1>2. f[{}] = base
  OBVIOUS
<1>3. ASSUME NEW s \in SUBSET (1..Len(list)), s # {}
      PROVE  /\ list[Max(s)] \in X /\ f[s \ {Max(s)}] \in V
             /\ f[s] = F[f[s \ {Max(s)}]][list[Max(s)]]
  <2>1. Max(s) \in s
    <3>1. Len(list) \in Nat
      OBVIOUS
    <3> QED
      BY <3>1, <1>3, MaxOfPlaces
  <2>2. Max(s) \in 1..Len(list) /\ s \ {Max(s)} \in SUBSET (1..Len(list))
    BY <2>1
  <2>3. list[Max(s)] \in X
    BY <2>2
  <2>4. f[s \ {Max(s)}] \in V
    BY <2>2
  <2>5. f[s] = F[f[s \ {Max(s)}]][list[Max(s)]]
    BY <1>3
  <2> QED
    BY <2>3, <2>4, <2>5
<1> QED
  BY <1>1, <1>2, <1>3

\* The first places, one more at a time.
LEMMA FirstPlaces ==
  ASSUME NEW m \in Nat
  PROVE  /\ 1..0 = {} /\ {} \in SUBSET (1..m)
         /\ \A n \in 0..m - 1 :
              /\ 1..n + 1 \in SUBSET (1..m) /\ 1..n + 1 # {}
              /\ Max(1..n + 1) = n + 1 /\ (1..n + 1) \ {n + 1} = 1..n
<1>1. ASSUME NEW n \in 0..m - 1
      PROVE  /\ 1..n + 1 \in SUBSET (1..m) /\ 1..n + 1 # {}
             /\ Max(1..n + 1) = n + 1 /\ (1..n + 1) \ {n + 1} = 1..n
  <2>0. n \in Nat /\ n + 1 <= m
    OBVIOUS
  <2>1. 1..n + 1 \in SUBSET (1..m) /\ n + 1 \in 1..n + 1
    BY <2>0
  <2>2. (1..n + 1) \ {n + 1} = 1..n
    BY <2>0
  <2>3. Max(1..n + 1) = n + 1
    BY <2>0, <2>1, MaxOfPrefix
  <2> QED
    BY <2>1, <2>2, <2>3
<1>2. 1..0 = {} /\ {} \in SUBSET (1..m)
  OBVIOUS
<1> QED
  BY <1>1, <1>2

-----------------------------------------------------------------------------
(* What flattening computes.                                                *)

\* The partial results of flattening the first n sequences of s.
Flattens(f, s, n) == \A i \in 1..n : f[i] = IF i = 1 THEN s[i] ELSE f[i - 1] \o s[i]
IsFlatten(f, X, s, n) == f \in [1..n -> Seq(X)] /\ Flattens(f, s, n)

\* Two sequences agree in the first n places.
Agree(s, t, n) == \A i \in 1..n : s[i] = t[i]

\* There are such partial results.
LEMMA FlattenExists ==
  ASSUME NEW X, NEW s \in Seq(Seq(X))
  PROVE  \E f : IsFlatten(f, X, s, Len(s))
<1> DEFINE Has(n) == \E f : IsFlatten(f, X, s, n)
           S == {n \in Nat : Has(n)}
<1>1. 0 \in S
  <2> DEFINE f == [i \in 1..0 |-> <<>>]
  <2>1. f \in [1..0 -> Seq(X)] /\ 1..0 = {}
    OBVIOUS
  <2>2. IsFlatten(f, X, s, 0)
    BY <2>1 DEF IsFlatten, Flattens
  <2> QED
    BY <2>2
<1>2. ASSUME NEW n \in 0..Len(s) - 1, n \in S PROVE n + 1 \in S
  <2>1. PICK g : IsFlatten(g, X, s, n)
    BY <1>2
  <2> DEFINE last == IF n + 1 = 1 THEN s[n + 1] ELSE g[n] \o s[n + 1]
             f == [i \in 1..n + 1 |-> IF i = n + 1 THEN last ELSE g[i]]
  <2>2. s[n + 1] \in Seq(X) /\ n \in Nat
    OBVIOUS
  <2>3. last \in Seq(X)
    BY <2>1, <2>2 DEF IsFlatten
  <2>4. f[n + 1] = last /\ \A i \in 1..n : f[i] = g[i]
    <3> HIDE DEF last
    <3> QED
      BY <2>2
  <2>5. f \in [1..n + 1 -> Seq(X)]
    <3>1. \A i \in 1..n + 1 : (IF i = n + 1 THEN last ELSE g[i]) \in Seq(X)
      <4> HIDE DEF last
      <4>1. \A i \in 1..n + 1 : i = n + 1 \/ i \in 1..n
        BY <2>2
      <4>2. \A i \in 1..n : g[i] \in Seq(X)
        BY <2>1 DEF IsFlatten
      <4> QED
        BY <2>3, <4>1, <4>2
    <3> HIDE DEF last
    <3> QED
      BY <3>1
  <2>6. ASSUME NEW i \in 1..n + 1
        PROVE  f[i] = IF i = 1 THEN s[i] ELSE f[i - 1] \o s[i]
    <3> HIDE DEF f
    <3>1. CASE i = n + 1
      <4>1. i # 1 => n \in 1..n /\ i - 1 = n
        BY <3>1, <2>2
      <4> QED
        BY <3>1, <2>4, <4>1
    <3>2. CASE i # n + 1
      <4>1. i \in 1..n /\ (i # 1 => i - 1 \in 1..n)
        BY <3>2, <2>2
      <4>2. g[i] = IF i = 1 THEN s[i] ELSE g[i - 1] \o s[i]
        BY <4>1, <2>1 DEF IsFlatten, Flattens
      <4> QED
        BY <4>1, <4>2, <2>4
    <3> QED
      BY <3>1, <3>2
  <2>7. IsFlatten(f, X, s, n + 1)
    <3> HIDE DEF f
    <3> QED
      BY <2>5, <2>6 DEF IsFlatten, Flattens
  <2> QED
    BY <2>2, <2>7
<1>3. Len(s) \in S
  <2> HIDE DEF S
  <2>1. S \in SUBSET Nat /\ Len(s) \in Nat
    BY DEF S
  <2>2. \A n \in 0..Len(s) - 1 : n \in S => n + 1 \in S
    BY <1>2
  <2> QED
    BY <1>1, <2>1, <2>2, Induction
<1> QED
  BY <1>3

\* Two of them agree as far as the sequences do.
LEMMA FlattenAgree ==
  ASSUME NEW s, NEW t, NEW n \in Nat, NEW f, NEW g,
         Agree(s, t, n), Flattens(f, s, n), Flattens(g, t, n)
  PROVE  Agree(f, g, n)
<1> USE DEF Agree, Flattens
<1> DEFINE S == {i \in Nat : i \in 1..n => f[i] = g[i]}
<1>1. 0 \in S
  OBVIOUS
<1>2. ASSUME NEW i \in Nat, i \in S PROVE i + 1 \in S
  <2>1. SUFFICES ASSUME i + 1 \in 1..n PROVE f[i + 1] = g[i + 1]
    OBVIOUS
  <2>2. i + 1 # 1 => i \in 1..n /\ i + 1 - 1 = i
    BY <2>1
  <2>3. i + 1 # 1 => f[i] = g[i]
    BY <1>2, <2>2
  <2> QED
    BY <2>1, <2>2, <2>3
<1>3. \A i \in Nat : i \in S
  <2> HIDE DEF S
  <2>1. S \in SUBSET Nat
    BY DEF S
  <2> QED
    BY <1>1, <1>2, <2>1, Induction
<1> QED
  BY <1>3

\* FlattenSeq() is the last of the partial results.
LEMMA FlattenIs ==
  ASSUME NEW X, NEW s \in Seq(Seq(X)), s # <<>>
  PROVE  \E f : IsFlatten(f, X, s, Len(s)) /\ FlattenSeq(s) = f[Len(s)]
<1> DEFINE D == 1..Len(s)
           Rec(f) == f = [i \in D |-> IF i = 1 THEN s[i] ELSE f[i - 1] \o s[i]]
           h == CHOOSE f : Rec(f)
<1>1. PICK g : IsFlatten(g, X, s, Len(s))
  BY FlattenExists
<1>2. Rec(g)
  <2>1. g = [i \in D |-> g[i]]
    BY <1>1 DEF IsFlatten
  <2>2. \A i \in D : g[i] = IF i = 1 THEN s[i] ELSE g[i - 1] \o s[i]
    BY <1>1 DEF IsFlatten, Flattens
  <2> QED
    BY <2>1, <2>2
<1>3. Rec(h)
  <2> HIDE DEF Rec
  <2> QED
    BY <1>2
<1>4. FlattenSeq(s) = h[Len(s)]
  BY DEF FlattenSeq
<1> HIDE DEF h
<1>5. Flattens(h, s, Len(s))
  BY <1>3 DEF Flattens
<1>6. Flattens(g, s, Len(s)) /\ Agree(s, s, Len(s))
  BY <1>1 DEF IsFlatten, Agree
<1>7. Len(s) \in Nat /\ Len(s) \in D
  OBVIOUS
<1>8. h[Len(s)] = g[Len(s)]
  BY <1>5, <1>6, <1>7, FlattenAgree DEF Agree
<1> QED
  BY <1>1, <1>4, <1>7, <1>8

\* Flattening nothing.
LEMMA FlattenEmpty == FlattenSeq(<<>>) = <<>>
BY DEF FlattenSeq

\* The type of what FlattenSeq() returns.
LEMMA FlattenTypes ==
  ASSUME NEW X, NEW s \in Seq(Seq(X))
  PROVE  FlattenSeq(s) \in Seq(X)
<1>1. CASE s = <<>>
  <2>1. FlattenSeq(s) = <<>> /\ <<>> \in Seq(X)
    BY <1>1, FlattenEmpty
  <2> QED
    BY <2>1
<1>2. CASE s # <<>>
  <2>1. PICK f : IsFlatten(f, X, s, Len(s)) /\ FlattenSeq(s) = f[Len(s)]
    BY <1>2, FlattenIs
  <2>2. Len(s) \in 1..Len(s)
    BY <1>2
  <2>3. f[Len(s)] \in Seq(X)
    BY <2>1, <2>2 DEF IsFlatten
  <2> QED
    BY <2>1, <2>3
<1> QED
  BY <1>1, <1>2

\* One more sequence goes to the end.
LEMMA FlattenLonger ==
  ASSUME NEW X, NEW s \in Seq(Seq(X)), NEW t \in Seq(Seq(X)), NEW n \in Nat, n # 0,
         NEW m \in Nat, m = n + 1, Len(s) = n, Len(t) = m, Agree(s, t, n)
  PROVE  FlattenSeq(t) = FlattenSeq(s) \o t[m]
<1>0. s # <<>> /\ t # <<>>
  OBVIOUS
<1>1. PICK f : IsFlatten(f, X, s, n) /\ FlattenSeq(s) = f[n]
  BY <1>0, FlattenIs
<1>2. PICK g : IsFlatten(g, X, t, m) /\ FlattenSeq(t) = g[m]
  BY <1>0, FlattenIs
<1>3. n \in 1..n /\ m \in 1..m /\ m # 1 /\ m - 1 = n /\ \A i \in 1..n : i \in 1..m
  OBVIOUS
<1>4. Flattens(f, s, n) /\ Flattens(g, t, m)
  BY <1>1, <1>2 DEF IsFlatten
<1>5. Flattens(g, t, n)
  BY <1>3, <1>4 DEF Flattens
<1>6. Agree(f, g, n)
  BY <1>4, <1>5, FlattenAgree
<1>7. f[n] = g[n]
  BY <1>3, <1>6 DEF Agree
<1>8. g[m] = g[n] \o t[m]
  BY <1>3, <1>4 DEF Flattens
<1> QED
  BY <1>1, <1>2, <1>7, <1>8

\* Flattening one sequence.
LEMMA FlattenOne ==
  ASSUME NEW X, NEW x \in Seq(X)
  PROVE  FlattenSeq(<<x>>) = x
<1> DEFINE t == <<x>>
<1>1. t \in Seq(Seq(X)) /\ t # <<>> /\ Len(t) = 1 /\ t[1] = x
  OBVIOUS
<1> HIDE DEF t
<1>2. PICK g : IsFlatten(g, X, t, 1) /\ FlattenSeq(t) = g[1]
  BY <1>1, FlattenIs
<1>3. g[1] = t[1]
  BY <1>2 DEF IsFlatten, Flattens
<1> QED
  BY <1>1, <1>2, <1>3 DEF t

\* One more sequence, appended.
LEMMA FlattenAppend ==
  ASSUME NEW X, NEW s \in Seq(Seq(X)), NEW x \in Seq(X)
  PROVE  FlattenSeq(Append(s, x)) = FlattenSeq(s) \o x
<1> DEFINE t == Append(s, x)
           n == Len(s)
           Y == Seq(X)
<1>1. t \in Seq(Seq(X)) /\ n \in Nat /\ Len(t) = n + 1 /\ t[n + 1] = x
  <2>1. s \in Seq(Y) /\ x \in Y
    OBVIOUS
  <2> HIDE DEF Y
  <2>2. t \in Seq(Y) /\ n \in Nat /\ Len(t) = n + 1 /\ t[n + 1] = x
    BY <2>1
  <2> QED
    BY <2>2 DEF Y
<1>2. Agree(s, t, n)
  BY DEF Agree
<1>3. CASE s = <<>>
  <2>1. t = <<x>> /\ <<>> \o x = x
    BY <1>3
  <2> QED
    BY <1>3, <2>1, FlattenEmpty, FlattenOne
<1>4. CASE s # <<>>
  <2>1. n # 0
    BY <1>4
  <2> HIDE DEF t
  <2>2. FlattenSeq(t) = FlattenSeq(s) \o t[n + 1]
    BY <1>1, <1>2, <2>1, n + 1 \in Nat, FlattenLonger
  <2> QED
    BY <1>1, <2>2 DEF t
<1> QED
  BY <1>3, <1>4

\* The first n sequences of e, one after the other.
Flat(e, n) == FlattenSeq([i \in 1..n |-> e[i]])
Sequences(e, X, n) == \A i \in 1..n : e[i] \in Seq(X)

\* None of the sequences,
LEMMA FlatNone == \A e : Flat(e, 0) = <<>>
<1> SUFFICES ASSUME NEW e PROVE Flat(e, 0) = <<>>
  OBVIOUS
<1>1. [i \in 1..0 |-> e[i]] = <<>>
  OBVIOUS
<1> QED
  BY <1>1, FlattenEmpty DEF Flat

\* and one more of them.
LEMMA FlatGrows ==
  ASSUME NEW X, NEW e, NEW n \in Nat, NEW m \in Nat, m = n + 1, Sequences(e, X, m)
  PROVE  /\ Flat(e, n) \in Seq(X)
         /\ Flat(e, m) = Flat(e, n) \o e[m]
<1> DEFINE Y == Seq(X)
           s == [i \in 1..n |-> e[i]]
           t == [i \in 1..m |-> e[i]]
<1>1. /\ \A i \in 1..m : e[i] \in Y
      /\ m \in 1..m /\ \A i \in 1..n : i \in 1..m
  BY DEF Sequences
<1> HIDE DEF Y
<1>2. s \in Seq(Y) /\ t \in Seq(Y) /\ e[m] \in Y /\ Len(s) = n /\ Len(t) = m
  BY <1>1
<1>3. t = Append(s, e[m])
  <2>1. Append(s, e[m]) \in Seq(Y) /\ Len(Append(s, e[m])) = m
    BY <1>2
  <2>2. \A i \in 1..m : i \in 1..n \/ i = m
    OBVIOUS
  <2>3. \A i \in 1..m : t[i] = Append(s, e[m])[i]
    BY <1>2, <2>2
  <2> QED
    BY <1>2, <2>1, <2>3
<1> HIDE DEF s, t
<1>4. FlattenSeq(Append(s, e[m])) = FlattenSeq(s) \o e[m] /\ FlattenSeq(s) \in Seq(X)
  BY <1>2, FlattenAppend, FlattenTypes DEF Y
<1> QED
  BY <1>3, <1>4 DEF Flat, s, t

-----------------------------------------------------------------------------
(* Where in the file a token is.                                            *)

ListTags == {"pre_steps", "post_steps", "post_reboot_steps"}
Boxes == ListTags \cup {"none", "hwiddetect", "environments", "get"}

\* The place of the next token: in which element it is (level), of which set,
\* what of the set can follow (stage: 0 the pre and post steps, 1 the post
\* reboot steps, 2 the rest), in which list or other element of the set (box),
\* and whether it is in a step or a param and after a text of it (inner).
Places(r) ==
  [level : {"out", "top", "suite", "set", "end"}, s : r.sets \cup {NULL}, stage : 0..2,
   box : Boxes, inner : {"no", "bare", "texted"}]
Place(level, s, stage, box, inner) ==
  [level |-> level, s |-> s, stage |-> stage, box |-> box, inner |-> inner]
Begins(k, n) == k.t = "start" /\ k.n = n
Closes(k, n) == k.t = "end" /\ k.n = n

\* What of the file decides how it is parsed.
Traits ==
  [sets |-> Sets, misread |-> DetectorIsMisread, runs_on |-> ListsRunOn, closable |-> Closable]

\* The token k takes the place c to the place d.
DefinitionMove(r, c, k, d) ==
  /\ c.inner = "no"
  /\ \/ Closes(k, "hwiddetect") /\ c.box = "hwiddetect" /\ d = [c EXCEPT !.box = "none"]
     \/ /\ c.box = "none"
        /\ \/ Begins(k, "testdefinition") /\ c.level = "out" /\ d = [c EXCEPT !.level = "top"]
           \/ Closes(k, "testdefinition") /\ c.level = "top" /\ d = [c EXCEPT !.level = "end"]
           \/ /\ Begins(k, "hwiddetect") /\ c.level = "top"
              /\ k.empty => r.misread
              /\ d = [c EXCEPT !.box = IF k.empty THEN "none" ELSE "hwiddetect"]
           \/ Begins(k, "suite") /\ c.level = "top"
              /\ d = [c EXCEPT !.level = IF k.empty THEN "top" ELSE "suite"]
           \/ Closes(k, "suite") /\ c.level = "suite" /\ d = [c EXCEPT !.level = "top"]
           \/ /\ Begins(k, "set") /\ c.level = "suite"
              /\ \E s \in r.sets :
                   /\ k.a = s.a
                   /\ d = IF k.empty THEN c ELSE Place("set", s, 0, "none", "no")
           \/ /\ Closes(k, "set") /\ c.level = "set"
              /\ d = Place("suite", NULL, 0, "none", "no")
           \/ Begins(k, "description") /\ ~k.empty /\ c.level \in {"top", "suite", "set"} /\ d = c
           \/ Closes(k, "description") /\ c.level \in {"top", "suite", "set"} /\ d = c

StageOf(t) == IF t = "post_reboot_steps" THEN 1 ELSE 0

\* The lists of a set.
ListMove(r, c, k, d) ==
  /\ c.level = "set" /\ c.inner = "no"
  /\ \E t \in ListTags :
       /\ t = "post_reboot_steps" => c.s \in r.sets /\ c.s.reboot_steps # <<>>
       /\ \/ /\ Begins(k, t) /\ c.box = "none" /\ c.stage <= StageOf(t)
             /\ k.empty => r.runs_on
             /\ d = [c EXCEPT !.stage = StageOf(t), !.box = IF k.empty THEN "none" ELSE t]
          \/ Closes(k, t) /\ c.box = t /\ c.stage = StageOf(t) /\ d = [c EXCEPT !.box = "none"]

\* The cases with their events.
CaseMove(r, c, k, d) ==
  /\ c.level = "set" /\ c.box = "none" /\ c.inner = "no"
  /\ \/ Begins(k, "case") /\ c.s \in r.sets /\ c.s.cases # <<>> /\ d = [c EXCEPT !.stage = 2]
     \/ Closes(k, "case") /\ c.stage = 2 /\ d = c
     \/ (Begins(k, "event") \/ Closes(k, "event")) /\ d = c
     \/ /\ Begins(k, "param")
        /\ k.empty => ~r.closable
        /\ d = [c EXCEPT !.inner = IF k.empty THEN "no" ELSE "bare"]

\* The files and the environments.
BoxMove(r, c, k, d) ==
  /\ c.level = "set" /\ c.inner = "no"
  /\ \E t \in {"get", "environments"} :
       \/ Begins(k, t) /\ ~k.empty /\ c.box = "none" /\ d = [c EXCEPT !.stage = 2, !.box = t]
       \/ Closes(k, t) /\ c.box = t /\ d = [c EXCEPT !.box = "none"]
       \/ /\ c.box = t /\ d = c
          /\ \E n \in {"file", "hardware", "scratchbox"} : Begins(k, n) \/ Closes(k, n)

\* The steps; a step or a param that the logger cannot close has no text.
StepMove(r, c, k, d) ==
  /\ c.level = "set" /\ c.box \in ListTags \cup {"none"}
  /\ \/ /\ Begins(k, "step") /\ c.inner = "no"
        /\ k.empty /\ r.closable => c.box = "none" /\ (r.runs_on => DOMAIN k.a # {})
        /\ d = [c EXCEPT !.inner = IF k.empty THEN "no" ELSE "bare"]
     \/ /\ Closes(k, "step") /\ c.inner # "no"
        /\ r.closable /\ (c.box # "none" \/ r.runs_on) => c.inner = "texted"
        /\ d = [c EXCEPT !.inner = "no"]
     \/ /\ Closes(k, "param") /\ c.inner # "no" /\ c.box = "none"
        /\ r.closable => c.inner = "texted"
        /\ d = [c EXCEPT !.inner = "no"]

TextMove(r, c, k, d) ==
  /\ k.t = "text" /\ c.level \notin {"out", "end"}
  /\ d = [c EXCEPT !.inner = IF @ = "no" THEN "no" ELSE "texted"]

\* Texts are strings of the file, or that of a description.
Words == STRING \cup {"what"}
Names ==
  Boxes \cup {"testdefinition", "description", "suite", "set", "case", "step", "event", "param",
              "file", "hardware", "scratchbox"}
Values == STRING \cup {NULL} \cup BOOLEAN \cup SUBSET STRING
Attributes == UNION {[D -> Values] : D \in SUBSET AttributeNames}
Tokens == [t : {"start", "end", "text"}, n : Words \cup Names, a : Attributes, empty : BOOLEAN]
IsToken(k) == k \in Tokens /\ IsAttributes(k.a) /\ (k.t = "text" => k.n \in Words)

Move(r, c, k, d) ==
  /\ IsToken(k)
  /\ \/ DefinitionMove(r, c, k, d) \/ ListMove(r, c, k, d) \/ CaseMove(r, c, k, d)
     \/ BoxMove(r, c, k, d) \/ StepMove(r, c, k, d) \/ TextMove(r, c, k, d)

\* The tokens x take the place c to the place d.
Leads(r, x, c, d) ==
  /\ x \in Seq(Tokens)
  /\ \E a \in [1..Len(x) + 1 -> Places(r)] :
       /\ a[1] = c /\ a[Len(x) + 1] = d
       /\ \A i \in 1..Len(x) : Move(r, a[i], x[i], a[i + 1])

-----------------------------------------------------------------------------
(* Tokens that follow each other.                                           *)

\* No tokens lead nowhere else.
LEMMA LeadsNowhere ==
  ASSUME NEW r, NEW c \in Places(r)
  PROVE  Leads(r, <<>>, c, c)
<1> DEFINE a == [i \in 1..1 |-> c]
<1>1. a \in [1..Len(<<>>) + 1 -> Places(r)] /\ a[1] = c /\ Len(<<>>) = 0
  OBVIOUS
<1>2. <<>> \in Seq(Tokens)
  OBVIOUS
<1> HIDE DEF a
<1> QED
  BY <1>1, <1>2 DEF Leads

\* One token is a move.
LEMMA LeadsOne ==
  ASSUME NEW r, NEW c \in Places(r), NEW d \in Places(r), NEW k \in Tokens, Move(r, c, k, d)
  PROVE  Leads(r, <<k>>, c, d)
<1> DEFINE x == <<k>>
           a == [i \in 1..2 |-> IF i = 1 THEN c ELSE d]
<1>1. x \in Seq(Tokens) /\ Len(x) = 1 /\ x[1] = k
  OBVIOUS
<1>2. a \in [1..2 -> Places(r)] /\ a[1] = c /\ a[2] = d
  OBVIOUS
<1> HIDE DEF a, x
<1>3. \A i \in 1..1 : Move(r, a[i], x[i], a[i + 1])
  BY <1>1, <1>2
<1> QED
  BY <1>1, <1>2, <1>3 DEF Leads, x

\* What leads to a place can be followed by what leads on from there.
LEMMA LeadsOn ==
  ASSUME NEW r, NEW x, NEW y, NEW c, NEW d, NEW e, Leads(r, x, c, d), Leads(r, y, d, e)
  PROVE  Leads(r, x \o y, c, e)
<1>1. PICK a \in [1..Len(x) + 1 -> Places(r)] :
        /\ a[1] = c /\ a[Len(x) + 1] = d
        /\ \A i \in 1..Len(x) : Move(r, a[i], x[i], a[i + 1])
  BY DEF Leads
<1>2. PICK b \in [1..Len(y) + 1 -> Places(r)] :
        /\ b[1] = d /\ b[Len(y) + 1] = e
        /\ \A i \in 1..Len(y) : Move(r, b[i], y[i], b[i + 1])
  BY DEF Leads
<1>3. x \in Seq(Tokens) /\ y \in Seq(Tokens)
  BY DEF Leads
<1> DEFINE n == Len(x)
           m == Len(y)
           z == x \o y
           f == [i \in 1..n + m + 1 |-> IF i <= n THEN a[i] ELSE b[i - n]]
<1>4. /\ n \in Nat /\ m \in Nat /\ z \in Seq(Tokens) /\ Len(z) = n + m
      /\ \A i \in 1..n : z[i] = x[i]
      /\ \A i \in 1..m : z[i + n] = y[i]
  BY <1>3
<1> HIDE DEF z
<1>5. /\ f \in [1..n + m + 1 -> Places(r)]
      /\ \A i \in 1..n : f[i] = a[i]
      /\ \A i \in 1..m + 1 : f[i + n] = b[i]
  <2> HIDE DEF n, m
  <2>1. \A i \in 1..n + m + 1 : ~(i <= n) => i - n \in 1..m + 1
    BY <1>4
  <2>2. a \in [1..n + 1 -> Places(r)] /\ b \in [1..m + 1 -> Places(r)]
    BY <1>1, <1>2 DEF n, m
  <2> QED
    BY <1>4, <2>1, <2>2
<1>6. f[n + 1] = d /\ f[n + m + 1] = e /\ f[1] = c
  <2>1. f[1 + n] = b[1] /\ f[(m + 1) + n] = b[m + 1]
    BY <1>4, <1>5
  <2>2. n = 0 => c = d
    BY <1>1
  <2> HIDE DEF f, n, m
  <2>3. n # 0 => f[1] = a[1]
    BY <1>4, <1>5
  <2>4. 1 + n = n + 1 /\ (m + 1) + n = n + m + 1
    BY <1>4
  <2> QED
    BY <1>1, <1>2, <1>4, <2>1, <2>2, <2>3, <2>4 DEF n, m
<1> HIDE DEF f
<1>7. ASSUME NEW i \in 1..n + m PROVE Move(r, f[i], z[i], f[i + 1])
  <2> HIDE DEF n, m
  <2>1. CASE i < n
    <3>1. i \in 1..n /\ i + 1 \in 1..n
      BY <1>4, <2>1
    <3> QED
      BY <1>1, <1>4, <1>5, <3>1 DEF n
  <2>2. CASE i = n
    <3>1. i \in 1..n
      BY <1>4, <2>2
    <3>2. f[i] = a[i] /\ z[i] = x[i] /\ f[i + 1] = a[i + 1]
      BY <1>1, <1>4, <1>5, <1>6, <2>2, <3>1 DEF n
    <3> QED
      BY <1>1, <3>1, <3>2 DEF n
  <2>3. CASE i > n
    <3>1. PICK j \in 1..m : i = j + n
      <4>1. i - n \in 1..m /\ i = (i - n) + n
        BY <1>4, <2>3
      <4> QED
        BY <4>1
    <3>2. f[j + n] = b[j] /\ z[j + n] = y[j] /\ f[(j + 1) + n] = b[j + 1]
      BY <1>4, <1>5
    <3>3. (j + 1) + n = i + 1
      BY <1>4, <3>1
    <3> QED
      BY <1>2, <3>1, <3>2, <3>3 DEF m
  <2> QED
    BY <1>4, <2>1, <2>2, <2>3
<1> QED
  <2>1. Leads(r, z, c, e)
    <3>1. Len(z) = n + m /\ Len(z) + 1 = n + m + 1
      BY <1>4
    <3> HIDE DEF n, m
    <3> QED
      BY <1>4, <1>5, <1>6, <1>7, <3>1 DEF Leads
  <2> QED
    BY <2>1 DEF z

\* The first token is a move, and the others lead on.
LEMMA LeadsFrom ==
  ASSUME NEW r, NEW x, NEW c, NEW d, Leads(r, x, c, d), x # <<>>
  PROVE  /\ Head(x) \in Tokens /\ c \in Places(r)
         /\ \E e \in Places(r) : Move(r, c, Head(x), e) /\ Leads(r, Tail(x), e, d)
<1>1. PICK a \in [1..Len(x) + 1 -> Places(r)] :
        /\ a[1] = c /\ a[Len(x) + 1] = d
        /\ \A i \in 1..Len(x) : Move(r, a[i], x[i], a[i + 1])
  BY DEF Leads
<1> DEFINE y == Tail(x)
           b == [i \in 1..Len(y) + 1 |-> a[i + 1]]
<1>2. /\ x \in Seq(Tokens) /\ Len(x) \in Nat \ {0} /\ Head(x) = x[1] /\ x[1] \in Tokens
      /\ y \in Seq(Tokens) /\ Len(y) = Len(x) - 1 /\ \A i \in 1..Len(y) : y[i] = x[i + 1]
  BY DEF Leads
<1> HIDE DEF y
<1>3. /\ b \in [1..Len(y) + 1 -> Places(r)] /\ b[1] = a[2] /\ b[Len(y) + 1] = d
      /\ \A i \in 1..Len(y) : b[i] = a[i + 1] /\ b[i + 1] = a[(i + 1) + 1]
  BY <1>1, <1>2
<1> HIDE DEF b
<1>4. ASSUME NEW i \in 1..Len(y) PROVE Move(r, b[i], y[i], b[i + 1])
  <2>1. PICK j \in 1..Len(x) : j = i + 1
    BY <1>2
  <2>2. Move(r, a[j], x[j], a[j + 1])
    BY <1>1
  <2>3. b[i] = a[j] /\ b[i + 1] = a[j + 1] /\ y[i] = x[j]
    BY <1>2, <1>3, <2>1
  <2> QED
    BY <2>2, <2>3
<1>5. Move(r, c, Head(x), a[2]) /\ a[2] \in Places(r) /\ c \in Places(r)
  <2>1. PICK i \in 1..Len(x) : i = 1 /\ i + 1 = 2
    BY <1>2
  <2>2. Move(r, a[i], x[i], a[i + 1])
    BY <1>1
  <2>3. a[1] \in Places(r) /\ a[2] \in Places(r)
    BY <1>1, <1>2
  <2> QED
    BY <1>1, <1>2, <2>1, <2>2, <2>3
<1>6. Leads(r, y, a[2], d)
  BY <1>2, <1>3, <1>4 DEF Leads
<1> QED
  BY <1>2, <1>5, <1>6 DEF y

\* Sequences of tokens one after the other, the first of which may take the place
\* b and all take the place c to c.
Repeats(r, e, n, b, c) ==
  \A i \in 1..n : Leads(r, e[i], b, c) /\ Leads(r, e[i], c, c) /\ e[i] # <<>>

\* So do all of them.
LEMMA LeadsThrough ==
  ASSUME NEW r, NEW b \in Places(r), NEW c \in Places(r), NEW n \in Nat, NEW e,
         Repeats(r, e, n, b, c)
  PROVE  Leads(r, Flat(e, n), b, IF n = 0 THEN b ELSE c)
<1> DEFINE End_(i) == IF i = 0 THEN b ELSE c
           S == {i \in Nat : i <= n => Leads(r, Flat(e, i), b, End_(i))}
<1>1. 0 \in S
  <2>1. Flat(e, 0) = <<>> /\ End_(0) = b
    BY FlatNone
  <2> QED
    BY <2>1, LeadsNowhere
<1>2. ASSUME NEW i \in 0..n - 1, i \in S PROVE i + 1 \in S
  <2>1. PICK m \in Nat : m = i + 1 /\ m \in 1..n
    OBVIOUS
  <2>2. Sequences(e, Tokens, m)
    BY <2>1 DEF Sequences, Leads, Repeats
  <2>3. Flat(e, m) = Flat(e, i) \o e[m]
    <3> DEFINE Y == Tokens
    <3>1. Sequences(e, Y, m)
      BY <2>2
    <3> HIDE DEF Y
    <3>2. i \in Nat
      OBVIOUS
    <3> QED
      BY <2>1, <3>1, <3>2, FlatGrows
  <2>4. Leads(r, Flat(e, i), b, End_(i))
    BY <1>2
  <2>5. Leads(r, e[m], End_(i), c)
    BY <2>1 DEF Repeats
  <2>6. Leads(r, Flat(e, m), b, c)
    BY <2>3, <2>4, <2>5, LeadsOn
  <2> QED
    BY <2>1, <2>6
<1>3. n \in S
  <2> HIDE DEF S
  <2>1. S \in SUBSET Nat
    BY DEF S
  <2> QED
    BY <1>1, <1>2, <2>1, Induction
<1> QED
  BY <1>3

\* What is one after the other is there if its parts are.
LEMMA FlatIsThere ==
  ASSUME NEW X, NEW e, NEW n \in Nat, Sequences(e, X, n), n # 0, e[n] # <<>>
  PROVE  Flat(e, n) # <<>>
<1>1. PICK m \in Nat : n = m + 1
  <2>1. n - 1 \in Nat /\ n = (n - 1) + 1
    OBVIOUS
  <2> QED
    BY <2>1
<1>2. Flat(e, m) \in Seq(X) /\ Flat(e, n) = Flat(e, m) \o e[n] /\ e[n] \in Seq(X)
  <2>1. Flat(e, m) \in Seq(X) /\ Flat(e, n) = Flat(e, m) \o e[n]
    BY <1>1, FlatGrows
  <2>2. n \in 1..n
    BY <1>1
  <2> QED
    BY <2>1, <2>2 DEF Sequences
<1> DEFINE f == Flat(e, m)
           l == e[n]
<1>3. f \in Seq(X) /\ l \in Seq(X) /\ l # <<>> => f \o l # <<>>
  OBVIOUS
<1> QED
  BY <1>2, <1>3

\* The tokens of a list, each of which may take the place b and all take c to c.
LEMMA LeadsEach ==
  ASSUME NEW r, NEW b \in Places(r), NEW c \in Places(r), NEW n \in Nat, NEW e, NEW x,
         Repeats(r, e, n, b, c), x = FlattenSeq([i \in 1..n |-> e[i]])
  PROVE  /\ Leads(r, x, b, IF n = 0 THEN b ELSE c)
         /\ x = <<>> => n = 0
<1>1. Leads(r, x, b, IF n = 0 THEN b ELSE c)
  BY LeadsThrough DEF Flat
<1>2. x = <<>> => n = 0
  <2> DEFINE Y == Tokens
  <2>1. Sequences(e, Y, n) /\ (n # 0 => e[n] # <<>>)
    BY DEF Sequences, Repeats, Leads
  <2> HIDE DEF Y
  <2> QED
    BY <2>1, FlatIsThere DEF Flat
<1> QED
  BY <1>1, <1>2

\* The tokens of a file.
LEMMA NoAttributesAre == NoAttributes \in Attributes /\ IsAttributes(NoAttributes)
<1> DEFINE D == {}
<1>1. NoAttributes \in [D -> Values]
  BY DEF NoAttributes
<1>2. D \in SUBSET AttributeNames
  OBVIOUS
<1>3. DOMAIN NoAttributes = {} /\ NoAttributes = [k \in DOMAIN NoAttributes |-> NoAttributes[k]]
  BY DEF NoAttributes
<1> QED
  BY <1>1, <1>2, <1>3 DEF Attributes, IsAttributes

\* What the start, the end and an empty element of a file put in it are tokens.
LEMMA TokenTypes ==
  ASSUME NEW n \in Names, NEW a, IsAttributes(a)
  PROVE  IsToken(StartToken(n, a)) /\ IsToken(EmptyToken(n, a)) /\ IsToken(EndToken(n))
<1>2. a \in Attributes
  <2>1. \A k \in DOMAIN a : a[k] \in Values
    BY DEF IsAttributes, AttributeNames, Values
  <2>2. a \in [DOMAIN a -> Values]
    BY <2>1 DEF IsAttributes
  <2> QED
    BY <2>2 DEF IsAttributes, Attributes
<1> QED
  BY <1>2, NoAttributesAre DEF IsToken, Tokens, StartToken, EmptyToken, EndToken

\* So is a text.
LEMMA TextTypes ==
  ASSUME NEW v \in Words
  PROVE  IsToken(TextToken(v))
BY NoAttributesAre DEF IsToken, Tokens, TextToken

\* An element is its start, its content and its end, or its empty token.
LEMMA ElementLeads ==
  ASSUME NEW r, NEW file_, NEW n, NEW a, NEW content,
         NEW c \in Places(r), NEW c1 \in Places(r), NEW d1 \in Places(r), NEW d \in Places(r),
         file_.selfClosing /\ content = <<>> => Move(r, c, EmptyToken(n, a), d),
         ~(file_.selfClosing /\ content = <<>>) =>
           /\ Move(r, c, StartToken(n, a), c1) /\ Leads(r, content, c1, d1)
           /\ Move(r, d1, EndToken(n), d)
  PROVE  /\ Leads(r, ElementTokens(file_, n, a, content), c, d)
         /\ ElementTokens(file_, n, a, content) # <<>>
<1>0. \A k, x, y : Move(r, x, k, y) => k \in Tokens
  BY DEF Move, IsToken
<1>1. CASE file_.selfClosing /\ content = <<>>
  <2> DEFINE k == EmptyToken(n, a)
  <2>1. k \in Tokens /\ Move(r, c, k, d) /\ ElementTokens(file_, n, a, content) = <<k>>
    BY <1>0, <1>1 DEF ElementTokens
  <2> HIDE DEF k
  <2>2. <<k>> # <<>>
    OBVIOUS
  <2> QED
    BY <2>1, <2>2, LeadsOne
<1>2. CASE ~(file_.selfClosing /\ content = <<>>)
  <2> DEFINE k == StartToken(n, a)
             l == EndToken(n)
  <2>1. ElementTokens(file_, n, a, content) = <<k>> \o content \o <<l>>
    BY <1>2 DEF ElementTokens
  <2>2. /\ k \in Tokens /\ Move(r, c, k, c1)
        /\ l \in Tokens /\ Move(r, d1, l, d) /\ Leads(r, content, c1, d1)
    BY <1>0, <1>2
  <2> HIDE DEF k, l
  <2>3. Leads(r, <<k>>, c, c1) /\ Leads(r, <<l>>, d1, d)
    BY <2>2, LeadsOne
  <2>4. Leads(r, <<k>> \o content, c, d1)
    BY <2>2, <2>3, LeadsOn
  <2>5. Leads(r, (<<k>> \o content) \o <<l>>, c, d)
    BY <2>3, <2>4, LeadsOn
  <2>6. <<k>> \o content \o <<l>> # <<>>
    <3>1. \A y \in Seq(Tokens) : <<k>> \o y \o <<l>> # <<>>
      BY <2>2
    <3> QED
      BY <2>2, <3>1 DEF Leads
  <2> QED
    BY <2>1, <2>5, <2>6
<1> QED
  BY <1>1, <1>2

\* Texts end in a place that is after a text.
Texted(c) == [c EXCEPT !.inner = IF @ = "no" THEN "no" ELSE "texted"]

\* Texts are read where they stand: a step or a param has had one then.
LEMMA TextsLead ==
  ASSUME NEW r, NEW c \in Places(r), NEW list \in Seq(Words), c.level \notin {"out", "end"}
  PROVE  /\ Texted(c) \in Places(r)
         /\ Leads(r, Texts(list), c, IF list = <<>> THEN c ELSE Texted(c))
         /\ Texts(list) = <<>> => list = <<>>
<1> DEFINE e == [i \in 1..Len(list) |-> <<TextToken(list[i])>>]
           d == Texted(c)
           n == Len(list)
<1>1. d \in Places(r) /\ Texted(d) = d /\ d.level = c.level
  BY DEF Texted, Places
<1>2. Texts(list) = FlattenSeq([i \in DOMAIN list |-> <<TextToken(list[i])>>])
  BY Zenon DEF Texts, Each
<1>3. Texts(list) = FlattenSeq([i \in 1..n |-> e[i]])
  <2>1. [i \in DOMAIN list |-> <<TextToken(list[i])>>] = [i \in 1..n |-> e[i]]
    OBVIOUS
  <2> QED
    BY <1>2, <2>1
<1>4. ASSUME NEW i \in 1..n PROVE Leads(r, e[i], c, d) /\ Leads(r, e[i], d, d) /\ e[i] # <<>>
  <2> DEFINE k == TextToken(list[i])
  <2>1. list[i] \in Words
    OBVIOUS
  <2>2. IsToken(k) /\ k.t = "text"
    BY <2>1, TextTypes DEF TextToken
  <2> HIDE DEF k
  <2>3. k \in Tokens /\ Move(r, c, k, d) /\ Move(r, d, k, d)
    BY <1>1, <2>2 DEF Move, TextMove, IsToken, Texted
  <2>4. e[i] = <<k>> /\ e[i] # <<>>
    BY DEF k
  <2> HIDE DEF e, d
  <2> QED
    BY <1>1, <2>3, <2>4, LeadsOne
<1>5. Repeats(r, e, n, c, d)
  BY <1>4 DEF Repeats
<1>6. n \in Nat /\ (n = 0 <=> list = <<>>)
  OBVIOUS
<1> HIDE DEF e, d, n
<1>7. Leads(r, Texts(list), c, IF n = 0 THEN c ELSE d) /\ (Texts(list) = <<>> => n = 0)
  BY <1>1, <1>3, <1>5, <1>6, LeadsEach
<1> QED
  BY <1>1, <1>6, <1>7 DEF d

\* The tokens of one text.
LEMMA OneText ==
  ASSUME NEW v, <<v>> \in Seq(Words)
  PROVE  Texts(<<v>>) = <<TextToken(v)>>
<1> DEFINE list == <<v>>
           x == <<TextToken(v)>>
<1>1. Texts(list) = FlattenSeq([i \in DOMAIN list |-> <<TextToken(list[i])>>])
  BY Zenon DEF Texts, Each
<1>2. [i \in DOMAIN list |-> <<TextToken(list[i])>>] = <<x>>
  OBVIOUS
<1>3. x \in Seq(Tokens)
  <2>1. v \in Words
    OBVIOUS
  <2> QED
    BY <2>1, TextTypes DEF IsToken
<1> HIDE DEF x
<1> QED
  BY <1>1, <1>2, <1>3, FlattenOne DEF x

-----------------------------------------------------------------------------
(* Where the tokens of a file lead.                                         *)

\* A place in a set where a step can be.
AtSteps(c) ==
  c \in Places(Traits) /\ c.level = "set" /\ c.inner = "no" /\ c.box \in ListTags \cup {"none"}
\* A step that the logger can close there.
Fits(c, x) ==
  /\ IsStep(x) /\ (c.box # "none" => x.n = "step")
  /\ Closable =>
       /\ c.box # "none" => x.text # <<>>
       /\ \A i \in DOMAIN x.params : x.params[i] # <<>>
       /\ ListsRunOn /\ x.n = "step" /\ DOMAIN x.a = {} => x.text # <<>>

\* The texts of a file are words.
LEMMA StringsAreWords == \A l \in Seq(STRING) : l \in Seq(Words)
BY DEF Words

\* A param of an event ends where it began.
LEMMA ParamLeads ==
  ASSUME NEW c, AtSteps(c), c.box = "none", NEW p \in Seq(STRING), Closable => p # <<>>
  PROVE  /\ Leads(Traits, ElementTokens(doc, "param", NoAttributes, Texts(p)), c, c)
         /\ ElementTokens(doc, "param", NoAttributes, Texts(p)) # <<>>
<1> DEFINE r == Traits
           c1 == [c EXCEPT !.inner = "bare"]
           d1 == IF p = <<>> THEN c1 ELSE Texted(c1)
<1>1. c1 \in Places(r) /\ d1 \in Places(r) /\ c \in Places(r) /\ c1.level = "set"
  BY DEF AtSteps, Places, Texted
<1>2. Leads(r, Texts(p), c1, d1)
  BY <1>1, StringsAreWords, TextsLead
<1>3. /\ IsToken(StartToken("param", NoAttributes)) /\ IsToken(EmptyToken("param", NoAttributes))
      /\ IsToken(EndToken("param"))
  BY NoAttributesAre, TokenTypes DEF Names
<1>4. Move(r, c, StartToken("param", NoAttributes), c1)
  BY <1>3 DEF Move, CaseMove, AtSteps, StartToken, Begins
<1>5. p = <<>> => Move(r, c, EmptyToken("param", NoAttributes), c)
  <2>1. c = [c EXCEPT !.inner = "no"]
    BY DEF AtSteps, Places
  <2> QED
    BY <1>3, <2>1 DEF Move, CaseMove, AtSteps, EmptyToken, Begins, Traits
<1>6. Move(r, d1, EndToken("param"), c)
  <2>1. c = [d1 EXCEPT !.inner = "no"] /\ d1.inner # "no" /\ d1.level = "set" /\ d1.box = "none"
    BY DEF AtSteps, Places, Texted
  <2>2. Closable => d1.inner = "texted"
    BY DEF AtSteps, Places, Texted
  <2> HIDE DEF d1
  <2> QED
    BY <1>3, <2>1, <2>2 DEF Move, StepMove, EndToken, Closes, Traits
<1>7. Texts(p) = <<>> => p = <<>>
  BY <1>1, StringsAreWords, TextsLead
<1> HIDE DEF r, c1, d1
<1> QED
  BY <1>1, <1>2, <1>4, <1>5, <1>6, <1>7, ElementLeads DEF r

\* A step, and an event with its params, end where they began.
LEMMA StepLeads ==
  ASSUME NEW c, NEW x, AtSteps(c), Fits(c, x)
  PROVE  Leads(Traits, StepTokens(doc, x), c, c) /\ StepTokens(doc, x) # <<>>
<1> DEFINE r == Traits
           texts == Texts(x.text)
           params == FlattenSeq([i \in DOMAIN x.params |->
                                   ElementTokens(doc, "param", NoAttributes, Texts(x.params[i]))])
           content == texts \o params
<1>1. StepTokens(doc, x) = ElementTokens(doc, x.n, x.a, content)
  BY Zenon DEF StepTokens, Each
<1>2. /\ x.text \in Seq(Words) /\ x.params \in Seq(Seq(STRING)) /\ IsAttributes(x.a)
      /\ x.n \in {"step", "event"} /\ x.n \in Names
      /\ IF x.n = "step" THEN x.params = <<>> ELSE x.text = <<>>
  BY StringsAreWords DEF Fits, IsStep, Names
<1>3. /\ IsToken(StartToken(x.n, x.a)) /\ IsToken(EmptyToken(x.n, x.a)) /\ IsToken(EndToken(x.n))
  BY <1>2, TokenTypes
<1>4. c \in Places(r) /\ c.level = "set"
  BY DEF AtSteps
<1>5. CASE x.n = "event"
  <2>1. c.box = "none" /\ (Closable => \A i \in DOMAIN x.params : x.params[i] # <<>>)
    BY <1>5 DEF Fits
  <2>2. texts = <<>>
    <3>1. x.text = <<>>
      BY <1>2, <1>5
    <3> QED
      BY <3>1, FlattenEmpty DEF Texts, Each
  <2>3. Leads(r, params, c, c)
    <3> DEFINE n == Len(x.params)
               e == [i \in 1..n |-> ElementTokens(doc, "param", NoAttributes, Texts(x.params[i]))]
    <3>1. params = FlattenSeq([i \in 1..n |-> e[i]])
      <4>1. DOMAIN x.params = 1..n
        BY <1>2
      <4> QED
        BY <4>1
    <3>2. ASSUME NEW i \in 1..n PROVE Leads(r, e[i], c, c) /\ e[i] # <<>>
      <4>1. x.params[i] \in Seq(STRING) /\ (Closable => x.params[i] # <<>>)
        BY <1>2, <2>1
      <4>2. e[i] = ElementTokens(doc, "param", NoAttributes, Texts(x.params[i]))
        OBVIOUS
      <4> QED
        BY <2>1, <4>1, <4>2, ParamLeads
    <3>3. n \in Nat
      BY <1>2
    <3> HIDE DEF e, n, params, r
    <3>4. Repeats(r, e, n, c, c)
      BY <3>2 DEF Repeats
    <3> QED
      BY <1>4, <3>1, <3>3, <3>4, LeadsEach
  <2>4. content = params
    <3>1. params \in Seq(Tokens)
      BY <2>3 DEF Leads
    <3> HIDE DEF params, texts
    <3> QED
      BY <2>2, <3>1
  <2>5. /\ Move(r, c, StartToken(x.n, x.a), c) /\ Move(r, c, EmptyToken(x.n, x.a), c)
        /\ Move(r, c, EndToken(x.n), c)
    BY <1>3, <1>5, <2>1
    DEF Move, CaseMove, AtSteps, StartToken, EmptyToken, EndToken, Begins, Closes
  <2> HIDE DEF content, params, r
  <2> QED
    BY <1>1, <1>4, <2>3, <2>4, <2>5, ElementLeads DEF r
<1>6. CASE x.n = "step"
  <2> DEFINE c1 == [c EXCEPT !.inner = "bare"]
             d1 == IF x.text = <<>> THEN c1 ELSE Texted(c1)
  <2>1. c1 \in Places(r) /\ d1 \in Places(r) /\ c1.level = "set"
    BY DEF AtSteps, Places, Texted
  <2>2. Leads(r, texts, c1, d1)
    BY <1>2, <2>1, TextsLead
  <2>3. content = texts
    <3>1. x.params = <<>> /\ params = <<>>
      <4>1. x.params = <<>>
        BY <1>2, <1>6
      <4> QED
        BY <4>1, FlattenEmpty
    <3>2. texts \in Seq(Tokens)
      BY <2>2 DEF Leads
    <3> HIDE DEF params, texts
    <3> QED
      BY <3>1, <3>2
  <2>4. Move(r, c, StartToken(x.n, x.a), c1)
    BY <1>3, <1>6 DEF Move, StepMove, AtSteps, StartToken, Begins
  <2>5. content = <<>> => x.text = <<>>
    BY <1>2, <2>1, <2>3, TextsLead
  <2>6. doc.selfClosing /\ content = <<>> => Move(r, c, EmptyToken(x.n, x.a), c)
    <3>1. c = [c EXCEPT !.inner = "no"]
      BY DEF AtSteps, Places
    <3>2. Closable /\ x.text = <<>> => c.box = "none" /\ (ListsRunOn => DOMAIN x.a # {})
      BY <1>6 DEF Fits
    <3> HIDE DEF content
    <3> QED
      BY <1>3, <1>6, <2>5, <3>1, <3>2 DEF Move, StepMove, AtSteps, EmptyToken, Begins, Traits
  <2>7. ~(doc.selfClosing /\ content = <<>>) => Move(r, d1, EndToken(x.n), c)
    <3>1. c = [d1 EXCEPT !.inner = "no"] /\ d1.inner # "no" /\ d1.level = "set" /\ d1.box = c.box
      BY DEF AtSteps, Places, Texted
    <3>2. x.text # <<>> => d1.inner = "texted"
      BY DEF AtSteps, Places, Texted
    <3>3. x.text = <<>> => content = <<>>
      <4>1. x.text = <<>> => texts = <<>>
        BY FlattenEmpty DEF Texts, Each
      <4> QED
        BY <2>3, <4>1
    <3>4. ~(doc.selfClosing /\ content = <<>>) /\ Closable /\ (c.box # "none" \/ ListsRunOn)
            => x.text # <<>>
      BY <1>6, <3>3 DEF Fits, ListsRunOn
    <3> HIDE DEF d1, content
    <3> QED
      BY <1>3, <1>6, <3>1, <3>2, <3>4 DEF Move, StepMove, EndToken, Closes, Traits, AtSteps
  <2> HIDE DEF content, texts, c1, d1, r
  <2> QED
    BY <1>1, <1>4, <2>1, <2>2, <2>3, <2>4, <2>6, <2>7, ElementLeads DEF r
<1> QED
  BY <1>2, <1>5, <1>6

\* The steps of a list or of a case.
LEMMA StepsLead ==
  ASSUME NEW c, NEW list, AtSteps(c), Every(IsStep, list), \A i \in DOMAIN list : Fits(c, list[i])
  PROVE  /\ Leads(Traits, Each(LAMBDA s : StepTokens(doc, s), list), c, c)
         /\ Each(LAMBDA s : StepTokens(doc, s), list) = <<>> => list = <<>>
<1> DEFINE r == Traits
           n == Len(list)
           e == [i \in 1..n |-> StepTokens(doc, list[i])]
           x == Each(LAMBDA s : StepTokens(doc, s), list)
<1>1. list \in Seq({list[i] : i \in DOMAIN list})
  BY DEF Every
<1>2. n \in Nat /\ DOMAIN list = 1..n
  BY <1>1
<1>3. x = FlattenSeq([i \in DOMAIN list |-> StepTokens(doc, list[i])])
  BY Zenon DEF Each
<1>4. x = FlattenSeq([i \in 1..n |-> e[i]])
  BY <1>2, <1>3
<1>5. ASSUME NEW i \in 1..n PROVE Leads(r, e[i], c, c) /\ e[i] # <<>>
  <2>1. Fits(c, list[i]) /\ e[i] = StepTokens(doc, list[i])
    BY <1>2
  <2> QED
    BY <2>1, StepLeads
<1>6. c \in Places(r)
  BY DEF AtSteps
<1> HIDE DEF e, n, r, x
<1>7. Repeats(r, e, n, c, c)
  BY <1>5 DEF Repeats
<1>8. Leads(r, x, c, c) /\ (x = <<>> => n = 0)
  BY <1>2, <1>4, <1>6, <1>7, LeadsEach
<1>9. n = 0 => list = <<>>
  BY <1>1 DEF n
<1> QED
  BY <1>8, <1>9 DEF r, x

\* A list of steps begins and ends in a place of the set s.
AtSet(c, s) ==
  c \in Places(Traits) /\ c.level = "set" /\ c.s = s /\ c.inner = "no" /\ c.box = "none"
At(s, stage) == Place("set", s, stage, "none", "no")
\* The lists of a tag.
TaggedLists(s) ==
  [pre_steps |-> s.pre_steps, post_steps |-> s.post_steps, post_reboot_steps |-> s.reboot_steps]

\* The elements of three sequences are in the one of them all.
HasAll(z, list) == \A k \in DOMAIN list : \E m \in DOMAIN z : z[m] = list[k]

\* A list of a concatenation of three is in it.
LEMMA Joined ==
  ASSUME NEW X, NEW a \in Seq(X), NEW b \in Seq(X), NEW d \in Seq(X)
  PROVE  /\ HasAll(a \o b \o d, a) /\ HasAll(a \o b \o d, b) /\ HasAll(a \o b \o d, d)
<1> DEFINE all == a \o b \o d
<1>1. /\ \A k \in DOMAIN a : k \in DOMAIN all /\ all[k] = a[k]
      /\ \A k \in DOMAIN b : Len(a) + k \in DOMAIN all /\ all[Len(a) + k] = b[k]
      /\ \A k \in DOMAIN d : Len(a) + Len(b) + k \in DOMAIN all /\ all[Len(a) + Len(b) + k] = d[k]
  OBVIOUS
<1> HIDE DEF all
<1>2. /\ \A k \in DOMAIN a : \E m \in DOMAIN all : all[m] = a[k]
      /\ \A k \in DOMAIN b : \E m \in DOMAIN all : all[m] = b[k]
      /\ \A k \in DOMAIN d : \E m \in DOMAIN all : all[m] = d[k]
  BY <1>1
<1> QED
  BY <1>2 DEF all, HasAll

\* A list of steps is one of those Closable and ListsRunOn speak of.
LEMMA ListsAre ==
  ASSUME NEW s, IsSet(s), NEW t \in ListTags, NEW i \in DOMAIN TaggedLists(s)[t]
  PROVE  \E k \in DOMAIN ListsOf(s) : ListsOf(s)[k] = TaggedLists(s)[t][i]
<1> DEFINE l == TaggedLists(s)[t]
           all == s.pre_steps \o s.post_steps \o s.reboot_steps
<1>1. PICK X : s.pre_steps \in Seq(X) /\ s.post_steps \in Seq(X) /\ s.reboot_steps \in Seq(X)
  <2> DEFINE Of(list) == {list[k] : k \in DOMAIN list}
             Y == Of(s.pre_steps) \cup Of(s.post_steps) \cup Of(s.reboot_steps)
  <2>1. /\ s.pre_steps \in Seq(Of(s.pre_steps)) /\ s.post_steps \in Seq(Of(s.post_steps))
        /\ s.reboot_steps \in Seq(Of(s.reboot_steps))
    BY DEF IsSet, Every
  <2>2. \A A, list : list \in Seq(A) /\ A \subseteq Y => list \in Seq(Y)
    OBVIOUS
  <2>3. Of(s.pre_steps) \subseteq Y /\ Of(s.post_steps) \subseteq Y /\ Of(s.reboot_steps) \subseteq Y
    OBVIOUS
  <2> HIDE DEF Of, Y
  <2> QED
    BY <2>1, <2>2, <2>3
<1>2. \E k \in DOMAIN all : all[k] = l[i]
  <2>2. t \in {"pre_steps", "post_steps", "post_reboot_steps"}
    BY DEF ListTags
  <2>3. /\ TaggedLists(s).pre_steps = s.pre_steps /\ TaggedLists(s).post_steps = s.post_steps
        /\ TaggedLists(s).post_reboot_steps = s.reboot_steps
    BY DEF TaggedLists
  <2>4. HasAll(all, s.pre_steps) /\ HasAll(all, s.post_steps) /\ HasAll(all, s.reboot_steps)
    BY <1>1, Joined
  <2> HIDE DEF all
  <2> QED
    BY <2>2, <2>3, <2>4 DEF HasAll
<1> QED
  BY <1>2 DEF ListsOf

\* The steps of the lists of a set have a command, if the logger can close them.
LEMMA ClosableLists ==
  ASSUME NEW s \in Sets, IsSet(s), Closable, NEW t \in ListTags, NEW i \in DOMAIN TaggedLists(s)[t],
         NEW j \in DOMAIN TaggedLists(s)[t][i]
  PROVE  TaggedLists(s)[t][i][j].text # <<>>
<1>1. \A k \in DOMAIN ListsOf(s) : \A m \in DOMAIN ListsOf(s)[k] : ListsOf(s)[k][m].text # <<>>
  BY Zenon DEF Closable
<1>2. \E k \in DOMAIN ListsOf(s) : ListsOf(s)[k] = TaggedLists(s)[t][i]
  BY ListsAre
<1> QED
  BY <1>1, <1>2

\* What the tokens of a list of steps do, by their tag.
LEMMA ListLeads ==
  ASSUME NEW s \in Sets, IsSet(s), NEW t \in ListTags, NEW c, NEW d, AtSet(c, s),
         c.stage <= StageOf(t), d = [c EXCEPT !.stage = StageOf(t)],
         NEW i \in DOMAIN TaggedLists(s)[t], NEW list, list = TaggedLists(s)[t][i]
  PROVE  LET tokens == ElementTokens(doc, t, NoAttributes, Each(LAMBDA x : StepTokens(doc, x), list))
         IN  Leads(Traits, tokens, c, d) /\ tokens # <<>>
<1> DEFINE r == Traits
           content == Each(LAMBDA x : StepTokens(doc, x), list)
           c1 == [d EXCEPT !.box = t]
<1>1. t \in {"pre_steps", "post_steps", "post_reboot_steps"}
  BY DEF ListTags
<1>2. IsStepList(list) /\ (t = "post_reboot_steps" => s.reboot_steps # <<>>)
  <2>1. /\ Every(IsStepList, s.pre_steps) /\ Every(IsStepList, s.post_steps)
        /\ Every(IsStepList, s.reboot_steps)
    BY DEF IsSet
  <2> QED
    BY <1>1, <2>1 DEF Every, TaggedLists
<1>3. c \in Places(r) /\ c1 \in Places(r) /\ d \in Places(r) /\ c1.box = t /\ AtSteps(c1)
  <2>1. StageOf(t) \in 0..2 /\ t \in Boxes
    BY <1>1 DEF StageOf, Boxes, ListTags
  <2>2. c \in Places(r) /\ d \in Places(r)
    BY <2>1 DEF AtSet, Places
  <2>3. c1 \in Places(r) /\ c1.box = t /\ c1.level = "set" /\ c1.inner = "no"
    BY <2>1, <2>2 DEF Places, AtSet
  <2> HIDE DEF c1
  <2> QED
    BY <2>2, <2>3 DEF AtSteps
<1>4. ASSUME NEW j \in DOMAIN list PROVE Fits(c1, list[j])
  <2>1. IsStep(list[j]) /\ list[j].n = "step"
    BY <1>2 DEF IsStepList, Every
  <2>2. \A k \in DOMAIN list[j].params : FALSE
    BY <2>1 DEF IsStep
  <2>3. Closable => list[j].text # <<>>
    BY ClosableLists
  <2> QED
    BY <2>1, <2>2, <2>3 DEF Fits
<1>5. Leads(r, content, c1, c1) /\ (content = <<>> => list = <<>>)
  BY <1>2, <1>3, <1>4, StepsLead DEF IsStepList
<1>6. /\ IsToken(StartToken(t, NoAttributes)) /\ IsToken(EmptyToken(t, NoAttributes))
      /\ IsToken(EndToken(t))
  BY <1>1, NoAttributesAre, TokenTypes DEF Names, Boxes, ListTags
<1>7. c.level = "set" /\ c.inner = "no" /\ c.box = "none" /\ c.s = s
  BY DEF AtSet
<1>8. doc.selfClosing /\ content = <<>> => Move(r, c, EmptyToken(t, NoAttributes), d)
  <2>1. d = [c EXCEPT !.stage = StageOf(t), !.box = "none"]
    BY <1>3, <1>7 DEF Places
  <2>2. ASSUME doc.selfClosing, content = <<>> PROVE ListsRunOn
    <3>1. list = <<>>
      BY <1>5, <2>2
    <3>2. \E k \in DOMAIN ListsOf(s) : ListsOf(s)[k] = <<>>
      BY <3>1, ListsAre
    <3>3. <<>> \in ToSet(ListsOf(s))
      BY <3>2 DEF ToSet
    <3> QED
      BY <2>2, <3>3 DEF ListsRunOn
  <2> HIDE DEF content
  <2> QED
    BY <1>2, <1>6, <1>7, <2>1, <2>2 DEF Move, ListMove, EmptyToken, Begins, Traits
<1>9. s \in r.sets
  BY DEF Traits
<1> HIDE DEF r
<1>10. Move(r, c, StartToken(t, NoAttributes), c1)
  <2>1. c1 = [c EXCEPT !.stage = StageOf(t), !.box = t]
    BY <1>3, <1>7 DEF Places
  <2> HIDE DEF c1
  <2> QED
    BY <1>2, <1>6, <1>7, <2>1, <1>9 DEF Move, ListMove, StartToken, Begins
<1>11. Move(r, c1, EndToken(t), d)
  <2>1. d = [c1 EXCEPT !.box = "none"] /\ c1.stage = StageOf(t)
        /\ c1.level = "set" /\ c1.inner = "no" /\ c1.box = t /\ c1.s = s
    BY <1>3, <1>7 DEF Places
  <2> HIDE DEF c1
  <2> QED
    BY <1>2, <1>6, <2>1, <1>9 DEF Move, ListMove, EndToken, Closes
<1> HIDE DEF content, c1
<1>12. /\ Leads(r, ElementTokens(doc, t, NoAttributes, content), c, d)
       /\ ElementTokens(doc, t, NoAttributes, content) # <<>>
  BY <1>3, <1>5, <1>8, <1>10, <1>11, ElementLeads
<1> QED
  BY <1>12 DEF r, content

\* What is done n times takes b to c.
After_(n, b, c) == IF n = 0 THEN b ELSE c

\* The lists of a tag.
LEMMA TagLeads ==
  ASSUME NEW s \in Sets, IsSet(s), NEW t \in ListTags, NEW c, NEW d, AtSet(c, s),
         c.stage <= StageOf(t), d = [c EXCEPT !.stage = StageOf(t)],
         NEW lists, lists = TaggedLists(s)[t]
  PROVE  Leads(Traits, StepListTokens(doc, t, lists), c, IF lists = <<>> THEN c ELSE d)
<1> DEFINE r == Traits
           n == Len(lists)
           e == [i \in 1..n |-> ElementTokens(doc, t, NoAttributes,
                                              Each(LAMBDA x : StepTokens(doc, x), lists[i]))]
           y == StepListTokens(doc, t, lists)
<1>1. t \in {"pre_steps", "post_steps", "post_reboot_steps"}
  BY DEF ListTags
<1>2. n \in Nat /\ DOMAIN lists = 1..n /\ (n = 0 <=> lists = <<>>)
  <2>1. lists \in Seq({lists[i] : i \in DOMAIN lists})
    <3>1. /\ Every(IsStepList, s.pre_steps) /\ Every(IsStepList, s.post_steps)
          /\ Every(IsStepList, s.reboot_steps)
      BY DEF IsSet
    <3> QED
      BY <1>1, <3>1 DEF Every, TaggedLists
  <2> QED
    BY <2>1
<1>3. y = FlattenSeq([i \in DOMAIN lists |->
            ElementTokens(doc, t, NoAttributes, Each(LAMBDA x : StepTokens(doc, x), lists[i]))])
  BY Zenon DEF StepListTokens, Each
<1>4. y = FlattenSeq([i \in 1..n |-> e[i]])
  <2>1. [i \in DOMAIN lists |->
           ElementTokens(doc, t, NoAttributes, Each(LAMBDA x : StepTokens(doc, x), lists[i]))] = e
    BY <1>2, Zenon
  <2>2. [i \in 1..n |-> e[i]] = e
    OBVIOUS
  <2> HIDE DEF e, y
  <2> QED
    BY <1>3, <2>1, <2>2
<1>5. AtSet(d, s) /\ d.stage <= StageOf(t) /\ d = [d EXCEPT !.stage = StageOf(t)]
  <2>1. StageOf(t) \in 0..2
    BY DEF StageOf
  <2>2. d \in Places(Traits) /\ d.level = c.level /\ d.s = c.s /\ d.inner = c.inner /\ d.box = c.box
    BY <2>1 DEF AtSet, Places
  <2>3. d.stage = StageOf(t)
    BY DEF AtSet, Places
  <2>4. d = [d EXCEPT !.stage = StageOf(t)]
    BY <2>2, <2>3 DEF Places
  <2>5. AtSet(d, s)
    BY <2>2 DEF AtSet
  <2> QED
    BY <2>1, <2>3, <2>4, <2>5
<1>6. ASSUME NEW i \in 1..n PROVE Leads(r, e[i], c, d) /\ Leads(r, e[i], d, d) /\ e[i] # <<>>
  <2> DEFINE list == lists[i]
             z == ElementTokens(doc, t, NoAttributes, Each(LAMBDA x : StepTokens(doc, x), list))
  <2>1. i \in DOMAIN TaggedLists(s)[t] /\ list = TaggedLists(s)[t][i]
    BY <1>2
  <2>2. e[i] = z
    BY Zenon
  <2> HIDE DEF list, e
  <2>3. Leads(r, z, c, d) /\ z # <<>>
    BY <2>1, ListLeads
  <2>4. Leads(r, z, d, d)
    BY <1>5, <2>1, ListLeads
  <2> HIDE DEF z
  <2> QED
    BY <2>2, <2>3, <2>4
<1>7. c \in Places(r) /\ d \in Places(r)
  BY <1>5 DEF AtSet
<1> HIDE DEF e, n, r, y
<1>8. Repeats(r, e, n, c, d)
  BY <1>6 DEF Repeats
<1>9. Leads(r, y, c, IF n = 0 THEN c ELSE d)
  BY <1>2, <1>4, <1>7, <1>8, LeadsEach
<1> QED
  BY <1>2, <1>9 DEF r, y

\* The place in a box.
LEMMA InBox ==
  ASSUME NEW s, NEW t \in {"get", "environments"}, NEW c, AtSet(c, s)
  PROVE  LET d  == [c EXCEPT !.stage = 2]
             c1 == [d EXCEPT !.box = t]
         IN  /\ c \in Places(Traits) /\ d \in Places(Traits) /\ c1 \in Places(Traits)
             /\ c1.level = "set" /\ c1.inner = "no" /\ c1.box = t
<1>1. c \in Places(Traits) /\ t \in Boxes
  BY DEF AtSet, Boxes
<1> DEFINE d == [c EXCEPT !.stage = 2]
<1>2. d \in Places(Traits) /\ d.level = "set" /\ d.inner = "no"
  BY <1>1 DEF AtSet, Places
<1> HIDE DEF d
<1> DEFINE c1 == [d EXCEPT !.box = t]
<1>3. c1 \in Places(Traits) /\ c1.level = "set" /\ c1.inner = "no" /\ c1.box = t
  BY <1>1, <1>2 DEF Places
<1> QED
  BY <1>1, <1>2, <1>3 DEF d

\* A box with what is in it.
LEMMA BoxLeads ==
  ASSUME NEW s, NEW t \in {"get", "environments"}, NEW c, NEW d, AtSet(c, s),
         d = [c EXCEPT !.stage = 2],
         NEW n \in Nat, n # 0, NEW e, NEW content, content = FlattenSeq([i \in 1..n |-> e[i]]),
         Repeats(Traits, e, n, [d EXCEPT !.box = t], [d EXCEPT !.box = t])
  PROVE  Leads(Traits, ElementTokens(doc, t, NoAttributes, content), c, d)
<1> DEFINE r == Traits
           c1 == [d EXCEPT !.box = t]
<1>1. c \in Places(r) /\ c1 \in Places(r) /\ d \in Places(r)
  BY InBox
<1>2. Leads(r, content, c1, c1) /\ content # <<>>
  <2> HIDE DEF c1, r
  <2> QED
    BY <1>1, LeadsEach DEF r, c1
<1>3. IsToken(StartToken(t, NoAttributes)) /\ IsToken(EndToken(t))
  BY NoAttributesAre, TokenTypes DEF Names, Boxes, ListTags
<1>4. Move(r, c, StartToken(t, NoAttributes), c1)
  <2>1. c1 = [c EXCEPT !.stage = 2, !.box = t] /\ c.level = "set" /\ c.inner = "no" /\ c.box = "none"
    BY DEF AtSet, Places
  <2> HIDE DEF c1
  <2> QED
    BY <1>3, <2>1 DEF Move, BoxMove, StartToken, Begins
<1>5. Move(r, c1, EndToken(t), d)
  <2>1. d = [c1 EXCEPT !.box = "none"] /\ c1.level = "set" /\ c1.inner = "no" /\ c1.box = t
    BY DEF AtSet, Places
  <2> HIDE DEF c1
  <2> QED
    BY <1>3, <2>1 DEF Move, BoxMove, EndToken, Closes
<1> HIDE DEF r, c1
<1>6. Leads(r, ElementTokens(doc, t, NoAttributes, content), c, d)
  BY <1>1, <1>2, <1>4, <1>5, ElementLeads
<1> QED
  BY <1>6 DEF r

\* An element in a box.
LEMMA InBoxLeads ==
  ASSUME NEW c \in Places(Traits), c.level = "set", c.inner = "no", c.box \in {"get", "environments"},
         NEW n \in {"file", "hardware", "scratchbox"}, NEW a, IsAttributes(a),
         NEW text \in Seq(Words)
  PROVE  /\ Leads(Traits, ElementTokens(doc, n, a, Texts(text)), c, c)
         /\ ElementTokens(doc, n, a, Texts(text)) # <<>>
<1> DEFINE r == Traits
           content == Texts(text)
<1>1. Leads(r, content, c, c)
  <2>1. Texted(c) = c
    BY DEF Texted, Places
  <2> QED
    BY <2>1, TextsLead
<1>2. /\ IsToken(StartToken(n, a)) /\ IsToken(EmptyToken(n, a)) /\ IsToken(EndToken(n))
  BY TokenTypes DEF Names
<1>3. /\ Move(r, c, StartToken(n, a), c) /\ Move(r, c, EmptyToken(n, a), c)
      /\ Move(r, c, EndToken(n), c)
  BY <1>2 DEF Move, BoxMove, StartToken, EmptyToken, EndToken, Begins, Closes
<1> HIDE DEF r, content
<1> QED
  BY <1>1, <1>3, ElementLeads DEF r, content

\* The files of a set or of a case are read in a get, after all lists of steps.
LEMMA GetLeads ==
  ASSUME NEW s, NEW c, NEW d, AtSet(c, s), d = [c EXCEPT !.stage = 2],
         NEW files, Every(IsFile, files)
  PROVE  Leads(Traits, GetTokens(doc, files), c, IF files = <<>> THEN c ELSE d)
<1> DEFINE n == Len(files)
           content == Each(LAMBDA f : ElementTokens(doc, "file", f.a, Texts(f.text)), files)
           e == [i \in 1..n |-> ElementTokens(doc, "file", files[i].a, Texts(files[i].text))]
           c1 == [d EXCEPT !.box = "get"]
<1>1. n \in Nat /\ DOMAIN files = 1..n /\ (n = 0 <=> files = <<>>)
  <2>1. files \in Seq({files[i] : i \in DOMAIN files})
    BY DEF Every
  <2> QED
    BY <2>1
<1>2. CASE files = <<>>
  <2>1. GetTokens(doc, files) = <<>> /\ c \in Places(Traits)
    BY <1>2 DEF GetTokens, When, AtSet
  <2> QED
    BY <1>2, <2>1, LeadsNowhere
<1>3. CASE files # <<>>
  <2>1. GetTokens(doc, files) = ElementTokens(doc, "get", NoAttributes, content)
    BY <1>3, Zenon DEF GetTokens, When
  <2>2. content = FlattenSeq([i \in DOMAIN files |->
                                ElementTokens(doc, "file", files[i].a, Texts(files[i].text))])
    BY Zenon DEF Each
  <2>3. content = FlattenSeq([i \in 1..n |-> e[i]])
    <3>1. [i \in DOMAIN files |-> ElementTokens(doc, "file", files[i].a, Texts(files[i].text))]
            = [i \in 1..n |-> e[i]]
      BY <1>1
    <3> HIDE DEF content
    <3> QED
      BY <2>2, <3>1
  <2>4. ASSUME NEW i \in 1..n PROVE Leads(Traits, e[i], c1, c1) /\ e[i] # <<>>
    <3>1. IsAttributes(files[i].a) /\ files[i].text \in Seq(Words)
      BY <1>1, StringsAreWords DEF Every, IsFile
    <3>2. c1 \in Places(Traits) /\ c1.level = "set" /\ c1.inner = "no" /\ c1.box = "get"
      BY InBox
    <3>3. e[i] = ElementTokens(doc, "file", files[i].a, Texts(files[i].text))
      OBVIOUS
    <3> HIDE DEF c1, e
    <3> QED
      BY <3>1, <3>2, <3>3, InBoxLeads
  <2> HIDE DEF n, content, e, c1
  <2>5. Repeats(Traits, e, n, c1, c1)
    BY <2>4 DEF Repeats
  <2> QED
    BY <1>1, <1>3, <2>1, <2>3, <2>5, BoxLeads DEF c1
<1> QED
  BY <1>2, <1>3

\* So are the environments of a set.
LEMMA EnvironmentLeads ==
  ASSUME NEW s, NEW c, NEW d, AtSet(c, s), d = [c EXCEPT !.stage = 2],
         NEW envs, Every(IsEnvironment, envs)
  PROVE  Leads(Traits, EnvironmentTokens(doc, envs), c, IF envs = <<>> THEN c ELSE d)
<1> DEFINE n == Len(envs)
           content == Each(LAMBDA x : ElementTokens(doc, x.n, NoAttributes, <<TextToken(x.v)>>), envs)
           e == [i \in 1..n |-> ElementTokens(doc, envs[i].n, NoAttributes, <<TextToken(envs[i].v)>>)]
           c1 == [d EXCEPT !.box = "environments"]
<1>1. n \in Nat /\ DOMAIN envs = 1..n /\ (n = 0 <=> envs = <<>>)
  <2>1. envs \in Seq({envs[i] : i \in DOMAIN envs})
    BY DEF Every
  <2> QED
    BY <2>1
<1>2. CASE envs = <<>>
  <2>1. EnvironmentTokens(doc, envs) = <<>> /\ c \in Places(Traits)
    BY <1>2 DEF EnvironmentTokens, When, AtSet
  <2> QED
    BY <1>2, <2>1, LeadsNowhere
<1>3. CASE envs # <<>>
  <2>1. EnvironmentTokens(doc, envs) = ElementTokens(doc, "environments", NoAttributes, content)
    BY <1>3, Zenon DEF EnvironmentTokens, When
  <2>2. content = FlattenSeq([i \in DOMAIN envs |->
                                ElementTokens(doc, envs[i].n, NoAttributes, <<TextToken(envs[i].v)>>)])
    BY Zenon DEF Each
  <2>3. content = FlattenSeq([i \in 1..n |-> e[i]])
    <3>1. [i \in DOMAIN envs |-> ElementTokens(doc, envs[i].n, NoAttributes, <<TextToken(envs[i].v)>>)]
            = [i \in 1..n |-> e[i]]
      BY <1>1
    <3> HIDE DEF content
    <3> QED
      BY <2>2, <3>1
  <2>4. ASSUME NEW i \in 1..n PROVE Leads(Traits, e[i], c1, c1) /\ e[i] # <<>>
    <3>1. envs[i].n \in {"hardware", "scratchbox"} /\ <<envs[i].v>> \in Seq(Words)
      BY <1>1 DEF Every, IsEnvironment, Words
    <3>2. c1 \in Places(Traits) /\ c1.level = "set" /\ c1.inner = "no" /\ c1.box = "environments"
      BY InBox
    <3>3. e[i] = ElementTokens(doc, envs[i].n, NoAttributes, <<TextToken(envs[i].v)>>)
      OBVIOUS
    <3>4. Texts(<<envs[i].v>>) = <<TextToken(envs[i].v)>>
      BY <3>1, OneText
    <3> HIDE DEF c1, e
    <3> QED
      BY <3>1, <3>2, <3>3, <3>4, NoAttributesAre, InBoxLeads
  <2> HIDE DEF n, content, e, c1
  <2>5. Repeats(Traits, e, n, c1, c1)
    BY <2>4 DEF Repeats
  <2> QED
    BY <1>1, <1>3, <2>1, <2>3, <2>5, BoxLeads DEF c1
<1> QED
  BY <1>2, <1>3

\* A description leads nowhere.
LEMMA DescriptionLeads ==
  ASSUME NEW c \in Places(Traits), c.level \in {"top", "suite", "set"}, c.inner = "no", c.box = "none"
  PROVE  Leads(Traits, Description(doc), c, c)
<1> DEFINE r == Traits
           content == <<TextToken("what")>>
           x == ElementTokens(doc, "description", NoAttributes, content)
<1>1. CASE ~doc.described
  <2>1. Description(doc) = <<>>
    BY <1>1, Zenon DEF Description, When
  <2> QED
    BY <2>1, LeadsNowhere
<1>2. CASE doc.described
  <2>1. Description(doc) = x
    BY <1>2, Zenon DEF Description, When
  <2>2. /\ IsToken(StartToken("description", NoAttributes)) /\ IsToken(EndToken("description"))
    BY NoAttributesAre, TokenTypes DEF Names
  <2>3. /\ Move(r, c, StartToken("description", NoAttributes), c)
        /\ Move(r, c, EndToken("description"), c)
    BY <2>2 DEF Move, DefinitionMove, StartToken, EndToken, Begins, Closes
  <2>4. Leads(r, content, c, c) /\ content # <<>>
    <3>1. <<"what">> \in Seq(Words) /\ <<"what">> # <<>> /\ content # <<>>
      BY DEF Words
    <3>2. Texts(<<"what">>) = content
      BY <3>1, OneText
    <3>3. Texted(c) = c
      BY DEF Texted, Places
    <3> HIDE DEF content
    <3>4. Leads(r, Texts(<<"what">>), c, Texted(c))
      BY <3>1, TextsLead
    <3> QED
      BY <3>1, <3>2, <3>3, <3>4
  <2> HIDE DEF content, r, x
  <2>5. Leads(r, x, c, c)
    BY <2>3, <2>4, ElementLeads DEF r, x
  <2> QED
    BY <2>1, <2>5 DEF r
<1> QED
  BY <1>1, <1>2

\* A case of a set: no list of steps of the set follows it.
LEMMA CaseLeads ==
  ASSUME NEW s \in Sets, NEW i \in DOMAIN s.cases, NEW k, k = s.cases[i], IsCase(k), s.cases # <<>>,
         NEW c, NEW d, AtSet(c, s), AtSet(d, s), d.stage = 2, d = [c EXCEPT !.stage = 2]
  PROVE  Leads(Traits, CaseTokens(doc, k), c, d) /\ CaseTokens(doc, k) # <<>>
<1> DEFINE r == Traits
           allsteps == Each(LAMBDA x : StepTokens(doc, x), k.steps)
           gets == GetTokens(doc, k.gets)
           what == Description(doc)
           content == what \o allsteps \o gets
<1>1. CaseTokens(doc, k) = ElementTokens(doc, "case", k.a, content)
  BY Zenon DEF CaseTokens
<1>2. /\ c \in Places(r) /\ d \in Places(r) /\ d.level = "set" /\ d.inner = "no" /\ d.box = "none"
      /\ c.level = "set" /\ c.inner = "no" /\ c.box = "none" /\ c.s = s /\ AtSteps(d)
  BY DEF AtSet, AtSteps
<1>3. Leads(r, what, d, d)
  BY <1>2, DescriptionLeads
<1>4. Leads(r, allsteps, d, d)
  <2>1. ASSUME NEW j \in DOMAIN k.steps PROVE Fits(d, k.steps[j])
    <3> DEFINE x == k.steps[j]
    <3>1. IsStep(x)
      BY DEF IsCase, Every
    <3>2. ASSUME Closable
          PROVE  /\ <<>> \notin ToSet(x.params)
                 /\ ListsRunOn /\ x.n = "step" /\ DOMAIN x.a = {} => x.text # <<>>
      BY <3>2, Zenon DEF Closable
    <3>3. <<>> \notin ToSet(x.params) => \A m \in DOMAIN x.params : x.params[m] # <<>>
      BY DEF ToSet
    <3> HIDE DEF x
    <3>4. Fits(d, x)
      BY <1>2, <3>1, <3>2, <3>3 DEF Fits
    <3> QED
      BY <3>4 DEF x
  <2>2. Every(IsStep, k.steps)
    BY DEF IsCase
  <2> QED
    BY <1>2, <2>1, <2>2, StepsLead
<1>5. Leads(r, gets, d, d)
  <2>1. d = [d EXCEPT !.stage = 2]
    BY <1>2 DEF Places
  <2>2. Every(IsFile, k.gets)
    BY DEF IsCase
  <2> QED
    BY <2>1, <2>2, GetLeads
<1>6. /\ IsToken(StartToken("case", k.a)) /\ IsToken(EmptyToken("case", k.a))
      /\ IsToken(EndToken("case"))
  BY TokenTypes DEF Names, IsCase
<1>7. Move(r, c, StartToken("case", k.a), d) /\ Move(r, c, EmptyToken("case", k.a), d)
  <2>1. s \in r.sets
    BY DEF Traits
  <2> HIDE DEF r
  <2> QED
    BY <1>2, <1>6, <2>1 DEF Move, CaseMove, StartToken, EmptyToken, Begins
<1>8. Move(r, d, EndToken("case"), d)
  BY <1>2, <1>6 DEF Move, CaseMove, EndToken, Closes
<1> HIDE DEF r, allsteps, gets, what
<1>9. Leads(r, content, d, d)
  BY <1>3, <1>4, <1>5, LeadsOn
<1> HIDE DEF content
<1> QED
  BY <1>1, <1>2, <1>7, <1>8, <1>9, ElementLeads DEF r

\* The places of a set.
LEMMA StagesOfSet ==
  ASSUME NEW s \in Sets, NEW g \in 0..2
  PROVE  /\ AtSet(At(s, g), s) /\ At(s, g).stage = g /\ At(s, g) \in Places(Traits)
         /\ \A h \in 0..2 : [At(s, g) EXCEPT !.stage = h] = At(s, h)
BY DEF At, Place, AtSet, Places, Traits, Boxes

\* The cases of a set.
LEMMA CasesLead ==
  ASSUME NEW s \in Sets, IsSet(s), NEW g \in 0..2
  PROVE  Leads(Traits, Each(LAMBDA k : CaseTokens(doc, k), s.cases), At(s, g),
               IF s.cases = <<>> THEN At(s, g) ELSE At(s, 2))
<1> DEFINE r == Traits
           n == Len(s.cases)
           e == [i \in 1..n |-> CaseTokens(doc, s.cases[i])]
           x == Each(LAMBDA k : CaseTokens(doc, k), s.cases)
<1>1. Every(IsCase, s.cases)
  BY DEF IsSet
<1>2. n \in Nat /\ DOMAIN s.cases = 1..n /\ (n = 0 <=> s.cases = <<>>)
  <2>1. s.cases \in Seq({s.cases[i] : i \in DOMAIN s.cases})
    BY <1>1 DEF Every
  <2> QED
    BY <2>1
<1>3. x = FlattenSeq([i \in DOMAIN s.cases |-> CaseTokens(doc, s.cases[i])])
  BY Zenon DEF Each
<1>4. x = FlattenSeq([i \in 1..n |-> e[i]])
  BY <1>2, <1>3
<1> DEFINE c == At(s, g)
           d == At(s, 2)
<1>5. /\ AtSet(c, s) /\ AtSet(d, s) /\ d.stage = 2 /\ d = [c EXCEPT !.stage = 2]
      /\ d = [d EXCEPT !.stage = 2] /\ c \in Places(r) /\ d \in Places(r)
  BY StagesOfSet
<1> HIDE DEF c, d
<1>6. ASSUME NEW i \in 1..n PROVE Leads(r, e[i], c, d) /\ Leads(r, e[i], d, d) /\ e[i] # <<>>
  <2> DEFINE k == s.cases[i]
  <2>1. IsCase(k) /\ i \in DOMAIN s.cases /\ s.cases # <<>> /\ e[i] = CaseTokens(doc, k)
    BY <1>1, <1>2 DEF Every
  <2>2. k = s.cases[i]
    OBVIOUS
  <2> HIDE DEF k, e, n
  <2>3. Leads(r, CaseTokens(doc, k), c, d) /\ CaseTokens(doc, k) # <<>>
    BY <1>5, <2>1, <2>2, CaseLeads
  <2>4. Leads(r, CaseTokens(doc, k), d, d)
    BY <1>5, <2>1, <2>2, CaseLeads
  <2> QED
    BY <2>1, <2>3, <2>4
<1> HIDE DEF e, n, r, x
<1>7. Repeats(r, e, n, c, d)
  BY <1>6 DEF Repeats
<1>8. Leads(r, x, c, IF n = 0 THEN c ELSE d)
  BY <1>2, <1>4, <1>5, <1>7, LeadsEach
<1> QED
  BY <1>2, <1>8 DEF r, x, c, d

\* The places between the sets, between the suites, before and after the file.
AtLevel(l) == Place(l, NULL, 0, "none", "no")

\* The places outside all sets.
LEMMA LevelsAre ==
  \A l \in {"out", "top", "suite", "end"} :
    /\ AtLevel(l) \in Places(Traits) /\ AtLevel(l).level = l
    /\ AtLevel(l).inner = "no" /\ AtLevel(l).box = "none"
BY DEF AtLevel, Place, Places, Traits, Boxes

\* A set, from the suite back to it: its lists of steps, in the order of the
\* schema, then its cases, environments and files.
LEMMA SetLeads ==
  ASSUME NEW s \in Sets, IsSet(s)
  PROVE  /\ Leads(Traits, SetTokens(doc, s), AtLevel("suite"), AtLevel("suite"))
         /\ SetTokens(doc, s) # <<>>
<1> DEFINE r == Traits
           what == Description(doc)
           pre == StepListTokens(doc, "pre_steps", s.pre_steps)
           post == StepListTokens(doc, "post_steps", s.post_steps)
           reboot == StepListTokens(doc, "post_reboot_steps", s.reboot_steps)
           cases == Each(LAMBDA k : CaseTokens(doc, k), s.cases)
           envs == EnvironmentTokens(doc, s.envs)
           gets == GetTokens(doc, s.gets)
           content == what \o pre \o post \o reboot \o cases \o envs \o gets
           c == AtLevel("suite")
<1>1. SetTokens(doc, s) = ElementTokens(doc, "set", s.a, content)
  BY Zenon DEF SetTokens
<1>2. /\ Every(IsEnvironment, s.envs) /\ Every(IsFile, s.gets) /\ IsAttributes(s.a)
  BY DEF IsSet
<1>3. /\ StageOf("pre_steps") = 0 /\ StageOf("post_steps") = 0 /\ StageOf("post_reboot_steps") = 1
      /\ TaggedLists(s)["pre_steps"] = s.pre_steps /\ TaggedLists(s)["post_steps"] = s.post_steps
      /\ TaggedLists(s)["post_reboot_steps"] = s.reboot_steps
      /\ {"pre_steps", "post_steps", "post_reboot_steps"} \subseteq ListTags
  BY DEF StageOf, TaggedLists, ListTags
<1>4. Leads(r, what, At(s, 0), At(s, 0))
  <2>1. AtSet(At(s, 0), s)
    BY StagesOfSet
  <2> QED
    BY <2>1, DescriptionLeads DEF AtSet
<1> DEFINE c0 == At(s, 0)
           c1 == At(s, 1)
<1>5. /\ AtSet(c0, s) /\ AtSet(c1, s) /\ c0.stage = 0 /\ c1.stage = 1
      /\ c0 = [c0 EXCEPT !.stage = 0] /\ c1 = [c0 EXCEPT !.stage = 1]
  <2>1. 0 \in 0..2 /\ 1 \in 0..2
    OBVIOUS
  <2> QED
    BY <2>1, StagesOfSet
<1> HIDE DEF c0, c1
<1>6. Leads(r, pre, c0, c0) /\ Leads(r, post, c0, c0)
  <2>1. /\ c0 = [c0 EXCEPT !.stage = StageOf("pre_steps")]
        /\ c0 = [c0 EXCEPT !.stage = StageOf("post_steps")]
        /\ c0.stage <= StageOf("pre_steps") /\ c0.stage <= StageOf("post_steps")
    BY <1>3, <1>5
  <2>2. "pre_steps" \in ListTags /\ "post_steps" \in ListTags
    BY <1>3
  <2>3. Leads(r, pre, c0, IF s.pre_steps = <<>> THEN c0 ELSE c0)
    BY <1>3, <1>5, <2>1, <2>2, TagLeads
  <2>4. Leads(r, post, c0, IF s.post_steps = <<>> THEN c0 ELSE c0)
    BY <1>3, <1>5, <2>1, <2>2, TagLeads
  <2> HIDE DEF pre, post
  <2> QED
    BY <2>3, <2>4
<1>7. PICK g \in 0..2 : Leads(r, reboot, c0, At(s, g))
  <2>1. c1 = [c0 EXCEPT !.stage = StageOf("post_reboot_steps")]
        /\ c0.stage <= StageOf("post_reboot_steps") /\ "post_reboot_steps" \in ListTags
    BY <1>3, <1>5
  <2>2. Leads(r, reboot, c0, IF s.reboot_steps = <<>> THEN c0 ELSE c1)
    BY <1>3, <1>5, <2>1, TagLeads
  <2>3. 0 \in 0..2 /\ 1 \in 0..2
    OBVIOUS
  <2> HIDE DEF reboot
  <2> QED
    BY <2>2, <2>3 DEF c0, c1
<1>8. PICK h \in 0..2 : Leads(r, cases, At(s, g), At(s, h))
  <2>1. Leads(Traits, cases, At(s, g), IF s.cases = <<>> THEN At(s, g) ELSE At(s, 2))
    BY Zenon, CasesLead
  <2>2. 2 \in 0..2
    OBVIOUS
  <2> HIDE DEF cases
  <2> QED
    BY <2>1, <2>2
<1>9. PICK i \in 0..2 : Leads(r, envs, At(s, h), At(s, i))
  <2>1. 2 \in 0..2 /\ AtSet(At(s, h), s) /\ At(s, 2) = [At(s, h) EXCEPT !.stage = 2]
    BY StagesOfSet
  <2>2. Leads(r, envs, At(s, h), IF s.envs = <<>> THEN At(s, h) ELSE At(s, 2))
    BY <1>2, <2>1, EnvironmentLeads
  <2> HIDE DEF envs
  <2> QED
    BY <2>1, <2>2
<1>10. PICK j \in 0..2 : Leads(r, gets, At(s, i), At(s, j))
  <2>1. 2 \in 0..2 /\ AtSet(At(s, i), s) /\ At(s, 2) = [At(s, i) EXCEPT !.stage = 2]
    BY StagesOfSet
  <2>2. Leads(r, gets, At(s, i), IF s.gets = <<>> THEN At(s, i) ELSE At(s, 2))
    BY <1>2, <2>1, GetLeads
  <2> HIDE DEF gets
  <2> QED
    BY <2>1, <2>2
<1>11. Leads(r, content, c0, At(s, j))
  <2> HIDE DEF what, pre, post, reboot, cases, envs, gets, r
  <2>1. Leads(r, what \o pre, c0, c0)
    BY <1>4, <1>6, LeadsOn DEF c0
  <2>2. Leads(r, what \o pre \o post, c0, c0)
    BY <1>6, <2>1, LeadsOn
  <2>3. Leads(r, what \o pre \o post \o reboot, c0, At(s, g))
    BY <1>7, <2>2, LeadsOn
  <2>4. Leads(r, what \o pre \o post \o reboot \o cases, c0, At(s, h))
    BY <1>8, <2>3, LeadsOn
  <2>5. Leads(r, what \o pre \o post \o reboot \o cases \o envs, c0, At(s, i))
    BY <1>9, <2>4, LeadsOn
  <2> QED
    BY <1>10, <2>5, LeadsOn
<1>12. /\ IsToken(StartToken("set", s.a)) /\ IsToken(EmptyToken("set", s.a))
       /\ IsToken(EndToken("set"))
  BY <1>2, TokenTypes DEF Names
<1>13. c \in Places(r) /\ c.level = "suite" /\ c.inner = "no" /\ c.box = "none"
  BY LevelsAre
<1>14. r.sets = Sets
  BY DEF Traits
<1> HIDE DEF r, content
<1>15. Move(r, c, EmptyToken("set", s.a), c) /\ Move(r, c, StartToken("set", s.a), c0)
  <2> HIDE DEF c
  <2>1. Begins(EmptyToken("set", s.a), "set") /\ EmptyToken("set", s.a).empty
        /\ EmptyToken("set", s.a).a = s.a
        /\ Begins(StartToken("set", s.a), "set") /\ ~StartToken("set", s.a).empty
        /\ StartToken("set", s.a).a = s.a
    BY DEF EmptyToken, StartToken, Begins
  <2>2. c0 = Place("set", s, 0, "none", "no")
    BY DEF c0, At
  <2> QED
    BY <1>12, <1>13, <1>14, <2>1, <2>2 DEF Move, DefinitionMove
<1>16. Move(r, At(s, j), EndToken("set"), c)
  <2>1. AtSet(At(s, j), s)
    BY StagesOfSet
  <2> QED
    BY <1>12, <2>1 DEF Move, DefinitionMove, AtSet, EndToken, Closes, AtLevel
<1>17. c0 \in Places(r) /\ At(s, j) \in Places(r)
  BY <1>5, StagesOfSet DEF AtSet, r
<1> HIDE DEF c
<1> QED
  BY <1>1, <1>11, <1>13, <1>15, <1>16, <1>17, ElementLeads DEF r, c

\* A suite: sets of the file.
LEMMA SuiteLeads ==
  ASSUME NEW u, IsSuite(u), \A i \in DOMAIN u.sets : u.sets[i] \in Sets
  PROVE  /\ Leads(Traits, SuiteTokens(doc, u), AtLevel("top"), AtLevel("top"))
         /\ SuiteTokens(doc, u) # <<>>
<1> DEFINE r == Traits
           n == Len(u.sets)
           e == [i \in 1..n |-> SetTokens(doc, u.sets[i])]
           x == Each(LAMBDA set_ : SetTokens(doc, set_), u.sets)
           what == Description(doc)
           content == what \o x
           c == AtLevel("top")
           c1 == AtLevel("suite")
<1>1. SuiteTokens(doc, u) = ElementTokens(doc, "suite", u.a, content)
  BY Zenon DEF SuiteTokens
<1>2. Every(IsSet, u.sets) /\ IsAttributes(u.a)
  BY DEF IsSuite
<1>3. n \in Nat /\ DOMAIN u.sets = 1..n
  <2>1. u.sets \in Seq({u.sets[i] : i \in DOMAIN u.sets})
    BY <1>2 DEF Every
  <2> QED
    BY <2>1
<1>4. x = FlattenSeq([i \in DOMAIN u.sets |-> SetTokens(doc, u.sets[i])])
  BY Zenon DEF Each
<1>5. x = FlattenSeq([i \in 1..n |-> e[i]])
  BY <1>3, <1>4
<1>6. /\ c \in Places(r) /\ c.level = "top" /\ c.inner = "no" /\ c.box = "none"
      /\ c1 \in Places(r) /\ c1.level = "suite" /\ c1.inner = "no" /\ c1.box = "none"
  BY LevelsAre
<1>7. ASSUME NEW i \in 1..n PROVE Leads(r, e[i], c1, c1) /\ e[i] # <<>>
  <2>1. u.sets[i] \in Sets /\ IsSet(u.sets[i]) /\ e[i] = SetTokens(doc, u.sets[i])
    BY <1>2, <1>3 DEF Every
  <2> HIDE DEF e, n
  <2> QED
    BY <2>1, SetLeads
<1>8. Leads(r, what, c1, c1)
  BY <1>6, DescriptionLeads
<1>9. c = [c1 EXCEPT !.level = "top"] /\ c1 = [c EXCEPT !.level = "suite"]
  BY DEF AtLevel, Place
<1> HIDE DEF e, n, r, x, what, c, c1
<1>10. Repeats(r, e, n, c1, c1)
  BY <1>7 DEF Repeats
<1>11. Leads(r, x, c1, IF n = 0 THEN c1 ELSE c1)
  BY <1>3, <1>5, <1>6, <1>10, LeadsEach
<1>12. Leads(r, content, c1, c1)
  BY <1>8, <1>11, LeadsOn
<1>13. /\ IsToken(StartToken("suite", u.a)) /\ IsToken(EmptyToken("suite", u.a))
       /\ IsToken(EndToken("suite"))
  BY <1>2, TokenTypes DEF Names
<1>14. c = [c EXCEPT !.level = "top"]
  BY <1>6 DEF Places
<1> HIDE DEF content
<1>15. Move(r, c, EmptyToken("suite", u.a), c) /\ Move(r, c, StartToken("suite", u.a), c1)
  BY <1>6, <1>9, <1>13, <1>14 DEF Move, DefinitionMove, EmptyToken, StartToken, Begins
<1>16. Move(r, c1, EndToken("suite"), c)
  BY <1>6, <1>9, <1>13 DEF Move, DefinitionMove, EndToken, Closes
<1> QED
  BY <1>1, <1>6, <1>12, <1>15, <1>16, ElementLeads DEF r, c

\* The sets of a file.
LEMMA SetsAre ==
  ASSUME IsDocument(doc)
  PROVE  /\ \A i \in DOMAIN doc.suites : \A j \in DOMAIN doc.suites[i].sets :
               doc.suites[i].sets[j] \in Sets
         /\ \A s \in Sets : IsSet(s)
<1>1. ASSUME NEW i \in DOMAIN doc.suites, NEW j \in DOMAIN doc.suites[i].sets
      PROVE  doc.suites[i].sets[j] \in Sets
  BY DEF Sets, ToSet
<1>2. ASSUME NEW s \in Sets PROVE IsSet(s)
  <2>1. PICK i \in DOMAIN doc.suites : s \in ToSet(doc.suites[i].sets)
    BY DEF Sets
  <2>2. PICK j \in DOMAIN doc.suites[i].sets : s = doc.suites[i].sets[j]
    BY <2>1 DEF ToSet
  <2>3. IsSuite(doc.suites[i])
    BY DEF IsDocument, Every
  <2> QED
    BY <2>2, <2>3 DEF IsSuite, Every
<1> QED
  BY <1>1, <1>2

\* Every file is a walk from outside the test definition.
LEMMA FileLeads ==
  ASSUME IsDocument(doc)
  PROVE  \E d : Leads(Traits, FileTokens(doc), AtLevel("out"), d)
<1> DEFINE r == Traits
           n == Len(doc.suites)
           e == [i \in 1..n |-> SuiteTokens(doc, doc.suites[i])]
           x == Each(LAMBDA s : SuiteTokens(doc, s), doc.suites)
           what == Description(doc)
           texts == Texts(doc.detector)
           element == ElementTokens(doc, "hwiddetect", NoAttributes, texts)
           detect == When(doc.hwiddetect, element)
           content == detect \o what \o x
           b == AtLevel("out")
           c == AtLevel("top")
           d == AtLevel("end")
<1>1. FileTokens(doc) = ElementTokens(doc, "testdefinition", NoAttributes, content)
  BY Zenon DEF FileTokens
<1>2. Every(IsSuite, doc.suites) /\ doc.detector \in Seq(Words) /\ doc.hwiddetect \in BOOLEAN
  BY StringsAreWords DEF IsDocument
<1>3. n \in Nat /\ DOMAIN doc.suites = 1..n
  <2>1. doc.suites \in Seq({doc.suites[i] : i \in DOMAIN doc.suites})
    BY <1>2 DEF Every
  <2> QED
    BY <2>1
<1>4. x = FlattenSeq([i \in DOMAIN doc.suites |-> SuiteTokens(doc, doc.suites[i])])
  BY Zenon DEF Each
<1>5. x = FlattenSeq([i \in 1..n |-> e[i]])
  BY <1>3, <1>4
<1>6. /\ b \in Places(r) /\ c \in Places(r) /\ d \in Places(r)
      /\ b.level = "out" /\ b.inner = "no" /\ b.box = "none"
      /\ c.level = "top" /\ c.inner = "no" /\ c.box = "none"
  BY LevelsAre
<1>7. ASSUME NEW i \in 1..n PROVE Leads(r, e[i], c, c) /\ e[i] # <<>>
  <2>1. IsSuite(doc.suites[i]) /\ e[i] = SuiteTokens(doc, doc.suites[i]) /\ i \in DOMAIN doc.suites
    BY <1>2, <1>3 DEF Every
  <2> HIDE DEF e, n
  <2>2. \A j \in DOMAIN doc.suites[i].sets : doc.suites[i].sets[j] \in Sets
    BY <2>1, SetsAre
  <2> QED
    BY <2>1, <2>2, SuiteLeads
<1>8. Leads(r, what, c, c)
  BY <1>6, DescriptionLeads
<1> HIDE DEF e, n, x
<1>9. Leads(r, x, c, c)
  <2>1. Repeats(r, e, n, c, c)
    BY <1>7 DEF Repeats
  <2> HIDE DEF c, r
  <2>2. Leads(r, x, c, IF n = 0 THEN c ELSE c)
    BY <1>3, <1>5, <1>6, <2>1, LeadsEach
  <2> QED
    BY <2>2
<1>10. /\ c = [b EXCEPT !.level = "top"] /\ d = [c EXCEPT !.level = "end"]
  BY DEF AtLevel, Place
<1>11. Leads(r, detect, c, c)
  <2>1. CASE ~doc.hwiddetect
    <3>1. detect = <<>>
      BY <2>1, Zenon DEF When
    <3> QED
      BY <1>6, <3>1, LeadsNowhere
  <2>2. CASE doc.hwiddetect
    <3> DEFINE h == [c EXCEPT !.box = "hwiddetect"]
    <3>1. detect = element
      BY <2>2, Zenon DEF When
    <3> HIDE DEF c
    <3>2. h \in Places(r) /\ h.level = "top" /\ h.inner = "no" /\ h.box = "hwiddetect"
          /\ c = [h EXCEPT !.box = "none"] /\ c = [c EXCEPT !.box = "none"]
      BY <1>6 DEF Places, Boxes
    <3>3. Leads(r, texts, h, h) /\ (texts = <<>> => doc.detector = <<>>)
      <4>1. Texted(h) = h
        BY <3>2 DEF Texted, Places
      <4> HIDE DEF h
      <4> QED
        BY <1>2, <3>2, <4>1, TextsLead
    <3>4. /\ IsToken(StartToken("hwiddetect", NoAttributes))
          /\ IsToken(EmptyToken("hwiddetect", NoAttributes)) /\ IsToken(EndToken("hwiddetect"))
      BY NoAttributesAre, TokenTypes DEF Names, Boxes
    <3>5. doc.selfClosing /\ texts = <<>> => r.misread
      BY <2>2, <3>3 DEF Traits, DetectorIsMisread
    <3> HIDE DEF h, texts, r
    <3>6. doc.selfClosing /\ texts = <<>> => Move(r, c, EmptyToken("hwiddetect", NoAttributes), c)
      BY <1>6, <3>2, <3>4, <3>5 DEF Move, DefinitionMove, EmptyToken, Begins
    <3>7. Move(r, c, StartToken("hwiddetect", NoAttributes), h)
      BY <1>6, <3>4 DEF Move, DefinitionMove, StartToken, Begins, h
    <3>8. Move(r, h, EndToken("hwiddetect"), c)
      BY <3>2, <3>4 DEF Move, DefinitionMove, EndToken, Closes
    <3>9. Leads(r, element, c, c)
      BY <1>6, <3>2, <3>3, <3>6, <3>7, <3>8, ElementLeads
    <3> QED
      BY <3>1, <3>9
  <2> QED
    BY <1>2, <2>1, <2>2
<1> HIDE DEF detect, what, r, b, c, d
<1>12. Leads(r, content, c, c)
  BY <1>8, <1>9, <1>11, LeadsOn
<1>13. /\ IsToken(StartToken("testdefinition", NoAttributes))
       /\ IsToken(EmptyToken("testdefinition", NoAttributes))
       /\ IsToken(EndToken("testdefinition"))
  BY NoAttributesAre, TokenTypes DEF Names
<1> HIDE DEF content
<1>14. Move(r, b, StartToken("testdefinition", NoAttributes), c)
       /\ Move(r, b, EmptyToken("testdefinition", NoAttributes), c)
  BY <1>6, <1>10, <1>13 DEF Move, DefinitionMove, StartToken, EmptyToken, Begins
<1>15. Move(r, c, EndToken("testdefinition"), d)
  BY <1>6, <1>10, <1>13 DEF Move, DefinitionMove, EndToken, Closes
\* What is empty has no end.
<1> DEFINE z == IF doc.selfClosing /\ content = <<>> THEN c ELSE d
<1>16. /\ doc.selfClosing /\ content = <<>> =>
             Move(r, b, EmptyToken("testdefinition", NoAttributes), z)
       /\ ~(doc.selfClosing /\ content = <<>>) => Move(r, c, EndToken("testdefinition"), z)
       /\ z \in Places(r)
  BY <1>6, <1>14, <1>15
<1> HIDE DEF z
<1>17. Leads(r, FileTokens(doc), b, z)
  BY <1>1, <1>6, <1>12, <1>14, <1>16, ElementLeads
<1> QED
  BY <1>17 DEF r, b
-----------------------------------------------------------------------------
(* Where the parser is.                                                     *)

InFile     == ~In("finished") /\ ~In("crashed")
Inside     == InFile /\ ~In("td_process") /\ ~In("td_parse_hwiddetect")
InSteps    == In("td_parse_steps")
InListStep == In("td_parse_step") /\ Caller = "td_parse_steps"
InSetGets  == In("td_parse_gets") /\ Caller = "td_parse_set"
InACase ==
  \/ In("td_parse_case") \/ In("td_parse_event") \/ In("td_parse_event_param")
  \/ In("td_parse_step") /\ Caller = "td_parse_case"
  \/ In("td_parse_gets") /\ Caller = "td_parse_case"

\* The level and the suite agree, but for a detector that was misread.
Level(c) ==
  /\ In("td_process") =>
       \/ c.level = "out" /\ parsing_level = 0 /\ ~suite.live
       \/ c.level = "top" /\ parsing_level = 1 /\ ~suite.live
       \/ c.level = "suite" /\ parsing_level = 2 /\ suite.live
       \/ c.level \in {"suite", "set"} /\ DetectorIsMisread /\ parsing_level = 1 /\ ~suite.live
       \/ c.level = "end" /\ parsing_level \in 0..1 /\ ~suite.live
  /\ In("td_parse_hwiddetect") =>
       /\ parsing_level = 1 /\ ~suite.live
       /\ \/ c.level = "top" /\ c.box = "hwiddetect"
          \/ DetectorIsMisread /\ c.level # "out"
  /\ Inside => \/ parsing_level = 2 /\ suite.live
               \/ DetectorIsMisread /\ parsing_level = 1 /\ ~suite.live
  /\ parsing_level \in 0..2

\* Post reboot steps and cases are there in one and the same set of the file.
Both == \E s \in Sets : s.reboot_steps # <<>> /\ s.cases # <<>>
RebootHere(c) ==
  set.cases = <<>> /\ c.stage >= 1 /\ c.s \in Sets /\ c.s.reboot_steps # <<>>
Stages(c) ==
  /\ In("td_parse_set") \/ In("td_parse_environments") \/ InSetGets =>
       /\ c.level = "set" /\ (set.cases # <<>> => c.stage = 2)
       /\ (set.post_reboot_steps # <<>> => Both \/ RebootHere(c))
  /\ In("td_parse_environments") => c.box = "environments"
  /\ InSetGets => c.box = "get"
  /\ InSteps \/ InListStep =>
       /\ tag \in ListTags /\ set.cases = <<>>
       /\ set.post_reboot_steps # <<>> => Both \/ tag = "post_reboot_steps"
  /\ InACase /\ set.post_reboot_steps # <<>> => Both
  /\ In("crashed") => DetectorIsMisread \/ Both

\* A step of a list has a command, a param a value, if the logger can close them.
TextsSeen(c) ==
  Closable =>
    /\ InSteps \/ InListStep => ListsRunOn \/ c.box = tag
    /\ InListStep => (ListsRunOn \/ c.inner # "no") /\ (c.inner = "texted" => step.cmd # <<>>)
    /\ In("td_parse_event_param") => c.inner # "no" /\ (c.inner = "texted" => param # <<>>)

\* The functions, their callers and the stacks, which grow from the root.
Callers(f) ==
  CASE f \in {"td_parse_hwiddetect", "td_parse_set"} -> {"td_process"}
    [] f \in {"td_parse_steps", "td_parse_environments", "td_parse_case"} -> {"td_parse_set"}
    [] f = "td_parse_gets" -> {"td_parse_set", "td_parse_case"}
    [] f = "td_parse_step" -> {"td_parse_steps", "td_parse_case"}
    [] f = "td_parse_event" -> {"td_parse_case"}
    [] f = "td_parse_event_param" -> {"td_parse_event"}
    [] OTHER -> {}
ParserFunctions ==
  {"td_parse_hwiddetect", "td_parse_set", "td_parse_steps", "td_parse_environments",
   "td_parse_case", "td_parse_gets", "td_parse_step", "td_parse_event", "td_parse_event_param"}
Tops == ParserFunctions \cup {"crashed", "finished", "td_process"}
CallerOf(s) == s[Len(s) - 1]
Loop == <<"td_process">>
Grown(s, f) == Last(s) = f /\ CallerOf(s) \in Callers(f) /\ CallerOf(s) = Last(Front(s)) /\ Len(s) > 1

\* A function on top of a stack.
LEMMA Pushed ==
  ASSUME NEW s \in Seq(Tops), s # <<>>, NEW f \in Tops
  PROVE  /\ Append(s, f) \in Seq(Tops) /\ Append(s, f) # <<>>
         /\ Last(Append(s, f)) = f /\ CallerOf(Append(s, f)) = Last(s)
         /\ Front(Append(s, f)) = s /\ Len(Append(s, f)) > 1
<1> DEFINE T == Tops
           a == Append(s, f)
<1> HIDE DEF T
<1>1. s \in Seq(T) /\ f \in T /\ Len(s) > 0
  BY EmptySeq DEF T
<1>2. a \in Seq(T) /\ Len(a) = Len(s) + 1 /\ a[Len(s) + 1] = f /\ \A i \in 1..Len(s) : a[i] = s[i]
  BY <1>1
<1>3. Front(a) = SubSeq(a, 1, Len(s))
  BY <1>1, <1>2 DEF Front
<1>4. /\ Front(a) \in Seq(T) /\ Len(Front(a)) = Len(s)
      /\ \A i \in 1..Len(s) : Front(a)[i] = s[i]
  <2>1. \A i \in 1..Len(s) : a[i] \in T
    BY <1>1, <1>2
  <2>2. Len(s) \in Int /\ 1 \in Int
    BY <1>1
  <2> HIDE DEF a
  <2> QED
    BY <1>1, <1>2, <1>3, <2>1, <2>2, SubSeqProperties
<1>5. Front(a) = s
  BY <1>1, <1>4, SeqEqual
<1>6. Last(a) = f /\ CallerOf(a) = Last(s)
  BY <1>1, <1>2 DEF Last, CallerOf
<1> QED
  BY <1>1, <1>2, <1>5, <1>6 DEF T

\* The stacks, one by one: each grows from a shorter one by a call.
LEMMA StacksAre ==
  LET inset == Append(Loop, "td_parse_set")
      incase == Append(inset, "td_parse_case")
  IN  Stacks = {<<"crashed">>, <<"finished">>, Loop, Append(Loop, "td_parse_hwiddetect"), inset,
                Append(inset, "td_parse_steps"),
                Append(Append(inset, "td_parse_steps"), "td_parse_step"),
                Append(inset, "td_parse_environments"), Append(inset, "td_parse_gets"),
                incase, Append(incase, "td_parse_step"), Append(incase, "td_parse_gets"),
                Append(incase, "td_parse_event"),
                Append(Append(incase, "td_parse_event"), "td_parse_event_param")}
<1> DEFINE T == {"td_process", "td_parse_set", "td_parse_hwiddetect", "td_parse_case",
                 "td_parse_steps", "td_parse_step", "td_parse_event", "td_parse_event_param"}
<1>1. ASSUME NEW f \in T
      PROVE  <<"td_process", f>> = Append(Loop, f)
  <2>1. /\ <<"td_process", f>> \in Seq(T) /\ Append(Loop, f) \in Seq(T)
        /\ Len(<<"td_process", f>>) = 2 /\ Len(Append(Loop, f)) = 2
    BY DEF Loop
  <2>2. \A i \in 1..2 : <<"td_process", f>>[i] = Append(Loop, f)[i]
    BY DEF Loop
  <2> HIDE DEF T
  <2> QED
    BY ONLY <2>1, <2>2, SeqEqual
<1>2. ASSUME NEW s \in Seq(T), NEW f \in T, NEW g \in T
      PROVE  s \o <<f, g>> = Append(Append(s, f), g)
  <2> HIDE DEF T
  <2> DEFINE p == <<f, g>>
             a == Append(Append(s, f), g)
  <2>1. p \in Seq(T) /\ Len(p) = 2 /\ p[1] = f /\ p[2] = g /\ Len(s) \in Nat
    OBVIOUS
  <2>2. a \in Seq(T) /\ Len(a) = Len(s) + 2 /\ a[Len(s) + 2] = g /\ a[Len(s) + 1] = f
        /\ \A i \in 1..Len(s) : a[i] = s[i]
    <3> DEFINE b == Append(s, f)
    <3>1. b \in Seq(T) /\ Len(b) = Len(s) + 1 /\ b[Len(s) + 1] = f
          /\ \A i \in 1..Len(s) : b[i] = s[i]
      OBVIOUS
    <3> HIDE DEF b
    <3>2. Append(b, g) \in Seq(T) /\ Len(Append(b, g)) = Len(s) + 2
          /\ Append(b, g)[Len(s) + 2] = g
          /\ \A i \in 1..Len(s) + 1 : Append(b, g)[i] = b[i]
      BY <2>1, <3>1
    <3> QED
      BY <2>1, <3>1, <3>2 DEF b
  <2> HIDE DEF p, a
  <2>3. /\ s \o p \in Seq(T) /\ Len(s \o p) = Len(s) + 2
        /\ \A i \in 1..Len(s) + 2 : (s \o p)[i] = IF i <= Len(s) THEN s[i] ELSE p[i - Len(s)]
    <3>1. /\ s \o p \in Seq(T) /\ Len(s \o p) = Len(s) + Len(p)
          /\ \A i \in 1..Len(s) + Len(p) :
               (s \o p)[i] = IF i <= Len(s) THEN s[i] ELSE p[i - Len(s)]
      BY ONLY <2>1, s \in Seq(T), ConcatProperties
    <3> QED
      BY <2>1, <3>1
  <2>4. \A i \in 1..Len(s) + 2 : (s \o p)[i] = a[i]
    BY <2>1, <2>2, <2>3
  <2>5. s \o p = a
    BY <2>2, <2>3, <2>4, SeqEqual
  <2> QED
    BY <2>5 DEF p, a
<1>3. InSet = Append(Loop, "td_parse_set") /\ InSet \in Seq(T)
      /\ <<"td_process", "td_parse_hwiddetect">> = Append(Loop, "td_parse_hwiddetect")
  BY <1>1 DEF InSet
<1>4. InCase \in Seq(T) /\ InCase = Append(InSet, "td_parse_case")
  BY <1>3 DEF InCase
<1>5. /\ InSet \o <<"td_parse_steps", "td_parse_step">>
           = Append(Append(InSet, "td_parse_steps"), "td_parse_step")
      /\ InCase \o <<"td_parse_event", "td_parse_event_param">>
           = Append(Append(InCase, "td_parse_event"), "td_parse_event_param")
  BY <1>2, <1>3, <1>4
<1> QED
  BY <1>3, <1>4, <1>5, Zenon DEF Stacks, Loop

\* The stacks are sequences of functions.
LEMMA StacksTyped == \A s \in Stacks : s \in Seq(Tops) /\ s # <<>>
<1> DEFINE Base(r) == r \in Seq(Tops) /\ r # <<>>
           inset == Append(Loop, "td_parse_set")
           incase == Append(inset, "td_parse_case")
<1>1. ASSUME NEW r, Base(r), NEW f \in Tops
      PROVE  Base(Append(r, f))
  BY <1>1, Pushed
<1>2. Base(Loop) /\ Base(<<"crashed">>) /\ Base(<<"finished">>)
  BY DEF Loop, Tops
<1> HIDE DEF Base
<1>3. Base(inset) /\ Base(incase)
  BY <1>1, <1>2 DEF Tops, ParserFunctions
<1> HIDE DEF inset, incase
<1>4. ASSUME NEW s \in Stacks PROVE Base(s)
  BY <1>1, <1>2, <1>3, StacksAre DEF Tops, ParserFunctions, inset, incase
<1> QED
  BY <1>4 DEF Base

\* A stack that has grown is that of a function under one of its callers.
LEMMA StackTops ==
  ASSUME NEW s \in Stacks
  PROVE  /\ Last(s) \in Tops
         /\ s = Loop <=> Last(s) = "td_process"
         /\ s = <<"finished">> <=> Last(s) = "finished"
         /\ s = <<"crashed">> <=> Last(s) = "crashed"
         /\ Last(s) \in ParserFunctions => Grown(s, Last(s)) /\ Front(s) \in Stacks
         /\ Last(s) \notin ParserFunctions => Len(s) = 1
         /\ Last(s) = "td_parse_set" => s = Append(Loop, "td_parse_set")
         /\ Last(s) = "td_parse_case" => s = Append(Append(Loop, "td_parse_set"), "td_parse_case")
         /\ Last(s) = "td_parse_steps" => s = Append(Append(Loop, "td_parse_set"), "td_parse_steps")
         /\ Last(s) = "td_parse_event"
              => s = Append(Append(Append(Loop, "td_parse_set"), "td_parse_case"), "td_parse_event")
<1> DEFINE inset == Append(Loop, "td_parse_set")
           incase == Append(inset, "td_parse_case")
           insteps == Append(inset, "td_parse_steps")
           inevent == Append(incase, "td_parse_event")
           Base(r) == r \in Seq(Tops) /\ r # <<>>
           Known(r) ==
             /\ Last(r) = "td_parse_set" => r = inset
             /\ Last(r) = "td_parse_case" => r = incase
             /\ Last(r) = "td_parse_steps" => r = insteps
             /\ Last(r) = "td_parse_event" => r = inevent
           Fine(r) ==
             /\ Last(r) \in ParserFunctions /\ Grown(r, Last(r)) /\ Front(r) \in Stacks
<1>1. Base(Loop) /\ Last(Loop) = "td_process" /\ Loop \in Stacks /\ Len(Loop) = 1
  BY StacksAre DEF Loop, Last, Tops, ParserFunctions
<1>2. ASSUME NEW r \in Stacks, Base(r), NEW f \in ParserFunctions, Last(r) \in Callers(f)
      PROVE  Base(Append(r, f)) /\ Fine(Append(r, f)) /\ Last(Append(r, f)) = f
  <2>1. f \in Tops
    BY DEF Tops
  <2>2. /\ Append(r, f) \in Seq(Tops) /\ Append(r, f) # <<>>
        /\ Last(Append(r, f)) = f /\ CallerOf(Append(r, f)) = Last(r)
        /\ Front(Append(r, f)) = r /\ Len(Append(r, f)) > 1
    BY <1>2, <2>1, Pushed
  <2> QED
    BY <1>2, <2>2, Zenon DEF Grown
<1>3. /\ inset \in Stacks /\ incase \in Stacks /\ insteps \in Stacks /\ inevent \in Stacks
  BY StacksAre, Zenon
<1>4. Base(inset) /\ Fine(inset) /\ Last(inset) = "td_parse_set"
  BY <1>1, <1>2 DEF Callers, ParserFunctions
<1>5. Base(incase) /\ Fine(incase) /\ Last(incase) = "td_parse_case"
  <2> HIDE DEF inset
  <2> QED
    BY <1>3, <1>4, <1>2 DEF Callers, ParserFunctions
<1>6. Base(insteps) /\ Fine(insteps) /\ Last(insteps) = "td_parse_steps"
  <2> HIDE DEF inset
  <2> QED
    BY <1>3, <1>4, <1>2 DEF Callers, ParserFunctions
<1>7. Base(inevent) /\ Fine(inevent) /\ Last(inevent) = "td_parse_event"
  <2> HIDE DEF incase
  <2> QED
    BY <1>3, <1>5, <1>2 DEF Callers, ParserFunctions
<1>8. ASSUME NEW r \in {<<"crashed">>, <<"finished">>}
      PROVE  Len(r) = 1 /\ Last(r) = r[1]
  BY DEF Last
<1>9. s \in {<<"crashed">>, <<"finished">>, Loop}
      \/ s = Append(Loop, "td_parse_hwiddetect") \/ s = inset \/ s = incase \/ s = insteps
      \/ s = inevent \/ s = Append(insteps, "td_parse_step")
      \/ s = Append(inset, "td_parse_environments") \/ s = Append(inset, "td_parse_gets")
      \/ s = Append(incase, "td_parse_step") \/ s = Append(incase, "td_parse_gets")
      \/ s = Append(inevent, "td_parse_event_param")
  BY StacksAre, Zenon
<1>10. \/ s \in {<<"crashed">>, <<"finished">>, Loop}
       \/ Fine(s) /\ Known(s)
  <2> HIDE DEF inset, incase, insteps, inevent, Fine, Base
  <2>1. CASE s = Append(Loop, "td_parse_hwiddetect")
    BY <1>1, <1>2, <2>1 DEF Callers, ParserFunctions, Known
  <2>2. CASE s = Append(insteps, "td_parse_step")
    BY <1>3, <1>6, <1>2, <2>2 DEF Callers, ParserFunctions, Known
  <2>3. CASE s = Append(inset, "td_parse_environments")
    BY <1>3, <1>4, <1>2, <2>3 DEF Callers, ParserFunctions, Known
  <2>6. CASE s = Append(inset, "td_parse_gets")
    BY <1>3, <1>4, <1>2, <2>6 DEF Callers, ParserFunctions, Known
  <2>4. CASE s = Append(incase, "td_parse_step")
    BY <1>3, <1>5, <1>2, <2>4 DEF Callers, ParserFunctions, Known
  <2>7. CASE s = Append(incase, "td_parse_gets")
    BY <1>3, <1>5, <1>2, <2>7 DEF Callers, ParserFunctions, Known
  <2>5. CASE s = Append(inevent, "td_parse_event_param")
    BY <1>3, <1>7, <1>2, <2>5 DEF Callers, ParserFunctions, Known
  <2> QED
    BY <1>9, <2>1, <2>2, <2>3, <2>4, <2>5, <2>6, <2>7, <1>4, <1>5, <1>6, <1>7 DEF Known
<1>11. Last(<<"crashed">>) = "crashed" /\ Last(<<"finished">>) = "finished"
  BY <1>8
<1>12. CASE s = Loop
  BY <1>12, <1>1, <1>11 DEF Tops, ParserFunctions, Loop
<1>13. CASE s = <<"crashed">>
  BY <1>13, <1>1, <1>11, <1>8 DEF Tops, ParserFunctions, Loop
<1>14. CASE s = <<"finished">>
  BY <1>14, <1>1, <1>11, <1>8 DEF Tops, ParserFunctions, Loop
<1>15. CASE Fine(s) /\ Known(s)
  <2>1. Last(s) \in Tops
    BY <1>15 DEF Tops
  <2>3. Last(s) # "td_process" /\ Last(s) # "finished" /\ Last(s) # "crashed"
    BY <1>15 DEF ParserFunctions
  <2>2. s # Loop /\ s # <<"finished">> /\ s # <<"crashed">>
    BY <2>3, <1>1, <1>11
  <2>4. s # Loop /\ s # <<"finished">> /\ s # <<"crashed">>
    BY <2>2
  <2>5. Fine(s)
    BY <1>15
  <2>6. Known(s)
    BY <1>15
  <2>7. Last(s) \in ParserFunctions /\ Grown(s, Last(s)) /\ Front(s) \in Stacks
    BY <2>5
  <2> QED
    BY <2>1, <2>3, <2>4, <2>6, <2>7, Zenon
<1> QED
  BY <1>10, <1>12, <1>13, <1>14, <1>15

\* What a call and a return make of a stack.
LEMMA StackCalls ==
  ASSUME NEW s \in Stacks, NEW f \in ParserFunctions, Last(s) \in Callers(f)
  PROVE  /\ Append(s, f) \in Stacks /\ Last(Append(s, f)) = f
         /\ CallerOf(Append(s, f)) = Last(s)
<1> DEFINE inset == Append(Loop, "td_parse_set")
           incase == Append(inset, "td_parse_case")
<1>1. /\ \A g \in {"td_parse_hwiddetect", "td_parse_set"} : Append(Loop, g) \in Stacks
      /\ \A g \in {"td_parse_steps", "td_parse_environments", "td_parse_gets", "td_parse_case"} :
            Append(inset, g) \in Stacks
      /\ Append(Append(inset, "td_parse_steps"), "td_parse_step") \in Stacks
      /\ \A g \in {"td_parse_step", "td_parse_gets", "td_parse_event"} :
            Append(incase, g) \in Stacks
      /\ Append(Append(incase, "td_parse_event"), "td_parse_event_param") \in Stacks
  <2> HIDE DEF inset
  <2> QED
    BY StacksAre DEF inset
<1>2. /\ Last(s) = "td_process" => s = Loop
      /\ Last(s) = "td_parse_set" => s = inset
      /\ Last(s) = "td_parse_case" => s = incase
      /\ Last(s) = "td_parse_steps" => s = Append(inset, "td_parse_steps")
      /\ Last(s) = "td_parse_event" => s = Append(incase, "td_parse_event")
  BY StackTops, Zenon
<1>3. Append(s, f) \in Stacks
  <2> HIDE DEF inset, incase
  <2> QED
    BY <1>1, <1>2 DEF Callers, ParserFunctions
<1>4. s \in Seq(Tops) /\ s # <<>> /\ f \in Tops
  BY StacksTyped DEF Tops
<1> QED
  BY <1>3, <1>4, Pushed

-----------------------------------------------------------------------------
(* What a token says of the place before and after it.                      *)

\* Two places with the same set and stage.
Same(c, d) == d.level = c.level /\ d.s = c.s /\ d.stage = c.stage

\* A text leaves the place as it is, but that a text was read.
LEMMA TextMoves ==
  ASSUME NEW r, NEW c \in Places(r), NEW k, NEW d, Move(r, c, k, d), k.t = "text"
  PROVE  /\ Same(c, d) /\ d.box = c.box /\ c.level \notin {"out", "end"}
         /\ d.inner = IF c.inner = "no" THEN "no" ELSE "texted"
<1>1. TextMove(r, c, k, d)
  BY DEF Move, DefinitionMove, ListMove, CaseMove, BoxMove, StepMove, Begins, Closes
<1> QED
  BY <1>1 DEF TextMove, Places, Same

\* The tokens that enter and leave the definition, a suite, a set.
LEMMA DefinitionMoves ==
  ASSUME NEW r, NEW c \in Places(r), NEW k, NEW d, Move(r, c, k, d)
  PROVE  /\ Begins(k, "testdefinition") => c.level = "out" /\ d.level = "top"
         /\ Closes(k, "testdefinition") => c.level = "top" /\ d.level = "end"
         /\ Begins(k, "hwiddetect") =>
              /\ c.level = "top" /\ d.level = "top"
              /\ IF k.empty THEN r.misread ELSE d.box = "hwiddetect"
         /\ Begins(k, "suite") =>
              c.level = "top" /\ d.level = IF k.empty THEN "top" ELSE "suite"
         /\ Closes(k, "suite") => c.level = "suite" /\ d.level = "top"
         /\ Begins(k, "set") =>
              /\ c.level = "suite"
              /\ \E s \in r.sets :
                   /\ k.a = s.a
                   /\ d = IF k.empty THEN c ELSE Place("set", s, 0, "none", "no")
         /\ Closes(k, "set") =>
              c.level = "set" /\ d = Place("suite", NULL, 0, "none", "no")
         /\ Begins(k, "description") => d = c
<1>1. ASSUME NEW n \in {"testdefinition", "hwiddetect", "suite", "set", "description"},
             Begins(k, n) \/ (Closes(k, n) /\ n # "hwiddetect" /\ n # "description")
      PROVE  DefinitionMove(r, c, k, d) /\ c.box = "none"
  BY <1>1 DEF Move, DefinitionMove, ListMove, CaseMove, BoxMove, StepMove, TextMove,
              Begins, Closes, ListTags
<1> USE DEF Begins, Closes
<1>2. ASSUME Begins(k, "testdefinition") PROVE c.level = "out" /\ d.level = "top"
  <2>1. c.level = "out" /\ d = [c EXCEPT !.level = "top"]
    BY <1>1, <1>2 DEF DefinitionMove
  <2> QED
    BY <2>1 DEF Places
<1>3. ASSUME Closes(k, "testdefinition") PROVE c.level = "top" /\ d.level = "end"
  <2>1. c.level = "top" /\ d = [c EXCEPT !.level = "end"]
    BY <1>1, <1>3 DEF DefinitionMove
  <2> QED
    BY <2>1 DEF Places
<1>4. ASSUME Begins(k, "hwiddetect")
      PROVE  /\ c.level = "top" /\ d.level = "top"
             /\ IF k.empty THEN r.misread ELSE d.box = "hwiddetect"
  <2>1. /\ c.level = "top" /\ (k.empty => r.misread)
        /\ d = [c EXCEPT !.box = IF k.empty THEN "none" ELSE "hwiddetect"]
    BY <1>1, <1>4 DEF DefinitionMove
  <2>2. /\ [c EXCEPT !.box = "none"].level = c.level
        /\ [c EXCEPT !.box = "hwiddetect"].level = c.level
        /\ [c EXCEPT !.box = "hwiddetect"].box = "hwiddetect"
    BY DEF Places
  <2> QED
    BY <2>1, <2>2
<1>5. ASSUME Begins(k, "suite")
      PROVE  c.level = "top" /\ d.level = IF k.empty THEN "top" ELSE "suite"
  <2>1. c.level = "top" /\ d = [c EXCEPT !.level = IF k.empty THEN "top" ELSE "suite"]
    BY <1>1, <1>5 DEF DefinitionMove
  <2> QED
    BY <2>1 DEF Places
<1>6. ASSUME Closes(k, "suite") PROVE c.level = "suite" /\ d.level = "top"
  <2>1. c.level = "suite" /\ d = [c EXCEPT !.level = "top"]
    BY <1>1, <1>6 DEF DefinitionMove
  <2> QED
    BY <2>1 DEF Places
<1>7. ASSUME Begins(k, "set")
      PROVE  /\ c.level = "suite"
             /\ \E s \in r.sets :
                  /\ k.a = s.a
                  /\ d = IF k.empty THEN c ELSE Place("set", s, 0, "none", "no")
  BY <1>1, <1>7 DEF DefinitionMove
<1>8. Closes(k, "set") => c.level = "set" /\ d = Place("suite", NULL, 0, "none", "no")
  BY <1>1 DEF DefinitionMove
<1>9. Begins(k, "description") => d = c
  BY <1>1 DEF DefinitionMove
<1> QED
  BY <1>2, <1>3, <1>4, <1>5, <1>6, <1>7, <1>8, <1>9

\* The other tokens neither enter nor leave a set.
LEMMA OtherMoves ==
  ASSUME NEW r, NEW c \in Places(r), NEW k, NEW d, Move(r, c, k, d)
  PROVE  /\ k.t = "end" /\ k.n \notin {"testdefinition", "suite", "set"} => Same(c, d)
         /\ k.t = "start" /\ k.n \notin {"testdefinition", "hwiddetect", "description", "suite", "set"}
              => c.level = "set" /\ d.level = "set" /\ d.s = c.s /\ d.stage \in c.stage..2
         /\ d.level = "out" => c.level = "out"
<1> USE DEF Begins, Closes
<1>1. CASE DefinitionMove(r, c, k, d)
  <2>1. k.t = "end" /\ k.n \notin {"testdefinition", "suite", "set"} => Same(c, d)
    <3>1. ASSUME k.t = "end", k.n \notin {"testdefinition", "suite", "set"}
          PROVE  d = [c EXCEPT !.box = "none"] \/ d = c
      BY <1>1, <3>1 DEF DefinitionMove
    <3> QED
      BY <3>1 DEF Places, Same
  <2>2. k.t = "start" => k.n \in {"testdefinition", "hwiddetect", "description", "suite", "set"}
    BY <1>1 DEF DefinitionMove
  <2>3. k.t # "text"
    BY <1>1 DEF DefinitionMove
  <2>4. d.level = "out" => c.level = "out"
    <3>1. k.t = "start" => d.level # "out" \/ d = c
      BY <1>1, <2>2, DefinitionMoves DEF Place
    <3>2. k.t = "end" => d.level # "out" \/ Same(c, d)
      BY <2>1, DefinitionMoves DEF Place
    <3> QED
      BY <1>1, <3>1, <3>2 DEF Same, DefinitionMove
  <2> QED
    BY <2>1, <2>2, <2>4
<1>2. CASE ListMove(r, c, k, d)
  <2>1. /\ c.level = "set" /\ d.level = "set" /\ d.s = c.s
        /\ k.t = "end" => Same(c, d)
        /\ k.t = "start" => d.stage \in c.stage..2
    <3>1. c.level = "set"
          /\ \/ /\ k.t = "start"
                /\ \E g \in c.stage..2 : \E b \in Boxes : d = [c EXCEPT !.stage = g, !.box = b]
             \/ k.t = "end" /\ d = [c EXCEPT !.box = "none"]
      <4>1. c.level = "set" /\ c.stage \in 0..2
        BY <1>2 DEF ListMove, Places
      <4>2. PICK t \in ListTags :
              \/ /\ Begins(k, t) /\ c.stage <= StageOf(t)
                 /\ d = [c EXCEPT !.stage = StageOf(t), !.box = IF k.empty THEN "none" ELSE t]
              \/ Closes(k, t) /\ d = [c EXCEPT !.box = "none"]
        BY <1>2, Zenon DEF ListMove
      <4>3. StageOf(t) \in 0..2 /\ (IF k.empty THEN "none" ELSE t) \in Boxes
        BY DEF StageOf, Boxes
      <4>4. c.stage <= StageOf(t) => StageOf(t) \in c.stage..2
        BY <4>1, <4>3
      <4> HIDE DEF Begins, Closes
      <4> QED
        BY <4>1, <4>2, <4>3, <4>4, Zenon DEF Begins, Closes
    <3> QED
      BY <3>1 DEF Places, Same
  <2> QED
    BY <2>1
<1>3. CASE CaseMove(r, c, k, d)
  <2>1. /\ c.level = "set" /\ d.level = "set" /\ d.s = c.s
        /\ k.t = "end" => Same(c, d)
        /\ k.t = "start" => d.stage \in c.stage..2
    <3>1. c.level = "set"
          /\ \/ k.t = "start" /\ d = [c EXCEPT !.stage = 2]
             \/ d = c
             \/ k.t = "start" /\ \E i : d = [c EXCEPT !.inner = i]
      BY <1>3 DEF CaseMove
    <3> QED
      BY <3>1 DEF Places, Same
  <2> QED
    BY <2>1
<1>4. CASE BoxMove(r, c, k, d)
  <2>1. /\ c.level = "set" /\ d.level = "set" /\ d.s = c.s
        /\ k.t = "end" => Same(c, d)
        /\ k.t = "start" => d.stage \in c.stage..2
    <3>1. c.level = "set"
          /\ \/ k.t = "start" /\ \E b : d = [c EXCEPT !.stage = 2, !.box = b]
             \/ d = c
             \/ k.t = "end" /\ d = [c EXCEPT !.box = "none"]
      BY <1>4 DEF BoxMove
    <3>2. c.stage \in 0..2 /\ c.stage \in c.stage..2 /\ 2 \in c.stage..2
      BY DEF Places
    <3>3. CASE k.t = "start" /\ \E b : d = [c EXCEPT !.stage = 2, !.box = b]
      BY <3>1, <3>2, <3>3 DEF Places
    <3>4. CASE d = c
      BY <3>1, <3>2, <3>4, Zenon DEF Same
    <3>5. CASE k.t = "end" /\ d = [c EXCEPT !.box = "none"]
      BY <3>1, <3>5 DEF Places, Same
    <3> QED
      BY <3>1, <3>3, <3>4, <3>5
  <2> QED
    BY <2>1
<1>5. CASE StepMove(r, c, k, d)
  <2>1. /\ c.level = "set" /\ d.level = "set" /\ d.s = c.s
        /\ k.t = "end" => Same(c, d)
        /\ k.t = "start" => d.stage \in c.stage..2
    <3>1. c.level = "set" /\ \E i : d = [c EXCEPT !.inner = i]
      BY <1>5 DEF StepMove
    <3>2. Same(c, d)
      BY <3>1 DEF Places, Same
    <3>3. c.stage \in c.stage..2
      BY DEF Places
    <3>4. d.stage \in c.stage..2
      BY <3>2, <3>3, Zenon DEF Same
    <3>5. d.level = "set" /\ d.s = c.s
      BY <3>1, <3>2 DEF Same
    <3> QED
      BY <3>1, <3>2, <3>4, <3>5, Zenon
  <2> QED
    BY <2>1
<1>6. CASE TextMove(r, c, k, d)
  BY <1>6, TextMoves DEF TextMove, Same
<1> QED
  BY <1>1, <1>2, <1>3, <1>4, <1>5, <1>6 DEF Move

-----------------------------------------------------------------------------
(* The data.                                                                *)

Gens == [GenAttributes -> Values]
Filled(b) == {v \in Seq(Words) : b => v # <<>>}

\* b: the logger can close every element of the file.
StepsOf(b) ==
  [cmd : Seq(Words), manual : Values, reboot : Values, event : BOOLEAN, params : Seq(Filled(b))]
ListSteps(b) == {s \in StepsOf(b) : b => s.cmd # <<>>}
Lists(b) == Seq(Seq(ListSteps(b)))
FilesOf == [name : Words \cup {NULL}, delete_after : Values, measurement : Values]
CasesOf(b) ==
  [gen : Gens, described : BOOLEAN, steps : Seq(StepsOf(b)), gets : Seq(FilesOf),
   measurements : {<<>>}, series : {<<>>}, reboot : Lists(b), shared : BOOLEAN,
   filtered : BOOLEAN]
ParsedCases(b) == {c \in CasesOf(b) : ~c.shared}
SetsOf(b) ==
  [gen : Gens, described : BOOLEAN, pre_steps : Lists(b), post_steps : Lists(b),
   post_reboot_steps : Lists(b), cases : Seq(CasesOf(b)), gets : Seq(FilesOf),
   environments : SUBSET {"hardware", "scratchbox"}]
Definitions ==
  [hw_detector : Seq(Words), detected_hw : {NULL, "n900"}, described : BOOLEAN]
Suites == [gen : Gens, described : BOOLEAN, live : BOOLEAN]

SetIsParsed(b) == set.gen.name \in SetNames /\ set.cases \in Seq(ParsedCases(b))
DataOf(b) ==
  /\ td \in Definitions /\ Len(td.hw_detector) \in 0..1 /\ suite \in Suites
  /\ set \in SetsOf(b)
  /\ Inside => SetIsParsed(b)
  /\ case \in ParsedCases(b) /\ step \in StepsOf(b) /\ steps \in Seq(ListSteps(b))
  /\ tag \in ListTags \cup {NULL} /\ file \in FilesOf /\ param \in Seq(Words)
  /\ aborted \subseteq SetNames

-----------------------------------------------------------------------------
(* The level of the parser.                                                 *)

\* What the file is like does not change.
LEMMA FileStays ==
  ASSUME doc' = doc
  PROVE  /\ Traits' = Traits /\ Sets' = Sets /\ DetectorIsMisread' = DetectorIsMisread
         /\ Both' = Both /\ Closable' = Closable /\ ListsRunOn' = ListsRunOn
         /\ SetNames' = SetNames
BY DEF Traits, Sets, DetectorIsMisread, Both, Closable, ListsRunOn, SetNames

\* What is called and what returns: the two innermost functions then.
LEMMA Calls ==
  ASSUME fn \in Stacks, NEW f \in ParserFunctions, Call(f), Last(fn) \in Callers(f)
  PROVE  fn' \in Stacks /\ Last(fn') = f /\ CallerOf(fn') = Last(fn)
BY StackCalls DEF Call

\* What a return makes of the stack.
LEMMA Returns ==
  ASSUME fn \in Stacks, Ret, Last(fn) \in ParserFunctions
  PROVE  /\ fn' \in Stacks /\ Last(fn') = Caller /\ Caller \in Callers(Last(fn))
         /\ Last(fn') \in ParserFunctions => CallerOf(fn') \in Callers(Last(fn'))
<1>1. Grown(fn, Last(fn)) /\ Front(fn) \in Stacks
  BY StackTops
<1>2. fn' = Front(fn)
  BY DEF Ret
<1>3. CallerOf(fn) = Caller
  BY DEF CallerOf, Caller
<1>4. Last(fn') \in ParserFunctions => Grown(fn', Last(fn'))
  BY <1>1, <1>2, StackTops
<1> QED
  BY <1>1, <1>2, <1>3, <1>4 DEF Grown

\* The loop reads a node.
LEMMA LoopKeepsLevel ==
  ASSUME fn \in Stacks, NEW c \in Places(Traits), NEW e \in Places(Traits), Level(c),
         Move(Traits, c, Node, e), suite \in Suites,
         TestDefinitionStart \/ TestDefinitionEnd \/ Hwiddetect \/ DescriptionNode
           \/ SuiteStart \/ SuiteEnd \/ SetStart \/ OtherNode
  PROVE  fn' \in Stacks /\ Level(e)'
<1>1. In("td_process") /\ fn = Loop
  BY StackTops DEF TestDefinitionStart, TestDefinitionEnd, Hwiddetect, DescriptionNode,
                   SuiteStart, SuiteEnd, SetStart, OtherNode, InLoop, Loop, In
<1>2. doc' = doc
  BY DEF TestDefinitionStart, TestDefinitionEnd, Hwiddetect, DescriptionNode,
                   SuiteStart, SuiteEnd, SetStart, OtherNode
<1>3. Traits.misread = DetectorIsMisread /\ DetectorIsMisread' = DetectorIsMisread
  BY <1>2, FileStays DEF Traits
<1>4. \/ c.level = "out" /\ parsing_level = 0 /\ ~suite.live
      \/ c.level = "top" /\ parsing_level = 1 /\ ~suite.live
      \/ c.level = "suite" /\ parsing_level = 2 /\ suite.live
      \/ c.level \in {"suite", "set"} /\ DetectorIsMisread /\ parsing_level = 1 /\ ~suite.live
      \/ c.level = "end" /\ parsing_level \in 0..1 /\ ~suite.live
  BY <1>1 DEF Level
<1> DEFINE Now(p, q, live, l) ==
             \/ l = "out" /\ p = 0 /\ ~live
             \/ l = "top" /\ p = 1 /\ ~live
             \/ l = "suite" /\ p = 2 /\ live
             \/ l \in {"suite", "set"} /\ q /\ p = 1 /\ ~live
             \/ l = "end" /\ p \in 0..1 /\ ~live
<1>5. ASSUME fn' = fn, Now(parsing_level', DetectorIsMisread, suite'.live, e.level)
      PROVE  fn' \in Stacks /\ Level(e)'
  <2>1. Last(fn') = "td_process"
    BY <1>1, <1>5 DEF In
  <2>2. parsing_level' \in 0..2
    BY <1>5
  <2> QED
    BY <1>3, <1>5, <2>1, <2>2 DEF Level, In, Inside, InFile
<1>6. CASE TestDefinitionStart
  <2>1. c.level = "out" /\ e.level = "top"
    BY <1>6, DefinitionMoves DEF TestDefinitionStart, Starts, Begins
  <2>2. fn' = fn /\ parsing_level' = parsing_level + 1 /\ suite' = suite
    BY <1>6 DEF TestDefinitionStart
  <2> QED
    BY <1>4, <1>5, <2>1, <2>2
<1>7. CASE TestDefinitionEnd
  <2>1. c.level = "top" /\ e.level = "end"
    BY <1>7, DefinitionMoves DEF TestDefinitionEnd, Ends, Closes
  <2>2. fn' = fn /\ parsing_level' = parsing_level - 1 /\ suite' = suite
    BY <1>7 DEF TestDefinitionEnd
  <2> QED
    BY <1>4, <1>5, <2>1, <2>2
<1>8. CASE Hwiddetect
  <2>1. /\ c.level = "top" /\ e.level = "top"
        /\ IF Node.empty THEN DetectorIsMisread ELSE e.box = "hwiddetect"
    BY <1>3, <1>8, DefinitionMoves DEF Hwiddetect, Starts, Begins
  <2>2. parsing_level' = parsing_level /\ suite' = suite /\ Call("td_parse_hwiddetect")
    BY <1>8 DEF Hwiddetect
  <2>3. fn' \in Stacks /\ Last(fn') = "td_parse_hwiddetect"
    BY <1>1, <2>2, Calls DEF In, ParserFunctions, Callers
  <2>4. parsing_level' = 1 /\ ~suite'.live
    BY <1>4, <2>1, <2>2
  <2> QED
    BY <1>3, <2>1, <2>3, <2>4 DEF Level, In, Inside, InFile
<1>9. CASE DescriptionNode
  <2>1. e = c
    BY <1>9, DefinitionMoves DEF DescriptionNode, Starts, Begins
  <2>2. fn' = fn /\ parsing_level' = parsing_level /\ suite'.live = suite.live
    BY <1>9 DEF DescriptionNode, Suites
  <2> QED
    BY <1>4, <1>5, <2>1, <2>2
<1>10. CASE SuiteStart
  <2>1. c.level = "top" /\ e.level = IF Node.empty THEN "top" ELSE "suite"
    BY <1>10, DefinitionMoves DEF SuiteStart, Starts, Begins
  <2>2. /\ fn' = fn
        /\ parsing_level' = IF Node.empty THEN parsing_level ELSE parsing_level + 1
        /\ Node.empty => ~suite'.live
        /\ ~Node.empty => suite'.live
    BY <1>10 DEF SuiteStart, LevelInSuite, SuiteIsEmpty, Nowhere
  <2>3. parsing_level = 1
    BY <1>4, <2>1
  <2>4. CASE Node.empty
    BY <1>5, <2>1, <2>2, <2>3, <2>4
  <2>5. CASE ~Node.empty
    BY <1>5, <2>1, <2>2, <2>3, <2>5
  <2> QED
    BY <2>4, <2>5
<1>11. CASE SuiteEnd
  <2>1. c.level = "suite" /\ e.level = "top"
    BY <1>11, DefinitionMoves DEF SuiteEnd, Ends, Closes
  <2>2. fn' = fn /\ parsing_level' = parsing_level - 1 /\ suite.live /\ ~suite'.live
    BY <1>11 DEF SuiteEnd, Nowhere
  <2> QED
    BY <1>4, <1>5, <2>1, <2>2
<1>12. CASE SetStart
  <2>1. c.level = "suite" /\ (Node.empty => e = c)
    BY <1>12, DefinitionMoves DEF SetStart, Starts, Begins
  <2>2. /\ parsing_level' = parsing_level /\ suite' = suite
        /\ IF Node.empty THEN fn' = fn ELSE Call("td_parse_set")
    BY <1>12 DEF SetStart
  <2>3. CASE Node.empty
    BY <1>4, <1>5, <2>1, <2>2, <2>3
  <2>4. CASE ~Node.empty
    <3>1. fn' \in Stacks /\ Last(fn') = "td_parse_set"
      BY <1>1, <2>2, <2>4, Calls DEF In, ParserFunctions, Callers
    <3>2. \/ parsing_level' = 2 /\ suite'.live
          \/ DetectorIsMisread' /\ parsing_level' = 1 /\ ~suite'.live
      BY <1>3, <1>4, <2>1, <2>2
    <3> QED
      BY <3>1, <3>2 DEF Level, In, Inside, InFile
  <2> QED
    BY <2>3, <2>4
<1>13. CASE OtherNode
  <2>1. fn' = fn /\ parsing_level' = parsing_level /\ suite' = suite
    BY <1>13 DEF OtherNode
  <2>2. \/ e.level = c.level
        \/ c.level = "set" /\ e.level \in {"suite", "set"}
    <3>1. CASE IsText
      BY <3>1, TextMoves DEF IsText, Same
    <3>2. CASE Node.t = "end" /\ Node.n \notin {"testdefinition", "suite"}
      <4>1. CASE Node.n = "set"
        BY <3>2, <4>1, DefinitionMoves DEF Closes, Place
      <4>2. CASE Node.n # "set"
        BY <3>2, <4>2, OtherMoves DEF Same
      <4> QED
        BY <4>1, <4>2
    <3>3. CASE Node.t = "start" /\ Node.n \notin {"testdefinition", "hwiddetect", "description",
                                                  "suite", "set"}
      BY <3>3, OtherMoves
    <3> QED
      BY <1>13, <3>1, <3>2, <3>3 DEF OtherNode
  <2> QED
    BY <1>4, <1>5, <2>1, <2>2
<1> QED
  BY <1>6, <1>7, <1>8, <1>9, <1>10, <1>11, <1>12, <1>13

\* The detector reads a node.
LEMMA DetectorKeepsLevel ==
  ASSUME fn \in Stacks, NEW c \in Places(Traits), NEW e \in Places(Traits), Level(c),
         Move(Traits, c, Node, e), DetectorText \/ HwidDetected
  PROVE  fn' \in Stacks /\ Level(e)'
<1>1. /\ In("td_parse_hwiddetect") /\ doc' = doc /\ parsing_level' = parsing_level
      /\ suite' = suite
  BY DEF DetectorText, HwidDetected
<1>2. DetectorIsMisread' = DetectorIsMisread
  BY <1>1, FileStays
<1>3. /\ parsing_level = 1 /\ ~suite.live
      /\ \/ c.level = "top" /\ c.box = "hwiddetect"
         \/ DetectorIsMisread /\ c.level # "out"
  BY <1>1 DEF Level
<1>4. e.level = "out" => c.level = "out"
  BY OtherMoves
<1>5. CASE DetectorText
  <2>1. Node.t # "end" /\ fn' = fn /\ Last(fn') = "td_parse_hwiddetect"
    BY <1>1, <1>5 DEF DetectorText, In
  <2>2. \/ e.level = "top" /\ e.box = "hwiddetect"
        \/ DetectorIsMisread /\ e.level # "out"
    <3>1. CASE c.level = "top" /\ c.box = "hwiddetect"
      <4>1. Node.t = "text"
        BY <2>1, <3>1 DEF Move, DefinitionMove, ListMove, CaseMove, BoxMove, StepMove, TextMove,
                          Begins, Closes
      <4> QED
        BY <3>1, <4>1, TextMoves DEF Same
    <3> QED
      BY <1>3, <1>4, <3>1
  <2> QED
    BY <1>1, <1>2, <1>3, <2>1, <2>2 DEF Level, In, Inside, InFile
<1>6. CASE HwidDetected
  <2>1. Node.t = "end" /\ Ret
    BY <1>6 DEF HwidDetected
  <2>2. fn' \in Stacks /\ Last(fn') = "td_process"
    BY <1>1, <2>1, Returns DEF In, ParserFunctions, Callers
  <2>3. e.level = "top" \/ (DetectorIsMisread /\ e.level \in {"top", "suite", "set", "end"})
    <3>1. CASE c.level = "top" /\ c.box = "hwiddetect"
      <4>1. e = [c EXCEPT !.box = "none"]
        BY <2>1, <3>1 DEF Move, DefinitionMove, ListMove, CaseMove, BoxMove, StepMove, TextMove,
                          Begins, Closes
      <4> QED
        BY <3>1, <4>1 DEF Places
    <3>2. e.level \in {"out", "top", "suite", "set", "end"}
      BY DEF Places
    <3> QED
      BY <1>3, <1>4, <3>1, <3>2
  <2>4. parsing_level' = 1 /\ ~suite'.live
    BY <1>1, <1>3
  <2> QED
    BY <1>2, <2>2, <2>3, <2>4 DEF Level, In, Inside, InFile
<1> QED
  BY <1>5, <1>6

\* The end of the file, a null suite and the end of a set.
LEMMA LeavingKeepsLevel ==
  ASSUME fn \in Stacks, NEW c \in Places(Traits), Level(c)
  PROVE  /\ SuiteEndWithoutSuite /\ input # <<>> =>
              \A e \in Places(Traits) : Move(Traits, c, Node, e) =>
                fn' \in Stacks /\ Level(c)' /\ DetectorIsMisread
         /\ EndOfFile => fn' \in Stacks /\ Level(c)'
         /\ \A e \in Places(Traits) :
              SetEnd /\ Move(Traits, c, Node, e) => fn' \in Stacks /\ Level(e)'
<1>1. <<"crashed">> \in Stacks /\ <<"finished">> \in Stacks
  BY DEF Stacks
<1>2. Last(<<"crashed">>) = "crashed" /\ Last(<<"finished">>) = "finished"
  BY <1>1, StackTops
<1>3. ASSUME SuiteEndWithoutSuite, NEW e \in Places(Traits), Move(Traits, c, Node, e)
      PROVE  fn' \in Stacks /\ Level(c)' /\ DetectorIsMisread
  <2>1. c.level = "suite" /\ ~suite.live
    BY <1>3, DefinitionMoves DEF SuiteEndWithoutSuite, Ends, Starts, Closes, Begins
  <2>2. In("td_process")
    BY <1>3, StackTops DEF SuiteEndWithoutSuite, InLoop, Loop, In
  <2>3. DetectorIsMisread /\ parsing_level \in 0..2
    BY <2>1, <2>2 DEF Level
  <2>4. doc' = doc /\ parsing_level' = parsing_level /\ fn' = <<"crashed">>
    BY <1>3 DEF SuiteEndWithoutSuite
  <2> QED
    BY <1>1, <1>2, <2>3, <2>4 DEF Level, In, Inside, InFile
<1>4. ASSUME EndOfFile
      PROVE  fn' \in Stacks /\ Level(c)'
  <2>1. parsing_level' = parsing_level /\ fn' = <<"finished">>
    BY <1>4 DEF EndOfFile
  <2>2. parsing_level \in 0..2
    BY DEF Level
  <2> QED
    BY <1>1, <1>2, <2>1, <2>2 DEF Level, In, Inside, InFile
<1>5. ASSUME SetEnd, NEW e \in Places(Traits), Move(Traits, c, Node, e)
      PROVE  fn' \in Stacks /\ Level(e)'
  <2>1. /\ In("td_parse_set") /\ doc' = doc /\ parsing_level' = parsing_level
        /\ suite' = suite /\ (Ret \/ fn' = <<"crashed">>)
    BY <1>5 DEF SetEnd, AfterDelete, Ret
  <2>2. \/ parsing_level = 2 /\ suite.live
        \/ DetectorIsMisread /\ parsing_level = 1 /\ ~suite.live
    BY <2>1 DEF Level, In, Inside, InFile
  <2>3. DetectorIsMisread' = DetectorIsMisread /\ parsing_level' \in 0..2
    BY <2>1, <2>2, FileStays
  <2>4. e.level = "suite"
    BY <1>5, DefinitionMoves DEF SetEnd, Ends, Closes, Place
  <2>5. CASE Ret
    <3>1. fn' \in Stacks /\ Last(fn') = "td_process"
      BY <2>1, <2>5, Returns DEF In, ParserFunctions, Callers
    <3> QED
      BY <2>1, <2>2, <2>3, <2>4, <3>1 DEF Level, In, Inside, InFile
  <2>6. CASE fn' = <<"crashed">>
    BY <1>1, <1>2, <2>3, <2>6 DEF Level, In, Inside, InFile
  <2> QED
    BY <2>1, <2>5, <2>6
<1> QED
  BY <1>3, <1>4, <1>5

-----------------------------------------------------------------------------
(* The tokens inside a set.                                                 *)

\* The tokens of the lists of steps: they come in the order of the stages.
LEMMA ListMoves ==
  ASSUME NEW r, NEW c \in Places(r), NEW k, NEW d, Move(r, c, k, d), NEW t \in ListTags
  PROVE  /\ Begins(k, t) =>
              /\ c.stage <= StageOf(t) /\ (k.empty => r.runs_on)
              /\ d.box = IF k.empty THEN "none" ELSE t
         /\ Closes(k, t) =>
              /\ c.level = "set" /\ c.stage = StageOf(t)
              /\ t = "post_reboot_steps" => c.s \in r.sets /\ c.s.reboot_steps # <<>>
<1>1. ASSUME Begins(k, t) \/ Closes(k, t) PROVE ListMove(r, c, k, d)
  BY <1>1 DEF Move, DefinitionMove, CaseMove, BoxMove, StepMove, TextMove, Begins, Closes, ListTags
<1>2. ASSUME Begins(k, t)
      PROVE  /\ c.stage <= StageOf(t) /\ (k.empty => r.runs_on)
             /\ d = [c EXCEPT !.stage = StageOf(t), !.box = IF k.empty THEN "none" ELSE t]
  BY <1>1, <1>2 DEF ListMove, Begins, Closes
<1>3. ASSUME Begins(k, t)
      PROVE  d.box = IF k.empty THEN "none" ELSE t
  BY <1>2, <1>3 DEF Places
<1>4. ASSUME Closes(k, t)
      PROVE  /\ c.level = "set" /\ c.stage = StageOf(t)
             /\ t = "post_reboot_steps" => c.s \in r.sets /\ c.s.reboot_steps # <<>>
  BY <1>1, <1>4 DEF ListMove, Begins, Closes
<1> QED
  BY <1>2, <1>3, <1>4

\* The tokens of the cases and of the params.
LEMMA CaseMoves ==
  ASSUME NEW r, NEW c \in Places(r), NEW k, NEW d, Move(r, c, k, d)
  PROVE  /\ Begins(k, "case") => c.s \in r.sets /\ c.s.cases # <<>> /\ d.stage = 2
         /\ Closes(k, "case") => c.level = "set" /\ c.stage = 2 /\ d = c
         /\ Begins(k, "param") => IF k.empty THEN ~r.closable ELSE d.inner = "bare"
         /\ Closes(k, "param") /\ r.closable => c.inner = "texted"
<1>1. ASSUME Begins(k, "case") \/ Closes(k, "case") \/ Begins(k, "param")
      PROVE  CaseMove(r, c, k, d)
  BY <1>1 DEF Move, DefinitionMove, ListMove, BoxMove, StepMove, TextMove, Begins, Closes, ListTags
<1>2. ASSUME Closes(k, "param") PROVE StepMove(r, c, k, d)
  BY <1>2 DEF Move, DefinitionMove, ListMove, BoxMove, CaseMove, TextMove, Begins, Closes, ListTags
<1>3. ASSUME Begins(k, "case") PROVE c.s \in r.sets /\ c.s.cases # <<>> /\ d.stage = 2
  <2>1. c.s \in r.sets /\ c.s.cases # <<>> /\ d = [c EXCEPT !.stage = 2]
    BY <1>1, <1>3 DEF CaseMove, Begins, Closes
  <2> QED
    BY <2>1 DEF Places
<1>4. Closes(k, "case") => c.level = "set" /\ c.stage = 2 /\ d = c
  BY <1>1 DEF CaseMove, Begins, Closes
<1>5. ASSUME Begins(k, "param") PROVE IF k.empty THEN ~r.closable ELSE d.inner = "bare"
  <2>1. /\ k.empty => ~r.closable
        /\ d = [c EXCEPT !.inner = IF k.empty THEN "no" ELSE "bare"]
    BY <1>1, <1>5 DEF CaseMove, Begins, Closes
  <2> QED
    BY <2>1 DEF Places
<1>6. Closes(k, "param") /\ r.closable => c.inner = "texted"
  BY <1>2 DEF StepMove, Begins, Closes
<1> QED
  BY <1>3, <1>4, <1>5, <1>6

\* The tokens of the elements of a set that are closed by their own end only.
LEMMA BoxMoves ==
  ASSUME NEW r, NEW c \in Places(r), NEW k, NEW d, Move(r, c, k, d)
  PROVE  /\ \A t \in {"get", "environments"} : Begins(k, t) => d.stage = 2 /\ d.box = t
         /\ c.box \in ListTags \cup {"get", "environments"} /\ ~Closes(k, c.box)
              => Same(c, d) /\ d.box = c.box
<1>1. ASSUME NEW t \in {"get", "environments"}, Begins(k, t)
      PROVE  d.stage = 2 /\ d.box = t
  <2>1. BoxMove(r, c, k, d)
    BY <1>1 DEF Move, DefinitionMove, ListMove, CaseMove, StepMove, TextMove, Begins, Closes, ListTags
  <2>2. d = [c EXCEPT !.stage = 2, !.box = t]
    BY <1>1, <2>1 DEF BoxMove, Begins, Closes
  <2> QED
    BY <2>2 DEF Places
<1>2. ASSUME c.box \in ListTags \cup {"get", "environments"}, ~Closes(k, c.box)
      PROVE  Same(c, d) /\ d.box = c.box
  <2>1. c.box # "none" /\ c.box # "hwiddetect"
    BY <1>2 DEF ListTags
  <2>2. d = c \/ \E i : d = [c EXCEPT !.inner = i]
    <3>1. ~DefinitionMove(r, c, k, d) /\ ~CaseMove(r, c, k, d)
      BY <2>1 DEF DefinitionMove, CaseMove
    <3>2. ~ListMove(r, c, k, d)
      BY <1>2, <2>1 DEF ListMove
    <3>3. BoxMove(r, c, k, d) => d = c
      BY <1>2, <2>1 DEF BoxMove
    <3>4. StepMove(r, c, k, d) \/ TextMove(r, c, k, d) => \E i : d = [c EXCEPT !.inner = i]
      BY DEF StepMove, TextMove
    <3> QED
      BY <3>1, <3>2, <3>3, <3>4 DEF Move
  <2> QED
    BY <2>2 DEF Places, Same
<1> QED
  BY <1>1, <1>2

\* The tokens of the steps: one that is empty has no text, and only an end that
\* follows a text closes one the logger closes.
LEMMA StepMoves ==
  ASSUME NEW r, NEW c \in Places(r), NEW k, NEW d, Move(r, c, k, d)
  PROVE  /\ Begins(k, "step") =>
              /\ d.inner = (IF k.empty THEN "no" ELSE "bare") /\ d.box = c.box
              /\ k.empty /\ r.closable => c.box = "none" /\ (r.runs_on => DOMAIN k.a # {})
         /\ Closes(k, "step") =>
              /\ d.box = c.box
              /\ r.closable /\ (c.box # "none" \/ r.runs_on) => c.inner = "texted"
         /\ k.t # "text" /\ d.inner = "texted" => c.inner = "texted"
         /\ k.t # "text" /\ c.inner # "no" /\ c.box # "none" => Closes(k, "step")
<1>1. ASSUME Begins(k, "step") \/ Closes(k, "step") PROVE StepMove(r, c, k, d)
  BY <1>1 DEF Move, DefinitionMove, ListMove, CaseMove, BoxMove, TextMove, Begins, Closes, ListTags
<1>2. ASSUME Begins(k, "step")
      PROVE  /\ d.inner = (IF k.empty THEN "no" ELSE "bare") /\ d.box = c.box
             /\ k.empty /\ r.closable => c.box = "none" /\ (r.runs_on => DOMAIN k.a # {})
  <2>1. /\ k.empty /\ r.closable => c.box = "none" /\ (r.runs_on => DOMAIN k.a # {})
        /\ d = [c EXCEPT !.inner = IF k.empty THEN "no" ELSE "bare"]
    BY <1>1, <1>2 DEF StepMove, Begins, Closes
  <2> QED
    BY <2>1 DEF Places
<1>3. ASSUME Closes(k, "step")
      PROVE  /\ d.box = c.box
             /\ r.closable /\ (c.box # "none" \/ r.runs_on) => c.inner = "texted"
  <2>1. /\ r.closable /\ (c.box # "none" \/ r.runs_on) => c.inner = "texted"
        /\ d = [c EXCEPT !.inner = "no"]
    BY <1>1, <1>3 DEF StepMove, Begins, Closes
  <2> QED
    BY <2>1 DEF Places
<1>4. ASSUME k.t # "text", d.inner = "texted"
      PROVE  c.inner = "texted"
  <2>1. ~TextMove(r, c, k, d)
    BY <1>4 DEF TextMove
  <2>2. CASE DefinitionMove(r, c, k, d) \/ ListMove(r, c, k, d) \/ BoxMove(r, c, k, d)
    <3>1. c.inner = "no"
      BY <2>2 DEF DefinitionMove, ListMove, BoxMove
    <3>2. d.inner = c.inner \/ d.inner = "no"
      <4>1. \/ d = c \/ d.inner = "no"
            \/ \E b : d = [c EXCEPT !.box = b]
            \/ \E l : d = [c EXCEPT !.level = l]
            \/ \E b, g : d = [c EXCEPT !.stage = g, !.box = b]
        <5>1. CASE DefinitionMove(r, c, k, d)
          <6>1. \A s : Place("set", s, 0, "none", "no").inner = "no"
            BY DEF Place
          <6>2. Place("suite", NULL, 0, "none", "no").inner = "no"
            BY DEF Place
          <6> HIDE DEF Place
          <6>3. \/ k.n = "set" /\ d.inner = "no"
                \/ d = c
                \/ \E b : d = [c EXCEPT !.box = b]
                \/ \E l : d = [c EXCEPT !.level = l]
            <7>1. CASE k.n = "set"
              <8>1. Begins(k, "set") \/ Closes(k, "set")
                BY <5>1, <7>1 DEF DefinitionMove, Begins, Closes
              <8>2. Begins(k, "set") => \E s \in r.sets : d = IF k.empty THEN c ELSE Place("set", s, 0, "none", "no")
                BY DefinitionMoves
              <8>3. Closes(k, "set") => d = Place("suite", NULL, 0, "none", "no")
                BY DefinitionMoves
              <8> QED
                BY <6>1, <6>2, <7>1, <8>1, <8>2, <8>3
            <7>2. CASE k.n # "set"
              BY <5>1, <7>2 DEF DefinitionMove, Begins, Closes
            <7> QED
              BY <7>1, <7>2
          <6> QED
            BY <6>3
        <5>2. CASE ListMove(r, c, k, d)
          BY <5>2, Zenon DEF ListMove
        <5>3. CASE BoxMove(r, c, k, d)
          BY <5>3, Zenon DEF BoxMove
        <5> QED
          BY <2>2, <5>1, <5>2, <5>3
      <4> QED
        BY <4>1 DEF Places
    <3> QED
      BY <1>4, <3>1, <3>2
  <2>3. CASE CaseMove(r, c, k, d)
    <3>1. d = c \/ d = [c EXCEPT !.stage = 2] \/ d = [c EXCEPT !.inner = "no"]
          \/ d = [c EXCEPT !.inner = "bare"]
      BY <2>3 DEF CaseMove
    <3> QED
      BY <1>4, <3>1 DEF Places
  <2>4. CASE StepMove(r, c, k, d)
    <3>1. d = [c EXCEPT !.inner = "no"] \/ d = [c EXCEPT !.inner = "bare"]
      BY <2>4 DEF StepMove
    <3> QED
      BY <1>4, <3>1 DEF Places
  <2> QED
    BY <2>1, <2>2, <2>3, <2>4 DEF Move
<1>5. ASSUME k.t # "text", c.inner # "no", c.box # "none"
      PROVE  Closes(k, "step")
  BY <1>5 DEF Move, DefinitionMove, ListMove, CaseMove, BoxMove, StepMove, TextMove, Begins
<1> QED
  BY <1>2, <1>3, <1>4, <1>5

-----------------------------------------------------------------------------
(* The parser inside a set.                                                 *)

Parse(c) == Level(c) /\ Stages(c) /\ TextsSeen(c)
ParseAt(c) == c \in Places(Traits) /\ fn \in Stacks /\ Parse(c)

\* Whatever is read in a set, the definition and its suite stay.
LEMMA StaysInside ==
  ASSUME doc' = doc, parsing_level' = parsing_level, suite' = suite, Inside, Inside',
         NEW c, Level(c), NEW e
  PROVE  Level(e)'
BY FileStays DEF Level, Inside, InFile, In

\* What an action must leave for the invariant when it ends in td_parse_set() or in
\* a function it calls for environments and files.
LEMMA ArriveInSet ==
  ASSUME NEW e, doc' = doc,
         \/ Last(fn') \in {"td_parse_set", "td_parse_environments"}
         \/ Last(fn') = "td_parse_gets" /\ CallerOf(fn') = "td_parse_set",
         e.level = "set", set'.cases # <<>> => e.stage = 2,
         set'.post_reboot_steps # <<>> =>
           Both \/ (set'.cases = <<>> /\ e.stage >= 1 /\ e.s \in Sets /\ e.s.reboot_steps # <<>>),
         Last(fn') = "td_parse_environments" => e.box = "environments",
         Last(fn') = "td_parse_gets" => e.box = "get"
  PROVE  Stages(e)' /\ TextsSeen(e)' /\ Inside'
<1>1. Both' = Both /\ Sets' = Sets
  BY FileStays
<1>2. Caller' = CallerOf(fn')
  BY DEF Caller, CallerOf
<1>3. ~InACase' /\ ~InSteps' /\ ~InListStep' /\ Inside' /\ ~In("td_parse_event_param")'
  BY <1>2 DEF InACase, InSteps, InListStep, Inside, InFile, In
<1>4. In("td_parse_environments")' => e.box = "environments"
  BY DEF In
<1>5. InSetGets' => e.box = "get"
  BY DEF In, InSetGets
<1>6. RebootHere(e)' <=> /\ set'.cases = <<>> /\ e.stage >= 1 /\ e.s \in Sets
                         /\ e.s.reboot_steps # <<>>
  BY <1>1 DEF RebootHere
<1>7. ~In("crashed")'
  BY DEF In
<1>8. set'.post_reboot_steps # <<>> => Both' \/ RebootHere(e)'
  BY <1>1, <1>6
<1>9. Stages(e)'
  BY <1>3, <1>4, <1>5, <1>7, <1>8 DEF Stages
<1> QED
  BY <1>3, <1>9 DEF TextsSeen

\* So for td_parse_case() and what it calls.
LEMMA ArriveInCase ==
  ASSUME NEW e, doc' = doc,
         \/ Last(fn') \in {"td_parse_case", "td_parse_event", "td_parse_event_param"}
         \/ Last(fn') \in {"td_parse_step", "td_parse_gets"} /\ CallerOf(fn') = "td_parse_case",
         set'.post_reboot_steps # <<>> => Both,
         Closable /\ Last(fn') = "td_parse_event_param" =>
           e.inner # "no" /\ (e.inner = "texted" => param' # <<>>)
  PROVE  Stages(e)' /\ TextsSeen(e)' /\ Inside'
<1>1. Both' = Both /\ Closable' = Closable
  BY FileStays
<1>2. Caller' = CallerOf(fn')
  BY DEF Caller, CallerOf
<1>3. /\ ~InSteps' /\ ~InListStep' /\ ~InSetGets' /\ ~In("td_parse_set")'
      /\ ~In("td_parse_environments")' /\ Inside'
  BY <1>2 DEF InSteps, InListStep, InSetGets, Inside, InFile, In
<1>4. Stages(e)'
  <2>1. ~In("crashed")' /\ (set'.post_reboot_steps # <<>> => Both')
    BY <1>1 DEF In
  <2> QED
    BY <1>3, <2>1 DEF Stages
<1>5. TextsSeen(e)'
  <2>1. Closable' /\ In("td_parse_event_param")' =>
           e.inner # "no" /\ (e.inner = "texted" => param' # <<>>)
    BY <1>1 DEF In
  <2> QED
    BY <1>3, <2>1 DEF TextsSeen
<1> QED
  BY <1>3, <1>4, <1>5

\* So for td_parse_steps() and the steps it reads.
LEMMA ArriveInList ==
  ASSUME NEW e, doc' = doc,
         \/ Last(fn') = "td_parse_steps"
         \/ Last(fn') = "td_parse_step" /\ CallerOf(fn') = "td_parse_steps",
         tag' \in ListTags, set'.cases = <<>>,
         set'.post_reboot_steps # <<>> => Both \/ tag' = "post_reboot_steps",
         Closable => ListsRunOn \/ e.box = tag',
         Closable /\ Last(fn') = "td_parse_step" =>
           (ListsRunOn \/ e.inner # "no") /\ (e.inner = "texted" => step'.cmd # <<>>)
  PROVE  Stages(e)' /\ TextsSeen(e)' /\ Inside'
<1>1. Both' = Both /\ Closable' = Closable /\ ListsRunOn' = ListsRunOn
  BY FileStays
<1>2. Caller' = CallerOf(fn')
  BY DEF Caller, CallerOf
<1>3. /\ ~InACase' /\ ~InSetGets' /\ ~In("td_parse_set")' /\ ~In("td_parse_event_param")'
      /\ ~In("td_parse_environments")' /\ Inside'
  BY <1>2 DEF InACase, InSetGets, Inside, InFile, In
<1>4. Stages(e)'
  <2>1. ~In("crashed")'
    BY DEF In
  <2>2. /\ tag' \in ListTags /\ set'.cases = <<>>
        /\ set'.post_reboot_steps # <<>> => Both' \/ tag' = "post_reboot_steps"
    BY <1>1
  <2> QED
    BY <1>3, <2>1, <2>2 DEF Stages
<1>5. TextsSeen(e)'
  <2>1. Closable' => ListsRunOn' \/ e.box = tag'
    BY <1>1
  <2>2. Closable' /\ InListStep' =>
          (ListsRunOn' \/ e.inner # "no") /\ (e.inner = "texted" => step'.cmd # <<>>)
    BY <1>1, <1>2 DEF InListStep, In
  <2> QED
    BY <1>3, <2>1, <2>2 DEF TextsSeen
<1> QED
  BY <1>3, <1>4, <1>5

\* What every action leaves alone that reads a node inside a set.
LEMMA Reads ==
  ASSUME NEW f, Within(f)
  PROVE  /\ Last(fn) = f /\ doc' = doc /\ parsing_level' = parsing_level /\ suite' = suite
         /\ input # <<>>
BY DEF Within, In, Read

\* The caller of a function is one that calls it.
LEMMA TopCaller ==
  ASSUME fn \in Stacks, Last(fn) \in ParserFunctions
  PROVE  Caller \in Callers(Last(fn))
BY StackTops DEF Grown, CallerOf, Caller

\* td_parse_set() reads a node.
LEMMA SetKeepsParse ==
  ASSUME NEW b, DataOf(b), NEW c, ParseAt(c), NEW e \in Places(Traits),
         Move(Traits, c, Node, e),
         StepsStart \/ CaseStart \/ EnvironmentsStart \/ (GetStart /\ Within("td_parse_set"))
           \/ SetDescription \/ SetOther
  PROVE  ParseAt(e)' /\ Inside'
<1>1. Within("td_parse_set")
  BY DEF StepsStart, CaseStart, EnvironmentsStart, SetDescription, SetOther
<1>2. /\ Last(fn) = "td_parse_set" /\ doc' = doc /\ parsing_level' = parsing_level
      /\ suite' = suite
  BY <1>1, Reads
<1>3. fn \in Stacks /\ c \in Places(Traits) /\ Level(c) /\ Stages(c) /\ Inside
  BY <1>2 DEF ParseAt, Parse, Inside, InFile, In
<1>4. /\ c.level = "set" /\ (set.cases # <<>> => c.stage = 2)
      /\ set.post_reboot_steps # <<>> =>
           Both \/ (set.cases = <<>> /\ c.stage >= 1 /\ c.s \in Sets /\ c.s.reboot_steps # <<>>)
  BY <1>2, <1>3 DEF Stages, In, RebootHere
<1>5. Traits' = Traits /\ Traits.sets = Sets /\ Traits.runs_on = ListsRunOn
  BY <1>2, FileStays DEF Traits
<1>6. set \in SetsOf(b)
  BY DEF DataOf
<1>7. c.stage \in 0..2 /\ e.stage \in 0..2
  BY <1>3 DEF Places
<1>8. ASSUME Stages(e)' /\ TextsSeen(e)' /\ Inside', fn' \in Stacks
      PROVE  ParseAt(e)' /\ Inside'
  BY <1>2, <1>3, <1>5, <1>8, StaysInside DEF ParseAt, Parse
<1>9. CASE StepsStart
  <2>1. PICK t \in ListTags : Begins(Node, t) /\ tag' = t
    BY <1>9 DEF StepsStart, ListTags, Starts, Begins
  <2>2. set' = set /\ Call("td_parse_steps")
    BY <1>9 DEF StepsStart
  <2>3. fn' \in Stacks /\ Last(fn') = "td_parse_steps"
    BY <1>2, <1>3, <2>2, Calls DEF ParserFunctions, Callers
  <2>4. c.stage <= StageOf(t) /\ e.box = IF Node.empty THEN "none" ELSE t
    BY <1>3, <2>1, ListMoves
  <2>5. Node.empty => ListsRunOn
    BY <1>3, <1>5, <2>1, ListMoves
  <2>6. set.cases = <<>> /\ (c.stage >= 1 => t = "post_reboot_steps")
    BY <1>4, <1>7, <2>4 DEF StageOf
  <2> QED
    BY <1>2, <1>4, <1>8, <2>1, <2>2, <2>3, <2>4, <2>5, <2>6, ArriveInList
<1>10. CASE CaseStart
  <2>1. c.s \in Sets /\ c.s.cases # <<>> /\ e.stage = 2
    BY <1>3, <1>5, <1>10, CaseMoves DEF CaseStart, Starts, Begins
  <2>2. e.level = "set"
    BY <1>3, <1>10, OtherMoves DEF CaseStart, Starts
  <2>3. set.post_reboot_steps # <<>> => Both
    BY <1>4, <2>1 DEF Both
  <2>4. CASE Node.empty
    <3>1. fn' = fn /\ set'.post_reboot_steps = set.post_reboot_steps
      BY <1>6, <1>10, <2>4 DEF CaseStart, SetsOf
    <3>2. set'.post_reboot_steps # <<>> => Both
      BY <2>3, <3>1
    <3> QED
      BY <1>2, <1>3, <1>4, <1>8, <2>1, <2>2, <3>1, <3>2, ArriveInSet
  <2>5. CASE ~Node.empty
    <3>1. set' = set /\ Call("td_parse_case")
      BY <1>10, <2>5 DEF CaseStart
    <3>2. fn' \in Stacks /\ Last(fn') = "td_parse_case"
      BY <1>2, <1>3, <3>1, Calls DEF ParserFunctions, Callers
    <3> QED
      BY <1>2, <1>4, <1>8, <2>3, <3>1, <3>2, ArriveInCase
  <2> QED
    BY <2>4, <2>5
<1>11. ASSUME NEW f \in {"td_parse_environments", "td_parse_gets"}, NEW t, Call(f), set' = set,
              Starts(t), (f = "td_parse_environments" /\ t = "environments") \/ (f = "td_parse_gets" /\ t = "get")
       PROVE  ParseAt(e)' /\ Inside'
  <2>1. e.stage = 2 /\ e.box = t
    BY <1>3, <1>11, BoxMoves DEF Starts, Begins
  <2>2. e.level = "set" /\ e.s = c.s
    BY <1>3, <1>11, OtherMoves DEF Starts
  <2>3. fn' \in Stacks /\ Last(fn') = f /\ CallerOf(fn') = "td_parse_set"
    BY <1>2, <1>3, <1>11, Calls DEF ParserFunctions, Callers
  <2>4. set'.post_reboot_steps # <<>> =>
           Both \/ (set'.cases = <<>> /\ e.stage >= 1 /\ e.s \in Sets /\ e.s.reboot_steps # <<>>)
    BY <1>4, <1>11, <2>1, <2>2
  <2> QED
    BY <1>2, <1>4, <1>8, <1>11, <2>1, <2>2, <2>3, <2>4, ArriveInSet
<1>12. CASE EnvironmentsStart
  BY <1>11, <1>12 DEF EnvironmentsStart, locals
<1>13. CASE GetStart /\ Within("td_parse_set")
  BY <1>11, <1>13 DEF GetStart
<1>14. ASSUME Same(c, e), fn' = fn, set'.cases = set.cases,
              set'.post_reboot_steps = set.post_reboot_steps
       PROVE  ParseAt(e)' /\ Inside'
  <2>1. e.level = "set" /\ e.stage = c.stage /\ e.s = c.s
    BY <1>4, <1>14 DEF Same
  <2>2. set'.cases # <<>> => e.stage = 2
    BY <1>4, <1>14, <2>1
  <2>3. set'.post_reboot_steps # <<>> =>
           Both \/ (set'.cases = <<>> /\ e.stage >= 1 /\ e.s \in Sets /\ e.s.reboot_steps # <<>>)
    BY <1>4, <1>14, <2>1
  <2> QED
    BY <1>2, <1>3, <1>4, <1>8, <1>14, <2>1, <2>2, <2>3, ArriveInSet
<1>15. CASE SetDescription
  <2>1. e = c
    BY <1>3, <1>15, DefinitionMoves DEF SetDescription, Starts, Begins
  <2>2. fn' = fn /\ set'.cases = set.cases /\ set'.post_reboot_steps = set.post_reboot_steps
    BY <1>6, <1>15 DEF SetDescription, SetsOf
  <2> QED
    BY <1>14, <2>1, <2>2 DEF Same
<1>16. CASE SetOther
  <2>1. IsText \/ (Node.t = "end" /\ Node.n # "set")
    BY <1>16 DEF SetOther
  <2>2. Same(c, e)
    <3>1. CASE IsText
      BY <1>3, <3>1, TextMoves DEF IsText
    <3>2. CASE Node.t = "end" /\ Node.n # "set"
      BY <1>3, <1>4, <3>2, DefinitionMoves, OtherMoves DEF Closes
    <3> QED
      BY <2>1, <3>1, <3>2
  <2>3. fn' = fn /\ set' = set
    BY <1>16 DEF SetOther, locals
  <2> QED
    BY <1>14, <2>2, <2>3
<1> QED
  BY <1>9, <1>10, <1>12, <1>13, <1>15, <1>16

\* What holds in a list of steps and in a step of one.
LEMMA ListKeepsParse ==
  ASSUME NEW b, DataOf(b), NEW c, ParseAt(c), NEW e \in Places(Traits),
         Move(Traits, c, Node, e), InSteps \/ InListStep,
         StepStart \/ StepText \/ StepOther \/ StepEnd \/ StepsOther \/ StepsEnd
  PROVE  ParseAt(e)' /\ Inside'
<1>1. /\ doc' = doc /\ parsing_level' = parsing_level /\ suite' = suite
      /\ input # <<>>
  BY Reads DEF StepStart, StepText, StepOther, StepEnd, StepsOther, StepsEnd
<1>2. fn \in Stacks /\ c \in Places(Traits) /\ Level(c) /\ Stages(c) /\ TextsSeen(c) /\ Inside
  BY DEF ParseAt, Parse, Inside, InFile, In, InSteps, InListStep
<1>3. /\ tag \in ListTags /\ set.cases = <<>>
      /\ set.post_reboot_steps # <<>> => Both \/ tag = "post_reboot_steps"
  BY <1>2 DEF Stages
<1>4. Closable => ListsRunOn \/ c.box = tag
  BY <1>2 DEF TextsSeen
<1>5. Traits' = Traits /\ Traits.sets = Sets /\ Traits.runs_on = ListsRunOn
      /\ Traits.closable = Closable
  BY <1>1, FileStays DEF Traits
<1>6. ASSUME Stages(e)' /\ TextsSeen(e)' /\ Inside', fn' \in Stacks
      PROVE  ParseAt(e)' /\ Inside'
  BY <1>1, <1>2, <1>5, <1>6, StaysInside DEF ParseAt, Parse
<1>7. tag # "none" /\ (c.box = tag => c.box # "none" /\ c.box \in ListTags)
  BY <1>3 DEF ListTags
<1>8. CASE StepStart
  <2>1. Last(fn) = "td_parse_steps"
    <3>1. Last(fn) \in {"td_parse_steps", "td_parse_case"}
      BY <1>8, Reads DEF StepStart
    <3> QED
      BY <3>1 DEF InSteps, InListStep, In
  <2>2. /\ e.inner = (IF Node.empty THEN "no" ELSE "bare") /\ e.box = c.box
        /\ Node.empty /\ Closable => c.box = "none"
    BY <1>2, <1>5, <1>8, StepMoves DEF StepStart, Starts, Begins
  <2>3. set' = set /\ tag' = tag /\ (fn' = fn \/ (Call("td_parse_step") /\ ~EmptyStep))
    BY <1>8 DEF StepStart
  <2>4. CASE fn' = fn
    <3>1. Closable => ListsRunOn \/ e.box = tag
      BY <1>4, <2>2
    <3> QED
      BY <1>1, <1>2, <1>3, <1>6, <2>1, <2>3, <2>4, <3>1, ArriveInList
  <2>5. CASE Call("td_parse_step")
    <3>1. fn' \in Stacks /\ Last(fn') = "td_parse_step" /\ CallerOf(fn') = "td_parse_steps"
      BY <1>2, <2>1, <2>5, Calls DEF ParserFunctions, Callers
    <3>2. Closable => ListsRunOn \/ e.box = tag'
      BY <1>4, <2>2, <2>3
    <3>3. Closable => (ListsRunOn \/ e.inner # "no") /\ e.inner # "texted"
      BY <1>4, <1>7, <2>2
    <3> QED
      BY <1>1, <1>3, <1>6, <2>3, <3>1, <3>2, <3>3, ArriveInList
  <2> QED
    BY <2>3, <2>4, <2>5
<1>9. CASE StepText \/ StepOther
  <2>1. /\ Last(fn) = "td_parse_step" /\ fn' = fn /\ set' = set /\ tag' = tag
        /\ Node.t = "text" <=> StepText
        /\ ~Closes(Node, "step")
    BY <1>1, <1>9, Reads DEF StepText, StepOther, locals, IsText, Ends, Closes
  <2>2. InListStep /\ CallerOf(fn') = "td_parse_steps"
    BY <2>1 DEF InSteps, InListStep, In, Caller, CallerOf
  <2>3. Closable => (ListsRunOn \/ c.inner # "no") /\ (c.inner = "texted" => step.cmd # <<>>)
    BY <1>2, <2>2 DEF TextsSeen
  <2>4. CASE StepText
    <3>1. e.box = c.box /\ e.inner = IF c.inner = "no" THEN "no" ELSE "texted"
      BY <1>2, <2>1, <2>4, TextMoves
    <3>2. step'.cmd # <<>>
      <4>1. step \in StepsOf(b)
        BY DEF DataOf
      <4>2. step.cmd \in Seq(Words)
        BY <4>1 DEF StepsOf
      <4>3. step'.cmd = Append(step.cmd, Node.n)
        BY <2>4, <4>1 DEF StepText, StepsOf
      <4> QED
        BY <4>2, <4>3
    <3>3. Closable => ListsRunOn \/ e.box = tag'
      BY <1>4, <2>1, <3>1
    <3> QED
      BY <1>1, <1>2, <1>3, <1>6, <2>1, <2>2, <2>3, <3>1, <3>2, <3>3, ArriveInList
  <2>5. CASE StepOther
    <3>1. Node.t # "text" /\ step' = step
      BY <1>1, <2>5 DEF StepOther, IsText, locals
    <3>2. (e.inner = "texted" => c.inner = "texted") /\ ~(c.inner # "no" /\ c.box # "none")
      BY <1>2, <2>1, <3>1, StepMoves
    <3>3. Closable => ListsRunOn
      BY <1>4, <1>7, <2>3, <3>2
    <3> QED
      BY <1>1, <1>2, <1>3, <1>6, <2>1, <2>2, <2>3, <3>1, <3>2, <3>3, ArriveInList
  <2> QED
    BY <1>9, <2>4, <2>5
<1>10. CASE StepEnd
  <2>1. Last(fn) = "td_parse_step" /\ Ret /\ set' = set /\ tag' = tag
    BY <1>10, Reads DEF StepEnd
  <2>2. Caller = "td_parse_steps"
    BY <2>1 DEF InSteps, InListStep, In
  <2>3. fn' \in Stacks /\ Last(fn') = "td_parse_steps"
    BY <1>2, <2>1, <2>2, Returns DEF ParserFunctions
  <2>4. e.box = c.box
    BY <1>2, <1>10, StepMoves DEF StepEnd, Ends, Closes
  <2>5. Closable => ListsRunOn \/ e.box = tag'
    BY <1>4, <2>1, <2>4
  <2> QED
    BY <1>1, <1>3, <1>6, <2>1, <2>3, <2>5, ArriveInList
<1>11. CASE StepsOther
  <2>1. Last(fn) = "td_parse_steps" /\ fn' = fn /\ set' = set /\ tag' = tag /\ ~Closes(Node, tag)
    BY <1>1, <1>11, Reads DEF StepsOther, locals, Ends, Closes
  <2>2. Closable => ListsRunOn \/ e.box = tag'
    <3>1. c.box = tag => e.box = c.box
      BY <1>2, <1>7, <2>1, BoxMoves
    <3> QED
      BY <1>4, <2>1, <3>1
  <2> QED
    BY <1>1, <1>2, <1>3, <1>6, <2>1, <2>2, ArriveInList
<1>12. CASE StepsEnd
  <2>1. Last(fn) = "td_parse_steps" /\ Ret /\ Closes(Node, tag)
        /\ set' = [set EXCEPT ![tag] = Append(@, steps)]
    BY <1>12, Reads DEF StepsEnd, Ends, Closes
  <2>2. fn' \in Stacks /\ Last(fn') = "td_parse_set"
    <3>1. Caller = "td_parse_set"
      BY <1>2, <2>1, TopCaller DEF ParserFunctions, Callers
    <3> QED
      BY <1>2, <2>1, <3>1, Returns DEF ParserFunctions
  <2>3. /\ c.level = "set" /\ c.stage = StageOf(tag)
        /\ tag = "post_reboot_steps" => c.s \in Sets /\ c.s.reboot_steps # <<>>
    BY <1>2, <1>3, <1>5, <2>1, ListMoves
  <2>4. Same(c, e)
    <3>1. Node.t = "end" /\ Node.n \notin {"testdefinition", "suite", "set"}
      BY <1>3, <2>1 DEF Closes, ListTags
    <3> QED
      BY <1>2, <3>1, OtherMoves
  <2>5. set'.cases = <<>> /\ (tag # "post_reboot_steps" => set'.post_reboot_steps = set.post_reboot_steps)
    <3>1. set \in SetsOf(b)
      BY DEF DataOf
    <3> QED
      BY <1>3, <2>1, <3>1 DEF SetsOf, ListTags
  <2>6. set'.post_reboot_steps # <<>> =>
           Both \/ (set'.cases = <<>> /\ e.stage >= 1 /\ e.s \in Sets /\ e.s.reboot_steps # <<>>)
    <3>1. CASE tag = "post_reboot_steps"
      <4>1. e.stage = 1
        BY <2>3, <2>4, <3>1 DEF Same, StageOf
      <4> QED
        BY <2>3, <2>4, <2>5, <3>1, <4>1 DEF Same
    <3>2. CASE tag # "post_reboot_steps"
      BY <1>3, <2>5, <3>2
    <3> QED
      BY <3>1, <3>2
  <2>7. e.level = "set"
    BY <2>3, <2>4 DEF Same
  <2> QED
    BY <1>1, <1>3, <1>6, <2>2, <2>5, <2>6, <2>7, ArriveInSet
<1> QED
  BY <1>8, <1>9, <1>10, <1>11, <1>12

\* What holds in a case, its steps, events and files.
LEMMA CaseKeepsParse ==
  ASSUME NEW b, DataOf(b), NEW c, ParseAt(c), NEW e \in Places(Traits),
         Move(Traits, c, Node, e), InACase,
         StepStart \/ StepText \/ StepOther \/ StepEnd \/ (GetStart /\ Within("td_parse_case"))
           \/ CaseDescription \/ CaseOther \/ CaseEnd \/ EventStart \/ ParamStart \/ ParamText
           \/ ParamEnd \/ EventEnd \/ FileStart \/ FileText \/ GetEnd
  PROVE  ParseAt(e)' /\ Inside'
<1>1. /\ doc' = doc /\ parsing_level' = parsing_level /\ suite' = suite
      /\ input # <<>>
  BY Reads DEF StepStart, StepText, StepOther, StepEnd, CaseDescription, CaseOther, CaseEnd,
               EventStart, ParamStart, ParamText, ParamEnd, EventEnd, FileStart, FileText, GetEnd
<1>2. fn \in Stacks /\ c \in Places(Traits) /\ Level(c) /\ Stages(c) /\ TextsSeen(c) /\ Inside
  BY DEF ParseAt, Parse, Inside, InFile, In, InACase
<1>3. (set.post_reboot_steps # <<>> => Both)
  BY <1>2 DEF Stages
<1>4. Traits' = Traits /\ Traits.sets = Sets /\ Traits.closable = Closable
  BY <1>1, FileStays DEF Traits
<1>5. ASSUME Stages(e)' /\ TextsSeen(e)' /\ Inside', fn' \in Stacks
      PROVE  ParseAt(e)' /\ Inside'
  BY <1>1, <1>2, <1>4, <1>5, StaysInside DEF ParseAt, Parse
<1>6. CallerOf(fn) = Caller
  BY DEF CallerOf, Caller
<1>7. ASSUME fn' = fn, set' = set, ~In("td_parse_event_param")
      PROVE  ParseAt(e)' /\ Inside'
  <2>1. \/ Last(fn') \in {"td_parse_case", "td_parse_event"}
        \/ Last(fn') \in {"td_parse_step", "td_parse_gets"} /\ CallerOf(fn') = "td_parse_case"
    BY <1>6, <1>7 DEF InACase, In
  <2> QED
    BY <1>1, <1>2, <1>3, <1>5, <1>7, <2>1, ArriveInCase
<1>8. ASSUME NEW f \in {"td_parse_step", "td_parse_gets", "td_parse_event"}, Call(f), set' = set,
             In("td_parse_case")
      PROVE  ParseAt(e)' /\ Inside'
  <2>1. fn' \in Stacks /\ Last(fn') = f /\ CallerOf(fn') = "td_parse_case"
    BY <1>2, <1>8, Calls DEF ParserFunctions, Callers, In
  <2> QED
    BY <1>1, <1>3, <1>5, <1>8, <2>1, ArriveInCase
<1>9. ASSUME NEW f \in {"td_parse_case", "td_parse_event"}, Ret, set' = set, Caller = f,
             Last(fn) \in ParserFunctions
      PROVE  ParseAt(e)' /\ Inside'
  <2>1. fn' \in Stacks /\ Last(fn') = f
    BY <1>2, <1>9, Returns
  <2> QED
    BY <1>1, <1>3, <1>5, <1>9, <2>1, ArriveInCase
<1>10. CASE StepStart
  <2>1. set' = set /\ (fn' = fn \/ Call("td_parse_step"))
    BY <1>10 DEF StepStart
  <2>2. In("td_parse_case")
    <3>1. Last(fn) \in {"td_parse_steps", "td_parse_case"}
      BY <1>10, Reads DEF StepStart
    <3> QED
      BY <3>1 DEF InACase, In
  <2> QED
    BY <1>7, <1>8, <2>1, <2>2 DEF In
<1>11. CASE StepText \/ StepOther
  <2>1. fn' = fn /\ set' = set /\ Last(fn) = "td_parse_step"
    BY <1>11, Reads DEF StepText, StepOther, locals
  <2> QED
    BY <1>7, <2>1 DEF In
<1>12. CASE StepEnd
  <2>1. Ret /\ set' = set /\ Last(fn) = "td_parse_step"
    BY <1>12, Reads DEF StepEnd
  <2>2. Caller = "td_parse_case"
    BY <2>1 DEF InACase, In
  <2> QED
    BY <1>9, <2>1, <2>2 DEF ParserFunctions
<1>13. CASE GetStart /\ Within("td_parse_case")
  <2>1. Call("td_parse_gets") /\ set' = set /\ Last(fn) = "td_parse_case"
    BY <1>13, Reads DEF GetStart
  <2> QED
    BY <1>8, <2>1 DEF In
<1>14. CASE CaseDescription \/ CaseOther
  <2>1. fn' = fn /\ set' = set /\ Last(fn) = "td_parse_case"
    BY <1>14, Reads DEF CaseDescription, CaseOther, locals
  <2> QED
    BY <1>7, <2>1 DEF In
<1>15. CASE CaseEnd
  <2>1. Ret /\ Last(fn) = "td_parse_case" /\ Closes(Node, "case")
    BY <1>15, Reads DEF CaseEnd, Ends, Closes
  <2>2. fn' \in Stacks /\ Last(fn') = "td_parse_set"
    <3>1. Caller = "td_parse_set"
      BY <1>2, <2>1, TopCaller DEF ParserFunctions, Callers
    <3> QED
      BY <1>2, <2>1, <3>1, Returns DEF ParserFunctions
  <2>3. e.level = "set" /\ e.stage = 2
    BY <1>2, <2>1, CaseMoves
  <2>4. set'.post_reboot_steps = set.post_reboot_steps
    <3>1. set \in SetsOf(b)
      BY DEF DataOf
    <3> QED
      BY <1>15, <3>1 DEF CaseEnd, SetsOf
  <2>5. set'.post_reboot_steps # <<>> => Both
    BY <1>3, <2>4
  <2> QED
    BY <1>1, <1>3, <1>5, <2>2, <2>3, <2>5, ArriveInSet
<1>16. CASE EventStart
  <2>1. set' = set /\ (fn' = fn \/ Call("td_parse_event")) /\ Last(fn) = "td_parse_case"
    BY <1>16, Reads DEF EventStart
  <2> QED
    BY <1>7, <1>8, <2>1 DEF In
<1>17. CASE ParamStart
  <2>1. set' = set /\ Last(fn) = "td_parse_event"
        /\ IF Node.empty THEN fn' = fn ELSE Call("td_parse_event_param")
    BY <1>17, Reads DEF ParamStart
  <2>2. CASE Node.empty
    BY <1>7, <2>1, <2>2 DEF In
  <2>3. CASE ~Node.empty
    <3>1. fn' \in Stacks /\ Last(fn') = "td_parse_event_param"
      BY <1>2, <2>1, <2>3, Calls DEF ParserFunctions, Callers
    <3>2. e.inner = "bare"
      BY <1>2, <1>17, <2>3, CaseMoves DEF ParamStart, Starts, Begins
    <3> QED
      BY <1>1, <1>3, <1>5, <2>1, <3>1, <3>2, ArriveInCase
  <2> QED
    BY <2>2, <2>3
<1>18. CASE ParamText
  <2>1. /\ set' = set /\ fn' = fn /\ Last(fn) = "td_parse_event_param" /\ param' = <<Node.n>>
        /\ Node.t = "text"
    BY <1>18, Reads DEF ParamText, IsText
  <2>2. e.inner = IF c.inner = "no" THEN "no" ELSE "texted"
    BY <1>2, <2>1, TextMoves
  <2>3. Closable => c.inner # "no"
    BY <1>2, <2>1 DEF TextsSeen, In
  <2>4. param' # <<>>
    BY <2>1
  <2>5. Closable => e.inner # "no"
    BY <2>2, <2>3
  <2> QED
    BY <1>1, <1>2, <1>3, <1>5, <2>1, <2>4, <2>5, ArriveInCase
<1>19. CASE ParamEnd
  <2>1. Ret /\ set' = set /\ Last(fn) = "td_parse_event_param"
    BY <1>19, Reads DEF ParamEnd
  <2>2. Caller = "td_parse_event"
    BY <1>2, <2>1, TopCaller DEF ParserFunctions, Callers
  <2> QED
    BY <1>9, <2>1, <2>2 DEF ParserFunctions
<1>20. CASE EventEnd
  <2>1. Ret /\ set' = set /\ Last(fn) = "td_parse_event"
    BY <1>20, Reads DEF EventEnd
  <2>2. Caller = "td_parse_case"
    BY <1>2, <2>1, TopCaller DEF ParserFunctions, Callers
  <2> QED
    BY <1>9, <2>1, <2>2 DEF ParserFunctions
<1>21. CASE FileStart \/ FileText \/ GetEnd
  <2>1. Last(fn) = "td_parse_gets"
    BY <1>21, Reads DEF FileStart, FileText, GetEnd
  <2>2. Caller = "td_parse_case"
    BY <2>1 DEF InACase, In
  <2>3. set' = set /\ (fn' = fn \/ Ret)
    BY <1>21, <2>2 DEF FileStart, FileText, GetEnd, locals
  <2> QED
    BY <1>7, <1>9, <2>1, <2>2, <2>3 DEF In, ParserFunctions
<1> QED
  BY <1>10, <1>11, <1>12, <1>13, <1>14, <1>15, <1>16, <1>17, <1>18, <1>19, <1>20, <1>21

\* The environments and the files of a set.
LEMMA BoxKeepsParse ==
  ASSUME NEW b, DataOf(b), NEW c, ParseAt(c), NEW e \in Places(Traits),
         Move(Traits, c, Node, e),
         \/ EnvironmentName \/ EnvironmentValue \/ EnvironmentsEnd
         \/ InSetGets /\ (FileStart \/ FileText \/ GetEnd)
  PROVE  ParseAt(e)' /\ Inside'
<1>1. /\ doc' = doc /\ parsing_level' = parsing_level /\ suite' = suite
      /\ input # <<>>
      /\ In("td_parse_environments") \/ InSetGets
  BY Reads DEF EnvironmentName, EnvironmentValue, EnvironmentsEnd, FileStart, FileText, GetEnd, In
<1>2. fn \in Stacks /\ c \in Places(Traits) /\ Level(c) /\ Stages(c) /\ Inside
  BY <1>1 DEF ParseAt, Parse, Inside, InFile, In, InSetGets
<1>3. /\ c.level = "set" /\ (set.cases # <<>> => c.stage = 2)
      /\ set.post_reboot_steps # <<>> =>
           Both \/ (set.cases = <<>> /\ c.stage >= 1 /\ c.s \in Sets /\ c.s.reboot_steps # <<>>)
      /\ In("td_parse_environments") => c.box = "environments"
      /\ InSetGets => c.box = "get"
  BY <1>1, <1>2 DEF Stages, RebootHere
<1>4. Traits' = Traits
  BY <1>1, FileStays
<1>5. ASSUME Stages(e)' /\ TextsSeen(e)' /\ Inside', fn' \in Stacks
      PROVE  ParseAt(e)' /\ Inside'
  BY <1>1, <1>2, <1>4, <1>5, StaysInside DEF ParseAt, Parse
<1>6. CallerOf(fn) = Caller
  BY DEF CallerOf, Caller
<1>7. set \in SetsOf(b)
  BY DEF DataOf
<1>8. set'.cases = set.cases /\ set'.post_reboot_steps = set.post_reboot_steps
  <2>1. EnvironmentValue => set' = set \/ \E v : set' = [set EXCEPT !.environments = v]
    BY DEF EnvironmentValue
  <2>2. FileText => \E v : set' = [set EXCEPT !.gets = v]
    BY <1>1, <1>2 DEF FileText, InSetGets, In, Reads, Within
  <2>3. EnvironmentName \/ EnvironmentsEnd \/ FileStart \/ GetEnd => set' = set
    BY DEF EnvironmentName, EnvironmentsEnd, FileStart, GetEnd, locals
  <2> QED
    BY <1>7, <2>1, <2>2, <2>3 DEF SetsOf
<1>9. ASSUME Same(c, e), \/ fn' = fn /\ e.box = c.box
                         \/ fn' \in Stacks /\ Last(fn') = "td_parse_set"
      PROVE  ParseAt(e)' /\ Inside'
  <2>1. e.level = "set" /\ e.stage = c.stage /\ e.s = c.s
    BY <1>3, <1>9 DEF Same
  <2>2. set'.cases # <<>> => e.stage = 2
    BY <1>3, <1>8, <2>1
  <2>3. set'.post_reboot_steps # <<>> =>
           Both \/ (set'.cases = <<>> /\ e.stage >= 1 /\ e.s \in Sets /\ e.s.reboot_steps # <<>>)
    BY <1>3, <1>8, <2>1
  <2>4. CASE fn' = fn /\ e.box = c.box
    <3>1. \/ Last(fn') \in {"td_parse_set", "td_parse_environments"}
          \/ Last(fn') = "td_parse_gets" /\ CallerOf(fn') = "td_parse_set"
      BY <1>1, <1>6, <2>4 DEF InSetGets, In
    <3>2. /\ Last(fn') = "td_parse_environments" => e.box = "environments"
          /\ Last(fn') = "td_parse_gets" => e.box = "get"
      BY <1>1, <1>3, <2>4 DEF InSetGets, In
    <3> QED
      BY <1>1, <1>2, <1>3, <1>5, <2>1, <2>2, <2>3, <2>4, <3>1, <3>2, ArriveInSet
  <2>5. CASE fn' \in Stacks /\ Last(fn') = "td_parse_set"
    BY <1>1, <1>3, <1>5, <2>1, <2>2, <2>3, <2>5, ArriveInSet
  <2> QED
    BY <1>9, <2>4, <2>5
<1>10. ~Closes(Node, c.box) => Same(c, e) /\ e.box = c.box
  BY <1>1, <1>2, <1>3, BoxMoves
<1>11. CASE EnvironmentName \/ EnvironmentValue \/ FileStart \/ FileText
  <2>1. fn' = fn /\ Node.t # "end"
    BY <1>11 DEF EnvironmentName, EnvironmentValue, FileStart, FileText, IsText
  <2> QED
    BY <1>9, <1>10, <2>1 DEF Closes
<1>12. CASE EnvironmentsEnd \/ GetEnd
  <2>1. Node.t = "end" /\ IF Node.n = c.box THEN Ret ELSE fn' = fn
    <3>1. EnvironmentsEnd => In("td_parse_environments")
      BY Reads DEF EnvironmentsEnd, In
    <3>2. GetEnd => InSetGets
      <4>1. GetEnd => Last(fn) = "td_parse_gets"
        BY Reads DEF GetEnd
      <4> QED
        BY <1>1, <4>1 DEF In
    <3> QED
      BY <1>3, <1>12, <3>1, <3>2 DEF EnvironmentsEnd, GetEnd
  <2>2. CASE Node.n = c.box
    <3>1. Same(c, e)
      <4>1. Node.n \notin {"testdefinition", "suite", "set"}
        BY <1>1, <1>3, <2>2
      <4> QED
        BY <1>2, <2>1, <4>1, OtherMoves
    <3>2. Last(fn) \in ParserFunctions /\ Caller = "td_parse_set"
      BY <1>1, <1>2, TopCaller DEF InSetGets, In, ParserFunctions, Callers
    <3>3. fn' \in Stacks /\ Last(fn') = "td_parse_set"
      BY <1>2, <2>1, <2>2, <3>2, Returns
    <3> QED
      BY <1>9, <3>1, <3>3
  <2>3. CASE Node.n # c.box
    BY <1>9, <1>10, <2>1, <2>3 DEF Closes
  <2> QED
    BY <2>2, <2>3
<1> QED
  BY <1>11, <1>12

-----------------------------------------------------------------------------
(* The parser between the sets.                                             *)

\* So outside all sets.
LEMMA ArriveOutside ==
  ASSUME NEW e, Last(fn') \in {"td_process", "td_parse_hwiddetect", "finished", "crashed"},
         Last(fn') = "crashed" => DetectorIsMisread' \/ Both'
  PROVE  Stages(e)' /\ TextsSeen(e)'
<1>1. /\ ~InACase' /\ ~InSetGets' /\ ~InSteps' /\ ~InListStep' /\ ~In("td_parse_set")'
      /\ ~In("td_parse_event_param")' /\ ~In("td_parse_environments")'
  BY DEF InACase, InSetGets, InSteps, InListStep, In
<1>2. Stages(e)'
  BY <1>1 DEF Stages, In
<1> QED
  BY <1>1, <1>2 DEF TextsSeen

\* The actions of td_process() and of the hwiddetect keep where the parser is.
LEMMA LoopKeepsParse ==
  ASSUME NEW b, DataOf(b), NEW c, ParseAt(c), NEW e \in Places(Traits),
         Move(Traits, c, Node, e),
         TestDefinitionStart \/ TestDefinitionEnd \/ Hwiddetect \/ DescriptionNode
           \/ SuiteStart \/ SuiteEnd \/ SetStart \/ OtherNode \/ DetectorText \/ HwidDetected
  PROVE  ParseAt(e)'
<1>1. doc' = doc
  BY DEF TestDefinitionStart, TestDefinitionEnd, Hwiddetect, DescriptionNode, SuiteStart,
         SuiteEnd, SetStart, OtherNode, DetectorText, HwidDetected
<1>2. /\ fn \in Stacks /\ c \in Places(Traits) /\ Level(c) /\ Stages(c) /\ suite \in Suites
  BY DEF ParseAt, Parse, DataOf, Stages
<1>3. Traits' = Traits /\ Both' = Both
  BY <1>1, FileStays
<1>4. fn' \in Stacks /\ Level(e)'
  <2>1. CASE DetectorText \/ HwidDetected
    BY <1>2, <2>1, DetectorKeepsLevel
  <2>2. CASE ~(DetectorText \/ HwidDetected)
    BY <1>2, <2>2, LoopKeepsLevel
  <2> QED
    BY <2>1, <2>2
<1>5. ASSUME Stages(e)' /\ TextsSeen(e)'
      PROVE  ParseAt(e)'
  BY <1>3, <1>4, <1>5 DEF ParseAt, Parse
<1>6. CASE ~SetStart
  <2>1. Last(fn') \in {"td_process", "td_parse_hwiddetect"}
    <3>1. Last(fn) \in {"td_process", "td_parse_hwiddetect"}
      BY <1>2, <1>6, StackTops DEF TestDefinitionStart, TestDefinitionEnd, Hwiddetect, DescriptionNode, SuiteStart,
         SuiteEnd, OtherNode, DetectorText, HwidDetected, InLoop, Loop, In
    <3>2. CASE fn' = fn
      BY <3>1, <3>2
    <3>3. CASE Hwiddetect
      <4>1. Call("td_parse_hwiddetect") /\ Last(fn) = "td_process"
        BY <1>2, <3>3, StackTops DEF Hwiddetect, InLoop, Loop
      <4> QED
        BY <1>2, <4>1, Calls DEF ParserFunctions, Callers
    <3>4. CASE HwidDetected
      <4>1. Ret /\ Last(fn) = "td_parse_hwiddetect"
        BY <3>4 DEF HwidDetected, In
      <4> QED
        BY <1>2, <4>1, Returns DEF ParserFunctions, Callers
    <3> QED
      BY <1>6, <3>2, <3>3, <3>4 DEF TestDefinitionStart, TestDefinitionEnd, DescriptionNode,
         SuiteStart, SuiteEnd, OtherNode, DetectorText
  <2> QED
    BY <1>5, <2>1, ArriveOutside
<1>7. CASE SetStart
  <2>1. Last(fn) = "td_process"
    BY <1>2, <1>7, StackTops DEF SetStart, InLoop, Loop
  <2>2. set'.cases = <<>> /\ set'.post_reboot_steps = <<>>
    BY <1>7 DEF SetStart, NewSet
  <2>3. CASE Node.empty
    <3>1. fn' = fn
      BY <1>7, <2>3 DEF SetStart
    <3> QED
      BY <1>5, <2>1, <3>1, ArriveOutside
  <2>4. CASE ~Node.empty
    <3>1. Call("td_parse_set")
      BY <1>7, <2>4 DEF SetStart
    <3>2. Last(fn') = "td_parse_set"
      BY <1>2, <2>1, <3>1, Calls DEF ParserFunctions, Callers
    <3>3. e.level = "set"
      <4>1. \E s \in Traits.sets : e = Place("set", s, 0, "none", "no")
        BY <1>2, <1>7, <2>4, DefinitionMoves DEF SetStart, Starts, Begins
      <4> QED
        BY <4>1 DEF Place
    <3> QED
      BY <1>1, <1>2, <1>5, <2>2, <3>1, <3>2, <3>3, ArriveInSet
  <2> QED
    BY <2>3, <2>4
<1> QED
  BY <1>6, <1>7

\* So do those that leave the set and the file.
LEMMA LeavingKeepsParse ==
  ASSUME NEW b, DataOf(b), NEW c, ParseAt(c), NEW e \in Places(Traits),
         Move(Traits, c, Node, e)
  PROVE  /\ SuiteEndWithoutSuite => ParseAt(c)'
         /\ SetEnd => ParseAt(e)'
<1>1. fn \in Stacks /\ c \in Places(Traits) /\ Level(c) /\ Stages(c)
  BY DEF ParseAt, Parse
<1>2. ASSUME SuiteEndWithoutSuite PROVE ParseAt(c)'
  <2>1. doc' = doc /\ input # <<>> /\ fn' = <<"crashed">>
    BY <1>2 DEF SuiteEndWithoutSuite, Ends
  <2>2. Traits' = Traits /\ DetectorIsMisread' = DetectorIsMisread
    BY <2>1, FileStays
  <2>3. fn' \in Stacks /\ Level(c)' /\ DetectorIsMisread
    BY <1>1, <1>2, <2>1, LeavingKeepsLevel
  <2>4. Last(fn') = "crashed"
    BY <2>1, <2>3, StackTops
  <2>5. Stages(c)' /\ TextsSeen(c)'
    BY <2>2, <2>3, <2>4, ArriveOutside
  <2> QED
    BY <1>1, <2>2, <2>3, <2>5 DEF ParseAt, Parse
<1>3. ASSUME SetEnd PROVE ParseAt(e)'
  <2>1. /\ doc' = doc /\ In("td_parse_set") /\ Last(fn) = "td_parse_set"
        /\ Ret \/ (fn' = <<"crashed">> /\ FreedTwice(set'))
    BY <1>3 DEF SetEnd, In, AfterDelete, Ret
  <2>2. Traits' = Traits /\ Both' = Both
    BY <2>1, FileStays
  <2>3. fn' \in Stacks /\ Level(e)'
    BY <1>1, <1>3, LeavingKeepsLevel
  <2>4. Last(fn') = "td_process" \/ (Last(fn') = "crashed" /\ FreedTwice(set'))
    <3>1. CASE Ret
      BY <1>1, <2>1, <3>1, Returns DEF ParserFunctions, Callers
    <3>2. CASE fn' = <<"crashed">> /\ FreedTwice(set')
      BY <2>3, <3>2, StackTops
    <3> QED
      BY <2>1, <3>1, <3>2
  <2>5. FreedTwice(set') => Both
    <3>1. SUFFICES ASSUME ~Both PROVE ~FreedTwice(set')
      OBVIOUS
    <3>2. set.cases \in Seq(ParsedCases(b)) /\ set \in SetsOf(b)
      BY <2>1 DEF DataOf, SetIsParsed, Inside, InFile, In
    <3>3. PICK n \in CasesWalked(set) : set' = Shared(set, n)
      BY <1>3 DEF SetEnd
    <3>4. set.post_reboot_steps = <<>> \/ set.cases = <<>>
      BY <1>1, <2>1, <3>1 DEF Stages, RebootHere
    <3>5. n = 0
      BY <3>3, <3>4 DEF CasesWalked
    <3>6. set'.cases = [i \in DOMAIN set.cases |->
             IF i > 0 THEN set.cases[i]
             ELSE [set.cases[i] EXCEPT !.reboot = set.post_reboot_steps, !.shared = TRUE]]
      BY <3>2, <3>3, <3>5 DEF Shared, SetsOf
    <3>7. \A i \in DOMAIN set.cases : i > 0 /\ ~set.cases[i].shared
      BY <3>2 DEF ParsedCases
    <3> QED
      BY <3>6, <3>7 DEF FreedTwice
  <2>6. Stages(e)' /\ TextsSeen(e)'
    BY <2>2, <2>4, <2>5, ArriveOutside
  <2> QED
    BY <1>1, <2>2, <2>3, <2>6 DEF ParseAt, Parse
<1> QED
  BY <1>2, <1>3

\* So does the end of the file.
LEMMA EndKeepsParse ==
  ASSUME NEW c, ParseAt(c), EndOfFile
  PROVE  ParseAt(c)'
<1>1. fn \in Stacks /\ c \in Places(Traits) /\ Level(c)
  BY DEF ParseAt, Parse
<1>2. doc' = doc /\ fn' = <<"finished">>
  BY DEF EndOfFile
<1>3. Traits' = Traits
  BY <1>2, FileStays
<1>4. fn' \in Stacks /\ Level(c)'
  BY <1>1, LeavingKeepsLevel
<1>5. Last(fn') = "finished"
  BY <1>2, <1>4, StackTops
<1>6. Stages(c)' /\ TextsSeen(c)'
  BY <1>5, ArriveOutside
<1> QED
  BY <1>1, <1>3, <1>4, <1>6 DEF ParseAt, Parse

-----------------------------------------------------------------------------
(* What the parser makes of the tokens.                                     *)

\* What a node of the file holds.
LEMMA TokenData ==
  ASSUME NEW c, NEW e, Move(Traits, c, Node, e)
  PROVE  /\ Node \in Tokens /\ \A x \in DOMAIN Node.a : Node.a[x] \in Values
         /\ Node.t = "text" => Node.n \in Words
<1>1. IsToken(Node)
  BY DEF Move
<1>2. Node \in Tokens
  BY <1>1 DEF IsToken
<1>3. Node.a \in Attributes
  BY <1>2 DEF Tokens
<1>4. PICK D \in SUBSET AttributeNames : Node.a \in [D -> Values]
  BY <1>3 DEF Attributes
<1> QED
  BY <1>1, <1>2, <1>4 DEF IsToken

\* The attribute of a node, or its default, is a value.
LEMMA ValueIs ==
  ASSUME NEW c, NEW e, Move(Traits, c, Node, e), NEW k, NEW v \in Values
  PROVE  ValueOr(k, v) \in Values
BY TokenData DEF ValueOr

\* The values the parser gives by itself.
LEMMA ValuesAre == NULL \in Values /\ FALSE \in Values /\ TRUE \in Values /\ {} \in Values
BY DEF Values, NULL

\* A structure as it is made: without a name.
LEMMA NoGenIs == NoGen \in Gens /\ NoGen.name = NULL
<1>1. ASSUME NEW k \in GenAttributes
      PROVE  (CASE k = "manual" -> FALSE [] k \in ListNames -> {} [] OTHER -> NULL) \in Values
  BY ValuesAre
<1>2. "name" \in GenAttributes /\ "name" \notin ListNames
  BY DEF GenAttributes, ListNames
<1>3. NoGen \in Gens
  BY <1>1 DEF NoGen, Gens
<1> QED
  BY <1>2, <1>3 DEF NoGen

\* What td_parse_gen_attribs() makes of a node: only the node gives a name.
LEMMA GenParsed ==
  ASSUME NEW c, NEW e, Move(Traits, c, Node, e), NEW g \in Gens
  PROVE  /\ td_parse_gen_attribs(g) \in Gens
         /\ td_parse_gen_attribs(g).name
              = IF "name" \in DOMAIN Node.a THEN Node.a["name"] ELSE NULL
<1>1. "name" \in GenAttributes
  BY DEF GenAttributes
<1>2. ASSUME NEW k \in GenAttributes
      PROVE  ValueOr(k, IF k = "name" THEN NoGen.name ELSE g[k]) \in Values
  <2>1. (IF k = "name" THEN NoGen.name ELSE g[k]) \in Values
    BY NoGenIs, ValuesAre DEF Gens
  <2> QED
    BY <2>1, ValueIs
<1>3. td_parse_gen_attribs(g) \in Gens
  BY <1>2 DEF td_parse_gen_attribs, Gens
<1> QED
  BY <1>1, <1>3, NoGenIs DEF td_parse_gen_attribs, ValueOr

\* The structures as they are made have their types.
LEMMA NewData ==
  ASSUME NEW b, NEW g \in Gens, NEW m \in Values
  PROVE  /\ NewSet(g) \in SetsOf(b) /\ NewSet(g).cases = <<>> /\ NewSet(g).pre_steps = <<>>
         /\ NewSet(g).gen = g
         /\ NewCase(g) \in ParsedCases(b) /\ NewStep(m) \in StepsOf(b) /\ NewFile \in FilesOf
         /\ NoTd \in Definitions /\ Nowhere \in Suites
<1>1. /\ <<>> \in Lists(b) /\ <<>> \in Seq(CasesOf(b)) /\ <<>> \in Seq(FilesOf)
      /\ <<>> \in Seq(StepsOf(b)) /\ <<>> \in Seq(Filled(b)) /\ <<>> \in Seq(Words)
  BY DEF Lists
<1>2. NewSet(g) \in SetsOf(b) /\ NewSet(g).cases = <<>> /\ NewSet(g).pre_steps = <<>>
      /\ NewSet(g).gen = g
  BY <1>1 DEF NewSet, SetsOf
<1>3. NewCase(g) \in ParsedCases(b)
  BY <1>1 DEF NewCase, CasesOf, ParsedCases
<1>4. NewStep(m) \in StepsOf(b)
  BY <1>1, ValuesAre DEF NewStep, StepsOf, NoText
<1>5. NewFile \in FilesOf
  BY ValuesAre DEF NewFile, FilesOf
<1>6. NoTd \in Definitions /\ Nowhere \in Suites
  BY <1>1, NoGenIs DEF NoTd, Nowhere, Definitions, Suites, NoText
<1> QED
  BY <1>2, <1>3, <1>4, <1>5, <1>6

\* The name of a set is that of its element.
LEMMA SetNameIs ==
  ASSUME NEW s
  PROVE  Attr("name", <<s>>) = IF "name" \in DOMAIN s.a THEN s.a["name"] ELSE NULL
<1> DEFINE having == {i \in DOMAIN <<s>> : "name" \in DOMAIN <<s>>[i].a}
<1>1. DOMAIN <<s>> = {1} /\ <<s>>[1] = s
  OBVIOUS
<1>2. CASE "name" \in DOMAIN s.a
  <2>1. having = {1}
    BY <1>1, <1>2
  <2>2. (CHOOSE i \in having : \A j \in having : i <= j) = 1
    BY <2>1
  <2> QED
    BY <1>1, <1>2, <2>1, <2>2 DEF Attr
<1>3. CASE "name" \notin DOMAIN s.a
  <2>1. having = {}
    BY <1>1, <1>3
  <2> QED
    BY <1>3, <2>1, NoGenIs DEF Attr
<1> QED
  BY <1>2, <1>3

\* The name of a set read is that of a set of the file.
LEMMA NameIsOfSet ==
  ASSUME NEW s \in Sets
  PROVE  (IF "name" \in DOMAIN s.a THEN s.a["name"] ELSE NULL) \in SetNames
<1>1. Attr("name", <<s>>) = IF "name" \in DOMAIN s.a THEN s.a["name"] ELSE NULL
  BY SetNameIs
<1> QED
  BY <1>1 DEF SetNames

\* process_set() adds the set to those whose pre steps failed, or does not.
LEMMA SetsAborted ==
  ASSUME NEW s, process_set(s)
  PROVE  aborted' = aborted \/ (s.pre_steps # <<>> /\ aborted' = aborted \cup {s.gen.name})
<1>1. CASE SkipSet(s)
  BY <1>1 DEF SkipSet
<1>2. CASE RunSet(s)
  BY <1>2 DEF RunSet
<1> QED
  BY <1>1, <1>2 DEF process_set

\* The data when the loop has read a node.
LEMMA LoopKeepsData ==
  ASSUME NEW b, DataOf(b), fn \in Stacks, NEW c, NEW e, Move(Traits, c, Node, e),
         TestDefinitionStart \/ TestDefinitionEnd \/ Hwiddetect \/ DescriptionNode
           \/ SuiteStart \/ SuiteEnd \/ OtherNode \/ DetectorText \/ HwidDetected
  PROVE  DataOf(b)'
<1>1. /\ doc' = doc /\ set' = set /\ case' = case /\ step' = step /\ steps' = steps /\ tag' = tag
      /\ file' = file /\ param' = param /\ aborted' = aborted
  BY DEF TestDefinitionStart, TestDefinitionEnd, Hwiddetect, DescriptionNode, SuiteStart,
         SuiteEnd, OtherNode, DetectorText, HwidDetected, locals
<1>2. SetNames' = SetNames
  BY <1>1, FileStays
<1>3. ~Inside'
  <2>1. Last(fn') \in {"td_process", "td_parse_hwiddetect"}
    <3>1. Last(fn) \in {"td_process", "td_parse_hwiddetect"}
      BY StackTops DEF TestDefinitionStart, TestDefinitionEnd, Hwiddetect, DescriptionNode,
         SuiteStart, SuiteEnd, OtherNode, DetectorText, HwidDetected, InLoop, Loop, In
    <3>2. CASE fn' = fn
      BY <3>1, <3>2
    <3>3. CASE Hwiddetect
      <4>1. Call("td_parse_hwiddetect") /\ Last(fn) = "td_process"
        BY <3>3, StackTops DEF Hwiddetect, InLoop, Loop
      <4> QED
        BY <4>1, Calls DEF ParserFunctions, Callers
    <3>4. CASE HwidDetected
      <4>1. Ret /\ Last(fn) = "td_parse_hwiddetect"
        BY <3>4 DEF HwidDetected, In
      <4> QED
        BY <4>1, Returns DEF ParserFunctions, Callers
    <3> QED
      BY <3>2, <3>3, <3>4 DEF TestDefinitionStart, TestDefinitionEnd, DescriptionNode,
         SuiteStart, SuiteEnd, OtherNode, DetectorText
  <2> QED
    BY <2>1 DEF Inside, InFile, In
<1>4. td \in Definitions /\ Len(td.hw_detector) \in 0..1 /\ suite \in Suites
  BY DEF DataOf
<1>5. td' \in Definitions /\ Len(td'.hw_detector) \in 0..1
  <2>1. CASE TestDefinitionStart
    <3>1. td' = NoTd
      BY <2>1 DEF TestDefinitionStart
    <3>2. NoTd \in Definitions /\ Len(NoTd.hw_detector) = 0
      BY NewData, NoGenIs, ValuesAre DEF NoTd, NoText
    <3> QED
      BY <3>1, <3>2
  <2>2. CASE DescriptionNode
    <3>1. td' = td \/ td' = [td EXCEPT !.described = TRUE]
      BY <2>2 DEF DescriptionNode
    <3> QED
      BY <1>4, <3>1 DEF Definitions
  <2>3. CASE DetectorText
    <3>1. td' = td \/ (IsText /\ td' = [td EXCEPT !.hw_detector = <<Node.n>>])
      BY <2>3 DEF DetectorText
    <3>2. IsText => <<Node.n>> \in Seq(Words) /\ Len(<<Node.n>>) = 1
      BY TokenData DEF IsText
    <3>3. CASE IsText /\ td' = [td EXCEPT !.hw_detector = <<Node.n>>]
      <4> DEFINE v == <<Node.n>>
      <4>1. v \in Seq(Words) /\ Len(v) = 1
        BY <3>2, <3>3
      <4> HIDE DEF v
      <4>2. [td EXCEPT !.hw_detector = v] \in Definitions /\ [td EXCEPT !.hw_detector = v].hw_detector = v
        BY <1>4, <4>1 DEF Definitions
      <4>3. td' = [td EXCEPT !.hw_detector = v]
        BY <3>3 DEF v
      <4> QED
        BY <4>1, <4>2, <4>3
    <3> QED
      BY <1>4, <3>1, <3>3
  <2>4. CASE HwidDetected
    <3>1. \E hw \in {NULL, "n900"} : td' = [td EXCEPT !.detected_hw = hw]
      BY <2>4 DEF HwidDetected
    <3> QED
      BY <1>4, <3>1 DEF Definitions
  <2>5. CASE TestDefinitionEnd \/ Hwiddetect \/ SuiteStart \/ SuiteEnd \/ OtherNode
    <3>1. td' = td
      BY <2>5 DEF TestDefinitionEnd, Hwiddetect, SuiteStart, SuiteEnd, OtherNode
    <3> QED
      BY <1>4, <3>1
  <2> QED
    BY <2>1, <2>2, <2>3, <2>4, <2>5
<1>6. suite' \in Suites
  <2>1. CASE SuiteStart
    <3>1. suite' = Nowhere
          \/ suite' = [gen |-> td_parse_gen_attribs(NoGen), described |-> FALSE, live |-> TRUE]
      BY <2>1 DEF SuiteStart
    <3>2. td_parse_gen_attribs(NoGen) \in Gens
      BY NoGenIs, GenParsed
    <3>3. Nowhere \in Suites
      BY NewData, NoGenIs, ValuesAre
    <3> DEFINE g == td_parse_gen_attribs(NoGen)
    <3> HIDE DEF g
    <3>4. [gen |-> g, described |-> FALSE, live |-> TRUE] \in Suites
      BY <3>2 DEF Suites, g
    <3> QED
      BY <3>1, <3>3, <3>4 DEF g
  <2>2. CASE DescriptionNode
    <3>1. suite' = suite \/ suite' = [suite EXCEPT !.described = TRUE]
      BY <2>2 DEF DescriptionNode
    <3> QED
      BY <1>4, <3>1 DEF Suites
  <2>3. CASE SuiteEnd
    BY <2>3, NewData, NoGenIs, ValuesAre DEF SuiteEnd
  <2>4. CASE TestDefinitionStart \/ TestDefinitionEnd \/ Hwiddetect \/ OtherNode \/ DetectorText
               \/ HwidDetected
    <3>1. suite' = suite
      BY <2>4 DEF TestDefinitionStart, TestDefinitionEnd, Hwiddetect, OtherNode, DetectorText,
                  HwidDetected
    <3> QED
      BY <1>4, <3>1
  <2> QED
    BY <2>1, <2>2, <2>3, <2>4
<1> QED
  BY <1>1, <1>2, <1>3, <1>5, <1>6 DEF DataOf

\* ... when a set is begun or ended, and when the loop is left.
LEMMA SetKeepsData ==
  ASSUME NEW b, DataOf(b), fn \in Stacks, NEW c \in Places(Traits), NEW e, Move(Traits, c, Node, e),
         SetStart \/ SetEnd
  PROVE  DataOf(b)'
<1>1. /\ doc' = doc /\ case' = case /\ step' = step /\ steps' = steps /\ tag' = tag
      /\ file' = file /\ param' = param /\ td' = td /\ suite' = suite
  BY DEF SetStart, SetEnd
<1>2. SetNames' = SetNames
  BY <1>1, FileStays
<1>3. /\ td \in Definitions /\ Len(td.hw_detector) \in 0..1 /\ suite \in Suites
      /\ set \in SetsOf(b) /\ aborted \subseteq SetNames
      /\ case \in ParsedCases(b) /\ step \in StepsOf(b) /\ steps \in Seq(ListSteps(b))
      /\ tag \in ListTags \cup {NULL} /\ file \in FilesOf /\ param \in Seq(Words)
  BY DEF DataOf
<1>4. CASE SetStart
  <2> DEFINE g == td_parse_gen_attribs(suite.gen)
  <2>1. set' = NewSet(g)
    BY <1>4 DEF SetStart
  <2>2. g \in Gens /\ g.name = IF "name" \in DOMAIN Node.a THEN Node.a["name"] ELSE NULL
    <3>1. suite.gen \in Gens
      BY <1>3 DEF Suites
    <3> QED
      BY <3>1, GenParsed
  <2>3. g.name \in SetNames
    <3>1. PICK s \in Traits.sets : Node.a = s.a
      BY <1>4, DefinitionMoves DEF SetStart, Starts, Begins
    <3>2. s \in Sets
      BY DEF Traits
    <3> QED
      BY <2>2, <3>1, <3>2, NameIsOfSet
  <2> HIDE DEF g
  <2>4. /\ set' \in SetsOf(b) /\ set'.cases = <<>> /\ set'.pre_steps = <<>>
        /\ set'.gen.name \in SetNames
    BY <2>1, <2>2, <2>3, NewData, ValuesAre
  <2>5. aborted' = aborted
    <3>1. CASE Node.empty
      <4>1. process_set(set')
        BY <1>4, <3>1 DEF SetStart
      <4> QED
        BY <2>4, <4>1, SetsAborted
    <3>2. CASE ~Node.empty
      BY <1>4, <3>2 DEF SetStart
    <3> QED
      BY <3>1, <3>2
  <2>6. SetIsParsed(b)'
    <3>1. set'.cases \in Seq(ParsedCases(b))
      BY <2>4
    <3> QED
      BY <1>2, <2>4, <3>1 DEF SetIsParsed
  <2> QED
    BY <1>1, <1>2, <1>3, <2>4, <2>5, <2>6 DEF DataOf
<1>5. CASE SetEnd
  <2>1. In("td_parse_set") /\ process_set(set')
    BY <1>5 DEF SetEnd
  <2>0. PICK n \in CasesWalked(set) : set' = Shared(set, n)
    BY <1>5 DEF SetEnd
  <2>2. SetIsParsed(b)
    BY <2>1 DEF DataOf, Inside, InFile, In
  <2>3. ~Inside'
    <3>1. Ret \/ fn' = <<"crashed">>
      BY <1>5 DEF SetEnd, AfterDelete, Ret
    <3>2. <<"crashed">> \in Stacks
      BY DEF Stacks
    <3>3. Last(fn') = "td_process" \/ Last(fn') = "crashed"
      BY <2>1, <3>1, <3>2, Returns, StackTops DEF In, ParserFunctions, Callers
    <3> QED
      BY <3>3 DEF Inside, InFile, In
  <2>4. set' \in SetsOf(b) /\ set'.gen = set.gen
    <3> DEFINE cs == [i \in DOMAIN set.cases |->
                        IF i > n THEN set.cases[i]
                        ELSE [set.cases[i] EXCEPT !.reboot = set.post_reboot_steps, !.shared = TRUE]]
    <3>1. set' = [set EXCEPT !.cases = cs]
      BY <2>0 DEF Shared
    <3>2. set.cases \in Seq(CasesOf(b)) /\ set.post_reboot_steps \in Lists(b)
      BY <1>3 DEF SetsOf
    <3>3. DOMAIN set.cases = 1..Len(set.cases) /\ Len(set.cases) \in Nat
      BY <3>2
    <3>4. \A i \in DOMAIN set.cases :
             /\ set.cases[i] \in CasesOf(b)
             /\ [set.cases[i] EXCEPT !.reboot = set.post_reboot_steps, !.shared = TRUE] \in CasesOf(b)
      <4> TAKE i \in DOMAIN set.cases
      <4>1. set.cases[i] \in CasesOf(b)
        BY <3>2
      <4> QED
        BY <3>2, <4>1 DEF CasesOf
    <3>5. cs \in Seq(CasesOf(b))
      <4>1. cs \in [1..Len(set.cases) -> CasesOf(b)]
        BY <3>3, <3>4
      <4> HIDE DEF cs
      <4> QED
        BY <3>3, <4>1
    <3> HIDE DEF cs
    <3> QED
      BY <1>3, <3>1, <3>5 DEF SetsOf
  <2>5. aborted' \subseteq SetNames
    BY <1>3, <2>1, <2>2, <2>4, SetsAborted DEF SetIsParsed
  <2> QED
    BY <1>1, <1>2, <1>3, <2>3, <2>4, <2>5 DEF DataOf
<1> QED
  BY <1>4, <1>5

\* The actions that end the reading keep the types of the data.
LEMMA LeavingKeepsData ==
  ASSUME NEW b, DataOf(b), fn \in Stacks, SuiteEndWithoutSuite \/ EndOfFile
  PROVE  DataOf(b)'
<1>1. /\ doc' = doc /\ td' = td /\ suite' = suite /\ locals' = locals /\ aborted' = aborted
  BY DEF SuiteEndWithoutSuite, EndOfFile
<1>2. SetNames' = SetNames
  BY <1>1, FileStays
<1>3. ~Inside'
  <2>1. fn' \in {<<"crashed">>, <<"finished">>}
    BY DEF SuiteEndWithoutSuite, EndOfFile
  <2>2. fn' \in Stacks
    BY <2>1 DEF Stacks
  <2>3. Last(fn') \in {"crashed", "finished"}
    BY <2>1, <2>2, StackTops
  <2> QED
    BY <2>3 DEF Inside, InFile, In
<1> QED
  BY <1>1, <1>2, <1>3 DEF DataOf, locals

\* The locals of the parser's functions.
Locals(b) ==
  /\ set \in SetsOf(b) /\ set.gen.name \in SetNames /\ set.cases \in Seq(ParsedCases(b))
  /\ case \in ParsedCases(b) /\ step \in StepsOf(b) /\ steps \in Seq(ListSteps(b))
  /\ tag \in ListTags \cup {NULL} /\ file \in FilesOf /\ param \in Seq(Words)

\* Inside a set, the locals have their types.
LEMMA LocalsAre == ASSUME NEW b, DataOf(b), Inside PROVE Locals(b)
BY DEF DataOf, SetIsParsed, Locals

\* An action inside a set keeps the types of the data if it does of the locals.
LEMMA ReadsData ==
  ASSUME NEW b, NEW f, Within(f), DataOf(b), Locals(b)'
  PROVE  DataOf(b)'
<1>1. doc' = doc /\ td' = td /\ suite' = suite /\ aborted' = aborted
  BY DEF Within
<1>2. SetNames' = SetNames
  BY <1>1, FileStays
<1> QED
  BY <1>1, <1>2 DEF DataOf, SetIsParsed, Locals

\* What the parser changes of a set keeps the type of it.
LEMMA UpdatedSets ==
  ASSUME NEW b, NEW s \in SetsOf(b)
  PROVE  /\ [s EXCEPT !.described = TRUE] \in SetsOf(b)
         /\ \A v \in SUBSET {"hardware", "scratchbox"} : [s EXCEPT !.environments = v] \in SetsOf(b)
         /\ \A v \in Seq(FilesOf) : [s EXCEPT !.gets = v] \in SetsOf(b)
         /\ \A v \in Seq(CasesOf(b)) :
              [s EXCEPT !.cases = v] \in SetsOf(b) /\ [s EXCEPT !.cases = v].cases = v
         /\ \A t \in ListTags, v \in Lists(b) : [s EXCEPT ![t] = v] \in SetsOf(b)
<1>1. /\ [s EXCEPT !.described = TRUE] \in SetsOf(b)
      /\ \A v \in SUBSET {"hardware", "scratchbox"} : [s EXCEPT !.environments = v] \in SetsOf(b)
  BY DEF SetsOf
<1>2. ASSUME NEW v \in Seq(FilesOf) PROVE [s EXCEPT !.gets = v] \in SetsOf(b)
  BY DEF SetsOf
<1>3. ASSUME NEW v \in Seq(CasesOf(b))
      PROVE  [s EXCEPT !.cases = v] \in SetsOf(b) /\ [s EXCEPT !.cases = v].cases = v
  BY DEF SetsOf
<1>4. ASSUME NEW t \in ListTags, NEW v \in Lists(b) PROVE [s EXCEPT ![t] = v] \in SetsOf(b)
  <2>1. [s EXCEPT !.pre_steps = v] \in SetsOf(b)
    BY DEF SetsOf
  <2>2. [s EXCEPT !.post_steps = v] \in SetsOf(b)
    BY DEF SetsOf
  <2>3. [s EXCEPT !.post_reboot_steps = v] \in SetsOf(b)
    BY DEF SetsOf
  <2> QED
    BY <2>1, <2>2, <2>3 DEF ListTags
<1> QED
  BY <1>1, <1>2, <1>3, <1>4

\* A list with an element put in.
LEMMA Inserted ==
  ASSUME NEW S, NEW s \in Seq(S), NEW i \in 1..Len(s) + 1, NEW x \in S
  PROVE  InsertAt(s, i, x) \in Seq(S)
<1>1. Len(s) \in Nat /\ i \in Int
  OBVIOUS
<1>2. SubSeq(s, 1, i - 1) \in Seq(S) /\ SubSeq(s, i, Len(s)) \in Seq(S)
  <2>1. (\A j \in 1..(i - 1) : s[j] \in S) /\ (\A j \in i..Len(s) : s[j] \in S)
    BY <1>1
  <2>2. SubSeq(s, 1, i - 1) \in Seq(S)
    <3>1. 1 \in Int /\ i - 1 \in Int
      BY <1>1
    <3> QED
      BY <2>1, <3>1, SubSeqProperties
  <2>3. SubSeq(s, i, Len(s)) \in Seq(S)
    BY <1>1, <2>1, SubSeqProperties
  <2> QED
    BY <2>2, <2>3
<1>3. <<x>> \in Seq(S)
  OBVIOUS
<1> DEFINE l == SubSeq(s, 1, i - 1)
           m == <<x>>
           n == SubSeq(s, i, Len(s))
<1>4. InsertAt(s, i, x) = (l \o m) \o n
  BY DEF InsertAt
<1>5. l \in Seq(S) /\ m \in Seq(S) /\ n \in Seq(S)
  BY <1>2, <1>3
<1> HIDE DEF l, m, n
<1> QED
  BY <1>4, <1>5

\* What is read in a set.
LEMMA InsideKeepsSet ==
  ASSUME NEW b, DataOf(b), NEW c, ParseAt(c), NEW e, Move(Traits, c, Node, e), Inside,
         StepsStart \/ CaseStart \/ EnvironmentsStart \/ GetStart \/ SetDescription \/ SetOther
           \/ EnvironmentName \/ EnvironmentValue \/ EnvironmentsEnd
           \/ FileStart \/ FileText \/ GetEnd
  PROVE  DataOf(b)'
<1>1. Locals(b)
  BY LocalsAre
<1>2. \E f : Within(f)
  BY DEF StepsStart, CaseStart, EnvironmentsStart, GetStart, SetDescription, SetOther,
         EnvironmentName, EnvironmentValue, EnvironmentsEnd, FileStart, FileText, GetEnd
<1>3. doc' = doc /\ SetNames' = SetNames
  BY <1>2, Reads, FileStays
<1>4. SUFFICES Locals(b)'
  BY <1>2, ReadsData
<1>5. ASSUME step' = step, steps' \in Seq(ListSteps(b)), tag' \in ListTags \cup {NULL},
             file' \in FilesOf, param' = param,
             set' \in SetsOf(b), set'.gen = set.gen, set'.cases \in Seq(ParsedCases(b)),
             case' \in ParsedCases(b)
      PROVE  Locals(b)'
  BY <1>1, <1>3, <1>5 DEF Locals
<1>6. CASE StepsStart
  BY <1>1, <1>5, <1>6 DEF StepsStart, ListTags, Locals
<1>7. CASE CaseStart
  <2> DEFINE d == NewCase(td_parse_gen_attribs(set.gen))
  <2>1. d \in ParsedCases(b)
    <3>1. set.gen \in Gens
      BY <1>1 DEF Locals, SetsOf
    <3> QED
      BY <3>1, GenParsed, NewData, ValuesAre
  <2>2. IF Node.empty THEN set' = [set EXCEPT !.cases = Append(@, d)] /\ case' = case
        ELSE case' = d /\ set' = set
    BY <1>7 DEF CaseStart
  <2> HIDE DEF d
  <2>3. step' = step /\ steps' = steps /\ tag' = tag /\ file' = file /\ param' = param
    BY <1>7 DEF CaseStart
  <2>4. Append(set.cases, d) \in Seq(ParsedCases(b)) /\ Append(set.cases, d) \in Seq(CasesOf(b))
    <3>1. d \in CasesOf(b) /\ set.cases \in Seq(CasesOf(b))
      BY <1>1, <2>1 DEF ParsedCases, Locals, SetsOf
    <3> QED
      BY <1>1, <2>1, <3>1 DEF Locals
  <2>5. [set EXCEPT !.cases = Append(set.cases, d)].gen = set.gen
    BY <1>1 DEF Locals, SetsOf
  <2>6. /\ [set EXCEPT !.cases = Append(set.cases, d)] \in SetsOf(b)
        /\ [set EXCEPT !.cases = Append(set.cases, d)].cases = Append(set.cases, d)
    BY <1>1, <2>4, UpdatedSets DEF Locals
  <2>7. set' \in SetsOf(b) /\ set'.gen = set.gen /\ set'.cases \in Seq(ParsedCases(b))
    BY <1>1, <2>2, <2>4, <2>5, <2>6 DEF Locals
  <2>8. case' \in ParsedCases(b)
    BY <1>1, <2>1, <2>2 DEF Locals
  <2> QED
    BY <1>1, <1>5, <2>3, <2>7, <2>8 DEF Locals
<1>8. CASE EnvironmentsStart \/ SetOther \/ EnvironmentName \/ EnvironmentsEnd \/ GetEnd
  BY <1>1, <1>5, <1>8 DEF EnvironmentsStart, SetOther, EnvironmentName, EnvironmentsEnd, GetEnd,
                          locals, Locals
<1>9. CASE GetStart
  BY <1>1, <1>5, <1>9, NewData, NoGenIs, ValuesAre DEF GetStart, Locals
<1>10. CASE SetDescription
  <2>1. set' = [set EXCEPT !.described = TRUE]
    BY <1>10 DEF SetDescription
  <2>2. set'.gen = set.gen /\ set'.cases = set.cases
    BY <1>1, <2>1 DEF Locals, SetsOf
  <2> QED
    BY <1>1, <1>5, <1>10, <2>1, <2>2, UpdatedSets DEF SetDescription, Locals
<1>11. CASE EnvironmentValue
  <2>1. set' = set \/ set' = [set EXCEPT !.environments = @ \ {env_name}]
    BY <1>11 DEF EnvironmentValue
  <2>2. set'.gen = set.gen /\ set'.cases = set.cases /\ set' \in SetsOf(b)
    BY <1>1, <2>1 DEF Locals, SetsOf
  <2> QED
    BY <1>1, <1>5, <1>11, <2>2 DEF EnvironmentValue, Locals
<1>12. CASE FileStart
  <2>1. file \in FilesOf
    BY <1>1 DEF Locals
  <2>2. ValueOr("delete_after", file.delete_after) \in Values
        /\ ValueOr("measurement", file.measurement) \in Values
    BY <2>1, ValueIs DEF FilesOf
  <2>3. file' = [file EXCEPT !.delete_after = ValueOr("delete_after", file.delete_after),
                             !.measurement = ValueOr("measurement", file.measurement)]
    BY <1>12 DEF FileStart
  <2>4. file' \in FilesOf
    BY <2>1, <2>2, <2>3 DEF FilesOf
  <2> QED
    BY <1>1, <1>5, <1>12, <2>4 DEF FileStart, Locals
<1>13. CASE FileText
  <2> DEFINE f == [file EXCEPT !.name = Node.n]
  <2>1. file \in FilesOf /\ set \in SetsOf(b) /\ case \in ParsedCases(b)
    BY <1>1 DEF Locals
  <2>2. f \in FilesOf
    <3>1. Node.n \in Words
      BY <1>13, TokenData DEF FileText, IsText
    <3> QED
      BY <2>1, <3>1 DEF FilesOf
  <2>3. \/ /\ set' = set
           /\ \E i \in 1..Len(case.gets) + 1 : case' = [case EXCEPT !.gets = InsertAt(@, i, f)]
        \/ /\ case' = case
           /\ \E i \in 1..Len(set.gets) + 1 : set' = [set EXCEPT !.gets = InsertAt(@, i, f)]
    BY <1>13 DEF FileText
  <2>4. file' \in FilesOf
    BY <1>13, <2>1, ValuesAre DEF FileText, NextFlags, FilesOf
  <2> HIDE DEF f
  <2>5. ASSUME NEW i \in 1..Len(case.gets) + 1, case' = [case EXCEPT !.gets = InsertAt(@, i, f)]
        PROVE  case' \in ParsedCases(b)
    <3>1. case.gets \in Seq(FilesOf)
      BY <2>1 DEF ParsedCases, CasesOf
    <3>2. InsertAt(case.gets, i, f) \in Seq(FilesOf)
      BY <2>2, <3>1, Inserted
    <3> QED
      BY <2>1, <2>5, <3>2 DEF ParsedCases, CasesOf
  <2>6. ASSUME NEW i \in 1..Len(set.gets) + 1, set' = [set EXCEPT !.gets = InsertAt(@, i, f)]
        PROVE  set' \in SetsOf(b) /\ set'.gen = set.gen /\ set'.cases = set.cases
    <3>1. set.gets \in Seq(FilesOf)
      BY <2>1 DEF SetsOf
    <3>2. InsertAt(set.gets, i, f) \in Seq(FilesOf)
      BY <2>2, <3>1, Inserted
    <3> QED
      BY <2>1, <2>6, <3>2 DEF SetsOf
  <2>7. /\ case' \in ParsedCases(b) /\ set' \in SetsOf(b) /\ set'.gen = set.gen
        /\ set'.cases = set.cases
    BY <2>1, <2>3, <2>5, <2>6
  <2> QED
    BY <1>1, <1>5, <1>13, <2>4, <2>7 DEF FileText, Locals
<1> QED
  BY <1>6, <1>7, <1>8, <1>9, <1>10, <1>11, <1>12, <1>13

\* What is read in a step, an event or between them.
LEMMA InsideKeepsSteps ==
  ASSUME NEW b, b <=> Closable, DataOf(b), NEW c, ParseAt(c), NEW e, Move(Traits, c, Node, e), Inside,
         StepStart \/ StepText \/ StepOther \/ StepEnd \/ StepsOther \/ StepsEnd
           \/ CaseDescription \/ CaseOther \/ CaseEnd \/ EventStart \/ ParamStart \/ ParamText
           \/ ParamEnd \/ EventEnd
  PROVE  DataOf(b)'
<1>1. Locals(b)
  BY LocalsAre
<1>2. \E f : Within(f)
  BY DEF StepStart, StepText, StepOther, StepEnd, StepsOther, StepsEnd, CaseDescription,
         CaseOther, CaseEnd, EventStart, ParamStart, ParamText, ParamEnd, EventEnd
<1>3. doc' = doc /\ SetNames' = SetNames
  BY <1>2, Reads, FileStays
<1>4. SUFFICES Locals(b)'
  BY <1>2, ReadsData
<1>5. /\ set \in SetsOf(b) /\ case \in ParsedCases(b) /\ step \in StepsOf(b)
      /\ steps \in Seq(ListSteps(b)) /\ param \in Seq(Words)
  BY <1>1 DEF Locals
<1>6. ASSUME tag' = tag, file' = file, step' \in StepsOf(b), steps' \in Seq(ListSteps(b)),
             param' \in Seq(Words), case' \in ParsedCases(b),
             set' \in SetsOf(b), set'.gen = set.gen, set'.cases \in Seq(ParsedCases(b))
      PROVE  Locals(b)'
  BY <1>1, <1>3, <1>6 DEF Locals
<1>7. ASSUME tag' = tag, file' = file, step' \in StepsOf(b), steps' \in Seq(ListSteps(b)),
             param' \in Seq(Words), case' \in ParsedCases(b), set' = set
      PROVE  Locals(b)'
  BY <1>1, <1>6, <1>7 DEF Locals
\* A step that is added to a case or to a list.
<1>8. ASSUME NEW s \in StepsOf(b), NEW to, AddStep(s, to),
             to = "td_parse_steps" => s \in ListSteps(b)
      PROVE  case' \in ParsedCases(b) /\ steps' \in Seq(ListSteps(b))
  <2>1. CASE to = "td_parse_case" /\ case' = [case EXCEPT !.steps = Append(@, s)] /\ UNCHANGED steps
    <3>1. case.steps \in Seq(StepsOf(b))
      BY <1>5 DEF ParsedCases, CasesOf
    <3>2. Append(case.steps, s) \in Seq(StepsOf(b))
      BY <1>8, <3>1
    <3> QED
      BY <1>5, <2>1, <3>2 DEF ParsedCases, CasesOf
  <2>2. CASE to = "td_parse_steps" /\ steps' = Append(steps, s) /\ UNCHANGED case
    BY <1>5, <1>8, <2>2
  <2> QED
    BY <1>8, <2>1, <2>2 DEF AddStep
<1>9. /\ c \in Places(Traits) /\ TextsSeen(c) /\ Stages(c)
      /\ Traits.closable = Closable /\ Traits.runs_on = ListsRunOn
  BY DEF ParseAt, Parse, Traits
<1>10. ASSUME NEW v \in Seq(Filled(b)), step' = [step EXCEPT !.params = v]
       PROVE  step' \in StepsOf(b)
  BY <1>5, <1>10 DEF StepsOf
<1>11. step.params \in Seq(Filled(b)) /\ step.cmd \in Seq(Words)
  BY <1>5 DEF StepsOf
<1>12. CASE StepStart
  <2> DEFINE m == ValueOr("manual", ManualDefault)
             r == ValueOr("reboot", FALSE)
             s == [NewStep(m) EXCEPT !.reboot = r]
  <2>1. m \in Values /\ r \in Values
    <3>1. ManualDefault \in Values
      <4>1. set.gen \in Gens /\ case.gen \in Gens
        BY <1>5 DEF SetsOf, ParsedCases, CasesOf
      <4> QED
        BY <4>1 DEF ManualDefault, Gens, GenAttributes
    <3> QED
      BY <3>1, ValueIs, ValuesAre
  <2>2. s \in StepsOf(b)
    <3> HIDE DEF m, r
    <3>1. NewStep(m) \in StepsOf(b)
      BY <2>1, NewData, NoGenIs
    <3> QED
      BY <2>1, <3>1 DEF StepsOf
  <2>3. tag' = tag /\ file' = file /\ param' = param /\ set' = set
    BY <1>12 DEF StepStart
  <2>4. IF EmptyStep THEN AddStep(s, Last(fn)) /\ step' = step
        ELSE step' = s /\ case' = case /\ steps' = steps
    BY <1>12 DEF StepStart
  <2> HIDE DEF s
  <2>5. CASE EmptyStep
    <3>1. ASSUME Last(fn) = "td_parse_steps" PROVE ~b
      <4>1. Closable => ListsRunOn \/ c.box = tag
        BY <1>9, <3>1 DEF TextsSeen, InSteps, In
      <4>2. tag \in ListTags
        BY <1>9, <3>1 DEF Stages, InSteps, In
      <4>3. Node.empty /\ DOMAIN Node.a = {}
        BY <2>5 DEF EmptyStep
      <4>4. Closable => c.box = "none" /\ (ListsRunOn => DOMAIN Node.a # {})
        BY <1>9, <1>12, <4>3, StepMoves DEF StepStart, Starts, Begins
      <4> QED
        BY <4>1, <4>2, <4>3, <4>4 DEF ListTags
    <3>2. Last(fn) = "td_parse_steps" => s \in ListSteps(b)
      BY <2>2, <3>1 DEF ListSteps
    <3>3. case' \in ParsedCases(b) /\ steps' \in Seq(ListSteps(b))
      BY <1>8, <2>2, <2>4, <2>5, <3>2
    <3> QED
      BY <1>5, <1>7, <2>3, <2>4, <2>5, <3>3
  <2>6. CASE ~EmptyStep
    BY <1>5, <1>7, <2>2, <2>3, <2>4, <2>6
  <2> QED
    BY <2>5, <2>6
<1>13. CASE StepText
  <2>1. Node.n \in Words
    BY <1>13, TokenData DEF StepText, IsText
  <2>2. Append(step.cmd, Node.n) \in Seq(Words)
    BY <1>11, <2>1
  <2>3. step' = [step EXCEPT !.cmd = Append(step.cmd, Node.n)]
    BY <1>13 DEF StepText
  <2>4. step' \in StepsOf(b)
    BY <1>5, <2>2, <2>3 DEF StepsOf
  <2> QED
    BY <1>5, <1>7, <1>13, <2>4 DEF StepText
<1>14. CASE StepOther \/ StepsOther \/ CaseOther
  BY <1>5, <1>7, <1>14 DEF StepOther, StepsOther, CaseOther, locals
<1>15. CASE StepEnd
  <2>1. AddStep(step, Caller) /\ Closes(Node, "step") /\ Last(fn) = "td_parse_step"
    BY <1>15, Reads DEF StepEnd, Ends, Closes
  <2>2. ASSUME Caller = "td_parse_steps" PROVE step \in ListSteps(b)
    <3>1. InListStep
      BY <2>1, <2>2 DEF InListStep, In
    <3>2. tag \in ListTags
      BY <1>9, <3>1 DEF Stages
    <3>3. ASSUME b PROVE step.cmd # <<>>
      <4>1. (ListsRunOn \/ c.box = tag) /\ (c.inner = "texted" => step.cmd # <<>>)
        BY <1>9, <3>1, <3>3 DEF TextsSeen
      <4>2. c.inner = "texted"
        <5>1. c.box # "none" \/ ListsRunOn
          BY <3>2, <4>1 DEF ListTags
        <5> QED
          BY <1>9, <2>1, <3>3, <5>1, StepMoves
      <4> QED
        BY <4>1, <4>2
    <3> QED
      BY <1>5, <3>3 DEF ListSteps
  <2>3. case' \in ParsedCases(b) /\ steps' \in Seq(ListSteps(b))
    BY <1>5, <1>8, <2>1, <2>2
  <2> QED
    BY <1>5, <1>7, <1>15, <2>3 DEF StepEnd
<1>16. CASE StepsEnd
  <2>1. tag \in ListTags
    <3>1. InSteps
      BY <1>16, Reads DEF StepsEnd, InSteps, In
    <3> QED
      BY <1>9, <3>1 DEF Stages
  <2>2. set[tag] \in Lists(b)
    BY <1>5, <2>1 DEF SetsOf, ListTags
  <2>3. Append(set[tag], steps) \in Lists(b)
    BY <1>5, <2>2 DEF Lists
  <2>4. set' = [set EXCEPT ![tag] = Append(set[tag], steps)]
    BY <1>16 DEF StepsEnd
  <2>5. set' \in SetsOf(b)
    BY <1>5, <2>1, <2>3, <2>4, UpdatedSets
  <2>6. set'.gen = set.gen /\ set'.cases = set.cases
    BY <1>5, <2>1, <2>4 DEF SetsOf, ListTags
  <2>7. set'.cases \in Seq(ParsedCases(b))
    BY <1>1, <2>6 DEF Locals
  <2> QED
    BY <1>5, <1>6, <1>16, <2>5, <2>6, <2>7 DEF StepsEnd
<1>17. CASE CaseDescription
  <2>1. case' \in ParsedCases(b)
    BY <1>5, <1>17 DEF CaseDescription, ParsedCases, CasesOf
  <2> QED
    BY <1>5, <1>7, <1>17, <2>1 DEF CaseDescription
<1>18. CASE CaseEnd
  <2> DEFINE d == [case EXCEPT !.gen.manual = SaneManual]
  <2>1. d \in ParsedCases(b)
    <3>1. case.gen \in Gens
      BY <1>5 DEF ParsedCases, CasesOf
    <3>2. SaneManual \in Values
      <4>1. ManualSteps \in Values
        BY DEF ManualSteps, Values
      <4>2. case.gen.manual \in Values
        BY <3>1 DEF Gens, GenAttributes
      <4> QED
        BY <4>1, <4>2 DEF SaneManual
    <3>3. [case.gen EXCEPT !.manual = SaneManual] \in Gens
      BY <3>1, <3>2 DEF Gens
    <3> QED
      BY <1>5, <3>3 DEF ParsedCases, CasesOf
  <2>2. set' = [set EXCEPT !.cases = Append(set.cases, d)]
    BY <1>18 DEF CaseEnd
  <2> HIDE DEF d
  <2>3. Append(set.cases, d) \in Seq(ParsedCases(b)) /\ Append(set.cases, d) \in Seq(CasesOf(b))
    <3>1. d \in CasesOf(b) /\ set.cases \in Seq(CasesOf(b))
      BY <1>5, <2>1 DEF ParsedCases, SetsOf
    <3> QED
      BY <1>1, <2>1, <3>1 DEF Locals
  <2>4. set'.gen = set.gen
    BY <1>5, <2>2 DEF SetsOf
  <2>5. set' \in SetsOf(b) /\ set'.cases = Append(set.cases, d)
    BY <1>5, <2>2, <2>3, UpdatedSets
  <2> QED
    BY <1>5, <1>6, <1>18, <2>3, <2>4, <2>5 DEF CaseEnd
<1>19. CASE EventStart
  <2> DEFINE s == [NewStep(FALSE) EXCEPT !.event = TRUE]
  <2>1. s \in StepsOf(b)
    <3>1. NewStep(FALSE) \in StepsOf(b)
      BY NewData, NoGenIs, ValuesAre
    <3> QED
      BY <3>1 DEF StepsOf
  <2>2. IF Node.empty THEN AddStep(s, "td_parse_case") /\ step' = step
        ELSE step' = s /\ case' = case /\ steps' = steps
    BY <1>19 DEF EventStart
  <2> HIDE DEF s
  <2>3. CASE Node.empty
    <3>1. case' \in ParsedCases(b) /\ steps' \in Seq(ListSteps(b))
      BY <1>8, <2>1, <2>2, <2>3
    <3> QED
      BY <1>5, <1>7, <1>19, <2>2, <2>3, <3>1 DEF EventStart
  <2>4. CASE ~Node.empty
    BY <1>5, <1>7, <1>19, <2>1, <2>2, <2>4 DEF EventStart
  <2> QED
    BY <2>3, <2>4
<1>20. CASE ParamStart
  <2>1. /\ tag' = tag /\ file' = file /\ set' = set /\ case' = case /\ steps' = steps
        /\ IF Node.empty THEN step' = [step EXCEPT !.params = Append(step.params, <<>>)] /\ param' = param
           ELSE param' = <<>> /\ step' = step
    BY <1>20 DEF ParamStart, AddParam, NoText
  <2>2. CASE Node.empty
    <3>1. ~b
      BY <1>9, <1>20, <2>2, CaseMoves DEF ParamStart, Starts, Begins
    <3>2. <<>> \in Filled(b)
      BY <3>1 DEF Filled
    <3>3. Append(step.params, <<>>) \in Seq(Filled(b))
      BY <1>11, <3>2
    <3> QED
      BY <1>5, <1>7, <1>10, <2>1, <2>2, <3>3
  <2>3. CASE ~Node.empty
    BY <1>5, <1>7, <2>1, <2>3
  <2> QED
    BY <2>2, <2>3
<1>21. CASE ParamText
  <2>1. Node.n \in Words
    BY <1>21, TokenData DEF ParamText, IsText
  <2>2. param' \in Seq(Words)
    BY <1>21, <2>1 DEF ParamText
  <2> QED
    BY <1>5, <1>7, <1>21, <2>2 DEF ParamText
<1>22. CASE ParamEnd
  <2>1. step' = [step EXCEPT !.params = Append(step.params, param)]
    BY <1>22 DEF ParamEnd, AddParam
  <2>2. param \in Filled(b)
    <3>1. ASSUME b PROVE param # <<>>
      <4>1. c.inner = "texted"
        <5>1. Closes(Node, "param")
          BY <1>22 DEF ParamEnd, Ends, Closes
        <5>2. Traits.closable
          BY <1>9, <3>1
        <5> QED
          BY <1>9, <5>1, <5>2, CaseMoves
      <4>2. In("td_parse_event_param")
        BY <1>22, Reads DEF ParamEnd, In
      <4> QED
        BY <1>9, <3>1, <4>1, <4>2 DEF TextsSeen
    <3> QED
      BY <1>5, <3>1 DEF Filled
  <2>3. Append(step.params, param) \in Seq(Filled(b))
    BY <1>11, <2>2
  <2> QED
    BY <1>5, <1>7, <1>10, <1>22, <2>1, <2>3 DEF ParamEnd
<1>23. CASE EventEnd
  <2>1. AddStep(step, "td_parse_case")
    BY <1>23 DEF EventEnd
  <2>2. case' \in ParsedCases(b) /\ steps' \in Seq(ListSteps(b))
    BY <1>5, <1>8, <2>1
  <2> QED
    BY <1>5, <1>7, <1>23, <2>2 DEF EventEnd
<1> QED
  BY <1>12, <1>13, <1>14, <1>15, <1>16, <1>17, <1>18, <1>19, <1>20, <1>21, <1>22, <1>23

-----------------------------------------------------------------------------
(* A step of the parser.                                                    *)

ReadLoop ==
  TestDefinitionStart \/ TestDefinitionEnd \/ Hwiddetect \/ DescriptionNode
    \/ SuiteStart \/ SuiteEnd \/ OtherNode \/ DetectorText \/ HwidDetected
ReadStep == StepStart \/ StepText \/ StepOther \/ StepEnd
ReadSteps == StepsOther \/ StepsEnd
ReadInSet ==
  StepsStart \/ CaseStart \/ EnvironmentsStart \/ (GetStart /\ Within("td_parse_set"))
    \/ SetDescription \/ SetOther
ReadInCase ==
  (GetStart /\ Within("td_parse_case"))
    \/ CaseDescription \/ CaseOther \/ CaseEnd \/ EventStart \/ ParamStart \/ ParamText
    \/ ParamEnd \/ EventEnd
ReadEnvironment == EnvironmentName \/ EnvironmentValue \/ EnvironmentsEnd
ReadFile == FileStart \/ FileText \/ GetEnd
ReadInside == ReadStep \/ ReadSteps \/ ReadInSet \/ ReadInCase \/ ReadEnvironment \/ ReadFile

\* The actions, by the function that reads the node.
LEMMA NextIs ==
  Next => ReadLoop \/ SetStart \/ SetEnd \/ SuiteEndWithoutSuite \/ EndOfFile \/ ReadInside \/ Finished
BY Zenon DEF Next, ReadTd, ReadSet, ReadCase, ReadLists, ReadLoop, ReadInside, ReadStep, ReadSteps,
          ReadInSet, ReadInCase, ReadEnvironment, ReadFile, GetStart

\* Each reads one node, but for those that end the reading.
LEMMA NodeIsRead ==
  /\ ReadLoop \/ SetStart \/ SetEnd \/ ReadInside =>
       doc' = doc /\ opts' = opts /\ input # <<>> /\ input' = Tail(input)
  /\ SuiteEndWithoutSuite \/ EndOfFile \/ Finished => doc' = doc /\ opts' = opts /\ input' = input
<1>1. ReadLoop \/ SetStart \/ SetEnd =>
       doc' = doc /\ opts' = opts /\ input # <<>> /\ input' = Tail(input)
  BY DEF ReadLoop, SetStart, SetEnd, TestDefinitionStart, TestDefinitionEnd, Hwiddetect,
         DescriptionNode, SuiteStart, SuiteEnd, OtherNode, DetectorText, HwidDetected, Read
<1>2. ASSUME NEW f, Within(f)
      PROVE  doc' = doc /\ opts' = opts /\ input # <<>> /\ input' = Tail(input)
  BY <1>2 DEF Within, Read
<1>3. ReadInside =>
       doc' = doc /\ opts' = opts /\ input # <<>> /\ input' = Tail(input)
  BY <1>2, Zenon DEF ReadInside, ReadStep, ReadSteps, ReadInSet, ReadInCase, ReadEnvironment, ReadFile,
     StepStart, StepText, StepOther, StepEnd, StepsOther, StepsEnd, StepsStart, CaseStart,
     EnvironmentsStart, GetStart, SetDescription, SetOther, CaseDescription, CaseOther, CaseEnd,
     EventStart, ParamStart, ParamText, ParamEnd, EventEnd, EnvironmentName, EnvironmentValue,
     EnvironmentsEnd, FileStart, FileText, GetEnd
<1>4. SuiteEndWithoutSuite \/ EndOfFile \/ Finished => doc' = doc /\ opts' = opts /\ input' = input
  BY DEF SuiteEndWithoutSuite, EndOfFile, Finished, vars
<1> QED
  BY <1>1, <1>3, <1>4

\* Which function each is an action of.
LEMMA WhereInside ==
  ASSUME fn \in Stacks
  PROVE  /\ ReadInSet => Inside
         /\ ReadInCase => Inside /\ InACase
         /\ ReadEnvironment => Inside
         /\ ReadFile => Inside /\ (InSetGets \/ InACase)
         /\ ReadStep => Inside /\ (InSteps \/ InListStep \/ InACase)
         /\ ReadSteps => Inside /\ InSteps
<1>1. ASSUME NEW f \in ParserFunctions \ {"td_parse_hwiddetect"}, Within(f)
      PROVE  Inside /\ In(f) /\ Caller \in Callers(f)
  BY <1>1, Reads, TopCaller DEF Inside, InFile, In, ParserFunctions
<1>2. ReadInSet => Inside
  <2>1. ReadInSet => Within("td_parse_set")
    BY Zenon DEF ReadInSet, StepsStart, CaseStart, EnvironmentsStart, SetDescription, SetOther
  <2> QED
    BY <1>1, <2>1 DEF ParserFunctions
<1>3. ReadInCase => Inside /\ InACase
  <2>1. ReadInCase => Within("td_parse_case") \/ Within("td_parse_event")
                        \/ Within("td_parse_event_param")
    BY Zenon DEF ReadInCase, CaseDescription, CaseOther, CaseEnd, EventStart, ParamStart, ParamText,
                 ParamEnd, EventEnd
  <2> QED
    BY <1>1, <2>1 DEF ParserFunctions, InACase
<1>4. ReadEnvironment => Inside
  <2>1. ReadEnvironment => Within("td_parse_environments")
    BY Zenon DEF ReadEnvironment, EnvironmentName, EnvironmentValue, EnvironmentsEnd
  <2> QED
    BY <1>1, <2>1 DEF ParserFunctions
<1>5. ReadFile => Inside /\ (InSetGets \/ InACase)
  <2>1. ReadFile => Within("td_parse_gets")
    BY Zenon DEF ReadFile, FileStart, FileText, GetEnd
  <2> QED
    BY <1>1, <2>1 DEF ParserFunctions, Callers, InSetGets, InACase
<1>6. ReadStep => Inside /\ (InSteps \/ InListStep \/ InACase)
  <2>1. ReadStep => Within("td_parse_steps") \/ Within("td_parse_case") \/ Within("td_parse_step")
    BY Zenon DEF ReadStep, StepStart, StepText, StepOther, StepEnd
  <2> QED
    BY <1>1, <2>1 DEF ParserFunctions, Callers, InSteps, InListStep, InACase
<1>7. ReadSteps => Inside /\ InSteps
  <2>1. ReadSteps => Within("td_parse_steps")
    BY Zenon DEF ReadSteps, StepsOther, StepsEnd
  <2> QED
    BY <1>1, <2>1 DEF ParserFunctions, InSteps
<1> QED
  BY <1>2, <1>3, <1>4, <1>5, <1>6, <1>7

\* A node read keeps what holds of the parser, at the place after it.
LEMMA NodeKeepsParse ==
  ASSUME NEW b, b <=> Closable, DataOf(b), NEW c, ParseAt(c), NEW e \in Places(Traits),
         Move(Traits, c, Node, e)
  PROVE  /\ ReadLoop \/ SetStart \/ SetEnd \/ ReadInside => ParseAt(e)' /\ DataOf(b)'
         /\ SuiteEndWithoutSuite => ParseAt(c)' /\ DataOf(b)'
<1>1. fn \in Stacks /\ c \in Places(Traits)
  BY DEF ParseAt
<1>2. ReadLoop \/ SetStart => ParseAt(e)'
  BY LoopKeepsParse, Zenon DEF ReadLoop
<1>3. (SetEnd => ParseAt(e)') /\ (SuiteEndWithoutSuite => ParseAt(c)')
  BY LeavingKeepsParse, Zenon
<1>4. (ReadLoop => DataOf(b)') /\ (SetStart \/ SetEnd => DataOf(b)') /\ (SuiteEndWithoutSuite => DataOf(b)')
  <2>1. ReadLoop => DataOf(b)'
    BY <1>1, LoopKeepsData, Zenon DEF ReadLoop
  <2>2. SetStart \/ SetEnd => DataOf(b)'
    BY <1>1, SetKeepsData, Zenon
  <2>3. SuiteEndWithoutSuite => DataOf(b)'
    BY <1>1, LeavingKeepsData, Zenon
  <2> QED
    BY <2>1, <2>2, <2>3
<1>5. ReadInSet => ParseAt(e)' /\ DataOf(b)'
  <2>1. ReadInSet => ParseAt(e)'
    BY SetKeepsParse, Zenon DEF ReadInSet
  <2>2. ReadInSet => DataOf(b)'
    BY <1>1, WhereInside, InsideKeepsSet, Zenon DEF ReadInSet
  <2> QED
    BY <2>1, <2>2
<1>6. ReadInCase => ParseAt(e)' /\ DataOf(b)'
  <2>1. ReadInCase => ParseAt(e)'
    BY <1>1, WhereInside, CaseKeepsParse, Zenon DEF ReadInCase
  <2>2. ReadInCase => DataOf(b)'
    BY <1>1, WhereInside, InsideKeepsSet, InsideKeepsSteps, Zenon DEF ReadInCase
  <2> QED
    BY <2>1, <2>2
<1>7. ReadEnvironment => ParseAt(e)' /\ DataOf(b)'
  <2>1. ReadEnvironment => ParseAt(e)'
    BY BoxKeepsParse, Zenon DEF ReadEnvironment
  <2>2. ReadEnvironment => DataOf(b)'
    BY <1>1, WhereInside, InsideKeepsSet, Zenon DEF ReadEnvironment
  <2> QED
    BY <2>1, <2>2
<1>8. ReadFile => ParseAt(e)' /\ DataOf(b)'
  <2>1. ReadFile => ParseAt(e)'
    BY <1>1, WhereInside, BoxKeepsParse, CaseKeepsParse, Zenon DEF ReadFile
  <2>2. ReadFile => DataOf(b)'
    BY <1>1, WhereInside, InsideKeepsSet, Zenon DEF ReadFile
  <2> QED
    BY <2>1, <2>2
<1>9. ReadStep => ParseAt(e)' /\ DataOf(b)'
  <2>1. ReadStep => ParseAt(e)'
    BY <1>1, WhereInside, ListKeepsParse, CaseKeepsParse, Zenon DEF ReadStep
  <2>2. ReadStep => DataOf(b)'
    BY <1>1, WhereInside, InsideKeepsSteps, Zenon DEF ReadStep
  <2> QED
    BY <2>1, <2>2
<1>10. ReadSteps => ParseAt(e)' /\ DataOf(b)'
  <2>1. ReadSteps => ParseAt(e)'
    BY <1>1, WhereInside, ListKeepsParse, Zenon DEF ReadSteps
  <2>2. ReadSteps => DataOf(b)'
    BY <1>1, WhereInside, InsideKeepsSteps, Zenon DEF ReadSteps
  <2> QED
    BY <2>1, <2>2
<1> QED
  BY <1>2, <1>3, <1>4, <1>5, <1>6, <1>7, <1>8, <1>9, <1>10, Zenon DEF ReadInside

\* The file begins outside of its root.
LEMMA InitParses ==
  ASSUME Init, TestDefinitionAssumption, NEW b
  PROVE  DataOf(b) /\ ParseAt(AtLevel("out")) /\ \E d : Leads(Traits, input, AtLevel("out"), d)
<1>1. doc \in Documents /\ input = FileTokens(doc) /\ fn = Loop /\ parsing_level = 0
      /\ td = NoTd /\ suite = Nowhere /\ set = NewSet(NoGen) /\ case = NewCase(NoGen)
      /\ step = NewStep(FALSE) /\ steps = <<>> /\ tag = NULL /\ file = NewFile /\ param = NoText
      /\ aborted = {}
  BY DEF Init, Loop
<1>2. IsDocument(doc)
  BY <1>1 DEF TestDefinitionAssumption
<1>3. \E d : Leads(Traits, input, AtLevel("out"), d)
  BY <1>1, <1>2, FileLeads
<1>4. fn \in Stacks
  BY <1>1, StacksAre, Zenon
<1>5. Last(fn) = "td_process"
  BY <1>1, <1>4, StackTops
<1>6. AtLevel("out") \in Places(Traits) /\ AtLevel("out").level = "out"
  BY LevelsAre
<1>7. ~suite.live
  BY <1>1 DEF Nowhere
<1>8. Parse(AtLevel("out"))
  <2>1. Level(AtLevel("out"))
    BY <1>1, <1>5, <1>6, <1>7 DEF Level, In, Inside, InFile
  <2>2. Stages(AtLevel("out")) /\ TextsSeen(AtLevel("out"))
    BY <1>1, <1>5 DEF Stages, TextsSeen, In, InSetGets, InSteps, InListStep, InACase
  <2> QED
    BY <2>1, <2>2 DEF Parse
<1>9. DataOf(b)
  <2>1. NoGen \in Gens /\ FALSE \in Values
    BY NoGenIs, ValuesAre
  <2>2. /\ NewSet(NoGen) \in SetsOf(b) /\ NewCase(NoGen) \in ParsedCases(b)
        /\ NewStep(FALSE) \in StepsOf(b) /\ NewFile \in FilesOf
        /\ NoTd \in Definitions /\ Nowhere \in Suites
    BY <2>1, NewData
  <2>3. ~Inside
    BY <1>5 DEF Inside, InFile, In
  <2>4. Len(td.hw_detector) = 0
    BY <1>1 DEF NoTd, NoText
  <2>5. steps \in Seq(ListSteps(b)) /\ param \in Seq(Words)
    BY <1>1 DEF NoText
  <2>6. td \in Definitions /\ suite \in Suites /\ set \in SetsOf(b) /\ case \in ParsedCases(b)
        /\ step \in StepsOf(b) /\ file \in FilesOf
    BY <1>1, <2>2, Zenon
  <2>7. /\ tag \in ListTags \cup {NULL} /\ aborted \subseteq SetNames
        /\ Len(td.hw_detector) \in 0..1
    BY <1>1, <2>4
  <2> QED
    BY <2>3, <2>5, <2>6, <2>7, Zenon DEF DataOf
<1> QED
  BY <1>3, <1>4, <1>6, <1>8, <1>9 DEF ParseAt

-----------------------------------------------------------------------------
(* The parser, for every file.                                              *)

\* b: the logger can close every element of the file; c: the place of the next
\* node; d: where the file ends.
ParserAt(b, c, d) ==
  (b <=> Closable) /\ DataOf(b) /\ ParseAt(c) /\ Leads(Traits, input, c, d)

\* A step that changes nothing keeps all of it.
LEMMA StutterParses ==
  ASSUME NEW b, NEW c, NEW d, ParserAt(b, c, d), Finished \/ vars' = vars
  PROVE  ParserAt(b, c, d)'
<1>1. vars' = vars
  BY DEF Finished
<1>2. /\ doc' = doc /\ opts' = opts /\ input' = input /\ fn' = fn
      /\ parsing_level' = parsing_level /\ td' = td /\ suite' = suite /\ locals' = locals
      /\ aborted' = aborted
  BY <1>1 DEF vars
<1>3. /\ set' = set /\ case' = case /\ step' = step /\ steps' = steps /\ tag' = tag
      /\ file' = file /\ env_name' = env_name /\ param' = param
      /\ aborted' = aborted
  BY <1>2 DEF locals
<1>4. /\ Traits' = Traits /\ Sets' = Sets /\ DetectorIsMisread' = DetectorIsMisread
      /\ Both' = Both /\ Closable' = Closable /\ ListsRunOn' = ListsRunOn
      /\ SetNames' = SetNames
  BY <1>2, FileStays
<1>5. Inside' = Inside
  BY <1>2 DEF Inside, InFile, In
<1>6. SetIsParsed(b)' = SetIsParsed(b)
  BY <1>3, <1>4 DEF SetIsParsed
<1>7. DataOf(b)'
  <2>1. DataOf(b)
    BY DEF ParserAt
  <2> QED
    BY <2>1, <1>2, <1>3, <1>4, <1>5, <1>6 DEF DataOf
<1>8. /\ InSetGets' = InSetGets /\ InSteps' = InSteps /\ InListStep' = InListStep
      /\ InACase' = InACase /\ RebootHere(c)' = RebootHere(c)
  BY <1>2, <1>3, <1>4 DEF InSetGets, InSteps, InListStep, InACase, In, Caller, RebootHere
<1>9. ParseAt(c)'
  <2>1. ParseAt(c)
    BY DEF ParserAt
  <2>2. Level(c)'
    BY <2>1, <1>2, <1>4, <1>5 DEF ParseAt, Parse, Level, In
  <2>3. Stages(c)'
    BY <2>1, <1>2, <1>3, <1>4, <1>8 DEF ParseAt, Parse, Stages, In
  <2>4. TextsSeen(c)'
    BY <2>1, <1>2, <1>3, <1>4, <1>8 DEF ParseAt, Parse, TextsSeen, In
  <2> QED
    BY <2>1, <2>2, <2>3, <2>4, <1>2, <1>4 DEF ParseAt, Parse
<1> QED
  BY <1>2, <1>4, <1>7, <1>9 DEF ParserAt

\* Where the parser is after a step, and which nodes it has read.
LEMMA ParserStep ==
  ASSUME NEW b, NEW c, NEW d, ParserAt(b, c, d), [Next]_vars
  PROVE  \/ /\ ParserAt(b, c, d)'
            /\ SuiteEndWithoutSuite \/ EndOfFile \/ Finished \/ vars' = vars
         \/ \E e \in Places(Traits) :
              /\ Move(Traits, c, Node, e) /\ ParserAt(b, e, d)'
              /\ ReadLoop \/ SetStart \/ SetEnd \/ ReadInside
<1>1. (b <=> Closable) /\ DataOf(b) /\ ParseAt(c) /\ Leads(Traits, input, c, d)
  BY DEF ParserAt
<1>2. ASSUME doc' = doc PROVE Traits' = Traits /\ (b <=> Closable')
  BY <1>1, <1>2, FileStays
<1>3. ASSUME input # <<>>
      PROVE  \E e \in Places(Traits) : Move(Traits, c, Node, e) /\ Leads(Traits, Tail(input), e, d)
  BY <1>1, <1>3, LeadsFrom DEF Node
<1>4. CASE ReadLoop \/ SetStart \/ SetEnd \/ ReadInside
  <2>1. doc' = doc /\ input # <<>> /\ input' = Tail(input)
    BY <1>4, NodeIsRead, Zenon
  <2>2. PICK e \in Places(Traits) :
          Move(Traits, c, Node, e) /\ Leads(Traits, Tail(input), e, d)
    BY <1>3, <2>1
  <2>3. ParseAt(e)' /\ DataOf(b)'
    BY <1>1, <1>4, <2>2, NodeKeepsParse, Zenon
  <2>4. Leads(Traits', input', e, d)
    BY <1>2, <2>1, <2>2, Zenon
  <2>5. ParserAt(b, e, d)'
    BY <1>2, <2>1, <2>3, <2>4 DEF ParserAt
  <2> QED
    BY <1>4, <2>2, <2>5, Zenon
<1>5. CASE SuiteEndWithoutSuite
  <2>1. doc' = doc /\ input' = input
    BY <1>5, NodeIsRead, Zenon
  <2>2. input # <<>>
    BY <1>5 DEF SuiteEndWithoutSuite, Starts, Ends
  <2>3. PICK e \in Places(Traits) : Move(Traits, c, Node, e)
    BY <1>3, <2>2
  <2>4. ParseAt(c)' /\ DataOf(b)'
    BY <1>1, <1>5, <2>3, NodeKeepsParse, Zenon
  <2>5. Leads(Traits', input', c, d)
    BY <1>1, <1>2, <2>1, Zenon
  <2>6. ParserAt(b, c, d)'
    BY <1>2, <2>1, <2>4, <2>5 DEF ParserAt
  <2> QED
    BY <1>5, <2>6
<1>6. CASE EndOfFile
  <2>1. doc' = doc /\ input' = input
    BY <1>6, NodeIsRead, Zenon
  <2>2. ParseAt(c)'
    BY <1>1, <1>6, EndKeepsParse, Zenon
  <2>3. DataOf(b)'
    BY <1>1, <1>6, LeavingKeepsData, Zenon DEF ParseAt
  <2>4. Leads(Traits', input', c, d)
    BY <1>1, <1>2, <2>1, Zenon
  <2>5. ParserAt(b, c, d)'
    BY <1>2, <2>1, <2>2, <2>3, <2>4 DEF ParserAt
  <2> QED
    BY <1>6, <2>5
<1>7. CASE Finished \/ vars' = vars
  BY <1>7, StutterParses, Zenon
<1> QED
  BY <1>4, <1>5, <1>6, <1>7, NextIs, Zenon

-----------------------------------------------------------------------------
(* The writer.                                                              *)

Ids == Values \cup Words \cup Seq(Words)
Elems == [n : DOMAIN Parents, id : Ids]
Path == Seq(Elems)

\* The last element of a path is one that its parent may hold.
PathFits(p) ==
  IF Len(p) = 1 THEN p[1].n \in Roots ELSE MayHold(p[Len(p) - 1].n, Last(p).n)
Nested(out) == \A i \in DOMAIN out : PathFits(out[i])

\* n: every element is closed where it ends, so that p is open.
Writers(p, n) ==
  {v \in [open : Path, out : Seq(Path), ok : BOOLEAN] : n => v.open = p /\ Nested(v.out)}

\* If no element need be closed, any path will do.
LEMMA Writing ==
  ASSUME NEW n, ~n, NEW p, NEW q
  PROVE  Writers(p, n) = Writers(q, n)
BY DEF Writers

\* A walk that a callback stops, and one that starts, write nothing.
LEMMA WriterSet ==
  ASSUME NEW n, NEW p, NEW v \in Writers(p, n), NEW x \in BOOLEAN
  PROVE  [v EXCEPT !.ok = x] \in Writers(p, n) /\ [v EXCEPT !.ok = x].ok = x
BY DEF Writers

\* An element under the innermost one that is open.
LEMMA UnderFits ==
  ASSUME NEW p \in Path, p # <<>>, NEW t \in DOMAIN Parents, NEW id \in Ids,
         Last(p).n \in Parents[t] \/ MayHold(Last(p).n, t)
  PROVE  LET q == Append(p, Element(t, id))
         IN  /\ q \in Path /\ q # <<>> /\ Last(q).n = t /\ PathFits(q) /\ Element(t, id) \in Elems
             /\ Front(q) = p
<1> DEFINE T == Elems
           x == Element(t, id)
           q == Append(p, x)
<1>1. x \in T /\ x.n = t
  BY DEF Element, Elems
<1>2. p \in Seq(T) /\ Len(p) \in Nat /\ Len(p) > 0
  BY DEF Path
<1> HIDE DEF T, x
<1>3. q \in Seq(T) /\ Len(q) = Len(p) + 1 /\ q[Len(p) + 1] = x
      /\ \A i \in 1..Len(p) : q[i] = p[i]
  BY <1>1, <1>2
<1>4. q # <<>>
  BY <1>2, <1>3
<1>5. Last(q) = x /\ Last(p) = p[Len(p)]
  BY <1>3 DEF Last
<1>6. q[Len(q) - 1] = p[Len(p)] /\ Len(q) # 1
  BY <1>2, <1>3
<1>7. PathFits(q)
  <2>1. MayHold(Last(p).n, t)
    BY DEF MayHold
  <2> QED
    BY <1>1, <1>5, <1>6, <2>1 DEF PathFits
<1>8. Front(q) = p
  <2>1. Front(q) = SubSeq(q, 1, Len(p))
    BY <1>2, <1>3 DEF Front
  <2>2. \A i \in 1..Len(p) : q[i] \in T
    BY <1>2, <1>3
  <2>3. Len(p) \in Int /\ 1 \in Int
    BY <1>2
  <2> HIDE DEF q
  <2>4. /\ Front(q) \in Seq(T) /\ Len(Front(q)) = Len(p)
        /\ \A i \in 1..Len(p) : Front(q)[i] = q[i]
    BY <1>2, <1>3, <2>1, <2>2, <2>3, SubSeqProperties
  <2> QED
    BY <1>2, <1>3, <2>4, SeqEqual
<1> QED
  BY <1>1, <1>3, <1>4, <1>5, <1>7, <1>8 DEF x, T, Path

\* Starting an element that may be under the path: the path grows by it.
LEMMA Started ==
  ASSUME NEW n, NEW p \in Path, NEW v \in Writers(p, n), NEW x \in Elems, n => PathFits(Append(p, x))
  PROVE  Start(v, x) \in Writers(Append(p, x), n) /\ Start(v, x).ok = v.ok
<1> DEFINE q == Append(v.open, x)
           o == Append(v.out, q)
           T == Elems
<1>1. v \in [open : Path, out : Seq(Path), ok : BOOLEAN] /\ (n => v.open = p /\ Nested(v.out))
  BY DEF Writers
<1>2. q \in Path
  BY <1>1 DEF Path
<1> HIDE DEF q
<1>3. /\ o \in Seq(Path) /\ Len(o) = Len(v.out) + 1 /\ o[Len(v.out) + 1] = q
      /\ \A i \in 1..Len(v.out) : o[i] = v.out[i]
  BY <1>1, <1>2
<1>4. n => q = Append(p, x)
  BY <1>1 DEF q
<1>5. n => Nested(o)
  <2> SUFFICES ASSUME n, NEW i \in DOMAIN o PROVE PathFits(o[i])
    BY DEF Nested
  <2>1. DOMAIN o = 1..Len(v.out) + 1 /\ DOMAIN v.out = 1..Len(v.out) /\ Len(v.out) \in Nat
    BY <1>1, <1>3
  <2>2. CASE i = Len(v.out) + 1
    BY <1>3, <1>4, <2>2
  <2>3. CASE i \in 1..Len(v.out)
    BY <1>1, <1>3, <2>1, <2>3 DEF Nested
  <2> HIDE DEF o
  <2> QED
    BY <2>1, <2>2, <2>3
<1>6. Start(v, x) = [v EXCEPT !.open = q, !.out = o]
  BY DEF Start, q
<1> HIDE DEF o
<1>7. [v EXCEPT !.open = q, !.out = o] \in [open : Path, out : Seq(Path), ok : BOOLEAN]
      /\ [v EXCEPT !.open = q, !.out = o].open = q
      /\ [v EXCEPT !.open = q, !.out = o].out = o
      /\ [v EXCEPT !.open = q, !.out = o].ok = v.ok
  BY <1>1, <1>2, <1>3
<1> QED
  BY <1>4, <1>5, <1>6, <1>7 DEF Writers

\* Ending an element: the path loses it.
LEMMA Ended ==
  ASSUME NEW n, NEW p, NEW q \in Path, q # <<>>, Front(q) = p, NEW v \in Writers(q, n)
  PROVE  End(v) \in Writers(p, n) /\ End(v).ok = v.ok
<1>1. v \in [open : Path, out : Seq(Path), ok : BOOLEAN] /\ (n => v.open = q /\ Nested(v.out))
  BY DEF Writers
<1>2. CASE v.open = <<>>
  <2>1. ~n /\ End(v) = v
    BY <1>1, <1>2 DEF End
  <2> QED
    BY <1>1, <2>1 DEF Writers
<1>3. CASE v.open # <<>>
  <2> DEFINE f == Front(v.open)
             T == Elems
  <2>1. f \in Path
    <3>1. v.open \in Seq(T) /\ Len(v.open) \in Nat /\ Len(v.open) > 0
      BY <1>1, <1>3 DEF Path
    <3>2. f = SubSeq(v.open, 1, Len(v.open) - 1)
      BY DEF Front
    <3>3. \A i \in 1..Len(v.open) - 1 : v.open[i] \in T
      BY <3>1
    <3>4. 1 \in Int /\ Len(v.open) - 1 \in Int
      BY <3>1
    <3> HIDE DEF f, T
    <3>5. f \in Seq(T)
      BY <3>1, <3>2, <3>3, <3>4, SubSeqProperties
    <3> QED
      BY <3>5 DEF T, Path
  <2>2. End(v) = [v EXCEPT !.open = f]
    BY <1>3 DEF End
  <2>3. n => f = p
    BY <1>1
  <2> HIDE DEF f
  <2>4. /\ [v EXCEPT !.open = f] \in [open : Path, out : Seq(Path), ok : BOOLEAN]
        /\ [v EXCEPT !.open = f].open = f /\ [v EXCEPT !.open = f].out = v.out
        /\ [v EXCEPT !.open = f].ok = v.ok
    BY <1>1, <2>1
  <2> QED
    BY <1>1, <2>2, <2>3, <2>4 DEF Writers
<1> QED
  BY <1>2, <1>3

\* An element with what is written in it, and one without content.
LEMMA StartedUnder ==
  ASSUME NEW n, NEW p \in Path, p # <<>>, NEW v \in Writers(p, n), NEW t \in DOMAIN Parents,
         NEW id \in Ids, Last(p).n \in Parents[t] \/ MayHold(Last(p).n, t)
  PROVE  LET q == Append(p, Element(t, id))
         IN  /\ q \in Path /\ q # <<>> /\ Last(q).n = t
             /\ Start(v, Element(t, id)) \in Writers(q, n) /\ Start(v, Element(t, id)).ok = v.ok
             /\ \A x \in Writers(q, n) : End(x) \in Writers(p, n) /\ End(x).ok = x.ok
<1> DEFINE x == Element(t, id)
           q == Append(p, x)
<1>1. q \in Path /\ q # <<>> /\ Last(q).n = t /\ PathFits(q) /\ x \in Elems /\ Front(q) = p
  BY UnderFits
<1>2. Start(v, x) \in Writers(q, n) /\ Start(v, x).ok = v.ok
  <2> HIDE DEF x
  <2> QED
    BY <1>1, Started
<1> HIDE DEF q
<1>3. \A y \in Writers(q, n) : End(y) \in Writers(p, n) /\ End(y).ok = y.ok
  BY <1>1, Ended
<1> QED
  BY <1>1, <1>2, <1>3 DEF q

\* An element started and ended at once leaves the path as it was.
LEMMA LeafWritten ==
  ASSUME NEW n, NEW p \in Path, p # <<>>, NEW v \in Writers(p, n), NEW t \in DOMAIN Parents,
         NEW id \in Ids, Last(p).n \in Parents[t], NEW cond
  PROVE  /\ Leaf(v, Element(t, id)) \in Writers(p, n) /\ Leaf(v, Element(t, id)).ok = v.ok
         /\ LeafIf(cond, v, Element(t, id)) \in Writers(p, n)
         /\ LeafIf(cond, v, Element(t, id)).ok = v.ok
<1> DEFINE x == Element(t, id)
           q == Append(p, x)
           s == Start(v, x)
<1>1. /\ s \in Writers(q, n) /\ s.ok = v.ok
      /\ \A y \in Writers(q, n) : End(y) \in Writers(p, n) /\ End(y).ok = y.ok
  BY StartedUnder
<1>2. Leaf(v, x) = End(s)
  BY DEF Leaf
<1> HIDE DEF x, q, s
<1>3. Leaf(v, x) \in Writers(p, n) /\ Leaf(v, x).ok = v.ok
  BY <1>1, <1>2
<1>4. /\ LeafIf(cond, v, x) \in Writers(p, n) /\ LeafIf(cond, v, x).ok = v.ok
  BY <1>3 DEF LeafIf
<1> QED
  BY <1>3, <1>4 DEF x

\* A walk over a list of X stays among the writers, and has not been stopped.
Walks(h, list, V, X, base, A) ==
  /\ h \in [PlaceSets(list) -> V]
  /\ h = [s \in PlaceSets(list) |->
            IF s = {} THEN base ELSE A[h[s \ {Max(s)}]][list[Max(s)]]]
  /\ \A s \in PlaceSets(list) : s # {} => list[Max(s)] \in X /\ h[s \ {Max(s)}] \in V

\* The recursion of a walk has a solution.
LEMMA WalkExists ==
  ASSUME NEW V, NEW X, NEW base \in V, NEW list \in Seq(X), NEW A \in [V -> [X -> V]]
  PROVE  \E h : Walks(h, list, V, X, base, A)
<1>1. PICK h : IsFold(h, V, X, base, A, list)
  BY FoldExists
<1>2. /\ h \in [PlaceSets(list) -> V] /\ h[{}] = base
      /\ \A s \in PlaceSets(list) : s # {} =>
           /\ list[Max(s)] \in X /\ h[s \ {Max(s)}] \in V
           /\ h[s] = A[h[s \ {Max(s)}]][list[Max(s)]]
  BY <1>1, FoldPlaces
<1>3. h = [s \in PlaceSets(list) |->
            IF s = {} THEN base ELSE A[h[s \ {Max(s)}]][list[Max(s)]]]
  BY <1>2
<1> QED
  BY <1>2, <1>3 DEF Walks

\* Any solution of it stays among the writers.
LEMMA WalkIn ==
  ASSUME NEW V, NEW h, NEW n \in Nat, h[{}] \in V,
         \A s \in SUBSET (1..n) : s # {} /\ h[s \ {Max(s)}] \in V => h[s] \in V
  PROVE  h[1..n] \in V
<1> DEFINE S == {i \in Nat : i <= n => h[1..i] \in V}
<1>1. 0 \in S
  BY FirstPlaces
<1>2. ASSUME NEW i \in 0..n - 1, i \in S PROVE i + 1 \in S
  <2>1. /\ 1..i + 1 \in SUBSET (1..n) /\ 1..i + 1 # {}
        /\ Max(1..i + 1) = i + 1 /\ (1..i + 1) \ {i + 1} = 1..i
    BY FirstPlaces
  <2>2. h[1..i] \in V
    BY <1>2
  <2>3. h[1..i + 1] \in V
    BY <2>1, <2>2
  <2> QED
    BY <2>3
<1>3. n \in S
  <2> HIDE DEF S
  <2>1. S \in SUBSET Nat
    BY DEF S
  <2> QED
    BY <1>1, <1>2, <2>1, Induction
<1> QED
  BY <1>3

\* The steps of a pre, post or post reboot list.
LEMMA PrePostWalk ==
  ASSUME NEW b, NEW n, n => b, NEW p \in Path, p # <<>>, NEW v \in Writers(p, n),
         Last(p).n \in Parents["step"], NEW list \in Seq(ListSteps(b))
  PROVE  Walk(xml_write_pre_post_step, v, list) \in Writers(p, n) /\ Walk(xml_write_pre_post_step, v, list).ok
<1> DEFINE V == Writers(p, n)
           X == ListSteps(b)
           D == 1..Len(list)
           After(y, x) == IF y.ok THEN xml_write_pre_post_step(y, x) ELSE y
           Rec(h) == h = [s \in SUBSET D |->
                            IF s = {} THEN v ELSE After(h[s \ {Max(s)}], list[Max(s)])]
           fold == CHOOSE h : Rec(h)
           A == [y \in V |-> [x \in X |-> After(y, x)]]
           u == fold[D]
<1>0. DOMAIN list = D /\ Len(list) \in Nat
  OBVIOUS
<1>1. Walk(xml_write_pre_post_step, v, list) = [u EXCEPT !.ok = TRUE]
  BY <1>0 DEF Walk, FoldLeft, MapThenFoldSet
<1>2. ASSUME NEW y \in V, NEW x \in X
      PROVE  After(y, x) \in V
  <2> DEFINE e == Element("step", x.cmd)
             q == Append(p, e)
             s == Start(y, e)
  <2>1. x.cmd \in Ids /\ "step" \in DOMAIN Parents /\ (n => x.cmd # <<>>)
    BY DEF ListSteps, StepsOf, Ids, Parents
  <2>2. /\ s \in Writers(q, n)
        /\ \A z \in Writers(q, n) : End(z) \in Writers(p, n)
    BY <2>1, StartedUnder
  <2>3. xml_write_pre_post_step(y, x) = IF x.cmd = <<>> THEN Stopped(s) ELSE End(s)
    BY DEF xml_write_pre_post_step
  <2> HIDE DEF q, s
  <2>4. CASE x.cmd = <<>>
    <3>1. ~n
      BY <2>1, <2>4
    <3>2. Stopped(s) \in Writers(q, n)
      BY <2>2, WriterSet DEF Stopped
    <3> QED
      BY <2>3, <2>4, <3>1, <3>2, Writing
  <2>5. CASE x.cmd # <<>>
    BY <2>2, <2>3, <2>5
  <2> QED
    BY <2>4, <2>5
<1> HIDE DEF After, V, X
<1>3. A \in [V -> [X -> V]] /\ \A y \in V, x \in X : A[y][x] = After(y, x)
  BY <1>2
<1> HIDE DEF A
<1>4. PICK h : Walks(h, list, V, X, v, A)
  BY <1>3, WalkExists DEF V, X
<1>5. Rec(h)
  BY <1>3, <1>4 DEF Walks, PlaceSets
<1>6. Rec(fold)
  <2> HIDE DEF Rec
  <2> QED
    BY <1>5
<1>7. u \in V
  <2> HIDE DEF fold
  <2>1. ASSUME NEW s \in SUBSET D
        PROVE  fold[s] = IF s = {} THEN v ELSE After(fold[s \ {Max(s)}], list[Max(s)])
    BY <1>6
  <2>2. fold[{}] \in V
    BY <2>1 DEF V
  <2>3. ASSUME NEW s \in SUBSET D, s # {}, fold[s \ {Max(s)}] \in V
        PROVE  fold[s] \in V
    <3>1. list[Max(s)] \in X
      BY <1>4, <2>3 DEF Walks, PlaceSets
    <3> QED
      BY <1>2, <2>1, <2>3, <3>1
  <2> QED
    BY <1>0, <2>2, <2>3, WalkIn
<1> HIDE DEF u
<1>8. [u EXCEPT !.ok = TRUE] \in V /\ [u EXCEPT !.ok = TRUE].ok = TRUE
  BY <1>7, WriterSet DEF V
<1> QED
  BY <1>1, <1>8 DEF V

\* The params of an event.
LEMMA ParamWalk ==
  ASSUME NEW b, NEW n, n => b, NEW p \in Path, p # <<>>, NEW v \in Writers(p, n),
         Last(p).n \in Parents["param"], NEW list \in Seq(Filled(b))
  PROVE  Walk(xml_write_event_param, v, list) \in Writers(p, n) /\ Walk(xml_write_event_param, v, list).ok
<1> DEFINE V == Writers(p, n)
           X == Filled(b)
           D == 1..Len(list)
           After(y, x) == IF y.ok THEN xml_write_event_param(y, x) ELSE y
           Rec(h) == h = [s \in SUBSET D |->
                            IF s = {} THEN v ELSE After(h[s \ {Max(s)}], list[Max(s)])]
           fold == CHOOSE h : Rec(h)
           A == [y \in V |-> [x \in X |-> After(y, x)]]
           u == fold[D]
<1>0. DOMAIN list = D /\ Len(list) \in Nat
  OBVIOUS
<1>1. Walk(xml_write_event_param, v, list) = [u EXCEPT !.ok = TRUE]
  BY <1>0 DEF Walk, FoldLeft, MapThenFoldSet
<1>2. ASSUME NEW y \in V, NEW x \in X
      PROVE  After(y, x) \in V
  <2> DEFINE e == Element("param", x)
             q == Append(p, e)
             s == Start(y, e)
  <2>1. x \in Ids /\ "param" \in DOMAIN Parents /\ (n => x # <<>>)
    BY DEF Filled, Ids, Parents
  <2>2. /\ s \in Writers(q, n)
        /\ \A z \in Writers(q, n) : End(z) \in Writers(p, n)
    BY <2>1, StartedUnder
  <2>3. xml_write_event_param(y, x) = IF x = <<>> THEN Stopped(s) ELSE End(s)
    BY DEF xml_write_event_param
  <2> HIDE DEF q, s
  <2>4. CASE x = <<>>
    <3>1. ~n
      BY <2>1, <2>4
    <3>2. Stopped(s) \in Writers(q, n)
      BY <2>2, WriterSet DEF Stopped
    <3> QED
      BY <2>3, <2>4, <3>1, <3>2, Writing
  <2>5. CASE x # <<>>
    BY <2>2, <2>3, <2>5
  <2> QED
    BY <2>4, <2>5
<1> HIDE DEF After, V, X
<1>3. A \in [V -> [X -> V]] /\ \A y \in V, x \in X : A[y][x] = After(y, x)
  BY <1>2
<1> HIDE DEF A
<1>4. PICK h : Walks(h, list, V, X, v, A)
  BY <1>3, WalkExists DEF V, X
<1>5. Rec(h)
  BY <1>3, <1>4 DEF Walks, PlaceSets
<1>6. Rec(fold)
  <2> HIDE DEF Rec
  <2> QED
    BY <1>5
<1>7. u \in V
  <2> HIDE DEF fold
  <2>1. ASSUME NEW s \in SUBSET D
        PROVE  fold[s] = IF s = {} THEN v ELSE After(fold[s \ {Max(s)}], list[Max(s)])
    BY <1>6
  <2>2. fold[{}] \in V
    BY <2>1 DEF V
  <2>3. ASSUME NEW s \in SUBSET D, s # {}, fold[s \ {Max(s)}] \in V
        PROVE  fold[s] \in V
    <3>1. list[Max(s)] \in X
      BY <1>4, <2>3 DEF Walks, PlaceSets
    <3> QED
      BY <1>2, <2>1, <2>3, <3>1
  <2> QED
    BY <1>0, <2>2, <2>3, WalkIn
<1> HIDE DEF u
<1>8. [u EXCEPT !.ok = TRUE] \in V /\ [u EXCEPT !.ok = TRUE].ok = TRUE
  BY <1>7, WriterSet DEF V
<1> QED
  BY <1>1, <1>8 DEF V

-----------------------------------------------------------------------------
(* The elements of a set.                                                   *)

\* The lists of steps of a set.
LEMMA ListWritten ==
  ASSUME NEW b, NEW n, n => b, NEW p \in Path, p # <<>>, NEW v \in Writers(p, n), v.ok,
         NEW t \in ListTags, Last(p).n \in Parents[t], NEW lists \in Lists(b)
  PROVE  StepLists(v, t, lists) \in Writers(p, n) /\ StepLists(v, t, lists).ok
<1>1. CASE lists = <<>>
  BY <1>1 DEF StepLists
<1>2. CASE lists # <<>>
  <2> DEFINE e == Element(t, NULL)
             q == Append(p, e)
             s == Start(v, e)
             L == Seq(ListSteps(b))
             u == Walk(xml_write_pre_post_step, s, Head(lists))
  <2>1. t \in DOMAIN Parents /\ NULL \in Ids /\ t \in Parents["step"]
    BY DEF ListTags, Parents, Ids, Values
  <2>2. /\ q \in Path /\ q # <<>> /\ Last(q).n = t /\ s \in Writers(q, n)
        /\ \A z \in Writers(q, n) : End(z) \in Writers(p, n) /\ End(z).ok = z.ok
    BY <2>1, StartedUnder
  <2>3. Head(lists) \in L
    <3>1. lists \in Seq(L)
      BY DEF Lists
    <3> HIDE DEF L
    <3> QED
      BY <1>2, <3>1
  <2> HIDE DEF q, s
  <2>4. u \in Writers(q, n) /\ u.ok
    BY <2>1, <2>2, <2>3, PrePostWalk
  <2>5. StepLists(v, t, lists) = End(u)
    BY <1>2 DEF StepLists, s
  <2> HIDE DEF u
  <2>6. End(u) \in Writers(p, n) /\ End(u).ok = u.ok
    BY <2>2, <2>4
  <2> QED
    BY <2>4, <2>5, <2>6
<1> QED
  BY <1>1, <1>2

\* Starting an element stops no walk.
LEMMA StartIsOk ==
  ASSUME NEW n, NEW p, NEW v \in Writers(p, n), v.ok, NEW x
  PROVE  Start(v, x).ok
BY DEF Writers, Start

\* A step or an event of a case, with its params, written and closed.
LEMMA StepWritten ==
  ASSUME NEW b, NEW n, n => b, NEW p \in Path, p # <<>>, Last(p).n = "case",
         NEW v \in Writers(p, n), v.ok, NEW x \in StepsOf(b), NEW c \in CasesOf(b)
  PROVE  xml_write_step(v, x, c) \in Writers(p, n) /\ xml_write_step(v, x, c).ok
<1>0. x.params \in Seq(Filled(b)) /\ c.reboot \in Lists(b)
  BY DEF StepsOf, CasesOf
<1>1. CASE x.event
  <2> DEFINE e == Element("event", NULL)
             q == Append(p, e)
             s == Start(v, e)
             u == Walk(xml_write_event_param, s, x.params)
  <2>1. "event" \in DOMAIN Parents /\ NULL \in Ids /\ "case" \in Parents["event"]
        /\ "event" \in Parents["param"]
    BY DEF Parents, Ids, Values
  <2>2. /\ q \in Path /\ q # <<>> /\ Last(q).n = "event" /\ s \in Writers(q, n)
        /\ \A z \in Writers(q, n) : End(z) \in Writers(p, n) /\ End(z).ok = z.ok
    BY <2>1, StartedUnder
  <2> HIDE DEF q, s
  <2>3. u \in Writers(q, n) /\ u.ok
    BY <1>0, <2>1, <2>2, ParamWalk
  <2>4. xml_write_step(v, x, c) = End(u)
    BY <1>1 DEF xml_write_step, xml_write_event, s
  <2> HIDE DEF u
  <2>5. End(u) \in Writers(p, n) /\ End(u).ok = u.ok
    BY <2>2, <2>3
  <2> QED
    BY <2>3, <2>4, <2>5
<1>2. CASE ~x.event
  <2> DEFINE id == x.cmd
             e == Element("step", id)
             q == Append(p, e)
             s == Start(v, e)
             u == IF x.reboot THEN StepLists(s, "post_reboot_steps", c.reboot) ELSE s
  <2>1. /\ "step" \in DOMAIN Parents /\ id \in Ids /\ "case" \in Parents["step"]
        /\ "post_reboot_steps" \in ListTags /\ "step" \in Parents["post_reboot_steps"]
    BY DEF Parents, Ids, StepsOf, ListTags
  <2> HIDE DEF id
  <2>2. /\ q \in Path /\ q # <<>> /\ Last(q).n = "step" /\ s \in Writers(q, n)
        /\ \A z \in Writers(q, n) : End(z) \in Writers(p, n) /\ End(z).ok = z.ok
    BY <2>1, StartedUnder
  <2> HIDE DEF e
  <2>6. s.ok
    BY StartIsOk
  <2> HIDE DEF q, s
  <2>3. u \in Writers(q, n) /\ u.ok
    <3>1. /\ StepLists(s, "post_reboot_steps", c.reboot) \in Writers(q, n)
          /\ StepLists(s, "post_reboot_steps", c.reboot).ok
      BY <1>0, <2>1, <2>2, <2>6, ListWritten
    <3> QED
      BY <2>2, <2>6, <3>1
  <2>4. xml_write_step(v, x, c) = End(u)
    BY <1>2 DEF xml_write_step, s, e, id
  <2> HIDE DEF u
  <2>5. End(u) \in Writers(p, n) /\ End(u).ok = u.ok
    BY <2>2, <2>3
  <2> QED
    BY <2>3, <2>4, <2>5
<1> QED
  BY <1>1, <1>2

CaseSteps(v, c, list) == Walk(LAMBDA y, x : xml_write_step(y, x, c), v, list)

\* The steps of a case.
LEMMA StepWalk ==
  ASSUME NEW b, NEW n, n => b, NEW p \in Path, p # <<>>, Last(p).n = "case",
         NEW v \in Writers(p, n), NEW c \in CasesOf(b), NEW list \in Seq(StepsOf(b))
  PROVE  CaseSteps(v, c, list) \in Writers(p, n) /\ CaseSteps(v, c, list).ok
<1> DEFINE V == Writers(p, n)
           X == StepsOf(b)
           D == 1..Len(list)
           After(y, x) == IF y.ok THEN xml_write_step(y, x, c) ELSE y
           Rec(h) == h = [s \in SUBSET D |->
                            IF s = {} THEN v ELSE After(h[s \ {Max(s)}], list[Max(s)])]
           fold == CHOOSE h : Rec(h)
           A == [y \in V |-> [x \in X |-> After(y, x)]]
           u == fold[D]
<1>0. DOMAIN list = D /\ Len(list) \in Nat
  OBVIOUS
<1>1. CaseSteps(v, c, list) = [u EXCEPT !.ok = TRUE]
  BY <1>0 DEF CaseSteps, Walk, FoldLeft, MapThenFoldSet
<1>2. ASSUME NEW y \in V, NEW x \in X
      PROVE  After(y, x) \in V
  BY <1>2, StepWritten
<1> HIDE DEF After, V, X
<1>3. A \in [V -> [X -> V]] /\ \A y \in V, x \in X : A[y][x] = After(y, x)
  BY <1>2
<1> HIDE DEF A
<1>4. PICK h : Walks(h, list, V, X, v, A)
  BY <1>3, WalkExists DEF V, X
<1>5. Rec(h)
  BY <1>3, <1>4 DEF Walks, PlaceSets
<1>6. Rec(fold)
  <2> HIDE DEF Rec
  <2> QED
    BY <1>5
<1>7. u \in V
  <2> HIDE DEF fold
  <2>1. ASSUME NEW s \in SUBSET D
        PROVE  fold[s] = IF s = {} THEN v ELSE After(fold[s \ {Max(s)}], list[Max(s)])
    BY <1>6
  <2>2. fold[{}] \in V
    BY <2>1 DEF V
  <2>3. ASSUME NEW s \in SUBSET D, s # {}, fold[s \ {Max(s)}] \in V
        PROVE  fold[s] \in V
    <3>1. list[Max(s)] \in X
      BY <1>4, <2>3 DEF Walks, PlaceSets
    <3> QED
      BY <1>2, <2>1, <2>3, <3>1
  <2> QED
    BY <1>0, <2>2, <2>3, WalkIn
<1> HIDE DEF u
<1>8. [u EXCEPT !.ok = TRUE] \in V /\ [u EXCEPT !.ok = TRUE].ok = TRUE
  BY <1>7, WriterSet DEF V
<1> QED
  BY <1>1, <1>8 DEF V

\* Neither measurements.
LEMMA MeasurementWalk ==
  ASSUME NEW n, NEW p, NEW v \in Writers(p, n), NEW list \in Seq({})
  PROVE  Walk(xml_write_measurement, v, list) \in Writers(p, n) /\ Walk(xml_write_measurement, v, list).ok
<1> DEFINE V == Writers(p, n)
           X == {}
           D == 1..Len(list)
           After(y, x) == IF y.ok THEN xml_write_measurement(y, x) ELSE y
           Rec(h) == h = [s \in SUBSET D |->
                            IF s = {} THEN v ELSE After(h[s \ {Max(s)}], list[Max(s)])]
           fold == CHOOSE h : Rec(h)
           A == [y \in V |-> [x \in X |-> After(y, x)]]
           u == fold[D]
<1>0. DOMAIN list = D /\ Len(list) \in Nat
  OBVIOUS
<1>1. Walk(xml_write_measurement, v, list) = [u EXCEPT !.ok = TRUE]
  BY <1>0 DEF Walk, FoldLeft, MapThenFoldSet
<1>2. ASSUME NEW y \in V, NEW x \in X
      PROVE  After(y, x) \in V
  OBVIOUS
<1> HIDE DEF After, V, X
<1>3. A \in [V -> [X -> V]] /\ \A y \in V, x \in X : A[y][x] = After(y, x)
  BY <1>2
<1> HIDE DEF A
<1>4. PICK h : Walks(h, list, V, X, v, A)
  BY <1>3, WalkExists DEF V, X
<1>5. Rec(h)
  BY <1>3, <1>4 DEF Walks, PlaceSets
<1>6. Rec(fold)
  <2> HIDE DEF Rec
  <2> QED
    BY <1>5
<1>7. u \in V
  <2> HIDE DEF fold
  <2>1. ASSUME NEW s \in SUBSET D
        PROVE  fold[s] = IF s = {} THEN v ELSE After(fold[s \ {Max(s)}], list[Max(s)])
    BY <1>6
  <2>2. fold[{}] \in V
    BY <2>1 DEF V
  <2>3. ASSUME NEW s \in SUBSET D, s # {}, fold[s \ {Max(s)}] \in V
        PROVE  fold[s] \in V
    <3>1. list[Max(s)] \in X
      BY <1>4, <2>3 DEF Walks, PlaceSets
    <3> QED
      BY <1>2, <2>1, <2>3, <3>1
  <2> QED
    BY <1>0, <2>2, <2>3, WalkIn
<1> HIDE DEF u
<1>8. [u EXCEPT !.ok = TRUE] \in V /\ [u EXCEPT !.ok = TRUE].ok = TRUE
  BY <1>7, WriterSet DEF V
<1> QED
  BY <1>1, <1>8 DEF V

\* nor series, which are the subject of Measurements.
LEMMA SeriesWalk ==
  ASSUME NEW n, NEW p, NEW v \in Writers(p, n), NEW list \in Seq({})
  PROVE  Walk(xml_write_series, v, list) \in Writers(p, n) /\ Walk(xml_write_series, v, list).ok
<1> DEFINE V == Writers(p, n)
           X == {}
           D == 1..Len(list)
           After(y, x) == IF y.ok THEN xml_write_series(y, x) ELSE y
           Rec(h) == h = [s \in SUBSET D |->
                            IF s = {} THEN v ELSE After(h[s \ {Max(s)}], list[Max(s)])]
           fold == CHOOSE h : Rec(h)
           A == [y \in V |-> [x \in X |-> After(y, x)]]
           u == fold[D]
<1>0. DOMAIN list = D /\ Len(list) \in Nat
  OBVIOUS
<1>1. Walk(xml_write_series, v, list) = [u EXCEPT !.ok = TRUE]
  BY <1>0 DEF Walk, FoldLeft, MapThenFoldSet
<1>2. ASSUME NEW y \in V, NEW x \in X
      PROVE  After(y, x) \in V
  OBVIOUS
<1> HIDE DEF After, V, X
<1>3. A \in [V -> [X -> V]] /\ \A y \in V, x \in X : A[y][x] = After(y, x)
  BY <1>2
<1> HIDE DEF A
<1>4. PICK h : Walks(h, list, V, X, v, A)
  BY <1>3, WalkExists DEF V, X
<1>5. Rec(h)
  BY <1>3, <1>4 DEF Walks, PlaceSets
<1>6. Rec(fold)
  <2> HIDE DEF Rec
  <2> QED
    BY <1>5
<1>7. u \in V
  <2> HIDE DEF fold
  <2>1. ASSUME NEW s \in SUBSET D
        PROVE  fold[s] = IF s = {} THEN v ELSE After(fold[s \ {Max(s)}], list[Max(s)])
    BY <1>6
  <2>2. fold[{}] \in V
    BY <2>1 DEF V
  <2>3. ASSUME NEW s \in SUBSET D, s # {}, fold[s \ {Max(s)}] \in V
        PROVE  fold[s] \in V
    <3>1. list[Max(s)] \in X
      BY <1>4, <2>3 DEF Walks, PlaceSets
    <3> QED
      BY <1>2, <2>1, <2>3, <3>1
  <2> QED
    BY <1>0, <2>2, <2>3, WalkIn
<1> HIDE DEF u
<1>8. [u EXCEPT !.ok = TRUE] \in V /\ [u EXCEPT !.ok = TRUE].ok = TRUE
  BY <1>7, WriterSet DEF V
<1> QED
  BY <1>1, <1>8 DEF V

\* A case of a set, with its steps, files and results.
LEMMA CaseWritten ==
  ASSUME NEW b, NEW n, n => b, NEW p \in Path, p # <<>>, Last(p).n = "set",
         NEW v \in Writers(p, n), v.ok, NEW c \in CasesOf(b)
  PROVE  xml_write_case(v, c) \in Writers(p, n) /\ xml_write_case(v, c).ok
<1>0. /\ c.measurements \in Seq({}) /\ c.series \in Seq({}) /\ c.steps \in Seq(StepsOf(b))
      /\ c.gen.name \in Values
  <2>1. c.measurements = <<>> /\ c.series = <<>> /\ <<>> \in Seq({})
    BY DEF CasesOf
  <2>2. c.steps \in Seq(StepsOf(b)) /\ c.gen \in Gens
    BY DEF CasesOf
  <2> QED
    BY <2>1, <2>2 DEF Gens, GenAttributes
<1> DEFINE e == Element("case", c.gen.name)
           q == Append(p, e)
           opened == Start(v, e)
           told == LeafIf(c.described, opened, Element("description", NULL))
           stepped == CaseSteps(told, c, c.steps)
           measured == Walk(xml_write_measurement, stepped, c.measurements)
           all == Walk(xml_write_series, measured, c.series)
<1>1. /\ "case" \in DOMAIN Parents /\ c.gen.name \in Ids /\ "set" \in Parents["case"]
      /\ "description" \in DOMAIN Parents /\ NULL \in Ids /\ "case" \in Parents["description"]
  BY <1>0 DEF Parents, Ids, Values
<1>2. /\ q \in Path /\ q # <<>> /\ Last(q).n = "case" /\ opened \in Writers(q, n)
      /\ \A z \in Writers(q, n) : End(z) \in Writers(p, n) /\ End(z).ok = z.ok
  BY <1>1, StartedUnder
<1>3. xml_write_case(v, c) = IF c.filtered THEN v ELSE End(all)
  BY Zenon DEF xml_write_case, CaseSteps
<1> HIDE DEF q, opened
<1>4. told \in Writers(q, n)
  BY <1>1, <1>2, LeafWritten
<1> HIDE DEF told
<1>5. stepped \in Writers(q, n)
  BY <1>0, <1>2, <1>4, StepWalk
<1> HIDE DEF stepped
<1>6. measured \in Writers(q, n)
  BY <1>0, <1>5, MeasurementWalk
<1> HIDE DEF measured
<1>7. all \in Writers(q, n) /\ all.ok
  BY <1>0, <1>6, SeriesWalk
<1> HIDE DEF all
<1>8. End(all) \in Writers(p, n) /\ End(all).ok = all.ok
  BY <1>2, <1>7
<1> QED
  BY <1>3, <1>7, <1>8

\* The cases of a set.
LEMMA CaseWalk ==
  ASSUME NEW b, NEW n, n => b, NEW p \in Path, p # <<>>, Last(p).n = "set",
         NEW v \in Writers(p, n), NEW list \in Seq(CasesOf(b))
  PROVE  Walk(xml_write_case, v, list) \in Writers(p, n) /\ Walk(xml_write_case, v, list).ok
<1> DEFINE V == Writers(p, n)
           X == CasesOf(b)
           D == 1..Len(list)
           After(y, x) == IF y.ok THEN xml_write_case(y, x) ELSE y
           Rec(h) == h = [s \in SUBSET D |->
                            IF s = {} THEN v ELSE After(h[s \ {Max(s)}], list[Max(s)])]
           fold == CHOOSE h : Rec(h)
           A == [y \in V |-> [x \in X |-> After(y, x)]]
           u == fold[D]
<1>0. DOMAIN list = D /\ Len(list) \in Nat
  OBVIOUS
<1>1. Walk(xml_write_case, v, list) = [u EXCEPT !.ok = TRUE]
  BY <1>0 DEF Walk, FoldLeft, MapThenFoldSet
<1>2. ASSUME NEW y \in V, NEW x \in X
      PROVE  After(y, x) \in V
  BY <1>2, CaseWritten
<1> HIDE DEF After, V, X
<1>3. A \in [V -> [X -> V]] /\ \A y \in V, x \in X : A[y][x] = After(y, x)
  BY <1>2
<1> HIDE DEF A
<1>4. PICK h : Walks(h, list, V, X, v, A)
  BY <1>3, WalkExists DEF V, X
<1>5. Rec(h)
  BY <1>3, <1>4 DEF Walks, PlaceSets
<1>6. Rec(fold)
  <2> HIDE DEF Rec
  <2> QED
    BY <1>5
<1>7. u \in V
  <2> HIDE DEF fold
  <2>1. ASSUME NEW s \in SUBSET D
        PROVE  fold[s] = IF s = {} THEN v ELSE After(fold[s \ {Max(s)}], list[Max(s)])
    BY <1>6
  <2>2. fold[{}] \in V
    BY <2>1 DEF V
  <2>3. ASSUME NEW s \in SUBSET D, s # {}, fold[s \ {Max(s)}] \in V
        PROVE  fold[s] \in V
    <3>1. list[Max(s)] \in X
      BY <1>4, <2>3 DEF Walks, PlaceSets
    <3> QED
      BY <1>2, <2>1, <2>3, <3>1
  <2> QED
    BY <1>0, <2>2, <2>3, WalkIn
<1> HIDE DEF u
<1>8. [u EXCEPT !.ok = TRUE] \in V /\ [u EXCEPT !.ok = TRUE].ok = TRUE
  BY <1>7, WriterSet DEF V
<1> QED
  BY <1>1, <1>8 DEF V

\* The files of a set.
LEMMA FileWalk ==
  ASSUME NEW n, NEW p \in Path, p # <<>>, Last(p).n = "get",
         NEW v \in Writers(p, n), NEW list \in Seq(FilesOf)
  PROVE  Walk(xml_write_file_data, v, list) \in Writers(p, n) /\ Walk(xml_write_file_data, v, list).ok
<1> DEFINE V == Writers(p, n)
           X == FilesOf
           D == 1..Len(list)
           After(y, x) == IF y.ok THEN xml_write_file_data(y, x) ELSE y
           Rec(h) == h = [s \in SUBSET D |->
                            IF s = {} THEN v ELSE After(h[s \ {Max(s)}], list[Max(s)])]
           fold == CHOOSE h : Rec(h)
           A == [y \in V |-> [x \in X |-> After(y, x)]]
           u == fold[D]
<1>0. DOMAIN list = D /\ Len(list) \in Nat
  OBVIOUS
<1>1. Walk(xml_write_file_data, v, list) = [u EXCEPT !.ok = TRUE]
  BY <1>0 DEF Walk, FoldLeft, MapThenFoldSet
<1>2. ASSUME NEW y \in V, NEW x \in X
      PROVE  After(y, x) \in V
  <2>1. x.name \in Ids /\ "file" \in DOMAIN Parents /\ "get" \in Parents["file"]
    BY DEF FilesOf, Ids, Values, Parents
  <2>2. xml_write_file_data(y, x) = Leaf(y, Element("file", x.name))
    BY DEF xml_write_file_data
  <2>3. Leaf(y, Element("file", x.name)) \in Writers(p, n)
    BY <2>1, LeafWritten
  <2> QED
    BY <2>2, <2>3
<1> HIDE DEF After, V, X
<1>3. A \in [V -> [X -> V]] /\ \A y \in V, x \in X : A[y][x] = After(y, x)
  BY <1>2
<1> HIDE DEF A
<1>4. PICK h : Walks(h, list, V, X, v, A)
  BY <1>3, WalkExists DEF V, X
<1>5. Rec(h)
  BY <1>3, <1>4 DEF Walks, PlaceSets
<1>6. Rec(fold)
  <2> HIDE DEF Rec
  <2> QED
    BY <1>5
<1>7. u \in V
  <2> HIDE DEF fold
  <2>1. ASSUME NEW s \in SUBSET D
        PROVE  fold[s] = IF s = {} THEN v ELSE After(fold[s \ {Max(s)}], list[Max(s)])
    BY <1>6
  <2>2. fold[{}] \in V
    BY <2>1 DEF V
  <2>3. ASSUME NEW s \in SUBSET D, s # {}, fold[s \ {Max(s)}] \in V
        PROVE  fold[s] \in V
    <3>1. list[Max(s)] \in X
      BY <1>4, <2>3 DEF Walks, PlaceSets
    <3> QED
      BY <1>2, <2>1, <2>3, <3>1
  <2> QED
    BY <1>0, <2>2, <2>3, WalkIn
<1> HIDE DEF u
<1>8. [u EXCEPT !.ok = TRUE] \in V /\ [u EXCEPT !.ok = TRUE].ok = TRUE
  BY <1>7, WriterSet DEF V
<1> QED
  BY <1>1, <1>8 DEF V

-----------------------------------------------------------------------------
(* The sets, the suites and the definition.                                 *)

\* An element that is written only on a condition stops no walk either.
LEMMA LeafIsOk ==
  ASSUME NEW n, NEW p, NEW v \in Writers(p, n), v.ok, NEW x, NEW cond
  PROVE  LeafIf(cond, v, x).ok
<1> DEFINE s == Start(v, x)
<1>1. s.ok /\ s = [v EXCEPT !.open = s.open, !.out = s.out]
  BY DEF Start, Writers
<1>2. End(s).ok
  <2>1. s = [open |-> s.open, out |-> s.out, ok |-> v.ok]
    BY <1>1 DEF Writers
  <2> HIDE DEF s
  <2> QED
    BY <1>1, <2>1 DEF End
<1> QED
  BY <1>2 DEF LeafIf, Leaf

\* What is written of a set when its cases have run.
LEMMA SetWritten ==
  ASSUME NEW b, NEW n, n => b, NEW p \in Path, p # <<>>, Last(p).n = "set",
         NEW v \in Writers(p, n), v.ok, NEW s \in SetsOf(b)
  PROVE  xml_write_post_set(v, s) \in Writers(p, n) /\ xml_write_post_set(v, s).ok
<1> DEFINE told == LeafIf(s.described, v, Element("description", NULL))
           pre == StepLists(told, "pre_steps", s.pre_steps)
           cases == Walk(xml_write_case, pre, s.cases)
           post == StepLists(cases, "post_steps", s.post_steps)
           e == Element("get", NULL)
           q == Append(p, e)
           opened == Start(post, e)
           files == Walk(xml_write_file_data, opened, s.gets)
<1>1. /\ "description" \in DOMAIN Parents /\ NULL \in Ids /\ "set" \in Parents["description"]
      /\ "set" \in Parents["pre_steps"] /\ "set" \in Parents["post_steps"]
      /\ "get" \in DOMAIN Parents /\ "set" \in Parents["get"]
      /\ "pre_steps" \in ListTags /\ "post_steps" \in ListTags
  BY DEF Parents, Ids, Values, ListTags
<1>2. /\ s.pre_steps \in Lists(b) /\ s.post_steps \in Lists(b)
      /\ s.cases \in Seq(CasesOf(b)) /\ s.gets \in Seq(FilesOf)
  BY DEF SetsOf
<1>3. xml_write_post_set(v, s) = IF s.gets = <<>> THEN post ELSE End(files)
  BY DEF xml_write_post_set
<1>4. told \in Writers(p, n) /\ told.ok
  <2>1. told \in Writers(p, n)
    BY <1>1, LeafWritten
  <2>2. told.ok
    BY LeafIsOk
  <2> QED
    BY <2>1, <2>2
<1> HIDE DEF told
<1>5. pre \in Writers(p, n) /\ pre.ok
  BY <1>1, <1>2, <1>4, ListWritten
<1> HIDE DEF pre
<1>6. cases \in Writers(p, n) /\ cases.ok
  BY <1>2, <1>5, CaseWalk
<1> HIDE DEF cases
<1>7. post \in Writers(p, n) /\ post.ok
  BY <1>1, <1>2, <1>6, ListWritten
<1> HIDE DEF post
<1>8. /\ q \in Path /\ q # <<>> /\ Last(q).n = "get" /\ opened \in Writers(q, n)
      /\ \A z \in Writers(q, n) : End(z) \in Writers(p, n) /\ End(z).ok = z.ok
  BY <1>1, <1>7, StartedUnder
<1> HIDE DEF q, opened
<1>9. files \in Writers(q, n) /\ files.ok
  BY <1>2, <1>8, FileWalk
<1> HIDE DEF files
<1>10. End(files) \in Writers(p, n) /\ End(files).ok = files.ok
  BY <1>8, <1>9
<1> QED
  BY <1>3, <1>7, <1>9, <1>10

\* The report in plain text: whatever is open, and no walk is stopped.
LEMMA TextWritten ==
  ASSUME NEW p, NEW v \in Writers(p, FALSE), NEW t \in DOMAIN Parents, NEW id \in Ids
  PROVE  /\ txt_write(v, Element(t, id)) \in Writers(p, FALSE)
         /\ txt_write(v, Element(t, id)).ok = v.ok
<1> DEFINE e == Element(t, id)
           o == Append(v.out, <<e>>)
<1>1. e \in Elems
  BY DEF Element, Elems
<1> HIDE DEF e
<1>2. <<e>> \in Path
  BY <1>1 DEF Path
<1>3. v \in [open : Path, out : Seq(Path), ok : BOOLEAN]
  BY DEF Writers
<1>4. o \in Seq(Path)
  BY <1>2, <1>3
<1>5. txt_write(v, e) = [v EXCEPT !.out = o]
  BY DEF txt_write
<1> HIDE DEF o
<1>6. [v EXCEPT !.out = o] \in [open : Path, out : Seq(Path), ok : BOOLEAN]
      /\ [v EXCEPT !.out = o].ok = v.ok
  BY <1>3, <1>4
<1> QED
  BY <1>5, <1>6 DEF Writers, e

\* The steps of a case in plain text.
LEMMA TextStepWalk ==
  ASSUME NEW b, NEW p, NEW v \in Writers(p, FALSE), NEW list \in Seq(StepsOf(b))
  PROVE  Walk(txt_write_step, v, list) \in Writers(p, FALSE) /\ Walk(txt_write_step, v, list).ok
<1> DEFINE V == Writers(p, FALSE)
           X == StepsOf(b)
           D == 1..Len(list)
           After(y, x) == IF y.ok THEN txt_write_step(y, x) ELSE y
           Rec(h) == h = [s \in SUBSET D |->
                            IF s = {} THEN v ELSE After(h[s \ {Max(s)}], list[Max(s)])]
           fold == CHOOSE h : Rec(h)
           A == [y \in V |-> [x \in X |-> After(y, x)]]
           u == fold[D]
<1>0. DOMAIN list = D /\ Len(list) \in Nat
  OBVIOUS
<1>1. Walk(txt_write_step, v, list) = [u EXCEPT !.ok = TRUE]
  BY <1>0 DEF Walk, FoldLeft, MapThenFoldSet
<1>2. ASSUME NEW y \in V, NEW x \in X
      PROVE  After(y, x) \in V
  <2>1. x.cmd \in Ids /\ "step" \in DOMAIN Parents
    BY DEF StepsOf, Ids, Parents
  <2>2. txt_write(y, Element("step", x.cmd)) \in V
    BY <2>1, TextWritten
  <2> QED
    BY <2>2 DEF txt_write_step
<1> HIDE DEF After, V, X
<1>3. A \in [V -> [X -> V]] /\ \A y \in V, x \in X : A[y][x] = After(y, x)
  BY <1>2
<1> HIDE DEF A
<1>4. PICK h : Walks(h, list, V, X, v, A)
  BY <1>3, WalkExists DEF V, X
<1>5. Rec(h)
  BY <1>3, <1>4 DEF Walks, PlaceSets
<1>6. Rec(fold)
  <2> HIDE DEF Rec
  <2> QED
    BY <1>5
<1>7. u \in V
  <2> HIDE DEF fold
  <2>1. ASSUME NEW s \in SUBSET D
        PROVE  fold[s] = IF s = {} THEN v ELSE After(fold[s \ {Max(s)}], list[Max(s)])
    BY <1>6
  <2>2. fold[{}] \in V
    BY <2>1 DEF V
  <2>3. ASSUME NEW s \in SUBSET D, s # {}, fold[s \ {Max(s)}] \in V
        PROVE  fold[s] \in V
    <3>1. list[Max(s)] \in X
      BY <1>4, <2>3 DEF Walks, PlaceSets
    <3> QED
      BY <1>2, <2>1, <2>3, <3>1
  <2> QED
    BY <1>0, <2>2, <2>3, WalkIn
<1> HIDE DEF u
<1>8. [u EXCEPT !.ok = TRUE] \in V /\ [u EXCEPT !.ok = TRUE].ok = TRUE
  BY <1>7, WriterSet DEF V
<1> QED
  BY <1>1, <1>8 DEF V

\* The text report of a case; nothing is open in it.
LEMMA TextCaseWritten ==
  ASSUME NEW b, NEW p, NEW v \in Writers(p, FALSE), NEW c \in CasesOf(b)
  PROVE  txt_write_case(v, c) \in Writers(p, FALSE)
<1> DEFINE u == txt_write(v, Element("case", c.gen.name))
<1>1. c.gen \in Gens /\ c.steps \in Seq(StepsOf(b))
  BY DEF CasesOf
<1>2. c.gen.name \in Ids /\ "case" \in DOMAIN Parents
  BY <1>1 DEF Gens, GenAttributes, Ids, Parents
<1>3. u \in Writers(p, FALSE)
  BY <1>2, TextWritten
<1>4. txt_write_case(v, c) = IF c.filtered THEN v ELSE Walk(txt_write_step, u, c.steps)
  BY DEF txt_write_case
<1> HIDE DEF u
<1>5. Walk(txt_write_step, u, c.steps) \in Writers(p, FALSE)
  BY <1>1, <1>3, TextStepWalk
<1> QED
  BY <1>4, <1>5

\* The cases of a set in plain text.
LEMMA TextCaseWalk ==
  ASSUME NEW b, NEW p, NEW v \in Writers(p, FALSE), NEW list \in Seq(CasesOf(b))
  PROVE  Walk(txt_write_case, v, list) \in Writers(p, FALSE) /\ Walk(txt_write_case, v, list).ok
<1> DEFINE V == Writers(p, FALSE)
           X == CasesOf(b)
           D == 1..Len(list)
           After(y, x) == IF y.ok THEN txt_write_case(y, x) ELSE y
           Rec(h) == h = [s \in SUBSET D |->
                            IF s = {} THEN v ELSE After(h[s \ {Max(s)}], list[Max(s)])]
           fold == CHOOSE h : Rec(h)
           A == [y \in V |-> [x \in X |-> After(y, x)]]
           u == fold[D]
<1>0. DOMAIN list = D /\ Len(list) \in Nat
  OBVIOUS
<1>1. Walk(txt_write_case, v, list) = [u EXCEPT !.ok = TRUE]
  BY <1>0 DEF Walk, FoldLeft, MapThenFoldSet
<1>2. ASSUME NEW y \in V, NEW x \in X
      PROVE  After(y, x) \in V
  BY <1>2, TextCaseWritten
<1> HIDE DEF After, V, X
<1>3. A \in [V -> [X -> V]] /\ \A y \in V, x \in X : A[y][x] = After(y, x)
  BY <1>2
<1> HIDE DEF A
<1>4. PICK h : Walks(h, list, V, X, v, A)
  BY <1>3, WalkExists DEF V, X
<1>5. Rec(h)
  BY <1>3, <1>4 DEF Walks, PlaceSets
<1>6. Rec(fold)
  <2> HIDE DEF Rec
  <2> QED
    BY <1>5
<1>7. u \in V
  <2> HIDE DEF fold
  <2>1. ASSUME NEW s \in SUBSET D
        PROVE  fold[s] = IF s = {} THEN v ELSE After(fold[s \ {Max(s)}], list[Max(s)])
    BY <1>6
  <2>2. fold[{}] \in V
    BY <2>1 DEF V
  <2>3. ASSUME NEW s \in SUBSET D, s # {}, fold[s \ {Max(s)}] \in V
        PROVE  fold[s] \in V
    <3>1. list[Max(s)] \in X
      BY <1>4, <2>3 DEF Walks, PlaceSets
    <3> QED
      BY <1>2, <2>1, <2>3, <3>1
  <2> QED
    BY <1>0, <2>2, <2>3, WalkIn
<1> HIDE DEF u
<1>8. [u EXCEPT !.ok = TRUE] \in V /\ [u EXCEPT !.ok = TRUE].ok = TRUE
  BY <1>7, WriterSet DEF V
<1> QED
  BY <1>1, <1>8 DEF V

\* process_set() writes the set, and what was open is open again.
LEMMA SetProcessed ==
  ASSUME NEW b, NEW n, n => b /\ ~opts.text, NEW p \in Path, p # <<>>, MayHold(Last(p).n, "set"),
         w \in Writers(p, n), w.ok, NEW s \in SetsOf(b), process_set(s)
  PROVE  w' \in Writers(p, n) /\ w'.ok
<1>1. CASE SkipSet(s)
  BY <1>1 DEF SkipSet
<1>2. CASE RunSet(s)
  <2>1. PICK failed \in BOOLEAN :
          w' = EndSet(write_post_set(opts, write_pre_set(opts, w, s),
                                     [s EXCEPT !.cases = CasesAfter(s, failed)]))
    BY <1>2 DEF RunSet
  <2> DEFINE cs == CasesAfter(s, failed)
             r == [s EXCEPT !.cases = cs]
             name == s.gen.name
             e == Element("set", name)
  <2>2. name \in Ids
    <3>1. s.gen \in Gens
      BY DEF SetsOf
    <3> QED
      BY <3>1 DEF Gens, GenAttributes, Ids
  <2>3. cs \in Seq(CasesOf(b))
    <3> DEFINE C == CasesOf(b)
               ps == [i \in DOMAIN s.cases |-> process_case(s.cases[i])]
    <3>1. s.cases \in Seq(C)
      BY DEF SetsOf
    <3>2. ASSUME NEW x \in C PROVE process_case(x) \in C
      <4>1. (WrongMode(x) \/ filter_case(opts.filters, x)) \in BOOLEAN
        OBVIOUS
      <4> QED
        BY <4>1 DEF process_case, CasesOf
    <3> HIDE DEF C
    <3>3. ps \in Seq(C)
      <4> DEFINE m == Len(s.cases)
      <4>1. m \in Nat /\ DOMAIN s.cases = 1..m /\ \A i \in 1..m : s.cases[i] \in C
        BY <3>1
      <4> HIDE DEF m
      <4>2. ps \in [1..m -> C]
        BY <3>2, <4>1
      <4> HIDE DEF ps
      <4> QED
        BY <4>1, <4>2
    <3> HIDE DEF ps
    <3>4. cs = IF failed THEN s.cases ELSE ps
      BY DEF CasesAfter, ps
    <3> HIDE DEF cs
    <3> QED
      BY <3>1, <3>3, <3>4 DEF C
  <2> HIDE DEF cs
  <2>4. r \in SetsOf(b) /\ r.cases = cs
    <3>1. \A x \in Seq(CasesOf(b)) :
            [s EXCEPT !.cases = x] \in SetsOf(b) /\ [s EXCEPT !.cases = x].cases = x
      BY UpdatedSets
    <3> QED
      BY <2>3, <3>1
  <2> HIDE DEF r
  <2>5. CASE ~opts.text
    <3> DEFINE q == Append(p, e)
               opened == Start(w, e)
               u == xml_write_post_set(opened, r)
    <3>1. "set" \in DOMAIN Parents
      BY DEF Parents
    <3> HIDE DEF name
    <3>2. /\ q \in Path /\ q # <<>> /\ Last(q).n = "set" /\ opened \in Writers(q, n)
          /\ \A z \in Writers(q, n) : End(z) \in Writers(p, n) /\ End(z).ok = z.ok
      BY <2>2, <3>1, StartedUnder
    <3> HIDE DEF q, e
    <3>3. opened.ok
      BY StartIsOk
    <3>4. w' = End(u)
      BY <2>1, <2>5 DEF EndSet, write_post_set, write_pre_set, xml_write_pre_set, r, cs, e, name
    <3> HIDE DEF opened
    <3>5. u \in Writers(q, n) /\ u.ok
      BY <2>4, <3>2, <3>3, SetWritten
    <3> HIDE DEF u
    <3>6. End(u) \in Writers(p, n) /\ End(u).ok = u.ok
      BY <3>2, <3>5
    <3> QED
      BY <3>4, <3>5, <3>6
  <2>6. CASE opts.text
    <3> DEFINE opened == txt_write(w, e)
               u == Walk(txt_write_case, opened, r.cases)
    <3>1. ~n /\ "set" \in DOMAIN Parents
      BY <2>6 DEF Parents
    <3>2. w \in Writers(p, FALSE) /\ \A z \in Writers(p, FALSE) : z \in Writers(p, n)
      BY <3>1 DEF Writers
    <3>3. opened \in Writers(p, FALSE)
      BY <2>2, <3>1, <3>2, TextWritten
    <3>4. w' = u
      BY <2>1, <2>6 DEF EndSet, write_post_set, write_pre_set, txt_write_pre_set,
                        txt_write_post_set, r, cs
    <3> HIDE DEF opened
    <3>5. u \in Writers(p, FALSE) /\ u.ok
      BY <2>3, <2>4, <3>3, TextCaseWalk
    <3> HIDE DEF u
    <3> QED
      BY <3>2, <3>4, <3>5
  <2> QED
    BY <2>5, <2>6
<1> QED
  BY <1>1, <1>2 DEF process_set

-----------------------------------------------------------------------------
(* What is open at a place of the file.                                     *)

RootPath  == <<Element("testresults", NULL)>>
SuitePath(u) == Append(RootPath, Element("suite", u.gen.name))
OpenPath(u) == IF u.live THEN SuitePath(u) ELSE RootPath

\* n: the report is XML and every element can be closed. Nothing is written
\* after the end of the definition.
WrittenAt(n, c) ==
  /\ n <=> Closable /\ ~opts.text
  /\ w.ok /\ w \in Writers(w.open, n)
  /\ c.level # "end" => w \in Writers(OpenPath(suite), n)

\* What a writer has open is open.
LEMMA AnyOpen ==
  ASSUME NEW n, NEW p, NEW v \in Writers(p, n)
  PROVE  v \in Writers(v.open, n)
BY DEF Writers

\* The root of the results.
LEMMA RootIs == RootPath \in Path /\ RootPath # <<>> /\ Last(RootPath).n = "testresults"
<1> DEFINE e == Element("testresults", NULL)
<1>1. e \in Elems /\ e.n = "testresults"
  BY DEF Element, Elems, Parents, Ids, Values
<1> HIDE DEF e
<1>2. <<e>> \in Seq(Elems) /\ <<e>> # <<>> /\ Last(<<e>>) = e
  BY <1>1 DEF Last
<1> QED
  BY <1>1, <1>2 DEF RootPath, e, Path

\* The path of a suite under it.
LEMMA SuiteIs ==
  ASSUME NEW u, u.gen \in Gens
  PROVE  /\ SuitePath(u) \in Path /\ SuitePath(u) # <<>> /\ Last(SuitePath(u)).n = "suite"
         /\ u.gen.name \in Ids
<1> DEFINE name == u.gen.name
<1>1. name \in Ids
  BY DEF Gens, GenAttributes, Ids
<1>2. "suite" \in DOMAIN Parents /\ "testresults" \in Parents["suite"]
  BY DEF Parents
<1> HIDE DEF name
<1> DEFINE q == Append(RootPath, Element("suite", name))
<1>3. q \in Path /\ q # <<>> /\ Last(q).n = "suite"
  BY <1>1, <1>2, RootIs, UnderFits
<1>4. SuitePath(u) = q
  BY DEF SuitePath, name
<1> QED
  BY <1>1, <1>3, <1>4 DEF name

\* At the start only the root has been written.
LEMMA StartWrites ==
  ASSUME Init, NEW n, n <=> (Closable /\ ~opts.text), NEW c
  PROVE  WrittenAt(n, c)
<1>1. w = init_result_logger(opts) /\ ~suite.live
  BY DEF Init, Nowhere
<1>2. NewWriter \in Writers(<<>>, n) /\ NewWriter.ok
  BY DEF NewWriter, Writers, Path, Nested
<1>3. w \in Writers(RootPath, n) /\ w.ok
  <2>1. CASE opts.text
    <3>1. w = NewWriter
      BY <1>1, <2>1 DEF init_result_logger
    <3> QED
      BY <1>2, <2>1, <3>1, Writing
  <2>2. CASE ~opts.text
    <3> DEFINE x == Element("vcsurl", NULL)
               y == Element("testresults", NULL)
               u == LeafIf(opts.vcsurl, NewWriter, x)
               s == Start(NewWriter, x)
               v == Start(u, y)
    <3>1. /\ x \in Elems /\ x.n = "vcsurl" /\ y \in Elems /\ y.n = "testresults"
          /\ y.n \in Roots /\ (opts.vcsurl => x.n \in Roots)
      BY DEF Element, Elems, Parents, Ids, Values, Roots
    <3> HIDE DEF x, y
    <3>2. ASSUME NEW z \in Elems, z.n \in Roots
          PROVE  /\ Append(<<>>, z) \in Path /\ Append(<<>>, z) # <<>> /\ Append(<<>>, z) = <<z>>
                 /\ Front(Append(<<>>, z)) = <<>> /\ PathFits(Append(<<>>, z)) /\ <<>> \in Path
      <4> DEFINE q == Append(<<>>, z)
                 T == Elems
      <4> HIDE DEF T
      <4>0. z \in T
        BY DEF T
      <4>1. q \in Seq(T) /\ Len(q) = 1 /\ q[1] = z /\ q # <<>> /\ <<>> \in Seq(T) /\ q = <<z>>
        BY <4>0
      <4> HIDE DEF q
      <4>2. PathFits(q)
        BY <3>2, <4>1 DEF PathFits
      <4>3. Front(q) = <<>>
        BY <4>1, SubSeqEmpty DEF Front
      <4> QED
        BY <4>1, <4>2, <4>3 DEF q, T, Path
    <3>3. opts.vcsurl => s \in Writers(Append(<<>>, x), n)
      BY <1>2, <3>1, <3>2, Started
    <3> HIDE DEF s
    <3>4. opts.vcsurl => End(s) \in Writers(<<>>, n)
      BY <3>1, <3>2, <3>3, Ended
    <3>5. u \in Writers(<<>>, n) /\ u.ok
      <4>1. u = IF opts.vcsurl THEN End(s) ELSE NewWriter
        BY DEF LeafIf, Leaf, s
      <4>2. u.ok
        BY <1>2, LeafIsOk
      <4> QED
        BY <1>2, <3>4, <4>1, <4>2
    <3> HIDE DEF u
    <3>6. v \in Writers(Append(<<>>, y), n) /\ v.ok
      BY <3>1, <3>2, <3>5, Started, StartIsOk
    <3>7. w = v
      BY <1>1, <2>2 DEF init_result_logger, v, u, x, y
    <3>8. Append(<<>>, y) = RootPath
      BY <3>1, <3>2 DEF RootPath, y
    <3> HIDE DEF v
    <3> QED
      BY <3>6, <3>7, <3>8
  <2> QED
    BY <2>1, <2>2
<1>4. w \in Writers(w.open, n)
  BY <1>3, AnyOpen
<1> QED
  BY <1>1, <1>3, <1>4 DEF WrittenAt, OpenPath

\* What a set is written under: its suite or, after a misread detector, the root.
LEMMA SetOpens ==
  ASSUME suite \in Suites, suite.live \/ DetectorIsMisread
  PROVE  /\ OpenPath(suite) \in Path /\ OpenPath(suite) # <<>>
         /\ MayHold(Last(OpenPath(suite)).n, "set")
<1>1. CASE suite.live
  <2>1. OpenPath(suite) = SuitePath(suite)
    BY <1>1 DEF OpenPath
  <2>2. suite.gen \in Gens
    BY DEF Suites
  <2>3. /\ SuitePath(suite) \in Path /\ SuitePath(suite) # <<>>
        /\ Last(SuitePath(suite)).n = "suite"
    BY <2>2, SuiteIs
  <2>4. MayHold("suite", "set")
    BY DEF MayHold, Parents
  <2> QED
    BY <2>1, <2>3, <2>4
<1>2. CASE ~suite.live
  <2>1. OpenPath(suite) = RootPath
    BY <1>2 DEF OpenPath
  <2>2. MayHold("testresults", "set")
    BY <1>2 DEF MayHold
  <2> QED
    BY <2>1, <2>2, RootIs
<1> QED
  BY <1>1, <1>2

\* Which paths fit does not change.
LEMMA FitsStays ==
  ASSUME doc' = doc, opts' = opts
  PROVE  \A q : PathFits(q)' <=> PathFits(q)
BY FileStays DEF PathFits, Roots, MayHold

\* A step that writes nothing.
LEMMA NothingWritten ==
  ASSUME NEW n, NEW c, WrittenAt(n, c), doc' = doc, opts' = opts, w' = w,
         suite'.live = suite.live, suite'.gen = suite.gen,
         NEW e, e.level # "end" => c.level # "end"
  PROVE  WrittenAt(n, e)'
<1>1. Closable' <=> Closable
  BY FileStays
<1>2. OpenPath(suite)' = OpenPath(suite)
  BY DEF OpenPath, SuitePath
<1>3. \A q : PathFits(q)' <=> PathFits(q)
  BY FitsStays
<1>4. (w \in Writers(w.open, n))' <=> w \in Writers(w.open, n)
  BY <1>3 DEF Writers, Nested
<1>5. (w \in Writers(OpenPath(suite), n))' <=> w \in Writers(OpenPath(suite), n)
  BY <1>2, <1>3 DEF Writers, Nested
<1> QED
  BY <1>1, <1>4, <1>5 DEF WrittenAt

\* A step after which this is open.
LEMMA WrittenThen ==
  ASSUME NEW n, NEW c, WrittenAt(n, c), doc' = doc, opts' = opts, NEW p, w' \in Writers(p, n),
         w'.ok, NEW e, e.level # "end" => p = OpenPath(suite')
  PROVE  WrittenAt(n, e)'
<1>1. Closable' <=> Closable
  BY FileStays
<1>2. w' \in Writers(w'.open, n)
  BY AnyOpen
<1>3. e.level # "end" => w' \in Writers(OpenPath(suite'), n)
  OBVIOUS
<1>4. \A q : PathFits(q)' <=> PathFits(q)
  BY FitsStays
<1>5. (w \in Writers(w.open, n))'
  BY <1>2, <1>4 DEF Writers, Nested
<1>6. (e.level # "end" => w \in Writers(OpenPath(suite), n))'
  BY <1>3, <1>4 DEF Writers, Nested
<1> QED
  BY <1>1, <1>5, <1>6 DEF WrittenAt

\* Nothing leads out of the end of the definition.
LEMMA EndIsLast ==
  ASSUME NEW r, NEW c \in Places(r), NEW k, NEW d, Move(r, c, k, d), c.level = "end"
  PROVE  d.level = "end"
BY DEF Move, DefinitionMove, ListMove, CaseMove, BoxMove, StepMove, TextMove, Places

\* What the loop writes.
LEMMA LoopWrites ==
  ASSUME NEW b, NEW n, n => b, DataOf(b), DataOf(b)', NEW c, ParseAt(c), NEW e \in Places(Traits),
         Move(Traits, c, Node, e), WrittenAt(n, c), doc' = doc, opts' = opts,
         TestDefinitionEnd \/ SuiteStart \/ SuiteEnd \/ SetStart
  PROVE  WrittenAt(n, e)'
<1> DEFINE u == suite
<1>0. /\ c \in Places(Traits) /\ Level(c) /\ fn \in Stacks
      /\ n <=> Closable /\ ~opts.text
      /\ w.ok /\ (c.level # "end" => w \in Writers(OpenPath(u), n))
      /\ td \in Definitions /\ u \in Suites
  BY DEF ParseAt, Parse, WrittenAt, DataOf
<1>1. In("td_process")
  BY <1>0, StackTops DEF TestDefinitionEnd, SuiteStart, SuiteEnd, SetStart, InLoop, Loop, In
<1>2. c.level = "top" => ~u.live
  BY <1>0, <1>1 DEF Level
<1>3. u.gen \in Gens
  BY <1>0 DEF Suites
<1>4. /\ RootPath \in Path /\ RootPath # <<>> /\ Last(RootPath).n = "testresults"
      /\ \A x : OpenPath(x) = IF x.live THEN SuitePath(x) ELSE RootPath
  BY RootIs DEF OpenPath
<1>5. /\ "hwiddetect" \in DOMAIN Parents /\ "description" \in DOMAIN Parents /\ NULL \in Ids
      /\ "testresults" \in Parents["hwiddetect"] /\ "testresults" \in Parents["description"]
      /\ "suite" \in DOMAIN Parents /\ "testresults" \in Parents["suite"]
      /\ "suite" \in Parents["description"]
  BY DEF Parents, Ids, Values
<1>6. CASE TestDefinitionEnd
  <2>1. c.level = "top" /\ e.level = "end"
    BY <1>0, <1>6, DefinitionMoves DEF TestDefinitionEnd, Ends, Closes
  <2>2. w \in Writers(RootPath, n)
    BY <1>0, <1>2, <1>4, <2>1
  <2>3. w' = write_td_end(opts, w, td)
    BY <1>6 DEF TestDefinitionEnd
  <2>4. CASE opts.text
    <3>1. w' = w
      BY <2>3, <2>4 DEF write_td_end
    <3> QED
      BY <1>0, <2>1, <2>2, <3>1, WrittenThen
  <2>5. CASE ~opts.text
    <3> DEFINE id == td.hw_detector
               detector == LeafIf(td.hw_detector # <<>>, w, Element("hwiddetect", id))
               told == LeafIf(td.described, detector, Element("description", NULL))
    <3>1. id \in Ids
      BY <1>0 DEF Definitions, Ids
    <3>2. w' = [told EXCEPT !.open = <<>>]
      BY <2>3, <2>5 DEF write_td_end, xml_write_td_end
    <3> HIDE DEF id
    <3>3. detector \in Writers(RootPath, n) /\ detector.ok
      <4>1. detector \in Writers(RootPath, n)
        BY <1>4, <1>5, <2>2, <3>1, LeafWritten
      <4>2. detector.ok
        BY <1>0, <2>2, LeafIsOk
      <4> QED
        BY <4>1, <4>2
    <3> HIDE DEF detector
    <3>4. told \in Writers(RootPath, n) /\ told.ok
      <4>1. told \in Writers(RootPath, n)
        BY <1>4, <1>5, <3>3, LeafWritten
      <4>2. told.ok
        BY <3>3, LeafIsOk
      <4> QED
        BY <4>1, <4>2
    <3> HIDE DEF told
    <3>5. /\ [told EXCEPT !.open = <<>>] \in Writers(<<>>, n)
          /\ [told EXCEPT !.open = <<>>].ok
      <4>1. <<>> \in Path
        BY DEF Path
      <4> QED
        BY <3>4, <4>1 DEF Writers
    <3>6. w' \in Writers(<<>>, n) /\ w'.ok
      BY <3>2, <3>5
    <3> QED
      BY <2>1, <3>6, WrittenThen
  <2> QED
    BY <2>4, <2>5
<1>7. CASE SuiteStart
  <2> DEFINE g == td_parse_gen_attribs(NoGen)
             s == [gen |-> g, described |-> FALSE, live |-> TRUE]
             opened == write_pre_suite(opts, w, s)
             closed == write_post_suite(opts, opened, s)
  <2>1. c.level = "top" /\ e.level = IF Node.empty THEN "top" ELSE "suite"
    BY <1>0, <1>7, DefinitionMoves DEF SuiteStart, Starts, Begins
  <2>2. w \in Writers(RootPath, n)
    BY <1>0, <1>2, <1>4, <2>1
  <2>3. /\ w' = IF Node.empty THEN closed ELSE opened
        /\ suite' = IF Node.empty THEN Nowhere ELSE s
    BY <1>7 DEF SuiteStart, SuiteIsEmpty
  <2>4. g \in Gens
    BY NoGenIs, GenParsed
  <2> HIDE DEF g
  <2>5. s.gen = g /\ s.live /\ ~s.described /\ ~Nowhere.live
    BY DEF Nowhere
  <2> HIDE DEF s
  <2>6. /\ SuitePath(s) \in Path /\ SuitePath(s) # <<>> /\ Last(SuitePath(s)).n = "suite"
        /\ s.gen.name \in Ids
    BY <2>4, <2>5, SuiteIs
  <2>7. /\ opened \in Writers(SuitePath(s), n) /\ opened.ok
        /\ closed \in Writers(RootPath, n) /\ closed.ok
    <3> DEFINE name == s.gen.name
               x == Element("suite", name)
    <3>1. CASE opts.text
      <4>1. opened = txt_write(w, x) /\ closed = opened
        BY <3>1 DEF write_pre_suite, write_post_suite, txt_write_pre_suite
      <4>2. ~n /\ w \in Writers(RootPath, FALSE)
        BY <1>0, <2>2, <3>1 DEF Writers
      <4> HIDE DEF name
      <4>3. txt_write(w, x) \in Writers(RootPath, FALSE) /\ txt_write(w, x).ok
        <5>1. name \in Ids
          BY <2>6 DEF name
        <5>2. txt_write(w, x) \in Writers(RootPath, FALSE)
          BY <1>5, <4>2, <5>1, TextWritten
        <5>3. txt_write(w, x).ok
          BY <1>0, <4>2 DEF txt_write, Writers
        <5> QED
          BY <5>2, <5>3
      <4> HIDE DEF x, opened, closed
      <4>4. opened \in Writers(RootPath, n)
        BY <4>1, <4>2, <4>3 DEF Writers
      <4> QED
        BY <4>1, <4>2, <4>3, <4>4, Writing
    <3>2. CASE ~opts.text
      <4> DEFINE v == Start(w, x)
                 told == LeafIf(s.described, v, Element("description", NULL))
      <4>1. opened = v /\ closed = End(LeafIf(s.described, opened, Element("description", NULL)))
        BY <3>2 DEF write_pre_suite, write_post_suite, xml_write_pre_suite, xml_write_post_suite
      <4>2. told = v
        BY <2>5 DEF LeafIf
      <4> HIDE DEF told
      <4>3. SuitePath(s) = Append(RootPath, x)
        BY DEF SuitePath
      <4>4. name \in Ids
        BY <2>6
      <4> HIDE DEF name
      <4>5. /\ v \in Writers(Append(RootPath, x), n)
            /\ \A z \in Writers(Append(RootPath, x), n) :
                 End(z) \in Writers(RootPath, n) /\ End(z).ok = z.ok
        BY <1>4, <1>5, <2>2, <4>4, StartedUnder
      <4>6. v.ok
        BY <1>0, <2>2, StartIsOk
      <4>7. closed = End(v)
        BY <4>1, <4>2 DEF told
      <4> HIDE DEF v, x, opened, closed
      <4>8. End(v) \in Writers(RootPath, n) /\ End(v).ok = v.ok
        BY <4>5
      <4> QED
        BY <4>1, <4>3, <4>5, <4>6, <4>7, <4>8
    <3> QED
      BY <3>1, <3>2
  <2> HIDE DEF opened, closed
  <2>8. CASE Node.empty
    <3>1. w' \in Writers(RootPath, n) /\ w'.ok /\ RootPath = OpenPath(suite')
      BY <1>4, <2>3, <2>5, <2>7, <2>8
    <3> QED
      BY <3>1, WrittenThen
  <2>9. CASE ~Node.empty
    <3>1. w' \in Writers(SuitePath(s), n) /\ w'.ok /\ SuitePath(s) = OpenPath(suite')
      BY <1>4, <2>3, <2>5, <2>7, <2>9
    <3> QED
      BY <3>1, WrittenThen
  <2> QED
    BY <2>8, <2>9
<1>8. CASE SuiteEnd
  <2>1. c.level = "suite" /\ e.level = "top"
    BY <1>0, <1>8, DefinitionMoves DEF SuiteEnd, Ends, Closes
  <2>2. u.live /\ w' = write_post_suite(opts, w, u) /\ suite' = Nowhere
    BY <1>8 DEF SuiteEnd
  <2>3. w \in Writers(SuitePath(u), n)
    BY <1>0, <1>4, <2>1, <2>2
  <2>4. ~Nowhere.live
    BY DEF Nowhere
  <2>5. /\ SuitePath(u) \in Path /\ SuitePath(u) # <<>> /\ Last(SuitePath(u)).n = "suite"
        /\ u.gen.name \in Ids
    BY <1>3, SuiteIs
  <2>6. w' \in Writers(RootPath, n) /\ w'.ok
    <3>1. CASE opts.text
      <4>1. w' = w /\ ~n
        BY <1>0, <2>2, <3>1 DEF write_post_suite
      <4> QED
        BY <1>0, <2>3, <4>1, Writing
    <3>2. CASE ~opts.text
      <4> DEFINE name == u.gen.name
                 x == Element("suite", name)
                 told == LeafIf(u.described, w, Element("description", NULL))
      <4>1. w' = End(told)
        BY <2>2, <3>2 DEF write_post_suite, xml_write_post_suite
      <4>2. told \in Writers(SuitePath(u), n)
        BY <1>5, <2>3, <2>5, LeafWritten
      <4>3. told.ok
        BY <1>0, <2>3, LeafIsOk
      <4>4. SuitePath(u) = Append(RootPath, x) /\ name \in Ids
        BY <2>5 DEF SuitePath
      <4> HIDE DEF name
      <4>5. Front(Append(RootPath, x)) = RootPath
        BY <1>4, <1>5, <4>4, UnderFits
      <4> HIDE DEF told, x
      <4>6. End(told) \in Writers(RootPath, n) /\ End(told).ok = told.ok
        BY <2>5, <4>2, <4>4, <4>5, Ended
      <4> QED
        BY <4>1, <4>3, <4>6
    <3> QED
      BY <3>1, <3>2
  <2>7. RootPath = OpenPath(suite')
    BY <1>4, <2>2, <2>4
  <2> QED
    BY <2>6, <2>7, WrittenThen
<1>9. CASE SetStart
  <2>1. c.level = "suite" /\ (Node.empty => e = c)
    BY <1>0, <1>9, DefinitionMoves DEF SetStart, Starts, Begins
  <2>2. suite' = u /\ (u.live \/ DetectorIsMisread)
    BY <1>0, <1>1, <1>9, <2>1 DEF SetStart, Level
  <2> DEFINE p == OpenPath(u)
  <2>3. /\ p \in Path /\ p # <<>> /\ MayHold(Last(p).n, "set") /\ w \in Writers(p, n)
        /\ p = OpenPath(suite')
    BY <1>0, <2>1, <2>2, SetOpens
  <2> HIDE DEF p
  <2>4. CASE Node.empty
    <3>1. process_set(set')
      BY <1>9, <2>4 DEF SetStart
    <3>2. set' \in SetsOf(b)
      BY DEF DataOf
    <3>3. n => b /\ ~opts.text
      BY <1>0
    <3>4. w' \in Writers(p, n) /\ w'.ok
      BY <1>0, <2>3, <3>1, <3>2, <3>3, SetProcessed
    <3> QED
      BY <2>3, <3>4, WrittenThen
  <2>5. CASE ~Node.empty
    <3>1. w' = w
      BY <1>9, <2>5 DEF SetStart
    <3> QED
      BY <2>1, <2>2, <3>1, NothingWritten
  <2> QED
    BY <2>4, <2>5
<1> QED
  BY <1>6, <1>7, <1>8, <1>9

\* The end of a set: what is written of it is nested, and closed.
LEMMA SetEndWrites ==
  ASSUME NEW b, NEW n, n => b, DataOf(b), DataOf(b)', NEW c, ParseAt(c), NEW e,
         WrittenAt(n, c), doc' = doc, opts' = opts, SetEnd
  PROVE  WrittenAt(n, e)'
<1>1. /\ Level(c) /\ Stages(c) /\ fn \in Stacks /\ (n <=> Closable /\ ~opts.text)
      /\ w.ok /\ (c.level # "end" => w \in Writers(OpenPath(suite), n))
      /\ suite \in Suites /\ set' \in SetsOf(b)
  BY DEF ParseAt, Parse, WrittenAt, DataOf
<1>2. In("td_parse_set") /\ process_set(set') /\ suite' = suite
  BY DEF SetEnd
<1>3. (suite.live \/ DetectorIsMisread) /\ c.level = "set"
  BY <1>1, <1>2 DEF Level, Stages, Inside, InFile, In
<1> DEFINE p == OpenPath(suite)
<1>4. /\ p \in Path /\ p # <<>> /\ MayHold(Last(p).n, "set") /\ w \in Writers(p, n)
      /\ p = OpenPath(suite')
  BY <1>1, <1>2, <1>3, SetOpens
<1>5. n => b /\ ~opts.text
  BY <1>1
<1> HIDE DEF p
<1>6. w' \in Writers(p, n) /\ w'.ok
  BY <1>1, <1>2, <1>4, <1>5, SetProcessed
<1> QED
  BY <1>4, <1>6, WrittenThen

\* A node read in the loop or in a set writes nothing, but for these actions.
LEMMA ReadsWriteNothing ==
  ASSUME suite \in Suites,
         ReadInside \/ (ReadLoop /\ ~TestDefinitionEnd /\ ~SuiteStart /\ ~SuiteEnd)
  PROVE  w' = w /\ suite'.live = suite.live /\ suite'.gen = suite.gen
<1>1. CASE ReadInside
  <2>1. ASSUME NEW f, Within(f) PROVE w' = w /\ suite' = suite
    BY <2>1 DEF Within
  <2>2. ReadInside => \E f : Within(f)
    BY Zenon DEF ReadInside, ReadStep, ReadSteps, ReadInSet, ReadInCase, ReadEnvironment, ReadFile,
       StepStart, StepText, StepOther, StepEnd, StepsOther, StepsEnd, StepsStart, CaseStart,
       EnvironmentsStart, GetStart, SetDescription, SetOther, CaseDescription, CaseOther, CaseEnd,
       EventStart, ParamStart, ParamText, ParamEnd, EventEnd, EnvironmentName, EnvironmentValue,
       EnvironmentsEnd, FileStart, FileText, GetEnd
  <2> QED
    BY <1>1, <2>1, <2>2
<1>2. CASE TestDefinitionStart \/ Hwiddetect \/ OtherNode \/ DetectorText \/ HwidDetected
  BY <1>2 DEF TestDefinitionStart, Hwiddetect, OtherNode, DetectorText, HwidDetected
<1>3. CASE DescriptionNode
  <2>1. w' = w /\ (suite' = suite \/ suite' = [suite EXCEPT !.described = TRUE])
    BY <1>3 DEF DescriptionNode
  <2> QED
    BY <2>1 DEF Suites
<1> QED
  BY <1>1, <1>2, <1>3, Zenon DEF ReadLoop

\* Every action that reads a node keeps what is written nested.
LEMMA WriterStep ==
  ASSUME NEW b, NEW n, NEW c, NEW d, ParserAt(b, c, d), WrittenAt(n, c), NEW e \in Places(Traits),
         Move(Traits, c, Node, e), ParserAt(b, e, d)',
         ReadLoop \/ SetStart \/ SetEnd \/ ReadInside
  PROVE  WrittenAt(n, e)'
<1>1. /\ DataOf(b) /\ DataOf(b)' /\ ParseAt(c) /\ (b <=> Closable) /\ (n <=> Closable /\ ~opts.text)
  BY DEF ParserAt, WrittenAt
<1>2. n => b
  BY <1>1
<1>3. doc' = doc /\ opts' = opts
  BY NodeIsRead, Zenon
<1>4. CASE TestDefinitionEnd \/ SuiteStart \/ SuiteEnd \/ SetStart
  BY <1>1, <1>2, <1>3, <1>4, LoopWrites, Zenon
<1>5. CASE SetEnd
  BY <1>1, <1>2, <1>3, <1>5, SetEndWrites, Zenon
<1>6. CASE ReadInside \/ (ReadLoop /\ ~TestDefinitionEnd /\ ~SuiteStart /\ ~SuiteEnd)
  <2>1. suite \in Suites
    BY <1>1 DEF DataOf
  <2>2. w' = w /\ suite'.live = suite.live /\ suite'.gen = suite.gen
    BY <1>6, <2>1, ReadsWriteNothing
  <2>3. c \in Places(Traits)
    BY <1>1 DEF ParseAt
  <2>4. e.level # "end" => c.level # "end"
    BY <2>3, EndIsLast
  <2> QED
    BY <1>3, <2>2, <2>4, NothingWritten
<1> QED
  BY <1>4, <1>5, <1>6, Zenon

-----------------------------------------------------------------------------
(* The theorems.                                                            *)

DefinitionInv ==
  \E b, n \in BOOLEAN : \E c, d : ParserAt(b, c, d) /\ WrittenAt(n, c)

\* The invariant holds at the start: by InitParses and StartWrites.
LEMMA DefinitionInvInit == Init => DefinitionInv
<1> SUFFICES ASSUME Init PROVE DefinitionInv
  OBVIOUS
<1>1. TestDefinitionAssumption
  BY TestDefinitionAssumption
<1> DEFINE b == IF Closable THEN TRUE ELSE FALSE
           n == IF Closable /\ ~opts.text THEN TRUE ELSE FALSE
<1>2. b \in BOOLEAN /\ (b <=> Closable) /\ n \in BOOLEAN /\ (n <=> Closable /\ ~opts.text)
  OBVIOUS
<1> HIDE DEF b, n
<1>3. PICK d : Leads(Traits, input, AtLevel("out"), d)
  BY <1>1, InitParses
<1>4. ParserAt(b, AtLevel("out"), d)
  BY <1>1, <1>2, <1>3, InitParses DEF ParserAt
<1>5. WrittenAt(n, AtLevel("out"))
  BY <1>2, StartWrites
<1> QED
  BY <1>2, <1>4, <1>5 DEF DefinitionInv

\* Every action keeps it: by ParserStep and WriterStep.
LEMMA DefinitionInvStep == DefinitionInv /\ [Next]_vars => DefinitionInv'
<1> SUFFICES ASSUME DefinitionInv, [Next]_vars PROVE DefinitionInv'
  OBVIOUS
<1>1. PICK b, n \in BOOLEAN : \E c, d : ParserAt(b, c, d) /\ WrittenAt(n, c)
  BY DEF DefinitionInv
<1>2. PICK c, d : ParserAt(b, c, d) /\ WrittenAt(n, c)
  BY <1>1
<1>3. CASE ParserAt(b, c, d)' /\ (SuiteEndWithoutSuite \/ EndOfFile \/ Finished \/ vars' = vars)
  <2>1. doc' = doc /\ opts' = opts /\ w' = w /\ suite' = suite
    BY <1>3 DEF SuiteEndWithoutSuite, EndOfFile, Finished, vars
  <2>2. WrittenAt(n, c)'
    BY <1>2, <2>1, NothingWritten
  <2> QED
    BY <1>3, <2>2, Zenon DEF DefinitionInv
<1>4. ASSUME NEW e \in Places(Traits),
             Move(Traits, c, Node, e), ParserAt(b, e, d)',
             ReadLoop \/ SetStart \/ SetEnd \/ ReadInside
      PROVE  DefinitionInv'
  <2>1. WrittenAt(n, e)'
    BY <1>2, <1>4, WriterStep, Zenon
  <2> QED
    BY <1>4, <2>1, Zenon DEF DefinitionInv
<1> QED
  BY <1>2, <1>3, <1>4, ParserStep, Zenon

\* The rest of the file leads on from a place that the parser and the writer are at,
\* as the data of td_process() and below are what they should be, throughout.
THEOREM DefinitionInvHolds == Spec => []DefinitionInv
BY DefinitionInvInit, DefinitionInvStep, PTL DEF Spec

\* The structures have their types in every state, for every file: the parser's
\* functions call each other as the elements nest, the sets whose pre steps failed
\* are sets of the file, and no stopped walk of the logger outlives its set.
THEOREM TypesOK == Spec => []TypeOK
<1>1. DefinitionInv => TypeOK
  <2> SUFFICES ASSUME DefinitionInv PROVE TypeOK
    OBVIOUS
  <2>1. PICK b, n \in BOOLEAN : \E c, d : ParserAt(b, c, d) /\ WrittenAt(n, c)
    BY DEF DefinitionInv
  <2>2. PICK c, d : ParserAt(b, c, d) /\ WrittenAt(n, c)
    BY <2>1
  <2>3. fn \in Stacks /\ Level(c) /\ DataOf(b) /\ w.ok
    BY <2>2 DEF ParserAt, WrittenAt, ParseAt, Parse
  <2>4. parsing_level \in 0..2
    BY <2>3 DEF Level
  <2>5. Len(td.hw_detector) \in 0..1 /\ aborted \subseteq SetNames
        /\ td \in Definitions /\ suite \in Suites /\ set \in SetsOf(b)
    BY <2>3 DEF DataOf
  <2>6. td.detected_hw \in {NULL, "n900"}
    BY <2>5 DEF Definitions
  <2>7. suite.live \in BOOLEAN
    BY <2>5 DEF Suites
  <2>8. set.environments \subseteq {"hardware", "scratchbox"}
    BY <2>5 DEF SetsOf
  <2> QED
    BY <2>3, <2>4, <2>5, <2>6, <2>7, <2>8 DEF TypeOK
<1> QED
  BY <1>1, DefinitionInvHolds, PTL

\* Whatever the file and the command line, the program crashes only on a file with
\* an empty hwiddetect or with one set that has both post reboot steps and cases:
\* however far a misread list runs on, the level and the suite agree, and no set
\* gets its cases from one set of the file and its post reboot steps from another.
THEOREM MemoryIsAlwaysThere == Spec => []MemoryIsThere
<1>1. DefinitionInv => MemoryIsThere
  <2> SUFFICES ASSUME DefinitionInv PROVE MemoryIsThere
    OBVIOUS
  <2>1. PICK b, n \in BOOLEAN : \E c, d : ParserAt(b, c, d) /\ WrittenAt(n, c)
    BY DEF DefinitionInv
  <2>2. PICK c : ParseAt(c)
    BY <2>1 DEF ParserAt
  <2>3. fn \in Stacks /\ Stages(c)
    BY <2>2 DEF ParseAt, Parse
  <2>4. fn = <<"crashed">> => DetectorIsMisread \/ Both
    BY <2>3, StackTops DEF Stages, In
  <2> QED
    BY <2>4 DEF MemoryIsThere, Both
<1> QED
  BY <1>1, DefinitionInvHolds, PTL

\* In the XML report every element is under one that may hold it, the way the result
\* schema has them, for every file of which the logger can close each element: the
\* only things out of place are the vcsurl of the command line, before the root, and
\* the sets after a misread detector, right under the root.
THEOREM NestingIsAlwaysValid == Spec => []NestingIsValid
<1>1. DefinitionInv => NestingIsValid
  <2> SUFFICES ASSUME DefinitionInv, Closable, ~opts.text, NEW i \in DOMAIN w.out
               PROVE  PathFits(w.out[i])
    BY DEF NestingIsValid, PathFits
  <2>1. PICK b, n \in BOOLEAN : \E c, d : ParserAt(b, c, d) /\ WrittenAt(n, c)
    BY DEF DefinitionInv
  <2>2. n /\ w \in Writers(w.open, n)
    BY <2>1 DEF WrittenAt
  <2>3. Nested(w.out)
    BY <2>2 DEF Writers
  <2> QED
    BY <2>3 DEF Nested
<1> QED
  BY <1>1, DefinitionInvHolds, PTL
=============================================================================
