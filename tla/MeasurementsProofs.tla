------------------------- MODULE MeasurementsProofs -------------------------
(***************************************************************************)
(* The limits of the measurements decide (LimitsDecide) and every value is *)
(* reported (EveryValueIsReported), whatever the files hold and whatever   *)
(* their number and length.                                                *)
(*                                                                         *)
(* The walks over the measurements are folds, and what a fold computes is  *)
(* proved by induction over the length of the list (Folded, Flat). A walk  *)
(* that looks for a value beyond its limit fails exactly if there is one   *)
(* (Search, SinglesWalk, ItemsWalk, SeriesWalk).                           *)
(*                                                                         *)
(* For the limits, the inductive invariant relates the case to the file at *)
(* hand: what is left of it are its last lines (FileAtHand), those before  *)
(* them could be processed (LinesWereGood), the series that is read holds  *)
(* the limits of the header and a value for each line with one             *)
(* (SeriesAtHand), and while the case passes no other measurement of it is *)
(* out of its limits (Clean). So the walk over the whole case at the end   *)
(* of each file finds what is wrong with that file, and the result of the  *)
(* case stands for the files judged so far (Verdicts).                     *)
(*                                                                         *)
(* For the report, what the lines and the files give is flattened, and so  *)
(* is what the walks of the writer write (Collect, CaseWritten). The       *)
(* inductive invariant says what of the files is in the case when some of  *)
(* them, and some lines of the one at hand, have been read: SinglesKept    *)
(* for the measurements, SeriesKept for the series, the first of which is  *)
(* that of the power measurement (PowerAtHand). It rests on the invariant  *)
(* of the limits, since a file that has a line that cannot be processed    *)
(* gives what is before that line. WrittenOnce says that the report is     *)
(* written by the last step.                                               *)
(***************************************************************************)
EXTENDS Measurements, WellFoundedInduction, SequenceTheorems, TLAPS

-----------------------------------------------------------------------------
(* Induction, and what a fold over a sequence computes.                     *)

\* A set of numbers that is not empty has a least one.
LEMMA LeastNumber ==
  \A T \in SUBSET Nat : T # {} => \E x \in T : \A y \in T : x <= y
<1> SUFFICES ASSUME NEW T \in SUBSET Nat, T # {}
             PROVE  \E x \in T : \A y \in T : x <= y
  OBVIOUS
<1> DEFINE R == {ss \in Nat \X Nat : ss[1] < ss[2]}
<1>1. IsWellFoundedOn(R, Nat)
  BY NatLessThanWellFounded DEF OpToRel
<1> HIDE DEF R
<1>2. PICK x \in T : \A y \in T : ~(<<y, x>> \in R)
  BY <1>1, WFMin
<1>3. \A y \in T : ~(y < x)
  BY <1>2 DEF R
<1> QED
  BY <1>3

\* Induction, for the set of numbers that have the property.
LEMMA Induction ==
  \A S \in SUBSET Nat, n \in Nat :
    0 \in S /\ (\A i \in 0..n - 1 : i \in S => i + 1 \in S) => n \in S
<1> SUFFICES ASSUME NEW S \in SUBSET Nat, NEW n \in Nat, 0 \in S,
                    \A i \in 0..n - 1 : i \in S => i + 1 \in S, n \notin S
             PROVE  FALSE
  OBVIOUS
<1> DEFINE T == 0..n \ S
<1>1. T \in SUBSET Nat /\ n \in T
  OBVIOUS
<1> HIDE DEF T
<1>2. PICK x \in T : \A y \in T : x <= y
  BY <1>1, LeastNumber
<1>3. x \in 1..n /\ x \notin S
  BY <1>2 DEF T
<1>4. x - 1 \in 0..n - 1 /\ x - 1 \notin T
  BY <1>2, <1>3 DEF T
<1>5. x - 1 \in S
  BY <1>4 DEF T
<1> QED
  BY <1>3, <1>4, <1>5

\* The greatest of the first numbers.
LEMMA MaxOfPrefix ==
  \A n \in Nat : \A s \in SUBSET (1..n + 1) :
    n + 1 \in s => Max(s) = n + 1 /\ s \ {n + 1} \in SUBSET (1..n)
<1> SUFFICES ASSUME NEW n \in Nat, NEW s \in SUBSET (1..n + 1), n + 1 \in s
             PROVE  Max(s) = n + 1 /\ s \ {n + 1} \in SUBSET (1..n)
  OBVIOUS
<1>1. \A y \in s : n + 1 >= y
  OBVIOUS
<1>2. \A x \in s : (\A y \in s : x >= y) => x = n + 1
  OBVIOUS
<1>3. Max(s) \in s /\ \A y \in s : Max(s) >= y
  BY <1>1 DEF Max
<1>4. Max(s) = n + 1
  BY <1>2, <1>3
<1>5. s \ {n + 1} \in SUBSET (1..n)
  OBVIOUS
<1> QED
  BY <1>4, <1>5

\* f is what the fold of F over the first n places of list computes for sets of
\* them: the recursion of FoldLeft, for values V and elements X.
Folded(V, base, F, list, n) ==
  {f \in [SUBSET (1..n) -> V] :
     \A s \in SUBSET (1..n) :
       f[s] = IF s = {} THEN base ELSE F[f[s \ {Max(s)}]][list[Max(s)]]}
\* f is the fold of F over list.
IsFold(f, V, X, base, F, list) ==
  /\ base \in V /\ F \in [V -> [X -> V]] /\ list \in Seq(X)
  /\ f \in Folded(V, base, F, list, Len(list))

\* There is such a function: the recursion of FoldLeft is well-founded.
LEMMA FoldExists ==
  ASSUME NEW V, NEW X, NEW base \in V, NEW F \in [V -> [X -> V]],
         NEW list \in Seq(X)
  PROVE  \E f : IsFold(f, V, X, base, F, list)
<1> DEFINE G(n) == Folded(V, base, F, list, n)
           S == {n \in Nat : G(n) # {}}
<1>1. 0 \in S
  <2> DEFINE f == [s \in SUBSET (1..0) |-> base]
  <2>0. 1..0 = {} /\ SUBSET (1..0) = {{}}
    OBVIOUS
  <2>1. f \in G(0)
    BY <2>0 DEF Folded
  <2> QED
    BY <2>1
<1>2. ASSUME NEW i \in 0..Len(list) - 1, i \in S PROVE i + 1 \in S
  <2>1. PICK g : g \in G(i)
    BY <1>2
  <2> DEFINE f == [s \in SUBSET (1..i + 1) |->
                     IF i + 1 \in s THEN F[g[s \ {i + 1}]][list[i + 1]] ELSE g[s]]
  <2>2. g \in [SUBSET (1..i) -> V]
    BY <2>1 DEF Folded
  <2>3. list[i + 1] \in X
    OBVIOUS
  <2>4. \A s \in SUBSET (1..i + 1) : i + 1 \notin s => s \in SUBSET (1..i)
    OBVIOUS
  <2>5. ASSUME NEW s \in SUBSET (1..i + 1)
        PROVE  /\ f[s] \in V
               /\ f[s] = IF s = {} THEN base ELSE F[f[s \ {Max(s)}]][list[Max(s)]]
    <3>1. CASE i + 1 \in s
      <4>1. Max(s) = i + 1 /\ s \ {i + 1} \in SUBSET (1..i)
        BY <3>1, MaxOfPrefix
      <4>2. f[s] = F[g[s \ {i + 1}]][list[i + 1]]
        BY <3>1
      <4>3. s \ {i + 1} \in SUBSET (1..i + 1) /\ i + 1 \notin s \ {i + 1}
        OBVIOUS
      <4>4. f[s \ {i + 1}] = g[s \ {i + 1}]
        BY <4>3
      <4>5. g[s \ {i + 1}] \in V
        BY <4>1, <2>2
      <4>6. F[g[s \ {i + 1}]][list[i + 1]] \in V
        BY <4>5, <2>3
      <4> QED
        BY <3>1, <4>1, <4>2, <4>4, <4>6
    <3>2. CASE i + 1 \notin s
      <4>1. s \in SUBSET (1..i)
        BY <3>2, <2>4
      <4>2. f[s] = g[s]
        BY <3>2
      <4>3. g[s] \in V
        BY <4>1, <2>2
      <4>4. g[s] = IF s = {} THEN base ELSE F[g[s \ {Max(s)}]][list[Max(s)]]
        BY <4>1, <2>1 DEF Folded
      <4>5. s \ {Max(s)} \in SUBSET (1..i + 1) /\ i + 1 \notin s \ {Max(s)}
        BY <3>2
      <4>6. f[s \ {Max(s)}] = g[s \ {Max(s)}]
        BY <4>5
      <4> HIDE DEF f
      <4> QED
        BY <4>2, <4>3, <4>4, <4>6
    <3> QED
      BY <3>1, <3>2
  <2> HIDE DEF f
  <2>6. f \in [SUBSET (1..i + 1) -> V]
    <3>1. f = [s \in SUBSET (1..i + 1) |-> f[s]]
      BY DEF f
    <3> QED
      BY <3>1, <2>5
  <2>7. f \in G(i + 1)
    BY <2>5, <2>6 DEF Folded
  <2> QED
    BY <2>7
<1>3. Len(list) \in S
  <2> HIDE DEF S
  <2>1. S \in SUBSET Nat /\ Len(list) \in Nat
    BY DEF S
  <2>2. \A i \in 0..Len(list) - 1 : i \in S => i + 1 \in S
    BY <1>2
  <2> QED
    BY <1>1, <2>1, <2>2, Induction
<1> QED
  BY <1>3 DEF IsFold

\* A set of places has a greatest one.
LEMMA MaxOfPlaces ==
  ASSUME NEW n \in Nat, NEW s \in SUBSET (1..n), s # {}
  PROVE  Max(s) \in s
<1> DEFINE T == {n - x : x \in s}
<1>1. T \in SUBSET Nat /\ T # {}
  <2>1. \A x \in s : n - x \in Nat
    OBVIOUS
  <2>2. \A d \in T : d \in Nat
    BY <2>1
  <2>3. PICK x \in s : TRUE
    OBVIOUS
  <2>4. n - x \in T
    OBVIOUS
  <2> QED
    BY <2>2, <2>4
<1>2. PICK d \in T : \A y \in T : d <= y
  <2> HIDE DEF T
  <2> QED
    BY <1>1, LeastNumber
<1>3. PICK x \in s : d = n - x
  BY <1>2
<1>4. \A y \in s : n - x <= n - y
  BY <1>2, <1>3
<1>5. \A y \in s : x >= y
  BY <1>4
<1> QED
  BY <1>5 DEF Max

\* The sets of places of a list.
PlaceSets(list) == SUBSET (1..Len(list))

\* What is folded at a set of places: the element at its greatest.
LEMMA FoldPlaces ==
  ASSUME NEW f, NEW V, NEW X, NEW base, NEW F, NEW list,
         IsFold(f, V, X, base, F, list)
  PROVE  /\ f \in [PlaceSets(list) -> V] /\ f[{}] = base
         /\ \A s \in PlaceSets(list) : s # {} =>
              /\ list[Max(s)] \in X /\ f[s \ {Max(s)}] \in V
              /\ f[s] = F[f[s \ {Max(s)}]][list[Max(s)]]
<1> USE DEF IsFold, Folded, PlaceSets
<1>1. f \in [PlaceSets(list) -> V]
  OBVIOUS
<1>2. f[{}] = base
  OBVIOUS
<1>3. ASSUME NEW s \in SUBSET (1..Len(list)), s # {}
      PROVE  /\ list[Max(s)] \in X /\ f[s \ {Max(s)}] \in V
             /\ f[s] = F[f[s \ {Max(s)}]][list[Max(s)]]
  <2>1. Max(s) \in s
    <3>1. Len(list) \in Nat
      OBVIOUS
    <3> QED
      BY <3>1, <1>3, MaxOfPlaces
  <2>2. Max(s) \in 1..Len(list) /\ s \ {Max(s)} \in SUBSET (1..Len(list))
    BY <2>1
  <2>3. list[Max(s)] \in X
    BY <2>2
  <2>4. f[s \ {Max(s)}] \in V
    BY <2>2
  <2>5. f[s] = F[f[s \ {Max(s)}]][list[Max(s)]]
    BY <1>3
  <2> QED
    BY <2>3, <2>4, <2>5
<1> QED
  BY <1>1, <1>2, <1>3

\* The first places, one more at a time.
LEMMA FirstPlaces ==
  ASSUME NEW m \in Nat
  PROVE  /\ 1..0 = {} /\ {} \in SUBSET (1..m)
         /\ \A n \in 0..m - 1 :
              /\ 1..n + 1 \in SUBSET (1..m) /\ 1..n + 1 # {}
              /\ Max(1..n + 1) = n + 1 /\ (1..n + 1) \ {n + 1} = 1..n
<1>1. ASSUME NEW n \in 0..m - 1
      PROVE  /\ 1..n + 1 \in SUBSET (1..m) /\ 1..n + 1 # {}
             /\ Max(1..n + 1) = n + 1 /\ (1..n + 1) \ {n + 1} = 1..n
  <2>0. n \in Nat /\ n + 1 <= m
    OBVIOUS
  <2>1. 1..n + 1 \in SUBSET (1..m) /\ n + 1 \in 1..n + 1
    BY <2>0
  <2>2. (1..n + 1) \ {n + 1} = 1..n
    BY <2>0
  <2>3. Max(1..n + 1) = n + 1
    BY <2>0, <2>1, MaxOfPrefix
  <2> QED
    BY <2>1, <2>2, <2>3
<1>2. 1..0 = {} /\ {} \in SUBSET (1..m)
  OBVIOUS
<1> QED
  BY <1>1, <1>2

-----------------------------------------------------------------------------
(* What flattening computes.                                                *)

\* The partial results of flattening the first n sequences of s.
Flattens(f, s, n) == \A i \in 1..n : f[i] = IF i = 1 THEN s[i] ELSE f[i - 1] \o s[i]
IsFlatten(f, X, s, n) == f \in [1..n -> Seq(X)] /\ Flattens(f, s, n)

\* Two sequences agree in the first n places.
Agree(s, t, n) == \A i \in 1..n : s[i] = t[i]

\* There are such partial results.
LEMMA FlattenExists ==
  ASSUME NEW X, NEW s \in Seq(Seq(X))
  PROVE  \E f : IsFlatten(f, X, s, Len(s))
<1> DEFINE Has(n) == \E f : IsFlatten(f, X, s, n)
           S == {n \in Nat : Has(n)}
<1>1. 0 \in S
  <2> DEFINE f == [i \in 1..0 |-> <<>>]
  <2>1. f \in [1..0 -> Seq(X)] /\ 1..0 = {}
    OBVIOUS
  <2>2. IsFlatten(f, X, s, 0)
    BY <2>1 DEF IsFlatten, Flattens
  <2> QED
    BY <2>2
<1>2. ASSUME NEW n \in 0..Len(s) - 1, n \in S PROVE n + 1 \in S
  <2>1. PICK g : IsFlatten(g, X, s, n)
    BY <1>2
  <2> DEFINE last == IF n + 1 = 1 THEN s[n + 1] ELSE g[n] \o s[n + 1]
             f == [i \in 1..n + 1 |-> IF i = n + 1 THEN last ELSE g[i]]
  <2>2. s[n + 1] \in Seq(X) /\ n \in Nat
    OBVIOUS
  <2>3. last \in Seq(X)
    BY <2>1, <2>2 DEF IsFlatten
  <2>4. f[n + 1] = last /\ \A i \in 1..n : f[i] = g[i]
    <3> HIDE DEF last
    <3> QED
      BY <2>2
  <2>5. f \in [1..n + 1 -> Seq(X)]
    <3>1. \A i \in 1..n + 1 : (IF i = n + 1 THEN last ELSE g[i]) \in Seq(X)
      <4> HIDE DEF last
      <4>1. \A i \in 1..n + 1 : i = n + 1 \/ i \in 1..n
        BY <2>2
      <4>2. \A i \in 1..n : g[i] \in Seq(X)
        BY <2>1 DEF IsFlatten
      <4> QED
        BY <2>3, <4>1, <4>2
    <3> HIDE DEF last
    <3> QED
      BY <3>1
  <2>6. ASSUME NEW i \in 1..n + 1
        PROVE  f[i] = IF i = 1 THEN s[i] ELSE f[i - 1] \o s[i]
    <3> HIDE DEF f
    <3>1. CASE i = n + 1
      <4>1. i # 1 => n \in 1..n /\ i - 1 = n
        BY <3>1, <2>2
      <4> QED
        BY <3>1, <2>4, <4>1
    <3>2. CASE i # n + 1
      <4>1. i \in 1..n /\ (i # 1 => i - 1 \in 1..n)
        BY <3>2, <2>2
      <4>2. g[i] = IF i = 1 THEN s[i] ELSE g[i - 1] \o s[i]
        BY <4>1, <2>1 DEF IsFlatten, Flattens
      <4> QED
        BY <4>1, <4>2, <2>4
    <3> QED
      BY <3>1, <3>2
  <2>7. IsFlatten(f, X, s, n + 1)
    <3> HIDE DEF f
    <3> QED
      BY <2>5, <2>6 DEF IsFlatten, Flattens
  <2> QED
    BY <2>2, <2>7
<1>3. Len(s) \in S
  <2> HIDE DEF S
  <2>1. S \in SUBSET Nat /\ Len(s) \in Nat
    BY DEF S
  <2>2. \A n \in 0..Len(s) - 1 : n \in S => n + 1 \in S
    BY <1>2
  <2> QED
    BY <1>1, <2>1, <2>2, Induction
<1> QED
  BY <1>3

\* Two of them agree as far as the sequences do.
LEMMA FlattenAgree ==
  ASSUME NEW s, NEW t, NEW n \in Nat, NEW f, NEW g,
         Agree(s, t, n), Flattens(f, s, n), Flattens(g, t, n)
  PROVE  Agree(f, g, n)
<1> USE DEF Agree, Flattens
<1> DEFINE S == {i \in Nat : i \in 1..n => f[i] = g[i]}
<1>1. 0 \in S
  OBVIOUS
<1>2. ASSUME NEW i \in Nat, i \in S PROVE i + 1 \in S
  <2>1. SUFFICES ASSUME i + 1 \in 1..n PROVE f[i + 1] = g[i + 1]
    OBVIOUS
  <2>2. i + 1 # 1 => i \in 1..n /\ i + 1 - 1 = i
    BY <2>1
  <2>3. i + 1 # 1 => f[i] = g[i]
    BY <1>2, <2>2
  <2> QED
    BY <2>1, <2>2, <2>3
<1>3. \A i \in Nat : i \in S
  <2> HIDE DEF S
  <2>1. S \in SUBSET Nat
    BY DEF S
  <2> QED
    BY <1>1, <1>2, <2>1, Induction
<1> QED
  BY <1>3

\* FlattenSeq() is the last of the partial results.
LEMMA FlattenIs ==
  ASSUME NEW X, NEW s \in Seq(Seq(X)), s # <<>>
  PROVE  \E f : IsFlatten(f, X, s, Len(s)) /\ FlattenSeq(s) = f[Len(s)]
<1> DEFINE D == 1..Len(s)
           Rec(f) == f = [i \in D |-> IF i = 1 THEN s[i] ELSE f[i - 1] \o s[i]]
           h == CHOOSE f : Rec(f)
<1>1. PICK g : IsFlatten(g, X, s, Len(s))
  BY FlattenExists
<1>2. Rec(g)
  <2>1. g = [i \in D |-> g[i]]
    BY <1>1 DEF IsFlatten
  <2>2. \A i \in D : g[i] = IF i = 1 THEN s[i] ELSE g[i - 1] \o s[i]
    BY <1>1 DEF IsFlatten, Flattens
  <2> QED
    BY <2>1, <2>2
<1>3. Rec(h)
  <2> HIDE DEF Rec
  <2> QED
    BY <1>2
<1>4. FlattenSeq(s) = h[Len(s)]
  BY DEF FlattenSeq
<1> HIDE DEF h
<1>5. Flattens(h, s, Len(s))
  BY <1>3 DEF Flattens
<1>6. Flattens(g, s, Len(s)) /\ Agree(s, s, Len(s))
  BY <1>1 DEF IsFlatten, Agree
<1>7. Len(s) \in Nat /\ Len(s) \in D
  OBVIOUS
<1>8. h[Len(s)] = g[Len(s)]
  BY <1>5, <1>6, <1>7, FlattenAgree DEF Agree
<1> QED
  BY <1>1, <1>4, <1>7, <1>8

\* Flattening nothing.
LEMMA FlattenEmpty == FlattenSeq(<<>>) = <<>>
BY DEF FlattenSeq

\* The type of what FlattenSeq() returns.
LEMMA FlattenTypes ==
  ASSUME NEW X, NEW s \in Seq(Seq(X))
  PROVE  FlattenSeq(s) \in Seq(X)
<1>1. CASE s = <<>>
  <2>1. FlattenSeq(s) = <<>> /\ <<>> \in Seq(X)
    BY <1>1, FlattenEmpty
  <2> QED
    BY <2>1
<1>2. CASE s # <<>>
  <2>1. PICK f : IsFlatten(f, X, s, Len(s)) /\ FlattenSeq(s) = f[Len(s)]
    BY <1>2, FlattenIs
  <2>2. Len(s) \in 1..Len(s)
    BY <1>2
  <2>3. f[Len(s)] \in Seq(X)
    BY <2>1, <2>2 DEF IsFlatten
  <2> QED
    BY <2>1, <2>3
<1> QED
  BY <1>1, <1>2

\* One more sequence goes to the end.
LEMMA FlattenLonger ==
  ASSUME NEW X, NEW s \in Seq(Seq(X)), NEW t \in Seq(Seq(X)), NEW n \in Nat, n # 0,
         NEW m \in Nat, m = n + 1, Len(s) = n, Len(t) = m, Agree(s, t, n)
  PROVE  FlattenSeq(t) = FlattenSeq(s) \o t[m]
<1>0. s # <<>> /\ t # <<>>
  OBVIOUS
<1>1. PICK f : IsFlatten(f, X, s, n) /\ FlattenSeq(s) = f[n]
  BY <1>0, FlattenIs
<1>2. PICK g : IsFlatten(g, X, t, m) /\ FlattenSeq(t) = g[m]
  BY <1>0, FlattenIs
<1>3. n \in 1..n /\ m \in 1..m /\ m # 1 /\ m - 1 = n /\ \A i \in 1..n : i \in 1..m
  OBVIOUS
<1>4. Flattens(f, s, n) /\ Flattens(g, t, m)
  BY <1>1, <1>2 DEF IsFlatten
<1>5. Flattens(g, t, n)
  BY <1>3, <1>4 DEF Flattens
<1>6. Agree(f, g, n)
  BY <1>4, <1>5, FlattenAgree
<1>7. f[n] = g[n]
  BY <1>3, <1>6 DEF Agree
<1>8. g[m] = g[n] \o t[m]
  BY <1>3, <1>4 DEF Flattens
<1> QED
  BY <1>1, <1>2, <1>7, <1>8

\* Flattening one sequence.
LEMMA FlattenOne ==
  ASSUME NEW X, NEW x \in Seq(X)
  PROVE  FlattenSeq(<<x>>) = x
<1> DEFINE t == <<x>>
<1>1. t \in Seq(Seq(X)) /\ t # <<>> /\ Len(t) = 1 /\ t[1] = x
  OBVIOUS
<1> HIDE DEF t
<1>2. PICK g : IsFlatten(g, X, t, 1) /\ FlattenSeq(t) = g[1]
  BY <1>1, FlattenIs
<1>3. g[1] = t[1]
  BY <1>2 DEF IsFlatten, Flattens
<1> QED
  BY <1>1, <1>2, <1>3 DEF t

\* One more sequence, appended.
LEMMA FlattenAppend ==
  ASSUME NEW X, NEW s \in Seq(Seq(X)), NEW x \in Seq(X)
  PROVE  FlattenSeq(Append(s, x)) = FlattenSeq(s) \o x
<1> DEFINE t == Append(s, x)
           n == Len(s)
           Y == Seq(X)
<1>1. t \in Seq(Seq(X)) /\ n \in Nat /\ Len(t) = n + 1 /\ t[n + 1] = x
  <2>1. s \in Seq(Y) /\ x \in Y
    OBVIOUS
  <2> HIDE DEF Y
  <2>2. t \in Seq(Y) /\ n \in Nat /\ Len(t) = n + 1 /\ t[n + 1] = x
    BY <2>1
  <2> QED
    BY <2>2 DEF Y
<1>2. Agree(s, t, n)
  BY DEF Agree
<1>3. CASE s = <<>>
  <2>1. t = <<x>> /\ <<>> \o x = x
    BY <1>3
  <2> QED
    BY <1>3, <2>1, FlattenEmpty, FlattenOne
<1>4. CASE s # <<>>
  <2>1. n # 0
    BY <1>4
  <2> HIDE DEF t
  <2>2. FlattenSeq(t) = FlattenSeq(s) \o t[n + 1]
    BY <1>1, <1>2, <2>1, n + 1 \in Nat, FlattenLonger
  <2> QED
    BY <1>1, <2>2 DEF t
<1> QED
  BY <1>3, <1>4

\* The first n sequences of e, one after the other.
Flat(e, n) == FlattenSeq([i \in 1..n |-> e[i]])
Sequences(e, X, n) == \A i \in 1..n : e[i] \in Seq(X)

\* None of the sequences,
LEMMA FlatNone == \A e : Flat(e, 0) = <<>>
<1> SUFFICES ASSUME NEW e PROVE Flat(e, 0) = <<>>
  OBVIOUS
<1>1. [i \in 1..0 |-> e[i]] = <<>>
  OBVIOUS
<1> QED
  BY <1>1, FlattenEmpty DEF Flat

\* one more of them,
LEMMA FlatGrows ==
  ASSUME NEW X, NEW e, NEW n \in Nat, NEW m \in Nat, m = n + 1, Sequences(e, X, m)
  PROVE  /\ Flat(e, n) \in Seq(X)
         /\ Flat(e, m) = Flat(e, n) \o e[m]
<1> DEFINE Y == Seq(X)
           s == [i \in 1..n |-> e[i]]
           t == [i \in 1..m |-> e[i]]
<1>1. /\ \A i \in 1..m : e[i] \in Y
      /\ m \in 1..m /\ \A i \in 1..n : i \in 1..m
  BY DEF Sequences
<1> HIDE DEF Y
<1>2. s \in Seq(Y) /\ t \in Seq(Y) /\ e[m] \in Y /\ Len(s) = n /\ Len(t) = m
  BY <1>1
<1>3. t = Append(s, e[m])
  <2>1. Append(s, e[m]) \in Seq(Y) /\ Len(Append(s, e[m])) = m
    BY <1>2
  <2>2. \A i \in 1..m : i \in 1..n \/ i = m
    OBVIOUS
  <2>3. \A i \in 1..m : t[i] = Append(s, e[m])[i]
    BY <1>2, <2>2
  <2> QED
    BY <1>2, <2>1, <2>3
<1> HIDE DEF s, t
<1>4. FlattenSeq(Append(s, e[m])) = FlattenSeq(s) \o e[m] /\ FlattenSeq(s) \in Seq(X)
  BY <1>2, FlattenAppend, FlattenTypes DEF Y
<1> QED
  BY <1>3, <1>4 DEF Flat, s, t

\* the type of the result,
LEMMA FlatTypes ==
  ASSUME NEW X, NEW e, NEW n \in Nat, Sequences(e, X, n)
  PROVE  Flat(e, n) \in Seq(X)
<1> DEFINE Y == Seq(X)
           s == [i \in 1..n |-> e[i]]
<1>1. \A i \in 1..n : e[i] \in Y
  BY DEF Sequences
<1> HIDE DEF Y
<1>2. s \in Seq(Y)
  BY <1>1
<1> QED
  BY <1>2, FlattenTypes DEF Flat, Y

\* and the same first sequences.
LEMMA FlatSame ==
  ASSUME NEW e, NEW d, NEW n, Agree(e, d, n)
  PROVE  Flat(e, n) = Flat(d, n)
<1>1. [i \in 1..n |-> e[i]] = [i \in 1..n |-> d[i]]
  BY DEF Agree
<1> QED
  BY <1>1 DEF Flat

\* Flattening sequences of one element.
Singletons(d, e, X, n) == \A i \in 1..n : e[i] \in X /\ d[i] = <<e[i]>>

\* The sequence of the elements themselves.
LEMMA FlatSingles ==
  ASSUME NEW X, NEW e, NEW d, NEW n \in Nat, Singletons(d, e, X, n)
  PROVE  Flat(d, n) = [i \in 1..n |-> e[i]]
<1> USE DEF Singletons
<1> DEFINE Pre(k) == [i \in 1..k |-> e[i]]
           S == {k \in Nat : k \in 0..n => Flat(d, k) = Pre(k)}
<1>1. 0 \in S
  <2>1. Flat(d, 0) = <<>> /\ Pre(0) = <<>>
    BY FlatNone
  <2> QED
    BY <2>1
<1>2. ASSUME NEW k \in Nat, k \in S PROVE k + 1 \in S
  <2>0. SUFFICES ASSUME k + 1 \in 0..n PROVE Flat(d, k + 1) = Pre(k + 1)
    OBVIOUS
  <2>1. Flat(d, k) = Pre(k)
    BY <1>2, <2>0
  <2>2. k + 1 \in Nat /\ \A i \in 1..k + 1 : i \in 1..n
    BY <2>0
  <2>3. Sequences(d, X, k + 1)
    <3>1. \A i \in 1..n : <<e[i]>> \in Seq(X)
      OBVIOUS
    <3> QED
      BY <2>2, <3>1 DEF Sequences
  <2>4. Flat(d, k + 1) = Flat(d, k) \o d[k + 1]
    BY <2>2, <2>3, FlatGrows
  <2>5. Pre(k) \in Seq(X) /\ Pre(k + 1) \in Seq(X) /\ Len(Pre(k)) = k /\ Len(Pre(k + 1)) = k + 1
    BY <2>2
  <2>6. d[k + 1] = <<e[k + 1]>> /\ e[k + 1] \in X
    BY <2>2
  <2>7. Pre(k + 1) = Pre(k) \o <<e[k + 1]>>
    <3>1. \A i \in 1..k + 1 : i \in 1..k \/ i = k + 1
      OBVIOUS
    <3>2. Pre(k) \o <<e[k + 1]>> \in Seq(X) /\ Len(Pre(k) \o <<e[k + 1]>>) = k + 1
      BY <2>5, <2>6
    <3>3. \A i \in 1..k + 1 : Pre(k + 1)[i] = (Pre(k) \o <<e[k + 1]>>)[i]
      BY <2>5, <2>6, <3>1
    <3> QED
      BY <2>5, <3>2, <3>3
  <2> QED
    BY <2>1, <2>4, <2>6, <2>7
<1>3. \A k \in Nat : k \in S
  <2> HIDE DEF S
  <2>1. S \in SUBSET Nat
    BY DEF S
  <2> QED
    BY <1>1, <1>2, <2>1, Induction
<1> QED
  BY <1>3

\* Append() is a concatenation.
LEMMA AppendIs ==
  ASSUME NEW X, NEW s \in Seq(X), NEW x \in X
  PROVE  Append(s, x) = s \o <<x>> /\ s \o <<x>> \in Seq(X) /\ <<x>> \in Seq(X)
OBVIOUS

-----------------------------------------------------------------------------
(* eval_measurements()                                                      *)

\* A number, a measurement, an item of a series, a series.
Number   == [nan : BOOLEAN, v : Int]
Single   == [value : Number, target_specified : BOOLEAN, target : Number, failure : Number]
SeriesItem == [value : Number, has_timestamp : BOOLEAN]
Series   == [target_specified : BOOLEAN, target : Number, failure : Number, items : Seq(SeriesItem)]

\* What a walk that looks for a failure has come to.
Passing  == [verdict |-> "PASS", ok |-> TRUE]
Failed   == [verdict |-> "FAIL", ok |-> FALSE]
Outcomes == {Passing, Failed}

\* Failing takes the one outcome to the other; the end of a walk keeps it.
LEMMA OutcomesAre ==
  /\ Passing.ok = TRUE /\ Failed.ok = FALSE
  /\ Passing.verdict = "PASS" /\ Failed.verdict = "FAIL"
  /\ Failing(Passing) = Failed
  /\ \A o \in Outcomes :
       /\ [o EXCEPT !.ok = TRUE].verdict = o.verdict
       /\ [[o EXCEPT !.ok = TRUE] EXCEPT !.ok = (o.verdict # "FAIL")] = o
<1> DEFINE R == [verdict : {"PASS", "FAIL"}, ok : BOOLEAN]
<1>1. \A x, y \in R : x.verdict = y.verdict /\ x.ok = y.ok => x = y
  OBVIOUS
<1>2. Passing \in R /\ Failed \in R
  BY DEF Passing, Failed
<1>3. \A o \in R : [o EXCEPT !.verdict = "FAIL"] \in R
  OBVIOUS
<1>4. \A o \in R, b \in BOOLEAN : [o EXCEPT !.ok = b] \in R
  OBVIOUS
<1>5. Failing(Passing) = Failed
  <2>1. Failing(Passing) \in R
    BY <1>2, <1>3, <1>4 DEF Failing, Stopped
  <2>2. Failing(Passing).verdict = "FAIL" /\ Failing(Passing).ok = FALSE
    BY DEF Failing, Stopped, Passing
  <2>3. Failed.verdict = "FAIL" /\ Failed.ok = FALSE
    BY DEF Failed
  <2> HIDE DEF R
  <2> QED
    BY <1>1, <1>2, <2>1, <2>2, <2>3
<1>6. ASSUME NEW o \in Outcomes
      PROVE  /\ [o EXCEPT !.ok = TRUE].verdict = o.verdict
             /\ [[o EXCEPT !.ok = TRUE] EXCEPT !.ok = (o.verdict # "FAIL")] = o
  <2>1. o \in R /\ o.ok = (o.verdict # "FAIL")
    BY <1>2 DEF Outcomes, Passing, Failed
  <2> DEFINE x == [o EXCEPT !.ok = TRUE]
             y == [x EXCEPT !.ok = (o.verdict # "FAIL")]
  <2>2. x \in R /\ x.verdict = o.verdict
    BY <2>1
  <2>3. y \in R /\ y.verdict = o.verdict /\ y.ok = (o.verdict # "FAIL")
    <3> HIDE DEF x
    <3> QED
      BY <2>2
  <2>4. y = o
    <3> HIDE DEF x, y, R
    <3> QED
      BY <1>1, <2>1, <2>3
  <2> QED
    BY <2>2, <2>4
<1> QED
  BY <1>5, <1>6 DEF Passing, Failed

\* A fold that looks for a place in bad ends as Failed exactly if there is one.
Searches(f, list, X, bad) ==
  /\ f[{}] = Passing
  /\ \A s \in PlaceSets(list) : s # {} /\ list[Max(s)] \in X =>
       /\ f[s \ {Max(s)}] = Failed => f[s] = Failed
       /\ f[s \ {Max(s)}] = Passing =>
            f[s] = IF Max(s) \in bad THEN Failed ELSE Passing
\* It ends as Failed exactly if there is one.
LEMMA Search ==
  ASSUME NEW X, NEW list \in Seq(X), NEW bad, NEW f, Searches(f, list, X, bad)
  PROVE  f[1..Len(list)] =
           IF \E i \in 1..Len(list) : i \in bad THEN Failed ELSE Passing
<1> DEFINE m == Len(list)
           Is(n) == f[1..n] = IF \E i \in 1..n : i \in bad THEN Failed ELSE Passing
           S == {n \in Nat : Is(n)}
<1>1. 0 \in S
  BY DEF Searches
<1>2. ASSUME NEW n \in 0..m - 1, n \in S PROVE n + 1 \in S
  <2>1. Is(n)
    BY <1>2
  <2>2. /\ f[1..n] = Failed => f[1..n + 1] = Failed
        /\ f[1..n] = Passing => f[1..n + 1] = IF n + 1 \in bad THEN Failed ELSE Passing
    <3>1. /\ 1..n + 1 \in SUBSET (1..m) /\ 1..n + 1 # {}
          /\ Max(1..n + 1) = n + 1 /\ (1..n + 1) \ {n + 1} = 1..n
      BY FirstPlaces
    <3>2. 1..n + 1 \in PlaceSets(list) /\ list[n + 1] \in X
      BY <3>1 DEF PlaceSets
    <3> QED
      BY <3>1, <3>2 DEF Searches
  <2>3. (\E i \in 1..n + 1 : i \in bad) <=> (\E i \in 1..n : i \in bad) \/ n + 1 \in bad
    OBVIOUS
  <2>4. Is(n + 1)
    <3> HIDE DEF m
    <3> QED
      BY <2>1, <2>2, <2>3
  <2> QED
    BY <2>4
<1>3. m \in S
  <2> HIDE DEF S
  <2>1. S \in SUBSET Nat
    BY DEF S
  <2> QED
    BY <1>1, <1>2, <2>1, Induction
<1> QED
  BY <1>3

\* The single measurements fail exactly if one is beyond its limit.
Bad(m) == m.target_specified /\ Beyond(m, m.value)
\* So does the walk over the measurements.
LEMMA SinglesWalk ==
  ASSUME NEW list \in Seq(Single)
  PROVE  Walk(eval_meas, Passing, list).verdict =
           IF \E i \in 1..Len(list) : Bad(list[i]) THEN "FAIL" ELSE "PASS"
<1> DEFINE D == 1..Len(list)
           After(v, x) == IF v.ok THEN eval_meas(v, x) ELSE v
           Rec(f) == f = [s \in SUBSET D |->
                            IF s = {} THEN Passing
                            ELSE After(f[s \ {Max(s)}], list[Max(s)])]
           fold == CHOOSE f : Rec(f)
           bad == {i \in D : Bad(list[i])}
<1>0. list \in Seq(Single) /\ DOMAIN list = D /\ Len(list) \in Nat
  OBVIOUS
<1>1. Walk(eval_meas, Passing, list) = [fold[D] EXCEPT !.ok = TRUE]
  BY <1>0 DEF Walk, FoldLeft, MapThenFoldSet
<1>2. \A x \in Single :
        /\ After(Failed, x) = Failed
        /\ After(Passing, x) = IF Bad(x) THEN Failed ELSE Passing
  BY OutcomesAre DEF Bad, eval_meas
<1> HIDE DEF After
<1>3. \E f : Rec(f)
  <2>1. \A v \in Outcomes, x \in Single : After(v, x) \in Outcomes
    BY <1>2 DEF Outcomes
  <2>2. PICK F \in [Outcomes -> [Single -> Outcomes]] :
          \A v \in Outcomes, x \in Single : F[v][x] = After(v, x)
    <3> DEFINE G == [v \in Outcomes |-> [x \in Single |-> After(v, x)]]
    <3>1. G \in [Outcomes -> [Single -> Outcomes]]
      BY <2>1
    <3>2. \A v \in Outcomes, x \in Single : G[v][x] = After(v, x)
      OBVIOUS
    <3> QED
      BY <3>1, <3>2
  <2>3. PICK g : IsFold(g, Outcomes, Single, Passing, F, list)
    <3>1. Passing \in Outcomes
      BY DEF Outcomes
    <3> QED
      BY <1>0, <2>2, <3>1, FoldExists
  <2>4. ASSUME NEW s \in PlaceSets(list), s # {}
        PROVE  g[s] = After(g[s \ {Max(s)}], list[Max(s)])
    <3>1. \A t \in PlaceSets(list) : t # {} =>
            /\ list[Max(t)] \in Single /\ g[t \ {Max(t)}] \in Outcomes
            /\ g[t] = F[g[t \ {Max(t)}]][list[Max(t)]]
      BY <2>3, FoldPlaces, Zenon
    <3>2. /\ list[Max(s)] \in Single /\ g[s \ {Max(s)}] \in Outcomes
          /\ g[s] = F[g[s \ {Max(s)}]][list[Max(s)]]
      BY <2>4, <3>1, Zenon
    <3> QED
      BY <2>2, <3>2
  <2>5. g \in [PlaceSets(list) -> Outcomes] /\ g[{}] = Passing
    BY <2>3, FoldPlaces
  <2>6. g = [s \in SUBSET D |-> g[s]]
    BY <2>5 DEF PlaceSets
  <2>7. Rec(g)
    BY <2>4, <2>5, <2>6 DEF PlaceSets
  <2> QED
    BY <2>7
<1>4. Rec(fold)
  <2> HIDE DEF Rec
  <2> QED
    BY <1>3
<1>5. fold[D] = IF \E i \in D : i \in bad THEN Failed ELSE Passing
  <2> HIDE DEF fold
  <2>1. fold[{}] = Passing
    BY <1>4
  <2>2. ASSUME NEW s \in PlaceSets(list), s # {}, list[Max(s)] \in Single
        PROVE  /\ fold[s \ {Max(s)}] = Failed => fold[s] = Failed
               /\ fold[s \ {Max(s)}] = Passing =>
                    fold[s] = IF Max(s) \in bad THEN Failed ELSE Passing
    <3>1. fold[s] = After(fold[s \ {Max(s)}], list[Max(s)])
      BY <1>4, <2>2 DEF PlaceSets
    <3>2. Max(s) \in D
      BY <1>0, <2>2, MaxOfPlaces DEF PlaceSets
    <3> QED
      BY <1>2, <2>2, <3>1, <3>2
  <2>3. Searches(fold, list, Single, bad)
    BY <2>1, <2>2 DEF Searches
  <2> HIDE DEF bad
  <2> QED
    BY <1>0, <2>3, Search
<1>6. fold[D] \in Outcomes
  BY <1>5 DEF Outcomes
<1> HIDE DEF fold
<1> QED
  BY <1>1, <1>5, <1>6, OutcomesAre

\* A series fails exactly if it has a limit and one of its values is beyond it.
BadSeries(series) ==
  /\ series.target_specified
  /\ \E i \in 1..Len(series.items) : Beyond(series, series.items[i].value)
\* So does the walk over the items of a series.
LEMMA ItemsWalk ==
  ASSUME NEW series \in Series
  PROVE  eval_measurement_series(Passing, series) =
           IF BadSeries(series) THEN Failed ELSE Passing
<1> DEFINE list == series.items
           D == 1..Len(list)
           After(v, x) == IF v.ok THEN (IF Beyond(series, x.value) THEN Failing(v) ELSE v) ELSE v
           Rec(f) == f = [s \in SUBSET D |->
                            IF s = {} THEN Passing
                            ELSE After(f[s \ {Max(s)}], list[Max(s)])]
           fold == CHOOSE f : Rec(f)
           bad == {i \in D : Beyond(series, list[i].value)}
<1>0. list \in Seq(SeriesItem) /\ DOMAIN list = D /\ Len(list) \in Nat
  BY DEF Series
<1>1. eval_measurement_series(Passing, series) =
        IF ~series.target_specified THEN Passing
        ELSE [[fold[D] EXCEPT !.ok = TRUE] EXCEPT
                !.ok = ([fold[D] EXCEPT !.ok = TRUE].verdict # "FAIL")]
  BY <1>0 DEF eval_measurement_series, Walk, FoldLeft, MapThenFoldSet
<1>a. list = series.items
  OBVIOUS
<1> HIDE DEF list
<1>2. \A x \in SeriesItem :
        /\ After(Failed, x) = Failed
        /\ After(Passing, x) = IF Beyond(series, x.value) THEN Failed ELSE Passing
  BY OutcomesAre
<1> HIDE DEF After
<1>3. \E f : Rec(f)
  <2>1. \A v \in Outcomes, x \in SeriesItem : After(v, x) \in Outcomes
    BY <1>2 DEF Outcomes
  <2>2. PICK F \in [Outcomes -> [SeriesItem -> Outcomes]] :
          \A v \in Outcomes, x \in SeriesItem : F[v][x] = After(v, x)
    <3> DEFINE G == [v \in Outcomes |-> [x \in SeriesItem |-> After(v, x)]]
    <3>1. G \in [Outcomes -> [SeriesItem -> Outcomes]]
      BY <2>1
    <3>2. \A v \in Outcomes, x \in SeriesItem : G[v][x] = After(v, x)
      OBVIOUS
    <3> QED
      BY <3>1, <3>2
  <2>3. PICK g : IsFold(g, Outcomes, SeriesItem, Passing, F, list)
    <3>1. Passing \in Outcomes
      BY DEF Outcomes
    <3> QED
      BY <1>0, <2>2, <3>1, FoldExists
  <2>4. ASSUME NEW s \in PlaceSets(list), s # {}
        PROVE  g[s] = After(g[s \ {Max(s)}], list[Max(s)])
    <3>1. \A t \in PlaceSets(list) : t # {} =>
            /\ list[Max(t)] \in SeriesItem /\ g[t \ {Max(t)}] \in Outcomes
            /\ g[t] = F[g[t \ {Max(t)}]][list[Max(t)]]
      BY <2>3, FoldPlaces, Zenon
    <3>2. /\ list[Max(s)] \in SeriesItem /\ g[s \ {Max(s)}] \in Outcomes
          /\ g[s] = F[g[s \ {Max(s)}]][list[Max(s)]]
      BY <2>4, <3>1, Zenon
    <3> QED
      BY <2>2, <3>2
  <2>5. g \in [PlaceSets(list) -> Outcomes] /\ g[{}] = Passing
    BY <2>3, FoldPlaces
  <2>6. g = [s \in SUBSET D |-> g[s]]
    BY <2>5 DEF PlaceSets
  <2>7. Rec(g)
    BY <2>4, <2>5, <2>6 DEF PlaceSets
  <2> QED
    BY <2>7
<1>4. Rec(fold)
  <2> HIDE DEF Rec
  <2> QED
    BY <1>3
<1>5. fold[D] = IF \E i \in D : i \in bad THEN Failed ELSE Passing
  <2> HIDE DEF fold
  <2>1. fold[{}] = Passing
    BY <1>4
  <2>2. ASSUME NEW s \in PlaceSets(list), s # {}, list[Max(s)] \in SeriesItem
        PROVE  /\ fold[s \ {Max(s)}] = Failed => fold[s] = Failed
               /\ fold[s \ {Max(s)}] = Passing =>
                    fold[s] = IF Max(s) \in bad THEN Failed ELSE Passing
    <3>1. fold[s] = After(fold[s \ {Max(s)}], list[Max(s)])
      BY <1>4, <2>2 DEF PlaceSets
    <3>2. Max(s) \in D
      BY <1>0, <2>2, MaxOfPlaces DEF PlaceSets
    <3> QED
      BY <1>2, <2>2, <3>1, <3>2
  <2>3. Searches(fold, list, SeriesItem, bad)
    BY <2>1, <2>2 DEF Searches
  <2> HIDE DEF bad
  <2> QED
    BY <1>0, <2>3, Search
<1>6. fold[D] \in Outcomes
  BY <1>5 DEF Outcomes
<1> HIDE DEF fold
<1>7. eval_measurement_series(Passing, series) =
        IF ~series.target_specified THEN Passing ELSE fold[D]
  BY <1>1, <1>6, OutcomesAre
<1>8. series.target_specified \in BOOLEAN
  BY DEF Series
<1> QED
  BY <1>a, <1>5, <1>7, <1>8 DEF BadSeries

\* The series of a case fail exactly if one of them does.
LEMMA SeriesWalk ==
  ASSUME NEW list \in Seq(Series)
  PROVE  Walk(eval_measurement_series, Passing, list).verdict =
           IF \E i \in 1..Len(list) : BadSeries(list[i]) THEN "FAIL" ELSE "PASS"
<1> DEFINE D == 1..Len(list)
           After(v, x) == IF v.ok THEN eval_measurement_series(v, x) ELSE v
           Rec(f) == f = [s \in SUBSET D |->
                            IF s = {} THEN Passing
                            ELSE After(f[s \ {Max(s)}], list[Max(s)])]
           fold == CHOOSE f : Rec(f)
           bad == {i \in D : BadSeries(list[i])}
<1>0. list \in Seq(Series) /\ DOMAIN list = D /\ Len(list) \in Nat
  OBVIOUS
<1>1. Walk(eval_measurement_series, Passing, list) = [fold[D] EXCEPT !.ok = TRUE]
  BY <1>0 DEF Walk, FoldLeft, MapThenFoldSet
<1>2. \A x \in Series :
        /\ After(Failed, x) = Failed
        /\ After(Passing, x) = IF BadSeries(x) THEN Failed ELSE Passing
  BY OutcomesAre, ItemsWalk
<1> HIDE DEF After
<1>3. \E f : Rec(f)
  <2>1. \A v \in Outcomes, x \in Series : After(v, x) \in Outcomes
    BY <1>2 DEF Outcomes
  <2>2. PICK F \in [Outcomes -> [Series -> Outcomes]] :
          \A v \in Outcomes, x \in Series : F[v][x] = After(v, x)
    <3> DEFINE G == [v \in Outcomes |-> [x \in Series |-> After(v, x)]]
    <3>1. G \in [Outcomes -> [Series -> Outcomes]]
      BY <2>1
    <3>2. \A v \in Outcomes, x \in Series : G[v][x] = After(v, x)
      OBVIOUS
    <3> QED
      BY <3>1, <3>2
  <2>3. PICK g : IsFold(g, Outcomes, Series, Passing, F, list)
    <3>1. Passing \in Outcomes
      BY DEF Outcomes
    <3> QED
      BY <1>0, <2>2, <3>1, FoldExists
  <2>4. ASSUME NEW s \in PlaceSets(list), s # {}
        PROVE  g[s] = After(g[s \ {Max(s)}], list[Max(s)])
    <3>1. \A t \in PlaceSets(list) : t # {} =>
            /\ list[Max(t)] \in Series /\ g[t \ {Max(t)}] \in Outcomes
            /\ g[t] = F[g[t \ {Max(t)}]][list[Max(t)]]
      BY <2>3, FoldPlaces, Zenon
    <3>2. /\ list[Max(s)] \in Series /\ g[s \ {Max(s)}] \in Outcomes
          /\ g[s] = F[g[s \ {Max(s)}]][list[Max(s)]]
      BY <2>4, <3>1, Zenon
    <3> QED
      BY <2>2, <3>2
  <2>5. g \in [PlaceSets(list) -> Outcomes] /\ g[{}] = Passing
    BY <2>3, FoldPlaces
  <2>6. g = [s \in SUBSET D |-> g[s]]
    BY <2>5 DEF PlaceSets
  <2>7. Rec(g)
    BY <2>4, <2>5, <2>6 DEF PlaceSets
  <2> QED
    BY <2>7
<1>4. Rec(fold)
  <2> HIDE DEF Rec
  <2> QED
    BY <1>3
<1>5. fold[D] = IF \E i \in D : i \in bad THEN Failed ELSE Passing
  <2> HIDE DEF fold
  <2>1. fold[{}] = Passing
    BY <1>4
  <2>2. ASSUME NEW s \in PlaceSets(list), s # {}, list[Max(s)] \in Series
        PROVE  /\ fold[s \ {Max(s)}] = Failed => fold[s] = Failed
               /\ fold[s \ {Max(s)}] = Passing =>
                    fold[s] = IF Max(s) \in bad THEN Failed ELSE Passing
    <3>1. fold[s] = After(fold[s \ {Max(s)}], list[Max(s)])
      BY <1>4, <2>2 DEF PlaceSets
    <3>2. Max(s) \in D
      BY <1>0, <2>2, MaxOfPlaces DEF PlaceSets
    <3> QED
      BY <1>2, <2>2, <3>1, <3>2
  <2>3. Searches(fold, list, Series, bad)
    BY <2>1, <2>2 DEF Searches
  <2> HIDE DEF bad
  <2> QED
    BY <1>0, <2>3, Search
<1>6. fold[D] \in Outcomes
  BY <1>5 DEF Outcomes
<1> HIDE DEF fold
<1> QED
  BY <1>1, <1>5, <1>6, OutcomesAre
-----------------------------------------------------------------------------
(* The types.                                                               *)

\* The case, what is kept of a file that is read, and the types of all variables.
Case ==
  [gen : {[name |-> "case"]}, described : BOOLEAN, filtered : BOOLEAN, steps : {<<>>},
   case_res : {"PASS", "FAIL", "N/A"}, measurements : Seq(Single), series : Seq(Series)]
Reading == [series : BOOLEAN, content : Contents]

Types ==
  /\ pc \in {"power", "gets", "open", "read", "done"}
  /\ c \in Case
  /\ gets \in Seq(File) /\ (pc \in {"open", "read"} => file \in File)
  /\ lines \in Seq(Line) /\ started \in BOOLEAN
  /\ started /\ pc \in {"power", "read"} => c.series # <<>>
  /\ bail_out \in BOOLEAN /\ no_measurement_verdicts \in BOOLEAN /\ stale \in BOOLEAN
  /\ before \in {"PASS", "FAIL", "N/A"} /\ power \in Seq(Line)
  /\ measured \in Seq(Reading)

\* What is fetched has a place in the output folder.
Places ==
  /\ folder \in [DOMAIN folder -> Contents]
  /\ \A i \in 1..Len(gets) : gets[i].base \in DOMAIN folder
  /\ pc = "open" => file.base \in DOMAIN folder

\* A field is read as a number, and a new series is one without limits.
LEMMA DoubleTypes ==
  /\ \A field \in Field : Double(field) \in Number
  /\ NewSeries \in Series /\ NewSeries.target_specified = FALSE /\ NewSeries.items = <<>>
  /\ Double([k |-> "word"]) \in Number
<1>1. \A field \in Field : Double(field) \in Number
  BY DEF Double, Field, Number
<1>2. Double([k |-> "word"]) \in Number
  BY DEF Double, Number
<1>3. NewSeries \in Series /\ NewSeries.target_specified = FALSE /\ NewSeries.items = <<>>
  BY <1>2 DEF NewSeries, Series
<1> QED
  BY <1>1, <1>2, <1>3

\* A line has fields.
LEMMA LineTypes ==
  ASSUME NEW line \in Line
  PROVE  /\ Len(line) \in Nat \ {0}
         /\ \A i \in 1..Len(line) : line[i] \in Field
BY DEF Line

\* Judging may change the result of the case, and nothing else of it.
LEMMA JudgeTypes ==
  ASSUME Types, NEW ok \in BOOLEAN, Judge(ok)
  PROVE  /\ pc' = "gets" /\ c' \in Case
         /\ c' = c \/ c' = [c EXCEPT !.case_res = "FAIL"]
BY DEF Types, Judge, Case

\* Adding an item changes the items of one series.
LEMMA AddItemTypes ==
  ASSUME NEW list \in Seq(Series), NEW at \in 1..Len(list), NEW field \in Field,
         NEW timed \in BOOLEAN,
         NEW new, new = add_measurement_item(list, at, Item(field, timed))
  PROVE  /\ new \in Seq(Series) /\ Len(new) = Len(list)
         /\ \A i \in 1..Len(list) : i # at => new[i] = list[i]
         /\ new[at].target_specified = list[at].target_specified
         /\ new[at].target = list[at].target /\ new[at].failure = list[at].failure
         /\ new[at].items = Append(list[at].items, Item(field, timed))
<1>1. Item(field, timed) \in SeriesItem
  BY DoubleTypes DEF Item, SeriesItem
<1>2. list[at] \in Series /\ list[at].items \in Seq(SeriesItem)
  <2>1. list[at] \in Series
    OBVIOUS
  <2> QED
    BY <2>1 DEF Series
<1>3. Append(list[at].items, Item(field, timed)) \in Seq(SeriesItem)
  BY <1>1, <1>2
<1> DEFINE s == [list[at] EXCEPT !.items = Append(@, Item(field, timed))]
<1>4. /\ s \in Series /\ s.items = Append(list[at].items, Item(field, timed))
      /\ s.target_specified = list[at].target_specified
      /\ s.target = list[at].target /\ s.failure = list[at].failure
  BY <1>2, <1>3 DEF Series
<1>5. add_measurement_item(list, at, Item(field, timed)) = [list EXCEPT ![at] = s]
  BY DEF add_measurement_item
<1> HIDE DEF s
<1>6. /\ [list EXCEPT ![at] = s] \in Seq(Series) /\ Len([list EXCEPT ![at] = s]) = Len(list)
      /\ \A i \in 1..Len(list) : [list EXCEPT ![at] = s][i] = IF i = at THEN s ELSE list[i]
  BY <1>4
<1> QED
  BY <1>4, <1>5, <1>6 DEF s

\* What an action does to the case: the lists of others are left alone.
OnlyMeasurements(list) ==
  /\ c' \in Case /\ c'.measurements = list
  /\ c'.case_res = c.case_res /\ c'.series = c.series
OnlySeries(list) ==
  /\ c' \in Case /\ c'.series = list
  /\ c'.case_res = c.case_res /\ c'.measurements = c.measurements

\* An assignment to one list of the case does that.
LEMMA CaseExcept ==
  ASSUME c \in Case
  PROVE  /\ \A list \in Seq(Single) :
              c' = [c EXCEPT !.measurements = list] => OnlyMeasurements(list)
         /\ \A list \in Seq(Series) :
              c' = [c EXCEPT !.series = list] => OnlySeries(list)
BY DEF Case, OnlyMeasurements, OnlySeries

\* An item goes to the end of the series at hand.
ItemAdded(old, list, field) ==
  /\ list \in Seq(Series) /\ Len(list) = Len(old) /\ Len(old) >= 1
  /\ \A i \in 1..Len(old) - 1 : list[i] = old[i]
  /\ list[Len(old)].target_specified = old[Len(old)].target_specified
  /\ list[Len(old)].target = old[Len(old)].target
  /\ list[Len(old)].failure = old[Len(old)].failure
  /\ \E timed \in BOOLEAN :
       list[Len(old)].items = Append(old[Len(old)].items, Item(field, timed))

\* add_measurement_item() adds it.
LEMMA ItemIsAdded ==
  ASSUME NEW old \in Seq(Series), Len(old) \in 1..Len(old), NEW field \in Field,
         NEW timed \in BOOLEAN
  PROVE  ItemAdded(old, add_measurement_item(old, Len(old), Item(field, timed)), field)
<1> DEFINE new == add_measurement_item(old, Len(old), Item(field, timed))
<1>1. /\ new \in Seq(Series) /\ Len(new) = Len(old)
      /\ \A i \in 1..Len(old) : i # Len(old) => new[i] = old[i]
      /\ new[Len(old)].target_specified = old[Len(old)].target_specified
      /\ new[Len(old)].target = old[Len(old)].target
      /\ new[Len(old)].failure = old[Len(old)].failure
      /\ new[Len(old)].items = Append(old[Len(old)].items, Item(field, timed))
  <2>1. new = add_measurement_item(old, Len(old), Item(field, timed))
    OBVIOUS
  <2> HIDE DEF new
  <2> QED
    BY <2>1, AddItemTypes
<1> HIDE DEF new
<1>2. Len(old) \in Nat /\ Len(old) >= 1
  OBVIOUS
<1>3. \A i \in 1..Len(old) - 1 : i \in 1..Len(old) /\ i # Len(old)
  BY <1>2
<1>4. \A i \in 1..Len(old) - 1 : new[i] = old[i]
  BY <1>1, <1>3
<1>5. \E t \in BOOLEAN : new[Len(old)].items = Append(old[Len(old)].items, Item(field, t))
  BY <1>1
<1> QED
  BY <1>1, <1>2, <1>4, <1>5 DEF ItemAdded, new

\* A sample of the power measurement that is a number goes to the one series there
\* is; others are left out.
LEMMA PowerEffect ==
  ASSUME Types, PowerSample
  PROVE  \/ c' = c /\ started' = started /\ SampleOf(Head(lines)) = <<>>
         \/ /\ started' = TRUE
            /\ \E field \in Field : \E list \in Seq(Series) :
                 /\ SampleOf(Head(lines)) = <<field>> /\ OnlySeries(list)
                 /\ ItemAdded(IF started THEN c.series ELSE Append(c.series, NewSeries),
                              list, field)
<1> DEFINE field == Head(lines)[1]
           old == IF started THEN c.series ELSE Append(c.series, NewSeries)
           new == add_measurement_item(old, Len(old), Item(field, FALSE))
<1>1. field \in Field
  <2>1. Head(lines) \in Line
    BY DEF PowerSample, Types
  <2> QED
    BY <2>1, LineTypes
<1>2. old \in Seq(Series) /\ Len(old) \in 1..Len(old)
  <2>1. c.series \in Seq(Series)
    BY DEF Types, Case
  <2>2. started => c.series # <<>>
    BY DEF PowerSample, Types
  <2> QED
    BY <2>1, <2>2, DoubleTypes
<1>3. \/ c' = c /\ started' = started /\ SampleOf(Head(lines)) = <<>>
      \/ c' = [c EXCEPT !.series = new] /\ started' = TRUE /\ SampleOf(Head(lines)) = <<field>>
  BY DEF PowerSample, SampleOf
<1> HIDE DEF old, field
<1>4. ItemAdded(old, new, field)
  BY <1>1, <1>2, ItemIsAdded
<1> HIDE DEF new
<1>5. c' = [c EXCEPT !.series = new] => OnlySeries(new)
  BY <1>4, CaseExcept DEF Types, ItemAdded
<1>6. new \in Seq(Series)
  BY <1>4 DEF ItemAdded
<1> QED
  BY <1>1, <1>3, <1>4, <1>5, <1>6 DEF old

\* A single value is out of its limits.
SingleOut(line) == ~line[1].blank /\ HasTarget(line) /\ Reaches(line[4], line[5], line[2])

\* The numbers of a measurement are beyond its limit as the fields reach it.
LEMMA BeyondIsReaches ==
  ASSUME NEW m, NEW target \in Field, NEW failure \in Field, NEW value \in Field,
         m.target = Double(target), m.failure = Double(failure)
  PROVE  Beyond(m, Double(value)) <=> Reaches(target, failure, value)
<1>1. Double(target) \in Number /\ Double(failure) \in Number /\ Double(value) \in Number
  BY DoubleTypes
<1> QED
  BY <1>1 DEF Beyond, Reaches, Less, AtMost, Number

\* A line of a file of measurements gives a measurement that is bad exactly if
\* the line is out of its limits.
LEMMA MeasurementEffect ==
  ASSUME Types, ReadMeasurement
  PROVE  \E m \in Single : /\ OnlyMeasurements(Append(c.measurements, m))
                           /\ m.value = Double(Head(lines)[2])
                           /\ Bad(m) <=> SingleOut(Head(lines))
<1> DEFINE line == Head(lines)
           limited == HasTarget(line)
           NoLimit == [k |-> "word"]
           m == [value |-> Double(line[2]), target_specified |-> limited,
                 target  |-> Double(IF limited THEN line[4] ELSE NoLimit),
                 failure |-> Double(IF limited THEN line[5] ELSE NoLimit)]
<1>1. line \in Line /\ ~line[1].blank /\ ~Malformed(line)
  BY DEF ReadMeasurement, ReadLine, Types
<1>2. c' = [c EXCEPT !.measurements = Append(@, m)]
  BY DEF ReadMeasurement
<1> HIDE DEF line
<1>3. /\ limited \in BOOLEAN /\ Len(line) >= 3 /\ line[2] \in Field
      /\ limited => line[4] \in Field /\ line[5] \in Field
  BY <1>1, LineTypes DEF Malformed, HasTarget
<1>4. m \in Single /\ m.value = Double(line[2])
  BY <1>3, DoubleTypes DEF Single
<1>5. Bad(m) <=> SingleOut(line)
  <2>1. Bad(m) <=> limited /\ Beyond(m, Double(line[2]))
    BY DEF Bad
  <2>2. limited => (Beyond(m, Double(line[2])) <=> Reaches(line[4], line[5], line[2]))
    <3>1. limited => m.target = Double(line[4]) /\ m.failure = Double(line[5])
      OBVIOUS
    <3> HIDE DEF m, limited
    <3> QED
      BY <1>3, <3>1, BeyondIsReaches
  <2> QED
    BY <1>1, <2>1, <2>2 DEF SingleOut
<1> HIDE DEF m
<1>6. Append(c.measurements, m) \in Seq(Single)
  BY <1>4 DEF Types, Case
<1>7. OnlyMeasurements(Append(c.measurements, m))
  BY <1>2, <1>6, CaseExcept DEF Types
<1> QED
  BY <1>4, <1>5, <1>7 DEF line

\* The limits in the header of a series are taken.
Limited(header) == Len(header) > 3 /\ Converts(header[3]) /\ Converts(header[4])

\* A header gives an empty series with its limits.
LEMMA HeaderEffect ==
  ASSUME Types, ReadHeader
  PROVE  \E s \in Series :
           /\ OnlySeries(Append(c.series, s)) /\ s.items = <<>>
           /\ s.target_specified <=> Limited(Head(lines))
           /\ Limited(Head(lines)) => /\ s.target = Double(Head(lines)[3])
                                      /\ s.failure = Double(Head(lines)[4])
<1> DEFINE line == Head(lines)
           s == IF Limited(line)
                THEN [NewSeries EXCEPT !.target_specified = TRUE,
                                       !.target = Double(line[3]), !.failure = Double(line[4])]
                ELSE NewSeries
<1>1. line \in Line
  BY DEF ReadHeader, ReadLine, Types
<1>2. c' = [c EXCEPT !.series = Append(@, s)]
  BY DEF ReadHeader, Limited
<1> HIDE DEF line
<1>3. Limited(line) \in BOOLEAN /\ (Limited(line) => line[3] \in Field /\ line[4] \in Field)
  BY <1>1, LineTypes DEF Limited
<1>4. /\ s \in Series /\ s.items = <<>> /\ s.target_specified = Limited(line)
      /\ Limited(line) => s.target = Double(line[3]) /\ s.failure = Double(line[4])
  BY <1>3, DoubleTypes DEF Series
<1> HIDE DEF s
<1>5. Append(c.series, s) \in Seq(Series)
  BY <1>4 DEF Types, Case
<1>6. OnlySeries(Append(c.series, s))
  BY <1>2, <1>5, CaseExcept DEF Types
<1> QED
  BY <1>4, <1>6 DEF line

\* A line with a value gives an item of the current series; others are left out.
LEMMA ItemEffect ==
  ASSUME Types, ReadItem
  PROVE  \/ c' = c /\ ValueOf(Head(lines)) = <<>>
         \/ \E field \in Field : \E list \in Seq(Series) :
              /\ ValueOf(Head(lines)) = <<field>>
              /\ OnlySeries(list) /\ ItemAdded(c.series, list, field)
<1> DEFINE line == Head(lines)
           timed == Len(line) > 1
           field == IF timed THEN line[2] ELSE line[1]
           new == add_measurement_item(c.series, Len(c.series), Item(field, timed))
<1>1. line \in Line
  BY DEF ReadItem, ReadLine, Types
<1>2. c' = IF (timed => line[1].k = "time") /\ Converts(field)
           THEN [c EXCEPT !.series = new] ELSE c
  BY DEF ReadItem, CurrentSeries
<1>3. c.series \in Seq(Series) /\ Len(c.series) \in 1..Len(c.series)
  BY DEF ReadItem, ReadLine, Types, Case
<1> HIDE DEF line
<1>4. timed \in BOOLEAN /\ field \in Field /\ Len(line) \in Nat \ {0}
  BY <1>1, LineTypes
<1>5. ValueOf(line) = IF (timed => line[1].k = "time") /\ Converts(field)
                      THEN <<field>> ELSE <<>>
  BY <1>4 DEF ValueOf
<1> HIDE DEF field, timed
<1>6. ItemAdded(c.series, new, field)
  BY <1>3, <1>4, ItemIsAdded
<1> HIDE DEF new
<1>7. new \in Seq(Series)
  BY <1>6 DEF ItemAdded
<1>8. c' = [c EXCEPT !.series = new] => OnlySeries(new)
  BY <1>7, CaseExcept DEF Types
<1> QED
  BY <1>2, <1>4, <1>5, <1>6, <1>7, <1>8 DEF line

\* The types hold at first,
LEMMA TypesInit == Init => Types /\ Places
<1> SUFFICES ASSUME Init PROVE Types /\ Places
  OBVIOUS
<1>1. gets \in Seq(File) /\ power \in Seq(Line)
  BY MeasurementsAssumption DEF Init
<1>2. Missing \in Contents
  BY DEF Missing, Contents
<1>3. NewCase(before) \in Case
  <2>1. before \in {"PASS", "FAIL", "N/A"}
    BY DEF Init
  <2>2. <<>> \in Seq(Single) /\ <<>> \in Seq(Series) /\ <<>> \in {<<>>}
    OBVIOUS
  <2> HIDE DEF Init
  <2> QED
    BY <2>1, <2>2 DEF NewCase, Case
<1>5. Types
  <2>1. pc = "power" /\ c = NewCase(before) /\ lines = power /\ started = FALSE
    BY DEF Init
  <2>2. /\ bail_out \in BOOLEAN /\ no_measurement_verdicts \in BOOLEAN /\ stale \in BOOLEAN
        /\ before \in {"PASS", "FAIL", "N/A"} /\ measured = <<>>
    BY DEF Init
  <2>3. measured \in Seq(Reading)
    BY <2>2
  <2> HIDE DEF Init
  <2> QED
    BY <1>1, <1>3, <2>1, <2>2, <2>3 DEF Types
<1>6. folder \in [{gets[i].base : i \in DOMAIN gets} -> Contents]
  BY MeasurementsAssumption DEF Init
<1>7. Places
  BY <1>1, <1>6 DEF Init, Places
<1> QED
  BY <1>5, <1>7

\* and after every step.
LEMMA TypesStep ==
  ASSUME Types, Places, [Next]_vars
  PROVE  Types' /\ Places'
<1> USE DEF given
<1>0. /\ lines # <<>> => Head(lines) \in Line /\ Tail(lines) \in Seq(Line)
      /\ gets # <<>> => /\ Head(gets) \in File /\ Tail(gets) \in Seq(File)
                        /\ Head(gets).base \in DOMAIN folder
                        /\ \A i \in 1..Len(Tail(gets)) : Tail(gets)[i].base \in DOMAIN folder
  <2>1. lines # <<>> => Head(lines) \in Line /\ Tail(lines) \in Seq(Line)
    BY DEF Types
  <2>2. gets # <<>> => Head(gets) \in File /\ Tail(gets) \in Seq(File)
    BY DEF Types
  <2>3. ASSUME gets # <<>>
        PROVE  /\ Head(gets).base \in DOMAIN folder
               /\ \A i \in 1..Len(Tail(gets)) : Tail(gets)[i].base \in DOMAIN folder
    <3>1. Len(gets) \in Nat \ {0} /\ Head(gets) = gets[1]
      BY <2>3 DEF Types
    <3>2. \A i \in 1..Len(Tail(gets)) : i + 1 \in 1..Len(gets) /\ Tail(gets)[i] = gets[i + 1]
      BY <2>3, <3>1 DEF Types
    <3> QED
      BY <3>1, <3>2 DEF Places
  <2> QED
    BY <2>1, <2>2, <2>3
<1>1. CASE PowerSample
  <2>1. c' \in Case /\ started' \in BOOLEAN /\ (started' => c'.series # <<>>)
    <3>1. CASE c' = c /\ started' = started
      BY <1>1, <3>1 DEF PowerSample, Types
    <3>2. ASSUME NEW list \in Seq(Series), NEW field \in Field, OnlySeries(list), started' = TRUE,
                 ItemAdded(IF started THEN c.series ELSE Append(c.series, NewSeries), list, field)
          PROVE  c' \in Case /\ started' \in BOOLEAN /\ (started' => c'.series # <<>>)
      BY <3>2 DEF OnlySeries, ItemAdded
    <3> QED
      BY <1>1, <3>1, <3>2, PowerEffect
  <2> QED
    BY <1>0, <1>1, <2>1 DEF PowerSample, Types, Places
<1>2. CASE PowerEnds
  BY <1>2 DEF PowerEnds, Types, Places
<1>3. CASE GetFile
  BY <1>0, <1>3 DEF GetFile, Types, Places, File
<1>4. CASE SkipFile
  BY <1>0, <1>4 DEF SkipFile, Types, Places
<1>5. CASE OpenFile
  <2>1. folder[file.base] \in Contents /\ file.series \in BOOLEAN
    BY <1>5 DEF OpenFile, Types, Places, File
  <2>2. lines' \in Seq(Line) /\ measured' \in Seq(Reading)
    <3>1. [series |-> file.series, content |-> folder[file.base]] \in Reading
      BY <2>1 DEF Reading
    <3>2. folder[file.base].lines \in Seq(Line)
      BY <2>1 DEF Contents
    <3> QED
      BY <1>5, <3>1, <3>2 DEF OpenFile, Types
  <2>3. c' \in Case /\ pc' \in {"gets", "read"}
    BY <1>5, JudgeTypes DEF OpenFile, Types
  <2> QED
    BY <1>5, <2>2, <2>3 DEF OpenFile, Types, Places
<1>6. CASE ReadBlank
  BY <1>0, <1>6 DEF ReadBlank, ReadLine, Types, Places
<1>7. CASE ReadMeasurement
  <2>1. c' \in Case /\ c'.series = c.series
    BY <1>7, MeasurementEffect DEF OnlyMeasurements
  <2> QED
    BY <1>0, <1>7, <2>1 DEF ReadMeasurement, ReadLine, Types, Places
<1>8. CASE ReadMalformed
  BY <1>0, <1>8, JudgeTypes DEF ReadMalformed, ReadLine, Types, Places
<1>9. CASE ReadHeader
  <2>1. c' \in Case /\ c'.series # <<>>
    <3>1. PICK s \in Series : OnlySeries(Append(c.series, s))
      BY <1>9, HeaderEffect
    <3>2. c.series \in Seq(Series)
      BY DEF Types, Case
    <3> QED
      BY <3>1, <3>2 DEF OnlySeries
  <2> QED
    BY <1>0, <1>9, <2>1 DEF ReadHeader, ReadLine, Types, Places
<1>10. CASE ReadItem
  <2>1. c' \in Case /\ c'.series # <<>>
    <3>1. c.series # <<>>
      BY <1>10 DEF ReadItem, ReadLine, Types
    <3> QED
      BY <1>10, <3>1, ItemEffect DEF OnlySeries, ItemAdded, Types
  <2> QED
    BY <1>0, <1>10, <2>1 DEF ReadItem, ReadLine, Types, Places
<1>11. CASE EndOfFile
  BY <1>11, JudgeTypes DEF EndOfFile, Types, Places
<1>12. CASE WriteCase
  BY <1>12 DEF WriteCase, Types, Places
<1>13. CASE UNCHANGED vars
  BY <1>13 DEF vars, Types, Places
<1> QED
  BY <1>1, <1>2, <1>3, <1>4, <1>5, <1>6, <1>7, <1>8, <1>9, <1>10, <1>11, <1>12, <1>13
     DEF Next
-----------------------------------------------------------------------------
(* The file at hand.                                                        *)

\* The file that is read, how many of its lines have been read, and whether one
\* is read at all.
Now  == measured[Len(measured)]
Done == Len(Now.content.lines) - Len(lines)
Reads == pc = "read"

\* The file that is read is the last in measured, and what is left of it are its
\* last lines.
FileAtHand ==
  Reads =>
    /\ measured # <<>> /\ Now.series = file.series /\ Now.content.there
    /\ Done \in 0..Len(Now.content.lines)
    /\ \A i \in 1..Len(lines) : lines[i] = Now.content.lines[Done + i]
\* The lines before them could be processed; the series exists once its header
\* has been read.
LinesWereGood ==
  Reads =>
    /\ ~file.series => \A i \in 1..Done : ~Now.content.lines[i][1].blank
                                            => ~Malformed(Now.content.lines[i])
    /\ file.series => (started <=> Done >= 1)
    /\ file.series /\ started => Len(Now.content.lines[1]) >= 2

\* Reading a line.
LEMMA NextLine ==
  ASSUME Types, FileAtHand, Reads, lines # <<>>, lines' = Tail(lines),
         UNCHANGED <<measured>>
  PROVE  /\ Done' = Done + 1 /\ Done + 1 <= Len(Now.content.lines)
         /\ Now' = Now /\ Head(lines) = Now.content.lines[Done + 1]
         /\ \A i \in 1..Len(lines') : lines'[i] = Now.content.lines[Done' + i]
<1> DEFINE all == Now.content.lines
<1>1. Now \in Reading /\ all \in Seq(Line)
  <2>1. Now \in Reading
    BY DEF Types, FileAtHand, Now
  <2> QED
    BY <2>1 DEF Reading, Contents
<1>2. Now' = Now
  BY DEF Now
<1>3. /\ Len(lines) \in Nat \ {0} /\ Head(lines) = lines[1]
      /\ Len(lines') = Len(lines) - 1 /\ \A i \in 1..Len(lines') : lines'[i] = lines[i + 1]
  BY DEF Types
<1>4. Len(all) \in Nat /\ Done = Len(all) - Len(lines) /\ Done' = Len(all) - Len(lines')
  BY <1>1, <1>2 DEF Done
<1>5. Done \in 0..Len(all) /\ \A i \in 1..Len(lines) : lines[i] = all[Done + i]
  BY DEF FileAtHand
<1> HIDE DEF all
<1>6. Done' = Done + 1 /\ Done + 1 <= Len(all)
  BY <1>3, <1>4, <1>5
<1>7. ASSUME NEW i \in 1..Len(lines') PROVE lines'[i] = all[Done' + i]
  <2>1. i + 1 \in 1..Len(lines) /\ Done + (i + 1) = Done' + i
    BY <1>3, <1>5, <1>6
  <2> QED
    BY <1>3, <1>5, <2>1
<1>8. Head(lines) = all[Done + 1]
  BY <1>3, <1>5
<1> QED
  BY <1>2, <1>6, <1>7, <1>8 DEF all

\* A file has been opened and can be read.
LEMMA OpenedFile ==
  ASSUME Types, Types', OpenFile, pc' = "read"
  PROVE  /\ measured' = Append(measured, Now') /\ measured' # <<>>
         /\ Now'.series = file'.series /\ Now'.content.there /\ lines' = Now'.content.lines
         /\ Done' = 0 /\ Len(lines') \in Nat
         /\ file' = file /\ c' = c /\ started' = FALSE
<1>1. /\ measured' = Append(measured, [series |-> file.series, content |-> folder[file.base]])
      /\ lines' = folder[file.base].lines /\ file' = file /\ measured \in Seq(Reading)
      /\ started' = FALSE
  BY DEF OpenFile, Types
<1>2. folder[file.base].there /\ c' = c
  BY DEF OpenFile, Judge
<1>3. Now' = [series |-> file.series, content |-> folder[file.base]] /\ measured' # <<>>
  BY <1>1 DEF Now
<1>4. lines' \in Seq(Line)
  BY DEF Types
<1>5. Len(lines') \in Nat /\ Done' = 0
  BY <1>1, <1>3, <1>4 DEF Done
<1> QED
  BY <1>1, <1>2, <1>3, <1>5

\* A line has been read.
LineTaken == ReadBlank \/ ReadMeasurement \/ ReadHeader \/ ReadItem
\* What a step that reads a line does to the file at hand.
LEMMA LineRead ==
  ASSUME Types, FileAtHand, LineTaken
  PROVE  /\ Reads /\ Reads' /\ file' = file /\ measured' = measured /\ Now' = Now
         /\ Done \in 0..Len(Now.content.lines) - 1 /\ Done' = Done + 1
         /\ Head(lines) = Now.content.lines[Done + 1]
         /\ Len(Now.content.lines) \in Nat
         /\ \A i \in 1..Len(lines') : lines'[i] = Now.content.lines[Done' + i]
<1>1. /\ pc = "read" /\ pc' = "read" /\ lines # <<>> /\ lines' = Tail(lines)
      /\ measured' = measured /\ file' = file
  BY DEF LineTaken, ReadBlank, ReadMeasurement, ReadHeader, ReadItem, ReadLine
<1>2. /\ Done' = Done + 1 /\ Done + 1 <= Len(Now.content.lines)
      /\ Now' = Now /\ Head(lines) = Now.content.lines[Done + 1]
      /\ \A i \in 1..Len(lines') : lines'[i] = Now.content.lines[Done' + i]
  BY <1>1, NextLine DEF Reads
<1>3. Done \in 0..Len(Now.content.lines)
  BY <1>1 DEF FileAtHand, Reads
<1>4. Len(Now.content.lines) \in Nat
  <2>1. Now \in Reading
    BY <1>1 DEF Types, FileAtHand, Now, Reads
  <2> QED
    BY <2>1 DEF Reading, Contents
<1>5. Done \in 0..Len(Now.content.lines) - 1
  <2> HIDE DEF Done, Now
  <2> QED
    BY <1>2, <1>3, <1>4
<1> QED
  BY <1>1, <1>2, <1>4, <1>5 DEF Reads

\* No other step leaves the file at hand to be read.
LEMMA OtherSteps ==
  ASSUME Next, ~OpenFile, ~LineTaken
  PROVE  pc' # "read"
BY DEF Next, LineTaken, PowerSample, PowerEnds, GetFile, SkipFile, ReadMalformed, ReadLine,
       EndOfFile, WriteCase, Judge

\* FileAtHand is kept by every step.
LEMMA FileAtHandStep ==
  ASSUME Types, Types', FileAtHand, [Next]_vars
  PROVE  FileAtHand'
<1> USE DEF Reads, given
<1>1. CASE OpenFile /\ pc' = "read"
  <2>1. Done' + 0 = 0 /\ Len(Now'.content.lines) \in Nat
    BY <1>1, OpenedFile
  <2> QED
    BY <1>1, <2>1, OpenedFile DEF FileAtHand
<1>2. CASE LineTaken
  <2>1. Now'.series = file'.series /\ Now'.content.there /\ measured' # <<>>
    BY <1>2, LineRead DEF FileAtHand
  <2>2. Done' \in 0..Len(Now'.content.lines)
    <3> HIDE DEF Done, Now
    <3> QED
      BY <1>2, LineRead
  <2> QED
    BY <1>2, <2>1, <2>2, LineRead DEF FileAtHand
<1>3. CASE UNCHANGED vars
  BY <1>3 DEF vars, FileAtHand, Now, Done
<1>4. CASE pc' # "read"
  BY <1>4 DEF FileAtHand
<1> QED
  BY <1>1, <1>2, <1>3, <1>4, OtherSteps

\* LinesWereGood is kept by every step.
LEMMA LinesWereGoodStep ==
  ASSUME Types, Types', FileAtHand, LinesWereGood, [Next]_vars
  PROVE  LinesWereGood'
<1> DEFINE all == Now.content.lines
<1>1. CASE OpenFile /\ pc' = "read"
  <2>1. Done' = 0 /\ ~started' /\ 1..0 = {} /\ ~(0 >= 1)
    BY <1>1, OpenedFile
  <2> QED
    BY <2>1 DEF LinesWereGood
<1>2. CASE ReadBlank \/ ReadMeasurement
  <2>1. /\ ~file.series
        /\ ~Head(lines)[1].blank => ~Malformed(Head(lines))
    BY <1>2 DEF ReadBlank, ReadMeasurement, ReadLine
  <2>2. /\ Reads /\ file' = file /\ Now' = Now /\ Done' = Done + 1 /\ Done \in Nat
        /\ Head(lines) = all[Done + 1]
    BY <1>2, LineRead DEF LineTaken
  <2>3. \A i \in 1..Done : ~all[i][1].blank => ~Malformed(all[i])
    BY <2>1, <2>2 DEF LinesWereGood
  <2>4. \A i \in 1..Done' : i \in 1..Done \/ i = Done + 1
    <3> HIDE DEF Done
    <3> QED
      BY <2>2
  <2>5. \A i \in 1..Done' : ~all[i][1].blank => ~Malformed(all[i])
    BY <2>1, <2>2, <2>3, <2>4
  <2>6. ~file'.series /\ Now' = Now
    BY <2>1, <2>2
  <2> QED
    BY <2>5, <2>6 DEF LinesWereGood
<1>3. CASE ReadHeader
  <2>1. file.series /\ ~started /\ started' /\ Len(Head(lines)) >= 2
    BY <1>3 DEF ReadHeader, ReadLine
  <2>2. /\ Reads /\ file' = file /\ Now' = Now /\ Done' = Done + 1 /\ Done \in Nat
        /\ Head(lines) = all[Done + 1]
    BY <1>3, LineRead DEF LineTaken
  <2>3. ~(Done >= 1)
    BY <2>1, <2>2 DEF LinesWereGood
  <2>4. Done = 0 /\ Done' = 1
    <3> HIDE DEF Done
    <3> QED
      BY <2>2, <2>3
  <2>5. Len(Now'.content.lines[1]) >= 2 /\ file'.series /\ started' /\ Done' >= 1
    BY <2>1, <2>2, <2>4
  <2> QED
    BY <2>5 DEF LinesWereGood
<1>4. CASE ReadItem
  <2>1. file.series /\ started /\ started' = started
    BY <1>4 DEF ReadItem, ReadLine
  <2>2. Reads /\ file' = file /\ Now' = Now /\ Done' = Done + 1 /\ Done \in Nat
    BY <1>4, LineRead DEF LineTaken
  <2>3. Len(Now'.content.lines[1]) >= 2 /\ file'.series /\ started'
    BY <2>1, <2>2 DEF LinesWereGood
  <2>4. Done' >= 1
    <3> HIDE DEF Done
    <3> QED
      BY <2>2
  <2> QED
    BY <2>3, <2>4 DEF LinesWereGood
<1>5. CASE UNCHANGED vars
  BY <1>5 DEF vars, given, LinesWereGood, Now, Done, Reads
<1>6. CASE pc' # "read"
  BY <1>6 DEF LinesWereGood, Reads
<1> QED
  BY <1>1, <1>2, <1>3, <1>4, <1>5, <1>6, OtherSteps DEF LineTaken

-----------------------------------------------------------------------------
(* What has been measured, and the verdict.                                 *)

\* The measurements may fail the case; the files that have been judged, and
\* those that fail a case.
Live   == before = "PASS" /\ ~no_measurement_verdicts
Judged == IF Reads THEN Len(measured) - 1 ELSE Len(measured)
Fails(r) == Unreadable(r) \/ OutOfLimits(r)

\* The files that have been read to their end decide.
Verdicts ==
  /\ ~Live => c.case_res = before
  /\ Live  => c.case_res = IF \E i \in 1..Judged : Fails(measured[i]) THEN "FAIL" ELSE "PASS"

\* The samples of the power measurement have no limits.
PowerHasNoLimit ==
  pc = "power" => /\ measured = <<>> /\ c.measurements = <<>>
                  /\ \A i \in 1..Len(c.series) : ~c.series[i].target_specified

\* The series that is read has the limits of its header and the values read.
SeriesAtHand ==
  Reads /\ file.series /\ started =>
    LET s      == c.series[Len(c.series)]
        header == Now.content.lines[1]
    IN  /\ s.target_specified <=> Limited(header)
        /\ Limited(header) =>
             /\ s.target = Double(header[3]) /\ s.failure = Double(header[4])
             /\ (\E i \in 1..Len(s.items) : Beyond(s, s.items[i].value))
                  <=> \E i \in 2..Done : \E x \in ToSet(ValueOf(Now.content.lines[i])) :
                        Reaches(header[3], header[4], x)

\* The series that are not being read, and: while the case passes, only the file
\* at hand can have values out of limits.
Finished == IF Reads /\ file.series /\ started THEN Len(c.series) - 1 ELSE Len(c.series)
Clean ==
  Live /\ c.case_res = "PASS" =>
    /\ (\E i \in 1..Len(c.measurements) : Bad(c.measurements[i]))
         <=> Reads /\ ~file.series /\ \E i \in 1..Done : SingleOut(Now.content.lines[i])
    /\ \A i \in 1..Finished : ~BadSeries(c.series[i])

\* eval_measurements() in terms of the lists of the case.
LEMMA EvalIs ==
  ASSUME Types, file \in File
  PROVE  eval_measurements =
           IF IF file.series THEN \E i \in 1..Len(c.series) : BadSeries(c.series[i])
                             ELSE \E i \in 1..Len(c.measurements) : Bad(c.measurements[i])
           THEN "FAIL" ELSE "PASS"
<1>1. c.series \in Seq(Series) /\ c.measurements \in Seq(Single) /\ file.series \in BOOLEAN
  BY DEF Types, Case, File
<1>2. eval_measurements =
        IF file.series THEN Walk(eval_measurement_series, Passing, c.series).verdict
        ELSE Walk(eval_meas, Passing, c.measurements).verdict
  BY DEF eval_measurements, Passing
<1>3. Walk(eval_measurement_series, Passing, c.series).verdict =
        IF \E i \in 1..Len(c.series) : BadSeries(c.series[i]) THEN "FAIL" ELSE "PASS"
  BY <1>1, SeriesWalk
<1>4. Walk(eval_meas, Passing, c.measurements).verdict =
        IF \E i \in 1..Len(c.measurements) : Bad(c.measurements[i]) THEN "FAIL" ELSE "PASS"
  BY <1>1, SinglesWalk
<1> QED
  BY <1>1, <1>2, <1>3, <1>4

\* Judging the last file keeps the verdict true to the files.
LEMMA JudgeDecides ==
  ASSUME Types, Verdicts, NEW ok \in BOOLEAN, Judge(ok), UNCHANGED given,
         Judged \in Nat, measured' \in Seq(Reading), Len(measured') = Judged + 1,
         \A i \in 1..Judged : measured'[i] = measured[i],
         Live /\ c.case_res = "PASS" =>
           (Fails(measured'[Judged + 1]) <=> ~ok \/ eval_measurements = "FAIL")
  PROVE  /\ Verdicts'
         /\ ~ok => ~(Live' /\ c'.case_res = "PASS")
<1>1. Live' <=> Live
  BY DEF Live, given
<1>2. Judged' = Judged + 1
  BY DEF Judge, Judged, Reads
<1>3. c'.case_res = IF c.case_res = "PASS" /\ ~no_measurement_verdicts
                       /\ (~ok \/ eval_measurements = "FAIL")
                    THEN "FAIL" ELSE c.case_res
  BY DEF Judge, Types, Case
<1>4. CASE ~Live
  <2>1. c.case_res = before /\ before' = before
    BY <1>4 DEF Verdicts, given
  <2>2. c'.case_res = before'
    BY <1>3, <1>4, <2>1 DEF Live
  <2> QED
    BY <1>1, <1>4, <2>2 DEF Verdicts
<1>5. CASE Live
  <2> DEFINE last == Fails(measured'[Judged + 1])
             Some  == \E i \in 1..Judged : Fails(measured[i])
             Some1 == \E i \in 1..Judged + 1 : Fails(measured'[i])
  <2>1. c.case_res = IF Some THEN "FAIL" ELSE "PASS"
    BY <1>5 DEF Verdicts
  <2>2. Some1 <=> Some \/ last
    <3>1. \A i : i \in 1..Judged + 1 <=> (i \in 1..Judged \/ i = Judged + 1)
      <4> HIDE DEF Judged
      <4> QED
        OBVIOUS
    <3> QED
      BY <3>1
  <2>3. c'.case_res = IF Some1 THEN "FAIL" ELSE "PASS"
    <3>1. ~no_measurement_verdicts
      BY <1>5 DEF Live
    <3> HIDE DEF last, Some, Some1
    <3> QED
      BY <1>3, <1>5, <2>1, <2>2, <3>1 DEF last
  <2>4. (\E i \in 1..Judged' : Fails(measured'[i])) <=> Some1
    BY <1>2
  <2>5. Verdicts'
    <3> HIDE DEF Some1
    <3>1. c'.case_res = IF \E i \in 1..Judged' : Fails(measured'[i]) THEN "FAIL" ELSE "PASS"
      BY <2>3, <2>4
    <3>2. (\E i \in 1..Judged' : Fails(measured'[i]))
            <=> (\E i \in 1..Judged : Fails(measured[i]))'
      BY DEF Fails, Unreadable, OutOfLimits
    <3> QED
      BY <1>1, <1>5, <3>1 DEF Verdicts, Fails, Unreadable, OutOfLimits
  <2>6. ~ok => c'.case_res # "PASS"
    BY <1>3, <1>5, <2>1 DEF Live
  <2> QED
    BY <2>5, <2>6
<1> QED
  BY <1>1, <1>4, <1>5

\* A file that has been read to its end fails exactly if its values do.
LEMMA EndDecides ==
  ASSUME Types, FileAtHand, LinesWereGood, SeriesAtHand, Clean, EndOfFile,
         Live, c.case_res = "PASS"
  PROVE  /\ Fails(Now) <=> eval_measurements = "FAIL"
         /\ eval_measurements = "PASS" =>
              /\ \A i \in 1..Len(c.measurements) : ~Bad(c.measurements[i])
              /\ \A i \in 1..Len(c.series) : ~BadSeries(c.series[i])
<1> DEFINE all == Now.content.lines
<1>1. pc = "read" /\ Reads /\ lines = <<>> /\ file \in File
  BY DEF EndOfFile, Reads, Types
<1>2. /\ Now \in Reading /\ Now.content.there /\ Now.series = file.series
      /\ all \in Seq(Line) /\ file.series \in BOOLEAN /\ c.series \in Seq(Series)
  <2>1. Now \in Reading
    BY <1>1 DEF Types, FileAtHand, Now
  <2> QED
    BY <1>1, <2>1 DEF Types, FileAtHand, Reading, Contents, File, Case
<1>3. Len(all) \in Nat /\ Done = Len(all)
  BY <1>1, <1>2 DEF Done
<1>4. CASE ~file.series
  <2>1. ~Unreadable(Now)
    <3>1. ASSUME NEW line \in ToSet(all), ~line[1].blank PROVE ~Malformed(line)
      <4>1. PICK i \in 1..Len(all) : all[i] = line
        BY <1>2 DEF ToSet
      <4> QED
        BY <1>1, <1>3, <1>4, <3>1, <4>1 DEF LinesWereGood
    <3> QED
      BY <1>2, <1>4, <3>1 DEF Unreadable
  <2>2. OutOfLimits(Now) <=> \E i \in 1..Len(all) : SingleOut(all[i])
    <3>1. OutOfLimits(Now) <=> \E line \in ToSet(all) : SingleOut(line)
      BY <1>2, <1>4 DEF OutOfLimits, SingleOut
    <3>2. ToSet(all) = {all[i] : i \in 1..Len(all)}
      BY <1>2 DEF ToSet
    <3> QED
      BY <3>1, <3>2
  <2>3. (\E i \in 1..Len(c.measurements) : Bad(c.measurements[i]))
          <=> \E i \in 1..Len(all) : SingleOut(all[i])
    BY <1>1, <1>3, <1>4 DEF Clean
  <2>4. \A i \in 1..Len(c.series) : ~BadSeries(c.series[i])
    BY <1>4 DEF Clean, Finished
  <2>5. eval_measurements =
          IF \E i \in 1..Len(c.measurements) : Bad(c.measurements[i]) THEN "FAIL" ELSE "PASS"
    BY <1>1, <1>4, EvalIs
  <2> QED
    BY <2>1, <2>2, <2>3, <2>4, <2>5 DEF Fails
<1>5. CASE file.series
  <2>1. ~Unreadable(Now)
    <3>1. all # <<>> => Len(all) >= 1
      BY <1>2
    <3>2. all # <<>> => Len(all[1]) >= 2 /\ Len(all[1]) \in Nat
      <4>1. all # <<>> => all[1] \in Line
        BY <1>2
      <4> QED
        BY <1>1, <1>3, <1>5, <3>1, <4>1, LineTypes DEF LinesWereGood
    <3> QED
      BY <1>2, <1>5, <3>2 DEF Unreadable
  <2>2. \A i \in 1..Len(c.measurements) : ~Bad(c.measurements[i])
    BY <1>5 DEF Clean
  <2>3. eval_measurements =
          IF \E i \in 1..Len(c.series) : BadSeries(c.series[i]) THEN "FAIL" ELSE "PASS"
    BY <1>1, <1>5, EvalIs
  <2>4. CASE ~started
    <3>1. all = <<>>
      BY <1>1, <1>2, <1>3, <1>5, <2>4 DEF LinesWereGood
    <3>2. ~OutOfLimits(Now)
      BY <1>2, <1>5, <3>1 DEF OutOfLimits
    <3>3. \A i \in 1..Len(c.series) : ~BadSeries(c.series[i])
      BY <2>4 DEF Clean, Finished
    <3> QED
      BY <2>1, <2>2, <2>3, <3>2, <3>3 DEF Fails
  <2>5. CASE started
    <3> DEFINE s == c.series[Len(c.series)]
               header == all[1]
    <3>1. all # <<>> /\ Head(all) = header
      BY <1>1, <1>2, <1>3, <1>5, <2>5 DEF LinesWereGood
    <3>2. OutOfLimits(Now) <=>
            /\ Limited(header)
            /\ \E i \in 2..Len(all) : \E x \in ToSet(ValueOf(all[i])) :
                 Reaches(header[3], header[4], x)
      BY <1>2, <1>5, <3>1 DEF OutOfLimits, Limited
    <3>3. BadSeries(s) <=> OutOfLimits(Now)
      <4>1. s.target_specified <=> Limited(header)
        BY <1>1, <1>5, <2>5 DEF SeriesAtHand
      <4>2. Limited(header) =>
             ((\E i \in 1..Len(s.items) : Beyond(s, s.items[i].value))
                  <=> \E i \in 2..Len(all) : \E x \in ToSet(ValueOf(all[i])) :
                        Reaches(header[3], header[4], x))
        BY <1>1, <1>3, <1>5, <2>5 DEF SeriesAtHand
      <4> HIDE DEF s, header, all
      <4> QED
        BY <3>2, <4>1, <4>2 DEF BadSeries
    <3>4. \A i \in 1..Len(c.series) - 1 : ~BadSeries(c.series[i])
      BY <1>1, <1>5, <2>5 DEF Clean, Finished
    <3>5. Len(c.series) \in Nat \ {0}
      BY <1>1, <1>2, <2>5 DEF Types
    <3>6. \A i \in 1..Len(c.series) : i \in 1..Len(c.series) - 1 \/ i = Len(c.series)
      BY <3>5
    <3>7. (\E i \in 1..Len(c.series) : BadSeries(c.series[i])) <=> BadSeries(s)
      BY <3>4, <3>5, <3>6
    <3> QED
      BY <2>1, <2>2, <2>3, <3>3, <3>7 DEF Fails
  <2> QED
    BY <1>2, <2>4, <2>5 DEF Types
<1> QED
  BY <1>2, <1>4, <1>5

\* PowerHasNoLimit is kept by every step.
LEMMA PowerStep ==
  ASSUME Types, PowerHasNoLimit, [Next]_vars
  PROVE  PowerHasNoLimit'
<1>1. CASE PowerSample
  <2>1. /\ pc = "power" /\ pc' = "power" /\ measured' = measured
        /\ c.series \in Seq(Series) /\ measured = <<>> /\ c.measurements = <<>>
        /\ \A i \in 1..Len(c.series) : ~c.series[i].target_specified
    BY <1>1 DEF PowerSample, PowerHasNoLimit, Types, Case
  <2>2. CASE c' = c
    BY <2>1, <2>2 DEF PowerHasNoLimit
  <2>3. ASSUME NEW field \in Field, NEW list \in Seq(Series), OnlySeries(list),
               ItemAdded(IF started THEN c.series ELSE Append(c.series, NewSeries), list, field)
        PROVE  PowerHasNoLimit'
    <3> DEFINE old == IF started THEN c.series ELSE Append(c.series, NewSeries)
    <3>1. old \in Seq(Series) /\ \A i \in 1..Len(old) : ~old[i].target_specified
      BY <2>1, DoubleTypes
    <3> HIDE DEF old
    <3>2. ItemAdded(old, list, field)
      BY <2>3 DEF old
    <3>3. ASSUME NEW i \in 1..Len(list) PROVE ~list[i].target_specified
      <4>1. Len(list) = Len(old) /\ Len(old) \in Nat
        BY <3>1, <3>2 DEF ItemAdded
      <4>2. i \in 1..Len(old) - 1 \/ i = Len(old)
        BY <4>1
      <4>3. CASE i \in 1..Len(old) - 1
        <5>1. list[i] = old[i] /\ i \in 1..Len(old)
          BY <3>2, <4>1, <4>3 DEF ItemAdded
        <5> QED
          BY <3>1, <5>1
      <4>4. CASE i = Len(old)
        <5>1. list[i].target_specified = old[i].target_specified /\ i \in 1..Len(old)
          BY <3>2, <4>1, <4>4 DEF ItemAdded
        <5> QED
          BY <3>1, <5>1
      <4> QED
        BY <4>2, <4>3, <4>4
    <3>4. c'.series = list /\ c'.measurements = <<>>
      BY <2>1, <2>3 DEF OnlySeries
    <3> QED
      BY <2>1, <3>3, <3>4 DEF PowerHasNoLimit
  <2> QED
    BY <1>1, <2>2, <2>3, PowerEffect
<1>2. CASE UNCHANGED vars
  BY <1>2 DEF vars, PowerHasNoLimit
<1>3. CASE pc' # "power"
  BY <1>3 DEF PowerHasNoLimit
<1>4. Next => PowerSample \/ pc' # "power"
  BY DEF Next, PowerEnds, GetFile, SkipFile, OpenFile, Judge, ReadBlank, ReadMeasurement,
         ReadMalformed, ReadHeader, ReadItem, ReadLine, EndOfFile, WriteCase
<1> QED
  BY <1>1, <1>2, <1>3, <1>4

\* SeriesAtHand is kept by every step: a line with a value adds that value.
LEMMA SeriesAtHandStep ==
  ASSUME Types, FileAtHand, LinesWereGood, SeriesAtHand, [Next]_vars
  PROVE  SeriesAtHand'
<1> DEFINE all == Now.content.lines
           header == all[1]
<1>1. CASE ReadHeader
  <2>1. file.series /\ ~started
    BY <1>1 DEF ReadHeader, ReadLine
  <2>2. /\ Reads /\ Now' = Now /\ Done' = Done + 1 /\ Done \in Nat
        /\ Head(lines) = all[Done + 1]
    BY <1>1, LineRead DEF LineTaken
  <2>3. ~(Done >= 1)
    BY <2>1, <2>2 DEF LinesWereGood
  <2>4. Done' = 1 /\ Head(lines) = header
    <3>1. Done = 0
      <4> HIDE DEF Done
      <4> QED
        BY <2>2, <2>3
    <3> QED
      BY <2>2, <3>1
  <2>5. PICK s \in Series :
          /\ OnlySeries(Append(c.series, s)) /\ s.items = <<>>
          /\ s.target_specified <=> Limited(header)
          /\ Limited(header) => s.target = Double(header[3]) /\ s.failure = Double(header[4])
    BY <1>1, <2>4, HeaderEffect
  <2>6. c'.series[Len(c'.series)] = s
    <3>1. c'.series = Append(c.series, s) /\ c.series \in Seq(Series)
      BY <2>5 DEF OnlySeries, Types, Case
    <3> QED
      BY <3>1
  <2>7. ~(\E i \in 1..Len(s.items) : Beyond(s, s.items[i].value)) /\ 2..Done' = {}
    BY <2>4, <2>5
  <2> HIDE DEF Done
  <2> QED
    BY <2>2, <2>5, <2>6, <2>7 DEF SeriesAtHand
<1>2. CASE ReadItem
  <2>1. file.series /\ started /\ started' = started
    BY <1>2 DEF ReadItem, ReadLine
  <2>2. /\ Reads /\ file' = file /\ Now' = Now /\ Done' = Done + 1 /\ Done \in Nat
        /\ Head(lines) = all[Done + 1] /\ Done + 1 <= Len(all)
    <3>1. Done \in 0..Len(all) - 1 /\ Len(all) \in Nat
      BY <1>2, LineRead DEF LineTaken
    <3>2. Done \in Nat /\ Done + 1 <= Len(all)
      <4> HIDE DEF Done, all
      <4> QED
        BY <3>1
    <3> QED
      BY <1>2, <3>2, LineRead DEF LineTaken
  <2>3. Done >= 1 /\ header \in Line
    <3>1. Done >= 1
      BY <2>1, <2>2 DEF LinesWereGood
    <3>2. all \in Seq(Line)
      <4>1. Now \in Reading
        BY <2>2 DEF Types, FileAtHand, Now
      <4> QED
        BY <4>1 DEF Reading, Contents
    <3>3. 1 \in 1..Len(all)
      <4>1. Len(all) \in Nat
        BY <3>2
      <4> HIDE DEF Done, all
      <4> QED
        BY <2>2, <3>1, <4>1
    <3> QED
      BY <3>1, <3>2, <3>3
  <2> DEFINE s == c.series[Len(c.series)]
             t == c'.series[Len(c'.series)]
             Some(x) == \E i \in 1..Len(x.items) : Beyond(x, x.items[i].value)
             Out(n) == \E i \in 2..n : \E x \in ToSet(ValueOf(all[i])) :
                         Reaches(header[3], header[4], x)
  <2>4. /\ s.target_specified <=> Limited(header)
        /\ Limited(header) => /\ s.target = Double(header[3]) /\ s.failure = Double(header[4])
                              /\ Some(s) <=> Out(Done)
    BY <2>1, <2>2 DEF SeriesAtHand
  <2> SUFFICES /\ t.target_specified <=> Limited(header)
               /\ Limited(header) =>
                    /\ t.target = Double(header[3]) /\ t.failure = Double(header[4])
                    /\ Some(t) <=> Out(Done + 1)
    BY <2>1, <2>2 DEF SeriesAtHand
  <2>5. Out(Done + 1) <=> Out(Done) \/ \E x \in ToSet(ValueOf(Head(lines))) :
                                         Reaches(header[3], header[4], x)
    <3>1. \A i : i \in 2..Done + 1 <=> (i \in 2..Done \/ i = Done + 1)
      <4> HIDE DEF Done
      <4> QED
        BY <2>2, <2>3
    <3> QED
      BY <2>2, <3>1
  <2>6. CASE c' = c /\ ValueOf(Head(lines)) = <<>>
    <3>1. ToSet(ValueOf(Head(lines))) = {}
      BY <2>6 DEF ToSet
    <3> QED
      BY <2>4, <2>5, <2>6, <3>1
  <2>7. ASSUME NEW field \in Field, NEW list \in Seq(Series), ValueOf(Head(lines)) = <<field>>,
               OnlySeries(list), ItemAdded(c.series, list, field)
        PROVE  /\ t.target_specified <=> Limited(header)
               /\ Limited(header) =>
                    /\ t.target = Double(header[3]) /\ t.failure = Double(header[4])
                    /\ Some(t) <=> Out(Done + 1)
    <3>1. PICK timed \in BOOLEAN : t.items = Append(s.items, Item(field, timed))
      BY <2>7 DEF ItemAdded, OnlySeries
    <3>2. /\ t.target_specified = s.target_specified
          /\ t.target = s.target /\ t.failure = s.failure
      BY <2>7 DEF ItemAdded, OnlySeries
    <3>3. s \in Series /\ s.items \in Seq(SeriesItem)
      <4>1. c.series \in Seq(Series) /\ Len(c.series) >= 1
        BY <2>7 DEF ItemAdded, Types, Case
      <4>2. s \in Series
        BY <4>1
      <4> HIDE DEF s
      <4> QED
        BY <4>2 DEF Series
    <3> HIDE DEF s, t
    <3>4. \A v : Beyond(t, v) <=> Beyond(s, v)
      BY <3>2 DEF Beyond
    <3>5. Item(field, timed).value = Double(field)
      BY DEF Item
    <3>6. Some(t) <=> Some(s) \/ Beyond(s, Double(field))
      <4>1. /\ Len(s.items) \in Nat /\ Len(t.items) = Len(s.items) + 1
            /\ \A i \in 1..Len(s.items) : t.items[i] = s.items[i]
            /\ t.items[Len(s.items) + 1] = Item(field, timed)
        BY <3>1, <3>3, DoubleTypes
      <4>2. \A i : i \in 1..Len(t.items) <=> (i \in 1..Len(s.items) \/ i = Len(s.items) + 1)
        BY <4>1
      <4> QED
        BY <3>4, <3>5, <4>1, <4>2
    <3>7. ASSUME Limited(header)
          PROVE  Beyond(s, Double(field)) <=> Reaches(header[3], header[4], field)
      <4>1. header[3] \in Field /\ header[4] \in Field
        BY <2>3, <3>7, LineTypes DEF Limited
      <4> HIDE DEF header
      <4> QED
        BY <2>4, <3>7, <4>1, BeyondIsReaches
    <3>8. ToSet(ValueOf(Head(lines))) = {field}
      BY <2>7 DEF ToSet
    <3> HIDE DEF Some, Out, header
    <3> QED
      BY <2>4, <2>5, <3>2, <3>6, <3>7, <3>8
  <2> QED
    BY <1>2, <2>6, <2>7, ItemEffect
<1>3. CASE OpenFile
  <2>1. ~started'
    BY <1>3 DEF OpenFile
  <2> QED
    BY <2>1 DEF SeriesAtHand
<1>4. CASE ReadBlank \/ ReadMeasurement
  <2>1. ~file'.series
    BY <1>4 DEF ReadBlank, ReadMeasurement, ReadLine
  <2> QED
    BY <2>1 DEF SeriesAtHand
<1>5. CASE UNCHANGED vars
  BY <1>5 DEF vars, SeriesAtHand, Now, Done, Reads
<1>6. CASE pc' # "read"
  BY <1>6 DEF SeriesAtHand, Reads
<1> QED
  BY <1>1, <1>2, <1>3, <1>4, <1>5, <1>6, OtherSteps DEF LineTaken

\* A file that can be judged when its end, or a line that cannot be processed,
\* has been reached.
LEMMA JudgeStep ==
  ASSUME Types, Types', FileAtHand, LinesWereGood, SeriesAtHand, Clean, Verdicts,
         (OpenFile /\ pc' # "read") \/ ReadMalformed \/ EndOfFile
  PROVE  Verdicts' /\ Clean'
<1> DEFINE last == measured'[Judged + 1]
<1>1. CASE OpenFile /\ pc' # "read"
  <2>1. /\ Judge(FALSE) /\ ~folder[file.base].there /\ pc = "open" /\ UNCHANGED given
        /\ measured' = Append(measured, [series |-> file.series, content |-> folder[file.base]])
    BY <1>1 DEF OpenFile
  <2>2. measured \in Seq(Reading) /\ Judged = Len(measured) /\ measured' \in Seq(Reading)
    BY <2>1 DEF Types, Judged, Reads
  <2>3. /\ Judged \in Nat /\ Len(measured') = Judged + 1 /\ ~last.content.there
        /\ \A i \in 1..Judged : measured'[i] = measured[i]
    BY <2>1, <2>2
  <2>4. Fails(last)
    BY <2>3 DEF Fails, Unreadable
  <2>5. Verdicts' /\ ~(Live' /\ c'.case_res = "PASS")
    <3> HIDE DEF Judged
    <3> QED
      BY <2>1, <2>2, <2>3, <2>4, JudgeDecides
  <2> QED
    BY <2>5 DEF Clean
<1>2. CASE ReadMalformed
  <2>1. /\ Judge(FALSE) /\ pc = "read" /\ Reads /\ lines # <<>> /\ UNCHANGED <<given, measured>>
        /\ lines' = Tail(lines)
    BY <1>2 DEF ReadMalformed, ReadLine, Reads
  <2>2. /\ measured \in Seq(Reading) /\ measured # <<>> /\ Now.series = file.series
        /\ Now.content.lines \in Seq(Line) /\ Len(Now.content.lines) \in Nat
    <3>1. measured \in Seq(Reading) /\ measured # <<>> /\ Now.series = file.series
      BY <2>1 DEF Types, FileAtHand
    <3>2. Now \in Reading
      BY <3>1 DEF Now
    <3>3. Now.content.lines \in Seq(Line)
      BY <3>2 DEF Reading, Contents
    <3> QED
      BY <3>1, <3>3
  <2>3. /\ Judged \in Nat /\ Len(measured') = Judged + 1 /\ last = Now
        /\ \A i \in 1..Judged : measured'[i] = measured[i]
    BY <2>1, <2>2 DEF Judged, Now
  <2>4. Done + 1 <= Len(Now.content.lines) /\ Head(lines) = Now.content.lines[Done + 1]
    BY <2>1, NextLine
  <2>5. Done \in 0..Len(Now.content.lines)
    BY <2>1 DEF FileAtHand
  <2>6. Unreadable(Now)
    <3>1. CASE ~file.series /\ ~Head(lines)[1].blank /\ Malformed(Head(lines))
      <4>1. Done + 1 \in 1..Len(Now.content.lines)
        <5> HIDE DEF Done, Now
        <5> QED
          BY <2>2, <2>4, <2>5
      <4>2. Head(lines) \in ToSet(Now.content.lines)
        BY <2>2, <2>4, <4>1 DEF ToSet
      <4> QED
        BY <2>2, <3>1, <4>2 DEF Unreadable
    <3>2. CASE file.series /\ ~started /\ Len(Head(lines)) < 2
      <4>1. ~(Done >= 1)
        BY <2>1, <3>2 DEF LinesWereGood
      <4>2. Done = 0 /\ Len(Now.content.lines) >= 1
        <5> HIDE DEF Done, Now
        <5> QED
          BY <2>2, <2>4, <2>5, <4>1
      <4>3. Head(lines) = Now.content.lines[1] /\ Now.content.lines # <<>>
        BY <2>2, <2>4, <4>2
      <4> QED
        BY <2>2, <3>2, <4>3 DEF Unreadable
    <3> QED
      BY <1>2, <3>1, <3>2 DEF ReadMalformed, ReadLine
  <2>7. Fails(last)
    BY <2>3, <2>6 DEF Fails
  <2>8. Verdicts' /\ ~(Live' /\ c'.case_res = "PASS")
    <3>1. measured' \in Seq(Reading) /\ UNCHANGED given
      BY <2>1, <2>2
    <3> HIDE DEF Judged, Now
    <3> QED
      BY <2>1, <2>3, <2>7, <3>1, JudgeDecides
  <2> QED
    BY <2>8 DEF Clean
<1>3. CASE EndOfFile
  <2>1. Judge(TRUE) /\ pc = "read" /\ Reads /\ UNCHANGED <<given, measured>> /\ ~Reads'
    BY <1>3 DEF EndOfFile, Reads, Judge
  <2>2. measured \in Seq(Reading) /\ measured # <<>>
    BY <2>1 DEF Types, FileAtHand
  <2>3. /\ Judged \in Nat /\ Len(measured') = Judged + 1 /\ last = Now
        /\ \A i \in 1..Judged : measured'[i] = measured[i]
    BY <2>1, <2>2 DEF Judged, Now
  <2>4. Live /\ c.case_res = "PASS" =>
          /\ Fails(Now) <=> eval_measurements = "FAIL"
          /\ eval_measurements = "PASS" =>
               /\ \A i \in 1..Len(c.measurements) : ~Bad(c.measurements[i])
               /\ \A i \in 1..Len(c.series) : ~BadSeries(c.series[i])
    BY <1>3, EndDecides
  <2>5. Verdicts'
    <3>1. measured' \in Seq(Reading) /\ UNCHANGED given
      BY <2>1, <2>2
    <3> HIDE DEF Judged, Now
    <3> QED
      BY <2>1, <2>3, <2>4, <3>1, JudgeDecides
  <2>6. ASSUME Live', c'.case_res = "PASS"
        PROVE  c' = c /\ Live /\ eval_measurements # "FAIL"
    <3>1. Live
      BY <2>1, <2>6 DEF Live, given
    <3> QED
      BY <2>1, <2>6, <3>1 DEF Judge, Live, Types, Case
  <2>7. eval_measurements \in {"FAIL", "PASS"}
    <3>1. file \in File
      BY <2>1 DEF Types
    <3> QED
      BY <3>1, EvalIs
  <2>8. Clean'
    <3> SUFFICES ASSUME Live', c'.case_res = "PASS"
                 PROVE  /\ \A i \in 1..Len(c'.measurements) : ~Bad(c'.measurements[i])
                        /\ \A i \in 1..Len(c'.series) : ~BadSeries(c'.series[i])
      BY <2>1 DEF Clean, Finished
    <3>1. c' = c /\ Live /\ eval_measurements = "PASS"
      BY <2>6, <2>7
    <3> QED
      BY <2>4, <3>1
  <2> QED
    BY <2>5, <2>8
<1> QED
  BY <1>1, <1>2, <1>3

\* Verdicts is kept by every step.
LEMMA VerdictsStep ==
  ASSUME Types, Types', FileAtHand, LinesWereGood, SeriesAtHand, Clean, Verdicts, [Next]_vars
  PROVE  Verdicts'
<1>1. CASE (OpenFile /\ pc' # "read") \/ ReadMalformed \/ EndOfFile
  BY <1>1, JudgeStep
<1>2. ASSUME UNCHANGED given, c'.case_res = c.case_res, Judged' = Judged,
             \A i \in 1..Judged : measured'[i] = measured[i]
      PROVE  Verdicts'
  <2>1. Live' <=> Live
    BY <1>2 DEF Live, given
  <2>2. (\E i \in 1..Judged : Fails(measured[i]))' <=> \E i \in 1..Judged : Fails(measured[i])
    <3>1. (\E i \in 1..Judged : Fails(measured[i]))' <=> \E i \in 1..Judged' : Fails(measured'[i])
      BY DEF Fails, Unreadable, OutOfLimits
    <3> QED
      BY <1>2, <3>1
  <2> QED
    BY <1>2, <2>1, <2>2 DEF Verdicts, given
<1>3. CASE OpenFile /\ pc' = "read"
  <2>1. /\ measured' = Append(measured, Now') /\ c' = c /\ pc = "open" /\ UNCHANGED given
        /\ measured \in Seq(Reading)
    BY <1>3, OpenedFile DEF OpenFile, Types
  <2>2. Judged = Len(measured) /\ Judged' = Len(measured)
    BY <1>3, <2>1 DEF Judged, Reads
  <2>3. \A i \in 1..Judged : measured'[i] = measured[i]
    BY <2>1, <2>2
  <2> QED
    BY <1>2, <2>1, <2>2, <2>3
<1>4. CASE PowerSample \/ LineTaken
  <2>1. /\ c'.case_res = c.case_res
    <3>1. CASE PowerSample \/ ReadHeader \/ ReadItem \/ ReadMeasurement
      BY <3>1, PowerEffect, HeaderEffect, ItemEffect, MeasurementEffect
         DEF OnlySeries, OnlyMeasurements
    <3>2. CASE ReadBlank
      BY <3>2 DEF ReadBlank
    <3> QED
      BY <1>4, <3>1, <3>2 DEF LineTaken
  <2>2. UNCHANGED given /\ measured' = measured /\ (Reads' <=> Reads)
    BY <1>4 DEF PowerSample, LineTaken, ReadBlank, ReadMeasurement, ReadHeader, ReadItem,
                ReadLine, Reads
  <2>3. Judged' = Judged
    BY <2>2 DEF Judged
  <2> QED
    BY <1>2, <2>1, <2>2, <2>3
<1>5. CASE PowerEnds \/ GetFile \/ SkipFile \/ WriteCase \/ UNCHANGED vars
  <2>1. UNCHANGED given /\ measured' = measured /\ (Reads' <=> Reads) /\ c' = c
    BY <1>5 DEF PowerEnds, GetFile, SkipFile, WriteCase, vars, Reads
  <2>2. Judged' = Judged
    BY <2>1 DEF Judged
  <2> QED
    BY <1>2, <2>1, <2>2
<1> QED
  BY <1>1, <1>3, <1>4, <1>5 DEF Next, LineTaken

\* Clean is kept by every step: a line out of its limits makes a bad measurement,
\* and nothing else does.
LEMMA CleanStep ==
  ASSUME Types, Types', FileAtHand, LinesWereGood, SeriesAtHand, Clean, Verdicts,
         PowerHasNoLimit', [Next]_vars
  PROVE  Clean'
<1> DEFINE all == Now.content.lines
<1>1. CASE (OpenFile /\ pc' # "read") \/ ReadMalformed \/ EndOfFile
  BY <1>1, JudgeStep
<1>2. CASE pc' = "power"
  <2>1. /\ c'.measurements = <<>> /\ ~Reads'
        /\ \A i \in 1..Len(c'.series) : ~c'.series[i].target_specified
    BY <1>2 DEF PowerHasNoLimit, Reads
  <2>2. \A i \in 1..Len(c'.series) : ~BadSeries(c'.series[i])
    BY <2>1 DEF BadSeries
  <2> QED
    BY <2>1, <2>2 DEF Clean, Finished
<1>3. CASE ~Reads /\ ~Reads' /\ c' = c /\ UNCHANGED given
  BY <1>3 DEF Clean, Finished, Live, given
<1>4. CASE OpenFile /\ pc' = "read"
  <2>1. c' = c /\ Done' = 0 /\ ~started' /\ ~Reads /\ UNCHANGED given
    BY <1>4, OpenedFile DEF OpenFile, Reads
  <2>2. 1..Done' = {}
    BY <2>1
  <2> HIDE DEF Done
  <2> QED
    BY <2>1, <2>2 DEF Clean, Finished, Live, given
<1>5. CASE UNCHANGED vars
  BY <1>5 DEF vars, given, Clean, Finished, Live, Reads, Now, Done
<1>6. CASE ReadBlank \/ ReadMeasurement
  <2>1. /\ ~file.series /\ Reads /\ Reads' /\ file' = file /\ UNCHANGED given
        /\ Now' = Now /\ Done' = Done + 1 /\ Done \in 0..Len(all) - 1
        /\ Len(all) \in Nat /\ Head(lines) = all[Done + 1]
    BY <1>6, LineRead DEF LineTaken, ReadBlank, ReadMeasurement, ReadLine
  <2> DEFINE Out(n) == \E i \in 1..n : SingleOut(all[i])
             Some == \E i \in 1..Len(c.measurements) : Bad(c.measurements[i])
             Some1 == \E i \in 1..Len(c'.measurements) : Bad(c'.measurements[i])
  <2>2. Out(Done + 1) <=> Out(Done) \/ SingleOut(Head(lines))
    <3>1. \A i : i \in 1..Done + 1 <=> (i \in 1..Done \/ i = Done + 1)
      <4> HIDE DEF Done, all
      <4> QED
        BY <2>1
    <3> QED
      BY <2>1, <3>1
  <2>3. /\ c'.series = c.series /\ c'.case_res = c.case_res
        /\ Some1 <=> Some \/ SingleOut(Head(lines))
    <3>1. CASE ReadBlank
      <4>1. c' = c /\ Head(lines)[1].blank /\ Head(lines) \in Line
        BY <3>1 DEF ReadBlank, ReadLine, Types
      <4>2. ~SingleOut(Head(lines))
        BY <4>1 DEF SingleOut
      <4> QED
        BY <4>1, <4>2
    <3>2. CASE ReadMeasurement
      <4>1. PICK m \in Single : /\ OnlyMeasurements(Append(c.measurements, m))
                                /\ Bad(m) <=> SingleOut(Head(lines))
        BY <3>2, MeasurementEffect
      <4>2. c.measurements \in Seq(Single) /\ c'.measurements = Append(c.measurements, m)
        BY <4>1 DEF OnlyMeasurements, Types, Case
      <4>3. Some1 <=> Some \/ Bad(m)
        <5>1. /\ Len(c.measurements) \in Nat
              /\ Len(c'.measurements) = Len(c.measurements) + 1
              /\ \A i \in 1..Len(c.measurements) : c'.measurements[i] = c.measurements[i]
              /\ c'.measurements[Len(c.measurements) + 1] = m
          BY <4>2
        <5>2. \A i : i \in 1..Len(c'.measurements)
                       <=> (i \in 1..Len(c.measurements) \/ i = Len(c.measurements) + 1)
          BY <5>1
        <5> QED
          BY <5>1, <5>2
      <4> QED
        BY <4>1, <4>3 DEF OnlyMeasurements
    <3> QED
      BY <1>6, <3>1, <3>2
  <2>4. Live' <=> Live
    BY <2>1 DEF Live, given
  <2>5. Live /\ c.case_res = "PASS" =>
          (Some <=> Out(Done)) /\ \A i \in 1..Len(c.series) : ~BadSeries(c.series[i])
    BY <2>1 DEF Clean, Finished
  <2>6. Live /\ c.case_res = "PASS" =>
          (Some1 <=> Out(Done')) /\ \A i \in 1..Len(c'.series) : ~BadSeries(c'.series[i])
    <3> HIDE DEF Out, Some, Some1, Done
    <3> QED
      BY <2>1, <2>2, <2>3, <2>5
  <2> QED
    BY <2>1, <2>3, <2>4, <2>6 DEF Clean, Finished
<1>7. CASE ReadHeader \/ ReadItem
  <2>1. /\ file.series /\ Reads /\ Reads' /\ file' = file /\ UNCHANGED given /\ started'
    <3>1. Reads /\ Reads' /\ file' = file
      BY <1>7, LineRead DEF LineTaken
    <3>2. file.series /\ UNCHANGED given
      BY <1>7 DEF ReadHeader, ReadItem, ReadLine
    <3>3. started'
      <4>1. CASE ReadHeader
        BY <4>1 DEF ReadHeader
      <4>2. CASE ReadItem
        <5>1. started /\ started' = started
          BY <4>2 DEF ReadItem
        <5> QED
          BY <5>1
      <4> QED
        BY <1>7, <4>1, <4>2
    <3> QED
      BY <3>1, <3>2, <3>3
  <2>2. /\ c'.case_res = c.case_res /\ c'.measurements = c.measurements
        /\ Finished' = Finished /\ \A i \in 1..Finished : c'.series[i] = c.series[i]
    <3>1. CASE ReadHeader
      <4>1. PICK s \in Series : OnlySeries(Append(c.series, s))
        BY <3>1, HeaderEffect
      <4>2. c.series \in Seq(Series) /\ c'.series = Append(c.series, s) /\ ~started
        BY <3>1, <4>1 DEF OnlySeries, Types, Case, ReadHeader
      <4>3. Finished = Len(c.series) /\ Finished' = Len(c.series)
        BY <2>1, <4>2 DEF Finished
      <4> QED
        BY <4>1, <4>2, <4>3 DEF OnlySeries
    <3>2. CASE ReadItem
      <4>1. started
        BY <3>2 DEF ReadItem
      <4>2. Finished = Len(c.series) - 1 /\ Finished' = Len(c'.series) - 1
        BY <2>1, <4>1 DEF Finished
      <4> QED
        BY <3>2, <4>2, ItemEffect DEF OnlySeries, ItemAdded
    <3> QED
      BY <1>7, <3>1, <3>2
  <2>3. Live' <=> Live
    BY <2>1 DEF Live, given
  <2> QED
    BY <2>1, <2>2, <2>3 DEF Clean
<1>8. Next => \/ OpenFile \/ ReadMalformed \/ EndOfFile \/ pc' = "power" \/ LineTaken
              \/ ~Reads /\ ~Reads' /\ c' = c /\ UNCHANGED given
  BY DEF Next, PowerSample, PowerEnds, GetFile, SkipFile, WriteCase, LineTaken, Reads
<1> QED
  BY <1>1, <1>2, <1>3, <1>4, <1>5, <1>6, <1>7, <1>8 DEF LineTaken

\* The inductive invariant.
IInv == /\ Types /\ Places /\ FileAtHand /\ LinesWereGood
        /\ PowerHasNoLimit /\ SeriesAtHand /\ Clean /\ Verdicts

\* It holds at first,
LEMMA IInvInit == Init => IInv
<1> SUFFICES ASSUME Init PROVE IInv
  OBVIOUS
<1>1. Types /\ Places
  BY TypesInit
<1>2. /\ pc = "power" /\ ~Reads /\ measured = <<>> /\ c = NewCase(before)
      /\ before \in {"PASS", "FAIL", "N/A"}
  BY DEF Init, Reads
<1>3. c.measurements = <<>> /\ c.series = <<>> /\ c.case_res = before
  BY <1>2 DEF NewCase
<1>4. FileAtHand /\ LinesWereGood /\ SeriesAtHand
  BY <1>2 DEF FileAtHand, LinesWereGood, SeriesAtHand
<1>5. PowerHasNoLimit /\ Clean
  BY <1>2, <1>3 DEF PowerHasNoLimit, Clean, Finished
<1>6. Verdicts
  BY <1>2, <1>3 DEF Verdicts, Judged, Live
<1> QED
  BY <1>1, <1>4, <1>5, <1>6 DEF IInv

\* is kept by every step,
LEMMA IInvStep == IInv /\ [Next]_vars => IInv'
<1> SUFFICES ASSUME IInv, [Next]_vars PROVE IInv'
  OBVIOUS
<1>1. Types' /\ Places'
  BY TypesStep DEF IInv
<1>2. FileAtHand' /\ LinesWereGood'
  BY <1>1, FileAtHandStep, LinesWereGoodStep DEF IInv
<1>3. PowerHasNoLimit' /\ SeriesAtHand'
  BY PowerStep, SeriesAtHandStep DEF IInv
<1>4. Verdicts' /\ Clean'
  BY <1>1, <1>3, VerdictsStep, CleanStep DEF IInv
<1> QED
  BY <1>1, <1>2, <1>3, <1>4 DEF IInv

\* and at the end of the case it says that the limits have decided.
LEMMA IInvDecides == IInv => LimitsDecide
<1> SUFFICES ASSUME IInv, pc = "done"
             PROVE  c.case_res = "FAIL" <=>
                      \/ before = "FAIL"
                      \/ /\ before = "PASS" /\ ~no_measurement_verdicts
                         /\ \E r \in ToSet(measured) : Fails(r)
  BY DEF LimitsDecide, Fails
<1>1. measured \in Seq(Reading) /\ Judged = Len(measured)
  BY DEF IInv, Types, Judged, Reads
<1>2. (\E r \in ToSet(measured) : Fails(r)) <=> \E i \in 1..Len(measured) : Fails(measured[i])
  <2>1. ToSet(measured) = {measured[i] : i \in 1..Len(measured)}
    BY <1>1 DEF ToSet
  <2> QED
    BY <2>1
<1> QED
  BY <1>1, <1>2 DEF IInv, Verdicts, Live

\* Measurements fail a case exactly if a file that was read cannot be processed or
\* has a value at or beyond its failure limit: process_get_case() and
\* eval_measurements().
THEOREM LimitsDecideAlways == Spec => []LimitsDecide
<1> QED
  BY IInvInit, IInvStep, IInvDecides, PTL DEF Spec
-----------------------------------------------------------------------------
(* What is written.                                                         *)

Entry == {Element("case", "case"), Element("series", NULL)}
           \cup {Element("measurement", v) : v \in Number}
Path  == Seq(Entry)

\* A writer with the path open and the entries written, and all such writers.
Writer(open, out) == [open |-> open, out |-> out, ok |-> TRUE]
Writers(open) == {Writer(open, out) : out \in Seq(Path)}

\* A record with these fields is that writer.
IsWriter(v, open, out) ==
  /\ v \in [open : {open}, out : {out}, ok : BOOLEAN]
  /\ v.ok = TRUE /\ v.open = open /\ v.out = out

\* It is equal to the other.
LEMMA WriterEqual ==
  ASSUME NEW v, NEW open, NEW out, IsWriter(v, open, out)
  PROVE  v = Writer(open, out)
<1> DEFINE R == [open : {open}, out : {out}, ok : BOOLEAN]
<1>1. \A x, y \in R :
        x.open = y.open /\ x.out = y.out /\ x.ok = y.ok => x = y
  OBVIOUS
<1>2. Writer(open, out) \in R /\ v \in R
  BY DEF Writer, IsWriter
<1>3. /\ Writer(open, out).ok = TRUE /\ Writer(open, out).open = open
      /\ Writer(open, out).out = out
  BY DEF Writer
<1>4. v.ok = TRUE /\ v.open = open /\ v.out = out
  BY DEF IsWriter
<1> HIDE DEF R
<1> QED
  BY <1>1, <1>2, <1>3, <1>4

\* The fields of a writer.
LEMMA WriterIs ==
  ASSUME NEW open \in Path, NEW out \in Seq(Path)
  PROVE  /\ Writer(open, out).ok = TRUE /\ Writer(open, out).open = open
         /\ Writer(open, out).out = out
         /\ [Writer(open, out) EXCEPT !.ok = TRUE] = Writer(open, out)
         /\ Writer(open, out) \in Writers(open)
<1>1. Writer(open, out) \in Writers(open)
  BY DEF Writers
<1>2. [Writer(open, out) EXCEPT !.ok = TRUE] = Writer(open, out)
  <2> DEFINE v == [Writer(open, out) EXCEPT !.ok = TRUE]
  <2>1. IsWriter(v, open, out)
    BY DEF Writer, IsWriter
  <2> HIDE DEF v
  <2> QED
    BY <2>1, WriterEqual DEF v
<1>3. /\ Writer(open, out).ok = TRUE /\ Writer(open, out).open = open
      /\ Writer(open, out).out = out
  BY DEF Writer
<1> QED
  BY <1>1, <1>2, <1>3

\* An element is started, which writes an entry, and ended.
LEMMA Written ==
  ASSUME NEW open \in Path, NEW out \in Seq(Path), NEW e \in Entry
  PROVE  /\ Append(open, e) \in Path /\ Append(out, Append(open, e)) \in Seq(Path)
         /\ Start(Writer(open, out), e) = Writer(Append(open, e), Append(out, Append(open, e)))
         /\ End(Writer(Append(open, e), out)) = Writer(open, out)
<1>1. Append(open, e) \in Path /\ Append(open, e) # <<>>
  <2>1. \A p \in Seq(Entry) : Append(p, e) \in Seq(Entry) /\ Append(p, e) # <<>>
    OBVIOUS
  <2> QED
    BY <2>1 DEF Path
<1>2. Append(out, Append(open, e)) \in Seq(Path)
  BY <1>1
<1>3. Front(Append(open, e)) = open
  <2>1. open \in Seq(Entry)
    BY DEF Path
  <2> QED
    BY <2>1 DEF Front
<1>4. Start(Writer(open, out), e) = Writer(Append(open, e), Append(out, Append(open, e)))
  <2> DEFINE path == Append(open, e)
             w0 == Writer(open, out)
  <2>1. Start(w0, e) = [w0 EXCEPT !.open = Append(w0.open, e),
                                  !.out = Append(@, Append(w0.open, e))]
    BY DEF Start
  <2>2. w0.open = open /\ w0.out = out
    BY DEF Writer
  <2>3. Start(w0, e) = [w0 EXCEPT !.open = path, !.out = Append(out, path)]
    BY <2>1, <2>2
  <2> HIDE DEF path
  <2>4. [w0 EXCEPT !.open = path, !.out = Append(out, path)] = Writer(path, Append(out, path))
    <3> DEFINE x == Append(out, path)
               v == [w0 EXCEPT !.open = path, !.out = x]
    <3> HIDE DEF x
    <3>1. IsWriter(v, path, x)
      BY DEF Writer, IsWriter
    <3> HIDE DEF v
    <3>2. v = Writer(path, x)
      BY <3>1, WriterEqual
    <3> QED
      BY <3>2 DEF v, x
  <2> QED
    BY <2>3, <2>4 DEF path
<1>5. End(Writer(Append(open, e), out)) = Writer(open, out)
  BY <1>1, <1>3 DEF End, Writer
<1> QED
  BY <1>1, <1>2, <1>4, <1>5

\* A measurement is one entry, of a case as of a series.
MeasurementPath(open, x) == Append(open, Element("measurement", x.value))

\* What the two callbacks for measurements write.
LEMMA MeasurementWritten ==
  ASSUME NEW open \in Path, NEW out \in Seq(Path), NEW x, x.value \in Number
  PROVE  /\ MeasurementPath(open, x) \in Path
         /\ xml_write_measurement(Writer(open, out), x)
              = Writer(open, out \o <<MeasurementPath(open, x)>>)
         /\ xml_write_measurement_item(Writer(open, out), x)
              = Writer(open, out \o <<MeasurementPath(open, x)>>)
<1> DEFINE e == Element("measurement", x.value)
<1>1. e \in Entry
  BY DEF Entry
<1> HIDE DEF e
<1>2. /\ Append(open, e) \in Path /\ Append(out, Append(open, e)) \in Seq(Path)
      /\ Start(Writer(open, out), e) = Writer(Append(open, e), Append(out, Append(open, e)))
  BY <1>1, Written
<1>3. End(Writer(Append(open, e), Append(out, Append(open, e))))
        = Writer(open, Append(out, Append(open, e)))
  BY <1>1, <1>2, Written
<1>4. Append(out, Append(open, e)) = out \o <<Append(open, e)>>
  BY <1>2, AppendIs
<1> QED
  BY <1>2, <1>3, <1>4
     DEF Leaf, e, MeasurementPath, xml_write_measurement, xml_write_measurement_item

\* A fold that adds a sequence of entries for each element of the list.
Collects(f, list, open, out, q) ==
  /\ f[{}] = Writer(open, out)
  /\ \A s \in PlaceSets(list) : s # {} =>
       \A y \in Seq(Path) : f[s \ {Max(s)}] = Writer(open, y) =>
                            f[s] = Writer(open, y \o q[Max(s)])

\* It has added those of all elements, one after the other.
LEMMA Collect ==
  ASSUME NEW list, Len(list) \in Nat, NEW f, NEW q, NEW open \in Path, NEW out \in Seq(Path),
         Sequences(q, Path, Len(list)), Collects(f, list, open, out, q)
  PROVE  f[1..Len(list)] = Writer(open, out \o Flat(q, Len(list)))
<1> DEFINE m == Len(list)
           Is(n) == n \in 0..m => f[1..n] = Writer(open, out \o Flat(q, n))
           S == {n \in Nat : Is(n)}
<1>1. 0 \in S
  <2>1. Flat(q, 0) = <<>> /\ out \o <<>> = out /\ 1..0 = {}
    BY FlatNone
  <2> QED
    BY <2>1 DEF Collects
<1>2. ASSUME NEW n \in Nat, n \in S PROVE n + 1 \in S
  <2>0. SUFFICES ASSUME n + 1 \in 0..m
                 PROVE  f[1..n + 1] = Writer(open, out \o Flat(q, n + 1))
    OBVIOUS
  <2>1. f[1..n] = Writer(open, out \o Flat(q, n))
    BY <1>2, <2>0
  <2>2. n \in 0..m - 1 /\ n + 1 \in Nat /\ \A i \in 1..n + 1 : i \in 1..m
    BY <2>0
  <2>3. Sequences(q, Path, n + 1) /\ q[n + 1] \in Seq(Path)
    BY <2>2 DEF Sequences
  <2>4. Flat(q, n) \in Seq(Path) /\ Flat(q, n + 1) = Flat(q, n) \o q[n + 1]
    BY <2>2, <2>3, FlatGrows
  <2>5. /\ 1..n + 1 \in PlaceSets(list) /\ 1..n + 1 # {}
        /\ Max(1..n + 1) = n + 1 /\ (1..n + 1) \ {n + 1} = 1..n
    BY <2>2, FirstPlaces DEF PlaceSets
  <2>6. out \o Flat(q, n) \in Seq(Path)
    BY <2>4
  <2>7. f[1..n + 1] = Writer(open, (out \o Flat(q, n)) \o q[n + 1])
    BY <2>1, <2>5, <2>6 DEF Collects
  <2>8. (out \o Flat(q, n)) \o q[n + 1] = out \o (Flat(q, n) \o q[n + 1])
    <3> DEFINE a == Flat(q, n)
               b == q[n + 1]
    <3>1. a \in Seq(Path) /\ b \in Seq(Path)
      BY <2>3, <2>4
    <3> HIDE DEF a, b
    <3>2. (out \o a) \o b = out \o (a \o b)
      BY <3>1, ConcatAssociative
    <3> QED
      BY <3>2 DEF a, b
  <2> QED
    BY <2>4, <2>7, <2>8
<1>3. m \in S
  <2> HIDE DEF S
  <2>1. S \in SUBSET Nat
    BY DEF S
  <2> QED
    BY <1>1, <1>2, <2>1, Induction
<1> QED
  BY <1>3

\* The entries of a list of measurements.
Entries(open, list) == [i \in 1..Len(list) |-> MeasurementPath(open, list[i])]

\* The walk over the measurements of a case.
LEMMA MeasurementsWritten ==
  ASSUME NEW open \in Path, NEW out \in Seq(Path), NEW list \in Seq(Single)
  PROVE  /\ Walk(xml_write_measurement, Writer(open, out), list)
              = Writer(open, out \o Entries(open, list))
         /\ Entries(open, list) \in Seq(Path)
<1> DEFINE D == 1..Len(list)
           base == Writer(open, out)
           After(v, x) == IF v.ok THEN xml_write_measurement(v, x) ELSE v
           Rec(f) == f = [s \in SUBSET D |->
                            IF s = {} THEN base
                            ELSE After(f[s \ {Max(s)}], list[Max(s)])]
           fold == CHOOSE f : Rec(f)
           q == [i \in D |-> <<MeasurementPath(open, list[i])>>]
<1>0. list \in Seq(Single) /\ DOMAIN list = D /\ Len(list) \in Nat
  OBVIOUS
<1>1. Walk(xml_write_measurement, base, list) = [fold[D] EXCEPT !.ok = TRUE]
  BY <1>0 DEF Walk, FoldLeft, MapThenFoldSet
<1>2. ASSUME NEW x \in Single, NEW y \in Seq(Path)
      PROVE  /\ After(Writer(open, y), x) = Writer(open, y \o <<MeasurementPath(open, x)>>)
             /\ MeasurementPath(open, x) \in Path
  <2>1. x.value \in Number
    BY DEF Single
  <2>2. Writer(open, y).ok = TRUE
    BY WriterIs
  <2> QED
    BY <2>1, <2>2, MeasurementWritten
<1> HIDE DEF After
<1>3. \E f : Rec(f)
  <2>1. \A v \in Writers(open), x \in Single : After(v, x) \in Writers(open)
    <3> SUFFICES ASSUME NEW y \in Seq(Path), NEW x \in Single
                 PROVE  After(Writer(open, y), x) \in Writers(open)
      BY DEF Writers
    <3>1. y \o <<MeasurementPath(open, x)>> \in Seq(Path)
      BY <1>2, AppendIs
    <3> QED
      BY <1>2, <3>1 DEF Writers
  <2>2. PICK F \in [Writers(open) -> [Single -> Writers(open)]] :
          \A v \in Writers(open), x \in Single : F[v][x] = After(v, x)
    <3> DEFINE G == [v \in Writers(open) |-> [x \in Single |-> After(v, x)]]
    <3>1. G \in [Writers(open) -> [Single -> Writers(open)]]
      BY <2>1
    <3>2. \A v \in Writers(open), x \in Single : G[v][x] = After(v, x)
      OBVIOUS
    <3> QED
      BY <3>1, <3>2
  <2>3. PICK g : IsFold(g, Writers(open), Single, base, F, list)
    <3>1. base \in Writers(open)
      BY DEF Writers
    <3> QED
      BY <1>0, <2>2, <3>1, FoldExists
  <2>4. ASSUME NEW s \in PlaceSets(list), s # {}
        PROVE  g[s] = After(g[s \ {Max(s)}], list[Max(s)])
    <3> DEFINE W == Writers(open)
    <3> HIDE DEF base, W
    <3>0. IsFold(g, W, Single, base, F, list)
      BY <2>3 DEF W
    <3>1. \A t \in PlaceSets(list) : t # {} =>
            /\ list[Max(t)] \in Single /\ g[t \ {Max(t)}] \in W
            /\ g[t] = F[g[t \ {Max(t)}]][list[Max(t)]]
      BY <3>0, FoldPlaces, Zenon
    <3>2. /\ list[Max(s)] \in Single /\ g[s \ {Max(s)}] \in Writers(open)
          /\ g[s] = F[g[s \ {Max(s)}]][list[Max(s)]]
      BY <2>4, <3>1, Zenon DEF W
    <3> QED
      BY <2>2, <3>2
  <2>5. g \in [PlaceSets(list) -> Writers(open)] /\ g[{}] = base
    BY <2>3, FoldPlaces
  <2>6. g = [s \in SUBSET D |-> g[s]]
    BY <2>5 DEF PlaceSets
  <2>7. Rec(g)
    BY <2>4, <2>5, <2>6 DEF PlaceSets
  <2> QED
    BY <2>7
<1>4. Rec(fold)
  <2> HIDE DEF Rec
  <2> QED
    BY <1>3
<1>5. fold[D] = Writer(open, out \o Flat(q, Len(list)))
  <2> HIDE DEF fold
  <2>1. fold[{}] = Writer(open, out)
    BY <1>4
  <2>2. ASSUME NEW s \in PlaceSets(list), s # {}, NEW y \in Seq(Path),
               fold[s \ {Max(s)}] = Writer(open, y)
        PROVE  fold[s] = Writer(open, y \o q[Max(s)])
    <3>1. fold[s] = After(fold[s \ {Max(s)}], list[Max(s)])
      BY <1>4, <2>2 DEF PlaceSets
    <3>2. Max(s) \in D
      BY <1>0, <2>2, MaxOfPlaces DEF PlaceSets
    <3>3. list[Max(s)] \in Single /\ q[Max(s)] = <<MeasurementPath(open, list[Max(s)])>>
      BY <1>0, <3>2
    <3> QED
      BY <1>2, <2>2, <3>1, <3>3
  <2> HIDE DEF q
  <2>3. Collects(fold, list, open, out, q)
    BY <2>1, <2>2 DEF Collects
  <2>4. Sequences(q, Path, Len(list))
    <3>1. ASSUME NEW i \in 1..Len(list) PROVE q[i] \in Seq(Path)
      <4>1. q[i] = <<MeasurementPath(open, list[i])>> /\ list[i] \in Single
        BY <1>0 DEF q
      <4>2. MeasurementPath(open, list[i]) \in Path
        BY <4>1, <1>2, out \in Seq(Path)
      <4> QED
        BY <4>1, <4>2, AppendIs
    <3> QED
      BY <3>1 DEF Sequences
  <2> QED
    BY <1>0, <2>3, <2>4, Collect
<1>6. Flat(q, Len(list)) = Entries(open, list) /\ Entries(open, list) \in Seq(Path)
  <2> DEFINE e == [i \in D |-> MeasurementPath(open, list[i])]
  <2>1. \A i \in D : e[i] \in Path /\ q[i] = <<e[i]>>
    <3>1. \A i \in D : list[i] \in Single
      BY <1>0
    <3> QED
      BY <1>2, <3>1, out \in Seq(Path)
  <2>2. e = Entries(open, list)
    BY DEF Entries
  <2> HIDE DEF e, q
  <2>3. Flat(q, Len(list)) = [i \in D |-> e[i]]
    <3>1. Singletons(q, e, Path, Len(list))
      BY <2>1 DEF Singletons
    <3> QED
      BY <1>0, <3>1, FlatSingles
  <2>4. e = [i \in D |-> e[i]]
    BY DEF e
  <2>5. [i \in D |-> e[i]] \in Seq(Path)
    BY <1>0, <2>1
  <2> QED
    BY <2>2, <2>3, <2>4, <2>5
<1> HIDE DEF fold, q
<1> QED
  <2> DEFINE x == out \o Entries(open, list)
  <2>1. x \in Seq(Path)
    BY <1>6
  <2>2. fold[D] = Writer(open, x)
    BY <1>5, <1>6
  <2> HIDE DEF x
  <2>3. [Writer(open, x) EXCEPT !.ok = TRUE] = Writer(open, x)
    BY <2>1, WriterIs
  <2>4. Walk(xml_write_measurement, base, list) = Writer(open, x)
    BY <1>1, <2>2, <2>3
  <2> QED
    BY <1>6, <2>4 DEF x

\* The walk over the items of a series.
LEMMA ItemsWritten ==
  ASSUME NEW open \in Path, NEW out \in Seq(Path), NEW list \in Seq(SeriesItem)
  PROVE  /\ Walk(xml_write_measurement_item, Writer(open, out), list)
              = Writer(open, out \o Entries(open, list))
         /\ Entries(open, list) \in Seq(Path)
<1> DEFINE D == 1..Len(list)
           base == Writer(open, out)
           After(v, x) == IF v.ok THEN xml_write_measurement_item(v, x) ELSE v
           Rec(f) == f = [s \in SUBSET D |->
                            IF s = {} THEN base
                            ELSE After(f[s \ {Max(s)}], list[Max(s)])]
           fold == CHOOSE f : Rec(f)
           q == [i \in D |-> <<MeasurementPath(open, list[i])>>]
<1>0. list \in Seq(SeriesItem) /\ DOMAIN list = D /\ Len(list) \in Nat
  OBVIOUS
<1>1. Walk(xml_write_measurement_item, base, list) = [fold[D] EXCEPT !.ok = TRUE]
  BY <1>0 DEF Walk, FoldLeft, MapThenFoldSet
<1>2. ASSUME NEW x \in SeriesItem, NEW y \in Seq(Path)
      PROVE  /\ After(Writer(open, y), x) = Writer(open, y \o <<MeasurementPath(open, x)>>)
             /\ MeasurementPath(open, x) \in Path
  <2>1. x.value \in Number
    BY DEF SeriesItem
  <2>2. Writer(open, y).ok = TRUE
    BY WriterIs
  <2> QED
    BY <2>1, <2>2, MeasurementWritten
<1> HIDE DEF After
<1>3. \E f : Rec(f)
  <2>1. \A v \in Writers(open), x \in SeriesItem : After(v, x) \in Writers(open)
    <3> SUFFICES ASSUME NEW y \in Seq(Path), NEW x \in SeriesItem
                 PROVE  After(Writer(open, y), x) \in Writers(open)
      BY DEF Writers
    <3>1. y \o <<MeasurementPath(open, x)>> \in Seq(Path)
      BY <1>2, AppendIs
    <3> QED
      BY <1>2, <3>1 DEF Writers
  <2>2. PICK F \in [Writers(open) -> [SeriesItem -> Writers(open)]] :
          \A v \in Writers(open), x \in SeriesItem : F[v][x] = After(v, x)
    <3> DEFINE G == [v \in Writers(open) |-> [x \in SeriesItem |-> After(v, x)]]
    <3>1. G \in [Writers(open) -> [SeriesItem -> Writers(open)]]
      BY <2>1
    <3>2. \A v \in Writers(open), x \in SeriesItem : G[v][x] = After(v, x)
      OBVIOUS
    <3> QED
      BY <3>1, <3>2
  <2>3. PICK g : IsFold(g, Writers(open), SeriesItem, base, F, list)
    <3>1. base \in Writers(open)
      BY DEF Writers
    <3> QED
      BY <1>0, <2>2, <3>1, FoldExists
  <2>4. ASSUME NEW s \in PlaceSets(list), s # {}
        PROVE  g[s] = After(g[s \ {Max(s)}], list[Max(s)])
    <3> DEFINE W == Writers(open)
    <3> HIDE DEF base, W
    <3>0. IsFold(g, W, SeriesItem, base, F, list)
      BY <2>3 DEF W
    <3>1. \A t \in PlaceSets(list) : t # {} =>
            /\ list[Max(t)] \in SeriesItem /\ g[t \ {Max(t)}] \in W
            /\ g[t] = F[g[t \ {Max(t)}]][list[Max(t)]]
      BY <3>0, FoldPlaces, Zenon
    <3>2. /\ list[Max(s)] \in SeriesItem /\ g[s \ {Max(s)}] \in Writers(open)
          /\ g[s] = F[g[s \ {Max(s)}]][list[Max(s)]]
      BY <2>4, <3>1, Zenon DEF W
    <3> QED
      BY <2>2, <3>2
  <2>5. g \in [PlaceSets(list) -> Writers(open)] /\ g[{}] = base
    BY <2>3, FoldPlaces
  <2>6. g = [s \in SUBSET D |-> g[s]]
    BY <2>5 DEF PlaceSets
  <2>7. Rec(g)
    BY <2>4, <2>5, <2>6 DEF PlaceSets
  <2> QED
    BY <2>7
<1>4. Rec(fold)
  <2> HIDE DEF Rec
  <2> QED
    BY <1>3
<1>5. fold[D] = Writer(open, out \o Flat(q, Len(list)))
  <2> HIDE DEF fold
  <2>1. fold[{}] = Writer(open, out)
    BY <1>4
  <2>2. ASSUME NEW s \in PlaceSets(list), s # {}, NEW y \in Seq(Path),
               fold[s \ {Max(s)}] = Writer(open, y)
        PROVE  fold[s] = Writer(open, y \o q[Max(s)])
    <3>1. fold[s] = After(fold[s \ {Max(s)}], list[Max(s)])
      BY <1>4, <2>2 DEF PlaceSets
    <3>2. Max(s) \in D
      BY <1>0, <2>2, MaxOfPlaces DEF PlaceSets
    <3>3. list[Max(s)] \in SeriesItem /\ q[Max(s)] = <<MeasurementPath(open, list[Max(s)])>>
      BY <1>0, <3>2
    <3> QED
      BY <1>2, <2>2, <3>1, <3>3
  <2> HIDE DEF q
  <2>3. Collects(fold, list, open, out, q)
    BY <2>1, <2>2 DEF Collects
  <2>4. Sequences(q, Path, Len(list))
    <3>1. ASSUME NEW i \in 1..Len(list) PROVE q[i] \in Seq(Path)
      <4>1. q[i] = <<MeasurementPath(open, list[i])>> /\ list[i] \in SeriesItem
        BY <1>0 DEF q
      <4>2. MeasurementPath(open, list[i]) \in Path
        BY <4>1, <1>2, out \in Seq(Path)
      <4> QED
        BY <4>1, <4>2, AppendIs
    <3> QED
      BY <3>1 DEF Sequences
  <2> QED
    BY <1>0, <2>3, <2>4, Collect
<1>6. Flat(q, Len(list)) = Entries(open, list) /\ Entries(open, list) \in Seq(Path)
  <2> DEFINE e == [i \in D |-> MeasurementPath(open, list[i])]
  <2>1. \A i \in D : e[i] \in Path /\ q[i] = <<e[i]>>
    <3>1. \A i \in D : list[i] \in SeriesItem
      BY <1>0
    <3> QED
      BY <1>2, <3>1, out \in Seq(Path)
  <2>2. e = Entries(open, list)
    BY DEF Entries
  <2> HIDE DEF e, q
  <2>3. Flat(q, Len(list)) = [i \in D |-> e[i]]
    <3>1. Singletons(q, e, Path, Len(list))
      BY <2>1 DEF Singletons
    <3> QED
      BY <1>0, <3>1, FlatSingles
  <2>4. e = [i \in D |-> e[i]]
    BY DEF e
  <2>5. [i \in D |-> e[i]] \in Seq(Path)
    BY <1>0, <2>1
  <2> QED
    BY <2>2, <2>3, <2>4, <2>5
<1> HIDE DEF fold, q
<1> QED
  <2> DEFINE x == out \o Entries(open, list)
  <2>1. x \in Seq(Path)
    BY <1>6
  <2>2. fold[D] = Writer(open, x)
    BY <1>5, <1>6
  <2> HIDE DEF x
  <2>3. [Writer(open, x) EXCEPT !.ok = TRUE] = Writer(open, x)
    BY <2>1, WriterIs
  <2>4. Walk(xml_write_measurement_item, base, list) = Writer(open, x)
    BY <1>1, <2>2, <2>3
  <2> QED
    BY <1>6, <2>4 DEF x

\* The entries of a series.
SeriesEntries(open, s) ==
  LET path == Append(open, Element("series", NULL))
  IN  <<path>> \o Entries(path, s.items)

\* What xml_write_series() writes.
LEMMA OneSeriesWritten ==
  ASSUME NEW open \in Path, NEW out \in Seq(Path), NEW s \in Series
  PROVE  /\ xml_write_series(Writer(open, out), s)
              = Writer(open, out \o SeriesEntries(open, s))
         /\ SeriesEntries(open, s) \in Seq(Path)
<1> DEFINE e == Element("series", NULL)
           path == Append(open, e)
           items == Entries(path, s.items)
           begun == Append(out, path)
<1>1. e \in Entry
  BY DEF Entry
<1> HIDE DEF e
<1>2. /\ path \in Path /\ begun \in Seq(Path)
      /\ Start(Writer(open, out), e) = Writer(path, begun)
  BY <1>1, Written
<1>3. s.items \in Seq(SeriesItem)
  BY DEF Series
<1> HIDE DEF path, begun, items
<1>4. /\ Walk(xml_write_measurement_item, Writer(path, begun), s.items)
          = Writer(path, begun \o items)
      /\ items \in Seq(Path)
  BY <1>2, <1>3, ItemsWritten DEF items
<1>5. begun \o items \in Seq(Path)
  BY <1>2, <1>4
<1>6. End(Writer(path, begun \o items)) = Writer(open, begun \o items)
  BY <1>1, <1>5, Written DEF path
<1>7. begun = out \o <<path>> /\ <<path>> \in Seq(Path)
  BY <1>2, AppendIs DEF begun
<1>8. /\ begun \o items = out \o (<<path>> \o items)
      /\ <<path>> \o items \in Seq(Path)
  <2>1. (out \o <<path>>) \o items = out \o (<<path>> \o items)
    BY <1>4, <1>7, ConcatAssociative
  <2>2. <<path>> \o items \in Seq(Path)
    BY <1>4, <1>7
  <2> QED
    BY <1>7, <2>1, <2>2
<1>9. xml_write_series(Writer(open, out), s) = Writer(open, out \o (<<path>> \o items))
  BY <1>2, <1>4, <1>6, <1>8 DEF xml_write_series, e
<1>10. SeriesEntries(open, s) = <<path>> \o items
  BY DEF SeriesEntries, path, items, e
<1> QED
  BY <1>8, <1>9, <1>10

\* Those of each series of a case.
AllEntries(open, list) == [i \in 1..Len(list) |-> SeriesEntries(open, list[i])]

\* The walk over the series of a case.
LEMMA SeriesWritten ==
  ASSUME NEW open \in Path, NEW out \in Seq(Path), NEW list \in Seq(Series)
  PROVE  /\ Walk(xml_write_series, Writer(open, out), list)
              = Writer(open, out \o Flat(AllEntries(open, list), Len(list)))
         /\ out \o Flat(AllEntries(open, list), Len(list)) \in Seq(Path)
<1> DEFINE D == 1..Len(list)
           base == Writer(open, out)
           After(v, x) == IF v.ok THEN xml_write_series(v, x) ELSE v
           Rec(f) == f = [s \in SUBSET D |->
                            IF s = {} THEN base
                            ELSE After(f[s \ {Max(s)}], list[Max(s)])]
           fold == CHOOSE f : Rec(f)
           q == AllEntries(open, list)
<1>0. list \in Seq(Series) /\ DOMAIN list = D /\ Len(list) \in Nat
  OBVIOUS
<1>1. Walk(xml_write_series, base, list) = [fold[D] EXCEPT !.ok = TRUE]
  BY <1>0 DEF Walk, FoldLeft, MapThenFoldSet
<1>2. ASSUME NEW x \in Series, NEW y \in Seq(Path)
      PROVE  /\ After(Writer(open, y), x) = Writer(open, y \o SeriesEntries(open, x))
             /\ SeriesEntries(open, x) \in Seq(Path)
  <2>2. Writer(open, y).ok = TRUE
    BY WriterIs
  <2> QED
    BY <2>2, OneSeriesWritten
<1> HIDE DEF After
<1>3. \E f : Rec(f)
  <2>1. \A v \in Writers(open), x \in Series : After(v, x) \in Writers(open)
    <3> SUFFICES ASSUME NEW y \in Seq(Path), NEW x \in Series
                 PROVE  After(Writer(open, y), x) \in Writers(open)
      BY DEF Writers
    <3>1. y \o SeriesEntries(open, x) \in Seq(Path)
      BY <1>2
    <3> QED
      BY <1>2, <3>1 DEF Writers
  <2>2. PICK F \in [Writers(open) -> [Series -> Writers(open)]] :
          \A v \in Writers(open), x \in Series : F[v][x] = After(v, x)
    <3> DEFINE G == [v \in Writers(open) |-> [x \in Series |-> After(v, x)]]
    <3>1. G \in [Writers(open) -> [Series -> Writers(open)]]
      BY <2>1
    <3>2. \A v \in Writers(open), x \in Series : G[v][x] = After(v, x)
      OBVIOUS
    <3> QED
      BY <3>1, <3>2
  <2>3. PICK g : IsFold(g, Writers(open), Series, base, F, list)
    <3>1. base \in Writers(open)
      BY DEF Writers
    <3> QED
      BY <1>0, <2>2, <3>1, FoldExists
  <2>4. ASSUME NEW s \in PlaceSets(list), s # {}
        PROVE  g[s] = After(g[s \ {Max(s)}], list[Max(s)])
    <3> DEFINE W == Writers(open)
    <3> HIDE DEF base, W
    <3>0. IsFold(g, W, Series, base, F, list)
      BY <2>3 DEF W
    <3>1. \A t \in PlaceSets(list) : t # {} =>
            /\ list[Max(t)] \in Series /\ g[t \ {Max(t)}] \in W
            /\ g[t] = F[g[t \ {Max(t)}]][list[Max(t)]]
      BY <3>0, FoldPlaces, Zenon
    <3>2. /\ list[Max(s)] \in Series /\ g[s \ {Max(s)}] \in Writers(open)
          /\ g[s] = F[g[s \ {Max(s)}]][list[Max(s)]]
      BY <2>4, <3>1, Zenon DEF W
    <3> QED
      BY <2>2, <3>2
  <2>5. g \in [PlaceSets(list) -> Writers(open)] /\ g[{}] = base
    BY <2>3, FoldPlaces
  <2>6. g = [s \in SUBSET D |-> g[s]]
    BY <2>5 DEF PlaceSets
  <2>7. Rec(g)
    BY <2>4, <2>5, <2>6 DEF PlaceSets
  <2> QED
    BY <2>7
<1>4. Rec(fold)
  <2> HIDE DEF Rec
  <2> QED
    BY <1>3
<1>5. /\ fold[D] = Writer(open, out \o Flat(q, Len(list)))
      /\ out \o Flat(q, Len(list)) \in Seq(Path)
  <2> HIDE DEF fold
  <2>1. fold[{}] = Writer(open, out)
    BY <1>4
  <2>2. ASSUME NEW s \in PlaceSets(list), s # {}, NEW y \in Seq(Path),
               fold[s \ {Max(s)}] = Writer(open, y)
        PROVE  fold[s] = Writer(open, y \o q[Max(s)])
    <3>1. fold[s] = After(fold[s \ {Max(s)}], list[Max(s)])
      BY <1>4, <2>2 DEF PlaceSets
    <3>2. Max(s) \in D
      BY <1>0, <2>2, MaxOfPlaces DEF PlaceSets
    <3>3. list[Max(s)] \in Series /\ q[Max(s)] = SeriesEntries(open, list[Max(s)])
      BY <1>0, <3>2 DEF AllEntries
    <3> QED
      BY <1>2, <2>2, <3>1, <3>3
  <2> HIDE DEF q
  <2>3. Collects(fold, list, open, out, q)
    BY <2>1, <2>2 DEF Collects
  <2>4. Sequences(q, Path, Len(list))
    <3>1. ASSUME NEW i \in 1..Len(list) PROVE q[i] \in Seq(Path)
      <4>1. q[i] = SeriesEntries(open, list[i]) /\ list[i] \in Series
        BY <1>0 DEF q, AllEntries
      <4> QED
        BY <4>1, <1>2, out \in Seq(Path)
    <3> QED
      BY <3>1 DEF Sequences
  <2>5. out \o Flat(q, Len(list)) \in Seq(Path)
    <3>1. Flat(q, Len(list)) \in Seq(Path)
      BY <1>0, <2>4, FlatTypes
    <3> QED
      BY <3>1
  <2> QED
    BY <1>0, <2>3, <2>4, <2>5, Collect
<1> HIDE DEF fold
<1> QED
  <2> DEFINE x == out \o Flat(q, Len(list))
  <2>1. x \in Seq(Path) /\ fold[D] = Writer(open, x)
    BY <1>5
  <2> HIDE DEF x
  <2>2. [Writer(open, x) EXCEPT !.ok = TRUE] = Writer(open, x)
    BY <2>1, WriterIs
  <2>3. Walk(xml_write_series, base, list) = Writer(open, x)
    BY <1>1, <2>1, <2>2
  <2> QED
    BY <2>1, <2>3 DEF x

\* Of a case that has no description and no steps, as all have here, and is not
\* filtered, the report has the measurements and then the series.
CaseEntries(cc) ==
  LET path == <<Element("case", "case")>>
  IN  (<<path>> \o Entries(path, cc.measurements))
        \o Flat(AllEntries(path, cc.series), Len(cc.series))

\* What xml_write_case() writes.
LEMMA CaseWritten ==
  ASSUME NEW cc \in Case, ~cc.filtered, ~cc.described
  PROVE  xml_write_case(NewWriter, cc).out = CaseEntries(cc)
<1> DEFINE e == Element("case", "case")
           path == <<e>>
           first == <<path>>
           values == first \o Entries(path, cc.measurements)
           all == values \o Flat(AllEntries(path, cc.series), Len(cc.series))
<1>1. e \in Entry
  BY DEF Entry
<1>2. cc.gen.name = "case" /\ cc.steps = <<>>
      /\ cc.measurements \in Seq(Single) /\ cc.series \in Seq(Series)
  BY DEF Case
<1>3. xml_write_case(NewWriter, cc) =
        LET told == Start(NewWriter, e)
            steps == Walk(LAMBDA v, step : xml_write_step(v, step, cc), told, <<>>)
            measured0 == Walk(xml_write_measurement, steps, cc.measurements)
        IN  End(Walk(xml_write_series, measured0, cc.series))
  BY <1>2, Zenon DEF xml_write_case, LeafIf
<1> HIDE DEF e
<1>4. NewWriter = Writer(<<>>, <<>>) /\ <<>> \in Path /\ <<>> \in Seq(Path)
  BY DEF NewWriter, Writer, Path
<1>5. path = Append(<<>>, e) /\ first = Append(<<>>, path)
  OBVIOUS
<1>6. Start(NewWriter, e) = Writer(path, first) /\ path \in Path /\ first \in Seq(Path)
  <2> DEFINE none == <<>>
  <2>1. none \in Path /\ none \in Seq(Path) /\ path = Append(none, e) /\ first = Append(none, path)
    BY <1>4, <1>5
  <2> HIDE DEF none, path, first
  <2>2. /\ Append(none, e) \in Path /\ Append(none, Append(none, e)) \in Seq(Path)
        /\ Start(Writer(none, none), e) = Writer(Append(none, e), Append(none, Append(none, e)))
    BY <1>1, <2>1, Written
  <2>3. Start(Writer(none, none), e) = Writer(path, first) /\ path \in Path /\ first \in Seq(Path)
    BY <2>1, <2>2
  <2> QED
    BY <1>4, <2>3 DEF none
<1> HIDE DEF path, first
<1>7. Walk(LAMBDA v, step : xml_write_step(v, step, cc), Writer(path, first), <<>>)
        = Writer(path, first)
  <2> DEFINE After(v, x) == IF v.ok THEN xml_write_step(v, x, cc) ELSE v
             D == DOMAIN <<>>
             base == Writer(path, first)
             Rec(f) == f = [s \in SUBSET D |->
                              IF s = {} THEN base
                              ELSE After(f[s \ {Max(s)}], <<>>[Max(s)])]
             fold == CHOOSE f : Rec(f)
             Write(v, x) == xml_write_step(v, x, cc)
  <2>1. Walk(Write, base, <<>>) = [fold[D] EXCEPT !.ok = TRUE]
    BY Zenon DEF Walk, FoldLeft, MapThenFoldSet
  <2>2. D = {} /\ SUBSET D = {{}}
    OBVIOUS
  <2>3. Rec([s \in SUBSET D |-> base])
    BY <2>2
  <2>4. Rec(fold)
    <3> HIDE DEF Rec
    <3> QED
      BY <2>3
  <2>5. fold[D] = base
    <3> HIDE DEF fold, After
    <3> QED
      BY <2>2, <2>4
  <2>6. [base EXCEPT !.ok = TRUE] = base
    BY <1>6, WriterIs
  <2> HIDE DEF fold, base
  <2>7. Walk(Write, base, <<>>) = base
    BY <2>1, <2>5, <2>6, Zenon
  <2> QED
    BY <2>7, Zenon DEF base
<1>8. /\ Walk(xml_write_measurement, Writer(path, first), cc.measurements) = Writer(path, values)
      /\ values \in Seq(Path)
  <2>1. Entries(path, cc.measurements) \in Seq(Path)
    BY <1>2, <1>6, MeasurementsWritten
  <2> QED
    BY <1>2, <1>6, <2>1, MeasurementsWritten
<1> HIDE DEF values
<1>9. /\ Walk(xml_write_series, Writer(path, values), cc.series) = Writer(path, all)
      /\ all \in Seq(Path)
  BY <1>2, <1>6, <1>8, SeriesWritten
<1> HIDE DEF all
<1>10. End(Writer(path, all)) = Writer(<<>>, all)
  BY <1>1, <1>4, <1>5, <1>9, Written
<1>11. xml_write_case(NewWriter, cc) = Writer(<<>>, all)
  BY <1>3, <1>6, <1>7, <1>8, <1>9, <1>10, Zenon
<1>12. Writer(<<>>, all).out = all
  BY DEF Writer
<1>13. all = CaseEntries(cc)
  BY DEF all, values, first, path, e, CaseEntries
<1> QED
  BY <1>11, <1>12, <1>13

-----------------------------------------------------------------------------
(* What of the files is in the case.                                        *)

\* The lists of the case hold these values.
SameValues(list, fields) ==
  Len(list) = Len(fields) /\ \A i \in 1..Len(list) : list[i].value = Double(fields[i])
SameSeries(list, values) ==
  Len(list) = Len(values) /\ \A i \in 1..Len(list) : SameValues(list[i].items, values[i])

\* The values of the first n samples, of the first n lines of a file of
\* measurements or of a series, and of the first n files.
SamplesAt(samples) == [i \in 1..Len(samples) |-> SampleOf(samples[i])]
SinglesAt(list) == [i \in 1..Len(list) |-> SingleValue(list, i)]
ValuesAt(list)  == [i \in 1..Len(list) - 1 |-> ValueOf(list[i + 1])]
SinglesIn(files) == [i \in 1..Len(files) |-> SinglesOf(files[i])]
SeriesIn(files)  == [i \in 1..Len(files) |-> SeriesOf(files[i])]
SeriesWith(values) == IF values = <<>> THEN <<>> ELSE <<values>>

\* How many samples have been read, and the values of the file at hand.
PowerDone == IF pc = "power" THEN Len(power) - Len(lines) ELSE Len(power)
SinglesHere == IF Reads /\ ~file.series THEN Flat(SinglesAt(Now.content.lines), Done) ELSE <<>>
SeriesHere ==
  IF Reads /\ file.series /\ started THEN <<Flat(ValuesAt(Now.content.lines), Done - 1)>> ELSE <<>>

\* The samples that are left are the last, and the series of the power
\* measurement exists once there is a value for it.
PowerAtHand ==
  pc = "power" =>
    /\ PowerDone \in 0..Len(power)
    /\ \A i \in 1..Len(lines) : lines[i] = power[PowerDone + i]
    /\ started <=> Flat(SamplesAt(power), PowerDone) # <<>>

\* The case holds the values of the samples, of the files read and of the lines
\* read of the file at hand.
SinglesKept == SameValues(c.measurements, Flat(SinglesIn(measured), Judged) \o SinglesHere)
SeriesKept ==
  SameSeries(c.series,
    (SeriesWith(Flat(SamplesAt(power), PowerDone)) \o Flat(SeriesIn(measured), Judged))
      \o SeriesHere)

\* The report is written once.
WrittenOnce ==
  /\ ~c.filtered /\ ~c.described
  /\ IF pc = "done" THEN w.out = CaseEntries(c) ELSE w = NewWriter

\* The values of a line are fields of it.
LEMMA ValueTypes ==
  ASSUME NEW line \in Line
  PROVE  SampleOf(line) \in Seq(Field) /\ ValueOf(line) \in Seq(Field)
<1>1. Len(line) \in Nat \ {0} /\ \A i \in 1..Len(line) : line[i] \in Field
  BY LineTypes
<1>2. line[1] \in Field /\ (Len(line) > 1 => line[2] \in Field)
  BY <1>1
<1>3. <<>> \in Seq(Field) /\ \A x \in Field : <<x>> \in Seq(Field)
  OBVIOUS
<1>4. SampleOf(line) \in Seq(Field)
  BY <1>2, <1>3 DEF SampleOf
<1>5. ValueOf(line) \in Seq(Field)
  BY <1>2, <1>3 DEF ValueOf
<1> QED
  BY <1>4, <1>5

\* The types of what the lines of a file give.
LEMMA LinesTypes ==
  ASSUME NEW list \in Seq(Line)
  PROVE  /\ Sequences(SinglesAt(list), Field, Len(list))
         /\ Sequences(ValuesAt(list), Field, Len(list) - 1)
         /\ Sequences(SamplesAt(list), Field, Len(list))
<1>0. <<>> \in Seq(Field) /\ \A x \in Field : <<x>> \in Seq(Field)
  OBVIOUS
<1>1. ASSUME NEW i \in 1..Len(list) PROVE SingleValue(list, i) \in Seq(Field)
  <2>1. list[i] \in Line
    OBVIOUS
  <2>2. Len(list[i]) \in Nat \ {0} /\ \A j \in 1..Len(list[i]) : list[i][j] \in Field
    BY <2>1, LineTypes
  <2>3. CASE list[i][1].blank \/ \E j \in 1..i : ~list[j][1].blank /\ Malformed(list[j])
    BY <2>3, <1>0 DEF SingleValue
  <2>4. CASE ~(list[i][1].blank \/ \E j \in 1..i : ~list[j][1].blank /\ Malformed(list[j]))
    <3>1. ~list[i][1].blank /\ i \in 1..i
      BY <2>4
    <3>2. ~Malformed(list[i])
      BY <2>4, <3>1
    <3>3. Len(list[i]) >= 3
      BY <2>2, <3>2 DEF Malformed
    <3>4. list[i][2] \in Field
      BY <2>2, <3>3
    <3>5. SingleValue(list, i) = <<list[i][2]>>
      BY <2>4 DEF SingleValue
    <3> QED
      BY <1>0, <3>4, <3>5
  <2> QED
    BY <2>3, <2>4
<1>2. Sequences(SinglesAt(list), Field, Len(list))
  BY <1>1 DEF Sequences, SinglesAt
<1>3. ASSUME NEW i \in 1..Len(list) - 1 PROVE ValueOf(list[i + 1]) \in Seq(Field)
  <2>1. list[i + 1] \in Line
    OBVIOUS
  <2> QED
    BY <2>1, ValueTypes
<1>4. Sequences(ValuesAt(list), Field, Len(list) - 1)
  BY <1>3 DEF Sequences, ValuesAt
<1>5. \A i \in 1..Len(list) : SampleOf(list[i]) \in Seq(Field)
  <2>1. \A i \in 1..Len(list) : list[i] \in Line
    OBVIOUS
  <2> QED
    BY <2>1, ValueTypes
<1>6. Sequences(SamplesAt(list), Field, Len(list))
  BY <1>5 DEF Sequences, SamplesAt
<1> QED
  BY <1>2, <1>4, <1>6

\* What a file gives, line by line.
LEMMA FileGives ==
  ASSUME NEW r \in Reading, NEW list, list = r.content.lines
  PROVE  /\ list \in Seq(Line) /\ r.series \in BOOLEAN /\ r.content.there \in BOOLEAN
         /\ SinglesOf(r) = IF r.series \/ ~r.content.there THEN <<>>
                           ELSE Flat(SinglesAt(list), Len(list))
         /\ SeriesOf(r) = IF ~r.series \/ Unreadable(r) \/ list = <<>> THEN <<>>
                          ELSE <<Flat(ValuesAt(list), Len(list) - 1)>>
<1>1. list \in Seq(Line) /\ r.series \in BOOLEAN /\ r.content.there \in BOOLEAN
  BY DEF Reading, Contents
<1>2. SinglesOf(r) = IF r.series \/ ~r.content.there THEN <<>>
                     ELSE Flat(SinglesAt(list), Len(list))
  <2> DEFINE e == SinglesAt(list)
  <2>1. DOMAIN list = 1..Len(list)
    BY <1>1
  <2>2. e = [j \in DOMAIN list |-> SingleValue(list, j)]
    BY <2>1 DEF SinglesAt
  <2>3. e = [i \in 1..Len(list) |-> e[i]]
    BY DEF SinglesAt
  <2> HIDE DEF e
  <2>4. FlattenSeq(e) = Flat(e, Len(list))
    BY <2>3 DEF Flat
  <2> QED
    BY <2>2, <2>4 DEF SinglesOf, e
<1>3. list # <<>> => Values(Tail(list)) = Flat(ValuesAt(list), Len(list) - 1)
  <2> SUFFICES ASSUME list # <<>>
               PROVE  Values(Tail(list)) = Flat(ValuesAt(list), Len(list) - 1)
    OBVIOUS
  <2> DEFINE e == ValuesAt(list)
             n == Len(list) - 1
  <2>1. /\ DOMAIN Tail(list) = 1..n
        /\ \A i \in 1..n : Tail(list)[i] = list[i + 1]
    BY <1>1
  <2>2. e = [i \in DOMAIN Tail(list) |-> ValueOf(Tail(list)[i])]
    BY <2>1 DEF ValuesAt
  <2>3. e = [i \in 1..n |-> e[i]]
    BY DEF ValuesAt
  <2> HIDE DEF e
  <2>4. FlattenSeq(e) = Flat(e, n)
    BY <2>3 DEF Flat
  <2>5. Values(Tail(list)) = FlattenSeq(e)
    BY <2>2 DEF Values
  <2> QED
    BY <2>4, <2>5 DEF e
<1> QED
  BY <1>1, <1>2, <1>3 DEF SeriesOf

\* The types of what the files give.
LEMMA FilesTypes ==
  ASSUME NEW files \in Seq(Reading)
  PROVE  /\ Sequences(SinglesIn(files), Field, Len(files))
         /\ Sequences(SeriesIn(files), Seq(Field), Len(files))
<1>1. ASSUME NEW r \in Reading
      PROVE  SinglesOf(r) \in Seq(Field) /\ SeriesOf(r) \in Seq(Seq(Field))
  <2> DEFINE list == r.content.lines
             Y == Seq(Field)
  <2>1. /\ list \in Seq(Line) /\ r.series \in BOOLEAN /\ r.content.there \in BOOLEAN
        /\ SinglesOf(r) = IF r.series \/ ~r.content.there THEN <<>>
                          ELSE Flat(SinglesAt(list), Len(list))
        /\ SeriesOf(r) = IF ~r.series \/ Unreadable(r) \/ list = <<>> THEN <<>>
                         ELSE <<Flat(ValuesAt(list), Len(list) - 1)>>
    BY FileGives
  <2>2. /\ Len(list) \in Nat /\ (list # <<>> => Len(list) - 1 \in Nat)
        /\ Sequences(SinglesAt(list), Field, Len(list))
        /\ Sequences(ValuesAt(list), Field, Len(list) - 1)
    BY <2>1, LinesTypes
  <2>3. Flat(SinglesAt(list), Len(list)) \in Y
    BY <2>2, FlatTypes
  <2>4. list # <<>> => Flat(ValuesAt(list), Len(list) - 1) \in Y
    BY <2>2, FlatTypes
  <2>5. <<>> \in Y
    OBVIOUS
  <2> HIDE DEF list, Y
  <2>6. <<>> \in Seq(Y) /\ \A y \in Y : <<y>> \in Seq(Y)
    OBVIOUS
  <2>7. SinglesOf(r) \in Y
    BY <2>1, <2>3, <2>5
  <2>8. SeriesOf(r) \in Seq(Y)
    BY <2>1, <2>4, <2>6
  <2> QED
    BY <2>7, <2>8 DEF Y
<1>2. \A i \in 1..Len(files) : files[i] \in Reading
  OBVIOUS
<1> QED
  BY <1>1, <1>2 DEF Sequences, SinglesIn, SeriesIn

\* Values at the end.
LEMMA ValueAdded ==
  ASSUME NEW X, NEW list \in Seq(X), NEW x \in X, NEW fields \in Seq(Field), NEW field \in Field,
         SameValues(list, fields), x.value = Double(field)
  PROVE  SameValues(Append(list, x), fields \o <<field>>)
<1>1. /\ Len(list) \in Nat /\ Len(Append(list, x)) = Len(list) + 1
      /\ Append(list, x)[Len(list) + 1] = x
      /\ \A i \in 1..Len(list) : Append(list, x)[i] = list[i]
  OBVIOUS
<1>2. /\ Len(fields \o <<field>>) = Len(fields) + 1
      /\ (fields \o <<field>>)[Len(fields) + 1] = field
      /\ \A i \in 1..Len(fields) : (fields \o <<field>>)[i] = fields[i]
  OBVIOUS
<1>3. Len(list) = Len(fields) /\ \A i \in 1..Len(list) : list[i].value = Double(fields[i])
  BY DEF SameValues
<1>4. \A i \in 1..Len(list) + 1 : i \in 1..Len(list) \/ i = Len(list) + 1
  BY <1>1
<1> QED
  BY <1>1, <1>2, <1>3, <1>4 DEF SameValues

\* A series without values at the end.
LEMMA SeriesAdded ==
  ASSUME NEW X, NEW list \in Seq(X), NEW s \in X, s.items = <<>>,
         NEW values \in Seq(Seq(Field)), SameSeries(list, values)
  PROVE  SameSeries(Append(list, s), values \o <<<<>>>>)
<1> DEFINE Y == Seq(Field)
<1>0. values \in Seq(Y) /\ <<>> \in Y
  OBVIOUS
<1> HIDE DEF Y
<1>1. /\ Len(list) \in Nat /\ Len(Append(list, s)) = Len(list) + 1
      /\ Append(list, s)[Len(list) + 1] = s
      /\ \A i \in 1..Len(list) : Append(list, s)[i] = list[i]
  OBVIOUS
<1>2. /\ Len(values \o <<<<>>>>) = Len(values) + 1
      /\ (values \o <<<<>>>>)[Len(values) + 1] = <<>>
      /\ \A i \in 1..Len(values) : (values \o <<<<>>>>)[i] = values[i]
  BY <1>0
<1>3. Len(list) = Len(values) /\ \A i \in 1..Len(list) : SameValues(list[i].items, values[i])
  BY DEF SameSeries
<1>4. SameValues(<<>>, <<>>)
  BY DEF SameValues
<1>5. \A i \in 1..Len(list) + 1 : i \in 1..Len(list) \/ i = Len(list) + 1
  BY <1>1
<1> QED
  BY <1>1, <1>2, <1>3, <1>4, <1>5 DEF SameSeries

\* An item at the end of the last series.
LEMMA ItemIn ==
  ASSUME NEW old \in Seq(Series), NEW list, NEW field \in Field, ItemAdded(old, list, field),
         NEW first \in Seq(Seq(Field)), NEW fields \in Seq(Field),
         SameSeries(old, first \o <<fields>>)
  PROVE  SameSeries(list, first \o <<fields \o <<field>>>>)
<1> DEFINE Y == Seq(Field)
           n == Len(old)
           more == fields \o <<field>>
<1>0. first \in Seq(Y) /\ fields \in Y /\ more \in Y
  OBVIOUS
<1> HIDE DEF Y
<1>1. Len(list) = n /\ n \in Nat /\ n >= 1 /\ \A i \in 1..n - 1 : list[i] = old[i]
  BY DEF ItemAdded
<1>2. /\ Len(first \o <<fields>>) = Len(first) + 1 /\ Len(first) \in Nat
      /\ (first \o <<fields>>)[Len(first) + 1] = fields
      /\ \A i \in 1..Len(first) : (first \o <<fields>>)[i] = first[i]
  BY <1>0
<1>3. /\ Len(first \o <<more>>) = Len(first) + 1
      /\ (first \o <<more>>)[Len(first) + 1] = more
      /\ \A i \in 1..Len(first) : (first \o <<more>>)[i] = first[i]
  <2> HIDE DEF more
  <2> QED
    BY <1>0
<1>4. /\ n = Len(first) + 1 /\ SameValues(old[n].items, fields)
      /\ \A i \in 1..n - 1 : SameValues(old[i].items, first[i])
  <2>1. n = Len(first \o <<fields>>)
        /\ \A i \in 1..n : SameValues(old[i].items, (first \o <<fields>>)[i])
    BY DEF SameSeries
  <2>2. n = Len(first) + 1
    BY <1>2, <2>1
  <2>3. n \in 1..n /\ \A i \in 1..n - 1 : i \in 1..n /\ i \in 1..Len(first)
    BY <1>1, <1>2, <2>2
  <2> HIDE DEF n
  <2> QED
    BY <1>2, <2>1, <2>2, <2>3
<1>5. SameValues(list[n].items, more)
  <2>1. PICK timed \in BOOLEAN : list[n].items = Append(old[n].items, Item(field, timed))
    BY DEF ItemAdded
  <2>2. Item(field, timed) \in SeriesItem /\ Item(field, timed).value = Double(field)
    BY DoubleTypes DEF Item, SeriesItem
  <2>3. old[n].items \in Seq(SeriesItem)
    <3>1. old[n] \in Series
      BY <1>1
    <3> QED
      BY <3>1 DEF Series
  <2> QED
    BY <1>4, <2>1, <2>2, <2>3, ValueAdded
<1>6. ASSUME NEW i \in 1..n PROVE SameValues(list[i].items, (first \o <<more>>)[i])
  <2> HIDE DEF n, more
  <2>1. i = n \/ (i \in 1..n - 1 /\ i \in 1..Len(first))
    BY <1>1, <1>2, <1>4
  <2> QED
    BY <1>1, <1>3, <1>4, <1>5, <2>1
<1> HIDE DEF n, more
<1> QED
  BY <1>1, <1>3, <1>4, <1>6 DEF SameSeries, more

\* Nothing is added by an empty sequence.
LEMMA FlatStays ==
  ASSUME NEW X, NEW e, NEW n \in Nat, NEW m \in Nat, m = n + 1, Sequences(e, X, m),
         e[m] = <<>>
  PROVE  Flat(e, m) = Flat(e, n)
<1>1. Flat(e, n) \in Seq(X) /\ Flat(e, m) = Flat(e, n) \o e[m]
  BY FlatGrows
<1>2. \A y \in Seq(X) : y \o <<>> = y
  OBVIOUS
<1> QED
  BY <1>1, <1>2

\* Sequences that are empty from some place on.
LEMMA FlatStops ==
  ASSUME NEW X, NEW e, NEW n \in Nat, NEW m \in Nat, n <= m, Sequences(e, X, m),
         \A i \in 1..m : i > n => e[i] = <<>>
  PROVE  Flat(e, m) = Flat(e, n)
<1> DEFINE S == {k \in Nat : n + k <= m => Flat(e, n + k) = Flat(e, n)}
<1>1. 0 \in S
  OBVIOUS
<1>2. ASSUME NEW k \in Nat, k \in S PROVE k + 1 \in S
  <2>0. SUFFICES ASSUME n + (k + 1) <= m PROVE Flat(e, n + (k + 1)) = Flat(e, n)
    OBVIOUS
  <2>1. PICK a \in Nat, b \in Nat : a = n + k /\ b = n + (k + 1)
    OBVIOUS
  <2>2. Flat(e, a) = Flat(e, n)
    BY <1>2, <2>0, <2>1
  <2>3. b = a + 1 /\ b \in 1..m /\ b > n /\ \A i \in 1..b : i \in 1..m
    BY <2>0, <2>1
  <2>4. Sequences(e, X, b) /\ e[b] = <<>>
    BY <2>3 DEF Sequences
  <2>5. Flat(e, b) = Flat(e, a)
    BY <2>3, <2>4, FlatStays
  <2> QED
    BY <2>1, <2>2, <2>5
<1>3. m - n \in S
  <2> HIDE DEF S
  <2>1. S \in SUBSET Nat /\ m - n \in Nat
    BY DEF S
  <2> QED
    BY <1>1, <1>2, <2>1, Induction
<1> QED
  BY <1>3

\* The files judged before, and one more.
LEMMA FilesAgree ==
  ASSUME NEW files \in Seq(Reading), NEW more \in Seq(Reading), NEW k \in Nat,
         k <= Len(files), k <= Len(more), Agree(files, more, k)
  PROVE  /\ Flat(SinglesIn(more), k) = Flat(SinglesIn(files), k)
         /\ Flat(SeriesIn(more), k) = Flat(SeriesIn(files), k)
<1>1. \A i \in 1..k : i \in 1..Len(files) /\ i \in 1..Len(more) /\ files[i] = more[i]
  BY DEF Agree
<1>2. Agree(SinglesIn(more), SinglesIn(files), k) /\ Agree(SeriesIn(more), SeriesIn(files), k)
  BY <1>1 DEF Agree, SinglesIn, SeriesIn
<1> QED
  BY <1>2, FlatSame

\* The values of one more file go to the end.
LEMMA FileJudged ==
  ASSUME NEW files \in Seq(Reading), NEW more \in Seq(Reading), NEW k \in Nat, NEW m \in Nat,
         m = k + 1, Len(more) = m, k <= Len(files), Agree(files, more, k)
  PROVE  /\ Flat(SinglesIn(files), k) \in Seq(Field)
         /\ Flat(SeriesIn(files), k) \in Seq(Seq(Field))
         /\ Flat(SinglesIn(more), m) = Flat(SinglesIn(files), k) \o SinglesOf(more[m])
         /\ Flat(SeriesIn(more), m) = Flat(SeriesIn(files), k) \o SeriesOf(more[m])
<1>1. Sequences(SinglesIn(more), Field, m) /\ Sequences(SeriesIn(more), Seq(Field), m)
  BY FilesTypes
<1>2. /\ Flat(SinglesIn(more), k) \in Seq(Field)
      /\ Flat(SinglesIn(more), m) = Flat(SinglesIn(more), k) \o SinglesIn(more)[m]
  BY <1>1, FlatGrows
<1>3. /\ Flat(SeriesIn(more), k) \in Seq(Seq(Field))
      /\ Flat(SeriesIn(more), m) = Flat(SeriesIn(more), k) \o SeriesIn(more)[m]
  <2> DEFINE Y == Seq(Field)
             e == SeriesIn(more)
  <2>1. Sequences(e, Y, m)
    BY <1>1
  <2> HIDE DEF Y, e
  <2>2. Flat(e, k) \in Seq(Y) /\ Flat(e, m) = Flat(e, k) \o e[m]
    BY <2>1, FlatGrows
  <2> QED
    BY <2>2 DEF Y, e
<1>4. SinglesIn(more)[m] = SinglesOf(more[m]) /\ SeriesIn(more)[m] = SeriesOf(more[m])
  BY DEF SinglesIn, SeriesIn
<1>5. /\ Flat(SinglesIn(more), k) = Flat(SinglesIn(files), k)
      /\ Flat(SeriesIn(more), k) = Flat(SeriesIn(files), k)
  BY FilesAgree
<1> QED
  BY <1>2, <1>3, <1>4, <1>5

\* The types of what the case holds.
LEMMA HeldTypes ==
  ASSUME Types, FileAtHand, LinesWereGood
  PROVE  /\ Judged \in Nat /\ Judged <= Len(measured) /\ measured \in Seq(Reading)
         /\ Flat(SinglesIn(measured), Judged) \in Seq(Field)
         /\ Flat(SeriesIn(measured), Judged) \in Seq(Seq(Field))
         /\ SinglesHere \in Seq(Field) /\ SeriesHere \in Seq(Seq(Field))
         /\ Reads => /\ Now \in Reading /\ Now.content.lines \in Seq(Line)
                     /\ Done \in 0..Len(Now.content.lines) /\ Len(Now.content.lines) \in Nat
                     /\ Now = measured[Judged + 1] /\ Len(measured) = Judged + 1
                     /\ Flat(SinglesAt(Now.content.lines), Done) \in Seq(Field)
                     /\ file.series /\ started =>
                          Done >= 1 /\ Flat(ValuesAt(Now.content.lines), Done - 1) \in Seq(Field)
<1> DEFINE all == Now.content.lines
           n == Len(measured)
<1>1. measured \in Seq(Reading) /\ n \in Nat
  BY DEF Types
<1>2. Reads => n # 0
  BY <1>1 DEF FileAtHand
<1>3. Judged \in Nat /\ Judged <= n /\ (Reads => n = Judged + 1)
  <2>1. Judged = IF Reads THEN n - 1 ELSE n
    BY DEF Judged
  <2> HIDE DEF n
  <2> QED
    BY <1>1, <1>2, <2>1
<1>4. Flat(SinglesIn(measured), Judged) \in Seq(Field)
  <2>1. Sequences(SinglesIn(measured), Field, n)
    BY <1>1, FilesTypes
  <2>2. Sequences(SinglesIn(measured), Field, Judged)
    <3> HIDE DEF n
    <3> QED
      BY <1>1, <1>3, <2>1 DEF Sequences
  <2> QED
    BY <1>3, <2>2, FlatTypes
<1>5. Flat(SeriesIn(measured), Judged) \in Seq(Seq(Field))
  <2>1. Sequences(SeriesIn(measured), Seq(Field), n)
    BY <1>1, FilesTypes
  <2>2. Sequences(SeriesIn(measured), Seq(Field), Judged)
    <3> HIDE DEF n
    <3> QED
      BY <1>1, <1>3, <2>1 DEF Sequences
  <2> QED
    BY <1>3, <2>2, FlatTypes
<1>6. ASSUME Reads
      PROVE  /\ Now \in Reading /\ all \in Seq(Line) /\ Len(all) \in Nat
             /\ Done \in 0..Len(all) /\ Now = measured[Judged + 1]
             /\ Flat(SinglesAt(all), Done) \in Seq(Field)
             /\ file.series /\ started =>
                  Done >= 1 /\ Flat(ValuesAt(all), Done - 1) \in Seq(Field)
  <2>1. Now \in Reading /\ Now = measured[Judged + 1]
    <3>1. n \in 1..n
      BY <1>1, <1>2, <1>6
    <3>2. Now = measured[n] /\ n = Judged + 1
      BY <1>3, <1>6 DEF Now
    <3> QED
      BY <1>1, <3>1, <3>2
  <2>2. all \in Seq(Line) /\ Len(all) \in Nat
    <3>1. all \in Seq(Line)
      BY <2>1 DEF Reading, Contents
    <3> QED
      BY <3>1
  <2>3. Done \in 0..Len(all)
    BY <1>6 DEF FileAtHand
  <2>4. Sequences(SinglesAt(all), Field, Len(all)) /\ Sequences(ValuesAt(all), Field, Len(all) - 1)
    BY <2>2, LinesTypes
  <2> HIDE DEF all
  <2>5. Flat(SinglesAt(all), Done) \in Seq(Field)
    <3>1. Done \in Nat /\ \A i \in 1..Done : i \in 1..Len(all)
      BY <2>2, <2>3
    <3>2. Sequences(SinglesAt(all), Field, Done)
      BY <2>4, <3>1 DEF Sequences
    <3> QED
      BY <3>1, <3>2, FlatTypes
  <2>6. ASSUME file.series, started
        PROVE  Done >= 1 /\ Flat(ValuesAt(all), Done - 1) \in Seq(Field)
    <3>1. Done >= 1
      BY <1>6, <2>6 DEF LinesWereGood
    <3>2. Done - 1 \in Nat /\ \A i \in 1..Done - 1 : i \in 1..Len(all) - 1
      BY <2>2, <2>3, <3>1
    <3>3. Sequences(ValuesAt(all), Field, Done - 1)
      BY <2>4, <3>2 DEF Sequences
    <3> QED
      BY <3>1, <3>2, <3>3, FlatTypes
  <2> QED
    BY <2>1, <2>2, <2>3, <2>5, <2>6
<1>7. SinglesHere \in Seq(Field)
  <2>1. <<>> \in Seq(Field)
    OBVIOUS
  <2> QED
    BY <1>6, <2>1 DEF SinglesHere
<1>8. SeriesHere \in Seq(Seq(Field))
  <2> DEFINE Y == Seq(Field)
  <2>1. Reads /\ file.series /\ started => Flat(ValuesAt(all), Done - 1) \in Y
    BY <1>6
  <2> HIDE DEF Y
  <2>2. <<>> \in Seq(Y) /\ \A y \in Y : <<y>> \in Seq(Y)
    OBVIOUS
  <2>3. SeriesHere \in Seq(Y)
    BY <2>1, <2>2 DEF SeriesHere
  <2> QED
    BY <2>3 DEF Y
<1> HIDE DEF all
<1> QED
  BY <1>1, <1>3, <1>4, <1>5, <1>6, <1>7, <1>8 DEF all

\* A file is done with: it could not be opened, has a line that cannot be
\* processed, or has been read to its end.
FileDone == (OpenFile /\ pc' # "read") \/ ReadMalformed \/ EndOfFile

\* What it has given is then what a look at the whole of it gives.
LEMMA FileEnds ==
  ASSUME Types, Types', FileAtHand, LinesWereGood, FileDone
  PROVE  /\ ~Reads' /\ pc # "power" /\ pc' # "power" /\ power' = power
         /\ Judged \in Nat /\ Judged' = Judged + 1
         /\ measured' \in Seq(Reading) /\ Len(measured') = Judged + 1
         /\ Agree(measured, measured', Judged)
         /\ c'.measurements = c.measurements /\ c'.series = c.series
         /\ SinglesOf(measured'[Judged + 1]) = SinglesHere
         /\ SeriesOf(measured'[Judged + 1]) = SeriesHere
<1> DEFINE last == measured'[Judged + 1]
           all == Now.content.lines
<1>1. /\ pc' = "gets" /\ pc # "power" /\ power' = power
      /\ c'.measurements = c.measurements /\ c'.series = c.series
  <2>1. pc # "power" /\ UNCHANGED power /\ (Judge(TRUE) \/ Judge(FALSE))
    BY DEF FileDone, OpenFile, ReadMalformed, ReadLine, EndOfFile, given
  <2>2. pc' = "gets" /\ (c' = c \/ c' = [c EXCEPT !.case_res = "FAIL"])
    BY <2>1, JudgeTypes
  <2> QED
    BY <2>1, <2>2 DEF Types, Case
<1>2. CASE OpenFile /\ pc' # "read"
  <2>1. /\ ~Reads /\ ~folder[file.base].there
        /\ measured' = Append(measured, [series |-> file.series, content |-> folder[file.base]])
    BY <1>2 DEF OpenFile, Reads
  <2>2. measured \in Seq(Reading) /\ Judged = Len(measured) /\ measured' \in Seq(Reading)
    BY <2>1 DEF Types, Judged
  <2>3. /\ Judged \in Nat /\ Len(measured') = Judged + 1 /\ ~last.content.there
        /\ \A i \in 1..Judged : measured'[i] = measured[i]
    BY <2>1, <2>2
  <2>4. SinglesOf(last) = <<>> /\ SeriesOf(last) = <<>>
    BY <2>3 DEF SinglesOf, SeriesOf, Unreadable
  <2>5. SinglesHere = <<>> /\ SeriesHere = <<>>
    BY <2>1 DEF SinglesHere, SeriesHere
  <2>6. ~Reads' /\ Judged' = Judged + 1
    BY <1>1, <2>3 DEF Reads, Judged
  <2> QED
    BY <1>1, <2>2, <2>3, <2>4, <2>5, <2>6 DEF Agree
<1>3. CASE ReadMalformed \/ EndOfFile
  <2>1. Reads /\ ~Reads' /\ measured' = measured
    BY <1>1, <1>3 DEF ReadMalformed, ReadLine, EndOfFile, Reads
  <2>2. /\ Judged \in Nat /\ Judged <= Len(measured) /\ measured \in Seq(Reading)
        /\ Now \in Reading /\ all \in Seq(Line)
        /\ Done \in 0..Len(all) /\ Len(all) \in Nat
        /\ Now = measured[Judged + 1] /\ Len(measured) = Judged + 1
    BY <2>1, HeldTypes
  <2>3. /\ Judged' = Judged + 1 /\ last = Now /\ Agree(measured, measured', Judged)
    BY <2>1, <2>2 DEF Judged, Agree
  <2>4. Now.series = file.series /\ Now.content.there
    BY <2>1 DEF FileAtHand
  <2>5. /\ file.series \in BOOLEAN
        /\ SinglesOf(Now) = IF file.series THEN <<>> ELSE Flat(SinglesAt(all), Len(all))
        /\ SeriesOf(Now) = IF ~file.series \/ Unreadable(Now) \/ all = <<>> THEN <<>>
                           ELSE <<Flat(ValuesAt(all), Len(all) - 1)>>
    BY <2>2, <2>4, FileGives
  <2>6. ASSUME ReadMalformed
        PROVE  SinglesOf(Now) = SinglesHere /\ SeriesOf(Now) = SeriesHere
    <3>1. lines # <<>> /\ lines' = Tail(lines)
      BY <2>6 DEF ReadMalformed, ReadLine
    <3>2. Done + 1 <= Len(all) /\ Head(lines) = all[Done + 1]
      BY <2>1, <3>1, NextLine
    <3>3. Done \in Nat /\ Done <= Len(all) /\ Done + 1 \in 1..Len(all)
      <4> HIDE DEF Done, all
      <4> QED
        BY <2>2, <3>2
    <3>4. CASE ~file.series
      <4>1. ~Head(lines)[1].blank /\ Malformed(Head(lines))
        BY <2>6, <3>4 DEF ReadMalformed, ReadLine
      <4>2. ASSUME NEW i \in 1..Len(all), i > Done PROVE SinglesAt(all)[i] = <<>>
        <5>1. Done + 1 \in 1..i
          <6> HIDE DEF Done, all
          <6> QED
            BY <3>3, <4>2
        <5>2. SingleValue(all, i) = <<>>
          BY <3>2, <4>1, <5>1 DEF SingleValue
        <5> QED
          BY <5>2 DEF SinglesAt
      <4>3. Sequences(SinglesAt(all), Field, Len(all))
        BY <2>2, LinesTypes
      <4>4. Flat(SinglesAt(all), Len(all)) = Flat(SinglesAt(all), Done)
        <5> HIDE DEF Done, all
        <5> QED
          BY <2>2, <3>3, <4>2, <4>3, FlatStops
      <4> QED
        BY <2>1, <2>5, <3>4, <4>4 DEF SinglesHere, SeriesHere
    <3>5. CASE file.series
      <4>1. ~started /\ Len(Head(lines)) < 2
        BY <2>6, <3>5 DEF ReadMalformed, ReadLine
      <4>2. ~(Done >= 1)
        BY <2>1, <3>5, <4>1 DEF LinesWereGood
      <4>3. Done = 0 /\ Len(all) >= 1
        <5> HIDE DEF Done, Now
        <5> QED
          BY <2>2, <3>3, <4>2
      <4>4. Head(lines) = all[1] /\ all # <<>>
        BY <2>2, <3>2, <4>3
      <4>5. Unreadable(Now)
        BY <2>4, <3>5, <4>1, <4>4 DEF Unreadable
      <4> QED
        BY <2>1, <2>5, <3>5, <4>1, <4>5 DEF SinglesHere, SeriesHere
    <3> QED
      BY <3>4, <3>5
  <2>7. ASSUME EndOfFile
        PROVE  SinglesOf(Now) = SinglesHere /\ SeriesOf(Now) = SeriesHere
    <3>1. lines = <<>> /\ Done = Len(all)
      BY <2>2, <2>7 DEF EndOfFile, Done
    <3>2. CASE ~file.series
      BY <2>1, <2>5, <3>1, <3>2 DEF SinglesHere, SeriesHere
    <3>3. CASE file.series /\ all = <<>>
      <4>1. ~started
        BY <2>1, <3>1, <3>3 DEF LinesWereGood
      <4> QED
        BY <2>5, <3>3, <4>1 DEF SinglesHere, SeriesHere
    <3>4. CASE file.series /\ all # <<>>
      <4>1. started
        <5>1. Done >= 1
          BY <2>2, <3>1, <3>4
        <5> QED
          BY <2>1, <3>4, <5>1 DEF LinesWereGood
      <4>2. Len(all[1]) >= 2
        BY <2>1, <3>4, <4>1 DEF LinesWereGood
      <4>3. ~(Len(all[1]) < 2)
        <5>1. all[1] \in Line
          BY <2>2, <3>4
        <5>2. Len(all[1]) \in Nat
          BY <5>1, LineTypes
        <5> HIDE DEF all
        <5> QED
          BY <4>2, <5>2
      <4>4. ~Unreadable(Now)
        BY <2>4, <3>4, <4>3 DEF Unreadable
      <4> QED
        BY <2>1, <2>5, <3>1, <3>4, <4>1, <4>4 DEF SinglesHere, SeriesHere
    <3> QED
      BY <2>5, <3>2, <3>3, <3>4
  <2>8. SinglesOf(last) = SinglesHere /\ SeriesOf(last) = SeriesHere
    BY <1>3, <2>3, <2>6, <2>7
  <2> QED
    BY <1>1, <2>1, <2>2, <2>3, <2>8
<1> QED
  BY <1>2, <1>3 DEF FileDone

\* A sample more of the power measurement.
LEMMA PowerNext ==
  ASSUME Types, PowerAtHand, PowerSample
  PROVE  /\ pc = "power" /\ pc' = "power" /\ power' = power /\ measured' = measured
         /\ PowerDone' = PowerDone + 1 /\ PowerDone' \in 0..Len(power)
         /\ \A i \in 1..Len(lines') : lines'[i] = power[PowerDone' + i]
         /\ Flat(SamplesAt(power), PowerDone) \in Seq(Field)
         /\ Flat(SamplesAt(power), PowerDone')
              = Flat(SamplesAt(power), PowerDone) \o SampleOf(Head(lines))
         /\ Head(lines) \in Line
<1>1. /\ pc = "power" /\ pc' = "power" /\ power' = power /\ measured' = measured
      /\ lines # <<>> /\ lines' = Tail(lines) /\ lines \in Seq(Line) /\ power \in Seq(Line)
  BY DEF PowerSample, given, Types
<1>2. /\ PowerDone \in 0..Len(power) /\ PowerDone = Len(power) - Len(lines)
      /\ PowerDone' = Len(power) - Len(lines')
      /\ \A i \in 1..Len(lines) : lines[i] = power[PowerDone + i]
  BY <1>1 DEF PowerAtHand, PowerDone
<1>3. /\ Len(lines) \in Nat \ {0} /\ Len(lines') = Len(lines) - 1 /\ Head(lines) = lines[1]
      /\ \A i \in 1..Len(lines') : lines'[i] = lines[i + 1]
      /\ Len(power) \in Nat /\ Head(lines) \in Line
  BY <1>1
<1> HIDE DEF PowerDone
<1>4. /\ PowerDone \in Nat /\ PowerDone' \in Nat /\ PowerDone' = PowerDone + 1
      /\ PowerDone' \in 1..Len(power) /\ \A i \in 1..PowerDone' : i \in 1..Len(power)
  BY <1>2, <1>3
<1>5. Head(lines) = power[PowerDone']
  BY <1>2, <1>3, <1>4
<1>6. ASSUME NEW i \in 1..Len(lines') PROVE lines'[i] = power[PowerDone' + i]
  <2>1. i + 1 \in 1..Len(lines) /\ PowerDone + (i + 1) = PowerDone' + i
    BY <1>3, <1>4
  <2> QED
    BY <1>2, <1>3, <2>1
<1>7. Sequences(SamplesAt(power), Field, PowerDone')
  <2>1. Sequences(SamplesAt(power), Field, Len(power))
    BY <1>1, LinesTypes
  <2> QED
    BY <1>4, <2>1 DEF Sequences
<1>8. /\ Flat(SamplesAt(power), PowerDone) \in Seq(Field)
      /\ Flat(SamplesAt(power), PowerDone')
           = Flat(SamplesAt(power), PowerDone) \o SamplesAt(power)[PowerDone']
  BY <1>4, <1>7, FlatGrows
<1>9. SamplesAt(power)[PowerDone'] = SampleOf(Head(lines))
  BY <1>4, <1>5 DEF SamplesAt
<1> QED
  BY <1>1, <1>3, <1>4, <1>6, <1>8, <1>9

\* PowerAtHand is kept by every step.
LEMMA PowerAtHandStep ==
  ASSUME Types, PowerAtHand, [Next]_vars
  PROVE  PowerAtHand'
<1>1. CASE PowerSample
  <2> DEFINE old == Flat(SamplesAt(power), PowerDone)
             new == Flat(SamplesAt(power'), PowerDone')
  <2>1. /\ power' = power /\ PowerDone' \in 0..Len(power')
        /\ \A i \in 1..Len(lines') : lines'[i] = power'[PowerDone' + i]
        /\ old \in Seq(Field) /\ new = old \o SampleOf(Head(lines))
    BY <1>1, PowerNext
  <2>2. (started <=> old # <<>>) /\ started \in BOOLEAN
    BY <1>1 DEF PowerAtHand, PowerSample, Types
  <2> HIDE DEF old, new
  <2>3. CASE started' = started /\ SampleOf(Head(lines)) = <<>>
    <3>1. new = old
      BY <2>1, <2>3
    <3>2. started' <=> new # <<>>
      BY <2>2, <2>3, <3>1
    <3> QED
      BY <2>1, <3>2 DEF PowerAtHand, new
  <2>4. ASSUME NEW field \in Field, started' = TRUE, SampleOf(Head(lines)) = <<field>>
        PROVE  PowerAtHand'
    <3>1. new # <<>>
      BY <2>1, <2>4
    <3>2. started' <=> new # <<>>
      BY <2>4, <3>1
    <3> QED
      BY <2>1, <3>2 DEF PowerAtHand, new
  <2> QED
    BY <1>1, <2>3, <2>4, PowerEffect
<1>2. CASE UNCHANGED vars
  BY <1>2 DEF vars, given, PowerAtHand, PowerDone
<1>3. CASE pc' # "power"
  BY <1>3 DEF PowerAtHand
<1>4. Next => PowerSample \/ pc' # "power"
  BY DEF Next, PowerEnds, GetFile, SkipFile, OpenFile, Judge, ReadBlank, ReadMeasurement,
         ReadMalformed, ReadHeader, ReadItem, ReadLine, EndOfFile, WriteCase
<1> QED
  BY <1>1, <1>2, <1>3, <1>4

\* What is kept of the files and the samples is kept by a step that judges no
\* file and reads nothing of that kind.
LEMMA SinglesSame ==
  ASSUME Types, Types', FileAtHand, LinesWereGood, SinglesKept,
         Judged' = Judged, Judged <= Len(measured'), Agree(measured, measured', Judged),
         c'.measurements = c.measurements, SinglesHere' = SinglesHere
  PROVE  SinglesKept'
<1>1. Judged \in Nat /\ Judged <= Len(measured) /\ measured \in Seq(Reading)
  BY HeldTypes
<1>2. measured' \in Seq(Reading)
  BY DEF Types
<1> HIDE DEF Judged
<1>3. Flat(SinglesIn(measured'), Judged) = Flat(SinglesIn(measured), Judged)
  BY <1>1, <1>2, FilesAgree
<1> QED
  BY <1>3 DEF SinglesKept

\* The same for the series.
LEMMA SeriesSame ==
  ASSUME Types, Types', FileAtHand, LinesWereGood, SeriesKept,
         Judged' = Judged, Judged <= Len(measured'), Agree(measured, measured', Judged),
         power' = power, PowerDone' = PowerDone,
         c'.series = c.series, SeriesHere' = SeriesHere
  PROVE  SeriesKept'
<1>1. Judged \in Nat /\ Judged <= Len(measured) /\ measured \in Seq(Reading)
  BY HeldTypes
<1>2. measured' \in Seq(Reading)
  BY DEF Types
<1> HIDE DEF Judged, PowerDone
<1>3. Flat(SeriesIn(measured'), Judged) = Flat(SeriesIn(measured), Judged)
  BY <1>1, <1>2, FilesAgree
<1> QED
  BY <1>3 DEF SeriesKept

\* The steps that read nothing.
LEMMA NothingRead ==
  ASSUME Types, Types', FileAtHand, PowerAtHand,
         (OpenFile /\ pc' = "read") \/ PowerEnds \/ GetFile \/ SkipFile \/ WriteCase
  PROVE  /\ Judged' = Judged /\ Judged \in Nat /\ Judged <= Len(measured')
         /\ Agree(measured, measured', Judged) /\ c' = c
         /\ power' = power /\ PowerDone' = PowerDone
         /\ SinglesHere = <<>> /\ SeriesHere = <<>> /\ SinglesHere' = <<>> /\ SeriesHere' = <<>>
<1>1. CASE OpenFile /\ pc' = "read"
  <2>1. /\ measured' = Append(measured, Now') /\ c' = c /\ pc = "open" /\ power' = power
        /\ measured \in Seq(Reading) /\ ~started' /\ Done' = 0
    BY <1>1, OpenedFile DEF OpenFile, Types, given
  <2>2. Judged = Len(measured) /\ Judged' = Len(measured) /\ Len(measured') = Len(measured) + 1
    BY <1>1, <2>1 DEF Judged, Reads
  <2>3. Judged \in Nat /\ Judged <= Len(measured') /\ \A i \in 1..Judged : measured'[i] = measured[i]
    BY <2>1, <2>2
  <2>4. PowerDone' = PowerDone /\ ~Reads
    BY <1>1, <2>1 DEF PowerDone, Reads
  <2>5. SinglesHere = <<>> /\ SeriesHere = <<>> /\ SeriesHere' = <<>>
    BY <2>1, <2>4 DEF SinglesHere, SeriesHere
  <2>6. SinglesHere' = <<>>
    <3>1. \A e : Flat(e, 0) = <<>>
      BY FlatNone
    <3>2. Flat(SinglesAt(Now'.content.lines), Done') = <<>>
      BY <2>1, <3>1
    <3> HIDE DEF Done
    <3> QED
      BY <3>2 DEF SinglesHere
  <2> QED
    BY <2>1, <2>2, <2>3, <2>4, <2>5, <2>6 DEF Agree
<1>2. CASE PowerEnds \/ GetFile \/ SkipFile \/ WriteCase
  <2>1. /\ measured' = measured /\ measured \in Seq(Reading) /\ c' = c /\ power' = power
        /\ ~Reads /\ ~Reads'
    BY <1>2 DEF PowerEnds, GetFile, SkipFile, WriteCase, Reads, Types, given
  <2>2. Judged' = Judged /\ Judged \in Nat /\ Judged <= Len(measured') /\ Agree(measured, measured', Judged)
    BY <2>1 DEF Judged, Agree
  <2>3. SinglesHere = <<>> /\ SeriesHere = <<>> /\ SinglesHere' = <<>> /\ SeriesHere' = <<>>
    BY <2>1 DEF SinglesHere, SeriesHere
  <2>4. PowerDone' = PowerDone
    <3>1. CASE PowerEnds
      <4>1. pc = "power" /\ pc' = "gets" /\ lines = <<>> /\ power \in Seq(Line)
        BY <3>1 DEF PowerEnds, Types
      <4> QED
        BY <2>1, <4>1 DEF PowerDone
    <3>2. CASE GetFile \/ SkipFile \/ WriteCase
      <4>1. pc # "power" /\ pc' # "power"
        BY <3>2 DEF GetFile, SkipFile, WriteCase
      <4> QED
        BY <2>1, <4>1 DEF PowerDone
    <3> QED
      BY <1>2, <3>1, <3>2
  <2> QED
    BY <2>1, <2>2, <2>3, <2>4
<1> QED
  BY <1>1, <1>2

\* A line of a file of measurements adds its value.
LEMMA SingleRead ==
  ASSUME Types, FileAtHand, LinesWereGood, ReadBlank \/ ReadMeasurement
  PROVE  /\ Judged' = Judged /\ measured' = measured
         /\ ReadBlank => SinglesHere' = SinglesHere
         /\ ReadMeasurement => /\ Head(lines)[2] \in Field
                               /\ SinglesHere' = SinglesHere \o <<Head(lines)[2]>>
<1> DEFINE all == Now.content.lines
           line == Head(lines)
<1>1. /\ Reads /\ Reads' /\ file' = file /\ measured' = measured /\ Now' = Now
      /\ Done \in 0..Len(all) - 1 /\ Done' = Done + 1
      /\ Head(lines) = all[Done + 1] /\ Len(all) \in Nat
  BY LineRead DEF LineTaken
<1>2. ~file.series /\ line \in Line
  BY DEF ReadBlank, ReadMeasurement, ReadLine, Types
<1>3. Judged' = Judged
  BY <1>1 DEF Judged
<1>4. /\ SinglesHere = Flat(SinglesAt(all), Done)
      /\ SinglesHere' = Flat(SinglesAt(all), Done')
  <2>1. SinglesHere = Flat(SinglesAt(all), Done)
    BY <1>1, <1>2 DEF SinglesHere
  <2>2. SinglesHere' = Flat(SinglesAt(Now'.content.lines), Done')
    BY <1>1, <1>2 DEF SinglesHere
  <2> QED
    BY <1>1, <2>1, <2>2
<1>5. all \in Seq(Line)
  BY <1>1, HeldTypes
<1>6. \A i \in 1..Done : ~all[i][1].blank => ~Malformed(all[i])
  BY <1>1, <1>2 DEF LinesWereGood
<1> HIDE DEF all, Done, line
<1>7. /\ Done \in Nat /\ Done' \in Nat /\ Done' \in 1..Len(all)
      /\ \A i \in 1..Done' : i \in 1..Len(all) /\ (i \in 1..Done \/ i = Done')
  BY <1>1
<1>8. Sequences(SinglesAt(all), Field, Done')
  <2>1. Sequences(SinglesAt(all), Field, Len(all))
    BY <1>5, LinesTypes
  <2> QED
    BY <1>7, <2>1 DEF Sequences
<1>9. SinglesAt(all)[Done'] = SingleValue(all, Done') /\ line = all[Done']
  BY <1>1, <1>7 DEF SinglesAt, line
<1>10. ASSUME ReadBlank PROVE SinglesHere' = SinglesHere
  <2>1. line[1].blank
    BY <1>10 DEF ReadBlank, line
  <2>2. SinglesAt(all)[Done'] = <<>>
    BY <1>9, <2>1 DEF SingleValue
  <2> QED
    BY <1>1, <1>4, <1>7, <1>8, <2>2, FlatStays
<1>11. ASSUME ReadMeasurement
       PROVE  line[2] \in Field /\ SinglesHere' = SinglesHere \o <<line[2]>>
  <2>1. ~line[1].blank /\ ~Malformed(line)
    BY <1>11 DEF ReadMeasurement, line
  <2>2. \A i \in 1..Done' : ~all[i][1].blank => ~Malformed(all[i])
    BY <1>6, <1>7, <1>9, <2>1
  <2>3. SinglesAt(all)[Done'] = <<line[2]>>
    BY <1>9, <2>1, <2>2 DEF SingleValue
  <2>4. line[2] \in Field
    <3>1. Len(line) \in Nat \ {0} /\ \A i \in 1..Len(line) : line[i] \in Field
      BY <1>2, LineTypes
    <3>2. Len(line) >= 3
      BY <2>1, <3>1 DEF Malformed
    <3> QED
      BY <3>1, <3>2
  <2>5. Flat(SinglesAt(all), Done') = Flat(SinglesAt(all), Done) \o SinglesAt(all)[Done']
    BY <1>1, <1>7, <1>8, FlatGrows
  <2> QED
    BY <1>4, <2>3, <2>4, <2>5
<1> QED
  BY <1>1, <1>3, <1>10, <1>11 DEF line

\* SinglesKept is kept by every step.
LEMMA SinglesKeptStep ==
  ASSUME Types, Types', FileAtHand, LinesWereGood, PowerAtHand, SinglesKept, [Next]_vars
  PROVE  SinglesKept'
<1> DEFINE before0 == Flat(SinglesIn(measured), Judged)
<1>0. /\ Judged \in Nat /\ Judged <= Len(measured) /\ measured \in Seq(Reading)
      /\ before0 \in Seq(Field) /\ SinglesHere \in Seq(Field)
      /\ Agree(measured, measured, Judged)
  BY HeldTypes DEF Agree
<1>1. CASE FileDone
  <2>1. /\ ~Reads' /\ Judged' = Judged + 1
        /\ measured' \in Seq(Reading) /\ Len(measured') = Judged + 1
        /\ Agree(measured, measured', Judged)
        /\ c'.measurements = c.measurements
        /\ SinglesOf(measured'[Judged + 1]) = SinglesHere
    BY <1>1, FileEnds
  <2>2. SinglesHere' = <<>>
    BY <2>1 DEF SinglesHere
  <2> HIDE DEF Judged, SinglesHere
  <2>3. Flat(SinglesIn(measured'), Judged') = before0 \o SinglesHere
    <3>1. Judged' \in Nat
      BY <1>0, <2>1
    <3> QED
      BY <1>0, <2>1, <3>1, FileJudged
  <2> HIDE DEF before0
  <2>4. before0 \o SinglesHere \in Seq(Field)
    BY <1>0
  <2>5. (before0 \o SinglesHere) \o <<>> = before0 \o SinglesHere
    BY <2>4
  <2>6. Flat(SinglesIn(measured'), Judged') \o SinglesHere' = before0 \o SinglesHere
    BY <2>2, <2>3, <2>5
  <2> QED
    BY <2>1, <2>6 DEF SinglesKept, before0
<1>2. CASE (OpenFile /\ pc' = "read") \/ PowerEnds \/ GetFile \/ SkipFile \/ WriteCase
  <2>1. /\ Judged' = Judged /\ Judged <= Len(measured') /\ Agree(measured, measured', Judged)
        /\ c'.measurements = c.measurements /\ SinglesHere' = SinglesHere
    BY <1>2, NothingRead
  <2> QED
    BY <2>1, SinglesSame
<1>3. CASE PowerSample \/ ReadHeader \/ ReadItem
  <2>1. measured' = measured /\ (Reads' <=> Reads)
    BY <1>3 DEF PowerSample, ReadHeader, ReadItem, ReadLine, Reads
  <2>2. Judged' = Judged
    BY <2>1 DEF Judged
  <2>3. SinglesHere = <<>> /\ SinglesHere' = <<>>
    BY <1>3 DEF SinglesHere, PowerSample, ReadHeader, ReadItem, ReadLine, Reads
  <2>4. c'.measurements = c.measurements
    BY <1>3, PowerEffect, HeaderEffect, ItemEffect DEF OnlySeries
  <2> QED
    BY <1>0, <2>1, <2>2, <2>3, <2>4, SinglesSame
<1>4. CASE ReadBlank
  <2>1. Judged' = Judged /\ measured' = measured /\ SinglesHere' = SinglesHere /\ c' = c
    BY <1>4, SingleRead DEF ReadBlank
  <2> QED
    BY <1>0, <2>1, SinglesSame
<1>5. CASE ReadMeasurement
  <2> DEFINE field == Head(lines)[2]
  <2>1. /\ Judged' = Judged /\ measured' = measured
        /\ field \in Field /\ SinglesHere' = SinglesHere \o <<field>>
    BY <1>5, SingleRead
  <2>2. PICK m \in Single : OnlyMeasurements(Append(c.measurements, m)) /\ m.value = Double(field)
    BY <1>5, MeasurementEffect
  <2>3. c'.measurements = Append(c.measurements, m) /\ c.measurements \in Seq(Single)
    BY <2>2 DEF OnlyMeasurements, Types, Case
  <2> HIDE DEF field, before0, SinglesHere
  <2>4. before0 \o (SinglesHere \o <<field>>) = (before0 \o SinglesHere) \o <<field>>
        /\ before0 \o SinglesHere \in Seq(Field)
    BY <1>0, <2>1, ConcatAssociative
  <2>5. SameValues(c.measurements, before0 \o SinglesHere)
    BY DEF SinglesKept, before0
  <2>6. SameValues(Append(c.measurements, m), (before0 \o SinglesHere) \o <<field>>)
    BY <2>1, <2>2, <2>3, <2>4, <2>5, ValueAdded
  <2>7. SameValues(c'.measurements, Flat(SinglesIn(measured'), Judged') \o SinglesHere')
    BY <2>1, <2>3, <2>4, <2>6 DEF before0
  <2> QED
    BY <2>7 DEF SinglesKept
<1>6. CASE UNCHANGED vars
  BY <1>6 DEF vars, given, SinglesKept, SinglesHere, Judged, Reads, Done, Now
<1> QED
  BY <1>1, <1>2, <1>3, <1>4, <1>5, <1>6 DEF Next, FileDone

\* The series of the power measurement.
LEMMA PowerHeld ==
  ASSUME Types, PowerAtHand
  PROVE  SeriesWith(Flat(SamplesAt(power), PowerDone)) \in Seq(Seq(Field))
<1> DEFINE Y == Seq(Field)
           values == Flat(SamplesAt(power), PowerDone)
<1>1. power \in Seq(Line) /\ Len(power) \in Nat
  BY DEF Types
<1>2. PowerDone \in 0..Len(power)
  BY <1>1 DEF PowerAtHand, PowerDone
<1>3. Sequences(SamplesAt(power), Field, PowerDone)
  <2>1. Sequences(SamplesAt(power), Field, Len(power))
    BY <1>1, LinesTypes
  <2> HIDE DEF PowerDone
  <2>2. \A i \in 1..PowerDone : i \in 1..Len(power)
    BY <1>1, <1>2
  <2> QED
    BY <2>1, <2>2 DEF Sequences
<1>4. values \in Y
  <2> HIDE DEF PowerDone
  <2>1. PowerDone \in Nat
    BY <1>1, <1>2
  <2> QED
    BY <1>3, <2>1, FlatTypes
<1> HIDE DEF Y, values
<1>5. SeriesWith(values) \in Seq(Y)
  BY <1>4 DEF SeriesWith
<1> QED
  BY <1>5 DEF Y, values

\* A line of a series adds its value, if it has one.
LEMMA SeriesLineRead ==
  ASSUME Types, FileAtHand, LinesWereGood, ReadHeader \/ ReadItem
  PROVE  /\ Judged' = Judged /\ measured' = measured
         /\ ReadHeader => SeriesHere = <<>> /\ SeriesHere' = <<<<>>>>
         /\ ReadItem => \E values \in Seq(Field) :
                          /\ SeriesHere = <<values>>
                          /\ SeriesHere' = <<values \o ValueOf(Head(lines))>>
<1> DEFINE all == Now.content.lines
           line == Head(lines)
<1>1. /\ Reads /\ Reads' /\ file' = file /\ measured' = measured /\ Now' = Now
      /\ Done \in 0..Len(all) - 1 /\ Done' = Done + 1
      /\ Head(lines) = all[Done + 1] /\ Len(all) \in Nat
  BY LineRead DEF LineTaken
<1>2. file.series
  BY DEF ReadHeader, ReadItem, ReadLine
<1>3. Judged' = Judged
  BY <1>1 DEF Judged
<1>4. started' => SeriesHere' = <<Flat(ValuesAt(all), Done' - 1)>>
  BY <1>1, <1>2 DEF SeriesHere
<1>5. all \in Seq(Line)
  BY <1>1, HeldTypes
<1>6. ASSUME ReadHeader PROVE SeriesHere = <<>> /\ SeriesHere' = <<<<>>>>
  <2>1. ~started /\ started'
    BY <1>6 DEF ReadHeader
  <2>2. ~(Done >= 1)
    BY <1>1, <1>2, <2>1 DEF LinesWereGood
  <2>3. Done' - 1 = 0
    <3> HIDE DEF Done, all
    <3> QED
      BY <1>1, <2>2
  <2>4. Flat(ValuesAt(all), Done' - 1) = <<>>
    <3>1. \A e : Flat(e, 0) = <<>>
      BY FlatNone
    <3> HIDE DEF Done, all
    <3> QED
      BY <2>3, <3>1
  <2> QED
    BY <1>4, <2>1, <2>4 DEF SeriesHere
<1>7. ASSUME ReadItem
      PROVE  \E values \in Seq(Field) :
               /\ SeriesHere = <<values>> /\ SeriesHere' = <<values \o ValueOf(line)>>
  <2>1. started /\ started' = started
    BY <1>7 DEF ReadItem
  <2>2. Done >= 1
    BY <1>1, <1>2, <2>1 DEF LinesWereGood
  <2>3. SeriesHere = <<Flat(ValuesAt(all), Done - 1)>>
    BY <1>1, <1>2, <2>1 DEF SeriesHere
  <2>4. SeriesHere' = <<Flat(ValuesAt(all), Done' - 1)>>
    <3>1. started'
      BY <2>1
    <3> QED
      BY <1>4, <3>1
  <2> HIDE DEF Done, all, line
  <2>5. PICK n \in Nat, m \in Nat : n = Done - 1 /\ m = Done' - 1
    BY <1>1, <2>2
  <2>6. m = n + 1 /\ m = Done /\ m \in 1..Len(all) - 1 /\ \A i \in 1..m : i \in 1..Len(all) - 1
    BY <1>1, <2>2, <2>5
  <2>7. Sequences(ValuesAt(all), Field, m)
    <3>1. Sequences(ValuesAt(all), Field, Len(all) - 1)
      BY <1>5, LinesTypes
    <3> QED
      BY <2>6, <3>1 DEF Sequences
  <2>8. ValuesAt(all)[m] = ValueOf(line)
    BY <1>1, <2>6 DEF ValuesAt, line
  <2>9. /\ Flat(ValuesAt(all), n) \in Seq(Field)
        /\ Flat(ValuesAt(all), m) = Flat(ValuesAt(all), n) \o ValueOf(line)
    <3>1. /\ Flat(ValuesAt(all), n) \in Seq(Field)
          /\ Flat(ValuesAt(all), m) = Flat(ValuesAt(all), n) \o ValuesAt(all)[m]
      BY <2>6, <2>7, FlatGrows
    <3> QED
      BY <2>8, <3>1
  <2> QED
    BY <2>3, <2>4, <2>5, <2>9
<1> QED
  BY <1>1, <1>3, <1>6, <1>7 DEF line

\* Sequences of series, one after the other.
LEMMA SeriesSequences ==
  /\ <<>> \in Seq(Seq(Field))
  /\ \A p, q \in Seq(Seq(Field)) : p \o q \in Seq(Seq(Field)) /\ p \o <<>> = p /\ <<>> \o p = p
  /\ \A p, q, r \in Seq(Seq(Field)) : (p \o q) \o r = p \o (q \o r)
<1> DEFINE Y == Seq(Field)
<1> HIDE DEF Y
<1>1. /\ <<>> \in Seq(Y)
      /\ \A p, q \in Seq(Y) : p \o q \in Seq(Y) /\ p \o <<>> = p /\ <<>> \o p = p
  OBVIOUS
<1>2. \A p, q, r \in Seq(Y) : (p \o q) \o r = p \o (q \o r)
  BY ConcatAssociative
<1> QED
  BY <1>1, <1>2 DEF Y

\* A sample of the power measurement goes to its series.
LEMMA SampleKept ==
  ASSUME Types, Types', PowerAtHand, PowerHasNoLimit, SeriesKept, PowerSample
  PROVE  SeriesKept'
<1> DEFINE old == Flat(SamplesAt(power), PowerDone)
           new == Flat(SamplesAt(power'), PowerDone')
<1>1. /\ pc = "power" /\ pc' = "power" /\ power' = power /\ measured' = measured
      /\ old \in Seq(Field) /\ new = old \o SampleOf(Head(lines))
  BY PowerNext
<1>2. measured = <<>> /\ ~Reads /\ ~Reads'
  BY <1>1 DEF PowerHasNoLimit, Reads
<1>3. Judged = 0 /\ Judged' = 0
  BY <1>1, <1>2 DEF Judged
<1>4. /\ Flat(SeriesIn(measured), Judged) = <<>> /\ SeriesHere = <<>>
      /\ Flat(SeriesIn(measured'), Judged') = <<>> /\ SeriesHere' = <<>>
  <2>1. \A e : Flat(e, 0) = <<>>
    BY FlatNone
  <2> QED
    BY <1>2, <1>3, <2>1 DEF SeriesHere
<1>5. (started <=> old # <<>>) /\ c.series \in Seq(Series)
  BY <1>1 DEF PowerAtHand, Types, Case
<1> HIDE DEF old, new
<1>6. \A y \in Seq(Field) : (SeriesWith(y) \o <<>>) \o <<>> = SeriesWith(y)
  <2>1. \A y : <<y>> \o <<>> = <<y>>
    OBVIOUS
  <2>2. <<>> \o <<>> = <<>>
    OBVIOUS
  <2> QED
    BY <2>1, <2>2 DEF SeriesWith
<1>7. SameSeries(c.series, SeriesWith(old))
  BY <1>1, <1>4, <1>6 DEF SeriesKept, old
<1>8. \A y \in Seq(Field) : new = y /\ SameSeries(c'.series, SeriesWith(y)) => SeriesKept'
  BY <1>4, <1>6 DEF SeriesKept, new
<1>9. CASE c' = c /\ SampleOf(Head(lines)) = <<>>
  <2>1. new = old
    BY <1>1, <1>9
  <2> QED
    BY <1>1, <1>7, <1>8, <1>9, <2>1
<1>10. ASSUME NEW field \in Field, NEW list \in Seq(Series),
              SampleOf(Head(lines)) = <<field>>, OnlySeries(list),
              ItemAdded(IF started THEN c.series ELSE Append(c.series, NewSeries), list, field)
       PROVE  SeriesKept'
  <2> DEFINE more == old \o <<field>>
             had == IF started THEN c.series ELSE Append(c.series, NewSeries)
  <2>1. more \in Seq(Field) /\ more # <<>> /\ new = more
    <3>1. \A y \in Seq(Field) : y \o <<field>> \in Seq(Field) /\ y \o <<field>> # <<>>
      OBVIOUS
    <3> QED
      BY <1>1, <1>10, <3>1
  <2>2. had \in Seq(Series)
    BY <1>5, DoubleTypes
  <2>3. SameSeries(had, <<>> \o <<old>>)
    <3>1. CASE started
      <4>1. SeriesWith(old) = <<>> \o <<old>>
        BY <1>5, <3>1 DEF SeriesWith
      <4> QED
        BY <1>7, <3>1, <4>1
    <3>2. CASE ~started
      <4>1. old = <<>> /\ SeriesWith(old) = <<>> /\ NewSeries \in Series /\ NewSeries.items = <<>>
        BY <1>5, <3>2, DoubleTypes DEF SeriesWith
      <4>2. SameSeries(c.series, <<>>)
        BY <1>7, <4>1
      <4>3. SameSeries(Append(c.series, NewSeries), <<>> \o <<<<>>>>)
        BY <1>5, <4>1, <4>2, SeriesAdded, SeriesSequences
      <4> QED
        BY <3>2, <4>1, <4>3
    <3> QED
      BY <3>1, <3>2
  <2> HIDE DEF had
  <2>4. ItemAdded(had, list, field)
    BY <1>10 DEF had
  <2>5. SameSeries(list, <<>> \o <<more>>)
    BY <1>1, <2>2, <2>3, <2>4, ItemIn, SeriesSequences
  <2>6. <<>> \o <<more>> = SeriesWith(more) /\ c'.series = list
    BY <1>10, <2>1 DEF SeriesWith, OnlySeries
  <2> HIDE DEF more
  <2> QED
    BY <1>8, <2>1, <2>5, <2>6
<1> QED
  BY <1>9, <1>10, PowerEffect

\* SeriesKept is kept by every step.
LEMMA SeriesKeptStep ==
  ASSUME Types, Types', FileAtHand, LinesWereGood, PowerAtHand, PowerHasNoLimit, SeriesKept,
         [Next]_vars
  PROVE  SeriesKept'
<1> DEFINE samples == SeriesWith(Flat(SamplesAt(power), PowerDone))
           files == Flat(SeriesIn(measured), Judged)
<1>0. /\ Judged \in Nat /\ Judged <= Len(measured) /\ measured \in Seq(Reading)
      /\ files \in Seq(Seq(Field)) /\ SeriesHere \in Seq(Seq(Field))
      /\ Agree(measured, measured, Judged) /\ samples \in Seq(Seq(Field))
      /\ c.series \in Seq(Series)
  BY HeldTypes, PowerHeld DEF Agree, Types, Case
<1>1. CASE FileDone
  <2>1. /\ ~Reads' /\ Judged' = Judged + 1 /\ pc # "power" /\ pc' # "power" /\ power' = power
        /\ measured' \in Seq(Reading) /\ Len(measured') = Judged + 1
        /\ Agree(measured, measured', Judged) /\ c'.series = c.series
        /\ SeriesOf(measured'[Judged + 1]) = SeriesHere
    BY <1>1, FileEnds
  <2>2. SeriesHere' = <<>> /\ PowerDone' = PowerDone
    BY <2>1 DEF SeriesHere, PowerDone
  <2> HIDE DEF Judged, SeriesHere
  <2>3. Flat(SeriesIn(measured'), Judged') = files \o SeriesHere
    <3>1. Judged' \in Nat
      BY <1>0, <2>1
    <3> QED
      BY <1>0, <2>1, <3>1, FileJudged
  <2>4. SeriesWith(Flat(SamplesAt(power'), PowerDone')) = samples
    BY <2>1, <2>2
  <2> HIDE DEF samples, files, PowerDone
  <2>5. (samples \o (files \o SeriesHere)) \o <<>> = (samples \o files) \o SeriesHere
    <3>1. (samples \o files) \o SeriesHere = samples \o (files \o SeriesHere)
      BY <1>0, SeriesSequences
    <3>2. samples \o files \in Seq(Seq(Field))
      BY <1>0, SeriesSequences
    <3>3. (samples \o files) \o SeriesHere \in Seq(Seq(Field))
      BY <1>0, <3>2, SeriesSequences
    <3>4. ((samples \o files) \o SeriesHere) \o <<>> = (samples \o files) \o SeriesHere
      BY <3>3, SeriesSequences
    <3> QED
      BY <3>1, <3>4
  <2>6. SameSeries(c.series, (samples \o files) \o SeriesHere)
    BY DEF SeriesKept, samples, files
  <2> QED
    BY <2>1, <2>2, <2>3, <2>4, <2>5, <2>6 DEF SeriesKept
<1>2. CASE (OpenFile /\ pc' = "read") \/ PowerEnds \/ GetFile \/ SkipFile \/ WriteCase
  <2>1. /\ Judged' = Judged /\ Judged <= Len(measured') /\ Agree(measured, measured', Judged)
        /\ c'.series = c.series /\ SeriesHere' = SeriesHere
        /\ power' = power /\ PowerDone' = PowerDone
    BY <1>2, NothingRead
  <2> QED
    BY <2>1, SeriesSame
<1>3. CASE PowerSample
  BY <1>3, SampleKept
<1>4. CASE ReadBlank \/ ReadMeasurement
  <2>1. /\ Judged' = Judged /\ measured' = measured
    BY <1>4, SingleRead
  <2>2. SeriesHere = <<>> /\ SeriesHere' = <<>>
    BY <1>4 DEF SeriesHere, ReadBlank, ReadMeasurement, ReadLine
  <2>3. c'.series = c.series
    BY <1>4, MeasurementEffect DEF OnlyMeasurements, ReadBlank
  <2>4. power' = power /\ PowerDone' = PowerDone
    BY <1>4 DEF ReadBlank, ReadMeasurement, ReadLine, PowerDone, given
  <2> QED
    BY <1>0, <2>1, <2>2, <2>3, <2>4, SeriesSame
<1>5. CASE ReadHeader \/ ReadItem
  <2> DEFINE first == samples \o files
  <2>1. Judged' = Judged /\ measured' = measured /\ power' = power /\ PowerDone' = PowerDone
    BY <1>5, SeriesLineRead DEF ReadHeader, ReadItem, ReadLine, PowerDone, given
  <2>2. first \in Seq(Seq(Field)) /\ SameSeries(c.series, first \o SeriesHere)
    <3>1. SameSeries(c.series, first \o SeriesHere)
      BY DEF SeriesKept
    <3> HIDE DEF samples, files
    <3> QED
      BY <1>0, <3>1, SeriesSequences
  <2>3. SameSeries(c'.series, first \o SeriesHere') => SeriesKept'
    BY <2>1 DEF SeriesKept
  <2> HIDE DEF samples, files, first, SeriesHere
  <2>4. CASE ReadHeader
    <3>1. SeriesHere = <<>> /\ SeriesHere' = <<<<>>>>
      BY <2>4, SeriesLineRead
    <3>2. PICK s \in Series : OnlySeries(Append(c.series, s)) /\ s.items = <<>>
      BY <2>4, HeaderEffect
    <3>3. SameSeries(c.series, first)
      BY <2>2, <3>1, SeriesSequences
    <3>4. SameSeries(Append(c.series, s), first \o <<<<>>>>)
      BY <1>0, <2>2, <3>2, <3>3, SeriesAdded
    <3> QED
      BY <2>3, <3>1, <3>2, <3>4 DEF OnlySeries
  <2>5. CASE ReadItem
    <3>1. PICK values \in Seq(Field) :
            SeriesHere = <<values>> /\ SeriesHere' = <<values \o ValueOf(Head(lines))>>
      BY <2>5, SeriesLineRead
    <3>2. CASE c' = c /\ ValueOf(Head(lines)) = <<>>
      <4>1. values \o <<>> = values
        OBVIOUS
      <4>2. SeriesHere' = SeriesHere
        BY <3>1, <3>2, <4>1
      <4> QED
        BY <2>2, <2>3, <3>2, <4>2
    <3>3. ASSUME NEW field \in Field, NEW list \in Seq(Series),
                 ValueOf(Head(lines)) = <<field>>, OnlySeries(list),
                 ItemAdded(c.series, list, field)
          PROVE  SeriesKept'
      <4>1. SameSeries(c.series, first \o <<values>>)
        BY <2>2, <3>1
      <4>2. SameSeries(list, first \o <<values \o <<field>>>>)
        BY <1>0, <2>2, <3>3, <4>1, ItemIn
      <4> QED
        BY <2>3, <3>1, <3>3, <4>2 DEF OnlySeries
    <3> QED
      BY <2>5, <3>2, <3>3, ItemEffect
  <2> QED
    BY <1>5, <2>4, <2>5
<1>6. CASE UNCHANGED vars
  BY <1>6 DEF vars, given, SeriesKept, SeriesHere, PowerDone, Judged, Reads, Done, Now
<1> QED
  BY <1>1, <1>2, <1>3, <1>4, <1>5, <1>6 DEF Next, FileDone

\* WrittenOnce is kept by every step: the case is written by the last one.
LEMMA WrittenOnceStep ==
  ASSUME Types, WrittenOnce, [Next]_vars
  PROVE  WrittenOnce'
<1>1. c \in Case /\ ~c.filtered /\ ~c.described
  BY DEF Types, WrittenOnce
<1>2. CASE WriteCase
  <2>1. c' = c /\ w' = xml_write_case(w, c) /\ w = NewWriter /\ pc' = "done"
    BY <1>2 DEF WriteCase, WrittenOnce
  <2>2. w'.out = CaseEntries(c)
    BY <1>1, <2>1, CaseWritten
  <2> QED
    BY <1>1, <2>1, <2>2 DEF WrittenOnce
<1>3. ASSUME Next, ~WriteCase
      PROVE  w' = w /\ pc # "done" /\ pc' # "done"
  BY <1>3 DEF Next, PowerSample, PowerEnds, GetFile, SkipFile, OpenFile, Judge, ReadLine,
              ReadBlank, ReadMeasurement, ReadMalformed, ReadHeader, ReadItem, EndOfFile
<1>4. ASSUME Next, ~WriteCase
      PROVE  ~c'.filtered /\ ~c'.described
  <2>1. CASE PowerSample
    BY <1>1, <2>1 DEF PowerSample, Case
  <2>2. CASE PowerEnds \/ GetFile \/ SkipFile \/ ReadBlank
    BY <1>1, <2>2 DEF PowerEnds, GetFile, SkipFile, ReadBlank
  <2>3. CASE OpenFile \/ ReadMalformed \/ EndOfFile
    BY <1>1, <2>3 DEF OpenFile, ReadMalformed, EndOfFile, Judge, Case
  <2>4. CASE ReadMeasurement
    BY <1>1, <2>4 DEF ReadMeasurement, Case
  <2>5. CASE ReadHeader
    BY <1>1, <2>5 DEF ReadHeader, Case
  <2>6. CASE ReadItem
    BY <1>1, <2>6 DEF ReadItem, Case
  <2> QED
    BY <1>4, <2>1, <2>2, <2>3, <2>4, <2>5, <2>6 DEF Next
<1>5. CASE UNCHANGED vars
  BY <1>5 DEF vars, WrittenOnce
<1> QED
  BY <1>2, <1>3, <1>4, <1>5 DEF WrittenOnce

\* What the values of lists that hold the same are written as.
LEMMA EntriesArePaths ==
  ASSUME NEW open, NEW list, NEW fields \in Seq(Field), SameValues(list, fields)
  PROVE  Entries(open, list) = Paths(open, fields)
<1>1. /\ Len(list) = Len(fields) /\ DOMAIN fields = 1..Len(fields)
      /\ \A i \in 1..Len(fields) : list[i].value = Double(fields[i])
  BY DEF SameValues
<1>2. Entries(open, list) = [i \in 1..Len(fields) |-> MeasurementPath(open, list[i])]
  BY <1>1 DEF Entries
<1>3. \A i \in 1..Len(fields) :
        MeasurementPath(open, list[i]) = Append(open, Element("measurement", Double(fields[i])))
  BY <1>1 DEF MeasurementPath
<1> QED
  BY <1>1, <1>2, <1>3 DEF Paths

\* The invariant with the report.
ReportInv == IInv /\ PowerAtHand /\ SinglesKept /\ SeriesKept /\ WrittenOnce

\* It holds at first,
LEMMA ReportInvInit == Init => ReportInv
<1> SUFFICES ASSUME Init PROVE ReportInv
  OBVIOUS
<1>1. IInv
  BY IInvInit
<1>2. /\ pc = "power" /\ ~Reads /\ measured = <<>> /\ c = NewCase(before) /\ ~started
      /\ lines = power /\ w = NewWriter /\ power \in Seq(Line)
  BY <1>1 DEF Init, Reads, IInv, Types
<1>3. /\ c.measurements = <<>> /\ c.series = <<>> /\ ~c.filtered /\ ~c.described
  BY <1>2 DEF NewCase
<1>4. Judged = 0 /\ PowerDone = 0 /\ SinglesHere = <<>> /\ SeriesHere = <<>> /\ Len(power) \in Nat
  BY <1>2 DEF Judged, PowerDone, SinglesHere, SeriesHere
<1>5. \A e : Flat(e, 0) = <<>>
  BY FlatNone
<1>6. PowerAtHand
  <2>1. PowerDone \in 0..Len(power) /\ \A i \in 1..Len(lines) : lines[i] = power[PowerDone + i]
    BY <1>2, <1>4
  <2> QED
    BY <1>2, <1>4, <1>5, <2>1 DEF PowerAtHand
<1>7. SinglesKept
  <2>1. <<>> \o <<>> = <<>> /\ SameValues(<<>>, <<>>)
    BY DEF SameValues
  <2> QED
    BY <1>3, <1>4, <1>5, <2>1 DEF SinglesKept
<1>8. SeriesKept
  <2>1. <<>> \o <<>> = <<>> /\ SameSeries(<<>>, <<>>)
    BY DEF SameSeries
  <2> QED
    BY <1>3, <1>4, <1>5, <2>1 DEF SeriesKept, SeriesWith
<1>9. WrittenOnce
  BY <1>2, <1>3 DEF WrittenOnce
<1> QED
  BY <1>1, <1>6, <1>7, <1>8, <1>9 DEF ReportInv

\* is kept by every step,
LEMMA ReportInvStep == ReportInv /\ [Next]_vars => ReportInv'
<1> SUFFICES ASSUME ReportInv, [Next]_vars PROVE ReportInv'
  OBVIOUS
<1>1. IInv'
  BY IInvStep DEF ReportInv
<1> QED
  BY <1>1, PowerAtHandStep, SinglesKeptStep, SeriesKeptStep, WrittenOnceStep DEF ReportInv, IInv

\* and says of a written case that its report is what was read.
LEMMA ReportHasAll == ReportInv => EveryValueIsReported
<1> SUFFICES ASSUME ReportInv, pc = "done" PROVE EveryValueIsReported
  BY DEF EveryValueIsReported
<1> DEFINE all == SeriesInOrder
           singles == SingleValues
           last == FlattenSeq([i \in DOMAIN all |-> SeriesPaths(all[i])])
<1>1. /\ measured \in Seq(Reading) /\ power \in Seq(Line) /\ c.measurements \in Seq(Single)
      /\ c.series \in Seq(Series) /\ w.out = CaseEntries(c)
  BY DEF ReportInv, IInv, Types, Case, WrittenOnce
<1>2. /\ Judged = Len(measured) /\ PowerDone = Len(power)
      /\ SinglesHere = <<>> /\ SeriesHere = <<>>
  BY DEF Judged, PowerDone, SinglesHere, SeriesHere, Reads
<1>3. /\ Flat(SinglesIn(measured), Len(measured)) \in Seq(Field)
      /\ Flat(SeriesIn(measured), Len(measured)) \in Seq(Seq(Field))
      /\ SeriesWith(Flat(SamplesAt(power), Len(power))) \in Seq(Seq(Field))
  BY <1>2, HeldTypes, PowerHeld DEF ReportInv, IInv
<1>4. singles = Flat(SinglesIn(measured), Len(measured))
  <2>1. DOMAIN measured = 1..Len(measured)
    BY <1>1
  <2> QED
    BY <2>1 DEF SingleValues, Flat, SinglesIn
<1>5. all = SeriesWith(Flat(SamplesAt(power), Len(power)))
              \o Flat(SeriesIn(measured), Len(measured))
  <2>1. DOMAIN measured = 1..Len(measured) /\ DOMAIN power = 1..Len(power)
    BY <1>1
  <2>2. Samples = Flat(SamplesAt(power), Len(power))
    BY <2>1 DEF Samples, Flat, SamplesAt
  <2>3. FlattenSeq([i \in DOMAIN measured |-> SeriesOf(measured[i])])
          = Flat(SeriesIn(measured), Len(measured))
    BY <2>1 DEF Flat, SeriesIn
  <2> QED
    BY <2>2, <2>3 DEF SeriesInOrder, SeriesWith
<1> HIDE DEF all, singles
<1>6. singles \in Seq(Field) /\ SameValues(c.measurements, singles)
  <2>1. singles \o <<>> = singles /\ singles \in Seq(Field)
    BY <1>3, <1>4
  <2> QED
    BY <1>2, <1>4, <2>1 DEF ReportInv, SinglesKept
<1>7. all \in Seq(Seq(Field)) /\ SameSeries(c.series, all)
  <2>1. all \in Seq(Seq(Field))
    BY <1>3, <1>5, SeriesSequences
  <2>2. all \o <<>> = all
    BY <2>1, SeriesSequences
  <2> QED
    BY <1>2, <1>5, <2>1, <2>2 DEF ReportInv, SeriesKept
<1>8. Entries(TheCase, c.measurements) = Paths(TheCase, singles)
  BY <1>6, EntriesArePaths
<1>9. Flat(AllEntries(TheCase, c.series), Len(c.series)) = last
  <2>1. /\ Len(c.series) = Len(all) /\ DOMAIN all = 1..Len(all)
        /\ \A i \in 1..Len(all) : SameValues(c.series[i].items, all[i]) /\ all[i] \in Seq(Field)
    <3> DEFINE Y == Seq(Field)
    <3>1. all \in Seq(Y)
      BY <1>7
    <3> HIDE DEF Y
    <3>2. DOMAIN all = 1..Len(all) /\ \A i \in 1..Len(all) : all[i] \in Y
      BY <3>1
    <3> QED
      BY <1>7, <3>2 DEF SameSeries, Y
  <2>2. ASSUME NEW i \in 1..Len(all)
        PROVE  SeriesEntries(TheCase, c.series[i]) = SeriesPaths(all[i])
    <3>1. Entries(TheSeries, c.series[i].items) = Paths(TheSeries, all[i])
      BY <2>1, EntriesArePaths
    <3> QED
      BY <3>1 DEF SeriesEntries, SeriesPaths, TheSeries
  <2>3. [i \in 1..Len(c.series) |-> AllEntries(TheCase, c.series)[i]]
          = [i \in DOMAIN all |-> SeriesPaths(all[i])]
    BY <2>1, <2>2 DEF AllEntries
  <2> QED
    BY <2>3 DEF Flat
<1> HIDE DEF last
<1>10. w.out = (<<TheCase>> \o Paths(TheCase, singles)) \o last
  BY <1>1, <1>8, <1>9 DEF CaseEntries, TheCase
<1> QED
  BY <1>10 DEF EveryValueIsReported, all, singles, last

\* All values that were read are in the report, under their case and series and in
\* their order: process_get_case(), testmeasurement.c and xml_write_case().
THEOREM EveryValueIsReportedAlways == Spec => []EveryValueIsReported
<1> QED
  BY ReportInvInit, ReportInvStep, ReportHasAll, PTL DEF Spec
=============================================================================
