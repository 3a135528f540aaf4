----------------------------- MODULE FoldProofs -----------------------------
(***************************************************************************)
(* Induction over numbers, stated with sets so that it can be cited, and    *)
(* what it says of FoldLeft: the folds of the project are defined, and are  *)
(* computed one element after the other.                                    *)
(***************************************************************************)
EXTENDS Integers, Sequences, SequencesExt, WellFoundedInduction, TLAPS

\* A non-empty set of numbers has a least element.
LEMMA LeastNumber ==
  ASSUME NEW T \in SUBSET Nat, T # {}
  PROVE  \E x \in T : \A y \in T : x <= y
<1> DEFINE R == {p \in Nat \X Nat : p[1] < p[2]}
<1>1. IsWellFoundedOn(R, Nat)
  BY NatLessThanWellFounded DEF OpToRel
<1>2. \A x, y \in Nat : <<x, y>> \in R <=> x < y
  OBVIOUS
<1> HIDE DEF R
<1>3. PICK x \in T : \A y \in T : ~(<<y, x>> \in R)
  BY <1>1, WFMin
<1>4. \A y \in T : ~(y < x)
  BY <1>2, <1>3
<1> QED BY <1>4

\* Induction over an interval.
LEMMA IntervalInduction ==
  ASSUME NEW n \in Nat, NEW S, 0 \in S, \A i \in 1 .. n : i - 1 \in S => i \in S
  PROVE  \A i \in 0 .. n : i \in S
<1> SUFFICES ASSUME NEW k \in 0 .. n, k \notin S PROVE FALSE
  OBVIOUS
<1> DEFINE T == {i \in 0 .. n : i \notin S}
<1>1. T \in SUBSET Nat /\ T # {}
  OBVIOUS
<1>2. PICK x \in T : \A y \in T : x <= y
  <2> HIDE DEF T
  <2> QED BY <1>1, LeastNumber
<1>3. x \in 1 .. n /\ x - 1 \in 0 .. n
  BY <1>2
<1>4. x - 1 \in S
  BY <1>2, <1>3
<1> QED BY <1>2, <1>3, <1>4

\* The largest of some numbers up to n that include n.
LEMMA MaxIsLast ==
  ASSUME NEW n \in Nat, NEW s \in SUBSET (1 .. n), n \in s
  PROVE  Max(s) = n
<1>1. \A y \in s : n >= y
  OBVIOUS
<1>2. \A x \in s : (\A y \in s : x >= y) => x = n
  OBVIOUS
<1> QED BY <1>1, <1>2 DEF Max

\* A set of numbers between 1 and n has a largest element.
LEMMA LargestExists ==
  ASSUME NEW n \in Nat, NEW s \in SUBSET (1 .. n), s # {}
  PROVE  \E x \in s : \A y \in s : y <= x
<1> DEFINE S == {i \in 0 .. n : \A r \in SUBSET (1 .. i) :
                                  r # {} => \E x \in r : \A y \in r : y <= x}
<1>1. 0 \in S
  <2>1. \A r \in SUBSET (1 .. 0) : r = {}
    OBVIOUS
  <2>2. 0 \in 0 .. n
    OBVIOUS
  <2> QED BY <2>1, <2>2
<1>2. ASSUME NEW i \in 1 .. n, i - 1 \in S PROVE i \in S
  <2> SUFFICES ASSUME NEW r \in SUBSET (1 .. i), r # {}
               PROVE  \E x \in r : \A y \in r : y <= x
    BY <1>2
  <2>1. CASE i \in r
    BY <2>1
  <2>2. CASE i \notin r
    <3>1. r \in SUBSET (1 .. (i - 1))
      BY <2>2
    <3> QED BY <3>1, <1>2
  <2> QED BY <2>1, <2>2
<1> HIDE DEF S
<1>3. n \in S
  BY <1>1, <1>2, IntervalInduction
<1> QED BY <1>3 DEF S

\* Max names it.
LEMMA MaxExists ==
  ASSUME NEW n \in Nat, NEW s \in SUBSET (1 .. n), s # {}
  PROVE  Max(s) \in s
<1>1. \E x \in s : \A y \in s : x >= y
  BY LargestExists
<1> QED BY <1>1 DEF Max

\* The fold over a table of steps: F[<<x, i>>] is what the i-th element makes of x.
IsIter(it, n, base, F) ==
  it = [s \in SUBSET (1 .. n) |->
          IF s = {} THEN base ELSE F[<<it[s \ {Max(s)}], Max(s)>>]]

\* Such a fold exists.
LEMMA IterExists ==
  ASSUME NEW n \in Nat, NEW X, NEW F \in [X \X (1 .. n) -> X], NEW base \in X
  PROVE  \E it \in [SUBSET (1 .. n) -> X] : IsIter(it, n, base, F)
<1> DEFINE S == {i \in 0 .. n : \E it \in [SUBSET (1 .. i) -> X] : IsIter(it, i, base, F)}
<1>1. 0 \in S
  <2> DEFINE it == [s \in SUBSET (1 .. 0) |-> base]
  <2>1. \A s \in SUBSET (1 .. 0) : s = {}
    OBVIOUS
  <2>2. it \in [SUBSET (1 .. 0) -> X] /\ IsIter(it, 0, base, F)
    BY <2>1 DEF IsIter
  <2> QED BY <2>2
<1>2. ASSUME NEW i \in 1 .. n, i - 1 \in S PROVE i \in S
  <2>1. PICK u \in [SUBSET (1 .. (i - 1)) -> X] : IsIter(u, i - 1, base, F)
    BY <1>2
  <2> DEFINE it == [s \in SUBSET (1 .. i) |->
                      IF i \in s THEN F[<<u[s \ {i}], i>>] ELSE u[s]]
  <2>2. ASSUME NEW s \in SUBSET (1 .. i)
        PROVE  /\ i \in s => s \ {i} \in SUBSET (1 .. (i - 1)) /\ Max(s) = i
               /\ i \notin s => s \in SUBSET (1 .. (i - 1))
    BY MaxIsLast
  <2>3. it \in [SUBSET (1 .. i) -> X]
    BY <2>2
  <2>4. ASSUME NEW s \in SUBSET (1 .. i)
        PROVE  it[s] = IF s = {} THEN base ELSE F[<<it[s \ {Max(s)}], Max(s)>>]
    <3>1. CASE i \in s
      <4>1. it[s] = F[<<u[s \ {i}], i>>]
        BY <3>1
      <4>2. it[s \ {i}] = u[s \ {i}]
        OBVIOUS
      <4> QED BY <3>1, <4>1, <4>2, <2>2
    <3>2. CASE i \notin s
      <4>1. s \in SUBSET (1 .. (i - 1)) /\ it[s] = u[s]
        BY <2>2, <3>2
      <4>2. u[s] = IF s = {} THEN base ELSE F[<<u[s \ {Max(s)}], Max(s)>>]
        BY <4>1, <2>1 DEF IsIter
      <4>3. it[s \ {Max(s)}] = u[s \ {Max(s)}]
        BY <3>2
      <4> QED BY <4>1, <4>2, <4>3
    <3> QED BY <3>1, <3>2
  <2>5. IsIter(it, i, base, F)
    <3> HIDE DEF it
    <3> QED BY <2>3, <2>4 DEF IsIter
  <2> HIDE DEF it
  <2> QED BY <2>3, <2>5
<1> HIDE DEF S
<1>3. n \in S
  BY <1>1, <1>2, IntervalInduction
<1> QED BY <1>3 DEF S

\* The intermediate results of a fold, one after the other.
IsRun(g, n, base, F) ==
  g[0] = base /\ \A i \in 1 .. n : g[i] = F[<<g[i - 1], i>>]

\* The fold ends with the last intermediate result.
LEMMA IterRun ==
  ASSUME NEW n \in Nat, NEW X, NEW F \in [X \X (1 .. n) -> X], NEW base \in X
  PROVE  \E it \in [SUBSET (1 .. n) -> X], g \in [0 .. n -> X] :
           IsIter(it, n, base, F) /\ IsRun(g, n, base, F) /\ g[n] = it[1 .. n]
<1>1. PICK it \in [SUBSET (1 .. n) -> X] : IsIter(it, n, base, F)
  BY IterExists
<1> DEFINE g == [i \in 0 .. n |-> it[1 .. i]]
<1>2. \A i \in 0 .. n : 1 .. i \in SUBSET (1 .. n)
  OBVIOUS
<1>3. g \in [0 .. n -> X] /\ g[n] = it[1 .. n]
  BY <1>2
<1>4. g[0] = base
  <2>1. 1 .. 0 = {}
    OBVIOUS
  <2> QED BY <2>1, <1>1, <1>2 DEF IsIter
<1>5. ASSUME NEW i \in 1 .. n PROVE g[i] = F[<<g[i - 1], i>>]
  <2>1. /\ 1 .. i \in SUBSET (1 .. i) /\ i \in 1 .. i /\ i \in Nat /\ i \in 0 .. n
        /\ i - 1 \in 0 .. n
    OBVIOUS
  <2>2. Max(1 .. i) = i
    BY <2>1, MaxIsLast
  <2>3. (1 .. i) \ {i} = 1 .. (i - 1)
    OBVIOUS
  <2>4. it[1 .. i] = F[<<it[(1 .. i) \ {Max(1 .. i)}], Max(1 .. i)>>]
    BY <1>1, <1>2, <2>1 DEF IsIter
  <2> QED BY <2>1, <2>2, <2>3, <2>4
<1>6. IsRun(g, n, base, F)
  <2> HIDE DEF g
  <2> QED BY <1>4, <1>5 DEF IsRun
<1> HIDE DEF g
<1> QED BY <1>1, <1>3, <1>6

\* Whatever follows the intermediate results step by step ends with the last.
LEMMA FollowsRun ==
  ASSUME NEW n \in Nat, NEW it, NEW g, it[{}] = g[0],
         \A i \in 1 .. n : it[1 .. (i - 1)] = g[i - 1] => it[1 .. i] = g[i]
  PROVE  it[1 .. n] = g[n]
<1> DEFINE S == {i \in 0 .. n : it[1 .. i] = g[i]}
<1>1. 0 \in S
  <2>1. 1 .. 0 = {}
    OBVIOUS
  <2> QED BY <2>1
<1>2. \A i \in 1 .. n : i - 1 \in S => i \in S
  OBVIOUS
<1> HIDE DEF S
<1>3. n \in S
  BY <1>1, <1>2, IntervalInduction
<1> QED BY <1>3 DEF S

\* A function on sets of positions takes the steps of a table from base.
TakesSteps(it, n, X, base, F) ==
  /\ it[{}] = base
  /\ \A i \in 1 .. n :
       it[1 .. (i - 1)] \in X => it[1 .. i] = F[<<it[1 .. (i - 1)], i>>]

\* A table of steps on X, and a value it leads to from base.
IsTable(F, n, X) == n \in Nat /\ F \in [X \X (1 .. n) -> X]

LeadsTo(n, X, base, F, v) ==
  \E g \in [0 .. n -> X] : IsRun(g, n, base, F) /\ v = g[n]

\* Such a function ends with the last intermediate result.
LEMMA TableFold ==
  ASSUME NEW n, NEW X, NEW F, IsTable(F, n, X), NEW base \in X,
         NEW it, TakesSteps(it, n, X, base, F)
  PROVE  LeadsTo(n, X, base, F, it[1 .. n])
<1> USE DEF IsTable
<1>1. PICK g \in [0 .. n -> X] : IsRun(g, n, base, F)
  BY IterRun
<1>2. \A i \in 1 .. n : it[1 .. (i - 1)] = g[i - 1] => it[1 .. i] = g[i]
  <2> SUFFICES ASSUME NEW i \in 1 .. n, it[1 .. (i - 1)] = g[i - 1]
               PROVE  it[1 .. i] = g[i]
    OBVIOUS
  <2>1. i - 1 \in 0 .. n
    OBVIOUS
  <2>2. g[i - 1] \in X
    BY <2>1
  <2> QED BY <2>2, <1>1 DEF IsRun, TakesSteps
<1>3. it[{}] = g[0]
  BY <1>1 DEF IsRun, TakesSteps
<1>4. it[1 .. n] = g[n]
  BY <1>2, <1>3, FollowsRun
<1> QED BY <1>1, <1>4 DEF LeadsTo

\* The last element of 1 .. i, and what is left without it.
LEMMA LastOfInterval ==
  ASSUME NEW n \in Nat, NEW i \in 1 .. n
  PROVE  /\ 1 .. i \in SUBSET (1 .. n) /\ 1 .. i # {} /\ i \in Nat
         /\ Max(1 .. i) = i
         /\ (1 .. i) \ {Max(1 .. i)} = 1 .. (i - 1)
<1>1. /\ 1 .. i \in SUBSET (1 .. i) /\ i \in 1 .. i /\ i \in Nat
      /\ 1 .. i \in SUBSET (1 .. n)
  OBVIOUS
<1>2. Max(1 .. i) = i
  BY <1>1, MaxIsLast
<1>3. (1 .. i) \ {i} = 1 .. (i - 1)
  OBVIOUS
<1> QED BY <1>1, <1>2, <1>3
=============================================================================
