---------------------------- MODULE SearchProofs ----------------------------
(***************************************************************************)
(* Proofs of Search, for every roster, playbook, board and sample, every   *)
(* number of slices, and every budget of the local search: the six is      *)
(* legal, the way the rounds were split is invisible, and the answer is    *)
(* the first of all scored and of its neighbours two seats away.           *)
(*                                                                         *)
(* Three facts about the operators come first, each by induction over the  *)
(* subsets of a finite set (AllSubsets, from the least natural): the sums  *)
(* of MapThenSumSet over two sets that share nothing add up (TotalApart),  *)
(* rank()'s order is strict and total on a board's verdicts, so Best finds *)
(* the one that heads them (AboveOrder, BestHeads), and bounds that fit    *)
(* two lists widen into bounds that fit both (WidenFits).  Then SearchInv: *)
(* while a round is under way the bounds, the standing and the field are   *)
(* those of the slices already seen (OnScale, Counted), and in the local   *)
(* search the first of everything known has had its swaps tried or its     *)
(* turn is to come (Climbed), which no promise says and the last one needs.*)
(* One lemma a step, then the three theorems.                              *)
(***************************************************************************)
EXTENDS Search, TLAPS, FiniteSetTheorems, WellFoundedInduction

-----------------------------------------------------------------------------
(* Induction. *)

\* A set of naturals has a least element.
LEMMA LeastNat == \A T \in SUBSET Nat : T # {} => \E x \in T : \A y \in T : x <= y
<1> SUFFICES ASSUME NEW T \in SUBSET Nat, T # {} PROVE \E x \in T : \A y \in T : x <= y
  OBVIOUS
<1>1. IsWellFoundedOn(OpToRel(<, Nat), Nat)
  BY NatLessThanWellFounded
<1>2. PICK x \in T : \A y \in T : ~(<<y, x>> \in OpToRel(<, Nat))
  BY <1>1, WFMin
<1>3. \A y \in T : ~(y < x)
  BY <1>2 DEF OpToRel
<1> QED BY <1>3

\* What holds of 0 and goes from each number to the next holds up to N.
LEMMA Upwards ==
    ASSUME NEW N \in Nat, NEW S, 0 \in S, \A n \in 0..N - 1 : n \in S => n + 1 \in S
    PROVE  0..N \subseteq S
<1> SUFFICES ASSUME 0..N \ S # {} PROVE FALSE
  OBVIOUS
<1>1. PICK x \in 0..N \ S : \A y \in 0..N \ S : x <= y
  <2>1. 0..N \ S \in SUBSET Nat
    OBVIOUS
  <2> QED BY <2>1, LeastNat, Zenon
<1>2. x # 0 /\ x - 1 \in S
  BY <1>1
<1> QED BY <1>1, <1>2

\* A family of finite sets, closed under adding a member of S, has every
\* subset of S once it has the empty one.
LEMMA AllSubsets ==
    ASSUME NEW S, IsFiniteSet(S), NEW F, {} \in F,
           \A T \in SUBSET S : T # {} /\ (\A x \in T : T \ {x} \in F) => T \in F
    PROVE  SUBSET S \subseteq F
<1> DEFINE Sizes == {Cardinality(T) : T \in (SUBSET S) \ F}
<1>1. \A T \in SUBSET S : IsFiniteSet(T) /\ Cardinality(T) \in Nat
  BY FS_Subset, FS_CardinalityType
<1> SUFFICES ASSUME (SUBSET S) \ F # {} PROVE FALSE
  OBVIOUS
<1>2. PICK n \in Sizes : \A m \in Sizes : n <= m
  <2>1. Sizes \in SUBSET Nat /\ Sizes # {}
    BY <1>1
  <2> HIDE DEF Sizes
  <2> QED BY <2>1, LeastNat
<1>3. PICK T \in (SUBSET S) \ F : n = Cardinality(T)
  BY <1>2
<1>4. \A x \in T : T \ {x} \in F
  <2> SUFFICES ASSUME NEW x \in T, T \ {x} \notin F PROVE FALSE
    OBVIOUS
  <2>1. Cardinality(T \ {x}) = Cardinality(T) - 1
    BY <1>1, FS_RemoveElement
  <2>2. Cardinality(T \ {x}) \in Sizes
    OBVIOUS
  <2>3. n <= Cardinality(T \ {x})
    BY <2>2, <1>2
  <2>4. Cardinality(T) \in Nat
    BY <1>1
  <2> QED BY <1>3, <2>1, <2>3, <2>4
<1>5. T \in F
  <2>1. T # {}
    BY <1>3
  <2> HIDE DEF Sizes
  <2> QED BY <1>3, <1>4, <2>1
<1> QED BY <1>3, <1>5

-----------------------------------------------------------------------------
(* Sums over a finite set, of a weight that is a function. *)

Taken(s) == CHOOSE x \in s : TRUE

\* f sums the weight w over every subset of S.
Sums(f, w, S) ==
    f = [s \in SUBSET S |-> IF s = {} THEN 0 ELSE w[Taken(s)] + f[s \ {Taken(s)}]]

\* The sum over a subset is that of any of its members and the others'.
Peels(f, w, S) == \A s \in SUBSET S : \A x \in s : f[s] = w[x] + f[s \ {x}]

AddsUp(f, A, B) == f[A \cup B] = f[A] + f[B]

Total(w, S) == (CHOOSE f : Sums(f, w, S))[S]


\* What holds of every subset holds of one with a member less.
LEMMA Smaller ==
    ASSUME NEW s, IsFiniteSet(s), s # {}
    PROVE  /\ Taken(s) \in s /\ IsFiniteSet(s \ {Taken(s)})
           /\ Cardinality(s \ {Taken(s)}) = Cardinality(s) - 1 /\ Cardinality(s) \in Nat
<1>1. Taken(s) \in s
  BY DEF Taken
<1>2. Cardinality(s \ {Taken(s)}) = Cardinality(s) - 1 /\ IsFiniteSet(s \ {Taken(s)})
  BY <1>1, FS_RemoveElement
<1> QED BY <1>1, <1>2, FS_CardinalityType

\* There is such an f: it is built up from the sums over the smaller subsets.
LEMMA SumsExist ==
    ASSUME NEW S, IsFiniteSet(S), NEW w \in [S -> Int]
    PROVE  \E f \in [SUBSET S -> Int] : Sums(f, w, S)
<1> DEFINE Small(n) == {s \in SUBSET S : Cardinality(s) <= n}
           Step(f, s) == IF s = {} THEN 0 ELSE w[Taken(s)] + f[s \ {Taken(s)}]
           Good == {n \in Nat : \E f \in [Small(n) -> Int] : \A s \in Small(n) : f[s] = Step(f, s)}
<1>1. \A s \in SUBSET S : IsFiniteSet(s) /\ Cardinality(s) \in Nat /\ Cardinality(s) <= Cardinality(S)
  BY FS_Subset, FS_CardinalityType
<1>2. \A s \in SUBSET S : s # {} => /\ Taken(s) \in s /\ s \ {Taken(s)} \in SUBSET S
                                   /\ Cardinality(s \ {Taken(s)}) = Cardinality(s) - 1
  BY <1>1, Smaller
<1>3. 0 \in Good
  <2>1. \A s \in Small(0) : s = {}
    BY <1>1, FS_EmptySet
  <2>2. [s \in Small(0) |-> 0] \in [Small(0) -> Int]
    OBVIOUS
  <2>3. \A s \in Small(0) : [q \in Small(0) |-> 0][s] = Step([q \in Small(0) |-> 0], s)
    BY <2>1
  <2> QED BY <2>2, <2>3
<1>4. ASSUME NEW n \in Nat, n \in Good
      PROVE  n + 1 \in Good
  <2>1. PICK f \in [Small(n) -> Int] : \A s \in Small(n) : f[s] = Step(f, s)
    BY <1>4
  <2> DEFINE g == [s \in Small(n + 1) |-> Step(f, s)]
  <2>2. \A s \in Small(n + 1) : s # {} => s \ {Taken(s)} \in Small(n)
    BY <1>1, <1>2
  <2>3. g \in [Small(n + 1) -> Int]
    <3> SUFFICES ASSUME NEW s \in Small(n + 1) PROVE Step(f, s) \in Int
      OBVIOUS
    <3>1. CASE s = {}
      BY <3>1
    <3>2. CASE s # {}
      <4>1. f[s \ {Taken(s)}] \in Int
        BY <2>1, <2>2, <3>2
      <4>2. w[Taken(s)] \in Int
        BY <1>2, <3>2
      <4> QED BY <4>1, <4>2, <3>2
    <3> QED BY <3>1, <3>2
  <2>4. \A s \in Small(n) : s \in Small(n + 1) /\ g[s] = f[s]
    <3>1. \A s \in Small(n) : s \in Small(n + 1)
      BY <1>1
    <3> QED BY <2>1, <3>1
  <2>5. ASSUME NEW s \in Small(n + 1)
        PROVE  g[s] = Step(g, s)
    <3>1. g[s] = Step(f, s)
      OBVIOUS
    <3>2. s # {} => g[s \ {Taken(s)}] = f[s \ {Taken(s)}]
      BY <2>2, <2>4
    <3> HIDE DEF g
    <3> QED BY <3>1, <3>2
  <2> HIDE DEF g
  <2>6. n + 1 \in Nat
    OBVIOUS
  <2> QED BY <2>3, <2>5, <2>6
<1>5. Cardinality(S) \in Nat
  BY <1>1
<1>6. Cardinality(S) \in Good
  <2> HIDE DEF Good
  <2>1. 0..Cardinality(S) \subseteq Good
    BY <1>3, <1>4, <1>5, Upwards
  <2> QED BY <2>1, <1>5
<1>7. PICK f \in [Small(Cardinality(S)) -> Int] : \A s \in Small(Cardinality(S)) : f[s] = Step(f, s)
  BY <1>6
<1>8. Small(Cardinality(S)) = SUBSET S
  BY <1>1
<1>9. f = [s \in SUBSET S |-> Step(f, s)]
  BY <1>7, <1>8
<1> QED BY <1>7, <1>8, <1>9 DEF Sums

\* Two sums agree where both are defined.
LEMMA SumsAgree ==
    ASSUME NEW S, NEW T, NEW U, IsFiniteSet(U), U \subseteq S \cap T, NEW v, NEW w,
           \A x \in U : v[x] = w[x],
           NEW f, NEW g, Sums(f, v, S), Sums(g, w, T)
    PROVE  f[U] = g[U]
<1> DEFINE F == {s \in SUBSET U : f[s] = g[s]}
<1>1. \A s \in SUBSET U : /\ f[s] = IF s = {} THEN 0 ELSE v[Taken(s)] + f[s \ {Taken(s)}]
                         /\ g[s] = IF s = {} THEN 0 ELSE w[Taken(s)] + g[s \ {Taken(s)}]
  BY DEF Sums
<1>2. {} \in F
  BY <1>1
<1>3. ASSUME NEW s \in SUBSET U, s # {}, \A x \in s : s \ {x} \in F
      PROVE  s \in F
  <2>1. Taken(s) \in s
    BY <1>3 DEF Taken
  <2>2. f[s \ {Taken(s)}] = g[s \ {Taken(s)}] /\ v[Taken(s)] = w[Taken(s)]
    BY <2>1, <1>3
  <2> QED BY <2>2, <1>1, <1>3
<1>4. SUBSET U \subseteq F
  <2> HIDE DEF F
  <2> QED BY <1>2, <1>3, AllSubsets
<1> QED BY <1>4

\* What the sum over a set is: nothing for the empty one, and any of its members
\* with the sum over the others.
LEMMA TotalIs ==
    ASSUME NEW S, IsFiniteSet(S), NEW w \in [S -> Int]
    PROVE  /\ Total(w, S) \in Int
           /\ \A f : Sums(f, w, S) => Total(w, S) = f[S]
<1>1. PICK f \in [SUBSET S -> Int] : Sums(f, w, S)
  BY SumsExist
<1> DEFINE c == CHOOSE h : Sums(h, w, S)
<1>2. Sums(c, w, S)
  BY <1>1
<1>3. Total(w, S) = c[S]
  BY DEF Total
<1> HIDE DEF c
<1>4. ASSUME NEW g, Sums(g, w, S) PROVE Total(w, S) = g[S]
  BY <1>2, <1>3, <1>4, SumsAgree
<1>5. f[S] \in Int
  BY <1>1
<1> QED BY <1>1, <1>4, <1>5

\* Sums read off two functions that agree on a set are the same.
LEMMA TotalAgrees ==
    ASSUME NEW S, IsFiniteSet(S), NEW v \in [S -> Int], NEW T, IsFiniteSet(T), S \subseteq T,
           NEW w \in [T -> Int], \A x \in S : v[x] = w[x],
           NEW f, Sums(f, w, T)
    PROVE  Total(v, S) = f[S]
<1>1. PICK g \in [SUBSET S -> Int] : Sums(g, v, S)
  BY SumsExist
<1>2. Total(v, S) = g[S]
  BY <1>1, TotalIs
<1>3. S \subseteq S \cap T
  OBVIOUS
<1>4. g[S] = f[S]
  BY <1>1, <1>3, SumsAgree
<1> QED BY <1>2, <1>4

\* It does not matter which member is taken first.
LEMMA OneOut ==
    ASSUME NEW S, IsFiniteSet(S), NEW w \in [S -> Int], NEW f, f \in [SUBSET S -> Int], Sums(f, w, S)
    PROVE  Peels(f, w, S)
<1> DEFINE F == {s \in SUBSET S : \A x \in s : f[s] = w[x] + f[s \ {x}]}
<1>1. \A s \in SUBSET S : s # {} => f[s] = w[Taken(s)] + f[s \ {Taken(s)}]
  BY DEF Sums
<1>2. {} \in F
  OBVIOUS
<1>3. ASSUME NEW s \in SUBSET S, s # {}, \A x \in s : s \ {x} \in F
      PROVE  s \in F
  <2> DEFINE t == Taken(s)
  <2>1. t \in s /\ f[s] = w[t] + f[s \ {t}]
    BY <1>1, <1>3 DEF Taken
  <2> HIDE DEF t
  <2> SUFFICES ASSUME NEW x \in s, x # t PROVE f[s] = w[x] + f[s \ {x}]
    BY <2>1
  <2> DEFINE q == (s \ {x}) \ {t}
  <2>2. f[s \ {t}] = w[x] + f[q]
    <3>1. s \ {t} \in F /\ x \in s \ {t}
      BY <1>3, <2>1
    <3>2. (s \ {t}) \ {x} = q
      OBVIOUS
    <3> QED BY <3>1, <3>2
  <2>3. f[s \ {x}] = w[t] + f[q]
    <3>1. s \ {x} \in F /\ t \in s \ {x}
      BY <1>3, <2>1
    <3> QED BY <3>1
  <2>4. w[x] \in Int /\ w[t] \in Int /\ f[q] \in Int
    BY <2>1
  <2> HIDE DEF q
  <2> QED BY <2>1, <2>2, <2>3, <2>4
<1>4. SUBSET S \subseteq F
  <2> HIDE DEF F
  <2> QED BY <1>2, <1>3, AllSubsets
<1> QED BY <1>4 DEF Peels

\* The sum over two sets that share nothing is the sum of their sums.
LEMMA Apart ==
    ASSUME NEW S, IsFiniteSet(S), NEW w \in [S -> Int], NEW f, f \in [SUBSET S -> Int], Sums(f, w, S),
           NEW A \in SUBSET S, NEW B \in SUBSET S, A \cap B = {}
    PROVE  AddsUp(f, A, B)
<1> SUFFICES f[A \cup B] = f[A] + f[B]
  BY DEF AddsUp
<1> DEFINE F == {s \in SUBSET S : A \cap s = {} => f[A \cup s] = f[A] + f[s]}
<1>0. \A s \in SUBSET S : \A x \in s : f[s] = w[x] + f[s \ {x}]
  <2>1. Peels(f, w, S)
    BY OneOut
  <2> QED BY <2>1 DEF Peels
<1>1. {} \in F
  <2>1. f[{}] = 0
    BY DEF Sums
  <2>2. A \cup {} = A /\ f[A] \in Int
    OBVIOUS
  <2> QED BY <2>1, <2>2
<1>2. ASSUME NEW s \in SUBSET S, s # {}, \A x \in s : s \ {x} \in F, A \cap s = {}
      PROVE  f[A \cup s] = f[A] + f[s]
  <2>1. PICK x \in s : TRUE
    BY <1>2
  <2>2. f[A \cup s] = w[x] + f[(A \cup s) \ {x}] /\ f[s] = w[x] + f[s \ {x}]
    <3>1. A \cup s \in SUBSET S /\ x \in A \cup s
      BY <2>1
    <3> QED BY <2>1, <3>1, <1>0
  <2>3. (A \cup s) \ {x} = A \cup (s \ {x}) /\ A \cap (s \ {x}) = {}
    BY <1>2
  <2>4. f[A \cup (s \ {x})] = f[A] + f[s \ {x}]
    BY <1>2, <2>3
  <2>5. w[x] \in Int /\ f[A] \in Int /\ f[s \ {x}] \in Int
    OBVIOUS
  <2>6. f[A \cup s] = w[x] + (f[A] + f[s \ {x}])
    BY <2>2, <2>3, <2>4
  <2>7. f[s] = w[x] + f[s \ {x}]
    BY <2>2
  <2> QED BY <2>5, <2>6, <2>7
<1>3. SUBSET S \subseteq F
  <2>1. ASSUME NEW s \in SUBSET S, s # {}, \A x \in s : s \ {x} \in F PROVE s \in F
    BY <1>2, <2>1
  <2> HIDE DEF F
  <2> QED BY <1>1, <2>1, AllSubsets
<1> QED BY <1>3

\* So it is of Total, of weights that agree.
Parts(w, A, u, B, v) == Total(w, A \cup B) = Total(u, A) + Total(v, B)

\* The sum over two parts is that of the one and that of the other.
LEMMA TotalApart ==
    ASSUME NEW A, NEW B, IsFiniteSet(A), IsFiniteSet(B), A \cap B = {},
           NEW w \in [A \cup B -> Int], NEW u \in [A -> Int], NEW v \in [B -> Int],
           \A x \in A : u[x] = w[x], \A x \in B : v[x] = w[x]
    PROVE  Parts(w, A, u, B, v)
<1>1. IsFiniteSet(A \cup B)
  BY FS_Union
<1>2. PICK f \in [SUBSET (A \cup B) -> Int] : Sums(f, w, A \cup B)
  BY <1>1, SumsExist
<1>3. Total(w, A \cup B) = f[A \cup B]
  BY <1>1, <1>2, TotalIs
<1>4. A \subseteq A \cup B /\ B \subseteq A \cup B
  OBVIOUS
<1>5. Total(u, A) = f[A] /\ Total(v, B) = f[B]
  BY <1>1, <1>2, <1>4, TotalAgrees
<1>6. f[A \cup B] = f[A] + f[B]
  <2> DEFINE S == A \cup B
  <2>1. IsFiniteSet(S) /\ w \in [S -> Int] /\ f \in [SUBSET S -> Int] /\ Sums(f, w, S)
    BY <1>1, <1>2
  <2>2. A \in SUBSET S /\ B \in SUBSET S
    OBVIOUS
  <2> HIDE DEF S
  <2>3. AddsUp(f, A, B)
    BY <2>1, <2>2, Apart
  <2> QED BY <2>3 DEF AddsUp
<1> QED BY <1>3, <1>5, <1>6 DEF Parts

-----------------------------------------------------------------------------
(* The score. *)

\* A standing's total is a sum of scores.
LEMMA ScoreTotal ==
    ASSUME NEW S, IsFiniteSet(S), \A T \in S : Score(T) \in Int
    PROVE  MapThenSumSet(Score, S) = Total([T \in S |-> Score(T)], S)
<1> DEFINE w == [T \in S |-> Score(T)]
           Is(f) == f = [s \in SUBSET S |-> IF s = {} THEN 0 ELSE Score(Taken(s)) + f[s \ {Taken(s)}]]
           c == CHOOSE f : Is(f)
<1>1. w \in [S -> Int]
  OBVIOUS
<1>2. \A s \in SUBSET S : s # {} => Taken(s) \in S /\ w[Taken(s)] = Score(Taken(s))
  BY DEF Taken
<1>3. MapThenSumSet(Score, S) = c[S]
  BY DEF MapThenSumSet, MapThenFoldSet, Taken
<1>4. \A f : Sums(f, w, S) <=> Is(f)
  <2> HIDE DEF w
  <2> QED BY <1>2 DEF Sums
<1>5. \E f : Is(f)
  <2> HIDE DEF w, Is
  <2> QED BY <1>1, <1>4, SumsExist
<1>6. Is(c)
  <2> HIDE DEF Is
  <2> QED BY <1>5
<1>7. Sums(c, w, S)
  <2> HIDE DEF w, Is, c
  <2> QED BY <1>4, <1>6
<1>8. Total(w, S) = c[S]
  <2> HIDE DEF w, Is, c
  <2> QED BY <1>1, <1>7, TotalIs
<1> QED BY <1>3, <1>8

-----------------------------------------------------------------------------
(* Orders. *)

\* R is transitive on V and compares any two of it.
OrdersAll(R, V) ==
    /\ \A x, y, z \in V : <<x, y>> \in R /\ <<y, z>> \in R => <<x, z>> \in R
    /\ \A x, y \in V : x # y => <<x, y>> \in R \/ <<y, x>> \in R

HasFirst(R, V) == \E m \in V : \A y \in V \ {m} : <<m, y>> \in R

\* A finite set that is so ordered has a first.
LEMMA Foremost ==
    ASSUME NEW V, IsFiniteSet(V), V # {}, NEW R, OrdersAll(R, V)
    PROVE  HasFirst(R, V)
<1> DEFINE F == {T \in SUBSET V : T # {} => HasFirst(R, T)}
<1>1. {} \in F
  OBVIOUS
<1>2. ASSUME NEW T \in SUBSET V, T # {}, \A x \in T : T \ {x} \in F
      PROVE  T \in F
  <2>1. PICK x \in T : TRUE
    BY <1>2
  <2>2. CASE T = {x}
    BY <2>2 DEF HasFirst
  <2>3. CASE T # {x}
    <3>1. HasFirst(R, T \ {x})
      BY <1>2, <2>1, <2>3
    <3>2. PICK m \in T \ {x} : \A y \in (T \ {x}) \ {m} : <<m, y>> \in R
      BY <3>1 DEF HasFirst
    <3>3. <<x, m>> \in R \/ <<m, x>> \in R
      BY <2>1, <3>2 DEF OrdersAll
    <3>4. CASE <<m, x>> \in R
      BY <3>2, <3>4 DEF HasFirst
    <3>5. CASE <<x, m>> \in R
      <4>1. \A y \in T \ {x} : y = m \/ <<m, y>> \in R
        BY <3>2
      <4>2. \A y \in T \ {x} : <<x, y>> \in R
        BY <2>1, <3>2, <3>5, <4>1 DEF OrdersAll
      <4> QED BY <2>1, <4>2 DEF HasFirst
    <3> QED BY <3>3, <3>4, <3>5
  <2> QED BY <2>2, <2>3
<1>3. SUBSET V \subseteq F
  <2> HIDE DEF F
  <2> QED BY <1>1, <1>2, AllSubsets
<1> QED BY <1>3

\* Finitely many whole numbers have a least and a greatest.
LEMMA Extremes ==
    ASSUME NEW S, S \subseteq Int, IsFiniteSet(S), S # {}
    PROVE  /\ Min(S) \in S /\ \A x \in S : Min(S) <= x
           /\ Max(S) \in S /\ \A x \in S : x <= Max(S)
<1>1. \E m \in S : \A y \in S : m <= y
  <2> DEFINE R == {p \in S \X S : p[1] < p[2]}
  <2>1. \A x, y \in S : <<x, y>> \in R <=> x < y
    OBVIOUS
  <2>2. OrdersAll(R, S)
    BY <2>1 DEF OrdersAll
  <2>3. HasFirst(R, S)
    <3> HIDE DEF R
    <3> QED BY <2>2, Foremost
  <2>4. PICK m \in S : \A y \in S \ {m} : <<m, y>> \in R
    BY <2>3 DEF HasFirst
  <2>5. \A y \in S \ {m} : m < y
    <3> HIDE DEF R
    <3> QED BY <2>1, <2>4
  <2>6. \A y \in S : y \in Int /\ m \in Int
    OBVIOUS
  <2> QED BY <2>5, <2>6
<1>2. \E m \in S : \A y \in S : y <= m
  <2> DEFINE R == {p \in S \X S : p[1] > p[2]}
  <2>1. \A x, y \in S : <<x, y>> \in R <=> x > y
    OBVIOUS
  <2>2. OrdersAll(R, S)
    BY <2>1 DEF OrdersAll
  <2>3. HasFirst(R, S)
    <3> HIDE DEF R
    <3> QED BY <2>2, Foremost
  <2>4. PICK m \in S : \A y \in S \ {m} : <<m, y>> \in R
    BY <2>3 DEF HasFirst
  <2>5. \A y \in S \ {m} : m > y
    <3> HIDE DEF R
    <3> QED BY <2>1, <2>4
  <2>6. \A y \in S : y \in Int /\ m \in Int
    OBVIOUS
  <2> QED BY <2>5, <2>6
<1>3. Min(S) \in S /\ \A x \in S : Min(S) <= x
  BY <1>1 DEF Min
<1>4. Max(S) \in S /\ \A x \in S : x <= Max(S)
  <2>1. \E m \in S : \A y \in S : m >= y
    BY <1>2
  <2>2. Max(S) \in S /\ \A x \in S : Max(S) >= x
    BY <2>1 DEF Max
  <2> QED BY <2>2
<1> QED BY <1>3, <1>4

\* The lesser and the greater of two numbers.
LEMMA OfTwo ==
    ASSUME NEW a \in Int, NEW b \in Int
    PROVE  /\ Min({a, b}) \in {a, b} /\ Min({a, b}) <= a /\ Min({a, b}) <= b
           /\ Max({a, b}) \in {a, b} /\ a <= Max({a, b}) /\ b <= Max({a, b})
<1>1. IsFiniteSet({a, b})
  <2>1. IsFiniteSet({a})
    BY FS_Singleton
  <2>2. IsFiniteSet({a} \cup {b})
    BY <2>1, FS_AddElement
  <2> QED BY <2>2
<1>2. {a, b} \subseteq Int /\ {a, b} # {}
  OBVIOUS
<1>3. /\ Min({a, b}) \in {a, b} /\ \A x \in {a, b} : Min({a, b}) <= x
      /\ Max({a, b}) \in {a, b} /\ \A x \in {a, b} : x <= Max({a, b})
  BY <1>1, <1>2, Extremes
<1> QED BY <1>3

\* The names of two sixes are told apart at the first hero only one of them has.
FirstApart(T, U, h) ==
    /\ h \in (T \ U) \cup (U \ T)
    /\ \A k \in (T \ U) \cup (U \ T) : h <= k

\* Two sets of numbers that differ have a least hero they differ in.
LEMMA Apartness ==
    ASSUME NEW T \in SUBSET Nat, NEW U \in SUBSET Nat, T # U
    PROVE  /\ \E h \in Nat : FirstApart(T, U, h)
           /\ \A h \in Nat : FirstApart(T, U, h) =>
                /\ NamesBefore(T, U) <=> h \in T
                /\ NamesBefore(U, T) <=> h \in U
<1> DEFINE D == (T \ U) \cup (U \ T)
<1>1. PICK h \in D : \A k \in D : h <= k
  <2>1. D \in SUBSET Nat /\ D # {}
    OBVIOUS
  <2> HIDE DEF D
  <2> QED BY <2>1, LeastNat
<1>2. FirstApart(T, U, h) /\ h \in Nat
  BY <1>1 DEF FirstApart
<1>3. ASSUME NEW g \in Nat, FirstApart(T, U, g)
      PROVE  (NamesBefore(T, U) <=> g \in T) /\ (NamesBefore(U, T) <=> g \in U)
  <2>1. CASE g \in T
    <3>1. g \in T \ U /\ \A k \in U \ T : g < k
      <4>1. g \in T \ U /\ \A k \in U \ T : g <= k /\ g # k
        BY <1>3, <2>1 DEF FirstApart
      <4> QED BY <4>1
    <3>2. NamesBefore(T, U)
      BY <3>1 DEF NamesBefore
    <3>3. ~NamesBefore(U, T)
      <4> SUFFICES ASSUME NEW k \in U \ T, \A j \in T \ U : k < j PROVE FALSE
        BY DEF NamesBefore
      <4>1. g < k /\ k < g
        BY <3>1
      <4> QED BY <4>1
    <3> QED BY <2>1, <3>1, <3>2, <3>3
  <2>2. CASE g \notin T
    <3>1. g \in U \ T /\ \A k \in T \ U : g < k
      <4>1. g \in U \ T /\ \A k \in T \ U : g <= k /\ g # k
        BY <1>3, <2>2 DEF FirstApart
      <4> QED BY <4>1
    <3>2. NamesBefore(U, T)
      BY <3>1 DEF NamesBefore
    <3>3. ~NamesBefore(T, U)
      <4> SUFFICES ASSUME NEW k \in T \ U, \A j \in U \ T : k < j PROVE FALSE
        BY DEF NamesBefore
      <4>1. g < k /\ k < g
        BY <3>1
      <4> QED BY <4>1
    <3> QED BY <2>2, <3>1, <3>2, <3>3
  <2> QED BY <2>1, <2>2
<1> QED BY <1>2, <1>3

\* The order of the names is strict and total, and transitive.
LEMMA NamesOrder ==
    ASSUME NEW T \in SUBSET Nat, NEW U \in SUBSET Nat
    PROVE  /\ ~NamesBefore(T, T)
           /\ T # U => (NamesBefore(T, U) <=> ~NamesBefore(U, T))
<1>1. ~NamesBefore(T, T)
  BY DEF NamesBefore
<1>2. ASSUME T # U PROVE NamesBefore(T, U) <=> ~NamesBefore(U, T)
  <2>1. PICK h \in Nat : FirstApart(T, U, h)
    BY <1>2, Apartness
  <2>2. (NamesBefore(T, U) <=> h \in T) /\ (NamesBefore(U, T) <=> h \in U)
    BY <1>2, <2>1, Apartness
  <2>3. h \in T <=> h \notin U
    BY <2>1 DEF FirstApart
  <2> QED BY <2>2, <2>3
<1> QED BY <1>1, <1>2

\* The order of the names is transitive.
LEMMA NamesChain ==
    ASSUME NEW T \in SUBSET Nat, NEW U \in SUBSET Nat, NEW W \in SUBSET Nat,
           NamesBefore(T, U), NamesBefore(U, W)
    PROVE  NamesBefore(T, W)
<1>1. T # U /\ U # W
  BY NamesOrder
<1>2. PICK a \in Nat : FirstApart(T, U, a)
  BY <1>1, Apartness
<1>3. PICK b \in Nat : FirstApart(U, W, b)
  BY <1>1, Apartness
<1>4. a \in T /\ b \in U
  BY <1>1, <1>2, <1>3, Apartness
<1>5. a \notin U /\ b \notin W
  BY <1>2, <1>3, <1>4 DEF FirstApart
<1>6. \A k \in Nat : k < a => (k \in T <=> k \in U)
  BY <1>2 DEF FirstApart
<1>7. \A k \in Nat : k < b => (k \in U <=> k \in W)
  BY <1>3 DEF FirstApart
<1>8. PICK h \in Nat : h = IF a < b THEN a ELSE b
  OBVIOUS
<1>9. h \in T /\ h \notin W
  <2>1. CASE a < b
    BY <1>4, <1>5, <1>7, <1>8, <2>1
  <2>2. CASE b < a
    BY <1>4, <1>5, <1>6, <1>8, <2>2
  <2>3. a # b
    BY <1>4, <1>5
  <2> QED BY <2>1, <2>2, <2>3
<1>10. \A k \in W \ T : h < k
  <2> SUFFICES ASSUME NEW k \in W \ T, ~(h < k) PROVE FALSE
    OBVIOUS
  <2>1. k \in Nat /\ k # h /\ k < h
    BY <1>9
  <2>2. k < a /\ k < b
    BY <1>8, <2>1
  <2> QED BY <1>6, <1>7, <2>1, <2>2
<1> QED BY <1>9, <1>10 DEF NamesBefore

-----------------------------------------------------------------------------
(* Sixes, their scores and their order. *)

Sixes == {T \in SUBSET Released : Cardinality(T) = TeamSize}

\* The roster is finite, so are a six and the sixes of it.
LEMMA SixesFinite ==
    /\ IsFiniteSet(Released) /\ IsFiniteSet(Sixes)
    /\ \A T \in SUBSET Heroes : IsFiniteSet(T) /\ Cardinality(T) \in Nat
    /\ Sixes \subseteq SUBSET Released /\ Sixes \subseteq SUBSET Heroes /\ Sixes \subseteq SUBSET Nat
    /\ \A T \in Sixes : T # {} /\ IsFiniteSet(T) /\ Cardinality(T) = TeamSize
<1>1. Heroes \subseteq Nat /\ IsFiniteSet(Heroes) /\ Released \subseteq Heroes /\ TeamSize \in Nat \ {0}
  BY SearchAssumption
<1>2. IsFiniteSet(Released) /\ IsFiniteSet(SUBSET Released)
  BY <1>1, FS_Subset, FS_SUBSET
<1>3. IsFiniteSet(Sixes)
  BY <1>2, FS_Subset DEF Sixes
<1>4. \A T \in SUBSET Heroes : IsFiniteSet(T) /\ Cardinality(T) \in Nat
  BY <1>1, FS_Subset, FS_CardinalityType
<1>5. \A T \in Sixes : T # {}
  BY <1>1, FS_EmptySet DEF Sixes
<1> QED BY <1>1, <1>2, <1>3, <1>4, <1>5 DEF Sixes

\* The bounds are whole numbers, whatever rules have any.
Scaled == /\ board \in Boards
          /\ \A r \in DOMAIN bounds : bounds[r].low \in Int /\ bounds[r].high \in Int

\* A norm is a number on any scale whose bounds are numbers.
LEMMA NormInt ==
    ASSUME Scaled, NEW r, NEW value \in Int
    PROVE  Norm(r, value) \in Int
<1> DEFINE low  == IF r \in DOMAIN bounds THEN bounds[r].low ELSE 0
           high == IF r \in DOMAIN bounds THEN bounds[r].high ELSE 0
           place == ((value - low) * Unit) \div (high - low)
<1>1. low \in Int /\ high \in Int
  BY DEF Scaled
<1>2. Unit \in Int
  BY SearchAssumption
<1>3. Norm(r, value) =
        IF high <= low THEN IF r \in Needs THEN Unit ELSE Unit \div 2
        ELSE IF r \in Minimize THEN Unit - Max({0, Min({Unit, place})}) ELSE Max({0, Min({Unit, place})})
  BY DEF Norm
<1> HIDE DEF low, high
<1>4. CASE high <= low
  BY <1>2, <1>3, <1>4
<1>5. CASE ~(high <= low)
  <2>1. high - low \in Int /\ high - low > 0
    BY <1>1, <1>5
  <2>2. (value - low) * Unit \in Int
    BY <1>1, <1>2
  <2>3. place \in Int
    BY <2>1, <2>2
  <2> HIDE DEF place
  <2>4. PICK m \in Int : m = Min({Unit, place})
    BY <1>2, <2>3, OfTwo
  <2>5. PICK zero \in Int : zero = 0
    OBVIOUS
  <2>6. PICK k \in Int : k = Max({zero, m})
    BY OfTwo
  <2>7. Norm(r, value) = IF r \in Minimize THEN Unit - k ELSE k
    BY <1>3, <1>5, <2>4, <2>5, <2>6
  <2> QED BY <1>2, <2>6, <2>7
<1> QED BY <1>4, <1>5

\* So is what a heuristic adds.
LEMMA WeightedInt ==
    ASSUME Scaled, NEW r \in Rules, NEW T \in Sixes
    PROVE  Weighted(r, T) \in Int
<1>1. Weight[r] \in Int /\ Unit \in Int
  BY SearchAssumption
<1>2. Raw(board, r, T) \in Int \cup {NoReading}
  BY SearchAssumption DEF Scaled, Sixes
<1>3. CASE Raw(board, r, T) = NoReading
  BY <1>3 DEF Weighted
<1>4. CASE Raw(board, r, T) # NoReading
  <2>1. Norm(r, Raw(board, r, T)) \in Int
    BY <1>2, <1>4, NormInt
  <2>2. Weighted(r, T) = Weight[r] * (Norm(r, Raw(board, r, T)) - IF r \in Needs THEN Unit ELSE 0)
    BY <1>4 DEF Weighted
  <2> QED BY <1>1, <2>1, <2>2
<1> QED BY <1>3, <1>4

\* So is a six's score.
LEMMA ScoreInt ==
    ASSUME Scaled, NEW T \in Sixes
    PROVE  Score(T) \in Int /\ Tiebreak(board, T) \in Int
<1> DEFINE w == [r \in Rules |-> Weighted(r, T)]
           Is(f) == f = [s \in SUBSET Rules |->
                            IF s = {} THEN 0 ELSE Weighted(Taken(s), T) + f[s \ {Taken(s)}]]
           c == CHOOSE f : Is(f)
<1>1. w \in [Rules -> Int] /\ IsFiniteSet(Rules)
  BY WeightedInt, SearchAssumption
<1>2. \A s \in SUBSET Rules : s # {} => Taken(s) \in Rules /\ w[Taken(s)] = Weighted(Taken(s), T)
  BY DEF Taken
<1>3. Score(T) = Base(board, T) + c[Rules]
  BY DEF Score, MapThenSumSet, MapThenFoldSet, Taken
<1>4. \A f : Sums(f, w, Rules) <=> Is(f)
  <2> HIDE DEF w
  <2> QED BY <1>2 DEF Sums
<1>5. \E f : Is(f)
  <2> HIDE DEF w, Is
  <2> QED BY <1>1, <1>4, SumsExist
<1>6. Is(c)
  <2> HIDE DEF Is
  <2> QED BY <1>5
<1>7. c[Rules] \in Int
  <2> HIDE DEF w, Is, c
  <2>1. Sums(c, w, Rules)
    BY <1>4, <1>6
  <2>2. Total(w, Rules) = c[Rules] /\ Total(w, Rules) \in Int
    BY <1>1, <2>1, TotalIs
  <2> QED BY <2>2
<1>8. Base(board, T) \in Int /\ Tiebreak(board, T) \in Int
  BY SearchAssumption DEF Scaled, Sixes
<1> HIDE DEF c
<1> QED BY <1>3, <1>7, <1>8

\* What a six may be told by: the verdicts of this board, on this scale.
Ranked == {Verdict(T) : T \in Sixes}

\* The verdicts of a board are finitely many, and none is NoSix.
LEMMA RankedIs ==
    ASSUME Scaled
    PROVE  /\ IsFiniteSet(Ranked)
           /\ \A v \in Ranked : /\ v.six \in Sixes /\ v.six \in SUBSET Nat /\ v = Verdict(v.six)
                                /\ v.score \in Int /\ v.tiebreak \in Int /\ v # NoSix
<1>1. IsFiniteSet(Ranked)
  <2>1. IsFiniteSet(Sixes)
    BY SixesFinite
  <2> DEFINE g == [T \in Sixes |-> Verdict(T)]
  <2>2. g \in Surjection(Sixes, Ranked)
    BY DEF Surjection, Ranked
  <2> HIDE DEF g
  <2> QED BY <2>1, <2>2, FS_Surjection
<1>2. ASSUME NEW v \in Ranked
      PROVE  /\ v.six \in Sixes /\ v.six \in SUBSET Nat /\ v = Verdict(v.six)
             /\ v.score \in Int /\ v.tiebreak \in Int /\ v # NoSix
  <2>1. PICK T \in Sixes : v = Verdict(T)
    BY DEF Ranked
  <2>2. v.six = T /\ v.score = Score(T) /\ v.tiebreak = Tiebreak(board, T)
    BY <2>1 DEF Verdict
  <2>3. NoSix.six = {}
    BY DEF NoSix
  <2> QED BY <2>1, <2>2, <2>3, ScoreInt, SixesFinite
<1> QED BY <1>1, <1>2

\* The order rank() sorts by is strict and total on them.
LEMMA AboveOrder ==
    ASSUME Scaled, NEW v \in Ranked, NEW w \in Ranked
    PROVE  /\ ~Above(v, v)
           /\ v # w => (Above(v, w) <=> ~Above(w, v))
           /\ Beats(v, w) <=> Above(v, w)
           /\ \A u \in Ranked : Above(u, v) /\ Above(v, w) => Above(u, w)
<1>1. /\ v.six \in SUBSET Nat /\ w.six \in SUBSET Nat
      /\ v.score \in Int /\ w.score \in Int /\ v.tiebreak \in Int /\ w.tiebreak \in Int
      /\ v = Verdict(v.six) /\ w = Verdict(w.six)
  BY RankedIs
<1>2. ~Above(v, v)
  <2>1. ~NamesBefore(v.six, v.six)
    BY <1>1, NamesOrder
  <2> QED BY <1>1, <2>1 DEF Above
<1>3. ASSUME v # w PROVE Above(v, w) <=> ~Above(w, v)
  <2>1. v.six # w.six
    BY <1>1, <1>3
  <2>2. NamesBefore(v.six, w.six) <=> ~NamesBefore(w.six, v.six)
    BY <1>1, <2>1, NamesOrder
  <2> QED BY <1>1, <2>2 DEF Above
<1>4. Beats(v, w) <=> Above(v, w)
  BY <1>1 DEF Beats, Above
<1>5. ASSUME NEW u \in Ranked, Above(u, v), Above(v, w) PROVE Above(u, w)
  <2>1. u.six \in SUBSET Nat /\ u.score \in Int /\ u.tiebreak \in Int
    BY RankedIs
  <2>2. NamesBefore(u.six, v.six) /\ NamesBefore(v.six, w.six) => NamesBefore(u.six, w.six)
    BY <1>1, <2>1, NamesChain
  <2> QED BY <1>1, <1>5, <2>1, <2>2 DEF Above
<1> QED BY <1>2, <1>3, <1>4, <1>5

\* v is the first of V.
Heads(v, V) == v \in V /\ \A w \in V \ {v} : Above(v, w)

\* Best finds the first of any of them.
LEMMA BestHeads ==
    ASSUME Scaled, NEW V, V \subseteq Ranked, V # {}
    PROVE  Heads(Best(V), V)
<1> DEFINE R == {p \in Ranked \X Ranked : Above(p[1], p[2])}
<1>1. \A x, y \in Ranked : <<x, y>> \in R <=> Above(x, y)
  OBVIOUS
<1>2. IsFiniteSet(V)
  BY RankedIs, FS_Subset
<1>3. OrdersAll(R, V)
  <2> HIDE DEF R
  <2> QED BY <1>1, AboveOrder DEF OrdersAll
<1>4. HasFirst(R, V)
  <2> HIDE DEF R
  <2> QED BY <1>2, <1>3, Foremost
<1>5. \E v \in V : \A w \in V \ {v} : Above(v, w)
  <2> HIDE DEF R
  <2> QED BY <1>1, <1>4 DEF HasFirst
<1> QED BY <1>5 DEF Best, Heads

\* Nothing but the first can head.
LEMMA HeadIsBest ==
    ASSUME Scaled, NEW V, V \subseteq Ranked, NEW v, Heads(v, V)
    PROVE  v = Best(V)
<1>1. Heads(Best(V), V)
  BY BestHeads DEF Heads
<1> SUFFICES ASSUME v # Best(V) PROVE FALSE
  OBVIOUS
<1>2. Above(v, Best(V)) /\ Above(Best(V), v) /\ v \in Ranked /\ Best(V) \in Ranked
  BY <1>1 DEF Heads
<1> QED BY <1>2, AboveOrder

-----------------------------------------------------------------------------
(* The moves keep a six legal. *)

\* Two finite sets that share nothing have both their members.
LEMMA Joined ==
    ASSUME NEW A, NEW B, IsFiniteSet(A), IsFiniteSet(B), A \cap B = {}
    PROVE  IsFiniteSet(A \cup B) /\ Cardinality(A \cup B) = Cardinality(A) + Cardinality(B)
<1>1. Cardinality(A \cup B) = Cardinality(A) + Cardinality(B) - Cardinality(A \cap B)
  BY FS_Union
<1>2. Cardinality(A \cap B) = 0 /\ Cardinality(A) \in Nat /\ Cardinality(B) \in Nat
  BY FS_EmptySet, FS_CardinalityType
<1>3. IsFiniteSet(A \cup B)
  BY FS_Union
<1> QED BY <1>1, <1>2, <1>3

\* A six's seats, by role, are all its heroes.
LEMMA ShapeSum ==
    ASSUME NEW T \in SUBSET Heroes
    PROVE  /\ \A r \in Roles : ShapeOf(T)[r] = Cardinality(Seats(T, r)) /\ ShapeOf(T)[r] \in Nat
           /\ Cardinality(T) = ShapeOf(T)["tank"] + ShapeOf(T)["damage"] + ShapeOf(T)["support"]
<1>1. \A r \in Roles : IsFiniteSet(Seats(T, r)) /\ Cardinality(Seats(T, r)) \in Nat
  <2>1. \A r \in Roles : Seats(T, r) \in SUBSET Heroes
    BY DEF Seats
  <2> QED BY <2>1, SixesFinite
<1>2. \A r \in Roles : ShapeOf(T)[r] = Cardinality(Seats(T, r))
  BY DEF ShapeOf
<1> DEFINE A == Seats(T, "tank")
           B == Seats(T, "damage")
           C == Seats(T, "support")
<1>3. T = (A \cup B) \cup C /\ A \cap B = {} /\ (A \cup B) \cap C = {}
  BY SearchAssumption DEF Seats
<1>4. /\ IsFiniteSet(A) /\ IsFiniteSet(B) /\ IsFiniteSet(C)
      /\ Cardinality(A) \in Nat /\ Cardinality(B) \in Nat /\ Cardinality(C) \in Nat
  BY <1>1 DEF Roles
<1>5. /\ ShapeOf(T)["tank"] = Cardinality(A) /\ ShapeOf(T)["damage"] = Cardinality(B)
      /\ ShapeOf(T)["support"] = Cardinality(C)
  BY <1>2 DEF Roles
<1> HIDE DEF A, B, C
<1>6. IsFiniteSet(A \cup B) /\ Cardinality(A \cup B) = Cardinality(A) + Cardinality(B)
  BY <1>3, <1>4, Joined
<1>7. Cardinality((A \cup B) \cup C) = Cardinality(A) + Cardinality(B) + Cardinality(C)
  BY <1>3, <1>4, <1>6, Joined
<1> QED BY <1>1, <1>2, <1>3, <1>5, <1>7

\* Shapes are the same when each role's seats are as many.
LEMMA SameShape ==
    ASSUME NEW T, NEW U, \A r \in Roles : Cardinality(Seats(T, r)) = Cardinality(Seats(U, r))
    PROVE  ShapeOf(T) = ShapeOf(U)
BY DEF ShapeOf

\* Each role loses as many heroes as it gains.
LEMMA Reseated ==
    ASSUME NEW T \in SUBSET Heroes, NEW out \in SUBSET T, NEW in \in SUBSET Heroes, T \cap in = {}
    PROVE  ShapeOf((T \ out) \cup in) = ShapeOf(T) <=> ShapeOf(out) = ShapeOf(in)
<1> DEFINE U == (T \ out) \cup in
<1>1. ASSUME NEW r \in Roles
      PROVE  /\ Cardinality(Seats(U, r)) = Cardinality(Seats(T, r)) - Cardinality(Seats(out, r))
                                            + Cardinality(Seats(in, r))
             /\ Cardinality(Seats(U, r)) \in Nat /\ Cardinality(Seats(T, r)) \in Nat
             /\ Cardinality(Seats(out, r)) \in Nat /\ Cardinality(Seats(in, r)) \in Nat
    <2> DEFINE A == Seats(T, r)
               B == Seats(out, r)
               C == Seats(in, r)
    <2>1. /\ A \in SUBSET Heroes /\ B \in SUBSET Heroes /\ C \in SUBSET Heroes
          /\ A \cap B = B /\ (A \ B) \cap C = {} /\ A \ B \in SUBSET Heroes
          /\ Seats(U, r) = (A \ B) \cup C /\ Seats(U, r) \in SUBSET Heroes
      BY DEF Seats
    <2> HIDE DEF A, B, C, U
    <2>2. /\ IsFiniteSet(A) /\ IsFiniteSet(B) /\ IsFiniteSet(C) /\ IsFiniteSet(A \ B)
          /\ Cardinality(A) \in Nat /\ Cardinality(B) \in Nat /\ Cardinality(C) \in Nat
          /\ Cardinality(Seats(U, r)) \in Nat
      BY <2>1, SixesFinite
    <2>3. Cardinality(A \ B) = Cardinality(A) - Cardinality(B)
      BY <2>1, <2>2, FS_Difference
    <2>4. Cardinality((A \ B) \cup C) = Cardinality(A \ B) + Cardinality(C)
      BY <2>1, <2>2, Joined
    <2> QED BY <2>1, <2>2, <2>3, <2>4 DEF A, B, C
<1>2. ASSUME ShapeOf(out) = ShapeOf(in) PROVE ShapeOf(U) = ShapeOf(T)
  <2>1. \A r \in Roles : Cardinality(Seats(out, r)) = Cardinality(Seats(in, r))
    BY <1>2 DEF ShapeOf
  <2>2. \A r \in Roles : Cardinality(Seats(U, r)) = Cardinality(Seats(T, r))
    <3> HIDE DEF U
    <3> QED BY <1>1, <2>1
  <2> HIDE DEF U
  <2> QED BY <2>2, SameShape
<1>3. ASSUME ShapeOf(U) = ShapeOf(T) PROVE ShapeOf(out) = ShapeOf(in)
  <2>1. \A r \in Roles : Cardinality(Seats(U, r)) = Cardinality(Seats(T, r))
    <3> HIDE DEF U
    <3> QED BY <1>3 DEF ShapeOf
  <2>2. \A r \in Roles : Cardinality(Seats(out, r)) = Cardinality(Seats(in, r))
    <3> HIDE DEF U
    <3> QED BY <1>1, <2>1
  <2> QED BY <2>2, SameShape
<1> QED BY <1>2, <1>3

\* A six that keeps the locks, of heroes in play, of a legal shape, that no limit refuses.
Legal(T) ==
    /\ Locked(board) \subseteq T /\ T \subseteq Roster
    /\ ShapeOf(T) \in LegalShapes /\ ~Refused(board, T)

Legals == {Verdict(T) : T \in {U \in SUBSET Released : Legal(U)}}

\* A legal six has a verdict to be ranked by.
LEMMA LegalsRanked ==
    ASSUME Scaled
    PROVE  /\ Legals \subseteq Ranked
           /\ \A v \in Legals : Legal(v.six)
           /\ \A T : Legal(T) => Verdict(T) \in Legals
<1>1. ASSUME NEW T, Legal(T)
      PROVE  T \in Sixes
  <2>1. T \in SUBSET Released /\ T \in SUBSET Heroes /\ ShapeOf(T) \in LegalShapes
    BY <1>1, SearchAssumption DEF Legal, Roster
  <2>2. ShapeOf(T)["tank"] + ShapeOf(T)["damage"] + ShapeOf(T)["support"] = TeamSize
    BY <2>1 DEF LegalShapes
  <2>3. Cardinality(T) = TeamSize
    BY <2>1, <2>2, ShapeSum
  <2> QED BY <2>1, <2>3 DEF Sixes
<1>2. Legals \subseteq Ranked
  BY <1>1 DEF Legals, Ranked
<1>3. \A v \in Legals : Legal(v.six)
  BY DEF Legals, Verdict
<1>4. \A T : Legal(T) => T \in SUBSET Released
  BY DEF Legal, Roster
<1> QED BY <1>2, <1>3, <1>4 DEF Legals

\* T's seats hold the locks, heroes in play and a legal shape: only a limit is left to ask.
Seated(T) == Locked(board) \subseteq T /\ T \subseteq Roster /\ ShapeOf(T) \in LegalShapes

\* What the limits leave of seated sixes is legal.
LEMMA JudgedSeated ==
    ASSUME Scaled, NEW S, \A T \in S : Seated(T)
    PROVE  Judged(S) \subseteq Legals
<1> SUFFICES ASSUME NEW T \in Prepared(S) PROVE Verdict(T) \in Legals
  BY DEF Judged
<1>1. T \in S /\ ~Refused(board, T)
  BY DEF Prepared
<1>2. Legal(T)
  BY <1>1 DEF Legal, Seated
<1> QED BY <1>2, LegalsRanked

\* A swap, a pair brought in, the enumeration and a redraw keep a six seated.
LEMMA SwapsSeated ==
    ASSUME Scaled, NEW T, Seated(T), NEW n
    PROVE  \A U \in Swaps(T, n) : Seated(U) /\ ShapeOf(U) = ShapeOf(T)
<1> SUFFICES ASSUME NEW U \in Swaps(T, n) PROVE Seated(U) /\ ShapeOf(U) = ShapeOf(T)
  OBVIOUS
<1>1. PICK out \in kSubset(n, T \ Locked(board)), in \in kSubset(n, Roster \ T) :
        ShapeOf(out) = ShapeOf(in) /\ U = (T \ out) \cup in
  BY DEF Swaps
<1>2. out \subseteq T \ Locked(board) /\ in \subseteq Roster \ T
  BY <1>1 DEF kSubset
<1>3. T \in SUBSET Heroes /\ in \in SUBSET Heroes
  BY <1>2, SearchAssumption DEF Seated, Roster
<1>4. ShapeOf(U) = ShapeOf(T)
  BY <1>1, <1>2, <1>3, Reseated
<1> QED BY <1>1, <1>2, <1>4 DEF Seated

LEMMA SeatingsSeated ==
    ASSUME Scaled, NEW T, Seated(T), NEW p \in Pairs, p \cap T = {}
    PROVE  \A U \in Seatings(T, p) : Seated(U)
<1> SUFFICES ASSUME NEW U \in Seatings(T, p) PROVE Seated(U)
  OBVIOUS
<1>1. PICK out \in kSubset(2, T \ Locked(board)) : ShapeOf(out) = ShapeOf(p) /\ U = (T \ out) \cup p
  BY DEF Seatings
<1>2. out \subseteq T \ Locked(board) /\ p \subseteq Roster
  BY <1>1 DEF kSubset, Pairs
<1>3. T \in SUBSET Heroes /\ p \in SUBSET Heroes
  BY <1>2, SearchAssumption DEF Seated, Roster
<1>4. ShapeOf(U) = ShapeOf(T)
  BY <1>1, <1>2, <1>3, Reseated
<1> QED BY <1>1, <1>2, <1>4 DEF Seated

LEMMA AroundSeated ==
    ASSUME Scaled, NEW C, C \subseteq Roster
    PROVE  \A T \in Around(Locked(board), C) : Seated(T)
BY SearchAssumption DEF Scaled, Around, kSubset, Roster, Seated

LEMMA RedrawsSeated ==
    ASSUME Scaled
    PROVE  \A T \in Redraws : Seated(T)
<1>1. Roster \ Locked(board) \subseteq Roster
  OBVIOUS
<1>2. \A T \in Around(Locked(board), Roster \ Locked(board)) : Seated(T)
  BY <1>1, AroundSeated
<1> QED BY <1>2 DEF Redraws

LEMMA SweepSeated ==
    ASSUME Scaled
    PROVE  \A T \in LegalSixes : Seated(T)
<1>1. \A r \in Roles : Pool(r) \subseteq Roster
  BY DEF Pool, First, Seats, Roster
<1>2. UNION {Pool(r) : r \in Roles} \subseteq Roster
  BY <1>1
<1> QED BY <1>2, AroundSeated DEF LegalSixes

\* A legal six one or two open seats away from another of its shape is one of
\* the swaps of it: nothing between them escapes the last two moves.
LEMMA TwoAway ==
    ASSUME Scaled, NEW T, Legal(T), NEW U, Legal(U), ShapeOf(U) = ShapeOf(T), Cardinality(U \ T) <= 2
    PROVE  U = T \/ Verdict(U) \in Judged(Swaps(T, 1)) \/ Verdict(U) \in Judged(Swaps(T, 2))
<1> DEFINE out == T \ U
           in == U \ T
<1>1. /\ T \in Sixes /\ U \in Sixes /\ T \in SUBSET Heroes /\ U \in SUBSET Heroes
      /\ IsFiniteSet(T) /\ IsFiniteSet(U) /\ Cardinality(T) = TeamSize /\ Cardinality(U) = TeamSize
  <2>1. Verdict(T) \in Ranked /\ Verdict(U) \in Ranked
    BY LegalsRanked
  <2>2. Verdict(T).six = T /\ Verdict(U).six = U
    BY DEF Verdict
  <2>3. T \in Sixes /\ U \in Sixes
    BY <2>1, <2>2, RankedIs
  <2> QED BY <2>3, SixesFinite
<1>2. /\ out \in SUBSET T /\ in \in SUBSET Heroes /\ T \cap in = {} /\ (T \ out) \cup in = U
      /\ out \in SUBSET Heroes
  BY <1>1
<1>3. ShapeOf(out) = ShapeOf(in)
  <2> HIDE DEF out, in
  <2> QED BY <1>1, <1>2, Reseated
<1>4. Cardinality(out) = Cardinality(in) /\ Cardinality(in) \in Nat
  <2> HIDE DEF out, in
  <2>1. Cardinality(out) = ShapeOf(out)["tank"] + ShapeOf(out)["damage"] + ShapeOf(out)["support"]
    BY <1>1, <1>2, ShapeSum
  <2>2. Cardinality(in) = ShapeOf(in)["tank"] + ShapeOf(in)["damage"] + ShapeOf(in)["support"]
    BY <1>2, ShapeSum
  <2>3. Cardinality(in) \in Nat
    BY <1>2, SixesFinite
  <2> QED BY <1>3, <2>1, <2>2, <2>3
<1>5. out \in SUBSET (T \ Locked(board)) /\ in \in SUBSET (Roster \ T)
  BY DEF Legal
<1>6. U \in Swaps(T, Cardinality(in))
  <2>1. out \in kSubset(Cardinality(in), T \ Locked(board)) /\ in \in kSubset(Cardinality(in), Roster \ T)
    <3> HIDE DEF out, in
    <3> QED BY <1>4, <1>5 DEF kSubset
  <2> HIDE DEF out, in
  <2>2. <<out, in>> \in {q \in kSubset(Cardinality(in), T \ Locked(board)) \X kSubset(Cardinality(in), Roster \ T) :
                            ShapeOf(q[1]) = ShapeOf(q[2])}
    BY <1>3, <2>1
  <2>3. (T \ <<out, in>>[1]) \cup <<out, in>>[2] = U
    BY <1>2
  <2> QED BY <2>2, <2>3 DEF Swaps
<1>7. Verdict(U) \in Judged(Swaps(T, Cardinality(in)))
  BY <1>6 DEF Judged, Prepared, Legal
<1>8. CASE Cardinality(in) = 0
  <2>1. in = {} /\ out = {}
    <3>1. IsFiniteSet(in) /\ IsFiniteSet(out)
      BY <1>1, <1>2, SixesFinite
    <3> HIDE DEF in, out
    <3> QED BY <1>4, <1>8, <3>1, FS_EmptySet
  <2> QED BY <1>2, <2>1
<1>9. Cardinality(in) = 0 \/ Cardinality(in) = 1 \/ Cardinality(in) = 2
  <2>1. Cardinality(in) <= 2
    OBVIOUS
  <2> HIDE DEF in
  <2> QED BY <1>4, <2>1
<1> QED BY <1>7, <1>8, <1>9

-----------------------------------------------------------------------------
(* The slices of a round.                                                  *)

Place(S, T) == Cardinality({U \in S : NamesBefore(U, T)}) % Slices

\* What the first n slices of S hold.
Seen(S, n) == {T \in S : Place(S, T) < n}

\* The slices of a round are disjoint, and the last one completes the list.
LEMMA Slicing ==
    ASSUME NEW S, IsFiniteSet(S)
    PROVE  /\ Seen(S, 0) = {} /\ Seen(S, Slices) = S
           /\ \A n \in 0..Slices - 1 : /\ Seen(S, n + 1) = Seen(S, n) \cup SliceOf(S, n)
                                       /\ Seen(S, n) \cap SliceOf(S, n) = {}
<1>1. \A T \in S : Place(S, T) \in 0..Slices - 1
  <2> SUFFICES ASSUME NEW T \in S PROVE Place(S, T) \in 0..Slices - 1
    OBVIOUS
  <2>1. Cardinality({U \in S : NamesBefore(U, T)}) \in Nat
    <3>1. {U \in S : NamesBefore(U, T)} \in SUBSET S
      OBVIOUS
    <3> QED BY <3>1, FS_Subset, FS_CardinalityType
  <2>2. Slices \in Nat \ {0}
    BY SearchAssumption
  <2>3. PICK c \in Nat : c = Cardinality({U \in S : NamesBefore(U, T)})
    BY <2>1
  <2>4. c % Slices \in 0..Slices - 1
    BY <2>2
  <2> QED BY <2>3, <2>4 DEF Place
<1>2. \A n : SliceOf(S, n) = {T \in S : Place(S, T) = n}
  BY DEF SliceOf, Place
<1>3. Slices \in Nat \ {0}
  BY SearchAssumption
<1>4. Seen(S, 0) = {} /\ Seen(S, Slices) = S
  BY <1>1, <1>3 DEF Seen
<1>5. ASSUME NEW n \in 0..Slices - 1
      PROVE  Seen(S, n + 1) = Seen(S, n) \cup SliceOf(S, n) /\ Seen(S, n) \cap SliceOf(S, n) = {}
  <2>1. \A T \in S : Place(S, T) \in Int /\ n \in Int
    BY <1>1
  <2>2. \A T \in S : Place(S, T) < n + 1 <=> (Place(S, T) < n \/ Place(S, T) = n)
    BY <2>1
  <2>3. \A T \in S : ~(Place(S, T) < n /\ Place(S, T) = n)
    BY <2>1
  <2> QED BY <1>2, <2>2, <2>3 DEF Seen
<1> QED BY <1>4, <1>5

-----------------------------------------------------------------------------
(* The scale.                                                              *)

\* The bounds bd are, on board b, each rule's extremes over the sixes P.
Readings(b, r, P) == {Raw(b, r, T) : T \in P} \ {NoReading}

Extreme(bd, r, values) ==
    /\ bd[r].low \in values /\ bd[r].high \in values
    /\ \A x \in values : bd[r].low <= x /\ x <= bd[r].high

Fits(b, bd, P) ==
    /\ DOMAIN bd = {r \in Rules : Readings(b, r, P) # {}}
    /\ \A r \in DOMAIN bd : Extreme(bd, r, Readings(b, r, P))

\* A rule's readings are finitely many numbers.
LEMMA ReadingsInt ==
    ASSUME NEW b \in Boards, NEW r \in Rules, NEW P, P \subseteq Sixes
    PROVE  Readings(b, r, P) \subseteq Int /\ IsFiniteSet(Readings(b, r, P))
<1>1. Readings(b, r, P) \subseteq Int
  BY SearchAssumption DEF Readings, Sixes
<1>2. IsFiniteSet(P)
  BY SixesFinite, FS_Subset
<1> DEFINE g == [T \in P |-> Raw(b, r, T)]
           I == {Raw(b, r, T) : T \in P}
<1>3. g \in Surjection(P, I)
  BY DEF Surjection
<1>4. IsFiniteSet(I)
  <2> HIDE DEF g, I
  <2> QED BY <1>2, <1>3, FS_Surjection
<1>5. IsFiniteSet(I \ {NoReading})
  <2> HIDE DEF I
  <2> QED BY <1>4, FS_Difference
<1> QED BY <1>1, <1>5 DEF Readings

\* Bounds that fit are numbers.
LEMMA FitsScaled ==
    ASSUME board \in Boards, NEW P, P \subseteq Sixes, Fits(board, bounds, P)
    PROVE  Scaled
<1>1. \A r \in DOMAIN bounds : r \in Rules
  BY DEF Fits
<1>2. \A r \in DOMAIN bounds : Readings(board, r, P) \subseteq Int
  BY <1>1, ReadingsInt
<1> QED BY <1>2 DEF Fits, Extreme, Scaled

\* A slice's bounds fit what the slice holds.
LEMMA OverFits ==
    ASSUME board \in Boards, NEW Q, Q \subseteq Sixes
    PROVE  Fits(board, BoundsOver(Q), Q)
<1>1. \A r : Valued(r, Q) = Readings(board, r, Q)
  BY DEF Valued, Readings
<1>2. /\ DOMAIN BoundsOver(Q) = {r \in Rules : Readings(board, r, Q) # {}}
      /\ \A r \in DOMAIN BoundsOver(Q) : /\ BoundsOver(Q)[r].low = Min(Readings(board, r, Q))
                                         /\ BoundsOver(Q)[r].high = Max(Readings(board, r, Q))
  BY <1>1 DEF BoundsOver
<1>3. ASSUME NEW r \in DOMAIN BoundsOver(Q)
      PROVE  Extreme(BoundsOver(Q), r, Readings(board, r, Q))
  <2>1. Readings(board, r, Q) \subseteq Int /\ IsFiniteSet(Readings(board, r, Q)) /\ Readings(board, r, Q) # {}
    BY <1>2, ReadingsInt
  <2> QED BY <1>2, <2>1, Extremes DEF Extreme
<1> QED BY <1>2, <1>3 DEF Fits

\* Two slices' bounds merge into the bounds of both; a rule only one of them
\* values keeps that one's.
LEMMA WidenFits ==
    ASSUME NEW b \in Boards, NEW P, P \subseteq Sixes, NEW Q, Q \subseteq Sixes,
           NEW bd, Fits(b, bd, P), NEW part, Fits(b, part, Q)
    PROVE  Fits(b, Widen(bd, part), P \cup Q)
<1> DEFINE W == Widen(bd, part)
<1>1. \A r : Readings(b, r, P \cup Q) = Readings(b, r, P) \cup Readings(b, r, Q)
  BY DEF Readings
<1>2. DOMAIN W = DOMAIN bd \cup DOMAIN part
  BY DEF Widen
<1>3. /\ DOMAIN bd = {r \in Rules : Readings(b, r, P) # {}}
      /\ DOMAIN part = {r \in Rules : Readings(b, r, Q) # {}}
  BY DEF Fits
<1>4. DOMAIN W = {r \in Rules : Readings(b, r, P \cup Q) # {}}
  BY <1>1, <1>2, <1>3
<1>5. ASSUME NEW r \in DOMAIN W
      PROVE  Extreme(W, r, Readings(b, r, P \cup Q))
  <2>1. r \in DOMAIN bd \cup DOMAIN part /\ r \in Rules
    BY <1>2, <1>4
  <2>2. Readings(b, r, P) \subseteq Int /\ Readings(b, r, Q) \subseteq Int
    BY <2>1, ReadingsInt
  <2>3. r \in DOMAIN bd => Extreme(bd, r, Readings(b, r, P))
    BY DEF Fits
  <2>4. r \in DOMAIN part => Extreme(part, r, Readings(b, r, Q))
    BY DEF Fits
  <2>5. W[r] = IF r \notin DOMAIN part THEN bd[r] ELSE IF r \notin DOMAIN bd THEN part[r]
               ELSE [low  |-> Min({bd[r].low, part[r].low}), high |-> Max({bd[r].high, part[r].high})]
    BY <2>1 DEF Widen
  <2> HIDE DEF W
  <2>6. CASE r \notin DOMAIN part
    <3>1. Readings(b, r, Q) = {} /\ r \in DOMAIN bd /\ W[r] = bd[r]
      BY <1>3, <2>1, <2>5, <2>6
    <3> QED BY <1>1, <2>3, <3>1 DEF Extreme
  <2>7. CASE r \notin DOMAIN bd
    <3>1. Readings(b, r, P) = {} /\ r \in DOMAIN part /\ W[r] = part[r]
      BY <1>3, <2>1, <2>5, <2>7
    <3> QED BY <1>1, <2>4, <3>1 DEF Extreme
  <2>8. CASE r \in DOMAIN bd /\ r \in DOMAIN part
    <3>1. W[r].low = Min({bd[r].low, part[r].low}) /\ W[r].high = Max({bd[r].high, part[r].high})
      BY <2>5, <2>8
    <3>2. /\ bd[r].low \in Readings(b, r, P) /\ bd[r].high \in Readings(b, r, P)
          /\ part[r].low \in Readings(b, r, Q) /\ part[r].high \in Readings(b, r, Q)
          /\ \A x \in Readings(b, r, P) : bd[r].low <= x /\ x <= bd[r].high
          /\ \A x \in Readings(b, r, Q) : part[r].low <= x /\ x <= part[r].high
      BY <2>3, <2>4, <2>8 DEF Extreme
    <3>3. bd[r].low \in Int /\ bd[r].high \in Int /\ part[r].low \in Int /\ part[r].high \in Int
      BY <2>2, <3>2
    <3>4. /\ W[r].low \in {bd[r].low, part[r].low} /\ W[r].low <= bd[r].low /\ W[r].low <= part[r].low
          /\ W[r].high \in {bd[r].high, part[r].high} /\ bd[r].high <= W[r].high /\ part[r].high <= W[r].high
      BY <3>1, <3>3, OfTwo
    <3>5. W[r].low \in Readings(b, r, P \cup Q) /\ W[r].high \in Readings(b, r, P \cup Q)
      BY <1>1, <3>2, <3>4
    <3>6. ASSUME NEW x \in Readings(b, r, P \cup Q) PROVE W[r].low <= x /\ x <= W[r].high
      <4>1. x \in Int /\ W[r].low \in Int /\ W[r].high \in Int
        BY <1>1, <2>2, <3>3, <3>4
      <4>2. x \in Readings(b, r, P) \/ x \in Readings(b, r, Q)
        BY <1>1
      <4> QED BY <3>2, <3>3, <3>4, <4>1, <4>2
    <3> QED BY <3>5, <3>6 DEF Extreme
  <2> QED BY <2>1, <2>6, <2>7, <2>8
<1> QED BY <1>4, <1>5 DEF Fits

-----------------------------------------------------------------------------
(* The standing.                                                           *)

LEMMA NothingSums ==
    ASSUME NEW w \in [{} -> Int]
    PROVE  Total(w, {}) = 0
<1>1. IsFiniteSet({})
  BY FS_EmptySet
<1>2. PICK f \in [SUBSET {} -> Int] : Sums(f, w, {})
  BY <1>1, SumsExist
<1>3. f[{}] = 0
  BY <1>2 DEF Sums
<1>4. Total(w, {}) = f[{}]
  BY <1>1, <1>2, TotalIs
<1> QED BY <1>3, <1>4

Unscored == [h \in Heroes |-> [total |-> 0, sixes |-> 0]]

\* No six, no standing.
LEMMA TallyOfNone == ASSUME Scaled PROVE TallyOver({}) = Unscored
<1>1. MapThenSumSet(Score, {}) = 0
  <2>1. MapThenSumSet(Score, {}) = Total([T \in {} |-> Score(T)], {})
    BY FS_EmptySet, ScoreTotal
  <2>2. [T \in {} |-> Score(T)] \in [{} -> Int]
    OBVIOUS
  <2> QED BY <2>1, <2>2, NothingSums
<1>2. Cardinality({}) = 0
  BY FS_EmptySet
<1>3. \A h \in Heroes : {T \in {} : h \in T} = {}
  OBVIOUS
<1> QED BY <1>1, <1>2, <1>3 DEF TallyOver, Unscored

\* The standings of two lists that share no six add up to that of both.
LEMMA TallyJoined ==
    ASSUME Scaled, NEW A, A \subseteq Sixes, NEW B, B \subseteq Sixes, A \cap B = {}
    PROVE  MergeTallies(TallyOver(A), TallyOver(B)) = TallyOver(A \cup B)
<1> DEFINE With(S, h) == {T \in S : h \in T}
           Stood(S, h) == [total |-> MapThenSumSet(Score, With(S, h)), sixes |-> Cardinality(With(S, h))]
<1>1. \A S, h : S \subseteq Sixes => /\ IsFiniteSet(With(S, h)) /\ \A T \in With(S, h) : Score(T) \in Int
  <2> SUFFICES ASSUME NEW S, NEW h, S \subseteq Sixes
               PROVE  IsFiniteSet(With(S, h)) /\ \A T \in With(S, h) : Score(T) \in Int
    OBVIOUS
  <2>1. With(S, h) \in SUBSET Sixes
    OBVIOUS
  <2>2. IsFiniteSet(With(S, h))
    BY <2>1, SixesFinite, FS_Subset
  <2> QED BY <2>1, <2>2, ScoreInt
<1>2. \A S : TallyOver(S) = [h \in Heroes |-> Stood(S, h)]
  BY DEF TallyOver
<1>3. ASSUME NEW h \in Heroes
      PROVE  /\ Stood(A \cup B, h).total = Stood(A, h).total + Stood(B, h).total
             /\ Stood(A \cup B, h).sixes = Stood(A, h).sixes + Stood(B, h).sixes
  <2> DEFINE X == With(A, h)
             Y == With(B, h)
  <2>1. With(A \cup B, h) = X \cup Y /\ X \cap Y = {}
    OBVIOUS
  <2>2. /\ IsFiniteSet(X) /\ IsFiniteSet(Y)
        /\ \A T \in X : Score(T) \in Int
        /\ \A T \in Y : Score(T) \in Int
    BY <1>1
  <2> HIDE DEF X, Y, With
  <2>3. IsFiniteSet(X \cup Y) /\ Cardinality(X \cup Y) = Cardinality(X) + Cardinality(Y)
    BY <2>1, <2>2, Joined
  <2> DEFINE w == [T \in X \cup Y |-> Score(T)]
             u == [T \in X |-> Score(T)]
             v == [T \in Y |-> Score(T)]
  <2>4. /\ MapThenSumSet(Score, X) = Total(u, X) /\ MapThenSumSet(Score, Y) = Total(v, Y)
        /\ MapThenSumSet(Score, X \cup Y) = Total(w, X \cup Y)
    BY <2>2, <2>3, ScoreTotal
  <2>5. /\ w \in [X \cup Y -> Int] /\ u \in [X -> Int] /\ v \in [Y -> Int]
        /\ \A T \in X : u[T] = w[T]
        /\ \A T \in Y : v[T] = w[T]
    BY <2>2
  <2>6. Total(w, X \cup Y) = Total(u, X) + Total(v, Y)
    <3> HIDE DEF u, v, w
    <3>1. Parts(w, X, u, Y, v)
      BY <2>1, <2>2, <2>5, TotalApart
    <3> QED BY <3>1 DEF Parts
  <2> HIDE DEF u, v, w
  <2>7. Stood(A \cup B, h).total = MapThenSumSet(Score, X \cup Y) /\ Stood(A \cup B, h).sixes = Cardinality(X \cup Y)
    BY <2>1
  <2>8. /\ Stood(A, h).total = MapThenSumSet(Score, X) /\ Stood(A, h).sixes = Cardinality(X)
        /\ Stood(B, h).total = MapThenSumSet(Score, Y) /\ Stood(B, h).sixes = Cardinality(Y)
    BY DEF X, Y
  <2> QED BY <2>3, <2>4, <2>6, <2>7, <2>8
<1>4. \A S, h : Stood(S, h) = [total |-> Stood(S, h).total, sixes |-> Stood(S, h).sixes]
  OBVIOUS
<1> HIDE DEF Stood
<1>5. MergeTallies(TallyOver(A), TallyOver(B)) =
        [h \in Heroes |-> [total |-> Stood(A, h).total + Stood(B, h).total,
                           sixes |-> Stood(A, h).sixes + Stood(B, h).sixes]]
  BY <1>2 DEF MergeTallies
<1>6. \A h \in Heroes : Stood(A \cup B, h) = [total |-> Stood(A, h).total + Stood(B, h).total,
                                              sixes |-> Stood(A, h).sixes + Stood(B, h).sixes]
  BY <1>3, <1>4
<1> QED BY <1>2, <1>5, <1>6

-----------------------------------------------------------------------------
(* What a step that leaves the board and its scale alone leaves alone.     *)

NormAt(bd, r, value) ==
    LET low  == IF r \in DOMAIN bd THEN bd[r].low ELSE 0
        high == IF r \in DOMAIN bd THEN bd[r].high ELSE 0
        at01 == Max({0, Min({Unit, ((value - low) * Unit) \div (high - low)})})
    IN  IF high <= low THEN IF r \in Needs THEN Unit ELSE Unit \div 2
        ELSE IF r \in Minimize THEN Unit - at01 ELSE at01
WeightedAt(b, bd, r, T) ==
    IF Raw(b, r, T) = NoReading THEN 0
    ELSE Weight[r] * (NormAt(bd, r, Raw(b, r, T)) - IF r \in Needs THEN Unit ELSE 0)
ScoreAt(b, bd, T) == Base(b, T) + MapThenSumSet(LAMBDA r : WeightedAt(b, bd, r, T), Rules)

\* A score depends on the board and the bounds alone.
LEMMA ScoreIsAt == ASSUME NEW T PROVE Score(T) = ScoreAt(board, bounds, T)
BY DEF Score, ScoreAt, Weighted, WeightedAt, Norm, NormAt

LEMMA VerdictKept ==
    ASSUME board' = board, bounds' = bounds
    PROVE  \A T : Verdict(T)' = Verdict(T)
<1> SUFFICES ASSUME NEW T PROVE Verdict(T)' = Verdict(T)
  OBVIOUS
<1>1. Score(T) = ScoreAt(board, bounds, T)
  BY ScoreIsAt
<1>2. (Score(T) = ScoreAt(board, bounds, T))'
  BY ScoreIsAt, PTL
<1>3. Score(T)' = Score(T)
  BY <1>1, <1>2
<1> QED BY <1>3 DEF Verdict

LEMMA BoardKept ==
    ASSUME board' = board
    PROVE  /\ Roster' = Roster /\ Pairs' = Pairs
           /\ \A S : Prepared(S)' = Prepared(S)
           /\ \A T, n : Swaps(T, n)' = Swaps(T, n)
           /\ \A T, p : Seatings(T, p)' = Seatings(T, p)
           /\ \A T : Legal(T)' <=> Legal(T)
BY DEF Roster, Pairs, Prepared, Swaps, Seatings, Legal

LEMMA JudgedKept ==
    ASSUME board' = board, bounds' = bounds
    PROVE  /\ \A S : Judged(S)' = Judged(S)
           /\ Ranked' = Ranked /\ Legals' = Legals /\ (Scaled' <=> Scaled)
<1>1. \A T : Verdict(T)' = Verdict(T)
  BY VerdictKept
<1>2. \A S : Judged(S)' = Judged(S)
  BY <1>1, BoardKept DEF Judged
<1>3. Ranked' = Ranked
  BY <1>1 DEF Ranked
<1>4. Legals' = Legals
  BY <1>1, BoardKept DEF Legals
<1>5. Scaled' <=> Scaled
  BY DEF Scaled
<1> QED BY <1>2, <1>3, <1>4, <1>5

\* The verdicts of the sixes n open seats away that no limit refuses.
Near(b, bd, T, n) ==
    LET Next(U) == [six |-> U, score |-> ScoreAt(b, bd, U), tiebreak |-> Tiebreak(b, U)]
        Swapped == {(T \ p[1]) \cup p[2] :
                      p \in {q \in kSubset(n, T \ Locked(b)) \X kSubset(n, (Released \ Banned(b)) \ T) :
                                ShapeOf(q[1]) = ShapeOf(q[2])}}
    IN  {Next(U) : U \in {V \in Swapped : ~Refused(b, V)}}

LEMMA NearIs == ASSUME NEW T, NEW n PROVE Judged(Swaps(T, n)) = Near(board, bounds, T, n)
BY ScoreIsAt DEF Judged, Prepared, Verdict, Swaps, Roster, Near

TallyAt(b, bd, S) == [h \in Heroes |->
    LET with == {T \in S : h \in T}
    IN  [total |-> MapThenSumSet(LAMBDA T : ScoreAt(b, bd, T), with), sixes |-> Cardinality(with)]]

LEMMA TallyIsAt == ASSUME NEW S PROVE TallyOver(S) = TallyAt(board, bounds, S)
BY DEF TallyOver, TallyAt, Score, ScoreAt, Weighted, WeightedAt, Norm, NormAt

LEMMA TallyOfSample == TallyOver(Prepared(sample)) = TallyAt(board, bounds, Prepared(sample))
<1>1. \A S : TallyOver(S) = TallyAt(board, bounds, S)
  BY TallyIsAt
<1> QED BY <1>1

PoolAt(b, ty, r) ==
    LET Partnered(h) == Cardinality({a \in Locked(b) : {a, h} \in Synergies})
        Before(h, k) ==
            LET n == ty[h].sixes  m == ty[k].sixes
                x == (2 * ty[h].total + Unit * Partnered(h) * n) * m
                y == (2 * ty[k].total + Unit * Partnered(k) * m) * n
                p == Prior(b, h) + 2 * Partnered(h)
                q == Prior(b, k) + 2 * Partnered(k)
                level == (n = 0 /\ m = 0) \/ (n > 0 /\ m > 0 /\ x = y)
            IN  \/ n > 0 /\ (m = 0 \/ x > y)
                \/ level /\ (p > q \/ (p = q /\ h < k))
    IN  First(PoolSize, Seats(Released \ (Locked(b) \cup Banned(b)), r), Before)
SweptAt(b, ty) == Around(Locked(b), UNION {PoolAt(b, ty, r) : r \in Roles})
FieldAt(b) == Around({}, UNION {First(ScalePool, Seats(Released, r),
                  LAMBDA h, k : \/ Prior(b, h) > Prior(b, k)
                                \/ Prior(b, h) = Prior(b, k) /\ h < k) : r \in Roles})

LEMMA ListsAreAt == LegalSixes = SweptAt(board, tally) /\ BoardField = FieldAt(board)
BY DEF LegalSixes, SweptAt, Pool, PoolAt, PoolBefore, Partners, BoardField, FieldAt, BoardPool, First

LEMMA ListsKept ==
    ASSUME board' = board
    PROVE  BoardField' = BoardField /\ (tally' = tally => LegalSixes' = LegalSixes)
<1>1. LegalSixes = SweptAt(board, tally) /\ BoardField = FieldAt(board)
  BY ListsAreAt
<1>2. (LegalSixes = SweptAt(board, tally) /\ BoardField = FieldAt(board))'
  BY ListsAreAt, PTL
<1> QED BY <1>1, <1>2

\* The sixes of the board's field, and those of the sweep.
LEMMA ListsOfSixes ==
    ASSUME board \in Boards, sample \in Samples
    PROVE  sample \subseteq Sixes /\ BoardField \subseteq Sixes /\ LegalSixes \subseteq Sixes
<1>1. sample \subseteq Sixes
  BY SearchAssumption DEF Sixes
<1>2. ASSUME NEW T \in SUBSET Released, ShapeOf(T) \in LegalShapes PROVE T \in Sixes
  <2>1. T \in SUBSET Heroes
    BY SearchAssumption
  <2>2. Cardinality(T) = TeamSize
    BY <1>2, <2>1, ShapeSum DEF LegalShapes
  <2> QED BY <2>2 DEF Sixes
<1>3. BoardField \subseteq Sixes
  <2>1. UNION {BoardPool(r) : r \in Roles} \subseteq Released
    BY DEF BoardPool, First, Seats
  <2> DEFINE C == UNION {BoardPool(r) : r \in Roles}
  <2>2. \A T \in BoardField : T \in SUBSET Released /\ ShapeOf(T) \in LegalShapes
    <3> HIDE DEF C
    <3>1. BoardField = Around({}, C)
      BY DEF BoardField, C
    <3> QED BY <2>1, <3>1 DEF Around, kSubset, C
  <2> QED BY <1>2, <2>2
<1>4. LegalSixes \subseteq Sixes
  <2>1. UNION {Pool(r) : r \in Roles} \subseteq Released
    BY DEF Pool, First, Seats
  <2> DEFINE C == UNION {Pool(r) : r \in Roles}
  <2>2. Locked(board) \subseteq Released
    BY SearchAssumption
  <2>3. \A T \in LegalSixes : T \in SUBSET Released /\ ShapeOf(T) \in LegalShapes
    <3> HIDE DEF C
    <3>1. LegalSixes = Around(Locked(board), C)
      BY DEF LegalSixes, C
    <3> QED BY <2>1, <2>2, <3>1 DEF Around, kSubset, C
  <2> QED BY <1>2, <2>3
<1> QED BY <1>1, <1>3, <1>4

\* The population the scale is measured on, as one list.
LEMMA MeasuredIs == board \in Boards /\ sample \in Samples => Measured = Prepared(sample \cup BoardField)
<1> SUFFICES ASSUME board \in Boards, sample \in Samples
             PROVE  Measured = Prepared(sample \cup BoardField)
  OBVIOUS
<1> DEFINE Ahead(h, k) == \/ Prior(board, h) > Prior(board, k)
                          \/ Prior(board, h) = Prior(board, k) /\ h < k
           Pools == {h \in Released : Cardinality({k \in Seats(Released, RoleOf[h]) : Ahead(k, h)}) < ScalePool}
           C == UNION {BoardPool(r) : r \in Roles}
<1>1. \A r : BoardPool(r) = {h \in Seats(Released, r) : Cardinality({k \in Seats(Released, r) : Ahead(k, h)}) < ScalePool}
  BY DEF BoardPool, First
<1>2. \A h \in Released : RoleOf[h] \in Roles
  BY SearchAssumption DEF Roles
<1>3. C = Pools
  <2> HIDE DEF Ahead
  <2>1. ASSUME NEW h \in C PROVE h \in Pools
    <3>1. PICK r \in Roles : h \in BoardPool(r)
      OBVIOUS
    <3>2. h \in Released /\ RoleOf[h] = r
      BY <1>1, <3>1 DEF Seats
    <3> QED BY <1>1, <3>1, <3>2
  <2>2. ASSUME NEW h \in Pools PROVE h \in C
    <3>1. h \in Seats(Released, RoleOf[h]) /\ RoleOf[h] \in Roles
      BY <1>2 DEF Seats
    <3>2. h \in BoardPool(RoleOf[h])
      BY <1>1, <3>1
    <3> QED BY <3>1, <3>2
  <2> HIDE DEF C, Pools
  <2> QED BY <2>1, <2>2
<1>4. BoardField = {T \in kSubset(TeamSize, C) : ShapeOf(T) \in LegalShapes}
  <2>1. Cardinality({}) = 0 /\ TeamSize \in Nat
    BY FS_EmptySet, SearchAssumption
  <2>2. BoardField = Around({}, C)
    BY DEF BoardField
  <2> HIDE DEF C
  <2>3. \A x : {} \cup x = x
    OBVIOUS
  <2>4. TeamSize - Cardinality({}) = TeamSize
    BY <2>1
  <2> QED BY <2>2, <2>3, <2>4 DEF Around
<1>5. Measured = Prepared(sample \cup {T \in kSubset(TeamSize, Pools) : ShapeOf(T) \in LegalShapes})
  BY DEF Measured
<1> HIDE DEF C, Pools
<1> QED BY <1>3, <1>4, <1>5

-----------------------------------------------------------------------------
(* The invariant.                                                          *)

Opening == {"sampling", "tallying", "sweeping", "ranking", "infeasible"}
Moving  == {"seeds", "pairs", "restarts", "twoswaps", "done"}

\* What a step reads and writes is of the board; nothing is known until the
\* sweep is over, and pairs are brought in between two climbs.
Typed ==
    /\ board \in Boards /\ sample \in Samples /\ slice \in 0..Slices - 1
    /\ stage \in Opening \cup Moving
    /\ known \subseteq Legals /\ todo \subseteq known
    /\ at \in known \cup {NoSix} /\ seed \in known \cup {NoSix}
    /\ best \in known \cup {NoSix} /\ leader \in known \cup {NoSix}
    /\ offers \subseteq Pairs /\ \A p \in offers : p \cap seed.six = {}
    /\ tries \in Nat /\ left \in 0..Restarts
    /\ stage \in Opening => known = {}
    /\ stage \in Moving => known # {} /\ field \subseteq known
    /\ seed # NoSix => stage = "pairs" /\ at = NoSix
    /\ seed = NoSix <=> best = NoSix

\* The bounds are those of the slices merged so far.
OnScale ==
    /\ stage = "sampling" =>
        Fits(board, bounds, Prepared(Seen(sample, slice) \cup Seen(BoardField, slice)))
    /\ stage # "sampling" => Fits(board, bounds, Prepared(sample \cup BoardField))

\* So are the standing and the field.
Counted ==
    /\ stage = "sampling" => tally = Unscored
    /\ stage = "tallying" => tally = TallyOver(Prepared(Seen(sample, slice)))
    /\ stage \notin {"sampling", "tallying"} => tally = TallyOver(Prepared(sample))
    /\ stage \in {"sampling", "tallying"} => field = {}
    /\ stage = "sweeping" => field = Judged(Seen(LegalSixes, slice))
    /\ stage \notin {"sampling", "tallying", "sweeping"} => field = Judged(LegalSixes)

\* Every six one open seat away from v is known.
Explored(v) == Near(board, bounds, v.six, 1) \subseteq known

\* The first of everything known has had its swaps tried, or its turn is to come:
\* it is climbed from now, or a start not taken yet, or the gain of the pairs.
TurnComes(b) ==
    \/ Explored(b) \/ b = at
    \/ stage = "seeds" /\ b \in todo
    \/ b = best /\ best # seed

\* Nothing known is above both the leader and the six climbed from.
Topped(v) ==
    \/ v = leader \/ Above(leader, v)
    \/ at # NoSix /\ (v = at \/ Above(at, v))

Climbed ==
    /\ stage \in {"seeds", "pairs"} => \A b \in known : Heads(b, known) => TurnComes(b)
    /\ stage \in {"restarts", "twoswaps", "done"} =>
        leader # NoSix /\ Explored(leader) /\ \A v \in known : Topped(v)
    /\ stage = "twoswaps" /\ at # NoSix => Above(at, leader)
    /\ stage = "done" => at = NoSix /\ Near(board, bounds, leader.six, 2) \subseteq known

SearchInv == Typed /\ OnScale /\ Counted /\ Climbed

-----------------------------------------------------------------------------
(* The first states, and the steps that leave the rounds behind.           *)

\* The turn of slice: the next one, or 0 after the last.
LEMMA TurnOfRound ==
    ASSUME NEW n \in 0..Slices - 1
    PROVE  /\ n + 1 < Slices => (n + 1) % Slices = n + 1 /\ n + 1 \in 0..Slices - 1
           /\ n + 1 >= Slices => (n + 1) % Slices = 0 /\ n + 1 = Slices
           /\ 0 \in 0..Slices - 1 /\ n \in Nat /\ Slices \in Nat
<1>1. Slices \in Nat \ {0}
  BY SearchAssumption
<1> QED BY <1>1

\* Every list the rounds are split over is finite.
LEMMA ListsFinite ==
    ASSUME board \in Boards, sample \in Samples
    PROVE  IsFiniteSet(sample) /\ IsFiniteSet(BoardField) /\ IsFiniteSet(LegalSixes)
BY ListsOfSixes, SixesFinite, FS_Subset

\* In every state of the invariant the scale is one of numbers.
LEMMA InvScaled == Typed /\ OnScale => Scaled
<1> SUFFICES ASSUME Typed, OnScale PROVE Scaled
  OBVIOUS
<1> DEFINE P == Prepared(Seen(sample, slice) \cup Seen(BoardField, slice))
           Q == Prepared(sample \cup BoardField)
<1>1. P \subseteq Sixes /\ Q \subseteq Sixes
  BY ListsOfSixes DEF Typed, Prepared, Seen
<1>2. Fits(board, bounds, P) \/ Fits(board, bounds, Q)
  BY DEF OnScale
<1> HIDE DEF P, Q
<1> QED BY <1>1, <1>2, FitsScaled DEF Typed

LEMMA InitInv == SearchInit => SearchInv
<1> SUFFICES ASSUME SearchInit PROVE SearchInv
  OBVIOUS
<1> USE DEF SearchInit
<1>1. Slices \in Nat \ {0} /\ Restarts \in Nat
  BY SearchAssumption
<1>2. Typed
  BY <1>1 DEF Typed, Opening, Moving
<1>3. OnScale
  <2>1. Seen(sample, 0) = {} /\ Seen(BoardField, 0) = {}
    BY ListsFinite, Slicing
  <2>2. Prepared(Seen(sample, slice) \cup Seen(BoardField, slice)) = {}
    BY <2>1 DEF Prepared
  <2>3. Fits(board, bounds, {})
    BY DEF Fits, Readings
  <2> QED BY <2>2, <2>3 DEF OnScale
<1>4. Counted
  BY DEF Counted, Unscored
<1>5. Climbed
  BY DEF Climbed
<1> QED BY <1>2, <1>3, <1>4, <1>5 DEF SearchInv

Rounds == {"sampling", "tallying", "sweeping"}

\* Once the rounds are over, neither scale nor field changes.
LEMMA ScaleKept ==
    ASSUME Typed, OnScale, Counted, stage \notin Rounds, stage' \notin Rounds,
           board' = board, sample' = sample, bounds' = bounds, tally' = tally, field' = field
    PROVE  OnScale' /\ Counted'
<1>1. BoardField' = BoardField /\ LegalSixes' = LegalSixes
  BY ListsKept
<1>2. OnScale'
  <2>1. Prepared(sample \cup BoardField)' = Prepared(sample \cup BoardField)
    BY <1>1 DEF Prepared
  <2>2. Fits(board, bounds, Prepared(sample \cup BoardField))
    BY DEF OnScale, Rounds
  <2>3. stage' # "sampling"
    BY DEF Rounds
  <2> QED BY <2>1, <2>2, <2>3 DEF OnScale
<1>3. Counted'
  <2>1. Prepared(sample)' = Prepared(sample)
    BY DEF Prepared
  <2>2. TallyOver(Prepared(sample))' = TallyOver(Prepared(sample))
    <3>1. \A S : TallyOver(S) = TallyAt(board, bounds, S)
      BY TallyIsAt
    <3>2. TallyOver(Prepared(sample)) = TallyAt(board, bounds, Prepared(sample))
      BY <3>1
    <3>3. (TallyOver(Prepared(sample)) = TallyAt(board, bounds, Prepared(sample)))'
      BY TallyOfSample, PTL
    <3> QED BY <2>1, <3>2, <3>3
  <2>3. Judged(LegalSixes)' = Judged(LegalSixes)
    <3>1. \A U : Verdict(U)' = Verdict(U)
      BY VerdictKept
    <3> QED BY <1>1, <3>1 DEF Judged, Prepared
  <2>4. /\ tally = TallyOver(Prepared(sample)) /\ field = Judged(LegalSixes)
    BY DEF Counted, Rounds
  <2>5. stage' \notin {"sampling", "tallying", "sweeping"}
    BY DEF Rounds
  <2> QED BY <2>2, <2>3, <2>4, <2>5 DEF Counted
<1> QED BY <1>2, <1>3

\* What is known is ranked, and the search's own names are of it.
LEMMA KnownRanked ==
    ASSUME Typed, Scaled
    PROVE  /\ known \subseteq Ranked /\ NoSix \notin Ranked
           /\ \A v \in known : Seated(v.six) /\ v = Verdict(v.six)
<1>1. known \subseteq Ranked
  BY LegalsRanked DEF Typed
<1>2. NoSix \notin Ranked
  BY RankedIs
<1>3. \A v \in known : Seated(v.six)
  BY LegalsRanked DEF Typed, Legal, Seated
<1> QED BY <1>1, <1>2, <1>3, RankedIs

\* A step that only adds to what is known keeps what had been explored.
LEMMA ExploredKept ==
    ASSUME board' = board, bounds' = bounds, known \subseteq known'
    PROVE  \A v : Explored(v) => Explored(v)'
BY DEF Explored

-----------------------------------------------------------------------------
(* The local search, one lemma a step.                                     *)

\* What every step of it shares.
Shared ==
    /\ Typed /\ OnScale /\ Counted /\ Climbed /\ Scaled
    /\ known \subseteq Ranked /\ known \subseteq Legals /\ NoSix \notin Ranked
    /\ Legals' = Legals /\ Ranked' = Ranked /\ Pairs' = Pairs
    /\ \A v \in known : Seated(v.six) /\ v = Verdict(v.six)

LEMMA MoveShares ==
    ASSUME SearchInv, board' = board, bounds' = bounds
    PROVE  Shared
<1>1. Typed /\ OnScale /\ Counted /\ Climbed
  BY DEF SearchInv
<1>2. Scaled
  BY <1>1, InvScaled
<1>3. Legals' = Legals /\ Ranked' = Ranked /\ (Scaled' <=> Scaled) /\ Pairs' = Pairs
  BY JudgedKept, BoardKept
<1> QED BY <1>1, <1>2, <1>3, KnownRanked DEF Typed, Shared

LEMMA NextSeedStep == SearchInv /\ NextSeed => SearchInv'
<1> SUFFICES ASSUME SearchInv, NextSeed PROVE SearchInv'
  OBVIOUS
<1> USE DEF NextSeed, scale, pairing
<1>1. Shared
  BY MoveShares
<1>2. todo \subseteq Ranked /\ todo # {} /\ Heads(Best(todo), todo)
  BY <1>1, BestHeads DEF Shared, Typed
<1>3. Typed'
  BY <1>1, <1>2 DEF Shared, Typed, Heads, Opening
<1>4. OnScale' /\ Counted'
  BY <1>1, ScaleKept DEF Shared, Rounds
<1>5. Climbed'
  <2> SUFFICES ASSUME NEW b \in known', Heads(b, known') PROVE TurnComes(b)'
    BY DEF Climbed
  <2>1. b \in known /\ Heads(b, known) /\ b # NoSix /\ best = NoSix /\ seed = NoSix
    BY <1>1 DEF Shared, Typed
  <2>2. TurnComes(b)
    BY <1>1, <2>1 DEF Shared, Climbed
  <2>3. Explored(b) \/ b \in todo
    BY <2>1, <2>2 DEF TurnComes
  <2>4. Explored(b) => Explored(b)'
    BY ExploredKept
  <2> QED BY <2>3, <2>4 DEF TurnComes
<1> QED BY <1>3, <1>4, <1>5 DEF SearchInv

\* The climb's step, whatever the stage.
LEMMA ClimbStep == SearchInv /\ Climb => SearchInv'
<1> SUFFICES ASSUME SearchInv, Climb PROVE SearchInv'
  OBVIOUS
<1> USE DEF Climb, scale, pairing
<1>1. Shared
  BY MoveShares
<1> DEFINE met == Judged(Swaps(at.six, 1))
           up == Better(met, at)
<1>2. at \in known /\ at \in Ranked /\ at # NoSix /\ stage \in Moving /\ seed = NoSix /\ best = NoSix
  BY <1>1 DEF Shared, Typed
<1>3. met \subseteq Legals /\ met \subseteq Ranked
  <2>1. Seated(at.six)
    BY <1>1, <1>2 DEF Shared
  <2>2. \A U \in Swaps(at.six, 1) : Seated(U)
    BY <1>1, <2>1, SwapsSeated DEF Shared
  <2> QED BY <1>1, <2>2, JudgedSeated, LegalsRanked DEF Shared
<1>4. /\ known' = known \cup met /\ at' = Best(up) /\ up # {}
      /\ board' = board /\ sample' = sample /\ stage' = stage /\ slice' = slice /\ bounds' = bounds /\ tally' = tally
      /\ field' = field /\ todo' = todo /\ seed' = seed /\ best' = best /\ offers' = offers
      /\ tries' = tries /\ leader' = leader /\ left' = left
  OBVIOUS
<1>5. up \subseteq met /\ \A w \in met : w \in up <=> Above(w, at)
  BY <1>1, <1>2, <1>3, AboveOrder DEF Shared, Better
<1> HIDE DEF met, up, Climb
<1>6. Heads(at', up) /\ at' \in met /\ Above(at', at) /\ at' \in Ranked
  <2>1. up \subseteq Ranked
    BY <1>3, <1>5
  <2>2. Heads(Best(up), up)
    BY <1>1, <1>4, <2>1, BestHeads DEF Shared
  <2> QED BY <1>3, <1>4, <1>5, <2>2 DEF Heads
<1>7. Typed'
  BY <1>1, <1>2, <1>3, <1>4, <1>6 DEF Shared, Typed, Opening, Moving
<1>8. OnScale' /\ Counted'
  <2>1. stage \notin Rounds /\ stage' \notin Rounds
    BY <1>2, <1>4 DEF Rounds, Moving
  <2> QED BY <1>1, <1>4, <2>1, ScaleKept DEF Shared
<1>9. \A v \in met : v = at' \/ Above(at', v)
  <2> SUFFICES ASSUME NEW v \in met, v # at' PROVE Above(at', v)
    OBVIOUS
  <2>1. CASE v \in up
    BY <1>6, <2>1 DEF Heads
  <2>2. CASE v \notin up
    <3>1. v = at \/ Above(at, v)
      BY <1>1, <1>2, <1>3, <1>5, <2>2, AboveOrder DEF Shared
    <3> QED BY <1>1, <1>2, <1>3, <1>6, <3>1, AboveOrder DEF Shared
  <2> QED BY <2>1, <2>2
<1>10. Climbed'
  <2>1. ASSUME stage \in {"seeds", "pairs"}, NEW b \in known', Heads(b, known') PROVE TurnComes(b)'
    <3>1. CASE b \in met
      <4>1. b = at'
        <5>1. at' \in known' /\ b \in Ranked
          BY <1>3, <1>4, <1>6, <3>1
        <5> SUFFICES ASSUME b # at' PROVE FALSE
          OBVIOUS
        <5>2. Above(b, at') /\ Above(at', b)
          BY <1>9, <2>1, <3>1, <5>1 DEF Heads
        <5> QED BY <1>1, <1>6, <5>1, <5>2, AboveOrder DEF Shared
      <4> QED BY <4>1 DEF TurnComes
    <3>2. CASE b \in known
      <4>1. Heads(b, known)
        BY <1>4, <2>1, <3>2 DEF Heads
      <4>2. b # at
        <5>1. at' \in known' /\ at' # at
          BY <1>1, <1>2, <1>4, <1>6, AboveOrder DEF Shared
        <5>2. b = at => Above(at, at')
          BY <2>1, <5>1 DEF Heads
        <5> QED BY <1>1, <1>2, <1>6, <5>1, <5>2, AboveOrder DEF Shared
      <4>3. TurnComes(b)
        BY <1>1, <2>1, <3>2, <4>1 DEF Shared, Climbed
      <4>4. Explored(b) => Explored(b)'
        BY <1>4, ExploredKept
      <4> QED BY <1>4, <4>2, <4>3, <4>4 DEF TurnComes
    <3> QED BY <1>4, <2>1, <3>1, <3>2
  <2>2. ASSUME stage \in {"restarts", "twoswaps", "done"}
        PROVE  leader' # NoSix /\ Explored(leader)' /\ \A v \in known' : Topped(v)'
    <3>1. leader # NoSix /\ Explored(leader) /\ \A v \in known : Topped(v)
      BY <1>1, <2>2 DEF Shared, Climbed
    <3>2. Explored(leader)'
      BY <1>4, <3>1 DEF Explored
    <3>3. ASSUME NEW v \in known PROVE Topped(v)'
      <4>1. Topped(v)
        BY <3>1
      <4>2. v = at \/ Above(at, v) => Above(at', v)
        BY <1>1, <1>2, <1>6, AboveOrder DEF Shared
      <4>3. at' # NoSix
        BY <1>1, <1>6 DEF Shared
      <4> QED BY <1>4, <4>1, <4>2, <4>3 DEF Topped
    <3>4. ASSUME NEW v \in met PROVE Topped(v)'
      BY <1>1, <1>6, <1>9 DEF Topped, Shared
    <3> QED BY <1>4, <3>1, <3>2, <3>3, <3>4
  <2>3. ASSUME stage = "twoswaps" PROVE Above(at', leader')
    <3>1. Above(at, leader) /\ leader \in known
      BY <1>1, <1>2, <2>3 DEF Shared, Climbed, Typed
    <3> QED BY <1>1, <1>2, <1>4, <1>6, <3>1, AboveOrder DEF Shared
  <2>4. stage # "done"
    BY <1>1, <1>2 DEF Shared, Climbed
  <2> QED BY <1>4, <2>1, <2>2, <2>3, <2>4 DEF Climbed
<1> QED BY <1>7, <1>8, <1>10 DEF SearchInv

\* A climb that rests has tried every swap of where it stands.
LEMMA RestStep == SearchInv /\ Rest => SearchInv'
<1> SUFFICES ASSUME SearchInv, Rest PROVE SearchInv'
  OBVIOUS
<1> USE DEF Rest, scale, pairing
<1>1. Shared
  BY MoveShares
<1> DEFINE met == Judged(Swaps(at.six, 1))
<1>2. at \in known /\ at \in Ranked /\ at # NoSix /\ stage \in Moving /\ seed = NoSix /\ best = NoSix
  BY <1>1 DEF Shared, Typed
<1>3. met \subseteq Legals /\ met \subseteq Ranked
  <2>1. Seated(at.six)
    BY <1>1, <1>2 DEF Shared
  <2>2. \A U \in Swaps(at.six, 1) : Seated(U)
    BY <1>1, <2>1, SwapsSeated DEF Shared
  <2> QED BY <1>1, <2>2, JudgedSeated, LegalsRanked DEF Shared
<1>4. /\ known' = known \cup met /\ at' = NoSix /\ Better(met, at) = {}
      /\ leader' = IF (stage = "restarts" /\ Beats(at, leader)) \/ stage = "twoswaps" THEN at ELSE leader
      /\ board' = board /\ sample' = sample /\ stage' = stage /\ slice' = slice /\ bounds' = bounds /\ tally' = tally
      /\ field' = field /\ todo' = todo /\ seed' = seed /\ best' = best /\ offers' = offers
      /\ tries' = tries /\ left' = left
  OBVIOUS
<1>5. \A w \in met : ~Above(w, at)
  BY <1>1, <1>2, <1>3, <1>4, AboveOrder DEF Shared, Better
<1>6. met = Near(board, bounds, at.six, 1)
  BY NearIs
<1> HIDE DEF met, Rest
<1>7. Typed'
  BY <1>1, <1>2, <1>3, <1>4 DEF Shared, Typed, Opening, Moving
<1>8. OnScale' /\ Counted'
  <2>1. stage \notin Rounds /\ stage' \notin Rounds
    BY <1>2, <1>4 DEF Rounds, Moving
  <2> QED BY <1>1, <1>4, <2>1, ScaleKept DEF Shared
<1>9. \A v \in met : v = at \/ Above(at, v)
  BY <1>1, <1>2, <1>3, <1>5, AboveOrder DEF Shared
<1>10. Climbed'
  <2>1. ASSUME stage \in {"seeds", "pairs"}, NEW b \in known', Heads(b, known') PROVE TurnComes(b)'
    <3>1. b \in known
      <4> SUFFICES ASSUME b \in met, b \notin known PROVE FALSE
        BY <1>4, <2>1
      <4>1. b # at /\ at \in known'
        BY <1>2, <1>4
      <4>2. Above(b, at)
        BY <2>1, <4>1 DEF Heads
      <4> QED BY <1>5, <4>2
    <3>2. Heads(b, known)
      BY <1>4, <2>1, <3>1 DEF Heads
    <3>3. TurnComes(b)
      BY <1>1, <2>1, <3>1, <3>2 DEF Shared, Climbed
    <3>4. Explored(b) => Explored(b)'
      BY <1>4, ExploredKept
    <3>5. b = at => Explored(b)'
      BY <1>4, <1>6 DEF Explored
    <3> QED BY <1>4, <3>3, <3>4, <3>5 DEF TurnComes
  <2>2. ASSUME stage \in {"restarts", "twoswaps", "done"}
        PROVE  leader' # NoSix /\ Explored(leader)' /\ \A v \in known' : Topped(v)'
    <3>1. leader # NoSix /\ Explored(leader) /\ \A v \in known : Topped(v)
      BY <1>1, <2>2 DEF Shared, Climbed
    <3>2. leader \in Ranked /\ leader' \in Ranked /\ leader' \in {at, leader}
      BY <1>1, <1>2, <1>4, <3>1 DEF Shared, Typed
    <3>3. /\ leader' = leader \/ Above(leader', leader)
          /\ leader' = at \/ Above(leader', at)
      <4>1. CASE stage = "restarts"
        BY <1>1, <1>2, <1>4, <3>2, <4>1, AboveOrder DEF Shared
      <4>2. CASE stage = "twoswaps"
        BY <1>1, <1>2, <1>4, <4>2 DEF Shared, Climbed
      <4>3. stage # "done"
        BY <1>1, <1>2 DEF Shared, Climbed
      <4> QED BY <2>2, <4>1, <4>2, <4>3
    <3>4. Explored(leader)'
      <4>1. CASE leader' = at
        BY <1>4, <1>6, <4>1 DEF Explored
      <4>2. CASE leader' = leader
        BY <1>4, <3>1, <4>2 DEF Explored
      <4> QED BY <3>2, <4>1, <4>2
    <3>5. ASSUME NEW v \in known' PROVE Topped(v)'
      <4>1. v \in Ranked
        BY <1>1, <1>3, <1>4 DEF Shared
      <4>2. v = leader \/ Above(leader, v) \/ v = at \/ Above(at, v)
        BY <1>4, <1>9, <3>1 DEF Topped
      <4>3. v = leader' \/ Above(leader', v)
        <5>1. CASE v = leader \/ Above(leader, v)
          BY <1>1, <3>2, <3>3, <4>1, <5>1, AboveOrder DEF Shared
        <5>2. CASE v = at \/ Above(at, v)
          BY <1>1, <1>2, <3>2, <3>3, <4>1, <5>2, AboveOrder DEF Shared
        <5> QED BY <4>2, <5>1, <5>2
      <4> QED BY <4>3 DEF Topped
    <3> QED BY <1>1, <3>2, <3>4, <3>5 DEF Shared
  <2>3. stage # "done"
    BY <1>1, <1>2 DEF Shared, Climbed
  <2> QED BY <1>4, <2>1, <2>2, <2>3 DEF Climbed
<1> QED BY <1>7, <1>8, <1>10 DEF SearchInv

\* The seeds climbed from, the first of all known has had its swaps tried.
LEMMA SeedsDoneStep == SearchInv /\ SeedsDone => SearchInv'
<1> SUFFICES ASSUME SearchInv, SeedsDone PROVE SearchInv'
  OBVIOUS
<1> USE DEF SeedsDone, scale, pairing
<1>1. Shared
  BY MoveShares
<1>2. Typed'
  BY <1>1 DEF Shared, Typed, BestOf, Opening, Moving
<1>3. OnScale' /\ Counted'
  BY <1>1, ScaleKept DEF Shared, Rounds
<1>4. Climbed'
  <2> SUFFICES ASSUME NEW b \in known', Heads(b, known') PROVE TurnComes(b)'
    BY DEF Climbed
  <2>1. b \in known /\ Heads(b, known) /\ b # NoSix /\ best = NoSix /\ seed = NoSix
    BY <1>1 DEF Shared, Typed
  <2>2. TurnComes(b)
    BY <1>1, <2>1 DEF Shared, Climbed
  <2>3. Explored(b)
    BY <2>1, <2>2 DEF TurnComes
  <2>4. Explored(b)'
    BY <2>3, ExploredKept
  <2> QED BY <2>4 DEF TurnComes
<1> QED BY <1>2, <1>3, <1>4 DEF SearchInv

LEMMA NextPairedStep == SearchInv /\ NextPaired => SearchInv'
<1> SUFFICES ASSUME SearchInv, NextPaired PROVE SearchInv'
  OBVIOUS
<1> USE DEF NextPaired, scale, pairing
<1>1. Shared
  BY MoveShares
<1>2. todo \subseteq Ranked /\ todo # {} /\ Heads(Best(todo), todo)
  BY <1>1, BestHeads DEF Shared, Typed
<1>3. seed' \in known /\ best' = seed' /\ seed' # NoSix
  BY <1>1, <1>2 DEF Shared, Typed, Heads
<1>4. Typed'
  BY <1>1, <1>3 DEF Shared, Typed, Opening, Moving
<1>5. OnScale' /\ Counted'
  BY <1>1, ScaleKept DEF Shared, Rounds
<1>6. Climbed'
  <2> SUFFICES ASSUME NEW b \in known', Heads(b, known') PROVE TurnComes(b)'
    BY DEF Climbed
  <2>1. b \in known /\ Heads(b, known) /\ b # NoSix /\ best = NoSix /\ seed = NoSix
    BY <1>1 DEF Shared, Typed
  <2>2. TurnComes(b)
    BY <1>1, <2>1 DEF Shared, Climbed
  <2>3. Explored(b)
    BY <2>1, <2>2 DEF TurnComes
  <2>4. Explored(b)'
    BY <2>3, ExploredKept
  <2> QED BY <2>4 DEF TurnComes
<1> QED BY <1>4, <1>5, <1>6 DEF SearchInv

\* Bringing a pair in: its seatings are of the seed's shape.
LEMMA TryPairStep == SearchInv /\ TryPair => SearchInv'
<1> SUFFICES ASSUME SearchInv, TryPair PROVE SearchInv'
  OBVIOUS
<1>1. Shared
  BY MoveShares DEF TryPair, scale
<1> DEFINE p == CHOOSE q \in offers : \A o \in offers \ {q} : NamesBefore(q, o)
           met == Judged(Seatings(seed.six, p))
           up == Better(met, best)
<1>2. /\ seed # NoSix /\ offers # {} /\ offers' = offers \ {p}
      /\ tries' = tries + Cardinality(Seatings(seed.six, p) \ {v.six : v \in known})
      /\ known' = known \cup met /\ best' = IF up = {} THEN best ELSE Best(up)
      /\ board' = board /\ sample' = sample /\ stage' = stage /\ slice' = slice /\ bounds' = bounds /\ tally' = tally
      /\ field' = field /\ todo' = todo /\ seed' = seed /\ at' = at
      /\ leader' = leader /\ left' = left
  BY DEF TryPair, scale
<1>3. /\ seed \in known /\ best \in known /\ seed \in Ranked /\ best \in Ranked /\ best # NoSix
      /\ stage = "pairs" /\ at = NoSix
  BY <1>1, <1>2 DEF Shared, Typed
<1>4. p \in offers
  <2> DEFINE R == {q \in offers \X offers : NamesBefore(q[1], q[2])}
  <2>1. offers \subseteq SUBSET Nat /\ IsFiniteSet(offers)
    <3>1. offers \subseteq SUBSET Heroes
      BY <1>1, SearchAssumption DEF Shared, Typed, Pairs
    <3>2. Heroes \subseteq Nat /\ IsFiniteSet(SUBSET Heroes)
      BY SearchAssumption, FS_SUBSET
    <3> QED BY <3>1, <3>2, FS_Subset
  <2>2. \A x, y \in offers : <<x, y>> \in R <=> NamesBefore(x, y)
    OBVIOUS
  <2>3. OrdersAll(R, offers)
    <3> HIDE DEF R
    <3> QED BY <2>1, <2>2, NamesOrder, NamesChain DEF OrdersAll
  <2>4. HasFirst(R, offers)
    <3> HIDE DEF R
    <3> QED BY <1>2, <2>1, <2>3, Foremost
  <2>5. \E q \in offers : \A o \in offers \ {q} : NamesBefore(q, o)
    <3> HIDE DEF R
    <3> QED BY <2>2, <2>4 DEF HasFirst
  <2> QED BY <2>5
<1> HIDE DEF p
<1>5. \A U \in Seatings(seed.six, p) : Seated(U)
  <2>1. Seated(seed.six) /\ p \in Pairs /\ p \cap seed.six = {}
    BY <1>1, <1>3, <1>4 DEF Shared, Typed
  <2> QED BY <1>1, <2>1, SeatingsSeated DEF Shared
<1>6. met \subseteq Legals /\ met \subseteq Ranked
  BY <1>1, <1>5, JudgedSeated, LegalsRanked DEF Shared
<1>7. tries' \in Nat
  <2>1. Seatings(seed.six, p) \ {v.six : v \in known} \in SUBSET SUBSET Heroes
    BY <1>5, SearchAssumption DEF Seated, Roster
  <2>2. IsFiniteSet(SUBSET Heroes)
    BY SearchAssumption, FS_SUBSET
  <2>3. Cardinality(Seatings(seed.six, p) \ {v.six : v \in known}) \in Nat
    BY <2>1, <2>2, FS_Subset, FS_CardinalityType
  <2>4. tries \in Nat
    BY <1>1 DEF Shared, Typed
  <2> QED BY <1>2, <2>3, <2>4
<1>8. up \subseteq met /\ \A w \in met : w \in up <=> Above(w, best)
  BY <1>1, <1>3, <1>6, AboveOrder DEF Shared, Better
<1> HIDE DEF met, up
<1>9. /\ best' \in known' /\ best' \in Ranked
      /\ up = {} => best' = best
      /\ up # {} => Heads(best', up) /\ best' \in met /\ Above(best', best)
  <2>1. CASE up = {}
    BY <1>2, <1>3, <2>1
  <2>2. CASE up # {}
    <3>1. Heads(Best(up), up)
      <4>1. up \subseteq Ranked
        BY <1>6, <1>8
      <4> QED BY <1>1, <2>2, <4>1, BestHeads DEF Shared
    <3> QED BY <1>2, <1>6, <1>8, <2>2, <3>1 DEF Heads
  <2> QED BY <2>1, <2>2
<1>10. Typed'
  <2>1. best' # NoSix
    BY <1>1, <1>9 DEF Shared
  <2> QED BY <1>1, <1>2, <1>3, <1>6, <1>7, <1>9, <2>1 DEF Shared, Typed, Opening, Moving
<1>11. OnScale' /\ Counted'
  <2>1. stage \notin Rounds /\ stage' \notin Rounds
    BY <1>2, <1>3 DEF Rounds
  <2> QED BY <1>1, <1>2, <2>1, ScaleKept DEF Shared
<1>12. Climbed'
  <2> SUFFICES ASSUME NEW b \in known', Heads(b, known') PROVE TurnComes(b)'
    BY <1>2, <1>3 DEF Climbed
  <2>1. b \in Ranked /\ (b = best' \/ Above(b, best'))
    BY <1>1, <1>2, <1>6, <1>9 DEF Heads, Shared
  <2>2. CASE b \in known
    <3>1. Heads(b, known)
      BY <1>2, <2>2 DEF Heads
    <3>2. TurnComes(b)
      BY <1>1, <1>3, <2>2, <3>1 DEF Shared, Climbed
    <3>3. Explored(b) => Explored(b)'
      BY <1>2, ExploredKept
    <3>4. b = best => best' = best
      <4> SUFFICES ASSUME b = best, up # {} PROVE FALSE
        BY <1>9
      <4> QED BY <1>1, <1>3, <1>9, <2>1, AboveOrder DEF Shared
    <3> QED BY <1>2, <1>3, <3>2, <3>3, <3>4 DEF TurnComes
  <2>3. CASE b \in met /\ b \notin known
    <3>1. b # best /\ best \in known'
      BY <1>2, <1>3, <2>3
    <3>2. Above(b, best)
      BY <3>1 DEF Heads
    <3>3. b \in up
      BY <1>8, <2>3, <3>2
    <3>4. b = best'
      <4> SUFFICES ASSUME b # best' PROVE FALSE
        OBVIOUS
      <4>1. Above(best', b) /\ Above(b, best')
        BY <1>9, <2>1, <3>3 DEF Heads
      <4> QED BY <1>1, <1>9, <2>1, <4>1, AboveOrder DEF Shared
    <3>5. b # seed'
      BY <1>2, <1>3, <2>3
    <3> QED BY <3>4, <3>5 DEF TurnComes
  <2> QED BY <1>2, <2>2, <2>3
<1> QED BY <1>10, <1>11, <1>12 DEF SearchInv

LEMMA PairsTriedStep == SearchInv /\ PairsTried => SearchInv'
<1> SUFFICES ASSUME SearchInv, PairsTried PROVE SearchInv'
  OBVIOUS
<1> USE DEF PairsTried, scale, pairing
<1>1. Shared
  BY MoveShares
<1>2. stage = "pairs" /\ at = NoSix /\ best \in known /\ seed \in known
  BY <1>1 DEF Shared, Typed
<1>3. Typed'
  BY <1>1, <1>2 DEF Shared, Typed, Opening, Moving
<1>4. OnScale' /\ Counted'
  BY <1>1, <1>2, ScaleKept DEF Shared, Rounds
<1>5. Climbed'
  <2> SUFFICES ASSUME NEW b \in known', Heads(b, known') PROVE TurnComes(b)'
    BY <1>2 DEF Climbed
  <2>1. b \in known /\ Heads(b, known) /\ b # NoSix
    BY <1>1 DEF Shared, Typed
  <2>2. TurnComes(b)
    BY <1>1, <1>2, <2>1 DEF Shared, Climbed
  <2>3. Explored(b) \/ (b = best /\ best # seed)
    BY <1>2, <2>1, <2>2 DEF TurnComes
  <2>4. Explored(b) => Explored(b)'
    BY ExploredKept
  <2> QED BY <2>3, <2>4 DEF TurnComes
<1> QED BY <1>3, <1>4, <1>5 DEF SearchInv

\* The pairs are over: the best of everything known leads, and has been explored.
LEMMA PairsDoneStep == SearchInv /\ PairsDone => SearchInv'
<1> SUFFICES ASSUME SearchInv, PairsDone PROVE SearchInv'
  OBVIOUS
<1> USE DEF PairsDone, scale, pairing
<1>1. Shared
  BY MoveShares
<1>2. known # {} /\ Heads(Best(known), known) /\ leader' = Best(known) /\ best = NoSix
  BY <1>1, BestHeads DEF Shared, Typed, Opening, Moving
<1>3. leader' \in known /\ leader' # NoSix /\ leader' # at
  BY <1>1, <1>2 DEF Shared, Heads
<1>4. Typed'
  <2>1. left' \in 0..Restarts
    BY SearchAssumption
  <2> QED BY <1>1, <1>3, <2>1 DEF Shared, Typed, Opening, Moving
<1>5. OnScale' /\ Counted'
  BY <1>1, ScaleKept DEF Shared, Rounds
<1>6. Climbed'
  <2>1. TurnComes(leader')
    BY <1>1, <1>2, <1>3 DEF Shared, Climbed
  <2>2. Explored(leader')
    BY <1>2, <1>3, <2>1 DEF TurnComes
  <2>3. Explored(leader)'
    BY <2>2 DEF Explored
  <2>4. \A v \in known' : Topped(v)'
    BY <1>2 DEF Topped, Heads
  <2> QED BY <1>3, <2>3, <2>4 DEF Climbed
<1> QED BY <1>4, <1>5, <1>6 DEF SearchInv

\* A redraw is climbed from when no limit refuses it.
LEMMA RestartStep == SearchInv /\ Restart => SearchInv'
<1> SUFFICES ASSUME SearchInv, Restart PROVE SearchInv'
  OBVIOUS
<1> USE DEF scale, pairing
<1>1. Shared
  BY MoveShares DEF Restart
<1>2. PICK T \in Redraws : /\ known' = known \cup Judged({T})
                           /\ at' = IF Refused(board, T) THEN NoSix ELSE Verdict(T)
  BY DEF Restart
<1>3. /\ stage = "restarts" /\ at = NoSix /\ left > 0 /\ left' = left - 1
      /\ board' = board /\ sample' = sample /\ stage' = stage /\ slice' = slice /\ bounds' = bounds /\ tally' = tally
      /\ field' = field /\ todo' = todo /\ seed' = seed /\ best' = best /\ offers' = offers
      /\ tries' = tries /\ leader' = leader
  BY DEF Restart
<1>4. Judged({T}) \subseteq Legals
  <2>1. \A U \in {T} : Seated(U)
    BY <1>1, <1>2, RedrawsSeated DEF Shared
  <2> QED BY <1>1, <2>1, JudgedSeated DEF Shared
<1>5. \A v \in Judged({T}) : v = at' /\ at' # NoSix
  <2>1. \A v \in Judged({T}) : v = Verdict(T) /\ ~Refused(board, T)
    BY DEF Judged, Prepared
  <2> QED BY <1>1, <1>2, <1>4, <2>1, LegalsRanked DEF Shared
<1>6. at' \in known' \cup {NoSix}
  <2>1. ~Refused(board, T) => Verdict(T) \in Judged({T})
    BY DEF Judged, Prepared
  <2> QED BY <1>2, <2>1
<1>7. Typed'
  <2>1. Restarts \in Nat /\ left \in 0..Restarts
    BY <1>1, SearchAssumption DEF Shared, Typed
  <2>2. left' \in 0..Restarts
    <3>1. left \in Int /\ 0 <= left /\ left <= Restarts /\ left > 0 /\ left' = left - 1
      BY <1>3, <2>1
    <3> QED BY <2>1, <3>1
  <2> QED BY <1>1, <1>2, <1>3, <1>4, <1>6, <2>2 DEF Shared, Typed, Opening, Moving
<1>8. OnScale' /\ Counted'
  BY <1>1, <1>3, ScaleKept DEF Shared, Rounds
<1>9. Climbed'
  <2>1. leader # NoSix /\ Explored(leader) /\ \A v \in known : v = leader \/ Above(leader, v)
    BY <1>1, <1>3 DEF Shared, Climbed, Topped
  <2>2. Explored(leader)'
    BY <1>2, <1>3, <2>1 DEF Explored
  <2>3. \A v \in known' : Topped(v)'
    BY <1>2, <1>3, <1>5, <2>1 DEF Topped
  <2> QED BY <1>3, <2>1, <2>2, <2>3 DEF Climbed
<1> QED BY <1>7, <1>8, <1>9 DEF SearchInv

LEMMA RestartsDoneStep == SearchInv /\ RestartsDone => SearchInv'
<1> SUFFICES ASSUME SearchInv, RestartsDone PROVE SearchInv'
  OBVIOUS
<1> USE DEF RestartsDone, scale, pairing
<1>1. Shared
  BY MoveShares
<1>2. Typed'
  BY <1>1 DEF Shared, Typed, Opening, Moving
<1>3. OnScale' /\ Counted'
  BY <1>1, ScaleKept DEF Shared, Rounds
<1>4. Climbed'
  <2>1. leader # NoSix /\ Explored(leader) /\ \A v \in known : v = leader \/ Above(leader, v)
    BY <1>1 DEF Shared, Climbed, Topped
  <2> QED BY <2>1 DEF Climbed, Topped, Explored
<1> QED BY <1>2, <1>3, <1>4 DEF SearchInv

\* The two-swaps of the leader, tried.
LEMMA TwoSwapStep == SearchInv /\ TwoSwap => SearchInv'
<1> SUFFICES ASSUME SearchInv, TwoSwap PROVE SearchInv'
  OBVIOUS
<1>1. Shared
  BY MoveShares DEF TwoSwap, scale
<1> DEFINE met == Judged(Swaps(leader.six, 2))
           up == Better(met, leader)
<1>2. /\ stage = "twoswaps" /\ at = NoSix /\ up # {} /\ known' = known \cup met /\ at' = Best(up)
      /\ board' = board /\ sample' = sample /\ stage' = stage /\ slice' = slice /\ bounds' = bounds /\ tally' = tally
      /\ field' = field /\ todo' = todo /\ seed' = seed /\ best' = best /\ offers' = offers
      /\ tries' = tries /\ leader' = leader /\ left' = left
  BY DEF TwoSwap, scale, pairing
<1>3. /\ leader # NoSix /\ Explored(leader) /\ leader \in known /\ leader \in Ranked
      /\ \A v \in known : v = leader \/ Above(leader, v)
  BY <1>1, <1>2 DEF Shared, Climbed, Topped, Typed
<1>4. met \subseteq Legals /\ met \subseteq Ranked
  <2>1. Seated(leader.six)
    BY <1>1, <1>3 DEF Shared
  <2>2. \A U \in Swaps(leader.six, 2) : Seated(U)
    BY <1>1, <2>1, SwapsSeated DEF Shared
  <2> QED BY <1>1, <2>2, JudgedSeated, LegalsRanked DEF Shared
<1>5. up \subseteq met /\ \A w \in met : w \in up <=> Above(w, leader)
  BY <1>1, <1>3, <1>4, AboveOrder DEF Shared, Better
<1> HIDE DEF met, up
<1>6. Heads(at', up) /\ at' \in met /\ Above(at', leader) /\ at' \in Ranked /\ at' # NoSix
  <2>1. up \subseteq Ranked
    BY <1>4, <1>5
  <2>2. Heads(Best(up), up)
    BY <1>1, <1>2, <2>1, BestHeads DEF Shared
  <2> QED BY <1>1, <1>2, <1>4, <1>5, <2>2 DEF Heads, Shared
<1>7. Typed'
  BY <1>1, <1>2, <1>4, <1>6 DEF Shared, Typed, Opening, Moving
<1>8. OnScale' /\ Counted'
  BY <1>1, <1>2, ScaleKept DEF Shared, Rounds
<1>9. Climbed'
  <2>1. Explored(leader)'
    BY <1>2, <1>3 DEF Explored
  <2>2. ASSUME NEW v \in met PROVE Topped(v)'
    <3>1. CASE v \in up
      BY <1>6, <3>1 DEF Heads, Topped
    <3>2. CASE v \notin up
      <4>1. v = leader \/ Above(leader, v)
        BY <1>1, <1>3, <1>4, <1>5, <3>2, AboveOrder DEF Shared
      <4> QED BY <1>2, <4>1 DEF Topped
    <3> QED BY <3>1, <3>2
  <2>3. ASSUME NEW v \in known PROVE Topped(v)'
    BY <1>2, <1>3 DEF Topped
  <2> QED BY <1>2, <1>3, <1>6, <2>1, <2>2, <2>3 DEF Climbed
<1> QED BY <1>7, <1>8, <1>9 DEF SearchInv

\* No two-swap ranks above the leader: it is the answer.
LEMMA SettleStep == SearchInv /\ Settle => SearchInv'
<1> SUFFICES ASSUME SearchInv, Settle PROVE SearchInv'
  OBVIOUS
<1>1. Shared
  BY MoveShares DEF Settle, scale
<1> DEFINE met == Judged(Swaps(leader.six, 2))
<1>2. /\ stage = "twoswaps" /\ at = NoSix /\ Better(met, leader) = {} /\ known' = known \cup met
      /\ board' = board /\ sample' = sample /\ stage' = "done" /\ slice' = slice /\ bounds' = bounds /\ tally' = tally
      /\ field' = field /\ todo' = todo /\ at' = at /\ seed' = seed /\ best' = best /\ offers' = offers
      /\ tries' = tries /\ leader' = leader /\ left' = left
  BY DEF Settle, scale, pairing
<1>3. /\ leader # NoSix /\ Explored(leader) /\ leader \in known /\ leader \in Ranked
      /\ \A v \in known : v = leader \/ Above(leader, v)
  BY <1>1, <1>2 DEF Shared, Climbed, Topped, Typed
<1>4. met \subseteq Legals /\ met \subseteq Ranked
  <2>1. Seated(leader.six)
    BY <1>1, <1>3 DEF Shared
  <2>2. \A U \in Swaps(leader.six, 2) : Seated(U)
    BY <1>1, <2>1, SwapsSeated DEF Shared
  <2> QED BY <1>1, <2>2, JudgedSeated, LegalsRanked DEF Shared
<1>5. \A w \in met : w = leader \/ Above(leader, w)
  <2>1. \A w \in met : ~Above(w, leader)
    BY <1>1, <1>2, <1>3, <1>4, AboveOrder DEF Shared, Better
  <2> QED BY <1>1, <1>3, <1>4, <2>1, AboveOrder DEF Shared
<1>6. met = Near(board, bounds, leader.six, 2)
  BY NearIs
<1> HIDE DEF met
<1>7. Typed'
  BY <1>1, <1>2, <1>4 DEF Shared, Typed, Opening, Moving
<1>8. OnScale' /\ Counted'
  BY <1>1, <1>2, ScaleKept DEF Shared, Rounds
<1>9. Climbed'
  <2>1. Explored(leader)'
    BY <1>2, <1>3 DEF Explored
  <2>2. \A v \in known' : Topped(v)'
    BY <1>2, <1>3, <1>5 DEF Topped
  <2>3. Near(board, bounds, leader.six, 2)' \subseteq known'
    BY <1>2, <1>6
  <2> QED BY <1>2, <1>3, <2>1, <2>2, <2>3 DEF Climbed
<1> QED BY <1>7, <1>8, <1>9 DEF SearchInv

-----------------------------------------------------------------------------
(* The rounds, and the ranking of what they left.                          *)

LEMMA RefuseStep == SearchInv /\ Refuse => SearchInv'
<1> SUFFICES ASSUME SearchInv, Refuse PROVE SearchInv'
  OBVIOUS
<1> USE DEF Refuse, scale, pairing
<1>1. Shared
  BY MoveShares
<1>2. Typed'
  BY <1>1 DEF Shared, Typed, Opening, Moving
<1>3. OnScale' /\ Counted'
  BY <1>1, ScaleKept DEF Shared, Rounds
<1>4. Climbed'
  BY DEF Climbed
<1> QED BY <1>2, <1>3, <1>4 DEF SearchInv

\* The first of the swept field is among the starts.
LEMMA RankStep == SearchInv /\ Rank => SearchInv'
<1> SUFFICES ASSUME SearchInv, Rank PROVE SearchInv'
  OBVIOUS
<1> USE DEF Rank, scale, pairing
<1>1. Shared
  BY MoveShares
<1>2. known = {} /\ at = NoSix /\ seed = NoSix /\ best = NoSix /\ leader = NoSix
  BY <1>1 DEF Shared, Typed, Opening
<1>3. field \subseteq Legals /\ field \subseteq Ranked /\ field # {}
  <2>1. field = Judged(LegalSixes)
    BY <1>1 DEF Shared, Counted
  <2>2. Judged(LegalSixes) \subseteq Legals
    BY <1>1, SweepSeated, JudgedSeated DEF Shared
  <2> QED BY <1>1, <2>1, <2>2, LegalsRanked DEF Shared
<1>4. Starts(field) \subseteq field
  BY DEF Starts, BestOf
<1>5. \A b : Heads(b, field) => b \in Starts(field)
  <2> SUFFICES ASSUME NEW b, Heads(b, field) PROVE b \in BestOf(Seeds, field)
    BY DEF Starts
  <2>1. b \in field
    BY DEF Heads
  <2>2. {w \in field : Above(w, b)} = {}
    <3> SUFFICES ASSUME NEW w \in field, Above(w, b) PROVE FALSE
      OBVIOUS
    <3>1. w = b \/ Above(b, w)
      BY DEF Heads
    <3> QED BY <1>1, <1>3, <2>1, <3>1, AboveOrder DEF Shared
  <2>3. Cardinality({}) = 0 /\ Seeds \in Nat \ {0}
    BY FS_EmptySet, SearchAssumption
  <2>4. Cardinality({w \in field : Above(w, b)}) < Seeds
    BY <2>2, <2>3
  <2> QED BY <2>1, <2>4 DEF BestOf
<1>6. Typed'
  BY <1>1, <1>2, <1>3, <1>4 DEF Shared, Typed, Opening, Moving
<1>7. OnScale' /\ Counted'
  BY <1>1, ScaleKept DEF Shared, Rounds
<1>8. Climbed'
  <2>1. \A b \in known' : Heads(b, known') => TurnComes(b)'
    BY <1>5 DEF TurnComes
  <2> QED BY <2>1 DEF Climbed
<1> QED BY <1>6, <1>7, <1>8 DEF SearchInv

\* Until the sweep is over nothing is known, and nothing is under way.
Idle == known = {} /\ todo = {} /\ at = NoSix /\ seed = NoSix /\ best = NoSix /\ leader = NoSix

\* A round's step reads a slice of the round's list, and leaves the rest alone.
LEMMA RoundTurns ==
    ASSUME SearchInv, stage \in Rounds, NEW next \in Opening, Merged(next)
    PROVE  /\ Idle /\ Typed' /\ Climbed' /\ Scaled
           /\ board' = board /\ sample' = sample
           /\ slice \in 0..Slices - 1
           /\ \/ stage' = stage /\ slice' = slice + 1
              \/ stage' = next /\ slice' = 0 /\ slice + 1 = Slices
<1>1. Typed /\ OnScale
  BY DEF SearchInv
<1>2. Idle
  BY <1>1 DEF Typed, Rounds, Opening, Idle
<1>3. slice \in 0..Slices - 1
  BY <1>1 DEF Typed
<1>4. /\ slice' = (slice + 1) % Slices
      /\ stage' = IF slice' = 0 THEN next ELSE stage
      /\ board' = board /\ sample' = sample /\ known' = known /\ todo' = todo /\ at' = at
      /\ seed' = seed /\ best' = best /\ offers' = offers /\ tries' = tries
      /\ leader' = leader /\ left' = left
  BY DEF Merged, pairing
<1>5. /\ slice' \in 0..Slices - 1
      /\ \/ stage' = stage /\ slice' = slice + 1
         \/ stage' = next /\ slice' = 0 /\ slice + 1 = Slices
  <2>1. CASE slice + 1 < Slices
    <3>1. slice' = slice + 1 /\ slice' \in 0..Slices - 1 /\ slice \in Nat
      BY <1>3, <1>4, <2>1, TurnOfRound
    <3>2. slice' # 0
      BY <3>1
    <3> QED BY <1>4, <3>1, <3>2
  <2>2. CASE slice + 1 >= Slices
    <3>1. slice' = 0 /\ slice + 1 = Slices /\ 0 \in 0..Slices - 1
      BY <1>3, <1>4, <2>2, TurnOfRound
    <3> QED BY <1>4, <3>1
  <2>3. slice \in Nat /\ Slices \in Nat
    BY <1>3, TurnOfRound
  <2> QED BY <2>1, <2>2, <2>3
<1>6. stage' \in Opening
  BY <1>5 DEF Rounds, Opening
<1>7. Typed'
  <2>1. known' = {} /\ todo' = {} /\ Pairs' = Pairs
    BY <1>2, <1>4, BoardKept DEF Idle
  <2>2. stage' \notin Moving
    BY <1>6 DEF Opening, Moving
  <2> QED BY <1>1, <1>2, <1>4, <1>5, <1>6, <2>1, <2>2 DEF Typed, Idle
<1>8. Climbed'
  BY <1>6 DEF Opening, Climbed
<1>9. Scaled
  BY <1>1, InvScaled
<1> QED BY <1>2, <1>3, <1>4, <1>5, <1>7, <1>8, <1>9

\* No standing yet is the standing of no six, on any scale.
LEMMA NoneTallied == Typed /\ OnScale => TallyOver({}) = Unscored
BY InvScaled, TallyOfNone

\* The bounds over what is merged, whatever is left of the round.
Merging(n) == Prepared(Seen(sample, n) \cup Seen(BoardField, n))

\* A slice of the sample widens the bounds to fit what it holds.
LEMMA SampleStep == SearchInv /\ SampleSlice => SearchInv'
<1> SUFFICES ASSUME SearchInv, SampleSlice PROVE SearchInv'
  OBVIOUS
<1> DEFINE Q == Prepared(SliceOf(sample, slice) \cup SliceOf(BoardField, slice))
<1>1. /\ stage = "sampling" /\ bounds' = Widen(bounds, BoundsOver(Q)) /\ Merged("tallying")
      /\ tally' = tally /\ field' = field
  BY DEF SampleSlice
<1>2. /\ Idle /\ Typed' /\ Climbed' /\ Scaled
      /\ board' = board /\ sample' = sample
      /\ slice \in 0..Slices - 1
      /\ \/ stage' = stage /\ slice' = slice + 1
         \/ stage' = "tallying" /\ slice' = 0 /\ slice + 1 = Slices
  BY <1>1, RoundTurns DEF Rounds, Opening
<1>3. /\ board \in Boards /\ sample \in Samples
      /\ Fits(board, bounds, Merging(slice)) /\ tally = Unscored /\ field = {}
  BY <1>1 DEF SearchInv, Typed, OnScale, Counted, Merging
<1>4. /\ IsFiniteSet(sample) /\ IsFiniteSet(BoardField) /\ IsFiniteSet(LegalSixes)
      /\ sample \subseteq Sixes /\ BoardField \subseteq Sixes
      /\ BoardField' = BoardField
  BY <1>2, <1>3, ListsFinite, ListsOfSixes, ListsKept
<1>5. /\ Seen(sample, slice + 1) = Seen(sample, slice) \cup SliceOf(sample, slice)
      /\ Seen(BoardField, slice + 1) = Seen(BoardField, slice) \cup SliceOf(BoardField, slice)
      /\ Seen(sample, Slices) = sample /\ Seen(BoardField, Slices) = BoardField
  BY <1>2, <1>4, Slicing
<1>6. /\ Merging(slice) \cup Q = Merging(slice + 1)
      /\ Merging(slice) \subseteq Sixes /\ Q \subseteq Sixes
  BY <1>4, <1>5 DEF Merging, Prepared, Seen, SliceOf
<1> HIDE DEF Q
<1>7. Fits(board, bounds', Merging(slice + 1))
  <2>1. Fits(board, BoundsOver(Q), Q)
    BY <1>3, <1>6, OverFits
  <2>2. Fits(board, Widen(bounds, BoundsOver(Q)), Merging(slice) \cup Q)
    BY <1>3, <1>6, <2>1, WidenFits
  <2> QED BY <1>1, <1>6, <2>2
<1>8. OnScale'
  <2>1. CASE stage' = stage /\ slice' = slice + 1
    <3>1. (Prepared(Seen(sample, slice) \cup Seen(BoardField, slice)))' = Merging(slice + 1)
      BY <1>2, <1>4, <2>1 DEF Merging, Prepared, Seen, Place, NamesBefore
    <3> QED BY <1>1, <1>2, <1>7, <2>1, <3>1 DEF OnScale
  <2>2. CASE stage' = "tallying" /\ slice' = 0 /\ slice + 1 = Slices
    <3>1. Merging(slice + 1) = Prepared(sample \cup BoardField)
      BY <1>5, <2>2 DEF Merging
    <3>2. Prepared(sample \cup BoardField)' = Prepared(sample \cup BoardField)
      BY <1>2, <1>4 DEF Prepared
    <3> QED BY <1>2, <1>7, <2>2, <3>1, <3>2 DEF OnScale
  <2> QED BY <1>2, <2>1, <2>2
<1>9. Counted'
  <2>1. (TallyOver({}) = Unscored)'
    <3>1. (Typed /\ OnScale => TallyOver({}) = Unscored)'
      BY NoneTallied, PTL
    <3> QED BY <1>2, <1>8, <3>1
  <2>2. stage' = "sampling" \/ (stage' = "tallying" /\ slice' = 0)
    BY <1>1, <1>2
  <2>3. (Prepared(Seen(sample, 0)))' = {}
    <3>1. Seen(sample, 0) = {}
      BY <1>4, Slicing
    <3>2. Seen(sample, 0)' = {}
      BY <1>2, <3>1 DEF Seen, Place, NamesBefore
    <3> QED BY <3>2 DEF Prepared
  <2>4. Unscored' = Unscored
    BY DEF Unscored
  <2>5. slice' = 0 => TallyOver(Prepared(Seen(sample, slice)))' = TallyOver({})'
    BY <2>3
  <2> QED BY <1>1, <1>3, <2>1, <2>2, <2>4, <2>5 DEF Counted
<1> QED BY <1>2, <1>8, <1>9 DEF SearchInv

\* The same of what the rounds have seen, to be asked of the next state too.
LEMMA TypedLists == Typed => IsFiniteSet(LegalSixes)
BY ListsFinite DEF Typed

LEMMA SeenNone == IsFiniteSet(LegalSixes) => Seen(LegalSixes, 0) = {}
BY Slicing

LEMMA TallyOfSeen ==
    TallyOver(Prepared(Seen(sample, slice))) = TallyAt(board, bounds, Prepared(Seen(sample, slice)))
<1>1. \A S : TallyOver(S) = TallyAt(board, bounds, S)
  BY TallyIsAt
<1> QED BY <1>1

\* A slice of the sample adds its sixes' scores to the standing.
LEMMA TallyStep == SearchInv /\ TallySlice => SearchInv'
<1> SUFFICES ASSUME SearchInv, TallySlice PROVE SearchInv'
  OBVIOUS
<1> DEFINE A == Prepared(Seen(sample, slice))
           B == Prepared(SliceOf(sample, slice))
<1>1. /\ stage = "tallying" /\ bounds' = bounds /\ Merged("sweeping")
      /\ tally' = MergeTallies(tally, TallyOver(B)) /\ field' = field
  BY DEF TallySlice
<1>2. /\ Idle /\ Typed' /\ Climbed' /\ Scaled
      /\ board' = board /\ sample' = sample
      /\ slice \in 0..Slices - 1
      /\ \/ stage' = stage /\ slice' = slice + 1
         \/ stage' = "sweeping" /\ slice' = 0 /\ slice + 1 = Slices
  BY <1>1, RoundTurns DEF Rounds, Opening
<1>3. /\ board \in Boards /\ sample \in Samples
      /\ Fits(board, bounds, Prepared(sample \cup BoardField)) /\ tally = TallyOver(A) /\ field = {}
  BY <1>1 DEF SearchInv, Typed, OnScale, Counted
<1>4. /\ IsFiniteSet(sample) /\ sample \subseteq Sixes /\ BoardField' = BoardField
  BY <1>2, <1>3, ListsFinite, ListsOfSixes, ListsKept
<1>5. /\ Seen(sample, slice + 1) = Seen(sample, slice) \cup SliceOf(sample, slice)
      /\ Seen(sample, slice) \cap SliceOf(sample, slice) = {}
      /\ Seen(sample, Slices) = sample
  BY <1>2, <1>4, Slicing
<1>6. /\ A \cup B = Prepared(Seen(sample, slice + 1)) /\ A \cap B = {}
      /\ A \subseteq Sixes /\ B \subseteq Sixes
  BY <1>4, <1>5 DEF Prepared, Seen, SliceOf
<1> HIDE DEF A, B
<1>7. tally' = TallyOver(Prepared(Seen(sample, slice + 1)))
  <2>1. MergeTallies(TallyOver(A), TallyOver(B)) = TallyOver(A \cup B)
    BY <1>2, <1>6, TallyJoined
  <2> QED BY <1>1, <1>3, <1>6, <2>1
<1>8. OnScale'
  <2>1. Prepared(sample \cup BoardField)' = Prepared(sample \cup BoardField)
    BY <1>2, <1>4 DEF Prepared
  <2> QED BY <1>1, <1>2, <1>3, <2>1 DEF OnScale
<1>9. Counted'
  <2>1. CASE stage' = stage /\ slice' = slice + 1
    <3>1. TallyOver(Prepared(Seen(sample, slice)))' = TallyOver(Prepared(Seen(sample, slice + 1)))
      <4>1. Prepared(Seen(sample, slice))' = Prepared(Seen(sample, slice + 1))
        BY <1>2, <2>1 DEF Prepared, Seen, Place, NamesBefore
      <4>2. (TallyOver(Prepared(Seen(sample, slice))) = TallyAt(board, bounds, Prepared(Seen(sample, slice))))'
        BY TallyOfSeen, PTL
      <4>3. \A X : TallyOver(X) = TallyAt(board, bounds, X)
        BY TallyIsAt
      <4> QED BY <1>1, <1>2, <4>1, <4>2, <4>3
    <3> QED BY <1>1, <1>3, <1>7, <2>1, <3>1 DEF Counted
  <2>2. CASE stage' = "sweeping" /\ slice' = 0 /\ slice + 1 = Slices
    <3>1. tally' = TallyOver(Prepared(sample))
      BY <1>5, <1>7, <2>2
    <3>2. TallyOver(Prepared(sample))' = TallyOver(Prepared(sample))
      <4>1. Prepared(sample)' = Prepared(sample)
        BY <1>2 DEF Prepared
      <4>2. (TallyOver(Prepared(sample)) = TallyAt(board, bounds, Prepared(sample)))'
        BY TallyOfSample, PTL
      <4> QED BY <1>1, <1>2, <4>1, <4>2, TallyOfSample
    <3>3. Judged(Seen(LegalSixes, 0))' = {}
      <4>1. (Typed => IsFiniteSet(LegalSixes))'
        BY TypedLists, PTL
      <4>2. (IsFiniteSet(LegalSixes) => Seen(LegalSixes, 0) = {})'
        BY SeenNone, PTL
      <4> QED BY <1>2, <4>1, <4>2 DEF Judged, Prepared
    <3> QED BY <1>1, <1>3, <2>2, <3>1, <3>2, <3>3 DEF Counted
  <2> QED BY <1>2, <2>1, <2>2
<1> QED BY <1>2, <1>8, <1>9 DEF SearchInv

\* A slice of the enumeration adds its verdicts to the field.
LEMMA SweepStep == SearchInv /\ SweepSlice => SearchInv'
<1> SUFFICES ASSUME SearchInv, SweepSlice PROVE SearchInv'
  OBVIOUS
<1> DEFINE S == Seen(LegalSixes, slice)
           D == SliceOf(LegalSixes, slice)
<1>1. /\ stage = "sweeping" /\ bounds' = bounds /\ tally' = tally /\ Merged("ranking")
      /\ field' = field \cup Judged(D)
  BY DEF SweepSlice
<1>2. /\ Idle /\ Typed' /\ Climbed' /\ Scaled
      /\ board' = board /\ sample' = sample
      /\ slice \in 0..Slices - 1
      /\ \/ stage' = stage /\ slice' = slice + 1
         \/ stage' = "ranking" /\ slice' = 0 /\ slice + 1 = Slices
  BY <1>1, RoundTurns DEF Rounds, Opening
<1>3. /\ board \in Boards /\ sample \in Samples
      /\ Fits(board, bounds, Prepared(sample \cup BoardField)) /\ tally = TallyOver(Prepared(sample))
      /\ field = Judged(S)
  BY <1>1 DEF SearchInv, Typed, OnScale, Counted
<1>4. /\ IsFiniteSet(LegalSixes) /\ LegalSixes' = LegalSixes /\ BoardField' = BoardField
  BY <1>1, <1>2, <1>3, ListsFinite, ListsKept
<1>5. /\ Seen(LegalSixes, slice + 1) = S \cup D
      /\ Seen(LegalSixes, Slices) = LegalSixes
  BY <1>2, <1>4, Slicing
<1>6. field' = Judged(Seen(LegalSixes, slice + 1))
  <2>1. Judged(S \cup D) = Judged(S) \cup Judged(D)
    <3> HIDE DEF S, D
    <3> QED BY DEF Judged, Prepared
  <2> HIDE DEF S, D
  <2> QED BY <1>1, <1>3, <1>5, <2>1
<1> HIDE DEF S, D
<1>7. OnScale'
  <2>1. Prepared(sample \cup BoardField)' = Prepared(sample \cup BoardField)
    BY <1>2, <1>4 DEF Prepared
  <2> QED BY <1>1, <1>2, <1>3, <2>1 DEF OnScale
<1>8. Counted'
  <2>1. tally' = TallyOver(Prepared(sample))'
    <3>1. Prepared(sample)' = Prepared(sample)
      BY <1>2 DEF Prepared
    <3>2. (TallyOver(Prepared(sample)) = TallyAt(board, bounds, Prepared(sample)))'
      BY TallyOfSample, PTL
    <3> QED BY <1>1, <1>2, <1>3, <3>1, <3>2, TallyOfSample
  <2>2. \A T : Verdict(T)' = Verdict(T)
    BY <1>1, <1>2, VerdictKept
  <2>3. CASE stage' = stage /\ slice' = slice + 1
    <3>1. Judged(Seen(LegalSixes, slice))' = Judged(Seen(LegalSixes, slice + 1))
      <4>1. Seen(LegalSixes, slice)' = Seen(LegalSixes, slice + 1)
        BY <1>2, <1>4, <2>3 DEF Seen, Place, NamesBefore
      <4> QED BY <1>2, <2>2, <4>1 DEF Judged, Prepared
    <3> QED BY <1>1, <1>6, <2>1, <2>3, <3>1 DEF Counted
  <2>4. CASE stage' = "ranking" /\ slice' = 0 /\ slice + 1 = Slices
    <3>1. field' = Judged(LegalSixes)
      BY <1>5, <1>6, <2>4
    <3>2. Judged(LegalSixes)' = Judged(LegalSixes)
      BY <1>2, <1>4, <2>2 DEF Judged, Prepared
    <3> QED BY <2>1, <2>4, <3>1, <3>2 DEF Counted
  <2> QED BY <1>2, <2>3, <2>4
<1> QED BY <1>2, <1>7, <1>8 DEF SearchInv

-----------------------------------------------------------------------------
(* The invariant holds, and what the search promises follows from it.      *)

LEMMA StillInv == SearchInv /\ UNCHANGED searchVars => SearchInv'
<1> SUFFICES ASSUME SearchInv, UNCHANGED searchVars PROVE SearchInv'
  OBVIOUS
<1>1. /\ board' = board /\ sample' = sample /\ stage' = stage /\ slice' = slice /\ bounds' = bounds
      /\ tally' = tally /\ field' = field /\ known' = known /\ todo' = todo /\ at' = at
      /\ seed' = seed /\ best' = best /\ offers' = offers /\ tries' = tries
      /\ leader' = leader /\ left' = left
  BY DEF searchVars, scale, pairing
<1>2. Legals' = Legals /\ Pairs' = Pairs /\ BoardField' = BoardField /\ LegalSixes' = LegalSixes
  BY <1>1, JudgedKept, BoardKept, ListsKept
<1>3. Typed'
  BY <1>1, <1>2 DEF SearchInv, Typed
<1>4. OnScale'
  <2>1. /\ Prepared(sample \cup BoardField)' = Prepared(sample \cup BoardField)
        /\ Prepared(Seen(sample, slice) \cup Seen(BoardField, slice))'
            = Prepared(Seen(sample, slice) \cup Seen(BoardField, slice))
    BY <1>1, <1>2 DEF Prepared, Seen, Place, NamesBefore
  <2> QED BY <1>1, <2>1 DEF SearchInv, OnScale
<1>5. Counted'
  <2>1. TallyOver(Prepared(Seen(sample, slice)))' = TallyOver(Prepared(Seen(sample, slice)))
    <3>1. Prepared(Seen(sample, slice))' = Prepared(Seen(sample, slice))
      BY <1>1 DEF Prepared, Seen, Place, NamesBefore
    <3>2. (TallyOver(Prepared(Seen(sample, slice))) = TallyAt(board, bounds, Prepared(Seen(sample, slice))))'
      BY TallyOfSeen, PTL
    <3> QED BY <1>1, <3>1, <3>2, TallyOfSeen
  <2>2. TallyOver(Prepared(sample))' = TallyOver(Prepared(sample))
    <3>1. Prepared(sample)' = Prepared(sample)
      BY <1>1 DEF Prepared
    <3>2. (TallyOver(Prepared(sample)) = TallyAt(board, bounds, Prepared(sample)))'
      BY TallyOfSample, PTL
    <3> QED BY <1>1, <3>1, <3>2, TallyOfSample
  <2>3. /\ Judged(Seen(LegalSixes, slice))' = Judged(Seen(LegalSixes, slice))
        /\ Judged(LegalSixes)' = Judged(LegalSixes)
    <3>1. \A T : Verdict(T)' = Verdict(T)
      BY <1>1, VerdictKept
    <3>2. Seen(LegalSixes, slice)' = Seen(LegalSixes, slice)
      BY <1>1, <1>2 DEF Seen, Place, NamesBefore
    <3> QED BY <1>1, <1>2, <3>1, <3>2 DEF Judged, Prepared
  <2>4. Unscored' = Unscored
    BY DEF Unscored
  <2> QED BY <1>1, <2>1, <2>2, <2>3, <2>4 DEF SearchInv, Counted
<1>6. Climbed'
  <2>1. \A v : (TurnComes(v)' <=> TurnComes(v)) /\ (Explored(v)' <=> Explored(v)) /\ (Topped(v)' <=> Topped(v))
    BY <1>1 DEF TurnComes, Explored, Topped
  <2>2. Explored(leader)' <=> Explored(leader)
    BY <1>1 DEF Explored
  <2> QED BY <1>1, <2>1, <2>2 DEF SearchInv, Climbed
<1> QED BY <1>3, <1>4, <1>5, <1>6 DEF SearchInv

\* Every step of the search, from the first slice of the sample to the answer,
\* keeps the invariant.
THEOREM SearchInvariant == SearchSpec => []SearchInv
<1>1. SearchInit => SearchInv
  BY InitInv
<1>2. SearchInv /\ [SearchNext]_searchVars => SearchInv'
  <2> SUFFICES ASSUME SearchInv, [SearchNext]_searchVars PROVE SearchInv'
    OBVIOUS
  <2>1. CASE SampleSlice
    BY <2>1, SampleStep
  <2>2. CASE TallySlice
    BY <2>2, TallyStep
  <2>3. CASE SweepSlice
    BY <2>3, SweepStep
  <2>4. CASE Refuse
    BY <2>4, RefuseStep
  <2>5. CASE Rank
    BY <2>5, RankStep
  <2>6. CASE NextSeed
    BY <2>6, NextSeedStep
  <2>7. CASE Climb
    BY <2>7, ClimbStep
  <2>8. CASE Rest
    BY <2>8, RestStep
  <2>9. CASE SeedsDone
    BY <2>9, SeedsDoneStep
  <2>10. CASE NextPaired
    BY <2>10, NextPairedStep
  <2>11. CASE TryPair
    BY <2>11, TryPairStep
  <2>12. CASE PairsTried
    BY <2>12, PairsTriedStep
  <2>13. CASE PairsDone
    BY <2>13, PairsDoneStep
  <2>14. CASE Restart
    BY <2>14, RestartStep
  <2>15. CASE RestartsDone
    BY <2>15, RestartsDoneStep
  <2>16. CASE TwoSwap
    BY <2>16, TwoSwapStep
  <2>17. CASE Settle
    BY <2>17, SettleStep
  <2>18. CASE UNCHANGED searchVars
    BY <2>18, StillInv
  <2>19. CASE Answered
    BY <2>19, StillInv DEF Answered
  <2> QED BY <2>1, <2>2, <2>3, <2>4, <2>5, <2>6, <2>7, <2>8, <2>9, <2>10, <2>11, <2>12,
             <2>13, <2>14, <2>15, <2>16, <2>17, <2>18, <2>19 DEF SearchNext, Work
<1> QED BY <1>1, <1>2, PTL DEF SearchSpec

LEMMA InvLegal == SearchInv => KnownLegal
<1> SUFFICES ASSUME SearchInv PROVE KnownLegal
  OBVIOUS
<1>1. Typed /\ OnScale /\ Counted /\ Scaled
  BY InvScaled DEF SearchInv
<1>2. \A v \in known : Legal(v.six)
  BY <1>1, LegalsRanked DEF Typed
<1>3. \A h \in Heroes : tally[h].sixes \in 0..Cardinality(sample)
  <2>1. PICK S : S \subseteq sample /\ (tally = TallyOver(S) \/ tally = Unscored)
    <3>1. /\ Prepared(sample) \subseteq sample
          /\ Prepared(Seen(sample, slice)) \subseteq sample
      BY DEF Prepared, Seen
    <3> QED BY <1>1, <3>1 DEF Counted
  <2>2. IsFiniteSet(sample) /\ Cardinality(sample) \in Nat
    BY <1>1, ListsFinite, FS_CardinalityType DEF Typed
  <2> SUFFICES ASSUME NEW h \in Heroes PROVE tally[h].sixes \in 0..Cardinality(sample)
    OBVIOUS
  <2>3. CASE tally = TallyOver(S)
    <3> DEFINE with == {T \in S : h \in T}
    <3>1. with \in SUBSET sample
      BY <2>1
    <3>2. tally[h].sixes = Cardinality(with)
      BY <2>3 DEF TallyOver
    <3> HIDE DEF with
    <3>3. IsFiniteSet(with) /\ Cardinality(with) <= Cardinality(sample) /\ Cardinality(with) \in Nat
      BY <2>2, <3>1, FS_Subset, FS_CardinalityType
    <3> QED BY <2>2, <3>2, <3>3
  <2>4. CASE tally = Unscored
    <3>1. tally[h].sixes = 0
      BY <2>4 DEF Unscored
    <3> QED BY <2>2, <3>1
  <2> QED BY <2>1, <2>3, <2>4
<1>4. DOMAIN bounds \subseteq Rules
  BY <1>1 DEF OnScale, Fits
<1>5. SearchTypeOK
  BY <1>1, <1>3, <1>4 DEF SearchTypeOK, Typed, Opening, Moving
<1> QED BY <1>2, <1>5 DEF KnownLegal, Legal, Roster

\* The bounds fit the population, so they are its extremes; the standing and the
\* field are counted to the end.
LEMMA InvSplitFree == SearchInv => SplitFree
<1> SUFFICES ASSUME SearchInv PROVE SplitFree
  OBVIOUS
<1>1. Typed /\ OnScale /\ Counted
  BY DEF SearchInv
<1>2. OneScale
  <2> SUFFICES ASSUME stage # "sampling", NEW r \in Rules
               PROVE  LET values == {Raw(board, r, T) : T \in Measured} \ {NoReading}
                      IN  /\ (r \in DOMAIN bounds) <=> (values # {})
                          /\ r \in DOMAIN bounds =>
                              /\ {bounds[r].low, bounds[r].high} \subseteq values
                              /\ values \subseteq bounds[r].low..bounds[r].high
    BY DEF OneScale
  <2>1. Fits(board, bounds, Measured)
    BY <1>1, MeasuredIs DEF Typed, OnScale
  <2>2. Measured \subseteq Sixes
    BY <1>1, MeasuredIs, ListsOfSixes DEF Typed, Prepared
  <2>3. Readings(board, r, Measured) \subseteq Int
    BY <1>1, <2>2, ReadingsInt DEF Typed
  <2>4. (r \in DOMAIN bounds) <=> (Readings(board, r, Measured) # {})
    BY <2>1 DEF Fits
  <2>5. ASSUME r \in DOMAIN bounds
        PROVE  /\ {bounds[r].low, bounds[r].high} \subseteq Readings(board, r, Measured)
               /\ Readings(board, r, Measured) \subseteq bounds[r].low..bounds[r].high
    <3>1. Extreme(bounds, r, Readings(board, r, Measured))
      BY <2>1, <2>5 DEF Fits
    <3>2. bounds[r].low \in Int /\ bounds[r].high \in Int
      BY <2>3, <3>1 DEF Extreme
    <3>3. \A x \in Readings(board, r, Measured) : x \in Int /\ bounds[r].low <= x /\ x <= bounds[r].high
      BY <2>3, <3>1 DEF Extreme
    <3>4. \A x \in Readings(board, r, Measured) : x \in bounds[r].low..bounds[r].high
      BY <3>2, <3>3
    <3> QED BY <3>1, <3>4 DEF Extreme
  <2> QED BY <2>4, <2>5 DEF Readings
<1>3. SliceFree
  BY <1>1 DEF Counted, SliceFree
<1> QED BY <1>2, <1>3 DEF SplitFree

LEMMA InvOptimum == SearchInv => LocalOptimum
<1> SUFFICES ASSUME SearchInv, stage = "done"
             PROVE  /\ leader = Best(known)
                    /\ \A v \in Judged(Redraws) :
                          Cardinality(v.six \ leader.six) <= 2 => ~Above(v, leader)
  BY DEF LocalOptimum
<1>1. Typed /\ OnScale /\ Climbed /\ Scaled
  BY InvScaled DEF SearchInv
<1>2. /\ leader \in known /\ at = NoSix /\ Explored(leader)
      /\ Near(board, bounds, leader.six, 2) \subseteq known
      /\ \A v \in known : v = leader \/ Above(leader, v)
  BY <1>1 DEF Typed, Climbed, Topped
<1>3. known \subseteq Ranked /\ known \subseteq Legals /\ leader = Verdict(leader.six)
  BY <1>1, <1>2, KnownRanked DEF Typed
<1>4. leader = Best(known)
  BY <1>1, <1>2, <1>3, HeadIsBest DEF Heads
<1>5. ASSUME NEW v \in Judged(Redraws), Cardinality(v.six \ leader.six) <= 2
      PROVE  ~Above(v, leader)
  <2>1. PICK T \in Redraws : v = Verdict(T) /\ ~Refused(board, T)
    BY DEF Judged, Prepared
  <2>2. v.six = T /\ Legal(T) /\ ShapeOf(T) = ShapeOf(leader.six)
    <3>1. Seated(T)
      BY <1>1, RedrawsSeated
    <3> QED BY <2>1, <3>1 DEF Seated, Legal, Verdict, Redraws
  <2>3. Legal(leader.six)
    BY <1>1, <1>2, <1>3, LegalsRanked
  <2>4. \/ T = leader.six \/ v \in Judged(Swaps(leader.six, 1)) \/ v \in Judged(Swaps(leader.six, 2))
    BY <1>1, <1>5, <2>1, <2>2, <2>3, TwoAway
  <2>5. v \in known
    <3>1. Judged(Swaps(leader.six, 1)) \subseteq known /\ Judged(Swaps(leader.six, 2)) \subseteq known
      BY <1>2, NearIs DEF Explored
    <3> QED BY <1>2, <1>3, <2>1, <2>4, <3>1
  <2>6. v = leader \/ Above(leader, v)
    BY <1>2, <2>5
  <2> QED BY <1>1, <1>2, <1>3, <2>5, <2>6, AboveOrder
<1> QED BY <1>4, <1>5

\* Every six the search may answer with keeps the locks, holds no ban and nobody
\* unreleased, has a legal shape and breaks no limit, whatever the playbook, the
\* board and the moves that proposed it (Solver._climb, _bring_pair, _restarts).
THEOREM OnlyLegalSixes == SearchSpec => []KnownLegal
BY SearchInvariant, InvLegal, PTL

\* However many slices the rounds are split into, a board's scale, standing and
\* swept field are those of the whole work in one process (Split.sample, Split.sweep).
THEOREM SplitsAgreeWithWhole == SearchSpec => []SplitFree
BY SearchInvariant, InvSplitFree, PTL

\* The search answers with the first, in rank()'s order, of all it scored, and no
\* legal six of its shape one or two open seats away ranks above it (Solver.refine).
THEOREM AnswerIsLocalOptimum == SearchSpec => []LocalOptimum
BY SearchInvariant, InvOptimum, PTL

-----------------------------------------------------------------------------
(* Why the local search comes to an end.                                   *)

\* What a climb moves to ranks above where it stood, and a leader gives way only
\* to a six above it.
Ascends ==
    /\ at # NoSix /\ at' \notin {at, NoSix} => Above(at', at)
    /\ leader # NoSix /\ leader' # leader => Above(leader', leader)

LEMMA MoveAscends == SearchInv /\ [SearchNext]_searchVars => Ascends
<1> SUFFICES ASSUME SearchInv, [SearchNext]_searchVars PROVE Ascends
  OBVIOUS
<1>1. Typed /\ OnScale /\ Climbed /\ Scaled
  BY InvScaled DEF SearchInv
<1>2. /\ known \subseteq Ranked /\ NoSix \notin Ranked
      /\ \A v \in known : Seated(v.six) /\ v = Verdict(v.six)
  BY <1>1, KnownRanked DEF Typed
<1>3. at # NoSix => at \in Ranked /\ at \in known
  BY <1>1, <1>2 DEF Typed
<1>4. leader # NoSix => leader \in Ranked /\ leader \in known
  BY <1>1, <1>2 DEF Typed
<1>5. \A T, n : Seated(T) => Judged(Swaps(T, n)) \subseteq Ranked
  <2> SUFFICES ASSUME NEW T, NEW n, Seated(T) PROVE Judged(Swaps(T, n)) \subseteq Ranked
    OBVIOUS
  <2>1. \A U \in Swaps(T, n) : Seated(U)
    BY <1>1, SwapsSeated
  <2> QED BY <1>1, <2>1, JudgedSeated, LegalsRanked
<1>6. \A v \in Ranked, V \in SUBSET Ranked : Better(V, v) # {} => Above(Best(Better(V, v)), v)
  <2> SUFFICES ASSUME NEW v \in Ranked, NEW V \in SUBSET Ranked, Better(V, v) # {}
               PROVE  Above(Best(Better(V, v)), v)
    OBVIOUS
  <2>1. Better(V, v) \subseteq V /\ \A w \in Better(V, v) : Above(w, v)
    BY <1>1, AboveOrder DEF Better
  <2> DEFINE up == Better(V, v)
  <2>2. up \subseteq Ranked /\ up # {}
    BY <2>1
  <2> HIDE DEF up
  <2>3. Best(up) \in up
    BY <1>1, <2>2, BestHeads DEF Heads
  <2> QED BY <2>1, <2>3 DEF up
<1>7. CASE Climb
  <2>1. at # NoSix /\ leader' = leader /\ at' = Best(Better(Judged(Swaps(at.six, 1)), at))
        /\ Better(Judged(Swaps(at.six, 1)), at) # {}
    BY <1>7 DEF Climb
  <2> QED BY <1>2, <1>3, <1>5, <1>6, <2>1 DEF Ascends
<1>8. CASE Rest
  <2>1. at # NoSix /\ at' = NoSix
        /\ leader' = IF (stage = "restarts" /\ Beats(at, leader)) \/ stage = "twoswaps" THEN at ELSE leader
    BY <1>8 DEF Rest
  <2>2. ASSUME leader # NoSix, leader' # leader PROVE Above(leader', leader)
    <3>1. CASE stage = "twoswaps"
      BY <1>1, <2>1, <3>1 DEF Climbed
    <3>2. CASE stage # "twoswaps"
      BY <1>1, <1>3, <1>4, <2>1, <2>2, <3>2, AboveOrder
    <3> QED BY <3>1, <3>2
  <2> QED BY <2>1, <2>2 DEF Ascends
<1>9. CASE PairsDone
  <2>1. at = NoSix /\ at' = at /\ leader' = Best(known) /\ stage = "pairs"
    BY <1>9 DEF PairsDone
  <2>2. Heads(Best(known), known)
    BY <1>1, <1>2, <2>1, BestHeads DEF Typed, Moving
  <2> QED BY <1>4, <2>1, <2>2 DEF Ascends, Heads
<1>10. CASE TwoSwap \/ Restart \/ NextSeed \/ PairsTried
  <2>1. at = NoSix /\ leader' = leader
    BY <1>1, <1>10 DEF TwoSwap, Restart, NextSeed, PairsTried, Typed
  <2> QED BY <2>1 DEF Ascends
<1>11. CASE at' = at /\ leader' = leader
  BY <1>11 DEF Ascends
<1>12. \/ Climb \/ Rest \/ PairsDone \/ TwoSwap \/ Restart \/ NextSeed \/ PairsTried
       \/ at' = at /\ leader' = leader
  <2>1. CASE SampleSlice \/ TallySlice \/ SweepSlice
    BY <2>1 DEF SampleSlice, TallySlice, SweepSlice, Merged
  <2>2. CASE Refuse \/ Rank \/ SeedsDone \/ NextPaired \/ TryPair \/ RestartsDone \/ Settle
    BY <2>2 DEF Refuse, Rank, SeedsDone, NextPaired, TryPair, RestartsDone, Settle
  <2>3. CASE Answered \/ UNCHANGED searchVars
    BY <2>3 DEF Answered, searchVars
  <2> QED BY <2>1, <2>2, <2>3 DEF SearchNext, Work
<1> QED BY <1>7, <1>8, <1>9, <1>10, <1>11, <1>12

\* No climb goes round in a circle of ties, and no leader is left for one beneath
\* it: each moves up rank()'s order, which has finitely many places (_beats).
THEOREM ClimbsAscend == SearchSpec => [][Ascends]_searchVars
<1>1. SearchInv /\ [SearchNext]_searchVars => [Ascends]_searchVars
  BY MoveAscends
<1> QED BY <1>1, SearchInvariant, PTL DEF SearchSpec
=============================================================================
