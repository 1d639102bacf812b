-------------------------- MODULE StrategiesProofs --------------------------
(***************************************************************************)
(* Proofs of Strategies, for every header, every call of however many      *)
(* pairs and every registry: in a tidy header what a call answers with is  *)
(* what the loader reads (TuningIsRead).                                   *)
(*                                                                         *)
(* Two walks over the lines must agree, and neither knows of the other.    *)
(* The loader's comes first: of a tidy header it reads each line's value   *)
(* at the line's own path and nothing elsewhere (TidyReads), by induction  *)
(* over the lines, where an indented one has params: above it and nothing  *)
(* at column 0 between (UnderParams).  A header is then no more than its   *)
(* lines' paths and values, so each writer is judged by what a line put in *)
(* or written over does to those and to the header's being tidy (PutIn,    *)
(* WriteOver); ScalarSets and ParamSets find the line each chose.  The     *)
(* pairs follow by induction, the last on a field winning (EditsSet).      *)
(***************************************************************************)
EXTENDS Strategies, TLAPS, WellFoundedInduction

-----------------------------------------------------------------------------
(* Induction, and the greatest and the least of a set of places. *)

\* A set of naturals has a least element.
LEMMA LeastNat == \A T \in SUBSET Nat : T # {} => \E x \in T : \A y \in T : x <= y
<1> SUFFICES ASSUME NEW T \in SUBSET Nat, T # {} PROVE \E x \in T : \A y \in T : x <= y
  OBVIOUS
<1>1. IsWellFoundedOn(OpToRel(<, Nat), Nat)
  BY NatLessThanWellFounded
<1>2. PICK x \in T : \A y \in T : ~(<<y, x>> \in OpToRel(<, Nat))
  BY <1>1, WFMin
<1>3. \A y \in T : ~(y < x)
  BY <1>2 DEF OpToRel
<1> QED BY <1>3

\* What holds of 0 and goes from each number to the next holds up to N.
LEMMA Upwards ==
    ASSUME NEW N \in Nat, NEW S, 0 \in S, \A n \in 0..N - 1 : n \in S => n + 1 \in S
    PROVE  0..N \subseteq S
<1> SUFFICES ASSUME 0..N \ S # {} PROVE FALSE
  OBVIOUS
<1>1. PICK x \in 0..N \ S : \A y \in 0..N \ S : x <= y
  <2>1. 0..N \ S \in SUBSET Nat
    OBVIOUS
  <2> QED BY <2>1, LeastNat, Zenon
<1>2. x # 0 /\ x - 1 \in S
  BY <1>1
<1> QED BY <1>1, <1>2

LEMMA MinIs ==
    ASSUME NEW T \in SUBSET Nat, T # {}
    PROVE  Min(T) \in T /\ \A y \in T : Min(T) <= y
<1>1. \E x \in T : \A y \in T : x <= y
  BY LeastNat
<1> QED BY <1>1 DEF Min

LEMMA MaxIs ==
    ASSUME NEW n \in Nat, NEW T \in SUBSET (1..n), T # {}
    PROVE  Max(T) \in T /\ \A y \in T : Max(T) >= y
<1> DEFINE U == {n - x : x \in T}
<1>0. \A x \in T : x \in Int /\ x <= n
  OBVIOUS
<1>1. U \in SUBSET Nat /\ U # {}
  <2>1. \A x \in T : n - x \in Nat
    BY <1>0
  <2>2. PICK t \in T : TRUE
    OBVIOUS
  <2>3. n - t \in U
    OBVIOUS
  <2> QED BY <2>1, <2>3
<1>2. PICK u \in U : \A v \in U : u <= v
  BY <1>1, LeastNat
<1>3. PICK x \in T : u = n - x
  BY <1>2
<1>4. \A y \in T : x >= y
  <2> SUFFICES ASSUME NEW y \in T PROVE x >= y
    OBVIOUS
  <2>1. n - y \in U
    OBVIOUS
  <2>2. n - x <= n - y
    BY <1>2, <1>3, <2>1
  <2>3. x \in Int /\ y \in Int
    OBVIOUS
  <2> QED BY <2>2, <2>3
<1> QED BY <1>4 DEF Max

-----------------------------------------------------------------------------
(* The two folds, walked line by line and pair by pair. *)

\* The loader's step, and the editor's.
Turn(who, so, x) == IF who = "loader" THEN ReadLine(so, x) ELSE EditLine(so, x)

\* f folds the first n of s, by the subsets of their places.
Builds(f, who, base, s, n) ==
    f = [T \in SUBSET (1..n) |-> IF T = {} THEN base ELSE Turn(who, f[T \ {Max(T)}], s[Max(T)])]

\* There is such an f: it is built up from the places before the last.
LEMMA FoldExists ==
    ASSUME NEW who, NEW base, NEW s, NEW N \in Nat
    PROVE  \E f : Builds(f, who, base, s, N)
<1> DEFINE Good == {n \in 0..N : \E f : Builds(f, who, base, s, n)}
<1>1. 0 \in Good
  <2> DEFINE f == [T \in SUBSET (1..0) |-> base]
  <2>1. \A T \in SUBSET (1..0) : T = {}
    OBVIOUS
  <2>2. f = [T \in SUBSET (1..0) |-> IF T = {} THEN base ELSE Turn(who, f[T \ {Max(T)}], s[Max(T)])]
    BY <2>1, Zenon
  <2> HIDE DEF f
  <2>3. Builds(f, who, base, s, 0)
    BY <2>2 DEF Builds
  <2> QED BY <2>3
<1>2. ASSUME NEW n \in 0..N - 1, n \in Good
      PROVE  n + 1 \in Good
  <2>1. PICK f : Builds(f, who, base, s, n)
    BY <1>2
  <2> DEFINE Step(g, T) == IF T = {} THEN base ELSE Turn(who, g[T \ {Max(T)}], s[Max(T)])
             h == [T \in SUBSET (1..n + 1) |-> Step(f, T)]
  <2>2. \A T \in SUBSET (1..n) : f[T] = Step(f, T)
    BY <2>1 DEF Builds
  <2>3. \A T \in SUBSET (1..n + 1) : T # {} => T \ {Max(T)} \in SUBSET (1..n)
    <3> SUFFICES ASSUME NEW T \in SUBSET (1..n + 1), T # {} PROVE T \ {Max(T)} \in SUBSET (1..n)
      OBVIOUS
    <3>0. n \in Nat /\ n + 1 \in Nat
      OBVIOUS
    <3>1. Max(T) \in T /\ \A y \in T : Max(T) >= y
      BY <3>0, MaxIs
    <3>2. ASSUME NEW y \in T, y # Max(T) PROVE y \in 1..n
      <4>1. y \in 1..n + 1 /\ Max(T) \in 1..n + 1 /\ Max(T) >= y
        BY <3>1
      <4>2. y \in Int /\ Max(T) \in Int /\ 1 <= y /\ y <= n + 1 /\ Max(T) <= n + 1
        BY <4>1, <3>0
      <4> HIDE DEF Step
      <4> QED BY <4>1, <4>2, <3>2, <3>0
    <3> QED BY <3>2
  <2>4. \A T \in SUBSET (1..n) : T \in SUBSET (1..n + 1) /\ h[T] = f[T]
    <3>1. \A T \in SUBSET (1..n) : T \in SUBSET (1..n + 1)
      OBVIOUS
    <3> HIDE DEF Step
    <3> QED BY <2>2, <3>1
  <2>5. \A T \in SUBSET (1..n + 1) : Step(f, T) = Step(h, T)
    <3>1. \A T \in SUBSET (1..n + 1) : T # {} => f[T \ {Max(T)}] = h[T \ {Max(T)}]
      BY <2>3, <2>4
    <3> HIDE DEF h
    <3> QED BY <3>1
  <2>6. h = [T \in SUBSET (1..n + 1) |-> Step(h, T)]
    <3> HIDE DEF Step
    <3> QED BY <2>5, Zenon
  <2> HIDE DEF h
  <2>7. Builds(h, who, base, s, n + 1)
    BY <2>6 DEF Builds
  <2> QED BY <2>7
<1> HIDE DEF Good
<1>3. 0..N \subseteq Good
  BY <1>1, <1>2, Upwards
<1> QED BY <1>3 DEF Good

\* What a fold is at 0, 1, ... places.
LEMMA FoldWalks ==
    ASSUME NEW who, NEW base, NEW s, NEW N \in Nat, NEW f, Builds(f, who, base, s, N)
    PROVE  /\ f[1..0] = base
           /\ \A i \in 1..N : f[1..i] = Turn(who, f[1..i - 1], s[i])
<1>1. f[1..0] = base
  <2>1. 1..0 \in SUBSET (1..N) /\ 1..0 = {}
    OBVIOUS
  <2> QED BY <2>1 DEF Builds
<1>2. ASSUME NEW i \in 1..N
      PROVE  f[1..i] = Turn(who, f[1..i - 1], s[i])
  <2>1. 1..i \in SUBSET (1..N) /\ 1..i # {} /\ i \in Nat
    OBVIOUS
  <2>2. Max(1..i) = i
    <3>1. Max(1..i) \in 1..i /\ \A y \in 1..i : Max(1..i) >= y
      BY <2>1, MaxIs
    <3> QED BY <3>1
  <2>3. (1..i) \ {i} = 1..i - 1
    OBVIOUS
  <2>4. f[1..i] = Turn(who, f[(1..i) \ {Max(1..i)}], s[Max(1..i)])
    BY <2>1 DEF Builds
  <2> QED BY <2>2, <2>3, <2>4
<1> QED BY <1>1, <1>2

\* The loader's reading, line by line.
LEMMA ReadWalk ==
    ASSUME NEW S, NEW h \in Seq(S)
    PROVE  \E r : /\ r[0] = Start /\ r[Len(h)] = Parsed(h)
                  /\ \A i \in 1..Len(h) : r[i] = ReadLine(r[i - 1], h[i])
<1>1. Len(h) \in Nat /\ DOMAIN h = 1..Len(h)
  OBVIOUS
<1> DEFINE c == CHOOSE f : Builds(f, "loader", Start, h, Len(h))
<1>2. Builds(c, "loader", Start, h, Len(h))
  BY <1>1, FoldExists
<1>3. Parsed(h) = c[1..Len(h)]
  BY <1>1 DEF Parsed, FoldLeft, MapThenFoldSet, Builds, Turn
<1> HIDE DEF c
<1> DEFINE r == [i \in 0..Len(h) |-> c[1..i]]
<1>4. c[1..0] = Start /\ \A i \in 1..Len(h) : c[1..i] = ReadLine(c[1..i - 1], h[i])
  <2>1. c[1..0] = Start /\ \A i \in 1..Len(h) : c[1..i] = Turn("loader", c[1..i - 1], h[i])
    BY <1>1, <1>2, FoldWalks
  <2> QED BY <2>1 DEF Turn
<1>5. \A i \in 1..Len(h) : i - 1 \in 0..Len(h) /\ i \in 0..Len(h)
  BY <1>1
<1>6. r[0] = Start /\ r[Len(h)] = Parsed(h)
  BY <1>1, <1>3, <1>4
<1>7. \A i \in 1..Len(h) : r[i] = ReadLine(r[i - 1], h[i])
  BY <1>4, <1>5, Zenon
<1> HIDE DEF r
<1> QED BY <1>6, <1>7

\* The editor's writing, pair by pair.
LEMMA EditWalk ==
    ASSUME NEW S, NEW h, NEW pairs \in Seq(S)
    PROVE  \E e : /\ e[0] = h /\ e[Len(pairs)] = Edited(h, pairs)
                  /\ \A i \in 1..Len(pairs) : e[i] = EditLine(e[i - 1], pairs[i])
<1>1. Len(pairs) \in Nat /\ DOMAIN pairs = 1..Len(pairs)
  OBVIOUS
<1> DEFINE c == CHOOSE f : Builds(f, "editor", h, pairs, Len(pairs))
<1>2. Builds(c, "editor", h, pairs, Len(pairs))
  BY <1>1, FoldExists
<1>3. Edited(h, pairs) = c[1..Len(pairs)]
  BY <1>1 DEF Edited, FoldLeft, MapThenFoldSet, Builds, Turn
<1> HIDE DEF c
<1> DEFINE e == [i \in 0..Len(pairs) |-> c[1..i]]
<1>4. c[1..0] = h /\ \A i \in 1..Len(pairs) : c[1..i] = EditLine(c[1..i - 1], pairs[i])
  <2>1. c[1..0] = h /\ \A i \in 1..Len(pairs) : c[1..i] = Turn("editor", c[1..i - 1], pairs[i])
    BY <1>1, <1>2, FoldWalks
  <2> QED BY <2>1 DEF Turn
<1>5. \A i \in 1..Len(pairs) : i - 1 \in 0..Len(pairs) /\ i \in 0..Len(pairs)
  BY <1>1
<1>6. e[0] = h /\ e[Len(pairs)] = Edited(h, pairs)
  BY <1>1, <1>3, <1>4
<1>7. \A i \in 1..Len(pairs) : e[i] = EditLine(e[i - 1], pairs[i])
  BY <1>4, <1>5, Zenon
<1> HIDE DEF e
<1> QED BY <1>6, <1>7

-----------------------------------------------------------------------------
(* What the loader reads of a tidy header. *)

\* The strings, with those the module names: no prover here knows that a literal
\* is a string.
Words   == STRING \cup {"params", "", "A", "B"}
Written == [in : BOOLEAN, key : Words, value : Words]
Opener  == Line("params", "")

\* Where the loader puts a line of a tidy header, and whether it puts it at all.
At(line)   == IF line.in THEN <<"params", line.key>> ELSE <<line.key>>
Says(line) == line.key # Skip /\ (line.in \/ line.value # "")

\* The loader has walked the first i lines of h.
Reads(h, i, so) ==
    /\ so = [meta |-> so.meta, block |-> so.block, ok |-> so.ok]
    /\ \A p : p \in DOMAIN so.meta <=> \E j \in 1..i : Says(h[j]) /\ p = At(h[j])
    /\ \A j \in 1..i : Says(h[j]) => so.meta[At(h[j])] = Scalar(h[j].value)
    /\ \A j \in 1..i : h[j] = Opener /\ (\A m \in j + 1..i : h[m].in) => so.block = "params"

\* What to holds when a value is put at a path of meta.
Puts(to, meta, path, value) ==
    /\ DOMAIN to = DOMAIN meta \cup {path} /\ to[path] = value
    /\ \A p \in DOMAIN meta : p # path => to[p] = meta[p]

LEMMA PutIs ==
    ASSUME NEW meta, NEW path, NEW value
    PROVE  Puts(Put(meta, path, value), meta, path, value)
BY DEF Put, Puts

LEMMA WithoutIs ==
    ASSUME NEW meta, NEW key, \A q \in DOMAIN meta : q[1] # key
    PROVE  /\ DOMAIN Without(meta, key) = DOMAIN meta
           /\ \A p \in DOMAIN meta : Without(meta, key)[p] = meta[p]
BY DEF Without

\* A path begins with its line's key, or with params under params.
LEMMA PathIs ==
    ASSUME NEW l \in Written
    PROVE  /\ l.in => At(l)[1] = "params" /\ At(l)[2] = l.key /\ Len(At(l)) = 2
           /\ ~l.in => At(l)[1] = l.key /\ Len(At(l)) = 1
BY DEF At, Written

LEMMA LineIs ==
    ASSUME NEW h \in Seq(Written), NEW i \in 1..Len(h)
    PROVE  /\ h[i] \in Written /\ i \in DOMAIN h /\ i \in Nat
           /\ h[i].in \in BOOLEAN /\ h[i].key \in Words /\ h[i].value \in Words
           /\ h[i] = [in |-> h[i].in, key |-> h[i].key, value |-> h[i].value]
<1>1. h[i] \in Written /\ i \in DOMAIN h /\ i \in Nat
  OBVIOUS
<1> QED BY <1>1 DEF Written

LEMMA TidyIs ==
    ASSUME NEW h \in Seq(Written), Tidy(h)
    PROVE  /\ \A i, j \in 1..Len(h) :
                h[i].key # Skip /\ h[i].in = h[j].in /\ h[i].key = h[j].key => i = j
           /\ \A i \in 1..Len(h) : h[i].key = "params" => h[i] = Opener
           /\ \A i \in 1..Len(h) : h[i].in => i > 1 /\ (h[i - 1].in \/ h[i - 1] = Opener)
<1>1. DOMAIN h = 1..Len(h)
  OBVIOUS
<1> QED BY <1>1 DEF Tidy, Opener

\* No two lines of a tidy header are read to one path.
LEMMA PathsApart ==
    ASSUME NEW h \in Seq(Written), Tidy(h), NEW i \in 1..Len(h), NEW j \in 1..Len(h),
           h[i].key # Skip, At(h[i]) = At(h[j])
    PROVE  i = j
<1>1. h[i] \in Written /\ h[j] \in Written
  BY LineIs
<1>2. h[i].in = h[j].in
  <2>1. h[i].in \in BOOLEAN /\ h[j].in \in BOOLEAN
    BY LineIs
  <2>2. CASE h[i].in
    <3>1. Len(At(h[j])) = 2
      BY <1>1, <2>2, PathIs
    <3>2. ~h[j].in => Len(At(h[j])) = 1
      BY <1>1, PathIs
    <3>3. h[j].in
      BY <3>1, <3>2
    <3> QED BY <2>1, <2>2, <3>3, Zenon
  <2>3. CASE ~h[i].in
    <3>1. Len(At(h[j])) = 1
      BY <1>1, <2>3, PathIs
    <3>2. h[j].in => Len(At(h[j])) = 2
      BY <1>1, PathIs
    <3>3. ~h[j].in
      BY <3>1, <3>2
    <3> QED BY <2>1, <2>3, <3>3, Zenon
  <2> QED BY <2>1, <2>2, <2>3
<1>3. h[i].key = h[j].key
  BY <1>1, <1>2, PathIs
<1> QED BY <1>2, <1>3, TidyIs

\* An indented line of a tidy header has params: before it, and indented lines
\* alone between.
LEMMA UnderParams ==
    ASSUME NEW h \in Seq(Written), Tidy(h), NEW i \in 1..Len(h), h[i].in
    PROVE  \E k \in 1..i - 1 : h[k] = Opener /\ \A m \in k + 1..i : h[m].in
<1> DEFINE Fine(n) == \E k \in 1..n - 1 : h[k] = Opener /\ \A m \in k + 1..n : h[m].in
           Bad == {n \in 1..Len(h) : h[n].in /\ ~Fine(n)}
<1> SUFFICES ASSUME Bad # {} PROVE FALSE
  OBVIOUS
<1>1. PICK n \in Bad : \A y \in Bad : n <= y
  <2>1. Bad \in SUBSET Nat
    OBVIOUS
  <2> HIDE DEF Bad
  <2> QED BY <2>1, LeastNat, Zenon
<1>2. n \in 1..Len(h) /\ n \in Nat /\ h[n].in /\ ~Fine(n)
  BY <1>1
<1>3. n > 1 /\ (h[n - 1].in \/ h[n - 1] = Opener)
  BY <1>2, TidyIs
<1>4. n - 1 \in 1..Len(h)
  BY <1>2, <1>3
<1>5. CASE h[n - 1] = Opener
  <2>1. n - 1 \in 1..n - 1 /\ \A m \in (n - 1) + 1..n : h[m].in
    BY <1>2, <1>3
  <2> QED BY <1>2, <1>5, <2>1
<1>6. CASE h[n - 1].in
  <2>1. n - 1 \notin Bad
    <3>1. ~(n <= n - 1)
      BY <1>2
    <3> HIDE DEF Bad
    <3> QED BY <1>1, <3>1
  <2>2. PICK k \in 1..(n - 1) - 1 : h[k] = Opener /\ \A m \in k + 1..n - 1 : h[m].in
    BY <1>4, <1>6, <2>1
  <2>3. k \in 1..n - 1 /\ \A m \in k + 1..n : h[m].in
    BY <1>2, <2>2
  <2> QED BY <1>2, <2>2, <2>3
<1> QED BY <1>3, <1>5, <1>6

\* A line adds its path, or none, to what the loader holds.
LEMMA ReadSays ==
    ASSUME NEW h \in Seq(Written), Tidy(h), NEW i \in 1..Len(h), NEW so, Reads(h, i - 1, so),
           NEW meta, NEW block, NEW ok, Says(h[i]),
           \A p : p \in DOMAIN meta <=> p \in DOMAIN so.meta \/ p = At(h[i]),
           \A p \in DOMAIN so.meta : p # At(h[i]) => meta[p] = so.meta[p],
           meta[At(h[i])] = Scalar(h[i].value),
           h[i] # Opener, h[i].in => block = so.block
    PROVE  Reads(h, i, [meta |-> meta, block |-> block, ok |-> ok])
<1> DEFINE to == [meta |-> meta, block |-> block, ok |-> ok]
<1>0. i \in Nat /\ Len(h) \in Nat
  OBVIOUS
<1>1. \A j \in 1..i : j = i \/ j \in 1..i - 1
  BY <1>0
<1>2. \A j \in 1..i - 1 : j \in 1..i /\ j \in 1..Len(h) /\ j # i
  BY <1>0
<1>3. /\ \A p : p \in DOMAIN so.meta <=> \E j \in 1..i - 1 : Says(h[j]) /\ p = At(h[j])
      /\ \A j \in 1..i - 1 : Says(h[j]) => so.meta[At(h[j])] = Scalar(h[j].value)
      /\ \A j \in 1..i - 1 : h[j] = Opener /\ (\A m \in j + 1..i - 1 : h[m].in) => so.block = "params"
  BY DEF Reads
<1>4. \A p : p \in DOMAIN meta <=> \E j \in 1..i : Says(h[j]) /\ p = At(h[j])
  BY <1>0, <1>1, <1>2, <1>3
<1>5. ASSUME NEW j \in 1..i, Says(h[j])
      PROVE  meta[At(h[j])] = Scalar(h[j].value)
  <2>1. CASE j = i
    BY <2>1
  <2>2. CASE j # i
    <3>1. j \in 1..i - 1 /\ j \in 1..Len(h)
      BY <1>1, <1>2, <2>2
    <3>2. At(h[j]) # At(h[i])
      <4>1. h[j].key # Skip
        BY <1>5 DEF Says
      <4> QED BY <2>2, <3>1, <4>1, PathsApart
    <3>3. At(h[j]) \in DOMAIN so.meta /\ so.meta[At(h[j])] = Scalar(h[j].value)
      BY <1>3, <1>5, <3>1
    <3> QED BY <3>2, <3>3
  <2> QED BY <2>1, <2>2
<1>6. ASSUME NEW j \in 1..i, h[j] = Opener, \A m \in j + 1..i : h[m].in
      PROVE  block = "params"
  <2>1. j \in 1..i - 1
    BY <1>1, <1>6
  <2>2. i \in j + 1..i /\ \A m \in j + 1..i - 1 : m \in j + 1..i
    BY <1>0, <2>1
  <2> QED BY <1>3, <1>6, <2>1, <2>2
<1>7. to = [meta |-> to.meta, block |-> to.block, ok |-> to.ok] /\ to.meta = meta /\ to.block = block
  OBVIOUS
<1> HIDE DEF to
<1>8. Reads(h, i, to)
  BY <1>4, <1>5, <1>6, <1>7 DEF Reads
<1> QED BY <1>8 DEF to

\* A line that says nothing leaves the values; params: opens its block.
LEMMA ReadSilent ==
    ASSUME NEW h \in Seq(Written), NEW i \in 1..Len(h), NEW so, Reads(h, i - 1, so),
           NEW meta, NEW block, NEW ok, ~Says(h[i]),
           DOMAIN meta = DOMAIN so.meta, \A p \in DOMAIN so.meta : meta[p] = so.meta[p],
           h[i] = Opener => block = "params", h[i].in => block = so.block
    PROVE  Reads(h, i, [meta |-> meta, block |-> block, ok |-> ok])
<1> DEFINE to == [meta |-> meta, block |-> block, ok |-> ok]
<1>0. i \in Nat /\ Len(h) \in Nat
  OBVIOUS
<1>1. \A j \in 1..i : j = i \/ j \in 1..i - 1
  BY <1>0
<1>2. \A j \in 1..i - 1 : j \in 1..i
  BY <1>0
<1>3. /\ \A p : p \in DOMAIN so.meta <=> \E j \in 1..i - 1 : Says(h[j]) /\ p = At(h[j])
      /\ \A j \in 1..i - 1 : Says(h[j]) => so.meta[At(h[j])] = Scalar(h[j].value)
      /\ \A j \in 1..i - 1 : h[j] = Opener /\ (\A m \in j + 1..i - 1 : h[m].in) => so.block = "params"
  BY DEF Reads
<1>4. \A p : p \in DOMAIN meta <=> \E j \in 1..i : Says(h[j]) /\ p = At(h[j])
  BY <1>1, <1>2, <1>3
<1>5. \A j \in 1..i : Says(h[j]) => meta[At(h[j])] = Scalar(h[j].value)
  BY <1>1, <1>3
<1>6. ASSUME NEW j \in 1..i, h[j] = Opener, \A m \in j + 1..i : h[m].in
      PROVE  block = "params"
  <2>1. CASE j = i
    BY <1>6, <2>1
  <2>2. CASE j # i
    <3>1. j \in 1..i - 1
      BY <1>1, <2>2
    <3>2. i \in j + 1..i /\ \A m \in j + 1..i - 1 : m \in j + 1..i
      BY <1>0, <3>1
    <3> QED BY <1>3, <1>6, <3>1, <3>2
  <2> QED BY <2>1, <2>2
<1>7. to = [meta |-> to.meta, block |-> to.block, ok |-> to.ok] /\ to.meta = meta /\ to.block = block
  OBVIOUS
<1> HIDE DEF to
<1>8. Reads(h, i, to)
  BY <1>4, <1>5, <1>6, <1>7 DEF Reads
<1> QED BY <1>8 DEF to

\* Nothing read so far is at the key of a line at column 0, or below it.
LEMMA KeyIsNew ==
    ASSUME NEW h \in Seq(Written), Tidy(h), NEW i \in 1..Len(h), NEW so, Reads(h, i - 1, so),
           ~h[i].in, h[i].key # Skip
    PROVE  \A q \in DOMAIN so.meta : q[1] # h[i].key
<1> SUFFICES ASSUME NEW q \in DOMAIN so.meta, q[1] = h[i].key PROVE FALSE
  OBVIOUS
<1>1. PICK j \in 1..i - 1 : Says(h[j]) /\ q = At(h[j])
  BY DEF Reads
<1>2. j \in 1..Len(h) /\ j < i
  BY <1>1
<1>3. h[i] \in Written /\ h[j] \in Written /\ h[i].in \in BOOLEAN /\ h[j].in \in BOOLEAN
  BY <1>2, LineIs
<1>4. CASE h[j].in
  <2>1. h[i].key = "params"
    BY <1>1, <1>3, <1>4, PathIs
  <2>2. PICK k \in 1..j - 1 : h[k] = Opener
    BY <1>2, <1>4, UnderParams
  <2>3. h[i] = Opener /\ k \in 1..Len(h) /\ k # i
    BY <2>1, <1>2, TidyIs
  <2> QED BY <2>2, <2>3, TidyIs DEF Opener, Line, Skip
<1>5. CASE ~h[j].in
  <2>1. h[j].key = h[i].key
    BY <1>1, <1>3, <1>5, PathIs
  <2>2. h[j].in = h[i].in
    BY <1>3, <1>5, Zenon
  <2>3. i = j
    BY <1>2, <2>1, <2>2, TidyIs
  <2> QED BY <1>2, <2>3
<1> QED BY <1>4, <1>5

\* One line more.
LEMMA ReadTurn ==
    ASSUME NEW h \in Seq(Written), Tidy(h), NEW i \in 1..Len(h), NEW so, Reads(h, i - 1, so)
    PROVE  Reads(h, i, ReadLine(so, h[i]))
<1> DEFINE l == h[i]
<1>1. /\ l \in Written /\ l.in \in BOOLEAN /\ l.key \in Words /\ l.value \in Words
      /\ l = [in |-> l.in, key |-> l.key, value |-> l.value]
  BY LineIs
<1>2. so = [meta |-> so.meta, block |-> so.block, ok |-> so.ok]
  BY DEF Reads
<1>3. l.key = "params" => l = Opener
  BY TidyIs
<1>4. Opener.key = "params" /\ Opener.value = "" /\ ~Opener.in
  BY DEF Opener, Line
<1>5. CASE l.key = Skip
  <2>1. ReadLine(so, l) = [meta |-> so.meta, block |-> so.block, ok |-> so.ok]
    <3>1. ReadLine(so, l) = so
      BY <1>5 DEF ReadLine
    <3> QED BY <1>2, <3>1
  <2>2. ~Says(l) /\ l # Opener
    BY <1>4, <1>5 DEF Says, Skip
  <2> QED BY <2>1, <2>2, ReadSilent
<1>6. CASE l.key # Skip /\ l.in
  <2>1. so.block = "params"
    <3>1. PICK k \in 1..i - 1 : h[k] = Opener /\ \A m \in k + 1..i : h[m].in
      BY <1>6, UnderParams
    <3>2. \A m \in k + 1..i - 1 : m \in k + 1..i
      BY <3>1
    <3> QED BY <3>1, <3>2 DEF Reads
  <2> DEFINE meta == Put(so.meta, <<"params", l.key>>, Scalar(l.value))
  <2>2. ReadLine(so, l) = [meta |-> meta, block |-> so.block, ok |-> so.ok]
    <3>1. ReadLine(so, l) = [so EXCEPT !.meta = Put(@, <<so.block, l.key>>, Scalar(l.value))]
      BY <1>6, <2>1 DEF ReadLine
    <3> QED BY <1>2, <2>1, <3>1
  <2>3. Says(l) /\ l # Opener /\ At(l) = <<"params", l.key>>
    BY <1>4, <1>6 DEF Says, At
  <2>4. /\ \A p : p \in DOMAIN meta <=> p \in DOMAIN so.meta \/ p = At(l)
        /\ \A p \in DOMAIN so.meta : p # At(l) => meta[p] = so.meta[p]
        /\ meta[At(l)] = Scalar(l.value)
    <3> DEFINE path == <<"params", l.key>>
    <3>1. meta = Put(so.meta, path, Scalar(l.value)) /\ path = At(l)
      BY <2>3
    <3> HIDE DEF meta, path
    <3>2. Puts(meta, so.meta, path, Scalar(l.value))
      BY <3>1, PutIs
    <3> QED BY <3>1, <3>2 DEF Puts
  <2> HIDE DEF meta
  <2> QED BY <2>2, <2>3, <2>4, ReadSays
<1>7. CASE l.key # Skip /\ ~l.in
  <2>1. \A q \in DOMAIN so.meta : q[1] # l.key
    BY <1>7, KeyIsNew
  <2> DEFINE left == Without(so.meta, l.key)
  <2>2. DOMAIN left = DOMAIN so.meta /\ \A p \in DOMAIN so.meta : left[p] = so.meta[p]
    BY <2>1, WithoutIs
  <2>3. CASE l.value = ""
    <3>1. ReadLine(so, l) = [meta |-> left, block |-> l.key, ok |-> so.ok]
      <4>1. ReadLine(so, l) = [so EXCEPT !.block = l.key, !.meta = Without(@, l.key)]
        BY <1>7, <2>3 DEF ReadLine
      <4> QED BY <1>2, <4>1
    <3>2. ~Says(l) /\ (l = Opener => l.key = "params")
      BY <1>4, <1>7, <2>3 DEF Says
    <3> HIDE DEF left
    <3> QED BY <1>7, <2>2, <3>1, <3>2, ReadSilent
  <2>4. CASE l.value # ""
    <3> HIDE DEF left
    <3> DEFINE meta == Put(left, <<l.key>>, Scalar(l.value))
    <3>1. ReadLine(so, l) = [meta |-> meta, block |-> "", ok |-> so.ok]
      <4>1. ReadLine(so, l) = [so EXCEPT !.block = "", !.meta = Put(Without(@, l.key), <<l.key>>, Scalar(l.value))]
        BY <1>7, <2>4 DEF ReadLine
      <4> QED BY <1>2, <4>1 DEF left
    <3>2. Says(l) /\ l # Opener /\ At(l) = <<l.key>>
      BY <1>4, <1>7, <2>4 DEF Says, At
    <3>3. /\ \A p : p \in DOMAIN meta <=> p \in DOMAIN so.meta \/ p = At(l)
          /\ \A p \in DOMAIN so.meta : p # At(l) => meta[p] = so.meta[p]
          /\ meta[At(l)] = Scalar(l.value)
      <4> DEFINE path == <<l.key>>
      <4>1. meta = Put(left, path, Scalar(l.value)) /\ path = At(l)
        BY <3>2
      <4> HIDE DEF meta, path
      <4>2. Puts(meta, left, path, Scalar(l.value))
        BY <4>1, PutIs
      <4> QED BY <2>2, <4>1, <4>2 DEF Puts
    <3> HIDE DEF meta
    <3> QED BY <1>7, <3>1, <3>2, <3>3, ReadSays
  <2> QED BY <2>3, <2>4
<1> QED BY <1>5, <1>6, <1>7

\* The loader reads each line's value at its path, and nothing where no line is.
ReadsEach(h) ==
    /\ \A i \in 1..Len(h) : h[i].key # Skip => ReadAt(h, At(h[i])) = Scalar(h[i].value)
    /\ \A p : (\A i \in 1..Len(h) : h[i].key # Skip => At(h[i]) # p) => ReadAt(h, p) = ""

LEMMA TidyReads ==
    ASSUME NEW h \in Seq(Written), Tidy(h)
    PROVE  ReadsEach(h)
<1>0. Len(h) \in Nat
  OBVIOUS
<1>1. PICK r : /\ r[0] = Start /\ r[Len(h)] = Parsed(h)
               /\ \A i \in 1..Len(h) : r[i] = ReadLine(r[i - 1], h[i])
  BY ReadWalk
<1>2. Reads(h, Len(h), Parsed(h))
  <2> DEFINE Good == {n \in 0..Len(h) : Reads(h, n, r[n])}
  <2>1. 0 \in Good
    <3>1. \A j \in 1..0 : FALSE
      OBVIOUS
    <3>2. Start = [meta |-> Start.meta, block |-> Start.block, ok |-> Start.ok]
      BY DEF Start
    <3>3. \A p : p \notin DOMAIN Start.meta
      BY DEF Start
    <3>4. Reads(h, 0, Start)
      BY <3>1, <3>2, <3>3 DEF Reads
    <3> QED BY <1>0, <1>1, <3>4
  <2>2. ASSUME NEW n \in 0..Len(h) - 1, n \in Good PROVE n + 1 \in Good
    <3>1. n + 1 \in 1..Len(h) /\ (n + 1) - 1 = n
      BY <1>0
    <3>2. Reads(h, (n + 1) - 1, r[n])
      BY <2>2, <3>1
    <3>3. Reads(h, n + 1, ReadLine(r[n], h[n + 1]))
      BY <3>1, <3>2, ReadTurn
    <3> QED BY <1>1, <3>1, <3>3
  <2> HIDE DEF Good
  <2>3. 0..Len(h) \subseteq Good
    BY <1>0, <2>1, <2>2, Upwards
  <2>4. Len(h) \in Good
    BY <1>0, <2>3
  <2> QED BY <1>1, <2>4 DEF Good
<1> DEFINE meta == Parsed(h).meta
<1>3. /\ \A p : p \in DOMAIN meta <=> \E j \in 1..Len(h) : Says(h[j]) /\ p = At(h[j])
      /\ \A j \in 1..Len(h) : Says(h[j]) => meta[At(h[j])] = Scalar(h[j].value)
  BY <1>2 DEF Reads
<1>4. \A p : ReadAt(h, p) = IF p \in DOMAIN meta THEN meta[p] ELSE ""
  BY DEF ReadAt
<1> HIDE DEF meta
<1>5. ASSUME NEW i \in 1..Len(h), h[i].key # Skip
      PROVE  ReadAt(h, At(h[i])) = Scalar(h[i].value)
  <2>1. CASE Says(h[i])
    BY <1>3, <1>4, <2>1
  <2>2. CASE ~Says(h[i])
    <3>1. At(h[i]) \notin DOMAIN meta
      <4> SUFFICES ASSUME NEW j \in 1..Len(h), Says(h[j]), At(h[i]) = At(h[j]) PROVE FALSE
        BY <1>3
      <4>1. i = j
        BY <1>5, PathsApart
      <4> QED BY <2>2, <4>1
    <3>2. Scalar(h[i].value) = ""
      BY <1>5, <2>2 DEF Says, Scalar
    <3> QED BY <1>4, <3>1, <3>2
  <2> QED BY <2>1, <2>2
<1>6. ASSUME NEW p, \A i \in 1..Len(h) : h[i].key # Skip => At(h[i]) # p
      PROVE  ReadAt(h, p) = ""
  <2>1. p \notin DOMAIN meta
    BY <1>3, <1>6 DEF Says
  <2> QED BY <1>4, <2>1
<1> QED BY <1>5, <1>6 DEF ReadsEach

-----------------------------------------------------------------------------
(* A line put in, and a line written over. *)

\* t is h with the line l put in at k.
Inserts(t, h, k, l) ==
    /\ t \in Seq(Written) /\ Len(t) = Len(h) + 1 /\ t[k] = l
    /\ \A i \in 1..k - 1 : t[i] = h[i]
    /\ \A i \in k..Len(h) : t[i + 1] = h[i]

\* t is h with the line at k written over by l.
Writes(t, h, k, l) ==
    /\ t \in Seq(Written) /\ Len(t) = Len(h) /\ t[k] = l
    /\ \A i \in 1..Len(h) : i # k => t[i] = h[i]

\* The loader reads t as h, but for one path, where it reads the text.
Swaps(t, h, path, text) ==
    /\ ReadAt(t, path) = Scalar(text)
    /\ \A p : p # path => ReadAt(t, p) = ReadAt(h, p)

\* A place for a line no tidy header holds yet.
Fits(h, k, l) ==
    /\ \A i \in 1..Len(h) : h[i].in = l.in => h[i].key # l.key
    /\ l.key # Skip /\ (l.key = "params" => l = Opener)
    /\ l.in => k > 1 /\ (h[k - 1].in \/ h[k - 1] = Opener)
    /\ k <= Len(h) => ~h[k].in

LEMMA InsertIs ==
    ASSUME NEW h \in Seq(Written), NEW k \in 1..Len(h) + 1, NEW l \in Written
    PROVE  Inserts(InsertAt(h, k, l), h, k, l)
<1>1. Len(h) \in Nat /\ k \in Nat /\ \A i \in 1..Len(h) : h[i] \in Written
  OBVIOUS
<1> DEFINE a == SubSeq(h, 1, k - 1)
           b == SubSeq(h, k, Len(h))
<1>2. a \in Seq(Written) /\ Len(a) = k - 1 /\ \A i \in 1..k - 1 : a[i] = h[i]
  BY <1>1
<1>3. b \in Seq(Written) /\ Len(b) = Len(h) - k + 1 /\ \A i \in 1..Len(h) - k + 1 : b[i] = h[k + i - 1]
  BY <1>1
<1>4. InsertAt(h, k, l) = a \o <<l>> \o b
  BY DEF InsertAt
<1> DEFINE c == a \o <<l>>
<1>5. c \in Seq(Written) /\ Len(c) = k /\ c[k] = l /\ \A i \in 1..k - 1 : c[i] = a[i]
  <2> HIDE DEF a, b
  <2> QED BY <1>1, <1>2
<1> DEFINE t == InsertAt(h, k, l)
<1>6. t = c \o b
  BY <1>4
<1> HIDE DEF a, b, c, t
<1>7. /\ t \in Seq(Written) /\ Len(t) = Len(c) + Len(b)
      /\ \A i \in 1..Len(c) : t[i] = c[i]
      /\ \A i \in Len(c) + 1..Len(c) + Len(b) : t[i] = b[i - Len(c)]
  BY <1>3, <1>5, <1>6
<1>8. \A i \in k..Len(h) : t[i + 1] = h[i]
  <2> SUFFICES ASSUME NEW i \in k..Len(h) PROVE t[i + 1] = h[i]
    OBVIOUS
  <2>1. i + 1 \in Len(c) + 1..Len(c) + Len(b) /\ (i + 1) - Len(c) = i + 1 - k /\ i + 1 - k \in 1..Len(h) - k + 1
    BY <1>1, <1>3, <1>5
  <2>2. k + (i + 1 - k) - 1 = i
    BY <1>1
  <2> QED BY <1>3, <1>7, <2>1, <2>2
<1>9. t[k] = l /\ \A i \in 1..k - 1 : t[i] = h[i]
  <2>1. k \in 1..Len(c) /\ \A i \in 1..k - 1 : i \in 1..Len(c)
    BY <1>1, <1>5
  <2> QED BY <1>2, <1>5, <1>7, <2>1
<1>10. Len(t) = Len(h) + 1
  BY <1>1, <1>3, <1>5, <1>7
<1>11. Inserts(t, h, k, l)
  BY <1>7, <1>8, <1>9, <1>10 DEF Inserts
<1> QED BY <1>11 DEF t

LEMMA ReplaceIs ==
    ASSUME NEW h \in Seq(Written), NEW k \in 1..Len(h), NEW l \in Written
    PROVE  Writes(ReplaceAt(h, k, l), h, k, l)
BY DEF Writes, ReplaceAt

LEMMA InsertReads ==
    ASSUME NEW h \in Seq(Written), NEW t, NEW k \in 1..Len(h) + 1, NEW l \in Written, l.key # Skip,
           Inserts(t, h, k, l), Tidy(h), Tidy(t)
    PROVE  Swaps(t, h, At(l), l.value)
<1>1. Len(h) \in Nat /\ k \in Nat
  OBVIOUS
<1>2. /\ t \in Seq(Written) /\ Len(t) = Len(h) + 1 /\ t[k] = l
      /\ \A i \in 1..k - 1 : t[i] = h[i]
      /\ \A i \in k..Len(h) : t[i + 1] = h[i]
  BY DEF Inserts
<1>3. ReadsEach(h) /\ ReadsEach(t)
  BY <1>2, TidyReads
<1>4. ReadAt(t, At(l)) = Scalar(l.value)
  <2>1. k \in 1..Len(t)
    BY <1>1, <1>2
  <2> QED BY <1>2, <1>3, <2>1 DEF ReadsEach
<1>5. \A i \in 1..Len(h) : \E j \in 1..Len(t) : t[j] = h[i]
  <2> SUFFICES ASSUME NEW i \in 1..Len(h) PROVE \E j \in 1..Len(t) : t[j] = h[i]
    OBVIOUS
  <2>1. CASE i \in 1..k - 1
    <3>1. i \in 1..Len(t)
      BY <1>1, <1>2
    <3> QED BY <1>2, <2>1, <3>1
  <2>2. CASE i \in k..Len(h)
    <3>1. i + 1 \in 1..Len(t)
      BY <1>1, <1>2
    <3> QED BY <1>2, <2>2, <3>1
  <2> QED BY <1>1, <2>1, <2>2
<1>6. \A j \in 1..Len(t) : j # k => \E i \in 1..Len(h) : t[j] = h[i]
  <2> SUFFICES ASSUME NEW j \in 1..Len(t), j # k PROVE \E i \in 1..Len(h) : t[j] = h[i]
    OBVIOUS
  <2>1. CASE j < k
    <3>1. j \in 1..k - 1 /\ j \in 1..Len(h)
      BY <1>1, <1>2, <2>1
    <3> QED BY <1>2, <3>1
  <2>2. CASE j > k
    <3>1. j - 1 \in k..Len(h) /\ j - 1 \in 1..Len(h) /\ (j - 1) + 1 = j
      BY <1>1, <1>2, <2>2
    <3> QED BY <1>2, <3>1
  <2> QED BY <1>1, <1>2, <2>1, <2>2
<1>7. ASSUME NEW p, p # At(l)
      PROVE  ReadAt(t, p) = ReadAt(h, p)
  <2>1. CASE \E i \in 1..Len(h) : h[i].key # Skip /\ At(h[i]) = p
    <3>1. PICK i \in 1..Len(h) : h[i].key # Skip /\ At(h[i]) = p
      BY <2>1
    <3>2. PICK j \in 1..Len(t) : t[j] = h[i]
      BY <1>5
    <3>3. ReadAt(h, p) = Scalar(h[i].value)
      BY <1>3, <3>1 DEF ReadsEach
    <3>4. ReadAt(t, p) = Scalar(h[i].value)
      BY <1>3, <3>1, <3>2 DEF ReadsEach
    <3> QED BY <3>3, <3>4
  <2>2. CASE \A i \in 1..Len(h) : h[i].key # Skip => At(h[i]) # p
    <3>1. \A j \in 1..Len(t) : t[j].key # Skip => At(t[j]) # p
      BY <1>2, <1>6, <1>7, <2>2
    <3>2. ReadAt(h, p) = ""
      BY <1>3, <2>2 DEF ReadsEach
    <3>3. ReadAt(t, p) = ""
      BY <1>3, <3>1 DEF ReadsEach
    <3> QED BY <3>2, <3>3
  <2> QED BY <2>1, <2>2
<1> QED BY <1>4, <1>7 DEF Swaps

LEMMA WriteReads ==
    ASSUME NEW h \in Seq(Written), NEW t, NEW k \in 1..Len(h), NEW l \in Written, l.key # Skip,
           h[k].key = l.key, At(h[k]) = At(l),
           Writes(t, h, k, l), Tidy(h), Tidy(t)
    PROVE  Swaps(t, h, At(l), l.value)
<1>2. /\ t \in Seq(Written) /\ Len(t) = Len(h) /\ t[k] = l
      /\ \A i \in 1..Len(h) : i # k => t[i] = h[i]
  BY DEF Writes
<1>3. ReadsEach(h) /\ ReadsEach(t)
  BY <1>2, TidyReads
<1>4. ReadAt(t, At(l)) = Scalar(l.value)
  BY <1>2, <1>3 DEF ReadsEach
<1>7. ASSUME NEW p, p # At(l)
      PROVE  ReadAt(t, p) = ReadAt(h, p)
  <2>1. CASE \E i \in 1..Len(h) : h[i].key # Skip /\ At(h[i]) = p
    <3>1. PICK i \in 1..Len(h) : h[i].key # Skip /\ At(h[i]) = p
      BY <2>1
    <3>2. t[i] = h[i] /\ i \in 1..Len(t)
      BY <1>2, <1>7, <3>1
    <3>3. ReadAt(h, p) = Scalar(h[i].value)
      BY <1>3, <3>1 DEF ReadsEach
    <3>4. ReadAt(t, p) = Scalar(h[i].value)
      BY <1>3, <3>1, <3>2 DEF ReadsEach
    <3> QED BY <3>3, <3>4
  <2>2. CASE \A i \in 1..Len(h) : h[i].key # Skip => At(h[i]) # p
    <3>1. \A j \in 1..Len(t) : t[j].key # Skip => At(t[j]) # p
      BY <1>2, <1>7, <2>2
    <3>2. ReadAt(h, p) = ""
      BY <1>3, <2>2 DEF ReadsEach
    <3>3. ReadAt(t, p) = ""
      BY <1>3, <3>1 DEF ReadsEach
    <3> QED BY <3>2, <3>3
  <2> QED BY <2>1, <2>2
<1> QED BY <1>4, <1>7 DEF Swaps

LEMMA InsertTidy ==
    ASSUME NEW h \in Seq(Written), NEW t, NEW k \in 1..Len(h) + 1, NEW l \in Written,
           Inserts(t, h, k, l), Tidy(h), Fits(h, k, l)
    PROVE  Tidy(t)
<1>1. Len(h) \in Nat /\ k \in Nat /\ DOMAIN h = 1..Len(h)
  OBVIOUS
<1>2. /\ t \in Seq(Written) /\ Len(t) = Len(h) + 1 /\ t[k] = l
      /\ \A i \in 1..k - 1 : t[i] = h[i]
      /\ \A i \in k..Len(h) : t[i + 1] = h[i]
  BY DEF Inserts
<1>3. DOMAIN t = 1..Len(h) + 1
  BY <1>1, <1>2
\* Where the lines of t stood.
<1> DEFINE was(j) == IF j < k THEN j ELSE j - 1
<1>4. \A j \in DOMAIN t : j # k => was(j) \in 1..Len(h) /\ t[j] = h[was(j)]
  <2> SUFFICES ASSUME NEW j \in DOMAIN t, j # k PROVE was(j) \in 1..Len(h) /\ t[j] = h[was(j)]
    OBVIOUS
  <2>1. CASE j < k
    <3>1. j \in 1..k - 1 /\ j \in 1..Len(h)
      BY <1>1, <1>3, <2>1
    <3> QED BY <1>2, <2>1, <3>1
  <2>2. CASE j > k
    <3>1. j - 1 \in k..Len(h) /\ j - 1 \in 1..Len(h) /\ (j - 1) + 1 = j /\ ~(j < k)
      BY <1>1, <1>3, <2>2
    <3> QED BY <1>2, <3>1
  <2> QED BY <1>1, <1>3, <2>1, <2>2
<1>5. /\ \A i, j \in 1..Len(h) : h[i].key # Skip /\ h[i].in = h[j].in /\ h[i].key = h[j].key => i = j
      /\ \A i \in 1..Len(h) : h[i].key = "params" => h[i] = Opener
      /\ \A i \in 1..Len(h) : h[i].in => i > 1 /\ (h[i - 1].in \/ h[i - 1] = Opener)
  BY TidyIs
<1>6. /\ \A i \in 1..Len(h) : h[i].in = l.in => h[i].key # l.key
      /\ l.key # Skip /\ (l.key = "params" => l = Opener)
      /\ l.in => k > 1 /\ (h[k - 1].in \/ h[k - 1] = Opener)
      /\ k <= Len(h) => ~h[k].in
  BY DEF Fits
<1>7. ASSUME NEW i \in DOMAIN t, NEW j \in DOMAIN t, i # j, t[i].key # Skip
      PROVE  <<t[i].in, t[i].key>> # <<t[j].in, t[j].key>>
  <2> SUFFICES ASSUME t[i].in = t[j].in, t[i].key = t[j].key PROVE FALSE
    OBVIOUS
  <2>1. CASE i = k
    <3>1. j # k
      BY <1>7, <2>1
    <3>2. was(j) \in 1..Len(h) /\ t[j] = h[was(j)]
      BY <1>4, <3>1
    <3>3. h[was(j)].in = l.in /\ h[was(j)].key = l.key
      BY <1>2, <2>1, <3>2
    <3> HIDE DEF was
    <3> QED BY <1>6, <3>2, <3>3
  <2>2. CASE j = k
    <3>1. i # k
      BY <1>7, <2>2
    <3>2. was(i) \in 1..Len(h) /\ t[i] = h[was(i)]
      BY <1>4, <3>1
    <3>3. h[was(i)].in = l.in /\ h[was(i)].key = l.key
      BY <1>2, <2>2, <3>2
    <3> HIDE DEF was
    <3> QED BY <1>6, <3>2, <3>3
  <2>3. CASE i # k /\ j # k
    <3>1. was(i) # was(j)
      BY <1>1, <1>3, <1>7, <2>3
    <3> HIDE DEF was
    <3> QED BY <1>4, <1>5, <1>7, <2>3, <3>1
  <2> QED BY <2>1, <2>2, <2>3
<1>8. ASSUME NEW i \in DOMAIN t, t[i].key = "params"
      PROVE  t[i] = Opener
  <2>1. CASE i = k
    BY <1>2, <1>6, <1>8, <2>1
  <2>2. CASE i # k
    <3> HIDE DEF was
    <3> QED BY <1>4, <1>5, <1>8, <2>2
  <2> QED BY <2>1, <2>2
<1>9. ASSUME NEW i \in DOMAIN t, t[i].in
      PROVE  i > 1 /\ (t[i - 1].in \/ t[i - 1] = Opener)
  <2>1. CASE i = k
    <3>1. k > 1 /\ (h[k - 1].in \/ h[k - 1] = Opener)
      BY <1>2, <1>6, <1>9, <2>1
    <3>2. k - 1 \in 1..k - 1
      BY <1>1, <3>1
    <3>3. t[k - 1] = h[k - 1]
      BY <1>2, <3>2
    <3> QED BY <2>1, <3>1, <3>3
  <2>2. CASE i < k
    <3>1. i \in 1..Len(h) /\ t[i] = h[i]
      BY <1>4, <2>2
    <3>2. i > 1 /\ (h[i - 1].in \/ h[i - 1] = Opener)
      BY <1>5, <1>9, <3>1
    <3>3. i - 1 \in 1..k - 1
      BY <1>1, <1>3, <2>2, <3>2
    <3>4. t[i - 1] = h[i - 1]
      BY <1>2, <3>3
    <3> QED BY <3>2, <3>4
  <2>3. CASE i > k
    <3>1. i - 1 \in 1..Len(h) /\ t[i] = h[i - 1]
      BY <1>1, <1>3, <1>4, <2>3
    <3>2. i - 1 # k
      BY <1>1, <1>6, <1>9, <3>1
    <3>3. i - 1 > 1 /\ (h[(i - 1) - 1].in \/ h[(i - 1) - 1] = Opener)
      BY <1>5, <1>9, <3>1
    <3>4. (i - 1) - 1 \in k..Len(h) /\ ((i - 1) - 1) + 1 = i - 1
      BY <1>1, <1>3, <2>3, <3>1, <3>2
    <3>5. t[i - 1] = h[(i - 1) - 1]
      BY <1>2, <3>4
    <3> QED BY <1>3, <3>3, <3>5
  <2> QED BY <1>1, <1>3, <2>1, <2>2, <2>3
<1> HIDE DEF was
<1> QED BY <1>7, <1>8, <1>9 DEF Tidy, Opener

LEMMA WriteTidy ==
    ASSUME NEW h \in Seq(Written), NEW t, NEW k \in 1..Len(h), NEW l \in Written,
           Writes(t, h, k, l), Tidy(h), h[k].in = l.in, h[k].key = l.key, l.key # "params"
    PROVE  Tidy(t)
<1>1. /\ t \in Seq(Written) /\ Len(t) = Len(h) /\ t[k] = l
      /\ \A i \in 1..Len(h) : i # k => t[i] = h[i]
  BY DEF Writes
<1>2. DOMAIN t = 1..Len(h) /\ Len(h) \in Nat
  BY <1>1
<1>3. /\ \A i, j \in 1..Len(h) : h[i].key # Skip /\ h[i].in = h[j].in /\ h[i].key = h[j].key => i = j
      /\ \A i \in 1..Len(h) : h[i].key = "params" => h[i] = Opener
      /\ \A i \in 1..Len(h) : h[i].in => i > 1 /\ (h[i - 1].in \/ h[i - 1] = Opener)
  BY TidyIs
<1>4. \A i \in 1..Len(h) : t[i].in = h[i].in /\ t[i].key = h[i].key
  BY <1>1
<1>5. \A i \in 1..Len(h) : h[i] = Opener => t[i] = Opener
  <2>1. Opener.key = "params"
    BY DEF Opener, Line
  <2> QED BY <1>1, <2>1
<1>6. ASSUME NEW i \in 1..Len(h), t[i].key = "params" PROVE t[i] = Opener
  <2>1. h[i] = Opener
    BY <1>3, <1>4, <1>6
  <2> QED BY <1>5, <2>1
<1>7. ASSUME NEW i \in 1..Len(h), t[i].in PROVE i > 1 /\ (t[i - 1].in \/ t[i - 1] = Opener)
  <2>1. i > 1 /\ (h[i - 1].in \/ h[i - 1] = Opener)
    BY <1>3, <1>4, <1>7
  <2>2. i - 1 \in 1..Len(h)
    BY <1>2, <2>1
  <2> QED BY <1>4, <1>5, <2>1, <2>2
<1>8. ASSUME NEW i \in 1..Len(h), NEW j \in 1..Len(h), i # j, t[i].key # Skip
      PROVE  <<t[i].in, t[i].key>> # <<t[j].in, t[j].key>>
  <2> SUFFICES ASSUME t[i].in = t[j].in, t[i].key = t[j].key PROVE FALSE
    OBVIOUS
  <2>1. h[i].in = h[j].in /\ h[i].key = h[j].key /\ h[i].key # Skip
    BY <1>4, <1>8
  <2> QED BY <1>3, <1>8, <2>1
<1> QED BY <1>2, <1>6, <1>7, <1>8 DEF Tidy, Opener

-----------------------------------------------------------------------------
(* The two writers. *)

\* A path of a tidy header is set, and nothing else is.
Sets(t, h, path, text) == t \in Seq(Written) /\ Tidy(t) /\ Swaps(t, h, path, text)

LEMMA PutIn ==
    ASSUME NEW h \in Seq(Written), Tidy(h), NEW k \in 1..Len(h) + 1, NEW l \in Written, Fits(h, k, l)
    PROVE  Sets(InsertAt(h, k, l), h, At(l), l.value)
<1> DEFINE t == InsertAt(h, k, l)
<1>1. Inserts(t, h, k, l)
  BY InsertIs
<1> HIDE DEF t
<1>2. Tidy(t) /\ t \in Seq(Written)
  BY <1>1, InsertTidy DEF Inserts
<1>3. l.key # Skip
  BY DEF Fits
<1>4. Sets(t, h, At(l), l.value)
  BY <1>1, <1>2, <1>3, InsertReads DEF Sets
<1> QED BY <1>4 DEF t

LEMMA WriteOver ==
    ASSUME NEW h \in Seq(Written), Tidy(h), NEW k \in 1..Len(h), NEW l \in Written,
           h[k].in = l.in, h[k].key = l.key, l.key # "params", l.key # Skip
    PROVE  Sets(ReplaceAt(h, k, l), h, At(l), l.value)
<1> DEFINE t == ReplaceAt(h, k, l)
<1>1. Writes(t, h, k, l)
  BY ReplaceIs
<1> HIDE DEF t
<1>2. Tidy(t) /\ t \in Seq(Written)
  BY <1>1, WriteTidy DEF Writes
<1>3. At(h[k]) = At(l)
  BY DEF At
<1>4. Sets(t, h, At(l), l.value)
  BY <1>1, <1>2, <1>3, WriteReads DEF Sets
<1> QED BY <1>4 DEF t

LEMMA HeaderEndIs ==
    ASSUME NEW h \in Seq(Written)
    PROVE  /\ HeaderEnd(h) \in 1..Len(h) + 1
           /\ HeaderEnd(h) <= Len(h) => ~h[HeaderEnd(h)].in
<1>1. Len(h) \in Nat /\ (h # <<>> => Len(h) >= 1)
  OBVIOUS
<1>2. CASE h # <<>> /\ Last(h) = NoLine(FALSE)
  <2>1. HeaderEnd(h) = Len(h) /\ ~h[Len(h)].in
    <3>1. HeaderEnd(h) = Len(h)
      BY <1>2 DEF HeaderEnd
    <3>2. h[Len(h)] = NoLine(FALSE)
      BY <1>2 DEF Last
    <3>3. ~NoLine(FALSE).in
      BY DEF NoLine
    <3> QED BY <3>1, <3>2, <3>3
  <2> QED BY <1>1, <1>2, <2>1
<1>3. CASE ~(h # <<>> /\ Last(h) = NoLine(FALSE))
  <2>1. HeaderEnd(h) = Len(h) + 1
    BY <1>3 DEF HeaderEnd
  <2> QED BY <1>1, <2>1
<1> QED BY <1>2, <1>3

LEMMA LineWritten ==
    ASSUME NEW key \in Words, NEW value \in Words
    PROVE  /\ Line(key, value) \in Written /\ ~Line(key, value).in
           /\ Line(key, value).key = key /\ Line(key, value).value = value
           /\ At(Line(key, value)) = <<key>>
           /\ Dial(key, value) \in Written /\ Dial(key, value).in
           /\ Dial(key, value).key = key /\ Dial(key, value).value = value
           /\ At(Dial(key, value)) = <<"params", key>>
BY DEF Line, Dial, Written, At

\* The first line that opens params:.
LEMMA FirstOpener ==
    ASSUME NEW h \in Seq(Written), Tidy(h), NEW n, n = FirstLine(h, Opens)
    PROVE  /\ n = 0 => \A i \in 1..Len(h) : h[i].key # "params"
           /\ n # 0 => n \in 1..Len(h) /\ h[n] = Opener
           /\ n = 0 \/ n \in 1..Len(h)
<1> DEFINE T == {i \in 1..Len(h) : Opens(h[i])}
<1>1. n = IF T # {} THEN Min(T) ELSE 0
  BY DEF FirstLine, SelectInSeq
<1>2. \A i \in 1..Len(h) : h[i].key = "params" => i \in T
  <2> SUFFICES ASSUME NEW i \in 1..Len(h), h[i].key = "params" PROVE Opens(h[i])
    OBVIOUS
  <2>1. h[i] = Opener
    BY TidyIs
  <2>2. Opener.key = "params" /\ Opener.value = ""
    BY DEF Opener, Line
  <2> QED BY <2>1, <2>2 DEF Opens
<1>3. \A i \in T : h[i] = Opener
  BY TidyIs DEF Opens
<1>4. T # {} => Min(T) \in T
  <2>1. T \in SUBSET Nat
    OBVIOUS
  <2> HIDE DEF T
  <2> QED BY <2>1, MinIs
<1>5. \A i \in T : i \in 1..Len(h) /\ i # 0
  OBVIOUS
<1> HIDE DEF T
<1> QED BY <1>1, <1>2, <1>3, <1>4, <1>5

\* A flat field is set (_set_scalar).
LEMMA ScalarSets ==
    ASSUME NEW h \in Seq(Written), Tidy(h), NEW field \in Words, field \notin {"params", Skip},
           NEW text \in Words
    PROVE  Sets(SetScalar(h, field, text), h, <<field>>, text)
<1> DEFINE l == Line(field, text)
           held  == FirstLine(h, LAMBDA x : ~x.in /\ x.key = field)
           block == FirstLine(h, Opens)
           at    == IF block = 0 THEN HeaderEnd(h) ELSE block
<1>1. SetScalar(h, field, text) = IF held # 0 THEN ReplaceAt(h, held, l) ELSE InsertAt(h, at, l)
  BY DEF SetScalar
<1>2. l \in Written /\ ~l.in /\ l.key = field /\ l.value = text /\ At(l) = <<field>>
  BY LineWritten
<1> DEFINE T == {i \in 1..Len(h) : ~h[i].in /\ h[i].key = field}
<1>3. held = IF T # {} THEN Min(T) ELSE 0
  BY DEF FirstLine, SelectInSeq
<1>4. T # {} => Min(T) \in T
  <2>1. T \in SUBSET Nat
    OBVIOUS
  <2> HIDE DEF T
  <2> QED BY <2>1, MinIs
<1>5. \A i \in T : i \in 1..Len(h) /\ i # 0 /\ ~h[i].in /\ h[i].key = field
  OBVIOUS
<1>6. \A i \in 1..Len(h) : h[i].in \in BOOLEAN /\ (i \notin T /\ ~h[i].in => h[i].key # field)
  BY LineIs
<1>7. /\ block = 0 \/ block \in 1..Len(h)
      /\ block # 0 => h[block] = Opener
  BY FirstOpener
<1>8. at \in 1..Len(h) + 1 /\ (at <= Len(h) => ~h[at].in)
  <2>1. CASE block = 0
    BY <2>1, HeaderEndIs
  <2>2. CASE block # 0
    <3>1. ~Opener.in
      BY DEF Opener, Line
    <3> QED BY <1>7, <2>2, <3>1
  <2> QED BY <2>1, <2>2
<1> HIDE DEF l, held, block, at, T
<1>9. CASE held # 0
  <2>1. held \in 1..Len(h) /\ ~h[held].in /\ h[held].key = field
    BY <1>3, <1>4, <1>5, <1>9
  <2>2. h[held].in = l.in
    <3>1. h[held].in \in BOOLEAN /\ l.in \in BOOLEAN
      BY <1>2, <1>6, <2>1 DEF Written
    <3> QED BY <1>2, <2>1, <3>1, Zenon
  <2>3. Sets(ReplaceAt(h, held, l), h, At(l), l.value)
    BY <1>2, <2>1, <2>2, WriteOver
  <2> QED BY <1>1, <1>2, <1>9, <2>3
<1>10. CASE held = 0
  <2>1. \A i \in 1..Len(h) : ~h[i].in => h[i].key # field
    BY <1>3, <1>4, <1>5, <1>6, <1>10
  <2>2. Fits(h, at, l)
    <3>1. \A i \in 1..Len(h) : h[i].in = l.in => h[i].key # l.key
      BY <1>2, <2>1
    <3> QED BY <1>2, <1>8, <3>1 DEF Fits
  <2>3. Sets(InsertAt(h, at, l), h, At(l), l.value)
    BY <1>2, <1>8, <2>2, PutIn
  <2> QED BY <1>1, <1>2, <1>10, <2>3
<1> QED BY <1>9, <1>10

\* The header with its params: line, and the dial written below it.
Block(h) == IF FirstLine(h, Opens) = 0 THEN HeaderEnd(h) ELSE FirstLine(h, Opens)
Blocked(h) == IF FirstLine(h, Opens) = 0 THEN InsertAt(h, HeaderEnd(h), Opener) ELSE h
Below(w, block, name, text) ==
    LET after == SelectInSubSeq(w, block + 1, Len(w), LAMBDA l : ~l.in)
        stop  == IF after = 0 THEN Len(w) + 1 ELSE after
        held  == SelectInSubSeq(w, block + 1, stop - 1, LAMBDA l : l.key = name)
    IN  IF held # 0 THEN ReplaceAt(w, held, Dial(name, text)) ELSE InsertAt(w, stop, Dial(name, text))

LEMMA ParamIsBelow ==
    ASSUME NEW h, NEW name, NEW text
    PROVE  SetParam(h, name, text) = Below(Blocked(h), Block(h), name, text)
BY DEF SetParam, Below, Blocked, Block, Opener

\* A params: line put in for the dial changes nothing that is read.
LEMMA BlockOpens ==
    ASSUME NEW h \in Seq(Written), Tidy(h)
    PROVE  /\ Blocked(h) \in Seq(Written) /\ Tidy(Blocked(h))
           /\ Block(h) \in 1..Len(Blocked(h)) /\ Blocked(h)[Block(h)] = Opener
           /\ \A p : ReadAt(Blocked(h), p) = ReadAt(h, p)
<1> DEFINE found == FirstLine(h, Opens)
<1>1. /\ found = 0 => \A i \in 1..Len(h) : h[i].key # "params"
      /\ found # 0 => found \in 1..Len(h) /\ h[found] = Opener
  BY FirstOpener
<1>2. CASE found # 0
  BY <1>1, <1>2 DEF Blocked, Block
<1>3. CASE found = 0
  <2> DEFINE k == HeaderEnd(h)
             w == InsertAt(h, k, Opener)
  <2>1. Blocked(h) = w /\ Block(h) = k
    BY <1>3 DEF Blocked, Block
  <2>2. k \in 1..Len(h) + 1 /\ (k <= Len(h) => ~h[k].in)
    BY HeaderEndIs
  <2>3. Opener \in Written /\ ~Opener.in /\ Opener.key = "params" /\ Opener.value = "" /\ At(Opener) = <<"params">>
    <3>1. Opener = Line("params", "")
      BY DEF Opener
    <3>2. "params" \in Words /\ "" \in Words
      BY DEF Words
    <3>3. Line("params", "") \in Written /\ ~Line("params", "").in /\ At(Line("params", "")) = <<"params">>
      BY <3>2, LineWritten
    <3>4. Line("params", "").key = "params" /\ Line("params", "").value = ""
      BY DEF Line
    <3> QED BY <3>1, <3>3, <3>4, Zenon
  <2> HIDE DEF k
  <2>4. Fits(h, k, Opener)
    BY <1>1, <1>3, <2>2, <2>3 DEF Fits, Skip
  <2>5. Inserts(w, h, k, Opener) /\ Sets(w, h, At(Opener), Opener.value)
    BY <2>2, <2>3, <2>4, InsertIs, PutIn
  <2> HIDE DEF w
  <2>6. /\ w \in Seq(Written) /\ Tidy(w) /\ ReadAt(w, <<"params">>) = Scalar("")
        /\ \A p : p # <<"params">> => ReadAt(w, p) = ReadAt(h, p)
    BY <2>3, <2>5 DEF Sets, Swaps
  <2>7. ReadAt(h, <<"params">>) = ""
    <3>1. \A i \in 1..Len(h) : At(h[i]) # <<"params">>
      <4> SUFFICES ASSUME NEW i \in 1..Len(h) PROVE At(h[i]) # <<"params">>
        OBVIOUS
      <4>1. h[i] \in Written /\ h[i].in \in BOOLEAN
        BY LineIs
      <4>2. CASE h[i].in
        <5>1. Len(At(h[i])) = 2
          BY <4>1, <4>2, PathIs
        <5>2. Len(<<"params">>) = 1
          OBVIOUS
        <5>3. Len(At(h[i])) # Len(<<"params">>)
          BY <5>1, <5>2
        <5> QED BY <5>3, Zenon
      <4>3. CASE ~h[i].in
        <5>1. At(h[i])[1] = h[i].key
          BY <4>1, <4>3, PathIs
        <5> QED BY <1>1, <1>3, <5>1
      <4> QED BY <4>2, <4>3
    <3>2. ReadsEach(h)
      BY TidyReads
    <3> QED BY <3>1, <3>2 DEF ReadsEach
  <2>8. Scalar("") = ""
    BY DEF Scalar
  <2>9. \A p : ReadAt(w, p) = ReadAt(h, p)
    BY <2>6, <2>7, <2>8
  <2>10. k \in 1..Len(w) /\ w[k] = Opener
    <3>1. Len(h) \in Nat
      OBVIOUS
    <3> QED BY <2>2, <2>5, <3>1 DEF Inserts
  <2> QED BY <2>1, <2>6, <2>9, <2>10
<1> QED BY <1>2, <1>3

\* The dial goes to its own line among the params, or to the end of them.
LEMMA BelowSets ==
    ASSUME NEW w \in Seq(Written), Tidy(w), NEW block \in 1..Len(w), w[block] = Opener,
           NEW name \in Words, name \notin {"params", Skip}, NEW text \in Words
    PROVE  Sets(Below(w, block, name, text), w, <<"params", name>>, text)
<1> DEFINE l     == Dial(name, text)
           after == SelectInSubSeq(w, block + 1, Len(w), LAMBDA x : ~x.in)
           stop  == IF after = 0 THEN Len(w) + 1 ELSE after
           held  == SelectInSubSeq(w, block + 1, stop - 1, LAMBDA x : x.key = name)
           A     == {i \in block + 1..Len(w) : ~w[i].in}
           H     == {i \in block + 1..stop - 1 : w[i].key = name}
<1>1. Below(w, block, name, text) = IF held # 0 THEN ReplaceAt(w, held, l) ELSE InsertAt(w, stop, l)
  BY DEF Below
<1>2. l \in Written /\ l.in /\ l.key = name /\ l.value = text /\ At(l) = <<"params", name>>
  BY LineWritten
<1>3. Len(w) \in Nat /\ block \in Nat /\ block >= 1 /\ block <= Len(w)
  OBVIOUS
<1>4. after = (IF A # {} THEN Min(A) ELSE 0) /\ held = (IF H # {} THEN Min(H) ELSE 0)
  BY DEF SelectInSubSeq
<1>5. A # {} => Min(A) \in A /\ \A i \in A : Min(A) <= i
  <2>1. A \in SUBSET Nat
    BY <1>3
  <2> HIDE DEF A
  <2> QED BY <2>1, MinIs
<1>6. \A i \in A : i \in block + 1..Len(w) /\ i # 0 /\ ~w[i].in
  BY <1>3
<1>7. \A i \in block + 1..Len(w) : i \notin A => w[i].in
  OBVIOUS
<1>8. /\ stop \in block + 1..Len(w) + 1
      /\ stop <= Len(w) => ~w[stop].in
      /\ \A i \in block + 1..stop - 1 : w[i].in /\ i \in 1..Len(w)
  <2> HIDE DEF H, held
  <2>1. CASE A = {}
    <3>1. stop = Len(w) + 1
      BY <1>4, <2>1
    <3> HIDE DEF A, after, stop
    <3> QED BY <1>3, <1>7, <2>1, <3>1
  <2>2. CASE A # {}
    <3>1. Min(A) \in A
      BY <1>5, <2>2
    <3>2. stop = Min(A)
      BY <1>4, <1>6, <2>2, <3>1
    <3> HIDE DEF A, after, stop
    <3>3. stop \in block + 1..Len(w) /\ ~w[stop].in
      BY <1>6, <3>1, <3>2
    <3>4. \A i \in block + 1..stop - 1 : i \in block + 1..Len(w) /\ i \notin A
      <4> SUFFICES ASSUME NEW i \in block + 1..stop - 1 PROVE i \in block + 1..Len(w) /\ i \notin A
        OBVIOUS
      <4>1. i \in block + 1..Len(w) /\ ~(stop <= i)
        BY <1>3, <3>3
      <4> QED BY <1>5, <2>2, <3>2, <4>1
    <3> QED BY <1>3, <1>7, <3>3, <3>4
  <2> QED BY <2>1, <2>2
<1> HIDE DEF A, after, stop
<1>9. stop \in Nat
  BY <1>3, <1>8
<1>10. H # {} => Min(H) \in H
  <2>1. H \in SUBSET Nat
    BY <1>3, <1>9
  <2> HIDE DEF H, held
  <2> QED BY <2>1, MinIs
<1>11. \A i \in H : i \in block + 1..stop - 1 /\ i # 0 /\ w[i].key = name
  BY <1>3, <1>9
<1>12. \A i \in block + 1..stop - 1 : i \notin H => w[i].key # name
  OBVIOUS
<1> HIDE DEF l, held, H
\* Every indented line is below block and above stop.
<1>13. ASSUME NEW i \in 1..Len(w), w[i].in
       PROVE  i \in block + 1..stop - 1
  <2>1. PICK k \in 1..i - 1 : w[k] = Opener /\ \A m \in k + 1..i : w[m].in
    BY <1>13, UnderParams
  <2>2. k \in 1..Len(w) /\ k < i
    BY <1>3, <2>1
  <2>3. k = block
    <3>1. Opener.key # Skip
      BY DEF Opener, Line, Skip
    <3>2. w[k].key # Skip /\ w[k].in = w[block].in /\ w[k].key = w[block].key
      BY <2>1, <3>1
    <3>3. \A m, j \in 1..Len(w) : w[m].key # Skip /\ w[m].in = w[j].in /\ w[m].key = w[j].key => m = j
      BY TidyIs
    <3> QED BY <2>2, <3>2, <3>3
  <2>4. i < stop
    <3> SUFFICES ASSUME ~(i < stop) PROVE FALSE
      OBVIOUS
    <3>1. stop \in k + 1..i /\ stop <= Len(w)
      BY <1>8, <1>9, <2>3
    <3> QED BY <1>8, <2>1, <3>1
  <2> QED BY <1>3, <1>9, <2>2, <2>3, <2>4
<1>14. CASE held # 0
  <2>1. held \in block + 1..stop - 1 /\ w[held].key = name
    BY <1>4, <1>10, <1>11, <1>14
  <2>2. w[held].in /\ held \in 1..Len(w)
    BY <1>8, <2>1
  <2>3. w[held].in = l.in
    <3>1. w[held].in \in BOOLEAN /\ l.in \in BOOLEAN
      BY <1>2, <2>2, LineIs DEF Written
    <3> QED BY <1>2, <2>2, <3>1, Zenon
  <2>4. Sets(ReplaceAt(w, held, l), w, At(l), l.value)
    BY <1>2, <2>1, <2>2, <2>3, WriteOver
  <2> QED BY <1>1, <1>2, <1>14, <2>4
<1>15. CASE held = 0
  <2>1. \A i \in block + 1..stop - 1 : w[i].key # name
    BY <1>4, <1>10, <1>11, <1>12, <1>15
  <2>2. \A i \in 1..Len(w) : w[i].in => w[i].key # name
    BY <1>13, <2>1
  <2>3. stop > 1 /\ stop \in 1..Len(w) + 1 /\ (w[stop - 1].in \/ w[stop - 1] = Opener)
    <3>1. stop > 1 /\ stop \in 1..Len(w) + 1
      BY <1>3, <1>8, <1>9
    <3>2. stop - 1 = block \/ stop - 1 \in block + 1..stop - 1
      BY <1>3, <1>8, <1>9
    <3> QED BY <1>8, <3>1, <3>2
  <2>4. Fits(w, stop, l)
    <3>1. \A i \in 1..Len(w) : w[i].in = l.in => w[i].key # l.key
      BY <1>2, <2>2
    <3> QED BY <1>2, <1>8, <2>3, <3>1 DEF Fits
  <2>5. Sets(InsertAt(w, stop, l), w, At(l), l.value)
    BY <1>2, <2>3, <2>4, PutIn
  <2> QED BY <1>1, <1>2, <1>15, <2>5
<1> QED BY <1>14, <1>15

\* A dial is set (_set_param).
LEMMA ParamSets ==
    ASSUME NEW h \in Seq(Written), Tidy(h), NEW name \in Words, name \notin {"params", Skip},
           NEW text \in Words
    PROVE  Sets(SetParam(h, name, text), h, <<"params", name>>, text)
<1> DEFINE w == Blocked(h)
           k == Block(h)
<1>1. w \in Seq(Written) /\ Tidy(w) /\ k \in 1..Len(w) /\ w[k] = Opener /\ \A p : ReadAt(w, p) = ReadAt(h, p)
  BY BlockOpens
<1>2. SetParam(h, name, text) = Below(w, k, name, text)
  BY ParamIsBelow
<1> HIDE DEF w, k
<1>3. Sets(Below(w, k, name, text), w, <<"params", name>>, text)
  BY <1>1, BelowSets
<1> DEFINE t == Below(w, k, name, text)
<1> HIDE DEF t
<1>4. Sets(t, h, <<"params", name>>, text)
  <2>1. Sets(t, w, <<"params", name>>, text)
    BY <1>3 DEF t
  <2> QED BY <1>1, <2>1 DEF Sets, Swaps
<1> QED BY <1>2, <1>4 DEF t

-----------------------------------------------------------------------------
(* A call: pair after pair. *)

Pairs == [field : STRING, type : STRING, text : STRING]

\* What the first n pairs have come to: the last on each field is read, and no
\* other path is.
Comes(h, t, pairs, n) ==
    /\ t \in Seq(Written) /\ Tidy(t)
    /\ \A i \in 1..n : \/ \E j \in 1..n : j > i /\ pairs[j].field = pairs[i].field
                       \/ ReadAt(t, Path(pairs[i].field)) = Scalar(pairs[i].text)
    /\ \A p : ReadAt(t, p) = ReadAt(h, p) \/ \E i \in 1..n : p = Path(pairs[i].field)

LEMMA DialsNamed ==
    ASSUME NEW field
    PROVE  /\ field = "params.A" => DialOf(field) = "A"
           /\ field = "params.B" => DialOf(field) = "B"
           /\ field \notin {"params.A", "params.B"} => DialOf(field) = ""
BY DEF DialOf

\* A field a call accepts is a flat one or one of the two dials, and no two are
\* read at one path.
Fields == Tunable \cup {"params.A", "params.B"}

LEMMA PathsOne ==
    ASSUME NEW f \in Fields, NEW g \in Fields, Path(f) = Path(g)
    PROVE  f = g
<1>1. /\ f = "params.A" => Path(f) = <<"params", "A">>
      /\ f = "params.B" => Path(f) = <<"params", "B">>
      /\ f \notin {"params.A", "params.B"} => Path(f) = <<f>>
  BY DialsNamed DEF Path
<1>2. /\ g = "params.A" => Path(g) = <<"params", "A">>
      /\ g = "params.B" => Path(g) = <<"params", "B">>
      /\ g \notin {"params.A", "params.B"} => Path(g) = <<g>>
  BY DialsNamed DEF Path
<1>3. \A x, y : Len(<<x>>) = 1 /\ Len(<<x, y>>) = 2 /\ <<x>>[1] = x /\ <<x, y>>[2] = y
  OBVIOUS
<1>4. CASE f \in {"params.A", "params.B"} /\ g \in {"params.A", "params.B"}
  BY <1>1, <1>2, <1>3, <1>4
<1>5. CASE f \notin {"params.A", "params.B"} /\ g \notin {"params.A", "params.B"}
  BY <1>1, <1>2, <1>3, <1>5
<1>6. CASE f \in {"params.A", "params.B"} /\ g \notin {"params.A", "params.B"}
  <2>1. Len(Path(f)) = 2 /\ Len(Path(g)) = 1
    BY <1>1, <1>2, <1>3, <1>6
  <2> QED BY <2>1
<1>7. CASE f \notin {"params.A", "params.B"} /\ g \in {"params.A", "params.B"}
  <2>1. Len(Path(f)) = 1 /\ Len(Path(g)) = 2
    BY <1>1, <1>2, <1>3, <1>7
  <2> QED BY <2>1
<1> QED BY <1>4, <1>5, <1>6, <1>7

LEMMA AcceptsFields ==
    ASSUME NEW pair, Accepts(pair)
    PROVE  pair.field \in Fields
<1>1. CASE pair.field \in {"params.A", "params.B"}
  BY <1>1 DEF Fields
<1>2. CASE pair.field \in {"kind", "direction", "weight", "soft"}
  BY <1>2 DEF Fields, Tunable
<1>3. CASE pair.field \notin {"params.A", "params.B", "kind", "direction", "weight", "soft"}
  <2>1. pair.field \in Tunable
    BY <1>3 DEF Accepts
  <2> QED BY <2>1 DEF Fields
<1> QED BY <1>1, <1>2, <1>3

\* One pair is written.
LEMMA EditSets ==
    ASSUME NEW h \in Seq(Written), Tidy(h), NEW pair \in Pairs, Accepts(pair)
    PROVE  Sets(EditLine(h, pair), h, Path(pair.field), pair.text)
<1>1. pair.field \in Fields /\ pair.text \in Words /\ pair.field \in Words
  BY AcceptsFields DEF Pairs, Words
<1>2. CASE pair.field \in {"params.A", "params.B"}
  <2> DEFINE name == DialOf(pair.field)
  <2>1. name \in {"A", "B"}
    BY <1>2, DialsNamed
  <2>2. name \in Words /\ name \notin {"params", Skip} /\ name # ""
    BY <2>1 DEF Words, Skip
  <2>3. EditLine(h, pair) = SetParam(h, name, pair.text) /\ Path(pair.field) = <<"params", name>>
    BY <2>2 DEF EditLine, Path
  <2> HIDE DEF name
  <2> QED BY <1>1, <2>2, <2>3, ParamSets
<1>3. CASE pair.field \notin {"params.A", "params.B"}
  <2>1. DialOf(pair.field) = ""
    BY <1>3, DialsNamed
  <2>2. EditLine(h, pair) = SetScalar(h, pair.field, pair.text) /\ Path(pair.field) = <<pair.field>>
    BY <2>1 DEF EditLine, Path
  <2>3. pair.field \notin {"params", Skip}
    BY <1>1, <1>3 DEF Fields, Tunable, Expressed, Skip
  <2> QED BY <1>1, <2>2, <2>3, ScalarSets
<1> QED BY <1>2, <1>3

\* And one more.
LEMMA EditTurn ==
    ASSUME NEW h, NEW t, NEW pairs \in Seq(Pairs), NEW n \in 1..Len(pairs),
           \A i \in 1..n : Accepts(pairs[i]), Comes(h, t, pairs, n - 1)
    PROVE  Comes(h, EditLine(t, pairs[n]), pairs, n)
<1> DEFINE u == EditLine(t, pairs[n])
<1>0. n \in Nat /\ Len(pairs) \in Nat /\ n \in 1..n
  OBVIOUS
<1>1. \A i \in 1..n : pairs[i] \in Pairs /\ pairs[i].field \in Fields
  BY AcceptsFields
<1>2. /\ t \in Seq(Written) /\ Tidy(t)
      /\ \A i \in 1..n - 1 : \/ \E j \in 1..n - 1 : j > i /\ pairs[j].field = pairs[i].field
                             \/ ReadAt(t, Path(pairs[i].field)) = Scalar(pairs[i].text)
      /\ \A p : ReadAt(t, p) = ReadAt(h, p) \/ \E i \in 1..n - 1 : p = Path(pairs[i].field)
  BY DEF Comes
<1>3. Sets(u, t, Path(pairs[n].field), pairs[n].text)
  BY <1>0, <1>1, <1>2, EditSets
<1> HIDE DEF u
<1>4. /\ u \in Seq(Written) /\ Tidy(u)
      /\ ReadAt(u, Path(pairs[n].field)) = Scalar(pairs[n].text)
      /\ \A p : p # Path(pairs[n].field) => ReadAt(u, p) = ReadAt(t, p)
  BY <1>3 DEF Sets, Swaps
<1>5. \A i \in 1..n - 1 : i \in 1..n /\ n > i
  BY <1>0
<1>6. ASSUME NEW i \in 1..n
      PROVE  \/ \E j \in 1..n : j > i /\ pairs[j].field = pairs[i].field
             \/ ReadAt(u, Path(pairs[i].field)) = Scalar(pairs[i].text)
  <2>1. CASE i = n
    BY <1>4, <2>1
  <2>2. CASE i # n
    <3>1. i \in 1..n - 1
      BY <1>0, <2>2
    <3>2. CASE pairs[i].field = pairs[n].field
      BY <1>0, <1>5, <3>1, <3>2
    <3>3. CASE pairs[i].field # pairs[n].field
      <4>1. Path(pairs[i].field) # Path(pairs[n].field)
        BY <1>0, <1>1, <3>3, PathsOne
      <4>2. ReadAt(u, Path(pairs[i].field)) = ReadAt(t, Path(pairs[i].field))
        BY <1>4, <4>1
      <4> QED BY <1>2, <1>5, <3>1, <4>2
    <3> QED BY <3>2, <3>3
  <2> QED BY <2>1, <2>2
<1>7. ASSUME NEW p
      PROVE  ReadAt(u, p) = ReadAt(h, p) \/ \E i \in 1..n : p = Path(pairs[i].field)
  <2>1. CASE p = Path(pairs[n].field)
    BY <1>0, <2>1
  <2>2. CASE p # Path(pairs[n].field)
    BY <1>2, <1>4, <1>5, <2>2
  <2> QED BY <2>1, <2>2
<1>8. Comes(h, u, pairs, n)
  BY <1>4, <1>6, <1>7 DEF Comes
<1> QED BY <1>8 DEF u

\* The whole call.
LEMMA EditsSet ==
    ASSUME NEW h \in Seq(Written), Tidy(h), NEW pairs \in Seq(Pairs), \A i \in DOMAIN pairs : Accepts(pairs[i])
    PROVE  Comes(h, Edited(h, pairs), pairs, Len(pairs))
<1>0. Len(pairs) \in Nat /\ DOMAIN pairs = 1..Len(pairs)
  OBVIOUS
<1>1. PICK e : /\ e[0] = h /\ e[Len(pairs)] = Edited(h, pairs)
               /\ \A i \in 1..Len(pairs) : e[i] = EditLine(e[i - 1], pairs[i])
  BY EditWalk
<1> DEFINE Good == {n \in 0..Len(pairs) : Comes(h, e[n], pairs, n)}
<1>2. 0 \in Good
  <2>1. \A i \in 1..0 : FALSE
    OBVIOUS
  <2>2. Comes(h, h, pairs, 0)
    BY <2>1 DEF Comes
  <2> QED BY <1>0, <1>1, <2>2
<1>3. ASSUME NEW n \in 0..Len(pairs) - 1, n \in Good PROVE n + 1 \in Good
  <2>1. n + 1 \in 1..Len(pairs) /\ (n + 1) - 1 = n /\ \A i \in 1..n + 1 : i \in DOMAIN pairs
    BY <1>0
  <2>2. Comes(h, e[n], pairs, (n + 1) - 1)
    BY <1>3, <2>1
  <2>3. Comes(h, EditLine(e[n], pairs[n + 1]), pairs, n + 1)
    BY <2>1, <2>2, EditTurn
  <2> QED BY <1>1, <2>1, <2>3
<1> HIDE DEF Good
<1>4. 0..Len(pairs) \subseteq Good
  BY <1>0, <1>2, <1>3, Upwards
<1>5. Len(pairs) \in Good
  BY <1>0, <1>4
<1> QED BY <1>1, <1>5 DEF Good

-----------------------------------------------------------------------------
(* Every header, tidy or not, stays one of lines. *)

LEMMA FirstIn ==
    ASSUME NEW n \in Nat, NEW T \in SUBSET (1..n)
    PROVE  (IF T # {} THEN Min(T) ELSE 0) \in 0..n
<1>1. T \in SUBSET Nat
  OBVIOUS
<1>2. CASE T # {}
  <2>1. Min(T) \in T
    BY <1>1, <1>2, MinIs
  <2>2. Min(T) \in 1..n
    BY <2>1
  <2>3. Min(T) \in 0..n
    BY <2>2
  <2> QED BY <1>2, <2>3
<1>3. CASE T = {}
  <2>1. 0 \in 0..n
    OBVIOUS
  <2> QED BY <1>3, <2>1
<1> QED BY <1>2, <1>3

LEMMA ScalarWritten ==
    ASSUME NEW h \in Seq(Written), NEW field \in Words, NEW text \in Words
    PROVE  SetScalar(h, field, text) \in Seq(Written)
<1> DEFINE l == Line(field, text)
           held  == FirstLine(h, LAMBDA x : ~x.in /\ x.key = field)
           block == FirstLine(h, Opens)
           at    == IF block = 0 THEN HeaderEnd(h) ELSE block
           T == {i \in 1..Len(h) : ~h[i].in /\ h[i].key = field}
           U == {i \in 1..Len(h) : Opens(h[i])}
<1>1. SetScalar(h, field, text) = IF held # 0 THEN ReplaceAt(h, held, l) ELSE InsertAt(h, at, l)
  BY DEF SetScalar
<1>2. l \in Written
  BY LineWritten
<1>3. Len(h) \in Nat /\ T \in SUBSET (1..Len(h)) /\ U \in SUBSET (1..Len(h))
  OBVIOUS
<1>4. held = (IF T # {} THEN Min(T) ELSE 0) /\ block = (IF U # {} THEN Min(U) ELSE 0)
  BY DEF FirstLine, SelectInSeq
<1> HIDE DEF l, held, block, T, U
<1>5. held \in 0..Len(h) /\ block \in 0..Len(h)
  BY <1>3, <1>4, FirstIn
<1>6. at \in 1..Len(h) + 1
  BY <1>3, <1>5, HeaderEndIs
<1> HIDE DEF at
<1>7. CASE held # 0
  <2>1. Writes(ReplaceAt(h, held, l), h, held, l)
    BY <1>2, <1>3, <1>5, <1>7, ReplaceIs
  <2> QED BY <1>1, <1>7, <2>1 DEF Writes
<1>8. CASE held = 0
  <2>1. Inserts(InsertAt(h, at, l), h, at, l)
    BY <1>2, <1>6, InsertIs
  <2> QED BY <1>1, <1>8, <2>1 DEF Inserts
<1> QED BY <1>7, <1>8

LEMMA BlockWritten ==
    ASSUME NEW h \in Seq(Written)
    PROVE  Blocked(h) \in Seq(Written) /\ Block(h) \in 1..Len(Blocked(h))
<1> DEFINE found == FirstLine(h, Opens)
           U == {i \in 1..Len(h) : Opens(h[i])}
<1>1. Len(h) \in Nat /\ U \in SUBSET (1..Len(h)) /\ found = (IF U # {} THEN Min(U) ELSE 0)
  BY DEF FirstLine, SelectInSeq
<1>2. Blocked(h) = (IF found = 0 THEN InsertAt(h, HeaderEnd(h), Opener) ELSE h)
      /\ Block(h) = (IF found = 0 THEN HeaderEnd(h) ELSE found)
  BY DEF Blocked, Block
<1> HIDE DEF found, U
<1>3. found \in 0..Len(h)
  BY <1>1, FirstIn
<1>4. HeaderEnd(h) \in 1..Len(h) + 1
  BY HeaderEndIs
<1>5. Opener \in Written
  <2>1. "params" \in Words /\ "" \in Words
    BY DEF Words
  <2> QED BY <2>1, LineWritten DEF Opener
<1>6. Inserts(InsertAt(h, HeaderEnd(h), Opener), h, HeaderEnd(h), Opener)
  BY <1>4, <1>5, InsertIs
<1>7. InsertAt(h, HeaderEnd(h), Opener) \in Seq(Written) /\ Len(InsertAt(h, HeaderEnd(h), Opener)) = Len(h) + 1
  BY <1>6 DEF Inserts
<1> QED BY <1>1, <1>2, <1>3, <1>4, <1>7

LEMMA BelowWritten ==
    ASSUME NEW w \in Seq(Written), NEW block \in 1..Len(w), NEW name \in Words, NEW text \in Words
    PROVE  Below(w, block, name, text) \in Seq(Written)
<1> DEFINE l     == Dial(name, text)
           after == SelectInSubSeq(w, block + 1, Len(w), LAMBDA x : ~x.in)
           stop  == IF after = 0 THEN Len(w) + 1 ELSE after
           held  == SelectInSubSeq(w, block + 1, stop - 1, LAMBDA x : x.key = name)
           A     == {i \in block + 1..Len(w) : ~w[i].in}
           H     == {i \in block + 1..stop - 1 : w[i].key = name}
<1>1. Below(w, block, name, text) = IF held # 0 THEN ReplaceAt(w, held, l) ELSE InsertAt(w, stop, l)
  BY DEF Below
<1>2. l \in Written
  BY LineWritten
<1>3. Len(w) \in Nat /\ block \in Nat
  OBVIOUS
<1>4. after = (IF A # {} THEN Min(A) ELSE 0) /\ held = (IF H # {} THEN Min(H) ELSE 0)
  BY DEF SelectInSubSeq
<1>5. A \in SUBSET (1..Len(w))
  BY <1>3
<1>6. stop \in 1..Len(w) + 1
  <2> HIDE DEF A
  <2>1. after \in 0..Len(w)
    BY <1>3, <1>4, <1>5, FirstIn
  <2> HIDE DEF after
  <2> QED BY <1>3, <2>1
<1> HIDE DEF A, after, stop
<1>7. H \in SUBSET (1..Len(w))
  BY <1>3, <1>6
<1> HIDE DEF H, held, l
<1>8. held \in 0..Len(w)
  BY <1>3, <1>4, <1>7, FirstIn
<1>9. CASE held # 0
  <2>1. Writes(ReplaceAt(w, held, l), w, held, l)
    BY <1>2, <1>3, <1>8, <1>9, ReplaceIs
  <2> QED BY <1>1, <1>9, <2>1 DEF Writes
<1>10. CASE held = 0
  <2>1. Inserts(InsertAt(w, stop, l), w, stop, l)
    BY <1>2, <1>6, InsertIs
  <2> QED BY <1>1, <1>10, <2>1 DEF Inserts
<1> QED BY <1>9, <1>10

LEMMA EditWritten ==
    ASSUME NEW h \in Seq(Written), NEW pair \in Pairs
    PROVE  EditLine(h, pair) \in Seq(Written)
<1>1. pair.text \in Words /\ pair.field \in Words
  BY DEF Pairs, Words
<1>2. DialOf(pair.field) \in Words
  BY DEF DialOf, Words
<1>3. CASE DialOf(pair.field) # ""
  <2>1. EditLine(h, pair) = Below(Blocked(h), Block(h), DialOf(pair.field), pair.text)
    BY <1>3, ParamIsBelow DEF EditLine
  <2> QED BY <1>1, <1>2, <2>1, BlockWritten, BelowWritten
<1>4. CASE DialOf(pair.field) = ""
  <2>1. EditLine(h, pair) = SetScalar(h, pair.field, pair.text)
    BY <1>4 DEF EditLine
  <2> QED BY <1>1, <2>1, ScalarWritten
<1> QED BY <1>3, <1>4

LEMMA EditsWritten ==
    ASSUME NEW h \in Seq(Written), NEW pairs \in Seq(Pairs)
    PROVE  Edited(h, pairs) \in Seq(Written)
<1>0. Len(pairs) \in Nat
  OBVIOUS
<1>1. PICK e : /\ e[0] = h /\ e[Len(pairs)] = Edited(h, pairs)
               /\ \A i \in 1..Len(pairs) : e[i] = EditLine(e[i - 1], pairs[i])
  BY EditWalk
<1> DEFINE Good == {n \in 0..Len(pairs) : e[n] \in Seq(Written)}
<1>2. 0 \in Good
  BY <1>0, <1>1
<1>3. ASSUME NEW n \in 0..Len(pairs) - 1, n \in Good PROVE n + 1 \in Good
  <2>1. n + 1 \in 1..Len(pairs) /\ (n + 1) - 1 = n /\ n + 1 \in 0..Len(pairs)
    BY <1>0
  <2>2. pairs[n + 1] \in Pairs
    BY <2>1
  <2>3. e[n + 1] = EditLine(e[n], pairs[n + 1])
    BY <1>1, <2>1
  <2>4. e[n] \in Seq(Written)
    BY <1>3
  <2>5. EditLine(e[n], pairs[n + 1]) \in Seq(Written)
    BY <2>2, <2>4, EditWritten
  <2> QED BY <2>1, <2>3, <2>5
<1> HIDE DEF Good
<1>4. 0..Len(pairs) \subseteq Good
  BY <1>0, <1>2, <1>3, Upwards
<1>5. Len(pairs) \in Good
  BY <1>0, <1>4
<1> QED BY <1>1, <1>5 DEF Good

-----------------------------------------------------------------------------
(* The theorem. *)

InLines == lines \in Seq(Written)

LEMMA HeaderWritten == \A h \in Headers : h \in Seq(Written)
<1>1. [in : BOOLEAN, key : STRING, value : STRING] \subseteq Written
  BY DEF Written, Words
<1>2. \A h \in Headers : h \in Seq([in : BOOLEAN, key : STRING, value : STRING])
  BY StrategiesAssumption
<1> DEFINE L == [in : BOOLEAN, key : STRING, value : STRING]
<1> HIDE DEF L
<1>3. \A h \in Seq(L) : L \subseteq Written => h \in Seq(Written)
  OBVIOUS
<1> QED BY <1>1, <1>2, <1>3 DEF L

LEMMA PairsWritten == \A pairs \in Tunings : pairs \in Seq(Pairs)
BY StrategiesAssumption DEF Pairs

LEMMA InLinesStep == InLines /\ [StrategiesNext]_strategyVars => InLines'
<1> SUFFICES ASSUME InLines, [StrategiesNext]_strategyVars PROVE InLines'
  OBVIOUS
<1>1. ASSUME NEW pairs \in Tunings, Tune(pairs) PROVE InLines'
  <2>1. lines' = Edited(lines, pairs) /\ pairs \in Seq(Pairs)
    BY <1>1, PairsWritten DEF Tune
  <2> QED BY <2>1, EditsWritten DEF InLines
<1>2. ASSUME NEW pairs \in Tunings, TuneRefused(pairs) PROVE InLines'
  BY <1>2 DEF TuneRefused, InLines
<1>3. CASE UNCHANGED strategyVars
  BY <1>3 DEF strategyVars, InLines
<1> QED BY <1>1, <1>2, <1>3 DEF StrategiesNext

\* Every change a call answers with is read, of a tidy header.
Turned ==
    lines' # lines /\ Tidy(lines) =>
        /\ Heard(lines', told') /\ Tidy(lines')
        /\ \A p \in DOMAIN Parsed(lines).meta \cup DOMAIN Parsed(lines').meta :
            \/ ReadAt(lines', p) = ReadAt(lines, p)
            \/ \E i \in DOMAIN told' : p = Path(told'[i].field)

LEMMA TurnedStep == InLines /\ [StrategiesNext]_strategyVars => Turned
<1> SUFFICES ASSUME InLines, [StrategiesNext]_strategyVars, lines' # lines, Tidy(lines)
             PROVE  /\ Heard(lines', told') /\ Tidy(lines')
                    /\ \A p : \/ ReadAt(lines', p) = ReadAt(lines, p)
                              \/ \E i \in DOMAIN told' : p = Path(told'[i].field)
  BY DEF Turned
<1>1. PICK pairs \in Tunings : Tune(pairs)
  BY DEF StrategiesNext, TuneRefused, strategyVars
<1>2. /\ lines' = Edited(lines, pairs) /\ told' = pairs /\ pairs \in Seq(Pairs)
      /\ \A i \in DOMAIN pairs : Accepts(pairs[i])
  BY <1>1, PairsWritten DEF Tune
<1>3. DOMAIN pairs = 1..Len(pairs)
  BY <1>2
<1>4. Comes(lines, Edited(lines, pairs), pairs, Len(pairs))
  BY <1>2, EditsSet DEF InLines
<1>5. Comes(lines, lines', pairs, Len(pairs))
  BY <1>2, <1>4
<1> QED BY <1>2, <1>3, <1>5 DEF Comes, Heard

\* In a tidy header, of whatever lines and after any calls, every change a call
\* answers with is what the loader reads, no other field or dial reads
\* otherwise for it, and the header stays tidy.
THEOREM TuningIsRead == StrategiesInit /\ [][StrategiesNext]_strategyVars => TidyTurns
<1>1. StrategiesInit => InLines
  BY HeaderWritten DEF StrategiesInit, InLines
<1>2. StrategiesInit /\ [][StrategiesNext]_strategyVars => [][Turned]_strategyVars
  BY <1>1, InLinesStep, TurnedStep, PTL
<1> QED BY <1>2, PTL DEF TidyTurns, Turned
=============================================================================
