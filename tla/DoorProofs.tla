----------------------------- MODULE DoorProofs -----------------------------
(***************************************************************************)
(* Proofs about Door, Audit and Page, for every set of requests, batches,  *)
(* addresses and calls, every limit of the door, every length of the log's *)
(* tail, and every set of boards and weights: RateKept and RelayTold;      *)
(* LogCounted and PassExact; CurrentIsShown and StoredIsRecorded.          *)
(*                                                                         *)
(* Counting is the invariant under RateKept: the calls let in at a time    *)
(* that no thread's reading can have put out of the window are still in    *)
(* their address's entry (Remembered), which two facts carry.  An entry's  *)
(* times are in order but for one lag (Near), so an entry that is          *)
(* forgotten holds no such time; and dropping what is out of the window    *)
(* leaves every other time as often as it was (WithinIs).  Of a window     *)
(* whole it holds too (Straightened), until a later reader has the lock:   *)
(* an older time behind a newer one is a thread's that was overtaken.      *)
(*                                                                         *)
(* Reading is the invariant under the audit's: the sentry stopped at a     *)
(* line's end and has counted nothing past it (SentryOK), and a crash is   *)
(* counted, too late, or in the reach of the next pass (CrashInReach).     *)
(*                                                                         *)
(* Replies to the page come in any order, so ShownIsCurrent says nothing   *)
(* of the requests still out: AskedAsSet adds what the newest of them      *)
(* asked, and that its solve is of the weights in force unless a store's   *)
(* write is still to be heard of.                                          *)
(***************************************************************************)
EXTENDS Door, Audit, Page, TLAPS, FiniteSetTheorems, WellFoundedInduction

-----------------------------------------------------------------------------
(* Induction, and what is left of a window.                                *)

\* A set of naturals has a least element.
LEMMA LeastNat == \A T \in SUBSET Nat : T # {} => \E x \in T : \A y \in T : x <= y
<1> SUFFICES ASSUME NEW T \in SUBSET Nat, T # {} PROVE \E x \in T : \A y \in T : x <= y
  OBVIOUS
<1>1. IsWellFoundedOn(OpToRel(<, Nat), Nat)
  BY NatLessThanWellFounded
<1>2. PICK x \in T : \A y \in T : ~(<<y, x>> \in OpToRel(<, Nat))
  BY <1>1, WFMin
<1>3. \A y \in T : ~(y < x)
  BY <1>2 DEF OpToRel
<1> QED BY <1>3

\* What holds of 0 and goes from each number to the next holds up to N.
LEMMA Upwards ==
    ASSUME NEW N \in Nat, NEW S, 0 \in S, \A n \in 0..N - 1 : n \in S => n + 1 \in S
    PROVE  0..N \subseteq S
<1> SUFFICES ASSUME 0..N \ S # {} PROVE FALSE
  OBVIOUS
<1>1. PICK x \in 0..N \ S : \A y \in 0..N \ S : x <= y
  <2>1. 0..N \ S \in SUBSET Nat
    OBVIOUS
  <2> QED BY <2>1, LeastNat, Zenon
<1>2. x # 0 /\ x - 1 \in S
  BY <1>1
<1> QED BY <1>1, <1>2

\* The places of a sequence where a member of S stands.
At(ts, S) == {i \in DOMAIN ts : ts[i] \in S}

LEMMA AtFinite ==
    ASSUME NEW ts \in Seq(Nat), NEW S
    PROVE  /\ IsFiniteSet(At(ts, S)) /\ Cardinality(At(ts, S)) \in Nat
           /\ Cardinality(At(ts, S)) <= Len(ts) /\ Len(ts) \in Nat
<1>1. At(ts, S) \in SUBSET (1..Len(ts)) /\ Len(ts) \in Nat
  BY DEF At
<1>2. IsFiniteSet(1..Len(ts)) /\ Cardinality(1..Len(ts)) = Len(ts)
  <2>1. 1 \in Int /\ Len(ts) \in Int
    BY <1>1
  <2>2. /\ IsFiniteSet(1..Len(ts))
        /\ Cardinality(1..Len(ts)) = IF 1 > Len(ts) THEN 0 ELSE Len(ts) - 1 + 1
    BY <2>1, FS_Interval
  <2> QED BY <1>1, <2>2
<1> QED BY <1>1, <1>2, FS_Subset, FS_CardinalityType

\* f is the recursion Within makes: each call out of the window is passed over.
KeptOf(f, ts, now, N) ==
    \A n \in 0..N : f[n] = IF n = 0 THEN <<>>
                           ELSE IF now - ts[n] < RateWindow THEN Append(f[n - 1], ts[n]) ELSE f[n - 1]

LEMMA KeptExists ==
    ASSUME NEW ts \in Seq(Nat), NEW now
    PROVE  \E f \in [0..Len(ts) -> Seq(Nat)] : KeptOf(f, ts, now, Len(ts))
<1> DEFINE Reach == {m \in 0..Len(ts) : \E f \in [0..m -> Seq(Nat)] : KeptOf(f, ts, now, m)}
<1>0. Len(ts) \in Nat
  OBVIOUS
<1>1. 0 \in Reach
  <2> DEFINE f == [n \in 0..0 |-> <<>>]
  <2>1. f \in [0..0 -> Seq(Nat)] /\ KeptOf(f, ts, now, 0)
    BY DEF KeptOf
  <2>2. \E h \in [0..0 -> Seq(Nat)] : KeptOf(h, ts, now, 0)
    BY <2>1
  <2> QED BY <2>2
<1>2. ASSUME NEW m \in 0..Len(ts) - 1, m \in Reach PROVE m + 1 \in Reach
  <2>1. PICK f \in [0..m -> Seq(Nat)] : KeptOf(f, ts, now, m)
    BY <1>2
  <2> DEFINE new == IF now - ts[m + 1] < RateWindow THEN Append(f[m], ts[m + 1]) ELSE f[m]
             g == [n \in 0..m + 1 |-> IF n = m + 1 THEN new ELSE f[n]]
  <2>2. m + 1 \in 1..Len(ts) /\ f[m] \in Seq(Nat) /\ ts[m + 1] \in Nat
    OBVIOUS
  <2>3. g \in [0..m + 1 -> Seq(Nat)]
    BY <2>2
  <2>4. KeptOf(g, ts, now, m + 1)
    <3> HIDE DEF new
    <3>1. g[m + 1] = new /\ g[m] = f[m] /\ \A n \in 0..m : g[n] = f[n]
      OBVIOUS
    <3> HIDE DEF g
    <3>2. ASSUME NEW n \in 0..m + 1
          PROVE  g[n] = IF n = 0 THEN <<>>
                        ELSE IF now - ts[n] < RateWindow THEN Append(g[n - 1], ts[n]) ELSE g[n - 1]
      <4>1. CASE n = m + 1
        <5>1. n # 0 /\ n - 1 = m
          BY <4>1
        <5> QED BY <3>1, <4>1, <5>1 DEF new
      <4>2. CASE n # m + 1
        <5>1. n \in 0..m /\ (n # 0 => n - 1 \in 0..m)
          BY <4>2
        <5>2. f[n] = IF n = 0 THEN <<>>
                     ELSE IF now - ts[n] < RateWindow THEN Append(f[n - 1], ts[n]) ELSE f[n - 1]
          BY <2>1, <5>1, Zenon DEF KeptOf
        <5>3. g[n] = f[n] /\ (n # 0 => g[n - 1] = f[n - 1])
          BY <3>1, <5>1
        <5> QED BY <5>2, <5>3
      <4> QED BY <4>1, <4>2
    <3> QED BY <3>2, Zenon DEF KeptOf
  <2>5. \E h \in [0..m + 1 -> Seq(Nat)] : KeptOf(h, ts, now, m + 1)
    BY <2>3, <2>4
  <2> QED BY <2>2, <2>5
<1> HIDE DEF Reach
<1>3. 0..Len(ts) \subseteq Reach
  BY <1>0, <1>1, <1>2, Upwards
<1>4. Len(ts) \in Reach
  BY <1>0, <1>3
<1> QED BY <1>4 DEF Reach

LEMMA WithinKept ==
    ASSUME NEW ts \in Seq(Nat), NEW now
    PROVE  \E f : KeptOf(f, ts, now, Len(ts)) /\ Within(ts, now) = f[Len(ts)]
<1> DEFINE Def(h) == h = [n \in 0..Len(ts) |->
            IF n = 0 THEN <<>>
            ELSE IF now - ts[n] < RateWindow THEN Append(h[n - 1], ts[n]) ELSE h[n - 1]]
<1>1. PICK f \in [0..Len(ts) -> Seq(Nat)] : KeptOf(f, ts, now, Len(ts))
  BY KeptExists
<1>2. Def(f)
  BY <1>1 DEF KeptOf
<1> DEFINE kept == CHOOSE h : Def(h)
<1>3. Def(kept)
  BY <1>2
<1>4. Within(ts, now) = kept[Len(ts)]
  BY DEF Within
<1>5. KeptOf(kept, ts, now, Len(ts))
  BY <1>3 DEF KeptOf
<1> HIDE DEF kept
<1> QED BY <1>4, <1>5

\* A thread may append its time after a later one, by no more than its lag.
Near(ts) == \A i, j \in DOMAIN ts : i < j => ts[i] <= ts[j] + MaxLag

\* What holds of every two of a sequence's times, an earlier and a later.
Sorted(ts, R) == \A i, j \in DOMAIN ts : i < j => <<ts[i], ts[j]>> \in R

Lagged == {p \in Nat \X Nat : p[1] <= p[2] + MaxLag}

LEMMA NearSorted ==
    ASSUME NEW ts \in Seq(Nat)
    PROVE  Near(ts) <=> Sorted(ts, Lagged)
<1>1. \A i \in DOMAIN ts : ts[i] \in Nat
  OBVIOUS
<1>2. \A x, y \in Nat : <<x, y>> \in Lagged <=> x <= y + MaxLag
  BY DEF Lagged
<1> QED BY <1>1, <1>2 DEF Near, Sorted

LEMMA AppendAt ==
    ASSUME NEW ts \in Seq(Nat), NEW t \in Nat, NEW S
    PROVE  At(Append(ts, t), S) = At(ts, S) \cup (IF t \in S THEN {Len(ts) + 1} ELSE {})
<1>1. PICK a : a = Append(ts, t)
  OBVIOUS
<1>2. /\ a[Len(ts) + 1] = t /\ \A i \in DOMAIN ts : a[i] = ts[i]
      /\ DOMAIN a = 1..Len(ts) + 1 /\ DOMAIN ts = 1..Len(ts) /\ Len(ts) \in Nat
  BY <1>1
<1>3. At(a, S) = At(ts, S) \cup (IF t \in S THEN {Len(ts) + 1} ELSE {})
  BY <1>2 DEF At
<1> QED BY <1>1, <1>3

\* Within keeps what is so of every two times, and each time of the window as often as it was.
LEMMA WithinIs ==
    ASSUME NEW ts \in Seq(Nat), NEW now \in Nat
    PROVE  /\ Within(ts, now) \in Seq(Nat)
           /\ \A i \in DOMAIN Within(ts, now) : \E j \in DOMAIN ts : Within(ts, now)[i] = ts[j]
           /\ \A R : Sorted(ts, R) => Sorted(Within(ts, now), R)
           /\ Near(ts) => Near(Within(ts, now))
           /\ \A S \in SUBSET Nat : (\A u \in S : now - u < RateWindow) =>
                 Cardinality(At(Within(ts, now), S)) = Cardinality(At(ts, S))
<1>1. PICK f : KeptOf(f, ts, now, Len(ts)) /\ Within(ts, now) = f[Len(ts)]
  BY WithinKept
<1> DEFINE First(n, S) == {j \in 1..n : ts[j] \in S}
           Same(n) == \A S \in SUBSET Nat : (\A u \in S : now - u < RateWindow) =>
                            Cardinality(At(f[n], S)) = Cardinality(First(n, S))
           From(n) == \A i \in DOMAIN f[n] : \E j \in 1..n : f[n][i] = ts[j]
           Good(n) == /\ f[n] \in Seq(Nat)
                      /\ From(n)
                      /\ \A R : Sorted(ts, R) => Sorted(f[n], R)
                      /\ Same(n)
           Reach == {n \in 0..Len(ts) : Good(n)}
<1>0. Len(ts) \in Nat /\ DOMAIN ts = 1..Len(ts) /\ \A i \in 1..Len(ts) : ts[i] \in Nat
  OBVIOUS
<1>2. 0 \in Reach
  <2>1. f[0] = <<>>
    BY <1>0, <1>1 DEF KeptOf
  <2>2. DOMAIN <<>> = {} /\ <<>> \in Seq(Nat)
    OBVIOUS
  <2>3. ASSUME NEW S PROVE At(<<>>, S) = {} /\ First(0, S) = {}
    BY <2>2 DEF At
  <2>4. \A R : Sorted(<<>>, R)
    BY <2>2 DEF Sorted
  <2>5. Good(0)
    BY <2>1, <2>2, <2>3, <2>4
  <2> QED BY <1>0, <2>5
<1>3. ASSUME NEW n \in 0..Len(ts) - 1, n \in Reach PROVE n + 1 \in Reach
  <2>0. n + 1 \in 1..Len(ts) /\ n \in Nat /\ ts[n + 1] \in Nat /\ Good(n) /\ n + 1 - 1 = n /\ n + 1 # 0
    <3>1. Good(n) /\ n \in 0..Len(ts) - 1
      BY <1>3
    <3> HIDE DEF Good
    <3>2. n + 1 \in 1..Len(ts) /\ n \in Nat /\ n + 1 - 1 = n /\ n + 1 # 0
      BY <1>0, <3>1
    <3> QED BY <1>0, <3>1, <3>2
  <2>1. f[n + 1] = IF now - ts[n + 1] < RateWindow THEN Append(f[n], ts[n + 1]) ELSE f[n]
    <3>1. n + 1 \in 0..Len(ts)
      BY <2>0
    <3> QED BY <1>1, <2>0, <3>1 DEF KeptOf
  <2>2. ASSUME NEW S
        PROVE  /\ First(n + 1, S) = First(n, S) \cup (IF ts[n + 1] \in S THEN {n + 1} ELSE {})
               /\ n + 1 \notin First(n, S) /\ IsFiniteSet(First(n, S))
    <3>1. IsFiniteSet(1..n) /\ First(n, S) \in SUBSET (1..n)
      BY <2>0, FS_Interval
    <3>2. IsFiniteSet(First(n, S))
      BY <3>1, FS_Subset
    <3> QED BY <2>0, <3>2
  <2> HIDE DEF First
  <2>3. CASE ~(now - ts[n + 1] < RateWindow)
    <3>1. f[n + 1] = f[n]
      BY <2>1, <2>3
    <3>2. \A i \in DOMAIN f[n] : \E j \in 1..n + 1 : f[n][i] = ts[j]
      BY <2>0
    <3>3. ASSUME NEW S \in SUBSET Nat, \A u \in S : now - u < RateWindow
          PROVE  Cardinality(At(f[n], S)) = Cardinality(First(n + 1, S))
      <4>1. ts[n + 1] \notin S
        BY <2>3, <3>3
      <4>2. First(n + 1, S) = First(n, S)
        BY <2>2, <4>1
      <4> QED BY <2>0, <3>3, <4>2
    <3>4. From(n + 1) /\ Same(n + 1)
      BY <3>1, <3>2, <3>3
    <3>5. Good(n + 1)
      <4> HIDE DEF From, Same
      <4> QED BY <2>0, <3>1, <3>4
    <3> HIDE DEF Good
    <3> QED BY <2>0, <3>5
  <2>4. CASE now - ts[n + 1] < RateWindow
    <3>0. PICK g : g = f[n]
      OBVIOUS
    <3>1. PICK a : a = Append(g, ts[n + 1])
      OBVIOUS
    <3>2. PICK k : k = Len(g)
      OBVIOUS
    <3>3. f[n + 1] = a /\ g \in Seq(Nat)
      BY <2>0, <2>1, <2>4, <3>0, <3>1
    <3>4. /\ a \in Seq(Nat) /\ a[k + 1] = ts[n + 1] /\ \A i \in DOMAIN g : a[i] = g[i]
          /\ DOMAIN a = 1..k + 1 /\ DOMAIN g = 1..k /\ k \in Nat
          /\ \A S : At(a, S) = At(g, S) \cup (IF ts[n + 1] \in S THEN {k + 1} ELSE {})
      <4>1. PICK t : t = ts[n + 1]
        OBVIOUS
      <4>2. t \in Nat /\ a = Append(g, t)
        BY <2>0, <3>1, <4>1
      <4>3. /\ a \in Seq(Nat) /\ a[Len(g) + 1] = t /\ \A i \in DOMAIN g : a[i] = g[i]
            /\ DOMAIN a = 1..Len(g) + 1 /\ DOMAIN g = 1..Len(g) /\ Len(g) \in Nat
        BY <3>3, <4>2
      <4>4. \A S : At(a, S) = At(g, S) \cup (IF t \in S THEN {Len(g) + 1} ELSE {})
        BY <3>3, <4>2, AppendAt
      <4> QED BY <3>2, <4>1, <4>3, <4>4
    <3>5. \A i \in 1..k : \E j \in 1..n : a[i] = ts[j]
      <4>1. \A i \in DOMAIN g : \E j \in 1..n : g[i] = ts[j]
        BY <2>0, <3>0, Zenon
      <4>2. \A i \in 1..k : a[i] = g[i] /\ i \in DOMAIN g
        BY <3>4
      <4> QED BY <4>1, <4>2, Zenon
    <3>6. \A i \in DOMAIN a : \E j \in 1..n + 1 : a[i] = ts[j]
      <4>1. n + 1 \in 1..n + 1 /\ 1..n \subseteq 1..n + 1
        BY <2>0
      <4>2. \A i \in DOMAIN a : i \in 1..k \/ i = k + 1
        BY <3>4
      <4> QED BY <3>4, <3>5, <4>1, <4>2
    <3>7. ASSUME NEW R, Sorted(ts, R) PROVE Sorted(a, R)
      <4>0. Sorted(g, R)
        BY <2>0, <3>0, <3>7
      <4>1. ASSUME NEW i \in 1..k, NEW j \in 1..k, i < j PROVE <<a[i], a[j]>> \in R
        BY <3>4, <4>0, <4>1 DEF Sorted
      <4>2. ASSUME NEW i \in 1..k PROVE <<a[i], a[k + 1]>> \in R
        <5>1. PICK j \in 1..n : a[i] = ts[j]
          BY <3>5
        <5>2. j \in 1..Len(ts) /\ j < n + 1
          <6>1. n + 1 <= Len(ts) /\ n \in Nat /\ Len(ts) \in Nat
            BY <1>0, <2>0
          <6> QED BY <5>1, <6>1
        <5>3. <<ts[j], ts[n + 1]>> \in R
          BY <1>0, <2>0, <3>7, <5>2 DEF Sorted
        <5> QED BY <3>4, <5>1, <5>3
      <4>3. ASSUME NEW i \in DOMAIN a, NEW j \in DOMAIN a, i < j PROVE <<a[i], a[j]>> \in R
        <5>1. i \in 1..k /\ (j \in 1..k \/ j = k + 1)
          BY <3>4, <4>3
        <5> QED BY <4>1, <4>2, <4>3, <5>1
      <4> QED BY <4>3 DEF Sorted
    <3>8. ASSUME NEW S \in SUBSET Nat, \A u \in S : now - u < RateWindow
          PROVE  Cardinality(At(a, S)) = Cardinality(First(n + 1, S))
      <4>1. Cardinality(At(g, S)) = Cardinality(First(n, S))
        BY <2>0, <3>0, <3>8
      <4>2. IsFiniteSet(At(g, S)) /\ k + 1 \notin At(g, S)
        <5>1. k + 1 \notin At(g, S)
          BY <3>4 DEF At
        <5> QED BY <3>3, <5>1, AtFinite
      <4>3. CASE ts[n + 1] \in S
        <5>1. At(a, S) = At(g, S) \cup {k + 1} /\ First(n + 1, S) = First(n, S) \cup {n + 1}
          BY <2>2, <3>4, <4>3
        <5>2. Cardinality(At(a, S)) = Cardinality(At(g, S)) + 1
          BY <4>2, <5>1, FS_AddElement
        <5>3. Cardinality(First(n + 1, S)) = Cardinality(First(n, S)) + 1
          BY <2>2, <5>1, FS_AddElement
        <5> QED BY <4>1, <5>2, <5>3
      <4>4. CASE ts[n + 1] \notin S
        <5>1. At(a, S) = At(g, S) /\ First(n + 1, S) = First(n, S)
          BY <2>2, <3>4, <4>4
        <5> QED BY <4>1, <5>1
      <4> QED BY <4>3, <4>4
    <3>9. From(n + 1) /\ Same(n + 1)
      BY <3>3, <3>6, <3>8
    <3>10. Good(n + 1)
      <4> HIDE DEF From, Same
      <4> QED BY <3>3, <3>4, <3>7, <3>9
    <3> HIDE DEF Good
    <3> QED BY <2>0, <3>10
  <2> QED BY <2>3, <2>4
<1>4. Len(ts) \in Reach
  <2> HIDE DEF Reach
  <2>1. 0..Len(ts) \subseteq Reach
    BY <1>0, <1>2, <1>3, Upwards
  <2> QED BY <1>0, <2>1
<1>5. \A S : First(Len(ts), S) = At(ts, S)
  BY <1>0 DEF At
<1>6. Good(Len(ts))
  <2> HIDE DEF Good
  <2> QED BY <1>4
<1>7. PICK w : w = Within(ts, now)
  OBVIOUS
<1>8. /\ w \in Seq(Nat) /\ w = f[Len(ts)]
      /\ \A R : Sorted(ts, R) => Sorted(w, R)
  BY <1>1, <1>6, <1>7
<1>9. Near(ts) => Near(w)
  BY <1>8, NearSorted
<1> QED BY <1>0, <1>1, <1>5, <1>6, <1>7, <1>8, <1>9

\* The calls let in are appended with the time their thread read.
Longer(e, ts, n, now) ==
    /\ e \in Seq(Nat) /\ DOMAIN e = 1..Len(ts) + n
    /\ \A i \in DOMAIN ts : e[i] = ts[i]
    /\ \A i \in Len(ts) + 1..Len(ts) + n : e[i] = now

Below(ts, t) == \A i \in DOMAIN ts : ts[i] <= t

LEMMA ExtendedIs ==
    ASSUME NEW ts \in Seq(Nat), NEW now \in Nat, NEW n \in Nat, NEW e, e = ts \o [i \in 1..n |-> now]
    PROVE  Longer(e, ts, n, now)
<1>1. PICK u : u = [i \in 1..n |-> now]
  OBVIOUS
<1>2. PICK k : k = Len(ts)
  OBVIOUS
<1>3. u \in Seq(Nat) /\ Len(u) = n /\ DOMAIN u = 1..n /\ \A i \in 1..n : u[i] = now
  BY <1>1
<1>4. /\ e \in Seq(Nat) /\ k \in Nat /\ DOMAIN ts = 1..k /\ DOMAIN e = 1..k + n
      /\ \A i \in 1..k : e[i] = ts[i]
      /\ \A i \in k + 1..k + n : e[i] = u[i - k]
  BY <1>1, <1>2, <1>3
<1>5. \A i \in k + 1..k + n : e[i] = now
  <2> SUFFICES ASSUME NEW i \in k + 1..k + n PROVE e[i] = now
    OBVIOUS
  <2>1. i - k \in 1..n
    BY <1>4
  <2> QED BY <1>3, <1>4, <2>1
<1> QED BY <1>2, <1>4, <1>5 DEF Longer

LEMMA ExtendedNear ==
    ASSUME NEW ts \in Seq(Nat), NEW now \in Nat, NEW n \in Nat, NEW e, Longer(e, ts, n, now),
           Near(ts), Below(ts, now + MaxLag)
    PROVE  Near(e)
<1>1. PICK k : k = Len(ts)
  OBVIOUS
<1>2. /\ DOMAIN ts = 1..k /\ DOMAIN e = 1..k + n /\ k \in Nat /\ MaxLag \in Nat
      /\ \A i \in 1..k : e[i] = ts[i] /\ ts[i] \in Nat
      /\ \A i \in k + 1..k + n : e[i] = now
  <2>1. MaxLag \in Nat
    BY DoorAssumption
  <2>2. k \in Nat /\ DOMAIN ts = 1..k /\ \A i \in 1..k : ts[i] \in Nat
    BY <1>1
  <2> QED BY <1>1, <2>1, <2>2 DEF Longer
<1>3. ASSUME NEW i \in DOMAIN e, NEW j \in DOMAIN e, i < j PROVE e[i] <= e[j] + MaxLag
  <2>1. CASE j \in 1..k
    <3>1. i \in 1..k
      BY <1>2, <1>3, <2>1
    <3> QED BY <1>2, <1>3, <2>1, <3>1 DEF Near
  <2>2. CASE j \in k + 1..k + n /\ i \in 1..k
    BY <1>2, <2>2 DEF Below
  <2>3. CASE j \in k + 1..k + n /\ i \in k + 1..k + n
    BY <1>2, <2>3
  <2> QED BY <1>2, <2>1, <2>2, <2>3
<1> QED BY <1>3 DEF Near

LEMMA ExtendedAt ==
    ASSUME NEW ts \in Seq(Nat), NEW now \in Nat, NEW n \in Nat, NEW e, Longer(e, ts, n, now), NEW S
    PROVE  /\ now \in S => Cardinality(At(e, S)) = Cardinality(At(ts, S)) + n
           /\ now \notin S => Cardinality(At(e, S)) = Cardinality(At(ts, S))
<1>1. PICK k : k = Len(ts)
  OBVIOUS
<1>2. /\ DOMAIN ts = 1..k /\ DOMAIN e = 1..k + n /\ k \in Nat
      /\ \A i \in 1..k : e[i] = ts[i]
      /\ \A i \in k + 1..k + n : e[i] = now
  BY <1>1 DEF Longer
<1>3. \A i : i \in At(e, S) <=> i \in At(ts, S) \/ (i \in k + 1..k + n /\ now \in S)
  <2>1. \A i : i \in DOMAIN e <=> i \in 1..k \/ i \in k + 1..k + n
    BY <1>2
  <2>2. \A i : ~(i \in 1..k /\ i \in k + 1..k + n)
    BY <1>2
  <2> QED BY <1>2, <2>1, <2>2 DEF At
<1>4. IsFiniteSet(At(ts, S)) /\ Cardinality(At(ts, S)) \in Nat
  BY AtFinite
<1>5. CASE now \in S
  <2>1. At(e, S) = At(ts, S) \cup (k + 1..k + n)
    BY <1>3, <1>5
  <2>2. At(ts, S) \cap (k + 1..k + n) = {}
    BY <1>2 DEF At
  <2>3. IsFiniteSet(k + 1..k + n) /\ Cardinality(k + 1..k + n) = n
    <3>1. PICK a, b : a = k + 1 /\ b = k + n
      OBVIOUS
    <3>2. a \in Int /\ b \in Int /\ (IF a > b THEN 0 ELSE b - a + 1) = n
      BY <1>2, <3>1
    <3>3. IsFiniteSet(a..b) /\ Cardinality(a..b) = IF a > b THEN 0 ELSE b - a + 1
      BY <3>2, FS_Interval
    <3> QED BY <3>1, <3>2, <3>3
  <2>4. Cardinality(At(e, S)) = Cardinality(At(ts, S)) + n - Cardinality({})
    <3>1. PICK A, B : A = At(ts, S) /\ B = k + 1..k + n
      OBVIOUS
    <3>2. IsFiniteSet(A) /\ IsFiniteSet(B) /\ A \cap B = {} /\ At(e, S) = A \cup B
      BY <1>4, <2>1, <2>2, <2>3, <3>1
    <3>3. Cardinality(A \cup B) = Cardinality(A) + Cardinality(B) - Cardinality(A \cap B)
      BY <3>2, FS_Union
    <3> QED BY <2>3, <3>1, <3>2, <3>3
  <2> QED BY <1>4, <1>5, <2>4, FS_EmptySet
<1>6. CASE now \notin S
  <2>1. At(e, S) = At(ts, S)
    BY <1>3, <1>6
  <2> QED BY <1>4, <1>6, <2>1
<1> QED BY <1>5, <1>6

-----------------------------------------------------------------------------
(* The calls let in.                                                       *)

Bodied == [token : BOOLEAN, readable : BOOLEAN, messages : Seq(Message)]
Statuses == {"unsent", "waiting", "401", "400", "413", "429", "200", "202"}
Ran(r) == post[r] \in {"200", "202"}
Calling(r) == {r} \X DOMAIN Those(body[r], CallKind)

LEMMA ThoseIn ==
    ASSUME NEW b \in Bodied, NEW kinds
    PROVE  /\ IsFiniteSet(DOMAIN Those(b, kinds)) /\ Cardinality(DOMAIN Those(b, kinds)) \in Nat
           /\ DOMAIN Those(b, kinds) \subseteq DOMAIN b.messages
           /\ \A i \in DOMAIN Those(b, kinds) : Those(b, kinds)[i] = b.messages[i] /\ b.messages[i] \in kinds
<1>1. DOMAIN Those(b, kinds) = {j \in DOMAIN b.messages : b.messages[j] \in kinds}
  BY DEF Those
<1>2. DOMAIN b.messages = 1..Len(b.messages) /\ Len(b.messages) \in Nat
  BY DEF Bodied
<1>3. IsFiniteSet(1..Len(b.messages))
  BY <1>2, FS_Interval
<1>4. DOMAIN Those(b, kinds) \in SUBSET (1..Len(b.messages))
  BY <1>1, <1>2
<1> QED BY <1>1, <1>2, <1>3, <1>4, FS_Subset, FS_CardinalityType DEF Those

\* As many calls as the door counts.
LEMMA CallingSize ==
    ASSUME NEW r, body[r] \in Bodied
    PROVE  /\ IsFiniteSet(Calling(r)) /\ Cardinality(Calling(r)) = CallsIn(body[r]) /\ CallsIn(body[r]) \in Nat
           /\ CallsIn(body[r]) = 0 => Calling(r) = {}
<1>1. PICK D : D = DOMAIN Those(body[r], CallKind)
  OBVIOUS
<1>2. IsFiniteSet(D) /\ Cardinality(D) \in Nat /\ CallsIn(body[r]) = Cardinality(D)
  BY <1>1, ThoseIn DEF CallsIn
<1>3. IsFiniteSet({r}) /\ Cardinality({r}) = 1
  BY FS_Singleton
<1>4. IsFiniteSet({r} \X D) /\ Cardinality({r} \X D) = Cardinality({r}) * Cardinality(D)
  BY <1>2, <1>3, FS_Product
<1>5. Cardinality(D) = 0 => {r} \X D = {}
  BY <1>2, FS_EmptySet
<1> QED BY <1>1, <1>2, <1>3, <1>4, <1>5 DEF Calling

LEMMA LetInIs ==
    \A c, S : LetIn(c, S) = UNION {Calling(q) : q \in {x \in Posts : from[x] = c /\ readAt[x] \in S /\ Ran(x)}}
  BY DEF LetIn, Calling, Ran

\* One request moves, and what it holds is let in or is not.
LEMMA LetInGoesOn ==
    ASSUME NEW r \in Posts, ~Ran(r),
           \A q \in Posts : q # r => /\ post'[q] = post[q] /\ from'[q] = from[q]
                                     /\ body'[q] = body[q] /\ readAt'[q] = readAt[q],
           NEW c, NEW S
    PROVE  LetIn(c, S)' = LetIn(c, S) \cup (IF from'[r] = c /\ readAt'[r] \in S /\ Ran(r)'
                                             THEN Calling(r)' ELSE {})
<1>1. \A q \in Posts : q # r => Calling(q)' = Calling(q) /\ (Ran(q)' <=> Ran(q))
  BY DEF Calling, Ran
<1>2. LetIn(c, S) = UNION {Calling(q) : q \in {x \in Posts : from[x] = c /\ readAt[x] \in S /\ Ran(x)}}
  BY DEF LetIn, Calling, Ran
<1>3. LetIn(c, S)' = UNION {Calling(q)' : q \in {x \in Posts : from'[x] = c /\ readAt'[x] \in S /\ Ran(x)'}}
  BY DEF LetIn, Calling, Ran
<1>4. ASSUME NEW e PROVE e \in LetIn(c, S)' <=> \/ e \in LetIn(c, S)
                                                 \/ /\ from'[r] = c /\ readAt'[r] \in S /\ Ran(r)'
                                                    /\ e \in Calling(r)'
  <2>1. e \in LetIn(c, S) <=> \E q \in Posts : from[q] = c /\ readAt[q] \in S /\ Ran(q) /\ e \in Calling(q)
    BY <1>2
  <2>2. e \in LetIn(c, S)' <=> \E q \in Posts : from'[q] = c /\ readAt'[q] \in S /\ Ran(q)' /\ e \in Calling(q)'
    BY <1>3
  <2> QED BY <1>1, <2>1, <2>2
<1> QED BY <1>4

-----------------------------------------------------------------------------
(* What the window remembers.                                              *)

\* The times that no reading of the clock can have put out of the window.
Live(S) == \A u \in S : clock + MaxLag < u + RateWindow

RequestsOK ==
    /\ clock \in Nat
    /\ DOMAIN post = Posts /\ DOMAIN from = Posts /\ DOMAIN body = Posts /\ DOMAIN readAt = Posts
    /\ \A r \in Posts :
          /\ post[r] \in Statuses /\ body[r] \in Bodied
          /\ readAt[r] \in Nat /\ readAt[r] <= clock
          /\ post[r] = "waiting" => from[r] \in Callers /\ clock <= readAt[r] + MaxLag

WindowOK ==
    /\ calls \in [Callers -> Seq(Nat)]
    /\ \A c \in Callers : /\ Near(calls[c])
                          /\ \A i \in DOMAIN calls[c] : calls[c][i] <= clock
                          /\ c \notin tracked => calls[c] = <<>>

\* The calls let in at such a time are in their address's entry.
Remembered ==
    \A c \in Callers :
        /\ \A S : IsFiniteSet(LetIn(c, S))
        /\ \A S \in SUBSET Nat : Live(S) => Cardinality(LetIn(c, S)) <= Cardinality(At(calls[c], S))

\* What no lag loosens, of RateHeld.
InnerHeld ==
    \A c \in Callers, t \in 0..MaxClock :
        Cardinality(LetIn(c, t..(t + RateWindow - 2 * MaxLag - 1))) <= RateLimit

Counting == RequestsOK /\ WindowOK /\ Remembered /\ InnerHeld

LEMMA ReceiveCounts ==
    ASSUME Counting, NEW r \in Posts, NEW c \in Callers, NEW b \in Bodies[r], Receive(r, c, b)
    PROVE  Counting'
<1>1. /\ post[r] = "unsent" /\ UNCHANGED <<clock, calls, tracked>>
      /\ from' = [from EXCEPT ![r] = c] /\ body' = [body EXCEPT ![r] = b]
      /\ readAt' = [readAt EXCEPT ![r] = clock]
  BY DEF Receive
<1>2. /\ DOMAIN post = Posts /\ DOMAIN from = Posts /\ DOMAIN body = Posts /\ DOMAIN readAt = Posts
      /\ clock \in Nat /\ MaxLag \in Nat
  BY DoorAssumption DEF Counting, RequestsOK
<1>3. b \in Bodied
  BY DoorAssumption DEF Bodied
<1>4. /\ from'[r] = c /\ body'[r] = b /\ readAt'[r] = clock
      /\ DOMAIN from' = Posts /\ DOMAIN body' = Posts /\ DOMAIN readAt' = Posts
      /\ \A q \in Posts : q # r => from'[q] = from[q] /\ body'[q] = body[q] /\ readAt'[q] = readAt[q]
  BY <1>1, <1>2
<1>5. /\ DOMAIN post' = Posts /\ post'[r] \in Statuses /\ \A q \in Posts : q # r => post'[q] = post[q]
      /\ Ran(r)' => CallsIn(b) = 0
  <2>1. CASE FirstRefusal(b) # "none"
    <3>1. TurnAway(r, FirstRefusal(b))
      BY <1>1, <2>1 DEF Receive
    <3>2. FirstRefusal(b) \in {"401", "400", "413"}
      BY <2>1 DEF FirstRefusal
    <3> QED BY <1>2, <3>1, <3>2 DEF TurnAway, Ran, Statuses
  <2>2. CASE FirstRefusal(b) = "none" /\ CallsIn(b) = 0
    <3>1. Dispatch(r, b)
      BY <1>1, <2>2 DEF Receive
    <3> QED BY <1>2, <2>2, <3>1 DEF Dispatch, Ran, Statuses
  <2>3. CASE FirstRefusal(b) = "none" /\ CallsIn(b) # 0
    <3>1. post' = [post EXCEPT ![r] = "waiting"]
      BY <1>1, <2>3 DEF Receive
    <3> QED BY <1>2, <3>1 DEF Ran, Statuses
  <2> QED BY <2>1, <2>2, <2>3
<1>6. ASSUME NEW d, NEW S PROVE LetIn(d, S)' = LetIn(d, S)
  <2>1. ~Ran(r)
    BY <1>1 DEF Ran
  <2>2. Ran(r)' => Calling(r)' = {}
    <3>1. ASSUME CallsIn(b) = 0 PROVE DOMAIN Those(b, CallKind) = {}
      <4>1. IsFiniteSet(DOMAIN Those(b, CallKind))
        BY <1>3, ThoseIn
      <4> QED BY <3>1, <4>1, FS_EmptySet DEF CallsIn
    <3> QED BY <1>4, <1>5, <3>1 DEF Calling
  <2>3. LetIn(d, S)' = LetIn(d, S) \cup (IF from'[r] = d /\ readAt'[r] \in S /\ Ran(r)'
                                           THEN Calling(r)' ELSE {})
    BY <1>4, <1>5, <2>1, LetInGoesOn
  <2> QED BY <2>2, <2>3
<1>7. RequestsOK'
  <2>1. ASSUME NEW q \in Posts
        PROVE  /\ post'[q] \in Statuses /\ body'[q] \in Bodied
               /\ readAt'[q] \in Nat /\ readAt'[q] <= clock'
               /\ post'[q] = "waiting" => from'[q] \in Callers /\ clock' <= readAt'[q] + MaxLag
    <3>1. CASE q = r
      BY <1>1, <1>2, <1>3, <1>4, <1>5, <3>1
    <3>2. CASE q # r
      BY <1>1, <1>4, <1>5, <3>2 DEF Counting, RequestsOK
    <3> QED BY <3>1, <3>2
  <2> QED BY <1>1, <1>2, <1>4, <1>5, <2>1 DEF RequestsOK
<1>8. WindowOK'
  BY <1>1 DEF Counting, WindowOK, Near
<1>9. Remembered'
  BY <1>1, <1>6 DEF Counting, Remembered, Live
<1>10. InnerHeld'
  BY <1>6 DEF Counting, InnerHeld
<1> QED BY <1>7, <1>8, <1>9, <1>10 DEF Counting

LEMMA TickCounts ==
    ASSUME Counting, DoorTick
    PROVE  Counting'
<1>1. /\ clock' = clock + 1 /\ UNCHANGED <<post, from, body, readAt, calls, tracked>>
      /\ \A r \in Posts : post[r] = "waiting" => clock < readAt[r] + MaxLag
      /\ clock \in Nat /\ MaxLag \in Nat /\ RateWindow \in Nat
  BY DoorAssumption DEF DoorTick, Counting, RequestsOK
<1>2. \A c, S : LetIn(c, S)' = LetIn(c, S)
  BY <1>1 DEF LetIn
<1>3. RequestsOK'
  BY <1>1 DEF Counting, RequestsOK
<1>4. WindowOK'
  <2>1. \A c \in Callers : \A i \in DOMAIN calls[c] : calls[c][i] \in Nat
    BY DEF Counting, WindowOK
  <2>2. \A c \in Callers : \A i \in DOMAIN calls[c] : calls[c][i] <= clock'
    BY <1>1, <2>1 DEF Counting, WindowOK
  <2> QED BY <1>1, <2>2 DEF Counting, WindowOK, Near
<1>5. Remembered'
  <2>1. \A S \in SUBSET Nat : Live(S)' => Live(S)
    BY <1>1 DEF Live
  <2> QED BY <1>1, <1>2, <2>1 DEF Counting, Remembered
<1>6. InnerHeld'
  BY <1>2 DEF Counting, InnerHeld
<1> QED BY <1>3, <1>4, <1>5, <1>6 DEF Counting

\* What an entry is once its calls out of the window are dropped.
Recent(ts, fresh, now) ==
    /\ fresh \in Seq(Nat)
    /\ \A S \in SUBSET Nat : (\A u \in S : now - u < RateWindow) =>
          Cardinality(At(fresh, S)) = Cardinality(At(ts, S))

LEMMA RecentIs ==
    ASSUME Counting, NEW c \in Callers, NEW now \in Nat, now <= clock, NEW fresh, fresh = Within(calls[c], now)
    PROVE  Recent(calls[c], fresh, now) /\ Near(fresh) /\ Below(fresh, clock)
<1>1. PICK ts : ts = calls[c]
  OBVIOUS
<1>2. ts \in Seq(Nat) /\ Near(ts) /\ \A i \in DOMAIN ts : ts[i] <= clock
  BY <1>1 DEF Counting, WindowOK
<1>3. /\ fresh \in Seq(Nat) /\ \A i \in DOMAIN fresh : \E j \in DOMAIN ts : fresh[i] = ts[j]
      /\ Near(ts) => Near(fresh)
  BY <1>1, <1>2, WithinIs
<1>4. \A S \in SUBSET Nat : (\A u \in S : now - u < RateWindow) =>
                 Cardinality(At(fresh, S)) = Cardinality(At(ts, S))
  BY <1>1, <1>2, WithinIs
<1>5. Recent(ts, fresh, now)
  BY <1>3, <1>4 DEF Recent
<1>6. Near(fresh) /\ Below(fresh, clock)
  BY <1>2, <1>3 DEF Below
<1> QED BY <1>1, <1>5, <1>6

\* The calls do not fit: the request is turned away.
LEMMA RejectCounts ==
    ASSUME Counting, NEW r \in Posts, NEW c, c = from[r], NEW now, now = readAt[r],
           post[r] = "waiting", TurnAway(r, "429"), UNCHANGED <<clock, from, body, readAt>>,
           calls' = [calls EXCEPT ![c] = Within(calls[c], now)], tracked' = tracked \cup {c}
    PROVE  Counting'
<1>1. /\ c \in Callers /\ now \in Nat /\ now <= clock /\ clock <= now + MaxLag /\ clock \in Nat
      /\ MaxLag \in Nat /\ RateWindow \in Nat /\ DOMAIN post = Posts
  BY DoorAssumption DEF Counting, RequestsOK
<1>2. PICK fresh : fresh = Within(calls[c], now)
  OBVIOUS
<1>3. /\ fresh \in Seq(Nat) /\ Near(fresh) /\ \A i \in DOMAIN fresh : fresh[i] <= clock
      /\ \A S \in SUBSET Nat : (\A u \in S : now - u < RateWindow) =>
            Cardinality(At(fresh, S)) = Cardinality(At(calls[c], S))
  <2>1. Recent(calls[c], fresh, now) /\ Near(fresh) /\ Below(fresh, clock)
    BY <1>1, <1>2, RecentIs
  <2> QED BY <2>1 DEF Recent, Below
<1>4. post' = [post EXCEPT ![r] = "429"]
  BY DEF TurnAway
<1>5. ASSUME NEW d, NEW S PROVE LetIn(d, S)' = LetIn(d, S)
  <2>1. ~Ran(r) /\ ~Ran(r)'
    BY <1>1, <1>4 DEF Ran
  <2>2. \A q \in Posts : q # r => /\ post'[q] = post[q] /\ from'[q] = from[q]
                                  /\ body'[q] = body[q] /\ readAt'[q] = readAt[q]
    BY <1>1, <1>4
  <2>3. LetIn(d, S)' = LetIn(d, S) \cup (IF from'[r] = d /\ readAt'[r] \in S /\ Ran(r)'
                                           THEN Calling(r)' ELSE {})
    BY <2>1, <2>2, LetInGoesOn
  <2> QED BY <2>1, <2>3
<1>6. RequestsOK'
  BY <1>1, <1>4 DEF Counting, RequestsOK, Statuses
<1>7. calls'[c] = fresh /\ \A d \in Callers : d # c => calls'[d] = calls[d]
  BY <1>1, <1>2 DEF Counting, WindowOK
<1>8. WindowOK'
  <2>1. calls' \in [Callers -> Seq(Nat)]
    BY <1>1, <1>2, <1>3 DEF Counting, WindowOK
  <2>2. ASSUME NEW d \in Callers
        PROVE  /\ Near(calls'[d]) /\ \A i \in DOMAIN calls'[d] : calls'[d][i] <= clock'
               /\ d \notin tracked' => calls'[d] = <<>>
    <3>1. CASE d = c
      BY <1>3, <1>7, <3>1
    <3>2. CASE d # c
      BY <1>7, <3>2 DEF Counting, WindowOK
    <3> QED BY <3>1, <3>2
  <2> QED BY <2>1, <2>2 DEF WindowOK, Near
<1>9. Remembered'
  <2>1. ASSUME NEW d \in Callers, NEW S \in SUBSET Nat, Live(S)
        PROVE  Cardinality(LetIn(d, S)) <= Cardinality(At(calls'[d], S))
    <3>1. Cardinality(LetIn(d, S)) <= Cardinality(At(calls[d], S))
      BY <2>1 DEF Counting, Remembered
    <3>2. CASE d = c
      <4>1. \A u \in S : now - u < RateWindow
        BY <1>1, <2>1 DEF Live
      <4> QED BY <1>3, <1>7, <3>1, <3>2, <4>1
    <3>3. CASE d # c
      BY <1>7, <3>1, <3>3
    <3> QED BY <3>2, <3>3
  <2>2. \A d \in Callers : \A S : IsFiniteSet(LetIn(d, S))
    BY DEF Counting, Remembered
  <2>3. \A S : Live(S)' <=> Live(S)
    BY DEF Live
  <2> QED BY <1>5, <2>1, <2>2, <2>3 DEF Remembered, At
<1>10. InnerHeld'
  BY <1>5 DEF Counting, InnerHeld
<1> QED BY <1>6, <1>8, <1>9, <1>10 DEF Counting

\* Every time of an entry the clean-up forgets is out of the window, and by a
\* lag more than its last one.
LEMMA Forgotten ==
    ASSUME NEW ts \in Seq(Nat), Near(ts), NEW now \in Nat, now <= clock, clock \in Nat, ~Seen(ts, now)
    PROVE  \A i \in DOMAIN ts : ts[i] + RateWindow <= clock + MaxLag
<1> SUFFICES ASSUME NEW i \in DOMAIN ts PROVE ts[i] + RateWindow <= clock + MaxLag
  OBVIOUS
<1>1. Len(ts) \in Nat /\ DOMAIN ts = 1..Len(ts) /\ ts # <<>> /\ Len(ts) \in 1..Len(ts)
      /\ ts[i] \in Nat /\ ts[Len(ts)] \in Nat /\ MaxLag \in Nat /\ RateWindow \in Nat
  BY DoorAssumption
<1>2. ts[i] <= ts[Len(ts)] + MaxLag
  BY <1>1 DEF Near
<1>3. now - ts[Len(ts)] >= RateWindow
  BY <1>1 DEF Seen
<1> QED BY <1>1, <1>2, <1>3

\* An address's entry once calls that fit are let in.
LEMMA EntryIs ==
    ASSUME Counting, NEW c \in Callers, NEW now \in Nat, now <= clock, clock <= now + MaxLag, clock \in Nat,
           NEW n \in Nat, NEW fresh, fresh = Within(calls[c], now), NEW e, e = fresh \o [i \in 1..n |-> now]
    PROVE  Recent(calls[c], fresh, now) /\ Longer(e, fresh, n, now) /\ Near(e) /\ Below(e, clock)
<1>1. PICK w : w = Within(calls[c], now)
  OBVIOUS
<1>2. w = fresh
  BY <1>1
<1>3. /\ fresh \in Seq(Nat) /\ Near(fresh) /\ Below(fresh, clock)
      /\ Recent(calls[c], fresh, now)
  <2>1. Near(w) /\ Below(w, clock) /\ Recent(calls[c], w, now)
    BY <1>1, RecentIs
  <2>2. w \in Seq(Nat)
    BY <2>1 DEF Recent
  <2> QED BY <1>2, <2>1, <2>2
<1>4. Below(fresh, now + MaxLag)
  <2>1. MaxLag \in Nat /\ \A i \in DOMAIN fresh : fresh[i] \in Nat
    BY <1>3, DoorAssumption
  <2> QED BY <1>3, <2>1 DEF Below
<1>5. Longer(e, fresh, n, now)
  BY <1>3, ExtendedIs
<1>6. Near(e)
  BY <1>3, <1>4, <1>5, ExtendedNear
<1>7. Below(e, clock)
  <2>1. PICK k : k = Len(fresh)
    OBVIOUS
  <2>2. /\ DOMAIN e = 1..k + n /\ DOMAIN fresh = 1..k /\ k \in Nat
        /\ \A i \in DOMAIN fresh : e[i] = fresh[i]
        /\ \A i \in k + 1..k + n : e[i] = now
    BY <1>3, <1>5, <2>1 DEF Longer
  <2>3. \A i \in DOMAIN e : i \in 1..k \/ i \in k + 1..k + n
    BY <2>2
  <2> QED BY <1>3, <2>2, <2>3 DEF Below
<1> QED BY <1>3, <1>5, <1>6, <1>7

\* Admit, by the names of what it computes.
Admitted(r, c, now, n, fresh, e, known, all, kept) ==
    /\ c = from[r] /\ now = readAt[r] /\ n = CallsIn(body[r])
    /\ post[r] = "waiting" /\ UNCHANGED <<clock, from, body, readAt>>
    /\ fresh = Within(calls[c], now) /\ e = fresh \o [i \in 1..n |-> now]
    /\ known = [calls EXCEPT ![c] = e] /\ all = tracked \cup {c}
    /\ kept \subseteq all /\ \A d \in all : d \notin kept => ~Seen(known[d], now)
    /\ IF Fits(fresh, n)
       THEN /\ Dispatch(r, body[r])
            /\ calls' = [d \in Callers |-> IF d \in kept THEN known[d] ELSE <<>>]
            /\ tracked' = kept
       ELSE /\ TurnAway(r, "429")
            /\ calls' = [calls EXCEPT ![c] = fresh]
            /\ tracked' = all

LEMMA AdmitIs ==
    ASSUME NEW r \in Posts, Admit(r)
    PROVE  \E c, now, n, fresh, e, known, all, kept : Admitted(r, c, now, n, fresh, e, known, all, kept)
<1> DEFINE theCaller == from[r]
           theTime   == readAt[r]
           theCalls  == CallsIn(body[r])
           theRecent == Within(calls[theCaller], theTime)
           theEntry  == theRecent \o [i \in 1..theCalls |-> theTime]
           theKnown  == [calls EXCEPT ![theCaller] = theEntry]
           theAll    == tracked \cup {theCaller}
           theKept   == IF Cardinality(theAll) > MaxTracked
                        THEN {d \in theAll : Seen(theKnown[d], theTime)} ELSE theAll
<1>1. IF Fits(theRecent, theCalls)
      THEN /\ Dispatch(r, body[r])
           /\ calls' = [d \in Callers |-> IF d \in theKept THEN theKnown[d] ELSE <<>>]
           /\ tracked' = theKept
      ELSE /\ TurnAway(r, "429")
           /\ calls' = [calls EXCEPT ![theCaller] = theRecent]
           /\ tracked' = theAll
  BY DEF Admit
<1>2. post[r] = "waiting" /\ UNCHANGED <<clock, from, body, readAt>>
  BY DEF Admit
<1>3. theKept \subseteq theAll /\ \A d \in theAll : d \notin theKept => ~Seen(theKnown[d], theTime)
  <2> HIDE DEF theKnown, theTime
  <2> QED OBVIOUS
<1>4. Admitted(r, theCaller, theTime, theCalls, theRecent, theEntry, theKnown, theAll, theKept)
  <2> HIDE DEF theKept
  <2> QED BY <1>1, <1>2, <1>3 DEF Admitted
<1> HIDE DEF theCaller, theTime, theCalls, theRecent, theEntry, theKnown, theAll, theKept
<1> QED BY <1>4

\* What the calls let in are once a request's are.
LEMMA LetInAdmitted ==
    ASSUME Counting, NEW r \in Posts, post[r] = "waiting", Dispatch(r, body[r]),
           UNCHANGED <<from, body, readAt>>
    PROVE  /\ post'[r] \in {"200", "202"} /\ DOMAIN post' = Posts
           /\ \A q \in Posts : q # r => post'[q] = post[q]
           /\ \A d, S : from[r] # d \/ readAt[r] \notin S => LetIn(d, S)' = LetIn(d, S)
           /\ \A S : /\ IsFiniteSet(LetIn(from[r], S)') /\ Cardinality(LetIn(from[r], S)) \in Nat
                     /\ Cardinality(LetIn(from[r], S)') \in Nat
                     /\ Cardinality(LetIn(from[r], S)') <=
                           Cardinality(LetIn(from[r], S)) + (IF readAt[r] \in S THEN CallsIn(body[r]) ELSE 0)
<1>1. PICK c, now, n : c = from[r] /\ now = readAt[r] /\ n = CallsIn(body[r])
  OBVIOUS
<1>2. c \in Callers /\ DOMAIN post = Posts /\ body[r] \in Bodied
  BY <1>1 DEF Counting, RequestsOK
<1>3. IsFiniteSet(Calling(r)) /\ Cardinality(Calling(r)) = n /\ n \in Nat
  BY <1>1, <1>2, CallingSize
<1>4. post'[r] \in {"200", "202"} /\ DOMAIN post' = Posts /\ \A q \in Posts : q # r => post'[q] = post[q]
  BY <1>2 DEF Dispatch
<1>5. ASSUME NEW d, NEW S
      PROVE  LetIn(d, S)' = LetIn(d, S) \cup (IF c = d /\ now \in S THEN Calling(r) ELSE {})
  <2>1. ~Ran(r) /\ Ran(r)' /\ Calling(r)' = Calling(r)
    BY <1>4 DEF Ran, Calling
  <2>2. \A q \in Posts : q # r => /\ post'[q] = post[q] /\ from'[q] = from[q]
                                  /\ body'[q] = body[q] /\ readAt'[q] = readAt[q]
    BY <1>4
  <2>3. LetIn(d, S)' = LetIn(d, S) \cup (IF from'[r] = d /\ readAt'[r] \in S /\ Ran(r)'
                                           THEN Calling(r)' ELSE {})
    BY <2>1, <2>2, LetInGoesOn
  <2> QED BY <1>1, <2>1, <2>3
<1>6. ASSUME NEW S
      PROVE  /\ IsFiniteSet(LetIn(c, S)') /\ Cardinality(LetIn(c, S)) \in Nat
             /\ Cardinality(LetIn(c, S)') <= Cardinality(LetIn(c, S)) + (IF now \in S THEN n ELSE 0)
  <2>1. IsFiniteSet(LetIn(c, S)) /\ Cardinality(LetIn(c, S)) \in Nat
    BY <1>2, FS_CardinalityType DEF Counting, Remembered
  <2>2. CASE now \in S
    <3>1. LetIn(c, S)' = LetIn(c, S) \cup Calling(r)
      BY <1>5, <2>2
    <3>2. /\ IsFiniteSet(LetIn(c, S) \cup Calling(r))
          /\ Cardinality(LetIn(c, S) \cup Calling(r)) =
                Cardinality(LetIn(c, S)) + Cardinality(Calling(r)) - Cardinality(LetIn(c, S) \cap Calling(r))
      BY <1>3, <2>1, FS_Union
    <3>3. Cardinality(LetIn(c, S) \cap Calling(r)) \in Nat
      BY <2>1, FS_Intersection, FS_CardinalityType
    <3> QED BY <1>3, <2>1, <2>2, <3>1, <3>2, <3>3
  <2>3. CASE now \notin S
    <3>1. LetIn(c, S)' = LetIn(c, S)
      BY <1>5, <2>3
    <3> QED BY <2>1, <2>3, <3>1
  <2> QED BY <2>2, <2>3
<1>7. \A d, S : c # d \/ now \notin S => LetIn(d, S)' = LetIn(d, S)
  BY <1>5
<1>8. \A S : Cardinality(LetIn(c, S)') \in Nat
  BY <1>6, FS_CardinalityType
<1> QED BY <1>1, <1>4, <1>6, <1>7, <1>8

\* Calls that fit are let in, and others' entries may be forgotten; calls that
\* do not fit are turned away.
LEMMA AdmitCounts ==
    ASSUME Counting, NEW r \in Posts, Admit(r)
    PROVE  Counting'
<1>1. PICK c, now, n, fresh, e, known, all, kept : Admitted(r, c, now, n, fresh, e, known, all, kept)
  BY AdmitIs
<1>2. /\ c = from[r] /\ now = readAt[r] /\ n = CallsIn(body[r])
      /\ post[r] = "waiting" /\ clock' = clock /\ from' = from /\ body' = body /\ readAt' = readAt
  BY <1>1 DEF Admitted
<1>3. /\ c \in Callers /\ now \in Nat /\ now <= clock /\ clock <= now + MaxLag /\ clock \in Nat
      /\ MaxLag \in Nat /\ RateWindow \in Nat /\ DOMAIN post = Posts /\ body[r] \in Bodied
  BY <1>2, DoorAssumption DEF Counting, RequestsOK
<1>4. n \in Nat
  BY <1>2, <1>3, CallingSize
<1>6. fresh = Within(calls[c], now) /\ e = fresh \o [i \in 1..n |-> now]
  BY <1>1 DEF Admitted
<1>7. known = [calls EXCEPT ![c] = e] /\ all = tracked \cup {c}
  BY <1>1 DEF Admitted
<1>8. kept \subseteq all /\ \A d \in all : d \notin kept => ~Seen(known[d], now)
  BY <1>1 DEF Admitted
<1>10. Recent(calls[c], fresh, now) /\ Longer(e, fresh, n, now) /\ Near(e) /\ Below(e, clock)
  BY <1>3, <1>4, <1>6, EntryIs
<1>11. CASE Fits(fresh, n)
  <2>1. Dispatch(r, body[r])
    BY <1>1, <1>11 DEF Admitted
  <2>2. tracked' = kept
    BY <1>1, <1>11 DEF Admitted
  <2>3. calls' = [d \in Callers |-> IF d \in kept THEN known[d] ELSE <<>>]
    BY <1>1, <1>11 DEF Admitted
  <2>4. kept \subseteq all /\ \A d \in all : d \notin kept => ~Seen(known[d], now)
    BY <1>8
  <2>6. /\ known \in [Callers -> Seq(Nat)] /\ known[c] = e /\ \A d \in Callers : d # c => known[d] = calls[d]
    BY <1>3, <1>7, <1>10 DEF Counting, WindowOK, Longer
  <2>7. post'[r] \in {"200", "202"} /\ DOMAIN post' = Posts /\ \A q \in Posts : q # r => post'[q] = post[q]
    BY <1>2, <2>1, LetInAdmitted
  <2>8. \A S : now \notin S => LetIn(c, S)' = LetIn(c, S)
    BY <1>2, <2>1, LetInAdmitted
  <2>9. \A S : /\ IsFiniteSet(LetIn(c, S)') /\ Cardinality(LetIn(c, S)) \in Nat
              /\ Cardinality(LetIn(c, S)') <= Cardinality(LetIn(c, S)) + (IF now \in S THEN n ELSE 0)
    BY <1>2, <2>1, LetInAdmitted
  <2>10. \A d, S : d # c => LetIn(d, S)' = LetIn(d, S)
    BY <1>2, <2>1, LetInAdmitted
  <2>11. RequestsOK'
    BY <1>2, <1>3, <2>7 DEF Counting, RequestsOK, Statuses
  <2>12. \A d \in Callers : /\ Near(known[d]) /\ \A i \in DOMAIN known[d] : known[d][i] <= clock
                            /\ d \notin all => known[d] = <<>>
    BY <1>7, <1>10, <2>6 DEF Counting, WindowOK, Below
  <2>13. <<>> \in Seq(Nat) /\ DOMAIN <<>> = {} /\ Near(<<>>)
    BY DEF Near
  <2>14. WindowOK'
    <3>1. calls' \in [Callers -> Seq(Nat)]
      BY <2>3, <2>6, <2>13
    <3>2. ASSUME NEW d \in Callers
          PROVE  /\ Near(calls'[d]) /\ \A i \in DOMAIN calls'[d] : calls'[d][i] <= clock'
                 /\ d \notin tracked' => calls'[d] = <<>>
      <4>1. CASE d \in kept
        BY <1>2, <2>2, <2>3, <2>12, <4>1
      <4>2. CASE d \notin kept
        BY <2>2, <2>3, <2>13, <4>2
      <4> QED BY <4>1, <4>2
    <3> QED BY <3>1, <3>2 DEF WindowOK, Near
  <2>15. ASSUME NEW S \in SUBSET Nat, Live(S), NEW d \in Callers
         PROVE  Cardinality(LetIn(d, S)') <= Cardinality(At(known[d], S))
    <3>1. Cardinality(LetIn(d, S)) <= Cardinality(At(calls[d], S))
      BY <2>15 DEF Counting, Remembered
    <3>2. CASE d = c
      <4>1. \A u \in S : now - u < RateWindow
        <5> SUFFICES ASSUME NEW u \in S PROVE now - u < RateWindow
          OBVIOUS
        <5>1. u \in Nat /\ now \in Nat /\ now <= clock /\ clock \in Nat /\ MaxLag \in Nat /\ RateWindow \in Nat
          BY <1>3
        <5>2. clock + MaxLag < u + RateWindow
          BY <2>15 DEF Live
        <5> QED BY <5>1, <5>2
      <4>2. Cardinality(At(fresh, S)) = Cardinality(At(calls[c], S)) /\ Cardinality(At(fresh, S)) \in Nat
        <5>1. Cardinality(At(fresh, S)) = Cardinality(At(calls[c], S))
          BY <1>10, <4>1 DEF Recent
        <5>2. Cardinality(At(fresh, S)) \in Nat
          BY <1>10, AtFinite DEF Recent
        <5> QED BY <5>1, <5>2
      <4>3. /\ now \in S => Cardinality(At(e, S)) = Cardinality(At(fresh, S)) + n
            /\ now \notin S => Cardinality(At(e, S)) = Cardinality(At(fresh, S))
        BY <1>3, <1>4, <1>10, ExtendedAt DEF Recent
      <4>4. Cardinality(LetIn(c, S)') \in Nat
        BY <2>9, FS_CardinalityType
      <4> QED BY <1>4, <2>6, <2>9, <3>1, <3>2, <4>2, <4>3, <4>4
    <3>3. CASE d # c
      BY <2>6, <2>10, <3>1, <3>3
    <3> QED BY <3>2, <3>3
  <2>16. Remembered'
    <3>1. \A S : Live(S)' <=> Live(S)
      BY <1>2 DEF Live
    <3>2. ASSUME NEW S \in SUBSET Nat, Live(S), NEW d \in Callers
          PROVE  Cardinality(LetIn(d, S)') <= Cardinality(At(calls'[d], S))
      <4>1. At(known[d], S) = At(calls'[d], S)
        <5>1. CASE d \in kept
          BY <2>3, <5>1 DEF At
        <5>2. CASE d \notin kept
          <6>1. \A i \in DOMAIN known[d] : known[d][i] \notin S
            <7>1. CASE d \in all
              <8>1. PICK ts : ts = known[d]
                OBVIOUS
              <8>2. ts \in Seq(Nat) /\ Near(ts) /\ ~Seen(ts, now)
                BY <2>4, <2>6, <2>12, <5>2, <7>1, <8>1
              <8>3. \A i \in DOMAIN ts : ts[i] + RateWindow <= clock + MaxLag
                BY <1>3, <8>2, Forgotten
              <8>4. \A i \in DOMAIN ts : ts[i] \in Nat
                BY <8>2
              <8>5. \A i \in DOMAIN ts : ts[i] \notin S
                BY <1>3, <3>2, <8>3, <8>4 DEF Live
              <8> QED BY <8>1, <8>5
            <7>2. CASE d \notin all
              BY <2>12, <2>13, <7>2
            <7> QED BY <7>1, <7>2
          <6>2. At(known[d], S) = {}
            BY <6>1 DEF At
          <6>3. calls'[d] = <<>>
            BY <2>3, <5>2
          <6> QED BY <2>13, <6>2, <6>3 DEF At
        <5> QED BY <5>1, <5>2
      <4> QED BY <2>15, <3>2, <4>1
    <3>3. \A d \in Callers : \A S : IsFiniteSet(LetIn(d, S)')
      BY <2>9, <2>10 DEF Counting, Remembered
    <3> QED BY <3>1, <3>2, <3>3 DEF Remembered, At
  <2>17. InnerHeld'
    <3> SUFFICES ASSUME NEW d \in Callers, NEW t \in 0..MaxClock, NEW S,
                        S = t..(t + RateWindow - 2 * MaxLag - 1)
                 PROVE  Cardinality(LetIn(d, S)') <= RateLimit
      BY DEF InnerHeld
    <3>1. Cardinality(LetIn(d, S)) <= RateLimit
      BY DEF Counting, InnerHeld
    <3>2. CASE d # c
      BY <2>10, <3>1, <3>2
    <3>3. CASE d = c /\ now \notin S
      BY <2>8, <3>1, <3>3
    <3>4. CASE d = c /\ now \in S
      <4>1. t \in Nat /\ RateLimit \in Nat
        BY DoorAssumption
      <4>2. S \in SUBSET Nat
        BY <1>3, <4>1
      <4>3. \A u \in S : clock + MaxLag < u + RateWindow /\ now - u < RateWindow
        BY <1>3, <3>4, <4>1
      <4>4. Cardinality(LetIn(c, S)) <= Cardinality(At(calls[c], S))
        BY <1>3, <4>2, <4>3 DEF Counting, Remembered, Live
      <4>5. /\ Cardinality(At(fresh, S)) = Cardinality(At(calls[c], S)) /\ Cardinality(At(fresh, S)) \in Nat
            /\ Cardinality(At(fresh, S)) <= Len(fresh) /\ Len(fresh) \in Nat
        BY <1>10, <4>2, <4>3, AtFinite DEF Recent
      <4>6. Cardinality(LetIn(c, S)') <= Cardinality(LetIn(c, S)) + n /\ Cardinality(LetIn(c, S)) \in Nat
            /\ IsFiniteSet(LetIn(c, S)')
        BY <2>9, <3>4
      <4>7. Cardinality(LetIn(c, S)') \in Nat
        BY <4>6, FS_CardinalityType
      <4>8. Len(fresh) + n <= RateLimit
        BY <1>11 DEF Fits
      <4> QED BY <1>4, <3>4, <4>1, <4>4, <4>5, <4>6, <4>7, <4>8
    <3> QED BY <3>2, <3>3, <3>4
  <2> QED BY <2>11, <2>14, <2>16, <2>17 DEF Counting
<1>12. CASE ~Fits(fresh, n)
  <2>1. /\ TurnAway(r, "429") /\ tracked' = tracked \cup {c}
        /\ calls' = [calls EXCEPT ![c] = Within(calls[c], now)]
    BY <1>1, <1>6, <1>7, <1>12 DEF Admitted
  <2> QED BY <1>1, <1>2, <2>1, RejectCounts
<1> QED BY <1>11, <1>12

LEMMA CountingInit == DoorInit => Counting
<1> SUFFICES ASSUME DoorInit PROVE Counting
  OBVIOUS
<1>1. Nothing \in Bodied /\ <<>> \in Seq(Nat) /\ DOMAIN <<>> = {}
  BY DEF Nothing, Bodied
<1>2. RequestsOK
  BY <1>1 DEF DoorInit, RequestsOK, Statuses
<1>3. WindowOK
  BY <1>1 DEF DoorInit, WindowOK, Near
<1>4. \A c, S : LetIn(c, S) = {}
  BY DEF LetIn, DoorInit
<1>5. ASSUME NEW c \in Callers, NEW S PROVE At(calls[c], S) = {}
  BY <1>1 DEF At, DoorInit
<1>6. IsFiniteSet({}) /\ Cardinality({}) = 0
  BY FS_EmptySet
<1>7. Remembered
  BY <1>4, <1>5, <1>6 DEF Remembered
<1>8. InnerHeld
  <2>1. 0 <= RateLimit
    BY DoorAssumption
  <2> QED BY <1>4, <1>6, <2>1 DEF InnerHeld
<1> QED BY <1>2, <1>3, <1>7, <1>8 DEF Counting

-----------------------------------------------------------------------------
(* The whole window, of an address whose threads no later reader overtook. *)

Window(t) == t..(t + RateWindow - 1)

Straight(c, t) ==
    ~\E r \in overtaken : from[r] = c /\ readAt[r] \in (t - MaxLag)..(t + RateWindow - 1)

\* No thread that has taken the lock read past the window that starts at t.
Open(t) == \A q \in Posts : Locked(q) => readAt[q] < t + RateWindow

\* A later call of an entry with an older time is of a thread overtaken.
Later(c) ==
    {p \in Nat \X Nat : p[1] <= p[2] \/ \E q \in overtaken : from[q] = c /\ readAt[q] = p[2]}

\* The threads that hold or held the lock, and whose times an entry holds.
LockOK ==
    /\ overtaken \subseteq {q \in Posts : Locked(q)}
    /\ \A q \in Posts : post[q] = "waiting" => CallsIn(body[q]) > 0
    /\ \A c \in Callers : /\ \A i \in DOMAIN calls[c] : \E q \in Posts : Locked(q) /\ readAt[q] = calls[c][i]
                          /\ Sorted(calls[c], Later(c))

\* Until a later reader takes the lock, the entry holds every call let in of the
\* window; after that no call of it is let in.
StraightHeld ==
    \A c \in Callers, t \in 0..MaxClock : Straight(c, t) =>
        /\ Cardinality(LetIn(c, Window(t))) <= RateLimit
        /\ Open(t) => Cardinality(LetIn(c, Window(t))) <= Cardinality(At(calls[c], Window(t)))

Straightened == LockOK /\ StraightHeld

LEMMA ReceiveStraight ==
    ASSUME Counting, Straightened, NEW r \in Posts, NEW c \in Callers, NEW b \in Bodies[r], Receive(r, c, b)
    PROVE  Straightened'
<1>1. /\ post[r] = "unsent" /\ UNCHANGED <<calls, overtaken>> /\ b \in Bodied
      /\ DOMAIN post = Posts /\ DOMAIN from = Posts /\ DOMAIN body = Posts /\ DOMAIN readAt = Posts
  BY DoorAssumption DEF Receive, Counting, RequestsOK, Bodied
<1>2. /\ body'[r] = b
      /\ \A q \in Posts : q # r => /\ from'[q] = from[q] /\ body'[q] = body[q] /\ readAt'[q] = readAt[q]
  BY <1>1 DEF Receive
<1>3. /\ \A q \in Posts : q # r => post'[q] = post[q]
      /\ post'[r] \in {"200", "202"} => CallsIn(b) = 0
      /\ post'[r] # "429"
      /\ post'[r] = "waiting" => CallsIn(b) # 0
  <2>1. CASE FirstRefusal(b) # "none"
    <3>1. TurnAway(r, FirstRefusal(b))
      BY <2>1 DEF Receive
    <3>2. FirstRefusal(b) \in {"401", "400", "413"}
      BY <2>1 DEF FirstRefusal
    <3> QED BY <1>1, <3>1, <3>2 DEF TurnAway
  <2>2. CASE FirstRefusal(b) = "none" /\ CallsIn(b) = 0
    <3>1. Dispatch(r, b)
      BY <2>2 DEF Receive
    <3> QED BY <1>1, <2>2, <3>1 DEF Dispatch
  <2>3. CASE FirstRefusal(b) = "none" /\ CallsIn(b) # 0
    <3>1. post' = [post EXCEPT ![r] = "waiting"]
      BY <2>3 DEF Receive
    <3> QED BY <1>1, <2>3, <3>1
  <2> QED BY <2>1, <2>2, <2>3
<1>4. CallsIn(b) \in Nat
  BY <1>1, ThoseIn DEF CallsIn
<1>5. \A q \in Posts : /\ Locked(q)' <=> Locked(q)
                       /\ Locked(q) => readAt'[q] = readAt[q] /\ from'[q] = from[q]
  <2>1. ~Locked(r) /\ ~Locked(r)'
    BY <1>1, <1>2, <1>3, <1>4 DEF Locked
  <2>2. \A q \in Posts : q # r => (Locked(q)' <=> Locked(q))
    BY <1>2, <1>3 DEF Locked, CallsIn, Those
  <2> QED BY <1>2, <2>1, <2>2
<1>6. \A d, S : LetIn(d, S)' = LetIn(d, S)
  <2>1. ~Ran(r)
    BY <1>1 DEF Ran
  <2>2. Ran(r)' => Calling(r)' = {}
    <3>1. ASSUME CallsIn(b) = 0 PROVE DOMAIN Those(b, CallKind) = {}
      <4>1. IsFiniteSet(DOMAIN Those(b, CallKind))
        BY <1>1, ThoseIn
      <4> QED BY <3>1, <4>1, FS_EmptySet DEF CallsIn
    <3> QED BY <1>2, <1>3, <3>1 DEF Calling, Ran
  <2>3. ASSUME NEW d, NEW S PROVE LetIn(d, S)' = LetIn(d, S)
    <3>1. LetIn(d, S)' = LetIn(d, S) \cup (IF from'[r] = d /\ readAt'[r] \in S /\ Ran(r)'
                                             THEN Calling(r)' ELSE {})
      BY <1>2, <1>3, <2>1, LetInGoesOn
    <3> QED BY <2>2, <3>1
  <2> QED BY <2>3
<1>7. \A q \in overtaken : q \in Posts /\ Locked(q)
  BY DEF Straightened, LockOK
<1>8. \A d : Later(d)' = Later(d)
  BY <1>1, <1>5, <1>7 DEF Later
<1>9. \A q \in Posts : post'[q] = "waiting" => CallsIn(body'[q]) > 0
  BY <1>2, <1>3, <1>4 DEF Straightened, LockOK
<1>10. LockOK'
  BY <1>1, <1>5, <1>7, <1>8, <1>9 DEF Straightened, LockOK, Sorted
<1>11. \A d, t : (Straight(d, t)' <=> Straight(d, t)) /\ (Open(t)' <=> Open(t))
  BY <1>1, <1>5, <1>7 DEF Straight, Open
<1>12. StraightHeld'
  BY <1>1, <1>6, <1>11 DEF Straightened, StraightHeld, At
<1> QED BY <1>10, <1>12 DEF Straightened

LEMMA AdmitStraight ==
    ASSUME Counting, Straightened, NEW r \in Posts, Admit(r)
    PROVE  Straightened'
<1>1. PICK c, now, n, fresh, e, known, all, kept : Admitted(r, c, now, n, fresh, e, known, all, kept)
  BY AdmitIs
<1>2. /\ c = from[r] /\ now = readAt[r] /\ n = CallsIn(body[r])
      /\ post[r] = "waiting" /\ clock' = clock /\ from' = from /\ body' = body /\ readAt' = readAt
      /\ overtaken' = IF \E q \in Posts : Locked(q) /\ readAt[q] > now
                      THEN overtaken \cup {r} ELSE overtaken
  BY <1>1 DEF Admitted, Admit
<1>3. /\ c \in Callers /\ now \in Nat /\ now <= clock /\ clock <= now + MaxLag /\ clock \in Nat
      /\ MaxLag \in Nat /\ RateWindow \in Nat /\ DOMAIN post = Posts /\ body[r] \in Bodied
      /\ \A q \in Posts : readAt[q] \in Nat
      /\ calls \in [Callers -> Seq(Nat)]
  BY <1>2, DoorAssumption DEF Counting, RequestsOK, WindowOK
<1>4. n \in Nat /\ n > 0
  BY <1>2, <1>3, CallingSize DEF Straightened, LockOK
<1>5. fresh = Within(calls[c], now) /\ e = fresh \o [i \in 1..n |-> now]
  BY <1>1 DEF Admitted
<1>6. known = [calls EXCEPT ![c] = e] /\ all = tracked \cup {c}
  BY <1>1 DEF Admitted
<1>7. kept \subseteq all /\ \A d \in all : d \notin kept => ~Seen(known[d], now)
  BY <1>1 DEF Admitted
<1>8. Recent(calls[c], fresh, now) /\ Longer(e, fresh, n, now) /\ Near(e) /\ Below(e, clock)
  BY <1>3, <1>4, <1>5, EntryIs
<1>9. post'[r] \in {"200", "202", "429"} /\ \A q \in Posts : q # r => post'[q] = post[q]
  <2>1. CASE Fits(fresh, n)
    BY <1>1, <1>3, <2>1 DEF Admitted, Dispatch
  <2>2. CASE ~Fits(fresh, n)
    BY <1>1, <1>3, <2>2 DEF Admitted, TurnAway
  <2> QED BY <2>1, <2>2
<1>10. /\ Locked(r)' /\ ~Locked(r)
       /\ \A q \in Posts : q # r => (Locked(q)' <=> Locked(q))
  BY <1>2, <1>4, <1>9 DEF Locked
<1>11. /\ overtaken \subseteq overtaken' /\ overtaken' \subseteq {q \in Posts : Locked(q)'}
       /\ (\E q \in Posts : Locked(q) /\ readAt[q] > now) => r \in overtaken'
  BY <1>2, <1>10 DEF Straightened, LockOK
<1>12. \A d, t : (Straight(d, t)' => Straight(d, t)) /\ (Open(t)' => Open(t) /\ now < t + RateWindow)
  BY <1>2, <1>10, <1>11 DEF Straight, Open
\* The entries: each time a locked thread's, and the older ones overtaken.
<1>13. \A d : Later(d) \subseteq Later(d)'
  BY <1>2, <1>11 DEF Later
<1>14. /\ fresh \in Seq(Nat) /\ Sorted(fresh, Later(c)')
       /\ \A i \in DOMAIN fresh : \E q \in Posts : Locked(q) /\ readAt[q] = fresh[i]
  <2>1. PICK ts : ts = calls[c]
    OBVIOUS
  <2>2. /\ ts \in Seq(Nat) /\ Sorted(ts, Later(c))
        /\ \A i \in DOMAIN ts : \E q \in Posts : Locked(q) /\ readAt[q] = ts[i]
    BY <1>3, <2>1 DEF Straightened, LockOK
  <2>3. /\ fresh \in Seq(Nat)
        /\ \A i \in DOMAIN fresh : \E j \in DOMAIN ts : fresh[i] = ts[j]
        /\ Sorted(fresh, Later(c))
    <3>1. fresh = Within(ts, now) /\ now \in Nat
      BY <1>3, <1>5, <2>1
    <3>2. \A R : Sorted(ts, R) => Sorted(Within(ts, now), R)
      BY <2>2, <3>1, WithinIs
    <3>3. Sorted(Within(ts, now), Later(c))
      BY <2>2, <3>2
    <3>4. /\ Within(ts, now) \in Seq(Nat)
          /\ \A i \in DOMAIN Within(ts, now) : \E j \in DOMAIN ts : Within(ts, now)[i] = ts[j]
      BY <2>2, <3>1, WithinIs
    <3> QED BY <3>1, <3>3, <3>4
  <2>4. Sorted(fresh, Later(c)')
    BY <1>13, <2>3 DEF Sorted
  <2> QED BY <2>2, <2>3, <2>4
<1>15. /\ e \in Seq(Nat) /\ Sorted(e, Later(c)')
       /\ \A i \in DOMAIN e : \E q \in Posts : Locked(q)' /\ readAt[q] = e[i]
  <2>1. PICK k : k = Len(fresh)
    OBVIOUS
  <2>2. /\ DOMAIN e = 1..k + n /\ DOMAIN fresh = 1..k /\ k \in Nat /\ e \in Seq(Nat)
        /\ \A i \in 1..k : e[i] = fresh[i] /\ fresh[i] \in Nat
        /\ \A i \in k + 1..k + n : e[i] = now
    <3>1. DOMAIN fresh = 1..k /\ k \in Nat /\ \A i \in 1..k : fresh[i] \in Nat
      BY <1>14, <2>1
    <3> QED BY <1>8, <2>1, <3>1 DEF Longer
  <2>3. ASSUME NEW i \in 1..k, NEW j \in k + 1..k + n PROVE <<e[i], e[j]>> \in Later(c)'
    <3>1. <<e[i], e[j]>> \in Nat \X Nat /\ e[j] = now
      BY <1>3, <2>2
    <3>2. CASE e[i] <= now
      BY <3>1, <3>2 DEF Later
    <3>3. CASE e[i] > now
      <4>1. r \in overtaken' /\ from'[r] = c /\ readAt'[r] = now
        BY <1>2, <1>11, <1>14, <2>2, <3>3
      <4> QED BY <3>1, <4>1 DEF Later
    <3> QED BY <1>3, <2>2, <3>2, <3>3
  <2>4. ASSUME NEW i \in k + 1..k + n, NEW j \in k + 1..k + n PROVE <<e[i], e[j]>> \in Later(c)'
    BY <1>3, <2>2 DEF Later
  <2>5. ASSUME NEW i \in DOMAIN e, NEW j \in DOMAIN e, i < j PROVE <<e[i], e[j]>> \in Later(c)'
    <3>1. CASE j \in 1..k
      <4>1. i \in 1..k
        BY <2>2, <2>5, <3>1
      <4> QED BY <1>14, <2>2, <2>5, <3>1, <4>1 DEF Sorted
    <3>2. CASE i \in 1..k /\ j \in k + 1..k + n
      BY <2>3, <3>2
    <3>3. CASE i \in k + 1..k + n /\ j \in k + 1..k + n
      BY <2>4, <3>3
    <3>4. (i \in 1..k \/ i \in k + 1..k + n) /\ (j \in 1..k \/ j \in k + 1..k + n)
      BY <2>2
    <3> QED BY <2>2, <2>5, <3>1, <3>2, <3>3, <3>4
  <2>6. ASSUME NEW i \in DOMAIN e PROVE \E q \in Posts : Locked(q)' /\ readAt[q] = e[i]
    <3>1. CASE i \in 1..k
      <4>1. PICK q \in Posts : Locked(q) /\ readAt[q] = fresh[i]
        BY <1>14, <2>2, <3>1
      <4> QED BY <1>10, <2>2, <3>1, <4>1
    <3>2. CASE i \in k + 1..k + n
      BY <1>2, <1>10, <2>2, <3>2
    <3> QED BY <2>2, <3>1, <3>2
  <2> QED BY <2>2, <2>5, <2>6 DEF Sorted
<1>16. ASSUME NEW d \in Callers
       PROVE  /\ known[d] \in Seq(Nat) /\ Near(known[d]) /\ Sorted(known[d], Later(d)')
              /\ \A i \in DOMAIN known[d] : \E q \in Posts : Locked(q)' /\ readAt[q] = known[d][i]
              /\ d \notin all => known[d] = <<>>
  <2>1. CASE d = c
    BY <1>3, <1>6, <1>8, <1>15, <2>1
  <2>2. CASE d # c
    <3>1. known[d] = calls[d]
      BY <1>3, <1>6, <2>2
    <3>2. \A i \in DOMAIN calls[d] : \E q \in Posts : Locked(q) /\ readAt[q] = calls[d][i]
      BY DEF Straightened, LockOK
    <3>3. Sorted(calls[d], Later(d)')
      BY <1>13 DEF Straightened, LockOK, Sorted
    <3>4. /\ calls[d] \in Seq(Nat) /\ Near(calls[d]) /\ (d \notin tracked => calls[d] = <<>>)
      BY DEF Counting, WindowOK
    <3> QED BY <1>6, <1>10, <3>1, <3>2, <3>3, <3>4
  <2> QED BY <2>1, <2>2
<1>17. \A q \in Posts : post'[q] = "waiting" => CallsIn(body'[q]) > 0
  BY <1>2, <1>9 DEF Straightened, LockOK
\* The times of a window that an open one still has.
<1>18. ASSUME NEW t \in 0..MaxClock, now < t + RateWindow, NEW S, S = Window(t)
       PROVE  /\ S \in SUBSET Nat /\ Cardinality(At(fresh, S)) = Cardinality(At(calls[c], S))
              /\ Cardinality(At(fresh, S)) \in Nat /\ Cardinality(At(fresh, S)) <= Len(fresh) /\ Len(fresh) \in Nat
  <2>1. t \in Nat
    BY DoorAssumption
  <2>2. S \in SUBSET Nat /\ \A u \in S : now - u < RateWindow
    BY <1>3, <1>18, <2>1 DEF Window
  <2>3. Cardinality(At(fresh, S)) = Cardinality(At(calls[c], S))
    BY <1>8, <2>2 DEF Recent
  <2> QED BY <1>14, <2>2, <2>3, AtFinite
<1>19. CASE Fits(fresh, n)
  <2>1. Dispatch(r, body[r]) /\ calls' = [d \in Callers |-> IF d \in kept THEN known[d] ELSE <<>>]
    BY <1>1, <1>19 DEF Admitted
  <2>2. /\ \A d, S : c # d \/ now \notin S => LetIn(d, S)' = LetIn(d, S)
        /\ \A S : /\ IsFiniteSet(LetIn(c, S)') /\ Cardinality(LetIn(c, S)) \in Nat
                  /\ Cardinality(LetIn(c, S)') \in Nat
                  /\ Cardinality(LetIn(c, S)') <= Cardinality(LetIn(c, S)) + (IF now \in S THEN n ELSE 0)
    BY <1>2, <2>1, LetInAdmitted
  <2>3. Sorted(<<>>, Later(c)') /\ DOMAIN <<>> = {} /\ \A R : Sorted(<<>>, R)
    BY DEF Sorted
  <2>4. LockOK'
    <3>1. ASSUME NEW d \in Callers
          PROVE  /\ \A i \in DOMAIN calls'[d] : \E q \in Posts : Locked(q)' /\ readAt'[q] = calls'[d][i]
                 /\ Sorted(calls'[d], Later(d)')
      <4>1. CASE d \in kept
        BY <1>2, <1>16, <2>1, <4>1
      <4>2. CASE d \notin kept
        BY <2>1, <2>3, <4>2
      <4> QED BY <4>1, <4>2
    <3>2. \A d \in Callers : Sorted(calls[d], Later(d))'
      BY <3>1 DEF Sorted
    <3> QED BY <1>11, <1>17, <3>1, <3>2 DEF LockOK
  <2>5. ASSUME NEW d \in Callers, NEW t \in 0..MaxClock, Straight(d, t)', NEW S, S = Window(t)
        PROVE  /\ Cardinality(LetIn(d, S)') <= RateLimit
               /\ Open(t)' => Cardinality(LetIn(d, S)') <= Cardinality(At(calls'[d], S))
    <3>1. /\ Cardinality(LetIn(d, S)) <= RateLimit /\ RateLimit \in Nat /\ t \in Nat
          /\ Open(t) => Cardinality(LetIn(d, S)) <= Cardinality(At(calls[d], S))
      BY <1>12, <2>5, DoorAssumption DEF Straightened, StraightHeld
    <3>2. d = c /\ now \in S => Open(t) /\ now < t + RateWindow
      <4> SUFFICES ASSUME d = c, now \in S PROVE Open(t) /\ now < t + RateWindow
        OBVIOUS
      <4>1. t <= now /\ now <= t + RateWindow - 1
        BY <1>3, <2>5, <3>1 DEF Window
      <4>2. r \notin overtaken'
        <5>1. from'[r] = d /\ readAt'[r] \in (t - MaxLag)..(t + RateWindow - 1)
          BY <1>2, <1>3, <3>1, <4>1
        <5> QED BY <2>5, <5>1 DEF Straight
      <4>3. \A q \in Posts : Locked(q) => ~(readAt[q] > now)
        BY <1>11, <4>2
      <4> QED BY <1>3, <3>1, <4>1, <4>3 DEF Open
    <3>3. Cardinality(LetIn(d, S)') <= RateLimit
      <4>1. CASE d # c \/ now \notin S
        BY <2>2, <3>1, <4>1
      <4>2. CASE d = c /\ now \in S
        <5>1. /\ Cardinality(LetIn(c, S)) <= Cardinality(At(calls[c], S))
              /\ Cardinality(At(fresh, S)) = Cardinality(At(calls[c], S))
              /\ Cardinality(At(fresh, S)) \in Nat /\ Cardinality(At(fresh, S)) <= Len(fresh) /\ Len(fresh) \in Nat
          BY <1>18, <2>5, <3>1, <3>2, <4>2
        <5>2. Len(fresh) + n <= RateLimit
          BY <1>19 DEF Fits
        <5>3. /\ Cardinality(LetIn(c, S)') <= Cardinality(LetIn(c, S)) + n
              /\ Cardinality(LetIn(c, S)') \in Nat /\ Cardinality(LetIn(c, S)) \in Nat
          BY <2>2, <4>2
        <5> QED BY <1>4, <3>1, <4>2, <5>1, <5>2, <5>3
      <4> QED BY <4>1, <4>2
    <3>4. ASSUME Open(t)' PROVE Cardinality(LetIn(d, S)') <= Cardinality(At(calls'[d], S))
      <4>1. Open(t) /\ now < t + RateWindow
        BY <1>12, <3>4
      <4>2. Cardinality(LetIn(d, S)') <= Cardinality(At(known[d], S))
        <5>1. CASE d = c
          <6>1. /\ Cardinality(At(fresh, S)) = Cardinality(At(calls[c], S))
                /\ Cardinality(At(fresh, S)) \in Nat
            BY <1>18, <2>5, <4>1
          <6>2. /\ now \in S => Cardinality(At(e, S)) = Cardinality(At(fresh, S)) + n
                /\ now \notin S => Cardinality(At(e, S)) = Cardinality(At(fresh, S))
            BY <1>3, <1>4, <1>8, <1>14, ExtendedAt
          <6>3. known[c] = e
            BY <1>3, <1>6
          <6>4. /\ Cardinality(LetIn(c, S)') \in Nat /\ Cardinality(LetIn(c, S)) \in Nat
                /\ Cardinality(LetIn(c, S)') <= Cardinality(LetIn(c, S)) + (IF now \in S THEN n ELSE 0)
            BY <2>2
          <6> QED BY <1>4, <3>1, <4>1, <5>1, <6>1, <6>2, <6>3, <6>4
        <5>2. CASE d # c
          <6>1. known[d] = calls[d] /\ LetIn(d, S)' = LetIn(d, S)
            BY <1>3, <1>6, <2>2, <5>2
          <6> QED BY <3>1, <4>1, <6>1
        <5> QED BY <5>1, <5>2
      <4>3. At(known[d], S) = At(calls'[d], S)
        <5>1. CASE d \in kept
          BY <2>1, <5>1 DEF At
        <5>2. CASE d \notin kept
          <6>1. \A i \in DOMAIN known[d] : known[d][i] \notin S
            <7>1. CASE d \notin all
              BY <1>16, <2>3, <7>1
            <7>2. CASE d \in all
              <8>1. PICK ts : ts = known[d]
                OBVIOUS
              <8>2. ts \in Seq(Nat) /\ Near(ts) /\ Sorted(ts, Later(d)') /\ ~Seen(ts, now)
                BY <1>7, <1>16, <5>2, <7>2, <8>1
              <8>3. ASSUME NEW i \in DOMAIN ts, ts[i] \in S PROVE FALSE
                <9>1. PICK k : k = Len(ts)
                  OBVIOUS
                <9>2. /\ k \in Nat /\ DOMAIN ts = 1..k /\ k \in 1..k /\ ts # <<>>
                      /\ ts[i] \in Nat /\ ts[k] \in Nat /\ i \in 1..k
                  BY <8>2, <9>1
                <9>3. ts[k] <= now - RateWindow
                  BY <1>3, <8>2, <9>1, <9>2 DEF Seen
                <9>4. t <= ts[i] /\ ts[k] < t
                  BY <1>3, <2>5, <3>1, <4>1, <8>3, <9>2, <9>3 DEF Window
                <9>5. i < k
                  BY <9>2, <9>4, <3>1
                <9>6. ts[i] <= ts[k] + MaxLag /\ <<ts[i], ts[k]>> \in Later(d)'
                  BY <8>2, <9>2, <9>5 DEF Near, Sorted
                <9>7. PICK q \in overtaken' : from'[q] = d /\ readAt'[q] = ts[k]
                  BY <3>1, <9>2, <9>4, <9>6 DEF Later
                <9>8. ts[k] \in (t - MaxLag)..(t + RateWindow - 1)
                  BY <1>3, <3>1, <9>2, <9>4, <9>6
                <9> QED BY <2>5, <9>7, <9>8 DEF Straight
              <8> QED BY <8>1, <8>3
            <7> QED BY <7>1, <7>2
          <6>2. calls'[d] = <<>>
            BY <2>1, <5>2
          <6> QED BY <2>3, <6>1, <6>2 DEF At
        <5> QED BY <5>1, <5>2
      <4> QED BY <4>2, <4>3
    <3> QED BY <3>3, <3>4
  <2>6. StraightHeld'
    BY <2>5 DEF StraightHeld, Window, At
  <2> QED BY <2>4, <2>6 DEF Straightened
<1>20. CASE ~Fits(fresh, n)
  <2>1. TurnAway(r, "429") /\ calls' = [calls EXCEPT ![c] = fresh]
    BY <1>1, <1>20 DEF Admitted
  <2>2. calls'[c] = fresh /\ \A d \in Callers : d # c => calls'[d] = calls[d]
    BY <1>3, <2>1
  <2>3. ASSUME NEW d, NEW S PROVE LetIn(d, S)' = LetIn(d, S)
    <3>1. post'[r] = "429"
      BY <1>3, <2>1 DEF TurnAway
    <3>2. ~Ran(r) /\ ~Ran(r)'
      BY <1>2, <3>1 DEF Ran
    <3>3. \A q \in Posts : q # r => /\ post'[q] = post[q] /\ from'[q] = from[q]
                                    /\ body'[q] = body[q] /\ readAt'[q] = readAt[q]
      BY <1>2, <1>9
    <3>4. LetIn(d, S)' = LetIn(d, S) \cup (IF from'[r] = d /\ readAt'[r] \in S /\ Ran(r)'
                                             THEN Calling(r)' ELSE {})
      BY <3>2, <3>3, LetInGoesOn
    <3> QED BY <3>2, <3>4
  <2>4. LockOK'
    <3>1. ASSUME NEW d \in Callers
          PROVE  /\ \A i \in DOMAIN calls'[d] : \E q \in Posts : Locked(q)' /\ readAt'[q] = calls'[d][i]
                 /\ Sorted(calls'[d], Later(d)')
      <4>1. CASE d = c
        <5>1. \A i \in DOMAIN fresh : \E q \in Posts : Locked(q)' /\ readAt'[q] = fresh[i]
          BY <1>2, <1>10, <1>14
        <5> QED BY <1>14, <2>2, <4>1, <5>1
      <4>2. CASE d # c
        <5>1. /\ \A i \in DOMAIN calls[d] : \E q \in Posts : Locked(q)' /\ readAt'[q] = calls[d][i]
              /\ Sorted(calls[d], Later(d)')
          BY <1>2, <1>10, <1>13 DEF Straightened, LockOK, Sorted
        <5> QED BY <2>2, <4>2, <5>1
      <4> QED BY <4>1, <4>2
    <3>2. \A d \in Callers : Sorted(calls[d], Later(d))'
      BY <3>1 DEF Sorted
    <3> QED BY <1>11, <1>17, <3>1, <3>2 DEF LockOK
  <2>5. ASSUME NEW d \in Callers, NEW t \in 0..MaxClock, Straight(d, t)', NEW S, S = Window(t)
        PROVE  /\ Cardinality(LetIn(d, S)') <= RateLimit
               /\ Open(t)' => Cardinality(LetIn(d, S)') <= Cardinality(At(calls'[d], S))
    <3>1. /\ Cardinality(LetIn(d, S)) <= RateLimit
          /\ Open(t) => Cardinality(LetIn(d, S)) <= Cardinality(At(calls[d], S))
      BY <1>12, <2>5 DEF Straightened, StraightHeld
    <3>2. ASSUME Open(t)' PROVE Cardinality(At(calls'[d], S)) = Cardinality(At(calls[d], S))
      <4>1. now < t + RateWindow
        BY <1>12, <3>2
      <4>2. CASE d = c
        BY <1>18, <2>2, <2>5, <4>1, <4>2
      <4>3. CASE d # c
        BY <2>2, <4>3
      <4> QED BY <4>2, <4>3
    <3> QED BY <1>12, <2>3, <3>1, <3>2
  <2>6. StraightHeld'
    BY <2>5 DEF StraightHeld, Window, At
  <2> QED BY <2>4, <2>6 DEF Straightened
<1> QED BY <1>19, <1>20

\* A step that leaves the requests, their entries and who was overtaken.
LEMMA StraightKept ==
    ASSUME Straightened, UNCHANGED <<post, from, body, readAt, calls, overtaken>>
    PROVE  Straightened'
<1>1. \A c, S : LetIn(c, S)' = LetIn(c, S)
  BY DEF LetIn
<1>2. \A q : (Locked(q)' <=> Locked(q))
  BY DEF Locked
<1>3. LockOK'
  BY <1>2 DEF Straightened, LockOK, Sorted, Later
<1>4. StraightHeld'
  BY <1>1, <1>2 DEF Straightened, StraightHeld, Straight, Open, At
<1> QED BY <1>3, <1>4 DEF Straightened

LEMMA StraightInit == DoorInit => Straightened
<1> SUFFICES ASSUME DoorInit PROVE Straightened
  OBVIOUS
<1>1. LockOK
  <2>1. \A c \in Callers : calls[c] = <<>> /\ DOMAIN calls[c] = {}
    BY DEF DoorInit
  <2>2. overtaken = {} /\ \A q \in Posts : post[q] = "unsent"
    BY DEF DoorInit
  <2> QED BY <2>1, <2>2 DEF LockOK, Sorted
<1>2. StraightHeld
  <2>1. \A c, S : LetIn(c, S) = {}
    BY DEF LetIn, DoorInit
  <2>2. \A c \in Callers : \A S : At(calls[c], S) = {}
    BY DEF At, DoorInit
  <2>3. Cardinality({}) = 0 /\ 0 <= RateLimit
    BY FS_EmptySet, DoorAssumption
  <2> QED BY <2>1, <2>2, <2>3 DEF StraightHeld
<1> QED BY <1>1, <1>2 DEF Straightened

\* No window of the rate sees more calls of an address let in than its limit,
\* whomever the clean-up forgets, unless a thread of the address was overtaken
\* at the lock in it or a lag before; and none but for its last two lags does
\* even then.
THEOREM RateKept == DoorSpec => []RateHeld
<1> DEFINE Inv == Counting /\ Straightened
<1>1. ASSUME Inv, [DoorNext]_doorVars PROVE Inv'
  <2>1. CASE UNCHANGED doorVars
    <3>1. \A c, S : LetIn(c, S)' = LetIn(c, S)
      BY <2>1 DEF doorVars, LetIn
    <3>2. RequestsOK' /\ WindowOK'
      BY <1>1, <2>1 DEF doorVars, Counting, RequestsOK, WindowOK, Near
    <3>3. Remembered' /\ InnerHeld'
      <4>1. calls' = calls /\ clock' = clock
        BY <2>1 DEF doorVars
      <4>2. \A S : Live(S)' <=> Live(S)
        BY <4>1 DEF Live
      <4> QED BY <1>1, <3>1, <4>1, <4>2 DEF Counting, Remembered, InnerHeld
    <3>4. Straightened'
      BY <1>1, <2>1, StraightKept DEF doorVars
    <3> QED BY <3>2, <3>3, <3>4 DEF Counting
  <2>2. CASE DoorTick
    <3>1. Straightened'
      BY <1>1, <2>2, StraightKept DEF DoorTick
    <3> QED BY <1>1, <2>2, <3>1, TickCounts
  <2>3. ASSUME NEW r \in Posts, Admit(r) PROVE Inv'
    BY <1>1, <2>3, AdmitCounts, AdmitStraight
  <2>4. ASSUME NEW r \in Posts, NEW c \in Callers, NEW b \in Bodies[r], Receive(r, c, b) PROVE Inv'
    BY <1>1, <2>4, ReceiveCounts, ReceiveStraight
  <2> QED BY <1>1, <2>1, <2>2, <2>3, <2>4 DEF DoorNext
<1>2. Inv => RateHeld
  <2> SUFFICES ASSUME Inv, NEW c \in Callers, NEW t \in 0..MaxClock
               PROVE  /\ \/ Cardinality(LetIn(c, t..(t + RateWindow - 1))) <= RateLimit
                         \/ \E r \in overtaken : from[r] = c /\ readAt[r] \in (t - MaxLag)..(t + RateWindow - 1)
                      /\ Cardinality(LetIn(c, t..(t + RateWindow - 2 * MaxLag - 1))) <= RateLimit
    BY DEF RateHeld
  <2>1. Straight(c, t) => Cardinality(LetIn(c, t..(t + RateWindow - 1))) <= RateLimit
    BY DEF Straightened, StraightHeld, Window
  <2>2. Cardinality(LetIn(c, t..(t + RateWindow - 2 * MaxLag - 1))) <= RateLimit
    BY DEF Counting, InnerHeld
  <2> QED BY <2>1, <2>2 DEF Straight
<1>3. DoorInit => Inv
  BY CountingInit, StraightInit
<1> HIDE DEF Inv
<1> QED BY <1>1, <1>2, <1>3, PTL DEF DoorSpec

-----------------------------------------------------------------------------
(* What the relay's client is told.                                        *)

Refusal(r) == post[r] \in {"401", "400", "413", "429"} /\ lines[r] = <<post[r]>>

\* The reply holds an answer to each message that wants one, and the log a line
\* for each tool that ran.
Wanted(b)  == Those(b, Message \ {"note"})
Answers(b) == [i \in DOMAIN Wanted(b) |-> AnswerTo(Wanted(b)[i])]

Served(r) ==
    /\ lines[r] = Those(body[r], Ended)
    /\ answers[r] = Answers(body[r])
    /\ post[r] = IF DOMAIN Wanted(body[r]) = {} THEN "202" ELSE "200"

Told ==
    /\ DOMAIN post = Posts /\ DOMAIN lines = Posts /\ DOMAIN answers = Posts /\ DOMAIN body = Posts
    /\ \A r \in Posts : /\ body[r] \in Bodied
                        /\ Replied(r) => Refusal(r) \/ Served(r)

\* A request of one call that was served: the call's end is its status.
LEMMA ServedTells ==
    ASSUME NEW r, body[r] \in Bodied, Served(r), OneCall(r)
    PROVE  /\ CallStatus(r) = 200 <=> lines[r] = <<"ok">>
           /\ CallStatus(r) = 400 <=> lines[r] = <<"refused">>
           /\ CallStatus(r) = 429 <=> lines[r] = <<"429">>
<1>1. PICK ms, m : ms = body[r].messages /\ m = ms[1]
  OBVIOUS
<1>2. ms \in Seq(Message) /\ Len(ms) = 1 /\ DOMAIN ms = {1} /\ m \in Message
  <2>1. ms \in Seq(Message) /\ Len(ms) = 1
    BY <1>1 DEF Bodied, OneCall
  <2> QED BY <1>1, <2>1
<1>3. \A kinds : DOMAIN Those(body[r], kinds) = IF m \in kinds THEN {1} ELSE {}
  BY <1>1, <1>2 DEF Those
<1>4. \A kinds : m \in kinds => Those(body[r], kinds)[1] = m
  BY <1>1, <1>2 DEF Those
<1>5. m \in CallKind
  <2>1. Cardinality(DOMAIN Those(body[r], CallKind)) = 1
    BY DEF OneCall, CallsIn
  <2> QED BY <1>3, <2>1, FS_EmptySet
<1>6. DOMAIN Those(body[r], Message \ {"note"}) = {1} /\ Those(body[r], Message \ {"note"})[1] = m
  BY <1>2, <1>3, <1>4, <1>5 DEF CallKind, Ended
<1>7. post[r] = "200" /\ answers[r][1] = AnswerTo(m)
  BY <1>6 DEF Served, Answers, Wanted
<1>8. CallStatus(r) = IF m = "ok" THEN 200 ELSE IF m = "refused" THEN 400 ELSE 502
  BY <1>5, <1>7 DEF CallStatus, AnswerTo, CallKind, Ended
<1>9. /\ m \in Ended => lines[r][1] = m /\ DOMAIN lines[r] = {1}
      /\ m \notin Ended => DOMAIN lines[r] = {}
  BY <1>3, <1>4 DEF Served
<1>10. \A x : DOMAIN <<x>> = {1} /\ <<x>>[1] = x
  OBVIOUS
<1>11. m \in Ended => lines[r] = <<m>>
  <2>1. ASSUME m \in Ended PROVE lines[r] = <<m>>
    <3>1. lines[r] = Those(body[r], Ended) /\ DOMAIN lines[r] = {1}
      BY <1>9, <2>1 DEF Served
    <3>2. lines[r] = [i \in {1} |-> body[r].messages[i]]
      BY <3>1 DEF Those
    <3> QED BY <1>1, <3>2
  <2> QED BY <2>1
<1>12. \A x : lines[r] = <<x>> => m \in Ended /\ m = x
  BY <1>9, <1>10
<1>13. \A x : lines[r] = <<x>> <=> m \in Ended /\ m = x
  BY <1>11, <1>12
<1> QED BY <1>8, <1>13 DEF Ended

LEMMA ToldAnswers == Told => RelayTellsWho
<1> SUFFICES ASSUME Told, NEW r \in Posts, Replied(r), OneCall(r)
             PROVE  /\ CallStatus(r) = 200 <=> lines[r] = <<"ok">>
                    /\ CallStatus(r) = 400 <=> lines[r] = <<"refused">>
                    /\ CallStatus(r) = 429 <=> lines[r] = <<"429">>
  BY DEF RelayTellsWho
<1>1. CASE Refusal(r)
  <2>1. PICK s : s = post[r]
    OBVIOUS
  <2>2. s \in {"401", "400", "413", "429"} /\ lines[r] = <<s>> /\ lines[r][1] = s
    BY <1>1, <2>1 DEF Refusal
  <2>3. CallStatus(r) = IF s = "429" THEN 429 ELSE 502
    BY <2>1, <2>2 DEF CallStatus
  <2>4. <<"ok">>[1] = "ok" /\ <<"refused">>[1] = "refused" /\ <<"429">>[1] = "429"
    OBVIOUS
  <2> QED BY <2>2, <2>3, <2>4
<1>2. CASE Served(r)
  BY <1>2, ServedTells DEF Told
<1> QED BY <1>1, <1>2 DEF Told

\* A request moves: its reply is a refusal or what was served.
LEMMA MoveTells ==
    ASSUME Told, NEW r \in Posts,
           DOMAIN body' = Posts, body'[r] \in Bodied, \A q \in Posts : q # r => body'[q] = body[q],
           \/ \E s \in {"401", "400", "413", "429"} : TurnAway(r, s)
           \/ Dispatch(r, body'[r])
           \/ post' = [post EXCEPT ![r] = "waiting"] /\ UNCHANGED <<lines, answers>>
    PROVE  Told'
<1>1. /\ DOMAIN post = Posts /\ DOMAIN lines = Posts /\ DOMAIN answers = Posts
      /\ \A q \in Posts : body[q] \in Bodied /\ (Replied(q) => Refusal(q) \/ Served(q))
  BY DEF Told
<1>2. /\ DOMAIN post' = Posts /\ DOMAIN lines' = Posts /\ DOMAIN answers' = Posts
      /\ \A q \in Posts : q # r => post'[q] = post[q] /\ lines'[q] = lines[q] /\ answers'[q] = answers[q]
  BY <1>1 DEF TurnAway, Dispatch
<1>3. \A q \in Posts : q # r => /\ body'[q] \in Bodied
                                /\ Replied(q)' => Refusal(q)' \/ Served(q)'
  BY <1>1, <1>2 DEF Replied, Refusal, Served
<1>4. Replied(r)' => Refusal(r)' \/ Served(r)'
  <2>1. ASSUME NEW s \in {"401", "400", "413", "429"}, TurnAway(r, s) PROVE Refusal(r)'
    BY <1>1, <2>1 DEF TurnAway, Refusal
  <2>2. ASSUME Dispatch(r, body'[r]) PROVE Served(r)'
    BY <1>1, <2>2 DEF Dispatch, Served, Answers, Wanted
  <2>3. ASSUME post' = [post EXCEPT ![r] = "waiting"] PROVE ~Replied(r)'
    BY <1>1, <2>3 DEF Replied
  <2> QED BY <2>1, <2>2, <2>3
<1> QED BY <1>2, <1>3, <1>4 DEF Told

\* 200 says the tool ran, 400 that it refused its input, 429 that the address
\* was past its rate; and the log has the tool's line exactly when it ran.
THEOREM RelayTold == DoorSpec => []RelayTellsWho
<1>1. DoorInit => Told
  <2>1. Nothing \in Bodied
    BY DEF Nothing, Bodied
  <2> QED BY <2>1 DEF DoorInit, Told, Replied
<1>2. ASSUME Told, [DoorNext]_doorVars PROVE Told'
  <2>1. CASE UNCHANGED doorVars \/ DoorTick
    BY <1>2, <2>1 DEF doorVars, DoorTick, Told, Replied, Refusal, Served
  <2>2. ASSUME NEW r \in Posts, Admit(r) PROVE Told'
    <3>1. body' = body /\ (Dispatch(r, body[r]) \/ TurnAway(r, "429"))
      BY <2>2 DEF Admit
    <3>2. DOMAIN body = Posts /\ \A q \in Posts : body[q] \in Bodied
      BY <1>2 DEF Told
    <3> QED BY <1>2, <3>1, <3>2, MoveTells
  <2>3. ASSUME NEW r \in Posts, NEW c \in Callers, NEW b \in Bodies[r], Receive(r, c, b) PROVE Told'
    <3>1. DOMAIN body' = Posts /\ body'[r] = b /\ \A q \in Posts : q # r => body'[q] = body[q]
      BY <1>2, <2>3 DEF Receive, Told
    <3>2. b \in Bodied
      BY DoorAssumption DEF Bodied
    <3>3. \/ \E s \in {"401", "400", "413", "429"} : TurnAway(r, s)
          \/ Dispatch(r, b)
          \/ post' = [post EXCEPT ![r] = "waiting"] /\ UNCHANGED <<lines, answers>>
      <4>1. CASE FirstRefusal(b) # "none"
        <5>1. TurnAway(r, FirstRefusal(b))
          BY <2>3, <4>1 DEF Receive
        <5>2. FirstRefusal(b) \in {"401", "400", "413"}
          BY <4>1 DEF FirstRefusal
        <5> QED BY <5>1, <5>2
      <4>2. CASE FirstRefusal(b) = "none" /\ CallsIn(b) = 0
        BY <2>3, <4>2 DEF Receive
      <4>3. CASE FirstRefusal(b) = "none" /\ CallsIn(b) # 0
        BY <2>3, <4>3 DEF Receive
      <4> QED BY <4>1, <4>2, <4>3
    <3> QED BY <1>2, <3>1, <3>2, <3>3, MoveTells
  <2> QED BY <1>2, <2>1, <2>2, <2>3 DEF DoorNext
<1> QED BY <1>1, <1>2, ToldAnswers, PTL DEF DoorSpec

-----------------------------------------------------------------------------
(* The log's cells and lines.                                              *)

\* The greatest and the least of a bounded set of naturals.
LEMMA MaxIs ==
    ASSUME NEW S \in SUBSET Nat, S # {}, NEW N \in Nat, \A y \in S : y <= N
    PROVE  Max(S) \in S /\ \A y \in S : y <= Max(S)
<1> DEFINE Over == {u \in Nat : \A y \in S : y <= u}
<1>1. PICK u \in Over : \A v \in Over : u <= v
  <2>1. Over \in SUBSET Nat /\ Over # {}
    OBVIOUS
  <2> HIDE DEF Over
  <2> QED BY <2>1, LeastNat, Zenon
<1>2. u \in S
  <2> SUFFICES ASSUME u \notin S PROVE FALSE
    OBVIOUS
  <2>1. \A y \in S : y \in Nat /\ y < u
    OBVIOUS
  <2>2. PICK y \in S : TRUE
    OBVIOUS
  <2>3. u - 1 \in Over
    BY <2>1, <2>2
  <2> QED BY <1>1, <2>3
<1>3. \E x \in S : \A y \in S : x >= y
  BY <1>1, <1>2
<1>4. Max(S) \in S /\ \A y \in S : Max(S) >= y
  BY <1>3 DEF Max
<1> QED BY <1>4

LEMMA MinIs ==
    ASSUME NEW S \in SUBSET Nat, S # {}
    PROVE  Min(S) \in S /\ \A y \in S : Min(S) <= y
<1>1. \E x \in S : \A y \in S : x <= y
  BY LeastNat, Zenon
<1> QED BY <1>1 DEF Min

Stages == {"out", "running", "half", "logged"}
Written == {c \in Logged : stage[c] \in {"half", "logged"}}
Whole   == {c \in Logged : stage[c] = "logged"}

\* A body is of a call that has begun to write, and every call writes once.
LogOK ==
    /\ time \in Nat
    /\ log \in Seq(Logged \cup Nat)
    /\ stage \in [Logged -> Stages] /\ stamp \in [Logged -> Nat]
    /\ \A i \in DOMAIN log : log[i] \in Logged => log[i] \in Written
    /\ Len(log) = Cardinality(Written) + Cardinality(Whole)

\* The sentry stopped at a line's end, and has counted nothing past it; a crash
\* is counted, or too late for its minute, or in the reach of the next pass.
SentryOK ==
    /\ due \in Nat /\ time <= due /\ due <= time + Every
    /\ offset \in LineEnds \cup {0}
    /\ flagged \in [1..2 * Cardinality(Logged) -> Nat]
    /\ \A i \in DOMAIN flagged : i > offset => flagged[i] = 0
    /\ MalformedOnce

CrashInReach ==
    \A e \in LineEnds : Entry(e) /\ CallOf(e) \in Crashing =>
        \/ CallOf(e) \in told
        \/ log[e] - stamp[CallOf(e)] + Every > Minute
        \/ e > offset /\ due <= log[e] + Every

Reading == LogOK /\ SentryOK /\ CrashInReach

\* The lines of a log, by their ends.
LEMMA EndsIn ==
    ASSUME LogOK
    PROVE  /\ LineEnds \subseteq DOMAIN log /\ DOMAIN log = 1..Len(log) /\ Len(log) \in Nat
           /\ \A e \in LineEnds : e \in Nat /\ 0 < e /\ e <= Len(log) /\ log[e] \in Nat
<1>1. log \in Seq(Logged \cup Nat)
  BY DEF LogOK
<1>2. DOMAIN log = 1..Len(log) /\ Len(log) \in Nat /\ \A i \in 1..Len(log) : log[i] \in Logged \cup Nat
  BY <1>1
<1> QED BY <1>2 DEF LineEnds

LEMMA StartIs ==
    ASSUME LogOK, NEW e \in LineEnds
    PROVE  /\ StartOf(e) \in LineEnds \cup {0} /\ StartOf(e) < e /\ StartOf(e) \in Nat
           /\ \A i \in LineEnds : i < e => i <= StartOf(e)
           /\ \A s \in LineEnds \cup {0} : s < e /\ (\A i \in LineEnds : i < e => i <= s) => s = StartOf(e)
<1> DEFINE Before == {0} \cup {i \in LineEnds : i < e}
<1>1. /\ e \in Nat /\ 0 < e /\ \A i \in LineEnds : i \in Nat
  BY EndsIn
<1>2. Before \in SUBSET Nat /\ Before # {} /\ \A y \in Before : y <= e
  <2>1. \A y \in Before : y \in Nat /\ y <= e
    <3>1. \A i \in LineEnds : i < e => i <= e
      BY <1>1
    <3>2. 0 <= e
      BY <1>1
    <3> QED BY <1>1, <3>1, <3>2
  <2> QED BY <2>1
<1>3. StartOf(e) \in Before /\ \A y \in Before : y <= StartOf(e)
  <2> HIDE DEF Before
  <2>1. Max(Before) \in Before /\ \A y \in Before : y <= Max(Before)
    BY <1>1, <1>2, MaxIs
  <2> USE DEF Before
  <2> QED BY <2>1 DEF StartOf
<1>4. PICK m : m = StartOf(e)
  OBVIOUS
<1>5. m \in LineEnds \cup {0} /\ m < e /\ m \in Nat /\ 0 <= m /\ \A i \in LineEnds : i < e => i <= m
  <2>1. m \in Before /\ \A y \in Before : y <= m
    <3> HIDE DEF Before
    <3> QED BY <1>3, <1>4
  <2>2. m \in LineEnds \cup {0} /\ m \in Nat /\ m < e
    BY <1>1, <2>1
  <2>3. \A i \in LineEnds : i < e => i \in Before
    OBVIOUS
  <2> HIDE DEF Before
  <2> QED BY <2>1, <2>2, <2>3
<1>6. ASSUME NEW s \in LineEnds \cup {0}, s < e, \A i \in LineEnds : i < e => i <= s PROVE s = m
  <2>1. s <= m
    BY <1>5, <1>6
  <2>2. m <= s
    BY <1>1, <1>5, <1>6
  <2> QED BY <1>1, <1>5, <2>1, <2>2
<1> QED BY <1>4, <1>5, <1>6

\* What stands before the end of an entry is its call.
LEMMA EntryCalls ==
    ASSUME LogOK, NEW e \in LineEnds, Entry(e)
    PROVE  e - 1 \in DOMAIN log /\ CallOf(e) = log[e - 1] /\ CallOf(e) \in Written
<1>1. e - 1 \in DOMAIN log /\ e - 1 < e /\ e - 1 > StartOf(e) /\ e - 1 \in Nat
  BY EndsIn, StartIs DEF Entry
<1>2. e - 1 \notin LineEnds
  BY <1>1, EndsIn, StartIs
<1>3. log[e - 1] \in Logged
  BY <1>1, <1>2 DEF LineEnds
<1> QED BY <1>1, <1>3 DEF CallOf, LogOK

\* Where a pass begins and what it takes.
LEMMA BeginIs ==
    ASSUME LogOK, offset \in LineEnds \cup {0}
    PROVE  /\ Begin \in LineEnds \cup {0} /\ Begin <= offset /\ Begin \in Nat /\ offset \in Nat
           /\ \A s \in LineEnds \cup {0} : offset - s <= TailCells => Begin <= s
<1>1. /\ offset \in Nat /\ offset <= Len(log) /\ Len(log) \in Nat /\ TailCells \in Nat
      /\ \A e \in LineEnds : e \in Nat /\ 0 < e
  BY EndsIn, AuditAssumption
<1>2. PICK t : t = offset - TailCells
  OBVIOUS
<1>3. t \in Int /\ TailStart = Max({0, t})
  <2>1. Least(offset, Len(log)) = offset
    BY <1>1 DEF Least
  <2> QED BY <1>1, <1>2, <2>1 DEF TailStart
<1>4. TailStart = IF t > 0 THEN t ELSE 0
  BY <1>3 DEF Max
<1>5. CASE t <= 0
  <2>1. Begin = 0
    BY <1>3, <1>4, <1>5 DEF Begin
  <2> QED BY <1>1, <2>1
<1>6. CASE t > 0
  <2> DEFINE After == {e \in LineEnds : e >= t}
  <2>1. offset \in After
    BY <1>1, <1>2, <1>6, AuditAssumption
  <2>2. After \in SUBSET Nat
    BY <1>1
  <2>3. Begin = Min(After)
    <3>1. PICK w : w = TailStart
      OBVIOUS
    <3>2. w = t /\ w # 0
      BY <1>3, <1>4, <1>6, <3>1
    <3>3. Begin = Min({e \in LineEnds : e >= w})
      BY <3>1, <3>2 DEF Begin
    <3> QED BY <3>2, <3>3
  <2>4. Min(After) \in After /\ \A y \in After : Min(After) <= y
    <3> HIDE DEF After
    <3> QED BY <2>1, <2>2, MinIs
  <2>5. ASSUME NEW s \in LineEnds \cup {0}, offset - s <= TailCells PROVE s \in After
    BY <1>1, <1>2, <1>3, <1>6, <2>5
  <2> QED BY <1>1, <2>1, <2>3, <2>4, <2>5
<1> QED BY <1>3, <1>5, <1>6

\* What is appended to the log leaves every line where it was, and ends at most
\* one more.
LEMMA LinesStay ==
    ASSUME LogOK, LogOK', offset \in Nat,
           Len(log) < Len(log'), \A i \in DOMAIN log : log'[i] = log[i],
           NEW e \in LineEnds
    PROVE  /\ e \in LineEnds' /\ StartOf(e)' = StartOf(e) /\ (Entry(e)' <=> Entry(e))
           /\ Entry(e) => CallOf(e)' = CallOf(e)
<1>1. /\ LineEnds \subseteq DOMAIN log /\ DOMAIN log = 1..Len(log) /\ Len(log) \in Nat
      /\ \A i \in LineEnds : i \in Nat /\ 0 < i /\ i <= Len(log)
  BY EndsIn
<1>2. DOMAIN log' = 1..Len(log)' /\ Len(log)' \in Nat /\ \A i \in LineEnds' : i \in Nat /\ 0 < i
  <2>1. log' \in Seq(Logged \cup Nat)
    BY DEF LogOK
  <2>2. DOMAIN log' = 1..Len(log') /\ Len(log') \in Nat
    BY <2>1
  <2> QED BY <2>2 DEF LineEnds
<1>3. \A i \in DOMAIN log : i \in LineEnds' <=> i \in LineEnds
  BY <1>1, <1>2 DEF LineEnds
<1>4. {i \in LineEnds : i < e}' = {i \in LineEnds : i < e}
  <2>1. ASSUME NEW i PROVE i \in LineEnds' /\ i < e <=> i \in LineEnds /\ i < e
    <3>1. ASSUME i \in LineEnds', i < e PROVE i \in DOMAIN log
      BY <1>1, <1>2, <3>1
    <3> QED BY <1>1, <1>3, <3>1
  <2> QED BY <2>1
<1>5. StartOf(e)' = StartOf(e)
  BY <1>4 DEF StartOf
<1>6. Entry(e)' <=> Entry(e)
  BY <1>5 DEF Entry
<1>7. Entry(e) => CallOf(e)' = CallOf(e)
  BY EntryCalls DEF CallOf
<1> QED BY <1>1, <1>3, <1>5, <1>6, <1>7

\* The log grows by one call's writing, of which at most the last cell is a time,
\* the present one.
LEMMA GrowthCounted ==
    ASSUME Reading, LogOK', Len(log) < Len(log'), \A i \in DOMAIN log : log'[i] = log[i],
           \A i \in DOMAIN log' : i > Len(log) => log'[i] \in Logged \/ log'[i] = time,
           UNCHANGED <<time, stamp, passVars>>
    PROVE  Reading'
<1>1. /\ offset \in LineEnds \cup {0} /\ offset \in Nat /\ offset <= Len(log) /\ due \in Nat
      /\ time \in Nat /\ time <= due /\ due <= time + Every /\ Len(log) \in Nat
      /\ \A e \in LineEnds : e \in Nat /\ 0 < e /\ e <= Len(log)
      /\ offset' = offset /\ due' = due /\ time' = time /\ flagged' = flagged
      /\ told' = told /\ stamp' = stamp /\ Every \in Nat /\ DOMAIN log = 1..Len(log)
  <2>1. LogOK /\ offset \in LineEnds \cup {0} /\ due \in Nat /\ time \in Nat /\ time <= due /\ due <= time + Every
    BY DEF Reading, SentryOK, LogOK
  <2>2. offset \in Nat /\ offset <= Len(log) /\ Len(log) \in Nat /\ DOMAIN log = 1..Len(log)
        /\ \A e \in LineEnds : e \in Nat /\ 0 < e /\ e <= Len(log)
    BY <2>1, EndsIn
  <2> QED BY <2>1, <2>2, AuditAssumption DEF passVars
<1>2. ASSUME NEW e \in LineEnds
      PROVE  /\ e \in LineEnds' /\ StartOf(e)' = StartOf(e) /\ (Entry(e)' <=> Entry(e))
             /\ Entry(e) => CallOf(e)' = CallOf(e)
  BY <1>1, LinesStay DEF Reading
<1>3. ASSUME NEW e \in LineEnds', e \notin LineEnds
      PROVE  e > Len(log) /\ e \in Nat /\ log'[e] = time /\ e <= Len(log') /\ Len(log') \in Nat
  <2>1. log' \in Seq(Logged \cup Nat)
    BY DEF LogOK
  <2>2. DOMAIN log' = 1..Len(log') /\ Len(log') \in Nat /\ e \in 1..Len(log') /\ log'[e] \notin Logged
    BY <2>1 DEF LineEnds
  <2>3. e \notin DOMAIN log
    BY <1>3, <2>2 DEF LineEnds
  <2> QED BY <1>1, <2>2, <2>3
<1>4. Len(log') <= 2 * Cardinality(Logged) /\ Cardinality(Logged) \in Nat
  <2>1. /\ Written' \subseteq Logged /\ Whole' \subseteq Logged
        /\ Len(log') = Cardinality(Written') + Cardinality(Whole')
    BY DEF Written, Whole, LogOK
  <2>2. /\ Cardinality(Written') <= Cardinality(Logged) /\ Cardinality(Whole') <= Cardinality(Logged)
        /\ Cardinality(Written') \in Nat /\ Cardinality(Whole') \in Nat /\ Cardinality(Logged) \in Nat
    BY <2>1, FS_Subset, FS_CardinalityType, AuditAssumption
  <2> QED BY <2>1, <2>2
<1>5. MalformedOnce'
  <2> SUFFICES ASSUME NEW e \in LineEnds', ~Entry(e)' PROVE flagged'[e] = IF e <= offset' THEN 1 ELSE 0
    BY DEF MalformedOnce
  <2>1. CASE e \in LineEnds
    BY <1>1, <1>2, <2>1 DEF Reading, SentryOK, MalformedOnce
  <2>2. CASE e \notin LineEnds
    <3>1. e > offset /\ e \in 1..2 * Cardinality(Logged)
      BY <1>1, <1>3, <1>4, <2>2
    <3>2. flagged[e] = 0
      BY <3>1 DEF Reading, SentryOK
    <3> QED BY <1>1, <3>1, <3>2
  <2> QED BY <2>1, <2>2
<1>6. SentryOK'
  BY <1>1, <1>2, <1>5 DEF Reading, SentryOK
<1>7. CrashInReach'
  <2> SUFFICES ASSUME NEW e \in LineEnds', Entry(e)', CallOf(e)' \in Crashing
               PROVE  \/ CallOf(e)' \in told'
                      \/ log'[e] - stamp'[CallOf(e)'] + Every > Minute
                      \/ e > offset' /\ due' <= log'[e] + Every
    BY DEF CrashInReach
  <2>1. CASE e \in LineEnds
    <3>1. Entry(e) /\ CallOf(e)' = CallOf(e) /\ log'[e] = log[e]
      BY <1>1, <1>2, <2>1 DEF LineEnds
    <3> QED BY <1>1, <2>1, <3>1 DEF Reading, CrashInReach
  <2>2. CASE e \notin LineEnds
    BY <1>1, <1>3, <2>2
  <2> QED BY <2>1, <2>2
<1> QED BY <1>6, <1>7 DEF Reading

\* A call begins: only its stamp changes, and no line is its.
LEMMA CalledCounts ==
    ASSUME Reading, NEW c \in Logged, Called(c)
    PROVE  Reading'
<1>1. /\ stage[c] = "out" /\ stage' = [stage EXCEPT ![c] = "running"]
      /\ stamp' = [stamp EXCEPT ![c] = time] /\ log' = log /\ time' = time /\ offset' = offset /\ due' = due
      /\ flagged' = flagged /\ told' = told
  BY DEF Called, Move, passVars
<1>2. LogOK /\ stage \in [Logged -> Stages] /\ stamp \in [Logged -> Nat] /\ time \in Nat
  BY DEF Reading, LogOK
<1>3. Written' = Written /\ Whole' = Whole
  BY <1>1, <1>2 DEF Written, Whole
<1>4. LogOK'
  <2>1. stage' \in [Logged -> Stages] /\ stamp' \in [Logged -> Nat]
    BY <1>1, <1>2 DEF Stages
  <2> QED BY <1>1, <1>2, <1>3, <2>1 DEF LogOK
<1>5. /\ LineEnds' = LineEnds /\ \A e : StartOf(e)' = StartOf(e) /\ (Entry(e)' <=> Entry(e))
      /\ \A e : CallOf(e)' = CallOf(e)
  BY <1>1 DEF LineEnds, StartOf, Entry, CallOf
<1>6. SentryOK'
  BY <1>1, <1>5 DEF Reading, SentryOK, MalformedOnce
<1>7. CrashInReach'
  <2> SUFFICES ASSUME NEW e \in LineEnds, Entry(e), CallOf(e) \in Crashing
               PROVE  \/ CallOf(e) \in told
                      \/ log[e] - stamp'[CallOf(e)] + Every > Minute
                      \/ e > offset /\ due <= log[e] + Every
    BY <1>1, <1>5 DEF CrashInReach
  <2>1. CallOf(e) # c
    <3>1. CallOf(e) \in Written
      BY <1>2, EntryCalls
    <3> QED BY <1>1, <3>1 DEF Written
  <2>2. stamp'[CallOf(e)] = stamp[CallOf(e)]
    <3>1. CallOf(e) \in Logged
      BY AuditAssumption
    <3> QED BY <1>1, <1>2, <2>1, <3>1
  <2> QED BY <2>2 DEF Reading, CrashInReach
<1> QED BY <1>4, <1>6, <1>7 DEF Reading

\* The calls that have written, and those that are through, by their number.
LEMMA WritersIn ==
    /\ IsFiniteSet(Written) /\ IsFiniteSet(Whole)
    /\ Cardinality(Written) \in Nat /\ Cardinality(Whole) \in Nat
<1>1. Written \subseteq Logged /\ Whole \subseteq Logged
  BY DEF Written, Whole
<1> QED BY <1>1, FS_Subset, FS_CardinalityType, AuditAssumption

\* The log has two cells at most for every call.
LEMMA EndsFlagged ==
    ASSUME LogOK
    PROVE  LineEnds \subseteq 1..2 * Cardinality(Logged)
<1>1. Written \subseteq Logged /\ Whole \subseteq Logged
  BY DEF Written, Whole
<1>2. /\ Cardinality(Written) <= Cardinality(Logged) /\ Cardinality(Whole) <= Cardinality(Logged)
      /\ Cardinality(Logged) \in Nat
  BY <1>1, FS_Subset, FS_CardinalityType, AuditAssumption
<1>3. Len(log) <= 2 * Cardinality(Logged)
  BY <1>2, WritersIn DEF LogOK
<1>4. \A e \in LineEnds : e \in Nat /\ 0 < e /\ e <= Len(log) /\ Len(log) \in Nat
  BY EndsIn
<1> QED BY <1>2, <1>3, <1>4

LEMMA Append1Counts ==
    ASSUME Reading, NEW c \in Logged, Append1(c)
    PROVE  Reading'
<1>1. /\ stage[c] = "running" /\ stage' = [stage EXCEPT ![c] = "logged"] /\ log' = log \o <<c, time>>
      /\ UNCHANGED <<time, stamp, passVars>>
  BY DEF Append1, Move
<1>2. /\ stage \in [Logged -> Stages] /\ stamp \in [Logged -> Nat] /\ time \in Nat /\ log \in Seq(Logged \cup Nat)
      /\ \A i \in DOMAIN log : log[i] \in Logged => log[i] \in Written
      /\ Len(log) = Cardinality(Written) + Cardinality(Whole)
  BY DEF Reading, LogOK
<1>3. /\ Len(log) \in Nat /\ Len(log') = Len(log) + 2 /\ DOMAIN log' = 1..Len(log) + 2 /\ DOMAIN log = 1..Len(log)
      /\ log' \in Seq(Logged \cup Nat) /\ \A i \in DOMAIN log : log'[i] = log[i]
      /\ log'[Len(log) + 1] = c /\ log'[Len(log) + 2] = time
  BY <1>1, <1>2
<1>4. Written' = Written \cup {c} /\ c \notin Written /\ Whole' = Whole \cup {c} /\ c \notin Whole
  BY <1>1, <1>2 DEF Written, Whole
<1>5. \A i \in DOMAIN log' : i \in DOMAIN log \/ i = Len(log) + 1 \/ i = Len(log) + 2
  BY <1>3
<1>6. LogOK'
  <2>1. stage' \in [Logged -> Stages] /\ stamp' = stamp /\ time' = time
    BY <1>1, <1>2 DEF Stages
  <2>2. \A i \in DOMAIN log' : log'[i] \in Logged => log'[i] \in Written'
    <3>1. time \notin Logged
      BY <1>2, AuditAssumption
    <3> QED BY <1>2, <1>3, <1>4, <1>5, <3>1
  <2>3. Cardinality(Written \cup {c}) = Cardinality(Written) + 1 /\ Cardinality(Whole \cup {c}) = Cardinality(Whole) + 1
    BY <1>4, WritersIn, FS_AddElement
  <2>4. Len(log') = Cardinality(Written') + Cardinality(Whole')
    BY <1>2, <1>3, <1>4, <2>3, WritersIn
  <2> QED BY <1>2, <1>3, <2>1, <2>2, <2>4 DEF LogOK
<1>7. \A i \in DOMAIN log' : i > Len(log) => log'[i] \in Logged \/ log'[i] = time
  BY <1>3, <1>5
<1> QED BY <1>1, <1>3, <1>6, <1>7, GrowthCounted

LEMMA AppendBodyCounts ==
    ASSUME Reading, NEW c \in Logged, AppendBody(c)
    PROVE  Reading'
<1>1. /\ stage[c] = "running" /\ stage' = [stage EXCEPT ![c] = "half"] /\ log' = Append(log, c)
      /\ UNCHANGED <<time, stamp, passVars>>
  BY DEF AppendBody, Move
<1>2. /\ stage \in [Logged -> Stages] /\ stamp \in [Logged -> Nat] /\ time \in Nat /\ log \in Seq(Logged \cup Nat)
      /\ \A i \in DOMAIN log : log[i] \in Logged => log[i] \in Written
      /\ Len(log) = Cardinality(Written) + Cardinality(Whole)
  BY DEF Reading, LogOK
<1>3. /\ Len(log) \in Nat /\ Len(log') = Len(log) + 1 /\ DOMAIN log' = 1..Len(log) + 1 /\ DOMAIN log = 1..Len(log)
      /\ log' \in Seq(Logged \cup Nat) /\ \A i \in DOMAIN log : log'[i] = log[i]
      /\ log'[Len(log) + 1] = c
  BY <1>1, <1>2
<1>4. Written' = Written \cup {c} /\ c \notin Written /\ Whole' = Whole
  BY <1>1, <1>2 DEF Written, Whole
<1>5. \A i \in DOMAIN log' : i \in DOMAIN log \/ i = Len(log) + 1
  BY <1>3
<1>6. LogOK'
  <2>1. stage' \in [Logged -> Stages] /\ stamp' = stamp /\ time' = time
    BY <1>1, <1>2 DEF Stages
  <2>2. \A i \in DOMAIN log' : log'[i] \in Logged => log'[i] \in Written'
    BY <1>2, <1>3, <1>4, <1>5
  <2>3. Cardinality(Written \cup {c}) = Cardinality(Written) + 1
    BY <1>4, WritersIn, FS_AddElement
  <2>4. Len(log') = Cardinality(Written') + Cardinality(Whole')
    BY <1>2, <1>3, <1>4, <2>3, WritersIn
  <2> QED BY <1>2, <1>3, <2>1, <2>2, <2>4 DEF LogOK
<1>7. \A i \in DOMAIN log' : i > Len(log) => log'[i] \in Logged \/ log'[i] = time
  BY <1>3, <1>5
<1> QED BY <1>1, <1>3, <1>6, <1>7, GrowthCounted

LEMMA AppendEndCounts ==
    ASSUME Reading, NEW c \in Logged, AppendEnd(c)
    PROVE  Reading'
<1>1. /\ stage[c] = "half" /\ stage' = [stage EXCEPT ![c] = "logged"] /\ log' = Append(log, time)
      /\ UNCHANGED <<time, stamp, passVars>>
  BY DEF AppendEnd, Move
<1>2. /\ stage \in [Logged -> Stages] /\ stamp \in [Logged -> Nat] /\ time \in Nat /\ log \in Seq(Logged \cup Nat)
      /\ \A i \in DOMAIN log : log[i] \in Logged => log[i] \in Written
      /\ Len(log) = Cardinality(Written) + Cardinality(Whole)
  BY DEF Reading, LogOK
<1>3. /\ Len(log) \in Nat /\ Len(log') = Len(log) + 1 /\ DOMAIN log' = 1..Len(log) + 1 /\ DOMAIN log = 1..Len(log)
      /\ log' \in Seq(Logged \cup Nat) /\ \A i \in DOMAIN log : log'[i] = log[i]
      /\ log'[Len(log) + 1] = time
  BY <1>1, <1>2
<1>4. Written' = Written /\ Whole' = Whole \cup {c} /\ c \notin Whole
  BY <1>1, <1>2 DEF Written, Whole
<1>5. \A i \in DOMAIN log' : i \in DOMAIN log \/ i = Len(log) + 1
  BY <1>3
<1>6. LogOK'
  <2>1. stage' \in [Logged -> Stages] /\ stamp' = stamp /\ time' = time
    BY <1>1, <1>2 DEF Stages
  <2>2. \A i \in DOMAIN log' : log'[i] \in Logged => log'[i] \in Written'
    <3>1. time \notin Logged
      BY <1>2, AuditAssumption
    <3> QED BY <1>2, <1>3, <1>4, <1>5, <3>1
  <2>3. Cardinality(Whole \cup {c}) = Cardinality(Whole) + 1
    BY <1>4, WritersIn, FS_AddElement
  <2>4. Len(log') = Cardinality(Written') + Cardinality(Whole')
    BY <1>2, <1>3, <1>4, <2>3, WritersIn
  <2> QED BY <1>2, <1>3, <2>1, <2>2, <2>4 DEF LogOK
<1>7. \A i \in DOMAIN log' : i > Len(log) => log'[i] \in Logged \/ log'[i] = time
  BY <1>3, <1>5
<1> QED BY <1>1, <1>3, <1>6, <1>7, GrowthCounted

\* A pass stops at the last whole line, and no line that is no entry is counted
\* by two: the ones it counts are those past where the last pass stopped.
LEMMA PassTakes ==
    ASSUME LogOK, offset \in LineEnds \cup {0}, Pass
    PROVE  /\ offset' \in LineEnds \cup {0} /\ offset' \in Nat /\ \A e \in LineEnds : e <= offset'
           /\ \A e \in LineEnds : e > offset => e \in Taken
           /\ Malformed = {e \in LineEnds : ~Entry(e) /\ e > offset}
<1>1. /\ Begin \in LineEnds \cup {0} /\ Begin <= offset /\ Begin \in Nat /\ offset \in Nat
  BY BeginIs
<1>2. /\ Len(log) \in Nat /\ \A e \in LineEnds : e \in Nat /\ 0 < e /\ e <= Len(log)
  BY EndsIn
<1>3. PICK b : b = Begin
  OBVIOUS
<1>4. b \in LineEnds \cup {0} /\ b <= offset /\ b \in Nat /\ Taken = {e \in LineEnds : e > b}
  BY <1>1, <1>3 DEF Taken
<1>5. /\ offset' \in LineEnds \cup {0} /\ offset' \in Nat /\ \A e \in LineEnds : e <= offset'
  <2> DEFINE Read == Taken \cup {b}
  <2>1. Read \in SUBSET Nat /\ Read # {} /\ \A y \in Read : y <= Len(log)
    <3>1. \A y \in Read : y \in LineEnds \/ y = 0
      BY <1>4
    <3>2. \A y \in Read : y \in Nat /\ y <= Len(log)
      BY <1>2, <3>1
    <3> QED BY <3>2
  <2>2. offset' = Max(Read)
    BY <1>3 DEF Pass
  <2>3. b \in Read /\ \A e \in LineEnds : e > b => e \in Read
    BY <1>4
  <2>4. \A y \in Read : y \in LineEnds \cup {0}
    BY <1>4
  <2> HIDE DEF Read
  <2>5. Max(Read) \in Read /\ \A y \in Read : y <= Max(Read)
    BY <1>2, <2>1, MaxIs
  <2>6. PICK m : m = Max(Read)
    OBVIOUS
  <2>7. m \in Read /\ m \in Nat /\ b <= m /\ \A e \in LineEnds : e > b => e <= m
    BY <2>1, <2>3, <2>5, <2>6
  <2>8. \A e \in LineEnds : e <= m
    BY <1>2, <1>4, <2>7
  <2> QED BY <2>2, <2>4, <2>6, <2>7, <2>8
<1>6. \A e \in LineEnds : e > offset => e \in Taken
  BY <1>1, <1>2, <1>4
<1>7. ASSUME NEW e \in LineEnds PROVE StartOf(e) >= offset <=> e > offset
  <2>1. PICK s : s = StartOf(e)
    OBVIOUS
  <2>2. s < e /\ s \in Nat /\ \A i \in LineEnds : i < e => i <= s
    BY <2>1, StartIs
  <2>3. offset < e => offset <= s
    BY <1>1, <1>2, <2>2
  <2> QED BY <1>1, <1>2, <2>1, <2>2, <2>3
<1>8. ASSUME NEW e PROVE e \in Malformed <=> e \in LineEnds /\ ~Entry(e) /\ e > offset
  <2>1. Taken \subseteq LineEnds
    BY <1>4
  <2> QED BY <1>6, <1>7, <2>1 DEF Malformed
<1>9. Malformed = {e \in LineEnds : ~Entry(e) /\ e > offset}
  BY <1>8
<1> QED BY <1>5, <1>6, <1>9

LEMMA PassCounts ==
    ASSUME Reading, Pass
    PROVE  Reading'
<1>1. /\ time = due /\ due' = due + Every /\ told' = told \cup (recent' \cap Crashing)
      /\ time' = time /\ log' = log /\ stage' = stage /\ stamp' = stamp
      /\ recent' = {CallOf(e) : e \in {x \in Taken : InMinute(x)}}
      /\ flagged' = [i \in DOMAIN flagged |-> flagged[i] + IF i \in Malformed THEN 1 ELSE 0]
  BY DEF Pass, logVars
<1>2. /\ LogOK /\ time \in Nat /\ due \in Nat /\ Every \in Nat /\ Minute \in Nat /\ offset \in LineEnds \cup {0}
      /\ flagged \in [1..2 * Cardinality(Logged) -> Nat] /\ stamp \in [Logged -> Nat]
      /\ \A e \in LineEnds : e \in Nat /\ 0 < e /\ log[e] \in Nat
  <2>1. LogOK /\ \A e \in LineEnds : e \in Nat /\ 0 < e /\ log[e] \in Nat
    BY EndsIn DEF Reading
  <2> QED BY <2>1, AuditAssumption DEF Reading, SentryOK, LogOK
<1>3. /\ offset' \in LineEnds \cup {0} /\ offset' \in Nat /\ \A e \in LineEnds : e <= offset'
      /\ \A e \in LineEnds : e > offset => e \in Taken
      /\ \A e : e \in Malformed <=> e \in LineEnds /\ ~Entry(e) /\ e > offset
  <2>1. Malformed = {e \in LineEnds : ~Entry(e) /\ e > offset}
    BY <1>2, PassTakes
  <2>2. /\ offset' \in LineEnds \cup {0} /\ offset' \in Nat /\ \A e \in LineEnds : e <= offset'
        /\ \A e \in LineEnds : e > offset => e \in Taken
    BY <1>2, PassTakes
  <2> QED BY <2>1, <2>2
<1>4. /\ LineEnds' = LineEnds /\ \A e : (Entry(e)' <=> Entry(e)) /\ CallOf(e)' = CallOf(e)
  BY <1>1 DEF LineEnds, StartOf, Entry, CallOf
<1>5. LogOK'
  BY <1>1, <1>2 DEF LogOK, Written, Whole
<1>6. offset \in Nat /\ offset <= offset'
  BY <1>2, <1>3
<1>7. /\ flagged' \in [1..2 * Cardinality(Logged) -> Nat]
      /\ \A i \in DOMAIN flagged : i \in Malformed => flagged'[i] = flagged[i] + 1
      /\ \A i \in DOMAIN flagged : i \notin Malformed => flagged'[i] = flagged[i]
      /\ DOMAIN flagged' = DOMAIN flagged
  <2>1. ASSUME NEW i \in DOMAIN flagged
        PROVE  flagged'[i] = flagged[i] + IF i \in Malformed THEN 1 ELSE 0
    BY <1>1
  <2>2. DOMAIN flagged' = DOMAIN flagged /\ flagged' = [i \in DOMAIN flagged' |-> flagged'[i]]
    BY <1>1
  <2>3. ASSUME NEW i \in DOMAIN flagged
        PROVE  /\ i \in Malformed => flagged'[i] = flagged[i] + 1
               /\ i \notin Malformed => flagged'[i] = flagged[i]
               /\ flagged'[i] \in Nat
    <3>1. flagged[i] \in Nat
      BY <1>2
    <3>2. CASE i \in Malformed
      BY <2>1, <3>1, <3>2
    <3>3. CASE i \notin Malformed
      BY <2>1, <3>1, <3>3
    <3> QED BY <3>2, <3>3
  <2> QED BY <1>2, <2>2, <2>3
<1>8. \A i \in DOMAIN flagged' : i > offset' => flagged'[i] = 0
  <2> SUFFICES ASSUME NEW i \in DOMAIN flagged, i > offset' PROVE flagged'[i] = 0
    BY <1>7
  <2>1. i \in Nat /\ i > offset
    BY <1>2, <1>3, <1>6
  <2>2. i \notin Malformed
    BY <1>2, <1>3, <2>1
  <2> QED BY <1>7, <2>1, <2>2 DEF Reading, SentryOK
<1>9. LineEnds \subseteq DOMAIN flagged
  BY <1>2, EndsFlagged
<1>10. MalformedOnce'
  <2> SUFFICES ASSUME NEW e \in LineEnds, ~Entry(e) PROVE flagged'[e] = 1 /\ e <= offset'
    BY <1>4 DEF MalformedOnce
  <2>1. e \in DOMAIN flagged /\ e <= offset'
    BY <1>3, <1>9
  <2>2. CASE e > offset
    <3>1. flagged[e] = 0 /\ e \in Malformed
      BY <1>3, <2>1, <2>2 DEF Reading, SentryOK
    <3> QED BY <1>7, <2>1, <3>1
  <2>3. CASE ~(e > offset)
    <3>1. e \notin Malformed
      BY <1>3, <2>3
    <3>2. e <= offset
      BY <1>2, <1>6, <2>3
    <3>3. flagged[e] = 1
      BY <3>2 DEF Reading, SentryOK, MalformedOnce
    <3> QED BY <1>7, <2>1, <3>1, <3>3
  <2> QED BY <2>2, <2>3
<1>11. SentryOK'
  <2>1. due' \in Nat /\ time' <= due' /\ due' <= time' + Every
    BY <1>1, <1>2
  <2> QED BY <1>3, <1>4, <1>7, <1>8, <1>10, <2>1 DEF SentryOK
<1>12. CrashInReach'
  <2> SUFFICES ASSUME NEW e \in LineEnds, Entry(e), CallOf(e) \in Crashing
               PROVE  \/ CallOf(e) \in told'
                      \/ log[e] - stamp[CallOf(e)] + Every > Minute
    BY <1>1, <1>4 DEF CrashInReach
  <2>1. CASE CallOf(e) \in told \/ log[e] - stamp[CallOf(e)] + Every > Minute
    BY <1>1, <2>1
  <2>2. CASE e > offset /\ due <= log[e] + Every /\ ~(log[e] - stamp[CallOf(e)] + Every > Minute)
    <3>1. CallOf(e) \in Logged
      BY AuditAssumption
    <3>2. PICK t, u : t = log[e] /\ u = stamp[CallOf(e)]
      OBVIOUS
    <3>3. t \in Nat /\ u \in Nat /\ due <= t + Every /\ t - u + Every <= Minute
      BY <1>2, <2>2, <3>1, <3>2
    <3>4. time - u <= Minute
      BY <1>1, <1>2, <3>3
    <3>5. InMinute(e) /\ e \in Taken
      BY <1>3, <2>2, <3>2, <3>4 DEF InMinute
    <3> QED BY <1>1, <3>5
  <2> QED BY <2>1, <2>2 DEF Reading, CrashInReach
<1> QED BY <1>5, <1>11, <1>12 DEF Reading

\* A sentry begun anew has counted nothing, and its first pass is at once.
LEMMA RestartCounts ==
    ASSUME Reading, Restarted
    PROVE  Reading'
<1>1. /\ offset' = 0 /\ due' = time /\ flagged' = [i \in DOMAIN flagged |-> 0] /\ told' = told
      /\ time' = time /\ log' = log /\ stage' = stage /\ stamp' = stamp
  BY DEF Restarted, logVars
<1>2. /\ LogOK /\ time \in Nat /\ due \in Nat /\ time <= due /\ Every \in Nat
      /\ flagged \in [1..2 * Cardinality(Logged) -> Nat]
      /\ \A e \in LineEnds : e \in Nat /\ 0 < e /\ log[e] \in Nat
  <2>1. LogOK /\ \A e \in LineEnds : e \in Nat /\ 0 < e /\ log[e] \in Nat
    BY EndsIn DEF Reading
  <2> QED BY <2>1, AuditAssumption DEF Reading, SentryOK, LogOK
<1>3. /\ LineEnds' = LineEnds /\ \A e : (Entry(e)' <=> Entry(e)) /\ CallOf(e)' = CallOf(e)
  BY <1>1 DEF LineEnds, StartOf, Entry, CallOf
<1>4. LogOK'
  BY <1>1, <1>2 DEF LogOK, Written, Whole
<1>5. MalformedOnce'
  <2> SUFFICES ASSUME NEW e \in LineEnds, ~Entry(e) PROVE flagged'[e] = IF e <= 0 THEN 1 ELSE 0
    BY <1>1, <1>3 DEF MalformedOnce
  <2>1. e \in DOMAIN flagged
    BY <1>2, EndsFlagged
  <2> QED BY <1>1, <1>2, <2>1
<1>6. SentryOK'
  <2>1. due' \in Nat /\ time' <= due' /\ due' <= time' + Every
    BY <1>1, <1>2
  <2>2. flagged' \in [1..2 * Cardinality(Logged) -> Nat] /\ \A i \in DOMAIN flagged' : flagged'[i] = 0
    BY <1>1, <1>2
  <2> QED BY <1>1, <1>5, <2>1, <2>2 DEF SentryOK
<1>7. CrashInReach'
  <2> SUFFICES ASSUME NEW e \in LineEnds, Entry(e), CallOf(e) \in Crashing
               PROVE  \/ CallOf(e) \in told
                      \/ log[e] - stamp[CallOf(e)] + Every > Minute
                      \/ e > 0 /\ time <= log[e] + Every
    BY <1>1, <1>3 DEF CrashInReach
  <2>1. e > 0 /\ (due <= log[e] + Every => time <= log[e] + Every)
    BY <1>2
  <2> QED BY <2>1 DEF Reading, CrashInReach
<1> QED BY <1>4, <1>6, <1>7 DEF Reading

LEMMA AuditTickCounts ==
    ASSUME Reading, AuditTick
    PROVE  Reading'
<1>1. /\ time < due /\ time' = time + 1 /\ log' = log /\ stage' = stage /\ stamp' = stamp
      /\ offset' = offset /\ due' = due /\ flagged' = flagged /\ told' = told
  BY DEF AuditTick, logVars, passVars
<1>2. time \in Nat /\ due \in Nat /\ due <= time + Every /\ Every \in Nat
  BY AuditAssumption DEF Reading, SentryOK, LogOK
<1>3. LogOK'
  BY <1>1, <1>2 DEF Reading, LogOK, Written, Whole
<1>4. /\ LineEnds' = LineEnds /\ \A e : (Entry(e)' <=> Entry(e)) /\ CallOf(e)' = CallOf(e)
  BY <1>1 DEF LineEnds, StartOf, Entry, CallOf
<1>5. SentryOK'
  BY <1>1, <1>2, <1>4 DEF Reading, SentryOK, MalformedOnce
<1>6. CrashInReach'
  BY <1>1, <1>4 DEF Reading, CrashInReach
<1> QED BY <1>3, <1>5, <1>6 DEF Reading

LEMMA ReadingInit == AuditInit => Reading
<1> SUFFICES ASSUME AuditInit PROVE Reading
  OBVIOUS
<1>1. Written = {} /\ Whole = {} /\ LineEnds = {}
  <2>1. \A c \in Logged : stage[c] = "out"
    BY DEF AuditInit
  <2>2. DOMAIN log = {}
    BY DEF AuditInit
  <2> QED BY <2>1, <2>2 DEF Written, Whole, LineEnds
<1>2. LogOK
  <2>1. Len(log) = 0 /\ log \in Seq(Logged \cup Nat) /\ DOMAIN log = {}
    BY DEF AuditInit
  <2>2. Cardinality({}) = 0
    BY FS_EmptySet
  <2>3. stage \in [Logged -> Stages] /\ stamp \in [Logged -> Nat] /\ time \in Nat
    BY DEF AuditInit, Stages
  <2> QED BY <1>1, <2>1, <2>2, <2>3 DEF LogOK
<1>3. SentryOK
  <2>1. flagged \in [1..2 * Cardinality(Logged) -> Nat] /\ \A i \in DOMAIN flagged : flagged[i] = 0
    BY DEF AuditInit
  <2>2. MalformedOnce
    BY <1>1 DEF MalformedOnce
  <2>3. due \in Nat /\ time <= due /\ due <= time + Every /\ offset = 0
    BY AuditAssumption DEF AuditInit
  <2> QED BY <2>1, <2>2, <2>3 DEF SentryOK
<1>4. CrashInReach
  BY <1>1 DEF CrashInReach
<1> QED BY <1>2, <1>3, <1>4 DEF Reading

LEMMA ReadingAlways == AuditSpec => []Reading
<1>1. ASSUME Reading, [AuditNext]_auditVars PROVE Reading'
  <2>1. CASE UNCHANGED auditVars
    <3>1. /\ time' = time /\ log' = log /\ stage' = stage /\ stamp' = stamp
          /\ offset' = offset /\ due' = due /\ flagged' = flagged /\ told' = told
      BY <2>1 DEF auditVars
    <3>2. LogOK'
      BY <1>1, <3>1 DEF Reading, LogOK, Written, Whole
    <3>3. /\ LineEnds' = LineEnds /\ \A e : (Entry(e)' <=> Entry(e)) /\ CallOf(e)' = CallOf(e)
      BY <3>1 DEF LineEnds, StartOf, Entry, CallOf
    <3>4. SentryOK'
      BY <1>1, <3>1, <3>3 DEF Reading, SentryOK, MalformedOnce
    <3>5. CrashInReach'
      BY <1>1, <3>1, <3>3 DEF Reading, CrashInReach
    <3> QED BY <3>2, <3>4, <3>5 DEF Reading
  <2>2. CASE AuditNext
    BY <1>1, <2>2, PassCounts, RestartCounts, AuditTickCounts, CalledCounts, Append1Counts,
       AppendBodyCounts, AppendEndCounts DEF AuditNext
  <2> QED BY <1>1, <2>1, <2>2
<1> QED BY <1>1, ReadingInit, PTL DEF AuditSpec

\* A line that is no audit entry is counted once by every sentry that reads past
\* it, and a crash whose line came early enough in its minute is counted.
THEOREM LogCounted == AuditSpec => []LinesCounted
<1>1. Reading => LinesCounted
  <2> SUFFICES ASSUME Reading PROVE LinesCounted
    OBVIOUS
  <2>1. MalformedOnce
    BY DEF Reading, SentryOK
  <2>2. CrashCounted
    <3> SUFFICES ASSUME NEW e \in LineEnds, e <= offset, Entry(e), CallOf(e) \in Crashing,
                        log[e] - stamp[CallOf(e)] + Every <= Minute
                 PROVE  CallOf(e) \in told
      BY DEF CrashCounted, CrashLines
    <3>1. e \in Nat /\ offset \in Nat /\ log[e] \in Nat
      BY EndsIn, BeginIs DEF Reading, SentryOK
    <3>2. stamp[CallOf(e)] \in Nat /\ Every \in Nat /\ Minute \in Nat
      BY AuditAssumption DEF Reading, LogOK
    <3>3. ~(e > offset) /\ ~(log[e] - stamp[CallOf(e)] + Every > Minute)
      BY <3>1, <3>2
    <3> QED BY <3>3 DEF Reading, CrashInReach
  <2> QED BY <2>1, <2>2 DEF LinesCounted
<1> QED BY <1>1, ReadingAlways, PTL

\* A pass counts the calls of the last minute whose lines are whole and within
\* its tail, and no others.
THEOREM PassExact == AuditSpec => RecentExact
<1> DEFINE Exact ==
        due' > due =>
          /\ \A e \in LineEnds : InMinute(e) /\ offset - StartOf(e) <= TailCells => CallOf(e) \in recent'
          /\ \A c \in recent' : time - stamp[c] <= Minute
<1>1. ASSUME Reading, [AuditNext]_auditVars PROVE [Exact]_auditVars
  <2> SUFFICES ASSUME due' > due PROVE Exact
    OBVIOUS
  <2>1. time \in Nat /\ due \in Nat /\ time <= due /\ LogOK /\ offset \in LineEnds \cup {0}
    BY <1>1 DEF Reading, SentryOK, LogOK
  <2>2. Pass
    <3>1. due' # due
      BY <2>1
    <3>2. ~Restarted
      BY <2>1 DEF Restarted
    <3>3. ~AuditTick /\ \A c \in Logged : ~(Called(c) \/ Append1(c) \/ AppendBody(c) \/ AppendEnd(c))
      BY <3>1 DEF AuditTick, Called, Append1, AppendBody, AppendEnd, passVars
    <3> QED BY <1>1, <3>1, <3>2, <3>3 DEF AuditNext, auditVars
  <2>3. recent' = {CallOf(e) : e \in {x \in Taken : InMinute(x)}}
    BY <2>2 DEF Pass
  <2>4. ASSUME NEW e \in LineEnds, InMinute(e), offset - StartOf(e) <= TailCells PROVE CallOf(e) \in recent'
    <3>1. StartOf(e) \in LineEnds \cup {0} /\ StartOf(e) < e /\ StartOf(e) \in Nat /\ e \in Nat
      BY <2>1, StartIs, EndsIn
    <3>2. Begin <= StartOf(e) /\ Begin \in Nat
      BY <2>1, <2>4, <3>1, BeginIs
    <3>3. e \in Taken
      BY <3>1, <3>2 DEF Taken
    <3> QED BY <2>3, <2>4, <3>3
  <2>5. \A c \in recent' : time - stamp[c] <= Minute
    BY <2>3 DEF InMinute
  <2> QED BY <2>4, <2>5
<1>2. AuditSpec => [][Exact]_auditVars
  <2> HIDE DEF Exact
  <2> QED BY <1>1, ReadingAlways, PTL DEF AuditSpec
<1> QED BY <1>2 DEF RecentExact

-----------------------------------------------------------------------------
(* The page: what it draws is what it was set to. *)

Settings == [draft : Drafts \cup {NoDraft}, weight : Weights \cup {NoWeight}]
Rows     == [inferred : Weights, value : Weights, storable : BOOLEAN]
Sent     == [press : Nat, weight : Weights, at : {"posted", "tuned", "lost"}, here : BOOLEAN]
Requests == [at : {"unsent", "sent", "served", "over"}, q : Settings]

\* The variables the replies are judged by have their types; the page has
\* sent a refresh once its timer has run out.
PageType ==
    /\ st \in Settings
    /\ inFile \in Weights
    /\ latest \in Nat /\ latest <= MaxAsks
    /\ facts \in [Asks -> Requests] /\ board \in [Asks -> Requests]
    /\ row \in Rows /\ stores \subseteq Sent /\ clicks \in Nat
    /\ ~pending => latest >= 1

\* The newest request of a page whose timer is not running asked for the page
\* as it is set; what has come of it is drawn.
AskedAsSet ==
    ~pending =>
        /\ facts[latest].at \in {"sent", "over"}
        /\ facts[latest].at = "sent" => facts[latest].q.draft = st.draft
        /\ facts[latest].at = "over" => FACTS = Unanswered \/ FACTS.draft = st.draft
        /\ board[latest].at \in {"sent", "served", "over"}
        /\ board[latest].at = "sent" => board[latest].q = st
        /\ board[latest].at = "served" /\ Heard => board[latest].q = Current
        /\ board[latest].at # "over" => busy
        /\ ~busy /\ Heard => INF \in {Unanswered, Current}

PageInv == PageType /\ AskedAsSet

\* A row and a store keep their shape as they change.
LEMMA RowAs ==
    ASSUME NEW r \in Rows, NEW w \in Weights, NEW b \in BOOLEAN
    PROVE  [r EXCEPT !.storable = b] \in Rows /\ [r EXCEPT !.value = w, !.storable = b] \in Rows
BY DEF Rows

LEMMA SentAs ==
    \A s \in Sent : /\ s.weight \in Weights /\ s.at \in {"posted", "tuned", "lost"}
                     /\ [s EXCEPT !.at = "tuned"] \in Sent /\ [s EXCEPT !.at = "tuned"].at = "tuned"
                     /\ [s EXCEPT !.at = "lost"] \in Sent /\ [s EXCEPT !.at = "lost"].at = "lost"
                     /\ [s EXCEPT !.here = FALSE] \in Sent /\ [s EXCEPT !.here = FALSE].at = s.at
BY DEF Sent

\* A page opens with its timer running.
LEMMA PageInvInit == PageInit => PageInv
<1> SUFFICES ASSUME PageInit PROVE PageInv
  OBVIOUS
<1>1. PageType
  BY PageAssumption DEF PageInit, PageType, Settings, Rows, Sent, Requests, Unsent, Unanswered, Asks, DrawnRow
<1> QED BY <1>1 DEF PageInv, AskedAsSet, PageInit

\* A step that leaves the requests alone and sets the timer keeps the invariant.
LEMMA TimerSet ==
    ASSUME PageInv, PageType', pending'
    PROVE  PageInv'
BY DEF PageInv, AskedAsSet

\* A step that leaves the page's settings, its requests and what is drawn
\* keeps the invariant, as long as no write is heard of in silence.
LEMMA PageKept ==
    ASSUME PageInv,
           UNCHANGED <<st, inFile, pending, latest, facts, board, FACTS, INF, busy>>,
           row' \in Rows, stores' \subseteq Sent, clicks' \in Nat,
           Heard' => Heard
    PROVE  PageInv'
BY DEF PageInv, PageType, AskedAsSet, Current, Solved

\* The user's steps: every one that changes what a refresh would ask for sets
\* the timer, and the refresh asks for the page as it is.
LEMMA UserStep ==
    ASSUME PageInv,
           \/ \E d \in Drafts : Choose(d)
           \/ \E w \in Weights : SetWeight(w)
           \/ Fire \/ Focus \/ Store \/ Press
    PROVE  PageInv'
<1> USE PageAssumption DEF PageInv, PageType, Settings, Requests, Rows, Clicks, drawn, record, cards, posting
<1>1. ASSUME NEW d \in Drafts, Choose(d) PROVE PageInv'
  <2>1. PageType' /\ pending'
    BY <1>1 DEF Choose
  <2> QED BY <2>1, TimerSet
<1>2. ASSUME NEW w \in Weights, SetWeight(w) PROVE PageInv'
  <2>1. row' = [row EXCEPT !.value = w, !.storable = w # row.inferred] /\ row \in Rows
    BY <1>2 DEF SetWeight
  <2>2. row' \in Rows /\ row.inferred \in Weights
    <3>1. (w # row.inferred) \in BOOLEAN
      OBVIOUS
    <3>2. row' \in Rows
      BY <2>1, <3>1, RowAs
    <3> QED BY <2>1, <3>2
  <2>3. st' \in Settings /\ clicks' \in Nat /\ pending'
    <3>1. st' = [draft |-> st.draft, weight |-> IF w = row.inferred THEN NoWeight ELSE w]
      BY <1>2 DEF SetWeight
    <3>2. st' \in Settings
      BY <3>1
    <3>3. clicks' = clicks + 1 /\ pending'
      BY <1>2 DEF SetWeight
    <3> QED BY <3>2, <3>3
  <2>4. PageType'
    BY <1>2, <2>2, <2>3 DEF SetWeight
  <2> QED BY <2>3, <2>4, TimerSet
<1>3. ASSUME Fire PROVE PageInv'
  <2>1. latest' \in Asks /\ latest' = latest + 1
    BY <1>3 DEF Fire, Asks
  <2>2. facts'[latest'] = [at |-> "sent", q |-> st] /\ board'[latest'] = [at |-> "sent", q |-> st]
    BY <1>3, <2>1 DEF Fire
  <2>3. facts' \in [Asks -> Requests] /\ board' \in [Asks -> Requests]
    BY <1>3, <2>1 DEF Fire, Closed, Unanswered
  <2>4. PageType'
    BY <1>3, <2>1, <2>3 DEF Fire, Asks
  <2> QED BY <1>3, <2>2, <2>4 DEF Fire, AskedAsSet
<1>4. ASSUME Focus PROVE PageInv'
  <2>1. PageType' /\ pending'
    BY <1>4 DEF Focus
  <2> QED BY <2>1, TimerSet
<1>5. ASSUME Store PROVE PageInv'
  <2>1. [press |-> clicks + 1, weight |-> row.value, at |-> "posted", here |-> TRUE] \in Sent
    BY DEF Sent
  <2>2. stores' \subseteq Sent /\ stores \subseteq stores' /\ unsure' = unsure
    BY <1>5, <2>1 DEF Store
  <2>3. row' \in Rows /\ clicks' \in Nat
    <3>1. row' = [row EXCEPT !.storable = FALSE] /\ clicks' = clicks + 1 /\ row \in Rows
      BY <1>5 DEF Store
    <3>2. row' \in Rows
      BY <3>1, RowAs
    <3> QED BY <3>1, <3>2
  <2>4. Heard' => Heard
    BY <2>2 DEF Heard
  <2> QED BY <1>5, <2>2, <2>3, <2>4, PageKept DEF Store
<1>6. ASSUME Press PROVE PageInv'
  BY <1>6, PageKept DEF Press, Heard
<1> QED BY <1>1, <1>2, <1>3, <1>4, <1>5, <1>6

\* The replies of the facts and the board: only the newest is drawn, and it
\* asked for the page as it is unless the timer runs.
LEMMA ReplyStep ==
    ASSUME PageInv, NEW n \in Asks,
           \/ Solve(n) \/ FactsAnswered(n) \/ BoardAnswered(n) \/ BoardFailed(n)
           \/ \E lost \in BOOLEAN : FactsFailed(n, lost)
    PROVE  PageInv'
<1> USE DEF PageInv, PageType, AskedAsSet, Heard, Settings, Requests, drawn, record,
            cards, posting, Newest, Current, Solved
<1>0. ~pending => latest \in Asks
  BY PageAssumption DEF Asks
<1>1. ASSUME Solve(n) PROVE PageInv'
  <2>1. board' \in [Asks -> Requests]
    BY <1>1 DEF Solve
  <2> QED BY <1>0, <1>1, <2>1 DEF Solve
<1>2. ASSUME FactsAnswered(n) PROVE PageInv'
  <2>1. facts' \in [Asks -> Requests]
    BY <1>2 DEF FactsAnswered, Closed, Unanswered
  <2> QED BY <1>0, <1>2, <2>1 DEF FactsAnswered, Closed
<1>3. ASSUME BoardAnswered(n) PROVE PageInv'
  <2>1. board' \in [Asks -> Requests]
    BY <1>3 DEF BoardAnswered, Closed, Unanswered
  <2> QED BY <1>0, <1>3, <2>1 DEF BoardAnswered, Closed
<1>4. ASSUME BoardFailed(n) PROVE PageInv'
  <2>1. board' \in [Asks -> Requests]
    BY <1>4 DEF BoardFailed, Closed, Unanswered
  <2> QED BY <1>0, <1>4, <2>1 DEF BoardFailed, Closed
<1>5. ASSUME NEW lost \in BOOLEAN, FactsFailed(n, lost) PROVE PageInv'
  <2>1. facts' \in [Asks -> Requests]
    BY <1>5 DEF FactsFailed, Closed, Unanswered
  <2> QED BY <1>0, <1>5, <2>1 DEF FactsFailed, Closed
<1> QED BY <1>1, <1>2, <1>3, <1>4, <1>5

\* What becomes of a store: one that answers has the board asked for again, one
\* that is written is heard of or leaves the page unsure, and so does one whose
\* reply to a written weight is lost.
LEMMA StoreStep ==
    ASSUME PageInv,
           \/ CardsRead
           \/ \E s \in stores : \/ Tuned(s) \/ StoreAnswered(s)
                               \/ \E late \in BOOLEAN : StoreFailed(s, late)
    PROVE  PageInv'
<1> USE PageAssumption DEF PageInv, PageType, drawn, record, cards, posting
<1>0. \A s \in stores : s \in Sent
  OBVIOUS
<1>1. ASSUME NEW s \in stores, Tuned(s) PROVE PageInv'
  <2>1. inFile' = s.weight /\ inFile' \in Weights /\ row' = row /\ clicks' = clicks
    BY <1>0, <1>1, SentAs DEF Tuned
  <2>2. stores' \subseteq Sent
    <3>1. \A x \in stores' : x \in stores \/ x = [s EXCEPT !.at = "tuned"]
      BY <1>1 DEF Tuned
    <3>2. [s EXCEPT !.at = "tuned"] \in Sent
      BY <1>0, SentAs
    <3> QED BY <1>0, <3>1, <3>2
  <2>3. CASE s.at = "posted"
    <3>1. \E x \in stores' : x.at = "tuned"
      BY <1>0, <1>1, <2>3, SentAs DEF Tuned
    <3> QED BY <1>1, <2>1, <2>2, <3>1 DEF Tuned, AskedAsSet, Heard
  <2>4. CASE s.at = "lost" /\ inFile # s.weight
    <3>1. unsure'
      BY <1>1, <2>4 DEF Tuned
    <3> QED BY <1>1, <2>1, <2>2, <3>1 DEF Tuned, AskedAsSet, Heard
  <2>5. CASE s.at = "lost" /\ inFile = s.weight
    <3>1. Heard' => Heard
      BY <1>1, <2>5 DEF Tuned, Heard
    <3> QED BY <1>1, <2>1, <2>2, <2>5, <3>1, PageKept DEF Tuned
  <2> QED BY <1>0, <1>1, <2>3, <2>4, <2>5, SentAs DEF Tuned
<1>2. ASSUME NEW s \in stores, StoreAnswered(s) PROVE PageInv'
  <2>1. PageType' /\ pending'
    BY <1>2 DEF StoreAnswered, Settings
  <2> QED BY <2>1, TimerSet
<1>3. ASSUME NEW s \in stores, NEW late \in BOOLEAN, StoreFailed(s, late) PROVE PageInv'
  <2>1. row' \in Rows /\ stores' \subseteq Sent /\ clicks' = clicks
    <3>1. row' \in Rows
      BY <1>3 DEF StoreFailed, Rows, Sent
    <3>2. stores' \subseteq Sent
      <4>1. \A x \in stores' : x \in stores \/ x = [s EXCEPT !.at = "lost"]
        BY <1>3 DEF StoreFailed
      <4>2. [s EXCEPT !.at = "lost"] \in Sent
        BY <1>0, SentAs
      <4> QED BY <1>0, <4>1, <4>2
    <3> QED BY <1>3, <3>1, <3>2 DEF StoreFailed
  <2>2. Heard' => Heard
    BY <1>3 DEF StoreFailed, Heard
  <2> QED BY <1>3, <2>1, <2>2, PageKept DEF StoreFailed
<1>4. ASSUME CardsRead PROVE PageInv'
  <2>1. row' \in Rows /\ stores' \subseteq Sent /\ clicks' = clicks
    <3>1. row' \in Rows
      BY <1>4 DEF CardsRead, DrawnRow, Settings, Rows
    <3>2. stores' \subseteq Sent
      <4>1. \A x \in stores' : \E s \in stores : x = [s EXCEPT !.here = FALSE]
        BY <1>4 DEF CardsRead
      <4>2. \A s \in stores : [s EXCEPT !.here = FALSE] \in Sent
        BY <1>0, SentAs
      <4> QED BY <4>1, <4>2
    <3> QED BY <1>4, <3>1, <3>2 DEF CardsRead
  <2>2. Heard' => Heard
    <3>1. \A s \in stores : [s EXCEPT !.here = FALSE] \in stores'
      BY <1>4 DEF CardsRead
    <3>2. unsure' = unsure
      BY <1>4 DEF CardsRead
    <3>3. (\A x \in stores' : x.at # "tuned") => \A s \in stores : s.at # "tuned"
      BY <1>0, <3>1, SentAs, Zenon
    <3> QED BY <3>2, <3>3 DEF Heard
  <2> QED BY <1>4, <2>1, <2>2, PageKept DEF CardsRead
<1> QED BY <1>1, <1>2, <1>3, <1>4

\* The replies of a result change nothing a board's reply is judged by.
LEMMA ResultStep ==
    ASSUME PageInv, NEW p \in posts,
           MatchAnswered(p) \/ \E kept \in BOOLEAN : MatchFailed(p, kept)
    PROVE  PageInv'
BY PageKept DEF MatchAnswered, MatchFailed, PageInv, PageType, Heard, drawn, cards, posting

LEMMA PageInvStep == PageInv /\ [PageNext]_pageVars => PageInv'
<1> SUFFICES ASSUME PageInv, [PageNext]_pageVars PROVE PageInv'
  OBVIOUS
<1>1. CASE UNCHANGED pageVars
  BY <1>1, PageKept DEF pageVars, cards, posting, PageInv, PageType, Heard
<1>2. CASE PageNext
  BY <1>2, UserStep, ReplyStep, StoreStep, ResultStep DEF PageNext
<1> QED BY <1>1, <1>2

\* A page that is at rest draws the facts and the solve its own settings ask
\* for, or nothing, in whatever order the replies came and however many failed.
THEOREM CurrentIsShown == PageSpec => []ShownIsCurrent
<1>1. PageInv => ShownIsCurrent
  BY DEF PageInv, PageType, AskedAsSet, Heard, ShownIsCurrent
<1> QED BY <1>1, PageInvInit, PageInvStep, PTL DEF PageSpec

-----------------------------------------------------------------------------
\* The page calls recorded only a board the server has recorded, though the
\* board changes while its post is on the way.
THEOREM StoredIsRecorded == PageSpec => []RecordedIsStored
<1>1. PageInit => RecordedIsStored
  BY DEF PageInit, RecordedIsStored
<1>2. RecordedIsStored /\ [PageNext]_pageVars => RecordedIsStored'
  <2> SUFFICES ASSUME RecordedIsStored, [PageNext]_pageVars PROVE RecordedIsStored'
    OBVIOUS
  <2>1. ASSUME UNCHANGED <<recordedKey, onRecord>> PROVE RecordedIsStored'
    BY <2>1 DEF RecordedIsStored
  <2>2. ASSUME NEW p \in posts, MatchAnswered(p) PROVE RecordedIsStored'
    BY <2>2 DEF MatchAnswered, KeyOf, RecordedIsStored
  <2>3. ASSUME NEW p \in posts, NEW kept \in BOOLEAN, MatchFailed(p, kept)
        PROVE  RecordedIsStored'
    BY <2>3 DEF MatchFailed, RecordedIsStored
  <2> QED
    BY <2>1, <2>2, <2>3
    DEF PageNext, pageVars, Choose, SetWeight, Fire, Focus, Solve, FactsAnswered,
        BoardAnswered, BoardFailed, FactsFailed, Store, Tuned, StoreAnswered,
        StoreFailed, CardsRead, Press, record
<1> QED BY <1>1, <1>2, PTL DEF PageSpec
=============================================================================
