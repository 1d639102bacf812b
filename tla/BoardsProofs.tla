---------------------------- MODULE BoardsProofs ----------------------------
(***************************************************************************)
(* Proofs about Boards, for every set of requests, clients and drafts,     *)
(* every size of the pool, and every number of workers that die:           *)
(* QueuesKept, PassesRead, SoonStopped and StepsAsService.                 *)
(*                                                                         *)
(* Core is the invariant under all four.  Its parts say which boards hold  *)
(* the shared executor (Asking, Holding), that a task outside its board's  *)
(* pooled pass is in no queue (Closed), and that a board's tasks are in    *)
(* one place each (Kept).  PassesRead adds where each task of the present  *)
(* round is (Placed) and how far the walk of the searches is (Walked);     *)
(* SoonStopped adds the rounds a replaced board may still send before it   *)
(* asks the Watch (Credit).                                                *)
(***************************************************************************)
EXTENDS Boards, TLAPS, FiniteSetTheorems, WellFoundedInduction

USE DEF readVars

-----------------------------------------------------------------------------
(* Induction, and what is left of a queue.                                 *)

\* A set of naturals has a least element.
LEMMA LeastNat == \A T \in SUBSET Nat : T # {} => \E x \in T : \A y \in T : x <= y
<1> SUFFICES ASSUME NEW T \in SUBSET Nat, T # {} PROVE \E x \in T : \A y \in T : x <= y
  OBVIOUS
<1>1. IsWellFoundedOn(OpToRel(<, Nat), Nat)
  BY NatLessThanWellFounded
<1>2. PICK x \in T : \A y \in T : ~(<<y, x>> \in OpToRel(<, Nat))
  BY <1>1, WFMin
<1>3. \A y \in T : ~(y < x)
  BY <1>2 DEF OpToRel
<1> QED BY <1>3

\* What holds of 0 and goes from each number to the next holds up to N.
LEMMA Upwards ==
    ASSUME NEW N \in Nat, NEW S, 0 \in S, \A n \in 0..N - 1 : n \in S => n + 1 \in S
    PROVE  0..N \subseteq S
<1> SUFFICES ASSUME 0..N \ S # {} PROVE FALSE
  OBVIOUS
<1>1. PICK x \in 0..N \ S : \A y \in 0..N \ S : x <= y
  <2>1. 0..N \ S \in SUBSET Nat
    OBVIOUS
  <2> QED BY <2>1, LeastNat, Zenon
<1>2. x # 0 /\ x - 1 \in S
  BY <1>1
<1> QED BY <1>1, <1>2

LEMMA RangeAppend ==
    ASSUME NEW S, NEW s \in Seq(S), NEW t \in S
    PROVE  Range(Append(s, t)) = Range(s) \cup {t}
<1> DEFINE a == Append(s, t)
<1>1. /\ Len(s) \in Nat /\ DOMAIN s = 1..Len(s) /\ DOMAIN a = 1..Len(s) + 1
      /\ a[Len(s) + 1] = t /\ \A i \in 1..Len(s) : a[i] = s[i]
  OBVIOUS
<1> HIDE DEF a
<1>2. {a[i] : i \in 1..Len(s) + 1} = {s[i] : i \in 1..Len(s)} \cup {t}
  BY <1>1
<1>3. Range(a) = {a[i] : i \in 1..Len(s) + 1} /\ Range(s) = {s[i] : i \in 1..Len(s)}
  BY <1>1 DEF Range
<1> QED BY <1>2, <1>3 DEF a

LEMMA RangeIn ==
    ASSUME NEW S, NEW s \in Seq(S), NEW t \in Range(s)
    PROVE  t \in S
<1>1. DOMAIN s = 1..Len(s) /\ \A i \in 1..Len(s) : s[i] \in S
  OBVIOUS
<1> QED BY <1>1 DEF Range

LEMMA RangeConcat ==
    ASSUME NEW S, NEW s \in Seq(S), NEW u \in Seq(S)
    PROVE  Range(s \o u) = Range(s) \cup Range(u)
<1> DEFINE c == s \o u
<1>1. /\ Len(s) \in Nat /\ DOMAIN s = 1..Len(s) /\ Len(u) \in Nat /\ DOMAIN u = 1..Len(u)
      /\ DOMAIN c = 1..Len(s) + Len(u)
      /\ \A i \in 1..Len(s) : c[i] = s[i]
      /\ \A i \in 1..Len(u) : c[Len(s) + i] = u[i]
      /\ \A i \in Len(s) + 1..Len(s) + Len(u) : c[i] = u[i - Len(s)]
  OBVIOUS
<1> HIDE DEF c
<1>2. {c[i] : i \in 1..Len(s) + Len(u)} = {s[i] : i \in 1..Len(s)} \cup {u[i] : i \in 1..Len(u)}
  <2>1. ASSUME NEW i \in 1..Len(s) + Len(u)
        PROVE  c[i] \in {s[j] : j \in 1..Len(s)} \cup {u[j] : j \in 1..Len(u)}
    <3>1. CASE i \in 1..Len(s)
      BY <1>1, <3>1
    <3>2. CASE i \notin 1..Len(s)
      <4>1. i \in Len(s) + 1..Len(s) + Len(u) /\ i - Len(s) \in 1..Len(u)
        BY <1>1, <3>2
      <4> QED BY <1>1, <4>1
    <3> QED BY <3>1, <3>2
  <2>2. ASSUME NEW j \in 1..Len(s) PROVE s[j] \in {c[i] : i \in 1..Len(s) + Len(u)}
    BY <1>1
  <2>3. ASSUME NEW j \in 1..Len(u) PROVE u[j] \in {c[i] : i \in 1..Len(s) + Len(u)}
    <3>1. Len(s) + j \in 1..Len(s) + Len(u) /\ u[j] = c[Len(s) + j]
      BY <1>1
    <3> QED BY <3>1
  <2> QED BY <2>1, <2>2, <2>3
<1>3. /\ Range(c) = {c[i] : i \in 1..Len(s) + Len(u)}
      /\ Range(s) = {s[i] : i \in 1..Len(s)} /\ Range(u) = {u[i] : i \in 1..Len(u)}
  BY <1>1 DEF Range
<1> QED BY <1>2, <1>3 DEF c

\* f is the recursion Without makes: each task of b is passed over.
RestOf(f, q, b, N) ==
    \A n \in 0..N : f[n] = IF n = 0 THEN <<>>
                           ELSE IF q[n].board = b THEN f[n - 1] ELSE Append(f[n - 1], q[n])

LEMMA RestExists ==
    ASSUME NEW S, NEW q \in Seq(S), NEW b
    PROVE  \E f \in [0..Len(q) -> Seq(S)] : RestOf(f, q, b, Len(q))
<1> DEFINE Reach == {m \in 0..Len(q) : \E f \in [0..m -> Seq(S)] : RestOf(f, q, b, m)}
<1>0. Len(q) \in Nat
  OBVIOUS
<1>1. 0 \in Reach
  <2> DEFINE f == [n \in 0..0 |-> <<>>]
  <2>1. f \in [0..0 -> Seq(S)] /\ RestOf(f, q, b, 0)
    BY DEF RestOf
  <2>2. \E h \in [0..0 -> Seq(S)] : RestOf(h, q, b, 0)
    BY <2>1
  <2> QED BY <2>2
<1>2. ASSUME NEW m \in 0..Len(q) - 1, m \in Reach PROVE m + 1 \in Reach
  <2>1. PICK f \in [0..m -> Seq(S)] : RestOf(f, q, b, m)
    BY <1>2
  <2> DEFINE new == IF q[m + 1].board = b THEN f[m] ELSE Append(f[m], q[m + 1])
             g == [n \in 0..m + 1 |-> IF n = m + 1 THEN new ELSE f[n]]
  <2>2. m + 1 \in 1..Len(q) /\ f[m] \in Seq(S) /\ q[m + 1] \in S
    OBVIOUS
  <2>3. g \in [0..m + 1 -> Seq(S)]
    BY <2>2
  <2>4. RestOf(g, q, b, m + 1)
    <3> HIDE DEF new
    <3>1. g[m + 1] = new /\ g[m] = f[m] /\ \A n \in 0..m : g[n] = f[n]
      OBVIOUS
    <3> HIDE DEF g
    <3>2. ASSUME NEW n \in 0..m + 1
          PROVE  g[n] = IF n = 0 THEN <<>>
                        ELSE IF q[n].board = b THEN g[n - 1] ELSE Append(g[n - 1], q[n])
      <4>1. CASE n = m + 1
        <5>1. n # 0 /\ n - 1 = m
          BY <4>1
        <5> QED BY <3>1, <4>1, <5>1 DEF new
      <4>2. CASE n # m + 1
        <5>1. n \in 0..m /\ (n # 0 => n - 1 \in 0..m)
          BY <4>2
        <5>2. f[n] = IF n = 0 THEN <<>>
                     ELSE IF q[n].board = b THEN f[n - 1] ELSE Append(f[n - 1], q[n])
          BY <2>1, <5>1, Zenon DEF RestOf
        <5>3. g[n] = f[n] /\ (n # 0 => g[n - 1] = f[n - 1])
          BY <3>1, <5>1
        <5> QED BY <5>2, <5>3
      <4> QED BY <4>1, <4>2
    <3> QED BY <3>2, Zenon DEF RestOf
  <2>5. \E h \in [0..m + 1 -> Seq(S)] : RestOf(h, q, b, m + 1)
    BY <2>3, <2>4
  <2> QED BY <2>2, <2>5
<1> HIDE DEF Reach
<1>3. 0..Len(q) \subseteq Reach
  BY <1>0, <1>1, <1>2, Upwards
<1>4. Len(q) \in Reach
  BY <1>0, <1>3
<1> QED BY <1>4 DEF Reach

LEMMA WithoutRest ==
    ASSUME NEW S, NEW q \in Seq(S), NEW b
    PROVE  \E f : RestOf(f, q, b, Len(q)) /\ Without(q, b) = f[Len(q)]
<1> DEFINE Def(h) == h = [n \in 0..Len(q) |->
            IF n = 0 THEN <<>>
            ELSE IF q[n].board = b THEN h[n - 1] ELSE Append(h[n - 1], q[n])]
<1>1. PICK f \in [0..Len(q) -> Seq(S)] : RestOf(f, q, b, Len(q))
  BY RestExists
<1>2. Def(f)
  BY <1>1 DEF RestOf
<1> DEFINE left == CHOOSE h : Def(h)
<1>3. Def(left)
  BY <1>2
<1>4. Without(q, b) = left[Len(q)]
  BY DEF Without
<1>5. RestOf(left, q, b, Len(q))
  BY <1>3 DEF RestOf
<1> HIDE DEF left
<1> QED BY <1>4, <1>5

\* No task stands twice in a queue.
Single(q) == \A i, j \in DOMAIN q : q[i] = q[j] => i = j

\* Without keeps the tasks of the others, and each as often as it was.
LEMMA WithoutIs ==
    ASSUME NEW S, NEW q \in Seq(S), NEW b
    PROVE  /\ Without(q, b) \in Seq(S)
           /\ Range(Without(q, b)) = {t \in Range(q) : t.board # b}
           /\ Single(q) => Single(Without(q, b))
<1>1. PICK f : RestOf(f, q, b, Len(q)) /\ Without(q, b) = f[Len(q)]
  BY WithoutRest
<1> DEFINE Good(n) == /\ f[n] \in Seq(S)
                      /\ Range(f[n]) = {t \in {q[i] : i \in 1..n} : t.board # b}
                      /\ Single(q) => Single(f[n])
           Reach == {n \in 0..Len(q) : Good(n)}
<1>0. Len(q) \in Nat /\ DOMAIN q = 1..Len(q)
  OBVIOUS
<1>2. 0 \in Reach
  <2>1. f[0] = <<>>
    BY <1>0, <1>1 DEF RestOf
  <2>2. Range(<<>>) = {} /\ Single(<<>>) /\ <<>> \in Seq(S)
    BY DEF Range, Single
  <2>3. {q[i] : i \in 1..0} = {}
    OBVIOUS
  <2>4. Good(0)
    BY <2>1, <2>2, <2>3
  <2> QED BY <1>0, <2>4
<1>3. ASSUME NEW n \in 0..Len(q) - 1, n \in Reach PROVE n + 1 \in Reach
  <2>1. f[n + 1] = IF q[n + 1].board = b THEN f[n] ELSE Append(f[n], q[n + 1])
    BY <1>1 DEF RestOf
  <2>2. q[n + 1] \in S /\ f[n] \in Seq(S) /\ n + 1 \in 0..Len(q)
    BY <1>3
  <2>3. Range(Append(f[n], q[n + 1])) = Range(f[n]) \cup {q[n + 1]}
    BY <2>2, RangeAppend
  <2>4. {q[i] : i \in 1..n + 1} = {q[i] : i \in 1..n} \cup {q[n + 1]}
    OBVIOUS
  <2>5. ASSUME Single(q), q[n + 1].board # b PROVE Single(Append(f[n], q[n + 1]))
    <3>1. \A i \in 1..n : q[i] # q[n + 1]
      BY <1>0, <2>5 DEF Single
    <3>2. DOMAIN f[n] = 1..Len(f[n]) /\ Len(f[n]) \in Nat
      BY <2>2
    <3>3. \A i \in 1..Len(f[n]) : f[n][i] \in Range(f[n])
      BY <3>2 DEF Range
    <3>4. \A i \in 1..Len(f[n]) : f[n][i] # q[n + 1]
      BY <1>3, <3>1, <3>3
    <3>5. Single(f[n])
      BY <1>3, <2>5
    <3> DEFINE a == Append(f[n], q[n + 1])
    <3>6. /\ DOMAIN a = 1..Len(f[n]) + 1 /\ a[Len(f[n]) + 1] = q[n + 1]
          /\ \A i \in 1..Len(f[n]) : a[i] = f[n][i]
      BY <2>2
    <3> HIDE DEF a
    <3>7. Single(a)
      BY <3>2, <3>4, <3>5, <3>6 DEF Single
    <3> QED BY <3>7 DEF a
  <2>6. Good(n + 1)
    BY <1>3, <2>1, <2>2, <2>3, <2>4, <2>5
  <2> QED BY <2>2, <2>6
<1>4. Len(q) \in Reach
  <2> HIDE DEF Reach
  <2>1. 0..Len(q) \subseteq Reach
    BY <1>0, <1>2, <1>3, Upwards
  <2> QED BY <1>0, <2>1
<1>5. Range(q) = {q[i] : i \in 1..Len(q)}
  BY <1>0 DEF Range
<1> QED BY <1>1, <1>4, <1>5

-----------------------------------------------------------------------------
(* What a board calls.                                                     *)

Ops == {"split", "rank", "sweep", "merge", "solved", "swept"}
CallSet == [op : Ops, of : Searches]
OneCall(op, s) == [op |-> op, of |-> s]

\* The calls every script starts with.
Opening == <<OneCall("split", "blue"), OneCall("split", "red"),
             OneCall("rank", "blue"), OneCall("rank", "red"),
             OneCall("sweep", "blue"), OneCall("sweep", "red"),
             OneCall("split", "fill"), OneCall("split", "redfill"),
             OneCall("sweep", "fill"), OneCall("sweep", "redfill"),
             OneCall("merge", "blue"), OneCall("merge", "red"),
             OneCall("solved", "blue"), OneCall("solved", "red"),
             OneCall("split", "against"), OneCall("sweep", "against"),
             OneCall("split", "answer"), OneCall("sweep", "answer"),
             OneCall("merge", "fill"), OneCall("merge", "redfill"),
             OneCall("merge", "against"), OneCall("merge", "answer")>>

LEMMA CallOne ==
    ASSUME NEW op \in Ops, NEW x \in Searches
    PROVE  /\ Call(op, <<x>>) \in Seq(CallSet) /\ Len(Call(op, <<x>>)) = 1
           /\ Call(op, <<x>>)[1] = OneCall(op, x)
           /\ Range(Call(op, <<x>>)) = {OneCall(op, x)}
<1> DEFINE c == [i \in 1..1 |-> [op |-> op, of |-> <<x>>[i]]]
<1>1. Call(op, <<x>>) = c
  BY DEF Call
<1>2. c[1] = OneCall(op, x) /\ OneCall(op, x) \in CallSet /\ DOMAIN c = 1..1
  BY DEF OneCall, CallSet
<1>3. c \in Seq(CallSet) /\ Len(c) = 1
  BY <1>2
<1> HIDE DEF c
<1>4. Range(c) = {OneCall(op, x)}
  BY <1>2 DEF Range
<1> QED BY <1>1, <1>2, <1>3, <1>4

LEMMA CallTwo ==
    ASSUME NEW op \in Ops, NEW x \in Searches, NEW y \in Searches
    PROVE  /\ Call(op, <<x, y>>) \in Seq(CallSet) /\ Len(Call(op, <<x, y>>)) = 2
           /\ Call(op, <<x, y>>)[1] = OneCall(op, x)
           /\ Call(op, <<x, y>>)[2] = OneCall(op, y)
<1> DEFINE c == [i \in 1..2 |-> [op |-> op, of |-> <<x, y>>[i]]]
<1>1. Call(op, <<x, y>>) = c
  BY DEF Call
<1>2. /\ c[1] = OneCall(op, x) /\ c[2] = OneCall(op, y)
      /\ OneCall(op, x) \in CallSet /\ OneCall(op, y) \in CallSet
  BY DEF OneCall, CallSet
<1>3. c \in Seq(CallSet) /\ Len(c) = 2
  BY <1>2
<1> QED BY <1>1, <1>2, <1>3

LEMMA CallFour ==
    ASSUME NEW op \in Ops, NEW x \in Searches, NEW y \in Searches,
           NEW z \in Searches, NEW w \in Searches
    PROVE  /\ Call(op, <<x, y, z, w>>) \in Seq(CallSet) /\ Len(Call(op, <<x, y, z, w>>)) = 4
           /\ Call(op, <<x, y, z, w>>)[1] = OneCall(op, x)
           /\ Call(op, <<x, y, z, w>>)[2] = OneCall(op, y)
           /\ Call(op, <<x, y, z, w>>)[3] = OneCall(op, z)
           /\ Call(op, <<x, y, z, w>>)[4] = OneCall(op, w)
<1> DEFINE c == [i \in 1..4 |-> [op |-> op, of |-> <<x, y, z, w>>[i]]]
<1>1. Call(op, <<x, y, z, w>>) = c
  BY DEF Call
<1>2. /\ c[1] = OneCall(op, x) /\ c[2] = OneCall(op, y)
      /\ c[3] = OneCall(op, z) /\ c[4] = OneCall(op, w)
      /\ \A i \in 1..4 : c[i] \in CallSet
  BY DEF OneCall, CallSet
<1>3. c \in Seq(CallSet) /\ Len(c) = 4
  BY <1>2
<1> QED BY <1>1, <1>2, <1>3

\* p is the first n calls of the opening.
Opens(p, n) == p \in Seq(CallSet) /\ Len(p) = n /\ \A i \in 1..n : p[i] = Opening[i]

LEMMA OpensOn ==
    ASSUME NEW n \in Nat, NEW p, NEW c, NEW k \in Nat, Opens(p, n), c \in Seq(CallSet), Len(c) = k,
           \A i \in 1..k : c[i] = Opening[n + i]
    PROVE  Opens(p \o c, n + k)
<1> DEFINE o == Opening
<1>0. \A i \in 1..k : c[i] = o[n + i]
  OBVIOUS
<1>1. p \in Seq(CallSet) /\ Len(p) = n /\ \A i \in 1..n : p[i] = o[i]
  BY DEF Opens
<1> HIDE DEF o
<1>2. p \o c \in Seq(CallSet) /\ Len(p \o c) = n + k
  BY <1>1
<1>3. ASSUME NEW i \in 1..n + k PROVE (p \o c)[i] = o[i]
  <2>1. CASE i <= n
    BY <1>1, <2>1
  <2>2. CASE i > n
    <3>1. i - n \in 1..k /\ (p \o c)[i] = c[i - n]
      BY <1>1, <2>2
    <3>2. c[i - n] = o[n + (i - n)]
      BY <1>0, <3>1, Zenon
    <3>3. n + (i - n) = i
      BY <1>3
    <3> QED BY <3>1, <3>2, <3>3
  <2>3. i <= n \/ i > n
    BY <1>3
  <2> QED BY <2>1, <2>2, <2>3, Zenon
<1> QED BY <1>2, <1>3 DEF Opens, o

LEMMA OpensTwo ==
    ASSUME NEW n \in Nat, NEW p, Opens(p, n), NEW i \in Nat, NEW j \in Nat, i = n + 1, j = n + 2,
           NEW op \in Ops, NEW x \in Searches, NEW y \in Searches,
           Opening[i] = OneCall(op, x), Opening[j] = OneCall(op, y)
    PROVE  Opens(p \o Call(op, <<x, y>>), j)
<1> DEFINE c == Call(op, <<x, y>>)
           o == Opening
<1>1. c \in Seq(CallSet) /\ Len(c) = 2 /\ c[1] = OneCall(op, x) /\ c[2] = OneCall(op, y)
  BY CallTwo
<1>2. o[n + 1] = OneCall(op, x) /\ o[n + 2] = OneCall(op, y)
  OBVIOUS
<1> HIDE DEF c, o
<1>3. \A k \in 1..2 : c[k] = o[n + k]
  BY <1>1, <1>2
<1>4. Opens(p \o c, n + 2)
  BY <1>1, <1>3, OpensOn DEF o
<1> QED BY <1>4 DEF c

LEMMA OpensOne ==
    ASSUME NEW n \in Nat, NEW p, Opens(p, n), NEW i \in Nat, i = n + 1,
           NEW op \in Ops, NEW x \in Searches, Opening[i] = OneCall(op, x)
    PROVE  Opens(p \o Call(op, <<x>>), i)
<1> DEFINE c == Call(op, <<x>>)
           o == Opening
<1>1. c \in Seq(CallSet) /\ Len(c) = 1 /\ c[1] = OneCall(op, x)
  BY CallOne
<1>2. o[n + 1] = OneCall(op, x)
  OBVIOUS
<1> HIDE DEF c, o
<1>3. \A k \in 1..1 : c[k] = o[n + k]
  BY <1>1, <1>2
<1>4. Opens(p \o c, n + 1)
  BY <1>1, <1>3, OpensOn DEF o
<1> QED BY <1>4 DEF c

LEMMA OpensFour ==
    ASSUME NEW n \in Nat, NEW p, Opens(p, n), n = 18,
           NEW op \in Ops, NEW x \in Searches, NEW y \in Searches,
           NEW z \in Searches, NEW w \in Searches,
           Opening[19] = OneCall(op, x), Opening[20] = OneCall(op, y),
           Opening[21] = OneCall(op, z), Opening[22] = OneCall(op, w)
    PROVE  Opens(p \o Call(op, <<x, y, z, w>>), 22)
<1> DEFINE c == Call(op, <<x, y, z, w>>)
           o == Opening
<1>1. /\ c \in Seq(CallSet) /\ Len(c) = 4 /\ c[1] = OneCall(op, x) /\ c[2] = OneCall(op, y)
      /\ c[3] = OneCall(op, z) /\ c[4] = OneCall(op, w)
  BY CallFour
<1>2. /\ o[19] = OneCall(op, x) /\ o[20] = OneCall(op, y)
      /\ o[21] = OneCall(op, z) /\ o[22] = OneCall(op, w)
  OBVIOUS
<1> HIDE DEF c, o
<1>3. \A k \in 1..4 : c[k] = o[n + k]
  BY <1>1, <1>2
<1>4. Opens(p \o c, n + 4)
  BY <1>1, <1>3, OpensOn DEF o
<1> QED BY <1>4 DEF c

LEMMA OpeningIs ==
    /\ Opening[1] = OneCall("split", "blue") /\ Opening[2] = OneCall("split", "red")
    /\ Opening[3] = OneCall("rank", "blue") /\ Opening[4] = OneCall("rank", "red")
    /\ Opening[5] = OneCall("sweep", "blue") /\ Opening[6] = OneCall("sweep", "red")
    /\ Opening[7] = OneCall("split", "fill") /\ Opening[8] = OneCall("split", "redfill")
    /\ Opening[9] = OneCall("sweep", "fill") /\ Opening[10] = OneCall("sweep", "redfill")
    /\ Opening[11] = OneCall("merge", "blue") /\ Opening[12] = OneCall("merge", "red")
    /\ Opening[13] = OneCall("solved", "blue") /\ Opening[14] = OneCall("solved", "red")
    /\ Opening[15] = OneCall("split", "against") /\ Opening[16] = OneCall("sweep", "against")
    /\ Opening[17] = OneCall("split", "answer") /\ Opening[18] = OneCall("sweep", "answer")
    /\ Opening[19] = OneCall("merge", "fill") /\ Opening[20] = OneCall("merge", "redfill")
    /\ Opening[21] = OneCall("merge", "against") /\ Opening[22] = OneCall("merge", "answer")
BY DEF Opening

\* A script: the opening, and then calls that ask and send nothing new out.
Shape(p) ==
    /\ p \in Seq(CallSet) /\ Len(p) >= 22
    /\ \A i \in 1..22 : p[i] = Opening[i]
    /\ \A i \in 23..Len(p) : p[i].op \in {"swept", "solved"}

Closes(c) == c \in Seq(CallSet) /\ \A i \in 1..Len(c) : c[i].op \in {"swept", "solved"}

LEMMA ShapeOn ==
    ASSUME NEW p, Shape(p), NEW c, Closes(c)
    PROVE  Shape(p \o c) /\ Range(p \o c) = Range(p) \cup Range(c)
<1> DEFINE o == Opening
<1>0. c \in Seq(CallSet) /\ \A i \in 1..Len(c) : c[i].op \in {"swept", "solved"}
  BY DEF Closes
<1>1. /\ p \in Seq(CallSet) /\ Len(p) >= 22 /\ \A i \in 1..22 : p[i] = o[i]
      /\ \A i \in 23..Len(p) : p[i].op \in {"swept", "solved"}
  BY DEF Shape
<1> HIDE DEF o
<1>2. /\ p \o c \in Seq(CallSet) /\ Len(p \o c) = Len(p) + Len(c)
      /\ Len(p) \in Nat /\ Len(c) \in Nat
      /\ \A i \in 1..Len(p) : (p \o c)[i] = p[i]
      /\ \A i \in Len(p) + 1..Len(p) + Len(c) : (p \o c)[i] = c[i - Len(p)]
  <2> HIDE DEF Shape, Closes
  <2>1. p \in Seq(CallSet) /\ c \in Seq(CallSet)
    BY <1>0, <1>1
  <2> QED BY <2>1
<1>3. ASSUME NEW i \in 23..Len(p \o c) PROVE (p \o c)[i].op \in {"swept", "solved"}
  <2>1. CASE i <= Len(p)
    BY <1>1, <1>2, <1>3, <2>1
  <2>2. CASE i > Len(p)
    <3>1. i - Len(p) \in 1..Len(c) /\ (p \o c)[i] = c[i - Len(p)]
      BY <1>2, <1>3, <2>2
    <3> QED BY <1>0, <3>1
  <2> QED BY <1>2, <1>3, <2>1, <2>2
<1>4. \A i \in 1..22 : (p \o c)[i] = o[i]
  <2>1. ASSUME NEW i \in 1..22 PROVE i \in 1..Len(p)
    <3>1. Len(p) \in Nat /\ 22 <= Len(p)
      BY <1>1, <1>2
    <3> QED BY <2>1, <3>1
  <2> QED BY <1>1, <1>2, <2>1
<1>5. Range(p \o c) = Range(p) \cup Range(c)
  BY <1>0, <1>1, RangeConcat
<1>6. Len(p \o c) >= 22
  BY <1>1, <1>2
<1> QED BY <1>2, <1>3, <1>4, <1>5, <1>6 DEF Shape, o

LEMMA ClosesOne ==
    ASSUME NEW op \in {"swept", "solved"}, NEW x \in Searches
    PROVE  Closes(Call(op, <<x>>)) /\ Closes(<<>>)
<1>1. op \in Ops
  BY DEF Ops
<1> DEFINE c == Call(op, <<x>>)
<1> HIDE DEF c
<1>2. c \in Seq(CallSet) /\ Len(c) = 1 /\ c[1] = OneCall(op, x) /\ OneCall(op, x).op = op
  BY <1>1, CallOne DEF OneCall, c
<1>3. Closes(c)
  BY <1>2 DEF Closes
<1>4. Closes(<<>>)
  BY DEF Closes
<1> QED BY <1>3, <1>4 DEF c

LEMMA ClosesTwo ==
    ASSUME NEW x, NEW y, Closes(x), Closes(y)
    PROVE  Closes(x \o y) /\ Range(x \o y) = Range(x) \cup Range(y)
<1>1. /\ x \in Seq(CallSet) /\ \A i \in 1..Len(x) : x[i].op \in {"swept", "solved"}
      /\ y \in Seq(CallSet) /\ \A i \in 1..Len(y) : y[i].op \in {"swept", "solved"}
  BY DEF Closes
<1>2. /\ x \o y \in Seq(CallSet) /\ Len(x \o y) = Len(x) + Len(y)
      /\ Len(x) \in Nat /\ Len(y) \in Nat
      /\ \A i \in 1..Len(x) : (x \o y)[i] = x[i]
      /\ \A i \in Len(x) + 1..Len(x) + Len(y) : (x \o y)[i] = y[i - Len(x)]
  <2>1. x \in Seq(CallSet) /\ y \in Seq(CallSet)
    BY <1>1
  <2> QED BY <2>1
<1>3. ASSUME NEW i \in 1..Len(x \o y) PROVE (x \o y)[i].op \in {"swept", "solved"}
  <2>1. CASE i <= Len(x)
    BY <1>1, <1>2, <1>3, <2>1
  <2>2. CASE i > Len(x)
    <3>1. i - Len(x) \in 1..Len(y) /\ (x \o y)[i] = y[i - Len(x)]
      BY <1>2, <1>3, <2>2
    <3> QED BY <1>1, <3>1
  <2> QED BY <1>2, <1>3, <2>1, <2>2
<1>4. Range(x \o y) = Range(x) \cup Range(y)
  BY <1>1, RangeConcat
<1> QED BY <1>2, <1>3, <1>4 DEF Closes

LEMMA WantedIn == ASSUME NEW b \in Requests PROVE Wanted[b] \subseteq Searches
BY DEF Wanted, Searches

LEMMA ScriptIs ==
    ASSUME NEW b \in Requests
    PROVE  /\ Shape(Script[b])
           /\ \A s \in Wanted[b] : OneCall("solved", s) \in Range(Script[b])
<1>0. /\ {"split", "rank", "sweep", "merge", "solved", "swept"} \subseteq Ops
      /\ {"blue", "red", "fill", "redfill", "against", "answer"} \subseteq Searches
  BY DEF Ops, Searches
<1> DEFINE p1 == Call("split", <<"blue", "red">>)
           p2 == p1 \o Call("rank", <<"blue", "red">>)
           p3 == p2 \o Call("sweep", <<"blue", "red">>)
           p4 == p3 \o Call("split", <<"fill", "redfill">>)
           p5 == p4 \o Call("sweep", <<"fill", "redfill">>)
           p6 == p5 \o Call("merge", <<"blue", "red">>)
           p7 == p6 \o Call("solved", <<"blue", "red">>)
           p8 == p7 \o Call("split", <<"against">>)
           p9 == p8 \o Call("sweep", <<"against">>)
           p10 == p9 \o Call("split", <<"answer">>)
           p11 == p10 \o Call("sweep", <<"answer">>)
           p12 == p11 \o Call("merge", <<"fill", "redfill", "against", "answer">>)
<1>1. Opens(p1, 2)
  <2> HIDE DEF p1
  <2>1. p1 \in Seq(CallSet) /\ Len(p1) = 2 /\ p1[1] = Opening[1] /\ p1[2] = Opening[2]
    BY <1>0, CallTwo, OpeningIs DEF p1
  <2> QED BY <2>1 DEF Opens
<1>2. Opens(p2, 4)
  <2> HIDE DEF p1
  <2> QED BY <1>0, <1>1, OpeningIs, OpensTwo
<1>3. Opens(p3, 6)
  <2> HIDE DEF p2
  <2> QED BY <1>0, <1>2, OpeningIs, OpensTwo
<1>4. Opens(p4, 8)
  <2> HIDE DEF p3
  <2> QED BY <1>0, <1>3, OpeningIs, OpensTwo
<1>5. Opens(p5, 10)
  <2> HIDE DEF p4
  <2> QED BY <1>0, <1>4, OpeningIs, OpensTwo
<1>6. Opens(p6, 12)
  <2> HIDE DEF p5
  <2> QED BY <1>0, <1>5, OpeningIs, OpensTwo
<1>7. Opens(p7, 14)
  <2> HIDE DEF p6
  <2> QED BY <1>0, <1>6, OpeningIs, OpensTwo
<1>8. Opens(p8, 15)
  <2> HIDE DEF p7
  <2> QED BY <1>0, <1>7, OpeningIs, OpensOne
<1>9. Opens(p9, 16)
  <2> HIDE DEF p8
  <2> QED BY <1>0, <1>8, OpeningIs, OpensOne
<1>10. Opens(p10, 17)
  <2> HIDE DEF p9
  <2> QED BY <1>0, <1>9, OpeningIs, OpensOne
<1>11. Opens(p11, 18)
  <2> HIDE DEF p10
  <2> QED BY <1>0, <1>10, OpeningIs, OpensOne
<1>12. Opens(p12, 22)
  <2> HIDE DEF p11
  <2> QED BY <1>0, <1>11, OpeningIs, OpensFour
<1>13. Shape(p12) /\ {OneCall("solved", "blue"), OneCall("solved", "red")} \subseteq Range(p12)
  <2> HIDE DEF p12
  <2>1. Shape(p12)
    BY <1>12 DEF Opens, Shape
  <2>2. DOMAIN p12 = 1..22 /\ p12[13] = OneCall("solved", "blue") /\ p12[14] = OneCall("solved", "red")
    BY <1>12, OpeningIs DEF Opens
  <2>3. 13 \in DOMAIN p12 /\ 14 \in DOMAIN p12
    BY <2>2
  <2> QED BY <2>1, <2>2, <2>3 DEF Range
<1> DEFINE w1 == When(Blue[b] = "six", Call("swept", <<"blue">>))
           w2 == When(Red[b] = "six", Call("swept", <<"red">>))
           w3 == When(Drafting(Blue[b]), Call("solved", <<"fill">>))
           w4 == When(Drafting(Red[b]), Call("solved", <<"redfill">>))
           u == IF Drafting(Blue[b]) THEN Call("solved", <<"answer">>)
                ELSE Call("swept", <<"against">>)
           w5 == When("against" \in Wanted[b], Call("solved", <<"against">>) \o u)
           q1 == p12 \o w1
           q2 == q1 \o w2
           q3 == q2 \o w3
           q4 == q3 \o w4
           q5 == q4 \o w5
           x == Call("solved", <<"against">>)
<1>14. Script[b] = q5
  BY Zenon DEF Script
<1>15. Closes(w1) /\ Closes(w2) /\ Closes(w3) /\ Closes(w4) /\ Closes(u) /\ Closes(x)
       /\ Closes(<<>>)
  BY <1>0, ClosesOne DEF When
<1>16. Closes(w5)
  <2> HIDE DEF x, u
  <2>1. Closes(x \o u)
    BY <1>15, ClosesTwo
  <2> QED BY <1>15, <2>1 DEF When, x
<1> HIDE DEF p12, w1, w2, w3, w4, w5, u, x
<1>17. Shape(q1) /\ Range(q1) = Range(p12) \cup Range(w1)
  BY <1>13, <1>15, ShapeOn
<1>18. Shape(q2) /\ Range(q2) = Range(q1) \cup Range(w2)
  <2> HIDE DEF q1
  <2> QED BY <1>15, <1>17, ShapeOn
<1>19. Shape(q3) /\ Range(q3) = Range(q2) \cup Range(w3)
  <2> HIDE DEF q2
  <2> QED BY <1>15, <1>18, ShapeOn
<1>20. Shape(q4) /\ Range(q4) = Range(q3) \cup Range(w4)
  <2> HIDE DEF q3
  <2> QED BY <1>15, <1>19, ShapeOn
<1>21. Shape(q5) /\ Range(q5) = Range(q4) \cup Range(w5)
  <2> HIDE DEF q4
  <2> QED BY <1>16, <1>20, ShapeOn
<1>22. ASSUME NEW s \in Wanted[b] PROVE OneCall("solved", s) \in Range(q5)
  <2> HIDE DEF q1, q2, q3, q4, q5
  <2>1. CASE s \in {"blue", "red"}
    BY <1>13, <1>17, <1>18, <1>19, <1>20, <1>21, <2>1
  <2>2. CASE s = "fill"
    <3>1. Drafting(Blue[b])
      BY <1>22, <2>2 DEF Wanted
    <3>2. OneCall("solved", s) \in Range(w3)
      BY <1>0, <2>2, <3>1, CallOne DEF w3, When
    <3> QED BY <1>19, <1>20, <1>21, <3>2
  <2>3. CASE s = "redfill"
    <3>1. Drafting(Red[b])
      BY <1>22, <2>3 DEF Wanted
    <3>2. OneCall("solved", s) \in Range(w4)
      BY <1>0, <2>3, <3>1, CallOne DEF w4, When
    <3> QED BY <1>20, <1>21, <3>2
  <2>4. CASE s \in {"against", "answer"}
    <3>1. "against" \in Wanted[b] /\ (s = "answer" => Drafting(Blue[b]))
      BY <1>22, <2>4 DEF Wanted, Drafting
    <3>2. w5 = x \o u
      BY <3>1 DEF w5, When, x
    <3>3. Range(w5) = Range(x) \cup Range(u)
      BY <1>15, <3>2, ClosesTwo
    <3>4. OneCall("solved", "against") \in Range(x)
      BY <1>0, CallOne DEF x
    <3>5. s = "answer" => OneCall("solved", "answer") \in Range(u)
      BY <1>0, <3>1, CallOne DEF u
    <3> QED BY <1>21, <2>4, <3>3, <3>4, <3>5
  <2>5. s \in {"blue", "red", "fill", "redfill", "against", "answer"}
    BY <1>22, WantedIn DEF Searches
  <2> QED BY <2>1, <2>2, <2>3, <2>4, <2>5
<1> QED BY <1>14, <1>21, <1>22, Zenon

-----------------------------------------------------------------------------
(* The invariants.                                                         *)

\* Only a pooled board waits, in a call that is no split of a search it wants.
Asking ==
    \A b \in Requests : asked[b] =>
        /\ pc[b] = "pooled" /\ at[b] <= Len(Script[b])
        /\ Op(b) # "split" /\ Of(b) \in Wanted[b]

\* A board holds an executor while it is pooled.  No more were made than
\* boards loaded.
Holding ==
    /\ \A b \in Requests : (uses[b] # 0 <=> pc[b] = "pooled") /\ uses[b] <= made
    /\ current <= made
    /\ made <= Cardinality({b \in Requests : pc[b] \notin {"sent", "ticketed"}})

\* Nothing is queued on an executor that takes no tasks, and a task that
\* broke was on a dead one.
Closed ==
    /\ \A e \in dead \cup shut : queue[e] = <<>>
    /\ \A t \in broken : uses[t.board] \in dead

\* What is queued is of a pooled board, on the executor it holds.
Kept ==
    \A e \in Executors : \A t \in Range(queue[e]) :
        pc[t.board] = "pooled" /\ uses[t.board] = e

\* A task is in one place, and in the round its search is in.
Due(t) == t \in Range(TasksOf(t.board, t.search, phase[t.board][t.search]))
Placed ==
    /\ \A e \in Executors :
          /\ Single(queue[e])
          /\ \A t \in Range(queue[e]) : Due(t) /\ t \notin running[e] \cup done
          /\ \A t \in running[e] :
                /\ pc[t.board] \notin {"sent", "ticketed"}
                /\ pc[t.board] = "pooled" => uses[t.board] = e /\ Due(t) /\ t \notin done
    /\ \A t \in done : pc[t.board] = "pooled" /\ Due(t)

\* How far a round is, and how far each call takes its search.
Level(round) ==
    CASE round = "none" -> 0 [] round = "sampling" -> 1 [] round \in {"tallying", "scaled"} -> 2
      [] round = "sweeping" -> 3 [] round = "ranking" -> 4 [] OTHER -> 5
Target(call) ==
    CASE call.op = "split" -> (IF ScaleOf(call.of) = call.of THEN 1 ELSE 2)
      [] call.op = "rank" -> 2 [] call.op = "sweep" -> 3 [] call.op = "merge" -> 4
      [] call.op = "solved" -> 5 [] OTHER -> 0

\* A search a pooled board has sent out is one it wants, and as far as the
\* calls before this one take it.
Walked ==
    \A b \in Requests :
        /\ pc[b] \in {"sent", "ticketed"} => at[b] = 1 /\ \A s \in Searches : phase[b][s] = "none"
        /\ pc[b] = "pooled" =>
              /\ at[b] \in 1..Len(Script[b]) + 1
              /\ \A i \in 1..at[b] - 1 : Script[b][i].of \in Wanted[b] =>
                    Level(phase[b][Script[b][i].of]) >= Target(Script[b][i])
              /\ \A s \in Searches : phase[b][s] # "none" =>
                    s \in Wanted[b] /\ \E i \in 1..at[b] - 1 : Script[b][i].of = s
              /\ asked[b] => ~Reached(Op(b), phase[b][Of(b)])

\* The rounds a board may yet send out before a call of its asks the Watch.
Rounds(b) ==
    IF pc[b] # "pooled" \/ at[b] > Len(Script[b]) THEN 0
    ELSE IF Op(b) = "split" THEN (IF at[b] = 1 THEN 2 ELSE IF at[b] \in {2, 15} THEN 1 ELSE 0)
    ELSE IF ~asked[b] THEN 0
    ELSE CASE Op(b) = "rank" -> 1
           [] Op(b) = "sweep" -> (IF phase[b][Of(b)] = "sampling" THEN 2 ELSE 1)
           [] Op(b) = "merge" -> 1
           [] OTHER -> IF at[b] = 14 THEN 1 ELSE 0
Credit ==
    \A b \in Requests :
        /\ ticket[b] <= newest[LaneOf[b]]
        /\ late[b] + Rounds(b) <= 2
        /\ pc[b] \in {"sent", "ticketed"} => late[b] = 0
        /\ pc[b] = "pooled" /\ ~Superseded(b) => late[b] = 0
Core == TypeOK /\ Asking /\ Holding /\ Closed /\ Kept

-----------------------------------------------------------------------------
(* The tasks of a round.                                                   *)

LEMMA SlicesIn == ASSUME NEW s PROVE Slices(s) \in 1..Size
<1>1. Size \in Nat \ {0}
  BY BoardsAssumption
<1>2. Size \div 2 \in Nat /\ Size \div 2 < Size
  BY <1>1
<1>3. Half \in 1..Size /\ (Size # 1 => Half < Size) /\ (Size = 1 => Half = 1)
  BY <1>1, <1>2 DEF Half, AtLeastOne
<1> QED BY <1>1, <1>3 DEF Slices, AtLeastOne

\* The rounds that are spread over slices.
Sliced == {"sampling", "tallying", "sweeping"}

\* A round's tasks are its own, and apart; only four rounds have any.
LEMMA TasksAre ==
    ASSUME NEW b \in Requests, NEW s \in Searches, NEW r \in Phases
    PROVE  /\ TasksOf(b, s, r) \in Seq(Task)
           /\ Single(TasksOf(b, s, r))
           /\ \A t \in Range(TasksOf(b, s, r)) : t.board = b /\ t.search = s /\ t.round = r
           /\ TasksOf(b, s, r) # <<>> <=> r \in Sliced \cup {"ranking"}
<1> DEFINE n == CASE r \in Sliced -> Slices(s) [] r = "ranking" -> 1 [] OTHER -> 0
           task(i) == [board |-> b, search |-> s, round |-> r, slice |-> i]
           ts == [i \in 1..n |-> task(i)]
<1>1. Size \in Nat \ {0} /\ Slices(s) \in 1..Size
  BY BoardsAssumption, SlicesIn
<1>2. n \in 0..Size /\ (n = 0 <=> r \notin Sliced \cup {"ranking"})
  <2>1. CASE r \in Sliced
    BY <1>1, <2>1
  <2>2. CASE r = "ranking"
    BY <1>1, <2>2 DEF Sliced
  <2>3. CASE r \notin Sliced /\ r # "ranking"
    BY <1>1, <2>3
  <2> QED BY <2>1, <2>2, <2>3
<1>3. TasksOf(b, s, r) = ts
  BY DEF TasksOf, Sliced
<1> HIDE DEF n
<1>4. \A i \in 1..n : task(i) \in Task
  BY <1>1, <1>2 DEF Task
<1>5. ts \in Seq(Task)
  BY <1>1, <1>2, <1>4
<1>6. DOMAIN ts = 1..n /\ \A i \in 1..n : ts[i] = task(i)
  OBVIOUS
<1>7. Single(ts)
  BY <1>6 DEF Single
<1>8. \A t \in Range(ts) : t.board = b /\ t.search = s /\ t.round = r
  BY <1>6 DEF Range
<1>9. ts # <<>> <=> n # 0
  <2>1. Len(ts) = n
    BY <1>1, <1>2, <1>5
  <2>2. CASE n = 0
    BY <1>5, <2>1, <2>2
  <2>3. CASE n # 0
    BY <2>1, <2>3
  <2> QED BY <2>2, <2>3
<1> QED BY <1>2, <1>3, <1>5, <1>7, <1>8, <1>9

LEMMA NextRoundIs ==
    ASSUME NEW r \in Phases
    PROVE  NextRound(r) \in Phases /\ NextRound(r) \notin {"none", "sampling", "scaled"}
           /\ (NextRound(r) \in Sliced \cup {"ranking"} => NextRound(r) # r)
BY DEF NextRound, Phases, Sliced

\* What a board sends out is tasks of its own, and only a pooled board's.
LEMMA SendsAre ==
    ASSUME TypeOK, Asking, NEW b \in Requests
    PROVE  /\ Sends(b) \in Seq(Task) /\ Single(Sends(b))
           /\ \A t \in Range(Sends(b)) : t.board = b
           /\ Sends(b) # <<>> => pc[b] = "pooled"
<1>1. CASE /\ Live(b) /\ at[b] <= Len(Script[b]) /\ Op(b) = "split" /\ IsSplit(b)
  <2> DEFINE r == IF ScaleOf(Of(b)) = Of(b) THEN "sampling" ELSE "scaled"
  <2>1. r \in Phases /\ Of(b) \in Searches /\ pc[b] = "pooled"
    BY <1>1, WantedIn DEF IsSplit, Phases
  <2>2. Sends(b) = TasksOf(b, Of(b), r)
    BY <1>1 DEF Sends
  <2> HIDE DEF r
  <2> QED BY <2>1, <2>2, TasksAre
<1>2. CASE /\ ~(Live(b) /\ at[b] <= Len(Script[b]) /\ Op(b) = "split" /\ IsSplit(b))
           /\ InCall(b) /\ Awaited(b) \subseteq done
  <2> DEFINE r == NextRound(phase[b][Of(b)])
  <2>1. Of(b) \in Searches /\ pc[b] = "pooled"
    BY <1>2, WantedIn DEF InCall, Asking
  <2>2. r \in Phases
    BY <2>1, NextRoundIs DEF TypeOK
  <2>3. Sends(b) = TasksOf(b, Of(b), r)
    BY <1>2 DEF Sends
  <2> HIDE DEF r
  <2> QED BY <2>1, <2>2, <2>3, TasksAre
<1>3. CASE /\ ~(Live(b) /\ at[b] <= Len(Script[b]) /\ Op(b) = "split" /\ IsSplit(b))
           /\ ~(InCall(b) /\ Awaited(b) \subseteq done)
  <2>1. Sends(b) = <<>>
    BY <1>3 DEF Sends
  <2>2. <<>> \in Seq(Task) /\ Single(<<>>) /\ Range(<<>>) = {}
    BY DEF Single, Range
  <2> QED BY <2>1, <2>2
<1> QED BY <1>1, <1>2, <1>3

\* A board's submitting adds its tasks to the executor it holds.
LEMMA SubmitAdds ==
    ASSUME Core, NEW b \in Requests, pc[b] = "pooled", Submit(b)
    PROVE  /\ uses[b] \in Executors
           /\ queue' \in [Executors -> Seq(Task)]
           /\ \A e \in Executors : e # uses[b] => queue'[e] = queue[e]
           /\ queue'[uses[b]] = queue[uses[b]] \o Sends(b)
           /\ Range(queue'[uses[b]]) = Range(queue[uses[b]]) \cup Range(Sends(b))
<1>1. uses[b] \in Executors
  BY DEF Core, TypeOK, Holding
<1>2. Sends(b) \in Seq(Task)
  BY SendsAre DEF Core
<1>3. queue[uses[b]] \in Seq(Task)
  BY <1>1 DEF Core, TypeOK
<1>4. queue' = [queue EXCEPT ![uses[b]] = queue[uses[b]] \o Sends(b)]
  BY DEF Submit
<1>5. queue[uses[b]] \o Sends(b) \in Seq(Task)
  BY <1>2, <1>3
<1>6. queue \in [Executors -> Seq(Task)]
  BY DEF Core, TypeOK
<1>7. Range(queue[uses[b]] \o Sends(b)) = Range(queue[uses[b]]) \cup Range(Sends(b))
  BY <1>2, <1>3, RangeConcat
<1> QED BY <1>1, <1>4, <1>5, <1>6, <1>7
-----------------------------------------------------------------------------
(* NothingQueuedBehind.                                                    *)

Loaded == {b \in Requests : pc[b] \notin {"sent", "ticketed"}}

\* The boards that loaded only grow, and one more board makes one more.
LEMMA LoadedCount ==
    /\ IsFiniteSet(Loaded) /\ Cardinality(Loaded) \in Nat
    /\ Cardinality(Loaded) <= Cardinality(Requests) /\ Cardinality(Requests) \in Nat
    /\ \A b \in Requests \ Loaded : /\ Cardinality(Loaded \cup {b}) = Cardinality(Loaded) + 1
                                    /\ Cardinality(Loaded) + 1 <= Cardinality(Requests)
<1>1. IsFiniteSet(Requests) /\ Loaded \subseteq Requests
  BY BoardsAssumption DEF Loaded
<1>2. IsFiniteSet(Loaded) /\ Cardinality(Loaded) <= Cardinality(Requests)
  BY <1>1, FS_Subset
<1>3. Cardinality(Loaded) \in Nat /\ Cardinality(Requests) \in Nat
  BY <1>1, <1>2, FS_CardinalityType
<1>4. ASSUME NEW b \in Requests \ Loaded
      PROVE  /\ Cardinality(Loaded \cup {b}) = Cardinality(Loaded) + 1
             /\ Cardinality(Loaded) + 1 <= Cardinality(Requests)
  <2>1. Cardinality(Loaded \cup {b}) = Cardinality(Loaded) + 1
    BY <1>2, <1>4, FS_AddElement
  <2>2. Loaded \cup {b} \subseteq Requests
    BY <1>1
  <2>3. Cardinality(Loaded \cup {b}) <= Cardinality(Requests)
    BY <1>1, <2>2, FS_Subset
  <2> QED BY <2>1, <2>3
<1> QED BY <1>2, <1>3, <1>4

LEMMA CoreInit == Init => Core
<1> SUFFICES ASSUME Init PROVE Core
  OBVIOUS
<1>1. Cardinality(Requests) \in Nat /\ Cardinality(Loaded) \in Nat
  BY LoadedCount
<1>2. TypeOK
  <2>1. \A c \in Requests : [s \in Searches |-> "none"] \in [Searches -> Phases]
    BY DEF Phases
  <2> QED BY <1>1, <2>1, BoardsAssumption DEF Init, TypeOK, Executors, Outcomes
<1>3. Asking
  BY DEF Init, Asking
<1>4. Holding
  BY <1>1 DEF Init, Holding, Loaded
<1>5. Closed
  BY DEF Init, Closed
<1>6. Kept
  <2>1. Range(<<>>) = {}
    BY DEF Range
  <2> QED BY <2>1 DEF Init, Kept
<1> QED BY <1>2, <1>3, <1>4, <1>5, <1>6 DEF Core

LEMMA QueuedTask ==
    ASSUME TypeOK, NEW e \in Executors, NEW t \in Range(queue[e])
    PROVE  t \in Task /\ t.board \in Requests
<1>1. queue[e] \in Seq(Task)
  BY DEF TypeOK
<1>2. t \in Task
  BY <1>1, RangeIn
<1> QED BY <1>2 DEF Task

\* What Holding says of the count is kept where no board leaves Loaded.
LEMMA LoadedSame ==
    ASSUME TypeOK, \A c \in Requests : pc'[c] \in {"sent", "ticketed"} <=> pc[c] \in {"sent", "ticketed"}
    PROVE  {c \in Requests : pc'[c] \notin {"sent", "ticketed"}} = Loaded
BY DEF Loaded

LEMMA TakeCore ==
    ASSUME Core, NEW b \in Requests, Take(b)
    PROVE  Core'
<1> USE DEF Core
<1>0. LaneOf[b] \in Clients /\ pc' = [pc EXCEPT ![b] = "ticketed"] /\ pc[b] = "sent"
  BY BoardsAssumption DEF Take
<1>1. TypeOK'
  <2>1. newest' \in [Clients -> Nat] /\ newest'[LaneOf[b]] \in Nat
    BY <1>0 DEF Take, TypeOK
  <2>2. ticket' \in [Requests -> Nat]
    BY <2>1 DEF Take, TypeOK
  <2> QED BY <1>0, <2>1, <2>2 DEF Take, TypeOK, poolVars, taskVars
<1>2. Asking'
  BY <1>0 DEF Take, TypeOK, Asking, Op, Of
<1>3. Holding'
  <2>1. {c \in Requests : pc'[c] \notin {"sent", "ticketed"}} = Loaded
    BY <1>0, LoadedSame DEF TypeOK
  <2> QED BY <1>0, <2>1 DEF Take, TypeOK, Holding, Loaded, poolVars
<1>4. Closed'
  BY DEF Take, Closed, poolVars, taskVars
<1>5. Kept'
  BY <1>0 DEF Take, TypeOK, Kept, poolVars, taskVars
<1> QED BY <1>1, <1>2, <1>3, <1>4, <1>5

LEMMA LoadCore ==
    ASSUME Core, NEW b \in Requests, Load(b)
    PROVE  Core'
<1> USE DEF Core
<1>1. /\ pc[b] = "ticketed" /\ uses[b] = 0 /\ pc'[b] \in {"pooled", "here"}
      /\ \A c \in Requests : c # b => pc'[c] = pc[c] /\ uses'[c] = uses[c]
  BY DEF Load, TypeOK, Holding
<1>2. \A c \in Requests : \A e \in Executors : \A t \in Range(queue[e]) : t.board # b
  BY <1>1 DEF Kept
<1>3. made + 1 \in Executors /\ made \in Nat
  <2>1. b \in Requests \ Loaded
    BY <1>1 DEF Loaded
  <2>2. made \in Nat /\ made <= Cardinality(Loaded)
    BY LoadedCount DEF Holding, TypeOK, Loaded, Executors
  <2>3. Cardinality(Loaded) + 1 <= Cardinality(Requests)
    BY <2>1, LoadedCount, Zenon
  <2>4. Cardinality(Loaded) \in Nat /\ Cardinality(Requests) \in Nat
    BY LoadedCount
  <2> QED BY <2>2, <2>3, <2>4 DEF Executors
<1>4. /\ made' \in {0} \cup Executors /\ current' \in {0} \cup Executors
      /\ made <= made' /\ current' <= made' /\ made' <= made + 1
  BY <1>3 DEF Load, TypeOK, Holding, Executors
<1>5. /\ pc'[b] = "pooled" => uses'[b] = current' /\ current' # 0
      /\ pc'[b] = "here" => uses' = uses
      /\ uses' \in [Requests -> {0} \cup Executors]
  <2>1. CASE b \in Pooled
    <3>1. current' # 0 /\ uses' = [uses EXCEPT ![b] = current']
      BY <1>3, <2>1 DEF Load
    <3>2. pc'[b] = "pooled"
      BY <2>1 DEF Load, TypeOK
    <3> QED BY <1>4, <3>1, <3>2 DEF TypeOK
  <2>2. CASE b \notin Pooled
    <3>1. pc'[b] = "here" /\ uses' = uses
      BY <2>2 DEF Load, TypeOK
    <3> QED BY <3>1 DEF TypeOK
  <2> QED BY <2>1, <2>2
<1>6. TypeOK'
  BY <1>4, <1>5 DEF Load, TypeOK, taskVars
<1>7. Asking'
  BY <1>1 DEF Load, Asking, Op, Of
<1>8. Holding'
  <2>1. {c \in Requests : pc'[c] \notin {"sent", "ticketed"}} = Loaded \cup {b}
    BY <1>1 DEF Loaded
  <2>2. Cardinality(Loaded \cup {b}) = Cardinality(Loaded) + 1 /\ Cardinality(Loaded) \in Nat
    BY <1>1, LoadedCount DEF Loaded
  <2>3. made' <= Cardinality(Loaded \cup {b})
    BY <1>3, <1>4, <2>2 DEF Holding, Loaded, TypeOK, Executors
  <2>4. \A c \in Requests : (uses'[c] # 0 <=> pc'[c] = "pooled") /\ uses'[c] <= made'
    <3> TAKE c \in Requests
    <3>1. CASE c = b
      BY <1>1, <1>3, <1>4, <1>5, <3>1
    <3>2. CASE c # b
      BY <1>1, <1>3, <1>4, <3>2 DEF Holding, TypeOK, Executors
    <3> QED BY <3>1, <3>2
  <2> QED BY <1>4, <2>1, <2>3, <2>4 DEF Holding
<1>9. Closed'
  <2>1. \A t \in broken : t.board # b
    BY <1>1, LoadedCount DEF Closed, TypeOK, Executors
  <2>2. broken \subseteq Task
    BY DEF TypeOK
  <2> QED BY <1>1, <2>1, <2>2 DEF Load, Closed, taskVars, Task
<1>10. Kept'
  <2>1. \A e \in Executors : \A t \in Range(queue[e]) : t.board \in Requests
    BY QueuedTask
  <2> QED BY <1>1, <1>2, <2>1 DEF Load, Kept, taskVars
<1> QED BY <1>6, <1>7, <1>8, <1>9, <1>10

LEMMA LoadRaisesCore ==
    ASSUME Core, NEW b \in Requests, LoadRaises(b)
    PROVE  Core'
<1> USE DEF Core
<1>1. /\ pc' = [pc EXCEPT ![b] = "failed"] /\ pc[b] = "ticketed" /\ pc'[b] = "failed"
      /\ \A c \in Requests : c # b => pc'[c] = pc[c]
  BY DEF LoadRaises, TypeOK
<1>2. TypeOK'
  BY <1>1 DEF LoadRaises, TypeOK, Outcomes, boardVars, poolVars, taskVars
<1>3. Asking'
  BY <1>1 DEF LoadRaises, Asking, Op, Of
<1>4. Holding'
  <2>1. {c \in Requests : pc'[c] \notin {"sent", "ticketed"}} = Loaded \cup {b}
    BY <1>1 DEF Loaded
  <2>2. Cardinality(Loaded \cup {b}) = Cardinality(Loaded) + 1 /\ Cardinality(Loaded) \in Nat
    BY <1>1, LoadedCount DEF Loaded
  <2>3. made \in Nat /\ made <= Cardinality(Loaded \cup {b})
    BY <2>2 DEF Holding, Loaded, TypeOK, Executors
  <2> QED BY <1>1, <2>1, <2>3 DEF LoadRaises, Holding, poolVars
<1>5. Closed'
  BY DEF LoadRaises, Closed, poolVars, taskVars
<1>6. Kept'
  BY <1>1, QueuedTask DEF LoadRaises, Kept, taskVars
<1> QED BY <1>2, <1>3, <1>4, <1>5, <1>6

\* Whatever cannot be read, or can again, the boards are where they were.
LEMMA ReadsCore ==
    ASSUME Core, NEW what \in Sources, Lose(what) \/ Regain(what)
    PROVE  Core'
<1> USE DEF Core
<1>1. TypeOK'
  BY DEF Lose, Regain, TypeOK, boardVars, walk, poolVars, taskVars
<1>2. Asking' /\ Holding' /\ Closed' /\ Kept'
  BY DEF Lose, Regain, Asking, Holding, Closed, Kept, Op, Of, walk, poolVars, taskVars
<1> QED BY <1>1, <1>2

\* A step that submits moves no board's place in the pool.
LEMMA SubmitCore ==
    ASSUME Core, NEW b \in Requests, pc[b] = "pooled", Submit(b), Accepts(b),
           pc' = pc, uses' = uses, dead' = dead, shut' = shut, broken' = broken
    PROVE  Closed' /\ Kept'
<1> USE DEF Core
<1>1. /\ uses[b] \in Executors /\ Range(queue'[uses[b]]) = Range(queue[uses[b]]) \cup Range(Sends(b))
      /\ queue'[uses[b]] = queue[uses[b]] \o Sends(b)
      /\ \A e \in Executors : e # uses[b] => queue'[e] = queue[e]
  BY SubmitAdds
<1>2. Sends(b) = <<>> => queue'[uses[b]] = queue[uses[b]]
  <2>1. queue[uses[b]] \in Seq(Task)
    BY <1>1 DEF TypeOK
  <2> QED BY <1>1, <2>1
<1>3. Closed'
  BY <1>1, <1>2 DEF Closed, Accepts, TypeOK
<1>4. Kept'
  <2>1. \A t \in Range(Sends(b)) : t.board = b
    BY SendsAre
  <2>2. ASSUME NEW e \in Executors, NEW t \in Range(queue'[e])
        PROVE  pc[t.board] = "pooled" /\ uses[t.board] = e
    <3>1. CASE t \in Range(queue[e])
      BY <3>1 DEF Kept
    <3>2. CASE t \notin Range(queue[e])
      <4>1. e = uses[b] /\ t \in Range(Sends(b))
        BY <1>1, <2>2, <3>2
      <4> QED BY <2>1, <4>1
    <3> QED BY <3>1, <3>2
  <2> QED BY <2>2 DEF Kept
<1> QED BY <1>3, <1>4

LEMMA SplitCore ==
    ASSUME Core, NEW b \in Requests, Split(b)
    PROVE  Core'
<1> USE DEF Core
<1>1. at' = [at EXCEPT ![b] = @ + 1] /\ asked' = [asked EXCEPT ![b] = FALSE]
  BY DEF Split, NextCall
<1>2. late' \in [Requests -> Nat] /\ queue' \in [Executors -> Seq(Task)] /\ Closed' /\ Kept'
  <2>1. CASE IsSplit(b)
    <3>1. Submit(b) /\ pc[b] = "pooled" /\ Accepts(b)
      BY <2>1 DEF Split, IsSplit
    <3>2. late' \in [Requests -> Nat]
      BY <3>1 DEF Submit, TypeOK
    <3> QED BY <3>1, <3>2, SubmitAdds, SubmitCore DEF Split, poolVars
  <2>2. CASE ~IsSplit(b)
    BY <2>2 DEF Split, TypeOK, Closed, Kept, poolVars
  <2> QED BY <2>1, <2>2
<1>3. phase' \in [Requests -> [Searches -> Phases]]
  <2>1. CASE IsSplit(b)
    <3> DEFINE r == IF ScaleOf(Of(b)) = Of(b) THEN "sampling" ELSE "scaled"
    <3>1. r \in Phases /\ phase' = [phase EXCEPT ![b][Of(b)] = r]
      BY <2>1 DEF Split, Phases
    <3> HIDE DEF r
    <3> QED BY <3>1 DEF TypeOK
  <2>2. CASE ~IsSplit(b)
    BY <2>2 DEF Split, TypeOK
  <2> QED BY <2>1, <2>2
<1>4. TypeOK'
  <2>1. at' \in [Requests -> Nat] /\ asked' \in [Requests -> BOOLEAN]
    BY <1>1 DEF TypeOK
  <2> QED BY <1>2, <1>3, <2>1 DEF Split, TypeOK, poolVars
<1>5. Asking'
  BY <1>1 DEF Split, Asking, Op, Of, TypeOK
<1>6. Holding'
  BY DEF Split, Holding, poolVars
<1> QED BY <1>2, <1>4, <1>5, <1>6

LEMMA NextCallIs ==
    ASSUME TypeOK, NEW b \in Requests, NextCall(b)
    PROVE  /\ at' \in [Requests -> Nat] /\ asked' \in [Requests -> BOOLEAN]
           /\ at'[b] = at[b] + 1 /\ ~asked'[b]
           /\ \A c \in Requests \ {b} : at'[c] = at[c] /\ asked'[c] = asked[c]
BY DEF NextCall, TypeOK

LEMMA PassCore ==
    ASSUME Core, NEW b \in Requests, Pass(b)
    PROVE  Core'
<1> USE DEF Core
<1>1. /\ at' \in [Requests -> Nat] /\ asked' \in [Requests -> BOOLEAN]
      /\ \A c \in Requests \ {b} : at'[c] = at[c] /\ asked'[c] = asked[c]
      /\ asked'[b] => IsSplit(b) /\ at' = at
  <2>1. CASE IsSplit(b) /\ ~Reached(Op(b), phase[b][Of(b)])
    BY <2>1 DEF Pass, TypeOK
  <2>2. CASE ~(IsSplit(b) /\ ~Reached(Op(b), phase[b][Of(b)]))
    BY <2>2, NextCallIs DEF Pass
  <2> QED BY <2>1, <2>2
<1>2. TypeOK'
  BY <1>1 DEF Pass, TypeOK, boardVars, poolVars, taskVars
<1>3. Asking'
  BY <1>1 DEF Pass, Asks, IsSplit, Asking, Op, Of, TypeOK
<1>4. Holding' /\ Closed' /\ Kept'
  BY DEF Pass, Holding, Closed, Kept, poolVars, taskVars
<1> QED BY <1>2, <1>3, <1>4

LEMMA GatherCore ==
    ASSUME Core, NEW b \in Requests, Gather(b)
    PROVE  Core'
<1> USE DEF Core
<1>1. /\ at' \in [Requests -> Nat] /\ asked' \in [Requests -> BOOLEAN]
      /\ \A c \in Requests \ {b} : at'[c] = at[c] /\ asked'[c] = asked[c]
      /\ asked'[b] => at' = at
  <2> DEFINE round == NextRound(phase[b][Of(b)])
  <2>1. CASE Reached(Op(b), round)
    BY <2>1, NextCallIs DEF Gather
  <2>2. CASE ~Reached(Op(b), round)
    BY <2>2 DEF Gather, TypeOK
  <2> QED BY <2>1, <2>2
<1>2. Submit(b) /\ pc[b] = "pooled" /\ Accepts(b) /\ Of(b) \in Searches /\ asked[b]
  BY WantedIn DEF Gather, InCall, Asking
<1>3. phase' \in [Requests -> [Searches -> Phases]]
  <2>1. NextRound(phase[b][Of(b)]) \in Phases
    BY <1>2, NextRoundIs DEF TypeOK
  <2> QED BY <1>2, <2>1 DEF Gather, TypeOK
<1>4. late' \in [Requests -> Nat] /\ queue' \in [Executors -> Seq(Task)] /\ Closed' /\ Kept'
  <2>1. late' \in [Requests -> Nat]
    BY <1>2 DEF Submit, TypeOK
  <2> QED BY <1>2, <2>1, SubmitAdds, SubmitCore DEF Gather, poolVars
<1>5. TypeOK'
  BY <1>1, <1>3, <1>4 DEF Gather, TypeOK, poolVars
<1>6. Asking'
  BY <1>1, <1>2 DEF Gather, Asking, Op, Of, TypeOK
<1>7. Holding'
  BY DEF Gather, Holding, poolVars
<1> QED BY <1>4, <1>5, <1>6, <1>7

\* cancel_all: what is left of each queue.
LEMMA CancelAllIs ==
    ASSUME TypeOK, NEW b \in Requests, CancelAll(b)
    PROVE  /\ queue' \in [Executors -> Seq(Task)]
           /\ \A e \in Executors :
                 /\ Range(queue'[e]) = {t \in Range(queue[e]) : t.board # b}
                 /\ queue[e] = <<>> => queue'[e] = <<>>
                 /\ Single(queue[e]) => Single(queue'[e])
<1>1. ASSUME NEW e \in Executors
      PROVE  /\ queue'[e] \in Seq(Task)
             /\ Range(queue'[e]) = {t \in Range(queue[e]) : t.board # b}
             /\ queue[e] = <<>> => queue'[e] = <<>>
             /\ Single(queue[e]) => Single(queue'[e])
  <2>1. queue[e] \in Seq(Task) /\ queue'[e] = Without(queue[e], b)
    BY DEF CancelAll, TypeOK
  <2>2. /\ Without(queue[e], b) \in Seq(Task)
        /\ Range(Without(queue[e], b)) = {t \in Range(queue[e]) : t.board # b}
        /\ Single(queue[e]) => Single(Without(queue[e], b))
    BY <2>1, WithoutIs, Zenon
  <2>3. ASSUME queue[e] = <<>> PROVE queue'[e] = <<>>
    <3> DEFINE q == queue'[e]
    <3>1. q \in Seq(Task) /\ Range(q) = {}
      BY <2>1, <2>2, <2>3 DEF Range
    <3>2. \A i \in 1..Len(q) : q[i] \in Range(q)
      BY <3>1 DEF Range
    <3> HIDE DEF q
    <3>3. Len(q) = 0
      BY <3>1, <3>2
    <3>4. q = <<>>
      BY <3>1, <3>3
    <3> QED BY <3>4 DEF q
  <2> QED BY <2>1, <2>2, <2>3
<1>2. queue' = [e \in Executors |-> queue'[e]]
  BY DEF CancelAll
<1> QED BY <1>1, <1>2

LEMMA PassEndsTyped ==
    ASSUME TypeOK, NEW b \in Requests, PassEnds(b)
    PROVE  /\ at' \in [Requests -> Nat] /\ asked' \in [Requests -> BOOLEAN]
           /\ phase' \in [Requests -> [Searches -> Phases]]
           /\ uses' \in [Requests -> {0} \cup Executors]
           /\ done' \subseteq Task /\ broken' \subseteq Task
           /\ ~asked'[b] /\ uses'[b] = 0
           /\ \A c \in Requests \ {b} : /\ at'[c] = at[c] /\ asked'[c] = asked[c]
                                        /\ uses'[c] = uses[c] /\ phase'[c] = phase[c]
<1>1. [s \in Searches |-> "none"] \in [Searches -> Phases]
  BY DEF Phases
<1> QED BY <1>1 DEF PassEnds, TypeOK

\* However a board ends, in whatever outcome.
LEMMA EndsCore ==
    ASSUME Core, NEW b \in Requests, NEW outcome \in Outcomes, Live(b), Ends(b, outcome)
    PROVE  Core'
<1> USE DEF Core
<1>1. /\ PassEnds(b) /\ CancelAll(b) /\ pc' = [pc EXCEPT ![b] = outcome] /\ pc[b] \in {"pooled", "here"}
      /\ pc'[b] \notin {"sent", "ticketed", "pooled"}
  BY DEF Ends, Live, Outcomes, TypeOK
<1>2. /\ at' \in [Requests -> Nat] /\ asked' \in [Requests -> BOOLEAN]
      /\ phase' \in [Requests -> [Searches -> Phases]]
      /\ uses' \in [Requests -> {0} \cup Executors]
      /\ done' \subseteq Task /\ broken' \subseteq Task
      /\ ~asked'[b] /\ uses'[b] = 0
      /\ \A c \in Requests \ {b} : /\ at'[c] = at[c] /\ asked'[c] = asked[c]
                                   /\ uses'[c] = uses[c] /\ phase'[c] = phase[c]
  BY <1>1, PassEndsTyped
<1>3. queue' \in [Executors -> Seq(Task)]
  BY <1>1, CancelAllIs
<1>4. TypeOK'
  BY <1>1, <1>2, <1>3 DEF Ends, TypeOK, boardVars, poolVars
<1>5. Asking'
  BY <1>1, <1>2 DEF Asking, Op, Of, TypeOK
<1>6. Holding'
  <2>1. {c \in Requests : pc'[c] \notin {"sent", "ticketed"}} = Loaded
    BY <1>1, LoadedSame DEF TypeOK
  <2>2. made \in Nat /\ made' = made /\ current' = current
    BY DEF Ends, TypeOK, Executors, poolVars
  <2>3. \A c \in Requests : (uses'[c] # 0 <=> pc'[c] = "pooled") /\ uses'[c] <= made
    <3> TAKE c \in Requests
    <3>1. CASE c = b
      BY <1>1, <1>2, <2>2, <3>1
    <3>2. CASE c # b
      BY <1>1, <1>2, <3>2 DEF Holding, TypeOK
    <3> QED BY <3>1, <3>2
  <2> QED BY <2>1, <2>2, <2>3 DEF Holding, Loaded
<1>7. Closed'
  <2>1. \A e \in dead' \cup shut' : queue'[e] = <<>>
    BY <1>1, CancelAllIs DEF Ends, Closed, TypeOK, poolVars
  <2>2. \A t \in broken' : t.board \in Requests \ {b} /\ t \in broken
    BY <1>1 DEF PassEnds, TypeOK, Task
  <2> QED BY <1>2, <2>1, <2>2 DEF Ends, Closed, poolVars
<1>8. Kept'
  <2>1. \A e \in Executors : \A t \in Range(queue'[e]) :
           t \in Range(queue[e]) /\ t.board \in Requests \ {b}
    BY <1>1, CancelAllIs, QueuedTask
  <2> QED BY <1>1, <1>2, <2>1 DEF Kept, TypeOK
<1> QED BY <1>4, <1>5, <1>6, <1>7, <1>8
LEMMA AwaitedAre ==
    ASSUME TypeOK, Asking, NEW b \in Requests, InCall(b)
    PROVE  \A t \in Awaited(b) : t.board = b /\ t.search = Of(b) /\ t.round = phase[b][Of(b)]
<1>1. Of(b) \in Searches
  BY WantedIn DEF InCall, Asking
<1>2. phase[b][Of(b)] \in Phases
  BY <1>1 DEF TypeOK
<1> QED BY <1>1, <1>2, TasksAre DEF Awaited

\* The executor is shut down, and its tasks cancelled: the rest is as it was.
LEMMA DropsAre ==
    ASSUME TypeOK, queue' = [queue EXCEPT ![current] = <<>>]
    PROVE  /\ queue' \in [Executors -> Seq(Task)]
           /\ \A e \in Executors : /\ e # current => queue'[e] = queue[e]
                                   /\ e = current => queue'[e] = <<>> /\ Range(queue'[e]) = {}
<1>1. Range(<<>>) = {}
  BY DEF Range
<1>2. queue \in [Executors -> Seq(Task)] /\ <<>> \in Seq(Task)
  BY DEF TypeOK
<1> DEFINE Queues == Seq(Task)
<1> HIDE DEF Queues
<1>3. queue' \in [Executors -> Queues]
  BY <1>2 DEF Queues
<1>4. \A e \in Executors : /\ e # current => queue'[e] = queue[e]
                           /\ e = current => queue'[e] = <<>>
  BY <1>2
<1> QED BY <1>1, <1>3, <1>4 DEF Queues

\* A board that recovers held a dead executor.
LEMMA RecoverFrom ==
    ASSUME Core, NEW b \in Requests, Recover(b)
    PROVE  pc[b] = "pooled" /\ uses[b] \in dead
<1> USE DEF Core
<1>1. CASE ReadsNext(b, broken)
  <2>1. PICK t \in Awaited(b) \cap broken : TRUE
    BY <1>1 DEF ReadsNext
  <2>2. t.board = b
    BY <1>1, <2>1, AwaitedAre DEF ReadsNext
  <2> QED BY <1>1, <2>1, <2>2 DEF ReadsNext, InCall, Asking, Closed
<1>2. CASE Sends(b) # <<>> /\ uses[b] \in dead
  BY <1>2, SendsAre
<1> QED BY <1>1, <1>2 DEF Recover

LEMMA RecoverCore ==
    ASSUME Core, NEW b \in Requests, Recover(b)
    PROVE  Core'
<1> USE DEF Core
<1>1. /\ pc[b] = "pooled" /\ uses[b] \in dead
  BY RecoverFrom
<1>2. PassEnds(b) /\ pc' = [pc EXCEPT ![b] = "here"] /\ pc'[b] = "here"
  BY DEF Recover, TypeOK
<1>3. /\ at' \in [Requests -> Nat] /\ asked' \in [Requests -> BOOLEAN]
      /\ phase' \in [Requests -> [Searches -> Phases]]
      /\ uses' \in [Requests -> {0} \cup Executors]
      /\ done' \subseteq Task /\ broken' \subseteq Task
      /\ ~asked'[b] /\ uses'[b] = 0
      /\ \A c \in Requests \ {b} : /\ at'[c] = at[c] /\ asked'[c] = asked[c]
                                   /\ uses'[c] = uses[c] /\ phase'[c] = phase[c]
  BY <1>2, PassEndsTyped
<1>4. /\ queue' \in [Executors -> Seq(Task)]
      /\ \A e \in dead \cup shut' : queue'[e] = <<>>
      /\ \A e \in Executors : \A t \in Range(queue'[e]) : t \in Range(queue[e]) /\ t.board # b
      /\ shut' \subseteq Executors /\ raised' \subseteq Task
  <2>1. CASE current = 0
    <3>1. CancelAll(b) /\ shut' = shut /\ raised' = raised
      BY <2>1 DEF Recover
    <3> QED BY <3>1, CancelAllIs DEF Closed, TypeOK
  <2>2. CASE current # 0
    <3>1. /\ shut' = shut \cup {current} /\ queue' = [queue EXCEPT ![current] = <<>>]
          /\ raised' = raised \cup {t \in Range(queue[current]) : t.board # b}
          /\ current \in Executors
      BY <2>2 DEF Recover, TypeOK
    <3>2. queue[uses[b]] = <<>> /\ uses[b] \in Executors
      BY <1>1 DEF Closed, TypeOK
    <3>3. Range(queue[uses[b]]) = {}
      BY <3>2 DEF Range
    <3>4. ASSUME NEW e \in Executors, NEW t \in Range(queue'[e])
          PROVE  t \in Range(queue[e]) /\ t.board # b
      <4>1. t \in Range(queue[e])
        BY <3>1, <3>4, DropsAre
      <4>2. t.board = b => e = uses[b]
        BY <4>1 DEF Kept
      <4> QED BY <3>3, <4>1, <4>2
    <3>5. \A t \in Range(queue[current]) : t \in Task
      BY <3>1, QueuedTask
    <3>6. \A e \in dead \cup shut' : queue'[e] = <<>>
      BY <3>1, DropsAre DEF Closed, TypeOK
    <3> QED BY <3>1, <3>4, <3>5, <3>6, DropsAre DEF TypeOK
  <2> QED BY <2>1, <2>2
<1>5. TypeOK'
  <2>1. /\ pc' = [pc EXCEPT ![b] = "here"] /\ current' = 0
        /\ UNCHANGED <<newest, ticket, late, made, dead, running, deaths, lost, losses, met>>
    BY DEF Recover, boardVars
  <2> QED BY <1>3, <1>4, <2>1 DEF TypeOK
<1>6. Asking'
  BY <1>2, <1>3 DEF Asking, Op, Of, TypeOK
<1>7. Holding'
  <2>1. {c \in Requests : pc'[c] \notin {"sent", "ticketed"}} = Loaded
    BY <1>1, <1>2, LoadedSame DEF TypeOK
  <2>2. made \in Nat /\ made' = made /\ current' = 0
    BY DEF Recover, TypeOK, Executors
  <2>3. \A c \in Requests : (uses'[c] # 0 <=> pc'[c] = "pooled") /\ uses'[c] <= made
    <3> TAKE c \in Requests
    <3>1. CASE c = b
      BY <1>2, <1>3, <2>2, <3>1
    <3>2. CASE c # b
      BY <1>2, <1>3, <3>2 DEF Holding, TypeOK
    <3> QED BY <3>1, <3>2
  <2> QED BY <2>1, <2>2, <2>3 DEF Holding, Loaded
<1>8. Closed'
  <2>1. \A t \in broken' : t.board \in Requests \ {b} /\ t \in broken
    BY <1>2 DEF PassEnds, TypeOK, Task
  <2> QED BY <1>3, <1>4, <2>1 DEF Recover, Closed
<1>9. Kept'
  <2>1. \A e \in Executors : \A t \in Range(queue'[e]) :
           t \in Range(queue[e]) /\ t.board \in Requests \ {b}
    BY <1>4, QueuedTask
  <2> QED BY <1>2, <1>3, <2>1 DEF Kept, TypeOK
<1> QED BY <1>5, <1>6, <1>7, <1>8, <1>9

LEMMA StrangerCore ==
    ASSUME Core, StrangerDrops
    PROVE  Core'
<1> USE DEF Core
<1>1. /\ queue' = [queue EXCEPT ![current] = <<>>] /\ current \in Executors
      /\ shut' = shut \cup {current} /\ raised' = raised \cup Range(queue[current])
  BY DEF StrangerDrops, TypeOK
<1>2. \A t \in Range(queue[current]) : t \in Task
  BY <1>1, QueuedTask
<1>3. TypeOK'
  BY <1>1, <1>2, DropsAre DEF StrangerDrops, TypeOK, boardVars, walk
<1>4. Asking'
  BY DEF StrangerDrops, Asking, Op, Of, walk
<1>5. Holding'
  BY DEF StrangerDrops, Holding, TypeOK, Executors, walk
<1>6. Closed'
  BY <1>1, DropsAre DEF StrangerDrops, Closed, TypeOK, walk
<1>7. Kept'
  BY <1>1, DropsAre DEF StrangerDrops, Kept, walk
<1> QED BY <1>3, <1>4, <1>5, <1>6, <1>7

\* The workers take a queue's first task.
LEMMA HandIs ==
    ASSUME TypeOK, NEW e \in Executors, Hand(e)
    PROVE  /\ Head(queue[e]) \in Range(queue[e])
           /\ queue' \in [Executors -> Seq(Task)]
           /\ \A x \in Executors : Range(queue'[x]) \subseteq Range(queue[x])
           /\ \A x \in Executors : x # e => queue'[x] = queue[x]
           /\ \A x \in Executors : Single(queue[x]) => Single(queue'[x])
           /\ Single(queue[e]) => Head(queue[e]) \notin Range(queue'[e])
<1> DEFINE q == queue[e]
           r == Tail(q)
<1>1. q \in Seq(Task) /\ q # <<>> /\ queue' = [queue EXCEPT ![e] = r]
  BY DEF Hand, TypeOK
<1>2. /\ Len(q) \in Nat \ {0} /\ DOMAIN q = 1..Len(q) /\ Head(q) = q[1]
      /\ r \in Seq(Task) /\ DOMAIN r = 1..Len(q) - 1
      /\ \A i \in 1..Len(q) - 1 : r[i] = q[i + 1]
  BY <1>1
<1>3. queue'[e] = r /\ \A x \in Executors : x # e => queue'[x] = queue[x]
  BY <1>1 DEF TypeOK
<1>4. queue' \in [Executors -> Seq(Task)]
  BY <1>1, <1>2 DEF TypeOK
<1> HIDE DEF q, r
<1>5. Head(q) \in Range(q)
  <2>1. 1 \in DOMAIN q
    BY <1>2
  <2> QED BY <1>2, <2>1, Zenon DEF Range
<1>6. Range(r) \subseteq Range(q)
  BY <1>2 DEF Range
<1>7. Single(q) => Single(r)
  <2> SUFFICES ASSUME Single(q), NEW i \in 1..Len(q) - 1, NEW j \in 1..Len(q) - 1, r[i] = r[j]
               PROVE  i = j
    BY <1>2, Zenon DEF Single
  <2>1. i + 1 \in DOMAIN q /\ j + 1 \in DOMAIN q /\ q[i + 1] = q[j + 1]
    BY <1>2
  <2>2. i + 1 = j + 1
    BY <2>1, Zenon DEF Single
  <2> QED BY <2>2
<1>8. Single(q) => Head(q) \notin Range(r)
  <2> SUFFICES ASSUME Single(q), NEW i \in 1..Len(q) - 1, r[i] = Head(q) PROVE FALSE
    BY <1>2 DEF Range
  <2>1. i + 1 \in DOMAIN q /\ 1 \in DOMAIN q /\ q[i + 1] = q[1]
    BY <1>2
  <2>2. i + 1 = 1
    BY <2>1, Zenon DEF Single
  <2> QED BY <2>2
<1> QED BY <1>3, <1>4, <1>5, <1>6, <1>7, <1>8 DEF q

LEMMA WorkersCore ==
    ASSUME Core, NEW e \in Executors, Hand(e) \/ Finish(e) \/ WorkerDies(e)
    PROVE  Core'
<1> USE DEF Core
<1>1. Asking' /\ Holding'
  BY DEF Hand, Finish, WorkerDies, Asking, Holding, Op, Of, walk, poolVars
<1>2. ASSUME Hand(e) PROVE Core'
  <2>1. /\ queue' \in [Executors -> Seq(Task)] /\ Head(queue[e]) \in Task
        /\ \A x \in Executors : Range(queue'[x]) \subseteq Range(queue[x])
        /\ \A x \in Executors : x # e => queue'[x] = queue[x]
    BY <1>2, HandIs, QueuedTask
  <2>2. TypeOK'
    BY <1>2, <2>1 DEF Hand, TypeOK, boardVars, walk, poolVars
  <2>3. Closed' /\ Kept'
    BY <1>2, <2>1 DEF Hand, Closed, Kept, TypeOK, walk, poolVars
  <2> QED BY <1>1, <2>2, <2>3
<1>3. ASSUME Finish(e) PROVE Core'
  <2>1. TypeOK'
    BY <1>3 DEF Finish, TypeOK, boardVars, walk, poolVars
  <2>2. Closed' /\ Kept'
    BY <1>3 DEF Finish, Closed, Kept, walk, poolVars
  <2> QED BY <1>1, <2>1, <2>2
<1>4. ASSUME WorkerDies(e) PROVE Core'
  <2>1. /\ queue' = [queue EXCEPT ![e] = <<>>] /\ Range(<<>>) = {} /\ dead' = dead \cup {e}
        /\ broken' \subseteq broken \cup {t \in running[e] \cup Range(queue[e]) : uses[t.board] = e}
        /\ running' = [running EXCEPT ![e] = {}] /\ deaths' = deaths + 1
    BY <1>4 DEF WorkerDies, Range
  <2>2. broken' \subseteq Task
    BY <2>1, QueuedTask DEF TypeOK
  <2>3. queue' \in [Executors -> Seq(Task)]
    BY <2>1 DEF TypeOK
  <2>4. TypeOK'
    BY <1>4, <2>1, <2>2, <2>3 DEF WorkerDies, TypeOK, boardVars, walk
  <2>5. Closed'
    BY <1>4, <2>1 DEF WorkerDies, Closed, TypeOK, walk
  <2>6. Kept'
    BY <1>4, <2>1 DEF WorkerDies, Kept, TypeOK, walk
  <2> QED BY <1>1, <2>4, <2>5, <2>6
<1> QED BY <1>2, <1>3, <1>4

LEMMA FallEnds ==
    ASSUME Core, NEW b \in Requests, Supersede(b) \/ Refuse(b) \/ Answer(b) \/ Fall(b)
    PROVE  Live(b) /\ \E outcome \in Outcomes : Ends(b, outcome)
<1>1. CASE Supersede(b)
  BY <1>1 DEF Supersede, Asks, Outcomes
<1>2. CASE Refuse(b)
  BY <1>2 DEF Refuse, Asks, InCall, Live, Outcomes
<1>3. CASE Answer(b)
  BY <1>3 DEF Answer, Outcomes
<1>4. CASE Fall(b)
  BY <1>4, SendsAre DEF Fall, ReadsNext, InCall, Live, Outcomes, Core
<1> QED BY <1>1, <1>2, <1>3, <1>4

LEMMA CoreStep == Core /\ [Next]_vars => Core'
<1> SUFFICES ASSUME Core, [Next]_vars PROVE Core'
  OBVIOUS
<1>1. ASSUME NEW b \in Requests, Take(b) \/ Work(b) PROVE Core'
  BY <1>1, TakeCore, LoadCore, LoadRaisesCore, SplitCore, PassCore, GatherCore, RecoverCore, FallEnds, EndsCore
     DEF Work
<1>2. ASSUME NEW e \in Executors, Hand(e) \/ Finish(e) \/ WorkerDies(e) PROVE Core'
  BY <1>2, WorkersCore
<1>3. CASE UNCHANGED vars
  BY <1>3 DEF vars, Core, TypeOK, Asking, Holding, Closed, Kept, Op, Of
<1> QED BY <1>1, <1>2, <1>3, StrangerCore, ReadsCore DEF Next

\* NothingQueuedBehind: however a pooled pass ends, none of its tasks stays
\* queued for the pool (board's cancel_all, and POOL's drop of an executor).
THEOREM QueuesKept == Spec => []NothingQueuedBehind
<1>1. Core => NothingQueuedBehind
  BY DEF Core, NothingQueuedBehind, Kept
<1> QED BY <1>1, CoreInit, CoreStep, PTL DEF Spec
-----------------------------------------------------------------------------
(* WholePassRead: how a board walks its script.                            *)

\* A search is sent out by its first call.  Before each later call another
\* took the search one level less far, but the one sweep no ranking precedes.
LEMMA ScriptOrder ==
    ASSUME NEW b \in Requests, NEW i \in 1..Len(Script[b])
    PROVE  /\ Len(Script[b]) \in Nat /\ Script[b][i] \in CallSet
           /\ Script[b][i].op = "split" => \A j \in 1..i - 1 : Script[b][j].of # Script[b][i].of
           /\ Script[b][i].op \in {"rank", "sweep", "merge", "solved"} =>
                 \E j \in 1..i - 1 :
                    /\ Script[b][j].of = Script[b][i].of
                    /\ IF Script[b][i].op = "sweep" /\ Script[b][i].of = "against"
                       THEN Target(Script[b][j]) = 1
                       ELSE Target(Script[b][j]) = Target(Script[b][i]) - 1
<1> DEFINE p == Script[b]
<1>1. /\ p \in Seq(CallSet) /\ Len(p) >= 22
      /\ \A j \in 1..22 : p[j] = Opening[j]
      /\ \A j \in 23..Len(p) : p[j].op \in {"swept", "solved"}
  BY ScriptIs DEF Shape
<1> HIDE DEF p
<1>2. /\ p[1] = OneCall("split", "blue") /\ p[2] = OneCall("split", "red")
      /\ p[3] = OneCall("rank", "blue") /\ p[4] = OneCall("rank", "red")
      /\ p[5] = OneCall("sweep", "blue") /\ p[6] = OneCall("sweep", "red")
      /\ p[7] = OneCall("split", "fill") /\ p[8] = OneCall("split", "redfill")
      /\ p[9] = OneCall("sweep", "fill") /\ p[10] = OneCall("sweep", "redfill")
      /\ p[11] = OneCall("merge", "blue") /\ p[12] = OneCall("merge", "red")
      /\ p[13] = OneCall("solved", "blue") /\ p[14] = OneCall("solved", "red")
      /\ p[15] = OneCall("split", "against") /\ p[16] = OneCall("sweep", "against")
      /\ p[17] = OneCall("split", "answer") /\ p[18] = OneCall("sweep", "answer")
      /\ p[19] = OneCall("merge", "fill") /\ p[20] = OneCall("merge", "redfill")
      /\ p[21] = OneCall("merge", "against") /\ p[22] = OneCall("merge", "answer")
  <2>1. \A j \in 1..22 : p[j] = Opening[j]
    BY <1>1
  <2>2. /\ p[1] = Opening[1] /\ p[2] = Opening[2] /\ p[3] = Opening[3] /\ p[4] = Opening[4]
        /\ p[5] = Opening[5] /\ p[6] = Opening[6] /\ p[7] = Opening[7] /\ p[8] = Opening[8]
        /\ p[9] = Opening[9] /\ p[10] = Opening[10] /\ p[11] = Opening[11]
    BY <2>1
  <2>3. /\ p[12] = Opening[12] /\ p[13] = Opening[13] /\ p[14] = Opening[14] /\ p[15] = Opening[15]
        /\ p[16] = Opening[16] /\ p[17] = Opening[17] /\ p[18] = Opening[18] /\ p[19] = Opening[19]
        /\ p[20] = Opening[20] /\ p[21] = Opening[21] /\ p[22] = Opening[22]
    BY <2>1
  <2> QED BY <2>2, <2>3, OpeningIs, Zenon
<1>3. Len(p) \in Nat /\ i \in 1..Len(p) /\ p[i] \in CallSet
  <2>1. i \in 1..Len(p)
    BY DEF p
  <2>2. p \in Seq(CallSet)
    BY <1>1
  <2> QED BY <2>1, <2>2
<1>4. i \in 1..22 \/ i \in 23..Len(p)
  BY <1>3
<1>5. p[i].op = "split" => i \in {1, 2, 7, 8, 15, 17}
  <2>1. CASE i \in 1..22
    BY <1>2, <2>1 DEF OneCall
  <2>2. CASE i \in 23..Len(p)
    BY <1>1, <2>2
  <2> QED BY <1>4, <2>1, <2>2
<1>6. p[i].op = "split" => \A j \in 1..i - 1 : p[j].of # p[i].of
  <2>1. CASE i = 1
    BY <2>1
  <2>2. CASE i = 2
    BY <1>2, <2>2 DEF OneCall
  <2>5. /\ p[7].of = "fill" /\ p[8].of = "redfill" /\ p[15].of = "against"
        /\ p[16].of = "against" /\ p[17].of = "answer"
    BY <1>2 DEF OneCall
  <2>8. /\ p[1].of = "blue" /\ p[2].of = "red" /\ p[3].of = "blue" /\ p[4].of = "red"
        /\ p[5].of = "blue" /\ p[6].of = "red" /\ p[9].of = "fill" /\ p[10].of = "redfill"
        /\ p[11].of = "blue" /\ p[12].of = "red" /\ p[13].of = "blue" /\ p[14].of = "red"
    BY <1>2 DEF OneCall
  <2>3. \A j \in 1..6 : p[j].of \in {"blue", "red"}
    BY <2>8
  <2>4. \A j \in 1..14 : p[j].of \in {"blue", "red", "fill", "redfill"}
    <3> SUFFICES ASSUME NEW j \in 1..14 PROVE p[j].of \in {"blue", "red", "fill", "redfill"}
      OBVIOUS
    <3>1. j \in 1..7 \/ j \in 8..14
      OBVIOUS
    <3>2. CASE j \in 1..7
      <4>1. j = 1 \/ j = 2 \/ j = 3 \/ j = 4 \/ j = 5 \/ j = 6 \/ j = 7
        BY <3>2
      <4> QED BY <2>5, <2>8, <4>1
    <3>3. CASE j \in 8..14
      <4>1. j = 8 \/ j = 9 \/ j = 10 \/ j = 11 \/ j = 12 \/ j = 13 \/ j = 14
        BY <3>3
      <4> QED BY <2>5, <2>8, <4>1
    <3> QED BY <3>1, <3>2, <3>3
  <2>6. CASE i \in {7, 8}
    BY <2>3, <2>5, <2>6
  <2>7. CASE i = 15
    <3>1. \A j \in 1..i - 1 : p[j].of \in {"blue", "red", "fill", "redfill"}
      BY <2>4, <2>7
    <3>2. p[i].of = "against"
      BY <2>5, <2>7
    <3> QED BY <3>1, <3>2
  <2>9. CASE i = 17
    <3>1. \A j \in 1..16 : j \in 1..14 \/ j = 15 \/ j = 16
      OBVIOUS
    <3>4. \A j \in 1..16 : p[j].of \in {"blue", "red", "fill", "redfill", "against"}
      <4> SUFFICES ASSUME NEW j \in 1..16
                   PROVE  p[j].of \in {"blue", "red", "fill", "redfill", "against"}
        OBVIOUS
      <4>1. CASE j \in 1..14
        BY <2>4, <4>1
      <4>2. CASE j = 15 \/ j = 16
        BY <2>5, <4>2
      <4> QED BY <3>1, <4>1, <4>2
    <3>5. i - 1 = 16
      BY <2>9
    <3>2. \A j \in 1..i - 1 : p[j].of \in {"blue", "red", "fill", "redfill", "against"}
      BY <3>4, <3>5
    <3>3. p[i].of = "answer"
      BY <2>5, <2>9
    <3> QED BY <3>2, <3>3
  <2> QED BY <1>5, <2>1, <2>2, <2>6, <2>7, <2>9
<1> DEFINE Leads(j) == /\ p[j].of = p[i].of
                       /\ IF p[i].op = "sweep" /\ p[i].of = "against" THEN Target(p[j]) = 1
                          ELSE Target(p[j]) = Target(p[i]) - 1
<1>7. ASSUME p[i].op \in {"rank", "sweep", "merge", "solved"} PROVE \E j \in 1..i - 1 : Leads(j)
  <2>1. \A s : /\ Target(OneCall("rank", s)) = 2 /\ Target(OneCall("sweep", s)) = 3
               /\ Target(OneCall("merge", s)) = 4 /\ Target(OneCall("solved", s)) = 5
    BY DEF Target, OneCall
  <2>2. /\ Target(OneCall("split", "blue")) = 1 /\ Target(OneCall("split", "red")) = 1
        /\ Target(OneCall("split", "against")) = 1
        /\ Target(OneCall("split", "fill")) = 2 /\ Target(OneCall("split", "redfill")) = 2
        /\ Target(OneCall("split", "answer")) = 2
    BY DEF Target, OneCall, ScaleOf
  <2>3. /\ Target(p[1]) = 1 /\ Target(p[2]) = 1 /\ Target(p[3]) = 2
        /\ Target(p[4]) = 2 /\ Target(p[5]) = 3 /\ Target(p[6]) = 3
        /\ Target(p[7]) = 2 /\ Target(p[8]) = 2 /\ Target(p[9]) = 3
        /\ Target(p[10]) = 3 /\ Target(p[11]) = 4
    BY <1>2, <2>1, <2>2
  <2>4. /\ Target(p[12]) = 4 /\ Target(p[13]) = 5 /\ Target(p[14]) = 5
        /\ Target(p[15]) = 1 /\ Target(p[16]) = 3 /\ Target(p[17]) = 2
        /\ Target(p[18]) = 3 /\ Target(p[19]) = 4 /\ Target(p[20]) = 4
        /\ Target(p[21]) = 4 /\ Target(p[22]) = 4
    BY <1>2, <2>1, <2>2
  <2>5. /\ p[1].of = "blue" /\ p[2].of = "red" /\ p[3].of = "blue"
        /\ p[4].of = "red" /\ p[5].of = "blue" /\ p[6].of = "red"
        /\ p[7].of = "fill" /\ p[8].of = "redfill" /\ p[9].of = "fill"
        /\ p[10].of = "redfill" /\ p[11].of = "blue"
    BY <1>2 DEF OneCall
  <2>6. /\ p[12].of = "red" /\ p[13].of = "blue" /\ p[14].of = "red"
        /\ p[15].of = "against" /\ p[16].of = "against" /\ p[17].of = "answer"
        /\ p[18].of = "answer" /\ p[19].of = "fill" /\ p[20].of = "redfill"
        /\ p[21].of = "against" /\ p[22].of = "answer"
    BY <1>2 DEF OneCall
  <2>7. /\ p[1].op = "split" /\ p[2].op = "split" /\ p[3].op = "rank"
        /\ p[4].op = "rank" /\ p[5].op = "sweep" /\ p[6].op = "sweep"
        /\ p[7].op = "split" /\ p[8].op = "split" /\ p[9].op = "sweep"
        /\ p[10].op = "sweep" /\ p[11].op = "merge" /\ p[12].op = "merge"
        /\ p[13].op = "solved" /\ p[14].op = "solved" /\ p[15].op = "split"
        /\ p[16].op = "sweep" /\ p[17].op = "split" /\ p[18].op = "sweep"
        /\ p[19].op = "merge" /\ p[20].op = "merge" /\ p[21].op = "merge"
        /\ p[22].op = "merge"
    BY <1>2 DEF OneCall
  <2>11. CASE i = 3
    <3>1. 1 \in 1..i - 1 /\ Leads(1)
      BY <2>11, <2>3, <2>5, <2>7
    <3> QED BY <3>1
  <2>12. CASE i = 4
    <3>1. 2 \in 1..i - 1 /\ Leads(2)
      BY <2>12, <2>3, <2>5, <2>7
    <3> QED BY <3>1
  <2>13. CASE i = 5
    <3>1. 3 \in 1..i - 1 /\ Leads(3)
      BY <2>13, <2>3, <2>5, <2>7
    <3> QED BY <3>1
  <2>14. CASE i = 6
    <3>1. 4 \in 1..i - 1 /\ Leads(4)
      BY <2>14, <2>3, <2>5, <2>7
    <3> QED BY <3>1
  <2>15. CASE i = 9
    <3>1. 7 \in 1..i - 1 /\ Leads(7)
      BY <2>15, <2>3, <2>5, <2>7
    <3> QED BY <3>1
  <2>16. CASE i = 10
    <3>1. 8 \in 1..i - 1 /\ Leads(8)
      BY <2>16, <2>3, <2>5, <2>7
    <3> QED BY <3>1
  <2>17. CASE i = 11
    <3>1. 5 \in 1..i - 1 /\ Leads(5)
      BY <2>17, <2>3, <2>5, <2>7
    <3> QED BY <3>1
  <2>18. CASE i = 12
    <3>1. 6 \in 1..i - 1 /\ Leads(6)
      BY <2>18, <2>3, <2>4, <2>5, <2>6, <2>7
    <3> QED BY <3>1
  <2>19. CASE i = 13
    <3>1. 11 \in 1..i - 1 /\ Leads(11)
      BY <2>19, <2>3, <2>4, <2>5, <2>6, <2>7
    <3> QED BY <3>1
  <2>20. CASE i = 14
    <3>1. 12 \in 1..i - 1 /\ Leads(12)
      BY <2>20, <2>4, <2>6, <2>7
    <3> QED BY <3>1
  <2>21. CASE i = 16
    <3>1. 15 \in 1..i - 1 /\ Leads(15)
      BY <2>21, <2>4, <2>6, <2>7
    <3> QED BY <3>1
  <2>22. CASE i = 18
    <3>1. 17 \in 1..i - 1 /\ Leads(17)
      BY <2>22, <2>4, <2>6, <2>7
    <3> QED BY <3>1
  <2>23. CASE i = 19
    <3>1. 9 \in 1..i - 1 /\ Leads(9)
      BY <2>23, <2>3, <2>4, <2>5, <2>6, <2>7
    <3> QED BY <3>1
  <2>24. CASE i = 20
    <3>1. 10 \in 1..i - 1 /\ Leads(10)
      BY <2>24, <2>3, <2>4, <2>5, <2>6, <2>7
    <3> QED BY <3>1
  <2>25. CASE i = 21
    <3>1. 16 \in 1..i - 1 /\ Leads(16)
      BY <2>25, <2>4, <2>6, <2>7
    <3> QED BY <3>1
  <2>26. CASE i = 22
    <3>1. 18 \in 1..i - 1 /\ Leads(18)
      BY <2>26, <2>4, <2>6, <2>7
    <3> QED BY <3>1
  <2>8. CASE i \in 23..Len(p)
    <3>1. p[i].op = "solved" /\ p[i].of \in Searches
      BY <1>1, <1>3, <1>7, <2>8 DEF CallSet
    <3>2. PICK j \in {11, 12, 19, 20, 21, 22} : p[j].of = p[i].of /\ p[j].op = "merge"
      <4>1. p[i].of \in {"blue", "red", "fill", "redfill", "against", "answer"}
        BY <3>1 DEF Searches
      <4>2. /\ p[11].op = "merge" /\ p[12].op = "merge" /\ p[19].op = "merge"
            /\ p[20].op = "merge" /\ p[21].op = "merge" /\ p[22].op = "merge"
        BY <2>7
      <4>3. /\ p[11].of = "blue" /\ p[12].of = "red" /\ p[19].of = "fill"
            /\ p[20].of = "redfill" /\ p[21].of = "against" /\ p[22].of = "answer"
        BY <2>5, <2>6
      <4> QED BY <4>1, <4>2, <4>3
    <3>3. j \in 1..i - 1
      BY <1>3, <2>8, <3>2
    <3>4. Target(p[j]) = 4 /\ Target(p[i]) = 5
      BY <3>1, <3>2 DEF Target
    <3> QED BY <3>1, <3>2, <3>3, <3>4
  <2>9. i \in {1, 2, 7, 8, 15, 17} => p[i].op = "split"
    BY <2>7
  <2>10. i \in {3, 4, 5, 6, 9, 10, 11, 12, 13, 14, 16, 18, 19, 20, 21, 22} \/ i \in 23..Len(p)
    BY <1>4, <1>7, <2>9
  <2> QED
    BY <2>8, <2>10, <2>11, <2>12, <2>13, <2>14, <2>15, <2>16, <2>17, <2>18,
       <2>19, <2>20, <2>21, <2>22, <2>23, <2>24, <2>25, <2>26
<1> QED BY <1>3, <1>6, <1>7 DEF p
\* What Walked says of one pooled board.
WalkedBy(b) ==
    /\ at[b] \in 1..Len(Script[b]) + 1
    /\ \A i \in 1..at[b] - 1 : Script[b][i].of \in Wanted[b] =>
          Level(phase[b][Script[b][i].of]) >= Target(Script[b][i])
    /\ \A s \in Searches : phase[b][s] # "none" =>
          s \in Wanted[b] /\ \E i \in 1..at[b] - 1 : Script[b][i].of = s
    /\ asked[b] => ~Reached(Op(b), phase[b][Of(b)])

LEMMA LevelIs ==
    ASSUME NEW r \in Phases
    PROVE  /\ Level(r) \in 0..5 /\ (Level(r) = 0 <=> r = "none") /\ (Level(r) = 5 <=> r = "solved")
           /\ (Level(r) = 1 <=> r = "sampling") /\ (Level(r) = 2 <=> r \in {"tallying", "scaled"})
           /\ (Level(r) = 3 <=> r = "sweeping") /\ (Level(r) = 4 <=> r = "ranking")
           /\ Level(NextRound(r)) >= Level(r) /\ NextRound(r) # "none"
BY DEF Phases, Level, NextRound

LEMMA TargetIs ==
    ASSUME NEW c \in CallSet
    PROVE  Target(c) \in 0..5 /\ c.op \in Ops /\ c.of \in Searches
BY DEF Target, CallSet, Ops

\* A call that is over took its search as far as it should.
LEMMA ReachedTarget ==
    ASSUME NEW c \in CallSet, c.op # "split", NEW r \in Phases, Reached(c.op, r),
           c.op = "rank" => r # "none"
    PROVE  Level(r) >= Target(c)
BY DEF CallSet, Ops, Reached, Level, Target, Phases

\* Before a call that is no split, its search is out.
LEMMA CallStarted ==
    ASSUME Core, NEW b \in Requests, pc[b] = "pooled", WalkedBy(b), at[b] <= Len(Script[b]),
           Of(b) \in Wanted[b], Op(b) \in {"rank", "sweep", "merge", "solved"}
    PROVE  /\ phase[b][Of(b)] \in Phases
           /\ IF Op(b) = "sweep" /\ Of(b) = "against" THEN Level(phase[b][Of(b)]) >= 1
              ELSE Level(phase[b][Of(b)]) >= Target(Script[b][at[b]]) - 1
           /\ \E j \in 1..at[b] - 1 : Script[b][j].of = Of(b)
<1>1. at[b] \in 1..Len(Script[b]) /\ Len(Script[b]) \in Nat
  <2>1. 1 \in 1..Len(Script[b]) /\ Len(Script[b]) \in Nat
    BY ScriptIs DEF Shape
  <2> QED BY <2>1 DEF WalkedBy
<1>2. PICK j \in 1..at[b] - 1 :
         /\ Script[b][j].of = Script[b][at[b]].of
         /\ IF Op(b) = "sweep" /\ Of(b) = "against" THEN Target(Script[b][j]) = 1
            ELSE Target(Script[b][j]) = Target(Script[b][at[b]]) - 1
  BY <1>1, ScriptOrder DEF Op, Of
<1>3. Level(phase[b][Of(b)]) >= Target(Script[b][j])
  BY <1>2 DEF WalkedBy, Of
<1>4. phase[b][Of(b)] \in Phases
  BY WantedIn DEF Core, TypeOK
<1> QED BY <1>2, <1>3, <1>4 DEF Of

\* A board whose part of the walk a step leaves alone is as far as it was.
LEMMA WalkedSame ==
    ASSUME NEW b \in Requests, pc'[b] = pc[b], at'[b] = at[b], asked'[b] = asked[b],
           \A s \in Searches : phase'[b][s] = phase[b][s],
           asked[b] => Of(b) \in Searches, WalkedBy(b)
    PROVE  WalkedBy(b)'
<1>1. ASSUME NEW i \in 1..at[b] - 1, Script[b][i].of \in Wanted[b]
      PROVE  Level(phase'[b][Script[b][i].of]) >= Target(Script[b][i])
  <2>1. Script[b][i].of \in Searches
    BY <1>1, WantedIn
  <2> QED BY <1>1, <2>1 DEF WalkedBy
<1> QED BY <1>1 DEF WalkedBy, Op, Of

LEMMA SplitWalked ==
    ASSUME Core, NEW b \in Requests, pc[b] = "pooled", WalkedBy(b), Split(b)
    PROVE  /\ WalkedBy(b)'
           /\ IsSplit(b) => \A s \in Searches : s = Of(b) => phase[b][s] = "none"
<1>1. /\ at[b] \in 1..Len(Script[b]) /\ at'[b] = at[b] + 1 /\ ~asked'[b] /\ Op(b) = "split"
      /\ Len(Script[b]) \in Nat
  <2>1. Len(Script[b]) \in Nat
    BY ScriptIs DEF Shape
  <2> QED BY <2>1, NextCallIs DEF Split, Core, WalkedBy
<1>2. \A j \in 1..at[b] - 1 : Script[b][j].of # Of(b)
  BY <1>1, ScriptOrder DEF Op, Of
<1>3. Script[b][at[b]] \in CallSet
  BY <1>1, ScriptOrder
<1>4. \A s \in Searches : s = Of(b) => phase[b][s] = "none"
  BY <1>2 DEF WalkedBy
<1>5. CASE IsSplit(b)
  <2> DEFINE r == IF ScaleOf(Of(b)) = Of(b) THEN "sampling" ELSE "scaled"
  <2>1. Of(b) \in Searches /\ Of(b) \in Wanted[b]
    BY <1>5, WantedIn DEF IsSplit
  <2>2. phase' = [phase EXCEPT ![b][Of(b)] = r]
    BY <1>5 DEF Split
  <2>3. /\ phase'[b][Of(b)] = r /\ \A s \in Searches : s # Of(b) => phase'[b][s] = phase[b][s]
    BY <2>1, <2>2 DEF Core, TypeOK
  <2>4. Level(r) >= Target(Script[b][at[b]]) /\ r # "none"
    BY <1>1 DEF Level, Target, Op, Of
  <2> HIDE DEF r
  <2>5. ASSUME NEW i \in 1..at[b], Script[b][i].of \in Wanted[b]
        PROVE  Level(phase'[b][Script[b][i].of]) >= Target(Script[b][i])
    <3>1. CASE i = at[b]
      BY <2>3, <2>4, <3>1 DEF Of
    <3>2. CASE i # at[b]
      <4>1. i \in 1..at[b] - 1 /\ Script[b][i].of \in Searches
        BY <1>1, <2>5, <3>2, WantedIn
      <4>2. phase'[b][Script[b][i].of] = phase[b][Script[b][i].of]
        BY <1>2, <2>3, <4>1
      <4> QED BY <2>5, <4>1, <4>2 DEF WalkedBy
    <3> QED BY <3>1, <3>2
  <2>6. ASSUME NEW s \in Searches, phase'[b][s] # "none"
        PROVE  s \in Wanted[b] /\ \E i \in 1..at[b] : Script[b][i].of = s
    <3>1. CASE s = Of(b)
      BY <1>1, <2>1, <3>1 DEF Of
    <3>2. CASE s # Of(b)
      <4>1. s \in Wanted[b] /\ \E i \in 1..at[b] - 1 : Script[b][i].of = s
        BY <2>3, <2>6, <3>2 DEF WalkedBy
      <4> QED BY <1>1, <4>1
    <3> QED BY <3>1, <3>2
  <2> QED BY <1>1, <1>4, <2>5, <2>6 DEF WalkedBy
<1>6. CASE ~IsSplit(b)
  <2>1. phase' = phase /\ Of(b) \notin Wanted[b]
    BY <1>6 DEF Split, IsSplit
  <2>2. ASSUME NEW i \in 1..at[b], Script[b][i].of \in Wanted[b]
        PROVE  Level(phase[b][Script[b][i].of]) >= Target(Script[b][i])
    <3>1. i # at[b]
      BY <2>1, <2>2 DEF Of
    <3> QED BY <1>1, <2>2, <3>1 DEF WalkedBy
  <2>3. ASSUME NEW s \in Searches, phase[b][s] # "none"
        PROVE  s \in Wanted[b] /\ \E i \in 1..at[b] : Script[b][i].of = s
    BY <1>1, <2>3 DEF WalkedBy
  <2> QED BY <1>1, <1>6, <2>1, <2>2, <2>3 DEF WalkedBy
<1> QED BY <1>5, <1>6

\* A call that is over when its search is at round r, where the other
\* searches are as they were.
LEMMA CallOver ==
    ASSUME Core, NEW b \in Requests, pc[b] = "pooled", WalkedBy(b), at[b] <= Len(Script[b]),
           Op(b) # "split", at'[b] = at[b] + 1, ~asked'[b],
           \A s \in Searches : s # Of(b) => phase'[b][s] = phase[b][s],
           IF Of(b) \in Wanted[b]
           THEN /\ phase'[b][Of(b)] \in Phases /\ Reached(Op(b), phase'[b][Of(b)])
                /\ Level(phase'[b][Of(b)]) >= Level(phase[b][Of(b)])
           ELSE Of(b) \in Searches => phase'[b][Of(b)] = phase[b][Of(b)]
    PROVE  WalkedBy(b)'
<1>1. /\ at[b] \in 1..Len(Script[b]) /\ Len(Script[b]) \in Nat /\ Script[b][at[b]] \in CallSet
  <2>1. Len(Script[b]) \in Nat
    BY ScriptIs DEF Shape
  <2>2. at[b] \in 1..Len(Script[b])
    BY <2>1 DEF WalkedBy
  <2> QED BY <2>1, <2>2, ScriptOrder
<1>2. Op(b) \in {"rank", "sweep", "merge", "solved", "swept"} /\ Of(b) \in Searches
  BY <1>1 DEF CallSet, Ops, Op, Of
<1>3. ASSUME Of(b) \in Wanted[b]
      PROVE  Level(phase'[b][Of(b)]) >= Target(Script[b][at[b]])
  <2>1. CASE Op(b) = "swept"
    <3>1. Target(Script[b][at[b]]) = 0
      BY <2>1 DEF Target, Op
    <3> QED BY <1>3, <3>1, LevelIs
  <2>2. CASE Op(b) # "swept"
    <3>1. /\ phase[b][Of(b)] \in Phases
          /\ IF Op(b) = "sweep" /\ Of(b) = "against" THEN Level(phase[b][Of(b)]) >= 1
             ELSE Level(phase[b][Of(b)]) >= Target(Script[b][at[b]]) - 1
      BY <1>2, <1>3, <2>2, CallStarted
    <3>2. Op(b) = "rank" => phase'[b][Of(b)] # "none"
      <4>1. Op(b) = "rank" => Target(Script[b][at[b]]) = 2
        BY DEF Target, Op
      <4>2. Op(b) = "rank" => Level(phase[b][Of(b)]) >= 1
        BY <3>1, <4>1
      <4> QED BY <1>3, <3>1, <4>2, LevelIs
    <3> QED BY <1>1, <1>3, <3>2, ReachedTarget DEF Op
  <2> QED BY <2>1, <2>2
<1>4. ASSUME NEW i \in 1..at[b], Script[b][i].of \in Wanted[b]
      PROVE  Level(phase'[b][Script[b][i].of]) >= Target(Script[b][i])
  <2>1. CASE i = at[b]
    BY <1>3, <1>4, <2>1 DEF Of
  <2>2. CASE i # at[b]
    <3>1. /\ i \in 1..at[b] - 1 /\ Script[b][i].of \in Searches /\ Script[b][i] \in CallSet
      BY <1>1, <1>4, <2>2, WantedIn, ScriptOrder
    <3>2. Level(phase[b][Script[b][i].of]) >= Target(Script[b][i])
      BY <1>4, <3>1 DEF WalkedBy
    <3>3. phase[b][Script[b][i].of] \in Phases
      BY <3>1 DEF Core, TypeOK
    <3>4. Level(phase'[b][Script[b][i].of]) >= Level(phase[b][Script[b][i].of])
      <4>1. CASE Script[b][i].of = Of(b)
        BY <1>4, <4>1
      <4>2. CASE Script[b][i].of # Of(b)
        <5>1. phase'[b][Script[b][i].of] = phase[b][Script[b][i].of]
          BY <3>1, <4>2
        <5>2. Level(phase[b][Script[b][i].of]) \in 0..5
          BY <3>3, LevelIs
        <5> QED BY <5>1, <5>2
      <4> QED BY <4>1, <4>2
    <3>5. Level(phase[b][Script[b][i].of]) \in 0..5 /\ Target(Script[b][i]) \in 0..5
      BY <3>1, <3>3, LevelIs, TargetIs
    <3>6. Level(phase'[b][Script[b][i].of]) \in Int
      <4>1. CASE Script[b][i].of = Of(b)
        BY <1>4, <4>1, LevelIs
      <4>2. CASE Script[b][i].of # Of(b)
        BY <3>1, <3>5, <4>2
      <4> QED BY <4>1, <4>2
    <3> QED BY <3>2, <3>4, <3>5, <3>6
  <2> QED BY <2>1, <2>2
<1>5. ASSUME NEW s \in Searches, phase'[b][s] # "none"
      PROVE  s \in Wanted[b] /\ \E i \in 1..at[b] : Script[b][i].of = s
  <2>1. CASE s = Of(b) /\ s \in Wanted[b]
    BY <1>1, <2>1 DEF Of
  <2>2. CASE ~(s = Of(b) /\ s \in Wanted[b])
    <3>1. phase[b][s] # "none"
      BY <1>5, <2>2
    <3> QED BY <1>1, <3>1 DEF WalkedBy
  <2> QED BY <2>1, <2>2
<1> QED BY <1>1, <1>4, <1>5 DEF WalkedBy
LEMMA PassWalked ==
    ASSUME Core, NEW b \in Requests, pc[b] = "pooled", WalkedBy(b), Pass(b)
    PROVE  WalkedBy(b)'
<1>1. at[b] <= Len(Script[b]) /\ Op(b) # "split" /\ phase' = phase
  BY DEF Pass, Asks
<1>2. CASE IsSplit(b) /\ ~Reached(Op(b), phase[b][Of(b)])
  <2>1. at' = at /\ asked'[b]
    BY <1>2 DEF Pass, Core, TypeOK
  <2> QED BY <1>1, <1>2, <2>1 DEF WalkedBy, Op, Of
<1>3. CASE ~(IsSplit(b) /\ ~Reached(Op(b), phase[b][Of(b)]))
  <2>1. at'[b] = at[b] + 1 /\ ~asked'[b]
    BY <1>3, NextCallIs DEF Pass, Core
  <2>2. Of(b) \in Wanted[b] =>
           /\ phase[b][Of(b)] \in Phases /\ Reached(Op(b), phase[b][Of(b)])
           /\ Level(phase[b][Of(b)]) >= Level(phase[b][Of(b)])
    <3> SUFFICES ASSUME Of(b) \in Wanted[b]
                 PROVE  /\ phase[b][Of(b)] \in Phases /\ Reached(Op(b), phase[b][Of(b)])
                        /\ Level(phase[b][Of(b)]) >= Level(phase[b][Of(b)])
      OBVIOUS
    <3>1. phase[b][Of(b)] \in Phases
      BY WantedIn DEF Core, TypeOK
    <3>2. Level(phase[b][Of(b)]) \in 0..5
      BY <3>1, LevelIs
    <3> QED BY <1>3, <3>1, <3>2 DEF IsSplit
  <2> QED BY <1>1, <2>1, <2>2, CallOver
<1> QED BY <1>2, <1>3

LEMMA GatherIs ==
    ASSUME Core, NEW b \in Requests, Gather(b)
    PROVE  /\ pc[b] = "pooled" /\ at[b] <= Len(Script[b]) /\ Op(b) # "split" /\ asked[b]
           /\ Of(b) \in Wanted[b] /\ Of(b) \in Searches
           /\ phase[b][Of(b)] \in Phases /\ phase'[b][Of(b)] = NextRound(phase[b][Of(b)])
           /\ \A s \in Searches : s # Of(b) => phase'[b][s] = phase[b][s]
           /\ \A c \in Requests : c # b => phase'[c] = phase[c] /\ at'[c] = at[c] /\ asked'[c] = asked[c]
           /\ IF Reached(Op(b), NextRound(phase[b][Of(b)])) THEN at'[b] = at[b] + 1 /\ ~asked'[b]
              ELSE at' = at /\ asked' = asked
           /\ pc' = pc /\ uses' = uses /\ running' = running /\ done' = done \ Awaited(b)
           /\ Submit(b) /\ Sends(b) = TasksOf(b, Of(b), NextRound(phase[b][Of(b)]))
<1>1. /\ pc[b] = "pooled" /\ at[b] <= Len(Script[b]) /\ Op(b) # "split" /\ asked[b]
      /\ Of(b) \in Wanted[b] /\ Of(b) \in Searches
  BY WantedIn DEF Gather, InCall, Core, Asking
<1>2. phase' = [phase EXCEPT ![b][Of(b)] = NextRound(phase[b][Of(b)])]
  BY DEF Gather
<1>3. /\ phase[b][Of(b)] \in Phases /\ phase'[b][Of(b)] = NextRound(phase[b][Of(b)])
      /\ \A s \in Searches : s # Of(b) => phase'[b][s] = phase[b][s]
      /\ \A c \in Requests : c # b => phase'[c] = phase[c]
  BY <1>1, <1>2 DEF Core, TypeOK
<1>4. CASE Reached(Op(b), NextRound(phase[b][Of(b)]))
  <2>1. /\ at'[b] = at[b] + 1 /\ ~asked'[b]
        /\ \A c \in Requests : c # b => at'[c] = at[c] /\ asked'[c] = asked[c]
    BY <1>4, NextCallIs DEF Gather, Core
  <2> QED BY <1>1, <1>3, <1>4, <2>1 DEF Gather, Sends
<1>5. CASE ~Reached(Op(b), NextRound(phase[b][Of(b)]))
  BY <1>1, <1>3, <1>5 DEF Gather, Sends
<1> QED BY <1>4, <1>5

LEMMA GatherWalked ==
    ASSUME Core, NEW b \in Requests, WalkedBy(b), Gather(b)
    PROVE  WalkedBy(b)'
<1> DEFINE r == NextRound(phase[b][Of(b)])
<1>1. /\ pc[b] = "pooled" /\ at[b] <= Len(Script[b]) /\ Op(b) # "split" /\ asked[b]
      /\ Of(b) \in Wanted[b] /\ Of(b) \in Searches
      /\ phase[b][Of(b)] \in Phases /\ phase'[b][Of(b)] = r
      /\ \A s \in Searches : s # Of(b) => phase'[b][s] = phase[b][s]
      /\ IF Reached(Op(b), r) THEN at'[b] = at[b] + 1 /\ ~asked'[b]
         ELSE at' = at /\ asked' = asked
  BY GatherIs
<1>2. r \in Phases /\ Level(r) >= Level(phase[b][Of(b)]) /\ r # "none"
  BY <1>1, LevelIs, NextRoundIs
<1>3. Level(r) \in 0..5 /\ Level(phase[b][Of(b)]) \in 0..5
  BY <1>1, <1>2, LevelIs
<1> HIDE DEF r
<1>4. CASE Reached(Op(b), r)
  BY <1>1, <1>2, <1>4, CallOver
<1>5. CASE ~Reached(Op(b), r)
  <2>1. at[b] \in 1..Len(Script[b]) /\ Len(Script[b]) \in Nat /\ Script[b][at[b]] \in CallSet
    <3>1. Len(Script[b]) \in Nat
      BY ScriptIs DEF Shape
    <3>2. at[b] \in 1..Len(Script[b])
      BY <1>1, <3>1 DEF WalkedBy
    <3> QED BY <3>1, <3>2, ScriptOrder
  <2>2. Op(b) \in {"rank", "sweep", "merge", "solved"}
    BY <1>1, <1>5, <2>1 DEF CallSet, Ops, Op, Reached
  <2>3. \E j \in 1..at[b] - 1 : Script[b][j].of = Of(b)
    BY <1>1, <2>2, CallStarted
  <2>4. ASSUME NEW i \in 1..at[b] - 1, Script[b][i].of \in Wanted[b]
        PROVE  Level(phase'[b][Script[b][i].of]) >= Target(Script[b][i])
    <3>1. CASE Script[b][i].of = Of(b)
      <4>1. Level(phase[b][Of(b)]) >= Target(Script[b][i])
        BY <2>4, <3>1 DEF WalkedBy
      <4>2. i \in 1..Len(Script[b])
        BY <2>1
      <4>3. Target(Script[b][i]) \in 0..5
        BY <4>2, ScriptOrder, TargetIs
      <4> QED BY <1>1, <1>2, <1>3, <3>1, <4>1, <4>3
    <3>2. CASE Script[b][i].of # Of(b)
      <4>1. Script[b][i].of \in Searches
        BY <2>4, WantedIn
      <4> QED BY <1>1, <2>4, <3>2, <4>1 DEF WalkedBy
    <3> QED BY <3>1, <3>2
  <2>5. ASSUME NEW s \in Searches, phase'[b][s] # "none"
        PROVE  s \in Wanted[b] /\ \E i \in 1..at[b] - 1 : Script[b][i].of = s
    BY <1>1, <2>3, <2>5 DEF WalkedBy
  <2>6. at' = at /\ asked' = asked
    BY <1>1, <1>5
  <2>7. ~Reached(Op(b), phase[b][Of(b)])'
    BY <1>1, <1>5, <2>6 DEF Op, Of
  <2> QED BY <2>4, <2>5, <2>6, <2>7 DEF WalkedBy
<1> QED BY <1>4, <1>5

\* A board that has just loaded.
LEMMA LoadWalked ==
    ASSUME Core, NEW b \in Requests, Load(b), at[b] = 1, \A s \in Searches : phase[b][s] = "none"
    PROVE  pc'[b] = "pooled" => WalkedBy(b)'
<1>1. at' = at /\ asked' = asked /\ phase' = phase /\ pc[b] = "ticketed"
  BY DEF Load
<1>2. ~asked[b]
  BY <1>1 DEF Core, Asking
<1>3. Len(Script[b]) \in Nat
  BY ScriptIs DEF Shape
<1> QED BY <1>1, <1>2, <1>3 DEF WalkedBy

LEMMA WalkedInit == Init => Walked
BY DEF Init, Walked

WalkedIs == \A b \in Requests :
    /\ pc[b] \in {"sent", "ticketed"} => at[b] = 1 /\ \A s \in Searches : phase[b][s] = "none"
    /\ pc[b] = "pooled" => WalkedBy(b)

LEMMA WalkedAgain == Walked <=> WalkedIs
BY DEF Walked, WalkedIs, WalkedBy

LEMMA WalkedStep == Core /\ Walked /\ [Next]_vars => Walked'
<1> SUFFICES ASSUME Core, Walked, [Next]_vars PROVE WalkedIs'
  BY WalkedAgain, PTL
<1>1. WalkedIs
  BY WalkedAgain
<1>2. \A c \in Requests : asked[c] => Of(c) \in Searches
  BY WantedIn DEF Core, Asking
\* What is left of the walk of a board that a step does not touch.
<1>3. ASSUME NEW c \in Requests, pc'[c] = pc[c], at'[c] = at[c], asked'[c] = asked[c],
             \A s \in Searches : phase'[c][s] = phase[c][s]
      PROVE  /\ pc'[c] \in {"sent", "ticketed"} => at'[c] = 1 /\ \A s \in Searches : phase'[c][s] = "none"
             /\ pc'[c] = "pooled" => WalkedBy(c)'
  BY <1>1, <1>2, <1>3, WalkedSame DEF WalkedIs
<1>4. ASSUME NEW b \in Requests, Take(b) PROVE WalkedIs'
  <2>1. /\ pc[b] = "sent" /\ pc'[b] = "ticketed" /\ at' = at /\ asked' = asked /\ phase' = phase
        /\ \A c \in Requests : c # b => pc'[c] = pc[c]
    BY <1>4 DEF Take, Core, TypeOK
  <2> QED BY <1>1, <1>3, <2>1 DEF WalkedIs
<1>5. ASSUME NEW b \in Requests, Load(b) PROVE WalkedIs'
  <2>1. /\ pc[b] = "ticketed" /\ pc'[b] \in {"pooled", "here"}
        /\ at' = at /\ asked' = asked /\ phase' = phase
        /\ \A c \in Requests : c # b => pc'[c] = pc[c]
    BY <1>5 DEF Load, Core, TypeOK
  <2>2. pc'[b] = "pooled" => WalkedBy(b)'
    BY <1>1, <1>5, <2>1, LoadWalked DEF WalkedIs
  <2> QED BY <1>3, <2>1, <2>2 DEF WalkedIs
<1>6. ASSUME NEW b \in Requests, Split(b) PROVE WalkedIs'
  <2>1. /\ pc' = pc /\ pc[b] \in {"pooled", "here"}
        /\ \A c \in Requests : c # b => at'[c] = at[c] /\ asked'[c] = asked[c] /\ phase'[c] = phase[c]
    BY <1>6, NextCallIs DEF Split, Live, Core, TypeOK
  <2>2. pc'[b] = "pooled" => WalkedBy(b)'
    BY <1>1, <1>6, <2>1, SplitWalked DEF WalkedIs
  <2> QED BY <1>3, <2>1, <2>2 DEF WalkedIs
<1>7. ASSUME NEW b \in Requests, Pass(b) PROVE WalkedIs'
  <2>1. /\ pc' = pc /\ pc[b] \in {"pooled", "here"} /\ phase' = phase
        /\ \A c \in Requests : c # b => at'[c] = at[c] /\ asked'[c] = asked[c]
    <3>1. CASE IsSplit(b) /\ ~Reached(Op(b), phase[b][Of(b)])
      BY <1>7, <3>1 DEF Pass, Asks, Live, Core, TypeOK
    <3>2. CASE ~(IsSplit(b) /\ ~Reached(Op(b), phase[b][Of(b)]))
      BY <1>7, <3>2, NextCallIs DEF Pass, Asks, Live, Core
    <3> QED BY <3>1, <3>2
  <2>2. pc'[b] = "pooled" => WalkedBy(b)'
    BY <1>1, <1>7, <2>1, PassWalked DEF WalkedIs
  <2> QED BY <1>3, <2>1, <2>2 DEF WalkedIs
<1>8. ASSUME NEW b \in Requests, Gather(b) PROVE WalkedIs'
  <2>1. /\ pc' = pc /\ pc[b] = "pooled"
        /\ \A c \in Requests : c # b => at'[c] = at[c] /\ asked'[c] = asked[c] /\ phase'[c] = phase[c]
    BY <1>8, GatherIs
  <2>2. WalkedBy(b)'
    BY <1>1, <1>8, <2>1, GatherWalked DEF WalkedIs
  <2> QED BY <1>3, <2>1, <2>2 DEF WalkedIs
<1>9. ASSUME NEW b \in Requests, PassEnds(b), NEW o \in Outcomes \cup {"here"}, pc' = [pc EXCEPT ![b] = o]
      PROVE  WalkedIs'
  <2>1. \A c \in Requests : c # b => at'[c] = at[c] /\ asked'[c] = asked[c] /\ phase'[c] = phase[c]
    BY <1>9, PassEndsTyped DEF Core
  <2>2. pc'[b] \notin {"sent", "ticketed", "pooled"} /\ \A c \in Requests : c # b => pc'[c] = pc[c]
    BY <1>9 DEF Core, TypeOK, Outcomes
  <2> QED BY <1>3, <2>1, <2>2 DEF WalkedIs
<1>10. ASSUME NEW b \in Requests, Recover(b) PROVE WalkedIs'
  BY <1>9, <1>10 DEF Recover
<1>11. ASSUME NEW b \in Requests, Supersede(b) \/ Refuse(b) \/ Answer(b) \/ Fall(b) PROVE WalkedIs'
  <2>1. PICK o \in Outcomes : Ends(b, o)
    BY <1>11, FallEnds
  <2> QED BY <1>9, <2>1 DEF Ends
<1>12. ASSUME pc' = pc, at' = at, asked' = asked, phase' = phase PROVE WalkedIs'
  BY <1>3, <1>12 DEF WalkedIs
<1>13. ASSUME NEW e \in Executors, Hand(e) \/ Finish(e) \/ WorkerDies(e) PROVE WalkedIs'
  BY <1>12, <1>13 DEF Hand, Finish, WorkerDies, walk
<1>14. ASSUME StrangerDrops \/ UNCHANGED vars PROVE WalkedIs'
  BY <1>12, <1>14 DEF StrangerDrops, walk, vars
<1>15. ASSUME NEW b \in Requests, LoadRaises(b) PROVE WalkedIs'
  <2>1. /\ pc'[b] = "failed" /\ at' = at /\ asked' = asked /\ phase' = phase
        /\ \A c \in Requests : c # b => pc'[c] = pc[c]
    BY <1>15 DEF LoadRaises, Core, TypeOK
  <2> QED BY <1>3, <2>1 DEF WalkedIs
<1>16. ASSUME NEW what \in Sources, Lose(what) \/ Regain(what) PROVE WalkedIs'
  BY <1>12, <1>16 DEF Lose, Regain, walk
<1> QED
  BY <1>4, <1>5, <1>6, <1>7, <1>8, <1>10, <1>11, <1>13, <1>14, <1>15, <1>16 DEF Next, Work
-----------------------------------------------------------------------------
(* WholePassRead: where a board's tasks are.                               *)

LEMMA SingleConcat ==
    ASSUME NEW S, NEW s \in Seq(S), NEW u \in Seq(S), Single(s), Single(u),
           \A t \in Range(u) : t \notin Range(s)
    PROVE  Single(s \o u)
<1> DEFINE c == s \o u
<1>1. /\ Len(s) \in Nat /\ DOMAIN s = 1..Len(s) /\ Len(u) \in Nat /\ DOMAIN u = 1..Len(u)
      /\ DOMAIN c = 1..Len(s) + Len(u)
      /\ \A i \in 1..Len(s) : c[i] = s[i]
      /\ \A i \in Len(s) + 1..Len(s) + Len(u) : c[i] = u[i - Len(s)]
  OBVIOUS
<1>2. \A i \in 1..Len(s) : \A j \in 1..Len(u) : s[i] # u[j]
  BY <1>1 DEF Range
<1>3. (\A i, j \in 1..Len(s) : s[i] = s[j] => i = j) /\ (\A i, j \in 1..Len(u) : u[i] = u[j] => i = j)
  BY <1>1 DEF Single
<1> HIDE DEF c
<1> SUFFICES ASSUME NEW i \in 1..Len(s) + Len(u), NEW j \in 1..Len(s) + Len(u), c[i] = c[j]
             PROVE  i = j
  BY <1>1, Zenon DEF Single, c
<1>4. CASE i <= Len(s) /\ j <= Len(s)
  BY <1>1, <1>3, <1>4
<1>5. CASE i > Len(s) /\ j > Len(s)
  <2>1. /\ i - Len(s) \in 1..Len(u) /\ j - Len(s) \in 1..Len(u)
        /\ u[i - Len(s)] = u[j - Len(s)]
    BY <1>1, <1>5
  <2>2. i - Len(s) = j - Len(s)
    BY <1>3, <2>1
  <2> QED BY <1>1, <2>2
<1>6. CASE i <= Len(s) /\ j > Len(s)
  <2>1. j - Len(s) \in 1..Len(u) /\ c[j] = u[j - Len(s)] /\ c[i] = s[i] /\ i \in 1..Len(s)
    BY <1>1, <1>6
  <2> QED BY <1>2, <2>1
<1>7. CASE i > Len(s) /\ j <= Len(s)
  <2>1. i - Len(s) \in 1..Len(u) /\ c[i] = u[i - Len(s)] /\ c[j] = s[j] /\ j \in 1..Len(s)
    BY <1>1, <1>7
  <2> QED BY <1>2, <2>1
<1> QED BY <1>1, <1>4, <1>5, <1>6, <1>7

\* b's search s goes to round r: the tasks of its last round are read, and
\* those of the new one are queued.
LEMMA NewRoundPlaced ==
    ASSUME Core, Placed, NEW b \in Requests, NEW s \in Searches, NEW r \in Phases,
           pc[b] = "pooled", Submit(b), Sends(b) = TasksOf(b, s, r),
           phase'[b][s] = r, \A x \in Searches : x # s => phase'[b][x] = phase[b][x],
           \A c \in Requests : c # b => phase'[c] = phase[c],
           pc' = pc, uses' = uses, running' = running, done' \subseteq done,
           \A e \in Executors : \A t \in Range(queue[e]) \cup running[e] :
               ~(t.board = b /\ t.search = s),
           \A t \in done' : ~(t.board = b /\ t.search = s)
    PROVE  Placed'
<1>1. /\ uses[b] \in Executors /\ Range(queue'[uses[b]]) = Range(queue[uses[b]]) \cup Range(Sends(b))
      /\ queue'[uses[b]] = queue[uses[b]] \o Sends(b)
      /\ \A e \in Executors : e # uses[b] => queue'[e] = queue[e]
  BY SubmitAdds
<1>2. /\ Sends(b) \in Seq(Task) /\ Single(Sends(b))
      /\ \A t \in Range(Sends(b)) : t.board = b /\ t.search = s
  BY TasksAre
\* Tasks of other searches are in the round they were in.
<1>3. ASSUME NEW t \in Task, ~(t.board = b /\ t.search = s), Due(t) PROVE Due(t)'
  <2>1. t.board \in Requests /\ t.search \in Searches
    BY DEF Task
  <2>2. phase'[t.board][t.search] = phase[t.board][t.search]
    BY <1>3, <2>1
  <2> QED BY <1>3, <2>2 DEF Due
<1>4. \A t \in Range(Sends(b)) : Due(t)'
  BY <1>2 DEF Due
<1>5. ASSUME NEW e \in Executors PROVE Single(queue'[e])
  <2>1. CASE e = uses[b]
    <3>1. queue[e] \in Seq(Task) /\ Single(queue[e])
      BY DEF Core, TypeOK, Placed
    <3>2. \A t \in Range(Sends(b)) : t \notin Range(queue[e])
      BY <1>2
    <3>3. Single(queue[e] \o Sends(b))
      BY <1>2, <3>1, <3>2, SingleConcat
    <3> QED BY <1>1, <2>1, <3>3
  <2>2. CASE e # uses[b]
    BY <1>1, <2>2 DEF Placed
  <2> QED BY <2>1, <2>2
<1>6. ASSUME NEW e \in Executors, NEW t \in Range(queue'[e])
      PROVE  Due(t)' /\ t \notin running[e] \cup done'
  <2>1. CASE t \in Range(queue[e])
    <3>1. t \in Task /\ Due(t) /\ t \notin running[e] \cup done /\ ~(t.board = b /\ t.search = s)
      BY <2>1, QueuedTask DEF Core, Placed
    <3> QED BY <1>3, <3>1
  <2>2. CASE t \notin Range(queue[e])
    <3>1. t \in Range(Sends(b))
      BY <1>1, <1>6, <2>2
    <3> QED BY <1>2, <1>4, <3>1
  <2> QED BY <2>1, <2>2
<1>7. ASSUME NEW e \in Executors, NEW t \in running[e]
      PROVE  /\ pc[t.board] \notin {"sent", "ticketed"}
             /\ pc[t.board] = "pooled" => uses[t.board] = e /\ Due(t)' /\ t \notin done'
  <2>1. t \in Task /\ ~(t.board = b /\ t.search = s)
    BY DEF Core, TypeOK
  <2> QED BY <1>3, <2>1 DEF Placed
<1>8. ASSUME NEW t \in done' PROVE pc[t.board] = "pooled" /\ Due(t)'
  <2>1. t \in Task /\ ~(t.board = b /\ t.search = s) /\ pc[t.board] = "pooled" /\ Due(t)
    BY <1>8 DEF Core, TypeOK, Placed
  <2> QED BY <1>3, <2>1
<1> QED BY <1>5, <1>6, <1>7, <1>8 DEF Placed

LEMMA SplitPlaced ==
    ASSUME Core, Placed, Walked, NEW b \in Requests, Split(b)
    PROVE  Placed'
<1>1. CASE IsSplit(b)
  <2> DEFINE r == IF ScaleOf(Of(b)) = Of(b) THEN "sampling" ELSE "scaled"
  <2>1. /\ pc[b] = "pooled" /\ Of(b) \in Searches /\ r \in Phases /\ Submit(b)
        /\ phase' = [phase EXCEPT ![b][Of(b)] = r]
        /\ pc' = pc /\ uses' = uses /\ running' = running /\ done' = done
    BY <1>1, WantedIn DEF Split, IsSplit, Phases
  <2>2. Sends(b) = TasksOf(b, Of(b), r)
    BY <1>1 DEF Split, Sends
  <2>3. phase[b][Of(b)] = "none"
    BY <1>1, <2>1, SplitWalked, WalkedAgain DEF WalkedIs
  <2>4. TasksOf(b, Of(b), "none") = <<>> /\ Range(<<>>) = {}
    <3>1. "none" \in Phases /\ "none" \notin Sliced \cup {"ranking"}
      BY DEF Phases, Sliced
    <3> QED BY <2>1, <3>1, TasksAre DEF Range
  <2>5. \A t : t.board = b /\ t.search = Of(b) => ~Due(t)
    BY <2>3, <2>4 DEF Due
  <2>6. /\ phase'[b][Of(b)] = r
        /\ \A x \in Searches : x # Of(b) => phase'[b][x] = phase[b][x]
        /\ \A c \in Requests : c # b => phase'[c] = phase[c]
    BY <2>1 DEF Core, TypeOK
  <2>7. \A e \in Executors : \A t \in Range(queue[e]) \cup running[e] :
            ~(t.board = b /\ t.search = Of(b))
    BY <2>1, <2>5 DEF Placed
  <2>8. \A t \in done : ~(t.board = b /\ t.search = Of(b))
    BY <2>5 DEF Placed
  <2> HIDE DEF r
  <2> QED BY <2>1, <2>2, <2>6, <2>7, <2>8, NewRoundPlaced
<1>2. CASE ~IsSplit(b)
  BY <1>2 DEF Split, Placed, Due
<1> QED BY <1>1, <1>2

LEMMA GatherPlaced ==
    ASSUME Core, Placed, NEW b \in Requests, Gather(b)
    PROVE  Placed'
<1> DEFINE r == NextRound(phase[b][Of(b)])
<1>1. /\ pc[b] = "pooled" /\ Of(b) \in Searches
      /\ phase[b][Of(b)] \in Phases /\ phase'[b][Of(b)] = r
      /\ \A s \in Searches : s # Of(b) => phase'[b][s] = phase[b][s]
      /\ \A c \in Requests : c # b => phase'[c] = phase[c]
      /\ pc' = pc /\ uses' = uses /\ running' = running /\ done' = done \ Awaited(b)
      /\ Submit(b) /\ Sends(b) = TasksOf(b, Of(b), r)
  BY GatherIs
<1>2. r \in Phases
  BY <1>1, NextRoundIs
<1>3. Awaited(b) \subseteq done
  BY DEF Gather
<1> HIDE DEF r
<1>4. \A t : t.board = b /\ t.search = Of(b) /\ Due(t) => t \in done /\ t \in Awaited(b)
  BY <1>3 DEF Due, Awaited
<1>5. \A e \in Executors : \A t \in Range(queue[e]) \cup running[e] :
          ~(t.board = b /\ t.search = Of(b))
  BY <1>1, <1>4 DEF Placed
<1>6. \A t \in done' : ~(t.board = b /\ t.search = Of(b))
  BY <1>1, <1>4 DEF Placed
<1> QED BY <1>1, <1>2, <1>5, <1>6, NewRoundPlaced

\* A step that takes tasks away, and leaves the boards whose tasks are left
\* where they were.
LEMMA LessPlaced ==
    ASSUME Placed, TypeOK, NEW o \in SUBSET Requests, done' \subseteq done,
           \A e \in Executors : /\ Single(queue'[e]) /\ running'[e] \subseteq running[e]
                                /\ \A t \in Range(queue'[e]) : t \in Range(queue[e]) /\ t.board \notin o,
           \A t \in done' : t.board \notin o,
           \A b \in o : pc'[b] \notin {"sent", "ticketed", "pooled"},
           \A b \in Requests \ o : /\ pc'[b] = pc[b] /\ phase'[b] = phase[b] /\ uses'[b] = uses[b]
    PROVE  Placed'
<1>1. ASSUME NEW t \in Task, t.board \notin o, Due(t) PROVE Due(t)'
  <2>1. t.board \in Requests \ o
    BY <1>1 DEF Task
  <2> QED BY <1>1, <2>1 DEF Due
<1>2. ASSUME NEW e \in Executors, NEW t \in Range(queue'[e])
      PROVE  Due(t)' /\ t \notin running'[e] \cup done'
  <2>1. t \in Task /\ Due(t) /\ t.board \notin o /\ t \notin running[e] \cup done
    BY <1>2, QueuedTask DEF Placed
  <2> QED BY <1>1, <2>1
<1>3. ASSUME NEW e \in Executors, NEW t \in running'[e]
      PROVE  /\ pc'[t.board] \notin {"sent", "ticketed"}
             /\ pc'[t.board] = "pooled" => uses'[t.board] = e /\ Due(t)' /\ t \notin done'
  <2>1. t \in Task /\ t.board \in Requests /\ t \in running[e]
    BY <1>3 DEF TypeOK, Task
  <2>2. CASE t.board \in o
    BY <2>2
  <2>3. CASE t.board \notin o
    BY <1>1, <2>1, <2>3 DEF Placed
  <2> QED BY <2>2, <2>3
<1>4. ASSUME NEW t \in done' PROVE pc'[t.board] = "pooled" /\ Due(t)'
  <2>1. t \in Task /\ t.board \in Requests \ o /\ pc[t.board] = "pooled" /\ Due(t)
    BY <1>4 DEF TypeOK, Placed, Task
  <2> QED BY <1>1, <2>1
<1> QED BY <1>2, <1>3, <1>4 DEF Placed
LEMMA FinishPlaced ==
    ASSUME Core, Placed, NEW e \in Executors, Finish(e)
    PROVE  Placed'
<1>1. PICK t \in running[e] :
         /\ running' = [running EXCEPT ![e] = @ \ {t}]
         /\ IF uses[t.board] # e
            THEN UNCHANGED <<done, raised>>
            ELSE IF "playbook" \in lost
                 THEN raised' = raised \cup {t} /\ UNCHANGED done
                 ELSE done' = done \cup {t} /\ UNCHANGED raised
  BY DEF Finish
<1>0. done' = done \/ (uses[t.board] = e /\ done' = done \cup {t})
  BY <1>1
<1>2. queue' = queue /\ pc' = pc /\ phase' = phase /\ uses' = uses
  BY DEF Finish, walk
<1>3. /\ t.board \in Requests
      /\ \A x \in Executors : running'[x] \subseteq running[x]
      /\ t \notin running'[e]
  BY <1>1 DEF Core, TypeOK, Task
<1>4. uses[t.board] = e => pc[t.board] = "pooled"
  BY <1>3 DEF Core, Holding, Executors
<1>5. ASSUME NEW x \in Executors, NEW u \in Range(queue[x])
      PROVE  Due(u) /\ u \notin running'[x] \cup done'
  <2>1. Due(u) /\ u \notin running[x] \cup done /\ uses[u.board] = x
    BY DEF Placed, Core, Kept
  <2>2. uses[t.board] = e => u # t
    BY <2>1
  <2> QED BY <1>0, <1>3, <2>1, <2>2
<1>6. ASSUME NEW x \in Executors, NEW u \in running'[x], pc[u.board] = "pooled"
      PROVE  uses[u.board] = x /\ Due(u) /\ u \notin done'
  <2>1. u \in running[x] /\ uses[u.board] = x /\ Due(u) /\ u \notin done
    BY <1>3, <1>6 DEF Placed
  <2>2. uses[t.board] = e => u # t
    BY <1>3, <1>6, <2>1
  <2> QED BY <1>0, <2>1, <2>2
<1>7. ASSUME NEW u \in done' PROVE pc[u.board] = "pooled" /\ Due(u)
  <2>1. CASE u \in done
    BY <2>1 DEF Placed
  <2>2. CASE u \notin done
    <3>1. u = t /\ uses[t.board] = e
      BY <1>0, <1>7, <2>2
    <3> QED BY <1>4, <3>1 DEF Placed
  <2> QED BY <2>1, <2>2
<1> QED BY <1>2, <1>3, <1>5, <1>6, <1>7 DEF Placed, Due

LEMMA PlacedInit == Init => Placed
<1>1. Range(<<>>) = {} /\ Single(<<>>)
  BY DEF Range, Single
<1> QED BY <1>1 DEF Init, Placed

LEMMA PlacedStep == Core /\ Placed /\ Walked /\ [Next]_vars => Placed'
<1> SUFFICES ASSUME Core, Placed, Walked, [Next]_vars PROVE Placed'
  OBVIOUS
<1>0. TypeOK /\ Core'
  BY CoreStep DEF Core
<1>1. ASSUME NEW b \in Requests, Take(b) \/ Load(b) \/ LoadRaises(b) PROVE Placed'
  <2>1. /\ queue' = queue /\ running' = running /\ done' = done /\ phase' = phase
        /\ \A c \in Requests : c # b => pc'[c] = pc[c] /\ uses'[c] = uses[c]
        /\ pc[b] \in {"sent", "ticketed"} /\ pc'[b] \in {"ticketed", "pooled", "here", "failed"}
    BY <1>0, <1>1 DEF Take, Load, LoadRaises, taskVars, TypeOK
  <2>2. \A e \in Executors : \A t \in running[e] : t.board # b /\ t.board \in Requests
    BY <1>0, <2>1 DEF Placed, TypeOK, Task
  <2>3. \A t \in done : t.board # b /\ t.board \in Requests
    BY <1>0, <2>1 DEF Placed, TypeOK, Task
  <2> QED BY <2>1, <2>2, <2>3 DEF Placed, Due
<1>2. ASSUME NEW b \in Requests, Pass(b) PROVE Placed'
  BY <1>2 DEF Pass, Placed, Due, taskVars
<1>3. ASSUME NEW b \in Requests, NEW o \in Outcomes, Ends(b, o) PROVE Placed'
  <2>1. /\ PassEnds(b) /\ CancelAll(b) /\ running' = running /\ pc' = [pc EXCEPT ![b] = o]
        /\ done' = {t \in done : t.board # b}
    BY <1>3 DEF Ends, PassEnds
  <2>2. \A e \in Executors : /\ Single(queue'[e])
                             /\ \A t \in Range(queue'[e]) : t \in Range(queue[e]) /\ t.board # b
    BY <1>0, <2>1, CancelAllIs DEF Placed
  <2>3. \A c \in Requests \ {b} : /\ pc'[c] = pc[c] /\ phase'[c] = phase[c] /\ uses'[c] = uses[c]
    BY <1>0, <2>1, PassEndsTyped DEF TypeOK
  <2>4. pc'[b] \notin {"sent", "ticketed", "pooled"}
    BY <1>0, <2>1 DEF TypeOK, Outcomes
  <2>5. {b} \in SUBSET Requests
    OBVIOUS
  <2> QED BY <1>0, <2>1, <2>2, <2>3, <2>4, <2>5, LessPlaced
<1>4. ASSUME NEW b \in Requests, Recover(b) PROVE Placed'
  <2>1. /\ PassEnds(b) /\ running' = running /\ pc' = [pc EXCEPT ![b] = "here"]
        /\ done' = {t \in done : t.board # b}
    BY <1>4 DEF Recover, PassEnds
  <2>2. \A e \in Executors : /\ Single(queue'[e])
                             /\ \A t \in Range(queue'[e]) : t \in Range(queue[e])
    <3>1. CASE current = 0
      <4>1. CancelAll(b)
        BY <1>4, <3>1 DEF Recover
      <4> QED BY <1>0, <4>1, CancelAllIs DEF Placed
    <3>2. CASE current # 0
      <4>1. queue' = [queue EXCEPT ![current] = <<>>]
        BY <1>4, <3>2 DEF Recover
      <4>2. \A e \in Executors : queue'[e] = queue[e] \/ (queue'[e] = <<>> /\ Range(queue'[e]) = {})
        BY <1>0, <4>1, DropsAre
      <4>3. Single(<<>>)
        BY DEF Single
      <4> QED BY <4>2, <4>3 DEF Placed
    <3> QED BY <3>1, <3>2
  <2>3. pc'[b] = "here" /\ \A c \in Requests \ {b} : pc'[c] = pc[c] /\ phase'[c] = phase[c] /\ uses'[c] = uses[c]
    BY <1>0, <2>1, PassEndsTyped DEF TypeOK
  <2>4. \A e \in Executors : \A t \in Range(queue'[e]) : t.board # b
    BY <1>0, <2>3 DEF Core, Kept
  <2>5. {b} \in SUBSET Requests
    OBVIOUS
  <2> QED BY <1>0, <2>1, <2>2, <2>3, <2>4, <2>5, LessPlaced
<1>5. ASSUME NEW b \in Requests, Supersede(b) \/ Refuse(b) \/ Answer(b) \/ Fall(b) PROVE Placed'
  BY <1>3, <1>5, FallEnds
\* A step of the executors, or of the pool, ends no board.
<1>6. ASSUME pc' = pc, phase' = phase, uses' = uses, done' = done,
             \A e \in Executors : /\ Single(queue'[e]) /\ running'[e] \subseteq running[e]
                                  /\ \A t \in Range(queue'[e]) : t \in Range(queue[e])
      PROVE  Placed'
  <2>1. {} \in SUBSET Requests
    OBVIOUS
  <2> QED BY <1>0, <1>6, <2>1, LessPlaced
<1>7. ASSUME NEW e \in Executors, Hand(e) PROVE Placed'
  <2>1. /\ Head(queue[e]) \in Range(queue[e]) /\ Head(queue[e]) \notin Range(queue'[e])
        /\ \A x \in Executors : Range(queue'[x]) \subseteq Range(queue[x]) /\ Single(queue'[x])
    BY <1>0, <1>7, HandIs DEF Placed
  <2>2. /\ pc' = pc /\ phase' = phase /\ uses' = uses /\ done' = done
        /\ running' = [running EXCEPT ![e] = @ \cup {Head(queue[e])}]
    BY <1>7 DEF Hand, walk
  <2>3. \A x \in Executors : \A t \in running'[x] : t \in running[x] \/ (x = e /\ t = Head(queue[e]))
    BY <1>0, <2>2 DEF TypeOK
  <2>4. \A x \in Executors : running'[x] = running[x] \/ x = e
    BY <1>0, <2>2 DEF TypeOK
  <2>5. /\ pc[Head(queue[e]).board] = "pooled" /\ uses[Head(queue[e]).board] = e
        /\ Due(Head(queue[e])) /\ Head(queue[e]) \notin done
    BY <1>0, <2>1 DEF Core, Kept, Placed
  <2>6. \A x \in Executors : \A t \in Range(queue'[x]) : Due(t) /\ t \notin running'[x] \cup done
    BY <2>1, <2>3 DEF Placed
  <2>7. \A x \in Executors : \A t \in running'[x] :
            /\ pc[t.board] \notin {"sent", "ticketed"}
            /\ pc[t.board] = "pooled" => uses[t.board] = x /\ Due(t) /\ t \notin done
    BY <2>3, <2>5 DEF Placed
  <2> QED BY <2>1, <2>2, <2>6, <2>7 DEF Placed, Due
<1>8. ASSUME NEW e \in Executors, WorkerDies(e) PROVE Placed'
  <2>1. /\ queue' = [queue EXCEPT ![e] = <<>>] /\ running' = [running EXCEPT ![e] = {}]
        /\ pc' = pc /\ phase' = phase /\ uses' = uses /\ done' = done
    BY <1>8 DEF WorkerDies, walk
  <2>2. Single(<<>>) /\ Range(<<>>) = {}
    BY DEF Single, Range
  <2>3. \A x \in Executors : /\ queue'[x] = queue[x] \/ queue'[x] = <<>>
                             /\ running'[x] \subseteq running[x]
    BY <1>0, <2>1 DEF TypeOK
  <2> QED BY <1>6, <2>1, <2>2, <2>3 DEF Placed
<1>9. ASSUME StrangerDrops PROVE Placed'
  <2>1. /\ queue' = [queue EXCEPT ![current] = <<>>] /\ running' = running
        /\ pc' = pc /\ phase' = phase /\ uses' = uses /\ done' = done
    BY <1>9 DEF StrangerDrops, walk
  <2>2. \A e \in Executors : queue'[e] = queue[e] \/ (queue'[e] = <<>> /\ Range(queue'[e]) = {})
    BY <1>0, <2>1, DropsAre
  <2>3. Single(<<>>)
    BY DEF Single
  <2> QED BY <1>6, <2>1, <2>2, <2>3 DEF Placed
<1>10. CASE UNCHANGED vars
  BY <1>10 DEF vars, Placed, Due
<1>11. ASSUME NEW what \in Sources, Lose(what) \/ Regain(what) PROVE Placed'
  BY <1>11 DEF Lose, Regain, Placed, Due, walk, taskVars
<1> QED
  BY <1>1, <1>2, <1>4, <1>5, <1>7, <1>8, <1>9, <1>10, <1>11, SplitPlaced, GatherPlaced, FinishPlaced
     DEF Next, Work

\* A pooled board past its script has solved every search it sent out.
LEMMA AllSolved ==
    ASSUME Core, Walked, NEW b \in Requests, pc[b] = "pooled", at[b] > Len(Script[b]),
           NEW s \in Searches
    PROVE  phase[b][s] \in {"none", "solved"}
<1> SUFFICES ASSUME phase[b][s] # "none" PROVE phase[b][s] = "solved"
  OBVIOUS
<1>1. WalkedBy(b)
  BY WalkedAgain DEF WalkedIs
<1>2. s \in Wanted[b]
  BY <1>1 DEF WalkedBy
<1>3. Script[b] \in Seq(CallSet) /\ Len(Script[b]) \in Nat /\ DOMAIN Script[b] = 1..Len(Script[b])
  BY ScriptIs DEF Shape
<1>4. PICK i \in 1..Len(Script[b]) : Script[b][i] = OneCall("solved", s)
  <2>1. OneCall("solved", s) \in Range(Script[b])
    BY <1>2, ScriptIs
  <2> QED BY <1>3, <2>1 DEF Range
<1>5. i \in 1..at[b] - 1
  BY <1>1, <1>3, <1>4 DEF WalkedBy
<1>6. Script[b][i].of = s /\ Target(Script[b][i]) = 5
  BY <1>4 DEF OneCall, Target
<1>7. Level(phase[b][s]) >= 5
  BY <1>1, <1>2, <1>5, <1>6 DEF WalkedBy
<1>8. phase[b][s] \in Phases
  BY DEF Core, TypeOK
<1> QED BY <1>7, <1>8, LevelIs

\* Only Answer answers.
LEMMA AnswersOnly ==
    ASSUME Core, [Next]_vars, NEW b \in Requests, pc[b] = "pooled", pc'[b] = "answered"
    PROVE  Answer(b)
<1>0. pc \in [Requests -> {"sent", "ticketed", "pooled", "here"} \cup Outcomes]
  BY DEF Core, TypeOK
<1>1. ASSUME NEW c \in Requests, Take(c) PROVE FALSE
  BY <1>0, <1>1 DEF Take
<1>2. ASSUME NEW c \in Requests, Load(c) \/ LoadRaises(c) PROVE FALSE
  BY <1>0, <1>2 DEF Load, LoadRaises
<1>3. ASSUME NEW c \in Requests, Split(c) \/ Pass(c) \/ Gather(c) PROVE FALSE
  BY <1>3 DEF Split, Pass, Gather
<1>4. ASSUME NEW c \in Requests, Supersede(c) \/ Refuse(c) \/ Fall(c) PROVE FALSE
  BY <1>0, <1>4 DEF Supersede, Refuse, Fall, Ends
<1>5. ASSUME NEW c \in Requests, Recover(c) PROVE FALSE
  BY <1>0, <1>5 DEF Recover
<1>6. ASSUME NEW c \in Requests, Answer(c) PROVE c = b
  BY <1>0, <1>6 DEF Answer, Ends
<1>7. ASSUME NEW e \in Executors, Hand(e) \/ Finish(e) \/ WorkerDies(e) PROVE FALSE
  BY <1>7 DEF Hand, Finish, WorkerDies, walk
<1>8. ASSUME StrangerDrops \/ UNCHANGED vars PROVE FALSE
  BY <1>8 DEF StrangerDrops, walk, vars
<1>9. ASSUME NEW what \in Sources, Lose(what) \/ Regain(what) PROVE FALSE
  BY <1>9 DEF Lose, Regain, walk
<1> QED BY <1>1, <1>2, <1>3, <1>4, <1>5, <1>6, <1>7, <1>8, <1>9 DEF Next, Work

\* WholePassRead: a pass that answers has read every task it submitted, so
\* its cancel_all cancels nothing and no worker is left solving for nobody.
THEOREM PassesRead == Spec => WholePassRead
<1> DEFINE I == Core /\ Walked /\ Placed
           Read == \A b \in Requests :
                      pc[b] = "pooled" /\ pc'[b] = "answered" =>
                          \A e \in Executors : \A t \in Range(queue[e]) \cup running[e] \cup done :
                              t.board # b
<1>1. Init => I
  BY CoreInit, WalkedInit, PlacedInit
<1>2. I /\ [Next]_vars => I'
  BY CoreStep, WalkedStep, PlacedStep
<1>3. I /\ [Next]_vars => Read
  <2> SUFFICES ASSUME Core, Walked, Placed, [Next]_vars, NEW b \in Requests,
                      pc[b] = "pooled", pc'[b] = "answered", NEW e \in Executors,
                      NEW t \in Range(queue[e]) \cup running[e] \cup done, t.board = b
               PROVE  FALSE
    BY Zenon
  <2>1. at[b] > Len(Script[b])
    BY AnswersOnly DEF Answer
  <2>2. t \in Task /\ Due(t)
    BY QueuedTask DEF Core, TypeOK, Placed
  <2>3. t.search \in Searches
    BY <2>2 DEF Task
  <2>4. phase[b][t.search] \in {"none", "solved"}
    BY <2>1, <2>3, AllSolved
  <2>5. TasksOf(b, t.search, phase[b][t.search]) = <<>> /\ Range(<<>>) = {}
    <3>1. phase[b][t.search] \in Phases /\ phase[b][t.search] \notin Sliced \cup {"ranking"}
      BY <2>4 DEF Phases, Sliced
    <3> QED BY <2>3, <3>1, TasksAre DEF Range
  <2> QED BY <2>2, <2>5 DEF Due
<1> QED BY <1>1, <1>2, <1>3, PTL DEF Spec, WholePassRead
-----------------------------------------------------------------------------
(* StopsSoon.                                                              *)

\* Where the script sends searches out, and what follows the last ones.
LEMMA SplitsAt ==
    ASSUME NEW b \in Requests
    PROVE  /\ Len(Script[b]) \in Nat /\ Len(Script[b]) >= 22
           /\ \A i \in 1..Len(Script[b]) : Script[b][i].op = "split" => i \in {1, 2, 7, 8, 15, 17}
           /\ \A i \in {1, 2, 7, 8, 15, 17} : Script[b][i].op = "split"
           /\ Script[b][7].of = "fill" /\ Script[b][8].of = "redfill" /\ Script[b][17].of = "answer"
           /\ \A i \in {3, 9, 14, 16, 18} : Script[b][i].op # "split"
<1> DEFINE p == Script[b]
<1>1. /\ p \in Seq(CallSet) /\ Len(p) >= 22
      /\ \A j \in 1..22 : p[j] = Opening[j]
      /\ \A j \in 23..Len(p) : p[j].op \in {"swept", "solved"}
  BY ScriptIs DEF Shape
<1> HIDE DEF p
<1>2. \A j \in 1..22 : p[j] = Opening[j]
  BY <1>1
<1>3. /\ p[1] = Opening[1] /\ p[2] = Opening[2] /\ p[7] = Opening[7] /\ p[8] = Opening[8]
      /\ p[15] = Opening[15] /\ p[17] = Opening[17]
  BY <1>2
<1>4. /\ p[1].op = "split" /\ p[2].op = "split" /\ p[7].op = "split" /\ p[8].op = "split"
      /\ p[15].op = "split" /\ p[17].op = "split"
      /\ p[7].of = "fill" /\ p[8].of = "redfill" /\ p[17].of = "answer"
  BY <1>3, OpeningIs DEF OneCall
<1>5. \A i \in {3, 4, 5, 6, 9, 10, 11} : p[i].op # "split"
  <2>1. \A i \in {3, 4, 5, 6, 9, 10, 11} : p[i] = Opening[i]
    BY <1>2
  <2> QED BY <2>1, OpeningIs DEF OneCall
<1>6. \A i \in {12, 13, 14, 16, 18, 19, 20, 21, 22} : p[i].op # "split"
  <2>1. \A i \in {12, 13, 14, 16, 18, 19, 20, 21, 22} : p[i] = Opening[i]
    BY <1>2
  <2> QED BY <2>1, OpeningIs DEF OneCall
<1>7. Len(p) \in Nat
  BY <1>1
<1>8. ASSUME NEW i \in 1..Len(p), p[i].op = "split" PROVE i \in {1, 2, 7, 8, 15, 17}
  <2>1. i \in 23..Len(p) \/ i \in 1..22
    BY <1>7
  <2>2. i \notin 23..Len(p)
    BY <1>1, <1>8
  <2>3. i \in {3, 4, 5, 6, 9, 10, 11} \/ i \in {12, 13, 14, 16, 18, 19, 20, 21, 22}
        \/ i \in {1, 2, 7, 8, 15, 17}
    BY <2>1, <2>2
  <2> QED BY <1>5, <1>6, <1>8, <2>3
<1> QED BY <1>1, <1>4, <1>5, <1>6, <1>7, <1>8 DEF p

LEMMA RoundsIn == ASSUME NEW b \in Requests PROVE Rounds(b) \in 0..2
BY DEF Rounds

\* What a board may yet send out once a call of its is over.
LEMMA RoundsAfter ==
    ASSUME Core, NEW b \in Requests, pc[b] = "pooled", at[b] \in 1..Len(Script[b]),
           pc'[b] = pc[b], at'[b] = at[b] + 1, ~asked'[b]
    PROVE  Rounds(b)' = IF at[b] \in {1, 14} THEN 1 ELSE 0
<1>1. /\ Len(Script[b]) \in Nat /\ Len(Script[b]) >= 22
      /\ \A i \in 1..Len(Script[b]) : Script[b][i].op = "split" => i \in {1, 2, 7, 8, 15, 17}
      /\ \A i \in {1, 2, 7, 8, 15, 17} : Script[b][i].op = "split"
  BY SplitsAt
<1>2. CASE at'[b] > Len(Script[b])
  <2>1. at[b] \notin {1, 14}
    BY <1>1, <1>2
  <2> QED BY <1>2, <2>1 DEF Rounds
<1>3. CASE at'[b] <= Len(Script[b]) /\ Op(b)' = "split"
  <2>1. at'[b] \in 1..Len(Script[b]) /\ Script[b][at'[b]].op = "split"
    BY <1>1, <1>3 DEF Op
  <2>3. at'[b] \in {1, 2, 7, 8, 15, 17}
    BY <1>1, <2>1
  <2> QED BY <1>3, <2>3 DEF Rounds
<1>4. CASE at'[b] <= Len(Script[b]) /\ Op(b)' # "split"
  <2>1. at'[b] \notin {1, 2, 7, 8, 15, 17}
    BY <1>1, <1>4 DEF Op
  <2> QED BY <1>4, <2>1 DEF Rounds
<1> QED BY <1>1, <1>2, <1>3, <1>4

\* A submission counts where a newer request replaced the board.
LEMMA SubmitLate ==
    ASSUME Core, NEW b \in Requests, Submit(b)
    PROVE  /\ late'[b] = IF Superseded(b) /\ Sends(b) # <<>> THEN late[b] + 1 ELSE late[b]
           /\ \A c \in Requests : c # b => late'[c] = late[c]
BY DEF Submit, Core, TypeOK

\* A board that submits spends what it may yet send out.
LEMMA SplitCredit ==
    ASSUME Core, Walked, Credit, NEW b \in Requests, Split(b)
    PROVE  /\ late'[b] + Rounds(b)' <= 2 /\ (pc[b] = "pooled" /\ ~Superseded(b) => late'[b] = 0)
           /\ \A c \in Requests : c # b => late'[c] = late[c]
<1>1. /\ late[b] \in Nat /\ Rounds(b) \in 0..2 /\ late[b] + Rounds(b) <= 2
      /\ at'[b] = at[b] + 1 /\ ~asked'[b] /\ pc' = pc /\ Op(b) = "split" /\ at[b] <= Len(Script[b])
  BY RoundsIn, NextCallIs DEF Core, TypeOK, Credit, Split
<1>2. CASE pc[b] # "pooled"
  <2>1. late' = late /\ Rounds(b)' = 0
    BY <1>1, <1>2 DEF Split, IsSplit, Rounds
  <2> QED BY <1>1, <1>2, <2>1
<1>3. CASE pc[b] = "pooled"
  <2>1. /\ Len(Script[b]) \in Nat /\ at[b] \in 1..Len(Script[b]) /\ at[b] \in {1, 2, 7, 8, 15, 17}
    <3>1. Len(Script[b]) \in Nat
      BY SplitsAt
    <3>2. at[b] \in 1..Len(Script[b])
      BY <1>1, <1>3, <3>1 DEF Walked
    <3> QED BY <1>1, <3>1, <3>2, SplitsAt DEF Op
  <2>2. Rounds(b)' = IF at[b] \in {1, 14} THEN 1 ELSE 0
    BY <1>1, <1>3, <2>1, RoundsAfter
  <2>3. Rounds(b) = IF at[b] = 1 THEN 2 ELSE IF at[b] \in {2, 15} THEN 1 ELSE 0
    BY <1>1, <1>3 DEF Rounds
  <2>4. CASE IsSplit(b)
    <3>1. /\ late'[b] = IF Superseded(b) /\ Sends(b) # <<>> THEN late[b] + 1 ELSE late[b]
          /\ \A c \in Requests : c # b => late'[c] = late[c]
      BY <2>4, SubmitLate DEF Split
    <3>2. ASSUME at[b] \in {7, 8, 17} PROVE Sends(b) = <<>>
      <4>1. ScaleOf(Of(b)) # Of(b)
        BY <3>2, SplitsAt DEF ScaleOf, Of
      <4>2. Sends(b) = TasksOf(b, Of(b), "scaled") /\ Of(b) \in Searches
        BY <2>4, <4>1, WantedIn DEF Split, Sends, IsSplit
      <4>3. "scaled" \in Phases /\ "scaled" \notin Sliced \cup {"ranking"}
        BY DEF Phases, Sliced
      <4> QED BY <4>2, <4>3, TasksAre
    <3>3. late'[b] + Rounds(b)' <= 2
      BY <1>1, <2>1, <2>2, <2>3, <3>1, <3>2
    <3> QED BY <1>3, <3>1, <3>3 DEF Credit
  <2>5. CASE ~IsSplit(b)
    <3>1. late' = late
      BY <2>5 DEF Split
    <3> QED BY <1>1, <1>3, <2>1, <2>2, <2>3, <3>1 DEF Credit
  <2> QED BY <2>4, <2>5
<1> QED BY <1>2, <1>3

LEMMA GatherCredit ==
    ASSUME Core, Walked, Credit, NEW b \in Requests, Gather(b)
    PROVE  /\ late'[b] + Rounds(b)' <= 2 /\ (~Superseded(b) => late'[b] = 0)
           /\ \A c \in Requests : c # b => late'[c] = late[c]
<1> DEFINE q == phase[b][Of(b)]
           r == NextRound(q)
<1>1. /\ pc[b] = "pooled" /\ at[b] <= Len(Script[b]) /\ Op(b) # "split" /\ asked[b] /\ pc' = pc
      /\ Of(b) \in Wanted[b] /\ Of(b) \in Searches /\ q \in Phases /\ phase'[b][Of(b)] = r
      /\ IF Reached(Op(b), r) THEN at'[b] = at[b] + 1 /\ ~asked'[b] ELSE at' = at /\ asked' = asked
      /\ Submit(b) /\ Sends(b) = TasksOf(b, Of(b), r)
  BY GatherIs
<1>2. /\ late[b] \in Nat /\ Rounds(b) \in 0..2 /\ late[b] + Rounds(b) <= 2
      /\ ~Superseded(b) => late[b] = 0
  BY <1>1, RoundsIn DEF Core, TypeOK, Credit
<1>3. /\ late'[b] = IF Superseded(b) /\ Sends(b) # <<>> THEN late[b] + 1 ELSE late[b]
      /\ \A c \in Requests : c # b => late'[c] = late[c]
  BY <1>1, SubmitLate
<1>4. WalkedBy(b)
  BY <1>1, WalkedAgain DEF WalkedIs
<1>5. /\ ~Reached(Op(b), q) /\ at[b] \in 1..Len(Script[b]) /\ Script[b][at[b]] \in CallSet
      /\ Len(Script[b]) \in Nat
  <2>1. Len(Script[b]) \in Nat
    BY SplitsAt
  <2>2. at[b] \in 1..Len(Script[b])
    BY <1>1, <1>4, <2>1 DEF WalkedBy
  <2> QED BY <1>1, <1>4, <2>1, <2>2, ScriptOrder DEF WalkedBy
<1>6. Op(b) \in {"rank", "sweep", "merge", "solved"}
  BY <1>1, <1>5 DEF CallSet, Ops, Op, Reached
<1>7. IF Op(b) = "sweep" /\ Of(b) = "against" THEN Level(q) >= 1
      ELSE Level(q) >= Target(Script[b][at[b]]) - 1
  BY <1>1, <1>4, <1>6, CallStarted
<1>8. at[b] # 1
  BY <1>1, SplitsAt DEF Op
<1>9. Reached(Op(b), r) => Rounds(b)' = IF at[b] = 14 THEN 1 ELSE 0
  BY <1>1, <1>5, <1>8, RoundsAfter
<1>10. r \in Phases /\ (Sends(b) # <<>> <=> r \in Sliced \cup {"ranking"})
  BY <1>1, NextRoundIs, TasksAre
<1>11. ~Reached(Op(b), r) =>
          Rounds(b)' = CASE Op(b) = "rank" -> 1
                         [] Op(b) = "sweep" -> (IF r = "sampling" THEN 2 ELSE 1)
                         [] Op(b) = "merge" -> 1
                         [] OTHER -> IF at[b] = 14 THEN 1 ELSE 0
  <2> HIDE DEF q, r
  <2> SUFFICES ASSUME ~Reached(Op(b), r)
               PROVE  Rounds(b)' = CASE Op(b) = "rank" -> 1
                                     [] Op(b) = "sweep" -> (IF r = "sampling" THEN 2 ELSE 1)
                                     [] Op(b) = "merge" -> 1
                                     [] OTHER -> IF at[b] = 14 THEN 1 ELSE 0
    OBVIOUS
  <2>1. at'[b] = at[b] /\ Op(b)' = Op(b) /\ Of(b)' = Of(b) /\ asked'[b] /\ pc'[b] = "pooled"
    BY <1>1 DEF Op, Of
  <2>2. phase'[b][Of(b)'] = r
    BY <1>1, <2>1
  <2>3. ~(pc'[b] # "pooled" \/ at'[b] > Len(Script[b])) /\ Op(b)' # "split"
    BY <1>1, <1>5, <2>1
  <2> QED BY <2>1, <2>2, <2>3 DEF Rounds
<1>12. Rounds(b) = CASE Op(b) = "rank" -> 1
                     [] Op(b) = "sweep" -> (IF q = "sampling" THEN 2 ELSE 1)
                     [] Op(b) = "merge" -> 1
                     [] OTHER -> IF at[b] = 14 THEN 1 ELSE 0
  <2> HIDE DEF q, r
  <2>1. ~(pc[b] # "pooled" \/ at[b] > Len(Script[b]))
    BY <1>1, <1>5
  <2> QED BY <1>1, <2>1 DEF Rounds, q
<1>13. at[b] = 14 => Op(b) = "solved"
  <2>1. Script[b][14] = Opening[14]
    BY ScriptIs DEF Shape
  <2>2. Script[b][14] = OneCall("solved", "red")
    BY <2>1, OpeningIs, Zenon
  <2>3. Script[b][14].op = "solved"
    BY <2>2 DEF OneCall
  <2> QED BY <2>3 DEF Op
<1>14. (Sends(b) # <<>> => late[b] + 1 + Rounds(b)' <= 2) /\ (Sends(b) = <<>> => late[b] + Rounds(b)' <= 2)
  <2> HIDE DEF q, r
  <2>0. Level(q) \in 0..5
    BY <1>1, LevelIs
  <2>1. CASE Op(b) = "rank"
    <3>1. q = "sampling"
      BY <1>1, <1>5, <1>7, <2>1, LevelIs DEF Reached, Target, Op
    <3>2. r = "tallying" /\ Reached(Op(b), r)
      BY <2>1, <3>1 DEF r, NextRound, Reached
    <3> QED BY <1>2, <1>9, <1>12, <1>13, <2>1, <3>2
  <2>2. CASE Op(b) = "sweep"
    <3>1. CASE q = "sampling"
      <4>1. r = "tallying" /\ ~Reached(Op(b), r)
        BY <2>2, <3>1 DEF r, NextRound, Reached
      <4> QED BY <1>2, <1>11, <1>12, <2>2, <3>1, <4>1
    <3>2. CASE q \in {"tallying", "scaled"}
      <4>1. r = "sweeping" /\ Reached(Op(b), r)
        BY <2>2, <3>2 DEF r, NextRound, Reached
      <4> QED BY <1>2, <1>9, <1>12, <1>13, <2>2, <3>2, <4>1
    <3>3. CASE q \notin {"sampling", "tallying", "scaled"}
      <4>1. q \in {"none", "ranking", "solved"}
        BY <1>1, <1>5, <2>2, <3>3 DEF Reached, Phases
      <4>2. r = "solved" /\ ~Reached(Op(b), r)
        BY <2>2, <4>1 DEF r, NextRound, Reached
      <4> QED BY <1>2, <1>10, <1>11, <1>12, <2>2, <3>3, <4>2 DEF Sliced
    <3> QED BY <3>1, <3>2, <3>3
  <2>3. CASE Op(b) = "merge"
    <3>1. q \in {"sweeping", "solved"}
      <4>1. Level(q) >= 3 /\ q # "ranking"
        BY <1>5, <1>7, <2>3 DEF Reached, Target, Op
      <4> QED BY <1>1, <2>0, <4>1, LevelIs DEF Phases
    <3>2. CASE q = "sweeping"
      <4>1. r = "ranking" /\ Reached(Op(b), r)
        BY <2>3, <3>2 DEF r, NextRound, Reached
      <4> QED BY <1>2, <1>9, <1>12, <1>13, <2>3, <4>1
    <3>3. CASE q = "solved"
      <4>1. r = "solved" /\ ~Reached(Op(b), r)
        BY <2>3, <3>3 DEF r, NextRound, Reached
      <4> QED BY <1>2, <1>10, <1>11, <1>12, <2>3, <4>1 DEF Sliced
    <3> QED BY <3>1, <3>2, <3>3
  <2>4. CASE Op(b) = "solved"
    <3>1. q = "ranking"
      <4>1. Level(q) >= 4 /\ q # "solved"
        BY <1>5, <1>7, <2>4 DEF Reached, Target, Op
      <4> QED BY <1>1, <2>0, <4>1, LevelIs DEF Phases
    <3>2. r = "solved" /\ Reached(Op(b), r)
      BY <2>4, <3>1 DEF r, NextRound, Reached
    <3> QED BY <1>2, <1>9, <1>10, <1>12, <2>4, <3>2 DEF Sliced
  <2> QED BY <1>6, <2>1, <2>2, <2>3, <2>4
<1>15. Rounds(b)' \in Int
  BY <1>6, <1>9, <1>11
<1> QED BY <1>2, <1>3, <1>14, <1>15

\* A step that leaves a board's call alone leaves it as much to send.
LEMMA RoundsSame ==
    ASSUME NEW b \in Requests, pc'[b] = pc[b], at'[b] = at[b], asked'[b] = asked[b], phase'[b] = phase[b]
    PROVE  Rounds(b)' = Rounds(b)
BY DEF Rounds, Op, Of

LEMMA CreditInit == Init => Credit
<1> SUFFICES ASSUME Init PROVE Credit
  OBVIOUS
<1>1. \A b \in Requests : Rounds(b) = 0
  BY DEF Init, Rounds
<1> QED BY <1>1, BoardsAssumption DEF Init, Credit

LEMMA CreditStep == Core /\ Walked /\ Credit /\ [Next]_vars => Credit'
<1> SUFFICES ASSUME Core, Walked, Credit, [Next]_vars PROVE Credit'
  OBVIOUS
<1>0. TypeOK
  BY DEF Core
\* A board that no step touches.
<1>1. ASSUME NEW c \in Requests, newest' = newest, ticket' = ticket, pc'[c] = pc[c], at'[c] = at[c],
             asked'[c] = asked[c], phase'[c] = phase[c], late'[c] = late[c]
      PROVE  /\ ticket'[c] <= newest'[LaneOf[c]] /\ late'[c] + Rounds(c)' <= 2
             /\ pc'[c] \in {"sent", "ticketed"} => late'[c] = 0
             /\ pc'[c] = "pooled" /\ ~Superseded(c)' => late'[c] = 0
  BY <1>1, RoundsSame DEF Credit, Superseded
<1>2. ASSUME NEW b \in Requests, Take(b) PROVE Credit'
  <2>1. /\ pc[b] = "sent" /\ late' = late /\ at' = at /\ asked' = asked /\ phase' = phase
        /\ pc' = [pc EXCEPT ![b] = "ticketed"] /\ LaneOf[b] \in Clients
        /\ newest' = [newest EXCEPT ![LaneOf[b]] = @ + 1]
        /\ ticket' = [ticket EXCEPT ![b] = newest'[LaneOf[b]]]
    BY <1>2, BoardsAssumption DEF Take
  <2>2. /\ \A x \in Clients : newest[x] \in Nat /\ newest'[x] = IF x = LaneOf[b] THEN newest[x] + 1 ELSE newest[x]
        /\ pc'[b] = "ticketed" /\ ticket'[b] = newest'[LaneOf[b]]
        /\ \A c \in Requests : ticket[c] \in Nat /\ (c # b => pc'[c] = pc[c] /\ ticket'[c] = ticket[c])
    BY <1>0, <2>1 DEF TypeOK
  <2>3. ASSUME NEW c \in Requests
        PROVE  /\ ticket'[c] <= newest'[LaneOf[c]] /\ late'[c] + Rounds(c)' <= 2
               /\ pc'[c] \in {"sent", "ticketed"} => late'[c] = 0
               /\ pc'[c] = "pooled" /\ ~Superseded(c)' => late'[c] = 0
    <3>1. CASE c = b
      <4>1. late[b] = 0 /\ Rounds(b)' = 0 /\ newest'[LaneOf[b]] \in Nat
        BY <2>1, <2>2 DEF Credit, Rounds
      <4> QED BY <2>1, <2>2, <3>1, <4>1
    <3>2. CASE c # b
      <4>1. Rounds(c)' = Rounds(c)
        BY <2>1, <2>2, <3>2, RoundsSame
      <4>2. LaneOf[c] \in Clients /\ ticket[c] <= newest[LaneOf[c]]
        BY BoardsAssumption DEF Credit
      <4>3. ~Superseded(c)' => ~Superseded(c)
        BY <2>2, <3>2, <4>2 DEF Superseded
      <4>4. ticket'[c] <= newest'[LaneOf[c]]
        BY <2>2, <3>2, <4>2
      <4> QED BY <2>1, <2>2, <3>2, <4>1, <4>3, <4>4 DEF Credit
    <3> QED BY <3>1, <3>2
  <2> QED BY <2>3 DEF Credit
<1>3. ASSUME NEW b \in Requests, Load(b) PROVE Credit'
  <2>1. /\ pc[b] = "ticketed" /\ pc'[b] \in {"pooled", "here"} /\ newest' = newest /\ ticket' = ticket
        /\ late' = late /\ at' = at /\ asked' = asked /\ phase' = phase
        /\ \A c \in Requests : c # b => pc'[c] = pc[c]
    BY <1>0, <1>3 DEF Load, TypeOK
  <2>2. late[b] = 0 /\ Rounds(b)' \in 0..2 /\ ticket[b] <= newest[LaneOf[b]]
    <3>1. Rounds(b)' \in 0..2
      BY DEF Rounds
    <3> QED BY <2>1, <3>1 DEF Credit
  <2> QED BY <1>1, <2>1, <2>2 DEF Credit
<1>4. ASSUME NEW b \in Requests, Split(b) PROVE Credit'
  <2>1. /\ newest' = newest /\ ticket' = ticket /\ pc' = pc /\ pc[b] \in {"pooled", "here"}
        /\ \A c \in Requests : c # b => at'[c] = at[c] /\ asked'[c] = asked[c] /\ phase'[c] = phase[c]
    BY <1>0, <1>4, NextCallIs DEF Split, Live, TypeOK
  <2>2. /\ late'[b] + Rounds(b)' <= 2 /\ (pc[b] = "pooled" /\ ~Superseded(b) => late'[b] = 0)
        /\ \A c \in Requests : c # b => late'[c] = late[c]
    BY <1>4, SplitCredit
  <2> QED BY <1>1, <2>1, <2>2 DEF Credit, Superseded
<1>5. ASSUME NEW b \in Requests, Gather(b) PROVE Credit'
  <2>1. /\ newest' = newest /\ ticket' = ticket /\ pc' = pc /\ pc[b] = "pooled"
        /\ \A c \in Requests : c # b => at'[c] = at[c] /\ asked'[c] = asked[c] /\ phase'[c] = phase[c]
    BY <1>5, GatherIs DEF Gather
  <2>2. /\ late'[b] + Rounds(b)' <= 2 /\ (~Superseded(b) => late'[b] = 0)
        /\ \A c \in Requests : c # b => late'[c] = late[c]
    BY <1>5, GatherCredit
  <2> QED BY <1>1, <2>1, <2>2 DEF Credit, Superseded
<1>6. ASSUME NEW b \in Requests, Pass(b) PROVE Credit'
  <2>1. /\ newest' = newest /\ ticket' = ticket /\ late' = late /\ pc' = pc
        /\ pc[b] \in {"pooled", "here"} /\ phase' = phase /\ ~Superseded(b)
        /\ \A c \in Requests : c # b => at'[c] = at[c] /\ asked'[c] = asked[c]
    <3>1. CASE IsSplit(b) /\ ~Reached(Op(b), phase[b][Of(b)])
      BY <1>0, <1>6, <3>1 DEF Pass, Asks, Live, TypeOK, boardVars
    <3>2. CASE ~(IsSplit(b) /\ ~Reached(Op(b), phase[b][Of(b)]))
      BY <1>0, <1>6, <3>2, NextCallIs DEF Pass, Asks, Live, boardVars
    <3> QED BY <3>1, <3>2
  <2>2. late[b] + Rounds(b)' <= 2
    <3>1. CASE pc[b] = "pooled"
      <4>1. late[b] = 0 /\ Rounds(b)' \in 0..2
        BY <2>1, <3>1 DEF Credit, Rounds
      <4> QED BY <4>1
    <3>2. CASE pc[b] # "pooled"
      <4>1. Rounds(b)' = 0 /\ Rounds(b) = 0
        BY <2>1, <3>2 DEF Rounds
      <4> QED BY <4>1 DEF Credit
    <3> QED BY <3>1, <3>2
  <2> QED BY <1>1, <2>1, <2>2 DEF Credit, Superseded
<1>7. ASSUME NEW b \in Requests, PassEnds(b), NEW o \in Outcomes \cup {"here"}, pc' = [pc EXCEPT ![b] = o],
             newest' = newest, ticket' = ticket, late' = late
      PROVE  Credit'
  <2>1. \A c \in Requests : c # b => at'[c] = at[c] /\ asked'[c] = asked[c] /\ phase'[c] = phase[c]
    BY <1>0, <1>7, PassEndsTyped
  <2>2. pc'[b] \notin {"sent", "ticketed", "pooled"} /\ \A c \in Requests : c # b => pc'[c] = pc[c]
    BY <1>0, <1>7 DEF TypeOK, Outcomes
  <2>3. Rounds(b)' = 0 /\ Rounds(b) \in 0..2 /\ late[b] \in Nat /\ late[b] + Rounds(b) <= 2
        /\ ticket[b] <= newest[LaneOf[b]]
    BY <1>0, <2>2, RoundsIn DEF Rounds, Credit, TypeOK
  <2>4. late'[b] + Rounds(b)' <= 2
    BY <1>7, <2>3
  <2> QED BY <1>1, <1>7, <2>1, <2>2, <2>3, <2>4 DEF Credit
<1>8. ASSUME NEW b \in Requests, Recover(b) PROVE Credit'
  BY <1>7, <1>8 DEF Recover, boardVars
<1>9. ASSUME NEW b \in Requests, Supersede(b) \/ Refuse(b) \/ Answer(b) \/ Fall(b) PROVE Credit'
  <2>1. PICK o \in Outcomes : Ends(b, o)
    BY <1>9, FallEnds
  <2> QED BY <1>7, <2>1 DEF Ends, boardVars
<1>10. ASSUME UNCHANGED <<newest, ticket, late, pc, at, asked, phase>> PROVE Credit'
  BY <1>1, <1>10 DEF Credit
<1>11. ASSUME NEW e \in Executors, Hand(e) \/ Finish(e) \/ WorkerDies(e) PROVE Credit'
  BY <1>10, <1>11 DEF Hand, Finish, WorkerDies, walk, boardVars
<1>12. ASSUME StrangerDrops \/ UNCHANGED vars PROVE Credit'
  BY <1>10, <1>12 DEF StrangerDrops, walk, vars, boardVars
<1>13. ASSUME NEW b \in Requests, LoadRaises(b) PROVE Credit'
  <2>1. /\ pc[b] = "ticketed" /\ pc'[b] = "failed" /\ newest' = newest /\ ticket' = ticket
        /\ late' = late /\ at' = at /\ asked' = asked /\ phase' = phase
        /\ \A c \in Requests : c # b => pc'[c] = pc[c]
    BY <1>0, <1>13 DEF LoadRaises, TypeOK, boardVars
  <2>2. Rounds(b)' = 0 /\ late[b] = 0 /\ ticket[b] <= newest[LaneOf[b]]
    BY <2>1 DEF Rounds, Credit
  <2> QED BY <1>1, <2>1, <2>2 DEF Credit
<1>14. ASSUME NEW what \in Sources, Lose(what) \/ Regain(what) PROVE Credit'
  BY <1>10, <1>14 DEF Lose, Regain, walk, boardVars
<1> QED
  BY <1>2, <1>3, <1>4, <1>5, <1>6, <1>8, <1>9, <1>11, <1>12, <1>13, <1>14 DEF Next, Work

\* StopsSoon: a board a newer request replaced sends out two rounds of tasks
\* at most before a round asks the Watch and stops it.
THEOREM SoonStopped == Spec => []StopsSoon
<1>1. Core /\ Credit => StopsSoon
  <2> SUFFICES ASSUME Core, Credit, NEW b \in Requests PROVE late[b] <= 2
    BY DEF StopsSoon
  <2>1. late[b] \in Nat /\ Rounds(b) \in 0..2 /\ late[b] + Rounds(b) <= 2
    BY RoundsIn DEF Core, TypeOK, Credit
  <2> QED BY <2>1
<1>2. Init => Core /\ Walked /\ Credit
  BY CoreInit, WalkedInit, CreditInit
<1>3. Core /\ Walked /\ Credit /\ [Next]_vars => (Core /\ Walked /\ Credit)'
  BY CoreStep, WalkedStep, CreditStep
<1> QED BY <1>1, <1>2, <1>3, PTL DEF Spec
-----------------------------------------------------------------------------
(* Every step is a step of the service, or none of its.                    *)

Taken(c) == {b \in Requests : LaneOf[b] = c /\ pc[b] # "sent"}

\* The tickets of a lane are the first numbers, each taken once.
Lanes ==
    /\ \A b \in Requests : /\ pc[b] = "sent" <=> ticket[b] = 0
                           /\ ticket[b] <= newest[LaneOf[b]]
    /\ \A c \in Clients : /\ newest[c] = Cardinality(Taken(c))
                          /\ \A m \in 1..newest[c] : \E b \in Requests : LaneOf[b] = c /\ ticket[b] = m

\* Nothing breaks before a worker dies but the tasks of a board in hand while
\* something could not be read; and such a board is known.
Unhurt ==
    /\ deaths = 0 => dead = {} /\ shut = {} /\ \A t \in raised : t.board \in met
    /\ lost # {} => \A b \in Requests : pc[b] \in {"ticketed", "pooled", "here"} => b \in met

LEMMA TakenCount ==
    ASSUME NEW c \in Clients
    PROVE  /\ IsFiniteSet(Taken(c)) /\ Cardinality(Taken(c)) \in Nat
           /\ Cardinality(Taken(c)) <= Cardinality(Requests) /\ Cardinality(Requests) \in Nat
           /\ \A b \in Requests \ Taken(c) : Cardinality(Taken(c) \cup {b}) = Cardinality(Taken(c)) + 1
<1>1. IsFiniteSet(Requests) /\ Taken(c) \subseteq Requests
  BY BoardsAssumption DEF Taken
<1>2. IsFiniteSet(Taken(c)) /\ Cardinality(Taken(c)) <= Cardinality(Requests)
  BY <1>1, FS_Subset
<1>3. Cardinality(Taken(c)) \in Nat /\ Cardinality(Requests) \in Nat
  BY <1>1, <1>2, FS_CardinalityType
<1>4. \A b \in Requests \ Taken(c) : Cardinality(Taken(c) \cup {b}) = Cardinality(Taken(c)) + 1
  BY <1>2, FS_AddElement
<1> QED BY <1>2, <1>3, <1>4

LEMMA ServiceInvInit == Init => Lanes /\ Unhurt
<1> SUFFICES ASSUME Init PROVE Lanes /\ Unhurt
  OBVIOUS
<1>1. \A c \in Clients : Taken(c) = {}
  BY DEF Init, Taken
<1>2. Cardinality({}) = 0
  BY FS_EmptySet
<1>3. \A c \in Clients : newest[c] = Cardinality(Taken(c)) /\ 1..newest[c] = {}
  <2>1. \A c \in Clients : newest[c] = 0
    BY DEF Init
  <2>2. \A c \in Clients : Cardinality(Taken(c)) = 0
    BY <1>1, <1>2
  <2>3. 1..0 = {}
    OBVIOUS
  <2> QED BY <2>1, <2>2, <2>3
<1>4. \A b \in Requests : pc[b] = "sent" /\ ticket[b] = 0 /\ newest[LaneOf[b]] = 0
  BY BoardsAssumption DEF Init
<1> QED BY <1>3, <1>4 DEF Init, Lanes, Unhurt

LEMMA TakeLanes ==
    ASSUME Core, Lanes, NEW b \in Requests, Take(b)
    PROVE  Lanes'
<1> DEFINE lane == LaneOf[b]
<1>1. /\ pc[b] = "sent" /\ ticket[b] = 0 /\ lane \in Clients
      /\ pc' = [pc EXCEPT ![b] = "ticketed"]
      /\ newest' = [newest EXCEPT ![lane] = newest[lane] + 1]
      /\ ticket' = [ticket EXCEPT ![b] = newest'[lane]]
  BY BoardsAssumption DEF Take, Lanes
<1>2. /\ \A x \in Clients : newest[x] \in Nat
      /\ newest'[lane] = newest[lane] + 1 /\ \A x \in Clients : x # lane => newest'[x] = newest[x]
      /\ ticket'[b] = newest[lane] + 1 /\ pc'[b] = "ticketed"
      /\ \A c \in Requests : c # b => pc'[c] = pc[c] /\ ticket'[c] = ticket[c]
      /\ \A c \in Requests : ticket[c] \in Nat /\ LaneOf[c] \in Clients
  BY <1>1, BoardsAssumption DEF Core, TypeOK
<1> HIDE DEF lane
<1>3. ASSUME NEW c \in Requests
      PROVE  (pc'[c] = "sent" <=> ticket'[c] = 0) /\ ticket'[c] <= newest'[LaneOf[c]]
  <2>1. CASE c = b
    BY <1>1, <1>2, <2>1 DEF lane
  <2>2. CASE c # b
    <3>1. (pc[c] = "sent" <=> ticket[c] = 0) /\ ticket[c] <= newest[LaneOf[c]]
      BY DEF Lanes
    <3>2. LaneOf[c] \in Clients /\ newest[LaneOf[c]] \in Nat /\ ticket[c] \in Nat
      BY <1>2
    <3>3. newest'[LaneOf[c]] >= newest[LaneOf[c]]
      <4>1. CASE LaneOf[c] = lane
        BY <1>2, <3>2, <4>1
      <4>2. CASE LaneOf[c] # lane
        BY <1>2, <3>2, <4>2
      <4> QED BY <4>1, <4>2
    <3>4. newest'[LaneOf[c]] \in Int
      <4>1. CASE LaneOf[c] = lane
        BY <1>2, <3>2, <4>1
      <4>2. CASE LaneOf[c] # lane
        BY <1>2, <3>2, <4>2
      <4> QED BY <4>1, <4>2
    <3> QED BY <1>2, <2>2, <3>1, <3>2, <3>3, <3>4
  <2> QED BY <2>1, <2>2
<1>4. ASSUME NEW x \in Clients PROVE newest'[x] = Cardinality(Taken(x)')
  <2>1. CASE x = lane
    <3>1. Taken(x)' = Taken(x) \cup {b} /\ b \notin Taken(x)
      BY <1>1, <1>2, <2>1 DEF Taken, lane
    <3>2. Cardinality(Taken(x) \cup {b}) = Cardinality(Taken(x)) + 1
      BY <3>1, TakenCount
    <3> QED BY <1>2, <2>1, <3>1, <3>2 DEF Lanes
  <2>2. CASE x # lane
    <3>1. Taken(x)' = Taken(x)
      BY <1>1, <1>2, <2>2 DEF Taken, lane
    <3> QED BY <1>2, <2>2, <3>1 DEF Lanes
  <2> QED BY <2>1, <2>2
<1>5. ASSUME NEW x \in Clients, NEW m \in 1..newest'[x]
      PROVE  \E c \in Requests : LaneOf[c] = x /\ ticket'[c] = m
  <2>1. CASE x = lane /\ m = newest[lane] + 1
    BY <1>2, <2>1 DEF lane
  <2>2. CASE ~(x = lane /\ m = newest[lane] + 1)
    <3>1. m \in 1..newest[x]
      <4>1. CASE x = lane
        BY <1>1, <1>2, <1>5, <2>2, <4>1
      <4>2. CASE x # lane
        BY <1>2, <1>5, <4>2
      <4> QED BY <4>1, <4>2
    <3>2. PICK c \in Requests : LaneOf[c] = x /\ ticket[c] = m
      BY <3>1 DEF Lanes
    <3>3. c # b
      BY <1>1, <3>1, <3>2
    <3> QED BY <1>2, <3>2, <3>3
  <2> QED BY <2>1, <2>2
<1> QED BY <1>3, <1>4, <1>5 DEF Lanes

LEMMA ServiceInvStep == Core /\ Lanes /\ Unhurt /\ [Next]_vars => (Lanes /\ Unhurt)'
<1> SUFFICES ASSUME Core, Lanes, Unhurt, [Next]_vars PROVE Lanes' /\ Unhurt'
  OBVIOUS
<1>0. pc \in [Requests -> {"sent", "ticketed", "pooled", "here"} \cup Outcomes] /\ deaths \in Nat
  BY DEF Core, TypeOK
\* A step that takes no ticket.
<1>1. ASSUME newest' = newest, ticket' = ticket, NEW b \in Requests, NEW o, pc[b] # "sent", o # "sent",
             pc' = [pc EXCEPT ![b] = o]
      PROVE  Lanes'
  <2>1. \A c \in Requests : pc'[c] = "sent" <=> pc[c] = "sent"
    BY <1>0, <1>1
  <2>2. \A x \in Clients : Taken(x)' = Taken(x)
    BY <2>1 DEF Taken
  <2> QED BY <1>1, <2>1, <2>2 DEF Lanes
<1>2. ASSUME newest' = newest, ticket' = ticket, pc' = pc PROVE Lanes'
  BY <1>2 DEF Lanes, Taken
<1>3. ASSUME UNCHANGED <<deaths, dead, shut, raised, lost, met>>,
             \A b \in Requests : pc'[b] \in {"ticketed", "pooled", "here"}
                                    => pc[b] \in {"ticketed", "pooled", "here"}
      PROVE Unhurt'
  BY <1>3 DEF Unhurt
<1>4. ASSUME NEW b \in Requests, Take(b) PROVE Lanes' /\ Unhurt'
  <2>1. /\ UNCHANGED <<deaths, dead, shut, raised, lost>>
        /\ \A c \in Requests : c # b => pc'[c] = pc[c]
        /\ met' = IF lost = {} THEN met ELSE met \cup {b}
    BY <1>0, <1>4 DEF Take, poolVars, taskVars
  <2>2. Unhurt'
    BY <2>1 DEF Unhurt
  <2> QED BY <1>4, <2>2, TakeLanes
<1>5. ASSUME NEW b \in Requests, Load(b) PROVE Lanes' /\ Unhurt'
  <2>1. pc[b] = "ticketed" /\ newest' = newest /\ ticket' = ticket
        /\ (pc' = [pc EXCEPT ![b] = "pooled"] \/ pc' = [pc EXCEPT ![b] = "here"])
    BY <1>5 DEF Load
  <2>2. \A c \in Requests : c # b => pc'[c] = pc[c]
    BY <1>0, <2>1
  <2> QED BY <1>1, <1>3, <1>5, <2>1, <2>2 DEF Load, taskVars
<1>6. ASSUME NEW b \in Requests, Split(b) \/ Pass(b) \/ Gather(b) PROVE Lanes' /\ Unhurt'
  BY <1>2, <1>3, <1>6 DEF Split, Pass, Gather, boardVars, poolVars, taskVars
<1>7. ASSUME NEW b \in Requests, Supersede(b) \/ Refuse(b) \/ Answer(b) \/ Fall(b)
      PROVE  Lanes' /\ Unhurt'
  <2>1. PICK o \in Outcomes : Ends(b, o)
    BY <1>7, FallEnds
  <2>2. pc[b] \in {"pooled", "here"} /\ o # "sent"
    BY <1>7, FallEnds DEF Live, Outcomes
  <2>3. Lanes'
    BY <1>1, <2>1, <2>2 DEF Ends, boardVars
  <2>4. Unhurt'
    <3>1. /\ UNCHANGED <<deaths, dead, shut, lost, met>> /\ raised' \subseteq raised
          /\ \A c \in Requests : pc'[c] = pc[c] \/ pc'[c] \in Outcomes
      BY <1>0, <2>1 DEF Ends, poolVars
    <3> QED BY <3>1 DEF Unhurt, Outcomes
  <2> QED BY <2>3, <2>4
<1>8. ASSUME NEW b \in Requests, Recover(b) PROVE Lanes' /\ Unhurt'
  <2>1. pc[b] = "pooled" /\ dead # {}
    BY <1>8, RecoverFrom
  <2>3. /\ UNCHANGED <<deaths, lost, met>>
        /\ \A c \in Requests : c # b => pc'[c] = pc[c]
    BY <1>0, <1>8 DEF Recover
  <2>2. Lanes'
    BY <1>1, <1>8, <2>1 DEF Recover, boardVars
  <2> QED BY <2>1, <2>2, <2>3 DEF Unhurt
<1>9. ASSUME NEW e \in Executors, Hand(e) PROVE Lanes' /\ Unhurt'
  BY <1>2, <1>3, <1>9 DEF Hand, boardVars, walk, poolVars
<1>13. ASSUME NEW e \in Executors, Finish(e) PROVE Lanes' /\ Unhurt'
  <2>0. PICK t \in running[e] :
         IF uses[t.board] # e
            THEN UNCHANGED <<done, raised>>
            ELSE IF "playbook" \in lost
                 THEN raised' = raised \cup {t} /\ UNCHANGED done
                 ELSE done' = done \cup {t} /\ UNCHANGED raised
    BY <1>13 DEF Finish
  <2>1. raised' = raised \/ (uses[t.board] = e /\ lost # {} /\ raised' = raised \cup {t})
    BY <2>0
  <2>2. t.board \in Requests
    BY DEF Core, TypeOK, Task
  <2>3. uses[t.board] = e => pc[t.board] = "pooled"
    BY <2>2 DEF Core, Holding, Executors
  <2>4. UNCHANGED <<deaths, dead, shut, lost, met, pc>>
    BY <1>13 DEF Finish, walk, poolVars
  <2>5. Unhurt'
    BY <2>1, <2>2, <2>3, <2>4 DEF Unhurt
  <2> QED BY <1>2, <1>13, <2>5 DEF Finish, boardVars, walk
<1>10. ASSUME NEW e \in Executors, WorkerDies(e) PROVE Lanes' /\ Unhurt'
  <2>1. deaths' # 0
    BY <1>0, <1>10 DEF WorkerDies
  <2> QED BY <1>2, <1>10, <2>1 DEF WorkerDies, Unhurt, boardVars, walk
<1>11. ASSUME StrangerDrops PROVE Lanes' /\ Unhurt'
  BY <1>2, <1>11 DEF StrangerDrops, Unhurt, boardVars, walk
<1>12. CASE UNCHANGED vars
  BY <1>2, <1>3, <1>12 DEF vars
<1>14. ASSUME NEW b \in Requests, LoadRaises(b) PROVE Lanes' /\ Unhurt'
  <2>1. /\ pc[b] = "ticketed" /\ newest' = newest /\ ticket' = ticket
        /\ pc' = [pc EXCEPT ![b] = "failed"]
    BY <1>14 DEF LoadRaises, boardVars
  <2>2. pc'[b] = "failed" /\ \A c \in Requests : c # b => pc'[c] = pc[c]
    BY <1>0, <2>1
  <2> QED BY <1>1, <1>3, <1>14, <2>1, <2>2 DEF LoadRaises, poolVars, taskVars
<1>15. ASSUME NEW what \in Sources, Lose(what) PROVE Lanes' /\ Unhurt'
  BY <1>2, <1>15 DEF Lose, Unhurt, boardVars, walk, poolVars, taskVars
<1>16. ASSUME NEW what \in Sources, Regain(what) PROVE Lanes' /\ Unhurt'
  BY <1>2, <1>16 DEF Regain, Unhurt, boardVars, walk, poolVars, taskVars
<1> QED
  BY <1>4, <1>5, <1>6, <1>7, <1>8, <1>9, <1>10, <1>11, <1>12, <1>13, <1>14, <1>15, <1>16
     DEF Next, Work

\* What a page is told, as Service's reply.
Told == [b \in Requests |-> IF Ended(b) THEN pc[b] ELSE "none"]

LEMMA EndsReplies ==
    ASSUME Core, Lanes, Unhurt, NEW b \in Requests,
           Supersede(b) \/ Refuse(b) \/ Answer(b) \/ Fall(b)
    PROVE  Service!Reply(b)
<1>1. PICK o \in Outcomes :
         /\ Ends(b, o)
         /\ o = "superseded" => Superseded(b)
         /\ o = "failed" => Fall(b)
  BY DEF Supersede, Refuse, Answer, Fall, Outcomes
<1>2. Live(b)
  BY FallEnds
<1>3. ticket[b] # 0 /\ Told[b] = "none"
  BY <1>2 DEF Live, Lanes, Told, Ended, Outcomes
<1>4. ASSUME Superseded(b)
      PROVE  \E c \in Requests : Service!SameLane(b, c) /\ ticket[c] > ticket[b]
  <2>1. /\ LaneOf[b] \in Clients /\ newest[LaneOf[b]] \in Nat /\ ticket[b] \in Nat
        /\ ticket[b] <= newest[LaneOf[b]]
    BY BoardsAssumption DEF Core, TypeOK, Lanes
  <2>2. newest[LaneOf[b]] \in 1..newest[LaneOf[b]] /\ newest[LaneOf[b]] > ticket[b]
    BY <1>3, <1>4, <2>1 DEF Superseded
  <2>3. PICK c \in Requests : LaneOf[c] = LaneOf[b] /\ ticket[c] = newest[LaneOf[b]]
    BY <2>1, <2>2 DEF Lanes
  <2> QED BY <2>2, <2>3 DEF Service!SameLane
<1>5. ASSUME Fall(b) PROVE deaths > 0 \/ b \in met
  <2>1. deaths \in Nat
    BY DEF Core, TypeOK
  <2>2. CASE ReadsNext(b, raised)
    <3>1. PICK t \in Awaited(b) \cap raised : TRUE
      BY <2>2 DEF ReadsNext
    <3>2. t.board = b
      BY <2>2, <3>1, AwaitedAre DEF ReadsNext, Core
    <3> QED BY <2>1, <3>1, <3>2 DEF Unhurt
  <2>3. CASE shut # {}
    BY <2>1, <2>3 DEF Unhurt
  <2> QED BY <1>5, <2>2, <2>3 DEF Fall
<1>6. Told' = [Told EXCEPT ![b] = o]
  <2>1. pc' = [pc EXCEPT ![b] = o] /\ pc \in [Requests -> {"sent", "ticketed", "pooled", "here"} \cup Outcomes]
    BY <1>1 DEF Ends, Core, TypeOK
  <2>2. \A c \in Requests : Told'[c] = IF c = b THEN o ELSE Told[c]
    BY <2>1 DEF Told, Ended
  <2> QED BY <2>2 DEF Told
<1>7. ticket' = ticket /\ deaths' = deaths /\ lost' = lost /\ met' = met
  BY <1>1 DEF Ends, boardVars
<1> QED BY <1>1, <1>3, <1>4, <1>5, <1>6, <1>7 DEF Service!Reply, Told, Outcomes

\* Every step of the boards is a step of the service, or none of its.
LEMMA ServiceStep ==
    Core /\ Lanes /\ Unhurt /\ [Next]_vars => [Service!ServiceNext]_(Service!serviceVars)
<1> DEFINE Still == /\ ticket' = ticket /\ Told' = Told /\ deaths' = deaths /\ met' = met
                    /\ (lost' = {}) = (lost = {})
<1> SUFFICES ASSUME Core, Lanes, Unhurt, [Next]_vars
             PROVE  Service!ServiceNext \/ Still
  BY DEF Service!serviceVars, Told
<1>0. pc \in [Requests -> {"sent", "ticketed", "pooled", "here"} \cup Outcomes] /\ deaths \in Nat
  BY DEF Core, TypeOK
<1>1. ASSUME NEW b \in Requests, NEW o, pc[b] \notin Outcomes, o \notin Outcomes, pc' = [pc EXCEPT ![b] = o]
      PROVE  Told' = Told
  <2>1. \A c \in Requests : Told'[c] = Told[c]
    BY <1>0, <1>1 DEF Told, Ended
  <2> QED BY <2>1 DEF Told
<1>2. pc' = pc => Told' = Told
  BY DEF Told, Ended
<1>3. ASSUME NEW b \in Requests, Take(b) PROVE Service!Join(b)
  <2> DEFINE n == newest[LaneOf[b]] + 1
  <2>1. /\ LaneOf[b] \in Clients /\ newest[LaneOf[b]] \in Nat /\ pc[b] = "sent" /\ ticket[b] = 0
    BY <1>3, BoardsAssumption DEF Take, Core, TypeOK, Lanes
  <2>2. n \in 1..(1 + Cardinality(Requests))
    <3>1. newest[LaneOf[b]] <= Cardinality(Requests) /\ Cardinality(Requests) \in Nat
      BY <2>1, TakenCount DEF Lanes
    <3> QED BY <2>1, <3>1
  <2>3. \A c \in Requests : Service!SameLane(b, c) => ticket[c] < n
    <3>1. \A c \in Requests : ticket[c] \in Nat /\ ticket[c] <= newest[LaneOf[c]]
      BY DEF Lanes, Core, TypeOK
    <3> QED BY <2>1, <3>1 DEF Service!SameLane
  <2>4. \A m \in 1..(n - 1) : \E c \in Requests : Service!SameLane(b, c) /\ ticket[c] = m
    <3>1. n - 1 = newest[LaneOf[b]]
      BY <2>1
    <3> QED BY <2>1, <3>1 DEF Lanes, Service!SameLane
  <2>5. /\ ticket' = [ticket EXCEPT ![b] = n] /\ deaths' = deaths /\ lost' = lost
        /\ met' = IF lost = {} THEN met ELSE met \cup {b}
    BY <1>3, <2>1 DEF Take, Core, TypeOK
  <2>6. Told' = Told
    BY <1>1, <1>3 DEF Take, Outcomes
  <2> HIDE DEF n
  <2>7. \E k \in 1..(1 + Cardinality(Requests)) :
           /\ \A c \in Requests : Service!SameLane(b, c) => ticket[c] < k
           /\ \A m \in 1..(k - 1) : \E c \in Requests : Service!SameLane(b, c) /\ ticket[c] = m
           /\ ticket' = [ticket EXCEPT ![b] = k]
    BY <2>2, <2>3, <2>4, <2>5
  <2>8. (deaths' > 0) = (deaths > 0) /\ (lost' = {}) = (lost = {})
    BY <2>5
  <2>9. Service!Cardinality(Requests) = Cardinality(Requests)
    BY DEF Service!Cardinality, Cardinality
  <2> QED BY <2>1, <2>5, <2>6, <2>7, <2>8, <2>9 DEF Service!Join, Told
<1>4. ASSUME NEW b \in Requests, Load(b) PROVE Still
  <2>1. pc[b] = "ticketed" /\ ticket' = ticket /\ deaths' = deaths /\ UNCHANGED readVars
        /\ (pc' = [pc EXCEPT ![b] = "pooled"] \/ pc' = [pc EXCEPT ![b] = "here"])
    BY <1>4 DEF Load
  <2> QED BY <1>1, <2>1 DEF Outcomes
<1>5. ASSUME NEW b \in Requests, Split(b) \/ Pass(b) \/ Gather(b)
      PROVE  Still
  BY <1>2, <1>5 DEF Split, Pass, Gather, boardVars
<1>6. ASSUME NEW b \in Requests, Recover(b) PROVE Still
  <2>1. /\ pc[b] = "pooled" /\ ticket' = ticket /\ deaths' = deaths /\ UNCHANGED readVars
        /\ pc' = [pc EXCEPT ![b] = "here"]
    BY <1>6, RecoverFrom DEF Recover, boardVars
  <2> QED BY <1>1, <2>1 DEF Outcomes
<1>7. ASSUME NEW e \in Executors, Hand(e) \/ Finish(e)
      PROVE  Still
  BY <1>2, <1>7 DEF Hand, Finish, boardVars, walk
<1>8. ASSUME NEW e \in Executors, WorkerDies(e) PROVE Service!Hurt
  <2>1. ticket' = ticket /\ Told' = Told /\ deaths' > 0 /\ UNCHANGED readVars
    BY <1>0, <1>2, <1>8 DEF WorkerDies, boardVars, walk
  <2> QED BY <2>1 DEF Service!Hurt, Told
<1>9. ASSUME StrangerDrops \/ UNCHANGED vars PROVE Still
  BY <1>2, <1>9 DEF StrangerDrops, boardVars, walk, vars
<1>10. ASSUME NEW b \in Requests, LoadRaises(b) PROVE Service!Reply(b)
  <2>1. /\ pc[b] = "ticketed" /\ lost # {} /\ pc' = [pc EXCEPT ![b] = "failed"]
        /\ ticket' = ticket /\ deaths' = deaths /\ UNCHANGED readVars
    BY <1>10 DEF LoadRaises, boardVars
  <2>2. ticket[b] # 0 /\ Told[b] = "none" /\ b \in met
    BY <2>1 DEF Lanes, Unhurt, Told, Ended, Outcomes
  <2>3. \A c \in Requests : Told'[c] = IF c = b THEN "failed" ELSE Told[c]
    BY <1>0, <2>1 DEF Told, Ended, Outcomes
  <2>4. Told' = [Told EXCEPT ![b] = "failed"]
    BY <2>3 DEF Told
  <2> QED BY <2>1, <2>2, <2>4 DEF Service!Reply, Told
<1>11. ASSUME NEW what \in Sources, Lose(what) PROVE Service!Spoil
  <2>1. Told' = Told /\ ticket' = ticket /\ deaths' = deaths /\ lost' # {}
    BY <1>2, <1>11 DEF Lose, boardVars, walk
  <2>2. \A b \in Requests : pc[b] \in {"ticketed", "pooled", "here"} <=> ticket[b] # 0 /\ Told[b] = "none"
    BY <1>0 DEF Lanes, Told, Ended, Outcomes
  <2>3. met' = met \cup {b \in Requests : ticket[b] # 0 /\ Told[b] = "none"}
    BY <1>11, <2>2 DEF Lose
  <2> QED BY <2>1, <2>3 DEF Service!Spoil, Service!InHand, Told
<1>12. ASSUME NEW what \in Sources, Regain(what)
       PROVE  Service!Mend \/ Still
  <2>1. Told' = Told /\ ticket' = ticket /\ deaths' = deaths /\ met' = met /\ lost # {}
    BY <1>2, <1>12 DEF Regain, boardVars, walk
  <2> QED BY <2>1 DEF Service!Mend, Told
<1> HIDE DEF Still
<1> QED
  BY <1>3, <1>4, <1>5, <1>6, <1>7, <1>8, <1>9, <1>10, <1>11, <1>12, EndsReplies
     DEF Next, Work, Service!ServiceNext

\* The safety half of ImplementsService: a client's lane is numbered as the
\* requests come, a board is superseded only by a later one in its lane and
\* fails only after a worker has died or where the tables or the playbook
\* could not be read in the board's own time, and no reply changes.
THEOREM StepsAsService ==
    Spec => Service!ServiceInit /\ [][Service!ServiceNext]_(Service!serviceVars)
<1>1. Init => Service!ServiceInit
  <2> SUFFICES ASSUME Init PROVE Service!ServiceInit
    OBVIOUS
  <2>1. \A b \in Requests : Told[b] = "none"
    BY DEF Init, Told, Ended, Outcomes
  <2>2. Told = [b \in Requests |-> "none"]
    BY <2>1 DEF Told
  <2> QED BY <2>2 DEF Init, Service!ServiceInit, Told
<1>2. Init => Core /\ Lanes /\ Unhurt
  BY CoreInit, ServiceInvInit
<1>3. Core /\ Lanes /\ Unhurt /\ [Next]_vars => (Core /\ Lanes /\ Unhurt)'
  BY CoreStep, ServiceInvStep
<1> QED BY <1>1, <1>2, <1>3, ServiceStep, PTL DEF Spec
=============================================================================
