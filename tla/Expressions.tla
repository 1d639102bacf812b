----------------------------- MODULE Expressions ----------------------------
(***************************************************************************)
(* The expressions of a strategy file (inference.expr): which syntax trees *)
(* compile, which names the compiler says a tree reads, and what a tree    *)
(* evaluates to.  The catalog checks a file by the names, and the solver   *)
(* reads a guard once for a whole board when they are all the board's      *)
(* (strategy.settled_by_board).                                            *)
(*                                                                         *)
(* A tree is a record: const and text hold a value, name and attr a dotted *)
(* name as a sequence, far an attribute of something that is no name, and  *)
(* other any syntax without a rule.  Quotients are of integers.            *)
(***************************************************************************)
EXTENDS Integers, SequencesExt

CONSTANT MaxDepth       \* how deep a tree may nest: 40 in the code

Namespaces == {"team", "enemy", "map", "params"}
OfBoard    == {"enemy", "map", "params"}
Callable   == {"min", "int", "len"}

Kids(t) ==
    CASE t.op \in {"bin", "cmp", "bool"} -> <<t.l, t.r>>
      [] t.op \in {"not", "far"} -> <<t.x>>
      [] t.op = "if" -> <<t.c, t.l, t.r>>
      [] t.op = "call" -> t.args
      [] OTHER -> <<>>

\* The exponents and operands that could hang or exhaust the solver.
GuardsBin(t) ==
    /\ t.f = "**" => t.r.op = "const" /\ t.r.v \in 0..8
    /\ t.f \in {"+", "*", "%"} => t.l.op # "text" /\ t.r.op # "text"

\* An attribute's value and a name are not walked; a callee is one of the few.
RECURSIVE Allowed(_, _)
Allowed(t, depth) ==
    /\ depth <= MaxDepth /\ t.op \notin {"other", "far"}
    /\ t.op = "bin" => GuardsBin(t)
    /\ t.op = "name" => t.path[1] \in Namespaces \cup Callable
    /\ t.op = "call" => t.f \in Callable
    /\ \A i \in DOMAIN Kids(t) : Allowed(Kids(t)[i], depth + 1)

\* Mutant: a conditional's test is not walked.
RECURSIVE Branches(_)
Branches(t) ==
    UNION {Branches(Kids(t)[i]) : i \in DOMAIN Kids(t) \ (IF t.op = "if" THEN {1} ELSE {})}
        \cup CASE t.op = "name" -> {t.path} \ {<<f>> : f \in Callable}
               [] t.op = "attr" -> {SubSeq(t.path, 1, n) : n \in DOMAIN t.path}
               [] OTHER -> {}

RECURSIVE Walked(_)
Walked(t) ==
    UNION {Walked(Kids(t)[i]) : i \in DOMAIN Kids(t)}
        \cup CASE t.op = "name" -> {t.path} \ {<<f>> : f \in Callable}
               [] t.op = "attr" -> {SubSeq(t.path, 1, n) : n \in DOMAIN t.path}
               [] OTHER -> {}

\* Every name met, less those that only lead to a longer one.
CollectNames(t) == {n \in Walked(t) : ~\E o \in Walked(t) : IsStrictPrefix(n, o)}

\* A file with the tree loads: it compiles, and every name is a known key.
Compiled(t, known) == Allowed(t, 0) /\ CollectNames(t) \subseteq known

\* The names are decided once per board: each is red's, the map's or a param.
SettledByBoard(names) == \A n \in names : n[1] \in OfBoard

-----------------------------------------------------------------------------
(* Evaluation. *)

Num(n)   == [type |-> "number", value |-> n]
Text     == [type |-> "text", value |-> 0]
Opaque   == [type |-> "object", value |-> 0]     \* a namespace or a function itself
Raised   == [type |-> "refused", value |-> 0]    \* a TypeError, told as an ExprError
ByZero   == [type |-> "by zero", value |-> 0]

Failed(v) == v.type \in {"refused", "by zero"}
Truthy(v) == v.type # "number" \/ v.value # 0
Truth(b)  == Num(IF b THEN 1 ELSE 0)

\* A quotient or a remainder by zero reads 0, for that operation alone.
Divide(f, a, b) ==
    IF ~Truthy(b) THEN Num(0)
    ELSE IF {a.type, b.type} # {"number"} THEN Raised
    ELSE LET q == IF b.value > 0 THEN a.value \div b.value ELSE (-a.value) \div (-b.value)
         IN  Num(IF f = "//" THEN q ELSE a.value - b.value * q)

\* The operands are read left to right; the first that fails is the outcome.
Apply(f, a, b) ==
    IF Failed(a) THEN a ELSE IF Failed(b) THEN b
    ELSE IF f \in {"//", "%"} THEN Divide(f, a, b)
    ELSE IF {a.type, b.type} # {"number"} THEN Raised
    ELSE CASE f = "+" -> Num(a.value + b.value)
           [] f = "*" -> Num(a.value * b.value)
           [] f = "**" -> IF b.value < 0 THEN ByZero ELSE Num(IF b.value = 0 THEN 1 ELSE a.value ^ b.value)

Compare(f, a, b) ==
    IF Failed(a) THEN a ELSE IF Failed(b) THEN b
    ELSE IF f = "==" THEN Truth(a = b)
    ELSE IF {a.type, b.type} = {"number"} THEN Truth(a.value < b.value) ELSE Raised

CallOf(f, args) ==
    LET failing == {i \in DOMAIN args : Failed(args[i])}
        numbers == args # <<>> /\ \A i \in DOMAIN args : args[i].type = "number"
    IN  CASE failing # {} -> args[Min(failing)]
          [] failing = {} /\ numbers /\ f = "min" -> Num(Min({args[i].value : i \in DOMAIN args}))
          [] failing = {} /\ numbers /\ f = "int" /\ Len(args) = 1 -> args[1]
          [] OTHER -> Raised

\* A key its namespace lacks reads 0; a guard's other branch is not evaluated.
RECURSIVE Evaluate(_, _)
Evaluate(t, ns) ==
    CASE t.op = "const" -> Num(t.v)
      [] t.op = "text" -> Text
      [] t.op = "name" -> Opaque
      [] t.op = "attr" -> IF t.path \in DOMAIN ns THEN Num(ns[t.path]) ELSE Num(0)
      [] t.op = "bin" -> Apply(t.f, Evaluate(t.l, ns), Evaluate(t.r, ns))
      [] t.op = "cmp" -> Compare(t.f, Evaluate(t.l, ns), Evaluate(t.r, ns))
      [] t.op = "not" -> LET v == Evaluate(t.x, ns) IN IF Failed(v) THEN v ELSE Truth(~Truthy(v))
      [] t.op = "bool" -> LET v == Evaluate(t.l, ns) IN
            IF Failed(v) \/ Truthy(v) = (t.f = "or") THEN v ELSE Evaluate(t.r, ns)
      [] t.op = "if" -> LET v == Evaluate(t.c, ns) IN
            IF Failed(v) THEN v ELSE Evaluate(IF Truthy(v) THEN t.l ELSE t.r, ns)
      [] t.op = "call" -> CallOf(t.f, [i \in DOMAIN t.args |-> Evaluate(t.args[i], ns)])

-----------------------------------------------------------------------------

\* A tree that loads divides by no zero, and evaluates alike on any two
\* candidates that agree on the names it collects: what settled_by_board calls
\* settled is one answer for every six of a board (Objective._gates).
ReadsOnlyItsNames(t, known, spaces) ==
    Compiled(t, known) =>
        \A a, b \in spaces :
            /\ Evaluate(t, a) # ByZero
            /\ (\A n \in CollectNames(t) : n \in DOMAIN a => a[n] = b[n]) => Evaluate(t, a) = Evaluate(t, b)
            /\ SettledByBoard(CollectNames(t)) /\ (\A n \in DOMAIN a : n[1] \in OfBoard => a[n] = b[n])
                => Evaluate(t, a) = Evaluate(t, b)
=============================================================================
