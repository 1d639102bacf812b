---------------------------- MODULE MCExpressions ---------------------------
(* Small instances of Expressions for TLC.                                 *)
EXTENDS Expressions

ReadKeys == {<<"team", "a">>, <<"enemy", "b">>}
Spaces   == [ReadKeys -> {0, 1}]

Const(n) == [op |-> "const", v |-> n]
Attr(p)  == [op |-> "attr", path |-> p]
Name(n)  == [op |-> "name", path |-> <<n>>]
Leaves == {Const(0), Const(2), [op |-> "text"], Attr(<<"team", "a">>), Attr(<<"enemy", "b">>)}
Odd    == {Name("team"), Name("min"), Attr(<<"team", "gone">>), [op |-> "other"]}

Pairs2(S, T) ==
    [op : {"bin"}, f : {"+", "//", "**"}, l : S, r : T] \cup [op : {"cmp"}, f : {"==", "<"}, l : S, r : T]
        \cup [op : {"bool"}, f : {"and", "or"}, l : S, r : T]
CallsOver(S) == [op : {"call"}, f : {"min", "int", "exec"}, args : {<<x, y>> : x \in S, y \in Leaves} \cup {<<x>> : x \in S}]
Flat     == Pairs2(Leaves \cup Odd, Leaves \cup Odd) \cup CallsOver(Leaves \cup Odd)
                \cup [op : {"not", "far"}, x : Leaves \cup Odd]

\* Operators over the leaves, and over a few of the trees these make.
Few == {[op |-> "bin", f |-> "//", l |-> Const(2), r |-> Attr(<<"team", "a">>)],
        [op |-> "bool", f |-> "and", l |-> Attr(<<"enemy", "b">>), r |-> Attr(<<"team", "a">>)],
        [op |-> "cmp", f |-> "<", l |-> Attr(<<"enemy", "b">>), r |-> Const(2)],
        [op |-> "far", x |-> Const(0)]}
ExpressionCases ==
    Leaves \cup Odd \cup Flat \cup Pairs2(Few, Few \cup Leaves) \cup CallsOver(Few)
        \cup [op : {"if"}, c : Few \cup Leaves, l : Few \cup Leaves, r : Leaves]
        \cup [op : {"not"}, x : Flat]

ExpressionsSound(t) == ReadsOnlyItsNames(t, ReadKeys, Spaces)
=============================================================================
