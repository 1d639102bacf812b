----------------------------- MODULE Strategies -----------------------------
(***************************************************************************)
(* One strategy file's frontmatter: the loader that reads it, line by      *)
(* line, into fields and dials (inference.frontmatter), the rules a file   *)
(* keeps and the form it takes (inference.strategy), and the three calls   *)
(* that edit the text in place (inference.tune).  The editor and the       *)
(* loader each walk the lines by a rule of their own.                      *)
(*                                                                         *)
(* A line is a comment or a blank, which holds Skip, or a key and a value, *)
(* either indented or at column 0.  A value is a word; an expression is    *)
(* the one name it reads, or a number.                                     *)
(***************************************************************************)
EXTENDS Integers, SequencesExt

CONSTANTS
    Headers,            \* the headers a file may begin with
    Tunings,            \* what a call asks: a sequence of [field, type, text]
    Metrics,            \* the registry's keys: "number" or "text" by key
    BoardKeys,          \* those the enemy, the map, the world or a param settles
    MaxEdits            \* bound: the calls that succeed

ASSUME StrategiesAssumption ==
    /\ MaxEdits \in Nat /\ BoardKeys \subseteq DOMAIN Metrics
    /\ Headers \subseteq Seq([in : BOOLEAN, key : STRING, value : STRING])
    /\ Tunings \subseteq Seq([field : STRING, type : STRING, text : STRING])

VARIABLES
    lines,              \* the header's lines, the first after the opening fence
    told,               \* the pairs the last call answered with; <<>> when refused
    edits               \* how many calls succeeded

strategyVars == <<lines, told, edits>>

Skip == "#"
Line(key, value) == [in |-> FALSE, key |-> key, value |-> value]
Dial(key, value) == [in |-> TRUE, key |-> key, value |-> value]
NoLine(in)       == [in |-> in, key |-> Skip, value |-> ""]
Opens(line)      == line.key = "params" /\ line.value = ""

-----------------------------------------------------------------------------
(* What the loader reads. *)

Numbers == {"0", "1", "2", "3", "11"}
InRange == Numbers \ {"11"}
Unset   == {"", "null"}

\* A word as the dialect reads it: true and yes are one boolean.
Scalar(text) == IF text = "yes" THEN "true" ELSE text

\* The meta so far, a value by its path, and the mapping indented lines fill.
Start == [meta |-> <<>>, block |-> "", ok |-> TRUE]
Without(meta, key) == [p \in {q \in DOMAIN meta : q[1] # key} |-> meta[p]]
Put(meta, path, value) == [p \in DOMAIN meta \cup {path} |-> IF p = path THEN value ELSE meta[p]]

ReadLine(so, line) ==
    CASE line.key = Skip -> so
      [] line.key # Skip /\ line.in ->
            IF so.block = "" THEN [so EXCEPT !.ok = FALSE]
            ELSE [so EXCEPT !.meta = Put(@, <<so.block, line.key>>, Scalar(line.value))]
      [] line.key # Skip /\ ~line.in /\ line.value = "" ->
            [so EXCEPT !.block = line.key, !.meta = Without(@, line.key)]
      [] OTHER -> [so EXCEPT !.block = "",
                             !.meta = Put(Without(@, line.key), <<line.key>>, Scalar(line.value))]

Parsed(header) == FoldLeft(ReadLine, Start, header)

Given(meta, field) ==
    IF <<field>> \in DOMAIN meta /\ meta[<<field>>] \notin Unset THEN meta[<<field>>] ELSE ""
Has(meta, field) == Given(meta, field) # ""
Dials(meta) == {p[2] : p \in {q \in DOMAIN meta : Len(q) = 2 /\ q[1] = "params"}}

Kinds      == {"constraint", "heuristic", "assumption"}
Directions == {"maximize", "minimize"}
Expressed  == {"when", "require", "bonus", "penalty"}
Tunable    == Expressed \cup {"kind", "category", "metric", "direction", "weight", "confidence", "soft"}

\* A whitelisted expression reads a namespace's key, or no name at all.
Compiles(text) == text \in Numbers \cup DOMAIN Metrics \cup {"params.A", "params.B", "team.gone"}
NamesOf(text) == IF text \in Numbers \cup {""} THEN {} ELSE {text}
DialOf(name) == CASE name = "params.A" -> "A" [] name = "params.B" -> "B" [] OTHER -> ""

\* Each field by the rule its kind keeps; an absent weight reads 1, a blank 0.
FieldsFit(meta) ==
    /\ Given(meta, "kind") \in Kinds
    /\ Given(meta, "direction") \in Directions \cup {""}
    /\ Given(meta, "weight") \in InRange \cup {""}
    /\ Given(meta, "soft") \in {"true", "false", ""}
    /\ \A f \in Expressed : Has(meta, f) => Compiles(Given(meta, f))
    /\ \A f \in {"metric", "confidence", "category"} : Given(meta, f) # "true"
    /\ ~Has(meta, "params") /\ \A d \in Dials(meta) : meta[<<"params", d>>] \in Numbers
    /\ \A p \in DOMAIN meta : p[1] \in Tunable \cup {"name"} => Len(p) = 1

Limit(meta) == Has(meta, "require")
Form(meta) ==
    CASE Given(meta, "kind") = "assumption" -> "assumption"
      [] Given(meta, "kind") = "heuristic" /\ Has(meta, "metric") -> "heuristic"
      [] OTHER -> IF Limit(meta) THEN "limit"
                  ELSE IF Has(meta, "bonus") \/ Has(meta, "penalty") THEN "scored" ELSE "draft"

IsNumber(key) == key \in DOMAIN Metrics /\ Metrics[key] = "number"
Soft(meta) == Given(meta, "soft") = "true"

HeuristicFits(meta) ==
    Given(meta, "kind") = "heuristic" /\ (Has(meta, "metric") \/ Has(meta, "direction"))
        => Has(meta, "direction") /\ IsNumber(Given(meta, "metric"))
ConfidenceFits(meta) ==
    Has(meta, "confidence") => IsNumber(Given(meta, "confidence")) /\ Form(meta) = "heuristic"
KindFits(meta) ==
    CASE Given(meta, "kind") = "assumption" -> \A f \in Expressed \cup {"metric"} : ~Has(meta, f)
      [] Given(meta, "kind") = "heuristic" -> \A f \in Expressed \ {"when"} : ~Has(meta, f)
      [] OTHER -> ~Has(meta, "metric")
LimitFits(meta) ==
    /\ ~(Limit(meta) /\ Has(meta, "bonus"))
    /\ Soft(meta) => Limit(meta) /\ Has(meta, "penalty")
NamesFit(meta) ==
    \A f \in Expressed : \A name \in NamesOf(Given(meta, f)) :
        IF DialOf(name) # "" THEN DialOf(name) \in Dials(meta) ELSE name \in DOMAIN Metrics

Admits(header) ==
    LET so == Parsed(header) IN
    /\ so.ok /\ FieldsFit(so.meta) /\ HeuristicFits(so.meta) /\ ConfidenceFits(so.meta)
    /\ KindFits(so.meta) /\ LimitFits(so.meta) /\ NamesFit(so.meta)

SolverReads(meta) == Form(meta) \in {"heuristic", "limit", "scored"}
\* A guard the board settles for every six, and the heuristic it does not.
Settled(text) == NamesOf(text) \subseteq BoardKeys \cup {"params.A", "params.B"}
IsNeed(meta) == Form(meta) = "heuristic" /\ Has(meta, "when") /\ ~Settled(Given(meta, "when"))

-----------------------------------------------------------------------------
(* What the editor writes. *)

\* The value a field accepts: NAME takes a number, soft a boolean and nothing
\* else, a line or an expression any one line but a boolean.
Accepts(pair) ==
    CASE pair.field \in {"params.A", "params.B"} -> pair.type # "bool" /\ pair.text \in Numbers
      [] pair.field = "kind" -> pair.text \in Kinds
      [] pair.field = "direction" -> pair.text \in Directions
      [] pair.field = "weight" -> pair.type # "bool" /\ pair.text \in InRange
      [] pair.field = "soft" -> pair.type = "bool"
      [] OTHER -> pair.field \in Tunable /\ pair.type # "bool"

\* Where a new line goes: the end, before a trailing blank line.
HeaderEnd(header) ==
    IF header # <<>> /\ Last(header) = NoLine(FALSE) THEN Len(header) ELSE Len(header) + 1

FirstLine(header, Test(_)) == SelectInSeq(header, Test)

\* Mutant: a dial is added under params: and its old line left after it.
AddParam(header, name, text) ==
    LET found == FirstLine(header, Opens)
        block == IF found = 0 THEN HeaderEnd(header) ELSE found
        with  == IF found = 0 THEN InsertAt(header, block, Line("params", "")) ELSE header
    IN  InsertAt(with, block + 1, Dial(name, text))

\* A dial set under the first params:, among the indented lines that follow it
\* with none at column 0 between.
SetParam(header, name, text) ==
    LET found == FirstLine(header, Opens)
        block == IF found = 0 THEN HeaderEnd(header) ELSE found
        with  == IF found = 0 THEN InsertAt(header, block, Line("params", "")) ELSE header
        after == SelectInSubSeq(with, block + 1, Len(with), LAMBDA l : ~l.in)
        stop  == IF after = 0 THEN Len(with) + 1 ELSE after
        held  == SelectInSubSeq(with, block + 1, stop - 1, LAMBDA l : l.key = name)
    IN  IF held # 0 THEN ReplaceAt(with, held, Dial(name, text)) ELSE InsertAt(with, stop, Dial(name, text))

\* A flat field set in place, or added above params:.
SetScalar(header, field, text) ==
    LET held  == FirstLine(header, LAMBDA l : ~l.in /\ l.key = field)
        block == FirstLine(header, Opens)
        at    == IF block = 0 THEN HeaderEnd(header) ELSE block
    IN  IF held # 0 THEN ReplaceAt(header, held, Line(field, text))
        ELSE InsertAt(header, at, Line(field, text))

EditLine(header, pair) ==
    IF DialOf(pair.field) # "" THEN SetParam(header, DialOf(pair.field), pair.text)
    ELSE SetScalar(header, pair.field, pair.text)

Edited(header, pairs) == FoldLeft(EditLine, header, pairs)

-----------------------------------------------------------------------------

StrategiesInit == lines \in {h \in Headers : Admits(h)} /\ told = <<>> /\ edits = 0

\* tune, of one pair, and infer_strategy, of several: each value is checked by
\* itself, the edited text by the loader, and only then is the file written.
Tune(pairs) ==
    /\ edits < MaxEdits
    /\ \A i \in DOMAIN pairs : Accepts(pairs[i])
    /\ Admits(Edited(lines, pairs))
    /\ lines' = Edited(lines, pairs) /\ told' = pairs /\ edits' = edits + 1

TuneRefused(pairs) ==
    /\ edits < MaxEdits
    /\ (\E i \in DOMAIN pairs : ~Accepts(pairs[i])) \/ ~Admits(Edited(lines, pairs))
    /\ told' = <<>> /\ UNCHANGED <<lines, edits>>

StrategiesNext == \E pairs \in Tunings : Tune(pairs) \/ TuneRefused(pairs)

-----------------------------------------------------------------------------
(* What a tuning promises. *)

Path(field) == IF DialOf(field) # "" THEN <<"params", DialOf(field)>> ELSE <<field>>
ReadAt(header, path) ==
    LET meta == Parsed(header).meta IN IF path \in DOMAIN meta THEN meta[path] ELSE ""

\* What the loader reads of every field the last call set; of one it set
\* twice, the later pair.
Heard(header, pairs) ==
    \A i \in DOMAIN pairs :
        \/ \E j \in DOMAIN pairs : j > i /\ pairs[j].field = pairs[i].field
        \/ ReadAt(header, Path(pairs[i].field)) = Scalar(pairs[i].text)

\* No key is written twice at its level, params: is bare and at column 0, and
\* the indented lines are its own and follow it with none at column 0 among them.
Tidy(header) ==
    /\ \A i, j \in DOMAIN header :
        i # j /\ header[i].key # Skip => <<header[i].in, header[i].key>> # <<header[j].in, header[j].key>>
    /\ \A i \in DOMAIN header : header[i].key = "params" => header[i] = Line("params", "")
    /\ \A i \in DOMAIN header :
        header[i].in => i > 1 /\ (header[i - 1].in \/ header[i - 1] = Line("params", ""))

\* In a tidy header every change a call answers with is what the loader reads
\* from then on, no other field or dial reads otherwise for it, and the header
\* stays tidy for the calls to come (_set_param, _set_scalar, parse_frontmatter).
TidyTurns ==
    [][lines' # lines /\ Tidy(lines) =>
        /\ Heard(lines', told') /\ Tidy(lines')
        /\ \A p \in DOMAIN Parsed(lines).meta \cup DOMAIN Parsed(lines').meta :
            \/ ReadAt(lines', p) = ReadAt(lines, p)
            \/ \E i \in DOMAIN told' : p = Path(told'[i].field)]_strategyVars

\* So it is in any header: "an edit to its frontmatter, validated, written back"
\* (inference/tune.py:1).
TunedIsRead == [][lines' # lines => Heard(lines', told')]_strategyVars
=============================================================================
