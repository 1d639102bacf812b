----------------------------- MODULE MCMatches ------------------------------
(* Small instances of Matches for TLC.                                     *)
EXTENDS Matches

CONSTANTS g1, g2, g3, h1, h2

\* Two games name one hero and a third another, so a hero the roster loses
\* takes some of the matches and not others.
MCHeroOf == [g \in Games |-> IF g = g3 THEN h2 ELSE h1]

\* The points where a failure leaves the matches in the table or in a whole
\* file, and not in both.
CleanPoints == Points \ {"idle", "writing", "kept", "queued",
                         "committed", "rewriting"}

\* The points where a failure leaves no torn file.
UntornPoints == Points \ {"idle", "writing", "rewriting"}

NoPoints  == {}
=============================================================================
