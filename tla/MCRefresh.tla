----------------------------- MODULE MCRefresh ------------------------------
(* A small instance of Refresh for TLC.                                    *)
EXTENDS Refresh

CONSTANTS ana, cassidy, season, rates

\* What the owner calls.
OnePull == {<<"pull_kits">>}

\* Every page is cached, or none of those that may fail.
NoneOrAll == {{}, Flaky}
=============================================================================
