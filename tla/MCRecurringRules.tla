-------------------------- MODULE MCRecurringRules ---------------------------
(* RecurringRules on small instances for TLC. *)
EXTENDS RecurringRules

\* January to June of a common year.
MCMonthLen == [m \in 0..5 |-> <<31, 28, 31, 30, 31, 30>>[m + 1]]

\* The first and the last day of January.
MCStarts == {1, 31}

\* The end of February.
MCMoves == {32 + 28}

\* The start, and mid March: a fixed rule of January is then two months behind.
MCClock == {0, 64 + 15}
==============================================================================
