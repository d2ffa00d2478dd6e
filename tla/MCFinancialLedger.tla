-------------------------- MODULE MCFinancialLedger --------------------------
(* FinancialLedger on small instances for TLC. *)
EXTENDS FinancialLedger, TLC

CONSTANTS t1, t2

\* A filter that selects every row and one that selects a single row.
MCScopes == {{t1, t2}, {t1}} \cap SUBSET Txs

Symmetry == Permutations(Reqs)
==============================================================================
