-------------------------------- MODULE Sums --------------------------------
(***************************************************************************)
(* The sum of a column over the rows of a table.                           *)
(***************************************************************************)
EXTENDS Integers, FiniteSetsExt

SumOf(f) == MapThenSumSet(LAMBDA x : f[x], DOMAIN f)
=============================================================================
