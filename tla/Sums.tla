--------------------------------- MODULE Sums ----------------------------------
(***************************************************************************)
(* The sum of the values of a function.                                    *)
(***************************************************************************)
EXTENDS FiniteSetsExt

SumOf(f) == MapThenSumSet(LAMBDA x : f[x], DOMAIN f)
=============================================================================
