--------------------------- MODULE MCReviewCoverage ---------------------------
(* The commands and the supervisor on a small repository.                  *)
EXTENDS ReviewCoverage, TLC

CONSTANTS t1, t2, n1, n2, c1, c2, i1, i2, m1, m2, e1, e2

StartValue == [base |-> c1, increment |-> i1, material |-> m1, evidence |-> e1]

MCSymmetry == Permutations({t1, t2})

(* TLC evaluates what a constant is replaced by at every use, but a         *)
(* definition like those above only once.                                  *)
MCStart == StartValue
=============================================================================
