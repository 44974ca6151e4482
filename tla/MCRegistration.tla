---------------------------- MODULE MCRegistration ----------------------------
(***************************************************************************)
(* Registration for TLC: model values and their symmetry.                  *)
(***************************************************************************)
EXTENDS Registration, TLC

CONSTANTS p1, p2, e1, e2, g1, t1, t2, c1, c2

MCSymmetry == Permutations(Phones) \union Permutations(Emails) \union Permutations(Tokens)
                  \union Permutations(Calls)

=============================================================================
