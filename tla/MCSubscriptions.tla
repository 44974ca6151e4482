---------------------------- MODULE MCSubscriptions ----------------------------
(***************************************************************************)
(* Subscriptions for TLC: the dates admins type, and the symmetry of ids.  *)
(***************************************************************************)
EXTENDS Subscriptions, TLC

CONSTANTS r1, r2, r3, r4, o1, o2, p1, p2, p3, ann, bob, c1, c2

MCToday == {0}

Symmetry ==
    Permutations(Rows) \union Permutations(Orders) \union Permutations(Payments)
        \union Permutations(Admins) \union Permutations(Crons)

=============================================================================
