------------------------------- MODULE MCSessions -------------------------------
(***************************************************************************)
(* Sessions for TLC.  Its three parts are explored one at a time: they     *)
(* share no variable, so steps of two of them commute.                     *)
(***************************************************************************)
EXTENDS Sessions

CONSTANTS s1, s2, c1, c2, ann, bob, t1, t2, j1, w1, k1, k2, k3, h1, h2

AdminsStill == /\ <<gone, stored, now, resets>> = <<{}, {}, 0, [a \in Admins |-> 0]>>
               /\ \A c \in Calls : call[c] = NoCall
PushStill   == /\ <<dead, phone>> = <<{}, [u \in Members |-> Nothing]>>
               /\ \A j \in Jobs : job[j] = NoJob
ChatStill   == ~connected /\ \A b \in DOMAIN used : used[b] = 0

MCEvents == [thread \in BOOLEAN |-> 3]

TwoResets == resets[s1] + resets[s2] <= 2

\* The first page, and its retry or what two reloads ask for.
ThreeAsked == request[h1].id + request[h2].id <= 3

MCBound == TwoResets /\ ThreeAsked

OneAtATime == \/ PushStill /\ ChatStill /\ AdminsNext /\ UNCHANGED <<pushVars, vars>>
              \/ AdminsStill /\ ChatStill /\ PushNext /\ UNCHANGED <<adminVars, vars>>
              \/ AdminsStill /\ PushStill /\ Next /\ UNCHANGED <<adminVars, pushVars>>

MCSpec == SessionsInit /\ [][OneAtATime]_<<adminVars, pushVars, vars>>

MCSymmetry == Permutations(Supers) \union Permutations(Calls)
=============================================================================
