--------------------------- MODULE MCSupportTickets ---------------------------
(***************************************************************************)
(* SupportTickets for TLC: who writes which message.                       *)
(***************************************************************************)
EXTENDS SupportTickets, TLC

CONSTANTS c1, c2, ann, chief, mara, ask, answer, hint

\* One message of the member, one of an ordinary admin, one of a super admin.
MCWriter == (ask :> mara) @@ (answer :> ann) @@ (hint :> chief)

\* The calls are interchangeable.
Symmetry == Permutations(Calls)

=============================================================================
