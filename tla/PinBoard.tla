-------------------------------- MODULE PinBoard --------------------------------
(***************************************************************************)
(* What pinning promises the readers of a community: a short list of posts *)
(* in an order of their own.  A pinned post goes to its head, the last one *)
(* falls off a full list, and a post that is unpinned or deleted leaves it *)
(* without a gap.  raced says that calls have crossed in one of the ways   *)
(* that breaks the promise; nothing is promised from then on.              *)
(***************************************************************************)
EXTENDS Naturals, SequencesExt

CONSTANTS Posts, Slots

VARIABLES board, raced

vars == <<board, raced>>

Init == board = << >> /\ raced = FALSE

\* The first Slots posts of a list.
Kept(list) == SubSeq(list, 1, IF Len(list) < Slots THEN Len(list) ELSE Slots)

Pin(p) == ~Contains(board, p) /\ board' = Kept(<<p>> \o board)

Leave(p) == \E i \in 1 .. Len(board) : board[i] = p /\ board' = RemoveAt(board, i)

Next == \/ raced'
        \/ (\E p \in Posts : Pin(p) \/ Leave(p)) /\ UNCHANGED raced

Spec == Init /\ [][Next]_vars
=============================================================================
