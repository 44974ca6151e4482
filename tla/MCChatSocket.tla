--------------------------- MODULE MCChatSocket ---------------------------
(* An instance of ChatSocket.  The third slot leaves an unfinished attempt its place. *)
EXTENDS ChatSocket

CONSTANTS k1, k2, k3, h1

MCEvents == [thread \in BOOLEAN |-> IF thread THEN 2 ELSE 4]
=============================================================================
