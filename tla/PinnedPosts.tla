------------------------------ MODULE PinnedPosts ------------------------------
(***************************************************************************)
(* The pinned posts of one community.  pinPost toggles a post, deletePost  *)
(* removes one; both read the post first and move the other pinned posts   *)
(* in a transaction afterwards, row by row, by what they read.  The        *)
(* database runs READ COMMITTED: a list is what is committed when it is    *)
(* read, an updated row stays locked until the end, and the unique index   *)
(* on the slots of a community refuses a second post in one at every       *)
(* single update.  All that a transaction writes is written at once, when  *)
(* it commits: its updates do not depend on the rows they find.            *)
(***************************************************************************)
EXTENDS Naturals, FiniteSets

CONSTANTS
    Posts,     \* the posts of the community
    None,      \* no post
    Slots,     \* the last slot (3 in the code)
    Calls      \* requests of the admins under way

ASSUME SlotsAssumption == Slots \in Nat \ {0}
ASSUME NoneAssumption == None \notin Posts

VARIABLES
    slot,      \* pinOrder of every row, 0 for null
    live,      \* the rows with no deletedAt
    call,      \* the requests
    raced      \* history: two calls crossed and both were committed

vars == <<slot, live, call, raced>>

Requests == [at : {"idle", "read", "listed"}, kind : {"pin", "unpin", "delete"},
             post : Posts \union {None}, saw : 0 .. Slots, list : [Posts -> 0 .. Slots],
             met : {"nobody", "harmless", "crossed"}]

TypeOK ==
    /\ slot \in [Posts -> 0 .. Slots]
    /\ live \subseteq Posts
    /\ call \in [Calls -> Requests]
    /\ raced \in BOOLEAN

Nobody == [p \in Posts |-> 0]
NoCall == [at |-> "idle", kind |-> "pin", post |-> None, saw |-> 0, list |-> Nobody, met |-> "nobody"]

Init ==
    /\ slot = Nobody /\ live = Posts
    /\ call = [c \in Calls |-> NoCall]
    /\ raced = FALSE

-----------------------------------------------------------------------------
(* What a transaction writes. *)

\* A slot further from the head, or off the list; its fault takes a post off one slot early.
OffEarly(s)   == IF s >= Slots - 1 THEN 0 ELSE s + 1
PushedDown(s) == IF s >= Slots THEN 0 ELSE s + 1

\* Unpinning and deleting list the pinned posts below the slot that was read.
ListsBelow(c, p) == call[c].saw # 0 /\ slot[p] > call[c].saw

Listed(c) ==
    [p \in Posts |->
        IF /\ p \in live
           /\ IF call[c].kind = "pin" THEN TRUE ELSE p # call[c].post /\ ListsBelow(c, p)
        THEN slot[p] ELSE 0]

Moves(c, p) == call[c].list[p] # 0

MovesTo(c, p) == IF call[c].kind = "pin" THEN PushedDown(call[c].list[p]) ELSE call[c].list[p] - 1

\* The rows are moved from the last slot up when pinning, from the first slot down otherwise:
\* p no later than q.  Its fault: always from the first slot down.
FirstToLast(c, p, q) == call[c].list[p] <= call[c].list[q]
NoLater(c, p, q) == IF call[c].kind = "pin" THEN call[c].list[p] >= call[c].list[q]
                                            ELSE call[c].list[p] <= call[c].list[q]

\* The slots once the transaction has moved q, and when it is done.
Upto(c, q) ==
    [p \in Posts |-> IF p = call[c].post /\ call[c].kind # "pin" THEN 0
                     ELSE IF Moves(c, p) /\ NoLater(c, p, q) THEN MovesTo(c, p) ELSE slot[p]]

Done(c) ==
    [p \in Posts |-> IF p = call[c].post THEN (IF call[c].kind = "pin" THEN 1 ELSE 0)
                     ELSE IF Moves(c, p) THEN MovesTo(c, p) ELSE slot[p]]

\* The partial unique index, and the rows it covers.
Indexed == live

OnePerSlot(places) == \A p \in Indexed : places[p] # 0 => \A q \in Indexed : places[p] = places[q] => p = q

\* No update of the transaction meets another post in the slot it writes.
Accepted(c) ==
    /\ \A q \in Posts : Moves(c, q) => OnePerSlot(Upto(c, q))
    /\ OnePerSlot(Done(c))

\* The row an unpinning or deleting transaction has updated and not committed yet.
Holds(c, p) == call[c].at = "listed" /\ call[c].kind # "pin" /\ call[c].post = p

Writes(c, p) == call[c].post = p \/ Moves(c, p)

-----------------------------------------------------------------------------
(* The calls. *)

Call(c, to) == call' = [call EXCEPT ![c] = to]

\* Whether c commits in the middle of d, in a way that spoils what d has read: on a post that d is
\* to write, or by unpinning another one.  A pin is in time as long as it has not listed the others.
Crosses(c, d) ==
    \/ Writes(d, call[c].post)
    \/ call[c].kind # "pin" /\ call[c].saw # 0 /\ ~(call[d].kind = "pin" /\ call[d].at = "read")

Met(c, d) == IF call[d].at = "idle" THEN call[d].met
             ELSE IF Crosses(c, d) \/ call[d].met = "crossed" THEN "crossed" ELSE "harmless"

\* findUnique on the post, before the transaction.  Whether to pin is taken from its slot.
ReadPost(c, p) ==
    /\ call[c].at = "idle" /\ p \in live
    /\ \E kind \in {IF slot[p] = 0 THEN "pin" ELSE "unpin", "delete"} :
          Call(c, [NoCall EXCEPT !.at = "read", !.kind = kind, !.post = p, !.saw = slot[p]])
    /\ UNCHANGED <<slot, live, raced>>

\* The transaction up to its list.  An unpin or deletion has updated its own row by then.
ListPinned(c) ==
    /\ call[c].at = "read"
    /\ call[c].kind # "pin" => \A d \in Calls : ~Holds(d, call[c].post)
    /\ Call(c, [call[c] EXCEPT !.at = "listed", !.list = Listed(c)])
    /\ UNCHANGED <<slot, live, raced>>

\* The other updates, and the commit.  It waits for the rows that others hold.
Commit(c) ==
    /\ call[c].at = "listed"
    /\ \A d \in Calls \ {c}, p \in Posts : Holds(d, p) => ~Writes(c, p)
    /\ Accepted(c)
    /\ slot' = Done(c)
    /\ live' = IF call[c].kind = "delete" THEN live \ {call[c].post} ELSE live
    /\ call' = [d \in Calls |-> IF d = c THEN NoCall ELSE [call[d] EXCEPT !.met = Met(c, d)]]
    /\ raced' = (raced \/ call[c].met = "crossed")

\* The index refuses an update, a deadlock, a lost connection: the call fails and changes nothing.
Fails(c) ==
    /\ call[c].at # "idle"
    /\ Call(c, NoCall)
    /\ UNCHANGED <<slot, live, raced>>

Next == \E c \in Calls : (\E p \in Posts : ReadPost(c, p)) \/ ListPinned(c) \/ Commit(c) \/ Fails(c)

Spec == Init /\ [][Next]_vars

-----------------------------------------------------------------------------
(* Properties. *)

\* No two posts that can be seen share a slot, however the calls cross.
SlotsDistinct == \A p, q \in live : slot[p] # 0 /\ slot[p] = slot[q] => p = q

\* A call in whose middle nobody commits is never refused by the index, whatever gaps or pinned
\* deleted rows earlier calls left behind: the rows are moved in an order that frees each slot
\* before it is taken, and a deleted post takes no slot.
NeverRefused == \A c \in Calls : call[c].at = "listed" /\ call[c].met = "nobody" => Accepted(c)

\* The board that the readers of the community see.
Pinned == {p \in live : slot[p] # 0}
Shown == [i \in 1 .. Cardinality(Pinned) |-> CHOOSE p \in Pinned : slot[p] = i]
Board == INSTANCE PinBoard WITH board <- IF raced THEN << >> ELSE Shown

\* Pinning, unpinning and deleting keep the promise of the board until two calls cross: its
\* slots "always stay contiguous", in the order of the pinning.  It takes an unpinning, or a call on
\* a post that the other is to write, to cross: pins of other posts, in the middle of a pin or of an
\* unpinning, are harmless because the index makes one of the two fail where they clash.
KeepsTheBoard == Board!Spec
=============================================================================
