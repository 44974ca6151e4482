--------------------------- MODULE PostPageProofs ---------------------------
(***************************************************************************)
(* Theorems about the posts page, for any posts, slots, members, comments  *)
(* and concurrent requests.  Of the pins: types, that no slot is shared,   *)
(* that a call in whose middle nobody commits is never refused by the      *)
(* unique index, and that the pinned posts are the list that PinBoard      *)
(* promises until calls cross.  Of the talk: types, and what holds of      *)
(* counts and threads whatever requests cross.                             *)
(***************************************************************************)
EXTENDS PostPage, FiniteSetTheorems, FunctionTheorems, SequenceTheorems, TLAPS

-----------------------------------------------------------------------------
(* Types. *)

LEMMA NobodyTyped == Nobody \in [Posts -> 0 .. Slots]
BY SlotsAssumption DEF Nobody

LEMMA NoCallTyped == NoCall \in Requests
BY NobodyTyped, SlotsAssumption DEF NoCall, Requests

\* A row never moves out of its range.
LEMMA DoneTyped ==
    ASSUME TypeOK, NEW c \in Calls
    PROVE  Done(c) \in [Posts -> 0 .. Slots]
<1>1. call[c] \in Requests
  BY DEF TypeOK
<1>2. call[c].list \in [Posts -> 0 .. Slots]
  BY <1>1 DEF Requests
<1>3. ASSUME NEW p \in Posts, Moves(c, p) PROVE MovesTo(c, p) \in 0 .. Slots
  <2>1. call[c].list[p] \in 0 .. Slots /\ call[c].list[p] # 0
    BY <1>2, <1>3 DEF Moves
  <2> QED BY <2>1, SlotsAssumption DEF MovesTo, PushedDown
<1>4. slot \in [Posts -> 0 .. Slots]
  BY DEF TypeOK
<1> QED BY <1>3, <1>4, SlotsAssumption DEF Done

LEMMA ListedTyped ==
    ASSUME TypeOK, NEW c \in Calls
    PROVE  Listed(c) \in [Posts -> 0 .. Slots]
BY SlotsAssumption DEF TypeOK, Listed

LEMMA CommitTypes ==
    ASSUME TypeOK, NEW c \in Calls, Commit(c)
    PROVE  TypeOK'
<1>1. slot' \in [Posts -> 0 .. Slots]
  BY DoneTyped DEF Commit
<1>2. live' \subseteq Posts
  BY DEF Commit, TypeOK
<1>3. call' \in [Calls -> Requests]
  <2>1. ASSUME NEW d \in Calls PROVE Met(c, d) \in {"nobody", "harmless", "crossed"}
    <3>1. call[d] \in Requests
      BY DEF TypeOK
    <3> QED BY <3>1 DEF Met, Requests
  <2>2. ASSUME NEW d \in Calls PROVE [call[d] EXCEPT !.met = Met(c, d)] \in Requests
    <3>1. call[d] \in Requests
      BY DEF TypeOK
    <3> QED BY <3>1, <2>1 DEF Requests
  <2> QED BY <2>2, NoCallTyped DEF Commit
<1>4. raced' \in BOOLEAN
  BY DEF Commit, TypeOK
<1> QED BY <1>1, <1>2, <1>3, <1>4 DEF TypeOK

LEMMA NextTypes == TypeOK /\ [Next]_vars => TypeOK'
<1> SUFFICES ASSUME TypeOK, [Next]_vars PROVE TypeOK'
  OBVIOUS
<1>1. ASSUME NEW c \in Calls, NEW p \in Posts, ReadPost(c, p) PROVE TypeOK'
  <2>1. PICK kind \in {IF slot[p] = 0 THEN "pin" ELSE "unpin", "delete"} :
           Call(c, [NoCall EXCEPT !.at = "read", !.kind = kind, !.post = p, !.saw = slot[p]])
    BY <1>1 DEF ReadPost
  <2>2. [NoCall EXCEPT !.at = "read", !.kind = kind, !.post = p, !.saw = slot[p]] \in Requests
    BY NobodyTyped DEF NoCall, Requests, TypeOK
  <2> QED BY <1>1, <2>1, <2>2 DEF ReadPost, Call, TypeOK
<1>2. ASSUME NEW c \in Calls, ListPinned(c) PROVE TypeOK'
  <2>1. call[c] \in Requests
    BY DEF TypeOK
  <2>2. [call[c] EXCEPT !.at = "listed", !.list = Listed(c)] \in Requests
    BY <2>1, ListedTyped DEF Requests
  <2> QED BY <1>2, <2>2 DEF ListPinned, Call, TypeOK
<1>3. ASSUME NEW c \in Calls, Fails(c) PROVE TypeOK'
  BY <1>3, NoCallTyped DEF Fails, Call, TypeOK
<1>4. CASE UNCHANGED vars
  BY <1>4 DEF vars, TypeOK
<1> QED BY <1>1, <1>2, <1>3, <1>4, CommitTypes DEF Next

LEMMA InitTypes == Init => TypeOK
BY NobodyTyped, NoCallTyped DEF Init, TypeOK

\* Every variable keeps its type.
THEOREM TypeCorrect == Spec => []TypeOK
<1> QED BY InitTypes, NextTypes, PTL DEF Spec

-----------------------------------------------------------------------------
(* No slot is shared. *)

LEMMA NextDistinct == TypeOK /\ SlotsDistinct /\ [Next]_vars => SlotsDistinct'
<1> SUFFICES ASSUME TypeOK, SlotsDistinct, [Next]_vars PROVE SlotsDistinct'
  OBVIOUS
<1>1. ASSUME NEW c \in Calls, Commit(c) PROVE SlotsDistinct'
  <2>1. OnePerSlot(slot')
    BY <1>1 DEF Commit, Accepted
  <2>2. live' \subseteq live
    BY <1>1 DEF Commit
  <2> QED BY <2>1, <2>2 DEF OnePerSlot, Indexed, SlotsDistinct
<1>2. CASE UNCHANGED <<slot, live>>
  BY <1>2 DEF SlotsDistinct
<1> QED BY <1>1, <1>2 DEF Next, ReadPost, ListPinned, Fails, vars

LEMMA InitDistinct == Init => SlotsDistinct
BY DEF Init, Nobody, SlotsDistinct

\* No two posts that readers see share a slot, whatever gaps, crossings and failures there are.
THEOREM SlotsStayDistinct == Spec => []SlotsDistinct
<1>1. TypeOK /\ SlotsDistinct /\ [Next]_vars => SlotsDistinct'
  BY NextDistinct
<1> QED BY <1>1, InitDistinct, TypeCorrect, PTL DEF Spec

-----------------------------------------------------------------------------
(* A call alone in its time is never refused. *)

\* What a call that nobody has met still holds true of the rows: its post can be seen and is in
\* the slot it saw, and its list is what it would list now.
Undisturbed(c) ==
    call[c].at # "idle" /\ call[c].met = "nobody" =>
        /\ call[c].post \in live
        /\ call[c].saw = slot[call[c].post]
        /\ call[c].kind = "pin" => call[c].saw = 0
        /\ call[c].at = "listed" => call[c].list = Listed(c)

AllUndisturbed == \A c \in Calls : Undisturbed(c)

AloneInv == TypeOK /\ SlotsDistinct /\ AllUndisturbed

LEMMA NextUndisturbed == AloneInv /\ [Next]_vars => AllUndisturbed'
<1> SUFFICES ASSUME AloneInv, [Next]_vars, NEW d \in Calls PROVE Undisturbed(d)'
  BY DEF AllUndisturbed
<1> USE DEF AloneInv
<1>0. Undisturbed(d) /\ call[d] \in Requests
  BY DEF AllUndisturbed, TypeOK
<1>1. ASSUME NEW c \in Calls, NEW p \in Posts, ReadPost(c, p) PROVE Undisturbed(d)'
  <2>1. PICK kind \in {IF slot[p] = 0 THEN "pin" ELSE "unpin", "delete"} :
           Call(c, [NoCall EXCEPT !.at = "read", !.kind = kind, !.post = p, !.saw = slot[p]])
    BY <1>1 DEF ReadPost
  <2>2. CASE d = c
    <3>1. call'[d] = [NoCall EXCEPT !.at = "read", !.kind = kind, !.post = p, !.saw = slot[p]]
      BY <2>1, <2>2 DEF Call, TypeOK
    <3> QED BY <3>1, <1>1 DEF ReadPost, Undisturbed, NoCall
  <2>3. CASE d # c
    <3>1. call'[d] = call[d] /\ slot' = slot /\ live' = live
      BY <2>1, <2>3, <1>1 DEF Call, TypeOK, ReadPost
    <3> QED BY <3>1, <1>0 DEF Undisturbed, Listed, ListsBelow
  <2> QED BY <2>2, <2>3
<1>2. ASSUME NEW c \in Calls, ListPinned(c) PROVE Undisturbed(d)'
  <2>1. slot' = slot /\ live' = live /\ Call(c, [call[c] EXCEPT !.at = "listed", !.list = Listed(c)])
    BY <1>2 DEF ListPinned
  <2>2. CASE d = c
    <3>1. call'[d] = [call[d] EXCEPT !.at = "listed", !.list = Listed(d)]
      BY <2>1, <2>2 DEF Call, TypeOK
    <3>2. /\ call'[d].at = "listed" /\ call'[d].list = Listed(d) /\ call'[d].post = call[d].post
          /\ call'[d].kind = call[d].kind /\ call'[d].saw = call[d].saw /\ call'[d].met = call[d].met
      BY <3>1, <1>0 DEF Requests
    <3>3. Listed(d)' = Listed(d)
      BY <3>2, <2>1 DEF Listed, ListsBelow
    <3>4. call[d].at # "idle"
      BY <1>2, <2>2 DEF ListPinned
    <3> QED BY <3>2, <3>3, <3>4, <2>1, <1>0 DEF Undisturbed
  <2>3. CASE d # c
    <3>1. call'[d] = call[d]
      BY <2>1, <2>3 DEF Call, TypeOK
    <3> QED BY <3>1, <2>1, <1>0 DEF Undisturbed, Listed, ListsBelow
  <2> QED BY <2>2, <2>3
<1>3. ASSUME NEW c \in Calls, Commit(c) PROVE Undisturbed(d)'
  <2>1. CASE d = c \/ call[d].at = "idle"
    <3>1. call'[d].at = "idle"
      BY <1>3, <2>1, <1>0 DEF Commit, NoCall, Requests
    <3> QED BY <3>1 DEF Undisturbed
  <2>2. CASE d # c /\ call[d].at # "idle"
    <3>1. call'[d].met = Met(c, d)
      BY <1>3, <2>2, <1>0 DEF Commit, Requests
    <3>2. Met(c, d) # "nobody"
      BY <2>2 DEF Met
    <3> QED BY <3>1, <3>2 DEF Undisturbed
  <2> QED BY <2>1, <2>2
<1>4. ASSUME NEW c \in Calls, Fails(c) PROVE Undisturbed(d)'
  <2>1. slot' = slot /\ live' = live /\ call' = [call EXCEPT ![c] = NoCall]
    BY <1>4 DEF Fails, Call
  <2>2. CASE d = c
    BY <2>1, <2>2 DEF TypeOK, Undisturbed, NoCall
  <2>3. CASE d # c
    <3>1. call'[d] = call[d]
      BY <2>1, <2>3 DEF TypeOK
    <3> QED BY <3>1, <2>1, <1>0 DEF Undisturbed, Listed, ListsBelow
  <2> QED BY <2>2, <2>3
<1>5. CASE UNCHANGED vars
  BY <1>5, <1>0 DEF vars, Undisturbed, Listed, ListsBelow
<1> QED BY <1>1, <1>2, <1>3, <1>4, <1>5 DEF Next

\* A pin moves what it listed from the last slot up, so each row finds its new slot free; and
\* nothing is left in the first one.
LEMMA PinAccepted ==
    ASSUME AloneInv, NEW c \in Calls, call[c].at = "listed", call[c].met = "nobody",
           call[c].kind = "pin"
    PROVE  Accepted(c)
<1> DEFINE post == call[c].post
<1>1. /\ post \in live /\ slot[post] = 0 /\ call[c].list = Listed(c)
  BY DEF AloneInv, AllUndisturbed, Undisturbed
<1>2. \A p \in live : call[c].list[p] = slot[p]
  BY <1>1 DEF Listed, AloneInv, TypeOK
<1>3. slot \in [Posts -> 0 .. Slots] /\ live \subseteq Posts
  BY DEF AloneInv, TypeOK
<1>4. ASSUME NEW q \in Posts, Moves(c, q) PROVE OnePerSlot(Upto(c, q))
  <2>1. q \in live /\ slot[q] # 0
    BY <1>1, <1>2, <1>4 DEF Moves, Listed
  <2>2. SUFFICES ASSUME NEW p \in live, NEW r \in live, Upto(c, q)[p] # 0,
                        Upto(c, q)[p] = Upto(c, q)[r]
                 PROVE  p = r
    BY DEF OnePerSlot, Indexed
  <2>3. \A x \in live : Upto(c, q)[x] =
           IF slot[x] # 0 /\ slot[x] >= slot[q] THEN PushedDown(slot[x]) ELSE slot[x]
    BY <1>2, <1>3, <2>1 DEF Upto, Moves, NoLater, MovesTo
  <2>4. slot[p] \in 0 .. Slots /\ slot[r] \in 0 .. Slots /\ slot[q] \in 0 .. Slots
    BY <1>3, <2>1
  <2>5. slot[p] # 0 /\ slot[r] # 0
    BY <2>2, <2>3, <2>4, SlotsAssumption DEF PushedDown
  <2>6. slot[p] = slot[r]
    BY <2>2, <2>3, <2>4, <2>5, SlotsAssumption DEF PushedDown
  <2> QED BY <2>5, <2>6 DEF AloneInv, SlotsDistinct
<1>5. OnePerSlot(Done(c))
  <2>1. SUFFICES ASSUME NEW p \in live, NEW r \in live, Done(c)[p] # 0, Done(c)[p] = Done(c)[r]
                 PROVE  p = r
    BY DEF OnePerSlot, Indexed
  <2>2. \A x \in live : Done(c)[x] = IF x = post THEN 1
                                     ELSE IF slot[x] # 0 THEN PushedDown(slot[x]) ELSE slot[x]
    BY <1>2, <1>3 DEF Done, Moves, MovesTo
  <2>3. slot[p] \in 0 .. Slots /\ slot[r] \in 0 .. Slots
    BY <1>3
  <2>4. \A x \in live \ {post} : Done(c)[x] # 0 => slot[x] # 0 /\ Done(c)[x] = slot[x] + 1 /\ Done(c)[x] # 1
    <3> SUFFICES ASSUME NEW x \in live \ {post}, Done(c)[x] # 0
                 PROVE  slot[x] # 0 /\ Done(c)[x] = slot[x] + 1 /\ Done(c)[x] # 1
      OBVIOUS
    <3>1. slot[x] \in 0 .. Slots
      BY <1>3
    <3> QED BY <3>1, <2>2, SlotsAssumption DEF PushedDown
  <2>5. CASE p = post \/ r = post
    BY <2>1, <2>2, <2>4, <2>5
  <2>6. CASE p # post /\ r # post
    <3>1. slot[p] = slot[r] /\ slot[p] # 0
      BY <2>1, <2>3, <2>4, <2>6
    <3> QED BY <3>1 DEF AloneInv, SlotsDistinct
  <2> QED BY <2>5, <2>6
<1> QED BY <1>4, <1>5 DEF Accepted

\* An unpin or a deletion empties its own slot first and moves the rows below it from there down.
LEMMA LeaveAccepted ==
    ASSUME AloneInv, NEW c \in Calls, call[c].at = "listed", call[c].met = "nobody",
           call[c].kind # "pin"
    PROVE  Accepted(c)
<1> DEFINE post == call[c].post
<1> DEFINE saw == call[c].saw
<1>1. /\ post \in live /\ saw = slot[post] /\ call[c].list = Listed(c)
  BY DEF AloneInv, AllUndisturbed, Undisturbed
<1>2. slot \in [Posts -> 0 .. Slots] /\ live \subseteq Posts
  BY DEF AloneInv, TypeOK
<1>3. saw \in 0 .. Slots
  BY <1>1, <1>2
<1>4. \A x \in live : call[c].list[x] = IF x # post /\ saw # 0 /\ slot[x] > saw THEN slot[x] ELSE 0
  BY <1>1, <1>2 DEF Listed, ListsBelow
<1>5. \A x \in live : slot[x] \in 0 .. Slots
  BY <1>2
\* Where a row that has moved meets one that has not, the latter would be in the emptied slot.
<1>6. ASSUME NEW p \in live, NEW r \in live, saw # 0, p # post, r # post, slot[p] > saw,
             slot[r] = slot[p] - 1
      PROVE  slot[r] > saw
  <2>1. slot[r] # saw
    BY <1>1, <1>6 DEF AloneInv, SlotsDistinct
  <2> QED BY <2>1, <1>3, <1>5, <1>6
<1>7. ASSUME NEW q \in Posts, Moves(c, q) PROVE OnePerSlot(Upto(c, q))
  <2>1. q \in live /\ slot[q] > saw /\ saw # 0 /\ q # post
    BY <1>1, <1>4, <1>7 DEF Moves, Listed, ListsBelow
  <2>2. SUFFICES ASSUME NEW p \in live, NEW r \in live, Upto(c, q)[p] # 0,
                        Upto(c, q)[p] = Upto(c, q)[r]
                 PROVE  p = r
    BY DEF OnePerSlot, Indexed
  <2>3. \A x \in live : Upto(c, q)[x] =
           IF x = post THEN 0
           ELSE IF slot[x] > saw /\ slot[x] <= slot[q] THEN slot[x] - 1 ELSE slot[x]
    <3> SUFFICES ASSUME NEW x \in live
                 PROVE  Upto(c, q)[x] =
                          IF x = post THEN 0
                          ELSE IF slot[x] > saw /\ slot[x] <= slot[q] THEN slot[x] - 1 ELSE slot[x]
      OBVIOUS
    <3>1. Upto(c, q)[x] = IF x = post THEN 0
                          ELSE IF call[c].list[x] # 0 /\ call[c].list[x] <= call[c].list[q]
                               THEN call[c].list[x] - 1 ELSE slot[x]
      BY <1>2 DEF Upto, Moves, NoLater, MovesTo
    <3>2. call[c].list[q] = slot[q]
      BY <1>4, <2>1
    <3>3. call[c].list[x] = IF x # post /\ slot[x] > saw THEN slot[x] ELSE 0
      BY <1>4, <2>1
    <3>4. slot[x] \in 0 .. Slots
      BY <1>5
    <3> QED BY <3>1, <3>2, <3>3, <3>4, <1>3
  <2>4. /\ slot[p] \in 0 .. Slots /\ slot[r] \in 0 .. Slots /\ slot[q] \in 0 .. Slots
        /\ p # post /\ r # post
    BY <1>5, <2>1, <2>2, <2>3
  <2>5. slot[p] = slot[r]
    BY <1>3, <1>6, <2>1, <2>2, <2>3, <2>4
  <2>6. slot[p] # 0
    BY <1>3, <2>2, <2>3, <2>4
  <2> QED BY <2>5, <2>6 DEF AloneInv, SlotsDistinct
<1>8. OnePerSlot(Done(c))
  <2>1. SUFFICES ASSUME NEW p \in live, NEW r \in live, Done(c)[p] # 0, Done(c)[p] = Done(c)[r]
                 PROVE  p = r
    BY DEF OnePerSlot, Indexed
  <2>2. \A x \in live : Done(c)[x] = IF x = post THEN 0
                                     ELSE IF saw # 0 /\ slot[x] > saw THEN slot[x] - 1 ELSE slot[x]
    <3> SUFFICES ASSUME NEW x \in live
                 PROVE  Done(c)[x] = IF x = post THEN 0
                                     ELSE IF saw # 0 /\ slot[x] > saw THEN slot[x] - 1 ELSE slot[x]
      OBVIOUS
    <3>1. Done(c)[x] = IF x = post THEN 0
                       ELSE IF call[c].list[x] # 0 THEN call[c].list[x] - 1 ELSE slot[x]
      BY <1>2 DEF Done, Moves, MovesTo
    <3>2. slot[x] \in 0 .. Slots
      BY <1>5
    <3> QED BY <3>1, <3>2, <1>3, <1>4
  <2>3. slot[p] \in 0 .. Slots /\ slot[r] \in 0 .. Slots /\ p # post /\ r # post
    BY <1>5, <2>1, <2>2
  <2>4. slot[p] = slot[r]
    BY <1>3, <1>6, <2>1, <2>2, <2>3
  <2>5. slot[p] # 0
    BY <1>3, <2>1, <2>2, <2>3
  <2> QED BY <2>4, <2>5 DEF AloneInv, SlotsDistinct
<1> QED BY <1>7, <1>8 DEF Accepted

\* A call in whose middle nobody commits is never refused by the index, for any number of slots
\* and whatever gaps earlier calls left.
THEOREM AloneIsAccepted == Spec => []NeverRefused
<1>1. Init => AloneInv
  BY InitTypes, InitDistinct DEF Init, NoCall, AloneInv, AllUndisturbed, Undisturbed
<1>2. AloneInv /\ [Next]_vars => AloneInv'
  BY NextTypes, NextDistinct, NextUndisturbed DEF AloneInv
<1>3. AloneInv => NeverRefused
  BY PinAccepted, LeaveAccepted DEF NeverRefused
<1> QED BY <1>1, <1>2, <1>3, PTL DEF Spec

-----------------------------------------------------------------------------
(* The slots have no gap, and the board is kept, until calls cross. *)

\* A post that readers see is in slot i.
Filled(i) == \E p \in Pinned : slot[p] = i

\* The board has n posts, in its first n slots.
Long(n) == n \in 0 .. Slots /\ \A i \in 1 .. Slots : Filled(i) <=> i <= n

\* Its posts are in its first slots, without a gap.
Gapless == \E n \in 0 .. Slots : Long(n)

(* What the calls have read and when they are still right. *)

\* The list of a call is what it would list now.
InTime(d) == call[d].list = Listed(d)

\* The slot that d moves p to.
Target(d, p) == IF p = call[d].post THEN 1 ELSE MovesTo(d, p)

\* The call comes too late and the index will refuse it: the first post that it moves would meet
\* one that it leaves where it is.
Blocked(d) ==
    \E y \in live :
        /\ IF y = call[d].post THEN call[d].kind = "pin" ELSE Moves(d, y)
        /\ Target(d, y) \in 1 .. Slots /\ Filled(Target(d, y))
        /\ \A z \in Pinned : slot[z] <= Target(d, y) => ~Writes(d, z)

\* The post of an unpinning was in the slot it saw; pins can only have pushed it further down, or off.
Behind(d) ==
    \/ slot[call[d].post] >= call[d].saw
    \/ slot[call[d].post] = 0 /\ Filled(Slots)

\* The post of an unpinning is below all others, or off the list: nothing needs to move.
LastOrOff(d) ==
    /\ \A p \in Posts : ~Moves(d, p)
    /\ slot[call[d].post] # 0 => \A p \in Pinned : slot[p] <= slot[call[d].post]

\* What a call that nobody has crossed can count on when it commits.
Sound(d) ==
    /\ call[d].post \in live
    /\ call[d].kind = "pin" \/ call[d].saw = 0 => slot[call[d].post] = 0
    /\ call[d].kind # "pin" /\ call[d].saw # 0 => Filled(call[d].saw) /\ Behind(d)
    /\ call[d].at = "listed" => InTime(d) \/ Blocked(d) \/ (call[d].kind # "pin" /\ LastOrOff(d))

\* A call that nobody has crossed.
Trusted(d) == call[d].at # "idle" /\ call[d].met # "crossed"

\* The inductive invariant: until calls cross and are both committed there is no gap, and the calls
\* under way are sound.
BoardInv ==
    /\ TypeOK /\ SlotsDistinct
    /\ ~raced => Gapless /\ \A d \in Calls : Trusted(d) => Sound(d)

(* What a commit makes of the rows that readers see. *)

PinStep(p) ==
    /\ p \in live /\ slot[p] = 0 /\ live' = live /\ slot'[p] = 1
    /\ \A q \in live : q # p => slot'[q] = IF slot[q] = 0 THEN 0 ELSE PushedDown(slot[q])

LeaveStep(p) ==
    /\ p \in live /\ slot[p] # 0 /\ live' \in {live, live \ {p}} /\ slot'[p] = 0
    /\ \A q \in live : q # p => slot'[q] = IF slot[q] > slot[p] THEN slot[q] - 1 ELSE slot[q]

StillStep(p) ==
    /\ p \in live /\ slot[p] = 0 /\ live' \in {live, live \ {p}}
    /\ \A q \in live : slot'[q] = slot[q]

LEMMA BlockedRefused ==
    ASSUME TypeOK, NEW c \in Calls, Blocked(c) PROVE ~Accepted(c)
<1>1. PICK y \in live :
        /\ IF y = call[c].post THEN call[c].kind = "pin" ELSE Moves(c, y)
        /\ Target(c, y) \in 1 .. Slots /\ Filled(Target(c, y))
        /\ \A z \in Pinned : slot[z] <= Target(c, y) => ~Writes(c, z)
  BY DEF Blocked
<1>2. PICK z \in Pinned : slot[z] = Target(c, y)
  BY <1>1 DEF Filled
<1>3. ~Writes(c, z) /\ z \in live /\ slot[z] # 0
  BY <1>1, <1>2 DEF Pinned
<1>4. y # z
  BY <1>1, <1>3 DEF Writes
<1>5. live \subseteq Posts
  BY DEF TypeOK
<1>6. Done(c)[y] = Target(c, y)
  BY <1>1, <1>5 DEF Done, Target
<1>7. Done(c)[z] = slot[z]
  BY <1>3, <1>5 DEF Done, Writes
<1> QED BY <1>2, <1>3, <1>4, <1>6, <1>7 DEF Accepted, OnePerSlot, Indexed

\* A filled slot has only filled ones before it.
LEMMA FilledBelow ==
    ASSUME Gapless, NEW i \in 1 .. Slots, Filled(i), NEW j \in 1 .. i PROVE Filled(j)
BY SlotsAssumption DEF Gapless, Long

\* A commit that the index accepts is a pin, a leave or nothing at all to the readers, although it was
\* decided by rows that others may have changed since.
LEMMA CommitSteps ==
    ASSUME BoardInv, NEW c \in Calls, Commit(c), ~raced'
    PROVE  /\ call[c].kind = "pin" => PinStep(call[c].post)
           /\ call[c].kind # "pin" /\ call[c].saw = 0 => StillStep(call[c].post)
           /\ call[c].kind # "pin" => LeaveStep(call[c].post) \/ StillStep(call[c].post)
<1> DEFINE p == call[c].post
<1> DEFINE saw == call[c].saw
<1>0. ~raced /\ call[c].at = "listed" /\ call[c].met # "crossed" /\ slot' = Done(c) /\ Accepted(c)
  BY DEF Commit, BoardInv, TypeOK
<1>1. Sound(c) /\ Gapless /\ TypeOK /\ SlotsDistinct
  BY <1>0 DEF BoardInv, Trusted
<1>2. InTime(c) \/ (call[c].kind # "pin" /\ LastOrOff(c))
  BY <1>0, <1>1, BlockedRefused DEF Sound
<1>3. /\ slot \in [Posts -> 0 .. Slots] /\ live \subseteq Posts /\ p \in live /\ saw \in 0 .. Slots
      /\ call[c].list \in [Posts -> 0 .. Slots]
  BY <1>1 DEF TypeOK, Sound, Requests
<1>3a. \A q \in live : slot[q] \in 0 .. Slots
  BY <1>3
<1>4. CASE call[c].kind = "pin"
  <2>1. \A q \in live : call[c].list[q] = slot[q]
    BY <1>2, <1>3, <1>4 DEF InTime, Listed
  <2>2. slot'[p] = 1
    BY <1>0, <1>3, <1>4 DEF Done
  <2>3. \A q \in live : q # p => slot'[q] = IF slot[q] = 0 THEN 0 ELSE PushedDown(slot[q])
    BY <1>0, <1>3, <1>4, <2>1 DEF Done, Moves, MovesTo
  <2>4. slot[p] = 0
    BY <1>1, <1>4 DEF Sound
  <2>5. live' = live
    BY <1>4 DEF Commit
  <2> QED BY <1>3, <1>4, <2>2, <2>3, <2>4, <2>5 DEF PinStep
<1>5. CASE call[c].kind # "pin"
  <2>1. live' \in {live, live \ {p}} /\ slot'[p] = 0
    BY <1>0, <1>3, <1>5 DEF Commit, Done
  <2>2. CASE \A q \in Posts : ~Moves(c, q)
    <3>1. \A q \in live : q # p => slot'[q] = slot[q]
      BY <1>0, <1>3, <2>2 DEF Done
    <3>2. CASE slot[p] = 0
      BY <1>3, <1>5, <2>1, <3>1, <3>2 DEF StillStep
    <3>3. CASE slot[p] # 0
      <4>1. saw # 0
        BY <1>1, <3>3 DEF Sound
      <4>2. \A q \in live : q # p => slot[q] <= slot[p]
        <5>1. CASE LastOrOff(c)
          <6> SUFFICES ASSUME NEW q \in live PROVE slot[q] <= slot[p]
            OBVIOUS
          <6>1. CASE q \in Pinned
            BY <3>3, <5>1, <6>1 DEF LastOrOff
          <6>2. CASE q \notin Pinned
            BY <6>2, <1>3a, <1>3 DEF Pinned
          <6> QED BY <6>1, <6>2
        <5>2. CASE InTime(c)
          <6> SUFFICES ASSUME NEW q \in live, q # p PROVE slot[q] <= slot[p]
            OBVIOUS
          <6>1. slot[p] >= saw
            BY <1>1, <1>5, <3>3, <4>1 DEF Sound, Behind
          <6>2. call[c].list[q] = 0
            BY <2>2, <1>3 DEF Moves
          <6>3. ~(slot[q] > saw)
            <7>1. slot[q] \in 0 .. Slots
              BY <1>3a
            <7> QED BY <1>3, <1>5, <4>1, <5>2, <6>2, <7>1 DEF InTime, Listed, ListsBelow
          <6>4. slot[q] \in 0 .. Slots /\ slot[p] \in 0 .. Slots
            BY <1>3, <1>3a
          <6> QED BY <6>1, <6>3, <6>4, <1>3
        <5> QED BY <1>2, <5>1, <5>2
      <4>3. \A q \in live : q # p => slot'[q] = IF slot[q] > slot[p] THEN slot[q] - 1 ELSE slot[q]
        <5> SUFFICES ASSUME NEW q \in live, q # p, slot[q] > slot[p] PROVE FALSE
          BY <3>1
        <5>1. slot[q] \in 0 .. Slots /\ slot[p] \in 0 .. Slots
          BY <1>3, <1>3a
        <5> QED BY <4>2, <5>1
      <4> QED BY <1>3, <1>5, <2>1, <3>3, <4>1, <4>3 DEF LeaveStep
    <3> QED BY <3>2, <3>3
  <2>3. CASE \E q \in Posts : Moves(c, q)
    <3>1. InTime(c)
      BY <1>2, <2>3 DEF LastOrOff
    <3>2. saw # 0
      BY <1>5, <2>3, <3>1 DEF InTime, Listed, ListsBelow, Moves
    <3>3. \A q \in live : q # p => slot'[q] = IF slot[q] > saw THEN slot[q] - 1 ELSE slot[q]
      <4> SUFFICES ASSUME NEW q \in live, q # p
                   PROVE  slot'[q] = IF slot[q] > saw THEN slot[q] - 1 ELSE slot[q]
        OBVIOUS
      <4>1. call[c].list[q] = IF slot[q] > saw THEN slot[q] ELSE 0
        BY <1>3, <1>5, <3>1, <3>2 DEF InTime, Listed, ListsBelow
      <4>2. slot'[q] = IF call[c].list[q] # 0 THEN call[c].list[q] - 1 ELSE slot[q]
        BY <1>0, <1>3, <1>5 DEF Done, Moves, MovesTo
      <4>3. slot[q] \in 0 .. Slots
        BY <1>3a
      <4> QED BY <4>1, <4>2, <4>3, <1>3
    <3>4. Filled(saw) /\ Behind(c)
      BY <1>1, <1>5, <3>2 DEF Sound
    <3>5. PICK y \in live : y # p /\ slot[y] > saw
      <4>1. PICK q \in Posts : Moves(c, q)
        BY <2>3
      <4> QED BY <1>5, <3>1, <4>1 DEF InTime, Listed, ListsBelow, Moves
    \* A post just below the slot that was read would move onto another.
    <3>6. ASSUME NEW x \in live, x # p, slot[x] = saw + 1, slot[p] # saw PROVE FALSE
      <4>1. PICK z \in Pinned : slot[z] = saw
        BY <3>4 DEF Filled
      <4>2. z \in live /\ z # p /\ z # x
        BY <4>1, <3>6, <1>3 DEF Pinned
      <4>3. slot'[z] = saw
        BY <3>3, <4>1, <4>2, <1>3
      <4>4. slot'[x] = saw
        BY <3>3, <3>6, <1>3
      <4> QED BY <4>2, <4>3, <4>4, <3>2, <1>0 DEF Accepted, OnePerSlot, Indexed
    <3>7. slot[p] = saw \/ slot[p] = saw + 1
      <4> SUFFICES ASSUME slot[p] # saw, slot[p] # saw + 1 PROVE FALSE
        OBVIOUS
      <4>1. slot[y] \in 1 .. Slots /\ Filled(slot[y])
        BY <1>3, <1>3a, <3>5 DEF Filled, Pinned
      <4>2. Filled(saw + 1)
        BY <1>1, <1>3, <3>5, <4>1, FilledBelow
      <4>3. PICK x \in Pinned : slot[x] = saw + 1
        BY <4>2 DEF Filled
      <4> QED BY <3>6, <4>3 DEF Pinned
    <3>8. \A q \in live : q # p => slot'[q] = IF slot[q] > slot[p] THEN slot[q] - 1 ELSE slot[q]
      <4> SUFFICES ASSUME NEW q \in live, q # p
                   PROVE  slot'[q] = IF slot[q] > slot[p] THEN slot[q] - 1 ELSE slot[q]
        OBVIOUS
      <4>1. slot[q] \in 0 .. Slots /\ slot[p] \in 0 .. Slots
        BY <1>3, <1>3a
      <4>2. slot[q] # 0 => slot[q] # slot[p]
        BY <1>1, <1>3 DEF SlotsDistinct
      <4> QED BY <3>3, <3>7, <4>1, <4>2, <1>3
    <3>9. slot[p] # 0
      BY <1>3, <3>2, <3>7
    <3> QED BY <1>3, <1>5, <2>1, <3>2, <3>8, <3>9 DEF LeaveStep
  <2> QED BY <2>2, <2>3
<1> QED BY <1>4, <1>5

-----------------------------------------------------------------------------
(* No gap arises. *)

LEMMA PinLong ==
    ASSUME TypeOK, TypeOK', NEW p \in Posts, PinStep(p), NEW n, Long(n)
    PROVE  Long(IF n < Slots THEN n + 1 ELSE n)'
<1> DEFINE m == IF n < Slots THEN n + 1 ELSE n
<1>0. Slots \in Nat \ {0} /\ n \in 0 .. Slots /\ m \in 0 .. Slots
  BY SlotsAssumption DEF Long
<1>1. /\ \A q \in live : slot[q] \in 0 .. Slots /\ slot'[q] \in 0 .. Slots
      /\ live' = live /\ p \in live /\ slot[p] = 0 /\ slot'[p] = 1
  BY DEF TypeOK, PinStep
<1>2. ASSUME NEW i \in 1 .. Slots, i <= m PROVE Filled(i)'
  <2>1. CASE i = 1
    BY <1>1, <2>1 DEF Filled, Pinned
  <2>2. CASE i # 1
    <3>1. i - 1 \in 1 .. Slots /\ i - 1 <= n
      BY <1>0, <1>2, <2>2
    <3>2. PICK q \in Pinned : slot[q] = i - 1
      BY <3>1 DEF Long, Filled
    <3>3. q \in live /\ q # p /\ slot[q] # 0
      BY <3>2, <1>1 DEF Pinned
    <3>4. slot'[q] = i
      BY <3>2, <3>3, <1>0, <1>1 DEF PinStep, PushedDown
    <3> QED BY <1>1, <3>3, <3>4, <1>0 DEF Filled, Pinned
  <2> QED BY <2>1, <2>2
<1>3. ASSUME NEW i \in 1 .. Slots, Filled(i)' PROVE i <= m
  <2>1. PICK q \in Pinned' : slot'[q] = i
    BY <1>3 DEF Filled
  <2>2. q \in live
    BY <2>1, <1>1 DEF Pinned
  <2>3. CASE i = 1
    BY <1>0, <2>3
  <2>4. CASE i # 1
    <3>1. q # p
      BY <1>1, <2>1, <2>4
    <3>2. slot[q] = i - 1
      BY <3>1, <2>1, <2>2, <1>0, <1>1 DEF PinStep, PushedDown
    <3>3. i - 1 \in 1 .. Slots
      BY <1>0, <2>4
    <3>4. Filled(i - 1)
      BY <3>2, <3>3, <2>2 DEF Filled, Pinned
    <3> QED BY <3>3, <3>4, <1>0 DEF Long
  <2> QED BY <2>3, <2>4
<1>4. SlotsAssumption
  BY SlotsAssumption
<1> QED BY <1>0, <1>2, <1>3 DEF Long

LEMMA LeaveLong ==
    ASSUME TypeOK, TypeOK', SlotsDistinct, NEW p \in Posts, LeaveStep(p), NEW n, Long(n)
    PROVE  n # 0 /\ Long(n - 1)'
<1>0. Slots \in Nat \ {0} /\ n \in 0 .. Slots
  BY SlotsAssumption DEF Long
<1>1. /\ \A q \in live : slot[q] \in 0 .. Slots
      /\ live' \subseteq live /\ p \in live /\ slot[p] \in 1 .. Slots
      /\ \A q \in live : q # p => q \in live'
  BY SlotsAssumption DEF TypeOK, LeaveStep
<1>2. slot[p] <= n
  BY <1>1 DEF Long, Filled, Pinned
<1>3. n # 0 /\ n - 1 \in 0 .. Slots
  BY <1>0, <1>1, <1>2
<1>4. ASSUME NEW i \in 1 .. Slots, i <= n - 1 PROVE Filled(i)'
  <2>1. CASE i < slot[p]
    <3>1. PICK q \in Pinned : slot[q] = i
      BY <1>0, <1>4 DEF Long, Filled
    <3>2. q \in live /\ q # p
      BY <3>1, <2>1, <1>1 DEF Pinned
    <3>3. slot'[q] = i /\ q \in live'
      BY <3>1, <3>2, <2>1, <1>1 DEF LeaveStep
    <3> QED BY <3>3 DEF Filled, Pinned
  <2>2. CASE ~(i < slot[p])
    <3>1. i + 1 \in 1 .. Slots /\ i + 1 <= n
      BY <1>0, <1>4
    <3>2. PICK q \in Pinned : slot[q] = i + 1
      BY <3>1 DEF Long, Filled
    <3>3. q \in live /\ q # p
      BY <3>2, <2>2, <1>1 DEF Pinned
    <3>4. slot'[q] = i /\ q \in live'
      BY <3>2, <3>3, <2>2, <1>1 DEF LeaveStep
    <3> QED BY <3>4 DEF Filled, Pinned
  <2> QED BY <2>1, <2>2
<1>5. ASSUME NEW i \in 1 .. Slots, Filled(i)' PROVE i <= n - 1
  <2>1. PICK q \in Pinned' : slot'[q] = i
    BY <1>5 DEF Filled
  <2>2. q \in live /\ q # p
    BY <2>1, <1>1 DEF Pinned, LeaveStep
  <2>3. slot[q] \in 0 .. Slots /\ slot[q] # slot[p]
    BY <2>2, <1>1 DEF SlotsDistinct
  <2>4. slot[q] # 0
    BY <2>1, <2>2, <2>3, <1>1 DEF LeaveStep
  <2>5. slot[q] <= n
    BY <2>2, <2>3, <2>4 DEF Long, Filled, Pinned
  <2> QED BY <2>1, <2>2, <2>3, <2>5, <1>0, <1>1, <1>2 DEF LeaveStep
<1> QED BY <1>3, <1>4, <1>5 DEF Long

LEMMA StillPinned ==
    ASSUME NEW p, StillStep(p)
    PROVE  /\ Pinned' = Pinned /\ \A q \in Pinned : slot'[q] = slot[q]
           /\ \A i : Filled(i)' <=> Filled(i)
<1>1. Pinned' = Pinned
  BY DEF StillStep, Pinned
<1>2. \A q \in Pinned : slot'[q] = slot[q]
  BY DEF StillStep, Pinned
<1> QED BY <1>1, <1>2 DEF Filled

LEMMA CommitGapless ==
    ASSUME BoardInv, TypeOK', NEW c \in Calls, Commit(c), ~raced' PROVE Gapless'
<1> DEFINE p == call[c].post
<1>1. ~raced /\ Gapless /\ TypeOK /\ SlotsDistinct
  BY DEF Commit, BoardInv, TypeOK
<1>2. PICK n \in 0 .. Slots : Long(n)
  BY <1>1 DEF Gapless
<1>3. CASE PinStep(p)
  <2>1. p \in Posts
    BY <1>1, <1>3 DEF PinStep, TypeOK
  <2>2. Long(IF n < Slots THEN n + 1 ELSE n)'
    BY <1>1, <1>2, <1>3, <2>1, PinLong
  <2> QED BY <2>2 DEF Gapless, Long
<1>4. CASE LeaveStep(p)
  <2>1. p \in Posts
    BY <1>1, <1>4 DEF LeaveStep, TypeOK
  <2>2. Long(n - 1)'
    BY <1>1, <1>2, <1>4, <2>1, LeaveLong
  <2> QED BY <2>2 DEF Gapless, Long
<1>5. CASE StillStep(p)
  <2>1. Long(n)'
    BY <1>2, <1>5, StillPinned DEF Long
  <2> QED BY <2>1 DEF Gapless, Long
<1> QED BY <1>3, <1>4, <1>5, CommitSteps

-----------------------------------------------------------------------------
(* What a call counts on is kept by the calls that do not cross it. *)

LEMMA SoundKept ==
    ASSUME NEW d \in Calls, Sound(d), call'[d] = call[d], slot' = slot, live' = live
    PROVE  Sound(d)'
BY DEF Sound, InTime, Listed, ListsBelow, Blocked, Target, MovesTo, Moves, Writes, Filled, Pinned,
       Behind, LastOrOff

\* A call without the history of whom it met.
Asking(d) == <<call[d].at, call[d].kind, call[d].post, call[d].saw, call[d].list>>

LEMMA AsksTheSame ==
    ASSUME NEW d \in Calls, Asking(d)' = Asking(d)
    PROVE  /\ call'[d].at = call[d].at /\ call'[d].kind = call[d].kind /\ call'[d].post = call[d].post
           /\ call'[d].saw = call[d].saw /\ call'[d].list = call[d].list
           /\ \A q : /\ Moves(d, q)' <=> Moves(d, q)
                     /\ Writes(d, q)' <=> Writes(d, q)
                     /\ Target(d, q)' = Target(d, q)
BY DEF Asking, Moves, Writes, Target, MovesTo

\* Another call leaves the rows that readers see as they are.
LEMMA StillSound ==
    ASSUME TypeOK, NEW p \in Posts, StillStep(p), NEW d \in Calls, Sound(d), Asking(d)' = Asking(d),
           ~Writes(d, p)
    PROVE  Sound(d)'
<1> DEFINE post == call[d].post
<1>1. /\ post \in live /\ post # p /\ post \in live' /\ slot'[post] = slot[post]
      /\ live \subseteq Posts
  BY DEF Sound, StillStep, Writes, TypeOK
<1>2. call[d].kind = "pin" \/ call[d].saw = 0 => slot'[post] = 0
  BY <1>1 DEF Sound
<1>3. call[d].kind # "pin" /\ call[d].saw # 0 => Filled(call[d].saw)' /\ Behind(d)'
  BY <1>1, StillPinned, AsksTheSame DEF Sound, Behind
<1>4. CASE InTime(d)
  <2>1. Listed(d)' = Listed(d)
    <3>1. ASSUME NEW q \in Posts, q # p PROVE q \in live' <=> q \in live
      BY <3>1 DEF StillStep
    <3>2. ASSUME NEW q \in Posts PROVE Listed(d)'[q] = Listed(d)[q]
      <4>1. CASE q # p /\ q \in live
        <5>1. slot'[q] = slot[q] /\ q \in live'
          BY <3>1, <4>1 DEF StillStep
        <5> QED BY <4>1, <5>1, AsksTheSame DEF Listed, ListsBelow
      <4>2. CASE q # p /\ q \notin live
        BY <3>1, <4>2 DEF Listed
      <4>3. CASE q = p
        BY <4>3 DEF Listed, StillStep
      <4> QED BY <4>1, <4>2, <4>3
    <3> QED BY <3>2 DEF Listed
  <2>2. InTime(d)'
    BY <1>4, <2>1, AsksTheSame DEF InTime
  <2> QED BY <1>1, <1>2, <1>3, <2>2, AsksTheSame DEF Sound
<1>5. CASE Blocked(d)
  <2>1. PICK y \in live :
            /\ IF y = post THEN call[d].kind = "pin" ELSE Moves(d, y)
            /\ Target(d, y) \in 1 .. Slots /\ Filled(Target(d, y))
            /\ \A z \in Pinned : slot[z] <= Target(d, y) => ~Writes(d, z)
    BY <1>5 DEF Blocked
  <2>2. y # p
    BY <2>1 DEF Writes
  <2>3. y \in live'
    BY <2>2 DEF StillStep
  <2>4. \A z \in Pinned' : slot'[z] <= Target(d, y) => ~Writes(d, z)
    BY <2>1, StillPinned
  <2>5. Blocked(d)'
    BY <2>1, <2>3, <2>4, AsksTheSame, StillPinned DEF Blocked
  <2> QED BY <1>1, <1>2, <1>3, <2>5, AsksTheSame DEF Sound
<1>6. CASE LastOrOff(d) /\ call[d].kind # "pin"
  <2>1. LastOrOff(d)'
    BY <1>1, <1>6, AsksTheSame, StillPinned DEF LastOrOff
  <2> QED BY <1>1, <1>2, <1>3, <1>6, <2>1, AsksTheSame DEF Sound
<1>7. CASE call[d].at # "listed"
  BY <1>1, <1>2, <1>3, <1>7, AsksTheSame DEF Sound
<1> QED BY <1>4, <1>5, <1>6, <1>7 DEF Sound

LEMMA PinFilled ==
    ASSUME TypeOK, TypeOK', Gapless, NEW p \in Posts, PinStep(p), NEW i \in 1 .. Slots, Filled(i)
    PROVE  Filled(i)'
<1>1. PICK n \in 0 .. Slots : Long(n)
  BY DEF Gapless
<1>2. Long(IF n < Slots THEN n + 1 ELSE n)'
  BY <1>1, PinLong
<1>3. i <= n
  BY <1>1 DEF Long
<1> QED BY <1>2, <1>3, SlotsAssumption DEF Long

\* A pin takes no slot from a call that is too late, and fills none with a row that it writes.
LEMMA PinBlocked ==
    ASSUME TypeOK, TypeOK', Gapless, NEW p \in Posts, PinStep(p), NEW d \in Calls,
           Asking(d)' = Asking(d), ~Writes(d, p), Blocked(d)
    PROVE  Blocked(d)'
<1>1. PICK y \in live :
          /\ IF y = call[d].post THEN call[d].kind = "pin" ELSE Moves(d, y)
          /\ Target(d, y) \in 1 .. Slots /\ Filled(Target(d, y))
          /\ \A z \in Pinned : slot[z] <= Target(d, y) => ~Writes(d, z)
  BY DEF Blocked
<1>2. y \in live' /\ Filled(Target(d, y))'
  BY <1>1, PinFilled, AsksTheSame DEF PinStep
<1>3. ASSUME NEW z \in Pinned', slot'[z] <= Target(d, y) PROVE ~Writes(d, z)
  <2>1. CASE z = p
    BY <2>1
  <2>2. CASE z # p
    <3>1. z \in live /\ slot[z] \in 0 .. Slots /\ slot'[z] = IF slot[z] = 0 THEN 0 ELSE PushedDown(slot[z])
      BY <1>3, <2>2 DEF Pinned, PinStep, TypeOK
    <3>2. slot[z] # 0 /\ slot[z] <= Target(d, y)
      BY <3>1, <1>1, <1>3, SlotsAssumption DEF Pinned, PushedDown
    <3> QED BY <1>1, <3>1, <3>2 DEF Pinned
  <2> QED BY <2>1, <2>2
<1>4. Target(d, y)' = Target(d, y)
  BY AsksTheSame
<1> QED BY <1>1, <1>2, <1>3, <1>4, AsksTheSame DEF Blocked

\* A pin overtakes an unpinning that has listed the posts below: the first of these, moved up, would
\* meet a post that is not moved.
LEMMA PinBlocksLeave ==
    ASSUME TypeOK, TypeOK', SlotsDistinct, Gapless, NEW p \in Posts, PinStep(p), NEW d \in Calls,
           Asking(d)' = Asking(d), ~Writes(d, p), Sound(d), call[d].kind # "pin", InTime(d),
           NEW x \in Posts, Moves(d, x)
    PROVE  Blocked(d)'
<1> DEFINE post == call[d].post
<1> DEFINE saw == call[d].saw
<1>1. /\ slot \in [Posts -> 0 .. Slots] /\ live \subseteq Posts /\ saw \in 0 .. Slots
      /\ post \in live /\ Slots \in Nat \ {0}
  BY SlotsAssumption DEF TypeOK, Sound, Requests
<1>2. \A q \in Posts : Moves(d, q) <=> q \in live /\ q # post /\ saw # 0 /\ slot[q] > saw
  BY <1>1 DEF InTime, Moves, Listed, ListsBelow
<1>3. \A q \in Posts : Moves(d, q) => call[d].list[q] = slot[q]
  BY <1>2 DEF InTime, Listed, ListsBelow
<1>4. x \in live /\ x # post /\ slot[x] > saw /\ saw # 0
  BY <1>2
<1>4a. slot[x] \in 1 .. Slots /\ slot[post] \in 0 .. Slots
  BY <1>1, <1>4
<1>5. Filled(slot[x])
  BY <1>1, <1>4 DEF Filled, Pinned
<1>6. slot[post] = 0 \/ slot[post] >= saw
  BY <1>4 DEF Sound, Behind
\* The first listed post that is to move, and where to.
<1>7. PICK y \in live : y # post /\ slot[y] > saw /\ slot[y] <= slot[x]
                        /\ \A z \in Pinned : slot[z] + 1 < slot[y] => z # post /\ slot[z] <= saw
  <2>1. CASE slot[post] # saw + 1
    <3>1. Filled(saw + 1)
      BY <1>1, <1>4, <1>4a, <1>5, FilledBelow
    <3>2. PICK y \in Pinned : slot[y] = saw + 1
      BY <3>1 DEF Filled
    <3>3. y \in live /\ y # post /\ slot[y] > saw /\ slot[y] <= slot[x]
      BY <2>1, <3>2, <1>1, <1>4, <1>4a DEF Pinned
    <3>4. ASSUME NEW z \in Pinned, slot[z] + 1 < slot[y] PROVE z # post /\ slot[z] <= saw
      <4>1. slot[z] \in 1 .. Slots
        BY <1>1 DEF Pinned
      <4> QED BY <4>1, <3>2, <3>4, <1>1, <1>6
    <3> QED BY <3>3, <3>4
  <2>2. CASE slot[post] = saw + 1
    <3>0. slot[x] # saw + 1
      BY <1>1, <1>4, <2>2 DEF SlotsDistinct
    <3>1. Filled(saw + 2)
      BY <3>0, <1>1, <1>4, <1>4a, <1>5, FilledBelow
    <3>2. PICK y \in Pinned : slot[y] = saw + 2
      BY <3>1 DEF Filled
    <3>3. y \in live /\ y # post /\ slot[y] > saw /\ slot[y] <= slot[x]
      BY <2>2, <3>0, <3>2, <1>1, <1>4, <1>4a DEF Pinned
    <3>4. ASSUME NEW z \in Pinned, slot[z] + 1 < slot[y] PROVE z # post /\ slot[z] <= saw
      <4>1. slot[z] \in 1 .. Slots
        BY <1>1 DEF Pinned
      <4> QED BY <4>1, <2>2, <3>2, <3>4, <1>1
    <3> QED BY <3>3, <3>4
  <2> QED BY <2>1, <2>2
<1>8. /\ Moves(d, y) /\ call[d].list[y] = slot[y] /\ y \in Posts /\ slot[y] \in 1 .. Slots
  BY <1>1, <1>2, <1>3, <1>4, <1>7
<1>9. PICK t \in 1 .. Slots : t = slot[y] - 1
  <2>1. slot[y] - 1 \in 1 .. Slots
    BY <1>1, <1>4, <1>7, <1>8
  <2> QED BY <2>1
<1>10. Filled(t)'
  <2>1. t \in 1 .. slot[y]
    BY <1>8, <1>9
  <2>2. Filled(slot[y])
    BY <1>7, <1>8 DEF Filled, Pinned
  <2>3. Filled(t)
    BY <1>8, <2>1, <2>2, FilledBelow
  <2> QED BY <2>3, PinFilled
<1>11. Target(d, y) = t
  BY <1>7, <1>8, <1>9 DEF Target, MovesTo
<1>12. ASSUME NEW z \in Pinned', slot'[z] <= t PROVE ~Writes(d, z)
  <2>1. CASE z = p
    BY <2>1
  <2>2. CASE z # p
    <3>1. z \in live /\ slot[z] \in 0 .. Slots /\ slot'[z] = IF slot[z] = 0 THEN 0 ELSE PushedDown(slot[z])
      BY <1>12, <2>2 DEF Pinned, PinStep, TypeOK
    <3>2. slot[z] # 0 /\ slot[z] + 1 < slot[y]
      BY <3>1, <1>1, <1>8, <1>9, <1>12 DEF Pinned, PushedDown
    <3>3. z # post /\ slot[z] <= saw
      BY <1>7, <3>1, <3>2 DEF Pinned
    <3>4. ~Moves(d, z)
      BY <1>1, <1>2, <3>1, <3>3
    <3> QED BY <3>3, <3>4 DEF Writes
  <2> QED BY <2>1, <2>2
<1>13. y \in live'
  BY DEF PinStep
<1>14. Target(d, y)' = t /\ Moves(d, y)' /\ y # call'[d].post
  BY <1>7, <1>8, <1>11, AsksTheSame
<1>15. \A z \in Pinned' : slot'[z] <= Target(d, y)' => ~Writes(d, z)'
  BY <1>12, <1>14, AsksTheSame
<1>16. Target(d, y)' \in 1 .. Slots /\ Filled(Target(d, y))'
  BY <1>10, <1>14
<1> QED BY <1>13, <1>14, <1>15, <1>16 DEF Blocked

\* A pin overtakes a call: a pin becomes late, since both want the first slot, and an unpinning becomes
\* late or has nothing to move.
LEMMA PinSound ==
    ASSUME TypeOK, TypeOK', SlotsDistinct, Gapless, NEW p \in Posts, PinStep(p), NEW d \in Calls,
           Asking(d)' = Asking(d), ~Writes(d, p), Sound(d)
    PROVE  Sound(d)'
<1> DEFINE post == call[d].post
<1> DEFINE saw == call[d].saw
<1>1. /\ post \in live' /\ post # p /\ live \subseteq Posts /\ slot \in [Posts -> 0 .. Slots]
      /\ slot'[post] = IF slot[post] = 0 THEN 0 ELSE PushedDown(slot[post])
      /\ Slots \in Nat \ {0} /\ slot[post] \in 0 .. Slots /\ saw \in 0 .. Slots
      /\ live' = live
  BY SlotsAssumption DEF TypeOK, Sound, PinStep, Writes, Requests
<1>2. call[d].kind = "pin" \/ saw = 0 => slot'[post] = 0
  BY <1>1 DEF Sound
<1>3. call[d].kind # "pin" /\ saw # 0 => Filled(saw)' /\ Behind(d)'
  <2> SUFFICES ASSUME call[d].kind # "pin", saw # 0 PROVE Filled(saw)' /\ Behind(d)'
    OBVIOUS
  <2>1. PICK i \in 1 .. Slots : i = saw
    BY <1>1
  <2>2. Filled(i)'
    <3>1. Filled(i)
      BY <2>1 DEF Sound
    <3> QED BY <3>1, PinFilled
  <2>3. call'[d].saw = i /\ call'[d].post = post
    BY <2>1, AsksTheSame
  <2>4. CASE slot[post] = 0
    <3>1. Filled(Slots)
      BY <1>1, <2>1, <2>4 DEF Sound, Behind
    <3>2. Filled(Slots)'
      BY <1>1, <3>1, PinFilled
    <3>3. slot'[call'[d].post] = 0
      BY <1>1, <2>3, <2>4
    <3> QED BY <2>1, <2>2, <2>3, <3>2, <3>3, AsksTheSame DEF Behind
  <2>5. CASE slot[post] # 0 /\ slot[post] < Slots
    <3>1. slot[post] >= saw
      BY <2>5 DEF Sound, Behind
    <3>2. slot'[call'[d].post] >= i
      BY <1>1, <2>1, <2>3, <2>5, <3>1 DEF PushedDown
    <3> QED BY <2>1, <2>2, <2>3, <3>2, AsksTheSame DEF Behind
  <2>6. CASE slot[post] = Slots
    <3>1. Filled(Slots)
      BY <1>1, <2>6 DEF Filled, Pinned, Sound
    <3>2. Filled(Slots)'
      BY <1>1, <3>1, PinFilled
    <3>3. slot'[call'[d].post] = 0
      BY <1>1, <2>3, <2>6 DEF PushedDown
    <3> QED BY <2>1, <2>2, <2>3, <3>2, <3>3, AsksTheSame DEF Behind
  <2> QED BY <1>1, <2>4, <2>5, <2>6
<1>4. /\ call'[d].post \in live'
      /\ call'[d].kind = "pin" \/ call'[d].saw = 0 => slot'[call'[d].post] = 0
      /\ call'[d].kind # "pin" /\ call'[d].saw # 0 => Filled(call[d].saw)' /\ Behind(d)'
  BY <1>1, <1>2, <1>3, AsksTheSame
<1>5. CASE call[d].at # "listed"
  BY <1>4, <1>5, AsksTheSame DEF Sound
<1>6. CASE Blocked(d)
  BY <1>4, <1>6, PinBlocked DEF Sound
<1>7. CASE LastOrOff(d) /\ call[d].kind # "pin"
  <2>1. \A q \in Posts : ~Moves(d, q)'
    BY <1>7, AsksTheSame DEF LastOrOff
  <2>2. ASSUME slot'[post] # 0, NEW q \in Pinned' PROVE slot'[q] <= slot'[post]
    <3>0. slot[post] # 0
      BY <1>1, <2>2
    <3>1. q \in live /\ slot[q] \in 0 .. Slots
      BY <1>1, <2>2 DEF Pinned
    <3>2. CASE q = p
      BY <1>1, <2>2, <3>2, <3>0 DEF PinStep, PushedDown
    <3>3. CASE q # p
      <4>1. slot'[q] = (IF slot[q] = 0 THEN 0 ELSE PushedDown(slot[q])) /\ slot'[q] # 0
        BY <2>2, <3>1, <3>3 DEF PinStep, Pinned
      <4>2. slot[q] <= slot[post]
        BY <1>7, <3>0, <3>1, <4>1 DEF LastOrOff, Pinned
      <4> QED BY <1>1, <2>2, <3>0, <3>1, <4>1, <4>2 DEF PushedDown
    <3> QED BY <3>2, <3>3
  <2>3. LastOrOff(d)'
    BY <2>1, <2>2, AsksTheSame DEF LastOrOff
  <2> QED BY <1>4, <1>7, <2>3, AsksTheSame DEF Sound
<1>8. CASE InTime(d) /\ call[d].kind = "pin"
  <2>1. Target(d, post) = 1 /\ Target(d, post)' = 1
    BY AsksTheSame DEF Target
  <2>2. \A z \in Pinned' : slot'[z] <= 1 => z = p
    <3> SUFFICES ASSUME NEW z \in Pinned', slot'[z] <= 1, z # p PROVE FALSE
      OBVIOUS
    <3>1. /\ z \in live /\ slot[z] \in 0 .. Slots /\ slot'[z] # 0
          /\ slot'[z] = IF slot[z] = 0 THEN 0 ELSE PushedDown(slot[z])
      BY <1>1 DEF Pinned, PinStep
    <3> QED BY <1>1, <3>1 DEF PushedDown
  <2>3. \E z \in Pinned' : slot'[z] = 1
    BY DEF PinStep, Pinned
  <2>4. post \in live' /\ post = call'[d].post /\ call'[d].kind = "pin" /\ ~Writes(d, p)'
    BY <1>1, <1>8, AsksTheSame
  <2>5. Blocked(d)'
    BY <1>1, <2>1, <2>2, <2>3, <2>4 DEF Blocked, Filled
  <2> QED BY <1>4, <2>5, AsksTheSame DEF Sound
<1>9. CASE InTime(d) /\ call[d].kind # "pin"
  <2>1. CASE \E q \in Posts : Moves(d, q)
    BY <1>4, <1>9, <2>1, PinBlocksLeave DEF Sound
  <2>2. CASE ~\E q \in Posts : Moves(d, q)
    <3>1. \A q \in Posts : ~Moves(d, q)'
      BY <2>2, AsksTheSame
    <3>2. ASSUME slot'[post] # 0, NEW q \in Pinned' PROVE slot'[q] <= slot'[post]
      <4>0. slot[post] # 0 /\ saw # 0 /\ slot[post] >= saw
        BY <1>1, <1>2, <1>9, <3>2 DEF Sound, Behind
      <4>1. q \in live /\ slot[q] \in 0 .. Slots
        BY <1>1, <3>2 DEF Pinned
      <4>2. CASE q = p
        BY <1>1, <3>2, <4>2, <4>0 DEF PinStep, PushedDown
      <4>3. CASE q # p /\ q # post
        <5>1. slot'[q] = (IF slot[q] = 0 THEN 0 ELSE PushedDown(slot[q])) /\ slot'[q] # 0
          BY <3>2, <4>1, <4>3 DEF PinStep, Pinned
        <5>2. ~(slot[q] > saw)
          BY <1>1, <1>9, <2>2, <4>0, <4>1, <4>3 DEF InTime, Moves, Listed, ListsBelow
        <5> QED BY <1>1, <3>2, <4>0, <4>1, <5>1, <5>2 DEF PushedDown
      <4>4. CASE q = post
        BY <1>1, <4>4 DEF PushedDown
      <4> QED BY <4>2, <4>3, <4>4
    <3>3. LastOrOff(d)'
      BY <3>1, <3>2, AsksTheSame DEF LastOrOff
    <3> QED BY <1>4, <1>9, <3>3, AsksTheSame DEF Sound
  <2> QED BY <2>1, <2>2
<1> QED BY <1>5, <1>6, <1>7, <1>8, <1>9 DEF Sound

LEMMA CommitSound ==
    ASSUME BoardInv, TypeOK', NEW c \in Calls, Commit(c), ~raced', NEW d \in Calls, Trusted(d)'
    PROVE  Sound(d)'
<1> DEFINE p == call[c].post
<1>1. /\ ~raced /\ Gapless /\ TypeOK /\ SlotsDistinct /\ call[d] \in Requests
      /\ Met(c, d) \in {"nobody", "harmless", "crossed"}
  BY DEF Commit, BoardInv, TypeOK, Met, Requests
<1>2. d # c
  BY DEF Trusted, Commit, NoCall
<1>3. call'[d] = [call[d] EXCEPT !.met = Met(c, d)]
  BY <1>2 DEF Commit
<1>4. Asking(d)' = Asking(d) /\ call'[d].met = Met(c, d)
  BY <1>1, <1>3 DEF Asking, Requests
<1>5. call[d].at # "idle" /\ ~Crosses(c, d) /\ call[d].met # "crossed"
  BY <1>4, AsksTheSame DEF Trusted, Met
<1>6. Sound(d)
  BY <1>1, <1>5 DEF BoardInv, Trusted
<1>7. ~Writes(d, p)
  BY <1>5 DEF Crosses
<1>8. ASSUME PinStep(p) PROVE Sound(d)'
  <2>1. p \in Posts
    BY <1>1, <1>8 DEF PinStep, TypeOK
  <2> QED BY <1>1, <1>4, <1>6, <1>7, <1>8, <2>1, PinSound
<1>9. ASSUME StillStep(p) PROVE Sound(d)'
  <2>1. p \in Posts
    BY <1>1, <1>9 DEF StillStep, TypeOK
  <2> QED BY <1>1, <1>4, <1>6, <1>7, <1>9, <2>1, StillSound
<1>10. ASSUME LeaveStep(p), call[d].kind = "pin", call[d].at = "read" PROVE Sound(d)'
  <2> DEFINE post == call[d].post
  <2>1. post \in live /\ slot[post] = 0 /\ post # p
    BY <1>6, <1>7, <1>10 DEF Sound, Writes
  <2>2. slot[p] \in 0 .. Slots
    BY <1>1, <1>10 DEF TypeOK, LeaveStep
  <2>3. post \in live' /\ slot'[post] = 0
    BY <1>10, <2>1, <2>2, SlotsAssumption DEF LeaveStep
  <2> QED BY <1>4, <1>10, <2>3, AsksTheSame DEF Sound
<1>11. CASE call[c].kind = "pin"
  BY <1>8, <1>11, CommitSteps
<1>12. CASE call[c].kind # "pin" /\ call[c].saw = 0
  BY <1>9, <1>12, CommitSteps
<1>13. CASE call[c].kind # "pin" /\ call[c].saw # 0
  BY <1>5, <1>9, <1>10, <1>13, CommitSteps DEF Crosses
<1> QED BY <1>11, <1>12, <1>13

LEMMA NextBoard == BoardInv /\ [Next]_vars => BoardInv'
<1> SUFFICES ASSUME BoardInv, [Next]_vars PROVE BoardInv'
  OBVIOUS
<1>1. TypeOK /\ SlotsDistinct /\ TypeOK' /\ SlotsDistinct'
  BY NextTypes, NextDistinct DEF BoardInv
<1>2. ASSUME NEW c \in Calls, Commit(c) PROVE BoardInv'
  BY <1>1, <1>2, CommitGapless, CommitSound DEF BoardInv
\* A step that leaves the rows alone changes at most one call.
<1>3. ASSUME UNCHANGED <<slot, live, raced>>,
             \A d \in Calls : Trusted(d)' /\ ~raced => call'[d] = call[d] \/ Sound(d)'
      PROVE  BoardInv'
  <2> SUFFICES ASSUME ~raced' PROVE Gapless' /\ \A d \in Calls : Trusted(d)' => Sound(d)'
    BY <1>1 DEF BoardInv
  <2>1. ~raced /\ Gapless
    BY <1>3 DEF BoardInv
  <2>2. Gapless'
    BY <1>3, <2>1 DEF Gapless, Long, Filled, Pinned
  <2>3. ASSUME NEW d \in Calls, Trusted(d)' PROVE Sound(d)'
    <3>1. CASE call'[d] = call[d]
      <4>1. Sound(d)
        BY <2>1, <2>3, <3>1 DEF BoardInv, Trusted
      <4> QED BY <1>3, <3>1, <4>1, SoundKept
    <3> QED BY <1>3, <2>1, <2>3, <3>1
  <2> QED BY <2>2, <2>3
<1>4. ASSUME NEW c \in Calls, NEW p \in Posts, ReadPost(c, p) PROVE BoardInv'
  <2>1. PICK kind \in {IF slot[p] = 0 THEN "pin" ELSE "unpin", "delete"} :
           Call(c, [NoCall EXCEPT !.at = "read", !.kind = kind, !.post = p, !.saw = slot[p]])
    BY <1>4 DEF ReadPost
  <2>2. /\ call'[c].at = "read" /\ call'[c].kind = kind /\ call'[c].post = p /\ call'[c].saw = slot[p]
    BY <1>1, <2>1 DEF Call, NoCall, TypeOK
  <2>3. slot' = slot /\ live' = live /\ raced' = raced /\ p \in live /\ slot[p] \in 0 .. Slots
    BY <1>1, <1>4 DEF ReadPost, TypeOK
  <2>4. Sound(c)'
    <3>1. kind = "pin" \/ slot[p] = 0 => slot[p] = 0
      BY <2>1
    <3>2. slot[p] # 0 => Filled(call[c].saw)'
      BY <2>2, <2>3 DEF Filled, Pinned
    <3>3. Behind(c)'
      BY <2>2, <2>3, SlotsAssumption DEF Behind
    <3> QED BY <2>2, <2>3, <3>1, <3>2, <3>3 DEF Sound
  <2>5. \A d \in Calls : d # c => call'[d] = call[d]
    BY <2>1 DEF Call, TypeOK
  <2> QED BY <1>3, <2>3, <2>4, <2>5
<1>5. ASSUME NEW c \in Calls, ListPinned(c) PROVE BoardInv'
  <2>0. call[c] \in Requests /\ call[c].at = "read"
    BY <1>1, <1>5 DEF ListPinned, TypeOK
  <2>1. call'[c] = [call[c] EXCEPT !.at = "listed", !.list = Listed(c)]
    BY <1>1, <1>5 DEF ListPinned, Call, TypeOK
  <2>2. /\ call'[c].at = "listed" /\ call'[c].list = Listed(c) /\ call'[c].kind = call[c].kind
        /\ call'[c].post = call[c].post /\ call'[c].saw = call[c].saw /\ call'[c].met = call[c].met
    BY <2>0, <2>1 DEF Requests
  <2>3. slot' = slot /\ live' = live /\ raced' = raced
    BY <1>5 DEF ListPinned
  <2>4. InTime(c)'
    BY <2>2, <2>3 DEF InTime, Listed, ListsBelow
  <2>5. Trusted(c)' /\ ~raced => Sound(c)'
    <3> SUFFICES ASSUME Trusted(c)', ~raced PROVE Sound(c)'
      OBVIOUS
    <3>1. Sound(c)
      BY <2>0, <2>2 DEF BoardInv, Trusted
    <3> QED BY <2>2, <2>3, <2>4, <3>1 DEF Sound, Filled, Pinned, Behind
  <2>6. \A d \in Calls : d # c => call'[d] = call[d]
    BY <1>5 DEF ListPinned, Call, TypeOK
  <2> QED BY <1>3, <2>3, <2>5, <2>6
<1>6. ASSUME NEW c \in Calls, Fails(c) PROVE BoardInv'
  <2>1. slot' = slot /\ live' = live /\ raced' = raced
    BY <1>6 DEF Fails
  <2>2. call'[c].at = "idle" /\ \A d \in Calls : d # c => call'[d] = call[d]
    BY <1>1, <1>6 DEF Fails, Call, NoCall, TypeOK
  <2> QED BY <1>3, <2>1, <2>2 DEF Trusted
<1>7. CASE UNCHANGED vars
  BY <1>3, <1>7 DEF vars
<1> QED BY <1>2, <1>4, <1>5, <1>6, <1>7 DEF Next

LEMMA InitBoard == Init => BoardInv
<1> SUFFICES ASSUME Init PROVE BoardInv
  OBVIOUS
<1>1. TypeOK /\ SlotsDistinct
  BY InitTypes, InitDistinct
<1>2. Pinned = {}
  BY DEF Init, Nobody, Pinned
<1>3. Long(0)
  BY <1>2, SlotsAssumption DEF Long, Filled
<1>4. \A d \in Calls : ~Trusted(d)
  BY DEF Init, Trusted, NoCall
<1> QED BY <1>1, <1>3, <1>4, SlotsAssumption DEF BoardInv, Gapless

\* Until calls cross there is no gap in the slots.
THEOREM BoardInvHolds == Spec => []BoardInv
<1> QED BY InitBoard, NextBoard, PTL DEF Spec

-----------------------------------------------------------------------------
(* The list that readers see is the list that is promised. *)

\* The list has n posts, each at the place of its slot.
Shows(n) ==
    /\ Shown \in Seq(Posts) /\ Len(Shown) = n
    /\ \A i \in 1 .. n : Shown[i] \in Pinned /\ slot[Shown[i]] = i
    /\ \A p \in Pinned : slot[p] \in 1 .. n /\ Shown[slot[p]] = p

ShowsLong == \A n \in 0 .. Slots : Long(n) => Shows(n)

LEMMA ShownIs == TypeOK /\ SlotsDistinct => ShowsLong
<1> SUFFICES ASSUME TypeOK, SlotsDistinct, NEW n \in 0 .. Slots, Long(n) PROVE Shows(n)
  BY DEF ShowsLong
<1> DEFINE At(i) == CHOOSE p \in Pinned : slot[p] = i
<1> DEFINE f == [i \in 1 .. n |-> At(i)]
<1>0. n \in Nat /\ Slots \in Nat /\ n <= Slots /\ Pinned \subseteq Posts
  BY SlotsAssumption DEF Long, Pinned, TypeOK
<1>1. ASSUME NEW i \in 1 .. n PROVE At(i) \in Pinned /\ slot[At(i)] = i
  <2>1. i \in 1 .. Slots
    BY <1>0
  <2>2. Filled(i)
    BY <2>1 DEF Long
  <2>3. \E p \in Pinned : slot[p] = i
    BY <2>2 DEF Filled
  <2> QED BY <2>3
<1>2. ASSUME NEW p \in Pinned PROVE slot[p] \in 1 .. n /\ f[slot[p]] = p
  <2>1. slot[p] \in 1 .. Slots
    BY DEF Pinned, TypeOK
  <2>2. slot[p] \in 1 .. n
    BY <2>1, <1>0 DEF Long, Filled
  <2>3. At(slot[p]) \in Pinned /\ slot[At(slot[p])] = slot[p]
    BY <2>2, <1>1
  <2>4. At(slot[p]) = p
    BY <2>3 DEF SlotsDistinct, Pinned
  <2> QED BY <2>2, <2>4
<1>3. f \in Bijection(1 .. n, Pinned)
  <2>1. f \in [1 .. n -> Pinned]
    BY <1>1
  <2>2. \A i, j \in 1 .. n : f[i] = f[j] => i = j
    <3> SUFFICES ASSUME NEW i \in 1 .. n, NEW j \in 1 .. n, f[i] = f[j] PROVE i = j
      OBVIOUS
    <3>1. f[i] = At(i) /\ f[j] = At(j)
      OBVIOUS
    <3>2. slot[At(i)] = i /\ slot[At(j)] = j
      BY <1>1
    <3> HIDE DEF f, At
    <3> QED BY <3>1, <3>2
  <2>3. \A p \in Pinned : \E i \in 1 .. n : f[i] = p
    BY <1>2
  <2> HIDE DEF f
  <2> QED BY <2>1, <2>2, <2>3, Fun_IsBij
<1>4. Cardinality(Pinned) = n
  BY <1>0, <1>3, FS_CountingElements DEF ExistsBijection
<1>5. Shown = f
  BY <1>4 DEF Shown
<1>6. f \in Seq(Posts) /\ Len(f) = n
  <2>1. f \in [1 .. n -> Posts]
    BY <1>0, <1>1
  <2> QED BY <1>0, <2>1
<1>7. \A i \in 1 .. n : f[i] \in Pinned /\ slot[f[i]] = i
  BY <1>1
<1> HIDE DEF f
<1> QED BY <1>2, <1>5, <1>6, <1>7 DEF Shows

LEMMA ShownThen == TypeOK' /\ SlotsDistinct' => ShowsLong'
<1> QED BY ShownIs, PTL

\* A pinned post goes to the head of the list, and what is beyond the last slot falls off.
LEMMA PinShows ==
    ASSUME TypeOK, TypeOK', SlotsDistinct, SlotsDistinct', NEW p \in Posts, PinStep(p), NEW n, Long(n)
    PROVE  /\ \A i \in 1 .. Len(Shown) : Shown[i] # p
           /\ Shown' = SubSeq(<<p>> \o Shown, 1,
                              IF Len(<<p>> \o Shown) < Slots THEN Len(<<p>> \o Shown) ELSE Slots)
<1>0. n \in Nat /\ Slots \in Nat \ {0} /\ n <= Slots
  BY SlotsAssumption DEF Long
<1>1. PICK m : m = IF n < Slots THEN n + 1 ELSE n
  OBVIOUS
<1>2. Long(m)'
  BY <1>1, PinLong
<1>3. /\ Shown \in Seq(Posts) /\ Len(Shown) = n
      /\ \A i \in 1 .. n : Shown[i] \in Pinned /\ slot[Shown[i]] = i
  BY ShownIs DEF ShowsLong, Shows, Long
<1>4. /\ Shown' \in Seq(Posts) /\ Len(Shown') = m
      /\ \A q \in Pinned' : slot'[q] \in 1 .. m /\ Shown'[slot'[q]] = q
  <2>1. m \in 0 .. Slots /\ ShowsLong'
    BY <1>0, <1>1, ShownThen
  <2>2. Shows(m)'
    BY <1>2, <2>1 DEF ShowsLong
  <2> QED BY <2>2 DEF Shows
<1> DEFINE all == <<p>> \o Shown
<1>5. /\ all \in Seq(Posts) /\ Len(all) = n + 1
      /\ \A i \in 1 .. n + 1 : all[i] = IF i = 1 THEN p ELSE Shown[i - 1]
  <2>1. <<p>> \in Seq(Posts) /\ Len(<<p>>) = 1 /\ <<p>>[1] = p
    OBVIOUS
  <2> QED BY <1>0, <1>3, <2>1, ConcatProperties
<1> DEFINE last == IF Len(all) < Slots THEN Len(all) ELSE Slots
<1>6. last = m /\ m \in Nat /\ m <= n + 1 /\ m <= Slots /\ m >= 1
  BY <1>0, <1>1, <1>5
<1>7. /\ SubSeq(all, 1, m) \in Seq(Posts) /\ Len(SubSeq(all, 1, m)) = m
      /\ \A i \in 1 .. m : SubSeq(all, 1, m)[i] = all[i]
  <2>1. \A i \in 1 .. m : all[i] \in Posts
    BY <1>5, <1>6
  <2> HIDE DEF all
  <2> QED BY <1>6, <2>1, SubSeqProperties
<1>8. ASSUME NEW i \in 1 .. m PROVE Shown'[i] = SubSeq(all, 1, m)[i]
  <2>1. CASE i = 1
    <3>1. p \in Pinned' /\ slot'[p] = 1
      BY DEF PinStep, Pinned
    <3>2. Shown'[i] = p
      BY <1>4, <2>1, <3>1
    <3> HIDE DEF all
    <3>3. SubSeq(all, 1, m)[i] = p
      BY <1>0, <1>5, <1>6, <1>7, <2>1
    <3> QED BY <3>2, <3>3
  <2>2. CASE i # 1
    <3>1. i - 1 \in 1 .. n
      BY <1>0, <1>6, <2>2
    <3>2. PICK q \in Pinned : q = Shown[i - 1] /\ slot[q] = i - 1
      BY <1>3, <3>1
    <3>3. q \in live /\ q # p /\ slot[q] # 0
      BY <3>1, <3>2 DEF Pinned, PinStep
    <3>4. slot'[q] = i
      BY <1>0, <1>6, <3>1, <3>2, <3>3 DEF PinStep, PushedDown
    <3>5. q \in Pinned'
      BY <1>6, <3>3, <3>4 DEF Pinned, PinStep
    <3> HIDE DEF all
    <3>6. Shown'[i] = q
      BY <1>4, <3>4, <3>5
    <3>7. SubSeq(all, 1, m)[i] = q
      BY <1>5, <1>6, <1>7, <2>2, <3>2
    <3> QED BY <3>6, <3>7
  <2> QED BY <2>1, <2>2
<1>9. \A i \in 1 .. Len(Shown) : Shown[i] # p
  BY <1>3 DEF PinStep, Pinned
<1>10. Shown' = SubSeq(all, 1, m)
  <2> HIDE DEF all
  <2> QED BY <1>4, <1>7, <1>8, SeqEqual
<1> QED BY <1>6, <1>9, <1>10

\* A post that leaves is taken out of the list, and those below it move up.
LEMMA LeaveShows ==
    ASSUME TypeOK, TypeOK', SlotsDistinct, SlotsDistinct', NEW p \in Posts, LeaveStep(p), NEW n, Long(n)
    PROVE  \E t \in 1 .. Len(Shown) :
              /\ Shown[t] = p
              /\ Shown' = SubSeq(Shown, 1, t - 1) \o SubSeq(Shown, t + 1, Len(Shown))
<1>0. n \in Nat /\ Slots \in Nat \ {0} /\ n <= Slots /\ n # 0
  BY SlotsAssumption, LeaveLong DEF Long
<1>1. PICK m : m = n - 1
  OBVIOUS
<1>2. Long(m)'
  BY <1>1, LeaveLong
<1>3. /\ Shown \in Seq(Posts) /\ Len(Shown) = n
      /\ \A i \in 1 .. n : Shown[i] \in Pinned /\ slot[Shown[i]] = i
      /\ \A q \in Pinned : slot[q] \in 1 .. n /\ Shown[slot[q]] = q
  BY ShownIs DEF ShowsLong, Shows, Long
<1>4. /\ Shown' \in Seq(Posts) /\ Len(Shown') = m
      /\ \A q \in Pinned' : slot'[q] \in 1 .. m /\ Shown'[slot'[q]] = q
  <2>1. m \in 0 .. Slots /\ ShowsLong'
    BY <1>0, <1>1, ShownThen
  <2>2. Shows(m)'
    BY <1>2, <2>1 DEF ShowsLong
  <2> QED BY <2>2 DEF Shows
<1>5. p \in Pinned
  BY DEF LeaveStep, Pinned
<1>6. PICK t \in 1 .. n : t = slot[p] /\ Shown[t] = p
  BY <1>3, <1>5
<1> DEFINE head == SubSeq(Shown, 1, t - 1)
<1> DEFINE rest == SubSeq(Shown, t + 1, n)
<1>7. \A i \in 1 .. n : Shown[i] \in Posts
  BY <1>3 DEF Pinned, TypeOK
<1>8. /\ head \in Seq(Posts) /\ Len(head) = t - 1
      /\ \A i \in 1 .. t - 1 : head[i] = Shown[i]
  <2>1. t - 1 \in Int /\ \A i \in 1 .. t - 1 : Shown[i] \in Posts
    BY <1>0, <1>7
  <2>2. /\ head \in Seq(Posts) /\ Len(head) = IF 1 <= t - 1 THEN t - 1 - 1 + 1 ELSE 0
        /\ \A i \in 1 .. t - 1 - 1 + 1 : head[i] = Shown[1 + i - 1]
    BY <2>1, SubSeqProperties
  <2> HIDE DEF head
  <2> QED BY <2>2, <1>0
<1>9. /\ rest \in Seq(Posts) /\ Len(rest) = n - t
      /\ \A i \in 1 .. n - t : rest[i] = Shown[t + i]
  <2>1. t + 1 \in Int /\ n \in Int /\ \A i \in t + 1 .. n : Shown[i] \in Posts
    BY <1>0, <1>7
  <2>2. /\ rest \in Seq(Posts) /\ Len(rest) = IF t + 1 <= n THEN n - (t + 1) + 1 ELSE 0
        /\ \A i \in 1 .. n - (t + 1) + 1 : rest[i] = Shown[t + 1 + i - 1]
    BY <2>1, SubSeqProperties
  <2> HIDE DEF rest
  <2>3. n - (t + 1) + 1 = n - t /\ \A i \in 1 .. n - t : t + 1 + i - 1 = t + i
    BY <1>0
  <2> QED BY <2>2, <2>3, <1>0
<1>10. /\ head \o rest \in Seq(Posts) /\ Len(head \o rest) = m
       /\ \A i \in 1 .. m : (head \o rest)[i] = IF i < t THEN Shown[i] ELSE Shown[i + 1]
  <2> HIDE DEF head, rest
  <2>1. /\ head \o rest \in Seq(Posts) /\ Len(head \o rest) = Len(head) + Len(rest)
        /\ \A i \in 1 .. Len(head) + Len(rest) :
              (head \o rest)[i] = IF i <= Len(head) THEN head[i] ELSE rest[i - Len(head)]
    BY <1>8, <1>9, ConcatProperties
  <2>2. Len(head) + Len(rest) = m
    BY <1>0, <1>1, <1>8, <1>9
  <2>3. ASSUME NEW i \in 1 .. m PROVE (head \o rest)[i] = IF i < t THEN Shown[i] ELSE Shown[i + 1]
    <3>1. CASE i < t
      <4>1. i \in 1 .. t - 1 /\ i <= Len(head)
        BY <1>0, <1>8, <3>1
      <4> QED BY <2>1, <2>2, <1>8, <3>1, <4>1
    <3>2. CASE ~(i < t)
      <4>1. ~(i <= Len(head)) /\ i - (t - 1) \in 1 .. n - t /\ t + (i - (t - 1)) = i + 1
        BY <1>0, <1>1, <1>8, <3>2
      <4>2. (head \o rest)[i] = rest[i - (t - 1)]
        BY <2>1, <2>2, <1>8, <4>1
      <4> QED BY <1>9, <3>2, <4>1, <4>2
    <3> QED BY <3>1, <3>2
  <2> QED BY <2>1, <2>2, <2>3
<1>11. ASSUME NEW i \in 1 .. m PROVE Shown'[i] = (head \o rest)[i]
  <2> HIDE DEF head, rest
  <2>1. PICK j \in 1 .. n : j = IF i < t THEN i ELSE i + 1
    BY <1>0, <1>1
  <2>2. PICK q \in Pinned : q = Shown[j] /\ slot[q] = j
    BY <1>3, <2>1
  <2>3. q \in live /\ q # p /\ q \in live'
    BY <1>6, <2>1, <2>2 DEF Pinned, LeaveStep
  <2>4. slot'[q] = i
    BY <1>6, <2>1, <2>2, <2>3 DEF LeaveStep
  <2>5. Shown'[i] = q
    BY <1>4, <2>3, <2>4 DEF Pinned
  <2>6. (head \o rest)[i] = q
    BY <1>10, <2>1, <2>2
  <2> QED BY <2>5, <2>6
<1>12. Shown' = head \o rest
  <2> HIDE DEF head, rest
  <2> QED BY <1>4, <1>10, <1>11, SeqEqual
<1> QED BY <1>3, <1>6, <1>12

LEMMA StillShows == ASSUME NEW p, StillStep(p) PROVE Shown' = Shown
<1>1. Pinned' = Pinned /\ \A q \in Pinned : slot'[q] = slot[q]
  BY StillPinned
<1>2. ASSUME NEW i PROVE (CHOOSE p_1 \in Pinned : slot[p_1] = i)' = CHOOSE p_1 \in Pinned : slot[p_1] = i
  BY <1>1
<1> QED BY <1>1, <1>2 DEF Shown

\* Every step is one of the promise, or nothing to the readers.
LEMMA BoardStep == BoardInv /\ BoardInv' /\ [Next]_vars => [Board!Next]_(Board!vars)
<1> SUFFICES ASSUME BoardInv, BoardInv', [Next]_vars PROVE [Board!Next]_(Board!vars)
  OBVIOUS
<1>1. CASE raced'
  BY <1>1 DEF Board!Next
<1>2. ASSUME NEW c \in Calls, Commit(c), ~raced' PROVE [Board!Next]_(Board!vars)
  <2> DEFINE p == call[c].post
  <2>1. ~raced /\ TypeOK /\ TypeOK' /\ SlotsDistinct /\ SlotsDistinct' /\ raced' = raced
    BY <1>2 DEF Commit, BoardInv, TypeOK
  <2>2. PICK n : Long(n)
    BY <2>1 DEF BoardInv, Gapless
  <2>3. CASE PinStep(p)
    <3>1. p \in Posts
      BY <2>1, <2>3 DEF PinStep, TypeOK
    <3>2. Board!Pin(p)
      BY <2>1, <2>2, <2>3, <3>1, PinShows DEF Board!Pin, Board!Kept, Board!Contains
    <3> QED BY <2>1, <3>1, <3>2 DEF Board!Next
  <2>4. CASE LeaveStep(p)
    <3>1. p \in Posts
      BY <2>1, <2>4 DEF LeaveStep, TypeOK
    <3>2. Board!Leave(p)
      BY <2>1, <2>2, <2>4, <3>1, LeaveShows DEF Board!Leave, Board!RemoveAt
    <3> QED BY <2>1, <3>1, <3>2 DEF Board!Next
  <2>5. CASE StillStep(p)
    BY <2>1, <2>5, StillShows DEF Board!vars
  <2> QED BY <1>2, <2>3, <2>4, <2>5, CommitSteps
<1>3. CASE UNCHANGED <<slot, live, raced>>
  <2>1. Shown' = Shown
    BY <1>3 DEF Shown, Pinned
  <2> QED BY <1>3, <2>1 DEF Board!vars
<1>4. ASSUME NEW c \in Calls, (\E p \in Posts : ReadPost(c, p)) \/ ListPinned(c) \/ Fails(c)
      PROVE  [Board!Next]_(Board!vars)
  <2>1. ASSUME NEW p \in Posts, ReadPost(c, p) PROVE UNCHANGED <<slot, live, raced>>
    BY <2>1 DEF ReadPost
  <2>2. ListPinned(c) \/ Fails(c) => UNCHANGED <<slot, live, raced>>
    BY DEF ListPinned, Fails
  <2> QED BY <1>3, <1>4, <2>1, <2>2
<1>5. CASE UNCHANGED vars
  BY <1>3, <1>5 DEF vars
<1> QED BY <1>1, <1>2, <1>4, <1>5 DEF Next

\* pinPost and deletePost implement the promise of PinBoard until two calls cross: a pinned post comes to the
\* head, the last of a full list falls off, a post that leaves leaves no gap, for any number of slots,
\* posts and calls under way, and whatever the index refuses.
THEOREM BoardIsKept == Spec => KeepsTheBoard
<1>1. Init => Board!Init
  <2> SUFFICES ASSUME Init PROVE Board!Init
    OBVIOUS
  <2>1. Pinned = {}
    BY DEF Init, Nobody, Pinned
  <2>2. Cardinality(Pinned) = 0
    BY <2>1, FS_EmptySet
  <2>3. Shown = << >>
    BY <2>2 DEF Shown
  <2> QED BY <2>3 DEF Init, Board!Init
<1>2. BoardInv /\ BoardInv' /\ [Next]_vars => [Board!Next]_(Board!vars)
  BY BoardStep
<1> QED BY <1>1, <1>2, BoardInvHolds, PTL DEF Spec, KeepsTheBoard, Board!Spec

-----------------------------------------------------------------------------
(* The talk: types. *)

LEMMA TallyTyped == \A given : Tally(given) \in [Kinds -> Nat]
<1> SUFFICES ASSUME NEW given PROVE Tally(given) \in [Kinds -> Nat]
  OBVIOUS
<1>1. \A k \in Kinds : Cardinality({m \in Members : given[m] = k}) \in Nat
  <2> TAKE k \in Kinds
  <2>1. IsFiniteSet({m \in Members : given[m] = k})
    BY MembersAssumption, FS_Subset
  <2> QED BY <2>1, FS_CardinalityType
<1> QED BY <1>1 DEF Tally

LEMMA NoTalkTyped == NoTalk \in TalkRequests
<1>1. Zero \in [Kinds -> Nat]
  BY DEF Zero
<1> QED BY <1>1 DEF NoTalk, TalkRequests

\* A request that starts: everything as at rest but the fields it sets.
LEMMA StartTyped ==
    ASSUME NEW at \in {"react", "write", "count", "drop", "mark"}, NEW w \in People \union {Nil},
           NEW x \in Comments \union {Nil}
    PROVE  [NoTalk EXCEPT !.at = at, !.who = w, !.on = x] \in TalkRequests
BY DEF NoTalk, TalkRequests, Zero

LEMMA TalkTypesInit == TalkInit => TalkTypeOK
<1>1. Zero \in [Kinds -> Nat] /\ NoRow \in Rows
  BY DEF Zero, NoRow, Rows
<1> QED BY <1>1, NoTalkTyped DEF TalkInit, TalkTypeOK

LEMMA ReactTypes ==
    ASSUME TalkTypeOK, NEW c \in Talkers, ReactStep(c)
    PROVE  TalkTypeOK'
<1>1. ASSUME NEW m \in Members, NEW kind \in Kinds \union {Nil}, ReactCounts(c, m, kind)
      PROVE  TalkTypeOK'
  <2>1. [NoTalk EXCEPT !.at = "react", !.who = m, !.kind = kind, !.had = reaction[m] # Nil,
                       !.tally = Counted(m, kind)] \in TalkRequests
    BY NoTalkTyped, TallyTyped DEF NoTalk, TalkRequests, Counted, People
  <2> QED BY <1>1, <2>1 DEF ReactCounts, Talk, rows, TalkTypeOK
<1>2. ASSUME ReactCommits(c) PROVE TalkTypeOK'
  <2>1. \A d \in Talkers : talk[d] \in TalkRequests
    BY DEF TalkTypeOK
  <2>2. reaction' \in [Members -> Kinds \union {Nil}] /\ counts' \in [Kinds -> Nat] /\ drifted' \in BOOLEAN
    BY <1>2, <2>1 DEF ReactCommits, TalkTypeOK, TalkRequests
  <2>3. \A d \in Talkers : [talk[d] EXCEPT !.overtaken = (talk[d].at = "react")] \in TalkRequests
    BY <2>1 DEF TalkRequests
  <2>4. talk' \in [Talkers -> TalkRequests]
    BY <1>2, <2>3, NoTalkTyped DEF ReactCommits
  <2> QED BY <1>2, <2>2, <2>4 DEF ReactCommits, TalkTypeOK
<1> QED BY <1>1, <1>2 DEF ReactStep

LEMMA WriteTypes ==
    ASSUME TalkTypeOK, NEW c \in Talkers, CommentWrites(c)
    PROVE  TalkTypeOK'
<1> DEFINE w == talk[c].who
<1> DEFINE x == talk[c].on
<1>1. \A d \in Talkers : talk[d] \in TalkRequests
  BY DEF TalkTypeOK
<1>2. PICK new \in Comments :
        /\ comment[new] = NoRow
        /\ comment' = [y \in Comments |->
              IF y = new
              THEN [state |-> "live", by |-> w, parent |-> x,
                    path |-> IF x = Nil THEN {} ELSE comment[x].path \union {x},
                    note |-> IF Waits(w, x) THEN "pending" ELSE "none",
                    late |-> x # Nil /\ x \notin Live]
              ELSE IF y = x /\ w \in Admins /\ comment[y].note = "pending"
                   THEN [comment[y] EXCEPT !.note = "replied"] ELSE comment[y]]
        /\ talk' = Meeting(c, new)
  BY DEF CommentWrites
<1>3. w \in People \union {Nil} /\ x \in Comments \union {Nil}
  BY <1>1 DEF TalkRequests
<1>4. \A y \in Comments : comment[y] \in Rows
  BY DEF TalkTypeOK
<1>5. (IF x = Nil THEN {} ELSE comment[x].path \union {x}) \in SUBSET Comments
  BY <1>3, <1>4 DEF Rows
<1>6. comment' \in [Comments -> Rows]
  BY <1>2, <1>3, <1>4, <1>5 DEF Rows
<1>7. \A d \in Talkers : [talk[d] EXCEPT !.met = @ \union {new}] \in TalkRequests
  BY <1>1 DEF TalkRequests
<1>8. talk' \in [Talkers -> TalkRequests]
  BY <1>1, <1>2, <1>7, NoTalkTyped DEF Meeting
<1> QED BY <1>6, <1>8 DEF CommentWrites, TalkTypeOK, rows

LEMMA RepliedTypes ==
    ASSUME NEW xs, comment \in [Comments -> Rows], Replied(xs)
    PROVE  comment' \in [Comments -> Rows]
BY DEF Replied, Rows

LEMMA TalkTypesNext == TalkTypeOK /\ [TalkNext]_talkVars => TalkTypeOK'
<1> SUFFICES ASSUME TalkTypeOK, [TalkNext]_talkVars PROVE TalkTypeOK'
  OBVIOUS
<1>0. \A d \in Talkers : talk[d] \in TalkRequests
  BY DEF TalkTypeOK
<1>1. CASE MarkAll
  BY <1>1, RepliedTypes DEF MarkAll, TalkTypeOK, rows
<1>2. ASSUME NEW c \in Talkers, NEW w \in People, NEW x \in Comments \union {Nil}, CommentReads(c, w, x)
      PROVE  TalkTypeOK'
  BY <1>2, StartTyped DEF CommentReads, Talk, TalkTypeOK, rows
<1>3. ASSUME NEW c \in Talkers, NEW w \in People, NEW x \in Comments, DeleteReads(c, w, x)
      PROVE  TalkTypeOK'
  <2>1. (IF w \in Members THEN "count" ELSE "drop") \in {"react", "write", "count", "drop", "mark"}
    OBVIOUS
  <2> QED BY <1>3, <2>1, StartTyped DEF DeleteReads, Talk, TalkTypeOK, rows
<1>4. ASSUME NEW c \in Talkers, NEW x \in Comments, MarkReads(c, x) PROVE TalkTypeOK'
  <2>1. [NoTalk EXCEPT !.at = "mark", !.on = x] \in TalkRequests
    BY DEF NoTalk, TalkRequests, Zero
  <2> QED BY <1>4, <2>1 DEF MarkReads, Talk, TalkTypeOK, rows
<1>5. ASSUME NEW c \in Talkers, DeleteCounts(c) PROVE TalkTypeOK'
  <2>1. [talk[c] EXCEPT !.at = "drop", !.met = {}] \in TalkRequests
    BY <1>0 DEF TalkRequests
  <2> QED BY <1>5, <2>1, NoTalkTyped DEF DeleteCounts, Talk, TalkTypeOK, rows
<1>6. ASSUME NEW c \in Talkers, DeleteDrops(c) PROVE TalkTypeOK'
  <2>1. \A y \in Comments : [comment[y] EXCEPT !.state = "deleted"] \in Rows
    BY DEF TalkTypeOK, Rows
  <2> QED BY <1>6, <2>1, NoTalkTyped DEF DeleteDrops, Talk, TalkTypeOK, rows
<1>7. ASSUME NEW c \in Talkers, MarkWrites(c) PROVE TalkTypeOK'
  BY <1>7, RepliedTypes, NoTalkTyped DEF MarkWrites, Talk, TalkTypeOK, rows
<1>8. ASSUME NEW c \in Talkers, TalkDies(c) PROVE TalkTypeOK'
  BY <1>8, NoTalkTyped DEF TalkDies, Talk, TalkTypeOK, rows
<1>9. CASE UNCHANGED talkVars
  BY <1>9 DEF talkVars, TalkTypeOK
<1> QED BY <1>1, <1>2, <1>3, <1>4, <1>5, <1>6, <1>7, <1>8, <1>9, ReactTypes, WriteTypes
        DEF TalkNext, CommentStep

\* Reactions, counts, comments and requests keep their types.
THEOREM TalkTypeCorrect == TalkSpec => []TalkTypeOK
<1> QED BY TalkTypesInit, TalkTypesNext, PTL DEF TalkSpec

-----------------------------------------------------------------------------
(* The counts. *)

\* A reaction that nobody has overtaken has counted the rows as they will be when it commits,
\* and knows whether there is a row of its member to delete.
Fresh(c) ==
    talk[c].at = "react" /\ ~talk[c].overtaken =>
        /\ talk[c].who \in Members
        /\ talk[c].tally = Counted(talk[c].who, talk[c].kind)
        /\ talk[c].had = (reaction[talk[c].who] # Nil)

CountsInv == CountsHeal /\ \A c \in Talkers : Fresh(c)

LEMMA CountsNext == TalkTypeOK /\ CountsInv /\ [TalkNext]_talkVars => CountsInv'
<1> SUFFICES ASSUME TalkTypeOK, CountsInv, [TalkNext]_talkVars PROVE CountsInv'
  OBVIOUS
<1>0. \A d \in Talkers : talk[d] \in TalkRequests
  BY DEF TalkTypeOK
\* Steps that leave reactions alone and put no request at react.
<1>f. ASSUME UNCHANGED <<rows, drifted>>,
             \A d \in Talkers : talk'[d].at = "react" =>
                /\ talk[d].at = "react"
                /\ talk'[d].overtaken = talk[d].overtaken /\ talk'[d].who = talk[d].who
                /\ talk'[d].kind = talk[d].kind /\ talk'[d].had = talk[d].had
                /\ talk'[d].tally = talk[d].tally
      PROVE  CountsInv'
  BY <1>f DEF CountsInv, CountsHeal, Fresh, Counted, Tally, rows
<1>1. ASSUME NEW c \in Talkers, NEW m \in Members, NEW kind \in Kinds \union {Nil}, ReactCounts(c, m, kind)
      PROVE  CountsInv'
  <2>1. /\ UNCHANGED <<rows, drifted>>
        /\ \A d \in Talkers : d # c => talk'[d] = talk[d]
        /\ talk'[c] = [NoTalk EXCEPT !.at = "react", !.who = m, !.kind = kind,
                                     !.had = reaction[m] # Nil, !.tally = Counted(m, kind)]
    BY <1>1 DEF ReactCounts, Talk, TalkTypeOK
  <2>2. /\ talk'[c].who = m /\ talk'[c].kind = kind /\ talk'[c].had = (reaction[m] # Nil)
        /\ talk'[c].tally = Counted(m, kind)
    BY <2>1 DEF NoTalk
  <2>3. Fresh(c)'
    BY <2>1, <2>2 DEF Fresh, Counted, Tally, rows
  <2>4. \A d \in Talkers \ {c} : Fresh(d)'
    BY <2>1 DEF CountsInv, Fresh, Counted, Tally, rows
  <2> QED BY <2>1, <2>3, <2>4 DEF CountsInv, CountsHeal, Tally, rows
<1>2. ASSUME NEW c \in Talkers, ReactCommits(c) PROVE CountsInv'
  <2> DEFINE m == talk[c].who
  <2>1. /\ talk[c].at = "react" /\ counts' = talk[c].tally /\ drifted' = talk[c].overtaken
        /\ reaction' = IF Wrote(c, m) THEN [reaction EXCEPT ![m] = talk[c].kind] ELSE reaction
        /\ talk' = [d \in Talkers |-> IF d = c THEN NoTalk
                                ELSE [talk[d] EXCEPT !.overtaken = (talk[d].at = "react")]]
    BY <1>2 DEF ReactCommits
  <2>2. CountsHeal'
    <3> SUFFICES ASSUME ~talk[c].overtaken PROVE counts' = Tally(reaction')
      BY <2>1 DEF CountsHeal, Tally
    <3>1. /\ m \in Members /\ talk[c].tally = Tally([reaction EXCEPT ![m] = talk[c].kind])
          /\ talk[c].had = (reaction[m] # Nil)
      BY <2>1 DEF CountsInv, Fresh, Counted
    <3>2. reaction' = [reaction EXCEPT ![m] = talk[c].kind]
      BY <2>1, <3>1 DEF Wrote, TalkTypeOK
    <3> QED BY <2>1, <3>1, <3>2
  <2>3. \A d \in Talkers : Fresh(d)'
    <3> TAKE d \in Talkers
    <3>1. CASE d = c
      BY <2>1, <3>1 DEF Fresh, NoTalk
    <3>2. CASE d # c
      <4>1. talk'[d].at = talk[d].at /\ talk'[d].overtaken = (talk[d].at = "react")
        BY <1>0, <2>1, <3>2 DEF TalkRequests
      <4> QED BY <4>1 DEF Fresh
    <3> QED BY <3>1, <3>2
  <2> QED BY <2>2, <2>3 DEF CountsInv
<1>3. CASE MarkAll
  BY <1>3, <1>f DEF MarkAll
<1>4. ASSUME NEW c \in Talkers, CommentStep(c) \/ TalkDies(c) PROVE CountsInv'
  <2>1. UNCHANGED <<rows, drifted>>
    BY <1>4 DEF CommentStep, CommentReads, DeleteReads, MarkReads, CommentWrites, DeleteCounts,
       DeleteDrops, MarkWrites, TalkDies
  <2>2. ASSUME NEW to, Talk(c, to), to.at # "react" PROVE CountsInv'
    <3>1. \A d \in Talkers : talk'[d] = IF d = c THEN to ELSE talk[d]
      BY <2>2 DEF Talk, TalkTypeOK
    <3> QED BY <2>1, <2>2, <3>1, <1>f
  <2>3. CASE CommentWrites(c)
    <3>1. PICK new \in Comments : talk' = Meeting(c, new)
      BY <2>3 DEF CommentWrites
    <3>2. \A d \in Talkers : d # c => \/ talk'[d] = talk[d]
                                      \/ talk'[d] = [talk[d] EXCEPT !.met = @ \union {new}]
      BY <3>1 DEF Meeting
    <3>3. talk'[c] = NoTalk
      BY <3>1 DEF Meeting
    <3>4. \A d \in Talkers : [talk[d] EXCEPT !.met = @ \union {new}].at = talk[d].at
                          /\ [talk[d] EXCEPT !.met = @ \union {new}].overtaken = talk[d].overtaken
                          /\ [talk[d] EXCEPT !.met = @ \union {new}].who = talk[d].who
                          /\ [talk[d] EXCEPT !.met = @ \union {new}].kind = talk[d].kind
                          /\ [talk[d] EXCEPT !.met = @ \union {new}].had = talk[d].had
                          /\ [talk[d] EXCEPT !.met = @ \union {new}].tally = talk[d].tally
      BY <1>0 DEF TalkRequests
    <3>5. NoTalk.at # "react"
      BY DEF NoTalk
    <3> QED BY <2>1, <3>2, <3>3, <3>4, <3>5, <1>f
  <2>4. CASE DeleteCounts(c)
    <3>1. [talk[c] EXCEPT !.at = "drop", !.met = {}].at # "react" /\ NoTalk.at # "react"
      BY <1>0 DEF TalkRequests, NoTalk
    <3> QED BY <2>4, <3>1, <2>2 DEF DeleteCounts
  <2>5. NoTalk.at # "react"
    BY DEF NoTalk
  <2>6. ASSUME NEW w, NEW x, NEW at, at # "react"
        PROVE  [NoTalk EXCEPT !.at = at, !.who = w, !.on = x].at # "react"
    BY <2>6 DEF NoTalk
  <2>7. ASSUME NEW x PROVE [NoTalk EXCEPT !.at = "mark", !.on = x].at # "react"
    BY DEF NoTalk
  <2>8. CASE DeleteDrops(c) \/ MarkWrites(c) \/ TalkDies(c)
    BY <2>2, <2>5, <2>8 DEF DeleteDrops, MarkWrites, TalkDies
  <2>9. ASSUME NEW w \in People, NEW x \in Comments \union {Nil},
               CommentReads(c, w, x) \/ DeleteReads(c, w, x) \/ MarkReads(c, x)
        PROVE  CountsInv'
    <3>1. CASE CommentReads(c, w, x)
      BY <2>2, <2>6, <3>1 DEF CommentReads
    <3>2. CASE DeleteReads(c, w, x)
      <4>1. (IF w \in Members THEN "count" ELSE "drop") # "react"
        OBVIOUS
      <4> QED BY <2>2, <2>6, <3>2, <4>1 DEF DeleteReads
    <3>3. CASE MarkReads(c, x)
      BY <2>2, <2>7, <3>3 DEF MarkReads
    <3> QED BY <2>9, <3>1, <3>2, <3>3
  <2>10. ASSUME NEW x \in Comments, MarkReads(c, x) PROVE CountsInv'
    BY <2>2, <2>7, <2>10 DEF MarkReads
  <2> QED BY <1>4, <2>3, <2>4, <2>8, <2>9, <2>10 DEF CommentStep
<1>5. CASE UNCHANGED talkVars
  BY <1>5, <1>f DEF talkVars, rows
<1> QED BY <1>1, <1>2, <1>3, <1>4, <1>5 DEF TalkNext, ReactStep

\* The counts shown under a post are those of its reactions unless the call that wrote them last
\* was overtaken: one undisturbed call heals them, whatever had crossed before.
THEOREM CountsAreHealed == TalkSpec => []CountsHeal
<1>1. TalkInit => CountsInv
  <2> SUFFICES ASSUME TalkInit PROVE CountsInv
    OBVIOUS
  <2>1. \A c \in Talkers : Fresh(c)
    BY DEF TalkInit, Fresh, NoTalk
  <2>2. \A k \in Kinds : {m \in Members : reaction[m] = k} = {}
    BY NilAssumption DEF TalkInit
  <2>3. counts = Tally(reaction)
    BY <2>2, FS_EmptySet DEF TalkInit, Zero, Tally
  <2> QED BY <2>1, <2>3 DEF CountsInv, CountsHeal
<1>2. TalkTypeOK /\ CountsInv /\ [TalkNext]_talkVars => CountsInv'
  BY CountsNext
<1>3. CountsInv => CountsHeal
  BY DEF CountsInv
<1> QED BY <1>1, <1>2, <1>3, TalkTypeCorrect, PTL DEF TalkSpec

-----------------------------------------------------------------------------
(* The threads. *)

Written(x) == comment[x].state # "none"

\* The paths are those of a tree: nobody above an unwritten comment, a path holds the paths of
\* those in it, and goes through a direct reply of each of them; whoever answers or deletes a
\* comment does so to one that was written.
Tree ==
    /\ \A x \in Comments : \A y \in comment[x].path :
        /\ Written(y) /\ comment[y].path \subseteq comment[x].path
        /\ \E z \in comment[x].path \union {x} : comment[z].parent = y
    /\ \A c \in Talkers : talk[c].at = "write" => talk[c].on = Nil \/ Written(talk[c].on)
    /\ \A c \in Talkers : talk[c].at \in {"count", "drop"} => talk[c].on \in Comments /\ Written(talk[c].on)

ThreadsInv == Tree /\ ThreadsWhole /\ RepliesKept

\* A step that leaves the rows of the tree alone and moves no request on: the notes may change.
LEMMA ThreadsFrame ==
    ASSUME TalkTypeOK, TalkTypeOK', ThreadsInv,
           \A x \in Comments : /\ comment'[x].state = comment[x].state
                               /\ comment'[x].parent = comment[x].parent
                               /\ comment'[x].path = comment[x].path
                               /\ comment'[x].late = comment[x].late,
           \A c \in Talkers : talk'[c].at \in {"write", "count", "drop"} =>
                /\ talk'[c].at = talk[c].at /\ talk'[c].on = talk[c].on
                /\ talk'[c].who = talk[c].who /\ talk'[c].met = talk[c].met
    PROVE  ThreadsInv'
<1>1. \A x \in Comments : comment[x].path \subseteq Comments /\ comment'[x].path \subseteq Comments
  BY DEF TalkTypeOK, Rows
<1>2. \A c \in Talkers : talk[c].on \in Comments \union {Nil}
  BY DEF TalkTypeOK, TalkRequests
<1>3. Tree'
  BY <1>1, <1>2 DEF ThreadsInv, Tree, Written
<1>4. Live' = Live /\ Orphans' = Orphans
  BY DEF Live, Orphans
<1>5. ThreadsWhole'
  <2> SUFFICES ASSUME NEW x \in Orphans PROVE \E y \in (comment[x].path)' \union {x} : comment'[y].late
    BY <1>4 DEF ThreadsWhole
  <2>1. x \in Comments
    BY DEF Orphans, Live
  <2>2. PICK y \in comment[x].path \union {x} : comment[y].late
    BY DEF ThreadsInv, ThreadsWhole
  <2> QED BY <1>1, <2>1, <2>2
<1>6. RepliesKept'
  <2> SUFFICES ASSUME NEW c \in Talkers, talk'[c].at = "drop", talk'[c].who \in Members
               PROVE  Subtree(talk[c].on)' \ {talk'[c].on} \subseteq talk'[c].met \union Orphans
    BY <1>4 DEF RepliesKept
  <2>1. talk[c].at = "drop" /\ talk'[c].on = talk[c].on /\ talk'[c].met = talk[c].met /\ talk[c].who \in Members
    OBVIOUS
  <2>2. Subtree(talk[c].on)' = Subtree(talk[c].on)
    BY <1>4, <2>1 DEF Subtree, Live
  <2> QED BY <2>1, <2>2 DEF ThreadsInv, RepliesKept
<1> QED BY <1>3, <1>5, <1>6 DEF ThreadsInv

\* A new comment goes below its parent and the parent's path.
LEMMA ThreadsWrite ==
    ASSUME TalkTypeOK, TalkTypeOK', ThreadsInv, NEW c \in Talkers, CommentWrites(c)
    PROVE  ThreadsInv'
<1> DEFINE x == talk[c].on
<1>1. PICK new \in Comments :
        /\ comment[new] = NoRow
        /\ comment' = [y \in Comments |->
              IF y = new
              THEN [state |-> "live", by |-> talk[c].who, parent |-> x,
                    path |-> IF x = Nil THEN {} ELSE comment[x].path \union {x},
                    note |-> IF Waits(talk[c].who, x) THEN "pending" ELSE "none",
                    late |-> x # Nil /\ x \notin Live]
              ELSE IF y = x /\ talk[c].who \in Admins /\ comment[y].note = "pending"
                   THEN [comment[y] EXCEPT !.note = "replied"] ELSE comment[y]]
        /\ talk' = Meeting(c, new)
  BY DEF CommentWrites
<1>2. /\ comment'[new].state = "live" /\ comment'[new].parent = x
      /\ comment'[new].path = IF x = Nil THEN {} ELSE comment[x].path \union {x}
      /\ comment'[new].late = (x # Nil /\ x \notin Live)
  BY <1>1
<1>3. \A y \in Comments \ {new} :
        /\ comment'[y].state = comment[y].state /\ comment'[y].parent = comment[y].parent
        /\ comment'[y].path = comment[y].path /\ comment'[y].late = comment[y].late
  BY <1>1 DEF TalkTypeOK, Rows
<1>4. comment[new].state = "none" /\ comment[new].path = {}
  BY <1>1 DEF NoRow
<1>5. \A y \in Comments : comment[y].path \subseteq Comments /\ new \notin comment[y].path
  BY <1>4 DEF ThreadsInv, Tree, Written, TalkTypeOK, Rows
<1>6. x = Nil \/ (x \in Comments /\ Written(x) /\ x # new)
  BY <1>4 DEF CommentWrites, ThreadsInv, Tree, Written, TalkTypeOK, TalkRequests
<1>7. Live' = Live \union {new} /\ new \notin Live
  BY <1>2, <1>3, <1>4 DEF Live
<1>8. \A d \in Talkers : talk'[d].at \in {"write", "count", "drop"} =>
        /\ talk'[d].at = talk[d].at /\ talk'[d].on = talk[d].on /\ talk'[d].who = talk[d].who
        /\ talk'[d].met = IF talk[d].at = "write" THEN talk[d].met ELSE talk[d].met \union {new}
  <2> TAKE d \in Talkers
  <2>1. talk[d] \in TalkRequests
    BY DEF TalkTypeOK
  <2>2. talk'[d] = IF d = c THEN NoTalk
                   ELSE IF talk[d].at \in {"count", "drop"} THEN [talk[d] EXCEPT !.met = @ \union {new}]
                   ELSE talk[d]
    BY <1>1 DEF Meeting
  <2> QED BY <2>1, <2>2 DEF TalkRequests, NoTalk
<1>9. Tree'
  <2>1. \A d \in Talkers : talk[d].on \in Comments \union {Nil}
    BY DEF TalkTypeOK, TalkRequests
  <2>2. ASSUME NEW y \in Comments, Written(y) PROVE Written(y)'
    BY <1>2, <1>3, <2>2 DEF Written
  <2>3. /\ \A d \in Talkers : talk'[d].at = "write" => talk'[d].on = Nil \/ Written(talk[d].on)'
        /\ \A d \in Talkers : talk'[d].at \in {"count", "drop"} => talk'[d].on \in Comments /\ Written(talk[d].on)'
    <3> SUFFICES ASSUME NEW d \in Talkers, talk'[d].at \in {"write", "count", "drop"}
                 PROVE  /\ talk'[d].at = "write" => talk'[d].on = Nil \/ Written(talk[d].on)'
                        /\ talk'[d].at # "write" => talk'[d].on \in Comments /\ Written(talk[d].on)'
      OBVIOUS
    <3>1. talk'[d].at = talk[d].at /\ talk'[d].on = talk[d].on
      BY <1>8
    <3>2. talk[d].on \in Comments /\ Written(talk[d].on) => Written(talk[d].on)'
      BY <2>2, <3>1 DEF Written
    <3> QED BY <2>1, <3>1, <3>2 DEF ThreadsInv, Tree
  <2>4. ASSUME NEW v \in Comments, NEW y \in comment'[v].path
        PROVE  /\ Written(y)' /\ (comment[y].path)' \subseteq (comment[v].path)'
               /\ \E z \in (comment[v].path)' \union {v} : comment'[z].parent = y
    <3>1. CASE v # new
      <4>1. y \in comment[v].path /\ comment'[v].path = comment[v].path /\ y \in Comments /\ y # new
        BY <1>3, <1>5, <2>4, <3>1
      <4>2. PICK z \in comment[v].path \union {v} : comment[z].parent = y
        BY <4>1 DEF ThreadsInv, Tree
      <4>3. z \in Comments /\ z # new
        BY <1>5, <3>1, <4>2
      <4> QED BY <1>3, <2>2, <4>1, <4>2, <4>3 DEF ThreadsInv, Tree
    <3>2. CASE v = new
      <4>1. x \in Comments /\ x # new /\ Written(x) /\ comment'[new].path = comment[x].path \union {x}
        BY <1>2, <1>6, <2>4, <3>2
      <4>2. comment'[x].path = comment[x].path
        BY <1>3, <4>1
      <4>3. CASE y = x
        BY <1>2, <2>2, <3>2, <4>1, <4>2, <4>3
      <4>4. CASE y \in comment[x].path
        <5>1. y \in Comments /\ y # new /\ Written(y) /\ comment[y].path \subseteq comment[x].path
          BY <1>5, <4>1, <4>4 DEF ThreadsInv, Tree
        <5>2. PICK z \in comment[x].path \union {x} : comment[z].parent = y
          BY <4>1, <4>4 DEF ThreadsInv, Tree
        <5>3. z \in Comments /\ z # new
          BY <1>5, <4>1, <5>2
        <5> QED BY <1>3, <2>2, <3>2, <4>1, <5>1, <5>2, <5>3
      <4> QED BY <2>4, <3>2, <4>1, <4>3, <4>4
    <3> QED BY <3>1, <3>2
  <2> QED BY <2>3, <2>4 DEF Tree
<1>10. \A y \in Orphans : y \in Orphans'
  BY <1>3, <1>4, <1>5, <1>7 DEF Orphans, Live
<1>11. ThreadsWhole'
  <2> SUFFICES ASSUME NEW y \in Orphans' PROVE \E z \in (comment[y].path)' \union {y} : comment'[z].late
    BY DEF ThreadsWhole
  <2>1. y \in Comments /\ y \in Live'
    BY DEF Orphans, Live
  <2>2. CASE y # new
    <3>1. y \in Orphans /\ comment'[y].path = comment[y].path
      BY <1>3, <1>7, <2>1, <2>2 DEF Orphans
    <3>2. PICK z \in comment[y].path \union {y} : comment[z].late
      BY <3>1 DEF ThreadsInv, ThreadsWhole
    <3>3. z \in Comments /\ z # new
      BY <1>5, <2>1, <2>2, <3>2
    <3> QED BY <1>3, <3>1, <3>2, <3>3
  <2>3. CASE y = new
    <3>1. PICK u : u \in (comment[new].path)' /\ u \notin Live'
      BY <2>3 DEF Orphans
    <3>2. x \in Comments /\ x # new /\ comment'[new].path = comment[x].path \union {x}
      BY <1>2, <1>6, <3>1
    <3>3. CASE x \notin Live
      BY <1>2, <2>3, <3>2, <3>3
    <3>4. CASE x \in Live
      <4>1. x \in Orphans
        BY <1>7, <3>1, <3>2, <3>4 DEF Orphans
      <4>2. PICK z \in comment[x].path \union {x} : comment[z].late
        BY <4>1 DEF ThreadsInv, ThreadsWhole
      <4>3. z \in Comments /\ z # new
        BY <1>5, <3>2, <4>2
      <4> QED BY <1>3, <2>3, <3>2, <4>2, <4>3
    <3> QED BY <3>3, <3>4
  <2> QED BY <2>2, <2>3
<1>12. RepliesKept'
  <2> SUFFICES ASSUME NEW d \in Talkers, talk'[d].at = "drop", talk'[d].who \in Members
               PROVE  Subtree(talk[d].on)' \ {talk'[d].on} \subseteq talk'[d].met \union Orphans'
    BY DEF RepliesKept
  <2> DEFINE r == talk[d].on
  <2>1. /\ talk[d].at = "drop" /\ talk'[d].on = r /\ talk[d].who \in Members
        /\ talk'[d].met = talk[d].met \union {new}
    BY <1>8
  <2>2. Subtree(r)' \subseteq Subtree(r) \union {new}
    BY <1>3, <1>7, <2>1 DEF Subtree, Live
  <2>3. Subtree(r) \ {r} \subseteq talk[d].met \union Orphans
    BY <2>1 DEF ThreadsInv, RepliesKept
  <2> QED BY <1>10, <2>1, <2>2, <2>3
<1> QED BY <1>9, <1>11, <1>12 DEF ThreadsInv

\* A deletion takes a comment with all that is live below it.
LEMMA ThreadsDrop ==
    ASSUME TalkTypeOK, TalkTypeOK', ThreadsInv, NEW c \in Talkers, DeleteDrops(c)
    PROVE  ThreadsInv'
<1> DEFINE x == talk[c].on
<1>1. /\ talk' = [talk EXCEPT ![c] = NoTalk]
      /\ comment' = [y \in Comments |-> IF y \in Subtree(x) THEN [comment[y] EXCEPT !.state = "deleted"]
                                                           ELSE comment[y]]
  BY DEF DeleteDrops, Talk
<1>2. \A y \in Comments :
        /\ comment'[y].parent = comment[y].parent /\ comment'[y].path = comment[y].path
        /\ comment'[y].late = comment[y].late
        /\ comment'[y].state = IF y \in Subtree(x) THEN "deleted" ELSE comment[y].state
  BY <1>1 DEF TalkTypeOK, Rows
<1>3. Live' = Live \ Subtree(x)
  BY <1>2 DEF Live
<1>4. \A d \in Talkers : talk'[d] = talk[d] \/ talk'[d] = NoTalk
  BY <1>1 DEF TalkTypeOK
<1>5. \A y \in Comments : comment[y].path \subseteq Comments
  BY DEF TalkTypeOK, Rows
<1>6. \A y \in Comments : Written(y)' <=> Written(y)
  BY <1>2 DEF Written, Subtree, Live
<1>7. Tree'
  <2>1. \A d \in Talkers : talk[d].on \in Comments \union {Nil}
    BY DEF TalkTypeOK, TalkRequests
  <2>2. \A v \in Comments : \A y \in (comment[v].path)' :
           /\ Written(y)' /\ (comment[y].path)' \subseteq (comment[v].path)'
           /\ \E z \in (comment[v].path)' \union {v} : comment'[z].parent = y
    <3> SUFFICES ASSUME NEW v \in Comments, NEW y \in comment[v].path
                 PROVE  /\ Written(y)' /\ (comment[y].path)' \subseteq (comment[v].path)'
                        /\ \E z \in (comment[v].path)' \union {v} : comment'[z].parent = y
      BY <1>2
    <3>1. y \in Comments
      BY <1>5
    <3>2. PICK z \in comment[v].path \union {v} : comment[z].parent = y
      BY DEF ThreadsInv, Tree
    <3>3. z \in Comments
      BY <1>5
    <3> QED BY <1>2, <1>6, <3>1, <3>2, <3>3 DEF ThreadsInv, Tree
  <2> QED BY <1>4, <1>6, <2>1, <2>2 DEF ThreadsInv, Tree, NoTalk
\* What hangs live below a comment taken was taken too, so only orphans are left as orphans.
<1>8. Orphans' \subseteq Orphans
  <2> SUFFICES ASSUME NEW y \in Orphans' PROVE y \in Orphans
    OBVIOUS
  <2>1. y \in Comments /\ y \in Live /\ y \notin Subtree(x)
    BY <1>3 DEF Orphans, Live
  <2>2. PICK u : u \in comment[y].path /\ (u \notin Live \/ u \in Subtree(x))
    BY <1>2, <1>3, <2>1 DEF Orphans
  <2>3. x \notin comment[y].path
    BY <2>1 DEF Subtree
  <2>4. comment[u].path \subseteq comment[y].path
    BY <2>1, <2>2 DEF ThreadsInv, Tree
  <2>5. u \notin Subtree(x)
    BY <2>2, <2>3, <2>4 DEF Subtree
  <2> QED BY <2>1, <2>2, <2>5 DEF Orphans
<1>9. Orphans \intersect Live' \subseteq Orphans'
  BY <1>2, <1>3 DEF Orphans, Live
<1>10. ThreadsWhole'
  <2> SUFFICES ASSUME NEW y \in Orphans' PROVE \E z \in (comment[y].path)' \union {y} : comment'[z].late
    BY DEF ThreadsWhole
  <2>1. y \in Orphans /\ y \in Comments
    BY <1>8 DEF Orphans, Live
  <2>2. PICK z \in comment[y].path \union {y} : comment[z].late
    BY <2>1 DEF ThreadsInv, ThreadsWhole
  <2> QED BY <1>2, <1>5, <2>1, <2>2
<1>11. RepliesKept'
  <2> SUFFICES ASSUME NEW d \in Talkers, talk'[d].at = "drop", talk'[d].who \in Members
               PROVE  Subtree(talk[d].on)' \ {talk'[d].on} \subseteq talk'[d].met \union Orphans'
    BY DEF RepliesKept
  <2>1. talk'[d] = talk[d]
    BY <1>4 DEF NoTalk
  <2>2. Subtree(talk[d].on)' \subseteq Subtree(talk[d].on) \intersect Live'
    BY <1>2, <1>3, <2>1 DEF Subtree, Live
  <2>3. Subtree(talk[d].on) \ {talk[d].on} \subseteq talk[d].met \union Orphans
    BY <2>1 DEF ThreadsInv, RepliesKept
  <2> QED BY <1>9, <2>1, <2>2, <2>3
<1> QED BY <1>7, <1>10, <1>11 DEF ThreadsInv

\* No live reply when they are counted: what is below is orphaned, through the replies deleted.
LEMMA ThreadsCounted ==
    ASSUME TalkTypeOK, TalkTypeOK', ThreadsInv, NEW c \in Talkers, DeleteCounts(c)
    PROVE  ThreadsInv'
<1> DEFINE r == talk[c].on
<1>1. comment' = comment /\ talk[c].at = "count" /\ r \in Comments /\ Written(r)
  BY DEF DeleteCounts, ThreadsInv, Tree
<1>2. \A d \in Talkers \ {c} : talk'[d] = talk[d]
  BY DEF DeleteCounts, Talk, TalkTypeOK
<1>3. \/ talk'[c] = NoTalk
      \/ /\ Replies(r) = {} /\ talk'[c].at = "drop" /\ talk'[c].on = r /\ talk'[c].met = {}
  BY DEF DeleteCounts, Talk, Unanswered, TalkTypeOK, TalkRequests
<1>4. Tree'
  BY <1>1, <1>2, <1>3 DEF ThreadsInv, Tree, Written, NoTalk
<1>5. Live' = Live /\ Orphans' = Orphans /\ ThreadsWhole'
  BY <1>1 DEF Live, Orphans, ThreadsInv, ThreadsWhole
<1>6. ASSUME Replies(r) = {} PROVE Subtree(r) \ {r} \subseteq Orphans
  <2> SUFFICES ASSUME NEW y \in Subtree(r) \ {r} PROVE y \in Orphans
    OBVIOUS
  <2>1. y \in Live /\ y \in Comments /\ r \in comment[y].path
    BY DEF Subtree, Live
  <2>2. PICK z \in comment[y].path \union {y} : comment[z].parent = r
    BY <2>1 DEF ThreadsInv, Tree
  <2>3. z \notin Live
    BY <1>6, <2>2 DEF Replies
  <2> QED BY <2>1, <2>2, <2>3 DEF Orphans
<1>7. RepliesKept'
  <2> SUFFICES ASSUME NEW d \in Talkers, talk'[d].at = "drop", talk'[d].who \in Members
               PROVE  Subtree(talk[d].on)' \ {talk'[d].on} \subseteq talk'[d].met \union Orphans
    BY <1>5 DEF RepliesKept
  <2>1. talk'[d].on = talk[d].on
    BY <1>2, <1>3 DEF NoTalk
  <2>2. Subtree(talk[d].on)' = Subtree(talk[d].on)
    BY <1>1, <1>5, <2>1 DEF Subtree
  <2>3. CASE d = c
    BY <1>3, <1>6, <2>1, <2>2, <2>3 DEF NoTalk
  <2>4. CASE d # c
    BY <1>2, <2>1, <2>2, <2>4 DEF ThreadsInv, RepliesKept
  <2> QED BY <2>3, <2>4
<1> QED BY <1>4, <1>5, <1>7 DEF ThreadsInv

LEMMA ThreadsNext == TalkTypeOK /\ ThreadsInv /\ [TalkNext]_talkVars => ThreadsInv'
<1> SUFFICES ASSUME TalkTypeOK, ThreadsInv, [TalkNext]_talkVars PROVE ThreadsInv'
  OBVIOUS
<1>0. TalkTypeOK'
  BY TalkTypesNext
<1>r. ASSUME NEW xs, Replied(xs)
      PROVE  \A x \in Comments : /\ comment'[x].state = comment[x].state
                                 /\ comment'[x].parent = comment[x].parent
                                 /\ comment'[x].path = comment[x].path
                                 /\ comment'[x].late = comment[x].late
  BY <1>r DEF Replied, TalkTypeOK, Rows
<1>1. CASE MarkAll
  BY <1>0, <1>1, <1>r, ThreadsFrame DEF MarkAll
<1>2. ASSUME NEW c \in Talkers, MarkWrites(c) PROVE ThreadsInv'
  <2>1. \A d \in Talkers : talk'[d] = talk[d] \/ talk'[d] = NoTalk
    BY <1>2 DEF MarkWrites, Talk, TalkTypeOK
  <2>2. \A d \in Talkers : talk'[d].at \in {"write", "count", "drop"} =>
           /\ talk'[d].at = talk[d].at /\ talk'[d].on = talk[d].on
           /\ talk'[d].who = talk[d].who /\ talk'[d].met = talk[d].met
    BY <2>1 DEF NoTalk
  <2> QED BY <1>0, <1>2, <1>r, <2>2, ThreadsFrame DEF MarkWrites
\* Steps that leave the comments alone and start no answer and no deletion.
<1>3. ASSUME comment' = comment,
             \A d \in Talkers : talk'[d].at \in {"write", "count", "drop"} =>
                /\ talk'[d].at = talk[d].at /\ talk'[d].on = talk[d].on
                /\ talk'[d].who = talk[d].who /\ talk'[d].met = talk[d].met
      PROVE  ThreadsInv'
  BY <1>0, <1>3, ThreadsFrame
<1>4. ASSUME NEW c \in Talkers, ReactStep(c) PROVE ThreadsInv'
  <2>1. comment' = comment
    BY <1>4 DEF ReactStep, ReactCounts, ReactCommits
  <2>2. CASE \E m \in Members, kind \in Kinds \union {Nil} : ReactCounts(c, m, kind)
    <3>1. PICK m \in Members, kind \in Kinds \union {Nil} : ReactCounts(c, m, kind)
      BY <2>2
    <3>2. \A d \in Talkers : talk'[d] = talk[d] \/ talk'[d].at = "react"
      BY <3>1 DEF ReactCounts, Talk, TalkTypeOK, NoTalk
    <3> QED BY <1>3, <2>1, <3>2
  <2>3. CASE ReactCommits(c)
    <3>1. \A d \in Talkers : talk'[d] = NoTalk \/ talk'[d] = [talk[d] EXCEPT !.overtaken = (talk[d].at = "react")]
      BY <2>3 DEF ReactCommits
    <3>2. \A d \in Talkers : talk'[d].at \in {"write", "count", "drop"} =>
             /\ talk'[d].at = talk[d].at /\ talk'[d].on = talk[d].on
             /\ talk'[d].who = talk[d].who /\ talk'[d].met = talk[d].met
      <4> TAKE d \in Talkers
      <4>1. talk[d] \in TalkRequests
        BY DEF TalkTypeOK
      <4>2. CASE talk'[d] = NoTalk
        BY <4>2 DEF NoTalk
      <4>3. CASE talk'[d] = [talk[d] EXCEPT !.overtaken = (talk[d].at = "react")]
        BY <4>1, <4>3 DEF TalkRequests
      <4> QED BY <3>1, <4>2, <4>3
    <3> QED BY <1>3, <2>1, <3>2
  <2> QED BY <1>4, <2>2, <2>3 DEF ReactStep
<1>5. ASSUME NEW c \in Talkers, TalkDies(c) \/ \E x \in Comments : MarkReads(c, x) PROVE ThreadsInv'
  <2>1. comment' = comment
    BY <1>5 DEF TalkDies, MarkReads
  <2>2. ASSUME NEW to, to.at \notin {"write", "count", "drop"}, Talk(c, to)
        PROVE  \A d \in Talkers : talk'[d] = talk[d] \/ talk'[d].at \notin {"write", "count", "drop"}
    BY <2>2 DEF Talk, TalkTypeOK
  <2>3. NoTalk.at \notin {"write", "count", "drop"}
    BY DEF NoTalk
  <2>4. \A x : [NoTalk EXCEPT !.at = "mark", !.on = x].at \notin {"write", "count", "drop"}
    BY DEF NoTalk
  <2>5. \A d \in Talkers : talk'[d] = talk[d] \/ talk'[d].at \notin {"write", "count", "drop"}
    BY <1>5, <2>2, <2>3, <2>4 DEF TalkDies, MarkReads
  <2> QED BY <1>3, <2>1, <2>5
<1>6. ASSUME NEW c \in Talkers, NEW w \in People, NEW x \in Comments \union {Nil},
             CommentReads(c, w, x) \/ (x \in Comments /\ DeleteReads(c, w, x))
      PROVE  ThreadsInv'
  <2>1. comment' = comment /\ x \in Live \union {Nil} /\ \A d \in Talkers \ {c} : talk'[d] = talk[d]
    BY <1>6 DEF CommentReads, DeleteReads, Talk, TalkTypeOK
  <2>2. /\ talk'[c].who = w /\ talk'[c].on = x
        /\ \/ talk'[c].at = "write"
           \/ x \in Comments /\ talk'[c].at = IF w \in Members THEN "count" ELSE "drop"
    <3>1. ASSUME NEW at, Talk(c, [NoTalk EXCEPT !.at = at, !.who = w, !.on = x])
          PROVE  talk'[c].who = w /\ talk'[c].on = x /\ talk'[c].at = at
      BY <3>1 DEF Talk, TalkTypeOK, NoTalk
    <3> QED BY <1>6, <3>1 DEF CommentReads, DeleteReads
  <2>3. x = Nil \/ (x \in Comments /\ Written(x))
    BY <2>1 DEF Live, Written
  <2>4. Nil \notin Comments
    BY NilAssumption
  <2>5. Tree'
    BY <2>1, <2>2, <2>3, <2>4 DEF ThreadsInv, Tree, Written
  <2>6. Live' = Live /\ Orphans' = Orphans /\ ThreadsWhole'
    BY <2>1 DEF Live, Orphans, ThreadsInv, ThreadsWhole
  <2>7. RepliesKept'
    <3> SUFFICES ASSUME NEW d \in Talkers, talk'[d].at = "drop", talk'[d].who \in Members
                 PROVE  Subtree(talk[d].on)' \ {talk'[d].on} \subseteq talk'[d].met \union Orphans
      BY <2>6 DEF RepliesKept
    <3>1. talk'[d] = talk[d]
      BY <2>1, <2>2
    <3>2. Subtree(talk[d].on)' = Subtree(talk[d].on)
      BY <2>1, <2>6, <3>1 DEF Subtree
    <3> QED BY <3>1, <3>2 DEF ThreadsInv, RepliesKept
  <2> QED BY <2>5, <2>6, <2>7 DEF ThreadsInv
<1>7. CASE UNCHANGED talkVars
  BY <1>3, <1>7 DEF talkVars
<1>8. ASSUME NEW c \in Talkers, CommentWrites(c) \/ DeleteCounts(c) \/ DeleteDrops(c) PROVE ThreadsInv'
  BY <1>0, <1>8, ThreadsWrite, ThreadsCounted, ThreadsDrop
<1> QED BY <1>1, <1>2, <1>4, <1>5, <1>6, <1>7, <1>8 DEF TalkNext, CommentStep

LEMMA ThreadsHold == TalkSpec => []ThreadsInv
<1>1. TalkInit => ThreadsInv
  BY DEF TalkInit, NoRow, NoTalk, ThreadsInv, Tree, Written, ThreadsWhole, RepliesKept, Orphans, Live
<1>2. TalkTypeOK /\ ThreadsInv /\ [TalkNext]_talkVars => ThreadsInv'
  BY ThreadsNext
<1> QED BY <1>1, <1>2, TalkTypeCorrect, PTL DEF TalkSpec

\* A comment that can be seen has all of its thread above it, or a comment in that thread was
\* being written while its parent was deleted.
THEOREM ThreadsStayWhole == TalkSpec => []ThreadsWhole
<1>1. ThreadsInv => ThreadsWhole
  BY DEF ThreadsInv
<1> QED BY <1>1, ThreadsHold, PTL

\* A member's deletion takes nobody's reply but one written after the replies were counted, and
\* orphans that nobody is shown.
THEOREM RepliesAreKept == TalkSpec => []RepliesKept
<1>1. ThreadsInv => RepliesKept
  BY DEF ThreadsInv
<1> QED BY <1>1, ThreadsHold, PTL

-----------------------------------------------------------------------------
(* The page. *)

\* On the page the pins and the talk go on side by side, and neither breaks the other's promises.
THEOREM PageKept == PageSpec => Spec /\ TalkSpec
<1>1. PageInit => Init /\ TalkInit
  BY DEF PageInit
<1>2. [PageNext]_<<vars, talkVars>> => [Next]_vars /\ [TalkNext]_talkVars
  BY DEF PageNext
<1> QED BY <1>1, <1>2, PTL DEF PageSpec, Spec, TalkSpec

=============================================================================
