------------------------- MODULE SupportTicketsProofs -------------------------
(***************************************************************************)
(* Proofs about SupportTickets, for any numbers of admins, messages and    *)
(* concurrent calls.  Inv, the types and what each call in progress is     *)
(* about, carries every other result.                                      *)
(***************************************************************************)
EXTENDS SupportTickets, FiniteSetTheorems, TLAPS

\* What a handler knows of its own call when it comes to its transaction.
CallShape ==
    \A c \in Calls :
        /\ call[c].op \in {"send", "reply"} => call[c].arg \in Messages
        /\ call[c].op = "send"  => Writer[call[c].arg] = Member
        /\ call[c].op = "reply" => Writer[call[c].arg] = call[c].by
        /\ call[c].op \in {"reply", "claim", "resolve", "reassign"} => call[c].by \in Admins
        /\ call[c].op = "reassign" => call[c].arg \in Admins

Inv == TypeOK /\ CallShape

-----------------------------------------------------------------------------
(* Calls. *)

LEMMA BeginShape ==
    ASSUME Inv, NEW c \in Calls, NEW op \in {"create", "send", "userRead", "reply", "claim",
                                             "reassign", "resolve", "adminRead"},
           NEW by \in Admins \union {Member}, NEW arg \in Messages \union Admins \union {None},
           Begin(c, op, by, arg),
           op \in {"send", "reply"} => arg \in Messages,
           op = "send"  => Writer[arg] = Member,
           op = "reply" => Writer[arg] = by,
           op \in {"reply", "claim", "resolve", "reassign"} => by \in Admins,
           op = "reassign" => arg \in Admins
    PROVE  Inv'
<1> DEFINE k == [at |-> "write", op |-> op, by |-> by, arg |-> arg, saw |-> assignee]
<1>1. k \in HandlerCalls
  BY DEF Inv, TypeOK, HandlerCalls
<1>2. call' = [call EXCEPT ![c] = k]
  BY DEF Begin
<1>3. /\ k.op = op /\ k.arg = arg /\ k.by = by
  OBVIOUS
<1> HIDE DEF k
<1>4. call' \in [Calls -> HandlerCalls]
  BY <1>1, <1>2 DEF Inv, TypeOK
<1>5. TypeOK'
  BY <1>4 DEF Inv, TypeOK, Begin, ticketVars, badgeVars
<1>6. ASSUME NEW d \in Calls PROVE call'[d] = IF d = c THEN k ELSE call[d]
  BY <1>2 DEF Inv, TypeOK
<1>7. CallShape'
  BY <1>3, <1>6 DEF Inv, CallShape
<1> QED BY <1>5, <1>7 DEF Inv

\* The call goes on to its notice, or ends.
LEMMA CallMoves ==
    ASSUME Inv, NEW c \in Calls, Ends(c) \/ Tells(c)
    PROVE  call' \in [Calls -> HandlerCalls] /\ CallShape'
<1>1. NoCall \in HandlerCalls
  BY DEF NoCall, HandlerCalls
<1> DEFINE k == [call[c] EXCEPT !.at = "tell"]
<1>2. call[c] \in HandlerCalls
  BY DEF Inv, TypeOK
<1>3. /\ k \in HandlerCalls
      /\ k.op = call[c].op /\ k.arg = call[c].arg /\ k.by = call[c].by
  BY <1>2 DEF HandlerCalls
<1>4. call' = [call EXCEPT ![c] = NoCall] \/ call' = [call EXCEPT ![c] = k]
  BY DEF Ends, Tells
<1> HIDE DEF k
<1>5. call' \in [Calls -> HandlerCalls]
  BY <1>1, <1>3, <1>4 DEF Inv, TypeOK
<1>6. ASSUME NEW d \in Calls
      PROVE  call'[d] = call[d] \/ call'[d] = NoCall \/ (d = c /\ call'[d] = k)
  BY <1>4 DEF Inv, TypeOK
<1>7. NoCall.op = "none"
  BY DEF NoCall
<1>8. CallShape'
  BY <1>3, <1>6, <1>7 DEF Inv, CallShape
<1> QED BY <1>5, <1>8

LEMMA HistoryTyped ==
    ASSUME Inv, NEW c \in Calls, call[c].by \in Admins
    PROVE  /\ HistoryAfter(c) \in Seq(Events)
           /\ OwnerAfter(c) \in Admins \union {None}
           /\ [type |-> "resolved", by |-> call[c].by] \in Events
           /\ Assigned(call[c].by) \in Events
<1>1. Assigned(call[c].by) \in Events /\ [type |-> "resolved", by |-> call[c].by] \in Events
  BY DEF Assigned, Events
<1>2. history \in Seq(Events) /\ assignee \in Admins \union {None}
  BY DEF Inv, TypeOK
<1>3. HistoryAfter(c) \in Seq(Events)
  <2> DEFINE e == Assigned(call[c].by)
  <2>1. e \in Events
    BY <1>1
  <2>2. HistoryAfter(c) = IF Claims(c) THEN Append(history, e) ELSE history
    BY DEF HistoryAfter
  <2> HIDE DEF e
  <2> QED BY <1>2, <2>1, <2>2
<1> QED BY <1>1, <1>2, <1>3 DEF OwnerAfter

-----------------------------------------------------------------------------
(* Types. *)

LEMMA ReadTyped ==
    ASSUME Inv, NEW c \in Calls,
           \/ CreateRead(c) \/ UserRead(c)
           \/ \E m \in Messages : SendRead(c, m) \/ ReplyRead(c, m)
           \/ \E a \in Admins : ClaimRead(c, a) \/ ResolveRead(c, a) \/ AdminRead(c, a)
                                  \/ \E to \in Admins : ReassignRead(c, a, to)
    PROVE  Inv'
<1>1. CASE CreateRead(c)
  BY <1>1, BeginShape DEF CreateRead
<1>2. CASE UserRead(c)
  BY <1>2, BeginShape DEF UserRead
<1>3. ASSUME NEW m \in Messages, SendRead(c, m) PROVE Inv'
  BY <1>3, BeginShape DEF SendRead
<1>4. ASSUME NEW m \in Messages, ReplyRead(c, m) PROVE Inv'
  BY <1>4, BeginShape DEF ReplyRead
<1>5. ASSUME NEW a \in Admins, ClaimRead(c, a) PROVE Inv'
  BY <1>5, BeginShape DEF ClaimRead
<1>6. ASSUME NEW a \in Admins, ResolveRead(c, a) PROVE Inv'
  BY <1>6, BeginShape DEF ResolveRead
<1>7. ASSUME NEW a \in Admins, AdminRead(c, a) PROVE Inv'
  BY <1>7, BeginShape DEF AdminRead
<1>8. ASSUME NEW a \in Admins, NEW to \in Admins, ReassignRead(c, a, to) PROVE Inv'
  BY <1>8, BeginShape DEF ReassignRead
<1> QED BY <1>1, <1>2, <1>3, <1>4, <1>5, <1>6, <1>7, <1>8

LEMMA WriteTyped ==
    ASSUME Inv, NEW c \in Calls,
           \/ CreateWrite(c) \/ SendWrite(c) \/ UserReadWrite(c) \/ ReplyWrite(c) \/ ClaimWrite(c)
           \/ ReassignWrite(c) \/ ResolveWrite(c) \/ AdminReadWrite(c) \/ Tell(c) \/ CallEnds(c)
    PROVE  Inv'
<1>1. call' \in [Calls -> HandlerCalls] /\ CallShape'
  BY CallMoves DEF CreateWrite, SendWrite, UserReadWrite, ReplyWrite, ClaimWrite,
        ReassignWrite, ResolveWrite, AdminReadWrite, Tell, CallEnds
<1>2. \A side \in {"member", "admins"} : unseen[side] \in SUBSET Notices
  BY DEF Inv, TypeOK
<1>3. CASE CreateWrite(c)
  <2>1. <<[type |-> "created", by |-> Member]>> \in Seq(Events)
    BY DEF Events
  <2> QED BY <1>1, <1>3, <2>1 DEF CreateWrite, Arrives, Inv, TypeOK, Notices
<1>4. CASE SendWrite(c)
  <2>1. call[c].arg \in Messages
    BY <1>4 DEF SendWrite, Writing, Inv, CallShape
  <2> QED BY <1>1, <1>4, <2>1 DEF SendWrite, Arrives, Inv, TypeOK, Notices, ticketVars
<1>5. CASE UserReadWrite(c)
  BY <1>1, <1>5 DEF UserReadWrite, ReadAll, Cleared, Inv, TypeOK, ticketVars
<1>6. CASE ReplyWrite(c)
  <2>1. call[c].arg \in Messages /\ call[c].by \in Admins
    BY <1>6 DEF ReplyWrite, Writing, Inv, CallShape
  <2>2. HistoryAfter(c) \in Seq(Events) /\ OwnerAfter(c) \in Admins \union {None}
    BY <2>1, HistoryTyped
  <2> QED BY <1>1, <1>6, <2>1, <2>2 DEF ReplyWrite, Arrives, Inv, TypeOK, Notices
<1>7. CASE ClaimWrite(c)
  <2>1. call[c].by \in Admins
    BY <1>7 DEF ClaimWrite, Writing, Inv, CallShape
  <2>2. Assigned(call[c].by) \in Events
    BY <2>1, HistoryTyped
  <2>3. Append(history, Assigned(call[c].by)) \in Seq(Events)
    BY <2>2 DEF Inv, TypeOK
  <2> QED BY <1>1, <1>7, <2>1, <2>3 DEF ClaimWrite, Inv, TypeOK, badgeVars
<1>8. CASE ReassignWrite(c)
  <2> DEFINE e == [type |-> IF call[c].saw = None THEN "assigned" ELSE "reassigned",
                   by |-> call[c].by, to |-> call[c].arg, from |-> call[c].saw]
  <2>1. call[c].by \in Admins /\ call[c].arg \in Admins
    BY <1>8 DEF ReassignWrite, Writing, Inv, CallShape
  <2>2. call[c].saw \in Admins \union {None}
    BY DEF Inv, TypeOK, HandlerCalls
  <2>3. e \in Events
    BY <2>1, <2>2 DEF Events
  <2>4. history' = Append(history, e)
    BY <1>8 DEF ReassignWrite
  <2> HIDE DEF e
  <2>5. history' \in Seq(Events)
    BY <2>3, <2>4 DEF Inv, TypeOK
  <2> QED BY <1>1, <1>8, <2>1, <2>5 DEF ReassignWrite, StatusTaken, Inv, TypeOK, badgeVars
<1>9. CASE ResolveWrite(c)
  <2> DEFINE e == [type |-> "resolved", by |-> call[c].by]
  <2>1. call[c].by \in Admins
    BY <1>9 DEF ResolveWrite, Writing, Inv, CallShape
  <2>2. HistoryAfter(c) \in Seq(Events) /\ OwnerAfter(c) \in Admins \union {None} /\ e \in Events
    BY <2>1, HistoryTyped
  <2>3. history' = Append(HistoryAfter(c), e)
    BY <1>9 DEF ResolveWrite
  <2> HIDE DEF e
  <2>4. history' \in Seq(Events)
    BY <2>2, <2>3
  <2> QED BY <1>1, <1>9, <2>2, <2>4 DEF ResolveWrite, Cleared, Inv, TypeOK
<1>10. CASE AdminReadWrite(c)
  BY <1>1, <1>10 DEF AdminReadWrite, ReadAll, Cleared, Inv, TypeOK, ticketVars
<1>11. CASE Tell(c)
  <2>1. call[c].op \in {"send", "reply"} => call[c].arg \in Messages
    BY DEF Inv, CallShape
  <2>2. inbox' \in [{"member", "admins"} -> SUBSET Notices]
    BY <1>11, <2>1 DEF Tell, Notified, Inv, TypeOK, Notices
  <2> QED BY <1>1, <1>11, <2>2 DEF Tell, Inv, TypeOK, ticketVars, badgeVars
<1>12. CASE CallEnds(c)
  BY <1>1, <1>12 DEF CallEnds, Inv, TypeOK, ticketVars, badgeVars
<1> QED BY <1>3, <1>4, <1>5, <1>6, <1>7, <1>8, <1>9, <1>10, <1>11, <1>12

LEMMA InitTyped == Init => Inv
<1>1. NoCall \in HandlerCalls /\ NoCall.op = "none"
  BY DEF NoCall, HandlerCalls
<1> QED BY <1>1 DEF Init, Inv, TypeOK, CallShape

LEMMA StepTyped == Inv /\ [Next]_vars => Inv'
<1> SUFFICES ASSUME Inv, [Next]_vars PROVE Inv'
  OBVIOUS
<1>1. ASSUME NEW c \in Calls, MemberCall(c) \/ AdminCall(c) \/ Tell(c) \/ CallEnds(c) PROVE Inv'
  BY <1>1, ReadTyped, WriteTyped DEF MemberCall, AdminCall
<1>2. ASSUME NEW r \in Ratings, Rate(r) PROVE Inv'
  BY <1>2 DEF Rate, Inv, TypeOK, CallShape, badgeVars
<1>3. CASE UNCHANGED vars
  BY <1>3 DEF vars, ticketVars, badgeVars, Inv, TypeOK, CallShape
<1> QED BY <1>1, <1>2, <1>3 DEF Next

THEOREM InvHolds == Spec => []Inv
BY InitTyped, StepTyped, PTL DEF Spec

\* Every variable keeps its type whatever calls overlap; in particular no badge goes below
\* zero and no audit event is malformed.
THEOREM TypeCorrect == Spec => []TypeOK
<1>1. Inv => TypeOK
  BY DEF Inv
<1> QED BY <1>1, InvHolds, PTL

-----------------------------------------------------------------------------
(* Who owns the ticket, and who acts on it. *)

\* A ticket that was read with an owner still has one: an owner is replaced, never removed.
SawOwner == \A c \in Calls : call[c].saw # None => assignee # None

OwnInv == OpenIsUnowned /\ SawOwner

LEMMA OwnerStays ==
    ASSUME Inv, OwnInv, [Next]_vars
    PROVE  OpenIsUnowned' /\ (assignee # None => assignee' # None)
<1> DEFINE Goal == OpenIsUnowned' /\ (assignee # None => assignee' # None)
<1> USE PeopleAssumption DEF OpenIsUnowned, OwnInv
<1>1. ASSUME NEW c \in Calls,
             \/ MemberCall(c) /\ ~CreateWrite(c)
             \/ \E m \in Messages : ReplyRead(c, m)
             \/ \E a \in Admins : \/ ClaimRead(c, a) \/ ResolveRead(c, a) \/ AdminRead(c, a)
                                  \/ \E to \in Admins : ReassignRead(c, a, to)
             \/ AdminReadWrite(c) \/ Tell(c) \/ CallEnds(c)
      PROVE  UNCHANGED <<status, assignee>>
  BY <1>1 DEF MemberCall, CreateRead, UserRead, SendRead, ReplyRead, ClaimRead, ResolveRead,
     AdminRead, ReassignRead, Begin, SendWrite, UserReadWrite, AdminReadWrite, Tell, CallEnds,
     ticketVars
<1>2. ASSUME NEW c \in Calls, CreateWrite(c) PROVE Goal
  BY <1>2 DEF CreateWrite
<1>3. ASSUME NEW c \in Calls, ReplyWrite(c) PROVE Goal
  <2>1. call[c].by \in Admins
    BY <1>3 DEF ReplyWrite, Writing, Inv, CallShape
  <2>2. OwnerAfter(c) # None
    BY <2>1 DEF OwnerAfter, Claims, SawOwner
  <2>3. CASE Claims(c)
    BY <1>3, <2>2, <2>3 DEF ReplyWrite
  <2>4. CASE ~Claims(c)
    BY <1>3, <2>2, <2>4 DEF ReplyWrite, OwnerAfter
  <2> QED BY <2>3, <2>4
<1>4. ASSUME NEW c \in Calls, ClaimWrite(c) PROVE Goal
  BY <1>4 DEF ClaimWrite, Writing, Inv, CallShape
<1>5. ASSUME NEW c \in Calls, ReassignWrite(c) PROVE Goal
  BY <1>5 DEF ReassignWrite, StatusTaken, Writing, Inv, CallShape
<1>6. ASSUME NEW c \in Calls, ResolveWrite(c) PROVE Goal
  <2>1. call[c].by \in Admins
    BY <1>6 DEF ResolveWrite, Writing, Inv, CallShape
  <2>2. OwnerAfter(c) # None
    BY <2>1 DEF OwnerAfter, Claims, SawOwner
  <2> QED BY <1>6, <2>2 DEF ResolveWrite
<1>7. ASSUME NEW r \in Ratings, Rate(r) PROVE Goal
  BY <1>7 DEF Rate
<1>8. CASE UNCHANGED vars
  BY <1>8 DEF vars, ticketVars
<1>9. ASSUME NEW c \in Calls, MemberCall(c) \/ AdminCall(c) \/ Tell(c) \/ CallEnds(c)
      PROVE  Goal
  BY <1>9, <1>1, <1>2, <1>3, <1>4, <1>5, <1>6 DEF AdminCall
<1> QED BY <1>7, <1>8, <1>9 DEF Next

\* What a step may change in what a call has read.
LEMMA SawChanges ==
    ASSUME Inv, [Next]_vars, NEW c \in Calls
    PROVE  call'[c].saw \in {call[c].saw, assignee, None}
<1>1. NoCall.saw = None
  BY DEF NoCall
<1>2. call[c] \in HandlerCalls /\ call \in [Calls -> HandlerCalls]
  BY DEF Inv, TypeOK
<1>3. ASSUME NEW d \in Calls, Ends(d) \/ Tells(d) PROVE call'[c].saw \in {call[c].saw, None}
  <2> DEFINE k == [call[d] EXCEPT !.at = "tell"]
  <2>1. call[d] \in HandlerCalls
    BY DEF Inv, TypeOK
  <2>2. k.saw = call[d].saw
    BY <2>1 DEF HandlerCalls
  <2>3. call' = [call EXCEPT ![d] = NoCall] \/ call' = [call EXCEPT ![d] = k]
    BY <1>3 DEF Ends, Tells
  <2> HIDE DEF k
  <2> QED BY <1>1, <1>2, <2>2, <2>3
<1>4. ASSUME NEW d \in Calls, NEW op, NEW by, NEW arg, Begin(d, op, by, arg)
      PROVE  call'[c].saw \in {call[c].saw, assignee}
  <2> DEFINE k == [at |-> "write", op |-> op, by |-> by, arg |-> arg, saw |-> assignee]
  <2>1. call' = [call EXCEPT ![d] = k]
    BY <1>4 DEF Begin
  <2>2. k.saw = assignee
    OBVIOUS
  <2> HIDE DEF k
  <2> QED BY <1>2, <2>1, <2>2
<1>5. ASSUME NEW d \in Calls, MemberCall(d) \/ AdminCall(d) \/ Tell(d) \/ CallEnds(d)
      PROVE  call'[c].saw \in {call[c].saw, assignee, None}
  BY <1>3, <1>4, <1>5 DEF MemberCall, AdminCall, CreateRead, UserRead, SendRead, ReplyRead,
     ClaimRead, ResolveRead, AdminRead, ReassignRead, CreateWrite, SendWrite, UserReadWrite,
     ReplyWrite, ClaimWrite, ReassignWrite, ResolveWrite, AdminReadWrite, Tell, CallEnds
<1>6. ASSUME NEW r \in Ratings, Rate(r) PROVE call' = call
  BY <1>6 DEF Rate
<1>7. CASE UNCHANGED vars
  BY <1>7 DEF vars
<1> QED BY <1>5, <1>6, <1>7 DEF Next

LEMMA OwnInvHolds == Spec => []OwnInv
<1>1. Init => OwnInv
  BY DEF Init, OwnInv, OpenIsUnowned, SawOwner, NoCall
<1>2. Inv /\ OwnInv /\ [Next]_vars => OwnInv'
  <2> SUFFICES ASSUME Inv, OwnInv, [Next]_vars PROVE OwnInv'
    OBVIOUS
  <2>1. SawOwner'
    BY OwnerStays, SawChanges DEF OwnInv, SawOwner
  <2> QED BY <2>1, OwnerStays DEF OwnInv
<1> QED BY <1>1, <1>2, InvHolds, PTL DEF Spec

\* A ticket is open exactly while nobody has it, however many admins claim, answer, hand
\* over and resolve it at once.
THEOREM OpenTicketIsUnowned == Spec => []OpenIsUnowned
<1>1. OwnInv => OpenIsUnowned
  BY DEF OwnInv
<1> QED BY <1>1, OwnInvHolds, PTL

-----------------------------------------------------------------------------
(* Who may act, and the end of a ticket. *)

LEMMA NotAnswering ==
    ASSUME NEW c \in Calls, MemberCall(c) \/ AdminCall(c) \/ Tell(c) \/ CallEnds(c),
           ~SendWrite(c), ~ReplyWrite(c)
    PROVE  stored' = stored
BY DEF MemberCall, AdminCall, CreateRead, UserRead, SendRead, ReplyRead, ClaimRead,
   ResolveRead, AdminRead, ReassignRead, Begin, CreateWrite, UserReadWrite, ClaimWrite,
   ReassignWrite, ResolveWrite, AdminReadWrite, Tell, CallEnds

LEMMA NotResolving ==
    ASSUME NEW c \in Calls, MemberCall(c) \/ AdminCall(c) \/ Tell(c) \/ CallEnds(c),
           ~ResolveWrite(c), status' = "resolved"
    PROVE  status = "resolved"
BY DEF MemberCall, AdminCall, CreateRead, UserRead, SendRead, ReplyRead, ClaimRead,
   ResolveRead, AdminRead, ReassignRead, Begin, CreateWrite, SendWrite, UserReadWrite,
   ReplyWrite, ClaimWrite, ReassignWrite, StatusTaken, AdminReadWrite, Tell, CallEnds, ticketVars

\* A reply is stored and a ticket resolved only by its owner at that moment or a super
\* admin: the owner is looked at again where the row is changed, not only where it was read.
THEOREM OwnerActs == Spec => OnlyOwnerActs
<1> DEFINE
      Answers  == \A m \in stored' \ stored : Writer[m] \in Admins =>
                     Super(Writer[m]) \/ assignee' = Writer[m]
      Last     == history'[Len(history')]
      Resolves == status # "resolved" /\ status' = "resolved" =>
                     Super(Last.by) \/ assignee' = Last.by
<1>1. Inv /\ [Next]_vars => Answers
  <2> SUFFICES ASSUME Inv, [Next]_vars, NEW m \in stored' \ stored, Writer[m] \in Admins
               PROVE  Super(Writer[m]) \/ assignee' = Writer[m]
    OBVIOUS
  <2>1. ASSUME NEW c \in Calls, ReplyWrite(c) PROVE Super(Writer[m]) \/ assignee' = Writer[m]
    <3>1. m = call[c].arg /\ Writer[m] = call[c].by
      BY <2>1 DEF ReplyWrite, Writing, Inv, CallShape
    <3> QED BY <2>1, <3>1 DEF ReplyWrite, StillMine
  <2>2. ASSUME NEW c \in Calls, SendWrite(c) PROVE FALSE
    <3>1. m = call[c].arg /\ Writer[m] = Member
      BY <2>2 DEF SendWrite, Writing, Inv, CallShape
    <3> QED BY <3>1, PeopleAssumption
  <2>3. ASSUME NEW r \in Ratings, Rate(r) PROVE FALSE
    BY <2>3 DEF Rate
  <2>4. CASE UNCHANGED vars
    BY <2>4 DEF vars
  <2> QED BY <2>1, <2>2, <2>3, <2>4, NotAnswering DEF Next
<1>2. Inv /\ [Next]_vars => Resolves
  <2> SUFFICES ASSUME Inv, [Next]_vars, status # "resolved", status' = "resolved"
               PROVE  Super(Last.by) \/ assignee' = Last.by
    OBVIOUS
  <2>1. ASSUME NEW c \in Calls, ResolveWrite(c) PROVE Super(Last.by) \/ assignee' = Last.by
    <3> DEFINE e == [type |-> "resolved", by |-> call[c].by]
    <3>1. call[c].by \in Admins
      BY <2>1 DEF ResolveWrite, Writing, Inv, CallShape
    <3>2. HistoryAfter(c) \in Seq(Events)
      BY <3>1, HistoryTyped
    <3>3. history' = Append(HistoryAfter(c), e) /\ e.by = call[c].by
      BY <2>1 DEF ResolveWrite
    <3> HIDE DEF e
    <3>4. Last = e
      BY <3>2, <3>3
    <3> QED BY <2>1, <3>3, <3>4 DEF ResolveWrite, StillMine
  <2>2. ASSUME NEW r \in Ratings, Rate(r) PROVE FALSE
    BY <2>2 DEF Rate
  <2>3. CASE UNCHANGED vars
    BY <2>3 DEF vars, ticketVars
  <2> QED BY <2>1, <2>2, <2>3, NotResolving DEF Next
<1>3. Inv /\ [Next]_vars => [Answers /\ Resolves]_vars
  BY <1>1, <1>2
<1> QED BY <1>3, InvHolds, PTL DEF Spec, OnlyOwnerActs

\* Once a ticket is resolved no call that was under way changes its status, owner, chat or
\* trail, and a rating is given once.
THEOREM ResolvedStays == Spec => ResolvedIsFinal
<1> DEFINE Final == status = "resolved" =>
                      /\ UNCHANGED <<status, assignee, stored, history>>
                      /\ rating # None => rating' = rating
<1>1. [Next]_vars => Final
  <2> SUFFICES ASSUME [Next]_vars, status = "resolved"
               PROVE  /\ UNCHANGED <<status, assignee, stored, history>>
                      /\ rating # None => rating' = rating
    OBVIOUS
  <2>1. ASSUME NEW c \in Calls, MemberCall(c) \/ AdminCall(c) \/ Tell(c) \/ CallEnds(c)
        PROVE  UNCHANGED <<status, assignee, stored, history, rating>>
    BY <2>1 DEF MemberCall, AdminCall, CreateRead, UserRead, SendRead, ReplyRead, ClaimRead,
       ResolveRead, AdminRead, ReassignRead, Begin, CreateWrite, SendWrite, UserReadWrite,
       ReplyWrite, ClaimWrite, ReassignWrite, ResolveWrite, AdminReadWrite, Tell, CallEnds,
       StillOpen, Chatting, ticketVars
  <2>2. ASSUME NEW r \in Ratings, Rate(r)
        PROVE  UNCHANGED <<status, assignee, stored, history>> /\ (rating # None => rating' = rating)
    BY <2>2 DEF Rate
  <2>3. CASE UNCHANGED vars
    BY <2>3 DEF vars, ticketVars
  <2> QED BY <2>1, <2>2, <2>3 DEF Next
<1>2. [Next]_vars => [Final]_vars
  BY <1>1
<1> QED BY <1>2, PTL DEF Spec, ResolvedIsFinal

-----------------------------------------------------------------------------
(* The audit trail. *)

LEMMA StoryAssigns ==
    ASSUME NEW h \in Seq(Events), Len(h) > 0, NEW st, NEW own, NEW st2,
           TellsStory(h, st, own), st # "resolved", st2 # "resolved",
           NEW e, e \in Events, IsAssignment(e)
    PROVE  TellsStory(Append(h, e), st2, e.to) /\ Len(Append(h, e)) > 0
<1> DEFINE g == Append(h, e)
<1>1. /\ g \in Seq(Events) /\ Len(g) = Len(h) + 1 /\ Len(h) \in Nat
      /\ DOMAIN g = 1 .. Len(g) /\ DOMAIN h = 1 .. Len(h)
      /\ g[Len(g)] = e /\ \A i \in DOMAIN h : g[i] = h[i]
  OBVIOUS
<1> HIDE DEF g
<1>2. ASSUME NEW i \in DOMAIN g, i # Len(g) PROVE i \in DOMAIN h /\ g[i] = h[i]
  BY <1>1, <1>2
<1>3. e.type # "created" /\ e.type # "resolved"
  BY DEF IsAssignment
<1>4. ASSUME NEW i \in DOMAIN g
      PROVE  (g[i].type = "created" <=> i = 1) /\ g[i].type # "resolved"
  BY <1>1, <1>2, <1>3 DEF TellsStory
<1>5. ASSUME NEW i \in DOMAIN g, \A k \in DOMAIN g : IsAssignment(g[k]) => k <= i
      PROVE  g[i].to = e.to
  <2>1. Len(g) \in DOMAIN g /\ IsAssignment(g[Len(g)])
    BY <1>1
  <2>2. i = Len(g)
    BY <1>1, <1>5, <2>1
  <2> QED BY <1>1, <2>2
<1>6. ~(\A i \in DOMAIN g : ~IsAssignment(g[i]))
  BY <1>1
<1>7. TellsStory(g, st2, e.to)
  BY <1>4, <1>5, <1>6 DEF TellsStory
<1>8. Len(g) > 0
  BY <1>1
<1> QED BY <1>7, <1>8 DEF g

LEMMA StoryEnds ==
    ASSUME NEW h \in Seq(Events), Len(h) > 0, NEW st, NEW own,
           TellsStory(h, st, own), st # "resolved",
           NEW e, e \in Events, e.type = "resolved"
    PROVE  TellsStory(Append(h, e), "resolved", own) /\ Len(Append(h, e)) > 0
<1> DEFINE g == Append(h, e)
<1>1. /\ g \in Seq(Events) /\ Len(g) = Len(h) + 1 /\ Len(h) \in Nat
      /\ DOMAIN g = 1 .. Len(g) /\ DOMAIN h = 1 .. Len(h)
      /\ g[Len(g)] = e /\ \A i \in DOMAIN h : g[i] = h[i]
  OBVIOUS
<1> HIDE DEF g
<1>2. ASSUME NEW i \in DOMAIN g, i # Len(g) PROVE i \in DOMAIN h /\ g[i] = h[i]
  BY <1>1, <1>2
<1>3. ~IsAssignment(e)
  BY DEF IsAssignment
<1>4. ASSUME NEW i \in DOMAIN g
      PROVE  (g[i].type = "created" <=> i = 1) /\ (g[i].type = "resolved" <=> i = Len(g))
  BY <1>1, <1>2 DEF TellsStory
<1>5. ASSUME NEW i \in DOMAIN g, IsAssignment(g[i]),
             \A k \in DOMAIN g : IsAssignment(g[k]) => k <= i
      PROVE  g[i].to = own
  <2>1. i \in DOMAIN h /\ g[i] = h[i]
    BY <1>1, <1>2, <1>3, <1>5
  <2>2. \A k \in DOMAIN h : IsAssignment(h[k]) => k <= i
    BY <1>1, <1>5
  <2> QED BY <1>5, <2>1, <2>2 DEF TellsStory
<1>6. (\A i \in DOMAIN g : ~IsAssignment(g[i])) => own = None
  BY <1>1 DEF TellsStory
<1>7. TellsStory(g, "resolved", own)
  BY <1>4, <1>5, <1>6 DEF TellsStory
<1>8. Len(g) > 0
  BY <1>1
<1> QED BY <1>7, <1>8 DEF g

StoryInv == HistoryTellsOwner /\ (status = "none" \/ Len(history) > 0)

LEMMA ClaimTells ==
    ASSUME Inv, StoryInv, Chatting, NEW c \in Calls, call[c].by \in Admins
    PROVE  TellsStory(HistoryAfter(c), status, OwnerAfter(c)) /\ Len(HistoryAfter(c)) > 0
<1> DEFINE e == Assigned(call[c].by)
<1>1. /\ history \in Seq(Events) /\ Len(history) > 0 /\ status # "resolved"
      /\ TellsStory(history, status, assignee)
  BY DEF Inv, TypeOK, StoryInv, HistoryTellsOwner, Chatting
<1>2. e \in Events /\ IsAssignment(e) /\ e.to = call[c].by
  BY HistoryTyped DEF Assigned, IsAssignment
<1>3. HistoryAfter(c) = IF Claims(c) THEN Append(history, e) ELSE history
  BY DEF HistoryAfter
<1>4. OwnerAfter(c) = IF Claims(c) THEN e.to ELSE assignee
  BY <1>2 DEF OwnerAfter
<1> HIDE DEF e
<1>5. TellsStory(Append(history, e), status, e.to) /\ Len(Append(history, e)) > 0
  BY <1>1, <1>2, StoryAssigns
<1> QED BY <1>1, <1>3, <1>4, <1>5

LEMMA StoryRestated ==
    ASSUME NEW h, NEW st, NEW st2, NEW own, TellsStory(h, st, own),
           st # "resolved", st2 # "resolved"
    PROVE  TellsStory(h, st2, own)
BY DEF TellsStory

LEMMA StoryStep ==
    ASSUME Inv, OwnInv, StoryInv, [Next]_vars
    PROVE  StoryInv'
<1>1. history \in Seq(Events)
  BY DEF Inv, TypeOK
<1>2. ASSUME NEW c \in Calls, CreateWrite(c) PROVE StoryInv'
  <2> DEFINE e == [type |-> "created", by |-> Member]
  <2>1. history' = <<e>> /\ e.type = "created"
    BY <1>2 DEF CreateWrite
  <2>2. assignee' = None /\ status' = "open"
    BY <1>2 DEF CreateWrite, OwnInv, OpenIsUnowned
  <2> HIDE DEF e
  <2>3. DOMAIN history' = {1} /\ Len(history') = 1 /\ history'[1] = e
    BY <2>1
  <2> QED BY <2>1, <2>2, <2>3 DEF StoryInv, HistoryTellsOwner, TellsStory, IsAssignment
<1>3. ASSUME NEW c \in Calls, ReplyWrite(c) PROVE StoryInv'
  <2>1. call[c].by \in Admins /\ Chatting
    BY <1>3 DEF ReplyWrite, Writing, StillOpen, Inv, CallShape
  <2>2. TellsStory(HistoryAfter(c), status, OwnerAfter(c)) /\ Len(HistoryAfter(c)) > 0
    BY <2>1, ClaimTells
  <2>3. /\ history' = HistoryAfter(c) /\ assignee' = OwnerAfter(c)
        /\ status # "resolved" /\ status' # "resolved"
    BY <1>3, <2>1 DEF ReplyWrite, Chatting
  <2>4. TellsStory(HistoryAfter(c), status', OwnerAfter(c))
    BY <2>2, <2>3, StoryRestated
  <2> QED BY <2>2, <2>3, <2>4 DEF StoryInv, HistoryTellsOwner
<1>4. ASSUME NEW c \in Calls, ClaimWrite(c) PROVE StoryInv'
  <2> DEFINE e == Assigned(call[c].by)
  <2>1. call[c].by \in Admins
    BY <1>4 DEF ClaimWrite, Writing, Inv, CallShape
  <2>2. e \in Events /\ IsAssignment(e) /\ e.to = call[c].by
    BY <2>1, HistoryTyped DEF Assigned, IsAssignment
  <2>3. /\ history' = Append(history, e) /\ assignee' = call[c].by /\ status' = "in_progress"
        /\ status # "resolved" /\ Len(history) > 0 /\ TellsStory(history, status, assignee)
    BY <1>4 DEF ClaimWrite, Chatting, StoryInv, HistoryTellsOwner
  <2> HIDE DEF e
  <2>4. TellsStory(Append(history, e), status', e.to) /\ Len(Append(history, e)) > 0
    BY <1>1, <2>2, <2>3, StoryAssigns
  <2> QED BY <2>2, <2>3, <2>4 DEF StoryInv, HistoryTellsOwner
<1>5. ASSUME NEW c \in Calls, ReassignWrite(c) PROVE StoryInv'
  <2> DEFINE e == [type |-> IF call[c].saw = None THEN "assigned" ELSE "reassigned",
                   by |-> call[c].by, to |-> call[c].arg, from |-> call[c].saw]
  <2>1. call[c].by \in Admins /\ call[c].arg \in Admins /\ call[c].saw \in Admins \union {None}
    BY <1>5 DEF ReassignWrite, Writing, Inv, CallShape, TypeOK, HandlerCalls
  <2>2. e \in Events /\ IsAssignment(e) /\ e.to = call[c].arg
    BY <2>1 DEF Events, IsAssignment
  <2>3. /\ history' = Append(history, e) /\ assignee' = call[c].arg /\ status' = "in_progress"
        /\ status # "resolved" /\ Len(history) > 0 /\ TellsStory(history, status, assignee)
    BY <1>5 DEF ReassignWrite, StatusTaken, Chatting, StoryInv, HistoryTellsOwner
  <2> HIDE DEF e
  <2>4. TellsStory(Append(history, e), status', e.to) /\ Len(Append(history, e)) > 0
    BY <1>1, <2>2, <2>3, StoryAssigns
  <2> QED BY <2>2, <2>3, <2>4 DEF StoryInv, HistoryTellsOwner
<1>6. ASSUME NEW c \in Calls, ResolveWrite(c) PROVE StoryInv'
  <2> DEFINE e == [type |-> "resolved", by |-> call[c].by]
  <2>1. call[c].by \in Admins /\ Chatting
    BY <1>6 DEF ResolveWrite, Writing, Inv, CallShape
  <2>2. /\ TellsStory(HistoryAfter(c), status, OwnerAfter(c)) /\ Len(HistoryAfter(c)) > 0
        /\ HistoryAfter(c) \in Seq(Events) /\ e \in Events /\ e.type = "resolved"
    BY <2>1, ClaimTells, HistoryTyped
  <2>3. /\ history' = Append(HistoryAfter(c), e) /\ assignee' = OwnerAfter(c)
        /\ status # "resolved" /\ status' = "resolved"
    BY <1>6, <2>1 DEF ResolveWrite, Chatting
  <2> HIDE DEF e
  <2>4. TellsStory(Append(HistoryAfter(c), e), "resolved", OwnerAfter(c))
          /\ Len(Append(HistoryAfter(c), e)) > 0
    BY <2>2, <2>3, StoryEnds
  <2> QED BY <2>3, <2>4 DEF StoryInv, HistoryTellsOwner
<1>7. ASSUME NEW c \in Calls, MemberCall(c) \/ AdminCall(c) \/ Tell(c) \/ CallEnds(c),
             ~CreateWrite(c), ~ReplyWrite(c), ~ClaimWrite(c), ~ReassignWrite(c), ~ResolveWrite(c)
      PROVE  UNCHANGED <<status, assignee, history>>
  BY <1>7 DEF MemberCall, AdminCall, CreateRead, UserRead, SendRead, ReplyRead, ClaimRead,
     ResolveRead, AdminRead, ReassignRead, Begin, SendWrite, UserReadWrite, AdminReadWrite,
     Tell, CallEnds, ticketVars
<1>8. ASSUME NEW r \in Ratings, Rate(r) PROVE UNCHANGED <<status, assignee, history>>
  BY <1>8 DEF Rate
<1>9. CASE UNCHANGED vars
  BY <1>9 DEF vars, ticketVars, StoryInv, HistoryTellsOwner
<1>10. UNCHANGED <<status, assignee, history>> => StoryInv'
  BY DEF StoryInv, HistoryTellsOwner
<1> QED BY <1>2, <1>3, <1>4, <1>5, <1>6, <1>7, <1>8, <1>9, <1>10 DEF Next

\* The audit trail begins with the creation, ends with the one resolution, and its newest
\* assignment names whoever has the ticket, through every race of claims and hand-overs.
THEOREM TrailIsTrue == Spec => []HistoryTellsOwner
<1>1. Init => StoryInv
  BY DEF Init, StoryInv, HistoryTellsOwner, TellsStory
<1>2. Inv /\ OwnInv /\ StoryInv /\ [Next]_vars => StoryInv'
  BY StoryStep
<1>3. StoryInv => HistoryTellsOwner
  BY DEF StoryInv
<1> QED BY <1>1, <1>2, <1>3, InvHolds, OwnInvHolds, PTL DEF Spec

-----------------------------------------------------------------------------
(* The badges. *)

\* What each badge counts is a finite set of messages that are there.
BadgeInv ==
    /\ BadgesCount
    /\ IsFiniteSet(unseen["member"]) /\ IsFiniteSet(unseen["admins"])
    /\ unseen["member"] \subseteq stored
    /\ unseen["admins"] \subseteq stored \union {"ticket"}
    /\ status = "none" => unseen["admins"] = {}

LEMMA BadgeStep ==
    ASSUME Inv, BadgeInv, [Next]_vars
    PROVE  BadgeInv'
<1>1. unseen \in [{"member", "admins"} -> SUBSET Notices] /\ userUnread \in Nat /\ adminUnread \in Nat
  BY DEF Inv, TypeOK
<1>2. IsFiniteSet({}) /\ Cardinality({}) = 0
  BY FS_EmptySet
<1>3. ASSUME NEW c \in Calls, CreateWrite(c) PROVE BadgeInv'
  <2>1. unseen["admins"] = {}
    BY <1>3 DEF CreateWrite, BadgeInv
  <2>2. unseen' = [unseen EXCEPT !["admins"] = {"ticket"}]
    BY <1>3, <2>1 DEF CreateWrite, Arrives
  <2>3. IsFiniteSet({"ticket"}) /\ Cardinality({"ticket"}) = 1
    BY FS_Singleton
  <2> QED BY <1>1, <1>3, <2>2, <2>3 DEF CreateWrite, BadgeInv, BadgesCount
<1>4. ASSUME NEW c \in Calls, SendWrite(c) PROVE BadgeInv'
  <2> DEFINE m == call[c].arg
  <2>1. m \in Messages /\ m \notin stored /\ m # "ticket"
    BY <1>4, PeopleAssumption DEF SendWrite, Writing, IsNew, Inv, CallShape
  <2>2. m \notin unseen["admins"]
    BY <2>1 DEF BadgeInv
  <2>3. /\ IsFiniteSet(unseen["admins"] \union {m})
        /\ Cardinality(unseen["admins"] \union {m}) = adminUnread + 1
    BY <2>2, FS_AddElement DEF BadgeInv, BadgesCount
  <2>4. /\ unseen' = [unseen EXCEPT !["admins"] = unseen["admins"] \union {m}]
        /\ stored' = stored \union {m} /\ adminUnread' = adminUnread + 1
        /\ userUnread' = userUnread /\ status' # "none"
    BY <1>4 DEF SendWrite, Arrives, Chatting, ticketVars
  <2> HIDE DEF m
  <2> QED BY <1>1, <2>3, <2>4 DEF BadgeInv, BadgesCount
<1>5. ASSUME NEW c \in Calls, ReplyWrite(c) PROVE BadgeInv'
  <2> DEFINE m == call[c].arg
  <2>1. m \notin stored
    BY <1>5 DEF ReplyWrite, IsNew
  <2>2. m \notin unseen["member"]
    BY <2>1 DEF BadgeInv
  <2>3. /\ IsFiniteSet(unseen["member"] \union {m})
        /\ Cardinality(unseen["member"] \union {m}) = userUnread + 1
    BY <2>2, FS_AddElement DEF BadgeInv, BadgesCount
  <2>4. /\ unseen' = [unseen EXCEPT !["member"] = unseen["member"] \union {m}]
        /\ stored' = stored \union {m} /\ userUnread' = userUnread + 1
        /\ adminUnread' = adminUnread /\ status' # "none"
    BY <1>5 DEF ReplyWrite, Arrives, StillOpen, Chatting
  <2> HIDE DEF m
  <2> QED BY <1>1, <2>3, <2>4 DEF BadgeInv, BadgesCount
<1>6. ASSUME NEW c \in Calls, ResolveWrite(c) PROVE BadgeInv'
  BY <1>1, <1>2, <1>6 DEF ResolveWrite, Cleared, BadgeInv, BadgesCount
<1>7. ASSUME NEW c \in Calls, UserReadWrite(c) PROVE BadgeInv'
  BY <1>1, <1>2, <1>7 DEF UserReadWrite, ReadAll, Cleared, BadgeInv, BadgesCount, ticketVars
<1>8. ASSUME NEW c \in Calls, AdminReadWrite(c) PROVE BadgeInv'
  BY <1>1, <1>2, <1>8 DEF AdminReadWrite, ReadAll, Cleared, BadgeInv, BadgesCount, ticketVars
<1>9. UNCHANGED <<badgeVars, stored>> /\ (status' = "none" => status = "none") => BadgeInv'
  BY DEF badgeVars, BadgeInv, BadgesCount
<1>10. ASSUME NEW c \in Calls, MemberCall(c) \/ AdminCall(c) \/ Tell(c) \/ CallEnds(c),
              ~CreateWrite(c), ~SendWrite(c), ~ReplyWrite(c), ~ResolveWrite(c),
              ~UserReadWrite(c), ~AdminReadWrite(c)
       PROVE  UNCHANGED <<badgeVars, stored>> /\ (status' = "none" => status = "none")
  BY <1>10 DEF MemberCall, AdminCall, CreateRead, UserRead, SendRead, ReplyRead, ClaimRead,
     ResolveRead, AdminRead, ReassignRead, Begin, ClaimWrite, ReassignWrite, StatusTaken,
     Tell, CallEnds, ticketVars
<1>11. ASSUME NEW r \in Ratings, Rate(r)
       PROVE  UNCHANGED <<badgeVars, stored>> /\ status' = status
  BY <1>11 DEF Rate
<1>12. CASE UNCHANGED vars
  BY <1>9, <1>12 DEF vars, ticketVars
<1> QED BY <1>3, <1>4, <1>5, <1>6, <1>7, <1>8, <1>9, <1>10, <1>11, <1>12 DEF Next

\* Each badge is the number of messages that came in since it was cleared, for any number
\* of retries and racing sends.
THEOREM BadgesAreRight == Spec => []BadgesCount
<1>1. Init => BadgeInv
  BY FS_EmptySet DEF Init, BadgeInv, BadgesCount
<1>2. Inv /\ BadgeInv /\ [Next]_vars => BadgeInv'
  BY BadgeStep
<1>3. BadgeInv => BadgesCount
  BY DEF BadgeInv
<1> QED BY <1>1, <1>2, <1>3, InvHolds, PTL DEF Spec

-----------------------------------------------------------------------------
(* The notices. *)

\* A call about to report has committed what it reports.
CommittedFirst ==
    \A c \in Calls : call[c].at = "tell" =>
        /\ call[c].op \in {"send", "reply"} => call[c].arg \in stored
        /\ call[c].op = "resolve" => status = "resolved"

TellInv == NoticesAreTrue /\ CommittedFirst

\* Moving on one call keeps CommittedFirst if what that call would report is there.
LEMMA CommittedMoves ==
    ASSUME Inv, CommittedFirst, NEW c \in Calls, Ends(c) \/ Tells(c),
           stored \subseteq stored', status = "resolved" => status' = "resolved",
           Tells(c) => /\ call[c].op \in {"send", "reply"} => call[c].arg \in stored'
                       /\ call[c].op = "resolve" => status' = "resolved"
    PROVE  CommittedFirst'
<1> SUFFICES ASSUME NEW d \in Calls, call'[d].at = "tell"
             PROVE  /\ call'[d].op \in {"send", "reply"} => call'[d].arg \in stored'
                    /\ call'[d].op = "resolve" => status' = "resolved"
    BY DEF CommittedFirst
<1>1. call \in [Calls -> HandlerCalls] /\ call[c] \in HandlerCalls
  BY DEF Inv, TypeOK
<1>2. CASE Ends(c)
  <2>1. d # c /\ call'[d] = call[d]
    BY <1>1, <1>2 DEF Ends, NoCall
  <2> QED BY <2>1 DEF CommittedFirst
<1>3. CASE Tells(c)
  <2>1. d # c => call'[d] = call[d]
    BY <1>1, <1>3 DEF Tells
  <2>2. call'[c].op = call[c].op /\ call'[c].arg = call[c].arg
    BY <1>1, <1>3 DEF Tells, HandlerCalls
  <2> QED BY <1>3, <2>1, <2>2 DEF CommittedFirst
<1> QED BY <1>2, <1>3

LEMMA TellStep ==
    ASSUME Inv, TellInv, [Next]_vars
    PROVE  TellInv'
<1>1. inbox \in [{"member", "admins"} -> SUBSET Notices] /\ stored \subseteq Messages
  BY DEF Inv, TypeOK
<1>2. stored \subseteq stored' /\ inbox' = inbox /\ (status = "resolved" => status' = "resolved")
        => NoticesAreTrue'
  BY DEF TellInv, NoticesAreTrue
<1>3. ASSUME NEW c \in Calls, MemberCall(c) \/ AdminCall(c) \/ CallEnds(c)
      PROVE  stored \subseteq stored' /\ inbox' = inbox /\ (status = "resolved" => status' = "resolved")
  BY <1>3 DEF MemberCall, AdminCall, CreateRead, UserRead, SendRead, ReplyRead, ClaimRead,
     ResolveRead, AdminRead, ReassignRead, Begin, CreateWrite, SendWrite, UserReadWrite,
     ReplyWrite, StillOpen, ClaimWrite, ReassignWrite, Chatting, ResolveWrite, AdminReadWrite,
     CallEnds, ticketVars
<1>4. ASSUME NEW c \in Calls, CreateWrite(c) \/ SendWrite(c) \/ ReplyWrite(c) \/ ResolveWrite(c)
      PROVE  CommittedFirst'
  <2>1. Tells(c)
    BY <1>4 DEF CreateWrite, SendWrite, ReplyWrite, ResolveWrite
  <2>2. /\ call[c].op \in {"send", "reply"} => call[c].arg \in stored'
        /\ call[c].op = "resolve" => status' = "resolved"
    BY <1>4 DEF CreateWrite, SendWrite, ReplyWrite, ResolveWrite, Writing
  <2>3. stored \subseteq stored' /\ (status = "resolved" => status' = "resolved")
    BY <1>3, <1>4 DEF MemberCall, AdminCall
  <2> QED BY <2>1, <2>2, <2>3, CommittedMoves DEF TellInv
<1>5. ASSUME NEW c \in Calls,
             UserReadWrite(c) \/ ClaimWrite(c) \/ ReassignWrite(c) \/ AdminReadWrite(c) \/ CallEnds(c)
      PROVE  CommittedFirst'
  <2>1. Ends(c) /\ ~Tells(c)
    <3>1. Ends(c)
      BY <1>5 DEF UserReadWrite, ClaimWrite, ReassignWrite, AdminReadWrite, CallEnds
    <3>2. call[c] \in HandlerCalls /\ call \in [Calls -> HandlerCalls]
      BY DEF Inv, TypeOK
    <3>3. call'[c].at = "idle"
      BY <3>1, <3>2 DEF Ends, NoCall
    <3>4. Tells(c) => call'[c].at = "tell"
      BY <3>2 DEF Tells, HandlerCalls
    <3> QED BY <3>1, <3>3, <3>4
  <2>2. stored \subseteq stored' /\ (status = "resolved" => status' = "resolved")
    BY <1>3, <1>5 DEF MemberCall, AdminCall
  <2> QED BY <2>1, <2>2, CommittedMoves DEF TellInv
<1>6. ASSUME NEW c \in Calls, NEW op, NEW by, NEW arg, Begin(c, op, by, arg)
      PROVE  CommittedFirst'
  <2>1. UNCHANGED <<stored, status>> /\ call \in [Calls -> HandlerCalls]
    BY <1>6 DEF Begin, ticketVars, Inv, TypeOK
  <2>2. ASSUME NEW d \in Calls, call'[d].at = "tell" PROVE call'[d] = call[d]
    BY <1>6, <2>1, <2>2 DEF Begin
  <2> QED BY <2>1, <2>2 DEF TellInv, CommittedFirst
<1>7. ASSUME NEW c \in Calls, MemberCall(c) \/ AdminCall(c) \/ CallEnds(c)
      PROVE  TellInv'
  <2>1. CASE \E op, by, arg : Begin(c, op, by, arg)
    BY <1>2, <1>3, <1>6, <1>7, <2>1 DEF TellInv
  <2>2. CASE ~\E op, by, arg : Begin(c, op, by, arg)
    <3>1. \/ CreateWrite(c) \/ SendWrite(c) \/ ReplyWrite(c) \/ ResolveWrite(c) \/ UserReadWrite(c)
          \/ ClaimWrite(c) \/ ReassignWrite(c) \/ AdminReadWrite(c) \/ CallEnds(c)
      BY <1>7, <2>2 DEF MemberCall, AdminCall, CreateRead, UserRead, SendRead, ReplyRead,
         ClaimRead, ResolveRead, AdminRead, ReassignRead
    <3> QED BY <1>2, <1>3, <1>4, <1>5, <1>7, <3>1 DEF TellInv
  <2> QED BY <2>1, <2>2
<1>8. ASSUME NEW c \in Calls, Tell(c) PROVE TellInv'
  <2>1. UNCHANGED <<stored, status>> /\ Ends(c) /\ ~Tells(c)
    <3>1. call[c] \in HandlerCalls /\ call \in [Calls -> HandlerCalls]
      BY DEF Inv, TypeOK
    <3>2. UNCHANGED <<stored, status>> /\ Ends(c)
      BY <1>8 DEF Tell, ticketVars
    <3>3. call'[c].at = "idle"
      BY <3>1, <3>2 DEF Ends, NoCall
    <3>4. Tells(c) => call'[c].at = "tell"
      BY <3>1 DEF Tells, HandlerCalls
    <3> QED BY <3>2, <3>3, <3>4
  <2>2. CommittedFirst'
    BY <2>1, CommittedMoves DEF TellInv
  <2>3. NoticesAreTrue'
    <3>1. call[c].at = "tell" /\ (call[c].op \in {"send", "reply"} => call[c].arg \in stored)
            /\ (call[c].op = "resolve" => status = "resolved")
      BY <1>8 DEF Tell, TellInv, CommittedFirst
    <3>2. /\ call[c].op = "send" => Writer[call[c].arg] = Member
          /\ call[c].op = "reply" => Writer[call[c].arg] \in Admins
      BY DEF Inv, CallShape
    <3>3. ASSUME call[c].op = "create", Notified("admins", "ticket") PROVE NoticesAreTrue'
      BY <1>1, <2>1, <3>3 DEF Notified, TellInv, NoticesAreTrue
    <3>4. ASSUME call[c].op = "send", Notified("admins", call[c].arg) PROVE NoticesAreTrue'
      BY <1>1, <2>1, <3>1, <3>2, <3>4 DEF Notified, TellInv, NoticesAreTrue
    <3>5. ASSUME UNCHANGED inbox PROVE NoticesAreTrue'
      BY <2>1, <3>5 DEF TellInv, NoticesAreTrue
    <3>6. ASSUME call[c].op = "reply", Notified("member", call[c].arg) PROVE NoticesAreTrue'
      BY <1>1, <2>1, <3>1, <3>2, <3>6, PeopleAssumption DEF Notified, TellInv, NoticesAreTrue
    <3>7. ASSUME call[c].op = "resolve", Notified("member", "ticket") PROVE NoticesAreTrue'
      BY <1>1, <2>1, <3>1, <3>7 DEF Notified, TellInv, NoticesAreTrue
    <3> QED BY <1>8, <3>3, <3>4, <3>5, <3>6, <3>7 DEF Tell
  <2> QED BY <2>2, <2>3 DEF TellInv
<1>9. ASSUME NEW r \in Ratings, Rate(r) PROVE TellInv'
  BY <1>9 DEF Rate, TellInv, NoticesAreTrue, CommittedFirst
<1>10. CASE UNCHANGED vars
  BY <1>10 DEF vars, ticketVars, TellInv, NoticesAreTrue, CommittedFirst
<1> QED BY <1>7, <1>8, <1>9, <1>10 DEF Next

\* No notice is about something that did not happen: it is written only by a handler whose
\* transaction committed, and what it committed is never undone.
THEOREM NoticesTellTruth == Spec => []NoticesAreTrue
<1>1. Init => TellInv
  BY DEF Init, TellInv, NoticesAreTrue, CommittedFirst, NoCall
<1>2. Inv /\ TellInv /\ [Next]_vars => TellInv'
  BY TellStep
<1>3. TellInv => NoticesAreTrue
  BY DEF TellInv
<1> QED BY <1>1, <1>2, <1>3, InvHolds, PTL DEF Spec

=============================================================================
