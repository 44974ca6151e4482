---------------------------- MODULE SupportTickets ----------------------------
(***************************************************************************)
(* One support ticket: its chat, its owner among the admins, the two       *)
(* unread badges, the audit trail and the notices about it.                *)
(*                                                                         *)
(* A handler of the code reads the ticket, checks what it read, then runs  *)
(* one transaction whose first statement is a conditional update of the    *)
(* ticket row, then reports to the other side.  Here that is a Read, a     *)
(* Write and a Tell; calls of the member and of several admins interleave  *)
(* between them.  A transaction whose update matches no row, or that loses *)
(* to a unique key, leaves nothing, as a process that dies does: both are  *)
(* CallEnds.                                                               *)
(***************************************************************************)
EXTENDS Naturals, Sequences, FiniteSets

CONSTANTS
    Admins,       \* admins with access to the ticket's community
    SuperAdmins,
    Member,       \* the ticket's owner
    Messages,     \* client message ids: a retry of a message carries the same one
    Writer,       \* who writes each message
    Calls,        \* concurrent executions of handlers
    Ratings,
    MaxHistory,   \* bound: no reassignment is begun once the audit trail is this long
    None

ASSUME PeopleAssumption ==
    /\ SuperAdmins \subseteq Admins
    /\ Member \notin Admins /\ None \notin Admins \union Ratings
    /\ Writer \in [Messages -> Admins \union {Member}]
    /\ "ticket" \notin Messages /\ IsFiniteSet(Messages)
    /\ MaxHistory \in Nat

VARIABLES
    \* tickets row
    status, assignee, rating, userUnread, adminUnread,
    stored,       \* ticket_messages rows
    history,      \* ticket_events rows, oldest first
    inbox,        \* notifications rows of the member, and of the admins
    call,         \* the handler each call is executing, and what it has read
    unseen        \* history variable: what came in for each side since its badge was cleared

ticketVars == <<status, assignee, rating>>
badgeVars  == <<userUnread, adminUnread, unseen>>
vars == <<ticketVars, badgeVars, stored, history, inbox, call>>

Notices == Messages \union {"ticket"}   \* what a notice is about: a message, or the ticket itself

Events ==
    [type : {"created"}, by : {Member}]
      \union [type : {"assigned", "reassigned"}, by : Admins, to : Admins, from : Admins \union {None}]
      \union [type : {"resolved"}, by : Admins]

HandlerCalls ==
    [at : {"idle", "write", "tell"},
     op : {"none", "create", "send", "userRead", "reply", "claim", "reassign", "resolve", "adminRead"},
     by : Admins \union {Member, None}, arg : Messages \union Admins \union {None},
     saw : Admins \union {None}]

TypeOK ==
    /\ status \in {"none", "open", "in_progress", "resolved"}
    /\ assignee \in Admins \union {None} /\ rating \in Ratings \union {None}
    /\ userUnread \in Nat /\ adminUnread \in Nat
    /\ stored \subseteq Messages
    /\ history \in Seq(Events)
    /\ inbox \in [{"member", "admins"} -> SUBSET Notices]
    /\ call \in [Calls -> HandlerCalls]
    /\ unseen \in [{"member", "admins"} -> SUBSET Notices]

NoCall == [at |-> "idle", op |-> "none", by |-> None, arg |-> None, saw |-> None]

Init ==
    /\ status = "none" /\ assignee = None /\ rating = None
    /\ userUnread = 0 /\ adminUnread = 0
    /\ stored = {} /\ history = <<>>
    /\ inbox = [side \in {"member", "admins"} |-> {}]
    /\ call = [c \in Calls |-> NoCall]
    /\ unseen = [side \in {"member", "admins"} |-> {}]

-----------------------------------------------------------------------------
(* Reading the ticket, and the checks made on what was read. *)

Super(a)  == a \in SuperAdmins
MayAct(a) == Super(a) \/ assignee \in {None, a}      \* assertCanAct
Chatting  == status \in {"open", "in_progress"}      \* the ticket exists and is not resolved

Begin(c, op, by, arg) ==
    /\ call[c] = NoCall
    /\ call' = [call EXCEPT ![c] =
                  [at |-> "write", op |-> op, by |-> by, arg |-> arg, saw |-> assignee]]
    /\ UNCHANGED <<ticketVars, badgeVars, stored, history, inbox>>

CreateRead(c)   == status = "none" /\ Begin(c, "create", Member, None)
SendRead(c, m)  == Chatting /\ Writer[m] = Member /\ m \notin stored /\ Begin(c, "send", Member, m)
UserRead(c)     == userUnread > 0 /\ Begin(c, "userRead", Member, None)

ReplyRead(c, m) ==
    /\ Writer[m] \in Admins /\ m \notin stored
    /\ Chatting /\ MayAct(Writer[m])
    /\ Begin(c, "reply", Writer[m], m)

ClaimRead(c, a) == Chatting /\ assignee # a /\ Begin(c, "claim", a, None)

ReassignRead(c, a, to) ==
    /\ Super(a) /\ Chatting /\ assignee # to
    /\ Len(history) < MaxHistory
    /\ Begin(c, "reassign", a, to)

ResolveRead(c, a) ==
    /\ Chatting /\ MayAct(a)
    /\ assignee = None => Super(a)
    /\ Begin(c, "resolve", a, None)

AdminRead(c, a) == assignee = a /\ adminUnread > 0 /\ Begin(c, "adminRead", a, None)

-----------------------------------------------------------------------------
(* The transactions. *)

Writing(c, op) == call[c].at = "write" /\ call[c].op = op

\* The transaction has committed; some handlers still have a notice to write.
Ends(c)  == call' = [call EXCEPT ![c] = NoCall]
Tells(c) == call' = [call EXCEPT ![c].at = "tell"]

Arrives(side, n) == unseen' = [unseen EXCEPT ![side] = @ \union {n}]
Cleared(side)    == unseen' = [unseen EXCEPT ![side] = {}]

CreateWrite(c) ==
    /\ Writing(c, "create") /\ status = "none"      \* else the unique request key refuses it
    /\ status' = "open" /\ adminUnread' = 1 /\ Arrives("admins", "ticket")
    /\ history' = <<[type |-> "created", by |-> Member]>>
    /\ Tells(c)
    /\ UNCHANGED <<assignee, rating, userUnread, stored, inbox>>

\* The insert of a message: refused when its client id is there.  Its fault: the insert is
\* caught, and the badge it came with is kept.
BumpStays(m) == TRUE
IsNew(m)     == m \notin stored

SendWrite(c) ==
    /\ Writing(c, "send")
    /\ LET m == call[c].arg IN
       /\ Chatting /\ IsNew(m)
       /\ stored' = stored \union {m}
       /\ Arrives("admins", m)
    /\ adminUnread' = adminUnread + 1
    /\ Tells(c)
    /\ UNCHANGED <<ticketVars, userUnread, history, inbox>>

\* What reading leaves of a badge.
ReadAll(unread) == 0

UserReadWrite(c) ==
    /\ Writing(c, "userRead")
    /\ userUnread' = ReadAll(userUnread) /\ Cleared("member") /\ Ends(c)
    /\ UNCHANGED <<ticketVars, adminUnread, stored, history, inbox>>

\* claimInTx inside a handler that read the ticket as unassigned: it takes it if it still is.
\* A claim that matches no row finds an assignee, and an assignee never goes away, so the
\* statement after it may be looked at together with it.
Claims(c)     == call[c].saw = None /\ assignee = None
OwnerAfter(c) == IF Claims(c) THEN call[c].by ELSE assignee
Assigned(a)   == [type |-> "assigned", by |-> a, to |-> a, from |-> None]
HistoryLost(c)  == history      \* its fault: the claim leaves no event
HistoryAfter(c) ==
    IF Claims(c) THEN Append(history, Assigned(call[c].by)) ELSE history

\* The condition on the owner repeated in the update; its fault is to trust the first read.
TrustRead(c)  == TRUE
StillMine(c)  == Super(call[c].by) \/ OwnerAfter(c) = call[c].by

\* The condition on the status repeated in the update.
StillOpen(c)  == Chatting

ReplyWrite(c) ==
    /\ Writing(c, "reply")
    /\ StillOpen(c) /\ StillMine(c) /\ IsNew(call[c].arg)
    /\ assignee' = OwnerAfter(c) /\ history' = HistoryAfter(c)
    /\ status' = IF Claims(c) THEN "in_progress" ELSE status
    /\ stored' = stored \union {call[c].arg}
    /\ userUnread' = userUnread + 1 /\ Arrives("member", call[c].arg)
    /\ Tells(c)
    /\ UNCHANGED <<rating, adminUnread, inbox>>

ClaimWrite(c) ==
    /\ Writing(c, "claim") /\ Chatting /\ assignee = None
    /\ assignee' = call[c].by /\ status' = "in_progress"
    /\ history' = Append(history, Assigned(call[c].by))
    /\ Ends(c)
    /\ UNCHANGED <<rating, badgeVars, stored, inbox>>

\* What a reassignment leaves as status.
StatusTaken == "in_progress"

\* The event names the assignee that was read, not the one that is replaced.
ReassignWrite(c) ==
    /\ Writing(c, "reassign") /\ Chatting
    /\ assignee' = call[c].arg /\ status' = StatusTaken
    /\ history' = Append(history,
          [type |-> IF call[c].saw = None THEN "assigned" ELSE "reassigned",
           by |-> call[c].by, to |-> call[c].arg, from |-> call[c].saw])
    /\ Ends(c)
    /\ UNCHANGED <<rating, badgeVars, stored, inbox>>

ResolveWrite(c) ==
    /\ Writing(c, "resolve")
    /\ Chatting /\ StillMine(c)
    /\ assignee' = OwnerAfter(c) /\ status' = "resolved"
    /\ history' = Append(HistoryAfter(c), [type |-> "resolved", by |-> call[c].by])
    /\ adminUnread' = 0 /\ Cleared("admins")
    /\ Tells(c)
    /\ UNCHANGED <<rating, userUnread, stored, inbox>>

\* By id alone: the ticket may have been given to another admin since it was read.
AdminReadWrite(c) ==
    /\ Writing(c, "adminRead")
    /\ adminUnread' = ReadAll(adminUnread) /\ Cleared("admins") /\ Ends(c)
    /\ UNCHANGED <<ticketVars, userUnread, stored, history, inbox>>

\* One conditional update, no read before it.
Rate(r) ==
    /\ status = "resolved" /\ rating = None
    /\ rating' = r
    /\ UNCHANGED <<status, assignee, badgeVars, stored, history, inbox, call>>

\* notifyAdmins and notifyMemberThread, after the commit.  A member's message pings the
\* admins only while nobody has taken the ticket.
Notified(side, n) == inbox' = [inbox EXCEPT ![side] = @ \union {n}]

Tell(c) ==
    /\ call[c].at = "tell" /\ Ends(c)
    /\ \/ call[c].op = "create"  /\ Notified("admins", "ticket")
       \/ call[c].op = "send"    /\ IF assignee = None THEN Notified("admins", call[c].arg)
                                                       ELSE UNCHANGED inbox
       \/ call[c].op = "reply"   /\ Notified("member", call[c].arg)
       \/ call[c].op = "resolve" /\ Notified("member", "ticket")
    /\ UNCHANGED <<ticketVars, badgeVars, stored, history>>

\* The call ends in an error, or its process dies; the fault is to report a transaction
\* that was refused.
RefusedTells(c) ==
    /\ call[c].at = "write" /\ Tells(c)
    /\ UNCHANGED <<ticketVars, badgeVars, stored, history, inbox>>

CallEnds(c) ==
    /\ call[c].at # "idle" /\ Ends(c)
    /\ UNCHANGED <<ticketVars, badgeVars, stored, history, inbox>>

-----------------------------------------------------------------------------

MemberCall(c) ==
    \/ CreateRead(c) \/ UserRead(c) \/ \E m \in Messages : SendRead(c, m)
    \/ CreateWrite(c) \/ SendWrite(c) \/ UserReadWrite(c)

AdminCall(c) ==
    \/ \E m \in Messages : ReplyRead(c, m)
    \/ \E a \in Admins :
        \/ ClaimRead(c, a) \/ ResolveRead(c, a) \/ AdminRead(c, a)
        \/ \E to \in Admins : ReassignRead(c, a, to)
    \/ ReplyWrite(c) \/ ClaimWrite(c) \/ ReassignWrite(c) \/ ResolveWrite(c) \/ AdminReadWrite(c)

Next ==
    \/ \E c \in Calls : MemberCall(c) \/ AdminCall(c) \/ Tell(c) \/ CallEnds(c)
    \/ \E r \in Ratings : Rate(r)

Spec == Init /\ [][Next]_vars

-----------------------------------------------------------------------------
(* Properties. *)

\* A badge shows exactly the messages that came in since it was cleared (the new ticket
\* counts as one for the admins): retries and racing sends of one message count once, and
\* a message whose transaction failed is not counted.
BadgesCount ==
    /\ userUnread = Cardinality(unseen["member"])
    /\ adminUnread = Cardinality(unseen["admins"])

\* A ticket is open exactly while nobody has it: whichever of claim, first reply, hand-over
\* and resolve come first, work on it has one admin who answers for it.
OpenIsUnowned ==
    /\ status \in {"none", "open"} => assignee = None
    /\ status \in {"in_progress", "resolved"} => assignee # None

\* A trail that fits a ticket of this status and this owner: it begins with the creation,
\* ends with the resolution if there was one, and its newest assignment names the owner.
IsAssignment(e) == e.type \in {"assigned", "reassigned"}

TellsStory(trail, state, owner) ==
    /\ \A i \in DOMAIN trail :
          /\ trail[i].type = "created" <=> i = 1
          /\ trail[i].type = "resolved" <=> state = "resolved" /\ i = Len(trail)
          /\ IsAssignment(trail[i]) /\ (\A j \in DOMAIN trail : IsAssignment(trail[j]) => j <= i)
                => trail[i].to = owner
    /\ (\A i \in DOMAIN trail : ~IsAssignment(trail[i])) => owner = None

\* The audit trail tells the ticket's story, whichever calls raced: an admin reading it sees
\* who has the ticket, and one resolution at its end.
HistoryTellsOwner == TellsStory(history, status, assignee)

\* A notice in an inbox is about something that happened: a stored message of the other
\* side, the ticket, or its resolution.
NoticesAreTrue ==
    /\ inbox["admins"] \ {"ticket"} \subseteq {m \in stored : Writer[m] = Member}
    /\ inbox["member"] \ {"ticket"} \subseteq {m \in stored : Writer[m] \in Admins}
    /\ "ticket" \in inbox["member"] => status = "resolved"

\* "One admin owns a ticket": a reply is stored, and a ticket resolved, only by its owner at
\* that moment or by a super admin, although the check was made on a ticket read earlier.
OnlyOwnerActs ==
    [][/\ \A m \in stored' \ stored : Writer[m] \in Admins =>
             Super(Writer[m]) \/ assignee' = Writer[m]
       /\ status # "resolved" /\ status' = "resolved" =>
             Super(history'[Len(history')].by) \/ assignee' = history'[Len(history')].by]_vars

\* "Terminal; the chat becomes read-only": once resolved nothing of the ticket changes but the
\* badges and one rating, whatever calls were under way.
ResolvedIsFinal ==
    [][status = "resolved" =>
          /\ UNCHANGED <<status, assignee, stored, history>>
          /\ rating # None => rating' = rating]_vars

=============================================================================
