----------------------------- MODULE ChatSocket -----------------------------
(***************************************************************************)
(* The chat of an admin's browser tab, from end to end: the socket store   *)
(* of the tab (apps/frontend/src/store/tickets/ticketSocketStore.ts), the  *)
(* ticket page that sends and shows messages through it, and the server's  *)
(* socket feed (apps/backend/src/lib/live-tickets-feed.ts) with the frame  *)
(* handler behind it (modules/tickets/tickets.socket.ts).                  *)
(*                                                                         *)
(* A socket is a slot: "off" in the tab once its close event has run, and  *)
(* reused when the server holds nothing of it either.  Frames of one       *)
(* socket stay in order in both directions; a dropped connection loses the *)
(* frames under way, while what the server had already queued is handled.  *)
(***************************************************************************)
EXTENDS Naturals, Sequences, FiniteSets, SequencesExt, FiniteSetsExt

CONSTANTS
    Sockets,        \* slots for the sockets the tab opens
    None,           \* the tab holds no socket
    Reloads,        \* slots for the thread page's history requests
    Pages,          \* whether the tab may have been loaded with a thread open, and without
    MaxSends,       \* messages the admin writes
    MaxPresses,     \* presses of Send and of the history's retry button
    MaxTheirs,      \* messages the member writes
    PageSize,       \* newest messages a history request returns (limit 30)
    Slow,           \* TRUE when the timers of a request may run out
    MaxExpiries,    \* times the access token expires
    MaxDrops,       \* times a connection is lost
    MaxRefusals,    \* session refreshes that fail
    MaxLost,        \* events Redis fails to publish
    MaxEvents       \* of presses, messages of the member, expiries, losses and refusals, all
                    \* together: with a thread open, and without

Chat == "chat"                       \* the composer's request
Requests == {Chat} \union Reloads

ASSUME ChatAssumption ==
    /\ Sockets # {} /\ None \notin Sockets /\ Chat \notin Reloads
    /\ IsFiniteSet(Sockets) /\ IsFiniteSet(Reloads)
    /\ {MaxSends, MaxPresses, MaxTheirs, PageSize} \subseteq Nat
    /\ {MaxExpiries, MaxDrops, MaxRefusals, MaxLost} \subseteq Nat
    /\ MaxEvents \in [BOOLEAN -> Nat] /\ PageSize # 0
    /\ Pages \subseteq BOOLEAN /\ (TRUE \in Pages => Reloads # {})
    /\ Slow \in BOOLEAN

Ours(n) == <<"admin", n>>
Theirs(n) == <<"member", n>>
Messages == {Ours(n) : n \in 1..MaxSends} \union {Theirs(n) : n \in 1..MaxTheirs}

VARIABLES
    \* the socket store of the tab
    ws,           \* the socket the store holds
    timer,        \* a reconnect is scheduled
    connected,    \* hasConnectedBefore
    request,      \* how far each request() has come
    \* session refresh (lib/api.ts)
    cookie,       \* the access_token cookie is unexpired
    refreshing,   \* the shared refresh is under way
    reconnect,    \* where onclose's continuation stands among those waiting for the refresh
    \* the ticket page
    open,         \* it is there, and listens
    written,      \* messages whose send was answered, the composer being cleared after each
    shown,        \* messages in the thread
    historyError, \* the page says that the history could not be loaded
    since,        \* history variable: where in the ticket the first loaded page ends
    crossed,      \* history variable: a history request was given up beside another one, and
                  \* none has been made since
    \* sockets
    tab,          \* what the tab's end is
    srv,          \* the server has the socket registered and open
    fresh,        \* the token the socket was opened with is unexpired
    inbox,        \* frames sent to the server and not handled yet
    pushes,       \* the server's chain of events to verify and push
    wire,         \* what the server has sent and the tab has not taken
    \* the ticket
    log,          \* ticket_messages, oldest first
    unpublished,  \* stored messages whose event is still to be published
    lost,         \* messages whose event Redis did not publish
    used          \* the bounds used so far

storeVars   == <<ws, timer, connected, request>>
sessionVars == <<cookie, refreshing, reconnect>>
pageVars    == <<open, written, shown, historyError, since, crossed>>
socketVars  == <<tab, srv, fresh, inbox, pushes, wire>>
ticketVars  == <<log, unpublished, lost>>
vars == <<storeVars, sessionVars, pageVars, socketVars, ticketVars, used>>

Unloaded == MaxSends + MaxTheirs + 1

Frame == [by : Requests, id : Nat, msg : Messages \union {None}]
Item == [kind : {"event"}, msg : Messages]
          \union [kind : {"ack"}, by : Requests, id : Nat, code : {"ok", "expired", "refused"},
                  items : SUBSET Messages]
          \union [kind : {"close"}]

TypeOK ==
    /\ ws \in Sockets \union {None} /\ {timer, connected} \subseteq BOOLEAN
    /\ request \in [Requests -> [at : {"idle", "waiting", "sent", "refreshing"},
                                 id : Nat, retry : BOOLEAN]]
    /\ {cookie, refreshing, historyError, open, crossed} \subseteq BOOLEAN
    /\ reconnect \in {"none", "first", "last"}
    /\ written \in 0..MaxSends /\ shown \subseteq Messages /\ since \in 0..Unloaded
    /\ tab \in [Sockets -> {"off", "connecting", "open"}]
    /\ {srv, fresh} \subseteq [Sockets -> BOOLEAN]
    /\ inbox \in [Sockets -> Seq(Frame)]
    /\ pushes \in [Sockets -> Seq(Messages)]
    /\ wire \in [Sockets -> Seq(Item)]
    /\ log \in Seq(Messages) /\ {unpublished, lost} \subseteq SUBSET Messages
    /\ used \in [{"presses", "theirs", "expiries", "drops", "refusals"} -> Nat]

At(state) == {r \in Requests : request[r].at = state}
Free == {s \in Sockets : tab[s] = "off" /\ ~srv[s] /\ inbox[s] = <<>>}
Spent == used["presses"] + used["theirs"] + used["expiries"] + used["drops"] + used["refusals"]
Use(bound) == Spent < MaxEvents[open] /\ used' = [used EXCEPT ![bound] = @ + 1]

\* The tab loads: the store opens its first socket, and the page of an open thread asks for
\* the newest messages as soon as it is there.
Init ==
    /\ ws = CHOOSE s \in Sockets : TRUE
    /\ timer = FALSE /\ connected = FALSE /\ open \in Pages
    /\ request = [r \in Requests |->
                    [at |-> IF open /\ r = (CHOOSE h \in Reloads : TRUE)
                            THEN "waiting" ELSE "idle",
                     id |-> 0, retry |-> FALSE]]
    /\ cookie = TRUE /\ refreshing = FALSE /\ reconnect = "none"
    /\ written = 0 /\ shown = {} /\ historyError = FALSE /\ since = Unloaded
    /\ crossed = FALSE
    /\ tab = [s \in Sockets |-> IF s = ws THEN "connecting" ELSE "off"]
    /\ srv = [s \in Sockets |-> FALSE]
    /\ fresh = [s \in Sockets |-> s = ws]
    /\ inbox = [s \in Sockets |-> <<>>]
    /\ pushes = [s \in Sockets |-> <<>>]
    /\ wire = [s \in Sockets |-> <<>>]
    /\ log = <<>> /\ unpublished = {} /\ lost = {}
    /\ used = [b \in {"presses", "theirs", "expiries", "drops", "refusals"} |-> 0]
-----------------------------------------------------------------------------
(* The tab's requests.                                                     *)

\* requestOnce on an open socket: a new correlation id, and the frame goes out.
Sent(r) == [request[r] EXCEPT !.at = "sent", !.id = @ + 1]
Waiting(r) == [request[r] EXCEPT !.at = "waiting"]
Idle(r) == [request[r] EXCEPT !.at = "idle", !.retry = FALSE]
FrameOf(r) == [by |-> r, id |-> request[r].id + 1,
               msg |-> IF r = Chat THEN Ours(written + 1) ELSE None]

\* The requests of S fail: a failed history request leaves the page's error banner.
Failing(S) == historyError' = (historyError \/ S \cap Reloads # {})

\* A request is made: its frame goes out at once on an open socket, otherwise it waits for one.
Ask(r) ==
    IF ws # None /\ tab[ws] = "open"
    THEN /\ request' = [request EXCEPT ![r] = Sent(r)]
         /\ inbox' = [inbox EXCEPT ![ws] = Append(@, FrameOf(r))]
    ELSE /\ request' = [request EXCEPT ![r] = Waiting(r)]
         /\ UNCHANGED inbox

\* The admin presses Send; after a failure the same message, with its clientMessageId.
Press ==
    /\ request[Chat].at = "idle"
    /\ written < MaxSends /\ used["presses"] < MaxPresses
    /\ Ask(Chat) /\ Use("presses")
    /\ UNCHANGED <<ws, timer, connected, sessionVars, pageVars, tab, srv, fresh, pushes, wire, ticketVars>>

\* The admin asks for the history again, on the error banner.
RetryHistory ==
    /\ historyError /\ used["presses"] < MaxPresses
    /\ \E h \in Reloads : request[h].at = "idle" /\ Ask(h)
    /\ crossed' = FALSE /\ Use("presses")
    /\ UNCHANGED <<ws, timer, connected, sessionVars, open, written, shown, historyError, since,
                   tab, srv, fresh, pushes, wire, ticketVars>>

\* OPEN_TIMEOUT_MS while a request waits for a socket, REQUEST_TIMEOUT_MS for its ack.
Timed(r) == request[r].at \in {"waiting", "sent"}
TimesOut(r) ==
    /\ Slow /\ Timed(r)
    /\ request' = [request EXCEPT ![r] = Idle(r)]
    /\ Failing({r})
    /\ crossed' = (crossed \/ (r \in Reloads /\ ~(Reloads \ {r} \subseteq At("idle"))))
    /\ UNCHANGED <<ws, timer, connected, sessionVars, open, written, shown, since, socketVars, ticketVars, used>>

\* The requests of S take the retry path of request(): they wait for the shared refresh,
\* which they start if none is under way.
Reauthenticates(S, resume) ==
    /\ refreshing' = (refreshing \/ S # {} \/ resume # "none")
    /\ reconnect' = CASE resume # "none" -> IF S # {} THEN "first" ELSE resume
                      [] resume = "none" /\ S # {} /\ reconnect = "last" -> "first"
                      [] OTHER -> reconnect

\* onclose.  A socket the store no longer holds closes unnoticed.  Otherwise every pending
\* request fails, a first attempt going through the refresh to its retry; what waits for a
\* socket is told there is none; a 4401 close refreshes the session before it reconnects.
Closes(s, auth) ==
    LET again  == {r \in At("sent") : s = ws /\ ~request[r].retry}
        failed == IF s = ws THEN At("waiting") \union (At("sent") \ again) ELSE {}
        resume == IF s # ws \/ ~auth THEN "none"
                  ELSE IF At("refreshing") = {} THEN "first" ELSE "last"
    IN  /\ tab' = [tab EXCEPT ![s] = "off"]
        /\ wire' = [wire EXCEPT ![s] = <<>>]
        /\ ws' = IF s = ws THEN None ELSE ws
        /\ timer' = (timer \/ (s = ws /\ ~auth))
        /\ request' = [r \in Requests |->
                         IF r \in again THEN [request[r] EXCEPT !.at = "refreshing"]
                         ELSE IF r \in failed THEN Idle(r) ELSE request[r]]
        /\ Failing(failed)
        /\ Reauthenticates(again, resume)
        /\ UNCHANGED <<connected, cookie, open, written, shown, since, crossed, fresh, pushes, ticketVars>>
-----------------------------------------------------------------------------
(* Opening sockets.                                                        *)

\* openSocket, which leaves the socket it replaces as it is.
Opening == CHOOSE s \in Free : TRUE

TimerFires ==
    /\ timer /\ Free # {}
    /\ timer' = FALSE /\ ws' = Opening
    /\ tab' = [tab EXCEPT ![Opening] = "connecting"]
    /\ fresh' = [fresh EXCEPT ![Opening] = cookie]
    /\ UNCHANGED <<connected, request, sessionVars, pageVars, srv, inbox, pushes, wire, ticketVars, used>>

\* IfDropped reloads the thread only after a lost connection.
IfDropped == connected /\ open /\ used["drops"] > 0

\* hasConnectedBefore, on a page that listens.
Reconnected == connected /\ open

\* The handshake succeeds.  From the second one on the page asks for its newest messages
\* again; then the requests that wait are woken, and one that does not find an open socket
\* in ws fails.
Opens(s) ==
    LET reload == IF Reconnected THEN {CHOOSE h \in Reloads : request[h].at = "idle"} ELSE {}
        woken  == At("waiting") \union reload
        found  == ws = s \/ (ws # None /\ tab[ws] = "open")
    IN  /\ tab[s] = "connecting" /\ fresh[s]
        /\ Reconnected => Reloads \cap At("idle") # {}
        /\ tab' = [tab EXCEPT ![s] = "open"]
        /\ srv' = [srv EXCEPT ![s] = TRUE]
        /\ connected' = TRUE
        /\ request' = [r \in Requests |-> IF r \notin woken THEN request[r]
                                          ELSE IF found THEN Sent(r) ELSE Idle(r)]
        /\ \/ /\ found
              /\ \E order \in SetToSeqs(woken) :
                   inbox' = [inbox EXCEPT ![ws] = @ \o [i \in DOMAIN order |-> FrameOf(order[i])]]
              /\ UNCHANGED historyError
           \/ ~found /\ Failing(woken) /\ UNCHANGED inbox
        /\ crossed' = (crossed /\ ~Reconnected)
        /\ UNCHANGED <<ws, timer, sessionVars, open, written, shown, since, fresh, pushes, wire, ticketVars, used>>

\* The upgrade is answered 401, with a token that is expired.
Refused(s) ==
    /\ tab[s] = "connecting" /\ ~fresh[s]
    /\ Closes(s, FALSE)
    /\ UNCHANGED <<srv, inbox, used>>

\* The connection is lost: some of the frames under way still reach the server's queue.
Drops(s) ==
    /\ tab[s] # "off" /\ used["drops"] < MaxDrops
    /\ \E arrived \in 0..Len(inbox[s]) : inbox' = [inbox EXCEPT ![s] = SubSeq(@, 1, arrived)]
    /\ Closes(s, FALSE) /\ Use("drops")
    /\ UNCHANGED srv
-----------------------------------------------------------------------------
(* The session.                                                            *)

TokenExpires ==
    /\ cookie /\ used["expiries"] < MaxExpiries
    /\ cookie' = FALSE
    /\ fresh' = [s \in Sockets |-> FALSE]
    /\ Use("expiries")
    /\ UNCHANGED <<storeVars, refreshing, reconnect, pageVars, tab, srv, inbox, pushes, wire, ticketVars>>

\* A REST request answered 401 starts the shared refresh too.
RestRefreshes ==
    /\ ~cookie /\ ~refreshing
    /\ refreshing' = TRUE
    /\ UNCHANGED <<storeVars, cookie, reconnect, pageVars, socketVars, ticketVars, used>>

\* OnSuccess schedules the reconnect only behind a refresh that succeeded.
OnSuccess(ok) == ok /\ reconnect # "none"

\* onclose's continuation runs whether the refresh succeeded or not.
Resumes(ok) == reconnect # "none"

\* The refresh is answered and what waited for it goes on, in the order it came: each
\* request in reauthenticate drops the timer, closes the socket in ws and opens one of its
\* own (only the last stays), and onclose's continuation schedules a reconnect at once.
RefreshDone(ok) ==
    /\ refreshing /\ refreshing' = FALSE
    /\ cookie' = (cookie \/ ok)
    /\ reconnect' = "none"
    /\ IF At("refreshing") = {}
       THEN /\ timer' = (timer \/ Resumes(ok))
            /\ UNCHANGED <<ws, request, tab, srv, fresh, pushes, wire>>
       ELSE /\ Free # {}
            /\ ws' = Opening
            /\ timer' = (Resumes(ok) /\ reconnect = "last")
            /\ request' = [r \in Requests |->
                             IF request[r].at = "refreshing"
                             THEN [Waiting(r) EXCEPT !.retry = TRUE] ELSE request[r]]
            /\ tab' = [s \in Sockets |-> IF s = Opening THEN "connecting"
                                         ELSE IF s = ws THEN "off" ELSE tab[s]]
            /\ srv' = [s \in Sockets |-> srv[s] /\ s # ws]
            /\ fresh' = [fresh EXCEPT ![Opening] = cookie']
            /\ pushes' = [s \in Sockets |-> IF s = ws THEN <<>> ELSE pushes[s]]
            /\ wire' = [s \in Sockets |-> IF s = ws THEN <<>> ELSE wire[s]]
    /\ UNCHANGED <<connected, pageVars, inbox, ticketVars>>

Refreshed == RefreshDone(TRUE) /\ UNCHANGED used
RefreshFails == used["refusals"] < MaxRefusals /\ RefreshDone(FALSE) /\ Use("refusals")
-----------------------------------------------------------------------------
(* The server.                                                             *)

\* What the server sends on s; it reaches a tab whose end is still there.
Sends(s, items) ==
    wire' = [wire EXCEPT ![s] = IF srv[s] /\ tab[s] = "open" THEN @ \o items ELSE @]
CloseItem == [kind |-> "close"]
AckOf(f, code, items) == [kind |-> "ack", by |-> f.by, id |-> f.id, code |-> code, items |-> items]

\* close(4401): the server's end is gone, and with it what is still to be pushed there.
ServerCloses(s) ==
    /\ srv' = [srv EXCEPT ![s] = FALSE]
    /\ pushes' = [pushes EXCEPT ![s] = <<>>]

Latest(n) == {log[i] : i \in {j \in DOMAIN log : j + n > Len(log)}}

\* NotLookedUp stores every frame anew.
NotLookedUp(m) == FALSE

\* The message is already stored under its clientMessageId.
Replayed(m) == Contains(log, m)

\* The next frame of a socket: verified again, then answered by the service, where a
\* message already stored under its clientMessageId is answered without being stored again.
Handle(s) ==
    LET f == Head(inbox[s])
        store == /\ log' = Append(log, f.msg) /\ unpublished' = unpublished \union {f.msg}
                 /\ Sends(s, <<AckOf(f, "ok", {f.msg})>>)
        replay == Sends(s, <<AckOf(f, "ok", {f.msg})>>) /\ UNCHANGED <<log, unpublished>>
        refuse == Sends(s, <<AckOf(f, "refused", {})>>) /\ UNCHANGED <<log, unpublished>>
    IN  /\ inbox[s] # <<>>
        /\ inbox' = [inbox EXCEPT ![s] = Tail(@)]
        /\ \/ /\ ~fresh[s]
              /\ Sends(s, <<AckOf(f, "expired", {}), CloseItem>>)
              /\ ServerCloses(s) /\ UNCHANGED <<log, unpublished>>
           \/ /\ fresh[s] /\ f.by = Chat
              /\ IF Replayed(f.msg) THEN replay ELSE store \/ refuse
              /\ UNCHANGED <<srv, pushes>>
           \/ /\ fresh[s] /\ f.by \in Reloads
              /\ Sends(s, <<AckOf(f, "ok", Latest(PageSize))>>)
              /\ UNCHANGED <<srv, pushes, log, unpublished>>
        /\ UNCHANGED <<storeVars, sessionVars, pageVars, tab, fresh, lost, used>>

\* The member writes.
TheyWrite ==
    LET m == Theirs(used["theirs"] + 1)
    IN  /\ used["theirs"] < MaxTheirs /\ Use("theirs")
        /\ log' = Append(log, m) /\ unpublished' = unpublished \union {m}
        /\ UNCHANGED <<storeVars, sessionVars, pageVars, socketVars, lost>>

\* The event of a stored message, to every socket the admin has at the time.
Publish(m) ==
    /\ m \in unpublished /\ unpublished' = unpublished \ {m}
    /\ \/ /\ pushes' = [s \in Sockets |-> IF srv[s] THEN Append(pushes[s], m) ELSE pushes[s]]
          /\ UNCHANGED lost
       \/ /\ Cardinality(lost) < MaxLost
          /\ lost' = lost \union {m} /\ UNCHANGED pushes
    /\ UNCHANGED <<storeVars, sessionVars, pageVars, tab, srv, fresh, inbox, wire, log, used>>

\* The next link of a socket's push chain: sent while the credentials are still good.
Push(s) ==
    /\ pushes[s] # <<>>
    /\ \/ /\ fresh[s]
          /\ Sends(s, <<[kind |-> "event", msg |-> Head(pushes[s])]>>)
          /\ pushes' = [pushes EXCEPT ![s] = Tail(@)] /\ UNCHANGED srv
       \/ /\ ~fresh[s]
          /\ Sends(s, <<CloseItem>>) /\ ServerCloses(s)
    /\ UNCHANGED <<storeVars, sessionVars, pageVars, tab, fresh, inbox, ticketVars, used>>

\* The heartbeat closes a socket whose token has expired and reaps one whose tab is gone.
Heartbeat(s) ==
    /\ srv[s] /\ (~fresh[s] \/ tab[s] = "off")
    /\ Sends(s, <<CloseItem>>) /\ ServerCloses(s)
    /\ UNCHANGED <<storeVars, sessionVars, pageVars, tab, fresh, inbox, ticketVars, used>>
-----------------------------------------------------------------------------
(* What the tab receives.                                                  *)

Taken(s) == wire' = [wire EXCEPT ![s] = Tail(@)]
Arrives(s, kind) == tab[s] = "open" /\ wire[s] # <<>> /\ Head(wire[s]).kind = kind

ReceiveEvent(s) ==
    /\ Arrives(s, "event") /\ Taken(s)
    /\ shown' = IF open THEN shown \union {Head(wire[s]).msg} ELSE shown
    /\ UNCHANGED <<storeVars, sessionVars, open, written, historyError, since, crossed, tab, srv, fresh, inbox,
                   pushes, ticketVars, used>>

\* An ack that answers no pending request is dropped.
Answers(a) == request[a.by].at = "sent" /\ request[a.by].id = a.id
ReceiveAck(s) ==
    LET a == Head(wire[s])
        r == a.by
        pending == Answers(a)
        retries == pending /\ a.code = "expired" /\ ~request[r].retry
    IN  /\ Arrives(s, "ack") /\ Taken(s)
        /\ request' = [request EXCEPT ![r] =
                         IF retries THEN [@ EXCEPT !.at = "refreshing"]
                         ELSE IF pending THEN Idle(r) ELSE @]
        /\ Reauthenticates(IF retries THEN {r} ELSE {}, "none")
        /\ \/ /\ pending /\ a.code = "ok"
              /\ shown' = shown \union a.items
              /\ written' = written + (IF r = Chat THEN 1 ELSE 0)
              /\ historyError' = (historyError /\ r = Chat)
              /\ since' = IF r = Chat \/ since # Unloaded THEN since
                          ELSE Max({0} \union {i \in DOMAIN log : log[i] \in a.items})
           \/ /\ ~(pending /\ a.code = "ok")
              /\ Failing(IF pending /\ ~retries THEN {r} ELSE {})
              /\ UNCHANGED <<written, shown, since>>
        /\ UNCHANGED <<ws, timer, connected, cookie, open, crossed, tab, srv, fresh, inbox, pushes, ticketVars, used>>

ReceiveClose(s) ==
    /\ Arrives(s, "close")
    /\ Closes(s, TRUE)
    /\ UNCHANGED <<srv, inbox, used>>
-----------------------------------------------------------------------------
Tab == \/ Press \/ RetryHistory \/ TimerFires
       \/ \E r \in Requests : TimesOut(r)
       \/ \E s \in Sockets : ReceiveEvent(s) \/ ReceiveAck(s) \/ ReceiveClose(s)
Session == TokenExpires \/ RestRefreshes \/ Refreshed \/ RefreshFails
Link == \E s \in Sockets : Opens(s) \/ Refused(s) \/ Drops(s)
Server == \/ TheyWrite
          \/ \E m \in Messages : Publish(m)
          \/ \E s \in Sockets : Handle(s) \/ Push(s) \/ Heartbeat(s)

Next == Tab \/ Session \/ Link \/ Server

\* Fairness: timers run out, frames and events that were sent arrive, the server works off
\* its queues, a connection attempt and the refresh's fetch end.  The admin, the member,
\* other REST requests, expiry and loss owe nothing.
Fairness ==
    /\ WF_vars(TimerFires) /\ WF_vars(Refreshed \/ RefreshFails)
    /\ \A r \in Requests : WF_vars(TimesOut(r))
    /\ \A m \in Messages : WF_vars(Publish(m))
    /\ \A s \in Sockets :
         /\ WF_vars(Opens(s) \/ Refused(s))
         /\ WF_vars(ReceiveEvent(s) \/ ReceiveAck(s) \/ ReceiveClose(s))
         /\ WF_vars(Handle(s)) /\ WF_vars(Push(s)) /\ WF_vars(Heartbeat(s))

Spec == Init /\ [][Next]_vars /\ Fairness
-----------------------------------------------------------------------------
(* Properties.                                                             *)

\* A message whose send was answered is in the ticket, in the order the admin wrote them,
\* and no message is there twice: the retry after an expired session or a lost connection,
\* and a press after a timeout, may send its frame again, over another socket, while the
\* first one is still in the server's queue.
SentOnce ==
    /\ \A i, j \in DOMAIN log : log[i] = log[j] => i = j
    /\ \E positions \in [1..written -> DOMAIN log] :
         \A n \in 1..written : /\ log[positions[n]] = Ours(n)
                               /\ \A k \in 1..n - 1 : positions[k] < positions[n]

\* Nothing is under way, and the tab's socket is open.
Quiet ==
    /\ ws # None /\ tab[ws] = "open" /\ srv[ws]
    /\ \A r \in Requests : request[r].at = "idle"
    /\ \A s \in Sockets : inbox[s] = <<>> /\ pushes[s] = <<>> /\ wire[s] = <<>>
    /\ unpublished = {}

\* Of the newest page of the ticket an open thread misses nothing that came after its first
\* page: once things are quiet the page shows it, or says that it could not load the history,
\* whatever connections were lost, replaced or closed for an expired token and whatever
\* requests ran out of time on the way.  What can be missing is an event that Redis never
\* published; what a gap longer than a page (30 messages) left behind, as the reload reads
\* one page only; and, where two history requests were under way and one was given up, what
\* that one would have brought: the answer to the other clears the banner.
ThreadCatchesUp ==
    Quiet /\ ~historyError /\ ~crossed =>
        \A i \in DOMAIN log : i >= since /\ i + PageSize > Len(log) => log[i] \in shown \union lost

\* A tab whose session is good in the end has its socket open in the end, whatever refreshes
\* failed and connections were lost before.
TabHeals == <>[]cookie => <>[](ws # None /\ tab[ws] = "open")
=============================================================================
