----------------------------- MODULE StockFeed -----------------------------
(***************************************************************************)
(* The live price feed: the AngelOne link                                  *)
(* (apps/backend/src/sockets/angelone/angelone.client.ts), the set of      *)
(* stocks the backend follows (lib/live-stock-feed.ts), filled from the    *)
(* recommendations and by each new one                                     *)
(* (modules/stock-recommendations/stock-recommendations.service.ts), the   *)
(* market status told to browsers (sockets/angelone/market-status.ts), and *)
(* the browser's store (store/liveStockPrices/liveStockPricesStore.ts).    *)
(*                                                                         *)
(* Prices are left out: what matters here is who is followed, who is asked *)
(* for upstream and what each browser believes about the market.           *)
(***************************************************************************)
EXTENDS Naturals, FiniteSets

CONSTANTS
    Stocks,       \* stocks with a token and an exchange
    Browsers,     \* tabs on /ws/stock-prices
    MaxRefreshes  \* refreshes of the followed set under way at once

ASSUME FeedAssumption ==
    IsFiniteSet(Stocks) /\ IsFiniteSet(Browsers) /\ MaxRefreshes \in Nat \ {0}

VARIABLES
    live,      \* stocks with a recommendation that is not deleted
    tracked,   \* keys of tokenToStock
    refresh,   \* refreshTrackedStocks calls: how far each has come, and what it has read
    ensuring,  \* stocks whose ensureSubscribed waits for its read
    link,      \* the AngelOne client
    asked,     \* activeSubscriptions
    upstream,  \* what AngelOne sends ticks for on the open socket
    recent,    \* a tick was recorded less than STALE_MS ago
    wasLive,   \* the state the watchdog last announced
    told,      \* what each browser was last told; "off" when not connected (its store keeps the
               \* last status until it is back, which no property speaks of)
    early      \* history variable: browsers that came between a feed's silence and the watchdog

linkVars   == <<link, upstream>>
marketVars == <<recent, wasLive, told, early>>
vars == <<live, tracked, refresh, ensuring, linkVars, asked, marketVars>>

Refreshes == 1..MaxRefreshes
Idle == [at |-> "idle", read |-> {}]
Started == [at |-> "asking", read |-> {}]

TypeOK ==
    /\ {live, tracked, ensuring, asked, upstream} \subseteq SUBSET Stocks
    /\ refresh \in [Refreshes -> [at : {"idle", "asking", "read"}, read : SUBSET Stocks]]
    /\ link \in {"login", "connecting", "open", "pause"}
    /\ {recent, wasLive} \subseteq BOOLEAN
    /\ told \in [Browsers -> {"off", "open", "closed"}] /\ early \subseteq Browsers

\* attach starts a refresh, then the client logs in.
Booted == [i \in Refreshes |-> IF i = 1 THEN Started ELSE Idle]
Nobody == [b \in Browsers |-> "off"]

Init ==
    /\ live \in SUBSET Stocks
    /\ refresh = Booted /\ tracked = {} /\ ensuring = {}
    /\ link = "login" /\ asked = {} /\ upstream = {}
    /\ recent = FALSE /\ wasLive = FALSE /\ told = Nobody /\ early = {}
-----------------------------------------------------------------------------
(* The AngelOne client.                                                    *)

\* subscribe: merged into what is replayed on reconnect, and sent when the socket is open.
\* MergeWhenOpen leaves the merge to the moment it is sent.
MergeWhenOpen(S) == IF link = "open" THEN asked \union S ELSE asked
Merge(S) == asked \union S
Subscribes(S) ==
    /\ asked' = Merge(S)
    /\ upstream' = IF link = "open" THEN upstream \union S ELSE upstream

\* The login succeeds: auth is emitted, whose listener starts a refresh, and a socket is opened.
LogsIn ==
    /\ link = "login" /\ link' = "connecting"
    /\ \E i \in Refreshes : refresh[i].at = "idle" /\ refresh' = [refresh EXCEPT ![i] = Started]
    /\ UNCHANGED <<live, tracked, ensuring, asked, upstream, marketVars>>

LoginFails ==
    /\ link = "login" /\ link' = "pause"
    /\ UNCHANGED <<live, tracked, refresh, ensuring, asked, upstream, marketVars>>

\* All that is asked for is sent as the socket opens.
LinkOpens ==
    /\ link = "connecting" /\ link' = "open"
    /\ upstream' = asked
    /\ UNCHANGED <<live, tracked, refresh, ensuring, asked, marketVars>>

LinkCloses ==
    /\ link \in {"connecting", "open"} /\ link' = "pause"
    /\ upstream' = {}
    /\ UNCHANGED <<live, tracked, refresh, ensuring, asked, marketVars>>

StartsAgain ==
    /\ link = "pause" /\ link' = "login"
    /\ UNCHANGED <<live, tracked, refresh, ensuring, asked, upstream, marketVars>>
-----------------------------------------------------------------------------
(* What is followed.                                                       *)

RefreshReads(i) ==
    /\ refresh[i].at = "asking"
    /\ refresh' = [refresh EXCEPT ![i] = [at |-> "read", read |-> live]]
    /\ UNCHANGED <<live, tracked, ensuring, linkVars, asked, marketVars>>

\* The rows are back: the map is cleared and filled, and all of it subscribed.
RefreshFills(i) ==
    /\ refresh[i].at = "read"
    /\ refresh' = [refresh EXCEPT ![i] = Idle]
    /\ tracked' = refresh[i].read
    /\ Subscribes(refresh[i].read)
    /\ UNCHANGED <<live, ensuring, link, marketVars>>

\* A recommendation of s, the first or one more, and the call that follows its commit.
Recommend(s) ==
    /\ live' = live \union {s} /\ ensuring' = ensuring \union {s}
    /\ UNCHANGED <<tracked, refresh, linkVars, asked, marketVars>>

\* The last recommendation of s is deleted: nothing is told to the feed.
Withdraw(s) ==
    /\ s \in live /\ live' = live \ {s}
    /\ UNCHANGED <<tracked, refresh, ensuring, linkVars, asked, marketVars>>

EnsureDone(s) ==
    /\ s \in ensuring /\ ensuring' = ensuring \ {s}
    /\ \/ s \in tracked /\ UNCHANGED <<tracked, asked, upstream>>
       \/ s \notin tracked /\ tracked' = tracked \union {s} /\ Subscribes({s})
    /\ UNCHANGED <<live, refresh, link, marketVars>>

\* Its read fails: logged by the caller.
EnsureFails(s) ==
    /\ s \in ensuring /\ ensuring' = ensuring \ {s}
    /\ UNCHANGED <<live, tracked, refresh, linkVars, asked, marketVars>>

\* The process dies and is started again; also when the query of a refresh fails, whose
\* rejection nobody handles.
Restarts ==
    /\ refresh' = Booted /\ tracked' = {} /\ ensuring' = {}
    /\ link' = "login" /\ asked' = {} /\ upstream' = {}
    /\ recent' = FALSE /\ wasLive' = FALSE /\ told' = Nobody /\ early' = {}
    /\ UNCHANGED live
-----------------------------------------------------------------------------
(* The market status.                                                      *)

Connected == {b \in Browsers : told[b] # "off"}
Announce(status) ==
    /\ told' = [b \in Browsers |-> IF b \in Connected THEN status ELSE "off"]
    /\ early' = {}

\* A tick of a trade that has just happened.  A snapshot with an old exchange time is not
\* recorded and changes nothing here.
Tick(s) ==
    /\ link = "open" /\ s \in upstream
    /\ recent' = TRUE /\ wasLive' = TRUE
    /\ IF wasLive THEN UNCHANGED <<told, early>> ELSE Announce("open")
    /\ UNCHANGED <<live, tracked, refresh, ensuring, linkVars, asked>>

\* STALE_MS pass without one.
GoesSilent ==
    /\ recent /\ recent' = FALSE
    /\ UNCHANGED <<live, tracked, refresh, ensuring, linkVars, asked, wasLive, told, early>>

\* What checkForClose looks at; WhileLinked looks only while the link is up.
WhileLinked == wasLive /\ ~recent /\ link = "open"
Silent == wasLive /\ ~recent
Watchdog ==
    /\ Silent /\ wasLive' = FALSE
    /\ Announce("closed")
    /\ UNCHANGED <<live, tracked, refresh, ensuring, linkVars, asked, recent>>

\* The first thing a browser is told: isMarketLive; UntilTold says closed until it opens.
UntilTold == "closed"
Status == IF recent THEN "open" ELSE "closed"
Joins(b) ==
    /\ told[b] = "off" /\ told' = [told EXCEPT ![b] = Status]
    /\ early' = IF wasLive /\ ~recent THEN early \union {b} ELSE early
    /\ UNCHANGED <<live, tracked, refresh, ensuring, linkVars, asked, recent, wasLive>>

\* The connection is lost; the browser's store tries again by a timer.
Leaves(b) ==
    /\ told[b] # "off" /\ told' = [told EXCEPT ![b] = "off"]
    /\ early' = early \ {b}
    /\ UNCHANGED <<live, tracked, refresh, ensuring, linkVars, asked, recent, wasLive>>
-----------------------------------------------------------------------------
Upstream == LogsIn \/ LoginFails \/ LinkOpens \/ LinkCloses \/ StartsAgain
Follow == \/ \E i \in Refreshes : RefreshReads(i) \/ RefreshFills(i)
          \/ \E s \in Stocks : Recommend(s) \/ Withdraw(s) \/ EnsureDone(s) \/ EnsureFails(s)
          \/ Restarts
Market == \/ \E s \in Stocks : Tick(s)
          \/ \E b \in Browsers : Joins(b) \/ Leaves(b)
          \/ GoesSilent \/ Watchdog

Next == Upstream \/ Follow \/ Market

\* Fairness: queries and logins end, timers run out, an attempt to connect succeeds or
\* fails, a browser's store connects again.  Ticks, admins, silence and loss owe nothing.
Fairness ==
    /\ \A i \in Refreshes : WF_vars(RefreshReads(i)) /\ WF_vars(RefreshFills(i))
    /\ \A s \in Stocks : WF_vars(EnsureDone(s))
    /\ WF_vars(LogsIn \/ LoginFails) /\ WF_vars(LinkOpens \/ LinkCloses) /\ WF_vars(StartsAgain)
    /\ WF_vars(Watchdog)
    /\ \A b \in Browsers : WF_vars(Joins(b))

Spec == Init /\ [][Next]_vars /\ Fairness
-----------------------------------------------------------------------------
(* Properties.                                                             *)

\* A browser knows what was last announced, also one that joins or comes back in between.
\* Only one that joins after the ticks went silent and before the watchdog looked may be
\* wrong: a tick that comes first announces nothing, the watchdog never having seen the
\* silence, and that browser believes in a closed market until the next announcement.
BrowsersFollow ==
    \A b \in Connected : b \notin early => (told[b] = "open") = wasLive

\* A stock that stays recommended is followed in the end, and asked for on every link that is
\* open: if a login succeeds again and again and the process stays up, and however many
\* refreshes crossed its ensureSubscribed, dropped it, or subscribed it while no link was open.
FollowedAgain ==
    []<>(link = "connecting") /\ <>[][~Restarts]_vars =>
        \A s \in Stocks : <>[](s \in live) => <>[](s \in tracked /\ (link = "open" => s \in upstream))

\* When the ticks end for good every browser that stays is told.
ClosedIsTold ==
    <>[]~recent => <>[](\A b \in Browsers : told[b] # "open")
=============================================================================
