---------------------------- MODULE StockFeedProofs ----------------------------
(***************************************************************************)
(* Theorems about StockFeed, for any stocks, browsers and refreshes side   *)
(* by side: its types, what a browser believes about the market, and the   *)
(* safety half of "what is recommended is followed and asked for".         *)
(***************************************************************************)
EXTENDS StockFeed, TLAPS

-----------------------------------------------------------------------------
(* Types. *)

LEMMA BootTyped ==
    /\ Booted \in [Refreshes -> [at : {"idle", "asking", "read"}, read : SUBSET Stocks]]
    /\ Nobody \in [Browsers -> {"off", "open", "closed"}]
BY DEF Booted, Started, Idle, Nobody

LEMMA InitTyped == Init => TypeOK
BY BootTyped DEF Init, TypeOK

LEMMA NextTyped == TypeOK /\ [Next]_vars => TypeOK'
<1> SUFFICES ASSUME TypeOK, [Next]_vars PROVE TypeOK'
  OBVIOUS
<1> USE DEF TypeOK
<1>1. CASE Upstream
  <2>1. CASE LogsIn
    BY <2>1 DEF LogsIn, Started, marketVars
  <2>2. CASE LoginFails \/ LinkOpens \/ LinkCloses \/ StartsAgain
    BY <2>2 DEF LoginFails, LinkOpens, LinkCloses, StartsAgain, marketVars
  <2> QED BY <1>1, <2>1, <2>2 DEF Upstream
<1>2. CASE Follow
  <2>1. ASSUME NEW i \in Refreshes, RefreshReads(i) PROVE TypeOK'
    BY <2>1 DEF RefreshReads, linkVars, marketVars
  <2>2. ASSUME NEW i \in Refreshes, RefreshFills(i) PROVE TypeOK'
    BY <2>2 DEF RefreshFills, Subscribes, Merge, Idle, marketVars
  <2>3. ASSUME NEW s \in Stocks, Recommend(s) \/ Withdraw(s) \/ EnsureFails(s) PROVE TypeOK'
    BY <2>3 DEF Recommend, Withdraw, EnsureFails, linkVars, marketVars
  <2>4. ASSUME NEW s \in Stocks, EnsureDone(s) PROVE TypeOK'
    BY <2>4 DEF EnsureDone, Subscribes, Merge, marketVars
  <2>5. CASE Restarts
    BY <2>5, BootTyped DEF Restarts
  <2> QED BY <1>2, <2>1, <2>2, <2>3, <2>4, <2>5 DEF Follow
<1>3. CASE Market
  <2>1. ASSUME NEW s \in Stocks, Tick(s) PROVE TypeOK'
    BY <2>1 DEF Tick, Announce, Connected, linkVars
  <2>2. ASSUME NEW b \in Browsers, Joins(b) PROVE TypeOK'
    BY <2>2 DEF Joins, Status, linkVars
  <2>3. ASSUME NEW b \in Browsers, Leaves(b) PROVE TypeOK'
    BY <2>3 DEF Leaves, linkVars
  <2>4. CASE GoesSilent
    BY <2>4 DEF GoesSilent, linkVars
  <2>5. CASE Watchdog
    BY <2>5 DEF Watchdog, Announce, Connected, linkVars
  <2> QED BY <1>3, <2>1, <2>2, <2>3, <2>4, <2>5 DEF Market
<1>4. CASE UNCHANGED vars
  BY <1>4 DEF vars, linkVars, marketVars
<1> QED BY <1>1, <1>2, <1>3, <1>4 DEF Next

\* Every variable keeps its type.
THEOREM TypeCorrect == Spec => []TypeOK
<1> QED BY InitTyped, NextTyped, PTL DEF Spec

-----------------------------------------------------------------------------
(* What the browsers believe. *)

\* Ticks mean an announced market, and a browser that came early was told "closed" in one.
ToldInv ==
    /\ recent => wasLive
    /\ \A b \in early : told[b] = "closed" /\ wasLive
    /\ BrowsersFollow

\* Steps that leave the market's side alone.
LEMMA ToldFrame == ASSUME ToldInv, UNCHANGED marketVars PROVE ToldInv'
BY DEF ToldInv, BrowsersFollow, Connected, marketVars

\* After an announcement every browser that is there has been told, and nobody is early.
LEMMA AnnounceTells ==
    ASSUME TypeOK, NEW status \in {"open", "closed"}, Announce(status),
           wasLive' = (status = "open"), recent' => wasLive'
    PROVE  ToldInv'
BY DEF TypeOK, ToldInv, BrowsersFollow, Connected, Announce

LEMMA ToldNext == TypeOK /\ ToldInv /\ [Next]_vars => ToldInv'
<1> SUFFICES ASSUME TypeOK, ToldInv, [Next]_vars PROVE ToldInv'
  OBVIOUS
<1>1. CASE Upstream
  BY <1>1, ToldFrame DEF Upstream, LogsIn, LoginFails, LinkOpens, LinkCloses, StartsAgain
<1>2. CASE Follow /\ ~Restarts
  BY <1>2, ToldFrame
     DEF Follow, RefreshReads, RefreshFills, Recommend, Withdraw, EnsureDone, EnsureFails
<1>3. CASE Restarts
  BY <1>3 DEF Restarts, Nobody, ToldInv, BrowsersFollow, Connected
<1>4. ASSUME NEW s \in Stocks, Tick(s) PROVE ToldInv'
  <2>1. CASE wasLive
    BY <1>4, <2>1 DEF Tick, ToldInv, BrowsersFollow, Connected
  <2>2. CASE ~wasLive
    BY <1>4, <2>2, AnnounceTells DEF Tick
  <2> QED BY <2>1, <2>2
<1>5. ASSUME NEW b \in Browsers, Joins(b) PROVE ToldInv'
  <2>1. told' = [told EXCEPT ![b] = Status] /\ wasLive' = wasLive /\ recent' = recent
    BY <1>5 DEF Joins
  <2>2. b \in early' => wasLive /\ ~recent
    BY <1>5 DEF Joins, ToldInv, TypeOK
  <2>3. \A c \in early' \ {b} : c \in early
    BY <1>5 DEF Joins
  <2>4. b \notin early' => (wasLive => recent)
    BY <1>5 DEF Joins
  <2>5. \A c \in Browsers \ {b} : c \notin early' => c \notin early
    BY <1>5 DEF Joins
  <2> QED BY <2>1, <2>2, <2>3, <2>4, <2>5
          DEF ToldInv, BrowsersFollow, Connected, Status, TypeOK
<1>6. ASSUME NEW b \in Browsers, Leaves(b) PROVE ToldInv'
  BY <1>6 DEF Leaves, ToldInv, BrowsersFollow, Connected, TypeOK
<1>7. CASE GoesSilent
  BY <1>7 DEF GoesSilent, ToldInv, BrowsersFollow, Connected
<1>8. CASE Watchdog
  BY <1>8, AnnounceTells DEF Watchdog, Silent
<1>9. CASE UNCHANGED vars
  BY <1>9, ToldFrame DEF vars
<1> QED BY <1>1, <1>2, <1>3, <1>4, <1>5, <1>6, <1>7, <1>8, <1>9 DEF Next, Follow, Market

LEMMA ToldHolds == Spec => []ToldInv
<1>1. Init => ToldInv
  BY DEF Init, Nobody, ToldInv, BrowsersFollow, Connected
<1> QED BY <1>1, ToldNext, TypeCorrect, PTL DEF Spec

\* Every browser knows what was last announced, but for one that came between a silence and
\* the watchdog.
THEOREM BrowsersAreTold == Spec => []BrowsersFollow
<1>1. ToldInv => BrowsersFollow
  BY DEF ToldInv
<1> QED BY <1>1, ToldHolds, PTL

\* A browser that believes in an open market, early or not, was told so since the watchdog last
\* announced a closed one: what ClosedIsTold rests on, once the watchdog has looked.
OpenOnlyWhileLive == \A b \in Browsers : told[b] = "open" => wasLive

\* After a close was announced no browser believes in an open market, whoever came when.
THEOREM NobodyOpenAfterClose == Spec => []OpenOnlyWhileLive
<1>1. TypeOK /\ ToldInv => OpenOnlyWhileLive
  BY DEF ToldInv, BrowsersFollow, Connected, OpenOnlyWhileLive, TypeOK
<1> QED BY <1>1, ToldHolds, TypeCorrect, PTL

-----------------------------------------------------------------------------
(* What is followed is asked for. *)

\* On every link, and nothing is asked for on one that is not open.
FollowedIsAskedFor ==
    /\ tracked \subseteq asked
    /\ upstream = IF link = "open" THEN asked ELSE {}

LEMMA SubscribesMerges ==
    ASSUME NEW S, Subscribes(S), FollowedIsAskedFor, link' = link, tracked' \subseteq tracked \union S
    PROVE  FollowedIsAskedFor'
BY DEF Subscribes, Merge, FollowedIsAskedFor

LEMMA FollowedNext == FollowedIsAskedFor /\ [Next]_vars => FollowedIsAskedFor'
<1> SUFFICES ASSUME FollowedIsAskedFor, [Next]_vars PROVE FollowedIsAskedFor'
  OBVIOUS
<1>1. CASE Upstream
  BY <1>1 DEF Upstream, LogsIn, LoginFails, LinkOpens, LinkCloses, StartsAgain, FollowedIsAskedFor
<1>2. ASSUME NEW i \in Refreshes, RefreshFills(i) PROVE FollowedIsAskedFor'
  BY <1>2, SubscribesMerges DEF RefreshFills
<1>3. ASSUME NEW s \in Stocks, EnsureDone(s) PROVE FollowedIsAskedFor'
  <2>1. CASE s \in tracked /\ UNCHANGED <<tracked, asked, upstream>>
    BY <1>3, <2>1 DEF EnsureDone, FollowedIsAskedFor
  <2>2. CASE tracked' = tracked \union {s} /\ Subscribes({s})
    BY <1>3, <2>2, SubscribesMerges DEF EnsureDone
  <2> QED BY <1>3, <2>1, <2>2 DEF EnsureDone
<1>4. ASSUME UNCHANGED <<tracked, asked, linkVars>> PROVE FollowedIsAskedFor'
  BY <1>4 DEF linkVars, FollowedIsAskedFor
<1>5. ASSUME NEW i \in Refreshes, RefreshReads(i) PROVE FollowedIsAskedFor'
  BY <1>4, <1>5 DEF RefreshReads
<1>6. ASSUME NEW s \in Stocks, Recommend(s) \/ Withdraw(s) \/ EnsureFails(s)
      PROVE  FollowedIsAskedFor'
  BY <1>4, <1>6 DEF Recommend, Withdraw, EnsureFails
<1>7. CASE Restarts
  BY <1>7 DEF Restarts, FollowedIsAskedFor
<1>8. CASE Market \/ UNCHANGED vars
  BY <1>4, <1>8 DEF Market, Tick, Joins, Leaves, GoesSilent, Watchdog, vars
<1> QED BY <1>1, <1>2, <1>3, <1>5, <1>6, <1>7, <1>8 DEF Next, Follow

\* A stock that is followed is asked for on every link that is open, whatever logins, closes,
\* refreshes and subscriptions crossed.
THEOREM WhatIsFollowedIsAsked == Spec => []FollowedIsAskedFor
<1>1. Init => FollowedIsAskedFor
  BY DEF Init, FollowedIsAskedFor
<1> QED BY <1>1, FollowedNext, PTL DEF Spec

\* A stock is held when it is followed and no refresh under way has read the rows without it.
Held(s) == /\ s \in live \intersect tracked
           /\ \A i \in Refreshes : refresh[i].at = "read" => s \in refresh[i].read

\* Once held a recommended stock stays followed: no refresh drops it, however many cross, until
\* it is withdrawn or the process restarts.
StaysHeld == [][\A s \in Stocks : Held(s) /\ s \in live' /\ ~Restarts => Held(s)']_vars

LEMMA HeldNext ==
    ASSUME TypeOK, Next, ~Restarts, NEW s \in Stocks, Held(s), s \in live'
    PROVE  Held(s)'
<1> USE DEF Held
<1>1. CASE Upstream
  BY <1>1 DEF TypeOK, Upstream, LogsIn, LoginFails, LinkOpens, LinkCloses, StartsAgain, Started
<1>2. ASSUME NEW i \in Refreshes, RefreshReads(i) PROVE Held(s)'
  BY <1>2 DEF TypeOK, RefreshReads
<1>3. ASSUME NEW i \in Refreshes, RefreshFills(i) PROVE Held(s)'
  BY <1>3 DEF TypeOK, RefreshFills, Idle
<1>4. ASSUME NEW t \in Stocks, Recommend(t) \/ Withdraw(t) \/ EnsureDone(t) \/ EnsureFails(t)
      PROVE  Held(s)'
  BY <1>4 DEF Recommend, Withdraw, EnsureDone, EnsureFails
<1>5. CASE Market
  BY <1>5 DEF Market, Tick, Joins, Leaves, GoesSilent, Watchdog
<1> QED BY <1>1, <1>2, <1>3, <1>4, <1>5 DEF Next, Follow

\* No step but a restart loses a stock that is held and stays recommended.
THEOREM FollowedStays == Spec => StaysHeld
<1>1. TypeOK /\ [Next]_vars => [\A s \in Stocks : Held(s) /\ s \in live' /\ ~Restarts => Held(s)']_vars
  BY HeldNext DEF vars
<1> QED BY <1>1, TypeCorrect, PTL DEF Spec, StaysHeld
=============================================================================
