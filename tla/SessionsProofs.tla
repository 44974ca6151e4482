----------------------------- MODULE SessionsProofs -----------------------------
(***************************************************************************)
(* Theorems about the three parts of Sessions, each for itself and for any *)
(* values of its constants, and that what is proved of a part holds of the *)
(* three side by side.                                                     *)
(***************************************************************************)
EXTENDS Sessions, SequenceTheorems, FiniteSetTheorems, TLAPS

-----------------------------------------------------------------------------
(* Administrators: types. *)

\* A request under way is about an admin.
Asks == {r \in AdminCalls : r.at # "idle" => r.on \in Admins}

AdminShape == AdminsTypeOK /\ call \in [Calls -> Asks]

LEMMA NoCallTyped == NoCall \in Asks
BY BoundsAssumption DEF NoCall, AdminCalls, Asks

LEMMA AdminInitShape == AdminsInit => AdminShape
BY NoCallTyped, BoundsAssumption DEF AdminsInit, AdminsTypeOK, AdminShape, Asks

\* A request moves on, with what it holds changed or forgotten.
LEMMA CallTyped ==
    ASSUME AdminShape, NEW c \in Calls, NEW to \in Asks, Call(c, to)
    PROVE  call' \in [Calls -> AdminCalls] /\ call' \in [Calls -> Asks]
BY DEF AdminShape, AdminsTypeOK, Call, Asks

LEMMA ForgetTyped ==
    ASSUME AdminShape, NEW ts, NEW c, NEW to \in Asks, Forget(ts, c, to)
    PROVE  /\ stored' \subseteq Refresh
           /\ call' \in [Calls -> AdminCalls] /\ call' \in [Calls -> Asks]
<1>1. \A d \in Calls : [call[d] EXCEPT !.todo = @ \ ts] \in Asks
  BY DEF AdminShape, AdminsTypeOK, AdminCalls, Asks
<1>2. call' \in [Calls -> Asks]
  BY <1>1 DEF Forget
<1> QED BY <1>2 DEF AdminShape, AdminsTypeOK, Forget, Asks

LEMMA CallShape == ASSUME AdminShape, NEW c \in Calls, CallStep(c) PROVE AdminShape'
<1> USE DEF AdminShape
<1>0. call[c] \in AdminCalls /\ (call[c].at # "idle" => call[c].on \in Admins)
  BY DEF Asks
<1>s. ASSUME NEW at \in {"delete", "login", "hash"}, NEW a \in Admins
      PROVE  [NoCall EXCEPT !.at = at, !.on = a] \in Asks
  <2>1. NoCall \in AdminCalls
    BY NoCallTyped DEF Asks
  <2>2. [NoCall EXCEPT !.at = at, !.on = a] \in AdminCalls
    BY <2>1 DEF AdminCalls
  <2>3. [NoCall EXCEPT !.at = at, !.on = a].on \in Admins
    BY DEF NoCall
  <2> QED BY <2>2, <2>3 DEF Asks
<1>1. ASSUME NEW a \in Admins,
             LoginCompares(c, a) \/ ResetReads(c, a) \/ \E by \in Supers : DeleteReads(c, by, a)
      PROVE  AdminShape'
  BY <1>1, <1>s, CallTyped DEF LoginCompares, ResetReads, DeleteReads, AdminsTypeOK
<1>2. CASE DeleteCounts(c)
  <2>1. [call[c] EXCEPT !.at = "counted"] \in Asks
    BY <1>0, <1>2 DEF AdminCalls, Asks, DeleteCounts
  <2> QED BY <1>2, <2>1, NoCallTyped, CallTyped DEF DeleteCounts, AdminsTypeOK
<1>3. CASE DeleteCommits(c)
  <2>1. call[c].on \in Admins
    BY <1>0, <1>3 DEF DeleteCommits
  <2>2. call' \in [Calls -> AdminCalls] /\ call' \in [Calls -> Asks]
    BY <1>3, NoCallTyped, CallTyped DEF DeleteCommits
  <2> QED BY <1>3, <2>1, <2>2 DEF DeleteCommits, AdminsTypeOK
<1>4. CASE LoginStores(c)
  <2>1. call' \in [Calls -> AdminCalls] /\ call' \in [Calls -> Asks]
    BY <1>4, NoCallTyped, CallTyped DEF LoginStores
  <2>2. call[c].on \in Admins /\ resets[call[c].on] \in 0 .. MaxResets
    BY <1>0, <1>4 DEF LoginStores, AdminsTypeOK
  <2>3. stored' \subseteq Refresh /\ born' \in [Refresh -> 0 .. MaxResets]
    BY <1>4, <2>2 DEF LoginStores, AdminsTypeOK, Refresh
  <2> QED BY <1>4, <2>1, <2>3 DEF LoginStores, AdminsTypeOK
<1>5. CASE ResetWrites(c)
  <2> DEFINE a == call[c].on
  <2>0. a \in Admins
    BY <1>0, <1>5 DEF ResetWrites
  <2>1. resets[a] + 1 \in 0 .. MaxResets
    BY <1>5, <2>0, BoundsAssumption DEF ResetWrites, AdminsTypeOK
  <2>2. resets' \in [Admins -> 0 .. MaxResets]
    BY <1>5, <2>1 DEF ResetWrites, AdminsTypeOK
  <2>3. [call[c] EXCEPT !.at = "sweep", !.reset = resets[a] + 1, !.todo = stored] \in Asks
    BY <1>0, <2>0, <2>1 DEF AdminCalls, AdminsTypeOK, Asks
  <2> QED BY <1>5, <2>2, <2>3, CallTyped DEF ResetWrites, AdminsTypeOK
<1>6. CASE SweepPage(c)
  <2>1. PICK page \in SUBSET stored \ {{}} :
           Forget(Mine(call[c].on, page), c, [call[c] EXCEPT !.todo = @ \ page])
    BY <1>6 DEF SweepPage
  <2>2. [call[c] EXCEPT !.todo = @ \ page] \in Asks
    BY <1>0 DEF AdminCalls, Asks
  <2> QED BY <1>6, <2>1, <2>2, ForgetTyped DEF SweepPage, AdminsTypeOK
<1>7. CASE SweepEnds(c)
  <2>1. swept' \in [Admins -> 0 .. MaxResets]
    BY <1>0, <1>7 DEF SweepEnds, AdminCalls, AdminsTypeOK
  <2> QED BY <1>7, <2>1, NoCallTyped, CallTyped DEF SweepEnds, AdminsTypeOK
<1>8. CASE Dies(c)
  BY <1>8, NoCallTyped, CallTyped DEF Dies, AdminsTypeOK
<1> QED BY <1>1, <1>2, <1>3, <1>4, <1>5, <1>6, <1>7, <1>8 DEF CallStep

LEMMA AdminShapeNext == AdminShape /\ [AdminsNext]_adminVars => AdminShape'
<1> SUFFICES ASSUME AdminShape, [AdminsNext]_adminVars PROVE AdminShape'
  OBVIOUS
<1>1. CASE Tick
  BY <1>1, BoundsAssumption DEF Tick, AdminsTypeOK, AdminShape
<1>2. ASSUME NEW t \in Refresh, Logout(t) PROVE AdminShape'
  BY <1>2, NoCallTyped, ForgetTyped DEF Logout, AdminsTypeOK, AdminShape
<1>3. CASE UNCHANGED adminVars
  BY <1>3 DEF adminVars, AdminsTypeOK, AdminShape, Asks
<1> QED BY <1>1, <1>2, <1>3, CallShape DEF AdminsNext

LEMMA AdminShapeHolds == AdminsSpec => []AdminShape
<1> QED BY AdminInitShape, AdminShapeNext, PTL DEF AdminsSpec

\* Every variable keeps its type.
THEOREM AdminTypeCorrect == AdminsSpec => []AdminsTypeOK
<1>1. AdminShape => AdminsTypeOK
  BY DEF AdminShape
<1> QED BY <1>1, AdminShapeHolds, PTL

-----------------------------------------------------------------------------
(* The last super admin. *)

\* A request between its count and its commit that removes a super admin.
Removing(c) == call[c].at = "counted" /\ call[c].on \in Supers

\* The lock lets one such request be there, and what it counted is still so.
LockInv ==
    /\ SuperAdminRemains
    /\ \A c, d \in Calls : Removing(c) /\ Removing(d) => c = d
    /\ \A c \in Calls : Removing(c) => Supers \ (gone \union {call[c].on}) # {}

\* Steps that count nothing and remove nobody.
LEMMA LockFrame ==
    ASSUME LockInv, UNCHANGED gone,
           \A c \in Calls : Removing(c)' => Removing(c) /\ call'[c].on = call[c].on
    PROVE  LockInv'
BY DEF LockInv, SuperAdminRemains

LEMMA LockCall == ASSUME AdminShape, LockInv, NEW c \in Calls, CallStep(c) PROVE LockInv'
<1>0. call \in [Calls -> AdminCalls]
  BY DEF AdminShape, AdminsTypeOK
<1>1. CASE DeleteCounts(c)
  <2> DEFINE a == call[c].on
  <2>1. gone' = gone /\ \A d \in Calls \ {c} : call'[d] = call[d]
    BY <1>0, <1>1 DEF DeleteCounts, Call
  <2>2. CASE Removing(c)'
    <3>1. call'[c] = [call[c] EXCEPT !.at = "counted"]
      BY <1>0, <1>1, <2>2 DEF DeleteCounts, Call, Removing, NoCall
    <3>2. call'[c].on = a
      BY <1>0, <3>1 DEF AdminCalls
    <3>3. a \in Supers
      BY <2>2, <3>2 DEF Removing
    <3>4. Supers \ (gone \union {a}) # {} /\ \A d \in Calls : ~Removing(d)
      BY <1>0, <1>1, <2>2, <3>3 DEF DeleteCounts, Call, LockFree, Removing, NoCall
    <3> QED BY <2>1, <3>2, <3>4 DEF LockInv, SuperAdminRemains, Removing
  <2>3. CASE ~Removing(c)'
    BY <2>1, <2>3, LockFrame DEF Removing
  <2> QED BY <2>2, <2>3
<1>2. CASE DeleteCommits(c)
  <2>1. gone' = gone \union {call[c].on} /\ call'[c] = NoCall /\ \A d \in Calls \ {c} : call'[d] = call[d]
    BY <1>0, <1>2 DEF DeleteCommits, Call
  <2>2. \A d \in Calls : Removing(d)' => d # c /\ Removing(d) /\ call'[d].on = call[d].on
    BY <2>1 DEF Removing, NoCall
  <2>3. CASE call[c].on \in Supers
    <3>1. Removing(c)
      BY <1>2, <2>3 DEF DeleteCommits, Removing
    <3>2. \A d \in Calls : ~Removing(d)'
      BY <2>2, <3>1 DEF LockInv
    <3> QED BY <2>1, <3>1, <3>2 DEF LockInv, SuperAdminRemains
  <2>4. CASE call[c].on \notin Supers
    BY <2>1, <2>2, <2>4 DEF LockInv, SuperAdminRemains
  <2> QED BY <2>3, <2>4
<1>3. CASE ~DeleteCounts(c) /\ ~DeleteCommits(c)
  <2>1. gone' = gone
    BY <1>3 DEF CallStep, LoginCompares, ResetReads, DeleteReads, LoginStores, ResetWrites, SweepPage,
       SweepEnds, Dies
  <2>2. ASSUME NEW to, Call(c, to), to.at # "counted" PROVE LockInv'
    BY <1>0, <2>1, <2>2, LockFrame DEF Call, Removing
  <2>3. NoCall.at # "counted"
    BY DEF NoCall
  <2>4. ASSUME NEW a, NEW at \in {"delete", "login", "hash"} PROVE [NoCall EXCEPT !.at = at, !.on = a].at # "counted"
    BY <2>4 DEF NoCall
  <2>5. ASSUME NEW a \in Admins,
               LoginCompares(c, a) \/ ResetReads(c, a) \/ \E by \in Supers : DeleteReads(c, by, a)
        PROVE  LockInv'
    BY <2>2, <2>4, <2>5 DEF LoginCompares, ResetReads, DeleteReads
  <2>6. CASE LoginStores(c) \/ SweepEnds(c) \/ Dies(c)
    BY <2>2, <2>3, <2>6 DEF LoginStores, SweepEnds, Dies
  <2>7. CASE ResetWrites(c)
    <3> DEFINE to == [call[c] EXCEPT !.at = "sweep", !.reset = resets[call[c].on] + 1, !.todo = stored]
    <3>1. to.at # "counted"
      BY <1>0 DEF AdminCalls
    <3> QED BY <2>2, <2>7, <3>1 DEF ResetWrites
  <2>8. CASE SweepPage(c)
    <3>1. PICK page : Forget(Mine(call[c].on, page), c, [call[c] EXCEPT !.todo = @ \ page])
      BY <2>8 DEF SweepPage
    <3>2. \A d \in Calls : call'[d].at = call[d].at /\ call'[d].on = call[d].on
      BY <1>0, <3>1 DEF Forget, AdminCalls
    <3> QED BY <2>1, <3>2, LockFrame DEF Removing
  <2> QED BY <1>3, <2>5, <2>6, <2>7, <2>8 DEF CallStep
<1> QED BY <1>1, <1>2, <1>3

LEMMA LockNext == AdminShape /\ LockInv /\ [AdminsNext]_adminVars => LockInv'
<1> SUFFICES ASSUME AdminShape, LockInv, [AdminsNext]_adminVars PROVE LockInv'
  OBVIOUS
<1>1. ASSUME NEW t \in Refresh, Logout(t) PROVE LockInv'
  <2>1. \A d \in Calls : call'[d].at = "counted" => call'[d].at = call[d].at /\ call'[d].on = call[d].on
    <3> TAKE d \in Calls
    <3>1. call[d] \in AdminCalls /\ (call'[d] = NoCall \/ call'[d] = [call[d] EXCEPT !.todo = @ \ {t}])
      BY <1>1 DEF Logout, Forget, AdminShape, AdminsTypeOK
    <3> QED BY <3>1 DEF NoCall, AdminCalls
  <2> QED BY <1>1, <2>1, LockFrame DEF Logout, Removing
<1>2. CASE Tick \/ UNCHANGED adminVars
  BY <1>2, LockFrame DEF Tick, adminVars, Removing
<1> QED BY <1>1, <1>2, LockCall DEF AdminsNext

\* "There must always be at least one super admin": deleteAdmin counts under an advisory lock, and
\* so it holds for any number of requests that delete each other's owners.
THEOREM SuperAdminStays == AdminsSpec => []SuperAdminRemains
<1>1. AdminsInit => LockInv
  BY SupersAssumption DEF AdminsInit, LockInv, SuperAdminRemains, Removing, NoCall
<1>2. AdminShape /\ LockInv /\ [AdminsNext]_adminVars => LockInv'
  BY LockNext
<1>3. LockInv => SuperAdminRemains
  BY DEF LockInv
<1> QED BY <1>1, <1>2, <1>3, AdminShapeHolds, PTL DEF AdminsSpec

-----------------------------------------------------------------------------
(* Sessions older than a reset. *)

\* A walk has still to come to every key of its admin stored before its password was set; nobody
\* is ahead of the resets that were made.
Walking(c) ==
    call[c].at = "sweep" =>
        /\ call[c].reset <= resets[call[c].on]
        /\ \A t \in stored : t[1] = call[c].on => t \in call[c].todo \/ born[t] >= call[c].reset

WalkInv ==
    /\ NoOlderSession
    /\ \A a \in Admins : swept[a] <= resets[a]
    /\ \A c \in Calls : Walking(c)

\* Keys go, and a walk loses sight of those that are gone.
LEMMA WalkForget ==
    ASSUME AdminShape, WalkInv, NEW ts, NEW c, NEW to, Forget(ts, c, to),
           UNCHANGED <<resets, born, swept>>,
           to.at # "idle" =>
              /\ c \in Calls /\ call[c].at = "sweep" /\ to.at = "sweep"
              /\ to.on = call[c].on /\ to.reset = call[c].reset
              /\ \A t \in stored \ ts : t[1] = to.on /\ t \in call[c].todo => t \in to.todo
    PROVE  WalkInv'
<1>1. stored' = stored \ ts
  BY DEF Forget
<1>2. ASSUME NEW d \in Calls PROVE Walking(d)'
  <2>1. call[d] \in AdminCalls /\ call'[d] = IF d = c THEN to ELSE [call[d] EXCEPT !.todo = @ \ ts]
    BY DEF AdminShape, AdminsTypeOK, Forget
  <2>2. CASE d = c
    BY <1>1, <2>1, <2>2 DEF WalkInv, Walking
  <2>3. CASE d # c
    <3>1. /\ call'[d].at = call[d].at /\ call'[d].on = call[d].on /\ call'[d].reset = call[d].reset
          /\ call'[d].todo = call[d].todo \ ts
      BY <2>1, <2>3 DEF AdminCalls
    <3> QED BY <1>1, <3>1 DEF WalkInv, Walking
  <2> QED BY <2>2, <2>3
<1> QED BY <1>1, <1>2 DEF WalkInv, NoOlderSession

\* A request moves on and the keys stay.
LEMMA WalkFrame ==
    ASSUME AdminShape, WalkInv, NEW c \in Calls, NEW to, Call(c, to), UNCHANGED <<stored, resets, born, swept>>,
           to.at # "sweep"
    PROVE  WalkInv'
<1>1. \A d \in Calls : call'[d] = IF d = c THEN to ELSE call[d]
  BY DEF Call, AdminShape, AdminsTypeOK
<1> QED BY <1>1 DEF WalkInv, Walking, NoOlderSession

LEMMA WalkLogin == ASSUME AdminShape, WalkInv, NEW c \in Calls, LoginStores(c) PROVE WalkInv'
<1> DEFINE a == call[c].on
<1> DEFINE t == <<a, now>>
<1>1. a \in Admins /\ t \in Refresh /\ t[1] = a
  BY DEF LoginStores, AdminShape, AdminsTypeOK, Refresh, Asks
<1>2. /\ stored' = stored \union {t} /\ born' = [born EXCEPT ![t] = resets[a]]
      /\ UNCHANGED <<resets, swept>>
      /\ \A d \in Calls : call'[d] = IF d = c THEN NoCall ELSE call[d]
  BY DEF LoginStores, Call, AdminShape, AdminsTypeOK
<1>3. born'[t] = resets[a] /\ \A u \in Refresh \ {t} : born'[u] = born[u]
  BY <1>1, <1>2 DEF AdminShape, AdminsTypeOK
<1>4. stored \subseteq Refresh /\ resets[a] \in Nat /\ swept[a] \in Nat
  BY <1>1, BoundsAssumption DEF AdminShape, AdminsTypeOK
<1>5. NoOlderSession'
  BY <1>1, <1>2, <1>3, <1>4 DEF WalkInv, NoOlderSession
<1>6. ASSUME NEW d \in Calls PROVE Walking(d)'
  <2>1. CASE d = c
    BY <1>2, <2>1 DEF Walking, NoCall
  <2>2. CASE d # c
    BY <1>1, <1>2, <1>3, <1>4, <2>2 DEF WalkInv, Walking
  <2> QED BY <2>1, <2>2
<1> QED BY <1>2, <1>5, <1>6 DEF WalkInv

LEMMA WalkReset == ASSUME AdminShape, WalkInv, NEW c \in Calls, ResetWrites(c) PROVE WalkInv'
<1> DEFINE a == call[c].on
<1>0. call[c] \in Asks
  BY DEF AdminShape
<1>1. a \in Admins /\ resets[a] \in Nat
  BY <1>0, BoundsAssumption DEF ResetWrites, Asks, AdminShape, AdminsTypeOK
<1>2. /\ resets' = [resets EXCEPT ![a] = @ + 1] /\ UNCHANGED <<stored, born, swept>>
      /\ \A d \in Calls : call'[d] = IF d = c THEN [call[c] EXCEPT !.at = "sweep", !.reset = resets[a] + 1, !.todo = stored]
                                     ELSE call[d]
  BY DEF ResetWrites, Call, AdminShape, AdminsTypeOK
<1>3. resets'[a] = resets[a] + 1 /\ \A b \in Admins : resets'[b] >= resets[b] /\ resets[b] \in Nat /\ swept[b] \in Nat
  BY <1>1, <1>2, BoundsAssumption DEF AdminShape, AdminsTypeOK
<1>4. ASSUME NEW d \in Calls PROVE Walking(d)'
  <2>0. call[d] \in AdminCalls
    BY DEF AdminShape, AdminsTypeOK
  <2>1. CASE d = c
    <3>1. /\ call'[c].at = "sweep" /\ call'[c].on = a /\ call'[c].reset = resets[a] + 1
          /\ call'[c].todo = stored
      BY <1>2, <2>0, <2>1 DEF AdminCalls
    <3> QED BY <1>1, <1>2, <1>3, <2>1, <3>1 DEF Walking
  <2>2. CASE d # c
    <3>1. call'[d] = call[d]
      BY <1>2, <2>2
    <3>2. call[d].at = "sweep" => call[d].on \in Admins /\ call[d].reset \in Nat
      <4>1. call[d] \in Asks
        BY DEF AdminShape
      <4> QED BY <2>0, <4>1, BoundsAssumption DEF Asks, AdminCalls
    <3> QED BY <1>2, <1>3, <3>1, <3>2 DEF WalkInv, Walking, AdminShape, AdminsTypeOK
  <2> QED BY <2>1, <2>2
<1> QED BY <1>2, <1>3, <1>4 DEF WalkInv, NoOlderSession

LEMMA WalkEnds == ASSUME AdminShape, WalkInv, NEW c \in Calls, SweepEnds(c) PROVE WalkInv'
<1> DEFINE a == call[c].on
<1>s. call[c] \in Asks
  BY DEF AdminShape
<1>0. /\ a \in Admins /\ call[c].reset \in Nat /\ call[c].reset <= resets[a]
      /\ \A t \in stored : t[1] = a => born[t] >= call[c].reset
  BY <1>s, BoundsAssumption DEF SweepEnds, CameBack, WalkInv, Walking, Asks, AdminCalls
<1>1. /\ swept' = [swept EXCEPT ![a] = IF call[c].reset > @ THEN call[c].reset ELSE @]
      /\ UNCHANGED <<stored, resets, born>>
      /\ \A d \in Calls : call'[d] = IF d = c THEN NoCall ELSE call[d]
  BY DEF SweepEnds, Call, AdminShape, AdminsTypeOK
<1>2. /\ swept'[a] = call[c].reset \/ swept'[a] = swept[a]
      /\ \A b \in Admins \ {a} : swept'[b] = swept[b]
  BY <1>0, <1>1 DEF AdminShape, AdminsTypeOK
<1>3. \A t \in stored : t[1] \in Admins
  BY DEF AdminShape, AdminsTypeOK, Refresh
<1>4. NoOlderSession'
  BY <1>0, <1>1, <1>2, <1>3 DEF WalkInv, NoOlderSession
<1>5. \A b \in Admins : swept'[b] <= resets'[b]
  BY <1>0, <1>1, <1>2 DEF WalkInv
<1>6. \A d \in Calls : Walking(d)'
  BY <1>1 DEF WalkInv, Walking, NoCall
<1> QED BY <1>4, <1>5, <1>6 DEF WalkInv

LEMMA WalkNext == AdminShape /\ WalkInv /\ [AdminsNext]_adminVars => WalkInv'
<1> SUFFICES ASSUME AdminShape, WalkInv, [AdminsNext]_adminVars PROVE WalkInv'
  OBVIOUS
<1>1. ASSUME NEW t \in Refresh, Logout(t) PROVE WalkInv'
  <2>1. NoCall.at = "idle"
    BY DEF NoCall
  <2> QED BY <1>1, <2>1, NoCallTyped, WalkForget DEF Logout
<1>2. ASSUME NEW c \in Calls, SweepPage(c) PROVE WalkInv'
  <2>1. PICK page \in SUBSET stored \ {{}} :
           Forget(Mine(call[c].on, page), c, [call[c] EXCEPT !.todo = @ \ page])
    BY <1>2 DEF SweepPage
  <2> DEFINE to == [call[c] EXCEPT !.todo = @ \ page]
  <2>2. call[c] \in AdminCalls
    BY DEF AdminShape, AdminsTypeOK
  <2>3. /\ to \in AdminCalls /\ to.at = "sweep" /\ to.on = call[c].on /\ to.reset = call[c].reset
        /\ to.todo = call[c].todo \ page
    BY <1>2, <2>2 DEF AdminCalls, SweepPage
  <2>4. \A t \in stored \ Mine(call[c].on, page) : t[1] = call[c].on /\ t \in call[c].todo => t \in to.todo
    BY <2>3 DEF Mine
  <2>5. UNCHANGED <<resets, born, swept>> /\ call[c].at = "sweep"
    BY <1>2 DEF SweepPage
  <2> HIDE DEF to
  <2>6. Forget(Mine(call[c].on, page), c, to)
    BY <2>1 DEF to
  <2> QED BY <2>3, <2>4, <2>5, <2>6, WalkForget
<1>3. ASSUME NEW c \in Calls, NEW a \in Admins,
             LoginCompares(c, a) \/ ResetReads(c, a) \/ \E by \in Supers : DeleteReads(c, by, a)
      PROVE  WalkInv'
  <2>1. ASSUME NEW at \in {"delete", "login", "hash"}, Call(c, [NoCall EXCEPT !.at = at, !.on = a]),
               UNCHANGED <<stored, resets, born, swept>>
        PROVE  WalkInv'
    <3> DEFINE to == [NoCall EXCEPT !.at = at, !.on = a]
    <3>1. to.at = at /\ to.on = a
      BY DEF NoCall
    <3> HIDE DEF to
    <3>2. Call(c, to)
      BY <2>1 DEF to
    <3> QED BY <2>1, <3>1, <3>2, WalkFrame
  <2> QED BY <1>3, <2>1 DEF LoginCompares, ResetReads, DeleteReads
<1>4. ASSUME NEW c \in Calls, DeleteCounts(c) PROVE WalkInv'
  <2>1. [call[c] EXCEPT !.at = "counted"].at = "counted" /\ NoCall.at = "idle"
    BY DEF AdminShape, AdminsTypeOK, AdminCalls, NoCall
  <2> QED BY <1>4, <2>1, WalkFrame DEF DeleteCounts
<1>5. ASSUME NEW c \in Calls, DeleteCommits(c) \/ Dies(c) PROVE WalkInv'
  <2>1. NoCall.at = "idle"
    BY DEF NoCall
  <2> QED BY <1>5, <2>1, WalkFrame DEF DeleteCommits, Dies
<1>6. CASE Tick \/ UNCHANGED adminVars
  BY <1>6 DEF Tick, adminVars, WalkInv, Walking, NoOlderSession
<1> QED BY <1>1, <1>2, <1>3, <1>4, <1>5, <1>6, WalkLogin, WalkReset, WalkEnds DEF AdminsNext, CallStep

\* Once a password reset has walked through the keys, no session of its admin is older than the
\* password, for any number of resets, logins and logouts in the middle of the walk, in any pages
\* (resetPassword, revokeRefreshTokensFor).
THEOREM OlderSessionsEnd == AdminsSpec => []NoOlderSession
<1>1. AdminsInit => WalkInv
  BY DEF AdminsInit, WalkInv, NoOlderSession, Walking, NoCall
<1>2. AdminShape /\ WalkInv /\ [AdminsNext]_adminVars => WalkInv'
  BY WalkNext
<1>3. WalkInv => NoOlderSession
  BY DEF WalkInv
<1> QED BY <1>1, <1>2, <1>3, AdminShapeHolds, PTL DEF AdminsSpec

Working(w) == worker[w].at # "idle"

\* A job that is worked on has one worker; one that can still be tried has an attempt left; and
\* a token is only on a worker's list to be cleared if Firebase has given it up.
HeldInv ==
    /\ \A w \in Workers : Working(w) => worker[w].job \in Jobs /\ job[worker[w].job].state = "active"
    /\ \A v, w \in Workers : Working(v) /\ Working(w) /\ v # w => worker[v].job # worker[w].job
    /\ \A j \in Jobs : job[j].state \in {"none", "waiting", "active"} => job[j].tries < MaxAttempts
    /\ \A w \in Workers : \A t \in worker[w].gone : t[2] \in dead

\* A member who may be sent to yet has had at most one push for every attempt that broke off.
Owed(j, u) == got[j][u] <= broke[j]

\* Members on a worker's list appear once, have not been sent to, and are not yet to be retried.
ListOwed(w) ==
    /\ \A t \in worker[w].left : Owed(worker[w].job, t[1]) /\ t[1] \notin worker[w].again
    /\ \A s, t \in worker[w].left : s[1] = t[1] => s = t
    /\ \A u \in worker[w].again : Owed(worker[w].job, u)

RestOwed(w) == \A u \in job[worker[w].job].users : Owed(worker[w].job, u)

SentInv ==
    /\ ResentOnlyIfBroken
    /\ \A j \in Jobs : job[j].state = "none" => \A u \in Members : got[j][u] = 0
    /\ \A j \in Jobs : job[j].state = "waiting" => \A u \in job[j].users : Owed(j, u)
    /\ \A w \in Workers : Working(w) => ListOwed(w)
    /\ \A w \in Workers : worker[w].at = "fail" => RestOwed(w)

PushInv == PushTypeOK /\ HeldInv /\ SentInv

-----------------------------------------------------------------------------

(* Pushes: types and idle workers. *)

LEMMA WorkTyped ==
    ASSUME PushTypeOK, NEW w \in Workers, NEW k \in Sending, Work(w, k)
    PROVE  worker' \in [Workers -> Sending] /\ \A v \in Workers : worker'[v] = IF v = w THEN k ELSE worker[v]
BY DEF PushTypeOK, Work

LEMMA ZeroTyped == 0 \in 0 .. MaxAttempts /\ 0 \in 0 .. MaxStalls
BY LimitsAssumption

LEMMA PushIdle == /\ NoWorker \in Sending /\ NoWorker.at = "idle" /\ NoWorker.gone = {}
              /\ NoJob \in PushJob /\ NoJob.state = "none" /\ NoJob.tries = 0 /\ NoJob.users = {}
BY ZeroTyped DEF NoWorker, Sending, NoJob, PushJob

LEMMA PushInitInv == PushInit => PushInv
<1> SUFFICES ASSUME PushInit PROVE PushInv
    OBVIOUS
<1>1. PushTypeOK
  BY PushIdle DEF PushInit, PushTypeOK
<1>2. HeldInv
  BY PushIdle, LimitsAssumption DEF PushInit, HeldInv, Working
<1>3. SentInv
  BY PushIdle DEF PushInit, SentInv, Working, ResentOnlyIfBroken
<1> QED BY <1>1, <1>2, <1>3 DEF PushInv

-----------------------------------------------------------------------------
(* Jobs without a worker. *)

LEMMA EnqueueStep ==
    ASSUME PushInv, NEW j \in Jobs, NEW us \in SUBSET Members, Enqueue(j, us)
    PROVE  PushInv'
<1> DEFINE n == [NoJob EXCEPT !.state = "waiting", !.users = us]
<1>1. n \in PushJob /\ n.state = "waiting" /\ n.users = us /\ n.tries = 0
  BY ZeroTyped DEF NoJob, PushJob
<1>2. /\ job[j].state = "none" /\ job' = [job EXCEPT ![j] = n]
      /\ UNCHANGED <<worker, phone, dead, got, broke>>
  BY DEF Enqueue
<1> HIDE DEF n
<1>3. job' \in [Jobs -> PushJob] /\ \A i \in Jobs : job'[i] = IF i = j THEN n ELSE job[i]
  BY <1>1, <1>2 DEF PushInv, PushTypeOK
<1>4. PushTypeOK'
  BY <1>2, <1>3 DEF PushInv, PushTypeOK
<1>5. HeldInv'
  BY <1>1, <1>2, <1>3, LimitsAssumption DEF PushInv, HeldInv, Working
<1>6. \A u \in Members : got[j][u] = 0 /\ broke[j] \in Nat
  BY <1>2 DEF PushInv, SentInv, PushTypeOK
<1>7. SentInv'
  BY <1>1, <1>2, <1>3, <1>6 DEF PushInv, SentInv, HeldInv, Working, ResentOnlyIfBroken, Owed, ListOwed, RestOwed
<1> QED BY <1>4, <1>5, <1>7 DEF PushInv

\* Where a thrown attempt leaves its job.
LEMMA ThrewTyped ==
    ASSUME PushTypeOK, NEW j \in Jobs, job[j].tries < MaxAttempts, Threw(j)
    PROVE  /\ job' \in [Jobs -> PushJob]
           /\ \A i \in Jobs \ {j} : job'[i] = job[i]
           /\ job'[j].users = job[j].users /\ job'[j].state \in {"waiting", "failed"}
           /\ job'[j].state = "waiting" => job'[j].tries < MaxAttempts
<1> DEFINE n == job[j].tries + 1
           k == [job[j] EXCEPT !.tries = n, !.state = IF n >= MaxAttempts THEN "failed" ELSE "waiting"]
<1>1. job[j] \in PushJob /\ n \in 0 .. MaxAttempts
  BY LimitsAssumption DEF PushTypeOK, PushJob
<1>2. job' = [job EXCEPT ![j] = k]
  BY <1>1 DEF Threw, PushTypeOK
<1>3. /\ k \in PushJob /\ k.users = job[j].users /\ k.state \in {"waiting", "failed"}
      /\ k.state = "waiting" => k.tries < MaxAttempts
  <2> HIDE DEF n
  <2>1. k.tries = n /\ k.users = job[j].users /\ k.stalls = job[j].stalls
        /\ k.state = IF n >= MaxAttempts THEN "failed" ELSE "waiting"
    BY <1>1 DEF PushJob
  <2>2. k \in PushJob
    BY <1>1 DEF PushJob
  <2>3. n < MaxAttempts \/ n >= MaxAttempts
    BY <1>1, LimitsAssumption
  <2> QED BY <2>1, <2>2, <2>3
<1> QED BY <1>2, <1>3 DEF PushTypeOK

LEMMA ReadFailsStep ==
    ASSUME PushInv, NEW w \in Workers, NEW j \in Jobs, ReadFails(w, j)
    PROVE  PushInv'
<1>1. /\ job[j].state = "waiting" /\ Threw(j) /\ job[j].tries < MaxAttempts
      /\ UNCHANGED <<worker, phone, dead, got, broke>>
  BY DEF ReadFails, PushInv, HeldInv
<1>2. /\ job' \in [Jobs -> PushJob]
      /\ \A i \in Jobs \ {j} : job'[i] = job[i]
      /\ job'[j].users = job[j].users /\ job'[j].state \in {"waiting", "failed"}
      /\ job'[j].state = "waiting" => job'[j].tries < MaxAttempts
  BY <1>1, ThrewTyped DEF PushInv
<1>3. \A v \in Workers : Working(v) => worker[v].job # j
  BY <1>1 DEF PushInv, HeldInv
<1>4. PushTypeOK'
  BY <1>1, <1>2 DEF PushInv, PushTypeOK
<1>5. HeldInv'
  BY <1>1, <1>2, <1>3 DEF PushInv, HeldInv, Working
<1>6. SentInv'
  BY <1>1, <1>2, <1>3 DEF PushInv, SentInv, HeldInv, Working, ResentOnlyIfBroken, Owed, ListOwed, RestOwed
<1> QED BY <1>4, <1>5, <1>6 DEF PushInv

LEMMA TakeStep ==
    ASSUME PushInv, NEW w \in Workers, NEW j \in Jobs, Take(w, j)
    PROVE  PushInv'
<1> DEFINE targets == Targets(job[j].users)
           k == IF targets = {} THEN worker[w]
                ELSE [NoWorker EXCEPT !.at = "send", !.job = j, !.left = targets]
           s == IF targets = {} THEN "done" ELSE "active"
<1>1. /\ worker[w].at = "idle" /\ job[j].state = "waiting" /\ job[j] \in PushJob
      /\ job[j].tries < MaxAttempts
      /\ UNCHANGED <<phone, dead, got, broke>>
  BY DEF Take, PushInv, PushTypeOK, HeldInv
<1>2. job' = [job EXCEPT ![j].state = s] /\ Work(w, k)
  BY DEF Take, Work, PushInv, PushTypeOK
<1>3. \A t \in targets : /\ t \in Members \X Tokens /\ t[1] \in job[j].users /\ phone[t[1]] = t[2]
                         /\ t = <<t[1], t[2]>>
  BY <1>1 DEF Targets, PushJob
<1>4. \A t, q \in targets : t[1] = q[1] => t = q
  BY <1>3
<1>5. /\ k \in Sending /\ (k.at = "idle" \/ (k.at = "send" /\ k.job = j /\ k.left = targets))
      /\ k.at = "send" => k.again = {} /\ k.gone = {} /\ s = "active"
      /\ k.at = "idle" => k = worker[w]
  <2>1. targets \in SUBSET (Members \X Tokens) /\ worker[w] \in Sending
    BY <1>3 DEF PushInv, PushTypeOK
  <2> HIDE DEF targets
  <2>2. CASE targets = {}
    BY <1>1, <2>1, <2>2
  <2>3. CASE targets # {}
    BY <2>1, <2>3 DEF NoWorker, Sending
  <2> QED BY <2>2, <2>3
<1>6. worker' \in [Workers -> Sending] /\ \A v \in Workers : worker'[v] = IF v = w THEN k ELSE worker[v]
  BY <1>2, <1>5, WorkTyped DEF PushInv
<1>7. /\ job' \in [Jobs -> PushJob] /\ \A i \in Jobs \ {j} : job'[i] = job[i]
      /\ job'[j].state = s /\ job'[j].tries = job[j].tries /\ s \in {"done", "active"}
  BY <1>1, <1>2 DEF PushInv, PushTypeOK, PushJob
<1>8. \A v \in Workers : Working(v) => worker[v].job # j
  BY <1>1 DEF PushInv, HeldInv
<1>9. \A t \in targets : Owed(j, t[1])
  BY <1>1, <1>3 DEF PushInv, SentInv
<1> HIDE DEF targets, k, s
<1>10. PushTypeOK'
  BY <1>1, <1>6, <1>7 DEF PushInv, PushTypeOK
<1>11. HeldInv'
  BY <1>1, <1>5, <1>6, <1>7, <1>8 DEF PushInv, HeldInv, Working
<1>12. SentInv'
  <2>1. \A u \in Members, i \in Jobs : Owed(i, u)' = Owed(i, u)
    BY <1>1 DEF Owed
  <2>2. ResentOnlyIfBroken' /\ \A i \in Jobs : job'[i].state = "none" => \A u \in Members : got'[i][u] = 0
    BY <1>1, <1>7 DEF PushInv, SentInv, ResentOnlyIfBroken
  <2>3. (\A i \in Jobs : job[i].state = "waiting" => \A u \in job[i].users : Owed(i, u))'
    BY <1>1, <1>7 DEF PushInv, SentInv, Owed
  <2>4. ASSUME NEW v \in Workers, Working(v)'
        PROVE  ListOwed(v)'
    <3>1. CASE v = w /\ k.at = "send"
      BY <1>1, <1>4, <1>5, <1>6, <1>9, <3>1 DEF Owed, ListOwed
    <3>2. CASE worker'[v] = worker[v]
      BY <1>1, <2>4, <3>2 DEF PushInv, SentInv, Working, Owed, ListOwed
    <3> QED BY <1>5, <1>6, <3>1, <3>2
  <2>5. ASSUME NEW v \in Workers, (worker[v].at = "fail")'
        PROVE  RestOwed(v)'
    <3>1. worker'[v] = worker[v] /\ Working(v)
      BY <1>5, <1>6, <2>5 DEF Working
    <3>2. worker[v].job \in Jobs \ {j}
      BY <1>8, <3>1 DEF PushInv, HeldInv
    <3> QED BY <1>1, <1>7, <2>5, <3>1, <3>2 DEF PushInv, SentInv, Owed, RestOwed
  <2> QED BY <2>2, <2>3, <2>4, <2>5 DEF SentInv
<1> QED BY <1>10, <1>11, <1>12 DEF PushInv

-----------------------------------------------------------------------------
(* A worker and its job. *)

\* The end of an attempt: the job is put back, given up or done.
LEMMA Released ==
    ASSUME PushInv, NEW w \in Workers, Working(w), Work(w, NoWorker),
           NEW j \in Jobs, j = worker[w].job,
           job' \in [Jobs -> PushJob], \A i \in Jobs \ {j} : job'[i] = job[i],
           job'[j].users = job[j].users, job'[j].state \in {"waiting", "failed", "done"},
           job'[j].state = "waiting" =>
              job'[j].tries < MaxAttempts /\ \A u \in job[j].users : got[j][u] <= broke'[j],
           BrokeOff(j) \/ UNCHANGED broke,
           UNCHANGED <<dead, got>>, phone' \in [Members -> Tokens \union {Nothing}]
    PROVE  PushInv'
<1>1. worker' \in [Workers -> Sending] /\ \A v \in Workers : worker'[v] = IF v = w THEN NoWorker ELSE worker[v]
  BY PushIdle, WorkTyped DEF PushInv
<1>2. /\ \A i \in Jobs : broke[i] \in Nat /\ \A u \in Members : got[i][u] \in Nat
      /\ broke' \in [Jobs -> Nat]
      /\ \A i \in Jobs \ {j} : broke'[i] = broke[i]
      /\ broke'[j] \in {broke[j], broke[j] + 1}
  BY DEF PushInv, PushTypeOK, BrokeOff
<1>3. PushTypeOK'
  BY <1>1, <1>2 DEF PushInv, PushTypeOK
<1>4. \A v \in Workers : v # w /\ Working(v) => worker[v].job \in Jobs \ {j}
  BY DEF PushInv, HeldInv
<1>5. HeldInv'
  BY <1>1, <1>4, PushIdle DEF PushInv, HeldInv, Working
<1>6. \A i \in Jobs, u \in Members : Owed(i, u) => Owed(i, u)'
  BY <1>2 DEF Owed
<1>7. SentInv'
  <2>1. ResentOnlyIfBroken'
    BY <1>2 DEF PushInv, SentInv, ResentOnlyIfBroken
  <2>2. (\A i \in Jobs : job[i].state = "none" => \A u \in Members : got[i][u] = 0)'
    BY DEF PushInv, SentInv
  <2>3. (\A i \in Jobs : job[i].state = "waiting" => \A u \in job[i].users : Owed(i, u))'
    BY <1>2 DEF PushInv, SentInv, Owed
  <2>4. ASSUME NEW v \in Workers, Working(v)'
        PROVE  ListOwed(v)' /\ ((worker[v].at = "fail")' => RestOwed(v)')
    <3>1. v # w /\ worker'[v] = worker[v] /\ Working(v)
      BY <1>1, <2>4, PushIdle DEF Working
    <3>2. worker[v].job \in Jobs \ {j}
      BY <1>4, <3>1
    <3>3. UNCHANGED <<got[worker[v].job], broke[worker[v].job], job[worker[v].job], worker[v]>>
      BY <1>2, <3>1, <3>2
    <3>4. ListOwed(v)'
      BY <3>1, <3>3 DEF PushInv, SentInv, ListOwed, Owed
    <3> QED BY <3>1, <3>3, <3>4 DEF PushInv, SentInv, RestOwed, Owed
  <2> QED BY <2>1, <2>2, <2>3, <2>4 DEF SentInv, Working
<1> QED BY <1>3, <1>5, <1>7 DEF PushInv

\* An attempt that goes on to deal with what it could not deliver.
LEMMA GoesOn ==
    ASSUME PushInv, NEW w \in Workers, Working(w), NEW k \in Sending, Work(w, k),
           k.at \in {"narrow", "fail"}, k.job = worker[w].job,
           k.left = worker[w].left, k.gone = worker[w].gone, k.again = worker[w].again,
           NEW j \in Jobs, j = worker[w].job,
           job' \in [Jobs -> PushJob], \A i \in Jobs \ {j} : job'[i] = job[i],
           job'[j].state = job[j].state, job'[j].tries = job[j].tries,
           k.at = "fail" => job'[j].users = worker[w].again,
           UNCHANGED <<dead, got, broke>>, phone' \in [Members -> Tokens \union {Nothing}]
    PROVE  PushInv'
<1>1. worker' \in [Workers -> Sending] /\ \A v \in Workers : worker'[v] = IF v = w THEN k ELSE worker[v]
  BY WorkTyped DEF PushInv
<1>2. PushTypeOK'
  BY <1>1 DEF PushInv, PushTypeOK
<1>3. \A v \in Workers : v # w /\ Working(v) => worker[v].job \in Jobs \ {j}
  BY DEF PushInv, HeldInv
<1>4. HeldInv'
  BY <1>1, <1>3 DEF PushInv, HeldInv, Working
<1>5. SentInv'
  <2>1. /\ ResentOnlyIfBroken' /\ job[j].state = "active"
        /\ (\A i \in Jobs : job[i].state = "none" => \A u \in Members : got[i][u] = 0)'
    BY DEF PushInv, SentInv, HeldInv, ResentOnlyIfBroken
  <2>2. (\A i \in Jobs : job[i].state = "waiting" => \A u \in job[i].users : Owed(i, u))'
    BY <2>1 DEF PushInv, SentInv, Owed
  <2>3. ASSUME NEW v \in Workers, Working(v)'
        PROVE  ListOwed(v)' /\ ((worker[v].at = "fail")' => RestOwed(v)')
    <3>1. CASE v = w
      BY <1>1, <3>1 DEF PushInv, SentInv, ListOwed, RestOwed, Owed
    <3>2. CASE v # w
      <4>1. worker'[v] = worker[v] /\ Working(v)
        BY <1>1, <2>3, <3>2 DEF Working
      <4> QED BY <1>3, <3>2, <4>1 DEF PushInv, SentInv, ListOwed, RestOwed, Owed
    <3> QED BY <3>1, <3>2
  <2> QED BY <2>1, <2>2, <2>3 DEF SentInv, Working
<1> QED BY <1>2, <1>4, <1>5 DEF PushInv

LEMMA FailStep == ASSUME PushInv, NEW w \in Workers, FailToRetry(w) PROVE PushInv'
<1> DEFINE j == worker[w].job
<1>1. /\ worker[w].at = "fail" /\ Working(w) /\ Threw(j) /\ Work(w, NoWorker)
      /\ UNCHANGED <<phone, dead, got, broke>>
  BY DEF FailToRetry, Working
<1>2. j \in Jobs /\ job[j].tries < MaxAttempts
  BY <1>1 DEF PushInv, HeldInv
<1>3. \A u \in job[j].users : got[j][u] <= broke'[j]
  BY <1>1 DEF PushInv, SentInv, RestOwed, Owed
<1> HIDE DEF j
<1> QED BY <1>1, <1>2, <1>3, ThrewTyped, Released DEF PushInv, PushTypeOK, j

LEMMA BreakStep == ASSUME PushInv, NEW w \in Workers, BreaksOff(w) PROVE PushInv'
<1> DEFINE j == worker[w].job
<1>1. /\ Working(w) /\ Threw(j) /\ BrokeOff(j) /\ Work(w, NoWorker)
      /\ UNCHANGED <<phone, dead, got>>
  BY DEF BreaksOff, Working
<1>2. j \in Jobs /\ job[j].tries < MaxAttempts /\ job[j].users \subseteq Members
  BY <1>1 DEF PushInv, HeldInv, PushTypeOK, PushJob
<1>3. \A u \in job[j].users : got[j][u] <= broke'[j]
  BY <1>1, <1>2 DEF PushInv, SentInv, ResentOnlyIfBroken, BrokeOff, PushTypeOK
<1> HIDE DEF j
<1> QED BY <1>1, <1>2, <1>3, ThrewTyped, Released DEF PushInv, PushTypeOK, j

LEMMA DiesStep == ASSUME PushInv, NEW w \in Workers, WorkerDies(w) PROVE PushInv'
<1> DEFINE j == worker[w].job
           stalled == [job[j] EXCEPT !.stalls = @ + 1, !.state = "waiting"]
           given == [job[j] EXCEPT !.state = "failed"]
<1>1. /\ Working(w) /\ BrokeOff(j) /\ Work(w, NoWorker)
      /\ UNCHANGED <<phone, dead, got>>
  BY DEF WorkerDies, Working
<1>2. /\ j \in Jobs /\ job[j].tries < MaxAttempts /\ job[j].users \subseteq Members
      /\ job[j] \in PushJob
  BY <1>1 DEF PushInv, HeldInv, PushTypeOK, PushJob
<1>3. \A u \in job[j].users : got[j][u] <= broke'[j]
  BY <1>1, <1>2 DEF PushInv, SentInv, ResentOnlyIfBroken, BrokeOff, PushTypeOK
<1>4. /\ job' \in [Jobs -> PushJob] /\ \A i \in Jobs \ {j} : job'[i] = job[i]
      /\ job'[j].users = job[j].users /\ job'[j].tries = job[j].tries
      /\ job'[j].state \in {"waiting", "failed"}
  <2>1. CASE job[j].stalls < MaxStalls
    <3>1. job' = [job EXCEPT ![j] = stalled]
      BY <2>1 DEF WorkerDies, PushInv, PushTypeOK
    <3>2. job[j].stalls + 1 \in 0 .. MaxStalls
      BY <1>2, <2>1, LimitsAssumption DEF PushJob
    <3>3. /\ stalled \in PushJob /\ stalled.state = "waiting"
          /\ stalled.users = job[j].users /\ stalled.tries = job[j].tries
      BY <1>2, <3>2 DEF PushJob
    <3> HIDE DEF stalled, j
    <3> QED BY <1>2, <3>1, <3>3 DEF PushInv, PushTypeOK
  <2>2. CASE ~(job[j].stalls < MaxStalls)
    <3>1. job' = [job EXCEPT ![j] = given]
      BY <2>2 DEF WorkerDies, PushInv, PushTypeOK
    <3>2. /\ given \in PushJob /\ given.state = "failed"
          /\ given.users = job[j].users /\ given.tries = job[j].tries
      BY <1>2 DEF PushJob
    <3> HIDE DEF given, j
    <3> QED BY <1>2, <3>1, <3>2 DEF PushInv, PushTypeOK
  <2> QED BY <2>1, <2>2
<1> HIDE DEF j
<1> QED BY <1>1, <1>2, <1>3, <1>4, Released DEF PushInv, PushTypeOK, j

LEMMA NarrowStep == ASSUME PushInv, NEW w \in Workers, Narrow(w) PROVE PushInv'
<1> DEFINE j == worker[w].job
           k == [worker[w] EXCEPT !.at = "fail"]
           n == [job[j] EXCEPT !.users = worker[w].again]
<1>1. /\ Working(w) /\ Work(w, k) /\ job' = [job EXCEPT ![j] = n]
      /\ UNCHANGED <<phone, dead, got, broke>>
  BY DEF Narrow, Working, StillOwed, PushInv, PushTypeOK
<1>2. j \in Jobs /\ job[j] \in PushJob /\ worker[w] \in Sending
  BY <1>1 DEF PushInv, HeldInv, PushTypeOK
<1>3. /\ k \in Sending /\ k.at = "fail" /\ k.job = j /\ k.left = worker[w].left
      /\ k.gone = worker[w].gone /\ k.again = worker[w].again
  BY <1>2 DEF Sending
<1>4. /\ n \in PushJob /\ n.users = worker[w].again /\ n.state = job[j].state /\ n.tries = job[j].tries
  BY <1>2 DEF PushJob, Sending
<1> HIDE DEF n, k
<1>5. /\ job' \in [Jobs -> PushJob] /\ \A i \in Jobs \ {j} : job'[i] = job[i]
      /\ job'[j] = n
  BY <1>1, <1>2, <1>4 DEF PushInv, PushTypeOK
<1> HIDE DEF j
<1> QED BY <1>1, <1>2, <1>3, <1>4, <1>5, GoesOn DEF PushInv, PushTypeOK, j

LEMMA ClearStep == ASSUME PushInv, NEW w \in Workers, ClearTokens(w) PROVE PushInv'
<1> DEFINE j == worker[w].job
           k == [worker[w] EXCEPT !.at = "narrow"]
           n == [job[j] EXCEPT !.state = "done"]
<1>1. /\ Working(w) /\ phone' \in [Members -> Tokens \union {Nothing}]
      /\ UNCHANGED <<dead, got, broke>>
  BY DEF ClearTokens, Working, PushInv, PushTypeOK
<1>2. j \in Jobs /\ job[j] \in PushJob /\ worker[w] \in Sending
  BY <1>1 DEF PushInv, HeldInv, PushTypeOK
<1>3. CASE worker[w].again = {}
  <2>1. job' = [job EXCEPT ![j] = n] /\ Work(w, NoWorker)
    BY <1>3 DEF ClearTokens, PushInv, PushTypeOK
  <2>2. n \in PushJob /\ n.users = job[j].users /\ n.state = "done"
    BY <1>2 DEF PushJob
  <2> HIDE DEF n
  <2>3. job' \in [Jobs -> PushJob] /\ (\A i \in Jobs \ {j} : job'[i] = job[i]) /\ job'[j] = n
    BY <1>2, <2>1, <2>2 DEF PushInv, PushTypeOK
  <2> HIDE DEF j
  <2> QED BY <1>1, <1>2, <2>1, <2>2, <2>3, Released DEF j
<1>4. CASE worker[w].again # {}
  <2>1. UNCHANGED job /\ Work(w, k)
    BY <1>4 DEF ClearTokens
  <2>2. /\ k \in Sending /\ k.at = "narrow" /\ k.job = j /\ k.left = worker[w].left
        /\ k.gone = worker[w].gone /\ k.again = worker[w].again
    BY <1>2 DEF Sending
  <2> HIDE DEF j, k
  <2> QED BY <1>1, <1>2, <2>1, <2>2, GoesOn DEF j, PushInv, PushTypeOK
<1> QED BY <1>3, <1>4

LEMMA SendStepInv == ASSUME PushInv, NEW w \in Workers, SendBatch(w) PROVE PushInv'
<1> DEFINE j == worker[w].job
<1>1. PICK batch \in SUBSET worker[w].left : \E ok, died, again \in SUBSET batch :
         /\ ok \intersect again = {} /\ \A t \in died : t[2] \in dead
         /\ got' = [got EXCEPT ![j] = Delivered(j, ok)] /\ Work(w, Answered(w, batch, died, again))
  BY DEF SendBatch
<1>2. PICK ok \in SUBSET batch, died \in SUBSET batch, again \in SUBSET batch :
         /\ ok \intersect again = {} /\ \A t \in died : t[2] \in dead
         /\ got' = [got EXCEPT ![j] = Delivered(j, ok)] /\ Work(w, Answered(w, batch, died, again))
  BY <1>1
<1>3. Working(w) /\ worker[w].at = "send" /\ UNCHANGED <<job, phone, dead, broke>>
  BY DEF SendBatch, Working
<1>4. /\ j \in Jobs /\ job[j].state = "active" /\ worker[w] \in Sending
      /\ worker[w].left \subseteq Members \X Tokens
  BY <1>3 DEF PushInv, HeldInv, PushTypeOK, Sending
<1> DEFINE k == Answered(w, batch, died, again)
           refused == {t[1] : t \in again}
<1>5. /\ k \in Sending /\ k.at \in {"send", "clear"} /\ k.job = j /\ k.left = worker[w].left \ batch
      /\ k.gone = worker[w].gone \union died
      /\ k.again = worker[w].again \union refused
  <2>1. refused \subseteq Members
    BY <1>4
  <2>2. died \subseteq Members \X Tokens
    BY <1>4
  <2> HIDE DEF refused
  <2> QED BY <1>4, <2>1, <2>2 DEF Answered, Sending, refused
<1>6. Work(w, k)
  BY <1>2
<1> HIDE DEF k
<1>7. worker' \in [Workers -> Sending] /\ \A v \in Workers : worker'[v] = IF v = w THEN k ELSE worker[v]
  BY <1>5, <1>6, WorkTyped DEF PushInv
<1>8. /\ got' \in [Jobs -> [Members -> Nat]]
      /\ \A i \in Jobs \ {j} : got'[i] = got[i]
      /\ \A u \in Members : got'[j][u] = IF \E t \in ok : t[1] = u THEN got[j][u] + 1 ELSE got[j][u]
  BY <1>2, <1>4 DEF PushInv, PushTypeOK, Delivered
<1>9. PushTypeOK'
  BY <1>3, <1>7, <1>8 DEF PushInv, PushTypeOK
<1>10. \A v \in Workers : v # w /\ Working(v) => worker[v].job \in Jobs \ {j}
  BY <1>3 DEF PushInv, HeldInv
<1>11. HeldInv'
  BY <1>2, <1>3, <1>5, <1>7 DEF PushInv, HeldInv, Working
<1>12. ListOwed(w)
  BY <1>3 DEF PushInv, SentInv
<1>13. \A u \in Members : got'[j][u] <= broke[j] + 1
  BY <1>4, <1>8, <1>12 DEF ListOwed, Owed, PushInv, SentInv, ResentOnlyIfBroken, PushTypeOK
<1>14. ListOwed(w)'
  <2>1. \A t \in worker[w].left, q \in batch : t[1] = q[1] => t = q
    BY <1>12 DEF ListOwed
  <2>2. \A u \in Members : (\A t \in ok : t[1] # u) => (Owed(j, u) => Owed(j, u)')
    <3> SUFFICES ASSUME NEW u \in Members, \A t \in ok : t[1] # u, Owed(j, u) PROVE Owed(j, u)'
        OBVIOUS
    <3>1. got'[j][u] = got[j][u] /\ broke' = broke
      BY <1>3, <1>8
    <3>2. j' = j
      BY <1>5, <1>7
    <3> QED BY <3>1, <3>2 DEF Owed
  <2>3. \A t \in worker[w].left \ batch :
           t[1] \in Members /\ Owed(j, t[1]) /\ t[1] \notin worker[w].again \union refused
             /\ \A q \in ok : q[1] # t[1]
    <3> SUFFICES ASSUME NEW t \in worker[w].left, t \notin batch
                 PROVE  t[1] \in Members /\ Owed(j, t[1]) /\ t[1] \notin worker[w].again \union refused
                          /\ \A q \in ok : q[1] # t[1]
        OBVIOUS
    <3>1. \A q \in batch : q[1] # t[1]
      BY <2>1
    <3>2. t[1] \in Members
      BY <1>4
    <3>3. t[1] \notin refused
      BY <3>1
    <3> HIDE DEF refused
    <3> QED BY <1>12, <3>1, <3>2, <3>3 DEF ListOwed
  <2>4. \A u \in worker[w].again \union refused :
           u \in Members /\ Owed(j, u) /\ \A q \in ok : q[1] # u
    <3>1. \A u \in worker[w].again : u \in Members /\ Owed(j, u) /\ \A q \in ok : q[1] # u
      BY <1>4, <1>12 DEF ListOwed, Sending
    <3>2. \A t \in again : t[1] \in Members /\ Owed(j, t[1]) /\ \A q \in ok : q[1] # t[1]
      BY <1>2, <1>4, <1>12, <2>1 DEF ListOwed
    <3> QED BY <3>1, <3>2
  <2>5. \A t \in worker[w].left \ batch : Owed(j, t[1])'
    BY <2>2, <2>3
  <2>6. \A u \in worker[w].again \union refused : Owed(j, u)'
    BY <2>2, <2>4
  <2>7. worker'[w] = k
    BY <1>7
  <2> HIDE DEF refused
  <2> QED BY <1>5, <1>12, <2>3, <2>5, <2>6, <2>7 DEF ListOwed, Owed
<1>15. SentInv'
  <2>1. ResentOnlyIfBroken'
    BY <1>3, <1>8, <1>13 DEF PushInv, SentInv, ResentOnlyIfBroken, PushTypeOK
  <2>2. /\ (\A i \in Jobs : job[i].state = "none" => \A u \in Members : got[i][u] = 0)'
        /\ (\A i \in Jobs : job[i].state = "waiting" => \A u \in job[i].users : Owed(i, u))'
    BY <1>3, <1>4, <1>8 DEF PushInv, SentInv, Owed
  <2>3. ASSUME NEW v \in Workers, Working(v)', v # w
        PROVE  ListOwed(v)' /\ ((worker[v].at = "fail")' => RestOwed(v)')
    <3>1. worker'[v] = worker[v] /\ Working(v)
      BY <1>7, <2>3 DEF Working
    <3>2. UNCHANGED <<got[worker[v].job], broke[worker[v].job], job[worker[v].job], worker[v]>>
      BY <1>3, <1>8, <1>10, <2>3, <3>1
    <3>3. ListOwed(v)'
      BY <3>1, <3>2 DEF PushInv, SentInv, ListOwed, Owed
    <3> QED BY <3>1, <3>2, <3>3 DEF PushInv, SentInv, RestOwed, Owed
  <2>4. worker'[w].at # "fail"
    BY <1>5, <1>7
  <2> QED BY <1>14, <2>1, <2>2, <2>3, <2>4 DEF SentInv, Working
<1> QED BY <1>9, <1>11, <1>15 DEF PushInv

-----------------------------------------------------------------------------
(* Phones. *)

LEMMA PhoneStepInv == ASSUME PushInv, PhoneStep PROVE PushInv'
<1>1. /\ UNCHANGED <<job, worker, got, broke>> /\ dead \subseteq dead' /\ dead' \subseteq Tokens
      /\ phone' \in [Members -> Tokens \union {Nothing}]
  BY DEF PhoneStep, DropToken, SaveToken, TokenDies, PushInv, PushTypeOK
<1>2. PushTypeOK' /\ HeldInv'
  BY <1>1 DEF PushInv, PushTypeOK, HeldInv, Working
<1>3. SentInv'
  BY <1>1 DEF PushInv, SentInv, ResentOnlyIfBroken, ListOwed, RestOwed, Owed, Working
<1> QED BY <1>2, <1>3 DEF PushInv

-----------------------------------------------------------------------------
(* Every step. *)

LEMMA PushNextInv == PushInv /\ [PushNext]_pushVars => PushInv'
<1> SUFFICES ASSUME PushInv, [PushNext]_pushVars PROVE PushInv'
    OBVIOUS
<1>1. ASSUME NEW j \in Jobs, NEW us \in SUBSET Members, Enqueue(j, us) PROVE PushInv'
  BY <1>1, EnqueueStep
<1>2. ASSUME NEW w \in Workers, SendStep(w) PROVE PushInv'
  BY <1>2, TakeStep, ReadFailsStep, SendStepInv, ClearStep, NarrowStep, FailStep, BreakStep
     DEF SendStep
<1>3. ASSUME NEW w \in Workers, WorkerDies(w) PROVE PushInv'
  BY <1>3, DiesStep
<1>4. CASE PhoneStep
  BY <1>4, PhoneStepInv
<1>5. CASE UNCHANGED pushVars
  BY <1>5 DEF pushVars, PushInv, PushTypeOK, HeldInv, SentInv, ResentOnlyIfBroken, ListOwed, RestOwed, Owed, Working
<1> QED BY <1>1, <1>2, <1>3, <1>4, <1>5 DEF PushNext

\* The inductive invariant holds in every state of every run.
THEOREM PushInvHolds == PushSpec => []PushInv
BY PushInitInv, PushNextInv, PTL DEF PushSpec

\* Every variable keeps its type: in particular a job is never tried once too often.
THEOREM PushTypeCorrect == PushSpec => []PushTypeOK
<1>1. PushInv => PushTypeOK
  BY DEF PushInv
<1> QED BY <1>1, PushInvHolds, PTL

\* A job sends a member one push, and another only for an attempt that broke off: retrying only
\* those refused for now resends to nobody.
THEOREM ResendsAreBroken == PushSpec => []ResentOnlyIfBroken
<1>1. PushInv => ResentOnlyIfBroken
  BY DEF PushInv, SentInv
<1> QED BY <1>1, PushInvHolds, PTL

\* Sending a push, clearing dead tokens included, never takes a working token from a member.
THEOREM WorkingTokensKept == PushSpec => WorkingTokenStays
<1> DEFINE A == worker' # worker => \A u \in Members :
                   phone[u] \notin dead \union {Nothing} => phone'[u] = phone[u]
<1>1. PushInv /\ [PushNext]_pushVars => [A]_pushVars
  <2> SUFFICES ASSUME PushInv, PushNext, worker' # worker, NEW u \in Members, phone[u] \notin dead \union {Nothing}
               PROVE  phone'[u] = phone[u]
      OBVIOUS
  <2>1. ASSUME NEW w \in Workers, ClearTokens(w) PROVE phone'[u] = phone[u]
    <3>1. \A t \in worker[w].gone : t[2] \in dead
      BY DEF PushInv, HeldInv
    <3> QED BY <2>1, <3>1 DEF ClearTokens, HasToken
  <2>2. ASSUME NEW w \in Workers, SendStep(w) PROVE phone'[u] = phone[u]
    BY <2>1, <2>2 DEF SendStep, Take, ReadFails, SendBatch, Narrow, FailToRetry, BreaksOff
  <2>3. ~PhoneStep
    BY DEF PhoneStep, DropToken, SaveToken, TokenDies
  <2> QED BY <2>2, <2>3 DEF PushNext, Enqueue, WorkerDies
<1> QED BY <1>1, PushInvHolds, PTL DEF PushSpec, WorkingTokenStays

-----------------------------------------------------------------------------
(* The chat: what is under way. *)

Req == [at : {"idle", "waiting", "sent", "refreshing"}, id : Nat, retry : BOOLEAN]

\* The composer's request waits for the ack of its frame with this id.
Pending(id) == request[Chat].at = "sent" /\ request[Chat].id = id

Stored(m) == \E i \in DOMAIN log : log[i] = m

\* A frame is of a request made before or now.  One of the composer is for a message answered
\* before or the next one; that of the pending request is for the next one.
Frames == {f \in Frame : f.id <= request[f.by].id /\ (f.by = Chat =>
              /\ f.msg \in Messages
              /\ \E n \in 1..written + 1 : f.msg = Ours(n)
              /\ Pending(f.id) => f.msg = Ours(written + 1))}

\* So is an ack.  Only the composer's requests are refused; one that will answer the pending
\* request with success is of a stored message.
Items == {x \in Item : x.kind = "ack" =>
              /\ x.id <= request[x.by].id
              /\ x.code = "refused" => x.by = Chat
              /\ x.by = Chat /\ Pending(x.id) /\ x.code = "ok" => Stored(Ours(written + 1))}

Core ==
    /\ request \in [Requests -> Req]
    /\ written \in Nat /\ (request[Chat].at # "idle" => written < MaxSends)
    /\ log \in Seq(Messages) /\ unpublished \subseteq Messages
    /\ used \in [{"presses", "theirs", "expiries", "drops", "refusals"} -> Nat]
    /\ pushes \in [Sockets -> Seq(Messages)]
    /\ inbox \in [Sockets -> Seq(Frames)]
    /\ wire \in [Sockets -> Seq(Items)]

\* What any step does to the composer's request, the answered messages and the ticket.
Onward ==
    /\ request' \in [Requests -> Req]
    /\ \A r \in Requests : request'[r].id >= request[r].id
    /\ written' \in {written, written + 1}
    /\ request'[Chat].at = "sent" =>
          /\ written' = written
          /\ request'[Chat].id > request[Chat].id \/ Pending(request'[Chat].id)
    /\ log' = log \/ \E m \in Messages : log' = Append(log, m)

LEMMA ChatIn == Chat \in Requests
BY DEF Requests

LEMMA Wider == \A v, w \in Nat : v <= w => 1..v + 1 \subseteq 1..w + 1
OBVIOUS

LEMMA SendsIn == MaxSends \in Nat /\ MaxTheirs \in Nat
BY ChatAssumption

\* A request that is made, that waits, that has ended, that waits for the refresh.
LEMMA ReqMoves ==
    ASSUME NEW q \in Req, NEW to \in {"idle", "waiting", "sent", "refreshing"}
    PROVE  [q EXCEPT !.at = to] \in Req /\ [q EXCEPT !.at = to].id = q.id /\ [q EXCEPT !.at = to].at = to
BY DEF Req

LEMMA ReqRetries ==
    ASSUME NEW q \in Req, NEW again \in BOOLEAN
    PROVE  /\ [q EXCEPT !.retry = again] \in Req
           /\ [q EXCEPT !.retry = again].id = q.id /\ [q EXCEPT !.retry = again].at = q.at
BY DEF Req

LEMMA ReqEnds ==
    ASSUME NEW q \in Req
    PROVE  /\ [q EXCEPT !.at = "idle", !.retry = FALSE] \in Req
           /\ [q EXCEPT !.at = "idle", !.retry = FALSE].id = q.id
           /\ [q EXCEPT !.at = "idle", !.retry = FALSE].at = "idle"
BY DEF Req

LEMMA ReqSends ==
    ASSUME NEW q \in Req
    PROVE  [q EXCEPT !.at = "sent", !.id = @ + 1] = [at |-> "sent", id |-> q.id + 1, retry |-> q.retry]
<1> DEFINE p == [q EXCEPT !.at = "sent"]
<1>1. p = [at |-> "sent", id |-> q.id, retry |-> q.retry] /\ p \in Req
  BY DEF Req
<1>2. [q EXCEPT !.at = "sent", !.id = @ + 1] = [p EXCEPT !.id = q.id + 1]
  BY DEF Req
<1> HIDE DEF p
<1>3. [p EXCEPT !.id = q.id + 1] = [at |-> "sent", id |-> q.id + 1, retry |-> q.retry]
  BY <1>1 DEF Req
<1> QED BY <1>2, <1>3

LEMMA RequestSteps ==
    ASSUME Core, NEW r \in Requests
    PROVE  /\ request[r] \in Req
           /\ Sent(r) \in Req /\ Sent(r).id = request[r].id + 1 /\ Sent(r).at = "sent"
           /\ Waiting(r) \in Req /\ Waiting(r).id = request[r].id /\ Waiting(r).at = "waiting"
           /\ Idle(r) \in Req /\ Idle(r).id = request[r].id /\ Idle(r).at = "idle"
<1>1. request[r] \in Req
  BY DEF Core
<1>2. request[r].id \in Nat /\ request[r].retry \in BOOLEAN
  BY <1>1 DEF Req
<1>3. Sent(r) = [at |-> "sent", id |-> request[r].id + 1, retry |-> request[r].retry]
  BY <1>1, ReqSends DEF Sent
<1>4. Sent(r) \in Req /\ Sent(r).id = request[r].id + 1 /\ Sent(r).at = "sent"
  BY <1>2, <1>3 DEF Req
<1>5. Waiting(r) \in Req /\ Waiting(r).id = request[r].id /\ Waiting(r).at = "waiting"
  BY <1>1, ReqMoves DEF Waiting
<1>6. Idle(r) \in Req /\ Idle(r).id = request[r].id /\ Idle(r).at = "idle"
  BY <1>1, ReqEnds DEF Idle
<1> QED BY <1>1, <1>4, <1>5, <1>6

LEMMA StoredGrows ==
    ASSUME Core, Onward, NEW m, Stored(m) PROVE Stored(m)'
<1>1. ASSUME NEW n \in Messages, log' = Append(log, n) PROVE Stored(m)'
  <2>1. PICK i \in DOMAIN log : log[i] = m
    BY DEF Stored
  <2>2. i \in 1..Len(log) /\ Len(log) \in Nat
    BY LenProperties DEF Core
  <2>3. log'[i] = m /\ Len(log') = Len(log) + 1 /\ log' \in Seq(Messages)
    BY <1>1, <2>1, <2>2, AppendProperties DEF Core
  <2>4. i \in DOMAIN log'
    BY <2>2, <2>3, LenProperties
  <2> QED BY <2>3, <2>4 DEF Stored
<1> QED BY <1>1 DEF Onward, Stored

LEMMA Grows == ASSUME Core, Onward PROVE Frames \subseteq Frames' /\ Items \subseteq Items'
<1>0. request[Chat] \in Req /\ request'[Chat] \in Req
  BY ChatIn DEF Core, Onward
<1>w. written \in Nat /\ written' \in {written, written + 1}
  BY DEF Core, Onward
<1>i. \A r \in Requests : \A n \in Nat : n <= request[r].id => n <= request'[r].id
  BY DEF Core, Onward, Req
<1>1. ASSUME NEW f \in Frames PROVE f \in Frames'
  <2>0. f \in Frame /\ f.by \in Requests /\ f.id \in Nat /\ f.id <= request'[f.by].id
    BY <1>i DEF Frames, Frame
  <2>1. CASE f.by = Chat
    <3>1. f.id \in Nat /\ f.id <= request[Chat].id /\ f.msg \in Messages
      BY <2>1, <2>0 DEF Frames
    <3>2. PICK n \in 1..written + 1 : f.msg = Ours(n)
      BY <2>1 DEF Frames
    <3>3. n \in 1..written' + 1
      <4>1. written' \in Nat /\ written <= written'
        BY <1>w
      <4> QED BY <1>w, <3>2, <4>1, Wider
    <3>4. Pending(f.id)' => Pending(f.id) /\ written' = written
      BY <1>0, <3>1, ChatIn DEF Onward, Pending, Req
    <3>5. Pending(f.id) => f.msg = Ours(written + 1)
      BY <2>1 DEF Frames
    <3>6. (Pending(f.id) => f.msg = Ours(written + 1))'
      BY <3>4, <3>5
    <3> QED BY <2>0, <2>1, <3>1, <3>2, <3>3, <3>6 DEF Frames
  <2> QED BY <2>0, <2>1 DEF Frames
<1>2. ASSUME NEW x \in Items PROVE x \in Items'
  <2>1. CASE x.kind = "ack"
    <3>0. x \in Item /\ x.by \in Requests /\ x.id \in Nat /\ x.id <= request'[x.by].id
          /\ (x.code = "refused" => x.by = Chat)
      BY <1>i, <2>1 DEF Items, Item
    <3>1. ASSUME x.by = Chat, Pending(x.id)', x.code = "ok" PROVE Stored(Ours(written + 1))'
      <4>1. x.id <= request[Chat].id
        BY <2>1, <3>1 DEF Items
      <4>2. Pending(x.id) /\ written' = written
        BY <1>0, <3>0, <3>1, <4>1, ChatIn DEF Onward, Pending, Req
      <4>3. Stored(Ours(written + 1))
        BY <2>1, <3>1, <4>2 DEF Items
      <4> QED BY <4>2, <4>3, StoredGrows
    <3> QED BY <2>1, <3>0, <3>1 DEF Items
  <2>2. CASE x.kind # "ack"
    BY <2>2 DEF Items
  <2> QED BY <2>1, <2>2
<1> QED BY <1>1, <1>2

\* What was queued and sent before stays so.
LEMMA Stays ==
    ASSUME Core, Onward
    PROVE  inbox \in [Sockets -> Seq(Frames')] /\ wire \in [Sockets -> Seq(Items')]
<1>1. \A s \in Sockets : inbox[s] \in Seq(Frames') /\ wire[s] \in Seq(Items')
  BY Grows, SeqMonotonic DEF Core
<1> QED BY <1>1 DEF Core

\* Steps that leave the composer, the answered messages and the ticket alone.
LEMMA StandsStill ==
    ASSUME Core, UNCHANGED <<request, written, log>> PROVE Onward
BY ChatIn DEF Core, Onward, Pending, Req

-----------------------------------------------------------------------------
(* The operators on queues. *)

\* A queue of members of T, at its ends.
LEMMA QueueEnds ==
    ASSUME NEW T, NEW q \in [Sockets -> Seq(T)], NEW s \in Sockets, q[s] # <<>>
    PROVE  Head(q[s]) \in T /\ [q EXCEPT ![s] = Tail(@)] \in [Sockets -> Seq(T)]
<1>1. q[s] \in Seq(T)
  OBVIOUS
<1>2. Head(q[s]) \in T /\ Tail(q[s]) \in Seq(T)
  BY <1>1, HeadTailProperties
<1> QED BY <1>2

LEMMA QueueJoins ==
    ASSUME NEW T, NEW q \in [Sockets -> Seq(T)], NEW s, NEW more \in Seq(T)
    PROVE  [q EXCEPT ![s] = @ \o more] \in [Sockets -> Seq(T)]
<1>1. \A t \in Sockets : q[t] \o more \in Seq(T)
  BY ConcatProperties
<1> QED BY <1>1

LEMMA QueueTakes ==
    ASSUME NEW T, NEW q \in [Sockets -> Seq(T)], NEW s, NEW x \in T
    PROVE  [q EXCEPT ![s] = Append(@, x)] \in [Sockets -> Seq(T)]
<1>1. \A t \in Sockets : Append(q[t], x) \in Seq(T)
  BY AppendProperties
<1> QED BY <1>1

LEMMA QueueEmptied ==
    ASSUME NEW T, NEW q \in [Sockets -> Seq(T)], NEW s
    PROVE  [q EXCEPT ![s] = <<>>] \in [Sockets -> Seq(T)]
BY EmptySeq

LEMMA PairSeq ==
    ASSUME NEW T, NEW x \in T, NEW y \in T PROVE <<x>> \in Seq(T) /\ <<x, y>> \in Seq(T)
OBVIOUS

LEMMA SendsTyped ==
    ASSUME NEW T, wire \in [Sockets -> Seq(T)], NEW s, NEW items \in Seq(T), Sends(s, items)
    PROVE  wire' \in [Sockets -> Seq(T)]
<1>1. \A t \in Sockets : wire[t] \o items \in Seq(T)
  BY ConcatProperties
<1> QED BY <1>1 DEF Sends

LEMMA ServerClosesTyped ==
    ASSUME Core, NEW s, ServerCloses(s) PROVE pushes' \in [Sockets -> Seq(Messages)]
BY QueueEmptied DEF Core, ServerCloses

-----------------------------------------------------------------------------
(* The tab's requests. *)

LEMMA FrameTyped ==
    ASSUME Core, NEW r \in Requests, r = Chat => written < MaxSends
    PROVE  /\ FrameOf(r) \in Frame /\ FrameOf(r).by = r /\ FrameOf(r).id = request[r].id + 1
           /\ r = Chat => /\ FrameOf(r).msg = Ours(written + 1) /\ Ours(written + 1) \in Messages
<1>1. request[r].id + 1 \in Nat
  BY DEF Core, Req
<1>2. ASSUME r = Chat PROVE Ours(written + 1) \in Messages
  <2>1. written \in Nat /\ written < MaxSends
    BY <1>2 DEF Core
  <2>2. written + 1 \in 1..MaxSends
    BY <2>1, SendsIn
  <2> QED BY <2>2 DEF Messages
<1> QED BY <1>1, <1>2 DEF Frame, FrameOf

\* The frame of a request that is sent in this step is a good one once it is sent.
LEMMA FrameGood ==
    ASSUME Core, NEW r \in Requests, r = Chat => written < MaxSends,
           request'[r] = Sent(r), written' = written
    PROVE  FrameOf(r) \in Frames'
<1>0. /\ FrameOf(r).id = request'[r].id /\ FrameOf(r).by = r /\ FrameOf(r) \in Frame
      /\ request'[r].id \in Nat
  BY FrameTyped, RequestSteps DEF Req
<1>1. CASE r = Chat
  <2>1. written + 1 \in 1..written' + 1
    BY DEF Core
  <2>2. FrameOf(r).msg = Ours(written + 1) /\ Ours(written + 1) \in Messages
    BY <1>1, FrameTyped
  <2> QED BY <1>0, <1>1, <2>1, <2>2 DEF Frames
<1>2. CASE r # Chat
  BY <1>0, <1>2 DEF Frames
<1> QED BY <1>1, <1>2

LEMMA AskStep ==
    ASSUME Core, NEW r \in Requests, r = Chat => written < MaxSends,
           Ask(r), UNCHANGED <<written, log>>
    PROVE  /\ Onward
           /\ request'[Chat].at # "idle" => written < MaxSends
           /\ inbox' \in [Sockets -> Seq(Frames')]
<1>1. /\ Sent(r) \in Req /\ Sent(r).id = request[r].id + 1
      /\ Waiting(r) \in Req /\ Waiting(r).at = "waiting" /\ Waiting(r).id = request[r].id
  BY RequestSteps
<1>2. request' \in [Requests -> Req] /\ request'[r] \in {Sent(r), Waiting(r)}
      /\ \A t \in Requests \ {r} : request'[t] = request[t]
  BY <1>1 DEF Ask, Core
<1>i. ASSUME NEW t \in Requests PROVE request'[t].id >= request[t].id
  <2>1. request[t].id \in Nat
    BY DEF Core, Req
  <2>2. CASE t = r
    BY <1>1, <1>2, <2>1, <2>2
  <2>3. CASE t # r
    BY <1>2, <2>1, <2>3
  <2> QED BY <2>2, <2>3
<1>3. Onward
  BY <1>1, <1>2, <1>i, ChatIn DEF Onward, Core, Req, Pending
<1>4. request'[Chat].at # "idle" => written < MaxSends
  BY <1>2, ChatIn DEF Core
<1>5. CASE ws # None /\ tab[ws] = "open"
  <2>1. request'[r] = Sent(r) /\ inbox' = [inbox EXCEPT ![ws] = Append(@, FrameOf(r))]
    BY <1>5 DEF Ask, Core
  <2>2. FrameOf(r) \in Frames'
    BY <2>1, FrameGood
  <2> QED BY <1>3, <1>4, <2>1, <2>2, Stays, QueueTakes
<1>6. CASE ~(ws # None /\ tab[ws] = "open")
  BY <1>3, <1>4, <1>6, Stays DEF Ask
<1> QED BY <1>5, <1>6

LEMMA CoreAfter ==
    ASSUME Core, Onward, request'[Chat].at # "idle" => written' < MaxSends,
           unpublished' \subseteq Messages,
           used' \in [{"presses", "theirs", "expiries", "drops", "refusals"} -> Nat],
           pushes' \in [Sockets -> Seq(Messages)],
           inbox' \in [Sockets -> Seq(Frames')], wire' \in [Sockets -> Seq(Items')]
    PROVE  Core'
<1>1. log' \in Seq(Messages)
  <2>1. log \in Seq(Messages) /\ (log' = log \/ \E m \in Messages : log' = Append(log, m))
    BY DEF Onward, Core
  <2>2. ASSUME NEW m \in Messages, log' = Append(log, m) PROVE log' \in Seq(Messages)
    BY <2>1, <2>2, AppendProperties
  <2> QED BY <2>1, <2>2
<1>2. written' \in Nat
  BY DEF Onward, Core
<1> QED BY <1>1, <1>2 DEF Core, Onward

LEMMA UseTyped ==
    ASSUME Core, NEW b \in {"presses", "theirs", "expiries", "drops", "refusals"}, Use(b)
    PROVE  used' \in [{"presses", "theirs", "expiries", "drops", "refusals"} -> Nat]
BY DEF Core, Use

LEMMA PressStep == ASSUME Core, Press PROVE Onward /\ Core'
<1>1. Chat \in Requests /\ written < MaxSends
  BY ChatIn DEF Press
<1>2. Onward /\ inbox' \in [Sockets -> Seq(Frames')]
  BY <1>1, AskStep DEF Press, pageVars, ticketVars
<1>3. wire' \in [Sockets -> Seq(Items')]
  BY <1>2, Stays DEF Press
<1> QED BY <1>1, <1>2, <1>3, CoreAfter, UseTyped DEF Core, Press, pageVars, ticketVars

LEMMA RetryStep == ASSUME Core, RetryHistory PROVE Onward /\ Core'
<1>1. PICK h \in Reloads : request[h].at = "idle" /\ Ask(h)
  BY DEF RetryHistory
<1>2. h \in Requests /\ h # Chat
  BY ChatAssumption DEF Requests
<1>3. /\ Onward /\ inbox' \in [Sockets -> Seq(Frames')]
      /\ request'[Chat].at # "idle" => written < MaxSends
  BY <1>1, <1>2, AskStep DEF RetryHistory, pageVars, ticketVars
<1>4. wire' \in [Sockets -> Seq(Items')]
  BY <1>3, Stays DEF RetryHistory
<1> QED BY <1>3, <1>4, CoreAfter, UseTyped DEF Core, RetryHistory, pageVars, ticketVars

\* A step that only lets requests end, wait or be repeated, none of them being sent.
LEMMA RequestsMove ==
    ASSUME Core, UNCHANGED <<written, log>>, request' \in [Requests -> Req],
           \A r \in Requests : request'[r].id = request[r].id,
           request'[Chat].at # "idle" => request[Chat].at # "idle",
           request'[Chat].at = "sent" => request[Chat].at = "sent"
    PROVE  Onward /\ (request'[Chat].at # "idle" => written' < MaxSends)
BY ChatIn DEF Core, Onward, Pending, Req

LEMMA TimesOutStep == ASSUME Core, NEW r \in Requests, TimesOut(r) PROVE Onward /\ Core'
<1>1. /\ request' \in [Requests -> Req]
      /\ request'[Chat] = IF r = Chat THEN Idle(r) ELSE request[Chat]
  BY RequestSteps, ChatIn DEF TimesOut, Core
<1>2. \A t \in Requests : request'[t].id = request[t].id
  BY RequestSteps DEF TimesOut, Core
<1>3. Onward /\ (request'[Chat].at # "idle" => written' < MaxSends)
  BY <1>1, <1>2, RequestSteps, RequestsMove DEF TimesOut, ticketVars
<1> QED BY <1>3, Stays, CoreAfter DEF TimesOut, socketVars, ticketVars, Core

LEMMA ClosesStep ==
    ASSUME Core, NEW s, NEW auth, Closes(s, auth)
    PROVE  /\ Onward /\ (request'[Chat].at # "idle" => written' < MaxSends)
           /\ wire' \in [Sockets -> Seq(Items')]
           /\ UNCHANGED <<log, unpublished, pushes>>
<1>1. UNCHANGED <<written, log, unpublished, pushes>> /\ wire' = [wire EXCEPT ![s] = <<>>]
  BY DEF Closes, ticketVars
<1> DEFINE again  == {r \in At("sent") : s = ws /\ ~request[r].retry}
           failed == IF s = ws THEN At("waiting") \union (At("sent") \ again) ELSE {}
<1>2. /\ again \subseteq At("sent")
      /\ request' = [r \in Requests |->
                       IF r \in again THEN [request[r] EXCEPT !.at = "refreshing"]
                       ELSE IF r \in failed THEN Idle(r) ELSE request[r]]
  BY DEF Closes
<1> HIDE DEF again, failed
<1>3. \A r \in Requests :
         /\ [request[r] EXCEPT !.at = "refreshing"] \in Req
         /\ [request[r] EXCEPT !.at = "refreshing"].id = request[r].id
         /\ [request[r] EXCEPT !.at = "refreshing"].at = "refreshing"
  BY RequestSteps, ReqMoves
<1>4. request' \in [Requests -> Req]
  BY <1>2, <1>3, RequestSteps
<1>5. /\ \A r \in Requests : request'[r].id = request[r].id
      /\ request'[Chat].at # "idle" => request[Chat].at # "idle"
      /\ request'[Chat].at = "sent" => request[Chat].at = "sent"
  BY <1>2, <1>3, RequestSteps, ChatIn DEF At
<1>6. Onward /\ (request'[Chat].at # "idle" => written' < MaxSends)
  BY <1>1, <1>4, <1>5, RequestsMove
<1>7. wire' \in [Sockets -> Seq(Items')]
  BY <1>1, <1>6, Stays, QueueEmptied
<1> QED BY <1>1, <1>6, <1>7

LEMMA RefusedStep == ASSUME Core, NEW s \in Sockets, Refused(s) PROVE Onward /\ Core'
<1>1. Closes(s, FALSE) /\ UNCHANGED <<inbox, used>>
  BY DEF Refused
<1> QED BY <1>1, ClosesStep, CoreAfter, Stays DEF Core

LEMMA CloseStep == ASSUME Core, NEW s \in Sockets, ReceiveClose(s) PROVE Onward /\ Core'
<1>1. Closes(s, TRUE) /\ UNCHANGED <<inbox, used>>
  BY DEF ReceiveClose
<1> QED BY <1>1, ClosesStep, CoreAfter, Stays DEF Core

LEMMA DropsStep == ASSUME Core, NEW s \in Sockets, Drops(s) PROVE Onward /\ Core'
<1>1. Closes(s, FALSE) /\ Use("drops")
  BY DEF Drops
<1>2. PICK arrived \in 0..Len(inbox[s]) : inbox' = [inbox EXCEPT ![s] = SubSeq(@, 1, arrived)]
  BY DEF Drops
<1>3. inbox \in [Sockets -> Seq(Frames')]
  BY <1>1, ClosesStep, Stays
<1>4. Len(inbox[s]) \in Nat /\ \A i \in 1..Len(inbox[s]) : inbox[s][i] \in Frames'
  BY <1>3, ElementOfSeq, LenProperties
<1>5. SubSeq(inbox[s], 1, arrived) \in Seq(Frames')
  <2>1. arrived \in Int /\ \A i \in 1..arrived : inbox[s][i] \in Frames'
    BY <1>4
  <2> QED BY <2>1, SubSeqProperties
<1>6. inbox' \in [Sockets -> Seq(Frames')]
  BY <1>2, <1>3, <1>5
<1> QED BY <1>1, <1>6, ClosesStep, CoreAfter, UseTyped DEF Core

\* The refresh is answered.
LEMMA RefreshStep ==
    ASSUME Core, NEW ok, RefreshDone(ok),
           used' \in [{"presses", "theirs", "expiries", "drops", "refusals"} -> Nat]
    PROVE  Onward /\ Core'
<1>1. UNCHANGED <<written, log, unpublished, inbox>>
  BY DEF RefreshDone, pageVars, ticketVars
<1>2. CASE At("refreshing") = {}
  BY <1>1, <1>2, StandsStill, Stays, CoreAfter DEF RefreshDone, Core
<1>3. CASE At("refreshing") # {}
  <2>1. /\ request' = [r \in Requests |->
                         IF request[r].at = "refreshing"
                         THEN [Waiting(r) EXCEPT !.retry = TRUE] ELSE request[r]]
        /\ pushes' = [s \in Sockets |-> IF s = ws THEN <<>> ELSE pushes[s]]
        /\ wire' = [s \in Sockets |-> IF s = ws THEN <<>> ELSE wire[s]]
    BY <1>3 DEF RefreshDone
  <2>2. \A r \in Requests :
           /\ [Waiting(r) EXCEPT !.retry = TRUE] \in Req
           /\ [Waiting(r) EXCEPT !.retry = TRUE].id = request[r].id
           /\ [Waiting(r) EXCEPT !.retry = TRUE].at = "waiting"
    BY RequestSteps, ReqRetries
  <2>3. request' \in [Requests -> Req]
    BY <2>1, <2>2, RequestSteps
  <2>4. /\ \A r \in Requests : request'[r].id = request[r].id
        /\ request'[Chat].at # "idle" => request[Chat].at # "idle"
        /\ request'[Chat].at = "sent" => request[Chat].at = "sent"
    BY <2>1, <2>2, ChatIn
  <2>5. Onward /\ (request'[Chat].at # "idle" => written' < MaxSends)
    BY <1>1, <2>3, <2>4, RequestsMove
  <2>6. inbox' \in [Sockets -> Seq(Frames')] /\ wire \in [Sockets -> Seq(Items')]
    BY <1>1, <2>5, Stays
  <2>7. wire' \in [Sockets -> Seq(Items')] /\ pushes' \in [Sockets -> Seq(Messages)]
    BY <2>1, <2>6, EmptySeq DEF Core
  <2> QED BY <1>1, <2>5, <2>6, <2>7, CoreAfter DEF Core
<1> QED BY <1>2, <1>3

\* What does not touch requests, queues or the ticket.
LEMMA AsideStep ==
    ASSUME Core, UNCHANGED <<request, written, log, unpublished, inbox, pushes, wire>>,
           used' \in [{"presses", "theirs", "expiries", "drops", "refusals"} -> Nat]
    PROVE  Onward /\ Core'
BY StandsStill, Stays, CoreAfter DEF Core

-----------------------------------------------------------------------------
(* Sockets that open. *)

LEMMA OrderTyped ==
    ASSUME Core, NEW woken \in SUBSET Requests, NEW order \in SetToSeqs(woken),
           NEW T, \A r \in woken : FrameOf(r) \in T
    PROVE  [i \in DOMAIN order |-> FrameOf(order[i])] \in Seq(T)
<1>1. IsFiniteSet(Requests)
  <2>1. IsFiniteSet({Chat}) /\ IsFiniteSet(Reloads)
    BY FS_Singleton, ChatAssumption
  <2> QED BY <2>1, FS_Union DEF Requests
<1>2. Cardinality(woken) \in Nat
  BY <1>1, FS_Subset, FS_CardinalityType
<1>3. order \in [1..Cardinality(woken) -> woken]
  BY DEF SetToSeqs
<1> DEFINE n == Cardinality(woken)
<1> HIDE DEF n
<1>4. [i \in 1..n |-> FrameOf(order[i])] \in [1..n -> T]
  BY <1>3 DEF n
<1>5. [i \in 1..n |-> FrameOf(order[i])] \in Seq(T)
  BY <1>2, <1>4 DEF n
<1> QED BY <1>3, <1>5 DEF n

LEMMA OpensStep == ASSUME Core, NEW s \in Sockets, Opens(s) PROVE Onward /\ Core'
<1> DEFINE reload == IF Reconnected THEN {CHOOSE h \in Reloads : request[h].at = "idle"} ELSE {}
           woken  == At("waiting") \union reload
           found  == ws = s \/ (ws # None /\ tab[ws] = "open")
<1>1. reload \subseteq Reloads
  BY DEF Opens, At
<1>2. woken \subseteq Requests /\ (Chat \in woken => request[Chat].at = "waiting")
  BY <1>1, ChatAssumption DEF At, Requests
<1>3. /\ request' = [r \in Requests |-> IF r \notin woken THEN request[r]
                                        ELSE IF found THEN Sent(r) ELSE Idle(r)]
      /\ \/ found /\ \E order \in SetToSeqs(woken) :
               inbox' = [inbox EXCEPT ![ws] = @ \o [i \in DOMAIN order |-> FrameOf(order[i])]]
         \/ UNCHANGED inbox
      /\ UNCHANGED <<written, log, unpublished, pushes, wire, used>>
  BY DEF Opens, ticketVars
<1> HIDE DEF reload, woken, found
<1>4. request' \in [Requests -> Req]
  BY <1>3, RequestSteps
<1>5. /\ request'[Chat] \in {request[Chat], Sent(Chat), Idle(Chat)}
      /\ request'[Chat] = Sent(Chat) => request[Chat].at = "waiting" \/ request'[Chat] = request[Chat]
  BY <1>2, <1>3, ChatIn
<1>o. \A r \in Requests : request'[r].id >= request[r].id
  <2>1. \A r \in Requests : request'[r] \in {request[r], Sent(r), Idle(r)}
    BY <1>3
  <2> QED BY <2>1, RequestSteps DEF Req
<1>6. Onward /\ (request'[Chat].at # "idle" => written' < MaxSends)
  <2>1. CASE request'[Chat] = Sent(Chat) /\ request[Chat].at = "waiting"
    BY <1>3, <1>4, <1>o, <2>1, RequestSteps, ChatIn DEF Onward, Core, Req
  <2>2. CASE request'[Chat] \in {request[Chat], Idle(Chat)}
    BY <1>3, <1>4, <1>o, <2>2, RequestSteps, ChatIn DEF Onward, Core, Pending, Req
  <2> QED BY <1>5, <2>1, <2>2
<1>7. ASSUME found, NEW order \in SetToSeqs(woken),
             inbox' = [inbox EXCEPT ![ws] = @ \o [i \in DOMAIN order |-> FrameOf(order[i])]]
      PROVE  inbox' \in [Sockets -> Seq(Frames')]
  <2>1. ASSUME NEW r \in woken PROVE FrameOf(r) \in Frames'
    <3>1. request'[r] = Sent(r) /\ r \in Requests
      BY <1>2, <1>3, <1>7
    <3>2. r = Chat => written < MaxSends
      BY <1>2 DEF Core
    <3> QED BY <1>3, <3>1, <3>2, FrameGood
  <2> DEFINE frames == [i \in DOMAIN order |-> FrameOf(order[i])]
  <2>2. frames \in Seq(Frames')
    BY <1>2, <2>1, OrderTyped
  <2>3. inbox \in [Sockets -> Seq(Frames')]
    BY <1>6, Stays
  <2> HIDE DEF frames
  <2> QED BY <1>7, <2>2, <2>3, QueueJoins DEF frames
<1>8. inbox' \in [Sockets -> Seq(Frames')] /\ wire' \in [Sockets -> Seq(Items')]
  BY <1>3, <1>6, <1>7, Stays
<1> QED BY <1>3, <1>6, <1>8, CoreAfter DEF Core

LEMMA TimerStep == ASSUME Core, TimerFires PROVE Onward /\ Core'
BY AsideStep DEF TimerFires, pageVars, ticketVars, Core

-----------------------------------------------------------------------------
(* The session. *)

LEMMA ExpiresStep == ASSUME Core, TokenExpires PROVE Onward /\ Core'
BY AsideStep, UseTyped DEF TokenExpires, storeVars, pageVars, ticketVars

LEMMA RestStep == ASSUME Core, RestRefreshes PROVE Onward /\ Core'
BY AsideStep DEF RestRefreshes, storeVars, pageVars, socketVars, ticketVars, Core

LEMMA RefreshedStep == ASSUME Core, Refreshed \/ RefreshFails PROVE Onward /\ Core'
BY RefreshStep, UseTyped DEF Refreshed, RefreshFails, Core

-----------------------------------------------------------------------------
(* The server. *)

\* Anything but an ack may be sent at any time.
LEMMA PlainItems ==
    ASSUME NEW x \in Item, x.kind # "ack" PROVE x \in Items
BY DEF Items

LEMMA CloseTyped == CloseItem \in Items
BY PlainItems DEF CloseItem, Item

LEMMA HeartbeatStep == ASSUME Core, NEW s \in Sockets, Heartbeat(s) PROVE Onward /\ Core'
<1>1. UNCHANGED <<request, written, log, unpublished, inbox, used>>
  BY DEF Heartbeat, storeVars, pageVars, ticketVars
<1>2. Onward
  BY <1>1, StandsStill
<1>3. wire' \in [Sockets -> Seq(Items)] /\ pushes' \in [Sockets -> Seq(Messages)]
  BY CloseTyped, PairSeq, SendsTyped, ServerClosesTyped DEF Heartbeat, Core
<1>4. wire' \in [Sockets -> Seq(Items')]
  BY <1>1, <1>3 DEF Items, Pending, Stored
<1> QED BY <1>1, <1>2, <1>3, <1>4, Stays, CoreAfter DEF Core

LEMMA PushStep == ASSUME Core, NEW s \in Sockets, Push(s) PROVE Onward /\ Core'
<1>1. UNCHANGED <<request, written, log, unpublished, inbox, used>> /\ pushes[s] # <<>>
  BY DEF Push, storeVars, pageVars, ticketVars
<1>2. Onward
  BY <1>1, StandsStill
<1>3. Head(pushes[s]) \in Messages /\ [pushes EXCEPT ![s] = Tail(@)] \in [Sockets -> Seq(Messages)]
  BY <1>1, QueueEnds DEF Core
<1>4. [kind |-> "event", msg |-> Head(pushes[s])] \in Items
  BY <1>3, PlainItems DEF Item
<1>5. wire' \in [Sockets -> Seq(Items)] /\ pushes' \in [Sockets -> Seq(Messages)]
  BY <1>3, <1>4, CloseTyped, PairSeq, SendsTyped, ServerClosesTyped DEF Push, Core
<1>6. wire' \in [Sockets -> Seq(Items')]
  BY <1>1, <1>5 DEF Items, Pending, Stored
<1> QED BY <1>1, <1>2, <1>5, <1>6, Stays, CoreAfter DEF Core

LEMMA PublishStep == ASSUME Core, NEW m \in Messages, Publish(m) PROVE Onward /\ Core'
<1>1. UNCHANGED <<request, written, log, inbox, wire, used>> /\ unpublished' = unpublished \ {m}
  BY DEF Publish, storeVars, pageVars
<1>2. Onward
  BY <1>1, StandsStill
<1>3. \A s \in Sockets : Append(pushes[s], m) \in Seq(Messages)
  BY AppendProperties DEF Core
<1>4. pushes' \in [Sockets -> Seq(Messages)]
  BY <1>3 DEF Publish, Core
<1> QED BY <1>1, <1>2, <1>4, Stays, CoreAfter DEF Core

\* An ack is well formed.
LEMMA AckTyped ==
    ASSUME NEW f \in Frame, NEW code \in {"ok", "expired", "refused"}, NEW items \in SUBSET Messages
    PROVE  /\ AckOf(f, code, items) \in Item
           /\ AckOf(f, code, items).kind = "ack" /\ AckOf(f, code, items).by = f.by
           /\ AckOf(f, code, items).id = f.id /\ AckOf(f, code, items).code = code
BY DEF AckOf, Item, Frame

LEMMA LatestTyped == ASSUME Core, NEW n PROVE Latest(n) \in SUBSET Messages
BY ElementOfSeq, LenProperties DEF Latest, Core

LEMMA ContainsStored == ASSUME NEW m PROVE Contains(log, m) <=> Stored(m)
BY DEF Contains, Stored

LEMMA HandleStep == ASSUME Core, NEW s \in Sockets, Handle(s) PROVE Onward /\ Core'
<1> DEFINE f == Head(inbox[s])
<1>1. /\ UNCHANGED <<request, written, used>>
      /\ inbox[s] # <<>> /\ inbox' = [inbox EXCEPT ![s] = Tail(@)]
  BY DEF Handle, storeVars, pageVars
<1>2. f \in Frames /\ inbox' \in [Sockets -> Seq(Frames)]
  BY <1>1, QueueEnds DEF Core
<1>3. f \in Frame /\ f.id <= request[f.by].id
  BY <1>2 DEF Frames
<1>4. \/ /\ Sends(s, <<AckOf(f, "expired", {}), CloseItem>>) /\ ServerCloses(s)
         /\ UNCHANGED <<log, unpublished>>
      \/ /\ f.by = Chat /\ Sends(s, <<AckOf(f, "ok", {f.msg})>>) /\ UNCHANGED pushes
         /\ \/ Stored(f.msg) /\ UNCHANGED <<log, unpublished>>
            \/ log' = Append(log, f.msg) /\ unpublished' = unpublished \union {f.msg}
      \/ /\ f.by = Chat /\ Sends(s, <<AckOf(f, "refused", {})>>)
         /\ UNCHANGED <<log, unpublished, pushes>>
      \/ /\ f.by \in Reloads /\ Sends(s, <<AckOf(f, "ok", Latest(PageSize))>>)
         /\ UNCHANGED <<log, unpublished, pushes>>
  BY ContainsStored DEF Handle, Replayed
<1> HIDE DEF f
<1>5. ASSUME UNCHANGED <<log, unpublished>>, wire' \in [Sockets -> Seq(Items)],
             pushes' \in [Sockets -> Seq(Messages)]
      PROVE  Onward /\ Core'
  <2>1. Onward
    BY <1>1, <1>5, StandsStill
  <2>2. wire' \in [Sockets -> Seq(Items')] /\ inbox' \in [Sockets -> Seq(Frames')]
    BY <1>1, <1>2, <1>5 DEF Items, Frames, Pending, Stored
  <2> QED BY <1>1, <1>5, <2>1, <2>2, CoreAfter DEF Core
<1>6. f.by = Chat => f.msg \in Messages
                     /\ (Pending(f.id) => f.msg = Ours(written + 1))
  BY <1>2 DEF Frames, Frame, Ours
<1>7. CASE /\ Sends(s, <<AckOf(f, "expired", {}), CloseItem>>) /\ ServerCloses(s)
           /\ UNCHANGED <<log, unpublished>>
  <2>1. AckOf(f, "expired", {}) \in Items
    BY <1>3, <1>6, AckTyped DEF Items
  <2>2. wire' \in [Sockets -> Seq(Items)]
    BY <1>7, <2>1, CloseTyped, PairSeq, SendsTyped DEF Core
  <2> QED BY <1>5, <1>7, <2>2, ServerClosesTyped
<1>8. CASE /\ f.by = Chat /\ Sends(s, <<AckOf(f, "refused", {})>>)
           /\ UNCHANGED <<log, unpublished, pushes>>
  <2>1. AckOf(f, "refused", {}) \in Items
    BY <1>3, <1>6, <1>8, AckTyped DEF Items
  <2>2. wire' \in [Sockets -> Seq(Items)]
    BY <1>8, <2>1, PairSeq, SendsTyped DEF Core
  <2> QED BY <1>5, <1>8, <2>2 DEF Core
<1>9. CASE /\ f.by \in Reloads /\ Sends(s, <<AckOf(f, "ok", Latest(PageSize))>>)
           /\ UNCHANGED <<log, unpublished, pushes>>
  <2>1. f.by # Chat /\ Latest(PageSize) \in SUBSET Messages
    BY <1>9, ChatAssumption, LatestTyped
  <2>2. AckOf(f, "ok", Latest(PageSize)) \in Items
    BY <1>3, <2>1, AckTyped DEF Items
  <2>3. wire' \in [Sockets -> Seq(Items)]
    BY <1>9, <2>2, PairSeq, SendsTyped DEF Core
  <2> QED BY <1>5, <1>9, <2>3 DEF Core
<1>10. CASE /\ f.by = Chat /\ Sends(s, <<AckOf(f, "ok", {f.msg})>>) /\ UNCHANGED pushes
            /\ \/ Stored(f.msg) /\ UNCHANGED <<log, unpublished>>
               \/ log' = Append(log, f.msg) /\ unpublished' = unpublished \union {f.msg}
  <2>1. Onward
    BY <1>1, <1>6, <1>10, ChatIn DEF Onward, Core, Pending, Req
  <2>2. \E i \in DOMAIN log' : log'[i] = f.msg
    <3>1. ASSUME log' = Append(log, f.msg) PROVE \E i \in DOMAIN log' : log'[i] = f.msg
      <4>1. /\ Len(log) + 1 \in 1..Len(log) + 1 /\ Append(log, f.msg) \in Seq(Messages)
            /\ Len(Append(log, f.msg)) = Len(log) + 1
            /\ Append(log, f.msg)[Len(log) + 1] = f.msg
        BY <1>6, <1>10, LenProperties, AppendProperties DEF Core
      <4>2. Len(log) + 1 \in DOMAIN log' /\ log'[Len(log) + 1] = f.msg
        BY <3>1, <4>1, LenProperties
      <4> QED BY <4>2
    <3> QED BY <1>10, <3>1 DEF Stored
  <2>3. AckOf(f, "ok", {f.msg}) \in Items'
    <3> DEFINE a == AckOf(f, "ok", {f.msg})
    <3>1. /\ a \in Item /\ a.kind = "ack" /\ a.by = f.by /\ a.id = f.id /\ a.code = "ok"
          /\ a.id <= request[a.by].id
      BY <1>3, <1>6, <1>10, AckTyped
    <3>2. Pending(f.id) => \E i \in DOMAIN log' : log'[i] = Ours(written' + 1)
      BY <1>1, <1>6, <1>10, <2>2
    <3> HIDE DEF a
    <3>3. a \in Items'
      BY <1>1, <1>10, <3>1, <3>2 DEF Items, Pending, Stored, Ours
    <3> QED BY <3>3 DEF a
  <2>4. wire' \in [Sockets -> Seq(Items')]
    BY <1>10, <2>1, <2>3, Stays, PairSeq, SendsTyped
  <2>5. inbox' \in [Sockets -> Seq(Frames')]
    BY <1>1, <1>2 DEF Frames, Pending
  <2> QED BY <1>1, <1>6, <1>10, <2>1, <2>4, <2>5, CoreAfter DEF Core
<1> QED BY <1>4, <1>7, <1>8, <1>9, <1>10

LEMMA TheyWriteStep == ASSUME Core, TheyWrite PROVE Onward /\ Core'
<1> DEFINE m == Theirs(used["theirs"] + 1)
<1>1. m \in Messages
  <2>1. used["theirs"] \in Nat /\ used["theirs"] < MaxTheirs
    BY DEF Core, TheyWrite
  <2>2. used["theirs"] + 1 \in 1..MaxTheirs
    BY <2>1, SendsIn
  <2> QED BY <2>2 DEF Messages
<1>2. /\ log' = Append(log, m) /\ unpublished' = unpublished \union {m}
      /\ UNCHANGED <<request, written, inbox, pushes, wire>> /\ Use("theirs")
  BY DEF TheyWrite, storeVars, pageVars, socketVars
<1> HIDE DEF m
<1>3. Onward
  BY <1>1, <1>2, ChatIn DEF Onward, Core, Pending, Req
<1> QED BY <1>1, <1>2, <1>3, Stays, CoreAfter, UseTyped DEF Core

-----------------------------------------------------------------------------
(* What the tab receives. *)

LEMMA EventStep == ASSUME Core, NEW s \in Sockets, ReceiveEvent(s) PROVE Onward /\ Core'
<1>1. /\ UNCHANGED <<request, written, log, unpublished, inbox, pushes, used>>
      /\ wire[s] # <<>> /\ wire' = [wire EXCEPT ![s] = Tail(@)]
  BY DEF ReceiveEvent, Arrives, Taken, storeVars, ticketVars
<1>2. Onward
  BY <1>1, StandsStill
<1>3. wire' \in [Sockets -> Seq(Items')]
  BY <1>1, <1>2, Stays, QueueEnds
<1> QED BY <1>1, <1>2, <1>3, Stays, CoreAfter DEF Core

\* The step of an ack: what it may do to the composer.
LEMMA AckMoves ==
    ASSUME Core, NEW s \in Sockets, ReceiveAck(s)
    PROVE  /\ Head(wire[s]) \in Items /\ Head(wire[s]).kind = "ack"
           /\ wire[s] # <<>> /\ wire' = [wire EXCEPT ![s] = Tail(@)]
           /\ UNCHANGED <<log, unpublished, inbox, pushes, used>>
           /\ request' \in [Requests -> Req]
           /\ \A t \in Requests : request'[t].id = request[t].id
           /\ request'[Chat].at # "idle" => request[Chat].at # "idle"
           /\ request'[Chat].at = "sent" => request[Chat].at = "sent"
           /\ \/ written' = written
              \/ /\ Head(wire[s]).by = Chat /\ Head(wire[s]).code = "ok" /\ Pending(Head(wire[s]).id)
                 /\ written' = written + 1 /\ request'[Chat].at = "idle"
<1> DEFINE a == Head(wire[s])
           r == a.by
           pending == Answers(a)
           retries == pending /\ a.code = "expired" /\ ~request[r].retry
<1>1. /\ wire[s] # <<>> /\ wire' = [wire EXCEPT ![s] = Tail(@)] /\ a.kind = "ack"
      /\ UNCHANGED <<log, unpublished, inbox, pushes, used>>
      /\ request' = [request EXCEPT ![r] = IF retries THEN [@ EXCEPT !.at = "refreshing"]
                                           ELSE IF pending THEN Idle(r) ELSE @]
      /\ \/ pending /\ a.code = "ok" /\ written' = written + (IF r = Chat THEN 1 ELSE 0)
         \/ written' = written
  BY DEF ReceiveAck, Arrives, Taken, ticketVars
<1>2. a \in Items
  BY <1>1, QueueEnds DEF Core
<1>3. r \in Requests
  BY <1>1, <1>2 DEF Items, Item
<1>4. pending => request[r].at = "sent" /\ request[r].id = a.id
  BY DEF Answers
<1> DEFINE next == IF retries THEN [request[r] EXCEPT !.at = "refreshing"]
                   ELSE IF pending THEN Idle(r) ELSE request[r]
<1>5. /\ next \in Req /\ next.id = request[r].id
      /\ next.at # "idle" => request[r].at # "idle"
      /\ next.at = "sent" => request[r].at = "sent"
      /\ pending /\ a.code = "ok" => next.at = "idle"
  <2>1. CASE retries
    BY <1>3, <1>4, <2>1, RequestSteps, ReqMoves
  <2>2. CASE ~retries /\ pending
    BY <1>3, <2>2, RequestSteps
  <2>3. CASE ~retries /\ ~pending
    BY <1>3, <2>3, RequestSteps
  <2> QED BY <2>1, <2>2, <2>3
<1>6. request' = [request EXCEPT ![r] = next]
  BY <1>1
<1>7. pending /\ r = Chat => Pending(a.id)
  BY <1>4 DEF Pending
<1>8. written \in Nat /\ request \in [Requests -> Req]
  BY DEF Core
<1> HIDE DEF a, r, pending, retries, next
<1>9. request'[Chat] = IF r = Chat THEN next ELSE request[Chat]
  BY <1>3, <1>6, <1>8, ChatIn
<1>10. \/ written' = written
       \/ r = Chat /\ a.code = "ok" /\ Pending(a.id) /\ written' = written + 1 /\ request'[Chat].at = "idle"
  <2>1. CASE r = Chat
    BY <1>1, <1>5, <1>7, <1>9, <2>1
  <2>2. CASE r # Chat
    BY <1>1, <1>8, <2>2
  <2> QED BY <2>1, <2>2
<1>11. request' \in [Requests -> Req]
  BY <1>3, <1>5, <1>6, <1>8
<1>12. /\ \A t \in Requests : request'[t].id = request[t].id
       /\ request'[Chat].at # "idle" => request[Chat].at # "idle"
       /\ request'[Chat].at = "sent" => request[Chat].at = "sent"
  BY <1>3, <1>5, <1>6, <1>8, <1>9
<1> QED BY <1>1, <1>2, <1>10, <1>11, <1>12 DEF a, r

LEMMA AckStep == ASSUME Core, NEW s \in Sockets, ReceiveAck(s) PROVE Onward /\ Core'
<1>1. Onward
  BY AckMoves, ChatIn DEF Onward, Core, Pending, Req
<1>2. request'[Chat].at # "idle" => written' < MaxSends
  BY AckMoves DEF Core
<1>3. wire' \in [Sockets -> Seq(Items')]
  <2>1. wire[s] # <<>> /\ wire' = [wire EXCEPT ![s] = Tail(@)]
    BY AckMoves
  <2>2. wire \in [Sockets -> Seq(Items')]
    BY <1>1, Stays
  <2> QED BY <2>1, <2>2, QueueEnds
<1> QED BY <1>1, <1>2, <1>3, AckMoves, Stays, CoreAfter DEF Core

-----------------------------------------------------------------------------
(* Every state has it. *)

LEMMA InitCore == Init => Core
<1> SUFFICES ASSUME Init PROVE Core
  OBVIOUS
<1>1. request \in [Requests -> Req] /\ request[Chat].at = "idle"
  <2>1. open => (CHOOSE h \in Reloads : TRUE) \in Reloads
    BY ChatAssumption DEF Init
  <2>2. open => Chat # (CHOOSE h \in Reloads : TRUE)
    BY <2>1, ChatAssumption
  <2> QED BY <2>2, ChatIn DEF Init, Req
<1>2. \A T : <<>> \in Seq(T)
  BY EmptySeq
<1> QED BY <1>1, <1>2 DEF Init, Core

LEMMA NextCore == ASSUME Core, Next PROVE Onward /\ Core'
<1>1. CASE Tab
  BY <1>1, PressStep, RetryStep, TimerStep, TimesOutStep, EventStep, AckStep, CloseStep DEF Tab
<1>2. CASE Session
  BY <1>2, ExpiresStep, RestStep, RefreshedStep DEF Session
<1>3. CASE Link
  BY <1>3, OpensStep, RefusedStep, DropsStep DEF Link
<1>4. CASE Server
  BY <1>4, TheyWriteStep, PublishStep, HandleStep, PushStep, HeartbeatStep DEF Server
<1> QED BY <1>1, <1>2, <1>3, <1>4 DEF Next

-----------------------------------------------------------------------------
(* The ticket. *)

\* No message is in the ticket twice; the answered ones are there, besides them at most the
\* next one, and they are in the order of their writing; of the member's, those written.
InTicket ==
    /\ \A i, j \in DOMAIN log : log[i] = log[j] => i = j
    /\ \A n \in 1..written : Stored(Ours(n))
    /\ \A i \in DOMAIN log : \A n \in Nat : log[i] = Ours(n) => n <= written + 1
    /\ \A i, j \in DOMAIN log : \A m, n \in Nat :
         log[i] = Ours(m) /\ log[j] = Ours(n) /\ m < n => i < j
    /\ \A i \in DOMAIN log : \A n \in Nat : log[i] = Theirs(n) => n <= used["theirs"]

LEMMA Appended ==
    ASSUME Core, NEW m \in Messages, log' = Append(log, m)
    PROVE  /\ Len(log) \in Nat /\ DOMAIN log = 1..Len(log) /\ DOMAIN log' = 1..Len(log) + 1
           /\ \A i \in 1..Len(log) : log'[i] = log[i]
           /\ log'[Len(log) + 1] = m
<1>1. Len(log) \in Nat /\ DOMAIN log = 1..Len(log) /\ log \in Seq(Messages)
  BY LenProperties DEF Core
<1>2. log' \in Seq(Messages) /\ Len(log') = Len(log) + 1
  BY <1>1, AppendProperties
<1>3. DOMAIN log' = 1..Len(log) + 1
  BY <1>2, LenProperties
<1> QED BY <1>1, <1>3, AppendProperties

LEMMA UseGrows ==
    ASSUME Core, NEW b \in {"presses", "theirs", "expiries", "drops", "refusals"}, Use(b)
    PROVE  used'["theirs"] \in Nat /\ used'["theirs"] >= used["theirs"]
<1>1. \A c \in {"presses", "theirs", "expiries", "drops", "refusals"} : used[c] \in Nat
  BY DEF Core
<1>2. used' = [used EXCEPT ![b] = @ + 1]
  BY DEF Use
<1>3. used'["theirs"] = used["theirs"] \/ used'["theirs"] = used["theirs"] + 1
  BY <1>2 DEF Core
<1> QED BY <1>1, <1>3

\* A step that adds nothing to the ticket answers at most a message that is there.
Adds(m) == log' = Append(log, m) /\ written' = written
AddsNothing ==
    /\ log' = log /\ used'["theirs"] \in Nat /\ used'["theirs"] >= used["theirs"]
    /\ written' = written \/ (written' = written + 1 /\ Stored(Ours(written + 1)))

LEMMA HandleAdds ==
    ASSUME Core, NEW s \in Sockets, Handle(s)
    PROVE  \/ AddsNothing
           \/ /\ UNCHANGED used
              /\ \E n \in 1..written + 1 : Ours(n) \in Messages /\ ~Stored(Ours(n)) /\ Adds(Ours(n))
<1> DEFINE f == Head(inbox[s])
<1>1. /\ UNCHANGED <<written, used>> /\ inbox[s] # <<>>
      /\ \/ UNCHANGED log
         \/ f.by = Chat /\ ~Stored(f.msg) /\ log' = Append(log, f.msg)
  BY ContainsStored DEF Handle, Replayed, storeVars, pageVars
<1>2. f \in Frames
  BY <1>1, QueueEnds DEF Core
<1> HIDE DEF f
<1>3. CASE UNCHANGED log
  BY <1>1, <1>3 DEF AddsNothing, Core
<1>4. CASE f.by = Chat /\ ~Stored(f.msg) /\ log' = Append(log, f.msg)
  <2>1. f.msg \in Messages /\ \E n \in 1..written + 1 : f.msg = Ours(n)
    BY <1>2, <1>4 DEF Frames
  <2> QED BY <1>1, <1>4, <2>1 DEF Adds
<1> QED BY <1>1, <1>3, <1>4

LEMMA AckAdds == ASSUME Core, NEW s \in Sockets, ReceiveAck(s) PROVE AddsNothing
<1>1. /\ Head(wire[s]) \in Items /\ Head(wire[s]).kind = "ack" /\ UNCHANGED <<log, used>>
      /\ \/ written' = written
         \/ /\ Head(wire[s]).by = Chat /\ Head(wire[s]).code = "ok" /\ Pending(Head(wire[s]).id)
            /\ written' = written + 1
  BY AckMoves
<1>2. written' = written \/ (written' = written + 1 /\ Stored(Ours(written + 1)))
  BY <1>1 DEF Items
<1> QED BY <1>1, <1>2 DEF AddsNothing, Core

LEMMA TicketSteps ==
    ASSUME Core, Next
    PROVE  \/ AddsNothing
           \/ /\ UNCHANGED used
              /\ \E n \in 1..written + 1 : Ours(n) \in Messages /\ ~Stored(Ours(n)) /\ Adds(Ours(n))
           \/ /\ used'["theirs"] = used["theirs"] + 1 /\ Adds(Theirs(used["theirs"] + 1))
<1>0. used["theirs"] \in Nat
  BY DEF Core
<1>1. CASE Tab
  <2>1. CASE Press \/ RetryHistory
    BY <2>1, UseGrows DEF Press, RetryHistory, pageVars, ticketVars, AddsNothing
  <2>2. CASE TimerFires \/ \E r \in Requests : TimesOut(r)
    <3>1. UNCHANGED <<written, log, used>>
      BY <2>2 DEF TimerFires, TimesOut, pageVars, ticketVars
    <3> QED BY <1>0, <3>1 DEF AddsNothing
  <2>3. ASSUME NEW s \in Sockets, ReceiveEvent(s) \/ ReceiveClose(s) PROVE AddsNothing
    BY <1>0, <2>3 DEF ReceiveEvent, ReceiveClose, Closes, ticketVars, AddsNothing
  <2> QED BY <1>1, <2>1, <2>2, <2>3, AckAdds DEF Tab
<1>2. CASE Session
  <2>1. UNCHANGED <<written, log>> /\ (Use("expiries") \/ Use("refusals") \/ UNCHANGED used)
    BY <1>2 DEF Session, TokenExpires, RestRefreshes, Refreshed, RefreshFails, RefreshDone,
       pageVars, ticketVars
  <2> QED BY <1>0, <2>1, UseGrows DEF AddsNothing
<1>3. CASE Link
  BY <1>0, <1>3, UseGrows DEF Link, Opens, Refused, Drops, Closes, ticketVars, AddsNothing
<1>4. CASE Server
  <2>1. ASSUME NEW s \in Sockets, Push(s) \/ Heartbeat(s) PROVE AddsNothing
    BY <1>0, <2>1 DEF Push, Heartbeat, pageVars, ticketVars, AddsNothing
  <2>2. ASSUME NEW m \in Messages, Publish(m) PROVE AddsNothing
    BY <1>0, <2>2 DEF Publish, pageVars, AddsNothing
  <2>3. CASE TheyWrite
    <3>1. /\ log' = Append(log, Theirs(used["theirs"] + 1)) /\ written' = written
          /\ used' = [used EXCEPT !["theirs"] = @ + 1]
      BY <2>3 DEF TheyWrite, Use, pageVars
    <3>2. used'["theirs"] = used["theirs"] + 1
      BY <3>1 DEF Core
    <3> QED BY <3>1, <3>2 DEF Adds
  <2> QED BY <1>4, <2>1, <2>2, <2>3, HandleAdds DEF Server
<1> QED BY <1>1, <1>2, <1>3, <1>4 DEF Next

LEMMA OursApart ==
    /\ \A m, n : Ours(m) = Ours(n) => m = n
    /\ \A m, n : Theirs(m) = Theirs(n) => m = n
    /\ \A m, n : Ours(m) # Theirs(n)
BY DEF Ours, Theirs

LEMMA NothingStep == ASSUME Core, InTicket, AddsNothing PROVE InTicket'
<1>1. /\ written \in Nat /\ written' \in Nat /\ log' = log /\ used["theirs"] \in Nat
      /\ used'["theirs"] \in Nat /\ used'["theirs"] >= used["theirs"] /\ written <= written'
  BY DEF AddsNothing, Core
<1>2. \A n \in 1..written' : \E i \in DOMAIN log' : log'[i] = Ours(n)
  <2>1. CASE written' = written
    BY <1>1, <2>1 DEF InTicket, Stored
  <2>2. CASE written' = written + 1 /\ Stored(Ours(written + 1))
    <3>1. \A n \in 1..written' : n \in 1..written \/ n = written + 1
      BY <1>1, <2>2
    <3> QED BY <1>1, <2>2, <3>1 DEF InTicket, Stored
  <2> QED BY <2>1, <2>2 DEF AddsNothing
<1>3. ASSUME NEW i \in DOMAIN log', NEW n \in Nat, log'[i] = Ours(n) PROVE n <= written' + 1
  <2>1. n <= written + 1
    BY <1>1, <1>3 DEF InTicket
  <2>2. \A v, w \in Nat : v <= w /\ n <= v + 1 => n <= w + 1
    OBVIOUS
  <2> QED BY <1>1, <2>1, <2>2
<1>4. ASSUME NEW i \in DOMAIN log', NEW n \in Nat, log'[i] = Theirs(n) PROVE n <= used'["theirs"]
  <2>1. n <= used["theirs"]
    BY <1>1, <1>4 DEF InTicket
  <2> QED BY <1>1, <2>1
<1>5. /\ \A i, j \in DOMAIN log' : log'[i] = log'[j] => i = j
      /\ \A i, j \in DOMAIN log' : \A m, n \in Nat :
           log'[i] = Ours(m) /\ log'[j] = Ours(n) /\ m < n => i < j
  BY <1>1 DEF InTicket
<1> QED BY <1>2, <1>3, <1>4, <1>5 DEF InTicket, Stored

LEMMA OursStep ==
    ASSUME Core, InTicket, NEW n \in 1..written + 1, Ours(n) \in Messages, ~Stored(Ours(n)),
           Adds(Ours(n)), UNCHANGED used
    PROVE  InTicket'
<1> DEFINE last == Len(log) + 1
<1>1. /\ Len(log) \in Nat /\ DOMAIN log = 1..Len(log) /\ DOMAIN log' = 1..last
      /\ \A i \in 1..Len(log) : log'[i] = log[i]
      /\ log'[last] = Ours(n) /\ written' = written /\ written \in Nat
  BY Appended DEF Adds, Core
<1>2. n = written + 1
  BY <1>1 DEF InTicket
<1>3. last \in Nat /\ \A i \in 1..last : i \in 1..Len(log) \/ i = last
  BY <1>1
<1>4. \A i \in 1..Len(log) : i < last
  BY <1>1
<1> HIDE DEF last
<1>5. \A i, j \in 1..last : log'[i] = log'[j] => i = j
  BY <1>1, <1>3 DEF InTicket, Stored
<1>6. \A k \in 1..written' : \E i \in DOMAIN log' : log'[i] = Ours(k)
  <2>1. ASSUME NEW k \in 1..written PROVE \E i \in 1..last : log'[i] = Ours(k)
    <3>1. PICK i \in 1..Len(log) : log[i] = Ours(k)
      BY <1>1 DEF InTicket, Stored
    <3> QED BY <1>1, <1>4, <3>1 DEF last
  <2> QED BY <1>1, <2>1
<1>7. \A i \in 1..last : \A k \in Nat : log'[i] = Ours(k) => k <= written' + 1
  BY <1>1, <1>2, <1>3, OursApart DEF InTicket
<1>8. \A i, j \in 1..last : \A k, l \in Nat :
         log'[i] = Ours(k) /\ log'[j] = Ours(l) /\ k < l => i < j
  <2> SUFFICES ASSUME NEW i \in 1..last, NEW j \in 1..last, NEW k \in Nat, NEW l \in Nat,
                      log'[i] = Ours(k), log'[j] = Ours(l), k < l
               PROVE  i < j
    OBVIOUS
  <2>1. CASE i \in 1..Len(log) /\ j \in 1..Len(log)
    BY <1>1, <2>1 DEF InTicket
  <2>2. CASE i = last
    <3>1. k = written + 1 /\ l <= written + 1
      BY <1>1, <1>2, <1>7, <2>2, OursApart
    <3> QED BY <1>1, <3>1
  <2>3. CASE i \in 1..Len(log) /\ j = last
    BY <1>4, <2>3
  <2> QED BY <1>3, <2>1, <2>2, <2>3
<1>9. \A i \in 1..last : \A k \in Nat : log'[i] = Theirs(k) => k <= used'["theirs"]
  BY <1>1, <1>3, OursApart DEF InTicket
<1> QED BY <1>1, <1>5, <1>6, <1>7, <1>8, <1>9 DEF InTicket, Stored

LEMMA TheirsStep ==
    ASSUME Core, Core', InTicket, Adds(Theirs(used["theirs"] + 1)),
           used'["theirs"] = used["theirs"] + 1
    PROVE  InTicket'
<1> DEFINE last == Len(log) + 1
           k == used["theirs"] + 1
<1>0. Theirs(k) \in Messages
  <2>1. Append(log, Theirs(k)) \in Seq(Messages) /\ Len(log) \in Nat
    BY LenProperties DEF Adds, Core
  <2>2. last \in DOMAIN Append(log, Theirs(k)) /\ Append(log, Theirs(k))[last] = Theirs(k)
    BY <2>1 DEF Core
  <2> QED BY <2>1, <2>2, ElementOfSeq, LenProperties
<1>1. /\ Len(log) \in Nat /\ DOMAIN log = 1..Len(log) /\ DOMAIN log' = 1..last
      /\ \A i \in 1..Len(log) : log'[i] = log[i]
      /\ log'[last] = Theirs(k) /\ written' = written /\ written \in Nat
  BY <1>0, Appended DEF Adds, Core
<1>2. used["theirs"] \in Nat /\ k > used["theirs"] /\ used'["theirs"] = k /\ k \in Nat
  BY DEF Core
<1>3. last \in Nat /\ \A i \in 1..last : i \in 1..Len(log) \/ i = last
  BY <1>1
<1>4. \A i \in 1..Len(log) : i \in 1..last
  BY <1>1
<1> HIDE DEF last, k
<1>5. \A i \in 1..Len(log) : log[i] # Theirs(k)
  BY <1>1, <1>2 DEF InTicket
<1>6. \A i, j \in 1..last : log'[i] = log'[j] => i = j
  BY <1>1, <1>3, <1>5 DEF InTicket
<1>7. \A n \in 1..written' : \E i \in DOMAIN log' : log'[i] = Ours(n)
  <2>1. ASSUME NEW n \in 1..written PROVE \E i \in 1..last : log'[i] = Ours(n)
    <3>1. PICK i \in 1..Len(log) : log[i] = Ours(n)
      BY <1>1 DEF InTicket, Stored
    <3> QED BY <1>1, <1>4, <3>1
  <2> QED BY <1>1, <2>1
<1>8. \A i \in 1..last : \A n \in Nat : log'[i] = Ours(n) => i \in 1..Len(log) /\ log[i] = Ours(n)
  BY <1>1, <1>3, OursApart
<1>9. \A i \in 1..last : \A n \in Nat : log'[i] = Ours(n) => n <= written' + 1
  BY <1>1, <1>8 DEF InTicket
<1>10. \A i, j \in 1..last : \A m, n \in Nat :
         log'[i] = Ours(m) /\ log'[j] = Ours(n) /\ m < n => i < j
  BY <1>1, <1>8 DEF InTicket
<1>11. \A i \in 1..last : \A n \in Nat : log'[i] = Theirs(n) => n <= used'["theirs"]
  <2> SUFFICES ASSUME NEW i \in 1..last, NEW n \in Nat, log'[i] = Theirs(n)
               PROVE  n <= k
    BY <1>2
  <2>1. CASE i = last
    <3>1. Theirs(n) = Theirs(k)
      BY <1>1, <2>1
    <3>2. n = k
      BY <3>1, OursApart
    <3> QED BY <1>2, <3>2
  <2>2. CASE i \in 1..Len(log)
    <3>1. n <= used["theirs"]
      BY <1>1, <2>2 DEF InTicket
    <3> QED BY <1>2, <3>1
  <2> QED BY <1>3, <2>1, <2>2
<1> QED BY <1>1, <1>6, <1>7, <1>9, <1>10, <1>11 DEF InTicket, Stored

LEMMA InTicketNext == ASSUME Core, InTicket, Next PROVE InTicket'
BY NextCore, TicketSteps, NothingStep, OursStep, TheirsStep

LEMMA InTicketSentOnce == ASSUME Core, InTicket PROVE SentOnce
<1> DEFINE positions == [n \in 1..written |-> CHOOSE i \in DOMAIN log : log[i] = Ours(n)]
<1>1. \A n \in 1..written : positions[n] \in DOMAIN log /\ log[positions[n]] = Ours(n)
  BY DEF InTicket, Stored
<1>2. positions \in [1..written -> DOMAIN log]
  BY <1>1
<1> HIDE DEF positions
<1>3. ASSUME NEW n \in 1..written, NEW k \in 1..n - 1 PROVE positions[k] < positions[n]
  <2>1. written \in Nat
    BY DEF Core
  <2>2. k \in 1..written /\ k \in Nat /\ n \in Nat /\ k < n
    BY <2>1
  <2> QED BY <1>1, <2>2 DEF InTicket
<1> QED BY <1>1, <1>2, <1>3 DEF SentOnce, InTicket

LEMMA IdleSteps == ASSUME Core, InTicket, UNCHANGED vars PROVE Core' /\ InTicket'
<1>1. UNCHANGED <<request, written, log, unpublished, used, pushes, inbox, wire>>
  BY DEF vars, storeVars, pageVars, socketVars, ticketVars
<1>2. Frames' = Frames /\ Items' = Items /\ InTicket'
  BY <1>1 DEF Frames, Items, Pending, InTicket, Stored
<1> QED BY <1>1, <1>2 DEF Core

\* Core and InTicket are an inductive invariant.
LEMMA TicketHolds == Init /\ [][Next]_vars => [](Core /\ InTicket)
<1>1. Init => Core /\ InTicket
  BY InitCore DEF Init, InTicket
<1>2. Core /\ InTicket /\ [Next]_vars => (Core /\ InTicket)'
  BY NextCore, InTicketNext, IdleSteps
<1> QED BY <1>1, <1>2, PTL

\* Every answered message is in the ticket once and in its order, for any number of sockets,
\* messages, slow requests, expiries, lost connections and failed refreshes.
THEOREM MessagesStoredOnce == Spec => []SentOnce
<1>1. Core /\ InTicket => SentOnce
  BY InTicketSentOnce
<1> QED BY <1>1, TicketHolds, PTL DEF Spec

-----------------------------------------------------------------------------
(* The thread: what a queue holds. *)

LEMMA HasMore ==
    ASSUME NEW T, NEW q \in Seq(T), NEW more \in Seq(T), NEW y, Contains(q, y) \/ Contains(more, y)
    PROVE  Contains(q \o more, y)
<1>1. /\ Len(q) \in Nat /\ Len(more) \in Nat /\ Len(q \o more) = Len(q) + Len(more)
      /\ \A i \in 1..Len(q) + Len(more) : (q \o more)[i] = IF i <= Len(q) THEN q[i] ELSE more[i - Len(q)]
  BY ConcatProperties, LenProperties
<1>2. ASSUME NEW i \in 1..Len(q), q[i] = y PROVE Contains(q \o more, y)
  <2>1. i \in 1..Len(q \o more) /\ (q \o more)[i] = y
    BY <1>1, <1>2
  <2> QED BY <2>1 DEF Contains
<1>3. ASSUME NEW i \in 1..Len(more), more[i] = y PROVE Contains(q \o more, y)
  <2>1. i + Len(q) \in 1..Len(q) + Len(more) /\ ~(i + Len(q) <= Len(q)) /\ i + Len(q) - Len(q) = i
    BY <1>1
  <2>2. (q \o more)[i + Len(q)] = y
    BY <1>1, <1>3, <2>1
  <2> QED BY <1>1, <2>1, <2>2 DEF Contains
<1> QED BY <1>2, <1>3 DEF Contains

LEMMA HasAppended ==
    ASSUME NEW T, NEW q \in Seq(T), NEW x \in T, NEW y, Contains(q, y) \/ x = y
    PROVE  Contains(Append(q, x), y)
<1>1. /\ Len(q) \in Nat /\ Len(Append(q, x)) = Len(q) + 1 /\ Append(q, x)[Len(q) + 1] = x
      /\ \A i \in 1..Len(q) : Append(q, x)[i] = q[i]
  BY AppendProperties, LenProperties
<1>2. ASSUME NEW i \in 1..Len(q), q[i] = y PROVE Contains(Append(q, x), y)
  <2>1. i \in 1..Len(Append(q, x)) /\ Append(q, x)[i] = y
    BY <1>1, <1>2
  <2> QED BY <2>1 DEF Contains
<1>3. Len(q) + 1 \in 1..Len(Append(q, x))
  BY <1>1
<1> QED BY <1>1, <1>2, <1>3 DEF Contains

LEMMA HasRest ==
    ASSUME NEW T, NEW q \in Seq(T), q # <<>>, NEW y, Contains(q, y), Head(q) # y
    PROVE  Contains(Tail(q), y)
<1>1. PICK i \in 1..Len(q) : q[i] = y
  BY DEF Contains
<1>2. /\ Len(q) \in Nat /\ Len(Tail(q)) = Len(q) - 1
      /\ \A j \in 1..Len(Tail(q)) : Tail(q)[j] = q[j + 1]
  BY HeadTailProperties, LenProperties
<1>3. i # 1
  BY <1>1
<1>4. i - 1 \in 1..Len(Tail(q)) /\ i - 1 + 1 = i
  BY <1>2, <1>3
<1>5. Tail(q)[i - 1] = y
  BY <1>1, <1>2, <1>4
<1> QED BY <1>4, <1>5 DEF Contains

\* One queue of many.
LEMMA SendsOne ==
    ASSUME Core, NEW T, NEW s \in Sockets, wire[s] \in Seq(T), NEW items \in Seq(T), Sends(s, items)
    PROVE  /\ wire'[s] \in Seq(T)
           /\ srv[s] /\ tab[s] = "open" => wire'[s] = wire[s] \o items
           /\ \A t \in Sockets \ {s} : wire'[t] = wire[t]
<1>1. wire[s] \o items \in Seq(T)
  BY ConcatProperties
<1> QED BY <1>1 DEF Sends, Core

LEMMA TakenOne ==
    ASSUME Core, NEW T, NEW s \in Sockets, wire[s] \in Seq(T), wire[s] # <<>>, Taken(s)
    PROVE  /\ Head(wire[s]) \in T /\ wire'[s] = Tail(wire[s]) /\ wire'[s] \in Seq(T)
           /\ \A t \in Sockets \ {s} : wire'[t] = wire[t]
<1>1. Head(wire[s]) \in T /\ Tail(wire[s]) \in Seq(T)
  BY HeadTailProperties
<1> QED BY <1>1 DEF Taken, Core

-----------------------------------------------------------------------------
(* The thread: the length of a ticket. *)

\* No message is in the ticket twice, so it has no more of them than can be written.
LEMMA LogShort == ASSUME Core, InTicket PROVE Len(log) \in Nat /\ Len(log) <= MaxSends + MaxTheirs
<1>1. Len(log) \in Nat /\ DOMAIN log = 1..Len(log) /\ \A i \in 1..Len(log) : log[i] \in Messages
  BY LenProperties, ElementOfSeq DEF Core
<1>2. MaxSends \in Nat /\ MaxTheirs \in Nat
  BY SendsIn
<1> DEFINE place(m) == IF m[1] = "admin" THEN m[2] ELSE MaxSends + m[2]
           n == MaxSends + MaxTheirs
<1>3. \A k \in 1..MaxSends : place(Ours(k)) = k
  BY DEF Ours
<1>4. \A k \in 1..MaxTheirs : place(Theirs(k)) = MaxSends + k
  BY DEF Theirs
<1>5. \A m \in Messages : \/ \E k \in 1..MaxSends : m = Ours(k) /\ place(m) = k
                          \/ \E k \in 1..MaxTheirs : m = Theirs(k) /\ place(m) = MaxSends + k
  BY <1>3, <1>4 DEF Messages
<1> HIDE DEF place
<1>6. \A m \in Messages : place(m) \in 1..n
  BY <1>2, <1>5
<1>7. ASSUME NEW m1 \in Messages, NEW m2 \in Messages, place(m1) = place(m2) PROVE m1 = m2
  BY <1>2, <1>5, <1>7
<1> DEFINE f == [i \in 1..Len(log) |-> place(log[i])]
<1>8. f \in [1..Len(log) -> 1..n]
  BY <1>1, <1>6
<1>9. ASSUME NEW i \in 1..Len(log), NEW j \in 1..Len(log), f[i] = f[j] PROVE i = j
  BY <1>1, <1>7, <1>9 DEF InTicket
<1>10. n \in Nat
  BY <1>2
<1>11. /\ IsFiniteSet(1..Len(log)) /\ Cardinality(1..Len(log)) = Len(log)
       /\ IsFiniteSet(1..n) /\ Cardinality(1..n) = n
  <2>1. 1 \in Int /\ n \in Int /\ Len(log) \in Int
    BY <1>1, <1>10
  <2> HIDE DEF n
  <2>2. /\ IsFiniteSet(1..Len(log)) /\ Cardinality(1..Len(log)) = IF 1 > Len(log) THEN 0 ELSE Len(log) - 1 + 1
        /\ IsFiniteSet(1..n) /\ Cardinality(1..n) = IF 1 > n THEN 0 ELSE n - 1 + 1
    BY <2>1, FS_Interval
  <2> QED BY <1>1, <1>10, <2>2
<1> HIDE DEF f, n
<1>12. ASSUME n < Len(log) PROVE FALSE
  <2>1. Cardinality(1..n) < Cardinality(1..Len(log))
    BY <1>11, <1>12
  <2>2. \E i, j \in 1..Len(log) : i # j /\ f[i] = f[j]
    BY <1>8, <1>11, <2>1, FS_PigeonHole
  <2> QED BY <1>9, <2>2
<1> QED BY <1>1, <1>10, <1>12 DEF n

-----------------------------------------------------------------------------
(* The thread: both ends of the sockets. *)

Unexpired == {x \in Item : x.kind = "ack" => x.code # "expired"}

\* Nothing is on the way to a tab's end that is not open, nor a refusal for an expired token
\* from a server's end that is; the first socket to open is remembered.
Ends ==
    /\ ws \in Sockets \union {None} /\ tab \in [Sockets -> {"off", "connecting", "open"}]
    /\ srv \in [Sockets -> BOOLEAN] /\ connected \in BOOLEAN
    /\ \A s \in Sockets : tab[s] # "open" => wire[s] = <<>>
    /\ \A s \in Sockets : tab[s] = "open" => connected
    /\ \A s \in Sockets : srv[s] => wire[s] \in Seq(Unexpired)

\* Without a thread there is no history to ask for.
Threadless ==
    /\ open \in BOOLEAN /\ historyError \in BOOLEAN
    /\ ~open => ~historyError /\ \A h \in Reloads : request[h].at = "idle"

LEMMA EndsAside == ASSUME Ends, UNCHANGED <<ws, connected, tab, srv, wire>> PROVE Ends'
BY DEF Ends, Unexpired

LEMMA OpeningFree ==
    ASSUME Free # {}
    PROVE  Opening \in Sockets /\ tab[Opening] = "off" /\ ~srv[Opening] /\ inbox[Opening] = <<>>
BY DEF Opening, Free

LEMMA EndsTimer == ASSUME Ends, TimerFires PROVE Ends'
<1>1. /\ Opening \in Sockets /\ tab[Opening] = "off" /\ ws' = Opening
      /\ tab' = [tab EXCEPT ![Opening] = "connecting"] /\ UNCHANGED <<connected, srv, wire>>
  BY OpeningFree DEF TimerFires
<1> QED BY <1>1 DEF Ends, Unexpired

LEMMA EndsCloses ==
    ASSUME Core, Ends, NEW s \in Sockets, NEW auth, Closes(s, auth), UNCHANGED srv PROVE Ends'
<1>1. /\ tab' = [tab EXCEPT ![s] = "off"] /\ wire' = [wire EXCEPT ![s] = <<>>]
      /\ ws' \in {ws, None} /\ UNCHANGED connected
  BY DEF Closes
<1>2. \A T : <<>> \in Seq(T)
  BY EmptySeq
<1> QED BY <1>1, <1>2 DEF Ends, Core, Unexpired

LEMMA EndsOpens == ASSUME Core, Ends, NEW s \in Sockets, Opens(s) PROVE Ends'
<1>1. /\ tab[s] = "connecting" /\ tab' = [tab EXCEPT ![s] = "open"]
      /\ srv' = [srv EXCEPT ![s] = TRUE] /\ connected' = TRUE /\ UNCHANGED <<ws, wire>>
  BY DEF Opens
<1>2. wire[s] = <<>>
  BY <1>1 DEF Ends
<1>3. wire[s] \in Seq(Unexpired)
  BY <1>2, EmptySeq
<1> QED BY <1>1, <1>2, <1>3 DEF Ends, Unexpired

LEMMA EndsRefresh == ASSUME Core, Ends, NEW ok, RefreshDone(ok) PROVE Ends'
<1>1. CASE UNCHANGED <<ws, connected, tab, srv, wire>>
  BY <1>1, EndsAside
<1>2. CASE At("refreshing") # {}
  <2>1. /\ Opening \in Sockets /\ tab[Opening] = "off" /\ ws' = Opening
        /\ tab' = [t \in Sockets |-> IF t = Opening THEN "connecting"
                                     ELSE IF t = ws THEN "off" ELSE tab[t]]
        /\ srv' = [t \in Sockets |-> srv[t] /\ t # ws]
        /\ wire' = [t \in Sockets |-> IF t = ws THEN <<>> ELSE wire[t]] /\ UNCHANGED connected
    BY <1>2, OpeningFree DEF RefreshDone
  <2>2. \A t \in Sockets : srv'[t] => srv[t] /\ t # ws
    BY <2>1
  <2>3. \A t \in Sockets : tab'[t] # "open" => wire'[t] = <<>>
    BY <2>1 DEF Ends
  <2>4. \A t \in Sockets : tab'[t] = "open" => connected'
    BY <2>1 DEF Ends
  <2>5. \A t \in Sockets : srv'[t] => wire'[t] \in Seq(Unexpired)
    BY <2>1, <2>2 DEF Ends
  <2>6. srv' \in [Sockets -> BOOLEAN] /\ tab' \in [Sockets -> {"off", "connecting", "open"}]
    BY <2>1 DEF Ends
  <2> QED BY <2>1, <2>3, <2>4, <2>5, <2>6 DEF Ends, Unexpired
<1> QED BY <1>1, <1>2 DEF RefreshDone

\* The server sends.  What an end that is closed with it is sent does not matter.
LEMMA EndsSends ==
    ASSUME Core, Ends, NEW s \in Sockets, NEW items \in Seq(Item), Sends(s, items),
           UNCHANGED <<ws, connected, tab>>,
           \/ srv' = [srv EXCEPT ![s] = FALSE]
           \/ srv' = srv /\ items \in Seq(Unexpired)
    PROVE  Ends'
<1>1. wire' = [wire EXCEPT ![s] = IF srv[s] /\ tab[s] = "open" THEN @ \o items ELSE @]
  BY DEF Sends
<1>2. \A t \in Sockets : tab'[t] # "open" => wire'[t] = <<>>
  BY <1>1 DEF Ends, Core
<1>3. ASSUME NEW t \in Sockets, srv'[t] PROVE wire'[t] \in Seq(Unexpired)
  <2>1. srv[t] /\ wire[t] \in Seq(Unexpired)
    BY <1>3 DEF Ends
  <2>2. CASE t = s
    <3>1. items \in Seq(Unexpired)
      BY <1>3, <2>2 DEF Ends
    <3> QED BY <2>1, <2>2, <3>1, SendsOne
  <2>3. CASE t # s
    BY <1>1, <2>1, <2>3 DEF Core
  <2> QED BY <2>2, <2>3
<1>4. srv' \in [Sockets -> BOOLEAN]
  BY DEF Ends
<1> QED BY <1>2, <1>3, <1>4 DEF Ends, Unexpired

LEMMA EndsTaken ==
    ASSUME Core, Ends, NEW s \in Sockets, tab[s] = "open", wire[s] # <<>>, Taken(s),
           UNCHANGED <<ws, connected, tab, srv>>
    PROVE  Ends'
<1>1. \A t \in Sockets \ {s} : wire'[t] = wire[t]
  BY TakenOne DEF Core
<1>2. srv[s] => wire'[s] \in Seq(Unexpired)
  BY TakenOne DEF Ends
<1> QED BY <1>1, <1>2 DEF Ends, Unexpired

LEMMA ItemsAreItems == Items \subseteq Item /\ Unexpired \subseteq Item
BY DEF Items, Unexpired

\* What is sent on each occasion.
LEMMA SentItems ==
    /\ CloseItem \in Item /\ CloseItem.kind = "close"
    /\ \A m \in Messages : [kind |-> "event", msg |-> m] \in Item
    /\ <<CloseItem>> \in Seq(Item) /\ <<CloseItem>> \in Seq(Unexpired)
    /\ \A m \in Messages : <<[kind |-> "event", msg |-> m]>> \in Seq(Unexpired)
<1>1. CloseItem \in Item /\ CloseItem.kind = "close" /\ CloseItem \in Unexpired
  BY DEF CloseItem, Item, Unexpired
<1>2. \A m \in Messages : /\ [kind |-> "event", msg |-> m] \in Item
                          /\ [kind |-> "event", msg |-> m] \in Unexpired
  BY DEF Item, Unexpired
<1> QED BY <1>1, <1>2

LEMMA EndsHandle == ASSUME Core, Ends, NEW s \in Sockets, Handle(s) PROVE Ends'
<1> DEFINE f == Head(inbox[s])
<1>1. f \in Frames /\ f \in Frame
  <2>1. inbox[s] # <<>> /\ inbox \in [Sockets -> Seq(Frames)]
    BY DEF Handle, Core
  <2>2. f \in Frames
    BY <2>1, QueueEnds
  <2> QED BY <2>2 DEF Frames
<1>2. \A items \in SUBSET Messages : \A code \in {"ok", "refused"} :
         <<AckOf(f, code, items)>> \in Seq(Item) /\ <<AckOf(f, code, items)>> \in Seq(Unexpired)
  <2> SUFFICES ASSUME NEW items \in SUBSET Messages, NEW code \in {"ok", "refused"}
               PROVE  AckOf(f, code, items) \in Item /\ AckOf(f, code, items) \in Unexpired
    BY PairSeq
  <2> QED BY <1>1, AckTyped DEF Unexpired
<1>3. <<AckOf(f, "expired", {}), CloseItem>> \in Seq(Item)
  BY <1>1, AckTyped, SentItems, PairSeq
<1>4. f.by = Chat => {f.msg} \in SUBSET Messages
  BY <1>1 DEF Frames
<1>5. Latest(PageSize) \in SUBSET Messages
  BY LatestTyped
<1> HIDE DEF f
<1>6. /\ UNCHANGED <<ws, connected, tab>>
      /\ \/ Sends(s, <<AckOf(f, "expired", {}), CloseItem>>) /\ srv' = [srv EXCEPT ![s] = FALSE]
         \/ \E items \in SUBSET Messages : \E code \in {"ok", "refused"} :
               Sends(s, <<AckOf(f, code, items)>>) /\ srv' = srv
  BY <1>4, <1>5 DEF Handle, ServerCloses, storeVars, f
<1> QED BY <1>2, <1>3, <1>6, EndsSends

LEMMA EndsPush == ASSUME Core, Ends, NEW s \in Sockets, Push(s) \/ Heartbeat(s) PROVE Ends'
<1>1. Push(s) => Head(pushes[s]) \in Messages
  BY QueueEnds DEF Push, Core
<1>2. /\ UNCHANGED <<ws, connected, tab>>
      /\ \/ Sends(s, <<CloseItem>>) /\ srv' = [srv EXCEPT ![s] = FALSE]
         \/ \E m \in Messages : Sends(s, <<[kind |-> "event", msg |-> m]>>) /\ srv' = srv
  BY <1>1 DEF Push, Heartbeat, ServerCloses, storeVars
<1>3. \A m \in Messages : <<[kind |-> "event", msg |-> m]>> \in Seq(Item)
  BY SentItems, PairSeq
<1> QED BY <1>2, <1>3, SentItems, EndsSends

LEMMA EndsNext == ASSUME Core, Ends, Next PROVE Ends'
<1>1. CASE Tab
  <2>1. CASE Press \/ RetryHistory
    BY <2>1, EndsAside DEF Press, RetryHistory
  <2>2. ASSUME NEW r \in Requests, TimesOut(r) PROVE Ends'
    BY <2>2, EndsAside DEF TimesOut, socketVars
  <2>3. ASSUME NEW s \in Sockets, ReceiveEvent(s) \/ ReceiveAck(s) PROVE Ends'
    BY <2>3, EndsTaken DEF ReceiveEvent, ReceiveAck, Arrives, storeVars
  <2>4. ASSUME NEW s \in Sockets, ReceiveClose(s) PROVE Ends'
    BY <2>4, EndsCloses DEF ReceiveClose
  <2> QED BY <1>1, <2>1, <2>2, <2>3, <2>4, EndsTimer DEF Tab
<1>2. CASE Session
  <2>1. CASE TokenExpires \/ RestRefreshes
    BY <2>1, EndsAside DEF TokenExpires, RestRefreshes, storeVars, socketVars
  <2> QED BY <1>2, <2>1, EndsRefresh DEF Session, Refreshed, RefreshFails
<1>3. CASE Link
  BY <1>3, EndsOpens, EndsCloses DEF Link, Refused, Drops
<1>4. CASE Server
  <2>1. ASSUME TheyWrite \/ \E m \in Messages : Publish(m) PROVE Ends'
    BY <2>1, EndsAside DEF TheyWrite, Publish, storeVars, socketVars
  <2> QED BY <1>4, <2>1, EndsHandle, EndsPush DEF Server
<1> QED BY <1>1, <1>2, <1>3, <1>4 DEF Next

LEMMA EndsInit == Init => Ends
<1> SUFFICES ASSUME Init PROVE Ends
  OBVIOUS
<1>1. \A T : <<>> \in Seq(T)
  BY EmptySeq
<1>2. ws \in Sockets \union {None} /\ tab \in [Sockets -> {"off", "connecting", "open"}]
      /\ \A s \in Sockets : tab[s] # "open"
  BY ChatAssumption DEF Init
<1> QED BY <1>1, <1>2 DEF Init, Ends

-----------------------------------------------------------------------------
(* The thread: a tab without one. *)

LEMMA ThreadlessAside ==
    ASSUME Threadless, UNCHANGED <<open, historyError, request>> PROVE Threadless'
BY DEF Threadless

LEMMA ThreadlessCloses ==
    ASSUME Core, Threadless, NEW s, NEW auth, Closes(s, auth) PROVE Threadless'
<1> DEFINE again  == {r \in At("sent") : s = ws /\ ~request[r].retry}
           failed == IF s = ws THEN At("waiting") \union (At("sent") \ again) ELSE {}
<1>1. /\ UNCHANGED open /\ historyError' = (historyError \/ failed \cap Reloads # {})
      /\ request' = [r \in Requests |->
                       IF r \in again THEN [request[r] EXCEPT !.at = "refreshing"]
                       ELSE IF r \in failed THEN Idle(r) ELSE request[r]]
  BY DEF Closes, Failing
<1>2. ~open => /\ failed \cap Reloads = {}
               /\ \A h \in Reloads : h \in Requests /\ h \notin again
  BY DEF Threadless, At, Requests
<1> HIDE DEF again, failed
<1>3. ~open => \A h \in Reloads : request'[h].at = "idle"
  <2>1. \A h \in Reloads : h \in Requests /\ (~open => request[h].at = "idle")
    BY DEF Threadless, Requests
  <2> QED BY <1>1, <1>2, <2>1
<1> QED BY <1>1, <1>2, <1>3 DEF Threadless

LEMMA ThreadlessOpens ==
    ASSUME Core, Threadless, NEW s \in Sockets, Opens(s) PROVE Threadless'
<1> DEFINE reload == IF Reconnected THEN {CHOOSE h \in Reloads : request[h].at = "idle"} ELSE {}
           woken  == At("waiting") \union reload
           found  == ws = s \/ (ws # None /\ tab[ws] = "open")
<1>1. /\ UNCHANGED open /\ historyError' \in {historyError, historyError \/ woken \cap Reloads # {}}
      /\ request' = [r \in Requests |-> IF r \notin woken THEN request[r]
                                        ELSE IF found THEN Sent(r) ELSE Idle(r)]
  BY DEF Opens, Failing
<1>2. ~open => woken \cap Reloads = {}
  BY DEF Threadless, At, Reconnected
<1> HIDE DEF woken, found
<1>3. ~open => \A h \in Reloads : request'[h].at = "idle"
  <2>1. \A h \in Reloads : h \in Requests /\ (~open => request[h].at = "idle")
    BY DEF Threadless, Requests
  <2> QED BY <1>1, <1>2, <2>1
<1> QED BY <1>1, <1>2, <1>3 DEF Threadless

LEMMA ThreadlessRefresh ==
    ASSUME Core, Threadless, NEW ok, RefreshDone(ok) PROVE Threadless'
<1>1. /\ UNCHANGED <<open, historyError>>
      /\ \/ UNCHANGED request
         \/ request' = [r \in Requests |->
                         IF request[r].at = "refreshing"
                         THEN [Waiting(r) EXCEPT !.retry = TRUE] ELSE request[r]]
  BY DEF RefreshDone, pageVars
<1>2. ~open => \A h \in Reloads : request'[h].at = "idle"
  <2>1. \A h \in Reloads : h \in Requests /\ (~open => request[h].at = "idle")
    BY DEF Threadless, Requests
  <2> QED BY <1>1, <2>1
<1> QED BY <1>1, <1>2 DEF Threadless

LEMMA ThreadlessAck ==
    ASSUME Core, Threadless, NEW s \in Sockets, ReceiveAck(s) PROVE Threadless'
<1> DEFINE a == Head(wire[s])
           r == a.by
           pending == Answers(a)
           retries == pending /\ a.code = "expired" /\ ~request[r].retry
<1>1. /\ UNCHANGED open
      /\ request' = [request EXCEPT ![r] = IF retries THEN [@ EXCEPT !.at = "refreshing"]
                                           ELSE IF pending THEN Idle(r) ELSE @]
      /\ historyError' \in {historyError, historyError /\ r = Chat,
                            historyError \/ (IF pending /\ ~retries THEN {r} ELSE {}) \cap Reloads # {}}
  BY DEF ReceiveAck, Failing
<1>2. ~open => (pending => r \notin Reloads)
  BY DEF Answers, Threadless
<1> HIDE DEF r, a, pending, retries
<1>3. ~open => \A h \in Reloads : request'[h].at = "idle"
  <2>1. \A h \in Reloads : h \in Requests /\ (~open => request[h].at = "idle")
    BY DEF Threadless, Requests
  <2>2. \A h \in Reloads : h = r /\ ~pending => request'[h] = request[h]
    BY <1>1, <2>1 DEF Core, retries
  <2>3. \A h \in Reloads : h # r => request'[h] = request[h]
    BY <1>1, <2>1 DEF Core
  <2> QED BY <1>2, <2>1, <2>2, <2>3
<1>4. historyError' \in BOOLEAN /\ (~open => ~historyError')
  BY <1>1, <1>2 DEF Threadless
<1> QED BY <1>1, <1>3, <1>4 DEF Threadless

LEMMA ThreadlessNext == ASSUME Core, Threadless, Next PROVE Threadless'
<1>1. CASE Tab
  <2>1. CASE Press
    <3>1. /\ UNCHANGED <<open, historyError>>
          /\ request' = [request EXCEPT ![Chat] = request'[Chat]]
      BY <2>1, ChatIn DEF Press, Ask, pageVars, Core
    <3>2. \A h \in Reloads : h \in Requests /\ h # Chat
      BY ChatAssumption DEF Requests
    <3> QED BY <3>1, <3>2 DEF Threadless, Core
  <2>2. CASE RetryHistory
    BY <2>2 DEF Threadless, RetryHistory, pageVars
  <2>3. ASSUME NEW r \in Requests, TimesOut(r) PROVE Threadless'
    <3>1. /\ UNCHANGED open /\ historyError' = (historyError \/ {r} \cap Reloads # {})
          /\ request' = [request EXCEPT ![r] = Idle(r)] /\ request[r].at # "idle"
      BY <2>3 DEF TimesOut, Failing, Timed
    <3>2. \A h \in Reloads : h \in Requests /\ (~open => h # r)
      BY <3>1 DEF Threadless, Requests
    <3> QED BY <3>1, <3>2 DEF Threadless, Core
  <2>4. ASSUME NEW s \in Sockets, ReceiveEvent(s) PROVE Threadless'
    BY <2>4, ThreadlessAside DEF ReceiveEvent, storeVars
  <2>5. ASSUME NEW s \in Sockets, ReceiveClose(s) PROVE Threadless'
    BY <2>5, ThreadlessCloses DEF ReceiveClose
  <2>6. CASE TimerFires
    BY <2>6, ThreadlessAside DEF TimerFires, pageVars
  <2> QED BY <1>1, <2>1, <2>2, <2>3, <2>4, <2>5, <2>6, ThreadlessAck DEF Tab
<1>2. CASE Session
  <2>1. CASE TokenExpires \/ RestRefreshes
    BY <2>1, ThreadlessAside DEF TokenExpires, RestRefreshes, storeVars, pageVars
  <2> QED BY <1>2, <2>1, ThreadlessRefresh DEF Session, Refreshed, RefreshFails
<1>3. CASE Link
  BY <1>3, ThreadlessOpens, ThreadlessCloses DEF Link, Refused, Drops
<1>4. CASE Server
  <2>1. UNCHANGED <<open, historyError, request>>
    BY <1>4 DEF Server, TheyWrite, Publish, Handle, Push, Heartbeat, storeVars, pageVars
  <2> QED BY <2>1, ThreadlessAside
<1> QED BY <1>1, <1>2, <1>3, <1>4 DEF Next

LEMMA ThreadlessInit == Init => Threadless
<1> SUFFICES ASSUME Init PROVE Threadless
  OBVIOUS
<1>1. \A h \in Reloads : h \in Requests
  BY DEF Requests
<1>2. open \in BOOLEAN
  BY ChatAssumption DEF Init
<1> QED BY <1>1, <1>2 DEF Init, Threadless

-----------------------------------------------------------------------------
(* The thread: what the page is still to be given. *)

Live == ws # None /\ tab[ws] = "open" /\ srv[ws]
EventOf(m) == [kind |-> "event", msg |-> m]

\* A frame or an ack of the request h as it is now.
Of(f, h) == f.by = h /\ f.id = request[h].id
FramesNot(h) == {f \in Frame : ~Of(f, h)}
ItemsNot(h) == {x \in Item : x.kind = "ack" => ~Of(x, h)}
Brings(h, m) == {x \in Item : x.kind = "ack" /\ Of(x, h) /\ x.code = "ok" => m \in x.items}

\* h was sent over the tab's socket and no other, and its ack, where it is under way, has m.
Fetches(h, m) ==
    /\ request[h].at = "sent"
    /\ \A s \in Sockets \ {ws} : inbox[s] \in Seq(FramesNot(h)) /\ wire[s] \in Seq(ItemsNot(h))
    /\ wire[ws] \in Seq(Brings(h, m))

\* The page has m, or its event is lost, or is to come over the tab's socket, or a reload
\* that brings it is under way there, or that socket is not up, and the next one reloads.
Due(m) ==
    \/ m \in shown \union lost \union unpublished
    \/ ~Live
    \/ Contains(pushes[ws], m)
    \/ Contains(wire[ws], EventOf(m))
    \/ \E h \in Reloads : Fetches(h, m)

\* Nothing new in a queue.
Within(p, q) == \A T : q \in Seq(T) => p \in Seq(T)

LEMMA WithinTail == ASSUME NEW T, NEW q \in Seq(T), q # <<>> PROVE Within(Tail(q), q)
BY HeadTailProperties DEF Within

LEMMA WithinSame == ASSUME NEW q PROVE Within(q, q) /\ Within(<<>>, q)
BY EmptySeq DEF Within

LEMMA WithinFront ==
    ASSUME NEW T, NEW q \in Seq(T), NEW n \in 0..Len(q) PROVE Within(SubSeq(q, 1, n), q)
<1> SUFFICES ASSUME NEW U, q \in Seq(U) PROVE SubSeq(q, 1, n) \in Seq(U)
  BY DEF Within
<1>1. Len(q) \in Nat /\ \A i \in 1..Len(q) : q[i] \in U
  BY ElementOfSeq, LenProperties
<1>2. n \in Int /\ \A i \in 1..n : q[i] \in U
  BY <1>1
<1> QED BY <1>2, SubSeqProperties

\* A reload that is under way stays so while it is not answered and nothing of it turns up
\* elsewhere.
LEMMA FetchesKept ==
    ASSUME NEW h \in Reloads, NEW m, Fetches(h, m), UNCHANGED ws, request'[h] = request[h],
           \A s \in Sockets \ {ws} : /\ inbox'[s] \in Seq(FramesNot(h))
                                     /\ wire'[s] \in Seq(ItemsNot(h)),
           wire'[ws] \in Seq(Brings(h, m))
    PROVE  Fetches(h, m)'
<1>1. /\ {f \in Frame : ~Of(f, h)'} = FramesNot(h)
      /\ {x \in Item : x.kind = "ack" => ~Of(x, h)'} = ItemsNot(h)
      /\ {x \in Item : x.kind = "ack" /\ Of(x, h)' /\ x.code = "ok" => m \in x.items} = Brings(h, m)
  BY DEF FramesNot, ItemsNot, Brings, Of
<1>2. FramesNot(h)' = FramesNot(h) /\ ItemsNot(h)' = ItemsNot(h) /\ Brings(h, m)' = Brings(h, m)
  BY <1>1 DEF FramesNot, ItemsNot, Brings, Of, Item, Frame
<1> QED BY <1>2 DEF Fetches

\* A step that takes nothing from the page or its socket and ends no reload.
LEMMA DueCarried ==
    ASSUME NEW m, Due(m), Live, UNCHANGED ws,
           shown \subseteq shown', lost \subseteq lost', unpublished \subseteq unpublished',
           pushes'[ws] = pushes[ws], wire'[ws] = wire[ws],
           \A h \in Reloads : request[h].at = "sent" => request'[h] = request[h],
           \A s \in Sockets \ {ws} : Within(inbox'[s], inbox[s]) /\ Within(wire'[s], wire[s])
    PROVE  Due(m)'
<1>1. ASSUME NEW h \in Reloads, Fetches(h, m) PROVE Fetches(h, m)'
  <2>1. request'[h] = request[h] /\ wire'[ws] \in Seq(Brings(h, m))
    BY <1>1 DEF Fetches
  <2>2. \A s \in Sockets \ {ws} : inbox'[s] \in Seq(FramesNot(h)) /\ wire'[s] \in Seq(ItemsNot(h))
    BY <1>1 DEF Fetches, Within
  <2> QED BY <1>1, <2>1, <2>2, FetchesKept
<1>2. Contains(pushes[ws], m) => Contains(pushes[ws], m)'
  BY DEF Contains
<1>3. Contains(wire[ws], EventOf(m)) => Contains(wire[ws], EventOf(m))'
  BY DEF Contains, EventOf
<1> QED BY <1>1, <1>2, <1>3 DEF Due

\* The socket is not up afterwards.
LEMMA DueDown == ASSUME NEW m, ~Live' PROVE Due(m)'
BY DEF Due

-----------------------------------------------------------------------------
(* Steps of the tab. *)

LEMMA DueAsks ==
    ASSUME Core, NEW m, Due(m), Live, Press PROVE Due(m)'
<1>1. PICK r \in Requests : request[r].at = "idle" /\ Ask(r)
  BY ChatIn DEF Press
<1>2. UNCHANGED <<ws, shown, lost, unpublished, pushes, wire>>
  BY DEF Press, pageVars, ticketVars
<1>3. \A h \in Reloads : request[h].at = "sent" => request'[h] = request[h]
  BY <1>1 DEF Ask, Core, Requests
<1>4. \A s \in Sockets \ {ws} : inbox'[s] = inbox[s] /\ wire'[s] = wire[s]
  BY <1>1, <1>2 DEF Ask, Core
<1>5. \A s \in Sockets \ {ws} : Within(inbox'[s], inbox[s]) /\ Within(wire'[s], wire[s])
  BY <1>4, WithinSame
<1> QED BY <1>2, <1>3, <1>5, DueCarried

\* The composer's request gives up.
LEMMA DueGivesUp ==
    ASSUME Core, NEW m, Due(m), Live, TimesOut(Chat) PROVE Due(m)'
<1>1. /\ UNCHANGED <<ws, shown, lost, unpublished, pushes, wire, inbox>>
      /\ request' = [request EXCEPT ![Chat] = Idle(Chat)]
  BY DEF TimesOut, ticketVars, socketVars
<1>2. \A h \in Reloads : request'[h] = request[h]
  BY <1>1, ChatAssumption DEF Core, Requests
<1> QED BY <1>1, <1>2, WithinSame, DueCarried

LEMMA DueCloses ==
    ASSUME Core, NEW m, Due(m), Live, NEW s \in Sockets, NEW auth, Closes(s, auth),
           \A t \in Sockets \ {s} : inbox'[t] = inbox[t], Within(inbox'[s], inbox[s])
    PROVE  Due(m)'
<1>1. CASE s = ws
  <2>1. ws' = None
    BY <1>1 DEF Closes
  <2> QED BY <2>1, DueDown DEF Live
<1>2. CASE s # ws
  <2> DEFINE again  == {r \in At("sent") : s = ws /\ ~request[r].retry}
             failed == IF s = ws THEN At("waiting") \union (At("sent") \ again) ELSE {}
  <2>1. /\ UNCHANGED <<ws, shown, lost, unpublished, pushes>> /\ wire' = [wire EXCEPT ![s] = <<>>]
        /\ request' = [r \in Requests |->
                         IF r \in again THEN [request[r] EXCEPT !.at = "refreshing"]
                         ELSE IF r \in failed THEN Idle(r) ELSE request[r]]
    BY <1>2 DEF Closes, ticketVars
  <2>2. again = {} /\ failed = {}
    BY <1>2
  <2> HIDE DEF again, failed
  <2>3. \A h \in Reloads : request'[h] = request[h]
    BY <2>1, <2>2 DEF Requests
  <2>4. wire'[s] = <<>> /\ \A t \in Sockets \ {s} : wire'[t] = wire[t]
    BY <2>1 DEF Core
  <2>5. \A t \in Sockets : Within(inbox'[t], inbox[t]) /\ Within(wire'[t], wire[t])
    BY <2>4, WithinSame
  <2>6. ws \in Sockets => wire'[ws] = wire[ws]
    BY <1>2, <2>4
  <2>7. wire'[ws] = wire[ws]
    <3>1. CASE ws \in Sockets
      BY <2>6, <3>1
    <3>2. CASE ws \notin Sockets
      BY <2>1, <3>2 DEF Core
    <3> QED BY <3>1, <3>2
  <2> QED BY <2>1, <2>3, <2>5, <2>7, DueCarried
<1> QED BY <1>1, <1>2

LEMMA DueEvent ==
    ASSUME Core, Ends, open, NEW m, Due(m), Live, NEW s \in Sockets, ReceiveEvent(s)
    PROVE  Due(m)'
<1>1. /\ UNCHANGED <<ws, tab, srv, request, lost, unpublished, pushes, inbox>> /\ wire[s] # <<>>
      /\ Taken(s) /\ shown' = shown \union {Head(wire[s]).msg}
  BY DEF ReceiveEvent, Arrives, storeVars, ticketVars
<1>2. wire'[s] = Tail(wire[s]) /\ \A t \in Sockets \ {s} : wire'[t] = wire[t]
  BY <1>1, TakenOne DEF Core
<1>3. ws \in Sockets /\ \A t \in Sockets : Within(wire'[t], wire[t]) /\ Within(inbox'[t], inbox[t])
  BY <1>1, <1>2, WithinTail, WithinSame DEF Core, Ends, Live
<1>4. ASSUME NEW h \in Reloads, Fetches(h, m) PROVE Fetches(h, m)'
  BY <1>1, <1>3, <1>4, FetchesKept DEF Fetches, Within
<1>5. ASSUME Contains(wire[ws], EventOf(m)) PROVE m \in shown' \/ Contains(wire'[ws], EventOf(m))
  <2>1. CASE s = ws /\ Head(wire[s]) = EventOf(m)
    BY <1>1, <2>1 DEF EventOf
  <2>2. CASE s = ws /\ Head(wire[s]) # EventOf(m)
    <3>1. wire[s] \in Seq(Items) /\ Contains(wire[s], EventOf(m)) /\ wire[s] # <<>>
      BY <1>1, <1>5, <2>2 DEF Core
    <3>2. Contains(Tail(wire[s]), EventOf(m))
      BY <2>2, <3>1, HasRest
    <3> QED BY <1>2, <2>2, <3>2
  <2>3. CASE s # ws
    BY <1>2, <1>3, <1>5, <2>3
  <2> QED BY <2>1, <2>2, <2>3
<1> QED BY <1>1, <1>4, <1>5 DEF Due, EventOf

LEMMA DueAck ==
    ASSUME Core, Ends, NEW m, Due(m), Live, NEW s \in Sockets, ReceiveAck(s)
    PROVE  Due(m)'
<1> DEFINE a == Head(wire[s])
           r == a.by
           pending == Answers(a)
           retries == pending /\ a.code = "expired" /\ ~request[r].retry
<1>1. /\ UNCHANGED <<ws, tab, srv, lost, unpublished, pushes, inbox>> /\ wire[s] # <<>>
      /\ Taken(s) /\ a.kind = "ack"
      /\ request' = [request EXCEPT ![r] = IF retries THEN [@ EXCEPT !.at = "refreshing"]
                                           ELSE IF pending THEN Idle(r) ELSE @]
      /\ \/ pending /\ a.code = "ok" /\ shown' = shown \union a.items
         \/ ~(pending /\ a.code = "ok") /\ shown' = shown
  BY DEF ReceiveAck, Arrives, ticketVars
<1>2. wire'[s] = Tail(wire[s]) /\ a \in Items /\ \A t \in Sockets \ {s} : wire'[t] = wire[t]
  BY <1>1, TakenOne DEF Core
<1>3. ws \in Sockets /\ \A t \in Sockets : Within(wire'[t], wire[t]) /\ Within(inbox'[t], inbox[t])
  BY <1>1, <1>2, WithinTail, WithinSame DEF Core, Ends, Live
<1>4. a.by \in Requests /\ a.code \in {"ok", "expired", "refused"} /\ (a.code = "refused" => a.by = Chat)
  BY <1>1, <1>2 DEF Items, Item
<1>5. ASSUME NEW h \in Reloads, Fetches(h, m), pending, r = h PROVE m \in shown'
  <2>1. Of(a, h)
    BY <1>5 DEF Answers, Of
  <2>2. s = ws
    <3>1. ASSUME s # ws PROVE FALSE
      <4>1. wire[s] \in Seq(ItemsNot(h))
        BY <1>5, <3>1 DEF Fetches
      <4>2. a \in ItemsNot(h)
        BY <1>1, <4>1, TakenOne
      <4> QED BY <1>1, <2>1, <4>2 DEF ItemsNot
    <3> QED BY <3>1
  <2>3. a \in Brings(h, m)
    BY <1>1, <1>5, <2>2, TakenOne DEF Fetches
  <2>4. a \in Unexpired
    BY <1>1, <2>2, TakenOne DEF Ends, Live
  <2>5. a.code = "ok"
    BY <1>1, <1>4, <1>5, <2>4, ChatAssumption DEF Unexpired
  <2> QED BY <1>1, <1>5, <2>1, <2>3, <2>5 DEF Brings
<1>6. ASSUME NEW h \in Reloads, Fetches(h, m), ~(pending /\ r = h) PROVE Fetches(h, m)'
  <2>1. request'[h] = request[h]
    <3>1. h \in Requests
      BY DEF Requests
    <3> HIDE DEF a, pending
    <3> QED BY <1>1, <1>6, <3>1 DEF Core
  <2> QED BY <1>1, <1>3, <1>6, <2>1, FetchesKept DEF Fetches, Within
<1>7. ASSUME Contains(wire[ws], EventOf(m)) PROVE Contains(wire'[ws], EventOf(m))
  <2>1. a # EventOf(m)
    BY <1>1 DEF EventOf
  <2>2. CASE s = ws
    <3>1. wire[s] \in Seq(Items) /\ Contains(wire[s], EventOf(m)) /\ wire[s] # <<>>
      BY <1>1, <1>7, <2>2 DEF Core
    <3>2. Contains(Tail(wire[s]), EventOf(m))
      BY <2>1, <3>1, HasRest
    <3> QED BY <1>2, <2>2, <3>2
  <2>3. CASE s # ws
    BY <1>2, <1>3, <1>7, <2>3
  <2> QED BY <2>2, <2>3
<1> HIDE DEF a, r, pending, retries
<1> QED BY <1>1, <1>5, <1>6, <1>7 DEF Due, EventOf

-----------------------------------------------------------------------------
(* Sockets that open, and the refresh. *)

\* A request that is sent is of a frame that nothing under way is of.
LEMMA NewRequest ==
    ASSUME Core, NEW h \in Requests, request'[h] = Sent(h)
    PROVE  Frames \subseteq FramesNot(h)' /\ Items \subseteq ItemsNot(h)'
<1>1. request[h].id \in Nat /\ request'[h].id = request[h].id + 1
  BY RequestSteps DEF Req
<1>2. ASSUME NEW f \in Frames PROVE f \in Frame /\ ~Of(f, h)'
  <2>1. f \in Frame /\ f.id \in Nat /\ f.id <= request[f.by].id
    BY DEF Frames, Frame
  <2> QED BY <1>1, <2>1 DEF Of
<1>3. ASSUME NEW x \in Items, x.kind = "ack" PROVE ~Of(x, h)'
  <2>1. x.id \in Nat /\ x.id <= request[x.by].id
    BY <1>3 DEF Items, Item
  <2> QED BY <1>1, <2>1 DEF Of
<1>4. Items \subseteq Item
  BY DEF Items
<1> QED BY <1>2, <1>3, <1>4 DEF FramesNot, ItemsNot

\* A history request that goes out over the tab's socket brings all that is stored.
LEMMA FetchedAnew ==
    ASSUME Core, NEW h \in Reloads, NEW m, ws \in Sockets, request'[h] = Sent(h),
           UNCHANGED <<ws, wire>>, \A t \in Sockets \ {ws} : inbox'[t] = inbox[t]
    PROVE  Due(m)'
<1>1. h \in Requests
  BY DEF Requests
<1>2. request'[h].at = "sent"
  BY <1>1, RequestSteps
<1>3. Frames \subseteq FramesNot(h)' /\ Items \subseteq ItemsNot(h)'
  BY <1>1, NewRequest
<1>4. ItemsNot(h)' \subseteq Brings(h, m)'
  BY DEF ItemsNot, Brings
<1>5. /\ Seq(Frames) \subseteq Seq(FramesNot(h)') /\ Seq(Items) \subseteq Seq(ItemsNot(h)')
      /\ Seq(Items) \subseteq Seq(Brings(h, m)')
  BY <1>3, <1>4, SeqMonotonic
<1>6. \A t \in Sockets \ {ws} : inbox'[t] \in Seq(FramesNot(h)') /\ wire'[t] \in Seq(ItemsNot(h)')
  BY <1>5 DEF Core
<1>7. wire'[ws'] \in Seq(Brings(h, m)')
  BY <1>5 DEF Core
<1>8. Fetches(h, m)'
  BY <1>2, <1>6, <1>7 DEF Fetches
<1> QED BY <1>8 DEF Due

\* When a socket opens again the page asks for everything, over the socket the store holds.
LEMMA DueOpens ==
    ASSUME Core, Ends, connected, open, NEW m, NEW s \in Sockets, Opens(s)
    PROVE  Due(m)'
<1>1. Reloads \cap At("idle") # {}
  BY DEF Opens, Reconnected
<1>2. PICK h \in Reloads : /\ h = CHOOSE i \in Reloads : request[i].at = "idle"
                          /\ h \in Requests
  BY <1>1 DEF At, Requests
<1> DEFINE woken  == At("waiting") \union {h}
           found  == ws = s \/ (ws # None /\ tab[ws] = "open")
<1>3. /\ UNCHANGED <<ws, wire>> /\ tab' = [tab EXCEPT ![s] = "open"]
      /\ request' = [r \in Requests |-> IF r \notin woken THEN request[r]
                                        ELSE IF found THEN Sent(r) ELSE Idle(r)]
      /\ found => \E order \in SetToSeqs(woken) :
           inbox' = [inbox EXCEPT ![ws] = @ \o [i \in DOMAIN order |-> FrameOf(order[i])]]
  BY <1>2 DEF Opens, Reconnected
<1>4. h \in woken
  OBVIOUS
<1> HIDE DEF woken
<1>5. CASE found
  <2>1. request'[h] = Sent(h)
    BY <1>2, <1>3, <1>4, <1>5
  <2>2. ws \in Sockets
    BY <1>5 DEF Ends
  <2>3. \A t \in Sockets \ {ws} : inbox'[t] = inbox[t]
    BY <1>3, <1>5 DEF Core
  <2> QED BY <1>3, <2>1, <2>2, <2>3, FetchedAnew
<1>6. CASE ~found
  <2>1. ~Live'
    BY <1>3, <1>6 DEF Live, Ends
  <2> QED BY <2>1, DueDown
<1> QED BY <1>5, <1>6

\* The same when the admin asks on the error banner.
LEMMA DueRetry ==
    ASSUME Core, Ends, NEW m, RetryHistory PROVE Due(m)'
<1>1. PICK h \in Reloads : Ask(h)
  BY DEF RetryHistory
<1>2. UNCHANGED <<ws, tab, srv, wire>> /\ h \in Requests
  BY DEF RetryHistory, Requests
<1>3. CASE ws # None /\ tab[ws] = "open"
  <2>1. /\ ws \in Sockets /\ request' = [request EXCEPT ![h] = Sent(h)]
        /\ inbox' = [inbox EXCEPT ![ws] = Append(@, FrameOf(h))]
    BY <1>1, <1>3 DEF Ask, Ends
  <2>2. request'[h] = Sent(h) /\ \A t \in Sockets \ {ws} : inbox'[t] = inbox[t]
    BY <1>2, <2>1 DEF Core
  <2> QED BY <1>2, <2>1, <2>2, FetchedAnew
<1>4. CASE ~(ws # None /\ tab[ws] = "open")
  BY <1>2, <1>4, DueDown DEF Live
<1> QED BY <1>3, <1>4

LEMMA DueOpening ==
    ASSUME Ends, NEW m, TimerFires PROVE Due(m)'
<1>1. Opening \in Sockets /\ ws' = Opening /\ tab' = [tab EXCEPT ![Opening] = "connecting"]
  BY OpeningFree DEF TimerFires
<1>2. tab'[ws'] # "open"
  BY <1>1 DEF Ends
<1> QED BY <1>2, DueDown DEF Live

LEMMA DueRefresh ==
    ASSUME Core, Ends, NEW m, Due(m), Live, NEW ok, RefreshDone(ok)
    PROVE  Due(m)'
<1>1. CASE At("refreshing") = {}
  <2>1. /\ UNCHANGED <<ws, request, shown, lost, unpublished, inbox, pushes, wire>>
    BY <1>1 DEF RefreshDone, pageVars, ticketVars
  <2> QED BY <2>1, WithinSame, DueCarried
<1>2. CASE At("refreshing") # {}
  <2>1. /\ Opening \in Sockets /\ ws' = Opening
        /\ tab' = [t \in Sockets |-> IF t = Opening THEN "connecting"
                                     ELSE IF t = ws THEN "off" ELSE tab[t]]
    BY <1>2, OpeningFree DEF RefreshDone
  <2>2. tab'[ws'] = "connecting"
    BY <2>1
  <2> QED BY <2>2, DueDown DEF Live
<1> QED BY <1>1, <1>2

-----------------------------------------------------------------------------
(* Steps of the server. *)

LEMMA DueTheyWrite == ASSUME Core, NEW m, Due(m), Live, TheyWrite PROVE Due(m)'
<1>1. /\ UNCHANGED <<ws, request, shown, lost, inbox, pushes, wire>>
      /\ unpublished \subseteq unpublished'
  BY DEF TheyWrite, storeVars, pageVars, socketVars
<1> QED BY <1>1, WithinSame, DueCarried

LEMMA DuePublish ==
    ASSUME Core, Ends, NEW m, Due(m), Live, NEW n \in Messages, Publish(n) PROVE Due(m)'
<1>1. /\ UNCHANGED <<ws, tab, srv, request, shown, inbox, wire>> /\ unpublished' = unpublished \ {n}
      /\ \/ pushes' = [s \in Sockets |-> IF srv[s] THEN Append(pushes[s], n) ELSE pushes[s]]
            /\ UNCHANGED lost
         \/ lost' = lost \union {n} /\ UNCHANGED pushes
  BY DEF Publish, storeVars, pageVars
<1>2. ws \in Sockets /\ srv[ws] /\ pushes[ws] \in Seq(Messages)
  BY DEF Live, Ends, Core
<1>3. ASSUME NEW h \in Reloads, Fetches(h, m) PROVE Fetches(h, m)'
  BY <1>1, <1>3, FetchesKept DEF Fetches
<1>4. ASSUME Contains(pushes[ws], m) \/ n = m PROVE m \in lost' \/ Contains(pushes'[ws], m)
  <2>1. Contains(Append(pushes[ws], n), m)
    BY <1>2, <1>4, HasAppended
  <2> QED BY <1>1, <1>2, <1>4, <2>1
<1>5. ASSUME Contains(pushes[ws], m) PROVE Contains(pushes'[ws], m)
  <2>1. Contains(Append(pushes[ws], n), m)
    BY <1>2, <1>5, HasAppended
  <2> QED BY <1>1, <1>2, <1>5, <2>1
<1>6. m \in lost => m \in lost'
  BY <1>1
<1> QED BY <1>1, <1>3, <1>4, <1>5, <1>6 DEF Due, EventOf

\* What the server sends that is no ack of a request does not bear on it.
LEMMA FetchesSends ==
    ASSUME Core, Ends, Live, NEW h \in Reloads, NEW m, Fetches(h, m),
           NEW s \in Sockets, NEW items \in Seq(Item), Sends(s, items),
           s # ws => items \in Seq(ItemsNot(h)),
           s = ws => items \in Seq(Brings(h, m)),
           UNCHANGED <<ws, request>>, \A t \in Sockets : Within(inbox'[t], inbox[t])
    PROVE  Fetches(h, m)'
<1>1. \A t \in Sockets \ {s} : wire'[t] = wire[t]
  <2>1. wire[s] \in Seq(Item)
    BY ItemsAreItems, SeqMonotonic DEF Core
  <2> QED BY <2>1, SendsOne
<1>2. ASSUME NEW t \in Sockets \ {ws} PROVE wire'[t] \in Seq(ItemsNot(h))
  <2>1. wire[t] \in Seq(ItemsNot(h))
    BY DEF Fetches
  <2> QED BY <1>1, <2>1, SendsOne
<1>3. wire'[ws] \in Seq(Brings(h, m))
  <2>1. wire[ws] \in Seq(Brings(h, m)) /\ ws \in Sockets
    BY DEF Fetches, Live, Ends
  <2> QED BY <1>1, <2>1, SendsOne
<1>4. \A t \in Sockets \ {ws} : inbox'[t] \in Seq(FramesNot(h))
  BY DEF Fetches, Within
<1> QED BY <1>2, <1>3, <1>4, FetchesKept

\* What was on the way to the tab is, with what follows it.
LEMMA EventSends ==
    ASSUME Core, Ends, Live, NEW m, Contains(wire[ws], EventOf(m)),
           NEW s \in Sockets, NEW items \in Seq(Item), Sends(s, items), UNCHANGED ws
    PROVE  Contains(wire[ws], EventOf(m))'
<1>1. ws \in Sockets /\ tab[ws] = "open" /\ srv[ws] /\ wire[s] \in Seq(Item) /\ wire[ws] \in Seq(Item)
  BY ItemsAreItems, SeqMonotonic DEF Live, Ends, Core
<1>2. Contains(wire[ws] \o items, EventOf(m))
  BY <1>1, HasMore
<1>3. s = ws => wire'[ws] = wire[ws] \o items
  BY <1>1, SendsOne
<1>4. s # ws => wire'[ws] = wire[ws]
  BY <1>1, SendsOne
<1>5. Contains(wire'[ws], EventOf(m))
  BY <1>2, <1>3, <1>4
<1> QED BY <1>5 DEF EventOf

\* The server closes its end of s.
LEMMA DueServerCloses ==
    ASSUME Core, Ends, Live, NEW m, Due(m), NEW s \in Sockets,
           NEW items \in Seq(Item), Sends(s, items), ServerCloses(s),
           \A h \in Reloads : Fetches(h, m) /\ s # ws => items \in Seq(ItemsNot(h)),
           UNCHANGED <<ws, tab, request, shown, lost, unpublished>>,
           \A t \in Sockets : Within(inbox'[t], inbox[t])
    PROVE  Due(m)'
<1>1. CASE s = ws
  <2>1. ~srv'[ws']
    BY <1>1 DEF ServerCloses, Ends
  <2> QED BY <2>1, DueDown DEF Live
<1>2. CASE s # ws
  <2>1. \A h \in Reloads : Fetches(h, m) => Fetches(h, m)'
    BY <1>2, FetchesSends
  <2>2. Contains(wire[ws], EventOf(m)) => Contains(wire[ws], EventOf(m))'
    BY EventSends
  <2>3. ws \in Sockets /\ pushes'[ws] = pushes[ws]
    BY <1>2 DEF ServerCloses, Core, Live, Ends
  <2>4. Contains(pushes[ws], m) => Contains(pushes'[ws'], m)
    BY <2>3
  <2> QED BY <2>1, <2>2, <2>4 DEF Due
<1> QED BY <1>1, <1>2

\* Items that are no acks are of no request.
LEMMA PlainOf ==
    ASSUME NEW x \in Item, x.kind # "ack", NEW h, NEW m
    PROVE  <<x>> \in Seq(Item) /\ <<x>> \in Seq(ItemsNot(h)) /\ <<x>> \in Seq(Brings(h, m))
<1>1. x \in ItemsNot(h) /\ x \in Brings(h, m)
  BY DEF ItemsNot, Brings
<1> QED BY <1>1, PairSeq

LEMMA DuePush ==
    ASSUME Core, Ends, NEW m, Due(m), Live, NEW s \in Sockets, Push(s) \/ Heartbeat(s)
    PROVE  Due(m)'
<1>1. /\ UNCHANGED <<ws, tab, request, shown, lost, unpublished, inbox>>
      /\ \/ /\ pushes[s] # <<>> /\ Sends(s, <<EventOf(Head(pushes[s]))>>)
            /\ pushes' = [pushes EXCEPT ![s] = Tail(@)] /\ UNCHANGED srv
         \/ Sends(s, <<CloseItem>>) /\ ServerCloses(s)
  BY DEF Push, Heartbeat, storeVars, pageVars, ticketVars, EventOf
<1>2. \A t \in Sockets : Within(inbox'[t], inbox[t])
  BY <1>1, WithinSame
<1>3. CASE Sends(s, <<CloseItem>>) /\ ServerCloses(s)
  <2>1. <<CloseItem>> \in Seq(Item) /\ \A h \in Reloads : <<CloseItem>> \in Seq(ItemsNot(h))
    BY SentItems, PlainOf
  <2> QED BY <1>1, <1>2, <1>3, <2>1, DueServerCloses
<1>4. CASE /\ pushes[s] # <<>> /\ Sends(s, <<EventOf(Head(pushes[s]))>>)
           /\ pushes' = [pushes EXCEPT ![s] = Tail(@)] /\ UNCHANGED srv
  <2> DEFINE n == Head(pushes[s])
             items == <<EventOf(n)>>
  <2>1. n \in Messages /\ pushes[s] \in Seq(Messages) /\ ws \in Sockets
    BY <1>4, QueueEnds DEF Core, Live, Ends
  <2>2. EventOf(n) \in Item /\ EventOf(n).kind # "ack"
    BY <2>1 DEF Item, EventOf
  <2>3. items \in Seq(Item)
    BY <2>2, PairSeq
  <2>4. \A h \in Reloads : Fetches(h, m) => Fetches(h, m)'
    BY <1>1, <1>2, <1>4, <2>2, <2>3, PlainOf, FetchesSends
  <2>5. Contains(wire[ws], EventOf(m)) => Contains(wire[ws], EventOf(m))'
    BY <1>1, <1>4, <2>3, EventSends
  <2>6. ASSUME Contains(pushes[ws], m), ~(s = ws /\ n = m) PROVE Contains(pushes'[ws'], m)
    <3>1. CASE s = ws
      <4>1. Contains(Tail(pushes[s]), m)
        BY <1>4, <2>1, <2>6, <3>1, HasRest
      <4> QED BY <1>1, <1>4, <2>1, <3>1, <4>1 DEF Core
    <3>2. CASE s # ws
      BY <1>1, <1>4, <2>1, <2>6, <3>2 DEF Core
    <3> QED BY <3>1, <3>2
  <2>7. ASSUME s = ws, n = m PROVE Contains(wire[ws], EventOf(m))'
    <3>1. Contains(items, EventOf(m))
      BY <2>7 DEF Contains
    <3> HIDE DEF items
    <3>2. wire[s] \in Seq(Item)
      BY ItemsAreItems, SeqMonotonic DEF Core
    <3>3. wire'[s] = wire[s] \o items
      BY <1>4, <2>3, <2>7, <3>2, SendsOne DEF Live, items
    <3>4. Contains(wire[s] \o items, EventOf(m))
      BY <2>3, <3>1, <3>2, HasMore
    <3>5. Contains(wire'[ws'], EventOf(m))
      BY <1>1, <2>7, <3>3, <3>4
    <3> QED BY <3>5 DEF EventOf
  <2>8. m \in shown \union lost \union unpublished => m \in shown' \union lost' \union unpublished'
    BY <1>1
  <2> HIDE DEF n, items
  <2> QED BY <2>4, <2>5, <2>6, <2>7, <2>8 DEF Due
<1> QED BY <1>1, <1>3, <1>4

LEMMA DueHandle ==
    ASSUME Core, Ends, NEW m \in Latest(PageSize), Due(m), Live, NEW s \in Sockets, Handle(s)
    PROVE  Due(m)'
<1> DEFINE f == Head(inbox[s])
<1>1. /\ UNCHANGED <<ws, tab, request, shown, lost>>
      /\ inbox[s] # <<>> /\ inbox' = [inbox EXCEPT ![s] = Tail(@)]
      /\ unpublished \subseteq unpublished'
  BY DEF Handle, storeVars, pageVars
<1>2. f \in Frames /\ f \in Frame
  <2>1. f \in Frames
    BY <1>1, QueueEnds DEF Core
  <2> QED BY <2>1 DEF Frames
<1>3. \A t \in Sockets : Within(inbox'[t], inbox[t])
  <2>1. inbox[s] \in Seq(Frames) /\ inbox'[s] = Tail(inbox[s])
        /\ \A t \in Sockets \ {s} : inbox'[t] = inbox[t]
    BY <1>1 DEF Core
  <2> QED BY <1>1, <2>1, WithinTail, WithinSame
<1>4. ASSUME NEW h \in Reloads, Fetches(h, m), s # ws PROVE ~Of(f, h)
  <2>1. inbox[s] \in Seq(FramesNot(h))
    BY <1>4 DEF Fetches
  <2>2. f \in FramesNot(h)
    BY <1>1, <2>1, HeadTailProperties
  <2> QED BY <2>2 DEF FramesNot
<1>5. \/ /\ Sends(s, <<AckOf(f, "expired", {}), CloseItem>>) /\ ServerCloses(s)
         /\ UNCHANGED unpublished
      \/ /\ UNCHANGED <<srv, pushes>> /\ f.by = Chat
         /\ \E code \in {"ok", "refused"}, items \in SUBSET Messages : Sends(s, <<AckOf(f, code, items)>>)
      \/ /\ UNCHANGED <<srv, pushes>> /\ f.by \in Reloads
         /\ Sends(s, <<AckOf(f, "ok", Latest(PageSize))>>)
  <2>1. f.by = Chat => {f.msg} \in SUBSET Messages
    BY <1>2 DEF Frames
  <2> HIDE DEF f
  <2> QED BY <2>1 DEF Handle, f
<1> HIDE DEF f
<1>6. CASE /\ Sends(s, <<AckOf(f, "expired", {}), CloseItem>>) /\ ServerCloses(s)
           /\ UNCHANGED unpublished
  <2>1. AckOf(f, "expired", {}) \in Item /\ CloseItem \in Item /\ CloseItem.kind = "close"
    BY <1>2, AckTyped, SentItems
  <2>2. <<AckOf(f, "expired", {}), CloseItem>> \in Seq(Item)
    BY <2>1, PairSeq
  <2>3. ASSUME NEW h \in Reloads, Fetches(h, m), s # ws
        PROVE  <<AckOf(f, "expired", {}), CloseItem>> \in Seq(ItemsNot(h))
    <3>1. AckOf(f, "expired", {}) \in ItemsNot(h) /\ CloseItem \in ItemsNot(h)
      BY <1>2, <1>4, <2>1, <2>3, AckTyped DEF ItemsNot, Of
    <3> QED BY <3>1, PairSeq
  <2> QED BY <1>1, <1>3, <1>6, <2>2, <2>3, DueServerCloses
<1>7. ASSUME UNCHANGED <<srv, pushes>>, NEW x \in Item, Sends(s, <<x>>),
             x.kind = "ack", x.by = f.by, x.id = f.id,
             f.by \in Reloads => m \in x.items, f.by \in Reloads \union {Chat}
      PROVE  Due(m)'
  <2>1. <<x>> \in Seq(Item)
    BY <1>7, PairSeq
  <2>2. ASSUME NEW h \in Reloads, Fetches(h, m) PROVE Fetches(h, m)'
    <3>1. s # ws => x \in ItemsNot(h)
      BY <1>4, <1>7, <2>2 DEF ItemsNot, Of
    <3>2. x \in Brings(h, m)
      BY <1>7, ChatAssumption DEF Brings, Of
    <3>3. (s # ws => <<x>> \in Seq(ItemsNot(h))) /\ <<x>> \in Seq(Brings(h, m))
      BY <3>1, <3>2, PairSeq
    <3> QED BY <1>1, <1>3, <1>7, <2>1, <2>2, <3>3, FetchesSends
  <2>3. Contains(wire[ws], EventOf(m)) => Contains(wire[ws], EventOf(m))'
    BY <1>1, <1>7, <2>1, EventSends
  <2>4. Contains(pushes[ws], m) => Contains(pushes'[ws'], m)
    BY <1>1, <1>7
  <2>5. m \in shown \union lost \union unpublished => m \in shown' \union lost' \union unpublished'
    BY <1>1
  <2> QED BY <2>2, <2>3, <2>4, <2>5 DEF Due
<1>8. CASE /\ UNCHANGED <<srv, pushes>> /\ f.by = Chat
           /\ \E code \in {"ok", "refused"}, items \in SUBSET Messages : Sends(s, <<AckOf(f, code, items)>>)
  <2>1. PICK code \in {"ok", "refused"}, items \in SUBSET Messages : Sends(s, <<AckOf(f, code, items)>>)
    BY <1>8
  <2>2. /\ AckOf(f, code, items) \in Item /\ AckOf(f, code, items).kind = "ack"
        /\ AckOf(f, code, items).by = f.by /\ AckOf(f, code, items).id = f.id
    BY <1>2, AckTyped
  <2> QED BY <1>7, <1>8, <2>1, <2>2, ChatAssumption
<1>9. CASE /\ UNCHANGED <<srv, pushes>> /\ f.by \in Reloads
           /\ Sends(s, <<AckOf(f, "ok", Latest(PageSize))>>)
  <2>1. Latest(PageSize) \in SUBSET Messages
    BY LatestTyped
  <2>2. /\ AckOf(f, "ok", Latest(PageSize)) \in Item /\ AckOf(f, "ok", Latest(PageSize)).kind = "ack"
        /\ AckOf(f, "ok", Latest(PageSize)).by = f.by /\ AckOf(f, "ok", Latest(PageSize)).id = f.id
        /\ m \in AckOf(f, "ok", Latest(PageSize)).items
    BY <1>2, <2>1, AckTyped DEF AckOf
  <2> QED BY <1>7, <1>9, <2>2
<1> QED BY <1>5, <1>6, <1>8, <1>9

-----------------------------------------------------------------------------
(* The thread: every step. *)

\* The page stays, a tab that was connected is so for good, and a message that is stored is
\* to be published.
LEMMA PageSteps ==
    ASSUME Core, Next
    PROVE  /\ UNCHANGED open /\ connected' \in {connected, TRUE}
           /\ connected' # connected => UNCHANGED wire
           /\ \/ log' = log
              \/ \E n \in Messages : log' = Append(log, n) /\ n \in unpublished'
<1>1. ASSUME NEW s \in Sockets, Handle(s)
      PROVE  \/ log' = log
             \/ \E n \in Messages : log' = Append(log, n) /\ n \in unpublished'
  <2> DEFINE f == Head(inbox[s])
  <2>1. f \in Frames
    BY <1>1, QueueEnds DEF Handle, Core
  <2>2. \/ log' = log
        \/ f.by = Chat /\ log' = Append(log, f.msg) /\ unpublished' = unpublished \union {f.msg}
    BY <1>1 DEF Handle
  <2> HIDE DEF f
  <2>3. f.by = Chat => f.msg \in Messages
    BY <2>1 DEF Frames
  <2> QED BY <2>2, <2>3
<1>2. ASSUME TheyWrite PROVE \E n \in Messages : log' = Append(log, n) /\ n \in unpublished'
  <2>1. used["theirs"] \in Nat /\ used["theirs"] < MaxTheirs
    BY <1>2 DEF Core, TheyWrite
  <2>2. used["theirs"] + 1 \in 1..MaxTheirs
    BY <2>1, SendsIn
  <2> QED BY <1>2, <2>2 DEF TheyWrite, Messages
<1>3. CASE Tab
  BY <1>3 DEF Tab, Press, RetryHistory, TimerFires, TimesOut, ReceiveEvent, ReceiveAck,
     ReceiveClose, Closes, pageVars, ticketVars, storeVars
<1>4. CASE Session
  BY <1>4 DEF Session, TokenExpires, RestRefreshes, Refreshed, RefreshFails, RefreshDone,
     pageVars, ticketVars, storeVars
<1>5. CASE Link
  BY <1>5 DEF Link, Opens, Refused, Drops, Closes, pageVars, ticketVars, storeVars
<1>6. CASE Server
  <2>1. UNCHANGED <<open, connected>>
    BY <1>6 DEF Server, TheyWrite, Publish, Handle, Push, Heartbeat, pageVars, storeVars
  <2>2. ASSUME \/ \E m \in Messages : Publish(m)
               \/ \E s \in Sockets : Push(s) \/ Heartbeat(s)
        PROVE  log' = log
    BY <2>2 DEF Publish, Push, Heartbeat, ticketVars
  <2> QED BY <1>1, <1>2, <1>6, <2>1, <2>2 DEF Server
<1> QED BY <1>3, <1>4, <1>5, <1>6 DEF Next

\* What is due of the newest page stays so once the tab has been connected, unless a history
\* request gives up.
LEMMA DueNext ==
    ASSUME Core, Ends, connected, open, NEW m \in Latest(PageSize), Due(m), Next,
           \A h \in Reloads : ~TimesOut(h)
    PROVE  Due(m)'
<1>1. ASSUME NEW s \in Sockets, Opens(s) PROVE Due(m)'
  BY <1>1, DueOpens
<1>2. CASE ~Live' \/ TimerFires
  BY <1>2, DueDown, DueOpening
<1>3. ASSUME ~Live, Live', \A s \in Sockets : ~Opens(s), ~TimerFires PROVE FALSE
  <2>1. CASE UNCHANGED <<ws, tab, srv>>
    BY <1>3, <2>1 DEF Live
  <2>2. ASSUME NEW s \in Sockets, NEW auth, Closes(s, auth), UNCHANGED srv PROVE FALSE
    <3>1. /\ tab' = [tab EXCEPT ![s] = "off"] /\ ws' \in {ws, None}
      BY <2>2 DEF Closes
    <3> QED BY <1>3, <2>2, <3>1 DEF Live, Ends
  <2>3. ASSUME NEW ok, RefreshDone(ok) PROVE FALSE
    <3>1. CASE At("refreshing") = {}
      BY <2>1, <2>3, <3>1 DEF RefreshDone
    <3>2. CASE At("refreshing") # {}
      <4>1. /\ Opening \in Sockets /\ ws' = Opening
            /\ tab' = [t \in Sockets |-> IF t = Opening THEN "connecting"
                                         ELSE IF t = ws THEN "off" ELSE tab[t]]
        BY <2>3, <3>2, OpeningFree DEF RefreshDone
      <4>2. tab'[ws'] = "connecting"
        BY <4>1
      <4> QED BY <1>3, <4>2 DEF Live
    <3> QED BY <3>1, <3>2
  <2>4. ASSUME NEW s \in Sockets, ServerCloses(s) \/ UNCHANGED srv, UNCHANGED <<ws, tab>> PROVE FALSE
    <3>1. ws \in Sockets => (srv'[ws] => srv[ws])
      BY <2>4 DEF ServerCloses, Ends
    <3> QED BY <1>3, <2>4, <3>1 DEF Live, Ends
  <2>5. CASE Tab
    BY <1>3, <2>1, <2>2, <2>5 DEF Tab, Press, RetryHistory, TimesOut, ReceiveEvent, ReceiveAck,
       ReceiveClose, storeVars, socketVars
  <2>6. CASE Session
    BY <2>1, <2>3, <2>6 DEF Session, TokenExpires, RestRefreshes, Refreshed, RefreshFails,
       storeVars, socketVars
  <2>7. CASE Link
    BY <1>3, <2>2, <2>7 DEF Link, Refused, Drops
  <2>8. CASE Server
    <3>1. CASE TheyWrite \/ \E n \in Messages : Publish(n)
      BY <2>1, <3>1 DEF TheyWrite, Publish, storeVars, socketVars
    <3>2. ASSUME NEW s \in Sockets, Handle(s) \/ Push(s) \/ Heartbeat(s) PROVE FALSE
      BY <2>4, <3>2 DEF Handle, Push, Heartbeat, storeVars
    <3> QED BY <2>8, <3>1, <3>2 DEF Server
  <2> QED BY <2>5, <2>6, <2>7, <2>8 DEF Next
<1>4. ASSUME Live, Tab, ~TimerFires PROVE Due(m)'
  <2>1. ASSUME NEW s \in Sockets, ReceiveClose(s) PROVE Due(m)'
    BY <1>4, <2>1, WithinSame, DueCloses DEF ReceiveClose
  <2>2. ASSUME NEW r \in Requests, TimesOut(r) PROVE Due(m)'
    <3>1. r = Chat
      BY <2>2 DEF Requests
    <3> QED BY <1>4, <2>2, <3>1, DueGivesUp
  <2> QED BY <1>4, <2>1, <2>2, DueAsks, DueRetry, DueEvent, DueAck DEF Tab
<1>5. ASSUME Live, Session PROVE Due(m)'
  <2>1. ASSUME TokenExpires \/ RestRefreshes PROVE Due(m)'
    <3>1. UNCHANGED <<ws, shown, lost, unpublished, pushes, wire, inbox, request>>
      BY <2>1 DEF TokenExpires, RestRefreshes, storeVars, pageVars, ticketVars, socketVars
    <3> QED BY <1>5, <3>1, WithinSame, DueCarried
  <2> QED BY <1>5, <2>1, DueRefresh DEF Session, Refreshed, RefreshFails
<1>6. ASSUME Live, Link, \A s \in Sockets : ~Opens(s) PROVE Due(m)'
  <2>1. ASSUME NEW s \in Sockets, Refused(s) PROVE Due(m)'
    BY <1>6, <2>1, WithinSame, DueCloses DEF Refused
  <2>2. ASSUME NEW s \in Sockets, Drops(s) PROVE Due(m)'
    <3>1. PICK arrived \in 0..Len(inbox[s]) : inbox' = [inbox EXCEPT ![s] = SubSeq(@, 1, arrived)]
      BY <2>2 DEF Drops
    <3>2. inbox[s] \in Seq(Frames) /\ inbox'[s] = SubSeq(inbox[s], 1, arrived)
          /\ \A t \in Sockets \ {s} : inbox'[t] = inbox[t]
      BY <3>1 DEF Core
    <3>3. Within(inbox'[s], inbox[s])
      BY <3>2, WithinFront
    <3> QED BY <1>6, <2>2, <3>2, <3>3, DueCloses DEF Drops
  <2> QED BY <1>6, <2>1, <2>2 DEF Link
<1>7. ASSUME Live, Server PROVE Due(m)'
  BY <1>7, DueTheyWrite, DuePublish, DuePush, DueHandle DEF Server
<1> QED BY <1>1, <1>2, <1>3, <1>4, <1>5, <1>6, <1>7 DEF Next

-----------------------------------------------------------------------------
(* The thread: what the page has been given. *)

From(k) == {log[i] : i \in {j \in DOMAIN log : j >= k}}
Upto(k) == {log[i] : i \in {j \in 1..k : j + PageSize > k}}

\* The page says that it could not load the history, and nothing under way says otherwise.
Alone == historyError /\ \A h \in Reloads : request[h].at = "idle"

\* Of what came from the k-th message on, the newest page is still to be given.
Kept(k) == crossed \/ Alone \/ \A m \in From(k) \cap Latest(PageSize) : Due(m)

\* The newest page of the ticket as it was, with what came later still to be given.
Whole(items) == \E k \in 0..Len(log) : items = Upto(k) /\ Kept(k + 1)
WholePages == {items \in SUBSET Messages : Whole(items)}
Paged == {x \in Item : x.kind = "ack" /\ x.by \in Reloads /\ x.code = "ok" => x.items \in WholePages}

\* Every page under way is such a page, and what came after the first one is still to be given.
Caught ==
    /\ connected /\ open => wire \in [Sockets -> Seq(Paged)]
    /\ since \in 0..Unloaded /\ (since # Unloaded => connected /\ open)
    /\ Kept(since)

LEMMA TicketIs == ASSUME Core PROVE Len(log) \in Nat /\ DOMAIN log = 1..Len(log)
BY LenProperties DEF Core

LEMMA UnloadedAll == ASSUME Core, InTicket PROVE Unloaded \in Nat /\ From(Unloaded) = {}
<1>1. Len(log) \in Nat /\ Len(log) <= MaxSends + MaxTheirs /\ DOMAIN log = 1..Len(log)
  BY LogShort, TicketIs
<1>2. MaxSends \in Nat /\ MaxTheirs \in Nat
  BY SendsIn
<1>3. \A j \in 1..Len(log) : ~(j >= Unloaded)
  BY <1>1, <1>2 DEF Unloaded
<1> QED BY <1>1, <1>2, <1>3 DEF From, Unloaded

\* A banner that nothing under way can clear stays until the history is asked for again.
LEMMA AloneCloses ==
    ASSUME Alone, NEW s, NEW auth, Closes(s, auth) PROVE Alone'
<1> DEFINE again  == {r \in At("sent") : s = ws /\ ~request[r].retry}
           failed == IF s = ws THEN At("waiting") \union (At("sent") \ again) ELSE {}
<1>1. /\ historyError'
      /\ request' = [r \in Requests |->
                       IF r \in again THEN [request[r] EXCEPT !.at = "refreshing"]
                       ELSE IF r \in failed THEN Idle(r) ELSE request[r]]
  BY DEF Closes, Failing, Alone
<1>2. \A h \in Reloads : h \in Requests /\ h \notin again /\ h \notin failed
  BY DEF Alone, At, Requests
<1> HIDE DEF again, failed
<1> QED BY <1>1, <1>2 DEF Alone

LEMMA AloneAck ==
    ASSUME Core, Alone, NEW s \in Sockets, ReceiveAck(s) PROVE Alone'
<1> DEFINE a == Head(wire[s])
           r == a.by
           pending == Answers(a)
           retries == pending /\ a.code = "expired" /\ ~request[r].retry
<1>1. /\ wire[s] # <<>> /\ a.kind = "ack"
      /\ request' = [request EXCEPT ![r] = IF retries THEN [@ EXCEPT !.at = "refreshing"]
                                           ELSE IF pending THEN Idle(r) ELSE @]
      /\ \/ pending /\ historyError' = (historyError /\ r = Chat)
         \/ historyError' = (historyError \/ (IF pending /\ ~retries THEN {r} ELSE {}) \cap Reloads # {})
  BY DEF ReceiveAck, Arrives, Failing
<1>2. r \in Requests
  <2>1. a \in Items
    BY <1>1, QueueEnds DEF Core
  <2> QED BY <1>1, <2>1 DEF Items, Item
<1>3. pending => r = Chat
  BY <1>2 DEF Answers, Alone, Requests
<1> HIDE DEF a, r, pending, retries
<1>4. historyError'
  BY <1>1, <1>3 DEF Alone
<1>5. \A h \in Reloads : request'[h] = request[h]
  <2>1. \A h \in Reloads : h \in Requests /\ h # Chat
    BY ChatAssumption DEF Requests
  <2>2. ASSUME NEW h \in Reloads PROVE request'[h] = request[h]
    <3>1. CASE h # r
      BY <1>1, <2>1, <3>1 DEF Core
    <3>2. CASE h = r
      <4>1. ~pending /\ ~retries
        BY <1>3, <2>1, <3>2 DEF retries
      <4> QED BY <1>1, <2>1, <3>2, <4>1 DEF Core
    <3> QED BY <3>1, <3>2
  <2> QED BY <2>2
<1> QED BY <1>4, <1>5 DEF Alone

LEMMA AloneNext ==
    ASSUME Core, Ends, connected, open, Alone, Next, NEW m PROVE Alone' \/ Due(m)'
<1>1. ASSUME UNCHANGED historyError, \A h \in Reloads : request'[h] = request[h] PROVE Alone'
  BY <1>1 DEF Alone
<1>2. \A h \in Reloads : h \in Requests /\ h # Chat
  BY ChatAssumption DEF Requests
<1>3. CASE Tab
  <2>1. CASE Press
    <3>1. UNCHANGED historyError /\ Ask(Chat)
      BY <2>1 DEF Press, pageVars
    <3> QED BY <1>1, <1>2, <3>1 DEF Ask, Core
  <2>2. ASSUME NEW r \in Requests, TimesOut(r) PROVE Alone'
    <3>1. r = Chat
      BY <2>2 DEF TimesOut, Timed, Alone, Requests
    <3>2. historyError' /\ request' = [request EXCEPT ![Chat] = Idle(Chat)]
      BY <2>2, <3>1 DEF TimesOut, Failing, Alone
    <3>3. \A h \in Reloads : request'[h] = request[h]
      BY <1>2, <3>2 DEF Core
    <3> QED BY <3>2, <3>3 DEF Alone
  <2>3. ASSUME TimerFires \/ \E s \in Sockets : ReceiveEvent(s) PROVE Alone'
    BY <1>1, <2>3 DEF TimerFires, ReceiveEvent, pageVars, storeVars
  <2> QED BY <1>3, <2>1, <2>2, <2>3, DueRetry, AloneAck, AloneCloses DEF Tab, ReceiveClose
<1>4. CASE Session
  <2>1. CASE TokenExpires \/ RestRefreshes
    BY <1>1, <2>1 DEF TokenExpires, RestRefreshes, storeVars, pageVars
  <2>2. ASSUME NEW ok, RefreshDone(ok) PROVE Alone'
    <3>1. /\ UNCHANGED historyError
          /\ \/ UNCHANGED request
             \/ request' = [r \in Requests |->
                             IF request[r].at = "refreshing"
                             THEN [Waiting(r) EXCEPT !.retry = TRUE] ELSE request[r]]
      BY <2>2 DEF RefreshDone, pageVars
    <3>2. \A h \in Reloads : request[h].at = "idle"
      BY DEF Alone
    <3>3. \A h \in Reloads : request'[h] = request[h]
      BY <1>2, <3>1, <3>2
    <3> QED BY <1>1, <3>1, <3>3
  <2> QED BY <1>4, <2>1, <2>2 DEF Session, Refreshed, RefreshFails
<1>5. CASE Link
  BY <1>5, DueOpens, AloneCloses DEF Link, Refused, Drops
<1>6. CASE Server
  <2>1. UNCHANGED <<historyError, request>>
    BY <1>6 DEF Server, TheyWrite, Publish, Handle, Push, Heartbeat, storeVars, pageVars
  <2> QED BY <1>1, <2>1
<1> QED BY <1>3, <1>4, <1>5, <1>6 DEF Next

\* The history is asked for anew before it is forgotten that two requests crossed.
LEMMA CrossedSteps ==
    ASSUME Next, crossed PROVE crossed' \/ RetryHistory \/ \E s \in Sockets : Opens(s)
<1>1. CASE Tab
  BY <1>1 DEF Tab, Press, TimerFires, TimesOut, ReceiveEvent, ReceiveAck, ReceiveClose, Closes, pageVars
<1>2. CASE Session
  BY <1>2 DEF Session, TokenExpires, RestRefreshes, Refreshed, RefreshFails, RefreshDone, pageVars
<1>3. CASE Link
  BY <1>3 DEF Link, Refused, Drops, Closes
<1>4. CASE Server
  BY <1>4 DEF Server, TheyWrite, Publish, Handle, Push, Heartbeat, pageVars
<1> QED BY <1>1, <1>2, <1>3, <1>4 DEF Next

\* A history request that gives up with no other under way leaves the banner alone.
LEMMA GivesUp ==
    ASSUME Core, NEW h \in Reloads, TimesOut(h) PROVE crossed' \/ Alone'
<1>1. /\ historyError' /\ request' = [request EXCEPT ![h] = Idle(h)]
      /\ crossed' = (crossed \/ (h \in Reloads /\ ~(Reloads \ {h} \subseteq At("idle"))))
  BY DEF TimesOut, Failing
<1>2. CASE Reloads \ {h} \subseteq At("idle")
  <2>1. ASSUME NEW g \in Reloads PROVE request'[g].at = "idle"
    <3>1. g \in Requests
      BY DEF Requests
    <3>2. CASE g = h
      BY <1>1, <3>1, <3>2, RequestSteps DEF Core
    <3>3. CASE g # h
      BY <1>1, <1>2, <3>1, <3>3 DEF Core, At
    <3> QED BY <3>2, <3>3
  <2> QED BY <1>1, <2>1 DEF Alone
<1>3. CASE ~(Reloads \ {h} \subseteq At("idle"))
  BY <1>1, <1>3
<1> QED BY <1>2, <1>3

\* A message that is new in the ticket is the only one new in a part of it.
LEMMA PartsKeptOf ==
    ASSUME Core, Next, NEW k \in Nat
    PROVE  \A m \in From(k)' \cap Latest(PageSize)' :
               (m \in From(k) /\ m \in Latest(PageSize)) \/ m \in unpublished'
<1>1. Len(log) \in Nat /\ DOMAIN log = 1..Len(log) /\ PageSize \in Nat
  BY TicketIs, ChatAssumption
<1>2. CASE log' = log
  BY <1>2 DEF From, Latest
<1>3. ASSUME NEW n \in Messages, log' = Append(log, n), n \in unpublished',
             NEW m \in From(k)' \cap Latest(PageSize)'
      PROVE  (m \in From(k) /\ m \in Latest(PageSize)) \/ m \in unpublished'
  <2>1. /\ DOMAIN log' = 1..Len(log) + 1 /\ log'[Len(log) + 1] = n
        /\ \A i \in 1..Len(log) : log'[i] = log[i]
    BY <1>3, Appended
  <2>2. Len(log') = Len(log) + 1
    BY <1>3, AppendProperties DEF Core
  <2>3. \A i \in DOMAIN log' : i \in DOMAIN log \/ i = Len(log) + 1
    BY <1>1, <2>1
  <2>4. m \in From(k) \/ m = n
    BY <1>1, <1>3, <2>1, <2>3 DEF From
  <2>5. m \in Latest(PageSize) \/ m = n
    <3>1. PICK i \in DOMAIN log' : i + PageSize > Len(log') /\ m = log'[i]
      BY <1>3 DEF Latest
    <3>2. CASE i = Len(log) + 1
      BY <2>1, <3>1, <3>2
    <3>3. CASE i \in DOMAIN log
      <4>1. i + PageSize > Len(log) /\ m = log[i]
        BY <1>1, <2>1, <2>2, <3>1, <3>3
      <4> QED BY <3>3, <4>1 DEF Latest
    <3> QED BY <2>3, <3>2, <3>3
  <2> QED BY <1>3, <2>4, <2>5
<1> QED BY <1>2, <1>3, PageSteps

\* What a step leaves to be given, or adds to it.
LEMMA KeptNext ==
    ASSUME Core, Ends, connected, open, Next, NEW k \in Nat, Kept(k)
    PROVE  Kept(k)'
<1>1. CASE crossed
  <2>1. CASE RetryHistory \/ \E s \in Sockets : Opens(s)
    <3>1. \A m : Due(m)'
      BY <2>1, DueRetry, DueOpens
    <3> QED BY <3>1 DEF Kept
  <2> QED BY <1>1, <2>1, CrossedSteps DEF Kept
<1>2. CASE Alone
  <2>1. \A m : Alone' \/ Due(m)'
    BY <1>2, AloneNext
  <2> QED BY <2>1 DEF Kept
<1>3. ASSUME NEW h \in Reloads, TimesOut(h) PROVE Kept(k)'
  BY <1>3, GivesUp DEF Kept
<1>4. ASSUME \A m \in From(k) \cap Latest(PageSize) : Due(m), \A h \in Reloads : ~TimesOut(h)
      PROVE  Kept(k)'
  <2>1. ASSUME NEW m \in From(k)' \cap Latest(PageSize)' PROVE Due(m)'
    <3>1. CASE m \in From(k) /\ m \in Latest(PageSize)
      BY <1>4, <3>1, DueNext
    <3>2. CASE m \in unpublished'
      BY <3>2 DEF Due
    <3> QED BY <2>1, <3>1, <3>2, PartsKeptOf
  <2> QED BY <2>1 DEF Kept
<1> QED BY <1>1, <1>2, <1>3, <1>4 DEF Kept

LEMMA WholeKept ==
    ASSUME Core, Ends, connected, open, Next, NEW items, Whole(items)
    PROVE  Whole(items)'
<1>1. PICK k \in 0..Len(log) : items = Upto(k) /\ Kept(k + 1)
  BY DEF Whole
<1>2. Len(log) \in Nat /\ DOMAIN log = 1..Len(log)
  BY TicketIs
<1>3. k \in 0..Len(log') /\ \A i \in 1..k : log'[i] = log[i]
  <2>1. CASE log' = log
    BY <2>1
  <2>2. ASSUME NEW n \in Messages, log' = Append(log, n) PROVE <1>3
    <3>1. Len(log') = Len(log) + 1 /\ \A i \in 1..Len(log) : log'[i] = log[i]
      BY <2>2, AppendProperties DEF Core
    <3> QED BY <1>2, <3>1
  <2> QED BY <2>1, <2>2, PageSteps
<1>4. Upto(k)' = Upto(k)
  BY <1>3 DEF Upto
<1>5. PICK j \in Nat : j = k + 1
  BY <1>2
<1>6. Kept(j)'
  BY <1>1, <1>5, KeptNext
<1> QED BY <1>1, <1>3, <1>4, <1>5, <1>6 DEF Whole

LEMMA PagedKept ==
    ASSUME Core, Ends, connected, open, Next PROVE Paged \subseteq Paged'
<1>1. WholePages \subseteq WholePages'
  BY WholeKept DEF WholePages
<1> QED BY <1>1 DEF Paged

LEMMA PagedPlain ==
    ASSUME NEW x \in Item, x.kind # "ack" \/ x.by = Chat \/ x.code # "ok" PROVE x \in Paged
BY ChatAssumption DEF Paged

\* The page the server sends.
LEMMA LatestPaged ==
    ASSUME Core, NEW f \in Frame
    PROVE  AckOf(f, "ok", Latest(PageSize)) \in Paged
<1>1. Len(log) \in Nat /\ DOMAIN log = 1..Len(log)
  BY TicketIs
<1>2. Latest(PageSize) = Upto(Len(log)) /\ Latest(PageSize) \in SUBSET Messages
  BY <1>1, LatestTyped DEF Upto, Latest
<1>3. Kept(Len(log) + 1)
  <2>1. \A j \in 1..Len(log) : ~(j >= Len(log) + 1)
    BY <1>1
  <2> QED BY <1>1, <2>1 DEF From, Kept
<1>4. Latest(PageSize) \in WholePages
  BY <1>1, <1>2, <1>3 DEF WholePages, Whole
<1>5. AckOf(f, "ok", Latest(PageSize)) \in Item
  BY <1>2, AckTyped
<1> QED BY <1>4, <1>5 DEF Paged, AckOf

\* No step puts another kind of page on the wire.
LEMMA WirePaged ==
    ASSUME Core, wire \in [Sockets -> Seq(Paged)], Next
    PROVE  wire' \in [Sockets -> Seq(Paged)]
<1>1. CASE UNCHANGED wire
  BY <1>1
<1>2. ASSUME NEW s, NEW auth, Closes(s, auth) PROVE wire' \in [Sockets -> Seq(Paged)]
  BY <1>2, QueueEmptied DEF Closes
<1>3. CASE Tab
  <2>1. ASSUME NEW s \in Sockets, ReceiveEvent(s) \/ ReceiveAck(s) PROVE wire' \in [Sockets -> Seq(Paged)]
    <3>1. wire[s] # <<>> /\ wire' = [wire EXCEPT ![s] = Tail(@)]
      BY <2>1 DEF ReceiveEvent, ReceiveAck, Arrives, Taken
    <3> QED BY <3>1, QueueEnds
  <2> QED BY <1>1, <1>2, <1>3, <2>1 DEF Tab, Press, RetryHistory, TimerFires, TimesOut, ReceiveClose, socketVars
<1>4. CASE Session
  <2>1. ASSUME NEW ok, RefreshDone(ok) PROVE wire' \in [Sockets -> Seq(Paged)]
    <3>1. wire' \in {wire, [s \in Sockets |-> IF s = ws THEN <<>> ELSE wire[s]]}
      BY <2>1 DEF RefreshDone
    <3>2. <<>> \in Seq(Paged)
      BY EmptySeq
    <3> QED BY <3>1, <3>2
  <2> QED BY <1>1, <1>4, <2>1 DEF Session, TokenExpires, RestRefreshes, Refreshed, RefreshFails, socketVars
<1>5. CASE Link
  BY <1>1, <1>2, <1>5 DEF Link, Opens, Refused, Drops
<1>6. CASE Server
  <2>1. <<CloseItem>> \in Seq(Paged)
    BY SentItems, PagedPlain, PairSeq
  <2>2. ASSUME NEW s \in Sockets, Push(s) \/ Heartbeat(s) PROVE wire' \in [Sockets -> Seq(Paged)]
    <3>1. CASE Sends(s, <<CloseItem>>)
      BY <2>1, <3>1, SendsTyped
    <3>2. CASE pushes[s] # <<>> /\ Sends(s, <<[kind |-> "event", msg |-> Head(pushes[s])]>>)
      <4>1. Head(pushes[s]) \in Messages
        BY <3>2, QueueEnds DEF Core
      <4>2. [kind |-> "event", msg |-> Head(pushes[s])] \in Paged
        BY <4>1, SentItems, PagedPlain
      <4> QED BY <3>2, <4>2, PairSeq, SendsTyped
    <3> QED BY <2>2, <3>1, <3>2 DEF Push, Heartbeat
  <2>3. ASSUME NEW s \in Sockets, Handle(s) PROVE wire' \in [Sockets -> Seq(Paged)]
    <3> DEFINE f == Head(inbox[s])
    <3>1. f \in Frames /\ f \in Frame
      <4>1. f \in Frames
        BY <2>3, QueueEnds DEF Handle, Core
      <4> QED BY <4>1 DEF Frames
    <3>2. \/ Sends(s, <<AckOf(f, "expired", {}), CloseItem>>)
          \/ f.by = Chat /\ (Sends(s, <<AckOf(f, "ok", {f.msg})>>) \/ Sends(s, <<AckOf(f, "refused", {})>>))
          \/ Sends(s, <<AckOf(f, "ok", Latest(PageSize))>>)
      BY <2>3 DEF Handle
    <3> HIDE DEF f
    <3>3. <<AckOf(f, "expired", {}), CloseItem>> \in Seq(Paged)
      BY <3>1, SentItems, AckTyped, PagedPlain, PairSeq
    <3>4. f.by = Chat => /\ <<AckOf(f, "ok", {f.msg})>> \in Seq(Paged)
                         /\ <<AckOf(f, "refused", {})>> \in Seq(Paged)
      <4> SUFFICES ASSUME f.by = Chat
                   PROVE  AckOf(f, "ok", {f.msg}) \in Paged /\ AckOf(f, "refused", {}) \in Paged
        BY PairSeq
      <4>1. {f.msg} \in SUBSET Messages
        BY <3>1 DEF Frames
      <4> QED BY <3>1, <4>1, AckTyped, PagedPlain
    <3>5. <<AckOf(f, "ok", Latest(PageSize))>> \in Seq(Paged)
      BY <3>1, LatestPaged, PairSeq
    <3> QED BY <3>2, <3>3, <3>4, <3>5, SendsTyped
  <2> QED BY <1>1, <1>6, <2>2, <2>3 DEF Server, TheyWrite, Publish, socketVars
<1> QED BY <1>3, <1>4, <1>5, <1>6 DEF Next

\* A page ends with its newest message.
LEMMA LastOfPage ==
    ASSUME Core, NEW k \in 0..Len(log), k # 0 PROVE log[k] \in Upto(k)
<1>1. k \in 1..k /\ k + PageSize > k
  BY TicketIs, ChatAssumption
<1> QED BY <1>1 DEF Upto

\* Where the first page ends.
LEMMA FirstEnds ==
    ASSUME Core, InTicket, NEW k \in 0..Len(log)
    PROVE  Max({0} \union {i \in DOMAIN log : log[i] \in Upto(k)}) = k
<1>1. Len(log) \in Nat /\ DOMAIN log = 1..Len(log)
  BY TicketIs
<1>2. \A i \in 1..Len(log) : log[i] \in Upto(k) => i <= k
  <2>1. ASSUME NEW i \in 1..Len(log), log[i] \in Upto(k) PROVE i <= k
    <3>1. PICK j \in 1..k : log[i] = log[j]
      BY <2>1 DEF Upto
    <3>2. j \in 1..Len(log)
      BY <1>1
    <3> QED BY <1>1, <3>1, <3>2 DEF InTicket
  <2> QED BY <2>1
<1> DEFINE S == {0} \union {i \in DOMAIN log : log[i] \in Upto(k)}
<1>3. S \subseteq 0..k /\ k \in S
  <2>1. S \subseteq 0..k
    BY <1>1, <1>2
  <2>2. k # 0 => log[k] \in Upto(k)
    BY LastOfPage
  <2> QED BY <1>1, <2>1, <2>2
<1> HIDE DEF S
<1>4. (CHOOSE x \in S : \A y \in S : x >= y) = k
  <2>1. \A y \in S : y \in Nat /\ k >= y
    BY <1>1, <1>3
  <2>2. \A x \in S : (\A y \in S : x >= y) => x = k
    BY <1>3, <2>1
  <2> QED BY <1>3, <2>1, <2>2
<1>5. Max(S) = k
  BY <1>4 DEF Max
<1> QED BY <1>5 DEF S

\* The ack of the first page.
LEMMA SinceSet ==
    ASSUME Core, InTicket, Ends, Threadless, Caught, NEW s \in Sockets, ReceiveAck(s), since' # since
    PROVE  connected /\ open /\ since' \in 0..Unloaded /\ Kept(since)'
<1> DEFINE a == Head(wire[s])
<1>1. /\ wire[s] # <<>> /\ tab[s] = "open" /\ a.kind = "ack" /\ a.by # Chat /\ a.code = "ok" /\ Answers(a)
      /\ shown' = shown \union a.items /\ UNCHANGED <<log, crossed, ws, tab, srv>>
      /\ since' = Max({0} \union {i \in DOMAIN log : log[i] \in a.items})
  BY DEF ReceiveAck, Arrives, ticketVars
<1>2. a \in Items
  BY <1>1, QueueEnds DEF Core
<1>3. a.by \in Reloads /\ a.by \in Requests
  BY <1>1, <1>2 DEF Items, Item, Requests
<1>4. connected /\ open /\ ~Alone
  BY <1>1, <1>3 DEF Ends, Threadless, Answers, Alone
<1>5. a \in Paged
  BY <1>1, <1>4, QueueEnds DEF Caught
<1>6. PICK k \in 0..Len(log) : a.items = Upto(k) /\ Kept(k + 1)
  BY <1>1, <1>3, <1>5 DEF Paged, WholePages, Whole
<1> HIDE DEF a
<1>7. since' = k
  BY <1>1, <1>6, FirstEnds
<1>8. Len(log) \in Nat /\ DOMAIN log = 1..Len(log) /\ Len(log) <= MaxSends + MaxTheirs
  BY TicketIs, LogShort
<1>9. k \in Nat /\ k \in 0..Unloaded
  BY <1>8, SendsIn DEF Unloaded
<1>10. \A m \in From(k) : m \in shown' \/ m \in From(k + 1)
  <2>1. ASSUME NEW j \in 1..Len(log), j >= k PROVE j >= k + 1 \/ (j = k /\ k # 0)
    BY <1>8, <1>9, <2>1
  <2>2. k # 0 => log[k] \in shown'
    BY <1>1, <1>6, LastOfPage
  <2> QED BY <1>8, <2>1, <2>2 DEF From
<1>11. ASSUME ~crossed, NEW m \in From(k), m \in Latest(PageSize) PROVE Due(m)'
  <2>1. CASE m \in shown'
    BY <2>1 DEF Due
  <2>2. CASE m \in From(k + 1)
    <3>1. Due(m)
      BY <1>4, <1>6, <1>11, <2>2 DEF Kept
    <3>2. CASE Live
      BY <3>1, <3>2, DueAck
    <3>3. CASE ~Live
      BY <1>1, <3>3, DueDown DEF Live
    <3> QED BY <3>2, <3>3
  <2> QED BY <1>10, <1>11, <2>1, <2>2
<1>12. From(since)' = From(k) /\ Latest(PageSize)' = Latest(PageSize)
  BY <1>1, <1>7 DEF From, Latest
<1>13. Kept(since)'
  BY <1>1, <1>11, <1>12 DEF Kept
<1> QED BY <1>4, <1>7, <1>9, <1>13

\* Only an ack sets where the first page ends.
LEMMA SinceSteps ==
    ASSUME Next, since' # since PROVE \E s \in Sockets : ReceiveAck(s)
<1>1. CASE Tab
  BY <1>1 DEF Tab, Press, RetryHistory, TimerFires, TimesOut, ReceiveEvent, ReceiveClose, Closes,
     pageVars
<1>2. CASE Session
  BY <1>2 DEF Session, TokenExpires, RestRefreshes, Refreshed, RefreshFails, RefreshDone, pageVars
<1>3. CASE Link
  BY <1>3 DEF Link, Opens, Refused, Drops, Closes
<1>4. CASE Server
  BY <1>4 DEF Server, TheyWrite, Publish, Handle, Push, Heartbeat, pageVars
<1> QED BY <1>1, <1>2, <1>3, <1>4 DEF Next

LEMMA CaughtNext ==
    ASSUME Core, InTicket, Ends, Threadless, Caught, Next PROVE Caught'
<1>1. UNCHANGED open /\ connected' \in {connected, TRUE} /\ (connected' # connected => UNCHANGED wire)
  BY PageSteps
<1>2. ASSUME connected', open' PROVE wire' \in [Sockets -> Seq(Paged')]
  <2>1. CASE connected
    <3>1. wire' \in [Sockets -> Seq(Paged)]
      BY <1>1, <1>2, <2>1, WirePaged DEF Caught
    <3>2. Seq(Paged) \subseteq Seq(Paged')
      BY <1>1, <1>2, <2>1, PagedKept, SeqMonotonic
    <3> QED BY <3>1, <3>2
  <2>2. CASE ~connected
    <3>1. \A s \in Sockets : wire[s] = <<>>
      BY <2>2 DEF Ends
    <3>2. <<>> \in Seq(Paged')
      BY EmptySeq
    <3> QED BY <1>1, <1>2, <2>2, <3>1, <3>2 DEF Core
  <2> QED BY <2>1, <2>2
<1>3. /\ since' \in 0..Unloaded /\ (since' # Unloaded => connected' /\ open')
      /\ Kept(since)'
  <2>1. CASE since' # since
    <3>1. connected /\ open /\ since' \in 0..Unloaded /\ Kept(since)'
      BY <2>1, SinceSteps, SinceSet
    <3> QED BY <1>1, <3>1
  <2>2. CASE since' = since
    <3>1. since \in Nat /\ since \in 0..Unloaded
      BY UnloadedAll DEF Caught
    <3>2. CASE since # Unloaded
      <4>1. connected /\ open
        BY <3>2 DEF Caught
      <4>2. PICK k \in Nat : k = since
        BY <3>1
      <4>3. Kept(k)
        BY <4>2 DEF Caught
      <4>4. Kept(k)'
        BY <4>1, <4>3, KeptNext
      <4>5. Kept(since)'
        BY <2>2, <4>2, <4>4 DEF Kept, From
      <4> QED BY <1>1, <2>2, <3>1, <4>1, <4>5
    <3>3. CASE since = Unloaded
      <4>1. Core' /\ InTicket'
        BY NextCore, InTicketNext
      <4>2. From(Unloaded)' = {}
        <5>1. (Core /\ InTicket => From(Unloaded) = {})'
          BY UnloadedAll, PTL
        <5> QED BY <4>1, <5>1
      <4>3. From(since)' = From(Unloaded)'
        BY <2>2, <3>3 DEF From, Unloaded
      <4>4. Kept(since)'
        BY <4>2, <4>3 DEF Kept
      <4> QED BY <2>2, <3>1, <3>3, <4>4
    <3> QED BY <3>2, <3>3
  <2> QED BY <2>1, <2>2
<1> QED BY <1>2, <1>3 DEF Caught, Unloaded

LEMMA CaughtInit == Init => Caught
<1> SUFFICES ASSUME Init PROVE Caught
  OBVIOUS
<1>1. \A T : <<>> \in Seq(T)
  BY EmptySeq
<1>2. Unloaded \in Nat /\ From(since) = {}
  <2>1. log = <<>>
    BY DEF Init
  <2> QED BY <2>1, SendsIn DEF From, Unloaded
<1>3. Kept(since)
  BY <1>2 DEF Kept
<1> QED BY <1>1, <1>2, <1>3 DEF Init, Caught

\* When nothing is under way, what is due can only be shown or lost.
LEMMA CaughtQuiet == ASSUME Ends, Caught PROVE ThreadCatchesUp
<1> SUFFICES ASSUME Quiet, ~historyError, ~crossed, NEW i \in DOMAIN log, i >= since,
                    i + PageSize > Len(log)
             PROVE  log[i] \in shown \union lost
  BY DEF ThreadCatchesUp
<1>1. PICK m : m = log[i]
  OBVIOUS
<1>2. Due(m)
  BY <1>1 DEF Caught, Kept, Alone, From, Latest
<1>3. Live /\ unpublished = {} /\ ws \in Sockets
  BY DEF Quiet, Live, Ends
<1>4. ~Contains(pushes[ws], m) /\ ~Contains(wire[ws], EventOf(m))
  BY <1>3 DEF Quiet, Contains
<1>5. \A h \in Reloads : ~Fetches(h, m)
  BY DEF Fetches, Quiet, Requests
<1> QED BY <1>1, <1>2, <1>3, <1>4, <1>5 DEF Due

LEMMA CaughtAside ==
    ASSUME Core, Ends, Threadless, Caught, UNCHANGED vars
    PROVE  Ends' /\ Threadless' /\ Caught'
<1>1. UNCHANGED <<ws, tab, srv, connected, open, request, historyError, since, crossed, wire, inbox,
                  pushes, log, shown, lost, unpublished>>
  BY DEF vars, storeVars, pageVars, socketVars, ticketVars
<1>2. \A m : Due(m)' <=> Due(m)
  BY <1>1 DEF Due, Fetches, FramesNot, ItemsNot, Brings, Of, Live, Contains, EventOf
<1>3. \A k : Kept(k)' <=> Kept(k)
  <2>1. \A k : From(k)' = From(k) /\ Latest(PageSize)' = Latest(PageSize)
    BY <1>1 DEF From, Latest
  <2>2. Alone' <=> Alone
    BY <1>1 DEF Alone
  <2> QED BY <1>1, <1>2, <2>1, <2>2 DEF Kept
<1>4. Paged' = Paged
  <2>1. \A k : Upto(k)' = Upto(k)
    BY <1>1 DEF Upto
  <2>2. \A items : Whole(items)' <=> Whole(items)
    BY <1>1, <1>3, <2>1 DEF Whole
  <2> QED BY <2>2 DEF Paged, WholePages
<1>5. Kept(since)'
  BY <1>1, <1>3 DEF Caught, Kept, From
<1>6. Caught'
  BY <1>1, <1>4, <1>5 DEF Caught, Unloaded
<1> QED BY <1>1, <1>6, EndsAside DEF Threadless

\* Of the newest page a quiet thread shows all that came after its first page, or says that
\* the history could not be loaded: for any number of sockets, messages, expiries, lost
\* connections, failed refreshes and timeouts, and pages of any length.  Events that Redis
\* lost aside, and requests for the history that were given up beside another one.
THEOREM ThreadIsWhole == Spec => []ThreadCatchesUp
<1>1. Init => Ends /\ Threadless /\ Caught
  BY EndsInit, ThreadlessInit, CaughtInit
<1>2. Core /\ InTicket /\ Ends /\ Threadless /\ Caught /\ [Next]_vars => (Ends /\ Threadless /\ Caught)'
  BY EndsNext, ThreadlessNext, CaughtNext, CaughtAside
<1>3. Ends /\ Caught => ThreadCatchesUp
  BY CaughtQuiet
<1> QED BY <1>1, <1>2, <1>3, TicketHolds, PTL DEF Spec

-----------------------------------------------------------------------------
(* The chat: types. *)

\* What Core, Ends and Threadless leave of the types.
Rest ==
    /\ timer \in BOOLEAN /\ cookie \in BOOLEAN /\ refreshing \in BOOLEAN
    /\ reconnect \in {"none", "first", "last"}
    /\ written <= MaxSends /\ shown \subseteq Messages /\ lost \subseteq Messages
    /\ fresh \in [Sockets -> BOOLEAN] /\ since \in 0..Unloaded /\ crossed \in BOOLEAN

\* A set of numbers up to n has a largest one.
LEMMA Largest ==
    ASSUME NEW n \in Nat, NEW S \in SUBSET (0..n), S # {} PROVE Max(S) \in S
<1> DEFINE Above == {x..n : x \in S}
           R == StrictSubsetOrdering(0..n)
<1>1. IsFiniteSet(0..n)
  BY FS_Interval
<1>2. Above \subseteq SUBSET (0..n) /\ Above # {}
  <2>1. \A x \in 0..n : x..n \in SUBSET (0..n)
    OBVIOUS
  <2> QED BY <2>1
<1>3. IsWellFoundedOn(R, SUBSET (0..n))
  BY <1>1, FS_StrictSubsetOrderingWellFounded, FS_FiniteSubsetsOfFinite
<1>4. PICK U \in Above : \A V \in Above : <<V, U>> \notin R
  <2> HIDE DEF Above, R
  <2> QED BY <1>2, <1>3, WFMin
<1>5. PICK x \in S : U = x..n
  BY <1>4
<1>6. ASSUME NEW y \in S PROVE x >= y
  <2>1. x \in Nat /\ y \in Nat /\ x <= n /\ y <= n
    OBVIOUS
  <2>2. CASE y > x
    <3>1. y..n \subseteq x..n /\ x \in x..n /\ x \notin y..n
      BY <2>1, <2>2
    <3>2. y..n \in Above /\ y..n \in SUBSET (0..n) /\ x..n \in SUBSET (0..n)
      OBVIOUS
    <3>3. <<y..n, U>> \in R
      BY <1>5, <3>1, <3>2 DEF StrictSubsetOrdering
    <3> QED BY <1>4, <3>2, <3>3
  <2> QED BY <2>1, <2>2
<1>7. \E z \in S : \A y \in S : z >= y
  BY <1>6
<1> QED BY <1>7 DEF Max

LEMMA RestCloses ==
    ASSUME Rest, NEW s \in Sockets, NEW auth \in BOOLEAN, Closes(s, auth) PROVE Rest'
<1>1. /\ UNCHANGED <<cookie, written, shown, lost, fresh, since, crossed>>
      /\ timer' = (timer \/ (s = ws /\ ~auth))
      /\ refreshing' \in BOOLEAN /\ reconnect' \in {"none", "first", "last"}
  BY DEF Closes, Reauthenticates, ticketVars, Rest
<1> QED BY <1>1 DEF Rest, Unloaded

LEMMA RestRefresh ==
    ASSUME Rest, NEW ok \in BOOLEAN, RefreshDone(ok) PROVE Rest'
<1>1. /\ UNCHANGED <<written, shown, lost, since, crossed>> /\ timer' \in BOOLEAN /\ refreshing' = FALSE
      /\ cookie' \in BOOLEAN /\ reconnect' = "none"
      /\ fresh' = fresh \/ fresh' = [fresh EXCEPT ![Opening] = cookie']
  BY DEF RefreshDone, Resumes, pageVars, ticketVars, Rest
<1> QED BY <1>1 DEF Rest, Unloaded

LEMMA RestAck ==
    ASSUME Core, InTicket, Rest, NEW s \in Sockets, ReceiveAck(s) PROVE Rest'
<1> DEFINE a == Head(wire[s])
<1>1. /\ UNCHANGED <<timer, cookie, fresh, lost, crossed>>
      /\ refreshing' \in BOOLEAN /\ reconnect' \in {"none", "first", "last"}
  BY DEF ReceiveAck, Reauthenticates, ticketVars, Rest
<1>2. a \in Items /\ a.kind = "ack"
  BY AckMoves
<1>3. shown' \subseteq Messages
  BY <1>2 DEF ReceiveAck, Items, Item, Rest
<1>4. written' <= MaxSends
  <2>1. written' = written \/ (Pending(a.id) /\ written' = written + 1)
    BY AckMoves
  <2> QED BY <2>1, SendsIn DEF Rest, Pending, Core
<1>5. since' \in 0..Unloaded
  <2> DEFINE S == {0} \union {i \in DOMAIN log : log[i] \in a.items}
  <2>1. since' = since \/ since' = Max(S)
    BY DEF ReceiveAck
  <2>2. /\ Len(log) \in Nat /\ DOMAIN log = 1..Len(log) /\ Len(log) <= MaxSends + MaxTheirs
        /\ Unloaded \in Nat /\ Len(log) <= Unloaded
    BY TicketIs, LogShort, SendsIn DEF Unloaded
  <2>3. S \subseteq 0..Unloaded /\ S # {}
    BY <2>2
  <2> HIDE DEF S
  <2>4. Max(S) \in S
    BY <2>2, <2>3, Largest
  <2> QED BY <2>1, <2>3, <2>4 DEF Rest
<1> QED BY <1>1, <1>3, <1>4, <1>5 DEF Rest, Unloaded

LEMMA RestNext == ASSUME Core, InTicket, Rest, Next PROVE Rest'
<1>1. ASSUME UNCHANGED <<timer, cookie, refreshing, reconnect, written, shown, lost, fresh, since>>,
             crossed' \in BOOLEAN
      PROVE  Rest'
  BY <1>1 DEF Rest, Unloaded
<1>2. CASE Tab
  <2>1. CASE Press \/ RetryHistory
    BY <1>1, <2>1 DEF Press, RetryHistory, sessionVars, pageVars, ticketVars, Rest
  <2>2. CASE TimerFires
    BY <2>2 DEF TimerFires, sessionVars, pageVars, ticketVars, Rest, Unloaded
  <2>3. ASSUME NEW r \in Requests, TimesOut(r) PROVE Rest'
    BY <1>1, <2>3 DEF TimesOut, sessionVars, socketVars, ticketVars, Rest
  <2>4. ASSUME NEW s \in Sockets, ReceiveEvent(s) PROVE Rest'
    <3>1. UNCHANGED <<timer, cookie, refreshing, reconnect, written, lost, fresh, since, crossed>>
      BY <2>4 DEF ReceiveEvent, storeVars, sessionVars, ticketVars
    <3>2. Head(wire[s]) \in Items /\ Head(wire[s]).kind = "event"
      BY <2>4, QueueEnds DEF ReceiveEvent, Arrives, Core
    <3>3. Head(wire[s]).msg \in Messages
      BY <3>2 DEF Items, Item
    <3>4. shown' \subseteq Messages
      BY <2>4, <3>3 DEF ReceiveEvent, Rest
    <3> QED BY <3>1, <3>4 DEF Rest, Unloaded
  <2> QED BY <1>2, <2>1, <2>2, <2>3, <2>4, RestAck, RestCloses DEF Tab, ReceiveClose
<1>3. CASE Session
  <2>1. CASE TokenExpires
    BY <2>1 DEF TokenExpires, storeVars, pageVars, ticketVars, Rest, Unloaded
  <2>2. CASE RestRefreshes
    BY <2>2 DEF RestRefreshes, storeVars, pageVars, socketVars, ticketVars, Rest, Unloaded
  <2> QED BY <1>3, <2>1, <2>2, RestRefresh DEF Session, Refreshed, RefreshFails
<1>4. CASE Link
  <2>1. ASSUME NEW s \in Sockets, Opens(s) PROVE Rest'
    BY <1>1, <2>1 DEF Opens, Reconnected, sessionVars, ticketVars, Rest
  <2> QED BY <1>4, <2>1, RestCloses DEF Link, Refused, Drops
<1>5. CASE Server
  <2>1. ASSUME NEW m \in Messages, Publish(m) PROVE Rest'
    BY <2>1 DEF Publish, storeVars, sessionVars, pageVars, Rest, Unloaded
  <2>2. ASSUME TheyWrite \/ \E s \in Sockets : Handle(s) \/ Push(s) \/ Heartbeat(s) PROVE Rest'
    BY <1>1, <2>2 DEF TheyWrite, Handle, Push, Heartbeat, storeVars, sessionVars, pageVars,
       socketVars, ticketVars, Rest
  <2> QED BY <1>5, <2>1, <2>2 DEF Server
<1> QED BY <1>2, <1>3, <1>4, <1>5 DEF Next

LEMMA RestInit == Init => Rest
<1> SUFFICES ASSUME Init PROVE Rest
  OBVIOUS
<1>1. fresh \in [Sockets -> BOOLEAN]
  BY DEF Init
<1>2. Unloaded \in Nat
  BY SendsIn DEF Unloaded
<1>3. /\ timer = FALSE /\ cookie = TRUE /\ refreshing = FALSE /\ reconnect = "none"
      /\ written = 0 /\ shown = {} /\ lost = {} /\ since = Unloaded /\ crossed = FALSE
  BY DEF Init
<1>4. 0 <= MaxSends /\ Unloaded \in 0..Unloaded
  BY <1>2, SendsIn
<1> QED BY <1>1, <1>3, <1>4 DEF Rest

LEMMA TypesFollow == ASSUME Core, Ends, Threadless, Rest PROVE TypeOK
<1>1. Frames \subseteq Frame /\ Items \subseteq Item
  BY DEF Frames, Items
<1>2. \A s \in Sockets : inbox[s] \in Seq(Frame) /\ wire[s] \in Seq(Item)
  BY <1>1, SeqMonotonic DEF Core
<1>3. inbox \in [Sockets -> Seq(Frame)] /\ wire \in [Sockets -> Seq(Item)]
  BY <1>2 DEF Core
<1>4. written \in 0..MaxSends
  BY SendsIn DEF Core, Rest
<1> QED BY <1>3, <1>4 DEF TypeOK, Core, Ends, Threadless, Rest, Req

\* The chat's variables keep their types: every frame, ack and page is of messages that can
\* be written, nothing is answered beyond them, and the first page ends in the ticket.
THEOREM ChatTypeCorrect == Spec => []TypeOK
<1>1. Init => Ends /\ Threadless /\ Rest
  BY EndsInit, ThreadlessInit, RestInit
<1>2. Core /\ InTicket /\ Ends /\ Threadless /\ Rest /\ [Next]_vars => (Ends /\ Threadless /\ Rest)'
  <2>1. ASSUME Ends, Threadless, Rest, UNCHANGED vars PROVE Ends' /\ Threadless' /\ Rest'
    BY <2>1, EndsAside DEF vars, storeVars, sessionVars, pageVars, socketVars, ticketVars,
       Threadless, Rest, Unloaded
  <2> QED BY <2>1, EndsNext, ThreadlessNext, RestNext
<1>3. Core /\ Ends /\ Threadless /\ Rest => TypeOK
  BY TypesFollow
<1> QED BY <1>1, <1>2, <1>3, TicketHolds, PTL DEF Spec

-----------------------------------------------------------------------------
(* The three side by side. *)

\* Sessions goes on as its parts do, and none breaks the others' promises.
THEOREM PartsKept == SessionsSpec => AdminsSpec /\ PushSpec /\ Init /\ [][Next]_vars
<1>1. SessionsInit => AdminsInit /\ PushInit /\ Init
  BY DEF SessionsInit
<1>2. [SessionsNext]_<<adminVars, pushVars, vars>>
        => [AdminsNext]_adminVars /\ [PushNext]_pushVars /\ [Next]_vars
  BY DEF SessionsNext
<1> QED BY <1>1, <1>2, PTL DEF SessionsSpec, AdminsSpec, PushSpec
=================================================================================
