------------------------------ MODULE AdminAccounts ------------------------------
(***************************************************************************)
(* The administrators of the website: how they are removed without losing  *)
(* the last super admin, and how a password reset ends their sessions.     *)
(*                                                                         *)
(* A session is a key of the cache, named by the hash of a refresh token.  *)
(* The token holds its admin and the second it was made in, and nothing    *)
(* else, so two logins of one second share it.  No index leads from an     *)
(* admin to the keys: a reset walks through all of them, page by page,     *)
(* while others log in and out.                                            *)
(***************************************************************************)
EXTENDS Naturals

CONSTANTS
    Admins, Supers,     \* the administrators, and those that manage the others
    Calls,              \* requests under way
    Nobody,             \* no admin
    LastSecond,         \* bound of the clock
    MaxResets           \* bound: password resets of one admin

ASSUME SupersAssumption == Supers \subseteq Admins /\ Supers # {} /\ Nobody \notin Admins
ASSUME BoundsAssumption == LastSecond \in Nat /\ MaxResets \in Nat

VARIABLES
    gone,       \* the admins with a deletedAt
    stored,     \* the refresh tokens the cache holds
    now,        \* the second
    resets,     \* passwords set by a reset, per admin
    call,       \* the requests
    born,       \* history: the resets of its admin before a token was stored
    swept       \* history: the last reset of an admin that walked through all the keys

adminVars == <<gone, stored, now, resets, call, born, swept>>

Refresh == Admins \X (0 .. LastSecond)

AdminCalls == [at : {"idle", "delete", "counted", "login", "hash", "sweep"},
             on : Admins \union {Nobody}, reset : 0 .. MaxResets, todo : SUBSET Refresh]

AdminsTypeOK ==
    /\ gone \subseteq Admins
    /\ stored \subseteq Refresh
    /\ now \in 0 .. LastSecond
    /\ resets \in [Admins -> 0 .. MaxResets]
    /\ call \in [Calls -> AdminCalls]
    /\ born \in [Refresh -> 0 .. MaxResets]
    /\ swept \in [Admins -> 0 .. MaxResets]

NoCall == [at |-> "idle", on |-> Nobody, reset |-> 0, todo |-> {}]

AdminsInit ==
    /\ gone = {} /\ stored = {} /\ now = 0
    /\ resets = [a \in Admins |-> 0]
    /\ call = [c \in Calls |-> NoCall]
    /\ born = [t \in Refresh |-> 0] /\ swept = [a \in Admins |-> 0]

Call(c, to) == call' = [call EXCEPT ![c] = to]

-----------------------------------------------------------------------------
(* deleteAdmin. *)

\* A super admin names another admin; both are read before the transaction.  Nobody asks whether
\* the one who deletes is still there: an access token outlives its admin for a while.
DeleteReads(c, by, a) ==
    /\ call[c].at = "idle" /\ by \in Supers /\ a \in Admins \ gone /\ a # by
    /\ Call(c, [NoCall EXCEPT !.at = "delete", !.on = a])
    /\ UNCHANGED <<gone, stored, now, resets, born, swept>>

\* The advisory lock of super admin deletions, held to the end of the transaction; its fault, no lock.
NoLock   == TRUE
LockFree == \A d \in Calls : ~(call[d].at = "counted" /\ call[d].on \in Supers)

\* The count under the lock.  Removing the last super admin is refused; an ordinary admin is not counted.
DeleteCounts(c) ==
    LET a == call[c].on IN
    /\ call[c].at = "delete"
    /\ a \in Supers => LockFree
    /\ Call(c, IF a \in Supers /\ Supers \ (gone \union {a}) = {} THEN NoCall
               ELSE [call[c] EXCEPT !.at = "counted"])
    /\ UNCHANGED <<gone, stored, now, resets, born, swept>>

DeleteCommits(c) ==
    /\ call[c].at = "counted"
    /\ gone' = gone \union {call[c].on}
    /\ Call(c, NoCall)
    /\ UNCHANGED <<stored, now, resets, born, swept>>

-----------------------------------------------------------------------------
(* Sessions. *)

\* login reads the user and compares the password; the token is made and stored later.
LoginCompares(c, a) ==
    /\ call[c].at = "idle" /\ a \notin gone
    /\ Call(c, [NoCall EXCEPT !.at = "login", !.on = a])
    /\ UNCHANGED <<gone, stored, now, resets, born, swept>>

LoginStores(c) ==
    LET a == call[c].on  t == <<a, now>> IN
    /\ call[c].at = "login"
    /\ stored' = stored \union {t}
    /\ born' = [born EXCEPT ![t] = resets[a]]
    /\ Call(c, NoCall)
    /\ UNCHANGED <<gone, now, resets, swept>>

\* Keys go; a walk through the keys need not find one that was gone in between.
Forget(ts, c, to) ==
    /\ stored' = stored \ ts
    /\ call' = [d \in Calls |-> IF d = c THEN to ELSE [call[d] EXCEPT !.todo = @ \ ts]]

Logout(t) ==
    /\ t \in stored /\ Forget({t}, Nobody, NoCall)
    /\ UNCHANGED <<gone, now, resets, born, swept>>

-----------------------------------------------------------------------------
(* resetPassword and revokeRefreshTokensFor. *)

\* The cypher of a confirmed code has been presented and the admin is still there.
ResetReads(c, a) ==
    /\ call[c].at = "idle" /\ a \notin gone
    /\ Call(c, [NoCall EXCEPT !.at = "hash", !.on = a])
    /\ UNCHANGED <<gone, stored, now, resets, born, swept>>

\* The new password is set; the walk begins with the keys there are.
ResetWrites(c) ==
    LET a == call[c].on IN
    /\ call[c].at = "hash" /\ resets[a] < MaxResets
    /\ resets' = [resets EXCEPT ![a] = @ + 1]
    /\ Call(c, [call[c] EXCEPT !.at = "sweep", !.reset = resets[a] + 1, !.todo = stored])
    /\ UNCHANGED <<gone, stored, now, born, swept>>

\* A page of keys: those whose value is the admin's id are deleted.
Mine(a, page) == {t \in page : t[1] = a}

SweepPage(c) ==
    /\ call[c].at = "sweep"
    /\ \E page \in SUBSET stored \ {{}} :
          Forget(Mine(call[c].on, page), c, [call[c] EXCEPT !.todo = @ \ page])
    /\ UNCHANGED <<gone, now, resets, born, swept>>

\* The cursor is back at its start once every key that was there throughout was returned; its
\* fault stops after any page.
AnyPage(c)  == TRUE
CameBack(c) == call[c].todo = {}

SweepEnds(c) ==
    LET a == call[c].on IN
    /\ call[c].at = "sweep" /\ CameBack(c)
    /\ swept' = [swept EXCEPT ![a] = IF call[c].reset > @ THEN call[c].reset ELSE @]
    /\ Call(c, NoCall)
    /\ UNCHANGED <<gone, stored, now, resets, born>>

\* A request breaks off; a failed walk is only logged.
Dies(c) ==
    /\ call[c].at # "idle" /\ Call(c, NoCall)
    /\ UNCHANGED <<gone, stored, now, resets, born, swept>>

Tick ==
    /\ now < LastSecond /\ now' = now + 1
    /\ UNCHANGED <<gone, stored, resets, call, born, swept>>

-----------------------------------------------------------------------------
CallStep(c) ==
    \/ \E a \in Admins : LoginCompares(c, a) \/ ResetReads(c, a) \/ \E by \in Supers : DeleteReads(c, by, a)
    \/ DeleteCounts(c) \/ DeleteCommits(c) \/ LoginStores(c)
    \/ ResetWrites(c) \/ SweepPage(c) \/ SweepEnds(c) \/ Dies(c)

AdminsNext == Tick \/ (\E c \in Calls : CallStep(c)) \/ (\E t \in Refresh : Logout(t))

AdminsSpec == AdminsInit /\ [][AdminsNext]_adminVars

-----------------------------------------------------------------------------
(* Properties. *)

\* "There must always be at least one super admin", whoever deletes whom at the same moment.
SuperAdminRemains == Supers \ gone # {}

\* After a reset has walked through the keys, every session left to the admin was stored after
\* the password was set: also with other resets, logins and logouts in the middle of the walk,
\* and with a key that is deleted and stored again.
NoOlderSession == \A t \in stored : born[t] >= swept[t[1]]
=============================================================================
