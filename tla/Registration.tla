------------------------------ MODULE Registration ------------------------------
(***************************************************************************)
(* How a phone number becomes an account.  An app registration lives in    *)
(* the cache under a token until its code is confirmed; only then is the   *)
(* user row created, or the one an admin added claimed.  The website still *)
(* registers added phones directly, logins and imports give older rows     *)
(* their free community, and admins add, import, edit, suspend and revive. *)
(*                                                                         *)
(* A cached record is read, judged and written back by calls that do not   *)
(* know of each other, so every get and every set is an action of its own, *)
(* and so is the queueing of a code after its record was set.  A           *)
(* transaction is one action.  A refused call is one that breaks off.      *)
(***************************************************************************)
EXTENDS Naturals, FiniteSets

CONSTANTS
    Phones, Emails,
    Subs,         \* logins of Google or Apple
    Tokens,       \* app registrations
    Calls,        \* requests under way
    MaxTries,     \* wrong codes before a record is locked (5 in the code)
    MaxCodes,     \* bound: codes made for all registrations
    MaxBeside,    \* bound: what others begin beside the registrations in the app
    None, Web     \* nothing; the password was set on the website

ASSUME TriesAssumption == MaxTries \in Nat /\ MaxCodes \in Nat /\ MaxBeside \in Nat
ASSUME DistinctAssumption ==
    None # Web /\ None \notin Tokens \union Phones \union Emails \union Subs /\ Web \notin Tokens

VARIABLES
    user,       \* per phone: its row, who set the password, its email, and the subscription rows
                \* that ensureFreeSubscription made for it
    away,       \* phones whose row is suspended or deleted
    identity,   \* the phone whose account a Google or Apple login is linked to
    form,       \* what was filled in for a token
    pending,    \* the cached record of a token: the code it accepts (0: no record), wrong tries
    stored,     \* the last code stored for a token
    sent,       \* the last code queued for it (0: none, and the app does not have the token yet)
    call,       \* the requests
    \* History, which no guard reads:
    muddled,    \* tokens whose last code was stored in the middle of another call for it
    unsent,     \* tokens with a call that broke off between storing a code and queueing it
    edited,     \* accounts made in the app whose email an admin or an import wrote since
    beside      \* what others began

account == <<user, away, identity, edited>>
codes == <<stored, sent, muddled, unsent>>
cache == <<form, pending, codes>>
vars == <<account, cache, call, beside>>

Users == [row : BOOLEAN, by : Tokens \union {None, Web}, email : Emails \union {None},
          free : Nat]
Forms == [phone : Phones \union {None}, email : Emails \union {None}, sub : Subs \union {None},
          existing : BOOLEAN]
Records == [code : Nat, tries : 0 .. MaxTries]
Requests == [at : {"idle", "wrong", "right", "locked", "claim", "store", "send", "hash", "grant",
                    "import", "revive"},
             tok : Tokens \union {None}, rec : Records,
             phone : Phones \union {None}, email : Emails \union {None}]

TypeOK ==
    /\ user \in [Phones -> Users]
    /\ identity \in [Subs -> Phones \union {None}]
    /\ form \in [Tokens -> Forms]
    /\ pending \in [Tokens -> Records]
    /\ call \in [Calls -> Requests]
    /\ stored \in [Tokens -> Nat] /\ sent \in [Tokens -> Nat]
    /\ muddled \subseteq Tokens /\ unsent \subseteq Tokens
    /\ away \subseteq Phones /\ edited \subseteq Phones /\ beside \in 0 .. MaxBeside

NoUser   == [row |-> FALSE, by |-> None, email |-> None, free |-> 0]
NoForm   == [phone |-> None, email |-> None, sub |-> None, existing |-> FALSE]
NoRecord == [code |-> 0, tries |-> 0]
NoCall   == [at |-> "idle", tok |-> None, rec |-> NoRecord, phone |-> None, email |-> None]

\* A phone is unknown, or was added before there was a free community.
Init ==
    /\ user \in [Phones -> {NoUser, [NoUser EXCEPT !.row = TRUE]}]
    /\ identity = [s \in Subs |-> None]
    /\ form = [t \in Tokens |-> NoForm] /\ pending = [t \in Tokens |-> NoRecord]
    /\ call = [c \in Calls |-> NoCall]
    /\ stored = [t \in Tokens |-> 0] /\ sent = [t \in Tokens |-> 0]
    /\ away = {} /\ muddled = {} /\ unsent = {} /\ edited = {} /\ beside = 0

-----------------------------------------------------------------------------
(* Rows and records. *)

Call(c, to) == call' = [call EXCEPT ![c] = to]

EmailTaken(e, p) == \E q \in Phones \ {p} : user[q].email = e

\* ensureFreeSubscription inside a transaction; its fault leaves it to the next login.
LeftToLogin(n) == n
WithFree(n) == IF n = 0 THEN 1 ELSE n

\* The record that storePendingRegistration writes for code n; its fault keeps the code it had.
KeepsCode(r, n) == [code |-> IF r.code = 0 THEN n ELSE r.code, tries |-> 0]
Fresh(r, n)     == [code |-> n, tries |-> 0]

\* The calls that hold a code of a token: they will write their copy of the record back, or
\* queue the code they stored.
Busy(t) == {c \in Calls : call[c].tok = t /\ call[c].at \in {"wrong", "send"}}

\* storePendingRegistration sets the record, and goes on to queue the code.
Store(c, t, r) ==
    LET n == stored[t] + 1 IN
    /\ Cardinality({x \in Tokens \X (1 .. MaxCodes) : x[2] <= stored[x[1]]}) < MaxCodes
    /\ stored' = [stored EXCEPT ![t] = n]
    /\ pending' = [pending EXCEPT ![t] = Fresh(r, n)]
    /\ Call(c, [NoCall EXCEPT !.at = "send", !.tok = t, !.rec = [code |-> n, tries |-> 0]])
    /\ muddled' = IF Busy(t) = {} THEN muddled \ {t} ELSE muddled \union {t}
    /\ unsent' = unsent \ {t}

-----------------------------------------------------------------------------
(* Registration in the app. *)

\* register and startPhone: the phone is free or added, the email is nobody else's.
Register(c, t, p, e, s) ==
    /\ call[c].at = "idle" /\ form[t] = NoForm
    /\ user[p].row => user[p].by = None /\ p \notin away
    /\ ~EmailTaken(e, p)
    /\ form' = [form EXCEPT ![t] = [phone |-> p, email |-> e, sub |-> s, existing |-> user[p].row]]
    /\ Store(c, t, NoRecord)
    /\ UNCHANGED <<account, sent>>

\* The cooldown and the job that carries the code; only now does register answer with the token.
\* A queue that refuses is a call that breaks off: the record stays as it was set.
Sends(c) ==
    /\ call[c].at = "send"
    /\ sent' = [sent EXCEPT ![call[c].tok] = call[c].rec.code]
    /\ Call(c, NoCall)
    /\ UNCHANGED <<account, form, pending, stored, muddled, unsent>>

Locked(r) == r.tries >= MaxTries

\* confirmOtp reads the record and judges the code that was typed.
VerifyReads(c, t) ==
    /\ call[c].at = "idle" /\ pending[t].code # 0 /\ sent[t] # 0
    /\ \E next \in IF Locked(pending[t]) THEN {"locked"} ELSE {"right", "wrong"} :
          Call(c, [NoCall EXCEPT !.at = next, !.tok = t,
                                 !.rec = IF next = "wrong" THEN pending[t] ELSE NoRecord])
    /\ UNCHANGED <<account, cache>>

\* A wrong code: the copy goes back with one more try.
VerifyWrong(c) ==
    /\ call[c].at = "wrong"
    /\ pending' = [pending EXCEPT ![call[c].tok] = [call[c].rec EXCEPT !.tries = @ + 1]]
    /\ Call(c, NoCall)
    /\ UNCHANGED <<account, form, codes>>

\* A locked record goes, and so does one whose code was right, whatever becomes of the claim.
VerifyDrops(c) ==
    /\ call[c].at \in {"right", "locked"}
    /\ pending' = [pending EXCEPT ![call[c].tok] = NoRecord]
    /\ Call(c, IF call[c].at = "right" THEN [call[c] EXCEPT !.at = "claim"] ELSE NoCall)
    /\ UNCHANGED <<account, form, codes>>

\* An added phone is claimed while it is active and has no password, a new one while it has no
\* row; its fault claims an added phone by its id alone.
ById(f)      == IF f.existing THEN f.phone \notin away ELSE ~user[f.phone].row
Unclaimed(f) == IF f.existing THEN user[f.phone].by = None /\ f.phone \notin away ELSE ~user[f.phone].row

\* linkIdentity meets the unique index on the login; its fault lets the claim go on without it.
GoesOn(f)    == TRUE
Linkable(f)  == f.sub = None \/ identity[f.sub] = None

\* The row of a confirmed registration.
OwnedBy(u, t, e) == [row |-> TRUE, by |-> t, email |-> e, free |-> WithFree(u.free)]

\* finalizeRegistration: the claim, the free community and the link in one transaction, or nothing.
Claims(c) ==
    LET t == call[c].tok  f == form[t] IN
    /\ call[c].at = "claim"
    /\ IF Unclaimed(f) /\ ~EmailTaken(f.email, f.phone) /\ Linkable(f)
       THEN /\ user' = [user EXCEPT ![f.phone] = OwnedBy(@, t, f.email)]
            /\ identity' = [s \in Subs |-> IF s = f.sub /\ identity[s] = None THEN f.phone ELSE identity[s]]
            /\ edited' = edited \ {f.phone} /\ UNCHANGED away
       ELSE UNCHANGED account
    /\ Call(c, NoCall)
    /\ UNCHANGED cache

\* resendOtp reads the record and the cooldown, and later writes the record anew.  The cooldown
\* has run out whenever it is read: until then resending is refused and nothing happens.
ResendReads(c, t) ==
    /\ call[c].at = "idle" /\ pending[t].code # 0 /\ sent[t] # 0
    /\ Call(c, [NoCall EXCEPT !.at = "store", !.tok = t])
    /\ UNCHANGED <<account, cache>>

ResendStores(c) ==
    /\ call[c].at = "store"
    /\ Store(c, call[c].tok, pending[call[c].tok])
    /\ UNCHANGED <<account, form, sent>>

\* The cache forgets a record.
Expires(t) ==
    /\ pending[t].code # 0 /\ pending' = [pending EXCEPT ![t] = NoRecord]
    /\ UNCHANGED <<account, form, codes, call>>

-----------------------------------------------------------------------------
(* The others. *)

\* register on the website: the checks, the hashing of the password, an update by id.
WebReads(c, p, e) ==
    /\ call[c].at = "idle" /\ user[p].row /\ user[p].by = None /\ p \notin away
    /\ ~EmailTaken(e, p)
    /\ Call(c, [NoCall EXCEPT !.at = "hash", !.phone = p, !.email = e])
    /\ UNCHANGED <<account, cache>>

WebWrites(c) ==
    LET p == call[c].phone  e == call[c].email IN
    /\ call[c].at = "hash" /\ ~EmailTaken(e, p)
    /\ user' = [user EXCEPT ![p].by = Web, ![p].email = e]
    /\ edited' = edited \ {p}
    /\ Call(c, NoCall)
    /\ UNCHANGED <<away, identity, cache>>

\* ensureFreeSubscription outside a transaction, by a login or by an import of a row that is
\* there: it looks for the free community and then creates it.
FindsNoFree(c, p) ==
    /\ call[c].at = "idle" /\ user[p].row /\ user[p].free = 0
    /\ Call(c, [NoCall EXCEPT !.at = "grant", !.phone = p])
    /\ UNCHANGED <<account, cache>>

GrantsFree(c) ==
    /\ call[c].at = "grant"
    /\ user' = [user EXCEPT ![call[c].phone].free = @ + 1]
    /\ Call(c, NoCall)
    /\ UNCHANGED <<away, identity, edited, cache>>

\* linkToAccount, and link after the password: the index lets one account have the login.
Links(s, p) ==
    /\ identity[s] = None /\ user[p].by # None /\ p \notin away
    /\ identity' = [identity EXCEPT ![s] = p]
    /\ UNCHANGED <<user, away, edited, cache, call>>

-----------------------------------------------------------------------------
(* Admins. *)

\* An admin or an import writes an account's email, by the id of its row.
Edited(p) == IF user[p].by \in Tokens THEN edited \union {p} ELSE edited

\* addMember, and an import of a phone that has no row, with or without an email.
AdminAdds(p, e) ==
    /\ ~user[p].row
    /\ e # None => ~EmailTaken(e, p)
    /\ user' = [user EXCEPT ![p] = [NoUser EXCEPT !.row = TRUE, !.email = e, !.free = 1]]
    /\ UNCHANGED <<away, identity, edited, cache, call>>

\* updateMember: any member's email, registered or not.
AdminEdits(p, e) ==
    /\ user[p].row
    /\ e # None => ~EmailTaken(e, p)
    /\ user' = [user EXCEPT ![p].email = e]
    /\ edited' = Edited(p)
    /\ UNCHANGED <<away, identity, cache, call>>

\* importUsers and importUsersFromJSON, a row of a member who holds the community: the email is
\* written if the member was not registered when the row was read ...
ImportReads(c, p, e) ==
    /\ call[c].at = "idle" /\ user[p].row /\ user[p].by = None
    /\ Call(c, [NoCall EXCEPT !.at = "import", !.phone = p, !.email = e])
    /\ UNCHANGED <<account, cache>>

\* ... also if a registration was confirmed meanwhile.
ImportWrites(c) ==
    LET p == call[c].phone  e == call[c].email IN
    /\ call[c].at = "import"
    /\ e # None => ~EmailTaken(e, p)
    /\ user' = [user EXCEPT ![p].email = e]
    /\ edited' = Edited(p)
    /\ Call(c, NoCall)
    /\ UNCHANGED <<away, identity, cache>>

\* reviveMember, for reviveAndAddMember and both imports: the row is read, then brought back
\* in a transaction with the free community, registered or not.
ReviveReads(c, p, e) ==
    /\ call[c].at = "idle" /\ p \in away
    /\ Call(c, [NoCall EXCEPT !.at = "revive", !.phone = p, !.email = e])
    /\ UNCHANGED <<account, cache>>

Revives(c) ==
    LET p == call[c].phone  e == call[c].email IN
    /\ call[c].at = "revive"
    /\ e # None => ~EmailTaken(e, p)
    /\ user' = [user EXCEPT ![p].email = e, ![p].free = WithFree(@)]
    /\ away' = away \ {p} /\ edited' = Edited(p)
    /\ Call(c, NoCall)
    /\ UNCHANGED <<identity, cache>>

\* suspendMember and deleteMember; revokeSuspension.
Suspends(p) ==
    /\ user[p].row /\ p \notin away
    /\ away' = away \union {p}
    /\ UNCHANGED <<user, identity, edited, cache, call>>

Reinstates(p) ==
    /\ p \in away /\ away' = away \ {p}
    /\ UNCHANGED <<user, identity, edited, cache, call>>

\* A request breaks off: a refusal, a lost connection, a queue or a process that stops.
Dies(c) ==
    /\ call[c].at # "idle" /\ Call(c, NoCall)
    /\ unsent' = IF call[c].at = "send" THEN unsent \union {call[c].tok} ELSE unsent
    /\ UNCHANGED <<account, form, pending, stored, sent, muddled>>

-----------------------------------------------------------------------------
Blank == Emails \union {None}

AppStep(c) ==
    \/ \E t \in Tokens : VerifyReads(c, t) \/ ResendReads(c, t)
    \/ \E t \in Tokens, p \in Phones, e \in Emails, s \in Subs \union {None} : Register(c, t, p, e, s)
    \/ Sends(c) \/ VerifyWrong(c) \/ VerifyDrops(c) \/ Claims(c) \/ ResendStores(c)

\* Others' calls go on.
LaterStep(c) == GrantsFree(c) \/ WebWrites(c) \/ ImportWrites(c) \/ Revives(c)

\* What others begin, or do at once.
Begins(c, p) ==
    \/ FindsNoFree(c, p)
    \/ \E e \in Emails : WebReads(c, p, e)
    \/ \E e \in Blank : ImportReads(c, p, e) \/ ReviveReads(c, p, e)

PhoneStep(p) ==
    \/ \E e \in Blank : AdminAdds(p, e) \/ AdminEdits(p, e)
    \/ Suspends(p) \/ Reinstates(p)
    \/ \E s \in Subs : Links(s, p)

CallStep(c) == AppStep(c) \/ LaterStep(c) \/ Dies(c)

Next ==
    \/ /\ (\E c \in Calls : CallStep(c)) \/ (\E t \in Tokens : Expires(t))
       /\ UNCHANGED beside
    \/ /\ \E p \in Phones : PhoneStep(p) \/ \E c \in Calls : Begins(c, p)
       /\ beside < MaxBeside /\ beside' = beside + 1

Spec == Init /\ [][Next]_vars

-----------------------------------------------------------------------------
(* Properties. *)

\* "Whichever one is verified first wins": no second confirmation, of another registration or of
\* a record that a late answer wrote back, takes an account over.  Only a registration on the
\* website can, because it updates the row by its id.
FirstClaimStays ==
    [][\A p \in Phones : user[p].by # None => user'[p].by \in {user[p].by, Web}]_vars

\* An account made in the app has all that its registration promised: the login it was made
\* with, the email that was given unless an admin or an import wrote another since, and the free
\* community, by one row if the phone was new.  (An older row can get two: a login or an import
\* that found none creates one beside the claim's.)
ClaimIsWhole ==
    \A p \in Phones : user[p].by \in Tokens =>
        LET f == form[user[p].by] IN
        /\ f.phone = p
        /\ p \notin edited => user[p].email = f.email
        /\ f.sub # None => identity[f.sub] = p
        /\ user[p].free >= 1 /\ (~f.existing => user[p].free = 1)

\* The record accepts the code that was stored last, and that code is the last one sent, on its
\* way, or one whose call broke off before it was queued.  Not so for a code that was stored while
\* a wrong answer held an older copy of the record, which it writes back, or while another
\* code was stored and not queued yet: those go out in any order.
CodeIsCurrent ==
    \A t \in Tokens \ muddled : pending[t].code # 0 =>
        /\ pending[t].code = stored[t]
        /\ sent[t] = stored[t] \/ t \in unsent \/ \E c \in Busy(t) : call[c].at = "send"
=============================================================================
