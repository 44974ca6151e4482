-------------------------- MODULE RegistrationProofs --------------------------
(***************************************************************************)
(* Theorems about Registration, for any phones, tokens, logins, codes and  *)
(* concurrent calls.                                                       *)
(***************************************************************************)
EXTENDS Registration, TLAPS

-----------------------------------------------------------------------------
(* Types, with what the cached record and the calls say of a form. *)

\* Before a token is registered it has no code, no record and no call.
Unused(t) == stored[t] = 0 /\ pending[t].code = 0 /\ \A c \in Calls : call[c].tok # t

FormsFirst == \A t \in Tokens : form[t] = NoForm \/ /\ form[t].phone \in Phones
                                                    /\ form[t].email \in Emails
UnusedFirst == \A t \in Tokens : form[t] = NoForm => Unused(t)

OfToken == {"wrong", "right", "locked", "claim", "store", "send"}
OfPhone == {"hash", "grant", "import", "revive"}

\* What a call has read.
WellRead(r) == /\ r.at \in OfToken => r.tok \in Tokens
               /\ r.at = "wrong" => r.rec.tries < MaxTries
               /\ r.at \in OfPhone => r.phone \in Phones
               /\ r.at = "hash" => r.email \in Emails

Positions == \A c \in Calls : WellRead(call[c])

Shape == TypeOK /\ FormsFirst /\ UnusedFirst /\ Positions

\* The count of what others began stays within its bound, whatever a step does besides.
Counted == beside' \in 0 .. MaxBeside

LEMMA ZeroesTyped ==
    /\ NoUser \in Users /\ NoForm \in Forms /\ NoRecord \in Records /\ NoCall \in Requests
    /\ WellRead(NoCall) /\ 0 \in 0 .. MaxTries
<1>1. 0 \in 0 .. MaxTries
  BY TriesAssumption
<1>2. NoRecord \in Records
  BY <1>1 DEF NoRecord, Records
<1>3. NoUser \in Users /\ NoForm \in Forms
  BY DEF NoUser, Users, NoForm, Forms
<1>4. NoCall \in Requests
  BY <1>2 DEF NoCall, Requests
<1>5. WellRead(NoCall)
  BY DEF WellRead, NoCall, OfToken, OfPhone
<1> QED BY <1>1, <1>2, <1>3, <1>4, <1>5

\* A request goes on, or ends.
LEMMA CallMoves ==
    ASSUME Shape, NEW c \in Calls, NEW to \in Requests, Call(c, to), WellRead(to)
    PROVE  /\ call' = [call EXCEPT ![c] = to] /\ call' \in [Calls -> Requests] /\ Positions'
           /\ \A t \in Tokens : Unused(t) /\ to.tok # t => \A d \in Calls : call'[d].tok # t
<1>1. call' = [call EXCEPT ![c] = to] /\ call \in [Calls -> Requests]
  BY DEF Call, Shape, TypeOK
<1>2. call' \in [Calls -> Requests]
  BY <1>1
<1>3. \A d \in Calls : call'[d] = IF d = c THEN to ELSE call[d]
  BY <1>1
<1>4. Positions'
  BY <1>3 DEF Shape, Positions, WellRead
<1>5. \A t \in Tokens : Unused(t) /\ to.tok # t => \A d \in Calls : call'[d].tok # t
  BY <1>3 DEF Unused
<1> QED BY <1>1, <1>2, <1>4, <1>5

LEMMA CallEnds ==
    ASSUME Shape, NEW c \in Calls, Call(c, NoCall)
    PROVE  /\ call' = [call EXCEPT ![c] = NoCall] /\ call' \in [Calls -> Requests] /\ Positions'
           /\ \A t \in Tokens : Unused(t) => \A d \in Calls : call'[d].tok # t
<1>1. \A t \in Tokens : NoCall.tok # t
  BY DistinctAssumption DEF NoCall
<1> QED BY <1>1, CallMoves, ZeroesTyped

\* A request that moves and writes nothing.
LEMMA CallShape ==
    ASSUME Shape, Counted, NEW c \in Calls, NEW to \in Requests, Call(c, to), WellRead(to),
           UNCHANGED <<account, cache>>,
           to.tok # None => to.tok \in Tokens /\ form[to.tok] # NoForm
    PROVE  Shape'
<1>1. call' \in [Calls -> Requests] /\ Positions'
      /\ \A t \in Tokens : Unused(t) /\ to.tok # t => \A d \in Calls : call'[d].tok # t
  BY CallMoves
<1>2. TypeOK'
  BY <1>1 DEF Shape, TypeOK, account, cache, codes, Counted
<1>3. FormsFirst'
  BY DEF Shape, FormsFirst, cache
<1>4. UnusedFirst'
  <2> SUFFICES ASSUME NEW t \in Tokens, form[t] = NoForm PROVE Unused(t)'
    BY DEF UnusedFirst, cache
  <2>1. Unused(t)
    BY DEF Shape, UnusedFirst
  <2>2. to.tok # t
    BY DistinctAssumption
  <2> QED BY <1>1, <2>1, <2>2 DEF Unused, cache, codes
<1> QED BY <1>1, <1>2, <1>3, <1>4 DEF Shape

\* storePendingRegistration sets a code's record and has it to send.
LEMMA Stores ==
    ASSUME Shape, NEW c \in Calls, NEW t \in Tokens, NEW r, Store(c, t, r)
    PROVE  LET n == stored[t] + 1
               sending == [NoCall EXCEPT !.at = "send", !.tok = t, !.rec = [code |-> n, tries |-> 0]]
           IN  /\ n \in Nat
               /\ stored' = [stored EXCEPT ![t] = n] /\ stored' \in [Tokens -> Nat]
               /\ pending' = [pending EXCEPT ![t] = [code |-> n, tries |-> 0]]
               /\ pending' \in [Tokens -> Records]
               /\ call' = [call EXCEPT ![c] = sending] /\ call' \in [Calls -> Requests]
               /\ sending.at = "send" /\ sending.tok = t /\ sending.rec.code = n
               /\ Positions' /\ muddled' \subseteq Tokens /\ unsent' \subseteq Tokens
               /\ \A u \in Tokens : u # t /\ Unused(u) => Unused(u)'
<1> DEFINE n == stored[t] + 1
<1> DEFINE new == [code |-> n, tries |-> 0]
<1> DEFINE sending == [NoCall EXCEPT !.at = "send", !.tok = t, !.rec = new]
<1>1. n \in Nat /\ new \in Records
  BY ZeroesTyped DEF Shape, TypeOK, Records
<1>2. stored' = [stored EXCEPT ![t] = n] /\ stored' \in [Tokens -> Nat]
  BY <1>1 DEF Store, Shape, TypeOK
<1>3. pending' = [pending EXCEPT ![t] = new] /\ pending' \in [Tokens -> Records]
  BY <1>1 DEF Store, Fresh, Shape, TypeOK
<1>4. /\ sending \in Requests /\ sending.at = "send" /\ sending.tok = t /\ sending.rec = new
  BY <1>1, ZeroesTyped DEF NoCall, Requests
<1>5. Call(c, sending)
  BY DEF Store
<1>6. sending.rec.code = n
  BY <1>4
<1> HIDE DEF sending
<1>7. WellRead(sending)
  BY <1>4 DEF WellRead, OfPhone
<1>8. /\ call' = [call EXCEPT ![c] = sending] /\ call' \in [Calls -> Requests] /\ Positions'
      /\ \A u \in Tokens : Unused(u) /\ sending.tok # u => \A d \in Calls : call'[d].tok # u
  BY <1>4, <1>5, <1>7, CallMoves
<1>9. muddled' \subseteq Tokens /\ unsent' \subseteq Tokens
  BY DEF Store, Shape, TypeOK
<1>10. \A u \in Tokens : u # t /\ Unused(u) => Unused(u)'
  <2> SUFFICES ASSUME NEW u \in Tokens, u # t, Unused(u) PROVE Unused(u)'
    OBVIOUS
  <2>1. stored'[u] = stored[u] /\ pending'[u] = pending[u]
    BY <1>2, <1>3 DEF Shape, TypeOK
  <2> QED BY <1>4, <1>8, <2>1 DEF Unused
<1> QED BY <1>1, <1>2, <1>3, <1>4, <1>6, <1>8, <1>9, <1>10 DEF sending

LEMMA RegisterShape ==
    ASSUME Shape, Counted, NEW c \in Calls, NEW t \in Tokens, NEW p \in Phones, NEW e \in Emails,
           NEW s \in Subs \union {None}, Register(c, t, p, e, s)
    PROVE  Shape'
<1> DEFINE f == [phone |-> p, email |-> e, sub |-> s, existing |-> user[p].row]
<1>1. form' = [form EXCEPT ![t] = f] /\ f \in Forms /\ f # NoForm
  <2>1. user[p].row \in BOOLEAN
    BY DEF Shape, TypeOK, Users
  <2>2. f \in Forms
    BY <2>1 DEF Forms
  <2>3. f # NoForm
    BY DistinctAssumption DEF NoForm
  <2> QED BY <2>2, <2>3 DEF Register
<1>2. Store(c, t, NoRecord) /\ UNCHANGED <<account, sent>>
  BY DEF Register
<1>3. TypeOK'
  BY <1>1, <1>2, Stores DEF account, Shape, TypeOK, Counted
<1>4. FormsFirst'
  BY <1>1 DEF Shape, FormsFirst, TypeOK
<1>5. UnusedFirst'
  <2> SUFFICES ASSUME NEW u \in Tokens, form'[u] = NoForm PROVE Unused(u)'
    BY DEF UnusedFirst
  <2>1. u # t
    BY <1>1 DEF Shape, TypeOK
  <2>2. form[u] = NoForm
    BY <1>1, <2>1 DEF Shape, TypeOK
  <2>3. Unused(u)
    BY <2>2 DEF Shape, UnusedFirst
  <2> QED BY <1>2, <2>1, <2>3, Stores
<1> QED BY <1>2, <1>3, <1>4, <1>5, Stores DEF Shape

LEMMA ResendStoresShape ==
    ASSUME Shape, Counted, NEW c \in Calls, ResendStores(c)
    PROVE  Shape'
<1> DEFINE t == call[c].tok
<1>1. t \in Tokens /\ form[t] # NoForm
  BY DEF ResendStores, Shape, Positions, WellRead, OfToken, UnusedFirst, Unused
<1>2. Store(c, t, pending[t]) /\ UNCHANGED <<account, form, sent>>
  BY DEF ResendStores
<1> HIDE DEF t
<1>3. TypeOK'
  BY <1>1, <1>2, Stores DEF account, Shape, TypeOK, Counted
<1>4. FormsFirst'
  BY <1>2 DEF Shape, FormsFirst
<1>5. UnusedFirst'
  BY <1>1, <1>2, Stores DEF Shape, UnusedFirst
<1> QED BY <1>1, <1>2, <1>3, <1>4, <1>5, Stores DEF Shape

LEMMA SendsShape ==
    ASSUME Shape, Counted, NEW c \in Calls, Sends(c)
    PROVE  Shape'
<1>1. call[c].tok \in Tokens /\ call[c].rec.code \in Nat
  BY DEF Sends, Shape, Positions, WellRead, OfToken, TypeOK, Requests, Records
<1>2. /\ sent' = [sent EXCEPT ![call[c].tok] = call[c].rec.code] /\ Call(c, NoCall)
      /\ UNCHANGED <<account, form, pending, stored, muddled, unsent>>
  BY DEF Sends
<1>3. TypeOK'
  BY <1>1, <1>2, CallEnds DEF account, Shape, TypeOK, Counted
<1>4. FormsFirst' /\ UnusedFirst'
  BY <1>2, CallEnds DEF Shape, FormsFirst, UnusedFirst, Unused
<1> QED BY <1>2, <1>3, <1>4, CallEnds DEF Shape

\* A call that starts with what it has read of a phone or a token.
LEMMA StartsShape ==
    ASSUME Shape, Counted, NEW c \in Calls,
           \/ \E t \in Tokens : ResendReads(c, t)
           \/ \E p \in Phones : Begins(c, p)
    PROVE  Shape'
<1>1. ASSUME NEW p \in Phones, NEW e \in Emails \union {None}, NEW at \in OfPhone,
             at = "hash" => e \in Emails,
             Call(c, [NoCall EXCEPT !.at = at, !.phone = p, !.email = e]),
             UNCHANGED <<account, cache>>
      PROVE  Shape'
  <2> DEFINE to == [NoCall EXCEPT !.at = at, !.phone = p, !.email = e]
  <2>1. to \in Requests /\ to.at = at /\ to.tok = None /\ to.phone = p /\ to.email = e
    BY <1>1, ZeroesTyped DEF NoCall, Requests, OfPhone
  <2> HIDE DEF to
  <2>2. WellRead(to)
    BY <1>1, <2>1 DEF WellRead, OfPhone, OfToken
  <2> QED BY <1>1, <2>1, <2>2, CallShape DEF to
<1>2. ASSUME NEW p \in Phones, FindsNoFree(c, p) PROVE Shape'
  <2> DEFINE to == [NoCall EXCEPT !.at = "grant", !.phone = p]
  <2>1. to \in Requests /\ to.at = "grant" /\ to.tok = None /\ to.phone = p
    BY ZeroesTyped DEF NoCall, Requests
  <2>2. Call(c, to) /\ UNCHANGED <<account, cache>>
    BY <1>2 DEF FindsNoFree
  <2> HIDE DEF to
  <2>3. WellRead(to)
    BY <2>1 DEF WellRead, OfToken
  <2> QED BY <2>1, <2>2, <2>3, CallShape
<1>3. ASSUME NEW p \in Phones, NEW e \in Emails, WebReads(c, p, e) PROVE Shape'
  BY <1>1, <1>3 DEF WebReads, OfPhone
<1>4. ASSUME NEW p \in Phones, NEW e \in Blank, ImportReads(c, p, e) \/ ReviveReads(c, p, e)
      PROVE  Shape'
  BY <1>1, <1>4 DEF ImportReads, ReviveReads, OfPhone, Blank
<1>5. ASSUME NEW t \in Tokens, ResendReads(c, t) PROVE Shape'
  <2> DEFINE to == [NoCall EXCEPT !.at = "store", !.tok = t]
  <2>1. to \in Requests /\ to.at = "store" /\ to.tok = t
    BY ZeroesTyped DEF NoCall, Requests
  <2>2. Call(c, to) /\ UNCHANGED <<account, cache>>
    BY <1>5 DEF ResendReads
  <2>3. form[t] # NoForm
    BY <1>5 DEF ResendReads, Shape, UnusedFirst, Unused
  <2> HIDE DEF to
  <2>4. WellRead(to)
    BY <2>1 DEF WellRead, OfPhone
  <2> QED BY <2>1, <2>2, <2>3, <2>4, CallShape
<1> QED BY <1>2, <1>3, <1>4, <1>5 DEF Begins

LEMMA VerifyReadsShape ==
    ASSUME Shape, Counted, NEW c \in Calls, NEW t \in Tokens, VerifyReads(c, t)
    PROVE  Shape'
<1>1. PICK next \in IF Locked(pending[t]) THEN {"locked"} ELSE {"right", "wrong"} :
         Call(c, [NoCall EXCEPT !.at = next, !.tok = t,
                                !.rec = IF next = "wrong" THEN pending[t] ELSE NoRecord])
  BY DEF VerifyReads
<1> DEFINE to == [NoCall EXCEPT !.at = next, !.tok = t,
                                !.rec = IF next = "wrong" THEN pending[t] ELSE NoRecord]
<1>2. pending[t] \in Records
  BY DEF Shape, TypeOK
<1>3. /\ to \in Requests /\ to.tok = t /\ to.at = next
      /\ next = "wrong" => to.rec = pending[t]
  BY <1>2, ZeroesTyped DEF NoCall, Requests
<1>4. next = "wrong" => pending[t].tries < MaxTries
  BY <1>2, TriesAssumption DEF Locked, Records
<1>5. form[t] # NoForm
  BY DEF VerifyReads, Shape, UnusedFirst, Unused
<1>6. to.at \in {"locked", "right", "wrong"}
  BY <1>3
<1> HIDE DEF to
<1>7. Call(c, to) /\ UNCHANGED <<account, cache>>
  BY <1>1 DEF to, VerifyReads
<1>8. WellRead(to)
  BY <1>3, <1>4, <1>6 DEF WellRead, OfPhone
<1> QED BY <1>3, <1>5, <1>7, <1>8, CallShape

LEMMA VerifyWrongShape ==
    ASSUME Shape, Counted, NEW c \in Calls, VerifyWrong(c)
    PROVE  Shape'
<1> DEFINE t == call[c].tok
<1> DEFINE r == [call[c].rec EXCEPT !.tries = @ + 1]
<1>1. t \in Tokens /\ call[c].rec \in Records /\ call[c].rec.tries < MaxTries
  BY DEF VerifyWrong, Shape, Positions, WellRead, OfToken, TypeOK, Requests
<1>2. r \in Records
  BY <1>1, TriesAssumption DEF Records
<1>3. /\ Call(c, NoCall) /\ pending' = [pending EXCEPT ![t] = r]
      /\ UNCHANGED <<account, form, codes>>
  BY DEF VerifyWrong
<1> HIDE DEF r
<1>4. TypeOK'
  BY <1>2, <1>3, CallEnds DEF Shape, TypeOK, account, codes, Counted
<1>5. UnusedFirst'
  <2> SUFFICES ASSUME NEW u \in Tokens, form[u] = NoForm PROVE Unused(u)'
    BY <1>3 DEF UnusedFirst
  <2>1. Unused(u) /\ u # t
    BY DEF Shape, UnusedFirst, Unused
  <2>2. pending'[u] = pending[u]
    BY <1>3, <2>1 DEF Shape, TypeOK
  <2> QED BY <1>3, <2>1, <2>2, CallEnds DEF Unused, codes
<1>6. FormsFirst'
  BY <1>3 DEF Shape, FormsFirst
<1> QED BY <1>3, <1>4, <1>5, <1>6, CallEnds DEF Shape

\* A record of a token goes.
LEMMA RecordGoes ==
    ASSUME Shape, NEW t \in Tokens, pending' = [pending EXCEPT ![t] = NoRecord]
    PROVE  /\ pending' \in [Tokens -> Records]
           /\ \A u \in Tokens : form[u] = NoForm => pending'[u].code = 0
<1>1. pending' \in [Tokens -> Records]
  BY ZeroesTyped DEF Shape, TypeOK
<1>2. \A u \in Tokens : form[u] = NoForm => pending[u].code = 0
  BY DEF Shape, UnusedFirst, Unused
<1> QED BY <1>1, <1>2 DEF NoRecord, Shape, TypeOK

LEMMA VerifyDropsShape ==
    ASSUME Shape, Counted, NEW c \in Calls, VerifyDrops(c)
    PROVE  Shape'
<1> DEFINE t == call[c].tok
<1> DEFINE to == IF call[c].at = "right" THEN [call[c] EXCEPT !.at = "claim"] ELSE NoCall
<1>1. t \in Tokens /\ call[c] \in Requests
  BY DEF VerifyDrops, Shape, Positions, WellRead, OfToken, TypeOK
<1>2. /\ to \in Requests /\ to.at \in {"claim", "idle"}
      /\ to.at = "claim" => to.tok = t
      /\ to.tok \in {t, None}
  BY <1>1, ZeroesTyped DEF Requests, NoCall
<1>3. /\ Call(c, to) /\ pending' = [pending EXCEPT ![t] = NoRecord]
      /\ UNCHANGED <<account, form, codes>>
  BY DEF VerifyDrops
<1> HIDE DEF to
<1>4. WellRead(to)
  BY <1>1, <1>2 DEF WellRead, OfToken, OfPhone
<1>5. TypeOK'
  BY <1>1, <1>2, <1>3, <1>4, CallMoves, RecordGoes DEF Shape, TypeOK, account, codes, Counted
<1>6. FormsFirst'
  BY <1>3 DEF Shape, FormsFirst
<1>7. UnusedFirst'
  <2> SUFFICES ASSUME NEW u \in Tokens, form[u] = NoForm PROVE Unused(u)'
    BY <1>3 DEF UnusedFirst
  <2>1. Unused(u) /\ u # t
    BY DEF Shape, UnusedFirst, Unused
  <2>2. pending'[u].code = 0
    BY <1>1, <1>3, RecordGoes
  <2>3. to.tok # u
    BY <1>2, <2>1, DistinctAssumption
  <2>4. \A d \in Calls : call'[d].tok # u
    BY <1>2, <1>3, <1>4, <2>1, <2>3, CallMoves
  <2> QED BY <1>3, <2>1, <2>2, <2>4 DEF Unused, codes
<1> QED BY <1>2, <1>3, <1>4, <1>5, <1>6, <1>7, CallMoves DEF Shape

LEMMA ExpiresShape ==
    ASSUME Shape, Counted, NEW t \in Tokens, Expires(t)
    PROVE  Shape'
<1>1. pending' = [pending EXCEPT ![t] = NoRecord] /\ UNCHANGED <<account, form, codes, call>>
  BY DEF Expires
<1>2. TypeOK'
  BY <1>1, RecordGoes DEF Shape, TypeOK, account, codes, Counted
<1>3. UnusedFirst'
  BY <1>1, RecordGoes DEF Shape, UnusedFirst, Unused, codes
<1> QED BY <1>1, <1>2, <1>3 DEF Shape, FormsFirst, Positions, WellRead

\* Writes to the rows by a call that ends, or by nobody's call.
LEMMA RowsShape ==
    ASSUME Shape, Counted, UNCHANGED cache,
           user' \in [Phones -> Users], identity' \in [Subs -> Phones \union {None}],
           away' \subseteq Phones, edited' \subseteq Phones,
           call' = call \/ \E c \in Calls : Call(c, NoCall)
    PROVE  Shape'
<1>0. UNCHANGED <<form, pending, stored, sent, muddled, unsent>>
  BY DEF cache, codes
<1>1. CASE call' = call
  BY <1>0, <1>1 DEF Shape, TypeOK, FormsFirst, UnusedFirst, Unused, Positions, WellRead, Counted
<1>2. CASE \E c \in Calls : Call(c, NoCall)
  <2>1. call' \in [Calls -> Requests] /\ Positions'
        /\ \A t \in Tokens : Unused(t) => \A d \in Calls : call'[d].tok # t
    BY <1>2, CallEnds
  <2> QED BY <1>0, <2>1 DEF Shape, TypeOK, FormsFirst, UnusedFirst, Unused, Counted
<1> QED BY <1>1, <1>2

LEMMA ClaimsShape ==
    ASSUME Shape, Counted, NEW c \in Calls, Claims(c)
    PROVE  Shape'
<1> DEFINE t == call[c].tok
<1> DEFINE f == form[t]
<1>1. t \in Tokens
  BY DEF Claims, Shape, Positions, WellRead, OfToken
<1>2. f.phone \in Phones /\ f.email \in Emails
  <2>1. form[t] # NoForm
    BY <1>1 DEF Shape, UnusedFirst, Unused
  <2> QED BY <1>1, <2>1 DEF Shape, FormsFirst
<1>3. /\ user[f.phone] \in Users /\ user \in [Phones -> Users] /\ identity \in [Subs -> Phones \union {None}]
      /\ away \subseteq Phones /\ edited \subseteq Phones
  BY <1>2 DEF Shape, TypeOK
<1>4. OwnedBy(user[f.phone], t, f.email) \in Users
  BY <1>1, <1>2, <1>3 DEF Users, WithFree, OwnedBy
<1>5. /\ user' \in [Phones -> Users] /\ identity' \in [Subs -> Phones \union {None}]
      /\ away' \subseteq Phones /\ edited' \subseteq Phones
  <2> DEFINE goes == Unclaimed(f) /\ ~EmailTaken(f.email, f.phone) /\ Linkable(f)
  <2>1. CASE goes
    <3>1. user' = [user EXCEPT ![f.phone] = OwnedBy(user[f.phone], t, f.email)]
      BY <2>1, <1>2, <1>3 DEF Claims
    <3>2. identity' = [s \in Subs |-> IF s = f.sub /\ identity[s] = None THEN f.phone ELSE identity[s]]
      BY <2>1 DEF Claims
    <3>3. away' = away /\ edited' = edited \ {f.phone}
      BY <2>1 DEF Claims
    <3> QED BY <1>2, <1>3, <1>4, <3>1, <3>2, <3>3
  <2>2. CASE ~goes
    <3>1. user' = user /\ identity' = identity /\ away' = away /\ edited' = edited
      BY <2>2 DEF Claims, account
    <3> QED BY <1>3, <3>1
  <2> QED BY <2>1, <2>2
<1>6. Call(c, NoCall) /\ UNCHANGED cache
  BY DEF Claims
<1> QED BY <1>5, <1>6, RowsShape

-----------------------------------------------------------------------------
(* What the others write to a row, as w. *)

\* The website registers it; the free community is created; an email is written; it is added.
Taken(q, w)   == /\ w.row = user[q].row /\ w.by = Web /\ w.free = user[q].free
                 /\ edited' = edited \ {q} /\ UNCHANGED away
                 /\ \E c \in Calls : call[c].at = "hash" /\ call[c].phone = q
Granted(q, w) == /\ w.row = user[q].row /\ w.by = user[q].by /\ w.email = user[q].email
                 /\ w.free = user[q].free + 1
                 /\ UNCHANGED <<away, edited>>
                 /\ \E c \in Calls : call[c].at = "grant" /\ call[c].phone = q
Mailed(q, w)  == /\ w.row = user[q].row /\ w.by = user[q].by
                 /\ edited' = Edited(q) /\ away' \subseteq away
                 /\ \/ w.free = user[q].free
                    \/ /\ w.free = WithFree(user[q].free)
                       /\ \E c \in Calls : call[c].at = "revive" /\ call[c].phone = q
Added(q, w)   == /\ ~user[q].row /\ w.row /\ w.by = None /\ w.free = 1
                 /\ UNCHANGED <<away, edited>>

OthersWrite == \E q \in Phones, w \in Users :
    /\ user' = [user EXCEPT ![q] = w] /\ UNCHANGED <<identity, cache>>
    /\ Taken(q, w) \/ Granted(q, w) \/ Mailed(q, w) \/ Added(q, w)

LEMMA OthersWriteOne ==
    ASSUME Shape,
           \/ \E c \in Calls : LaterStep(c)
           \/ \E p \in Phones, e \in Blank : AdminAdds(p, e) \/ AdminEdits(p, e)
    PROVE  /\ OthersWrite
           /\ call' = call \/ \E c \in Calls : Call(c, NoCall)
<1>0. user \in [Phones -> Users] /\ call \in [Calls -> Requests]
  BY DEF Shape, TypeOK
<1>1. ASSUME NEW c \in Calls, WebWrites(c) PROVE OthersWrite /\ Call(c, NoCall)
  <2> DEFINE q == call[c].phone
  <2> DEFINE w == [user[q] EXCEPT !.by = Web, !.email = call[c].email]
  <2>1. q \in Phones /\ call[c].email \in Emails
    BY <1>1 DEF WebWrites, Shape, Positions, WellRead, OfPhone
  <2>2. user' = [user EXCEPT ![q] = w]
    BY <1>0, <1>1, <2>1 DEF WebWrites, Users
  <2>3. w \in Users /\ w.row = user[q].row /\ w.by = Web /\ w.free = user[q].free
    BY <1>0, <2>1 DEF Users
  <2>4. edited' = edited \ {q} /\ UNCHANGED <<away, identity, cache>> /\ call[c].at = "hash"
        /\ Call(c, NoCall)
    BY <1>1 DEF WebWrites
  <2> HIDE DEF w
  <2>5. Taken(q, w)
    BY <2>3, <2>4 DEF Taken
  <2> QED BY <2>1, <2>2, <2>3, <2>4, <2>5 DEF OthersWrite
<1>2. ASSUME NEW c \in Calls, GrantsFree(c) PROVE OthersWrite /\ Call(c, NoCall)
  <2> DEFINE q == call[c].phone
  <2> DEFINE w == [user[q] EXCEPT !.free = user[q].free + 1]
  <2>1. q \in Phones
    BY <1>2 DEF GrantsFree, Shape, Positions, WellRead, OfPhone
  <2>2. user' = [user EXCEPT ![q] = w]
    BY <1>0, <1>2, <2>1 DEF GrantsFree, Users
  <2>3. /\ w \in Users /\ w.row = user[q].row /\ w.by = user[q].by /\ w.email = user[q].email
        /\ w.free = user[q].free + 1
    BY <1>0, <2>1 DEF Users
  <2>4. UNCHANGED <<away, identity, edited, cache>> /\ call[c].at = "grant" /\ Call(c, NoCall)
    BY <1>2 DEF GrantsFree
  <2> HIDE DEF w
  <2>5. Granted(q, w)
    BY <2>3, <2>4 DEF Granted
  <2> QED BY <2>1, <2>2, <2>3, <2>4, <2>5 DEF OthersWrite
<1>3. ASSUME NEW q \in Phones, NEW e \in Blank, user' = [user EXCEPT ![q].email = e],
             edited' = Edited(q), UNCHANGED <<away, identity, cache>>
      PROVE  OthersWrite
  <2> DEFINE w == [user[q] EXCEPT !.email = e]
  <2>1. user' = [user EXCEPT ![q] = w]
    BY <1>0, <1>3 DEF Users
  <2>2. w \in Users /\ w.row = user[q].row /\ w.by = user[q].by /\ w.free = user[q].free
    BY <1>0, <1>3 DEF Users, Blank
  <2> HIDE DEF w
  <2>3. Mailed(q, w)
    BY <1>3, <2>2 DEF Mailed
  <2> QED BY <1>3, <2>1, <2>2, <2>3 DEF OthersWrite
<1>4. ASSUME NEW c \in Calls, ImportWrites(c) PROVE OthersWrite /\ Call(c, NoCall)
  <2>1. call[c].phone \in Phones /\ call[c].email \in Blank
    BY <1>0, <1>4 DEF ImportWrites, Shape, Positions, WellRead, OfPhone, Requests, Blank
  <2> QED BY <1>3, <1>4, <2>1 DEF ImportWrites
<1>5. ASSUME NEW c \in Calls, Revives(c) PROVE OthersWrite /\ Call(c, NoCall)
  <2> DEFINE q == call[c].phone
  <2> DEFINE w == [user[q] EXCEPT !.email = call[c].email, !.free = WithFree(user[q].free)]
  <2>1. q \in Phones /\ call[c].email \in Blank
    BY <1>0, <1>5 DEF Revives, Shape, Positions, WellRead, OfPhone, Requests, Blank
  <2>2. user' = [user EXCEPT ![q] = w]
    BY <1>0, <1>5, <2>1 DEF Revives, Users
  <2>3. WithFree(user[q].free) \in Nat
    BY <1>0, <2>1 DEF Users, WithFree
  <2>4. /\ w \in Users /\ w.row = user[q].row /\ w.by = user[q].by
        /\ w.free = WithFree(user[q].free)
    BY <1>0, <2>1, <2>3 DEF Users, Blank
  <2>5. /\ edited' = Edited(q) /\ away' \subseteq away /\ UNCHANGED <<identity, cache>>
        /\ call[c].at = "revive" /\ Call(c, NoCall)
    BY <1>5 DEF Revives
  <2> HIDE DEF w
  <2>6. Mailed(q, w)
    BY <2>4, <2>5 DEF Mailed
  <2> QED BY <2>1, <2>2, <2>4, <2>5, <2>6 DEF OthersWrite
<1>6. ASSUME NEW q \in Phones, NEW e \in Blank, AdminAdds(q, e) PROVE OthersWrite /\ call' = call
  <2> DEFINE w == [NoUser EXCEPT !.row = TRUE, !.email = e, !.free = 1]
  <2>1. user' = [user EXCEPT ![q] = w] /\ ~user[q].row
        /\ UNCHANGED <<away, identity, edited, cache, call>>
    BY <1>6 DEF AdminAdds
  <2>2. w \in Users /\ w.row /\ w.by = None /\ w.free = 1
    BY DEF NoUser, Users, Blank
  <2> HIDE DEF w
  <2>3. Added(q, w)
    BY <2>1, <2>2 DEF Added
  <2> QED BY <2>1, <2>2, <2>3 DEF OthersWrite
<1>7. ASSUME NEW q \in Phones, NEW e \in Blank, AdminEdits(q, e) PROVE OthersWrite /\ call' = call
  BY <1>3, <1>7 DEF AdminEdits
<1> QED BY <1>1, <1>2, <1>4, <1>5, <1>6, <1>7 DEF LaterStep

LEMMA OthersShape ==
    ASSUME Shape, Counted,
           \/ \E c \in Calls : LaterStep(c) \/ Dies(c)
           \/ \E p \in Phones : PhoneStep(p)
    PROVE  Shape'
<1>0. /\ user \in [Phones -> Users] /\ identity \in [Subs -> Phones \union {None}]
      /\ away \subseteq Phones /\ edited \subseteq Phones
  BY DEF Shape, TypeOK
<1>1. ASSUME OthersWrite, call' = call \/ \E c \in Calls : Call(c, NoCall) PROVE Shape'
  <2>1. PICK q \in Phones, w \in Users :
          /\ user' = [user EXCEPT ![q] = w] /\ UNCHANGED <<identity, cache>>
          /\ Taken(q, w) \/ Granted(q, w) \/ Mailed(q, w) \/ Added(q, w)
    BY <1>1 DEF OthersWrite
  <2>2. user' \in [Phones -> Users]
    BY <1>0, <2>1
  <2>3. away' \subseteq Phones /\ edited' \subseteq Phones
    BY <1>0, <2>1 DEF Taken, Granted, Mailed, Added, Edited
  <2> QED BY <1>0, <1>1, <2>1, <2>2, <2>3, RowsShape
<1>2. ASSUME NEW p \in Phones, NEW s \in Subs, Links(s, p) PROVE Shape'
  BY <1>0, <1>2, RowsShape DEF Links
<1>3. ASSUME NEW p \in Phones, Suspends(p) \/ Reinstates(p) PROVE Shape'
  BY <1>0, <1>3, RowsShape DEF Suspends, Reinstates
<1>4. ASSUME NEW c \in Calls, Dies(c) PROVE Shape'
  <2>1. /\ Call(c, NoCall) /\ UNCHANGED <<account, form, pending, stored, sent, muddled>>
        /\ unsent' = IF call[c].at = "send" THEN unsent \union {call[c].tok} ELSE unsent
    BY <1>4 DEF Dies
  <2>2. unsent' \subseteq Tokens
    BY <2>1 DEF Shape, TypeOK, Positions, WellRead, OfToken
  <2>3. TypeOK'
    BY <2>1, <2>2, CallEnds DEF Shape, TypeOK, account, Counted
  <2> QED BY <2>1, <2>3, CallEnds DEF Shape, FormsFirst, UnusedFirst, Unused
<1> QED BY <1>1, <1>2, <1>3, <1>4, OthersWriteOne DEF PhoneStep

LEMMA NextShape == Shape /\ [Next]_vars => Shape'
<1> SUFFICES ASSUME Shape, [Next]_vars PROVE Shape'
  OBVIOUS
<1>0. Counted
  BY TriesAssumption DEF Next, vars, Counted, Shape, TypeOK
<1>1. ASSUME NEW c \in Calls, AppStep(c) PROVE Shape'
  BY <1>0, <1>1, VerifyReadsShape, StartsShape, RegisterShape, SendsShape, VerifyWrongShape,
     VerifyDropsShape, ClaimsShape, ResendStoresShape DEF AppStep
<1>2. ASSUME NEW c \in Calls, LaterStep(c) \/ Dies(c) PROVE Shape'
  BY <1>0, <1>2, OthersShape
<1>3. ASSUME NEW p \in Phones, PhoneStep(p) \/ \E c \in Calls : Begins(c, p) PROVE Shape'
  BY <1>0, <1>3, OthersShape, StartsShape
<1>4. ASSUME NEW t \in Tokens, Expires(t) PROVE Shape'
  BY <1>0, <1>4, ExpiresShape
<1>5. CASE UNCHANGED vars
  BY <1>5 DEF vars, account, cache, codes, Shape, TypeOK, FormsFirst, UnusedFirst, Unused, Positions, WellRead
<1> QED BY <1>1, <1>2, <1>3, <1>4, <1>5 DEF Next, CallStep

LEMMA InitShape == Init => Shape
<1> SUFFICES ASSUME Init PROVE Shape
  OBVIOUS
<1>1. TypeOK
  <2>1. [NoUser EXCEPT !.row = TRUE] \in Users
    BY DEF NoUser, Users
  <2>2. user \in [Phones -> Users]
    BY <2>1, ZeroesTyped DEF Init
  <2>3. 0 \in 0 .. MaxBeside
    BY TriesAssumption
  <2> QED BY <2>2, <2>3, ZeroesTyped DEF Init, TypeOK
<1>2. FormsFirst /\ UnusedFirst /\ Positions
  BY DistinctAssumption, ZeroesTyped DEF Init, FormsFirst, UnusedFirst, Unused, Positions, NoRecord, NoCall
<1> QED BY <1>1, <1>2 DEF Shape

\* Every variable keeps its type, in particular no record counts more wrong tries than lock it.
THEOREM TypeCorrect == Spec => []TypeOK
<1>1. Shape => TypeOK
  BY DEF Shape
<1> QED BY <1>1, InitShape, NextShape, PTL DEF Spec

-----------------------------------------------------------------------------
(* Whose an account is, and what it has. *)

\* A phone without a row has no owner and nothing else.
Unowned == \A p \in Phones : /\ ~user[p].row => user[p].by = None /\ user[p].free = 0
                             /\ p \in away => user[p].row

\* A row that a call has read is still there, and one that lacked the free community was not
\* made by a registration since.
StillTrue(r) == /\ r.at \in OfPhone => user[r.phone].row
                /\ r.at = "grant" /\ user[r.phone].by \in Tokens => form[user[r.phone].by].existing

RowsAsRead == \A c \in Calls : StillTrue(call[c])

AccountInv == Shape /\ Unowned /\ RowsAsRead /\ ClaimIsWhole

\* The writers of the rows; everything else leaves them alone.
LEMMA Writers ==
    ASSUME Shape, [Next]_vars
    PROVE  \/ account' = account
           \/ \E c \in Calls : Claims(c)
           \/ OthersWrite
           \/ \E p \in Phones : Suspends(p) \/ Reinstates(p) \/ \E s \in Subs : Links(s, p)
<1>1. ASSUME NEW c \in Calls, AppStep(c), ~Claims(c) PROVE account' = account
  BY <1>1 DEF AppStep, VerifyReads, ResendReads, Register, Sends, VerifyWrong, VerifyDrops,
              ResendStores
<1>2. ASSUME NEW c \in Calls, NEW p \in Phones, Begins(c, p) PROVE account' = account
  BY <1>2 DEF Begins, FindsNoFree, WebReads, ImportReads, ReviveReads
<1>3. ASSUME \/ \E c \in Calls : Dies(c)
             \/ \E t \in Tokens : Expires(t)
             \/ UNCHANGED vars
      PROVE  account' = account
  BY <1>3 DEF Dies, Expires, vars
<1> QED BY <1>1, <1>2, <1>3, OthersWriteOne DEF Next, CallStep, PhoneStep

\* A form is filled in once.
LEMMA FormsStay ==
    ASSUME Shape, [Next]_vars, NEW t \in Tokens, form[t] # NoForm
    PROVE  form'[t] = form[t]
<1>1. CASE form' = form
  BY <1>1
<1>2. ASSUME NEW c \in Calls, NEW u \in Tokens, NEW p \in Phones, NEW e \in Emails,
             NEW s \in Subs \union {None}, Register(c, u, p, e, s)
      PROVE  form'[t] = form[t]
  <2>1. u # t
    BY <1>2 DEF Register
  <2> QED BY <1>2, <2>1 DEF Register, Shape, TypeOK
<1>3. ASSUME NEW c \in Calls, AppStep(c) PROVE form'[t] = form[t]
  BY <1>1, <1>2, <1>3 DEF AppStep, VerifyReads, ResendReads, Sends, VerifyWrong, VerifyDrops,
              Claims, ResendStores, cache
<1>4. ASSUME \/ \E c \in Calls : LaterStep(c)
             \/ \E p \in Phones, e \in Blank : AdminAdds(p, e) \/ AdminEdits(p, e)
      PROVE  form' = form
  BY <1>4, OthersWriteOne DEF OthersWrite, cache
<1>5. ASSUME NEW c \in Calls, NEW p \in Phones, Begins(c, p) PROVE form' = form
  BY <1>5 DEF Begins, FindsNoFree, WebReads, ImportReads, ReviveReads, cache
<1>6. ASSUME \/ \E c \in Calls : Dies(c)
             \/ \E u \in Tokens : Expires(u)
             \/ \E p \in Phones : Suspends(p) \/ Reinstates(p) \/ \E s \in Subs : Links(s, p)
             \/ UNCHANGED vars
      PROVE  form' = form
  BY <1>6 DEF Dies, Expires, Suspends, Reinstates, Links, cache, vars
<1> QED BY <1>1, <1>3, <1>4, <1>5, <1>6 DEF Next, CallStep, PhoneStep

\* What a claim does when it goes through, and that it is nobody's account that it takes.
LEMMA ClaimWrites ==
    ASSUME AccountInv, NEW c \in Calls, Claims(c), account' # account
    PROVE  LET t == call[c].tok
               f == form[t]
           IN  /\ t \in Tokens /\ f # NoForm /\ f.phone \in Phones /\ f.email \in Emails
               /\ f.sub \in Subs \union {None}
               /\ user[f.phone].by = None /\ (~f.existing => ~user[f.phone].row)
               /\ user' = [user EXCEPT ![f.phone] = OwnedBy(user[f.phone], t, f.email)]
               /\ identity' = [s \in Subs |-> IF s = f.sub /\ identity[s] = None THEN f.phone ELSE identity[s]]
               /\ edited' = edited \ {f.phone} /\ away' = away
               /\ f.sub # None => identity[f.sub] = None
<1> DEFINE t == call[c].tok
<1> DEFINE f == form[t]
<1>1. t \in Tokens /\ form[t] # NoForm
  BY DEF Claims, AccountInv, Shape, Positions, WellRead, OfToken, UnusedFirst, Unused
<1>2. f.phone \in Phones /\ f.email \in Emails
  BY <1>1 DEF AccountInv, Shape, FormsFirst
<1>3. f.sub \in Subs \union {None}
  <2>1. f \in Forms
    BY <1>1 DEF AccountInv, Shape, TypeOK
  <2> QED BY <2>1 DEF Forms
<1>4. Unclaimed(f) /\ Linkable(f)
  BY DEF Claims
<1>5. user[f.phone].by = None /\ (~f.existing => ~user[f.phone].row)
  BY <1>2, <1>4 DEF Unclaimed, AccountInv, Unowned
<1>6. /\ user' = [user EXCEPT ![f.phone] = OwnedBy(user[f.phone], t, f.email)]
      /\ identity' = [s \in Subs |-> IF s = f.sub /\ identity[s] = None THEN f.phone ELSE identity[s]]
      /\ edited' = edited \ {f.phone} /\ away' = away
  BY <1>2 DEF Claims, AccountInv, Shape, TypeOK
<1> QED BY <1>1, <1>2, <1>3, <1>4, <1>5, <1>6 DEF Linkable

\* One row is written.
LEMMA RowWritten ==
    ASSUME Shape, NEW q \in Phones, NEW row, user' = [user EXCEPT ![q] = row], NEW p \in Phones
    PROVE  user'[p] = IF p = q THEN row ELSE user[p]
BY DEF Shape, TypeOK

\* What a step does to the row of one phone.
Claimed(p) == \E t \in Tokens :
    /\ form[t] # NoForm /\ form[t].phone = p /\ user[p].by = None
    /\ ~form[t].existing => ~user[p].row
    /\ user'[p] = OwnedBy(user[p], t, form[t].email)
    /\ p \notin edited' /\ UNCHANGED away
    /\ form[t].sub # None => identity'[form[t].sub] = p
Rewritten(p) == Taken(p, user'[p]) \/ Granted(p, user'[p]) \/ Mailed(p, user'[p]) \/ Added(p, user'[p])
Kept(p) == /\ user'[p] = user[p] /\ (p \in edited => p \in edited')
           /\ p \in away' => p \in away \/ user[p].row

LEMMA RowSteps ==
    ASSUME AccountInv, [Next]_vars, NEW p \in Phones
    PROVE  Claimed(p) \/ Rewritten(p) \/ Kept(p)
<1>1. CASE account' = account
  BY <1>1 DEF account, Kept
<1>2. ASSUME NEW c \in Calls, Claims(c), account' # account PROVE Claimed(p) \/ Kept(p)
  <2> DEFINE t == call[c].tok
  <2> DEFINE f == form[t]
  <2>1. /\ t \in Tokens /\ f # NoForm /\ f.phone \in Phones /\ f.sub \in Subs \union {None}
        /\ user[f.phone].by = None /\ (~f.existing => ~user[f.phone].row)
        /\ user' = [user EXCEPT ![f.phone] = OwnedBy(user[f.phone], t, f.email)]
        /\ identity' = [s \in Subs |-> IF s = f.sub /\ identity[s] = None THEN f.phone ELSE identity[s]]
        /\ edited' = edited \ {f.phone} /\ away' = away
        /\ f.sub # None => identity[f.sub] = None
    BY <1>2, ClaimWrites
  <2>2. user'[p] = IF p = f.phone THEN OwnedBy(user[f.phone], t, f.email) ELSE user[p]
    BY <2>1, RowWritten DEF AccountInv
  <2>3. CASE p = f.phone
    <3>1. f.sub # None => identity'[f.sub] = p
      BY <2>1, <2>3
    <3>2. p \notin edited'
      BY <2>1, <2>3
    <3>3. user'[p] = OwnedBy(user[p], t, f.email)
      BY <2>2, <2>3
    <3> HIDE DEF t
    <3> QED BY <2>1, <2>3, <3>1, <3>2, <3>3 DEF Claimed
  <2>4. CASE p # f.phone
    BY <2>1, <2>2, <2>4 DEF Kept
  <2> QED BY <2>3, <2>4
<1>3. ASSUME OthersWrite PROVE Rewritten(p) \/ Kept(p)
  <2>1. PICK q \in Phones, w \in Users :
          /\ user' = [user EXCEPT ![q] = w] /\ UNCHANGED <<identity, cache>>
          /\ Taken(q, w) \/ Granted(q, w) \/ Mailed(q, w) \/ Added(q, w)
    BY <1>3 DEF OthersWrite
  <2>2. user'[p] = IF p = q THEN w ELSE user[p]
    BY <2>1, RowWritten DEF AccountInv
  <2>3. CASE p = q
    BY <2>1, <2>2, <2>3 DEF Rewritten
  <2>4. CASE p # q
    <3>1. p \in edited => p \in edited'
      BY <2>1, <2>4 DEF Taken, Granted, Mailed, Added, Edited
    <3>2. away' \subseteq away
      BY <2>1 DEF Taken, Granted, Mailed, Added
    <3> QED BY <2>2, <2>4, <3>1, <3>2 DEF Kept
  <2> QED BY <2>3, <2>4
<1>4. ASSUME NEW q \in Phones, Suspends(q) \/ Reinstates(q) PROVE Kept(p)
  BY <1>4 DEF Suspends, Reinstates, Kept
<1>5. ASSUME NEW q \in Phones, NEW s \in Subs, Links(s, q) PROVE Kept(p)
  BY <1>5 DEF Links, Kept
<1> QED BY <1>1, <1>2, <1>3, <1>4, <1>5, Writers DEF AccountInv

\* FirstClaimStays for one step and one phone.
LEMMA OwnerStays ==
    ASSUME AccountInv, [Next]_vars, NEW p \in Phones, user[p].by # None
    PROVE  user'[p].by \in {user[p].by, Web}
<1>1. ~Added(p, user'[p])
  BY DEF Added, AccountInv, Unowned
<1> QED BY <1>1, RowSteps DEF Claimed, Rewritten, Kept, Taken, Granted, Mailed

LEMMA NextUnowned ==
    ASSUME AccountInv, [Next]_vars, NEW p \in Phones
    PROVE  /\ ~user'[p].row => user'[p].by = None /\ user'[p].free = 0
           /\ p \in away' => user'[p].row
           /\ user[p].row => user'[p].row
<1>0. /\ ~user[p].row => user[p].by = None /\ user[p].free = 0
      /\ p \in away => user[p].row
  BY DEF AccountInv, Unowned
<1>1. CASE Claimed(p)
  <2>1. PICK t \in Tokens : user'[p] = OwnedBy(user[p], t, form[t].email)
    BY <1>1 DEF Claimed
  <2>2. user'[p].row
    BY <2>1 DEF OwnedBy
  <2> QED BY <2>2
<1>2. CASE Taken(p, user'[p]) \/ Granted(p, user'[p])
  <2>1. PICK c \in Calls : call[c].at \in {"hash", "grant"} /\ call[c].phone = p
    BY <1>2 DEF Taken, Granted
  <2>2. user[p].row
    BY <2>1 DEF AccountInv, RowsAsRead, StillTrue, OfPhone
  <2> QED BY <1>0, <1>2, <2>2 DEF Taken, Granted
<1>3. CASE Mailed(p, user'[p])
  <2>1. user'[p].row = user[p].row /\ user'[p].by = user[p].by /\ away' \subseteq away
    BY <1>3 DEF Mailed
  <2>2. ASSUME ~user[p].row PROVE user'[p].free = user[p].free
    BY <1>3, <2>2 DEF Mailed, AccountInv, RowsAsRead, StillTrue, OfPhone
  <2> QED BY <1>0, <2>1, <2>2
<1>4. CASE Added(p, user'[p])
  BY <1>4 DEF Added
<1>5. CASE Kept(p)
  BY <1>0, <1>5 DEF Kept
<1> QED BY <1>1, <1>2, <1>3, <1>4, <1>5, RowSteps DEF Rewritten

\* ClaimIsWhole for one phone.
WholeAt(p) ==
    user[p].by \in Tokens =>
        LET f == form[user[p].by] IN
        /\ f.phone = p
        /\ p \notin edited => user[p].email = f.email
        /\ f.sub # None => identity[f.sub] = p
        /\ user[p].free >= 1 /\ (~f.existing => user[p].free = 1)

\* A call that is about to write a row has read of it what is still true.
LEMMA TrueStays ==
    ASSUME AccountInv, [Next]_vars, NEW c \in Calls
    PROVE  LET r == call[c]
           IN  /\ r.at \in OfPhone => user'[r.phone].row
               /\ r.at = "grant" /\ user'[r.phone].by \in Tokens => form'[user'[r.phone].by].existing
<1> DEFINE p == call[c].phone
<1>1. SUFFICES ASSUME call[c].at \in OfPhone
               PROVE  /\ user'[p].row
                      /\ call[c].at = "grant" /\ user'[p].by \in Tokens => form'[user'[p].by].existing
  BY DEF OfPhone
<1>2. p \in Phones /\ user[p].row
  BY <1>1 DEF AccountInv, Shape, Positions, WellRead, RowsAsRead, StillTrue
<1>3. user'[p].row
  BY <1>2, NextUnowned
<1>4. ASSUME call[c].at = "grant", user'[p].by \in Tokens PROVE form'[user'[p].by].existing
  <2>1. CASE Claimed(p)
    <3>1. PICK t \in Tokens : /\ form[t] # NoForm /\ (~form[t].existing => ~user[p].row)
                              /\ user'[p] = OwnedBy(user[p], t, form[t].email)
      BY <2>1 DEF Claimed
    <3>2. user'[p].by = t
      BY <3>1 DEF OwnedBy
    <3>3. form'[t] = form[t]
      BY <3>1, FormsStay DEF AccountInv
    <3> QED BY <1>2, <3>1, <3>2, <3>3
  <2>2. CASE user'[p].by = user[p].by
    <3>1. form[user[p].by].existing
      BY <1>4, <2>2 DEF AccountInv, RowsAsRead, StillTrue
    <3>2. form[user[p].by] # NoForm
      BY <3>1 DEF NoForm
    <3> QED BY <1>4, <2>2, <3>1, <3>2, FormsStay DEF AccountInv
  <2>3. user'[p].by # Web
    BY <1>4, DistinctAssumption
  <2>4. ~Added(p, user'[p])
    BY <1>2 DEF Added
  <2> QED BY <1>2, <2>1, <2>2, <2>3, <2>4, RowSteps DEF Rewritten, Kept, Taken, Granted, Mailed
<1> QED BY <1>3, <1>4

\* What a call is after a step, if it is not what it was.
LEMMA CallsMove ==
    ASSUME Shape, [Next]_vars, NEW d \in Calls
    PROVE  \/ call'[d] = call[d]
           \/ call'[d].at \notin OfPhone
           \/ /\ call'[d].at \in OfPhone /\ call'[d].phone \in Phones /\ user[call'[d].phone].row
              /\ call'[d].at = "grant" => user[call'[d].phone].free = 0
              /\ UNCHANGED <<account, cache>>
           \/ /\ call'[d].at = "revive" /\ call'[d].phone \in away
              /\ UNCHANGED <<account, cache>>
<1>0. call \in [Calls -> Requests] /\ call[d] \in Requests
  BY DEF Shape, TypeOK
<1>1. ASSUME NEW c \in Calls, NEW to, Call(c, to), to.at \notin OfPhone
      PROVE  call'[d] = call[d] \/ call'[d].at \notin OfPhone
  BY <1>0, <1>1 DEF Call
<1>2. NoCall.at \notin OfPhone
  BY DEF NoCall, OfPhone
<1>3. ASSUME NEW c \in Calls, AppStep(c) PROVE call'[d] = call[d] \/ call'[d].at \notin OfPhone
  <2>1. ASSUME NEW t \in Tokens, VerifyReads(c, t) PROVE call'[d] = call[d] \/ call'[d].at \notin OfPhone
    <3>1. PICK next \in {"locked", "right", "wrong"} :
            Call(c, [NoCall EXCEPT !.at = next, !.tok = t,
                                   !.rec = IF next = "wrong" THEN pending[t] ELSE NoRecord])
      BY <2>1 DEF VerifyReads
    <3> DEFINE to == [NoCall EXCEPT !.at = next, !.tok = t,
                                   !.rec = IF next = "wrong" THEN pending[t] ELSE NoRecord]
    <3>2. to.at = next
      BY DEF NoCall
    <3> HIDE DEF to
    <3>3. to.at \notin OfPhone
      BY <3>2 DEF OfPhone
    <3> QED BY <1>1, <3>1, <3>3 DEF to
  <2>2. ASSUME NEW t \in Tokens, ResendReads(c, t) PROVE call'[d] = call[d] \/ call'[d].at \notin OfPhone
    <3>1. [NoCall EXCEPT !.at = "store", !.tok = t].at \notin OfPhone
      BY DEF NoCall, OfPhone
    <3> QED BY <1>1, <2>2, <3>1 DEF ResendReads
  <2>3. ASSUME NEW t \in Tokens, NEW r, Store(c, t, r) PROVE call'[d] = call[d] \/ call'[d].at \notin OfPhone
    <3> DEFINE to == [NoCall EXCEPT !.at = "send", !.tok = t, !.rec = [code |-> stored[t] + 1, tries |-> 0]]
    <3>1. to.at \notin OfPhone
      BY DEF NoCall, OfPhone
    <3>2. Call(c, to)
      BY <2>3 DEF Store
    <3> QED BY <1>1, <3>1, <3>2
  <2>4. ASSUME VerifyDrops(c) PROVE call'[d] = call[d] \/ call'[d].at \notin OfPhone
    <3> DEFINE to == IF call[c].at = "right" THEN [call[c] EXCEPT !.at = "claim"] ELSE NoCall
    <3>1. to.at \notin OfPhone
      BY <1>0, <1>2 DEF Requests, OfPhone
    <3> QED BY <1>1, <2>4, <3>1 DEF VerifyDrops
  <2>5. ASSUME ResendStores(c) PROVE call'[d] = call[d] \/ call'[d].at \notin OfPhone
    BY <2>3, <2>5 DEF ResendStores, Shape, Positions, WellRead, OfToken
  <2> QED BY <1>1, <1>2, <1>3, <2>1, <2>2, <2>3, <2>4, <2>5
          DEF AppStep, Register, Sends, VerifyWrong, Claims
<1>4. ASSUME NEW c \in Calls, NEW p \in Phones, NEW e \in Emails \union {None}, NEW at \in OfPhone,
             Call(c, [NoCall EXCEPT !.at = at, !.phone = p, !.email = e])
      PROVE  call'[d] = call[d] \/ (call'[d].at = at /\ call'[d].phone = p)
  BY <1>0, <1>4 DEF Call, NoCall
<1>5. ASSUME NEW c \in Calls, NEW p \in Phones, FindsNoFree(c, p)
      PROVE  call'[d] = call[d] \/ (call'[d].at = "grant" /\ call'[d].phone = p)
  BY <1>0, <1>5 DEF FindsNoFree, Call, NoCall
<1>6. ASSUME NEW c \in Calls, NEW p \in Phones, Begins(c, p)
      PROVE  /\ UNCHANGED <<account, cache>>
             /\ \/ call'[d] = call[d]
                \/ call'[d].at = "grant" /\ call'[d].phone = p /\ user[p].row /\ user[p].free = 0
                \/ call'[d].at \in {"hash", "import"} /\ call'[d].phone = p /\ user[p].row
                \/ call'[d].at = "revive" /\ call'[d].phone = p /\ p \in away
  <2>1. CASE FindsNoFree(c, p)
    BY <1>5, <2>1 DEF FindsNoFree
  <2>2. ASSUME NEW e \in Emails, WebReads(c, p, e)
        PROVE  call'[d] = call[d] \/ (call'[d].at = "hash" /\ call'[d].phone = p)
    BY <1>4, <2>2 DEF WebReads, OfPhone
  <2>3. ASSUME NEW e \in Blank, ImportReads(c, p, e)
        PROVE  call'[d] = call[d] \/ (call'[d].at = "import" /\ call'[d].phone = p)
    BY <1>4, <2>3 DEF ImportReads, OfPhone, Blank
  <2>4. ASSUME NEW e \in Blank, ReviveReads(c, p, e)
        PROVE  call'[d] = call[d] \/ (call'[d].at = "revive" /\ call'[d].phone = p)
    BY <1>4, <2>4 DEF ReviveReads, OfPhone, Blank
  <2> QED BY <1>6, <2>1, <2>2, <2>3, <2>4 DEF Begins, WebReads, ImportReads, ReviveReads
<1>7. ASSUME \/ \E c \in Calls : LaterStep(c) \/ Dies(c)
             \/ \E p \in Phones : PhoneStep(p)
             \/ \E t \in Tokens : Expires(t)
             \/ UNCHANGED vars
      PROVE  call'[d] = call[d] \/ call'[d].at \notin OfPhone
  BY <1>1, <1>2, <1>7, OthersWriteOne DEF Dies, PhoneStep, Suspends, Reinstates, Links, Expires, vars
<1>8. ASSUME NEW c \in Calls, NEW p \in Phones, Begins(c, p)
      PROVE  \/ call'[d] = call[d]
             \/ /\ call'[d].at \in OfPhone /\ call'[d].phone \in Phones /\ user[call'[d].phone].row
                /\ call'[d].at = "grant" => user[call'[d].phone].free = 0
                /\ UNCHANGED <<account, cache>>
             \/ /\ call'[d].at = "revive" /\ call'[d].phone \in away
                /\ UNCHANGED <<account, cache>>
  BY <1>6, <1>8 DEF OfPhone
<1> QED BY <1>3, <1>7, <1>8 DEF Next, CallStep

LEMMA NextRowsAsRead == AccountInv /\ [Next]_vars => RowsAsRead'
<1> SUFFICES ASSUME AccountInv, [Next]_vars, NEW d \in Calls
             PROVE  /\ call'[d].at \in OfPhone => user'[call'[d].phone].row
                    /\ call'[d].at = "grant" /\ user'[call'[d].phone].by \in Tokens =>
                          form'[user'[call'[d].phone].by].existing
  BY DEF RowsAsRead, StillTrue
<1>1. CASE call'[d] = call[d]
  BY <1>1, TrueStays
<1>2. CASE call'[d].at \notin OfPhone
  BY <1>2 DEF OfPhone
<1>3. CASE /\ call'[d].at \in OfPhone /\ call'[d].phone \in Phones /\ user[call'[d].phone].row
           /\ call'[d].at = "grant" => user[call'[d].phone].free = 0
           /\ UNCHANGED <<account, cache>>
  <2>1. call'[d].at = "grant" => user[call'[d].phone].by \notin Tokens
    BY <1>3 DEF AccountInv, ClaimIsWhole
  <2> QED BY <1>3, <2>1 DEF account
<1>4. CASE call'[d].at = "revive" /\ call'[d].phone \in away /\ UNCHANGED <<account, cache>>
  <2>1. user[call'[d].phone].row
    BY <1>4 DEF AccountInv, Shape, TypeOK, Unowned
  <2> QED BY <1>4, <2>1 DEF account
<1> QED BY <1>1, <1>2, <1>3, <1>4, CallsMove DEF AccountInv

\* A login that is linked stays linked.
LEMMA LinksStay ==
    ASSUME AccountInv, [Next]_vars, NEW s \in Subs, identity[s] # None
    PROVE  identity'[s] = identity[s]
<1>1. CASE account' = account
  BY <1>1 DEF account
<1>2. ASSUME NEW c \in Calls, Claims(c), account' # account PROVE identity'[s] = identity[s]
  BY <1>2, ClaimWrites
<1>3. ASSUME NEW q \in Phones, NEW x \in Subs, Links(x, q) PROVE identity'[s] = identity[s]
  BY <1>3 DEF Links, AccountInv, Shape, TypeOK
<1> QED BY <1>1, <1>2, <1>3, Writers DEF OthersWrite, Suspends, Reinstates, AccountInv

\* An account that keeps its owner keeps its form and its link.
LEMMA PromiseStays ==
    ASSUME AccountInv, [Next]_vars, NEW p \in Phones, user[p].by \in Tokens
    PROVE  LET f == form[user[p].by] IN
           /\ form'[user[p].by] = f /\ f.phone = p
           /\ f.sub # None => identity'[f.sub] = p
<1> DEFINE t == user[p].by
<1>1. /\ form[t].phone = p
      /\ form[t].sub # None => identity[form[t].sub] = p
  BY DEF AccountInv, ClaimIsWhole
<1>2. form[t] # NoForm
  BY <1>1, DistinctAssumption DEF NoForm
<1>3. form'[t] = form[t]
  BY <1>2, FormsStay DEF AccountInv
<1>4. form[t].sub # None => identity'[form[t].sub] = p
  <2> SUFFICES ASSUME form[t].sub # None PROVE identity'[form[t].sub] = p
    OBVIOUS
  <2>1. form[t].sub \in Subs
    BY DEF AccountInv, Shape, TypeOK, Forms
  <2> QED BY <1>1, <2>1, LinksStay, DistinctAssumption
<1> QED BY <1>1, <1>3, <1>4

LEMMA NextWhole == AccountInv /\ [Next]_vars => ClaimIsWhole'
<1> SUFFICES ASSUME AccountInv, [Next]_vars, NEW p \in Phones PROVE WholeAt(p)'
  BY DEF ClaimIsWhole, WholeAt
<1>0. /\ user[p] \in Users /\ user[p].free \in Nat
      /\ ~user[p].row => user[p].free = 0
      /\ user[p].by \in Tokens => /\ p \notin edited => user[p].email = form[user[p].by].email
                                  /\ user[p].free >= 1
                                  /\ ~form[user[p].by].existing => user[p].free = 1
  BY DEF AccountInv, Shape, TypeOK, Unowned, ClaimIsWhole, Users
\* What an account that keeps its owner must not lose.
<1>1. ASSUME user'[p].by = user[p].by,
             user[p].by \in Tokens =>
                /\ p \notin edited' => user'[p].email = form[user[p].by].email
                /\ user'[p].free >= 1
                /\ ~form[user[p].by].existing => user'[p].free = 1
      PROVE  WholeAt(p)'
  <2> SUFFICES ASSUME user[p].by \in Tokens PROVE WholeAt(p)'
    BY <1>1 DEF WholeAt
  <2>1. form'[user[p].by] = form[user[p].by] /\ form[user[p].by].phone = p
        /\ (form[user[p].by].sub # None => identity'[form[user[p].by].sub] = p)
    BY PromiseStays
  <2> QED BY <1>1, <2>1 DEF WholeAt
<1>2. CASE Claimed(p)
  <2>1. PICK t \in Tokens :
          /\ form[t] # NoForm /\ form[t].phone = p
          /\ ~form[t].existing => ~user[p].row
          /\ user'[p] = OwnedBy(user[p], t, form[t].email)
          /\ form[t].sub # None => identity'[form[t].sub] = p
    BY <1>2 DEF Claimed
  <2>2. user'[p].by = t /\ user'[p].email = form[t].email /\ user'[p].free = WithFree(user[p].free)
    BY <2>1 DEF OwnedBy
  <2>3. WithFree(user[p].free) >= 1 /\ (~form[t].existing => WithFree(user[p].free) = 1)
    BY <1>0, <2>1 DEF WithFree
  <2>4. form'[t] = form[t]
    BY <2>1, FormsStay DEF AccountInv
  <2> QED BY <2>1, <2>2, <2>3, <2>4 DEF WholeAt
<1>3. CASE Taken(p, user'[p])
  BY <1>3, DistinctAssumption DEF Taken, WholeAt
<1>4. CASE Granted(p, user'[p])
  <2>1. PICK c \in Calls : call[c].at = "grant" /\ call[c].phone = p
    BY <1>4 DEF Granted
  <2>2. user[p].by \in Tokens => form[user[p].by].existing
    BY <2>1 DEF AccountInv, RowsAsRead, StillTrue
  <2>3. user'[p].by = user[p].by /\ user'[p].email = user[p].email
        /\ user'[p].free = user[p].free + 1 /\ edited' = edited
    BY <1>4 DEF Granted
  <2>4. user'[p].free >= 1
    BY <1>0, <2>3
  <2> QED BY <1>0, <1>1, <2>2, <2>3, <2>4
<1>5. CASE Mailed(p, user'[p])
  <2>1. /\ user'[p].by = user[p].by
        /\ user[p].by \in Tokens => p \in edited'
        /\ user'[p].free = user[p].free \/ user'[p].free = WithFree(user[p].free)
    BY <1>5 DEF Mailed, Edited
  <2>2. user[p].by \in Tokens => user'[p].free = user[p].free
    BY <1>0, <2>1 DEF WithFree
  <2> QED BY <1>0, <1>1, <2>1, <2>2
<1>6. CASE Added(p, user'[p])
  BY <1>6, DistinctAssumption DEF Added, WholeAt
<1>7. CASE Kept(p)
  BY <1>0, <1>1, <1>7 DEF Kept
<1> QED BY <1>2, <1>3, <1>4, <1>5, <1>6, <1>7, RowSteps DEF Rewritten

LEMMA InitAccounts == Init => AccountInv
<1> SUFFICES ASSUME Init PROVE AccountInv
  OBVIOUS
<1>1. \A p \in Phones : user[p].by = None /\ user[p].free = 0
  BY DEF Init, NoUser
<1>2. \A c \in Calls : call[c].at = "idle"
  BY DEF Init, NoCall
<1>3. away = {}
  BY DEF Init
<1> QED BY <1>1, <1>2, <1>3, InitShape, DistinctAssumption
        DEF AccountInv, Unowned, RowsAsRead, StillTrue, OfPhone, ClaimIsWhole

LEMMA NextAccounts == AccountInv /\ [Next]_vars => AccountInv'
<1> SUFFICES ASSUME AccountInv, [Next]_vars PROVE AccountInv'
  OBVIOUS
<1>1. Shape'
  BY NextShape DEF AccountInv
<1>2. Unowned'
  BY NextUnowned DEF Unowned
<1> QED BY <1>1, <1>2, NextRowsAsRead, NextWhole DEF AccountInv

\* An account made in the app has the login, the free community and, until an admin or an import
\* writes another, the email that its registration promised, whatever registrations, logins,
\* imports, edits and revivals cross it.
THEOREM ClaimsAreWhole == Spec => []ClaimIsWhole
<1>1. AccountInv => ClaimIsWhole
  BY DEF AccountInv
<1> QED BY <1>1, InitAccounts, NextAccounts, PTL DEF Spec

\* "Whichever one is verified first wins", and only the website's registration takes over.
THEOREM FirstClaimWins == Spec => FirstClaimStays
<1>1. AccountInv /\ [Next]_vars => [\A p \in Phones : user[p].by # None => user'[p].by \in {user[p].by, Web}]_vars
  BY OwnerStays
<1> QED BY <1>1, InitAccounts, NextAccounts, PTL DEF Spec, FirstClaimStays

-----------------------------------------------------------------------------
(* Which code a record accepts, and whether it was sent. *)

\* A wrong answer holds the record of the last code, and a code that is still to be queued is
\* the last, unless another was stored beside it.
HeldCurrent == \A c \in Calls : call[c].at \in {"wrong", "send"} /\ call[c].tok \notin muddled =>
                                   call[c].rec.code = stored[call[c].tok]

\* The last code was queued, or is about to be, or its call broke off.
Sending(t) == \E c \in Calls : call[c].tok = t /\ call[c].at = "send"
SentCurrent == \A t \in Tokens \ muddled : sent[t] = stored[t] \/ t \in unsent \/ Sending(t)

Accepted == \A t \in Tokens \ muddled : pending[t].code # 0 => pending[t].code = stored[t]

CodeInv == Shape /\ Accepted /\ HeldCurrent /\ SentCurrent

Codes == Accepted' /\ HeldCurrent' /\ SentCurrent'

\* A call that neither ends a "send" nor begins to hold a code.
LEMMA CodesAside ==
    ASSUME CodeInv, NEW c \in Calls, NEW to, Call(c, to), to.at \notin {"wrong", "send"},
           call[c].at # "send", UNCHANGED cache
    PROVE  Codes
<1>1. call \in [Calls -> Requests] /\ call' = [call EXCEPT ![c] = to]
  BY DEF CodeInv, Shape, TypeOK, Call
<1>2. \A d \in Calls : call'[d] = IF d = c THEN to ELSE call[d]
  BY <1>1
<1>3. UNCHANGED <<pending, stored, sent, muddled, unsent>>
  BY DEF cache, codes
<1>4. HeldCurrent'
  BY <1>2, <1>3 DEF CodeInv, HeldCurrent
<1>5. \A t \in Tokens : Sending(t) => Sending(t)'
  BY <1>2 DEF Sending
<1>6. SentCurrent'
  BY <1>3, <1>5 DEF CodeInv, SentCurrent
<1> QED BY <1>3, <1>4, <1>6 DEF Codes, CodeInv, Accepted

LEMMA StoresCodes ==
    ASSUME CodeInv, NEW c \in Calls, NEW t \in Tokens, NEW r, Store(c, t, r), UNCHANGED sent,
           call[c].at \notin {"wrong", "send"}
    PROVE  Codes
<1> DEFINE n == stored[t] + 1
<1> DEFINE sending == [NoCall EXCEPT !.at = "send", !.tok = t, !.rec = [code |-> n, tries |-> 0]]
<1>0. /\ pending \in [Tokens -> Records] /\ call \in [Calls -> Requests]
      /\ stored \in [Tokens -> Nat] /\ muddled \subseteq Tokens
  BY DEF CodeInv, Shape, TypeOK
<1>1. /\ stored' = [stored EXCEPT ![t] = n]
      /\ pending' = [pending EXCEPT ![t] = [code |-> n, tries |-> 0]]
      /\ call' = [call EXCEPT ![c] = sending]
      /\ sending.at = "send" /\ sending.tok = t /\ sending.rec.code = n
  <2>1. stored' = [stored EXCEPT ![t] = n] /\ Call(c, sending)
    BY DEF Store
  <2>2. pending' = [pending EXCEPT ![t] = [code |-> n, tries |-> 0]]
    BY DEF Store, Fresh
  <2>3. sending.at = "send" /\ sending.tok = t /\ sending.rec.code = n
    BY DEF NoCall
  <2> HIDE DEF sending
  <2> QED BY <2>1, <2>2, <2>3 DEF Call
<1> HIDE DEF sending, n
<1>2. \A d \in Calls : call'[d] = IF d = c THEN sending ELSE call[d]
  BY <1>0, <1>1
<1>3. /\ muddled' = IF Busy(t) = {} THEN muddled \ {t} ELSE muddled \union {t}
      /\ unsent' = unsent \ {t} /\ sent' = sent
  BY DEF Store
<1>4. /\ stored'[t] = n /\ pending'[t].code = n
      /\ \A u \in Tokens \ {t} : stored'[u] = stored[u] /\ pending'[u] = pending[u]
  BY <1>0, <1>1
<1>5. Accepted'
  BY <1>3, <1>4 DEF CodeInv, Accepted
<1>6. HeldCurrent'
  <2> SUFFICES ASSUME NEW d \in Calls, call'[d].at \in {"wrong", "send"}, call'[d].tok \notin muddled'
               PROVE  call'[d].rec.code = stored'[call'[d].tok]
    BY DEF HeldCurrent
  <2>1. CASE d = c
    BY <1>1, <1>2, <1>4, <2>1
  <2>2. CASE d # c
    <3>1. call'[d] = call[d] /\ call[d].tok \in Tokens
      BY <1>2, <2>2 DEF CodeInv, Shape, Positions, WellRead, OfToken
    <3>2. call[d].tok # t
      BY <1>3, <3>1 DEF Busy
    <3> QED BY <1>3, <1>4, <3>1, <3>2 DEF CodeInv, HeldCurrent
  <2> QED BY <2>1, <2>2
<1>7. SentCurrent'
  <2> SUFFICES ASSUME NEW u \in Tokens \ muddled'
               PROVE  sent'[u] = stored'[u] \/ u \in unsent' \/ Sending(u)'
    BY DEF SentCurrent
  <2>1. CASE u = t
    BY <1>1, <1>2, <2>1 DEF Sending
  <2>2. CASE u # t
    <3>1. Sending(u) => Sending(u)'
      BY <1>2 DEF Sending
    <3> QED BY <1>3, <1>4, <2>2, <3>1 DEF CodeInv, SentCurrent
  <2> QED BY <2>1, <2>2
<1> QED BY <1>5, <1>6, <1>7 DEF Codes

\* Which calls stop sending when a call moves.
LEMMA SendingStays ==
    ASSUME CodeInv, NEW c \in Calls, NEW to, Call(c, to), NEW t \in Tokens, Sending(t),
           call[c].at # "send" \/ call[c].tok # t
    PROVE  Sending(t)'
<1>1. call' = [call EXCEPT ![c] = to] /\ call \in [Calls -> Requests]
  BY DEF CodeInv, Shape, TypeOK, Call
<1>2. PICK d \in Calls : call[d].tok = t /\ call[d].at = "send"
  BY DEF Sending
<1> QED BY <1>1, <1>2 DEF Sending

LEMMA NextCodes == CodeInv /\ [Next]_vars => Codes
<1> SUFFICES ASSUME CodeInv, [Next]_vars PROVE Codes
  OBVIOUS
<1>0. /\ pending \in [Tokens -> Records] /\ call \in [Calls -> Requests]
      /\ stored \in [Tokens -> Nat] /\ sent \in [Tokens -> Nat] /\ muddled \subseteq Tokens
  BY DEF CodeInv, Shape, TypeOK
<1>1. NoCall.at \notin {"wrong", "send"}
  BY DEF NoCall
<1>2. ASSUME NEW c \in Calls, NEW t \in Tokens, VerifyReads(c, t) PROVE Codes
  <2>1. PICK next \in {"locked", "right", "wrong"} :
         Call(c, [NoCall EXCEPT !.at = next, !.tok = t,
                                !.rec = IF next = "wrong" THEN pending[t] ELSE NoRecord])
    BY <1>2 DEF VerifyReads
  <2> DEFINE to == [NoCall EXCEPT !.at = next, !.tok = t,
                                !.rec = IF next = "wrong" THEN pending[t] ELSE NoRecord]
  <2>2. to.at = next /\ to.tok = t /\ (next = "wrong" => to.rec = pending[t])
    BY DEF NoCall
  <2> HIDE DEF to
  <2>3. Call(c, to)
    BY <2>1 DEF to
  <2>4. UNCHANGED <<pending, stored, sent, muddled, unsent>> /\ pending[t].code # 0 /\ call[c].at = "idle"
    BY <1>2 DEF VerifyReads, cache, codes
  <2>5. HeldCurrent'
    <3> SUFFICES ASSUME NEW d \in Calls, call'[d].at \in {"wrong", "send"}, call'[d].tok \notin muddled
                 PROVE  call'[d].rec.code = stored[call'[d].tok]
      BY <2>4 DEF HeldCurrent
    <3>1. call'[d] = IF d = c THEN to ELSE call[d]
      BY <1>0, <2>3 DEF Call
    <3>2. CASE d = c
      <4>1. to.at = "wrong" /\ to.rec = pending[t] /\ to.tok = t
        BY <2>2, <3>1, <3>2
      <4> QED BY <2>4, <3>1, <3>2, <4>1 DEF CodeInv, Accepted
    <3>3. CASE d # c
      BY <3>1, <3>3 DEF CodeInv, HeldCurrent
    <3> QED BY <3>2, <3>3
  <2>6. SentCurrent'
    <3>1. \A u \in Tokens : Sending(u) => Sending(u)'
      BY <2>3, <2>4, SendingStays
    <3> QED BY <2>4, <3>1 DEF CodeInv, SentCurrent
  <2> QED BY <2>4, <2>5, <2>6 DEF Codes, CodeInv, Accepted
\* A call that ends, or goes on without a code, while the codes stay as they are.
<1>3. ASSUME NEW c \in Calls, NEW to, Call(c, to), to.at \notin {"wrong", "send"}, call[c].at # "send",
             UNCHANGED codes
      PROVE  HeldCurrent' /\ SentCurrent'
  <2>1. \A d \in Calls : call'[d] = IF d = c THEN to ELSE call[d]
    BY <1>0, <1>3 DEF Call
  <2>2. HeldCurrent'
    BY <1>3, <2>1 DEF CodeInv, HeldCurrent, codes
  <2>3. \A u \in Tokens : Sending(u) => Sending(u)'
    BY <1>3, SendingStays
  <2> QED BY <1>3, <2>2, <2>3 DEF CodeInv, SentCurrent, codes
<1>4. ASSUME NEW c \in Calls, VerifyWrong(c) PROVE Codes
  <2> DEFINE t == call[c].tok
  <2>1. t \in Tokens /\ call[c].rec \in Records
    BY <1>0, <1>4 DEF VerifyWrong, CodeInv, Shape, Positions, WellRead, OfToken, Requests
  <2>2. HeldCurrent' /\ SentCurrent'
    BY <1>1, <1>3, <1>4 DEF VerifyWrong
  <2>3. t \notin muddled => call[c].rec.code = stored[t]
    BY <1>4 DEF VerifyWrong, CodeInv, HeldCurrent
  <2>4. pending' = [pending EXCEPT ![t] = [call[c].rec EXCEPT !.tries = @ + 1]] /\ UNCHANGED codes
    BY <1>4 DEF VerifyWrong
  <2>5. pending'[t].code = call[c].rec.code
    BY <1>0, <2>1, <2>4 DEF Records
  <2>6. \A u \in Tokens \ {t} : pending'[u] = pending[u]
    BY <1>0, <2>4
  <2>7. Accepted'
    BY <2>3, <2>4, <2>5, <2>6 DEF CodeInv, Accepted, codes
  <2> QED BY <2>2, <2>7 DEF Codes
\* A record that goes accepts nothing.
<1>5. ASSUME NEW t \in Tokens, pending' = [pending EXCEPT ![t] = NoRecord], UNCHANGED codes
      PROVE  Accepted'
  BY <1>0, <1>5 DEF CodeInv, Accepted, NoRecord, codes
<1>6. ASSUME NEW c \in Calls, VerifyDrops(c) PROVE Codes
  <2> DEFINE to == IF call[c].at = "right" THEN [call[c] EXCEPT !.at = "claim"] ELSE NoCall
  <2>1. call[c].tok \in Tokens /\ call[c] \in Requests
    BY <1>0, <1>6 DEF VerifyDrops, CodeInv, Shape, Positions, WellRead, OfToken
  <2>2. to.at \notin {"wrong", "send"}
    BY <1>1, <2>1 DEF Requests
  <2>3. /\ Call(c, to) /\ UNCHANGED codes /\ call[c].at # "send"
        /\ pending' = [pending EXCEPT ![call[c].tok] = NoRecord]
    BY <1>6 DEF VerifyDrops
  <2> HIDE DEF to
  <2> QED BY <1>3, <1>5, <2>1, <2>2, <2>3 DEF Codes
<1>7. ASSUME NEW t \in Tokens, Expires(t) PROVE Codes
  BY <1>5, <1>7 DEF Expires, Codes, CodeInv, HeldCurrent, SentCurrent, Sending, codes
<1>8. ASSUME NEW c \in Calls, Sends(c) PROVE Codes
  <2> DEFINE t == call[c].tok
  <2>1. /\ t \in Tokens /\ Call(c, NoCall) /\ sent' = [sent EXCEPT ![t] = call[c].rec.code]
        /\ UNCHANGED <<pending, stored, muddled, unsent>> /\ call[c].at = "send"
    BY <1>8 DEF Sends, CodeInv, Shape, Positions, WellRead, OfToken
  <2>2. \A d \in Calls : call'[d] = IF d = c THEN NoCall ELSE call[d]
    BY <1>0, <2>1 DEF Call
  <2>3. HeldCurrent'
    BY <1>1, <2>1, <2>2 DEF CodeInv, HeldCurrent
  <2>4. \A u \in Tokens \ {t} : Sending(u) => Sending(u)'
    BY <2>1, SendingStays
  <2>5. t \notin muddled => sent'[t] = stored[t]
    BY <1>0, <2>1 DEF CodeInv, HeldCurrent
  <2>6. \A u \in Tokens \ {t} : sent'[u] = sent[u]
    BY <1>0, <2>1
  <2>7. SentCurrent'
    BY <2>1, <2>4, <2>5, <2>6 DEF CodeInv, SentCurrent
  <2> QED BY <2>1, <2>3, <2>7 DEF Codes, CodeInv, Accepted
<1>9. ASSUME NEW c \in Calls, Dies(c) PROVE Codes
  <2>1. /\ Call(c, NoCall) /\ UNCHANGED <<pending, stored, sent, muddled>>
        /\ unsent' = IF call[c].at = "send" THEN unsent \union {call[c].tok} ELSE unsent
    BY <1>9 DEF Dies
  <2>2. \A d \in Calls : call'[d] = IF d = c THEN NoCall ELSE call[d]
    BY <1>0, <2>1 DEF Call
  <2>3. HeldCurrent'
    BY <1>1, <2>1, <2>2 DEF CodeInv, HeldCurrent
  <2>4. \A u \in Tokens : Sending(u) => Sending(u)' \/ u \in unsent'
    BY <2>1, SendingStays
  <2>5. SentCurrent'
    BY <2>1, <2>4 DEF CodeInv, SentCurrent
  <2> QED BY <2>1, <2>3, <2>5 DEF Codes, CodeInv, Accepted
<1>10. ASSUME NEW c \in Calls, ResendStores(c) PROVE Codes
  BY <1>10, StoresCodes DEF ResendStores, CodeInv, Shape, Positions, WellRead, OfToken
<1>11. ASSUME NEW c \in Calls, NEW t \in Tokens, NEW p \in Phones, NEW e \in Emails,
              NEW s \in Subs \union {None}, Register(c, t, p, e, s)
       PROVE  Codes
  BY <1>11, StoresCodes DEF Register
\* Everything else leaves the records alone.
<1>12. ASSUME UNCHANGED <<cache, call>> PROVE Codes
  BY <1>12 DEF cache, codes, Codes, CodeInv, Accepted, HeldCurrent, SentCurrent, Sending
<1>13. ASSUME NEW c \in Calls, NEW t \in Tokens, ResendReads(c, t) PROVE Codes
  <2>1. [NoCall EXCEPT !.at = "store", !.tok = t].at \notin {"wrong", "send"}
    BY DEF NoCall
  <2> QED BY <1>13, <2>1, CodesAside DEF ResendReads
<1>14. ASSUME NEW c \in Calls, NEW p \in Phones, Begins(c, p) PROVE Codes
  <2>1. /\ [NoCall EXCEPT !.at = "grant", !.phone = p].at \notin {"wrong", "send"}
        /\ \A e \in Blank : /\ [NoCall EXCEPT !.at = "hash", !.phone = p, !.email = e].at \notin {"wrong", "send"}
                            /\ [NoCall EXCEPT !.at = "import", !.phone = p, !.email = e].at \notin {"wrong", "send"}
                            /\ [NoCall EXCEPT !.at = "revive", !.phone = p, !.email = e].at \notin {"wrong", "send"}
    BY DEF NoCall
  <2> QED BY <1>14, <2>1, CodesAside DEF Begins, FindsNoFree, WebReads, ImportReads, ReviveReads, Blank
<1>15. ASSUME NEW c \in Calls, Claims(c) \/ LaterStep(c) PROVE Codes
  <2>1. UNCHANGED cache /\ Call(c, NoCall) /\ call[c].at # "send"
    BY <1>15 DEF Claims, LaterStep, GrantsFree, WebWrites, ImportWrites, Revives
  <2> QED BY <1>1, <2>1, CodesAside
<1>16. ASSUME NEW p \in Phones, PhoneStep(p) PROVE Codes
  BY <1>12, <1>16 DEF PhoneStep, AdminAdds, AdminEdits, Suspends, Reinstates, Links
<1> QED BY <1>2, <1>4, <1>6, <1>7, <1>8, <1>9, <1>10, <1>11, <1>12, <1>13, <1>14, <1>15, <1>16
        DEF Next, vars, CallStep, AppStep

\* The record accepts the code that was stored last, and that is the last one sent, on its way, or
\* broken off; but for codes stored in the middle of another call for the same registration.
THEOREM LastCodeCounts == Spec => []CodeIsCurrent
<1>1. Init => CodeInv
  BY InitShape DEF Init, NoRecord, NoCall, CodeInv, Accepted, HeldCurrent, SentCurrent
<1>2. CodeInv /\ [Next]_vars => CodeInv'
  BY NextShape, NextCodes DEF CodeInv, Codes
<1>3. CodeInv => CodeIsCurrent
  BY DEF CodeInv, CodeIsCurrent, Accepted, SentCurrent, Sending, Busy
<1> QED BY <1>1, <1>2, <1>3, PTL DEF Spec
=============================================================================
