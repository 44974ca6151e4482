------------------------- MODULE ServicePaymentsProofs -------------------------
(***************************************************************************)
(* Proofs about ServicePayments, for every number of quotes, orders,       *)
(* payments, admins, taps and webhook handlers.                            *)
(***************************************************************************)
EXTENDS ServicePayments, TLAPS

\* What a program counter says of the registers that go with it: a tap past its checks
\* has a quote, one past the gateway call an order; a gateway order is for a quote, a
\* payment attempt is on an order that was handed out, a handler has an event.
WellFormed ==
    /\ \A t \in Taps : tapAt[t] # "idle" => tapQuote[t] \in Quotes
    /\ \A t \in Taps : tapAt[t] \in {"insert", "share"} =>
        /\ tapOrder[t] \in Orders
        /\ orderStatus[tapOrder[t]] = "gateway"
        /\ \A u \in Taps \ {t} : tapAt[u] \in {"insert", "share"} => tapOrder[u] # tapOrder[t]
    /\ \A o \in Orders : orderStatus[o] # "none" => orderQuote[o] \in Quotes
    /\ \A p \in Payments : gwState[p] # "none" => gwOrder[p] \in handed
    /\ \A h \in Hooks : hookAt[h] # "idle" => hookEvent[h] \in Events /\ Happened(hookEvent[h])

Shape == TypeOK /\ WellFormed

LEMMA ShapeInit == Init => Shape
<1> SUFFICES ASSUME Init PROVE Shape
  OBVIOUS
<1>1. TypeOK
  BY DEF Init, TypeOK
<1>2. WellFormed
  BY DEF Init, WellFormed
<1> QED
  BY <1>1, <1>2 DEF Shape

\* The rows and registers WellFormed speaks of.
LEMMA WellFormedFrame ==
    WellFormed /\ UNCHANGED <<orderVars, gatewayVars, hookVars, tapVars>> => WellFormed'
  BY DEF WellFormed, Happened, Captured, orderVars, gatewayVars, hookVars, tapVars

LEMMA ShapeAdmin == Shape /\ AdminStep => Shape'
<1> SUFFICES ASSUME Shape, AdminStep PROVE Shape'
  OBVIOUS
<1>a. WellFormed'
  BY WellFormedFrame DEF Shape, AdminStep, SaveBillingSettings, ResolveReview, SendQuote, Claim,
     Reassign, CloseRead, CloseCompleted, CloseDeclined, CloseRefused, CloseAs
<1>b. TypeOK'
  <2> USE DEF Shape, TypeOK, quoteVars, orderVars, ledgerVars, gatewayVars,
              hookVars, tapVars, requestVars
  <2>1. CASE SaveBillingSettings
    BY <2>1 DEF SaveBillingSettings
  <2>2. CASE ResolveReview
    BY <2>2 DEF ResolveReview
  <2>3. ASSUME NEW a \in Admins, NEW confirm \in BOOLEAN, SendQuote(a, confirm) PROVE TypeOK'
    BY <2>3 DEF SendQuote
  <2>4. ASSUME NEW a \in Admins, Claim(a) PROVE TypeOK'
    BY <2>4 DEF Claim
  <2>5. ASSUME NEW a \in Admins, NEW to \in Admins, Reassign(a, to) PROVE TypeOK'
    BY <2>5 DEF Reassign
  <2>6. ASSUME NEW a \in Admins, CloseRead(a) PROVE TypeOK'
    BY <2>6 DEF CloseRead
  <2>7. ASSUME NEW a \in Admins, CloseCompleted(a) PROVE TypeOK'
    BY <2>7 DEF CloseCompleted, CloseAs, Withdrawn
  <2>8. ASSUME NEW a \in Admins, CloseDeclined(a) PROVE TypeOK'
    BY <2>8 DEF CloseDeclined, CloseAs, Withdrawn
  <2>9. ASSUME NEW a \in Admins, CloseRefused(a) PROVE TypeOK'
    BY <2>9 DEF CloseRefused
  <2> QED
    BY <2>1, <2>2, <2>3, <2>4, <2>5, <2>6, <2>7, <2>8, <2>9 DEF AdminStep
<1> QED
  BY <1>a, <1>b DEF Shape

LEMMA ShapeTap == ASSUME Shape, NEW t \in Taps, TapStep(t) PROVE Shape'
<1> USE DEF Shape, TypeOK, WellFormed, Happened, Captured, quoteVars, orderVars, ledgerVars, gatewayVars,
            hookVars, tapVars, requestVars, TapGoes, TapReturns, HandOver, Unpaid
<1>1. CASE MarkStarted(t)
  BY <1>1 DEF MarkStarted
<1>2. CASE ReuseUnpaid(t)
  BY <1>2 DEF ReuseUnpaid
<1>3. CASE NoUnpaid(t)
  BY <1>3 DEF NoUnpaid
<1>4. CASE CreateAtGateway(t)
  BY <1>4 DEF CreateAtGateway
<1>5. CASE InsertOrder(t)
  BY <1>5 DEF InsertOrder
<1>6. CASE InsertLoses(t)
  BY <1>6 DEF InsertLoses
<1>7. CASE ShareWinner(t)
  BY <1>7 DEF ShareWinner
<1>8. CASE TapEnds(t)
  BY <1>8 DEF TapEnds
<1> QED
  BY <1>1, <1>2, <1>3, <1>4, <1>5, <1>6, <1>7, <1>8 DEF TapStep

LEMMA ShapeSettle == 
    ASSUME Shape, NEW p \in Payments, NEW exact \in BOOLEAN, Captured(p), Settle(p, exact),
           UNCHANGED <<processed>>,
           hookAt' \in [Hooks -> {"idle", "process", "mark"}],
           hookEvent' = hookEvent,
           \A h \in Hooks : hookAt'[h] # "idle" => hookAt[h] # "idle"
    PROVE  Shape'
<1> USE DEF Shape, TypeOK, WellFormed, gatewayVars, tapVars, requestVars, ledgerVars,
            Settle, RecordCaptured, Captured, Happened
<1>1. CASE SettleUnknown(p)
  BY <1>1 DEF SettleUnknown
<1>2. CASE SettleAgain(p)
  BY <1>2 DEF SettleAgain
<1>3. CASE SettleFlagged(p, exact)
  BY <1>3 DEF SettleFlagged, Undecided
<1>4. CASE Recorded(gwOrder[p]) /\ SettleApplied(p, exact)
  BY <1>4 DEF SettleApplied, Recorded
<1> QED
  BY <1>1, <1>2, <1>3, <1>4

LEMMA ShapeNext == Shape /\ [Next]_vars => Shape'
<1> SUFFICES ASSUME Shape, [Next]_vars PROVE Shape'
  OBVIOUS
<1> USE DEF Shape, TypeOK, WellFormed, Happened, Captured, quoteVars, orderVars, ledgerVars, gatewayVars,
            hookVars, tapVars, requestVars
<1>1. CASE AdminStep
  BY <1>1, ShapeAdmin
<1>2. CASE Cancel
  BY <1>2 DEF Cancel, Withdrawn
<1>3. ASSUME NEW t \in Taps, NEW q \in Quotes, PayTapped(t, q) PROVE Shape'
  BY <1>3 DEF PayTapped
<1>4. ASSUME NEW t \in Taps, TapStep(t) PROVE Shape'
  BY <1>4, ShapeTap
<1>5. ASSUME NEW p \in Payments, Verify(p) PROVE Shape'
  <2>1. /\ Captured(p) /\ Settle(p, TRUE)
        /\ UNCHANGED <<processed>> /\ hookEvent' = hookEvent /\ hookAt' = hookAt
    BY <1>5 DEF Verify
  <2>2. hookAt' \in [Hooks -> {"idle", "process", "mark"}]
    BY <2>1
  <2> HIDE DEF Shape
  <2> QED
    BY <2>1, <2>2, ShapeSettle
<1>6. ASSUME NEW p \in Payments, LateCapture(p) PROVE Shape'
  BY <1>6 DEF LateCapture
<1>7. ASSUME NEW p \in Payments, NEW o \in Orders, AttemptFails(p, o) PROVE Shape'
  BY <1>7 DEF AttemptFails
<1>8. ASSUME NEW p \in Payments, NEW o \in Orders, NEW exact \in AmountMatches, Capture(p, o, exact)
      PROVE Shape'
  BY <1>8, BoundsAssumption DEF Capture
<1>9. ASSUME NEW h \in Hooks, NEW e \in Events, Deliver(h, e) PROVE Shape'
  BY <1>9 DEF Deliver
<1>10. ASSUME NEW h \in Hooks, ProcessCaptured(h) PROVE Shape'
  <2> DEFINE p == hookEvent[h][1]
  <2>1. p \in Payments /\ gwExact[p] \in BOOLEAN
    BY <1>10 DEF ProcessCaptured, Events
  <2>2. Captured(p)
    BY <1>10 DEF ProcessCaptured, Happened
  <2>3. hookAt' = [hookAt EXCEPT ![h] = "mark"]
    BY <1>10 DEF ProcessCaptured
  <2>4. /\ hookAt' \in [Hooks -> {"idle", "process", "mark"}]
        /\ \A k \in Hooks : hookAt'[k] # "idle" => hookAt[k] # "idle"
    BY <2>3, <1>10 DEF ProcessCaptured
  <2>5. Settle(p, gwExact[p]) /\ UNCHANGED <<processed>> /\ hookEvent' = hookEvent
    BY <1>10 DEF ProcessCaptured
  <2> HIDE DEF Shape, p
  <2> QED
    BY <2>1, <2>2, <2>4, <2>5, ShapeSettle
<1>11. ASSUME NEW h \in Hooks, ProcessFailed(h) PROVE Shape'
  <2>1. TypeOK'
    BY <1>11 DEF ProcessFailed, FailedRow
  <2>2. WellFormed'
    BY <1>11 DEF ProcessFailed
  <2> QED
    BY <2>1, <2>2
<1>12. ASSUME NEW h \in Hooks, MarkProcessed(h) PROVE Shape'
  BY <1>12 DEF MarkProcessed, HookEnds
<1>13. ASSUME NEW h \in Hooks, HookFails(h) PROVE Shape'
  BY <1>13 DEF HookFails, HookEnds
<1>14. CASE SweepStep
  <2>1. TypeOK'
    BY <1>14 DEF SweepStep, SweepStart, SweepDies, SweepExpire
  <2>2. WellFormed'
    BY <1>14, WellFormedFrame DEF SweepStep, SweepStart, SweepDies, SweepExpire
  <2> QED
    BY <2>1, <2>2
<1>15. CASE TimeStep
  <2>1. TypeOK'
    <3>1. ASSUME NEW q \in Quotes, Lapse(q) PROVE TypeOK'
      BY <3>1 DEF Lapse
    <3>2. ASSUME NEW q \in Quotes, WindowCloses(q) PROVE TypeOK'
      BY <3>2 DEF WindowCloses
    <3> QED
      BY <1>15, <3>1, <3>2 DEF TimeStep
  <2>2. WellFormed'
    BY <1>15, WellFormedFrame DEF TimeStep, Lapse, WindowCloses
  <2> QED
    BY <2>1, <2>2
<1>16. CASE UNCHANGED vars
  BY <1>16 DEF vars
<1> QED
  BY <1>1, <1>2, <1>3, <1>4, <1>5, <1>6, <1>7, <1>8, <1>9, <1>10, <1>11, <1>12, <1>13,
     <1>14, <1>15, <1>16 DEF Next, MemberStep, GatewayStep, HookStep

\* Every variable keeps its type in every reachable state, and every program counter
\* the registers that go with it.
THEOREM ShapeHolds == Spec => []Shape
<1>1. Init => Shape
  BY ShapeInit
<1>2. Shape /\ [Next]_vars => Shape'
  BY ShapeNext
<1> QED
  BY <1>1, <1>2, PTL DEF Spec

\* Type correctness of the request, its quotes, orders, payments and executions.
THEOREM TypeCorrect == Spec => []TypeOK
  BY ShapeHolds, PTL DEF Shape

-----------------------------------------------------------------------------
(* The quotes. *)

LEMMA QuoteFrame == QuoteMatchesStatus /\ UNCHANGED <<status, quote>> => QuoteMatchesStatus'
  BY DEF QuoteMatchesStatus, Active

\* Withdrawing the active quote and closing the request go together.
LEMMA QuoteWithdrawn ==
    ASSUME Shape, QuoteMatchesStatus, status' = "closed", quote' = Withdrawn
    PROVE  QuoteMatchesStatus'
  BY DEF QuoteMatchesStatus, Active, Withdrawn, Shape, TypeOK

\* So do taking the one active quote away and leaving quote_sent.
LEMMA QuoteTaken ==
    ASSUME Shape, QuoteMatchesStatus, NEW q \in Quotes, Active(q),
           NEW to \in {"expired", "paid"}, quote' = [quote EXCEPT ![q] = to],
           status' \in {"requested", "paid"}
    PROVE  QuoteMatchesStatus'
<1>1. \A r \in Quotes : r # q => quote[r] # "active"
  BY DEF QuoteMatchesStatus, Active, Quotes
<1> QED
  BY <1>1 DEF QuoteMatchesStatus, Active, Shape, TypeOK

LEMMA QuoteSettle ==
    ASSUME Shape, QuoteMatchesStatus, NEW p \in Payments, NEW exact, Captured(p),
           Settle(p, exact)
    PROVE  QuoteMatchesStatus'
<1>1. CASE SettleUnknown(p)
  BY <1>1, QuoteFrame DEF SettleUnknown, requestVars
<1>2. CASE SettleAgain(p)
  BY <1>2, QuoteFrame DEF SettleAgain, requestVars
<1>3. CASE SettleFlagged(p, exact)
  BY <1>3, QuoteFrame DEF SettleFlagged
<1>4. CASE Recorded(gwOrder[p]) /\ SettleApplied(p, exact)
  <2> DEFINE q == orderQuote[gwOrder[p]]
  <2>1. q \in Quotes
    BY <1>4 DEF Shape, TypeOK, WellFormed, Captured, Recorded
  <2>2. Active(q) /\ quote' = [quote EXCEPT ![q] = "paid"] /\ status' = "paid"
    BY <1>4 DEF SettleApplied, QuoteIsOpen
  <2> QED
    BY <2>1, <2>2, QuoteTaken
<1> QED
  BY <1>1, <1>2, <1>3, <1>4 DEF Settle

LEMMA QuoteNext == Shape /\ QuoteMatchesStatus /\ [Next]_vars => QuoteMatchesStatus'
<1> SUFFICES ASSUME Shape, QuoteMatchesStatus, [Next]_vars PROVE QuoteMatchesStatus'
  OBVIOUS
<1> USE DEF requestVars, quoteVars
<1>1. ASSUME NEW a \in Admins, NEW confirm \in BOOLEAN, SendQuote(a, confirm)
      PROVE  QuoteMatchesStatus'
  <2>1. PICK v \in Quotes :
        /\ NextVersion(v)
        /\ quote' = [q \in Quotes |-> IF q = v THEN "active"
                                      ELSE IF Active(q) THEN "superseded" ELSE quote[q]]
    BY <1>1 DEF SendQuote
  <2>2. \A q \in Quotes : q > v => quote[q] = "none"
    BY <2>1 DEF NextVersion, Quotes
  <2>3. status' = "quote_sent"
    BY <1>1 DEF SendQuote
  <2> QED
    BY <2>1, <2>2, <2>3 DEF QuoteMatchesStatus, Active, Quotes
<1>2. ASSUME NEW a \in Admins, CloseCompleted(a) PROVE QuoteMatchesStatus'
  BY <1>2, QuoteFrame, QuoteWithdrawn DEF CloseCompleted, CloseAs
<1>3. ASSUME NEW a \in Admins, CloseDeclined(a) PROVE QuoteMatchesStatus'
  BY <1>3, QuoteFrame, QuoteWithdrawn DEF CloseDeclined, CloseAs
<1>4. CASE AdminStep
  BY <1>1, <1>2, <1>3, <1>4, QuoteFrame
  DEF AdminStep, SaveBillingSettings, ResolveReview, Claim, Reassign, CloseRead, CloseRefused
<1>5. CASE Cancel
  BY <1>5, QuoteWithdrawn DEF Cancel
<1>6. ASSUME NEW t \in Taps, TapStep(t) PROVE QuoteMatchesStatus'
  BY <1>6, QuoteFrame
  DEF TapStep, MarkStarted, ReuseUnpaid, NoUnpaid, CreateAtGateway, InsertOrder, InsertLoses,
      ShareWinner, TapEnds, TapGoes, TapReturns, HandOver
<1>7. ASSUME NEW t \in Taps, NEW q \in Quotes, PayTapped(t, q) PROVE QuoteMatchesStatus'
  BY <1>7, QuoteFrame DEF PayTapped
<1>8. ASSUME NEW p \in Payments, Verify(p) PROVE QuoteMatchesStatus'
  BY <1>8, QuoteSettle DEF Verify
<1>9. CASE GatewayStep
  BY <1>9, QuoteFrame DEF GatewayStep, LateCapture, AttemptFails, Capture
<1>10. ASSUME NEW h \in Hooks, ProcessCaptured(h) PROVE QuoteMatchesStatus'
  <2> DEFINE p == hookEvent[h][1]
  <2>1. p \in Payments /\ Captured(p)
    BY <1>10 DEF ProcessCaptured, Events, Shape, WellFormed, Happened
  <2>2. Settle(p, gwExact[p])
    BY <1>10 DEF ProcessCaptured
  <2> QED
    BY <2>1, <2>2, QuoteSettle
<1>11. ASSUME NEW h \in Hooks, HookStep(h) PROVE QuoteMatchesStatus'
  BY <1>10, <1>11, QuoteFrame
  DEF HookStep, Deliver, ProcessFailed, MarkProcessed, HookFails, HookEnds
<1>12. ASSUME NEW q \in Quotes, SweepExpire(q) PROVE QuoteMatchesStatus'
  <2>1. CASE StillDue(q)
    <3>1. Active(q) /\ status = "quote_sent"
      BY <2>1 DEF StillDue, IsDue, QuoteMatchesStatus
    <3>2. quote' = [quote EXCEPT ![q] = "expired"] /\ status' = "requested"
      BY <1>12, <2>1, <3>1 DEF SweepExpire
    <3> QED
      BY <3>1, <3>2, QuoteTaken
  <2>2. CASE ~StillDue(q)
    BY <1>12, <2>2, QuoteFrame DEF SweepExpire
  <2> QED
    BY <2>1, <2>2
<1>13. CASE SweepStep
  BY <1>12, <1>13, QuoteFrame DEF SweepStep, SweepStart, SweepDies
<1>14. CASE TimeStep
  BY <1>14, QuoteFrame DEF TimeStep, Lapse, WindowCloses
<1>15. CASE UNCHANGED vars
  BY <1>15, QuoteFrame DEF vars
<1> QED
  BY <1>4, <1>5, <1>6, <1>7, <1>8, <1>9, <1>11, <1>13, <1>14, <1>15 DEF Next, MemberStep

\* A request is in quote_sent exactly while its newest quote is active, in every
\* interleaving of quotes, payments, cancels, closes and sweeps.
THEOREM QuoteCorrect == Spec => []QuoteMatchesStatus
<1>1. Init => Shape /\ QuoteMatchesStatus
  BY ShapeInit DEF Init, QuoteMatchesStatus, Active
<1>2. Shape /\ QuoteMatchesStatus /\ [Next]_vars => (Shape /\ QuoteMatchesStatus)'
  BY ShapeNext, QuoteNext
<1> QED
  BY <1>1, <1>2, PTL DEF Spec

-----------------------------------------------------------------------------
(* The money. *)

\* A tap past its mark, and every order, is for a quote that was sent and whose billing
\* details are stored: what makes the invoice branch of settle certain.
Billed ==
    /\ \A q \in Quotes : quote[q] # "none" => configured
    /\ \A t \in Taps : tapAt[t] \notin {"idle", "mark"} => started[tapQuote[t]] # "no"
    /\ \A o \in Orders : orderStatus[o] # "none" => started[orderQuote[o]] # "no"

\* A decided payment was captured, is recorded as such and its order is paid, so no order
\* is decided twice; the member only has orders the application knows.
Decided ==
    /\ \A o \in handed : Recorded(o)
    /\ \A p \in settled \union flagged :
        Captured(p) /\ payRow[p] = "captured" /\ orderStatus[gwOrder[p]] = "paid"

ClosedHasReason == status = "closed" <=> closedReason # None

Ledger == Decided /\ ClosedHasReason /\ PaidExactlyOnce /\ ReasonMatchesMoney

\* The inductive invariant.
Inv == Shape /\ QuoteMatchesStatus /\ Billed /\ Ledger

LEMMA BilledNext == Shape /\ QuoteMatchesStatus /\ Billed /\ [Next]_vars => Billed'
<1> SUFFICES ASSUME Shape, QuoteMatchesStatus, Billed, [Next]_vars PROVE Billed'
  OBVIOUS
<1>f. UNCHANGED <<configured, quote, started, orderStatus, orderQuote, tapAt, tapQuote>> => Billed'
  BY DEF Billed
<1> USE DEF requestVars, quoteVars, orderVars, tapVars
<1>1. CASE SaveBillingSettings
  BY <1>1 DEF SaveBillingSettings, Billed
<1>2. ASSUME NEW a \in Admins, NEW confirm \in BOOLEAN, SendQuote(a, confirm) PROVE Billed'
  BY <1>2 DEF SendQuote, Billed
<1>3. ASSUME NEW a \in Admins, CloseCompleted(a) \/ CloseDeclined(a) PROVE Billed'
  BY <1>3 DEF CloseCompleted, CloseDeclined, CloseAs, Withdrawn, Active, Billed, Shape, TypeOK
<1>4. CASE AdminStep
  BY <1>1, <1>2, <1>3, <1>4, <1>f
  DEF AdminStep, ResolveReview, Claim, Reassign, CloseRead, CloseRefused
<1>5. CASE Cancel
  BY <1>5 DEF Cancel, Withdrawn, Active, Billed, Shape, TypeOK
<1>6. ASSUME NEW t \in Taps, NEW q \in Quotes, PayTapped(t, q) PROVE Billed'
  BY <1>6 DEF PayTapped, Billed, Shape, TypeOK
<1>7. ASSUME NEW t \in Taps, TapStep(t) PROVE Billed'
  <2> USE DEF Billed, Shape, TypeOK, WellFormed, TapGoes, TapReturns, HandOver
  <2>1. CASE MarkStarted(t)
    BY <2>1 DEF MarkStarted
  <2>2. CASE CreateAtGateway(t)
    BY <2>2 DEF CreateAtGateway
  <2>3. CASE InsertOrder(t)
    BY <2>3 DEF InsertOrder
  <2>4. CASE NoUnpaid(t) \/ InsertLoses(t)
    BY <2>4 DEF NoUnpaid, InsertLoses
  <2>5. CASE ReuseUnpaid(t) \/ ShareWinner(t) \/ TapEnds(t)
    BY <2>5 DEF ReuseUnpaid, ShareWinner, TapEnds
  <2> QED
    BY <1>7, <2>1, <2>2, <2>3, <2>4, <2>5 DEF TapStep
<1>8. ASSUME NEW p \in Payments, NEW exact, Settle(p, exact) PROVE Billed'
  BY <1>8 DEF Settle, SettleUnknown, SettleAgain, SettleFlagged, SettleApplied, Undecided, QuoteIsOpen, Active,
     Billed, Shape, TypeOK
<1>9. ASSUME NEW p \in Payments, Verify(p) PROVE Billed'
  BY <1>8, <1>9 DEF Verify
<1>10. CASE GatewayStep
  BY <1>10, <1>f DEF GatewayStep, LateCapture, AttemptFails, Capture
<1>11. ASSUME NEW h \in Hooks, HookStep(h) PROVE Billed'
  <2>1. CASE ProcessCaptured(h)
    BY <2>1, <1>8 DEF ProcessCaptured, Events, Shape, WellFormed
  <2> QED
    BY <2>1, <1>11, <1>f DEF HookStep, Deliver, ProcessFailed, MarkProcessed, HookFails, HookEnds
<1>12. CASE SweepStep
  BY <1>12 DEF SweepStep, SweepStart, SweepDies, SweepExpire, StillDue, IsDue, Active, Billed,
     Shape, TypeOK
<1>13. CASE TimeStep
  <2>1. ASSUME NEW q \in Quotes, Lapse(q) PROVE Billed'
    BY <2>1, <1>f DEF Lapse
  <2>2. ASSUME NEW q \in Quotes, WindowCloses(q) PROVE Billed'
    BY <2>2 DEF WindowCloses, Billed, Shape, TypeOK
  <2> QED
    BY <1>13, <2>1, <2>2 DEF TimeStep
<1>14. CASE UNCHANGED vars
  BY <1>14, <1>f DEF vars
<1> QED
  BY <1>4, <1>5, <1>6, <1>7, <1>9, <1>10, <1>11, <1>12, <1>13, <1>14 DEF Next, MemberStep

LEMMA LedgerFrame ==
    Ledger /\ UNCHANGED <<status, closedReason, quote, handed, orderStatus, orderQuote,
                          gwState, gwOrder, payRow, settled, flagged, invoices>> => Ledger'
  BY DEF Ledger, Decided, ClosedHasReason, PaidExactlyOnce, ReasonMatchesMoney, Recorded, Captured

\* Cancelling, or closing with the reason that fits the status, leaves the money alone.
LEMMA LedgerClosed ==
    ASSUME Inv, status # "closed", status' = "closed", quote' = Withdrawn,
           closedReason' \in {"completed", "declined", "cancelled_by_member"},
           closedReason' = "completed" <=> status = "paid",
           UNCHANGED <<orderVars, ledgerVars, gatewayVars>>
    PROVE  Ledger'
<1> USE DEF Inv, Ledger, orderVars, ledgerVars, gatewayVars
<1>1. Decided'
  BY DEF Decided, Recorded, Captured
<1>2. ClosedHasReason'
  BY BoundsAssumption DEF ClosedHasReason
<1>3. PaidExactlyOnce'
  <2>1. \A q \in Quotes : quote'[q] = "paid" <=> quote[q] = "paid"
    BY DEF Withdrawn, Active, Shape, TypeOK
  <2> QED
    BY <2>1 DEF PaidExactlyOnce
<1>4. ReasonMatchesMoney'
  BY BoundsAssumption DEF ReasonMatchesMoney, ClosedHasReason
<1> QED
  BY <1>1, <1>2, <1>3, <1>4

LEMMA LedgerTap == ASSUME Inv, NEW t \in Taps, TapStep(t) PROVE Ledger'
<1> USE DEF Inv, Shape, TypeOK, WellFormed, Ledger, quoteVars, requestVars, ledgerVars, gatewayVars,
            TapGoes, TapReturns, HandOver
<1>1. UNCHANGED <<status, closedReason, quote, gwState, gwOrder, payRow, settled, flagged, invoices>>
  BY DEF TapStep, MarkStarted, ReuseUnpaid, NoUnpaid, CreateAtGateway, InsertOrder, InsertLoses,
         ShareWinner, TapEnds
<1>2. \A o \in Orders : /\ orderStatus[o] = "created" => orderStatus'[o] = "created"
                        /\ orderStatus[o] = "paid" => orderStatus'[o] = "paid"
                        /\ orderStatus[o] # "none" => orderQuote'[o] = orderQuote[o]
  BY DEF TapStep, MarkStarted, ReuseUnpaid, NoUnpaid, CreateAtGateway, InsertOrder, InsertLoses,
         ShareWinner, TapEnds
<1>3. \A o \in handed' : Recorded(o)'
  <2>1. \A o \in handed : Recorded(o)'
    BY <1>2 DEF Decided, Recorded
  <2>2. \A o \in handed' \ handed : Recorded(o)'
    BY DEF TapStep, MarkStarted, ReuseUnpaid, NoUnpaid, CreateAtGateway, InsertOrder, InsertLoses,
         ShareWinner, TapEnds, Recorded, Unpaid
  <2> QED
    BY <2>1, <2>2
<1>4. \A p \in settled \union flagged :
        gwOrder[p] \in Orders /\ orderStatus[gwOrder[p]] = "paid"
  BY DEF Decided, Captured
<1>5. Decided'
  BY <1>1, <1>2, <1>3, <1>4 DEF Decided, Captured
<1>6. \A p \in settled : orderQuote'[gwOrder[p]] = orderQuote[gwOrder[p]]
  BY <1>2, <1>4
<1>7. PaidExactlyOnce'
  <2>1. \A q \in Quotes : quote'[q] = "paid" <=> \E p \in settled' : (orderQuote[gwOrder[p]])' = q
    BY <1>1, <1>6 DEF PaidExactlyOnce
  <2>2. \A p \in settled' : payRow'[p] = "captured" /\ orderStatus'[gwOrder'[p]] = "paid"
    BY <1>1, <1>2, <1>4 DEF PaidExactlyOnce
  <2>3. invoices' = {<<p, orderQuote'[gwOrder'[p]]>> : p \in settled'}
    BY <1>1, <1>6 DEF PaidExactlyOnce
  <2> QED
    BY <1>1, <2>1, <2>2, <2>3 DEF PaidExactlyOnce
<1>8. ClosedHasReason' /\ ReasonMatchesMoney'
  BY <1>1 DEF ClosedHasReason, ReasonMatchesMoney
<1> QED
  BY <1>5, <1>7, <1>8

LEMMA LedgerSettle ==
    ASSUME Inv, NEW p \in Payments, NEW exact, Captured(p), Settle(p, exact)
    PROVE  Ledger'
<1> USE DEF Inv, Ledger, requestVars, ledgerVars, gatewayVars
<1> DEFINE o == gwOrder[p]
<1>1. o \in Orders /\ o \in handed /\ Recorded(o) /\ orderQuote[o] \in Quotes
  BY DEF Shape, TypeOK, WellFormed, Captured, Decided, Recorded
<1>2. UNCHANGED <<handed, orderQuote, gwState, gwOrder>>
  BY DEF Settle
<1>3. CASE SettleAgain(p)
  BY <1>2, <1>3 DEF SettleAgain, RecordCaptured, Decided, ClosedHasReason, PaidExactlyOnce,
     ReasonMatchesMoney, Recorded, Captured, Shape, TypeOK
<1>4. CASE SettleFlagged(p, exact)
  BY <1>1, <1>2, <1>4 DEF SettleFlagged, RecordCaptured, Undecided, Decided, ClosedHasReason,
     PaidExactlyOnce, ReasonMatchesMoney, Recorded, Captured, Shape, TypeOK
<1>5. CASE SettleApplied(p, exact)
  <2> DEFINE q == orderQuote[o]
  <2>1. /\ Undecided(o) /\ status = "quote_sent" /\ Active(q)
        /\ payRow' = [payRow EXCEPT ![p] = "captured"]
        /\ orderStatus' = [orderStatus EXCEPT ![o] = "paid"]
        /\ quote' = [quote EXCEPT ![q] = "paid"] /\ status' = "paid"
        /\ settled' = settled \union {p} /\ closedReason' = closedReason
    BY <1>5 DEF SettleApplied, QuoteIsOpen, RecordCaptured
  <2>2. closedReason = None /\ settled = {} /\ invoices = {}
    BY <2>1, BoundsAssumption DEF ClosedHasReason, ReasonMatchesMoney, PaidExactlyOnce
  <2>3. configured /\ started[q] # "no"
    BY <1>1, <2>1 DEF Billed, Active, Recorded
  <2>4. invoices' = {<<p, q>>} /\ flagged' = flagged
    BY <1>5, <2>2, <2>3 DEF SettleApplied
  <2>5. Decided'
    BY <1>1, <1>2, <2>1, <2>2, <2>4 DEF Decided, Recorded, Captured, Shape, TypeOK
  <2>6. PaidExactlyOnce'
    <3>1. \A r \in Quotes : quote[r] # "paid"
      BY <2>2 DEF PaidExactlyOnce
    <3> QED
      BY <1>1, <1>2, <2>1, <2>2, <2>4, <3>1 DEF PaidExactlyOnce, Shape, TypeOK
  <2>7. ClosedHasReason' /\ ReasonMatchesMoney'
    BY <2>1, <2>2 DEF ClosedHasReason, ReasonMatchesMoney
  <2> QED
    BY <2>5, <2>6, <2>7
<1> QED
  BY <1>1, <1>3, <1>4, <1>5 DEF Settle, SettleUnknown

LEMMA LedgerNext == Inv /\ [Next]_vars => Ledger'
<1> SUFFICES ASSUME Inv, [Next]_vars PROVE Ledger'
  OBVIOUS
<1>f. UNCHANGED <<status, closedReason, quote, handed, orderStatus, orderQuote, gwState, gwOrder,
                  payRow, settled, flagged, invoices>> => Ledger'
  BY LedgerFrame DEF Inv
<1> USE DEF requestVars, quoteVars, orderVars, ledgerVars, gatewayVars
<1>1. ASSUME NEW a \in Admins, NEW confirm \in BOOLEAN, SendQuote(a, confirm) PROVE Ledger'
  <2>1. PICK v \in Quotes :
        /\ NextVersion(v)
        /\ quote' = [q \in Quotes |-> IF q = v THEN "active"
                                      ELSE IF Active(q) THEN "superseded" ELSE quote[q]]
    BY <1>1 DEF SendQuote
  <2>2. quote[v] = "none"
    BY <2>1 DEF NextVersion, Quotes
  <2>3. \A q \in Quotes : quote'[q] = "paid" <=> quote[q] = "paid"
    BY <2>1, <2>2 DEF Active
  <2>4. /\ status # "closed" /\ status' # "closed" /\ status # "paid" /\ status' # "paid"
        /\ UNCHANGED <<closedReason, orderVars, ledgerVars, gatewayVars>>
    BY <1>1 DEF SendQuote
  <2> QED
    BY <2>3, <2>4 DEF Inv, Ledger, Decided, ClosedHasReason, PaidExactlyOnce, ReasonMatchesMoney,
                      Recorded, Captured
<1>2. ASSUME NEW a \in Admins, CloseCompleted(a) PROVE Ledger'
  BY <1>2, <1>f, LedgerClosed DEF CloseCompleted, CloseAs
<1>3. ASSUME NEW a \in Admins, CloseDeclined(a) PROVE Ledger'
  BY <1>3, <1>f, LedgerClosed DEF CloseDeclined, CloseAs, NotYetPaid
<1>4. CASE AdminStep
  BY <1>1, <1>2, <1>3, <1>4, <1>f
  DEF AdminStep, SaveBillingSettings, ResolveReview, Claim, Reassign, CloseRead, CloseRefused
<1>5. CASE Cancel
  BY <1>5, LedgerClosed DEF Cancel, NotYetPaid
<1>6. ASSUME NEW t \in Taps, NEW q \in Quotes, PayTapped(t, q) PROVE Ledger'
  BY <1>6, <1>f DEF PayTapped
<1>7. ASSUME NEW t \in Taps, TapStep(t) PROVE Ledger'
  BY <1>7, LedgerTap
<1>8. ASSUME NEW p \in Payments, Verify(p) PROVE Ledger'
  BY <1>8, LedgerSettle DEF Verify
<1>9. CASE GatewayStep
  <2>1. /\ \A p \in Payments : Captured(p) => Captured(p)' /\ gwOrder'[p] = gwOrder[p]
        /\ UNCHANGED <<status, closedReason, quote, handed, orderStatus, orderQuote, payRow,
                       settled, flagged, invoices>>
    BY <1>9 DEF GatewayStep, LateCapture, AttemptFails, Capture, Captured, Inv, Shape, TypeOK
  <2> QED
    BY <2>1 DEF Inv, Shape, TypeOK, Ledger, Decided, ClosedHasReason, PaidExactlyOnce,
                ReasonMatchesMoney, Recorded
<1>10. ASSUME NEW h \in Hooks, HookStep(h) PROVE Ledger'
  <2>1. CASE ProcessCaptured(h)
    BY <2>1, LedgerSettle DEF ProcessCaptured, Events, Inv, Shape, WellFormed, Happened
  <2>2. CASE ProcessFailed(h)
    <3>1. /\ \A p \in Payments : payRow[p] = "captured" => payRow'[p] = "captured"
          /\ UNCHANGED <<status, closedReason, quote, handed, orderStatus, orderQuote, gwState,
                         gwOrder, settled, flagged, invoices>>
      BY <2>2 DEF ProcessFailed, FailedRow, Inv, Shape, TypeOK
    <3> QED
      BY <3>1 DEF Inv, Shape, TypeOK, Ledger, Decided, ClosedHasReason, PaidExactlyOnce,
                  ReasonMatchesMoney, Recorded, Captured
  <2> QED
    BY <2>1, <2>2, <1>10, <1>f DEF HookStep, Deliver, MarkProcessed, HookFails, HookEnds
<1>11. ASSUME NEW q \in Quotes, SweepExpire(q) PROVE Ledger'
  <2>1. CASE StillDue(q)
    <3>1. /\ \A r \in Quotes : quote'[r] = "paid" <=> quote[r] = "paid"
          /\ status = "quote_sent" /\ status' = "requested"
          /\ UNCHANGED <<closedReason, orderVars, ledgerVars, gatewayVars>>
      BY <1>11, <2>1 DEF SweepExpire, StillDue, IsDue, Active, QuoteMatchesStatus, Inv, Shape, TypeOK
    <3> QED
      BY <3>1 DEF Inv, Ledger, Decided, ClosedHasReason, PaidExactlyOnce, ReasonMatchesMoney,
                  Recorded, Captured
  <2>2. CASE ~StillDue(q)
    BY <1>11, <2>2, <1>f DEF SweepExpire
  <2> QED
    BY <2>1, <2>2
<1>12. CASE SweepStep
  BY <1>11, <1>12, <1>f DEF SweepStep, SweepStart, SweepDies
<1>13. CASE TimeStep
  BY <1>13, <1>f DEF TimeStep, Lapse, WindowCloses
<1>14. CASE UNCHANGED vars
  BY <1>14, <1>f DEF vars
<1> QED
  BY <1>4, <1>5, <1>6, <1>7, <1>8, <1>9, <1>10, <1>12, <1>13, <1>14 DEF Next, MemberStep

LEMMA InvHolds == Spec => []Inv
<1>1. Init => Inv
  <2>2. ASSUME Init PROVE QuoteMatchesStatus /\ Billed
    BY <2>2 DEF Init, QuoteMatchesStatus, Active, Billed
  <2>3. ASSUME Init PROVE Ledger
    BY <2>3, BoundsAssumption DEF Init, Ledger, Decided, ClosedHasReason, PaidExactlyOnce,
       ReasonMatchesMoney
  <2> QED
    BY <2>2, <2>3, ShapeInit DEF Inv
<1>2. Inv /\ [Next]_vars => Inv'
  BY ShapeNext, QuoteNext, BilledNext, LedgerNext DEF Inv
<1> QED
  BY <1>1, <1>2, PTL DEF Spec

\* At most one payment ever settles the request, for the one quote that is paid, and it
\* alone is invoiced: whatever verify calls, webhook deliveries and retries interleave.
THEOREM PaidOnce == Spec => []PaidExactlyOnce
<1>1. Inv => PaidExactlyOnce
  BY DEF Inv, Ledger
<1> QED
  BY <1>1, InvHolds, PTL

\* The request is paid, or closed as completed, exactly when a payment settled it.
THEOREM ReasonIsTrue == Spec => []ReasonMatchesMoney
<1>1. Inv => ReasonMatchesMoney
  BY DEF Inv, Ledger
<1> QED
  BY <1>1, InvHolds, PTL

-----------------------------------------------------------------------------
(* The orders. *)

\* The partial unique index on unpaid orders, and what it is for: the order a tap holds is
\* for the quote the tap is about, so the index stops a second one for that quote.
OrdersApart ==
    /\ \A o1, o2 \in Orders :
        /\ orderStatus[o1] = "created" /\ orderStatus[o2] = "created"
        /\ orderQuote[o1] = orderQuote[o2]
        => o1 = o2
    /\ \A t \in Taps : tapAt[t] \in {"insert", "share"} => orderQuote[tapOrder[t]] = tapQuote[t]

\* A step that records no new order, creates none and moves no tap onto one.
LEMMA OrdersFrame ==
    ASSUME Shape, OrdersApart, UNCHANGED <<orderQuote, tapQuote, tapOrder>>,
           \A o \in Orders : orderStatus'[o] = "created" => orderStatus[o] = "created",
           \A t \in Taps : tapAt'[t] \in {"insert", "share"} => tapAt[t] \in {"insert", "share"}
    PROVE  OrdersApart'
  BY DEF OrdersApart, Shape, TypeOK

LEMMA OrdersSettle ==
    ASSUME Shape, OrdersApart, NEW p \in Payments, NEW exact, Settle(p, exact)
    PROVE  OrdersApart'
<1>1. UNCHANGED <<orderQuote, tapAt, tapQuote, tapOrder>>
  BY DEF Settle, tapVars
<1>2. \A o \in Orders : orderStatus'[o] = "created" => orderStatus[o] = "created"
  BY DEF Settle, SettleUnknown, SettleAgain, SettleFlagged, SettleApplied, Shape, TypeOK
<1> QED
  BY <1>1, <1>2, OrdersFrame

LEMMA OrdersTap == ASSUME Shape, OrdersApart, NEW t \in Taps, TapStep(t) PROVE OrdersApart'
<1> USE DEF Shape, TypeOK, WellFormed, TapGoes, TapReturns, HandOver, quoteVars
<1>1. CASE MarkStarted(t) \/ ReuseUnpaid(t) \/ NoUnpaid(t) \/ InsertLoses(t) \/ ShareWinner(t)
           \/ TapEnds(t)
  BY <1>1 DEF OrdersApart, MarkStarted, ReuseUnpaid, NoUnpaid, InsertLoses, ShareWinner, TapEnds
<1>2. CASE CreateAtGateway(t)
  BY <1>2 DEF CreateAtGateway, OrdersApart
<1>3. CASE InsertOrder(t)
  <2> DEFINE o == tapOrder[t]
  <2>1. /\ o \in Orders /\ orderQuote[o] = tapQuote[t] /\ orderQuote' = orderQuote
        /\ orderStatus' = [orderStatus EXCEPT ![o] = "created"]
    BY <1>3 DEF InsertOrder, OrdersApart
  <2>2. \A r \in Orders : orderStatus[r] = "created" => orderQuote[r] # orderQuote[o]
    BY <1>3, <2>1 DEF InsertOrder, Unpaid
  <2>3. \A u \in Taps : tapAt'[u] \in {"insert", "share"} =>
            /\ tapAt[u] \in {"insert", "share"}
            /\ tapOrder'[u] = tapOrder[u] /\ tapQuote'[u] = tapQuote[u]
    BY <1>3 DEF InsertOrder
  <2> QED
    BY <2>1, <2>2, <2>3 DEF OrdersApart
<1> QED
  BY <1>1, <1>2, <1>3 DEF TapStep

LEMMA OrdersNext == Shape /\ OrdersApart /\ [Next]_vars => OrdersApart'
<1> SUFFICES ASSUME Shape, OrdersApart, [Next]_vars PROVE OrdersApart'
  OBVIOUS
<1>f. UNCHANGED <<orderVars, tapVars>> => OrdersApart'
  BY DEF OrdersApart, orderVars, tapVars
<1>1. CASE AdminStep \/ Cancel \/ GatewayStep \/ SweepStep \/ TimeStep
  BY <1>1, <1>f
  DEF AdminStep, SaveBillingSettings, ResolveReview, SendQuote, Claim, Reassign, CloseRead,
      CloseCompleted, CloseDeclined, CloseRefused, CloseAs, Cancel, GatewayStep, LateCapture,
      AttemptFails, Capture, SweepStep, SweepStart, SweepDies, SweepExpire, TimeStep, Lapse,
      WindowCloses
<1>2. ASSUME NEW t \in Taps, TapStep(t) PROVE OrdersApart'
  BY <1>2, OrdersTap
<1>3. ASSUME NEW t \in Taps, NEW q \in Quotes, PayTapped(t, q) PROVE OrdersApart'
  BY <1>3 DEF PayTapped, OrdersApart, orderVars, Shape, TypeOK
<1>4. ASSUME NEW p \in Payments, Verify(p) PROVE OrdersApart'
  BY <1>4, OrdersSettle DEF Verify
<1>5. ASSUME NEW h \in Hooks, HookStep(h) PROVE OrdersApart'
  <2>1. CASE ProcessCaptured(h)
    BY <2>1, OrdersSettle DEF ProcessCaptured, Events, Shape, WellFormed
  <2> QED
    BY <2>1, <1>5, <1>f DEF HookStep, Deliver, ProcessFailed, MarkProcessed, HookFails, HookEnds
<1>6. CASE UNCHANGED vars
  BY <1>6, <1>f DEF vars
<1> QED
  BY <1>1, <1>2, <1>3, <1>4, <1>5, <1>6 DEF Next, MemberStep

\* However many taps on Pay race, and wherever they die, the member holds one unpaid order
\* per quote, and the application has a row for every order the member holds.
THEOREM OneOrder == Spec => []OneOrderToPay
<1>1. Init => OrdersApart
  BY DEF Init, OrdersApart
<1>2. Inv /\ OrdersApart /\ [Next]_vars => OrdersApart'
  BY OrdersNext DEF Inv
<1>3. Inv /\ OrdersApart => OneOrderToPay
  BY DEF Inv, Shape, TypeOK, Ledger, Decided, OrdersApart, OneOrderToPay, Recorded
<1> QED
  BY <1>1, <1>2, <1>3, InvHolds, PTL DEF Spec

-----------------------------------------------------------------------------
(* Every captured payment is accounted for, unless the gateway captures twice. *)

\* The gateway captures one payment per order; an order is decided by a payment made on
\* it; a payment recorded as captured was captured and decided.
Accounted ==
    /\ \A p1, p2 \in Payments :
        Captured(p1) /\ Captured(p2) /\ gwOrder[p1] = gwOrder[p2] => p1 = p2
    /\ \A o \in Orders :
        orderStatus[o] = "paid" => \E p \in settled \union flagged : gwOrder[p] = o
    /\ \A p \in Payments : payRow[p] = "captured" => p \in settled \union flagged

LEMMA AccountedSettle ==
    ASSUME Inv, Accounted, NEW p \in Payments, NEW exact, Captured(p), Settle(p, exact)
    PROVE  Accounted'
<1> USE DEF requestVars, ledgerVars, gatewayVars
<1> DEFINE o == gwOrder[p]
<1>1. o \in Orders /\ Recorded(o)
  BY DEF Inv, Ledger, Decided, Shape, TypeOK, WellFormed, Captured
<1>2. UNCHANGED <<gwState, gwOrder>>
  BY DEF Settle
<1>3. CASE SettleAgain(p)
  <2>1. orderStatus[o] = "paid"
    BY <1>1, <1>3 DEF SettleAgain, Undecided, Recorded
  <2>2. PICK r \in settled \union flagged : gwOrder[r] = o
    BY <1>1, <2>1 DEF Accounted
  <2>3. r \in Payments /\ Captured(r)
    BY DEF Inv, Ledger, Decided, Shape, TypeOK
  <2>4. p \in settled \union flagged
    BY <2>2, <2>3 DEF Accounted
  <2>5. UNCHANGED <<orderStatus, settled, flagged>> /\ payRow' = [payRow EXCEPT ![p] = "captured"]
    BY <1>3 DEF SettleAgain, RecordCaptured
  <2> QED
    BY <1>2, <2>4, <2>5 DEF Accounted, Captured, Inv, Shape, TypeOK
<1>4. CASE SettleFlagged(p, exact) \/ SettleApplied(p, exact)
  <2>1. /\ orderStatus' = [orderStatus EXCEPT ![o] = "paid"]
        /\ payRow' = [payRow EXCEPT ![p] = "captured"]
        /\ p \in settled' \union flagged'
        /\ settled \union flagged \subseteq settled' \union flagged'
    BY <1>4 DEF SettleFlagged, SettleApplied, RecordCaptured
  <2> QED
    BY <1>1, <1>2, <2>1 DEF Accounted, Captured, Inv, Shape, TypeOK
<1> QED
  BY <1>1, <1>3, <1>4 DEF Settle, SettleUnknown

LEMMA AccountedNext == ~ExtraCapture /\ Inv /\ Accounted /\ [Next]_vars => Accounted'
<1> SUFFICES ASSUME ~ExtraCapture, Inv, Accounted, [Next]_vars PROVE Accounted'
  OBVIOUS
<1>f. UNCHANGED <<orderStatus, ledgerVars, gatewayVars>> => Accounted'
  BY DEF Accounted, Captured, ledgerVars, gatewayVars
<1>1. CASE AdminStep \/ Cancel \/ SweepStep \/ TimeStep
  BY <1>1, <1>f
  DEF AdminStep, SaveBillingSettings, ResolveReview, SendQuote, Claim, Reassign, CloseRead,
      CloseCompleted, CloseDeclined, CloseRefused, CloseAs, Cancel, SweepStep, SweepStart,
      SweepDies, SweepExpire, TimeStep, Lapse, WindowCloses, orderVars
<1>2. ASSUME NEW t \in Taps, TapStep(t) \/ \E q \in Quotes : PayTapped(t, q) PROVE Accounted'
  <2>1. \A o \in Orders : orderStatus'[o] = "paid" => orderStatus[o] = "paid"
    BY <1>2
    DEF PayTapped, TapStep, MarkStarted, ReuseUnpaid, NoUnpaid, CreateAtGateway, InsertOrder,
        InsertLoses, ShareWinner, TapEnds, orderVars, Inv, Shape, TypeOK
  <2>2. UNCHANGED <<ledgerVars, gatewayVars>>
    BY <1>2
    DEF PayTapped, TapStep, MarkStarted, ReuseUnpaid, NoUnpaid, CreateAtGateway, InsertOrder,
        InsertLoses, ShareWinner, TapEnds, TapGoes, TapReturns, HandOver
  <2> QED
    BY <2>1, <2>2 DEF Accounted, Captured, ledgerVars, gatewayVars
<1>3. ASSUME NEW p \in Payments, Verify(p) PROVE Accounted'
  BY <1>3, AccountedSettle DEF Verify
<1>4. CASE GatewayStep
  <2>1. ASSUME NEW p \in Payments, NEW o \in Orders, MayCapture(o), ~Captured(p),
               \A r \in Payments \ {p} : Captured(r)' <=> Captured(r),
               \A r \in Payments \ {p} : gwOrder'[r] = gwOrder[r],
               Captured(p)', gwOrder'[p] = o, UNCHANGED <<orderStatus, ledgerVars>>
        PROVE  Accounted'
    <3>1. p \notin settled \union flagged
      BY <2>1 DEF Inv, Ledger, Decided
    <3>2. \A r \in Payments : Captured(r) => gwOrder[r] # o
      BY <2>1 DEF MayCapture
    <3>3. settled \union flagged \subseteq Payments
      BY DEF Inv, Shape, TypeOK
    <3> QED
      BY <2>1, <3>1, <3>2, <3>3 DEF Accounted, ledgerVars
  <2>2. ASSUME NEW p \in Payments, NEW o \in Orders, NEW exact \in AmountMatches, Capture(p, o, exact)
        PROVE  Accounted'
    BY <2>1, <2>2 DEF Capture, Captured, orderVars, Inv, Shape, TypeOK
  <2>3. ASSUME NEW p \in Payments, LateCapture(p) PROVE Accounted'
    <3>1. gwOrder[p] \in Orders
      BY <2>3 DEF LateCapture, Inv, Shape, WellFormed, TypeOK
    <3> QED
      BY <2>1, <2>3, <3>1 DEF LateCapture, Captured, orderVars, Inv, Shape, TypeOK
  <2>4. ASSUME NEW p \in Payments, NEW o \in Orders, AttemptFails(p, o) PROVE Accounted'
    <3>1. /\ \A r \in Payments : Captured(r)' <=> Captured(r)
          /\ \A r \in Payments : Captured(r) => gwOrder'[r] = gwOrder[r]
          /\ UNCHANGED <<orderStatus, ledgerVars>>
      BY <2>4 DEF AttemptFails, Captured, orderVars, Inv, Shape, TypeOK
    <3> QED
      BY <3>1 DEF Accounted, ledgerVars, Inv, Ledger, Decided, Shape, TypeOK
  <2> QED
    BY <1>4, <2>2, <2>3, <2>4 DEF GatewayStep
<1>5. ASSUME NEW h \in Hooks, HookStep(h) PROVE Accounted'
  <2>1. CASE ProcessCaptured(h)
    BY <2>1, AccountedSettle DEF ProcessCaptured, Events, Inv, Shape, WellFormed, Happened
  <2>2. CASE ProcessFailed(h)
    <3>1. /\ \A p \in Payments : payRow'[p] = "captured" => payRow[p] = "captured"
          /\ UNCHANGED <<orderStatus, settled, flagged, gatewayVars>>
      BY <2>2 DEF ProcessFailed, FailedRow, orderVars, Inv, Shape, TypeOK
    <3> QED
      BY <3>1 DEF Accounted, Captured, gatewayVars
  <2> QED
    BY <2>1, <2>2, <1>5, <1>f
    DEF HookStep, Deliver, MarkProcessed, HookFails, HookEnds, orderVars
<1>6. CASE UNCHANGED vars
  BY <1>6, <1>f DEF vars, orderVars
<1> QED
  BY <1>1, <1>2, <1>3, <1>4, <1>5, <1>6 DEF Next, MemberStep

\* No captured payment the application has recorded is forgotten, as long as the gateway
\* captures an order once: the assumption the second_capture run shows to be needed.
THEOREM MoneyIsAccounted == ASSUME ~ExtraCapture PROVE Spec => []MoneyAccounted
<1>1. Init => Accounted
  BY DEF Init, Accounted, Captured
<1>2. Inv /\ Accounted /\ [Next]_vars => Accounted'
  BY AccountedNext
<1>3. Accounted => MoneyAccounted
  BY DEF Accounted, MoneyAccounted
<1> QED
  BY <1>1, <1>2, <1>3, InvHolds, PTL DEF Spec

-----------------------------------------------------------------------------
(* The sweep. *)

LEMMA ExpiryNext == Shape /\ ExpiryLeavesPayers /\ [Next]_vars => ExpiryLeavesPayers'
<1> SUFFICES ASSUME Shape, ExpiryLeavesPayers, [Next]_vars PROVE ExpiryLeavesPayers'
  OBVIOUS
<1>f. UNCHANGED started /\ (\A q \in Quotes : quote'[q] = "expired" => quote[q] = "expired")
        => ExpiryLeavesPayers'
  BY DEF ExpiryLeavesPayers
<1>1. CASE AdminStep \/ Cancel
  BY <1>1, <1>f
  DEF AdminStep, SaveBillingSettings, ResolveReview, SendQuote, Claim, Reassign, CloseRead,
      CloseCompleted, CloseDeclined, CloseRefused, CloseAs, Cancel, Withdrawn, quoteVars
<1>2. ASSUME NEW t \in Taps, TapStep(t) PROVE ExpiryLeavesPayers'
  <2>1. CASE MarkStarted(t)
    BY <2>1 DEF MarkStarted, Payable, Active, ExpiryLeavesPayers, Shape, TypeOK
  <2> QED
    BY <2>1, <1>2, <1>f
    DEF TapStep, ReuseUnpaid, NoUnpaid, CreateAtGateway, InsertOrder, InsertLoses, ShareWinner,
        TapEnds, quoteVars
<1>3. ASSUME NEW p \in Payments, NEW exact, Settle(p, exact) PROVE ExpiryLeavesPayers'
  BY <1>3, <1>f
  DEF Settle, SettleUnknown, SettleAgain, SettleFlagged, SettleApplied, Shape, TypeOK
<1>4. ASSUME NEW h \in Hooks, HookStep(h) PROVE ExpiryLeavesPayers'
  <2>1. CASE ProcessCaptured(h)
    BY <2>1, <1>3 DEF ProcessCaptured, Events, Shape, WellFormed
  <2> QED
    BY <2>1, <1>4, <1>f
    DEF HookStep, Deliver, ProcessFailed, MarkProcessed, HookFails, HookEnds, quoteVars
<1>5. CASE GatewayStep \/ (\E t \in Taps, q \in Quotes : PayTapped(t, q)) \/ UNCHANGED vars
  BY <1>5, <1>f DEF GatewayStep, LateCapture, AttemptFails, Capture, PayTapped, vars, quoteVars
<1>6. CASE SweepStep
  BY <1>6, <1>f
  DEF SweepStep, SweepStart, SweepDies, SweepExpire, StillDue, IsDue, InWindow, quoteVars,
      ExpiryLeavesPayers, Shape, TypeOK
<1>7. CASE TimeStep
  BY <1>7, <1>f DEF TimeStep, Lapse, WindowCloses, ExpiryLeavesPayers, Shape, TypeOK
<1>8. ASSUME NEW p \in Payments, Verify(p) PROVE ExpiryLeavesPayers'
  BY <1>3, <1>8 DEF Verify
<1> QED
  BY <1>1, <1>2, <1>4, <1>5, <1>6, <1>7, <1>8 DEF Next, MemberStep

\* A quote never expires under a member inside the payment window, although the sweep
\* works from a list it read before.
THEOREM ExpiryWaits == Spec => []ExpiryLeavesPayers
<1>1. Init => ExpiryLeavesPayers
  BY DEF Init, ExpiryLeavesPayers
<1> QED
  BY <1>1, ShapeHolds, ExpiryNext, PTL DEF Spec

-----------------------------------------------------------------------------
(* The promise. *)

LEMMA PromiseStep == Inv /\ [Next]_vars => [Promise!PromiseNext]_(Promise!promiseVars)
<1> SUFFICES ASSUME Inv, [Next]_vars PROVE [Promise!PromiseNext]_(Promise!promiseVars)
  OBVIOUS
<1> DEFINE got == {p \in Payments : Captured(p)}
<1> USE DEF requestVars, quoteVars, orderVars, ledgerVars, gatewayVars
<1>s. UNCHANGED <<PromiseStage, got, settled, flagged>> => [Promise!PromiseNext]_(Promise!promiseVars)
  BY DEF Promise!promiseVars
<1>f. UNCHANGED <<status, closedReason, gwState, settled, flagged>>
        => [Promise!PromiseNext]_(Promise!promiseVars)
  BY <1>s DEF PromiseStage, Captured
<1>1. ASSUME NEW a \in Admins, NEW confirm \in BOOLEAN, SendQuote(a, confirm)
      PROVE  [Promise!PromiseNext]_(Promise!promiseVars)
  <2>1. PromiseStage = "open" /\ PromiseStage' = "open"
    BY <1>1 DEF SendQuote, PromiseStage, Inv, Shape, TypeOK
  <2>2. UNCHANGED <<gwState, settled, flagged>>
    BY <1>1 DEF SendQuote
  <2> QED
    BY <2>1, <2>2, <1>s DEF Captured
<1>2. ASSUME status # "closed", status' = "closed",
             closedReason' \in {"completed", "declined", "cancelled_by_member"},
             closedReason' = "completed" <=> status = "paid",
             UNCHANGED <<gwState, settled, flagged>>
      PROVE  [Promise!PromiseNext]_(Promise!promiseVars)
  <2>1. CASE status = "paid"
    <3>1. PromiseStage = "paid" /\ PromiseStage' = "completed"
      BY <1>2, <2>1 DEF PromiseStage
    <3> QED
      BY <1>2, <3>1 DEF Promise!PromiseNext, Promise!Complete, Captured
  <2>2. CASE status # "paid"
    <3>1. PromiseStage = "open" /\ PromiseStage' = "abandoned"
      BY <1>2, <2>2 DEF PromiseStage
    <3> QED
      BY <1>2, <3>1 DEF Promise!PromiseNext, Promise!Abandon, Captured
  <2> QED
    BY <2>1, <2>2
<1>3. ASSUME NEW a \in Admins, CloseCompleted(a) \/ CloseDeclined(a)
      PROVE  [Promise!PromiseNext]_(Promise!promiseVars)
  BY <1>2, <1>3, <1>f DEF CloseCompleted, CloseDeclined, CloseAs, NotYetPaid
<1>4. CASE AdminStep
  BY <1>1, <1>3, <1>4, <1>f
  DEF AdminStep, SaveBillingSettings, ResolveReview, Claim, Reassign, CloseRead, CloseRefused
<1>5. CASE Cancel
  BY <1>2, <1>5 DEF Cancel, NotYetPaid
<1>6. ASSUME NEW t \in Taps, TapStep(t) \/ \E q \in Quotes : PayTapped(t, q)
      PROVE  [Promise!PromiseNext]_(Promise!promiseVars)
  BY <1>6, <1>f
  DEF PayTapped, TapStep, MarkStarted, ReuseUnpaid, NoUnpaid, CreateAtGateway, InsertOrder,
      InsertLoses, ShareWinner, TapEnds, TapGoes, TapReturns, HandOver
<1>7. ASSUME NEW p \in Payments, NEW exact, Captured(p), Settle(p, exact)
      PROVE  [Promise!PromiseNext]_(Promise!promiseVars)
  <2>1. UNCHANGED <<gwState, got>>
    BY <1>7 DEF Settle, Captured
  <2>2. CASE SettleUnknown(p) \/ SettleAgain(p)
    BY <2>1, <2>2, <1>f DEF SettleUnknown, SettleAgain
  <2>3. ASSUME Undecided(gwOrder[p]) PROVE p \in got \ (settled \union flagged)
    BY <1>7, <2>3 DEF Undecided, Inv, Ledger, Decided
  <2>4. CASE SettleFlagged(p, exact)
    <3>1. /\ p \in got \ (settled \union flagged) /\ flagged' = flagged \union {p}
          /\ UNCHANGED <<PromiseStage, got, settled>>
      BY <2>1, <2>3, <2>4 DEF SettleFlagged, PromiseStage
    <3> QED
      BY <3>1 DEF Promise!PromiseNext, Promise!Hold, Promise!Undecided
  <2>5. CASE SettleApplied(p, exact)
    <3>1. PromiseStage = "open" /\ PromiseStage' = "paid" /\ settled' = settled \union {p}
      BY <2>5 DEF SettleApplied, QuoteIsOpen, PromiseStage
    <3>2. orderQuote[gwOrder[p]] \in Quotes
      BY <1>7, <2>5 DEF SettleApplied, Undecided, Inv, Shape, TypeOK, WellFormed, Captured
    <3>3. configured /\ started[orderQuote[gwOrder[p]]] # "no"
      BY <1>7, <2>5, <3>2
      DEF SettleApplied, QuoteIsOpen, Undecided, Active, Inv, Billed, Shape, TypeOK, WellFormed,
          Captured
    <3>4. flagged' = flagged
      BY <2>5, <3>3 DEF SettleApplied
    <3>5. p \in got \ (settled \union flagged)
      BY <2>3, <2>5 DEF SettleApplied
    <3> QED
      BY <2>1, <3>1, <3>4, <3>5 DEF Promise!PromiseNext, Promise!Apply, Promise!Undecided
  <2> QED
    BY <1>7, <2>2, <2>4, <2>5 DEF Settle
<1>8. ASSUME NEW p \in Payments, Verify(p) PROVE [Promise!PromiseNext]_(Promise!promiseVars)
  BY <1>7, <1>8 DEF Verify
<1>9. CASE GatewayStep
  <2>1. ASSUME NEW p \in Payments, NEW o \in Orders, AttemptFails(p, o) PROVE got' = got
    BY <2>1 DEF AttemptFails, Captured, Inv, Shape, TypeOK
  <2>2. ASSUME NEW p \in Payments, LateCapture(p) \/ \E o \in Orders, exact \in AmountMatches : Capture(p, o, exact)
        PROVE  p \notin got /\ got' = got \union {p}
    BY <2>2 DEF LateCapture, Capture, Captured, Inv, Shape, TypeOK
  <2>3. UNCHANGED <<status, closedReason, settled, flagged>>
    BY <1>9 DEF GatewayStep, LateCapture, AttemptFails, Capture
  <2>4. UNCHANGED PromiseStage
    BY <2>3 DEF PromiseStage
  <2> QED
    BY <1>9, <2>1, <2>2, <2>3, <2>4, <1>s
    DEF GatewayStep, Promise!PromiseNext, Promise!Receive
<1>10. ASSUME NEW h \in Hooks, HookStep(h) PROVE [Promise!PromiseNext]_(Promise!promiseVars)
  <2>1. CASE ProcessCaptured(h)
    BY <2>1, <1>7 DEF ProcessCaptured, Events, Inv, Shape, WellFormed, Happened
  <2> QED
    BY <2>1, <1>10, <1>f DEF HookStep, Deliver, ProcessFailed, MarkProcessed, HookFails, HookEnds
<1>11. CASE SweepStep
  <2>1. PromiseStage' = PromiseStage
    BY <1>11 DEF SweepStep, SweepStart, SweepDies, SweepExpire, PromiseStage
  <2>2. UNCHANGED <<gwState, settled, flagged>>
    BY <1>11 DEF SweepStep, SweepStart, SweepDies, SweepExpire
  <2> QED
    BY <2>1, <2>2, <1>s DEF Captured
<1>12. CASE TimeStep
  BY <1>12, <1>f DEF TimeStep, Lapse, WindowCloses
<1>13. CASE UNCHANGED vars
  BY <1>13, <1>f DEF vars
<1> QED
  BY <1>4, <1>5, <1>6, <1>8, <1>9, <1>10, <1>11, <1>12, <1>13 DEF Next, MemberStep

\* The request, with every handler, tap, webhook and sweep in it, implements the promise.
THEOREM PromiseKept == Spec => KeepsPromise
<1>1. Init => Promise!PromiseInit
  BY DEF Init, Promise!PromiseInit, PromiseStage, Captured
<1>2. Inv /\ [Next]_vars => [Promise!PromiseNext]_(Promise!promiseVars)
  BY PromiseStep
<1> QED
  BY <1>1, <1>2, InvHolds, PTL DEF Spec, KeepsPromise, Promise!PromiseSpec

\* What the promise alone gives: an open request has nothing applied to it yet, which makes
\* PaidForOnce inductive.
PromiseInv == Promise!PromiseTypeOK /\ Promise!PaidForOnce

LEMMA PaidOnceStep ==
    PromiseInv /\ [Promise!PromiseNext]_(Promise!promiseVars) => PromiseInv'
<1> SUFFICES ASSUME PromiseInv, [Promise!PromiseNext]_(Promise!promiseVars) PROVE PromiseInv'
  OBVIOUS
<1> DEFINE got == {p \in Payments : Captured(p)}
<1> USE DEF PromiseInv, Promise!PromiseTypeOK, Promise!PaidForOnce, Promise!Undecided
<1>1. CASE Promise!Complete
  BY <1>1 DEF Promise!Complete
<1>2. CASE Promise!Abandon
  BY <1>2 DEF Promise!Abandon
<1>3. ASSUME NEW p \in Payments, Promise!Receive(p) PROVE PromiseInv'
  BY <1>3 DEF Promise!Receive
<1>4. ASSUME NEW p \in Payments, Promise!Apply(p) PROVE PromiseInv'
  BY <1>4 DEF Promise!Apply
<1>5. ASSUME NEW p \in Payments, Promise!Hold(p) PROVE PromiseInv'
  BY <1>5 DEF Promise!Hold
<1>6. CASE UNCHANGED Promise!promiseVars
  BY <1>6 DEF Promise!promiseVars
<1> QED
  BY <1>1, <1>2, <1>3, <1>4, <1>5, <1>6 DEF Promise!PromiseNext

\* A request that is paid for was paid for by exactly one payment, which nobody is asked to
\* refund: what settle owes the member whichever of verify and webhook came first.
THEOREM OnePaymentPays == Spec => []Promise!PaidForOnce
<1>1. Promise!PromiseInit => PromiseInv
  BY DEF Promise!PromiseInit, PromiseInv, Promise!PromiseTypeOK, Promise!PaidForOnce
<1>2. PromiseInv => Promise!PaidForOnce
  BY DEF PromiseInv
<1> QED
  BY <1>1, <1>2, PaidOnceStep, PromiseKept, PTL DEF KeepsPromise, Promise!PromiseSpec

=============================================================================
