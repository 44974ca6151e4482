--------------------------- MODULE ServicePayments ---------------------------
(***************************************************************************)
(* One paid service request: its quotes, the Razorpay orders and payments  *)
(* behind them, the webhook deliveries, the expiry sweep, and the admin    *)
(* and member operations that move the same row.                           *)
(*                                                                         *)
(* Every action is one committed database step of the code: a transaction  *)
(* that starts by locking the request row, or a single statement.  A       *)
(* handler that is several such steps (createOrder, close, the webhook,    *)
(* the sweep) keeps a program counter, and the steps of others interleave. *)
(*                                                                         *)
(* The gateway (Capture, AttemptFails, LateCapture) is external: it is     *)
(* what Razorpay can do with an order the application was handed.          *)
(***************************************************************************)
EXTENDS Naturals

CONSTANTS
    MaxQuotes,      \* bound: quote versions an admin may send
    Orders,         \* ids the gateway hands out
    Payments,       \* ids of payment attempts
    Taps,           \* concurrent executions of createOrder
    Hooks,          \* concurrent executions of handleWebhook
    Admins,
    SuperAdmins,
    AmountMatches,  \* may a captured amount differ from the order's? {TRUE} or BOOLEAN
    ExtraCapture,   \* may the gateway capture a second payment on an order already paid?
    None

ASSUME BoundsAssumption ==
    /\ MaxQuotes \in Nat \ {0}
    /\ SuperAdmins \subseteq Admins
    /\ AmountMatches \subseteq BOOLEAN
    /\ ExtraCapture \in BOOLEAN
    /\ None \notin Orders \union Payments \union Admins \union (Payments \X {"captured", "failed"})
    /\ None \notin {"completed", "declined", "cancelled_by_member"}

Quotes == 1 .. MaxQuotes                     \* a quote is its version number
Events == Payments \X {"captured", "failed"} \* a webhook event id

VARIABLES
    \* service_requests row
    status, closedReason, assignee, requiresReview,
    \* service_quotes rows: status, "expiresAt has passed", age of paymentStartedAt
    quote, lapsed, started,
    \* razorpay_orders rows (and gateway orders not recorded yet); ids the app was given
    orderStatus, orderQuote, handed,
    \* razorpay_payments rows, the paid / payment_flagged events, service_invoices
    payRow, settled, flagged, invoices,
    \* billing_settings is complete
    configured,
    \* the gateway's own record of each payment attempt
    gwState, gwOrder, gwExact,
    \* razorpay_webhook_events with processedAt set, and the deliveries being handled
    processed, hookAt, hookEvent,
    \* createOrder, close and sweep executions in progress
    tapAt, tapQuote, tapOrder, closeAt, due

requestVars == <<status, closedReason, assignee, requiresReview>>
quoteVars   == <<quote, lapsed, started>>
orderVars   == <<orderStatus, orderQuote, handed>>
ledgerVars  == <<payRow, settled, flagged, invoices>>
gatewayVars == <<gwState, gwOrder, gwExact>>
hookVars    == <<processed, hookAt, hookEvent>>
tapVars     == <<tapAt, tapQuote, tapOrder>>

vars == <<requestVars, quoteVars, orderVars, ledgerVars, configured,
          gatewayVars, hookVars, tapVars, closeAt, due>>

TypeOK ==
    /\ status \in {"requested", "quote_sent", "paid", "closed"}
    /\ closedReason \in {None, "completed", "declined", "cancelled_by_member"}
    /\ assignee \in Admins \union {None}
    /\ requiresReview \in BOOLEAN /\ configured \in BOOLEAN
    /\ quote \in [Quotes -> {"none", "active", "superseded", "expired", "cancelled", "paid"}]
    /\ lapsed \in [Quotes -> BOOLEAN]
    /\ started \in [Quotes -> {"no", "recent", "old"}]
    /\ orderStatus \in [Orders -> {"none", "gateway", "created", "paid"}]
    /\ orderQuote \in [Orders -> Quotes \union {None}]
    /\ handed \subseteq Orders
    /\ payRow \in [Payments -> {"none", "failed", "captured"}]
    /\ settled \subseteq Payments /\ flagged \subseteq Payments
    /\ invoices \subseteq Payments \X Quotes
    /\ gwState \in [Payments -> {"none", "failed", "captured", "late"}]
    /\ gwOrder \in [Payments -> Orders \union {None}]
    /\ gwExact \in [Payments -> BOOLEAN]
    /\ processed \subseteq Events
    /\ hookAt \in [Hooks -> {"idle", "process", "mark"}]
    /\ hookEvent \in [Hooks -> Events \union {None}]
    /\ tapAt \in [Taps -> {"idle", "mark", "find", "create", "insert", "share"}]
    /\ tapQuote \in [Taps -> Quotes \union {None}]
    /\ tapOrder \in [Taps -> Orders \union {None}]
    /\ closeAt \in [Admins -> {"idle", "claim", "completed", "declined", "refused"}]
    /\ due \subseteq Quotes

Init ==
    /\ status = "requested" /\ closedReason = None /\ assignee = None
    /\ requiresReview = FALSE /\ configured = FALSE
    /\ quote = [q \in Quotes |-> "none"]
    /\ lapsed = [q \in Quotes |-> FALSE]
    /\ started = [q \in Quotes |-> "no"]
    /\ orderStatus = [o \in Orders |-> "none"]
    /\ orderQuote = [o \in Orders |-> None]
    /\ handed = {}
    /\ payRow = [p \in Payments |-> "none"]
    /\ settled = {} /\ flagged = {} /\ invoices = {}
    /\ gwState = [p \in Payments |-> "none"]
    /\ gwOrder = [p \in Payments |-> None]
    /\ gwExact = [p \in Payments |-> TRUE]
    /\ processed = {}
    /\ hookAt = [h \in Hooks |-> "idle"]
    /\ hookEvent = [h \in Hooks |-> None]
    /\ tapAt = [t \in Taps |-> "idle"]
    /\ tapQuote = [t \in Taps |-> None]
    /\ tapOrder = [t \in Taps |-> None]
    /\ closeAt = [a \in Admins |-> "idle"]
    /\ due = {}

-----------------------------------------------------------------------------
(* Who may act, and the quotes of the request. *)

Super(a) == a \in SuperAdmins

\* assertCanAct: unassigned means any admin; otherwise the assignee or a super admin.
MayAct(a) == Super(a) \/ assignee \in {None, a}

\* The status condition of cancel and of a close as declined.
NotYetPaid == status \in {"requested", "quote_sent"}

Active(q)   == quote[q] = "active"
Payable(q)  == Active(q) /\ ~lapsed[q]              \* effectiveQuoteStatus = 'active'

\* PAYMENT_IN_PROGRESS_WINDOW_MS since the member opened the payment sheet is not over;
\* NoWindow is the window forgotten.
NoWindow(q) == FALSE
InWindow(q) == started[q] = "recent"

\* v is MAX(version) + 1.
NextVersion(v) == \A q \in Quotes : quote[q] # "none" <=> q < v

\* What a cancel or a close does to the quote that was still waiting for the member.
\* KeptPayable is the withdrawal forgotten.
KeptPayable == quote
Withdrawn   == [q \in Quotes |-> IF Active(q) THEN "cancelled" ELSE quote[q]]

Recorded(o)  == orderStatus[o] \in {"created", "paid"}   \* has a razorpay_orders row
Unpaid(q)    == {o \in Orders : orderStatus[o] = "created" /\ orderQuote[o] = q}
Captured(p)  == gwState[p] \in {"captured", "late"}

-----------------------------------------------------------------------------
(* The admin side. *)

SaveBillingSettings ==
    /\ configured' = TRUE
    /\ UNCHANGED <<requestVars, quoteVars, orderVars, ledgerVars, gatewayVars,
                   hookVars, tapVars, closeAt, due>>

SendQuote(a, confirm) ==
    /\ configured
    /\ status \notin {"closed", "paid"}
    /\ MayAct(a)
    /\ \A q \in Quotes : Active(q) /\ InWindow(q) => confirm
    /\ \E v \in Quotes :
        /\ NextVersion(v)
        /\ quote' = [q \in Quotes |-> IF q = v THEN "active"
                                      ELSE IF Active(q) THEN "superseded" ELSE quote[q]]
    /\ status' = "quote_sent"
    /\ assignee' = IF assignee = None THEN a ELSE assignee
    /\ UNCHANGED <<closedReason, requiresReview, lapsed, started, orderVars,
                   ledgerVars, configured, gatewayVars, hookVars, tapVars, closeAt, due>>

\* claimInTx: assign if still unassigned and open.
Claim(a) ==
    /\ status # "closed" /\ assignee = None
    /\ assignee' = a
    /\ UNCHANGED <<status, closedReason, requiresReview, quoteVars, orderVars,
                   ledgerVars, configured, gatewayVars, hookVars, tapVars, closeAt, due>>

Reassign(a, to) ==
    /\ Super(a) /\ status # "closed" /\ assignee # to
    /\ assignee' = to
    /\ UNCHANGED <<status, closedReason, requiresReview, quoteVars, orderVars,
                   ledgerVars, configured, gatewayVars, hookVars, tapVars, closeAt, due>>

\* close, before its transaction: the checks on the row that was read.
CloseRead(a) ==
    /\ closeAt[a] = "idle"
    /\ status # "closed" /\ MayAct(a)
    /\ assignee # None \/ Super(a)
    /\ closeAt' = [closeAt EXCEPT ![a] = IF assignee = None THEN "claim" ELSE "completed"]
    /\ UNCHANGED <<requestVars, quoteVars, orderVars, ledgerVars, configured,
                   gatewayVars, hookVars, tapVars, due>>

\* What a successful close does to the rows, whichever of the two updates matched.
CloseAs(a, reason) ==
    /\ status' = "closed" /\ closedReason' = reason
    /\ quote' = Withdrawn
    /\ closeAt' = [closeAt EXCEPT ![a] = "idle"]
    /\ UNCHANGED <<requiresReview, lapsed, started, orderVars, ledgerVars,
                   configured, gatewayVars, hookVars, tapVars, due>>

\* The first update of close's transaction.  An unassigned row is claimed first, which
\* takes the row lock, so then both updates happen under it; otherwise an update that
\* matches no row locks nothing and others may commit before the second one.
CloseCompleted(a) ==
    /\ closeAt[a] \in {"claim", "completed"}
    /\ LET claims == closeAt[a] = "claim" /\ assignee = None /\ status # "closed"
           owner  == Super(a) \/ claims \/ assignee = a
       IN  \/ /\ claims \/ (status = "paid" /\ owner)
              /\ assignee' = IF claims THEN a ELSE assignee
              /\ CloseAs(a, IF status = "paid" THEN "completed" ELSE "declined")
           \/ /\ ~claims /\ ~(status = "paid" /\ owner)
              /\ closeAt' = [closeAt EXCEPT ![a] = "declined"]
              /\ UNCHANGED <<requestVars, quoteVars, orderVars, ledgerVars, configured,
                             gatewayVars, hookVars, tapVars, due>>

\* The second update.  SERVICE_ASSIGNED_TO_OTHER is the answer when it matches no row
\* although the request is not closed.
CloseDeclined(a) ==
    /\ closeAt[a] = "declined"
    /\ LET matches == NotYetPaid /\ (Super(a) \/ assignee = a)
       IN  \/ /\ matches
              /\ assignee' = assignee
              /\ CloseAs(a, "declined")
           \/ /\ ~matches
              /\ closeAt' = [closeAt EXCEPT ![a] = IF status = "closed" THEN "idle" ELSE "refused"]
              /\ UNCHANGED <<requestVars, quoteVars, orderVars, ledgerVars, configured,
                             gatewayVars, hookVars, tapVars, due>>

\* The answer SERVICE_ASSIGNED_TO_OTHER has been given.
CloseRefused(a) ==
    /\ closeAt[a] = "refused"
    /\ closeAt' = [closeAt EXCEPT ![a] = "idle"]
    /\ UNCHANGED <<requestVars, quoteVars, orderVars, ledgerVars, configured,
                   gatewayVars, hookVars, tapVars, due>>

ResolveReview ==
    /\ requiresReview
    /\ requiresReview' = FALSE
    /\ UNCHANGED <<status, closedReason, assignee, quoteVars, orderVars, ledgerVars,
                   configured, gatewayVars, hookVars, tapVars, closeAt, due>>

-----------------------------------------------------------------------------
(* The member side. *)

Cancel ==
    /\ NotYetPaid
    /\ status' = "closed" /\ closedReason' = "cancelled_by_member"
    /\ quote' = Withdrawn
    /\ UNCHANGED <<assignee, requiresReview, lapsed, started, orderVars, ledgerVars,
                   configured, gatewayVars, hookVars, tapVars, closeAt, due>>

\* createOrder up to the checks on the rows it read.
PayTapped(t, q) ==
    /\ tapAt[t] = "idle"
    /\ status = "quote_sent" /\ Payable(q) /\ configured
    /\ tapAt' = [tapAt EXCEPT ![t] = "mark"]
    /\ tapQuote' = [tapQuote EXCEPT ![t] = q]
    /\ UNCHANGED <<requestVars, quoteVars, orderVars, ledgerVars, configured,
                   gatewayVars, hookVars, tapOrder, closeAt, due>>

TapGoes(t, to) ==
    /\ tapAt' = [tapAt EXCEPT ![t] = to]
    /\ UNCHANGED <<requestVars, orderQuote, ledgerVars, configured, gatewayVars, hookVars,
                   tapQuote, tapOrder, closeAt, due>>

TapReturns(t) ==
    /\ tapAt' = [tapAt EXCEPT ![t] = "idle"]
    /\ tapQuote' = [tapQuote EXCEPT ![t] = None]
    /\ tapOrder' = [tapOrder EXCEPT ![t] = None]
    /\ UNCHANGED <<requestVars, orderQuote, ledgerVars, configured, gatewayVars, hookVars,
                   closeAt, due>>

\* Billing details and paymentStartedAt, only while the quote is still payable.
MarkStarted(t) ==
    /\ tapAt[t] = "mark" /\ Payable(tapQuote[t])
    /\ started' = [started EXCEPT ![tapQuote[t]] = "recent"]
    /\ TapGoes(t, "find")
    /\ UNCHANGED <<quote, lapsed, orderStatus, handed>>

\* The order is given to the app: the member can pay it from now on.
HandOver(t, o) ==
    /\ handed' = handed \union {o}
    /\ TapReturns(t)

ReuseUnpaid(t) ==
    /\ tapAt[t] = "find"
    /\ \E o \in Unpaid(tapQuote[t]) : HandOver(t, o)
    /\ UNCHANGED <<quoteVars, orderStatus>>

NoUnpaid(t) ==
    /\ tapAt[t] = "find" /\ Unpaid(tapQuote[t]) = {}
    /\ TapGoes(t, "create")
    /\ UNCHANGED <<quoteVars, orderStatus, handed>>

CreateAtGateway(t) ==
    /\ tapAt[t] = "create"
    /\ \E o \in Orders :
        /\ orderStatus[o] = "none"
        /\ orderStatus' = [orderStatus EXCEPT ![o] = "gateway"]
        /\ orderQuote' = [orderQuote EXCEPT ![o] = tapQuote[t]]
        /\ tapOrder' = [tapOrder EXCEPT ![t] = o]
    /\ tapAt' = [tapAt EXCEPT ![t] = "insert"]
    /\ UNCHANGED <<requestVars, quoteVars, handed, ledgerVars, configured, gatewayVars,
                   hookVars, tapQuote, closeAt, due>>

\* Insert without the partial unique index on unpaid orders.
InsertUnchecked(t) ==
    /\ tapAt[t] = "insert"
    /\ orderStatus' = [orderStatus EXCEPT ![tapOrder[t]] = "created"]
    /\ HandOver(t, tapOrder[t])
    /\ UNCHANGED quoteVars

InsertOrder(t) ==
    /\ tapAt[t] = "insert" /\ Unpaid(tapQuote[t]) = {}
    /\ orderStatus' = [orderStatus EXCEPT ![tapOrder[t]] = "created"]
    /\ HandOver(t, tapOrder[t])
    /\ UNCHANGED quoteVars

\* uq_razorpay_orders_one_unpaid refuses the second unpaid order of a quote.
InsertLoses(t) ==
    /\ tapAt[t] = "insert" /\ Unpaid(tapQuote[t]) # {}
    /\ TapGoes(t, "share")
    /\ UNCHANGED <<quoteVars, orderStatus, handed>>

ShareWinner(t) ==
    /\ tapAt[t] = "share"
    /\ \E o \in Unpaid(tapQuote[t]) : HandOver(t, o)
    /\ UNCHANGED <<quoteVars, orderStatus>>

\* Refused, gateway error, winner already paid, or the process died: nothing is undone.
TapEnds(t) ==
    /\ tapAt[t] # "idle"
    /\ TapReturns(t)
    /\ UNCHANGED <<quoteVars, orderStatus, handed>>

-----------------------------------------------------------------------------
(* The gateway (external). *)

MayCapture(o) == ExtraCapture \/ \A p \in Payments : Captured(p) => gwOrder[p] # o

Capture(p, o, exact) ==
    /\ gwState[p] = "none" /\ o \in handed /\ MayCapture(o)
    /\ gwState' = [gwState EXCEPT ![p] = "captured"]
    /\ gwOrder' = [gwOrder EXCEPT ![p] = o]
    /\ gwExact' = [gwExact EXCEPT ![p] = exact]
    /\ UNCHANGED <<requestVars, quoteVars, orderVars, ledgerVars, configured, hookVars,
                   tapVars, closeAt, due>>

AttemptFails(p, o) ==
    /\ gwState[p] = "none" /\ o \in handed
    /\ gwState' = [gwState EXCEPT ![p] = "failed"]
    /\ gwOrder' = [gwOrder EXCEPT ![p] = o]
    /\ UNCHANGED <<requestVars, quoteVars, orderVars, ledgerVars, configured, gwExact,
                   hookVars, tapVars, closeAt, due>>

\* The bank confirms an attempt that was first reported failed.
LateCapture(p) ==
    /\ gwState[p] = "failed" /\ MayCapture(gwOrder[p])
    /\ gwState' = [gwState EXCEPT ![p] = "late"]
    /\ UNCHANGED <<requestVars, quoteVars, orderVars, ledgerVars, configured, gwOrder,
                   gwExact, hookVars, tapVars, closeAt, due>>

-----------------------------------------------------------------------------
(* settle: the one place a payment becomes real.  One transaction under the  *)
(* request's row lock; the caller gives the order it found.                  *)

\* Whether settle still has to decide about this order; AnyRecorded ignores that the
\* order was decided before.
AnyRecorded(o) == Recorded(o)
Undecided(o)   == orderStatus[o] = "created"

\* The payment is for the payable quote of an open request; without the request and
\* the quote being looked at again under the lock, AnyQuote.
AnyQuote(q)      == TRUE
QuoteIsOpen(q)   == status = "quote_sent" /\ Active(q)

RecordCaptured(p) == payRow' = [payRow EXCEPT ![p] = "captured"]

SettleAgain(p) ==
    /\ ~Undecided(gwOrder[p])
    /\ RecordCaptured(p)
    /\ UNCHANGED <<requestVars, quote, orderStatus, settled, flagged, invoices>>

\* A payment of the wrong amount left without a flag.
SettleQuiet(p, exact) ==
    LET o == gwOrder[p] IN
    /\ Undecided(o)
    /\ ~exact \/ ~QuoteIsOpen(orderQuote[o])
    /\ RecordCaptured(p)
    /\ orderStatus' = [orderStatus EXCEPT ![o] = "paid"]
    /\ flagged' = IF exact THEN flagged \union {p} ELSE flagged
    /\ requiresReview' = TRUE
    /\ UNCHANGED <<status, closedReason, assignee, quote, settled, invoices>>

SettleFlagged(p, exact) ==
    LET o == gwOrder[p] IN
    /\ Undecided(o)
    /\ ~exact \/ ~QuoteIsOpen(orderQuote[o])
    /\ RecordCaptured(p)
    /\ orderStatus' = [orderStatus EXCEPT ![o] = "paid"]
    /\ flagged' = flagged \union {p}
    /\ requiresReview' = TRUE
    /\ UNCHANGED <<status, closedReason, assignee, quote, settled, invoices>>

SettleApplied(p, exact) ==
    LET o == gwOrder[p]
        q == orderQuote[o]
        invoiced == configured /\ started[q] # "no"    \* billing is stored with paymentStartedAt
    IN
    /\ Undecided(o)
    /\ exact /\ QuoteIsOpen(q)
    /\ RecordCaptured(p)
    /\ orderStatus' = [orderStatus EXCEPT ![o] = "paid"]
    /\ quote' = [quote EXCEPT ![q] = "paid"]
    /\ status' = "paid"
    /\ settled' = settled \union {p}
    /\ invoices' = IF invoiced THEN invoices \union {<<p, q>>} ELSE invoices
    /\ flagged' = IF invoiced THEN flagged ELSE flagged \union {p}
    /\ requiresReview' = (requiresReview \/ ~invoiced)
    /\ UNCHANGED <<closedReason, assignee>>

\* 'unknown_order': neither a service order nor anything to record.
SettleUnknown(p) ==
    /\ ~Recorded(gwOrder[p])
    /\ UNCHANGED <<requestVars, quote, orderStatus, ledgerVars>>

Settle(p, exact) ==
    /\ \/ SettleUnknown(p)
       \/ Recorded(gwOrder[p]) /\ ( \/ SettleAgain(p)
                                    \/ SettleFlagged(p, exact)
                                    \/ SettleApplied(p, exact) )
    /\ UNCHANGED <<lapsed, started, orderQuote, handed, configured, gatewayVars, tapVars,
                   closeAt, due>>

\* The app's verify call: a genuine signature, and the order's own amount.
Verify(p) ==
    /\ Captured(p) /\ Recorded(gwOrder[p])
    /\ Settle(p, TRUE)
    /\ UNCHANGED hookVars

-----------------------------------------------------------------------------
(* The webhook. *)

Happened(e) == IF e[2] = "captured" THEN Captured(e[1]) ELSE gwState[e[1]] \in {"failed", "late"}

\* A delivery of an event that is not processed yet is stored (once) and handled.
Deliver(h, e) ==
    /\ hookAt[h] = "idle" /\ Happened(e) /\ e \notin processed
    /\ hookAt' = [hookAt EXCEPT ![h] = "process"]
    /\ hookEvent' = [hookEvent EXCEPT ![h] = e]
    /\ UNCHANGED <<requestVars, quoteVars, orderVars, ledgerVars, configured, gatewayVars,
                   processed, tapVars, closeAt, due>>

ProcessCaptured(h) ==
    /\ hookAt[h] = "process" /\ hookEvent[h][2] = "captured"
    /\ Settle(hookEvent[h][1], gwExact[hookEvent[h][1]])
    /\ hookAt' = [hookAt EXCEPT ![h] = "mark"]
    /\ UNCHANGED <<processed, hookEvent>>

\* What the upsert of a failed attempt leaves in the row.
FailedRow(row) == IF row = "none" THEN "failed" ELSE row

\* recordFailedAttempt: an upsert that never touches an existing row.
ProcessFailed(h) ==
    /\ hookAt[h] = "process" /\ hookEvent[h][2] = "failed"
    /\ LET p == hookEvent[h][1] IN
       payRow' = IF Recorded(gwOrder[p]) THEN [payRow EXCEPT ![p] = FailedRow(payRow[p])]
                                         ELSE payRow
    /\ hookAt' = [hookAt EXCEPT ![h] = "mark"]
    /\ UNCHANGED <<requestVars, quoteVars, orderVars, settled, flagged, invoices, configured,
                   gatewayVars, processed, hookEvent, tapVars, closeAt, due>>

HookEnds(h) ==
    /\ hookAt' = [hookAt EXCEPT ![h] = "idle"]
    /\ hookEvent' = [hookEvent EXCEPT ![h] = None]
    /\ UNCHANGED <<requestVars, quoteVars, orderVars, ledgerVars, configured, gatewayVars,
                   tapVars, closeAt, due>>

\* processedAt, after the processing step or (the fault) before it.
MarkEarly(h) ==
    /\ hookAt[h] \in {"process", "mark"}
    /\ processed' = processed \union {hookEvent[h]}
    /\ HookEnds(h)

MarkProcessed(h) ==
    /\ hookAt[h] = "mark"
    /\ processed' = processed \union {hookEvent[h]}
    /\ HookEnds(h)

\* Processing threw (its transaction rolled back, 500 is answered) or the process died.
HookFails(h) ==
    /\ hookAt[h] # "idle"
    /\ HookEnds(h)
    /\ processed' = processed

-----------------------------------------------------------------------------
(* The expiry sweep, and time. *)

\* dueWhere; the first form forgets the quotes whose payment window is over.
NeverStarted(q) == Active(q) /\ lapsed[q] /\ started[q] = "no"
IsDue(q)        == Active(q) /\ lapsed[q] /\ ~InWindow(q)

SweepStart ==
    /\ due = {} /\ due' = {q \in Quotes : IsDue(q)} /\ due' # {}
    /\ UNCHANGED <<requestVars, quoteVars, orderVars, ledgerVars, configured, gatewayVars,
                   hookVars, tapVars, closeAt>>

\* The condition repeated under the request's lock.
StillDue(q) == IsDue(q)

SweepExpire(q) ==
    /\ q \in due
    /\ due' = due \ {q}
    /\ quote' = IF StillDue(q) THEN [quote EXCEPT ![q] = "expired"] ELSE quote
    /\ status' = IF StillDue(q) /\ status = "quote_sent" THEN "requested" ELSE status
    /\ UNCHANGED <<closedReason, assignee, requiresReview, lapsed, started, orderVars,
                   ledgerVars, configured, gatewayVars, hookVars, tapVars, closeAt>>

\* The cron process died in the middle of its list.
SweepDies ==
    /\ due # {} /\ due' = {}
    /\ UNCHANGED <<requestVars, quoteVars, orderVars, ledgerVars, configured, gatewayVars,
                   hookVars, tapVars, closeAt>>

\* Only an active quote's dates are looked at, so time is followed for that one.
Lapse(q) ==
    /\ Active(q) /\ ~lapsed[q]
    /\ lapsed' = [lapsed EXCEPT ![q] = TRUE]
    /\ UNCHANGED <<requestVars, quote, started, orderVars, ledgerVars, configured,
                   gatewayVars, hookVars, tapVars, closeAt, due>>

WindowCloses(q) ==
    /\ Active(q) /\ started[q] = "recent"
    /\ started' = [started EXCEPT ![q] = "old"]
    /\ UNCHANGED <<requestVars, quote, lapsed, orderVars, ledgerVars, configured,
                   gatewayVars, hookVars, tapVars, closeAt, due>>

-----------------------------------------------------------------------------

AdminStep ==
    \/ SaveBillingSettings \/ ResolveReview
    \/ \E a \in Admins :
        \/ \E confirm \in BOOLEAN : SendQuote(a, confirm)
        \/ Claim(a)
        \/ \E to \in Admins : Reassign(a, to)
        \/ CloseRead(a) \/ CloseCompleted(a) \/ CloseDeclined(a) \/ CloseRefused(a)

TapStep(t) ==
    \/ MarkStarted(t) \/ ReuseUnpaid(t) \/ NoUnpaid(t) \/ CreateAtGateway(t)
    \/ InsertOrder(t) \/ InsertLoses(t) \/ ShareWinner(t) \/ TapEnds(t)

MemberStep ==
    \/ Cancel
    \/ \E t \in Taps : TapStep(t) \/ \E q \in Quotes : PayTapped(t, q)
    \/ \E p \in Payments : Verify(p)

GatewayStep ==
    \E p \in Payments :
        \/ LateCapture(p)
        \/ \E o \in Orders : AttemptFails(p, o)
        \/ \E o \in Orders, exact \in AmountMatches : Capture(p, o, exact)

HookStep(h) ==
    \/ \E e \in Events : Deliver(h, e)
    \/ ProcessCaptured(h) \/ ProcessFailed(h) \/ MarkProcessed(h) \/ HookFails(h)

SweepStep == SweepStart \/ SweepDies \/ \E q \in Quotes : SweepExpire(q)
TimeStep  == \E q \in Quotes : Lapse(q) \/ WindowCloses(q)

Next ==
    \/ AdminStep \/ MemberStep \/ GatewayStep \/ SweepStep \/ TimeStep
    \/ \E h \in Hooks : HookStep(h)

Spec == Init /\ [][Next]_vars

\* Razorpay redelivers an event until it is answered with 2xx, a delivery that can
\* succeed does so in the end, the sweep is scheduled again and again, and time passes.
Fairness ==
    /\ \A e \in Events : SF_vars(\E h \in Hooks : Deliver(h, e))
    /\ \A h \in Hooks : /\ SF_vars(ProcessCaptured(h)) /\ SF_vars(ProcessFailed(h))
                        /\ SF_vars(MarkProcessed(h))
    /\ WF_vars(SweepStart)
    /\ \A q \in Quotes : SF_vars(SweepExpire(q)) /\ WF_vars(WindowCloses(q))

FairSpec == Spec /\ Fairness

-----------------------------------------------------------------------------
(* Safety. *)

\* A request is in quote_sent exactly while one of its quotes is active, and that quote is
\* the newest one: whatever order quotes, payments, cancels, closes and sweeps come in, the
\* member never sees a payable quote on a request that cannot be paid, or the reverse.
QuoteMatchesStatus ==
    /\ status = "quote_sent" <=> \E q \in Quotes : Active(q)
    /\ \A q, r \in Quotes : Active(q) /\ r > q => quote[r] = "none"

\* At most one payment settles a request, it is a recorded captured payment for the one
\* quote that became paid, and it alone is invoiced, for that quote; verify and webhook
\* racing, duplicated or crossing other operations make no second settlement or invoice.
PaidExactlyOnce ==
    /\ \A p1, p2 \in settled : p1 = p2
    /\ \A q \in Quotes : quote[q] = "paid" <=> \E p \in settled : orderQuote[gwOrder[p]] = q
    /\ \A p \in settled : payRow[p] = "captured" /\ orderStatus[gwOrder[p]] = "paid"
    /\ invoices = {<<p, orderQuote[gwOrder[p]]>> : p \in settled}

\* The closing reason tells the truth about the money: completed closes a settled request,
\* declined and cancelled close one that was never settled, and a settled request is
\* paid until it is completed.
ReasonMatchesMoney == settled # {} <=> status = "paid" \/ closedReason = "completed"

\* Every payment the application has recorded as captured either settled the request or
\* was flagged for an admin to refund: "requiresReview ... money arrived that the request
\* can't absorb".
MoneyAccounted ==
    \A p \in Payments : payRow[p] = "captured" => p \in settled \union flagged

\* The orders a member was given for one quote and has not paid yet are a single order,
\* and the application knows it: two taps on Pay never let the same quote be paid twice,
\* and no payment arrives for an order the webhook cannot find.
OneOrderToPay ==
    \A o1, o2 \in handed :
        /\ Recorded(o1)
        /\ orderQuote[o1] = orderQuote[o2] /\ "paid" \notin {orderStatus[o1], orderStatus[o2]}
            => o1 = o2

\* A quote never expires under a member who opened the payment sheet within the grace
\* window, although the sweep decides from a list it read earlier.
ExpiryLeavesPayers == \A q \in Quotes : quote[q] = "expired" => started[q] # "recent"

\* The request keeps the promise of PaymentPromise: each step of each handler is one of
\* its steps or is invisible to it.
PromiseStage ==
    CASE status = "paid" -> "paid"
      [] status = "closed" -> IF closedReason = "completed" THEN "completed" ELSE "abandoned"
      [] OTHER -> "open"

Promise == INSTANCE PaymentPromise WITH
    stage    <- PromiseStage,
    received <- {p \in Payments : Captured(p)},
    applied  <- settled,
    held     <- flagged

KeepsPromise == Promise!PromiseSpec

-----------------------------------------------------------------------------
(* Liveness, under Fairness. *)

\* Every payment the gateway captured is settled or flagged in the end, even if the app
\* never calls verify and deliveries fail or the process dies in between.
EveryPaymentDecided ==
    \A p \in Payments : Captured(p) ~> p \in settled \union flagged

\* A quote past its expiry does not stay payable for ever: it is paid, replaced,
\* withdrawn, or the sweep takes it.
LapsedQuoteLeaves == \A q \in Quotes : Active(q) /\ lapsed[q] ~> ~Active(q)

=============================================================================
