---------------------------- MODULE PaymentPromise ----------------------------
(***************************************************************************)
(* What the service payment code promises about money, with the quotes,    *)
(* the orders, the webhook and the sweep left out: a captured payment is   *)
(* either applied to the request, which it alone pays for, or held for an  *)
(* admin to refund, once and for good; and a request ends as completed     *)
(* exactly when it was paid for.                                           *)
(***************************************************************************)
CONSTANT Payments

VARIABLES
    stage,      \* open, paid, completed or abandoned
    received,   \* payments the gateway captured
    applied,    \* payments that paid for the request
    held        \* payments flagged for an admin

promiseVars == <<stage, received, applied, held>>

PromiseTypeOK ==
    /\ stage \in {"open", "paid", "completed", "abandoned"}
    /\ received \subseteq Payments /\ applied \subseteq received /\ held \subseteq received

PromiseInit == stage = "open" /\ received = {} /\ applied = {} /\ held = {}

Undecided == received \ (applied \union held)

Receive(p) ==
    /\ p \notin received
    /\ received' = received \union {p}
    /\ UNCHANGED <<stage, applied, held>>

Apply(p) ==
    /\ stage = "open" /\ p \in Undecided
    /\ stage' = "paid" /\ applied' = applied \union {p}
    /\ UNCHANGED <<received, held>>

Hold(p) ==
    /\ p \in Undecided
    /\ held' = held \union {p}
    /\ UNCHANGED <<stage, received, applied>>

Complete ==
    /\ stage = "paid" /\ stage' = "completed"
    /\ UNCHANGED <<received, applied, held>>

Abandon ==
    /\ stage = "open" /\ stage' = "abandoned"
    /\ UNCHANGED <<received, applied, held>>

PromiseNext ==
    \/ Complete \/ Abandon
    \/ \E p \in Payments : Receive(p) \/ Apply(p) \/ Hold(p)

PromiseSpec == PromiseInit /\ [][PromiseNext]_promiseVars

\* A request is paid or completed exactly when one payment was applied to it, never two,
\* and no payment is both applied and held: what the two ways of settling owe the member.
PaidForOnce ==
    /\ \A p1, p2 \in applied : p1 = p2
    /\ stage \in {"paid", "completed"} <=> applied # {}
    /\ applied \intersect held = {}

=============================================================================
