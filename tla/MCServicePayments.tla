-------------------------- MODULE MCServicePayments --------------------------
(***************************************************************************)
(* ServicePayments for TLC: model values, the symmetry of the ids that no  *)
(* definition tells apart, and a bound on what comes together.             *)
(***************************************************************************)
EXTENDS ServicePayments, TLC, FiniteSets

CONSTANTS o1, o2, p1, p2, t1, t2, h1, h2, chief, staff

MCExact     == {TRUE}       \* the gateway always captures the order's amount
MCAnyAmount == BOOLEAN   \* ... or a different one

Symmetry ==
    Permutations(Orders) \union Permutations(Payments)
        \union Permutations(Taps) \union Permutations(Hooks)

\* Several quotes meet one tap at a time, no webhook and payments of the right amount; one quote
\* meets everything.
HooksUnused == processed = {} /\ \A h \in Hooks : hookAt[h] = "idle"
OneTap      == Cardinality({t \in Taps : tapAt[t] # "idle"}) <= 1
MCBound ==
    \/ \A q \in Quotes \ {1} : quote[q] = "none"
    \/ HooksUnused /\ OneTap /\ \A p \in Payments : gwExact[p]

=============================================================================
