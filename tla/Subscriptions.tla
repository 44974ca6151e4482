----------------------------- MODULE Subscriptions -----------------------------
(***************************************************************************)
(* One member's subscription to one paid community: the rows, the plan     *)
(* orders that buy them, what admins do to them, and the two daily jobs    *)
(* that remind and close.  Rows of other members or communities never meet *)
(* these: every query and lock of the code names the pair.                 *)
(*                                                                         *)
(* A database transaction that reads before it writes is two actions here, *)
(* because the code runs at READ COMMITTED: what it read may be old when   *)
(* it commits.  Row locks are kept: a transaction that has updated a row   *)
(* holds back the other writers of that row until it ends.                 *)
(***************************************************************************)
EXTENDS Integers

CONSTANTS
    Rows,       \* ids of subscription rows
    Orders,     \* plan orders
    Payments,   \* payments the gateway may capture
    Admins,     \* concurrent admin requests
    Crons,      \* cron processes (two while a deploy replaces one)
    Dates,      \* the dates admins type
    LastDay,    \* bound: the clock stops there
    Duration,   \* days a plan lasts
    Week,       \* reach of the reminder windows, 7 in the code
    None

ASSUME DaysAssumption ==
    /\ LastDay \in Nat /\ Duration \in Nat \ {0} /\ Week \in Nat
    /\ Dates \subseteq Nat
    /\ None \notin Rows \union Orders \union Payments

Notices == {"expiring-7", "expiring-1", "expired"}

VARIABLES
    day,                      \* today, as every process computes it
    member,                   \* users.status
    made, active, until, soldBy, \* subscriptions: rows that exist, is_active, valid_until, the order
    orderStatus, paidWith, bought, \* plan_orders
    captured,                 \* external: the order each payment was captured for
    grant,                    \* open settlement transaction of an order: what it read
    receiptDue, receipts,     \* settlements whose receipt is still to be issued; plan_receipts
    task,                     \* the request each admin is executing
    cron,                     \* the job each cron process is executing
    told, mails,              \* notification rows (per row and type), emails sent
    \* History, which no guard reads:
    extended,                 \* rows an extension wrote
    uncrossed                 \* open settlements that read at most one active row, none written since

rowVars   == <<made, active, until, soldBy, extended, uncrossed>>
orderVars == <<orderStatus, paidWith, bought, captured, grant, receiptDue, receipts>>
tellVars  == <<told, mails>>
vars == <<day, member, rowVars, orderVars, task, cron, tellVars>>

Tasks == [at : {"idle", "extend", "retired", "create", "overwrite"}, row : Rows \union {None},
          locked : SUBSET Rows, until : Nat, revives : BOOLEAN]
Jobs  == [kind : {"idle", "expire", "remind"}, due : SUBSET (Rows \X Notices), tells : BOOLEAN,
          at : {"next", "mail", "close"}, item : (Rows \X Notices) \union {None}]

NoTask == [at |-> "idle", row |-> None, locked |-> {}, until |-> 0, revives |-> FALSE]
NoJob  == [kind |-> "idle", due |-> {}, tells |-> FALSE, at |-> "next", item |-> None]

TypeOK ==
    /\ day \in 0 .. LastDay
    /\ member \in {"active", "suspended", "deleted"}
    /\ active \subseteq made /\ made \subseteq Rows
    /\ until \in [Rows -> Nat]
    /\ soldBy \in [Rows -> Orders \union {None}]
    /\ orderStatus \in [Orders -> {"none", "created", "paid"}]
    /\ paidWith \in [Orders -> Payments \union {None}]
    /\ bought \in [Orders -> Rows \union {None}]
    /\ captured \in [Payments -> Orders \union {None}]
    /\ grant \in [Orders -> [open : BOOLEAN, pay : Payments \union {None},
                             seen : Rows \union {None}, base : Nat]]
    /\ receiptDue \subseteq Orders /\ receipts \subseteq Orders
    /\ task \in [Admins -> Tasks]
    /\ cron \in [Crons -> Jobs]
    /\ told \subseteq Rows \X Notices
    /\ mails \in [Rows \X Notices -> 0 .. 2]
    /\ extended \subseteq Rows /\ uncrossed \subseteq Orders

NoGrant == [open |-> FALSE, pay |-> None, seen |-> None, base |-> 0]

\* The member was added with one row, valid for a while.
Init ==
    /\ day = 0 /\ member = "active"
    /\ \E r \in Rows, d \in Dates :
          /\ made = {r} /\ active = {r}
          /\ until = [x \in Rows |-> IF x = r THEN d ELSE 0]
    /\ soldBy = [r \in Rows |-> None]
    /\ orderStatus = [o \in Orders |-> "none"]
    /\ paidWith = [o \in Orders |-> None]
    /\ bought = [o \in Orders |-> None]
    /\ captured = [p \in Payments |-> None]
    /\ grant = [o \in Orders |-> NoGrant]
    /\ receiptDue = {} /\ receipts = {}
    /\ task = [a \in Admins |-> NoTask]
    /\ cron = [c \in Crons |-> NoJob]
    /\ told = {} /\ mails = [n \in Rows \X Notices |-> 0]
    /\ extended = {} /\ uncrossed = {}

-----------------------------------------------------------------------------
(* Rows and locks. *)

Running(r) == r \in active /\ until[r] >= day   \* gives access today
Lapsed(r)  == r \in active /\ until[r] < day

\* The row is not held by an extension that has retired it and not committed yet.
RowFree(r) == \A a \in Admins : r \notin task[a].locked

\* subscription.create: a row that did not exist, active.
NewRow(r, d, o) ==
    /\ r \notin made
    /\ made' = made \union {r}
    /\ until' = [until EXCEPT ![r] = d]
    /\ soldBy' = [soldBy EXCEPT ![r] = o]
    /\ uncrossed' = {}

-----------------------------------------------------------------------------
(* Buying a plan. *)

\* createOrder / createSession: an order the member can pay.
CreateOrder(o) ==
    /\ member = "active" /\ orderStatus[o] = "none"
    /\ orderStatus' = [orderStatus EXCEPT ![o] = "created"]
    /\ UNCHANGED <<day, member, rowVars, paidWith, bought, captured, grant, receiptDue, receipts,
                   task, cron, tellVars>>

\* External: Razorpay captures a payment for an order it knows, possibly a second one.
Capture(p, o) ==
    /\ captured[p] = None /\ orderStatus[o] # "none"
    /\ captured' = [captured EXCEPT ![p] = o]
    /\ UNCHANGED <<day, member, rowVars, orderStatus, paidWith, bought, grant, receiptDue, receipts,
                   task, cron, tellVars>>

\* The compare-and-swap of the claim ("created" stands for "failed" too, which older
\* versions wrote and which can still be paid).  Its faults: the claim forgotten, and a claim that
\* also asks for the member's standing.
ClaimAny(o)      == orderStatus[o] \in {"created", "paid"}
ClaimOfActive(o) == orderStatus[o] = "created" /\ member = "active"
Claimable(o)     == orderStatus[o] = "created"

\* Renewal starts at the end of the running row, anything else today; its fault: always
\* today.
BaseToday(r) == day
BaseOf(r)    == IF r # None /\ until[r] >= day THEN until[r] ELSE day

\* settlePlanOrder, reached by verify or by the webhook with a captured payment: the
\* claim locks the order row, then the current row is read.
SettleBegin(o, p) ==
    /\ captured[p] = o /\ Claimable(o) /\ ~grant[o].open
    /\ \E r \in IF active = {} THEN {None} ELSE active :
          grant' = [grant EXCEPT ![o] = [open |-> TRUE, pay |-> p, seen |-> r, base |-> BaseOf(r)]]
    /\ uncrossed' = IF \A r, s \in active : r = s THEN uncrossed \union {o} ELSE uncrossed
    /\ UNCHANGED <<day, member, made, active, until, soldBy, extended, orderStatus, paidWith, bought, captured, receiptDue,
                   receipts, task, cron, tellVars>>

\* ... and commits: the row it read is retired, the new one written.
SettleCommit(o) ==
    LET g == grant[o] IN
    /\ g.open
    /\ g.seen # None => RowFree(g.seen)
    /\ \E r \in Rows :
          /\ NewRow(r, g.base + Duration, o)
          /\ active' = (active \ {g.seen}) \union {r}
          /\ bought' = [bought EXCEPT ![o] = r]
    /\ orderStatus' = [orderStatus EXCEPT ![o] = "paid"]
    /\ paidWith' = [paidWith EXCEPT ![o] = g.pay]
    /\ grant' = [grant EXCEPT ![o] = NoGrant]
    /\ receiptDue' = receiptDue \union {o}
    /\ UNCHANGED <<day, member, extended, captured, receipts, task, cron, tellVars>>

\* The transaction fails or its process dies: nothing of it remains.
SettleAborts(o) ==
    /\ grant[o].open
    /\ grant' = [grant EXCEPT ![o] = NoGrant]
    /\ uncrossed' = uncrossed \ {o}
    /\ UNCHANGED <<day, member, made, active, until, soldBy, extended, orderStatus, paidWith, bought,
                   captured, receiptDue, receipts, task, cron, tellVars>>

\* issuePlanReceipt after the commit; its failure is swallowed, a crash skips it.
IssueReceipt(o) ==
    /\ o \in receiptDue
    /\ receiptDue' = receiptDue \ {o}
    /\ receipts' \in {receipts, receipts \union {o}}
    /\ UNCHANGED <<day, member, rowVars, orderStatus, paidWith, bought, captured, grant,
                   task, cron, tellVars>>

-----------------------------------------------------------------------------
(* What admins do to the rows. *)

Assign(a, t) == task' = [task EXCEPT ![a] = t]
Begins(a)    == task[a].at = "idle"
AdminOnly    == UNCHANGED <<day, member, rowVars, orderVars, cron, tellVars>>

\* extendSubscription: the checks made before the transaction.
ExtendCheck(a, d) ==
    /\ Begins(a) /\ member # "deleted"
    /\ Assign(a, [NoTask EXCEPT !.at = "extend", !.until = d])
    /\ AdminOnly

\* pg_advisory_xact_lock on the member and community, and the lock forgotten.
LockForgot == TRUE
LockFree   == \A a \in Admins : task[a].at # "retired"

\* ... inside it: under the lock, every row that is active now is retired (uncommitted).
ExtendRetire(a) ==
    /\ task[a].at = "extend" /\ LockFree
    /\ \A r \in active : RowFree(r)
    /\ Assign(a, [task[a] EXCEPT !.at = "retired", !.locked = active])
    /\ AdminOnly

ExtendCommit(a) ==
    /\ task[a].at = "retired"
    /\ \E r \in Rows :
          /\ NewRow(r, task[a].until, None)
          /\ active' = (active \ task[a].locked) \union {r}
          /\ extended' = extended \union {r}
    /\ Assign(a, NoTask)
    /\ UNCHANGED <<day, member, orderVars, cron, tellVars>>

\* updateMember with a new community, reviveAndAddMember, and an import row: what they
\* read before they write.
AddRead(a, d) ==
    /\ Begins(a) /\ active = {}
    /\ Assign(a, [NoTask EXCEPT !.at = "create", !.until = d])
    /\ AdminOnly

ReviveRead(a, d) ==
    /\ Begins(a) /\ member # "active"
    /\ Assign(a, [NoTask EXCEPT !.at = "create", !.until = d, !.revives = TRUE])
    /\ AdminOnly

ImportRead(a, d) ==
    /\ Begins(a)
    /\ \E r \in active : Assign(a, [NoTask EXCEPT !.at = "overwrite", !.row = r, !.until = d])
    /\ AdminOnly

CreateRow(a) ==
    /\ task[a].at = "create"
    /\ \E r \in Rows : NewRow(r, task[a].until, None) /\ active' = active \union {r}
    /\ member' = IF task[a].revives THEN "active" ELSE member
    /\ Assign(a, NoTask)
    /\ UNCHANGED <<day, extended, orderVars, cron, tellVars>>

\* The sheet import revives a deleted member in a transaction of its own, before the row.
ReviveFirst(a) ==
    /\ task[a].at = "create" /\ task[a].revives
    /\ member' = "active"
    /\ Assign(a, [task[a] EXCEPT !.revives = FALSE])
    /\ UNCHANGED <<day, rowVars, orderVars, cron, tellVars>>

\* The import overwrites by id, whatever happened to the row since.
Overwrite(a) ==
    /\ task[a].at = "overwrite" /\ RowFree(task[a].row)
    /\ until' = [until EXCEPT ![task[a].row] = task[a].until]
    /\ uncrossed' = {}
    /\ Assign(a, NoTask)
    /\ UNCHANGED <<day, member, made, active, soldBy, extended, orderVars, cron, tellVars>>

\* A request refused or lost on the way: its transaction leaves nothing.
RequestFails(a) ==
    /\ task[a].at # "idle"
    /\ Assign(a, NoTask)
    /\ AdminOnly

\* revokeMemberCommunity.
Revoke ==
    /\ \E r \in active : RowFree(r) /\ active' = active \ {r}
    /\ UNCHANGED <<day, member, made, until, soldBy, extended, uncrossed, orderVars, task, cron, tellVars>>

\* deleteMember closes every row; suspendMember and revokeSuspension leave them.
DeleteMember ==
    /\ \A r \in made : RowFree(r)
    /\ member # "deleted" /\ member' = "deleted" /\ active' = {}
    /\ UNCHANGED <<day, made, until, soldBy, extended, uncrossed, orderVars, task, cron, tellVars>>

Suspend ==
    /\ member = "active" /\ member' = "suspended"
    /\ UNCHANGED <<day, rowVars, orderVars, task, cron, tellVars>>

Reinstate ==
    /\ member = "suspended" /\ member' = "active"
    /\ UNCHANGED <<day, rowVars, orderVars, task, cron, tellVars>>

-----------------------------------------------------------------------------
(* The daily jobs. *)

\* bucketFor, on the days left when the job read the row.
Bucket(left) ==
    IF left < 0 THEN "expired" ELSE IF left <= 1 THEN "expiring-1" ELSE "expiring-7"

InWindow(r) == r \in active /\ until[r] - day \in -Week .. Week

Run(c, job) == cron' = [cron EXCEPT ![c] = job]
CronOnly    == UNCHANGED <<day, member, rowVars, orderVars, task>>

\* Which rows the closing job lists, and a job that forgets suspended members' rows.
ToCloseTold(r) == Lapsed(r) /\ member = "active"
ToClose(r)     == Lapsed(r)

\* expireLapsedSubscriptions: the list, with the member's status as it is now.
ListLapsed(c) ==
    /\ cron[c] = NoJob
    /\ {r \in Rows : ToClose(r)} # {}
    /\ Run(c, [kind |-> "expire", due |-> {r \in Rows : ToClose(r)} \X {"expired"},
               tells |-> member = "active", at |-> "next", item |-> None])
    /\ CronOnly /\ UNCHANGED tellVars

\* runSubscriptionLifecycleSweep: only members who are active.
ListExpiring(c) ==
    /\ cron[c] = NoJob /\ member = "active"
    /\ \E r \in Rows : InWindow(r)
    /\ Run(c, [kind |-> "remind",
               due |-> {<<r, Bucket(until[r] - day)>> : r \in {x \in Rows : InWindow(x)}},
               tells |-> TRUE, at |-> "next", item |-> None])
    /\ CronOnly /\ UNCHANGED tellVars

\* The job after it is done with the item in hand.
Later(j) ==
    IF j.due = {j.item} THEN NoJob
    ELSE [j EXCEPT !.due = @ \ {j.item}, !.at = "next", !.item = None]

\* The closing job still has the row to close, the reminder job is done with it.
Told(j) == IF j.kind = "expire" THEN [j EXCEPT !.at = "close"] ELSE Later(j)

\* notifyOnce returned an id: the (user, type, row) key was free; and the key ignored.
EveryTime(n) == TRUE
FirstTime(n) == n \notin told

\* The closing job with its two halves swapped: it closes the row, then tells.
CloseFirst(c) ==
    /\ cron[c].at = "next"
    /\ \E n \in cron[c].due :
          /\ active' = IF cron[c].kind = "expire" THEN active \ {n[1]} ELSE active
          /\ told' = IF cron[c].tells THEN told \union {n} ELSE told
          /\ Run(c, Later([cron[c] EXCEPT !.item = n]))
    /\ UNCHANGED <<day, member, made, until, soldBy, extended, uncrossed, orderVars, task, mails>>

TellNext(c) ==
    /\ cron[c].at = "next"
    /\ \E n \in cron[c].due :
          LET j == [cron[c] EXCEPT !.item = n] IN
          /\ Run(c, IF j.tells /\ FirstTime(n) THEN [j EXCEPT !.at = "mail"] ELSE Told(j))
          /\ told' = IF j.tells THEN told \union {n} ELSE told
    /\ CronOnly /\ UNCHANGED mails

\* The email; a failed send is only logged.
MailMember(c) ==
    /\ cron[c].at = "mail"
    /\ LET n == cron[c].item IN
          mails' \in {mails, [mails EXCEPT ![n] = IF @ = 2 THEN 2 ELSE @ + 1]}
    /\ Run(c, Told(cron[c]))
    /\ CronOnly /\ UNCHANGED told

\* update by id, whatever happened to the row since it was listed.
CloseLapsed(c) ==
    /\ cron[c].at = "close" /\ RowFree(cron[c].item[1])
    /\ active' = active \ {cron[c].item[1]}
    /\ Run(c, Later(cron[c]))
    /\ UNCHANGED <<day, member, made, until, soldBy, extended, uncrossed, orderVars, task, tellVars>>

\* The closing job catches what one row throws (telling or closing; the email's failure is
\* not thrown) and goes on with the next.
RowFails(c) ==
    /\ cron[c].kind = "expire" /\ cron[c].at # "mail"
    /\ \E n \in IF cron[c].at = "next" THEN cron[c].due ELSE {cron[c].item} :
          Run(c, Later([cron[c] EXCEPT !.item = n]))
    /\ CronOnly /\ UNCHANGED tellVars

\* The reminder job throws, or the process dies: the rest waits for the next run.
CronDies(c) ==
    /\ cron[c] # NoJob
    /\ Run(c, NoJob)
    /\ CronOnly /\ UNCHANGED tellVars

NextDay ==
    /\ day < LastDay /\ day' = day + 1
    /\ UNCHANGED <<member, rowVars, orderVars, task, cron, tellVars>>

-----------------------------------------------------------------------------

PurchaseStep ==
    \E o \in Orders :
        \/ CreateOrder(o) \/ SettleCommit(o) \/ SettleAborts(o) \/ IssueReceipt(o)
        \/ \E p \in Payments : Capture(p, o) \/ SettleBegin(o, p)

AdminStep ==
    \/ \E a \in Admins :
          \/ \E d \in Dates : ExtendCheck(a, d) \/ AddRead(a, d) \/ ReviveRead(a, d) \/ ImportRead(a, d)
          \/ ExtendRetire(a) \/ ExtendCommit(a) \/ CreateRow(a) \/ ReviveFirst(a)
          \/ Overwrite(a) \/ RequestFails(a)
    \/ Revoke \/ DeleteMember \/ Suspend \/ Reinstate

CronStep ==
    \E c \in Crons :
        \/ ListLapsed(c) \/ ListExpiring(c) \/ TellNext(c) \/ MailMember(c)
        \/ CloseLapsed(c) \/ RowFails(c) \/ CronDies(c)

Next == PurchaseStep \/ AdminStep \/ CronStep \/ NextDay

Spec == Init /\ [][Next]_vars

\* One cron process is kept running; a second one, during a deploy, may stop for good.
LastingCron == CHOOSE c \in Crons : TRUE

\* Razorpay redelivers a captured payment until it is granted, the closing job runs every
\* day and is retried for the rows it missed, and admin requests end.
Fairness ==
    /\ \A o \in Orders : /\ SF_vars(\E p \in Payments : SettleBegin(o, p))
                         /\ SF_vars(SettleCommit(o)) /\ WF_vars(IssueReceipt(o))
    /\ \A a \in Admins : WF_vars(RequestFails(a))
    /\ LET c == LastingCron IN
          /\ SF_vars(ListLapsed(c))
          /\ SF_vars(cron[c].kind = "expire" /\ TellNext(c))
          /\ SF_vars(CloseLapsed(c))
          /\ WF_vars(TellNext(c)) /\ WF_vars(MailMember(c))
    /\ WF_vars(NextDay)

FairSpec == Spec /\ Fairness

-----------------------------------------------------------------------------
(* Safety. *)

\* A paid order bought exactly one row, the one it names, and was paid by a payment captured
\* for it: verify, webhook and retries racing for the same order grant one period.
PaidOrderGrantsOnce ==
    \A o \in Orders :
        /\ {r \in made : soldBy[r] = o} = {bought[o]} \ {None}
        /\ orderStatus[o] = "paid" <=> bought[o] # None
        /\ bought[o] # None => paidWith[o] \in Payments /\ captured[paidWith[o]] = o

\* "The later request wins": two rows that extensions wrote are never active together, whatever
\* purchases, additions, imports, revives, the jobs and the closing of rows do in between.
\* Two active rows there can be: a settlement or an addition that read before another write
\* takes no lock, and a revive adds a row beside one that runs.
LaterExtensionWins == \A r, s \in active \intersect extended : r = s

\* "Buying early never loses remaining days": a purchase ends a full plan after every row
\* that was running when it was granted, whatever closes rows, dies or begins meanwhile.
\* Not so for a settlement that another write of the pair crossed, or that met two rows.
RenewalKeepsDays ==
    [][\A o \in uncrossed : bought[o] = None /\ bought'[o] # None =>
          \A r \in Rows : Running(r) => until'[bought'[o]] >= until[r] + Duration]_vars

\* Nobody is mailed twice about the same row and event, although both jobs send the expired
\* notice, two crons may run at once, and a failed job starts over.
MailedOnce == \A n \in Rows \X Notices : mails[n] <= 1

\* The closing job never closes a row behind the member's back: a member it should tell has
\* the notice before the row goes off the job's only to-do list.
ToldBeforeClosed ==
    [][\A c \in Crons : cron[c].kind = "expire" /\ cron[c].tells =>
          \A r \in active \ active' :
              cron'[c] # cron[c] => <<r, "expired">> \in told]_vars

-----------------------------------------------------------------------------
(* Liveness, under Fairness. *)

\* "If money is taken but the app never hears back": a captured payment ends in its order
\* being granted, by that payment or another one.
CaptureIsGranted ==
    \A o \in Orders : (\E p \in Payments : captured[p] = o) ~> orderStatus[o] = "paid"


\* A row past its last day does not stay active for ever, whatever the member's standing.
LapsedRowCloses == \A r \in Rows : Lapsed(r) ~> ~Lapsed(r)
======================================================================================
