-------------------------- MODULE SubscriptionsProofs --------------------------
(***************************************************************************)
(* Proofs about Subscriptions, for every number of rows, orders, payments, *)
(* admin requests and cron processes.                                      *)
(***************************************************************************)
EXTENDS Subscriptions, TLAPS

LEMMA TypeInit == Init => TypeOK
  BY DaysAssumption DEF Init, TypeOK, NoGrant, NoTask, NoJob, Tasks, Jobs

LEMMA TypePurchase == TypeOK /\ PurchaseStep => TypeOK'
<1> SUFFICES ASSUME TypeOK, NEW o \in Orders,
                    \/ CreateOrder(o) \/ SettleCommit(o) \/ SettleAborts(o) \/ IssueReceipt(o)
                    \/ \E p \in Payments : Capture(p, o) \/ SettleBegin(o, p)
             PROVE  TypeOK'
  BY DEF PurchaseStep
<1> USE DaysAssumption DEF TypeOK, NoGrant, rowVars, tellVars
<1>1. CASE CreateOrder(o)
  BY <1>1 DEF CreateOrder
<1>2. CASE SettleCommit(o)
  BY <1>2 DEF SettleCommit, NewRow
<1>3. CASE SettleAborts(o)
  BY <1>3 DEF SettleAborts
<1>4. CASE IssueReceipt(o)
  BY <1>4 DEF IssueReceipt
<1>5. ASSUME NEW p \in Payments, Capture(p, o) PROVE TypeOK'
  BY <1>5 DEF Capture
<1>6. ASSUME NEW p \in Payments, SettleBegin(o, p) PROVE TypeOK'
  <2>1. PICK r \in IF active = {} THEN {None} ELSE active :
            grant' = [grant EXCEPT ![o] = [open |-> TRUE, pay |-> p, seen |-> r, base |-> BaseOf(r)]]
    BY <1>6 DEF SettleBegin
  <2>2. r \in Rows \union {None} /\ BaseOf(r) \in Nat
    BY DEF BaseOf
  <2> QED
    BY <1>6, <2>1, <2>2 DEF SettleBegin
<1> QED
  BY <1>1, <1>2, <1>3, <1>4, <1>5, <1>6

LEMMA TypeAdmin == TypeOK /\ AdminStep => TypeOK'
<1> SUFFICES ASSUME TypeOK, AdminStep PROVE TypeOK'
  OBVIOUS
<1> USE DaysAssumption DEF TypeOK, Assign, Begins, AdminOnly, rowVars, orderVars, tellVars
<1>0. NoTask \in Tasks
  BY DaysAssumption DEF NoTask, Tasks
<1>1. ASSUME NEW a \in Admins, NEW d \in Dates,
             ExtendCheck(a, d) \/ AddRead(a, d) \/ ReviveRead(a, d) \/ ImportRead(a, d)
      PROVE  TypeOK'
  <2>1. /\ [NoTask EXCEPT !.at = "extend", !.until = d] \in Tasks
        /\ [NoTask EXCEPT !.at = "create", !.until = d] \in Tasks
        /\ [NoTask EXCEPT !.at = "create", !.until = d, !.revives = TRUE] \in Tasks
    BY DEF NoTask, Tasks
  <2>3. CASE ExtendCheck(a, d)
    BY <2>1, <2>3 DEF ExtendCheck
  <2>4. CASE AddRead(a, d)
    BY <2>1, <2>4 DEF AddRead
  <2>5. CASE ReviveRead(a, d)
    BY <2>1, <2>5 DEF ReviveRead
  <2>6. CASE ImportRead(a, d)
    <3>1. PICK r \in active : task' = [task EXCEPT ![a] = [NoTask EXCEPT !.at = "overwrite", !.row = r, !.until = d]]
      BY <2>6 DEF ImportRead
    <3> DEFINE t == [NoTask EXCEPT !.at = "overwrite", !.row = r, !.until = d]
    <3>2. t \in Tasks
      BY DEF NoTask, Tasks
    <3> HIDE DEF t
    <3>3. task' = [task EXCEPT ![a] = t]
      BY <3>1 DEF t
    <3> QED
      BY <2>6, <3>2, <3>3 DEF ImportRead
  <2> QED
    BY <1>1, <2>3, <2>4, <2>5, <2>6
<1>2. ASSUME NEW a \in Admins, ExtendRetire(a) PROVE TypeOK'
  <2>1. \A t \in Tasks, L \in SUBSET Rows : [t EXCEPT !.at = "retired", !.locked = L] \in Tasks
    BY DEF Tasks
  <2> DEFINE t == [task[a] EXCEPT !.at = "retired", !.locked = active]
  <2>2. task[a] \in Tasks /\ active \in SUBSET Rows
    OBVIOUS
  <2>3. t \in Tasks
    BY <2>1, <2>2
  <2>4. task' = [task EXCEPT ![a] = t]
    BY <1>2 DEF ExtendRetire
  <2> HIDE DEF t
  <2> QED
    BY <1>2, <2>3, <2>4 DEF ExtendRetire
<1>3. ASSUME NEW a \in Admins, RequestFails(a) PROVE TypeOK'
  BY <1>0, <1>3 DEF RequestFails
<1>4. ASSUME NEW a \in Admins, ExtendCommit(a) PROVE TypeOK'
  BY <1>0, <1>4 DEF ExtendCommit, NewRow, Tasks
<1>5. ASSUME NEW a \in Admins, CreateRow(a) PROVE TypeOK'
  BY <1>0, <1>5 DEF CreateRow, NewRow, Tasks
<1>6. ASSUME NEW a \in Admins, Overwrite(a) PROVE TypeOK'
  BY <1>0, <1>6 DEF Overwrite, Tasks
<1>7. CASE Revoke \/ DeleteMember \/ Suspend \/ Reinstate
  BY <1>7 DEF Revoke, DeleteMember, Suspend, Reinstate
<1>8. ASSUME NEW a \in Admins, ReviveFirst(a) PROVE TypeOK'
  <2>1. \A t \in Tasks : [t EXCEPT !.revives = FALSE] \in Tasks
    BY DEF Tasks
  <2> QED
    BY <1>8, <2>1 DEF ReviveFirst
<1> QED
  BY <1>1, <1>2, <1>3, <1>4, <1>5, <1>6, <1>7, <1>8 DEF AdminStep

\* A job stays a job when it goes on to its next item.
LEMMA JobMoves ==
    ASSUME NEW j \in Jobs, NEW n \in (Rows \X Notices) \union {None}, NEW d \in SUBSET (Rows \X Notices)
    PROVE  /\ [j EXCEPT !.item = n] \in Jobs
           /\ [j EXCEPT !.at = "mail"] \in Jobs /\ [j EXCEPT !.at = "close"] \in Jobs
           /\ [j EXCEPT !.due = d, !.at = "next", !.item = None] \in Jobs
<1>1. [j EXCEPT !.item = n] \in Jobs
  BY DEF Jobs
<1>2. [j EXCEPT !.at = "mail"] \in Jobs /\ [j EXCEPT !.at = "close"] \in Jobs
  BY DEF Jobs
<1>3. [j EXCEPT !.due = d, !.at = "next", !.item = None] \in Jobs
  BY DEF Jobs
<1> QED
  BY <1>1, <1>2, <1>3

LEMMA JobsTyped == ASSUME NEW j \in Jobs PROVE Later(j) \in Jobs /\ Told(j) \in Jobs
<1>1. NoJob \in Jobs
  BY DEF NoJob, Jobs
<1>2. Later(j) \in Jobs
  <2> DEFINE d == j.due \ {j.item}
  <2>1. d \in SUBSET (Rows \X Notices)
    BY DEF Jobs
  <2> HIDE DEF d
  <2>2. [j EXCEPT !.due = d, !.at = "next", !.item = None] \in Jobs
    BY <2>1, JobMoves
  <2> QED
    BY <1>1, <2>2 DEF Later, d
<1> QED
  BY <1>2, JobMoves DEF Told

LEMMA TypeCron == TypeOK /\ CronStep => TypeOK'
<1> SUFFICES ASSUME TypeOK, NEW c \in Crons,
                    \/ ListLapsed(c) \/ ListExpiring(c) \/ TellNext(c) \/ MailMember(c)
                    \/ CloseLapsed(c) \/ RowFails(c) \/ CronDies(c)
             PROVE  TypeOK'
  BY DEF CronStep
<1> USE DaysAssumption DEF TypeOK, Run, CronOnly, rowVars, orderVars, tellVars
<1>1. CASE ListLapsed(c)
  BY <1>1 DEF ListLapsed, Jobs, Notices
<1>2. CASE ListExpiring(c)
  <2>1. \A left : Bucket(left) \in Notices
    BY DEF Bucket, Notices
  <2> QED
    BY <1>2, <2>1 DEF ListExpiring, Jobs
<1>3. CASE TellNext(c)
  <2>1. PICK n \in cron[c].due :
          LET j == [cron[c] EXCEPT !.item = n] IN
          /\ Run(c, IF j.tells /\ FirstTime(n) THEN [j EXCEPT !.at = "mail"] ELSE Told(j))
          /\ told' = IF j.tells THEN told \union {n} ELSE told
    BY <1>3 DEF TellNext
  <2>2. n \in Rows \X Notices
    BY DEF Jobs
  <2> DEFINE j == [cron[c] EXCEPT !.item = n]
  <2>3. j \in Jobs /\ told' \subseteq Rows \X Notices
    BY <2>1, <2>2, JobMoves
  <2> HIDE DEF j
  <2>4. [j EXCEPT !.at = "mail"] \in Jobs /\ Told(j) \in Jobs
    BY <2>3, JobMoves, JobsTyped
  <2>5. cron' \in [Crons -> Jobs]
    <3>1. cron' = [cron EXCEPT ![c] = [j EXCEPT !.at = "mail"]] \/ cron' = [cron EXCEPT ![c] = Told(j)]
      BY <2>1 DEF j
    <3> QED
      BY <3>1, <2>4
  <2> QED
    BY <1>3, <2>3, <2>5 DEF TellNext
<1>4. CASE MailMember(c)
  <2>1. mails' \in [Rows \X Notices -> 0 .. 2]
    BY <1>4 DEF MailMember
  <2> QED
    BY <1>4, <2>1, JobsTyped DEF MailMember
<1>5. CASE CloseLapsed(c)
  BY <1>5, JobsTyped DEF CloseLapsed
<1>6. CASE RowFails(c)
  <2>1. PICK n \in IF cron[c].at = "next" THEN cron[c].due ELSE {cron[c].item} :
            cron' = [cron EXCEPT ![c] = Later([cron[c] EXCEPT !.item = n])]
    BY <1>6 DEF RowFails
  <2>2. n \in (Rows \X Notices) \union {None}
    BY DEF Jobs
  <2>3. Later([cron[c] EXCEPT !.item = n]) \in Jobs
    BY <2>2, JobMoves, JobsTyped
  <2> QED
    BY <1>6, <2>1, <2>3 DEF RowFails
<1>7. CASE CronDies(c)
  BY <1>7 DEF CronDies, NoJob, Jobs
<1> QED
  BY <1>1, <1>2, <1>3, <1>4, <1>5, <1>6, <1>7

LEMMA TypeNext == TypeOK /\ [Next]_vars => TypeOK'
<1> SUFFICES ASSUME TypeOK, [Next]_vars PROVE TypeOK'
  OBVIOUS
<1>1. CASE NextDay
  BY <1>1, DaysAssumption DEF NextDay, TypeOK, rowVars, orderVars, tellVars
<1>2. CASE UNCHANGED vars
  BY <1>2 DEF vars, TypeOK, rowVars, orderVars, tellVars
<1> QED
  BY <1>1, <1>2, TypePurchase, TypeAdmin, TypeCron DEF Next

\* Every variable keeps its type: in particular only rows that exist are active, and no date
\* leaves the calendar, whatever the purchases, admins and jobs do to each other.
THEOREM TypeCorrect == Spec => []TypeOK
BY TypeInit, TypeNext, PTL DEF Spec

-----------------------------------------------------------------------------
(* A paid order grants once. *)

\* The order row is locked by the transaction that claimed it: the order is still unpaid,
\* and the payment it claims for is one captured for it.
GrantsAreClaims ==
    \A o \in Orders : grant[o].open =>
        /\ orderStatus[o] = "created"
        /\ grant[o].pay \in Payments /\ captured[grant[o].pay] = o

GrantInv == TypeOK /\ GrantsAreClaims /\ PaidOrderGrantsOnce

LEMMA GrantInit == Init => GrantInv
<1> SUFFICES ASSUME Init PROVE GrantsAreClaims /\ PaidOrderGrantsOnce
  BY TypeInit DEF GrantInv
<1> QED
  BY DaysAssumption DEF Init, GrantsAreClaims, PaidOrderGrantsOnce, NoGrant

\* What a step that sells nothing leaves alone, with or without a row of its own.
LEMMA GrantFrame ==
    ASSUME GrantInv, UNCHANGED orderVars,
           \/ UNCHANGED <<made, soldBy>>
           \/ \E r \in Rows, d \in Nat : NewRow(r, d, None)
    PROVE  GrantsAreClaims' /\ PaidOrderGrantsOnce'
<1> USE DEF GrantInv, TypeOK, orderVars
<1>1. GrantsAreClaims'
  BY DEF GrantsAreClaims
<1>2. CASE UNCHANGED <<made, soldBy>>
  BY <1>1, <1>2 DEF PaidOrderGrantsOnce
<1>3. ASSUME NEW r \in Rows, NEW d \in Nat, NewRow(r, d, None) PROVE PaidOrderGrantsOnce'
  <2>1. \A o \in Orders : {x \in made' : soldBy'[x] = o} = {x \in made : soldBy[x] = o}
    BY <1>3, DaysAssumption DEF NewRow
  <2> QED
    BY <2>1 DEF PaidOrderGrantsOnce
<1> QED
  BY <1>1, <1>2, <1>3

LEMMA GrantCommit ==
    ASSUME GrantInv, NEW o \in Orders, SettleCommit(o)
    PROVE  GrantsAreClaims' /\ PaidOrderGrantsOnce'
<1> USE DEF GrantInv, TypeOK
<1>1. PICK r \in Rows : /\ NewRow(r, grant[o].base + Duration, o)
                        /\ bought' = [bought EXCEPT ![o] = r]
  BY DEF SettleCommit
<1>2. GrantsAreClaims'
  BY DEF SettleCommit, GrantsAreClaims, NoGrant
<1>3. bought[o] = None /\ orderStatus[o] = "created" /\ grant[o].pay \in Payments /\ captured[grant[o].pay] = o
  BY DEF SettleCommit, GrantsAreClaims, PaidOrderGrantsOnce
<1>4. \A x \in made : soldBy[x] # o
  BY <1>3 DEF PaidOrderGrantsOnce
<1>5. {x \in made' : soldBy'[x] = o} = {r}
  BY <1>1, <1>4 DEF NewRow
<1>6. \A q \in Orders \ {o} : {x \in made' : soldBy'[x] = q} = {x \in made : soldBy[x] = q}
  BY <1>1 DEF NewRow
<1>7. ASSUME NEW q \in Orders
      PROVE  /\ {x \in made' : soldBy'[x] = q} = {bought'[q]} \ {None}
             /\ orderStatus'[q] = "paid" <=> bought'[q] # None
             /\ bought'[q] # None => paidWith'[q] \in Payments /\ captured'[paidWith'[q]] = q
  <2>1. CASE q = o
    BY <1>1, <1>3, <1>5, <2>1, DaysAssumption DEF SettleCommit
  <2>2. CASE q # o
    BY <1>1, <1>6, <2>2 DEF SettleCommit, PaidOrderGrantsOnce
  <2> QED
    BY <2>1, <2>2
<1> QED
  BY <1>2, <1>7 DEF PaidOrderGrantsOnce

LEMMA GrantPurchase ==
    ASSUME GrantInv, PurchaseStep PROVE GrantsAreClaims' /\ PaidOrderGrantsOnce'
<1> SUFFICES ASSUME NEW o \in Orders,
                    \/ CreateOrder(o) \/ SettleCommit(o) \/ SettleAborts(o) \/ IssueReceipt(o)
                    \/ \E p \in Payments : Capture(p, o) \/ SettleBegin(o, p)
             PROVE  GrantsAreClaims' /\ PaidOrderGrantsOnce'
  BY DEF PurchaseStep
<1> USE DEF GrantInv, TypeOK, rowVars
<1>1. CASE CreateOrder(o)
  BY <1>1 DEF CreateOrder, GrantsAreClaims, PaidOrderGrantsOnce
<1>2. CASE SettleAborts(o)
  BY <1>2 DEF SettleAborts, GrantsAreClaims, PaidOrderGrantsOnce, NoGrant
<1>3. CASE IssueReceipt(o)
  BY <1>3 DEF IssueReceipt, GrantsAreClaims, PaidOrderGrantsOnce
<1>4. ASSUME NEW p \in Payments, Capture(p, o) PROVE GrantsAreClaims' /\ PaidOrderGrantsOnce'
  <2>1. \A q \in Orders, x \in Payments : captured[x] = q => captured'[x] = q
    BY <1>4, DaysAssumption DEF Capture
  <2> QED
    BY <1>4, <2>1 DEF Capture, GrantsAreClaims, PaidOrderGrantsOnce
<1>5. ASSUME NEW p \in Payments, SettleBegin(o, p) PROVE GrantsAreClaims' /\ PaidOrderGrantsOnce'
  BY <1>5 DEF SettleBegin, Claimable, GrantsAreClaims, PaidOrderGrantsOnce
<1> QED
  BY <1>1, <1>2, <1>3, <1>4, <1>5, GrantCommit

LEMMA GrantAdmin ==
    ASSUME GrantInv, AdminStep PROVE GrantsAreClaims' /\ PaidOrderGrantsOnce'
<1> USE DEF rowVars, AdminOnly
<1>1. \A a \in Admins : task[a].until \in Nat
  BY DEF GrantInv, TypeOK, Tasks
<1>2. UNCHANGED orderVars
  BY DEF AdminStep, ExtendCheck, AddRead, ReviveRead, ImportRead, ExtendRetire, ExtendCommit, CreateRow,
     ReviveFirst, Overwrite, RequestFails, Revoke, DeleteMember, Suspend, Reinstate
<1>3. \/ UNCHANGED <<made, soldBy>>
      \/ \E r \in Rows, d \in Nat : NewRow(r, d, None)
  BY <1>1 DEF AdminStep, ExtendCheck, AddRead, ReviveRead, ImportRead, ExtendRetire, ExtendCommit,
     CreateRow, ReviveFirst, Overwrite, RequestFails, Revoke, DeleteMember, Suspend, Reinstate
<1> QED
  BY <1>2, <1>3, GrantFrame

LEMMA GrantCron ==
    ASSUME GrantInv, CronStep PROVE GrantsAreClaims' /\ PaidOrderGrantsOnce'
<1>1. UNCHANGED orderVars /\ UNCHANGED <<made, soldBy>>
  BY DEF CronStep, ListLapsed, ListExpiring, TellNext, MailMember, CloseLapsed, RowFails, CronDies,
     CronOnly, rowVars
<1> QED
  BY <1>1, GrantFrame

LEMMA GrantHolds == Spec => []GrantInv
<1>1. GrantInv /\ [Next]_vars => GrantInv'
  <2> SUFFICES ASSUME GrantInv, [Next]_vars PROVE GrantsAreClaims' /\ PaidOrderGrantsOnce'
    BY TypeNext DEF GrantInv
  <2>1. CASE NextDay \/ UNCHANGED vars
    BY <2>1, GrantFrame DEF NextDay, vars, rowVars
  <2> QED
    BY <2>1, GrantPurchase, GrantAdmin, GrantCron DEF Next
<1> QED
  BY <1>1, GrantInit, PTL DEF Spec

\* A plan order, once paid, has bought exactly one row, with a payment captured for it, however
\* verify calls, webhook deliveries, retries and aborted transactions race (settlePlanOrder).
THEOREM PaidGrantsOnce == Spec => []PaidOrderGrantsOnce
<1>1. GrantInv => PaidOrderGrantsOnce
  BY DEF GrantInv
<1> QED
  BY <1>1, GrantHolds, PTL

-----------------------------------------------------------------------------
(* The later of two extensions wins. *)

Retiring(a) == task[a].at = "retired"

\* The advisory lock lets one extension at a time be past retiring rows ...
OneRetires == \A a, b \in Admins : Retiring(a) /\ Retiring(b) => a = b

\* ... and it holds every row that an extension wrote and that is active.
RetiresAll ==
    /\ extended \subseteq made
    /\ \A a \in Admins : Retiring(a) => active \intersect extended \subseteq task[a].locked

ExtendInv == TypeOK /\ OneRetires /\ RetiresAll /\ LaterExtensionWins

LEMMA ExtendInit == Init => ExtendInv
<1> SUFFICES ASSUME Init PROVE OneRetires /\ RetiresAll /\ LaterExtensionWins
  BY TypeInit DEF ExtendInv
<1> QED
  BY DEF Init, OneRetires, RetiresAll, LaterExtensionWins, Retiring, NoTask

\* A step by which no extension retires or commits, whatever else it writes.
LEMMA ExtendFrame ==
    ASSUME ExtendInv, extended' = extended, made \subseteq made',
           active' \intersect extended \subseteq active,
           \A b \in Admins : Retiring(b)' => Retiring(b) /\ task'[b].locked = task[b].locked
    PROVE  OneRetires' /\ RetiresAll' /\ LaterExtensionWins'
  BY DEF ExtendInv, OneRetires, RetiresAll, LaterExtensionWins

\* Rows that others write are new, so no extension wrote them.
LEMMA ExtendOthers ==
    ASSUME ExtendInv, NEW r \in Rows, NEW d, NEW o, NewRow(r, d, o), active' \subseteq active \union {r},
           extended' = extended
    PROVE  made \subseteq made' /\ active' \intersect extended \subseteq active
  BY DEF ExtendInv, RetiresAll, NewRow

LEMMA ExtendPurchase ==
    ASSUME ExtendInv, PurchaseStep
    PROVE  OneRetires' /\ RetiresAll' /\ LaterExtensionWins'
<1> SUFFICES ASSUME NEW o \in Orders,
                    \/ CreateOrder(o) \/ SettleCommit(o) \/ SettleAborts(o) \/ IssueReceipt(o)
                    \/ \E p \in Payments : Capture(p, o) \/ SettleBegin(o, p)
             PROVE  /\ extended' = extended /\ made \subseteq made' /\ task' = task
                    /\ active' \intersect extended \subseteq active
  BY ExtendFrame DEF PurchaseStep, Retiring
<1>1. CASE SettleCommit(o)
  <2>1. PICK r \in Rows : /\ NewRow(r, grant[o].base + Duration, o)
                          /\ active' = (active \ {grant[o].seen}) \union {r}
    BY <1>1 DEF SettleCommit
  <2>2. extended' = extended /\ task' = task
    BY <1>1 DEF SettleCommit
  <2> QED
    BY <2>1, <2>2, ExtendOthers
<1>2. CASE ~SettleCommit(o)
  BY <1>2 DEF CreateOrder, SettleAborts, IssueReceipt, Capture, SettleBegin, rowVars
<1> QED
  BY <1>1, <1>2

\* What becomes of the requests, retired or not, when a is given another one.
LEMMA RequestMoves ==
    ASSUME ExtendInv, NEW a \in Admins, NEW t, task' = [task EXCEPT ![a] = t], t.at # "retired"
    PROVE  \A b \in Admins : Retiring(b)' => Retiring(b) /\ task'[b].locked = task[b].locked
  BY DEF ExtendInv, TypeOK, Retiring

LEMMA ExtendAdmin ==
    ASSUME ExtendInv, AdminStep
    PROVE  OneRetires' /\ RetiresAll' /\ LaterExtensionWins'
<1> USE DEF AdminOnly, Assign, rowVars
<1>0. NoTask.at # "retired"
  BY DEF NoTask
<1>1. ASSUME NEW a \in Admins, ExtendRetire(a)
      PROVE  OneRetires' /\ RetiresAll' /\ LaterExtensionWins'
  <2>1. \A b \in Admins : ~Retiring(b)
    BY <1>1 DEF ExtendRetire, LockFree, Retiring
  <2>2. task[a] \in Tasks
    BY DEF ExtendInv, TypeOK
  <2>3. task'[a].locked = active /\ \A b \in Admins \ {a} : task'[b] = task[b]
    BY <1>1, <2>2 DEF ExtendRetire, ExtendInv, TypeOK, Tasks
  <2>4. UNCHANGED <<active, extended, made>>
    BY <1>1 DEF ExtendRetire
  <2> QED
    BY <2>1, <2>3, <2>4 DEF ExtendInv, OneRetires, RetiresAll, LaterExtensionWins, Retiring
<1>2. ASSUME NEW a \in Admins, ExtendCommit(a)
      PROVE  OneRetires' /\ RetiresAll' /\ LaterExtensionWins'
  <2>1. PICK r \in Rows : /\ NewRow(r, task[a].until, None)
                          /\ active' = (active \ task[a].locked) \union {r}
                          /\ extended' = extended \union {r}
    BY <1>2 DEF ExtendCommit
  <2>2. active' \intersect extended' \subseteq {r} /\ extended' \subseteq made'
    BY <1>2, <2>1 DEF ExtendCommit, NewRow, ExtendInv, RetiresAll, Retiring
  <2>3. \A b \in Admins : Retiring(b)' => Retiring(b) /\ b # a
    BY <1>0, <1>2 DEF ExtendCommit, ExtendInv, TypeOK, Retiring
  <2>4. \A b \in Admins : ~Retiring(b)'
    BY <1>2, <2>3 DEF ExtendCommit, ExtendInv, OneRetires, Retiring
  <2> QED
    BY <2>2, <2>4 DEF OneRetires, RetiresAll, LaterExtensionWins
<1>3. ASSUME NEW a \in Admins, CreateRow(a)
      PROVE  OneRetires' /\ RetiresAll' /\ LaterExtensionWins'
  <2>1. PICK r \in Rows : NewRow(r, task[a].until, None) /\ active' = active \union {r}
    BY <1>3 DEF CreateRow
  <2>2. extended' = extended /\ task' = [task EXCEPT ![a] = NoTask]
    BY <1>3 DEF CreateRow
  <2> QED
    BY <1>0, <2>1, <2>2, ExtendOthers, RequestMoves, ExtendFrame
<1>4. ASSUME NEW a \in Admins, Overwrite(a) \/ RequestFails(a)
      PROVE  OneRetires' /\ RetiresAll' /\ LaterExtensionWins'
  <2>1. task' = [task EXCEPT ![a] = NoTask] /\ UNCHANGED <<active, extended, made>>
    BY <1>4 DEF Overwrite, RequestFails
  <2> QED
    BY <1>0, <2>1, RequestMoves, ExtendFrame
<1>5. ASSUME NEW a \in Admins, NEW d \in Dates,
             ExtendCheck(a, d) \/ AddRead(a, d) \/ ReviveRead(a, d) \/ ImportRead(a, d)
      PROVE  OneRetires' /\ RetiresAll' /\ LaterExtensionWins'
  <2>1. /\ [NoTask EXCEPT !.at = "extend", !.until = d].at # "retired"
        /\ [NoTask EXCEPT !.at = "create", !.until = d].at # "retired"
        /\ [NoTask EXCEPT !.at = "create", !.until = d, !.revives = TRUE].at # "retired"
        /\ \A r : [NoTask EXCEPT !.at = "overwrite", !.row = r, !.until = d].at # "retired"
    BY DEF NoTask
  <2>2. /\ \E t : t.at # "retired" /\ task' = [task EXCEPT ![a] = t]
        /\ UNCHANGED <<active, extended, made>>
    <3>1. CASE ExtendCheck(a, d)
      BY <2>1, <3>1 DEF ExtendCheck
    <3>2. CASE AddRead(a, d)
      BY <2>1, <3>2 DEF AddRead
    <3>3. CASE ReviveRead(a, d)
      BY <2>1, <3>3 DEF ReviveRead
    <3>4. CASE ImportRead(a, d)
      BY <2>1, <3>4 DEF ImportRead
    <3> QED
      BY <1>5, <3>1, <3>2, <3>3, <3>4
  <2> QED
    BY <2>2, RequestMoves, ExtendFrame
<1>6. ASSUME NEW a \in Admins, ReviveFirst(a)
      PROVE  OneRetires' /\ RetiresAll' /\ LaterExtensionWins'
  <2>1. task[a] \in Tasks
    BY DEF ExtendInv, TypeOK
  <2>2. [task[a] EXCEPT !.revives = FALSE].at = "create"
    BY <1>6, <2>1 DEF ReviveFirst, Tasks
  <2>3. task' = [task EXCEPT ![a] = [task[a] EXCEPT !.revives = FALSE]] /\ UNCHANGED <<active, extended, made>>
    BY <1>6 DEF ReviveFirst
  <2> QED
    BY <2>2, <2>3, RequestMoves, ExtendFrame
<1>7. CASE Revoke \/ DeleteMember \/ Suspend \/ Reinstate
  <2>1. active' \subseteq active /\ UNCHANGED <<extended, made, task>>
    BY <1>7 DEF Revoke, DeleteMember, Suspend, Reinstate
  <2> QED
    BY <2>1, ExtendFrame DEF Retiring
<1> QED
  BY <1>1, <1>2, <1>3, <1>4, <1>5, <1>6, <1>7 DEF AdminStep

LEMMA ExtendNext == ExtendInv /\ [Next]_vars => ExtendInv'
<1> SUFFICES ASSUME ExtendInv, [Next]_vars
             PROVE  OneRetires' /\ RetiresAll' /\ LaterExtensionWins'
  BY TypeNext DEF ExtendInv
<1>1. CASE CronStep \/ NextDay \/ UNCHANGED vars
  <2>1. active' \subseteq active /\ UNCHANGED <<extended, made, task>>
    BY <1>1 DEF CronStep, ListLapsed, ListExpiring, TellNext, MailMember, CloseLapsed, RowFails, CronDies,
       CronOnly, NextDay, vars, rowVars
  <2> QED
    BY <2>1, ExtendFrame DEF Retiring
<1> QED
  BY <1>1, ExtendPurchase, ExtendAdmin DEF Next

\* Two rows written by extensions are never active together, for any number of admins, whatever
\* purchases, additions, imports, revives and jobs do in between (extendSubscription's advisory lock).
THEOREM LaterWins == Spec => []LaterExtensionWins
<1>1. ExtendInv => LaterExtensionWins
  BY DEF ExtendInv
<1> QED
  BY <1>1, ExtendInit, ExtendNext, PTL DEF Spec

-----------------------------------------------------------------------------
(* Nobody is mailed twice. *)

\* A job about to mail has just written the notice, nobody mailed it before, and no other job
\* is about to.
AboutToMail ==
    \A c \in Crons : cron[c].at = "mail" =>
        /\ cron[c].item \in told /\ mails[cron[c].item] = 0
        /\ \A d \in Crons \ {c} : cron[d].at = "mail" => cron[d].item # cron[c].item

MailedIsTold == \A n \in Rows \X Notices : mails[n] = 0 \/ (mails[n] = 1 /\ n \in told)

MailInv == TypeOK /\ AboutToMail /\ MailedIsTold

LEMMA MailInit == Init => MailInv
<1> SUFFICES ASSUME Init PROVE AboutToMail /\ MailedIsTold
  BY TypeInit DEF MailInv
<1> QED
  BY DEF Init, AboutToMail, MailedIsTold, NoJob

\* Going on to the next item, a job is not about to mail.
LEMMA MovingOn == ASSUME NEW j \in Jobs PROVE Later(j).at # "mail" /\ Told(j).at # "mail"
<1>1. Later(j).at # "mail"
  <2> DEFINE d == j.due \ {j.item}
  <2>1. [j EXCEPT !.due = d, !.at = "next", !.item = None].at = "next"
    BY DEF Jobs
  <2> QED
    BY <2>1 DEF Later, NoJob
<1>2. [j EXCEPT !.at = "close"].at = "close"
  BY DEF Jobs
<1> QED
  BY <1>1, <1>2 DEF Told

\* A job that stops being about to mail, while no mail goes out.
LEMMA MailFrame ==
    ASSUME MailInv, NEW c \in Crons, told \subseteq told', UNCHANGED mails,
           cron'[c].at # "mail", \A d \in Crons \ {c} : cron'[d] = cron[d]
    PROVE  AboutToMail' /\ MailedIsTold'
  BY DEF MailInv, AboutToMail, MailedIsTold

LEMMA MailTell ==
    ASSUME MailInv, NEW c \in Crons, TellNext(c) PROVE AboutToMail' /\ MailedIsTold'
<1> USE DEF MailInv, TypeOK, Run
<1>1. PICK n \in cron[c].due :
          LET j == [cron[c] EXCEPT !.item = n] IN
          /\ Run(c, IF j.tells /\ FirstTime(n) THEN [j EXCEPT !.at = "mail"] ELSE Told(j))
          /\ told' = IF j.tells THEN told \union {n} ELSE told
  BY DEF TellNext
<1> DEFINE j == [cron[c] EXCEPT !.item = n]
<1>2. n \in Rows \X Notices /\ cron[c] \in Jobs
  BY DEF Jobs
<1>3. j \in Jobs /\ j.item = n
  BY <1>2 DEF Jobs
<1>4. told \subseteq told' /\ UNCHANGED mails
  BY <1>1 DEF TellNext
<1>5. /\ IF j.tells /\ FirstTime(n) THEN cron' = [cron EXCEPT ![c] = [j EXCEPT !.at = "mail"]]
                                     ELSE cron' = [cron EXCEPT ![c] = Told(j)]
      /\ j.tells => told' = told \union {n}
  BY <1>1
<1> HIDE DEF j
<1>6. CASE j.tells /\ FirstTime(n)
  <2>1. [j EXCEPT !.at = "mail"].item = n
    BY <1>3 DEF Jobs
  <2>2. cron'[c].item = n /\ \A d \in Crons \ {c} : cron'[d] = cron[d]
    BY <1>5, <1>6, <2>1
  <2>3. n \notin told /\ mails[n] = 0 /\ n \in told'
    BY <1>2, <1>5, <1>6 DEF FirstTime, MailedIsTold
  <2> QED
    BY <1>4, <2>2, <2>3 DEF AboutToMail, MailedIsTold
<1>7. CASE ~(j.tells /\ FirstTime(n))
  <2>1. cron'[c].at # "mail" /\ \A d \in Crons \ {c} : cron'[d] = cron[d]
    BY <1>3, <1>5, <1>7, MovingOn
  <2> QED
    BY <1>4, <2>1, MailFrame
<1> QED
  BY <1>6, <1>7

LEMMA MailCron == ASSUME MailInv, CronStep PROVE AboutToMail' /\ MailedIsTold'
<1> SUFFICES ASSUME NEW c \in Crons,
                    \/ ListLapsed(c) \/ ListExpiring(c) \/ TellNext(c) \/ MailMember(c)
                    \/ CloseLapsed(c) \/ RowFails(c) \/ CronDies(c)
             PROVE  AboutToMail' /\ MailedIsTold'
  BY DEF CronStep
<1> USE DEF MailInv, TypeOK, Run
<1>1. CASE MailMember(c)
  <2>1. /\ cron'[c].at # "mail" /\ \A d \in Crons \ {c} : cron'[d] = cron[d]
        /\ UNCHANGED told
    BY <1>1, MovingOn DEF MailMember
  <2>2. cron[c].item \in told /\ mails[cron[c].item] = 0
    BY <1>1 DEF MailMember, AboutToMail
  <2>3. \A n \in Rows \X Notices : mails'[n] = mails[n] \/ (n = cron[c].item /\ mails'[n] = 1)
    BY <1>1, <2>2 DEF MailMember
  <2>4. MailedIsTold'
    BY <2>1, <2>2, <2>3 DEF MailedIsTold
  <2>5. ASSUME NEW d \in Crons, cron'[d].at = "mail"
        PROVE  /\ cron'[d].item \in told' /\ mails'[cron'[d].item] = 0
               /\ \A e \in Crons \ {d} : cron'[e].at = "mail" => cron'[e].item # cron'[d].item
    <3>1. d # c /\ cron'[d] = cron[d]
      BY <2>1, <2>5
    <3>2. cron[d].item \in told /\ mails[cron[d].item] = 0 /\ cron[d].item # cron[c].item
      BY <1>1, <2>5, <3>1 DEF AboutToMail, MailMember
    <3>3. mails'[cron[d].item] = 0
      BY <2>3, <3>2
    <3> QED
      BY <2>1, <2>5, <3>1, <3>2, <3>3 DEF AboutToMail
  <2> QED
    BY <2>4, <2>5 DEF AboutToMail
<1>2. CASE ListLapsed(c) \/ ListExpiring(c) \/ CloseLapsed(c) \/ RowFails(c) \/ CronDies(c)
  <2>0. ASSUME RowFails(c) PROVE cron'[c].at # "mail"
    <3>1. PICK n \in IF cron[c].at = "next" THEN cron[c].due ELSE {cron[c].item} :
              cron' = [cron EXCEPT ![c] = Later([cron[c] EXCEPT !.item = n])]
      BY <2>0 DEF RowFails
    <3>2. n \in (Rows \X Notices) \union {None}
      BY DEF Jobs
    <3>3. Later([cron[c] EXCEPT !.item = n]).at # "mail"
      BY <3>2, JobMoves, MovingOn
    <3> QED
      BY <3>1, <3>3
  <2>1. cron'[c].at # "mail" /\ \A d \in Crons \ {c} : cron'[d] = cron[d]
    <3>1. CASE RowFails(c)
      BY <2>0, <3>1 DEF RowFails
    <3>2. CASE ~RowFails(c)
      BY <1>2, <3>2, MovingOn DEF ListLapsed, ListExpiring, CloseLapsed, CronDies, NoJob
    <3> QED
      BY <3>1, <3>2
  <2>2. UNCHANGED tellVars
    BY <1>2 DEF ListLapsed, ListExpiring, CloseLapsed, RowFails, CronDies
  <2> QED
    BY <2>1, <2>2, MailFrame DEF tellVars
<1> QED
  BY <1>1, <1>2, MailTell

\* No row and event is mailed twice, by either job, for every number of cron processes and
\* however often jobs die, fail on a row and start over (notifyOnce).
THEOREM MailsOnce == Spec => []MailedOnce
<1>1. MailInv /\ [Next]_vars => MailInv'
  <2> SUFFICES ASSUME MailInv, [Next]_vars PROVE AboutToMail' /\ MailedIsTold'
    BY TypeNext DEF MailInv
  <2>1. CASE PurchaseStep \/ AdminStep \/ NextDay \/ UNCHANGED vars
    <3>1. UNCHANGED <<cron, told, mails>>
      BY <2>1 DEF PurchaseStep, CreateOrder, Capture, SettleBegin, SettleCommit, SettleAborts, IssueReceipt,
         AdminStep, ExtendCheck, AddRead, ReviveRead, ImportRead, ExtendRetire, ExtendCommit, CreateRow,
         ReviveFirst, Overwrite, RequestFails, Revoke, DeleteMember, Suspend, Reinstate, AdminOnly, NextDay, vars, tellVars
    <3> QED
      BY <3>1 DEF MailInv, AboutToMail, MailedIsTold
  <2> QED
    BY <2>1, MailCron DEF Next
<1>2. MailInv => MailedOnce
  BY DEF MailInv, MailedIsTold, MailedOnce
<1> QED
  BY <1>1, <1>2, MailInit, PTL DEF Spec
-----------------------------------------------------------------------------
(* A purchase keeps the days that are left. *)

\* A settlement that nobody crossed read the one row that can still be active, and starts its
\* plan where that row ends, if it still runs: days only pass.
BaseKept ==
    \A o \in uncrossed :
        /\ grant[o].open
        /\ \A r \in active : until[r] >= day => grant[o].base >= until[r]

DaysInv == TypeOK /\ BaseKept

\* What the days counted by an open settlement depend on.
LEMMA BaseFrame ==
    ASSUME DaysInv, active' \subseteq active, uncrossed' \subseteq uncrossed, until' = until,
           \A o \in uncrossed' : grant'[o] = grant[o], day' \in Nat, day' >= day
    PROVE  BaseKept'
  BY DaysAssumption DEF DaysInv, TypeOK, BaseKept

LEMMA BasePurchase == ASSUME DaysInv, PurchaseStep PROVE BaseKept'
<1> SUFFICES ASSUME NEW o \in Orders,
                    \/ CreateOrder(o) \/ SettleCommit(o) \/ SettleAborts(o) \/ IssueReceipt(o)
                    \/ \E p \in Payments : Capture(p, o) \/ SettleBegin(o, p)
             PROVE  BaseKept'
  BY DEF PurchaseStep
<1> USE DEF rowVars
<1>0. day \in Nat
  BY DaysAssumption DEF DaysInv, TypeOK
<1>1. CASE CreateOrder(o) \/ IssueReceipt(o) \/ \E p \in Payments : Capture(p, o)
  BY <1>0, <1>1, BaseFrame DEF CreateOrder, IssueReceipt, Capture
<1>2. CASE SettleAborts(o)
  <2>1. uncrossed' = uncrossed \ {o} /\ UNCHANGED <<active, until, day>>
    BY <1>2 DEF SettleAborts
  <2>2. \A q \in uncrossed' : grant'[q] = grant[q]
    BY <1>2, <2>1 DEF SettleAborts, DaysInv, TypeOK
  <2> QED
    BY <1>0, <2>1, <2>2, BaseFrame
<1>3. CASE SettleCommit(o)
  BY <1>3 DEF SettleCommit, NewRow, BaseKept
<1>4. ASSUME NEW p \in Payments, SettleBegin(o, p) PROVE BaseKept'
  <2>1. PICK r \in IF active = {} THEN {None} ELSE active :
          grant' = [grant EXCEPT ![o] = [open |-> TRUE, pay |-> p, seen |-> r, base |-> BaseOf(r)]]
    BY <1>4 DEF SettleBegin
  <2>2. UNCHANGED <<active, until, day>> /\ o \notin uncrossed
    BY <1>4 DEF SettleBegin, DaysInv, BaseKept
  <2>3. grant'[o].open /\ grant'[o].base = BaseOf(r) /\ \A q \in Orders \ {o} : grant'[q] = grant[q]
    BY <2>1 DEF DaysInv, TypeOK
  <2>4. r \in active /\ until[r] >= day => BaseOf(r) = until[r] /\ until[r] \in Nat
    BY DaysAssumption DEF BaseOf, DaysInv, TypeOK
  <2>5. uncrossed \subseteq Orders /\ \A q \in uncrossed : q # o
    BY <2>2 DEF DaysInv, TypeOK
  <2>6. \A q \in uncrossed : grant'[q].open /\ \A s \in active' : until'[s] >= day' => grant'[q].base >= until'[s]
    BY <2>2, <2>3, <2>5 DEF DaysInv, BaseKept
  <2>7. CASE \A s, t \in active : s = t
    <3>1. \A s \in active : s = r
      BY <2>7
    <3>2. \A s \in active' : until'[s] >= day' => grant'[o].base >= until'[s]
      BY <1>0, <2>2, <2>3, <2>4, <3>1
    <3>3. uncrossed' = uncrossed \union {o}
      BY <1>4, <2>7 DEF SettleBegin
    <3> QED
      BY <2>3, <2>6, <3>2, <3>3 DEF BaseKept
  <2>8. CASE ~ \A s, t \in active : s = t
    <3>1. uncrossed' = uncrossed
      BY <1>4, <2>8 DEF SettleBegin
    <3> QED
      BY <2>6, <3>1 DEF BaseKept
  <2> QED
    BY <2>7, <2>8
<1> QED
  BY <1>1, <1>2, <1>3, <1>4

LEMMA BaseAdmin == ASSUME DaysInv, AdminStep PROVE BaseKept'
<1> USE DEF rowVars, orderVars, AdminOnly
<1>0. day \in Nat
  BY DaysAssumption DEF DaysInv, TypeOK
\* Whoever writes a row or a date crosses every settlement.
<1>1. ASSUME NEW a \in Admins, ExtendCommit(a) \/ CreateRow(a) \/ Overwrite(a) PROVE BaseKept'
  <2>1. uncrossed' = {}
    BY <1>1 DEF ExtendCommit, CreateRow, Overwrite, NewRow
  <2> QED
    BY <2>1 DEF BaseKept
<1>2. CASE ~ \E a \in Admins : ExtendCommit(a) \/ CreateRow(a) \/ Overwrite(a)
  <2>1. active' \subseteq active /\ UNCHANGED <<grant, until, day, uncrossed>>
    BY <1>2 DEF AdminStep, ExtendCheck, AddRead, ReviveRead, ImportRead, ExtendRetire, ReviveFirst,
       RequestFails, Revoke, DeleteMember, Suspend, Reinstate
  <2> QED
    BY <1>0, <2>1, BaseFrame
<1> QED
  BY <1>1, <1>2

LEMMA DaysNext == DaysInv /\ [Next]_vars => DaysInv'
<1> SUFFICES ASSUME DaysInv, [Next]_vars PROVE BaseKept'
  BY TypeNext DEF DaysInv
<1>0. day \in Nat
  BY DaysAssumption DEF DaysInv, TypeOK
<1>1. CASE CronStep \/ NextDay \/ UNCHANGED vars
  <2>1. /\ active' \subseteq active /\ UNCHANGED <<grant, until, uncrossed>>
        /\ day' = day \/ day' = day + 1
    BY <1>1 DEF CronStep, ListLapsed, ListExpiring, TellNext, MailMember, CloseLapsed, RowFails, CronDies,
       CronOnly, NextDay, vars, rowVars, orderVars
  <2>2. day' \in Nat /\ day' >= day
    BY <1>0, <2>1
  <2> QED
    BY <2>1, <2>2, BaseFrame
<1> QED
  BY <1>1, BasePurchase, BaseAdmin DEF Next

\* The row that a settlement nobody crossed writes ends a plan after every row that still runs.
LEMMA PurchaseKeepsDays ==
    ASSUME DaysInv, [Next]_vars, NEW o \in uncrossed, bought[o] = None, bought'[o] # None,
           NEW r \in Rows, Running(r)
    PROVE  until'[bought'[o]] >= until[r] + Duration
<1> USE DEF DaysInv, TypeOK
<1>1. SettleCommit(o)
  <2>1. UNCHANGED bought \/ \E q \in Orders : SettleCommit(q)
    BY DEF Next, PurchaseStep, CreateOrder, Capture, SettleBegin, SettleAborts, IssueReceipt, AdminStep,
       ExtendCheck, AddRead, ReviveRead, ImportRead, ExtendRetire, ExtendCommit, CreateRow, ReviveFirst,
       Overwrite, RequestFails, Revoke, DeleteMember, Suspend, Reinstate, AdminOnly, CronStep, ListLapsed,
       ListExpiring, TellNext, MailMember, CloseLapsed, RowFails, CronDies, CronOnly, NextDay, vars, orderVars
  <2>2. ASSUME NEW q \in Orders, SettleCommit(q), q # o PROVE bought'[o] = bought[o]
    <3>1. PICK n \in Rows : bought' = [bought EXCEPT ![q] = n]
      BY <2>2 DEF SettleCommit
    <3> QED
      BY <2>2, <3>1
  <2> QED
    BY <2>1, <2>2
<1>2. PICK n \in Rows : NewRow(n, grant[o].base + Duration, o) /\ bought' = [bought EXCEPT ![o] = n]
  BY <1>1 DEF SettleCommit
<1>3. grant[o].base >= until[r]
  BY DEF Running, BaseKept
<1>4. until'[bought'[o]] = grant[o].base + Duration
  BY <1>2 DEF NewRow
<1>5. grant[o].base \in Nat /\ until[r] \in Nat /\ Duration \in Nat
  BY DaysAssumption
<1> QED
  BY <1>3, <1>4, <1>5

\* "Buying early never loses remaining days", for any dates, plans and clock, by any settlement
\* that read at most one active row and that no other write of the pair crossed.
THEOREM DaysAreKept == Spec => RenewalKeepsDays
<1>1. Init => DaysInv
  BY TypeInit DEF Init, BaseKept, DaysInv
<1>2. DaysInv /\ [Next]_vars => DaysInv'
  BY DaysNext
<1>3. DaysInv /\ [Next]_vars =>
        [\A o \in uncrossed : bought[o] = None /\ bought'[o] # None =>
            \A r \in Rows : Running(r) => until'[bought'[o]] >= until[r] + Duration]_vars
  BY PurchaseKeepsDays
<1> QED
  BY <1>1, <1>2, <1>3, PTL DEF Spec, RenewalKeepsDays

-----------------------------------------------------------------------------
(* The closing job tells first. *)

\* The item in hand is on the job's list, the closing job lists expired notices, and whoever is
\* past telling a member it tells has written the notice.
Keeps(j, notices) ==
    /\ j.kind = "expire" => j.due \subseteq Rows \X {"expired"}
    /\ j.at \in {"mail", "close"} => j.item \in j.due /\ (j.tells => j.item \in notices)
    /\ j.at = "close" => j.kind = "expire"

ToldInv == TypeOK /\ \A c \in Crons : Keeps(cron[c], told)

LEMMA NoJobKeeps == ASSUME NEW notices PROVE Keeps(NoJob, notices)
  BY DEF NoJob, Keeps

LEMMA LaterKeeps ==
    ASSUME NEW j \in Jobs, NEW notices, j.kind = "expire" => j.due \subseteq Rows \X {"expired"}
    PROVE  Keeps(Later(j), notices)
<1> DEFINE d == j.due \ {j.item}
<1> DEFINE k == [j EXCEPT !.due = d, !.at = "next", !.item = None]
<1>1. k.due = d /\ k.at = "next" /\ k.kind = j.kind
  BY DEF Jobs
<1>2. Later(j) = NoJob \/ Later(j) = k
  BY DEF Later
<1>3. Keeps(k, notices)
  <2> HIDE DEF k
  <2> QED
    BY <1>1 DEF Keeps
<1> QED
  BY <1>2, <1>3, NoJobKeeps

LEMMA ToldKeeps ==
    ASSUME NEW j \in Jobs, NEW notices, j.kind = "expire" => j.due \subseteq Rows \X {"expired"},
           j.item \in j.due, j.tells => j.item \in notices
    PROVE  Keeps(Told(j), notices)
<1>1. CASE j.kind = "expire"
  <2> DEFINE k == [j EXCEPT !.at = "close"]
  <2>1. k.at = "close" /\ k.due = j.due /\ k.item = j.item /\ k.tells = j.tells /\ k.kind = j.kind
    BY DEF Jobs
  <2>2. Told(j) = k
    BY <1>1 DEF Told
  <2> HIDE DEF k
  <2> QED
    BY <1>1, <2>1, <2>2 DEF Keeps
<1>2. CASE j.kind # "expire"
  BY <1>2, LaterKeeps DEF Told
<1> QED
  BY <1>1, <1>2

\* A step that moves the job of one process, or of none, and takes no notice back.
LEMMA ToldFrame ==
    ASSUME ToldInv, told \subseteq told', NEW c \in Crons, Keeps(cron'[c], told'),
           \A d \in Crons \ {c} : cron'[d] = cron[d]
    PROVE  \A d \in Crons : Keeps(cron'[d], told')
<1> SUFFICES ASSUME NEW d \in Crons \ {c} PROVE Keeps(cron'[d], told')
  OBVIOUS
<1>1. Keeps(cron[d], told) /\ cron'[d] = cron[d]
  BY DEF ToldInv
<1> QED
  BY <1>1 DEF Keeps

LEMMA ToldCron ==
    ASSUME ToldInv, CronStep
    PROVE  \A c \in Crons : Keeps(cron'[c], told')
<1> SUFFICES ASSUME NEW c \in Crons,
                    \/ ListLapsed(c) \/ ListExpiring(c) \/ TellNext(c) \/ MailMember(c)
                    \/ CloseLapsed(c) \/ RowFails(c) \/ CronDies(c)
             PROVE  told \subseteq told' /\ Keeps(cron'[c], told') /\ \A d \in Crons \ {c} : cron'[d] = cron[d]
  BY ToldFrame DEF CronStep
<1> USE DEF Run, tellVars
<1>0. cron \in [Crons -> Jobs] /\ cron[c] \in Jobs /\ Keeps(cron[c], told)
  BY DEF ToldInv, TypeOK
<1>1. CASE ListLapsed(c)
  BY <1>0, <1>1 DEF ListLapsed, Keeps
<1>2. CASE ListExpiring(c)
  BY <1>0, <1>2 DEF ListExpiring, Keeps
<1>3. CASE TellNext(c)
  <2>1. PICK n \in cron[c].due :
          LET j == [cron[c] EXCEPT !.item = n] IN
          /\ Run(c, IF j.tells /\ FirstTime(n) THEN [j EXCEPT !.at = "mail"] ELSE Told(j))
          /\ told' = IF j.tells THEN told \union {n} ELSE told
    BY <1>3 DEF TellNext
  <2> DEFINE j == [cron[c] EXCEPT !.item = n]
  <2> DEFINE k == [j EXCEPT !.at = "mail"]
  <2>2. n \in (Rows \X Notices) \union {None}
    BY <1>0 DEF Jobs
  <2>3. /\ j \in Jobs /\ j.item = n /\ j.due = cron[c].due /\ j.kind = cron[c].kind
        /\ k.at = "mail" /\ k.item = n /\ k.due = j.due /\ k.kind = j.kind /\ k.tells = j.tells
    BY <1>0, <2>2 DEF Jobs
  <2>4. told' = IF j.tells THEN told \union {n} ELSE told
    BY <2>1
  <2>5. cron' = [cron EXCEPT ![c] = k] \/ cron' = [cron EXCEPT ![c] = Told(j)]
    BY <2>1
  <2> HIDE DEF j, k
  <2>6. Keeps(k, told')
    BY <1>0, <2>3, <2>4 DEF Keeps
  <2>7. Keeps(Told(j), told')
    BY <1>0, <2>3, <2>4, ToldKeeps DEF Keeps
  <2> QED
    BY <1>0, <2>4, <2>5, <2>6, <2>7
<1>4. CASE MailMember(c)
  <2>1. Keeps(Told(cron[c]), told)
    BY <1>0, <1>4, ToldKeeps DEF MailMember, Keeps
  <2> QED
    BY <1>0, <1>4, <2>1 DEF MailMember
<1>5. CASE CloseLapsed(c)
  <2>1. Keeps(Later(cron[c]), told)
    BY <1>0, LaterKeeps DEF Keeps
  <2> QED
    BY <1>0, <1>5, <2>1 DEF CloseLapsed
<1>6. CASE RowFails(c)
  <2>1. PICK n \in IF cron[c].at = "next" THEN cron[c].due ELSE {cron[c].item} :
            cron' = [cron EXCEPT ![c] = Later([cron[c] EXCEPT !.item = n])]
    BY <1>6 DEF RowFails
  <2> DEFINE j == [cron[c] EXCEPT !.item = n]
  <2>2. n \in (Rows \X Notices) \union {None}
    BY <1>0 DEF Jobs
  <2>3. j \in Jobs /\ j.due = cron[c].due /\ j.kind = cron[c].kind
    BY <1>0, <2>2 DEF Jobs
  <2> HIDE DEF j
  <2>4. Keeps(Later(j), told)
    BY <1>0, <2>3, LaterKeeps DEF Keeps
  <2>5. cron' = [cron EXCEPT ![c] = Later(j)] /\ told' = told
    BY <1>6, <2>1 DEF RowFails, j
  <2> QED
    BY <1>0, <2>4, <2>5
<1>7. CASE CronDies(c)
  BY <1>0, <1>7, NoJobKeeps DEF CronDies
<1> QED
  BY <1>1, <1>2, <1>3, <1>4, <1>5, <1>6, <1>7

LEMMA ToldNext == ToldInv /\ [Next]_vars => ToldInv'
<1> SUFFICES ASSUME ToldInv, [Next]_vars PROVE \A c \in Crons : Keeps(cron'[c], told')
  BY TypeNext DEF ToldInv
<1>1. CASE PurchaseStep \/ AdminStep \/ NextDay \/ UNCHANGED vars
  <2>1. UNCHANGED <<cron, told>>
    BY <1>1 DEF PurchaseStep, CreateOrder, Capture, SettleBegin, SettleCommit, SettleAborts, IssueReceipt,
       AdminStep, ExtendCheck, AddRead, ReviveRead, ImportRead, ExtendRetire, ExtendCommit, CreateRow,
       ReviveFirst, Overwrite, RequestFails, Revoke, DeleteMember, Suspend, Reinstate, AdminOnly, NextDay,
       vars, tellVars
  <2> QED
    BY <2>1 DEF ToldInv
<1> QED
  BY <1>1, ToldCron DEF Next

\* The only step of the closing job that closes a row comes after the notice.
LEMMA ClosedIsTold ==
    ASSUME ToldInv, [Next]_vars, NEW c \in Crons, cron[c].kind = "expire", cron[c].tells,
           NEW r \in active \ active', cron'[c] # cron[c]
    PROVE  <<r, "expired">> \in told
<1>1. CloseLapsed(c)
  <2>1. UNCHANGED active \/ UNCHANGED cron \/ \E d \in Crons : CloseLapsed(d)
    BY DEF Next, PurchaseStep, CreateOrder, Capture, SettleBegin, SettleCommit, SettleAborts, IssueReceipt,
       AdminStep, ExtendCheck, AddRead, ReviveRead, ImportRead, ExtendRetire, ExtendCommit, CreateRow,
       ReviveFirst, Overwrite, RequestFails, Revoke, DeleteMember, Suspend, Reinstate, AdminOnly, CronStep,
       ListLapsed, ListExpiring, TellNext, MailMember, RowFails, CronDies, CronOnly, NextDay, vars, rowVars
  <2>2. ASSUME NEW d \in Crons, CloseLapsed(d), d # c PROVE cron'[c] = cron[c]
    BY <2>2 DEF CloseLapsed, Run, ToldInv, TypeOK
  <2> QED
    BY <2>1, <2>2
<1>2. r = cron[c].item[1] /\ cron[c].at = "close"
  BY <1>1 DEF CloseLapsed
<1>3. cron[c].item \in Rows \X {"expired"} /\ cron[c].item \in told
  BY <1>2 DEF ToldInv, Keeps
<1> QED
  BY <1>2, <1>3

\* The closing job closes no row of a member it should tell before the notice is written, for any
\* number of processes, and wherever they die and start over (expireLapsedSubscriptions).
THEOREM TellsBeforeClosing == Spec => ToldBeforeClosed
<1>1. Init => ToldInv
  BY TypeInit, NoJobKeeps DEF Init, ToldInv
<1>2. ToldInv /\ [Next]_vars => ToldInv'
  BY ToldNext
<1>3. ToldInv /\ [Next]_vars =>
        [\A c \in Crons : cron[c].kind = "expire" /\ cron[c].tells =>
            \A r \in active \ active' : cron'[c] # cron[c] => <<r, "expired">> \in told]_vars
  BY ClosedIsTold
<1> QED
  BY <1>1, <1>2, <1>3, PTL DEF Spec, ToldBeforeClosed
=============================================================================
