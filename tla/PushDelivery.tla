----------------------------- MODULE PushDelivery -----------------------------
(***************************************************************************)
(* Push jobs on their way to phones: the workers that hand each job to     *)
(* Firebase and retry it for the members it was refused for, while the     *)
(* members' phones come and go.                                            *)
(*                                                                         *)
(* Every await of sendPush is an action of its own that may throw, and a   *)
(* worker may die between any two of them.  The queue (BullMQ) and         *)
(* Firebase are external.  phone[u] is the token sendPush would use for u: *)
(* registered, not muted, member active.                                   *)
(***************************************************************************)
EXTENDS Naturals

CONSTANTS
    Members,
    Tokens,       \* device tokens
    Jobs,         \* ids of push jobs
    Workers,      \* concurrent executions of sendPush
    MaxAttempts,  \* attempts of a push job, 5 in the code
    MaxStalls,    \* times the queue hands out a job again whose worker died
    Nothing

ASSUME LimitsAssumption ==
    /\ MaxAttempts \in Nat \ {0} /\ MaxStalls \in Nat
    /\ Nothing \notin Tokens \union Jobs

VARIABLES
    job,          \* push jobs in the queue
    worker,       \* the sendPush executions
    phone,        \* usable device tokens of the members
    dead,         \* external: tokens Firebase has given up
    got, broke    \* history: pushes sent by each job, and its attempts that broke off

pushVars == <<job, worker, phone, dead, got, broke>>

PushJob == [state : {"none", "waiting", "active", "done", "failed"}, users : SUBSET Members,
            tries : 0 .. MaxAttempts, stalls : 0 .. MaxStalls]
Sending == [at : {"idle", "send", "clear", "narrow", "fail"}, job : Jobs \union {Nothing},
            left : SUBSET (Members \X Tokens), gone : SUBSET (Members \X Tokens),
            again : SUBSET Members]

PushTypeOK ==
    /\ job \in [Jobs -> PushJob]
    /\ worker \in [Workers -> Sending]
    /\ phone \in [Members -> Tokens \union {Nothing}]
    /\ dead \subseteq Tokens
    /\ got \in [Jobs -> [Members -> Nat]]
    /\ broke \in [Jobs -> Nat]

NoJob    == [state |-> "none", users |-> {}, tries |-> 0, stalls |-> 0]
NoWorker == [at |-> "idle", job |-> Nothing, left |-> {}, gone |-> {}, again |-> {}]

PushInit ==
    /\ job = [j \in Jobs |-> NoJob]
    /\ worker = [w \in Workers |-> NoWorker]
    /\ phone = [u \in Members |-> Nothing]
    /\ dead = {}
    /\ got = [j \in Jobs |-> [u \in Members |-> 0]] /\ broke = [j \in Jobs |-> 0]

-----------------------------------------------------------------------------
(* sendPush. *)

\* enqueuePush, by whoever has something to push.
Enqueue(j, us) ==
    /\ job[j].state = "none"
    /\ job' = [job EXCEPT ![j] = [NoJob EXCEPT !.state = "waiting", !.users = us]]
    /\ UNCHANGED <<worker, phone, dead, got, broke>>

Work(w, to) == worker' = [worker EXCEPT ![w] = to]
Targets(us) == {t \in us \X Tokens : phone[t[1]] = t[2]}

\* The queue counts the attempts that threw and gives up at the last.
Threw(j) ==
    LET n == job[j].tries + 1 IN
    job' = [job EXCEPT ![j].tries = n, ![j].state = IF n >= MaxAttempts THEN "failed" ELSE "waiting"]

\* A worker takes a job and reads the members' sessions: without one, there is nothing to do.
Take(w, j) ==
    /\ worker[w].at = "idle" /\ job[j].state = "waiting"
    /\ LET targets == Targets(job[j].users) IN
       IF targets = {}
       THEN job' = [job EXCEPT ![j].state = "done"] /\ UNCHANGED worker
       ELSE /\ job' = [job EXCEPT ![j].state = "active"]
            /\ Work(w, [NoWorker EXCEPT !.at = "send", !.job = j, !.left = targets])
    /\ UNCHANGED <<phone, dead, got, broke>>

\* The sessions cannot be read.
ReadFails(w, j) ==
    /\ worker[w].at = "idle" /\ job[j].state = "waiting"
    /\ Threw(j)
    /\ UNCHANGED <<worker, phone, dead, got, broke>>

\* The pushes sent by a job once Firebase took those in ok, and the worker's lists once it
\* answered for a batch.
Delivered(j, ok) == [u \in Members |-> IF \E t \in ok : t[1] = u THEN got[j][u] + 1 ELSE got[j][u]]

Answered(w, batch, gone, again) ==
    [worker[w] EXCEPT !.left = @ \ batch, !.at = IF worker[w].left = batch THEN "clear" ELSE "send",
                      !.gone = @ \union gone, !.again = @ \union {t[1] : t \in again}]

\* sendPushBatch, for the next slice of the targets: each push is delivered, refused for its
\* dead token, refused for now, or refused for another reason.
SendBatch(w) ==
    /\ worker[w].at = "send"
    /\ \E batch \in SUBSET worker[w].left \ {{}} :
       \E ok, gone, again \in SUBSET batch :
          /\ ok \intersect gone = {} /\ ok \intersect again = {} /\ gone \intersect again = {}
          /\ \A t \in ok : t[2] \notin dead
          /\ \A t \in gone : t[2] \in dead
          /\ got' = [got EXCEPT ![worker[w].job] = Delivered(worker[w].job, ok)]
          /\ Work(w, Answered(w, batch, gone, again))
    /\ UNCHANGED <<job, phone, dead, broke>>

\* Whose token goes: whoever has a token that was refused, and the fault, whoever had it.
HadToken(w)  == {u \in Members : \E t \in worker[w].gone : t[1] = u}
HasToken(w)  == {u \in Members : \E t \in worker[w].gone : phone[u] = t[2]}

\* The dead tokens are cleared by value, then the job is done or has members left to retry.
ClearTokens(w) ==
    /\ worker[w].at = "clear"
    /\ phone' = [u \in Members |-> IF u \in HasToken(w) THEN Nothing ELSE phone[u]]
    /\ IF worker[w].again = {}
       THEN job' = [job EXCEPT ![worker[w].job].state = "done"] /\ Work(w, NoWorker)
       ELSE UNCHANGED job /\ Work(w, [worker[w] EXCEPT !.at = "narrow"])
    /\ UNCHANGED <<dead, got, broke>>

\* Who is left to be sent to; the fault keeps everyone.
Everyone(w)  == job[worker[w].job].users
StillOwed(w) == worker[w].again

Narrow(w) ==
    /\ worker[w].at = "narrow"
    /\ job' = [job EXCEPT ![worker[w].job].users = StillOwed(w)]
    /\ Work(w, [worker[w] EXCEPT !.at = "fail"])
    /\ UNCHANGED <<phone, dead, got, broke>>

FailToRetry(w) ==
    /\ worker[w].at = "fail"
    /\ Threw(worker[w].job) /\ Work(w, NoWorker)
    /\ UNCHANGED <<phone, dead, got, broke>>

BrokeOff(j) == broke' = [broke EXCEPT ![j] = @ + 1]

\* A batch, the clearing or the narrowing throws: the job is retried as it is.
BreaksOff(w) ==
    /\ worker[w].at \in {"send", "clear", "narrow"}
    /\ Threw(worker[w].job) /\ BrokeOff(worker[w].job) /\ Work(w, NoWorker)
    /\ UNCHANGED <<phone, dead, got>>

\* The worker's process dies: the queue notices and hands the job out again, or gives up.
WorkerDies(w) ==
    /\ worker[w].at # "idle"
    /\ LET j == worker[w].job IN
       /\ job' = IF job[j].stalls < MaxStalls
                 THEN [job EXCEPT ![j].stalls = @ + 1, ![j].state = "waiting"]
                 ELSE [job EXCEPT ![j].state = "failed"]
       /\ BrokeOff(j)
    /\ Work(w, NoWorker)
    /\ UNCHANGED <<phone, dead, got>>

-----------------------------------------------------------------------------
(* Phones. *)

\* registerToken, a login with a token, unmuting: the token leaves whoever had it.
SaveToken(u, t) ==
    /\ phone[u] # t
    /\ phone' = [v \in Members |-> IF v = u THEN t ELSE IF phone[v] = t THEN Nothing ELSE phone[v]]
    /\ UNCHANGED <<job, worker, dead, got, broke>>

\* removeToken, logout, a login without a token, muting, suspension, the 90-day clean-up.
DropToken(u) ==
    /\ phone[u] # Nothing
    /\ phone' = [phone EXCEPT ![u] = Nothing]
    /\ UNCHANGED <<job, worker, dead, got, broke>>

\* External: the app was uninstalled.
TokenDies(t) ==
    /\ t \notin dead /\ dead' = dead \union {t}
    /\ UNCHANGED <<job, worker, phone, got, broke>>

-----------------------------------------------------------------------------

SendStep(w) ==
    \/ \E j \in Jobs : Take(w, j) \/ ReadFails(w, j)
    \/ SendBatch(w) \/ ClearTokens(w) \/ Narrow(w) \/ FailToRetry(w) \/ BreaksOff(w)

PhoneStep ==
    \/ \E u \in Members : DropToken(u) \/ \E t \in Tokens : SaveToken(u, t)
    \/ \E t \in Tokens : TokenDies(t)

PushNext ==
    \/ \E j \in Jobs, us \in SUBSET Members \ {{}} : Enqueue(j, us)
    \/ \E w \in Workers : SendStep(w) \/ WorkerDies(w)
    \/ PhoneStep

PushSpec == PushInit /\ [][PushNext]_pushVars

-----------------------------------------------------------------------------
(* Properties. *)

\* "A retry never re-sends to someone who already got it": a job sends a member one push, and
\* another one only after an attempt that broke off in the middle.
ResentOnlyIfBroken ==
    \A j \in Jobs, u \in Members : got[j][u] <= 1 + broke[j]

\* "The device tokens were KEPT": whatever else Firebase refuses, and however stale the list of phones
\* is, sendPush never takes a working token away from a member.
WorkingTokenStays ==
    [][worker' # worker => \A u \in Members :
          phone[u] \notin dead \union {Nothing} => phone'[u] = phone[u]]_pushVars
===============================================================================
