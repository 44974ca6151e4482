----------------------------- MODULE Announcements -----------------------------
(***************************************************************************)
(* A published post on its way to its members: the notification rows the   *)
(* fan-out job creates, the emails and push jobs it sends for them, and    *)
(* the job that picks up the pushes that were never queued.                *)
(*                                                                         *)
(* Every await of the code that changes something is an action of its own  *)
(* that may fail, and the process may die between any two of them.  The    *)
(* queue (BullMQ) is external: asked is whom its push jobs were given, and *)
(* what becomes of a job is PushDelivery.                                  *)
(***************************************************************************)
EXTENDS Naturals

CONSTANTS
    Members,
    Audiences,    \* the sets of members a run may find subscribed
    Fans,         \* concurrent executions of the fan-out job
    Crons         \* concurrent executions of the push retry job

ASSUME AudienceAssumption == Audiences \subseteq SUBSET Members

VARIABLES
    row, age,     \* notification rows with their pushPending flag, and how old they are
    mails,        \* emails sent
    fan, cron,    \* the fan-out and the retry executions
    asked         \* the members a push job was queued for

rowVars == <<row, age, mails>>
vars == <<rowVars, fan, cron, asked>>

Fanning == [at : {"idle", "chunk", "send"}, left : SUBSET Members, fresh : SUBSET Members,
            mailing : BOOLEAN, push : {"queue", "clear", "done"}]
Retrying == [at : {"idle", "read", "queue", "clear"}, left : SUBSET Members, part : SUBSET Members]

TypeOK ==
    /\ row \in [Members -> {"none", "pending", "cleared"}]
    /\ age \in [Members -> {"young", "due", "old"}]
    /\ mails \in [Members -> 0 .. 2]     \* a second copy is MailedOnce's concern
    /\ fan \in [Fans -> Fanning]
    /\ cron \in [Crons -> Retrying]
    /\ asked \subseteq Members

NoFan   == [at |-> "idle", left |-> {}, fresh |-> {}, mailing |-> FALSE, push |-> "done"]
NoRetry == [at |-> "idle", left |-> {}, part |-> {}]

Init ==
    /\ row = [u \in Members |-> "none"] /\ age = [u \in Members |-> "young"]
    /\ mails = [u \in Members |-> 0]
    /\ fan = [f \in Fans |-> NoFan] /\ cron = [c \in Crons |-> NoRetry]
    /\ asked = {}

-----------------------------------------------------------------------------
(* Rows and the queue. *)

Pending(u) == row[u] = "pending"

\* The members of a chunk whose row did not exist; its fault takes the whole chunk.
WholeChunk(chunk) == chunk
NewIn(chunk)      == {u \in chunk : row[u] = "none"}

Flagged(us, flag) == row' = [u \in Members |-> IF u \in us THEN flag ELSE row[u]]

\* enqueuePush: a job of its own for these members.
Enqueue(us) == asked' = asked \union us

-----------------------------------------------------------------------------
(* fanOutCommunity. *)

Fan(f, to) == fan' = [fan EXCEPT ![f] = to]

\* The next chunk, or the end.
FanOn(f) == Fan(f, IF fan[f].left = {} THEN NoFan ELSE [fan[f] EXCEPT !.at = "chunk", !.fresh = {}])

\* The job runs: for the first time, again after a failure, or for a post published twice.
FanStart(f) ==
    /\ fan[f].at = "idle"
    /\ \E recipients \in Audiences \ {{}} :
          Fan(f, [NoFan EXCEPT !.at = "chunk", !.left = recipients])
    /\ UNCHANGED <<rowVars, cron, asked>>

\* createManyAndReturn with skipDuplicates, for the next slice of the recipients.
FanCreates(f) ==
    /\ fan[f].at = "chunk"
    /\ \E chunk \in SUBSET fan[f].left \ {{}} :
          LET fresh == NewIn(chunk)
              left  == fan[f].left \ chunk
          IN  /\ Flagged({u \in chunk : row[u] = "none"}, "pending")
              /\ Fan(f, IF fresh # {}
                        THEN [at |-> "send", left |-> left, fresh |-> fresh, mailing |-> TRUE, push |-> "queue"]
                        ELSE IF left = {} THEN NoFan ELSE [fan[f] EXCEPT !.left = left])
    /\ UNCHANGED <<age, mails, cron, asked>>

\* The emails, the live events and the push go out side by side; a failed email is only logged.
FanMails(f) ==
    /\ fan[f].mailing
    /\ \E sent \in SUBSET fan[f].fresh :
          mails' = [u \in Members |-> IF u \in sent THEN mails[u] + 1 ELSE mails[u]]
    /\ Fan(f, [fan[f] EXCEPT !.mailing = FALSE])
    /\ UNCHANGED <<row, age, cron, asked>>

\* Where queuePushFor goes when the push could not be queued; its fault clears the flag anyway.
ClearAnyway == "clear"
KeepFlag    == "done"

FanQueues(f) ==
    /\ fan[f].at = "send" /\ fan[f].push = "queue"
    /\ \/ Enqueue(fan[f].fresh) /\ Fan(f, [fan[f] EXCEPT !.push = "clear"])
       \/ UNCHANGED asked /\ Fan(f, [fan[f] EXCEPT !.push = KeepFlag])
    /\ UNCHANGED <<rowVars, cron>>

FanClears(f) ==
    /\ fan[f].at = "send" /\ fan[f].push = "clear"
    /\ Flagged(fan[f].fresh, "cleared") \/ UNCHANGED row
    /\ Fan(f, [fan[f] EXCEPT !.push = "done"])
    /\ UNCHANGED <<age, mails, cron, asked>>

FanNext(f) ==
    /\ fan[f].at = "send" /\ ~fan[f].mailing /\ fan[f].push = "done"
    /\ FanOn(f)
    /\ UNCHANGED <<rowVars, cron, asked>>

FanDies(f) ==
    /\ fan[f].at # "idle" /\ Fan(f, NoFan)
    /\ UNCHANGED <<rowVars, cron, asked>>

-----------------------------------------------------------------------------
(* retryPendingPushes. *)

Retry(c, to) == cron' = [cron EXCEPT ![c] = to]

\* Past GIVE_UP_AFTER_MS the flag is dropped.  Its fault: it never is.
NeverOld(u) == FALSE
TooOld(u)   == Pending(u) /\ age[u] = "old"

RetryDrops(c) ==
    /\ cron[c].at = "idle" /\ \E u \in Members : Pending(u)
    /\ Flagged({u \in Members : TooOld(u)}, "cleared")
    /\ Retry(c, [NoRetry EXCEPT !.at = "read"])
    /\ UNCHANGED <<age, mails, fan, asked>>

RetryReads(c) ==
    /\ cron[c].at = "read"
    /\ LET due == {u \in Members : Pending(u) /\ age[u] = "due"} IN
       Retry(c, IF due = {} THEN NoRetry ELSE [NoRetry EXCEPT !.at = "queue", !.left = due])
    /\ UNCHANGED <<rowVars, fan, asked>>

\* The retry after one part of its list is done with.
Rest(c, part) ==
    IF part = cron[c].left THEN NoRetry
    ELSE [NoRetry EXCEPT !.at = "queue", !.left = cron[c].left \ part]

\* One job per 500 members of the announcement, whatever became of their rows since.
RetryQueues(c) ==
    /\ cron[c].at = "queue"
    /\ \E part \in SUBSET cron[c].left \ {{}} :
          \/ Enqueue(part) /\ Retry(c, [cron[c] EXCEPT !.at = "clear", !.part = part])
          \/ UNCHANGED asked /\ Retry(c, Rest(c, part))
    /\ UNCHANGED <<rowVars, fan>>

RetryClears(c) ==
    /\ cron[c].at = "clear"
    /\ Flagged(cron[c].part, "cleared") \/ UNCHANGED row
    /\ Retry(c, Rest(c, cron[c].part))
    /\ UNCHANGED <<age, mails, fan, asked>>

RetryDies(c) ==
    /\ cron[c].at # "idle" /\ Retry(c, NoRetry)
    /\ UNCHANGED <<rowVars, fan, asked>>

\* Only a pending row's age is looked at.
Ages(u) ==
    /\ Pending(u) /\ age[u] # "old"
    /\ age' = [age EXCEPT ![u] = IF @ = "young" THEN "due" ELSE "old"]
    /\ UNCHANGED <<row, mails, fan, cron, asked>>

-----------------------------------------------------------------------------

FanStep(f) ==
    FanCreates(f) \/ FanMails(f) \/ FanQueues(f) \/ FanClears(f) \/ FanNext(f)

RetryStep(c) == RetryDrops(c) \/ RetryReads(c) \/ RetryQueues(c) \/ RetryClears(c)

Next ==
    \/ \E f \in Fans : FanStart(f) \/ FanStep(f) \/ FanDies(f)
    \/ \E c \in Crons : RetryStep(c) \/ RetryDies(c)
    \/ \E u \in Members : Ages(u)

Spec == Init /\ [][Next]_vars

\* The retry job is scheduled every two minutes, and rows grow old.
Fairness ==
    /\ \A c \in Crons : SF_vars(RetryDrops(c)) /\ WF_vars(RetryStep(c))
    /\ \A u \in Members : WF_vars(Ages(u))

FairSpec == Spec /\ Fairness

-----------------------------------------------------------------------------
(* Properties. *)

\* "Nobody gets the same email ... twice": whether the fan-out is retried from its start,
\* runs twice at once, or announces a post again that is published again.
MailedOnce == \A u \in Members : mails[u] <= 1

\* The push of a row is given up only when a job naming the member was queued or the row is a
\* day old: no failure, crash or overlap of fan-out and retry job takes the flag off too early.
FlagIsHonest ==
    \A u \in Members : row[u] = "cleared" => age[u] = "old" \/ u \in asked

\* A push does not stay pending for ever: it is queued or dropped.
PendingEnds == \A u \in Members : Pending(u) ~> ~Pending(u)

================================================================================
