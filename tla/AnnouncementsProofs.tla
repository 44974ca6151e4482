-------------------------- MODULE AnnouncementsProofs --------------------------
(***************************************************************************)
(* Proofs about Announcements, for any numbers of members and of runs of   *)
(* the fan-out and the retry job.                                          *)
(***************************************************************************)
EXTENDS Announcements, TLAPS

\* The emails a run still has to send are nobody's yet and no other run's: a row that does not
\* exist has been mailed by nobody, and only the run that created it mails it.
MailInv ==
    /\ \A u \in Members : mails[u] <= 1
    /\ \A u \in Members : row[u] = "none" =>
          mails[u] = 0 /\ \A f \in Fans : fan[f].mailing => u \notin fan[f].fresh
    /\ \A f \in Fans : fan[f].mailing => \A u \in fan[f].fresh : mails[u] = 0
    /\ \A f, g \in Fans : fan[f].mailing /\ fan[g].mailing /\ f # g =>
          fan[f].fresh \intersect fan[g].fresh = {}

\* A run about to take flags off has queued the push.
FlagInv ==
    /\ FlagIsHonest
    /\ \A f \in Fans : fan[f].push = "clear" => fan[f].fresh \subseteq asked
    /\ \A c \in Crons : cron[c].at = "clear" => cron[c].part \subseteq asked

Inv == TypeOK /\ MailInv /\ FlagInv

-----------------------------------------------------------------------------

LEMMA FanTyped ==
    ASSUME TypeOK, NEW f \in Fans, NEW k \in Fanning, Fan(f, k)
    PROVE  fan' \in [Fans -> Fanning] /\ \A g \in Fans : fan'[g] = IF g = f THEN k ELSE fan[g]
BY DEF TypeOK, Fan

LEMMA RetryTyped ==
    ASSUME TypeOK, NEW c \in Crons, NEW k \in Retrying, Retry(c, k)
    PROVE  cron' \in [Crons -> Retrying] /\ \A d \in Crons : cron'[d] = IF d = c THEN k ELSE cron[d]
BY DEF TypeOK, Retry

LEMMA Idle == NoFan \in Fanning /\ NoRetry \in Retrying
              /\ ~NoFan.mailing /\ NoFan.push = "done" /\ NoRetry.at = "idle"
BY DEF NoFan, NoRetry, Fanning, Retrying

LEMMA InitInv == Init => Inv
<1> SUFFICES ASSUME Init PROVE Inv
    OBVIOUS
<1>1. TypeOK
  BY Idle DEF Init, TypeOK
<1>2. MailInv
  BY Idle DEF Init, MailInv
<1>3. FlagInv
  BY Idle DEF Init, FlagInv, FlagIsHonest
<1> QED BY <1>1, <1>2, <1>3 DEF Inv

-----------------------------------------------------------------------------
(* The fan-out. *)

\* A run that moves without rows, emails or flags, and mails and clears nothing new.
LEMMA FanMoves ==
    ASSUME Inv, NEW f \in Fans, NEW k \in Fanning, Fan(f, k),
           k.mailing => fan[f].mailing, k.mailing \/ k.push = "clear" => k.fresh = fan[f].fresh,
           UNCHANGED <<row, age, mails, cron>>, asked \subseteq asked', asked' \subseteq Members,
           k.push = "clear" => k.fresh \subseteq asked'
    PROVE  Inv'
<1>1. fan' \in [Fans -> Fanning] /\ \A g \in Fans : fan'[g] = IF g = f THEN k ELSE fan[g]
  BY FanTyped DEF Inv
<1>2. TypeOK'
  BY <1>1 DEF Inv, TypeOK
<1>3. MailInv'
  BY <1>1 DEF Inv, MailInv
<1>4. FlagInv'
  BY <1>1 DEF Inv, FlagInv, FlagIsHonest
<1> QED BY <1>2, <1>3, <1>4 DEF Inv

LEMMA StartStep == ASSUME Inv, NEW f \in Fans, FanStart(f) PROVE Inv'
<1>1. PICK recipients \in Audiences : Fan(f, [NoFan EXCEPT !.at = "chunk", !.left = recipients])
  BY DEF FanStart
<1> DEFINE k == [NoFan EXCEPT !.at = "chunk", !.left = recipients]
<1>2. k \in Fanning /\ ~k.mailing /\ k.push = "done"
  BY AudienceAssumption DEF NoFan, Fanning
<1>3. Fan(f, k)
  BY <1>1
<1> HIDE DEF k
<1> QED BY <1>2, <1>3, FanMoves DEF FanStart, rowVars, Inv, TypeOK

LEMMA CreateStep == ASSUME Inv, NEW f \in Fans, FanCreates(f) PROVE Inv'
<1>1. PICK chunk \in SUBSET fan[f].left :
         /\ Flagged({u \in chunk : row[u] = "none"}, "pending")
         /\ Fan(f, IF NewIn(chunk) # {}
                   THEN [at |-> "send", left |-> fan[f].left \ chunk, fresh |-> NewIn(chunk),
                         mailing |-> TRUE, push |-> "queue"]
                   ELSE IF fan[f].left \ chunk = {} THEN NoFan
                        ELSE [fan[f] EXCEPT !.left = fan[f].left \ chunk])
  BY DEF FanCreates
<1> DEFINE fresh == {u \in chunk : row[u] = "none"}
           left == fan[f].left \ chunk
           sends == [at |-> "send", left |-> left, fresh |-> fresh, mailing |-> TRUE, push |-> "queue"]
           skips == [fan[f] EXCEPT !.left = left]
<1>2. fan[f] \in Fanning /\ fan[f].left \subseteq Members
  BY DEF Inv, TypeOK, Fanning
<1>3. fresh \subseteq Members /\ left \subseteq Members
  BY <1>2
<1>4. sends \in Fanning /\ skips \in Fanning
  BY <1>2, <1>3 DEF Fanning
<1>5. /\ sends.mailing /\ sends.fresh = fresh /\ sends.push = "queue"
      /\ skips.mailing = fan[f].mailing /\ skips.fresh = fan[f].fresh /\ skips.push = fan[f].push
  BY <1>2 DEF Fanning
<1>6. /\ row' = [u \in Members |-> IF u \in fresh THEN "pending" ELSE row[u]]
      /\ UNCHANGED <<age, mails, cron, asked>>
  BY <1>1 DEF FanCreates, Flagged
<1>7. \/ fresh # {} /\ Fan(f, sends)
      \/ fresh = {} /\ (Fan(f, NoFan) \/ Fan(f, skips))
  BY <1>1 DEF NewIn
<1>8. \A u \in fresh : u \in Members /\ row[u] = "none"
  BY <1>3
<1> HIDE DEF fresh, left, sends, skips
<1>9. ASSUME fresh = {}, NEW k \in {NoFan, skips}, Fan(f, k) PROVE Inv'
  <2>1. row' = row
    BY <1>6, <1>9 DEF Inv, TypeOK
  <2>2. k \in Fanning
    BY <1>4, Idle
  <2>3. /\ k.mailing => fan[f].mailing
        /\ k.mailing \/ k.push = "clear" => k.fresh = fan[f].fresh
        /\ k.push = "clear" => k.fresh \subseteq asked
    BY <1>5, Idle DEF Inv, FlagInv
  <2> QED BY <1>6, <1>9, <2>1, <2>2, <2>3, FanMoves DEF Inv, TypeOK
<1>10. ASSUME fresh # {}, Fan(f, sends) PROVE Inv'
  <2>1. fan' \in [Fans -> Fanning] /\ \A g \in Fans : fan'[g] = IF g = f THEN sends ELSE fan[g]
    BY <1>4, <1>10, FanTyped DEF Inv
  <2>2. row' \in [Members -> {"none", "pending", "cleared"}]
    BY <1>6 DEF Inv, TypeOK
  <2>3. TypeOK'
    BY <1>6, <2>1, <2>2 DEF Inv, TypeOK
  <2>4. \A u \in Members : row'[u] = IF u \in fresh THEN "pending" ELSE row[u]
    BY <1>6
  <2>5. MailInv'
    BY <1>3, <1>5, <1>6, <1>8, <2>1, <2>4 DEF Inv, MailInv
  <2>6. FlagInv'
    BY <1>5, <1>6, <2>1, <2>4 DEF Inv, FlagInv, FlagIsHonest
  <2> QED BY <2>3, <2>5, <2>6 DEF Inv
<1> QED BY <1>7, <1>9, <1>10

LEMMA MailStep == ASSUME Inv, NEW f \in Fans, FanMails(f) PROVE Inv'
<1>1. PICK sent \in SUBSET fan[f].fresh :
         mails' = [u \in Members |-> IF u \in sent THEN mails[u] + 1 ELSE mails[u]]
  BY DEF FanMails
<1> DEFINE k == [fan[f] EXCEPT !.mailing = FALSE]
<1>2. fan[f] \in Fanning /\ fan[f].fresh \subseteq Members /\ fan[f].mailing
  BY DEF Inv, TypeOK, Fanning, FanMails
<1>3. k \in Fanning /\ k.mailing = FALSE /\ k.fresh = fan[f].fresh /\ k.push = fan[f].push
  BY <1>2 DEF Fanning
<1>4. Fan(f, k) /\ UNCHANGED <<row, age, cron, asked>>
  BY DEF FanMails
<1> HIDE DEF k
<1>5. fan' \in [Fans -> Fanning] /\ \A g \in Fans : fan'[g] = IF g = f THEN k ELSE fan[g]
  BY <1>3, <1>4, FanTyped DEF Inv
<1>6. \A u \in Members : mails[u] \in 0 .. 2 /\ (u \in sent => mails[u] = 0 /\ row[u] # "none")
  BY <1>1, <1>2 DEF Inv, TypeOK, MailInv
<1>7. \A u \in Members : mails'[u] = IF u \in sent THEN 1 ELSE mails[u]
  BY <1>1, <1>6
<1>8. mails' \in [Members -> 0 .. 2]
  BY <1>1, <1>6, <1>7
<1>9. TypeOK'
  BY <1>4, <1>5, <1>8 DEF Inv, TypeOK
<1>10. \A g \in Fans : fan'[g].mailing => g # f /\ fan[g].mailing /\ fan'[g].fresh = fan[g].fresh
                                           /\ fan[g].fresh \intersect sent = {}
  BY <1>1, <1>2, <1>3, <1>5 DEF Inv, MailInv
<1>11. \A g \in Fans : fan[g].fresh \subseteq Members
  BY DEF Inv, TypeOK, Fanning
<1>12. MailInv'
  BY <1>4, <1>6, <1>7, <1>10, <1>11 DEF Inv, MailInv
<1>13. FlagInv'
  BY <1>3, <1>4, <1>5 DEF Inv, FlagInv, FlagIsHonest
<1> QED BY <1>9, <1>12, <1>13 DEF Inv

LEMMA QueueStep == ASSUME Inv, NEW f \in Fans, FanQueues(f) PROVE Inv'
<1> DEFINE clears == [fan[f] EXCEPT !.push = "clear"]
           keeps == [fan[f] EXCEPT !.push = "done"]
<1>1. fan[f] \in Fanning /\ fan[f].fresh \subseteq Members
  BY DEF Inv, TypeOK, Fanning
<1>2. /\ clears \in Fanning /\ clears.mailing = fan[f].mailing /\ clears.fresh = fan[f].fresh
      /\ keeps \in Fanning /\ keeps.mailing = fan[f].mailing /\ keeps.fresh = fan[f].fresh
      /\ keeps.push = "done"
  BY <1>1 DEF Fanning
<1>3. /\ UNCHANGED <<row, age, mails, cron>>
      /\ \/ asked' = asked \union fan[f].fresh /\ Fan(f, clears)
         \/ asked' = asked /\ Fan(f, keeps)
  BY DEF FanQueues, Enqueue, KeepFlag, rowVars
<1>4. asked \subseteq Members
  BY DEF Inv, TypeOK
<1> HIDE DEF clears, keeps
<1>5. CASE asked' = asked \union fan[f].fresh /\ Fan(f, clears)
  BY <1>1, <1>2, <1>3, <1>4, <1>5, FanMoves
<1>6. CASE asked' = asked /\ Fan(f, keeps)
  BY <1>2, <1>3, <1>4, <1>6, FanMoves
<1> QED BY <1>3, <1>5, <1>6

LEMMA ClearStep == ASSUME Inv, NEW f \in Fans, FanClears(f) PROVE Inv'
<1> DEFINE k == [fan[f] EXCEPT !.push = "done"]
<1>1. fan[f] \in Fanning
  BY DEF Inv, TypeOK
<1>2. k \in Fanning /\ k.mailing = fan[f].mailing /\ k.fresh = fan[f].fresh /\ k.push = "done"
  BY <1>1 DEF Fanning
<1>3. /\ Fan(f, k) /\ UNCHANGED <<age, mails, cron, asked>>
      /\ row' = row \/ row' = [u \in Members |-> IF u \in fan[f].fresh THEN "cleared" ELSE row[u]]
  BY DEF FanClears, Flagged
<1> HIDE DEF k
<1>4. fan' \in [Fans -> Fanning] /\ \A g \in Fans : fan'[g] = IF g = f THEN k ELSE fan[g]
  BY <1>2, <1>3, FanTyped DEF Inv
<1>5. fan[f].fresh \subseteq asked
  BY DEF FanClears, Inv, FlagInv
<1>6. \A u \in Members : row'[u] = row[u] \/ (row'[u] = "cleared" /\ u \in asked)
  BY <1>3, <1>5
<1>7. row' \in [Members -> {"none", "pending", "cleared"}]
  BY <1>3 DEF Inv, TypeOK
<1>8. TypeOK'
  BY <1>3, <1>4, <1>7 DEF Inv, TypeOK
<1>9. MailInv'
  BY <1>2, <1>3, <1>4, <1>6 DEF Inv, MailInv
<1>10. FlagInv'
  BY <1>2, <1>3, <1>4, <1>6 DEF Inv, FlagInv, FlagIsHonest
<1> QED BY <1>8, <1>9, <1>10 DEF Inv

LEMMA EndStep == ASSUME Inv, NEW f \in Fans, FanNext(f) \/ FanDies(f) PROVE Inv'
<1> DEFINE goes == [fan[f] EXCEPT !.at = "chunk", !.fresh = {}]
<1>1. fan[f] \in Fanning
  BY DEF Inv, TypeOK
<1>2. goes \in Fanning /\ goes.mailing = fan[f].mailing /\ goes.push = fan[f].push
  BY <1>1 DEF Fanning
<1>3. /\ UNCHANGED <<row, age, mails, cron, asked>>
      /\ Fan(f, NoFan) \/ (FanNext(f) /\ Fan(f, goes))
  BY DEF FanNext, FanDies, FanOn, rowVars
<1>4. asked \subseteq Members
  BY DEF Inv, TypeOK
<1> HIDE DEF goes
<1>5. CASE Fan(f, NoFan)
  BY <1>3, <1>4, <1>5, Idle, FanMoves
<1>6. CASE FanNext(f) /\ Fan(f, goes)
  <2>1. ~goes.mailing /\ goes.push = "done"
    BY <1>2, <1>6 DEF FanNext
  <2> QED BY <1>2, <1>3, <1>4, <1>6, <2>1, FanMoves
<1> QED BY <1>3, <1>5, <1>6

-----------------------------------------------------------------------------
(* The retry job, and time. *)

\* A run of the retry job that takes flags off only where that is honest.
LEMMA RetryMoves ==
    ASSUME Inv, NEW c \in Crons, NEW k \in Retrying, Retry(c, k),
           UNCHANGED <<age, mails, fan>>, asked \subseteq asked', asked' \subseteq Members,
           row' \in [Members -> {"none", "pending", "cleared"}],
           \A u \in Members : \/ row'[u] = row[u]
                              \/ row[u] # "none" /\ row'[u] = "cleared" /\ (age[u] = "old" \/ u \in asked)
                              \/ row'[u] = "cleared" /\ u \in asked,
           k.at = "clear" => k.part \subseteq asked'
    PROVE  Inv'
<1>1. cron' \in [Crons -> Retrying] /\ \A d \in Crons : cron'[d] = IF d = c THEN k ELSE cron[d]
  BY RetryTyped DEF Inv
<1>2. TypeOK'
  BY <1>1 DEF Inv, TypeOK
<1>3. MailInv'
  BY DEF Inv, MailInv
<1>4. FlagInv'
  BY <1>1 DEF Inv, FlagInv, FlagIsHonest
<1> QED BY <1>2, <1>3, <1>4 DEF Inv

LEMMA RestTyped ==
    ASSUME TypeOK, NEW c \in Crons, NEW part \in SUBSET Members
    PROVE  Rest(c, part) \in Retrying /\ Rest(c, part).at # "clear"
<1>1. cron[c].left \subseteq Members
  BY DEF TypeOK, Retrying
<1> QED BY <1>1 DEF Rest, NoRetry, Retrying

LEMMA DropStep == ASSUME Inv, NEW c \in Crons, RetryDrops(c) PROVE Inv'
<1> DEFINE k == [NoRetry EXCEPT !.at = "read"]
<1>1. k \in Retrying /\ k.at = "read"
  BY DEF NoRetry, Retrying
<1>2. /\ Retry(c, k) /\ UNCHANGED <<age, mails, fan, asked>>
      /\ row' = [u \in Members |-> IF u \in {v \in Members : TooOld(v)} THEN "cleared" ELSE row[u]]
  BY DEF RetryDrops, Flagged
<1> HIDE DEF k
<1>3. row' \in [Members -> {"none", "pending", "cleared"}]
  BY <1>2 DEF Inv, TypeOK
<1>4. \A u \in Members :
         row'[u] = row[u] \/ (row[u] # "none" /\ row'[u] = "cleared" /\ age[u] = "old")
  BY <1>2 DEF TooOld, Pending
<1> QED BY <1>1, <1>2, <1>3, <1>4, RetryMoves DEF Inv, TypeOK

LEMMA ReadStep == ASSUME Inv, NEW c \in Crons, RetryReads(c) \/ RetryDies(c) PROVE Inv'
<1> DEFINE due == {u \in Members : Pending(u) /\ age[u] = "due"}
           k == IF RetryDies(c) \/ due = {} THEN NoRetry ELSE [NoRetry EXCEPT !.at = "queue", !.left = due]
<1>1. k \in Retrying /\ k.at # "clear"
  BY DEF NoRetry, Retrying
<1>2. Retry(c, k) /\ UNCHANGED <<row, age, mails, fan, asked>>
  BY DEF RetryReads, RetryDies, rowVars
<1> HIDE DEF k
<1> QED BY <1>1, <1>2, RetryMoves DEF Inv, TypeOK

LEMMA RequeueStep == ASSUME Inv, NEW c \in Crons, RetryQueues(c) PROVE Inv'
<1>1. PICK part \in SUBSET cron[c].left :
         \/ Enqueue(part) /\ Retry(c, [cron[c] EXCEPT !.at = "clear", !.part = part])
         \/ UNCHANGED asked /\ Retry(c, Rest(c, part))
  BY DEF RetryQueues
<1>2. cron[c] \in Retrying /\ part \subseteq Members
  BY DEF Inv, TypeOK, Retrying
<1>3. UNCHANGED <<row, age, mails, fan>> /\ asked \subseteq Members
      /\ row \in [Members -> {"none", "pending", "cleared"}]
  BY DEF RetryQueues, rowVars, Inv, TypeOK
<1>4. ASSUME Enqueue(part), Retry(c, [cron[c] EXCEPT !.at = "clear", !.part = part]) PROVE Inv'
  <2> DEFINE k == [cron[c] EXCEPT !.at = "clear", !.part = part]
  <2>1. k \in Retrying /\ k.part = part
    BY <1>2 DEF Retrying
  <2>2. asked' = asked \union part /\ Retry(c, k)
    BY <1>4 DEF Enqueue
  <2> HIDE DEF k
  <2> QED BY <1>2, <1>3, <2>1, <2>2, RetryMoves
<1>5. ASSUME UNCHANGED asked, Retry(c, Rest(c, part)) PROVE Inv'
  <2>1. Rest(c, part) \in Retrying /\ Rest(c, part).at # "clear"
    BY <1>2, RestTyped DEF Inv
  <2> QED BY <1>3, <1>5, <2>1, RetryMoves
<1> QED BY <1>1, <1>4, <1>5

LEMMA UnflagStep == ASSUME Inv, NEW c \in Crons, RetryClears(c) PROVE Inv'
<1> DEFINE k == Rest(c, cron[c].part)
<1>1. cron[c].part \subseteq Members /\ cron[c].part \subseteq asked
  BY DEF RetryClears, Inv, TypeOK, Retrying, FlagInv
<1>2. k \in Retrying /\ k.at # "clear"
  BY <1>1, RestTyped DEF Inv
<1>3. /\ Retry(c, k) /\ UNCHANGED <<age, mails, fan, asked>>
      /\ row' = row \/ row' = [u \in Members |-> IF u \in cron[c].part THEN "cleared" ELSE row[u]]
  BY DEF RetryClears, Flagged
<1> HIDE DEF k
<1>4. row' \in [Members -> {"none", "pending", "cleared"}]
  BY <1>3 DEF Inv, TypeOK
<1>5. \A u \in Members : row'[u] = row[u] \/ (row'[u] = "cleared" /\ u \in asked)
  BY <1>1, <1>3
<1> QED BY <1>2, <1>3, <1>4, <1>5, RetryMoves DEF Inv, TypeOK

LEMMA AgeStep == ASSUME Inv, NEW u \in Members, Ages(u) PROVE Inv'
<1>1. /\ row[u] = "pending" /\ UNCHANGED <<row, mails, fan, cron, asked>>
      /\ age' = [age EXCEPT ![u] = IF @ = "young" THEN "due" ELSE "old"]
  BY DEF Ages, Pending
<1>2. TypeOK'
  BY <1>1 DEF Inv, TypeOK
<1>3. MailInv'
  BY <1>1 DEF Inv, MailInv
<1>4. \A v \in Members : v # u => age'[v] = age[v]
  BY <1>1 DEF Inv, TypeOK
<1>5. FlagInv'
  BY <1>1, <1>4 DEF Inv, FlagInv, FlagIsHonest
<1> QED BY <1>2, <1>3, <1>5 DEF Inv

-----------------------------------------------------------------------------

THEOREM InvHolds == Spec => []Inv
<1>1. Init => Inv
  BY InitInv
<1>2. Inv /\ [Next]_vars => Inv'
  <2> SUFFICES ASSUME Inv, [Next]_vars PROVE Inv'
      OBVIOUS
  <2>1. ASSUME NEW f \in Fans, FanStart(f) \/ FanStep(f) \/ FanDies(f) PROVE Inv'
    BY <2>1, StartStep, CreateStep, MailStep, QueueStep, ClearStep, EndStep DEF FanStep
  <2>2. ASSUME NEW c \in Crons, RetryStep(c) \/ RetryDies(c) PROVE Inv'
    BY <2>2, DropStep, ReadStep, RequeueStep, UnflagStep DEF RetryStep
  <2>3. ASSUME NEW u \in Members, Ages(u) PROVE Inv'
    BY <2>3, AgeStep
  <2>4. CASE UNCHANGED vars
    BY <2>4 DEF vars, rowVars, Inv, TypeOK, MailInv, FlagInv, FlagIsHonest
  <2> QED BY <2>1, <2>2, <2>3, <2>4 DEF Next
<1> QED BY <1>1, <1>2, PTL DEF Spec

\* Every variable keeps its type.
THEOREM TypeCorrect == Spec => []TypeOK
<1>1. Inv => TypeOK
  BY DEF Inv
<1> QED BY <1>1, InvHolds, PTL

\* Nobody is mailed an announcement twice, however often the fan-out is retried, however many
\* runs of it overlap and wherever they die.
THEOREM MailsOnce == Spec => []MailedOnce
<1>1. Inv => MailedOnce
  BY DEF Inv, MailInv, MailedOnce
<1> QED BY <1>1, InvHolds, PTL

\* The pending flag comes off only after the push was queued, or a day later.
THEOREM FlagStaysHonest == Spec => []FlagIsHonest
<1>1. Inv => FlagIsHonest
  BY DEF Inv, FlagInv
<1> QED BY <1>1, InvHolds, PTL

================================================================================
