-------------------------------- MODULE PostTalk --------------------------------
(***************************************************************************)
(* What members and admins say under one post: reactions, with the counts  *)
(* kept on the post, and comments, a tree in which every comment carries   *)
(* the path of those above it.                                             *)
(*                                                                         *)
(* The database runs READ COMMITTED.  A request reads, decides, and writes *)
(* later; a transaction's writes are seen by others when it commits.       *)
(***************************************************************************)
EXTENDS Naturals, FiniteSets

CONSTANTS
    Members, Admins,
    Kinds,         \* reaction types
    Comments,      \* the ids that comments will have
    Talkers,       \* requests under way
    Nil            \* no reaction, no comment, nobody

ASSUME NilAssumption ==
    /\ Nil \notin Kinds \union Comments \union Members \union Admins
    /\ Members \intersect Admins = {}
ASSUME MembersAssumption == IsFiniteSet(Members)

VARIABLES
    reaction,      \* the reaction row of each member
    counts,        \* reactionCounts of the post
    comment,       \* the comment rows
    talk,          \* the requests
    drifted        \* history: the counts were last written by a call that another had overtaken

rows == <<reaction, counts>>
talkVars == <<reaction, counts, comment, talk, drifted>>

People == Members \union Admins

\* late: its parent was deleted while the comment was being written.
Rows == [state : {"none", "live", "deleted"}, by : People \union {Nil}, parent : Comments \union {Nil},
         path : SUBSET Comments, note : {"none", "pending", "replied"}, late : BOOLEAN]

\* overtaken, met: what others committed in between, for the properties only.
TalkRequests == [at : {"idle", "react", "write", "count", "drop", "mark"}, who : People \union {Nil},
             kind : Kinds \union {Nil}, had : BOOLEAN, tally : [Kinds -> Nat], overtaken : BOOLEAN,
             on : Comments \union {Nil}, met : SUBSET Comments]

TalkTypeOK ==
    /\ reaction \in [Members -> Kinds \union {Nil}]
    /\ counts \in [Kinds -> Nat]
    /\ comment \in [Comments -> Rows]
    /\ talk \in [Talkers -> TalkRequests]
    /\ drifted \in BOOLEAN

Zero == [k \in Kinds |-> 0]
NoRow == [state |-> "none", by |-> Nil, parent |-> Nil, path |-> {}, note |-> "none", late |-> FALSE]
NoTalk == [at |-> "idle", who |-> Nil, kind |-> Nil, had |-> FALSE, tally |-> Zero, overtaken |-> FALSE,
           on |-> Nil, met |-> {}]

TalkInit ==
    /\ reaction = [m \in Members |-> Nil] /\ counts = Zero
    /\ comment = [x \in Comments |-> NoRow]
    /\ talk = [c \in Talkers |-> NoTalk]
    /\ drifted = FALSE

Talk(c, to) == talk' = [talk EXCEPT ![c] = to]

-----------------------------------------------------------------------------
(* Reactions. *)

Tally(given) == [k \in Kinds |-> Cardinality({m \in Members : given[m] = k})]

\* What recomputeReactionCounts counts for c: the committed rows and its own; its fault leaves
\* its own out.
WithoutOwn(m, kind) == Tally(reaction)
Counted(m, kind)    == Tally([reaction EXCEPT ![m] = kind])

\* The row of a member that a transaction has written and not committed yet.
Wrote(c, m) == talk[c].at = "react" /\ talk[c].who = m /\ (talk[c].kind # Nil \/ talk[c].had)

\* upsertReaction and removeReaction (no kind): the row is written and the rows are counted.
\* A removal waits too where the member's uncommitted row is a new one, which deleteMany would
\* pass by; it would remove nothing and count without it, as a call that came before does.
ReactCounts(c, m, kind) ==
    /\ talk[c].at = "idle"
    /\ \A d \in Talkers : ~Wrote(d, m)
    /\ Talk(c, [NoTalk EXCEPT !.at = "react", !.who = m, !.kind = kind, !.had = reaction[m] # Nil,
                              !.tally = Counted(m, kind)])
    /\ UNCHANGED <<rows, comment, drifted>>

\* The counts overwrite those of the post, and all of it is committed.
ReactCommits(c) ==
    LET m == talk[c].who IN
    /\ talk[c].at = "react"
    /\ reaction' = IF Wrote(c, m) THEN [reaction EXCEPT ![m] = talk[c].kind] ELSE reaction
    /\ counts' = talk[c].tally
    /\ drifted' = talk[c].overtaken
    /\ talk' = [d \in Talkers |-> IF d = c THEN NoTalk
                                ELSE [talk[d] EXCEPT !.overtaken = (talk[d].at = "react")]]
    /\ UNCHANGED comment

-----------------------------------------------------------------------------
(* Comments. *)

Live == {x \in Comments : comment[x].state = "live"}
Replies(x) == {y \in Live : comment[y].parent = x}

\* The comments a deletion takes: by the path; its fault, by the parent.
DirectOnly(x) == Live \intersect ({x} \union {y \in Comments : comment[y].parent = x})
Subtree(x)    == {y \in Live : y = x \/ x \in comment[y].path}

\* createComment reads the parent, if there is one.
CommentReads(c, w, x) ==
    /\ talk[c].at = "idle" /\ x \in Live \union {Nil}
    /\ Talk(c, [NoTalk EXCEPT !.at = "write", !.who = w, !.on = x])
    /\ UNCHANGED <<rows, comment, drifted>>

\* A member's question waits for the admins; an admin's reply settles the comment it answers.
Waits(w, x) == w \in Members /\ (x = Nil \/ comment[x].by \in Admins)

\* A call that is about to delete something remembers what was written meanwhile.
Meeting(c, x) ==
    [d \in Talkers |-> IF d = c THEN NoTalk
                     ELSE IF talk[d].at \in {"count", "drop"} THEN [talk[d] EXCEPT !.met = @ \union {x}]
                     ELSE talk[d]]

CommentWrites(c) ==
    LET w == talk[c].who  x == talk[c].on IN
    /\ talk[c].at = "write"
    /\ \E new \in Comments :
          /\ comment[new] = NoRow
          /\ comment' = [y \in Comments |->
                IF y = new
                THEN [state |-> "live", by |-> w, parent |-> x,
                      path |-> IF x = Nil THEN {} ELSE comment[x].path \union {x},
                      note |-> IF Waits(w, x) THEN "pending" ELSE "none",
                      late |-> x # Nil /\ x \notin Live]
                ELSE IF y = x /\ w \in Admins /\ comment[y].note = "pending"
                     THEN [comment[y] EXCEPT !.note = "replied"] ELSE comment[y]]
          /\ talk' = Meeting(c, new)
    /\ UNCHANGED <<rows, drifted>>

\* deleteComment: an admin deletes any comment, a member one of their own that nobody answered.
DeleteReads(c, w, x) ==
    /\ talk[c].at = "idle" /\ x \in Live
    /\ w \in Members => comment[x].by = w
    /\ Talk(c, [NoTalk EXCEPT !.at = IF w \in Members THEN "count" ELSE "drop", !.who = w, !.on = x])
    /\ UNCHANGED <<rows, comment, drifted>>

\* The replies are counted; its fault does not ask.
NotAsked(x)   == TRUE
Unanswered(x) == Replies(x) = {}

DeleteCounts(c) ==
    /\ talk[c].at = "count"
    /\ Talk(c, IF Unanswered(talk[c].on) THEN [talk[c] EXCEPT !.at = "drop", !.met = {}] ELSE NoTalk)
    /\ UNCHANGED <<rows, comment, drifted>>

DeleteDrops(c) ==
    LET gone == Subtree(talk[c].on) IN
    /\ talk[c].at = "drop"
    /\ comment' = [y \in Comments |-> IF y \in gone THEN [comment[y] EXCEPT !.state = "deleted"] ELSE comment[y]]
    /\ Talk(c, NoTalk)
    /\ UNCHANGED <<rows, drifted>>

\* markNotificationReplied reads first; markAllNotificationsReplied does not.
MarkReads(c, x) ==
    /\ talk[c].at = "idle" /\ comment[x].note = "pending"
    /\ Talk(c, [NoTalk EXCEPT !.at = "mark", !.on = x])
    /\ UNCHANGED <<rows, comment, drifted>>

Replied(xs) ==
    comment' = [y \in Comments |-> IF y \in xs /\ comment[y].note = "pending"
                                   THEN [comment[y] EXCEPT !.note = "replied"] ELSE comment[y]]

MarkWrites(c) ==
    /\ talk[c].at = "mark" /\ Replied({talk[c].on}) /\ Talk(c, NoTalk)
    /\ UNCHANGED <<rows, drifted>>

MarkAll ==
    /\ \E x \in Comments : comment[x].note = "pending"
    /\ Replied(Comments)
    /\ UNCHANGED <<rows, talk, drifted>>

\* A request breaks off and its transaction is rolled back.
TalkDies(c) ==
    /\ talk[c].at # "idle" /\ Talk(c, NoTalk)
    /\ UNCHANGED <<rows, comment, drifted>>

-----------------------------------------------------------------------------
ReactStep(c) ==
    \/ \E m \in Members, kind \in Kinds \union {Nil} : ReactCounts(c, m, kind)
    \/ ReactCommits(c)

CommentStep(c) ==
    \/ \E w \in People, x \in Comments \union {Nil} : CommentReads(c, w, x)
    \/ \E w \in People, x \in Comments : DeleteReads(c, w, x)
    \/ \E x \in Comments : MarkReads(c, x)
    \/ CommentWrites(c) \/ DeleteCounts(c) \/ DeleteDrops(c) \/ MarkWrites(c)

TalkNext == MarkAll \/ \E c \in Talkers : ReactStep(c) \/ CommentStep(c) \/ TalkDies(c)

TalkSpec == TalkInit /\ [][TalkNext]_talkVars

-----------------------------------------------------------------------------
(* Properties. *)

\* The counts are those of the rows whenever the call that wrote them last met no other; so one
\* undisturbed reaction heals what crossing ones left wrong.  ("can never drift" is more than holds.)
CountsHeal == ~drifted => counts = Tally(reaction)

\* Orphans: live, with a deleted comment above.  They come only from a reply whose parent was
\* deleted while it was being written, and from what hangs below such a reply.
Orphans == {x \in Live : comment[x].path \ Live # {}}
ThreadsWhole == \A x \in Orphans : \E y \in comment[x].path \union {x} : comment[y].late

\* "Cannot delete a comment that has been replied to": a member's deletion takes no reply but
\* those written after the replies were counted, and orphans, which nobody is shown.
RepliesKept ==
    \A c \in Talkers :
        talk[c].at = "drop" /\ talk[c].who \in Members =>
            Subtree(talk[c].on) \ {talk[c].on} \subseteq talk[c].met \union Orphans
=============================================================================
