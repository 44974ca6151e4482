---------------------------- MODULE MCPostPage ----------------------------
(***************************************************************************)
(* PostPage for TLC.  Pins, reactions and comments are explored one at a   *)
(* time: they share no variable that changes, so steps of two of them      *)
(* commute.  Comments get their ids in one order, and one of the members   *)
(* writes none.  States that differ only in the names of posts, calls or   *)
(* talkers are taken for one: a VIEW does for these sets what SYMMETRY     *)
(* would, many times faster.                                               *)
(***************************************************************************)
EXTENDS PostPage

CONSTANTS p1, p2, p3, p4, c1, c2, ann, bob, adm, like, x1, x2, x3, h1, h2

PinsStill      == <<slot, live, call, raced>> = <<Nobody, Posts, [c \in Calls |-> NoCall], FALSE>>
ReactionsStill == /\ <<reaction, counts, drifted>> = <<[m \in Members |-> Nil], Zero, FALSE>>
                  /\ \A h \in Talkers : talk[h].at # "react"
CommentsStill  == /\ comment = [x \in Comments |-> NoRow]
                  /\ \A h \in Talkers : talk[h].at \in {"idle", "react"}

OneAtATime == \/ PinsStill /\ ReactionsStill
              \/ PinsStill /\ CommentsStill
              \/ ReactionsStill /\ CommentsStill

InOrder == \A i, j \in 1 .. 3 : i < j /\ comment[<<x1, x2, x3>>[j]] # NoRow => comment[<<x1, x2, x3>>[i]] # NoRow

OneWriter == \A h \in Talkers : talk[h].who = bob => talk[h].at = "react"

MCBound == OneAtATime /\ InOrder /\ OneWriter

\* All of the state with no name of a post, a call or a talker in it.
Tallied(f) == [v \in {f[i] : i \in DOMAIN f} |-> Cardinality({i \in DOMAIN f : f[i] = v})]

OfCall(c)    == <<call[c].at, call[c].kind, call[c].saw, call[c].met>>
Pin(p, c, d) == <<slot[p], p \in live, call[c].post = p, call[c].list[p], call[d].post = p, call[d].list[p]>>
Pins(c, d)   == <<OfCall(c), OfCall(d), Tallied(<<Pin(p1, c, d), Pin(p2, c, d), Pin(p3, c, d), Pin(p4, c, d)>>)>>

MCView == <<{Pins(c1, c2), Pins(c2, c1)}, raced, rows, comment, Tallied(talk), drifted>>
=============================================================================
