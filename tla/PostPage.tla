-------------------------------- MODULE PostPage --------------------------------
(***************************************************************************)
(* The posts page of a community: its pinned posts, and the talk under one *)
(* post.  They are other rows written by other requests.                   *)
(***************************************************************************)
EXTENDS PinnedPosts, PostTalk

PageInit == Init /\ TalkInit

PageNext == \/ Next /\ UNCHANGED talkVars
            \/ TalkNext /\ UNCHANGED vars

PageSpec == PageInit /\ [][PageNext]_<<vars, talkVars>>
=============================================================================
