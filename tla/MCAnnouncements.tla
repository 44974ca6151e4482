---------------------------- MODULE MCAnnouncements ----------------------------
(***************************************************************************)
(* Announcements for TLC: model values.                                    *)
(***************************************************************************)
EXTENDS Announcements, TLC

CONSTANTS ann, bob, f1, f2, c1

\* Everyone, or everyone but the member who left or muted posts.
MCAudiences == {{ann, bob}, {ann}}

=============================================================================
