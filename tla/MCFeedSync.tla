----------------------------- MODULE MCFeedSync -----------------------------
(* Small instances of FeedSync for TLC. *)
EXTENDS FeedSync

OnlyFill == {YespornFill}
=============================================================================
