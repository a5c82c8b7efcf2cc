--------------------------- MODULE MCChatAndReview ---------------------------
(* One proposal; four chats in the sidebar, two on screen. *)
EXTENDS ChatAndReview
CONSTANT p1
=============================================================================
