----------------------------- MODULE MCChatStore -----------------------------
(* Two chats: the first is asked with text, twice, the second without.      *)
EXTENDS ChatStore, TLC

TwoChats == {1, 2}
MessageChats == "q1" :> 1 @@ "p1" :> 1 @@ "i2" :> 2
Symmetry == Permutations(Requests) \cup Permutations(Deletions)
=============================================================================
