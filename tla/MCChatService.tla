---------------------------- MODULE MCChatService ----------------------------
(* ChatService for TLC: connections and nicknames are interchangeable. *)
EXTENDS ChatService, TLC

Symmetry == Permutations(Sessions) \union Permutations(Nicknames)
=============================================================================
