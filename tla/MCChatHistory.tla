---------------------------- MODULE MCChatHistory ----------------------------
(* ChatHistory for TLC: connections and nicknames are interchangeable. *)
EXTENDS ChatHistory, TLC

Symmetry == Permutations(Sessions) \union Permutations(Nicknames)
=============================================================================
