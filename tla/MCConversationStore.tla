------------------------ MODULE MCConversationStore ------------------------
(* Small instances of ConversationStore. *)
EXTENDS ConversationStore, TLC

Symmetry == Permutations(Calls) \cup Permutations(Conversations)
=============================================================================
