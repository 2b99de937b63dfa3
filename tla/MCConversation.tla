---------------------------- MODULE MCConversation ----------------------------
EXTENDS Conversation, TLC

Symmetry == Permutations(Turns)
=============================================================================
