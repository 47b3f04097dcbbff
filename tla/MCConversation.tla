--------------------------- MODULE MCConversation ---------------------------
(* An instance of Conversation for TLC.                                    *)
EXTENDS Conversation, TLC

CONSTANTS p, s, m

MCTopic == p :> 1 @@ s :> 1
MCLists == {<<>>, <<2, 0, 1>>}
=============================================================================
