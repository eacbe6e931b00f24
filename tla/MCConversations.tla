--------------------------- MODULE MCConversations ---------------------------
(* Instances of Conversations for TLC. *)
EXTENDS MCSubscriptionSystem, Conversations

CONSTANTS q1, q2

\* All questions come from the sender of the screenshots.
MCAsker == [q \in Question |-> u1]

\* With one asker and one sender, their messages are interchangeable.
ConversationSymmetry == Symmetry \cup Permutations(Question) \cup Permutations(Message)

=============================================================================
