--------------------------- MODULE MCFeedbackChannel ---------------------------
(* FeedbackChannel for TLC.                                                  *)
EXTENDS FeedbackChannel, TLC

ChannelSymmetry == Permutations(Worker) \cup Permutations(Subject)

(* One structured category.                                                 *)
MCStructuredOnly == {-1}
=============================================================================
