---------------------------- MODULE MCFeedbackStore ----------------------------
(* FeedbackStore for TLC.                                                   *)
EXTENDS FeedbackStore, TLC

StoreSymmetry == Permutations(Subject)

(* One structured category and one free text.                               *)
MCCategories == {-1, 0}
MCStructuredOnly == {-1}
=============================================================================
