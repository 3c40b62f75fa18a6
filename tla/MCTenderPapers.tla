-------------------------- MODULE MCTenderPapers --------------------------
(* TenderPapers for TLC: handlers and answers are interchangeable. *)
EXTENDS TenderPapers, TLC

Symmetry == Permutations(Handlers) \cup Permutations(Answers)

\* Questions, addenda and the challenge share only the tender row and the
\* history flags: two of the three at a time are enough to find how they meet.
AtMostTwoDesks ==
  \/ challenge = "ABSENT"
  \/ addenda = <<>>
  \/ \A q \in Questions : question[q] = "ABSENT"
=============================================================================
