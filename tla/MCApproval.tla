----------------------------- MODULE MCApproval -----------------------------
(* Instances of ApprovalWorkflow for model-checking.                       *)
EXTENDS ApprovalWorkflow, TLC

CONSTANTS s1, s2

AllKinds == Edits \cup Decisions \cup {"submit", "resend"}

\* One of each pair of requests that differ only in the column they write.
ConcurrentKinds == AllKinds \ {"pacing", "assets", "reject", "reject_link"}

SessionSymmetry == Permutations(Sessions)
=============================================================================
