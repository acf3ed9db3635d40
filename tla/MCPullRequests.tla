--------------------------- MODULE MCPullRequests ---------------------------
(* Instances of PullRequests for TLC. *)
EXTENDS PullRequests, TLC

CONSTANTS p1, p2, main, h1, h2, c0, c1, c2

\* Two pull requests against main, each with a head of its own.
ToMain == [p \in PRs |-> main]
OwnHead == [p \in PRs |-> IF p = p1 THEN h1 ELSE h2]
OwnTarget == [c \in Changes |-> CASE c = c0 -> main [] c = c1 -> h1 [] c = c2 -> h2]
HeadsClash == {{c1, c2}}
NoClash == {}
OneReview == [b \in Branches |-> IF b = main THEN 1 ELSE 0]
NoReview == [b \in Branches |-> 0]
SymRequests == Permutations(Requests)
=============================================================================
