---------------------------- MODULE MCLeaderMesh ----------------------------
\* LeaderMesh for TLC: all nodes are interchangeable.
EXTENDS LeaderMesh, TLC

CONSTANT MaxOdd  \* bound on the rows left over or missing at the start

\* Rows of nodes that are no leaders any more, and rows of leaders that are missing.
Odd == {e \in Node \X Node : (e[2] \in rows[e[1]]) # ({e[1], e[2]} \subseteq first)}

\* Losses are tried from complete tables only.
FewFaults == Cardinality(Odd) <= IF lost = 0 THEN MaxOdd ELSE 0

Interchangeable == Permutations(Node)
=============================================================================
