--------------------------- MODULE MCLeaderTables ---------------------------
\* LeaderTables for TLC: two groups of two, and latencies whose sums differ.
EXTENDS LeaderTables

CONSTANTS l1, l2, f1, f2

HomeOf(n) == CASE n \in {l1, f1} -> l1 [] n \in {l2, f2} -> l2
LatencyOf(a, b) == CASE {a, b} = {l1, f1} -> 1 [] {a, b} = {l1, l2} -> 10 [] {a, b} = {l2, f2} -> 100
SomeTests == {<<f1, l1, "latency">>, <<l1, f1, "bandwidth">>, <<l1, l2, "latency">>,
              <<f2, l2, "latency">>}
=============================================================================
