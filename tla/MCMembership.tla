---------------------------- MODULE MCMembership ----------------------------
\* Membership for TLC: two followers of one leader, and one follower that moves
\* between two leaders.
EXTENDS Membership

CONSTANTS l1, l2, f1, f2

Small == {<<{l1}, {f1, f2}>>, <<{l1, l2}, {f1}>>}
=============================================================================
