---------------------------- MODULE MCLaneAgents ----------------------------
EXTENDS LaneAgents
CONSTANTS r1, h1, s1, c1
OneService == [c \in Run \cup Hand |-> s1]
\* What happens after operations overlapped is of no interest to a property
\* that speaks of lanes whose operations did not.
Uncrossed == ~crossed
=============================================================================
