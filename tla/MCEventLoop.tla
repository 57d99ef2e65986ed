---------------------------- MODULE MCEventLoop -----------------------------
(* Instances of EventLoop for TLC.                                         *)
EXTENDS EventLoop, TLC

\* With and without a pending timer.
AnyTimeout == {-1, 1}

\* The masks of a server that only reads, and these or both events.
ReadMask == {{"RDABLE"}}
TwoMask == {{"RDABLE"}, Event}

\* Sockets become ready at any time, or only while the loop polls.
AnyTime == {"idle", "poll", "batch", "rcb", "wcb", "timers"}
WhilePolling == {"poll"}

Symmetry == Permutations(Conn)
=============================================================================
