---------------------------- MODULE MCEventLoop -----------------------------
(* Small instances of EventLoop for TLC.                                   *)
EXTENDS EventLoop

\* A connection with a script, and room for more than it needs.
MCNineFds == 1 .. 9

\* Two connections, of which one can have its script: the other's launch fails
\* half-way and leaves no room for a connection.
MCEightFds == 1 .. 8

\* Three connections with a file or a script each.
MCFourteenFds == 1 .. 14

\* Where MCStale looks: one script that has not answered, a peer that asks for
\* nothing, and nobody has left.
MCOneSilentScript ==
    /\ \E p \in Peers : peer[p].asked = 0
    /\ \A p \in Peers : peer[p].st = "away" => peer[p].asked = 0
    /\ Cardinality({f \in Fds : srv.script[f].st # "none"}) <= 1
    /\ \A f \in Fds : ~srv.script[f].headers_complete

MCSymmetric == Permutations(Peers)
=============================================================================
