---------------------------- MODULE MCCgiManager ----------------------------
(* Small instances of CgiManager for TLC.                                  *)
EXTENDS CgiExchange, TLC

\* One client and a launch, which takes six descriptors and keeps three.
MCSevenFds == 0 .. 6

\* Two clients: a launch fails where the other one's script has all its pipes,
\* and succeeds where that script has ended but for its output.
MCNineFds == 0 .. 8

Symmetric == Permutations(Pids)
=============================================================================
