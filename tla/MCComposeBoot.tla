--------------------------- MODULE MCComposeBoot ----------------------------
(* Small instances of ComposeBoot for TLC.                                 *)
EXTENDS ComposeBoot

\* Stops before any step.
MCEverywhere == DbSteps \cup WpSteps
=============================================================================
