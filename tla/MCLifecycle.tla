----------------------------- MODULE MCLifecycle -----------------------------
(* Both listeners of tls_enable = yes_both, with two clients for the       *)
(* safety properties and with one for the liveness properties.  Nothing    *)
(* tells the listeners or the clients apart, so the safety run may use     *)
(* their symmetry.                                                         *)
EXTENDS Lifecycle, TLC

CONSTANTS finger, fingers, c1, c2
MCModes == {finger, fingers}
TwoConns == {c1, c2}
OneConn == {c1}
Symmetry == Permutations(MCModes) \cup Permutations(TwoConns)
=============================================================================
