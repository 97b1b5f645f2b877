-------------------------------- MODULE MCMux --------------------------------
(* Instances of Mux for TLC. *)
EXTENDS Mux

CONSTANTS i1, i2, k1, k2

\* Two configurations for the first interceptor: giving both, or one of them twice, is
\* a panic.
MCMatch == {<<i1, k1>>, <<i1, k2>>}
MCPassed == {<<k1>>, <<k2>>, <<k1, k2>>}
MCPassedToDefault == {<<k1, k1>>}
=============================================================================
