-------------------------- MODULE MCBenchmarkRunner --------------------------
(* BenchmarkRunner for TLC: two runners started on one campaign of three     *)
(* samples, so that a stop can have samples before it and behind it.         *)
EXTENDS BenchmarkRunner

CONSTANTS r1, r2
=============================================================================
