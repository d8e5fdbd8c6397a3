------------------------------ MODULE MCSignal ------------------------------
(* Instance of WinSignal for TLC: two handlers that share a signal.        *)
EXTENDS WinSignal, TLC

CONSTANTS s1, s2, h1, h2

SignalSets == h1 :> {s1, s2} @@ h2 :> {s2}

Interchangeable == Permutations(Ops) \cup Permutations(Threads \ {main})
=============================================================================
