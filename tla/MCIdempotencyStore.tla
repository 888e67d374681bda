------------------------- MODULE MCIdempotencyStore -------------------------
(* Small instances of IdempotencyStore for TLC: calls, payloads and processes *)
(* are model values, interchangeable where a run checks only safety.          *)
EXTENDS IdempotencyStore, TLC

Interchangeable == Permutations(Calls) \cup Permutations(Payloads)
=============================================================================
