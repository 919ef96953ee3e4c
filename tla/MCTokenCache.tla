---------------------------- MODULE MCTokenCache ----------------------------
(* A small instance of TokenCache. *)
EXTENDS TokenCache, TLC

\* One token that never expires and one that does at the next tick.
TtlsBounded == {None, 1}

\* Tokens and session ids are random values and callers run the same code.
Interchangeable == Permutations(Tokens) \cup Permutations(Sids) \cup Permutations(Callers)
=============================================================================
