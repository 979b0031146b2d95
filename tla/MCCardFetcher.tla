----------------------------- MODULE MCCardFetcher -----------------------------
(* Instance of CardFetcher for TLC. *)
EXTENDS CardFetcher, TLC

Symmetry == Permutations(Fetches)
================================================================================
