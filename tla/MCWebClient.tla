----------------------------- MODULE MCWebClient -----------------------------
(* Two requests at a time; timers and requests are interchangeable. *)
EXTENDS WebClient, TLC

Symmetry == Permutations(Block) \union Permutations(Req)
=============================================================================
