-------------------------- MODULE MCConnectionCache --------------------------
(***************************************************************************)
(* Small instances of ConnectionCache for TLC. Connections and handlers    *)
(* are interchangeable; symmetry is used by the safety runs only.          *)
(***************************************************************************)
EXTENDS ConnectionCacheRefinement, TLC

Symmetry == Permutations(Conns) \cup Permutations(Workers \ Getters)
                                \cup Permutations(Backends)
=============================================================================
