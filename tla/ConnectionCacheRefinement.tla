---------------------- MODULE ConnectionCacheRefinement ----------------------
(***************************************************************************)
(* ConnectionCache implements BackendPool: a worker holds a connection     *)
(* from the moment getEntry returns until release has dropped the pin.     *)
(***************************************************************************)
EXTENDS ConnectionCache

Holds == [w \in Workers |-> IF pc[w] \in HandedOut THEN entry[w] ELSE Nil]

Pool == INSTANCE BackendPool WITH holds <- Holds

(* Every step of the goroutines, the sweeper, Remove and Close is a step   *)
(* of the pool or invisible to it; in particular the connection a worker   *)
(* is given was in the map at that moment, and the sweeper closes only     *)
(* what nobody holds.                                                      *)
ImplementsPool == Pool!Spec
=============================================================================
