----------------------------- MODULE BackendPool -----------------------------
(***************************************************************************)
(* What the connection cache promises to the rest of the proxy, without    *)
(* timestamps, counters, locks and sweeps: one open connection for each    *)
(* backend at most, all of them reachable for Remove and Close, and an     *)
(* eviction that never takes away a connection somebody holds.  Remove and *)
(* Close make no such promise.                                             *)
(***************************************************************************)
CONSTANTS Backends, Conns, Workers, Nil

VARIABLES
  conns,   (* The open connection to each backend.                         *)
  dialed,  (* Connections created so far.                                  *)
  closed,  (* Those of them that were closed.                              *)
  evicted, (* Those of them that the pool closed on its own.               *)
  holds    (* The connection each worker has been given and not returned.  *)

vars == <<conns, dialed, closed, evicted, holds>>

Init ==
  /\ conns = [b \in Backends |-> Nil]
  /\ dialed = {} /\ closed = {} /\ evicted = {}
  /\ holds = [w \in Workers |-> Nil]

(* The pool has no connection to b, and c is a new one.                    *)
Connect(b, c) ==
  /\ conns[b] = Nil /\ c \in Conns \ dialed
  /\ conns' = [conns EXCEPT ![b] = c]
  /\ dialed' = dialed \cup {c}
  /\ UNCHANGED <<closed, evicted>>

(* A worker is given the connection to b: the one there is ...             *)
Hold(w, b) ==
  /\ holds[w] = Nil /\ conns[b] # Nil
  /\ holds' = [holds EXCEPT ![w] = conns[b]]
  /\ UNCHANGED <<conns, dialed, closed, evicted>>

(* ... or a new one ...                                                    *)
HoldNew(w, b, c) ==
  /\ holds[w] = Nil /\ Connect(b, c)
  /\ holds' = [holds EXCEPT ![w] = c]

(* ... or a caller of Get has one made and holds nothing.                  *)
Provide(b, c) == Connect(b, c) /\ UNCHANGED holds

GiveBack(w) ==
  /\ holds[w] # Nil
  /\ holds' = [holds EXCEPT ![w] = Nil]
  /\ UNCHANGED <<conns, dialed, closed, evicted>>

Drop(b) ==
  /\ conns[b] # Nil
  /\ closed' = closed \cup {conns[b]}
  /\ conns' = [conns EXCEPT ![b] = Nil]
  /\ UNCHANGED <<dialed, holds>>

(* Eviction of an idle connection: nobody holds it.                        *)
Evict(b) ==
  /\ Drop(b)
  /\ \A w \in Workers : holds[w] # conns[b]
  /\ evicted' = evicted \cup {conns[b]}

(* Removal by a caller who knows that the backend is gone.                 *)
Remove(b) == Drop(b) /\ UNCHANGED evicted

(* All connections are closed at once.                                     *)
Close ==
  /\ closed' = closed \cup ({conns[b] : b \in Backends} \ {Nil})
  /\ conns' = [b \in Backends |-> Nil]
  /\ UNCHANGED <<dialed, evicted, holds>>

Next ==
  \/ \E w \in Workers : GiveBack(w)
  \/ \E w \in Workers, b \in Backends : Hold(w, b)
  \/ \E w \in Workers, b \in Backends, c \in Conns : HoldNew(w, b, c)
  \/ \E b \in Backends, c \in Conns : Provide(b, c)
  \/ \E b \in Backends : Evict(b) \/ Remove(b)
  \/ Close

Spec == Init /\ [][Next]_vars
=============================================================================
