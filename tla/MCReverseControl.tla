-------------------------- MODULE MCReverseControl --------------------------
(***************************************************************************)
(* ReverseControl for TLC: clients and hosts are interchangeable, as no    *)
(* action or invariant of it names one.                                    *)
(***************************************************************************)
EXTENDS ReverseControl, TLC

Symmetry == Permutations(Clients) \cup Permutations(Hosts)

(* Rival clients are explored with tcp; tcpmux takes the same steps with a  *)
(* mux version besides, and is explored with one client at a time.          *)
OneMuxClient ==
  transport = "tcpmux" => Cardinality({k \in Clients : clients[k].st # "down"}) <= 1
=============================================================================
