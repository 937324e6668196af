------------------------------ MODULE MCServer ------------------------------
(* Server for TLC. *)
EXTENDS Server, TLC

ServerFaults == {"crash", "commit", "document"}
NoFaults == {}

\* Clients and names are interchangeable.
Symmetry == Permutations(Clients)

=============================================================================
