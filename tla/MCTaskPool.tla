----------------------------- MODULE MCTaskPool -----------------------------
(* TaskPool with the constants of the TaskPool*.cfg files. *)
EXTENDS TaskPool, TLC

\* Clients are interchangeable: no step looks at which client it is.
ClientSymmetry == Permutations(Clients)
====
