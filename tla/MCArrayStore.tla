---------------------------- MODULE MCArrayStore ----------------------------
(* ArrayStore with the constants of the ArrayStore*.cfg files. *)
EXTENDS ArrayStore
====
