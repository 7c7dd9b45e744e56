---------------------------- MODULE MCJoinView ------------------------------
(***************************************************************************)
(* JoinView for TLC: two keys in each table, so that an R row can join    *)
(* two L rows and an L row can move between R rows.                       *)
(***************************************************************************)
EXTENDS JoinView

MCLPks == 1 .. 2
MCRPks == 1 .. 2
====
