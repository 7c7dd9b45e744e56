------------------------------ MODULE MCArena ------------------------------
(***************************************************************************)
(* One shard's arena on its own, with the request sizes and block bounds  *)
(* of the cfg; node sets are finite tuples and Nil a model value.         *)
(***************************************************************************)
EXTENDS Arena
====
