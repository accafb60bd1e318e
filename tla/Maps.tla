--------------------------------- MODULE Maps ---------------------------------
(* A map with the entries of another that it does not have itself. *)

f ++ g == [x \in DOMAIN f \cup DOMAIN g |-> IF x \in DOMAIN f THEN f[x] ELSE g[x]]
===============================================================================
