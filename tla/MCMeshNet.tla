------------------------------ MODULE MCMeshNet ------------------------------
(* A chain of three boards: the root r, a below it, b below a.               *)
EXTENDS MeshNet

CONSTANTS r, a, b

MCNodes  == {r, a, b}
MCUplink == [n \in {a, b} |-> IF n = a THEN r ELSE a]
MCBytes  == 0 .. 3
\* No id reads the same in both byte orders, except the 0 of the server.
MCIds == [n \in MCNodes \cup {None} |->
            CASE n = r -> <<1, 0>> [] n = a -> <<2, 0>> [] n = b -> <<3, 0>>
              [] n = None -> <<0, 0>>]
MCReadings == [n \in MCNodes |-> IF n = r THEN 0 ELSE 1]
MCAggregates == SUBSET (UNION {{n} \X (1 .. MCReadings[n]) : n \in MCNodes})
=============================================================================
