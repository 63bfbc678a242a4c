---------------------------- MODULE MCRouteTrie ----------------------------
(* Every table of up to MaxRoutes rows, prefixes of every length included. *)
EXTENDS RouteTrie

CONSTANT MaxRoutes

AllPrefixes == UNION {[1 .. n -> Bit] : n \in 0 .. Width}
AllRows == [prefix : AllPrefixes]
AllTables == UNION {[1 .. n -> AllRows] : n \in 0 .. MaxRoutes}
=============================================================================
