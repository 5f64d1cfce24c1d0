--------------------------- MODULE MCAssetServer ---------------------------
(* x needs y and z, and y needs z: the loaders of x and y race for z. *)
EXTENDS AssetServer, TLC
CONSTANTS x, y, z

MCPaths == {x, y, z}
MCEntries == (x :> 1) @@ (y :> 1) @@ (z :> 1)
MCDeps == (x :> {y, z}) @@ (y :> {z}) @@ (z :> {})
=============================================================================
