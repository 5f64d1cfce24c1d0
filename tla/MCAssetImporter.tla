-------------------------- MODULE MCAssetImporter --------------------------
(* A scene is made from a mesh, and the mesh from an image, which is copied. *)
EXTENDS AssetImporter

CONSTANTS scene, mesh, image

MCPaths == {scene, mesh, image}
MCKind == [p \in MCPaths |-> IF p = image THEN "copy" ELSE "process"]
MCReads == [p \in MCPaths |->
    [x \in Contents |-> IF p = scene THEN {mesh} ELSE IF p = mesh THEN {image} ELSE {}]]
Tree(x, y, z) == [p \in MCPaths |-> IF p = scene THEN x ELSE IF p = mesh THEN y ELSE z]
MCTrees == {Tree(1, 1, 2)}
MCOldTrees == {Tree(0, 0, 0), Tree(1, 1, 1)}
=============================================================================
