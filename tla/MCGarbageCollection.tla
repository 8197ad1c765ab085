-------------------------- MODULE MCGarbageCollection --------------------------
(* GarbageCollection for TLC: package a depends on package d and has the    *)
(* layer l and the manifest m; d shares the layer; i is an image index that *)
(* lists m; s is a's shim; c is the companion that patches a, g the global  *)
(* patch descriptor; one project.                                           *)
EXTENDS GarbageCollection, TLC

MCRefs ==
    "a" :> {"d", "l", "m"} @@ "c" :> {} @@ "d" :> {"l"} @@ "s" :> {"m"}
    @@ [o \in {"l", "m", "i", "g"} |-> {}]
MCLeaves == "m" :> {} @@ "g" :> {} @@ "i" :> {"m"}
MCTiers == "a" :> {"a", "s"} @@ "c" :> {"c"} @@ "d" :> {"d"}
MCPatchRoots == "a" :> {"c"} @@ "c" :> {} @@ "d" :> {}
================================================================================
