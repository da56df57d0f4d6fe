----------------------------- MODULE MCFFIEntry -----------------------------
(***************************************************************************)
(* A package with a library and two binaries, and two other crates of the  *)
(* same workspace that are compiled side by side.                          *)
(***************************************************************************)
EXTENDS FFIEntry, TLC

AllTargets  == <<"lib", "bin", "aux">>
Deps        == {"left", "right"}
AllChildren == {"src", "crates"}
Where       == [u \in {"lib", "bin", "aux"} |-> "src"] @@ [u \in Deps |-> "crates"]
After       == "lib" :> Deps @@ "bin" :> {"lib"} @@ "aux" :> {"right"} @@ [u \in Deps |-> {}]
Pub         == "lib" :> {"open"} @@ "bin" :> {"main"} @@ "aux" :> {"main"} @@ [u \in Deps |-> {"help"}]
Ffi         == "lib" :> {"free"} @@ "bin" :> {} @@ "aux" :> {} @@ "left" :> {"malloc"} @@ "right" :> {"calloc"}
PubFfi      == [u \in {"lib", "bin", "aux", "right"} |-> {}] @@ "left" :> {"malloc"}

OwnNames    == [u \in {"lib", "bin", "aux"} \union Deps |-> u]
=============================================================================
