-------------------------- MODULE MCServeProcess ---------------------------
(***************************************************************************)
(* A main file and an included token file.  A file with text x does not    *)
(* parse.  Main b with tokens a loads and cannot be built: it needs a CA   *)
(* file that is not there.  Main a with tokens b is accepted, also when    *)
(* the loop read the two files on both sides of an edit.                   *)
(***************************************************************************)
EXTENDS ServeProcess

MCFiles == <<"main", "tokens">>
Both(m, t) == [f \in {"main", "tokens"} |-> IF f = "main" THEN m ELSE t]

MCBuildable == {Both("a", "a"), Both("b", "b"), Both("a", "b")}
MCLoadable  == MCBuildable \cup {Both("b", "a")}

=============================================================================
