-------------------------------- MODULE MCDir --------------------------------
(* Instances of FatDir: directories two deep in the root. *)
EXTENDS FatDir, TLC

MCPaths == {<<>>, <<"d">>, <<"f">>, <<"d", "f">>}

\* No call reads the result of an earlier one.
WithoutResult == <<root_cluster, fat, disk>>
==============================================================================
