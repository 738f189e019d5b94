---------------------------- MODULE MCLspServer ----------------------------
(* Two files for LspServer: one the user edits, one that is only ever on   *)
(* disk.                                                                   *)
EXTENDS LspServer

CONSTANTS main, lib, old, new

MCFiles     == {main, lib}
MCWalkOrder == <<lib, main>>
MCTexts     == {old, new}

MCUris      == {"main", "lib"}
MCUriToPath == [u \in MCUris |-> IF u = "lib" THEN lib ELSE main]
MCPathToUri == [f \in MCFiles |-> IF f = lib THEN "lib" ELSE "main"]
MCEditable  == {main}
=============================================================================
