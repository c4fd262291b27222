---------------------------- MODULE MCFileShell -----------------------------
(***************************************************************************)
(* FileShell with two bytes per frame, the two files of the boot code and  *)
(* up to two more: texts of one and two bytes reach the end of a frame     *)
(* exactly and go past it.                                                 *)
(***************************************************************************)
EXTENDS FileShell

MCTexts == {<<1>>, <<2, 2>>}
MCReadme == <<1>>
MCPaths == {Typed("readme"), [Typed("readme") EXCEPT !.abs = TRUE], Typed("a")}
=============================================================================
