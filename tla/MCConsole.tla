----------------------------- MODULE MCConsole ------------------------------
(***************************************************************************)
(* Console with lines of two characters in rows of three columns, a        *)
(* history of two, two terminals, and a buffer of three bytes that is also *)
(* opened empty, half full and full.                                       *)
(***************************************************************************)
EXTENDS Console

MCContents    == {<<>>, <<"a", NL>>, <<"a", "a", "a">>}
MCCompletions == {<<>>, <<"a", "a">>}
=============================================================================
