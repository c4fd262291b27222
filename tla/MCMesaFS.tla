------------------------------ MODULE MCMesaFS ------------------------------
(***************************************************************************)
(* MesaFS with two entries of which one fits, regions of one sector of two *)
(* bytes, files of up to two sectors, and one restart: appends begin and   *)
(* end inside a sector, a long file reaches the next one's data, and a     *)
(* directory the metadata sector.                                          *)
(***************************************************************************)
EXTENDS MesaFS, TLC

MCTexts == {<<1>>, <<2, 2, 2>>}
MCSymmetry == Permutations(Names)
=============================================================================
