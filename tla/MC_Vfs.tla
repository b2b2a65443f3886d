------------------------------- MODULE MC_Vfs -------------------------------
(***************************************************************************)
(* A small name space for Vfs: two names, a disc with a directory and a    *)
(* file whose names come from an NM entry and from the record.             *)
(***************************************************************************)
EXTENDS Vfs, TLC

CONSTANTS a, b

MCName == {a, b}
MCPaths == {<<Empty>>, <<a>>, <<a, Empty>>, <<a, b>>, <<b, Empty>>}

Record(dot, nm, file, dir, lba) ==
  [dot |-> dot, nm |-> nm, file |-> file, dir |-> dir, lba |-> lba]

MCDisc == (20 :> <<Record(TRUE, <<>>, a, TRUE, 20), Record(FALSE, <<b>>, a, FALSE, 22)>>)

=============================================================================
