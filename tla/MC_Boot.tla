------------------------------- MODULE MC_Boot -------------------------------
(***************************************************************************)
(* Boot with pages of 2, addresses below 32, low memory below 4, and the   *)
(* page manager starting at 8; a disc with the program two directories     *)
(* below its root.                                                         *)
(***************************************************************************)
EXTENDS Boot, TLC

MCName == {dev, cdrom, media, boot, saki, bootmgr, js_ske}

\* A directory and a file of the disc, and the drive
MCPaths ==
  {<<media, boot, saki>>, <<media, boot, saki, bootmgr, js_ske>>, <<dev, cdrom>>}

Record(dot, nm, file, dir, lba) ==
  [dot |-> dot, nm |-> nm, file |-> file, dir |-> dir, lba |-> lba]

MCDisc ==
  (20 :> <<Record(TRUE, <<>>, saki, TRUE, 20), Record(FALSE, <<saki>>, boot, TRUE, 21)>>) @@
  (21 :> <<Record(TRUE, <<>>, saki, TRUE, 21), Record(FALSE, <<>>, bootmgr, TRUE, 22),
          Record(FALSE, <<>>, dev, TRUE, 24)>>) @@
  (22 :> <<Record(FALSE, <<boot, js_ske>>, boot, FALSE, 23)>>)

\* Maps of up to two entries between these edges.
Edges == {0, 4, 6, 12, 18, 32, 40}
Kinds == {1, 2, 7}
Piece == {<<x, y>> \in Edges \X Edges : x < y}
EntryOf(p, t) == [base |-> p[1], limit |-> p[2] - p[1], type |-> t]
Fits(p, t) == t = 1 => \A e \in {4, 32} : p[1] >= e \/ p[2] <= e

MCMaps ==
  {<<EntryOf(p, t)>> : p \in {p \in Piece : Fits(p, 1)}, t \in Kinds} \cup
  {<<EntryOf(p, t), EntryOf(q, u)>> :
     p \in {p \in Piece : Fits(p, 1)}, t \in Kinds,
     q \in {p \in Piece : Fits(p, 1)}, u \in Kinds}

MCMemoryMaps == {m \in MCMaps : Len(m) = 2 => m[1].base + m[1].limit <= m[2].base}

-----------------------------------------------------------------------------
(* Images of 5 words, the first of which no relocation names: a section of   *)
(* code, one of data and one of zeros, and the relocations of the first two. *)

Other(type, at, size) == [type |-> type, at |-> at, size |-> size, info |-> 0, rel |-> <<>>]
Rel(target, rel) == [type |-> "REL", at |-> 5, size |-> Len(rel), info |-> target, rel |-> rel]
SymbolOf(name, shndx, value, size, weak) ==
  [name |-> name, shndx |-> shndx, value |-> value, size |-> size, weak |-> weak]

\* The sections of code and of zeros, "main", a name for the end of the data, a
\* variable of zeros and one that is COMMON, what is exported, what is not, and
\* a constant
MCSymbols ==
  <<SymbolOf("", 1, 0, 0, FALSE), SymbolOf("", 4, 0, 0, FALSE), SymbolOf("main", 1, 1, 1, FALSE),
    SymbolOf("end", 3, 2, 0, FALSE), SymbolOf("zero", 4, 1, 1, FALSE),
    SymbolOf("common", SHN_COMMON, 1, 1, FALSE), SymbolOf("malloc", SHN_UNDEF, 0, 0, FALSE),
    SymbolOf("hook", SHN_UNDEF, 0, 0, TRUE), SymbolOf("exit", SHN_UNDEF, 0, 0, FALSE),
    SymbolOf("LIMIT", SHN_ABS, 30, 0, FALSE)>>

Nameless == [MCSymbols EXCEPT ![3].name = "start"]

MCRel == [sym : DOMAIN MCSymbols, type : {"32", "PC32"}]
At(x, offset) == [sym |-> x.sym, type |-> x.type, offset |-> offset]

ImageOf(symbols, x, y, z) ==
  [section |-> (0 :> Other("NULL", 0, 0)) @@ (1 :> Other("PROGBITS", 0, 3)) @@
               (2 :> Rel(1, <<At(x, 2), At(y, 1)>>)) @@ (3 :> Other("PROGBITS", 3, 2)) @@
               (4 :> Other("NOBITS", 5, 2)) @@ (5 :> Rel(3, <<At(z, 1)>>)),
   symbol |-> symbols,
   word |-> [a \in {CONTENT + 1, CONTENT + 2, CONTENT + 4} |-> IF a = CONTENT + 1 THEN 31 ELSE 0]]

MCImages ==
  {ImageOf(MCSymbols, x, y, x) : x \in MCRel, y \in MCRel} \cup
  {ImageOf(Nameless, x, x, x) : x \in MCRel}

MCExports == "malloc" :> 3
=============================================================================
