-------------------------------- MODULE Elf --------------------------------
(***************************************************************************)
(* bootmgr/elf32.c: the linking of an image that was read into memory, one *)
(* relocation at a time, and the look for its "main".                      *)
(*                                                                         *)
(* A word is one address wide.  An image is the image file's tables:       *)
(*   section   [0..n -> [type, at, size, info, rel]], where at is the      *)
(*             offset in the file, and info and rel are those of a "REL"   *)
(*   symbol    the symbol table: a sequence of [name, value, size, weak,   *)
(*             shndx]                                                      *)
(*   word      the words that relocations name, by address                 *)
(***************************************************************************)
EXTENDS Naturals, Sequences, FiniteSets

CONSTANTS
  Images,
  Exports,          \* what main exports: names and their addresses
  CONTENT,          \* where the image is in memory
  HEAP,             \* the addresses that malloc may give out
  MAX_SIZE,         \* the largest request that malloc asserts it can serve
  ADDRESS_SPACE,    \* 2 ^ 32
  SHN_UNDEF, SHN_ABS, SHN_COMMON,
  Astray            \* an address made of what is behind the image

VARIABLES
  image,            \* the tables as they were read
  symbol, word,     \* and as linking changes them
  symbolMap,
  place,            \* the loops' variables: the section and its relocation
  storage,          \* what malloc gave for a symbol: [symbol -> first address]
  entrance

elf == <<image, symbol, word, symbolMap, place, storage, entrance>>

NoImage == [section |-> <<>>, symbol |-> <<>>, word |-> <<>>]
Start == [section |-> 0, rel |-> 1]

Section == [type : STRING, at : Nat, size : Nat, info : Nat,
            rel : Seq([sym : Nat, type : {"32", "PC32"}, offset : Nat])]
Symbol == [name : STRING, value : Nat, size : Nat, weak : BOOLEAN, shndx : Nat]

\* Relocations name symbols of the table, and each a word of its own.  "main"
\* is in a section of the file.
WellFormed(im) ==
  /\ DOMAIN im.section \subseteq Nat /\ SHN_ABS \notin DOMAIN im.section
  /\ \A s \in DOMAIN im.section : im.section[s] \in Section
  /\ im.symbol \in Seq(Symbol) /\ im.word \in [DOMAIN im.word -> Nat]
  /\ \A s, t \in DOMAIN im.section :
       /\ im.section[s].type = "REL" => im.section[s].info \in DOMAIN im.section
       /\ im.section[s].type # "REL" => im.section[s].rel = <<>>
       /\ \A r \in DOMAIN im.section[s].rel, q \in DOMAIN im.section[t].rel :
            /\ im.section[s].rel[r].sym \in DOMAIN im.symbol
            /\ im.section[im.section[s].info].at + im.section[s].rel[r].offset =
               im.section[im.section[t].info].at + im.section[t].rel[q].offset => s = t /\ r = q
  /\ \A n \in DOMAIN im.symbol : im.symbol[n].name = "main" =>
       /\ im.symbol[n].shndx \in DOMAIN im.section \ {SHN_UNDEF, SHN_COMMON}
       /\ im.section[im.symbol[n].shndx].type # "NOBITS"

ASSUME ImageAssumption ==
  /\ MAX_SIZE \in Nat
  /\ SHN_UNDEF = 0 /\ SHN_ABS \notin {SHN_UNDEF, SHN_COMMON} /\ CONTENT \in Nat
  /\ \A im \in Images : WellFormed(im)

-----------------------------------------------------------------------------
ElfInit ==
  /\ image = NoImage /\ symbol = <<>> /\ word = <<>> /\ symbolMap = <<>>
  /\ place = Start /\ storage = <<>> /\ entrance = 0

\* add_symbol of all that main exports; symbolMap is a hash map.
AddSymbols ==
  /\ symbolMap' = Exports
  /\ UNCHANGED <<image, symbol, word, place, storage, entrance>>

\* The file is read to CONTENT.
LoadImage(im) ==
  /\ image' = im /\ symbol' = im.symbol /\ word' = im.word
  /\ place' = Start /\ storage' = <<>> /\ entrance' = 0
  /\ UNCHANGED symbolMap

\* ELF32_SH_CONTENT
Content(s) == CONTENT + image.section[s].at

Size(n) == IF symbol[n].shndx = SHN_COMMON THEN symbol[n].size
           ELSE image.section[symbol[n].shndx].size

Taken == {a \in HEAP : \E n \in DOMAIN storage : a \in storage[n].first..storage[n].last}

\* malloc: anywhere in what is free
Malloc(size) == {a \in HEAP : a..(a + size - 1) \subseteq HEAP \ Taken}

\* A symbol without a place in the file: COMMON, or of a section of zeros, of
\* which each symbol gets a whole one of its own.
Unplaced(s) ==
  \/ s.shndx = SHN_COMMON
  \/ s.shndx \in DOMAIN image.section \ {SHN_UNDEF} /\ image.section[s.shndx].type = "NOBITS"

\* The addresses that resolve_symbol may return: none where it asserts or the
\* memory is out.
Resolved(n) ==
  LET s == symbol[n]
  IN  CASE s.shndx = SHN_ABS -> {s.value}
        [] s.shndx = SHN_UNDEF ->
             IF s.name \in DOMAIN symbolMap THEN {symbolMap[s.name]} ELSE IF s.weak THEN {0} ELSE {}
        [] Unplaced(s) -> Malloc(Size(n))
        [] OTHER -> {Content(s.shndx) + s.value}

\* Mutants: nothing is cached, and the address alone.
CachedNot(s, address) == s
CachedAddress(s, address) == [s EXCEPT !.value = address]

Cached(s, address) == [s EXCEPT !.shndx = SHN_ABS, !.value = address]

Relocation == image.section[place.section].rel[place.rel]
Pending ==
  /\ place.section \in DOMAIN image.section
  /\ image.section[place.section].type = "REL"
  /\ place.rel <= Len(image.section[place.section].rel)

Ref(s, rel) == Content(image.section[s].info) + rel.offset

\* R_386_PC32, or R_386_32: S + A - P, or S + A
Relocated(rel, S, A, P) ==
  (S + A + (IF rel.type = "PC32" THEN ADDRESS_SPACE - P ELSE 0)) % ADDRESS_SPACE

\* One turn of the loop over a section's relocations
Relocate ==
  /\ Pending
  /\ \E S \in Resolved(Relocation.sym) :
       LET n == Relocation.sym
           P == Ref(place.section, Relocation)
       IN  /\ word' = [word EXCEPT ![P] = Relocated(Relocation, S, @, P)]
           /\ symbol' = [symbol EXCEPT ![n] = Cached(@, S)]
           /\ storage' = IF Unplaced(symbol[n])
                           THEN [m \in DOMAIN storage \cup {n} |->
                                   IF m = n THEN [first |-> S, last |-> S + Size(n) - 1] ELSE storage[m]]
                           ELSE storage
  /\ place' = [place EXCEPT !.rel = @ + 1]
  /\ UNCHANGED <<image, symbolMap, entrance>>

\* malloc does not look at what it gets for a big request: nothing, and the
\* symbol's bytes are cleared from address 8 on.
Refused ==
  /\ Pending /\ Unplaced(symbol[Relocation.sym])
  /\ Size(Relocation.sym) > MAX_SIZE /\ Malloc(Size(Relocation.sym)) = {}

\* assert(0): no such symbol; or malloc's, for a small request
Unresolved == Pending /\ ~Refused /\ Resolved(Relocation.sym) = {}

NextSection ==
  /\ place.section \in DOMAIN image.section /\ ~Pending
  /\ place' = [section |-> place.section + 1, rel |-> 1]
  /\ UNCHANGED <<image, symbol, word, symbolMap, storage, entrance>>

Linked == place.section \notin DOMAIN image.section

Mains == {n \in DOMAIN symbol : symbol[n].name = "main"}
LastMain == {n \in Mains : \A m \in Mains : m <= n}

\* Mutant: the section's start.
SectionOf(s) == IF s.shndx \in DOMAIN image.section THEN Content(s.shndx) ELSE Astray

\* exec_elf32 takes the section that the symbol has by now.
Entrance(s) == IF s.shndx \in DOMAIN image.section THEN Content(s.shndx) + s.value ELSE Astray

FindMain ==
  /\ \E n \in LastMain : entrance' = Entrance(symbol[n])
  /\ UNCHANGED <<image, symbol, word, symbolMap, place, storage>>

\* The program runs: its image is its own affair from here on.
Enter ==
  /\ image' = NoImage /\ symbol' = <<>> /\ word' = <<>> /\ storage' = <<>>
  /\ place' = Start /\ entrance' = 0
  /\ UNCHANGED symbolMap

-----------------------------------------------------------------------------
(* Properties *)

\* The relocations behind the loops
BehindIn(s) ==
  {r \in DOMAIN image.section[s].rel :
     s < place.section \/ (s = place.section /\ r < place.rel)}
Behind == UNION {{<<s, r>> : r \in BehindIn(s)} : s \in DOMAIN image.section}

\* Where a symbol is to be found, by the tables as they were read
Home(n) ==
  LET s == image.symbol[n]
  IN  IF Unplaced(s) THEN storage[n].first
      ELSE IF s.shndx = SHN_ABS THEN s.value
      ELSE IF s.shndx # SHN_UNDEF THEN Content(s.shndx) + s.value
      ELSE IF s.name \in DOMAIN Exports THEN Exports[s.name] ELSE 0

\* Every word whose relocation is done holds what its symbol, found at one and
\* the same address by all its relocations, and its addend say, and no other
\* word is touched yet: in any order of relocations and however the addresses
\* that resolve_symbol caches in the table came there.
LinkedRight ==
  \A a \in DOMAIN word :
    LET done == {x \in Behind : Ref(x[1], image.section[x[1]].rel[x[2]]) = a}
        meant == {LET rel == image.section[x[1]].rel[x[2]]
                  IN  Relocated(rel, Home(rel.sym), image.word[a], a) : x \in done}
    IN  IF done = {} THEN word[a] = image.word[a] ELSE {word[a]} = meant

\* The program is entered where the last "main" of its table was before it was
\* linked.  Only a relocation that names that symbol keeps it from that: the
\* address cached for it stands where exec_elf32 looks for its section.
EntersMain ==
  entrance # 0 =>
    \E n \in LastMain :
      \/ entrance = Home(n)
      \/ \E x \in Behind : image.section[x[1]].rel[x[2]].sym = n
=============================================================================
