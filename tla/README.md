# SakiOS in TLA+

SakiOS is a small 32-bit system: a boot sector and an assembly loader bring up
the processor, a C program (`bootmgr`) scans the memory map, builds its own
allocators, mounts a RAM file system and the disc it finds, and links and runs
an ELF module from it, which holds a JavaScript engine (`libs/js`). There is
one thread and interrupts stay off: what is hard about this code is not
scheduling but long sequences of calls on linked, shared, hand-packed data,
recursion that works on state another frame of it is changing, devices that are
polled, and the boundaries of sizes.

Paths below are relative to `src/`.

## 1. Inventory

| Part | State it keeps | Operations | Talks to | What is hard |
|---|---|---|---|---|
| Page manager, `libs/mem-alloc/pageman.c` | per level: a list of free blocks, threaded through the free pages, and one bit per pair of buddies; `spare` | create, freeBlock (give memory), alloc, free, spare | block allocator, boot manager | alloc and free recurse over levels and call each other; one bit for two buddies; a level past the last |
| Block allocator, `libs/mem-alloc/blockalloc.c`, `libs/c-stdlib/malloc.c` | headers in the pages (`prev`, `size` with two flags in it), a free list per size class | malloc, calloc, realloc, aligned_alloc, free | page manager | split, merge and free recurse; flags share a word with sizes; fake headers of aligned addresses; refusals |
| Hash map, `libs/data-struct/hashmap.c` | chains of nodes per bucket; iterators with a pointer into a chain | new, put, get, remove, dispose, iterator, next | ELF loader, JavaScript objects | iterators that outlive changes; unlinking through the address of a link |
| Virtual file system, `bootmgr/vfs/vfs.c` | the static root; in each node a pointer to what is mounted on it | read, write, readdir, finddir, create, mkdir, lookup, mount, mount_fs | file systems | lookup makes what it does not find; pointers are followed at every call |
| ramfs, `bootmgr/vfs/ramfs.c` | an array of entries per directory | create, mkdir, readdir, create_fs | virtual file system | growth of the array |
| cdfs, `bootmgr/vfs/cdfs.c` | per directory a cache of nodes, made by the first read | readdir, read, create_fs | the drive below it | nodes must be made once; ends of files |
| ATAPI driver, `bootmgr/vfs/atapi.c` | the drive in use, the drive last selected on each bus, a sector buffer | init, read | drives | polling of status bits that mean different things at different times; reads cut at sectors |
| Boot manager, `bootmgr/main.c` | the memory map, the page manager, the mounts | main | all of the above | boundaries of the memory map; order of the mounts; every step may fail |
| ELF loader, `bootmgr/elf32.c` | the symbol table, a cache of resolved symbols | add_symbol, link and run | hash map, allocator | order of resolution, weak symbols |
| JavaScript lexer and parser, `libs/js/lex.c`, `grammar.c` | position, lookahead, line terminator flag | next token; one function per production | Unicode, objects | lookahead and automatic semicolons |
| JavaScript objects, `libs/js/object.c`, `desc.c`, `internal.c`, `ref.c`, `type.c`, `conversion.c`, `global.c` | property maps, attributes, prototypes | getProperty, put, canPut, defineOwnProperty, delete, conversions | hash map | attribute transitions; accessors against data properties; the prototype chain |
| Unicode, `libs/unicode` | none | UTF-8 and UTF-16 conversion, hash, character types | lexer | boundaries of encodings |
| Formatted output, `libs/lib-format` | none | printf | screen | the directive scanner |
| Text screen, `libs/text-video` | cursor | putchar | | scrolling |
| C library, loader, host, build files | little or none | | | |

`PROJECT.json` lists the same parts as components with the modules that model
them, and every hazard at its line with the properties that would catch it.

What makes the parts correct, in a sentence each: the page manager never has a
page in two places, never loses one, and refuses only what it cannot serve; the
block allocator's blocks tile its pages, callers' memory never overlaps and
everything comes back; the hash map is a map, and an iteration delivers what is
in it once; a path keeps leading to its node; a read of the disc returns its
bytes, from the drive that was meant; main gives the page manager memory that
exists, and ends in the program or in an assertion; a linked word holds what
its relocation means, whatever was cached on the way; the parser returns the
tree that the grammar derives from the text; a property that is fixed stays as
it is, and two ways to write one computation have one result.

## 2. Modules

| Module | Models | State in the code |
|---|---|---|
| `BuddyBlocks` | aligned blocks of 2^level pages, buddies, bitmap offsets | none: the arithmetic of `pageman.c` |
| `PageStore` | what the page manager promises: a pool of pages, requests granted or refused | abstract |
| `PageMan` | `pageman.c`: `lists`, `bitmaps`, `spare` are its structure, `pc`, `resume`, `drop`, `hand`, `want`, `at`, `off`, `rem` the locals of the frames of its recursion | one action per frame and loop iteration |
| `Arithmetic`, `BuddyProofs`, `PageManProofs` | the lemmas and theorems about them: induction on naturals and division, blocks, the page manager | |
| `BlockAlloc` | `blockalloc.c` and `malloc.c` on a `PageStore` | `hdr` is the memory as seen through `block_t`, `blocks` the lists, `blk` the block at hand |
| `BlockAllocProofs` | the theorems about `BlockAlloc` | |
| `MapStore` | what the hash map promises: a finite map with the C functions' answers | abstract |
| `HashMap` | `hashmap.c` | `slot` is `hm->node`, `node` the allocated nodes, `at` the walk's `n`, `it` the iterators |
| `HashMapProofs` | the theorems about `HashMap` | |
| `Vfs` | `vfs.c`, `ramfs.c`, the directories of `cdfs.c` | `nodes` are the `fs_node_t` with their pointers, entries and caches; `nd`, `rest` lookup's node and path |
| `Elf` | `elf32.c`: `add_symbol`, one relocation at a time with `resolve_symbol`, `exec_elf32` | `image` the file's tables as they were read, `symbol` and `word` as linking changes them, `symbolMap`, `place` the loops' variables |
| `Boot` | `main.c`, extending `Vfs` and `Elf` | `memMap`, `maxAddr`, `man`, `i`; `stage` is the place in main |
| `BootProofs` | the theorems about `Vfs`, `Boot` and `Elf` | |
| `Atapi` | `atapi.c`, and the read of `cdfs.c`, with the drives as environment | `dev`, `device`, `length`, `buf`; `off`, `sz`, `at` are the arguments of `read` |
| `AtapiProofs` | the theorems about `Atapi` | |
| `Lexer` | `lex.c`: one action per call of a state function | `ptr`, `state`, `lineBefore`, `regexp`, `parseId`, `buffer` of `struct_lex`; `start`, where the token begins, is history |
| `Grammar` | `grammar.c` on `Lexer`: between two calls of `lex_next`, one action per production that moves | `stack` the frames of the recursion (one per production, with its left operand and operator), `ahead` the token pushed back; `read` is history |
| `JsObject` | `object.c`, `desc.c`, `ref.c`: the internal methods as functions from a heap to a heap, a value, and whether an assertion failed | objects are `[property -> descriptor]` |
| `Derivation` | the tree that ECMAScript's grammar derives from a text, by recursion, for TLC to compare the parser's with | none |
| `JsHeap` | the objects of a running host under the C code's definitions, puts and deletions | `heap` the objects' property tables, `stopped` |
| `JsCompare` | the comparisons of `internal.c`, `js_toNumber` and `unicode_utf16Cmp` | none |
| `JsEval` | the rest of `internal.c` and `conversion.c`: `js_evalNode` over trees, by recursion | none |
| `JsHost` | the objects of `JsHeap` under statements too | |
| `JsProofs` | the theorems about `Lexer` and `Grammar`, `JsHeap` and `JsCompare` | |
| `MC_*` | the values of the constants for TLC | |

Composition. `PageMan` implements `PageStore` (`Implements`, checked and
proved), and `BlockAlloc` runs on an instance of `PageStore` as its page
manager, so that what holds of blocks holds on top of the real one: what they
share is the store's promise, and no list or bitmap. `Boot` extends `Vfs` and
takes its actions as the calls that main and the program make; the page manager
leaves it as the arguments of `pageman_create`, with what `PageMan` assumes of
them as the property `ManagerCovered`. `Boot` extends `Elf` too, and the image
it reads, links and enters is any of a set of images. `Grammar` extends `Lexer`
and drives it: the flags it sets are the lexer's, and a text goes through both
as one run. `JsHost` extends `JsHeap` and `JsEval`; `JsEval` extends `JsCompare`,
which like `JsHeap` extends `JsObject`. The disc is in
`Vfs` a constant table of directory records and in `Atapi` a run of bytes.

Conventions. One thread runs, so an action is a loop iteration, a frame of a
recursion, or a stretch of code between two of them whose effects nothing can
see apart. `pc` is the place in the call being served, "idle" between calls.
"halted" (`stopped` in `JsHeap`) is a failed assertion or exhausted memory, which
stop the machine (`assert` and `malloc` do not return). "wild" is a step through a pointer, index
or level that the code's own data does not justify: a list past the last one, a
record that no read has filled, memory that malloc refused. Nothing after it is
modelled. Variables called history in their comments record the past for
properties and no action reads them. An operator under the comment "Mutant" is
a plausible error in the definition that follows; it is no part of the
specification. `Intact` in a module is its type invariant with the structural
invariants that come with it (`Tiled` and `FreeListed` in `BlockAlloc`, `Chained`
and `NoneLeft` in `HashMap`, `InCapacity` in `Vfs`, `Addressed` and `InStep` in
`Atapi`), so that a module has one such property.

What is abstracted: messages on the screen, names to model values, a path to
the sequence of the names between its slashes, a byte of the disc to its place,
the order of a list to a set where the code takes any first element
(`pageman_alloc` takes the first of a list: any member, in `TakeFirst`), what
malloc returns to any place that is free, the files of a disc to files too short
to be a disc themselves (mounted as one, they leave its records unread), the symbol map to a function, numbers
of JavaScript to integers with NaN and the two infinities, a string to the
sequence of its code units.

## 3. Runs

Every run is listed in `PROJECT.json` with its properties; all passing runs
exhaust their state space.

| Run | Instance | What it shows |
|---|---|---|
| `pageman` | 3 levels (blocks of 1, 2, 4 pages), pages 8 to 17 of two regions that meet inside a block | blocks apart, buddies merged, bitmaps in bounds, `PageStore` implemented, every call returns |
| `pageman_top` | 2 levels, eighteen pages in four regions with a hole among them, in which blocks of level `TOTAL_LEVEL` come together inside a region or by merging over two | the inductive invariant also there; the manager writes past its lists just when a whole block of that level is free |
| `blocks` | pages of 80 bytes, requests of 0, of 32 and, by calloc, of twice 6, at most 3 alive, a store of three pages or none | tiling, no overlap, compaction, no leak, calls return |
| `blocks_big` | pages of 64 bytes, seven or three of them; small, big, page-aligned requests | the same for blocks that are pages, for faked headers, and up to the step that writes through NULL where memory runs out; the code never gets astray before it |
| `blocks_level` (violation) | a big request whose size and header fill two pages | free gives back four |
| `hashmap` | 3 keys in 2 buckets, two with one hash, 4 allocations, an iterator | `MapStore` implemented, chains intact, iteration exact, dispose complete |
| `vfs` | 2 names, 5 paths, 5 nodes, 2 mounts anywhere | paths keep their nodes, arrays hold their entries, calls return unless a mount made a circle |
| `boot` | every map of at most 2 entries between 7 edges; a disc with the program two directories down, a directory too long for the buffer, files that are mounted as media; images of five words and ten kinds of symbols (of code, of data, of zeros, COMMON, exported, weak, missing, absolute), every pair of relocations on two words of the code and one of the data | the manager's memory exists and has its bits; the mounts stay; the words are linked right and the program is entered at its main; the boot ends in the program, in an assertion, or where malloc has no room for a big section |
| `atapi` | 3 sectors of 2 bytes, every wiring of two buses, drives that may fail, every read within the disc and of two files | the driver is in step with the drive it means, and reads are exact |
| `atapi_end` (violation) | the same, reads of at least one byte, drives that do not fail | a read of the disc's last bytes stops the machine |
| `script` | every text of up to 3 of 21 pieces (operands, operators, brackets, line ends, comments), every pair of 15 operators of all levels between operands, a hundred longer statements | new lines are seen, a slash and a word are taken for what the grammar says, the tree is the one the grammar derives, and the parser ends |
| `host` | a global object, an object on it, and one on that which cannot be extended; one name, five descriptors (of data and of accessors), numbers up to 2, strings up to 2 units; definitions, puts, deletions and four statements in any order | what is fixed stays, a put writes or has a reason not to, the comparisons agree with each other, compound assignments and increments with plain ones, and a statement writes nothing but by puts |

Why these bounds are enough. In `PageMan` every action concerns one level and
its neighbours, and nine pages on three levels hold a block with its buddy
inside, across and at the end of a region, and a bit in the second byte of a
bitmap; the theorems remove the bound. Three live small blocks make every
combination of free and used neighbours of a block that is freed, and a page of
80 bytes has room for a block, a rest and none. A bucket with two keys of one
hash and three of its nodes in a row have a head, a middle and an end to
unlink; a fourth allocation puts a removed key back behind an iterator. Two
mounts can stack, cross and close a circle; that is too few for a disc to be listed,
which `boot` does, with all of main's mounts and one of the program's. Sectors of two bytes have an
unaligned offset, and a read of four bytes has a first part, a whole sector and
a last part. The heap of `boot` has four words, too few for two big sections, so that malloc refuses one.
Two relocations on one symbol meet every order of resolving and
caching it, and a third, in the data, the loop over sections. Three pieces of
text hold an operand, what follows it and the token that ends it, with anything
between; a pair of operators has each on the other's left; `host`'s chain has
an object before and behind the one that is written. Sizes are smaller than the
code's, the widths that could wrap are constants (`WORD`, `ADDRESSES`,
`ADDRESS_SPACE`, `W`).

Bounds that are no part of the code: `MaxLive`, `MaxNodes` (memory for nodes:
at the bound, malloc stops the machine), `MaxMounts`, `MaxIndex`, `MaxSize`,
`MaxNumber` and `MaxLength` (the values that properties come to hold).
`CHECK_DEADLOCK FALSE` stands where the system can stop: a halted machine, a
disposed map, a statement that was parsed, or a model at its bound. `pageman`
keeps the check on.

Fairness. There is one thread and no interrupts, so a call that was made runs
on: weak fairness of the steps that serve a call, and none of those that make
one. `Atapi` adds weak fairness of the drives, which end what they are at: a
drive that stays busy for ever would hold the driver in its loop for ever, as
its code has no timeout. `Grammar` has one thread too: weak fairness of the
whole step, since the parser, once called, runs on.

Found while modelling (each with its run in `PROJECT.json`, "findings"):

- `blockalloc.c:113`: the level of a big block is computed from its size with
  the flags in it, and may be one more than was allocated.
- `atapi.c:177`: an unaligned read whose first part is all of it reads the next
  sector, which the last sector of a disc does not have.

Met on the way, with no run of their own, since no text of the repository says
otherwise or no state beyond them is worth checking:

- `pageman.c:176`: after the loop of l.165, `i` is one past `TOTAL_LEVEL`, and
  what is left of a region of a gigabyte and more is freed with it (`HugeFree`,
  which stops the model). `pageman.c:111`: a block of level `TOTAL_LEVEL` (2^18
  pages, a gigabyte), be it a region's or one that buddies merge into, is put
  into the list past the last, which lies over `base` and `limit`: `list.h:35`
  stores through the number of pages as a pointer, and the block's address
  replaces it (`InsertPastLists`). `pageman.c:161`: the address and the size of a region
  are aligned apart.
- `blockalloc.c:146`: the refusal of a big request is written through;
  `blockalloc.c:107`: bit 2 of a big block's size is read as a flag;
  `blockalloc.c:200`: a rest of size 0 is listed at index -1;
  `blockalloc.c:243`: the alias of `aligned_alloc` takes the place of the header
  when the block is aligned already. `blockalloc.c:221`: realloc of an aligned
  pointer reads the alias's size and copies 4 bytes (contents of blocks are not
  modelled). `ServedAssumption` keeps requests clear of these.
- `vfs.c:124`: a circle of mounts is followed for ever. `cdfs.c:161`: an index
  past the cache. `cdfs.c:104`: a directory longer than the buffer is an assertion.
  `cdfs.c:107`, `cdfs.c:171`: the result of the read is not looked at, and what
  was not read is parsed (`Garbled`, which `boot` reaches). No property claims
  otherwise of the circle.
- `elf32.c:59`: every symbol of a section of zeros is given a copy of the whole
  section, and its `st_value` is not looked at. `elf32.c:60`, `elf32.c:70`: what
  malloc returned is cleared without a look, and where it refused a big section
  that is memory from address 8 on (`LinkWild`). `elf32.c:153`: when a relocation
  names main, the address cached for it stands where its section is looked up,
  and `exec_elf32` goes astray; `EntersMain` says so.
- `lex.c:371`: `/*/` closes a comment. `lex.c:356`: a comment that the text ends
  in is never left. `lex.c:483`: `0x` needs no digits. Decimals, escapes and
  regular expressions end in assertions, as do functions, `new` and identifiers
  in the parser, and `in` is never an operator, as its flag is never cleared.
- `desc.c:18`: `js_isAccessorDescriptor` looks at `get` twice, and `canPut`'s
  test of an accessor of the object's own is inverted (`object.c:60`); a put on
  a property that is writable and not configurable is refused, in silence unless it
  throws: `canPut` lets it through, `js_defineOwnProperty` refuses it because the
  descriptor that put makes has no attributes and so differs in one, and its
  answer is dropped
  (`object.c:105`, `object.c:189`). `PutTakes` counts it among the reasons, as no
  text here promises more;
  `getProperty` looks one prototype up.
- `conversion.c:164`: `js_toInt32` takes a pointer for the number when it asks
  for its sign, and `js_toString` of a number other than 0 depends on
  `math.c`. `bootmgrjs/main.c` evaluates one statement and stops at
  `assert(0)`.

## 4. Theorems

`PageManProofs` proves, for every number of levels, page size, memory map and
length of run, and from the assumptions below:

- `TypeCorrect`, `NoOverlapCorrect`, `CoalescedCorrect`: the properties the
  runs check;
- `AstrayAtTopCorrect`: a write outside the structure implies that a whole
  aligned block of level `TOTAL_LEVEL` is free, and no call that returned has left
  one;
- `BitmapInBoundsCorrect`: no bit past the end of a bitmap is set, under
  `RegionsCovered`: the pages of the memory are below the limit main gives,
  which may be one too small when it is odd. Both runs' memories are so, and
  `ManagerCovered` of `Boot` is that of main's;
- `InvariantCorrect`: the invariant `IInv`, which `pageman_top` checks too;
- `BitmapCorrect`, `SpareCorrect`, `NothingLostCorrect`,
  `SliceNeverMergesCorrect`: a bit is set exactly while one of the two buddies
  is listed, `spare` counts the listed pages in every state, no donated page is
  ever lost, the free that alloc makes while slicing merges nothing;
- `Implementation`: `PageMan` implements `PageStore`, as long as it does not go
  astray; after that neither moves.

Assumptions: `LevelAssumption`, `WidthAssumption` (widths double from 1),
`SizeAssumption` (types of the constants), `FirstSizeAssumption` (the code's
assertion that the structure fits), `RegionAssumption` (no page is donated
twice: the map lists memory once). None bounds the memory: a gigabyte of it is
no exception but the case of `AstrayAtTopCorrect`.

The argument. `NoOverlap` is not inductive: a merge is right only if the bit
tells the truth, and the bit tells the truth only while blocks do not overlap.
`IInv` ties them: `Control` (what is live at each `pc`), `Loops` (the offset in
`pageman_freeBlock` is aligned to every size still to be cut), `Slicing` (what
alloc frees is the buddy of what it keeps), `NoOverlap`, `Conserved` (every
donated page is listed, held, carried or still in the loop's hands),
`BitmapMatchesLists`, `Coalesced` and `SpareCounts`. `BuddyProofs` has the
arithmetic: two blocks that share a page are nested, a block is the disjoint
union of its halves, a block and its buddy make their parent, and cardinalities
of blocks' pages. `PageManProofs` shows `Init => IInv`, then for each action
the conjuncts it disturbs, with the frame conditions of the others as lemmas;
the refinement maps the free pages to those listed, carried or in the loop's
hands, and its one hard step, a refusal, follows from `Coalesced`: an aligned
run of free pages lies in one listed block, or is several listed buddies that
would have merged (`Covered`). The same lemma gives `AstrayAtTop` between calls:
a whole free block of level `TOTAL_LEVEL` would have to lie in a listed one, and
the lists end below it (`NoTopIdle`). In the other direction a stray write has
such a block in its hands, carried by free or cut by `pageman_freeBlock`, and
`Conserved` says that those pages are free (`TopStep`, `TopIsFree`).

`BlockAllocProofs` proves, for every size of page and word, every memory, any
number of allocations alive and every sequence of calls:

- `IntactCorrect`: in each page the blocks tile it and point back to each other,
  and the lists hold exactly the free ones, each in its class;
- `CompactCorrect`: between calls no two free blocks are neighbours, and no
  free block fills its page;
- `NothingLeaksCorrect`: between calls every used block is some caller's, and
  every block of pages that is held has a caller's pointer in it, but for the
  allocator's own page, until a big request is refused;
- `LiveApartCorrect`: what callers were given lies in pages of the allocator,
  apart from what other callers were given and from every header, until a big
  request is refused;
- `NeverAstrayCorrect`: free reads and writes headers only, and gives back only
  blocks of pages that were got. It has a hypothesis, `LevelsAgree`: the size of
  a big block with its flags needs as many pages as without. `blocks_level` is
  the run where that fails, and `blocks_big` one where it holds;
- `Invariance`: the invariant `BInv` behind them.

Assumptions: `PageSizeAssumption` (a multiple of 8, at least 32),
`MemoryAssumption` (page 0, where NULL points, is not the manager's),
`RequestAssumption` (sizes are of a word's width), `NoneAssumption`, and
`ServedAssumption`, which has the requests that the code serves right: no small
one that leaves a rest of no bytes in a fresh page, no big one with bit 2 in its
size, no product or sum that is cut, alignments of whole pages. Outside of it
the properties are false, as the list in section 3 has it; within it nothing is
left out, refusals of the manager included.

The argument. `Tiled` and `FreeListed` are not inductive: a merge writes the
block behind the second, so that block must be in the page, and a split relies
on the block it cuts being in a list and large enough. `Heap`, which speaks of
any memory `h` because the code writes several headers in a step, says that
headers are of one kind each (`Typed`), that a small block's end is the next
header of its page and nothing lies between (`Tiling`), that the lists are exact
(`Lists`) and that a free block has used neighbours (`Merging`); one lemma per
operation of the memory keeps it (`TakeHeap`, `SplitHeap`, `MergeHeap`,
`MarkFreeHeap`, `FreshHeap`, `DropHeap`). `Store`, `Housed`, `Bigs` and `Aliases`
tie headers to the page manager's blocks: a small block is in a page of its own,
a big one at the start of a block of pages that was got for its size, an alias
inside the big block it points to and only while a caller has its pointer.
`Lives` gives a pointer its block, the `Owner` of the header before it, which
holds the bytes asked for and is no other pointer's. `Control` says what a call
has at hand: a block that was found is used, large enough and nobody's, and so
is one that is to be freed. Lemmas named `Kept` carry pointers over a step that
leaves their blocks alone. `Accounted` is the converse: while the program runs,
a block that is used is a caller's or in the call's hands (`NoneLost`), where
realloc's two blocks change places in one step, and small blocks or a big one
fill each block of pages that is held, but for one (`OneOwn`); `Handed` and
`Refilled` are what a step has to do for that to stay. `NothingLeaks` counts
callers' pages, and not filled ones: a page with small blocks in it has a used
one because a free block does not fill its page (`UsedInPage`), and an alias is
in the big block of its own pointer (`PointerHome`). For `LiveApart`, `Inside`
puts a pointer's bytes in its block, `BlocksApart` separates blocks of one page
and of two, and `Homes` says which pages a header can be in.

`BootProofs` proves, of `BootSpec` and so with all of main's steps and the
program's:

- `ManagerCoveredCorrect`: what main gives to `pageman_create` is memory of the
  map, and its pages have their bits;
- `LinkedRightCorrect`: at every point of `link_elf32`'s loops the words behind
  them hold what their relocations mean, and the others are untouched;
- `EntersMainCorrect`: the program is entered at its last main unless a
  relocation names it;
- `BootPathsKeepCorrect`: a path that was looked up keeps its node, and until
  the program mounts something the drive, the disc and the boot medium are where
  main's mounts put them.

Assumptions: `MemoryMapAssumption` (entries ascend without overlap, no region
lies across 1 MB or the end of the 32-bit addresses, and regions above 1 MB are
of whole pages; the map `pageman.c:161` needs), `LayoutAssumption` (sizes, and
`AVAIL_MEM_START` between), `ImageAssumption` (relocations name symbols of the
table and each a word of its own; main is in a section of the file; `MAX_SIZE`,
above which malloc does not look at what it got, is a size),
`NamesAssumption` (`dev` is not `media`, nor `cdrom` `boot`), and those of `Vfs`.

The argument for linking. `LinkedRight` speaks of the words behind the loops
and is not inductive, since a word's value comes from a symbol that an earlier
relocation may have cached. `LinkInv` adds `LinkControl` (the loops' variables
are in the table, and while it is linked `symbolMap` is what main exported),
`SymbolsCached` (a symbol that no relocation behind has named is as it was read;
one that has been named is absolute, at its `Home`, and has its storage if it
needed some) and `WordsLinked`. The lemma `Homes` is the step: what
`resolve_symbol` returns, cached or not, is the symbol's home, and it moves no
other symbol's; `FreshWord` says that the word at hand is behind for no other
relocation. `EntersInv` adds that names are never written. For the memory,
`MemoryInv` ties the loop over the map to `Reached` (the highest address so
far), and two facts of arithmetic carry it: `LastPage` (the last whole page
below the limit has its bit, also where the limit is the last address of 2^32
and the pages are one short) and `Cut` (what is cut off a region before
`AVAIL_MEM_START` leaves whole pages). `Arithmetic` has division and remainder,
and induction on naturals as a fact about sets closed under successor, which is
the form the provers can use.

`HashMapProofs` proves every property that `MC_HashMap` checks, for all keys,
hashes (equal ones included), buckets, nodes and iterators:

- `IntactCorrect`: the chains are whole at every step, and dispose frees each
  node once;
- `Implementation`: until dispose, the table is the map of `MapStore`, which
  changes and answers in the step that ends a walk;
- `IterationCorrect`: what an iterator delivers, and what it has delivered when
  it ends, whatever is put and removed between its steps;
- `LosesCorrect`: only the removal of a key that was not delivered frees the node
  an iterator keeps.

Assumptions: `TableAssumption` (a size of at least one, a hash that is a natural
number, NULL is neither a key nor a node) and `RequestAssumption` (nor a call).
A hash is any function of the keys, so nothing rests on its quality.

The argument. Nodes are named in the order of their allocation and put adds at
the end, so a chain is ascending, and `Chained` can say without recursion that
it holds all of its bucket: slots and `next` point to the first node of the
bucket after 0, after the node. `HInv` adds `Control` (the walk is in its bucket
and no node up to `at` has its key, from which `Absent` follows: a walk that
ends finds no key that is there), `Filled` (a node keeps its key's hash, and is
older than `fresh`), `Disposing` (the rows before `row` are empty, the rest are
still chains) and `Iterators`. The last ties an iterator to history: none of
the nodes `Ahead` of it was delivered, all that are behind it and were in since
its beginning were. It holds only while the node it keeps is there, which is
why `hashmap_next` after a removal of that node is `NextWild` and nothing is
claimed of it. Three lemmas carry it: `ChainsWithNew`, `ChainsWithout` (put and
remove keep the order), `IteredDeliver` (a step takes exactly the first of the
nodes ahead).

`AtapiProofs` proves every safety property that `atapi` checks, for all sizes
of sector, disc and buffer, every attachment of drives and every choice of the
commands that fail:

- `IntactCorrect`: the drive that listens is the one the driver means, and data
  is taken or a packet sent only when that drive is ready for just that;
- `DriveFoundCorrect`: the boot settles on a disc drive, and stops only when
  every disc drive there is has failed;
- `ReadExactCorrect`: a read that returned has filled the caller's buffer with
  the bytes asked for up to the end of the file, and nothing else of it.

Assumptions: `SectorAssumption` (a sector of at least one byte, a width of
offsets that is a multiple of it), `DiscAssumption` (the disc is smaller than
that width), `RequestAssumption` (requests and files lie within the disc) and
`NoneAssumption` (NULL is no number and no drive).

The argument. Whether a read is exact depends on a drive having answered the
command that the driver is waiting for, and that on the search having left the
driver with a disc drive. `AInv` says so in parts: `Known` (where `ATA_select`
remembers a drive of a bus, that drive is selected), `Answers` (only discs come
to an answer, and it fits the command), `Phase` and `Waiting` (the drive meant
is at the command waited for), `Search` (the disc drives tried before have
failed) and `Progress` (the first `at` bytes of the read are in the buffer, and
`off`, `sz` say what is left). `CommandIs` and `Starts` begin a wait and a read;
`Gets` is the step of a read from one sector, on the arithmetic of `InSector`
and `NextSector`: what is taken of a sector is the bytes at `off`, and the next
offset begins the next sector or the read is done.

`BootProofs` proves, of `Vfs`, the safety properties that `vfs` checks, for every disc, all
sets of paths (with empty names in them or at the end), every capacity of a
directory, any number of nodes and mounts:

- `IntactCorrect`: at every step of every call each pointer, child and CD-ROM of
  a node is a node, the variables keep their types, and the entries of a ramfs
  directory are within the memory that `ensureSize` got;
- `PathsKeepCorrect`: a path keeps the node it was found at, whatever is looked
  up, made, listed for the first time, or mounted elsewhere in a tree.

Assumptions: `PathAssumption` (a path has a name, perhaps empty; NULL is no
number and no sequence), `DiscAssumption` (the records of every extent that is a
directory are of the types they are read as, and a record of a directory names
one of the disc's or a long one) and `CapacityAssumption`
(`DIR_STEP` is not 0). Where pointers run in a circle `End` is NULL and nothing
resolves; no lookup arrives there, so nothing is claimed of it.

The argument. `PathsKeep` compares a function of the whole tree, `Resolve`, with
the way the code went through it step by step while the tree changed. `Leads`
joins the two: a walk by a path's names leads to a node when c of them are used
up. It is the least set that holds the root and is closed under following a
pointer and going to a child (`Closed`), so a walk of any length is had without
recursion, and a fact about all walks is a closed set (`LeadsWithin`,
`LeadsFrom`). The invariant `VInv` says that a lookup is at a node its names lead
to, with the rest of the path in `rest` (`Looking`), besides `Typed` and what is
known of the path in `found` (`Known`). `ResolveLeads` shows that what a path
resolves to is the end of where any of its walks leads, and the lemmas before
it that `End`, which counts the pointers it follows, does not depend on the
count: an end that was found stays (`EndsStay`), and the nodes whose end is
found within k pointers become more with k until they stay the same, so as many
steps as there are nodes are enough (`EndNext`). What changes the nodes is of two kinds. `Grown`: nodes are added, and the children
behind those there are (`AppendedNode`, `CreatedNodes`, `LoadedNodes`), so each
walk leads where it led (`GrownKeeps`). `Mounted`: one node gets a pointer. Where
there is one way to each node (`OneWay`, which `TreeFacts` draws from the count
of the ways in), two walks through the node mounted on have the same names so
far (`SameWay`), and a path that is not under the mounted one does not go
through it (`MountKeeps`).

The argument for the boot's paths rests on that invariant and
needs two more parts. `Standing` says what main's mounts have made of the nodes,
by their number: before the second nothing leads to the drive; before the last
there is one way to each node, which the last one gives up, since the disc is
then at two paths; and after each, which of its paths resolve to what. A
node that is mounted by main is one to which nothing leads (`Free`), so there is
still one way to each after it (`MountedTidy`), and what is made while main's
paths are looked up leaves that so (`Tidy`, `TidyKeeps`). `Stages` says which
call main waits for at each place, and how many mounts are done: it is not
inductive without the answer of the lookup that the last mount mounts. A mount
of the program is the fifth, of which nothing is said.

`JsProofs` proves, of the parser, for every text, all sets of keywords and
reserved words:

- `LinesSeenCorrect`: a token is told to follow a new line exactly when a line
  ends between the end of the token before and its start, or it ends the text;
- `GoalsRightCorrect`: a slash is taken for a division exactly after an operand,
  and a word for a name exactly after a point, however deep the recursion is
  whose frames set and reset the flags;
- `GrammarCorrect`: the invariant `GInv` behind them.

Assumption: `KeywordAssumption` (no keyword is the token that ends the text).

The argument. Neither is inductive, as both speak of tokens and the parser works
on frames: what a slash is depends on a flag that was set several returns ago.
`GInv` has `Flag` (`lineBefore` is set exactly when a line ended since the last
token, up to what the lexer has passed), `Place` (the calls on the stack and what
they returned agree with the last token: after one that closes an operand the
frames wait for an operator, after a point the innermost one, and no other, waits
for a name, else they wait for an operand) and `Asked` (while the lexer works its
flags are those of the place the parser is at). Whether a token closes an operand
depends on the tokens before it: `Closes` is a recursive function of the tokens
taken, which lemma `ClosesSolved` shows to have the values of its definition. Each
action of the parser moves between such places (`Moved`, `Called`, `Returned`,
`WentOn`). Where a line ends is told by positions and not by the lines of the
text, since a backslash before a line's end in a comment continues no line; the
history variable `start` is there for that.

Of the objects it proves, for every chain of objects, sets of names and values,
and every descriptor that the C code can pass:

- `KeptCorrect`: a property that can be neither written nor configured stays, an
  object that cannot be extended gets none, whatever runs;
- `PutTakesCorrect`: a put that returns has written its value into the object
  itself and nothing else, or nothing, and then for a reason: the attributes of
  the property where the object has it, else the object cannot be extended, or
  what it inherits is not writable.

They are theorems of `ProgramSpec`, where a statement is any number of puts of
any values one after another. That evaluation changes the objects in no other
way is `OnlyPuts`, a part of `AsPlain`, which TLC checks on `host`: `JsEval` is
RECURSIVE and no theorem can speak of it. Deletions are the C code's:
a statement's `delete` is an assertion (`internal.c:40`).

Assumption: `HostAssumption` (NULL is no value, attribute or object; a
descriptor of C code has attributes of the two Booleans or none, and no getter
together with a value).

The argument. That a fixed property stays is not inductive either:
`js_defineOwnProperty` decides on the fields that a property has, and would
change one that has lost some. `Heaped` says that each property in a table is
complete, as data or as an accessor and never both; `FilledIsProperty` and
`UpdatedIsProperty` are its two ways into a table. `DefineOwnKeeps` has one case
per refusal of the code, `PutKeeps` and `DeleteKeeps` rest on it, `PutsKeep`
takes any number of puts by induction on the length of a series, since
`KeptOn`, what one step keeps, is transitive. `RefusedForReason` goes
through `canPut` and its look at the prototype, `Defines` shows that a put that
was let through writes.

Of the comparisons it proves `ComparisonsAgree`, what `ByTheBook` checks of the
values that come up, for all values, strings of any length included: of two
that can be compared one is less or they are the same, and never both; a NaN is
neither; `<=` and `>=` are the negations of the strict orders; `!=` and `!==`
are those of equalities, of which the loose one is symmetric and implied by the
strict one. Assumption:
`NumberAssumption` (NaN and the infinities are no integers and differ). The
argument: two strings that differ have a first difference, the least of a set of
naturals (`OneIsBefore`), numbers are one below the other or the same
(`OneIsLess`), and `OrdersAgree` carries both through the conversions that come
first.

Only model-checked: liveness everywhere; that the parser's tree is the
grammar's (`ParsesAsGrammar`: the derivation is RECURSIVE); the evaluation of
trees (`JsEval` is RECURSIVE and takes `Bitwise`), so
`AsPlain`, and that every text the grammar has is parsed is not claimed at all; and `BigFreedWhole` of
`BlockAlloc`, which its run refutes.

## 5. Not modelled

- The assembly (`boot.asm`, `bootmgr/loader.asm`): mode switches and BIOS calls;
  what they leave, the memory map and the image, is `Boot`'s environment.
- The bytes of a directory record and its system use entries, of a packet, of
  the primary volume descriptor: `Vfs` and `Atapi` take what they say. The
  bytes of ELF's tables likewise.
- A drive that is slow to finish after its data was taken: the driver does not
  wait for it (`atapi.c:116`), and the drives of the model are done at once.
- Discs of 4 GiB and more, whose offsets the code cuts to 32 bits.
- An image that is linked twice: main links one.
- A free of NULL and `vfs_init`, which do nothing.
- Fractions, the sign of zero and the digits of numbers (`math.c`,
  `js_toString`): TLA+ has no floating point for TLC.
- Octal literals, which the lexer takes only outside of strict mode, which
  nothing leaves; functions and programs, whose productions are commented out.
- Unicode (`libs/unicode/convert.c`, `type.c`): loops over one string, with no
  state between calls, and generated tables. Printed output (`format.c`,
  `video.c`): wording and layout, on which no state depends.
- The string loops and `rand` of the C library; build files.

## 6. Plan

Done, in this order: the allocators, the hash map, the file systems, the driver
and the boot, with the page manager's theorems; the ELF loader inside the boot,
with the boot's theorems; the lexer and the parser; objects and evaluation; the
hash map's theorems; the driver's theorems; the block allocator's theorems; the
file systems' theorems and the boot's paths; the parser's lines and goals; the
theorems about objects and comparisons.

What would come next: drives that answer late, once the driver waits for them;
the contents of blocks, for what realloc copies; functions and `new`, once their
productions are no longer commented out.
