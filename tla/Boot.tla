-------------------------------- MODULE Boot --------------------------------
(***************************************************************************)
(* bootmgr/main.c: the scan of the BIOS memory map that decides what the   *)
(* page manager is built on, the mounts, the look for the program to run,  *)
(* and from then on that program's own calls of the file systems.          *)
(*                                                                         *)
(* Memory is counted in units in which the page, the start of the memory   *)
(* used and the end of 32-bit addresses are constants.                     *)
(***************************************************************************)
EXTENDS Vfs, Elf, Integers

CONSTANTS
  MemoryMaps,       \* the maps the BIOS may return: [base, limit, type], where
                    \* limit is a length and type 1 is memory
  PAGE_SIZE,
  ADDRESSES,        \* 2 ^ 32
  LOW,              \* 0x100000
  AVAIL_MEM_START,
  PageCost,         \* pages the page manager's own structure takes
  dev, cdrom, media, boot, saki, bootmgr, js_ske    \* names

VARIABLES
  memMap, maxAddr, man,
  i,                \* the loops' variable
  stage,            \* the place in main
  answer            \* what the last vfs_lookup returned

memory == <<memMap, maxAddr, man, i>>
bootVars == <<memory, stage, answer, vars, elf>>

MemoryEntry == [base : Nat, limit : Nat, type : Nat]

\* main's comments: the map is in ascending order, and no memory crosses
\* 0x100000 or 0xFFFFFFFF.  That memory from 0x100000 on comes in whole pages
\* is what the page manager takes for granted.
ASSUME MemoryMapAssumption ==
  \A m \in MemoryMaps :
    /\ m \in Seq(MemoryEntry)
    /\ \A x, y \in DOMAIN m : x < y => m[x].base + m[x].limit <= m[y].base
    /\ \A x \in DOMAIN m : m[x].type = 1 =>
         \A edge \in {LOW, ADDRESSES} :
           m[x].base >= edge \/ m[x].base + m[x].limit <= edge
    /\ \A x \in DOMAIN m : m[x].type = 1 /\ m[x].base >= LOW =>
         m[x].base % PAGE_SIZE = 0 /\ m[x].limit % PAGE_SIZE = 0

ASSUME LayoutAssumption ==
  /\ PAGE_SIZE \in Nat \ {0} /\ PageCost \in Nat
  /\ LOW \in Nat /\ AVAIL_MEM_START \in Nat /\ ADDRESSES \in Nat
  /\ LOW < AVAIL_MEM_START /\ AVAIL_MEM_START < ADDRESSES
  /\ AVAIL_MEM_START % PAGE_SIZE = 0 /\ ADDRESSES % (2 * PAGE_SIZE) = 0

\* The names in main's paths are other names where those paths go apart.
ASSUME NamesAssumption ==
  /\ {dev, cdrom, media, boot, saki, bootmgr, js_ske} \subseteq Name
  /\ dev # media /\ cdrom # boot

-----------------------------------------------------------------------------
BootInit ==
  /\ Init
  /\ memMap \in MemoryMaps
  /\ maxAddr = 0 /\ man = None /\ i = Len(memMap)
  /\ stage = "limit" /\ answer = None
  /\ ElfInit

Stage(from) == pc = "idle" /\ stage = from /\ UNCHANGED <<memory, answer>>
Main(from) == pc = "idle" /\ stage = from /\ UNCHANGED <<answer, elf>>

\* The end of the last entry that is memory, or the last 32-bit address.
LastMemory ==
  /\ Main("limit")
  /\ IF i = 0
       THEN stage' = "region" /\ i' = 1 /\ UNCHANGED maxAddr
     ELSE IF memMap[i].type = 1
       THEN /\ LET end == memMap[i].base + memMap[i].limit
               IN  maxAddr' = IF end > ADDRESSES - 1 THEN ADDRESSES - 1 ELSE end
            /\ stage' = "region" /\ i' = 1
       ELSE i' = i - 1 /\ UNCHANGED <<maxAddr, stage>>
  /\ UNCHANGED <<memMap, man, vars>>

Usable(e) ==
  /\ e.type = 1 /\ e.base >= LOW /\ e.base <= ADDRESSES - 1
  /\ e.base >= AVAIL_MEM_START \/ (e.base + e.limit) % ADDRESSES > AVAIL_MEM_START

\* Mutant: the loop's variable is not counted up.
SkipRegionStuck ==
  /\ Main("region")
  /\ i <= Len(memMap) /\ ~Usable(memMap[i])
  /\ UNCHANGED <<memory, stage, vars>>

SkipRegion ==
  /\ Main("region")
  /\ i <= Len(memMap) /\ ~Usable(memMap[i])
  /\ i' = i + 1
  /\ UNCHANGED <<memMap, maxAddr, man, stage, vars>>

\* Mutant: the start moves, the length does not.
FromAvailLong(e) ==
  IF e.base < AVAIL_MEM_START THEN [base |-> AVAIL_MEM_START, limit |-> e.limit]
  ELSE [base |-> e.base, limit |-> e.limit]

\* The part of an entry from AVAIL_MEM_START on
FromAvail(e) ==
  IF e.base < AVAIL_MEM_START
    THEN [base |-> AVAIL_MEM_START, limit |-> e.limit - (AVAIL_MEM_START - e.base)]
    ELSE [base |-> e.base, limit |-> e.limit]

\* pageman_create(NULL, maxAddr / PAGE_SIZE, base, limit / PAGE_SIZE), whose
\* assert stops the machine if its structure does not fit; then break.  The
\* pageman_freeBlock of a second region is never reached.
CreatePageman ==
  /\ Main("region")
  /\ i <= Len(memMap) /\ Usable(memMap[i])
  /\ LET r == FromAvail(memMap[i])
     IN  IF PageCost <= r.limit \div PAGE_SIZE
           THEN /\ man' = [limit |-> maxAddr \div PAGE_SIZE, base |-> r.base,
                           size |-> r.limit \div PAGE_SIZE]
                /\ stage' = "print" /\ i' = 1
                /\ UNCHANGED <<memMap, maxAddr, vars>>
           ELSE Halt /\ UNCHANGED <<memory, stage>>

\* assert(man)
NoMemory ==
  /\ Main("region") /\ i > Len(memMap)
  /\ Halt
  /\ UNCHANGED <<memory, stage>>

\* init_allocator takes the manager over, and the map is printed and never read
\* again: both leave the model.
InitAllocator ==
  /\ Main("print")
  /\ memMap' = <<>> /\ maxAddr' = 0 /\ man' = None /\ i' = 0
  /\ stage' = "ramfs"
  /\ UNCHANGED vars

-----------------------------------------------------------------------------
(* vfs_mount("/", ramfs_create_fs()) *)
CreateRamfs ==
  /\ Main("ramfs")
  /\ RamfsCreateFs
  /\ stage' = "root"
  /\ UNCHANGED memory

MountRoot ==
  /\ Main("root")
  /\ MountCall(<<Empty>>, Len(nodes))
  /\ stage' = "drive"
  /\ UNCHANGED memory

(* vfs_mount("/dev/cdrom", ATAPI_init()) *)
MountDrive ==
  /\ Main("drive")
  /\ MountCall(<<dev, cdrom>>, CDROM)
  /\ stage' = "disc"
  /\ UNCHANGED memory

\* assert(0): none of four drives answers.
NoDrive ==
  /\ Main("drive")
  /\ Halt
  /\ UNCHANGED <<memory, stage>>

Media == <<media, cdrom, Empty>>
BootMedia == <<media, boot, Empty>>

(* vfs_mount_fs("/media/cdrom/", "/dev/cdrom", CDFS_create_fs) *)
MountDisc ==
  /\ Main("disc")
  /\ MountFsCall(Media, <<dev, cdrom>>)
  /\ stage' = "media"
  /\ UNCHANGED memory

(* vfs_mount("/media/boot/", vfs_lookup("/media/cdrom/")) *)
LookupMedia ==
  /\ Main("media")
  /\ LookupCall(Media)
  /\ stage' = "boot"
  /\ UNCHANGED memory

MountBoot ==
  /\ Main("boot")
  /\ MountCall(BootMedia, answer)
  /\ stage' = "exec"
  /\ UNCHANGED memory

Exec == <<media, cdrom, saki, bootmgr, js_ske>>

LookupExec ==
  /\ Main("exec")
  /\ LookupCall(Exec)
  /\ stage' = "read"
  /\ UNCHANGED memory

\* vfs_read of the program, a file of the disc
ReadExec ==
  /\ Stage("read")
  /\ IF nodes[answer].fs = "cdfs" /\ nodes[answer].type = "FILE"
       THEN /\ stage' = "export"
            /\ \E im \in Images : LoadImage(im)
            /\ UNCHANGED vars
       ELSE Halt /\ UNCHANGED <<stage, elf>>

Export ==
  /\ Stage("export")
  /\ AddSymbols
  /\ stage' = "link"
  /\ UNCHANGED vars

(* link_elf32(content) *)
Link ==
  /\ Stage("link")
  /\ Relocate \/ NextSection
  /\ UNCHANGED <<stage, vars>>

LinkHalt ==
  /\ Stage("link") /\ Unresolved
  /\ Halt
  /\ UNCHANGED <<stage, elf>>

LinkWild ==
  /\ Stage("link") /\ Refused
  /\ pc' = "wild"
  /\ UNCHANGED <<stage, elf, nodes, call, nd, rest, src, found>>

(* exec_elf32(content) *)
ExecImage ==
  /\ Stage("link") /\ Linked
  /\ FindMain
  /\ stage' = "enter"
  /\ UNCHANGED vars

\* assert(entrance)
ExecHalt ==
  /\ Stage("link") /\ Linked /\ Mains = {}
  /\ Halt
  /\ UNCHANGED <<stage, elf>>

EnterProgram ==
  /\ Stage("enter")
  /\ Enter
  /\ stage' = "run"
  /\ UNCHANGED vars

\* The program calls what main has exported to it.
ProgramCall ==
  /\ Main("run")
  /\ \/ \E p \in Paths : LookupCall(p)
     \/ \E p \in Paths, n \in DOMAIN nodes : MountCall(p, n)
     \/ \E p, q \in Paths : MountFsCall(p, q)
     \/ \E n \in DOMAIN nodes : NodeCall("mkdir", n, saki, 0)
     \/ \E n \in DOMAIN nodes, x \in 0..MaxIndex : NodeCall("readdir", n, Empty, x)
  /\ UNCHANGED <<memory, stage>>

\* A call of the file systems goes on, and vfs_lookup's answer is kept.
Serve ==
  /\ LookupStep \/ MountStep \/ NodeStep
  /\ answer' = IF call.op = "lookup" /\ pc' = "idle" THEN nd ELSE answer
  /\ UNCHANGED <<memory, stage, elf>>

MainStep ==
  \/ LastMemory \/ SkipRegion \/ CreatePageman \/ NoMemory \/ InitAllocator
  \/ CreateRamfs \/ MountRoot \/ MountDrive \/ NoDrive \/ MountDisc
  \/ LookupMedia \/ MountBoot \/ LookupExec \/ ReadExec
  \/ Export \/ Link \/ LinkHalt \/ LinkWild \/ ExecImage \/ ExecHalt \/ EnterProgram

BootNext == MainStep \/ Serve \/ ProgramCall

BootSpec == BootInit /\ [][BootNext]_bootVars

\* One thread, with no interrupts: main runs on.
FairBootSpec == BootSpec /\ WF_bootVars(MainStep \/ Serve)

-----------------------------------------------------------------------------
(* Properties *)

\* What pageman_create is given is memory of the map, of 32-bit addresses, not
\* below AVAIL_MEM_START, and its last page has its bit in bitmaps that cover
\* the pages below limit, rounded up to a pair of buddies.
ManagerCovered ==
  man # None =>
    LET end == man.base + man.size * PAGE_SIZE
    IN  /\ \E x \in DOMAIN memMap :
             /\ memMap[x].type = 1
             /\ memMap[x].base <= man.base /\ end <= memMap[x].base + memMap[x].limit
        /\ man.base >= AVAIL_MEM_START /\ end <= ADDRESSES
        /\ ((end - 1) \div PAGE_SIZE) \div 2 <= (man.limit - 1) \div 2

\* The path that main or the program looked up keeps its node; and until the
\* program mounts something, the drive, the disc and the boot medium are where
\* main put them, whatever is created, or listed for the first time or again.
BootPathsKeep ==
  /\ PathsKeep
  /\ stage \in {"exec", "read", "export", "link", "enter", "run"} /\ pc # "lookup" /\ Mounts = 4 =>
       /\ Resolve(<<dev, cdrom>>) = CDROM
       /\ Resolve(BootMedia) = Resolve(Media)
       /\ nodes[Resolve(Media)].fs = "cdfs"

\* The boot ends in the program, in a failed assertion, or where malloc has no
\* room for a big section.
Boots == <>(stage = "run" \/ pc = "halted" \/ (pc = "wild" /\ Refused))

=============================================================================
