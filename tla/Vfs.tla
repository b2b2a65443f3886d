-------------------------------- MODULE Vfs --------------------------------
(***************************************************************************)
(* The boot manager's file systems: bootmgr/vfs/vfs.c (dispatch, lookup,   *)
(* mounts), ramfs.c (directories in memory) and cdfs.c (directories of a   *)
(* disc, cached when they are first read).                                 *)
(*                                                                         *)
(* Nodes are named by the order of their allocation and never freed.  A    *)
(* path is the sequence of the names between its slashes, the first slash  *)
(* left out: "/a/b" is <<a, b>>, "/a/" is <<a, Empty>>, "/" is <<Empty>>.  *)
(* A failed assert stops the machine ("halted"), as does malloc when there *)
(* is no memory for another node.                                          *)
(***************************************************************************)
EXTENDS Naturals, Sequences, SequencesExt, FiniteSets

CONSTANTS
  Name, Empty,  \* names of files, and the name of no character
  Paths,        \* the paths callers use
  Disc,         \* the disc: for each extent that is a directory, its records
                \* [dot, nm, file, dir, lba], in order
  Long,         \* the extents of directories longer than BUFFER_SIZE
  RootExtent,   \* the extent of its root directory
  DIR_ALLOC,    \* directory entries a fresh ramfs node has room for
  DIR_STEP,     \* the multiple of entries a directory grows to
  MaxNodes,     \* bound: nodes, or the memory for them
  MaxMounts,    \* bound: mounts
  MaxIndex,     \* bound: the index callers give vfs_readdir
  None          \* NULL

VARIABLES
  nodes,        \* the fs_node_t: name -> [name, fs, type, pointer, kids, cap,
                \* cdrom, lba]
  pc,
  call,         \* the call being served
  nd, rest,     \* lookup's node and path
  src,          \* vfs_mount_fs's src
  found         \* history: any one path that was looked up, or mounted on,
                \* and its node, as long as no mount may have changed it

vars == <<nodes, pc, call, nd, rest, src, found>>

ROOT == 1
CDROM == 2
Ops == {"lookup", "mount", "mount_fs", "create", "mkdir", "finddir", "readdir"}

ASSUME PathAssumption ==
  /\ Empty \notin Name /\ None \notin Nat /\ None \notin Seq(Nat)
  /\ Paths \subseteq Seq(Name \cup {Empty}) \ {<<>>}

ASSUME DiscAssumption ==
  /\ DOMAIN Disc \subseteq Nat /\ Long \subseteq Nat /\ RootExtent \in DOMAIN Disc
  /\ \A x \in DOMAIN Disc : Disc[x] \in
       Seq([dot : BOOLEAN, nm : Seq(Name), file : Name, dir : BOOLEAN, lba : Nat])
  /\ \A x \in DOMAIN Disc : \A k \in DOMAIN Disc[x] :
       Disc[x][k].dir => Disc[x][k].lba \in DOMAIN Disc \cup Long

ASSUME CapacityAssumption ==
  DIR_ALLOC \in Nat /\ DIR_STEP \in Nat \ {0} /\ MaxNodes \in Nat /\ MaxNodes >= 2
  /\ MaxMounts \in Nat /\ MaxIndex \in Nat

-----------------------------------------------------------------------------
(* Nodes *)

Node(name, fs, type) ==
  [name |-> name, fs |-> fs, type |-> type, pointer |-> None,
   kids |-> IF fs = "cdfs" THEN None ELSE <<>>, cap |-> DIR_ALLOC,
   cdrom |-> None, lba |-> 0]

\* The node that calls on n are answered by, None if pointers run in a circle
End(ns, n) ==
  LET end[left \in 0..Len(ns)] ==
        [m \in DOMAIN ns |->
           IF ns[m].pointer = None THEN m
           ELSE IF left = 0 THEN None ELSE end[left - 1][ns[m].pointer]]
  IN  end[Len(ns)][n]

Looped(ns) == \E n \in DOMAIN ns : End(ns, n) = None

(* cdfs readdir: the first read of a directory makes its nodes *)

Normal(rec) == ~rec.dot
FromRecord(n, rec) ==
  [Node(IF rec.nm = <<>> THEN rec.file ELSE Last(rec.nm), "cdfs",
        IF rec.dir THEN "DIR" ELSE "FILE")
     EXCEPT !.cdrom = nodes[n].cdrom, !.lba = rec.lba]

\* What vfs_read of a medium serves; for anything else it asserts.
Readable(n) ==
  n # None /\ (nodes[n].fs = "atapi" \/ (nodes[n].fs = "cdfs" /\ nodes[n].type = "FILE"))
NormalRecords(recs) ==
  LET of[k \in 0..Len(recs)] ==
        IF k = 0 THEN <<>>
        ELSE IF Normal(recs[k]) THEN Append(of[k - 1], recs[k]) ELSE of[k - 1]
  IN  of[Len(recs)]

\* The directory is one of the disc, by its own record and by where it is read
\* from now.  A file is too short to be a medium: the read leaves the record
\* (CDFS_create_fs) or the buffer (readdir) as they were.
OnDisc(n) == End(nodes, nodes[n].cdrom) = CDROM /\ nodes[n].lba \in DOMAIN Disc
Records(n) == IF OnDisc(n) THEN NormalRecords(Disc[nodes[n].lba]) ELSE <<>>

\* Mutant: the cache is not looked at.
UncachedAlways(n) == nodes[n].fs = "cdfs" /\ nodes[n].type = "DIR"

Uncached(n) == nodes[n].fs = "cdfs" /\ nodes[n].type = "DIR" /\ nodes[n].kids = None

Loaded(n) ==
  IF ~Uncached(n) THEN nodes
  ELSE LET recs == Records(n)
           cache == [i \in DOMAIN recs |-> Len(nodes) + i]
       IN  [nodes EXCEPT ![n].kids = cache]
             \o [i \in DOMAIN recs |-> FromRecord(n, recs[i])]

\* An uncached directory that passes the assertions before its records are read
Legible(n) == nodes[n].lba \notin Long /\ Readable(End(nodes, nodes[n].cdrom))

\* Directories whose readdir does not assert, and those of which it reads what
\* no read has put there
Listable(n) ==
  /\ nodes[n].fs \in {"ramfs", "cdfs"} /\ nodes[n].type = "DIR"
  /\ Uncached(n) => Legible(n) /\ OnDisc(n)
  /\ Len(Loaded(n)) <= MaxNodes
Garbled(n) == Uncached(n) /\ Legible(n) /\ ~OnDisc(n)

(* vfs_finddir: the first entry of the name *)

\* Mutant: the last entry of the name.
ChildLast(ns, n, name) ==
  IF ns[n].kids = None THEN None
  ELSE LET I == {i \in DOMAIN ns[n].kids : ns[ns[n].kids[i]].name = name}
       IN  IF I = {} THEN None ELSE ns[n].kids[CHOOSE i \in I : \A j \in I : j <= i]

Child(ns, n, name) ==
  IF ns[n].kids = None THEN None
  ELSE LET I == {i \in DOMAIN ns[n].kids : ns[ns[n].kids[i]].name = name}
       IN  IF I = {} THEN None ELSE ns[n].kids[CHOOSE i \in I : \A j \in I : i <= j]

(* ramfs_createNode, ensureSize *)

AlignTo(val, alignment) == ((val + alignment - 1) \div alignment) * alignment

\* Mutant: room is made for the entries there are.
CapacityShort(n) ==
  LET size == Len(nodes[n].kids)
  IN  IF size > nodes[n].cap THEN AlignTo(size, DIR_STEP) ELSE nodes[n].cap

Capacity(n) ==
  LET size == Len(nodes[n].kids) + 1
  IN  IF size > nodes[n].cap THEN AlignTo(size, DIR_STEP) ELSE nodes[n].cap

Creatable(n) == nodes[n].fs = "ramfs" /\ nodes[n].type = "DIR" /\ Len(nodes) < MaxNodes

Created(n, name, type) ==
  Append([nodes EXCEPT ![n].cap = Capacity(n), ![n].kids = Append(@, Len(nodes) + 1)],
         Node(name, "ramfs", type))

-----------------------------------------------------------------------------
Idle == [op |-> "none", path |-> <<>>, target |-> <<>>, node |-> None, index |-> 0]

\* The static nodes: the root of no file system, and the drive.
Init ==
  /\ nodes = <<Node(Empty, "none", "DIR"), Node(Empty, "atapi", "BLOCK")>>
  /\ pc = "idle" /\ call = Idle
  /\ nd = ROOT /\ rest = <<>> /\ src = None
  /\ found = None

Called(c, at, path) ==
  /\ pc = "idle"
  /\ call' = c
  /\ nd' = at /\ rest' = path
  /\ UNCHANGED <<nodes, src, found>>

Mounts == Cardinality({n \in DOMAIN nodes : nodes[n].pointer # None})

LookupCall(p) == Called([Idle EXCEPT !.op = "lookup", !.path = p], ROOT, p) /\ pc' = "lookup"

MountCall(p, n) ==
  /\ Mounts < MaxMounts
  /\ Called([Idle EXCEPT !.op = "mount", !.path = p, !.node = n], ROOT, p)
  /\ pc' = "lookup"

MountFsCall(target, source) ==
  /\ Mounts < MaxMounts
  /\ Called([Idle EXCEPT !.op = "mount_fs", !.path = source, !.target = target], ROOT, source)
  /\ pc' = "lookup"

\* vfs_create, vfs_mkdir, vfs_finddir of a name, and vfs_readdir, on a node
NodeCall(op, n, name, i) ==
  Called([Idle EXCEPT !.op = op, !.node = n, !.index = i], n, <<name>>) /\ pc' = "node"

\* ramfs_create_fs, called by the one who mounts it
RamfsCreateFs ==
  /\ pc = "idle" /\ Len(nodes) < MaxNodes
  /\ nodes' = Append(nodes, Node(Empty, "ramfs", "DIR"))
  /\ UNCHANGED <<pc, call, nd, rest, src, found>>

(* lookup *)

\* Mutant: the pointer's own node is asked again.
FollowNot ==
  /\ pc \in {"lookup", "node"} /\ nodes[nd].pointer # None
  /\ UNCHANGED vars

\* Every call on a node goes to its pointer first.
Follow ==
  /\ pc \in {"lookup", "node"} /\ nodes[nd].pointer # None
  /\ nd' = nodes[nd].pointer
  /\ UNCHANGED <<nodes, pc, call, rest, src, found>>

Here(p) == pc = p /\ nodes[nd].pointer = None
Step == Here("lookup") /\ rest # <<Empty>>
Beyond == IF Len(rest) = 1 THEN <<Empty>> ELSE Tail(rest)

LookupFind ==
  /\ Step /\ Listable(nd)
  /\ nodes' = Loaded(nd)
  /\ Child(nodes', nd, Head(rest)) # None
  /\ nd' = Child(nodes', nd, Head(rest)) /\ rest' = Beyond
  /\ UNCHANGED <<pc, call, src, found>>

\* Mutant: the entry is not looked for.
LookupCreateAgain ==
  /\ Step /\ Listable(nd) /\ Creatable(nd)
  /\ nodes' = Created(nd, Head(rest), IF Len(rest) = 1 THEN "FILE" ELSE "DIR")
  /\ nd' = Len(nodes') /\ rest' = Beyond
  /\ UNCHANGED <<pc, call, src, found>>

\* A missing directory is made by vfs_mkdir, a missing file by vfs_create.
LookupCreate ==
  /\ Step /\ Listable(nd) /\ Creatable(nd)
  /\ Child(nodes, nd, Head(rest)) = None
  /\ nodes' = Created(nd, Head(rest), IF Len(rest) = 1 THEN "FILE" ELSE "DIR")
  /\ nd' = Len(nodes') /\ rest' = Beyond
  /\ UNCHANGED <<pc, call, src, found>>

Halt == pc' = "halted" /\ UNCHANGED <<nodes, call, nd, rest, src, found>>

\* An assertion fails, or readdir's loop runs over what happens to be in the
\* buffer.
Stop ==
  /\ pc' = IF Garbled(nd) THEN "wild" ELSE "halted"
  /\ UNCHANGED <<nodes, call, nd, rest, src, found>>

LookupStop ==
  /\ Step
  /\ \/ ~Listable(nd)
     \/ Child(Loaded(nd), nd, Head(rest)) = None /\ ~Creatable(nd)
  /\ Stop

(* What vfs_lookup's caller does with the node *)

Arrived(op) == Here("lookup") /\ rest = <<Empty>> /\ call.op = op
Return == pc' = "idle" /\ call' = Idle /\ nd' = ROOT /\ rest' = <<>> /\ src' = None

Lookup ==
  /\ Arrived("lookup")
  /\ found' \in {found, <<call.path, nd>>}
  /\ Return
  /\ UNCHANGED nodes

Plain(p) == IF Last(p) = Empty THEN Front(p) ELSE p
Under(p, q) == IsPrefix(Plain(q), Plain(p))

WaysIn(ns, n) ==
  Cardinality({m \in DOMAIN ns : ns[m].pointer = n})
    + Cardinality({m \in DOMAIN ns : ns[m].kids # None /\ \E i \in DOMAIN ns[m].kids : ns[m].kids[i] = n})
IsTree(ns) == ~Looped(ns) /\ WaysIn(ns, ROOT) = 0 /\ \A n \in DOMAIN ns : WaysIn(ns, n) <= 1

\* What is known after n was mounted at p: where a node could be reached in two
\* ways, nothing; otherwise p, and every path that does not lead through p.
Shown(ns, p, n) ==
  IF IsTree(ns)
    THEN {<<p, End(ns, n)>>, IF found # None /\ Under(found[1], p) THEN None ELSE found}
    ELSE {None}

\* assert(p && p->pointer == NULL): lookup returns no NULL, and vfs_lookup no
\* node that has a pointer.
Mount ==
  /\ Arrived("mount")
  /\ nodes' = [nodes EXCEPT ![nd].pointer = call.node]
  /\ found' \in Shown(nodes', call.path, call.node)
  /\ Return

MountFsSource ==
  /\ Arrived("mount_fs") /\ src = None
  /\ src' = nd
  /\ nd' = ROOT /\ rest' = call.target
  /\ UNCHANGED <<nodes, pc, call, found>>

\* CDFS_create_fs reads the root's record, of which a file gives nothing.
RootRecord(n) == IF n = CDROM THEN RootExtent ELSE None

\* Mutant: the node that is mounted is not the one that is made.
MountFsAhead ==
  /\ Arrived("mount_fs") /\ src # None
  /\ Readable(src) /\ Len(nodes) < MaxNodes
  /\ LET new == [Node(Empty, "cdfs", "DIR") EXCEPT !.cdrom = src, !.lba = RootRecord(src)]
     IN  nodes' = Append([nodes EXCEPT ![nd].pointer = Len(nodes) + 2], new)
  /\ found' = found
  /\ Return

MountFs ==
  /\ Arrived("mount_fs") /\ src # None
  /\ Readable(src) /\ Len(nodes) < MaxNodes
  /\ LET new == [Node(Empty, "cdfs", "DIR") EXCEPT !.cdrom = src, !.lba = RootRecord(src)]
     IN  nodes' = Append([nodes EXCEPT ![nd].pointer = Len(nodes) + 1], new)
  /\ found' \in Shown(nodes', call.target, Len(nodes'))
  /\ Return

MountFsHalt ==
  /\ Arrived("mount_fs") /\ src # None
  /\ ~Readable(src) \/ Len(nodes) = MaxNodes
  /\ Halt

(* Calls on a node *)

Creating == Here("node") /\ call.op \in {"create", "mkdir"}

NodeCreate ==
  /\ Creating /\ Creatable(nd)
  /\ nodes' = Created(nd, Head(rest), IF call.op = "create" THEN "FILE" ELSE "DIR")
  /\ Return
  /\ UNCHANGED found

NodeCreateHalt == Creating /\ ~Creatable(nd) /\ Halt

Listing == Here("node") /\ call.op \in {"finddir", "readdir"}

\* The cache of a cdfs directory ends with a NULL, and its bounds are nobody's.
PastEnd ==
  call.op = "readdir" /\ nodes[nd].fs = "cdfs" /\ call.index > Len(Loaded(nd)[nd].kids)

NodeList ==
  /\ Listing /\ Listable(nd)
  /\ nodes' = Loaded(nd)
  /\ IF PastEnd
       THEN pc' = "wild" /\ UNCHANGED <<call, nd, rest, src>>
       ELSE Return
  /\ UNCHANGED found

NodeListStop == Listing /\ ~Listable(nd) /\ Stop

-----------------------------------------------------------------------------
LookupStep == Follow \/ LookupFind \/ LookupCreate \/ LookupStop \/ Lookup
MountStep == Mount \/ MountFsSource \/ MountFs \/ MountFsHalt
NodeStep == NodeCreate \/ NodeCreateHalt \/ NodeList \/ NodeListStop

Next ==
  \/ \E p \in Paths : LookupCall(p)
  \/ \E p \in Paths, n \in DOMAIN nodes : MountCall(p, n)
  \/ \E p, q \in Paths : MountFsCall(p, q)
  \/ \E n \in DOMAIN nodes, name \in Name, op \in {"create", "mkdir"} :
       NodeCall(op, n, name, 0)
  \/ \E n \in DOMAIN nodes : NodeCall("finddir", n, Empty, 0)
  \/ \E n \in DOMAIN nodes, i \in 0..MaxIndex : NodeCall("readdir", n, Empty, i)
  \/ RamfsCreateFs
  \/ LookupStep \/ MountStep \/ NodeStep

Spec == Init /\ [][Next]_vars

\* A call that was made runs on: there is one thread.
FairSpec == Spec /\ WF_vars(LookupStep \/ MountStep \/ NodeStep)

-----------------------------------------------------------------------------
(* Properties *)

NodeType ==
  [name : Name \cup {Empty}, fs : {"none", "atapi", "ramfs", "cdfs"},
   type : {"DIR", "FILE", "BLOCK"}, pointer : DOMAIN nodes \cup {None},
   kids : Seq(DOMAIN nodes) \cup {None}, cap : Nat,
   cdrom : DOMAIN nodes \cup {None}, lba : Nat \cup {None}]

\* Every variable keeps its range, every pointer is to a node.
TypeOK ==
  /\ nodes \in Seq(NodeType) /\ Len(nodes) \in 2..MaxNodes
  /\ pc \in {"idle", "lookup", "node", "halted", "wild"}
  /\ call.op \in Ops \cup {"none"} /\ call.node \in DOMAIN nodes \cup {None}
  /\ nd \in DOMAIN nodes /\ src \in DOMAIN nodes \cup {None}
  /\ rest \in Seq(Name \cup {Empty})
  /\ found \in (Paths \X DOMAIN nodes) \cup {None}

\* The node a path leads to when nothing needs to be made on the way
Resolve(path) ==
  LET names == Plain(path)
      at[k \in 0..Len(names)] ==
        LET from == at[k - 1]
            child == IF from = None THEN None ELSE Child(nodes, from, names[k])
        IN  IF k = 0 THEN End(nodes, ROOT)
            ELSE IF child = None THEN None ELSE End(nodes, child)
  IN  at[Len(names)]

\* A path that was looked up keeps its node, whatever else is looked up, made,
\* listed or, while no node can be reached in two ways, mounted elsewhere; and
\* a path that was mounted on shows what was mounted.
PathsKeep == found # None => Resolve(found[1]) = found[2]

\* A directory's entries stay within the memory that ensureSize got for them.
InCapacity ==
  \A n \in DOMAIN nodes : nodes[n].fs = "ramfs" => Len(nodes[n].kids) <= nodes[n].cap

\* The tree of nodes is well formed at every step of every call.
Intact == TypeOK /\ InCapacity

\* Every call returns, stops the machine or is lost in what nobody wrote, unless
\* a node was mounted on itself.
CallReturns ==
  pc \in {"lookup", "node"} /\ ~Looped(nodes) ~> pc \notin {"lookup", "node"}

=============================================================================
