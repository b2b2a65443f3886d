------------------------------- MODULE Atapi -------------------------------
(***************************************************************************)
(* bootmgr/vfs/atapi.c, the driver of the disc drive, with the drives as   *)
(* its environment, and the read of a file that cdfs.c makes of it.        *)
(*                                                                         *)
(* The driver polls: a step of it that reads a status is enabled only when *)
(* the status lets it go on, so that polling in vain is a stutter.  A byte *)
(* of the disc is named by its place on it.                                *)
(***************************************************************************)
EXTENDS Integers, FiniteSets

CONSTANTS
  SECTOR,      \* 2048
  WORD,        \* 2 ^ 32
  Sectors,     \* the sectors on the disc
  Wirings,     \* what may be attached: drive -> "atapi", "disk", "none", or
               \* "floating", both drives of a bus on which nothing is
  Fallible,    \* whether drives may fail a command they could serve
  Requests,    \* the reads of the disc, <<offset, size>>
  Files,       \* the files on it, [lba, size]
  MaxSize,     \* bound: the largest size requested
  None

Primary == "primary"
Secondary == "secondary"
Bus == {Primary, Secondary}
MASTER == 0
SLAVE == 1
Drive == Bus \X {MASTER, SLAVE}

VARIABLES
  kind, status, job,   \* the drives: what they are, what they show, and the
                       \* command they are at
  selected,            \* per bus, the drive that listens
  dev, device,         \* the driver's: the drive it last selected on each bus,
                       \* and the one it uses
  length, buf,         \* node.length, and the sector in buf
  pc, ret, work,       \* the driver's place, where it is called from, and the
                       \* packet it sends
  off, sz, at,         \* read's offset, size, and place in the caller's buffer
  out,                 \* the caller's buffer
  asked                \* history: the read that was asked for

drives == <<kind, status, job, selected>>
reading == <<off, sz, at, out, asked>>
vars == <<drives, dev, device, length, buf, pc, ret, work, reading>>

ASSUME SectorAssumption ==
  /\ SECTOR \in Nat \ {0} /\ WORD \in Nat /\ WORD % SECTOR = 0
  /\ Sectors \in Nat \ {0} /\ MaxSize \in Nat

\* The disc is smaller than 2 ^ 32 bytes, which the driver cannot tell apart.
ASSUME DiscAssumption == Sectors * SECTOR < WORD

\* NULL, where a variable has nothing
ASSUME NoneAssumption == None \notin Nat /\ None \notin Drive

ASSUME RequestAssumption ==
  /\ \A r \in Requests : r \in Nat \X (0..MaxSize) /\ r[1] + r[2] <= Sectors * SECTOR
  /\ \A f \in Files : f \in [lba : Nat, size : Nat] /\ f.lba * SECTOR + f.size <= Sectors * SECTOR

-----------------------------------------------------------------------------
(* The drives: what the driver's port reads and writes meet *)

Listening == <<device[1], selected[device[1]]>>

Busy(d) == kind[d] = "floating" \/ status[d] = "busy"
Ready(d) == kind[d] = "floating" \/ status[d] \in {"packet", "data"}
Error(d) == kind[d] = "floating" \/ status[d] = "error"

\* A command: 0xA1, IDENTIFY PACKET DEVICE, or 0xA0, PACKET
Command(c) ==
  LET d == Listening
  IN  /\ status' = [status EXCEPT ![d] = IF kind[d] \in {"atapi", "disk"} THEN "busy" ELSE @]
      /\ job' = [job EXCEPT ![d] = c]

Served(d) ==
  CASE job[d][1] = "packet" -> "packet"
    [] job[d][1] = "sector" /\ job[d][2] >= Sectors -> "error"
    [] OTHER -> "data"

\* A drive ends what it is at; one that is no disc drive knows none of this.
DriveStep ==
  \E d \in Drive :
    /\ status[d] = "busy"
    /\ \E s \in {Served(d)} \cup (IF Fallible THEN {"error"} ELSE {}) :
         status' = [status EXCEPT ![d] = IF kind[d] = "atapi" THEN s ELSE "error"]
    /\ UNCHANGED <<kind, job, selected, dev, device, length, buf, pc, ret, work, reading>>

\* The data is taken; the driver does not wait for the drive to say it is done,
\* and the drive is taken to be done at once.
Taken == status' = [status EXCEPT ![Listening] = "idle"]

-----------------------------------------------------------------------------
Idle == /\ pc' = "idle" /\ ret' = "none" /\ work' = <<"none", 0>>

Init ==
  /\ kind \in Wirings
  /\ status = [d \in Drive |-> "idle"] /\ job = [d \in Drive |-> <<"none", 0>>]
  /\ selected \in [Bus -> {MASTER, SLAVE}]
  /\ dev = [b \in Bus |-> None] /\ device = <<Secondary, MASTER>>
  /\ length = 0 /\ buf = None
  /\ pc = "select" /\ ret = "identify" /\ work = <<"none", 0>>
  /\ off = 0 /\ sz = 0 /\ at = 0 /\ out = [k \in 0..(MaxSize - 1) |-> None]
  /\ asked = None

Driver(place) == pc = place /\ UNCHANGED <<kind, asked>>

\* Mutant: what is selected is remembered for one bus only.
SelectOne ==
  /\ Driver("select")
  /\ dev' = [b \in Bus |-> device[2]]
  /\ selected' = IF dev[device[1]] = device[2] THEN selected
                 ELSE [selected EXCEPT ![device[1]] = device[2]]
  /\ pc' = "command"
  /\ UNCHANGED <<status, job, device, length, buf, ret, work, off, sz, at, out>>

(* ATA_select *)
Select ==
  /\ Driver("select")
  /\ dev' = [dev EXCEPT ![device[1]] = device[2]]
  /\ selected' = IF dev[device[1]] = device[2] THEN selected
                 ELSE [selected EXCEPT ![device[1]] = device[2]]
  /\ pc' = "command"
  /\ UNCHANGED <<status, job, device, length, buf, ret, work, off, sz, at, out>>

\* What identify and packet do after ATA_select
IssueIdentify ==
  /\ Driver("command") /\ ret = "identify"
  /\ Command(<<"identify", 0>>)
  /\ pc' = "answer"
  /\ UNCHANGED <<selected, dev, device, length, buf, ret, work, off, sz, at, out>>

\* if (readPort8(status) == 0) return false: no drive is there.
Answer ==
  /\ Driver("answer")
  /\ pc' = IF kind[Listening] = "none" THEN "failed" ELSE "busy"
  /\ UNCHANGED <<status, job, selected, dev, device, length, buf, ret, work, off, sz, at, out>>

IssuePacket ==
  /\ Driver("command") /\ ret = "packet"
  /\ Command(<<"packet", 0>>)
  /\ pc' = "busy"
  /\ UNCHANGED <<selected, dev, device, length, buf, ret, work, off, sz, at, out>>

(* ATA_waitDevice *)

\* Mutant: only BSY ends the first loop.
WaitBusyOnly ==
  /\ Driver("busy")
  /\ ~Busy(Listening) /\ pc' = "wait"
  /\ UNCHANGED <<status, job, selected, dev, device, length, buf, ret, work, off, sz, at, out>>

\* The first loop ends when BSY is clear, or set with ERR.
WaitBusy ==
  /\ Driver("busy")
  /\ \/ ~Busy(Listening) /\ pc' = "wait"
     \/ Busy(Listening) /\ Error(Listening) /\ pc' = "failed"
  /\ UNCHANGED <<status, job, selected, dev, device, length, buf, ret, work, off, sz, at, out>>

\* Mutant: that BSY is clear is taken for DRQ.
WaitReadyNot ==
  /\ Driver("wait")
  /\ pc' = "ready"
  /\ UNCHANGED <<status, job, selected, dev, device, length, buf, ret, work, off, sz, at, out>>

\* The second loop ends with DRQ or ERR.
WaitReady ==
  /\ Driver("wait")
  /\ \/ Ready(Listening) /\ pc' = "ready"
     \/ ~Ready(Listening) /\ Error(Listening) /\ pc' = "failed"
  /\ UNCHANGED <<status, job, selected, dev, device, length, buf, ret, work, off, sz, at, out>>

\* repWritePort16 of the packet, then ATA_waitDevice again
SendPacket ==
  /\ Driver("ready") /\ ret = "packet"
  /\ Command(work)
  /\ ret' = "result" /\ pc' = "busy"
  /\ UNCHANGED <<selected, dev, device, length, buf, work, off, sz, at, out>>

(* ATAPI_init *)

Packet(w) == pc' = "select" /\ ret' = "packet" /\ work' = w

\* identify reads 512 bytes into buf and is true: ATAPI_readCapacity follows.
Identified ==
  /\ Driver("ready") /\ ret = "identify"
  /\ Taken
  /\ buf' = None
  /\ Packet(<<"capacity", 0>>)
  /\ UNCHANGED <<job, selected, dev, device, length, off, sz, at, out>>

\* The drives in the order they are tried
After(d) ==
  CASE d = <<Secondary, MASTER>> -> <<Secondary, SLAVE>>
    [] d = <<Secondary, SLAVE>> -> <<Primary, SLAVE>>
    [] d = <<Primary, SLAVE>> -> <<Primary, MASTER>>
    [] OTHER -> None

\* Mutant: the second slave is not tried.
NextDriveSkips ==
  /\ Driver("failed") /\ ret = "identify"
  /\ IF device = <<Primary, MASTER>>
       THEN pc' = "halted" /\ UNCHANGED device
       ELSE pc' = "select" /\ device' = IF device[1] = Secondary THEN <<Primary, MASTER>> ELSE <<Secondary, SLAVE>>
  /\ UNCHANGED <<status, job, selected, dev, length, buf, ret, work, off, sz, at, out>>

\* assert(0): no drive is left.
NextDrive ==
  /\ Driver("failed") /\ ret = "identify"
  /\ IF After(device) = None
       THEN pc' = "halted" /\ UNCHANGED device
       ELSE pc' = "select" /\ device' = After(device)
  /\ UNCHANGED <<status, job, selected, dev, length, buf, ret, work, off, sz, at, out>>

\* ATAPI_readCapacity: (last sector + 1) * size of a sector, or 0
Capacity ==
  /\ work[1] = "capacity"
  /\ \/ Driver("ready") /\ ret = "result" /\ Taken /\ length' = (Sectors * SECTOR) % WORD
     \/ Driver("failed") /\ ret # "identify" /\ length' = 0 /\ UNCHANGED status
  /\ Idle
  /\ UNCHANGED <<job, selected, dev, device, buf, off, sz, at, out>>

-----------------------------------------------------------------------------
(* read *)

AlignDown(val) == (val \div SECTOR) * SECTOR
AlignTo(val) == AlignDown(val + SECTOR - 1) % WORD

Reading(o, n, who) ==
  /\ pc = "idle"
  /\ asked' = who
  /\ off' = o % WORD /\ sz' = n % WORD /\ at' = 0
  /\ out' = [k \in DOMAIN out |-> None]
  /\ UNCHANGED <<drives, dev, device, length, buf, ret, work>>

ReadCall(o, n) == Reading(o, n, [lba |-> 0, first |-> o, last |-> o + n]) /\ pc' = "read"

\* cdfs read: what is left of the file from an offset on
Cut(f, o, n) == IF o + n > f.size THEN f.size - o ELSE n

Asked(f, o, n) ==
  [lba |-> f.lba, first |-> o, last |-> IF o + n > f.size THEN f.size ELSE o + n]

FileReadCall(f, o, n) ==
  /\ o <= f.size
  /\ Reading(((f.lba * SECTOR) % WORD) + o, Cut(f, o, n), Asked(f, o, n))
  /\ pc' = "read"

\* return 0: the offset is behind the end of the file.
FileReadPast(f, o, n) ==
  /\ pc = "idle" /\ o > f.size
  /\ asked' = Asked(f, o, n)
  /\ out' = [k \in DOMAIN out |-> None]
  /\ UNCHANGED <<drives, dev, device, length, buf, pc, ret, work, off, sz, at>>

\* ATAPI_readSector
ReadSector(s) == Packet(<<"sector", s>>)

ReadUnaligned ==
  /\ Driver("read") /\ AlignTo(off) # off
  /\ ReadSector(AlignDown(off) \div SECTOR)
  /\ UNCHANGED <<status, job, selected, dev, device, length, buf, off, sz, at, out>>

ReadAligned ==
  /\ Driver("read") /\ AlignTo(off) = off
  /\ ReadSector(off \div SECTOR)
  /\ UNCHANGED <<status, job, selected, dev, device, length, buf, off, sz, at, out>>

\* assert(count == 2048)
AssertSector ==
  /\ Driver("failed") /\ ret # "identify" /\ work[1] = "sector"
  /\ pc' = "halted"
  /\ UNCHANGED <<status, job, selected, dev, device, length, buf, ret, work, off, sz, at, out>>

\* memcpy(buffer, from, n), for a sector that starts skip bytes before from
Copied(skip, n) ==
  [k \in DOMAIN out |->
     IF at <= k /\ k < at + n THEN work[2] * SECTOR + skip + (k - at) ELSE out[k]]

Sector == Driver("ready") /\ ret = "result" /\ work[1] = "sector" /\ Taken

\* Mutant: a whole sector is taken off the size for its first part, too.
GoOnWhole(n) ==
  /\ off' = (off + n) % WORD /\ sz' = sz - SECTOR /\ at' = at + n
  /\ pc' = "read" /\ ret' = "none" /\ work' = <<"none", 0>>

GoOn(n) ==
  /\ off' = (off + n) % WORD /\ sz' = sz - n /\ at' = at + n
  /\ pc' = "read" /\ ret' = "none" /\ work' = <<"none", 0>>

\* Mutant: what follows the first part starts where the first part did.
GotFirstAgain ==
  /\ Sector /\ AlignTo(off) # off
  /\ LET n == (AlignTo(off) - off) % WORD
     IN  IF n > sz
           THEN out' = Copied(off - AlignDown(off), sz) /\ Idle /\ UNCHANGED <<off, sz, at>>
           ELSE /\ out' = Copied(off - AlignDown(off), n)
                /\ off' = (off + n) % WORD /\ sz' = sz - n /\ at' = at
                /\ pc' = "read" /\ ret' = "none" /\ work' = <<"none", 0>>
  /\ buf' = work[2]
  /\ UNCHANGED <<job, selected, dev, device, length>>

\* The part of the first sector from the offset on
GotFirst ==
  /\ Sector /\ AlignTo(off) # off
  /\ LET n == (AlignTo(off) - off) % WORD
     IN  IF n > sz
           THEN out' = Copied(off - AlignDown(off), sz) /\ Idle /\ UNCHANGED <<off, sz, at>>
           ELSE out' = Copied(off - AlignDown(off), n) /\ GoOn(n)
  /\ buf' = work[2]
  /\ UNCHANGED <<job, selected, dev, device, length>>

\* A whole sector, straight into the caller's buffer
GotWhole ==
  /\ Sector /\ AlignTo(off) = off /\ sz >= SECTOR
  /\ out' = Copied(0, SECTOR)
  /\ IF sz = SECTOR THEN Idle /\ UNCHANGED <<off, sz, at>> ELSE GoOn(SECTOR)
  /\ UNCHANGED <<job, selected, dev, device, length, buf>>

\* The part of the last sector up to the end, even if that part is empty
GotLast ==
  /\ Sector /\ AlignTo(off) = off /\ sz < SECTOR
  /\ out' = Copied(0, sz)
  /\ buf' = work[2]
  /\ Idle
  /\ UNCHANGED <<job, selected, dev, device, length, off, sz, at>>

-----------------------------------------------------------------------------
DriverStep ==
  \/ Select \/ IssueIdentify \/ Answer \/ IssuePacket \/ WaitBusy \/ WaitReady
  \/ SendPacket \/ Identified \/ NextDrive \/ Capacity
  \/ ReadUnaligned \/ ReadAligned \/ AssertSector \/ GotFirst \/ GotWhole \/ GotLast

Next ==
  \/ DriverStep
  \/ DriveStep
  \/ \E r \in Requests : ReadCall(r[1], r[2])
  \/ \E f \in Files, o \in 0..(MaxSize + 1), n \in 0..MaxSize :
       FileReadCall(f, o, n) \/ FileReadPast(f, o, n)

Spec == Init /\ [][Next]_vars

\* The driver runs on, and a drive that is busy ends what it does.
FairSpec == Spec /\ WF_vars(DriverStep) /\ WF_vars(DriveStep)

-----------------------------------------------------------------------------
(* Properties *)

Place ==
  {"select", "command", "answer", "busy", "wait", "ready", "failed", "idle", "read", "halted"}
Job == {"none", "identify", "packet", "capacity", "sector"} \X Nat

\* Every variable keeps its range.
TypeOK ==
  /\ status \in [Drive -> {"idle", "busy", "packet", "data", "error"}]
  /\ job \in [Drive -> Job] /\ selected \in [Bus -> {MASTER, SLAVE}]
  /\ dev \in [Bus -> {MASTER, SLAVE, None}] /\ device \in Drive
  /\ length \in 0..(WORD - 1) /\ buf \in Nat \cup {None}
  /\ pc \in Place /\ ret \in {"none", "identify", "packet", "result"} /\ work \in Job
  /\ off \in 0..(WORD - 1) /\ sz \in 0..(WORD - 1) /\ at \in 0..MaxSize
  /\ DOMAIN out = 0..(MaxSize - 1)
  /\ \A k \in DOMAIN out : out[k] \in Nat \cup {None}

\* The drive that the driver's commands reach is the one it means, although
\* ATA_select trusts its own record of what it selected.
Addressed ==
  pc \in {"command", "answer", "busy", "wait", "ready"} => Listening = device

\* The driver takes data and sends packets only when the drive is ready for
\* just that: no answer of one command is taken for another's.
InStep ==
  pc = "ready" =>
    CASE ret = "identify" -> status[device] = "data" /\ job[device][1] = "identify"
      [] ret = "packet" -> status[device] = "packet"
      [] OTHER -> status[device] = "data" /\ job[device] = work

\* The driver and the drives agree at every step.
Intact == TypeOK /\ Addressed /\ InStep

\* The boot uses a disc drive, and stops only for want of one that answers.
DriveFound ==
  /\ ret # "identify" /\ pc # "halted" => kind[device] = "atapi"
  /\ ret = "identify" /\ pc = "halted" =>
       \A d \in Drive : kind[d] = "atapi" => status[d] = "error"

\* A read that returned has filled the caller's buffer with the bytes asked
\* for, up to the end of the file, and nothing else of it.
ReadExact ==
  asked # None /\ pc = "idle" =>
    \A k \in DOMAIN out :
      out[k] = IF asked.first + k < asked.last
                 THEN asked.lba * SECTOR + asked.first + k ELSE None

\* assert(count == 2048) in ATAPI_readSector: a read within the disc, served by
\* a drive that does not fail, does not stop the machine.
ReadNeverHalts == ~Fallible /\ asked # None => pc # "halted"

\* ATAPI_init and every read return, or stop the machine.
CallReturns == pc \notin {"idle", "halted"} ~> pc \in {"idle", "halted"}

=============================================================================
