---------------------------- MODULE AtapiProofs ----------------------------
(***************************************************************************)
(* Theorems about Atapi: the driver and its drives stay in step, the boot  *)
(* finds a disc drive if one answers, and a read returns the bytes asked   *)
(* for, for every size of a sector, disc and buffer, every attachment of   *)
(* drives and whatever commands the drives fail.                           *)
(***************************************************************************)
EXTENDS Atapi, Arithmetic, TLAPS

\* ATA_select's record of a bus is right where it has one.
Known == \A b \in Bus : dev[b] # None => selected[b] = dev[b]

\* Only a disc or a disk takes commands, and only a disc comes to an answer,
\* which fits its command.
Answers ==
  \A d \in Drive :
    /\ status[d] # "idle" => kind[d] \in {"atapi", "disk"}
    /\ status[d] \in {"packet", "data"} =>
         kind[d] = "atapi" /\ (status[d] = "packet" <=> job[d][1] = "packet")

\* What is being done at each place
Phase ==
  /\ pc \in {"idle", "read"} <=> ret = "none"
  /\ pc \in {"select", "command"} => ret # "result"
  /\ pc = "answer" => ret = "identify"
  /\ ret \in {"packet", "result"} => work[1] \in {"capacity", "sector"}
  /\ ret = "identify" \/ (ret # "none" /\ work[1] = "capacity") => asked = None

\* The command that the driver waits for is the one its drive is at.
Waiting ==
  /\ pc \in {"answer", "busy", "wait", "ready"} =>
       /\ ret = "identify" => job[device] = <<"identify", 0>>
       /\ ret = "packet" => job[device][1] = "packet"
       /\ ret = "result" => job[device] = work
  /\ pc \in {"wait", "ready"} => kind[device] # "floating"
  /\ pc = "ready" => status[device] \in {"packet", "data"}

\* The drives that were tried before the one at hand
Tried ==
  {d \in Drive :
     \/ device = <<Secondary, SLAVE>> /\ d = <<Secondary, MASTER>>
     \/ device = <<Primary, SLAVE>> /\ d[1] = Secondary
     \/ device = <<Primary, MASTER>> /\ d # device}

\* Every disc drive among them has failed.
Failed(d) == kind[d] = "atapi" => status[d] = "error"

Search ==
  /\ ret # "identify" => kind[device] = "atapi"
  /\ ret = "identify" => \A d \in Tried : Failed(d)
  /\ ret = "identify" /\ pc = "failed" => Failed(device)
  /\ ret = "identify" /\ pc = "halted" => \A d \in Drive : Failed(d)

InRead == pc = "read" \/ (ret \in {"packet", "result"} /\ work[1] = "sector")

\* Of a read, the first at bytes are in the caller's buffer, and off and sz say
\* what is left.
Progress ==
  InRead =>
    /\ asked \in [lba : Nat, first : Nat, last : Nat]
    /\ off = asked.lba * SECTOR + asked.first + at
    /\ asked.first + at + sz = asked.last
    /\ at + sz <= MaxSize /\ off + sz <= Sectors * SECTOR
    /\ \A k \in 0..(MaxSize - 1) :
         out[k] = IF k < at THEN asked.lba * SECTOR + asked.first + k ELSE None
    /\ pc # "read" => work[2] = off \div SECTOR

AInv ==
  /\ TypeOK /\ Known /\ Addressed /\ Answers /\ Phase /\ Waiting /\ Search
  /\ Progress /\ ReadExact

-----------------------------------------------------------------------------
(* Sectors                                                                 *)

LEMMA Disc ==
  /\ SECTOR \in Nat \ {0} /\ WORD \in Nat \ {0} /\ Sectors \in Nat /\ MaxSize \in Nat
  /\ Sectors * SECTOR \in Nat /\ Sectors * SECTOR < WORD
<1>1. SECTOR \in Nat \ {0} /\ WORD \in Nat /\ Sectors \in Nat /\ MaxSize \in Nat
  BY SectorAssumption
<1>2. Sectors * SECTOR \in Nat
  BY <1>1, SMT
<1>3. Sectors * SECTOR < WORD
  BY DiscAssumption
<1> QED
  BY <1>1, <1>2, <1>3

LEMMA Below ==
  ASSUME NEW x \in Nat, x < WORD
  PROVE  x % WORD = x
<1>1. x = 0 * WORD + x /\ x \in 0..(WORD - 1) /\ WORD \in Nat \ {0}
  BY Disc
<1> QED
  BY <1>1, OneQuotient

\* A place on the disc, in its sector
LEMMA InSector ==
  ASSUME NEW x \in Nat
  PROVE  /\ x \div SECTOR \in Nat /\ AlignDown(x) \in Nat
         /\ AlignDown(x) = (x \div SECTOR) * SECTOR
         /\ AlignDown(x) <= x /\ x < AlignDown(x) + SECTOR
         /\ AlignDown(x) \div SECTOR = x \div SECTOR
<1> DEFINE q == x \div SECTOR  r == x % SECTOR  y == q * SECTOR
<1>1. q \in Nat /\ r \in 0..(SECTOR - 1) /\ x = y + r /\ SECTOR \in Nat \ {0}
  BY Disc, DivMod
<1>2. y \in Nat
  BY <1>1, SMT
<1>3. y \div SECTOR = q
  BY <1>1, <1>2, DivUnique
<1>4. AlignDown(x) = y
  BY DEF AlignDown
<1> HIDE DEF q, r, y
<1>5. y <= x /\ x < y + SECTOR
  BY <1>1, <1>2
<1> QED
  BY <1>1, <1>2, <1>3, <1>4, <1>5 DEF q, y

LEMMA NextSector ==
  ASSUME NEW x \in Nat, x <= Sectors * SECTOR
  PROVE  /\ AlignTo(x) = x => AlignDown(x) = x
         /\ AlignTo(x) # x =>
              /\ AlignTo(x) = AlignDown(x) + SECTOR
              /\ AlignDown(x) + SECTOR <= Sectors * SECTOR
<1>0. PICK D, q, y, t : D = Sectors * SECTOR /\ q = x \div SECTOR /\ y = q * SECTOR /\ t = x + SECTOR - 1
  OBVIOUS
<1>1. /\ q \in Nat /\ y \in Nat /\ AlignDown(x) = y /\ y <= x /\ x < y + SECTOR
      /\ SECTOR \in Nat \ {0} /\ D \in Nat /\ Sectors \in Nat /\ D < WORD /\ x <= D /\ t \in Nat
      /\ WORD \in Nat
  <2>1. SECTOR \in Nat \ {0} /\ D \in Nat /\ Sectors \in Nat /\ D < WORD /\ x <= D /\ WORD \in Nat
    BY <1>0, Disc
  <2>2. q \in Nat /\ y \in Nat /\ AlignDown(x) = y /\ y <= x /\ x < y + SECTOR
    BY <1>0, InSector
  <2>3. t \in Nat
    BY <1>0, <2>1
  <2> QED
    BY <2>1, <2>2, <2>3
<1>2. AlignTo(x) = ((t \div SECTOR) * SECTOR) % WORD
  BY <1>0 DEF AlignTo, AlignDown
<1>3. CASE x = y
  <2>1. t = y + (SECTOR - 1) /\ SECTOR - 1 \in 0..(SECTOR - 1)
    BY <1>0, <1>1, <1>3
  <2>2. t \div SECTOR = q
    <3>1. t = q * SECTOR + (SECTOR - 1)
      BY <1>0, <2>1
    <3> QED
      BY <1>1, <2>1, <3>1, OneQuotient
  <2>3. AlignTo(x) = y % WORD
    BY <1>0, <1>2, <2>2
  <2>4. y < WORD
    BY <1>1, <1>3
  <2>5. y % WORD = y
    BY <1>1, <2>4, Below
  <2> QED
    BY <1>1, <1>3, <2>3, <2>5
<1>4. CASE x # y
  <2>1. PICK z : z = (q + 1) * SECTOR
    OBVIOUS
  <2>2. z = y + SECTOR
    BY <1>0, <1>1, <2>1, SMT
  <2>3. t = z + (x - y - 1) /\ x - y - 1 \in 0..(SECTOR - 1) /\ q + 1 \in Nat
    BY <1>0, <1>1, <1>4, <2>2
  <2>4. t \div SECTOR = q + 1
    BY <1>1, <2>1, <2>3, OneQuotient
  <2>5. ~(Sectors < q) /\ Sectors # q
    <3>1. Sectors < q => D + SECTOR <= y
      BY <1>0, <1>1, MulMono
    <3>2. Sectors = q => D = y
      BY <1>0
    <3> QED
      BY <1>1, <1>4, <3>1, <3>2
  <2>6. y + SECTOR <= D
    BY <1>0, <1>1, <2>5, MulMono
  <2>7. AlignTo(x) = z % WORD
    BY <1>2, <2>1, <2>4
  <2>8. z \in Nat /\ z < WORD
    BY <1>1, <2>2, <2>6
  <2>9. z % WORD = z
    BY <2>8, Below
  <2>10. AlignDown(x) + SECTOR <= Sectors * SECTOR
    BY <1>0, <1>1, <2>6
  <2> QED
    BY <1>1, <1>4, <2>2, <2>7, <2>9, <2>10
<1> QED
  BY <1>3, <1>4

-----------------------------------------------------------------------------
(* The driver and its drives                                               *)

\* The calls of read
ReadCalls ==
  \/ \E r \in Requests : ReadCall(r[1], r[2])
  \/ \E f \in Files, o \in 0..(MaxSize + 1), n \in 0..MaxSize :
       FileReadCall(f, o, n) \/ FileReadPast(f, o, n)

LEMMA NextIs == Next <=> DriverStep \/ DriveStep \/ ReadCalls
BY DEF Next, ReadCalls

LEMMA CallsAre ==
  ReadCalls => /\ pc = "idle" /\ pc' \in {"idle", "read"}
               /\ UNCHANGED <<drives, dev, device, length, buf, ret, work>>
<1>1. ASSUME NEW r \in Requests, ReadCall(r[1], r[2])
      PROVE  pc = "idle" /\ pc' = "read" /\ UNCHANGED <<drives, dev, device, length, buf, ret, work>>
  BY <1>1 DEF ReadCall, Reading
<1>2. ASSUME NEW f \in Files, NEW o, NEW n, FileReadCall(f, o, n)
      PROVE  pc = "idle" /\ pc' = "read" /\ UNCHANGED <<drives, dev, device, length, buf, ret, work>>
  BY <1>2 DEF FileReadCall, Reading
<1>3. ASSUME NEW f \in Files, NEW o, NEW n, FileReadPast(f, o, n)
      PROVE  pc = "idle" /\ pc' = "idle" /\ UNCHANGED <<drives, dev, device, length, buf, ret, work>>
  BY <1>3 DEF FileReadPast
<1> QED
  BY <1>1, <1>2, <1>3 DEF ReadCalls

\* The steps that only move the driver, or that leave it
Polls == Answer \/ WaitBusy \/ WaitReady
Moves == ReadUnaligned \/ ReadAligned \/ AssertSector
Commands == IssueIdentify \/ IssuePacket \/ SendPacket
Takes == Identified \/ Capacity \/ GotFirst \/ GotWhole \/ GotLast

LEMMA DriverSteps ==
  DriverStep <=> Select \/ NextDrive \/ Polls \/ Moves \/ Commands \/ Takes
BY DEF DriverStep, Polls, Moves, Commands, Takes

LEMMA Keeps ==
  /\ Next => kind' = kind
  /\ Next => Select \/ UNCHANGED <<selected, dev>>
  /\ Next => NextDrive \/ UNCHANGED device
  /\ Select \/ NextDrive \/ Polls \/ Moves \/ ReadCalls => UNCHANGED <<status, job>>
  /\ Takes => UNCHANGED job
  /\ DriveStep => UNCHANGED <<kind, job, selected, dev, device, pc, ret, work, reading>>
<1>1. Select => UNCHANGED <<kind, status, job, device>>
  BY DEF Select, Driver
<1>2. NextDrive => UNCHANGED <<kind, status, job, selected, dev>>
  BY DEF NextDrive, Driver
<1>3. Polls => UNCHANGED <<kind, status, job, selected, dev, device>>
  BY DEF Polls, Answer, WaitBusy, WaitReady, Driver
<1>4. Moves => UNCHANGED <<kind, status, job, selected, dev, device>>
  BY DEF Moves, ReadUnaligned, ReadAligned, AssertSector, Driver
<1>5. Commands => UNCHANGED <<kind, selected, dev, device>>
  BY DEF Commands, IssueIdentify, IssuePacket, SendPacket, Driver
<1>6. Takes => UNCHANGED <<kind, job, selected, dev, device>>
  BY DEF Takes, Identified, Capacity, GotFirst, GotWhole, GotLast, Sector, Driver
<1>7. ReadCalls => UNCHANGED <<kind, status, job, selected, dev, device>>
  BY CallsAre DEF drives
<1>8. DriveStep => UNCHANGED <<kind, job, selected, dev, device, pc, ret, work, reading>>
  BY DEF DriveStep
<1> QED
  BY <1>1, <1>2, <1>3, <1>4, <1>5, <1>6, <1>7, <1>8, NextIs, DriverSteps

LEMMA Shapes ==
  ASSUME TypeOK
  PROVE  /\ device = <<device[1], device[2]>> /\ device[1] \in Bus /\ device[2] \in {MASTER, SLAVE}
         /\ device \in Drive /\ device[2] # None
         /\ DOMAIN status = Drive /\ DOMAIN job = Drive
BY NoneAssumption DEF TypeOK, Drive, MASTER, SLAVE

\* A command goes to the drive that is meant.
LEMMA CommandIs ==
  ASSUME AInv, NEW c, pc \in {"command", "ready"}, Command(c)
  PROVE  /\ status' = [status EXCEPT ![device] = IF kind[device] \in {"atapi", "disk"} THEN "busy" ELSE @]
         /\ job' = [job EXCEPT ![device] = c] /\ job'[device] = c
         /\ \A d \in Drive : d # device => status'[d] = status[d] /\ job'[d] = job[d]
<1>1. Listening = device
  BY DEF AInv, Addressed
<1>2. DOMAIN job = Drive /\ DOMAIN status = Drive /\ device \in Drive
  BY Shapes DEF AInv
<1>3. /\ status' = [status EXCEPT ![device] = IF kind[device] \in {"atapi", "disk"} THEN "busy" ELSE @]
      /\ job' = [job EXCEPT ![device] = c]
  BY <1>1 DEF Command
<1> QED
  BY <1>2, <1>3

LEMMA CommandsAre ==
  ASSUME AInv, Commands
  PROVE  \E c \in Job : /\ pc \in {"command", "ready"} /\ Command(c)
                        /\ ret = "identify" => c = <<"identify", 0>>
<1>1. CASE IssueIdentify
  <2>1. <<"identify", 0>> \in Job
    BY DEF Job
  <2> QED
    BY <1>1, <2>1 DEF IssueIdentify, Driver
<1>2. CASE IssuePacket
  <2>1. <<"packet", 0>> \in Job
    BY DEF Job
  <2> QED
    BY <1>2, <2>1 DEF IssuePacket, Driver
<1>3. CASE SendPacket
  BY <1>3 DEF SendPacket, Driver, AInv, TypeOK
<1> QED
  BY <1>1, <1>2, <1>3 DEF Commands

\* The data taken is that of the drive that is meant.
LEMMA TakesAre ==
  ASSUME AInv, Takes
  PROVE  \/ /\ pc = "ready" /\ status' = [status EXCEPT ![device] = "idle"]
            /\ \A d \in Drive : d # device => status'[d] = status[d]
         \/ Capacity /\ pc = "failed" /\ ret # "identify" /\ status' = status
<1>1. Capacity /\ pc = "failed" => ret # "identify" /\ status' = status
  BY DEF Capacity, Driver
<1>2. Takes => (pc = "ready" /\ Taken) \/ (Capacity /\ pc = "failed")
  BY DEF Takes, Identified, Capacity, GotFirst, GotWhole, GotLast, Sector, Driver
<1>3. pc = "ready" => Listening = device
  BY DEF AInv, Addressed
<1>4. DOMAIN status = Drive
  BY Shapes DEF AInv
<1> QED
  BY <1>1, <1>2, <1>3, <1>4 DEF Taken

LEMMA KnownStep == AInv /\ [Next]_vars => Known'
<1> SUFFICES ASSUME AInv, [Next]_vars PROVE Known'
  OBVIOUS
<1>1. Known /\ TypeOK
  BY DEF AInv
<1>2. CASE Select
  <2>1. /\ dev' = [dev EXCEPT ![device[1]] = device[2]]
        /\ selected' = IF dev[device[1]] = device[2] THEN selected
                       ELSE [selected EXCEPT ![device[1]] = device[2]]
        /\ dev \in [Bus -> {MASTER, SLAVE, None}] /\ selected \in [Bus -> {MASTER, SLAVE}]
    BY <1>1, <1>2 DEF Select, TypeOK
  <2>2. device[1] \in Bus /\ device[2] # None
    BY <1>1, Shapes
  <2>3. ASSUME NEW b \in Bus, dev'[b] # None PROVE selected'[b] = dev'[b]
    BY <1>1, <2>1, <2>2, <2>3 DEF Known
  <2> QED
    BY <2>3 DEF Known
<1>3. CASE UNCHANGED <<selected, dev>>
  BY <1>1, <1>3 DEF Known
<1> QED
  BY <1>2, <1>3, Keeps DEF vars, drives

LEMMA AddressedStep == AInv /\ [Next]_vars => Addressed'
<1> SUFFICES ASSUME AInv, [Next]_vars PROVE Addressed'
  OBVIOUS
<1>1. Known /\ TypeOK /\ Addressed
  BY DEF AInv
<1>2. CASE Select
  <2>1. /\ selected' = IF dev[device[1]] = device[2] THEN selected
                       ELSE [selected EXCEPT ![device[1]] = device[2]]
        /\ device' = device /\ selected \in [Bus -> {MASTER, SLAVE}]
    BY <1>1, <1>2 DEF Select, TypeOK
  <2>2. device = <<device[1], device[2]>> /\ device[1] \in Bus /\ device[2] # None
    BY <1>1, Shapes
  <2>3. selected'[device[1]] = device[2]
    BY <1>1, <2>1, <2>2 DEF Known
  <2>4. PICK b : b = device[1]
    OBVIOUS
  <2> QED
    BY <2>1, <2>2, <2>3 DEF Addressed, Listening
<1>3. CASE /\ UNCHANGED <<selected, device>>
           /\ pc' \in {"command", "answer", "busy", "wait", "ready"} =>
                pc \in {"command", "answer", "busy", "wait", "ready"}
  BY <1>1, <1>3 DEF Addressed, Listening
<1>4. CASE NextDrive \/ Moves \/ Takes
  <2>1. pc' \notin {"command", "answer", "busy", "wait", "ready"}
    BY <1>4 DEF NextDrive, Moves, ReadUnaligned, ReadAligned, AssertSector, Takes, Identified, Capacity,
                GotFirst, GotWhole, GotLast, Packet, ReadSector, Idle, GoOn
  <2> QED
    BY <2>1 DEF Addressed
<1>5. Polls \/ Commands => /\ UNCHANGED <<selected, device>>
                           /\ pc \in {"command", "answer", "busy", "wait", "ready"}
  BY DEF Polls, Answer, WaitBusy, WaitReady, Commands, IssueIdentify, IssuePacket, SendPacket, Driver
<1>6. ReadCalls \/ DriveStep \/ UNCHANGED vars =>
        /\ UNCHANGED <<selected, device>>
        /\ pc' = pc \/ pc' \in {"idle", "read"}
  BY CallsAre, Keeps DEF vars, drives
<1> QED
  BY <1>2, <1>3, <1>4, <1>5, <1>6, NextIs, DriverSteps

LEMMA AnswersStep == AInv /\ [Next]_vars => Answers'
<1> SUFFICES ASSUME AInv, [Next]_vars PROVE Answers'
  OBVIOUS
<1>1. Answers /\ TypeOK /\ DOMAIN status = Drive /\ DOMAIN job = Drive /\ device \in Drive
  BY Shapes DEF AInv
<1>2. kind' = kind
  BY Keeps DEF vars, drives
<1>3. CASE UNCHANGED <<status, job>>
  BY <1>1, <1>2, <1>3 DEF Answers
<1>4. CASE Commands
  <2>1. PICK c : /\ status' = [status EXCEPT ![device] =
                               IF kind[device] \in {"atapi", "disk"} THEN "busy" ELSE @]
                 /\ \A d \in Drive : d # device => status'[d] = status[d] /\ job'[d] = job[d]
    BY <1>4, CommandsAre, CommandIs
  <2>2. \/ status'[device] = "busy" /\ kind[device] \in {"atapi", "disk"}
        \/ status'[device] = "idle"
    BY <1>1, <2>1 DEF Answers
  <2> QED
    BY <1>1, <1>2, <2>1, <2>2 DEF Answers
<1>5. CASE Takes
  <2>1. job' = job
    BY <1>5, Keeps
  <2>2. CASE status' = status
    BY <1>3, <2>1, <2>2
  <2>3. CASE /\ status' = [status EXCEPT ![device] = "idle"]
             /\ \A d \in Drive : d # device => status'[d] = status[d]
    BY <1>1, <1>2, <2>1, <2>3 DEF Answers
  <2> QED
    BY <1>5, <2>2, <2>3, TakesAre
<1>6. CASE DriveStep
  <2>1. PICK d \in Drive :
          /\ status[d] = "busy" /\ job' = job
          /\ \E s \in {Served(d)} \cup (IF Fallible THEN {"error"} ELSE {}) :
               status' = [status EXCEPT ![d] = IF kind[d] = "atapi" THEN s ELSE "error"]
    BY <1>6 DEF DriveStep
  <2>2. PICK s \in {Served(d), "error"} :
          status' = [status EXCEPT ![d] = IF kind[d] = "atapi" THEN s ELSE "error"]
    BY <2>1
  <2>3. s \in {"packet", "data", "error"} /\ (s \in {"packet", "data"} => (s = "packet" <=> job[d][1] = "packet"))
    BY <2>2 DEF Served
  <2>4. kind[d] \in {"atapi", "disk"}
    BY <1>1, <2>1 DEF Answers
  <2> QED
    BY <1>1, <1>2, <2>1, <2>2, <2>3, <2>4 DEF Answers
<1> QED
  BY <1>3, <1>4, <1>5, <1>6, NextIs, DriverSteps, Keeps DEF vars, drives

LEMMA PhaseStep == AInv /\ [Next]_vars => Phase'
<1> SUFFICES ASSUME AInv, [Next]_vars PROVE Phase'
  OBVIOUS
<1>1. Phase
  BY DEF AInv
<1>2. CASE UNCHANGED <<pc, ret, work, asked>>
  BY <1>1, <1>2 DEF Phase
<1>3. CASE Select \/ Polls \/ NextDrive
  BY <1>1, <1>3 DEF Phase, Select, Polls, Answer, WaitBusy, WaitReady, NextDrive, Driver
<1>4. CASE Commands
  BY <1>1, <1>4 DEF Phase, Commands, IssueIdentify, IssuePacket, SendPacket, Driver
<1>5. CASE Moves
  BY <1>1, <1>5 DEF Phase, Moves, ReadUnaligned, ReadAligned, AssertSector, Driver, ReadSector, Packet
<1>6. CASE Identified \/ Capacity
  BY <1>1, <1>6 DEF Phase, Identified, Capacity, Driver, Packet, Idle
<1>7. CASE GotFirst \/ GotWhole \/ GotLast
  BY <1>1, <1>7 DEF Phase, GotFirst, GotWhole, GotLast, Sector, Driver, Idle, GoOn
<1>8. CASE ReadCalls
  BY <1>1, <1>8, CallsAre DEF Phase
<1>9. CASE DriveStep
  BY <1>2, <1>9, Keeps DEF reading
<1> QED
  BY <1>2, <1>3, <1>4, <1>5, <1>6, <1>7, <1>8, <1>9, NextIs, DriverSteps DEF Takes, vars, reading

LEMMA WaitingStep == AInv /\ [Next]_vars => Waiting'
<1> SUFFICES ASSUME AInv, [Next]_vars PROVE Waiting'
  OBVIOUS
<1>1. Waiting /\ Phase /\ TypeOK /\ Addressed /\ Answers /\ device \in Drive
  BY Shapes DEF AInv
<1>2. CASE /\ pc' \notin {"answer", "busy", "wait", "ready"}
  BY <1>2 DEF Waiting
<1>3. CASE Commands
  <2>1. UNCHANGED device /\ pc' \in {"answer", "busy"}
    BY <1>3 DEF Commands, IssueIdentify, IssuePacket, SendPacket
  <2>2. CASE IssueIdentify
    <3>1. Command(<<"identify", 0>>) /\ ret = "identify" /\ ret' = ret /\ pc \in {"command", "ready"}
      BY <2>2 DEF IssueIdentify, Driver
    <3>2. job'[device] = <<"identify", 0>>
      BY <3>1, CommandIs
    <3> QED
      BY <2>1, <3>1, <3>2 DEF Waiting
  <2>3. CASE IssuePacket
    <3>1. Command(<<"packet", 0>>) /\ ret = "packet" /\ ret' = ret /\ pc \in {"command", "ready"}
      BY <2>3 DEF IssuePacket, Driver
    <3>2. job'[device] = <<"packet", 0>>
      BY <3>1, CommandIs
    <3> QED
      BY <2>1, <3>1, <3>2 DEF Waiting
  <2>4. CASE SendPacket
    <3>1. Command(work) /\ ret' = "result" /\ work' = work /\ pc \in {"command", "ready"}
      BY <2>4 DEF SendPacket, Driver
    <3>2. job'[device] = work
      BY <3>1, CommandIs
    <3> QED
      BY <2>1, <3>1, <3>2 DEF Waiting
  <2> QED
    BY <1>3, <2>2, <2>3, <2>4 DEF Commands
<1>4. CASE Polls
  <2>1. /\ UNCHANGED <<kind, status, job, device, ret, work>>
        /\ pc \in {"answer", "busy", "wait"} /\ Listening = device
    BY <1>1, <1>4 DEF Polls, Answer, WaitBusy, WaitReady, Driver, Addressed
  <2>2. pc' \in {"wait", "ready"} => kind[device] # "floating"
    BY <1>1, <1>4, <2>1 DEF Polls, Answer, WaitBusy, WaitReady, Driver, Waiting, Busy
  <2>3. pc' = "ready" => status[device] \in {"packet", "data"}
    BY <1>1, <1>4, <2>1, <2>2 DEF Polls, Answer, WaitBusy, WaitReady, Driver, Ready
  <2>4. pc' \in {"answer", "busy", "wait", "ready"} => pc \in {"answer", "busy", "wait", "ready"}
    BY <2>1
  <2> QED
    BY <1>1, <2>1, <2>2, <2>3, <2>4 DEF Waiting
<1>5. CASE DriveStep
  <2>1. /\ UNCHANGED <<kind, job, device, pc, ret, work>>
        /\ \A d \in Drive : status[d] # "busy" => status'[d] = status[d]
    BY <1>1, <1>5 DEF DriveStep, TypeOK
  <2> QED
    BY <1>1, <2>1 DEF Waiting
<1>6. CASE UNCHANGED vars
  BY <1>1, <1>6 DEF vars, drives, Waiting
<1>7. CASE Select \/ NextDrive \/ Moves \/ Takes
  BY <1>2, <1>7 DEF Select, NextDrive, Moves, ReadUnaligned, ReadAligned, AssertSector, Takes, Identified,
                    Capacity, GotFirst, GotWhole, GotLast, Packet, ReadSector, Idle, GoOn
<1>8. CASE ReadCalls
  BY <1>2, <1>8, CallsAre
<1> QED
  BY <1>3, <1>4, <1>5, <1>6, <1>7, <1>8, NextIs, DriverSteps

LEMMA SearchStep == AInv /\ [Next]_vars => Search'
<1> SUFFICES ASSUME AInv, [Next]_vars PROVE Search'
  OBVIOUS
<1>1. /\ Search /\ Phase /\ Waiting /\ TypeOK /\ Addressed /\ Answers /\ device \in Drive
      /\ device \notin Tried /\ kind' = kind
  <2>1. device \notin Tried
    BY DEF Tried, Primary, Secondary, MASTER, SLAVE
  <2> QED
    BY <2>1, Shapes, Keeps DEF AInv, vars, drives
<1>2. ASSUME NEW d \in Drive, Failed(d), status'[d] = status[d] PROVE Failed(d)'
  BY <1>1, <1>2 DEF Failed
<1>3. ret' = "identify" => ret = "identify"
  BY NextIs, DriverSteps, CallsAre, Keeps DEF Select, NextDrive, Polls, Answer, WaitBusy, WaitReady,
     Moves, ReadUnaligned, ReadAligned, AssertSector, Commands, IssueIdentify, IssuePacket, SendPacket, Takes,
     Identified, Capacity, GotFirst, GotWhole, GotLast, Packet, ReadSector, Idle, GoOn, vars
<1>4. CASE NextDrive
  <2>1. /\ pc = "failed" /\ ret = "identify" /\ ret' = ret /\ status' = status
        /\ IF After(device) = None THEN pc' = "halted" /\ device' = device
           ELSE pc' = "select" /\ device' = After(device)
    BY <1>4 DEF NextDrive, Driver
  <2>2. \A d \in Tried \cup {device} : d \in Drive /\ Failed(d)'
    BY <1>1, <1>2, <2>1 DEF Search, Tried
  <2>3. CASE After(device) = None
    <3>1. device = <<Primary, MASTER>>
      BY <1>1, <2>3, NoneAssumption DEF After, Drive, Bus, Primary, Secondary, MASTER, SLAVE
    <3>2. Tried \cup {device} = Drive /\ Tried' = Tried
      BY <1>1, <2>1, <2>3, <3>1 DEF Tried
    <3> QED
      BY <2>1, <2>2, <2>3, <3>2 DEF Search
  <2>4. CASE After(device) # None
    <3>1. Tried' \subseteq Tried \cup {device}
      BY <1>1, <2>1, <2>4 DEF Tried, After, Drive, Bus, Primary, Secondary, MASTER, SLAVE
    <3> QED
      BY <2>1, <2>2, <2>4, <3>1 DEF Search
  <2> QED
    BY <2>3, <2>4
<1>5. device' = device => Tried' = Tried
  BY DEF Tried
<1>6. CASE Commands
  <2>1. \A d \in Drive : d # device => status'[d] = status[d]
    BY <1>6, CommandsAre, CommandIs
  <2>2. /\ device' = device /\ pc' \in {"answer", "busy"}
        /\ ret' = ret \/ ret # "identify"
    BY <1>1, <1>6 DEF Commands, IssueIdentify, IssuePacket, SendPacket, Driver
  <2>3. ret' = "identify" => \A d \in Tried : Failed(d)'
    BY <1>1, <1>2, <1>3, <2>1 DEF Search, Tried
  <2> QED
    BY <1>1, <1>5, <2>2, <2>3 DEF Search
<1>7. CASE Takes
  <2>1. device' = device /\ ret' # "identify"
    BY <1>7 DEF Takes, Identified, Capacity, GotFirst, GotWhole, GotLast, Packet, Idle, GoOn
  <2>2. kind[device] = "atapi"
    <3>1. CASE pc = "ready"
      BY <1>1, <3>1 DEF Waiting, Answers
    <3>2. CASE ret # "identify"
      BY <1>1, <3>2 DEF Search
    <3> QED
      BY <1>7, <3>1, <3>2, TakesAre
  <2> QED
    BY <1>1, <2>1, <2>2 DEF Search
<1>8. CASE Polls
  <2>1. /\ UNCHANGED <<status, device, ret>> /\ Listening = device
        /\ pc' \in {"failed", "busy", "wait", "ready"}
    BY <1>1, <1>8 DEF Polls, Answer, WaitBusy, WaitReady, Driver, Addressed
  <2>2. pc' = "failed" => Failed(device)
    BY <1>1, <1>8, <2>1 DEF Polls, Answer, WaitBusy, WaitReady, Driver, Busy, Ready, Error, Failed
  <2>3. ret' = "identify" => \A d \in Tried : Failed(d)'
    BY <1>1, <1>2, <2>1 DEF Search, Tried
  <2> QED
    BY <1>1, <1>2, <1>5, <2>1, <2>2, <2>3 DEF Search, Failed
<1>9. CASE DriveStep
  <2>1. /\ UNCHANGED <<device, pc, ret>>
        /\ \A d \in Drive : status[d] # "busy" => status'[d] = status[d]
    BY <1>1, <1>9 DEF DriveStep, TypeOK
  <2>2. \A d \in Drive : Failed(d) => Failed(d)'
    BY <1>1, <2>1 DEF Failed
  <2> QED
    BY <1>1, <1>5, <2>1, <2>2 DEF Search, Tried, Failed
<1>10. CASE Select \/ Moves \/ ReadCalls \/ UNCHANGED vars
  <2>1. UNCHANGED <<status, device>>
    BY <1>10, CallsAre, Keeps DEF Select, Moves, ReadUnaligned, ReadAligned, AssertSector, vars, drives
  <2>2. /\ pc' \in {"failed", "halted"} => pc' = pc \/ ret' # "identify"
        /\ ret' # "identify" => ret # "identify"
    BY <1>1, <1>10, CallsAre DEF Select, Driver, Moves, ReadUnaligned, ReadAligned, AssertSector, ReadSector,
       Packet, vars, Phase
  <2> QED
    BY <1>1, <1>3, <1>5, <2>1, <2>2 DEF Search, Failed, Tried
<1> QED
  BY <1>4, <1>6, <1>7, <1>8, <1>9, <1>10, NextIs, DriverSteps

-----------------------------------------------------------------------------
(* Reads                                                                   *)

\* A read in progress, with its places on the disc as numbers
LEMMA Reads ==
  ASSUME AInv, InRead
  PROVE  /\ off \in Nat /\ sz \in Nat /\ at \in Nat /\ off + sz <= Sectors * SECTOR /\ off + sz < WORD
         /\ off <= Sectors * SECTOR
         /\ DOMAIN out = 0..(MaxSize - 1) /\ at + sz <= MaxSize
         /\ \E p, first \in Nat :
              /\ p = asked.lba * SECTOR /\ first = asked.first /\ off = p + first + at
              /\ asked.last = first + at + sz
              /\ \A k \in 0..(MaxSize - 1) : out[k] = IF k < at THEN p + first + k ELSE None
<1>1. Progress /\ TypeOK
  BY DEF AInv
<1>2. /\ off \in Nat /\ sz \in Nat /\ at \in Nat /\ MaxSize \in Nat /\ DOMAIN out = 0..(MaxSize - 1)
      /\ Sectors * SECTOR \in Nat /\ Sectors * SECTOR < WORD /\ WORD \in Nat /\ SECTOR \in Nat
  BY <1>1, Disc DEF TypeOK
<1>3. /\ asked \in [lba : Nat, first : Nat, last : Nat]
      /\ off = asked.lba * SECTOR + asked.first + at
      /\ asked.first + at + sz = asked.last
      /\ at + sz <= MaxSize /\ off + sz <= Sectors * SECTOR
      /\ \A k \in 0..(MaxSize - 1) :
           out[k] = IF k < at THEN asked.lba * SECTOR + asked.first + k ELSE None
  BY <1>1 DEF Progress
<1>4. PICK l, first \in Nat : l = asked.lba /\ first = asked.first
  BY <1>3
<1>5. PICK p \in Nat : p = l * SECTOR
  BY <1>2, <1>4, SMT
<1>6. off = p + first + at /\ asked.last = first + at + sz
  BY <1>3, <1>4, <1>5
<1>7. \A k \in 0..(MaxSize - 1) : out[k] = IF k < at THEN p + first + k ELSE None
  BY <1>3, <1>4, <1>5
<1>8. PICK D \in Nat : D = Sectors * SECTOR /\ off + sz <= D /\ D < WORD
  BY <1>2, <1>3
<1>9. off <= D /\ off + sz < WORD
  BY <1>2, <1>8
<1> QED
  BY <1>2, <1>3, <1>4, <1>5, <1>6, <1>7, <1>8, <1>9

\* A sector was read: its part from off on goes to the caller's buffer, up to
\* the end of the sector or of what is left; and the read goes on behind it,
\* or ends with nothing left.
LEMMA Gets ==
  ASSUME AInv, GotFirst \/ GotWhole \/ GotLast
  PROVE  /\ InRead /\ asked' = asked /\ length' = length /\ device' = device /\ dev' = dev /\ selected' = selected
         /\ buf' \in Nat \cup {buf}
         /\ \E n \in Nat :
              /\ n <= sz /\ DOMAIN out' = DOMAIN out
              /\ \A k \in DOMAIN out : out'[k] = IF at <= k /\ k < at + n THEN off + (k - at) ELSE out[k]
              /\ \/ n = sz /\ Idle /\ UNCHANGED <<off, sz, at>>
                 \/ /\ off' = off + n /\ sz' = sz - n /\ at' = at + n
                    /\ pc' = "read" /\ ret' = "none" /\ work' = <<"none", 0>>
<1>1. pc = "ready" /\ ret = "result" /\ work[1] = "sector" /\ asked' = asked
  BY DEF GotFirst, GotWhole, GotLast, Sector, Driver
<1>2. InRead /\ work \in Job /\ work[2] \in Nat /\ work[2] = off \div SECTOR
  BY <1>1 DEF InRead, AInv, TypeOK, Job, Progress
<1>3. /\ length' = length /\ device' = device /\ dev' = dev /\ selected' = selected /\ buf' \in Nat \cup {buf}
  BY <1>2 DEF GotFirst, GotWhole, GotLast
<1>4. /\ off \in Nat /\ sz \in Nat /\ at \in Nat /\ off + sz < WORD
      /\ off <= Sectors * SECTOR /\ DOMAIN out = 0..(MaxSize - 1)
  BY <1>2, Reads
<1>5. PICK a \in Nat : a = AlignDown(off) /\ a = work[2] * SECTOR /\ a <= off /\ off < a + SECTOR
  BY <1>2, <1>4, InSector
<1>6. SECTOR \in Nat /\ WORD \in Nat
  BY Disc
<1>7. ASSUME NEW skip \in Nat, a + skip = off, NEW n
      PROVE  /\ DOMAIN Copied(skip, n) = DOMAIN out
             /\ \A k \in DOMAIN out :
                  Copied(skip, n)[k] = IF at <= k /\ k < at + n THEN off + (k - at) ELSE out[k]
  <2>1. Copied(skip, n) = [k \in DOMAIN out |-> IF at <= k /\ k < at + n THEN a + skip + (k - at) ELSE out[k]]
    BY <1>5 DEF Copied
  <2> QED
    BY <1>7, <2>1
<1>8. ASSUME NEW n \in Nat, n <= sz, GoOn(n)
      PROVE  /\ off' = off + n /\ sz' = sz - n /\ at' = at + n
             /\ pc' = "read" /\ ret' = "none" /\ work' = <<"none", 0>>
  <2>1. off + n \in Nat /\ off + n < WORD
    BY <1>4, <1>6, <1>8
  <2> QED
    BY <1>8, <2>1, Below DEF GoOn
<1>9. CASE GotFirst
  <2>1. AlignTo(off) # off
    BY <1>9 DEF GotFirst
  <2>2. PICK m : m = (AlignTo(off) - off) % WORD
    OBVIOUS
  <2>3. m \in Nat
    <3>1. AlignTo(off) = a + SECTOR /\ a + SECTOR <= Sectors * SECTOR
      BY <1>4, <1>5, <2>1, NextSector
    <3>2. AlignTo(off) - off \in Nat
      BY <1>4, <1>5, <1>6, <3>1
    <3>3. (AlignTo(off) - off) % WORD \in Nat
      BY <3>2, Disc, DivMod
    <3> QED
      BY <2>2, <3>3
  <2>4. PICK skip \in Nat : skip = off - a
    BY <1>4, <1>5
  <2>5. a + skip = off /\ skip = off - AlignDown(off)
    BY <1>4, <1>5, <2>4
  <2>6. IF m > sz THEN out' = Copied(skip, sz) /\ Idle /\ UNCHANGED <<off, sz, at>>
        ELSE out' = Copied(skip, m) /\ GoOn(m)
    BY <1>9, <2>2, <2>5 DEF GotFirst
  <2>7. CASE m > sz
    <3>1. out' = Copied(skip, sz) /\ Idle /\ UNCHANGED <<off, sz, at>>
      BY <2>6, <2>7
    <3>2. /\ DOMAIN out' = DOMAIN out
          /\ \A k \in DOMAIN out : out'[k] = IF at <= k /\ k < at + sz THEN off + (k - at) ELSE out[k]
      BY <1>7, <2>5, <3>1
    <3> QED
      BY <1>1, <1>2, <1>3, <1>4, <3>1, <3>2
  <2>8. CASE ~(m > sz)
    <3>1. m <= sz
      BY <1>4, <2>3, <2>8
    <3>2. /\ off' = off + m /\ sz' = sz - m /\ at' = at + m
          /\ pc' = "read" /\ ret' = "none" /\ work' = <<"none", 0>>
      BY <1>8, <2>3, <2>6, <2>8, <3>1
    <3>3. /\ DOMAIN out' = DOMAIN out
          /\ \A k \in DOMAIN out : out'[k] = IF at <= k /\ k < at + m THEN off + (k - at) ELSE out[k]
      BY <1>7, <2>5, <2>6, <2>8
    <3> QED
      BY <1>1, <1>2, <1>3, <2>3, <3>1, <3>2, <3>3
  <2> QED
    BY <2>7, <2>8
<1>10. ASSUME AlignTo(off) = off PROVE a + 0 = off /\ 0 \in Nat
  <2>1. AlignDown(off) = off
    BY <1>4, <1>10, NextSector
  <2>2. a = off
    BY <1>5, <2>1
  <2> QED
    BY <1>4, <2>2
<1>11. CASE GotWhole
  <2>1. /\ AlignTo(off) = off /\ sz >= SECTOR /\ out' = Copied(0, SECTOR)
        /\ IF sz = SECTOR THEN Idle /\ UNCHANGED <<off, sz, at>> ELSE GoOn(SECTOR)
    BY <1>11 DEF GotWhole
  <2>2. SECTOR <= sz
    BY <1>4, <1>6, <2>1
  <2>3. /\ DOMAIN out' = DOMAIN out
        /\ \A k \in DOMAIN out : out'[k] = IF at <= k /\ k < at + SECTOR THEN off + (k - at) ELSE out[k]
    BY <1>7, <1>10, <2>1
  <2>4. CASE sz = SECTOR
    BY <1>1, <1>2, <1>3, <1>4, <2>1, <2>3, <2>4
  <2>5. CASE sz # SECTOR
    <3>1. /\ off' = off + SECTOR /\ sz' = sz - SECTOR /\ at' = at + SECTOR
          /\ pc' = "read" /\ ret' = "none" /\ work' = <<"none", 0>>
      BY <1>6, <1>8, <2>1, <2>2, <2>5
    <3> QED
      BY <1>1, <1>2, <1>3, <1>6, <2>2, <2>3, <3>1
  <2> QED
    BY <2>4, <2>5
<1>12. CASE GotLast
  <2>1. AlignTo(off) = off /\ out' = Copied(0, sz) /\ Idle /\ UNCHANGED <<off, sz, at>>
    BY <1>12 DEF GotLast
  <2> QED
    BY <1>1, <1>2, <1>3, <1>4, <1>7, <1>10, <2>1
<1> QED
  BY <1>9, <1>11, <1>12

\* A call of read: nothing is read yet, and what is asked for is on the disc.
LEMMA Starts ==
  ASSUME AInv, ReadCalls
  PROVE  /\ DOMAIN out' = DOMAIN out /\ \A k \in DOMAIN out : out'[k] = None
         /\ \/ /\ pc' = "read" /\ at' = 0
               /\ \E l, first, size, p \in Nat :
                    /\ asked' = [lba |-> l, first |-> first, last |-> first + size]
                    /\ p = l * SECTOR /\ off' = p + first /\ sz' = size
                    /\ size <= MaxSize /\ p + first + size <= Sectors * SECTOR
            \/ /\ pc' = "idle" /\ UNCHANGED <<off, sz, at>>
               /\ asked'.last \in Nat /\ asked'.first \in Nat /\ asked'.last < asked'.first
<1>1. SECTOR \in Nat /\ MaxSize \in Nat /\ WORD \in Nat
  BY Disc
<1>2. PICK D \in Nat : D = Sectors * SECTOR /\ D < WORD
  BY Disc
<1>3. ASSUME NEW r \in Requests, ReadCall(r[1], r[2])
      PROVE  /\ pc' = "read" /\ at' = 0 /\ out' = [k \in DOMAIN out |-> None]
             /\ \E l, first, size, p \in Nat :
                  /\ asked' = [lba |-> l, first |-> first, last |-> first + size]
                  /\ p = l * SECTOR /\ off' = p + first /\ sz' = size
                  /\ size <= MaxSize /\ p + first + size <= D
  <2>1. PICK first, size \in Nat : first = r[1] /\ size = r[2] /\ size <= MaxSize /\ first + size <= D
    BY <1>1, <1>2, RequestAssumption
  <2>2. /\ pc' = "read" /\ at' = 0 /\ out' = [k \in DOMAIN out |-> None]
        /\ asked' = [lba |-> 0, first |-> first, last |-> first + size]
        /\ off' = first % WORD /\ sz' = size % WORD
    BY <1>3, <2>1 DEF ReadCall, Reading
  <2>3. first < WORD /\ size < WORD
    BY <1>1, <1>2, <2>1
  <2>4. off' = 0 + first /\ sz' = size /\ 0 = 0 * SECTOR /\ 0 + first + size <= D /\ 0 \in Nat
    BY <1>1, <2>1, <2>2, <2>3, Below
  <2> QED
    BY <2>1, <2>2, <2>4
<1>4. ASSUME NEW f \in Files, NEW o \in 0..(MaxSize + 1), NEW n \in 0..MaxSize, FileReadCall(f, o, n)
      PROVE  /\ pc' = "read" /\ at' = 0 /\ out' = [k \in DOMAIN out |-> None]
             /\ \E l, first, size, p \in Nat :
                  /\ asked' = [lba |-> l, first |-> first, last |-> first + size]
                  /\ p = l * SECTOR /\ off' = p + first /\ sz' = size
                  /\ size <= MaxSize /\ p + first + size <= D
  <2>1. PICK l, whole \in Nat : l = f.lba /\ whole = f.size /\ f.lba * SECTOR + f.size <= Sectors * SECTOR
    BY RequestAssumption
  <2>2. PICK p \in Nat : p = l * SECTOR
    BY <1>1, <2>1, SMT
  <2>3. p + whole <= D
    BY <1>2, <2>1, <2>2
  <2>4. PICK size : size = Cut(f, o, n)
    OBVIOUS
  <2>5. o \in Nat /\ n \in Nat /\ n <= MaxSize /\ o <= whole
    BY <1>1, <1>4, <2>1 DEF FileReadCall
  <2>6. size = IF o + n > whole THEN whole - o ELSE n
    BY <2>1, <2>4 DEF Cut
  <2>7. size \in Nat /\ size <= n /\ o + size <= whole
        /\ o + size = IF o + n > whole THEN whole ELSE o + n
    BY <2>1, <2>5, <2>6
  <2>8. /\ pc' = "read" /\ at' = 0 /\ out' = [k \in DOMAIN out |-> None]
        /\ asked' = [lba |-> l, first |-> o, last |-> IF o + n > whole THEN whole ELSE o + n]
        /\ off' = ((p % WORD) + o) % WORD /\ sz' = size % WORD
    BY <1>4, <2>1, <2>2, <2>4 DEF FileReadCall, Reading, Asked
  <2>9. /\ p < WORD /\ p + o \in Nat /\ p + o < WORD /\ size < WORD
        /\ size <= MaxSize /\ p + o + size <= D
    BY <1>1, <1>2, <2>2, <2>3, <2>5, <2>7
  <2>10. off' = p + o /\ sz' = size
    BY <2>2, <2>7, <2>8, <2>9, Below
  <2>11. asked' = [lba |-> l, first |-> o, last |-> o + size]
    BY <2>7, <2>8
  <2> QED
    BY <2>1, <2>2, <2>5, <2>7, <2>8, <2>9, <2>10, <2>11
<1>5. ASSUME NEW f \in Files, NEW o \in 0..(MaxSize + 1), NEW n \in 0..MaxSize, FileReadPast(f, o, n)
      PROVE  /\ pc' = "idle" /\ UNCHANGED <<off, sz, at>> /\ out' = [k \in DOMAIN out |-> None]
             /\ asked'.last \in Nat /\ asked'.first \in Nat /\ asked'.last < asked'.first
  <2>1. f.size \in Nat /\ o \in Nat /\ n \in Nat /\ o > f.size
    BY <1>1, <1>5, RequestAssumption DEF FileReadPast
  <2>2. asked' = [lba |-> f.lba, first |-> o, last |-> f.size]
    BY <1>5, <2>1 DEF FileReadPast, Asked
  <2> QED
    BY <1>5, <2>1, <2>2 DEF FileReadPast
<1>6. CASE \E r \in Requests : ReadCall(r[1], r[2])
  BY <1>2, <1>3, <1>6
<1>7. CASE \E f \in Files, o \in 0..(MaxSize + 1), n \in 0..MaxSize : FileReadCall(f, o, n)
  BY <1>2, <1>4, <1>7
<1>8. CASE \E f \in Files, o \in 0..(MaxSize + 1), n \in 0..MaxSize : FileReadPast(f, o, n)
  BY <1>5, <1>8
<1> QED
  BY <1>6, <1>7, <1>8 DEF ReadCalls

LEMMA ProgressStep == AInv /\ [Next]_vars => Progress'
<1> SUFFICES ASSUME AInv, [Next]_vars, InRead' PROVE Progress'
  BY DEF Progress
<1>1. Phase /\ TypeOK /\ Progress
  BY DEF AInv
<1>2. ASSUME UNCHANGED <<off, sz, at, out, asked>>, work' = work, InRead, pc' # "read" \/ pc' = pc, pc # "read" \/ pc' = pc
      PROVE  Progress'
  BY <1>1, <1>2 DEF Progress
<1>3. CASE Select \/ Polls \/ Commands \/ AssertSector
  <2>1. /\ UNCHANGED <<off, sz, at, out, asked, work>> /\ pc' # "read"
        /\ ret' \in {"packet", "result"} => ret \in {"packet", "result"}
    BY <1>3 DEF Select, Polls, Answer, WaitBusy, WaitReady, Commands, IssueIdentify, IssuePacket, SendPacket,
                AssertSector, Driver
  <2>2. pc # "read"
    BY <1>3 DEF Select, Polls, Answer, WaitBusy, WaitReady, Commands, IssueIdentify, IssuePacket, SendPacket,
                AssertSector, Driver
  <2> QED
    BY <1>2, <2>1, <2>2 DEF InRead
<1>4. CASE DriveStep \/ UNCHANGED vars
  <2>1. UNCHANGED <<off, sz, at, out, asked, work, pc, ret>>
    BY <1>4, Keeps DEF vars, reading
  <2> QED
    BY <1>2, <2>1 DEF InRead
<1>5. CASE ReadUnaligned \/ ReadAligned
  <2>1. pc = "read" /\ UNCHANGED <<off, sz, at, out, asked>>
    BY <1>5 DEF ReadUnaligned, ReadAligned, Driver
  <2>2. InRead /\ off \in Nat
    BY <2>1, Reads DEF InRead
  <2>3. AlignDown(off) \div SECTOR = off \div SECTOR
    BY <2>2, InSector
  <2>4. work'[2] = off \div SECTOR
    BY <1>5, <2>3 DEF ReadUnaligned, ReadAligned, ReadSector, Packet
  <2> QED
    BY <1>1, <2>1, <2>2, <2>4 DEF Progress
<1>6. CASE ~InRead'
  BY <1>6
<1>7. NextDrive \/ Identified \/ Capacity => ~InRead'
  BY <1>1 DEF NextDrive, Identified, Capacity, Driver, Packet, Idle, InRead
<1>8. CASE GotFirst \/ GotWhole \/ GotLast
  <2>1. ~Idle
    BY DEF Idle, InRead
  <2>2. InRead /\ asked' = asked
    BY <1>8, Gets
  <2>3. PICK n \in Nat :
          /\ n <= sz /\ DOMAIN out' = DOMAIN out
          /\ \A k \in DOMAIN out : out'[k] = IF at <= k /\ k < at + n THEN off + (k - at) ELSE out[k]
          /\ off' = off + n /\ sz' = sz - n /\ at' = at + n /\ pc' = "read"
    BY <1>8, <2>1, Gets
  <2>4. /\ off \in Nat /\ sz \in Nat /\ at \in Nat /\ DOMAIN out = 0..(MaxSize - 1) /\ at + sz <= MaxSize
        /\ MaxSize \in Nat
    BY <2>2, Reads, Disc
  <2>5. PICK D \in Nat : D = Sectors * SECTOR /\ off + sz <= D
    BY <2>2, Reads, Disc
  <2>6. PICK p, first \in Nat :
          /\ p = asked.lba * SECTOR /\ first = asked.first /\ off = p + first + at
          /\ asked.last = first + at + sz
          /\ \A k \in 0..(MaxSize - 1) : out[k] = IF k < at THEN p + first + k ELSE None
    BY <2>2, Reads
  <2>7. /\ off' = p + first + at' /\ first + at' + sz' = asked.last /\ at' + sz' <= MaxSize /\ off' + sz' <= D
    <3>1. off = p + first + at /\ asked.last = first + at + sz
      BY <2>6
    <3> QED
      BY <2>3, <2>4, <2>5, <3>1
  <2>8. ASSUME NEW k \in 0..(MaxSize - 1)
        PROVE  out'[k] = IF k < at' THEN p + first + k ELSE None
    <3>1. out[k] = IF k < at THEN p + first + k ELSE None
      BY <2>6
    <3>2. off = p + first + at
      BY <2>6
    <3>3. out'[k] = IF at <= k /\ k < at + n THEN off + (k - at) ELSE out[k]
      BY <2>3, <2>4
    <3>4. k \in Nat
      BY <2>4
    <3>5. at' = at + n
      BY <2>3
    <3>6. CASE k < at
      <4>1. ~(at <= k) /\ k < at + n
        BY <2>4, <3>4, <3>6
      <4> QED
        BY <3>1, <3>3, <3>5, <3>6, <4>1
    <3>7. CASE ~(k < at) /\ k < at + n
      <4>1. out'[k] = off + (k - at)
        BY <2>4, <3>3, <3>4, <3>7
      <4>2. off + (k - at) = p + first + k
        BY <2>4, <3>2, <3>4
      <4> QED
        BY <3>5, <3>7, <4>1, <4>2
    <3>8. CASE ~(k < at) /\ ~(k < at + n)
      BY <3>1, <3>3, <3>5, <3>8
    <3> QED
      BY <3>6, <3>7, <3>8
  <2>9. asked \in [lba : Nat, first : Nat, last : Nat]
    BY <1>1, <2>2 DEF Progress
  <2>10. \A k \in 0..(MaxSize - 1) : out'[k] = IF k < at' THEN asked.lba * SECTOR + asked.first + k ELSE None
    BY <2>6, <2>8
  <2>11. off' = asked.lba * SECTOR + asked.first + at' /\ off' + sz' <= Sectors * SECTOR
         /\ asked.first + at' + sz' = asked.last
    BY <2>5, <2>6, <2>7
  <2> QED
    BY <2>2, <2>3, <2>7, <2>9, <2>10, <2>11 DEF Progress
<1>9. CASE ReadCalls
  <2>1. pc' = "read"
    BY <1>1, <1>9, CallsAre DEF InRead, Phase
  <2>2. PICK l, first, size, p \in Nat :
          /\ asked' = [lba |-> l, first |-> first, last |-> first + size]
          /\ p = l * SECTOR /\ off' = p + first /\ sz' = size /\ at' = 0
          /\ size <= MaxSize /\ p + first + size <= Sectors * SECTOR
    BY <1>9, <2>1, Starts
  <2>3. \A k \in 0..(MaxSize - 1) : out'[k] = None /\ ~(k < 0)
    BY <1>1, <1>9, Starts, Disc DEF TypeOK
  <2>4. /\ off' = p + first + at' /\ first + at' + sz' = first + size /\ at' + sz' <= MaxSize
        /\ off' + sz' = p + first + size /\ first + size \in Nat
    BY <2>2, Disc
  <2> QED
    BY <2>1, <2>2, <2>3, <2>4 DEF Progress
<1> QED
  BY <1>3, <1>4, <1>5, <1>7, <1>8, <1>9, NextIs, DriverSteps DEF Moves, Takes

LEMMA ReadExactStep == AInv /\ [Next]_vars => ReadExact'
<1> SUFFICES ASSUME AInv, [Next]_vars, asked' # None, pc' = "idle"
             PROVE  \A k \in DOMAIN out' :
                      out'[k] = IF asked'.first + k < asked'.last
                                  THEN asked'.lba * SECTOR + asked'.first + k ELSE None
  BY DEF ReadExact
<1>1. Phase /\ TypeOK /\ ReadExact
  BY DEF AInv
<1>2. CASE UNCHANGED <<out, asked, pc>>
  BY <1>1, <1>2 DEF ReadExact
<1>3. CASE GotFirst \/ GotWhole \/ GotLast
  <2>1. InRead /\ asked' = asked
    BY <1>3, Gets
  <2>2. /\ DOMAIN out' = DOMAIN out
        /\ \A k \in DOMAIN out : out'[k] = IF at <= k /\ k < at + sz THEN off + (k - at) ELSE out[k]
    BY <1>3, Gets
  <2>3. off \in Nat /\ sz \in Nat /\ at \in Nat /\ DOMAIN out = 0..(MaxSize - 1) /\ MaxSize \in Nat
    BY <2>1, Reads, Disc
  <2>4. PICK p, first \in Nat :
          /\ p = asked.lba * SECTOR /\ first = asked.first /\ off = p + first + at
          /\ asked.last = first + at + sz
          /\ \A k \in 0..(MaxSize - 1) : out[k] = IF k < at THEN p + first + k ELSE None
    BY <2>1, Reads
  <2>5. PICK last : last = first + at + sz
    OBVIOUS
  <2>6. ASSUME NEW k \in DOMAIN out PROVE out'[k] = IF first + k < last THEN p + first + k ELSE None
    <3>1. k \in Nat /\ off = p + first + at
      BY <2>3, <2>4
    <3>2. out[k] = IF k < at THEN p + first + k ELSE None
      BY <2>3, <2>4
    <3>3. out'[k] = IF at <= k /\ k < at + sz THEN off + (k - at) ELSE out[k]
      BY <2>2
    <3>4. CASE k < at
      <4>1. ~(at <= k) /\ first + k < last
        BY <2>3, <2>5, <3>1, <3>4
      <4> QED
        BY <3>2, <3>3, <3>4, <4>1
    <3>5. CASE ~(k < at) /\ k < at + sz
      <4>1. at <= k /\ first + k < last /\ off + (k - at) = p + first + k
        BY <2>3, <2>5, <3>1, <3>5
      <4> QED
        BY <3>3, <3>5, <4>1
    <3>6. CASE ~(k < at) /\ ~(k < at + sz)
      <4>1. ~(first + k < last)
        BY <2>3, <2>5, <3>1, <3>6
      <4> QED
        BY <3>2, <3>3, <3>6, <4>1
    <3> QED
      BY <3>4, <3>5, <3>6
  <2>7. asked'.first = first /\ asked'.last = last /\ asked'.lba * SECTOR = p
    BY <2>1, <2>4, <2>5
  <2> QED
    BY <2>2, <2>6, <2>7
<1>4. CASE ReadCalls
  <2>1. /\ DOMAIN out' = DOMAIN out /\ \A k \in DOMAIN out : out'[k] = None
        /\ asked'.last \in Nat /\ asked'.first \in Nat /\ asked'.last < asked'.first
    BY <1>4, Starts
  <2>2. \A k \in DOMAIN out : ~(asked'.first + k < asked'.last)
    <3> SUFFICES ASSUME NEW k \in DOMAIN out PROVE ~(asked'.first + k < asked'.last)
      OBVIOUS
    <3>1. k \in Nat
      BY <1>1, Disc DEF TypeOK
    <3> QED
      BY <2>1, <3>1
  <2> QED
    BY <2>1, <2>2
<1>5. ~Capacity
  BY <1>1 DEF Capacity, Driver, Phase
<1>6. DriveStep \/ UNCHANGED vars => UNCHANGED <<out, asked, pc>>
  BY Keeps DEF vars, reading
<1>7. ~(Select \/ NextDrive \/ Polls \/ Moves \/ Commands \/ Identified)
  BY DEF Select, NextDrive, Polls, Answer, WaitBusy, WaitReady, Moves, ReadUnaligned, ReadAligned, AssertSector,
         Commands, IssueIdentify, IssuePacket, SendPacket, Identified, ReadSector, Packet
<1> QED
  BY <1>2, <1>3, <1>4, <1>5, <1>6, <1>7, NextIs, DriverSteps DEF Takes

-----------------------------------------------------------------------------
(* Types                                                                   *)

DrivesTyped ==
  /\ status \in [Drive -> {"idle", "busy", "packet", "data", "error"}]
  /\ job \in [Drive -> Job] /\ selected \in [Bus -> {MASTER, SLAVE}]
  /\ dev \in [Bus -> {MASTER, SLAVE, None}] /\ device \in Drive

LEMMA DrivesType == AInv /\ [Next]_vars => DrivesTyped'
<1> SUFFICES ASSUME AInv, [Next]_vars PROVE DrivesTyped'
  OBVIOUS
<1>1. DrivesTyped /\ device[1] \in Bus /\ device[2] \in {MASTER, SLAVE}
  BY Shapes DEF AInv, TypeOK, DrivesTyped
<1>2. CASE UNCHANGED <<status, job, selected, dev, device>>
  BY <1>1, <1>2 DEF DrivesTyped
<1>3. CASE Select
  BY <1>1, <1>3 DEF Select, DrivesTyped
<1>4. CASE NextDrive
  <2>1. device' \in Drive
    BY <1>1, <1>4 DEF NextDrive, After, DrivesTyped, Drive, Bus
  <2> QED
    BY <1>1, <1>4, <2>1 DEF NextDrive, DrivesTyped
<1>5. CASE Commands
  <2>1. PICK c \in Job : /\ status' = [status EXCEPT ![device] =
                                       IF kind[device] \in {"atapi", "disk"} THEN "busy" ELSE @]
                         /\ job' = [job EXCEPT ![device] = c]
    BY <1>5, CommandsAre, CommandIs
  <2>2. UNCHANGED <<selected, dev, device>>
    BY <1>5 DEF Commands, IssueIdentify, IssuePacket, SendPacket
  <2> QED
    BY <1>1, <2>1, <2>2 DEF DrivesTyped
<1>6. CASE Takes
  <2>1. UNCHANGED <<job, selected, dev, device>>
    BY <1>6 DEF Takes, Identified, Capacity, GotFirst, GotWhole, GotLast
  <2>2. status' = status \/ status' = [status EXCEPT ![device] = "idle"]
    BY <1>6, TakesAre
  <2> QED
    BY <1>1, <2>1, <2>2 DEF DrivesTyped
<1>7. CASE DriveStep
  <2>1. PICK d \in Drive : \E s \in {Served(d)} \cup (IF Fallible THEN {"error"} ELSE {}) :
                             status' = [status EXCEPT ![d] = IF kind[d] = "atapi" THEN s ELSE "error"]
    BY <1>7 DEF DriveStep
  <2>2. Served(d) \in {"packet", "data", "error"}
    BY DEF Served
  <2>3. status' \in [Drive -> {"idle", "busy", "packet", "data", "error"}]
    BY <1>1, <2>1, <2>2 DEF DrivesTyped
  <2>4. UNCHANGED <<job, selected, dev, device>>
    BY <1>7 DEF DriveStep
  <2> QED
    BY <1>1, <2>3, <2>4 DEF DrivesTyped
<1>8. Polls \/ Moves \/ ReadCalls \/ UNCHANGED vars => UNCHANGED <<status, job, selected, dev, device>>
  BY CallsAre DEF Polls, Answer, WaitBusy, WaitReady, Moves, ReadUnaligned, ReadAligned, AssertSector, vars, drives
<1> QED
  BY <1>2, <1>3, <1>4, <1>5, <1>6, <1>7, <1>8, NextIs, DriverSteps

PlaceTyped ==
  /\ length \in 0..(WORD - 1) /\ buf \in Nat \cup {None}
  /\ pc \in Place /\ ret \in {"none", "identify", "packet", "result"} /\ work \in Job

LEMMA PlaceType == AInv /\ [Next]_vars => PlaceTyped'
<1> SUFFICES ASSUME AInv, [Next]_vars PROVE PlaceTyped'
  OBVIOUS
<1>1. PlaceTyped
  BY DEF AInv, TypeOK, PlaceTyped
<1>2. CASE UNCHANGED <<length, buf, pc, ret, work>>
  BY <1>1, <1>2 DEF PlaceTyped
<1>3. CASE Select \/ NextDrive \/ Polls \/ Commands \/ AssertSector
  <2>1. UNCHANGED <<length, buf, work>>
    BY <1>3 DEF Select, NextDrive, Polls, Answer, WaitBusy, WaitReady, Commands, IssueIdentify, IssuePacket,
                SendPacket, AssertSector
  <2>2. pc' \in Place /\ ret' \in {ret, "result"}
    BY <1>3 DEF Select, NextDrive, Polls, Answer, WaitBusy, WaitReady, Commands, IssueIdentify, IssuePacket,
                SendPacket, AssertSector, Place
  <2> QED
    BY <1>1, <2>1, <2>2 DEF PlaceTyped
<1>4. CASE ReadUnaligned \/ ReadAligned
  <2>1. pc = "read" /\ UNCHANGED <<length, buf>>
    BY <1>4 DEF ReadUnaligned, ReadAligned, Driver
  <2>2. off \in Nat
    BY <2>1, Reads DEF InRead
  <2>3. \E s \in Nat : Packet(<<"sector", s>>)
    <3>1. off \div SECTOR \in Nat /\ AlignDown(off) \div SECTOR \in Nat
      BY <2>2, InSector
    <3> QED
      BY <1>4, <3>1 DEF ReadUnaligned, ReadAligned, ReadSector
  <2> QED
    BY <1>1, <2>1, <2>3 DEF PlaceTyped, Packet, Job, Place
<1>5. CASE Identified
  BY <1>1, <1>5 DEF Identified, Packet, PlaceTyped, Job, Place
<1>6. Idle => pc' \in Place /\ ret' = "none" /\ work' \in Job
  BY DEF Idle, Place, Job
<1>7. CASE Capacity
  <2>1. (Sectors * SECTOR) % WORD \in 0..(WORD - 1) /\ 0 \in 0..(WORD - 1)
    BY Disc, DivMod
  <2>2. length' \in {(Sectors * SECTOR) % WORD, 0} /\ Idle /\ UNCHANGED buf
    BY <1>7 DEF Capacity
  <2> QED
    BY <1>1, <1>6, <2>1, <2>2 DEF PlaceTyped
<1>8. CASE GotFirst \/ GotWhole \/ GotLast
  <2>1. length' = length /\ buf' \in Nat \cup {buf}
    BY <1>8, Gets
  <2>2. Idle \/ (pc' = "read" /\ ret' = "none" /\ work' = <<"none", 0>>)
    BY <1>8, Gets
  <2> QED
    BY <1>1, <1>6, <2>1, <2>2 DEF PlaceTyped, Place, Job
<1>9. CASE ReadCalls
  BY <1>1, <1>9, CallsAre DEF PlaceTyped, Place
<1>10. DriveStep \/ UNCHANGED vars => UNCHANGED <<length, buf, pc, ret, work>>
  BY DEF DriveStep, vars
<1> QED
  BY <1>2, <1>3, <1>4, <1>5, <1>7, <1>8, <1>9, <1>10, NextIs, DriverSteps DEF Moves, Takes

ReadTyped ==
  /\ off \in 0..(WORD - 1) /\ sz \in 0..(WORD - 1) /\ at \in 0..MaxSize
  /\ DOMAIN out = 0..(MaxSize - 1)
  /\ \A k \in DOMAIN out : out[k] \in Nat \cup {None}

LEMMA ReadType == AInv /\ [Next]_vars => ReadTyped'
<1> SUFFICES ASSUME AInv, [Next]_vars PROVE ReadTyped'
  OBVIOUS
<1>1. ReadTyped
  BY DEF AInv, TypeOK, ReadTyped
<1>2. CASE UNCHANGED <<off, sz, at, out>>
  BY <1>1, <1>2 DEF ReadTyped
<1>3. MaxSize \in Nat /\ WORD \in Nat
  BY Disc
<1>4. CASE GotFirst \/ GotWhole \/ GotLast
  <2>1. InRead
    BY <1>4, Gets
  <2>2. PICK n \in Nat :
          /\ n <= sz /\ DOMAIN out' = DOMAIN out
          /\ \A k \in DOMAIN out : out'[k] = IF at <= k /\ k < at + n THEN off + (k - at) ELSE out[k]
          /\ \/ n = sz /\ Idle /\ UNCHANGED <<off, sz, at>>
             \/ /\ off' = off + n /\ sz' = sz - n /\ at' = at + n
                /\ pc' = "read" /\ ret' = "none" /\ work' = <<"none", 0>>
    BY <1>4, Gets
  <2>3. off \in Nat /\ sz \in Nat /\ at \in Nat /\ off + sz < WORD /\ at + sz <= MaxSize
        /\ DOMAIN out = 0..(MaxSize - 1)
    BY <2>1, Reads
  <2>4. off' \in 0..(WORD - 1) /\ sz' \in 0..(WORD - 1) /\ at' \in 0..MaxSize
    BY <1>1, <1>3, <2>2, <2>3 DEF ReadTyped
  <2>5. ASSUME NEW k \in DOMAIN out PROVE out'[k] \in Nat \cup {None}
    <3>1. CASE at <= k /\ k < at + n
      <4>1. out'[k] = off + (k - at)
        BY <2>2, <3>1
      <4> QED
        BY <1>3, <2>3, <3>1, <4>1
    <3>2. CASE ~(at <= k /\ k < at + n)
      BY <1>1, <2>2, <3>2 DEF ReadTyped
    <3> QED
      BY <3>1, <3>2
  <2> QED
    BY <2>2, <2>3, <2>4, <2>5 DEF ReadTyped
<1>5. CASE ReadCalls
  <2>1. DOMAIN out' = 0..(MaxSize - 1) /\ \A k \in DOMAIN out' : out'[k] = None
    BY <1>1, <1>5, Starts DEF ReadTyped
  <2>2. off' \in 0..(WORD - 1) /\ sz' \in 0..(WORD - 1) /\ at' \in 0..MaxSize
    <3>1. CASE UNCHANGED <<off, sz, at>>
      BY <1>1, <3>1 DEF ReadTyped
    <3>2. CASE ~UNCHANGED <<off, sz, at>>
      <4>1. PICK first, size, p \in Nat :
              /\ off' = p + first /\ sz' = size /\ at' = 0
              /\ size <= MaxSize /\ p + first + size <= Sectors * SECTOR
        BY <1>5, <3>2, Starts
      <4>2. PICK D \in Nat : D = Sectors * SECTOR /\ D < WORD
        BY Disc
      <4> QED
        BY <1>3, <4>1, <4>2
    <3> QED
      BY <3>1, <3>2
  <2> QED
    BY <2>1, <2>2 DEF ReadTyped
<1>6. ~(GotFirst \/ GotWhole \/ GotLast) /\ ~ReadCalls => UNCHANGED <<off, sz, at, out>>
  BY NextIs, DriverSteps DEF Select, NextDrive, Polls, Answer, WaitBusy, WaitReady, Moves, ReadUnaligned,
     ReadAligned, AssertSector, Commands, IssueIdentify, IssuePacket, SendPacket, Takes, Identified, Capacity,
     DriveStep, vars, reading
<1> QED
  BY <1>2, <1>4, <1>5, <1>6

LEMMA TypeStep == AInv /\ [Next]_vars => TypeOK'
BY DrivesType, PlaceType, ReadType DEF TypeOK, DrivesTyped, PlaceTyped, ReadTyped

-----------------------------------------------------------------------------
(* The theorems                                                            *)

LEMMA InitAInv == Init => AInv
<1> SUFFICES ASSUME Init PROVE AInv
  OBVIOUS
<1>1. /\ status = [d \in Drive |-> "idle"] /\ job = [d \in Drive |-> <<"none", 0>>]
      /\ selected \in [Bus -> {MASTER, SLAVE}]
      /\ dev = [b \in Bus |-> None] /\ device = <<Secondary, MASTER>>
      /\ length = 0 /\ buf = None
      /\ pc = "select" /\ ret = "identify" /\ work = <<"none", 0>>
      /\ off = 0 /\ sz = 0 /\ at = 0 /\ out = [k \in 0..(MaxSize - 1) |-> None]
      /\ asked = None
  BY DEF Init
<1>2. device \in Drive /\ <<"none", 0>> \in Job /\ pc \in Place
  BY <1>1 DEF Drive, Bus, Job, Place
<1>3. 0 \in 0..(WORD - 1) /\ 0 \in 0..MaxSize
  BY Disc
<1>4. TypeOK
  BY <1>1, <1>2, <1>3 DEF TypeOK
<1>5. Known /\ Addressed /\ Answers
  BY <1>1 DEF Known, Addressed, Answers
<1>6. Phase /\ Waiting /\ Progress /\ ReadExact
  BY <1>1 DEF Phase, Waiting, Progress, InRead, ReadExact
<1>7. Search
  BY <1>1 DEF Search, Tried, Primary, Secondary, MASTER, SLAVE
<1> QED
  BY <1>4, <1>5, <1>6, <1>7 DEF AInv

LEMMA NextAInv == AInv /\ [Next]_vars => AInv'
BY TypeStep, KnownStep, AddressedStep, AnswersStep, PhaseStep, WaitingStep, SearchStep, ProgressStep, ReadExactStep
DEF AInv

LEMMA AInvAlways == Spec => []AInv
<1> QED
  BY InitAInv, NextAInv, PTL DEF Spec

\* The types hold, the drive that listens is the one that is meant, and data is
\* taken and packets are sent only when the drive is ready for just that.
THEOREM IntactCorrect == Spec => []Intact
<1>1. AInv => Intact
  <2> SUFFICES ASSUME AInv PROVE Intact
    OBVIOUS
  <2>1. /\ Waiting /\ Phase /\ Answers /\ TypeOK /\ Addressed /\ device \in Drive
    BY Shapes DEF AInv
  <2>2. ASSUME pc = "ready"
        PROVE  CASE ret = "identify" -> status[device] = "data" /\ job[device][1] = "identify"
                 [] ret = "packet" -> status[device] = "packet"
                 [] OTHER -> status[device] = "data" /\ job[device] = work
    <3>1. /\ status[device] \in {"packet", "data"}
          /\ status[device] = "packet" <=> job[device][1] = "packet"
      BY <2>1, <2>2 DEF Waiting, Answers
    <3>2. CASE ret = "identify"
      BY <2>1, <2>2, <3>1, <3>2 DEF Waiting
    <3>3. CASE ret = "packet"
      BY <2>1, <2>2, <3>1, <3>3 DEF Waiting
    <3>4. CASE ret = "result"
      BY <2>1, <2>2, <3>1, <3>4 DEF Waiting, Phase
    <3>5. ret \in {"identify", "packet", "result"}
      BY <2>1, <2>2 DEF Phase, TypeOK
    <3> QED
      BY <3>2, <3>3, <3>4, <3>5
  <2> QED
    BY <2>1, <2>2 DEF Intact, InStep
<1> QED
  BY <1>1, AInvAlways, PTL

\* ATAPI_init settles on a disc drive, and stops the machine only when every
\* disc drive there is has failed.
THEOREM DriveFoundCorrect == Spec => []DriveFound
<1>1. AInv => DriveFound
  BY DEF AInv, Search, DriveFound, Failed
<1> QED
  BY <1>1, AInvAlways, PTL

\* A read that returned has filled the caller's buffer with the bytes asked
\* for, up to the end of the file, and nothing else of it.
THEOREM ReadExactCorrect == Spec => []ReadExact
<1>1. AInv => ReadExact
  BY DEF AInv
<1> QED
  BY <1>1, AInvAlways, PTL

=============================================================================
