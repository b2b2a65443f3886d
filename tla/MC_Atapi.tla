------------------------------ MODULE MC_Atapi ------------------------------
(***************************************************************************)
(* Atapi with sectors of two bytes, a disc of three of them, and every     *)
(* attachment of drives to the two buses.                                  *)
(***************************************************************************)
EXTENDS Atapi

\* What may be on one bus
OnBus == [{MASTER, SLAVE} -> {"atapi", "disk", "none"}] \cup [{MASTER, SLAVE} -> {"floating"}]
Wired(p, s) == [d \in Drive |-> IF d[1] = Primary THEN p[d[2]] ELSE s[d[2]]]
HasDisc(b) == \E u \in {MASTER, SLAVE} : b[u] = "atapi"

\* With a disc drive on the secondary bus, the primary one is never looked at.
MCWirings ==
  {Wired(p, s) : p \in OnBus, s \in {b \in OnBus : ~HasDisc(b)}} \cup
  {Wired([u \in {MASTER, SLAVE} |-> "atapi"], s) : s \in {b \in OnBus : HasDisc(b)}}

\* Every read within the disc
MCRequests == {r \in (0..(Sectors * SECTOR)) \X (0..MaxSize) : r[1] + r[2] <= Sectors * SECTOR}

\* Reads of at least one byte
NonEmpty == {r \in MCRequests : r[2] > 0}
NoFiles == {}

\* A file that ends inside a sector, and one that ends with the disc
MCFiles == {[lba |-> 0, size |-> 3], [lba |-> 2, size |-> 2]}

=============================================================================
