----------------------------- MODULE BlockLayer ------------------------------
(***************************************************************************)
(* Block devices, partitions and the partition table (src/kernel/storage/) *)
(* and the choice of the root device in kernel_main.                       *)
(*                                                                         *)
(* A device is [disk, part, start, count, ro]: sectors start to            *)
(* start+count-1 of a disk; part is the partition's number, 0 for the disk *)
(* itself.  An LBA is relative to the device's start.                      *)
(***************************************************************************)
EXTENDS Integers, Sequences, SequencesExt, FiniteSets

CONSTANTS
  MaxEntries,    \* the most table entries accepted (256)
  MaxParts,      \* MAX_PARSED_PARTITIONS
  MaxDevices     \* MAX_BLOCK_DEVICES

\* BlockDevice::validate_bounds, for a buffer that is not null.
ValidateBounds(total, ro, lba, count, write) ==
  \/ count = 0
  \/ ~(write /\ ro) /\ lba + count <= total

\* Mutant: the partition leaves the bounds to the disk below it.
AcceptsUnchecked(d, lba, count, write) == ~(write /\ d.ro)

\* Partition::read_sectors and write_sectors: whether the parent is asked for
\* the sectors, and whether they belong to the device.
Accepts(d, lba, count, write) == ValidateBounds(d.count, d.ro, lba, count, write)

Inside(d, lba) == d.start + lba \in d.start..(d.start + d.count - 1)

------------------------------------------------------------------------------
(* GptParser.  A table is [sig, crc, first, last, num, esz, acrc, cells]:  *)
(* cells are the array's 128-byte pieces, esz the entry size in pieces.    *)
(* The code takes piece i for entry i.  A piece is [used, lo, hi].         *)

Overlap(a, b) == ~(a.hi < b.lo \/ b.hi < a.lo)

\* What entry i alone is refused for.
EntryStatus(t, i) ==
  LET e == t.cells[i]
  IN CASE ~e.used -> "Success"
       [] e.lo > e.hi \/ e.lo < t.first \/ e.hi > t.last -> "PartitionOutOfBounds"
       [] \E j \in 1..(i - 1) : t.cells[j].used /\ Overlap(e, t.cells[j])
            -> "OverlappingPartitions"
       [] OTHER -> "Success"

\* validate_gpt: the first check that fails.
ValidateGpt(t, total) ==
  LET bad == SelectSeq([i \in 1..t.num |-> EntryStatus(t, i)], LAMBDA s : s # "Success")
  IN CASE ~t.sig -> "InvalidSignature"
       [] ~t.crc -> "InvalidHeaderCrc"
       [] t.first > t.last \/ (total > 0 /\ t.last >= total) -> "InvalidUsableRange"
       [] t.esz < 1 -> "InvalidEntrySize"
       [] ~t.acrc -> "InvalidArrayCrc"
       [] bad # <<>> -> Head(bad)
       [] OTHER -> "Success"

\* StorageManager::register_device.
RegisterDevice(devs, d) ==
  IF Len(devs) >= MaxDevices \/ \E i \in DOMAIN devs : devs[i].disk = d.disk
                                                         /\ devs[i].part = d.part
  THEN devs ELSE Append(devs, d)

\* parse_and_register: io is which of the two reads fails (0: none), mem whether
\* the array can be allocated; n partitions are known already.
\* The answer: [st, devs, n].
ParseAndRegister(devs, n, disk, t, io, mem) ==
  LET no(st) == [st |-> st, devs |-> devs, n |-> n]
      used == SelectSeq([i \in 1..t.num |-> i], LAMBDA i : t.cells[i].used)
      take == SubSeq(used, 1, IF Len(used) < MaxParts - n THEN Len(used) ELSE MaxParts - n)
      dev(i) == [disk |-> disk.disk, part |-> i, start |-> t.cells[i].lo,
                 count |-> t.cells[i].hi - t.cells[i].lo + 1, ro |-> disk.ro]
  IN CASE io = 1 -> no("IoError")
       [] ~t.sig -> no("InvalidSignature")
       [] t.num = 0 \/ t.esz < 1 \/ t.num > MaxEntries -> no("InvalidEntrySize")
       [] ~mem \/ io = 2 -> no("IoError")
       [] ValidateGpt(t, disk.count) # "Success" -> no(ValidateGpt(t, disk.count))
       [] OTHER -> [st |-> IF take = <<>> THEN "NoPartitionsFound" ELSE "Success",
                    devs |-> FoldLeft(LAMBDA ds, i : RegisterDevice(ds, dev(i)), devs, take),
                    n |-> n + Len(take)]

------------------------------------------------------------------------------
(* kernel_main: the device with the best boot sector becomes the root.     *)

LabelScore(l) == CASE l = "LLAMAOS" -> 1000 [] l \in {"ROOT", "SYS"} -> 500
                   [] l \in {"ESP", "EFI"} -> -500 [] OTHER -> 0

\* The score of device d, whose sector 0 is b.
Score(d, b) == LabelScore(b.label) + (IF d.part % 10 # 0 THEN 200 ELSE 0)

Candidate(b) == b.sig /\ b.bps = 512 /\ b.spc # 0 /\ b.fats # 0 /\ b.fatsize # 0

\* The index of the first device with the highest score; 0 when there is none.
\* boot[i] is sector 0 of device i.
MountTarget(devs, boot) ==
  FoldLeft(LAMBDA a, i : IF Candidate(boot[i]) /\ Score(devs[i], boot[i]) > a.score
                         THEN [at |-> i, score |-> Score(devs[i], boot[i])] ELSE a,
           [at |-> 0, score |-> -1000], [i \in DOMAIN devs |-> i]).at

==============================================================================
