-------------------------------- MODULE Boot --------------------------------
(***************************************************************************)
(* The boot of the kernel from the boot loader's block to the interactive  *)
(* console: kernel_main of src/kernel/kernel_main.cpp over Multiboot2,     *)
(* ReservedRegions and Input.                                              *)
(***************************************************************************)
EXTENDS Multiboot2, ReservedRegions, Input

CONSTANTS
  Machines,      \* what the kernel may be started on
  Kernel,        \* the physical image: [start, end]
  MaxStrokes     \* bound: how often a key goes down or up

ASSUME CapacityAssumption ==
  /\ Capacity \in Nat \ {0} /\ IdxMod \in Nat \ {0}
  /\ Capacity < IdxMod /\ IdxMod % Capacity = 0
\* Every region that populate and init add has a place in the table.
ASSUME RegionsAssumption == MaxRegions >= MaxMmap + 4

VARIABLES
  pc,            \* how far kernel_main is
  machine,       \* [block, tags, mb2, keys]
  info,          \* g_boot_info
  raw,           \* s_reserved_tracker.m_raw_regions
  regions,       \* s_reserved_tracker.m_regions
  pmm,           \* g_pmm: managed, bitmap, size and the set of free frames
  strokes        \* how often a key went down or up

bootVars == <<pc, machine, info, raw, regions, pmm>>
vars == <<bootVars, inputVars, strokes>>

NoPmm == [managed |-> 0, bitmap |-> 0, size |-> 0, free |-> {}]

Init ==
  /\ machine \in Machines
  /\ pc = "start"
  /\ info = NoInfo /\ raw = <<>> /\ regions = <<>> /\ pmm = NoPmm /\ strokes = 0
  /\ InputInit(machine.keys # {})

\* The block in physical memory, as populate and init are told of it.
Mb2 == [start |-> IF info.mb2 = 0 THEN 0 ELSE machine.mb2.start,
        size |-> IF info.mb2 = 0 THEN 0 ELSE machine.mb2.size]

StartParse ==
  /\ pc = "start"
  /\ info' = ParseHeader(machine.block)
  /\ pc' = "parse"
  /\ UNCHANGED <<machine, raw, regions, pmm, inputVars, strokes>>

ParseNextTag ==
  /\ pc = "parse" /\ info.curr < info.end
  /\ info' = ParseTag(machine.block, info)
  /\ UNCHANGED <<pc, machine, raw, regions, pmm, inputVars, strokes>>

\* A block that is not valid is only reported: boot goes on with what was read.
TrackRegions ==
  /\ pc = "parse" /\ info.curr = info.end
  /\ \E r \in {Populate(info.mmap, Kernel, Mb2)} :
       raw' = r /\ regions' = Normalize(r)
  /\ pc' = "pmm"
  /\ UNCHANGED <<machine, info, pmm, inputVars, strokes>>

Panic == pc' = "panic" /\ UNCHANGED <<machine, info, raw, regions, pmm, inputVars, strokes>>

NoMemory == pc = "pmm" /\ MaxUsable(info.mmap) = 0 /\ Panic

Managed == Up(MaxUsable(info.mmap), BigPage)

Size == BitmapSize(Managed \div PageSize)

NoPlace ==
  /\ pc = "pmm" /\ MaxUsable(info.mmap) # 0
  /\ Placements(info.mmap, regions, Kernel, Mb2, Size) = {}
  /\ Panic

\* The ranges that init marks once more after the available ones are freed.
Own(bitmap, size) ==
  {Region(0, LowEnd, "reserved", "low"),
   Region(Kernel.start, Kernel.end, "reserved", "kernel"),
   Region(Mb2.start, Mb2.start + Mb2.size, "reserved", "mb2"),
   Region(bitmap, bitmap + size, "reserved", "bitmap")}

PmmInit ==
  /\ pc = "pmm" /\ MaxUsable(info.mmap) # 0
  /\ \E a \in Placements(info.mmap, regions, Kernel, Mb2, Size) :
     \E r \in {RegisterBitmap(raw, a, Size)} :
     \E n \in {Normalize(r)} :
       /\ raw' = r /\ regions' = n
       /\ pmm' = [managed |-> Managed, bitmap |-> a, size |-> Size,
                  free |-> FreeFrames(n, info.mmap, Own(a, Size), Managed)]
  /\ pc' = "ps2"
  /\ UNCHANGED <<machine, info, inputVars, strokes>>

\* Step 10: the controller, then the keyboard, which tries the controller again if
\* it is not ready.  Neither failure stops the boot.
StartController ==
  /\ pc = "ps2"
  /\ \E ok \in BOOLEAN : Ps2Init(ok)
  /\ pc' = "keyboard"
  /\ UNCHANGED <<machine, info, raw, regions, pmm, strokes>>

RetryController ==
  /\ pc = "keyboard" /\ ~ps2
  /\ \E ok \in BOOLEAN : Ps2Init(ok)
  /\ pc' = IF ps2' THEN "keyboard" ELSE "run"
  /\ UNCHANGED <<machine, info, raw, regions, pmm, strokes>>

StartKeyboard ==
  /\ pc = "keyboard"
  /\ \E answered, intime \in BOOLEAN : KeyboardInit(answered, intime)
  /\ pc' = "run"
  /\ UNCHANGED <<machine, info, raw, regions, pmm, strokes>>

\* In test mode the machine is switched off; otherwise the shell or the main loop
\* reads the keyboard.
TestExit ==
  /\ pc = "run" /\ BootMode(info.text) = "test"
  /\ pc' = "off"
  /\ UNCHANGED <<machine, info, raw, regions, pmm, inputVars, strokes>>

Running == pc = "run" /\ BootMode(info.text) # "test"

Typing ==
  /\ pc \in {"ps2", "keyboard", "run"} /\ strokes < MaxStrokes
  /\ strokes' = strokes + 1
  /\ \E k \in machine.keys : KeyDown(k) \/ KeyUp(k)
  /\ UNCHANGED bootVars

Irq1 == Running /\ HandleInterrupt /\ UNCHANGED <<bootVars, strokes>>

Consume ==
  /\ Running
  /\ PopTail \/ PopHead \/ PopCopy \/ PopAdvance
  /\ UNCHANGED <<bootVars, strokes>>

Next ==
  \/ StartParse \/ ParseNextTag \/ TrackRegions
  \/ NoMemory \/ NoPlace \/ PmmInit
  \/ StartController \/ RetryController \/ StartKeyboard \/ TestExit
  \/ Typing \/ Irq1 \/ Consume

Spec == Init /\ [][Next]_vars

------------------------------------------------------------------------------
\* Properties

\* The tags that a reader of the block reaches, in order: those whose header lies
\* inside the block, up to the first that ends it or does not fit.
Fits(t, off, end) == end - off >= 8 /\ t.size >= 8 /\ t.size <= end - off

Offset(i) == machine.tags[i].off

Reached ==
  {i \in DOMAIN machine.tags :
     /\ machine.block.total - Offset(i) >= 8
     /\ \A j \in 1..(i - 1) :
          /\ machine.tags[j].tag.type # "end"
          /\ Fits(machine.tags[j].tag, Offset(j), machine.block.total)}

First(type) ==
  {i \in Reached : /\ machine.tags[i].tag.type = type
                   /\ Fits(machine.tags[i].tag, Offset(i), machine.block.total)
                   /\ \A j \in Reached : machine.tags[j].tag.type = type => i <= j}

ValidEntry(e) == e.len > 0 /\ e.base + e.len <= MaxAddr

\* The entries of the first memory-map tag, as far as the tag's size goes.
Firmware ==
  IF First("mmap") = {} THEN <<>>
  ELSE LET t == machine.tags[Min(First("mmap"))].tag
       IN IF t.size < 16 \/ t.version # 0 \/ t.esize < EntrySize THEN <<>>
          ELSE SelectSeq(SubSeq(t.entries, 1, (t.size - 16) \div t.esize), ValidEntry)

Genuine(type, sums) ==
  \E i \in First(type) :
    LET t == machine.tags[i].tag
    IN t.signed /\ sums \subseteq t.sums

\* The parser reads no byte beyond the block and, when it is done, holds what the
\* block says: it is valid exactly if the walk meets an end tag of 8 bytes, the map
\* is the first map tag's, cut at the table's size and then marked as truncated, and
\* an ACPI 2.0 pointer is never replaced by an ACPI 1.0 one.
ParseSound ==
  /\ info.read <= machine.block.total
  /\ pc = "pmm" /\ info.mb2 # 0 =>
       /\ info.valid = (\E i \in Reached : /\ machine.tags[i].tag.type = "end"
                                           /\ machine.tags[i].tag.size = 8)
       /\ info.mmap = SubSeq(Firmware, 1, Min({MaxMmap, Len(Firmware)}))
       /\ info.detected = Len(Firmware)
       /\ Len(Firmware) > MaxMmap => info.truncated
       /\ Genuine("acpi_new", {20, 36}) => info.acpi = "v2"

Pages == 0..(MaxAddr \div PageSize)

\* Page p has a unit in the range from s to e.
Touched(p, s, e) == s < e /\ p * PageSize < e /\ (p + 1) * PageSize > s

Covered(p, s, e) == s <= p * PageSize /\ (p + 1) * PageSize <= e

KeptOut(p) ==
  \/ Touched(p, 0, LowEnd)
  \/ Touched(p, Kernel.start, Kernel.end)
  \/ Touched(p, Mb2.start, Mb2.start + Mb2.size)
  \/ Touched(p, pmm.bitmap, pmm.bitmap + pmm.size)
  \/ \E i \in DOMAIN info.mmap :
       /\ info.mmap[i].type # "available"
       /\ Touched(p, info.mmap[i].base, info.mmap[i].base + info.mmap[i].len)

Usable(p) ==
  /\ ~KeptOut(p)
  /\ \E i \in DOMAIN info.mmap :
       /\ info.mmap[i].type = "available"
       /\ Covered(p, info.mmap[i].base, info.mmap[i].base + info.mmap[i].len)

\* The normalized regions are sorted, disjoint intervals of whole pages, and their
\* available part is exactly the memory that one available entry of the map covers
\* and nothing reserves: overlapping, unaligned, nested and adjacent entries in any
\* order included.  Only a full table may leave available memory out.  The frames
\* the allocator starts with are the managed ones of these, and its bitmap lies in
\* available memory that nothing else reserves.
MemoryMapSound ==
  /\ \A i \in 1..(Len(regions) - 1) : regions[i].end <= regions[i + 1].start
  /\ pc \in {"pmm", "ps2"} =>
       \A p \in Pages :
         /\ ~IsReserved(regions, p * PageSize) => Usable(p)
         /\ Usable(p) /\ Len(regions) < MaxRegions => ~IsReserved(regions, p * PageSize)
  /\ pc = "ps2" =>
       /\ pmm.free = {p \in 0..(pmm.managed \div PageSize - 1) :
                        ~IsReserved(regions, p * PageSize)}
       /\ \E i \in DOMAIN info.mmap :
            /\ info.mmap[i].type = "available"
            /\ info.mmap[i].base <= pmm.bitmap
            /\ pmm.bitmap + pmm.size <= info.mmap[i].base + info.mmap[i].len
       /\ \A i \in DOMAIN raw :
            raw[i].type = "available" \/ raw[i].name = "bitmap"
              \/ raw[i].end <= pmm.bitmap \/ raw[i].start >= pmm.bitmap + pmm.size
==============================================================================
