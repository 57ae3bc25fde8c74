------------------------------ MODULE Multiboot2 ------------------------------
(***************************************************************************)
(* The parser of the boot loader's information block,                      *)
(* src/kernel/arch/x86_64/boot/multiboot2.cpp.                             *)
(*                                                                         *)
(* A block is [magic, addr, total, at]: whether the magic is right, the    *)
(* state of the pointer, total_size, and the tag whose header is at each   *)
(* byte offset.  Tags carry their declared type and size and, in the other *)
(* fields, what the payload holds:                                         *)
(*   text            cmdline (a set of arguments), loader                  *)
(*   esize, version, entries   mmap                                        *)
(*   sane, kind, colors        framebuffer: all range checks hold, fb_type *)
(*   signed, sums, len         the RSDP: signature, checksums, length      *)
(*   table                     efi64: the system table pointer is not null *)
(* Sizes and offsets are bytes, as in the code.                            *)
(***************************************************************************)
EXTENDS Integers, SequencesExt, FiniteSetsExt

CONSTANTS
  MaxInfoSize,   \* MAX_REASONABLE_INFO_SIZE
  MaxMmap,       \* MAX_MEMORY_REGIONS
  MaxAddr        \* UINT64_MAX

EntrySize == 24  \* sizeof(MemoryMapEntry)

\* The fields of BootInformation, and the local variables of parse: curr, end,
\* the tag types seen, and read, the end of the furthest byte read so far.
NoInfo ==
  [valid |-> FALSE, text |-> {}, mmap |-> <<>>, truncated |-> FALSE,
   detected |-> 0, usable |-> 0, fb |-> "none", acpi |-> "none", efi |-> FALSE,
   mb2 |-> 0, curr |-> 0, end |-> 0, seen |-> {}, read |-> 0]

\* What follows the last tag is zero.
HeaderAt(b, off) ==
  IF off \in DOMAIN b.at THEN b.at[off] ELSE [type |-> "end", size |-> 0]

\* The checks before the loop.
ParseHeader(b) ==
  IF ~b.magic \/ b.addr # "aligned" \/ b.total < 16 \/ b.total > MaxInfoSize
  THEN NoInfo
  ELSE [NoInfo EXCEPT !.mb2 = b.total, !.curr = 8, !.end = b.total, !.read = 8]

Reads(i, off) == [i EXCEPT !.read = Max({@, off})]

\* One entry of the map: invalid entries are skipped, and those beyond the table
\* are only counted.
AddEntry(i, e) ==
  IF e.len = 0 \/ MaxAddr - e.base < e.len THEN i
  ELSE [i EXCEPT !.detected = @ + 1,
                 !.usable = IF e.type = "available" THEN Min({@ + e.len, MaxAddr})
                            ELSE @,
                 !.mmap = IF Len(@) < MaxMmap THEN Append(@, e) ELSE @,
                 !.truncated = @ \/ Len(i.mmap) >= MaxMmap]

\* Mutant: a last, partial entry is read as if it were whole.
EntriesInRoundedUp(t) == (t.size - 16 + t.esize - 1) \div t.esize

EntriesIn(t) == (t.size - 16) \div t.esize

ParseMmap(i, t) ==
  IF t.size < 16 THEN i
  ELSE IF t.version # 0 \/ t.esize < EntrySize \/ t.esize > 1024
       THEN Reads(i, i.curr + 16)
  ELSE LET n == EntriesIn(t)
           whole == [Reads(i, i.curr + 16) EXCEPT
                       !.truncated = @ \/ (t.size - 16) % t.esize # 0]
       IN IF n = 0 THEN whole
          ELSE Reads(FoldLeft(AddEntry, whole, SubSeq(t.entries, 1, n)),
                     i.curr + 16 + (n - 1) * t.esize + EntrySize)

ParseFramebuffer(i, t) ==
  IF t.size < 32 THEN i
  ELSE IF ~t.sane THEN Reads(i, i.curr + 30)
  ELSE IF t.kind = 0 /\ t.size >= 36
       THEN [Reads(i, i.curr + 36) EXCEPT
               !.fb = IF t.colors <= 256 /\ 36 + t.colors * 3 <= t.size
                      THEN "indexed" ELSE @]
  ELSE IF t.kind = 1 /\ t.size >= 38
       THEN [Reads(i, i.curr + 38) EXCEPT !.fb = "rgb"]
  ELSE [Reads(i, i.curr + 30) EXCEPT !.fb = IF t.kind = 2 THEN "text" ELSE @]

\* The ACPI 1.0 copy of the RSDP.
ParseAcpiOld(i, t) ==
  IF t.size < 28 THEN i
  ELSE [Reads(i, i.curr + 28) EXCEPT
          !.acpi = IF t.signed /\ 20 \in t.sums THEN "v1" ELSE @]

\* The ACPI 2.0 copy, which says itself how long it is.
ParseAcpiNew(i, t) ==
  IF t.size < 44 THEN i
  ELSE IF t.len < 36 \/ t.len > t.size - 8 THEN Reads(i, i.curr + 32)
  ELSE [Reads(i, i.curr + (IF t.signed /\ 20 \in t.sums THEN 8 + t.len ELSE 32)) EXCEPT
          !.acpi = IF t.signed /\ {20, t.len} \subseteq t.sums THEN "v2" ELSE @]

\* The switch of one tag; the first tag of a type wins.
ParsePayload(i, t) ==
  CASE t.type = "cmdline" ->
         [Reads(i, i.curr + t.size) EXCEPT !.text = IF t.size > 8 THEN t.text ELSE @]
    [] t.type = "loader" -> Reads(i, i.curr + t.size)
    [] t.type \in {"basicmem", "efi64"} ->
         IF t.size < 16 THEN i
         ELSE [Reads(i, i.curr + 16) EXCEPT
                 !.efi = @ \/ (t.type = "efi64" /\ t.table)]
    [] t.type = "mmap" -> ParseMmap(i, t)
    [] t.type = "framebuffer" -> ParseFramebuffer(i, t)
    [] t.type = "acpi_old" -> ParseAcpiOld(i, t)
    [] t.type = "acpi_new" -> ParseAcpiNew(i, t)
    [] OTHER -> i

\* Tags the parser passes over: a duplicate, or an ACPI 1.0 tag after a 2.0 one.
Ignored(i, t) ==
  t.type \in i.seen \/ (t.type = "acpi_old" /\ "acpi_new" \in i.seen)

\* One round of the loop; the loop is over when curr = end.
ParseTag(b, i) ==
  LET t == HeaderAt(b, i.curr)
      left == i.end - i.curr
      stop == [i EXCEPT !.curr = i.end, !.read = Max({@, i.curr + 8})]
  IN IF left < 8 THEN [i EXCEPT !.curr = i.end]
     ELSE IF t.type = "end" THEN [stop EXCEPT !.valid = t.size = 8]
     ELSE IF t.size < 8 \/ t.size > left THEN stop
     ELSE LET done == IF Ignored(i, t) THEN Reads(i, i.curr + 8)
                      ELSE [ParsePayload(Reads(i, i.curr + 8), t) EXCEPT
                              !.seen = @ \cup {t.type}]
          IN [done EXCEPT !.curr = Min({i.end, i.curr + 8 * ((t.size + 7) \div 8)})]

\* get_boot_mode on the arguments of the command line.
BootMode(text) ==
  IF text \cap {"test", "selftest"} # {} THEN "test"
  ELSE IF "debug" \in text THEN "debug" ELSE "normal"
==============================================================================
