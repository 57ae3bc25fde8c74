------------------------------ MODULE ElfLoader ------------------------------
(***************************************************************************)
(* The ELF64 loader (src/kernel/userland/elf_loader.cpp) and the checks on *)
(* user pointers (user_memory.cpp).                                        *)
(*                                                                         *)
(* An address is a number below Word (2^64); the user half is              *)
(* 0..(UserEnd - 1), and UserEnd - 1 is USER_ADDR_MAX.  An image is a      *)
(* record: "bad" is the first check of the ELF identification that it      *)
(* fails, or "Success"; size is the file's size, phoff, phnum and entry    *)
(* are header fields and segs the program headers.                         *)
(***************************************************************************)
EXTENDS Vmm, Kalloc

LOCAL INSTANCE SequencesExt

CONSTANTS
  PhSize,       \* sizeof(Elf64ProgramHeader)
  HeaderSize,   \* sizeof(Elf64Header)
  StackPages,   \* USER_STACK_PAGES
  MaxBuffer     \* MAX_USER_BUFFER_SIZE

UserPages == Half * Entries * Entries * Entries
UserEnd == UserPages * PageSize
Word == 4 * UserEnd

ASSUME ElfAssumption ==
  /\ PhSize \in Nat \ {0} /\ HeaderSize \in Nat
  /\ StackPages \in 1..(UserPages - 3) /\ MaxBuffer \in Nat

Add(a, b) == (a + b) % Word

\* The indices of a user page.
PageVa(p) ==
  Va(<<p \div (Entries * Entries * Entries),
       (p \div (Entries * Entries)) % Entries,
       (p \div Entries) % Entries, p % Entries>>)

\* Pages of the user stack: below USER_STACK_TOP_VA, which leaves the last
\* two pages of the user half unmapped.
StackBottomPage == UserPages - 2 - StackPages

------------------------------------------------------------------------------

\* validate_header
ValidateHeader(img) ==
  LET tableEnd == Add(img.phoff, img.phnum * PhSize)
  IN IF img.size < HeaderSize THEN "BufferTooSmall"
     ELSE IF img.bad # "Success" THEN img.bad
     ELSE IF img.phnum = 0 THEN "NoLoadableSegments"
     ELSE IF tableEnd < img.phoff \/ tableEnd > img.size
     THEN "PhTableOutOfBounds"
     ELSE "Success"

Loadable(img) == SelectSeq(img.segs, LAMBDA ph : ph.load)

\* Mutant: the end of the segment in the file is not checked for wrap-around.
SegmentStatusNoWrap(ph, size) ==
  LET memEnd == Add(ph.vaddr, ph.memsz)
  IN IF Add(ph.off, ph.filesz) > size THEN "SegmentOutOfBounds"
     ELSE IF ph.memsz < ph.filesz \/ memEnd < ph.vaddr THEN "IntegerOverflow"
     ELSE IF ph.vaddr < PageSize \/ memEnd > UserEnd
     THEN "KernelAddressOverlap"
     ELSE "Success"

SegmentStatus(ph, size) ==
  LET fileEnd == Add(ph.off, ph.filesz)
      memEnd  == Add(ph.vaddr, ph.memsz)
  IN IF fileEnd < ph.off \/ fileEnd > size THEN "SegmentOutOfBounds"
     ELSE IF ph.memsz < ph.filesz \/ memEnd < ph.vaddr THEN "IntegerOverflow"
     ELSE IF ph.vaddr < PageSize \/ memEnd > UserEnd
     THEN "KernelAddressOverlap"
     ELSE "Success"

\* validate_segments: the status of the first bad segment, then the entry
\* point, which must lie in an executable one.
ValidateSegments(img) ==
  LET segs == Loadable(img)
      bad  == {i \in 1..Len(segs) : SegmentStatus(segs[i], img.size) # "Success"}
      first == CHOOSE i \in bad : \A j \in bad : i <= j
      entryIn(ph) == ph.x /\ img.entry >= ph.vaddr
                       /\ img.entry < Add(ph.vaddr, ph.memsz)
  IN IF ValidateHeader(img) # "Success" THEN ValidateHeader(img)
     ELSE IF bad # {} THEN SegmentStatus(segs[first], img.size)
     ELSE IF segs = <<>> THEN "NoLoadableSegments"
     ELSE IF ~\E i \in 1..Len(segs) : entryIn(segs[i])
     THEN "EntryNotExecutable"
     ELSE "Success"

------------------------------------------------------------------------------
(* load() *)

FirstPage(ph) == ph.vaddr \div PageSize
EndPage(ph) == (ph.vaddr + ph.memsz + PageSize - 1) \div PageSize

SegFlags(ph) ==
  {"P", "U"} \cup (IF ph.w THEN {"W"} ELSE {})
             \cup (IF ph.x THEN {} ELSE {"NX"})

\* The part of the file that goes into page p: where in the page, from where
\* in the file, and how much.
Copy(ph, p) ==
  LET lo == PageSize * p
      hi == lo + PageSize
      fe == ph.vaddr + ph.filesz
      from == IF lo < ph.vaddr THEN ph.vaddr ELSE lo
      to   == IF hi > fe THEN fe ELSE hi
  IN IF hi > ph.vaddr /\ lo < fe
     THEN [at |-> from - lo, file |-> ph.off + (from - ph.vaddr),
           len |-> to - from]
     ELSE [at |-> 0, file |-> 0, len |-> 0]

\* The pages load() maps, in order, with their flags.
PageList(img) ==
  LET segs == Loadable(img)
      pages(ph) == [i \in 1..(EndPage(ph) - FirstPage(ph)) |->
                      [page |-> FirstPage(ph) + i - 1, flags |-> SegFlags(ph)]]
  IN FlattenSeq([i \in 1..Len(segs) |-> pages(segs[i])])
       \o [i \in 1..StackPages |->
             [page |-> StackBottomPage + i - 1, flags |-> {"P", "U", "W", "NX"}]]

\* One page: the frame is not given back when it cannot be mapped.
LoadPage(r, pml4, pg) ==
  LET a  == AllocPage(r.m)
      mp == MapPageInTable(a.m, pml4, PageVa(pg.page), a.pa, TRUE, pg.flags)
  IN IF r.st # "Success" THEN r
     ELSE IF a.pa = 0 THEN [r EXCEPT !.st = "AllocationFailed"]
     ELSE IF mp.st # "Success"
     THEN [st |-> "MappingFailed", m |-> mp.m, lost |-> r.lost \cup {a.pa}]
     ELSE [r EXCEPT !.m = mp.m]

\* lost: the frames that nothing refers to afterwards.
Load(m, pml4, img) ==
  LET st == ValidateSegments(img)
      r0 == [st |-> st, m |-> m, lost |-> {}]
      step(r, pg) == LoadPage(r, pml4, pg)
  IN IF st # "Success" THEN r0 ELSE FoldLeft(step, r0, PageList(img))

------------------------------------------------------------------------------
(* user_memory.cpp *)

IsUserAddress(a) == a >= PageSize /\ a < UserEnd

IsUserRange(start, len) ==
  LET end == Add(start, len)
  IN /\ len # 0 /\ len <= MaxBuffer /\ IsUserAddress(start)
     /\ end >= start /\ end - 1 < UserEnd


\* validate_read_buffer and validate_write_buffer, which also needs W.
ValidateBuffer(m, cr3, start, len, need) ==
  /\ start # 0 /\ IsUserRange(start, len)
  /\ \A p \in (start \div PageSize)..((start + len - 1) \div PageSize) :
       LET t == Translate(m, cr3, PageVa(p)) IN t.ok /\ need \subseteq t.flags

\* validate_string: nul is the address of the terminator.
ValidateString(m, cr3, start, max, nul) ==
  /\ start # 0 /\ max # 0 /\ IsUserAddress(start) /\ nul - start < max
  /\ \A a \in start..nul :
       LET t == Translate(m, cr3, PageVa(a \div PageSize))
       IN a < UserEnd /\ t.ok /\ "U" \in t.flags

==============================================================================
