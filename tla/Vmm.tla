--------------------------------- MODULE Vmm ---------------------------------
(***************************************************************************)
(* Page tables: src/kernel/memory/vmm.cpp.                                 *)
(*                                                                         *)
(* An operation is a function of the memory it is given, so that the       *)
(* callers (process.cpp, stack_allocator.cpp, the self-test) compose them. *)
(* A memory is a record of                                                 *)
(*   free  the frames the PMM has to give,                                 *)
(*   tab   the present page table entries: a function of the pairs         *)
(*         <<frame of the table, index>>,                                  *)
(*   root  m_root_pml4_paddr, 0 before init,                               *)
(*   fail  m_force_alloc_failure.                                          *)
(* A physical address is a frame number.  A table has Entries entries      *)
(* (512 in the code) and the lower half of a PML4 is 0..(Half - 1).        *)
(***************************************************************************)
EXTENDS Integers, FiniteSets, Sequences

CONSTANTS
  Entries,    \* entries per table, 512
  Half,       \* entries of the user half, 256
  Section     \* linker section of each frame of the first large page

LOCAL INSTANCE FiniteSetsExt
LOCAL INSTANCE Functions
LOCAL INSTANCE SequencesExt

ASSUME EntriesAssumption ==
  /\ Half \in Nat /\ Entries = 2 * Half /\ Half >= 4
  /\ Section \in [0..(Entries - 1) ->
       {"low", "boot", "text", "rodata", "data", "bss", "rest"}]

Index == 0..(Entries - 1)

Clear == [pa |-> 0, flags |-> {}]
Pte(pa, flags) == [pa |-> pa, flags |-> flags]
Present(e) == "P" \in e.flags

Entry(m, t, i) == IF <<t, i>> \in DOMAIN m.tab THEN m.tab[<<t, i>>] ELSE Clear

SetEntry(m, t, i, e) ==
  [m EXCEPT !.tab = [x \in DOMAIN m.tab \cup {<<t, i>>} |->
                       IF x = <<t, i>> THEN e ELSE m.tab[x]]]

ClearEntry(m, t, i) ==
  [m EXCEPT !.tab = Restrict(m.tab, DOMAIN m.tab \ {<<t, i>>})]

\* alloc_page: a frame that holds zeros, 0 if there is none.
AllocPage(m) ==
  IF m.free = {} \/ m.fail THEN [pa |-> 0, m |-> m]
  ELSE LET f == Min(m.free)
       IN [pa |-> f,
           m  |-> [m EXCEPT !.free = @ \ {f},
                            !.tab = Restrict(@, {x \in DOMAIN @ : x[1] # f})]]

\* alloc_pages: the first run of n frames.
AllocPages(m, n) ==
  LET runs == {f \in m.free : f..(f + n - 1) \subseteq m.free}
      r == Min(runs)..(Min(runs) + n - 1)
  IN IF runs = {} \/ m.fail THEN [pa |-> 0, m |-> m]
     ELSE [pa |-> Min(runs),
           m  |-> [m EXCEPT !.free = @ \ r,
                     !.tab = Restrict(@, {x \in DOMAIN @ : x[1] \notin r})]]

\* free_page rejects the null address.
FreePages(m, F) == [m EXCEPT !.free = @ \cup (F \ {0})]

------------------------------------------------------------------------------
(* init() *)

SectionFlags(f) ==
  CASE Section[f] = "text"   -> {"P"}
    [] Section[f] = "rodata" -> {"P", "NX"}
    [] Section[f] = "boot"   -> {"P", "W"}
    [] OTHER                 -> {"P", "W", "NX"}

\* The entries of the five tables t[1..5]: PML4, PDPT, PD2, PD1 and PT0.  The
\* upper half of PD1 is left to the MMIO window.
KernelTables(t) ==
  LET table == {"P", "W"}
      huge  == {"P", "W", "H", "NX"}
  IN [x \in {<<t[1], Entries - 1>>, <<t[2], Entries - 1>>,
             <<t[2], Entries - 2>>, <<t[4], 0>>}
            \cup ({t[3], t[5]} \X Index) \cup ({t[4]} \X (1..(Half - 1))) |->
        CASE x[1] = t[1] -> Pte(t[2], table)
          [] x[1] = t[2] -> Pte(IF x[2] = Entries - 1 THEN t[3] ELSE t[4],
                                table)
          [] x[1] = t[3] -> Pte(Entries * (Entries + x[2]), huge)
          [] x = <<t[4], 0>> -> Pte(t[5], table)
          [] x[1] = t[4] -> Pte(Entries * x[2], huge)
          [] OTHER       -> Pte(x[2], SectionFlags(x[2]))]

\* init(): without NX, or when one of the five tables cannot be allocated,
\* the tables allocated so far are freed and nothing is switched.
VmmInit(m, nxe) ==
  LET fs == [k \in 1..5 |-> CHOOSE f \in m.free :
                              Cardinality({g \in m.free : g < f}) = k - 1]
  IN IF ~nxe \/ m.fail \/ Cardinality(m.free) < 5 THEN m
     ELSE [m EXCEPT !.free = @ \ {fs[i] : i \in 1..5},
                    !.tab  = KernelTables(fs),
                    !.root = fs[1]]

------------------------------------------------------------------------------
(* Addresses and walks *)

\* A virtual address: the four indices and what the checks look at.
Va(ix) == [ix |-> ix, canonical |-> TRUE, aligned |-> TRUE]

BadAddress(m, va, paAligned) ==
  IF m.root = 0 THEN "NotInitialized"
  ELSE IF ~va.canonical THEN "InvalidVirtualAddress"
  ELSE IF ~va.aligned \/ ~paAligned THEN "UnalignedAddress"
  ELSE "Success"

\* The entries a walk from table t reads, ending at the first one that is not
\* present or is a large page.
Path(m, t, ix) ==
  LET e4 == Entry(m, t, ix[1])
      e3 == Entry(m, e4.pa, ix[2])
      e2 == Entry(m, e3.pa, ix[3])
      e1 == Entry(m, e2.pa, ix[4])
  IN IF ~Present(e4) THEN <<e4>>
     ELSE IF ~Present(e3) THEN <<e4, e3>>
     ELSE IF ~Present(e2) \/ "H" \in e2.flags THEN <<e4, e3, e2>>
     ELSE <<e4, e3, e2, e1>>

\* walk_live_cr3 and translate: the frame and the flags of the last entry.
\* Both walk the tables CR3 points to.
Walk(m, cr3, va) ==
  LET p == Path(m, cr3, va.ix)
      e == p[Len(p)]
  IN IF ~va.canonical \/ ~Present(e) THEN [ok |-> FALSE, pa |-> 0, flags |-> {}]
     ELSE [ok |-> TRUE, flags |-> e.flags,
           pa |-> IF "H" \in e.flags THEN e.pa + va.ix[4] ELSE e.pa]

Translate(m, cr3, va) ==
  IF m.root = 0 THEN [ok |-> FALSE, pa |-> 0, flags |-> {}]
  ELSE Walk(m, IF cr3 # 0 THEN cr3 ELSE m.root, va)

\* phys_to_virt: the indices of the direct map of frame f.
DirectMap(f) ==
  Va(<<Entries - 1, Entries - 2 + f \div (Entries * Entries),
       (f \div Entries) % Entries, f % Entries>>)

------------------------------------------------------------------------------
(* map_page_in_table and unmap_page *)

\* One level: the table below entry ix[k] of the table at r.at.  The third
\* one may be a large page.
Descend(r, i, flags) ==
  LET e == Entry(r.m, r.at, i)
      a == AllocPage(r.m)
      u == {"U"} \cap flags
  IN IF r.st # "Success" THEN r
     ELSE IF "H" \in e.flags THEN [r EXCEPT !.st = "HugePageCollision"]
     ELSE IF Present(e)
     THEN [r EXCEPT !.m = SetEntry(r.m, r.at, i, Pte(e.pa, e.flags \cup u)),
                    !.at = e.pa]
     ELSE IF a.pa = 0 THEN [r EXCEPT !.st = "OutOfMemory"]
     ELSE [r EXCEPT !.m = SetEntry(a.m, r.at, i, Pte(a.pa, {"P", "W"} \cup u)),
                    !.at = a.pa]

SetLeaf(r, i, pa, flags) ==
  IF r.st # "Success" THEN r
  ELSE IF Present(Entry(r.m, r.at, i)) THEN [r EXCEPT !.st = "AlreadyMapped"]
  ELSE [r EXCEPT !.m = SetEntry(r.m, r.at, i, Pte(pa, flags \cup {"P"}))]

\* Tables allocated before a failure stay installed.
MapPageInTable(m, pml4, va, pa, paAligned, flags) ==
  LET level(r, k) == IF k < 4 THEN Descend(r, va.ix[k], flags)
                     ELSE SetLeaf(r, va.ix[4], pa, flags)
  IN FoldLeft(level, [st |-> BadAddress(m, va, paAligned), m |-> m,
                      at |-> IF pml4 = 0 THEN m.root ELSE pml4],
              <<1, 2, 3, 4>>)

MapPage(m, va, pa, flags) == MapPageInTable(m, m.root, va, pa, TRUE, flags)

\* Mutant: the entry is not cleared.
UnmapKeepsEntry(m, va) ==
  LET p == Path(m, m.root, va.ix)
      st == BadAddress(m, va, TRUE)
  IN IF st # "Success" THEN [st |-> st, m |-> m]
     ELSE IF ~Present(p[Len(p)]) THEN [st |-> "NotMapped", m |-> m]
     ELSE IF Len(p) < 4 THEN [st |-> "HugePageCollision", m |-> m]
     ELSE [st |-> "Success", m |-> m]

\* Always in the root tables; the tables themselves are kept.
UnmapPage(m, va) ==
  LET p == Path(m, m.root, va.ix)
      st == BadAddress(m, va, TRUE)
  IN IF st # "Success" THEN [st |-> st, m |-> m]
     ELSE IF ~Present(p[Len(p)]) THEN [st |-> "NotMapped", m |-> m]
     ELSE IF Len(p) < 4 THEN [st |-> "HugePageCollision", m |-> m]
     ELSE [st |-> "Success", m |-> ClearEntry(m, p[3].pa, va.ix[4])]

------------------------------------------------------------------------------
(* User address spaces *)

\* Mutant: the kernel half is not copied.
CreateNoKernelHalf(m) ==
  IF m.root = 0 THEN [pa |-> 0, m |-> m] ELSE AllocPage(m)

\* create_user_address_space: a copy of the upper half of the root.
CreateUserAddressSpace(m) ==
  LET a == AllocPage(m)
      kern == {x \in DOMAIN m.tab : x[1] = m.root /\ x[2] >= Half}
  IN IF m.root = 0 \/ a.pa = 0 THEN [pa |-> 0, m |-> m]
     ELSE [pa |-> a.pa,
           m  |-> [a.m EXCEPT !.tab =
                     [x \in DOMAIN a.m.tab \cup {<<a.pa, k[2]>> : k \in kern} |->
                        IF x[1] = a.pa THEN m.tab[<<m.root, x[2]>>]
                        ELSE a.m.tab[x]]]]

\* The frames below the entries I of table t, level by level.
Below(m, T, I) ==
  {m.tab[x].pa : x \in {y \in DOMAIN m.tab :
     y[1] \in T /\ y[2] \in I /\ "H" \notin m.tab[y].flags}}

Pdpts(m, t) == Below(m, {t}, 0..(Half - 1))
Pds(m, t) == Below(m, Pdpts(m, t), Index)
Pts(m, t) == Below(m, Pds(m, t), Index)
Pages(m, t) == Below(m, Pts(m, t), Index)
UserTree(m, t) == {t} \cup Pdpts(m, t) \cup Pds(m, t) \cup Pts(m, t)
                    \cup Pages(m, t)

\* Mutant: the page directories are not freed.
DestroyLeaky(m, t) ==
  IF t = 0 \/ t = m.root THEN m
  ELSE FreePages([m EXCEPT !.tab = Restrict(@, {x \in DOMAIN @ :
                                                  x[1] \notin Pts(m, t)})],
                 UserTree(m, t) \ Pds(m, t))

\* destroy_user_address_space clears the entries of the page tables only.
DestroyUserAddressSpace(m, t) ==
  IF t = 0 \/ t = m.root THEN m
  ELSE FreePages([m EXCEPT !.tab = Restrict(@, {x \in DOMAIN @ :
                                                  x[1] \notin Pts(m, t)})],
                 UserTree(m, t))

==============================================================================
