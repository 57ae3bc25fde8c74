----------------------------- MODULE VmmSelfTest -----------------------------
(***************************************************************************)
(* VirtualMemoryManager::self_test(), run at boot with CR3 = the root, as a*)
(* list of operations with the results they must have.  The first one that *)
(* fails ends the test, and kernel_main panics.                            *)
(***************************************************************************)
EXTENDS Vmm

LOCAL INSTANCE FiniteSetsExt

RW == {"P", "W"}
RWNX == {"P", "W", "NX"}

\* The test pages lie in one page table at 0xFFFFFFFF00000000: page 0 of it,
\* and here 1..4, 5, 6 and 7 for 16..19, 32, 48 and 64.
TestVa(n) == Va(<<Entries - 1, Entries - 4, 0, n>>)

SectionVa(s) == DirectMap(Min({f \in Index : Section[f] = s}))

Walked(va, flags) == [op |-> "walk", va |-> va, flags |-> flags]
Alloc(n) == [op |-> "alloc", n |-> n]
Free(n) == [op |-> "free", n |-> n]
Map(va, k, flags, st) ==
  [op |-> "map", va |-> va, k |-> k, flags |-> flags, st |-> st]
Unmap(va, st) == [op |-> "unmap", va |-> va, st |-> st]
Found(va, k, flags) == [op |-> "find", va |-> va, k |-> k, flags |-> flags]
Gone(va) == [op |-> "gone", va |-> va]
Force(b) == [op |-> "force", b |-> b]

\* Tests 1 to 5: the live permissions of the kernel's sections; the stack is
\* part of .bss and the PMM bitmap follows the image.
SectionTests ==
  <<Walked(SectionVa("text"), {"P"}), Walked(SectionVa("rodata"), {"P", "NX"}),
    Walked(SectionVa("data"), RWNX), Walked(SectionVa("bss"), RWNX),
    Walked(SectionVa("rest"), RWNX)>>

\* Test 6: the user half is empty.
NullTests ==
  [i \in 1..Half |-> [op |-> "empty", i |-> i - 1]]
    \o <<Gone(Va(<<0, 0, 0, 0>>)),
         Gone(Va(<<Half - 1, Entries - 1, Entries - 1, Entries - 1>>))>>

\* Tests 7 to 11: one page is mapped, found, refused a second time, unmapped
\* and gone.
OnePageTests ==
  <<Alloc(1), Map(TestVa(0), 0, RWNX, "Success"), Found(TestVa(0), 0, RWNX),
    Map(TestVa(0), 0, {"P"}, "AlreadyMapped"), Unmap(TestVa(0), "Success"),
    Gone(TestVa(0)), Unmap(TestVa(0), "NotMapped"), Free(1)>>

\* Test 12
FourPageTests ==
  LET all(op(_)) == [i \in 1..4 |-> op(i)]
  IN <<Alloc(4)>> \o all(LAMBDA i : Map(TestVa(i), i - 1, RW, "Success"))
       \o all(LAMBDA i : Found(TestVa(i), i - 1, {}))
       \o all(LAMBDA i : Unmap(TestVa(i), "Success")) \o <<Free(4)>>

\* Test 13: a forced allocation failure installs nothing, mapping works again
\* afterwards, and bad addresses are rejected.
FaultTests ==
  <<Force(TRUE), Map(Va(<<Half, 0, 0, 0>>), 0, {"P"}, "OutOfMemory"),
    Force(FALSE), [op |-> "empty", i |-> Half],
    Alloc(1), Map(TestVa(5), 0, RW, "Success"), Unmap(TestVa(5), "Success"),
    Free(1),
    Map([TestVa(0) EXCEPT !.canonical = FALSE], 0, {"P"}, "InvalidVirtualAddress"),
    Map([TestVa(0) EXCEPT !.aligned = FALSE], 0, {"P"}, "UnalignedAddress"),
    Gone(TestVa(0)),
    [op |-> "unaligned", va |-> TestVa(6)], Gone(TestVa(6))>>

\* Test 14: the timed operations.
TimingTests ==
  <<Alloc(1), Map(TestVa(7), 0, RW, "Success"), Found(TestVa(7), 0, {}),
    Unmap(TestVa(7), "Success"), Free(1)>>

\* One operation: r.m is the memory, r.pa the frames under test.
RunTest(r, o) ==
  LET a == AllocPages(r.m, o.n)
      f == MapPage(r.m, o.va, r.pa + o.k, o.flags)
      u == UnmapPage(r.m, o.va)
      t == Translate(r.m, r.m.root, o.va)
      w == Walk(r.m, r.m.root, o.va)
  IN CASE o.op = "walk"  -> [r EXCEPT !.ok = w.ok /\ w.flags = o.flags]
       [] o.op = "alloc" -> [ok |-> a.pa # 0, m |-> a.m, pa |-> a.pa]
       [] o.op = "free"  ->
            [r EXCEPT !.m = FreePages(r.m, r.pa..(r.pa + o.n - 1))]
       [] o.op = "map"   -> [r EXCEPT !.ok = f.st = o.st, !.m = f.m]
       [] o.op = "unaligned" ->
            [r EXCEPT !.ok = MapPageInTable(r.m, 0, o.va, r.pa, FALSE, {"P"}).st
                               = "UnalignedAddress"]
       [] o.op = "unmap" -> [r EXCEPT !.ok = u.st = o.st, !.m = u.m]
       [] o.op = "find"  ->
            [r EXCEPT !.ok = t.ok /\ t.pa = r.pa + o.k /\ o.flags \subseteq t.flags]
       [] o.op = "gone"  -> [r EXCEPT !.ok = ~t.ok]
       [] o.op = "empty" -> [r EXCEPT !.ok = ~Present(Entry(r.m, r.m.root, o.i))]
       [] o.op = "force" -> [r EXCEPT !.m.fail = o.b]

SelfTest ==
  SectionTests \o NullTests \o OnePageTests \o FourPageTests \o FaultTests
    \o TimingTests

==============================================================================
