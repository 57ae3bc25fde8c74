------------------------------- MODULE MCBoot -------------------------------
(***************************************************************************)
(* Instances of Boot: blocks of many shapes, memory maps of many shapes,   *)
(* and one machine with a keyboard.                                        *)
(***************************************************************************)
EXTENDS Boot

Entry(base, len, type) == [base |-> base, len |-> len, type |-> type]

Mmap(size, esize, version, entries) ==
  [type |-> "mmap", size |-> size, esize |-> esize, version |-> version,
   entries |-> entries]

End == [type |-> "end", size |-> 8]

\* The tags are laid out one after the other, each at a multiple of 8.
OffsetOf(tags, i) ==
  8 + FoldLeft(LAMBDA a, t : a + 8 * ((t.size + 7) \div 8), 0, SubSeq(tags, 1, i - 1))

Machine(tags, cut, magic, addr, mb2, keys) ==
  LET laid == [i \in DOMAIN tags |-> [off |-> OffsetOf(tags, i), tag |-> tags[i]]]
  IN [block |-> [magic |-> magic, addr |-> addr,
                 total |-> OffsetOf(tags, Len(tags) + 1) - cut,
                 at |-> [o \in {laid[i].off : i \in DOMAIN laid} |->
                           laid[CHOOSE i \in DOMAIN laid : laid[i].off = o].tag]],
      tags |-> laid, mb2 |-> mb2, keys |-> keys]

\* The block in memory lies in the page after the kernel, across its end or nowhere.
Here == [start |-> 7, size |-> 2]

------------------------------------------------------------------------------
\* Blocks.

Ram == <<Entry(0, 24, "available"), Entry(6, 3, "reserved")>>

Tags ==
  { [type |-> "cmdline", size |-> 8, text |-> {}],
    [type |-> "cmdline", size |-> 13, text |-> {"debug"}],
    [type |-> "cmdline", size |-> 13, text |-> {"test"}],
    [type |-> "loader", size |-> 12],
    [type |-> "basicmem", size |-> 16],
    [type |-> "efi64", size |-> 16, table |-> TRUE],
    [type |-> "efi64", size |-> 12, table |-> FALSE],
    Mmap(64, 24, 0, Ram), Mmap(40, 24, 0, Ram),
    Mmap(100, 24, 0, <<Entry(12, 8, "available"), Entry(38, 9, "available"),
                       Entry(3, 0, "reserved"), Entry(2, 2, "nvs")>>),
    Mmap(112, 24, 0, Ram \o Ram), Mmap(80, 32, 0, Ram), Mmap(64, 16, 0, Ram),
    Mmap(64, 24, 1, Ram), Mmap(12, 24, 0, Ram), Mmap(48, 24, 0, Ram),
    [type |-> "framebuffer", size |-> 32, sane |-> TRUE, kind |-> 2, colors |-> 0],
    [type |-> "framebuffer", size |-> 38, sane |-> TRUE, kind |-> 0, colors |-> 1],
    [type |-> "framebuffer", size |-> 38, sane |-> TRUE, kind |-> 1, colors |-> 0],
    [type |-> "framebuffer", size |-> 36, sane |-> FALSE, kind |-> 1, colors |-> 0],
    [type |-> "acpi_old", size |-> 28, signed |-> TRUE, sums |-> {20}],
    [type |-> "acpi_old", size |-> 24, signed |-> TRUE, sums |-> {20}],
    [type |-> "acpi_new", size |-> 44, signed |-> TRUE, sums |-> {20, 36}, len |-> 36],
    [type |-> "acpi_new", size |-> 44, signed |-> TRUE, sums |-> {20}, len |-> 36],
    [type |-> "acpi_new", size |-> 44, signed |-> TRUE, sums |-> {20}, len |-> 40],
    [type |-> "module", size |-> 17], [type |-> "module", size |-> 4],
    [type |-> "end", size |-> 12] }

Blocks ==
  {Machine(ts \o <<End>>, cut, TRUE, "aligned", Here, {}) :
     ts \in UNION {[1..n -> Tags] : n \in 1..2}, cut \in {0, 4, 8, 16}}
  \cup {Machine(<<Mmap(64, 24, 0, Ram), End>>, 0, magic, addr, Here, {}) :
          magic \in BOOLEAN, addr \in {"null", "odd", "aligned"}}

------------------------------------------------------------------------------
\* Memory maps.

Entries ==
  {Entry(b, l, t) : b \in {0, 5, 8, 11}, l \in {2, 7, 12}, t \in {"available", "acpi"}}

Maps ==
  {Machine(<<Mmap(88, 24, 0, es), End>>, 0, TRUE, "aligned", mb2, {}) :
     es \in {<<Entry(8, 16, "available")>> \o e : e \in [1..2 -> Entries]},
     mb2 \in {Here, [start |-> 12, size |-> 5], [start |-> 0, size |-> 0]}}

\* Five reservations in one available entry: more intervals than the table holds.
Fragmented ==
  Machine(<<Mmap(88, 24, 0, <<Entry(0, 40, "available"), Entry(14, 2, "reserved"),
                              Entry(18, 2, "acpi")>>), End>>,
          0, TRUE, "aligned", [start |-> 22, size |-> 2], {})

Keyboards ==
  {Machine(<<[type |-> "cmdline", size |-> 13, text |-> text],
             Mmap(64, 24, 0, Ram), End>>, 0, TRUE, "aligned", Here, keys)
     : text \in {{"debug"}},
       keys \in {{"lshift", "up"}, {"lctrl", "rctrl"}, {"lalt", "pause"}}}

MCMachines == Blocks \cup Maps \cup {Fragmented} \cup Keyboards
MCKernel == [start |-> 2, end |-> 7]
==============================================================================
