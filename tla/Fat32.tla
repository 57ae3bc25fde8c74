-------------------------------- MODULE Fat32 --------------------------------
(***************************************************************************)
(* The FAT32 driver of src/kernel/fs/fat32.cpp, as operations on a record  *)
(*   f = [dev, fat, data, left, out, total, vn, dry]                       *)
(* the device, the copies of the allocation table, the data clusters, the  *)
(* number of device writes the power still lasts for, whether a write left *)
(* the partition, m_total_clusters, the pool of vnodes, and whether that   *)
(* pool has ever been empty when a vnode was needed.                       *)
(*                                                                         *)
(* A cluster is a sequence of bytes or of directory entries; what lies     *)
(* beyond its end is zero.  A long file name is one entry in front of its  *)
(* short one.  An operation's answer is the field r of its result.         *)
(***************************************************************************)
EXTENDS BlockLayer, FiniteSetsExt

CONSTANTS
  Bpc,          \* bytes per cluster
  Epc,          \* directory entries per cluster
  NumFats,      \* num_fats
  FatBegin,     \* reserved_sector_count
  FatSize,      \* table_size_32
  RootCluster,  \* root_cluster
  MaxVnodes,    \* MAX_CACHED_VNODES
  Forever,      \* more writes than any operation makes
  BaseLen,      \* the 8 of 8.3
  ExtLen        \* the 3 of 8.3

Eoc == 99
Bad == 98       \* FAT32_BAD_CLUSTER: below FAT32_EOC_MIN

\* The element of a one-element set.
The(S) == CHOOSE x \in S : TRUE

IsCluster(c) == c >= 2 /\ c < Eoc

------------------------------------------------------------------------------
(* Names *)

Cap == [c \in {"a", "b", "d", "l"} |->
          CASE c = "a" -> "A" [] c = "b" -> "B" [] c = "d" -> "D" [] c = "l" -> "L"]
ToUpper(n) == [i \in DOMAIN n |-> IF n[i] \in DOMAIN Cap THEN Cap[n[i]] ELSE n[i]]
ToLower(n) == [i \in DOMAIN n |-> IF \E c \in DOMAIN Cap : Cap[c] = n[i]
                                  THEN CHOOSE c \in DOMAIN Cap : Cap[c] = n[i]
                                  ELSE n[i]]

Dot == <<".">>
DotDot == <<".", ".">>

\* format_to_83: what is before the first dot and what is after it, cut to length.
FormatTo83(n) ==
  IF n \in {Dot, DotDot} THEN [base |-> n, ext |-> <<>>]
  ELSE LET dots == {i \in DOMAIN n : n[i] = "."}
           dot == IF dots = {} THEN Len(n) + 1 ELSE Min(dots)
       IN [base |-> ToUpper(SubSeq(n, 1, Min({dot - 1, BaseLen}))),
           ext |-> ToUpper(SubSeq(n, dot + 1, Min({Len(n), dot + ExtLen})))]


\* format_from_83.
FormatFrom83(e) ==
  ToLower(e.base) \o (IF e.ext = <<>> THEN <<>> ELSE <<".">> \o ToLower(e.ext))

------------------------------------------------------------------------------
(* The device: clusters, table entries, the vnode pool *)

\* An entry: its kind, its name, the first cluster and the size it records.
\* Kind "end" is a first byte of 0, "gone" one of 0xE5.
Slot(k, n, c, z) == [k |-> k, name |-> n, clu |-> c, size |-> z]
NoName == [base |-> <<>>, ext |-> <<>>]
End == Slot("end", NoName, 0, 0)
\* A byte of a file; read as an entry it is neither shown nor the end.
Byte(x) == Slot("byte", NoName, 0, x)

EntryAt(cl, i) == IF i > Len(cl) THEN End ELSE cl[i]
ByteAt(cl, i) == IF i > Len(cl) THEN 0 ELSE cl[i].size

ClusterToLba(c) == FatBegin + NumFats * FatSize + (c - 2)

\* What a device write does to the power that is left, and where it lands.
Powered(f, lba) == f.left > 0 /\ Accepts(f.dev, lba, 1, TRUE)
Spend(f, lba) ==
  [f EXCEPT !.left = IF @ = Forever THEN @ ELSE @ - 1,
            !.out = @ \/ ~Inside(f.dev, lba)]

ReadFatEntry(f, c) == IF c \in DOMAIN f.fat[1] THEN f.fat[1][c] ELSE Bad

\* write_fat_entry: every copy in turn; the first failure ends it.
WriteFatEntry(f, c, x) ==
  FoldLeft(LAMBDA g, k : IF c \in DOMAIN g.fat[k] /\ Powered(g, FatBegin + (k - 1) * FatSize)
                         THEN [Spend(g, FatBegin + (k - 1) * FatSize)
                                 EXCEPT !.fat[k][c] = x]
                         ELSE g,
           f, [k \in 1..NumFats |-> k])

ReadOk(f, c) == c \in DOMAIN f.data /\ Accepts(f.dev, ClusterToLba(c), 1, FALSE)
WriteOk(f, c) == c >= 2 /\ Powered(f, ClusterToLba(c))
WriteCluster(f, c, cl) ==
  IF ~WriteOk(f, c) THEN f
  ELSE IF c \in DOMAIN f.data THEN [Spend(f, ClusterToLba(c)) EXCEPT !.data[c] = cl]
  ELSE Spend(f, ClusterToLba(c))

\* alloc_cluster: the first free one is marked, linked to its predecessor and
\* zeroed, in that order.  The results of the writes are not looked at.
AllocMarking(f, prev, mark) ==
  LET free == {c \in DOMAIN f.fat[1] : c < f.total + 2 /\ f.fat[1][c] = 0}
      c == Min(free)
      marked == IF mark THEN WriteFatEntry(f, c, Eoc) ELSE f
      linked == IF prev >= 2 THEN WriteFatEntry(marked, prev, c) ELSE marked
  IN IF free = {} THEN [f |-> f, r |-> 0]
     ELSE [f |-> WriteCluster(linked, c, <<>>), r |-> c]


AllocCluster(f, prev) == AllocMarking(f, prev, TRUE)

\* The clusters of a chain, in order, at most m_total_clusters of them.
Chain(f, c) ==
  FoldLeft(LAMBDA a, i : IF ~IsCluster(a.cur) THEN a
                         ELSE [seq |-> Append(a.seq, a.cur),
                               cur |-> ReadFatEntry(f, a.cur)],
           [seq |-> <<>>, cur |-> c], [i \in 1..f.total |-> i]).seq

\* The clusters read_cluster gets through before it fails.
Readable(f, c) ==
  LET ch == Chain(f, c)
      bad == SelectInSeq(ch, LAMBDA x : ~ReadOk(f, x))
  IN IF bad = 0 THEN ch ELSE SubSeq(ch, 1, bad - 1)

\* free_cluster_chain: each entry is read, then cleared.
FreeClusterChain(f, c) ==
  FoldLeft(LAMBDA g, x : WriteFatEntry(g, x, 0), f, Chain(f, c))

NoNode == 0

\* alloc_vnode: [f, r], r = 0 when the pool is exhausted.  Nothing gives a vnode
\* back.
AllocVnode(f, type, clu, size, dclu, doff) ==
  IF Len(f.vn) = MaxVnodes THEN [f |-> [f EXCEPT !.dry = TRUE], r |-> NoNode]
  ELSE [f |-> [f EXCEPT !.vn = Append(@, [type |-> type, clu |-> clu, size |-> size,
                                          dclu |-> dclu, doff |-> doff])],
        r |-> Len(f.vn) + 1]

------------------------------------------------------------------------------
(* Directories *)

Node(f, n) == f.vn[n]

\* The entries of a directory in the order they are read, each with its place.
DirSlots(f, n) ==
  LET ch == Readable(f, Node(f, n).clu)
  IN FlattenSeq([k \in DOMAIN ch |->
       [i \in 1..Epc |-> [c |-> ch[k], i |-> i, e |-> EntryAt(f.data[ch[k]], i)]]])

EndAt(sl) == Min({i \in DOMAIN sl : sl[i].e.k = "end"} \cup {Len(sl) + 1})

\* The entries lookup and readdir stop at, and the long name in front of one.
Shown(sl) == {i \in 1..(EndAt(sl) - 1) : sl[i].e.k \in {"file", "dir"}}
LongName(sl, i) == IF i > 1 /\ sl[i - 1].e.k = "lfn" THEN sl[i - 1].e.name ELSE <<>>

Matches(sl, i, name) ==
  \/ LongName(sl, i) # <<>> /\ ToLower(name) = ToLower(LongName(sl, i))
  \/ sl[i].e.name = FormatTo83(name)

\* lookup: a fresh vnode for the first match.
Lookup(f, n, name) ==
  IF Node(f, n).type # "dir" THEN [f |-> f, r |-> -1]
  ELSE The(
    {IF hits = {} THEN [f |-> f, r |-> -2]
     ELSE LET s == sl[Min(hits)]
              a == AllocVnode(f, s.e.k, s.e.clu, s.e.size, s.c, s.i)
          IN [f |-> a.f, r |-> IF a.r = NoNode THEN -3 ELSE a.r] :
       <<sl, hits>> \in {<<x, {i \in Shown(x) : Matches(x, i, name)}>> :
                           x \in {DirSlots(f, n)}}})

\* The directory cluster c with entry i replaced, written back.
PutEntry(f, c, i, e) ==
  WriteCluster(f, c, [k \in 1..Max({i, Len(f.data[c])}) |->
                        IF k = i THEN e ELSE IF k <= Len(f.data[c]) THEN f.data[c][k] ELSE End])

\* The cluster a new directory starts with.
DirCluster(own, parent) == <<Slot("dir", FormatTo83(Dot), own, 0),
                             Slot("dir", FormatTo83(DotDot), parent, 0)>>

\* create, in a free slot s.
CreateInSlot(f, n, name, type, s) ==
  LET a == IF type = "dir" THEN AllocCluster(f, 0) ELSE [f |-> f, r |-> 0]
      g == IF type = "dir" THEN WriteCluster(a.f, a.r, DirCluster(a.r, Node(f, n).clu))
           ELSE a.f
      v == AllocVnode(PutEntry(g, s.c, s.i, Slot(type, FormatTo83(name), a.r, 0)),
                      type, a.r, 0, s.c, s.i)
  IN [f |-> v.f, r |-> 0, node |-> v.r]

\* create, in a new last cluster behind prev: the entry gets no cluster of its
\* own, not even a directory's.
CreateInNewCluster(f, name, type, prev) ==
  LET a == AllocCluster(f, prev)
      v == AllocVnode(WriteCluster(a.f, a.r, <<Slot(type, FormatTo83(name), 0, 0)>>),
                      type, 0, 0, a.r, 1)
  IN IF a.r < 2 THEN [f |-> f, r |-> -1, node |-> NoNode]
     ELSE [f |-> v.f, r |-> 0, node |-> v.r]

Create(f, n, name, type) ==
  LET sl == DirSlots(f, n)
      free == {i \in DOMAIN sl : sl[i].e.k \in {"end", "gone"}}
  IN CASE Node(f, n).type # "dir" \/ sl = <<>> -> [f |-> f, r |-> -1, node |-> NoNode]
       [] free # {} -> CreateInSlot(f, n, name, type, sl[Min(free)])
       [] OTHER -> CreateInNewCluster(f, name, type, sl[Len(sl)].c)

\* unlink: the entry is marked deleted and written, then the chain is freed.
\* Only short names are compared; an end entry ends its cluster, not the search.
Unlink(f, n, name) ==
  LET sl == DirSlots(f, n)
      ended(i) == \E j \in 1..(i - 1) : sl[j].c = sl[i].c /\ sl[j].e.k = "end"
      hits == {i \in DOMAIN sl : /\ sl[i].e.k \in {"file", "dir", "vol"}
                                 /\ sl[i].e.name = FormatTo83(name) /\ ~ended(i)}
      s == sl[Min(hits)]
  IN CASE Node(f, n).type # "dir" -> [f |-> f, r |-> -1]
       [] hits = {} -> [f |-> f, r |-> -2]
       [] OTHER -> [f |-> FreeClusterChain(PutEntry(f, s.c, s.i, [s.e EXCEPT !.k = "gone"]),
                                           s.e.clu),
                    r |-> 0]

\* readdir(index): the name, type and size of the shown entry with that index.
Readdir(f, n, index) ==
  LET sl == DirSlots(f, n)
      at == {i \in Shown(sl) : Cardinality({j \in Shown(sl) : j < i}) = index}
      i == Min(at)
  IN CASE Node(f, n).type # "dir" -> [r |-> -1]
       [] at = {} -> [r |-> -2]
       [] OTHER -> [r |-> 0, type |-> sl[i].e.k, size |-> sl[i].e.size,
                    name |-> IF LongName(sl, i) # <<>> THEN LongName(sl, i)
                             ELSE FormatFrom83(sl[i].e.name)]

------------------------------------------------------------------------------
(* Files *)

\* update_dir_entry.
UpdateDirEntry(f, n, size, clu) ==
  LET d == Node(f, n)
      g == [f EXCEPT !.vn[n].size = size, !.vn[n].clu = clu]
  IN IF d.dclu < 2 THEN f
     ELSE IF ~ReadOk(f, d.dclu) THEN g
     ELSE PutEntry(g, d.dclu, d.doff,
                   [EntryAt(f.data[d.dclu], d.doff) EXCEPT !.size = size, !.clu = clu])

\* read: [r, data].
Read(f, n, off, count) ==
  LET d == Node(f, n)
      ch == Readable(f, d.clu)
      k == Min({count, d.size - off, Bpc * Len(ch) - off})
  IN CASE d.type # "file" -> [r |-> -1, data |-> <<>>]
       [] off >= d.size \/ count = 0 \/ k <= 0 -> [r |-> 0, data |-> <<>>]
       [] OTHER -> [r |-> k, data |-> [i \in 1..k |->
                      ByteAt(f.data[ch[((off + i - 1) \div Bpc) + 1]], ((off + i - 1) % Bpc) + 1)]]

\* The cluster behind cur, allocated when there is none; r = 0 when that fails.
NextCluster(f, cur) ==
  IF IsCluster(ReadFatEntry(f, cur)) THEN [f |-> f, r |-> ReadFatEntry(f, cur)]
  ELSE AllocCluster(f, cur)

\* The start of write: the first cluster, then along the chain to the one that
\* holds the offset.  [f, r], r = 0 when the volume is full.
SeekCluster(f, n, off) ==
  FoldLeft(LAMBDA a, i : IF a.r < 2 THEN a ELSE NextCluster(a.f, a.r),
           The(
             {IF Node(f, n).clu >= 2 THEN [f |-> f, r |-> Node(f, n).clu]
              ELSE [f |-> [a.f EXCEPT !.vn[n].clu = a.r], r |-> a.r] :
                a \in {AllocCluster(f, 0)}}),
           [i \in 1..(off \div Bpc) |-> i])

\* The bytes lo..hi of the data, written to cluster c from byte at+1 on.
Chunk(f, c, data, lo, hi, at) ==
  WriteCluster(f, c, [i \in 1..Bpc |->
    Byte(IF i - at \in 1..(hi - lo + 1) THEN data[lo + i - at - 1]
         ELSE IF ReadOk(f, c) THEN ByteAt(f.data[c], i) ELSE 0)])


\* One turn of write's loop: the next cluster if this is not the first, and as
\* many bytes as it takes.  cur = 0 once a step has failed.
WriteStep(a, data, off) ==
  LET at == IF a.done = 0 THEN off % Bpc ELSE 0
      hi == Min({Len(data), a.done + Bpc - at})
      nx == IF a.done = 0 THEN [f |-> a.f, r |-> a.cur] ELSE NextCluster(a.f, a.cur)
  IN IF a.cur < 2 \/ a.done = Len(data) THEN a
     ELSE IF nx.r < 2 \/ ~WriteOk(nx.f, nx.r) THEN [f |-> nx.f, cur |-> 0, done |-> a.done]
     ELSE [f |-> Chunk(nx.f, nx.r, data, a.done + 1, hi, at), cur |-> nx.r, done |-> hi]

\* What is left of write once its loop is over.
WriteEnd(a, n, off) ==
  [f |-> UpdateDirEntry(a.f, n, Max({Node(a.f, n).size, off + a.done}), Node(a.f, n).clu),
   r |-> a.done]

\* write: [f, r].
Write(f, n, off, data) ==
  IF Node(f, n).type # "file" THEN [f |-> f, r |-> -1]
  ELSE IF data = <<>> THEN [f |-> f, r |-> 0]
  ELSE The(
    {IF s.r < 2 THEN [f |-> s.f, r |-> -1]
     ELSE WriteEnd(FoldLeft(LAMBDA a, i : WriteStep(a, data, off),
                            [f |-> s.f, cur |-> s.r, done |-> 0],
                            [i \in 1..(Len(data) + 1) |-> i]), n, off) :
       s \in {SeekCluster(f, n, off)}})

\* truncate(0): the chain is freed first.
Truncate(f, n) ==
  IF Node(f, n).type # "file" THEN f
  ELSE IF Node(f, n).clu < 2 THEN UpdateDirEntry(f, n, 0, Node(f, n).clu)
  ELSE UpdateDirEntry(FreeClusterChain(f, Node(f, n).clu), n, 0, 0)

==============================================================================
