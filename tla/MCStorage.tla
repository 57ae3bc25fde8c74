------------------------------ MODULE MCStorage ------------------------------
(* Two disks: the first has no partition table, the second an EFI partition *)
(* and a root partition of six clusters that already holds one file with a  *)
(* long name.                                                               *)
EXTENDS Storage

a == <<"a", ".", "b">>
b == <<"b">>
d == <<"d">>
long == <<"l", "a", "b", "d">>

Boot(label) == [sig |-> TRUE, bps |-> 512, spc |-> 1, fats |-> NumFats,
                fatsize |-> FatSize, label |-> label, root |-> RootCluster]
Piece(lo, hi) == [used |-> TRUE, lo |-> lo, hi |-> hi]
NoPiece == [used |-> FALSE, lo |-> 0, hi |-> 0]
Table(cells) == [sig |-> TRUE, crc |-> TRUE, first |-> 2, last |-> 14, num |-> Len(cells),
                 esz |-> 1, acrc |-> TRUE, cells |-> cells]
NoTable == [Table(<<>>) EXCEPT !.sig = FALSE]
Good == <<Piece(2, 4), NoPiece, Piece(5, 13)>>
Tables ==
  {Table(Good), [Table(Good) EXCEPT !.crc = FALSE], [Table(Good) EXCEPT !.last = 16],
   Table(<<Piece(5, 7), Piece(2, 13)>>), Table(<<Piece(2, 4), Piece(4, 13)>>),
   Table(<<Piece(2, 4), Piece(5, 15)>>), Table(<<Piece(6, 5)>>)}

MCDisks ==
  <<[disk |-> "vda", count |-> 4, ro |-> FALSE, tables |-> {NoTable}, boot |-> <<>>],
    [disk |-> "vdb", count |-> 16, ro |-> FALSE, tables |-> Tables,
     boot |-> [x \in {2, 5} |-> Boot(IF x = 2 THEN "ESP" ELSE "LLAMAOS")]]>>
MCTotals == {0, 11}

Marks01 == {0, 1}
Reqs == {[type |-> "IN", lba |-> 0, count |-> 2, data |-> <<>>],
         [type |-> "OUT", lba |-> 1, count |-> 2, data |-> <<>>],
         [type |-> "IN", lba |-> 2, count |-> 2, data |-> <<>>],
         [type |-> "FLUSH", lba |-> 0, count |-> 0, data |-> <<>>]}

Short == [base |-> <<"L", "1">>, ext |-> <<>>]
MCVolume ==
  [fat |-> [c \in 2..9 |-> IF c <= 3 THEN Eoc ELSE 0],
   data |-> [c \in 2..7 |->
      CASE c = 2 -> <<Slot("lfn", long, 0, 0), Slot("file", Short, 3, 1)>>
        [] c = 3 -> <<Byte(7), Byte(0)>>
        [] OTHER -> <<Byte(5), Byte(5)>>]]

Line(c, p) == [cmd |-> c, path |-> p, flags |-> IF c = "touch" THEN {"CREAT"} ELSE {}]
Save(p, fl) == [cmd |-> "save", path |-> p, flags |-> {"CREAT", fl}]
Db == <<d, b>>
Long == <<Dot, d, DotDot, long>>
MCLines ==
  {Save(<<a>>, "TRUNC"), Save(<<a>>, "APPEND"), Save(Db, "TRUNC"), Save(Long, "APPEND"),
   Line("mkdir", <<a>>), Line("mkdir", <<d>>), Line("touch", Db), Line("touch", Long),
   Line("rm", <<a>>), Line("rm", <<d>>), Line("rm", Db), Line("rm", Long),
   Line("ls", <<d>>), Line("cat", Long), Line("stat", Db)}
MCPayloads == {<<1, 2, 3>>}
MCSeeks == {[off |-> 0, from |-> "Current"], [off |-> -1, from |-> "End"]}
MCFds == {3, 4}

==============================================================================
