------------------------------ MODULE MCProcess ------------------------------
(* A machine with tables of 10 entries, pages of 8 bytes and at most 40 frames. *)
EXTENDS Process

Slabs == <<2, 4>>

Sections ==
  [i \in 0..9 |-> <<"low", "boot", "text", "rodata", "data", "bss", "rest",
                    "rest", "rest", "rest">>[i + 1]]

Seg(off, filesz, vaddr, memsz, w, x) ==
  [load |-> TRUE, off |-> off, filesz |-> filesz, vaddr |-> vaddr,
   memsz |-> memsz, w |-> w, x |-> x]

Image(segs, entry) ==
  [bad |-> "Success", size |-> 30, phoff |-> 2, phnum |-> Len(segs),
   entry |-> entry, segs |-> segs]

\* Code and data with a .bss that crosses a page; two segments that share a
\* page, so that load() fails in the middle; a segment whose end in the file
\* wraps around.
Shell == Image(<<Seg(3, 9, 83, 9, FALSE, TRUE), Seg(12, 5, 100, 11, TRUE, FALSE)>>, 84)
Shared == Image(<<Seg(3, 9, 80, 9, FALSE, TRUE), Seg(12, 2, 90, 3, TRUE, FALSE)>>, 84)
Wrapped == Image(<<Seg(Word - 2, 4, 80, 4, FALSE, TRUE)>>, 80)
Tests == {Shell, Shared, Wrapped}

Bufs == {[at |-> 100, len |-> 12], [at |-> 84, len |-> 3],
         [at |-> 110, len |-> 4], [at |-> UserEnd - 17, len |-> 2],
         [at |-> UserEnd - 2, len |-> 4]}

==============================================================================
