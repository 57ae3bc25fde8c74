--------------------------------- MODULE Vfs ---------------------------------
(***************************************************************************)
(* The virtual file system of src/kernel/fs/vfs.cpp over one mounted       *)
(* volume.  A path is the sequence of its components; what strlen and the  *)
(* separators do is abstracted, the empty sequence is "/".  A descriptor   *)
(* is [node, off, flags]; node 0 means not in use.                         *)
(***************************************************************************)
EXTENDS Fat32

CONSTANTS
  MaxSegs,      \* the path components normalize_path has room for (16)
  MaxName,      \* the characters of a component it has room for (63)
  Fds           \* the descriptors open hands out, 3..MAX_FILE_DESCRIPTORS-1

Closed == [node |-> NoNode, off |-> 0, flags |-> {}]

\* normalize_path: [ok, segs].
NormalizePath(p) ==
  FoldLeft(LAMBDA a, s :
             CASE s = Dot -> a
               [] s = DotDot -> [a EXCEPT !.segs = IF @ = <<>> THEN @ ELSE Front(@)]
               [] OTHER -> [ok |-> a.ok /\ Len(a.segs) < MaxSegs /\ Len(s) <= MaxName,
                            segs |-> Append(a.segs, s)],
           [ok |-> TRUE, segs |-> <<>>], p)

\* The directories in front of the last component: [f, cur], cur = 0 when one of
\* them is not found.
WalkDirs(f, root, segs) ==
  FoldLeft(LAMBDA a, s : IF a.cur <= 0 THEN a
                         ELSE The({[f |-> l.f, cur |-> l.r] : l \in {Lookup(a.f, a.cur, s)}}),
           [f |-> f, cur |-> root], Front(segs))

\* resolve_path below the root: [f, r, node, parent].
ResolveIn(f, root, segs) ==
  The({IF w.cur <= 0 THEN [f |-> w.f, r |-> -3, node |-> NoNode, parent |-> NoNode]
       ELSE The({[f |-> l.f, r |-> IF l.r > 0 THEN 0 ELSE 1,
                  node |-> IF l.r > 0 THEN l.r ELSE NoNode, parent |-> w.cur] :
                    l \in {Lookup(w.f, w.cur, Last(segs))}}) :
         w \in {WalkDirs(f, root, segs)}})

\* resolve_path; root is 0 when nothing is mounted on "/".
ResolvePath(f, root, p) ==
  LET n == NormalizePath(p)
      no(r) == [f |-> f, r |-> r, node |-> NoNode, parent |-> NoNode]
  IN CASE ~n.ok -> no(-1)
       [] root = NoNode -> no(-2)
       [] n.segs = <<>> -> [no(0) EXCEPT !.node = root]
       [] OTHER -> ResolveIn(f, root, n.segs)

\* The node open goes on with: created if it has to be and may be.
OpenNode(x, p, flags) ==
  CASE x.r = 1 /\ "CREAT" \in flags ->
         The({IF c.r # 0 \/ c.node = NoNode
              THEN [f |-> c.f, r |-> -3, node |-> NoNode]
              ELSE [f |-> c.f, r |-> 0, node |-> c.node] :
                c \in {Create(x.f, x.parent, Last(NormalizePath(p).segs), "file")}})
    [] x.r # 0 \/ x.node = NoNode -> [f |-> x.f, r |-> -4, node |-> NoNode]
    [] OTHER -> [f |-> x.f, r |-> 0, node |-> x.node]

\* The end of open: truncation, then a descriptor.
OpenFd(o, fds, flags) ==
  LET g == IF "TRUNC" \in flags THEN Truncate(o.f, o.node) ELSE o.f
      free == {fd \in Fds : fds[fd].node = NoNode}
  IN IF o.r # 0 THEN [f |-> o.f, fds |-> fds, r |-> o.r]
     ELSE IF free = {} THEN [f |-> g, fds |-> fds, r |-> -5]
     ELSE [f |-> g, r |-> Min(free),
           fds |-> [fds EXCEPT ![Min(free)] =
                      [node |-> o.node, flags |-> flags,
                       off |-> IF "APPEND" \in flags THEN Node(g, o.node).size ELSE 0]]]

VfsOpen(f, fds, root, p, flags) ==
  The({OpenFd(o, fds, flags) : o \in {OpenNode(x, p, flags) :
                                        x \in {ResolvePath(f, root, p)}}})

VfsClose(fds, fd) == [fds EXCEPT ![fd] = Closed]

\* read, write and seek on a descriptor that is in use.
VfsRead(f, fds, fd, count) ==
  The({[r |-> x.r, data |-> x.data,
        fds |-> [fds EXCEPT ![fd].off = IF x.r > 0 THEN @ + x.r ELSE @]] :
         x \in {Read(f, fds[fd].node, fds[fd].off, count)}})

VfsWrite(f, fds, fd, data) ==
  The({[f |-> x.f, r |-> x.r,
        fds |-> [fds EXCEPT ![fd].off = IF x.r > 0 THEN @ + x.r ELSE @]] :
         x \in {Write(f, fds[fd].node, fds[fd].off, data)}})

VfsSeek(f, fds, fd, off, origin) ==
  LET new == off + (CASE origin = "Set" -> 0 [] origin = "Current" -> fds[fd].off
                      [] origin = "End" -> Node(f, fds[fd].node).size)
  IN IF new < 0 THEN [r |-> -2, fds |-> fds]
     ELSE [r |-> new, fds |-> [fds EXCEPT ![fd].off = new]]

VfsMkdir(f, root, p) ==
  The({CASE x.r = 0 /\ x.node # NoNode -> [f |-> x.f, r |-> -2]
         [] x.parent = NoNode -> [f |-> x.f, r |-> -3]
         [] OTHER -> The({[f |-> c.f, r |-> c.r] :
                            c \in {Create(x.f, x.parent, Last(NormalizePath(p).segs), "dir")}}) :
         x \in {ResolvePath(f, root, p)}})

VfsUnlink(f, root, p) ==
  The({IF x.r # 0 \/ x.parent = NoNode \/ x.node = NoNode THEN [f |-> x.f, r |-> -2]
       ELSE The({u : u \in {Unlink(x.f, x.parent, Last(NormalizePath(p).segs))}}) :
         x \in {ResolvePath(f, root, p)}})

VfsStat(f, root, p) ==
  The({IF x.r # 0 \/ x.node = NoNode THEN [f |-> x.f, r |-> -2, st |-> Closed]
       ELSE [f |-> x.f, r |-> 0, st |-> Node(x.f, x.node)] :
         x \in {ResolvePath(f, root, p)}})

==============================================================================
