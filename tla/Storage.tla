------------------------------- MODULE Storage -------------------------------
(***************************************************************************)
(* Storage from the disk up: the virtio driver answers block requests      *)
(* (VirtioBlock), kernel_main reads the partition tables, picks the root   *)
(* device and mounts it (BlockLayer, Fat32), and the shell's commands and  *)
(* the kernel's file tests run on it (Vfs).  The power may fail between    *)
(* any two device writes.                                                  *)
(*                                                                         *)
(* Once the disk is up a block request is one step: TransferSound, in      *)
(* VirtioBlock, is what makes it one.                                      *)
(***************************************************************************)
EXTENDS VirtioBlock, Vfs

CONSTANTS
  Disks,        \* the disks found: [disk, count, ro, tables, boot]
  Totals,       \* the sizes the root volume's boot sector may claim; 0: none
  Volume,       \* what is on the root volume when it is first mounted: [fat, data]
  Lines,        \* the command lines: [cmd, path, flags]
  Payloads,     \* what is written
  Seeks,        \* where writing starts: [off, from]
  MaxCommands,  \* bound on the number of commands
  MaxWrites,    \* bound on the device writes before the power fails
  MaxCrashes    \* bound on the number of power failures

VARIABLES
  phase,        \* "disk", "scan", "mount", "running", "off" or "halted"
  scanned,      \* the number of disks whose table has been read
  devs,         \* StorageManager's devices
  parts,        \* s_partition_count
  fs,           \* the FAT32 driver and its volume
  root,         \* the mount of "/": 0, or the root's vnode
  fds,          \* s_fds
  job,          \* the command under way: [cmd, path, fd]
  files,        \* what every path should show: [kind, bytes]
  torn,         \* the power failed in the middle of a truncation
  commands, crashes

fsVars == <<phase, scanned, devs, parts, fs, root, fds, job, files, torn,
            commands, crashes>>
vars == <<blockVars, fsVars>>

NoJob == [cmd |-> "none", path |-> <<>>, fd |-> 0, flags |-> {}]
Key(p) == [i \in DOMAIN NormalizePath(p).segs |-> FormatTo83(NormalizePath(p).segs[i])]
Paths == {l.path : l \in Lines}
Keys == {Key(p) : p \in Paths}
Below(k) == {x \in Keys : Len(x) >= Len(k) /\ SubSeq(x, 1, Len(k)) = k}

Unmounted == [dev |-> Disks[1], fat |-> [i \in 1..NumFats |-> Volume.fat],
              data |-> Volume.data, left |-> Forever, out |-> FALSE, total |-> 0,
              vn |-> <<>>, dry |-> FALSE]

Nothing == [kind |-> "none", bytes |-> <<>>]
Directory == [kind |-> "dir", bytes |-> <<>>]
File(bs) == [kind |-> "file", bytes |-> bs]

\* What a path shows to a reader with vnodes to spare.
Observe(f, p) ==
  The({IF x.r # 0 THEN Nothing ELSE IF Node(x.f, x.node).type = "dir" THEN Directory
       ELSE File(Read(x.f, x.node, 0, 100).data) :
         x \in {ResolvePath([f EXCEPT !.vn = <<Head(f.vn)>>], 1, p)}})
ObserveKey(f, k) == Observe(f, CHOOSE p \in Paths : Key(p) = k)

Init ==
  /\ BlockInit
  /\ phase = "disk" /\ scanned = 0
  /\ devs = [i \in DOMAIN Disks |-> [disk |-> Disks[i].disk, part |-> 0, start |-> 0,
                                     count |-> Disks[i].count, ro |-> Disks[i].ro]]
  /\ parts = 0 /\ fs = Unmounted /\ root = NoNode
  /\ fds = [d \in Fds |-> Closed] /\ job = NoJob
  /\ files = [k \in Keys |-> Nothing]
  /\ torn = FALSE /\ commands = 0 /\ crashes = 0

\* The driver works.
DiskStep == phase = "disk" /\ BlockNext /\ UNCHANGED fsVars

\* probe_all is done and no request is under way.  The steps below do not look
\* at the driver's state, so they are followed over one of its initial states.
DiskReady ==
  /\ phase = "disk" /\ dev.init /\ drv.pc = "idle" /\ issued = 0
  /\ ~dev.ro /\ dev.flush /\ q.size = Max(QSizes)
  /\ disk[0] = CHOOSE m \in Marks : TRUE
  /\ phase' = "scan"
  /\ UNCHANGED <<blockVars, scanned, devs, parts, fs, root, fds, job, files, torn,
                 commands, crashes>>

------------------------------------------------------------------------------
(* kernel_main, steps 7 and 8 *)

ScanDisk ==
  /\ phase = "scan" /\ scanned < Len(Disks)
  /\ scanned' = scanned + 1
  /\ \E io \in 0..2, mem \in BOOLEAN, t \in Disks[scanned + 1].tables :
       \E r \in {ParseAndRegister(devs, parts, devs[scanned + 1], t, io, mem)} :
         devs' = r.devs /\ parts' = r.n
  /\ UNCHANGED <<blockVars, phase, fs, root, fds, job, files, torn, commands, crashes>>

\* Sector 0 of device d.
BootSector(d) ==
  LET boot == Disks[CHOOSE i \in DOMAIN Disks : Disks[i].disk = d.disk].boot
  IN IF d.start \in DOMAIN boot THEN boot[d.start]
     ELSE [sig |-> FALSE, bps |-> 0, spc |-> 0, fats |-> 0, fatsize |-> 0,
           label |-> "", root |-> 0]

\* Fat32Filesystem::mount: m_total_clusters, or -1 when the volume is refused.
\* (A total below the size of the tables, for which the code's subtraction
\* wraps, is not among Totals.)
FatClusters(d, b, total) ==
  IF ~Candidate(b) \/ b.root < 2 THEN -1
  ELSE ((IF total > 0 THEN total ELSE d.count) - (FatBegin + b.fats * b.fatsize)) \div b.spc

\* The vnode pool is emptied and the root gets the first vnode.
MountOn(f, d, total) ==
  [f EXCEPT !.dev = d, !.total = total, !.left = Forever,
            !.vn = <<[type |-> "dir", clu |-> RootCluster, size |-> 0,
                      dclu |-> 0, doff |-> 0]>>]

\* The root device is chosen and mounted; without one there is no file system.
Mount ==
  /\ phase = "scan" /\ scanned = Len(Disks)
  /\ \E t \in {MountTarget(devs, [i \in DOMAIN devs |-> BootSector(devs[i])])}, n \in Totals :
       IF t = 0 \/ FatClusters(devs[t], BootSector(devs[t]), n) < 0
       THEN phase' = "halted" /\ UNCHANGED <<fs, root, files>>
       ELSE /\ phase' = "running" /\ root' = 1
            /\ \E g \in {MountOn(fs, devs[t], FatClusters(devs[t], BootSector(devs[t]), n))} :
                 /\ fs' = g
                 /\ files' = IF crashes > 0 THEN files
                             ELSE [k \in Keys |-> ObserveKey(g, k)]
  /\ UNCHANGED <<blockVars, scanned, devs, parts, fds, job, torn, commands, crashes>>

------------------------------------------------------------------------------
(* Commands.  k is the number of device writes the power lasts for.        *)

Powers == {Forever} \cup (IF crashes < MaxCrashes THEN 0..MaxWrites ELSE {})
With(k) == [fs EXCEPT !.left = k]

\* After a step that left the driver in g with the job j: on, or off.  On a
\* power failure the paths the step was changing show whatever they show.
After(k, g, j, d, now) ==
  IF k = Forever
  THEN /\ fs' = g /\ job' = j /\ fds' = d /\ files' = now
       /\ UNCHANGED <<phase, crashes, torn>>
  ELSE /\ fs' = g /\ job' = NoJob /\ fds' = [x \in Fds |-> Closed]
       /\ phase' = "off" /\ crashes' = crashes + 1
       /\ torn' = (torn \/ (job.cmd = "save" /\ job.fd = 0 /\ "TRUNC" \in job.flags))
       /\ files' = [x \in Keys |-> IF x \in Below(Key(job.path))
                                   THEN ObserveKey(g, x) ELSE files[x]]

\* The shell reads a line, or a kernel test starts.
Command ==
  /\ phase = "running" /\ job = NoJob /\ commands < MaxCommands
  /\ commands' = commands + 1
  /\ \E l \in Lines : job' = [cmd |-> l.cmd, path |-> l.path, fd |-> 0, flags |-> l.flags]
  /\ UNCHANGED <<blockVars, phase, scanned, devs, parts, fs, root, fds, files, torn, crashes>>

\* The value of path p after open: created if it was not there, emptied by TRUNC.
Opened(r) ==
  [files EXCEPT ![Key(job.path)] =
     IF @ = Nothing /\ "CREAT" \in job.flags /\ r >= 0 THEN File(<<>>)
     ELSE IF @.kind = "file" /\ "TRUNC" \in job.flags /\ (r >= 0 \/ r = -5)
     THEN File(<<>>) ELSE @]

OpenFile ==
  /\ phase = "running" /\ job.cmd \in {"ls", "cat", "touch", "save"} /\ job.fd = 0
  /\ \E k \in IF job.flags = {} THEN {Forever} ELSE Powers :
       \E o \in {VfsOpen(With(k), fds, root, job.path, job.flags)} :
         After(k, o.f, IF o.r < 0 THEN NoJob ELSE [job EXCEPT !.fd = o.r], o.fds,
               Opened(o.r))
  /\ UNCHANGED <<blockVars, scanned, devs, parts, root, commands>>

\* cmd_cat reads until there is nothing left.
CatRead ==
  /\ phase = "running" /\ job.cmd = "cat" /\ job.fd # 0
  /\ \E x \in {VfsRead(fs, fds, job.fd, Bpc + 1)} :
       /\ x.r > 0
       /\ fds' = x.fds
  /\ UNCHANGED <<blockVars, phase, scanned, devs, parts, fs, root, job, files, torn,
                 commands, crashes>>

\* old with the first n bytes of data put at off; a gap is zero.
Overwrite(old, off, data, n) ==
  [i \in 1..Max({Len(old), off + n}) |->
     IF i - off \in 1..n THEN data[i - off] ELSE IF i <= Len(old) THEN old[i] ELSE 0]

\* A writer of the kernel, kernel_main's /persist.txt among them: seek, then write.
SaveWrite ==
  /\ phase = "running" /\ job.cmd = "save" /\ job.fd # 0
  /\ \E k \in Powers, data \in Payloads, s \in Seeks :
       \E d \in {VfsSeek(fs, fds, job.fd, s.off, s.from).fds} :
         \E x \in {VfsWrite(With(k), d, job.fd, data)} :
           After(k, x.f, [job EXCEPT !.cmd = "done"], x.fds,
                 IF x.r <= 0 THEN files
                 ELSE [files EXCEPT ![Key(job.path)] =
                         File(Overwrite(@.bytes, d[job.fd].off, data, x.r))])
  /\ UNCHANGED <<blockVars, scanned, devs, parts, root, commands>>

CloseFile ==
  /\ phase = "running" /\ job.fd # 0
  /\ \/ job.cmd \in {"ls", "touch", "done"}
     \/ job.cmd = "cat" /\ VfsRead(fs, fds, job.fd, Bpc + 1).r <= 0
  /\ fds' = VfsClose(fds, job.fd)
  /\ job' = NoJob
  /\ UNCHANGED <<blockVars, phase, scanned, devs, parts, fs, root, files, torn,
                 commands, crashes>>

StatPath ==
  /\ phase = "running" /\ job.cmd = "stat"
  /\ \E x \in {VfsStat(fs, root, job.path)} : fs' = x.f
  /\ job' = NoJob
  /\ UNCHANGED <<blockVars, phase, scanned, devs, parts, root, fds, files, torn,
                 commands, crashes>>

MakeDir ==
  /\ phase = "running" /\ job.cmd = "mkdir"
  /\ \E k \in Powers :
       \E x \in {VfsMkdir(With(k), root, job.path)} :
         After(k, x.f, NoJob, fds,
               IF x.r # 0 THEN files ELSE [files EXCEPT ![Key(job.path)] = Directory])
  /\ UNCHANGED <<blockVars, scanned, devs, parts, root, commands>>

RemovePath ==
  /\ phase = "running" /\ job.cmd = "rm"
  /\ \E k \in Powers :
       \E x \in {VfsUnlink(With(k), root, job.path)} :
         After(k, x.f, NoJob, fds,
               IF x.r # 0 THEN files
               ELSE [y \in Keys |-> IF y \in Below(Key(job.path)) THEN Nothing ELSE files[y]])
  /\ UNCHANGED <<blockVars, scanned, devs, parts, root, commands>>

\* The power is back: kernel_main mounts the same device again.
Restart ==
  /\ phase = "off"
  /\ phase' = "running" /\ root' = 1
  /\ fs' = MountOn(fs, fs.dev, fs.total)
  /\ UNCHANGED <<blockVars, scanned, devs, parts, fds, job, files, torn, commands, crashes>>

Next == DiskStep \/ DiskReady \/ ScanDisk \/ Mount \/ Command \/ OpenFile \/ CatRead
          \/ SaveWrite \/ CloseFile \/ StatPath \/ MakeDir \/ RemovePath \/ Restart

Spec == Init /\ [][Next]_vars

------------------------------------------------------------------------------
(* Properties *)

\* The entries of the volume but the dots, as they hang off the root: two levels.
DirEntries(f, n) ==
  The({{sl[i].e : i \in {j \in Shown(sl) : sl[j].e.name.base \notin {Dot, DotDot}}} :
         sl \in {DirSlots(f, n)}})
AsDir(f, e) == [f EXCEPT !.vn = <<[type |-> "dir", clu |-> e.clu, size |-> 0,
                                   dclu |-> 0, doff |-> 0]>>]
Entries(f) ==
  LET top == DirEntries(f, 1)
  IN top \cup UNION {DirEntries(AsDir(f, e), 1) : e \in {x \in top : x.k = "dir"}}

Mounted == phase = "running"
\* The boot sector does not promise more clusters than the partition has.
Honest == fs.total + 1 <= Max(DOMAIN fs.data)

\* GptParser and Partition: no two partitions registered share a sector, each
\* lies on its disk, and whatever the file system writes, with whatever geometry
\* its boot sector claims, stays inside the partition it is mounted on.
PartitionIsolation ==
  /\ ~fs.out
  /\ \A i, j \in DOMAIN devs :
       devs[i].part # 0 /\ devs[j].part # 0 /\ devs[i].disk = devs[j].disk /\ i # j
         => \/ devs[i].start + devs[i].count <= devs[j].start
            \/ devs[j].start + devs[j].count <= devs[i].start
  /\ \A i, j \in DOMAIN devs :
       devs[i].part # 0 /\ devs[j].part = 0 /\ devs[i].disk = devs[j].disk
         => devs[i].start + devs[i].count <= devs[j].count




==============================================================================
