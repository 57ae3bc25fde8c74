------------------------------- MODULE Process -------------------------------
(***************************************************************************)
(* User processes: src/kernel/userland/process.cpp over the page tables,   *)
(* the ELF loader and the user pointer checks; kernel stacks               *)
(* (stack_allocator.cpp), what scheduler.cpp does to CR3 and TSS.RSP0, the *)
(* system calls (syscall.cpp, syscall_entry.asm) and the heap.             *)
(*                                                                         *)
(* The boot thread initializes the VMM, runs its self-test, initializes    *)
(* the scheduler, creates processes and then starts the scheduler:         *)
(* kernel_main creates no process after Scheduler::start.  From then on    *)
(* threads interleave at timer interrupts and yields.  A system call other *)
(* than a read of the console runs with interrupts disabled.               *)
(***************************************************************************)
EXTENDS VmmSelfTest, ElfLoader

LOCAL INSTANCE FiniteSetsExt
LOCAL INSTANCE SequencesExt

CONSTANTS
  MaxProcs,     \* MAX_PROCESSES
  Workers,      \* TCBs after the two system threads, 2..(MAX_THREADS - 1)
  StackSlots,   \* MAX_STACK_SLOTS
  KStack,       \* STACK_USABLE_PAGES
  PoolSizes,    \* numbers of frames the machine may have for the PMM
  Images,       \* executables
  Buffers,      \* [at, len]: buffers passed to system calls
  Sizes,        \* sizes passed to kmalloc
  MaxAttempts,  \* bound: calls that create a process
  MaxLive       \* bound: blocks of the heap in use at a time

ASSUME ProcessAssumption ==
  /\ MaxProcs \in Nat \ {0} /\ Workers = 2..(Cardinality(Workers) + 1)
  /\ StackSlots \in Nat \ {0} /\ KStack \in Nat \ {0}

VARIABLES
  phase,     \* how far kernel_main is
  vm,        \* the memory: page tables and free frames
  pool,      \* the frames the PMM was initialized with
  heap,      \* g_slab_freelists and the blocks in use
  procs,     \* s_processes
  tcb,       \* s_tcb_pool, the worker part
  queue,     \* s_ready_queue
  current,   \* s_current_thread
  cr3,       \* the CPU's page table register
  rsp0,      \* the thread whose stack TSS.RSP0 points to
  attempts,  \* calls of create_process and create_process_from_vfs so far
  lost,      \* frames nothing refers to any more
  test,      \* the operation of the self-test that is next, and its frames
  touched    \* what the kernel accessed on behalf of a process in this step

vars == <<phase, vm, pool, heap, procs, tcb, queue, current, cr3, rsp0, attempts,
          lost, touched, test>>

Boot == 0
Idle == 1
Slots == 0..(StackSlots - 1)
Procs == 1..MaxProcs

NoProc == [active |-> FALSE, cr3 |-> 0, thread |-> 0, img |-> 0]
NoTcb == [state |-> "Free", cr3 |-> 0, proc |-> 0, slot |-> -1, base |-> 0,
          mode |-> "entry", buf |-> 0]

Init ==
  /\ phase = "reset"
  /\ \E n \in PoolSizes :
       /\ pool = Entries..(Entries + n - 1)
       /\ vm = [free |-> pool, tab |-> <<>>, root |-> 0, fail |-> FALSE]
  /\ heap = EmptyHeap
  /\ procs = [p \in Procs |-> NoProc]
  /\ tcb = [t \in Workers \cup {Idle} |-> NoTcb]
  /\ queue = <<>> /\ current = Boot
  /\ cr3 = 0 /\ rsp0 = Boot
  /\ attempts = 0 /\ lost = {} /\ touched = {} /\ test = [i |-> 1, pa |-> 0]

------------------------------------------------------------------------------
(* Kernel stacks *)

\* Page p of a stack; the page below page 0 is its guard page.
StackVa(slot, p) ==
  LET n == slot * (KStack + 1) + 1 + p
  IN Va(<<Entries - 1, Entries - 3, n \div Entries, n % Entries>>)

UsedSlots == {tcb[t].slot : t \in DOMAIN tcb}

Pages0(n) == [i \in 1..n |-> i - 1]

UnmapAll(m, slot, n) ==
  LET unmap(x, p) == UnmapPage(x, StackVa(slot, p)).m
  IN FoldLeft(unmap, m, Pages0(n))

\* allocate_stack; ok is FALSE without a slot, frames or a page table.
AllocateStack(m, used) ==
  LET slot == Min(Slots \ used)
      a == AllocPages(m, KStack)
      map(x, p) ==
        LET r == MapPage(x.m, StackVa(slot, p), a.pa + p, {"P", "W", "NX"})
        IN IF ~x.ok THEN x
           ELSE [n |-> IF r.st = "Success" THEN p + 1 ELSE p,
                 ok |-> r.st = "Success", m |-> r.m]
      r == FoldLeft(map, [n |-> 0, ok |-> TRUE, m |-> a.m], Pages0(KStack))
      fail(x) == [ok |-> FALSE, m |-> x, slot |-> -1, base |-> 0]
  IN IF Slots \subseteq used \/ a.pa = 0 THEN fail(m)
     ELSE IF ~r.ok
     THEN fail(FreePages(UnmapAll(r.m, slot, r.n), a.pa..(a.pa + KStack - 1)))
     ELSE [ok |-> TRUE, m |-> r.m, slot |-> slot, base |-> a.pa]

\* free_stack
FreeStack(m, x) ==
  FreePages(UnmapAll(m, x.slot, KStack), x.base..(x.base + KStack - 1))

------------------------------------------------------------------------------
(* Booting *)

\* VMM init; kernel_main panics when it fails.
BootVmm ==
  /\ phase = "reset"
  /\ \E nxe \in BOOLEAN : \E m \in {VmmInit(vm, nxe)} :
       /\ phase' = IF m.root = 0 THEN "halted" ELSE "testing"
       /\ vm' = m
       /\ cr3' = m.root
  /\ UNCHANGED <<pool, heap, procs, tcb, queue, current, rsp0, attempts, lost,
                 touched, test>>

\* The self-test, one operation a step.
TestVmm ==
  /\ phase = "testing"
  /\ \E r \in {RunTest([ok |-> TRUE, m |-> vm, pa |-> test.pa], SelfTest[test.i])} :
       /\ vm' = r.m
       /\ test' = [i |-> test.i + 1, pa |-> r.pa]
       /\ phase' = IF ~r.ok THEN "panic"
                   ELSE IF test.i = Len(SelfTest) THEN "tested" ELSE phase
  /\ UNCHANGED <<pool, heap, procs, tcb, queue, current, cr3, rsp0, attempts,
                 lost, touched>>

\* Scheduler::init: without a stack for the idle thread there is none, and
\* the timer hook is not installed.
InitScheduler ==
  LET k == AllocateStack(vm, {})
  IN /\ phase = "tested"
     /\ phase' = "boot"
     /\ vm' = k.m
     /\ tcb' = [tcb EXCEPT ![Idle] = [@ EXCEPT !.slot = k.slot, !.base = k.base]]
     /\ UNCHANGED <<pool, heap, procs, queue, current, cr3, rsp0, attempts, lost, touched, test>>

\* Kernel code uses the heap; a pointer may be freed a second time.
HeapAlloc(size) ==
  LET r == Kmalloc(heap, vm.free, size)
  IN /\ phase = "boot" /\ Cardinality(heap.live) < MaxLive
     /\ heap' = r.h
     /\ vm' = [vm EXCEPT !.free = r.free]
     /\ UNCHANGED <<phase, pool, procs, tcb, queue, current, cr3, rsp0, attempts, lost,
                    touched, test>>

HeapFree(p) ==
  LET r == Kfree(heap, vm.free, p)
  IN /\ phase = "boot"
     /\ heap' = r.h
     /\ vm' = [vm EXCEPT !.free = r.free]
     /\ UNCHANGED <<phase, pool, procs, tcb, queue, current, cr3, rsp0, attempts, lost,
                    touched, test>>

Start ==
  /\ phase = "boot"
  /\ phase' = "running"
  /\ UNCHANGED <<vm, pool, heap, procs, tcb, queue, current, cr3, rsp0, attempts, lost,
                 touched, test>>

------------------------------------------------------------------------------
(* create_process and create_process_from_vfs *)

FreeProcs == {p \in Procs : ~procs[p].active}
FreeTcbs == {t \in Workers : tcb[t].state = "Free"}

\* The address space is destroyed on every failure after it was created.
Abandon(m, pml4, p) ==
  /\ vm' = DestroyUserAddressSpace(m, pml4)
  /\ procs' = [procs EXCEPT ![p].cr3 = 0]
  /\ UNCHANGED <<tcb, queue>>

\* Scheduler::create_thread publishes the thread, then its CR3 is set.
Publish(m, pml4, p, img) ==
  LET k == AllocateStack(m, UsedSlots)
      t == Min(FreeTcbs)
  IN IF FreeTcbs = {} THEN Abandon(m, pml4, p)
     ELSE IF ~k.ok THEN Abandon(k.m, pml4, p)
     ELSE /\ vm' = k.m
          /\ tcb' = [tcb EXCEPT ![t] = [NoTcb EXCEPT !.state = "Ready",
                       !.cr3 = pml4, !.proc = p, !.slot = k.slot, !.base = k.base]]
          /\ queue' = Append(queue, t)
          /\ procs' = [procs EXCEPT ![p] = [active |-> TRUE, cr3 |-> pml4,
                                            thread |-> t, img |-> img]]

\* load_from_vfs: the file is read into a block of the heap, which is freed on
\* every path.  io says where the file system fails.
LoadFromVfs(c, img, io) ==
  LET done(st, m, h, free, lost_) ==
        [st |-> st, m |-> [m EXCEPT !.free = free], lost |-> lost_, h |-> h]
      unread(b) == {done("BufferTooSmall", c.m, k.h, k.free, {}) :
                      k \in {Kfree(b.h, b.free, b.at)}}
      loaded(b, l) == {done(l.st, l.m, k.h, k.free, l.lost) :
                         k \in {Kfree(b.h, l.m.free, b.at)}}
  IN IF io \in {"open", "stat"}
     THEN {done("BufferTooSmall", c.m, heap, c.m.free, {})}
     ELSE UNION {IF ~b.ok THEN {done("AllocationFailed", c.m, heap, c.m.free, {})}
                 ELSE IF io = "read" THEN unread(b)
                 ELSE UNION {loaded(b, l) : l \in
                               {Load([c.m EXCEPT !.free = b.free], c.pa, img)}} :
                   b \in {Kmalloc(heap, c.m.free, img.size)}}

\* The set with the one result of loading into the PML4 of c, from a file or
\* from an image linked into the kernel.
LoadInto(c, img, io) ==
  IF io # "linked" THEN LoadFromVfs(c, img, io)
  ELSE {[st |-> l.st, m |-> l.m, lost |-> l.lost, h |-> heap] :
          l \in {Load(c.m, c.pa, img)}}

\* The common part of the two: the slot and the PML4 come first.
CreateWith(img, io) ==
  /\ phase = "boot" /\ FreeProcs # {} /\ attempts < MaxAttempts
  /\ attempts' = attempts + 1
  /\ \E c \in {CreateUserAddressSpace(vm)} :
       IF c.pa = 0
       THEN /\ procs' = [procs EXCEPT ![Min(FreeProcs)].cr3 = 0]
            /\ UNCHANGED <<vm, heap, tcb, queue, lost>>
       ELSE \E r \in LoadInto(c, img, io) :
              /\ heap' = r.h
              /\ lost' = lost \cup r.lost
              /\ IF r.st # "Success" THEN Abandon(r.m, c.pa, Min(FreeProcs))
                 ELSE Publish(r.m, c.pa, Min(FreeProcs), img)
  /\ UNCHANGED <<phase, pool, current, cr3, rsp0, touched, test>>

\* create_process with an image linked into the kernel.
CreateProcess(img) == CreateWith(img, "linked")

CreateProcessFromVfs(img, io) == CreateWith(img, io)

------------------------------------------------------------------------------
(* Scheduling, as far as address spaces and stacks go *)

InWorker == phase = "running" /\ current \in Workers
Mode(m) == InWorker /\ tcb[current].mode = m

\* reclaim_deferred_stacks
Reclaim(m, ts) ==
  LET dead == {t \in Workers : ts[t].state = "Terminated" /\ t # current}
      give(t, x) == FreeStack(x, ts[t])
  IN [m |-> FoldSet(give, m, dead),
      tcb |-> [t \in DOMAIN ts |-> IF t \in dead THEN NoTcb ELSE ts[t]]]

\* Mutant: a thread without an address space of its own leaves CR3 alone.
SwitchKeepsCr3(next, m, ts) ==
  /\ current' = next
  /\ rsp0' = next
  /\ cr3' = IF next \in Workers THEN ts[next].cr3 ELSE cr3
  /\ vm' = m
  /\ tcb' = IF next \in Workers THEN [ts EXCEPT ![next].state = "Running"] ELSE ts

\* TSS.RSP0 and CR3 follow the thread; a kernel thread runs on the root.
SwitchTo(next, m, ts) ==
  /\ current' = next
  /\ rsp0' = next
  /\ cr3' = IF next \in Workers /\ ts[next].cr3 # 0 THEN ts[next].cr3 ELSE m.root
  /\ vm' = m
  /\ tcb' = IF next \in Workers THEN [ts EXCEPT ![next].state = "Running"] ELSE ts

\* schedule(): at a timer interrupt (when the hook is installed), at a yield of
\* the boot thread's loop, at SysYield or in the loop of a console read.
Schedule ==
  LET r == Reclaim(vm, tcb)
  IN /\ phase = "running"
     /\ IF queue = <<>>
        THEN /\ vm' = r.m /\ tcb' = r.tcb
             /\ UNCHANGED <<queue, current, cr3, rsp0>>
        ELSE /\ queue' = IF current = Idle THEN Tail(queue)
                         ELSE Append(Tail(queue), current)
             /\ SwitchTo(Head(queue), r.m,
                         IF current \in Workers
                         THEN [r.tcb EXCEPT ![current].state = "Ready"]
                         ELSE r.tcb)
     /\ touched' = {}
     /\ UNCHANGED <<phase, pool, heap, procs, attempts, lost, test>>

Preempt == tcb[Idle].slot # -1 /\ Schedule

Yield == (current = Boot \/ Mode("user") \/ Mode("read")) /\ Schedule

\* user_process_entry loads CR3 and enters ring 3.
Launch ==
  /\ Mode("entry")
  /\ cr3' = procs[tcb[current].proc].cr3
  /\ tcb' = [tcb EXCEPT ![current].mode = "user"]
  /\ touched' = {}
  /\ UNCHANGED <<phase, vm, pool, heap, procs, queue, current, rsp0, attempts, lost, test>>

\* current_process()
CurrentProcess == {p \in Procs : procs[p].active /\ procs[p].thread = current}

\* terminate_current_process: SysExit, an exception in ring 3, or a return
\* address outside the user half; then Scheduler::exit.
Terminate ==
  LET p == CurrentProcess
      m == IF p = {} THEN vm ELSE DestroyUserAddressSpace(vm, procs[Min(p)].cr3)
      dead == [tcb EXCEPT ![current].state = "Terminated"]
      r == Reclaim(m, dead)
  IN /\ Mode("user")
     /\ procs' = [q \in Procs |->
          IF q \in p THEN [procs[q] EXCEPT !.active = FALSE, !.cr3 = 0] ELSE procs[q]]
     /\ queue' = IF queue = <<>> THEN <<>> ELSE Tail(queue)
     /\ SwitchTo(IF queue = <<>> THEN Idle ELSE Head(queue), r.m, r.tcb)
     /\ touched' = {}
     /\ UNCHANGED <<phase, pool, heap, attempts, lost, test>>

------------------------------------------------------------------------------
(* System calls that take pointers; b and c are arguments *)

\* Write stands for WriteDebug and Write, Open for Open, Mkdir and Unlink,
\* Readdir for Readdir, MemInfo, Ps and the read of a file.
Calls == {"Write", "Open", "Readdir", "Stat"}
StringCalls == {"Open", "Stat"}
ObjectCalls == {"Readdir", "Stat"}

\* The validation dispatch() does before it uses its arguments.
Accepted(call, b, c) ==
  /\ call = "Write" =>
       ValidateBuffer(vm, cr3, b.at, b.len, {"P", "U"})
  /\ call \in StringCalls =>
       ValidateString(vm, cr3, b.at, MaxBuffer, b.at + b.len - 1)
  /\ call \in ObjectCalls =>
       ValidateBuffer(vm, cr3, c.at, c.len, {"P", "U", "W"})

Touches(b, w) == {[page |-> p, w |-> w] :
  p \in (b.at \div PageSize)..((b.at + b.len - 1) \div PageSize)}

\* What the call then reads and writes.
Accesses(call, b, c) ==
  (IF call \in {"Write"} \cup StringCalls THEN Touches(b, FALSE) ELSE {})
    \cup (IF call \in ObjectCalls THEN Touches(c, TRUE) ELSE {})

\* dispatch(): interrupts stay disabled.  A refused call returns an error.
Syscall(call, b, c) ==
  /\ Mode("user")
  /\ touched' = IF Accepted(call, b, c) THEN Accesses(call, b, c) ELSE {}
  /\ UNCHANGED <<phase, vm, pool, heap, procs, tcb, queue, current, cr3, rsp0,
                 attempts, lost, test>>

\* SysRead of descriptor 0 checks the buffer once, enables interrupts and
\* waits; the character is stored when one arrives.
ReadConsole(b) ==
  /\ Mode("user")
  /\ ValidateBuffer(vm, cr3, b.at, b.len, {"P", "U", "W"})
  /\ tcb' = [tcb EXCEPT ![current].mode = "read", ![current].buf = b.at]
  /\ touched' = {}
  /\ UNCHANGED <<phase, vm, pool, heap, procs, queue, current, cr3, rsp0, attempts, lost, test>>

ReadDone ==
  /\ Mode("read")
  /\ touched' = Touches([at |-> tcb[current].buf, len |-> 1], TRUE)
  /\ tcb' = [tcb EXCEPT ![current].mode = "user", ![current].buf = 0]
  /\ UNCHANGED <<phase, vm, pool, heap, procs, queue, current, cr3, rsp0, attempts, lost, test>>

\* SysReboot and SysPoweroff
PowerOff ==
  /\ Mode("user")
  /\ phase' = "off"
  /\ UNCHANGED <<vm, pool, heap, procs, tcb, queue, current, cr3, rsp0, attempts, lost,
                 touched, test>>

Next ==
  \/ BootVmm
  \/ TestVmm
  \/ InitScheduler
  \/ \E n \in Sizes : HeapAlloc(n)
  \/ \E x \in Items(heap) : HeapFree(x.at)
  \/ \E img \in Images : CreateProcess(img)
  \/ \E img \in Images, io \in {"ok", "open", "stat", "read"} :
       CreateProcessFromVfs(img, io)
  \/ Start
  \/ Preempt
  \/ Yield
  \/ Launch
  \/ Terminate
  \/ \E call \in Calls, b \in Buffers, c \in Buffers : Syscall(call, b, c)
  \/ \E b \in Buffers : ReadConsole(b)
  \/ ReadDone
  \/ PowerOff

Spec == Init /\ [][Next]_vars

------------------------------------------------------------------------------
(* Properties *)

Active == {p \in Procs : procs[p].active}
Spaces == {vm.root} \cup {procs[p].cr3 : p \in Active}

\* CR3 never points to tables that were freed, a thread that can be dispatched
\* has the address space of its own live process, ring 3 code runs on exactly
\* that address space, and a trap from it lands on the thread's own kernel
\* stack: schedule(), exit() and terminate_current_process() keep CR3 and
\* TSS.RSP0 in step with the current thread.
AddressSpaceLive ==
  /\ phase \in {"boot", "running"} => cr3 \in Spaces /\ vm.root # 0
  /\ \A t \in Workers : tcb[t].state \in {"Ready", "Running"} =>
       LET p == procs[tcb[t].proc]
       IN p.active /\ p.thread = t /\ p.cr3 = tcb[t].cr3 /\ p.cr3 # vm.root
  /\ Mode("user") \/ Mode("read") => cr3 = tcb[current].cr3
  /\ rsp0 = current

KernelPdpts == Below(vm, {vm.root}, Half..(Entries - 1))
KernelPds == Below(vm, KernelPdpts, Index)
KernelPts == Below(vm, KernelPds, Index)
KernelTree == {vm.root} \cup KernelPdpts \cup KernelPds \cup KernelPts
                \cup Below(vm, KernelPts, Index)
HeapFrames == UNION {{c[1] : c \in Extent(x)} : x \in Items(heap)}

\* Every frame of the PMM is free, or belongs to the kernel's tables and
\* stacks, or to the heap, or to exactly one live address space, or is one of
\* the frames that load() drops when a page cannot be mapped: rolled-back
\* loads, failed stacks and terminated processes give back all the others.
FramesPartitioned ==
  LET kernel == KernelTree \cap pool
      user(p) == UserTree(vm, procs[p].cr3)
  IN phase \in {"tested", "boot", "running"} =>
       /\ \A p \in Active : user(p) \cap (kernel \cup HeapFrames) = {}
       /\ \A p, q \in Active : p # q => user(p) \cap user(q) = {}
       /\ kernel \cap HeapFrames = {}
       /\ vm.free = pool \ (kernel \cup HeapFrames \cup lost
                              \cup UNION {user(p) : p \in Active})

\* In every live address space, the ones created before the stack included, the
\* kernel stack of every thread is mapped to its frames, supervisor only, and
\* its guard page is not mapped: a stack mapped or freed in the root tables is
\* seen through the shared kernel half.
KernelStacksMapped ==
  \A s \in Spaces, t \in DOMAIN tcb : tcb[t].slot # -1 =>
    /\ \A p \in 0..(KStack - 1) :
         LET w == Walk(vm, s, StackVa(tcb[t].slot, p))
         IN w.ok /\ w.pa = tcb[t].base + p /\ "W" \in w.flags
              /\ "U" \notin w.flags
    /\ ~Walk(vm, s, StackVa(tcb[t].slot, -1)).ok


\* The file bytes of a segment, by definition: byte i of the segment comes from
\* byte off + i of the file and goes to address vaddr + i.
CopiedTo(ph) ==
  UNION {LET c == Copy(ph, p)
         IN {<<c.file + k, p * PageSize + c.at + k>> : k \in 0..(c.len - 1)} :
           p \in FirstPage(ph)..(EndPage(ph) - 1)}

\* An image that load() accepted is in memory as its program headers say: every
\* byte of every segment copied once, from inside the file to its address, each
\* page with the permissions of its segment, in the user half, and the stack
\* pages mapped.
LoadSound ==
  \A p \in Active :
    LET img == procs[p].img
        segs == Loadable(img)
        is(page, flags) ==
          LET w == Walk(vm, procs[p].cr3, PageVa(page))
          IN page \in 1..(UserPages - 1) /\ w.ok /\ w.flags = flags
    IN /\ \A i \in 1..Len(segs) :
            /\ CopiedTo(segs[i]) = {<<segs[i].off + k, segs[i].vaddr + k>> :
                                      k \in 0..(segs[i].filesz - 1)}
            /\ \A c \in CopiedTo(segs[i]) : c[1] < img.size
            /\ \A q \in FirstPage(segs[i])..(EndPage(segs[i]) - 1) :
                 is(q, SegFlags(segs[i]))
       /\ \A i \in 0..(StackPages - 1) :
            is(StackBottomPage + i, {"P", "U", "W", "NX"})

\* With 12 frames or more the boot self-test of the VMM passes, and it leaves
\* nothing behind: every test page is unmapped and only the page directory and
\* the page table of its window stay allocated.
SelfTestSound ==
  /\ phase = "panic" => Cardinality(pool) < 12
  /\ phase = "tested" =>
       /\ \A i \in Index : ~Walk(vm, vm.root, TestVa(i)).ok
       /\ Cardinality(vm.free) = Cardinality(pool) - 7

\* The heap's blocks never overlap each other or a free frame.
HeapBlocksSound == HeapSound(heap, vm.free)

==============================================================================
