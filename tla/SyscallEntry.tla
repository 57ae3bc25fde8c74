---------------------------- MODULE SyscallEntry ----------------------------
(***************************************************************************)
(* The way of one CPU into and out of a system call:                       *)
(* src/kernel/syscall/syscall_entry.asm, with what dispatch() in           *)
(* syscall.cpp does to the interrupt flag, and the timer interrupt.        *)
(*                                                                         *)
(* A thread calls from ring 3 (a process) or from ring 0 (a kernel test).  *)
(* rsp is "user" or "kernel": the stack the register points into.          *)
(***************************************************************************)
EXTENDS Naturals

CONSTANTS
  Callers    \* the rings calls come from, a subset of {0, 3}

VARIABLES
  pc,        \* where the CPU is
  ring,      \* its privilege level
  ifl,       \* RFLAGS.IF
  rsp,       \* the stack RSP points into
  caller,    \* the ring the call came from
  scratch,   \* g_syscall_scratch_rsp
  frame,     \* the RSP and RFLAGS.IF saved in the SyscallFrame
  irq        \* "none", or the stack the CPU pushed the last interrupt frame on
             \* together with the ring it interrupted

vars == <<pc, ring, ifl, rsp, caller, scratch, frame, irq>>

NoIrq == [stack |-> "none", ring |-> 0]
OwnStack(r) == IF r = 3 THEN "user" ELSE "kernel"

Init ==
  \E r \in Callers :
    /\ pc = "caller" /\ ring = r /\ ifl = TRUE /\ rsp = OwnStack(r)
    /\ caller = r /\ scratch = "none" /\ frame = [rsp |-> "none", ifl |-> FALSE]
    /\ irq = NoIrq

\* SYSCALL: RFLAGS is masked with IA32_FMASK, which SyscallManager::init wrote;
\* RSP is left alone.
Enter ==
  /\ pc = "caller"
  /\ pc' = "entry" /\ ring' = 0 /\ ifl' = FALSE
  /\ frame' = [frame EXCEPT !.ifl = ifl]
  /\ irq' = NoIrq
  /\ UNCHANGED <<rsp, caller, scratch>>

\* The stack of TSS.RSP0 for a caller in ring 3, the caller's own otherwise;
\* then the registers are pushed.
BuildFrame ==
  /\ pc = "entry"
  /\ scratch' = rsp
  /\ rsp' = "kernel"
  /\ frame' = [frame EXCEPT !.rsp = rsp]
  /\ pc' = "dispatch"
  /\ UNCHANGED <<ring, ifl, caller, irq>>

\* dispatch(): every call but the read of descriptor 0 keeps interrupts
\* disabled; yield restores the state it found.
Dispatch ==
  /\ pc = "dispatch"
  /\ pc' = "restore"
  /\ UNCHANGED <<ring, ifl, rsp, caller, scratch, frame, irq>>

\* SysRead of descriptor 0 enables interrupts, yields until there is a
\* character, and returns 1.
ReadConsole ==
  /\ pc \in {"dispatch", "reading"}
  /\ pc' \in {"reading", "restore"}
  /\ ifl' = TRUE
  /\ UNCHANGED <<ring, rsp, caller, scratch, frame, irq>>

\* The registers are popped, RSP last.
RestoreFrame ==
  /\ pc = "restore"
  /\ pc' = "return"
  /\ rsp' = frame.rsp
  /\ UNCHANGED <<ring, ifl, caller, scratch, frame, irq>>

\* SYSRETQ, or popfq and a jump for a caller in ring 0.
Return ==
  /\ pc = "return"
  /\ pc' = "caller" /\ ring' = caller /\ ifl' = frame.ifl
  /\ irq' = NoIrq
  /\ UNCHANGED <<rsp, caller, scratch, frame>>

\* IRQ 0: from ring 3 the CPU takes RSP from TSS.RSP0, from ring 0 it pushes on
\* the stack RSP points into.  The handler returns to where it came from.
Timer ==
  /\ ifl
  /\ irq' = [stack |-> IF ring = 3 THEN "kernel" ELSE rsp, ring |-> ring]
  /\ UNCHANGED <<pc, ring, ifl, rsp, caller, scratch, frame>>

Next == Enter \/ BuildFrame \/ Dispatch \/ ReadConsole \/ RestoreFrame
          \/ Return \/ Timer

Spec == Init /\ [][Next]_vars

\* SyscallManager::init masks IF "to guarantee atomic kernel transition": while
\* the CPU is in ring 0 no interrupt frame goes on the stack of user code.
AtomicTransition == irq.stack # "user"

==============================================================================
