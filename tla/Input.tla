-------------------------------- MODULE Input --------------------------------
(***************************************************************************)
(* Keyboard input: the 8042 controller, the keyboard driver, the scancode  *)
(* decoder and the event queue of src/kernel/drivers/ps2/, and the two     *)
(* loops that take events out of the queue.                                *)
(*                                                                         *)
(* Interrupt handlers run with interrupts off on the one CPU, so           *)
(* handle_interrupt is one step.  A consumer runs with interrupts on and   *)
(* is interrupted between any two accesses to the queue.                   *)
(***************************************************************************)
EXTENDS Integers, SequencesExt, FiniteSetsExt

CONSTANTS
  Capacity,      \* of the event queue
  IdxMod,        \* 2^64: m_head and m_tail wrap here
  MaxFifo        \* bound: bytes waiting in the keyboard and the controller

VARIABLES
  wire,          \* external: bytes waiting in the keyboard and the controller
  port,          \* external: absent, off, on or armed (IRQ1 unmasked as well)
  ps2,           \* Ps2Controller::s_initialized
  dec,           \* s_decoder: the state and the modifiers that are down
  ring,          \* s_queue: buffer, head, tail, dropped
  con,           \* the consumer inside pop(): its place and its locals
  held,          \* external: the keys that are down
  pend,          \* the events that are accepted and not yet delivered
  torn           \* a byte of the keyboard was thrown away by initialization

inputVars == <<wire, port, ps2, dec, ring, con, held, pend, torn>>

------------------------------------------------------------------------------
\* The keyboard

E0 == 224
E1 == 225
Ack == 250

\* The scancode of a key, as translated to set 1.
Code == [lshift |-> 42, rshift |-> 54, lctrl |-> 29, rctrl |-> 29, lalt |-> 56,
         ralt |-> 56, caps |-> 58, a |-> 30, enter |-> 28, up |-> 72]

Extended == {"rctrl", "ralt", "up"}

Shifts == {"lshift", "rshift"}

Modifiers == {"lshift", "rshift", "lctrl", "rctrl", "lalt", "ralt"}

Break(c) == c + 128

\* External: the bytes for a key going down or up.  A cursor key hides a shift that
\* is down between a false release and a false press of it.
Make(k) ==
  CASE k = "pause" -> <<E1, 29, 69, E1, 157, 197>>
    [] k = "up" -> (IF "lshift" \in held THEN <<E0, Break(42)>> ELSE <<>>)
                   \o <<E0, Code[k]>>
    [] k \in Extended \ {"up"} -> <<E0, Code[k]>>
    [] OTHER -> <<Code[k]>>

Release(k) ==
  CASE k = "pause" -> <<>>
    [] k = "up" -> <<E0, Break(Code[k])>>
                   \o (IF "lshift" \in held THEN <<E0, 42>> ELSE <<>>)
    [] k \in Extended \ {"up"} -> <<E0, Break(Code[k])>>
    [] OTHER -> <<Break(Code[k])>>

\* External: a key goes down, or repeats.
KeyDown(k) ==
  /\ port # "absent"
  /\ Len(wire) + Len(Make(k)) <= MaxFifo
  /\ wire' = wire \o Make(k)
  /\ held' = IF k = "pause" THEN held ELSE held \cup {k}
  /\ UNCHANGED <<port, ps2, dec, ring, con, pend, torn>>

KeyUp(k) ==
  /\ k \in held
  /\ Len(wire) + Len(Release(k)) <= MaxFifo
  /\ wire' = wire \o Release(k)
  /\ held' = held \ {k}
  /\ UNCHANGED <<port, ps2, dec, ring, con, pend, torn>>

------------------------------------------------------------------------------
\* The decoder

NoDecoder == [state |-> "normal", down |-> {}, caps |-> FALSE]

MapNormal(code) ==
  CASE code = 42 -> "lshift" [] code = 54 -> "rshift" [] code = 29 -> "lctrl"
    [] code = 56 -> "lalt" [] code = 58 -> "caps" [] code = 30 -> "a"
    [] code = 28 -> "enter" [] OTHER -> "unknown"

\* Mutant: codes without an extended meaning keep their plain one.
MapExtendedPlain(code) ==
  CASE code = 29 -> "rctrl" [] code = 56 -> "ralt" [] code = 28 -> "enter"
    [] code = 72 -> "up" [] OTHER -> MapNormal(code)

MapExtended(code) ==
  CASE code = 29 -> "rctrl" [] code = 56 -> "ralt" [] code = 28 -> "enter"
    [] code = 72 -> "up" [] OTHER -> "unknown"

\* current_modifiers
CurrentModifiers(d) ==
  [shift |-> d.down \cap Shifts # {}, ctrl |-> d.down \cap {"lctrl", "rctrl"} # {},
   alt |-> d.down \cap {"lalt", "ralt"} # {}, caps |-> d.caps]

\* A byte that ends a sequence: the decoder after it.
Keyed(d, key, release) ==
  [state |-> "normal",
   down |-> IF key \notin Modifiers THEN d.down
            ELSE IF release THEN d.down \ {key} ELSE d.down \cup {key},
   caps |-> IF key = "caps" /\ ~release THEN ~d.caps ELSE d.caps]

\* process_byte: the decoder after the byte and the event, if there is one.
ProcessByte(d, byte) ==
  LET release == byte >= 128
      key == IF d.state = "normal" THEN MapNormal(byte % 128) ELSE MapExtended(byte % 128)
      after == Keyed(d, key, release)
      silent(s) == [d |-> [d EXCEPT !.state = s], ev |-> <<>>]
  IN CASE d.state = "normal" /\ byte = E0 -> silent("E0")
       [] d.state = "normal" /\ byte = E1 -> silent("E1_1")
       [] d.state = "E1_1" -> silent("E1_2")
       [] d.state = "E1_2" -> silent("normal")
       [] OTHER -> [d |-> after,
                    ev |-> <<[key |-> key, press |-> ~release,
                              mods |-> CurrentModifiers(after)]>>]

------------------------------------------------------------------------------
\* The queue

NoEvent == [key |-> "unknown", press |-> TRUE,
            mods |-> CurrentModifiers(NoDecoder)]

EmptyRing == [buffer |-> [s \in 0..(Capacity - 1) |-> NoEvent], head |-> 0, tail |-> 0]

Count(r) == (r.head - r.tail) % IdxMod

\* Mutant: one event too many fits.
FullPlusOne(r) == Count(r) > Capacity

IsFull(r) == Count(r) >= Capacity

\* push: a full queue drops the event.
Push(r, e) ==
  IF IsFull(r) THEN r
  ELSE [r EXCEPT !.buffer[r.head % Capacity] = e, !.head = (@ + 1) % IdxMod]

\* handle_interrupt and process_scancode, for the byte at the head of the wire.
HandleInterrupt ==
  /\ port = "armed" /\ wire # <<>>
  /\ wire' = Tail(wire)
  /\ \E p \in {ProcessByte(dec, Head(wire))} :
       /\ dec' = p.d
       /\ ring' = IF p.ev = <<>> THEN ring ELSE Push(ring, p.ev[1])
       /\ pend' = IF p.ev = <<>> \/ IsFull(ring) THEN pend ELSE pend \o p.ev
  /\ UNCHANGED <<port, ps2, con, held, torn>>

\* pop, one access to the queue after another.  The consumer is the shell inside
\* read(0), or the kernel's main loop when no process is left.
Idle == [at |-> "idle", tail |-> 0, ev |-> NoEvent]

PopTail ==
  /\ con.at = "idle"
  /\ con' = [con EXCEPT !.at = "head", !.tail = ring.tail]
  /\ UNCHANGED <<wire, port, ps2, dec, ring, held, pend, torn>>

PopHead ==
  /\ con.at = "head"
  /\ con' = IF con.tail = ring.head THEN Idle ELSE [con EXCEPT !.at = "copy"]
  /\ UNCHANGED <<wire, port, ps2, dec, ring, held, pend, torn>>

PopCopy ==
  /\ con.at = "copy"
  /\ con' = [con EXCEPT !.at = "advance", !.ev = ring.buffer[con.tail % Capacity]]
  /\ UNCHANGED <<wire, port, ps2, dec, ring, held, pend, torn>>

PopAdvance ==
  /\ con.at = "advance"
  /\ con' = Idle
  /\ ring' = [ring EXCEPT !.tail = (con.tail + 1) % IdxMod]
  /\ pend' = Tail(pend)
  /\ UNCHANGED <<wire, port, ps2, dec, held, torn>>

------------------------------------------------------------------------------
\* Initialization.  It runs with interrupts off; bytes still arrive.

\* Ps2Controller::init, run when the controller is not initialized.  An absent
\* controller and the commands that time out are external; a test of the first
\* port that fails is only reported, and port 1 is enabled last.
\* flush_output_buffer throws away what has arrived, which is any part of it.
Ps2Init(ok) ==
  /\ ~ps2
  /\ ok => port # "absent"
  /\ ps2' = ok
  /\ port' = IF ok THEN "on" ELSE IF port = "absent" THEN port ELSE "off"
  /\ \E n \in 0..Len(wire) :
       /\ port = "absent" => n = 0
       /\ wire' = SubSeq(wire, n + 1, Len(wire))
       /\ torn' = (torn \/ n > 0)
  /\ UNCHANGED <<dec, ring, con, held, pend>>

\* Keyboard::init after the controller is ready: flush, reset the decoder and the
\* queue, send 0xF4, read one byte as its acknowledgement if one comes in time, and
\* unmask IRQ1.  The keyboard may not answer (or the command not be sent), or answer
\* late; the byte read is the first in line, whatever it is.
KeyboardInit(answered, intime) ==
  /\ ps2 /\ port = "on"
  /\ \E n \in 0..Len(wire) :
       LET left == SubSeq(wire, n + 1, Len(wire)) \o (IF answered THEN <<Ack>> ELSE <<>>)
       IN /\ intime => left # <<>>
          /\ wire' = IF intime THEN Tail(left) ELSE left
          /\ torn' = (torn \/ n > 0 \/ (intime /\ Head(left) # Ack) \/ held # {})
  /\ dec' = NoDecoder
  /\ ring' = EmptyRing
  /\ pend' = <<>>
  /\ port' = "armed"
  /\ UNCHANGED <<ps2, con, held>>

InputInit(present) ==
  /\ wire = <<>> /\ held = {} /\ pend = <<>> /\ torn = FALSE
  /\ port = IF present THEN "off" ELSE "absent"
  /\ ps2 = FALSE
  /\ dec = NoDecoder /\ ring = EmptyRing /\ con = Idle

------------------------------------------------------------------------------
\* Properties

\* The queue is a first-in first-out queue of the accepted events: none is lost,
\* repeated, reordered or overwritten before it is delivered, although the
\* interrupt handler writes to it between the accesses of pop().
EventsInOrder ==
  /\ Count(ring) = Len(pend) /\ Len(pend) <= Capacity
  /\ \A i \in DOMAIN pend : ring.buffer[(ring.tail + i - 1) % Capacity] = pend[i]
  /\ con.at = "advance" => pend # <<>> /\ con.ev = pend[1]

\* When everything the keyboard has sent is decoded, the modifiers that the decoder
\* holds down are the ones that are down: prefixes, the false shifts around cursor
\* keys, repeats, Pause and events dropped by a full queue do not confuse it.  The
\* exception is a keyboard used while initialization threw bytes away.
ModifiersMatch ==
  port = "armed" /\ wire = <<>> /\ ~torn =>
    dec.state = "normal" /\ dec.down = held \cap Modifiers
==============================================================================
