------------------------------- MODULE Console -------------------------------
(***************************************************************************)
(* console.rs, panic.rs and arch/x86_64/serial.rs over the spinlocks:      *)
(* println! takes CONSOLE wherever the kernel logs (inside other locks, in *)
(* interrupt handlers and in the panic handler) and feeds the UART byte by *)
(* byte, polling for its transmit register.                                *)
(*                                                                         *)
(* A panic never unwinds: the handler runs on top of the calls in          *)
(* progress, whose locks stay taken, prints its report and halts.          *)
(***************************************************************************)
EXTENDS SpinLock

CONSTANTS
  CONSOLE,      \* the lock of that name
  LineBytes,    \* bytes of a line, at least the "\r\n" that ends it
  ReportLines,  \* lines of a panic report
  MaxCalls      \* bound: calls and interrupts of the whole system after a panic

ASSUME ConsoleAssumption ==
  CONSOLE \in Locks /\ LineBytes \in Nat /\ ReportLines \in Nat /\ MaxCalls \in Nat

\* The kernel nests its locks in one order, and nothing in CONSOLE.
ASSUME OrderAssumption ==
  /\ IsFiniteSet(Locks)
  /\ \E rank \in [Locks -> 0 .. Cardinality(Locks)] :
       /\ \A e \in Nests : rank[e[2]] < rank[e[1]]
       /\ \A l \in Locks \ {CONSOLE} : rank[CONSOLE] < rank[l]

VARIABLES
  present,    \* whether Console::new found a serial port in the command line
  thr,        \* whether the UART's transmit register is full
  lost,       \* whether a byte was written to a full register, and lost
  left,       \* left[c]: the bytes of the line c prints still to be written
  polled,     \* polled[c]: c has read EMPTY_THR for the next one
  PANICKING,
  reporter,   \* the processor that found PANICKING unset
  printed,    \* lines of its report that are out
  depth,      \* depth[c]: calls in progress when c panicked, -1 if it has not
  halted,     \* the processors in cpu::halt
  calls       \* calls and interrupts since the panic

uart == <<present, thr, lost, left, polled>>
panics == <<PANICKING, reporter, printed, depth, halted, calls>>
consoleVars == <<vars, uart, panics>>

ConsoleInit ==
  /\ Init
  /\ present \in BOOLEAN
  /\ thr = FALSE
  /\ lost = FALSE
  /\ left = [c \in Cpus |-> 0]
  /\ polled = [c \in Cpus |-> FALSE]
  /\ PANICKING = FALSE
  /\ reporter = None
  /\ printed = 0
  /\ depth = [c \in Cpus |-> -1]
  /\ halted = {}
  /\ calls = 0

\* The processor runs code of its own, not of a call it panicked in.
Running(c) == c \notin halted /\ Len(frames[c]) > depth[c]
\* It is in the panic handler, between lines.
Reporting(c) == c = reporter /\ c \notin halted /\ Len(frames[c]) = depth[c]
\* The locks that it panicked with, and keeps.
Kept(c) == {frames[c][i].lock : i \in {j \in 1 .. depth[c] : frames[c][j].pc = "held"}}
\* It is in the closure of writeln_fmt.
Printing(c) == At(c, "held") /\ Top(c).lock = CONSOLE
-----------------------------------------------------------------------------
\* A step of `with'.  The closure of writeln_fmt has a line to write, if there is a
\* console, and ends when it is out.
LockStep(c) ==
  /\ Running(c)
  /\ Step(c)
  /\ Printing(c) => left[c] = 0
  /\ left' = IF ~Printing(c) /\ Printing(c)' /\ present
             THEN [left EXCEPT ![c] = LineBytes] ELSE left
  /\ printed' = IF c = reporter /\ Printing(c) /\ Len(frames[c]) = depth[c] + 1
                THEN printed + 1 ELSE printed
  /\ UNCHANGED <<present, thr, lost, polled, PANICKING, reporter, depth, halted, calls>>

\* The rest of the system is finitely busy once a panic has begun.
Counted ==
  /\ PANICKING => calls < MaxCalls
  /\ calls' = IF PANICKING THEN calls + 1 ELSE calls
  /\ UNCHANGED <<PANICKING, reporter, printed, depth, halted>>

\* `with' is called, for CONSOLE by println!.
CallWith(c, l) ==
  /\ Running(c)
  /\ DisableIrq(c, l)
  /\ Counted
  /\ UNCHANGED uart

TakeInterrupt(c) ==
  /\ c \notin halted
  /\ Interrupt(c)
  /\ Counted
  /\ UNCHANGED uart

\* Serial::write_byte: read the line status until EMPTY_THR, then write the byte.
\* Mutant: the status is not looked at.
thr_any == TRUE
thr_empty == ~thr

Poll(c) ==
  /\ Running(c)
  /\ Printing(c)
  /\ left[c] > 0 /\ ~polled[c]
  /\ thr_empty
  /\ polled' = [polled EXCEPT ![c] = TRUE]
  /\ UNCHANGED <<vars, present, thr, lost, left, panics>>

WriteByte(c) ==
  /\ Running(c)
  /\ Printing(c) /\ polled[c]
  /\ lost' = (lost \/ thr)
  /\ thr' = TRUE
  /\ left' = [left EXCEPT ![c] = @ - 1]
  /\ polled' = [polled EXCEPT ![c] = FALSE]
  /\ UNCHANGED <<vars, present, panics>>

\* The UART sends the byte.
Send ==
  /\ thr
  /\ thr' = FALSE
  /\ UNCHANGED <<vars, present, lost, left, polled, panics>>

\* PANICKING.swap(true) returned false.  Mutant: the test is inverted.
swap_true == PANICKING
swap_false == ~PANICKING

\* handle_panic: the first one reports, the others halt.  Code panics outside all
\* calls, in a handler or in a closure, that of println! (which formats) included.
Panic(c) ==
  /\ Running(c)
  /\ ~Busy(c) \/ At(c, "handler") \/ At(c, "held")
  /\ depth' = [depth EXCEPT ![c] = Len(frames[c])]
  /\ PANICKING' = TRUE
  /\ reporter' = IF swap_false THEN c ELSE reporter
  /\ IF swap_false
     THEN UNCHANGED <<halted, irq, base>>
     ELSE /\ halted' = halted \union {c}
          /\ irq' = [irq EXCEPT ![c] = FALSE]
          /\ base' = [base EXCEPT ![c] = FALSE]
  /\ UNCHANGED <<locked, disable_count, frames, uart, printed, calls>>

\* The next line of the report: println! from the panic handler.
ReportLine(c) ==
  /\ Reporting(c)
  /\ printed < ReportLines
  /\ irq_disable(c)
  /\ frames' = [frames EXCEPT ![c] = Append(@, With(CONSOLE, irq[c], "off"))]
  /\ UNCHANGED <<locked, disable_count, base, uart, panics>>

\* cpu::halt: cli, and hlt for ever.
Halt(c) ==
  /\ Reporting(c)
  /\ printed = ReportLines
  /\ halted' = halted \union {c}
  /\ irq' = [irq EXCEPT ![c] = FALSE]
  /\ base' = [base EXCEPT ![c] = FALSE]
  /\ UNCHANGED <<locked, disable_count, frames, uart, PANICKING, reporter, printed, depth, calls>>

Advance(c) == LockStep(c) \/ Poll(c) \/ WriteByte(c) \/ ReportLine(c) \/ Halt(c)

ConsoleNext ==
  \/ \E c \in Cpus :
       \/ Advance(c)
       \/ \E l \in Locks : CallWith(c, l)
       \/ TakeInterrupt(c)
       \/ Panic(c)
  \/ Send

ConsoleSpec == ConsoleInit /\ [][ConsoleNext]_consoleVars
-----------------------------------------------------------------------------
\* Every byte of every line reaches the line: write_byte's check and its write are
\* two accesses, which the CONSOLE lock, held to the end of the line and with
\* interrupts off, makes one.
NoByteLost == ~lost /\ \A c \in Cpus : left[c] > 0 => Printing(c) \/ depth[c] >= 0

\* RawSpinLock::lock never waits for its own processor, directly (a handler that
\* takes a lock its processor was holding when it was interrupted) or through
\* others (locks nested in opposite orders).  The one exception is the panic
\* handler's println!, when the panic came from inside println!: that processor waits
\* for itself, and others may wait for it.
NoWaitCycle ==
  \A S \in SUBSET Cpus :
    Deadlocked(S) => \E c \in S : <<c, c>> \in WaitsFor /\ CONSOLE \in Kept(c)

\* A panic is reported in full, although it may strike inside any lock, on several
\* processors at once and while other processors print: the handler gets CONSOLE
\* for each of its lines.  Only two things keep it from that, because handle_panic
\* leaves interrupts on and locks taken: a second panic of its own processor, in a
\* handler or in println!, and a lock that a processor stopped by a panic keeps.
PanicReported ==
  PANICKING ~> \/ printed = ReportLines
               \/ reporter \in halted
               \/ \E c \in Cpus : reporter # None /\ At(reporter, "spin") /\ Top(reporter).lock \in Kept(c)
=============================================================================
