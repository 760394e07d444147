------------------------------- MODULE Contexts -------------------------------
(***************************************************************************)
(* Register contexts and stacks of one processor, instruction by           *)
(* instruction where the kernel is assembly (arch/x86_64/context.s and     *)
(* interrupt.s with the Rust around them): the switch between threads, the *)
(* first entry of a thread, and the way into and out of an interrupt.      *)
(* Non-maskable interrupts come between any two instructions, the others   *)
(* when the interrupt flag is set; a page fault handler turns interrupts   *)
(* back on, faults again and is switched out.                              *)
(*                                                                         *)
(* A stack is the sequence of the 8-byte words pushed on it; what lies     *)
(* below the stack pointer is not kept.  A word is a tuple headed by what  *)
(* it is.  Which thread is switched to is the scheduler's business         *)
(* (Sched), as is a switch of a thread to itself, which is left out here.  *)
(***************************************************************************)
EXTENDS Descriptors, SequencesExt

CONSTANTS
  Kthreads,     \* threads, each of which is also the name of its stack
  FaultAddrs,   \* addresses that page faults are about
  StackWords    \* bound on the words of a stack that is in use

VARIABLES
  rip,          \* where the processor is: <<"rip", code, step, vector>>
  regs,         \* the general registers
  rsp,          \* <<"rsp", stack, words on it>>
  words,        \* words[s]: the words of stack s
  iflag,        \* RFLAGS.IF
  cr2,          \* the address of the last page fault
  nmi_blocked,  \* the processor holds NMIs back until the next iretq
  context,      \* context[t]: ThreadContext::sp
  rsp0,         \* the stack in the TSS for entries from user mode
  dead,         \* threads that called exit_current
  resolved      \* what the last vm::page_fault was given, and what had faulted

ctxVars == <<rip, regs, rsp, words, iflag, cr2, nmi_blocked, context, rsp0, dead, resolved>>

IstNames == {"nmi_stack", "double_fault_stack"}
Stack == rsp[2]
Depth == rsp[3]
Callee == {"rbx", "rbp", "r12", "r13", "r14", "r15"}
Registers == Callee \cup {"rax", "rcx", "rdx", "rsi", "rdi", "r8", "r9", "r10", "r11"}

Zero == <<"zero">>
Garbage == <<"garbage">>
WordAt(s, d) == IF d \in DOMAIN words[s] THEN words[s][d] ELSE Garbage
Top == WordAt(Stack, Depth)

\* What Rust code whose frame ends at depth d of stack s keeps in the registers.
Own(s, d) == [r \in Registers |-> <<"reg", s, d, r>>]

----------------------------------------------------------------------------
\* The assembly.
Pushes(rs) == [i \in DOMAIN rs |-> <<"push", <<rs[i]>> >>]
Pops(rs) == [i \in DOMAIN rs |-> <<"pop", <<rs[i]>> >>]

\* Mutant: rbp and r12 popped in the order they were pushed.
do_context_switch_swapped ==
  Pushes(<<"r15", "r14", "r13", "r12", "rbp", "rbx">>)
    \o << <<"save_rsp", "rdi">>, <<"load_rsp", "rsi">> >>
    \o Pops(<<"rbx", "r12", "rbp", "r13", "r14", "r15">>) \o << <<"ret">> >>

do_context_switch ==
  Pushes(<<"r15", "r14", "r13", "r12", "rbp", "rbx">>)
    \o << <<"save_rsp", "rdi">>, <<"load_rsp", "rsi">> >>
    \o Pops(<<"rbx", "rbp", "r12", "r13", "r14", "r15">>) \o << <<"ret">> >>

do_context_set ==
  << <<"load_rsp", "rdi">> >>
    \o Pops(<<"rbx", "rbp", "r12", "r13", "r14", "r15">>) \o << <<"ret">> >>

early_thread_start ==
  LET cleared == <<"rax", "rcx", "rdx", "rsi", "r8", "r9", "r10", "r11">>
  IN  [i \in DOMAIN cleared |-> <<"xor", cleared[i]>>] \o << <<"pop", <<"rdi">> >>, <<"ret">> >>

\* The pushes are one step here, and so are the pops: between them only an NMI can
\* come, on a stack of its own.
interrupt_entry_common ==
  << <<"push", <<"r15", "r14", "r13", "r12", "r11", "r10", "r9", "r8", "rbp", "rdi", "rsi", "rdx",
                 "rcx", "rbx", "rax">> >>,
     <<"mov_rsp", "rdi">>, <<"call">>,
     <<"pop", <<"rax", "rbx", "rcx", "rdx", "rsi", "rdi", "rbp", "r8", "r9", "r10", "r11", "r12",
                "r13", "r14", "r15">> >>,
     <<"add_rsp">>, <<"iretq">> >>

has_error_code(vector) == vector \in {8, 10, 11, 12, 13, 14, 17}

interrupt_stub(vector) ==
  (IF has_error_code(vector) THEN <<>> ELSE << <<"push_code">> >>)
    \o << <<"push_vector">> >> \o interrupt_entry_common

interrupt_vector == [v \in Vectors |-> interrupt_stub(v)]

Code(at) ==
  CASE at[2] = "switch" -> do_context_switch
    [] at[2] = "set" -> do_context_set
    [] at[2] = "early" -> early_thread_start
    [] at[2] = "stub" -> interrupt_vector[at[4]]
    [] OTHER -> <<>>

At(code) == <<"rip", code, 1, 0>>
Following == [rip EXCEPT ![3] = @ + 1]
Running(code) == rip[2] = code
Instruction == IF rip[3] \in DOMAIN Code(rip) THEN Code(rip)[rip[3]] ELSE <<"rust">>

\* The stack pointer moves up by n words; what it leaves is lost.
Drop(n) ==
  /\ rsp' = [rsp EXCEPT ![3] = @ - n]
  /\ words' = [words EXCEPT ![Stack] = SubSeq(@, 1, Depth - n)]

PushWords(ws) ==
  /\ rsp' = [rsp EXCEPT ![3] = @ + Len(ws)]
  /\ words' = [words EXCEPT ![Stack] = @ \o ws]

Push ==
  /\ Instruction[1] \in {"push", "push_code", "push_vector"}
  /\ PushWords(CASE Instruction[1] = "push" -> [i \in DOMAIN Instruction[2] |-> regs[Instruction[2][i]]]
                 [] Instruction[1] = "push_code" -> << <<"error_code", "none">> >>
                 [] OTHER -> << <<"vector", rip[4]>> >>)
  /\ rip' = Following
  /\ UNCHANGED <<regs, iflag, cr2, nmi_blocked, context, rsp0, dead, resolved>>

Pop ==
  /\ Instruction[1] = "pop"
  /\ LET popped == Instruction[2]
     IN  /\ regs' = [r \in Registers |->
                        IF r \in ToSet(popped)
                        THEN WordAt(Stack, Depth + 1 - CHOOSE i \in DOMAIN popped : popped[i] = r)
                        ELSE regs[r]]
         /\ Drop(Len(popped))
  /\ rip' = Following
  /\ UNCHANGED <<iflag, cr2, nmi_blocked, context, rsp0, dead, resolved>>

SetRegister ==
  /\ Instruction[1] \in {"xor", "mov_rsp"}
  /\ regs' = [regs EXCEPT ![Instruction[2]] = IF Instruction[1] = "xor" THEN Zero ELSE rsp]
  /\ rip' = Following
  /\ UNCHANGED <<rsp, words, iflag, cr2, nmi_blocked, context, rsp0, dead, resolved>>

\* mov [rdi], rsp: the first argument points to the old thread's sp.
SaveRsp ==
  /\ Instruction[1] = "save_rsp"
  /\ context' = [context EXCEPT ![regs[Instruction[2]][2]] = rsp]
  /\ rip' = Following
  /\ UNCHANGED <<regs, rsp, words, iflag, cr2, nmi_blocked, rsp0, dead, resolved>>

LoadRsp ==
  /\ Instruction[1] = "load_rsp"
  /\ rsp' = regs[Instruction[2]]
  /\ rip' = Following
  /\ UNCHANGED <<regs, words, iflag, cr2, nmi_blocked, context, rsp0, dead, resolved>>

Ret ==
  /\ Instruction[1] = "ret"
  /\ rip' = Top
  /\ Drop(1)
  /\ UNCHANGED <<regs, iflag, cr2, nmi_blocked, context, rsp0, dead, resolved>>

\* call handle_interrupt
Call ==
  /\ Instruction[1] = "call"
  /\ PushWords(<<Following>>)
  /\ rip' = <<"rip", "handle_interrupt", 1, rip[4]>>
  /\ UNCHANGED <<regs, iflag, cr2, nmi_blocked, context, rsp0, dead, resolved>>

AddRsp ==
  /\ Instruction[1] = "add_rsp"
  /\ Drop(2)
  /\ rip' = Following
  /\ UNCHANGED <<regs, iflag, cr2, nmi_blocked, context, rsp0, dead, resolved>>

\* The processor pops rip, cs, rflags, rsp and ss, whatever is there.
Iretq ==
  /\ Instruction[1] = "iretq"
  /\ rip' = Top
  /\ iflag' = (WordAt(Stack, Depth - 2) = <<"rflags", TRUE>>)
  /\ rsp' = WordAt(Stack, Depth - 3)
  /\ words' = LET back == WordAt(Stack, Depth - 3)
              IN  IF back[2] = Stack THEN [words EXCEPT ![Stack] = SubSeq(@, 1, back[3])]
                                     ELSE [words EXCEPT ![Stack] = <<>>]
  /\ nmi_blocked' = FALSE
  /\ UNCHANGED <<regs, cr2, context, rsp0, dead, resolved>>

----------------------------------------------------------------------------
\* An interrupt or exception is delivered: through the gate of the vector the
\* processor finds the stub and the stack, aligns the stack pointer to 16 bytes and
\* pushes where it was.  A gate it cannot use, or a stack with no room, is a triple fault.
CpuPushesCode(vector) == vector \in {8, 10, 11, 12, 13, 14, 17}

\* What the processor finds in the tables: the stub a gate leads to, if it is a gate,
\* and the stack it names, if the task state segment is one.
GateStub ==
  [v \in Vectors |->
     {u \in Vectors : entry_point(u) = GateOffset(Idt[v]) /\ GateGood(Idt[v], Gdt(tss_addr))}]
IstStack ==
  [v \in Vectors |->
     IF TaskGood(Gdt(tss_addr)) /\ TaskBase(Gdt(tss_addr)) = tss_addr
     THEN (<<"none">> \o IstStacks)[GateIst(Idt[v]) + 1] ELSE "none"]

Deliver(vector, code, from) ==
  LET base == CASE GateIst(Idt[vector]) # 0 -> <<IstStack[vector], <<>>>>
                [] GateIst(Idt[vector]) = 0 ->
                     IF from[3] <= StackWords THEN <<Stack, words[Stack]>> ELSE <<"none", <<>>>>
      aligned == IF Len(base[2]) % 2 = 0 THEN base[2] ELSE Append(base[2], Garbage)
      frame == << <<"ss">>, from, <<"rflags", iflag>>, <<"cs">>, rip >>
                 \o (IF CpuPushesCode(vector) THEN << <<"error_code", code>> >> ELSE <<>>)
  IN  /\ words' = [words EXCEPT ![base[1]] = aligned \o frame]
      /\ rsp' = <<"rsp", base[1], Len(aligned) + Len(frame)>>
      /\ rip' = IF base[1] = "none" \/ GateStub[vector] = {} THEN At("triple_fault")
                ELSE <<"rip", "stub", 1, CHOOSE v \in GateStub[vector] : TRUE>>
      /\ iflag' = FALSE
      /\ UNCHANGED <<regs, context, rsp0, dead, resolved>>

Stopped == rip[2] \in {"panic", "triple_fault"}
\* Rust code that faults or is interrupted anywhere.
InRust == rip[2] \in {"thread", "resolve"}
Room == Depth + 26 <= StackWords

Irq == InRust /\ iflag /\ Room /\ Deliver(32, "none", rsp) /\ UNCHANGED <<cr2, nmi_blocked>>

Nmi ==
  /\ ~Stopped /\ ~nmi_blocked
  /\ Deliver(VECTOR_NMI, "none", rsp)
  /\ nmi_blocked' = TRUE
  /\ UNCHANGED cr2

PageFault(a) ==
  /\ InRust /\ Room
  /\ Deliver(VECTOR_PAGE_FAULT, a, rsp)
  /\ cr2' = a
  /\ UNCHANGED nmi_blocked

Exception ==
  /\ InRust /\ Room
  /\ Deliver(VECTOR_GP_FAULT, "zero", rsp)
  /\ UNCHANGED <<cr2, nmi_blocked>>

\* The thread runs into its guard page: there is nowhere to push the page fault.
Overflow(a) ==
  /\ InRust
  /\ Deliver(VECTOR_DOUBLE_FAULT, "zero", <<"rsp", Stack, StackWords + 1>>)
  /\ cr2' = a
  /\ UNCHANGED nmi_blocked

----------------------------------------------------------------------------
\* handle_interrupt, entered with rdi pointing to the frame.
InterruptFrame ==
  <<"rax", "rbx", "rcx", "rdx", "rsi", "rdi", "rbp", "r8", "r9", "r10", "r11", "r12", "r13", "r14",
    "r15", "vector", "error_code", "rip", "cs", "rflags", "rsp", "ss">>
FieldOf(frame, f) ==
  WordAt(frame[2], frame[3] + 1 - CHOOSE i \in DOMAIN InterruptFrame : InterruptFrame[i] = f)

\* The prologue of a Rust function keeps the callee-saved registers in its frame;
\* extra is what else the function holds there.
Prologue(extra) ==
  /\ PushWords(<< <<"frame", [r \in Callee |-> regs[r]], extra>> >>)
  /\ regs' = Own(Stack, Depth + 1)

\* Up to where the handler leaves or, for a page fault it can handle, up to irq::enable
\* in handle_page_fault.  Rescheduling is never disabled where code faults here; Sched and
\* SpinLock have the counter.
HandleInterrupt ==
  LET frame == regs["rdi"]
      vector == FieldOf(frame, "vector")[2]
      code == FieldOf(frame, "error_code")[2]
  IN  /\ Running("handle_interrupt")
      /\ \/ /\ vector = VECTOR_NMI \/ vector >= 32
            /\ rip' = At("leave")
            /\ UNCHANGED iflag
         \/ /\ vector = VECTOR_PAGE_FAULT /\ FieldOf(frame, "rflags") = <<"rflags", TRUE>>
            /\ rip' = At("resolve")
            /\ iflag' = TRUE
         \/ /\ vector # VECTOR_NMI /\ vector < 32
            /\ vector = VECTOR_PAGE_FAULT => FieldOf(frame, "rflags") # <<"rflags", TRUE>>
            /\ rip' = At("panic")
            /\ UNCHANGED iflag
      /\ Prologue(<<cr2, code>>)
      /\ UNCHANGED <<cr2, nmi_blocked, context, rsp0, dead, resolved>>

\* Mutant: CR2 is read where the address is used.
fault_address_late == cr2

\* The address that handle_page_fault passes on is the one it read on entry.
fault_address == Top[3][1]

\* vm::page_fault returns, and interrupts are turned off again; or it fails, a panic.
Resolve ==
  /\ Running("resolve")
  /\ resolved' = <<fault_address, Top[3][2]>>
  /\ iflag' = FALSE
  /\ rip' \in {At("leave"), At("panic")}
  /\ UNCHANGED <<regs, rsp, words, cr2, nmi_blocked, context, rsp0, dead>>

\* The epilogue, and the return to the stub.
Leave ==
  /\ Running("leave")
  /\ regs' = [r \in Registers |-> IF r \in Callee THEN Top[2][r] ELSE regs[r]]
  /\ rip' = WordAt(Stack, Depth - 1)
  /\ Drop(2)
  /\ UNCHANGED <<iflag, cr2, nmi_blocked, context, rsp0, dead, resolved>>

----------------------------------------------------------------------------
\* context::switch, called with interrupts off from schedule_common: the arguments are
\* the address of the old thread's sp and the value of the new one's.
Switch(old, new, back) ==
  /\ regs' = [regs EXCEPT !["rdi"] = <<"sp_of", old>>, !["rsi"] = context[new]]
  /\ PushWords(<<At(back)>>)
  /\ rsp0' = new
  /\ iflag' = FALSE
  /\ rip' = At("switch")
  /\ UNCHANGED <<cr2, nmi_blocked, context, resolved>>

Candidates == Kthreads \ (dead \cup {Stack})

\* A reschedule when the end of a guard finds one pending: in thread code, or in
\* vm::page_fault where it calls Thread::current.
Reschedule ==
  /\ InRust /\ Room
  /\ \E new \in Candidates :
       Switch(Stack, new, IF Running("thread") THEN "thread_back" ELSE "resolve_back")
  /\ UNCHANGED dead

\* exit_current
ExitThread ==
  /\ Running("thread")
  /\ \E new \in Candidates : Switch(Stack, new, "unreachable")
  /\ dead' = dead \cup {Stack}

\* complete_context_switch_handoff, on the new stack: the thread that exited is dropped
\* with its stack.  Interrupts stay off.
FreeDead == [s \in DOMAIN words |-> IF s \in dead THEN <<>> ELSE words[s]]

Back ==
  /\ rip[2] \in {"thread_back", "resolve_back"}
  /\ words' = FreeDead
  /\ regs' = Own(Stack, Depth)
  /\ rip' = At(IF Running("thread_back") THEN "thread" ELSE "resolve")
  /\ UNCHANGED <<rsp, iflag, cr2, nmi_blocked, context, rsp0, dead, resolved>>

\* thread_entry: the handoff is completed and interrupts go on.
ThreadEntry ==
  /\ Running("thread_entry")
  /\ words' = [FreeDead EXCEPT ![Stack] = Append(@, <<"frame", [r \in Callee |-> regs[r]], <<>> >>)]
  /\ rsp' = [rsp EXCEPT ![3] = @ + 1]
  /\ regs' = Own(Stack, Depth + 1)
  /\ iflag' = TRUE
  /\ rip' = At("thread")
  /\ UNCHANGED <<cr2, nmi_blocked, context, rsp0, dead, resolved>>

----------------------------------------------------------------------------
\* push_data: size words, the stack pointer aligned down to align words.
push_data(stack, data, align) ==
  LET room == Len(stack) + Len(data)
      pad == (align - (room % align)) % align
  IN  stack \o [i \in 1..pad |-> Garbage] \o data

\* A structure's fields from the lowest address up; pushed, the last field is first.
InactiveKernelFrame == <<"rbx", "rbp", "r12", "r13", "r14", "r15", "rip">>
NewFrame ==
  [i \in DOMAIN InactiveKernelFrame |->
     IF InactiveKernelFrame[i] = "rip" THEN At("early") ELSE Zero]

\* ThreadContext::new
NewStack(t) ==
  LET entry == push_data(<<>>, <<At("thread_entry")>>, 2)
      arg == push_data(entry, << <<"arg", t>> >>, 1)
  IN  push_data(arg, Reverse(NewFrame), 1)

\* The bootstrap processor has its tables loaded and calls context::set for the first
\* thread, still on its boot stack.
ContextsInit ==
  /\ words = [s \in Kthreads \cup IstNames \cup {"boot"} |->
                IF s \in Kthreads THEN NewStack(s) ELSE <<>>]
  /\ context = [t \in Kthreads |-> <<"rsp", t, Len(NewStack(t))>>]
  /\ rsp = <<"rsp", "boot", 0>>
  /\ \E t \in Kthreads :
       /\ regs = [Own("boot", 0) EXCEPT !["rdi"] = context[t]]
       /\ rsp0 = t
  /\ rip = At("set")
  /\ iflag = FALSE
  /\ cr2 = "none"
  /\ nmi_blocked = FALSE
  /\ dead = {}
  /\ resolved = <<"none", "none">>

Execute ==
  Push \/ Pop \/ SetRegister \/ SaveRsp \/ LoadRsp \/ Ret \/ Call \/ AddRsp \/ Iretq

ContextsNext ==
  \/ Execute
  \/ Irq \/ Nmi \/ Exception
  \/ \E a \in FaultAddrs : PageFault(a) \/ Overflow(a)
  \/ HandleInterrupt \/ Resolve \/ Leave
  \/ Reschedule \/ ExitThread \/ Back \/ ThreadEntry

ContextsSpec == ContextsInit /\ [][ContextsNext]_ctxVars
----------------------------------------------------------------------------
\* Rust code finds its registers and its stack as it left them, however often it was
\* switched out and interrupted in between: all registers after an interrupt, the
\* callee-saved ones after context::switch ("giving the effect of a blocking function
\* call", context.rs:79).  A thread starts with its argument, everything else cleared and
\* the stack 8 bytes off alignment (context.rs:61); handle_interrupt gets an aligned stack
\* (interrupt.s:23) and a frame whose fields are what they are called; the TSS names the
\* stack of the thread that runs; and every exception finds its handler, that of a thread
\* which runs into its guard page included.
ContextsKept ==
  /\ rip[1] = "rip" /\ rip[2] \notin {"triple_fault", "unreachable"}
  /\ rsp[1] = "rsp" /\ Len(words[Stack]) = Depth
  /\ rip[2] \in {"thread", "resolve"} => regs = Own(Stack, Depth) /\ rsp0 = Stack
  /\ rip[2] \in {"thread_back", "resolve_back"} =>
       \A r \in Callee : regs[r] = Own(Stack, Depth)[r]
  /\ rip[2] \in {"thread", "thread_back"} => Depth = 2
  /\ rip[2] \in {"resolve", "resolve_back", "leave"} => Top[1] = "frame"
  /\ Running("thread_entry") =>
       /\ Depth % 2 = 1
       /\ regs = [r \in Registers |-> IF r = "rdi" THEN <<"arg", Stack>> ELSE Zero]
  /\ Running("handle_interrupt") =>
       /\ Depth % 2 = 1
       /\ \A r \in Registers \ {"rdi"} : FieldOf(regs["rdi"], r) = regs[r]
       /\ \A f \in ToSet(InterruptFrame) \ Registers : FieldOf(regs["rdi"], f)[1] = f

\* The address a page fault is resolved at is the one that the access with this error
\* code faulted on, although interrupts are on again and another thread may have faulted
\* in the meantime (interrupt.rs:122).
FaultsPaired == resolved[1] = resolved[2]
===============================================================================
