------------------------------- MODULE MCBoot -------------------------------
(* The instance of the loader and the boot-time memory code that TLC checks. *)
EXTENDS MmInit

PHeader(ty, phys, off, filesz, memsz, align) ==
  [ty |-> ty, phys_addr |-> phys, off |-> off, file_size |-> filesz, mem_size |-> memsz,
   align |-> align]
File(valid, length, ent, pheaders) ==
  [valid |-> valid, length |-> length, entry |-> ent, pheaders |-> pheaders]

\* Two segments out of order, a page each, with half a page of bss, and a note.
Text == PHeader("LOAD", 4, 1, 2, 2, 2)
Data == PHeader("LOAD", 6, 3, 1, 2, 2)
Note == PHeader("NOTE", 9, 0, 1, 1, 4)
Kernel == File(TRUE, 4, 5, <<Data, Note, Text>>)

\* The kernel's file, and files that the loader refuses, each for another reason.
MCElfFiles ==
  {Kernel,
   [Kernel EXCEPT !.valid = FALSE],
   [Kernel EXCEPT !.entry = 9],
   [Kernel EXCEPT !.length = 3],
   [Kernel EXCEPT !.pheaders = <<>>],
   [Kernel EXCEPT !.pheaders[3].align = 4],
   [Kernel EXCEPT !.pheaders[1].phys_addr = 7],
   [Kernel EXCEPT !.pheaders[1].file_size = 3]}
=============================================================================
