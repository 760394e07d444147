------------------------------- MODULE Loader -------------------------------
(***************************************************************************)
(* The EFI loader (efiboot): it reads the kernel's ELF file into memory,   *)
(* prepares the boot information, leaves the firmware and starts the       *)
(* kernel.  The loader is a straight line of calls to the firmware, each   *)
(* of which can fail, but the firmware goes on running beside it: until    *)
(* exit_boot_services it may allocate and free memory, and the memory map  *)
(* that the loader holds may be out of date.                               *)
(*                                                                         *)
(* Frames are those of a small memory.  Addresses and sizes in the ELF     *)
(* file are in units of half a page; bytes are counted in the boot         *)
(* information only.                                                       *)
(***************************************************************************)
EXTENDS BootInfo

CONSTANTS
  FrameCount,            \* frames of memory
  AllocFloor,            \* the firmware allocates frames from here on
  PAGE_SIZE,
  BOOTINFO_FIXED_SIZE,
  MMAP_EXTRA_ENTRIES,
  ElfFiles,              \* what the file "kernel" may hold
  CommandLines,          \* lengths of the file "cmdline"; None if there is no such file
  Modes,                 \* the pixel formats of the graphics output; None if there is none
  MaxChanges,            \* bound on changes of the map once its size is known
  None

ASSUME ChangesAssumption == MaxChanges \in Nat

VARIABLES
  types,         \* the firmware's memory: the type of every frame
  changes,       \* how often the firmware changed it since; the key of the map
  pc,            \* the next step of the loader; "entered", "failed" or "panic" at its end
  elf,           \* the kernel's file
  segments,      \* segments still to load
  image,         \* what the units of the kernel's pages hold
  kimage,        \* the frames of the kernel's pages
  entry,         \* the address of the kernel's entry point
  command_line,  \* the length of the command line, or None
  framebuffer,
  max_mmap_entries,
  buffer,        \* the frames of the boot information's buffer
  builder,
  mmap           \* the key and the descriptors last read, then the ranges made of them

firmware == <<types, changes>>
kernel == <<elf, segments, image, kimage, entry>>
info == <<command_line, framebuffer, max_mmap_entries, buffer, builder>>
loaderVars == <<firmware, pc, kernel, info, mmap>>

AllFrames == 0 .. FrameCount - 1
Span(s, e) == [start |-> s, end |-> e]
Spans == [start : 0 .. FrameCount, end : 0 .. FrameCount]
FramesOf(r) == r.start .. r.end - 1
div_ceil(n, m) == (n + m - 1) \div m
-----------------------------------------------------------------------------
(***************************************************************************)
(* The firmware.                                                           *)
(***************************************************************************)

\* The memory map: here one descriptor for each maximal run of frames of one type.
Descriptors ==
  LET type(f) == IF f \in AllFrames THEN types[f] ELSE None
      runs == {r \in Spans :
                 /\ r.start < r.end
                 /\ \A f \in FramesOf(r) : type(f) = type(r.start)
                 /\ type(r.start - 1) # type(r.start)
                 /\ type(r.end) # type(r.start)}
  IN {[start |-> r.start, end |-> r.end, type |-> types[r.start]] : r \in runs}

\* alloc_pages with AllocMode::Any: any free run will do.
FreeRuns(pages) ==
  {Span(s, s + pages) : s \in {t \in AllFrames \ 0 .. AllocFloor - 1 : \A f \in t .. t + pages - 1 :
                                 f \in AllFrames /\ types[f] = "CONVENTIONAL"}}
Allocated(run) == [f \in AllFrames |-> IF f \in FramesOf(run) THEN "LOADER_DATA" ELSE types[f]]

\* A timer or a driver of the firmware takes a frame, or gives one back.
FirmwareChange(f) ==
  /\ pc \in {"getmap", "exit"}
  /\ changes < MaxChanges
  /\ types[f] \in {"CONVENTIONAL", "BOOT_SERVICES_DATA"}
  /\ types' = [types EXCEPT ![f] =
                 IF @ = "CONVENTIONAL" THEN "BOOT_SERVICES_DATA" ELSE "CONVENTIONAL"]
  /\ changes' = changes + 1
  /\ UNCHANGED <<pc, kernel, info, mmap>>
-----------------------------------------------------------------------------
(***************************************************************************)
(* load_kernel.  An error is returned to the firmware; what was opened is  *)
(* closed and what was allocated stays allocated.                          *)
(***************************************************************************)

\* Any call fails.
Fail ==
  /\ pc \in {"open", "header", "load", "segments", "prepare", "getmap", "exit"}
  /\ pc' = "failed"
  /\ UNCHANGED <<firmware, kernel, info, mmap>>

\* The protocols, the volume, the directory and the kernel's file are opened.
Open(file) ==
  /\ pc = "open"
  /\ elf' = file
  /\ pc' = "header"
  /\ UNCHANGED <<firmware, segments, image, kimage, entry, info, mmap>>

is_valid(header) == header.valid

\* read_header and read_pheaders.
ReadHeaders ==
  /\ pc = "header"
  /\ is_valid(elf)
  /\ pc' = "load"
  /\ UNCHANGED <<firmware, kernel, info, mmap>>

PageUnits == 2
IsLoad(pheader) == pheader.ty = "LOAD"
loadable == SelectSeq(elf.pheaders, IsLoad)
UnitsOf(pheader) == pheader.phys_addr .. pheader.phys_addr + pheader.mem_size - 1
entry_covered == \E p \in ToSet(loadable) : elf.entry \in UnitsOf(p)
min_paddr == Min({p.phys_addr : p \in ToSet(loadable)})
max_paddr == Max({p.phys_addr + p.mem_size : p \in ToSet(loadable)})

\* load_elf, up to the loop over the segments.
LoadElf ==
  /\ pc = "load"
  /\ entry_covered
  /\ \A p \in ToSet(loadable) : p.align <= PageUnits
  /\ \E run \in FreeRuns(div_ceil(max_paddr - min_paddr, PageUnits)) :
       /\ types' = Allocated(run)
       /\ kimage' = run
       /\ image' = [u \in 0 .. PageUnits * (run.end - run.start) - 1 |-> <<"uninit">>]
       /\ entry' = PageUnits * run.start + elf.entry - min_paddr
  /\ segments' = loadable
  /\ pc' = "segments"
  /\ UNCHANGED <<changes, elf, info, mmap>>

\* load_segment: the file's part is read, the rest is cleared.
bss_cleared(pheader, u) ==
  u \in pheader.phys_addr - min_paddr + pheader.file_size ..
        pheader.phys_addr - min_paddr + pheader.mem_size - 1

\* read_exact fails at the end of the file.
reads_exact(off, size) == off + size <= elf.length

LoadSegment ==
  /\ pc = "segments"
  /\ segments # <<>>
  /\ LET p == Head(segments)
         phys_off == p.phys_addr - min_paddr
     IN
     /\ p.phys_addr % PageUnits = 0
     /\ p.file_size <= p.mem_size
     /\ reads_exact(p.off, p.file_size)
     /\ image' = [u \in DOMAIN image |->
                    IF u \in phys_off .. phys_off + p.file_size - 1 THEN <<"file", p.off + u - phys_off>>
                    ELSE IF bss_cleared(p, u) THEN <<"zero">>
                    ELSE image[u]]
  /\ segments' = Tail(segments)
  /\ UNCHANGED <<firmware, pc, elf, kimage, entry, info, mmap>>

\* load_command_line: NOT_FOUND is no error.
LoadCommandLine(len) ==
  /\ pc = "segments"
  /\ segments = <<>>
  /\ command_line' = len
  /\ pc' = "prepare"
  /\ UNCHANGED <<firmware, kernel, framebuffer, max_mmap_entries, buffer, builder, mmap>>
-----------------------------------------------------------------------------
(***************************************************************************)
(* prepare_bootinfo, exit_boot_services and the start of the kernel.       *)
(***************************************************************************)

\* append_bootinfo, if there is something to append; None for OUT_OF_RESOURCES.
appended(b, kind, val, count) ==
  IF b = None \/ val = None THEN b
  ELSE IF HasRoom(b, kind, count) THEN append_slice(b, kind, val, count)
  ELSE None

\* Only these formats are known to the kernel.
get_framebuffer(mode) == IF mode \in {"Rgb", "Bgr"} THEN mode ELSE None

mmap_entries == Cardinality(Descriptors)

\* The size that make_bootinfo_builder asks for.  Mutant: the map's part is left out.
without_entries(entries) == BOOTINFO_FIXED_SIZE
bootinfo_bytes(entries) == BOOTINFO_FIXED_SIZE + entries * SizeOf["MEMORY_MAP"]

PrepareBootinfo(mode) ==
  /\ pc = "prepare"
  /\ framebuffer' = get_framebuffer(mode)
  /\ max_mmap_entries' = mmap_entries + MMAP_EXTRA_ENTRIES
  /\ \E run \in FreeRuns(div_ceil(bootinfo_bytes(max_mmap_entries'), PAGE_SIZE)) :
       /\ types' = Allocated(run)
       /\ buffer' = run
       /\ LET b == Builder(PAGE_SIZE * (run.end - run.start))
          IN builder' = appended(appended(b, "FRAMEBUFFER", framebuffer', 1),
                                 "COMMAND_LINE", command_line, command_line)
  /\ builder' # None
  /\ pc' = "getmap"
  /\ UNCHANGED <<changes, kernel, command_line, mmap>>

\* What memory_map fills the buffer with.  Mutant: on a retry, what it held.
old_map == IF mmap = None THEN Descriptors ELSE mmap.map
new_map == Descriptors

\* memory_map, at the head of the loop of exit_boot_services.
GetMap ==
  /\ pc = "getmap"
  /\ mmap_entries <= max_mmap_entries
  /\ mmap' = [key |-> changes, map |-> new_map]
  /\ pc' = "exit"
  /\ UNCHANGED <<firmware, kernel, info>>

\* The firmware refuses to go if the map has changed; the loop reads it again.
ExitBootServices ==
  /\ pc = "exit"
  /\ pc' = IF mmap.key = changes THEN "convert" ELSE "getmap"
  /\ UNCHANGED <<firmware, kernel, info, mmap>>

mem_kind_from_efi(type) ==
  CASE type \in {"CONVENTIONAL", "BOOT_SERVICES_CODE", "LOADER_CODE", "LOADER_DATA"} -> "USABLE"
    [] type = "UNUSABLE" -> "UNUSABLE"
    [] type = "ACPI_RECLAIM" -> "ACPI_TABLES"
    [] type = "BOOT_SERVICES_DATA" -> "FIRMWARE_BOOT"
    [] type \in {"RUNTIME_SERVICES_CODE", "RUNTIME_SERVICES_DATA"} -> "FIRMWARE_RUNTIME"
    [] OTHER -> "RESERVED"

\* Sorted by start.
Before(q, r) == q.start < r.start \/ (q.start = r.start /\ q.end < r.end)
SortSpans(S) ==
  [i \in 1 .. Cardinality(S) |-> CHOOSE r \in S : Cardinality({q \in S : Before(q, r)}) = i - 1]

\* From here on there is no firmware to return to: an error is a panic.  The table
\* is appended, and append_mmap converts and sorts the map.
ConvertMap ==
  /\ pc = "convert"
  /\ IF HasRoom(builder, "EFI_SYSTEM_TABLE", 1)
     THEN /\ builder' = append(builder, "EFI_SYSTEM_TABLE", "table")
          /\ mmap' = SortSpans({[start |-> d.start, end |-> d.end,
                                 kind |-> mem_kind_from_efi(d.type)] : d \in mmap.map})
          /\ pc' = "coalesce"
     ELSE pc' = "panic" /\ UNCHANGED <<builder, mmap>>
  /\ UNCHANGED <<firmware, kernel, command_line, framebuffer, max_mmap_entries, buffer>>

\* Ranges of one kind that touch are merged, each into the one before.
mergeable(base, r) == base.kind = r.kind /\ base.end = r.start
coalesce_mmap(ranges) ==
  LET kept == {i \in DOMAIN ranges : i = 1 \/ ~mergeable(ranges[i - 1], ranges[i])}
      last(i) == Min({k \in kept : k > i} \union {Len(ranges) + 1}) - 1
  IN SortSpans({[ranges[i] EXCEPT !.end = ranges[last(i)].end] : i \in kept})

\* The rest of append_mmap, finish, and the jump to the kernel's entry point.
EnterKernel ==
  /\ pc = "coalesce"
  /\ mmap' = coalesce_mmap(mmap)
  /\ IF HasRoom(builder, "MEMORY_MAP", Len(mmap'))
     THEN /\ builder' = append_slice(builder, "MEMORY_MAP", mmap', Len(mmap'))
          /\ pc' = "entered"
     ELSE pc' = "panic" /\ UNCHANGED builder
  /\ UNCHANGED <<firmware, kernel, command_line, framebuffer, max_mmap_entries, buffer>>
-----------------------------------------------------------------------------
LoaderInit ==
  /\ types \in [AllFrames -> {"CONVENTIONAL", "BOOT_SERVICES_DATA", "RESERVED"}]
  /\ changes = 0
  /\ pc = "open"
  /\ elf = None
  /\ segments = <<>>
  /\ image = <<>>
  /\ kimage = Span(0, 0)
  /\ entry = 0
  /\ command_line = None
  /\ framebuffer = None
  /\ max_mmap_entries = 0
  /\ buffer = Span(0, 0)
  /\ builder = None
  /\ mmap = None

LoaderNext ==
  \/ \E file \in ElfFiles : Open(file)
  \/ ReadHeaders
  \/ LoadElf
  \/ LoadSegment
  \/ \E len \in CommandLines : LoadCommandLine(len)
  \/ \E mode \in Modes : PrepareBootinfo(mode)
  \/ GetMap
  \/ ExitBootServices
  \/ ConvertMap
  \/ EnterKernel
  \/ Fail
  \/ \E f \in AllFrames : FirmwareChange(f)
-----------------------------------------------------------------------------
view == finish(builder)

\* What each unit of a loaded segment must hold.
UnitLoaded(p, u) ==
  image[u - min_paddr] =
    IF u < p.phys_addr + p.file_size THEN <<"file", p.off + u - p.phys_addr>> ELSE <<"zero">>

\* The kernel is entered with what the loader promised it.  Every item comes back
\* out of the buffer as it went in, though the builder pads before an item and the
\* view after one.  The memory map tells the kind of every frame as it was when the
\* firmware let go, sorted and with no two entries to merge, though the firmware
\* may have changed it between reading it and leaving.  The segments of the ELF file
\* are in place, cleared where the file has nothing, and the entry point is theirs.
HandedOver ==
  pc = "entered" =>
    /\ CanParse(view)
    /\ parse(view, None) =
         [memory_map |-> mmap, efi_system_table |-> "table", framebuffer_info |-> framebuffer,
          command_line |-> IF command_line = None THEN 0 ELSE command_line]
    /\ \A f \in AllFrames : \E i \in DOMAIN mmap :
         f \in FramesOf(mmap[i]) /\ mmap[i].kind = mem_kind_from_efi(types[f])
    /\ \A i \in 2 .. Len(mmap) :
         mmap[i - 1].end <= mmap[i].start /\ ~mergeable(mmap[i - 1], mmap[i])
    /\ \A p \in ToSet(loadable) : \A u \in UnitsOf(p) : UnitLoaded(p, u)
    /\ \E p \in ToSet(loadable) : entry - PageUnits * kimage.start + min_paddr \in UnitsOf(p)

\* The fixed part of the buffer, less what else goes into it.
CommandLineLimit ==
  BOOTINFO_FIXED_SIZE - 4 * HeaderSize - SizeOf["FRAMEBUFFER"] - SizeOf["EFI_SYSTEM_TABLE"]

\* Once the firmware is gone the loader cannot report a failure any more, and the
\* `unwrap's there must not meet one: the buffer, sized before the command line was
\* appended and before the map was final, has room for the table and the map, unless the
\* command line is longer than the fixed part of the buffer allows for.
NoLateFailure ==
  pc = "panic" => command_line # None /\ command_line > CommandLineLimit
=============================================================================
