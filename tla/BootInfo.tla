------------------------------ MODULE BootInfo ------------------------------
(***************************************************************************)
(* The boot information: the buffer that Builder of bootinfo/builder.rs    *)
(* fills in the loader, View of bootinfo/view.rs reads in the kernel, and  *)
(* what the kernel makes of it (bootparse.rs, get_mem_map of mm/init.rs).  *)
(*                                                                         *)
(* Offsets and lengths are those of the real layout.  A buffer is a record *)
(* of its length, the offset of its free part and the items written so     *)
(* far, a function of the offsets of their headers.  A payload is its      *)
(* length in bytes and an abstract value.                                  *)
(***************************************************************************)
EXTENDS Naturals, SequencesExt

ITEM_ALIGN == 8
HeaderSize == 8  \* of an ItemHeader

\* The size of what the payload of an item is made of.
SizeOf ==
  [EFI_SYSTEM_TABLE |-> 8, MEMORY_MAP |-> 24, FRAMEBUFFER |-> 32, COMMAND_LINE |-> 1]

align_up(n, align) == ((n + align - 1) \div align) * align

Builder(len) == [len |-> len, off |-> 0, items |-> <<>>]

\* Where the next header goes.
header_off(b) == align_up(b.off, ITEM_ALIGN)

next_off(b, kind, count) == header_off(b) + HeaderSize + SizeOf[kind] * count

\* reserve returns BadSize when this is false.
HasRoom(b, kind, count) == next_off(b, kind, count) <= b.len

\* append and append_slice, of `count' elements: reserve and write the payload.
append_slice(b, kind, val, count) ==
  [b EXCEPT
     !.off = next_off(b, kind, count),
     !.items = (header_off(b) :> [kind |-> kind, payload_len |-> SizeOf[kind] * count,
                                  payload |-> val]) @@ @]

append(b, kind, val) == append_slice(b, kind, val, 1)

\* The slice that finish returns is the part of the buffer before `off'.
finish(b) == [size |-> b.off, items |-> b.items]
-----------------------------------------------------------------------------
Malformed == [kind |-> "malformed"]

\* View::items.  A header that no append wrote there, or a payload beyond the end,
\* makes the iterator panic.
items(view) ==
  LET walk[off \in Nat] ==
        IF off >= view.size THEN <<>>
        ELSE IF off \notin DOMAIN view.items THEN <<Malformed>>
        ELSE LET item == view.items[off]
                 payload_end_off == off + HeaderSize + item.payload_len
             IN IF payload_end_off > view.size THEN <<Malformed>>
                ELSE <<item>> \o walk[align_up(payload_end_off, ITEM_ALIGN)]
  IN walk[0]

\* get and read want exactly one value, get_slice a whole number of them.
gets_one(item) == item.payload_len = SizeOf[item.kind]
gets_slice(item) == item.payload_len % SizeOf[item.kind] = 0

OfKind(view, kind) == SelectSeq(items(view), LAMBDA item : item.kind = kind)

\* get_mem_map: the payload of the first memory map.
get_mem_map(view) == Head(OfKind(view, "MEMORY_MAP")).payload

\* The value of the last item of a kind, if it has the right size.
parsed(view, kind, right(_), none) ==
  LET found == OfKind(view, kind)
  IN IF found # <<>> /\ right(Last(found)) THEN Last(found).payload ELSE none

\* BootinfoData::parse panics when this is false.
CanParse(view) ==
  /\ Malformed \notin ToSet(items(view))
  /\ OfKind(view, "MEMORY_MAP") # <<>>
  /\ \A item \in ToSet(OfKind(view, "MEMORY_MAP")) : gets_slice(item)

\* BootinfoData::parse.  The command line is empty if there is none.
parse(view, none) ==
  [memory_map |-> parsed(view, "MEMORY_MAP", gets_slice, none),
   efi_system_table |-> parsed(view, "EFI_SYSTEM_TABLE", gets_one, none),
   framebuffer_info |-> parsed(view, "FRAMEBUFFER", gets_one, none),
   command_line |-> parsed(view, "COMMAND_LINE", gets_slice, 0)]
=============================================================================
