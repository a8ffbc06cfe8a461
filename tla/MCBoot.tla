------------------------------- MODULE MCBoot --------------------------------
(***************************************************************************)
(* Boot, with program headers as the kernel's linker makes them, and       *)
(* entries of each kind that detect_memory may meet in a memory map.       *)
(***************************************************************************)
EXTENDS Boot

Phdr(type, offset, paddr, filesz, memsz) ==
  [p_type |-> type, p_offset |-> offset, p_paddr |-> paddr,
   p_filesz |-> filesz, p_memsz |-> memsz]

\* Code, data with .bss, and a segment that is not to be loaded.
KernelPhdrs ==
  {Phdr(PT_LOAD, 0, 2, 1, 1), Phdr(PT_LOAD, 1, 0, 1, 2), Phdr(4, 0, 0, 1, 2)}

SMAP_entry(bytes, acpi, type, base, length) ==
  [bytes |-> bytes, ACPI |-> acpi, Type |-> type, Base |-> base, Length |-> length]

\* Memory at 0, at the top below 4 GB, and above it; memory that is reserved,
\* and that is to be ignored.
SomeEntries ==
  {SMAP_entry(20, 0, 1, 0, 2), SMAP_entry(24, 1, 1, UINT_MOD - 1, 1),
   SMAP_entry(24, 1, 1, UINT_MOD, UINT_MOD + 1), SMAP_entry(20, 0, 2, 1, 1),
   SMAP_entry(24, 0, 1, 1, 1), SMAP_entry(24, 0, 2, 2, 1)}

=============================================================================
