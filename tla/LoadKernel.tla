----------------------------- MODULE LoadKernel -----------------------------
(***************************************************************************)
(* load_kernel of loader/loader32.c: read_disk reads the kernel's ELF file *)
(* from the disk, sector by sector, and reload_elf_file copies its         *)
(* segments to the addresses they are linked for.                          *)
(*                                                                         *)
(* The disk is external.  Each of its registers 0x1F2 to 0x1F5 keeps the   *)
(* last two bytes written; after the command it is busy until it offers a  *)
(* sector (DRQ), or until it fails, after which it never offers one.       *)
(*                                                                         *)
(* The unit of data is a sector, and the contents of a sector is its       *)
(* number: offsets, sizes and addresses count sectors.  The file is read   *)
(* to SYS_KERNEL_LOAD_ADDR, and the segments end below it: what they are   *)
(* copied from is not what they are copied to.                             *)
(***************************************************************************)
EXTENDS Integers, SequencesExt

CONSTANTS
  REG,                         \* values of a byte register of the disk
  KERNEL_BEGIN_SECTOR,
  KERNEL_MAX_SECTORS_IN_SIZE,
  SYS_KERNEL_LOAD_ADDR,        \* where the file is read to
  Phdrs,                       \* program headers an image may have
  MaxPhdrs                     \* bound: how many

ASSUME LoadKernelAssumption ==
  /\ REG \in Nat \ {0, 1}
  /\ KERNEL_BEGIN_SECTOR \in 1 .. REG * REG * REG * REG - 1
  /\ KERNEL_MAX_SECTORS_IN_SIZE \in 1 .. REG * REG - 1
  /\ {SYS_KERNEL_LOAD_ADDR, MaxPhdrs} \subseteq Nat

\* ELF: a segment is in the file, and no larger there than in memory.  The
\* kernel is linked for addresses below SYS_KERNEL_LOAD_ADDR.
ASSUME PhdrsAssumption ==
  \A p \in Phdrs :
    /\ {p.p_offset, p.p_paddr, p.p_filesz, p.p_memsz} \subseteq Nat
    /\ p.p_filesz <= p.p_memsz
    /\ p.p_offset + p.p_filesz <= KERNEL_MAX_SECTORS_IN_SIZE
    /\ p.p_paddr + p.p_memsz <= SYS_KERNEL_LOAD_ADDR

VARIABLES
  load,         \* what load_kernel does: "select", "regs", "transfer",
                \* "elf", then "entered" or "dead"
  n,            \* its loop variable
  regs, status, \* of the disk: the two bytes of each register, and the state
  serve,        \* of the disk: sectors it has yet to deliver
  file_buffer,  \* what has been read, at SYS_KERNEL_LOAD_ADDR
  image,        \* the ELF file on the disk
  mem           \* the memory below it

diskVars == <<regs, status, serve>>
loadVars == <<load, n, diskVars, file_buffer, image, mem>>

PT_LOAD == 1

NoImage == [magic |-> FALSE, e_entry |-> 0, phdr |-> <<>>]

Images ==
  [magic : {TRUE}, e_entry : {2},
   phdr : {p \in UNION {[1 .. k -> Phdrs] : k \in 0 .. MaxPhdrs} : IsInjective(p)}]
  \cup {NoImage, [NoImage EXCEPT !.magic = TRUE]}

LoadInit ==
  /\ load = "select" /\ n = 1
  /\ regs = [r \in \h1F2 .. \h1F5 |-> <<0, 0>>]
  /\ status = "deselected" /\ serve = <<>>
  /\ file_buffer = <<>>
  /\ image \in Images
  /\ mem = [a \in 0 .. SYS_KERNEL_LOAD_ADDR - 1 |-> -1]

-----------------------------------------------------------------------------
(* The disk.                                                               *)

outb(r, w) == [r EXCEPT ![w[1]] = <<@[2], w[2]>>]

\* LBA48: the bytes written last are the low ones.
lba ==
  LET byte(port, k) == regs[port][k]
  IN  byte(\h1F3, 2) + REG * (byte(\h1F4, 2) + REG * (byte(\h1F5, 2)
        + REG * (byte(\h1F3, 1) + REG * (byte(\h1F4, 1)
        + REG * byte(\h1F5, 1)))))

sectors == regs[\h1F2][2] + REG * regs[\h1F2][1]

disk_answers ==
  /\ status = "busy"
  /\ status' \in {"drq", "error"}
  /\ UNCHANGED <<load, n, regs, serve, file_buffer, image, mem>>

-----------------------------------------------------------------------------
(* read_disk.                                                              *)

\* The master, addressed with LBA48.
select_drive ==
  /\ load = "select"
  /\ load' = "regs"
  /\ status' = "idle"
  /\ UNCHANGED <<n, regs, serve, file_buffer, image, mem>>

\* (uint8_t)(x >> bits), where unit is 2 to the number of bits.
shr(x, unit) == (x \div unit) % REG

\* mutant of setup: low bytes first
setup_low_first ==
  LET c == KERNEL_MAX_SECTORS_IN_SIZE
      s == KERNEL_BEGIN_SECTOR
  IN  << <<\h1F2, shr(c, 1)>>, <<\h1F3, shr(s, 1)>>, <<\h1F4, shr(s, REG)>>,
         <<\h1F5, shr(s, REG * REG)>>, <<\h1F2, shr(c, REG)>>,
         <<\h1F3, shr(s, REG * REG * REG)>>, <<\h1F4, 0>>, <<\h1F5, 0>> >>

setup ==
  LET c == KERNEL_MAX_SECTORS_IN_SIZE
      s == KERNEL_BEGIN_SECTOR
  IN  << <<\h1F2, shr(c, REG)>>, <<\h1F3, shr(s, REG * REG * REG)>>,
         <<\h1F4, 0>>, <<\h1F5, 0>>, <<\h1F2, shr(c, 1)>>, <<\h1F3, shr(s, 1)>>,
         <<\h1F4, shr(s, REG)>>, <<\h1F5, shr(s, REG * REG)>> >>

set_register ==
  /\ load = "regs" /\ n <= Len(setup)
  /\ regs' = outb(regs, setup[n])
  /\ n' = n + 1
  /\ UNCHANGED <<load, status, serve, file_buffer, image, mem>>

\* READ SECTORS EXT, to the selected drive.
start_read ==
  /\ load = "regs" /\ n > Len(setup)
  /\ load' = "transfer" /\ n' = KERNEL_MAX_SECTORS_IN_SIZE
  /\ status' = IF status = "idle" THEN "busy" ELSE status
  /\ serve' = [k \in 1 .. sectors |-> lba + k - 1]
  /\ UNCHANGED <<regs, file_buffer, image, mem>>

\* The wait for a sector, for ever after an error, and its 16-bit reads.
read_sector ==
  /\ load = "transfer" /\ n > 0
  /\ status = "drq"
  /\ file_buffer' = Append(file_buffer, Head(serve))
  /\ serve' = Tail(serve)
  /\ status' = IF serve' = <<>> THEN "idle" ELSE "busy"
  /\ n' = n - 1
  /\ UNCHANGED <<load, regs, image, mem>>

-----------------------------------------------------------------------------
(* reload_elf_file.                                                        *)

\* The header is at the start of the file.
elf_hdr ==
  IF file_buffer[1] = KERNEL_BEGIN_SECTOR THEN image ELSE NoImage

check_magic ==
  /\ load = "transfer" /\ n = 0
  /\ load' = IF elf_hdr.magic THEN "elf" ELSE "dead"
  /\ n' = 1
  /\ UNCHANGED <<diskVars, file_buffer, image, mem>>

\* mutant of fill_bytes: the whole of memsz is filled
fill_bytes_all(phdr) == phdr.p_memsz

fill_bytes(phdr) == phdr.p_memsz - phdr.p_filesz

\* Copy p_filesz from the file, then fill with zeros.
Copied(phdr, a) ==
  LET bss == phdr.p_paddr + phdr.p_filesz
  IN  IF a \in phdr.p_paddr .. bss - 1
      THEN file_buffer[phdr.p_offset + a - phdr.p_paddr + 1]
      ELSE IF a \in bss .. bss + fill_bytes(phdr) - 1 THEN 0 ELSE mem[a]

load_segment ==
  /\ load = "elf" /\ n <= Len(elf_hdr.phdr)
  /\ n' = n + 1
  /\ LET phdr == elf_hdr.phdr[n]
     IN  mem' = IF phdr.p_type # PT_LOAD THEN mem
                ELSE [a \in DOMAIN mem |-> Copied(phdr, a)]
  /\ UNCHANGED <<load, diskVars, file_buffer, image>>

\* Without an entry point the machine stops.
enter_kernel ==
  /\ load = "elf" /\ n > Len(elf_hdr.phdr)
  /\ load' = IF elf_hdr.e_entry = 0 THEN "dead" ELSE "entered"
  /\ UNCHANGED <<n, diskVars, file_buffer, image, mem>>

load_kernel ==
  \/ select_drive
  \/ set_register
  \/ start_read
  \/ read_sector
  \/ check_magic
  \/ load_segment
  \/ enter_kernel

-----------------------------------------------------------------------------

\* What a segment is to have at an address.
Covers(phdr, a) ==
  phdr.p_type = PT_LOAD /\ a \in phdr.p_paddr .. phdr.p_paddr + phdr.p_memsz - 1

Contents(phdr, a) ==
  IF a < phdr.p_paddr + phdr.p_filesz
  THEN KERNEL_BEGIN_SECTOR + phdr.p_offset + a - phdr.p_paddr
  ELSE 0

\* The first m segments of the file are in place, all else is as it was.
InPlace(m) ==
  \A a \in DOMAIN mem :
    LET segs == {k \in 1 .. m : Covers(image.phdr[k], a)}
    IN  IF segs = {} THEN mem[a] = -1
        ELSE \E k \in segs : mem[a] = Contents(image.phdr[k], a)

\* When the kernel is entered, every loadable segment of the file on the disk
\* is at its address, with zeros up to its size in memory (the kernel relies
\* on them for its .bss), and all other memory is as it was.
KernelInPlace == load = "entered" => InPlace(Len(image.phdr))

=============================================================================
