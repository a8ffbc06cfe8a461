----------------------------- MODULE Descriptor -----------------------------
(***************************************************************************)
(* The descriptors the kernel packs for the CPU: segment_desc_set of       *)
(* kernel/cpu/cpu.c and gate_desc_set of kernel/cpu/irq.c scatter an       *)
(* address and a limit over several fields; the CPU puts them together     *)
(* again (BaseOf, LimitOf, ...).                                           *)
(*                                                                         *)
(* Widths are scaled: a byte has BYTE values and half a byte NIBBLE.  An   *)
(* address has four bytes and a limit two and a half.                      *)
(***************************************************************************)
EXTENDS Integers

CONSTANTS BYTE, NIBBLE

ASSUME DescriptorAssumption ==
  /\ BYTE \in Nat \ {0, 1}
  /\ NIBBLE \in Nat \ {0, 1}
  /\ NIBBLE * NIBBLE = BYTE

HALF == BYTE * BYTE           \* 2^16
ADDRESS == HALF * HALF        \* 2^32
LIMIT == HALF * NIBBLE        \* 2^20
PAGE == ADDRESS \div LIMIT    \* 2^12

low16(x) == x % HALF
byte16(x) == (x \div HALF) % BYTE
byte24(x) == (x \div (HALF * BYTE)) % BYTE

\* attr is a set of bits.  In a segment's, bits 8 to 11 hold the top of the
\* limit; they are kept apart here.
SEG_G_GRANULARITY_4K == {15}
SEG_DB_DOUBLE_BYTE == {14}
SEG_P_PRESENT == {7}
SEG_S_NORMAL == {4}
SEG_TYPE_CODE == {3}
SEG_TYPE_RW == {1}
SEG_TYPE_TSS == {0, 3}

\* GATE_P_PRESENT | GATE_DPL0 | GATE_TYPE_INT
GATE_INT == {15} \cup 9 .. 11

coarse(limit) == limit > LIMIT - 1

\* A large limit is kept in pages.
segment_desc_set(base, limit, attr) ==
  LET l == IF coarse(limit) THEN limit \div PAGE ELSE limit
  IN  [ limit15_0   |-> low16(l),
        base15_0    |-> low16(base),
        base23_16   |-> byte16(base),
        attr        |-> attr \cup IF coarse(limit) THEN SEG_G_GRANULARITY_4K
                                               ELSE {},
        limit19_16  |-> (l \div HALF) % NIBBLE,
        base31_24   |-> byte24(base) ]

gate_desc_set(selector, offset, attr) ==
  [ offset15_0  |-> low16(offset),
    selector    |-> selector,
    attr        |-> attr,
    offset31_16 |-> (offset \div HALF) % HALF ]

\* The operand of lgdt and lidt.
table_reg(start_addr, size) ==
  [ limit      |-> (size - 1) % HALF,
    start15_0  |-> low16(start_addr),
    start32_16 |-> (start_addr \div HALF) % HALF ]

-----------------------------------------------------------------------------
(* How the CPU reads them.                                                 *)

BaseOf(d) ==
  d.base15_0 + HALF * d.base23_16 + HALF * BYTE * d.base31_24

\* The last byte of the segment.
LimitOf(d) ==
  LET l == d.limit15_0 + HALF * d.limit19_16
  IN  IF SEG_G_GRANULARITY_4K \subseteq d.attr THEN PAGE * (l + 1) - 1 ELSE l

StartOf(r) == r.start15_0 + HALF * r.start32_16

OffsetOf(g) == g.offset15_0 + HALF * g.offset31_16

=============================================================================
