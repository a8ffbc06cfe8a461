------------------------------ MODULE GdtProofs ------------------------------
(***************************************************************************)
(* Proofs about modules Descriptor and Gdt: what the CPU reads back from a *)
(* descriptor, and that the tasks' TSS descriptors never collide.          *)
(***************************************************************************)
EXTENDS Gdt, TLAPS

-----------------------------------------------------------------------------
(* Arithmetic of the fields.                                               *)

\* Splitting a number into a quotient and a remainder loses nothing.
LEMMA Split ==
  ASSUME NEW x \in Nat, NEW a \in Nat \ {0}
  PROVE  /\ x \div a \in Nat
         /\ x % a \in 0 .. a - 1
         /\ (x % a) + a * (x \div a) = x
<1>1. x \div a \in Nat
  OBVIOUS
<1>2. x % a \in 0 .. a - 1
  OBVIOUS
<1>3. x = a * (x \div a) + (x % a)
  OBVIOUS
<1> QED
  BY <1>1, <1>2, <1>3

\* A quotient of a number below a * b is below b.
LEMMA QuotientBound ==
  ASSUME NEW a \in Nat \ {0}, NEW b \in Nat, NEW x \in Nat, x < a * b
  PROVE  x \div a < b
<1>1. x \div a \in Nat /\ a * (x \div a) <= x
  BY Split
<1>2. ASSUME b <= x \div a
      PROVE  a * b <= a * (x \div a)
  BY <1>1, <1>2
<1> QED
  BY <1>1, <1>2

\* The scaled widths: two bytes, four bytes, a limit and a page.
LEMMA Widths ==
  /\ BYTE \in Nat \ {0} /\ NIBBLE \in Nat \ {0}
  /\ HALF \in Nat \ {0} /\ HALF * BYTE \in Nat \ {0}
  /\ LIMIT \in Nat \ {0} /\ ADDRESS \in Nat /\ PAGE \in Nat \ {0}
  /\ ADDRESS = (HALF * BYTE) * BYTE
  /\ ADDRESS = PAGE * LIMIT
  /\ LIMIT < ADDRESS
<1>1. /\ BYTE \in Nat \ {0, 1} /\ NIBBLE \in Nat \ {0, 1}
      /\ NIBBLE * NIBBLE = BYTE
  BY DescriptorAssumption
<1>2. HALF \in Nat \ {0} /\ HALF * BYTE \in Nat \ {0}
  BY <1>1 DEF HALF
<1>3. LIMIT \in Nat \ {0} /\ ADDRESS \in Nat
  BY <1>1, <1>2 DEF LIMIT, ADDRESS
<1>4. ADDRESS = (HALF * BYTE) * BYTE
  BY <1>1, <1>2 DEF ADDRESS, HALF
<1>5. ADDRESS = LIMIT * (BYTE * NIBBLE)
  BY <1>1 DEF ADDRESS, LIMIT, HALF
<1>6. BYTE * NIBBLE \in Nat \ {0, 1}
  BY <1>1
<1>7. PAGE = BYTE * NIBBLE
  BY <1>3, <1>5, <1>6 DEF PAGE
<1>8. LIMIT < ADDRESS
  BY <1>3, <1>5, <1>6
<1> QED
  BY <1>1, <1>2, <1>3, <1>4, <1>5, <1>6, <1>7, <1>8

\* The CPU reads the base that segment_desc_set was given.
LEMMA BaseReadBack ==
  ASSUME NEW base \in 0 .. ADDRESS - 1, NEW limit, NEW attr
  PROVE  BaseOf(segment_desc_set(base, limit, attr)) = base
<1> DEFINE q == base \div HALF
           r == base \div (HALF * BYTE)
<1>1. base \in Nat /\ base < (HALF * BYTE) * BYTE
  BY Widths
<1>2. (base % HALF) + HALF * q = base /\ q \in Nat
  BY <1>1, Widths, Split
<1>3. (q % BYTE) + BYTE * (q \div BYTE) = q /\ q % BYTE \in Nat
  <2> HIDE DEF q
  <2> QED
    BY <1>2, Widths, Split
<1>4. q \div BYTE = r
  BY <1>1, Widths
<1>5. r % BYTE = r /\ r \in Nat
  <2>1. r \in Nat /\ r < BYTE
    BY <1>1, Widths, Split, QuotientBound
  <2> HIDE DEF r
  <2> QED
    BY <2>1, Widths
<1>6. BaseOf(segment_desc_set(base, limit, attr))
        = (base % HALF) + HALF * (q % BYTE) + HALF * BYTE * (r % BYTE)
  BY DEF BaseOf, segment_desc_set, low16, byte16, byte24
<1>7. base % HALF \in Nat
  BY <1>1, Widths, Split
<1> DEFINE b0 == base % HALF
           b1 == q % BYTE
<1>8. b0 \in Nat /\ b1 \in Nat /\ q = b1 + BYTE * r /\ base = b0 + HALF * q
  BY <1>2, <1>3, <1>4, <1>5, <1>7
<1>9. BaseOf(segment_desc_set(base, limit, attr))
        = b0 + HALF * b1 + HALF * BYTE * r
  BY <1>5, <1>6
<1> HIDE DEF b0, b1, q, r
<1>10. HALF * (b1 + BYTE * r) = HALF * b1 + HALF * BYTE * r
  BY <1>8, <1>5, Widths
<1> QED
  BY <1>5, <1>8, <1>9, <1>10, Widths

\* What the two fields of a limit hold together.
LEMMA LimitFields ==
  ASSUME NEW l \in 0 .. LIMIT - 1
  PROVE  (l % HALF) + HALF * ((l \div HALF) % NIBBLE) = l
<1>1. l \in Nat /\ l < HALF * NIBBLE
  BY Widths DEF LIMIT
<1>2. (l % HALF) + HALF * (l \div HALF) = l /\ l \div HALF \in Nat
  BY <1>1, Widths, Split
<1>3. l \div HALF < NIBBLE
  BY <1>1, Widths, QuotientBound
<1> DEFINE q == l \div HALF
<1>4. q \in Nat /\ q < NIBBLE
  BY <1>2, <1>3
<1> HIDE DEF q
<1>5. q % NIBBLE = q
  BY <1>4, Widths
<1> QED
  BY <1>2, <1>5 DEF q

\* A small limit is read back as it was given.
LEMMA SmallLimit ==
  ASSUME NEW base, NEW limit \in 0 .. LIMIT - 1, NEW attr, 15 \notin attr
  PROVE  /\ LimitOf(segment_desc_set(base, limit, attr)) = limit
         /\ segment_desc_set(base, limit, attr).attr = attr
<1>1. ~coarse(limit)
  BY Widths DEF coarse
<1>2. (limit % HALF) + HALF * ((limit \div HALF) % NIBBLE) = limit
  BY LimitFields
<1> QED
  BY <1>1, <1>2 DEF LimitOf, segment_desc_set, low16, SEG_G_GRANULARITY_4K

\* The limit of all addresses is counted in pages, and is read back exactly.
LEMMA FullLimit ==
  ASSUME NEW base, NEW attr
  PROVE  /\ LimitOf(segment_desc_set(base, ADDRESS - 1, attr)) = ADDRESS - 1
         /\ segment_desc_set(base, ADDRESS - 1, attr).attr = attr \cup {15}
<1> DEFINE l == (ADDRESS - 1) \div PAGE
           d == segment_desc_set(base, ADDRESS - 1, attr)
<1>1. coarse(ADDRESS - 1)
  BY Widths DEF coarse
<1>2. l = LIMIT - 1
  <2>1. ADDRESS - 1 = PAGE * (LIMIT - 1) + (PAGE - 1)
    BY Widths
  <2> QED
    BY <2>1, Widths
<1>3. (l % HALF) + HALF * ((l \div HALF) % NIBBLE) = l
  <2>1. l \in 0 .. LIMIT - 1
    BY <1>2, Widths
  <2> HIDE DEF l
  <2> QED
    BY <2>1, LimitFields
<1>4. /\ d.attr = attr \cup {15}
      /\ d.limit15_0 = l % HALF
      /\ d.limit19_16 = (l \div HALF) % NIBBLE
  BY <1>1 DEF segment_desc_set, low16, SEG_G_GRANULARITY_4K
<1> HIDE DEF d
<1>5. LimitOf(d) = PAGE * (l + 1) - 1
  BY <1>3, <1>4 DEF LimitOf, SEG_G_GRANULARITY_4K
<1>6. LimitOf(d) = ADDRESS - 1
  <2>1. PAGE * (l + 1) = ADDRESS
    BY <1>2, Widths
  <2> QED
    BY <1>5, <2>1
<1> QED
  BY <1>4, <1>6 DEF d
-----------------------------------------------------------------------------
(* The inductive invariant.                                                *)

Descriptors ==
  [ limit15_0  : Int, base15_0  : Int, base23_16 : Int, attr : SUBSET Nat,
    limit19_16 : Int, base31_24 : Int ]

GdtType ==
  /\ gdt_table \in [0 .. GDT_TABLE_SIZE - 1 -> Descriptors]
  /\ holder \in Creators \cup {NULL}
  /\ pc \in [Creators -> {"lock", "scan", "mark", "unlock", "set", "name", "done"}]
  /\ i \in [Creators -> 1 .. GDT_TABLE_SIZE]
  /\ tss_sel \in [Creators -> 0 .. GDT_TABLE_SIZE - 1]

\* What tss_init writes for the task of call c.
TssDesc(c) == segment_desc_set(tss(c), TSS_SIZE, SEG_P_PRESENT \cup SEG_TYPE_TSS)

\* The entries of the table that call c has taken: marked, or filled.
Mine(c) ==
  {k \in 1 .. GDT_TABLE_SIZE - 1 :
     (pc[c] \in {"unlock", "set"} /\ i[c] = k) \/ tss_sel[c] = k}

\* The loop of get_alloc_desc is inside the mutex, so an entry seen free is
\* still free when it is marked, and nobody else marks it.
CallInv(c) ==
  /\ (pc[c] \in {"scan", "mark", "unlock"}) <=> holder = c
  /\ pc[c] = "mark" => i[c] < GDT_TABLE_SIZE /\ gdt_table[i[c]].attr = {}
  /\ pc[c] \in {"unlock", "set"} => i[c] \in Mine(c) /\ tss_sel[c] = 0
  /\ pc[c] \notin {"name", "done"} => tss_sel[c] = 0
  /\ tss_sel[c] # 0 => gdt_table[tss_sel[c]] = TssDesc(c)
  /\ \A k \in Mine(c) : k \notin {1, 2} /\ gdt_table[k].attr # {}

GdtInv ==
  /\ GdtType
  /\ gdt_table[1] = Segment(SEG_TYPE_CODE)
  /\ gdt_table[2] = Segment(SEG_TYPE_RW)
  /\ \A c \in Creators : CallInv(c)
  /\ \A d, e \in Creators : d # e => Mine(d) \cap Mine(e) = {}

\* A descriptor that segment_desc_set packs has its fields.
LEMMA DescTyped ==
  ASSUME NEW base \in Nat, NEW limit \in Nat, NEW attr \in SUBSET Nat
  PROVE  segment_desc_set(base, limit, attr) \in Descriptors
<1> DEFINE l == IF coarse(limit) THEN limit \div PAGE ELSE limit
<1>1. l \in Nat
  BY Widths DEF coarse
<1>2. l % HALF \in Int /\ (l \div HALF) % NIBBLE \in Int
  <2> HIDE DEF l
  <2> QED
    BY <1>1, Widths
<1>3. /\ low16(base) \in Int /\ byte16(base) \in Int /\ byte24(base) \in Int
  BY Widths DEF low16, byte16, byte24
<1> QED
  BY <1>2, <1>3 DEF segment_desc_set, Descriptors, low16, SEG_G_GRANULARITY_4K

\* The kernel's own segments, as gdt_init packs them.
LEMMA SegmentRight ==
  ASSUME NEW type \in SUBSET (Nat \ {15})
  PROVE  LET d == Segment(type)
         IN  /\ d \in Descriptors
             /\ SEG_P_PRESENT \subseteq d.attr
             /\ d.attr # {}
             /\ BaseOf(d) = 0
             /\ LimitOf(d) = ADDRESS - 1
<1> DEFINE attr == SEG_P_PRESENT \cup SEG_S_NORMAL \cup SEG_DB_DOUBLE_BYTE \cup type
<1>1. attr \in SUBSET Nat /\ 7 \in attr
  BY DEF SEG_P_PRESENT, SEG_S_NORMAL, SEG_DB_DOUBLE_BYTE
<1>2. 0 \in 0 .. ADDRESS - 1 /\ ADDRESS - 1 \in Nat
  BY Widths
<1>3. Segment(type) = segment_desc_set(0, ADDRESS - 1, attr)
  BY DEF Segment
<1> HIDE DEF attr
<1> QED
  BY <1>1, <1>2, <1>3, DescTyped, BaseReadBack, FullLimit DEF SEG_P_PRESENT

\* A task's TSS descriptor, as tss_init packs it.
LEMMA TssDescRight ==
  ASSUME NEW c \in Creators
  PROVE  /\ TssDesc(c) \in Descriptors
         /\ TssDesc(c).attr = SEG_P_PRESENT \cup SEG_TYPE_TSS
         /\ BaseOf(TssDesc(c)) = tss(c)
         /\ LimitOf(TssDesc(c)) = TSS_SIZE
<1> DEFINE attr == SEG_P_PRESENT \cup SEG_TYPE_TSS
<1>1. attr \in SUBSET Nat /\ 15 \notin attr
  BY DEF SEG_P_PRESENT, SEG_TYPE_TSS
<1>2. tss(c) \in 0 .. ADDRESS - 1
  <2>1. c \in Nat /\ TASK_SIZE \in Nat /\ (c + 1) * TASK_SIZE < ADDRESS
    BY GdtAssumption
  <2>2. (c + 1) * TASK_SIZE = c * TASK_SIZE + TASK_SIZE /\ c * TASK_SIZE \in Nat
    BY <2>1
  <2> QED
    BY <2>1, <2>2, Widths DEF tss
<1>3. TSS_SIZE \in 0 .. LIMIT - 1
  BY GdtAssumption, Widths
<1>4. tss(c) \in Nat /\ TSS_SIZE \in Nat
  BY <1>2, <1>3, Widths
<1> HIDE DEF attr
<1>5. TssDesc(c) = segment_desc_set(tss(c), TSS_SIZE, attr)
  BY DEF TssDesc, attr
<1>6. TssDesc(c).attr = attr
  BY <1>1, <1>3, <1>5, SmallLimit
<1> QED
  BY <1>1, <1>2, <1>3, <1>4, <1>5, <1>6, DescTyped, BaseReadBack, SmallLimit DEF attr

\* gdt_init leaves every entry but the kernel's two segments free.
LEMMA InitGdtInv == Init => GdtInv
<1> SUFFICES ASSUME Init PROVE GdtInv
  OBVIOUS
<1> USE DEF Init
<1>1. /\ SEG_TYPE_CODE \in SUBSET (Nat \ {15})
      /\ SEG_TYPE_RW \in SUBSET (Nat \ {15})
      /\ GDT_TABLE_SIZE \in Nat /\ GDT_TABLE_SIZE > 3
      /\ NULL \notin Creators
  BY GdtAssumption DEF SEG_TYPE_CODE, SEG_TYPE_RW
<1>2. /\ Segment(SEG_TYPE_CODE) \in Descriptors
      /\ Segment(SEG_TYPE_RW) \in Descriptors
      /\ segment_desc_set(0, 0, {}) \in Descriptors
  BY <1>1, SegmentRight, DescTyped
<1>3. /\ gdt_table \in [0 .. GDT_TABLE_SIZE - 1 -> Descriptors]
      /\ gdt_table[1] = Segment(SEG_TYPE_CODE)
      /\ gdt_table[2] = Segment(SEG_TYPE_RW)
  BY <1>1, <1>2 DEF gdt_init
<1>4. GdtType
  BY <1>1, <1>3 DEF GdtType
<1>5. \A c \in Creators : Mine(c) = {}
  BY <1>1 DEF Mine
<1>6. \A c \in Creators : CallInv(c)
  BY <1>1, <1>5 DEF CallInv
<1> QED
  BY <1>3, <1>4, <1>5, <1>6 DEF GdtInv

\* A step of one call leaves the others' entries, and what they rely on,
\* alone: those that do not write the table ...
LEMMA QuietStep ==
  ASSUME GdtInv, NEW c \in Creators, UNCHANGED gdt_table, GdtType',
         \A e \in Creators \ {c} : /\ pc'[e] = pc[e]
                                   /\ i'[e] = i[e]
                                   /\ tss_sel'[e] = tss_sel[e]
                                   /\ holder' = e <=> holder = e,
         CallInv(c)', Mine(c)' \subseteq Mine(c)
  PROVE  GdtInv'
<1>1. \A e \in Creators \ {c} : Mine(e)' = Mine(e)
  BY DEF Mine
<1>2. ASSUME NEW e \in Creators \ {c}
      PROVE  CallInv(e)'
  <2>1. CallInv(e)
    BY DEF GdtInv
  <2> QED
    BY <1>1, <2>1 DEF CallInv, TssDesc
<1>3. \A d, e \in Creators : d # e => Mine(d)' \cap Mine(e)' = {}
  BY <1>1 DEF GdtInv
<1> QED
  BY <1>2, <1>3 DEF GdtInv

\* ... and those that write an entry nobody else has.
LEMMA WriteStep ==
  ASSUME GdtInv, NEW c \in Creators, NEW k \in 3 .. GDT_TABLE_SIZE - 1,
         NEW desc \in Descriptors, desc.attr # {},
         gdt_table' = [gdt_table EXCEPT ![k] = desc],
         \A e \in Creators \ {c} : /\ pc'[e] = pc[e]
                                   /\ i'[e] = i[e]
                                   /\ tss_sel'[e] = tss_sel[e]
                                   /\ k \notin Mine(e)
                                   /\ pc[e] = "mark" => i[e] # k,
         UNCHANGED holder,
         GdtType', CallInv(c)', Mine(c)' = {k}
  PROVE  GdtInv'
<1>1. \A e \in Creators \ {c} : Mine(e)' = Mine(e)
  BY DEF Mine
<1>2. /\ gdt_table'[k] = desc
      /\ \A j \in 0 .. GDT_TABLE_SIZE - 1 : j # k => gdt_table'[j] = gdt_table[j]
  BY GdtAssumption DEF GdtInv, GdtType
<1>3. ASSUME NEW e \in Creators \ {c}
      PROVE  CallInv(e)'
  <2>1. CallInv(e) /\ k \notin Mine(e)
    BY DEF GdtInv
  <2>2. tss_sel[e] # 0 => tss_sel[e] \in 1 .. GDT_TABLE_SIZE - 1 /\ tss_sel[e] # k
    BY <2>1 DEF GdtInv, GdtType, Mine
  <2>3. \A j \in Mine(e) : j \in 1 .. GDT_TABLE_SIZE - 1
    BY DEF Mine
  <2> QED
    BY <1>1, <1>2, <2>1, <2>2, <2>3 DEF CallInv, TssDesc
<1>4. \A d, e \in Creators : d # e => Mine(d)' \cap Mine(e)' = {}
  BY <1>1 DEF GdtInv
<1>5. gdt_table'[1] = gdt_table[1] /\ gdt_table'[2] = gdt_table[2]
  BY <1>2, GdtAssumption
<1> QED
  BY <1>3, <1>4, <1>5 DEF GdtInv

\* The mutex lets one call at a time look for a free entry.
LEMMA AllocQuiet ==
  ASSUME GdtInv, NEW c \in Creators,
         alloc_lock(c) \/ alloc_scan(c) \/ alloc_unlock(c) \/ alloc_fail(c)
  PROVE  GdtInv'
<1>1. CallInv(c) /\ GdtType /\ GDT_TABLE_SIZE \in Nat /\ NULL \notin Creators
  BY GdtAssumption DEF GdtInv
<1>2. UNCHANGED <<gdt_table, tss_sel, result>>
  BY DEF alloc_lock, alloc_scan, alloc_unlock, alloc_fail
<1>3. GdtType'
  <2>1. gdt_table' \in [0 .. GDT_TABLE_SIZE - 1 -> Descriptors]
        /\ tss_sel' \in [Creators -> 0 .. GDT_TABLE_SIZE - 1]
    BY <1>1, <1>2 DEF GdtType
  <2>2. holder' \in Creators \cup {NULL}
    BY <1>1 DEF GdtType, alloc_lock, alloc_scan, alloc_unlock, alloc_fail, Take, Give
  <2>3. pc' \in [Creators -> {"lock", "scan", "mark", "unlock", "set", "name", "done"}]
    BY <1>1 DEF GdtType, alloc_lock, alloc_scan, alloc_unlock, alloc_fail, Goto
  <2>4. i' \in [Creators -> 1 .. GDT_TABLE_SIZE]
    <3>1. CASE alloc_scan(c)
      <4>1. i[c] \in 1 .. GDT_TABLE_SIZE /\ i[c] < GDT_TABLE_SIZE
        BY <1>1, <3>1 DEF GdtType, alloc_scan
      <4>2. i[c] + 1 \in 1 .. GDT_TABLE_SIZE
        BY <1>1, <4>1
      <4> QED
        BY <1>1, <3>1, <4>2 DEF GdtType, alloc_scan
    <3>2. CASE ~alloc_scan(c)
      BY <1>1, <3>2 DEF GdtType, alloc_lock, alloc_unlock, alloc_fail
    <3> QED
      BY <3>1, <3>2
  <2> QED
    BY <2>1, <2>2, <2>3, <2>4 DEF GdtType
<1>4. \A e \in Creators \ {c} : /\ pc'[e] = pc[e]
                                /\ i'[e] = i[e]
                                /\ tss_sel'[e] = tss_sel[e]
  BY <1>1, <1>2 DEF GdtType, alloc_lock, alloc_scan, alloc_unlock, alloc_fail, Goto
<1>5. \A e \in Creators \ {c} : holder' = e <=> holder = e
  BY <1>1 DEF CallInv, alloc_lock, alloc_scan, alloc_unlock, alloc_fail,
              Goto, Take, Give
<1>6. Mine(c)' \subseteq Mine(c)
  BY <1>1, <1>2 DEF GdtType, Mine, alloc_lock, alloc_scan, alloc_unlock, alloc_fail, Goto
<1>7. CallInv(c)'
  <2>1. CASE alloc_lock(c)
    BY <1>1, <1>2, <1>6, <2>1 DEF GdtType, CallInv, alloc_lock, Goto, Take, TssDesc
  <2>2. CASE alloc_scan(c)
    BY <1>1, <1>2, <1>6, <2>2 DEF GdtType, CallInv, alloc_scan, Goto, TssDesc
  <2>3. CASE alloc_unlock(c)
    <3>1. Mine(c)' = Mine(c)
      BY <1>1, <1>2, <2>3 DEF GdtType, Mine, alloc_unlock, Goto
    <3> QED
      BY <1>1, <1>2, <3>1, <2>3 DEF GdtType, CallInv, alloc_unlock, Goto, Give, TssDesc
  <2>4. CASE alloc_fail(c)
    BY <1>1, <1>2, <1>6, <2>4 DEF GdtType, CallInv, alloc_fail, Goto, Give, TssDesc
  <2> QED
    BY <2>1, <2>2, <2>3, <2>4
<1> QED
  BY <1>2, <1>3, <1>4, <1>5, <1>6, <1>7, QuietStep

\* get_alloc_desc marks the entry it has found free.
LEMMA MarkInv ==
  ASSUME GdtInv, NEW c \in Creators, alloc_mark(c)
  PROVE  GdtInv'
<1> DEFINE k == i[c]
           desc == [gdt_table[k] EXCEPT !.attr = SEG_P_PRESENT]
<1>1. CallInv(c) /\ GdtType /\ GDT_TABLE_SIZE \in Nat
  BY GdtAssumption DEF GdtInv
<1>2. /\ pc[c] = "mark" /\ holder = c /\ tss_sel[c] = 0
      /\ k \in 1 .. GDT_TABLE_SIZE - 1 /\ gdt_table[k].attr = {}
  BY <1>1 DEF CallInv, GdtType, alloc_mark, Goto
<1>3. k \notin {1, 2}
  BY <1>2, SegmentRight DEF GdtInv, SEG_TYPE_CODE, SEG_TYPE_RW
<1>4. k \in 3 .. GDT_TABLE_SIZE - 1
  BY <1>1, <1>2, <1>3
<1>5. desc \in Descriptors /\ desc.attr = SEG_P_PRESENT
  <2>1. gdt_table[k] \in Descriptors
    BY <1>1, <1>2 DEF GdtType
  <2>2. SEG_P_PRESENT \in SUBSET Nat
    BY DEF SEG_P_PRESENT
  <2> QED
    BY <2>1, <2>2 DEF Descriptors
<1>6. gdt_table' = [gdt_table EXCEPT ![k] = desc]
  BY DEF alloc_mark
<1>7. pc' = [pc EXCEPT ![c] = "unlock"] /\ UNCHANGED <<holder, i, tss_sel>>
  BY DEF alloc_mark, Goto
<1> HIDE DEF desc
<1>8. \A e \in Creators \ {c} : /\ pc'[e] = pc[e]
                                /\ i'[e] = i[e]
                                /\ tss_sel'[e] = tss_sel[e]
                                /\ k \notin Mine(e)
                                /\ pc[e] = "mark" => i[e] # k
  <2> TAKE e \in Creators \ {c}
  <2>1. CallInv(e)
    BY DEF GdtInv
  <2>2. pc[e] # "mark" /\ k \notin Mine(e)
    BY <1>2, <2>1 DEF CallInv
  <2> QED
    BY <1>1, <1>7, <2>2 DEF GdtType
<1>9. GdtType'
  BY <1>1, <1>2, <1>5, <1>6, <1>7 DEF GdtType
<1>10. Mine(c)' = {k}
  BY <1>1, <1>2, <1>7 DEF Mine, GdtType
<1>11. desc.attr # {} /\ gdt_table'[k] = desc
  BY <1>1, <1>2, <1>5, <1>6 DEF GdtType, SEG_P_PRESENT
<1>12. CallInv(c)'
  <2>1. /\ pc'[c] = "unlock" /\ holder' = c /\ i'[c] = k /\ tss_sel'[c] = 0
    BY <1>1, <1>2, <1>7 DEF GdtType
  <2>2. \A j \in Mine(c)' : j \notin {1, 2} /\ gdt_table'[j].attr # {}
    BY <1>3, <1>10, <1>11
  <2> QED
    BY <1>10, <2>1, <2>2 DEF CallInv
<1> QED
  BY <1>4, <1>5, <1>6, <1>7, <1>8, <1>9, <1>10, <1>11, <1>12, WriteStep

\* tss_init fills the entry that get_alloc_desc has marked for it.
LEMMA FillInv ==
  ASSUME GdtInv, NEW c \in Creators, tss_init(c)
  PROVE  GdtInv'
<1> DEFINE k == i[c]
<1>1. CallInv(c) /\ GdtType /\ GDT_TABLE_SIZE \in Nat
  BY GdtAssumption DEF GdtInv
<1>2. /\ pc[c] = "set" /\ holder # c /\ tss_sel[c] = 0
      /\ k \in Mine(c) /\ k \in 1 .. GDT_TABLE_SIZE - 1 /\ k \notin {1, 2}
      /\ gdt_table[k].attr # {}
  BY <1>1 DEF CallInv, Mine, tss_init, Goto
<1>3. k \in 3 .. GDT_TABLE_SIZE - 1
  BY <1>1, <1>2
<1>4. TssDesc(c) \in Descriptors /\ TssDesc(c).attr # {}
  BY TssDescRight DEF SEG_P_PRESENT
<1>5. gdt_table' = [gdt_table EXCEPT ![k] = TssDesc(c)]
  BY DEF tss_init, TssDesc
<1>6. /\ pc' = [pc EXCEPT ![c] = "name"] /\ UNCHANGED <<holder, i>>
      /\ tss_sel' = [tss_sel EXCEPT ![c] = k]
  BY DEF tss_init, Goto
<1>7. GdtType'
  <2>1. k \in 0 .. GDT_TABLE_SIZE - 1
    BY <1>1, <1>2
  <2> QED
    BY <1>1, <1>4, <1>5, <1>6, <2>1 DEF GdtType
<1>8. Mine(c)' = {k}
  BY <1>1, <1>2, <1>6 DEF Mine, GdtType
<1>9. gdt_table'[k] = TssDesc(c)
  BY <1>1, <1>2, <1>5 DEF GdtType
<1>10. CallInv(c)'
  BY <1>1, <1>2, <1>4, <1>6, <1>8, <1>9 DEF GdtType, CallInv, TssDesc
<1>11. \A e \in Creators \ {c} : /\ pc'[e] = pc[e]
                                 /\ i'[e] = i[e]
                                 /\ tss_sel'[e] = tss_sel[e]
                                 /\ k \notin Mine(e)
                                 /\ pc[e] = "mark" => i[e] # k
  BY <1>1, <1>2, <1>6 DEF GdtInv, GdtType, CallInv
<1> QED
  BY <1>3, <1>4, <1>5, <1>6, <1>7, <1>8, <1>10, <1>11, WriteStep

\* Checking the name changes none of this.
LEMMA NameInv ==
  ASSUME GdtInv, NEW c \in Creators, check_name(c)
  PROVE  GdtInv'
<1>1. CallInv(c) /\ GdtType /\ NULL \notin Creators
  BY GdtAssumption DEF GdtInv
<1>2. /\ pc[c] = "name" /\ pc' = [pc EXCEPT ![c] = "done"]
      /\ UNCHANGED <<gdt_table, holder, i, tss_sel>>
  BY DEF check_name, Goto
<1>3. GdtType'
  BY <1>1, <1>2 DEF GdtType
<1>4. Mine(c)' = Mine(c)
  BY <1>1, <1>2 DEF GdtType, Mine
<1>5. CallInv(c)'
  BY <1>1, <1>2, <1>4 DEF GdtType, CallInv, TssDesc
<1>6. \A e \in Creators \ {c} : /\ pc'[e] = pc[e]
                                /\ i'[e] = i[e]
                                /\ tss_sel'[e] = tss_sel[e]
                                /\ holder' = e <=> holder = e
  BY <1>1, <1>2 DEF GdtType
<1> QED
  BY <1>2, <1>3, <1>4, <1>5, <1>6, QuietStep

\* Every step of Gdt keeps the invariant.
LEMMA NextGdtInv == GdtInv /\ [Next]_vars => GdtInv'
<1> SUFFICES ASSUME GdtInv, [Next]_vars
             PROVE  GdtInv'
  OBVIOUS
<1>1. ASSUME NEW c \in Creators, Step(c)
      PROVE  GdtInv'
  BY <1>1, AllocQuiet, MarkInv, FillInv, NameInv DEF Step
<1>2. CASE UNCHANGED vars
  <2>1. UNCHANGED <<gdt_table, holder, pc, i, tss_sel>>
    BY <1>2 DEF vars
  <2>2. \A c \in Creators : Mine(c)' = Mine(c) /\ TssDesc(c)' = TssDesc(c)
    BY <2>1 DEF Mine, TssDesc
  <2>3. \A c \in Creators : CallInv(c)'
    BY <2>1, <2>2 DEF GdtInv, CallInv
  <2>4. GdtType' /\ gdt_table'[1] = Segment(SEG_TYPE_CODE)
                 /\ gdt_table'[2] = Segment(SEG_TYPE_RW)
    BY <2>1 DEF GdtInv, GdtType
  <2> QED
    BY <2>2, <2>3, <2>4 DEF GdtInv
<1> QED
  BY <1>1, <1>2 DEF Next, Done

\* However many calls of task_init interleave, whatever the size of the table
\* and wherever the task_t lie: the kernel's segments stay as gdt_init packed
\* them, and no task's TSS descriptor is overwritten by or shared with
\* another's (get_alloc_desc, segment_desc_set, tss_init).
THEOREM DescriptorsRight == Spec => []TableRight
<1>1. ASSUME GdtInv PROVE TableRight
  <2>1. \A k \in {1, 2} : /\ SEG_P_PRESENT \subseteq gdt_table[k].attr
                          /\ BaseOf(gdt_table[k]) = 0
                          /\ LimitOf(gdt_table[k]) = ADDRESS - 1
    BY <1>1, SegmentRight DEF GdtInv, SEG_TYPE_CODE, SEG_TYPE_RW
  <2>2. ASSUME NEW c \in Creators, tss_sel[c] # 0
        PROVE  LET d == gdt_table[tss_sel[c]]
               IN  /\ d.attr = SEG_P_PRESENT \cup SEG_TYPE_TSS
                   /\ BaseOf(d) = tss(c)
                   /\ LimitOf(d) \in TSS_SIZE - 1 .. TASK_SIZE - 1
                   /\ \A e \in Creators \ {c} : tss_sel[e] # tss_sel[c]
    <3>1. gdt_table[tss_sel[c]] = TssDesc(c)
      BY <1>1, <2>2 DEF GdtInv, CallInv
    <3>2. TSS_SIZE \in TSS_SIZE - 1 .. TASK_SIZE - 1
      BY GdtAssumption, Widths
    <3>3. ASSUME NEW e \in Creators \ {c}, tss_sel[e] = tss_sel[c]
          PROVE  FALSE
      <4>1. tss_sel[c] \in Mine(c) /\ tss_sel[c] \in Mine(e)
        BY <1>1, <2>2, <3>3, GdtAssumption DEF GdtInv, GdtType, Mine
      <4> QED
        BY <1>1, <4>1 DEF GdtInv
    <3> QED
      BY <3>1, <3>2, <3>3, TssDescRight
  <2> QED
    BY <2>1, <2>2 DEF TableRight
<1> QED
  BY <1>1, InitGdtInv, NextGdtInv, PTL DEF Spec

=============================================================================
