----------------------------- MODULE KlibProofs -----------------------------
(***************************************************************************)
(* Proofs about kernel/tools/klib.c, for every size of memory, every legal *)
(* argument and every format: what the string and memory helpers do (from  *)
(* StrInv), what kernel_vsprintf and kernel_itoa write (from FmtInv), and  *)
(* how much of the caller's buffer that takes (from RoomInv).              *)
(***************************************************************************)
EXTENDS Klib, ListLemmas, FiniteSetTheorems

-----------------------------------------------------------------------------
(* Strings.                                                                *)

\* kernel_strlen finds the first zero.
LEMMA LengthIs ==
  ASSUME NEW mem \in [Address -> Bytes], NEW a \in Address, IsString(mem, a)
  PROVE  /\ Length(mem, a) \in Nat
         /\ a + Length(mem, a) \in Address
         /\ mem[a + Length(mem, a)] = 0
         /\ \A j \in Nat : j < Length(mem, a) => mem[a + j] # 0
<1> DEFINE Zeros == {b \in Address : b >= a /\ mem[b] = 0}
<1>1. Zeros \in SUBSET Nat /\ Zeros # {}
  BY StringsAssumption DEF IsString, Address
<1>2. \E x \in Zeros : \A y \in Zeros : x <= y
  BY <1>1, LeastNat
<1>3. Min(Zeros) \in Zeros /\ \A y \in Zeros : Min(Zeros) <= y
  BY <1>2, Zenon DEF Min
<1>4. Length(mem, a) = Min(Zeros) - a
  BY DEF Length
<1> DEFINE n == Min(Zeros)
<1>5. n \in Zeros /\ (\A y \in Zeros : n <= y) /\ Length(mem, a) = n - a
  BY <1>3, <1>4
<1> HIDE DEF n
<1>6. a \in Nat /\ n \in Nat /\ n \in Address /\ n >= a /\ mem[n] = 0
  BY <1>5, StringsAssumption DEF Address
<1>7. ASSUME NEW j \in Nat, j < n - a PROVE mem[a + j] # 0
  <2>1. a + j \in Address /\ a + j >= a /\ ~(n <= a + j)
    BY <1>6, <1>7, StringsAssumption DEF Address
  <2> QED
    BY <2>1, <1>5
<1> QED
  BY <1>5, <1>6, <1>7

\* It is the only place with that property.
LEMMA LengthUnique ==
  ASSUME NEW mem \in [Address -> Bytes], NEW a \in Address, NEW n \in Nat,
         a + n \in Address, mem[a + n] = 0,
         \A j \in Nat : j < n => mem[a + j] # 0
  PROVE  IsString(mem, a) /\ Length(mem, a) = n
<1>1. a \in Nat /\ a + n >= a
  BY StringsAssumption DEF Address
<1>2. IsString(mem, a)
  BY <1>1 DEF IsString
<1> DEFINE l == Length(mem, a)
<1>3. /\ l \in Nat /\ mem[a + l] = 0
      /\ \A j \in Nat : j < l => mem[a + j] # 0
  BY <1>2, LengthIs
<1> HIDE DEF l
<1>4. l = n
  BY <1>3
<1> QED
  BY <1>2, <1>4 DEF l

\* What is left of a string is a string, as much shorter.
LEMMA LengthOfRest ==
  ASSUME NEW mem \in [Address -> Bytes], NEW a \in Address, IsString(mem, a),
         NEW d \in Nat, d <= Length(mem, a)
  PROVE  /\ a + d \in Address /\ IsString(mem, a + d)
         /\ Length(mem, a + d) = Length(mem, a) - d
<1> DEFINE n == Length(mem, a)
<1>1. /\ n \in Nat /\ a + n \in Address /\ mem[a + n] = 0
      /\ \A j \in Nat : j < n => mem[a + j] # 0
  BY LengthIs
<1>2. d <= n
  OBVIOUS
<1> HIDE DEF n
<1>3. a + d \in Address /\ n - d \in Nat /\ a + d + (n - d) = a + n
  BY <1>1, <1>2, StringsAssumption DEF Address
<1>4. ASSUME NEW j \in Nat, j < n - d PROVE mem[a + d + j] # 0
  <2>1. a + d + j = a + (d + j) /\ d + j \in Nat /\ d + j < n
    BY <1>1, <1>2, <1>4, StringsAssumption DEF Address
  <2> QED
    BY <1>1, <2>1
<1>5. IsString(mem, a + d) /\ Length(mem, a + d) = n - d
  BY <1>1, <1>3, <1>4, LengthUnique
<1> QED
  BY <1>3, <1>5 DEF n

-----------------------------------------------------------------------------
(* The helpers, in the middle of their loops.                              *)

\* The arguments of the running call are legal.
Callable ==
  \/ call \in Calls /\ Legal(before, call)
  \/ call = [op |-> "none", dest |-> 0, src |-> 0, c |-> 0, size |-> 0] /\ ret # "loop"

\* Only the destination of a call has changed.
Outside ==
  \A a \in Address \ Area(call.dest, Extent(before, call)) : bytes[a] = before[a]

\* The first d bytes have been copied.
CopiedTo(d) ==
  \A a \in Area(call.dest, d) : bytes[a] = before[call.src + (a - call.dest)]

\* Both pointers have moved d bytes.
Moved(d) == p = call.dest + d /\ q = call.src + d

\* Each helper, in the middle of its loop.
StrcpyInv ==
  LET n == Length(before, call.src)
      d == p - call.dest
  IN  /\ d \in 0 .. n /\ Moved(d) /\ CopiedTo(d)
      /\ ret # "loop" => CopiedTo(n + 1)

MemcpyInv ==
  LET d == call.size - i
  IN  i \in 0 .. call.size /\ Moved(d) /\ CopiedTo(d) /\ (ret # "loop" => i = 0)

MemsetInv ==
  /\ i \in 0 .. call.size /\ p = call.dest
  /\ \A a \in Area(call.dest, call.size) \ {call.dest} : bytes[a] = before[a]
  /\ i < call.size => bytes[call.dest] = call.c
  /\ ret # "loop" => i = 0

MemEqualInv ==
  /\ bytes = before
  /\ i \in 0 .. call.size /\ Moved(i) /\ SameBytes(i)
  /\ ret # "loop" =>
       \/ ret = "1" /\ i = call.size
       \/ ret = "0" /\ i < call.size /\ before[p] # before[q]

\* The loop ends in the middle of the strings.
StrEqualInv ==
  LET n == Length(before, call.src)
  IN  /\ bytes = before
      /\ i \in Nat /\ Moved(i) /\ SameBytes(i)
      /\ i > 0 => Length(before, call.dest) = n /\ i <= (n + 1) \div 2
      /\ ret # "loop" =>
           \/ ret = "0" /\ Length(before, call.dest) # n
           \/ ret = "0" /\ i < (n + 1) \div 2 /\ before[p] # before[q]
           \/ ret = "1" /\ Length(before, call.dest) = n /\ i = (n + 1) \div 2

\* The inductive invariant of the string and memory helpers.
StrInv ==
  /\ bytes \in [Address -> Bytes] /\ before \in [Address -> Bytes]
  /\ Callable /\ Outside
  /\ call.op = "strcpy" => StrcpyInv
  /\ call.op = "memcpy" => MemcpyInv
  /\ call.op = "memset" => MemsetInv
  /\ call.op = "mem_equal" => MemEqualInv
  /\ call.op = "str_equal" => StrEqualInv

\* What a running call may rely on.
LEMMA Running ==
  ASSUME StrInv, ret = "loop"
  PROVE  /\ call \in Calls /\ Legal(before, call)
         /\ call.dest \in Address /\ call.src \in Address
         /\ call.size \in Nat /\ call.c \in Bytes
         /\ Address \subseteq Nat
BY StringsAssumption DEF StrInv, Callable, Calls, Address

\* A copy reads what the source held before the call, and writes inside of
\* its destination.
LEMMA CopyInside ==
  ASSUME StrInv, ret = "loop", call.op \in {"strcpy", "memcpy"},
         NEW d \in Nat, d < Extent(before, call), Moved(d), CopiedTo(d),
         Extent(before, call) \in Nat,
         Write(p, bytes[q]), UNCHANGED <<before, call>>
  PROVE  /\ bytes' \in [Address -> Bytes]
         /\ bytes[q] = before[q]
         /\ Outside'
         /\ CopiedTo(d + 1)'
<1> DEFINE e == Extent(before, call)
<1>1. /\ call.dest \in Nat /\ call.src \in Nat /\ e \in Nat /\ d < e
      /\ Area(call.dest, e) \subseteq Address /\ Area(call.src, e) \subseteq Address
      /\ Area(call.dest, e) \cap Area(call.src, e) = {}
  BY Running DEF Legal
<1>2. e' = e
  BY DEF Extent
<1> HIDE DEF e
<1>3. p \in Area(call.dest, e) /\ q \in Area(call.src, e)
  BY <1>1 DEF Moved, Area
<1>4. p \in Address /\ q \in Address /\ q \notin Area(call.dest, e)
  BY <1>1, <1>3
<1>5. bytes \in [Address -> Bytes] /\ before \in [Address -> Bytes]
  BY DEF StrInv
<1>6. bytes[q] = before[q]
  BY <1>4 DEF StrInv, Outside, e
<1>7. bytes' = [bytes EXCEPT ![p] = bytes[q]]
  BY DEF Write
<1>8. bytes' \in [Address -> Bytes] /\ bytes'[p] = before[q]
      /\ \A a \in Address \ {p} : bytes'[a] = bytes[a]
  BY <1>4, <1>5, <1>6, <1>7
<1>9. ASSUME NEW a \in Address \ Area(call.dest, e) PROVE bytes'[a] = before[a]
  <2>1. bytes[a] = before[a]
    BY DEF StrInv, Outside, e
  <2> QED
    BY <2>1, <1>3, <1>8
<1>10. Outside'
  BY <1>9, <1>2 DEF Outside, e
<1>11. ASSUME NEW a \in Area(call.dest, d + 1)
       PROVE  bytes'[a] = before[call.src + (a - call.dest)]
  <2>1. a \in Area(call.dest, e)
    BY <1>1 DEF Area
  <2>2. CASE a = p
    BY <2>2, <1>1, <1>8 DEF Moved
  <2>3. CASE a # p
    <3>1. a \in Area(call.dest, d)
      BY <2>3, <1>1 DEF Area, Moved
    <3> QED
      BY <3>1, <2>1, <2>3, <1>1, <1>8 DEF CopiedTo
  <2> QED
    BY <2>2, <2>3
<1> QED
  BY <1>6, <1>8, <1>10, <1>11 DEF CopiedTo

\* Every step of every helper keeps the invariant.
LEMMA StrcpyStep == StrInv /\ kernel_strcpy => StrInv'
<1> SUFFICES ASSUME StrInv, kernel_strcpy PROVE StrInv'
  OBVIOUS
<1> DEFINE n == Length(before, call.src)
<1>1. call.op = "strcpy" /\ ret = "loop" /\ UNCHANGED <<before, call>>
  BY DEF kernel_strcpy, In
<1>2. /\ n \in Nat /\ Extent(before, call) = n + 1
      /\ before[call.src + n] = 0
      /\ \A j \in Nat : j < n => before[call.src + j] # 0
  BY <1>1, Running, LengthIs DEF StrInv, Legal, Extent
<1>3. PICK d \in 0 .. n : d = p - call.dest /\ Moved(d) /\ CopiedTo(d)
  BY <1>1 DEF StrInv, StrcpyInv
<1>n. n' = n
  BY <1>1
<1> HIDE DEF n
<1>4. d \in Nat /\ d < n + 1 /\ Write(p, bytes[q])
  BY <1>2, <1>3 DEF kernel_strcpy
<1>5. bytes' \in [Address -> Bytes] /\ bytes[q] = before[q] /\ Outside' /\ CopiedTo(d + 1)'
  BY <1>1, <1>2, <1>3, <1>4, CopyInside
<1>6. q = call.src + d /\ p = call.dest + d /\ call.src \in Nat /\ call.dest \in Nat
  BY <1>1, <1>3, Running DEF Moved
<1>7. StrcpyInv'
  <2>1. CASE bytes[q] # 0
    <3>1. p' = p + 1 /\ q' = q + 1 /\ ret' = "loop"
      BY <2>1, <1>1 DEF kernel_strcpy, Advance
    <3>2. d # n
      BY <2>1, <1>2, <1>5, <1>6
    <3>3. d + 1 \in 0 .. n /\ p' - call.dest = d + 1 /\ Moved(d + 1)'
      BY <3>1, <3>2, <1>1, <1>2, <1>3, <1>6 DEF Moved
    <3> QED
      BY <3>1, <3>3, <1>1, <1>5, <1>n DEF StrcpyInv, n
  <2>2. CASE bytes[q] = 0
    <3>1. UNCHANGED <<p, q>>
      BY <2>2 DEF kernel_strcpy, Return
    <3>2. d = n
      BY <2>2, <1>2, <1>3, <1>4, <1>5, <1>6
    <3>3. CopiedTo(d)'
      BY <1>4, <1>5, <1>6, <1>1 DEF CopiedTo, Area
    <3>4. (p - call.dest)' = d /\ Moved(d)'
      BY <3>1, <1>1, <1>3 DEF Moved
    <3> QED
      BY <3>2, <3>3, <3>4, <1>3, <1>5, <1>n DEF StrcpyInv, n
  <2> QED
    BY <2>1, <2>2
<1> QED
  BY <1>1, <1>5, <1>7, Running DEF StrInv, Callable

LEMMA MemcpyStep == StrInv /\ kernel_memcpy => StrInv'
<1> SUFFICES ASSUME StrInv, kernel_memcpy PROVE StrInv'
  OBVIOUS
<1>1. call.op = "memcpy" /\ ret = "loop" /\ UNCHANGED <<before, call>>
  BY DEF kernel_memcpy, In
<1>2. Extent(before, call) = call.size /\ call.size \in Nat
  BY <1>1, Running DEF Extent
<1>3. PICK d \in 0 .. call.size :
        i = call.size - d /\ d = call.size - i /\ Moved(d) /\ CopiedTo(d)
  BY <1>1, <1>2 DEF StrInv, MemcpyInv
<1>4. i \in Int /\ call.src \in Nat /\ call.dest \in Nat
  BY <1>1, <1>3, Running DEF Calls, StrInv, MemcpyInv
<1>5. CASE size_left
  <2>1. /\ Write(p, bytes[q]) /\ p' = p + 1 /\ q' = q + 1 /\ i' = i - 1
        /\ ret' = "loop"
    BY <1>1, <1>5 DEF kernel_memcpy, Advance
  <2>2. d < call.size /\ d \in Nat
    BY <1>2, <1>3, <1>4, <1>5 DEF size_left
  <2>3. bytes' \in [Address -> Bytes] /\ Outside' /\ CopiedTo(d + 1)'
    BY <1>1, <1>2, <1>3, <2>1, <2>2, CopyInside
  <2>4. (call.size - i)' = d + 1 /\ i' \in 0 .. call.size /\ Moved(d + 1)'
    BY <1>1, <1>2, <1>3, <1>4, <2>1, <2>2 DEF Moved
  <2>5. MemcpyInv'
    BY <1>1, <2>1, <2>3, <2>4 DEF MemcpyInv
  <2> QED
    BY <1>1, <2>3, <2>5, Running DEF StrInv, Callable
<1>6. CASE ~size_left
  <2>1. UNCHANGED <<bytes, p, q, i>> /\ i = 0
    BY <1>6 DEF kernel_memcpy, Return, size_left
  <2>2. MemcpyInv'
    BY <1>1, <1>2, <1>3, <1>4, <2>1 DEF MemcpyInv, Moved, CopiedTo
  <2> QED
    BY <1>1, <2>1, <2>2, Running DEF StrInv, Callable, Outside, Extent
<1> QED
  BY <1>5, <1>6

LEMMA MemsetStep == StrInv /\ kernel_memset => StrInv'
<1> SUFFICES ASSUME StrInv, kernel_memset PROVE StrInv'
  OBVIOUS
<1>1. call.op = "memset" /\ ret = "loop" /\ UNCHANGED <<before, call>>
  BY DEF kernel_memset, In
<1>2. /\ Extent(before, call) = call.size /\ call.size \in Nat
      /\ Area(call.dest, call.size) \subseteq Address /\ call.dest \in Nat
      /\ call.c \in Bytes
  BY <1>1, Running DEF Extent, Legal
<1>3. /\ i \in 0 .. call.size /\ p = call.dest
      /\ \A a \in Area(call.dest, call.size) \ {call.dest} : bytes[a] = before[a]
      /\ i < call.size => bytes[call.dest] = call.c
      /\ bytes \in [Address -> Bytes]
  BY <1>1 DEF StrInv, MemsetInv
<1>4. CASE size_left
  <2>1. bytes' = [bytes EXCEPT ![p] = call.c] /\ i' = i - 1 /\ UNCHANGED <<p, ret>>
    BY <1>4 DEF kernel_memset, Write
  <2>2. p \in Area(call.dest, call.size) /\ p \in Address
    BY <1>2, <1>3, <1>4 DEF Area, size_left
  <2>3. /\ bytes' \in [Address -> Bytes] /\ bytes'[p] = call.c
        /\ \A a \in Address \ {p} : bytes'[a] = bytes[a]
    BY <1>2, <1>3, <2>1, <2>2
  <2>4. Extent(before, call)' = call.size
    BY <1>1, <1>2 DEF Extent
  <2>5. Outside'
    BY <1>1, <1>2, <2>2, <2>3, <2>4 DEF Outside, StrInv
  <2>6. MemsetInv'
    <3>1. i' \in 0 .. call.size
      BY <1>2, <1>3, <1>4, <2>1 DEF size_left
    <3>2. \A a \in Area(call.dest, call.size) \ {call.dest} : bytes'[a] = before[a]
      BY <1>2, <1>3, <2>3
    <3> QED
      BY <1>1, <1>3, <2>1, <2>3, <3>1, <3>2 DEF MemsetInv
  <2> QED
    BY <1>1, <2>3, <2>5, <2>6, Running DEF StrInv, Callable
<1>5. CASE ~size_left
  <2>1. UNCHANGED <<bytes, p, q, i>> /\ i = 0
    BY <1>5 DEF kernel_memset, Return, size_left
  <2>2. MemsetInv'
    BY <1>1, <1>2, <1>3, <2>1 DEF MemsetInv
  <2> QED
    BY <1>1, <2>1, <2>2, Running DEF StrInv, Callable, Outside, Extent
<1> QED
  BY <1>4, <1>5

LEMMA MemEqualStep == StrInv /\ kernel_mem_equal => StrInv'
<1> SUFFICES ASSUME StrInv, kernel_mem_equal PROVE StrInv'
  OBVIOUS
<1>1. /\ call.op = "mem_equal" /\ ret = "loop"
      /\ UNCHANGED <<before, call>> /\ UNCHANGED bytes
  BY DEF kernel_mem_equal, In
<1>2. call.size \in Nat /\ call.src \in Nat /\ call.dest \in Nat
  BY <1>1, Running
<1>3. bytes = before /\ i \in 0 .. call.size /\ Moved(i) /\ SameBytes(i)
  BY <1>1 DEF StrInv, MemEqualInv
<1>4. MemEqualInv'
  <2>1. CASE more_to_compare /\ bytes[p] = bytes[q]
    <3>1. p' = p + 1 /\ q' = q + 1 /\ i' = i + 1 /\ UNCHANGED ret
      BY <2>1 DEF kernel_mem_equal, Advance
    <3>2. i' \in 0 .. call.size /\ Moved(i)'
      BY <1>1, <1>2, <1>3, <2>1, <3>1 DEF more_to_compare, Moved
    <3>3. SameBytes(i)'
      BY <1>1, <1>2, <1>3, <2>1, <3>1 DEF SameBytes, Moved
    <3> QED
      BY <1>1, <1>3, <3>1, <3>2, <3>3 DEF MemEqualInv
  <2>2. CASE more_to_compare /\ bytes[p] # bytes[q]
    BY <1>1, <1>2, <1>3, <2>2
       DEF kernel_mem_equal, Return, more_to_compare, MemEqualInv, Moved, SameBytes
  <2>3. CASE ~more_to_compare
    BY <1>1, <1>2, <1>3, <2>3
       DEF kernel_mem_equal, Return, more_to_compare, MemEqualInv, Moved, SameBytes
  <2> QED
    BY <2>1, <2>2, <2>3
<1> QED
  BY <1>1, <1>4, Running DEF StrInv, Callable, Outside, Extent

LEMMA StrEqualStep == StrInv /\ kernel_str_equal => StrInv'
<1> SUFFICES ASSUME StrInv, kernel_str_equal PROVE StrInv'
  OBVIOUS
<1> DEFINE n == Length(before, call.src)
           l == Length(before, call.dest)
<1>1. /\ call.op = "str_equal" /\ ret = "loop"
      /\ UNCHANGED <<before, call>> /\ UNCHANGED bytes
  BY DEF kernel_str_equal, In
<1>2. /\ call.src \in Address /\ call.dest \in Address
      /\ call.src \in Nat /\ call.dest \in Nat
      /\ IsString(before, call.src) /\ IsString(before, call.dest)
  BY <1>1, Running DEF Legal
<1>3. n \in Nat /\ l \in Nat
  BY <1>2, LengthIs DEF StrInv
<1>4. /\ bytes = before /\ i \in Nat /\ Moved(i) /\ SameBytes(i)
      /\ i > 0 => l = n /\ i <= (n + 1) \div 2
  BY <1>1 DEF StrInv, StrEqualInv
<1>n. n' = n /\ l' = l
  BY <1>1
<1> HIDE DEF n, l
<1>5. CASE i = 0 /\ l # n
  <2>1. kernel_strlen(p) = l /\ kernel_strlen(q) = n
    BY <1>2, <1>4, <1>5 DEF kernel_strlen, Moved, n, l
  <2>2. ret' = "0" /\ UNCHANGED <<p, q, i>>
    BY <1>5, <2>1 DEF kernel_str_equal, Return
  <2>3. StrEqualInv'
    BY <1>1, <1>4, <1>5, <1>n, <2>2 DEF StrEqualInv, Moved, SameBytes, n, l
  <2> QED
    BY <1>1, <2>3, Running DEF StrInv, Callable, Outside, Extent
<1>6. CASE ~(i = 0 /\ l # n)
  <2>1. l = n /\ i <= (n + 1) \div 2 /\ i <= l
    BY <1>3, <1>4, <1>6
  <2>2. kernel_strlen(p) = n - i
    BY <1>2, <1>4, <2>1, LengthOfRest DEF kernel_strlen, Moved, StrInv, l
  <2>3. i = 0 => kernel_strlen(q) = n
    BY <1>2, <1>4 DEF kernel_strlen, Moved, n
  <2>4. i < kernel_strlen(p) <=> i < (n + 1) \div 2
    BY <1>3, <1>4, <2>2
  <2>5. ~(i = 0 /\ kernel_strlen(p) # kernel_strlen(q))
    BY <1>3, <2>2, <2>3
  <2>6. CASE i < (n + 1) \div 2 /\ bytes[p] = bytes[q]
    <3>1. p' = p + 1 /\ q' = q + 1 /\ i' = i + 1 /\ UNCHANGED ret
      BY <2>4, <2>5, <2>6 DEF kernel_str_equal, Advance
    <3>2. i' \in Nat /\ i' <= (n + 1) \div 2 /\ Moved(i)'
      BY <1>1, <1>2, <1>3, <1>4, <2>6, <3>1 DEF Moved
    <3>3. SameBytes(i)'
      BY <1>1, <1>2, <1>4, <2>6, <3>1 DEF SameBytes, Moved
    <3> QED
      BY <1>1, <1>4, <1>n, <2>1, <3>1, <3>2, <3>3, Running
         DEF StrInv, StrEqualInv, Callable, Outside, Extent, n, l
  <2>7. CASE i < (n + 1) \div 2 /\ bytes[p] # bytes[q]
    <3>1. ret' = "0" /\ UNCHANGED <<p, q, i>>
      BY <2>4, <2>5, <2>7 DEF kernel_str_equal, Return
    <3>2. StrEqualInv'
      BY <1>1, <1>4, <1>n, <2>7, <3>1 DEF StrEqualInv, Moved, SameBytes, n, l
    <3> QED
      BY <1>1, <3>2, Running DEF StrInv, Callable, Outside, Extent
  <2>8. CASE ~(i < (n + 1) \div 2)
    <3>1. ret' = "1" /\ UNCHANGED <<p, q, i>>
      BY <2>4, <2>5, <2>8 DEF kernel_str_equal, Return
    <3>2. i = (n + 1) \div 2
      BY <1>3, <1>4, <2>1, <2>8
    <3>3. StrEqualInv'
      BY <1>1, <1>4, <1>n, <2>1, <3>1, <3>2
         DEF StrEqualInv, Moved, SameBytes, n, l
    <3> QED
      BY <1>1, <3>3, Running DEF StrInv, Callable, Outside, Extent
  <2> QED
    BY <2>6, <2>7, <2>8
<1> QED
  BY <1>5, <1>6

\* A call has just been made.
LEMMA StrInvInit == Init => StrInv
<1>1. ASSUME NoHelper PROVE StrInv
  <2>1. Extent(before, call) = 0 /\ before \in [Address -> Bytes]
    BY <1>1, StringsAssumption DEF NoHelper, Extent
  <2> QED
    BY <1>1, <2>1 DEF NoHelper, StrInv, Callable, Outside
<1>2. ASSUME StrInit PROVE StrInv
  <2>1. /\ bytes \in [Address -> Bytes] /\ before = bytes
        /\ call \in Calls /\ Legal(before, call) /\ ret = "loop"
        /\ p = call.dest /\ q = call.src
    BY <1>2 DEF StrInit
  <2>2. call.size \in Nat /\ call.dest \in Nat /\ call.src \in Nat /\ call.src \in Address
    BY <2>1, StringsAssumption DEF Calls, Address
  <2>3. Moved(0) /\ CopiedTo(0) /\ SameBytes(0) /\ Callable /\ Outside
    BY <2>1, <2>2 DEF Moved, CopiedTo, SameBytes, Callable, Outside, Area
  <2>4. call.op = "strcpy" => StrcpyInv
    <3> SUFFICES ASSUME call.op = "strcpy" PROVE StrcpyInv
      OBVIOUS
    <3>1. Length(before, call.src) \in Nat
      BY <2>1, <2>2, LengthIs DEF Legal
    <3>2. p - call.dest = 0
      BY <2>1, <2>2
    <3> QED
      BY <2>1, <2>3, <3>1, <3>2 DEF StrcpyInv
  <2>5. call.op = "memcpy" => MemcpyInv
    <3> SUFFICES ASSUME call.op = "memcpy" PROVE MemcpyInv
      OBVIOUS
    <3>1. i = call.size /\ call.size - i = 0
      BY <1>2, <2>2 DEF StrInit
    <3> QED
      BY <2>1, <2>2, <2>3, <3>1 DEF MemcpyInv
  <2>6. call.op = "memset" => MemsetInv
    <3> SUFFICES ASSUME call.op = "memset" PROVE MemsetInv
      OBVIOUS
    <3>1. i = call.size
      BY <1>2 DEF StrInit
    <3> QED
      BY <2>1, <2>2, <3>1 DEF MemsetInv
  <2>7. call.op \in {"mem_equal", "str_equal"} => i = 0
    BY <1>2 DEF StrInit
  <2>8. call.op = "mem_equal" => MemEqualInv
    BY <2>1, <2>2, <2>3, <2>7 DEF MemEqualInv
  <2>9. call.op = "str_equal" => StrEqualInv
    BY <2>1, <2>2, <2>3, <2>7 DEF StrEqualInv
  <2> QED
    BY <2>1, <2>3, <2>4, <2>5, <2>6, <2>8, <2>9 DEF StrInv
<1> QED
  BY <1>1, <1>2 DEF Init

\* Every step keeps the invariant.
LEMMA StrInvNext == StrInv /\ [Next]_vars => StrInv'
<1> SUFFICES ASSUME StrInv, [Next]_vars PROVE StrInv'
  OBVIOUS
<1>1. CASE UNCHANGED strVars
  BY <1>1 DEF strVars, StrInv, Callable, Outside, Moved, CopiedTo, SameBytes,
              StrcpyInv, MemcpyInv, MemsetInv, MemEqualInv, StrEqualInv
<1>2. CASE StrNext
  BY <1>2, StrcpyStep, MemcpyStep, MemsetStep, MemEqualStep, StrEqualStep
     DEF StrNext
<1> QED
  BY <1>1, <1>2 DEF Next, Returned, vars

\* The invariant says what a call that has returned has done.
LEMMA StrInvRight == StrInv => HelpersRight
<1> SUFFICES ASSUME StrInv PROVE HelpersRight
  OBVIOUS
<1> DEFINE n == Length(before, call.src)
<1>1. /\ call \in Calls => call.size \in Nat /\ call.dest \in Address /\ call.src \in Address
      /\ Address \subseteq Nat
  BY StringsAssumption DEF Calls, Address
<1>2. ASSUME ret # "loop", call.op \in {"strcpy", "memcpy"}
      PROVE  CopiedTo(Extent(before, call))
  <2>1. call.op = "strcpy" => CopiedTo(n + 1)
    BY <1>2 DEF StrInv, StrcpyInv
  <2>2. call.op = "memcpy" => CopiedTo(call.size)
    BY <1>1, <1>2 DEF StrInv, MemcpyInv, Callable
  <2> QED
    BY <1>2, <2>1, <2>2 DEF Extent
<1>3. ASSUME ret # "loop", call.op = "mem_equal"
      PROVE  ret = "1" <=> SameBytes(call.size)
  <2> call \in Calls
    BY <1>3 DEF StrInv, Callable
  <2>1. call.dest \in Nat /\ call.src \in Nat /\ call.size \in Nat
    BY <1>1
  <2>2. MemEqualInv
    BY <1>3 DEF StrInv
  <2> QED
    BY <1>3, <2>1, <2>2 DEF MemEqualInv, SameBytes, Moved
<1>4. ASSUME ret # "loop", call.op = "str_equal"
      PROVE  /\ SameStrings => ret = "1"
             /\ Length(before, call.dest) # n => ret = "0"
  <2>1. call \in Calls /\ Legal(before, call)
    BY <1>4 DEF StrInv, Callable
  <2>2. n \in Nat
    BY <1>1, <1>4, <2>1, LengthIs DEF Legal, StrInv
  <2>3. StrEqualInv /\ call.dest \in Nat /\ call.src \in Nat
    BY <1>1, <1>4, <2>1 DEF StrInv
  <2>4. SameStrings => Length(before, call.dest) = n /\ SameBytes(n)
    BY DEF SameStrings
  <2> HIDE DEF n
  <2>5. (n + 1) \div 2 \in Nat /\ (n + 1) \div 2 <= n
    BY <2>2
  <2>6. /\ Moved(i) /\ i \in Nat
        /\ \/ ret = "0" /\ Length(before, call.dest) # n
           \/ ret = "0" /\ i < (n + 1) \div 2 /\ before[p] # before[q]
           \/ ret = "1" /\ Length(before, call.dest) = n /\ i = (n + 1) \div 2
    BY <1>4, <2>3 DEF StrEqualInv, n
  <2>7. SameBytes(n) /\ i < (n + 1) \div 2 => before[p] = before[q]
    BY <2>2, <2>3, <2>5, <2>6 DEF SameBytes, Moved
  <2> QED
    BY <2>4, <2>6, <2>7
<1>5. ASSUME ret # "loop", call.op = "memset"
      PROVE  \A a \in Area(call.dest, call.size) :
               bytes[a] = IF a = call.dest THEN call.c ELSE before[a]
  <2>0. call \in Calls
    BY <1>5 DEF StrInv, Callable
  <2>1. call.size \in Nat /\ call.dest \in Nat
    BY <1>1, <2>0
  <2>2. /\ i = 0 /\ (i < call.size => bytes[call.dest] = call.c)
        /\ \A a \in Area(call.dest, call.size) \ {call.dest} : bytes[a] = before[a]
    BY <1>5 DEF StrInv, MemsetInv
  <2>3. ASSUME NEW a \in Area(call.dest, call.size) PROVE call.size > 0
    BY <2>1, <2>3 DEF Area
  <2> QED
    BY <2>1, <2>2, <2>3
<1> QED
  BY <1>2, <1>3, <1>4, <1>5 DEF HelpersRight, StrInv, Outside, CopiedTo

\* In every reachable state, for any memory and any legal arguments: no helper
\* has written outside of its destination, a copy that has returned is
\* complete, kernel_mem_equal has compared the whole areas, kernel_str_equal
\* has not told equal strings apart nor taken strings of different lengths for
\* equal, and kernel_memset has set the first byte of its area and no other.
THEOREM HelpersDoTheirJob == Spec => []HelpersRight
<1>1. Spec => []StrInv
  BY StrInvInit, StrInvNext, PTL DEF Spec
<1> QED
  BY <1>1, StrInvRight, PTL

-----------------------------------------------------------------------------
(* Formatting, in the middle of a call.                                    *)

\* What can be written.
Letters == FmtChars \cup Chars \cup {num2ch[j] : j \in 1 .. 16} \cup {"-", "?"}

\* The pieces of the first n characters are texts, which fit their widths.
Typed(f, a, n) == \A j \in 1 .. n : Piece(f, a, j) \in Seq(Letters)
Fits(f, a, n) == \A j \in 1 .. n : Len(Piece(f, a, j)) <= Width(f, j)

\* The characters of the format that are done with, when no number is being
\* written, and what they have written.
ReadInv ==
  /\ fmt \in Formats /\ k \in 1 .. Len(fmt) + 1
  /\ k <= Len(fmt) => state = IF Open(fmt, k) THEN "READ_FMT" ELSE "NORMAL"
  /\ args \in Seq(Range(args))
  /\ Len(args) = Cardinality(Fetches(fmt, k - 1))
  /\ Typed(fmt, args, k - 1)

\* kernel_itoa has been called on its own.
AloneInv ==
  /\ fmt = <<>> /\ k = 1
  /\ args = <<args[1], base>> /\ args[1] \in Ints

\* kernel_itoa is to write the number Arg behind Prior.
Arg == IF Alone THEN args[1] ELSE Last(args)
Prior == IF Alone THEN <<>> ELSE Output(fmt, args, k - 2)
Lead == Prior \o Sign(Arg, base)
Whole == Numeral(Abs(Arg), base)

\* kernel_itoa does not refuse the number.
Accepted == base \in {2, 10, 16} /\ ~(Arg < 0 /\ base = 16)

\* The digits so far, backwards, complete the digits of what is left.
DigitsInv ==
  LET low == SubSeq(buf, start, Len(buf))
  IN  /\ Accepted /\ num \in Ints
      /\ start = Len(Lead) + 1
      /\ low \in Seq(Letters) /\ buf = Lead \o low
      /\ Whole = Numeral(Abs(num), base) \o Reverse(low)

\* The digits outside of start .. end are where they belong, and the others
\* are in reverse.
ReverseInv ==
  LET h == Len(Lead)
      n == Len(Whole)
  IN  /\ Accepted
      /\ buf \in Seq(Letters) /\ Len(buf) = h + n
      /\ start \in Nat /\ end \in Nat
      /\ start > h /\ start <= end + 1 /\ start + end = 2 * h + n + 1
      /\ \A j \in 1 .. h : buf[j] = Lead[j]
      /\ \A j \in 1 .. n :
           buf[h + j] = Whole[IF start <= h + j /\ h + j <= end THEN n + 1 - j ELSE j]

\* A number is being written.
NumberInv ==
  /\ Arg \in Ints /\ base \in {2, 8, 10, 16}
  /\ ~Alone => /\ k > 1 /\ Open(fmt, k - 1) /\ fmt[k - 1] \in {"d", "x"}
               /\ base = (IF fmt[k - 1] = "d" THEN 10 ELSE 16)
  /\ pc \in {"itoa", "spin"} => num = Arg /\ buf = Prior
  /\ pc = "digits" => DigitsInv
  /\ pc = "reverse" => ReverseInv

\* The inductive invariant of a call of kernel_vsprintf or kernel_itoa.
FmtInv ==
  /\ pc \in {"vsprintf", "done", "itoa", "spin", "digits", "reverse"}
  /\ IF Alone THEN AloneInv ELSE ReadInv
  /\ pc = "vsprintf" => ~Alone /\ buf = Output(fmt, args, k - 1)
  /\ pc = "done" =>
       /\ k = Len(fmt) + 1
       /\ buf = IF Alone THEN Signed(args[1], args[2])
                         ELSE Output(fmt, args, k - 1) \o <<NUL>>
  /\ pc \in {"itoa", "spin", "digits", "reverse"} => NumberInv

\* What has been written fits into the room for what has been read, but for a
\* number that is still to come.
RoomInv ==
  ~Alone => Fits(fmt, args, IF pc \in {"vsprintf", "done"} THEN k - 1 ELSE k - 2)

-----------------------------------------------------------------------------
(* Numerals, and the directives of a format.                               *)

\* The bases that kernel_itoa accepts.
Bases == {2, 10, 16}

\* Quotient and remainder in one of these bases.
LEMMA DivMod ==
  ASSUME NEW b \in Bases, NEW y \in Nat
  PROVE  /\ y \div b \in Nat /\ y \div b <= y
         /\ y > 0 => y \div b < y
         /\ y \div b = 0 <=> y < b
         /\ y % b \in 0 .. 15
<1>1. CASE b = 2
  BY <1>1
<1>2. CASE b = 10
  BY <1>2
<1>3. CASE b = 16
  BY <1>3
<1> QED
  BY <1>1, <1>2, <1>3 DEF Bases

\* The last digit of y.
DigitChar(y, b) == num2ch[(y % b) + 1]

\* A digit is a character that can be written.
LEMMA DigitLetter ==
  ASSUME NEW b \in Bases, NEW y \in Nat
  PROVE  DigitChar(y, b) \in Letters
<1>1. (y % b) + 1 \in 1 .. 16
  BY DivMod
<1> QED
  BY <1>1 DEF DigitChar, Letters

\* f holds the numerals up to n.
Tabulates(f, b, n) ==
  \A y \in 0 .. n :
    f[y] = (IF y < b THEN <<>> ELSE f[y \div b]) \o <<DigitChar(y, b)>>

\* There is a table of the numerals up to N.
LEMMA Table ==
  ASSUME NEW b \in Bases, NEW N \in Nat
  PROVE  \E f \in [0 .. N -> Seq(Letters)] : Tabulates(f, b, N)
<1> DEFINE S == {n \in Nat : \E f \in [0 .. n -> Seq(Letters)] : Tabulates(f, b, n)}
<1>0. b \in Nat /\ b > 1
  BY DEF Bases
<1>1. 0 \in S
  <2>1. PICK f : f = [y \in 0 .. 0 |-> <<DigitChar(y, b)>>]
    OBVIOUS
  <2>2. DigitChar(0, b) \in Letters
    BY DigitLetter
  <2>3. f \in [0 .. 0 -> Seq(Letters)]
    BY <2>1, <2>2
  <2>4. Tabulates(f, b, 0)
    BY <1>0, <2>1 DEF Tabulates
  <2> QED
    BY <2>3, <2>4
<1>2. ASSUME NEW n \in Nat, n \in S PROVE n + 1 \in S
  <2>1. PICK f \in [0 .. n -> Seq(Letters)] : Tabulates(f, b, n)
    BY <1>2
  <2>2. PICK last : last = (IF n + 1 < b THEN <<>> ELSE f[(n + 1) \div b]) \o <<DigitChar(n + 1, b)>>
    OBVIOUS
  <2>3. PICK g : g = [y \in 0 .. n + 1 |-> IF y = n + 1 THEN last ELSE f[y]]
    OBVIOUS
  <2>4. (n + 1) \div b \in 0 .. n /\ n + 1 \in Nat
    BY DivMod
  <2>5. last \in Seq(Letters)
    <3>1. DigitChar(n + 1, b) \in Letters
      BY DigitLetter
    <3>2. f[(n + 1) \div b] \in Seq(Letters)
      BY <2>1, <2>4
    <3> QED
      BY <2>2, <3>1, <3>2
  <2>6. g \in [0 .. n + 1 -> Seq(Letters)]
    BY <2>1, <2>3, <2>5
  <2>7. ASSUME NEW y \in 0 .. n + 1
        PROVE  g[y] = (IF y < b THEN <<>> ELSE g[y \div b]) \o <<DigitChar(y, b)>>
    <3>1. y \div b \in 0 .. n
      <4>1. y \div b \in Nat /\ y \div b <= y /\ (y > 0 => y \div b < y)
        BY DivMod
      <4> QED
        BY <4>1
    <3>2. g[y \div b] = f[y \div b]
      BY <2>3, <3>1
    <3>3. CASE y = n + 1
      BY <2>2, <2>3, <3>2, <3>3
    <3>4. CASE y # n + 1
      <4>1. y \in 0 .. n
        BY <3>4
      <4>2. g[y] = f[y]
        BY <2>3, <3>4
      <4> QED
        BY <2>1, <3>2, <4>1, <4>2 DEF Tabulates
    <3> QED
      BY <3>3, <3>4
  <2>8. Tabulates(g, b, n + 1)
    BY <2>7 DEF Tabulates
  <2> QED
    BY <2>6, <2>8
<1>3. Nat \subseteq S
  <2> HIDE DEF S
  <2> QED
    BY <1>1, <1>2, SetInduction
<1> QED
  BY <1>3

\* Numeral satisfies the recursion that defines it.
LEMMA NumeralTable ==
  ASSUME NEW b \in Bases
  PROVE  \E f \in [0 .. INT_MAX + 1 -> Seq(Letters)] :
           /\ Tabulates(f, b, INT_MAX + 1)
           /\ \A x \in 0 .. INT_MAX + 1 : Numeral(x, b) = f[x]
<1> DEFINE N == INT_MAX + 1
           C == CHOOSE f : f = [y \in 0 .. INT_MAX + 1 |->
                  (IF y < b THEN <<>> ELSE f[y \div b]) \o <<num2ch[(y % b) + 1]>>]
<1>1. N \in Nat
  BY FormatAssumption
<1>2. PICK f \in [0 .. N -> Seq(Letters)] : Tabulates(f, b, N)
  BY <1>1, Table
<1>3. f = [y \in 0 .. N |-> (IF y < b THEN <<>> ELSE f[y \div b]) \o <<num2ch[(y % b) + 1]>>]
  BY <1>2 DEF Tabulates, DigitChar
<1>4. C = [y \in 0 .. N |-> (IF y < b THEN <<>> ELSE C[y \div b]) \o <<num2ch[(y % b) + 1]>>]
  BY <1>3, Zenon
<1>5. \A x \in 0 .. N : Numeral(x, b) = C[x]
  BY DEF Numeral
<1> HIDE DEF C
<1> DEFINE S == {n \in Nat : \A y \in 0 .. n : y <= N => C[y] = f[y]}
<1>a. ASSUME NEW y \in 0 .. N, y < b \/ C[y \div b] = f[y \div b]
      PROVE  C[y] = f[y]
  BY <1>a, <1>3, <1>4
<1>6. 0 \in S
  <2>1. 0 \in 0 .. N /\ 0 < b
    BY <1>1 DEF Bases
  <2>2. C[0] = f[0]
    BY <1>a, <2>1
  <2> QED
    BY <2>2
<1>7. ASSUME NEW n \in Nat, n \in S PROVE n + 1 \in S
  <2> SUFFICES ASSUME n + 1 <= N PROVE C[n + 1] = f[n + 1]
    BY <1>7
  <2>1. (n + 1) \div b \in 0 .. n /\ (n + 1) \div b <= N
    <3>1. /\ (n + 1) \div b \in Nat
          /\ n + 1 > 0 => (n + 1) \div b < n + 1
      BY DivMod
    <3> QED
      BY <1>1, <3>1
  <2>2. C[(n + 1) \div b] = f[(n + 1) \div b]
    BY <1>7, <2>1
  <2> QED
    BY <1>1, <1>a, <2>2
<1>8. Nat \subseteq S
  <2> HIDE DEF S
  <2> QED
    BY <1>6, <1>7, SetInduction
<1>9. ASSUME NEW x \in 0 .. N PROVE C[x] = f[x]
  <2>1. x \in Nat /\ x <= N /\ x \in 0 .. x
    BY <1>1
  <2>2. x \in S
    <3> HIDE DEF S
    <3> QED
      BY <1>8, <2>1
  <2> QED
    BY <2>1, <2>2
<1> QED
  BY <1>2, <1>5, <1>9

\* What Numeral computes: its type, and its last digit.
LEMMA NumeralIs ==
  ASSUME NEW b \in Bases, NEW x \in 0 .. INT_MAX + 1
  PROVE  /\ Numeral(x, b) \in Seq(Letters)
         /\ x < b => Numeral(x, b) = <<DigitChar(x, b)>>
         /\ x >= b => /\ x \div b \in 0 .. INT_MAX + 1
                      /\ Numeral(x, b) = Append(Numeral(x \div b, b), DigitChar(x, b))
<1>0. INT_MAX + 1 \in Nat /\ b \in Nat
  BY FormatAssumption DEF Bases
<1>1. PICK f \in [0 .. INT_MAX + 1 -> Seq(Letters)] :
        /\ Tabulates(f, b, INT_MAX + 1)
        /\ \A y \in 0 .. INT_MAX + 1 : Numeral(y, b) = f[y]
  BY NumeralTable
<1>2. x \div b \in 0 .. INT_MAX + 1
  <2>1. x \div b \in Nat /\ x \div b <= x
    BY DivMod
  <2> QED
    BY <1>0, <2>1
<1>3. f[x] = (IF x < b THEN <<>> ELSE f[x \div b]) \o <<DigitChar(x, b)>>
  BY <1>1 DEF Tabulates
<1>4. DigitChar(x, b) \in Letters
  BY DigitLetter
<1>5. x < b => f[x] = <<DigitChar(x, b)>>
  BY <1>3, <1>4
<1>6. f[x \div b] \in Seq(Letters)
  BY <1>1, <1>2
<1>7. f[x \div b] \o <<DigitChar(x, b)>> = Append(f[x \div b], DigitChar(x, b))
  BY <1>4, <1>6, AppendIsConcat
<1>8. ASSUME x >= b PROVE f[x] = Append(f[x \div b], DigitChar(x, b))
  <2>1. ~(x < b)
    BY <1>0, <1>8
  <2> QED
    BY <1>3, <1>7, <2>1, Zenon
<1> QED
  BY <1>1, <1>2, <1>5, <1>8

\* A larger number has no fewer digits.
LEMMA NumeralLonger ==
  ASSUME NEW b \in Bases,
         NEW x \in 0 .. INT_MAX + 1, NEW y \in 0 .. INT_MAX + 1, x <= y
  PROVE  Len(Numeral(x, b)) <= Len(Numeral(y, b))
<1> DEFINE S == {n \in Nat : \A u, v \in 0 .. INT_MAX + 1 :
                   u <= v /\ v <= n => Len(Numeral(u, b)) <= Len(Numeral(v, b))}
<1>0. INT_MAX + 1 \in Nat /\ b \in Nat /\ b > 1
  BY FormatAssumption DEF Bases
<1>1. 0 \in S
  <2>1. Len(Numeral(0, b)) \in Nat
    BY <1>0, NumeralIs
  <2> QED
    BY <1>0, <2>1
<1>2. ASSUME NEW n \in Nat, n \in S PROVE n + 1 \in S
  <2> SUFFICES ASSUME NEW u \in 0 .. INT_MAX + 1, NEW v \in 0 .. INT_MAX + 1,
                      u <= v, v <= n + 1
               PROVE  Len(Numeral(u, b)) <= Len(Numeral(v, b))
    OBVIOUS
  <2>1. Numeral(u, b) \in Seq(Letters) /\ Numeral(v, b) \in Seq(Letters)
    BY NumeralIs
  <2>2. CASE u < b
    <3>1. Len(Numeral(u, b)) = 1
      BY <2>2, NumeralIs
    <3>2. Len(Numeral(v, b)) >= 1
      <4>1. CASE v < b
        <5>1. Len(Numeral(v, b)) = 1
          BY <4>1, NumeralIs
        <5> QED
          BY <5>1
      <4>2. CASE v >= b
        <5>1. /\ v \div b \in 0 .. INT_MAX + 1
              /\ Numeral(v, b) = Append(Numeral(v \div b, b), DigitChar(v, b))
          BY <4>2, NumeralIs
        <5>2. Numeral(v \div b, b) \in Seq(Letters)
          BY <5>1, NumeralIs
        <5> QED
          BY <5>1, <5>2
      <4> QED
        BY <1>0, <4>1, <4>2
    <3> QED
      BY <3>1, <3>2
  <2>3. CASE u >= b
    <3>0. v >= b
      BY <1>0, <2>3
    <3>1. /\ u \div b \in 0 .. INT_MAX + 1
          /\ v \div b \in 0 .. INT_MAX + 1
          /\ Numeral(u, b) = Append(Numeral(u \div b, b), DigitChar(u, b))
          /\ Numeral(v, b) = Append(Numeral(v \div b, b), DigitChar(v, b))
      BY <2>3, <3>0, NumeralIs
    <3>2. u \div b <= v \div b
      <4>1. CASE b = 2
        BY <4>1
      <4>2. CASE b = 10
        BY <4>2
      <4>3. CASE b = 16
        BY <4>3
      <4> QED
        BY <4>1, <4>2, <4>3 DEF Bases
    <3>3. v \div b <= n
      <4>1. v \div b \in Nat /\ v \div b < v
        BY <1>0, <3>0, DivMod
      <4> QED
        BY <4>1
    <3>4. Len(Numeral(u \div b, b)) <= Len(Numeral(v \div b, b))
      BY <1>2, <3>1, <3>2, <3>3
    <3>5. Numeral(u \div b, b) \in Seq(Letters) /\ Numeral(v \div b, b) \in Seq(Letters)
      BY <3>1, NumeralIs
    <3>6. /\ Len(Numeral(u, b)) = Len(Numeral(u \div b, b)) + 1
          /\ Len(Numeral(v, b)) = Len(Numeral(v \div b, b)) + 1
      BY <3>1, <3>5
    <3> QED
      BY <3>4, <3>5, <3>6
  <2> QED
    BY <1>0, <2>2, <2>3
<1>3. Nat \subseteq S
  <2> HIDE DEF S
  <2> QED
    BY <1>1, <1>2, SetInduction
<1> QED
  BY <1>0, <1>3

-----------------------------------------------------------------------------

\* Open satisfies the recursion that defines it.
LEMMA OpenIs ==
  ASSUME NEW f \in Seq(FmtChars), NEW j \in 1 .. Len(f)
  PROVE  /\ Open(f, j) \in BOOLEAN
         /\ Open(f, j) <=> j > 1 /\ f[j - 1] = "%" /\ ~Open(f, j - 1)
<1> DEFINE C == CHOOSE g : g = [m \in 0 .. Len(f) |->
                                  m > 1 /\ f[m - 1] = "%" /\ ~g[m - 1]]
<1>1. PICK V, none, N, H :
        /\ V = BOOLEAN /\ none = FALSE /\ N = Len(f)
        /\ H = [m \in 1 .. N |-> [v \in BOOLEAN |-> m > 1 /\ f[m - 1] = "%" /\ ~v]]
  OBVIOUS
<1>2. N \in Nat /\ none \in V
  <2>1. N \in Nat
    BY <1>1
  <2>2. none \in V
    BY <1>1, Zenon
  <2> QED
    BY <2>1, <2>2
<1>3. H \in [1 .. N -> [V -> V]]
  BY <1>1
<1>4. PICK g \in [0 .. N -> V] : StepByStep(g, none, H, N)
  BY <1>2, <1>3, Recursion, Zenon
<1>5. ASSUME NEW m \in 0 .. N PROVE g[m] = (m > 1 /\ f[m - 1] = "%" /\ ~g[m - 1])
  <2>1. CASE m = 0
    BY <1>1, <1>4, <2>1 DEF StepByStep
  <2>2. CASE m # 0
    <3>1. m \in 1 .. N /\ m - 1 \in 0 .. N
      BY <1>2, <2>2
    <3>2. g[m - 1] \in BOOLEAN
      BY <1>1, <1>4, <3>1
    <3>3. g[m] = H[m][g[m - 1]]
      BY <1>4, <3>1 DEF StepByStep
    <3> QED
      BY <1>1, <3>1, <3>2, <3>3
  <2> QED
    BY <2>1, <2>2
<1>6. g = [m \in 0 .. Len(f) |-> m > 1 /\ f[m - 1] = "%" /\ ~g[m - 1]]
  BY <1>1, <1>4, <1>5
<1>7. C = [m \in 0 .. Len(f) |-> m > 1 /\ f[m - 1] = "%" /\ ~C[m - 1]]
  BY <1>6, Zenon
<1>8. Open(f, j) = C[j] /\ Open(f, j - 1) = C[j - 1]
  BY Zenon DEF Open
<1> HIDE DEF C
<1>9. j \in 0 .. Len(f)
  OBVIOUS
<1>10. C[j] = (j > 1 /\ f[j - 1] = "%" /\ ~C[j - 1])
  BY <1>7, <1>9
<1> QED
  BY <1>8, <1>10

-----------------------------------------------------------------------------
(* The room a format needs, and the text it asks for.                      *)

\* The types of what makes up a written number.
LEMMA SignedType ==
  ASSUME NEW x \in Ints, NEW b \in Bases
  PROVE  /\ Abs(x) \in 0 .. INT_MAX + 1
         /\ Numeral(Abs(x), b) \in Seq(Letters)
         /\ Sign(x, b) \in Seq(Letters)
         /\ Signed(x, b) \in Seq(Letters)
         /\ Len(Signed(x, b)) = Len(Sign(x, b)) + Len(Numeral(Abs(x), b))
<1>1. Abs(x) \in 0 .. INT_MAX + 1
  BY FormatAssumption DEF Abs, Ints, INT_MIN
<1>2. Numeral(Abs(x), b) \in Seq(Letters)
  BY <1>1, NumeralIs
<1>3. Sign(x, b) \in Seq(Letters)
  <2>1. "-" \in Letters
    BY DEF Letters
  <2>2. <<"-">> \in Seq(Letters) /\ <<>> \in Seq(Letters)
    BY <2>1
  <2> QED
    BY <2>2 DEF Sign
<1> QED
  BY <1>1, <1>2, <1>3 DEF Signed

\* The numbers that Width stands for are the longest.
LEMMA SignedFits ==
  ASSUME NEW x \in Ints
  PROVE  /\ Len(Signed(x, 10)) <= Len(Signed(INT_MIN, 10))
         /\ x >= 0 => Len(Signed(x, 16)) <= Len(Signed(INT_MAX, 16))
<1>1. /\ INT_MIN \in Ints /\ INT_MAX \in Ints
      /\ Abs(INT_MIN) = INT_MAX + 1 /\ Abs(INT_MAX) = INT_MAX /\ INT_MIN < 0
  BY FormatAssumption DEF Ints, INT_MIN, Abs
<1>2. /\ Abs(x) \in 0 .. INT_MAX + 1 /\ Abs(x) <= INT_MAX + 1
      /\ x >= 0 => Abs(x) <= INT_MAX
      /\ INT_MAX + 1 \in 0 .. INT_MAX + 1 /\ INT_MAX \in 0 .. INT_MAX + 1
  BY FormatAssumption DEF Ints, INT_MIN, Abs
<1>3. 10 \in Bases /\ 16 \in Bases
  BY DEF Bases
<1>4. Len(Numeral(Abs(x), 10)) <= Len(Numeral(INT_MAX + 1, 10))
  BY <1>2, <1>3, NumeralLonger
<1>5. Len(Sign(x, 10)) <= 1 /\ Len(Sign(x, 10)) \in Nat /\ Len(Sign(INT_MIN, 10)) = 1
  BY <1>1 DEF Sign
<1>6. x >= 0 => Len(Numeral(Abs(x), 16)) <= Len(Numeral(INT_MAX, 16))
  BY <1>2, <1>3, NumeralLonger
<1>7. Len(Sign(x, 16)) = 0 /\ Len(Sign(INT_MAX, 16)) = 0
  BY DEF Sign
<1>8. /\ Len(Signed(x, 10)) = Len(Sign(x, 10)) + Len(Numeral(Abs(x), 10))
      /\ Len(Signed(INT_MIN, 10)) = Len(Sign(INT_MIN, 10)) + Len(Numeral(INT_MAX + 1, 10))
      /\ Len(Signed(x, 16)) = Len(Sign(x, 16)) + Len(Numeral(Abs(x), 16))
      /\ Len(Signed(INT_MAX, 16)) = Len(Sign(INT_MAX, 16)) + Len(Numeral(INT_MAX, 16))
  <2>1. /\ Len(Signed(x, 10)) = Len(Sign(x, 10)) + Len(Numeral(Abs(x), 10))
        /\ Len(Signed(x, 16)) = Len(Sign(x, 16)) + Len(Numeral(Abs(x), 16))
    BY <1>3, SignedType
  <2>2. Len(Signed(INT_MIN, 10)) = Len(Sign(INT_MIN, 10)) + Len(Numeral(Abs(INT_MIN), 10))
    BY <1>1, <1>3, SignedType
  <2>3. Len(Signed(INT_MAX, 16)) = Len(Sign(INT_MAX, 16)) + Len(Numeral(Abs(INT_MAX), 16))
    BY <1>1, <1>3, SignedType
  <2> QED
    BY <1>1, <2>1, <2>2, <2>3
<1>9. /\ Len(Numeral(Abs(x), 10)) \in Nat /\ Len(Numeral(Abs(x), 16)) \in Nat
      /\ Len(Numeral(INT_MAX + 1, 10)) \in Nat /\ Len(Numeral(INT_MAX, 16)) \in Nat
  <2>1. Numeral(Abs(x), 10) \in Seq(Letters) /\ Numeral(Abs(x), 16) \in Seq(Letters)
    BY <1>2, <1>3, NumeralIs
  <2>2. Numeral(INT_MAX + 1, 10) \in Seq(Letters) /\ Numeral(INT_MAX, 16) \in Seq(Letters)
    BY <1>2, <1>3, NumeralIs
  <2> QED
    BY <2>1, <2>2
<1>10. Len(Signed(x, 10)) <= Len(Signed(INT_MIN, 10))
  <2>1. /\ Len(Signed(x, 10)) = Len(Sign(x, 10)) + Len(Numeral(Abs(x), 10))
        /\ Len(Signed(INT_MIN, 10)) = 1 + Len(Numeral(INT_MAX + 1, 10))
    BY <1>5, <1>8
  <2> QED
    BY <1>4, <1>5, <1>9, <2>1
<1>11. ASSUME x >= 0 PROVE Len(Signed(x, 16)) <= Len(Signed(INT_MAX, 16))
  <2>1. Len(Numeral(Abs(x), 16)) <= Len(Numeral(INT_MAX, 16))
    BY <1>6, <1>11
  <2> QED
    BY <1>7, <1>8, <1>9, <2>1
<1> QED
  BY <1>10, <1>11

\* Width is a number.
LEMMA WidthType ==
  ASSUME NEW f, NEW j
  PROVE  Width(f, j) \in Nat
<1>1. INT_MIN \in Ints /\ INT_MAX \in Ints /\ MaxText \in Nat /\ 10 \in Bases /\ 16 \in Bases
  BY FormatAssumption DEF Ints, INT_MIN, Bases
<1>2. Signed(INT_MIN, 10) \in Seq(Letters) /\ Signed(INT_MAX, 16) \in Seq(Letters)
  BY <1>1, SignedType
<1> QED
  BY <1>1, <1>2 DEF Width

\* Room satisfies the recursion that defines it.
LEMMA RoomIs ==
  ASSUME NEW f \in Seq(FmtChars)
  PROVE  /\ \A n \in 0 .. Len(f) : Room(f, n) \in Nat
         /\ Room(f, 0) = 0
         /\ \A n \in 1 .. Len(f) : Room(f, n) = Room(f, n - 1) + Width(f, n)
<1> DEFINE C == CHOOSE g : g = [m \in 0 .. Len(f) |->
                                  IF m = 0 THEN 0 ELSE g[m - 1] + Width(f, m)]
<1>1. PICK V, none, N, H :
        /\ V = Nat /\ none = 0 /\ N = Len(f)
        /\ H = [m \in 1 .. N |-> [v \in Nat |-> v + Width(f, m)]]
  OBVIOUS
<1>2. N \in Nat /\ none \in V
  BY <1>1
<1>3. H \in [1 .. N -> [V -> V]]
  BY <1>1, WidthType
<1>4. PICK g \in [0 .. N -> V] : StepByStep(g, none, H, N)
  BY <1>2, <1>3, Recursion, Zenon
<1>5. ASSUME NEW m \in 0 .. N PROVE g[m] = IF m = 0 THEN 0 ELSE g[m - 1] + Width(f, m)
  <2>1. CASE m = 0
    BY <1>1, <1>4, <2>1 DEF StepByStep
  <2>2. CASE m # 0
    <3>1. m \in 1 .. N /\ m - 1 \in 0 .. N
      BY <1>2, <2>2
    <3>2. g[m - 1] \in Nat
      BY <1>1, <1>4, <3>1
    <3>3. g[m] = H[m][g[m - 1]]
      BY <1>4, <3>1 DEF StepByStep
    <3> QED
      BY <1>1, <2>2, <3>1, <3>2, <3>3
  <2> QED
    BY <2>1, <2>2
<1>6. g = [m \in 0 .. Len(f) |-> IF m = 0 THEN 0 ELSE g[m - 1] + Width(f, m)]
  BY <1>1, <1>4, <1>5
<1>7. C = [m \in 0 .. Len(f) |-> IF m = 0 THEN 0 ELSE C[m - 1] + Width(f, m)]
  BY <1>6, Zenon
<1>8. \A n : Room(f, n) = C[n]
  BY Zenon DEF Room
<1> HIDE DEF C
<1>9. C[0] = 0 /\ \A n \in 1 .. Len(f) : C[n] = C[n - 1] + Width(f, n)
  BY <1>7
<1> DEFINE S == {n \in Nat : n <= Len(f) => C[n] \in Nat}
<1>10. 0 \in S
  BY <1>9
<1>11. ASSUME NEW n \in Nat, n \in S PROVE n + 1 \in S
  <2> SUFFICES ASSUME n + 1 <= Len(f) PROVE C[n + 1] \in Nat
    OBVIOUS
  <2>1. n + 1 \in 1 .. Len(f) /\ (n + 1) - 1 = n /\ n <= Len(f)
    OBVIOUS
  <2>2. C[n] \in Nat
    BY <1>11, <2>1
  <2> QED
    BY <1>9, <2>1, <2>2, WidthType
<1>12. Nat \subseteq S
  <2> HIDE DEF S
  <2> QED
    BY <1>10, <1>11, SetInduction
<1> QED
  BY <1>8, <1>9, <1>12

\* More characters need no less room.
LEMMA RoomGrows ==
  ASSUME NEW f \in Seq(FmtChars), NEW n \in 0 .. Len(f)
  PROVE  Room(f, n) <= Room(f, Len(f))
<1> DEFINE S == {d \in Nat : n + d <= Len(f) => Room(f, n) <= Room(f, n + d)}
<1>1. 0 \in S
  BY RoomIs
<1>2. ASSUME NEW d \in Nat, d \in S PROVE d + 1 \in S
  <2> SUFFICES ASSUME n + (d + 1) <= Len(f) PROVE Room(f, n) <= Room(f, n + (d + 1))
    OBVIOUS
  <2>1. /\ n + (d + 1) \in 1 .. Len(f) /\ n + (d + 1) - 1 = n + d
        /\ n + d \in 0 .. Len(f) /\ n + d <= Len(f)
    OBVIOUS
  <2>2. Room(f, n + (d + 1)) = Room(f, n + d) + Width(f, n + (d + 1))
    BY <2>1, RoomIs
  <2>3. Room(f, n) <= Room(f, n + d)
    BY <1>2, <2>1
  <2>4. Room(f, n) \in Nat /\ Room(f, n + d) \in Nat /\ Width(f, n + (d + 1)) \in Nat
    BY <2>1, RoomIs, WidthType
  <2> QED
    BY <2>2, <2>3, <2>4
<1>3. Nat \subseteq S
  <2> HIDE DEF S
  <2> QED
    BY <1>1, <1>2, SetInduction
<1>4. Len(f) - n \in Nat /\ n + (Len(f) - n) = Len(f)
  OBVIOUS
<1> QED
  BY <1>3, <1>4

-----------------------------------------------------------------------------

\* The character at j makes kernel_vsprintf fetch an argument.
Takes(f, j) == Open(f, j) /\ f[j] \in {"s", "c", "d", "x"}

\* Fetches counts these characters.
LEMMA FetchCount ==
  ASSUME NEW f, NEW j \in Nat
  PROVE  /\ IsFiniteSet(Fetches(f, j)) /\ Cardinality(Fetches(f, j)) \in Nat
         /\ Cardinality(Fetches(f, 0)) = 0
         /\ Takes(f, j + 1) => Cardinality(Fetches(f, j + 1)) = Cardinality(Fetches(f, j)) + 1
         /\ ~Takes(f, j + 1) => Cardinality(Fetches(f, j + 1)) = Cardinality(Fetches(f, j))
<1>1. IsFiniteSet(1 .. j)
  BY FS_Interval
<1>2. Fetches(f, j) \in SUBSET (1 .. j)
  BY DEF Fetches
<1>3. IsFiniteSet(Fetches(f, j))
  BY <1>1, <1>2, FS_Subset
<1>4. Cardinality(Fetches(f, j)) \in Nat
  BY <1>3, FS_CardinalityType
<1>5. Fetches(f, 0) = {}
  BY DEF Fetches
<1>6. Takes(f, j + 1) => Fetches(f, j + 1) = Fetches(f, j) \cup {j + 1}
  BY DEF Fetches, Takes
<1>7. ~Takes(f, j + 1) => Fetches(f, j + 1) = Fetches(f, j)
  BY DEF Fetches, Takes
<1>8. j + 1 \notin Fetches(f, j)
  BY <1>2
<1>9. Cardinality(Fetches(f, j) \cup {j + 1}) = Cardinality(Fetches(f, j)) + 1
  BY <1>3, <1>8, FS_AddElement
<1>10. Cardinality(Fetches(f, 0)) = 0
  BY <1>5, FS_EmptySet
<1> QED
  BY <1>3, <1>4, <1>6, <1>7, <1>9, <1>10

\* The argument of a directive that has been read is among those fetched.
LEMMA ArgFetched ==
  ASSUME NEW f, NEW n \in Nat, NEW j \in 1 .. n, Takes(f, j)
  PROVE  Cardinality(Fetches(f, j)) \in 1 .. Cardinality(Fetches(f, n))
<1>1. Fetches(f, j) \in SUBSET Fetches(f, n) /\ j \in Fetches(f, j)
  BY DEF Fetches, Takes
<1>2. IsFiniteSet(Fetches(f, n)) /\ IsFiniteSet(Fetches(f, j))
  BY FetchCount
<1>3. Cardinality(Fetches(f, j)) <= Cardinality(Fetches(f, n))
  BY <1>1, <1>2, FS_Subset
<1>4. Cardinality(Fetches(f, j)) # 0
  BY <1>1, <1>2, FS_EmptySet
<1>5. Cardinality(Fetches(f, j)) \in Nat /\ Cardinality(Fetches(f, n)) \in Nat
  BY FetchCount
<1> QED
  BY <1>3, <1>4, <1>5

\* Fetching another argument does not change what has been written.
LEMMA PieceKept ==
  ASSUME NEW f, NEW T, NEW a \in Seq(T), NEW x, NEW n \in Nat,
         Len(a) = Cardinality(Fetches(f, n)), NEW j \in 1 .. n
  PROVE  Piece(f, Append(a, x), j) = Piece(f, a, j)
<1>1. CASE Takes(f, j)
  <2>1. Cardinality(Fetches(f, j)) \in 1 .. Len(a)
    BY <1>1, ArgFetched
  <2>2. ArgOf(f, Append(a, x), j) = ArgOf(f, a, j)
    BY <2>1 DEF ArgOf
  <2> QED
    BY <2>2 DEF Piece
<1>2. CASE ~Takes(f, j)
  BY <1>2 DEF Takes, Piece
<1> QED
  BY <1>1, <1>2

\* The output grows by the piece of the next character.
LEMMA OutputNext ==
  ASSUME NEW f, NEW a, NEW n \in Nat, Typed(f, a, n)
  PROVE  /\ Output(f, a, n) \in Seq(Letters)
         /\ Output(f, a, 0) = <<>>
         /\ Piece(f, a, n + 1) \in Seq(Letters) =>
              Output(f, a, n + 1) = Output(f, a, n) \o Piece(f, a, n + 1)
<1>1. PICK ss : ss = [j \in 1 .. n |-> Piece(f, a, j)]
  OBVIOUS
<1>2. ss \in Seq(Seq(Letters)) /\ Len(ss) = n
  BY <1>1 DEF Typed
<1>3. Output(f, a, n) = FlattenSeq(ss)
  BY <1>1 DEF Output
<1>4. <<>> \in Seq(Letters)
  OBVIOUS
<1>5. FlattenSeq(ss) \in Seq(Letters)
  BY <1>2, <1>4, FlattenAppend
<1>6. Output(f, a, 0) = <<>>
  BY DEF Output, FlattenSeq
<1>7. ASSUME Piece(f, a, n + 1) \in Seq(Letters)
      PROVE  Output(f, a, n + 1) = Output(f, a, n) \o Piece(f, a, n + 1)
  <2>1. PICK s : s = Piece(f, a, n + 1)
    OBVIOUS
  <2>2. [j \in 1 .. n + 1 |-> Piece(f, a, j)] = Append(ss, s)
    <3>1. PICK tt : tt = [j \in 1 .. n + 1 |-> Piece(f, a, j)]
      OBVIOUS
    <3>2. tt \in Seq(Seq(Letters)) /\ Len(tt) = n + 1
      <4>1. \A j \in 1 .. n + 1 : Piece(f, a, j) \in Seq(Letters)
        BY <1>7 DEF Typed
      <4> QED
        BY <3>1, <4>1
    <3>3. /\ Append(ss, s) \in Seq(Seq(Letters)) /\ Len(Append(ss, s)) = n + 1
          /\ \A j \in 1 .. n + 1 : Append(ss, s)[j] = IF j = n + 1 THEN s ELSE ss[j]
      BY <1>2, <1>7, <2>1
    <3>4. \A j \in 1 .. n + 1 : Append(ss, s)[j] = tt[j]
      BY <1>1, <2>1, <3>1, <3>3
    <3>5. Append(ss, s) = tt
      BY <3>2, <3>3, <3>4, SeqEqual
    <3> QED
      BY <3>1, <3>5
  <2>3. FlattenSeq(Append(ss, s)) = FlattenSeq(ss) \o s
    BY <1>2, <1>7, <2>1, FlattenAppend
  <2> QED
    BY <1>3, <2>1, <2>2, <2>3 DEF Output
<1> QED
  BY <1>3, <1>5, <1>6, <1>7

\* Fetching another argument does not change the output so far.
LEMMA OutputKept ==
  ASSUME NEW f, NEW T, NEW a \in Seq(T), NEW x, NEW n \in Nat,
         Len(a) = Cardinality(Fetches(f, n))
  PROVE  Output(f, Append(a, x), n) = Output(f, a, n)
<1>1. [j \in 1 .. n |-> Piece(f, Append(a, x), j)] = [j \in 1 .. n |-> Piece(f, a, j)]
  BY PieceKept
<1> QED
  BY <1>1 DEF Output

-----------------------------------------------------------------------------
(* The steps of kernel_vsprintf.                                           *)

\* SeqOf holds sequences of bounded length.
LEMMA SeqOfType ==
  ASSUME NEW T, NEW n \in Nat, NEW f \in SeqOf(T, n)
  PROVE  f \in Seq(T) /\ Len(f) <= n
<1>1. PICK m \in 0 .. n : f \in [1 .. m -> T]
  BY DEF SeqOf
<1>2. f \in Seq(T) /\ Len(f) = m
  BY <1>1
<1> QED
  BY <1>2

\* Reading one character that leaves kernel_vsprintf in its loop.
LEMMA ReadStep ==
  ASSUME FmtInv, pc = "vsprintf", k <= Len(fmt), k' = k + 1, fmt' = fmt,
         state' = IF fmt[k] = "%" /\ ~Open(fmt, k) THEN "READ_FMT" ELSE "NORMAL",
         Piece(fmt, args', k) \in Seq(Letters),
         Takes(fmt, k) => \E x : args' = Append(args, x),
         ~Takes(fmt, k) => args' = args
  PROVE  /\ ~Alone /\ ~Alone' /\ ReadInv'
         /\ Output(fmt, args', k - 1) = buf
         /\ Output(fmt, args', k) = buf \o Piece(fmt, args', k)
         /\ \A j \in 1 .. k - 1 : Piece(fmt, args', j) = Piece(fmt, args, j)
<1>1. fmt # <<>>
  BY DEF FmtInv, AloneInv, ReadInv
<1>2. ~Alone /\ ~Alone' /\ ReadInv
  BY <1>1 DEF Alone, FmtInv
<1>3. PICK n \in Nat : n = k - 1 /\ n + 1 = k /\ n + 1 <= Len(fmt)
  BY <1>2 DEF ReadInv
<1>4. fmt \in Seq(FmtChars) /\ Len(fmt) \in Nat /\ fmt \in Formats
  <2>1. fmt \in SeqOf(FmtChars, MaxFmt) /\ MaxFmt \in Nat
    BY <1>2, FormatAssumption DEF ReadInv, Formats
  <2>2. fmt \in Seq(FmtChars)
    BY <2>1, SeqOfType
  <2> QED
    BY <2>1, <2>2 DEF Formats
<1>5. /\ args \in Seq(Range(args)) /\ Len(args) = Cardinality(Fetches(fmt, n))
      /\ Typed(fmt, args, n) /\ buf = Output(fmt, args, n)
  BY <1>2, <1>3 DEF ReadInv, FmtInv
<1>6. \A x : \A j \in 1 .. n : Piece(fmt, Append(args, x), j) = Piece(fmt, args, j)
  BY <1>5, PieceKept
<1>a. \A j \in 1 .. n : Piece(fmt, args', j) = Piece(fmt, args, j)
  BY <1>6
<1>b. \A x : Output(fmt, Append(args, x), n) = Output(fmt, args, n)
  BY <1>5, OutputKept
<1>7. Output(fmt, args', n) = Output(fmt, args, n)
  BY <1>b
<1>8. Typed(fmt, args', n) /\ Typed(fmt, args', n + 1)
  <2>1. Typed(fmt, args', n)
    BY <1>5, <1>a DEF Typed
  <2>2. Piece(fmt, args', n + 1) \in Seq(Letters)
    BY <1>3
  <2>3. \A j \in 1 .. n + 1 : j \in 1 .. n \/ j = n + 1
    OBVIOUS
  <2> QED
    BY <2>1, <2>2, <2>3 DEF Typed
<1>9. Output(fmt, args', n + 1) = Output(fmt, args', n) \o Piece(fmt, args', n + 1)
  BY <1>3, <1>8, OutputNext
<1>10. Len(args') = Cardinality(Fetches(fmt, n + 1)) /\ args' \in Seq(Range(args'))
  <2>1. CASE Takes(fmt, k)
    <3>1. PICK x : args' = Append(args, x)
      BY <2>1
    <3>2. args' \in Seq(Range(args) \cup {x}) /\ Len(args') = Len(args) + 1
      BY <1>5, <3>1
    <3>3. args' \in Seq(Range(args'))
      <4>1. \A j \in 1 .. Len(args') : args'[j] \in Range(args')
        BY <3>2 DEF Range
      <4> QED
        BY <3>2, <4>1
    <3>4. Cardinality(Fetches(fmt, n + 1)) = Cardinality(Fetches(fmt, n)) + 1
      BY <1>3, <2>1, FetchCount
    <3> QED
      BY <1>5, <3>2, <3>3, <3>4
  <2>2. CASE ~Takes(fmt, k)
    <3>1. Cardinality(Fetches(fmt, n + 1)) = Cardinality(Fetches(fmt, n))
      BY <1>3, <2>2, FetchCount
    <3> QED
      BY <1>5, <2>2, <3>1
  <2> QED
    BY <2>1, <2>2
<1>11. ASSUME k + 1 <= Len(fmt)
       PROVE  Open(fmt, k + 1) <=> fmt[k] = "%" /\ ~Open(fmt, k)
  <2>1. k + 1 \in 1 .. Len(fmt) /\ k + 1 > 1 /\ (k + 1) - 1 = k
    BY <1>3, <1>11
  <2> QED
    BY <1>4, <2>1, OpenIs
<1>12. ReadInv'
  <2>1. k' \in 1 .. Len(fmt') + 1 /\ k' - 1 = n + 1
    BY <1>3, <1>4
  <2> QED
    BY <1>4, <1>8, <1>10, <1>11, <2>1 DEF ReadInv
<1> QED
  BY <1>2, <1>3, <1>5, <1>a, <1>7, <1>9, <1>12

\* A character that writes what Piece says, and is done.
LEMMA DoneStep ==
  ASSUME FmtInv, RoomInv, pc = "vsprintf", k <= Len(fmt), k' = k + 1,
         UNCHANGED <<fmt, pc>>,
         state' = IF fmt[k] = "%" /\ ~Open(fmt, k) THEN "READ_FMT" ELSE "NORMAL",
         Takes(fmt, k) => \E x : args' = Append(args, x),
         ~Takes(fmt, k) => args' = args,
         Piece(fmt, args', k) \in Seq(Letters),
         Len(Piece(fmt, args', k)) <= Width(fmt, k),
         buf' = buf \o Piece(fmt, args', k)
  PROVE  FmtInv' /\ RoomInv'
<1>1. /\ ~Alone /\ ~Alone' /\ ReadInv'
      /\ Output(fmt, args', k) = buf \o Piece(fmt, args', k)
      /\ \A j \in 1 .. k - 1 : Piece(fmt, args', j) = Piece(fmt, args, j)
  BY ReadStep
<1>2. k \in Nat \ {0} /\ k' - 1 = k
  BY <1>1 DEF FmtInv, ReadInv
<1>3. FmtInv'
  BY <1>1, <1>2 DEF FmtInv
<1>4. Fits(fmt, args, k - 1)
  BY <1>1 DEF RoomInv
<1>5. ASSUME NEW j \in 1 .. k PROVE Len(Piece(fmt, args', j)) <= Width(fmt, j)
  <2>1. CASE j = k
    BY <2>1
  <2>2. CASE j # k
    <3>1. j \in 1 .. k - 1
      BY <1>2, <2>2
    <3> QED
      BY <1>1, <1>4, <3>1 DEF Fits
  <2> QED
    BY <2>1, <2>2
<1>6. RoomInv'
  BY <1>2, <1>5 DEF RoomInv, Fits
<1> QED
  BY <1>3, <1>6

\* What is known when the next character is read.
LEMMA Reading ==
  ASSUME FmtInv, pc = "vsprintf", k <= Len(fmt)
  PROVE  /\ ~Alone /\ ReadInv
         /\ fmt \in Seq(FmtChars) /\ k \in 1 .. Len(fmt)
         /\ fmt[k] \in FmtChars /\ fmt[k] \in Letters
         /\ Open(fmt, k) \in BOOLEAN
         /\ state = "READ_FMT" <=> Open(fmt, k)
         /\ \A x : Takes(fmt, k) => /\ ArgOf(fmt, Append(args, x), k) = x
                                    /\ Last(Append(args, x)) = x
<1>1. fmt # <<>>
  BY DEF FmtInv, AloneInv, ReadInv
<1>2. ~Alone /\ ReadInv
  BY <1>1 DEF Alone, FmtInv
<1>3. fmt \in Seq(FmtChars)
  <2>1. fmt \in SeqOf(FmtChars, MaxFmt) /\ MaxFmt \in Nat
    BY <1>2, FormatAssumption DEF ReadInv, Formats
  <2> QED
    BY <2>1, SeqOfType
<1>4. k \in 1 .. Len(fmt)
  BY <1>2, <1>3 DEF ReadInv
<1>5. fmt[k] \in FmtChars /\ fmt[k] \in Letters
  BY <1>3, <1>4 DEF Letters
<1>6. Open(fmt, k) \in BOOLEAN
  BY <1>3, <1>4, OpenIs
<1>7. state = "READ_FMT" <=> Open(fmt, k)
  BY <1>2, <1>6 DEF ReadInv
<1>8. PICK n \in Nat : n = k - 1 /\ n + 1 = k
  BY <1>4
<1>9. args \in Seq(Range(args)) /\ Len(args) = Cardinality(Fetches(fmt, n))
  BY <1>2, <1>8 DEF ReadInv
<1>10. ASSUME NEW x, Takes(fmt, n + 1)
       PROVE  ArgOf(fmt, Append(args, x), n + 1) = x /\ Last(Append(args, x)) = x
  <2>1. Cardinality(Fetches(fmt, n + 1)) = Len(args) + 1
    BY <1>9, <1>10, FetchCount
  <2>2. /\ Len(Append(args, x)) = Len(args) + 1
        /\ Append(args, x)[Len(args) + 1] = x
    BY <1>9
  <2> QED
    BY <2>1, <2>2 DEF ArgOf, Last
<1> QED
  BY <1>2, <1>3, <1>4, <1>5, <1>6, <1>7, <1>8, <1>10

\* An ordinary character is copied.
LEMMA CopyStep == FmtInv /\ RoomInv /\ copy => FmtInv' /\ RoomInv'
<1> SUFFICES ASSUME FmtInv, RoomInv, copy PROVE FmtInv' /\ RoomInv'
  OBVIOUS
<1>1. /\ pc = "vsprintf" /\ k <= Len(fmt) /\ k' = k + 1 /\ fmt[k] # "%"
      /\ state = "NORMAL" /\ buf' = buf \o <<fmt[k]>>
      /\ UNCHANGED <<fmt, state, args, pc>>
  BY DEF copy, Read, Put
<1>2. ~Open(fmt, k) /\ fmt[k] \in Letters
  BY <1>1, Reading
<1>3. ~Takes(fmt, k) /\ Piece(fmt, args', k) = <<fmt[k]>> /\ Width(fmt, k) = 1
  BY <1>1, <1>2 DEF Takes, Piece, Width
<1>4. <<fmt[k]>> \in Seq(Letters) /\ Len(<<fmt[k]>>) <= 1
  BY <1>2
<1> QED
  BY <1>1, <1>2, <1>3, <1>4, DoneStep

\* A percent sign opens a directive, and one in a directive is written.
LEMMA PercentStep == FmtInv /\ RoomInv /\ percent => FmtInv' /\ RoomInv'
<1> SUFFICES ASSUME FmtInv, RoomInv, percent PROVE FmtInv' /\ RoomInv'
  OBVIOUS
<1>1. /\ pc = "vsprintf" /\ k <= Len(fmt) /\ k' = k + 1 /\ fmt[k] = "%"
      /\ state = "NORMAL" /\ state' = "READ_FMT"
      /\ UNCHANGED <<fmt, args, pc, buf>>
  BY DEF percent, Read
<1>2. ~Open(fmt, k) /\ ~Alone /\ k \in Nat \ {0}
  BY <1>1, Reading
<1>3. ~Takes(fmt, k) /\ Piece(fmt, args', k) = <<>> /\ Width(fmt, k) = 0
  BY <1>1, <1>2 DEF Takes, Piece, Width
<1>4. <<>> \in Seq(Letters) /\ Len(<<>>) <= 0
  OBVIOUS
<1>5. buf \in Seq(Letters)
  <2>1. buf = Output(fmt, args, k - 1) /\ Typed(fmt, args, k - 1) /\ k - 1 \in Nat
    BY <1>1, <1>2 DEF FmtInv, ReadInv
  <2> QED
    BY <2>1, OutputNext
<1>6. buf' = buf \o <<>>
  BY <1>1, <1>5, ConcatEmptySeq
<1> QED
  BY <1>1, <1>2, <1>3, <1>4, <1>6, DoneStep

\* %s, %c and an unknown directive.
LEMMA TextStep == FmtInv /\ RoomInv /\ put_text => FmtInv' /\ RoomInv'
<1> SUFFICES ASSUME FmtInv, RoomInv, put_text PROVE FmtInv' /\ RoomInv'
  OBVIOUS
<1>1. /\ pc = "vsprintf" /\ k <= Len(fmt) /\ k' = k + 1
      /\ state = "READ_FMT" /\ state' = "NORMAL"
      /\ UNCHANGED <<fmt, pc>>
  BY DEF put_text, Directive, Read
<1>2. /\ Open(fmt, k) /\ fmt[k] \in FmtChars
      /\ \A x : Takes(fmt, k) => ArgOf(fmt, Append(args, x), k) = x
  BY <1>1, Reading
<1>3. SUFFICES /\ Takes(fmt, k) => \E x : args' = Append(args, x)
               /\ ~Takes(fmt, k) => args' = args
               /\ Piece(fmt, args', k) \in Seq(Letters)
               /\ Len(Piece(fmt, args', k)) <= Width(fmt, k)
               /\ buf' = buf \o Piece(fmt, args', k)
  BY <1>1, <1>2, DoneStep
<1>4. ASSUME fmt[k] = "s", NEW t \in Texts, Fetch(t), Put(t)
      PROVE  /\ Takes(fmt, k) => \E x : args' = Append(args, x)
             /\ ~Takes(fmt, k) => args' = args
             /\ Piece(fmt, args', k) \in Seq(Letters)
             /\ Len(Piece(fmt, args', k)) <= Width(fmt, k)
             /\ buf' = buf \o Piece(fmt, args', k)
  <2>1. Takes(fmt, k) /\ args' = Append(args, t) /\ buf' = buf \o t
    BY <1>2, <1>4 DEF Takes, Fetch, Put
  <2>2. ArgOf(fmt, args', k) = t
    BY <1>2, <2>1
  <2>3. Piece(fmt, args', k) = t /\ Width(fmt, k) = MaxText
    BY <1>2, <1>4, <2>2 DEF Piece, Width
  <2>4. t \in Seq(Chars) /\ Len(t) <= MaxText
    BY SeqOfType, FormatAssumption DEF Texts
  <2>5. t \in Seq(Letters)
    BY <2>4 DEF Letters
  <2> QED
    BY <2>1, <2>3, <2>4, <2>5
<1>5. ASSUME fmt[k] = "c", NEW c \in Chars, Fetch(c), Put(<<c>>)
      PROVE  /\ Takes(fmt, k) => \E x : args' = Append(args, x)
             /\ ~Takes(fmt, k) => args' = args
             /\ Piece(fmt, args', k) \in Seq(Letters)
             /\ Len(Piece(fmt, args', k)) <= Width(fmt, k)
             /\ buf' = buf \o Piece(fmt, args', k)
  <2>1. Takes(fmt, k) /\ args' = Append(args, c) /\ buf' = buf \o <<c>>
    BY <1>2, <1>5 DEF Takes, Fetch, Put
  <2>2. ArgOf(fmt, args', k) = c
    BY <1>2, <2>1
  <2>3. Piece(fmt, args', k) = <<c>> /\ Width(fmt, k) = 1
    BY <1>2, <1>5, <2>2 DEF Piece, Width
  <2>4. c \in Letters
    BY DEF Letters
  <2>5. <<c>> \in Seq(Letters) /\ Len(<<c>>) <= 1
    BY <2>4
  <2> QED
    BY <2>1, <2>3, <2>5
<1>6. ASSUME fmt[k] \notin {"s", "c", "d", "x"}, UNCHANGED args,
             NEW c \in {"%", "?"}, fmt[k] = "%" <=> c = "%", Put(<<c>>)
      PROVE  /\ Takes(fmt, k) => \E x : args' = Append(args, x)
             /\ ~Takes(fmt, k) => args' = args
             /\ Piece(fmt, args', k) \in Seq(Letters)
             /\ Len(Piece(fmt, args', k)) <= Width(fmt, k)
             /\ buf' = buf \o Piece(fmt, args', k)
  <2>1. ~Takes(fmt, k) /\ buf' = buf \o <<c>>
    BY <1>2, <1>6 DEF Takes, Put
  <2>2. Piece(fmt, args', k) = <<c>> /\ Width(fmt, k) = 1
    BY <1>2, <1>6 DEF Piece, Width
  <2>3. c \in Letters
    BY DEF Letters, FmtChars
  <2>4. <<c>> \in Seq(Letters) /\ Len(<<c>>) <= 1
    BY <2>3
  <2> QED
    BY <1>6, <2>1, <2>2, <2>4
<1> QED
  BY <1>4, <1>5, <1>6 DEF put_text

\* %d and %x call kernel_itoa.
LEMMA NumberStep == FmtInv /\ RoomInv /\ put_number => FmtInv' /\ RoomInv'
<1> SUFFICES ASSUME FmtInv, RoomInv, put_number PROVE FmtInv' /\ RoomInv'
  OBVIOUS
<1>1. /\ pc = "vsprintf" /\ k <= Len(fmt) /\ k' = k + 1
      /\ state = "READ_FMT" /\ state' = "NORMAL"
      /\ UNCHANGED <<fmt, buf>> /\ fmt[k] \in {"d", "x"} /\ pc' = "itoa"
      /\ base' = IF fmt[k] = "d" THEN 10 ELSE 16
  BY DEF put_number, Directive, Read
<1>2. PICK x \in ArgInts : args' = Append(args, x) /\ num' = x
  BY DEF put_number, Fetch
<1>3. x \in Ints /\ base' \in Bases /\ base' \in {10, 16}
  BY <1>1, FormatAssumption DEF Bases
<1>4. Open(fmt, k) /\ k \in Nat \ {0}
  BY <1>1, Reading
<1>5. Takes(fmt, k)
  BY <1>1, <1>4 DEF Takes
<1>6. ArgOf(fmt, args', k) = x /\ Last(args') = x
  BY <1>1, <1>2, <1>5, Reading
<1>7. Piece(fmt, args', k) = Signed(x, base')
  BY <1>1, <1>4, <1>6 DEF Piece
<1>8. Piece(fmt, args', k) \in Seq(Letters)
  BY <1>3, <1>7, SignedType
<1>9. /\ ~Alone /\ ~Alone' /\ ReadInv' /\ Output(fmt, args', k - 1) = buf
      /\ \A j \in 1 .. k - 1 : Piece(fmt, args', j) = Piece(fmt, args, j)
  BY <1>1, <1>2, <1>4, <1>5, <1>8, ReadStep
<1>10. k' - 2 = k - 1 /\ k' - 1 = k /\ k' > 1
  BY <1>1, <1>4
<1>11. NumberInv'
  <2>1. Arg' = x /\ Prior' = buf'
    BY <1>1, <1>6, <1>9, <1>10 DEF Arg, Prior
  <2> QED
    BY <1>1, <1>2, <1>3, <1>4, <1>9, <1>10, <2>1 DEF NumberInv
<1>12. FmtInv'
  BY <1>1, <1>9, <1>11 DEF FmtInv
<1>13. Fits(fmt, args, k - 1)
  BY <1>1, <1>9 DEF RoomInv
<1>14. RoomInv'
  BY <1>1, <1>9, <1>10, <1>13 DEF RoomInv, Fits
<1> QED
  BY <1>12, <1>14

\* The format has been read to its end.
LEMMA FinishStep == FmtInv /\ RoomInv /\ finish => FmtInv' /\ RoomInv'
<1> SUFFICES ASSUME FmtInv, RoomInv, finish PROVE FmtInv' /\ RoomInv'
  OBVIOUS
<1>1. /\ pc = "vsprintf" /\ k > Len(fmt) /\ pc' = "done" /\ ~Alone
      /\ buf = Output(fmt, args, k - 1) /\ buf' = buf \o <<NUL>>
      /\ UNCHANGED <<fmt, k, state, args, base>>
  BY DEF finish, itoaVars, Put, FmtInv
<1>2. k = Len(fmt) + 1
  <2>1. fmt \in SeqOf(FmtChars, MaxFmt) /\ MaxFmt \in Nat /\ k \in 1 .. Len(fmt) + 1
    BY <1>1, FormatAssumption DEF FmtInv, ReadInv, Formats
  <2>2. Len(fmt) \in Nat
    BY <2>1, SeqOfType
  <2> QED
    BY <1>1, <2>1, <2>2
<1>3. (Alone' <=> Alone) /\ (AloneInv' <=> AloneInv) /\ (ReadInv' <=> ReadInv)
  BY <1>1 DEF Alone, AloneInv, ReadInv
<1> QED
  BY <1>1, <1>2, <1>3 DEF FmtInv, RoomInv

-----------------------------------------------------------------------------
(* The steps of kernel_itoa.                                               *)

\* What is known while a number is written.
LEMMA Writing ==
  ASSUME FmtInv, pc \in {"itoa", "spin", "digits", "reverse"}
  PROVE  /\ Arg \in Ints /\ Prior \in Seq(Letters)
         /\ base \in Bases =>
              /\ Sign(Arg, base) \in Seq(Letters)
              /\ Lead \in Seq(Letters) /\ Whole \in Seq(Letters)
              /\ Len(Lead) = Len(Prior) + Len(Sign(Arg, base))
              /\ Prior \o Signed(Arg, base) = Lead \o Whole
<1>1. NumberInv
  BY DEF FmtInv
<1>2. Arg \in Ints
  BY <1>1 DEF NumberInv
<1>3. Prior \in Seq(Letters)
  <2>1. CASE Alone
    BY <2>1 DEF Prior
  <2>2. CASE ~Alone
    <3>1. k - 2 \in Nat /\ Typed(fmt, args, k - 2)
      BY <1>1, <2>2 DEF NumberInv, FmtInv, ReadInv, Typed
    <3> QED
      BY <2>2, <3>1, OutputNext DEF Prior
  <2> QED
    BY <2>1, <2>2
<1>4. ASSUME base \in Bases
      PROVE  /\ Sign(Arg, base) \in Seq(Letters)
             /\ Lead \in Seq(Letters) /\ Whole \in Seq(Letters)
             /\ Len(Lead) = Len(Prior) + Len(Sign(Arg, base))
             /\ Prior \o Signed(Arg, base) = Lead \o Whole
  <2>1. Sign(Arg, base) \in Seq(Letters) /\ Whole \in Seq(Letters)
    BY <1>2, <1>4, SignedType DEF Whole
  <2>2. Lead \in Seq(Letters) /\ Len(Lead) = Len(Prior) + Len(Sign(Arg, base))
    BY <1>3, <2>1 DEF Lead
  <2>3. Prior \o (Sign(Arg, base) \o Whole) = (Prior \o Sign(Arg, base)) \o Whole
    BY <1>3, <2>1, ConcatAssociative
  <2> QED
    BY <2>1, <2>2, <2>3 DEF Signed, Lead, Whole
<1> QED
  BY <1>2, <1>3, <1>4

\* kernel_itoa touches nothing of kernel_vsprintf's.
LEMMA ItoaFrame ==
  ASSUME UNCHANGED <<fmt, k, state, args, base>>
  PROVE  /\ Alone' <=> Alone
         /\ AloneInv' <=> AloneInv
         /\ ReadInv' <=> ReadInv
         /\ Arg' = Arg /\ Prior' = Prior /\ Lead' = Lead /\ Whole' = Whole
         /\ Accepted' <=> Accepted
<1>1. /\ Alone' <=> Alone
      /\ AloneInv' <=> AloneInv
      /\ ReadInv' <=> ReadInv
  BY DEF Alone, AloneInv, ReadInv
<1>2. Arg' = Arg /\ Prior' = Prior
  BY <1>1 DEF Arg, Prior
<1>3. Lead' = Lead /\ Whole' = Whole /\ (Accepted' <=> Accepted)
  BY <1>2 DEF Lead, Whole, Accepted
<1> QED
  BY <1>1, <1>2, <1>3

\* Between its call and its return only NumberInv is at stake.
LEMMA ItoaKeeps ==
  ASSUME FmtInv, RoomInv, UNCHANGED <<fmt, k, state, args, base>>,
         pc \in {"itoa", "digits", "reverse"},
         pc' \in {"itoa", "spin", "digits", "reverse"},
         pc' \in {"itoa", "spin"} => num' = Arg /\ buf' = Prior,
         pc' = "digits" => DigitsInv', pc' = "reverse" => ReverseInv'
  PROVE  FmtInv' /\ RoomInv'
<1>1. NumberInv
  BY DEF FmtInv
<1>2. NumberInv'
  BY <1>1, ItoaFrame DEF NumberInv
<1>3. FmtInv'
  BY <1>2, ItoaFrame DEF FmtInv
<1>4. RoomInv'
  BY ItoaFrame DEF RoomInv
<1> QED
  BY <1>3, <1>4

\* kernel_itoa looks at its base and at the sign.
LEMMA EnterStep == FmtInv /\ RoomInv /\ itoa_enter => FmtInv' /\ RoomInv'
<1> SUFFICES ASSUME FmtInv, RoomInv, itoa_enter PROVE FmtInv' /\ RoomInv'
  OBVIOUS
<1> DEFINE flag == IF num < 0 /\ base = 10 THEN 1 ELSE 0
<1>1. pc = "itoa" /\ UNCHANGED <<fmt, k, state, args, num, base>>
  BY DEF itoa_enter
<1>2. NumberInv /\ num = Arg /\ buf = Prior
  BY <1>1 DEF FmtInv, NumberInv
<1>3. CASE refused
  <2>1. pc' = "spin" /\ UNCHANGED buf
    BY <1>3 DEF itoa_enter
  <2> QED
    BY <1>1, <1>2, <2>1, ItoaKeeps
<1>4. CASE ~refused
  <2>1. /\ pc' = "digits" /\ buf' = buf \o [j \in 1 .. flag |-> "-"]
        /\ start' = Len(buf) + flag + 1
    BY <1>4 DEF itoa_enter, Put, first_digit
  <2>2. base \in Bases /\ Accepted /\ Arg \in Ints
    BY <1>2, <1>4 DEF refused, Accepted, Bases, NumberInv
  <2>3. [j \in 1 .. flag |-> "-"] = Sign(Arg, base) /\ Len(Sign(Arg, base)) = flag
    <3>1. CASE num < 0 /\ base = 10
      BY <1>2, <3>1 DEF Sign
    <3>2. CASE ~(num < 0 /\ base = 10)
      BY <1>2, <3>2 DEF Sign
    <3> QED
      BY <3>1, <3>2
  <2>4. buf' = Lead
    BY <1>2, <2>1, <2>3 DEF Lead
  <2>5. /\ Lead \in Seq(Letters) /\ Whole \in Seq(Letters)
        /\ Len(Lead) = Len(Prior) + Len(Sign(Arg, base)) /\ Prior \in Seq(Letters)
    BY <1>1, <2>2, Writing
  <2>6. start' = Len(Lead) + 1
    BY <1>2, <2>1, <2>3, <2>5
  <2>7. SubSeq(Lead, Len(Lead) + 1, Len(Lead)) = <<>>
    BY <2>5
  <2>8. Lead \o <<>> = Lead /\ Whole \o <<>> = Whole /\ Reverse(<<>>) = <<>>
    BY <2>5, ConcatEmptySeq DEF Reverse
  <2>9. DigitsInv'
    <3>1. Lead' = Lead /\ Whole' = Whole /\ Accepted'
      BY <1>1, <2>2, ItoaFrame
    <3>2. Whole = Numeral(Abs(num'), base')
      BY <1>1, <1>2 DEF Whole
    <3>3. <<>> \in Seq(Letters)
      OBVIOUS
    <3> QED
      BY <1>1, <1>2, <2>2, <2>4, <2>6, <2>7, <2>8, <3>1, <3>2, <3>3 DEF DigitsInv
  <2> QED
    BY <1>1, <2>1, <2>9, ItoaKeeps
<1> QED
  BY <1>3, <1>4

\* C's division, on the way to the next digit.
LEMMA QuotientIs ==
  ASSUME NEW x \in Ints, NEW b \in Bases
  PROVE  /\ quotient(x, b) \in Ints
         /\ Abs(quotient(x, b)) = Abs(x) \div b
         /\ quotient(x, b) = 0 <=> Abs(x) < b
<1>1. Abs(x) \in Nat /\ x \in Int /\ (x < 0 => Abs(x) = -x) /\ (x >= 0 => Abs(x) = x)
  BY FormatAssumption DEF Abs, Ints, INT_MIN
<1>2. PICK d : d = Abs(x) \div b
  OBVIOUS
<1>3. d \in Nat /\ d <= Abs(x) /\ (d = 0 <=> Abs(x) < b)
  BY <1>1, <1>2, DivMod
<1>4. quotient(x, b) = IF x < 0 THEN -d ELSE d
  BY <1>1, <1>2 DEF quotient
<1>5. quotient(x, b) \in Ints
  BY <1>1, <1>3, <1>4, FormatAssumption DEF Ints, INT_MIN
<1>6. Abs(quotient(x, b)) = d
  BY <1>1, <1>3, <1>4 DEF Abs
<1>7. quotient(x, b) = 0 <=> d = 0
  BY <1>1, <1>3, <1>4
<1> QED
  BY <1>2, <1>3, <1>5, <1>6, <1>7

\* kernel_itoa writes the last digit of what is left.
LEMMA DigitStep == FmtInv /\ RoomInv /\ itoa_digit => FmtInv' /\ RoomInv'
<1> SUFFICES ASSUME FmtInv, RoomInv, itoa_digit PROVE FmtInv' /\ RoomInv'
  OBVIOUS
<1>1. /\ pc = "digits" /\ UNCHANGED <<fmt, k, state, args, base>>
      /\ start' = start /\ end' = Len(buf')
      /\ num' = quotient(num, base)
      /\ pc' = IF num' = 0 THEN "reverse" ELSE "digits"
  BY DEF itoa_digit, digits_left
<1>2. NumberInv /\ DigitsInv
  BY <1>1 DEF FmtInv, NumberInv
<1>3. Accepted /\ base \in Bases /\ num \in Ints
  BY <1>2 DEF DigitsInv, Accepted, Bases
<1>4. PICK low : /\ low \in Seq(Letters) /\ buf = Lead \o low
                 /\ low = SubSeq(buf, start, Len(buf)) /\ start = Len(Lead) + 1
                 /\ Whole = Numeral(Abs(num), base) \o Reverse(low)
  BY <1>2 DEF DigitsInv
<1>l. low \in Seq(Letters)
  BY <1>4
<1>5. PICK c : c = DigitChar(Abs(num), base)
  OBVIOUS
<1>6. Abs(num) \in 0 .. INT_MAX + 1 /\ Abs(num) \in Nat /\ base \in Nat
  BY <1>3, SignedType, FormatAssumption DEF Bases
<1>7. c \in Letters
  BY <1>3, <1>5, <1>6, DigitLetter
<1>8. buf' = buf \o <<c>>
  BY <1>5 DEF itoa_digit, Put, digit, DigitChar
<1>9. Lead \in Seq(Letters) /\ Whole \in Seq(Letters)
  BY <1>1, <1>3, Writing
<1>10. PICK more : more = Append(low, c)
  OBVIOUS
<1>11. more \in Seq(Letters) /\ Len(more) = Len(low) + 1
  BY <1>4, <1>7, <1>10
<1>12. buf' = Lead \o more
  <2>1. (Lead \o low) \o <<c>> = Lead \o (low \o <<c>>)
    <3>1. <<c>> \in Seq(Letters)
      BY <1>7
    <3> QED
      BY <1>l, <1>9, <3>1, ConcatAssociative
  <2>2. low \o <<c>> = more
    BY <1>4, <1>7, <1>10, AppendIsConcat
  <2> QED
    BY <1>4, <1>8, <2>1, <2>2
<1>13. SubSeq(buf', start', Len(buf')) = more
  BY <1>1, <1>4, <1>9, <1>11, <1>12, TailOf
<1>14. num' \in Ints /\ Abs(num') = Abs(num) \div base /\ (num' = 0 <=> Abs(num) < base)
  BY <1>1, <1>3, QuotientIs
<1>15. Lead' = Lead /\ Whole' = Whole /\ Accepted'
  BY <1>1, <1>3, ItoaFrame
<1>16. CASE num' # 0
  <2>1. Abs(num) >= base
    BY <1>6, <1>14, <1>16
  <2>2. PICK rest : rest = Numeral(Abs(num'), base)
    OBVIOUS
  <2>3. Numeral(Abs(num), base) = Append(rest, c)
    BY <1>3, <1>5, <1>6, <1>14, <2>1, <2>2, NumeralIs
  <2>4. rest \in Seq(Letters)
    BY <1>3, <1>14, <2>2, SignedType
  <2>5. rest \o Reverse(more) = Append(rest, c) \o Reverse(low)
    <3>1. rest \o Reverse(Append(low, c)) = Append(rest, c) \o Reverse(low)
      BY <1>l, <1>7, <2>4, ReverseAppend
    <3> QED
      BY <1>10, <3>1
  <2>6. Whole = Numeral(Abs(num'), base') \o Reverse(more)
    BY <1>1, <1>4, <2>2, <2>3, <2>5
  <2>7. DigitsInv'
    BY <1>1, <1>4, <1>11, <1>12, <1>13, <1>14, <1>15, <2>6 DEF DigitsInv
  <2> QED
    BY <1>1, <1>16, <2>7, ItoaKeeps
<1>17. CASE num' = 0
  <2>1. Numeral(Abs(num), base) = <<c>>
    BY <1>3, <1>5, <1>6, <1>14, <1>17, NumeralIs
  <2>2. Reverse(more) = Whole
    <3>1. <<>> \in Seq(Letters) /\ Append(<<>>, c) = <<c>>
      BY <1>7
    <3>2. <<>> \o Reverse(more) = Append(<<>>, c) \o Reverse(low)
      <4>1. <<>> \o Reverse(Append(low, c)) = Append(<<>>, c) \o Reverse(low)
        BY <1>l, <1>7, <3>1, ReverseAppend
      <4> QED
        BY <1>10, <4>1
    <3>3. <<>> \o Reverse(more) = Reverse(more)
      BY <1>11, ReverseType, ConcatEmptySeq
    <3> QED
      BY <1>4, <2>1, <3>1, <3>2, <3>3
  <2>3. /\ Len(Whole) = Len(more)
        /\ \A j \in 1 .. Len(Whole) : Whole[j] = more[Len(Whole) + 1 - j]
    <3>1. /\ Len(Reverse(more)) = Len(more)
          /\ \A j \in 1 .. Len(more) : Reverse(more)[j] = more[Len(more) + 1 - j]
      BY <1>11, ReverseType
    <3> QED
      BY <2>2, <3>1
  <2>4. PICK h, n : h = Len(Lead) /\ n = Len(Whole)
    OBVIOUS
  <2>5. /\ h \in Nat /\ n \in Nat /\ n > 0 /\ n = Len(more)
        /\ buf' \in Seq(Letters) /\ Len(buf') = h + n
    <3>1. h \in Nat /\ n \in Nat /\ n = Len(more) /\ n > 0
      BY <1>l, <1>9, <1>11, <2>3, <2>4
    <3>2. Lead \o more \in Seq(Letters) /\ Len(Lead \o more) = Len(Lead) + Len(more)
      <4>1. more \in Seq(Letters)
        BY <1>11
      <4> QED
        BY <1>9, <4>1, ConcatProperties
    <3> QED
      BY <1>12, <2>4, <3>1, <3>2
  <2>6. start' = h + 1 /\ end' = h + n
    BY <1>1, <1>4, <2>4, <2>5
  <2>7. \A j \in 1 .. h : buf'[j] = Lead[j]
    BY <1>9, <1>11, <1>12, <2>4
  <2>8. ASSUME NEW j \in 1 .. n PROVE buf'[h + j] = Whole[n + 1 - j]
    <3>1. buf'[h + j] = more[j]
      BY <1>9, <1>11, <1>12, <2>4, <2>5
    <3>2. n + 1 - j \in 1 .. n /\ n + 1 - (n + 1 - j) = j
      BY <2>5
    <3>3. Whole[n + 1 - j] = more[n + 1 - (n + 1 - j)]
      BY <2>3, <2>4, <3>2
    <3> QED
      BY <3>1, <3>2, <3>3
  <2>9. ReverseInv'
    <3>1. \A j \in 1 .. n : start' <= h + j /\ h + j <= end'
      BY <2>5, <2>6
    <3>2. \A j \in 1 .. n : buf'[h + j]
              = Whole[IF start' <= h + j /\ h + j <= end' THEN n + 1 - j ELSE j]
      BY <2>8, <3>1
    <3>3. /\ start' \in Nat /\ end' \in Nat /\ start' > h /\ start' <= end' + 1
          /\ start' + end' = 2 * h + n + 1
      BY <2>5, <2>6
    <3> QED
      BY <1>15, <2>4, <2>5, <2>7, <3>2, <3>3 DEF ReverseInv
  <2> QED
    BY <1>1, <1>17, <2>9, ItoaKeeps
<1> QED
  BY <1>16, <1>17

\* kernel_itoa swaps the outermost digits not yet in order.
LEMMA SwapStep == FmtInv /\ RoomInv /\ itoa_swap => FmtInv' /\ RoomInv'
<1> SUFFICES ASSUME FmtInv, RoomInv, itoa_swap PROVE FmtInv' /\ RoomInv'
  OBVIOUS
<1>1. /\ pc = "reverse" /\ pc' = pc /\ UNCHANGED <<fmt, k, state, args, base>>
      /\ start < end /\ start' = start + 1 /\ end' = end - 1
      /\ buf' = [buf EXCEPT ![start] = buf[end], ![end] = buf[start]]
  BY DEF itoa_swap
<1>2. ReverseInv
  BY <1>1 DEF FmtInv, NumberInv
<1>3. Accepted /\ base \in Bases
  BY <1>2 DEF ReverseInv, Accepted, Bases
<1>4. Lead \in Seq(Letters) /\ Whole \in Seq(Letters)
  BY <1>1, <1>3, Writing
<1>5. PICK h, n : h = Len(Lead) /\ n = Len(Whole)
  OBVIOUS
<1>6. /\ h \in Nat /\ n \in Nat /\ buf \in Seq(Letters) /\ Len(buf) = h + n
      /\ start \in Nat /\ end \in Nat
      /\ start > h /\ start <= end + 1 /\ start + end = 2 * h + n + 1
  BY <1>2, <1>4, <1>5 DEF ReverseInv
<1>7. \A j \in 1 .. h : buf[j] = Lead[j]
  BY <1>2, <1>5 DEF ReverseInv
<1>8. \A j \in 1 .. n :
        buf[h + j] = Whole[IF start <= h + j /\ h + j <= end THEN n + 1 - j ELSE j]
  BY <1>2, <1>5 DEF ReverseInv
<1>9. start \in 1 .. h + n /\ end \in 1 .. h + n /\ start # end
  BY <1>1, <1>6
<1>10. /\ buf' \in Seq(Letters) /\ Len(buf') = h + n
       /\ buf'[start] = buf[end] /\ buf'[end] = buf[start]
       /\ \A j \in 1 .. h + n : j # start /\ j # end => buf'[j] = buf[j]
  <2>1. buf \in [1 .. h + n -> Letters]
    BY <1>6
  <2>2. buf[start] \in Letters /\ buf[end] \in Letters
    BY <1>9, <2>1
  <2>3. buf' \in [1 .. h + n -> Letters]
    BY <1>1, <2>1, <2>2
  <2>4. buf' \in Seq(Letters) /\ Len(buf') = h + n
    BY <1>6, <2>3
  <2> QED
    BY <1>1, <1>9, <2>1, <2>4
<1>11. \A j \in 1 .. h : buf'[j] = Lead[j]
  BY <1>1, <1>6, <1>7, <1>10
<1>a. /\ h \in Nat /\ n \in Nat /\ start \in Nat /\ end \in Nat
      /\ h < start /\ start < end /\ start + end = h + h + n + 1
      /\ start' = start + 1 /\ end' = end - 1
  BY <1>1, <1>6
<1>12. ASSUME NEW j \in 1 .. n
       PROVE  buf'[h + j]
                = Whole[IF start' <= h + j /\ h + j <= end' THEN n + 1 - j ELSE j]
  <2>1. CASE h + j = start
    <3>1. PICK m \in 1 .. n : h + m = end
      <4>1. end - h \in 1 .. n /\ h + (end - h) = end
        BY <1>a
      <4> QED
        BY <4>1
    <3>2. buf[end] = Whole[n + 1 - m]
      BY <1>a, <1>8, <3>1
    <3>3. n + 1 - m = j /\ ~(start' <= h + j)
      BY <1>a, <2>1, <3>1
    <3> QED
      BY <1>10, <2>1, <3>2, <3>3
  <2>2. CASE h + j = end
    <3>1. PICK m \in 1 .. n : h + m = start
      <4>1. start - h \in 1 .. n /\ h + (start - h) = start
        BY <1>a
      <4> QED
        BY <4>1
    <3>2. buf[start] = Whole[n + 1 - m]
      BY <1>a, <1>8, <3>1
    <3>3. n + 1 - m = j /\ ~(h + j <= end')
      BY <1>a, <2>2, <3>1
    <3> QED
      BY <1>10, <2>2, <3>2, <3>3
  <2>3. CASE h + j # start /\ h + j # end
    <3>1. buf'[h + j] = buf[h + j]
      BY <1>6, <1>10, <2>3
    <3>2. (start' <= h + j /\ h + j <= end') <=> (start <= h + j /\ h + j <= end)
      BY <1>a, <2>3
    <3> QED
      BY <1>8, <3>1, <3>2
  <2> QED
    BY <2>1, <2>2, <2>3
<1>13. /\ start' \in Nat /\ end' \in Nat
       /\ start' > h /\ start' <= end' + 1 /\ start' + end' = 2 * h + n + 1
  BY <1>1, <1>6
<1>14. Lead' = Lead /\ Whole' = Whole /\ Accepted'
  BY <1>1, <1>3, ItoaFrame
<1>15. ReverseInv'
  BY <1>5, <1>10, <1>11, <1>12, <1>13, <1>14 DEF ReverseInv
<1> QED
  BY <1>1, <1>15, ItoaKeeps

\* The piece that kernel_itoa writes for kernel_vsprintf.
LEMMA NumberPiece ==
  ASSUME FmtInv, pc \in {"itoa", "spin", "digits", "reverse"}, ~Alone
  PROVE  /\ k - 2 \in Nat /\ k - 1 \in 1 .. Len(fmt) /\ fmt \in Seq(FmtChars)
         /\ Typed(fmt, args, k - 2)
         /\ Piece(fmt, args, k - 1) = Signed(Arg, base)
         /\ Signed(Arg, base) \in Seq(Letters)
         /\ Accepted => Len(Signed(Arg, base)) <= Width(fmt, k - 1)
<1>1. ReadInv /\ NumberInv
  BY DEF FmtInv
<1>2. /\ k > 1 /\ Open(fmt, k - 1) /\ fmt[k - 1] \in {"d", "x"} /\ Arg \in Ints
      /\ base = (IF fmt[k - 1] = "d" THEN 10 ELSE 16) /\ Arg = Last(args)
  BY <1>1 DEF NumberInv, Arg
<1>3. fmt \in Seq(FmtChars)
  <2>1. fmt \in SeqOf(FmtChars, MaxFmt) /\ MaxFmt \in Nat
    BY <1>1, FormatAssumption DEF ReadInv, Formats
  <2> QED
    BY <2>1, SeqOfType
<1>4. k - 2 \in Nat /\ k - 1 \in 1 .. Len(fmt)
  BY <1>1, <1>2, <1>3 DEF ReadInv
<1>5. ArgOf(fmt, args, k - 1) = Arg
  BY <1>1, <1>2 DEF ArgOf, ReadInv, Last
<1>6. Piece(fmt, args, k - 1) = Signed(Arg, base)
  BY <1>2, <1>5 DEF Piece
<1>7. Signed(Arg, base) \in Seq(Letters)
  BY <1>2, SignedType DEF Bases
<1>8. ASSUME Accepted PROVE Len(Signed(Arg, base)) <= Width(fmt, k - 1)
  <2>1. Arg \in Int
    BY <1>2, FormatAssumption DEF Ints, INT_MIN
  <2>2. CASE fmt[k - 1] = "d"
    <3>1. Width(fmt, k - 1) = Len(Signed(INT_MIN, 10)) /\ base = 10
      BY <1>2, <2>2 DEF Width
    <3> QED
      BY <1>2, <3>1, SignedFits
  <2>3. CASE fmt[k - 1] = "x"
    <3>1. Width(fmt, k - 1) = Len(Signed(INT_MAX, 16)) /\ base = 16
      BY <1>2, <2>3 DEF Width
    <3>2. Arg >= 0
      BY <1>8, <2>1, <3>1 DEF Accepted
    <3> QED
      BY <1>2, <3>1, <3>2, SignedFits
  <2> QED
    BY <1>2, <2>2, <2>3
<1>9. Typed(fmt, args, k - 2)
  BY <1>1, <1>4 DEF ReadInv, Typed
<1> QED
  BY <1>3, <1>4, <1>6, <1>7, <1>8, <1>9

\* kernel_itoa returns, to kernel_vsprintf or to the caller.
LEMMA ReturnStep == FmtInv /\ RoomInv /\ itoa_return => FmtInv' /\ RoomInv'
<1> SUFFICES ASSUME FmtInv, RoomInv, itoa_return PROVE FmtInv' /\ RoomInv'
  OBVIOUS
<1>1. /\ pc = "reverse" /\ start >= end
      /\ pc' = IF Alone THEN "done" ELSE "vsprintf"
      /\ UNCHANGED <<fmt, k, state, args, base, buf>>
  BY DEF itoa_return, itoaVars
<1>2. ReverseInv /\ NumberInv
  BY <1>1 DEF FmtInv, NumberInv
<1>3. Accepted /\ base \in Bases
  BY <1>2 DEF ReverseInv, Accepted, Bases
<1>4. /\ Lead \in Seq(Letters) /\ Whole \in Seq(Letters)
      /\ Prior \in Seq(Letters) /\ Arg \in Ints
      /\ Prior \o Signed(Arg, base) = Lead \o Whole
  BY <1>1, <1>3, Writing
<1>5. PICK h, n : h = Len(Lead) /\ n = Len(Whole)
  OBVIOUS
<1>6. /\ h \in Nat /\ n \in Nat /\ buf \in Seq(Letters) /\ Len(buf) = h + n
      /\ start \in Nat /\ end \in Nat
      /\ start > h /\ start <= end + 1 /\ start + end = 2 * h + n + 1
  BY <1>2, <1>4, <1>5 DEF ReverseInv
<1>7. \A j \in 1 .. h : buf[j] = Lead[j]
  BY <1>2, <1>5 DEF ReverseInv
<1>8. ASSUME NEW j \in 1 .. n PROVE buf[h + j] = Whole[j]
  <2>1. buf[h + j] = Whole[IF start <= h + j /\ h + j <= end THEN n + 1 - j ELSE j]
    BY <1>2, <1>5 DEF ReverseInv
  <2>2. start <= h + j /\ h + j <= end => n + 1 - j = j
    BY <1>1, <1>6
  <2> QED
    BY <2>1, <2>2
<1>9. buf = Lead \o Whole
  <2>1. PICK r : r = Lead \o Whole
    OBVIOUS
  <2>2. r \in Seq(Letters) /\ Len(r) = h + n
    BY <1>4, <1>5, <2>1, ConcatProperties
  <2>3. ASSUME NEW j \in 1 .. h + n PROVE buf[j] = r[j]
    <3>1. CASE j <= h
      BY <1>4, <1>5, <1>7, <2>1, <3>1
    <3>2. CASE j > h
      <4>1. PICK m \in 1 .. n : j = h + m
        <5>1. j - h \in 1 .. n /\ j = h + (j - h)
          BY <1>6, <3>2
        <5> QED
          BY <5>1
      <4>2. r[h + m] = Whole[m]
        <5>1. h + m \in 1 .. h + n /\ ~(h + m <= h) /\ (h + m) - h = m
          BY <1>6
        <5> QED
          BY <1>4, <1>5, <2>1, <5>1, ConcatProperties
      <4> QED
        BY <1>8, <4>1, <4>2
    <3> QED
      BY <1>6, <3>1, <3>2
  <2>4. buf = r
    BY <1>6, <2>2, <2>3, SeqEqual
  <2> QED
    BY <2>1, <2>4
<1>10. (Alone' <=> Alone) /\ (AloneInv' <=> AloneInv) /\ (ReadInv' <=> ReadInv)
  BY <1>1, ItoaFrame
<1>11. CASE Alone
  <2>1. AloneInv /\ Prior = <<>> /\ Arg = args[1] /\ args[2] = base
    BY <1>11 DEF FmtInv, AloneInv, Prior, Arg
  <2>2. Signed(Arg, base) \in Seq(Letters)
    BY <1>3, <1>4, SignedType
  <2>3. buf = Signed(args[1], args[2])
    BY <1>4, <1>9, <2>1, <2>2, ConcatEmptySeq
  <2>4. pc' = "done" /\ k' = Len(fmt') + 1
    BY <1>1, <1>11, <2>1 DEF AloneInv
  <2> QED
    BY <1>1, <1>10, <1>11, <2>1, <2>3, <2>4 DEF FmtInv, RoomInv
<1>12. CASE ~Alone
  <2>1. /\ k - 2 \in Nat /\ Typed(fmt, args, k - 2)
        /\ Piece(fmt, args, k - 1) = Signed(Arg, base)
        /\ Signed(Arg, base) \in Seq(Letters)
        /\ Len(Signed(Arg, base)) <= Width(fmt, k - 1)
    BY <1>1, <1>3, <1>12, NumberPiece
  <2>2. PICK m \in Nat : m = k - 2 /\ m + 1 = k - 1
    BY <2>1, <1>2, <1>12 DEF FmtInv, ReadInv
  <2>3. Output(fmt, args, m + 1) = Output(fmt, args, m) \o Piece(fmt, args, m + 1)
    BY <2>1, <2>2, OutputNext
  <2>4. Output(fmt, args, k - 1) = buf
    BY <1>4, <1>9, <1>12, <2>1, <2>2, <2>3 DEF Prior
  <2>5. FmtInv'
    BY <1>1, <1>10, <1>12, <2>4 DEF FmtInv
  <2>6. Fits(fmt, args, m)
    BY <1>1, <1>12, <2>2 DEF RoomInv
  <2>7. Fits(fmt, args, m + 1)
    BY <2>1, <2>2, <2>6 DEF Fits
  <2>8. RoomInv'
    BY <1>1, <1>10, <2>2, <2>7 DEF RoomInv, Fits
  <2> QED
    BY <2>5, <2>8
<1> QED
  BY <1>11, <1>12

-----------------------------------------------------------------------------
(* The theorems.                                                           *)

\* A call has just been made.
LEMMA FmtInvInit == Init => FmtInv /\ RoomInv
<1>1. Cardinality(Fetches(fmt, 0)) = 0 /\ Typed(fmt, args, 0) /\ Fits(fmt, args, 0)
  BY FetchCount DEF Typed, Fits
<1>2. Output(fmt, args, 0) = <<>>
  BY <1>1, OutputNext
<1>3. <<>> \in Formats
  <2>1. <<>> \in [1 .. 0 -> FmtChars] /\ 0 \in 0 .. MaxFmt
    BY FormatAssumption
  <2> QED
    BY <2>1 DEF Formats, SeqOf
<1>4. ASSUME fmt \in Formats, k = 1, args = <<>>, state = "NORMAL",
             \/ pc = "vsprintf" /\ buf = <<>>
             \/ pc = "done" /\ buf = <<NUL>> /\ fmt = <<>>
      PROVE  FmtInv /\ RoomInv
  <2>1. ~Alone
    BY <1>4 DEF Alone
  <2>2. fmt \in Seq(FmtChars)
    BY <1>4, SeqOfType, FormatAssumption DEF Formats
  <2>3. k <= Len(fmt) => ~Open(fmt, k)
    BY <1>4, <2>2, OpenIs
  <2>4. Len(args) = 0 /\ args \in Seq(Range(args))
    BY <1>4
  <2>5. ReadInv
    BY <1>1, <1>4, <2>2, <2>3, <2>4 DEF ReadInv
  <2>6. FmtInv
    <3>1. k - 1 = 0 /\ (fmt = <<>> => k = Len(fmt) + 1) /\ <<>> \o <<NUL>> = <<NUL>>
      BY <1>4
    <3> QED
      BY <1>2, <1>4, <2>1, <2>5, <3>1 DEF FmtInv
  <2>7. RoomInv
    BY <1>1, <1>4 DEF RoomInv
  <2> QED
    BY <2>6, <2>7
<1>5. ASSUME fmt = <<>>, k = 1, num \in Ints, base \in {2, 8, 10, 16},
             args = <<num, base>>, buf = <<>>, pc = "itoa"
      PROVE  FmtInv /\ RoomInv
  <2>1. Alone /\ args[1] = num
    BY <1>5 DEF Alone
  <2>2. AloneInv
    BY <1>5, <2>1 DEF AloneInv
  <2>3. Arg = num /\ Prior = <<>>
    BY <2>1 DEF Arg, Prior
  <2> QED
    BY <1>5, <2>1, <2>2, <2>3 DEF FmtInv, NumberInv, RoomInv
<1>6. FmtInit => FmtInv /\ RoomInv
  BY <1>4, <1>5 DEF FmtInit
<1>7. NoFormat => FmtInv /\ RoomInv
  BY <1>3, <1>4 DEF NoFormat
<1> QED
  BY <1>6, <1>7 DEF Init

\* Every step keeps the invariant.
LEMMA FmtInvNext == FmtInv /\ RoomInv /\ [Next]_vars => FmtInv' /\ RoomInv'
<1> SUFFICES ASSUME FmtInv, RoomInv, [Next]_vars PROVE FmtInv' /\ RoomInv'
  OBVIOUS
<1>1. CASE UNCHANGED fmtVars
  <2>1. UNCHANGED <<fmt, k, state, args, buf, pc, num, base, start, end>>
    BY <1>1 DEF fmtVars, itoaVars
  <2>2. /\ Alone' <=> Alone
        /\ AloneInv' <=> AloneInv
        /\ ReadInv' <=> ReadInv
        /\ Arg' = Arg /\ Prior' = Prior /\ Lead' = Lead /\ Whole' = Whole
        /\ Accepted' <=> Accepted
    BY <2>1, ItoaFrame
  <2>3. NumberInv' <=> NumberInv
    BY <2>1, <2>2 DEF NumberInv, DigitsInv, ReverseInv
  <2> QED
    BY <2>1, <2>2, <2>3 DEF FmtInv, RoomInv
<1>2. CASE FmtNext
  BY <1>2, CopyStep, PercentStep, TextStep, NumberStep, FinishStep,
     EnterStep, DigitStep, SwapStep, ReturnStep DEF FmtNext
<1> QED
  BY <1>1, <1>2 DEF Next, Returned, vars

\* So it holds in every reachable state.
LEMMA FmtInvariance == Spec => [](FmtInv /\ RoomInv)
BY FmtInvInit, FmtInvNext, PTL DEF Spec

\* Whatever its format and its arguments, a finished call of kernel_vsprintf or
\* kernel_itoa has written exactly what they ask for: numbers in order, with
\* their sign, for every int up to INT_MAX and down to INT_MIN, and then the
\* terminator of kernel_vsprintf.
THEOREM OutputIsRight == Spec => []OutputRight
<1>1. FmtInv => OutputRight
  BY DEF FmtInv, OutputRight
<1> QED
  BY <1>1, FmtInvariance, PTL

\* Pieces that fit each, fit together.
LEMMA OutputFits ==
  ASSUME NEW f \in Seq(FmtChars), NEW a, NEW n \in 0 .. Len(f),
         Typed(f, a, n), Fits(f, a, n)
  PROVE  Len(Output(f, a, n)) <= Room(f, n)
<1> DEFINE S == {m \in Nat : m <= n => Len(Output(f, a, m)) <= Room(f, m)}
<1>0. n \in Nat /\ n <= Len(f)
  OBVIOUS
<1>1. 0 \in S
  <2>1. Output(f, a, 0) = <<>>
    BY <1>0, OutputNext
  <2> QED
    BY <2>1, RoomIs
<1>2. ASSUME NEW m \in Nat, m \in S PROVE m + 1 \in S
  <2> SUFFICES ASSUME m + 1 <= n PROVE Len(Output(f, a, m + 1)) <= Room(f, m + 1)
    OBVIOUS
  <2>1. Typed(f, a, m) /\ m + 1 \in 1 .. n /\ m + 1 \in 1 .. Len(f) /\ m <= n
    BY <1>0 DEF Typed
  <2>2. PICK u, v : u = Output(f, a, m) /\ v = Piece(f, a, m + 1)
    OBVIOUS
  <2>3. u \in Seq(Letters) /\ v \in Seq(Letters)
    BY <2>1, <2>2, OutputNext DEF Typed
  <2>4. Output(f, a, m + 1) = u \o v
    BY <2>1, <2>2, <2>3, OutputNext
  <2>5. Len(u \o v) = Len(u) + Len(v) /\ Len(u) \in Nat /\ Len(v) \in Nat
    BY <2>3
  <2>6. Len(u) <= Room(f, m)
    BY <1>2, <2>1, <2>2
  <2>7. Len(v) <= Width(f, m + 1)
    BY <2>1, <2>2 DEF Fits
  <2>8. Room(f, m + 1) = Room(f, m) + Width(f, m + 1)
    <3>1. (m + 1) - 1 = m
      OBVIOUS
    <3> QED
      BY <2>1, <3>1, RoomIs
  <2>9. Room(f, m) \in Nat /\ Width(f, m + 1) \in Nat
    <3>1. m \in 0 .. Len(f)
      BY <1>0, <2>1
    <3> QED
      BY <3>1, RoomIs, WidthType
  <2> QED
    BY <2>4, <2>5, <2>6, <2>7, <2>8, <2>9
<1>3. Nat \subseteq S
  <2> HIDE DEF S
  <2> QED
    BY <1>1, <1>2, SetInduction
<1> QED
  BY <1>0, <1>3

\* The invariant bounds what has been written, digits still to be reversed included.
LEMMA InvEnough == FmtInv /\ RoomInv => BufferEnough
<1> SUFFICES ASSUME FmtInv, RoomInv, ~Alone
             PROVE  Len(buf) <= Room(fmt, Len(fmt)) + 1
  BY DEF BufferEnough
<1>1. ~Alone /\ ReadInv
  BY DEF FmtInv
<1>2. fmt \in Seq(FmtChars)
  BY <1>1, SeqOfType, FormatAssumption DEF ReadInv, Formats
<1>3. k - 1 \in 0 .. Len(fmt) /\ k \in Nat
  BY <1>1, <1>2 DEF ReadInv
<1>4. Room(fmt, k - 1) <= Room(fmt, Len(fmt))
  BY <1>2, <1>3, RoomGrows
<1>5. Room(fmt, Len(fmt)) \in Nat /\ Room(fmt, k - 1) \in Nat
  BY <1>2, <1>3, RoomIs
<1>6. CASE pc \in {"vsprintf", "done"}
  <2>1. PICK text : text = Output(fmt, args, k - 1)
    OBVIOUS
  <2>2. /\ pc = "vsprintf" => buf = text
        /\ pc = "done" => buf = text \o <<NUL>>
        /\ Typed(fmt, args, k - 1) /\ Fits(fmt, args, k - 1)
    BY <1>1, <1>6, <2>1 DEF FmtInv, ReadInv, RoomInv
  <2>3. Len(text) <= Room(fmt, k - 1)
    BY <1>2, <1>3, <2>1, <2>2, OutputFits
  <2>4. text \in Seq(Letters)
    BY <1>3, <2>1, <2>2, OutputNext
  <2>5. /\ Len(text) \in Nat
        /\ Len(text \o <<NUL>>) = Len(text) + 1
    <3>1. text \in Seq(Letters \cup {NUL}) /\ <<NUL>> \in Seq(Letters \cup {NUL})
      BY <2>4
    <3> QED
      BY <3>1
  <2>6. Len(buf) = Len(text) \/ Len(buf) = Len(text) + 1
    BY <1>6, <2>2, <2>5
  <2> QED
    BY <1>4, <1>5, <2>3, <2>5, <2>6
<1>7. CASE pc \in {"itoa", "spin", "digits", "reverse"}
  <2>1. /\ k - 2 \in Nat /\ k - 1 \in 1 .. Len(fmt) /\ Typed(fmt, args, k - 2)
        /\ Signed(Arg, base) \in Seq(Letters)
        /\ Accepted => Len(Signed(Arg, base)) <= Width(fmt, k - 1)
    BY <1>1, <1>7, NumberPiece
  <2>2. Fits(fmt, args, k - 2) /\ Prior = Output(fmt, args, k - 2)
    BY <1>1, <1>7 DEF RoomInv, Prior
  <2>3. k - 2 \in 0 .. Len(fmt)
    BY <1>2, <1>3, <2>1
  <2>4. Len(Prior) <= Room(fmt, k - 2)
    BY <1>2, <2>1, <2>2, <2>3, OutputFits
  <2>5. Room(fmt, k - 1) = Room(fmt, k - 2) + Width(fmt, k - 1)
    <3>1. (k - 1) - 1 = k - 2
      BY <1>3
    <3> QED
      BY <1>2, <2>1, <3>1, RoomIs
  <2>6. Width(fmt, k - 1) \in Nat /\ Room(fmt, k - 2) \in Nat
    BY <1>2, <2>3, RoomIs, WidthType
  <2>7. Prior \in Seq(Letters) /\ Arg \in Ints
    BY <1>7, Writing
  <2>8. CASE pc \in {"itoa", "spin"}
    <3>1. buf = Prior
      BY <2>8 DEF FmtInv, NumberInv
    <3>2. Len(Prior) \in Nat
      BY <2>7
    <3> QED
      BY <1>4, <1>5, <2>4, <2>5, <2>6, <3>1, <3>2
  <2>9. CASE pc \in {"digits", "reverse"}
    <3>1. Accepted /\ base \in Bases
      BY <2>9 DEF FmtInv, NumberInv, DigitsInv, ReverseInv, Accepted, Bases
    <3>2. /\ Sign(Arg, base) \in Seq(Letters) /\ Lead \in Seq(Letters) /\ Whole \in Seq(Letters)
          /\ Len(Lead) = Len(Prior) + Len(Sign(Arg, base))
      BY <1>7, <3>1, Writing
    <3>3. Len(Signed(Arg, base)) = Len(Sign(Arg, base)) + Len(Whole)
      BY <2>7, <3>1, SignedType DEF Whole
    <3>4. Len(buf) \in Nat /\ Len(buf) <= Len(Lead) + Len(Whole)
      <4>1. CASE pc = "digits"
        <5>1. PICK low, rest :
                /\ low \in Seq(Letters) /\ buf = Lead \o low
                /\ rest = Numeral(Abs(num), base) /\ Whole = rest \o Reverse(low)
                /\ num \in Ints
          BY <4>1 DEF FmtInv, NumberInv, DigitsInv
        <5>2. rest \in Seq(Letters)
          BY <3>1, <5>1, SignedType
        <5>3. Reverse(low) \in Seq(Letters) /\ Len(Reverse(low)) = Len(low)
          BY <5>1, ReverseType
        <5>4. Len(rest \o Reverse(low)) = Len(rest) + Len(Reverse(low))
          BY <5>2, <5>3, ConcatProperties
        <5>5. Len(Whole) = Len(rest) + Len(low)
          BY <5>1, <5>3, <5>4
        <5>6. low \in Seq(Letters)
          BY <5>1
        <5>7. Lead \in Seq(Letters)
          BY <3>2
        <5>8. Len(Lead \o low) = Len(Lead) + Len(low)
          BY <5>6, <5>7, ConcatProperties
        <5>9. Len(low) \in Nat /\ Len(rest) \in Nat /\ Len(Lead) \in Nat
          BY <5>2, <5>6, <5>7
        <5>10. Len(buf) = Len(Lead) + Len(low)
          BY <5>1, <5>8
        <5> QED
          BY <5>5, <5>9, <5>10
      <4>2. CASE pc = "reverse"
        <5>1. Len(buf) = Len(Lead) + Len(Whole) /\ buf \in Seq(Letters)
          BY <4>2 DEF FmtInv, NumberInv, ReverseInv
        <5> QED
          BY <3>2, <5>1
      <4> QED
        BY <2>9, <4>1, <4>2
    <3>5. /\ Len(Prior) \in Nat /\ Len(Sign(Arg, base)) \in Nat /\ Len(Whole) \in Nat
          /\ Len(Lead) \in Nat
      BY <2>7, <3>2
    <3>6. Len(Signed(Arg, base)) <= Width(fmt, k - 1)
      BY <2>1, <3>1
    <3>7. Len(buf) <= Room(fmt, k - 1)
      BY <2>4, <2>5, <2>6, <3>2, <3>3, <3>4, <3>5, <3>6
    <3> QED
      BY <1>4, <1>5, <3>4, <3>7
  <2> QED
    BY <1>7, <2>8, <2>9
<1> QED
  BY <1>6, <1>7 DEF FmtInv

\* Whatever the arguments, and at every moment of the call, no more is written
\* than one character for each of the format, the longest number for %d and
\* %x, the argument for %s, and a terminator.
THEOREM BufferIsEnough == Spec => []BufferEnough
BY FmtInvariance, InvEnough, PTL

=============================================================================
