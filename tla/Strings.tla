------------------------------- MODULE Strings -------------------------------
(***************************************************************************)
(* The string and memory helpers of kernel/tools/klib.c, one iteration of  *)
(* their loops at a time, on a small memory.  A byte 0 ends a string.      *)
(***************************************************************************)
EXTENDS Integers, FiniteSetsExt

CONSTANTS
  MemBytes,  \* bound: bytes of memory
  Bytes      \* values of a byte, 0 included

ASSUME StringsAssumption ==
  /\ MemBytes \in Nat \ {0}
  /\ 0 \in Bytes /\ Bytes \subseteq Nat

VARIABLES
  bytes,    \* the memory
  before,   \* auxiliary: the memory when the call was made
  call,     \* the call
  p, q, i,  \* its pointers, and its loop variable or remaining size
  ret       \* "loop", then what it returns

strVars == <<bytes, before, call, p, q, i, ret>>

Address == 0 .. MemBytes - 1
Area(a, size) == a .. a + size - 1

\* A string starts at a, and its length.
IsString(m, a) == \E b \in Address : b >= a /\ m[b] = 0
Length(m, a) == Min({b \in Address : b >= a /\ m[b] = 0}) - a

kernel_strlen(a) == Length(bytes, a)

\* Bytes that a call writes, or compares.
Extent(m, c) ==
  IF c.op \in {"strcpy", "str_equal"} THEN Length(m, c.src) + 1 ELSE c.size

\* What callers may pass: strings that end, areas in memory, and copies to
\* another place.
Legal(m, c) ==
  /\ c.op \in {"strcpy", "str_equal"} => IsString(m, c.src) /\ c.size = 0
  /\ c.op = "str_equal" => IsString(m, c.dest)
  /\ IF c.op = "memset" THEN c.src = 0 ELSE c.c = 0
  /\ Area(c.dest, Extent(m, c)) \cup Area(c.src, Extent(m, c)) \subseteq Address
     \/ c.op = "str_equal"
  /\ c.op \in {"strcpy", "memcpy"} =>
       Area(c.dest, Extent(m, c)) \cap Area(c.src, Extent(m, c)) = {}

Calls == [op : {"strcpy", "memcpy", "memset", "mem_equal", "str_equal"},
          dest : Address, src : Address, c : Bytes, size : 0 .. MemBytes \div 2]

StrInit ==
  /\ bytes \in [Address -> Bytes]
  /\ before = bytes
  /\ call \in {c \in Calls : Legal(bytes, c)}
  /\ p = call.dest /\ q = call.src
  /\ i = IF call.op \in {"memcpy", "memset"} THEN call.size ELSE 0
  /\ ret = "loop"

In(op) == call.op = op /\ ret = "loop" /\ UNCHANGED <<before, call>>

Advance == p' = p + 1 /\ q' = q + 1
Return(r) == ret' = r /\ UNCHANGED <<p, q, i>>
Write(a, v) == bytes' = [bytes EXCEPT ![a] = v]

kernel_strcpy ==
  /\ In("strcpy")
  /\ Write(p, bytes[q])
  /\ IF bytes[q] # 0 THEN Advance /\ UNCHANGED <<i, ret>> ELSE Return("void")

size_left == i # 0

kernel_memcpy ==
  /\ In("memcpy")
  /\ IF size_left
     THEN Write(p, bytes[q]) /\ Advance /\ i' = i - 1 /\ UNCHANGED ret
     ELSE Return("void") /\ UNCHANGED bytes

\* The pointer is not advanced: only the first byte is ever written.
kernel_memset ==
  /\ In("memset")
  /\ IF size_left
     THEN Write(p, call.c) /\ i' = i - 1 /\ UNCHANGED <<p, q, ret>>
     ELSE Return("void") /\ UNCHANGED bytes

\* mutant of more_to_compare: one byte too few
more_to_compare_short == i + 1 < call.size

more_to_compare == i < call.size

kernel_mem_equal ==
  /\ In("mem_equal")
  /\ IF more_to_compare
     THEN IF bytes[p] = bytes[q] THEN Advance /\ i' = i + 1 /\ UNCHANGED ret
                                 ELSE Return("0")
     ELSE Return("1")
  /\ UNCHANGED bytes

\* The bound of the loop is the length of what is left of s1.
kernel_str_equal ==
  /\ In("str_equal")
  /\ IF i = 0 /\ kernel_strlen(p) # kernel_strlen(q) THEN Return("0")
     ELSE IF i < kernel_strlen(p)
          THEN IF bytes[p] = bytes[q] THEN Advance /\ i' = i + 1 /\ UNCHANGED ret
                                      ELSE Return("0")
          ELSE Return("1")
  /\ UNCHANGED bytes

StrNext ==
  \/ kernel_strcpy
  \/ kernel_memcpy
  \/ kernel_memset
  \/ kernel_mem_equal
  \/ kernel_str_equal

-----------------------------------------------------------------------------

SameBytes(n) ==
  \A j \in 0 .. n - 1 : before[call.dest + j] = before[call.src + j]

\* The two strings of a call of kernel_str_equal are equal.
SameStrings ==
  LET n == Length(before, call.src)
  IN  Length(before, call.dest) = n /\ SameBytes(n)

\* No helper ever writes outside of its destination.  When a copy returns, its
\* destination holds what the source held, with the terminator.
\* kernel_mem_equal tells whether two areas are equal; kernel_str_equal never
\* takes equal strings for different ones, nor strings of different lengths
\* for equal (StrEqualRight is what it is meant to do).  kernel_memset does not
\* fill its area: the first byte has the value, the others are as they were.
HelpersRight ==
  /\ \A a \in Address \ Area(call.dest, Extent(before, call)) :
       bytes[a] = before[a]
  /\ ret # "loop" =>
       /\ call.op \in {"strcpy", "memcpy"} =>
            \A a \in Area(call.dest, Extent(before, call)) :
              bytes[a] = before[call.src + a - call.dest]
       /\ call.op = "memset" =>
            \A a \in Area(call.dest, call.size) :
              bytes[a] = IF a = call.dest THEN call.c ELSE before[a]
       /\ call.op = "mem_equal" => (ret = "1" <=> SameBytes(call.size))
       /\ call.op = "str_equal" =>
            /\ SameStrings => ret = "1"
            /\ Length(before, call.dest) # Length(before, call.src) => ret = "0"

\* kernel_str_equal returns 1 for equal strings and 0 for different ones, as the
\* comment above it says.
StrEqualRight ==
  ret # "loop" /\ call.op = "str_equal" => ret = IF SameStrings THEN "1" ELSE "0"

=============================================================================
