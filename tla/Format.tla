------------------------------- MODULE Format -------------------------------
(***************************************************************************)
(* kernel_vsprintf and kernel_itoa of kernel/tools/klib.c, the formatting  *)
(* behind log_printfln, character by character.                            *)
(*                                                                         *)
(* A call is kernel_vsprintf with a format whose arguments are chosen when *)
(* they are fetched, or kernel_itoa alone (then the format is empty).  An  *)
(* int has INT_MAX + 1 values below zero.                                  *)
(***************************************************************************)
EXTENDS Integers, SequencesExt

CONSTANTS
  INT_MAX,  \* the largest int
  MaxFmt,   \* bound: characters in a format
  ArgInts,  \* bound: the %d and %x arguments
  Chars,    \* characters of %c and %s arguments
  MaxText   \* bound: characters in a %s argument

INT_MIN == -INT_MAX - 1
Ints == INT_MIN .. INT_MAX

ASSUME FormatAssumption ==
  /\ {INT_MAX, MaxFmt, MaxText} \subseteq Nat
  /\ ArgInts \subseteq Ints

VARIABLES
  fmt, k,      \* the format, and how far it has been read
  state,       \* NORMAL or READ_FMT
  args,        \* auxiliary: the arguments fetched
  buf,         \* what has been written; current or p point behind it
  pc,          \* "vsprintf", "itoa", "digits", "reverse", "done" or "spin"
  num, base,   \* arguments of kernel_itoa
  start, end   \* its two pointers into buf

itoaVars == <<num, base, start, end>>
fmtVars == <<fmt, k, state, args, buf, pc, itoaVars>>

FmtChars == {"%", "s", "d", "x", "c", "a"}
Formats == SeqOf(FmtChars, MaxFmt)
Texts == SeqOf(Chars, MaxText)

num2ch == <<"0", "1", "2", "3", "4", "5", "6", "7", "8", "9",
            "A", "B", "C", "D", "E", "F">>

NUL == "NUL"

\* kernel_itoa has been called alone.
Alone == fmt = <<>> /\ args # <<>>

FmtInit ==
  /\ k = 1 /\ state = "NORMAL" /\ buf = <<>> /\ start = 0 /\ end = 0
  /\ \/ /\ pc = "vsprintf" /\ fmt \in Formats
        /\ num = 0 /\ base = 10 /\ args = <<>>
     \/ /\ pc = "itoa" /\ fmt = <<>>
        /\ num \in Ints /\ base \in {2, 8, 10, 16} /\ args = <<num, base>>

-----------------------------------------------------------------------------
(* kernel_vsprintf.                                                        *)

\* The next character of the format, read in state s.
Read(s) ==
  /\ pc = "vsprintf" /\ k <= Len(fmt) /\ state = s
  /\ k' = k + 1
  /\ UNCHANGED fmt

Put(text) == buf' = buf \o text
Fetch(arg) == args' = Append(args, arg)

copy ==
  /\ Read("NORMAL") /\ fmt[k] # "%"
  /\ Put(<<fmt[k]>>)
  /\ UNCHANGED <<state, args, pc, itoaVars>>

percent ==
  /\ Read("NORMAL") /\ fmt[k] = "%"
  /\ state' = "READ_FMT"
  /\ UNCHANGED <<args, buf, pc, itoaVars>>

Directive == Read("READ_FMT") /\ state' = "NORMAL"

put_text ==
  /\ Directive
  /\ \/ fmt[k] = "s" /\ \E t \in Texts : Fetch(t) /\ Put(t)
     \/ fmt[k] = "c" /\ \E c \in Chars : Fetch(c) /\ Put(<<c>>)
     \/ fmt[k] = "%" /\ Put(<<"%">>) /\ UNCHANGED args
     \/ fmt[k] \notin {"s", "c", "%", "d", "x"} /\ Put(<<"?">>) /\ UNCHANGED args
  /\ UNCHANGED <<pc, itoaVars>>

put_number ==
  /\ Directive /\ fmt[k] \in {"d", "x"}
  /\ \E i \in ArgInts : Fetch(i) /\ num' = i
  /\ base' = IF fmt[k] = "d" THEN 10 ELSE 16
  /\ pc' = "itoa"
  /\ UNCHANGED <<buf, start, end>>

\* The terminator.
finish ==
  /\ pc = "vsprintf" /\ k > Len(fmt)
  /\ Put(<<NUL>>)
  /\ pc' = "done"
  /\ UNCHANGED <<fmt, k, state, args, itoaVars>>

-----------------------------------------------------------------------------
(* kernel_itoa.                                                            *)

\* mutant of refused: any negative number
refused_negative == base \notin {2, 10, 16} \/ num < 0

\* A base it does not know, or a negative number in base 16.
refused == base \notin {2, 10, 16} \/ (num < 0 /\ base = 16)

\* mutant of first_digit: the sign is turned round with the digits
first_digit_sign(flag) == Len(buf) + 1

first_digit(flag) == Len(buf) + flag + 1

\* Prints a message and loops forever when it refuses.
itoa_enter ==
  /\ pc = "itoa"
  /\ LET flag == IF num < 0 /\ base = 10 THEN 1 ELSE 0
     IN  IF refused
         THEN pc' = "spin" /\ UNCHANGED <<buf, start>>
         ELSE /\ pc' = "digits"
              /\ Put([j \in 1 .. flag |-> "-"])
              /\ start' = first_digit(flag)
  /\ UNCHANGED <<fmt, k, state, args, num, base, end>>

Abs(x) == IF x < 0 THEN -x ELSE x

\* C rounds towards zero, and the remainder has the sign of the dividend.
quotient(x, b) == IF x < 0 THEN -(Abs(x) \div b) ELSE x \div b
digit(x, b) == Abs(x) % b

\* mutant of digits_left: tests the number before it is divided
digits_left_late == num # 0

digits_left == num' # 0

itoa_digit ==
  /\ pc = "digits"
  /\ Put(<<num2ch[digit(num, base) + 1]>>)
  /\ num' = quotient(num, base)
  /\ end' = Len(buf')
  /\ pc' = IF digits_left THEN "digits" ELSE "reverse"
  /\ UNCHANGED <<fmt, k, state, args, base, start>>

itoa_swap ==
  /\ pc = "reverse" /\ start < end
  /\ buf' = [buf EXCEPT ![start] = buf[end], ![end] = buf[start]]
  /\ start' = start + 1
  /\ end' = end - 1
  /\ UNCHANGED <<fmt, k, state, args, pc, num, base>>

\* To kernel_vsprintf, or to a caller of its own: there is no terminator then.
itoa_return ==
  /\ pc = "reverse" /\ start >= end
  /\ pc' = IF Alone THEN "done" ELSE "vsprintf"
  /\ UNCHANGED <<fmt, k, state, args, buf, itoaVars>>

FmtNext ==
  \/ copy \/ percent \/ put_text \/ put_number \/ finish
  \/ itoa_enter \/ itoa_digit \/ itoa_swap \/ itoa_return

-----------------------------------------------------------------------------
(* What a call should write.                                               *)

\* A number in base b, most significant digit first, without leading zeros.
Numeral(x, b) ==
  LET numeral[y \in 0 .. INT_MAX + 1] ==
        (IF y < b THEN <<>> ELSE numeral[y \div b]) \o <<num2ch[(y % b) + 1]>>
  IN  numeral[x]

Sign(x, b) == IF x < 0 /\ b = 10 THEN <<"-">> ELSE <<>>
Signed(x, b) == Sign(x, b) \o Numeral(Abs(x), b)

\* Whether the character at j of format f is a directive: it follows a % that
\* is not one itself.
Open(f, j) ==
  LET open[m \in 0 .. Len(f)] == m > 1 /\ f[m - 1] = "%" /\ ~open[m - 1]
  IN  open[j]

\* The directives up to j that take an argument, and the argument in a of the
\* directive at j.
Fetches(f, j) == {m \in 1 .. j : Open(f, m) /\ f[m] \in {"s", "c", "d", "x"}}
ArgOf(f, a, j) == a[Cardinality(Fetches(f, j))]

\* What the character at j of format f, with the arguments a, writes.
Piece(f, a, j) ==
  IF Open(f, j)
  THEN CASE f[j] = "s" -> ArgOf(f, a, j)
         [] f[j] = "c" -> <<ArgOf(f, a, j)>>
         [] f[j] = "d" -> Signed(ArgOf(f, a, j), 10)
         [] f[j] = "x" -> Signed(ArgOf(f, a, j), 16)
         [] f[j] = "%" -> <<"%">>
         [] OTHER -> <<"?">>
  ELSE IF f[j] = "%" THEN <<>> ELSE <<f[j]>>

\* What the first n characters write.
Output(f, a, n) == FlattenSeq([j \in 1 .. n |-> Piece(f, a, j)])

\* A finished call has written what its format and its arguments ask for,
\* numbers from INT_MIN to INT_MAX included, and a terminator; kernel_itoa
\* alone writes a number and, in base 10, its sign.
OutputRight ==
  pc = "done" =>
    buf = IF Alone THEN Signed(args[1], args[2])
                   ELSE Output(fmt, args, Len(fmt)) \o <<NUL>>

Width(f, j) ==
  CASE ~Open(f, j) /\ f[j] = "%" -> 0
    [] Open(f, j) /\ f[j] = "s" -> MaxText
    [] Open(f, j) /\ f[j] = "d" -> Len(Signed(INT_MIN, 10))
    [] Open(f, j) /\ f[j] = "x" -> Len(Signed(INT_MAX, 16))
    [] OTHER -> 1

\* The room for the first n characters.
Room(f, n) ==
  LET room[m \in 0 .. Len(f)] == IF m = 0 THEN 0 ELSE room[m - 1] + Width(f, m)
  IN  room[n]

\* kernel_vsprintf is not told how large the buffer is.  What its caller has to
\* leave: the longest number for each %d and %x, the argument for each %s, one
\* character for every other directive and for each character outside of the
\* directives, and the terminator.  Whatever the arguments, no more is ever
\* written, at any moment of the call.
BufferEnough == ~Alone => Len(buf) <= Room(fmt, Len(fmt)) + 1

=============================================================================
