------------------------------ MODULE NgxString ------------------------------
(***************************************************************************)
(* The formatter of src/core/ngx_string.c.  A byte is an integer 0..255, a *)
(* C string the sequence of its bytes before the terminating NUL, and a    *)
(* buffer of `room` bytes (last - buf) is filled from its start: each      *)
(* operator returns the bytes it writes, so "buf < last" is                *)
(* "Len(written) < room".  Integers are W bits wide.  A va_arg is its      *)
(* value: an integer, or the bytes of a string (ngx_str_t, u_char ptr).      *)
(***************************************************************************)
EXTENDS Integers, Sequences, SequencesExt

CONSTANTS
  W,             \* bits of int64_t/uint64_t (scaled)
  IntTLen,       \* NGX_INT_T_LEN, the width of %mi and %mA
  PtrHexWidth    \* 2 * sizeof(void *), the width of %p

Wide == 2 ^ W

\* Printable ASCII from 32 (the quote, backslash and backquote named); Ord
\* maps a one-character string to its byte.
Alpha == <<" ","!","DQ","#","$","%","&","'","(",")","*","+",",","-",".","/",
           "0","1","2","3","4","5","6","7","8","9",":",";","<","=",">","?","@",
           "A","B","C","D","E","F","G","H","I","J","K","L","M","N","O","P","Q",
           "R","S","T","U","V","W","X","Y","Z","[","BS","]","^","_","BQ",
           "a","b","c","d","e","f","g","h","i","j","k","l","m","n","o","p","q",
           "r","s","t","u","v","w","x","y","z","{","|","}","~">>
OrdTable == [c \in {Alpha[i] : i \in DOMAIN Alpha} |-> 31 + CHOOSE i \in DOMAIN Alpha : Alpha[i] = c]
Ord(c) == OrdTable[c]
Str(s) == [k \in DOMAIN s |-> Ord(s[k])]
Bytes(s) == {Ord(s[k]) : k \in DOMAIN s}

NUL == 0
LF == 10

\* The digit tables of ngx_sprintf_num and ngx_sprintf_str.
hex == Str(<<"0","1","2","3","4","5","6","7","8","9","a","b","c","d","e","f">>)
HEX == Str(<<"0","1","2","3","4","5","6","7","8","9","A","B","C","D","E","F">>)

MinOf(a, b) == IF a < b THEN a ELSE b

\* The byte at index i of a format; past its end, the terminating NUL.
At(f, i) == IF i <= Len(f) THEN f[i] ELSE NUL

\* Mutant: n bytes of src copied before the NUL.
CpystrnOffByOne(src, n) ==
  IF n = 0 THEN <<>> ELSE SubSeq(src, 1, MinOf(n, Len(src))) \o <<NUL>>

(* ngx_cpystrn(dst, src, n): copies up to n - 1 bytes of src, stopping    *)
(* after a NUL, and terminates dst; n = 0 writes nothing.                  *)
ngx_cpystrn(src, n) ==
  IF n = 0 THEN <<>> ELSE SubSeq(src, 1, MinOf(n - 1, Len(src))) \o <<NUL>>

\* Mutant: while (v /= b) { ... } -- zero has no digit.
RECURSIVE DigitsWhile(_, _)
DigitsWhile(v, b) == IF v = 0 THEN <<>> ELSE DigitsWhile(v \div b, b) \o <<v % b>>

\* The digits of v, most significant first: do { *--p = ... } while (v /= b).
RECURSIVE Digits(_, _)
Digits(v, b) == IF v < b THEN <<v>> ELSE Digits(v \div b, b) \o <<v % b>>

\* Mutant: the padding loop stops one short of the width.
SprintfNumShortPad(room, ui64, zero, hexadecimal, width) ==
  LET tbl == CASE hexadecimal = 0 -> Str(<<"0","1","2","3","4","5","6","7","8","9">>)
               [] hexadecimal = 1 -> hex
               [] OTHER -> HEX
      ds  == Digits(ui64, IF hexadecimal = 0 THEN 10 ELSE 16)
      pad == IF width - 1 > Len(ds) THEN MinOf(width - 1 - Len(ds), room) ELSE 0
  IN  [k \in 1..pad |-> zero]
        \o [k \in 1..MinOf(Len(ds), room - pad) |-> tbl[ds[k] + 1]]

(* ngx_sprintf_num: the decimal (both the 32- and the 64-bit loop give the *)
(* same digits) or hexadecimal digits of ui64, padded on the left with     *)
(* `zero` up to `width` while room lasts, then as many digits as fit.      *)
ngx_sprintf_num(room, ui64, zero, hexadecimal, width) ==
  LET tbl == CASE hexadecimal = 0 -> Str(<<"0","1","2","3","4","5","6","7","8","9">>)
               [] hexadecimal = 1 -> hex
               [] OTHER -> HEX
      ds  == Digits(ui64, IF hexadecimal = 0 THEN 10 ELSE 16)
      pad == IF width > Len(ds) THEN MinOf(width - Len(ds), room) ELSE 0
  IN  [k \in 1..pad |-> zero]
        \o [k \in 1..MinOf(Len(ds), room - pad) |-> tbl[ds[k] + 1]]

\* The two hex digits of byte c, from table t.
HexByte(t, c) == <<t[c \div 16 + 1], t[(c % 16) + 1]>>

\* Mutant: the hex loop tests buf < last, not buf < last - 1.
SprintfStrPastLast(room, src, len, hexadecimal) ==
  LET n == IF len = -1 THEN Len(src) ELSE len
  IN  IF hexadecimal = 0 THEN SubSeq(src, 1, MinOf(n, room))
      ELSE LET t == IF hexadecimal = 1 THEN hex ELSE HEX
           IN  FlattenSeq([k \in 1..MinOf(n, (room + 1) \div 2) |-> HexByte(t, src[k])])

(* ngx_sprintf_str: src up to its NUL (len = -1) or its first len bytes,   *)
(* as much as fits; in hex, two digits per byte while two bytes remain     *)
(* (buf < last - 1).                                                       *)
ngx_sprintf_str(room, src, len, hexadecimal) ==
  LET n == IF len = -1 THEN Len(src) ELSE len
  IN  IF hexadecimal = 0 THEN SubSeq(src, 1, MinOf(n, room))
      ELSE LET t == IF hexadecimal = 1 THEN hex ELSE HEX
           IN  FlattenSeq([k \in 1..MinOf(n, room \div 2) |-> HexByte(t, src[k])])

IsDigit(c) == c >= Ord("0") /\ c <= Ord("9")

\* while (*fmt >= '0' && *fmt <= '9') n = n * 10 + (*fmt++ - '0');
RECURSIVE Number(_, _, _)
Number(f, i, n) ==
  IF IsDigit(At(f, i)) THEN Number(f, i + 1, n * 10 + At(f, i) - Ord("0"))
  ELSE [n |-> n, i |-> i]

(* The for (;;) loop over the modifiers u, m, X, x, '*' and '.'; it ends   *)
(* at the first other byte, or right after the digits of '.'.              *)
RECURSIVE Modifiers(_, _, _)
Modifiers(f, args, m) ==
  LET c == At(f, m.i)
  IN  CASE c = Ord("u") -> Modifiers(f, args, [m EXCEPT !.sign = 0, !.i = @ + 1])
        [] c = Ord("m") -> Modifiers(f, args, [m EXCEPT !.maxw = 1, !.i = @ + 1])
        [] c = Ord("X") -> Modifiers(f, args, [m EXCEPT !.hex = 2, !.sign = 0, !.i = @ + 1])
        [] c = Ord("x") -> Modifiers(f, args, [m EXCEPT !.hex = 1, !.sign = 0, !.i = @ + 1])
        [] c = Ord("*") -> Modifiers(f, args, [m EXCEPT !.slen = args[m.a],
                                                        !.a = @ + 1, !.i = @ + 1])
        [] c = Ord(".") -> LET r == Number(f, m.i + 1, m.frac)
                           IN  [m EXCEPT !.frac = r.n, !.i = r.i]
        [] OTHER        -> m

(* The tail shared by the integer types: a negative signed value writes   *)
(* '-' and prints (uint64_t) -i64, computed in W bits.                     *)
PrintNumber(room, out, sign, v, zero, hx, width) ==
  LET neg == sign = 1 /\ v < 0
      pre == IF neg THEN <<Ord("-")>> ELSE <<>>
      ui64 == IF neg THEN (-v) % Wide ELSE v
  IN  out \o pre \o ngx_sprintf_num(room - Len(out) - Len(pre), ui64, zero, hx, width)

\* Mutant: no carry when the fraction rounds up to scale.
PrintFloatNoCarry(room, out, f0, zero, width, fw) ==
  LET neg   == f0 < 0
      f     == IF neg THEN -f0 ELSE f0
      o1    == IF neg THEN Append(out, Ord("-")) ELSE out
      scale == 10 ^ fw
      frac  == ((f % 1000) * scale + 500) \div 1000
      o2    == o1 \o ngx_sprintf_num(room - Len(o1), f \div 1000, zero, 0, width)
      o3    == IF fw # 0 /\ Len(o2) < room THEN Append(o2, Ord(".")) ELSE o2
  IN  IF fw = 0 THEN o2
      ELSE o3 \o ngx_sprintf_num(room - Len(o3), frac, Ord("0"), 0, fw)

(* %f, with the double given as an exact number of thousandths: '-', the  *)
(* integer part, and frac_width rounded digits, a rounding up to scale     *)
(* carrying into the integer part.                                         *)
PrintFloat(room, out, f0, zero, width, fw) ==
  LET neg   == f0 < 0
      f     == IF neg THEN -f0 ELSE f0
      o1    == IF neg THEN Append(out, Ord("-")) ELSE out
      scale == 10 ^ fw
      fr    == ((f % 1000) * scale + 500) \div 1000
      ui64  == IF fw # 0 /\ fr = scale THEN f \div 1000 + 1 ELSE f \div 1000
      frac  == IF fw # 0 /\ fr = scale THEN 0 ELSE fr
      o2    == o1 \o ngx_sprintf_num(room - Len(o1), ui64, zero, 0, width)
      o3    == IF fw # 0 /\ Len(o2) < room THEN Append(o2, Ord(".")) ELSE o2
  IN  IF fw = 0 THEN o2
      ELSE o3 \o ngx_sprintf_num(room - Len(o3), frac, Ord("0"), 0, fw)

(* One conversion, from the '%' at s.i: the zero flag, the width, the     *)
(* modifiers, then the switch on the type byte.                            *)
Conversion(room, fmt, args, s) ==
  LET zero == IF At(fmt, s.i + 1) = Ord("0") THEN Ord("0") ELSE Ord(" ")
      wd   == Number(fmt, s.i + 1, 0)
      m    == Modifiers(fmt, args, [i |-> wd.i, a |-> s.a, sign |-> 1, hex |-> 0,
                                    maxw |-> 0, frac |-> 0, slen |-> -1])
      c    == At(fmt, m.i)
      arg  == args[m.a]
      Next1(o) == [out |-> o, i |-> m.i + 1, a |-> m.a + 1]
      Next0(o) == [out |-> o, i |-> m.i + 1, a |-> m.a]
      Num(sign, v, z, hx, w) == Next1(PrintNumber(room, s.out, sign, v, z, hx, w))
      rest == room - Len(s.out)
  IN  CASE c \in Bytes(<<"V","v">>) ->
             Next1(s.out \o ngx_sprintf_str(rest, arg, Len(arg), m.hex))
        [] c = Ord("s") -> Next1(s.out \o ngx_sprintf_str(rest, arg, m.slen, m.hex))
        [] c \in Bytes(<<"O","P","T","r">>) -> Num(1, arg, zero, m.hex, wd.n)
        [] c = Ord("M") -> IF arg = Wide - 1 THEN Num(1, -1, zero, m.hex, wd.n)
                           ELSE Num(0, arg, zero, m.hex, wd.n)
        [] c \in Bytes(<<"i","A">>) ->
             Num(m.sign, arg, zero, m.hex, IF m.maxw = 1 THEN IntTLen ELSE wd.n)
        [] c \in Bytes(<<"z","d","l","D","L">>) -> Num(m.sign, arg, zero, m.hex, wd.n)
        [] c = Ord("f") -> Next1(PrintFloat(room, s.out, arg, zero, wd.n, m.frac))
        [] c = Ord("p") -> Num(0, arg, Ord("0"), 2, PtrHexWidth)
        [] c = Ord("c") -> Next1(Append(s.out, arg % 256))
        [] c = Ord("Z") -> Next0(Append(s.out, NUL))
        [] c = Ord("N") -> Next0(Append(s.out, LF))
        [] OTHER        -> Next0(Append(s.out, c))   \* '%' and any other byte

\* while (*fmt && buf < last): a conversion, or a plain byte copied.
RECURSIVE Loop(_, _, _, _)
Loop(room, fmt, args, s) ==
  IF At(fmt, s.i) = NUL \/ Len(s.out) >= room THEN s.out
  ELSE Loop(room, fmt, args,
            IF At(fmt, s.i) = Ord("%") THEN Conversion(room, fmt, args, s)
            ELSE [s EXCEPT !.out = Append(@, At(fmt, s.i)), !.i = @ + 1])

ngx_vslprintf(room, fmt, args) == Loop(room, fmt, args, [out |-> <<>>, i |-> 1, a |-> 1])

ngx_slprintf(room, fmt, args) == ngx_vslprintf(room, fmt, args)

=============================================================================
