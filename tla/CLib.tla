-------------------------------- MODULE CLib --------------------------------
(***************************************************************************)
(* The C library's substitutes: util.c, string.c and crc.c, but for the    *)
(* functions on memory (Memory) and qsort_p (Qsort).  The firmware calls   *)
(* memcmp, snprintf and vsnprintf of these; the linker drops the others    *)
(* until somebody calls them.  Each is a function of its arguments,        *)
(* translated loop by loop and compared with what the standard says of it. *)
(*                                                                         *)
(* Not here: rand and popcount (arithmetic on 32 bits), toupper.           *)
(***************************************************************************)
EXTENDS Integers, Sequences, SequencesExt, FiniteSetsExt, Bitwise

CONSTANTS
  IntBits, ShortBits, CharBits,  \* the widths of the types: 32, 16, 8
  Conversions,   \* format strings with one conversion
  MaxSize,    \* bound: the size given to vsnprintf
  MaxStr,     \* bound: the length of a string
  CrcStarts, CrcBytes  \* CRCs to go on from, and what with

ASSUME CLibAssumption ==
  /\ CharBits < ShortBits /\ ShortBits < IntBits
  /\ MaxSize \in Nat /\ MaxStr \in Nat

VARIABLE lib   \* the call that was made and what came of it

-----------------------------------------------------------------------------
(* util.c: strings, sequences of codes of which the last is NUL *)

NUL == 0
DOT == 1
Codes == 0 .. 5                \* NUL . A B a b
tolower(c) == IF c \in {2, 3} THEN c + 2 ELSE c

RECURSIVE strlenFrom(_, _), strncmpFrom(_, _, _, _, _), strrchrFrom(_, _, _, _)
strlenFrom(s, k) == IF s[k] = NUL THEN k - 1 ELSE strlenFrom(s, k + 1)

\* strncmp, strcmp (n never reached) and, with both strings folded, strcmp_ci;
\* memcmp is the one that does not stop at a NUL.
strncmpFrom(s, t, n, k, stops) ==
  IF k > n THEN 0
  ELSE IF s[k] # t[k] \/ (stops /\ s[k] = NUL) THEN s[k] - t[k]
       ELSE strncmpFrom(s, t, n, k + 1, stops)

\* The last position of c, or 0; strchr returns at the first.
strrchrFrom(s, c, k, p) ==
  IF s[k] = NUL THEN p ELSE strrchrFrom(s, c, k + 1, IF s[k] = c THEN k ELSE p)

\* What follows the last dot, in small letters, cut to size - 1.
filename_extension(s, size) ==
  LET p == strrchrFrom(s, DOT, 1, 0)
      n == strlenFrom(s, 1) - p
  IN IF p = 0 THEN <<NUL>>
     ELSE Append([k \in 1 .. Min({n, size - 1}) |-> tolower(s[p + k])], NUL)

-----------------------------------------------------------------------------
(* string.c: vsnprintf with one conversion.  Characters are strings of one;
   the case of a letter is left out. *)

Figures == <<"0", "1", "2", "3", "4", "5", "6", "7", "8", "9",
             "a", "b", "c", "d", "e", "f">>
IsFigure(c) == c \in Range(Figures)
Value(c)    == (CHOOSE k \in 1 .. 16 : c = Figures[k]) - 1

\* mutant: only what is stored counts
CountStored(o, c) ==
  [o EXCEPT !.buf = IF o.p < o.end THEN [@ EXCEPT ![o.p] = c] ELSE @,
            !.p = IF o.p < o.end THEN @ + 1 ELSE @]
do_putch(o, c) ==
  [o EXCEPT !.buf = IF o.p < o.end THEN [@ EXCEPT ![o.p] = c] ELSE @, !.p = @ + 1]

NoFlags == [alt |-> FALSE, zero |-> FALSE, width |-> 0, type |-> "int"]

\* From the "%" to the letter: flags, a width of one digit, the letter.
RECURSIVE Directive(_, _), Positional(_, _)
Directive(f, flags) ==
  LET c == Head(f)
      rest == Tail(f)
  IN CASE c = "#" -> Directive(rest, [flags EXCEPT !.alt = TRUE])
       [] c = "0" -> Directive(rest, [flags EXCEPT !.zero = TRUE])
       [] c \in {Figures[k] : k \in 2 .. 10} ->
            Directive(rest, [flags EXCEPT !.width = Value(c)])
       [] c = "h" -> Directive(rest, [flags EXCEPT !.type =
                                         IF flags.type = "int" THEN "short" ELSE "char"])
       [] OTHER -> [flags |-> flags, conv |-> c]

BaseOf(conv) == CASE conv = "o" -> 8 [] conv \in {"d", "i", "u"} -> 10
                  [] conv \in {"x", "p"} -> 16
Sign(conv) == conv \in {"d", "i"}

\* The digits, the last first, as they are put into tmp.
Positional(x, base) ==
  IF x < base THEN <<Figures[x + 1]>>
  ELSE <<Figures[(x % base) + 1]>> \o Positional(x \div base, base)

\* The argument as the type the directive names: a char has no sign here.
Narrow(x, d) ==
  LET short == x % 2^ShortBits
  IN CASE d.flags.type = "int"  -> x
       [] d.flags.type = "char" -> x % 2^CharBits
       [] d.flags.type = "short" ->
            IF Sign(d.conv) /\ short >= 2^(ShortBits - 1)
              THEN short + 2^IntBits - 2^ShortBits ELSE short

Repeat(c, n) == [k \in 1 .. n |-> c]

\* The characters of a number: an early sign, 0 or 0x, the padding, a late sign,
\* the digits.
Number(arg, d) ==
  LET x0    == Narrow(arg, d)
      neg   == Sign(d.conv) /\ x0 >= 2^(IntBits - 1)
      x     == IF neg THEN 2^IntBits - x0 ELSE x0
      q     == Reverse(Positional(x, BaseOf(d.conv)))
      sign  == IF neg THEN <<"-">> ELSE <<>>
      alt   == IF ~d.flags.alt THEN <<>>
               ELSE CASE BaseOf(d.conv) = 8  -> <<"0">>
                      [] BaseOf(d.conv) = 16 -> <<"0", "x">>
                      [] OTHER -> <<>>
      pad   == Max({0, d.flags.width - Len(sign \o alt \o q)})
  IN IF d.flags.zero THEN sign \o alt \o Repeat("0", pad) \o q
                     ELSE alt \o Repeat(" ", pad) \o sign \o q

vsnprintf(size, format, arg) ==
  LET o == FoldLeft(do_putch,
                    [buf |-> [k \in 0 .. MaxSize |-> "kept"], p |-> 0, end |-> size - 1],
                    Number(arg, Directive(Tail(format), NoFlags)))
      nul == Min({o.p, o.end})
  IN [buf |-> IF nul >= 0 THEN [o.buf EXCEPT ![nul] = "NUL"] ELSE o.buf, n |-> o.p]

\* util.c: strtol of a text, which ends in a NUL.
RECURSIVE Spaces(_, _), FiguresFrom(_, _, _, _)
Spaces(s, k) == IF s[k] = " " THEN Spaces(s, k + 1) ELSE k
FiguresFrom(s, k, base, val) ==
  IF IsFigure(s[k]) /\ Value(s[k]) < base
    THEN FiguresFrom(s, k + 1, base, val * base + Value(s[k]))
    ELSE [val |-> val, end |-> k]

strtol(s, base) ==
  LET k1   == Spaces(s, 1)
      neg  == s[k1] = "-"
      k2   == IF s[k1] \in {"+", "-"} THEN k1 + 1 ELSE k1
      k3   == IF s[k2] = "0" THEN k2 + 1 ELSE k2
      hex  == s[k2] = "0" /\ s[k3] = "x"
      b    == IF base # 0 THEN base
              ELSE IF hex THEN 16 ELSE IF s[k2] = "0" THEN 8 ELSE 10
      r    == IF hex /\ b # 16 THEN [val |-> 0, end |-> k3]
              ELSE FiguresFrom(s, IF hex THEN k3 + 1 ELSE k3, b, 0)
  IN [r EXCEPT !.val = IF neg THEN -@ ELSE @]

-----------------------------------------------------------------------------
(* crc.c *)

crc16tab == <<
\H0000,\H1021,\H2042,\H3063,\H4084,\H50a5,\H60c6,\H70e7,\H8108,\H9129,\Ha14a,\Hb16b,\Hc18c,\Hd1ad,\He1ce,\Hf1ef,
\H1231,\H0210,\H3273,\H2252,\H52b5,\H4294,\H72f7,\H62d6,\H9339,\H8318,\Hb37b,\Ha35a,\Hd3bd,\Hc39c,\Hf3ff,\He3de,
\H2462,\H3443,\H0420,\H1401,\H64e6,\H74c7,\H44a4,\H5485,\Ha56a,\Hb54b,\H8528,\H9509,\He5ee,\Hf5cf,\Hc5ac,\Hd58d,
\H3653,\H2672,\H1611,\H0630,\H76d7,\H66f6,\H5695,\H46b4,\Hb75b,\Ha77a,\H9719,\H8738,\Hf7df,\He7fe,\Hd79d,\Hc7bc,
\H48c4,\H58e5,\H6886,\H78a7,\H0840,\H1861,\H2802,\H3823,\Hc9cc,\Hd9ed,\He98e,\Hf9af,\H8948,\H9969,\Ha90a,\Hb92b,
\H5af5,\H4ad4,\H7ab7,\H6a96,\H1a71,\H0a50,\H3a33,\H2a12,\Hdbfd,\Hcbdc,\Hfbbf,\Heb9e,\H9b79,\H8b58,\Hbb3b,\Hab1a,
\H6ca6,\H7c87,\H4ce4,\H5cc5,\H2c22,\H3c03,\H0c60,\H1c41,\Hedae,\Hfd8f,\Hcdec,\Hddcd,\Had2a,\Hbd0b,\H8d68,\H9d49,
\H7e97,\H6eb6,\H5ed5,\H4ef4,\H3e13,\H2e32,\H1e51,\H0e70,\Hff9f,\Hefbe,\Hdfdd,\Hcffc,\Hbf1b,\Haf3a,\H9f59,\H8f78,
\H9188,\H81a9,\Hb1ca,\Ha1eb,\Hd10c,\Hc12d,\Hf14e,\He16f,\H1080,\H00a1,\H30c2,\H20e3,\H5004,\H4025,\H7046,\H6067,
\H83b9,\H9398,\Ha3fb,\Hb3da,\Hc33d,\Hd31c,\He37f,\Hf35e,\H02b1,\H1290,\H22f3,\H32d2,\H4235,\H5214,\H6277,\H7256,
\Hb5ea,\Ha5cb,\H95a8,\H8589,\Hf56e,\He54f,\Hd52c,\Hc50d,\H34e2,\H24c3,\H14a0,\H0481,\H7466,\H6447,\H5424,\H4405,
\Ha7db,\Hb7fa,\H8799,\H97b8,\He75f,\Hf77e,\Hc71d,\Hd73c,\H26d3,\H36f2,\H0691,\H16b0,\H6657,\H7676,\H4615,\H5634,
\Hd94c,\Hc96d,\Hf90e,\He92f,\H99c8,\H89e9,\Hb98a,\Ha9ab,\H5844,\H4865,\H7806,\H6827,\H18c0,\H08e1,\H3882,\H28a3,
\Hcb7d,\Hdb5c,\Heb3f,\Hfb1e,\H8bf9,\H9bd8,\Habbb,\Hbb9a,\H4a75,\H5a54,\H6a37,\H7a16,\H0af1,\H1ad0,\H2ab3,\H3a92,
\Hfd2e,\Hed0f,\Hdd6c,\Hcd4d,\Hbdaa,\Had8b,\H9de8,\H8dc9,\H7c26,\H6c07,\H5c64,\H4c45,\H3ca2,\H2c83,\H1ce0,\H0cc1,
\Hef1f,\Hff3e,\Hcf5d,\Hdf7c,\Haf9b,\Hbfba,\H8fd9,\H9ff8,\H6e17,\H7e36,\H4e55,\H5e74,\H2e93,\H3eb2,\H0ed1,\H1ef0>>

crc16_ccitt(bytes, crc) ==
  FoldLeft(LAMBDA c, b : crc16tab[((c \div 256) ^^ b) + 1] ^^ ((c * 256) % 65536),
           crc, bytes)

-----------------------------------------------------------------------------
(* The calls *)

Strs == {Append(s, NUL) : s \in BoundedSeq(Codes \ {NUL}, MaxStr)}

CallStrings ==
  \E s, t \in Strs : \E n \in 0 .. MaxStr + 1 :
    \/ lib' = [fn |-> "strncmp", str |-> s, t |-> t, n |-> n,
               cmp |-> strncmpFrom(s, t, n, 1, TRUE)]
    \/ /\ n <= Min({Len(s), Len(t)})
       /\ lib' = [fn |-> "memcmp", str |-> s, t |-> t, n |-> n,
                  cmp |-> strncmpFrom(s, t, n, 1, FALSE)]

CallExtension ==
  \E s \in Strs : \E size \in 1 .. MaxStr :
    lib' = [fn |-> "filename_extension", str |-> s, size |-> size,
            ext |-> filename_extension(s, size)]

CallFormat ==
  \E format \in Conversions : \E arg \in 0 .. 2^IntBits - 1 :
    \E size \in 0 .. MaxSize :
      lib' = [fn |-> "vsnprintf", format |-> format, size |-> size, arg |-> arg,
              text |-> vsnprintf(size, format, arg)]

CallCrc ==
  \E crc \in CrcStarts : \E b \in CrcBytes :
    lib' = [fn |-> "crc16_ccitt", byte |-> b, start |-> crc, crc |-> crc16_ccitt(<<b>>, crc)]

LibInit == lib = [fn |-> "none"]

LibNext ==
  /\ lib.fn = "none"
  /\ CallStrings \/ CallExtension \/ CallFormat \/ CallCrc

-----------------------------------------------------------------------------
(* Properties *)

\* The first difference decides, if it comes before the end of a string; memcmp
\* does not know of such an end.
CompareRight ==
  LET end == IF lib.fn = "memcmp" THEN lib.n
             ELSE Min({strlenFrom(lib.str, 1) + 1, strlenFrom(lib.t, 1) + 1, lib.n})
      D   == {k \in 1 .. end : lib.str[k] # lib.t[k]}
  IN lib.cmp = IF D = {} THEN 0 ELSE lib.str[Min(D)] - lib.t[Min(D)]

ExtensionRight ==
  /\ Last(lib.ext) = NUL /\ Len(lib.ext) <= lib.size
  /\ ~Contains(lib.ext, DOT)
  /\ Len(lib.ext) < lib.size /\ Contains(lib.str, DOT) =>
       \E k \in DOMAIN lib.str :
         /\ lib.str[k] = DOT
         /\ lib.ext = [j \in 1 .. Len(lib.str) - k |-> tolower(lib.str[k + j])]

\* The text is cut to what has room, the length is that of the whole; and
\* strtol reads the number back, but for one with blanks after its 0x or 0.
FormatRight ==
  LET d    == Directive(Tail(lib.format), NoFlags)
      full == Number(lib.arg, d)
      back == strtol(Append(full, "NUL"), BaseOf(d.conv))
      room == Min({Len(full), lib.size - 1})
  IN /\ lib.text.n = Len(full) /\ lib.text.n >= d.flags.width
     /\ \A k \in 0 .. MaxSize :
          lib.text.buf[k] = IF k < room THEN full[k + 1]
                           ELSE IF k = room THEN "NUL" ELSE "kept"
     /\ ~d.flags.alt \/ d.flags.zero \/ d.flags.width = 0 =>
          back.end = Len(full) + 1 /\ back.val % 2^IntBits = Narrow(lib.arg, d)

\* The table is that of the polynomial x^16 + x^12 + x^5 + 1, high bit first.
RECURSIVE Divided(_, _)
Divided(x, bits) ==
  IF bits = 0 THEN x
  ELSE Divided(IF x >= 32768 THEN ((2 * x) % 65536) ^^ 4129 ELSE 2 * x, bits - 1)

CrcRight == lib.crc = Divided(lib.start ^^ (256 * lib.byte), 8)

\* Whatever its arguments, a function of the library does what the standard says:
\* the comparisons that stop at a NUL, the formats, cut and whole, the numbers read
\* back, the CRC's table.
LibRight ==
  CASE lib.fn \in {"strncmp", "memcmp"} -> CompareRight
    [] lib.fn = "filename_extension" -> ExtensionRight
    [] lib.fn = "vsnprintf" -> FormatRight
    [] lib.fn = "crc16_ccitt" -> CrcRight
    [] lib.fn = "none" -> TRUE
=============================================================================
