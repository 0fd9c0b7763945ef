--------------------------- MODULE CharacterSets ---------------------------
(***************************************************************************)
(* src/charset.c: the terminal and the commands exchange texts in the      *)
(* character set of AT+CSCS, and the program keeps them in UTF-8. A string *)
(* is a sequence of bytes without the nul that ends it, a text one of      *)
(* Unicode characters.                                                     *)
(***************************************************************************)
EXTENDS Integers, SequencesExt

CONSTANT Unicode     \* the characters of texts

\* Neither the nul nor half of a surrogate pair.
CharactersAssumption ==
  \A c \in Unicode : c \in Nat \ {0} /\ c < 1114112 /\ (c < 55296 \/ c >= 57344)

\* The nul, hexadecimal digits, "?" and the replacement character are there as well.
Characters == Unicode \cup {0, 63, 65533} \cup 48..57 \cup 65..70

None == <<-1>>       \* NULL: it cannot be converted, or there is no memory

(***************************************************************************)
(* iconv(), one character at a time; what is not in Characters is an error.*)
(***************************************************************************)
Tail6(n) == 128 + (n % 64)
utf8(c) ==
  IF c < 128 THEN <<c>>
  ELSE IF c < 2048 THEN <<192 + (c \div 64), Tail6(c)>>
  ELSE IF c < 65536 THEN <<224 + (c \div 4096), Tail6(c \div 64), Tail6(c)>>
  ELSE <<240 + (c \div 262144), Tail6(c \div 4096), Tail6(c \div 64), Tail6(c)>>

Unit(u) == <<u \div 256, u % 256>>
utf16(c) == IF c < 65536 THEN Unit(c)
            ELSE Unit(55296 + ((c - 65536) \div 1024)) \o Unit(56320 + ((c - 65536) % 1024))

\* at_cs_tab[]: three that differ in kind. A character that is not in 8859-1 becomes a "?".
Charsets == {"UTF-8", "8859-1", "UCS2"}
hex(cs) == IF cs = "UCS2" THEN 2 ELSE 0
Encode(cs, c) == CASE cs = "UTF-8" -> utf8(c)
                   [] cs = "8859-1" -> IF c < 256 THEN <<c>> ELSE <<63>>
                   [] cs = "UCS2" -> utf16(c)
EncodeText(cs, text) == FlattenSeq([i \in DOMAIN text |-> Encode(cs, text[i])])

\* Character by character, from the first byte.
Decode(cs, bytes) ==
  LET At(i, c) == IsPrefix(Encode(cs, c), SubSeq(bytes, i, Len(bytes))) /\ (cs = "8859-1" => c < 256)
      From[i \in 1..(Len(bytes) + 1)] ==
        IF i > Len(bytes) THEN <<>>
        ELSE LET c == CHOOSE x \in Characters : At(i, x)
                 rest == From[i + Len(Encode(cs, c))]
             IN  IF (\A x \in Characters : ~At(i, x)) \/ rest = None THEN None ELSE <<c>> \o rest
  IN  From[1]

\* A string ends at its first nul.
CString(bytes) ==
  IF 0 \in ToSet(bytes) THEN SubSeq(bytes, 1, SelectInSeq(bytes, LAMBDA b : b = 0) - 1) ELSE bytes

-----------------------------------------------------------------------------
hexdigit(c) == CASE c \in 48..57 -> c - 48 [] c \in 65..70 -> c - 55 [] c \in 97..102 -> c - 87 [] OTHER -> -1

\* Digits in pairs; an odd one at the end is dropped.
at_hex_decode(in) ==
  LET len == Len(in) \div 2
  IN  IF \E i \in 1..(2 * len) : hexdigit(in[i]) < 0 THEN None
      ELSE [i \in 1..len |-> 16 * hexdigit(in[2 * i - 1]) + hexdigit(in[2 * i])]

tab(d) == IF d < 10 THEN 48 + d ELSE 55 + d
at_hex_encode(in, len) ==
  [k \in 1..(2 * len) |-> LET byte == in[(k + 1) \div 2] IN tab(IF k % 2 = 1 THEN byte \div 16 ELSE byte % 16)]

\* The output has room for so many bytes; more are an error.
Fits(out, room) == IF out # None /\ Len(out) > room THEN None ELSE out

at_cset_decode(cs, in) ==
  LET text == Decode(cs, in)
  IN  IF text = None THEN None ELSE Fits(EncodeText("UTF-8", text), 3 * Len(in))

\* With the nul at the end of the string.
at_cset_encode(cs, in) ==
  LET text == Decode("UTF-8", in \o <<0>>)
  IN  IF text = None THEN None ELSE Fits(EncodeText(cs, text), 2 * (Len(in) + 1))

at_to_utf8(cs, in) ==
  LET raw == IF hex(cs) > 0 THEN at_hex_decode(in) ELSE in
      out == IF raw = None THEN None ELSE at_cset_decode(cs, raw)
  IN  IF out = None THEN None ELSE CString(out)

at_from_utf8(cs, in) ==
  LET out == at_cset_encode(cs, in)
  IN  IF out = None THEN None
      ELSE IF hex(cs) > 0 THEN at_hex_encode(out, Len(out) - hex(cs)) ELSE CString(out)
=============================================================================
