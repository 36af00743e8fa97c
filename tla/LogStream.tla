----------------------------- MODULE LogStream -----------------------------
(***************************************************************************)
(* base/log_stream: text is appended as far as it fits, numbers are        *)
(* converted in place and only while kMaxNumericSize bytes are left.       *)
(*                                                                         *)
(* A stream is what is known of its FixedBuffer: the bytes used, the end   *)
(* of what has been written to, and whether anything has been left out.    *)
(***************************************************************************)
EXTENDS CInt, Sequences

CONSTANTS
  kSmallBuffer,     \* 4000
  kMaxNumericSize   \* 32 on x86

\* The longest of digits10 of the types that are converted is that of long.
staticCheck == kMaxNumericSize - 10 > 18

ASSUME SizesAssumption == kSmallBuffer \in Nat /\ kMaxNumericSize \in Nat /\ staticCheck

\* The table is centred on zero: this is zero[lsd], for lsd from -9 to 9.
digits == <<9, 8, 7, 6, 5, 4, 3, 2, 1, 0, 1, 2, 3, 4, 5, 6, 7, 8, 9>>
digitFor == [lsd \in -9 .. 9 |-> digits[10 + lsd]]

\* The do-while loop of convert: the digits in the order of std::reverse.
ConvertLoop[i \in Int] ==
  LET lsd == Rem(i, 10)
      rest == Quot(i, 10)
  IN  IF rest = 0 THEN <<digitFor[lsd]>> ELSE Append(ConvertLoop[rest], digitFor[lsd])

\* Mutant: the loop ends when the quotient is no longer positive.
MutConvert(value) ==
  [minus |-> value < 0,
   digits |-> IF value < 0 THEN <<digitFor[Rem(value, 10)]>> ELSE ConvertLoop[value]]

convert(value) == [minus |-> value < 0, digits |-> ConvertLoop[value]]

\* The loop of convertHex; a digit stands for itself in digitsHex.
HexLoop[i \in Nat] ==
  IF i \div 16 = 0 THEN <<i % 16>> ELSE Append(HexLoop[i \div 16], i % 16)

convertHex(value) == [minus |-> FALSE, digits |-> HexLoop[value]]

\* What a reader takes the converted text for.
ReadBack(text, base) ==
  LET read[k \in 0 .. Len(text.digits)] ==
        IF k = 0 THEN 0
        ELSE base * read[k - 1] + (IF text.minus THEN -text.digits[k] ELSE text.digits[k])
  IN  read[Len(text.digits)]

EmptyStream == [length |-> 0, end |-> 0, whole |-> TRUE]

Avail(s) == kSmallBuffer - s.length

\* append, and every operator<< that appends text: what does not fit is cut.
AppendText(s, len) ==
  LET copied == IF Avail(s) > len THEN len ELSE Avail(s)
  IN  [length |-> s.length + copied,
       end    |-> IF s.end > s.length + copied THEN s.end ELSE s.length + copied,
       whole  |-> s.whole /\ copied = len]

\* Two in a row.
AppendTexts(s, len1, len2) == AppendText(AppendText(s, len1), len2)

\* formatInteger, and operator<< of pointers and floating-point numbers: the
\* conversion also writes a terminating null.
AppendNumber(s, len) ==
  IF Avail(s) >= kMaxNumericSize
    THEN [length |-> s.length + len, end |-> s.length + len + 1, whole |-> s.whole]
    ELSE [s EXCEPT !.whole = FALSE]
=============================================================================
