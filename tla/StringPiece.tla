---------------------------- MODULE StringPiece ----------------------------
(***************************************************************************)
(* base/string_piece.h: a pointer and a length into memory that belongs to *)
(* somebody else.  Two pieces, of the same or of different strings, are    *)
(* set, shortened and compared in any order.  Callers keep to the lengths. *)
(***************************************************************************)
EXTENDS Integers, Sequences

CONSTANTS
  Memory,      \* strings, by number: their bytes without the terminating null
  Pieces       \* StringPiece objects

ASSUME MemoryAssumption == Memory \in Seq(Seq(0 .. 255))

VARIABLE
  piece        \* [string, ptr_, length_] of each object; string 0 is NULL

NullPiece == [string |-> 0, ptr_ |-> 0, length_ |-> 0]

PieceInit == piece = [p \in Pieces |-> NullPiece]

\* What a piece points to.
as_string(s) == IF s.string = 0 THEN <<>>
                ELSE SubSeq(Memory[s.string], s.ptr_ + 1, s.ptr_ + s.length_)

\* Bytes before the first null, which a C string may have inside.
strlen(m) ==
  CHOOSE n \in 0 .. Len(m) : (n = Len(m) \/ m[n + 1] = 0) /\ \A i \in 1 .. n : m[i] # 0

\* The constructors and set, from a std::string, a C string or a buffer.
set(p) ==
  \E k \in DOMAIN Memory :
    LET m == Memory[k]
    IN  \/ piece' = [piece EXCEPT ![p] = [string |-> k, ptr_ |-> 0, length_ |-> Len(m)]]
        \/ piece' = [piece EXCEPT ![p] = [string |-> k, ptr_ |-> 0, length_ |-> strlen(m)]]

clear(p) == piece' = [piece EXCEPT ![p] = NullPiece]

remove_prefix(p, n) ==
  /\ n <= piece[p].length_
  /\ piece' = [piece EXCEPT ![p].ptr_ = @ + n, ![p].length_ = @ - n]

remove_suffix(p, n) ==
  /\ n <= piece[p].length_
  /\ piece' = [piece EXCEPT ![p].length_ = @ - n]

-----------------------------------------------------------------------------
(* Comparisons. *)

\* The sign of memcmp on bytes that are taken as unsigned.
memcmp(a, b, n) ==
  LET differ == {i \in 1 .. n : a[i] # b[i]}
  IN  IF differ = {} THEN 0
      ELSE LET i == CHOOSE j \in differ : \A k \in differ : j <= k
           IN  IF a[i] < b[i] THEN -1 ELSE 1

Shorter(x, y) == IF x.length_ < y.length_ THEN x.length_ ELSE y.length_
Compared(x, y) == memcmp(as_string(x), as_string(y), Shorter(x, y))

Equal(x, y) == x.length_ = y.length_ /\ memcmp(as_string(x), as_string(y), x.length_) = 0

\* STRINGPIECE_BINARY_PREDICATE.
Less(x, y) == Compared(x, y) < 0 \/ (Compared(x, y) = 0 /\ x.length_ < y.length_)
LessOrEqual(x, y) == Compared(x, y) < 0 \/ (Compared(x, y) = 0 /\ x.length_ <= y.length_)
GreaterOrEqual(x, y) == Compared(x, y) > 0 \/ (Compared(x, y) = 0 /\ x.length_ >= y.length_)
Greater(x, y) == Compared(x, y) > 0 \/ (Compared(x, y) = 0 /\ x.length_ > y.length_)

\* Mutant: only the common length is compared.
MutCompare(x, y) == Compared(x, y)

compare(x, y) ==
  LET r == Compared(x, y)
  IN  IF r # 0 THEN r
      ELSE IF x.length_ < y.length_ THEN -1 ELSE IF x.length_ > y.length_ THEN 1 ELSE 0

starts_with(x, y) ==
  x.length_ >= y.length_ /\ memcmp(as_string(x), as_string(y), y.length_) = 0

-----------------------------------------------------------------------------
PieceNext ==
  \E p \in Pieces :
    \/ set(p) \/ clear(p)
    \/ \E n \in 0 .. piece[p].length_ : remove_prefix(p, n) \/ remove_suffix(p, n)

PieceSpec == PieceInit /\ [][PieceNext]_piece

-----------------------------------------------------------------------------
(* Properties. *)

\* a comes before b in a dictionary: after the bytes they begin with in common
\* it is at its end, or has the lesser byte.
Before(a, b) ==
  \E n \in 0 .. Len(a) :
    /\ n < Len(b)
    /\ \A i \in 1 .. n : a[i] = b[i]
    /\ n < Len(a) => a[n + 1] < b[n + 1]

\* The six operators and compare are one total order, the dictionary's on
\* unsigned bytes, also for NULL, empty pieces, nulls inside and a piece that is
\* the beginning of another.
OrderIsOne ==
  \A p, q \in Pieces :
    LET x == piece[p]  y == piece[q]
        less == Before(as_string(x), as_string(y))
        equal == as_string(x) = as_string(y)
        greater == Before(as_string(y), as_string(x))
    IN  /\ Equal(x, y) <=> equal
        /\ Less(x, y) <=> less
        /\ LessOrEqual(x, y) <=> less \/ equal
        /\ GreaterOrEqual(x, y) <=> greater \/ equal
        /\ Greater(x, y) <=> greater
        /\ (compare(x, y) < 0 <=> less) /\ (compare(x, y) = 0 <=> equal)

\* x starts with y exactly when remove_prefix(y.size()) leaves what completes y
\* to x: no byte past the end of x counts.
PrefixCompletes ==
  \A p, q \in Pieces :
    LET x == piece[p]  y == piece[q]
        rest == [x EXCEPT !.ptr_ = @ + y.length_, !.length_ = @ - y.length_]
    IN  starts_with(x, y) <=>
          x.length_ >= y.length_ /\ as_string(x) = as_string(y) \o as_string(rest)

\* What the comparisons say of two pieces is what their bytes say.
ComparesBytes == OrderIsOne /\ PrefixCompletes
=============================================================================
