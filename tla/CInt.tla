-------------------------------- MODULE CInt --------------------------------
(* The integer division and remainder of C, which round towards zero.      *)
EXTENDS Integers

Quot(a, b) == IF a >= 0 \/ a % b = 0 THEN a \div b ELSE (a \div b) + 1
Rem(a, b) == IF a >= 0 \/ a % b = 0 THEN a % b ELSE (a % b) - b
=============================================================================
