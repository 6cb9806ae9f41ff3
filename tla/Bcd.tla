-------------------------------- MODULE Bcd ---------------------------------
(***************************************************************************)
(* Arithmetic on bytes that hold two decimal digits, as the Z80 does it:   *)
(* a binary add or subtract followed by daa.  Scores, paid-for plays and   *)
(* the on-screen timer are kept this way.                                  *)
(***************************************************************************)
EXTENDS Naturals

Bytes == 0 .. 255
Lo(x) == x % 16
Hi(x) == x \div 16

IsBcd(x) == x \in Bytes /\ Lo(x) <= 9 /\ Hi(x) <= 9
Decimal(x) == 10 * Hi(x) + Lo(x)

(* add/adc a,y ; daa with a = x and carry c on entry: the new a and carry. *)
AddDaa(x, y, c) ==
  LET sum   == x + y + c
      fixLo == Lo(x) + Lo(y) + c > 15 \/ Lo(sum) > 9
      fixHi == sum > 255 \/ sum % 256 > 153
  IN  [byte  |-> (sum + (IF fixLo THEN 6 ELSE 0) + (IF fixHi THEN 96 ELSE 0)) % 256,
       carry |-> IF fixHi THEN 1 ELSE 0]

(* sub y ; daa with a = x. *)
SubDaa(x, y) ==
  LET diff  == x + 256 - y
      fixLo == Lo(x) < Lo(y) \/ Lo(diff) > 9
      fixHi == x < y \/ diff % 256 > 153
  IN  (diff + 256 - (IF fixLo THEN 6 ELSE 0) - (IF fixHi THEN 96 ELSE 0)) % 256
=============================================================================
