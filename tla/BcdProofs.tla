----------------------------- MODULE BcdProofs ------------------------------
(***************************************************************************)
(* The Z80 sequences of module Bcd are decimal arithmetic on every pair of *)
(* bytes that hold decimal digits.                                         *)
(***************************************************************************)
EXTENDS Bcd, TLAPS

(* The digits of a byte. *)
LEMMA Digits ==
  ASSUME NEW x, IsBcd(x)
  PROVE  /\ x = 16 * Hi(x) + Lo(x)
         /\ Hi(x) \in 0 .. 9 /\ Lo(x) \in 0 .. 9
  BY DEF IsBcd, Hi, Lo, Bytes

LEMMA FromDigits ==
  ASSUME NEW h \in 0 .. 9, NEW l \in 0 .. 9
  PROVE  /\ IsBcd(16 * h + l)
         /\ Hi(16 * h + l) = h /\ Lo(16 * h + l) = l
         /\ Decimal(16 * h + l) = 10 * h + l
  BY DEF IsBcd, Hi, Lo, Bytes, Decimal

(* add ; daa is decimal addition with carry. *)
THEOREM AddDaaIsDecimal ==
  ASSUME NEW x, NEW y, NEW c \in {0, 1}, IsBcd(x), IsBcd(y)
  PROVE  /\ IsBcd(AddDaa(x, y, c).byte)
         /\ AddDaa(x, y, c).carry \in {0, 1}
         /\ Decimal(AddDaa(x, y, c).byte) + 100 * AddDaa(x, y, c).carry
              = Decimal(x) + Decimal(y) + c
<1> DEFINE s == x + y + c
<1> DEFINE low == Lo(x) + Lo(y) + c
<1> DEFINE high == Hi(x) + Hi(y) + (IF low > 9 THEN 1 ELSE 0)
<1> DEFINE r == AddDaa(x, y, c)
<1>1. /\ x = 16 * Hi(x) + Lo(x) /\ Hi(x) \in 0 .. 9 /\ Lo(x) \in 0 .. 9
      /\ y = 16 * Hi(y) + Lo(y) /\ Hi(y) \in 0 .. 9 /\ Lo(y) \in 0 .. 9
  BY Digits
<1>2. low \in 0 .. 19 /\ high \in 0 .. 19
  BY <1>1
<1>3. s = 16 * (Hi(x) + Hi(y)) + low /\ s \in 0 .. 511
  BY <1>1, <1>2
<1>4. (low > 15 \/ Lo(s) > 9) <=> low > 9
  BY <1>1, <1>2, <1>3 DEF Lo
<1>5. (s > 255 \/ s % 256 > 153) <=> high > 9
  BY <1>1, <1>2, <1>3
<1>6. r.byte = (s + (IF low > 9 THEN 6 ELSE 0) + (IF high > 9 THEN 96 ELSE 0)) % 256
      /\ r.carry = IF high > 9 THEN 1 ELSE 0
  BY <1>4, <1>5 DEF AddDaa
<1> DEFINE l == IF low > 9 THEN low - 10 ELSE low
<1> DEFINE h == IF high > 9 THEN high - 10 ELSE high
<1>7. r.byte = 16 * h + l
  BY <1>1, <1>2, <1>3, <1>6
<1>8. h \in 0 .. 9 /\ l \in 0 .. 9
  BY <1>2
<1>9. IsBcd(r.byte) /\ Decimal(r.byte) = 10 * h + l
  BY <1>7, <1>8, FromDigits
<1>10. 10 * h + l + 100 * r.carry = 10 * (Hi(x) + Hi(y)) + low
  BY <1>1, <1>2, <1>6
<1> QED BY <1>1, <1>6, <1>9, <1>10 DEF Decimal

(* Adding $99 and adjusting takes one away, as L_SUBTRACT_ONE_PLAY relies  *)
(* on.                                                                     *)
THEOREM Add99IsDecrement ==
  ASSUME NEW x, IsBcd(x), x # 0
  PROVE  /\ IsBcd(AddDaa(153, x, 0).byte)
         /\ Decimal(AddDaa(153, x, 0).byte) = Decimal(x) - 1
  BY DEF IsBcd, Hi, Lo, Bytes, Decimal, AddDaa

(* sub 1 ; daa counts a running on-screen timer down by one. *)
THEOREM SubDaaIsDecrement ==
  ASSUME NEW x, IsBcd(x), x # 0
  PROVE  /\ IsBcd(SubDaa(x, 1))
         /\ Decimal(SubDaa(x, 1)) = Decimal(x) - 1
  BY DEF IsBcd, Hi, Lo, Bytes, Decimal, SubDaa
=============================================================================
