----------------------------- MODULE MoneyProofs -----------------------------
(***************************************************************************)
(* Money arithmetic for every amount, not only the ones TLC enumerates.    *)
(***************************************************************************)
EXTENDS Money, WellFoundedInduction, TLAPS

(* The ten-percent cap never authorises more than ten percent of the total *)
(* (compliance row C1), and it is the largest whole-poisha amount that     *)
(* does not: one poisha more would exceed it.                              *)
THEOREM StandardCapIsTight ==
    ASSUME NEW total \in Nat
    PROVE  LET cap == PercentageOf(total, StandardAdvancePercent) IN
           /\ cap \in Nat
           /\ cap <= total
           /\ 100 * cap <= StandardAdvancePercent * total
           /\ 100 * (cap + 1) > StandardAdvancePercent * total
  BY DEF PercentageOf, StandardAdvancePercent

(* Every amount the database column can hold survives the trip to its      *)
(* text and back: no poisha is lost or invented, for either sign.          *)
THEOREM TakaRoundTrip ==
    ASSUME NEW poisha \in Int,
           (IF poisha < 0 THEN -poisha ELSE poisha) \div 100 <= MaxTaka
    PROVE  TakaToPoisha(PoishaToTaka(poisha)) = poisha
  <1> DEFINE absolute == IF poisha < 0 THEN -poisha ELSE poisha
             tens == (absolute % 100) \div 10
             units == (absolute % 100) % 10
             text == [negative |-> poisha < 0, whole |-> absolute \div 100,
                      fraction |-> <<tens, units>>]
  <1>1. /\ absolute \in Nat /\ absolute \div 100 \in Nat
        /\ tens \in Nat /\ units \in Nat
        /\ (absolute \div 100) * 100 + (tens * 10 + units) = absolute
    OBVIOUS
  <1>2. ~(absolute \div 100 > MaxTaka)
    BY <1>1, MoneyAssumption
  <1>3. PoishaToTaka(poisha) = text
    BY <1>2 DEF PoishaToTaka
  <1>4. Hundredths(<<tens, units>>) = tens * 10 + units
    BY DEF Hundredths
  <1>5. ~SubPoisha(<<tens, units>>)
    BY DEF SubPoisha
  <1>6. /\ text.fraction = <<tens, units>> /\ text.whole = absolute \div 100
        /\ text.negative = (poisha < 0)
    OBVIOUS
  <1> HIDE DEF text, tens, units, absolute
  <1>7. TakaToPoisha(text) =
           IF text.negative THEN -absolute ELSE absolute
    BY <1>1, <1>4, <1>5, <1>6 DEF TakaToPoisha
  <1>8. CASE poisha < 0
    <2>1. text.negative
      BY <1>6, <1>8, Zenon
    <2>2. -absolute = poisha
      BY <1>8 DEF absolute
    <2> QED
      BY <1>3, <1>7, <2>1, <2>2
  <1>9. CASE ~(poisha < 0)
    <2>1. ~text.negative
      BY <1>6, <1>9, Zenon
    <2>2. absolute = poisha
      BY <1>9 DEF absolute
    <2> QED
      BY <1>3, <1>7, <2>1, <2>2
  <1> QED
    BY <1>8, <1>9

------------------------------------------------------------------------------
(* sum, for carts of any length.                                           *)

(* A nonempty set of natural numbers has a least element.                  *)
LEMMA LeastElement ==
    ASSUME NEW T, T \subseteq Nat, T # {}
    PROVE  \E x \in T : \A y \in T : x <= y
  <1> DEFINE R == OpToRel(<, Nat)
  <1>1. IsWellFoundedOn(R, Nat)
    BY NatLessThanWellFounded
  <1>2. \A x, y \in Nat : <<y, x>> \in R <=> y < x
    BY DEF OpToRel
  <1> HIDE DEF R
  <1>3. PICK x \in T : \A y \in T : ~ (<<y, x>> \in R)
    BY <1>1, WFMin
  <1>4. ASSUME NEW y \in T PROVE x <= y
    <2>1. x \in Nat /\ y \in Nat
      OBVIOUS
    <2>2. ~ (<<y, x>> \in R)
      BY <1>3
    <2>3. <<y, x>> \in R <=> y < x
      BY <2>1, <1>2
    <2> QED
      BY <2>1, <2>2, <2>3
  <1> QED
    BY <1>4

(* g holds the sums of the first 0, 1, ..., k amounts.                     *)
PartialSums(g, amounts, k) ==
    g = [n \in 0 .. k |-> IF n = 0 THEN 0 ELSE g[n - 1] + amounts[n]]

(* Every prefix has its partial sums, and they are natural numbers.        *)
LEMMA PartialSumsExist ==
    ASSUME NEW amounts \in Seq(Nat), NEW k \in 0 .. Len(amounts)
    PROVE  \E g \in [0 .. k -> Nat] : PartialSums(g, amounts, k)
  <1> DEFINE Bad == {n \in 0 .. Len(amounts) :
                        ~\E g \in [0 .. n -> Nat] : PartialSums(g, amounts, n)}
  <1>1. Bad \subseteq Nat
    OBVIOUS
  <1>2. ASSUME Bad # {} PROVE FALSE
    <2> HIDE DEF Bad
    <2>1. PICK m \in Bad : \A n \in Bad : m <= n
      BY <1>1, <1>2, LeastElement
    <2>2. m \in 0 .. Len(amounts) /\ Len(amounts) \in Nat
      BY DEF Bad
    <2>3. ~\E g \in [0 .. m -> Nat] : PartialSums(g, amounts, m)
      BY DEF Bad
    <2>4. CASE m = 0
      <3> DEFINE g == [n \in 0 .. 0 |-> 0]
      <3>1. g \in [0 .. m -> Nat] /\ PartialSums(g, amounts, m)
        BY <2>4 DEF PartialSums
      <3> QED
        BY <3>1, <2>3
    <2>5. CASE m # 0
      <3>1. m - 1 \in 0 .. Len(amounts) /\ m - 1 \notin Bad
        BY <2>1, <2>2, <2>5, <1>1
      <3>2. PICK g \in [0 .. m - 1 -> Nat] : PartialSums(g, amounts, m - 1)
        BY <3>1 DEF Bad
      <3> DEFINE h == [n \in 0 .. m |-> IF n = m THEN g[m - 1] + amounts[m] ELSE g[n]]
      <3>3. amounts[m] \in Nat /\ g[m - 1] \in Nat
        BY <2>2, <2>5
      <3>4. h \in [0 .. m -> Nat]
        BY <3>3, <2>2, <2>5
      <3>5. \A n \in 0 .. m - 1 : g[n] = IF n = 0 THEN 0 ELSE g[n - 1] + amounts[n]
        BY <3>2 DEF PartialSums
      <3>6. ASSUME NEW n \in 0 .. m
            PROVE  h[n] = IF n = 0 THEN 0 ELSE h[n - 1] + amounts[n]
        BY <3>5, <2>2, <2>5
      <3>7. PartialSums(h, amounts, m)
        BY <3>6 DEF PartialSums
      <3> QED
        BY <3>4, <3>7, <2>3
    <2> QED
      BY <2>4, <2>5
  <1> QED
    BY <1>2

(* sum returns the last of them.                                           *)
LEMMA SumIsPartialSum ==
    ASSUME NEW amounts \in Seq(Nat)
    PROVE  \E g : PartialSums(g, amounts, Len(amounts)) /\ Sum(amounts) = g[Len(amounts)]
  <1> DEFINE len == Len(amounts)
             f == CHOOSE g : g = [n \in 0 .. len |->
                                     IF n = 0 THEN 0 ELSE g[n - 1] + amounts[n]]
  <1>1. \E g : PartialSums(g, amounts, len)
    BY PartialSumsExist
  <1>2. PartialSums(f, amounts, len)
    BY <1>1 DEF PartialSums
  <1>3. Sum(amounts) = f[len]
    BY DEF Sum
  <1> QED
    BY <1>2, <1>3

(* Partial sums are determined by the amounts.                             *)
LEMMA PartialSumsUnique ==
    ASSUME NEW amounts \in Seq(Nat), NEW more \in Seq(Nat),
           NEW g, NEW h, NEW k \in 0 .. Len(amounts), k <= Len(more),
           \A n \in 1 .. k : more[n] = amounts[n],
           PartialSums(g, amounts, Len(amounts)), PartialSums(h, more, Len(more))
    PROVE  g[k] = h[k]
  <1> DEFINE Bad == {n \in 0 .. k : g[n] # h[n]}
  <1>0. Len(amounts) \in Nat /\ Len(more) \in Nat
    OBVIOUS
  <1>a. \A n \in 0 .. k : n \in 0 .. Len(amounts) /\ n \in 0 .. Len(more)
    BY <1>0
  <1>g. \A n \in 0 .. Len(amounts) : g[n] = IF n = 0 THEN 0 ELSE g[n - 1] + amounts[n]
    BY DEF PartialSums
  <1>h. \A n \in 0 .. Len(more) : h[n] = IF n = 0 THEN 0 ELSE h[n - 1] + more[n]
    BY DEF PartialSums
  <1>1. /\ \A n \in 0 .. k : g[n] = IF n = 0 THEN 0 ELSE g[n - 1] + amounts[n]
        /\ \A n \in 0 .. k : h[n] = IF n = 0 THEN 0 ELSE h[n - 1] + more[n]
    BY <1>a, <1>g, <1>h
  <1>2. ASSUME Bad # {} PROVE FALSE
    <2>1. Bad \subseteq Nat
      OBVIOUS
    <2> HIDE DEF Bad
    <2>2. PICK m \in Bad : \A n \in Bad : m <= n
      BY <2>1, <1>2, LeastElement
    <2>3. m \in 0 .. k /\ g[m] # h[m]
      BY DEF Bad
    <2>4. m # 0
      BY <2>3, <1>1
    <2>5. m - 1 \in 0 .. k /\ m - 1 \notin Bad /\ m \in 1 .. k
      BY <2>1, <2>2, <2>3, <2>4
    <2>6. g[m - 1] = h[m - 1]
      BY <2>5 DEF Bad
    <2> QED
      BY <2>3, <2>4, <2>5, <2>6, <1>1
  <1>3. k \notin Bad
    BY <1>2
  <1> QED
    BY <1>3, <1>0

(* sum of money.ts adds up: nothing for no amounts, and one more amount    *)
(* adds exactly itself; the result is never negative and never a fraction. *)
THEOREM SumAddsUp ==
    ASSUME NEW amounts \in Seq(Nat), NEW amount \in Nat
    PROVE  /\ Sum(amounts) \in Nat
           /\ Sum(<<>>) = 0
           /\ Sum(Append(amounts, amount)) = Sum(amounts) + amount
  <1>1. ASSUME NEW s \in Seq(Nat) PROVE Sum(s) \in Nat
    <2>1. PICK g : PartialSums(g, s, Len(s)) /\ Sum(s) = g[Len(s)]
      BY SumIsPartialSum
    <2>2. Len(s) \in 0 .. Len(s)
      OBVIOUS
    <2>3. PICK h \in [0 .. Len(s) -> Nat] : PartialSums(h, s, Len(s))
      BY <2>2, PartialSumsExist
    <2>4. g[Len(s)] = h[Len(s)]
      BY <2>1, <2>2, <2>3, PartialSumsUnique
    <2> QED
      BY <2>1, <2>2, <2>3, <2>4
  <1>2. Sum(<<>>) = 0
    <2>1. <<>> \in Seq(Nat) /\ Len(<<>>) = 0
      OBVIOUS
    <2>2. PICK g : PartialSums(g, <<>>, 0) /\ Sum(<<>>) = g[0]
      BY <2>1, SumIsPartialSum
    <2> QED
      BY <2>2 DEF PartialSums
  <1>3. Sum(Append(amounts, amount)) = Sum(amounts) + amount
    <2> DEFINE more == Append(amounts, amount)
               len == Len(amounts)
    <2>1. /\ more \in Seq(Nat) /\ len \in Nat /\ Len(more) = len + 1
          /\ more[len + 1] = amount
          /\ \A n \in 1 .. len : more[n] = amounts[n]
      OBVIOUS
    <2>2. PICK g : PartialSums(g, amounts, len) /\ Sum(amounts) = g[len]
      BY SumIsPartialSum
    <2> HIDE DEF more, len
    <2>3. PICK h : PartialSums(h, more, Len(more)) /\ Sum(more) = h[Len(more)]
      BY <2>1, SumIsPartialSum
    <2>4. g[len] = h[len]
      <3>1. len \in 0 .. Len(amounts) /\ len <= Len(more)
        BY <2>1 DEF len
      <3>2. PartialSums(g, amounts, Len(amounts))
        BY <2>2 DEF len
      <3> QED
        BY <3>1, <3>2, <2>1, <2>3, PartialSumsUnique
    <2>5. h[len + 1] = h[len] + more[len + 1]
      BY <2>1, <2>3 DEF PartialSums
    <2> QED
      BY <2>1, <2>2, <2>3, <2>4, <2>5 DEF more
  <1> QED
    BY <1>1, <1>2, <1>3

(* Every storable amount that is not negative, as text: it fits its column *)
(* and is read back as it was.                                             *)
LEMMA StoredAmount ==
    ASSUME NEW poisha \in Nat, poisha \div 100 <= MaxTaka
    PROVE  /\ PoishaToTaka(poisha).whole <= MaxTaka
           /\ Len(PoishaToTaka(poisha).fraction) = 2
           /\ TakaToPoisha(PoishaToTaka(poisha)) = poisha
  <1>1. ~(poisha < 0) /\ ~(poisha \div 100 > MaxTaka)
    BY MoneyAssumption
  <1>2. TakaToPoisha(PoishaToTaka(poisha)) = poisha
    BY <1>1, TakaRoundTrip
  <1> QED
    BY <1>1, <1>2 DEF PoishaToTaka

(* An amount that is not refused by poishaToTaka is storable.              *)
LEMMA NotRefused ==
    ASSUME NEW poisha \in Nat, PoishaToTaka(poisha) # MoneyError
    PROVE  poisha \div 100 <= MaxTaka
  <1>1. ~(poisha < 0) /\ poisha \div 100 \in Nat
    OBVIOUS
  <1> QED
    BY <1>1, MoneyAssumption DEF PoishaToTaka

(* A stored, non-negative column is read as storable poisha.               *)
LEMMA StoredText ==
    ASSUME NEW text \in TakaTexts, ~text.negative,
           text.whole <= MaxTaka, Len(text.fraction) = 2
    PROVE  /\ TakaToPoisha(text) \in Nat
           /\ TakaToPoisha(text) \div 100 <= MaxTaka
  <1>1. /\ text.whole \in Nat /\ text.fraction \in Seq(Digits)
        /\ text.fraction[1] \in Digits /\ text.fraction[2] \in Digits
    BY DEF TakaTexts
  <1>2. ~SubPoisha(text.fraction)
    BY <1>1 DEF SubPoisha
  <1>3. PICK a \in 0 .. 9, b \in 0 .. 9 : a = text.fraction[1] /\ b = text.fraction[2]
    BY <1>1 DEF Digits
  <1>4. Hundredths(text.fraction) = a * 10 + b
    BY <1>3 DEF Hundredths
  <1>5. TakaToPoisha(text) = text.whole * 100 + (a * 10 + b)
    BY <1>2, <1>4 DEF TakaToPoisha
  <1>6. PICK whole \in Nat : whole = text.whole
    BY <1>1
  <1>7. whole * 100 + (a * 10 + b) \in Nat /\ (whole * 100 + (a * 10 + b)) \div 100 = whole
    OBVIOUS
  <1> QED
    BY <1>5, <1>6, <1>7
==============================================================================
