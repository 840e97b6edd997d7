------------------------------- MODULE Money ---------------------------------
(***************************************************************************)
(* Money arithmetic (api/src/common/money.ts) and the DCOG 2021 advance    *)
(* cap (api/src/order/domain/advance-cap.ts).                              *)
(*                                                                         *)
(* Amounts are integer poisha.  The text PostgreSQL exchanges for a        *)
(* NUMERIC column is modelled by its parts: sign, whole taka, and the      *)
(* decimal digits after the point.                                         *)
(***************************************************************************)
EXTENDS Integers, Sequences

CONSTANT MaxTaka  \* the whole taka NUMERIC(12,2) can hold: 9999999999

ASSUME MoneyAssumption == MaxTaka \in Nat

StandardAdvancePercent == 10

Digits == 0 .. 9

TakaTexts == [negative : BOOLEAN, whole : Nat, fraction : Seq(Digits)]

MoneyError == [error |-> "money"]

(* padEnd(2, '0').slice(0, 2), read as a number.                           *)
Hundredths(fraction) ==
    CASE Len(fraction) = 0 -> 0
      [] Len(fraction) = 1 -> fraction[1] * 10
      [] OTHER             -> fraction[1] * 10 + fraction[2]

(* Digits past the second that are not zero would have to be rounded away. *)
SubPoisha(fraction) == \E i \in 3 .. Len(fraction) : fraction[i] # 0

TakaToPoisha(text) ==
    LET poisha == text.whole * 100 + Hundredths(text.fraction) IN
    IF SubPoisha(text.fraction) THEN MoneyError
    ELSE IF text.negative THEN -poisha ELSE poisha

(* Mutant: the column's limit is not checked.                              *)
PoishaToTakaUnchecked(poisha) ==
    LET absolute == IF poisha < 0 THEN -poisha ELSE poisha
        hundredths == absolute % 100
    IN  [negative |-> poisha < 0, whole |-> absolute \div 100,
         fraction |-> <<hundredths \div 10, hundredths % 10>>]

PoishaToTaka(poisha) ==
    LET absolute == IF poisha < 0 THEN -poisha ELSE poisha
        hundredths == absolute % 100
    IN  IF absolute \div 100 > MaxTaka THEN MoneyError
        ELSE [negative |-> poisha < 0, whole |-> absolute \div 100,
              fraction |-> <<hundredths \div 10, hundredths % 10>>]

(* Mutant: rounds up.                                                      *)
PercentageOfUp(amount, percent) == (amount * percent + 99) \div 100

(* Rounds DOWN: the result is a legal maximum.                             *)
PercentageOf(amount, percent) == (amount * percent) \div 100

(* sum: the amounts added up from the first.                               *)
Sum(amounts) ==
    LET upTo[n \in 0 .. Len(amounts)] ==
            IF n = 0 THEN 0 ELSE upTo[n - 1] + amounts[n]
    IN  upTo[Len(amounts)]

------------------------------------------------------------------------------
(* A cart line is [quantity, unitPrice, readyToShip].                      *)

CartSubtotal(lines) ==
    Sum([i \in DOMAIN lines |-> lines[i].unitPrice * lines[i].quantity])

AllItemsReadyToShip(lines) == \A i \in DOMAIN lines : lines[i].readyToShip

CapReason(allReady, isEscrow) ==
    CASE isEscrow             -> "escrow"
      [] ~isEscrow /\ allReady -> "all_items_ready_to_ship"
      [] OTHER                -> "standard_cap"

Cap(reason, total) ==
    IF reason = "standard_cap" THEN PercentageOf(total, StandardAdvancePercent)
    ELSE total

ComputeAdvanceCap(lines, total, isEscrow) ==
    LET allReady == AllItemsReadyToShip(lines)
        reason == CapReason(allReady, isEscrow)
    IN  [cap |-> Cap(reason, total), reason |-> reason,
         allItemsReadyToShip |-> allReady]

AdvanceWithinCap(requested, cap) == requested >= 0 /\ requested <= cap
==============================================================================
