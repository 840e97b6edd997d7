---------------------------- MODULE DeliveryClock ----------------------------
(***************************************************************************)
(* The regulated delivery window (api/src/common/compliance/               *)
(* delivery-clock.ts).  Instants are whole milliseconds, as Date.getTime() *)
(* returns them.  A null instant, the SQL NULL of advance_paid_at and      *)
(* delivery_deadline_at, is NoTime.                                        *)
(***************************************************************************)
EXTENDS Integers

CONSTANT MsPerDay  \* milliseconds in a day: 86400000 in the code

ASSUME MsPerDayAssumption == MsPerDay \in Nat \ {0}

NoTime == -1

SameCityDeliveryDays == 5
DifferentCityDeliveryDays == 10

(* An administrative name is its canonical spelling plus the case and      *)
(* spacing it happened to be typed with; normalise forgets the latter.     *)
Normalise(name) == name.canonical

(* District alone is not enough: district names repeat across divisions.   *)
IsSameCity(merchant, delivery) ==
    /\ Normalise(merchant.division) = Normalise(delivery.division)
    /\ Normalise(merchant.district) = Normalise(delivery.district)

DeliveryWindowDays(sameCity) ==
    IF sameCity THEN SameCityDeliveryDays ELSE DifferentCityDeliveryDays

ComputeDeliveryDeadline(advancePaidAt, sameCity) ==
    advancePaidAt + DeliveryWindowDays(sameCity) * MsPerDay

IsOverdue(deadlineAt, now) == deadlineAt # NoTime /\ now > deadlineAt

(* Math.floor of an exact quotient: \div rounds towards minus infinity.    *)
DaysRemaining(deadlineAt, now) == (deadlineAt - now) \div MsPerDay

==============================================================================
