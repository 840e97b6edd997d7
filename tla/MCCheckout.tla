----------------------------- MODULE MCCheckout ------------------------------
(* Checkout on small instances.                                            *)
EXTENDS Checkout, TLC

CONSTANTS l1, l2, m1, m2

Name(n) == [canonical |-> n, typed |-> n]
Dhaka == [division |-> Name("dhaka"), district |-> Name("dhaka")]
Gazipur == [division |-> Name("dhaka"), district |-> Name("gazipur")]

Row(owner, poisha, ready, stock) ==
    [owner |-> owner, price |-> PoishaToTaka(poisha), readyToShip |-> ready,
     stock |-> stock, active |-> TRUE, restricted |-> FALSE, licence |-> FALSE]

(* A line of 7 poisha ready or not, one of 60 that overflows the column    *)
(* when two are ordered, one out of stock, one of another merchant, and    *)
(* ones that may not be sold.                                              *)
SmallRows ==
    {Row(m1, 7, TRUE, NoStock), Row(m1, 7, FALSE, 1), Row(m1, 60, TRUE, NoStock),
     Row(m2, 7, TRUE, NoStock),
     [Row(m1, 7, TRUE, NoStock) EXCEPT !.active = FALSE],
     [Row(m1, 7, TRUE, NoStock) EXCEPT !.restricted = TRUE],
     [Row(m1, 7, TRUE, NoStock) EXCEPT !.licence = TRUE]}

MerchantVersions ==
    {[kyc |-> "verified", active |-> TRUE, pickup |-> Dhaka],
     [kyc |-> "pending", active |-> TRUE, pickup |-> Dhaka],
     [kyc |-> "verified", active |-> TRUE, pickup |-> NoLocation]}

Command(lns, method, advance) ==
    [merchant |-> m1, method |-> method, advance |-> advance,
     delivery |-> Gazipur, lines |-> lns]

OneEach == <<[listing |-> l1, quantity |-> 1], [listing |-> l2, quantity |-> 1]>>
TwoOfOne == <<[listing |-> l1, quantity |-> 2]>>

(* Of a total of 14 poisha ten percent is 1.4: an advance of 1 is lawful   *)
(* without further grounds, one of 2 is not.                               *)
SmallCommands ==
    {Command(OneEach, "bkash", 0), Command(OneEach, "bkash", 1),
     Command(OneEach, "bkash", 2), Command(OneEach, "bkash", 14),
     Command(OneEach, "cod", 0), Command(OneEach, "cod", 1),
     Command(OneEach, "escrow", 14), Command(TwoOfOne, "nagad", 1)}
==============================================================================
