---------------------------- MODULE MCMerchants ------------------------------
(* Merchants on a small instance.                                          *)
EXTENDS Merchants, TLC

UserSymmetry == Permutations(Users)

Absent == -100

At(x) == [lat |-> x, lng |-> x]

(* Two places with a GPS fix, a manual address, and half a fix.            *)
SmallAddresses == {At(0), At(3), At(Absent), [lat |-> 0, lng |-> Absent]}

SmallNids == {[digits |-> TRUE, length |-> 13], [digits |-> TRUE, length |-> 12],
              [digits |-> FALSE, length |-> 10]}

Plain == [restricted |-> FALSE, licence |-> FALSE]
Prohibited == [restricted |-> TRUE, licence |-> FALSE]
Licensed == [restricted |-> FALSE, licence |-> TRUE]
SmallCategories == {Plain, Prohibited, Licensed}

SmallOffers == {[type |-> "product", stock |-> 1, category |-> c] : c \in SmallCategories}
                  \cup {[type |-> "service_slot", stock |-> 0, category |-> Plain]}
==============================================================================
