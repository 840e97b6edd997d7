---------------------------- MODULE MCSettlement -----------------------------
(* Settlement on small instances.                                          *)
EXTENDS Settlement, TLC

CONSTANTS o1, o2, r1, r2

WorkerSymmetry == Permutations(Workers)

Notice(o, r, a, outcome) ==
    [order |-> o, ref |-> r, amount |-> a, outcome |-> outcome]

(* An order paid by an advance of 1 out of 2, and one paid on delivery.    *)
AdvanceOrder == [cod |-> FALSE, total |-> 2, advance |-> 1, sameCity |-> TRUE]
FarAdvanceOrder == [AdvanceOrder EXCEPT !.sameCity = FALSE]
CodOrder == [cod |-> TRUE, total |-> 2, advance |-> 0, sameCity |-> TRUE]

(* One order and two payment attempts: one reported as settled, for either *)
(* amount, and one reported first as failed and then as settled.           *)
RaceTerms == {FarAdvanceOrder, CodOrder}
RaceNotices ==
    {Notice(o1, r1, 1, "success"), Notice(o1, r1, 2, "success"),
     Notice(o1, r2, 1, "failed"), Notice(o1, r2, 1, "success")}

(* Two orders, one with a reference of its own, and a reference that is    *)
(* reported for both.                                                      *)
PairTerms == {AdvanceOrder, CodOrder}
PairNotices ==
    {Notice(o1, r1, 1, "success"), Notice(o1, r2, 1, "success"),
     Notice(o2, r2, 1, "failed")}

(* One payment, reported over and over.                                    *)
ReplayTerms == {AdvanceOrder}
ReplayNotices == {Notice(o1, r1, 1, "success")}
==============================================================================
