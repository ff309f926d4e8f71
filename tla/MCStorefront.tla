----------------------------- MODULE MCStorefront -----------------------------
EXTENDS Storefront, TLC

CONSTANTS g, t, v, h, k

\* Gcore by the hour, a panel and Timeweb both ways
MCKindOf == [p \in {g, t, v} |-> IF p = g THEN "gcore" ELSE IF p = t THEN "timeweb"
                                ELSE "virtualizor"]
MCFirstPrice == [p \in {g, t, v} |-> [hourly |-> 1, monthly |-> IF p = g THEN 0 ELSE 1]]

Symmetry == Permutations(Handlers)
===============================================================================
