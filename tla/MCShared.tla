------------------------------ MODULE MCShared ------------------------------
\* Model checking of the shared services.  The launches are begun in the order
\* of their numbers and the first asks for the first configuration: the others
\* are the same up to a renaming, and so are the pools of accounts at the start.
EXTENDS SharedLaunches

FirstAsksFirst == [r \in Runs |-> IF r = 1 THEN {"x"} ELSE Configs]

\* The second launch needs the credentials as well.
SecondNeedsMore == [r \in Runs |-> IF r = 1 THEN {Headrooms} ELSE {Kinds}]

NoHeadroomYet == [k \in Kinds |-> IF k \in Headrooms THEN Off ELSE "x"]
=============================================================================
