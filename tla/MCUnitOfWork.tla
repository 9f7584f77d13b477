--------------------------- MODULE MCUnitOfWork -----------------------------
\* Instances of UnitOfWork for TLC.
EXTENDS UnitOfWork, TLC
CONSTANTS n1

OneName == [u \in User |-> n1]
=============================================================================
