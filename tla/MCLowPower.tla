----------------------------- MODULE MCLowPower -----------------------------
EXTENDS LowPower
CONSTANTS k1, k2, k3
OneRowEach == [k \in Keys |-> IF k = k3 THEN "r2" ELSE "r1"]
=============================================================================
