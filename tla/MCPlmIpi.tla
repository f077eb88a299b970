------------------------------ MODULE MCPlmIpi ------------------------------
\* PlmIpi: each direction of either build with failures, the PLM and the other
\* processor alone; and all three processors together without them.
EXTENDS PlmIpi

Setup(plmSent, r5Runs, a72Runs, failing) ==
  [plmSends |-> plmSent, r5 |-> r5Runs, a72 |-> a72Runs, faults |-> failing]

MCSetups ==
  {Setup(p, r, ~r, TRUE) : p, r \in BOOLEAN} \union {Setup(FALSE, TRUE, TRUE, FALSE)}
=============================================================================
