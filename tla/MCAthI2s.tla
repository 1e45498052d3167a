------------------------------ MODULE MCAthI2s ------------------------------
(* Instances of AthI2s for TLC.                                            *)
EXTENDS AthI2s

(* One chunk; more than the ring holds; one and an end of EAGAIN bytes.    *)
MCRequests == {<<1, FALSE>>, <<NUM_DESC + 1, FALSE>>, <<2, TRUE>>}
=============================================================================
