----------------------------- MODULE MCAccount -----------------------------
(* Model values for the run of Account.                                     *)
EXTENDS Account, TLC

CONSTANTS r1, r2, r3, r4, ip

FourRequests == {r1, r2, r3, r4}
OneAddress   == {ip}
TwoFormats   == {"jpg", "png"}
SomePatches  == {{}, {"nickname", "avatar"}}
Symmetry     == Permutations(Requests)
=============================================================================
