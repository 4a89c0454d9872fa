---------------------------- MODULE MCMgmtToken ----------------------------
(* Instances of MgmtToken: a gateway and the API services started with it.  *)
EXTENDS MgmtToken, TLC

CONSTANTS gateway, api, other

ThreeStarts == {gateway, api, other}
AnyFault == {"crash", "freeze", "io"}
CrashesOnly == {"crash"}
StartSymmetry == Permutations(ThreeStarts)
=============================================================================
