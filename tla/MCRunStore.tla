----------------------------- MODULE MCRunStore -----------------------------
(* RunStore for TLC: the roles are interchangeable, and the bounds of each *)
(* run are in its .cfg.                                                    *)
EXTENDS RunStore, TLC

RoleSymmetry == Permutations(Roles)
=============================================================================
