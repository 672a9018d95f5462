------------------------------- MODULE MCAuthz -------------------------------
(* Instances of Authz for TLC. *)
EXTENDS Authz

CONSTANTS u1, u2, p1, p2, admin, plain, um, rm

MCSeedScopes == [r \in Roles |-> IF r = admin THEN {um, rm} ELSE {}]
MCScopeSets  == {{}, {um}, {um, rm}}
MCSmallScopeSets == {{}, {um, rm}}
=============================================================================
