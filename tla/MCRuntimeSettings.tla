-------------------------- MODULE MCRuntimeSettings --------------------------
(* Instances of RuntimeSettings for TLC. *)
EXTENDS RuntimeSettings, TLC

CONSTANTS api1, api2, r1, r2, totp, other, on, off

MCHome == r1 :> api1 @@ r2 :> api2
MCEnv  == [p \in {api1, api2} |-> [f \in {totp, other} |-> IF p = api1 THEN on ELSE off]]

\* All off; and one field on.
MCSaved   == {[f \in {totp, other} |-> off]}
MCChanged == {other :> on}
=============================================================================
