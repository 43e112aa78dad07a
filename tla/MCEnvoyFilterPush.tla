------------------------- MODULE MCEnvoyFilterPush -------------------------
(* Instances of EnvoyFilterPush for TLC.                                    *)
EXTENDS EnvoyFilterPush, TLC

CONSTANTS n1, n2, v1, v2, f1, config

TwoNames == {n1, n2}
GatewayName == {n2}
OneSource == {config}
TwoVs == {v1, v2}
OneEf == {f1}
=============================================================================
