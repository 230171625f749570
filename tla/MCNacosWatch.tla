---------------------------- MODULE MCNacosWatch ----------------------------
(***************************************************************************)
(* Instances of NacosWatch for TLC: a configuration key and a service, for *)
(* one template or for two that share a key.                               *)
(***************************************************************************)
EXTENDS NacosWatch

CONSTANTS m1, m2, cfg, svc

OneTemplate == [m \in {m1} |-> <<cfg, svc>>]
TwoTemplates == [m \in {m1, m2} |-> IF m = m1 THEN <<cfg>> ELSE <<cfg, svc>>]
=============================================================================
