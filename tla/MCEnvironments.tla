---------------------------- MODULE MCEnvironments ----------------------------
(***************************************************************************)
(* One pull request with a life of its own, and a second one that is only  *)
(* there to share what can be shared.  All the wirings but those of a name *)
(* differ from their neighbour in one control.                             *)
(***************************************************************************)
EXTENDS Environments

CONSTANTS p, q, base, migrated

MCPRs == {p, q}
MCShas == {[no |-> 1, schema |-> base], [no |-> 2, schema |-> migrated]}
MCSchemas == {base, migrated}
MCMaxRuns == [x \in MCPRs |-> IF x = p THEN 3 ELSE 1]
MCMaxTraffic == [x \in MCPRs |-> IF x = p THEN 1 ELSE 0]
AllWirings == DOMAIN Strategies
=============================================================================
