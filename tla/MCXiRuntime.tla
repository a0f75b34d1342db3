---------------------------- MODULE MCXiRuntime ----------------------------
(***************************************************************************)
(* A small XI runtime: one builtin and two names a consumer may register;  *)
(* an artifact that passes, one that is worth a warning and one whose      *)
(* pointer does not resolve; an implementation that does its work and one  *)
(* that raises or speaks outside the vocabulary.                           *)
(***************************************************************************)
EXTENDS XiRuntime

CONSTANTS b1, c1, c2, good, odd, bare, strict, broken, ptr, id1, id2

MCResolves(a) == IF a = bare THEN {} ELSE {ptr}

MCEmits(i, a) ==
  CASE i = strict /\ a # odd -> {"MEASUREMENT"}
    [] i = strict /\ a = odd -> {"MEASUREMENT", "PAYLOAD_LARGE"}
    [] i = broken /\ a # odd -> Raises
    [] i = broken /\ a = odd -> {"MEASUREMENT", "UNHEARD_OF"}

MCBuiltinImpl == [n \in Builtins |-> strict]

On(id, n, escalate) ==
  [check_id |-> id, implementation |-> n, pointers |-> {ptr}, escalate |-> escalate]

MCContractSets == { {On(id1, b1, {})},
                    {On(id1, b1, {"PAYLOAD_LARGE"})},
                    {On(id1, b1, {}), On(id2, c1, {})} }

MCPolicies == { [on_warn |-> "REVIEW", required |-> {id1}],
                [on_warn |-> "ADMIT", required |-> {id1, id2}] }
=============================================================================
