----------------------------- MODULE MCRecovery -----------------------------
(***************************************************************************)
(* Two runs of at most two attempts: an artifact that may be admitted and  *)
(* one worth a warning, which the policy sends to review; the check is     *)
(* registered at a validation or has gone.                                 *)
(***************************************************************************)
EXTENDS Recovery

CONSTANTS check, strict, good, odd, ptr, id

MCResolves(a) == {ptr}

MCEmits(i, a) == IF a = good THEN {"MEASUREMENT"} ELSE {"DRIFT_DETECTED"}

MCContracts == {[check_id |-> id, implementation |-> check, pointers |-> {ptr},
                 escalate |-> {}]}

MCPolicy == [on_warn |-> "REVIEW", required |-> {id}]

MCRegistries == [Names -> Impls \cup {Missing}]
=============================================================================
