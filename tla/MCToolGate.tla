----------------------------- MODULE MCToolGate -----------------------------
(***************************************************************************)
(* Plans of up to three calls: a tool that is allowed, one that is         *)
(* harmless but not allowed, one that does harm, a call without a name and *)
(* one whose redaction is not a mapping.  Observed traces: a whole one, one *)
(* without a result, one of an unsupported kind, one that repeats a        *)
(* sequence number, one with a malformed digest, and the empty one.        *)
(***************************************************************************)
EXTENDS ToolGate

CONSTANTS search, list, exec

MCTools == [n \in Names |-> n = exec]

Proposal(n, redacted, planned) == [name |-> n, redacted |-> redacted, planned |-> planned]

Items == {Proposal(search, TRUE, FALSE), Proposal(search, FALSE, TRUE),
          Proposal(search, FALSE, FALSE), Proposal(list, TRUE, TRUE),
          Proposal(exec, TRUE, FALSE), Proposal(NoName, TRUE, FALSE)}

MCPlans == {<<>>} \cup UNION {[1..k -> Items] : k \in 1..3}

Whole == <<Event(1, "run_start", RunName, "started"),
           Event(2, "tool_call", search, "ok"),
           Event(3, "tool_result", search, "error"),
           Event(4, "run_end", RunName, "failed")>>

MCTraces == {<<>>, Whole, <<Whole[1], Whole[2], Whole[4]>>,
             <<[Whole[1] EXCEPT !.kind = "unsupported"]>>,
             <<Whole[1], Whole[2], Whole[3], [Whole[4] EXCEPT !.seq = 3]>>,
             <<Whole[1], [Whole[2] EXCEPT !.digests = "malformed"], Whole[3], Whole[4]>>}
=============================================================================
