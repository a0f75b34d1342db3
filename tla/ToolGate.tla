------------------------------ MODULE ToolGate ------------------------------
(***************************************************************************)
(* The pre-tool kill-switch and the package that is made of a run: the     *)
(* plan runner proposes each call to the gate, runs it only on ALLOW and   *)
(* writes the trace; wrap_run packages the trace, or one observed          *)
(* elsewhere, and submits the package to the boundary; a package may be    *)
(* edited and submitted again.                                             *)
(*                                                                         *)
(* An event keeps its sequence number, kind, name, status and whether its  *)
(* digests are well-formed; a digest of events stands for the events.      *)
(* Arguments and results are left out, except that a payload which is not  *)
(* canonical JSON makes make_event raise.                                  *)
(***************************************************************************)
EXTENDS Naturals, Sequences

CONSTANTS
  Names,        \* tool names, the empty one not among them
  NoName,       \* a name that is empty or not a string
  Allowed,      \* policy.allowed_names
  Tools,        \* Tools[n]: whether the tool called n does harm
  Plans,        \* plans a caller may supply
  Traces,       \* traces observed elsewhere
  RunName, TOOL_GATE_NAME

ASSUME ToolGateAssumption ==
  /\ NoName \notin Names /\ Allowed \subseteq Names
  /\ Tools \in [Names -> BOOLEAN]
  /\ RunName # NoName /\ TOOL_GATE_NAME # NoName

-----------------------------------------------------------------------------
(* Events and packages.                                                    *)

ALLOWED_KINDS == {"run_start", "tool_call", "tool_result", "decision", "run_end", "error"}

AnyEvent == [seq : Nat, kind : ALLOWED_KINDS \cup {"unsupported"},
             name : Names \cup {NoName, RunName, TOOL_GATE_NAME},
             status : {"started", "ok", "error", "halted", "succeeded", "failed"},
             digests : {"well_formed", "malformed"}]

\* What may be submitted as a run-artifact; "other" stands for any shape but an
\* object with a list of events.
Package == [shape : {"list", "other"}, events : Seq(AnyEvent), event_count : Nat,
            declared : Seq(AnyEvent), outcome : {"failed", "succeeded"}]

\* A proposal: its name, whether its redaction is a mapping or absent, and whether it
\* comes as a PlannedCall or as a mapping.
Item == [name : Names \cup {NoName}, redacted : BOOLEAN, planned : BOOLEAN]

ASSUME InputAssumption == Plans \subseteq Seq(Item) /\ Traces \subseteq Seq(AnyEvent)

Event(seq, kind, name, status) ==
  [seq |-> seq, kind |-> kind, name |-> name, status |-> status, digests |-> "well_formed"]

\* normalize_events: what it does not refuse.
Normal(trace) ==
  /\ \A i \in 1..Len(trace) : /\ trace[i].kind \in ALLOWED_KINDS
                              /\ trace[i].seq \in Nat \ {0}
                              /\ trace[i].name # NoName
  /\ \A i, j \in 1..Len(trace) : trace[i].seq = trace[j].seq => i = j

\* Mutant: only the last event is asked.
OutcomeOfLast(trace) ==
  IF trace # <<>> /\ trace[Len(trace)].kind = "error" THEN "failed" ELSE "succeeded"

\* derive_outcome.
Outcome(trace) ==
  IF \E i \in 1..Len(trace) : trace[i].kind = "error" \/ trace[i].status = "error"
  THEN "failed" ELSE "succeeded"

\* build_run_artifact, of a trace that is normal.  declared is what events_sha256
\* is the digest of.
RunArtifact(trace) ==
  [shape |-> "list", events |-> trace, event_count |-> Len(trace), declared |-> trace,
   outcome |-> Outcome(trace)]

-----------------------------------------------------------------------------
(* The checks of the wrapper, and the boundary under its contracts.        *)

REQUIRED_KINDS == {"run_start", "tool_call", "tool_result", "run_end"}

Kinds(trace) == {trace[i].kind : i \in 1..Len(trace)}

EventCount(a) ==
  LET findings == (IF a.event_count # Len(a.events) THEN {"CONTRADICTION_DETECTED"} ELSE {})
                    \cup (IF a.event_count < 1 THEN {"EVIDENCE_MISSING"} ELSE {})
  IN  IF findings = {} THEN {"MEASUREMENT"} ELSE findings

RequiredKinds(a) ==
  IF REQUIRED_KINDS \subseteq Kinds(a.events)
  THEN {"MEASUREMENT"} ELSE {"EVIDENCE_INCOMPLETE"}

\* Mutant: the digest of the events is not recomputed.
DigestsUnbound(a) ==
  LET odd == {i \in 1..Len(a.events) : \/ a.events[i].kind \notin ALLOWED_KINDS
                                       \/ a.events[i].digests # "well_formed"}
  IN  IF odd = {} THEN {"MEASUREMENT"} ELSE {"INPUT_SHAPE_INVALID"}

DigestsWellFormed(a) ==
  LET odd == {i \in 1..Len(a.events) : \/ a.events[i].kind \notin ALLOWED_KINDS
                                       \/ a.events[i].digests # "well_formed"}
      findings == (IF a.declared # a.events THEN {"HASH_MISMATCH"} ELSE {})
                    \cup {"INPUT_SHAPE_INVALID" : i \in odd}
  IN  IF findings = {} THEN {"MEASUREMENT"} ELSE findings

Checks == {"agent_wrap.event_count", "agent_wrap.required_kinds",
           "agent_wrap.digests_well_formed"}

\* The empty name is no check, and a name is not a finding.
ASSUME ChecksAssumption == NoName \notin Checks /\ RunName # {"MEASUREMENT"}

\* What a check finds in a package; each refuses one without a list of events.
CheckFinds(check, a) ==
  IF a.shape # "list" THEN {"INPUT_SHAPE_INVALID"}
  ELSE CASE check = "agent_wrap.event_count" -> EventCount(a)
         [] check = "agent_wrap.required_kinds" -> RequiredKinds(a)
         [] check = "agent_wrap.digests_well_formed" -> DigestsWellFormed(a)

\* The contracts' one pointer names the whole artifact.
Carries(a) == {"artifact"}

\* The boundary; the checks are registered on import.
Xi == INSTANCE XiAudit WITH
  Artifacts <- Package, Names <- Checks, Impls <- Checks, Missing <- NoName,
  Raises <- RunName, Pointers <- {"artifact"}, Resolves <- Carries,
  Emits <- CheckFinds, CheckIds <- Checks

AgentRunContracts ==
  {[check_id |-> check, implementation |-> check, pointers |-> {"artifact"},
    escalate |-> {}] : check \in Checks}

AgentRunPolicy == [on_warn |-> "REVIEW", required |-> Checks]

\* admit_run_artifact.
Admission(a) ==
  Xi!VerifyArtifact(a, AgentRunContracts, AgentRunPolicy, [check \in Checks |-> check],
                       NoName).body.admission

-----------------------------------------------------------------------------
(* The gate.                                                               *)

\* _as_call: a mapping loses a redaction that is not one, a PlannedCall keeps it.
AsCall(item) == [name |-> item.name, redacted |-> item.planned => item.redacted]

\* Mutant: a deny-list of what is known to do harm.
EvaluateDenyList(call) ==
  IF call.redacted /\ call.name \in Names /\ ~Tools[call.name] THEN "ALLOW" ELSE "HALT"

\* evaluate_tool_proposal.
Evaluate(call) ==
  IF call.redacted /\ call.name # NoName /\ call.name \in Allowed THEN "ALLOW" ELSE "HALT"

-----------------------------------------------------------------------------
(* A run.                                                                  *)

VARIABLES
  pc,        \* idle, head (of the loop), tool (running), wrap, done or raised
  source,    \* what is packaged: nothing yet, a plan that is run, or a trace
  plan,      \* the proposals of the run
  todo,      \* those that have not run yet
  gate_disabled,
  events,    \* the trace so far
  effects,   \* what the tools that ran have done, the journal among it
  halted,
  package,   \* the package last submitted
  admission  \* and what the boundary said, "none" before it is asked

vars == <<pc, source, plan, todo, gate_disabled, events, effects, halted, package,
          admission>>

NoPackage == [shape |-> "other", events |-> <<>>, event_count |-> 0, declared |-> <<>>,
              outcome |-> "failed"]

Init ==
  /\ pc = "idle"
  /\ source = "none" /\ plan = <<>> /\ todo = <<>> /\ gate_disabled = FALSE
  /\ events = <<>> /\ effects = <<>> /\ halted = FALSE
  /\ package = NoPackage /\ admission = "none"

\* execute_plan is called; skipping the gate is for tests.
StartPlan(p, disabled) ==
  /\ pc = "idle"
  /\ pc' = "head"
  /\ source' = "plan" /\ plan' = p /\ todo' = p /\ gate_disabled' = disabled
  /\ events' = <<Event(1, "run_start", RunName, "started")>>
  /\ UNCHANGED <<effects, halted, package, admission>>

\* The events of one turn of the loop follow on the last one.
Record(kind, name, status) == Append(events, Event(Len(events) + 1, kind, name, status))

\* Mutant: the halt is recorded and the plan goes on.
HaltAndGoOn ==
  /\ pc = "head" /\ todo # <<>> /\ ~gate_disabled
  /\ Evaluate(AsCall(Head(todo))) = "HALT"
  /\ events' = Record("error", TOOL_GATE_NAME, "halted")
  /\ halted' = TRUE
  /\ todo' = Tail(todo)
  /\ UNCHANGED <<pc, source, plan, gate_disabled, effects, package, admission>>

\* The gate halts: nothing that is left of the plan runs.
Halt ==
  /\ pc = "head" /\ todo # <<>> /\ ~gate_disabled
  /\ Evaluate(AsCall(Head(todo))) = "HALT"
  /\ events' = Append(Record("error", TOOL_GATE_NAME, "halted"),
                      Event(Len(events) + 2, "run_end", RunName, "halted"))
  /\ halted' = TRUE
  /\ pc' = "wrap"
  /\ UNCHANGED <<source, plan, todo, gate_disabled, effects, package, admission>>

\* The call is recorded and its tool entered, unless the event cannot be made: it
\* has no name, or its arguments have no canonical form.
Call ==
  /\ pc = "head" /\ todo # <<>>
  /\ gate_disabled \/ Evaluate(AsCall(Head(todo))) = "ALLOW"
  /\ \/ /\ Head(todo).name # NoName
        /\ events' = Record("tool_call", Head(todo).name, "ok")
        /\ pc' = "tool"
     \/ pc' = "raised" /\ UNCHANGED events
  /\ UNCHANGED <<source, plan, todo, gate_disabled, effects, halted, package, admission>>

\* What the tool called n leaves behind; one that is not registered counts as harm.
Effect(n) == [name |-> n, harm |-> Tools[n]]

\* Mutant: the result is recorded before the tool has done anything.
ToolReturnsEarly ==
  /\ pc = "tool"
  /\ events' = Record("tool_result", Head(todo).name, "ok")
  /\ effects' \in {effects, Append(effects, Effect(Head(todo).name))}
  /\ todo' = Tail(todo)
  /\ pc' = "head"
  /\ UNCHANGED <<source, plan, gate_disabled, halted, package, admission>>

ToolReturns ==
  /\ pc = "tool"
  /\ effects' = Append(effects, Effect(Head(todo).name))
  /\ events' = Record("tool_result", Head(todo).name, "ok")
  /\ todo' = Tail(todo)
  /\ pc' = "head"
  /\ UNCHANGED <<source, plan, gate_disabled, halted, package, admission>>

\* The tool raises, before or after it has done its work, or returns what has no
\* canonical form; the trace is lost with the call of execute_plan.
ToolRaises ==
  /\ pc = "tool"
  /\ effects' \in {effects, Append(effects, Effect(Head(todo).name))}
  /\ pc' = "raised"
  /\ UNCHANGED <<source, plan, todo, gate_disabled, events, halted, package, admission>>

\* Mutant: an empty plan is not an answer.
FinishNonEmpty ==
  /\ pc = "head" /\ todo = <<>> /\ plan # <<>>
  /\ events' = Record("run_end", RunName, "succeeded")
  /\ pc' = "wrap"
  /\ UNCHANGED <<source, plan, todo, gate_disabled, effects, halted, package, admission>>

\* Every proposal has run.
Finish ==
  /\ pc = "head" /\ todo = <<>>
  /\ events' = Record("run_end", RunName, "succeeded")
  /\ pc' = "wrap"
  /\ UNCHANGED <<source, plan, todo, gate_disabled, effects, halted, package, admission>>

\* wrap_run is given a trace that was observed elsewhere.
Observe(trace) ==
  /\ pc = "idle"
  /\ source' = "trace" /\ events' = trace
  /\ pc' = IF Normal(trace) THEN "wrap" ELSE "raised"
  /\ UNCHANGED <<plan, todo, gate_disabled, effects, halted, package, admission>>

\* The rest of wrap_run: the package is built and submitted.  A caller may give the
\* outcome himself.
Wrap ==
  /\ pc = "wrap"
  /\ \E outcome \in {Outcome(events), "succeeded", "failed"} :
       package' = [RunArtifact(events) EXCEPT !.outcome = outcome]
  /\ admission' = Admission(package')
  /\ pc' = "done"
  /\ UNCHANGED <<source, plan, todo, gate_disabled, events, effects, halted>>

\* What an edit may make of a package: its shape, its count, its outcome or its
\* events, with the digest recomputed or not.
Edits(a) ==
  {[a EXCEPT !.shape = "other"], [a EXCEPT !.event_count = a.event_count + 1],
   [a EXCEPT !.outcome = "succeeded"]}
  \cup UNION {{[a EXCEPT !.events = trace, !.event_count = Len(trace)],
               [a EXCEPT !.events = trace, !.event_count = Len(trace),
                         !.declared = trace]} :
                trace \in Traces}

\* run-artifact.json is edited, and goes through admit_run_artifact again.
Resubmit(a) ==
  /\ pc = "done"
  /\ package' = a
  /\ admission' = Admission(a)
  /\ UNCHANGED <<pc, source, plan, todo, gate_disabled, events, effects, halted>>

Step == Halt \/ Call \/ ToolReturns \/ ToolRaises \/ Finish \/ Wrap

Next == \/ \E p \in Plans, disabled \in BOOLEAN : StartPlan(p, disabled)
        \/ \E trace \in Traces : Observe(trace)
        \/ Step
        \/ \E a \in Edits(RunArtifact(events)) : Resubmit(a)

\* A tool that is entered returns or raises, and the runner goes on.
Spec == Init /\ [][Next]_vars /\ WF_vars(Step)
-----------------------------------------------------------------------------
(* Properties.                                                             *)

\* What a proposal must be for its tool to run.
Permitted(item) == item.name \in Allowed /\ (item.planned => item.redacted)

\* Every variable keeps its type; effects and what is left to do fit the plan.
TypeOK ==
  /\ pc \in {"idle", "head", "tool", "wrap", "done", "raised"}
  /\ source \in {"none", "plan", "trace"} /\ (source = "none" <=> pc = "idle")
  /\ gate_disabled \in BOOLEAN
  /\ admission \in {"none", "ADMIT", "REVIEW", "REJECT", "ERROR"}
  /\ Len(effects) + Len(todo) <= Len(plan) + (IF pc = "raised" THEN 1 ELSE 0)
  /\ pc \in {"head", "tool"} => source = "plan"
  /\ pc = "tool" => todo # <<>>
  /\ halted \in BOOLEAN /\ (halted => pc \in {"wrap", "done"})

\* With the gate on, what tools have done is what the plan asked for up to the first
\* call that is not permitted and nothing after it, even if a tool has raised; the
\* run is halted exactly if there is such a call (gate.py, plan.py execute_plan).
EffectsFollowThePlan ==
  ~gate_disabled =>
    /\ \A i \in 1..Len(effects) :
         /\ effects[i] = Effect(plan[i].name)
         /\ \A j \in 1..i : Permitted(plan[j])
    /\ pc \in {"wrap", "done"} /\ source = "plan" =>
         /\ halted <=> \E i \in 1..Len(plan) : ~Permitted(plan[i])
         /\ halted => ~Permitted(plan[Len(effects) + 1])
         /\ ~halted => Len(effects) = Len(plan)

\* The trace of a plan accounts for what its tools have done, call by call and in
\* order, and for nothing else: a call that was halted leaves no name, and the
\* sequence numbers have no gap (plan.py execute_plan).
TraceTellsTheRun ==
  source = "plan" /\ pc # "raised" =>
    /\ \A i \in 1..Len(events) : events[i].seq = i
    /\ \A i \in 1..Len(effects) :
         LET n == effects[i].name IN
         /\ events[2 * i] = Event(2 * i, "tool_call", n, "ok")
         /\ events[2 * i + 1] = Event(2 * i + 1, "tool_result", n, "ok")
    /\ Len(events) = 1 + 2 * Len(effects) + (CASE pc = "head" -> 0
                                               [] pc = "tool" -> 1
                                               [] pc \in {"wrap", "done"} /\ halted -> 2
                                               [] pc \in {"wrap", "done"} /\ ~halted -> 1)

\* The package of a plan says that the run failed exactly if it was halted, and it is
\* admitted exactly if some tool ran, halted or not: admission is about the record
\* (artifact.py derive_outcome, checks.py).
PackageTellsTheRun ==
  pc = "done" /\ source = "plan" /\ package = RunArtifact(events) =>
    /\ package.outcome = "failed" <=> halted
    /\ admission = "ADMIT" <=> effects # <<>>

\* A package is admitted only if its digest covers its events, its count is theirs
\* and they are of the kinds, and the form, the observation envelope asks for,
\* however it was edited (checks.py).
AdmittedIsBound ==
  admission = "ADMIT" =>
    /\ package.shape = "list" /\ package.declared = package.events
    /\ package.event_count = Len(package.events)
    /\ REQUIRED_KINDS \subseteq Kinds(package.events)
    /\ \A i \in 1..Len(package.events) : /\ package.events[i].kind \in ALLOWED_KINDS
                                         /\ package.events[i].digests = "well_formed"

\* Every run that is started ends, with a package or an exception.
RunsEnd == (pc # "idle") ~> (pc \in {"done", "raised"})

\* "the halted package is still submitted to `verify_artifact` and is non-`ADMIT`"
\* (demos/agent-run-wrap/README.md:38).
HaltedIsNotAdmitted ==
  halted /\ package = RunArtifact(events) => admission # "ADMIT"
=============================================================================
