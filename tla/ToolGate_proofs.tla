--------------------------- MODULE ToolGate_proofs ---------------------------
(***************************************************************************)
(* Proofs about ToolGate, for every plan, observed trace, allowlist and    *)
(* set of tools: the gate bounds what tools do, the trace accounts for it, *)
(* and admission is bound to the record.                                   *)
(***************************************************************************)
EXTENDS ToolGate, TLAPS, SequenceTheorems

-----------------------------------------------------------------------------
(* The boundary under the wrapper's contracts.                             *)

XP == INSTANCE XiAudit_proofs WITH
  Artifacts <- Package, Names <- Checks, Impls <- Checks, Missing <- NoName,
  Raises <- RunName, Pointers <- {"artifact"}, Resolves <- Carries,
  Emits <- CheckFinds, CheckIds <- Checks

Registered == [check \in Checks |-> check]

\* The lemmas about the boundary speak of the same boundary.
LEMMA SameBoundary ==
  ASSUME NEW a
  PROVE  Admission(a) = XP!VerifyArtifact(a, AgentRunContracts, AgentRunPolicy,
                                          Registered, NoName).body.admission
  BY DEF Admission, Registered, Xi!VerifyArtifact, XP!VerifyArtifact, Xi!BuildReceipt,
     XP!BuildReceipt, Xi!Seal, XP!Seal, Xi!Admission, XP!Admission, Xi!BlockingCodes,
     XP!BlockingCodes, Xi!RunContractSet, XP!RunContractSet, Xi!RunCheck, XP!RunCheck,
     Xi!ErrorResult, XP!ErrorResult, Xi!BuildResult, XP!BuildResult, Xi!Escalate,
     XP!Escalate, Xi!SeverityOf, XP!SeverityOf, Xi!InfoCodes, XP!InfoCodes,
     Xi!WarnCodes, XP!WarnCodes, Xi!ErrorCodes, XP!ErrorCodes, Xi!FailCodes,
     XP!FailCodes, Xi!IssueCodes, XP!IssueCodes, Xi!VerdictFrom, XP!VerdictFrom,
     Xi!WorstSeverity, XP!WorstSeverity, Xi!SeverityRank, XP!SeverityRank,
     Xi!WithVerdict, XP!WithVerdict, Xi!CodesOf, XP!CodesOf, Xi!MissingRequired,
     XP!MissingRequired

\* What the three checks ask for, together.
IsBound(a) ==
  /\ a.shape = "list" /\ a.declared = a.events
  /\ a.event_count = Len(a.events) /\ a.event_count >= 1
  /\ REQUIRED_KINDS \subseteq Kinds(a.events)
  /\ \A i \in 1..Len(a.events) : /\ a.events[i].kind \in ALLOWED_KINDS
                                 /\ a.events[i].digests = "well_formed"

\* The checks find a measurement in a bound package, and something to blame in any
\* other.
LEMMA ChecksMeasure ==
  ASSUME NEW a \in Package
  PROVE  /\ IsBound(a) => \A check \in Checks : CheckFinds(check, a) = {"MEASUREMENT"}
         /\ (\A check \in Checks : CheckFinds(check, a) \subseteq {"MEASUREMENT"})
              => IsBound(a)
<1> DEFINE odd == {i \in 1..Len(a.events) : \/ a.events[i].kind \notin ALLOWED_KINDS
                                            \/ a.events[i].digests # "well_formed"}
<1>1. Len(a.events) \in Nat /\ a.event_count \in Nat
  BY DEF Package
<1>2. /\ a.event_count = Len(a.events) /\ a.event_count >= 1
           => EventCount(a) = {"MEASUREMENT"}
      /\ EventCount(a) \subseteq {"MEASUREMENT"}
           => a.event_count = Len(a.events) /\ a.event_count >= 1
  <2> DEFINE findings == (IF a.event_count # Len(a.events)
                          THEN {"CONTRADICTION_DETECTED"} ELSE {})
                           \cup (IF a.event_count < 1 THEN {"EVIDENCE_MISSING"} ELSE {})
  <2>1. EventCount(a) = IF findings = {} THEN {"MEASUREMENT"} ELSE findings
    BY DEF EventCount
  <2>2. findings = {} <=> a.event_count = Len(a.events) /\ a.event_count >= 1
    <3>1. a.event_count >= 1 <=> ~(a.event_count < 1)
      BY <1>1
    <3>2. QED
      BY <3>1
  <2>3. "MEASUREMENT" \notin findings
    OBVIOUS
  <2>4. QED
    BY <2>1, <2>2, <2>3
<1>3. /\ REQUIRED_KINDS \subseteq Kinds(a.events) => RequiredKinds(a) = {"MEASUREMENT"}
      /\ RequiredKinds(a) \subseteq {"MEASUREMENT"}
           => REQUIRED_KINDS \subseteq Kinds(a.events)
  BY DEF RequiredKinds
<1>4. odd = {} <=> \A i \in 1..Len(a.events) : /\ a.events[i].kind \in ALLOWED_KINDS
                                                /\ a.events[i].digests = "well_formed"
  OBVIOUS
<1>5. /\ a.declared = a.events /\ odd = {} => DigestsWellFormed(a) = {"MEASUREMENT"}
      /\ DigestsWellFormed(a) \subseteq {"MEASUREMENT"}
           => a.declared = a.events /\ odd = {}
  <2> DEFINE findings == (IF a.declared # a.events THEN {"HASH_MISMATCH"} ELSE {})
                           \cup {"INPUT_SHAPE_INVALID" : i \in odd}
  <2>1. DigestsWellFormed(a) = IF findings = {} THEN {"MEASUREMENT"} ELSE findings
    BY DEF DigestsWellFormed
  <2>2. findings = {} <=> a.declared = a.events /\ odd = {}
    OBVIOUS
  <2>3. "MEASUREMENT" \notin findings
    OBVIOUS
  <2>4. QED
    BY <2>1, <2>2, <2>3
<1> HIDE DEF odd
<1>6. \A check \in Checks :
        CheckFinds(check, a) =
          IF a.shape # "list" THEN {"INPUT_SHAPE_INVALID"}
          ELSE IF check = "agent_wrap.event_count" THEN EventCount(a)
          ELSE IF check = "agent_wrap.required_kinds" THEN RequiredKinds(a)
          ELSE DigestsWellFormed(a)
  BY DEF CheckFinds, Checks
<1>7. QED
  BY <1>2, <1>3, <1>4, <1>5, <1>6 DEF IsBound, Checks

\* A package is admitted exactly if it is bound.
LEMMA AdmissionMeans ==
  ASSUME NEW a \in Package
  PROVE  Admission(a) = "ADMIT" <=> IsBound(a)
<1>1. AgentRunContracts # {}
  BY DEF AgentRunContracts, Checks
<1>2. AgentRunPolicy \in XP!Policy
  BY DEF AgentRunPolicy, XP!Policy
<1>3. Admission(a) = "ADMIT"
        <=> XP!Admissible(a, AgentRunContracts, AgentRunPolicy, Registered)
  BY <1>1, <1>2, SameBoundary, XP!BoundaryEarned, ChecksAssumption
<1>4. /\ \A c \in AgentRunContracts : /\ c.implementation \in Checks
                                      /\ c.check_id = c.implementation
                                      /\ c.pointers = {"artifact"} /\ c.escalate = {}
      /\ \A check \in Checks : \E c \in AgentRunContracts : c.implementation = check
  <2> DEFINE of(check) == [check_id |-> check, implementation |-> check,
                           pointers |-> {"artifact"}, escalate |-> {}]
  <2>1. AgentRunContracts = {of(check) : check \in Checks}
    BY DEF AgentRunContracts
  <2>2. \A check : /\ of(check).implementation = check /\ of(check).check_id = check
                   /\ of(check).pointers = {"artifact"} /\ of(check).escalate = {}
    OBVIOUS
  <2> HIDE DEF of
  <2>3. QED
    BY <2>1, <2>2
<1>5. ASSUME NEW c \in AgentRunContracts
      PROVE  XP!Bears(c, a, Registered, "REVIEW")
               <=> /\ CheckFinds(c.implementation, a) # RunName
                   /\ CheckFinds(c.implementation, a) \subseteq {"MEASUREMENT"}
  <2>1. Registered[c.implementation] = c.implementation /\ c.implementation # NoName
    BY <1>4, ChecksAssumption DEF Registered
  <2>2. c.pointers \subseteq Carries(a)
    BY <1>4 DEF Carries
  <2>3. QED
    BY <2>1, <2>2 DEF XP!Bears, XP!Runs, XP!InfoCodes
<1>6. XP!Admissible(a, AgentRunContracts, AgentRunPolicy, Registered)
        <=> \A check \in Checks : /\ CheckFinds(check, a) # RunName
                                  /\ CheckFinds(check, a) \subseteq {"MEASUREMENT"}
  <2>1. AgentRunPolicy.required = Checks /\ AgentRunPolicy.on_warn = "REVIEW"
    BY DEF AgentRunPolicy
  <2>2. Checks \subseteq XP!Ids(AgentRunContracts)
    BY <1>4 DEF XP!Ids
  <2>3. XP!Admissible(a, AgentRunContracts, AgentRunPolicy, Registered)
          <=> \A c \in AgentRunContracts : XP!Bears(c, a, Registered, "REVIEW")
    BY <2>1, <2>2 DEF XP!Admissible
  <2>4. QED
    BY <1>4, <1>5, <2>3
<1>7. QED
  BY <1>3, <1>6, ChecksMeasure, ChecksAssumption

\* The boundary always decides.
LEMMA AdmissionDecides ==
  ASSUME NEW a
  PROVE  Admission(a) \in {"ADMIT", "REVIEW", "REJECT", "ERROR"}
<1>1. AgentRunPolicy \in XP!Policy
  BY DEF AgentRunPolicy, XP!Policy
<1>2. QED
  BY <1>1, SameBoundary, XP!BoundaryRecords, ChecksAssumption
-----------------------------------------------------------------------------
(* The inductive invariant.                                                *)

\* What each variable may hold.
Typed ==
  /\ pc \in {"idle", "head", "tool", "wrap", "done", "raised"}
  /\ source \in {"none", "plan", "trace"} /\ (source = "none" <=> pc = "idle")
  /\ gate_disabled \in BOOLEAN /\ halted \in BOOLEAN
  /\ plan \in Seq(Item) /\ todo \in Seq(Item)
  /\ effects \in Seq([name : Names, harm : BOOLEAN])
  /\ events \in Seq(AnyEvent)
  /\ package \in Package

\* Where the run stands in its plan: what was done, then what is left.
PlanInv ==
  /\ \A i \in 1..Len(effects) : /\ i <= Len(plan) /\ effects[i] = Effect(plan[i].name)
                                /\ ~gate_disabled => Permitted(plan[i])
  /\ source = "plan" /\ pc # "raised" =>
       /\ Len(plan) = Len(effects) + Len(todo)
       /\ \A i \in 1..Len(todo) : todo[i] = plan[Len(effects) + i]
  /\ pc = "raised" => Len(effects) + Len(todo) <= Len(plan) + 1
  /\ source # "plan" => plan = <<>> /\ todo = <<>> /\ effects = <<>>
  /\ pc \in {"head", "tool"} => source = "plan"
  /\ pc = "tool" => /\ todo # <<>> /\ todo[1].name \in Names
                    /\ ~gate_disabled => Permitted(todo[1])
  /\ halted => pc \in {"wrap", "done"} /\ source = "plan"
  /\ pc \in {"wrap", "done"} /\ source = "plan" =>
       IF halted THEN ~gate_disabled /\ todo # <<>> /\ ~Permitted(todo[1])
       ELSE todo = <<>>

\* The two events that record the i-th effect.
Pair(i) ==
  /\ events[2 * i] = Event(2 * i, "tool_call", effects[i].name, "ok")
  /\ events[2 * i + 1] = Event(2 * i + 1, "tool_result", effects[i].name, "ok")

\* The whole trace of a plan: its start, a pair of events for each effect, and how it
\* goes on from there.
TraceInv ==
  source = "plan" /\ pc # "raised" =>
    LET n == Len(effects) IN
    /\ TraceTellsTheRun
    /\ events[1] = Event(1, "run_start", RunName, "started")
    /\ pc = "tool" => events[2 * n + 2] = Event(2 * n + 2, "tool_call", todo[1].name, "ok")
    /\ pc \in {"wrap", "done"} =>
         IF halted
         THEN /\ events[2 * n + 2] = Event(2 * n + 2, "error", TOOL_GATE_NAME, "halted")
              /\ events[2 * n + 3] = Event(2 * n + 3, "run_end", RunName, "halted")
         ELSE events[2 * n + 2] = Event(2 * n + 2, "run_end", RunName, "succeeded")

\* The admission on record is the boundary's, about the package on record.
VerdictInv == IF pc = "done" THEN admission = Admission(package) ELSE admission = "none"

IInv == Typed /\ PlanInv /\ TraceInv /\ VerdictInv

\* The gate allows a call exactly if it is permitted.
LEMMA GateValue ==
  ASSUME NEW item \in Item
  PROVE  /\ Evaluate(AsCall(item)) \in {"ALLOW", "HALT"}
         /\ Evaluate(AsCall(item)) = "ALLOW" <=> Permitted(item)
  BY ToolGateAssumption DEF Item, Evaluate, AsCall, Permitted

\* The first of the calls left and the rest of them.
LEMMA FirstLeft ==
  ASSUME Typed, todo # <<>>
  PROVE  /\ Head(todo) = todo[1] /\ Head(todo) \in Item /\ Tail(todo) \in Seq(Item)
         /\ Len(todo) \in Nat \ {0} /\ Len(Tail(todo)) = Len(todo) - 1
         /\ \A i \in 1..Len(Tail(todo)) : Tail(todo)[i] = todo[i + 1]
  BY HeadTailProperties, EmptySeq DEF Typed

\* An event is recorded after the others.
LEMMA Recorded ==
  ASSUME Typed, NEW kind \in ALLOWED_KINDS, NEW name \in Names \cup {RunName, TOOL_GATE_NAME},
         NEW status \in {"started", "ok", "error", "halted", "succeeded", "failed"}
  PROVE  /\ Record(kind, name, status) \in Seq(AnyEvent)
         /\ Len(events) \in Nat /\ Len(Record(kind, name, status)) = Len(events) + 1
         /\ \A i \in 1..Len(events) : Record(kind, name, status)[i] = events[i]
         /\ Record(kind, name, status)[Len(events) + 1]
              = Event(Len(events) + 1, kind, name, status)
<1>1. events \in Seq(AnyEvent) /\ Len(events) \in Nat
  BY DEF Typed
<1>2. Event(Len(events) + 1, kind, name, status) \in AnyEvent
  BY <1>1 DEF Event, AnyEvent
<1>3. QED
  BY <1>1, <1>2, AppendProperties DEF Record

LEMMA InitInv == Init => IInv
<1> SUFFICES ASSUME Init PROVE IInv
  OBVIOUS
<1>1. NoPackage \in Package
  BY DEF NoPackage, Package
<1>2. Typed
  <2>1. /\ <<>> \in Seq(Item) /\ <<>> \in Seq(AnyEvent)
        /\ <<>> \in Seq([name : Names, harm : BOOLEAN])
    BY EmptySeq
  <2>2. QED
    BY <1>1, <2>1 DEF Init, Typed
<1>3. PlanInv /\ TraceInv /\ VerdictInv
  BY DEF Init, PlanInv, TraceInv, VerdictInv
<1>4. QED
  BY <1>2, <1>3 DEF IInv

\* A run begins with its whole plan to do and one event.
LEMMA StartPlanInv ==
  ASSUME IInv, NEW p \in Plans, NEW disabled \in BOOLEAN, StartPlan(p, disabled)
  PROVE  IInv'
<1>1. p \in Seq(Item) /\ Len(p) \in Nat
  BY InputAssumption
<1>2. /\ effects = <<>> /\ ~halted /\ source' = "plan" /\ pc' = "head"
      /\ plan' = p /\ todo' = p /\ gate_disabled' = disabled /\ effects' = effects
      /\ UNCHANGED <<halted, package, admission>> /\ admission = "none"
  BY DEF IInv, Typed, PlanInv, VerdictInv, StartPlan
<1>3. events' \in Seq(AnyEvent) /\ Len(events') = 1
      /\ events'[1] = Event(1, "run_start", RunName, "started")
  BY DEF StartPlan, Event, AnyEvent, ALLOWED_KINDS
<1>4. Typed'
  BY <1>1, <1>2, <1>3 DEF IInv, Typed
<1>5. PlanInv'
  BY <1>1, <1>2 DEF PlanInv
<1>6. TraceInv'
  BY <1>2, <1>3 DEF TraceInv, TraceTellsTheRun, Event
<1>7. VerdictInv'
  BY <1>2 DEF VerdictInv
<1>8. QED
  BY <1>4, <1>5, <1>6, <1>7 DEF IInv

\* Numbers without a gap stay so when one more follows.
LEMMA NextNumber ==
  ASSUME NEW m \in Nat, NEW trace, Len(trace) = m + 1,
         \A i \in 1..m : trace[i].seq = i, trace[m + 1].seq = m + 1
  PROVE  \A i \in 1..Len(trace) : trace[i].seq = i
<1>1. \A i \in 1..(m + 1) : i \in 1..m \/ i = m + 1
  OBVIOUS
<1>2. QED
  BY <1>1

\* What the trace says so far is still said when events follow it.
LEMMA TraceKept ==
  ASSUME IInv, source = "plan", pc # "raised", \A i \in 1..Len(events) : events'[i] = events[i]
  PROVE  /\ Len(events) \in Nat /\ Len(effects) \in Nat
         /\ Len(events) >= 1 + 2 * Len(effects)
         /\ pc = "head" => Len(events) = 1 + 2 * Len(effects)
         /\ pc = "tool" => Len(events) = 2 + 2 * Len(effects)
         /\ events'[1] = Event(1, "run_start", RunName, "started")
         /\ \A i \in 1..Len(events) : events'[i].seq = i
         /\ \A i \in 1..Len(effects) :
              /\ events'[2 * i] = Event(2 * i, "tool_call", effects[i].name, "ok")
              /\ events'[2 * i + 1] = Event(2 * i + 1, "tool_result", effects[i].name, "ok")
<1>1. Len(events) \in Nat /\ Len(effects) \in Nat
  BY DEF IInv, Typed
<1>2. TraceTellsTheRun /\ events[1] = Event(1, "run_start", RunName, "started")
  BY DEF IInv, TraceInv
<1>3. /\ pc = "head" => Len(events) = 1 + 2 * Len(effects)
      /\ pc = "tool" => Len(events) = 2 + 2 * Len(effects)
      /\ Len(events) >= 1 + 2 * Len(effects)
  <2>1. pc \in {"head", "tool", "wrap", "done"}
    BY DEF IInv, Typed
  <2>2. QED
    BY <1>1, <1>2, <2>1 DEF TraceTellsTheRun
<1>4. \A i \in 1..Len(events) : events[i].seq = i
  BY <1>2 DEF TraceTellsTheRun
<1>5. \A i \in 1..Len(effects) : 2 * i \in 1..Len(events) /\ 2 * i + 1 \in 1..Len(events)
  BY <1>1, <1>3
<1>6. \A i \in 1..Len(effects) : Pair(i)
  BY <1>2 DEF TraceTellsTheRun, Pair
<1>7. QED
  BY <1>1, <1>2, <1>3, <1>4, <1>5, <1>6 DEF Pair

\* A halt records its two events and leaves the plan where it was.
LEMMA HaltInv == ASSUME IInv, Halt PROVE IInv'
<1>1. /\ pc = "head" /\ todo # <<>> /\ ~gate_disabled /\ pc' = "wrap" /\ halted' = TRUE
      /\ UNCHANGED <<source, plan, todo, gate_disabled, effects, package, admission>>
      /\ source = "plan" /\ ~halted
  BY DEF Halt, IInv, PlanInv
<1>2. ~Permitted(todo[1])
  BY GateValue, FirstLeft DEF Halt, IInv
<1>3. LET first == Record("error", TOOL_GATE_NAME, "halted") IN
      /\ first \in Seq(AnyEvent) /\ Len(events) \in Nat /\ Len(first) = Len(events) + 1
      /\ \A i \in 1..Len(events) : first[i] = events[i]
      /\ first[Len(events) + 1] = Event(Len(events) + 1, "error", TOOL_GATE_NAME, "halted")
  BY Recorded DEF IInv, ALLOWED_KINDS
<1>4. Event(Len(events) + 2, "run_end", RunName, "halted") \in AnyEvent
  BY <1>3 DEF Event, AnyEvent, ALLOWED_KINDS
<1>5. /\ events' \in Seq(AnyEvent) /\ Len(events') = Len(events) + 2
      /\ \A i \in 1..Len(events) : events'[i] = events[i]
      /\ events'[Len(events) + 1]
           = Event(Len(events) + 1, "error", TOOL_GATE_NAME, "halted")
      /\ events'[Len(events) + 2]
           = Event(Len(events) + 2, "run_end", RunName, "halted")
  <2> DEFINE first == Record("error", TOOL_GATE_NAME, "halted")
             last == Event(Len(events) + 2, "run_end", RunName, "halted")
  <2>1. events' = Append(first, last)
    BY DEF Halt
  <2>2. /\ first \in Seq(AnyEvent) /\ last \in AnyEvent /\ Len(events) \in Nat
        /\ Len(first) = Len(events) + 1
        /\ \A i \in 1..Len(events) : first[i] = events[i]
        /\ first[Len(events) + 1]
             = Event(Len(events) + 1, "error", TOOL_GATE_NAME, "halted")
    BY <1>3, <1>4
  <2> HIDE DEF first, last
  <2>3. /\ events' \in Seq(AnyEvent) /\ Len(events') = Len(first) + 1
        /\ \A i \in 1..Len(first) : events'[i] = first[i]
        /\ events'[Len(first) + 1] = last
    BY <2>1, <2>2, AppendProperties
  <2>4. QED
    BY <2>2, <2>3 DEF last
<1>6. Typed'
  BY <1>1, <1>5 DEF IInv, Typed
<1>7. PlanInv'
  BY <1>1, <1>2 DEF IInv, PlanInv
<1>8. TraceInv'
  <2>1. /\ Len(events) = 1 + 2 * Len(effects) /\ Len(effects) \in Nat
        /\ events'[1] = Event(1, "run_start", RunName, "started")
        /\ \A i \in 1..Len(events) : events'[i].seq = i
        /\ \A i \in 1..Len(effects) :
             /\ events'[2 * i] = Event(2 * i, "tool_call", effects[i].name, "ok")
             /\ events'[2 * i + 1] = Event(2 * i + 1, "tool_result", effects[i].name, "ok")
    BY <1>1, <1>5, TraceKept
  <2>2. \A i \in 1..Len(events') : events'[i].seq = i
    <3>1. /\ events'[Len(events) + 1].seq = Len(events) + 1
          /\ events'[Len(events) + 2].seq = Len(events) + 2
      BY <1>5 DEF Event
    <3>2. \A i \in 1..Len(events') : \/ i \in 1..Len(events)
                                     \/ i \in {Len(events) + 1, Len(events) + 2}
      BY <1>3, <1>5
    <3>3. \A i \in 1..Len(events) : events'[i].seq = i
      BY <2>1
    <3>4. QED
      BY <3>1, <3>2, <3>3
  <2>3. TraceTellsTheRun'
    BY <1>1, <1>5, <2>1, <2>2 DEF TraceTellsTheRun
  <2>4. QED
    BY <1>1, <1>5, <2>1, <2>3 DEF TraceInv
<1>9. VerdictInv'
  BY <1>1 DEF IInv, VerdictInv
<1>10. QED
  BY <1>6, <1>7, <1>8, <1>9 DEF IInv

\* A call that can be recorded enters its tool; any other ends in an exception.
LEMMA CallInv == ASSUME IInv, Call PROVE IInv'
<1>1. /\ pc = "head" /\ todo # <<>> /\ source = "plan" /\ ~halted
      /\ UNCHANGED <<source, plan, todo, gate_disabled, effects, halted, package, admission>>
  BY DEF Call, IInv, PlanInv
<1>2. Head(todo) = todo[1] /\ todo[1] \in Item /\ (~gate_disabled => Permitted(todo[1]))
  BY GateValue, FirstLeft DEF Call, IInv
<1>3. VerdictInv' /\ (pc' = "tool" \/ (pc' = "raised" /\ UNCHANGED events))
  BY <1>1 DEF Call, IInv, VerdictInv
<1>4. CASE pc' = "raised" /\ UNCHANGED events
  <2>1. Typed'
    BY <1>1, <1>4 DEF IInv, Typed
  <2>2. PlanInv'
    <3>1. Len(effects) \in Nat /\ Len(todo) \in Nat
      BY DEF IInv, Typed
    <3>2. QED
      BY <1>1, <1>4, <3>1 DEF IInv, PlanInv
  <2>3. TraceInv'
    BY <1>4 DEF TraceInv
  <2>4. QED
    BY <1>3, <2>1, <2>2, <2>3 DEF IInv
<1>5. CASE pc' = "tool"
  <2>1. /\ todo[1].name \in Names
        /\ events' = Record("tool_call", todo[1].name, "ok")
    BY <1>2, <1>5 DEF Call, Item
  <2>2. /\ events' \in Seq(AnyEvent) /\ Len(events) \in Nat /\ Len(events') = Len(events) + 1
        /\ \A i \in 1..Len(events) : events'[i] = events[i]
        /\ events'[Len(events) + 1]
             = Event(Len(events) + 1, "tool_call", todo[1].name, "ok")
    BY <2>1, Recorded DEF IInv, ALLOWED_KINDS
  <2>3. Typed'
    BY <1>1, <1>5, <2>2 DEF IInv, Typed
  <2>4. PlanInv'
    BY <1>1, <1>2, <1>5, <2>1 DEF IInv, PlanInv
  <2>5. TraceInv'
    <3>1. /\ Len(events) = 1 + 2 * Len(effects) /\ Len(effects) \in Nat
          /\ events'[1] = Event(1, "run_start", RunName, "started")
          /\ \A i \in 1..Len(events) : events'[i].seq = i
          /\ \A i \in 1..Len(effects) :
               /\ events'[2 * i] = Event(2 * i, "tool_call", effects[i].name, "ok")
               /\ events'[2 * i + 1] = Event(2 * i + 1, "tool_result", effects[i].name, "ok")
      BY <1>1, <2>2, TraceKept
    <3>2. events'[Len(events) + 1].seq = Len(events) + 1
      BY <2>2 DEF Event
    <3>3. \A i \in 1..Len(events') : events'[i].seq = i
      BY <2>2, <3>1, <3>2, NextNumber
    <3>4. TraceTellsTheRun'
      BY <1>1, <1>5, <2>2, <3>1, <3>3 DEF TraceTellsTheRun
    <3>5. QED
      BY <1>1, <1>5, <2>2, <3>1, <3>4 DEF TraceInv
  <2>6. QED
    BY <1>3, <2>3, <2>4, <2>5 DEF IInv
<1>6. QED
  BY <1>3, <1>4, <1>5

\* What the tool that was entered leaves behind is what the plan asked for next.
LEMMA OneMore ==
  ASSUME IInv, pc = "tool", effects' = Append(effects, Effect(todo[1].name)),
         UNCHANGED <<plan, gate_disabled>>
  PROVE  /\ effects' \in Seq([name : Names, harm : BOOLEAN])
         /\ Len(effects) \in Nat /\ Len(effects') = Len(effects) + 1
         /\ \A i \in 1..Len(effects) : effects'[i] = effects[i]
         /\ effects'[Len(effects) + 1] = Effect(todo[1].name)
         /\ \A i \in 1..Len(effects') :
              /\ i <= Len(plan') /\ effects'[i] = Effect(plan'[i].name)
              /\ ~gate_disabled' => Permitted(plan'[i])
<1>1. effects \in Seq([name : Names, harm : BOOLEAN]) /\ Len(effects) \in Nat
  BY DEF IInv, Typed
<1>2. Effect(todo[1].name) \in [name : Names, harm : BOOLEAN]
  BY ToolGateAssumption DEF IInv, PlanInv, Effect
<1>3. /\ effects' \in Seq([name : Names, harm : BOOLEAN])
      /\ Len(effects') = Len(effects) + 1
      /\ \A i \in 1..Len(effects) : effects'[i] = effects[i]
      /\ effects'[Len(effects) + 1] = Effect(todo[1].name)
  BY <1>1, <1>2, AppendProperties
<1>4. /\ Len(todo) \in Nat \ {0} /\ Len(plan) = Len(effects) + Len(todo)
      /\ \A i \in 1..Len(todo) : todo[i] = plan[Len(effects) + i]
  BY FirstLeft DEF IInv, PlanInv
<1>5. todo[1] = plan[Len(effects) + 1] /\ (~gate_disabled => Permitted(todo[1]))
  BY <1>4 DEF IInv, PlanInv
<1>6. \A i \in 1..Len(effects) :
        /\ i <= Len(plan) /\ effects[i] = Effect(plan[i].name)
        /\ ~gate_disabled => Permitted(plan[i])
  BY DEF IInv, PlanInv
<1>7. ASSUME NEW i \in 1..Len(effects')
      PROVE  /\ i <= Len(plan') /\ effects'[i] = Effect(plan'[i].name)
             /\ ~gate_disabled' => Permitted(plan'[i])
  <2>1. i \in 1..Len(effects) \/ i = Len(effects) + 1
    BY <1>1, <1>3
  <2>2. QED
    BY <1>1, <1>3, <1>4, <1>5, <1>6, <2>1
<1>8. QED
  BY <1>1, <1>3, <1>7

\* A tool that returns has had its effect, and both of its events are recorded.
LEMMA ToolReturnsInv == ASSUME IInv, ToolReturns PROVE IInv'
<1>1. /\ pc = "tool" /\ pc' = "head" /\ source = "plan" /\ todo # <<>> /\ ~halted
      /\ todo' = Tail(todo) /\ todo[1].name \in Names
      /\ UNCHANGED <<source, plan, gate_disabled, halted, package, admission>>
  BY DEF ToolReturns, IInv, PlanInv
<1>2. /\ effects' = Append(effects, Effect(todo[1].name))
      /\ events' = Record("tool_result", todo[1].name, "ok")
  BY <1>1, FirstLeft DEF ToolReturns, IInv
<1>3. /\ events' \in Seq(AnyEvent) /\ Len(events) \in Nat /\ Len(events') = Len(events) + 1
      /\ \A i \in 1..Len(events) : events'[i] = events[i]
      /\ events'[Len(events) + 1] = Event(Len(events) + 1, "tool_result", todo[1].name, "ok")
  BY <1>1, <1>2, Recorded DEF IInv, ALLOWED_KINDS
<1>4. /\ effects' \in Seq([name : Names, harm : BOOLEAN])
      /\ Len(effects) \in Nat /\ Len(effects') = Len(effects) + 1
      /\ \A i \in 1..Len(effects) : effects'[i] = effects[i]
      /\ effects'[Len(effects) + 1] = Effect(todo[1].name)
      /\ \A i \in 1..Len(effects') :
           /\ i <= Len(plan') /\ effects'[i] = Effect(plan'[i].name)
           /\ ~gate_disabled' => Permitted(plan'[i])
  BY <1>1, <1>2, OneMore
<1>5. /\ todo' \in Seq(Item) /\ Len(todo) \in Nat \ {0} /\ Len(todo') = Len(todo) - 1
      /\ \A i \in 1..Len(todo') : todo'[i] = todo[i + 1]
  BY <1>1, FirstLeft DEF IInv
<1>6. Typed'
  BY <1>1, <1>3, <1>4, <1>5 DEF IInv, Typed
<1>7. PlanInv'
  <2>1. /\ Len(plan) = Len(effects) + Len(todo)
        /\ \A i \in 1..Len(todo) : todo[i] = plan[Len(effects) + i]
    BY <1>1 DEF IInv, PlanInv
  <2>2. Len(plan') = Len(effects') + Len(todo')
    BY <1>1, <1>4, <1>5, <2>1
  <2>3. ASSUME NEW i \in 1..Len(todo')
        PROVE  todo'[i] = plan'[Len(effects') + i]
    <3>1. i + 1 \in 1..Len(todo) /\ Len(effects) + (i + 1) = Len(effects') + i
      BY <1>4, <1>5
    <3>2. todo'[i] = todo[i + 1]
      BY <1>5
    <3>3. QED
      BY <1>1, <2>1, <3>1, <3>2
  <2>4. QED
    BY <1>1, <1>4, <2>2, <2>3 DEF PlanInv
<1>8. TraceInv'
  <2>1. /\ Len(events) = 2 + 2 * Len(effects)
        /\ events'[1] = Event(1, "run_start", RunName, "started")
        /\ \A i \in 1..Len(events) : events'[i].seq = i
        /\ \A i \in 1..Len(effects) :
             /\ events'[2 * i] = Event(2 * i, "tool_call", effects[i].name, "ok")
             /\ events'[2 * i + 1] = Event(2 * i + 1, "tool_result", effects[i].name, "ok")
    BY <1>1, <1>3, TraceKept
  <2>2. \A i \in 1..Len(events') : events'[i].seq = i
    <3>1. events'[Len(events) + 1].seq = Len(events) + 1
      BY <1>3 DEF Event
    <3>2. QED
      BY <1>3, <2>1, <3>1, NextNumber
  <2>3. LET k == Len(effects) + 1 IN
        /\ events'[2 * k] = Event(2 * k, "tool_call", effects'[k].name, "ok")
        /\ events'[2 * k + 1] = Event(2 * k + 1, "tool_result", effects'[k].name, "ok")
    <3>1. effects'[Len(effects) + 1].name = todo[1].name
      BY <1>4 DEF Effect
    <3>2. events[2 * Len(effects) + 2]
            = Event(2 * Len(effects) + 2, "tool_call", todo[1].name, "ok")
      BY <1>1 DEF IInv, TraceInv
    <3>3. /\ 2 * (Len(effects) + 1) = 2 * Len(effects) + 2
          /\ 2 * (Len(effects) + 1) \in 1..Len(events)
          /\ 2 * (Len(effects) + 1) + 1 = Len(events) + 1
      BY <1>4, <2>1
    <3>4. QED
      BY <1>3, <3>1, <3>2, <3>3
  <2>4. \A i \in 1..Len(effects') :
          /\ events'[2 * i] = Event(2 * i, "tool_call", effects'[i].name, "ok")
          /\ events'[2 * i + 1] = Event(2 * i + 1, "tool_result", effects'[i].name, "ok")
    <3>1. \A i \in 1..Len(effects') : i \in 1..Len(effects) \/ i = Len(effects) + 1
      BY <1>4
    <3>2. QED
      BY <1>4, <2>1, <2>3, <3>1
  <2>5. Len(events') = 1 + 2 * Len(effects')
    BY <1>3, <1>4, <2>1
  <2>6. TraceTellsTheRun'
    BY <1>1, <2>2, <2>4, <2>5, <1>3, <1>4 DEF TraceTellsTheRun
  <2>7. QED
    BY <1>1, <2>1, <2>6 DEF TraceInv
<1>9. VerdictInv'
  BY <1>1 DEF IInv, VerdictInv
<1>10. QED
  BY <1>6, <1>7, <1>8, <1>9 DEF IInv

\* A tool that raises may have had its effect; the trace is not asked for again.
LEMMA ToolRaisesInv == ASSUME IInv, ToolRaises PROVE IInv'
<1>1. /\ pc = "tool" /\ pc' = "raised" /\ source = "plan" /\ todo # <<>> /\ ~halted
      /\ UNCHANGED <<source, plan, todo, gate_disabled, events, halted, package, admission>>
  BY DEF ToolRaises, IInv, PlanInv
<1>2. /\ Len(effects) \in Nat /\ Len(todo) \in Nat
      /\ Len(plan) = Len(effects) + Len(todo)
  BY <1>1 DEF IInv, Typed, PlanInv
<1>3. /\ effects' \in Seq([name : Names, harm : BOOLEAN])
      /\ Len(effects') \in {Len(effects), Len(effects) + 1}
      /\ \A i \in 1..Len(effects') :
           /\ i <= Len(plan') /\ effects'[i] = Effect(plan'[i].name)
           /\ ~gate_disabled' => Permitted(plan'[i])
  <2>1. CASE effects' = effects
    BY <1>1, <2>1 DEF IInv, Typed, PlanInv
  <2>2. CASE effects' = Append(effects, Effect(todo[1].name))
    BY <1>1, <2>2, OneMore
  <2>3. QED
    BY <1>1, <2>1, <2>2, FirstLeft DEF ToolRaises, IInv
<1>4. Typed'
  BY <1>1, <1>3 DEF IInv, Typed
<1>5. PlanInv'
  <2>1. Len(effects') + Len(todo') <= Len(plan') + 1
    BY <1>1, <1>2, <1>3
  <2>2. QED
    BY <1>1, <1>3, <2>1 DEF PlanInv
<1>6. TraceInv' /\ VerdictInv'
  BY <1>1 DEF IInv, TraceInv, VerdictInv
<1>7. QED
  BY <1>4, <1>5, <1>6 DEF IInv

\* A plan that has run to its end records that it has.
LEMMA FinishInv == ASSUME IInv, Finish PROVE IInv'
<1>1. /\ pc = "head" /\ pc' = "wrap" /\ source = "plan" /\ todo = <<>> /\ ~halted
      /\ UNCHANGED <<source, plan, todo, gate_disabled, effects, halted, package, admission>>
  BY DEF Finish, IInv, PlanInv
<1>2. /\ events' \in Seq(AnyEvent) /\ Len(events) \in Nat /\ Len(events') = Len(events) + 1
      /\ \A i \in 1..Len(events) : events'[i] = events[i]
      /\ events'[Len(events) + 1] = Event(Len(events) + 1, "run_end", RunName, "succeeded")
  BY Recorded DEF Finish, IInv, ALLOWED_KINDS
<1>3. Typed'
  BY <1>1, <1>2 DEF IInv, Typed
<1>4. PlanInv'
  BY <1>1 DEF IInv, PlanInv
<1>5. TraceInv'
  <2>1. /\ Len(events) = 1 + 2 * Len(effects) /\ Len(effects) \in Nat
        /\ events'[1] = Event(1, "run_start", RunName, "started")
        /\ \A i \in 1..Len(events) : events'[i].seq = i
        /\ \A i \in 1..Len(effects) :
             /\ events'[2 * i] = Event(2 * i, "tool_call", effects[i].name, "ok")
             /\ events'[2 * i + 1] = Event(2 * i + 1, "tool_result", effects[i].name, "ok")
    BY <1>1, <1>2, TraceKept
  <2>2. events'[Len(events) + 1].seq = Len(events) + 1
    BY <1>2 DEF Event
  <2>3. \A i \in 1..Len(events') : events'[i].seq = i
    BY <1>2, <2>1, <2>2, NextNumber
  <2>4. TraceTellsTheRun'
    BY <1>1, <1>2, <2>1, <2>3 DEF TraceTellsTheRun
  <2>5. QED
    BY <1>1, <1>2, <2>1, <2>4 DEF TraceInv
<1>6. VerdictInv'
  BY <1>1 DEF IInv, VerdictInv
<1>7. QED
  BY <1>3, <1>4, <1>5, <1>6 DEF IInv

\* An observed trace leaves the plan as empty as it was.
LEMMA ObserveInv == ASSUME IInv, NEW trace \in Traces, Observe(trace) PROVE IInv'
<1>1. /\ pc = "idle" /\ source = "none" /\ source' = "trace" /\ pc' \in {"wrap", "raised"}
      /\ ~halted /\ admission = "none" /\ events' \in Seq(AnyEvent)
      /\ UNCHANGED <<plan, todo, gate_disabled, effects, halted, package, admission>>
  BY InputAssumption DEF Observe, IInv, Typed, PlanInv, VerdictInv
<1>2. plan = <<>> /\ todo = <<>> /\ effects = <<>>
  BY <1>1 DEF IInv, PlanInv
<1>3. Typed'
  BY <1>1 DEF IInv, Typed
<1>4. PlanInv'
  BY <1>1, <1>2 DEF IInv, PlanInv
<1>5. TraceInv' /\ VerdictInv'
  BY <1>1 DEF TraceInv, VerdictInv
<1>6. QED
  BY <1>3, <1>4, <1>5 DEF IInv

\* The run-artifact of a trace is a package.
LEMMA RunArtifactIsPackage ==
  ASSUME NEW trace \in Seq(AnyEvent) PROVE RunArtifact(trace) \in Package
  BY DEF RunArtifact, Package, Outcome

\* The boundary is asked about the package that is kept.
LEMMA WrapInv == ASSUME IInv, Wrap PROVE IInv'
<1>1. /\ pc = "wrap" /\ pc' = "done" /\ admission' = Admission(package')
      /\ UNCHANGED <<source, plan, todo, gate_disabled, events, effects, halted>>
  BY DEF Wrap
<1>2. package' \in Package
  <2>1. PICK outcome \in {Outcome(events), "succeeded", "failed"} :
          package' = [RunArtifact(events) EXCEPT !.outcome = outcome]
    BY DEF Wrap
  <2>2. outcome \in {"succeeded", "failed"}
    BY DEF Outcome
  <2>3. RunArtifact(events) \in Package
    BY RunArtifactIsPackage DEF IInv, Typed
  <2>4. QED
    BY <2>1, <2>2, <2>3 DEF Package
<1>3. Typed'
  BY <1>1, <1>2 DEF IInv, Typed
<1>4. PlanInv'
  BY <1>1 DEF IInv, PlanInv
<1>5. TraceInv'
  BY <1>1 DEF IInv, TraceInv, TraceTellsTheRun
<1>6. VerdictInv'
  BY <1>1 DEF VerdictInv
<1>7. QED
  BY <1>3, <1>4, <1>5, <1>6 DEF IInv

\* An edited package is one that may be submitted.
LEMMA EditsArePackages ==
  ASSUME NEW a \in Package, NEW b \in Edits(a) PROVE b \in Package
<1>1. CASE b \in {[a EXCEPT !.shape = "other"], [a EXCEPT !.event_count = a.event_count + 1],
                  [a EXCEPT !.outcome = "succeeded"]}
  BY <1>1 DEF Package
<1>2. ASSUME NEW trace \in Traces,
             b \in {[a EXCEPT !.events = trace, !.event_count = Len(trace)],
                    [a EXCEPT !.events = trace, !.event_count = Len(trace),
                              !.declared = trace]}
      PROVE  b \in Package
  <2>1. trace \in Seq(AnyEvent) /\ Len(trace) \in Nat
    BY InputAssumption
  <2>2. QED
    BY <1>2, <2>1 DEF Package
<1>3. QED
  BY <1>1, <1>2 DEF Edits

\* The same after an edit.
LEMMA ResubmitInv ==
  ASSUME IInv, NEW a \in Edits(RunArtifact(events)), Resubmit(a)
  PROVE  IInv'
<1>1. /\ pc = "done" /\ package' = a /\ admission' = Admission(a)
      /\ UNCHANGED <<pc, source, plan, todo, gate_disabled, events, effects, halted>>
  BY DEF Resubmit
<1>2. a \in Package
  BY RunArtifactIsPackage, EditsArePackages DEF IInv, Typed
<1>3. Typed'
  BY <1>1, <1>2 DEF IInv, Typed
<1>4. PlanInv'
  BY <1>1 DEF IInv, PlanInv
<1>5. TraceInv'
  BY <1>1 DEF IInv, TraceInv, TraceTellsTheRun
<1>6. VerdictInv'
  BY <1>1 DEF VerdictInv
<1>7. QED
  BY <1>3, <1>4, <1>5, <1>6 DEF IInv

LEMMA StepInv == ASSUME IInv, [Next]_vars PROVE IInv'
<1>1. CASE UNCHANGED vars
  BY <1>1 DEF vars, IInv, Typed, PlanInv, TraceInv, TraceTellsTheRun, VerdictInv
<1>2. CASE Next
  <2>1. ASSUME NEW p \in Plans, NEW disabled \in BOOLEAN, StartPlan(p, disabled)
        PROVE  IInv'
    BY <2>1, StartPlanInv
  <2>2. ASSUME NEW trace \in Traces, Observe(trace) PROVE IInv'
    BY <2>2, ObserveInv
  <2>3. CASE Step
    BY <2>3, HaltInv, CallInv, ToolReturnsInv, ToolRaisesInv, FinishInv, WrapInv
       DEF Step
  <2>4. ASSUME NEW a \in Edits(RunArtifact(events)), Resubmit(a) PROVE IInv'
    BY <2>4, ResubmitInv
  <2>5. QED
    BY <1>2, <2>1, <2>2, <2>3, <2>4 DEF Next
<1>3. QED
  BY <1>1, <1>2

\* The invariant holds in every reachable state.
THEOREM InductiveInvariant == Spec => []IInv
<1>1. IInv /\ [Next]_vars => IInv'
  BY StepInv
<1>2. QED
  BY <1>1, InitInv, PTL DEF Spec
-----------------------------------------------------------------------------
(* The theorems.                                                           *)

\* Every variable keeps its type, whatever the plan (plan.py, wrap.py).
THEOREM TypeCorrect == Spec => []TypeOK
<1>1. IInv => TypeOK
  <2> SUFFICES ASSUME IInv PROVE TypeOK
    OBVIOUS
  <2>1. admission \in {"none", "ADMIT", "REVIEW", "REJECT", "ERROR"}
    BY AdmissionDecides DEF IInv, VerdictInv
  <2>2. Len(effects) + Len(todo) <= Len(plan) + (IF pc = "raised" THEN 1 ELSE 0)
    <3>1. Len(effects) \in Nat /\ Len(todo) \in Nat /\ Len(plan) \in Nat
      BY DEF IInv, Typed
    <3>2. CASE pc = "raised"
      BY <3>1, <3>2 DEF IInv, PlanInv
    <3>3. CASE pc # "raised" /\ source = "plan"
      BY <3>1, <3>3 DEF IInv, PlanInv
    <3>4. CASE pc # "raised" /\ source # "plan"
      BY <3>1, <3>4 DEF IInv, PlanInv
    <3>5. QED
      BY <3>2, <3>3, <3>4
  <2>3. QED
    BY <2>1, <2>2 DEF IInv, Typed, PlanInv, TypeOK
<1>2. QED
  BY <1>1, InductiveInvariant, PTL

\* With the gate on, whatever was planned, tools do what the plan asks for up to the
\* first call that is not permitted, and nothing after (gate.py, plan.py).
THEOREM EffectsBounded == Spec => []EffectsFollowThePlan
<1>1. IInv => EffectsFollowThePlan
  <2> SUFFICES ASSUME IInv, ~gate_disabled PROVE EffectsFollowThePlan
    BY DEF EffectsFollowThePlan
  <2>1. \A i \in 1..Len(effects) : /\ i <= Len(plan) /\ effects[i] = Effect(plan[i].name)
                                   /\ Permitted(plan[i])
    BY DEF IInv, PlanInv
  <2>2. Len(effects) \in Nat /\ Len(todo) \in Nat /\ Len(plan) \in Nat
    BY DEF IInv, Typed
  <2>3. ASSUME NEW i \in 1..Len(effects)
        PROVE  effects[i] = Effect(plan[i].name) /\ \A j \in 1..i : Permitted(plan[j])
    BY <2>1, <2>2
  <2>4. ASSUME pc \in {"wrap", "done"}, source = "plan"
        PROVE  /\ halted <=> \E i \in 1..Len(plan) : ~Permitted(plan[i])
               /\ halted => ~Permitted(plan[Len(effects) + 1])
               /\ ~halted => Len(effects) = Len(plan)
    <3>1. /\ Len(plan) = Len(effects) + Len(todo)
          /\ \A i \in 1..Len(todo) : todo[i] = plan[Len(effects) + i]
          /\ IF halted THEN todo # <<>> /\ ~Permitted(todo[1]) ELSE todo = <<>>
      BY <2>4 DEF IInv, PlanInv
    <3>2. CASE halted
      <4>1. Len(todo) \in Nat \ {0}
        BY <3>1, <3>2, FirstLeft DEF IInv
      <4>2. ~Permitted(plan[Len(effects) + 1]) /\ Len(effects) + 1 \in 1..Len(plan)
        BY <2>2, <3>1, <3>2, <4>1
      <4>3. QED
        BY <3>2, <4>2
    <3>3. CASE ~halted
      <4>1. Len(effects) = Len(plan)
        BY <2>2, <3>1, <3>3
      <4>2. QED
        BY <2>1, <3>3, <4>1
    <3>4. QED
      BY <3>2, <3>3 DEF IInv, Typed
  <2>5. QED
    BY <2>3, <2>4 DEF EffectsFollowThePlan
<1>2. QED
  BY <1>1, InductiveInvariant, PTL

\* The trace of a plan accounts for its effects and nothing else (plan.py).
THEOREM TraceTells == Spec => []TraceTellsTheRun
<1>1. IInv => TraceTellsTheRun
  BY DEF IInv, TraceInv, TraceTellsTheRun
<1>2. QED
  BY <1>1, InductiveInvariant, PTL

\* What is admitted is bound to its record, however it was edited (checks.py).
THEOREM AdmissionBound == Spec => []AdmittedIsBound
<1>1. IInv => AdmittedIsBound
  BY AdmissionMeans DEF IInv, Typed, VerdictInv, AdmittedIsBound, IsBound
<1>2. QED
  BY <1>1, InductiveInvariant, PTL

\* What the events of a finished plan are: its first one, those of its effects, and
\* its end.
LEMMA EventsOfPlan ==
  ASSUME IInv, pc = "done", source = "plan"
  PROVE  LET n == Len(effects)
             call(j) == Event(2 * j, "tool_call", effects[j].name, "ok")
             result(j) == Event(2 * j + 1, "tool_result", effects[j].name, "ok")
             halt == Event(2 * n + 2, "error", TOOL_GATE_NAME, "halted")
             end(m) == Event(m, "run_end", RunName, IF halted THEN "halted" ELSE "succeeded")
         IN  /\ n \in Nat /\ Len(events) = (IF halted THEN 2 * n + 3 ELSE 2 * n + 2)
             /\ events[1] = Event(1, "run_start", RunName, "started")
             /\ \A j \in 1..n : events[2 * j] = call(j) /\ events[2 * j + 1] = result(j)
             /\ events[Len(events)] = end(Len(events))
             /\ halted => events[2 * n + 2] = halt
             /\ \A i \in 1..Len(events) :
                  \/ i = 1 \/ i = Len(events) \/ (halted /\ i = 2 * n + 2)
                  \/ \E j \in 1..n : i = 2 * j \/ i = 2 * j + 1
<1> DEFINE n == Len(effects)
<1>1. n \in Nat
  BY DEF IInv, Typed
<1>2. Len(events) = IF halted THEN 2 * n + 3 ELSE 2 * n + 2
  BY <1>1 DEF IInv, TraceInv, TraceTellsTheRun
<1>3. /\ events[1] = Event(1, "run_start", RunName, "started")
      /\ events[Len(events)]
           = Event(Len(events), "run_end", RunName, IF halted THEN "halted" ELSE "succeeded")
      /\ halted => events[2 * n + 2] = Event(2 * n + 2, "error", TOOL_GATE_NAME, "halted")
  BY <1>2 DEF IInv, TraceInv
<1>4. \A j \in 1..n : Pair(j)
  BY DEF IInv, TraceInv, TraceTellsTheRun, Pair
<1>5. ASSUME NEW i \in 1..Len(events)
      PROVE  \/ i = 1 \/ i = Len(events) \/ (halted /\ i = 2 * n + 2)
             \/ \E j \in 1..n : i = 2 * j \/ i = 2 * j + 1
  <2>1. PICK j \in Nat : i = 2 * j \/ i = 2 * j + 1
    <3>1. i \div 2 \in Nat /\ (i = 2 * (i \div 2) \/ i = 2 * (i \div 2) + 1)
      BY <1>1, <1>2
    <3>2. QED
      BY <3>1
  <2>2. j \in 1..n \/ j = 0 \/ j = n + 1
    BY <1>1, <1>2, <2>1
  <2>3. QED
    BY <1>1, <1>2, <2>1, <2>2
<1>6. QED
  BY <1>1, <1>2, <1>3, <1>4, <1>5 DEF Pair

\* The package of a plan says failed exactly if the plan was halted, and is admitted
\* exactly if some tool ran, for every plan (artifact.py, checks.py).
THEOREM PackageTells == Spec => []PackageTellsTheRun
<1>1. IInv => PackageTellsTheRun
  <2> SUFFICES ASSUME IInv, pc = "done", source = "plan", package = RunArtifact(events)
               PROVE  /\ package.outcome = "failed" <=> halted
                      /\ admission = "ADMIT" <=> effects # <<>>
    BY DEF PackageTellsTheRun
  <2> DEFINE n == Len(effects)
  <2>1. /\ n \in Nat /\ Len(events) = IF halted THEN 2 * n + 3 ELSE 2 * n + 2
        /\ events[1].kind = "run_start" /\ events[1].status = "started"
        /\ \A j \in 1..n : /\ events[2 * j].kind = "tool_call"
                           /\ events[2 * j].status = "ok"
                           /\ events[2 * j + 1].kind = "tool_result"
                           /\ events[2 * j + 1].status = "ok"
        /\ events[Len(events)].kind = "run_end"
        /\ events[Len(events)].status \in {"halted", "succeeded"}
        /\ halted => events[2 * n + 2].kind = "error" /\ events[2 * n + 2].status = "halted"
    <3>1. \A seq, kind, name, status : /\ Event(seq, kind, name, status).kind = kind
                                       /\ Event(seq, kind, name, status).status = status
      BY DEF Event
    <3>2. /\ n \in Nat /\ Len(events) = IF halted THEN 2 * n + 3 ELSE 2 * n + 2
          /\ events[1] = Event(1, "run_start", RunName, "started")
          /\ events[Len(events)] = Event(Len(events), "run_end", RunName,
                                         IF halted THEN "halted" ELSE "succeeded")
          /\ halted => events[2 * n + 2]
                         = Event(2 * n + 2, "error", TOOL_GATE_NAME, "halted")
      BY EventsOfPlan
    <3>3. ASSUME NEW j \in 1..n
          PROVE  /\ events[2 * j] = Event(2 * j, "tool_call", effects[j].name, "ok")
                 /\ events[2 * j + 1]
                      = Event(2 * j + 1, "tool_result", effects[j].name, "ok")
      BY EventsOfPlan
    <3>4. QED
      BY <3>1, <3>2, <3>3
  <2>2. \A i \in 1..Len(events) : \/ i = 1 \/ i = Len(events) \/ (halted /\ i = 2 * n + 2)
                                  \/ \E j \in 1..n : i = 2 * j \/ i = 2 * j + 1
    BY EventsOfPlan
  <2>3. package.outcome = "failed" <=> halted
    <3>1. package.outcome = Outcome(events)
      BY DEF RunArtifact
    <3>2. CASE halted
      <4>1. 2 * n + 2 \in 1..Len(events) /\ events[2 * n + 2].kind = "error"
        BY <2>1, <3>2
      <4>2. QED
        BY <3>1, <3>2, <4>1 DEF Outcome
    <3>3. CASE ~halted
      <4>1. \A i \in 1..Len(events) : events[i].kind # "error" /\ events[i].status # "error"
        BY <2>1, <2>2, <3>3
      <4>2. QED
        BY <3>1, <3>3, <4>1 DEF Outcome
    <3>4. QED
      BY <3>2, <3>3
  <2>4. admission = "ADMIT" <=> IsBound(package)
    BY AdmissionMeans DEF IInv, Typed, VerdictInv
  <2>5. \A i \in 1..Len(events) : events[i].kind \in ALLOWED_KINDS
    <3>1. \A i \in 1..Len(events) :
            events[i].kind \in {"run_start", "tool_call", "tool_result", "run_end", "error"}
      BY <2>1, <2>2
    <3>2. QED
      BY <3>1 DEF ALLOWED_KINDS
  <2>6. \A i \in 1..Len(events) : events[i].digests = "well_formed"
    <3>1. \A seq, kind, name, status : Event(seq, kind, name, status).digests = "well_formed"
      BY DEF Event
    <3>2. /\ events[1].digests = "well_formed" /\ events[Len(events)].digests = "well_formed"
          /\ halted => events[2 * n + 2].digests = "well_formed"
          /\ \A j \in 1..n : /\ events[2 * j].digests = "well_formed"
                             /\ events[2 * j + 1].digests = "well_formed"
      BY <3>1, EventsOfPlan
    <3>3. QED
      BY <2>2, <3>2
  <2>7. REQUIRED_KINDS \subseteq Kinds(events) <=> n # 0
    <3>1. CASE n # 0
      <4>1. /\ 1 \in 1..Len(events) /\ 2 \in 1..Len(events) /\ 3 \in 1..Len(events)
            /\ Len(events) \in 1..Len(events) /\ 1 \in 1..n
        BY <2>1, <3>1
      <4>2. /\ events[1].kind = "run_start" /\ events[2].kind = "tool_call"
            /\ events[3].kind = "tool_result" /\ events[Len(events)].kind = "run_end"
        <5>1. 2 * 1 = 2 /\ 2 * 1 + 1 = 3
          OBVIOUS
        <5>2. QED
          BY <2>1, <4>1, <5>1
      <4>3. QED
        BY <3>1, <4>1, <4>2 DEF REQUIRED_KINDS, Kinds
    <3>2. CASE n = 0
      <4>1. \A i \in 1..Len(events) : events[i].kind \in {"run_start", "run_end", "error"}
        BY <2>1, <2>2, <3>2
      <4>2. "tool_call" \notin Kinds(events)
        BY <4>1 DEF Kinds
      <4>3. QED
        BY <3>2, <4>2 DEF REQUIRED_KINDS
    <3>3. QED
      BY <3>1, <3>2
  <2>8. IsBound(package) <=> n # 0
    <3>1. /\ package.shape = "list" /\ package.declared = events
          /\ package.events = events /\ package.event_count = Len(events)
      BY DEF RunArtifact
    <3>2. Len(events) >= 1
      BY <2>1
    <3>3. QED
      BY <2>5, <2>6, <2>7, <3>1, <3>2 DEF IsBound
  <2>9. n = 0 <=> effects = <<>>
    BY EmptySeq DEF IInv, Typed
  <2> HIDE DEF n
  <2>10. QED
    BY <2>3, <2>4, <2>8, <2>9
<1>2. QED
  BY <1>1, InductiveInvariant, PTL

-----------------------------------------------------------------------------
(* Termination.                                                            *)

\* How many steps a run can still make: two for each call that is left, of which the
\* gate has made one, one to finish and one to package the trace.
StepsLeft == CASE pc = "head" -> 2 * Len(todo) + 2
               [] pc = "tool" -> 2 * Len(todo) + 1
               [] pc = "wrap" -> 1
               [] pc \in {"idle", "done", "raised"} -> 0

LEMMA StepsLeftValue ==
  ASSUME IInv
  PROVE  /\ Len(todo) \in Nat /\ Len(plan) \in Nat
         /\ StepsLeft \in 0..(2 * Len(plan) + 2)
         /\ pc \in {"idle", "done", "raised"} <=> StepsLeft = 0
<1>1. /\ pc \in {"idle", "head", "tool", "wrap", "done", "raised"}
      /\ Len(todo) \in Nat /\ Len(plan) \in Nat /\ Len(effects) \in Nat
  BY DEF IInv, Typed
<1>2. pc \in {"head", "tool"} => Len(todo) <= Len(plan)
  BY <1>1 DEF IInv, PlanInv
<1>3. CASE pc = "head"
  BY <1>1, <1>2, <1>3 DEF StepsLeft
<1>4. CASE pc = "tool"
  BY <1>1, <1>2, <1>4 DEF StepsLeft
<1>5. CASE pc \notin {"head", "tool"}
  BY <1>1, <1>5 DEF StepsLeft
<1> QED BY <1>1, <1>3, <1>4, <1>5

\* Every step of a run is one less to go, whatever the gate says and the tools do.
LEMMA StepCountsDown ==
  ASSUME IInv, Step
  PROVE  StepsLeft' < StepsLeft
<1>1. /\ Len(todo) \in Nat /\ Typed
      /\ todo # <<>> => Len(Tail(todo)) = Len(todo) - 1
  BY StepsLeftValue, FirstLeft DEF IInv
<1>2. CASE Halt \/ Finish
  <2>1. pc = "head" /\ pc' = "wrap"
    BY <1>2 DEF Halt, Finish
  <2> QED BY <1>1, <2>1 DEF StepsLeft
<1>3. CASE Call
  <2>1. pc = "head" /\ pc' \in {"tool", "raised"} /\ todo' = todo
    BY <1>3 DEF Call
  <2> QED BY <1>1, <2>1 DEF StepsLeft
<1>4. CASE ToolReturns
  <2>1. pc = "tool" /\ pc' = "head" /\ todo' = Tail(todo) /\ todo # <<>>
    BY <1>4 DEF ToolReturns, IInv, PlanInv, Typed
  <2>2. Len(todo') = Len(todo) - 1
    BY <1>1, <2>1
  <2> QED BY <1>1, <2>1, <2>2 DEF StepsLeft
<1>5. CASE ToolRaises
  <2>1. pc = "tool" /\ pc' = "raised"
    BY <1>5 DEF ToolRaises
  <2> QED BY <1>1, <2>1 DEF StepsLeft
<1>6. CASE Wrap
  <2>1. pc = "wrap" /\ pc' = "done"
    BY <1>6 DEF Wrap
  <2> QED BY <2>1 DEF StepsLeft
<1> QED BY <1>2, <1>3, <1>4, <1>5, <1>6 DEF Step

\* What RunsEnd rests on besides fairness, for every plan: a run takes at most two
\* steps for each call of its plan and two more, and nothing gives it more once it
\* has been started (gate.py, plan.py execute_plan, wrap.py).
THEOREM RunsAreBounded ==
  Spec => /\ [](StepsLeft \in 0..(2 * Len(plan) + 2))
          /\ [][/\ Step => StepsLeft' < StepsLeft
                /\ StepsLeft' > StepsLeft => pc = "idle"]_vars
<1> DEFINE Bound == Len(plan) \in Nat /\ StepsLeft \in 0..(2 * Len(plan) + 2)
<1>1. IInv => Bound
  BY StepsLeftValue
<1>2. ASSUME IInv, Bound, Bound', [Next]_vars
      PROVE  [/\ Step => StepsLeft' < StepsLeft
              /\ StepsLeft' > StepsLeft => pc = "idle"]_vars
  <2> USE <1>2
  <2>1. StepsLeft \in Int /\ StepsLeft' \in Int
    OBVIOUS
  <2>2. CASE Step
    BY <2>1, <2>2, StepCountsDown
  <2>3. ASSUME ~Step, Next, StepsLeft' > StepsLeft PROVE pc = "idle"
    <3>1. ASSUME NEW a \in Edits(RunArtifact(events)), Resubmit(a) PROVE FALSE
      <4>1. StepsLeft' = StepsLeft
        BY <3>1 DEF Resubmit, StepsLeft
      <4> QED BY <2>1, <2>3, <4>1
    <3> QED BY <2>3, <3>1 DEF Next, StartPlan, Observe
  <2>4. CASE UNCHANGED vars
    BY <2>4
  <2> QED BY <2>2, <2>3, <2>4
<1>3. Bound => StepsLeft \in 0..(2 * Len(plan) + 2)
  OBVIOUS
<1> HIDE DEF Bound
<1> QED BY <1>1, <1>2, <1>3, InductiveInvariant, PTL DEF Spec
=============================================================================
