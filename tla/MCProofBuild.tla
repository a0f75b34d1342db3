---------------------------- MODULE MCProofBuild ----------------------------
(***************************************************************************)
(* Demo specs and their files as they may be found: a good pair of arms    *)
(* and every combination of a few defects in the spec, the fixture, either *)
(* recording and the policy.  TRUE and 1 are alike but differ as JSON.     *)
(***************************************************************************)
EXTENDS ProofBuild

\* Marks: a host name, a key, a mail address that has the host name in it, which cut
\* leaves its name, and the label of a mask; an unbounded phrase; the statement of the
\* fixture's gap.
MCLexicon == {"guaranteed"}
MCKeys == {"capability", "prompt"}
MCAlike(v, w) == v = w \/ {v, w} = {"true", "1"}

Config(capability, prompt) ==
  [key \in MCKeys |-> IF key = "capability" THEN capability ELSE prompt]

Claims(claims) == [n \in {0} |-> claims]
Claim(named, scoped, refs) == [named |-> named, scoped |-> scoped, refs |-> refs]

\* A recording with three steps, the given statement and limitations.
Doc(statement, limitations, steps) ==
  [p \in {<<"claim", 0>>} \cup {<<"limitation", l>> : l \in DOMAIN limitations}
           \cup {<<"step", n>> : n \in steps} |->
     CASE p[1] = "claim" -> statement
       [] p[1] = "limitation" -> limitations[p[2]]
       [] p[1] = "step" -> IF p[2] = 0 THEN {"host"} ELSE {}]

ThreeSteps == 0..2
NoLimitations == [l \in {} |-> {}]
OneLimitation(marks) == [l \in {0} |-> marks]

Recording(arm, config, claim, doc) ==
  [intact |-> TRUE, arm_id |-> arm, enabled |-> arm = "augmented", model |-> "m1",
   tools |-> "t1", config |-> config, claims |-> Claims(claim), doc |-> doc]

GoodBaseline ==
  Recording("baseline", Config("false", "p"), Claim(TRUE, FALSE, {}),
            Doc({"guaranteed"}, NoLimitations, ThreeSteps))
GoodAugmented ==
  Recording("augmented", Config("true", "p"), Claim(TRUE, TRUE, {0}),
            Doc({}, OneLimitation({"gap"}), ThreeSteps))

Baselines ==
  {GoodBaseline,
   [GoodBaseline EXCEPT !.arm_id = "augmented"],
   [GoodBaseline EXCEPT !.model = "m2"],
   [GoodBaseline EXCEPT !.config = Config("false", Absent), !.doc[<<"claim", 0>>] = {"key"}],
   [GoodBaseline EXCEPT !.config = Config("1", Null)],
   [GoodBaseline EXCEPT !.claims = Claims(Claim(TRUE, TRUE, {0})),
                        !.doc = Doc({}, OneLimitation({"gap", "host"}), ThreeSteps)]}

Augmenteds ==
  {GoodAugmented,
   [GoodAugmented EXCEPT !.intact = FALSE],
   [GoodAugmented EXCEPT !.model = "m2", !.tools = "t2"],
   [GoodAugmented EXCEPT !.config = Config("1", "p")],
   [GoodAugmented EXCEPT !.claims = Claims(Claim(FALSE, TRUE, {0, 5})),
                         !.doc = Doc({"host"}, OneLimitation({"gap"}), {0})],
   [GoodAugmented EXCEPT !.doc = Doc({"mail"}, OneLimitation({"host"}), ThreeSteps)],
   [GoodAugmented EXCEPT !.doc = Doc({"key"}, OneLimitation({"host"}), {})]}

TheSpec ==
  [arm_ids |-> [arm \in Arms |-> arm], fixture_id |-> "f1", claim |-> {}, labels |-> {},
   title |-> {}, description |-> {}, not_claimed |-> {"gap"},
   variable |-> [name |-> "capability", baseline |-> "false", augmented |-> "true"],
   model |-> "m1", tools |-> "t1",
   config |-> [arm \in Arms |-> Config(IF arm = "baseline" THEN "false" ELSE "true", "p")]]

Specs ==
  {TheSpec,
   [TheSpec EXCEPT !.variable.augmented = "1"],
   [TheSpec EXCEPT !.variable.augmented = "2"],
   [TheSpec EXCEPT !.variable.baseline = "1"],
   [TheSpec EXCEPT !.claim = {"key"}, !.config["augmented"] = Config("1", "p")],
   [TheSpec EXCEPT !.title = {"key"}, !.description = {"host"}],
   [TheSpec EXCEPT !.labels = {"host"}, !.not_claimed = {"guaranteed"}],
   [TheSpec EXCEPT !.arm_ids = [arm \in Arms |-> "baseline"]]}

\* Two pieces of evidence; of one of them the detail has a key.
TheFixture ==
  [fixture_id |-> "f1", gaps |-> {"gap"},
   doc |-> [p \in {"summary", "detail"} \X {0, 1} |->
              IF p = <<"detail", 0>> THEN {"key"}
              ELSE IF p = <<"summary", 0>> THEN {"host"} ELSE {}]]

Fixtures ==
  {TheFixture,
   [TheFixture EXCEPT !.fixture_id = "f2"],
   [TheFixture EXCEPT !.fixture_id = Absent, !.gaps = {"gap", "host"}],
   [TheFixture EXCEPT !.doc = [p \in {} |-> {}]]}

\* A regex leaves in the place of a match nothing that a rule finds, if not said otherwise.
Regex(id, finds, required) ==
  [rule_id |-> id, kind |-> "regex", action |-> "mask", finds |-> finds,
   rests |-> [mark \in finds |-> {}], at |-> <<>>, label |-> {}, required_hits |-> required]
Pointer(id, action, at, required) ==
  [rule_id |-> id, kind |-> "pointer", action |-> action, finds |-> {},
   rests |-> [mark \in {} |-> {}], at |-> at, label |-> {}, required_hits |-> required]

Details == Pointer("details", "drop", <<"evidence", Every, "detail">>, 1)
First(id) == Pointer(id, "drop", <<"evidence", 0>>, 1)
Hosts == [Regex("hosts", {"host", "mail"}, 1) EXCEPT !.rests["mail"] = {"name"}]
Mails(required) == Regex("mails", {"mail"}, required)

PolicyOf(rules) == [rules |-> rules, deny |-> {"host", "key", "mail"}]
ThePolicy == PolicyOf(<<Hosts, Details>>)

Policies ==
  {ThePolicy,
   \* the host name is cut out of the address that the next rule looks for
   PolicyOf(<<Hosts, Mails(1), Details>>),
   PolicyOf(<<Mails(0), Hosts, Details, Regex("keys", {"key"}, 1)>>),
   \* the first position is another one after each drop
   PolicyOf(<<First("first"), First("second"), First("third")>>),
   PolicyOf(<<Hosts, Pointer("second", "drop", <<"evidence", 1>>, 1), Details>>),
   \* a masked text is matched by its label, a masked object has nothing in it
   PolicyOf(<<[Pointer("texts", "mask", <<"arms", "baseline", "transcript", 0, "text">>, 1)
                EXCEPT !.label = {"label"}],
              [Regex("labels", {"label", "host"}, 2) EXCEPT !.rests["label"] = {"label"}],
              Details>>),
   PolicyOf(<<Pointer("items", "mask", <<"evidence", Every>>, 1), Details>>),
   PolicyOf(<<Pointer("outputs", "mask", <<"arms", Every, "output">>, 1),
              Pointer("claims", "mask", <<"arms", Every, "output", "claims", Every>>, 0)>>),
   \* the documents of the second arm alone are no object any more
   PolicyOf(<<Pointer("arm", "mask", <<"arms", "augmented">>, 1), Hosts>>),
   PolicyOf(<<Hosts, Pointer("statements", "drop",
                             <<"arms", "augmented", "output", "claims", 0, "statement">>, 1)>>),
   PolicyOf(<<[Hosts EXCEPT !.action = "drop"]>>)}

MCInputs ==
  [present : {TRUE}, spec : Specs, fixture : Fixtures, policy : Policies,
   recordings : {[arm \in Arms |-> IF arm = "baseline" THEN b ELSE a] :
                   b \in Baselines, a \in Augmenteds}]
    \cup {[present |-> FALSE, spec |-> TheSpec, fixture |-> TheFixture, policy |-> ThePolicy,
           recordings |-> [arm \in Arms |-> IF arm = "baseline" THEN GoodBaseline
                                            ELSE GoodAugmented]]}
=============================================================================
