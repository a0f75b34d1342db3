-------------------------- MODULE ProofBuild_proofs --------------------------
(***************************************************************************)
(* Proofs about ProofBuild, for every set of specs, fixtures, policies and *)
(* recordings: the redaction is exact, a build succeeds exactly if the     *)
(* recordings support the claim, a refused package names each of its       *)
(* defects, and what is published rests on the evidence.                   *)
(*                                                                         *)
(* An invariant says at which stage the build is, that every stage before  *)
(* it was passed, what it has left behind and what it is bound to end in.  *)
(* The rest is about functions of the input: what a policy leaves, what    *)
(* the two suites find in what is left and what their receipts say of it.  *)
(***************************************************************************)
EXTENDS ProofBuild, WellFoundedInduction, SequenceTheorems, FiniteSetTheorems,
        FunctionTheorems, TLAPS

-----------------------------------------------------------------------------
(* Numbers.                                                                *)

\* A set of numbers that is not empty has a least one.
LEMMA LeastNumber ==
  ASSUME NEW T \in SUBSET Nat, T # {}
  PROVE  \E x \in T : \A y \in T : ~(y < x)
<1>1. PICK R : R = OpToRel(<, Nat)
  OBVIOUS
<1>2. IsWellFoundedOn(R, Nat)
  BY <1>1, NatLessThanWellFounded
<1>3. PICK x \in T : \A y \in T : <<y, x>> \notin R
  BY <1>2, WFMin
<1>4. \A y \in T : y < x => <<y, x>> \in R
  BY <1>1 DEF OpToRel
<1> QED BY <1>3, <1>4

\* A set with zero and all successors has all numbers.
LEMMA AllNumbers ==
  ASSUME NEW S, 0 \in S, \A n \in Nat : n \in S => n + 1 \in S
  PROVE  Nat \subseteq S
<1> SUFFICES ASSUME Nat \ S # {} PROVE FALSE
  OBVIOUS
<1>1. PICK x \in Nat \ S : \A y \in Nat \ S : ~(y < x)
  BY LeastNumber
<1>2. x # 0 /\ x - 1 \in Nat /\ x - 1 < x /\ (x - 1) + 1 = x
  BY <1>1
<1>3. x - 1 \in S
  BY <1>1, <1>2
<1> QED BY <1>1, <1>2, <1>3

-----------------------------------------------------------------------------
(* The redaction.                                                          *)

\* The function of After, up to the n-th rule.
Goes(f, rules, document, n) ==
  f = [i \in 0..n |-> IF i = 0 THEN document ELSE ApplyRule(rules[i], f[i - 1])]

\* There is such a function for every number of rules.
LEMMA AfterExists ==
  ASSUME NEW rules, NEW document
  PROVE  \A n \in Nat : \E f : Goes(f, rules, document, n)
<1> DEFINE S == {n \in Nat : \E f : Goes(f, rules, document, n)}
<1>1. 0 \in S
  <2>1. PICK f : f = [i \in 0..0 |-> document]
    OBVIOUS
  <2>2. f = [i \in 0..0 |-> IF i = 0 THEN document ELSE ApplyRule(rules[i], f[i - 1])]
    BY <2>1
  <2> QED BY <2>2 DEF Goes
<1>2. ASSUME NEW n \in Nat, n \in S PROVE n + 1 \in S
  <2>1. PICK f : Goes(f, rules, document, n)
    BY <1>2
  <2>2. \A i \in 0..n : f[i] = IF i = 0 THEN document ELSE ApplyRule(rules[i], f[i - 1])
    BY <2>1 DEF Goes
  <2>3. PICK g : g = [i \in 0..(n + 1) |-> IF i = n + 1 THEN ApplyRule(rules[i], f[n]) ELSE f[i]]
    OBVIOUS
  <2>4. ASSUME NEW i \in 0..(n + 1)
        PROVE  g[i] = IF i = 0 THEN document ELSE ApplyRule(rules[i], g[i - 1])
    <3>1. CASE i = n + 1
      <4>1. i # 0 /\ n \in 0..(n + 1) /\ n # n + 1 /\ i - 1 = n
        BY <3>1
      <4>2. g[n] = f[n] /\ g[i] = ApplyRule(rules[i], f[n])
        BY <2>3, <3>1, <4>1
      <4> QED BY <4>1, <4>2
    <3>2. CASE i # n + 1
      <4>1. i \in 0..n
        BY <3>2
      <4>2. i # 0 => i - 1 \in 0..n /\ i - 1 \in 0..(n + 1) /\ i - 1 # n + 1
        BY <4>1
      <4>3. g[i] = f[i] /\ (i # 0 => g[i - 1] = f[i - 1])
        BY <2>3, <3>2, <4>2
      <4> QED BY <2>2, <4>1, <4>3
    <3> QED BY <3>1, <3>2
  <2>5. g = [i \in 0..(n + 1) |-> IF i = 0 THEN document ELSE ApplyRule(rules[i], g[i - 1])]
    BY <2>3, <2>4
  <2> QED BY <2>5 DEF Goes
<1> HIDE DEF S
<1>3. Nat \subseteq S
  BY <1>1, <1>2, AllNumbers
<1> QED BY <1>3 DEF S

\* The recursion of After.
LEMMA AfterIs ==
  ASSUME NEW rules, NEW document, Len(rules) \in Nat
  PROVE  /\ After(rules, document)[0] = document
         /\ \A n \in Nat : n < Len(rules) =>
              After(rules, document)[n + 1]
                = ApplyRule(rules[n + 1], After(rules, document)[n])
<1> DEFINE P(f) ==
      f = [i \in 0..Len(rules) |-> IF i = 0 THEN document ELSE ApplyRule(rules[i], f[i - 1])]
<1>1. After(rules, document) = CHOOSE f : P(f)
  BY DEF After
<1>2. \E f : P(f)
  <2>1. PICK f : Goes(f, rules, document, Len(rules))
    BY AfterExists
  <2>2. P(f)
    BY <2>1 DEF Goes
  <2> HIDE DEF P
  <2> QED BY <2>2
<1> HIDE DEF P
<1>3. P(CHOOSE f : P(f))
  BY <1>2
<1>4. PICK a : a = After(rules, document)
  OBVIOUS
<1>5. P(a)
  BY <1>1, <1>3, <1>4
<1>6. \A i \in 0..Len(rules) :
        a[i] = IF i = 0 THEN document ELSE ApplyRule(rules[i], a[i - 1])
  BY <1>5 DEF P
<1>7. a[0] = document
  BY <1>6
<1>8. ASSUME NEW n \in Nat, n < Len(rules)
      PROVE  a[n + 1] = ApplyRule(rules[n + 1], a[n])
  <2>1. n + 1 \in 0..Len(rules) /\ n + 1 # 0 /\ (n + 1) - 1 = n
    BY <1>8
  <2> QED BY <1>6, <2>1
<1> QED BY <1>4, <1>7, <1>8

\* What a prefix is, element by element.
LEMMA PrefixIs ==
  ASSUME NEW S, NEW s \in Seq(S), NEW t \in Seq(S)
  PROVE  IsPrefix(s, t) <=> Len(s) <= Len(t) /\ \A k \in 1..Len(s) : s[k] = t[k]
<1>1. Len(s) \in Nat /\ Len(t) \in Nat
  BY LenProperties
<1>2. /\ \A k \in 1..Len(s) : s[k] \in S
      /\ \A k \in 1..Len(t) : t[k] \in S
  BY ElementOfSeq
<1>3. SubSeq(s, 1, Len(s)) = s
  BY SubSeqFull
<1> SUFFICES ASSUME Len(s) <= Len(t)
             PROVE  s = SubSeq(t, 1, Len(s)) <=> \A k \in 1..Len(s) : s[k] = t[k]
  BY <1>1, <1>3 DEF IsPrefix
<1> DEFINE u == SubSeq(t, 1, Len(s))
<1>4. \A k \in 1..Len(s) : t[k] \in S
  BY <1>1, <1>2
<1>5. /\ u \in Seq(S) /\ Len(u) = IF 1 <= Len(s) THEN Len(s) - 1 + 1 ELSE 0
      /\ \A k \in 1..(Len(s) - 1 + 1) : u[k] = t[1 + k - 1]
  BY <1>1, <1>4, SubSeqProperties
<1>6. Len(u) = Len(s) /\ \A k \in 1..Len(s) : u[k] = t[k]
  BY <1>1, <1>5
<1> HIDE DEF u
<1>7. (\A k \in 1..Len(s) : s[k] = t[k]) => s = u
  BY <1>5, <1>6, SeqEqual
<1> QED BY <1>6, <1>7 DEF u

\* Prefixes are ordered.
Ordered(tree) ==
  /\ \A p \in DOMAIN tree : IsPrefix(p, p)
  /\ \A p, q \in DOMAIN tree : IsPrefix(p, q) /\ IsPrefix(q, p) => p = q
  /\ \A p, q, r \in DOMAIN tree : IsPrefix(p, q) /\ IsPrefix(q, r) => IsPrefix(p, r)

LEMMA PathsAreOrdered ==
  ASSUME NEW S, NEW tree, DOMAIN tree \subseteq Seq(S)
  PROVE  Ordered(tree)
<1>1. \A p \in DOMAIN tree : p \in Seq(S) /\ Len(p) \in Nat
  BY LenProperties
<1>2. \A p, q \in DOMAIN tree :
        IsPrefix(p, q) <=> Len(p) <= Len(q) /\ \A k \in 1..Len(p) : p[k] = q[k]
  BY PrefixIs
<1>3. ASSUME NEW p \in DOMAIN tree, NEW q \in DOMAIN tree, IsPrefix(p, q), IsPrefix(q, p)
      PROVE  p = q
  <2>1. Len(p) = Len(q) /\ \A k \in 1..Len(p) : p[k] = q[k]
    BY <1>1, <1>2, <1>3
  <2> QED BY <1>1, <2>1, SeqEqual
<1>4. ASSUME NEW p \in DOMAIN tree, NEW q \in DOMAIN tree, NEW r \in DOMAIN tree,
             IsPrefix(p, q), IsPrefix(q, r)
      PROVE  IsPrefix(p, r)
  <2>1. Len(p) <= Len(q) /\ Len(q) <= Len(r) /\ Len(p) \in Nat /\ Len(q) \in Nat /\ Len(r) \in Nat
    BY <1>1, <1>2, <1>4
  <2>2. \A k \in 1..Len(p) : k \in 1..Len(q) /\ p[k] = q[k] /\ q[k] = r[k]
    BY <1>2, <1>4, <2>1
  <2> QED BY <1>2, <2>1, <2>2
<1>5. \A p \in DOMAIN tree : IsPrefix(p, p)
  BY <1>1, <1>2
<1> QED BY <1>3, <1>4, <1>5 DEF Ordered

\* A rule as the files have it, of a policy that does not raise.
SaneRule(rule) ==
  /\ rule.kind \in {"regex", "pointer"} /\ rule.action \in {"mask", "drop"}
  /\ rule.required_hits \in Nat /\ IsFiniteSet(rule.finds)

Sane(policy) ==
  /\ Len(policy.rules) \in Nat
  /\ \A i \in 1..Len(policy.rules) : SaneRule(policy.rules[i])

\* The policies that do not raise are of this form.
LEMMA PolicyIsSane ==
  ASSUME NEW in \in Inputs, ~RedactionRaises(in.policy)
  PROVE  Sane(in.policy)
<1>1. /\ Len(in.policy.rules) \in Nat
      /\ \A i \in 1..Len(in.policy.rules) :
           /\ in.policy.rules[i].kind \in {"regex", "pointer", "unrooted"}
           /\ in.policy.rules[i].action \in {"mask", "drop"}
           /\ in.policy.rules[i].required_hits \in Nat
           /\ IsFiniteSet(in.policy.rules[i].finds)
  BY InputsAssumption
<1>2. \A i \in 1..Len(in.policy.rules) : in.policy.rules[i].kind # "unrooted"
  BY DEF RedactionRaises
<1> QED BY <1>1, <1>2 DEF Sane, SaneRule

\* What one rule does to a tree.
LEMMA RuleDoes ==
  ASSUME NEW rule, SaneRule(rule), NEW value
  PROVE  LET next == ApplyRule(rule, value)
             found == Selected(rule, value)
         IN  /\ DOMAIN next \subseteq DOMAIN value
             /\ \A path \in DOMAIN next :
                  /\ next[path].marks \subseteq value[path].marks \cup Brings(rule)
                  /\ value[path].text => next[path].text
                  /\ rule.kind = "regex" => next[path].marks \cap rule.finds \subseteq Brings(rule)
             /\ rule.kind = "pointer" =>
                  /\ \A path \in DOMAIN value : path \in DOMAIN next <=> ~Gone(rule, value, path)
                  /\ \A path \in DOMAIN next \cap found :
                       next[path].text /\ next[path].marks \subseteq Brings(rule)
             /\ rule.kind = "regex" => DOMAIN next = DOMAIN value
             /\ \A path \in DOMAIN value :
                  rule.kind = "regex" \/ (path \notin found /\ ~Gone(rule, value, path)) =>
                    /\ path \in DOMAIN next /\ next[path].text = value[path].text
                    /\ \A mark \in value[path].marks \ next[path].marks :
                         rule.kind = "regex" /\ mark \in rule.finds
<1> DEFINE next == ApplyRule(rule, value)
           found == Selected(rule, value)
<1>1. CASE rule.kind = "regex"
  <2>1. next = [path \in DOMAIN value |-> [text |-> value[path].text,
                                           marks |-> Masked(rule, value[path].marks)]]
    BY <1>1 DEF ApplyRule
  <2>2. /\ DOMAIN next = DOMAIN value
        /\ \A path \in DOMAIN value : /\ next[path].text = value[path].text
                                      /\ next[path].marks = Masked(rule, value[path].marks)
    BY <2>1
  <2>3. Brings(rule) = UNION {rule.rests[mark] : mark \in rule.finds}
    BY <1>1 DEF Brings
  <2>4. \A marks : /\ Masked(rule, marks) \subseteq marks \cup Brings(rule)
                   /\ Masked(rule, marks) \cap rule.finds \subseteq Brings(rule)
                   /\ \A mark \in marks \ Masked(rule, marks) : mark \in rule.finds
    BY <2>3 DEF Masked
  <2> HIDE DEF next
  <2> QED BY <1>1, <2>2, <2>4 DEF next
<1>2. CASE rule.kind = "pointer"
  <2> DEFINE kept == {q \in DOMAIN value : ~Gone(rule, value, q)}
             node(path) == IF path \in found THEN [text |-> TRUE, marks |-> rule.label]
                           ELSE value[path]
  <2>1. next = [path \in kept |-> node(path)]
    BY <1>2 DEF ApplyRule
  <2>2. DOMAIN next = kept /\ \A path \in kept : next[path] = node(path)
    BY <2>1
  <2>3. ASSUME NEW path \in kept, path \in found
        PROVE  node(path).text /\ node(path).marks = Brings(rule)
    <3>1. rule.action = "mask"
      BY <2>3 DEF Gone, SaneRule
    <3> QED BY <1>2, <2>3, <3>1 DEF Brings
  <2>4. \A path \in kept : path \notin found => node(path) = value[path]
    OBVIOUS
  <2> HIDE DEF next, node
  <2>5. ASSUME NEW path \in kept
        PROVE  /\ next[path].marks \subseteq value[path].marks \cup Brings(rule)
               /\ value[path].text => next[path].text
    BY <2>2, <2>3, <2>4
  <2>6. ASSUME NEW path \in kept, path \in found
        PROVE  next[path].text /\ next[path].marks \subseteq Brings(rule)
    BY <2>2, <2>3, <2>6
  <2>7. ASSUME NEW path \in DOMAIN value, path \notin found, ~Gone(rule, value, path)
        PROVE  path \in DOMAIN next /\ next[path] = value[path]
    BY <2>2, <2>4, <2>7
  <2> HIDE DEF found
  <2> QED BY <1>2, <2>2, <2>5, <2>6, <2>7 DEF next, found
<1> QED BY <1>1, <1>2 DEF SaneRule

\* What a pointer means it finds, whatever the tree has become, and nothing else.
LEMMA PointerFinds ==
  ASSUME NEW rule, rule.kind = "pointer", NEW value, NEW path \in DOMAIN value
  PROVE  /\ Means(rule, path) => path \in Selected(rule, value)
         /\ path \in Selected(rule, value) => MayMean(rule, path)
  BY DEF Means, MayMean, Selected

\* One more rule brings what it brings.
LEMMA BroughtBy ==
  ASSUME NEW rules, NEW i \in Nat, NEW k \in Nat, i <= k + 1
  PROVE  Brought(rules, i, k + 1) = Brought(rules, i, k) \cup Brings(rules[k + 1])
<1>1. i..(k + 1) = (i..k) \cup {k + 1}
  OBVIOUS
<1>2. {Brings(rules[j]) : j \in i..(k + 1)} = {Brings(rules[j]) : j \in i..k} \cup {Brings(rules[k + 1])}
  BY <1>1
<1> QED BY <1>2 DEF Brought

\* What earlier rules bring is among what more of them do.
LEMMA BroughtFrom ==
  ASSUME NEW rules, NEW i \in Nat, NEW j \in Nat, i <= j, NEW k \in Nat
  PROVE  Brought(rules, j, k) \subseteq Brought(rules, i, k)
<1>1. j..k \subseteq i..k
  OBVIOUS
<1> QED BY <1>1 DEF Brought

\* What holds of the tree after k rules: they have done what they ask and no more, and
\* what held a node that is left is left.
Rooted(tree, left) ==
  \A top \in DOMAIN tree, path \in DOMAIN left : IsPrefix(top, path) => top \in DOMAIN left
Exact(rules, k, tree, left) ==
  AsAsked(rules, k, tree, left) /\ NoMore(rules, k, tree, left) /\ Rooted(tree, left)

\* A rule takes a node with all that is under it.
LEMMA StaysRooted ==
  ASSUME NEW rule, SaneRule(rule), NEW tree, Ordered(tree), NEW left,
         DOMAIN left \subseteq DOMAIN tree, Rooted(tree, left)
  PROVE  Rooted(tree, ApplyRule(rule, left))
<1> DEFINE next == ApplyRule(rule, left)
<1>1. /\ DOMAIN next \subseteq DOMAIN left
      /\ rule.kind = "regex" => DOMAIN next = DOMAIN left
      /\ rule.kind = "pointer" =>
           \A path \in DOMAIN left : path \in DOMAIN next <=> ~Gone(rule, left, path)
  BY RuleDoes
<1> HIDE DEF next
<1> SUFFICES ASSUME NEW top \in DOMAIN tree, NEW path \in DOMAIN next, IsPrefix(top, path)
             PROVE  top \in DOMAIN next
  BY DEF Rooted, next
<1>2. path \in DOMAIN left /\ top \in DOMAIN left
  BY <1>1 DEF Rooted
<1>3. CASE rule.kind = "regex"
  BY <1>1, <1>2, <1>3
<1>4. CASE rule.kind = "pointer"
  <2>1. ~Gone(rule, left, path)
    BY <1>1, <1>2, <1>4
  <2>2. ASSUME NEW other \in Selected(rule, left), IsStrictPrefix(other, top) PROVE FALSE
    <3>1. other \in DOMAIN tree /\ path \in DOMAIN tree
      BY <1>2 DEF Selected
    <3>2. IsPrefix(other, path) /\ other # path
      BY <2>2, <3>1 DEF IsStrictPrefix, Ordered
    <3> QED BY <2>1, <2>2, <3>2 DEF Gone, IsStrictPrefix
  <2>3. ASSUME rule.action = "drop", top \in Selected(rule, left) PROVE FALSE
    BY <2>1, <2>3 DEF Gone, IsStrictPrefix
  <2>4. ~Gone(rule, left, top)
    BY <2>2, <2>3 DEF Gone
  <2> QED BY <1>1, <1>2, <1>4, <2>4
<1> QED BY <1>3, <1>4 DEF SaneRule

\* One more rule does what it asks; what the ones before it asked stays done.
LEMMA StaysAsked ==
  ASSUME NEW rules, NEW k \in Nat, SaneRule(rules[k + 1]), NEW tree, Ordered(tree), NEW left,
         Exact(rules, k, tree, left)
  PROVE  AsAsked(rules, k + 1, tree, ApplyRule(rules[k + 1], left))
<1> DEFINE rule == rules[k + 1]
           next == ApplyRule(rule, left)
<1>1. /\ DOMAIN next \subseteq DOMAIN left
      /\ \A path \in DOMAIN next :
           /\ next[path].marks \subseteq left[path].marks \cup Brings(rule)
           /\ left[path].text => next[path].text
           /\ rule.kind = "regex" => next[path].marks \cap rule.finds \subseteq Brings(rule)
      /\ rule.kind = "pointer" =>
           /\ \A path \in DOMAIN left : path \in DOMAIN next <=> ~Gone(rule, left, path)
           /\ \A path \in DOMAIN next \cap Selected(rule, left) :
                next[path].text /\ next[path].marks \subseteq Brings(rule)
  BY RuleDoes
<1>2. \A i \in 1..(k + 1) :
        Brought(rules, i, k + 1) = Brought(rules, i, k) \cup Brings(rule)
  BY BroughtBy
<1> HIDE DEF next, rule
<1>3. AsAsked(rules, k, tree, left) /\ Rooted(tree, left) /\ DOMAIN left \subseteq DOMAIN tree
  BY DEF Exact, NoMore
<1>4. ASSUME NEW i \in 1..(k + 1), rules[i].kind = "regex", NEW path \in DOMAIN next
      PROVE  next[path].marks \cap rules[i].finds \subseteq Brought(rules, i, k + 1)
  <2>1. CASE i = k + 1
    BY <1>1, <1>2, <1>4, <2>1 DEF rule
  <2>2. CASE i \in 1..k
    <3>1. left[path].marks \cap rules[i].finds \subseteq Brought(rules, i, k)
      BY <1>1, <1>3, <1>4, <2>2 DEF AsAsked
    <3> QED BY <1>1, <1>2, <3>1
  <2> QED BY <2>1, <2>2
<1>5. ASSUME NEW i \in 1..(k + 1), NEW top \in DOMAIN tree, Means(rules[i], top),
             NEW path \in DOMAIN next, IsPrefix(top, path)
      PROVE  /\ rules[i].action = "mask" /\ path = top /\ next[path].text
             /\ next[path].marks \subseteq Brought(rules, i, k + 1)
  <2>1. CASE i = k + 1
    <3>1. rule.kind = "pointer"
      BY <1>5, <2>1 DEF Means, rule
    <3>2. top \in DOMAIN left /\ path \in DOMAIN left
      BY <1>1, <1>3, <1>5 DEF Rooted
    <3>3. top \in Selected(rule, left)
      BY <1>5, <2>1, <3>1, <3>2, PointerFinds DEF rule
    <3>4. ~Gone(rule, left, path)
      BY <1>1, <3>1, <3>2
    <3>5. path = top
      BY <1>5, <3>3, <3>4 DEF Gone, IsStrictPrefix
    <3>6. rule.action = "mask"
      BY <3>3, <3>4, <3>5 DEF Gone, SaneRule, rule
    <3> QED BY <1>1, <1>2, <2>1, <3>1, <3>3, <3>5, <3>6 DEF rule
  <2>2. CASE i \in 1..k
    <3>1. /\ rules[i].action = "mask" /\ path = top /\ left[path].text
          /\ left[path].marks \subseteq Brought(rules, i, k)
      BY <1>1, <1>3, <1>5, <2>2 DEF AsAsked
    <3> QED BY <1>1, <1>2, <3>1
  <2> QED BY <2>1, <2>2
<1>6. AsAsked(rules, k + 1, tree, next)
  BY <1>4, <1>5 DEF AsAsked
<1> QED BY <1>6 DEF next, rule

\* It does no more.
LEMMA StaysNoMore ==
  ASSUME NEW rules, NEW k \in Nat, SaneRule(rules[k + 1]), NEW tree, Ordered(tree), NEW left,
         Exact(rules, k, tree, left)
  PROVE  NoMore(rules, k + 1, tree, ApplyRule(rules[k + 1], left))
<1> DEFINE rule == rules[k + 1]
           next == ApplyRule(rule, left)
<1>1. /\ DOMAIN next \subseteq DOMAIN left
      /\ \A path \in DOMAIN next : next[path].marks \subseteq left[path].marks \cup Brings(rule)
      /\ \A path \in DOMAIN left :
           rule.kind = "regex" \/ (path \notin Selected(rule, left) /\ ~Gone(rule, left, path)) =>
             /\ path \in DOMAIN next /\ next[path].text = left[path].text
             /\ \A mark \in left[path].marks \ next[path].marks :
                  rule.kind = "regex" /\ mark \in rule.finds
  BY RuleDoes
<1>2. Brought(rules, 1, k + 1) = Brought(rules, 1, k) \cup Brings(rule)
  BY BroughtBy
<1> HIDE DEF next, rule
<1>3. NoMore(rules, k, tree, left) /\ DOMAIN left \subseteq DOMAIN tree
  BY DEF Exact, NoMore
<1>4. ASSUME NEW path \in DOMAIN tree, Spared(rules, k + 1, tree, path)
      PROVE  /\ path \in DOMAIN next /\ next[path].text = tree[path].text
             /\ \A mark \in tree[path].marks \ next[path].marks : FoundBy(rules, k + 1, mark)
  <2>1. Spared(rules, k, tree, path)
    BY <1>4 DEF Spared
  <2>2. /\ path \in DOMAIN left /\ left[path].text = tree[path].text
        /\ \A mark \in tree[path].marks \ left[path].marks : FoundBy(rules, k, mark)
    BY <1>3, <2>1 DEF NoMore
  <2>3. ASSUME rule.kind = "pointer", NEW top \in Selected(rule, left) PROVE ~IsPrefix(top, path)
    <3>1. top \in DOMAIN left /\ top \in DOMAIN tree
      BY <1>3 DEF Selected
    <3>2. MayMean(rule, top)
      BY <2>3, <3>1, PointerFinds
    <3> QED BY <1>4, <3>1, <3>2 DEF Spared, rule
  <2>4. rule.kind = "regex" \/ (path \notin Selected(rule, left) /\ ~Gone(rule, left, path))
    <3> SUFFICES ASSUME rule.kind = "pointer"
                 PROVE  path \notin Selected(rule, left) /\ ~Gone(rule, left, path)
      BY DEF SaneRule, rule
    <3>1. path \notin Selected(rule, left)
      BY <1>4, <2>3 DEF Ordered
    <3> QED BY <2>3, <3>1 DEF Gone, IsStrictPrefix
  <2>5. /\ path \in DOMAIN next /\ next[path].text = left[path].text
        /\ \A mark \in left[path].marks \ next[path].marks :
             rule.kind = "regex" /\ mark \in rule.finds
    BY <1>1, <2>2, <2>4
  <2>6. /\ \A mark : FoundBy(rules, k, mark) => FoundBy(rules, k + 1, mark)
        /\ \A mark : rule.kind = "regex" /\ mark \in rule.finds => FoundBy(rules, k + 1, mark)
    BY DEF FoundBy, rule
  <2> QED BY <2>2, <2>5, <2>6
<1>5. ASSUME NEW path \in DOMAIN next
      PROVE  next[path].marks \subseteq tree[path].marks \cup Brought(rules, 1, k + 1)
  BY <1>1, <1>2, <1>3 DEF NoMore
<1>6. NoMore(rules, k + 1, tree, next)
  BY <1>1, <1>3, <1>4, <1>5 DEF NoMore
<1> QED BY <1>6 DEF next, rule

\* After every rule the rules so far have done what they ask and no more.
LEMMA AfterIsExact ==
  ASSUME NEW policy, Sane(policy), NEW tree, Ordered(tree)
  PROVE  \A n \in Nat : n <= Len(policy.rules) =>
           Exact(policy.rules, n, tree, After(policy.rules, tree)[n])
<1> DEFINE rules == policy.rules
           after == After(rules, tree)
           S == {n \in Nat : n <= Len(rules) => Exact(rules, n, tree, after[n])}
<1>1. Len(rules) \in Nat
  BY DEF Sane
<1>2. after[0] = tree /\ \A n \in Nat : n < Len(rules) => after[n + 1] = ApplyRule(rules[n + 1], after[n])
  BY <1>1, AfterIs
<1>3. Exact(rules, 0, tree, tree)
  <2>1. 1..0 = {}
    OBVIOUS
  <2>2. AsAsked(rules, 0, tree, tree)
    BY <2>1 DEF AsAsked
  <2>3. NoMore(rules, 0, tree, tree)
    BY DEF NoMore
  <2> QED BY <2>2, <2>3 DEF Exact, Rooted
<1> HIDE DEF after, rules
<1>4. 0 \in S
  BY <1>2, <1>3
<1>5. ASSUME NEW n \in Nat, n \in S PROVE n + 1 \in S
  <2> SUFFICES ASSUME n + 1 <= Len(rules) PROVE Exact(rules, n + 1, tree, after[n + 1])
    OBVIOUS
  <2>1. n < Len(rules) /\ n <= Len(rules) /\ n + 1 \in 1..Len(rules)
    BY <1>1
  <2>2. Exact(rules, n, tree, after[n]) /\ SaneRule(rules[n + 1])
    BY <1>5, <2>1 DEF Sane, rules
  <2>3. after[n + 1] = ApplyRule(rules[n + 1], after[n])
    BY <1>2, <2>1
  <2>4. Rooted(tree, after[n]) /\ DOMAIN after[n] \subseteq DOMAIN tree
    BY <2>2 DEF Exact, NoMore
  <2> QED BY <2>2, <2>3, <2>4, StaysAsked, StaysNoMore, StaysRooted DEF Exact
<1> HIDE DEF S
<1>6. Nat \subseteq S
  BY <1>4, <1>5, AllNumbers
<1> QED BY <1>6 DEF S, after, rules

\* A rule that others have forestalled has nothing to find.
LEMMA ForestalledIsIdle ==
  ASSUME NEW rules, NEW i \in Nat \ {0}, SaneRule(rules[i]), NEW tree, NEW left,
         Exact(rules, i - 1, tree, left), Forestalled(rules, i, tree)
  PROVE  Hits(rules[i], left) = 0
<1> DEFINE rule == rules[i]
           k == i - 1
           taken(path) == \E j \in 1..k, top \in DOMAIN tree :
                            /\ Means(rules[j], top) /\ IsPrefix(top, path)
                            /\ rules[j].action = "drop" \/ rule.kind = "regex" \/ top # path
<1>1. k \in Nat /\ \A j \in 1..k : j \in Nat /\ 1 <= j
  OBVIOUS
<1>2. \A j \in 1..k : Brought(rules, j, k) \subseteq Brought(rules, 1, k)
  BY <1>1, BroughtFrom
<1>3. AsAsked(rules, k, tree, left) /\ NoMore(rules, k, tree, left)
  BY DEF Exact
<1>4. /\ \A path \in DOMAIN tree :
           taken(path) \/ IF rule.kind = "regex"
                          THEN \A mark \in tree[path].marks \cap rule.finds : FoundBy(rules, k, mark)
                          ELSE ~MayMean(rule, path)
      /\ rule.kind = "regex" => rule.finds \cap Brought(rules, 1, k) = {}
  BY DEF Forestalled
<1>5. ASSUME NEW path \in DOMAIN left, NEW j \in 1..k, NEW top \in DOMAIN tree,
             Means(rules[j], top), IsPrefix(top, path)
      PROVE  /\ rules[j].action = "mask" /\ path = top
             /\ left[path].marks \subseteq Brought(rules, 1, k)
  <2>1. /\ rules[j].action = "mask" /\ path = top
        /\ left[path].marks \subseteq Brought(rules, j, k)
    BY <1>3, <1>5 DEF AsAsked
  <2> QED BY <1>2, <2>1
<1> HIDE DEF k, rule
<1>6. CASE rule.kind = "regex"
  <2> DEFINE hits == {hit \in (DOMAIN left) \X rule.finds : hit[2] \in left[hit[1]].marks}
  <2>1. ASSUME NEW path \in DOMAIN left, NEW mark \in left[path].marks \cap rule.finds PROVE FALSE
    <3>1. path \in DOMAIN tree /\ mark \in tree[path].marks /\ mark \notin Brought(rules, 1, k)
      BY <1>3, <1>4, <1>6, <2>1 DEF NoMore
    <3>2. ~taken(path)
      BY <1>5, <2>1, <3>1
    <3>3. FoundBy(rules, k, mark)
      BY <1>4, <1>6, <2>1, <3>1, <3>2
    <3>4. PICK j \in 1..k : rules[j].kind = "regex" /\ mark \in rules[j].finds
      BY <3>3 DEF FoundBy
    <3>5. mark \in Brought(rules, j, k)
      BY <1>3, <2>1, <3>4 DEF AsAsked
    <3> QED BY <1>2, <3>1, <3>5
  <2>2. hits = {}
    BY <2>1
  <2>3. Hits(rule, left) = Cardinality(hits)
    BY <1>6 DEF Hits
  <2> QED BY <2>2, <2>3, FS_EmptySet DEF rule
<1>7. CASE rule.kind = "pointer"
  <2>1. ASSUME NEW path \in Selected(rule, left) PROVE FALSE
    <3>1. path \in DOMAIN left /\ path \in DOMAIN tree
      BY <1>3 DEF Selected, NoMore
    <3>2. MayMean(rule, path)
      BY <1>7, <3>1, PointerFinds
    <3>3. taken(path)
      BY <1>4, <1>7, <3>1, <3>2
    <3>4. PICK j \in 1..k, top \in DOMAIN tree :
            /\ Means(rules[j], top) /\ IsPrefix(top, path)
            /\ rules[j].action = "drop" \/ rule.kind = "regex" \/ top # path
      BY <3>3
    <3> QED BY <1>5, <1>7, <3>1, <3>4
  <2>2. Hits(rule, left) = Cardinality(Selected(rule, left))
    BY <1>7 DEF Hits
  <2> QED BY <2>1, <2>2, FS_EmptySet DEF rule
<1> QED BY <1>6, <1>7 DEF SaneRule, rule

\* A rule that others have left something finds it.
LEMMA UntouchedIsCounted ==
  ASSUME NEW rules, NEW i \in Nat \ {0}, SaneRule(rules[i]), NEW tree, NEW left,
         Exact(rules, i - 1, tree, left), IsFiniteSet(DOMAIN tree), Untouched(rules, i, tree)
  PROVE  Hits(rules[i], left) \in Nat \ {0}
<1> DEFINE rule == rules[i]
           k == i - 1
<1>1. NoMore(rules, k, tree, left)
  BY DEF Exact
<1>2. IsFiniteSet(DOMAIN left)
  BY <1>1, FS_Subset DEF NoMore
<1>3. PICK path \in DOMAIN tree :
        /\ Spared(rules, k, tree, path)
        /\ IF rule.kind = "regex"
           THEN \E mark \in tree[path].marks \cap rule.finds : ~FoundBy(rules, k, mark)
           ELSE Means(rule, path)
  BY DEF Untouched
<1>4. /\ path \in DOMAIN left
      /\ \A mark \in tree[path].marks \ left[path].marks : FoundBy(rules, k, mark)
  BY <1>1, <1>3 DEF NoMore
<1> HIDE DEF k, rule
<1>5. \A T : IsFiniteSet(T) /\ T # {} => Cardinality(T) \in Nat \ {0}
  BY FS_CardinalityType, FS_EmptySet
<1>6. CASE rule.kind = "regex"
  <2> DEFINE all == (DOMAIN left) \X rule.finds
             hits == {hit \in all : hit[2] \in left[hit[1]].marks}
  <2>1. IsFiniteSet(all)
    BY <1>2, FS_Product DEF SaneRule, rule
  <2>2. IsFiniteSet(hits)
    BY <2>1, FS_Subset
  <2>3. PICK mark \in tree[path].marks \cap rule.finds : ~FoundBy(rules, k, mark)
    BY <1>3, <1>6
  <2>4. <<path, mark>> \in hits
    BY <1>4, <2>3
  <2>5. Hits(rule, left) = Cardinality(hits)
    BY <1>6 DEF Hits
  <2> HIDE DEF hits
  <2> QED BY <1>5, <2>2, <2>4, <2>5 DEF rule
<1>7. CASE rule.kind = "pointer"
  <2>1. path \in Selected(rule, left)
    BY <1>3, <1>4, <1>7, PointerFinds
  <2>2. IsFiniteSet(Selected(rule, left))
    BY <1>2, FS_Subset DEF Selected
  <2>3. Hits(rule, left) = Cardinality(Selected(rule, left))
    BY <1>7 DEF Hits
  <2> QED BY <1>5, <2>1, <2>2, <2>3 DEF rule
<1> QED BY <1>6, <1>7 DEF SaneRule, rule

\* The keys and positions in a tree.
Tokens(texts) ==
  {"evidence", "arms", "output", "claims", "limitations", "transcript", "statement", "text"}
    \cup Arms \cup {p[1] : p \in DOMAIN texts}
    \cup {p[2][1] : p \in DOMAIN texts} \cup {p[2][2] : p \in DOMAIN texts}

\* Paths are sequences, and those of texts are short.
LEMMA LeavesAre ==
  ASSUME NEW texts, NEW p \in DOMAIN texts
  PROVE  Path(p) \in Seq(Tokens(texts)) /\ Len(Path(p)) \in 3..6
<1> DEFINE part == p[1]
           kind == p[2][1]
           item == p[2][2]
           S == Tokens(texts)
<1>1. /\ {part, kind, item} \subseteq S
      /\ {"arms", "output", "claims", "limitations", "transcript", "statement", "text"} \subseteq S
  BY DEF Tokens
<1> HIDE DEF part, kind, item, S
<1> DEFINE detail == <<part, item, kind>>
           claim == <<"arms", part, "output", "claims", item, "statement">>
           limitation == <<"arms", part, "output", "limitations", item>>
           step == <<"arms", part, "transcript", item, "text">>
<1>2. /\ detail \in Seq(S) /\ claim \in Seq(S) /\ limitation \in Seq(S) /\ step \in Seq(S)
  BY <1>1
<1>3. Len(detail) = 3 /\ Len(claim) = 6 /\ Len(limitation) = 5 /\ Len(step) = 5
  OBVIOUS
<1>4. Path(p) \in {detail, claim, limitation, step}
  BY DEF Path, part, kind, item
<1> HIDE DEF detail, claim, limitation, step
<1>5. \A w \in {detail, claim, limitation, step} : w \in Seq(S) /\ Len(w) \in 3..6
  BY <1>2, <1>3
<1> QED BY <1>4, <1>5 DEF S

\* The paths of a tree are ordered, and of finitely many texts there are finitely many.
LEMMA TreeIs ==
  ASSUME NEW texts
  PROVE  Ordered(Tree(texts)) /\ (IsFiniteSet(DOMAIN texts) => IsFiniteSet(DOMAIN Tree(texts)))
<1> DEFINE S == Tokens(texts)
           prefixes == UNION {Prefixes(leaf) \ {<<>>} : leaf \in {Path(p) : p \in DOMAIN texts}}
<1>1. DOMAIN Tree(texts) = Frame \cup prefixes
  BY DEF Tree
<1>2. ASSUME NEW path \in prefixes
      PROVE  \E p \in DOMAIN texts, l \in 0..6 : path = SubSeq(Path(p), 1, l) /\ l <= Len(Path(p))
  <2>1. PICK p \in DOMAIN texts : path \in Prefixes(Path(p))
    OBVIOUS
  <2>2. Len(Path(p)) \in 3..6
    BY LeavesAre
  <2> DEFINE w == Path(p)
  <2>3. path \in {SubSeq(w, 1, l) : l \in 0..Len(w)}
    BY <2>1 DEF Prefixes
  <2>4. PICK l \in 0..Len(w) : path = SubSeq(w, 1, l)
    BY <2>3
  <2>5. l \in 0..6 /\ l <= Len(w)
    BY <2>2, <2>4
  <2> QED BY <2>4, <2>5
<1> HIDE DEF prefixes
<1>3. prefixes \subseteq Seq(S)
  <2> SUFFICES ASSUME NEW path \in prefixes PROVE path \in Seq(S)
    OBVIOUS
  <2>1. PICK p \in DOMAIN texts, l \in 0..6 : path = SubSeq(Path(p), 1, l) /\ l <= Len(Path(p))
    BY <1>2
  <2>2. Path(p) \in Seq(S) /\ Len(Path(p)) \in Nat
    BY LeavesAre
  <2>3. \A k \in 1..l : Path(p)[k] \in S
    BY <2>1, <2>2, ElementOfSeq
  <2> QED BY <2>1, <2>3, SubSeqProperties
<1>4. Frame \subseteq Seq(S)
  <2>1. {"evidence", "arms", "output", "claims", "limitations", "transcript"} \cup Arms \subseteq S
    BY DEF Tokens
  <2> HIDE DEF S
  <2>2. /\ <<"evidence">> \in Seq(S) /\ <<"arms">> \in Seq(S)
        /\ \A arm \in Arms :
             /\ <<"arms", arm>> \in Seq(S) /\ <<"arms", arm, "output">> \in Seq(S)
             /\ <<"arms", arm, "output", "claims">> \in Seq(S)
             /\ <<"arms", arm, "output", "limitations">> \in Seq(S)
             /\ <<"arms", arm, "transcript">> \in Seq(S)
    BY <2>1
  <2> QED BY <2>2 DEF Frame, Lists, ListsOf
<1>5. Ordered(Tree(texts))
  BY <1>1, <1>3, <1>4, PathsAreOrdered
<1>6. ASSUME IsFiniteSet(DOMAIN texts) PROVE IsFiniteSet(DOMAIN Tree(texts))
  <2> DEFINE all == (DOMAIN texts) \X (0..6)
             f == [x \in all |-> SubSeq(Path(x[1]), 1, x[2])]
             images == {SubSeq(Path(x[1]), 1, x[2]) : x \in all}
  <2>1. IsFiniteSet(all)
    <3> DEFINE lengths == 0..6
    <3>1. IsFiniteSet(lengths)
      BY FS_Interval, 0 \in Int, 6 \in Int
    <3> HIDE DEF lengths
    <3>2. IsFiniteSet((DOMAIN texts) \X lengths)
      BY <1>6, <3>1, FS_Product
    <3> QED BY <3>2 DEF lengths
  <2>2. f \in Surjection(all, images)
    BY DEF Surjection
  <2>3. IsFiniteSet(images)
    BY <2>1, <2>2, FS_Surjection
  <2>4. prefixes \subseteq images
    <3> SUFFICES ASSUME NEW path \in prefixes PROVE path \in images
      OBVIOUS
    <3>1. PICK p \in DOMAIN texts, l \in 0..6 : path = SubSeq(Path(p), 1, l)
      BY <1>2
    <3>2. <<p, l>> \in all /\ path = SubSeq(Path(<<p, l>>[1]), 1, <<p, l>>[2])
      BY <3>1
    <3> QED BY <3>2
  <2>5. IsFiniteSet(prefixes)
    BY <2>3, <2>4, FS_Subset
  <2>6. IsFiniteSet(Frame)
    <3>1. Frame = {<<"evidence">>, <<"arms">>,
                   <<"arms", "baseline">>, <<"arms", "baseline", "output">>,
                   <<"arms", "baseline", "output", "claims">>,
                   <<"arms", "baseline", "output", "limitations">>,
                   <<"arms", "baseline", "transcript">>}
                  \cup {<<"arms", "augmented">>, <<"arms", "augmented", "output">>,
                   <<"arms", "augmented", "output", "claims">>,
                   <<"arms", "augmented", "output", "limitations">>,
                   <<"arms", "augmented", "transcript">>}
      BY DEF Frame, Lists, ListsOf, Arms
    <3>2. \A x : IsFiniteSet({x})
      BY FS_Singleton
    <3>3. \A T, x : IsFiniteSet(T) => IsFiniteSet(T \cup {x})
      BY <3>2, FS_Union
    <3>4. \A a, b, c, d, e : IsFiniteSet({a, b, c, d, e})
      <4> TAKE a, b, c, d, e
      <4>1. {a, b, c, d, e} = ((({a} \cup {b}) \cup {c}) \cup {d}) \cup {e}
        OBVIOUS
      <4>2. IsFiniteSet(((({a} \cup {b}) \cup {c}) \cup {d}) \cup {e})
        BY <3>2, <3>3, Zenon
      <4> QED BY <4>1, <4>2
    <3>5. \A a, b, c, d, e, g, h : IsFiniteSet({a, b, c, d, e, g, h})
      <4> TAKE a, b, c, d, e, g, h
      <4>1. {a, b, c, d, e, g, h} = ({a, b, c, d, e} \cup {g}) \cup {h}
        OBVIOUS
      <4>2. IsFiniteSet(({a, b, c, d, e} \cup {g}) \cup {h})
        BY <3>3, <3>4, Zenon
      <4> QED BY <4>1, <4>2
    <3> DEFINE common == {<<"evidence">>, <<"arms">>,
                   <<"arms", "baseline">>, <<"arms", "baseline", "output">>,
                   <<"arms", "baseline", "output", "claims">>,
                   <<"arms", "baseline", "output", "limitations">>,
                   <<"arms", "baseline", "transcript">>}
               other == {<<"arms", "augmented">>, <<"arms", "augmented", "output">>,
                   <<"arms", "augmented", "output", "claims">>,
                   <<"arms", "augmented", "output", "limitations">>,
                   <<"arms", "augmented", "transcript">>}
    <3>6. IsFiniteSet(common)
      BY <3>5, Zenon
    <3>7. IsFiniteSet(other)
      BY <3>4, Zenon
    <3>8. Frame = common \cup other
      BY <3>1
    <3> QED BY <3>6, <3>7, <3>8, FS_Union
  <2> QED BY <1>1, <2>5, <2>6, FS_Union
<1> QED BY <1>5, <1>6
-----------------------------------------------------------------------------
(* The boundary under the contracts of the proof engine.                   *)

XP == INSTANCE XiAudit_proofs WITH
  Artifacts <- {}, Names <- ArmChecks \cup PackageChecks,
  Impls <- ArmChecks \cup PackageChecks, Missing <- "missing", Raises <- {"raises"},
  Pointers <- {}, Resolves <- Resolvable, Emits <- Finds,
  CheckIds <- ArmChecks \cup PackageChecks

Registered == [check \in ArmChecks \cup PackageChecks |-> check]

\* The lemmas about the boundary speak of the same boundary.
LEMMA SameBoundary ==
  ASSUME NEW x, NEW contracts, NEW policy
  PROVE  Submit(x, contracts, policy)
           = XP!VerifyArtifact(x, contracts, policy, Registered, "no parent")
  BY DEF Submit, Registered, Xi!VerifyArtifact, XP!VerifyArtifact, Xi!BuildReceipt,
     XP!BuildReceipt, Xi!Seal, XP!Seal, Xi!Admission, XP!Admission, Xi!BlockingCodes,
     XP!BlockingCodes, Xi!RunContractSet, XP!RunContractSet, Xi!RunCheck, XP!RunCheck,
     Xi!ErrorResult, XP!ErrorResult, Xi!BuildResult, XP!BuildResult, Xi!Escalate,
     XP!Escalate, Xi!SeverityOf, XP!SeverityOf, Xi!InfoCodes, XP!InfoCodes,
     Xi!WarnCodes, XP!WarnCodes, Xi!ErrorCodes, XP!ErrorCodes, Xi!FailCodes,
     XP!FailCodes, Xi!IssueCodes, XP!IssueCodes, Xi!VerdictFrom, XP!VerdictFrom,
     Xi!WorstSeverity, XP!WorstSeverity, Xi!SeverityRank, XP!SeverityRank,
     Xi!WithVerdict, XP!WithVerdict, Xi!CodesOf, XP!CodesOf, Xi!MissingRequired,
     XP!MissingRequired

FailCodes == XP!FailCodes

\* A set of checks that the module registers.
Suite(checks) == checks \in {ArmChecks, PackageChecks}

\* The contracts of a suite, one for each of its checks.
LEMMA ContractsAre ==
  ASSUME NEW checks
  PROVE  /\ \A c \in Contracts(checks) : /\ c.implementation \in checks
                                         /\ c.check_id = c.implementation
                                         /\ c.pointers = {} /\ c.escalate = {}
         /\ \A check \in checks : \E c \in Contracts(checks) : c.implementation = check
<1> DEFINE of(check) == [check_id |-> check, implementation |-> check, pointers |-> {},
                         escalate |-> {}]
<1>1. Contracts(checks) = {of(check) : check \in checks}
  BY DEF Contracts
<1>2. \A check : /\ of(check).implementation = check /\ of(check).check_id = check
                 /\ of(check).pointers = {} /\ of(check).escalate = {}
  OBVIOUS
<1> HIDE DEF of
<1> QED BY <1>1, <1>2

\* What the lemmas about the boundary ask for.
LEMMA SuiteFits ==
  ASSUME NEW checks, Suite(checks), NEW x
  PROVE  /\ Contracts(checks) # {} /\ Demands(checks) \in XP!Policy
         /\ Demands(checks).required = checks /\ Demands(checks).on_warn = "REVIEW"
         /\ XP!Ids(Contracts(checks)) = checks
         /\ \A c \in Contracts(checks) :
              /\ Registered[c.implementation] = c.implementation
              /\ c.implementation # "missing" /\ c.pointers \subseteq Resolvable(x)
         /\ "missing" \notin ArmChecks \cup PackageChecks
<1>1. checks # {} /\ checks \subseteq ArmChecks \cup PackageChecks
  BY DEF Suite, ArmChecks, PackageChecks
<1>2. "missing" \notin ArmChecks \cup PackageChecks
  BY DEF ArmChecks, PackageChecks
<1>3. /\ Contracts(checks) # {} /\ XP!Ids(Contracts(checks)) = checks
      /\ \A c \in Contracts(checks) : c.implementation \in checks /\ c.pointers = {}
  BY <1>1, ContractsAre DEF XP!Ids
<1>4. Demands(checks) \in XP!Policy
  BY <1>1 DEF Demands, XP!Policy
<1> QED BY <1>1, <1>2, <1>3, <1>4 DEF Demands, Registered, Resolvable

\* What the checks find is measured or a failure; none of them raises.
LEMMA FindsAre ==
  ASSUME NEW check \in ArmChecks \cup PackageChecks, NEW x
  PROVE  /\ Finds(check, x) \subseteq {"MEASUREMENT"} \cup FailCodes
         /\ Finds(check, x) # {"raises"}
<1>1. {"SCHEMA_VIOLATION", "CLAIM_SCOPE_MISSING", "CLAIM_OVERBROAD", "LIMITATIONS_ABSENT",
       "EVIDENCE_CITATION_MISSING", "EVIDENCE_REF_UNRESOLVED", "EVIDENCE_GAP_UNDECLARED",
       "MODEL_IDENTITY_MISMATCH", "FIXTURE_IDENTITY_MISMATCH", "TOOL_SURFACE_MISMATCH",
       "CHANGED_VARIABLE_ABSENT", "CONFIG_DRIFT_UNDECLARED", "CONTRADICTION_DETECTED",
       "HASH_MISMATCH", "EVIDENCE_INCOMPLETE", "CLAIM_UNSUPPORTED",
       "SENSITIVE_VALUE_PRESENT", "REDACTION_POLICY_VIOLATION"} \subseteq FailCodes
  BY DEF FailCodes, XP!FailCodes
<1>2. "raises" \notin {"MEASUREMENT"} \cup FailCodes
  BY DEF FailCodes, XP!FailCodes
<1> DEFINE fine(codes) == codes \subseteq {"MEASUREMENT"} \cup FailCodes
<1> HIDE DEF FailCodes
<1>3. fine(ReportShape(x)) /\ fine(ClaimScope(x)) /\ fine(ClaimOverbroad(x))
  BY <1>1 DEF ReportShape, ClaimScope, ClaimOverbroad, Measured, If
<1>4. fine(ClaimCitations(x)) /\ fine(ClaimLimitations(x))
  BY <1>1 DEF ClaimCitations, ClaimLimitations, Measured, If
<1>5. fine(ParityConfig(x))
  BY <1>1 DEF ParityConfig, Measured, If
<1>6. fine(SpecFaithful(x)) /\ fine(ArmBinding(x))
  BY <1>1 DEF SpecFaithful, ArmBinding, Measured, If
<1>7. fine(EvidenceComplete(x)) /\ fine(ClaimSupported(x))
  BY <1>1 DEF EvidenceComplete, ClaimSupported, Measured, If
<1>8. fine(PublicSafe(x))
  BY <1>1 DEF PublicSafe, Measured, If
<1>9. \A l, r : /\ fine(Parity(l, r, "MODEL_IDENTITY_MISMATCH"))
                /\ fine(Parity(l, r, "FIXTURE_IDENTITY_MISMATCH"))
                /\ fine(Parity(l, r, "TOOL_SURFACE_MISMATCH"))
  BY <1>1 DEF Parity
<1>10. fine({})
  OBVIOUS
<1> HIDE DEF fine
<1>11. fine(Finds(check, x))
  BY <1>3, <1>4, <1>5, <1>6, <1>7, <1>8, <1>9, <1>10 DEF Finds, ArmChecks, PackageChecks
<1> QED BY <1>2, <1>11 DEF fine

\* A suite admits what none of its checks has anything against.
LEMMA SubmitAdmits ==
  ASSUME NEW checks, Suite(checks), NEW x
  PROVE  Submit(x, Contracts(checks), Demands(checks)).body.admission = "ADMIT"
           <=> \A check \in checks : Finds(check, x) \subseteq {"MEASUREMENT"}
<1>1. /\ Contracts(checks) # {} /\ Demands(checks) \in XP!Policy
      /\ Demands(checks).on_warn = "REVIEW" /\ "missing" \notin ArmChecks \cup PackageChecks
  BY SuiteFits
<1>2. Submit(x, Contracts(checks), Demands(checks)).body.admission = "ADMIT"
        <=> XP!Admissible(x, Contracts(checks), Demands(checks), Registered)
  BY <1>1, SameBoundary, XP!BoundaryEarned
<1>3. \A c \in Contracts(checks) :
        XP!Bears(c, x, Registered, "REVIEW")
          <=> Finds(c.implementation, x) \subseteq {"MEASUREMENT"}
  <2> TAKE c \in Contracts(checks)
  <2>1. Finds(c.implementation, x) # {"raises"}
    BY FindsAre, ContractsAre DEF Suite
  <2> QED BY <2>1, SuiteFits DEF XP!Bears, XP!Runs, XP!InfoCodes
<1>4. XP!Admissible(x, Contracts(checks), Demands(checks), Registered)
        <=> \A c \in Contracts(checks) : XP!Bears(c, x, Registered, "REVIEW")
  BY SuiteFits DEF XP!Admissible
<1>5. /\ \A c \in Contracts(checks) : c.implementation \in checks
      /\ \A check \in checks : \E c \in Contracts(checks) : c.implementation = check
  BY ContractsAre
<1>6. (\A c \in Contracts(checks) : Finds(c.implementation, x) \subseteq {"MEASUREMENT"})
        <=> \A check \in checks : Finds(check, x) \subseteq {"MEASUREMENT"}
  BY <1>5
<1> QED BY <1>2, <1>3, <1>4, <1>6

\* It blames what its checks find.
LEMMA SubmitBlames ==
  ASSUME NEW checks, Suite(checks), NEW x, NEW code
  PROVE  code \in Submit(x, Contracts(checks), Demands(checks)).body.blocking
           <=> code \in FailCodes /\ \E check \in checks : code \in Finds(check, x)
<1>1. ASSUME NEW c \in Contracts(checks)
      PROVE  /\ XP!Runs(c, x, Registered) /\ Registered[c.implementation] = c.implementation
             /\ Finds(c.implementation, x) \subseteq XP!InfoCodes \cup XP!FailCodes
  <2>1. /\ Finds(c.implementation, x) # {"raises"}
        /\ Finds(c.implementation, x) \subseteq {"MEASUREMENT"} \cup FailCodes
    BY FindsAre, ContractsAre DEF Suite
  <2> QED BY <2>1, SuiteFits DEF XP!Runs, XP!InfoCodes, FailCodes
<1>2. code \in Submit(x, Contracts(checks), Demands(checks)).body.blocking
        <=> /\ code \in XP!FailCodes
            /\ \E c \in Contracts(checks) : code \in Finds(Registered[c.implementation], x)
  <2>1. \A c \in Contracts(checks) :
          /\ XP!Runs(c, x, Registered)
          /\ Finds(Registered[c.implementation], x) \subseteq XP!InfoCodes \cup XP!FailCodes
    BY <1>1
  <2>2. Demands(checks).required \subseteq XP!Ids(Contracts(checks))
    BY SuiteFits
  <2> QED BY <2>1, <2>2, SuiteFits, SameBoundary, XP!BoundaryBlames
<1> QED BY <1>1, <1>2, ContractsAre DEF FailCodes

\* What its receipt says.
LEMMA SubmitRecords ==
  ASSUME NEW checks, Suite(checks), NEW x
  PROVE  LET receipt == Submit(x, Contracts(checks), Demands(checks))
         IN  /\ receipt.body.artifact = x
             /\ receipt.body.admission \in {"ADMIT", "REVIEW", "REJECT", "ERROR"}
             /\ receipt.body.admission = "ADMIT" <=> receipt.body.blocking = {}
             /\ Summary(receipt).verdicts # {}
             /\ receipt.body.admission = "ADMIT" =>
                  \A row \in Summary(receipt).verdicts : row.verdict = "PASS"
<1> DEFINE contracts == Contracts(checks)
           policy == Demands(checks)
           body == XP!VerifyArtifact(x, contracts, policy, Registered, "no parent").body
<1>1. /\ contracts # {} /\ policy \in XP!Policy /\ policy.on_warn # "ADMIT"
      /\ "missing" \notin ArmChecks \cup PackageChecks
  BY SuiteFits
<1>2. PICK receipt : receipt = Submit(x, contracts, policy)
  OBVIOUS
<1>3. receipt.body.artifact = x
  BY <1>2 DEF Submit, Xi!VerifyArtifact, Xi!BuildReceipt, Xi!Seal
<1>4. receipt.body = body
  BY <1>2, SameBoundary
<1> HIDE DEF contracts, policy
<1>5. body.admission \in {"ADMIT", "REVIEW", "REJECT", "ERROR"}
  BY <1>1, XP!BoundaryRecords
<1>6. body.admission = "ADMIT" <=> body.blocking = {}
  BY <1>1, XP!BoundaryExplains
<1>7. /\ body.check_results # {}
      /\ body.admission = "ADMIT" => XP!AllPass(body.check_results)
  BY <1>1, XP!BoundaryPasses
<1> HIDE DEF body
<1>8. /\ Summary(receipt).verdicts # {}
      /\ body.admission = "ADMIT" =>
           \A row \in Summary(receipt).verdicts : row.verdict = "PASS"
  <2> DEFINE row(r) == [check_id |-> r.check_id, verdict |-> r.verdict,
                        codes |-> {f.code : f \in r.findings}]
  <2>1. Summary(receipt).verdicts = {row(r) : r \in body.check_results}
    BY <1>4 DEF Summary
  <2>2. \A r : row(r).verdict = r.verdict
    OBVIOUS
  <2> HIDE DEF row
  <2> QED BY <1>7, <2>1, <2>2 DEF XP!AllPass
<1> QED BY <1>2, <1>3, <1>4, <1>5, <1>6, <1>8 DEF contracts, policy

-----------------------------------------------------------------------------
(* What a build is made of, said of its input.                             *)

Original(in) == PreRedaction(in.fixture, in.recordings)
Outcome(in) == ApplyPolicy(in.policy, Original(in))
Doc(in) == Outcome(in).doc
BundleOf(in, arm) == Bundle(in.recordings[arm], in.fixture, Outcome(in), in.policy)
ReceiptOf(in, arm) == Submit(BundleOf(in, arm), ArmContracts, ArmPolicy)
ArtifactOf(in) == Artifact(in.spec, in.policy, [arm \in Arms |-> BundleOf(in, arm)],
                           [arm \in Arms |-> ReceiptOf(in, arm)])
PackageOf(in) == Submit(ArtifactOf(in), PackageContracts, PackagePolicy)

\* A place of the document that is redacted.
Place(in, p) ==
  /\ p = <<p[1], p[2]>> /\ p[2] = <<p[2][1], p[2][2]>> /\ p[1] \in Parts
  /\ p[1] = "evidence" => p[2] \in DOMAIN in.fixture.doc

\* What is read is finite.
LEMMA OriginalIsFinite ==
  ASSUME NEW in \in Inputs
  PROVE  IsFiniteSet(DOMAIN Original(in))
<1> DEFINE doc(part) == IF part = "evidence" THEN in.fixture.doc ELSE in.recordings[part].doc
           of(part) == {part} \X (DOMAIN doc(part))
<1>1. ASSUME NEW part \in Parts PROVE IsFiniteSet(of(part))
  <2>1. IsFiniteSet(DOMAIN doc(part))
    BY <1>1, InputsAssumption DEF Parts
  <2>2. IsFiniteSet({part})
    BY FS_Singleton
  <2> HIDE DEF doc
  <2> QED BY <2>1, <2>2, FS_Product
<1>2. DOMAIN Original(in) = UNION {of(part) : part \in Parts}
  BY DEF Original, PreRedaction
<1> HIDE DEF of
<1>3. UNION {of(part) : part \in Parts} = (of("evidence") \cup of("baseline")) \cup of("augmented")
  BY DEF Parts, Arms
<1>4. {"evidence", "baseline", "augmented"} \subseteq Parts
  BY DEF Parts, Arms
<1>5. IsFiniteSet(of("evidence") \cup of("baseline"))
  BY <1>1, <1>4, FS_Union
<1>6. IsFiniteSet((of("evidence") \cup of("baseline")) \cup of("augmented"))
  BY <1>1, <1>4, <1>5, FS_Union
<1> QED BY <1>2, <1>3, <1>6

\* The redaction of what was read is exact, and each rule's hits tell what was left to it.
LEMMA OutcomeIs ==
  ASSUME NEW in \in Inputs, ~RedactionRaises(in.policy)
  PROVE  LET rules == in.policy.rules
             n == Len(rules)
             tree == Tree(Original(in))
             outcome == Outcome(in)
         IN  /\ AsAsked(rules, n, tree, outcome.value)
             /\ NoMore(rules, n, tree, outcome.value)
             /\ \A i \in 1..n :
                  /\ rules[i].required_hits > 0 /\ Forestalled(rules, i, tree)
                       => rules[i].rule_id \in outcome.unapplied
                  /\ Untouched(rules, i, tree)
                       => \E row \in outcome.applied :
                            row.rule_id = rules[i].rule_id /\ row.hits > 0
             /\ \A id \in outcome.unapplied :
                  \E i \in 1..n :
                    /\ rules[i].rule_id = id
                    /\ rules[i].required_hits > 1 \/ ~Untouched(rules, i, tree)
<1> DEFINE policy == in.policy
           rules == policy.rules
           n == Len(rules)
           tree == Tree(Original(in))
           after == After(rules, tree)
           hits == [i \in 1..n |-> Hits(rules[i], after[i - 1])]
           outcome == Outcome(in)
<1>1. Sane(policy) /\ n \in Nat /\ \A i \in 1..n : SaneRule(rules[i])
  BY PolicyIsSane DEF Sane
<1>2. Ordered(tree) /\ IsFiniteSet(DOMAIN tree)
  BY OriginalIsFinite, TreeIs
<1>3. \A k \in Nat : k <= n => Exact(rules, k, tree, after[k])
  BY <1>1, <1>2, AfterIsExact
<1>4. /\ outcome.value = after[n]
      /\ outcome.applied = {[rule_id |-> rules[i].rule_id, hits |-> hits[i]] : i \in DOMAIN hits}
      /\ outcome.unapplied = {rules[i].rule_id :
                                i \in {j \in DOMAIN hits : hits[j] < rules[j].required_hits}}
  BY DEF Outcome, ApplyPolicy, RedactionOutcome
<1>5. DOMAIN hits = 1..n /\ \A i \in 1..n : hits[i] = Hits(rules[i], after[i - 1])
  OBVIOUS
<1> HIDE DEF after, hits, outcome, tree, rules, n, policy
<1>6. AsAsked(rules, n, tree, outcome.value) /\ NoMore(rules, n, tree, outcome.value)
  BY <1>1, <1>3, <1>4 DEF Exact
<1>7. ASSUME NEW i \in 1..n
      PROVE  /\ Forestalled(rules, i, tree) => hits[i] = 0
             /\ Untouched(rules, i, tree) => hits[i] \in Nat \ {0}
  <2>1. i \in Nat \ {0} /\ i - 1 \in Nat /\ i - 1 <= n
    BY <1>1
  <2>2. Exact(rules, i - 1, tree, after[i - 1]) /\ SaneRule(rules[i])
    BY <1>1, <1>3, <2>1
  <2>3. Forestalled(rules, i, tree) => Hits(rules[i], after[i - 1]) = 0
    BY <2>1, <2>2, ForestalledIsIdle
  <2>4. Untouched(rules, i, tree) => Hits(rules[i], after[i - 1]) \in Nat \ {0}
    BY <1>2, <2>1, <2>2, UntouchedIsCounted
  <2> QED BY <1>5, <2>3, <2>4
<1>8. \A i \in 1..n : rules[i].required_hits \in Nat
  BY <1>1 DEF SaneRule
<1>9. ASSUME NEW i \in 1..n, rules[i].required_hits > 0, Forestalled(rules, i, tree)
      PROVE  rules[i].rule_id \in outcome.unapplied
  <2>1. hits[i] < rules[i].required_hits
    BY <1>7, <1>8, <1>9
  <2> QED BY <1>4, <1>5, <2>1
<1>10. ASSUME NEW i \in 1..n, Untouched(rules, i, tree)
       PROVE  \E row \in outcome.applied : row.rule_id = rules[i].rule_id /\ row.hits > 0
  <2>1. hits[i] > 0
    BY <1>7, <1>10
  <2>2. [rule_id |-> rules[i].rule_id, hits |-> hits[i]] \in outcome.applied
    BY <1>4, <1>5
  <2> QED BY <2>1, <2>2
<1>11. ASSUME NEW id \in outcome.unapplied
       PROVE  \E i \in 1..n : /\ rules[i].rule_id = id
                              /\ rules[i].required_hits > 1 \/ ~Untouched(rules, i, tree)
  <2>1. PICK i \in 1..n : rules[i].rule_id = id /\ hits[i] < rules[i].required_hits
    BY <1>4, <1>5
  <2>2. Untouched(rules, i, tree) => rules[i].required_hits > 1
    BY <1>7, <1>8, <2>1
  <2> QED BY <2>1, <2>2
<1> QED BY <1>6, <1>9, <1>10, <1>11 DEF outcome, tree, rules, n, policy

\* A document read for an arm has places of the arm's own kinds and evidence, and
\* redaction keeps to them.
LEMMA OutcomePlaces ==
  ASSUME NEW in \in Inputs
  PROVE  \A p \in DOMAIN Doc(in) : Place(in, p)
<1> DEFINE doc(part) == IF part = "evidence" THEN in.fixture.doc ELSE in.recordings[part].doc
<1>1. DOMAIN Original(in) = UNION {{part} \X (DOMAIN doc(part)) : part \in Parts}
  BY DEF Original, PreRedaction
<1>2. DOMAIN Doc(in) \subseteq DOMAIN Original(in)
  BY DEF Doc, Outcome, ApplyPolicy, RedactionOutcome, Readable
<1> SUFFICES ASSUME NEW p \in DOMAIN Original(in) PROVE Place(in, p)
  BY <1>2
<1>3. PICK part \in Parts : p \in {part} \X (DOMAIN doc(part))
  BY <1>1
<1>4. p = <<p[1], p[2]>> /\ p[1] = part /\ p[2] \in DOMAIN doc(part)
  BY <1>3
<1>5. p[2] \in DOMAIN in.fixture.doc \cup UNION {DOMAIN in.recordings[arm].doc : arm \in Arms}
  BY <1>4 DEF Parts
<1>6. p[2] = <<p[2][1], p[2][2]>>
  BY <1>5, InputsAssumption
<1> QED BY <1>4, <1>6 DEF Place

\* What is counted is about rules of the policy.
LEMMA OutcomeRules ==
  ASSUME NEW in
  PROVE  {r.rule_id : r \in Outcome(in).applied} = RuleIds(in.policy)
<1> DEFINE rules == in.policy.rules
           hits == [i \in 1..Len(rules) |->
                      Hits(rules[i], After(rules, Tree(Original(in)))[i - 1])]
           row(i) == [rule_id |-> rules[i].rule_id, hits |-> hits[i]]
<1>1. Outcome(in).applied = {row(i) : i \in 1..Len(rules)}
  BY DEF Outcome, ApplyPolicy, RedactionOutcome
<1>2. \A i : row(i).rule_id = rules[i].rule_id
  OBVIOUS
<1> HIDE DEF row
<1> QED BY <1>1, <1>2 DEF RuleIds

-----------------------------------------------------------------------------
(* The bundle of an arm and what the arm contracts say of it.              *)

\* An input whose recordings are those of the arms, under a policy that applies.
Replayed(in) ==
  /\ in \in Inputs /\ ~RedactionRaises(in.policy)
  /\ \A arm \in Arms : in.recordings[arm].arm_id = arm

Public(in, arm) ==
  {p \in DOMAIN Doc(in) : \/ p[1] = arm
                          \/ p[1] = "evidence" /\ p[2][1] = "summary"}

\* The bundle of an arm, from its document after redaction.
LEMMA BundleIs ==
  ASSUME NEW in, Replayed(in), NEW arm \in Arms
  PROVE  LET b == BundleOf(in, arm)
         IN  /\ b.arm_id = arm
             /\ b.model = in.recordings[arm].model /\ b.tools = in.recordings[arm].tools
             /\ b.config = in.recordings[arm].config
             /\ b.fixture = in.fixture /\ b.gaps = in.fixture.gaps
             /\ b.claims = [n \in Items(Doc(in), arm, "claim") |->
                              in.recordings[arm].claims[n]]
             /\ b.doc = [p \in Public(in, arm) |-> Doc(in)[p]]
             /\ b.redaction = Accounting(in.policy, Outcome(in))
<1>1. in.recordings[arm].arm_id = arm
  BY DEF Replayed
<1> QED BY <1>1 DEF BundleOf, Bundle, Public, Doc

\* What a bundle lists of steps, claims and evidence is what the document has.
LEMMA BundleItems ==
  ASSUME NEW in, Replayed(in), NEW arm \in Arms
  PROVE  LET b == BundleOf(in, arm)
         IN  /\ \A kind : Items(b.doc, arm, kind) = Items(Doc(in), arm, kind)
             /\ \A kind : Texts(b.doc, arm, kind) = Texts(Doc(in), arm, kind)
             /\ Evidence(b) = Items(Doc(in), "evidence", "summary")
             /\ Steps(b) = Items(Doc(in), arm, "step")
             /\ Limitations(b) = Texts(Doc(in), arm, "limitation")
             /\ DOMAIN b.claims = Items(Doc(in), arm, "claim")
             /\ \A n \in DOMAIN b.claims :
                  /\ b.claims[n] = in.recordings[arm].claims[n]
                  /\ Statement(b, n) = Doc(in)[<<arm, <<"claim", n>>>>]
<1> DEFINE b == BundleOf(in, arm)
           doc == Doc(in)
<1>1. /\ b.arm_id = arm /\ b.doc = [p \in Public(in, arm) |-> doc[p]]
      /\ b.claims = [n \in Items(doc, arm, "claim") |-> in.recordings[arm].claims[n]]
  BY BundleIs
<1>2. arm # "evidence"
  BY DEF Arms
<1> HIDE DEF b, doc
<1>3. DOMAIN b.doc = Public(in, arm) /\ \A p \in Public(in, arm) : b.doc[p] = doc[p]
  BY <1>1
<1>4. \A kind : {q \in DOMAIN b.doc : q[1] = arm /\ q[2][1] = kind}
                = {q \in DOMAIN doc : q[1] = arm /\ q[2][1] = kind}
  BY <1>3 DEF Public, doc
<1>5. \A kind : Items(b.doc, arm, kind) = Items(doc, arm, kind)
  BY <1>4 DEF Items
<1>6. \A kind : Texts(b.doc, arm, kind) = Texts(doc, arm, kind)
  <2> TAKE kind
  <2> DEFINE places == {q \in DOMAIN doc : q[1] = arm /\ q[2][1] = kind}
  <2>1. places \subseteq Public(in, arm)
    BY DEF Public, doc
  <2>2. Texts(b.doc, arm, kind) = {b.doc[p] : p \in places}
    BY <1>4 DEF Texts
  <2>3. \A p \in places : b.doc[p] = doc[p]
    BY <1>3, <2>1
  <2>4. Texts(doc, arm, kind) = {doc[p] : p \in places}
    BY DEF Texts
  <2> HIDE DEF places
  <2> QED BY <2>2, <2>3, <2>4
<1>7. Items(b.doc, "evidence", "summary") = Items(doc, "evidence", "summary")
  <2>1. {q \in DOMAIN b.doc : q[1] = "evidence" /\ q[2][1] = "summary"}
          = {q \in DOMAIN doc : q[1] = "evidence" /\ q[2][1] = "summary"}
    BY <1>3 DEF Public, doc
  <2> QED BY <2>1 DEF Items
<1>8. ASSUME NEW n \in Items(doc, arm, "claim")
      PROVE  Statement(b, n) = doc[<<arm, <<"claim", n>>>>]
  <2>1. PICK p \in DOMAIN doc : p[1] = arm /\ p[2][1] = "claim" /\ p[2][2] = n
    BY <1>8 DEF Items
  <2>2. Place(in, p)
    BY OutcomePlaces DEF Replayed, doc
  <2>3. p = <<arm, <<"claim", n>>>>
    BY <2>1, <2>2 DEF Place
  <2>4. <<arm, <<"claim", n>>>> \in Public(in, arm)
    BY <2>1, <2>3 DEF Public, doc
  <2> QED BY <1>1, <1>3, <2>4 DEF Statement
<1>9. DOMAIN b.claims = Items(doc, arm, "claim")
      /\ \A n \in DOMAIN b.claims : b.claims[n] = in.recordings[arm].claims[n]
  BY <1>1
<1> QED BY <1>1, <1>5, <1>6, <1>7, <1>8, <1>9 DEF Evidence, Steps, Limitations, b, doc

\* The arm contracts admit a bundle exactly if its claims stay inside the bound.
LEMMA ArmAdmits ==
  ASSUME NEW in, Replayed(in), NEW arm \in Arms
  PROVE  ReceiptOf(in, arm).body.admission = "ADMIT" <=> Clean(in, Doc(in), arm)
<1> DEFINE b == BundleOf(in, arm)
           doc == Doc(in)
           claims == in.recordings[arm].claims
           names == Items(doc, arm, "claim")
           limitations == Texts(doc, arm, "limitation")
           evidence == Items(doc, "evidence", "summary")
<1>1. /\ DOMAIN b.claims = names /\ Evidence(b) = evidence /\ Limitations(b) = limitations
      /\ b.gaps = in.fixture.gaps
      /\ \A n \in names : /\ b.claims[n] = claims[n]
                           /\ Statement(b, n) = doc[<<arm, <<"claim", n>>>>]
  <2>1. /\ DOMAIN b.claims = names /\ Evidence(b) = evidence /\ Limitations(b) = limitations
        /\ \A n \in DOMAIN b.claims : /\ b.claims[n] = claims[n]
                                      /\ Statement(b, n) = doc[<<arm, <<"claim", n>>>>]
    BY BundleItems
  <2>2. b.gaps = in.fixture.gaps
    BY BundleIs
  <2> HIDE DEF b, doc, claims, names, limitations, evidence
  <2> QED BY <2>1, <2>2
<1>2. ReceiptOf(in, arm).body.admission = "ADMIT"
        <=> \A check \in ArmChecks : Finds(check, b) \subseteq {"MEASUREMENT"}
  BY SubmitAdmits DEF Suite, ReceiptOf, ArmContracts, ArmPolicy
<1> HIDE DEF b, doc, claims, names, limitations, evidence
<1>3. ReportShape(b) \subseteq {"MEASUREMENT"} <=> \A n \in names : claims[n].named
  BY <1>1 DEF ReportShape, If
<1>4. ClaimScope(b) \subseteq {"MEASUREMENT"} <=> \A n \in names : claims[n].scoped
  BY <1>1 DEF ClaimScope, Measured, If
<1>5. ClaimOverbroad(b) \subseteq {"MEASUREMENT"}
        <=> \A n \in names : doc[<<arm, <<"claim", n>>>>] \cap Lexicon = {}
  BY <1>1 DEF ClaimOverbroad, Measured, If
<1>6. ClaimCitations(b) \subseteq {"MEASUREMENT"}
        <=> \A n \in names : claims[n].refs # {} /\ claims[n].refs \subseteq evidence
  BY <1>1 DEF ClaimCitations, Measured, If
<1>7. ClaimLimitations(b) \subseteq {"MEASUREMENT"}
        <=> /\ limitations # {}
            /\ \A gap \in in.fixture.gaps : \E item \in limitations : gap \in item
  BY <1>1 DEF ClaimLimitations, Measured, If
<1>8. (\A check \in ArmChecks : Finds(check, b) \subseteq {"MEASUREMENT"})
        <=> /\ ReportShape(b) \subseteq {"MEASUREMENT"} /\ ClaimScope(b) \subseteq {"MEASUREMENT"}
            /\ ClaimOverbroad(b) \subseteq {"MEASUREMENT"}
            /\ ClaimCitations(b) \subseteq {"MEASUREMENT"}
            /\ ClaimLimitations(b) \subseteq {"MEASUREMENT"}
  BY DEF Finds, ArmChecks
<1>9. Clean(in, doc, arm)
        <=> /\ \A n \in names : /\ claims[n].named /\ claims[n].scoped
                                 /\ claims[n].refs # {} /\ claims[n].refs \subseteq evidence
                                 /\ doc[<<arm, <<"claim", n>>>>] \cap Lexicon = {}
            /\ limitations # {}
            /\ \A gap \in in.fixture.gaps : \E item \in limitations : gap \in item
  BY DEF Clean, claims, names, limitations, evidence
<1> QED BY <1>2, <1>3, <1>4, <1>5, <1>6, <1>7, <1>8, <1>9 DEF doc

-----------------------------------------------------------------------------
(* The package artifact and what the package contracts say of it.          *)

\* An input that gets as far as the package.
Buildable(in) == Replayed(in) /\ ~Spoilt(Outcome(in))

\* What the package artifact takes from the bundles.
LEMMA ArtifactIs ==
  ASSUME NEW in
  PROVE  LET a == ArtifactOf(in)
         IN  /\ \A arm \in Arms : /\ Of(a, arm) = BundleOf(in, arm)
                                 /\ a.arms[arm].document = BundleOf(in, arm)
                                 /\ a.arms[arm].arm_id = arm
                                 /\ a.arms[arm].xi = Summary(ReceiptOf(in, arm))
             /\ a.variable = in.spec.variable
             /\ a.declared.model = in.spec.model /\ a.declared.tools = in.spec.tools
             /\ a.declared.config = in.spec.config
             /\ a.redaction.policy = in.policy /\ a.redaction.rule_ids = RuleIds(in.policy)
             /\ a.redaction.deny = in.policy.deny
             /\ a.projection.text = in.spec.claim \cup in.spec.labels \cup
                  UNION {UNION Texts(BundleOf(in, arm).doc, arm, "claim") : arm \in Arms}
<1> DEFINE a == ArtifactOf(in)
           bundles == [arm \in Arms |-> BundleOf(in, arm)]
           receipts1 == [arm \in Arms |-> ReceiptOf(in, arm)]
           arms == [arm \in Arms |-> [arm_id |-> arm, document |-> bundles[arm],
                                      evidence |-> bundles[arm], xi |-> Summary(receipts1[arm])]]
<1>1. \A arm \in Arms : bundles[arm] = BundleOf(in, arm) /\ receipts1[arm] = ReceiptOf(in, arm)
  OBVIOUS
<1>2. /\ a.arms = arms
      /\ a.variable = in.spec.variable
      /\ a.declared.model = in.spec.model /\ a.declared.tools = in.spec.tools
      /\ a.declared.config = in.spec.config
      /\ a.redaction.policy = in.policy /\ a.redaction.rule_ids = RuleIds(in.policy)
      /\ a.redaction.deny = in.policy.deny
      /\ a.projection.text = in.spec.claim \cup in.spec.labels \cup
           UNION {UNION Texts(bundles[arm].doc, arm, "claim") : arm \in Arms}
  BY DEF ArtifactOf, Artifact
<1> HIDE DEF a, bundles, receipts1
<1>3. \A arm \in Arms : /\ Of(a, arm) = bundles[arm] /\ a.arms[arm].document = bundles[arm]
                        /\ a.arms[arm].arm_id = arm
                        /\ a.arms[arm].xi = Summary(receipts1[arm])
  BY <1>2 DEF Of
<1>4. {UNION Texts(bundles[arm].doc, arm, "claim") : arm \in Arms}
        = {UNION Texts(BundleOf(in, arm).doc, arm, "claim") : arm \in Arms}
  BY <1>1
<1> QED BY <1>1, <1>2, <1>3, <1>4 DEF a

\* The keys in which the arms' configurations differ.
Differing(in) ==
  {key \in Keys : in.recordings["baseline"].config[key]
                    # in.recordings["augmented"].config[key]}

\* What the four checks of parity find.
LEMMA ParityIs ==
  ASSUME NEW in, Replayed(in)
  PROVE  LET arm == in.recordings
         IN  /\ Finds("proof.parity.model", ArtifactOf(in))
                   = Parity(arm["baseline"].model, arm["augmented"].model,
                            "MODEL_IDENTITY_MISMATCH")
             /\ Finds("proof.parity.tool_surface", ArtifactOf(in))
                   = Parity(arm["baseline"].tools, arm["augmented"].tools,
                            "TOOL_SURFACE_MISMATCH")
             /\ Finds("proof.parity.fixture", ArtifactOf(in)) = {"MEASUREMENT"}
             /\ Finds("proof.arms.bound", ArtifactOf(in)) = {"MEASUREMENT"}
<1> DEFINE a == ArtifactOf(in)
<1>1. \A arm \in Arms : /\ Of(a, arm) = BundleOf(in, arm) /\ a.arms[arm].document = Of(a, arm)
                        /\ a.arms[arm].arm_id = arm
  BY ArtifactIs
<1> HIDE DEF a
<1>2. \A arm \in Arms : /\ Of(a, arm).model = in.recordings[arm].model
                        /\ Of(a, arm).tools = in.recordings[arm].tools
                        /\ Of(a, arm).fixture = in.fixture /\ Of(a, arm).arm_id = arm
  <2>1. \A arm \in Arms : /\ BundleOf(in, arm).model = in.recordings[arm].model
                          /\ BundleOf(in, arm).tools = in.recordings[arm].tools
                          /\ BundleOf(in, arm).fixture = in.fixture
                          /\ BundleOf(in, arm).arm_id = arm
    <3> TAKE arm \in Arms
    <3> QED BY BundleIs
  <2> QED BY <1>1, <2>1
<1>3. "baseline" \in Arms /\ "augmented" \in Arms
  BY DEF Arms
<1>4. Parity(in.fixture, in.fixture, "FIXTURE_IDENTITY_MISMATCH") = {"MEASUREMENT"}
  BY DEF Parity
<1>5. ArmBinding(a) = {"MEASUREMENT"}
  BY <1>1, <1>2 DEF ArmBinding, Measured, If
<1> QED BY <1>2, <1>3, <1>4, <1>5 DEF Finds, a

\* What the check of the configurations finds.
LEMMA ConfigIs ==
  ASSUME NEW in, Replayed(in)
  PROVE  LET config(arm) == in.recordings[arm].config
             variable == in.spec.variable
             absent == \/ variable.name \notin Differing(in)
                       \/ ~Alike(Recorded(config("baseline"), variable.name), variable.baseline)
                       \/ ~Alike(Recorded(config("augmented"), variable.name), variable.augmented)
         IN  Finds("proof.parity.config", ArtifactOf(in))
               = Measured(If(absent, "CHANGED_VARIABLE_ABSENT")
                            \cup If(Differing(in) \ {variable.name} # {},
                                    "CONFIG_DRIFT_UNDECLARED"))
<1> DEFINE a == ArtifactOf(in)
<1>1. a.variable = in.spec.variable /\ \A arm \in Arms : Of(a, arm) = BundleOf(in, arm)
  BY ArtifactIs
<1> HIDE DEF a
<1>2. \A arm \in Arms : Of(a, arm).config = in.recordings[arm].config
  <2>1. \A arm \in Arms : BundleOf(in, arm).config = in.recordings[arm].config
    <3> TAKE arm \in Arms
    <3> QED BY BundleIs
  <2> QED BY <1>1, <2>1
<1>3. "baseline" \in Arms /\ "augmented" \in Arms
  BY DEF Arms
<1>4. Finds("proof.parity.config", a) = ParityConfig(a)
  BY DEF Finds
<1> QED BY <1>1, <1>2, <1>3, <1>4 DEF ParityConfig, Differing, a

\* What the check of the spec finds.
LEMMA FaithfulIs ==
  ASSUME NEW in, Replayed(in)
  PROVE  LET faithful(arm) == /\ in.recordings[arm].model = in.spec.model
                              /\ in.recordings[arm].tools = in.spec.tools
                              /\ in.recordings[arm].config = in.spec.config[arm]
         IN  Finds("proof.spec.faithful", ArtifactOf(in)) \subseteq {"MEASUREMENT"}
               <=> \A arm \in Arms : faithful(arm)
<1> DEFINE a == ArtifactOf(in)
<1>1. /\ a.declared.model = in.spec.model /\ a.declared.tools = in.spec.tools
      /\ a.declared.config = in.spec.config
      /\ \A arm \in Arms : Of(a, arm) = BundleOf(in, arm)
  BY ArtifactIs
<1> HIDE DEF a
<1>2. \A arm \in Arms : /\ Of(a, arm).model = in.recordings[arm].model
                        /\ Of(a, arm).tools = in.recordings[arm].tools
                        /\ Of(a, arm).config = in.recordings[arm].config
  <2>1. \A arm \in Arms : /\ BundleOf(in, arm).model = in.recordings[arm].model
                          /\ BundleOf(in, arm).tools = in.recordings[arm].tools
                          /\ BundleOf(in, arm).config = in.recordings[arm].config
    <3> TAKE arm \in Arms
    <3> QED BY BundleIs
  <2> QED BY <1>1, <2>1
<1>3. Finds("proof.spec.faithful", a) = SpecFaithful(a)
  BY DEF Finds
<1>4. SpecFaithful(a) \subseteq {"MEASUREMENT"}
        <=> \A arm \in Arms : /\ Of(a, arm).model = in.spec.model
                              /\ Of(a, arm).tools = in.spec.tools
                              /\ Of(a, arm).config = in.spec.config[arm]
  BY <1>1 DEF SpecFaithful, Measured, If
<1> QED BY <1>2, <1>3, <1>4 DEF a

\* What the check of the evidence finds.
LEMMA CompleteIs ==
  ASSUME NEW in, Buildable(in)
  PROVE  Finds("proof.evidence.complete", ArtifactOf(in))
           = Measured(If(~Substantial(Doc(in)), "EVIDENCE_INCOMPLETE"))
<1> DEFINE a == ArtifactOf(in)
<1>1. \A arm \in Arms : /\ Of(a, arm) = BundleOf(in, arm)
                        /\ a.arms[arm].xi = Summary(ReceiptOf(in, arm))
  BY ArtifactIs
<1> HIDE DEF a
<1>2. Replayed(in)
  BY DEF Buildable
<1>3. \A arm \in Arms : /\ Steps(Of(a, arm)) = Items(Doc(in), arm, "step")
                        /\ DOMAIN Of(a, arm).claims = Items(Doc(in), arm, "claim")
                        /\ Evidence(Of(a, arm)) # {}
  BY <1>1, <1>2, BundleItems DEF Buildable, Spoilt, Assembles, Doc
<1>4. \A arm \in Arms : a.arms[arm].xi.verdicts # {}
  BY <1>1, SubmitRecords DEF ReceiptOf, ArmContracts, ArmPolicy, Suite
<1>5. Finds("proof.evidence.complete", a) = EvidenceComplete(a)
  BY DEF Finds
<1>6. (\E arm \in Arms : \/ Cardinality(Steps(Of(a, arm))) < MinTranscriptSteps
                         \/ Evidence(Of(a, arm)) = {}
                         \/ DOMAIN Of(a, arm).claims = {}
                         \/ a.arms[arm].xi.verdicts = {})
        <=> ~Substantial(Doc(in))
  BY <1>3, <1>4 DEF Substantial
<1> QED BY <1>5, <1>6 DEF EvidenceComplete, If, a

\* What the check of the claim finds.
LEMMA SupportIs ==
  ASSUME NEW in, Replayed(in)
  PROVE  Finds("proof.claim.supported", ArtifactOf(in))
           = Measured(If(Clean(in, Doc(in), "baseline") \/ ~Clean(in, Doc(in), "augmented"),
                         "CLAIM_UNSUPPORTED"))
<1> DEFINE a == ArtifactOf(in)
           body(arm) == ReceiptOf(in, arm).body
<1>1. "baseline" \in Arms /\ "augmented" \in Arms
  BY DEF Arms
<1>2. \A arm \in Arms : a.arms[arm].xi = Summary(ReceiptOf(in, arm))
  BY ArtifactIs
<1> HIDE DEF a
<1>3. \A arm \in Arms : /\ a.arms[arm].xi.admission = body(arm).admission
                        /\ a.arms[arm].xi.blocking = body(arm).blocking
  <2>1. \A receipt : /\ Summary(receipt).admission = receipt.body.admission
                     /\ Summary(receipt).blocking = receipt.body.blocking
    BY DEF Summary
  <2> QED BY <1>2, <2>1
<1>4. \A arm \in Arms : /\ body(arm).admission \in {"ADMIT", "REVIEW", "REJECT", "ERROR"}
                        /\ body(arm).admission = "ADMIT" <=> body(arm).blocking = {}
  BY SubmitRecords DEF ReceiptOf, ArmContracts, ArmPolicy, Suite
<1>5. \A arm \in Arms : body(arm).admission = "ADMIT" <=> Clean(in, Doc(in), arm)
  BY ArmAdmits
<1>6. Finds("proof.claim.supported", a) = ClaimSupported(a)
  BY DEF Finds
<1> HIDE DEF body
<1>7. (\/ a.arms["baseline"].xi.admission \notin {"REJECT", "ERROR", "REVIEW"}
       \/ a.arms["augmented"].xi.admission # "ADMIT"
       \/ a.arms["baseline"].xi.blocking = {}
       \/ a.arms["baseline"].xi.blocking \cap a.arms["augmented"].xi.blocking # {})
        <=> Clean(in, Doc(in), "baseline") \/ ~Clean(in, Doc(in), "augmented")
  BY <1>1, <1>3, <1>4, <1>5
<1> QED BY <1>6, <1>7 DEF ClaimSupported, If, a

\* The texts that the package publishes or hands on.
LEMMA SafeIs ==
  ASSUME NEW in, Replayed(in)
  PROVE  Finds("proof.redaction.public_safe", ArtifactOf(in))
           = Measured(If(~Safe(in, Doc(in)), "SENSITIVE_VALUE_PRESENT")
                        \cup If(Outcome(in).unapplied # {}, "REDACTION_POLICY_VIOLATION"))
<1> DEFINE a == ArtifactOf(in)
           doc == Doc(in)
           deny == in.policy.deny
           text == in.spec.claim \cup in.spec.labels \cup
                     UNION {UNION Texts(doc, arm, "claim") : arm \in Arms}
           surface(arm) == (UNION {doc[p] : p \in Public(in, arm)}) \cup in.fixture.gaps
           surfaces == {text} \cup {surface(arm) : arm \in Arms}
<1>1. /\ a.redaction.policy = in.policy /\ a.redaction.rule_ids = RuleIds(in.policy)
      /\ a.redaction.deny = deny /\ deny # {}
      /\ \A arm \in Arms : Of(a, arm) = BundleOf(in, arm)
  <2>1. in.policy.deny # {}
    BY InputsAssumption DEF Replayed
  <2> QED BY <2>1, ArtifactIs
<1>2. a.projection.text = text
  <2>1. \A arm \in Arms : Texts(BundleOf(in, arm).doc, arm, "claim") = Texts(doc, arm, "claim")
    BY BundleItems
  <2>2. {UNION Texts(BundleOf(in, arm).doc, arm, "claim") : arm \in Arms}
          = {UNION Texts(doc, arm, "claim") : arm \in Arms}
    BY <2>1
  <2>3. a.projection.text = in.spec.claim \cup in.spec.labels \cup
          UNION {UNION Texts(BundleOf(in, arm).doc, arm, "claim") : arm \in Arms}
    BY ArtifactIs
  <2> HIDE DEF a, doc
  <2> QED BY <2>2, <2>3
<1>3. \A arm \in Arms : Surface(BundleOf(in, arm)) = surface(arm)
  <2> TAKE arm \in Arms
  <2>1. /\ BundleOf(in, arm).doc = [p \in Public(in, arm) |-> doc[p]]
        /\ BundleOf(in, arm).gaps = in.fixture.gaps
    BY BundleIs
  <2> HIDE DEF doc
  <2>2. {BundleOf(in, arm).doc[p] : p \in DOMAIN BundleOf(in, arm).doc}
          = {doc[p] : p \in Public(in, arm)}
    BY <2>1
  <2> QED BY <2>1, <2>2 DEF Surface
<1>4. {a.projection.text} \cup {Surface(Of(a, arm)) : arm \in Arms} = surfaces
  <2>1. {Surface(Of(a, arm)) : arm \in Arms} = {surface(arm) : arm \in Arms}
    BY <1>1, <1>3
  <2> HIDE DEF a, surface, text
  <2> QED BY <1>2, <2>1
<1>5. \A arm \in Arms : Of(a, arm).redaction = Accounting(in.policy, Outcome(in))
  <2>1. \A arm \in Arms : BundleOf(in, arm).redaction = Accounting(in.policy, Outcome(in))
    <3> TAKE arm \in Arms
    <3> QED BY BundleIs
  <2> QED BY <1>1, <2>1
<1>6. (\E s \in surfaces : s \cap deny # {}) <=> ~Safe(in, doc)
  <2>1. Safe(in, doc) <=>
          /\ deny \cap (in.fixture.gaps \cup in.spec.claim \cup in.spec.labels) = {}
          /\ \A p \in DOMAIN doc : p[1] \in Arms \/ p[2][1] = "summary" => doc[p] \cap deny = {}
    BY <1>1 DEF Safe
  <2>2. \A p \in DOMAIN doc : p[1] \in Arms \/ p[2][1] = "summary"
                              <=> \E arm \in Arms : p \in Public(in, arm)
    BY OutcomePlaces DEF Place, Parts, Public, Arms, Replayed
  <2>3. \A arm \in Arms : Public(in, arm) \subseteq DOMAIN doc
    BY DEF Public
  <2>4. \A arm \in Arms : \A t \in Texts(doc, arm, "claim") :
          \E p \in Public(in, arm) : t = doc[p]
    BY DEF Texts, Public
  <2> HIDE DEF doc, deny
  <2>5. ASSUME Safe(in, doc), NEW s \in surfaces PROVE s \cap deny = {}
    <3>1. CASE s = text
      <4>1. \A arm \in Arms : \A t \in Texts(doc, arm, "claim") : t \cap deny = {}
        BY <2>1, <2>2, <2>3, <2>4, <2>5
      <4> QED BY <2>1, <2>5, <3>1, <4>1
    <3>2. CASE \E arm \in Arms : s = surface(arm)
      <4>1. PICK arm \in Arms : s = surface(arm)
        BY <3>2
      <4>2. \A p \in Public(in, arm) : doc[p] \cap deny = {}
        BY <2>1, <2>2, <2>3, <2>5
      <4>3. (UNION {doc[p] : p \in Public(in, arm)}) \cap deny = {}
        BY <4>2
      <4>4. in.fixture.gaps \cap deny = {}
        BY <2>1, <2>5
      <4> QED BY <4>1, <4>3, <4>4
    <3> HIDE DEF text, surface
    <3> QED BY <2>5, <3>1, <3>2
  <2>6. ASSUME \A s \in surfaces : s \cap deny = {} PROVE Safe(in, doc)
    <3>1. text \cap deny = {} /\ \A arm \in Arms : surface(arm) \cap deny = {}
      <4> HIDE DEF text, surface
      <4> QED BY <2>6
    <3>2. "baseline" \in Arms
      BY DEF Arms
    <3>3. deny \cap (in.fixture.gaps \cup in.spec.claim \cup in.spec.labels) = {}
      <4>1. (in.spec.claim \cup in.spec.labels) \cap deny = {}
        BY <3>1
      <4>2. surface("baseline") \cap deny = {}
        BY <3>1, <3>2
      <4>3. in.fixture.gaps \cap deny = {}
        BY <4>2
      <4> QED BY <4>1, <4>3
    <3>4. \A arm \in Arms : \A p \in Public(in, arm) : doc[p] \cap deny = {}
      BY <3>1
    <3> QED BY <2>1, <2>2, <3>3, <3>4
  <2> HIDE DEF surfaces
  <2> QED BY <2>5, <2>6
<1>7. (\E account \in {Of(a, arm).redaction : arm \in Arms} :
         \/ account.policy # a.redaction.policy \/ account.unapplied # {}
         \/ {r.rule_id : r \in account.applied} # a.redaction.rule_ids)
        <=> Outcome(in).unapplied # {}
  <2> DEFINE account == Accounting(in.policy, Outcome(in))
  <2>1. {Of(a, arm).redaction : arm \in Arms} = {account}
    BY <1>5 DEF Arms
  <2>2. account.policy = in.policy /\ account.unapplied = Outcome(in).unapplied
        /\ account.applied = Outcome(in).applied
    BY DEF Accounting
  <2>3. {r.rule_id : r \in account.applied} = RuleIds(in.policy)
    BY <2>2, OutcomeRules
  <2> HIDE DEF account
  <2> QED BY <1>1, <2>1, <2>2, <2>3
<1>8. Finds("proof.redaction.public_safe", a) = PublicSafe(a)
  BY DEF Finds
<1> HIDE DEF a, doc, deny, surfaces
<1>9. PublicSafe(a) = Measured(If(\E s \in surfaces : s \cap deny # {}, "SENSITIVE_VALUE_PRESENT")
                        \cup If(Outcome(in).unapplied # {}, "REDACTION_POLICY_VIOLATION"))
  BY <1>1, <1>4, <1>7 DEF PublicSafe, If
<1> QED BY <1>6, <1>8, <1>9 DEF If, a, doc

\* Each check of the package contracts, by what it finds.
LEMMA PackageFinds ==
  ASSUME NEW in, Buildable(in)
  PROVE  LET a == ArtifactOf(in)
             arm == in.recordings
             config(which) == arm[which].config
             variable == in.spec.variable
             absent == \/ variable.name \notin Differing(in)
                       \/ ~Alike(Recorded(config("baseline"), variable.name), variable.baseline)
                       \/ ~Alike(Recorded(config("augmented"), variable.name), variable.augmented)
         IN  /\ Finds("proof.artifact_shape", a) = {}
             /\ Finds("proof.parity.model", a)
                   = If(arm["baseline"].model # arm["augmented"].model, "MODEL_IDENTITY_MISMATCH")
                       \cup If(arm["baseline"].model = arm["augmented"].model, "MEASUREMENT")
             /\ Finds("proof.parity.tool_surface", a)
                   = If(arm["baseline"].tools # arm["augmented"].tools, "TOOL_SURFACE_MISMATCH")
                       \cup If(arm["baseline"].tools = arm["augmented"].tools, "MEASUREMENT")
             /\ Finds("proof.parity.fixture", a) = {"MEASUREMENT"}
             /\ Finds("proof.arms.bound", a) = {"MEASUREMENT"}
             /\ Finds("proof.parity.config", a) \ {"MEASUREMENT"}
                   = If(absent, "CHANGED_VARIABLE_ABSENT")
                       \cup If(Differing(in) \ {variable.name} # {}, "CONFIG_DRIFT_UNDECLARED")
             /\ Finds("proof.spec.faithful", a) \subseteq {"MEASUREMENT", "CONTRADICTION_DETECTED"}
             /\ Finds("proof.evidence.complete", a) \ {"MEASUREMENT"}
                   = If(~Substantial(Doc(in)), "EVIDENCE_INCOMPLETE")
             /\ Finds("proof.claim.supported", a) \ {"MEASUREMENT"}
                   = If(Clean(in, Doc(in), "baseline") \/ ~Clean(in, Doc(in), "augmented"),
                        "CLAIM_UNSUPPORTED")
             /\ Finds("proof.redaction.public_safe", a) \ {"MEASUREMENT"}
                   = If(~Safe(in, Doc(in)), "SENSITIVE_VALUE_PRESENT")
                       \cup If(Outcome(in).unapplied # {}, "REDACTION_POLICY_VIOLATION")
<1>1. Replayed(in)
  BY DEF Buildable
<1>2. \A codes : "MEASUREMENT" \notin codes => Measured(codes) \ {"MEASUREMENT"} = codes
  BY DEF Measured
<1> DEFINE a == ArtifactOf(in)
<1> HIDE DEF a
<1>3. Finds("proof.artifact_shape", a) = {}
  BY DEF Finds
<1>4. \A l, r, code : Parity(l, r, code) = If(l # r, code) \cup If(l = r, "MEASUREMENT")
  BY DEF Parity, If
<1>5. Finds("proof.spec.faithful", a) \subseteq {"MEASUREMENT", "CONTRADICTION_DETECTED"}
  <2>1. Finds("proof.spec.faithful", a) = SpecFaithful(a)
    BY DEF Finds
  <2> QED BY <2>1 DEF SpecFaithful, Measured, If
<1>6. Finds("proof.evidence.complete", ArtifactOf(in)) \ {"MEASUREMENT"}
        = If(~Substantial(Doc(in)), "EVIDENCE_INCOMPLETE")
  BY <1>2, CompleteIs DEF If
<1>7. Finds("proof.claim.supported", ArtifactOf(in)) \ {"MEASUREMENT"}
        = If(Clean(in, Doc(in), "baseline") \/ ~Clean(in, Doc(in), "augmented"),
             "CLAIM_UNSUPPORTED")
  BY <1>1, <1>2, SupportIs DEF If
<1>8. Finds("proof.redaction.public_safe", ArtifactOf(in)) \ {"MEASUREMENT"}
        = If(~Safe(in, Doc(in)), "SENSITIVE_VALUE_PRESENT")
            \cup If(Outcome(in).unapplied # {}, "REDACTION_POLICY_VIOLATION")
  <2> DEFINE codes == If(~Safe(in, Doc(in)), "SENSITIVE_VALUE_PRESENT")
                        \cup If(Outcome(in).unapplied # {}, "REDACTION_POLICY_VIOLATION")
  <2>1. "MEASUREMENT" \notin codes
    BY DEF If
  <2>2. Finds("proof.redaction.public_safe", ArtifactOf(in)) = Measured(codes)
    BY <1>1, SafeIs
  <2> HIDE DEF codes
  <2>3. Finds("proof.redaction.public_safe", ArtifactOf(in)) \ {"MEASUREMENT"} = codes
    BY <1>2, <2>1, <2>2
  <2> QED BY <2>3 DEF codes
<1> DEFINE variable == in.spec.variable
           config(which) == in.recordings[which].config
           absent == \/ variable.name \notin Differing(in)
                     \/ ~Alike(Recorded(config("baseline"), variable.name), variable.baseline)
                     \/ ~Alike(Recorded(config("augmented"), variable.name), variable.augmented)
<1>9. Finds("proof.parity.config", ArtifactOf(in)) \ {"MEASUREMENT"}
        = If(absent, "CHANGED_VARIABLE_ABSENT")
            \cup If(Differing(in) \ {variable.name} # {}, "CONFIG_DRIFT_UNDECLARED")
  <2> DEFINE codes == If(absent, "CHANGED_VARIABLE_ABSENT")
                        \cup If(Differing(in) \ {variable.name} # {}, "CONFIG_DRIFT_UNDECLARED")
  <2>1. "MEASUREMENT" \notin codes
    BY DEF If
  <2>2. Finds("proof.parity.config", ArtifactOf(in)) = Measured(codes)
    BY <1>1, ConfigIs
  <2> HIDE DEF codes
  <2>3. Finds("proof.parity.config", ArtifactOf(in)) \ {"MEASUREMENT"} = codes
    BY <1>2, <2>1, <2>2
  <2> QED BY <2>3 DEF codes
<1>10. /\ Finds("proof.parity.fixture", ArtifactOf(in)) = {"MEASUREMENT"}
       /\ Finds("proof.arms.bound", ArtifactOf(in)) = {"MEASUREMENT"}
       /\ Finds("proof.parity.model", ArtifactOf(in))
             = Parity(in.recordings["baseline"].model, in.recordings["augmented"].model,
                      "MODEL_IDENTITY_MISMATCH")
       /\ Finds("proof.parity.tool_surface", ArtifactOf(in))
             = Parity(in.recordings["baseline"].tools, in.recordings["augmented"].tools,
                      "TOOL_SURFACE_MISMATCH")
  BY <1>1, ParityIs
<1> QED BY <1>3, <1>4, <1>5, <1>6, <1>7, <1>8, <1>9, <1>10 DEF a, If

\* The codes that block a package, each by the one defect it stands for.
LEMMA PackageBlames ==
  ASSUME NEW in, Buildable(in)
  PROVE  LET blocking == PackageOf(in).body.blocking
             arm == in.recordings
             changed == in.spec.variable.name
         IN  /\ "MODEL_IDENTITY_MISMATCH" \in blocking
                   <=> arm["baseline"].model # arm["augmented"].model
             /\ "TOOL_SURFACE_MISMATCH" \in blocking
                   <=> arm["baseline"].tools # arm["augmented"].tools
             /\ "CONFIG_DRIFT_UNDECLARED" \in blocking <=> Differing(in) \ {changed} # {}
             /\ changed \notin Differing(in) => "CHANGED_VARIABLE_ABSENT" \in blocking
             /\ "EVIDENCE_INCOMPLETE" \in blocking <=> ~Substantial(Doc(in))
             /\ "CLAIM_UNSUPPORTED" \in blocking
                   <=> Clean(in, Doc(in), "baseline") \/ ~Clean(in, Doc(in), "augmented")
             /\ "SENSITIVE_VALUE_PRESENT" \in blocking <=> ~Safe(in, Doc(in))
             /\ "REDACTION_POLICY_VIOLATION" \in blocking <=> Outcome(in).unapplied # {}
<1> DEFINE a == ArtifactOf(in)
           blocking == PackageOf(in).body.blocking
           found(code) == \E check \in PackageChecks : code \in Finds(check, a)
<1>1. \A code : code \in blocking <=> code \in FailCodes /\ found(code)
  BY SubmitBlames DEF PackageOf, PackageContracts, PackagePolicy, Suite
<1>2. {"MODEL_IDENTITY_MISMATCH", "TOOL_SURFACE_MISMATCH", "CONFIG_DRIFT_UNDECLARED",
       "CHANGED_VARIABLE_ABSENT", "EVIDENCE_INCOMPLETE", "CLAIM_UNSUPPORTED",
       "SENSITIVE_VALUE_PRESENT", "REDACTION_POLICY_VIOLATION"} \subseteq FailCodes
  BY DEF FailCodes, XP!FailCodes
<1> DEFINE F(check) == Finds(check, a) \ {"MEASUREMENT"}
<1>3. \A code : code # "MEASUREMENT" =>
        (found(code) <=> \/ code \in F("proof.artifact_shape") \/ code \in F("proof.parity.model")
                        \/ code \in F("proof.parity.fixture")
                        \/ code \in F("proof.parity.tool_surface")
                        \/ code \in F("proof.parity.config") \/ code \in F("proof.spec.faithful")
                        \/ code \in F("proof.arms.bound") \/ code \in F("proof.evidence.complete")
                        \/ code \in F("proof.claim.supported")
                        \/ code \in F("proof.redaction.public_safe"))
  BY DEF PackageChecks
<1> DEFINE variable == in.spec.variable
           config(which) == in.recordings[which].config
           absent == \/ variable.name \notin Differing(in)
                     \/ ~Alike(Recorded(config("baseline"), variable.name), variable.baseline)
                     \/ ~Alike(Recorded(config("augmented"), variable.name), variable.augmented)
           models == in.recordings["baseline"].model # in.recordings["augmented"].model
           tools == in.recordings["baseline"].tools # in.recordings["augmented"].tools
           drift == Differing(in) \ {variable.name} # {}
           unsupported == Clean(in, Doc(in), "baseline") \/ ~Clean(in, Doc(in), "augmented")
<1>4. /\ F("proof.artifact_shape") = {} /\ F("proof.parity.fixture") = {}
      /\ F("proof.arms.bound") = {}
      /\ F("proof.parity.model") = If(models, "MODEL_IDENTITY_MISMATCH")
      /\ F("proof.parity.tool_surface") = If(tools, "TOOL_SURFACE_MISMATCH")
      /\ F("proof.parity.config")
            = If(absent, "CHANGED_VARIABLE_ABSENT") \cup If(drift, "CONFIG_DRIFT_UNDECLARED")
      /\ F("proof.spec.faithful") \subseteq {"CONTRADICTION_DETECTED"}
      /\ F("proof.evidence.complete") = If(~Substantial(Doc(in)), "EVIDENCE_INCOMPLETE")
      /\ F("proof.claim.supported") = If(unsupported, "CLAIM_UNSUPPORTED")
      /\ F("proof.redaction.public_safe")
            = If(~Safe(in, Doc(in)), "SENSITIVE_VALUE_PRESENT")
                \cup If(Outcome(in).unapplied # {}, "REDACTION_POLICY_VIOLATION")
  BY PackageFinds DEF If
<1> HIDE DEF F, found, blocking, a
<1>5. /\ "MODEL_IDENTITY_MISMATCH" \in blocking <=> models
      /\ "TOOL_SURFACE_MISMATCH" \in blocking <=> tools
      /\ "CONFIG_DRIFT_UNDECLARED" \in blocking <=> drift
      /\ "CHANGED_VARIABLE_ABSENT" \in blocking <=> absent
  <2> HIDE DEF models, tools, drift, absent
  <2> QED BY <1>1, <1>2, <1>3, <1>4 DEF If
<1>6. /\ "EVIDENCE_INCOMPLETE" \in blocking <=> ~Substantial(Doc(in))
      /\ "CLAIM_UNSUPPORTED" \in blocking <=> unsupported
      /\ "SENSITIVE_VALUE_PRESENT" \in blocking <=> ~Safe(in, Doc(in))
      /\ "REDACTION_POLICY_VIOLATION" \in blocking <=> Outcome(in).unapplied # {}
  <2> HIDE DEF unsupported
  <2> QED BY <1>1, <1>2, <1>3, <1>4 DEF If
<1> QED BY <1>5, <1>6 DEF blocking

\* The package contracts admit exactly what supports the claim.
LEMMA PackageAdmits ==
  ASSUME NEW in, Buildable(in)
  PROVE  PackageOf(in).body.admission = "ADMIT"
           <=> Supported(in, Doc(in), Outcome(in).unapplied)
<1> DEFINE a == ArtifactOf(in)
           fine(check) == Finds(check, a) \subseteq {"MEASUREMENT"}
           arm == in.recordings
           variable == in.spec.variable
<1>1. Replayed(in)
  BY DEF Buildable
<1>2. PackageOf(in).body.admission = "ADMIT" <=> \A check \in PackageChecks : fine(check)
  BY SubmitAdmits DEF PackageOf, PackageContracts, PackagePolicy, Suite
<1>3. (\A check \in PackageChecks : fine(check))
        <=> /\ fine("proof.artifact_shape") /\ fine("proof.parity.model")
            /\ fine("proof.parity.fixture") /\ fine("proof.parity.tool_surface")
            /\ fine("proof.parity.config") /\ fine("proof.spec.faithful")
            /\ fine("proof.arms.bound") /\ fine("proof.evidence.complete")
            /\ fine("proof.claim.supported") /\ fine("proof.redaction.public_safe")
  BY DEF PackageChecks
<1>4. \A check : fine(check) <=> Finds(check, a) \ {"MEASUREMENT"} = {}
  OBVIOUS
<1> DEFINE absent == \/ variable.name \notin Differing(in)
                     \/ ~Alike(Recorded(arm["baseline"].config, variable.name), variable.baseline)
                     \/ ~Alike(Recorded(arm["augmented"].config, variable.name), variable.augmented)
<1>5. /\ fine("proof.artifact_shape") /\ fine("proof.parity.fixture") /\ fine("proof.arms.bound")
      /\ fine("proof.parity.model") <=> arm["baseline"].model = arm["augmented"].model
      /\ fine("proof.parity.tool_surface") <=> arm["baseline"].tools = arm["augmented"].tools
      /\ fine("proof.parity.config") <=> ~absent /\ Differing(in) \ {variable.name} = {}
      /\ fine("proof.evidence.complete") <=> Substantial(Doc(in))
      /\ fine("proof.claim.supported")
            <=> ~Clean(in, Doc(in), "baseline") /\ Clean(in, Doc(in), "augmented")
      /\ fine("proof.redaction.public_safe")
            <=> Safe(in, Doc(in)) /\ Outcome(in).unapplied = {}
  BY <1>4, PackageFinds DEF If
<1>6. fine("proof.spec.faithful")
        <=> \A which \in Arms : /\ arm[which].model = in.spec.model
                                /\ arm[which].tools = in.spec.tools
                                /\ arm[which].config = in.spec.config[which]
  BY <1>1, FaithfulIs
<1>7. ~absent /\ Differing(in) \ {variable.name} = {}
        <=> /\ Differing(in) = {variable.name}
            /\ Alike(Recorded(arm["baseline"].config, variable.name), variable.baseline)
            /\ Alike(Recorded(arm["augmented"].config, variable.name), variable.augmented)
  OBVIOUS
<1> HIDE DEF fine, a, absent
<1>8. Controlled(in)
        <=> /\ fine("proof.spec.faithful")
            /\ Differing(in) = {variable.name}
            /\ Alike(Recorded(arm["baseline"].config, variable.name), variable.baseline)
            /\ Alike(Recorded(arm["augmented"].config, variable.name), variable.augmented)
  BY <1>6 DEF Controlled, Differing
<1>9. fine("proof.spec.faithful") => fine("proof.parity.model") /\ fine("proof.parity.tool_surface")
  BY <1>5, <1>6 DEF Arms
<1> QED BY <1>2, <1>3, <1>5, <1>7, <1>8, <1>9 DEF Supported

-----------------------------------------------------------------------------
(* The inductive invariant.                                                *)

\* The step that comes next; a build that was published has passed them all.
Stage == IF exit \in {"ok", "not_admitted"} THEN "write" ELSE pc

\* The stages from one on.
FromWrite == {"write"}
FromPackage == {"package"} \cup FromWrite
FromSubmitAugmented == {"submit_augmented"} \cup FromPackage
FromSubmitBaseline == {"submit_baseline"} \cup FromSubmitAugmented
FromRedact == {"redact"} \cup FromSubmitBaseline
FromAugmented == {"augmented"} \cup FromRedact
FromBaseline == {"baseline"} \cup FromAugmented
FromFixture == {"fixture"} \cup FromBaseline

\* What a stage has left: a recording, the redacted documents, a receipt, the decision.
Executed(arm) ==
  arm \in DOMAIN executions /\ RecordingFits(input.recordings[arm], arm)

Redacted == redacted = Outcome(input) /\ ~RedactionRaises(input.policy)

Submitted(arm) ==
  /\ arm \in DOMAIN receipts /\ receipts[arm] = ReceiptOf(input, arm)
  /\ Assembles(Outcome(input), arm)

Decision == "package" \in DOMAIN receipts /\ receipts["package"] = PackageOf(input)

\* Each step that was passed has left what it found out about the input.
Passed ==
  /\ Stage \in FromFixture => SpecLoads(input.spec)
  /\ Stage \in FromBaseline => FixtureFits(input)
  /\ Stage \in FromAugmented => Executed("baseline")
  /\ Stage \in FromRedact => Executed("augmented")
  /\ Stage \in FromSubmitBaseline => Redacted
  /\ Stage \in FromSubmitAugmented => Submitted("baseline")
  /\ Stage \in FromPackage => Submitted("augmented")
  /\ Stage \in FromWrite => Decision

\* What is there was left by the step that makes it.
Left ==
  /\ redacted = NotRedacted \/ Redacted
  /\ "package" \in DOMAIN receipts => Stage \in FromWrite

\* A bundle that the redaction has spoilt stops the build, or trips it.
Stopped == Spoilt(redacted) /\ ~Trips(redacted, FirstSpoilt(redacted))
Tripped == Spoilt(redacted) /\ Trips(redacted, FirstSpoilt(redacted))

\* What the command ends with.
Ended ==
  /\ exit = "usage" => Unusable(input) \/ Stopped
  /\ exit = "traceback" => ~Unusable(input) /\ Tripped
  /\ exit \in {"ok", "not_admitted"} =>
       /\ exit = "ok" <=> receipts["package"].body.admission = "ADMIT"
       /\ \E render \in BOOLEAN : documents = Written(ArtifactOf(input), receipts, render)

\* The inductive invariant.
BuildInv == TypeOK /\ Passed /\ Left /\ Ended

\* The invariant holds before the first step.
LEMMA InitBuild == Init => BuildInv
  BY DEF Init, BuildInv, TypeOK, Passed, Left, Ended, Stage, FromFixture, FromBaseline,
     FromAugmented, FromRedact, FromSubmitBaseline, FromSubmitAugmented, FromPackage, FromWrite

\* A step that fits nothing ends the build and leaves the rest as it is.
LEMMA EndBuild ==
  ASSUME BuildInv, pc \notin {"done", "write"}, pc' = "done", exit' \in {"usage", "traceback"},
         UNCHANGED <<input, executions, redacted, receipts, documents>>
  PROVE  TypeOK' /\ Passed' /\ Left'
<1>1. exit = "none" /\ Stage = pc /\ Stage' = "done"
  BY DEF BuildInv, TypeOK, Stage
<1>2. TypeOK'
  BY <1>1 DEF BuildInv, TypeOK
<1>3. Passed'
  BY <1>1 DEF Passed, FromFixture, FromBaseline, FromAugmented, FromRedact,
     FromSubmitBaseline, FromSubmitAugmented, FromPackage, FromWrite
<1>4. Left'
  BY <1>1 DEF BuildInv, Left, Redacted, FromWrite
<1> QED BY <1>2, <1>3, <1>4

\* It refuses what it can make nothing of.
LEMMA RefuseBuild ==
  ASSUME BuildInv, pc \notin {"done", "write"}, Refuse, Unusable(input) \/ Stopped
  PROVE  BuildInv'
<1>1. TypeOK' /\ Passed' /\ Left'
  BY EndBuild DEF Refuse
<1>2. Ended'
  BY DEF Refuse, Ended, Stopped
<1> QED BY <1>1, <1>2 DEF BuildInv

\* It crashes over what it does not expect.
LEMMA CrashBuild ==
  ASSUME BuildInv, pc \notin {"done", "write"}, Crash, ~Unusable(input), Tripped
  PROVE  BuildInv'
<1>1. TypeOK' /\ Passed' /\ Left'
  BY EndBuild DEF Crash
<1>2. Ended'
  BY DEF Crash, Ended, Tripped
<1> QED BY <1>1, <1>2 DEF BuildInv

\* The build is where it is because the steps before have passed.
LEMMA LoadSpecBuild ==
  ASSUME BuildInv, LoadSpec
  PROVE  BuildInv'
<1>1. CASE SpecLoads(input.spec) /\ pc' = "fixture"
            /\ UNCHANGED <<input, executions, redacted, receipts, documents, exit>>
  <2>1. pc = "load" /\ exit = "none" /\ Stage = "load" /\ Stage' = "fixture"
    BY <1>1 DEF LoadSpec, BuildInv, TypeOK, Stage
  <2>2. TypeOK'
    BY <1>1, <2>1 DEF BuildInv, TypeOK
  <2>3. Passed'
    BY <1>1, <2>1 DEF Passed, FromFixture, FromBaseline, FromAugmented, FromRedact,
       FromSubmitBaseline, FromSubmitAugmented, FromPackage, FromWrite
  <2>4. Left' /\ Ended'
    BY <1>1, <2>1 DEF BuildInv, Left, Redacted, Ended, FromWrite
  <2> QED BY <2>2, <2>3, <2>4 DEF BuildInv
<1>2. CASE ~SpecLoads(input.spec) /\ Refuse
  <2>1. Unusable(input)
    BY <1>2 DEF SpecLoads, Unusable
  <2> QED BY <1>2, <2>1, RefuseBuild DEF LoadSpec
<1> QED BY <1>1, <1>2 DEF LoadSpec

\* So does a fixture that fits the spec.
LEMMA ReadFixtureBuild ==
  ASSUME BuildInv, ReadFixture
  PROVE  BuildInv'
<1>1. CASE FixtureFits(input) /\ pc' = "baseline"
            /\ UNCHANGED <<input, executions, redacted, receipts, documents, exit>>
  <2>1. pc = "fixture" /\ exit = "none" /\ Stage = "fixture" /\ Stage' = "baseline"
    BY <1>1 DEF ReadFixture, BuildInv, TypeOK, Stage
  <2>2. TypeOK'
    BY <1>1, <2>1 DEF BuildInv, TypeOK
  <2>3. SpecLoads(input.spec)
    BY <2>1 DEF BuildInv, Passed, FromFixture
  <2>4. Passed'
    BY <1>1, <2>1, <2>3 DEF Passed, FromBaseline, FromAugmented, FromRedact,
       FromSubmitBaseline, FromSubmitAugmented, FromPackage, FromWrite
  <2>5. Left' /\ Ended'
    BY <1>1, <2>1 DEF BuildInv, Left, Redacted, Ended, FromWrite
  <2> QED BY <2>2, <2>4, <2>5 DEF BuildInv
<1>2. CASE ~FixtureFits(input) /\ Refuse
  <2>1. Unusable(input)
    BY <1>2 DEF FixtureFits, Unusable
  <2> QED BY <1>2, <2>1, RefuseBuild DEF ReadFixture
<1> QED BY <1>1, <1>2 DEF ReadFixture

\* So does a recording that fits its arm.
LEMMA ExecuteBuild ==
  ASSUME BuildInv, NEW arm \in Arms, NEW next,
         \/ arm = "baseline" /\ next = "augmented"
         \/ arm = "augmented" /\ next = "redact",
         Execute(arm, next)
  PROVE  BuildInv'
<1>1. arm \in {"baseline", "augmented"} /\ pc = arm /\ exit = "none" /\ Stage = arm
  BY DEF Execute, BuildInv, TypeOK, Stage, Arms
<1>2. CASE /\ RecordingFits(input.recordings[arm], arm)
           /\ executions' = [a \in DOMAIN executions \cup {arm} |->
                               IF a = arm THEN input.recordings[arm] ELSE executions[a]]
           /\ pc' = next /\ UNCHANGED <<input, redacted, receipts, documents, exit>>
  <2>1. Stage' = next
    BY <1>1, <1>2 DEF Stage
  <2>2. TypeOK'
    BY <1>1, <1>2 DEF BuildInv, TypeOK
  <2>3. Executed(arm)' /\ \A a : Executed(a) => Executed(a)'
    BY <1>2 DEF Executed
  <2>4. /\ SpecLoads(input.spec)' /\ FixtureFits(input)'
        /\ arm = "augmented" => Executed("baseline")
    BY <1>1, <1>2 DEF BuildInv, Passed, FromFixture, FromBaseline, FromAugmented
  <2>5. Passed'
    BY <1>1, <2>1, <2>3, <2>4 DEF Passed, FromFixture, FromBaseline, FromAugmented, FromRedact,
       FromSubmitBaseline, FromSubmitAugmented, FromPackage, FromWrite
  <2>6. Left' /\ Ended'
    BY <1>1, <1>2, <2>1 DEF BuildInv, Left, Redacted, Ended, FromWrite
  <2> QED BY <2>2, <2>5, <2>6 DEF BuildInv
<1>3. CASE ~RecordingFits(input.recordings[arm], arm) /\ Refuse
  <2>1. Unusable(input)
    BY <1>3 DEF RecordingFits, Unusable
  <2> QED BY <1>1, <1>3, <2>1, RefuseBuild
<1> QED BY <1>2, <1>3 DEF Execute

\* The documents are redacted as they were read.
LEMMA RedactBuild ==
  ASSUME BuildInv, Redact
  PROVE  BuildInv'
<1>1. pc = "redact" /\ exit = "none" /\ Stage = "redact"
  BY DEF Redact, BuildInv, TypeOK, Stage
<1>2. Executed("baseline") /\ Executed("augmented")
  BY <1>1 DEF BuildInv, Passed, FromAugmented, FromRedact
<1>3. CASE /\ ~RedactionRaises(input.policy)
           /\ redacted' = ApplyPolicy(input.policy, PreRedaction(input.fixture, executions))
           /\ pc' = "submit_baseline" /\ UNCHANGED <<input, executions, receipts, documents, exit>>
  <2>1. \A arm \in Arms : executions[arm] = input.recordings[arm]
    BY <1>2 DEF BuildInv, TypeOK, Executed, Arms
  <2>2. PreRedaction(input.fixture, executions) = Original(input)
    <3> DEFINE doc(part) == IF part = "evidence" THEN input.fixture.doc ELSE executions[part].doc
               was(part) == IF part = "evidence" THEN input.fixture.doc
                            ELSE input.recordings[part].doc
               places == UNION {{part} \X (DOMAIN was(part)) : part \in Parts}
    <3>1. \A part \in Parts : doc(part) = was(part)
      BY <2>1 DEF Parts
    <3>2. /\ PreRedaction(input.fixture, executions)
                = [p \in UNION {{part} \X (DOMAIN doc(part)) : part \in Parts} |-> doc(p[1])[p[2]]]
          /\ Original(input) = [p \in places |-> was(p[1])[p[2]]]
      BY DEF PreRedaction, Original
    <3> HIDE DEF doc, was
    <3>3. UNION {{part} \X (DOMAIN doc(part)) : part \in Parts} = places
      BY <3>1
    <3>4. \A p \in places : p[1] \in Parts
      OBVIOUS
    <3> HIDE DEF places
    <3> QED BY <3>1, <3>2, <3>3, <3>4
  <2>3. Redacted'
    BY <1>3, <2>2 DEF Redacted, Outcome
  <2>4. Stage' = "submit_baseline"
    BY <1>1, <1>3 DEF Stage
  <2>5. TypeOK'
    BY <1>1, <1>3 DEF BuildInv, TypeOK
  <2>6. /\ SpecLoads(input.spec)' /\ FixtureFits(input)'
        /\ Executed("baseline")' /\ Executed("augmented")'
    BY <1>1, <1>2, <1>3 DEF BuildInv, Passed, FromFixture, FromBaseline, FromAugmented, FromRedact,
       Executed
  <2>7. Passed'
    BY <2>3, <2>4, <2>6 DEF Passed, FromSubmitBaseline, FromSubmitAugmented, FromPackage, FromWrite
  <2>8. Left' /\ Ended'
    BY <1>1, <1>3, <2>3, <2>4 DEF BuildInv, Left, Ended, FromWrite
  <2> QED BY <2>5, <2>7, <2>8 DEF BuildInv
<1>4. CASE RedactionRaises(input.policy) /\ Refuse
  <2>1. Unusable(input)
    BY <1>4 DEF Unusable
  <2> QED BY <1>1, <1>4, <2>1, RefuseBuild
<1> QED BY <1>3, <1>4 DEF Redact

\* Once the documents are redacted the build is about its input.
LEMMA StageReplayed ==
  ASSUME BuildInv, Stage \in FromSubmitBaseline
  PROVE  /\ Replayed(input) /\ redacted = Outcome(input) /\ redacted.doc = Doc(input)
         /\ ~Unusable(input)
<1>1. /\ Stage \in FromRedact /\ Stage \in FromAugmented
      /\ Stage \in FromBaseline /\ Stage \in FromFixture
  BY DEF FromRedact, FromAugmented, FromBaseline, FromFixture
<1>2. Redacted /\ input \in Inputs
  BY DEF BuildInv, Passed, TypeOK
<1>3. \A arm \in Arms : RecordingFits(input.recordings[arm], arm)
  BY <1>1 DEF BuildInv, Passed, Executed, Arms
<1>4. SpecLoads(input.spec) /\ FixtureFits(input)
  BY <1>1 DEF BuildInv, Passed
<1> QED
  BY <1>2, <1>3, <1>4 DEF Replayed, Redacted, Doc, RecordingFits, SpecLoads, FixtureFits, Unusable

\* The receipt of an arm is about what the redaction has left.
LEMMA SubmitArmBuild ==
  ASSUME BuildInv, NEW arm \in Arms, NEW at, NEW next,
         \/ arm = "baseline" /\ at = "submit_baseline" /\ next = "submit_augmented"
         \/ arm = "augmented" /\ at = "submit_augmented" /\ next = "package",
         SubmitArm(arm, at, next)
  PROVE  BuildInv'
<1>1. /\ pc = at /\ exit = "none" /\ Stage = at /\ Stage \in FromSubmitBaseline
      /\ arm = "augmented" => Submitted("baseline")
  BY DEF SubmitArm, BuildInv, TypeOK, Stage, Passed, FromSubmitBaseline, FromSubmitAugmented
<1>2. /\ Replayed(input) /\ redacted = Outcome(input) /\ redacted.doc = Doc(input)
      /\ Executed("baseline") /\ Executed("augmented") /\ Redacted
      /\ SpecLoads(input.spec) /\ FixtureFits(input) /\ ~Unusable(input)
  BY <1>1, StageReplayed DEF BuildInv, Passed, FromRedact, FromAugmented, FromBaseline, FromFixture
<1>3. executions[arm] = input.recordings[arm]
  BY <1>2 DEF Executed, BuildInv, TypeOK, Arms
<1>4. Bundle(executions[arm], input.fixture, redacted, input.policy) = BundleOf(input, arm)
  BY <1>2, <1>3 DEF BundleOf
<1>5. CASE /\ Assembles(redacted, arm)
           /\ Keep(arm, Submit(BundleOf(input, arm), ArmContracts, ArmPolicy))
           /\ pc' = next /\ UNCHANGED <<input, executions, redacted, documents, exit>>
  <2>1. receipts' = [b \in DOMAIN receipts \cup {arm} |->
                       IF b = arm THEN ReceiptOf(input, arm) ELSE receipts[b]]
    BY <1>5 DEF Keep, ReceiptOf
  <2>2. Stage' = next
    BY <1>1, <1>5 DEF Stage
  <2>3. TypeOK'
    BY <1>1, <1>5, <2>1 DEF BuildInv, TypeOK
  <2>4. Submitted(arm)' /\ \A a : Submitted(a) => Submitted(a)'
    BY <1>2, <1>5, <2>1 DEF Submitted
  <2>5. /\ Executed("baseline")' /\ Executed("augmented")' /\ Redacted'
        /\ SpecLoads(input.spec)' /\ FixtureFits(input)'
    BY <1>2, <1>5 DEF Executed, Redacted
  <2>6. Passed'
    BY <1>1, <2>2, <2>4, <2>5 DEF Passed, FromSubmitAugmented, FromPackage, FromWrite
  <2>7. "package" \notin DOMAIN receipts'
    BY <1>1, <2>1 DEF BuildInv, Left, FromWrite, Arms
  <2>8. Left' /\ Ended'
    BY <1>1, <1>5, <2>2, <2>5, <2>7 DEF BuildInv, Left, Ended
  <2> QED BY <2>3, <2>6, <2>8 DEF BuildInv
<1>6. ASSUME ~Assembles(redacted, arm)
      PROVE  Spoilt(redacted) /\ FirstSpoilt(redacted) = arm
  <2>1. arm = "augmented" => Assembles(redacted, "baseline")
    BY <1>1, <1>2 DEF Submitted
  <2> QED BY <1>6, <2>1 DEF Spoilt, FirstSpoilt, Arms
<1>7. CASE ~Assembles(redacted, arm) /\ ~Trips(redacted, arm) /\ Refuse
  <2>1. Stopped
    BY <1>6, <1>7 DEF Stopped
  <2> QED BY <1>1, <1>7, <2>1, RefuseBuild
<1>8. CASE ~Assembles(redacted, arm) /\ Trips(redacted, arm) /\ Crash
  <2>1. Tripped
    BY <1>6, <1>8 DEF Tripped
  <2> QED BY <1>1, <1>2, <1>8, <2>1, CrashBuild
<1> QED BY <1>4, <1>5, <1>7, <1>8 DEF SubmitArm

\* The artifact is made of what the receipts hold.
LEMMA ArtifactReads ==
  ASSUME NEW in, NEW all, \A arm \in Arms : all[arm] = ReceiptOf(in, arm)
  PROVE  Artifact(in.spec, in.policy, [arm \in Arms |-> all[arm].body.artifact], all)
           = ArtifactOf(in)
<1> DEFINE bundles == [arm \in Arms |-> BundleOf(in, arm)]
           own == [arm \in Arms |-> ReceiptOf(in, arm)]
<1>1. \A arm \in Arms : all[arm].body.artifact = BundleOf(in, arm)
  BY SubmitRecords DEF ReceiptOf, ArmContracts, ArmPolicy, Suite
<1>2. [arm \in Arms |-> all[arm].body.artifact] = bundles
  BY <1>1
<1>3. \A arm \in Arms : all[arm] = own[arm]
  OBVIOUS
<1> HIDE DEF bundles, own
<1>4. /\ [arm \in Arms |-> [arm_id |-> arm,
                            document |-> bundles[arm], evidence |-> bundles[arm],
                            xi |-> Summary(all[arm])]]
           = [arm \in Arms |-> [arm_id |-> arm,
                                document |-> bundles[arm], evidence |-> bundles[arm],
                               xi |-> Summary(own[arm])]]
      /\ [arm \in Arms |-> [admission |-> all[arm].body.admission,
                            blocking |-> all[arm].body.blocking]]
           = [arm \in Arms |-> [admission |-> own[arm].body.admission,
                               blocking |-> own[arm].body.blocking]]
  BY <1>3
<1>5. Artifact(in.spec, in.policy, bundles, all) = Artifact(in.spec, in.policy, bundles, own)
  BY <1>4 DEF Artifact
<1> QED BY <1>2, <1>5 DEF ArtifactOf, bundles, own

\* The receipt of the package is about the bundles and their receipts.
LEMMA SubmitPackageBuild ==
  ASSUME BuildInv, SubmitPackage
  PROVE  BuildInv'
<1>1. /\ pc = "package" /\ exit = "none" /\ Stage = "package" /\ Stage \in FromSubmitBaseline
      /\ Submitted("baseline") /\ Submitted("augmented")
  BY DEF SubmitPackage, BuildInv, TypeOK, Stage, Passed, FromSubmitBaseline, FromSubmitAugmented,
     FromPackage
<1>2. /\ Executed("baseline") /\ Executed("augmented") /\ Redacted
      /\ SpecLoads(input.spec) /\ FixtureFits(input)
  BY <1>1 DEF BuildInv, Passed, FromRedact, FromAugmented, FromBaseline, FromFixture
<1>3. Artifact(input.spec, input.policy, [arm \in Arms |-> receipts[arm].body.artifact], receipts)
        = ArtifactOf(input)
  BY <1>1, ArtifactReads DEF Submitted, Arms
<1>4. receipts' = [b \in DOMAIN receipts \cup {"package"} |->
                     IF b = "package" THEN PackageOf(input) ELSE receipts[b]]
  BY <1>3 DEF SubmitPackage, Keep, PackageOf
<1>5. pc' = "write" /\ UNCHANGED <<input, executions, redacted, documents, exit>>
  BY DEF SubmitPackage
<1>6. Stage' = "write"
  BY <1>1, <1>5 DEF Stage
<1>7. TypeOK'
  BY <1>1, <1>4, <1>5 DEF BuildInv, TypeOK
<1>8. /\ Submitted("baseline")' /\ Submitted("augmented")' /\ Decision'
      /\ Executed("baseline")' /\ Executed("augmented")' /\ Redacted'
      /\ SpecLoads(input.spec)' /\ FixtureFits(input)'
  BY <1>1, <1>2, <1>4, <1>5 DEF Submitted, Decision, Executed, Redacted
<1>9. Passed'
  BY <1>8 DEF Passed
<1>10. Left' /\ Ended'
  BY <1>1, <1>5, <1>6, <1>8 DEF BuildInv, Left, Ended, FromWrite
<1> QED BY <1>7, <1>9, <1>10 DEF BuildInv

\* The names of what is written: something in any case.
LEMMA WrittenNames ==
  ASSUME NEW a, NEW all, NEW render
  PROVE  /\ {"findings", "transcript"} \subseteq DOMAIN Written(a, all, render)
         /\ all["package"].body.admission # "ADMIT" =>
              DOMAIN Written(a, all, render) = {"findings", "transcript", "NOT_ADMITTED"}
         /\ all["package"].body.admission = "ADMIT" =>
              /\ {"README", "listing"} \subseteq DOMAIN Written(a, all, render)
              /\ DOMAIN Written(a, all, render) \subseteq
                   {"findings", "transcript", "README", "listing", "thumbnail"}
                     \cup DOMAIN Slides(a, all["package"])
         /\ Written(a, all, render) # <<>>
<1>1. /\ {"findings", "transcript"} \subseteq DOMAIN Written(a, all, render)
      /\ all["package"].body.admission # "ADMIT" =>
           DOMAIN Written(a, all, render) = {"findings", "transcript", "NOT_ADMITTED"}
      /\ all["package"].body.admission = "ADMIT" =>
           /\ {"README", "listing"} \subseteq DOMAIN Written(a, all, render)
           /\ DOMAIN Written(a, all, render) \subseteq
                {"findings", "transcript", "README", "listing", "thumbnail"}
                  \cup DOMAIN Slides(a, all["package"])
  BY DEF Written
<1>2. DOMAIN <<>> = {}
  OBVIOUS
<1> QED BY <1>1, <1>2

\* What is written, and the exit code, follow from the package receipt.
LEMMA PublishBuild ==
  ASSUME BuildInv, Publish
  PROVE  BuildInv'
<1>1. /\ pc = "write" /\ exit = "none" /\ Stage = "write" /\ Decision
      /\ pc' = "done" /\ UNCHANGED <<input, executions, redacted, receipts>>
  BY DEF Publish, BuildInv, TypeOK, Stage, Passed, FromWrite
<1>2. receipts["package"].body.artifact = ArtifactOf(input)
  BY <1>1, SubmitRecords DEF Decision, PackageOf, PackageContracts, PackagePolicy, Suite
<1>3. PICK render \in BOOLEAN : documents' = Written(ArtifactOf(input), receipts, render)
  BY <1>2 DEF Publish
<1>4. /\ exit' \in {"ok", "not_admitted"}
      /\ exit' = "ok" <=> receipts["package"].body.admission = "ADMIT"
  BY DEF Publish
<1>5. Stage' = "write"
  BY <1>4 DEF Stage
<1>6. documents' # <<>>
  BY <1>3, WrittenNames
<1>7. TypeOK'
  BY <1>1, <1>4, <1>6 DEF BuildInv, TypeOK
<1>8. Passed' /\ Left'
  BY <1>1, <1>5 DEF BuildInv, Passed, Left, Executed, Redacted, Submitted, Decision
<1>9. Ended'
  BY <1>1, <1>3, <1>4 DEF Ended
<1> QED BY <1>7, <1>8, <1>9 DEF BuildInv

\* Every step keeps the invariant.
LEMMA NextBuild == BuildInv /\ [Next]_vars => BuildInv'
<1> SUFFICES ASSUME BuildInv, [Next]_vars PROVE BuildInv'
  OBVIOUS
<1>1. CASE LoadSpec
  BY <1>1, LoadSpecBuild
<1>2. CASE ReadFixture
  BY <1>2, ReadFixtureBuild
<1>3. CASE Execute("baseline", "augmented")
  BY <1>3, ExecuteBuild DEF Arms
<1>4. CASE Execute("augmented", "redact")
  BY <1>4, ExecuteBuild DEF Arms
<1>5. CASE Redact
  BY <1>5, RedactBuild
<1>6. CASE SubmitArm("baseline", "submit_baseline", "submit_augmented")
  BY <1>6, SubmitArmBuild DEF Arms
<1>7. CASE SubmitArm("augmented", "submit_augmented", "package")
  BY <1>7, SubmitArmBuild DEF Arms
<1>8. CASE SubmitPackage
  BY <1>8, SubmitPackageBuild
<1>9. CASE Publish
  BY <1>9, PublishBuild
<1>10. CASE UNCHANGED vars
  BY <1>10 DEF vars, BuildInv, TypeOK, Passed, Left, Ended, Stage, Executed, Redacted, Submitted,
     Decision, Stopped, Tripped
<1> QED BY <1>1, <1>2, <1>3, <1>4, <1>5, <1>6, <1>7, <1>8, <1>9, <1>10 DEF Next

-----------------------------------------------------------------------------
(* What the invariant says of the properties.                              *)

\* A build that was published has passed every step.
LEMMA PublishedIs ==
  ASSUME BuildInv, Stage \in FromWrite
  PROVE  /\ Buildable(input) /\ redacted = Outcome(input) /\ redacted.doc = Doc(input)
         /\ ~Unusable(input) /\ ~Spoilt(redacted)
         /\ DOMAIN receipts = Arms \cup {"package"}
         /\ \A arm \in Arms : receipts[arm] = ReceiptOf(input, arm)
         /\ receipts["package"] = PackageOf(input)
<1>1. Stage \in FromPackage /\ Stage \in FromSubmitAugmented /\ Stage \in FromSubmitBaseline
  BY DEF FromPackage, FromSubmitAugmented, FromSubmitBaseline
<1>2. \A arm \in Arms : Submitted(arm)
  BY <1>1 DEF BuildInv, Passed, Arms
<1>3. Decision
  BY DEF BuildInv, Passed
<1>4. /\ Replayed(input) /\ redacted = Outcome(input) /\ redacted.doc = Doc(input)
      /\ ~Unusable(input)
  BY <1>1, StageReplayed
<1>5. ~Spoilt(Outcome(input))
  BY <1>2 DEF Submitted, Spoilt
<1>6. DOMAIN receipts = Arms \cup {"package"}
  BY <1>2, <1>3 DEF Submitted, Decision, BuildInv, TypeOK
<1> QED BY <1>2, <1>3, <1>4, <1>5, <1>6 DEF Submitted, Decision, Buildable

\* The invariant says what the documents were redacted to.
LEMMA RedactionFollows == BuildInv => RedactionIsExact
<1> SUFFICES ASSUME BuildInv, DOMAIN redacted.value # {} PROVE RedactionIsExact
  BY DEF RedactionIsExact
<1>1. redacted # NotRedacted
  BY DEF NotRedacted
<1>2. Redacted /\ input \in Inputs
  BY <1>1 DEF BuildInv, Left, TypeOK
<1> QED BY <1>2, OutcomeIs DEF RedactionIsExact, Redacted, Original

\* It bounds the build to the exit code its input earns.
LEMMA OutcomeFollows == BuildInv => OutcomeIsEarned
<1> SUFFICES ASSUME BuildInv, pc = "done" PROVE OutcomeIsEarned
  BY DEF OutcomeIsEarned
<1>1. CASE exit \in {"usage", "traceback"}
  BY <1>1 DEF BuildInv, Ended, Stopped, Tripped, OutcomeIsEarned
<1>2. CASE exit \in {"ok", "not_admitted"}
  <2>1. Stage \in FromWrite
    BY <1>2 DEF Stage, FromWrite
  <2>2. /\ Buildable(input) /\ redacted = Outcome(input) /\ redacted.doc = Doc(input)
        /\ ~Unusable(input) /\ ~Spoilt(redacted)
        /\ receipts["package"] = PackageOf(input)
    BY <2>1, PublishedIs
  <2>3. exit = "ok" <=> PackageOf(input).body.admission = "ADMIT"
    BY <1>2, <2>2 DEF BuildInv, Ended
  <2>4. exit = "ok" <=> Supported(input, redacted.doc, redacted.unapplied)
    BY <2>2, <2>3, PackageAdmits
  <2> QED BY <1>2, <2>2, <2>4 DEF OutcomeIsEarned
<1>3. exit \in {"ok", "not_admitted", "usage", "traceback"}
  BY DEF BuildInv, TypeOK
<1> QED BY <1>1, <1>2, <1>3

\* A package receipt blames what its input has against it.
LEMMA RefusalsFollow == BuildInv => RefusalsNameTheDefects
<1> SUFFICES ASSUME BuildInv, "package" \in DOMAIN receipts PROVE RefusalsNameTheDefects
  BY DEF RefusalsNameTheDefects
<1>1. Stage \in FromWrite
  BY DEF BuildInv, Left
<1>2. /\ Buildable(input) /\ redacted = Outcome(input) /\ redacted.doc = Doc(input)
      /\ receipts["package"] = PackageOf(input)
  BY <1>1, PublishedIs
<1>3. PackageOf(input).body.blocking = receipts["package"].body.blocking
      /\ Outcome(input).unapplied = redacted.unapplied
  BY <1>2
<1> QED BY <1>2, <1>3, PackageBlames DEF RefusalsNameTheDefects, Differing

\* The texts of a place of an arm are published with its bundle.
LEMMA ArmTexts ==
  ASSUME NEW in, Replayed(in), NEW arm \in Arms, NEW kind,
         Safe(in, Doc(in))
  PROVE  (UNION Texts(BundleOf(in, arm).doc, arm, kind)) \cap in.policy.deny = {}
<1>1. Texts(BundleOf(in, arm).doc, arm, kind) = Texts(Doc(in), arm, kind)
  BY BundleItems
<1>2. \A t \in Texts(Doc(in), arm, kind) : t \cap in.policy.deny = {}
  <2> TAKE t \in Texts(Doc(in), arm, kind)
  <2>1. PICK p \in DOMAIN Doc(in) : p[1] = arm /\ t = Doc(in)[p]
    BY DEF Texts
  <2> QED BY <2>1 DEF Safe
<1> QED BY <1>1, <1>2

\* What the documents may show, the title and the notes aside.
Clear(in, marks) ==
  marks \cap in.policy.deny
    \subseteq in.spec.title \cup in.spec.description \cup in.spec.not_claimed

\* One document: what it says of the arms is what the receipts say, and it is clear.
Backed(in, d) ==
  /\ \A b \in DOMAIN d.admissions : d.admissions[b] = "ADMIT" <=> b # "baseline"
  /\ \A row \in d.verdicts : row.verdict = "PASS"
  /\ Clear(in, d.shows)

\* What is read of a document is what it was made of.
LEMMA DocumentIs ==
  ASSUME NEW s, NEW m, NEW v, NEW c
  PROVE  /\ Document(s, m, v, c).shows = s /\ Document(s, m, v, c).admissions = m
         /\ Document(s, m, v, c).verdicts = v /\ Document(s, m, v, c).codes = c
  BY DEF Document

\* The documents of an admitted build, one by one.
LEMMA AdmittedBacked ==
  ASSUME NEW in, Buildable(in), PackageOf(in).body.admission = "ADMIT"
  PROVE  LET a == ArtifactOf(in)
             receipt == PackageOf(in)
         IN  /\ Backed(in, Transcript(a)) /\ Backed(in, Readme(a, receipt))
             /\ Backed(in, Listing(a, receipt)) /\ Backed(in, Thumbnail(a, receipt))
             /\ \A name \in DOMAIN Slides(a, receipt) : Backed(in, Slides(a, receipt)[name])
             /\ Listing(a, receipt).codes = ReceiptOf(in, "baseline").body.blocking
             /\ Listing(a, receipt).codes # {}
<1> DEFINE a == ArtifactOf(in)
           receipt == PackageOf(in)
           deny == in.policy.deny
           unscanned == in.spec.title \cup in.spec.description \cup in.spec.not_claimed
<1>1. Replayed(in) /\ "baseline" \in Arms /\ "augmented" \in Arms /\ "package" \notin Arms
  BY DEF Buildable, Arms
<1>2. /\ Safe(in, Doc(in)) /\ Clean(in, Doc(in), "augmented")
      /\ ~Clean(in, Doc(in), "baseline")
  BY PackageAdmits DEF Supported
<1>3. \A arm \in Arms : ReceiptOf(in, arm).body.admission = "ADMIT" <=> arm # "baseline"
  BY <1>1, <1>2, ArmAdmits DEF Arms
<1>4. /\ ReceiptOf(in, "baseline").body.blocking # {}
      /\ ReceiptOf(in, "augmented").body.blocking = {}
  <2>1. \A arm \in Arms : ReceiptOf(in, arm).body.admission = "ADMIT"
                           <=> ReceiptOf(in, arm).body.blocking = {}
    BY SubmitRecords DEF ReceiptOf, ArmContracts, ArmPolicy, Suite
  <2> QED BY <1>1, <1>3, <2>1
<1>5. \A row \in Rows(receipt) : row.verdict = "PASS"
  BY SubmitRecords DEF PackageOf, PackageContracts, PackagePolicy, Suite, Rows
<1>6. /\ in.spec.labels \cap deny = {} /\ in.spec.claim \cap deny = {}
      /\ in.fixture.gaps \cap deny = {}
  BY <1>2 DEF Safe
<1>7. /\ a.title = in.spec.title /\ a.description = in.spec.description
      /\ a.not_claimed = in.spec.not_claimed /\ a.claim = in.spec.claim
      /\ a.projection.labels = in.spec.labels /\ a.gaps = in.fixture.gaps
  <2>1. a.gaps = [arm \in Arms |-> BundleOf(in, arm)]["augmented"].gaps
    BY DEF ArtifactOf, Artifact
  <2>2. a.gaps = in.fixture.gaps
    BY <1>1, <2>1, BundleIs
  <2> QED BY <2>2 DEF ArtifactOf, Artifact
<1>8. \A arm \in Arms : /\ a.projection.arms[arm].admission = ReceiptOf(in, arm).body.admission
                        /\ a.projection.arms[arm].blocking = ReceiptOf(in, arm).body.blocking
                        /\ a.arms[arm].xi.admission = ReceiptOf(in, arm).body.admission
                        /\ Of(a, arm) = BundleOf(in, arm)
  <2>1. \A r : Summary(r).admission = r.body.admission
    BY DEF Summary
  <2>2. \A arm \in Arms : /\ a.arms[arm].xi = Summary(ReceiptOf(in, arm))
                          /\ Of(a, arm) = BundleOf(in, arm)
    BY ArtifactIs
  <2>3. a.projection.arms = [arm \in Arms |->
          [admission |-> [arm2 \in Arms |-> ReceiptOf(in, arm2)][arm].body.admission,
           blocking |-> [arm2 \in Arms |-> ReceiptOf(in, arm2)][arm].body.blocking]]
    BY DEF ArtifactOf, Artifact
  <2> HIDE DEF a
  <2> QED BY <2>1, <2>2, <2>3
<1>9. a.projection.text \cap deny = {}
  <2>1. a.projection.text = in.spec.claim \cup in.spec.labels \cup
          UNION {UNION Texts(BundleOf(in, arm).doc, arm, "claim") : arm \in Arms}
    BY ArtifactIs
  <2>2. \A arm \in Arms : (UNION Texts(BundleOf(in, arm).doc, arm, "claim")) \cap deny = {}
    BY <1>1, <1>2, ArmTexts
  <2> HIDE DEF a, deny
  <2> QED BY <1>6, <2>1, <2>2
<1> HIDE DEF a, receipt
<1>10. receipt.body.admission = "ADMIT"
  BY DEF receipt
<1>11. /\ \A b \in DOMAIN Stated(a, receipt) : Stated(a, receipt)[b] = "ADMIT" <=> b # "baseline"
       /\ \A b \in DOMAIN Decided(receipt) : Decided(receipt)[b] = "ADMIT" <=> b # "baseline"
       /\ DOMAIN Undecided = {}
       /\ \A b \in Arms :
            [arm \in Arms |-> a.arms[arm].xi.admission][b] = "ADMIT" <=> b # "baseline"
       /\ \A b \in Arms : [arm \in Arms |-> a.projection.arms[arm].admission][b] = "ADMIT"
                           <=> b # "baseline"
  BY <1>1, <1>3, <1>8, <1>10 DEF Stated, Decided, Undecided
<1>12. /\ Clear(in, a.projection.labels) /\ Clear(in, a.claim \cup a.not_claimed)
       /\ Clear(in, a.projection.text) /\ Clear(in, {})
       /\ Clear(in, a.title \cup a.projection.labels \cup a.claim \cup a.description
                       \cup Caveats(a))
       /\ Clear(in, a.title \cup a.projection.labels \cup a.claim \cup Caveats(a))
  BY <1>6, <1>7, <1>9 DEF Clear, Caveats
<1>13. Backed(in, Transcript(a))
  <2> DEFINE texts == UNION {UNION Texts(Of(a, arm).doc, arm, kind) :
                               arm \in Arms, kind \in {"step", "claim", "limitation"}}
  <2>1. texts \cap deny = {}
    <3>1. \A arm \in Arms : \A kind :
            (UNION Texts(Of(a, arm).doc, arm, kind)) \cap deny = {}
      BY <1>1, <1>2, <1>8, ArmTexts
    <3> QED BY <3>1
  <2>2. Clear(in, a.projection.labels \cup texts)
    BY <1>6, <1>7, <2>1 DEF Clear
  <2>3. Transcript(a) = Document(a.projection.labels \cup texts,
                                 [arm \in Arms |-> a.arms[arm].xi.admission], {}, {})
    BY DEF Transcript
  <2> HIDE DEF texts
  <2> QED BY <1>11, <2>2, <2>3, DocumentIs DEF Backed
<1>14. Backed(in, Readme(a, receipt)) /\ Backed(in, Listing(a, receipt)) /\ Backed(in, Thumbnail(a, receipt))
  <2>1. Backed(in, Readme(a, receipt))
    BY <1>5, <1>11, <1>12, DocumentIs DEF Backed, Readme
  <2>2. Backed(in, Listing(a, receipt))
    BY <1>11, <1>12, DocumentIs DEF Backed, Listing
  <2>3. Backed(in, Thumbnail(a, receipt))
    BY <1>11, <1>12, DocumentIs DEF Backed, Thumbnail
  <2> QED BY <2>1, <2>2, <2>3
<1>15. /\ Backed(in, SlideTitle(a, receipt)) /\ Backed(in, SlideClaim(a, receipt))
       /\ Backed(in, SlideContract(a, receipt)) /\ Backed(in, SlideArms(a, receipt))
       /\ Backed(in, SlideChangedVariable(a, receipt)) /\ Backed(in, SlideVerdict(a, receipt))
       /\ Backed(in, SlideReceipt(a, receipt))
  <2>1. Backed(in, SlideTitle(a, receipt))
    BY <1>11, <1>12, DocumentIs DEF Backed, SlideTitle
  <2>2. Backed(in, SlideClaim(a, receipt))
    BY <1>11, <1>12, DocumentIs DEF Backed, SlideClaim
  <2>3. Backed(in, SlideContract(a, receipt))
    BY <1>11, <1>12, DocumentIs DEF Backed, SlideContract
  <2>4. Backed(in, SlideArms(a, receipt))
    BY <1>11, <1>12, DocumentIs DEF Backed, SlideArms
  <2>5. Backed(in, SlideChangedVariable(a, receipt))
    BY <1>5, <1>11, <1>12, DocumentIs DEF Backed, SlideChangedVariable
  <2>6. Backed(in, SlideVerdict(a, receipt))
    BY <1>5, <1>11, <1>12, DocumentIs DEF Backed, SlideVerdict
  <2>7. Backed(in, SlideReceipt(a, receipt))
    BY <1>11, <1>12, DocumentIs DEF Backed, SlideReceipt
  <2> QED BY <2>1, <2>2, <2>3, <2>4, <2>5, <2>6, <2>7
<1>16. \A name \in DOMAIN Slides(a, receipt) : Backed(in, Slides(a, receipt)[name])
  BY <1>15 DEF Slides
<1>17. Listing(a, receipt).codes = ReceiptOf(in, "baseline").body.blocking
  <2>1. Listing(a, receipt).codes
          = a.projection.arms["baseline"].blocking \ a.projection.arms["augmented"].blocking
    BY DocumentIs DEF Listing
  <2> QED BY <1>1, <1>4, <1>8, <2>1
<1> QED BY <1>4, <1>13, <1>14, <1>16, <1>17 DEF a, receipt

\* Each of the documents, by its name.
LEMMA WrittenAt ==
  ASSUME NEW a, NEW all, NEW render, NEW name \in DOMAIN Written(a, all, render)
  PROVE  /\ name = "transcript" => Written(a, all, render)[name] = Transcript(a)
         /\ name = "README" => Written(a, all, render)[name] = Readme(a, all["package"])
         /\ name = "listing" => Written(a, all, render)[name] = Listing(a, all["package"])
         /\ name = "thumbnail" => Written(a, all, render)[name] = Thumbnail(a, all["package"])
         /\ name = "NOT_ADMITTED" => Written(a, all, render)[name] = NotAdmitted(all["package"])
<1> DEFINE r == all["package"]
           slides == Slides(a, r)
           document(n) == CASE n = "findings" -> Findings(all)
                            [] n = "transcript" -> Transcript(a)
                            [] n = "NOT_ADMITTED" -> NotAdmitted(r)
                            [] n = "README" -> Readme(a, r)
                            [] n = "listing" -> Listing(a, r)
                            [] n = "thumbnail" -> Thumbnail(a, r)
                            [] n \in DOMAIN slides -> slides[n]
<1>1. Written(a, all, render)[name] = document(name)
  BY DEF Written
<1>2. DOMAIN slides = {"title", "claim", "contract", "arms", "changed_variable",
                       "verdict", "receipt"}
  BY DEF Slides
<1> HIDE DEF slides
<1>3. name = "transcript" => document(name) = Transcript(a)
  BY <1>2
<1>4. name = "README" => document(name) = Readme(a, r)
  BY <1>2
<1>5. name = "listing" => document(name) = Listing(a, r)
  BY <1>2
<1>6. name = "thumbnail" => document(name) = Thumbnail(a, r)
  BY <1>2
<1>7. name = "NOT_ADMITTED" => document(name) = NotAdmitted(r)
  BY <1>2
<1> HIDE DEF document
<1> QED BY <1>1, <1>3, <1>4, <1>5, <1>6, <1>7

\* Whatever is published is backed, and a refusal is written down.
LEMMA DocumentsFollow == BuildInv => DocumentsAreBacked
<1> SUFFICES ASSUME BuildInv, exit \in {"ok", "not_admitted"} PROVE DocumentsAreBacked
  BY DEF DocumentsAreBacked
<1> DEFINE a == ArtifactOf(input)
           receipt == PackageOf(input)
<1>1. Stage \in FromWrite
  BY DEF Stage, FromWrite
<1>2. /\ Buildable(input) /\ receipts["package"] = receipt
      /\ receipts["baseline"] = ReceiptOf(input, "baseline")
  BY <1>1, PublishedIs DEF Arms
<1>3. PICK render \in BOOLEAN : documents = Written(a, receipts, render)
  BY DEF BuildInv, Ended
<1>4. exit = "ok" <=> receipt.body.admission = "ADMIT"
  BY <1>2 DEF BuildInv, Ended
<1> DEFINE unscanned == input.spec.title \cup input.spec.description \cup input.spec.not_claimed
<1> HIDE DEF a, receipt
<1>5. CASE exit = "ok"
  <2>1. /\ {"README", "listing"} \subseteq DOMAIN documents
        /\ DOMAIN documents \subseteq {"findings", "transcript", "README", "listing", "thumbnail"}
                                        \cup DOMAIN Slides(a, receipt)
    BY <1>2, <1>3, <1>4, <1>5, WrittenNames
  <2>2. /\ Backed(input, Transcript(a)) /\ Backed(input, Readme(a, receipt))
        /\ Backed(input, Listing(a, receipt)) /\ Backed(input, Thumbnail(a, receipt))
        /\ \A name \in DOMAIN Slides(a, receipt) : Backed(input, Slides(a, receipt)[name])
        /\ Listing(a, receipt).codes = ReceiptOf(input, "baseline").body.blocking
        /\ Listing(a, receipt).codes # {}
    BY <1>2, <1>4, <1>5, AdmittedBacked DEF a, receipt
  <2>3. ASSUME NEW name \in DOMAIN documents \ {"findings"}
        PROVE  Backed(input, documents[name])
    <3>1. DOMAIN Slides(a, receipt) = {"title", "claim", "contract", "arms", "changed_variable",
                                       "verdict", "receipt"}
      BY DEF Slides
    <3>2. CASE name = "transcript"
      <4>1. documents[name] = Transcript(a)
        BY <1>2, <1>3, <3>2, WrittenAt
      <4> QED BY <2>2, <4>1
    <3>3. CASE name = "README"
      <4>1. documents[name] = Readme(a, receipt)
        BY <1>2, <1>3, <3>3, WrittenAt
      <4> QED BY <2>2, <4>1
    <3>4. CASE name = "listing"
      <4>1. documents[name] = Listing(a, receipt)
        BY <1>2, <1>3, <3>4, WrittenAt
      <4> QED BY <2>2, <4>1
    <3>5. CASE name = "thumbnail"
      <4>1. documents[name] = Thumbnail(a, receipt)
        BY <1>2, <1>3, <3>5, WrittenAt
      <4> QED BY <2>2, <4>1
    <3>6. CASE name \in DOMAIN Slides(a, receipt)
      <4>1. name \notin {"findings", "transcript", "NOT_ADMITTED", "README", "listing", "thumbnail"}
        BY <3>1, <3>6
      <4>2. documents[name] = Slides(a, receipt)[name]
        BY <1>2, <1>3, <3>6, <4>1 DEF Written
      <4> QED BY <2>2, <3>6, <4>2
    <3> QED BY <2>1, <3>2, <3>3, <3>4, <3>5, <3>6
  <2>4. documents["listing"] = Listing(a, receipt)
    BY <1>2, <1>3, <2>1, WrittenAt
  <2> QED BY <1>2, <1>5, <2>2, <2>3, <2>4 DEF DocumentsAreBacked, Backed, Clear
<1>6. CASE exit = "not_admitted"
  <2>1. receipt.body.admission # "ADMIT"
    BY <1>4, <1>6
  <2>2. DOMAIN documents = {"findings", "transcript", "NOT_ADMITTED"}
    BY <1>2, <1>3, <2>1, WrittenNames
  <2>3. documents["NOT_ADMITTED"] = NotAdmitted(receipt)
    BY <1>2, <1>3, <2>2, WrittenAt
  <2>4. receipt.body.blocking # {}
    BY <2>1, SubmitRecords DEF receipt, PackageOf, PackageContracts, PackagePolicy, Suite
  <2>5. documents["NOT_ADMITTED"].codes # {}
    BY <2>3, <2>4, DocumentIs DEF NotAdmitted
  <2> QED BY <1>6, <2>2, <2>5 DEF DocumentsAreBacked
<1> QED BY <1>5, <1>6

-----------------------------------------------------------------------------
(* The theorems.                                                           *)

\* The invariant holds in every state of every behaviour.
LEMMA InvariantHolds == Spec => []BuildInv
  BY InitBuild, NextBuild, PTL DEF Spec

\* The variables of a build keep their types: a failed step ends it with the usage error
\* and nothing after it runs (engine.py, build_proof; cli.py, main).
THEOREM TypeCorrect == Spec => []TypeOK
<1>1. BuildInv => TypeOK
  BY DEF BuildInv
<1> QED BY <1>1, InvariantHolds, PTL

\* For every policy of any number of rules and every finite document: apply_policy, in
\* which each rule sees only what its predecessors left, leaves nothing that a regex was
\* to find or that a pointer means at any moment but what a rule brought; it takes nothing
\* from a node that no pointer can mean but what some regex finds; and its accounting
\* reports as idle each rule that was forestalled and as applied each one that was not.
THEOREM RedactionHolds == Spec => []RedactionIsExact
  BY RedactionFollows, InvariantHolds, PTL

\* For every spec, fixture, policy and pair of recordings: _cmd_build succeeds exactly if
\* the recordings support the claim, and fails with a usage error or a traceback exactly
\* if no build can be made, before or after the redaction: the two suites of checks admit
\* neither more nor less.
THEOREM OutcomeHolds == Spec => []OutcomeIsEarned
  BY OutcomeFollows, InvariantHolds, PTL

\* The receipt of a refused package names each of its defects, whatever other defects it
\* has: no check of the suite keeps another from being heard (engine.py, decide).
THEOREM RefusalsHold == Spec => []RefusalsNameTheDefects
  BY RefusalsFollow, InvariantHolds, PTL

\* What write_package publishes, the README, listing, transcript, slides and still, says
\* of the arms what the receipts say and shows nothing that is denied but by way of the
\* three texts that no check scans; a refused build publishes its codes instead.
THEOREM DocumentsHold == Spec => []DocumentsAreBacked
  BY DocumentsFollow, InvariantHolds, PTL
=============================================================================
