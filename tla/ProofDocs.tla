------------------------------ MODULE ProofDocs ------------------------------
(***************************************************************************)
(* The documents of a package: what each of them shows, the marks of the   *)
(* texts it is made of, and what it says, the admissions, verdicts and     *)
(* codes it states.  All of it is taken from the package artifact or from  *)
(* a receipt; wording, layout, digests and clipping are left out.          *)
(***************************************************************************)
EXTENDS ProofChecks

Document(shows, admissions, verdicts, codes) ==
  [shows |-> shows, admissions |-> admissions, verdicts |-> verdicts, codes |-> codes]

\* What the receipt's results are shown as, check by check.
Rows(receipt) == Summary(receipt).verdicts

\* The admissions as documents state them, the arms' by way of the projection, and as
\* the receipts have them.
Stated(a, receipt) ==
  [b \in Arms \cup {"package"} |-> IF b = "package" THEN receipt.body.admission
                                   ELSE a.projection.arms[b].admission]
Decided(receipt) == [b \in {"package"} |-> receipt.body.admission]
Undecided == [b \in {} |-> {}]
Admissions(receipts) == [b \in DOMAIN receipts |-> receipts[b].body.admission]

\* Every result of the three receipts.
Findings(receipts) ==
  Document({}, Admissions(receipts), UNION {Rows(receipts[b]) : b \in DOMAIN receipts},
           UNION {receipts[b].body.blocking : b \in DOMAIN receipts})

\* What each arm recorded, step by step, as its bundle has it.
Transcript(a) ==
  Document(a.projection.labels \cup
             UNION {UNION Texts(Of(a, arm).doc, arm, kind) :
                      arm \in Arms, kind \in {"step", "claim", "limitation"}},
           [arm \in Arms |-> a.arms[arm].xi.admission], {}, {})

\* The fixture's gaps and what is not claimed.
Caveats(a) == a.gaps \cup a.not_claimed

Readme(a, receipt) ==
  Document(a.title \cup a.projection.labels \cup a.claim \cup a.description \cup Caveats(a),
           Stated(a, receipt),
           Rows(receipt),
           UNION {a.projection.arms[arm].blocking : arm \in Arms})

\* The listing advertises the codes that blocked one arm and not the other.
Listing(a, receipt) ==
  Document(a.title \cup a.projection.labels \cup a.claim \cup Caveats(a), Stated(a, receipt), {},
           a.projection.arms["baseline"].blocking \ a.projection.arms["augmented"].blocking)

\* The slides, which the video shows one after the other, and the still.
SlideTitle(a, receipt) == Document(a.projection.labels, Decided(receipt), {}, {})
SlideClaim(a, receipt) == Document(a.claim \cup a.not_claimed, Undecided, {}, {})
SlideContract(a, receipt) == Document(a.projection.labels, Undecided, {}, {})

\* One panel for each arm, with the first of its claims.
SlideArms(a, receipt) ==
  Document(a.projection.text, [arm \in Arms |-> a.projection.arms[arm].admission], {},
           UNION {a.projection.arms[arm].blocking : arm \in Arms})

\* What was held identical: the verdicts on parity and on the spec.
SlideChangedVariable(a, receipt) ==
  Document({}, Undecided,
           {row \in Rows(receipt) :
              row.check_id \in {"proof.parity.model", "proof.parity.fixture",
                                "proof.parity.tool_surface", "proof.parity.config",
                                "proof.spec.faithful"}}, {})
SlideVerdict(a, receipt) ==
  Document(a.projection.labels, Decided(receipt), Rows(receipt), receipt.body.blocking)
SlideReceipt(a, receipt) == Document(a.projection.labels, Undecided, {}, {})

Slides(a, receipt) ==
  [title |-> SlideTitle(a, receipt), claim |-> SlideClaim(a, receipt),
   contract |-> SlideContract(a, receipt), arms |-> SlideArms(a, receipt),
   changed_variable |-> SlideChangedVariable(a, receipt),
   verdict |-> SlideVerdict(a, receipt), receipt |-> SlideReceipt(a, receipt)]

Thumbnail(a, receipt) ==
  Document(a.projection.labels,
           Stated(a, receipt),
           {}, {})

NotAdmitted(receipt) ==
  Document({}, Decided(receipt), Rows(receipt),
           receipt.body.blocking)

\* write_package, of what is in the files: the diagnosis is written in any case, the
\* documents and the media only of an admitted build.
Written(a, receipts, render) ==
  LET receipt == receipts["package"]
      slides == Slides(a, receipt)
      names ==
        {"findings", "transcript"}
          \cup IF receipt.body.admission # "ADMIT" THEN {"NOT_ADMITTED"}
               ELSE {"README", "listing"}
                      \cup IF render THEN {"thumbnail"} \cup DOMAIN slides ELSE {}
      document(name) == CASE name = "findings" -> Findings(receipts)
                          [] name = "transcript" -> Transcript(a)
                          [] name = "NOT_ADMITTED" -> NotAdmitted(receipt)
                          [] name = "README" -> Readme(a, receipt)
                          [] name = "listing" -> Listing(a, receipt)
                          [] name = "thumbnail" -> Thumbnail(a, receipt)
                          [] name \in DOMAIN slides -> slides[name]
  IN  [name \in names |-> document(name)]
=============================================================================
