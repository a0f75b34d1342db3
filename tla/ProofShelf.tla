----------------------------- MODULE ProofShelf -----------------------------
(***************************************************************************)
(* What the directory of a proof promises, with no files, no digests and   *)
(* no manifest: a shelf on which the package of one build is whole or no   *)
(* package is.  What is there is withdrawn before the next is prepared,    *)
(* the next is published in one step, and a write that returns has done    *)
(* it; one that dies leaves what it had done.  A visitor who asks looks at *)
(* the shelf once, and is told "verified" only of a package that was whole *)
(* then, unless others have touched the shelf; and he is not turned away   *)
(* from a flawless package that nobody moves meanwhile.                    *)
(* ProofPackage implements it.                                             *)
(***************************************************************************)
EXTENDS Naturals

VARIABLES
  admitted,  \* whether the artifact that the shelf is for is admitted
  shelf,     \* the build whose package is whole, 0 if there is none
  flawless,  \* whether it is also as it should be for a visitor to accept it
  latest,    \* the build that was last begun
  writing,   \* "idle", "under way" or "published"
  visitor,   \* "idle", "asking" or "judging"
  saw,       \* whether a package was whole when he looked
  calm,      \* whether nothing on the shelf has moved since he asked
  answer,    \* what he was told
  touched    \* whether others ever changed what is on the shelf

vars == <<admitted, shelf, flawless, latest, writing, visitor, saw, calm, answer, touched>>

Init ==
  /\ admitted \in BOOLEAN
  /\ shelf = 0 /\ flawless = FALSE /\ latest = 0 /\ writing = "idle"
  /\ visitor = "idle" /\ saw = FALSE /\ calm = FALSE /\ answer = "none"
  /\ touched = FALSE

\* Something moves: a visitor is not calm any more, and an old answer says nothing.
Stir ==
  /\ calm' = FALSE /\ UNCHANGED visitor
  /\ IF visitor = "idle" THEN saw' = FALSE /\ answer' = "none" ELSE UNCHANGED <<saw, answer>>

Begin ==
  /\ writing = "idle"
  /\ writing' = "under way" /\ latest' = latest + 1
  /\ UNCHANGED <<admitted, shelf, flawless, visitor, saw, calm, answer, touched>>

\* What was there is withdrawn and the next package is prepared: nothing is whole.
Prepare ==
  /\ writing = "under way"
  /\ shelf' = 0 /\ flawless' = FALSE /\ Stir
  /\ UNCHANGED <<admitted, latest, writing, touched>>

Publish ==
  /\ writing = "under way" /\ shelf = 0
  /\ shelf' = latest /\ writing' = "published" /\ Stir
  /\ flawless' \in BOOLEAN /\ (flawless' => admitted)
  /\ UNCHANGED <<admitted, latest, touched>>

\* A write returns: its own package is the one that is there.
Return ==
  /\ writing = "published" /\ shelf = latest
  /\ writing' = "idle"
  /\ UNCHANGED <<admitted, shelf, flawless, latest, visitor, saw, calm, answer, touched>>

Die ==
  /\ writing # "idle"
  /\ writing' = "idle"
  /\ UNCHANGED <<admitted, shelf, flawless, latest, visitor, saw, calm, answer, touched>>

Ask ==
  /\ visitor = "idle"
  /\ visitor' = "asking" /\ calm' = TRUE /\ saw' = FALSE /\ answer' = "none"
  /\ UNCHANGED <<admitted, shelf, flawless, latest, writing, touched>>

Look ==
  /\ visitor = "asking"
  /\ visitor' = "judging" /\ saw' = (shelf # 0)
  /\ UNCHANGED <<admitted, shelf, flawless, latest, writing, calm, answer, touched>>

Accept ==
  /\ visitor = "judging" /\ (touched \/ (saw /\ admitted))
  /\ visitor' = "idle" /\ answer' = "verified"
  /\ UNCHANGED <<admitted, shelf, flawless, latest, writing, saw, calm, touched>>

TurnAway ==
  /\ visitor # "idle" /\ ~(calm /\ flawless)
  /\ visitor' = "idle" /\ answer' = "refused"
  /\ UNCHANGED <<admitted, shelf, flawless, latest, writing, saw, calm, touched>>

\* Others change what is there, when nobody is at the shelf.
Touch ==
  /\ writing = "idle" /\ visitor = "idle"
  /\ touched' = TRUE
  /\ shelf' \in 0..latest /\ flawless' \in BOOLEAN
  /\ flawless' => shelf' # 0 /\ admitted
  /\ Stir
  /\ UNCHANGED <<admitted, latest, writing>>

Next ==
  \/ Begin \/ Prepare \/ Publish \/ Return \/ Die
  \/ Ask \/ Look \/ Accept \/ TurnAway
  \/ Touch

Spec == Init /\ [][Next]_vars
=============================================================================
