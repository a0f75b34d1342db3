-------------------------- MODULE BoundedRecovery --------------------------
(***************************************************************************)
(* What bounded recovery promises: a recovery has an explicit budget, each *)
(* attempt adds one decision to a history nothing is taken from, an        *)
(* admission ends it, and so does a spent budget, after exactly as many    *)
(* refusals.  An attempt may also blow up; it ends the recovery then, and  *)
(* leaves nothing or an entry that counts for nothing.                     *)
(***************************************************************************)
EXTENDS Naturals, Sequences

CONSTANT Budgets

VARIABLES recovering,  \* outside normal posture
          left,        \* attempts left
          history      \* the decisions on the ledger

vars == <<recovering, left, history>>

Decisions == {"ADMIT", "REVIEW", "REJECT", "ERROR"}

Begin(b) == /\ ~recovering
            /\ recovering' = TRUE
            /\ left' = b
            /\ UNCHANGED history

Attempt(decision) == /\ recovering /\ left > 0
                     /\ history' = Append(history, decision)
                     /\ recovering' = (decision # "ADMIT")
                     /\ left' = IF decision = "ADMIT" THEN 0 ELSE left - 1

GiveUp == recovering /\ left = 0 /\ recovering' = FALSE /\ UNCHANGED <<left, history>>

BlowUp == /\ recovering /\ left > 0
          /\ recovering' = FALSE /\ left' = 0
          /\ \/ UNCHANGED history
             \/ \E entry \in Decisions \cup {"absent"} : history' = Append(history, entry)

Init == recovering = FALSE /\ left = 0 /\ history = <<>>

Next == \/ \E b \in Budgets : Begin(b)
        \/ \E decision \in Decisions : Attempt(decision)
        \/ GiveUp
        \/ BlowUp

Spec == Init /\ [][Next]_vars
=============================================================================
