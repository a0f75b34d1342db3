--------------------------- MODULE DurableArchive ---------------------------
(***************************************************************************)
(* What the agent-run wrapper promises its operator, with no files, no     *)
(* processes and no protocol: a scratch area holds at most one version of  *)
(* a run's artifact, an archive only grows and only by what is in scratch; *)
(* outside a wrap, scratch is given up only on the archive's word.         *)
(* AgentWrap implements it.                                                *)
(***************************************************************************)
CONSTANT Versions   \* the versions of one run's artifact (same run_id)

VARIABLES scratch,  \* the versions in scratch: none, or a singleton
          archive,  \* the versions the archive holds
          wrapping  \* whether a wrap is under way

vars == <<scratch, archive, wrapping>>

Init == scratch = {} /\ archive = {} /\ wrapping = FALSE

Begin == ~wrapping /\ wrapping' = TRUE /\ UNCHANGED <<scratch, archive>>

\* A wrap ends: it returns, or it is cut short.
End == wrapping /\ wrapping' = FALSE /\ UNCHANGED <<scratch, archive>>

\* A wrap puts a version in scratch, over whatever was there.
Keep(v) == wrapping /\ scratch' = {v} /\ UNCHANGED <<archive, wrapping>>

\* It is cut short in the middle of that, which leaves no readable version.
Spoil == wrapping /\ wrapping' = FALSE /\ scratch' = {} /\ UNCHANGED archive

\* What is in scratch is copied to the archive; nothing leaves the archive.
Save == wrapping /\ archive' = archive \cup scratch /\ UNCHANGED <<scratch, wrapping>>

\* Scratch is dropped on the archive's word: everything in it is archived.
DropVerified == /\ ~wrapping /\ scratch \subseteq archive
                /\ scratch' = {}
                /\ UNCHANGED <<archive, wrapping>>

\* Scratch is dropped on the caller's word: the version the caller names is
\* archived, and nothing is said of the one in scratch.
DropOnRequest(v) == /\ ~wrapping /\ v \in archive
                    /\ scratch' = {}
                    /\ UNCHANGED <<archive, wrapping>>

Next == \/ Begin \/ End \/ Spoil \/ Save \/ DropVerified
        \/ \E v \in Versions : Keep(v) \/ DropOnRequest(v)

Spec == Init /\ [][Next]_vars
=============================================================================
