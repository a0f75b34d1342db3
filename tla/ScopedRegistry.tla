--------------------------- MODULE ScopedRegistry ---------------------------
(***************************************************************************)
(* What a registry with scoped test doubles promises: every open block has *)
(* a binding of its own, a call inside a block changes only the innermost  *)
(* binding of a name, and closing a block uncovers what lay beneath.  A    *)
(* builtin is never covered and never absent.                              *)
(***************************************************************************)
EXTENDS Naturals, Sequences

CONSTANTS Names, Builtins, Impls, Missing

VARIABLES base,    \* the bindings outside every block
          frames   \* the bindings of the open blocks, outermost first

vars == <<base, frames>>

Bindings == Impls \cup {Missing}

Covering(n) == {k \in 1..Len(frames) : frames[k].name = n}

\* The innermost binding of n becomes i.
Bind(n, i) ==
  /\ n \in Builtins => i # Missing
  /\ \/ /\ Covering(n) = {}
        /\ base' = [base EXCEPT ![n] = i]
        /\ UNCHANGED frames
     \/ \E k \in Covering(n) :
          /\ \A j \in Covering(n) : j <= k
          /\ frames' = [frames EXCEPT ![k] = [name |-> n, impl |-> i]]
          /\ UNCHANGED base

Open(n, i) == /\ n \notin Builtins
              /\ frames' = Append(frames, [name |-> n, impl |-> i])
              /\ UNCHANGED base

Close == /\ frames # <<>>
         /\ frames' = SubSeq(frames, 1, Len(frames) - 1)
         /\ UNCHANGED base

Init == /\ base \in [Names -> Bindings]
        /\ \A n \in Builtins : base[n] # Missing
        /\ frames = <<>>

Next == \/ \E n \in Names, i \in Bindings : Bind(n, i)
        \/ \E n \in Names, i \in Impls : Open(n, i)
        \/ Close

Spec == Init /\ [][Next]_vars
=============================================================================
