-------------------------------- MODULE Lists --------------------------------
(***************************************************************************)
(* lib::List seen from its users: a sequence of distinct elements.         *)
(* push_back is Append, pop_front is Tail, insert is InsertAt and splice   *)
(* at the end is concatenation; erase takes an element, not a position.    *)
(***************************************************************************)
EXTENDS Naturals, Sequences, SequencesExt

\* List::erase({t}) of an element t that is in the list s
Unlink(s, t) == RemoveAt(s, CHOOSE i \in DOMAIN s : s[i] = t)
=============================================================================
