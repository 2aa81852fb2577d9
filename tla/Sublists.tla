------------------------------ MODULE Sublists ------------------------------
(***************************************************************************)
(* What List.RemoveAll leaves of a list: the elements that do not match,   *)
(* in the order they had.  Expiration matches by a clock that is read anew *)
(* for each element, so between two of them one may come of age, and any   *)
(* of the elements may be the ones that go.                                *)
(***************************************************************************)
EXTENDS Integers, Sequences

\* Choices of places in a list of length n, in ascending order.
Places(n) ==
    { at \in UNION { [1..k -> 1..n] : k \in 0..n } :
          \A i, j \in DOMAIN at : i < j => at[i] < at[j] }

Sublists(s) == { [i \in DOMAIN at |-> s[at[i]]] : at \in Places(Len(s)) }
=============================================================================
