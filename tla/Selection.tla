------------------------------ MODULE Selection ------------------------------
(****************************************************************************)
(* What a loop, a comprehension or a WHERE leaves of a list.                *)
(****************************************************************************)
EXTENDS Integers, Sequences, FiniteSets

\* The members of s at the positions of keep, in order: the j-th is at the position
\* that has j positions of keep up to itself.
Kept(s, keep) ==
    [j \in 1..Cardinality(keep) |->
       s[CHOOSE i \in keep : Cardinality({k \in keep : k <= i}) = j]]

=============================================================================
