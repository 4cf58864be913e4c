------------------------------ MODULE Ordering ------------------------------
(***************************************************************************)
(* Rows picked out of a sequence and rows sorted, as a comprehension and   *)
(* the stable sort of Python do it.  Without recursion: what they give can *)
(* be proved for sequences of every length.                                *)
(***************************************************************************)
EXTENDS Naturals, FiniteSets, Sequences

\* The members of a finite set, each after those it does not precede.
InOrder(I, Upto(_, _)) ==
    [k \in 1..Cardinality(I) |->
        CHOOSE i \in I : Cardinality({j \in I : Upto(j, i)}) = k]

\* The rows at the places I.
Pick(s, I) ==
    LET at == InOrder(I, LAMBDA i, j : i <= j) IN [k \in DOMAIN at |-> s[at[k]]]

\* The rows sorted; of two that are neither before the other the first stays first.
StableSort(s, Before(_, _)) ==
    LET at == InOrder(DOMAIN s, LAMBDA i, j :
                  Before(s[i], s[j]) \/ (~Before(s[j], s[i]) /\ i <= j))
    IN  [k \in DOMAIN at |-> s[at[k]]]
=============================================================================
