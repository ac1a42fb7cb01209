------------------------------- MODULE Totals -------------------------------
(***************************************************************************)
(* Sums over a sequence of numbers, and parts of a sequence, as recursive  *)
(* functions.                                                              *)
(***************************************************************************)
EXTENDS Integers, Sequences

\* The sums of the first 0, 1, ... numbers of w.
Sums(w) ==
    LET sum[i \in 0..Len(w)] == IF i = 0 THEN 0 ELSE sum[i - 1] + w[i] IN sum

Total(w) == Sums(w)[Len(w)]

\* The elements of q whose indices are in set, in their order.
Only(q, set) ==
    LET only[i \in 0..Len(q)] ==
            IF i = 0 THEN <<>>
            ELSE IF i \in set THEN Append(only[i - 1], q[i]) ELSE only[i - 1]
    IN  only[Len(q)]
=============================================================================
