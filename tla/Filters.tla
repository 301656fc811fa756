------------------------------- MODULE Filters -------------------------------
(***************************************************************************)
(* A loop over a slice that appends the elements it wants to another: the  *)
(* filters of internal/ui and internal/probe.                              *)
(***************************************************************************)
EXTENDS Naturals, Sequences

(* The elements of s at the positions K, in the order they were.           *)
Picked(s, K) ==
  LET picked[i \in 0..Len(s)] ==
        IF i = 0 THEN <<>>
        ELSE IF i \in K THEN Append(picked[i - 1], s[i]) ELSE picked[i - 1]
  IN  picked[Len(s)]
==============================================================================
