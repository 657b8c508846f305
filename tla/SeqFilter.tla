----------------------------- MODULE SeqFilter -----------------------------
(***************************************************************************)
(* The elements of a sequence that are in a set, in their order: Python's  *)
(* [x for x in s if x in S].  Sequences' SelectSeq takes its test as an    *)
(* operator, which the provers cannot reason about; a set they can.        *)
(***************************************************************************)
EXTENDS Integers, Sequences

Among(s, S) ==
    LET kept[k \in 0..Len(s)] ==
            IF k = 0 THEN <<>>
            ELSE IF s[k] \in S THEN Append(kept[k - 1], s[k]) ELSE kept[k - 1]
    IN  kept[Len(s)]
=============================================================================
