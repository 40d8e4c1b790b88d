-------------------------------- MODULE Lists --------------------------------
(***************************************************************************)
(* The walk over a linked list that unlinks nodes as it goes               *)
(* (list_for_each_entry_safe with list_del), on the sequence of the list's *)
(* nodes.                                                                  *)
(***************************************************************************)
EXTENDS Naturals, Sequences

(* The list after the walk: kept[i] is what is left of its first i nodes.  *)
Without(s, gone) ==
    LET kept[i \in 0 .. Len(s)] ==
          IF i = 0 THEN <<>>
          ELSE IF s[i] \in gone THEN kept[i - 1] ELSE Append(kept[i - 1], s[i])
    IN  kept[Len(s)]
=============================================================================
