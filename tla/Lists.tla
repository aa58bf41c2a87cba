-------------------------------- MODULE Lists --------------------------------
(***************************************************************************)
(* A filter of a list, as a recursive function, which a proof can take     *)
(* apart.                                                                  *)
(***************************************************************************)
EXTENDS Naturals, SequencesExt

\* s.filter(x => keep.has(x))
Kept(s, keep) ==
    LET kept[n \in 0..Len(s)] ==
          IF n = 0 THEN <<>> ELSE IF s[n] \in keep THEN Append(kept[n - 1], s[n]) ELSE kept[n - 1]
    IN  kept[Len(s)]
=============================================================================
