-------------------------------- MODULE Selection --------------------------------
(***************************************************************************)
(* The loops that pass over some entries and push what they make of the    *)
(* others (ingest.rs, conformity_bindings; untp.rs and en18222.rs, the     *)
(* stamps of a log).                                                       *)
(***************************************************************************)
EXTENDS Integers, Sequences

(* The entries at some places, in their order.                             *)
Selected(entries, places) ==
    LET pushed[n \in 0..Len(entries)] ==
            IF n = 0 THEN <<>>
            ELSE IF n \in places THEN Append(pushed[n - 1], entries[n]) ELSE pushed[n - 1]
    IN pushed[Len(entries)]
=============================================================================
