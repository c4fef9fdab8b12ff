---------------------------- MODULE MCUserUpload ----------------------------
EXTENDS UserUpload

(* Nobody, all but one, and one who has two cards at the end of a chunk.   *)
SomeLists == {[u \in Ids |-> 0], [u \in Ids |-> IF u = 2 THEN 0 ELSE 1],
              [u \in Ids |-> IF u = 2 THEN MaxRows ELSE 1]}

(* Every second user has two cards.                                        *)
PairedLists == {[u \in Ids |-> IF u % 2 = 0 THEN MaxRows ELSE 1]}
=============================================================================
