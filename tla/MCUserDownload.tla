---------------------------- MODULE MCUserDownload ----------------------------
EXTENDS UserDownload

CONSTANTS u1, u2, c1

Rec(u, c) == [user |-> u, card |-> c, good |-> TRUE]
Bad(r)    == [r EXCEPT !.good = FALSE]

(* Three chunks, the second of which ends two records; the card and both   *)
(* users come twice.                                                       *)
Long   == <<Rec(u1, c1), Rec(u2, NoCard), Rec(u1, NoCard), Rec(u2, c1)>>
(* A record is broken.                                                     *)
Mixed  == <<Bad(Rec(u1, c1)), Rec(u2, c1)>>
(* Nothing can be registered.                                              *)
Broken == <<Bad(Rec(u1, c1))>>

MCLists     == {Long, Mixed}
MCBadLists  == {Long, Broken}

=============================================================================
