---------------------------- MODULE MCEventStore ----------------------------
(* The event store on a ring of two rows with two rows of slack: any query *)
(* may fail, and both of the same kind in the check of the ring.           *)
EXTENDS EventStore

FewMisses == {miss \in SUBSET Reads : Cardinality(miss) <= 1} \cup {{"total_min", "min"}}
=============================================================================
