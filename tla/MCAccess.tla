------------------------------ MODULE MCAccess ------------------------------
EXTENDS Access

AnyRow == [enabled : BOOLEAN, validation : Codes, timezone : Codes]
(* Two minutes before midnight of a Friday to the second of a Monday.      *)
Clock == 3 * 6 - 2 .. 3 * 8 + 1
AnyPeriod == {[from |-> 6, to |-> 6], [from |-> 7, to |-> 9], [from |-> 7, to |-> 6]}
Slot == [days : {{0}, {6}, {1, 2, 3, 4, 5}}, from : 0 .. 2, to : 0 .. 2]
AnySlots == {{}} \cup {{s} : s \in Slot}
  \cup {{[days |-> {5}, from |-> 2, to |-> 2], [days |-> {6}, from |-> 0, to |-> 0]}}
=============================================================================
