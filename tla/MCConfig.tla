------------------------------ MODULE MCConfig ------------------------------
EXTENDS Config
CONSTANTS db1, db2, pw0, pw1, own, absent

Entered == {<<db1, pw1>>, <<db2, pw0>>}
Dbs1  == {db1, db2}
First == [db |-> db1, port |-> 1, password |-> pw0, users |-> own, events |-> own]
(* Another port, one that is taken, one out of range; fields left out.     *)
Installed == {[First EXCEPT !.port = 2, !.events = absent], [First EXCEPT !.port = 3, !.users = absent],
              [First EXCEPT !.port = 0, !.password = pw1]}
=============================================================================
