-------------------------- MODULE NetConfigProofs --------------------------
(***************************************************************************)
(* Proofs about the address: one the user has not confirmed is stored only *)
(* together with what undoes it, for every set of addresses, and however   *)
(* often commands fail, the power fails and acud restarts, as long as one  *)
(* user at a time works at the page and not while a roll back runs; and    *)
(* the roll back at boot leaves no change waiting unless it fails.         *)
(***************************************************************************)
EXTENDS NetConfig, Integers, SequenceTheorems, TLAPS

(* One user who waits for the roll back; NetConfig's runs show what the    *)
(* others can do.                                                          *)
Alone == ~Careless /\ \A u, v \in Users : u = v

-----------------------------------------------------------------------------
(* The invariant.                                                          *)

Todo(p) == run[p].todo

(* What may be left of each command.                                       *)
ApplyRest ==
  {cmd_apply,
   <<"check_conflict", "backup", "mark", "arm", "modify", "up">>,
   <<"backup", "mark", "arm", "modify", "up">>, <<"mark", "arm", "modify", "up">>,
   <<"arm", "modify", "up">>, <<"modify", "up">>, <<"up">>, <<>>}
RequestRest ==
  {cmd_apply_request,
   <<"remove", "refuse", "check_conflict", "modify", "up">>,
   <<"refuse", "check_conflict", "modify", "up">>, <<"check_conflict", "modify", "up">>,
   <<"modify", "up">>, <<"up">>, <<>>}
ConfirmRest ==
  {cmd_confirm, <<"disarm", "unmark", "forget">>, <<"unmark", "forget">>, <<"forget">>, <<>>}
RollbackRest ==
  {cmd_rollback,
   <<"restore", "reload", "try_up", "disarm", "unmark", "forget">>,
   <<"reload", "try_up", "disarm", "unmark", "forget">>,
   <<"try_up", "disarm", "unmark", "forget">>,
   <<"disarm", "unmark", "forget">>, <<"unmark", "forget">>, <<"forget">>, <<>>}

RollsBack(p) == Todo(p) \in RollbackRest /\ run[p].want = None

(* Who runs what, with which address.                                      *)
Commands ==
  /\ \A u \in Users : \/ Todo(u) \in ApplyRest \cup ConfirmRest /\ run[u].want # None
                      \/ RollsBack(u)
  /\ Todo("service") \in RequestRest
  /\ Idle("service") \/ Does("service", "read") \/ run["service"].want # None
  /\ RollsBack("timer") /\ RollsBack("boot")

(* The last statement of a try may wait for the network for long.          *)
Middle(u) == ~Idle(u) /\ ~Does(u, "up")

(* A user's command and a roll back that nobody asked for do not meet.     *)
Apart ==
  /\ \A u \in Users : Middle(u) => Idle("timer")
  /\ Up => Idle("boot")
  /\ ~Up => \A p \in Processes : p # "boot" => Idle(p)
  /\ Up <=> loaded # Nothing

(* What a try relies on before its next statement.                         *)
Trying(u) ==
  /\ Does(u, "check_conflict") \/ Does(u, "backup") \/ Does(u, "mark") => ~pending
  /\ Does(u, "mark") \/ Does(u, "arm") \/ Does(u, "modify") => backup # Nothing
  /\ Does(u, "arm") \/ Does(u, "modify") => pending /\ named

(* Once the file has been put back, or the address is kept, no address is  *)
(* left unconfirmed.                                                       *)
Restored(p) ==
  /\ Does(p, "reload") \/ Does(p, "try_up") \/ Does(p, "forget") => profile.from # "web"
  /\ (Does(p, "disarm") \/ Does(p, "unmark")) /\ run[p].want = None => profile.from # "web"

(* The mark has gone when the roll back at boot comes to its last          *)
(* statement: nothing else runs yet.                                       *)
BootLast == Does("boot", "forget") => ~pending

NInv ==
  /\ TypeOK /\ Commands /\ Apart /\ BootLast
  /\ UnconfirmedIsUndone /\ backup.from # "web"
  /\ \A u \in Users : Trying(u)
  /\ \A p \in Processes : Restored(p)

-----------------------------------------------------------------------------
(* Commands.                                                               *)

(* b is the statement after a in t.                                        *)
Follows(t, a, b) == Head(t) = a => Head(Tail(t)) = b

(* The order of the statements of a try,                                   *)
LEMMA ApplyOrder ==
  ASSUME NEW t \in ApplyRest, t # <<>>
  PROVE  /\ Tail(t) \in ApplyRest /\ (Head(t) = "up" => Tail(t) = <<>>)
         /\ Head(t) \in {"refuse", "check_conflict", "backup", "mark", "arm", "modify", "up"}
         /\ Follows(t, "refuse", "check_conflict") /\ Follows(t, "check_conflict", "backup")
         /\ Follows(t, "backup", "mark") /\ Follows(t, "mark", "arm")
         /\ Follows(t, "arm", "modify") /\ Follows(t, "modify", "up")
<1>1. Tail(t) \in ApplyRest
  <2>1. Tail(cmd_apply) = <<"check_conflict", "backup", "mark", "arm", "modify", "up">>
    BY DEF cmd_apply
  <2>2. Tail(<<"check_conflict", "backup", "mark", "arm", "modify", "up">>) = <<"backup", "mark", "arm", "modify", "up">>
    OBVIOUS
  <2>3. Tail(<<"backup", "mark", "arm", "modify", "up">>) = <<"mark", "arm", "modify", "up">>
    OBVIOUS
  <2>4. Tail(<<"mark", "arm", "modify", "up">>) = <<"arm", "modify", "up">>
    OBVIOUS
  <2>5. Tail(<<"arm", "modify", "up">>) = <<"modify", "up">>
    OBVIOUS
  <2>6. Tail(<<"modify", "up">>) = <<"up">>
    OBVIOUS
  <2>7. Tail(<<"up">>) = <<>>
    OBVIOUS
  <2> QED BY <2>1, <2>2, <2>3, <2>4, <2>5, <2>6, <2>7 DEF ApplyRest
<1>2. Head(t) = "up" => Tail(t) = <<>>
  <2>1. Head(t) = "up" => t = <<"up">>
    BY DEF ApplyRest, cmd_apply
  <2>2. Tail(<<"up">>) = <<>>
    OBVIOUS
  <2> QED BY <2>1, <2>2
<1>3. Head(t) \in {"refuse", "check_conflict", "backup", "mark", "arm", "modify", "up"}
  BY DEF ApplyRest, cmd_apply
<1>4. Follows(t, "refuse", "check_conflict")
  BY DEF ApplyRest, cmd_apply, Follows
<1>5. Follows(t, "check_conflict", "backup")
  BY DEF ApplyRest, cmd_apply, Follows
<1>6. Follows(t, "backup", "mark")
  BY DEF ApplyRest, cmd_apply, Follows
<1>7. Follows(t, "mark", "arm")
  BY DEF ApplyRest, cmd_apply, Follows
<1>8. Follows(t, "arm", "modify")
  BY DEF ApplyRest, cmd_apply, Follows
<1>9. Follows(t, "modify", "up")
  BY DEF ApplyRest, cmd_apply, Follows
<1> QED BY <1>1, <1>2, <1>3, <1>4, <1>5, <1>6, <1>7, <1>8, <1>9

(* ... of the request SETT leaves.                                         *)
LEMMA RequestOrder ==
  ASSUME NEW t \in RequestRest, t # <<>>
  PROVE  /\ Tail(t) \in RequestRest /\ (Head(t) = "up" => Tail(t) = <<>>)
         /\ Head(t) \in {"read", "remove", "refuse", "check_conflict", "modify", "up"}
         /\ Follows(t, "modify", "up")
<1>1. Tail(t) \in RequestRest
  <2>1. Tail(cmd_apply_request) = <<"remove", "refuse", "check_conflict", "modify", "up">>
    BY DEF cmd_apply_request
  <2>2. Tail(<<"remove", "refuse", "check_conflict", "modify", "up">>) = <<"refuse", "check_conflict", "modify", "up">>
    OBVIOUS
  <2>3. Tail(<<"refuse", "check_conflict", "modify", "up">>) = <<"check_conflict", "modify", "up">>
    OBVIOUS
  <2>4. Tail(<<"check_conflict", "modify", "up">>) = <<"modify", "up">>
    OBVIOUS
  <2>5. Tail(<<"modify", "up">>) = <<"up">>
    OBVIOUS
  <2>6. Tail(<<"up">>) = <<>>
    OBVIOUS
  <2> QED BY <2>1, <2>2, <2>3, <2>4, <2>5, <2>6 DEF RequestRest
<1>2. Head(t) = "up" => Tail(t) = <<>>
  <2>1. Head(t) = "up" => t = <<"up">>
    BY DEF RequestRest, cmd_apply_request
  <2>2. Tail(<<"up">>) = <<>>
    OBVIOUS
  <2> QED BY <2>1, <2>2
<1>3. Head(t) \in {"read", "remove", "refuse", "check_conflict", "modify", "up"}
  BY DEF RequestRest, cmd_apply_request
<1>4. Follows(t, "modify", "up")
  BY DEF RequestRest, cmd_apply_request, Follows
<1> QED BY <1>1, <1>2, <1>3, <1>4

(* ... of a confirmation.                                                  *)
LEMMA ConfirmOrder ==
  ASSUME NEW t \in ConfirmRest, t # <<>>
  PROVE  /\ Tail(t) \in ConfirmRest /\ (Head(t) = "forget" => Tail(t) = <<>>)
         /\ Head(t) \in {"need", "disarm", "unmark", "forget"}
         /\ Follows(t, "need", "disarm") /\ Follows(t, "disarm", "unmark")
         /\ Follows(t, "unmark", "forget")
<1>1. Tail(t) \in ConfirmRest
  <2>1. Tail(cmd_confirm) = <<"disarm", "unmark", "forget">>
    BY DEF cmd_confirm
  <2>2. Tail(<<"disarm", "unmark", "forget">>) = <<"unmark", "forget">>
    OBVIOUS
  <2>3. Tail(<<"unmark", "forget">>) = <<"forget">>
    OBVIOUS
  <2>4. Tail(<<"forget">>) = <<>>
    OBVIOUS
  <2> QED BY <2>1, <2>2, <2>3, <2>4 DEF ConfirmRest
<1>2. Head(t) = "forget" => Tail(t) = <<>>
  <2>1. Head(t) = "forget" => t = <<"forget">>
    BY DEF ConfirmRest, cmd_confirm
  <2>2. Tail(<<"forget">>) = <<>>
    OBVIOUS
  <2> QED BY <2>1, <2>2
<1>3. Head(t) \in {"need", "disarm", "unmark", "forget"}
  BY DEF ConfirmRest, cmd_confirm
<1>4. Follows(t, "need", "disarm")
  BY DEF ConfirmRest, cmd_confirm, Follows
<1>5. Follows(t, "disarm", "unmark")
  BY DEF ConfirmRest, cmd_confirm, Follows
<1>6. Follows(t, "unmark", "forget")
  BY DEF ConfirmRest, cmd_confirm, Follows
<1> QED BY <1>1, <1>2, <1>3, <1>4, <1>5, <1>6

(* ... of a roll back.                                                     *)
LEMMA RollbackOrder ==
  ASSUME NEW t \in RollbackRest, t # <<>>
  PROVE  /\ Tail(t) \in RollbackRest /\ (Head(t) = "forget" => Tail(t) = <<>>)
         /\ Head(t) \in {"need", "restore", "reload", "try_up", "disarm", "unmark", "forget"}
         /\ Follows(t, "need", "restore") /\ Follows(t, "restore", "reload")
         /\ Follows(t, "reload", "try_up") /\ Follows(t, "try_up", "disarm")
         /\ Follows(t, "disarm", "unmark") /\ Follows(t, "unmark", "forget")
<1>1. Tail(t) \in RollbackRest
  <2>1. Tail(cmd_rollback) = <<"restore", "reload", "try_up", "disarm", "unmark", "forget">>
    BY DEF cmd_rollback
  <2>2. Tail(<<"restore", "reload", "try_up", "disarm", "unmark", "forget">>) = <<"reload", "try_up", "disarm", "unmark", "forget">>
    OBVIOUS
  <2>3. Tail(<<"reload", "try_up", "disarm", "unmark", "forget">>) = <<"try_up", "disarm", "unmark", "forget">>
    OBVIOUS
  <2>4. Tail(<<"try_up", "disarm", "unmark", "forget">>) = <<"disarm", "unmark", "forget">>
    OBVIOUS
  <2>5. Tail(<<"disarm", "unmark", "forget">>) = <<"unmark", "forget">>
    OBVIOUS
  <2>6. Tail(<<"unmark", "forget">>) = <<"forget">>
    OBVIOUS
  <2>7. Tail(<<"forget">>) = <<>>
    OBVIOUS
  <2> QED BY <2>1, <2>2, <2>3, <2>4, <2>5, <2>6, <2>7 DEF RollbackRest
<1>2. Head(t) = "forget" => Tail(t) = <<>>
  <2>1. Head(t) = "forget" => t = <<"forget">>
    BY DEF RollbackRest, cmd_rollback
  <2>2. Tail(<<"forget">>) = <<>>
    OBVIOUS
  <2> QED BY <2>1, <2>2
<1>3. Head(t) \in {"need", "restore", "reload", "try_up", "disarm", "unmark", "forget"}
  BY DEF RollbackRest, cmd_rollback
<1>4. Follows(t, "need", "restore")
  BY DEF RollbackRest, cmd_rollback, Follows
<1>5. Follows(t, "restore", "reload")
  BY DEF RollbackRest, cmd_rollback, Follows
<1>6. Follows(t, "reload", "try_up")
  BY DEF RollbackRest, cmd_rollback, Follows
<1>7. Follows(t, "try_up", "disarm")
  BY DEF RollbackRest, cmd_rollback, Follows
<1>8. Follows(t, "disarm", "unmark")
  BY DEF RollbackRest, cmd_rollback, Follows
<1>9. Follows(t, "unmark", "forget")
  BY DEF RollbackRest, cmd_rollback, Follows
<1> QED BY <1>1, <1>2, <1>3, <1>4, <1>5, <1>6, <1>7, <1>8, <1>9

(* All of them begin whole, end empty and consist of strings.              *)
LEMMA Wholes ==
  /\ cmd_apply \in ApplyRest /\ cmd_apply_request \in RequestRest
  /\ cmd_confirm \in ConfirmRest /\ cmd_rollback \in RollbackRest
  /\ <<>> \in ApplyRest /\ <<>> \in RequestRest /\ <<>> \in ConfirmRest /\ <<>> \in RollbackRest
  /\ cmd_apply \in Seq(Statements) /\ cmd_apply_request \in Seq(Statements)
  /\ cmd_confirm \in Seq(Statements) /\ cmd_rollback \in Seq(Statements)
  /\ Head(cmd_apply) = "refuse" /\ Head(cmd_apply_request) = "read"
  /\ Head(cmd_confirm) = "need" /\ Head(cmd_rollback) = "need"
  /\ cmd_apply # <<>> /\ cmd_apply_request # <<>> /\ cmd_confirm # <<>> /\ cmd_rollback # <<>>
<1>1. /\ cmd_apply \in ApplyRest /\ cmd_apply_request \in RequestRest
      /\ cmd_confirm \in ConfirmRest /\ cmd_rollback \in RollbackRest
      /\ <<>> \in ApplyRest /\ <<>> \in RequestRest /\ <<>> \in ConfirmRest /\ <<>> \in RollbackRest
  BY DEF ApplyRest, RequestRest, ConfirmRest, RollbackRest
<1>2. cmd_apply \in Seq(Statements) /\ Head(cmd_apply) = "refuse" /\ cmd_apply # <<>>
  BY DEF cmd_apply, Statements
<1>3. /\ cmd_apply_request \in Seq(Statements) /\ Head(cmd_apply_request) = "read"
      /\ cmd_apply_request # <<>>
  BY DEF cmd_apply_request, Statements
<1>4. cmd_confirm \in Seq(Statements) /\ Head(cmd_confirm) = "need" /\ cmd_confirm # <<>>
  BY DEF cmd_confirm, Statements
<1>5. cmd_rollback \in Seq(Statements) /\ Head(cmd_rollback) = "need" /\ cmd_rollback # <<>>
  BY DEF cmd_rollback, Statements
<1> QED BY <1>1, <1>2, <1>3, <1>4, <1>5

(* The processes are the users and three others.                           *)
LEMMA Three ==
  /\ {"service", "timer", "boot"} \subseteq Processes /\ Users \subseteq Processes
  /\ \A u \in Users : u # "service" /\ u # "timer" /\ u # "boot"
  /\ \A p \in Processes : p \in Users \/ p = "service" \/ p = "timer" \/ p = "boot"
BY UsersAssumption DEF Processes

-----------------------------------------------------------------------------
(* One statement of a process.                                             *)

Runner == [todo : Seq(Statements), want : Addrs \cup {None}]

(* Process p goes on or dies: the others are where they were.              *)
LEMMA Onward ==
  ASSUME NInv, NEW p \in Processes, ~Idle(p), GoesOn(p) \/ Dies(p)
  PROVE  /\ run' \in [Processes -> Runner]
         /\ Todo(p)' \in {Tail(Todo(p)), <<>>}
         /\ \A q \in Processes : q # p => Todo(q)' = Todo(q)
         /\ \A q \in Processes : run'[q].want = run[q].want
<1>1. run \in [Processes -> Runner]
  BY DEF NInv, TypeOK, Runner
<1>2. run[p] \in Runner /\ run[p].todo \in Seq(Statements) /\ run[p].todo # <<>>
  BY <1>1 DEF Runner, Idle
<1>3. Tail(run[p].todo) \in Seq(Statements) /\ <<>> \in Seq(Statements)
  BY <1>2, HeadTailProperties
<1>4. PICK t \in Seq(Statements) : t \in {Tail(Todo(p)), <<>>} /\ run' = [run EXCEPT ![p].todo = t]
  BY <1>3 DEF GoesOn, Dies, Todo
<1>5. [run[p] EXCEPT !.todo = t] = [todo |-> t, want |-> run[p].want]
  BY <1>2 DEF Runner
<1>6. run' = [run EXCEPT ![p] = [todo |-> t, want |-> run[p].want]]
  BY <1>4, <1>5
<1>7. [todo |-> t, want |-> run[p].want] \in Runner
  BY <1>2, <1>4 DEF Runner
<1>8. run'[p] = [todo |-> t, want |-> run[p].want] /\ \A q \in Processes : q # p => run'[q] = run[q]
  BY <1>1, <1>6
<1>9. run' \in [Processes -> Runner]
  BY <1>1, <1>6, <1>7
<1> QED BY <1>4, <1>8, <1>9 DEF Todo

(* Whose command what is left belongs to.                                  *)
LEMMA CommandsKept ==
  ASSUME NInv, NEW p \in Processes, ~Idle(p), ~Does(p, "read"), GoesOn(p) \/ Dies(p)
  PROVE  /\ Commands'
         /\ \A q \in Processes : Idle(q) => Idle(q)'
         /\ \A u \in Users : Middle(u)' => Middle(u)
<1>1. /\ Todo(p)' \in {Tail(Todo(p)), <<>>} /\ Todo(p) # <<>>
      /\ \A q \in Processes : q # p => Todo(q)' = Todo(q)
      /\ \A q \in Processes : run'[q].want = run[q].want
  BY Onward DEF Idle, Todo
<1>2. Commands
  BY DEF NInv
<1>3. \A R \in {ApplyRest, RequestRest, ConfirmRest, RollbackRest}, q \in Processes :
        Todo(q) \in R => Todo(q)' \in R
  <2> SUFFICES ASSUME NEW R \in {ApplyRest, RequestRest, ConfirmRest, RollbackRest}, Todo(p) \in R
               PROVE  Todo(p)' \in R
    BY <1>1
  <2>1. <<>> \in R
    BY Wholes
  <2>2. Tail(Todo(p)) \in R
    BY <1>1, ApplyOrder, RequestOrder, ConfirmOrder, RollbackOrder
  <2> QED BY <1>1, <2>1, <2>2
<1>4. Commands'
  <2>1. ASSUME NEW u \in Users
        PROVE  \/ Todo(u)' \in ApplyRest \cup ConfirmRest /\ run'[u].want # None
               \/ RollsBack(u)'
    BY <1>1, <1>2, <1>3, Three DEF Commands, RollsBack
  <2>2. Todo("service")' \in RequestRest /\ RollsBack("timer")' /\ RollsBack("boot")'
    BY <1>1, <1>2, <1>3, Three DEF Commands, RollsBack
  <2>3. Idle("service")' \/ Does("service", "read")' \/ run'["service"].want # None
    BY <1>1, <1>2, Three DEF Commands, Does, Idle, Todo
  <2> QED BY <2>1, <2>2, <2>3 DEF Commands
<1>5. \A q \in Processes : Idle(q) => Idle(q)'
  BY <1>1 DEF Idle, Todo
<1>6. ASSUME NEW u \in Users, Middle(u)' PROVE Middle(u)
  <2>1. u \in Processes
    BY Three
  <2>2. CASE u # p
    BY <1>1, <1>6, <2>1, <2>2 DEF Middle, Idle, Does, Todo
  <2>3. CASE u = p /\ Does(p, "up")
    <3>1. Head(Todo(p)) = "up"
      BY <2>3 DEF Does, Todo
    <3>2. Todo(p) \in ApplyRest
      BY <1>1, <1>2, <2>3, <3>1, ConfirmOrder, RollbackOrder DEF Commands, RollsBack
    <3>3. Todo(p)' = <<>>
      BY <1>1, <3>1, <3>2, ApplyOrder
    <3> QED BY <1>6, <2>3, <3>3 DEF Middle, Idle, Todo
  <2>4. CASE u = p /\ ~Does(p, "up")
    BY <2>4 DEF Middle
  <2> QED BY <2>2, <2>3, <2>4
<1> QED BY <1>4, <1>5, <1>6

(* Which statement comes before another.                                   *)
LEMMA Preceded ==
  ASSUME NInv, NEW p \in Processes, ~Idle(p), GoesOn(p) \/ Dies(p), ~Idle(p)'
  PROVE  /\ p \in Users =>
              /\ Does(p, "check_conflict")' => Does(p, "refuse")
              /\ Does(p, "backup")' => Does(p, "check_conflict")
              /\ Does(p, "mark")' => Does(p, "backup")
              /\ Does(p, "arm")' => Does(p, "mark")
              /\ Does(p, "modify")' => Does(p, "arm")
         /\ Does(p, "reload")' => Does(p, "restore")
         /\ Does(p, "try_up")' => Does(p, "reload")
         /\ Does(p, "disarm")' => IF run[p].want = None THEN Does(p, "try_up") ELSE Does(p, "need")
         /\ Does(p, "unmark")' => Does(p, "disarm")
         /\ Does(p, "forget")' => Does(p, "unmark")
<1> DEFINE t == Todo(p)
           h == Head(Todo(p))
           n == Head(Tail(Todo(p)))
<1>1. Todo(p)' = Tail(t) /\ t # <<>> /\ Tail(t) # <<>>
  BY Onward DEF Idle, Todo
<1>2. \A s : (Does(p, s) <=> h = s) /\ (Does(p, s)' <=> n = s)
  BY <1>1 DEF Does, Idle, Todo
<1>3. Commands
  BY DEF NInv
<1>4. \/ p \in Users /\ t \in ApplyRest
      \/ p = "service" /\ t \in RequestRest
      \/ p \in Users /\ t \in ConfirmRest /\ run[p].want # None
      \/ t \in RollbackRest /\ run[p].want = None
  BY <1>3, Three DEF Commands, RollsBack
<1> HIDE DEF t, h, n
<1>5. CASE p \in Users /\ t \in ApplyRest
  <2>1. h \in {"refuse", "check_conflict", "backup", "mark", "arm", "modify"}
    BY <1>1, <1>5, ApplyOrder DEF h, t
  <2>2. /\ h = "refuse" => n = "check_conflict"
        /\ h = "check_conflict" => n = "backup"
        /\ h = "backup" => n = "mark"
        /\ h = "mark" => n = "arm"
        /\ h = "arm" => n = "modify"
        /\ h = "modify" => n = "up"
    BY <1>1, <1>5, ApplyOrder DEF Follows, h, n, t
  <2> QED BY <1>2, <2>1, <2>2
<1>6. CASE p = "service" /\ t \in RequestRest
  <2>1. n \in {"read", "remove", "refuse", "check_conflict", "modify", "up"}
    BY <1>1, <1>6, RequestOrder DEF n, t
  <2>2. p \notin Users
    BY <1>6, Three
  <2> QED BY <1>2, <2>1, <2>2
<1>7. CASE p \in Users /\ t \in ConfirmRest /\ run[p].want # None
  <2>1. h \in {"need", "disarm", "unmark"}
    BY <1>1, <1>7, ConfirmOrder DEF h, t
  <2>2. /\ h = "need" => n = "disarm"
        /\ h = "disarm" => n = "unmark"
        /\ h = "unmark" => n = "forget"
    BY <1>1, <1>7, ConfirmOrder DEF Follows, h, n, t
  <2> QED BY <1>2, <1>7, <2>1, <2>2
<1>8. CASE t \in RollbackRest /\ run[p].want = None
  <2>1. h \in {"need", "restore", "reload", "try_up", "disarm", "unmark"}
    BY <1>1, <1>8, RollbackOrder DEF h, t
  <2>2. /\ h = "need" => n = "restore"
        /\ h = "restore" => n = "reload"
        /\ h = "reload" => n = "try_up"
        /\ h = "try_up" => n = "disarm"
        /\ h = "disarm" => n = "unmark"
        /\ h = "unmark" => n = "forget"
    BY <1>1, <1>8, RollbackOrder DEF Follows, h, n, t
  <2> QED BY <1>2, <1>8, <2>1, <2>2
<1> QED BY <1>4, <1>5, <1>6, <1>7, <1>8

(* A statement keeps the invariant when it keeps it for the process whose  *)
(* statement it is: only the service works next to a user's command, and   *)
(* it touches neither PENDING nor the backup.                              *)
LEMMA StepKeeps ==
  ASSUME NInv, Alone, NEW p \in Processes, ~Idle(p), GoesOn(p) \/ Dies(p),
         ~Does(p, "read"), request' \in SettAddrs \cup {None}, profile' \in Settings,
         {loaded', address', backup'} \subseteq Settings \cup {Nothing},
         pending' \in BOOLEAN, named' \in BOOLEAN, timer' \in BOOLEAN,
         spent' \in [{"applies", "setts", "cuts", "fails"} -> Nat],
         Up' <=> Up, Up' <=> loaded' # Nothing,
         UnconfirmedIsUndone', backup'.from # "web",
         p \in Users => Trying(p)', Restored(p)', p = "boot" => BootLast',
         profile'.from = "web" => profile.from = "web" \/ (p \in Users /\ Middle(p)),
         p = "service" => UNCHANGED <<pending, named, backup>>
  PROVE  NInv'
<1>1. /\ run' \in [Processes -> Runner]
      /\ \A q \in Processes : q # p => Todo(q)' = Todo(q)
      /\ \A q \in Processes : run'[q].want = run[q].want
  BY Onward
<1>2. /\ Commands'
      /\ \A q \in Processes : Idle(q) => Idle(q)'
      /\ \A u \in Users : Middle(u)' => Middle(u)
  BY CommandsKept
<1>3. Commands /\ Apart
  BY DEF NInv
<1>4. TypeOK'
  BY <1>1 DEF TypeOK, Runner
<1>5. Apart'
  <2>1. \A u \in Users : Middle(u)' => Idle("timer")'
    BY <1>2, <1>3, Three DEF Apart
  <2>2. Up' => Idle("boot")'
    BY <1>2, <1>3, Three DEF Apart
  <2>3. ~Up' => \A q \in Processes : q # "boot" => Idle(q)'
    BY <1>2, <1>3 DEF Apart
  <2> QED BY <2>1, <2>2, <2>3 DEF Apart
<1>6. \A q \in Processes : q # p => \A s : Does(q, s)' <=> Does(q, s)
  BY <1>1 DEF Does, Idle, Todo
<1>7. \A u \in Users : Middle(u) => Idle("timer") /\ Idle("boot")
  <2> SUFFICES ASSUME NEW u \in Users, Middle(u) PROVE Idle("timer") /\ Idle("boot")
    OBVIOUS
  <2>1. Idle("timer")
    BY <1>3 DEF Apart
  <2>2. ~Idle(u) /\ u \in Processes /\ u # "boot"
    BY Three DEF Middle
  <2>3. Up
    BY <1>3, <2>2 DEF Apart
  <2> QED BY <1>3, <2>1, <2>3 DEF Apart
<1>8. ASSUME NEW u \in Users PROVE Trying(u)'
  <2>1. CASE u = p
    BY <2>1
  <2>2. CASE u # p /\ ~Middle(u)
    <3>1. \A s : Does(u, s) => s = "up"
      BY <2>2 DEF Middle, Does
    <3>2. \A s : Does(u, s)' => s = "up"
      BY <1>6, <2>2, <3>1, Three
    <3> QED BY <3>2 DEF Trying
  <2>3. CASE u # p /\ Middle(u)
    <3>1. p = "service"
      BY <1>7, <2>3, Three DEF Alone
    <3>2. pending' = pending /\ named' = named /\ backup' = backup
      BY <3>1
    <3>3. Trying(u)
      BY DEF NInv
    <3>4. \A s : Does(u, s)' <=> Does(u, s)
      BY <1>6, <2>3, Three
    <3> QED BY <3>2, <3>3, <3>4 DEF Trying, Nothing
  <2> QED BY <2>1, <2>2, <2>3
<1>9. ASSUME NEW q \in Processes PROVE Restored(q)'
  <2>1. CASE q = p
    BY <2>1
  <2>2. CASE q # p /\ (profile'.from = "web" => profile.from = "web")
    <3>1. Restored(q)
      BY DEF NInv
    <3>2. (\A s : Does(q, s)' <=> Does(q, s)) /\ run'[q].want = run[q].want
      BY <1>1, <1>6, <2>2
    <3> QED BY <2>2, <3>1, <3>2 DEF Restored
  <2>3. CASE q # p /\ p \in Users /\ Middle(p)
    <3>1. q = "service" \/ Idle(q)
      BY <1>7, <2>3, Three DEF Alone
    <3>2. \A s : Does(q, s)' => s \in {"read", "remove", "refuse", "check_conflict", "modify", "up"}
      <4> SUFFICES ASSUME NEW s, Does(q, s)
                   PROVE  s \in {"read", "remove", "refuse", "check_conflict", "modify", "up"}
        BY <1>6, <2>3
      <4>1. q = "service" /\ Todo(q) \in RequestRest /\ Todo(q) # <<>> /\ s = Head(Todo(q))
        BY <1>3, <3>1 DEF Does, Idle, Todo, Commands
      <4> QED BY <4>1, RequestOrder
    <3> QED BY <3>2 DEF Restored
  <2> QED BY <2>1, <2>2, <2>3
<1>10. BootLast'
  <2>1. CASE p = "boot"
    BY <2>1
  <2>2. CASE p # "boot"
    <3>1. Idle("boot")
      BY <1>3, <2>2 DEF Apart
    <3>2. Idle("boot")'
      BY <1>2, <3>1, Three
    <3> QED BY <3>2 DEF BootLast, Does
  <2> QED BY <2>1, <2>2
<1> QED BY <1>2, <1>4, <1>5, <1>8, <1>9, <1>10 DEF NInv

(* What a process relies on is left alone by the statements that do not    *)
(* provide for it.                                                         *)
LEMMA QuietStep ==
  ASSUME NInv, NEW p \in Processes, ~Idle(p), GoesOn(p) \/ Dies(p),
         UNCHANGED <<profile, pending, named, backup>>,
         Does(p, "refuse") => ~pending \/ Idle(p)',
         ~Does(p, "backup"), ~Does(p, "mark"), ~Does(p, "restore"), ~Does(p, "unmark")
  PROVE  (p \in Users => Trying(p)') /\ Restored(p)' /\ (p = "boot" => BootLast')
<1>1. (p \in Users => Trying(p)) /\ Restored(p)
  BY DEF NInv
<1>2. run'[p].want = run[p].want
  BY Onward
<1>3. CASE Idle(p)'
  BY <1>3 DEF Trying, Restored, BootLast, Does
<1>4. CASE ~Idle(p)'
  <2>3. ~Does(p, "forget")'
    BY <1>4, Preceded
  <2>1. Restored(p)'
    BY <1>1, <1>2, <1>4, Preceded DEF Restored
  <2>2. ASSUME p \in Users PROVE Trying(p)'
    <3>1. ~Does(p, "check_conflict")' \/ ~pending
      BY <1>4, <2>2, Preceded
    <3>2. Does(p, "backup")' => ~pending
      BY <1>1, <1>4, <2>2, Preceded DEF Trying
    <3>3. ~Does(p, "mark")' /\ ~Does(p, "arm")'
      BY <1>4, <2>2, Preceded
    <3>4. Does(p, "modify")' => pending /\ named /\ backup # Nothing
      BY <1>1, <1>4, <2>2, Preceded DEF Trying
    <3> QED BY <3>1, <3>2, <3>3, <3>4 DEF Trying, Nothing
  <2> QED BY <2>1, <2>2, <2>3 DEF BootLast
<1> QED BY <1>3, <1>4

(* The rest of a step that leaves what is stored alone.                    *)
LEMMA QuietKeeps ==
  ASSUME NInv, Alone, NEW p \in Processes, ~Idle(p), GoesOn(p) \/ Dies(p),
         UNCHANGED <<profile, pending, named, backup>>,
         Does(p, "refuse") => ~pending \/ Idle(p)',
         ~Does(p, "backup"), ~Does(p, "mark"), ~Does(p, "restore"), ~Does(p, "unmark"),
         ~Does(p, "read"), request' \in SettAddrs \cup {None},
         {loaded', address'} \subseteq Settings \cup {Nothing}, timer' \in BOOLEAN,
         spent' \in [{"applies", "setts", "cuts", "fails"} -> Nat],
         Up' <=> Up, Up' <=> loaded' # Nothing
  PROVE  NInv'
<1>1. (p \in Users => Trying(p)') /\ Restored(p)' /\ (p = "boot" => BootLast')
  BY QuietStep
<1>2. /\ profile' \in Settings /\ backup' \in Settings \cup {Nothing} /\ pending' \in BOOLEAN
      /\ named' \in BOOLEAN /\ backup'.from # "web"
  BY DEF NInv, TypeOK
<1>3. UnconfirmedIsUndone'
  BY DEF NInv, UnconfirmedIsUndone, Nothing
<1>4. {loaded', address', backup'} \subseteq Settings \cup {Nothing}
  BY <1>2
<1>5. /\ profile'.from = "web" => profile.from = "web" \/ (p \in Users /\ Middle(p))
      /\ p = "service" => UNCHANGED <<pending, named, backup>>
  OBVIOUS
<1> QED BY <1>1, <1>2, <1>3, <1>4, <1>5, StepKeeps, SMTT(30)

-----------------------------------------------------------------------------
(* The statements.                                                         *)

(* The processes whose command has a statement of its own.                 *)
LEMMA Whose ==
  ASSUME NInv, NEW p \in Processes
  PROVE  /\ Does(p, "backup") \/ Does(p, "mark") \/ Does(p, "arm") => p \in Users /\ Middle(p)
         /\ Does(p, "modify") => (p \in Users /\ Middle(p)) \/ p = "service"
         /\ Does(p, "read") \/ Does(p, "remove") => p = "service"
         /\ Does(p, "restore") \/ Does(p, "unmark") \/ Does(p, "forget") => p # "service"
<1>1. \A s : Does(p, s) => Todo(p) # <<>> /\ Head(Todo(p)) = s
  BY DEF Does, Idle, Todo
<1>2. \/ p \in Users /\ Todo(p) \in ApplyRest
      \/ p = "service" /\ Todo(p) \in RequestRest
      \/ p # "service" /\ Todo(p) \in ConfirmRest \cup RollbackRest
  BY Three DEF NInv, Commands, RollsBack
<1>3. ASSUME Todo(p) \in RequestRest, p = "service", NEW s, Does(p, s)
      PROVE  s \in {"read", "remove", "refuse", "check_conflict", "modify", "up"}
  BY <1>1, <1>3, RequestOrder
<1>4. ASSUME Todo(p) \in ConfirmRest \cup RollbackRest, NEW s, Does(p, s)
      PROVE  s \in {"need", "restore", "reload", "try_up", "disarm", "unmark", "forget"}
  BY <1>1, <1>4, ConfirmOrder, RollbackOrder
<1>5. ASSUME p \in Users, Todo(p) \in ApplyRest, NEW s, Does(p, s)
      PROVE  /\ s \in {"refuse", "check_conflict", "backup", "mark", "arm", "modify", "up"}
             /\ s # "up" => Middle(p)
  <2>1. s \in {"refuse", "check_conflict", "backup", "mark", "arm", "modify", "up"}
    BY <1>1, <1>5, ApplyOrder
  <2>2. s # "up" => Middle(p)
    BY <1>5 DEF Middle, Does
  <2> QED BY <2>1, <2>2
<1>6. CASE p \in Users /\ Todo(p) \in ApplyRest
  BY <1>5, <1>6, Three
<1>7. CASE p = "service" /\ Todo(p) \in RequestRest
  BY <1>3, <1>7
<1>8. CASE p # "service" /\ Todo(p) \in ConfirmRest \cup RollbackRest
  BY <1>4, <1>8
<1> QED BY <1>2, <1>6, <1>7, <1>8

(* Types of what a step leaves alone.                                      *)
LEMMA Types ==
  ASSUME NInv
  PROVE  /\ request \in SettAddrs \cup {None} /\ profile \in Settings
         /\ loaded \in Settings \cup {Nothing} /\ address \in Settings \cup {Nothing}
         /\ backup \in Settings \cup {Nothing}
         /\ pending \in BOOLEAN /\ named \in BOOLEAN /\ timer \in BOOLEAN
         /\ spent \in [{"applies", "setts", "cuts", "fails"} -> Nat]
         /\ Up <=> loaded # Nothing
         /\ \A p \in Processes : run[p].want \in Addrs \cup {None}
BY DEF NInv, TypeOK, Apart

(* A stored address is one.                                                *)
LEMMA Stored ==
  /\ \A s \in Settings : s # Nothing /\ s.addr \in Addrs /\ s.from \in {"kept", "web", "sett"}
  /\ \A a \in Addrs, f \in {"kept", "web", "sett"} : From(a, f) \in Settings /\ From(a, f).from = f
<1>1. ASSUME NEW s \in Settings
      PROVE  s # Nothing /\ s.addr \in Addrs /\ s.from \in {"kept", "web", "sett"}
  <2>1. s.addr \in Addrs /\ s.from \in {"kept", "web", "sett"}
    BY DEF Settings
  <2>2. Nothing.addr = None
    BY DEF Nothing, From
  <2>3. None \notin Addrs
    BY AddressAssumption DEF Addrs
  <2> QED BY <2>1, <2>2, <2>3
<1>2. \A a \in Addrs, f \in {"kept", "web", "sett"} : From(a, f) \in Settings /\ From(a, f).from = f
  BY DEF Settings, From
<1> QED BY <1>1, <1>2

(* The statements that leave what is stored alone.                         *)
LEMMA QuietStatements ==
  ASSUME NInv, Alone, NEW p \in Processes,
         \/ refuse(p) \/ check_conflict(p) \/ arm(p) \/ connection_up(p) \/ need(p) \/ reload(p)
         \/ disarm(p) \/ remove(p)
  PROVE  NInv'
<1>1. ~Idle(p) /\ (GoesOn(p) \/ Dies(p)) /\ UNCHANGED <<profile, pending, named, backup>>
  BY DEF refuse, check_conflict, arm, connection_up, need, reload, disarm, remove, Does, files, Fails
<1>2. \A s : Does(p, s) =>
        s \in {"refuse", "check_conflict", "arm", "up", "try_up", "need", "reload", "disarm", "remove"}
  BY DEF refuse, check_conflict, arm, connection_up, need, reload, disarm, remove, Does
<1>3. /\ ~Does(p, "backup") /\ ~Does(p, "mark") /\ ~Does(p, "restore") /\ ~Does(p, "unmark")
      /\ ~Does(p, "read")
  BY <1>2
<1>4. Does(p, "refuse") => ~pending \/ Idle(p)'
  <2>1. Dies(p) => Idle(p)'
    BY DEF NInv, TypeOK, Dies, Idle
  <2>2. Does(p, "refuse") => refuse(p)
    BY DEF refuse, check_conflict, arm, connection_up, need, reload, disarm, remove, Does
  <2> QED BY <2>1, <2>2 DEF refuse
<1>5. request' \in SettAddrs \cup {None} /\ timer' \in BOOLEAN
  BY Types DEF refuse, check_conflict, arm, connection_up, need, reload, disarm, remove
<1>6. spent' \in [{"applies", "setts", "cuts", "fails"} -> Nat]
  BY Types DEF refuse, check_conflict, arm, connection_up, need, reload, disarm, remove, Spend, Fails
<1>7. /\ loaded' \in Settings \cup {Nothing} /\ address' \in Settings \cup {Nothing}
      /\ Up' <=> Up
      /\ Up' <=> loaded' # Nothing
  <2>1. CASE UNCHANGED nm
    BY <2>1, Types DEF nm, Up, Nothing
  <2>2. CASE connection_up(p)
    BY <2>2, Types DEF connection_up, Up, Nothing
  <2>3. CASE reload(p)
    BY <2>3, Types, Stored DEF reload, Up, Nothing
  <2> QED BY <2>1, <2>2, <2>3 DEF refuse, check_conflict, arm, need, disarm, remove
<1>8. {loaded', address'} \subseteq Settings \cup {Nothing}
  BY <1>7
<1> QED BY <1>1, <1>3, <1>4, <1>5, <1>6, <1>7, <1>8, QuietKeeps

(* What the rest of the statements have in common.                         *)
LEMMA LoudKeeps ==
  ASSUME NInv, Alone, NEW p \in Processes, ~Idle(p), ~Does(p, "read"), GoesOn(p) \/ Dies(p),
         profile' \in Settings, loaded' \in Settings \cup {Nothing}, backup' \in Settings \cup {Nothing},
         pending' \in BOOLEAN, named' \in BOOLEAN, UNCHANGED <<request, address, timer>>,
         spent' \in [{"applies", "setts", "cuts", "fails"} -> Nat],
         loaded # Nothing <=> loaded' # Nothing,
         UnconfirmedIsUndone', backup'.from # "web",
         p \in Users => Trying(p)', Restored(p)', p = "boot" => BootLast',
         profile'.from = "web" => profile.from = "web" \/ (p \in Users /\ Middle(p)),
         p = "service" => UNCHANGED <<pending, named, backup>>
  PROVE  NInv'
<1>1. /\ request' \in SettAddrs \cup {None} /\ timer' \in BOOLEAN
      /\ {loaded', address', backup'} \subseteq Settings \cup {Nothing}
  BY Types
<1>2. (Up' <=> Up) /\ (Up' <=> loaded' # Nothing)
  BY Types DEF Up, Nothing
<1> QED BY <1>1, <1>2, StepKeeps, SMTT(30)

(* cp: the file is not one a user tries, as none is waiting.               *)
LEMMA BackupStatement ==
  ASSUME NInv, Alone, NEW p \in Processes, cp_backup(p)
  PROVE  NInv'
<1>1. /\ ~Idle(p) /\ ~Does(p, "read") /\ (GoesOn(p) \/ Dies(p)) /\ Does(p, "backup")
      /\ backup' = profile \/ (backup' = backup /\ Dies(p))
      /\ UNCHANGED <<request, profile, nm, pending, named, timer, spent>>
  BY DEF cp_backup, Does
<1>2. p \in Users /\ Middle(p) /\ p # "service" /\ p # "boot"
  BY <1>1, Whose, Three
<1>3. ~pending /\ backup.from # "web"
  BY <1>1, <1>2 DEF NInv, Trying
<1>4. profile.from # "web"
  BY <1>3 DEF NInv, UnconfirmedIsUndone
<1>5. backup' \in Settings \cup {Nothing} /\ profile # Nothing
  BY <1>1, Types, Stored
<1>6. \A s : Does(p, s) <=> s = "backup"
  BY <1>1 DEF Does
<1>7. Dies(p) => Idle(p)'
  BY DEF NInv, TypeOK, Dies, Idle
<1>8. Trying(p)'
  <2>1. CASE Idle(p)'
    BY <2>1 DEF Trying, Does
  <2>2. CASE ~Idle(p)'
    <3>1. backup' # Nothing
      BY <1>1, <1>5, <1>7, <2>2
    <3> QED BY <1>1, <1>2, <1>3, <1>6, <2>2, <3>1, Preceded DEF Trying, Nothing
  <2> QED BY <2>1, <2>2
<1>9. Restored(p)'
  BY <1>1, <1>4 DEF Restored
<1>10. UnconfirmedIsUndone'
  BY <1>1, <1>4 DEF UnconfirmedIsUndone
<1>11. backup'.from # "web"
  BY <1>1, <1>3, <1>4
<1>12. /\ profile' \in Settings /\ loaded' \in Settings \cup {Nothing}
       /\ pending' \in BOOLEAN /\ named' \in BOOLEAN
       /\ loaded # Nothing <=> loaded' # Nothing
       /\ UNCHANGED <<request, address, timer>>
       /\ spent' \in [{"applies", "setts", "cuts", "fails"} -> Nat]
  BY <1>1, Types DEF nm
<1> QED BY <1>1, <1>2, <1>4, <1>5, <1>8, <1>9, <1>10, <1>11, <1>12, LoudKeeps

(* printf: the backup has been made; what fails ends the command.          *)
LEMMA MarkStatement ==
  ASSUME NInv, Alone, NEW p \in Processes, mark(p)
  PROVE  NInv'
<1>1. /\ ~Idle(p) /\ ~Does(p, "read") /\ (GoesOn(p) \/ Dies(p)) /\ Does(p, "mark")
      /\ UNCHANGED <<request, profile, nm, backup, timer>>
      /\ Dies(p) \/ (pending' = TRUE /\ named' = TRUE)
  BY DEF mark, Does, Fails
<1>2. p \in Users /\ Middle(p) /\ p # "service" /\ p # "boot"
  BY <1>1, Whose, Three
<1>3. ~pending /\ backup # Nothing /\ backup.from # "web"
  BY <1>1, <1>2 DEF NInv, Trying
<1>4. profile.from # "web"
  BY <1>3 DEF NInv, UnconfirmedIsUndone
<1>5. \A s : Does(p, s) <=> s = "mark"
  BY <1>1 DEF Does
<1>6. Dies(p) => Idle(p)'
  BY DEF NInv, TypeOK, Dies, Idle
<1>7. Trying(p)'
  <2>1. CASE Idle(p)'
    BY <2>1 DEF Trying, Does
  <2>2. CASE ~Idle(p)'
    BY <1>1, <1>2, <1>3, <1>5, <1>6, <2>2, Preceded DEF Trying, Nothing
  <2> QED BY <2>1, <2>2
<1>8. Restored(p)' /\ UnconfirmedIsUndone'
  BY <1>1, <1>4 DEF Restored, UnconfirmedIsUndone
<1>9. pending' \in BOOLEAN /\ named' \in BOOLEAN
  BY Types DEF mark
<1>10. spent' \in [{"applies", "setts", "cuts", "fails"} -> Nat]
  BY Types DEF mark, Fails, Spend
<1>11. /\ profile' \in Settings /\ loaded' \in Settings \cup {Nothing}
       /\ backup' \in Settings \cup {Nothing}
       /\ loaded # Nothing <=> loaded' # Nothing
       /\ UNCHANGED <<request, address, timer>>
  BY <1>1, Types DEF nm
<1>12. backup'.from # "web"
  BY <1>1, <1>3
<1> QED BY <1>1, <1>2, <1>4, <1>7, <1>8, <1>9, <1>10, <1>11, <1>12, LoudKeeps

(* nmcli: a user's address has been marked as waiting.                     *)
LEMMA ModifyStatement ==
  ASSUME NInv, Alone, NEW p \in Processes, modify(p)
  PROVE  NInv'
<1>1. /\ ~Idle(p) /\ ~Does(p, "read") /\ (GoesOn(p) \/ Dies(p)) /\ Does(p, "modify")
      /\ UNCHANGED <<request, address, pending, named, backup, timer, spent>>
  BY DEF modify, Does, files
<1>2. /\ (p \in Users /\ Middle(p)) \/ p = "service"
      /\ p # "boot" /\ named' \in BOOLEAN
      /\ spent' \in [{"applies", "setts", "cuts", "fails"} -> Nat]
  BY <1>1, Whose, Three, Types
<1>3. \A s : Does(p, s) <=> s = "modify"
  BY <1>1 DEF Does
<1>4. CASE UNCHANGED <<profile, loaded>>
  <2>1. (p \in Users => Trying(p)') /\ Restored(p)'
    BY <1>1, <1>3, <1>4, QuietStep
  <2>2. UnconfirmedIsUndone' /\ backup'.from # "web"
    BY <1>1, <1>4 DEF NInv, UnconfirmedIsUndone, Nothing
  <2>3. /\ profile' \in Settings /\ loaded' \in Settings \cup {Nothing}
        /\ backup' \in Settings \cup {Nothing} /\ pending' \in BOOLEAN
        /\ loaded # Nothing <=> loaded' # Nothing
    BY <1>1, <1>4, Types
  <2> QED BY <1>1, <1>2, <1>4, <2>1, <2>2, <2>3, LoudKeeps
<1>5. CASE /\ profile' = From(run[p].want, IF p = "service" THEN "sett" ELSE "web")
           /\ loaded' = profile'
  <2>1. PICK f \in {"sett", "web"} : profile' = From(run[p].want, f) /\ (p = "service" <=> f = "sett")
    BY <1>5
  <2>2. run[p].want \in Addrs
    <3>1. run[p].want # None
      <4>1. Todo(p) \notin RollbackRest
        BY <1>1, RollbackOrder DEF Does, Idle, Todo
      <4> QED BY <1>1, <1>2, <1>3, <4>1 DEF NInv, Commands, RollsBack
    <3> QED BY <3>1, Types
  <2>3. profile' \in Settings /\ profile'.from = f /\ profile' # Nothing
    BY <2>1, <2>2, Stored
  <2>4. ASSUME f = "web" PROVE p \in Users /\ Middle(p) /\ pending /\ named /\ backup # Nothing
    BY <1>1, <1>2, <2>1, <2>4 DEF NInv, Trying
  <2>5. UnconfirmedIsUndone' /\ backup'.from # "web"
    BY <1>1, <2>3, <2>4 DEF NInv, UnconfirmedIsUndone, Nothing
  <2>6. Idle(p)' \/ Does(p, "up")'
    <3>1. Todo(p) # <<>> /\ Head(Todo(p)) = "modify" /\ Todo(p)' \in {Tail(Todo(p)), <<>>}
      BY <1>1, Onward DEF Does, Idle, Todo
    <3>2. Todo(p) \in ApplyRest \cup RequestRest
      BY <1>2, <3>1, ConfirmOrder, RollbackOrder DEF NInv, Commands, RollsBack
    <3>3. Head(Tail(Todo(p))) = "up"
      BY <3>1, <3>2, ApplyOrder, RequestOrder DEF Follows
    <3> QED BY <3>1, <3>3 DEF Does, Idle, Todo
  <2>7. (p \in Users => Trying(p)') /\ Restored(p)'
    BY <2>6 DEF Trying, Restored, Does, Idle, Todo
  <2>8. loaded' \in Settings \cup {Nothing} /\ backup' \in Settings \cup {Nothing} /\ pending' \in BOOLEAN
    BY <1>1, <1>5, <2>3, Types
  <2>9. loaded # Nothing /\ loaded' # Nothing
    <3>1. Up
      BY <1>1, <1>2, Three DEF NInv, Apart
    <3> QED BY <1>5, <2>3, <3>1, Types
  <2> QED BY <1>1, <1>2, <2>1, <2>3, <2>4, <2>5, <2>7, <2>8, <2>9, LoudKeeps
<1> QED BY <1>4, <1>5 DEF modify

(* The statements that leave no address unconfirmed.                       *)
LEMMA Undoing ==
  ASSUME NInv, Alone, NEW p \in Processes, GoesOn(p) \/ Dies(p),
         Does(p, "restore") \/ Does(p, "unmark") \/ Does(p, "forget"),
         Does(p, "unmark") => pending' = FALSE,
         profile' \in Settings, profile'.from # "web",
         pending' \in BOOLEAN, named' \in BOOLEAN,
         backup' \in Settings \cup {Nothing}, backup'.from # "web",
         UNCHANGED <<request, nm, timer>>,
         spent' \in [{"applies", "setts", "cuts", "fails"} -> Nat]
  PROVE  NInv'
<1>1. ~Idle(p) /\ ~Does(p, "read")
  BY DEF Does
<1>2. p # "service"
  BY Whose
<1>3. UnconfirmedIsUndone' /\ Restored(p)'
  BY DEF UnconfirmedIsUndone, Restored
<1>4. ASSUME p \in Users PROVE Trying(p)'
  <2>1. CASE Idle(p)'
    BY <2>1 DEF Trying, Does
  <2>2. CASE ~Idle(p)'
    <3>1. \A s \in {"refuse", "check_conflict", "backup", "mark", "arm"} : ~Does(p, s)
      BY DEF Does
    <3> QED BY <1>1, <1>4, <2>2, <3>1, Preceded DEF Trying
  <2> QED BY <2>1, <2>2
<1>5. p = "boot" => BootLast'
  <2>1. CASE Idle(p)'
    BY <2>1 DEF BootLast, Does
  <2>2. CASE ~Idle(p)'
    <3>1. Does(p, "forget")' => Does(p, "unmark")
      BY <1>1, <2>2, Preceded
    <3> QED BY <3>1 DEF BootLast
  <2> QED BY <2>1, <2>2
<1>6. /\ loaded' \in Settings \cup {Nothing} /\ UNCHANGED <<request, address, timer>>
      /\ loaded # Nothing <=> loaded' # Nothing
  BY Types DEF nm, Nothing
<1> QED BY <1>1, <1>2, <1>3, <1>4, <1>5, <1>6, LoudKeeps

(* cp back: the backup is no address that a user tries; a roll back that   *)
(* goes on without having put it back had none, and none is tried.  One    *)
(* that fails leaves everything for the next.                              *)
LEMMA RestoreStatement ==
  ASSUME NInv, Alone, NEW p \in Processes, restore(p)
  PROVE  NInv'
<1>1. /\ Does(p, "restore") /\ (GoesOn(p) \/ Dies(p)) /\ ~Idle(p) /\ ~Does(p, "read")
      /\ UNCHANGED <<request, nm, pending, named, backup, timer>>
  BY DEF restore, Fails, files, Does
<1>2. \A s : Does(p, s) <=> s = "restore"
  BY <1>1 DEF Does
<1>3. spent' \in [{"applies", "setts", "cuts", "fails"} -> Nat]
  BY Types DEF restore, Fails, Spend
<1>4. /\ pending' \in BOOLEAN /\ named' \in BOOLEAN
      /\ backup' \in Settings \cup {Nothing} /\ backup'.from # "web"
  BY <1>1, Types DEF NInv
<1>5. CASE profile' = profile /\ Dies(p)
  <2>1. Idle(p)'
    BY <1>5 DEF NInv, TypeOK, Dies, Idle
  <2>2. p = "boot" => BootLast'
    BY <2>1 DEF BootLast, Does
  <2>3. (p \in Users => Trying(p)') /\ Restored(p)'
    BY <2>1 DEF Trying, Restored, Does
  <2>4. UnconfirmedIsUndone'
    BY <1>1, <1>5 DEF NInv, UnconfirmedIsUndone, Nothing
  <2>5. /\ profile' \in Settings /\ loaded' \in Settings \cup {Nothing}
        /\ loaded # Nothing <=> loaded' # Nothing
        /\ UNCHANGED <<request, address, timer>>
    BY <1>1, <1>5, Types DEF nm
  <2> QED BY <1>1, <1>3, <1>4, <1>5, <2>2, <2>3, <2>4, <2>5, LoudKeeps
<1>6. CASE backup = Nothing \/ profile' = backup
  <2>1. profile' \in Settings /\ profile'.from # "web"
    <3>1. CASE backup = Nothing
      BY <3>1, Types, Stored DEF restore, NInv, UnconfirmedIsUndone
    <3>2. CASE backup # Nothing
      BY <1>6, <3>2, Types DEF NInv
    <3> QED BY <3>1, <3>2
  <2> QED BY <1>1, <1>2, <1>3, <1>4, <2>1, Undoing
<1> QED BY <1>5, <1>6 DEF restore, Fails

(* rm PENDING: the file has been put back or the user confirms it.         *)
LEMMA UnmarkStatement ==
  ASSUME NInv, Alone, NEW p \in Processes, unmark(p)
  PROVE  NInv'
<1>1. profile' \in Settings /\ profile'.from # "web"
  <2>1. CASE run[p].want # None /\ profile.from = "web"
    BY <2>1, Types, Stored DEF unmark
  <2>2. CASE ~(run[p].want # None /\ profile.from = "web")
    <3>1. run[p].want = None => profile.from # "web"
      BY DEF NInv, Restored, unmark
    <3> QED BY <2>2, <3>1, Types DEF unmark
  <2> QED BY <2>1, <2>2
<1>2. /\ pending' = FALSE /\ named' \in BOOLEAN
      /\ backup' \in Settings \cup {Nothing} /\ backup'.from # "web"
      /\ spent' \in [{"applies", "setts", "cuts", "fails"} -> Nat]
  BY Types DEF unmark, NInv, Nothing
<1> QED BY <1>1, <1>2, Undoing DEF unmark

(* rm BACKUP: PENDING has gone before.                                     *)
LEMMA ForgetStatement ==
  ASSUME NInv, Alone, NEW p \in Processes, forget(p)
  PROVE  NInv'
<1>1. /\ profile' \in Settings /\ profile'.from # "web" /\ pending' \in BOOLEAN
      /\ named' \in BOOLEAN /\ spent' \in [{"applies", "setts", "cuts", "fails"} -> Nat]
  BY Types DEF forget, NInv, Restored
<1>2. backup' \in Settings \cup {Nothing} /\ backup'.from # "web"
  BY DEF forget, Nothing, From
<1>3. ~Does(p, "unmark")
  BY DEF forget, Does
<1> QED BY <1>1, <1>2, <1>3, Undoing DEF forget

(* The service takes the address that was asked for, if there is one.      *)
LEMMA ReadStatement ==
  ASSUME NInv, Alone, NEW p \in Processes, read(p)
  PROVE  NInv'
<1>1. /\ Does(p, "read") /\ p = "service"
      /\ UNCHANGED <<request, profile, nm, files, timer, spent>>
  BY Whose DEF read
<1>2. run \in [Processes -> Runner] /\ Commands /\ Apart
  BY DEF NInv, TypeOK, Runner
<1>3. /\ Todo(p) \in RequestRest /\ Todo(p) # <<>> /\ Head(Todo(p)) = "read"
      /\ Todo(p) \in Seq(Statements) /\ run[p] \in Runner
  BY <1>1, <1>2 DEF Commands, Does, Idle, Todo, Runner
<1>4. PICK t \in Seq(Statements), w \in Addrs \cup {None} :
        /\ run' = [run EXCEPT ![p] = [todo |-> t, want |-> w]]
        /\ t = <<>> \/ (t = Tail(Todo(p)) /\ w # None)
  <2>1. CASE request = None
    <3>1. run' = [run EXCEPT ![p] = [run[p] EXCEPT !.todo = <<>>]]
      BY <2>1 DEF read
    <3>2. [run[p] EXCEPT !.todo = <<>>] = [todo |-> <<>>, want |-> run[p].want]
      BY <1>3 DEF Runner
    <3>3. <<>> \in Seq(Statements) /\ run[p].want \in Addrs \cup {None}
      BY <1>3, EmptySeq DEF Runner
    <3> QED BY <3>1, <3>2, <3>3
  <2>2. CASE request # None
    <3>1. run' = [run EXCEPT ![p] = [todo |-> Tail(Todo(p)), want |-> request]]
      BY <2>2 DEF read, Todo
    <3>2. Tail(Todo(p)) \in Seq(Statements)
      BY <1>3, HeadTailProperties
    <3>3. request \in Addrs
      BY <2>2, Types DEF Addrs
    <3>4. request \in Addrs \cup {None}
      BY <3>3
    <3> WITNESS Tail(Todo(p)) \in Seq(Statements), request \in Addrs \cup {None}
    <3> QED BY <2>2, <3>1
  <2> QED BY <2>1, <2>2
<1>5. /\ run' \in [Processes -> Runner] /\ run'[p] = [todo |-> t, want |-> w]
      /\ \A q \in Processes : q # p => run'[q] = run[q]
  BY <1>2, <1>4 DEF Runner
<1>6. t \in RequestRest
  BY <1>3, <1>4, RequestOrder, Wholes
<1>7. Commands'
  BY <1>1, <1>2, <1>4, <1>5, <1>6, Three DEF Commands, RollsBack, Todo, Idle, Does
<1>8. \A q \in Processes : q # p => (Idle(q)' <=> Idle(q)) /\ \A s : Does(q, s)' <=> Does(q, s)
  BY <1>5 DEF Does, Idle
<1>9. Apart'
  BY <1>1, <1>2, <1>3, <1>8, Three DEF Apart, Middle, Up, nm, Nothing, Idle, Todo
<1>10. ASSUME NEW u \in Users PROVE Trying(u)'
  BY <1>1, <1>8, Three DEF Trying, NInv, files, Nothing
<1>11. ASSUME NEW q \in Processes PROVE Restored(q)'
  <2>1. CASE q = p
    <3>1. \A s : Does(p, s)' => s \in {"read", "remove", "refuse", "check_conflict", "modify", "up"}
      BY <1>5, <1>6, RequestOrder DEF Does, Idle
    <3> QED BY <2>1, <3>1 DEF Restored
  <2>2. CASE q # p
    BY <1>1, <1>5, <1>8, <2>2 DEF Restored, NInv
  <2> QED BY <2>1, <2>2
<1>12. TypeOK' /\ UnconfirmedIsUndone' /\ backup'.from # "web"
  BY <1>1, <1>5 DEF NInv, TypeOK, UnconfirmedIsUndone, nm, files, Nothing, Runner
<1>13. BootLast'
  BY <1>1, <1>8, Three DEF NInv, BootLast, files
<1> QED BY <1>7, <1>9, <1>10, <1>11, <1>12, <1>13 DEF NInv

(* Every statement.                                                        *)
LEMMA StatementKeeps ==
  ASSUME NInv, Alone, NEW p \in Processes, acu_netcfg(p)
  PROVE  NInv'
<1>1. CASE \/ refuse(p) \/ check_conflict(p) \/ arm(p) \/ connection_up(p) \/ need(p) \/ reload(p)
           \/ disarm(p) \/ remove(p)
  BY <1>1, QuietStatements
<1>2. CASE cp_backup(p) \/ mark(p) \/ modify(p)
  BY <1>2, BackupStatement, MarkStatement, ModifyStatement
<1>3. CASE restore(p) \/ unmark(p) \/ forget(p) \/ read(p)
  BY <1>3, RestoreStatement, UnmarkStatement, ForgetStatement, ReadStatement
<1> QED BY <1>1, <1>2, <1>3 DEF acu_netcfg

-----------------------------------------------------------------------------
(* Who starts them.                                                        *)

(* A command that starts has done nothing yet.                             *)
LEMMA StartKeeps ==
  ASSUME NInv, NEW p \in Processes, Up, Idle(p),
         NEW c \in Seq(Statements), c # <<>>, Head(c) \in {"refuse", "read", "need"},
         NEW a \in Addrs \cup {None}, Runs(p, c, a),
         \/ /\ p \in Users /\ Idle("timer")
            /\ (c \in ApplyRest \cup ConfirmRest /\ a # None) \/ (c \in RollbackRest /\ a = None)
         \/ p = "service" /\ c = cmd_apply_request
         \/ p = "timer" /\ c \in RollbackRest /\ a = None /\ \A u \in Users : ~Middle(u),
         UNCHANGED <<request, profile, nm, files>>, timer' \in BOOLEAN,
         spent' \in [{"applies", "setts", "cuts", "fails"} -> Nat]
  PROVE  NInv'
<1>1. run \in [Processes -> Runner] /\ Commands /\ Apart
  BY DEF NInv, TypeOK, Runner
<1>2. /\ run' \in [Processes -> Runner] /\ run'[p] = [todo |-> c, want |-> a]
      /\ \A q \in Processes : q # p => run'[q] = run[q]
  BY <1>1 DEF Runner, Runs
<1>3. \A q \in Processes : q # p => (Idle(q)' <=> Idle(q)) /\ \A s : Does(q, s)' <=> Does(q, s)
  BY <1>2 DEF Does, Idle
<1>4. ~Idle(p)' /\ Todo(p)' = c /\ \A s : Does(p, s)' => s \in {"refuse", "read", "need"}
  BY <1>2 DEF Does, Idle, Todo
<1>5. Commands'
  <2>1. /\ \A q \in Processes : q # p => Todo(q)' = Todo(q) /\ run'[q].want = run[q].want
        /\ Todo(p)' = c /\ run'[p].want = a
    BY <1>2 DEF Todo
  <2>2. ASSUME NEW u \in Users
        PROVE  \/ Todo(u)' \in ApplyRest \cup ConfirmRest /\ run'[u].want # None
               \/ RollsBack(u)'
    BY <1>1, <2>1, Three DEF Commands, RollsBack
  <2>3. /\ Todo("service")' \in RequestRest
        /\ Idle("service")' \/ Does("service", "read")' \/ run'["service"].want # None
    <3>1. CASE p = "service"
      BY <1>4, <2>1, <3>1, Three, Wholes DEF Does, Idle, Todo
    <3>2. CASE p # "service"
      BY <1>1, <1>3, <2>1, <3>2, Three DEF Commands
    <3> QED BY <3>1, <3>2
  <2>4. RollsBack("timer")' /\ RollsBack("boot")'
    BY <1>1, <2>1, Three DEF Commands, RollsBack, Apart, Idle
  <2> QED BY <2>2, <2>3, <2>4 DEF Commands
<1>6. Apart'
  <2>1. Up' /\ Idle("boot") /\ p # "boot" /\ loaded' # Nothing
    BY <1>1, Three DEF Apart, Up, nm, Nothing
  <2>2. Idle("boot")'
    BY <1>3, <2>1, Three
  <2>3. ASSUME NEW u \in Users, Middle(u)' PROVE Idle("timer")'
    BY <1>1, <1>3, <2>3, Three DEF Apart, Middle
  <2> QED BY <2>1, <2>2, <2>3 DEF Apart, Nothing
<1>7. ASSUME NEW u \in Users PROVE Trying(u)'
  <2>1. CASE u = p
    BY <1>4, <2>1 DEF Trying
  <2>2. CASE u # p
    BY <1>3, <2>2, Three DEF Trying, NInv, files, Nothing
  <2> QED BY <2>1, <2>2
<1>8. ASSUME NEW q \in Processes PROVE Restored(q)'
  <2>1. CASE q = p
    BY <1>4, <2>1 DEF Restored
  <2>2. CASE q # p
    BY <1>2, <1>3, <2>2 DEF Restored, NInv
  <2> QED BY <2>1, <2>2
<1>9. TypeOK' /\ UnconfirmedIsUndone' /\ backup'.from # "web"
  BY <1>2 DEF NInv, TypeOK, UnconfirmedIsUndone, nm, files, Nothing, Runner
<1>10. BootLast'
  <2>1. p # "boot"
    BY Three
  <2> QED BY <1>3, <2>1, Three DEF NInv, BootLast, files
<1> QED BY <1>5, <1>6, <1>7, <1>8, <1>9, <1>10 DEF NInv

(* What the users start.                                                   *)
LEMMA UserStarts ==
  ASSUME NInv, Alone, NEW u \in Users, network(u) \/ network_confirm(u) \/ network_rollback(u)
  PROVE  NInv'
<1>1. /\ u \in Processes /\ Up /\ Idle(u) /\ Idle("timer")
      /\ UNCHANGED <<request, profile, nm, files>> /\ timer' \in BOOLEAN
  BY Three, Types DEF network, network_confirm, network_rollback, AtPage, Alone
<1>2. spent' \in [{"applies", "setts", "cuts", "fails"} -> Nat]
  BY Types DEF network, network_confirm, network_rollback, Spend
<1>3. PICK c \in {cmd_apply, cmd_confirm, cmd_rollback}, a \in Addrs \cup {None} :
        Runs(u, c, a) /\ (c = cmd_rollback <=> a = None)
  <2>1. None \notin Addrs /\ WebAddrs \subseteq Addrs /\ profile.addr \in Addrs
    BY AddressAssumption, Types, Stored DEF Addrs
  <2>2. cmd_apply # cmd_rollback /\ cmd_confirm # cmd_rollback
    BY DEF cmd_apply, cmd_confirm, cmd_rollback
  <2>3. CASE network(u)
    BY <2>1, <2>2, <2>3 DEF network
  <2>4. CASE network_confirm(u)
    <3>1. Runs(u, cmd_confirm, profile.addr) /\ profile.addr # None
      BY <2>1, <2>4 DEF network_confirm
    <3> QED BY <2>1, <2>2, <3>1
  <2>5. CASE network_rollback(u)
    BY <2>2, <2>5 DEF network_rollback
  <2> QED BY <2>3, <2>4, <2>5
<1>4. /\ c \in Seq(Statements) /\ c # <<>> /\ Head(c) \in {"refuse", "read", "need"}
      /\ (c \in ApplyRest \cup ConfirmRest /\ a # None) \/ (c \in RollbackRest /\ a = None)
  BY <1>3, Wholes
<1> QED BY <1>1, <1>2, <1>3, <1>4, StartKeeps

(* The service and the timer: a roll back that nobody asked for starts     *)
(* when no user's command is in the middle of its work.                    *)
LEMMA OthersStart ==
  ASSUME NInv, Alone, path_exists \/ timer_fires
  PROVE  NInv'
<1>1. UNCHANGED <<request, profile, nm, files, spent>> /\ Up /\ timer' \in BOOLEAN
  BY Types DEF path_exists, timer_fires
<1>2. spent' \in [{"applies", "setts", "cuts", "fails"} -> Nat] /\ None \in Addrs \cup {None}
  BY <1>1, Types
<1>3. CASE path_exists
  <2>1. /\ cmd_apply_request \in Seq(Statements) /\ cmd_apply_request # <<>>
        /\ Head(cmd_apply_request) \in {"refuse", "read", "need"} /\ "service" \in Processes
    BY Wholes, Three
  <2>2. Idle("service") /\ Runs("service", cmd_apply_request, None)
    BY <1>3 DEF path_exists
  <2> QED BY <1>1, <1>2, <2>1, <2>2, StartKeeps
<1>4. CASE timer_fires
  <2>1. /\ cmd_rollback \in Seq(Statements) /\ cmd_rollback # <<>> /\ cmd_rollback \in RollbackRest
        /\ Head(cmd_rollback) \in {"refuse", "read", "need"} /\ "timer" \in Processes
    BY Wholes, Three
  <2>2. Idle("timer") /\ Runs("timer", cmd_rollback, None) /\ \A u \in Users : ~Middle(u)
    BY <1>4 DEF timer_fires, Alone, Middle
  <2> QED BY <1>1, <1>2, <2>1, <2>2, StartKeeps
<1> QED BY <1>3, <1>4

(* Requests that come or are forgotten, and a NetworkManager that starts   *)
(* when the roll back at boot is over.                                     *)
LEMMA AroundKeeps ==
  ASSUME NInv, handle_sett \/ acud_restarts \/ NetworkManager_starts
  PROVE  NInv'
<1>1. UNCHANGED <<profile, pending, named, backup, timer, run>>
  BY DEF handle_sett, acud_restarts, NetworkManager_starts, files
<1>2. request' \in SettAddrs \cup {None}
  BY Types DEF handle_sett, acud_restarts, NetworkManager_starts
<1>3. spent' \in [{"applies", "setts", "cuts", "fails"} -> Nat]
  BY Types DEF handle_sett, acud_restarts, NetworkManager_starts, Spend
<1>4. /\ {loaded', address'} \subseteq Settings \cup {Nothing}
      /\ Up' <=> loaded' # Nothing
      /\ Up' => Idle("boot")
      /\ ~Up' => ~Up
  <2>1. CASE UNCHANGED nm
    <3>1. loaded' \in Settings \cup {Nothing} /\ address' \in Settings \cup {Nothing}
      BY <2>1, Types DEF nm
    <3> QED BY <2>1, <3>1 DEF NInv, Apart, nm, Up, Nothing
  <2>2. CASE NetworkManager_starts
    <3>1. loaded' \in Settings /\ address' \in Settings /\ loaded' # Nothing /\ address' # Nothing
      BY <2>2, Types, Stored DEF NetworkManager_starts
    <3> QED BY <2>2, <3>1 DEF NetworkManager_starts, Up, Nothing
  <2> QED BY <2>1, <2>2 DEF handle_sett, acud_restarts
<1>5. \A q \in Processes : (Idle(q)' <=> Idle(q)) /\ \A s : Does(q, s)' <=> Does(q, s)
  BY <1>1 DEF Idle, Does
<1>6. Commands'
  BY <1>1 DEF NInv, Commands, RollsBack, Todo, Idle, Does
<1>7. Apart'
  BY <1>4, <1>5, Three DEF NInv, Apart, Middle
<1>8. (\A u \in Users : Trying(u)') /\ \A q \in Processes : Restored(q)'
  BY <1>1, <1>5, Three DEF NInv, Trying, Restored, Nothing
<1>9. TypeOK' /\ UnconfirmedIsUndone' /\ backup'.from # "web"
  <2>1. backup' \in Settings \cup {Nothing}
    BY <1>1, Types
  <2>2. {loaded', address', backup'} \subseteq Settings \cup {Nothing}
    BY <1>4, <2>1
  <2> QED BY <1>1, <1>2, <1>3, <2>2 DEF NInv, TypeOK, UnconfirmedIsUndone, Nothing
<1>10. BootLast'
  BY <1>1, <1>5, Three DEF NInv, BootLast
<1> QED BY <1>6, <1>7, <1>8, <1>9, <1>10 DEF NInv

(* The power fails: only what is stored counts, and the roll back at boot  *)
(* has everything it needs.                                                *)
LEMMA PowerCutKeeps ==
  ASSUME NInv, PowerCut
  PROVE  NInv'
<1>1. /\ UNCHANGED <<profile, pending, named, backup>> /\ request' = None /\ timer' = FALSE
      /\ loaded' = Nothing /\ address' = Nothing
      /\ run' = [p \in Processes |->
                   [todo |-> IF p = "boot" THEN cmd_rollback ELSE <<>>, want |-> None]]
  BY DEF PowerCut, files
<1>2. spent' \in [{"applies", "setts", "cuts", "fails"} -> Nat]
  BY Types DEF PowerCut, Spend
<1>3. \A p \in Processes : p # "boot" => Idle(p)'
  BY <1>1 DEF Idle
<1>4. \A s : Does("boot", s)' => s = "need"
  BY <1>1, Three, Wholes DEF Does
<1>5. Commands'
  <2>1. \A p \in Processes : Todo(p)' = (IF p = "boot" THEN cmd_rollback ELSE <<>>) /\ run'[p].want = None
    BY <1>1 DEF Todo
  <2>2. \A p \in Processes : p # "service" => RollsBack(p)'
    BY <2>1, Wholes DEF RollsBack
  <2>3. Todo("service")' \in RequestRest /\ Idle("service")'
    BY <1>3, <2>1, Three, Wholes
  <2> QED BY <2>2, <2>3, Three DEF Commands
<1>6. Apart'
  BY <1>1, <1>3, Three DEF Apart, Middle, Up, Nothing
<1>7. (\A u \in Users : Trying(u)') /\ \A q \in Processes : Restored(q)'
  BY <1>3, <1>4, Three DEF Trying, Restored, Does
<1>8. TypeOK'
  <2>1. run' \in [Processes -> Runner]
    BY <1>1, Wholes, EmptySeq DEF Runner
  <2>2. {loaded', address', backup'} \subseteq Settings \cup {Nothing}
    BY <1>1, Types DEF Nothing
  <2> QED BY <1>1, <1>2, <2>1, <2>2, Types DEF TypeOK, Runner
<1>9. UnconfirmedIsUndone' /\ backup'.from # "web"
  BY <1>1 DEF NInv, UnconfirmedIsUndone, Nothing
<1>10. BootLast'
  BY <1>4 DEF BootLast
<1> QED BY <1>5, <1>6, <1>7, <1>8, <1>9, <1>10 DEF NInv

(* The device as it was delivered.                                         *)
LEMMA InitNInv ==
  ASSUME Init
  PROVE  NInv
<1>1. From(Home, "kept") \in Settings /\ From(Home, "kept").from = "kept" /\ From(Home, "kept") # Nothing
  BY Stored DEF Addrs
<1>2. \A p \in Processes : Idle(p) /\ Todo(p) = <<>> /\ run[p].want = None
  BY DEF Init, Idle, Todo
<1>3. TypeOK
  <2>1. run \in [Processes -> Runner]
    BY EmptySeq DEF Init, Runner
  <2>2. spent \in [{"applies", "setts", "cuts", "fails"} -> Nat]
    BY DEF Init
  <2> QED BY <1>1, <2>1, <2>2 DEF Init, TypeOK, Runner
<1>4. Commands
  BY <1>2, Three, Wholes DEF Commands, RollsBack
<1>5. Apart
  BY <1>1, <1>2, Three DEF Apart, Middle, Init, Up
<1>6. (\A u \in Users : Trying(u)) /\ \A q \in Processes : Restored(q)
  BY <1>2, Three DEF Trying, Restored, Does
<1>7. UnconfirmedIsUndone /\ backup.from # "web"
  BY <1>1 DEF Init, UnconfirmedIsUndone, Nothing, From
<1>8. BootLast
  BY <1>2, Three DEF BootLast, Does
<1> QED BY <1>3, <1>4, <1>5, <1>6, <1>7, <1>8 DEF NInv

(* Every step keeps the invariant.                                         *)
LEMMA NextKeeps ==
  ASSUME Alone, NInv, [Next]_vars
  PROVE  NInv'
<1>1. ASSUME NEW p \in Processes, acu_netcfg(p) PROVE NInv'
  BY <1>1, StatementKeeps
<1>2. ASSUME NEW u \in Users, network(u) \/ network_confirm(u) \/ network_rollback(u) PROVE NInv'
  BY <1>2, UserStarts
<1>3. CASE path_exists \/ timer_fires
  BY <1>3, OthersStart
<1>4. CASE handle_sett \/ acud_restarts \/ NetworkManager_starts
  BY <1>4, AroundKeeps
<1>5. CASE PowerCut
  BY <1>5, PowerCutKeeps
<1>6. CASE UNCHANGED vars
  BY <1>6 DEF vars, nm, files, NInv, TypeOK, Commands, RollsBack, Todo, Apart, Middle, Up, Does, Idle,
           UnconfirmedIsUndone, Trying, Restored, BootLast, Nothing
<1> QED BY <1>1, <1>2, <1>3, <1>4, <1>5, <1>6 DEF Next

(* The last statement of a roll back.                                      *)
LEMMA LastForgets ==
  ASSUME NEW t \in RollbackRest, t # <<>>, Tail(t) = <<>>
  PROVE  Head(t) = "forget"
<1>0. Len(Tail(t)) = 0
  <2>1. Len(<<>>) = 0
    OBVIOUS
  <2> QED BY <2>1, Zenon
<1>1. CASE t = cmd_rollback
  <2>1. Len(Tail(t)) = 6
    BY <1>1 DEF cmd_rollback
  <2> QED BY <1>0, <2>1
<1>2. CASE t = <<"restore", "reload", "try_up", "disarm", "unmark", "forget">>
  <2>1. Len(Tail(t)) = 5
    BY <1>2
  <2> QED BY <1>0, <2>1
<1>3. CASE t = <<"reload", "try_up", "disarm", "unmark", "forget">>
  <2>1. Len(Tail(t)) = 4
    BY <1>3
  <2> QED BY <1>0, <2>1
<1>4. CASE t = <<"try_up", "disarm", "unmark", "forget">>
  <2>1. Len(Tail(t)) = 3
    BY <1>4
  <2> QED BY <1>0, <2>1
<1>5. CASE t = <<"disarm", "unmark", "forget">>
  <2>1. Len(Tail(t)) = 2
    BY <1>5
  <2> QED BY <1>0, <2>1
<1>6. CASE t = <<"unmark", "forget">>
  <2>1. Len(Tail(t)) = 1
    BY <1>6
  <2> QED BY <1>0, <2>1
<1>7. CASE t = <<"forget">>
  BY <1>7
<1> QED BY <1>1, <1>2, <1>3, <1>4, <1>5, <1>6, <1>7 DEF RollbackRest

(* The roll back at boot ends with its last statement, or because nothing  *)
(* is left to do, or where it fails.                                       *)
LEMMA BootStops ==
  ASSUME NInv, [Next]_vars, ~Idle("boot"), Idle("boot")'
  PROVE  ~pending' \/ ~named \/ spent'.fails > spent.fails
<1>1. /\ ~Up /\ Todo("boot") \in RollbackRest /\ Todo("boot") # <<>>
      /\ \A p \in Processes : p # "boot" => Idle(p)
  BY DEF NInv, Apart, Commands, RollsBack, Todo, Idle
<1>2. \A s : Does("boot", s) => s \in {"need", "restore", "reload", "try_up", "disarm", "unmark", "forget"}
  BY <1>1, RollbackOrder DEF Does, Todo
<1>3. GoesOn("boot") => Does("boot", "forget")
  <2>1. GoesOn("boot") => Tail(Todo("boot")) = <<>>
    BY Three DEF GoesOn, Todo, Idle, NInv, TypeOK
  <2> QED BY <1>1, <2>1, LastForgets DEF Does, Todo, Idle
<1>4. acu_netcfg("boot")
  <2>1. ASSUME NEW p \in Processes, acu_netcfg(p) PROVE acu_netcfg("boot")
    <3>1. ~Idle(p)
      BY <2>1 DEF acu_netcfg, refuse, check_conflict, cp_backup, mark, arm, modify, connection_up, need,
               restore, reload, disarm, unmark, forget, read, remove, Does
    <3> QED BY <1>1, <2>1, <3>1
  <2>2. ~PowerCut
    BY Three, Wholes DEF PowerCut, Idle
  <2>3. ~UNCHANGED vars
    BY DEF vars, Idle
  <2>4. \A u \in Users : ~network(u) /\ ~network_confirm(u) /\ ~network_rollback(u)
    BY <1>1 DEF network, network_confirm, network_rollback, AtPage
  <2>5. ~handle_sett /\ ~path_exists /\ ~timer_fires /\ ~acud_restarts /\ ~NetworkManager_starts
    BY <1>1 DEF handle_sett, path_exists, timer_fires, acud_restarts, NetworkManager_starts
  <2> QED BY <2>1, <2>2, <2>3, <2>4, <2>5 DEF Next
<1>5. need("boot") \/ restore("boot") \/ forget("boot")
  BY <1>2, <1>3, <1>4 DEF acu_netcfg, refuse, check_conflict, cp_backup, mark, arm, modify, connection_up,
           reload, disarm, unmark, read, remove, Does
<1>6. CASE need("boot")
  BY <1>3, <1>6 DEF need, files, Does
<1>7. CASE restore("boot")
  <2>1. ~GoesOn("boot")
    BY <1>3, <1>7 DEF restore, Does
  <2>2. ~named \/ Spend("fails")
    BY <1>7, <2>1 DEF restore, Fails
  <2> QED BY <2>2, Types DEF Spend
<1>8. CASE forget("boot")
  BY <1>8 DEF forget, NInv, BootLast
<1> QED BY <1>5, <1>6, <1>7, <1>8

-----------------------------------------------------------------------------
(* However often a command, the power or acud fails at any statement, an   *)
(* address that a user tries and has not confirmed is in the file that the *)
(* device boots with only while PENDING is there and the backup holds an   *)
(* address that had been kept (acu-netcfg:149, acu-netcfg-boot.service).   *)
(* This rests on one user at a time working at the page, who waits for a   *)
(* roll back that runs; a second one breaks it.                            *)
THEOREM TriedIsUndone ==
  ASSUME Alone
  PROVE  Spec => []UnconfirmedIsUndone
<1>1. Init => NInv
  BY InitNInv
<1>2. NInv /\ [Next]_vars => NInv'
  BY NextKeeps
<1>3. NInv => UnconfirmedIsUndone
  BY DEF NInv
<1> QED BY <1>1, <1>2, <1>3, PTL DEF Spec

(* The roll back that runs at boot, before NetworkManager starts, leaves   *)
(* no change waiting, wherever a power cut found the device; the           *)
(* exceptions are a statement of it that fails and an empty PENDING        *)
(* (acu-netcfg:17, 232; acu-netcfg-boot.service).                          *)
THEOREM RollBackAtBootEnds ==
  ASSUME Alone
  PROVE  Spec => BootEnds
<1>1. Init => NInv
  BY InitNInv
<1>2. NInv /\ [Next]_vars => NInv'
  BY NextKeeps
<1>3. NInv /\ [Next]_vars
        => [~Idle("boot") /\ Idle("boot")'
              => ~pending' \/ ~named \/ spent'.fails > spent.fails]_vars
  BY BootStops
<1> QED BY <1>1, <1>2, <1>3, PTL DEF Spec, BootEnds

=============================================================================
