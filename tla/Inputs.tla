------------------------------- MODULE Inputs -------------------------------
(***************************************************************************)
(* What acud does with its inputs and outputs: lines of the card FIFO read *)
(* by the HAL (acud/hal_mock.c), cards judged and alarm and fire inputs    *)
(* reported by the loop's callback (acud/main.c), relays driven by the     *)
(* output settings DM writes (acud/net.c, acud/devset.c), doors held open  *)
(* on DM's command, and a reload that opens another database or another    *)
(* port.  The store may refuse an event, or there may be none, and a       *)
(* setting may not be readable: acud logs the one and takes the other for  *)
(* no setting, and goes on.  DM reads the events in order and answers a    *)
(* fire with the force open command, its end with the recovery.  Left out: *)
(* what a card is judged to be, door contacts, units that stop answering,  *)
(* and the events of cards and of settings, which DM's policy does not act *)
(* on.                                                                     *)
(***************************************************************************)
EXTENDS Integers, FiniteSets, SequencesExt

CONSTANTS
  Outputs,     \* output slots of the board's modules
  Paths,       \* databases db_path may name
  QueueCap,    \* MOCK_CARD_QUEUE_CAP
  MaxCards,    \* bound on cards tagged
  MaxSwitches, \* bound on changes of the alarm and fire inputs
  MaxWrites,   \* bound on settings written
  MaxReloads   \* bound on reloads that change the port

ASSUME QueueAssumption == QueueCap \in Nat \ {0}
ASSUME InputBoundsAssumption == {MaxCards, MaxSwitches, MaxWrites, MaxReloads} \subseteq Nat
ASSUME PathsAssumption == Paths # {}

VARIABLES
  fifo,     \* lines in the pipe: [what : {"alarm", "fire"}, on] or [what : {"card"}, tag]
  hal,      \* the HAL: levels of the inputs, and the cards read and not judged
  rt,       \* AcuRuntime: the levels reported last
  db,       \* the database in use
  settings, \* device_settings of each database: the kind of each output
  relay,    \* outputs switched on
  applied,  \* the database whose settings the outputs were last computed from
  unread,   \* the outputs whose settings could not be read then
  net,      \* net->force_open
  held,     \* doors held open by the relay
  judged,   \* cards judged, in order
  log,      \* events DM has not read
  untold,   \* what the last event of was refused by the store
  dm,       \* what DM makes of the events it read
  cmds,     \* force open commands on their way
  spent     \* what the bounds count

vars == <<fifo, hal, rt, db, settings, relay, applied, unread, net, held, judged, log, untold,
          dm, cmds, spent>>

Kinds   == {"Other", "Alarm", "AlarmByFire"}
Spend(what) == spent' = [spent EXCEPT ![what] = @ + 1]
Event(what, on) == [what |-> what, on |-> on]

(* What the last of s about w says, or what was so before.                 *)
Lately(s, w, before) ==
  LET at == {i \in DOMAIN s : s[i].what = w} IN IF at = {} THEN before ELSE s[Max(at)].on

(* What DM will know once it has read everything.                          *)
Told(w) == Lately(log, w, dm[w])

-----------------------------------------------------------------------------
(* hal_mock.c                                                              *)

(* Mutant: the card that does not fit is the one dropped.                  *)
push_card_refuses(q, tag) == IF Len(q) = QueueCap THEN q ELSE Append(q, tag)

push_card(q, tag) == Append(IF Len(q) = QueueCap THEN Tail(q) ELSE q, tag)

(* The queue of cards after the first n lines.                             *)
Queued(lines, q) ==
  LET after[n \in 0 .. Len(lines)] ==
        IF n = 0 THEN q
        ELSE IF lines[n].what = "card" THEN push_card(after[n - 1], lines[n].tag)
        ELSE after[n - 1]
  IN  after

(* All that can be read is read before anything is looked at: the last     *)
(* line about an input counts, and the cards queue up.                     *)
drain_fifo ==
  [alarm |-> Lately(fifo, "alarm", hal.alarm), fire |-> Lately(fifo, "fire", hal.fire),
   cards |-> Queued(fifo, hal.cards)[Len(fifo)]]

-----------------------------------------------------------------------------
(* main.c                                                                  *)

(* Mutant: what has stopped ringing is left as it is.                      *)
apply_alarm_outputs_on(outs, kinds, alarm, fire, blind) ==
  [o \in Outputs |-> outs[o] \/ (kinds[o] # "Other" /\ alarm)
                             \/ (kinds[o] = "AlarmByFire" /\ fire)]

(* Every output whose kind is Alarm is set again; the others, and those    *)
(* whose setting could not be read (blind), are not touched.               *)
apply_alarm_outputs(outs, kinds, alarm, fire, blind) ==
  [o \in Outputs |-> IF kinds[o] = "Other" \/ o \in blind THEN outs[o]
                     ELSE alarm \/ (fire /\ kinds[o] = "AlarmByFire")]

Alarms(kinds) == {o \in Outputs : kinds[o] # "Other"}

Applied(outs, kinds, levels) ==
  \E blind \in SUBSET Alarms(kinds) :
    /\ relay' = apply_alarm_outputs(outs, kinds, levels.alarm, levels.fire, blind)
    /\ applied' = db /\ unread' = blind

(* Mutant: the fire input is looked at only when the alarm has not changed.*)
Changed_first(h) ==
  IF h.alarm # rt.alarm THEN {"alarm"} ELSE {w \in {"fire"} : h[w] # rt[w]}

(* The inputs that differ from what was reported last.                     *)
Changed(h) == {w \in {"alarm", "fire"} : h[w] # rt[w]}

(* The store may refuse the event: net_store_event logs that, and the      *)
(* level counts as reported.                                               *)
Tell(events, w, h, refused) ==
  IF w \in Changed(h) \ refused THEN Append(events, Event(w, h[w])) ELSE events

(* The outputs when the fire is looked at: with a change of the alarm they *)
(* have been computed once, for the fire as it was.                        *)
Ringing(h) ==
  IF Changed(h) # {"alarm", "fire"} THEN {relay}
  ELSE {apply_alarm_outputs(relay, settings[db], h.alarm, rt.fire, blind) :
          blind \in SUBSET Alarms(settings[db])}

check_alarm_fire(h) ==
  /\ rt' = [w \in {"alarm", "fire"} |-> IF w \in Changed(h) THEN h[w] ELSE rt[w]]
  /\ \E refused \in SUBSET Changed(h) :
       /\ log' = Tell(Tell(log, "alarm", h, refused), "fire", h, refused)
       /\ untold' = (untold \ Changed(h)) \cup refused
  /\ IF Changed(h) = {} THEN UNCHANGED <<relay, applied, unread>>
     ELSE \E outs \in Ringing(h) : Applied(outs, settings[db], rt')

(* Cards are judged until none is left.                                    *)
Judged(h) == judged' = judged \o h.cards /\ hal' = [h EXCEPT !.cards = <<>>]

(* The callback of the card input.                                         *)
on_card_readable ==
  /\ fifo # <<>>
  /\ LET h == drain_fifo IN check_alarm_fire(h) /\ Judged(h)
  /\ fifo' = <<>>
  /\ UNCHANGED <<db, settings, net, held, dm, cmds, spent>>

on_setting_changed == Applied(relay, settings'[db], rt)

-----------------------------------------------------------------------------
(* net.c                                                                   *)

(* DM writes the setting of an output; what cannot be stored changes       *)
(* nothing.                                                                *)
handle_setting_write ==
  /\ spent.writes < MaxWrites /\ Spend("writes")
  /\ \E o \in Outputs, k \in Kinds : settings' = [settings EXCEPT ![db][o] = k]
  /\ on_setting_changed
  /\ UNCHANGED <<fifo, hal, rt, db, net, held, judged, log, untold, dm, cmds>>

(* The event follows the relay, if the store takes it.                     *)
ForceTold(on) ==
  \/ log' = Append(log, Event("force", on)) /\ untold' = untold \ {"force"}
  \/ log' = log /\ untold' = untold \cup {"force"}

(* Mutant: the relay is not told of the recovery.                          *)
net_apply_force_open_only_on(on) ==
  IF on = net THEN UNCHANGED <<net, held, log, untold>>
  ELSE net' = on /\ held' = (held \/ on) /\ ForceTold(on)

(* A command that changes nothing is not passed on, and not reported.      *)
net_apply_force_open(on) ==
  IF on = net THEN UNCHANGED <<net, held, log, untold>>
  ELSE net' = on /\ held' = on /\ ForceTold(on)

handle_force_open_request ==
  /\ cmds # <<>>
  /\ net_apply_force_open(Head(cmds))
  /\ cmds' = Tail(cmds)
  /\ UNCHANGED <<fifo, hal, rt, db, settings, relay, applied, unread, judged, dm, spent>>

-----------------------------------------------------------------------------
(* Reloads.                                                                *)

(* db_path names another database: its settings count from now on.         *)
reload_db ==
  /\ db' \in Paths \ {db}
  /\ UNCHANGED <<fifo, hal, rt, settings, relay, applied, unread, net, held, judged, log, untold,
                 dm, cmds, spent>>

(* tcp_port changes: net_init makes a net that knows no force open.        *)
reload_port ==
  /\ spent.reloads < MaxReloads /\ Spend("reloads")
  /\ net' = FALSE
  /\ UNCHANGED <<fifo, hal, rt, db, settings, relay, applied, unread, held, judged, log, untold,
                 dm, cmds>>

-----------------------------------------------------------------------------
(* Around acud.                                                            *)

tag_card ==
  /\ spent.cards < MaxCards /\ Spend("cards")
  /\ fifo' = Append(fifo, [what |-> "card", tag |-> spent'.cards])
  /\ UNCHANGED <<hal, rt, db, settings, relay, applied, unread, net, held, judged, log, untold,
                 dm, cmds>>

switch_input ==
  /\ spent.switches < MaxSwitches /\ Spend("switches")
  /\ \E what \in {"alarm", "fire"}, on \in BOOLEAN : fifo' = Append(fifo, Event(what, on))
  /\ UNCHANGED <<hal, rt, db, settings, relay, applied, unread, net, held, judged, log, untold,
                 dm, cmds>>

(* DM reads the oldest event; its policy answers the fire input.           *)
dm_read ==
  /\ log # <<>>
  /\ dm' = [dm EXCEPT ![Head(log).what] = Head(log).on] /\ log' = Tail(log)
  /\ cmds' = IF Head(log).what = "fire" THEN Append(cmds, Head(log).on) ELSE cmds
  /\ UNCHANGED <<fifo, hal, rt, db, settings, relay, applied, unread, net, held, judged, untold,
                 spent>>

-----------------------------------------------------------------------------
Quiet == [alarm |-> FALSE, fire |-> FALSE]

Init ==
  /\ fifo = <<>> /\ hal = [alarm |-> FALSE, fire |-> FALSE, cards |-> <<>>] /\ rt = Quiet
  /\ db \in Paths /\ settings \in [Paths -> [Outputs -> Kinds]]
  /\ relay = [o \in Outputs |-> FALSE] /\ applied = db /\ unread = {} /\ untold = {}
  /\ net = FALSE /\ held = FALSE /\ judged = <<>>
  /\ log = <<>> /\ dm = [alarm |-> FALSE, fire |-> FALSE, force |-> FALSE] /\ cmds = <<>>
  /\ spent = [cards |-> 0, switches |-> 0, writes |-> 0, reloads |-> 0]

Next ==
  \/ on_card_readable \/ handle_setting_write \/ handle_force_open_request
  \/ reload_db \/ reload_port
  \/ tag_card \/ switch_input \/ dm_read

Spec == Init /\ [][Next]_vars

(* The loop serves what is readable, and DM polls and answers.             *)
Fairness == WF_vars(on_card_readable) /\ WF_vars(handle_force_open_request) /\ WF_vars(dm_read)

FairSpec == Spec /\ Fairness

-----------------------------------------------------------------------------
Events == [what : {"alarm", "fire", "force"}, on : BOOLEAN]

(* Type invariant.  The cards read are judged in the same callback.        *)
TypeOK ==
  /\ fifo \in Seq([what : {"alarm", "fire"}, on : BOOLEAN]
                  \cup [what : {"card"}, tag : 1 .. MaxCards])
  /\ hal \in [alarm : BOOLEAN, fire : BOOLEAN, cards : {<<>>}]
  /\ rt \in [alarm : BOOLEAN, fire : BOOLEAN]
  /\ db \in Paths /\ settings \in [Paths -> [Outputs -> Kinds]]
  /\ relay \in [Outputs -> BOOLEAN] /\ applied \in Paths /\ unread \subseteq Outputs
  /\ net \in BOOLEAN /\ held \in BOOLEAN /\ untold \subseteq {"alarm", "fire", "force"}
  /\ judged \in Seq(1 .. MaxCards) /\ log \in Seq(Events)
  /\ dm \in [alarm : BOOLEAN, fire : BOOLEAN, force : BOOLEAN]
  /\ cmds \in Seq(BOOLEAN)
  /\ spent \in [cards : 0 .. MaxCards, switches : 0 .. MaxSwitches,
                writes : 0 .. MaxWrites, reloads : 0 .. MaxReloads]

(* Once everything in the pipe has been read, the levels reported are the  *)
(* levels of the inputs, and the events leave DM with the same view, but   *)
(* for an input whose last change the store refused: until it changes      *)
(* again, DM is not told (check_alarm_fire: both inputs may have changed   *)
(* in one callback, and one of the events may have been refused).          *)
InputsReported ==
  /\ rt.alarm = hal.alarm /\ rt.fire = hal.fire
  /\ "alarm" \notin untold => Told("alarm") = rt.alarm
  /\ "fire" \notin untold => Told("fire") = rt.fire

(* Cards are judged in the order they were tagged and never twice, and a   *)
(* card that is never judged gave way to QueueCap later ones (push_card).  *)
CardsJudgedInOrder ==
  LET read == spent.cards - Cardinality({i \in DOMAIN fifo : fifo[i].what = "card"})
      seen == {judged[i] : i \in DOMAIN judged}
  IN /\ \A i, j \in DOMAIN judged : i < j => judged[i] < judged[j]
     /\ \A t \in (1 .. read) \ seen :
          \E u \in t + 1 .. read : u .. u + QueueCap - 1 \subseteq seen

OutputsFollow ==
  \A o \in Outputs \ unread : settings[db][o] # "Other" =>
    (relay[o] <=> rt.alarm \/ (rt.fire /\ settings[db][o] = "AlarmByFire"))

(* Every Alarm output is on exactly when the alarm input is active, or the *)
(* fire input is and the output rings for it, whatever was written while   *)
(* it rang, and whatever database is in use, once the outputs have been    *)
(* computed from it and its own setting could be read (apply_alarm_outputs *)
(* runs twice when both inputs have changed).                              *)
AlarmOutputsFollow ==
  applied = db => OutputsFollow

(* What holds the doors and what its events told DM agree, unless the      *)
(* store refused the last of them, also when a reload of the port has made *)
(* acud forget the mode it answers with, and until then that mode agrees   *)
(* with the doors (net_apply_force_open).                                  *)
ForceOpenAgrees ==
  /\ "force" \notin untold => Told("force") = held
  /\ net => held
  /\ spent.reloads = 0 => net = held

(* A fire that is over, and whose end the store took, lets the doors go    *)
(* (DM's policy through Object 206), if no reload of the port comes        *)
(* between.                                                                *)
FireEndsForceOpen ==
  <>[](~hal.fire /\ "fire" \notin untold) /\ [](spent.reloads = 0) => <>[](~held)

(* Violated: what has changed is told DM, whether or not the store takes   *)
(* the event.                                                              *)
ChangesAreTold ==
  [][\A w \in {"alarm", "fire"} : rt'[w] # rt[w] => Told(w)' = rt'[w]]_vars

(* Violated: nothing rings any more, yet an output that was an Alarm       *)
(* output when it was switched on, and is none any more, stays on.         *)
SilenceWhenQuiet == rt = Quiet => \A o \in Outputs \ unread : ~relay[o]

(* Violated: the outputs follow the settings of the database in use.       *)
ReloadApplies == OutputsFollow

(* Violated with a reload of tcp_port: the recovery lets the doors go.     *)
RecoveryReleases ==
  [][cmds # <<>> /\ cmds' = Tail(cmds) /\ ~Head(cmds) => ~held']_vars

=============================================================================
