------------------------------ MODULE NetConfig ------------------------------
(***************************************************************************)
(* The address of the device: SETT over UDP (acud/discover.c), which       *)
(* leaves a request in a file that a root service takes, and the web page  *)
(* (webui/app.py), which tries an address that is undone unless the user   *)
(* confirms it.  Both go through the shell script deploy/acu-netcfg, whose *)
(* commands run as processes of their own, next to the timer of the roll   *)
(* back and to the roll back at boot.  A command is the sequence of its    *)
(* statements that matter; each is a step, and the power may fail between  *)
(* any two.  A statement that fails ends its command (set -e).  The order  *)
(* in which files were written is the order in which a power cut finds     *)
(* them; a file is written whole or not at all, but PENDING, which may be  *)
(* left empty.                                                             *)
(*                                                                         *)
(* An address that is stored carries where it came from, which the files   *)
(* do not say: "kept" is what the device had or the user confirmed.        *)
(***************************************************************************)
EXTENDS Naturals, Sequences

CONSTANTS
  Users,      \* sessions of the web page
  Home,       \* the address at first
  WebAddrs,   \* addresses users try
  SettAddrs,  \* addresses SETT asks for
  Reachable,  \* those at which the web page can be reached
  Careless,   \* whether users confirm without looking and when it is too late
  MaxApplies, \* bound on addresses tried
  MaxSetts,   \* bound on SETT requests
  MaxCuts,    \* bound on power cuts and restarts of acud
  MaxFails    \* bound on marks, timers and roll backs that fail

None == "none"
Addrs == {Home} \cup WebAddrs \cup SettAddrs

ASSUME AddressAssumption == None \notin Addrs /\ Home \in Reachable
ASSUME CarelessAssumption == Careless \in BOOLEAN
ASSUME NetBoundsAssumption == {MaxApplies, MaxSetts, MaxCuts, MaxFails} \subseteq Nat
ASSUME UsersAssumption == Users \cap {"service", "timer", "boot"} = {}

VARIABLES
  request, \* the address in /run/acud/netcfg-request, or None
  profile, \* NetworkManager's file of the connection
  loaded,  \* what NetworkManager has read
  address, \* what the interface uses, or Nothing before it is set up
  pending, \* whether PENDING is there
  named,   \* whether PENDING, when it was written last, said which file to put back
  backup,  \* BACKUP, or Nothing
  timer,   \* whether the timer of the roll back runs
  run,     \* each process: the steps it has to do, and the address it works with
  spent    \* what the bounds count

files == <<pending, named, backup>>
nm    == <<loaded, address>>
vars  == <<request, profile, nm, files, timer, run, spent>>

Processes == Users \cup {"service", "timer", "boot"}
From(addr, from) == [addr |-> addr, from |-> from]
Settings == [addr : Addrs, from : {"kept", "web", "sett"}]
Nothing == From(None, "kept")

Spend(what) == spent' = [spent EXCEPT ![what] = @ + 1]
Idle(p) == run[p].todo = <<>>
(* NetworkManager, the web page and the services start after the roll back *)
(* at boot.                                                                *)
Up == address # Nothing

-----------------------------------------------------------------------------
(* The commands of acu-netcfg.                                             *)

(* Mutant: the backup is made when the address is stored.                  *)
cmd_apply_late == <<"refuse", "check_conflict", "modify", "backup", "mark", "arm", "up">>

cmd_apply == <<"refuse", "check_conflict", "backup", "mark", "arm", "modify", "up">>

cmd_apply_request == <<"read", "remove", "refuse", "check_conflict", "modify", "up">>

cmd_confirm == <<"need", "disarm", "unmark", "forget">>

(* Mutant: a roll back gives up when the connection does not come up.      *)
cmd_rollback_strict == <<"need", "restore", "reload", "up", "disarm", "unmark", "forget">>

(* Mutant: the change is not waiting any more when the file is put back.   *)
cmd_rollback_unmarked == <<"need", "disarm", "unmark", "restore", "reload", "try_up", "forget">>

cmd_rollback == <<"need", "restore", "reload", "try_up", "disarm", "unmark", "forget">>

Runs(p, command, addr) == run' = [run EXCEPT ![p] = [todo |-> command, want |-> addr]]
(* Process p is about to do this step.                                     *)
Does(p, step) == ~Idle(p) /\ Head(run[p].todo) = step
GoesOn(p) == run' = [run EXCEPT ![p].todo = Tail(@)]
(* die, or set -e.                                                         *)
Dies(p) == run' = [run EXCEPT ![p].todo = <<>>]
Fails(p) == Dies(p) /\ spent.fails < MaxFails /\ Spend("fails")

(* A change waits to be confirmed: no other may be made.                   *)
refuse(p) ==
  /\ Does(p, "refuse")
  /\ IF pending THEN Dies(p) ELSE GoesOn(p)
  /\ UNCHANGED <<request, profile, nm, files, timer, spent>>

(* Seconds pass; somebody may use the address.                             *)
check_conflict(p) ==
  /\ Does(p, "check_conflict")
  /\ GoesOn(p) \/ Dies(p)
  /\ UNCHANGED <<request, profile, nm, files, timer, spent>>

(* mkdir, chmod and cp: one that fails ends the command before anything    *)
(* waits.                                                                  *)
cp_backup(p) ==
  /\ Does(p, "backup")
  /\ \/ backup' = profile /\ (GoesOn(p) \/ Dies(p))
     \/ backup' = backup /\ Dies(p)
  /\ UNCHANGED <<request, profile, nm, pending, named, timer, spent>>

(* printf and chmod: PENDING may be left, empty or whole, and no timer.    *)
mark(p) ==
  /\ Does(p, "mark")
  /\ \/ pending' = TRUE /\ named' = TRUE /\ GoesOn(p) /\ UNCHANGED spent
     \/ pending' = TRUE /\ named' \in BOOLEAN /\ Fails(p)
     \/ UNCHANGED <<pending, named>> /\ Fails(p)
  /\ UNCHANGED <<request, profile, nm, backup, timer>>

(* The old timer is stopped, a new one is started, or not.                 *)
arm(p) ==
  /\ Does(p, "arm")
  /\ \/ timer' = TRUE /\ GoesOn(p) /\ UNCHANGED spent
     \/ timer' = FALSE /\ Fails(p)
  /\ UNCHANGED <<request, profile, nm, files>>

modify(p) ==
  /\ Does(p, "modify")
  /\ \/ /\ profile' = From(run[p].want, IF p = "service" THEN "sett" ELSE "web")
        /\ loaded' = profile'
        /\ GoesOn(p)
     \/ UNCHANGED <<profile, loaded>> /\ Dies(p)
  /\ UNCHANGED <<request, address, files, timer, spent>>

connection_up(p) ==
  /\ Does(p, "up") \/ Does(p, "try_up")
  /\ \/ Up /\ address' = loaded /\ GoesOn(p)
     \/ UNCHANGED address /\ IF Does(p, "up") THEN Dies(p) ELSE GoesOn(p)
  /\ UNCHANGED <<request, profile, loaded, files, timer, spent>>

(* Commands that have nothing to do unless a change is waiting.            *)
need(p) ==
  /\ Does(p, "need")
  /\ IF pending THEN GoesOn(p) ELSE Dies(p)
  /\ UNCHANGED <<request, profile, nm, files, timer, spent>>

(* cat, cp and chmod.  Without a backup nothing is restored, and the roll  *)
(* back goes on; with an empty PENDING cp has nowhere to copy it.          *)
restore(p) ==
  /\ Does(p, "restore")
  /\ \/ backup = Nothing /\ GoesOn(p) /\ UNCHANGED <<profile, spent>>
     \/ /\ backup # Nothing /\ named /\ profile' = backup
        /\ (GoesOn(p) /\ UNCHANGED spent) \/ Fails(p)
     \/ backup # Nothing /\ ~named /\ Dies(p) /\ UNCHANGED <<profile, spent>>
     \/ UNCHANGED profile /\ Fails(p)
  /\ UNCHANGED <<request, nm, files, timer>>

reload(p) ==
  /\ Does(p, "reload") /\ GoesOn(p)
  /\ loaded' \in IF Up THEN {profile, loaded} ELSE {loaded}
  /\ UNCHANGED <<request, profile, address, files, timer, spent>>

disarm(p) ==
  /\ Does(p, "disarm") /\ GoesOn(p)
  /\ timer' = FALSE
  /\ UNCHANGED <<request, profile, nm, files, spent>>

(* What the user confirms is kept.                                         *)
unmark(p) ==
  /\ Does(p, "unmark") /\ GoesOn(p)
  /\ pending' = FALSE
  /\ profile' = IF run[p].want # None /\ profile.from = "web"
                THEN From(profile.addr, "kept") ELSE profile
  /\ UNCHANGED <<request, nm, named, backup, timer, spent>>

forget(p) ==
  /\ Does(p, "forget") /\ GoesOn(p)
  /\ backup' = Nothing
  /\ UNCHANGED <<request, profile, nm, pending, named, timer, spent>>

read(p) ==
  /\ Does(p, "read")
  /\ run' = [run EXCEPT ![p] = IF request = None THEN [@ EXCEPT !.todo = <<>>]
                               ELSE [todo |-> Tail(@.todo), want |-> request]]
  /\ UNCHANGED <<request, profile, nm, files, timer, spent>>

remove(p) ==
  /\ Does(p, "remove") /\ GoesOn(p)
  /\ request' = None
  /\ UNCHANGED <<profile, nm, files, timer, spent>>

acu_netcfg(p) ==
  \/ refuse(p) \/ check_conflict(p) \/ cp_backup(p) \/ mark(p) \/ arm(p) \/ modify(p)
  \/ connection_up(p) \/ need(p) \/ restore(p) \/ reload(p) \/ disarm(p) \/ unmark(p)
  \/ forget(p) \/ read(p) \/ remove(p)

-----------------------------------------------------------------------------
(* Who starts them.                                                        *)

(* A user reaches the page; unless Careless, none acts during the roll     *)
(* back of the timer.                                                      *)
AtPage(u) == Up /\ Idle(u) /\ address.addr \in Reachable /\ (Careless \/ Idle("timer"))

network(u) ==
  /\ AtPage(u) /\ spent.applies < MaxApplies /\ Spend("applies")
  /\ \E a \in WebAddrs : Runs(u, cmd_apply, a)
  /\ UNCHANGED <<request, profile, nm, files, timer>>

(* The user confirms the address that is set; unless Careless, from there. *)
network_confirm(u) ==
  /\ AtPage(u) /\ (Careless \/ address = profile)
  /\ Runs(u, cmd_confirm, profile.addr)
  /\ UNCHANGED <<request, profile, nm, files, timer, spent>>

network_rollback(u) ==
  /\ AtPage(u) /\ Runs(u, cmd_rollback, None)
  /\ UNCHANGED <<request, profile, nm, files, timer, spent>>

(* acud takes a SETT: the file is replaced by another.                     *)
handle_sett ==
  /\ Up /\ spent.setts < MaxSetts /\ Spend("setts")
  /\ request' \in SettAddrs
  /\ UNCHANGED <<profile, nm, files, timer, run>>

(* acu-netcfg-apply.path                                                   *)
path_exists ==
  /\ Up /\ request # None /\ Idle("service")
  /\ Runs("service", cmd_apply_request, None)
  /\ UNCHANGED <<request, profile, nm, files, timer, spent>>

(* The time is over; unless Careless, it is longer than what a user's      *)
(* command takes, bringing a connection up excepted.                       *)
timer_fires ==
  /\ Up /\ timer /\ Idle("timer")
  /\ Careless \/ \A u \in Users : Idle(u) \/ Does(u, "up")
  /\ timer' = FALSE
  /\ Runs("timer", cmd_rollback, None)
  /\ UNCHANGED <<request, profile, nm, files, spent>>

(* acud stops and starts: its directory in /run is made anew.              *)
acud_restarts ==
  /\ Up /\ spent.cuts < MaxCuts /\ Spend("cuts")
  /\ request' = None
  /\ UNCHANGED <<profile, nm, files, timer, run>>

(* What is on disk is left, and the roll back runs at boot.                *)
PowerCut ==
  /\ spent.cuts < MaxCuts /\ Spend("cuts")
  /\ request' = None /\ timer' = FALSE
  /\ loaded' = Nothing /\ address' = Nothing
  /\ run' = [p \in Processes |->
               [todo |-> IF p = "boot" THEN cmd_rollback ELSE <<>>, want |-> None]]
  /\ UNCHANGED <<profile, files>>

NetworkManager_starts ==
  /\ ~Up /\ Idle("boot")
  /\ loaded' = profile /\ address' = profile
  /\ UNCHANGED <<request, profile, files, timer, run, spent>>

-----------------------------------------------------------------------------
Init ==
  /\ request = None
  /\ profile = From(Home, "kept") /\ loaded = profile /\ address = profile
  /\ pending = FALSE /\ named = FALSE /\ backup = Nothing /\ timer = FALSE
  /\ run = [p \in Processes |-> [todo |-> <<>>, want |-> None]]
  /\ spent = [applies |-> 0, setts |-> 0, cuts |-> 0, fails |-> 0]

Next ==
  \/ \E p \in Processes : acu_netcfg(p)
  \/ \E u \in Users : network(u) \/ network_confirm(u) \/ network_rollback(u)
  \/ handle_sett \/ path_exists \/ timer_fires \/ acud_restarts \/ PowerCut
  \/ NetworkManager_starts

Spec == Init /\ [][Next]_vars

(* Processes are scheduled, time passes, the path unit and the boot do     *)
(* their work.  Users and DM owe nothing.                                  *)
FairSpec ==
  /\ Spec
  /\ \A p \in Processes : WF_vars(acu_netcfg(p))
  /\ WF_vars(timer_fires) /\ WF_vars(path_exists) /\ WF_vars(NetworkManager_starts)

-----------------------------------------------------------------------------
Statements ==
  {"refuse", "check_conflict", "backup", "mark", "arm", "modify", "up", "need", "restore", "reload",
   "try_up", "disarm", "unmark", "forget", "read", "remove"}

(* Type invariant.                                                         *)
TypeOK ==
  /\ request \in SettAddrs \cup {None}
  /\ profile \in Settings
  /\ {loaded, address, backup} \subseteq Settings \cup {Nothing}
  /\ pending \in BOOLEAN /\ named \in BOOLEAN /\ timer \in BOOLEAN
  /\ run \in [Processes -> [todo : Seq(Statements), want : Addrs \cup {None}]]
  /\ spent \in [{"applies", "setts", "cuts", "fails"} -> Nat]

(* An address a user tries and has not confirmed is stored only together   *)
(* with a PENDING that says what to put back and with a backup that is     *)
(* itself no such address: whenever the power fails, the next boot can go  *)
(* back to what was there, whichever statements failed                     *)
(* (acu-netcfg:16, acu-netcfg-boot.service).                               *)
UnconfirmedIsUndone ==
  profile.from = "web" => pending /\ named /\ backup # Nothing /\ backup.from # "web"

(* The roll back at boot leaves no change waiting, unless it is itself     *)
(* what fails, or PENDING is empty (acu-netcfg:17; set -e, acu-netcfg:232).*)
BootEnds ==
  [][~Idle("boot") /\ Idle("boot")'
       => ~pending' \/ ~named \/ spent'.fails > spent.fails]_vars

(* A change waits to be confirmed for some time only, so that changes do   *)
(* not end up refused for ever, unless marking it, scheduling its roll     *)
(* back or the roll back has failed (acu-netcfg:134, 138, 227, 232).       *)
PendingEnds == pending ~> (~pending \/ spent.fails > 0)

(* An unreachable address a user tried does not stay in the file the       *)
(* device boots with, unless the roll back has failed.  SETT is the        *)
(* exception: what it asks for is not undone, since discovery finds the    *)
(* device at any address (acu-netcfg:159).                                 *)
ComesBack ==
  profile.from # "sett" /\ profile.addr \notin Reachable
    ~> \/ profile.addr \in Reachable
       \/ profile.from = "sett"
       \/ spent.fails > 0

-----------------------------------------------------------------------------
(* Violated: what SETT set is not taken back by a roll back                *)
(* (acu-netcfg:182).  The file PENDING is looked at before the seconds     *)
(* check_conflict takes, in which a user may try an address.               *)
SettSurvives == [][profile.from = "sett" => profile'.from # "kept"]_vars

(* Violated: what the user confirmed stays once the command has said so    *)
(* (acu-netcfg:12).  Stopping the timer does not stop a roll back that     *)
(* has begun.                                                              *)
ConfirmedStays ==
  [][\A u \in Users : Does(u, "forget") /\ run'[u].todo = <<>> /\ run[u].want # None
                     => profile.addr = run[u].want]_vars

(* Violated: who does not confirm at the new address loses it              *)
(* (acu-netcfg:149).  The command does not ask where the user is.          *)
KeptIsReachable == profile.from = "kept" => profile.addr \in Reachable

(* Violated: a change that waits ends (acu-netcfg:232).  Where no timer    *)
(* could be started, or the roll back failed, PENDING is left until the    *)
(* next boot; one that is empty stays then, too.                           *)
PendingAlwaysEnds == pending ~> ~pending
=============================================================================
