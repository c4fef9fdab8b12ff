------------------------------- MODULE Config -------------------------------
(***************************************************************************)
(* The settings of acud: config.json, which the web page (webui/app.py)    *)
(* reads, changes and writes back, and which a technician may replace; the *)
(* signal that makes acud read it again (acud/main.c); what config_load    *)
(* (acud/config.c) makes of it; and the parts that are opened anew when    *)
(* their setting changes: the settings database, the port.  The paths of   *)
(* the list of users and of the events count at the next start.  Of the    *)
(* optional fields these two stand for all, of the mandatory ones the      *)
(* database, the port and the password; others are read the same way.      *)
(*                                                                         *)
(* The page writes by emptying the file and writing all of it; between the *)
(* two it cannot be read.  Who writes over what another has written since  *)
(* may leave the rest of it behind, which cJSON_Parse does not look at and *)
(* the page's json.load does not accept.                                   *)
(***************************************************************************)
EXTENDS Naturals, Sequences

CONSTANTS
  Editors,      \* sessions of the web page
  Dbs, BadDb,   \* values of db_path, and one that cannot be opened
  Passwords,    \* values of admin_password
  Ports,        \* values of tcp_port that are in range
  BadPort,      \* one of them is taken by another program
  OwnPath,      \* a path given for the list of users or for the events
  Absent,       \* for a field that is not in the file
  DefaultDb, DefaultPassword, DefaultPort, \* config_set_defaults
  FirstFile,    \* what config.json says at first
  NewFiles,     \* what a technician replaces it with
  Entries,      \* what users enter in the page: database and password
  MaxSaves,     \* bound on changes made in the page
  MaxInstalls,  \* bound on replacements of the file
  MaxStops      \* bound on stops of the process and power cuts

OutOfRange == 0
Rest == "rest" \* of a longer file, after an object that is whole
Beside == "beside" \* the path of a file next to the database
Texts  == {Absent, Beside, OwnPath}
Files  == [db : Dbs, port : Ports \cup {OutOfRange}, password : Passwords,
           users : Texts, events : Texts]
Defaults == [db |-> DefaultDb, port |-> DefaultPort, password |-> DefaultPassword,
             users |-> Beside, events |-> Beside]

ASSUME DefaultsAssumption ==
  DefaultDb \in Dbs \ {BadDb} /\ DefaultPassword \in Passwords /\ DefaultPort \in Ports
ASSUME FilesAssumption == {FirstFile} \cup NewFiles \subseteq Files
ASSUME EntriesAssumption == Entries \subseteq Dbs \X Passwords
ASSUME OutOfRangeAssumption == OutOfRange \notin Ports
ASSUME AbsentAssumption == Absent \notin {Beside, OwnPath}
ASSUME ConfigBoundsAssumption == {MaxSaves, MaxInstalls, MaxStops} \subseteq Nat

VARIABLES
  file,     \* config.json: <<what it says>>, <<what it says, Rest>>, or empty
  page,     \* each editor: the steps to do, and the settings it works with
  main,     \* where acud is: "off", "starting", "waiting", "reading"
  g_reload, \* the flag of the signal handler
  cfg,      \* the settings in force
  in_use,   \* what is open: database, port (OutOfRange: none), users, events
  warned,   \* the page said that the last signal could not be sent
  wanted,   \* the password that was last said to be changed
  saved,    \* all that was ever in the file
  spent     \* what the bounds count

acud == <<main, g_reload, cfg, in_use>>
vars == <<file, page, acud, warned, wanted, saved, spent>>

Spend(what) == spent' = [spent EXCEPT ![what] = @ + 1]
Idle(e) == page[e].todo = <<>>
Does(e, step) == ~Idle(e) /\ Head(page[e].todo) = step
Away == [todo |-> <<>>, changed |-> FALSE, set |-> FirstFile]
GoesOn(e) ==
  page' = [page EXCEPT ![e] = IF Len(@.todo) = 1 THEN Away
                              ELSE [todo |-> Tail(@.todo), changed |-> @.changed, set |-> @.set]]
Says(s) == file' = <<s>> /\ saved' = saved \cup {s}

-----------------------------------------------------------------------------
(* config.c                                                                *)

Valid(s) == s.port # OutOfRange

(* Optional fields that are not there have their defaults.                 *)
Given(text) == IF text = Absent THEN Beside ELSE text

(* The settings of a file that has all mandatory fields.  Where the path   *)
(* of the events is not given, that of the users has its default too.      *)
Taken(s) == [db |-> s.db, port |-> s.port, password |-> s.password,
             users |-> IF s.events = Absent THEN Beside ELSE Given(s.users),
             events |-> Given(s.events)]

(* Mutant: a field is taken before the next one is looked at.              *)
config_load_partly(f, c) ==
  IF f = <<>> THEN c
  ELSE IF ~Valid(f[1]) THEN [c EXCEPT !.password = f[1].password]
  ELSE Taken(f[1])

(* What becomes of the settings c when the file is read: a mandatory field *)
(* that is missing or out of range leaves all of them.                     *)
config_load(f, c) ==
  IF f = <<>> \/ ~Valid(f[1]) THEN c ELSE Taken(f[1])

-----------------------------------------------------------------------------
(* main.c                                                                  *)

(* A path that is not given is that of a file beside the database.         *)
resolve_path(text, db) == IF text = Beside THEN <<Beside, db>> ELSE <<text>>

Paths == {<<Beside, db>> : db \in Dbs} \cup {<<text>> : text \in Texts \ {Absent}}

net_init(port) == IF port = BadPort THEN OutOfRange ELSE port

Opened(c) == [db |-> c.db, port |-> net_init(c.port),
              users |-> resolve_path(c.users, c.db), events |-> resolve_path(c.events, c.db)]

(* Mutant: what could not be opened stays in the settings.                 *)
Kept_new(c, old) == c

(* What could not be opened is not changed in the settings.                *)
Kept(c, old) == [c EXCEPT !.db = IF @ = BadDb THEN old.db ELSE @,
                          !.port = IF @ # old.port /\ net_init(@) = OutOfRange THEN old.port ELSE @]

(* The process starts and reads the file; without its pid file the page    *)
(* cannot send it a signal yet.  A database that cannot be opened ends it. *)
start ==
  /\ main = "off"
  /\ cfg' = config_load(file, Defaults)
  /\ cfg'.db # BadDb
  /\ in_use' = Opened(cfg')
  /\ main' = "starting" /\ g_reload' = FALSE
  /\ UNCHANGED <<file, page, warned, wanted, saved, spent>>

write_pid ==
  /\ main = "starting" /\ main' = "waiting"
  /\ UNCHANGED <<file, page, g_reload, cfg, in_use, warned, wanted, saved, spent>>

take_reload ==
  /\ main = "waiting" /\ g_reload
  /\ main' = "reading" /\ g_reload' = FALSE
  /\ UNCHANGED <<file, page, cfg, in_use, warned, wanted, saved, spent>>

(* The database and the port follow the settings, the other two do not.    *)
reload ==
  LET new  == config_load(file, cfg)
      port == net_init(new.port)
  IN /\ main = "reading" /\ main' = "waiting"
     /\ cfg' = Kept(new, cfg)
     /\ in_use' = [in_use EXCEPT !.db = IF new.db = BadDb THEN @ ELSE new.db,
                                 !.port = IF new.port = cfg.port \/ port = OutOfRange
                                          THEN @ ELSE port]
     /\ UNCHANGED <<file, page, g_reload, warned, wanted, saved, spent>>

(* The process ends, or the power fails, which also ends the page; the     *)
(* file is as it was left.                                                 *)
Stops ==
  /\ main # "off" /\ spent.stops < MaxStops /\ Spend("stops")
  /\ main' = "off" /\ g_reload' = FALSE
  /\ page' \in {page, [e \in Editors |-> Away]}
  /\ UNCHANGED <<file, cfg, in_use, warned, wanted, saved>>

-----------------------------------------------------------------------------
(* webui/app.py                                                            *)

(* A file that cannot be parsed is like none: defaults for four fields.    *)
load_config ==
  IF Len(file) = 1 THEN file[1] ELSE [Defaults EXCEPT !.users = Absent, !.events = Absent]

(* Mutant: the signal is sent before the file is written.                  *)
save_and_reload_early == <<"signal", "empty", "write">>

save_and_reload == <<"empty", "write", "signal">>

(* The user enters the database, and a password to change it.             *)
index(e) ==
  /\ Idle(e) /\ spent.saves < MaxSaves /\ Spend("saves")
  /\ \E entry \in Entries :
       page' = [page EXCEPT ![e] =
                 [todo |-> save_and_reload,
                  changed |-> entry[2] # load_config.password,
                  set |-> [load_config EXCEPT !.db = entry[1], !.password = entry[2]]]]
  /\ UNCHANGED <<file, acud, warned, wanted, saved>>

save_config_opens(e) ==
  /\ Does(e, "empty") /\ GoesOn(e)
  /\ file' = <<>>
  /\ UNCHANGED <<acud, warned, wanted, saved, spent>>

(* Over what another has written since, the rest of which may be left.     *)
save_config_writes(e) ==
  /\ Does(e, "write") /\ GoesOn(e)
  /\ \/ Says(page[e].set)
     \/ /\ file \notin {<<>>, <<page[e].set>>}
        /\ file' = <<page[e].set, Rest>> /\ saved' = saved \cup {page[e].set}
  /\ UNCHANGED <<acud, warned, wanted, spent>>

(* The signal is sent, if there is a process to send it to; the page says  *)
(* so if not, and that the password was changed.                           *)
reload_daemon(e) ==
  /\ Does(e, "signal") /\ GoesOn(e)
  /\ g_reload' = (g_reload \/ main \in {"waiting", "reading"})
  /\ warned' = (main \notin {"waiting", "reading"})
  /\ wanted' = IF page[e].changed THEN page[e].set.password ELSE wanted
  /\ UNCHANGED <<file, main, cfg, in_use, saved, spent>>

(* A technician puts another file in its place and sends the signal.       *)
Installs ==
  /\ spent.installs < MaxInstalls /\ Spend("installs")
  /\ \E s \in NewFiles : Says(s) /\ wanted' = s.password
  /\ g_reload' = (g_reload \/ main \in {"waiting", "reading"})
  /\ warned' = (main \notin {"waiting", "reading"})
  /\ UNCHANGED <<page, main, cfg, in_use>>

-----------------------------------------------------------------------------
Init ==
  /\ file = <<FirstFile>> /\ saved = {FirstFile} /\ wanted = FirstFile.password
  /\ page = [e \in Editors |-> Away]
  /\ main = "off" /\ g_reload = FALSE /\ cfg = Defaults /\ in_use = Opened(Defaults)
  /\ warned = FALSE
  /\ spent = [saves |-> 0, installs |-> 0, stops |-> 0]

Next ==
  \/ start \/ write_pid \/ take_reload \/ reload \/ Stops \/ Installs
  \/ \E e \in Editors : \/ index(e) \/ save_config_opens(e) \/ save_config_writes(e)
                        \/ reload_daemon(e)

Spec == Init /\ [][Next]_vars

(* systemd starts the process, its loop runs (Loop!ReloadServed), and the  *)
(* page finishes a change it has begun.                                    *)
FairSpec ==
  /\ Spec
  /\ WF_vars(start) /\ WF_vars(write_pid) /\ WF_vars(take_reload) /\ WF_vars(reload)
  /\ \A e \in Editors :
       WF_vars(save_config_opens(e) \/ save_config_writes(e) \/ reload_daemon(e))

-----------------------------------------------------------------------------
TypeOK ==
  /\ file \in {<<>>} \cup {<<s>> : s \in saved} \cup {<<s, Rest>> : s \in saved}
  /\ saved \subseteq Files
  /\ page \in [Editors -> [todo : Seq({"empty", "write", "signal"}), changed : BOOLEAN, set : Files]]
  /\ main \in {"off", "starting", "waiting", "reading"}
  /\ g_reload \in BOOLEAN /\ warned \in BOOLEAN /\ wanted \in Passwords
  /\ cfg \in [db : Dbs, port : Ports, password : Passwords,
             users : Texts \ {Absent}, events : Texts \ {Absent}]
  /\ in_use \in [db : Dbs, port : Ports \cup {OutOfRange}, users : Paths, events : Paths]
  /\ spent \in [{"saves", "installs", "stops"} -> Nat]

(* What the settings say of the database and the port is what is open, so  *)
(* that the next reload, which compares with the settings, tries again     *)
(* what failed (main.c:672, main.c:691).  A port that was taken at the     *)
(* start is not open at all.                                               *)
CfgIsInUse ==
  main \in {"waiting", "reading"} =>
    /\ in_use.db = cfg.db
    /\ in_use.port \in {cfg.port, net_init(cfg.port)}

(* The settings in force are those of one file that was saved whole, or    *)
(* the defaults; never parts of two, and never those of a file that was    *)
(* half written or out of range.  What could not be opened is excepted.    *)
CfgIsOneFile ==
  main # "off" =>
    \E s \in {f \in saved : Valid(f)} \cup {Defaults} :
      /\ cfg.password = s.password
      /\ cfg.db = s.db \/ s.db = BadDb
      /\ cfg.port = s.port \/ s.port = BadPort
      /\ cfg.events = Given(s.events)

(* What is saved counts in the end, however saves and signals fall         *)
(* together, unless the page said that it could not send the signal, or    *)
(* the power failed before what was saved was written.                     *)
SavedIsApplied ==
  <>[](main = "waiting" /\ file # <<>> /\ Valid(file[1]) /\ ~warned
         => cfg.password = file[1].password /\ (file[1].db # BadDb => cfg.db = file[1].db))

-----------------------------------------------------------------------------
(* Violated: the list of users is the one config.json names, whatever it   *)
(* says of the events (config.h:17).  config.c:309 is one line too many.   *)
UsersPathFollows ==
  main = "starting" /\ file # <<>> /\ Valid(file[1]) /\ cfg.db = file[1].db
  /\ cfg.password = file[1].password
    => cfg.users = Given(file[1].users)

(* Violated: a password stays changed once the page has said so            *)
(* (webui/app.py:263).  Two who save at once undo each other's change.     *)
PasswordStays ==
  (\A e \in Editors : Idle(e)) /\ file # <<>> => file[1].password = wanted

(* Violated: a setting that reload has put in force is the one the next    *)
(* start uses.  A list of users beside the database moves with db_path,    *)
(* but only then.                                                          *)
ReloadLikeStart == [][start /\ cfg' = cfg => in_use' = in_use]_vars
=============================================================================
