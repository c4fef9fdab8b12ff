---------------------------- MODULE ConfigProofs ----------------------------
(***************************************************************************)
(* Proofs about Config, for every set of databases, passwords, ports and   *)
(* files: the state stays typed, what the settings say is open, and the    *)
(* settings in force are those of one file that was saved whole.  The last *)
(* two are inductive together with the types, each alone.                  *)
(***************************************************************************)
EXTENDS Config, TLAPS

InForce == [db : Dbs, port : Ports, password : Passwords,
            users : Texts \ {Absent}, events : Texts \ {Absent}]
InUse == [db : Dbs, port : Ports \cup {OutOfRange}, users : Paths, events : Paths]
Steps == {"empty", "write", "signal"}
Sessions == [todo : Seq(Steps), changed : BOOLEAN, set : Files]
Spent == [{"saves", "installs", "stops"} -> Nat]

(* What the file may be when these were saved.                             *)
Contents(some) == {<<>>} \cup {<<s>> : s \in some} \cup {<<s, Rest>> : s \in some}

(* The defaults are settings that can be in force.                         *)
LEMMA DefaultsTyped == Defaults \in InForce /\ Defaults \in Files
  BY DefaultsAssumption, AbsentAssumption DEF Defaults, InForce, Files, Texts

LEMMA GivenTyped == ASSUME NEW text \in Texts PROVE Given(text) \in Texts \ {Absent}
  BY AbsentAssumption DEF Given, Texts

(* Reading a file leaves the settings or takes all of them from it.        *)
LEMMA LoadCases ==
  ASSUME NEW some \in SUBSET Files, NEW f \in Contents(some), NEW c
  PROVE  \/ config_load(f, c) = c
         \/ \E s \in some : Valid(s) /\ config_load(f, c) = Taken(s)
<1>1. CASE f = <<>>
  BY <1>1 DEF config_load
<1>2. CASE \E s \in some : f \in {<<s>>, <<s, Rest>>}
  <2>1. PICK s \in some : f \in {<<s>>, <<s, Rest>>}
    BY <1>2
  <2>2. f # <<>> /\ f[1] = s
    BY <2>1
  <2>3. CASE Valid(s)
    <3>1. config_load(f, c) = Taken(s)
      BY <2>2, <2>3 DEF config_load, Taken
    <3> QED
      BY <2>1, <2>3, <3>1
  <2>4. CASE ~Valid(s)
    BY <2>2, <2>4 DEF config_load
  <2> QED
    BY <2>3, <2>4
<1> QED
  BY <1>1, <1>2 DEF Contents

(* What a file gives, field by field.                                      *)
LEMMA LoadFields ==
  ASSUME NEW s \in Files, Valid(s)
  PROVE  /\ Taken(s) \in InForce
         /\ Taken(s).db = s.db /\ Taken(s).port = s.port /\ Taken(s).password = s.password
         /\ Taken(s).events = Given(s.events)
<1>1. /\ s.users \in Texts /\ s.events \in Texts /\ s.db \in Dbs
      /\ s.port \in Ports /\ s.password \in Passwords
  BY DEF Files, Valid
<1>2. Given(s.users) \in Texts \ {Absent} /\ Given(s.events) \in Texts \ {Absent}
  BY <1>1, GivenTyped
<1>3. Beside \in Texts \ {Absent}
  BY AbsentAssumption DEF Texts
<1> QED
  BY <1>1, <1>2, <1>3 DEF InForce, Taken

LEMMA LoadTyped ==
  ASSUME NEW some \in SUBSET Files, NEW f \in Contents(some), NEW c \in InForce
  PROVE  config_load(f, c) \in InForce
  BY LoadCases, LoadFields

LEMMA PathTyped ==
  ASSUME NEW text \in Texts \ {Absent}, NEW db \in Dbs
  PROVE  resolve_path(text, db) \in Paths
  BY DEF resolve_path, Paths

LEMMA OpenedTyped == ASSUME NEW c \in InForce PROVE Opened(c) \in InUse
<1>1. /\ c.db \in Dbs /\ c.port \in Ports
      /\ c.users \in Texts \ {Absent} /\ c.events \in Texts \ {Absent}
  BY DEF InForce
<1>2. resolve_path(c.users, c.db) \in Paths /\ resolve_path(c.events, c.db) \in Paths
  BY <1>1, PathTyped
<1>3. net_init(c.port) \in Ports \cup {OutOfRange}
  BY <1>1 DEF net_init
<1> QED
  BY <1>1, <1>2, <1>3 DEF Opened, InUse

(* What a reload puts in force, field by field.                            *)
LEMMA KeptFields ==
  ASSUME NEW c \in InForce, NEW old \in InForce
  PROVE  /\ Kept(c, old) \in InForce
         /\ Kept(c, old).db = IF c.db = BadDb THEN old.db ELSE c.db
         /\ Kept(c, old).port = IF c.port # old.port /\ net_init(c.port) = OutOfRange
                                THEN old.port ELSE c.port
         /\ Kept(c, old).password = c.password
         /\ Kept(c, old).events = c.events
  BY DEF Kept, InForce

-----------------------------------------------------------------------------
(* Types.                                                                  *)

(* The type invariant, by the names above.                                 *)
LEMMA Typed ==
  TypeOK <=> /\ file \in Contents(saved) /\ saved \subseteq Files
             /\ page \in [Editors -> Sessions]
             /\ main \in {"off", "starting", "waiting", "reading"}
             /\ g_reload \in BOOLEAN /\ warned \in BOOLEAN /\ wanted \in Passwords
             /\ cfg \in InForce /\ in_use \in InUse /\ spent \in Spent
  BY DEF TypeOK, Contents, Sessions, Steps, InForce, InUse, Spent

LEMMA AwayTyped == Away \in Sessions
<1>1. <<>> \in Seq(Steps)
  OBVIOUS
<1> QED
  BY <1>1, FilesAssumption DEF Away, Sessions

LEMMA PageGoesOn ==
  ASSUME TypeOK, NEW e \in Editors, ~Idle(e), GoesOn(e)
  PROVE  page' \in [Editors -> Sessions]
<1>1. page \in [Editors -> Sessions]
  BY Typed
<1>2. page[e].todo \in Seq(Steps) /\ page[e].todo # <<>> /\ page[e] \in Sessions
  BY <1>1 DEF Idle, Sessions
<1>3. Tail(page[e].todo) \in Seq(Steps)
  BY <1>2
<1>4. [todo |-> Tail(page[e].todo), changed |-> page[e].changed, set |-> page[e].set] \in Sessions
  BY <1>2, <1>3 DEF Sessions
<1> QED
  BY <1>1, <1>4, AwayTyped DEF GoesOn

LEMMA SaysTyped ==
  ASSUME TypeOK, NEW s \in Files, Says(s)
  PROVE  file' \in Contents(saved') /\ saved' \subseteq Files
  BY DEF TypeOK, Says, Contents

LEMMA PageLoadTyped == ASSUME TypeOK PROVE load_config \in Files
<1>1. [Defaults EXCEPT !.users = Absent, !.events = Absent] \in Files
  BY DefaultsTyped DEF Files, Texts
<1>2. CASE Len(file) # 1
  BY <1>1, <1>2 DEF load_config
<1>3. CASE Len(file) = 1
  <2>1. Len(<<>>) = 0
    OBVIOUS
  <2>2. file \in Contents(saved) /\ file # <<>>
    BY <1>3, <2>1, Typed
  <2>3. PICK s \in saved : file \in {<<s>>, <<s, Rest>>}
    BY <2>2 DEF Contents
  <2>4. file[1] = s /\ s \in Files
    BY <2>3, Typed
  <2> QED
    BY <1>3, <2>4 DEF load_config
<1> QED
  BY <1>2, <1>3

LEMMA SpendTyped ==
  ASSUME spent \in Spent, NEW what \in {"saves", "installs", "stops"}, Spend(what)
  PROVE  spent' \in Spent
  BY DEF Spend, Spent

(* What the page works with once a user has entered something.             *)
LEMMA EnteredTyped ==
  ASSUME TypeOK, NEW e \in Editors, index(e)
  PROVE  page' \in [Editors -> Sessions]
<1>1. page \in [Editors -> Sessions] /\ load_config \in Files
  BY Typed, PageLoadTyped
<1>2. PICK entry \in Entries :
        page' = [page EXCEPT ![e] =
                  [todo |-> save_and_reload,
                   changed |-> entry[2] # load_config.password,
                   set |-> [load_config EXCEPT !.db = entry[1], !.password = entry[2]]]]
  BY DEF index
<1>3. entry[1] \in Dbs /\ entry[2] \in Passwords
  BY EntriesAssumption
<1>4. [load_config EXCEPT !.db = entry[1], !.password = entry[2]] \in Files
  BY <1>1, <1>3 DEF Files
<1>5. save_and_reload \in Seq(Steps)
  BY DEF save_and_reload, Steps
<1> DEFINE session == [todo |-> save_and_reload,
                       changed |-> entry[2] # load_config.password,
                       set |-> [load_config EXCEPT !.db = entry[1], !.password = entry[2]]]
<1>6. session \in Sessions
  BY <1>4, <1>5 DEF Sessions
<1>7. page' = [page EXCEPT ![e] = session]
  BY <1>2
<1> HIDE DEF session
<1> QED
  BY <1>1, <1>6, <1>7

LEMMA TypeInit == Init => TypeOK
<1> SUFFICES ASSUME Init PROVE TypeOK
  OBVIOUS
<1>1. file \in Contents(saved) /\ saved \subseteq Files /\ wanted \in Passwords
  BY FilesAssumption DEF Init, Contents, Files
<1>3. page \in [Editors -> Sessions]
  BY AwayTyped DEF Init
<1>4. cfg \in InForce /\ in_use \in InUse
  BY DefaultsTyped, OpenedTyped DEF Init
<1>5. spent \in Spent
  BY DEF Init, Spent
<1>6. /\ main \in {"off", "starting", "waiting", "reading"}
      /\ g_reload \in BOOLEAN /\ warned \in BOOLEAN
  BY DEF Init
<1> QED
  BY <1>1, <1>3, <1>4, <1>5, <1>6, Typed

(* What is open after a reload.                                            *)
LEMMA ReopenedTyped ==
  ASSUME TypeOK, reload
  PROVE  in_use' \in InUse
<1> DEFINE new == config_load(file, cfg)
           db == IF new.db = BadDb THEN in_use.db ELSE new.db
           port == IF new.port = cfg.port \/ net_init(new.port) = OutOfRange
                   THEN in_use.port ELSE net_init(new.port)
<1>1. /\ in_use \in InUse /\ new \in InForce
  BY Typed, LoadTyped
<1>2. db \in Dbs
  BY <1>1 DEF InUse, InForce
<1>3. port \in Ports \cup {OutOfRange}
  BY <1>1 DEF InUse, InForce, net_init
<1>4. in_use' = [in_use EXCEPT !.db = db, !.port = port]
  BY DEF reload
<1> HIDE DEF db, port
<1> QED
  BY <1>1, <1>2, <1>3, <1>4 DEF InUse

LEMMA TypeStep == TypeOK /\ [Next]_vars => TypeOK'
<1> SUFFICES ASSUME TypeOK, [Next]_vars PROVE TypeOK'
  OBVIOUS
<1> USE DEF acud
<1>1. /\ file \in Contents(saved) /\ saved \subseteq Files
      /\ page \in [Editors -> Sessions]
      /\ main \in {"off", "starting", "waiting", "reading"}
      /\ g_reload \in BOOLEAN /\ warned \in BOOLEAN /\ wanted \in Passwords
      /\ cfg \in InForce /\ in_use \in InUse /\ spent \in Spent
  BY Typed
<1>2. CASE start
  <2>1. cfg' \in InForce
    BY <1>1, <1>2, LoadTyped, DefaultsTyped DEF start
  <2>2. in_use' \in InUse
    BY <1>2, <2>1, OpenedTyped DEF start
  <2> QED
    BY <1>1, <1>2, <2>1, <2>2 DEF start, TypeOK, Contents, Sessions, Steps, InForce, InUse, Spent
<1>3. CASE write_pid
  BY <1>3 DEF write_pid, TypeOK
<1>4. CASE take_reload
  BY <1>4 DEF take_reload, TypeOK
<1>5. CASE reload
  <2>1. cfg' \in InForce
    BY <1>1, <1>5, LoadTyped, KeptFields DEF reload
  <2>2. in_use' \in InUse
    BY <1>5, ReopenedTyped
  <2> QED
    BY <1>1, <1>5, <2>1, <2>2 DEF reload, TypeOK, Contents, Sessions, Steps, InForce, InUse, Spent
<1>6. CASE Stops
  <2>1. spent' \in Spent
    BY <1>1, <1>6, SpendTyped DEF Stops
  <2>2. page' \in [Editors -> Sessions]
    BY <1>1, <1>6, AwayTyped DEF Stops
  <2> QED
    BY <1>1, <1>6, <2>1, <2>2 DEF Stops, TypeOK, Contents, Sessions, Steps, InForce, InUse, Spent
<1>7. CASE Installs
  <2>1. spent' \in Spent
    BY <1>1, <1>7, SpendTyped DEF Installs
  <2>2. PICK s \in NewFiles : Says(s) /\ wanted' = s.password
    BY <1>7 DEF Installs
  <2>3. s \in Files
    BY <2>2, FilesAssumption
  <2>4. file' \in Contents(saved') /\ saved' \subseteq Files /\ wanted' \in Passwords
    BY <2>2, <2>3, SaysTyped DEF Files
  <2> QED
    BY <1>1, <1>7, <2>1, <2>4 DEF Installs, TypeOK, Contents, Sessions, Steps, InForce, InUse, Spent
<1>8. ASSUME NEW e \in Editors, index(e) PROVE TypeOK'
  <2>1. spent' \in Spent
    BY <1>1, <1>8, SpendTyped DEF index
  <2>2. page' \in [Editors -> Sessions]
    BY <1>8, EnteredTyped
  <2> QED
    BY <1>1, <1>8, <2>1, <2>2 DEF index, TypeOK, Contents, Sessions, Steps, InForce, InUse, Spent
<1>9. ASSUME NEW e \in Editors, save_config_opens(e) PROVE TypeOK'
  <2>1. page' \in [Editors -> Sessions]
    BY <1>9, PageGoesOn DEF save_config_opens, Does
  <2> QED
    BY <1>1, <1>9, <2>1 DEF save_config_opens, TypeOK, Contents, Sessions, Steps, InForce, InUse, Spent
<1>10. ASSUME NEW e \in Editors, save_config_writes(e) PROVE TypeOK'
  <2>1. page' \in [Editors -> Sessions]
    BY <1>10, PageGoesOn DEF save_config_writes, Does
  <2>2. page[e].set \in Files
    BY <1>1, <1>10 DEF Sessions
  <2>3. file' \in Contents(saved') /\ saved' \subseteq Files
    <3>1. CASE Says(page[e].set)
      BY <2>2, <3>1, SaysTyped
    <3>2. CASE file' = <<page[e].set, Rest>> /\ saved' = saved \cup {page[e].set}
      BY <1>1, <2>2, <3>2 DEF Contents
    <3> QED BY <1>10, <3>1, <3>2 DEF save_config_writes
  <2> QED
    BY <1>1, <1>10, <2>1, <2>3
      DEF save_config_writes, TypeOK, Contents, Sessions, Steps, InForce, InUse, Spent
<1>11. ASSUME NEW e \in Editors, reload_daemon(e) PROVE TypeOK'
  <2>1. page' \in [Editors -> Sessions]
    BY <1>11, PageGoesOn DEF reload_daemon, Does
  <2>2. page[e].set \in Files
    BY <1>1, <1>11 DEF Sessions
  <2>3. wanted' \in Passwords
    BY <1>1, <1>11, <2>2 DEF reload_daemon, Files
  <2>4. g_reload' \in BOOLEAN /\ warned' \in BOOLEAN
    BY <1>1, <1>11 DEF reload_daemon
  <2> QED
    BY <1>1, <1>11, <2>1, <2>3, <2>4
      DEF reload_daemon, TypeOK, Contents, Sessions, Steps, InForce, InUse, Spent
<1>12. CASE UNCHANGED vars
  BY <1>12 DEF vars, TypeOK
<1> QED
  BY <1>2, <1>3, <1>4, <1>5, <1>6, <1>7, <1>8, <1>9, <1>10, <1>11, <1>12 DEF Next

(* Whatever the page, a technician and power cuts do, every part of the    *)
(* state is what the program takes it for: above all, what is in force is  *)
(* a value of config_load, never a field that is missing (config.c:185).   *)
THEOREM TypeCorrect == Spec => []TypeOK
<1> QED
  BY TypeInit, TypeStep, PTL DEF Spec

-----------------------------------------------------------------------------
(* What the settings say is open.                                          *)

(* It also is while the pid file is not written yet.                       *)
OpenAsSet ==
  main # "off" => in_use.db = cfg.db /\ in_use.port \in {cfg.port, net_init(cfg.port)}

LEMMA OpenAsSetInit == Init => OpenAsSet
  BY DEF Init, OpenAsSet

LEMMA OpenAsSetStep == TypeOK /\ OpenAsSet /\ [Next]_vars => OpenAsSet'
<1> SUFFICES ASSUME TypeOK, OpenAsSet, [Next]_vars PROVE OpenAsSet'
  OBVIOUS
<1>1. CASE start
  <2>1. in_use'.db = cfg'.db /\ in_use'.port = net_init(cfg'.port)
    BY <1>1 DEF start, Opened
  <2> QED
    BY <2>1 DEF OpenAsSet
<1>2. CASE reload
  <2> DEFINE new == config_load(file, cfg)
             keeps == new.port = cfg.port \/ net_init(new.port) = OutOfRange
  <2>1. cfg \in InForce /\ in_use \in InUse /\ new \in InForce
    BY Typed, LoadTyped
  <2>2. /\ cfg'.db = IF new.db = BadDb THEN cfg.db ELSE new.db
        /\ cfg'.port = IF new.port # cfg.port /\ net_init(new.port) = OutOfRange
                       THEN cfg.port ELSE new.port
    BY <1>2, <2>1, KeptFields DEF reload
  <2>3. /\ in_use'.db = IF new.db = BadDb THEN in_use.db ELSE new.db
        /\ in_use'.port = IF keeps THEN in_use.port ELSE net_init(new.port)
    BY <1>2, <2>1 DEF reload, InUse
  <2>4. in_use.db = cfg.db /\ in_use.port \in {cfg.port, net_init(cfg.port)}
    BY <1>2 DEF reload, OpenAsSet
  <2> HIDE DEF new
  <2>5. in_use'.db = cfg'.db
    BY <2>2, <2>3, <2>4
  <2>6. in_use'.port \in {cfg'.port, net_init(cfg'.port)}
    <3>1. CASE keeps
      <4>1. cfg'.port = cfg.port /\ in_use'.port = in_use.port
        BY <2>2, <2>3, <3>1
      <4> QED
        BY <2>4, <4>1
    <3>2. CASE ~keeps
      BY <2>2, <2>3, <3>2
    <3> QED
      BY <3>1, <3>2
  <2> QED
    BY <2>5, <2>6 DEF OpenAsSet
<1>3. CASE write_pid \/ take_reload
  BY <1>3 DEF write_pid, take_reload, OpenAsSet
<1>4. CASE Stops
  BY <1>4 DEF Stops, OpenAsSet
<1>5. CASE Installs
  BY <1>5 DEF Installs, OpenAsSet
<1>6. ASSUME NEW e \in Editors,
             index(e) \/ save_config_opens(e) \/ save_config_writes(e) \/ reload_daemon(e)
      PROVE  OpenAsSet'
  BY <1>6 DEF index, save_config_opens, save_config_writes, reload_daemon, acud, OpenAsSet
<1>7. CASE UNCHANGED vars
  BY <1>7 DEF vars, acud, OpenAsSet
<1> QED
  BY <1>1, <1>2, <1>3, <1>4, <1>5, <1>6, <1>7 DEF Next

(* After any reloads, failed or not, the database that is open is the one  *)
(* cfg.db_path names and the port the one cfg.tcp_port names, or one that  *)
(* could not be opened at the start (main.c:672, main.c:691).              *)
THEOREM ReloadsKeepInUse == Spec => []CfgIsInUse
<1>1. OpenAsSet => CfgIsInUse
  BY DEF OpenAsSet, CfgIsInUse
<1> QED
  BY <1>1, OpenAsSetInit, OpenAsSetStep, TypeCorrect, PTL DEF Spec

-----------------------------------------------------------------------------
(* The settings are those of one file.                                     *)

(* The settings c are what the file s gives, but for what fails to open.   *)
From(c, s) ==
  /\ c.password = s.password
  /\ c.db = s.db \/ s.db = BadDb
  /\ c.port = s.port \/ s.port = BadPort
  /\ c.events = Given(s.events)

LEMMA TakenFrom ==
  ASSUME NEW s \in Files, Valid(s), NEW old \in InForce
  PROVE  From(Taken(s), s) /\ From(Kept(Taken(s), old), s)
<1>1. /\ Taken(s) \in InForce
      /\ Taken(s).db = s.db /\ Taken(s).port = s.port /\ Taken(s).password = s.password
      /\ Taken(s).events = Given(s.events)
  BY LoadFields
<1>2. s.port # OutOfRange
  BY DEF Valid
<1>3. net_init(s.port) = OutOfRange => s.port = BadPort
  BY <1>2 DEF net_init
<1> QED
  BY <1>1, <1>3, KeptFields DEF From

LEMMA OneFileInit == Init => CfgIsOneFile
  BY DEF Init, CfgIsOneFile

LEMMA OneFileStep == TypeOK /\ CfgIsOneFile /\ [Next]_vars => CfgIsOneFile'
<1> SUFFICES ASSUME TypeOK, CfgIsOneFile, [Next]_vars PROVE CfgIsOneFile'
  OBVIOUS
<1> DEFINE Sources == {f \in saved : Valid(f)} \cup {Defaults}
<1>1. main # "off" => \E s \in Sources : From(cfg, s)
  BY DEF CfgIsOneFile, From
<1>2. /\ file \in Contents(saved) /\ saved \in SUBSET Files
      /\ cfg \in InForce /\ Defaults \in InForce
  BY Typed, DefaultsTyped
<1>3. saved \subseteq saved'
  BY DEF Next, start, write_pid, take_reload, reload, Stops, Installs, index, save_config_opens,
         save_config_writes, reload_daemon, Says, vars
<1>4. Sources \subseteq Sources'
  BY <1>3 DEF Valid
<1>5. ASSUME NEW s \in Sources, From(cfg', s) PROVE CfgIsOneFile'
  BY <1>4, <1>5 DEF CfgIsOneFile, From
<1> HIDE DEF Sources
<1>6. CASE start
  <2>1. CASE cfg' = Defaults
    <3>1. From(Defaults, Defaults)
      BY AbsentAssumption DEF From, Defaults, Given
    <3> QED
      BY <1>5, <2>1, <3>1 DEF Sources
  <2>2. CASE \E s \in saved : Valid(s) /\ cfg' = Taken(s)
    <3>1. PICK s \in saved : Valid(s) /\ cfg' = Taken(s)
      BY <2>2
    <3>2. From(cfg', s)
      BY <1>2, <3>1, TakenFrom
    <3> QED
      BY <1>5, <3>1, <3>2 DEF Sources
  <2> QED
    BY <1>2, <1>6, <2>1, <2>2, LoadCases DEF start
<1>7. CASE reload
  <2>1. CASE config_load(file, cfg) = cfg
    <3>1. PICK s \in Sources : From(cfg, s)
      BY <1>1, <1>7 DEF reload
    <3>2. cfg' = Kept(cfg, cfg)
      BY <1>7, <2>1 DEF reload
    <3>3. /\ cfg'.db = cfg.db /\ cfg'.port = cfg.port
          /\ cfg'.password = cfg.password /\ cfg'.events = cfg.events
      BY <1>2, <3>2, KeptFields
    <3>4. From(cfg', s)
      BY <3>1, <3>3 DEF From
    <3> QED
      BY <1>5, <3>4
  <2>2. CASE \E s \in saved : Valid(s) /\ config_load(file, cfg) = Taken(s)
    <3>1. PICK s \in saved : Valid(s) /\ config_load(file, cfg) = Taken(s)
      BY <2>2
    <3>2. From(cfg', s)
      BY <1>2, <1>7, <3>1, TakenFrom DEF reload
    <3> QED
      BY <1>5, <3>1, <3>2 DEF Sources
  <2> QED
    BY <1>2, <2>1, <2>2, LoadCases
<1>8. ASSUME cfg' = cfg, main # "off" PROVE CfgIsOneFile'
  BY <1>1, <1>5, <1>8
<1>9. ASSUME main' = "off" PROVE CfgIsOneFile'
  BY <1>9 DEF CfgIsOneFile
<1>10. CASE write_pid \/ take_reload
  BY <1>8, <1>10 DEF write_pid, take_reload
<1>11. CASE Stops
  BY <1>9, <1>11 DEF Stops
<1>12. ASSUME UNCHANGED <<main, cfg>> PROVE CfgIsOneFile'
  BY <1>8, <1>9, <1>12
<1>13. CASE Installs
  BY <1>12, <1>13 DEF Installs
<1>14. ASSUME NEW e \in Editors,
              index(e) \/ save_config_opens(e) \/ save_config_writes(e) \/ reload_daemon(e)
       PROVE  CfgIsOneFile'
  BY <1>12, <1>14 DEF index, save_config_opens, save_config_writes, reload_daemon, acud
<1>15. CASE UNCHANGED vars
  BY <1>12, <1>15 DEF vars, acud
<1> QED
  BY <1>6, <1>7, <1>10, <1>11, <1>13, <1>14, <1>15 DEF Next

(* However the page's writes, the signals, the stops and the starts fall   *)
(* together, config_load never leaves parts of two files, or of one that   *)
(* it refused, in force (config.c:185, main.c:657).                        *)
THEOREM SettingsAreOneFile == Spec => []CfgIsOneFile
<1> QED
  BY OneFileInit, OneFileStep, TypeCorrect, PTL DEF Spec
=============================================================================
