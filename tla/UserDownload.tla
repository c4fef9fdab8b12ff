----------------------------- MODULE UserDownload -----------------------------
(***************************************************************************)
(* DM downloads the user list into acud, and changes single users: the     *)
(* receiver of the binary transfer (acud/userbin.c), the commands for one  *)
(* user (acud/usercmd.c), the handlers and the connection of acud/net.c    *)
(* that drive them, and the store they write to (UserStore).  A list is    *)
(* sent as a stream of units cut into numbered chunks, whose bounds are    *)
(* not those of its records; the answer to a chunk may be lost; the        *)
(* connection, the process and the power may fail between any two steps,   *)
(* and the process also inside a step that commits more than once.         *)
(***************************************************************************)
EXTENDS UserStore, FiniteSets

CONSTANTS
  Lists,        \* what DM may download: sequences of [user, card, good]
  RecLen,       \* units of a record (128 bytes in the code)
  ChunkLen,     \* units of a chunk; no multiple of RecLen
  IndexMod,     \* chunk numbers wrap here (2^16 in the code)
  FirstIndex,   \* the number DM gives the first chunk
  MaxFaults,    \* bound on statements SQLite refuses and power cuts, together
  MaxCommands,  \* bound on changes of single users
  MaxPowerCuts  \* bound on power cuts

ASSUME StreamAssumption ==
  /\ RecLen \in Nat \ {0} /\ ChunkLen \in Nat \ {0}
  /\ IndexMod \in Nat \ {0, 1, 2} /\ FirstIndex \in 0 .. IndexMod - 1
ASSUME ListsAssumption ==
  /\ Lists \subseteq Seq([user : Users, card : Cards \cup {NoCard}, good : BOOLEAN])
  /\ <<>> \notin Lists
ASSUME BoundsAssumption == {MaxFaults, MaxCommands, MaxPowerCuts} \subseteq Nat

VARIABLES
  ub,     \* AcuUserBin
  conn,   \* whether DM is connected
  dm,     \* DM: what it is sending, and the chunk it is at
  taken,  \* chunks acud has taken of the transfer on this connection
  told,   \* the list whose complete registration was the last thing reported
  spent   \* faults, commands and power cuts so far

vars == <<store, ub, conn, dm, taken, told, spent>>

Idle == [active |-> FALSE, total_size |-> 0, received |-> 0, rec |-> <<>>,
         have_index |-> FALSE, last_index |-> 0, parsed_ok |-> 0, parsed_bad |-> 0]
AtRest == [phase |-> "idle", list |-> <<>>, k |-> 0]

Faults == spent.faults + spent.cuts
Spend(what, n) == spent' = [spent EXCEPT ![what] = @ + n]
Undisturbed == [at |-> 0, op |-> "user", f |-> "ok"]

-----------------------------------------------------------------------------
(* The stream: unit n of a list is the at-th unit of its record i.         *)

Unit(n) == [i |-> (n - 1) \div RecLen + 1, at |-> ((n - 1) % RecLen) + 1]
Size(l) == RecLen * Len(l)
Chunk(l, k) ==
  LET from == (k - 1) * ChunkLen
      to   == IF from + ChunkLen < Size(l) THEN from + ChunkLen ELSE Size(l)
  IN  [n \in 1 .. to - from |-> Unit(from + n)]
Chunks(l)   == (Size(l) + ChunkLen - 1) \div ChunkLen
IndexOf(k)  == (FirstIndex + k - 1) % IndexMod

(* The checksum of a record holds when its units are those of one record,  *)
(* in order, and DM sent it right; an empty slot of the list counts as bad.*)
record_crc_ok(l, rec) ==
  /\ \A p \in DOMAIN rec : rec[p] = [i |-> rec[1].i, at |-> p]
  /\ l[rec[1].i].good

-----------------------------------------------------------------------------
(* userbin.c.  d is the receiver with its store; fault says which record   *)
(* and which of its statements SQLite refuses.                             *)

(* Mutant: what was received is not dropped with the tables.               *)
userbin_abort_forgets(s, b) ==
  [store |-> IF b.active THEN users_load_abort(s) ELSE s, ub |-> b]

userbin_abort(s, b) ==
  IF b.active
  THEN [store |-> users_load_abort(s),
        ub    |-> [b EXCEPT !.active = FALSE, !.rec = <<>>, !.received = 0, !.have_index = FALSE]]
  ELSE [store |-> s, ub |-> b]

store_record(l, s, rec, fault) ==
  LET r   == l[rec[1].i]
      f(op) == IF fault.at = rec[1].i /\ fault.op = op THEN fault.f ELSE "ok"
      put == users_load_put(s, r.user, f("user"))
  IN  IF ~record_crc_ok(l, rec) THEN Failed(s)
      ELSE IF ~put.ok \/ r.card = NoCard THEN put
      ELSE users_load_put_card(put.store, r.card, r.user, f("card"))

(* One more unit of the stream; a complete record goes into the store.     *)
Received(l, d, unit, fault) ==
  LET rec == Append(d.ub.rec, unit)
      s   == store_record(l, d.store, rec, fault)
  IN  IF Len(rec) < RecLen THEN [d EXCEPT !.ub.rec = rec]
      ELSE [store |-> s.store,
            ub |-> [d.ub EXCEPT !.rec = <<>>,
                                !.parsed_ok  = IF s.ok THEN @ + 1 ELSE @,
                                !.parsed_bad = IF s.ok THEN @ ELSE @ + 1]]

finish(d, f) ==
  LET c == users_load_commit(d.store, f)
  IN  [store |-> c.store,
       ub |-> [d.ub EXCEPT !.active = FALSE, !.rec = <<>>,
                           !.parsed_ok = IF c.ok THEN @ ELSE 0]]

(* Mutant: a chunk that comes again is taken again.                        *)
Expected_any(b, index) == index \in {b.last_index, (b.last_index + 1) % IndexMod}

Expected(b, index) == index = (b.last_index + 1) % IndexMod

(* The receiver and its store after the first n units of a chunk.          *)
Units(l, s, b, data, fault) ==
  LET d[n \in 0 .. Len(data)] ==
        IF n = 0 THEN [store |-> s, ub |-> b] ELSE Received(l, d[n - 1], data[n], fault)
  IN  d

Taken(l, s, b, index, data, fault) ==
  [Units(l, s, b, data, fault)[Len(data)] EXCEPT
     !.ub.received = @ + Len(data), !.ub.last_index = index, !.ub.have_index = TRUE]

userbin_continue(l, s, b, index, data, fault, f) ==
  LET d == Taken(l, s, b, index, data, fault)
      e == finish(d, f)
      same == [store |-> s, ub |-> b]
  IN  CASE ~b.active -> [d |-> same, st |-> "failed"]
        [] b.active /\ b.have_index /\ ~Expected(b, index) ->
             [d |-> same, st |-> IF index = b.last_index THEN "ok" ELSE "failed"]
        [] b.active /\ (b.have_index => Expected(b, index)) ->
             IF b.received + Len(data) > b.total_size THEN [d |-> same, st |-> "failed"]
             ELSE IF d.ub.received < b.total_size     THEN [d |-> d, st |-> "ok"]
             ELSE [d |-> e, st |-> "complete"]

(* Mutant: records that were lost are not looked at.                       *)
userbin_result_event_kind(b) == IF b.parsed_ok = 0 THEN "fail" ELSE "success"

userbin_result_event(b) ==
  IF b.parsed_ok = 0 THEN "fail" ELSE IF b.parsed_bad > 0 THEN "partial" ELSE "success"

(* valid: a record type that is known and a size that is whole records.    *)
userbin_start(s, b, size, valid, f) ==
  LET a == userbin_abort(s, b)
      l == users_load_begin(a.store, f)
  IN  IF ~valid THEN [store |-> a.store, ub |-> a.ub, ok |-> FALSE]
      ELSE IF ~l.ok THEN [store |-> l.store, ub |-> a.ub, ok |-> FALSE]
      ELSE [store |-> l.store, ub |-> [Idle EXCEPT !.active = TRUE, !.total_size = size],
            ok |-> TRUE]

-----------------------------------------------------------------------------
(* The handlers of net.c.  One request is handled at a time; whether DM    *)
(* reads the answer is the network's choice.                               *)

Init ==
  /\ StoreInit
  /\ ub = Idle /\ conn = FALSE /\ dm = AtRest
  /\ taken = 0 /\ told = <<>>
  /\ spent = [faults |-> 0, commands |-> 0, cuts |-> 0]

handle_userbin_start(l, valid, f, answered) ==
  LET r == userbin_start(store, ub, Size(l), valid, f)
  IN  /\ conn /\ dm.phase = "idle"
      /\ f # "ok" => Faults < MaxFaults /\ valid
      /\ store' = r.store /\ ub' = r.ub
      /\ dm' = [phase |-> IF r.ok /\ answered THEN "sending" ELSE "idle", list |-> l, k |-> 1]
      /\ taken' = 0
      /\ Spend("faults", IF f = "ok" THEN 0 ELSE 1)
      /\ UNCHANGED <<conn, told>>

(* One statement about one of the records that end in chunk k is refused.  *)
FaultsIn(l, k) ==
  [at : {Chunk(l, k)[p].i : p \in {q \in DOMAIN Chunk(l, k) : Chunk(l, k)[q].at = RecLen}},
   op : {"user", "card"}, f : {"refused", "rolledback", "commit", "begin"}]

(* DM sends chunk k: the one it is at, or one too far.                     *)
handle_userbin_continue(k, fault, f, answered) ==
  LET l == dm.list
      r == userbin_continue(l, store, ub, IndexOf(k), Chunk(l, k), fault, f)
      event == userbin_result_event(r.d.ub)
  IN  /\ conn /\ dm.phase = "sending"
      /\ store' = r.d.store /\ ub' = r.d.ub
      /\ taken' = IF r.d.ub = ub THEN taken ELSE taken + 1
      /\ told' = IF r.st # "complete" THEN told ELSE IF event = "success" THEN l ELSE <<>>
      /\ dm' = IF ~answered \/ r.st = "failed" \/ k # dm.k THEN dm
               ELSE IF k = Chunks(l) THEN [dm EXCEPT !.phase = "idle"] ELSE [dm EXCEPT !.k = @ + 1]
      /\ Spend("faults", IF fault = Undisturbed /\ f = "ok" THEN 0 ELSE 1)
      /\ UNCHANGED conn

Continue ==
  \/ \E answered \in BOOLEAN : handle_userbin_continue(dm.k, Undisturbed, "ok", answered)
  \/ /\ dm.k \in 2 .. Chunks(dm.list) - 1
     /\ handle_userbin_continue(dm.k + 1, Undisturbed, "ok", TRUE)
  \/ /\ Faults < MaxFaults /\ dm.phase = "sending"
     /\ \E answered \in BOOLEAN :
          \/ \E fault \in FaultsIn(dm.list, dm.k) :
               handle_userbin_continue(dm.k, fault, "ok", answered)
          \/ /\ dm.k = Chunks(dm.list)
             /\ \E f \in {"commit", "swap", "prepare"} :
                  handle_userbin_continue(dm.k, Undisturbed, f, answered)

dm_give_up ==
  /\ dm.phase = "sending"
  /\ dm' = [dm EXCEPT !.phase = "idle"]
  /\ UNCHANGED <<store, ub, conn, taken, told, spent>>

(* usercmd.c: the user, and his card when one came along.                  *)
usercmd_set(s, u, c, f, g) ==
  LET put == users_put(s, u, f)
  IN  IF put.ok /\ c # NoCard THEN users_put_card(put.store, c, u, g) ELSE put

usercmd_delete(s, u, f, g) == users_delete(s, u, f, g)

handle_usercmd_request(f, g, done) ==
  LET refused == Cardinality({i \in {1, 2} : <<f, g>>[i] # "ok"})
  IN  /\ conn /\ spent.commands < MaxCommands /\ Faults + refused <= MaxFaults
      /\ store' = done.store /\ told' = <<>>
      /\ spent' = [spent EXCEPT !.commands = @ + 1, !.faults = @ + refused]
      /\ UNCHANGED <<ub, conn, dm, taken>>

Command ==
  \E f, g \in Outcomes, u \in Users :
    \/ \E c \in Cards \cup {NoCard} :
         handle_usercmd_request(f, g, usercmd_set(store, u, c, f, g))
    \/ handle_usercmd_request(f, g, usercmd_delete(store, u, f, g))

-----------------------------------------------------------------------------
(* The connection.                                                         *)

Dropped ==
  LET a == userbin_abort(store, ub)
  IN  store' = a.store /\ ub' = a.ub /\ taken' = 0

net_drop_client == conn /\ Dropped /\ conn' = FALSE /\ UNCHANGED <<dm, told, spent>>

(* A new connection replaces the one there was.                            *)
net_on_listen_ready ==
  /\ IF conn THEN Dropped ELSE taken' = 0 /\ UNCHANGED <<store, ub>>
  /\ conn' = TRUE
  /\ UNCHANGED <<dm, told, spent>>

(* SIGHUP with another port: net_shutdown closes the connection, and only  *)
(* net_drop_client would have dropped the transfer.                        *)
reload_port ==
  /\ conn /\ conn' = FALSE /\ taken' = 0
  /\ UNCHANGED <<store, ub, dm, told, spent>>

-----------------------------------------------------------------------------
(* The end of the process, and its start on what is left of the file.      *)

Restart(file, safe) ==
  /\ store' = users_open(file, safe)
  /\ ub' = Idle /\ conn' = FALSE /\ taken' = 0
  /\ UNCHANGED dm

Crash == Restart(store.file, store.safe) /\ UNCHANGED <<told, spent>>

(* Between the two statements of a change of one user.                     *)
CrashInCommand ==
  /\ conn /\ spent.commands < MaxCommands /\ Spend("commands", 1) /\ told' = <<>>
  /\ \E u \in Users :
       \/ Restart(users_put(store, u, "ok").store.file, store.safe)
       \/ Restart(CardsDeleted(store, u, "ok").file, store.safe)

(* What acud makes of chunk k of the list being sent.                      *)
Answered(k) ==
  userbin_continue(dm.list, store, ub, IndexOf(k), Chunk(dm.list, k), Undisturbed, "ok")

(* After the exchange of the tables, before its event and its answer.      *)
CrashInFinish ==
  LET r == Answered(dm.k)
  IN  /\ conn /\ dm.phase = "sending" /\ r.st = "complete"
      /\ Restart(r.d.store.file, store.safe)
      /\ told' = <<>> /\ UNCHANGED spent

PowerCut ==
  /\ spent.cuts < MaxPowerCuts /\ Faults < MaxFaults /\ Spend("cuts", 1)
  /\ \/ Restart(store.file, store.file)
     \/ Restart(store.safe, store.safe)
  /\ UNCHANGED told

(* SQLite moves what is committed from the WAL into the database (looked   *)
(* at only while a power cut is to come).                                  *)
Checkpoint ==
  /\ spent.cuts < MaxPowerCuts /\ Faults < MaxFaults
  /\ store' = [store EXCEPT !.safe = store.file]
  /\ UNCHANGED <<ub, conn, dm, taken, told, spent>>

Next ==
  \/ \E l \in Lists, valid, answered \in BOOLEAN, f \in {"ok", "create", "begin"} :
       handle_userbin_start(l, valid, f, answered)
  \/ Continue \/ dm_give_up \/ Command
  \/ net_drop_client \/ net_on_listen_ready \/ reload_port
  \/ Crash \/ CrashInCommand \/ CrashInFinish \/ PowerCut \/ Checkpoint

Spec == Init /\ [][Next]_vars

-----------------------------------------------------------------------------
(* Properties.                                                             *)

(* Values keep their kinds and the counters their limits: no more units    *)
(* are taken than were announced (the size check of userbin_continue), and *)
(* an idle receiver holds no piece of a record.                            *)
TypeOK ==
  /\ {store.db, store.file, store.safe} \subseteq Tables
  /\ {store.txn, store.in_txn, store.loading, store.prepared} \subseteq BOOLEAN
  /\ store.load_rows \in Nat
  /\ ub.active \in BOOLEAN /\ ub.have_index \in BOOLEAN
  /\ ub.last_index \in 0 .. IndexMod - 1
  /\ ub.received \in 0 .. ub.total_size /\ Len(ub.rec) < RecLen
  /\ ub.parsed_ok \in Nat /\ ub.parsed_bad \in Nat
  /\ ~ub.active => ub.rec = <<>>
  /\ conn \in BOOLEAN /\ dm.phase \in {"idle", "sending"} /\ dm.list \in Lists \cup {<<>>}
  /\ taken \in 0 .. Chunks(dm.list) /\ told \in Lists \cup {<<>>}

(* The receiver and the store never disagree on whether a list is under    *)
(* way, whatever failed on the way (userbin.c and users.c each keep a flag *)
(* of their own), and no batch outlives its download: a change of one user *)
(* after it would otherwise never be committed.                            *)
TransferOwnsLoad ==
  /\ ub.active <=> store.loading
  /\ store.txn => store.in_txn
  /\ store.in_txn => store.loading
  /\ ~store.txn => store.db = store.file

(* Every record whose last unit has come was taken exactly once, whatever  *)
(* chunks came again or too early and wherever the chunk numbers wrapped;  *)
(* only what DM sent broken or SQLite refused is bad.  While nothing else  *)
(* is bad the tables being loaded hold just the good records, unless       *)
(* SQLite has rolled the batch back under the change of a single user,     *)
(* which the next commit finds out (userbin_continue, store_record).       *)
LoadMatchesStream ==
  LET whole == ub.received \div RecLen
      good  == {i \in 1 .. whole : dm.list[i].good}
      last(c) == {i \in good : dm.list[i].card = c /\ \A j \in good : dm.list[j].card = c => j <= i}
  IN  ub.active =>
        /\ ub.parsed_ok + ub.parsed_bad = whole
        /\ ub.rec = [p \in 1 .. ub.received % RecLen |-> Unit(whole * RecLen + p)]
        /\ spent.faults = 0 => ub.parsed_bad = whole - Cardinality(good)
        /\ ub.parsed_bad = whole - Cardinality(good) /\ (store.in_txn => store.txn) =>
             /\ store.db.users_load = {dm.list[i].user : i \in good}
             /\ \A c \in Cards : IF last(c) = {} THEN store.db.cards_load[c] = NoUser
                                 ELSE \A i \in last(c) : store.db.cards_load[c] = dm.list[i].user

(* The event "all users registered" is the only mark DM has that a list is *)
(* in the device (net.c, where handle_userbin_request stores it).  From    *)
(* then on cards are judged by exactly that list, through downloads broken *)
(* off, refused statements and restarts, until a user is changed, another  *)
(* download comes to its end or the power fails.                           *)
R == INSTANCE Roster WITH seen <- View(store.db), kept <- View(store.file),
                          synced <- View(store.safe)

ReportedListInUse ==
  told # <<>> /\ spent.cuts = 0 => View(store.db) = R!Listed(told, DOMAIN told, DOMAIN told)

(* The store of users.c implements Roster: a download replaces the list at *)
(* once or not at all, and no failure leaves half a list (users.h).        *)
ImplementsRoster == R!RosterSpec

-----------------------------------------------------------------------------
(* What the documents say of this code, and it does not do.                *)

(* net.c on the event, users.c on the durability: the list that was        *)
(* reported is in use, whatever a power cut took.                          *)
ReportOutlivesPower ==
  told # <<>> => View(store.db) = R!Listed(told, DOMAIN told, DOMAIN told)

(* users.h on users_lookup_card_by_user: a user is taken to have one card. *)
(* Giving a user another card leaves the old one valid.                    *)
OneCardPerUser ==
  \A u \in Users : Cardinality({c \in Cards : store.db.cards[c] = u}) <= 1

(* userbin_continue: a chunk already processed that comes again because    *)
(* the answer was lost is answered with success, so that DM goes on.       *)
HandledChunkSucceeds ==
  conn /\ dm.phase = "sending" /\ dm.k <= taken => Answered(dm.k).st # "failed"

(* net_drop_client: dropping a download leaves the list as it is.          *)
DropKeepsRoster == [][net_drop_client => View(store'.db) = View(store.db)]_vars

(* userbin.h on userbin_abort: no transfer outlives its connection.        *)
LoadNeedsConnection == ub.active => conn

(* README.md on chunk numbers: one that skips drops what was received.     *)
GapDropsTransfer ==
  dm.phase = "sending" /\ dm.k \in 2 .. Chunks(dm.list) - 1 /\ dm.k > taken
    => ~Answered(dm.k + 1).d.ub.active

(* finish: when the list could not be registered the old one is kept, and  *)
(* the event says "all failed".  A list of which no record is good is put  *)
(* in place, empty, under the same event.                                  *)
FailKeepsRoster ==
  LET r == Answered(dm.k)
  IN  conn /\ dm.phase = "sending" /\ r.st = "complete" /\ userbin_result_event(r.d.ub) = "fail"
        => View(r.d.store.db) = View(store.db)

=============================================================================
