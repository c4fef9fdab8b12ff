# acud in TLA+

`acud` (`src/acud`, C) is the daemon of an access control unit. It reads cards from a
reader, decides who may pass, drives relays, keeps a log of events and a list of users in
SQLite, and serves an upper system called DM over TCP (the IDTi protocol). It is one
process with one thread: an event loop calls back the part whose descriptor is ready.

Concurrency therefore does not come from threads. It comes from the peer, which sends
requests cut, joined, late and again; from the process, which may be stopped, reloaded or
lose its power between two statements; from SQLite, which may refuse a statement; and from
callbacks that change what the rest of a round of the loop works with. The modules model
those choices and leave the layout of packets and the columns of tables out.

## 1. The system

| component | source | state | operations | hard part |
|---|---|---|---|---|
| event store | `events.c` | table of events, position of what DM has, memory ring when there is no file | append (repair, insert, trim), fetch, ack, rewind, repair, mark all | arithmetic on the numbers of the rows, a statement that fails |
| event reporting | `net.c` | connection, send buffer, first number of the last batch | history poll with ReRequestEvent, reset and index change, flush | answers lost between a move of the position and DM |
| user store | `users.c` | tables in use, tables being loaded, an open batch | put, delete, bulk load, exchange of the tables, seed | one connection for single changes and the load; power cuts |
| user download | `userbin.c`, `usercmd.c`, `net.c` | receiver of a chunked byte stream | start, continue, abort, finish; set and delete one user | chunks again, too early or never; two flags for one transfer |
| fetching of the list | `userbin.c`, `users.c`, `net.c` | number and last user of the chunk sent last | start, chunk | the list changes while it is fetched; chunks asked for again |
| inputs and relays | `main.c`, `hal_mock.c`, `devset.c`, `net.c` | levels last reported, card queue, output settings, force open mode | card callback, setting write, force open command, reload | outputs that follow settings which change under them |
| event loop | `loop.c`, `main.c` | registered descriptors, snapshot of a round, signal flags | add, remove, wait; reload; shutdown | descriptors closed and reused in a round; signals |
| receive buffer | `net.c`, `protocol.c` | bytes received and not handled | recv, parse loop, drop in a handler | frames cut and joined; the handler that drops its own connection |
| access decision | `access.c`, `db.c` | none of its own | judge a card: user, period of validity, slots of the week | queries that fail; two readings of a clock that goes on |
| address of the device | `discover.c`, `deploy/acu-netcfg` and its units, `webui/app.py` | request file, profile, backup, mark, timer | SETT, apply, confirm, roll back (user, timer, boot) | processes that interleave; power cuts between commands |
| settings | `config.c`, `main.c`, `webui/app.py` | `config.json`, `AcuConfig`, what is open | save, signal, load at start, reload | a file read while it is written; parts that cannot be opened |
| others | `log.c`, `tools`, `rru` | | | pure output, tests or documents: not modelled |

How they interact: `main` owns everything and hands pointers around. `net` calls the event
store, the user store, the receiver and the settings table from its handlers, and calls back
into `main` when an output setting or the force open mode changes. `main` appends events
through `net_push_event`. The loop calls `net`, the HAL's input callback, discovery and the
housekeeping timer. SIGHUP makes `main` read `config.json` again between two rounds, which
may replace the settings database or the whole of `net`.

What makes each part correct, in one sentence:

- *event store*: whatever failed before and in whatever order, the table has no hole, so that the
  counts told to DM are exact when the queries are answered; trimming keeps the newest `Capacity`
  events, with one exception (a query that fails once, section 2); and a new event is not taken
  for one already sent;
- *event reporting*: an event that counts as sent was read by DM, or will be sent again;
- *user store and download*: cards are judged by a whole list, the one that was reported,
  and a download replaces it at once or not at all;
- *inputs*: what was reported last is what the inputs are, DM knows it unless the store refused the
  event, cards are judged in order, and what an output does follows from the levels and the
  settings that can be read;
- *loop*: what is watched is what is open, and nobody waits for ever;
- *receive buffer*: the frames handled are the frames sent;
- *fetching*: whoever is in the list all the while is fetched, once and in order;
- *access decision*: the door opens only to whom the groups allow, and an event says why not;
- *address*: an address nobody confirmed is undone, and the device does not stay where
  nobody reaches it;
- *settings*: what is in force is one file as it was saved, what is said to be in force is
  open, and what is saved counts in the end.

## 2. Modules

`EventStore` stands alone. `EventReport` EXTENDS it and adds the session and DM, so that the
store's operations are those of the store's own module. `UserStore` gives the operations of `users.c` as functions from a store
and the outcome of each statement to a store; `UserDownload` EXTENDS it with everything that
calls them. `Roster` is the abstract specification of the list of users, and `UserDownload`
implements it under the mapping `seen <- View(store.db)`, `kept <- View(store.file)`,
`synced <- View(store.safe)`. `Inputs`, `Loop` and `Receive` are independent of each other:
`Loop` is where the callbacks come from, and it keeps of a callback what it does to
descriptors; `Receive` is the callback of a client's socket at a finer grain, and keeps of
a handler that it may drop the connection. `Config`, `NetConfig`, `Access` and `UserUpload`
stand alone as well: `Config` takes of the loop that a signal is served (`Loop!ReloadServed`),
`Access` is the judgement that `Inputs` leaves open, and `UserUpload` reads the tables that
`UserStore` writes, of which it keeps how many rows each user has. Each `<module>Proofs`
extends its module with theorems; `EventReportProofs` has those of `EventStore` too, which
`EventReport` extends, and `UserProofs` those of `Access` and `UserUpload`, the two that read the
rows of users. The `MC*` modules give constants for TLC that a
configuration cannot, `MCInputs` a choice of the settings at first; `EventReport`, `NetConfig` and
`Receive` need none.

Names are those of the code. `map` in `PROJECT.json` gives, for every definition, the lines
it stands for. Definitions whose name continues that of another after an underscore and whose comment begins with
`Mutant` are wrong on purpose: substituting one for the definition they
name shows that a property can fail.

### EventStore (`events.c`)

`rows` is the table as a function from numbers to clock readings, `sent` the position,
`autoSeq` what AUTOINCREMENT gave last, `nextTrim` the number at which the ring is looked at
next, `mem*` the ring in memory. One action per operation of `events.h` that changes state;
each has the failing outcomes of its own SQL statements, because every statement commits by
itself. A query that fails is one of them: `scalar_with` then hands back its default, as for an
empty table, and the operation goes on with it. `Reads` names the queries by the place where they
are made and `miss` those that fail in a step, of the sets that `Misses` allows. `total_min` and
`min` are apart, because `trim_if_needed` asks for MIN twice, in the count and for the row its
deletion begins with: when the first is not answered and the second is, the count is MAX, the
excess takes in all the rows that are long gone, and the deletion goes up to the newest row. This
is a divergence (`TrimTakesExcess`) and the one failure `TrimKeepsNewest` excepts; the other
combinations take what exceeds, less, or nothing. A MAX that fails makes the table pass for empty: the
repair goes back to 0 and the count of unsent events is 0. `TotalExact` and `PendingExact` are
therefore about queries that are answered, in whatever state earlier failures left.
`IndexAhead` and `OlderCopy` put the files into the states the repair is for.
The clock may go back. `failed` and `trimFails` (checks in a row that failed and left more than
`Capacity` rows) are history.

### EventReport (`net.c`)

A poll is one step: the step back for ReRequestEvent, the fetch, the answer, the move of the
position; `history_request_sql_error` is the poll in which one of its statements fails: the step
back, the fetch after some rows, MAX after a fetch that found nothing, or the acknowledgement. The
commands have their own (`event_store_request_sql_error`). The answer goes into `sendBuf`, of which the socket takes any part (`Flush`); the
queue may be full (`Refused`), and the write may find the connection broken (`Lost`, taken
by `Accepted`). DM is external: it polls, reads, gives up, connects again, and says
ReRequestEvent when an answer to a poll did not come. It tells stale answers from fresh ones
by the frame index. `got` is what DM has read; `gone` is what was given up: what a reset or an index
change moved the position past, what DM had not read when acud forgot where the last batch began
(a restart, a reload of the port), and what DM asked for again in a poll whose step back failed.
That poll is answered, with what comes after the position or with nothing, so DM has no reason to
ask once more; this is a divergence (`AskedIsNotGivenUp`). The memory mode of the store is left out
here, and so are an append that fails during a session (`EventStore` has it; nothing is stored, so
there is nothing to report) and two failing statements in one poll.

### UserStore, UserDownload, Roster (`users.c`, `userbin.c`, `usercmd.c`, `net.c`)

`store.db` is what the one SQLite connection sees, `store.file` what is committed,
`store.safe` what a power cut is sure to leave (`users.db` runs with synchronous=NORMAL). An
outcome is chosen for each statement: `ok`, refused, or refused with the transaction rolled
back; a COMMIT that fails is taken to roll back (a COMMIT left open by SQLITE_BUSY is not
modelled). A user is an identity with at most a card; other columns are left out, since no
property tells them apart.

A list is a sequence of records, sent as a stream of units in numbered chunks whose bounds
are not those of the records; the check bytes of a record hold when its units are those of
one record in order and DM sent it right. Chunk numbers wrap. DM sends the chunk it is at, again when no answer came,
or one too early; a command for a single user may come at any time from the connection that
sends the list. The connection can be dropped, replaced, or closed by a reload of the port.
The process may stop between any two requests, between the two statements of a command and
between the exchange of the tables and its event; the power may fail. DM is taken to send
the first chunk of a transfer first: the code does not check that number, and it is the
check bytes that catch it.

### Inputs (`main.c`, `hal_mock.c`, `net.c`, `devset.c`)

One callback empties the FIFO, compares the levels of the alarm and the fire input with
those reported last, computes the outputs again when one changed, and judges the cards in
the queue. The store may refuse an event, or there may be none: `net_store_event` logs that and the
level counts as reported all the same. `untold` names what the last event of was refused; until
the next change DM is not told, and the properties say so. A setting that cannot be read
(`devset_get`) leaves its output as it was; `unread` names those of the last computation, and the
two computations of a callback in which both inputs changed fail independently (`Ringing`). What
counts is the last line about an input (`Lately`); the same operator says
what DM will know once it has read every event (`Told`). Output settings belong to a database and `applied` says from which one the
outputs were last computed. `log` holds the events DM has not read; DM's policy answers a
fire with the force open command and its end with the recovery. `held` is the relay of the
doors, `net` the mode that `net.c` keeps. What a card is judged to be, door contacts and
units that stop answering are left out; a restart is left out, because what a relay does
then is up to hardware that does not exist yet (`hal_mock.c` only writes a log line).

### Loop (`loop.c`, `main.c`, `net.c`)

`t` holds the kernel's table of descriptors (the lowest free one is handed out), the entries
of `AcuLoop` in their order, and the two descriptors of `AcuNet`. An entry also says what it
was registered for, which the code does not keep: the properties compare it with what is
open. `ready` is the snapshot of the round, as a function from the places of the entries, of
which the lowest is served next. `pc` is where the main loop is, at the points where a signal makes a difference.
`select` returns what is ready; a signal interrupts it when nothing is. Watching for
writability and the discovery socket are left out.

### Receive (`net.c`, `protocol.c`)

`recv` adds any part of the stream that fits, `stop_parsing` and `handle_request` are the
passes of the loop, `move_rest` is the `memmove`. Differences of lengths are `size_t`, so
they wrap at `SizeMod`. A byte is abstracted to the frame, the place and the length it
belongs to, and a header is recognised when its bytes are in order. The buffer keeps what
earlier calls left in it. Memory after the buffer is taken to hold no header.

### UserUpload (`userbin.c`, `users.c`, `net.c`)

The list is how many rows the query gives for each user: one per card, one for a user without.
`send` is the part of `AcuUserBin` for this direction. The first chunk is read from the
beginning, a chunk in order from the last user sent, any other by counting rows. A change of
the list, a lost answer, a statement that fails in the middle and a restart may come between
any two. DM is external: it asks for chunks in order, or for the same one again when the
answer did not come, until one is empty; answers that come late are not modelled. `doubt`
says that a chunk was looked up by number in a list that had changed, or was cut by a failure;
`plain` that a number tells a place: none came twice, and none was looked up among users with two
cards.

### Access (`access.c`, `db.c`, `main.c`)

One step per query; the clock goes on between them. Each query may fail. The week as DM sends
it is a number of 16 bits (`week_select`) of which `week_ok` takes one. The properties compare
with a reference that speaks of sets of days and one instant (`Allowed`).

### NetConfig (`deploy/acu-netcfg`, its units, `discover.c`, `webui/app.py`)

`run` gives each process (users of the page, the service of the path unit, the timer's roll
back, the roll back at boot) the statements it still has to do; each is an action, and the
power may fail between any two. `profile` is NetworkManager's file, `loaded` what it read,
`address` what the interface has. `profile.from` says where the address came from, which the
files do not: a command that would make the device forget that shows in `UnconfirmedIsUndone`.
The scripts run under `set -e`, so a statement that fails and is not guarded ends its command
where it is (`Dies`; `Fails` where this leaves something behind, which `spent.fails` counts):
`mkdir`, `chmod` and `cp` before anything waits; `printf` and `chmod` of the mark, which may leave
PENDING without a timer, whole or empty (`named`); the start of the timer; `cat`, `cp` and `chmod`
of the roll back, which leave PENDING and the backup with the timer spent. A mark left so waits for
the next boot, whose roll back removes it (`BootEnds`), unless that fails itself or the mark is
empty: then `cp` has no file to copy to, at every boot. `PendingEnds` and `ComesBack` hold where no
such statement has failed, `UnconfirmedIsUndone` whichever did. What a SETT sets is not rolled back
by design (`acu-netcfg:159`: discovery finds the device at any address), so an unreachable address
from a SETT stays, and `ComesBack` is about those of the page.
Assumed: files survive a power cut in the order they were written, each of them whole or not at
all, PENDING apart (nothing in the script syncs them); `rm` and the guarded `systemctl stop`
succeed; the time to confirm is longer than what a user's command takes, except
bringing up a connection; unless `Careless`, a user does not act while the timer's roll back
runs, and confirms only at the address that was set. A SETT that is refused (name, password,
addresses) changes nothing and is left out. The request lies in `/run/acud`, which is made
anew when acud restarts, so the request is lost then; so is one written between the reading
and the removal of another (`acu-netcfg:176`). The 60 s limit of the page's call ends `sudo`,
not the command, and is not modelled.

### Config (`config.c`, `main.c`, `webui/app.py`)

`file` is `config.json`, or `<<>>` while it cannot be parsed: the page empties it and writes it
in place, and so do two pages at once, of which the shorter file may leave the rest of a longer one
behind it (`<<s, Rest>>`). acud takes that for the first object (`cJSON_Parse` looks no further),
the page's `json.load` does not. `main` says where acud is, `cfg` what it holds to be in
force, `in_use` what it has opened; a database or a port may fail to open. Five fields stand
for all: the database and the port (opened anew by a reload), the password (in force at
once), the paths of the users and of the events (optional, in force at the next start). `saved`
is every file that was ever whole, `wanted` the password last said to be changed.

## 3. Runs

`tlc -config <cfg> <module>` in this directory repeats a run. The module has the name of the
configuration, or the one in brackets; `NetConfig` and `Receive` are run as they are, by the
configurations `MC` and their names. `tlapm <module>` checks the proofs of section 4.

| run | configuration | states | shows |
|---|---|---|---|
| `event_store` | `MCEventStore` | 532 k | counts, ring, memory queue, repair under every failing statement and query |
| `event_report` | `MCEventReport` (`EventReport`) | 308 k | nothing is forgotten; everything is reported in the end |
| `user_download` | `MCUserDownload` | 126 k | the receiver and the store agree; the list in use is the list reported; the store implements `Roster` |
| `inputs` | `MCInputs` | 494 k | changes are reported, cards judged in order, outputs and doors follow, whatever the store refuses or cannot read |
| `loop` | `MCLoop` | 26 k | what is watched is open; stale readiness is harmless; signals and connections are served |
| `receive` | `MCReceive` (`Receive`) | 61 k | frames are handled once, in order, as soon as they are whole |
| `user_upload` | `MCUserUpload` | 301 k | everyone is fetched, once, in order and under the right number |
| `netconfig` | `MCNetConfig` (`NetConfig`) | 282 k | an unconfirmed address is undone; changes are not refused for ever; the boot leaves none waiting; the device comes back |
| `config` | `MCConfig` | 210 k | the settings in force are one whole file, and open; what is saved counts |
| `access` | `MCAccess` | 430 k | the door opens only to whom the groups allow; denials have their reason |
| `report_dropped` | `MCEventReportDropped` (`EventReport`) | violated | the position moves past events whose answer was dropped |
| `config_users` | `MCConfigUsers` (`MCConfig`) | violated | the path of the list of users is lost with that of the events |

Every module states its type invariant. That of `UserDownload`, `Inputs`, `Loop`, `NetConfig`,
`Config`, `Access` and `UserUpload` holds with the same constants and is not in the list of runs,
where the other properties stand for more; those of `UserDownload`, `Inputs`, `Config` and
`UserUpload` are theorems.

### Bounds and why they are enough

- `event_store`: capacity and slack 2, seven numbers, a memory ring of three. The ring is
  trimmed twice, once late because a deletion failed; the memory ring wraps twice. Of the queries
  any one may fail in an operation, or both MIN of a check. The theorems cover every other size and
  every set of failing queries.
- `event_report`: a ring of two rows and three numbers, so that unsent events are
  overwritten; polls for one and for two events; a send buffer of two answers, so that it
  fills; three faults or commands, so that an answer is lost, the repetition is lost (or its step
  back fails) and something else goes wrong.
- `user_download`: a list of four records in three chunks whose bounds cut records, in which
  the card and both users come twice, and a list with a broken record. Batches hold three rows,
  so they rotate within a list, at a record's user and at its card, and one that a command for
  one user loses can hold several records; numbers wrap after three chunks. One fault: a refused
  statement anywhere, or a power cut. One change of a user, among two users and a card (a
  user's second card, which the store allows, is `OneCardPerUser`'s question and has two).
  Crashes, breaks and new downloads are not bounded. The checkpoint is looked at only while a
  power cut is to come.
- `inputs`: a queue of two cards and three cards, so that one gives way; two changes of the inputs,
  so that both change in one callback or one changes back, any of the events refused; one write;
  two databases, between which reloads are not bounded, one with any settings at first and one whose
  outputs ring for both inputs; one reload of the port. One output, since outputs do not depend on
  each other.
- `loop`: three connections (one in use, one that replaces it, one after that), one change of
  port, and room for a client in the loop or not, according to how many inputs the HAL has.
- `receive`: a buffer of seven bytes with frames of three and four, so that it holds parts of
  up to three frames; four frames, one peer that goes away.

- `user_upload`: five users, of whom three are in the list at first or two are, one with two
  cards; chunks of two rows, so that a list has up to four with the empty one; numbers from 1
  modulo 3, so that they pass through 0 and come to 1 again; two changes, two lost answers or
  restarts, one failing statement, a second Start.
- `netconfig`: one user, two addresses to try, one of which is unreachable, two attempts, one
  SETT to a reachable address or not, two power cuts or restarts of acud (so that the roll back at
  boot is cut too), two statements that fail and leave something behind (so that the roll back of a
  change whose timer was not started fails too). The page's session is one process: with two the mark is no lock
  (see the divergences).
- `config`: two sessions and two saves, so that they cut into each other, one replacement by
  files with another port, a port that is taken, one out of range and fields left out; one stop.
- `access`: days of three minutes, from the end of a Friday to a Monday, every row of a user,
  three periods (one of them empty) and every single slot over those minutes, with nights, plus
  a group of two slots. More slots are only more disjuncts.

`CHECK_DEADLOCK FALSE` stands where inputs run out (`EventReport`, `Inputs`, `Receive`,
`UserUpload`, `NetConfig`, `Config`, `Access`) or the process stops (`Loop`).

### Fairness

- `FairReportSpec`: weak fairness of the handlers (the loop serves what is ready) and of DM's
  polling, reading, giving up on an answer that will not come, and connecting when it is not
  connected; strong fairness of connecting anew in a connection on which an answer stays in
  the buffer, which is what DM does when polls keep going unanswered. Without the last one
  what is left in the buffer lets a DM wait for ever (`LeftoversGoOut`).
- `StayingSpec`, used by `MCEventReportLeftovers` only: a DM that stays on its connection, and a loop that calls back
  when a watched socket can be written. That callback is never asked for: this is the finding.
- `Inputs!FairSpec`: the callback of a readable FIFO, the handler of a command that arrived,
  DM's polling.
- `Loop!FairSpec`: the process is scheduled, and the housekeeping timer keeps expiring.
  `ReloadServed` and `StopServed` need the timer, because a signal before `select` does not
  wake it.
- `NetConfig!FairSpec`: processes are scheduled, the timer expires, the path unit and the boot
  do their work. Users and DM owe nothing.
- `Config!FairSpec`: systemd starts acud again (`Restart=always`), its loop runs, and a page
  that has begun to save finishes, unless a power cut ends it.

### Divergences found

The two violation runs above are the `findings` of `PROJECT.json`, with the code lines and the
sentences they contradict. More were met while modelling. They are stated as properties in
the modules and are not in the list of runs. Most have a configuration that refutes them; the
others are refuted by the constants of the module's passing run:

| property | configuration (module) | what happens |
|---|---|---|
| `ReportOutlivesPower` | constants of `MCUserDownload` | the event of a complete registration is kept by `events.db` (FULL), the list it reports lost by `users.db` (NORMAL); `users.c:119` counts only on losing a list still being received |
| `HandledChunkSucceeds` | constants of `MCUserDownload` | the last chunk, sent again, is refused (`userbin.c:346`), against the comment at `userbin.c:355` |
| `OneCardPerUser` | `MCUserCards` (`MCUserDownload`) | a user given another card keeps the old one (`users.c:477`), against `users.h:101` |
| `GapDropsTransfer` | constants of `MCUserDownload` | a skipped chunk number is refused and the transfer goes on (`userbin.c:366`), against `src/README.md:1711` |
| `LoadNeedsConnection` | constants of `MCUserDownload` | a reload of the port leaves the download open (`main.c:696`), against `userbin.h:61` |
| `ChangesAreTold` | constants of `MCInputs` | the level counts as reported when the store has refused its event (`main.c:209`, `net.c:384`): DM hears of the input at its next change only |
| `SilenceWhenQuiet` | constants of `MCInputs` | an output rewritten from Alarm to another kind while it rings is never switched off (`main.c:164`), against `main.c:139` |
| `ReloadApplies` | constants of `MCInputs` | a reload of `db_path` does not compute the outputs again (`main.c:679`) |
| `SignalWakesSelect` | `MCLoopSignal` (`MCLoop`) | a signal between the check and `select` waits for the timer, against `main.c:742` |
| `ServedAsSeen` | `MCLoopStale` (`MCLoop`) | a descriptor reused in a round is served in it, against `loop.h:29`; harmless by `StaleWakeHarmless` |
| `StopEndsCleanly` | `MCLoopStop` (`MCLoop`) | `net_shutdown` uses the loop that `main.c:757` has freed |
| `TrimTakesExcess` | `MCEventStoreCut` (`MCEventStore`) | MIN that fails in the count and is answered for the deletion makes the excess count rows long gone: rows the ring has room for are deleted, up to the newest (`events.c:258`, `events.c:265`), against `events.c:247` "한도를 넘긴 만큼 오래된 것부터 지운다" |
| `AskedIsNotGivenUp` | `MCEventReportAsked` (`EventReport`) | a step back that fails is not looked at (`net.c:812`): the poll is answered with what comes next or with nothing, and DM, answered, does not ask again for what it missed, against `net.c:808` "같은 묶음을 다시 싣는다 (이 비트를 무시하면 그 묶음을 잃는다)" |
| `ReloadForgetsNothing` | constants of `MCEventReport` | a reload of `tcp_port` makes a net without a last batch, so that a re-request after it gets nothing back (`main.c:693`), where `net.c:821` knows only a restart and the memory mode as reasons |
| `LeftoversGoOut` | `MCEventReportLeftovers` (`EventReport`) | what a full socket left over is not sent on: `net_flush_send` returns before `loop_mod` (`net.c:201`), against `net.c:185` "나머지는 남겨 두고 루프가 쓰기 가능하다고 알려 줄 때 이어 보낸다" |
| `DropKeepsRoster` | `MCUserDrop` (`MCUserDownload`) | an acknowledged change of one user is rolled back with a dropped download (`users.c:646`), against `net.c:161` "기존 명단은 그대로 남는다" and `users.h:127` |
| `FailKeepsRoster` | `MCUserFail` (`MCUserDownload`) | a list without a good record empties the list in use (`userbin.c:323`) under the event that `userbin.c:331` ties to "기존 명단을 유지한다" |
| `RecoveryReleases` | constants of `MCInputs` | after a reload of `tcp_port` the recovery command does not reach the relay (`net.c:463`), against `src/README.md:1887` and `hal.h:82` |
| `HandledHasArrived` | `MCReceiveCut` (`Receive`) | a handler that drops the connection sets `recv_len` to 0; the difference wraps and bytes not received are handled (`net.c:1886`), against `net.c:1904` |
| `EmptyIsEnd` | constants of `MCUserUpload` | a statement that fails makes an empty chunk, which is the end (`users.c:388`), against `userbin.h:84` "0이면 더 없음, 오류면 -1" |
| `AskingAgainIsHarmless` | constants of `MCUserUpload` | a chunk asked for again is found by counting rows and passes over users after a deletion, against `userbin.c:560` "느리지만 드물다" |
| `AskingAgainKeepsOrder` | `MCUserUploadOrder` (`MCUserUpload`) | a chunk read from the last user sent on passes over that user's second card, one looked up counts it: asked for again after such passes, a chunk begins too early and users who came come again, out of order (`userbin.c:549`), where `users.h:118` tells the two readings apart by speed alone ("느리다") |
| `SizeCoversAll` | constants of `MCUserUpload` | Start counts users, a user with two cards takes two records (`userbin.c:470`); a client that stops at the announced size, as `tools/idti_client.py:406` does, misses users |
| `PasswordStays` | `MCConfigLost` (`MCConfig`) | of two who save at once one loses the change the page confirmed (`webui/app.py:263`) |
| `ReloadLikeStart` | `MCConfigBeside` (`MCConfig`) | a reload of `db_path` leaves the list of users beside the old one until the next start, where the page says the change needs none (`webui/app.py:4`) |
| `NightSlotOpens` | constants of `MCAccess` | a slot that ends before it begins is never in force (`db.c:169`) |
| `ConfirmedStays` | `MCNetConfigLate` (`NetConfig`) | a roll back that has begun goes on after the user confirmed, against `acu-netcfg:12` |
| `KeptIsReachable` | `MCNetConfigConfirm` (`NetConfig`) | `confirm` does not ask where the user is, against `acu-netcfg:149` |
| `PendingAlwaysEnds` | `MCNetConfigUnarmed` (`NetConfig`) | when `systemd-run`, the `chmod` of the mark or the `cp` of the roll back fails, the mark refuses every change until the next boot, and an empty mark after it, too; this is what `acu-netcfg:232` guards against for `nmcli` alone |
| `SettSurvives` | `MCNetConfigSett` (`NetConfig`) | the mark is looked at before the seconds of the conflict check: a roll back takes a SETT along, against `acu-netcfg:182` |
| `UnconfirmedIsUndone` | `MCNetConfigTwice` (`NetConfig`), two users | both pass the mark, and the second backup is of an address nobody confirmed (`acu-netcfg:121`), against `acu-netcfg:16` |

## 4. Proofs

`EventReportProofs` proves of the store, for every capacity, slack, size of the memory ring, set of
clock readings and choice of the queries that may fail together, that `Spec` of `EventStore`
implies the type invariant and all six properties that the run `event_store` checks. They rest on the named assumptions of `EventStore`
alone: the sizes are positive and the bounds are numbers.

The argument. None of the properties is inductive: that `MAX - MIN + 1` counts the rows needs
the numbers in the table to be an interval, and that has to survive an insert after a
failed deletion, an acknowledgement, a repair and a restart. The inductive invariant `IInv` is
`TypeOK` and `Window`: the numbers in the table are an interval that ends at the last number
handed out, or there are none; the interval is shorter than `Capacity + (f + 1) * TrimSlack` when
`f` checks in a row have failed and left too many rows, and while the store is open the next
check of the ring comes before it can get longer. Lemmas say what the queries answer on an
interval and which interval an insertion and a trim leave, whichever of their queries fail, and there is one lemma per
operation that disturbs the table. `MemoryFifo` is inductive relative to `IInv`, by lemmas on
indices that wrap around once. The action properties `AppendedIsUnsent` and
`TrimKeepsNewest` follow from `IInv` at each step.

`UserDownloadProofs` proves that `Spec` of `UserDownload` implies `TypeOK`, `TransferOwnsLoad`,
`LoadMatchesStream`, `ReportedListInUse` and `ImplementsRoster`, for every length of records, chunks
and batches, every set of lists that are not empty, and any number of refused statements,
crashes and power cuts. Of the numbers of chunks it needs that three in a row differ (the code
has 65,536): with two, a chunk sent too early could not be told from one sent again.

The argument. What the receiver holds depends on how far the stream has come: `At` says that
after `m` units the records that are whole have been counted, that the units of the one that is
not are in `rec`, and, unless a record or a batch was lost, that the load has just what the good
ones of the whole records say; `Clear` adds that nothing was refused. `UnitReceived` is the step
from `m` to `m + 1`, `UnitsRead` the induction over a chunk. `Sending(n)` ties this to the
conversation: the receiver has `n` chunks, the number it expects is the next one's, and DM is at
one of the two on either side; so a chunk that is accepted is the next one (`Indices`), wherever
the numbers wrap. For the store, `Sound` says that a transaction is open only for a load and that
outside of one everything is committed; `Settles` says of an operation, whatever SQLite refused
in it, that the lists seen and kept stay, or one of them is now both, which is a step of `Roster`
or none; `Touched` says what a command for one user may do to a load under way. `Reported` is
stronger than `ReportedListInUse`: the list reported is also the one in the file, without which a
restart could take it back. TLC has checked `IInv` on `MCUserDownload` with two faults and two
commands (2.6 million states).

The proof found `LoadMatchesStream`, as it was first stated, to be false: a command for a single
user whose statement SQLite refuses, rolling back, takes the rows of the batch that is open along
(`users_set` and the download share the transaction), and the receiver learns of it at the next
commit. Batches of two rows had hidden it, because there a record fills a batch. The property now
has the premise that no batch has been lost unnoticed, and the run has batches of three.

`ConfigProofs` proves for every set of databases, passwords, ports and files, and any number of
editors, that `Spec` of `Config` implies its `TypeOK`, `CfgIsInUse` and `CfgIsOneFile`, from the
assumptions of `Config`: the defaults and the files are well formed, and the value that stands for
a missing field is no path. The lemmas say what a load takes from a file (`LoadCases`: nothing, or
all fields of one that was saved and is valid) and what a reload keeps of it, field by field.
`CfgIsInUse` is not inductive, because it says nothing of the time before the pid file is written;
`OpenAsSet`, which holds whenever the process runs, is. `CfgIsOneFile` is inductive relative
to the types: the file a load took its settings from stays in `saved`, and a reload that refuses
the file leaves the settings, and their witness, as they were.

Of the session the same module proves that `ReportSpec` implies `ReportTypeOK`,
`NothingForgotten` and `OnceWhenUndisturbed`, for every ring, batch limit, send buffer and number
of faults. `NothingForgotten` speaks of the answer DM waits for; it says nothing of the requests
that lie in front of that one, and a poll DM gave up on, answered late, would move the position
under it. `RInv` adds to the store's `IInv`: what DM still waits for is the last thing under way,
as a request or as its answer (`FreshIsLast`); acud can step back to every event under way
(`AnswersReachBack`); a late poll is followed by one that asks again, or DM is about to ask
(`LatePolls`); a poll that does not ask again was sent when nothing was missing (`PlainPolls`);
and, for `OnceWhenUndisturbed`, before the first fault one message is under way at most, and what
it carries is unread (`Calm`). The lemmas say what a batch holds, relative to the position it was
taken from, and there is one per action.

`ReceiveProofs` proves that `Spec` of `Receive` implies `TypeOK`, `FramesInOrder` and
`NoFrameLeft`, for every buffer, header and set of frame lengths that fit the buffer, with the
differences wrapping at any `SizeMod` above twice the buffer. The invariant `RInv` looks at the
bytes from `consumed` on and those on their way as one stream (`StreamFramed`): its bytes are
whole frames, one after the other, from the one after the last handled to the last sent. `recv`
and the `memmove` leave that stream as it is and a pass of the parse loop takes its first frame
off; after a handler has dropped the connection nothing is claimed of the stream, and the wrapped
difference stays in range. Out of the parse loop what is left is less than its first frame
(`NoneWhole`).

`NetConfigProofs` proves that `Spec` of `NetConfig` implies `UnconfirmedIsUndone`, under the
hypothesis `Alone`: one user at the page, who does not act while the timer's roll back runs. It
is a hypothesis and not an assumption of the module, because the code does not ensure it, and
without it the property is false: `MCNetConfigTwice` shows what two users do. The
addresses and the numbers of attempts, failures, power cuts and restarts are arbitrary. `NInv`
says of every process which rest of its command it has left (`Commands`), that the user's command
and a roll back do not meet (`Apart`), what a try relies on before each of its next statements
(`Trying`: no mark before it sets its own, a mark that names the file and a backup before the profile
is written), what a roll back and a confirmation have established before they remove the mark
(`Restored`), and that no backup holds an unconfirmed address. `BootEnds` is proved under the same
hypothesis: at boot nothing else runs (`BootLast`), so the mark the roll back has removed stays
removed until it is done, and each of its statements goes on unless it is one that can fail.

`LoopProofs` proves that `Spec` of `Loop` implies `WatchedIsOpen` and `StaleWakeHarmless`, for
every size of the loop, any number of inputs, connections and changes of the port. `LInv`: while
acud runs, the entries are distinct, fit the loop and are exactly the open descriptors, each for
what it is open for; the client's and the listening descriptor are those `AcuNet` holds
(`Sound`); and within a round only connections come and go (`Round`). Inside a callback a
descriptor is open before it is registered, so the lemmas speak of a table that is sound but for
one descriptor. That the lowest descriptor is free when one is needed is the pigeonhole
principle.

`InputsProofs` proves that `Spec` of `Inputs` implies `TypeOK`, `InputsReported`,
`AlarmOutputsFollow`, `ForceOpenAgrees` and `CardsJudgedInOrder`, for any outputs, databases,
queue and bounds. Its lemmas say how the last word about an input changes when a line is added
(`LatelyAppend`) and when the first one is read (`LatelyTail`). An event that is refused adds no
line and enters `untold`, so that nothing is claimed of what it was about until the next one is
taken. `AlarmOutputsFollow` is not
inductive: it says nothing while another database is in use, and a second reload may go back to
the first. `AppliedFollow` is: the outputs follow the settings of the database they were computed
from, because only the database in use is written to, and writing computes them again. For the
cards, `CardsFollow` says that those in the FIFO bear the numbers after the ones read, and that
between two callbacks none is left in the queue. The queue has a closed form: after `c` cards it
is the last `QueueCap` of them, or all (`Pushed`, `QueueRead`, an induction over the lines); so
what one callback judges is a run of consecutive numbers, all later than what was judged before
(`MoreJudged`).

`UserProofs` proves that `Spec` of `Access` implies `GrantIsAllowed` and `DenialHasReason`, for
every set of users, groups and readings of the clock and every length of a day. `AInv`: each
query that has let the user pass was right at an instant of the judgement, and the instants come
in the order of the queries (`Found`, `LetIn`). Where the judgement is within a day, days are in
the order of instants (`DatesInOrder`), so that both queries hold at the later instant.
`WeekAgrees` is the one fact of arithmetic: for every set of days, the bit that `week_ok` takes
of DM's mask is that of the day.

`UserProofs` also proves that `UploadSpec` implies `UploadTypeOK`, `EveryoneFetched`,
`OnceInOrder` and `SerialIsPlace`, for every set of lists, any number of cards of a user, rows of
a chunk, numbers (two at least, the code has 65,536), first number, changes, losses, failures and
restarts.

The argument. All rows are in order (`RowsOrdered`), and the rows behind a user are the last ones
of them (`RowsRest`), both by induction over the users; so a chunk is the rows behind the first
`c` (`Chunks`). For a chunk in order `c` counts the rows up to the last user sent; for any other
it is what the number says. `Together` ties the two ends: acud is where DM is, or one chunk
ahead, and in the former case the last user sent is the last one DM has (`Reached`).
`NobodyMissed`, which is stronger than `EveryoneFetched`, says of every state that nobody up to
`Reached` is missing. What remains is a chunk looked up by its number: it passes over nobody
because the rows that the number counts are all of users up to `Reached` (`CountsEnough`), and
brings nobody again because, where nobody has two cards, it counts all of these
(`CountsExactly`); both hold only while the list stays and nothing fails. One lemma per part
shows that a chunk keeps it. TLC has checked the invariant on four sets of constants, with and
without second cards and wrapping numbers.

The proof found `OnceInOrder`, as it was first stated, to be false: it claimed the order of users
for lists in which some have two cards, whatever was asked for again. A chunk in order passes
over a second card, and the numbers go on counting it, so that after a few chunks a number means
an earlier place. Lists with one such user, too short for a chunk to be asked for after it, had
hidden it. The property now has the premise `plain`, and what it leaves out is
`AskingAgainKeepsOrder`, which is violated (section 3).

Inductions over what a recursive function computes (the queue of cards, the units of a chunk, the
rows of a list) are made over the set of numbers up to which the claim holds, by the lemma
`UpTo`, which rests on the well-founded order of the natural numbers.

Out of the provers' reach is liveness under fairness: `EventuallyReported`, `FireEndsForceOpen`,
`ReloadServed`, `StopServed`, `ConnectionServed`, `PendingEnds`, `ComesBack` and `SavedIsApplied`
are model-checked only. Every other property of the passing runs is a theorem. No module
uses a RECURSIVE operator.

## 5. Plan

Done: all modules of section 2, and the proofs of section 4. To come, in this order:

1. the memory mode in `EventReport`;
2. door contacts and units that stop answering in `Inputs`.

## 6. Not modelled

- Time synchronisation (`net.c:720`): the clock as such; an event's time may go back, and a
  judgement (`Access`) is over before a request can set the clock.
- The BCD and packet building helpers, the display and firmware requests, the status report:
  they change no state.
- The log, the forms and the login of the web page, the installation and the test clients.
- FIND, the frames of discovery and what a SETT is refused for; `usercmd_get`: they change no
  state.
- The door contact: `net->door_status` only goes into events, and is unknown again from a reload of
  the port (`net_init`) until the next input. Units that stop answering: one event each, in the
  callback that reads them.
- Loss or corruption below TCP; several DMs at a time beyond one connection replacing another.
- Two failing statements in one poll, and an append that fails while DM is connected
  (`EventReport`).
- A refused `ALTER TABLE` is one outcome of the exchange as a whole: the statements of that
  transaction are not told apart.
