-------------------------------- MODULE Loop --------------------------------
(***************************************************************************)
(* The event loop (acud/loop.c), the main loop around it (acud/main.c) and *)
(* the callbacks that change what is registered (acud/net.c): a connection *)
(* is accepted and replaces the one before, is closed, or is dropped when  *)
(* idle; SIGHUP reloads, maybe on another port; SIGTERM stops.  One select *)
(* reports what is ready and the callbacks run one after the other, while  *)
(* the kernel hands out the lowest descriptor that is free and peers, the  *)
(* timer and signals go on.  Watching for writability, which never happens *)
(* (EventReport), and the socket of the discovery are left out.            *)
(***************************************************************************)
EXTENDS Integers, FiniteSetsExt, SequencesExt

CONSTANTS
  Fds,         \* descriptors the kernel hands out
  MaxFds,      \* ACU_LOOP_MAX_FDS
  MaxInputs,   \* HAL_INPUT_FD_MAX
  MaxClients,  \* bound on connections
  MaxPorts     \* bound on listening sockets, one for each change of the port

(* One more than the loop holds: a socket is opened before one is closed.  *)
ASSUME FdsAssumption  == Fds \subseteq Nat /\ 0 .. MaxFds \subseteq Fds
ASSUME LoopAssumption ==
  /\ {MaxFds, MaxInputs, MaxClients, MaxPorts} \subseteq Nat \ {0}
  /\ MaxInputs + 2 <= MaxFds

VARIABLES
  t,        \* descriptors: the kernel's table, the loop's entries, and AcuNet's two
  ready,    \* of this round's snapshot, the entries still to be served, by place
  pc,       \* where main is
  peer,     \* what the connection has for acud: "idle", "data" or "closed"
  waiting,  \* a connection waits to be accepted
  pending,  \* the timer and the card input, when readable
  running,  \* g_running
  reload,   \* g_reload
  unread    \* config.json changed, and SIGHUP was sent, since it was last read

vars    == <<t, ready, pc, peer, waiting, pending, running, reload, unread>>
signals == <<running, reload, unread>>

None == -1
Free == [kind |-> "free", n |-> 0]
Sock(kind, n) == [kind |-> kind, n |-> n]
Lowest(open) == Min({f \in Fds : open[f] = Free})
Opens(d, fd, obj) == [d EXCEPT !.open = [@ EXCEPT ![fd] = obj]]

-----------------------------------------------------------------------------
(* loop.c.  An entry is the descriptor and what it was registered for.     *)

Entries(d, fd) == {i \in DOMAIN d.ent : d.ent[i].fd = fd}

loop_add(d, fd) ==
  LET e == [fd |-> fd, obj |-> d.open[fd]]
  IN CASE Entries(d, fd) # {} -> [d EXCEPT !.ent = ReplaceAt(@, Min(Entries(d, fd)), e)]
       [] Entries(d, fd) = {} /\ Len(d.ent) < MaxFds -> [d EXCEPT !.ent = Append(@, e)]
       [] OTHER -> d

(* The last entry moves into the hole.                                     *)
loop_remove(d, fd) ==
  IF Entries(d, fd) = {} THEN d
  ELSE [d EXCEPT !.ent = Front(ReplaceAt(@, Min(Entries(d, fd)), Last(@)))]

(* What select reports, in the order of the entries.                       *)
Readable(obj) == CASE obj.kind = "client" -> peer # "idle"
                   [] obj.kind = "listen" -> waiting
                   [] OTHER -> obj.kind \in pending
Snapshot == [i \in {p \in DOMAIN t.ent : Readable(t.ent[p].obj)} |-> t.ent[i]]
Turn == Min(DOMAIN ready)

-----------------------------------------------------------------------------
(* net.c                                                                   *)

close(d, fd) == Opens(d, fd, Free)

(* Mutant: the descriptor is closed and stays registered.                  *)
net_drop_client_registered(d) ==
  IF d.client = None THEN d ELSE [close(d, d.client) EXCEPT !.client = None]

net_drop_client(d) ==
  IF d.client = None THEN d
  ELSE [close(loop_remove(d, d.client), d.client) EXCEPT !.client = None]

(* Mutant: whether the loop has room is not looked at.                     *)
Accept_unchecked(d) ==
  LET fd  == Lowest(d.open)
      new == Opens([d EXCEPT !.clients = @ + 1], fd, Sock("client", d.clients + 1))
  IN  loop_add([net_drop_client(new) EXCEPT !.client = fd], fd)

(* accept, then the connection before is dropped; a connection the loop    *)
(* has no room for is dropped too.                                         *)
Accept(d) ==
  LET fd  == Lowest(d.open)
      new == Opens([d EXCEPT !.clients = @ + 1], fd, Sock("client", d.clients + 1))
      reg == loop_add([net_drop_client(new) EXCEPT !.client = fd], fd)
  IN  IF Entries(reg, fd) = {} THEN net_drop_client(reg) ELSE reg

(* Mutant: no connection is accepted while there is one.                   *)
net_on_listen_ready_busy ==
  /\ IF waiting /\ t.client = None
     THEN t' = Accept(t) /\ peer' = "idle" /\ waiting' = FALSE
     ELSE UNCHANGED <<t, peer, waiting>>
  /\ pending' = pending

net_on_listen_ready ==
  /\ IF waiting THEN t' = Accept(t) /\ peer' = "idle" ELSE UNCHANGED <<t, peer>>
  /\ waiting' = FALSE /\ pending' = pending

(* Mutant: nothing to read is taken for the end of the connection.         *)
Recv_empty_drops ==
  IF peer = "data" THEN t' \in {t, net_drop_client(t)} ELSE t' = net_drop_client(t)

(* recv: a request may be the last one (its answer cannot be sent), the    *)
(* end of the connection is noticed, and nothing to read means nothing.    *)
Recv ==
  \/ peer = "idle" /\ t' = t
  \/ peer = "data" /\ t' \in {t, net_drop_client(t)}
  \/ peer = "closed" /\ t' = net_drop_client(t)

net_on_client_ready ==
  Recv /\ peer' = "idle" /\ UNCHANGED <<waiting, pending>>

(* net_check_inactivity may find the connection idle whatever has arrived  *)
(* on it since the last callback.                                          *)
on_housekeeping ==
  /\ pending' = pending \ {"timer"}
  /\ t' \in {t, net_drop_client(t)}
  /\ peer' = IF t'.client = None THEN "idle" ELSE peer
  /\ waiting' = waiting

on_card_readable == pending' = pending \ {"input"} /\ UNCHANGED <<t, peer, waiting>>

(* Of the loop's point of view: net_init, net_shutdown, net_attach_loop.   *)
MovedPort(d) ==
  LET fd  == Lowest(d.open)
      new == Opens([d EXCEPT !.ports = @ + 1], fd, Sock("listen", d.ports + 1))
      old == loop_remove(net_drop_client(new), d.listen)
  IN  loop_add([close(old, d.listen) EXCEPT !.listen = fd], fd)

-----------------------------------------------------------------------------
(* main.c                                                                  *)

At(from, to) == pc = from /\ pc' = to

(* Mutant: a reload comes before the end.                                  *)
check_reload_first ==
  /\ pc = "check"
  /\ pc' = IF reload THEN "load" ELSE IF ~running THEN "stop" ELSE "checked"
  /\ reload' = FALSE
  /\ UNCHANGED <<t, ready, peer, waiting, pending, running, unread>>

(* The head of the main loop: the request is forgotten before the file is  *)
(* read.                                                                   *)
check ==
  /\ pc = "check"
  /\ pc' = IF ~running THEN "stop" ELSE IF reload THEN "load" ELSE "checked"
  /\ reload' = (reload /\ ~running)
  /\ UNCHANGED <<t, ready, peer, waiting, pending, running, unread>>

config_load ==
  /\ At("load", "apply") /\ unread' = FALSE
  /\ UNCHANGED <<t, ready, peer, waiting, pending, running, reload>>

Applied == \/ UNCHANGED <<t, peer, waiting>>
           \/ /\ t.ports < MaxPorts
              /\ t' = MovedPort(t) /\ peer' = "idle" /\ waiting' = FALSE

(* Mutant: the request is forgotten once more when the reload is over.     *)
apply_config_clears ==
  /\ At("apply", "checked") /\ Applied /\ reload' = FALSE
  /\ UNCHANGED <<ready, pending, running, unread>>

(* The configuration read is applied; the port may be another one.         *)
apply_config ==
  /\ At("apply", "checked") /\ Applied
  /\ UNCHANGED <<ready, pending, signals>>

enter_select ==
  /\ At("checked", "select")
  /\ UNCHANGED <<t, ready, peer, waiting, pending, signals>>

loop_wait ==
  /\ At("select", "serve") /\ DOMAIN Snapshot # {}
  /\ ready' = Snapshot
  /\ UNCHANGED <<t, peer, waiting, pending, signals>>

(* The descriptor is looked up again; its callback runs if there is one.   *)
serve ==
  /\ pc = "serve" /\ DOMAIN ready # {}
  /\ ready' = Restrict(ready, DOMAIN ready \ {Turn})
  /\ LET at == Entries(t, ready[Turn].fd)
     IN IF at = {} THEN UNCHANGED <<t, peer, waiting, pending>>
        ELSE LET kind == t.ent[Min(at)].obj.kind
             IN \/ kind = "listen" /\ net_on_listen_ready
                \/ kind = "client" /\ net_on_client_ready
                \/ kind = "timer" /\ on_housekeeping
                \/ kind = "input" /\ on_card_readable
  /\ UNCHANGED <<pc, signals>>

served ==
  /\ At("serve", "check") /\ DOMAIN ready = {}
  /\ UNCHANGED <<t, ready, peer, waiting, pending, signals>>

(* The timer goes, then the loop with its entries.                         *)
loop_destroy ==
  /\ At("stop", "destroyed")
  /\ t' = [close(t, Min({f \in Fds : t.open[f].kind = "timer"})) EXCEPT !.ent = <<>>]
  /\ UNCHANGED <<ready, peer, waiting, pending, signals>>

(* net_shutdown takes its descriptors out of a loop that has been freed:   *)
(* that may go unnoticed, or end the process before its PID file is gone.  *)
net_shutdown ==
  /\ pc = "destroyed" /\ pc' \in {"stopped", "died"}
  /\ t' = [close(IF t.client = None THEN t ELSE close(t, t.client), t.listen) EXCEPT !.client = None]
  /\ peer' = "idle" /\ waiting' = FALSE
  /\ UNCHANGED <<ready, pending, signals>>

-----------------------------------------------------------------------------
(* Around acud.                                                            *)

Up == pc \notin {"stop", "destroyed", "stopped", "died"}

connect ==
  /\ Up /\ ~waiting /\ t.clients < MaxClients /\ waiting' = TRUE
  /\ UNCHANGED <<t, ready, pc, peer, pending, signals>>

send_or_close ==
  /\ t.client # None /\ peer # "closed"
  /\ peer' \in {"data", "closed"}
  /\ UNCHANGED <<t, ready, pc, waiting, pending, signals>>

card == /\ Up /\ pending' = pending \cup {"input"}
        /\ UNCHANGED <<t, ready, pc, peer, waiting, signals>>
tick == /\ Up /\ pending' = pending \cup {"timer"}
        /\ UNCHANGED <<t, ready, pc, peer, waiting, signals>>

(* A signal wakes select when nothing is ready, and only sets its flag     *)
(* anywhere else.                                                          *)
Interrupt == pc' = IF pc = "select" /\ DOMAIN Snapshot = {} THEN "check" ELSE pc

sighup ==
  /\ Up
  /\ reload' = TRUE /\ unread' = TRUE /\ Interrupt
  /\ UNCHANGED <<t, ready, peer, waiting, pending, running>>

sigterm ==
  /\ Up /\ running' = FALSE /\ Interrupt
  /\ UNCHANGED <<t, ready, peer, waiting, pending, reload, unread>>

-----------------------------------------------------------------------------
(* The inputs of the HAL, the listening socket and the timer, which are    *)
(* registered with the listening socket first.                             *)
Start(inputs) ==
  LET table == [f \in Fds |-> CASE f < inputs      -> Sock("input", f)
                                [] f = inputs      -> Sock("listen", 1)
                                [] f = inputs + 1  -> Sock("timer", 0)
                                [] OTHER           -> Free]
      nth(i) == IF i = 1 THEN inputs ELSE IF i <= inputs + 1 THEN i - 2 ELSE inputs + 1
  IN  [open |-> table, listen |-> inputs, client |-> None, clients |-> 0, ports |-> 1,
       ent  |-> [i \in 1 .. inputs + 2 |-> [fd |-> nth(i), obj |-> table[nth(i)]]]]

Init ==
  /\ \E inputs \in 1 .. MaxInputs : t = Start(inputs)
  /\ ready = <<>> /\ pc = "check"
  /\ peer = "idle" /\ waiting = FALSE /\ pending = {}
  /\ running = TRUE /\ reload = FALSE /\ unread = FALSE

main_step == \/ check \/ config_load \/ apply_config \/ enter_select \/ loop_wait
             \/ serve \/ served \/ loop_destroy \/ net_shutdown

Next == \/ check \/ config_load \/ apply_config \/ enter_select \/ loop_wait
        \/ serve \/ served \/ loop_destroy \/ net_shutdown
        \/ connect \/ send_or_close \/ card \/ tick \/ sighup \/ sigterm

Spec == Init /\ [][Next]_vars

(* The process is scheduled, and the housekeeping timer keeps expiring.    *)
FairSpec == Spec /\ WF_vars(main_step) /\ WF_vars(tick)

-----------------------------------------------------------------------------
Objects == [kind : {"free", "input", "listen", "timer", "client"}, n : Nat]
Entry   == [fd : Fds, obj : Objects]

(* Type invariant.  A round is served to its end.                          *)
TypeOK ==
  /\ t \in [open : [Fds -> Objects], ent : Seq(Entry), listen : Fds, client : Fds \cup {None},
            clients : 0 .. MaxClients, ports : 1 .. MaxPorts]
  /\ Len(t.ent) <= MaxFds
  /\ DOMAIN ready \subseteq 1 .. MaxFds /\ \A p \in DOMAIN ready : ready[p] \in Entry
  /\ pc \in {"check", "load", "apply", "checked", "select", "serve",
             "stop", "destroyed", "stopped", "died"}
  /\ peer \in {"idle", "data", "closed"} /\ waiting \in BOOLEAN
  /\ pending \subseteq {"timer", "input"}
  /\ {running, reload, unread} \subseteq BOOLEAN
  /\ DOMAIN ready # {} => pc = "serve"

(* While the loop runs, the descriptors it watches are exactly those that  *)
(* are open, each once and for what it is: no connection is forgotten, and *)
(* select is never given a descriptor that was closed (net_drop_client,    *)
(* net_on_listen_ready, net_shutdown on another port).                     *)
WatchedIsOpen ==
  Up => /\ {f \in Fds : t.open[f] # Free} = {t.ent[i].fd : i \in DOMAIN t.ent}
        /\ \A i \in DOMAIN t.ent : t.ent[i].obj = t.open[t.ent[i].fd]
        /\ \A i, j \in DOMAIN t.ent : t.ent[i].fd = t.ent[j].fd => i = j
        /\ \A f \in Fds : t.open[f].kind = "client" <=> f = t.client
        /\ \A f \in Fds : t.open[f].kind = "listen" <=> f = t.listen

(* What is called for a readiness that was another descriptor's changes    *)
(* nothing: recv on a connection that has sent nothing only says so.       *)
StaleWakeHarmless ==
  [][ \A i \in DOMAIN t.ent :
        /\ pc = "serve" /\ DOMAIN ready # {} /\ ready' # ready /\ peer = "idle"
        /\ t.ent[i].fd = ready[Turn].fd /\ t.ent[i].obj # ready[Turn].obj
        => t' = t ]_vars

(* A change of config.json that was announced by SIGHUP is read in the     *)
(* end, whenever the signal came, and SIGTERM ends the process.            *)
ReloadServed == unread ~> (~unread \/ ~running)
StopServed   == ~running ~> pc \in {"stopped", "died"}

(* A connection that waits is accepted, or refused when the port changes.  *)
ConnectionServed == waiting ~> (~waiting \/ ~running)

(* Violated: a signal that comes between the check and select does not     *)
(* wake it; only the housekeeping timer does.                              *)
SignalWakesSelect == pc = "select" => running /\ ~reload

(* Violated: a registration made in a round is served in that round, for   *)
(* what select saw on the descriptor before it was closed.                 *)
ServedAsSeen ==
  pc = "serve" /\ DOMAIN ready # {} =>
    \A i \in DOMAIN t.ent : t.ent[i].fd = ready[Turn].fd => t.ent[i].obj = ready[Turn].obj

(* Violated: stopping uses the loop after it has been freed.               *)
StopEndsCleanly == pc # "died"

=============================================================================
