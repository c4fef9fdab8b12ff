----------------------------- MODULE EventReport -----------------------------
(***************************************************************************)
(* How events reach the upper system (DM): the event store, the TCP        *)
(* session of acud/net.c and a DM that polls.  A poll is answered with the *)
(* oldest unsent batch and the position moves at once; a DM that could not *)
(* read an answer says so in its next poll (ReRequestEvent) and acud goes  *)
(* back to the first event of the last batch.  acud is single threaded, so *)
(* one request is handled in one step; power cuts are steps of their own.  *)
(***************************************************************************)
EXTENDS EventStore, Sequences

CONSTANTS
  Batches,    \* batch limits a poll can ask for: 1, or event_batch when Blocking
  SendCap,    \* responses NET_SEND_BUF_CAP has room for
  MaxFaults   \* bound on what goes wrong and on commands other than polls

ASSUME BatchesAssumption   == Batches \subseteq Nat \ {0}
ASSUME SendCapAssumption   == SendCap \in Nat \ {0}
ASSUME MaxFaultsAssumption == MaxFaults \in Nat

VARIABLES
  conn,      \* net->client_fd >= 0
  last,      \* net->last_batch_first_seq, 0 when there is none
  sendBuf,   \* responses queued and not yet written to the socket
  watch,     \* the loop watches the client socket for ACU_LOOP_WRITE
  reqs,      \* requests on their way to acud
  wire,      \* responses on their way to DM
  awaiting,  \* what DM waits for an answer to: "none", "poll" or "command"
  owes,      \* DM missed the answer to a poll: the next one says ReRequestEvent
  got,       \* events DM has read
  gone,      \* history: events given up.  A reset or an index change moved the
             \* position past them; they were unread when acud forgot where the
             \* last batch began (restart, reload of the port); or a poll that
             \* asked for them again was answered without them (step back refused)
  faults

session  == <<conn, sendBuf, watch, reqs, wire, awaiting, owes>>
storeVars == <<rows, autoSeq, mode, nextTrim, ring, failed, trimFails>>
allVars  == <<vars, session, last, got, gone, faults>>

Fault   == faults < MaxFaults /\ faults' = faults + 1
NoFault == faults' = faults

(* Answers DM no longer waits for are read and thrown away: their frame    *)
(* index is not that of the latest request.                                *)
Stale(msgs) == [i \in DOMAIN msgs |-> [msgs[i] EXCEPT !.fresh = FALSE]]

(* Mutant: a dropped connection leaves its responses in the send buffer.   *)
Lost_keeps(up) ==
  /\ conn' = up /\ UNCHANGED <<sendBuf, watch>>
  /\ reqs' = <<>> /\ wire' = <<>>
  /\ awaiting' = "none" /\ owes' = (owes \/ awaiting = "poll")

(* The connection goes, and everything under way on it; DM will ask again  *)
(* if it was waiting for the answer to a poll.  net_drop_client empties    *)
(* the send buffer and keeps last.                                         *)
Lost(up) ==
  /\ conn' = up /\ sendBuf' = <<>> /\ watch' = FALSE
  /\ reqs' = <<>> /\ wire' = <<>>
  /\ awaiting' = "none" /\ owes' = (owes \/ awaiting = "poll")

(* Events at or before position s that DM has not read.                    *)
Unread(s) == {q \in DOMAIN rows : q <= s} \ got

-----------------------------------------------------------------------------
(* Sending.                                                                *)

(* net_flush_send writes k queued responses.  Watching for writability is  *)
(* reconsidered only when the send loop runs to its end; it returns before *)
(* that when the socket is full.                                           *)
Written(buf, k) ==
  /\ sendBuf' = SubSeq(buf, k + 1, Len(buf))
  /\ wire' = wire \o SubSeq(buf, 1, k)
  /\ watch' = (k < Len(buf) /\ watch)
  /\ UNCHANGED <<conn, awaiting, owes>>

Flush(buf) ==
  \E k \in 0 .. Len(buf) :
    /\ IF k < Len(buf) THEN Fault ELSE NoFault
    /\ Written(buf, k)

(* net_queue_send: -1 when the buffer has no room, and 0 otherwise, even   *)
(* when the flush found the connection broken and dropped it.              *)
NoRoom ==
  /\ Len(sendBuf) >= SendCap
  /\ reqs' = Tail(reqs)
  /\ UNCHANGED <<conn, sendBuf, watch, wire, awaiting, owes>>

Refused == NoRoom /\ NoFault

Accepted(resp) ==
  /\ Len(sendBuf) < SendCap
  /\ \/ Flush(Append(sendBuf, resp)) /\ reqs' = Tail(reqs)
     \/ Fault /\ Lost(FALSE)

(* The same in a request whose fault has been counted already.             *)
Taken(resp) ==
  /\ Len(sendBuf) < SendCap
  /\ \/ \E k \in 0 .. Len(sendBuf) + 1 : Written(Append(sendBuf, resp), k) /\ reqs' = Tail(reqs)
     \/ Lost(FALSE)

-----------------------------------------------------------------------------
(* Requests.  Each handler takes the request at the head of the stream.    *)

(* Mutants: ReRequestEvent is ignored, or every poll steps back.           *)
StepBack_ignored(req) == sent
StepBack_always(req) == IF last > 0 THEN SeqTarget(sent, last) ELSE sent

(* The position once ReRequestEvent has stepped back to the last batch.    *)
StepBack(req) == IF req.re /\ last > 0 THEN SeqTarget(sent, last) ELSE sent

(* handle_history_request: the position moves after the response has been  *)
(* queued, and stays where the step back left it when it could not be.     *)
handle_history_request ==
  /\ conn /\ reqs # <<>> /\ Head(reqs).kind = "poll"
  /\ LET req  == Head(reqs)
         from == StepBack(req)
         b    == Batch(rows, from, req.n)
         resp == [batch |-> b, fresh |-> req.fresh]
     IN \/ Refused /\ sent' = from /\ last' = last
        \/ /\ Accepted(resp)
           /\ sent' = IF b = {} THEN from ELSE Acked(from, Max(b))
           /\ last' = IF b = {} THEN last ELSE Min(b)
  /\ UNCHANGED <<storeVars, got, gone>>

(* The same when SQLite fails one of the statements.  The step back, its   *)
(* query or its UPDATE: what DM misses stays behind the position, and the  *)
(* poll is answered with what comes after it, or with nothing.  The fetch, *)
(* after k rows.  MAX, which a fetch that finds nothing asks for: the      *)
(* table passes for empty, and the position goes back to its beginning.    *)
(* Or the acknowledgement.                                                 *)
history_request_sql_error ==
  /\ conn /\ reqs # <<>> /\ Head(reqs).kind = "poll"
  /\ Fault
  /\ \E which \in {"back", "fetch", "max", "ack"}, k \in 0 .. Head(reqs).n :
       LET req  == Head(reqs)
           from == CASE which = "back" -> sent
                     [] which = "max"  -> 0
                     [] OTHER          -> StepBack(req)
           b    == Batch(rows, from, k)
           resp == [batch |-> b, fresh |-> req.fresh]
       IN /\ which # "fetch" => k = req.n
          /\ which = "back" => StepBack(req) # sent
          /\ which = "max" => StepBack(req) > 0 /\ Unsent(rows, StepBack(req)) = {}
          /\ which = "ack" => b # {}
          /\ \/ NoRoom /\ sent' = from /\ last' = last /\ gone' = gone
             \/ /\ Taken(resp)
                /\ sent' = IF which = "ack" \/ b = {} THEN from ELSE Acked(from, Max(b))
                /\ last' = IF b = {} THEN last ELSE Min(b)
                /\ gone' = IF which = "back" THEN gone \cup Unread(sent) ELSE gone
  /\ UNCHANGED <<storeVars, got>>

(* The position a command asks for, when the queries of miss fail.         *)
EventStoreTarget(req, miss) ==
  IF req.kind = "reset" THEN scalar_with(max_seq(rows), 0, "max" \notin miss)
  ELSE TimeTarget(rows, req.t, miss)

(* handle_event_store_request: EventReset, and EventIndexChange type 3,    *)
(* which may also move the position forward past unsent events.            *)
handle_event_store_request ==
  /\ conn /\ reqs # <<>> /\ Head(reqs).kind # "poll"
  /\ LET req == Head(reqs)
         target == EventStoreTarget(req, {})
     IN /\ sent' = target
        /\ gone' = gone \cup {q \in Unsent(rows, sent) : q <= target}
        /\ Refused \/ Accepted([batch |-> {}, fresh |-> req.fresh])
  /\ UNCHANGED <<storeVars, last, got>>

(* The same when a query fails, or the UPDATE (which DM is told).          *)
event_store_request_sql_error ==
  /\ conn /\ reqs # <<>> /\ Head(reqs).kind # "poll"
  /\ Fault
  /\ LET req == Head(reqs)
     IN /\ \E miss \in MayFail({"later", "max"}) : sent' \in {sent, EventStoreTarget(req, miss)}
        /\ gone' = gone \cup {q \in Unsent(rows, sent) : q <= sent'}
        /\ NoRoom \/ Taken([batch |-> {}, fresh |-> req.fresh])
  /\ UNCHANGED <<storeVars, last, got>>

(* DM waits for an answer that is not coming: it is not under way any more. *)
Unanswered ==
  /\ awaiting # "none"
  /\ \A i \in DOMAIN reqs : ~reqs[i].fresh
  /\ \A i \in DOMAIN wire : ~wire[i].fresh

(* net_on_client_ready told that the socket can be written.                *)
client_writable ==
  /\ conn /\ watch /\ sendBuf # <<>>
  /\ Flush(sendBuf)
  /\ UNCHANGED <<storeVars, sent, last, reqs, got, gone>>

(* net_on_listen_ready: a new connection replaces the one there is.        *)
net_on_listen_ready ==
  /\ IF conn /\ ~Unanswered THEN Fault ELSE NoFault
  /\ Lost(TRUE)
  /\ UNCHANGED <<storeVars, sent, last, got, gone>>

(* The connection breaks: recv fails, or net_check_inactivity closes it.   *)
net_drop_client ==
  /\ conn /\ Fault
  /\ Lost(FALSE)
  /\ UNCHANGED <<storeVars, sent, last, got, gone>>

(* A reload of tcp_port makes another net, which knows of no last batch.   *)
reload_port ==
  /\ Fault
  /\ Lost(FALSE)
  /\ last' = 0
  /\ gone' = gone \cup Unread(sent)
  /\ UNCHANGED <<storeVars, sent, got>>

(* An event is stored (net_store_event).                                   *)
net_store_event ==
  /\ \E t \in Times : AppendToDisk(t)
  /\ failed' = {}
  /\ UNCHANGED <<session, last, got, gone, faults>>

(* acud dies or loses power and starts again.  It may have been handling a *)
(* poll and have written the answer, which DM read, and not yet have moved *)
(* the position.                                                           *)
Restart ==
  /\ Fault
  /\ Lost(FALSE)
  /\ last' = 0
  /\ nextTrim' = Capacity + TrimSlack
  /\ \/ sent' = sent /\ got' = got
     \/ /\ conn /\ reqs # <<>> /\ Head(reqs).kind = "poll" /\ sendBuf = <<>>
        /\ sent' = StepBack(Head(reqs))
        /\ got' = IF Head(reqs).fresh
                  THEN got \cup Batch(rows, StepBack(Head(reqs)), Head(reqs).n) ELSE got
  /\ gone' = gone \cup ({q \in DOMAIN rows : q <= sent'} \ got')
  /\ UNCHANGED <<rows, autoSeq, mode, ring, failed, trimFails>>

-----------------------------------------------------------------------------
(* DM, external: known from how acud answers it.  It has one request under *)
(* way; when it tires of waiting it goes on with the next.                 *)

Send(req) ==
  /\ conn /\ awaiting = "none"
  /\ reqs' = Append(reqs, req)
  /\ UNCHANGED <<vars, conn, sendBuf, watch, wire, last, got, gone>>

dm_poll ==
  /\ \E n \in Batches : Send([kind |-> "poll", re |-> owes, n |-> n, fresh |-> TRUE])
  /\ awaiting' = "poll" /\ owes' = FALSE
  /\ NoFault

dm_command ==
  /\ \/ Send([kind |-> "reset", fresh |-> TRUE])
     \/ \E t \in Times : Send([kind |-> "index", t |-> t, fresh |-> TRUE])
  /\ awaiting' = "command" /\ owes' = owes
  /\ Fault

dm_read ==
  /\ wire # <<>>
  /\ LET resp == Head(wire)
     IN /\ wire' = Tail(wire)
        /\ awaiting' = IF resp.fresh THEN "none" ELSE awaiting
        /\ got' = IF resp.fresh THEN got \cup resp.batch ELSE got
  /\ UNCHANGED <<vars, conn, sendBuf, watch, reqs, owes, last, gone, faults>>

dm_timeout ==
  /\ conn /\ awaiting # "none"
  /\ IF Unanswered THEN NoFault ELSE Fault
  /\ awaiting' = "none" /\ owes' = (owes \/ awaiting = "poll")
  /\ reqs' = Stale(reqs) /\ wire' = Stale(wire) /\ sendBuf' = Stale(sendBuf)
  /\ UNCHANGED <<vars, conn, watch, last, got, gone>>

-----------------------------------------------------------------------------
ReportInit ==
  /\ Empty /\ mode = "disk"
  /\ conn = FALSE /\ last = 0 /\ sendBuf = <<>> /\ watch = FALSE
  /\ reqs = <<>> /\ wire = <<>> /\ awaiting = "none" /\ owes = FALSE
  /\ got = {} /\ gone = {} /\ faults = 0

ReportNext ==
  \/ handle_history_request
  \/ history_request_sql_error
  \/ handle_event_store_request
  \/ event_store_request_sql_error
  \/ net_on_listen_ready
  \/ net_drop_client
  \/ reload_port
  \/ net_store_event
  \/ Restart
  \/ dm_poll
  \/ dm_command
  \/ dm_read
  \/ dm_timeout

ReportSpec == ReportInit /\ [][ReportNext]_allVars

(* acud's loop serves what is ready, TCP delivers what was written, and DM *)
(* keeps connecting and polling, gives up on answers that do not come, and *)
(* when that goes on connects anew.                                        *)
Fairness ==
  /\ WF_allVars(handle_history_request)
  /\ WF_allVars(handle_event_store_request)
  /\ WF_allVars(~conn /\ net_on_listen_ready)
  /\ WF_allVars(dm_poll)
  /\ WF_allVars(dm_read)
  /\ WF_allVars(Unanswered /\ dm_timeout)

FairReportSpec == ReportSpec /\ Fairness /\ SF_allVars(Unanswered /\ net_on_listen_ready)

(* A DM that stays on the connection it has, and a loop that calls back    *)
(* whenever a socket it watches for writability can be written.            *)
StayingSpec ==
  /\ ReportInit
  /\ [][ReportNext \/ client_writable]_allVars
  /\ Fairness
  /\ WF_allVars(client_writable)

-----------------------------------------------------------------------------
(* Properties.                                                             *)

Batched(msgs) == UNION {msgs[i].batch : i \in {j \in DOMAIN msgs : msgs[j].fresh}}

(* Type invariant.                                                         *)
ReportTypeOK ==
  LET Responses == [batch : SUBSET (1 .. autoSeq), fresh : BOOLEAN]
  IN /\ TypeOK
     /\ conn \in BOOLEAN /\ watch \in BOOLEAN /\ owes \in BOOLEAN
     /\ awaiting \in {"none", "poll", "command"}
     /\ last \in 0 .. autoSeq
     /\ \A i \in DOMAIN sendBuf : sendBuf[i] \in Responses
     /\ \A i \in DOMAIN wire : wire[i] \in Responses
     /\ Len(sendBuf) <= SendCap
     /\ ~conn => sendBuf = <<>> /\ reqs = <<>> /\ wire = <<>>
     /\ got \subseteq 1 .. autoSeq /\ gone \subseteq 1 .. autoSeq
     /\ sent <= max_seq(rows)

(* What DM could not read is not forgotten (README on ReRequestEvent): an  *)
(* event that counts as sent and was not given up (gone says how it can be) *)
(* has been read by DM, or is in an answer DM still waits for, or will be  *)
(* sent again because DM owes a re-request (or will owe one when it tires  *)
(* of waiting for the answer that is not coming, or one is under way) and  *)
(* acud remembers a batch that starts no later than it.                    *)
NothingForgotten ==
  \A q \in DOMAIN rows :
    q <= sent /\ q \notin got \cup gone =>
      \/ q \in Batched(sendBuf) \cup Batched(wire)
      \/ /\ 0 < last /\ last <= q
         /\ \/ owes \/ (awaiting = "poll" /\ Unanswered)
            \/ \E i \in DOMAIN reqs : reqs[i].kind = "poll" /\ reqs[i].re /\ reqs[i].fresh

(* As long as nothing goes wrong, DM reads no event twice.                 *)
OnceWhenUndisturbed ==
  [][faults' = 0 /\ wire # <<>> /\ wire' = Tail(wire)
       => Head(wire).batch \cap got = {}]_allVars

(* Every event is read by DM in the end, unless it was given up (gone says *)
(* how it can be) or fell off the ring first.                              *)
EventuallyReported ==
  \A q \in 1 .. MaxSeq :
    q \in DOMAIN rows ~> q \in got \cup gone \/ q \notin DOMAIN rows

(* net.c on handle_history_request: the position moves after the answer    *)
(* has been sent, because moving it first would lose the events when the   *)
(* sending fails.  A poll moves the position past an event only in a step  *)
(* that leaves the event's answer queued or under way.                     *)
AckNeedsAnswer ==
  [][\A q \in DOMAIN rows :
       handle_history_request /\ sent < q /\ q <= sent'
         => \E msgs \in {sendBuf', wire'} : \E i \in DOMAIN msgs : q \in msgs[i].batch]_allVars

(* Violated: a reload puts another port in force without giving up the     *)
(* events whose answer DM has not read (main.c:693).  Only a restart has a *)
(* reason to forget where the last batch began (net.c, on ReRequestEvent). *)
ReloadForgetsNothing == [][reload_port => gone' = gone]_allVars

(* net.c on ReRequestEvent: the same batch is loaded again, because it     *)
(* would be lost otherwise.  Violated: when the step back fails, the poll  *)
(* is answered as if it had been one that asks for what comes next.        *)
AskedIsNotGivenUp == [][history_request_sql_error => gone' = gone]_allVars

(* net.c on net_flush_send: what a full socket left over is sent on when   *)
(* the loop says that the socket can be written.                           *)
LeftoversGoOut == sendBuf # <<>> ~> sendBuf = <<>>

=============================================================================
