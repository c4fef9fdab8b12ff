------------------------------ MODULE Receive ------------------------------
(***************************************************************************)
(* How acud/net.c takes frames out of the byte stream of a connection: what*)
(* recv returns is added to the buffer, whole frames are handled one after *)
(* the other, and what is left moves to the front.  Frames arrive cut and  *)
(* joined in any way.  A frame whose response cannot be sent drops the     *)
(* connection inside its handler, and the loop over the buffer goes on.    *)
(***************************************************************************)
EXTENDS Integers, Sequences

CONSTANTS
  Cap,        \* NET_RECV_BUF_CAP
  HeaderLen,  \* IDTI_HEADER_LEN_V2
  Lengths,    \* lengths a frame may have
  SizeMod,    \* size_t counts modulo this
  MaxFrames,  \* bound on frames
  MaxBreaks   \* bound on peers that go away

(* The header states the length in two bytes and the buffer holds more; a  *)
(* shorter length than header and check bytes is no header.                *)
ASSUME BufferAssumption ==
  /\ {Cap, HeaderLen, SizeMod} \subseteq Nat \ {0}
  /\ \A l \in Lengths : l \in HeaderLen + 1 .. Cap - 1
  /\ 2 * Cap + HeaderLen < SizeMod
ASSUME FrameBoundsAssumption == {MaxFrames, MaxBreaks} \subseteq Nat

VARIABLES
  conn,      \* net->client_fd >= 0
  gone,      \* the peer has gone: what is sent to it fails
  wire,      \* bytes on their way; each names its frame, its place and the length
  buf,       \* net->recv_buf, with what earlier calls left in it
  recv_len,  \* net->recv_len
  consumed,  \* local to the callback
  pc,        \* where the callback is
  sent,      \* frames sent so far
  base,      \* frames sent before this connection
  handled,   \* frames handled on this connection
  cut,       \* a handler has dropped this connection
  breaks

vars == <<conn, gone, wire, buf, recv_len, consumed, pc, sent, base, handled, cut, breaks>>
peer == <<gone, wire, sent, base, breaks>>

Junk == [frame |-> 0, at |-> 0, len |-> 0]
Frame(f, l) == [p \in 1 .. l |-> [frame |-> f, at |-> p, len |-> l]]

(* net->recv_len - consumed, in size_t.                                    *)
Left == (recv_len - consumed) % SizeMod

-----------------------------------------------------------------------------
(* The callback of the client's socket.                                    *)

(* Mutant: recv is given the whole buffer's size.                          *)
Room_whole == Cap

Room == Cap - recv_len

receive ==
  /\ conn /\ pc = "idle" /\ wire # <<>> /\ recv_len < Cap
  /\ \E k \in 1 .. Room :
       /\ k <= Len(wire)
       /\ buf' = [p \in 1 .. Cap |-> IF p \in recv_len + 1 .. recv_len + k
                                     THEN wire[p - recv_len] ELSE buf[p]]
       /\ wire' = SubSeq(wire, k + 1, Len(wire))
       /\ recv_len' = recv_len + k
  /\ consumed' = 0 /\ pc' = "parse"
  /\ UNCHANGED <<conn, gone, sent, base, handled, cut, breaks>>

(* recv returns 0, which is taken for the end of the connection, when it   *)
(* is given no room, and when the peer has gone.                           *)
receive_nothing ==
  /\ conn /\ pc = "idle" /\ (recv_len = Cap \/ (gone /\ wire = <<>>))
  /\ conn' = FALSE /\ recv_len' = 0
  /\ UNCHANGED <<peer, buf, consumed, pc, handled, cut>>

(* idti_header_parse, whatever recv_len says of the bytes it reads; what   *)
(* follows the buffer in AcuNet is no header.                              *)
idti_header_parse ==
  /\ consumed + HeaderLen <= Cap
  /\ \A p \in 1 .. HeaderLen : buf[consumed + p] = [buf[consumed + 1] EXCEPT !.at = p]
  /\ buf[consumed + 1] # Junk
At == buf[consumed + 1]

stop_parsing ==
  /\ pc = "parse" /\ pc' = "move"
  /\ \/ Left < HeaderLen /\ consumed' = consumed
     \/ Left >= HeaderLen /\ ~idti_header_parse /\ consumed' = recv_len
     \/ Left >= HeaderLen /\ idti_header_parse /\ Left < At.len /\ consumed' = consumed
  /\ UNCHANGED <<peer, conn, buf, recv_len, handled, cut>>

(* Mutant: a frame is handled when its header is there.                    *)
Whole_header == Left >= HeaderLen /\ idti_header_parse

Whole == Left >= HeaderLen /\ idti_header_parse /\ Left >= At.len

(* The handler's response may find the connection broken.                  *)
handle_request ==
  /\ pc = "parse" /\ Whole
  /\ handled' = Append(handled, At.frame)
  /\ \/ UNCHANGED <<conn, recv_len, cut>>
     \/ gone /\ conn /\ conn' = FALSE /\ recv_len' = 0 /\ cut' = TRUE
  /\ consumed' = consumed + At.len
  /\ UNCHANGED <<peer, buf, pc>>

(* Mutant: what is left is not moved to the front.                         *)
Moved_not == recv_len' = recv_len /\ buf' = buf

Moved ==
  /\ recv_len' = recv_len - consumed
  /\ buf' = [p \in 1 .. Cap |-> IF p \in 1 .. recv_len - consumed THEN buf[p + consumed] ELSE buf[p]]

move_rest ==
  /\ pc = "move" /\ pc' = "idle" /\ consumed' = 0
  /\ IF consumed > 0 THEN Moved ELSE UNCHANGED <<recv_len, buf>>
  /\ UNCHANGED <<peer, conn, handled, cut>>

(* A new connection replaces the one there is.                             *)
net_on_listen_ready ==
  /\ pc = "idle"
  /\ conn' = TRUE /\ gone' = FALSE /\ wire' = <<>> /\ recv_len' = 0
  /\ base' = sent /\ handled' = <<>> /\ cut' = FALSE
  /\ UNCHANGED <<buf, consumed, pc, sent, breaks>>

-----------------------------------------------------------------------------
(* DM.                                                                     *)

dm_send ==
  /\ conn /\ ~gone /\ sent < MaxFrames
  /\ \E l \in Lengths : wire' = wire \o Frame(sent + 1, l)
  /\ sent' = sent + 1
  /\ UNCHANGED <<conn, gone, buf, recv_len, consumed, pc, base, handled, cut, breaks>>

dm_break ==
  /\ conn /\ ~gone /\ breaks < MaxBreaks
  /\ gone' = TRUE /\ breaks' = breaks + 1
  /\ UNCHANGED <<conn, wire, buf, recv_len, consumed, pc, sent, base, handled, cut>>

-----------------------------------------------------------------------------
Init ==
  /\ conn = FALSE /\ gone = FALSE /\ wire = <<>> /\ buf = [p \in 1 .. Cap |-> Junk]
  /\ recv_len = 0 /\ consumed = 0 /\ pc = "idle"
  /\ sent = 0 /\ base = 0 /\ handled = <<>> /\ cut = FALSE /\ breaks = 0

Next ==
  \/ receive \/ receive_nothing \/ stop_parsing \/ handle_request \/ move_rest
  \/ net_on_listen_ready \/ dm_send \/ dm_break

Spec == Init /\ [][Next]_vars

-----------------------------------------------------------------------------
Bytes == {Junk} \cup [frame : 1 .. MaxFrames, at : 1 .. Cap, len : Lengths]

(* Type invariant.                                                         *)
TypeOK ==
  /\ {conn, gone, cut} \subseteq BOOLEAN
  /\ wire \in Seq(Bytes) /\ buf \in [1 .. Cap -> Bytes]
  /\ recv_len \in 0 .. Cap /\ consumed \in 0 .. 2 * Cap
  /\ pc \in {"idle", "parse", "move"}
  /\ sent \in 0 .. MaxFrames /\ base \in 0 .. sent /\ breaks \in 0 .. MaxBreaks
  /\ handled \in Seq(1 .. MaxFrames)

(* Until a handler drops the connection, the frames DM sent on it are      *)
(* handled in order, none twice and none left out, however the stream was  *)
(* cut (net_on_client_ready).                                              *)
FramesInOrder == ~cut => \A i \in DOMAIN handled : handled[i] = base + i

(* When the callback is over, what is left is less than a frame: there is  *)
(* room for recv, whose 0 would be taken for the end of the connection,    *)
(* and no frame waits for the next bytes.                                  *)
NoFrameLeft ==
  conn /\ pc = "idle" /\ recv_len > 0 => recv_len < buf[1].len /\ buf[1].at = 1

(* Violated: a frame is handled only once all of it has been received.     *)
HandledHasArrived ==
  [][ pc = "parse" /\ handled' # handled => consumed' <= recv_len ]_vars

=============================================================================
