-------------------------- MODULE DnstapConnection --------------------------
(***************************************************************************)
(* The dnstap input of honas_gather: name servers connect to a Unix socket *)
(* and send a Frame Streams byte stream.  libevent reads the bytes into a  *)
(* buffer per connection and calls cb_read(), which takes the frames apart *)
(* and handles the ones that arrived completely; the answers (ACCEPT and   *)
(* FINISH) leave through an output buffer and cb_write().  One thread runs *)
(* all callbacks: while cb_read() loops (cb = c) no other callback runs.   *)
(*                                                                         *)
(* A stream is a sequence of frames.  What matters of its bytes is their   *)
(* number, in units of half a length field, so that a length field can be  *)
(* there partly: the reader's place in the stream is the frame at the head *)
(* of `input` and the units of it that were drained already.               *)
(***************************************************************************)
EXTENDS Integers, Sequences, FiniteSets

CONSTANTS
  Conns,        \* connections that are made
  Streams,      \* Streams[c]: what the peer of connection c may send
  High,         \* CAPTURE_HIGH_WATERMARK: the input buffer's size
  ReadMax,      \* the most units libevent reads at a time
  None,         \* no connection
  Exited        \* no connection any more: the process has ended

\* The length field of a frame.
Field == 2

\* libevent reads 16 KiB at a time, the watermark is 256 KiB.
ASSUME DnstapAssumption ==
  /\ IsFiniteSet(Conns)
  /\ None \notin Conns
  /\ Exited \notin Conns
  /\ None # Exited
  /\ ReadMax \in Nat \ {0}
  /\ High \in Nat
  /\ Field + ReadMax <= High
  /\ 2 * Field < High

ControlKinds == {"ready", "start", "stop", "other", "malformed", "badlen"}

\* What a data frame holds: a relevant client query, one whose query_address is
\* missing or has neither 4 nor 16 bytes, a query of another class or type or
\* without a question, a message that is no client query or whose packet is
\* broken, no message at all, or no protobuf message.
DataKinds ==
  {"query", "unaddressed", "irrelevant", "undecodable", "nomessage", "garbage"}

ContentTypes == {"dnstap", "foreign", "absent"}

IsControl(f) == f.kind \in ControlKinds

\* Any byte stream is a sequence of frames.  "long": 128 bytes of payload or
\* more.  FSTRM_CONTROL_FRAME_LENGTH_MAX, 512 bytes, is below the watermark.
Frame ==
  {f \in [kind : ControlKinds \cup DataKinds, ct : ContentTypes,
          size : Nat, long : BOOLEAN] :
     IF IsControl(f) THEN f.size \in (2 * Field + 1)..High ELSE f.size > Field}

\* The length of a stream.
Total(s) ==
  LET upto[t \in 0..Len(s)] == IF t = 0 THEN 0 ELSE upto[t - 1] + s[t].size
  IN  upto[Len(s)]

ASSUME StreamsAssumption ==
  \A c \in Conns : \A s \in Streams[c] : s \in Seq(Frame) /\ Total(s) \in Nat

VARIABLES
  status,      \* "absent", "open", "closed"; "cut": the process ended before
  conn,        \* struct connection and its buffers
  wire,        \* units sent and not yet read by libevent
  script,      \* all the peer sends: the history of the connection
  got,         \* control frames the peer received
  gone,        \* the peer went away before honas_gather closed
  cb,          \* the connection whose cb_read() runs, None, or Exited
  remaining,   \* ctx.remaining_connections
  listener,    \* the listener is enabled
  inst,        \* inst_data
  dumped,      \* what was written to the instrumentation log
  registered   \* calls of honas_state_register_host_name_lookup()

peerVars == <<script, gone>>
listenVars == <<remaining, listener>>
countVars == <<inst, dumped, registered>>
vars == <<status, conn, wire, peerVars, got, cb, listenVars, countVars>>

ConnStates == {"CONTROL_READY", "CONTROL_START", "DATA", "STOPPED"}

\* conn_init(): a connection before its first byte.
conn_init ==
  [state |-> "CONTROL_READY", bytes_skip |-> 0, len_buf |-> 0, taken |-> 0,
   input |-> <<>>, out |-> <<>>]

ZeroCounts == [processed |-> 0, accepted |-> 0, skipped |-> 0, invalid |-> 0]

\* Mutant: one connection at a time.
UnlimitedOne == 1

\* main() asks for no limit on the connections.
Unlimited == -1

DnstapInit ==
  /\ status = [c \in Conns |-> "absent"]
  /\ conn = [c \in Conns |-> conn_init]
  /\ wire = [c \in Conns |-> 0]
  /\ script = [c \in Conns |-> <<>>]
  /\ got = [c \in Conns |-> <<>>]
  /\ gone = [c \in Conns |-> FALSE]
  /\ cb = None
  /\ remaining = Unlimited
  /\ listener = TRUE
  /\ inst = ZeroCounts
  /\ dumped = ZeroCounts
  /\ registered = 0

----------------------------------------------------------------------------
(* Connections come and go.                                                *)

\* cb_accept_conn(): the peer, for its part, starts sending.
cb_accept_conn(c) ==
  /\ cb = None
  /\ listener
  /\ status[c] = "absent"
  /\ \E s \in Streams[c] :
       /\ script' = [script EXCEPT ![c] = s]
       /\ conn' = [conn EXCEPT ![c] = [conn_init EXCEPT !.input = s]]
       /\ wire' = [wire EXCEPT ![c] = Total(s)]
  /\ status' = [status EXCEPT ![c] = "open"]
  /\ remaining' = remaining - 1
  /\ listener' = (remaining - 1 # 0)
  /\ UNCHANGED <<got, gone, cb, countVars>>

\* No bufferevent for the new socket: it is closed and not counted.
AcceptFails(c) ==
  /\ cb = None
  /\ listener
  /\ status[c] = "absent"
  /\ status' = [status EXCEPT ![c] = "closed"]
  /\ gone' = [gone EXCEPT ![c] = TRUE]
  /\ UNCHANGED <<conn, wire, script, got, cb, listenVars, countVars>>

\* cb_close_conn(): the bufferevent, what is left in its buffers and the
\* connection are freed.
cb_close_conn(c) ==
  /\ status' = [status EXCEPT ![c] = "closed"]
  /\ conn' = [conn EXCEPT ![c] = conn_init]
  /\ wire' = [wire EXCEPT ![c] = 0]
  /\ remaining' = remaining + 1
  /\ listener' = (listener \/ remaining + 1 = 1)

\* End of file or an error on the socket; the peer may go in the middle of a
\* frame, so that what is still on the wire stands for what it never sent.
PeerGone(c) ==
  /\ cb = None
  /\ status[c] = "open"
  /\ gone' = [gone EXCEPT ![c] = TRUE]
  /\ cb_close_conn(c)
  /\ UNCHANGED <<script, got, cb, countVars>>

----------------------------------------------------------------------------
(* libevent's side: input up to the high watermark, output until empty.    *)

ReadRoom(c) == {n \in 1..ReadMax : n <= wire[c] /\ conn[c].len_buf + n <= High}

\* Some bytes arrive and cb_read() is called.
ReadEvent(c) ==
  /\ cb = None
  /\ status[c] = "open"
  /\ \E n \in ReadRoom(c) :
       /\ conn' = [conn EXCEPT ![c].len_buf = @ + n]
       /\ wire' = [wire EXCEPT ![c] = @ - n]
  /\ cb' = c
  /\ UNCHANGED <<status, peerVars, got, listenVars, countVars>>

\* Mutant: every write that empties the buffer closes the connection.
cb_write_any(c) ==
  /\ cb_close_conn(c)
  /\ got' = [got EXCEPT ![c] = @ \o conn[c].out]

\* Mutant: the connection is not closed after FINISH.
cb_write_keeps(c) ==
  /\ got' = [got EXCEPT ![c] = @ \o conn[c].out]
  /\ conn' = [conn EXCEPT ![c].out = <<>>]
  /\ UNCHANGED <<status, wire, listenVars>>

\* cb_write(), called when the output buffer has become empty.
cb_write(c) ==
  /\ got' = [got EXCEPT ![c] = @ \o conn[c].out]
  /\ \/ /\ conn[c].state # "STOPPED"
        /\ conn' = [conn EXCEPT ![c].out = <<>>]
        /\ UNCHANGED <<status, wire, listenVars>>
     \/ /\ conn[c].state = "STOPPED"
        /\ cb_close_conn(c)

WriteEvent(c) ==
  /\ cb = None
  /\ status[c] = "open"
  /\ conn[c].out # <<>>
  /\ cb_write(c)
  /\ UNCHANGED <<peerVars, cb, countVars>>

\* A write that does not empty the buffer: no callback.
PartialWrite(c) ==
  /\ cb = None
  /\ status[c] = "open"
  /\ Len(conn[c].out) > 1
  /\ got' = [got EXCEPT ![c] = Append(@, Head(conn[c].out))]
  /\ conn' = [conn EXCEPT ![c].out = Tail(@)]
  /\ UNCHANGED <<status, wire, peerVars, cb, listenVars, countVars>>

----------------------------------------------------------------------------
(* cb_read(): one turn of its loop per action.                             *)

\* The frame the reader is at.
Current(c) == Head(conn[c].input)

\* Has enough arrived to know len_frame_total?
LengthKnown(c) ==
  conn[c].len_buf >= (IF IsControl(Current(c)) THEN 2 * Field ELSE Field)

\* len_control_frame outside its bounds.
BadLength(c) == LengthKnown(c) /\ Current(c).kind = "badlen"

\* can_read_full_frame(), apart from its effects.
FullFrame(c) ==
  /\ LengthKnown(c)
  /\ ~BadLength(c)
  /\ conn[c].len_buf >= Current(c).size

\* Mutant: the length field is forgotten.
OversizedPayload(c) ==
  IF LengthKnown(c) /\ Current(c).size > High THEN Current(c).size - Field ELSE 0

\* Mutant: an oversized frame is waited for.
OversizedWaits(c) == 0

\* bytes_skip for a frame the input buffer cannot hold.
Oversized(c) ==
  IF LengthKnown(c) /\ Current(c).size > High THEN Current(c).size ELSE 0

\* The buffer is empty: wait for more.
ReadNothing(c) ==
  /\ cb = c
  /\ conn[c].len_buf = 0
  /\ cb' = None
  /\ UNCHANGED <<status, conn, wire, peerVars, got, listenVars, countVars>>

\* At a frame, that is with nothing of an oversized one to skip.
AtFrame(c) ==
  /\ cb = c
  /\ conn[c].input # <<>>
  /\ conn[c].len_buf > 0
  /\ conn[c].bytes_skip = 0

\* can_read_full_frame() fails: wait for more.
ReadIncomplete(c) ==
  /\ AtFrame(c)
  /\ ~FullFrame(c)
  /\ ~BadLength(c)
  /\ conn' = [conn EXCEPT ![c].bytes_skip = Oversized(c)]
  /\ cb' = None
  /\ UNCHANGED <<status, wire, peerVars, got, listenVars, countVars>>

\* can_read_full_frame() closes the connection.
ReadBadLength(c) ==
  /\ AtFrame(c)
  /\ BadLength(c)
  /\ cb_close_conn(c)
  /\ cb' = None
  /\ UNCHANGED <<peerVars, got, countVars>>

\* evbuffer_drain() of n units, at most what is left of the current frame.
Drained(k, n) ==
  IF k.taken + n < Head(k.input).size
  THEN [k EXCEPT !.len_buf = @ - n, !.taken = @ + n]
  ELSE [k EXCEPT !.len_buf = @ - n, !.taken = 0, !.input = Tail(@)]

\* Bytes of an oversized frame are thrown away.
ReadSkip(c) ==
  /\ cb = c
  /\ conn[c].len_buf > 0
  /\ conn[c].bytes_skip > 0
  /\ LET skip == IF conn[c].bytes_skip > conn[c].len_buf
                 THEN conn[c].len_buf ELSE conn[c].bytes_skip
     IN  conn' = [conn EXCEPT ![c] =
                    [Drained(conn[c], skip) EXCEPT !.bytes_skip = @ - skip]]
  /\ UNCHANGED <<status, wire, peerVars, got, cb, listenVars, countVars>>

\* The frame is copied to a local buffer of 4096 bytes, which it is taken to fit
\* in.  dnstap__dnstap__unpack() gets the frame with its length field in front.  A
\* length below 128 reads as two fields no message has; any other swallows the
\* payload's first bytes, and what the rest reads as is not determined.
Unpacked(f) == IF f.long THEN DataKinds ELSE {f.kind}

\* Mutant: an irrelevant query counts as accepted.
decode_dnstap_message_all(m) ==
  /\ registered' = registered + (IF m = "query" THEN 1 ELSE 0)
  /\ inst' = [inst EXCEPT !.processed = @ + 1,
                          !.accepted = @ + (IF m # "undecodable" THEN 1 ELSE 0),
                          !.skipped = @ + (IF m = "undecodable" THEN 1 ELSE 0),
                          !.invalid = @ + (IF m = "undecodable" THEN 1 ELSE 0)]

\* decode_dnstap_message() and the counting of its failure.
decode_dnstap_message(m) ==
  /\ registered' = registered + (IF m = "query" THEN 1 ELSE 0)
  /\ inst' = [inst EXCEPT !.processed = @ + 1,
                          !.accepted = @ + (IF m = "query" THEN 1 ELSE 0),
                          !.skipped = @ + (IF m = "undecodable" THEN 1 ELSE 0),
                          !.invalid = @ + (IF m = "undecodable" THEN 1 ELSE 0)]

\* process_data_frame(), whatever the state of the connection is.  What
\* verify_content_type() says of the last control frame is logged, no more.
ReadDataFrame(c) ==
  /\ AtFrame(c)
  /\ FullFrame(c)
  /\ ~IsControl(Current(c))
  /\ conn' = [conn EXCEPT ![c] = Drained(@, Current(c).size)]
  /\ \E m \in Unpacked(Current(c)) :
       \/ m \in {"query", "irrelevant", "undecodable"} /\ decode_dnstap_message(m)
       \/ m \in {"nomessage", "garbage"} /\ UNCHANGED <<inst, registered>>
  /\ UNCHANGED <<status, wire, peerVars, got, cb, listenVars, dumped>>

\* Registering a relevant query whose client has no address ends in log_die(): the
\* process, and with it every connection, goes in the middle of the callback.
ReadUnaddressed(c) ==
  /\ AtFrame(c)
  /\ FullFrame(c)
  /\ ~IsControl(Current(c))
  /\ "unaddressed" \in Unpacked(Current(c))
  /\ status' = [d \in Conns |-> IF status[d] = "open" THEN "cut" ELSE status[d]]
  /\ conn' = [d \in Conns |-> conn_init]
  /\ wire' = [d \in Conns |-> 0]
  /\ cb' = Exited
  /\ UNCHANGED <<peerVars, got, listenVars, countVars>>

----------------------------------------------------------------------------
(* Control frames.                                                         *)

\* fstrm_control_match_field_content_type(): a frame without a content type
\* matches any.
match_content_type(f) == f.ct # "foreign"

\* Mutant: STOP is accepted at any time.
AcceptedAnyStop(c, f) ==
  \/ conn[c].state = "CONTROL_READY" /\ f.kind = "ready" /\ match_content_type(f)
  \/ conn[c].state = "CONTROL_START" /\ f.kind = "start" /\ match_content_type(f)
  \/ f.kind = "stop"

\* load_control_frame() and process_control_frame() return true: the frame is
\* the one the state asks for.
Accepted(c, f) ==
  \/ conn[c].state = "CONTROL_READY" /\ f.kind = "ready" /\ match_content_type(f)
  \/ conn[c].state = "CONTROL_START" /\ f.kind = "start" /\ match_content_type(f)
  \/ conn[c].state = "DATA" /\ f.kind = "stop"

\* process_control_frame_ready(), _start() and _stop(): the next state and the
\* answer.
Process(k, f) ==
  IF f.kind = "ready" THEN
    [k EXCEPT !.state = "CONTROL_START", !.out = Append(@, "ACCEPT")]
  ELSE IF f.kind = "start" THEN
    [k EXCEPT !.state = "DATA"]
  ELSE
    [k EXCEPT !.state = "STOPPED", !.out = Append(@, "FINISH")]

AtControlFrame(c) == AtFrame(c) /\ FullFrame(c) /\ IsControl(Current(c))

ReadControlFrame(c) ==
  /\ AtControlFrame(c)
  /\ Accepted(c, Current(c))
  /\ conn' = [conn EXCEPT ![c] = Process(Drained(@, Current(c).size), Current(c))]
  /\ UNCHANGED <<status, wire, peerVars, got, cb, listenVars, countVars>>

\* Mutant: the loop goes on with the closed connection.
ReadControlFailsGoOn(c) ==
  /\ AtControlFrame(c)
  /\ ~Accepted(c, Current(c))
  /\ cb_close_conn(c)
  /\ UNCHANGED <<peerVars, got, cb, countVars>>

\* A malformed frame, or one the state does not allow: the connection goes.
ReadControlFails(c) ==
  /\ AtControlFrame(c)
  /\ ~Accepted(c, Current(c))
  /\ cb_close_conn(c)
  /\ cb' = None
  /\ UNCHANGED <<peerVars, got, countVars>>

ReadLoop(c) ==
  \/ ReadNothing(c)
  \/ ReadIncomplete(c)
  \/ ReadBadLength(c)
  \/ ReadSkip(c)
  \/ ReadDataFrame(c)
  \/ ReadUnaddressed(c)
  \/ ReadControlFrame(c)
  \/ ReadControlFails(c)

----------------------------------------------------------------------------
\* instrumentation_event(): the counts of the last minute are written, reset.
instrumentation_event ==
  /\ cb = None
  /\ inst # ZeroCounts
  /\ dumped' = [f \in DOMAIN inst |-> dumped[f] + inst[f]]
  /\ inst' = ZeroCounts
  /\ UNCHANGED <<status, conn, wire, peerVars, got, cb, listenVars, registered>>

DnstapNext ==
  \/ \E c \in Conns :
       \/ cb_accept_conn(c)
       \/ AcceptFails(c)
       \/ PeerGone(c)
       \/ ReadEvent(c)
       \/ WriteEvent(c)
       \/ PartialWrite(c)
       \/ ReadLoop(c)
  \/ instrumentation_event

DnstapSpec == DnstapInit /\ [][DnstapNext]_vars

\* The event loop gets round to every socket that is ready, and a callback ends.
DnstapFairness ==
  \A c \in Conns :
    /\ WF_vars(ReadEvent(c))
    /\ WF_vars(WriteEvent(c))
    /\ WF_vars(ReadLoop(c))

FairDnstapSpec == DnstapSpec /\ DnstapFairness

----------------------------------------------------------------------------
Connection ==
  [state : ConnStates, bytes_skip : Nat, len_buf : Nat, taken : Nat,
   input : Seq(Frame), out : Seq({"ACCEPT", "FINISH"})]

Counts == [processed : Nat, accepted : Nat, skipped : Nat, invalid : Nat]

DnstapTypeOK ==
  /\ status \in [Conns -> {"absent", "open", "closed", "cut"}]
  /\ conn \in [Conns -> Connection]
  /\ wire \in [Conns -> Nat]
  /\ script \in [Conns -> Seq(Frame)]
  /\ got \in [Conns -> Seq({"ACCEPT", "FINISH"})]
  /\ gone \in [Conns -> BOOLEAN]
  /\ cb \in Conns \cup {None, Exited}
  /\ cb \in Conns => status[cb] = "open"
  /\ remaining \in Int
  /\ listener \in BOOLEAN
  /\ inst \in Counts
  /\ dumped \in Counts
  /\ registered \in Nat

Open == {c \in Conns : status[c] = "open"}

\* The reader never loses its place: it is at the start of a frame, or inside
\* an oversized one with exactly the rest of that frame left to skip, however
\* the bytes arrived (can_read_full_frame() and the skipping in cb_read()).
InStep ==
  \A c \in Open :
    \/ conn[c].bytes_skip = 0 /\ conn[c].taken = 0
    \/ /\ conn[c].input # <<>>
       /\ Current(c).size > High
       /\ conn[c].bytes_skip > 0
       /\ conn[c].taken + conn[c].bytes_skip = Current(c).size

\* Before an oversized frame is skipped no more of it than its length field is
\* waited for; the buffer is below the watermark between two callbacks, and never
\* beyond it.
Headroom ==
  \A c \in Open :
    /\ conn[c].len_buf <= High
    /\ cb # c => conn[c].len_buf < High
    /\ conn[c].bytes_skip = 0 /\ conn[c].input # <<>> /\ Current(c).size > High =>
         conn[c].len_buf < (IF cb = c THEN High ELSE Field)

\* No connection stalls: libevent stops reading at the high watermark, and when
\* cb_read() returns there is always room below it, also when the frame it
\* waits for is as long as the buffer or longer.
NeverStalls ==
  cb = None => \A c \in Open : conn[c].len_buf < High

\* The frames of the handshake, as far as the state says it has got.
Step(state) ==
  CASE state = "CONTROL_READY" -> 0
    [] state = "CONTROL_START" -> 1
    [] state = "DATA" -> 2
    [] state = "STOPPED" -> 3

Handshake == <<"ready", "start", "stop">>

\* How many of the first n frames of a stream are control frames.
ControlsIn(s, n) == Cardinality({t \in 1..n : IsControl(s[t])})

\* The control frames among them are those of the handshake, in their order.
InOrder(s, n) ==
  \A t \in 1..n :
    IsControl(s[t]) => ControlsIn(s, t) \in 1..3 /\ s[t].kind = Handshake[ControlsIn(s, t)]

\* The frames that were read.
Taken(c) == Len(script[c]) - Len(conn[c].input)

\* The answers, by how far the handshake has got.
Answers(at) ==
  IF at = 3 THEN <<"ACCEPT", "FINISH">> ELSE IF at = 0 THEN <<>> ELSE <<"ACCEPT">>

\* A connection's state is what the control frames of its stream make it: READY,
\* START and STOP, once each and in this order, whatever data frames are among
\* them; the answers, sent or still to be sent, are those that belong to them.
HandshakeFollows ==
  \A c \in Open :
    /\ ControlsIn(script[c], Taken(c)) = Step(conn[c].state)
    /\ InOrder(script[c], Taken(c))
    /\ got[c] \o conn[c].out = Answers(Step(conn[c].state))

\* A peer that keeps to the protocol and waits for FINISH.
KeepsProtocol(c) ==
  /\ ~gone[c]
  /\ ControlsIn(script[c], Len(script[c])) = 3
  /\ InOrder(script[c], Len(script[c]))
  /\ \A t \in 1..Len(script[c]) : match_content_type(script[c][t])

\* "The connection will be closed after the FINISH frame is written": a peer
\* that keeps to the protocol is not closed before it has both answers, as long
\* as the process lives.
FinishDelivered ==
  \A c \in Conns :
    status[c] = "closed" /\ KeepsProtocol(c) => got[c] = <<"ACCEPT", "FINISH">>

\* The listener of a living process is never disabled: counting away from zero,
\* the connections do not reach the limit, and every close gives back what its
\* accept took.
AlwaysAccepting ==
  cb # Exited =>
    /\ listener
    /\ remaining = -1 - Cardinality(Open)

\* The instrumentation log and the counts of the running minute together have
\* every lookup that was registered in the state, and no other.
AcceptedAccounted == dumped.accepted + inst.accepted = registered

\* A connection whose STOP was answered goes away.
StoppedCloses ==
  \A c \in Conns : (status[c] = "open" /\ conn[c].state = "STOPPED") ~> (status[c] # "open")

\* Everything a peer sends is read and its frames are handled, or the
\* connection is closed, or the process ends.
StreamIsRead ==
  \A c \in Conns : (status[c] = "open") ~> (status[c] # "open" \/ conn[c].input = <<>>)

=============================================================================
