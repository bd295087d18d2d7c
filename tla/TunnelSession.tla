--------------------------- MODULE TunnelSession ---------------------------
(***************************************************************************)
(* One extend-proxy debug session: two endpoints, each running the         *)
(* `Session` of crates/extend-proxy-client, joined by a WebSocket, with    *)
(* many logical streams multiplexed over it.  Every spawned task of the    *)
(* code (reader loop, writer task, cleanup loop, one read pump per stream, *)
(* one handler per inbound OPEN, one opener per accepted connection) is a  *)
(* process here, and every `.await` at which it can be suspended is a      *)
(* boundary between two actions.                                           *)
(*                                                                         *)
(* A `Stream` object of the code owns exactly one local connection, so the *)
(* model identifies the two: a stream is a member of Conns.  `map[e]` is   *)
(* the `streams` HashMap of endpoint e, keyed by stream id.                *)
(***************************************************************************)
EXTENDS Naturals, Sequences, FiniteSets

CONSTANTS
    ClientOpens,       \* connections the client's forwarder accepts
    ClientDials,       \* connections the client dials for inbound OPENs
    ServerOpens,       \* connections the sidecar intercepts
    ServerDials,       \* connections the sidecar dials for inbound OPENs
    OverflowThreshold, \* id at which an IdGenerator wraps (u64::MAX - 1000)
    Capacity,          \* OUTBOUND_CHANNEL_CAPACITY
    WireCap,           \* frames the transport holds before a write stalls
    Senders,           \* bound: connections whose applications send data
    MaxChunks,         \* bound: DATA frames one of them produces
    Ends,              \* bound: which of the session's endings can happen
    Faults             \* bound: which local connections' operations can fail

NoConn == "none"

Opens == ClientOpens \cup ServerOpens
Dials == ClientDials \cup ServerDials
Conns == Opens \cup Dials

ASSUME ConnsAssumption ==
    /\ NoConn \notin Conns
    /\ Opens \cap Dials = {}
    /\ (ClientOpens \cup ClientDials) \cap (ServerOpens \cup ServerDials) = {}

ASSUME BoundsAssumption ==
    /\ OverflowThreshold \in Nat /\ OverflowThreshold > 2
    /\ Capacity \in Nat \ {0}
    /\ WireCap \in Nat \ {0}
    /\ Senders \subseteq Conns
    /\ MaxChunks \in Nat
    /\ Ends \subseteq {"client", "server", "agent", "transport"}
    /\ Faults \subseteq {"dial", "read", "write"}

Endpoints == {"client", "server"}
Peer(e) == IF e = "client" THEN "server" ELSE "client"
Side(c) == IF c \in ClientOpens \cup ClientDials THEN "client" ELSE "server"

Ids == 1..OverflowThreshold

VARIABLES
    map,     \* streams: id -> stream, per endpoint
    gen,     \* stream_id_gen.current, per endpoint
    sid,     \* Stream.id (0 before the Stream object exists)
    state,   \* StreamState, per stream
    wopen,   \* the local connection's write half is not shut down
    got,     \* history: payloads written to the local connection, in order
    nread,   \* chunks read from the local connection
    pump,    \* program counter of the stream's read_pump task
    opener,  \* program counter of open_remote_stream for an accepted conn
    acc,     \* handle_open_stream tasks, one slot per dialable connection
    rd,      \* reader loop: program counter, the frame it is sending, and the
             \* connection it writes to, or closes when the frame is sent
    rst,     \* streams rst_all_streams has taken and not yet closed
    writer,  \* writer_task
    out,     \* the bounded outbound channel
    net,     \* frames in the transport, towards each endpoint
    cancel,  \* the session's CancellationToken
    up       \* the transport is connected

streamVars == <<sid, state, wopen, got, nread, pump>>
taskVars   == <<opener, acc, rd, rst>>
linkVars   == <<writer, out, net, cancel, up>>
vars == <<map, gen, streamVars, taskVars, linkVars>>

----------------------------------------------------------------------------
(* Frames.  The body is the DATA payload, tagged with the connection it    *)
(* was read from and its position there, or a NACK/RST reason code.        *)

Frame(type, id, body) == [type |-> type, id |-> id, body |-> body]
NewOpen(id)     == Frame("OPEN", id, <<>>)
NewOpenAck(id)  == Frame("OPEN_ACK", id, <<>>)
NewNack(id, r)  == Frame("NACK", id, <<r>>)
NewData(id, p)  == Frame("DATA", id, p)
NewFin(id)      == Frame("FIN", id, <<>>)
NewRst(id, r)   == Frame("RST", id, <<r>>)
CloseFrame      == Frame("CLOSE", 0, <<>>)

FrameTypes == {"OPEN", "OPEN_ACK", "NACK", "DATA", "FIN", "RST", "CLOSE"}

NackReasons == {"none", "invalid_stream_id", "stream_id_conflict", "no_local_listener"}
RstReasons  == {"local_read_error", "local_write_error", "stream_unknown", "session closed"}

Bodies == (Conns \X Nat) \cup {<<>>} \cup {<<r>> : r \in NackReasons \cup RstReasons}
Frames == [type : FrameTypes, id : Ids \cup {0}, body : Bodies]

----------------------------------------------------------------------------
(* IdGenerator::next: the first id of the endpoint's parity at or after    *)
(* `current` that is not active (module IdGenerator has the loop itself,   *)
(* and its wrap at the threshold, which no session here reaches).          *)

\* Mutant: both roles are given the even parity.
StartSame(e) == 2

Start(e) == IF e = "client" THEN 2 ELSE 1

FreeFrom(e, lo, active) ==
    {i \in Ids : i >= lo /\ i < OverflowThreshold /\ i % 2 = Start(e) % 2 /\ i \notin active}

NextIds(e, current, active) ==
    LET free == FreeFrom(e, current, active)
    IN  {i \in free : \A j \in free : i <= j}

Active(e) == {i \in Ids : map[e][i] # NoConn}

\* The parity handle_open_stream requires of an id the peer allocated.
ExpectedFromPeer(e, id) == id % 2 = Start(Peer(e)) % 2

----------------------------------------------------------------------------
(* The outbound channel: a send waits while the channel is full, and fails *)
(* once the writer task has returned and dropped the receiver.             *)

CanSend(e)   == writer[e] # "done" /\ Len(out[e]) < Capacity
SendFails(e) == writer[e] = "done"

SendOk(e, f) ==
    /\ CanSend(e)
    /\ out' = [out EXCEPT ![e] = Append(@, f)]

SendErr(e) ==
    /\ SendFails(e)
    /\ UNCHANGED out

\* `let _ = self.send(...).await`: the result is ignored.
SendAny(e, f) == SendOk(e, f) \/ SendErr(e)

----------------------------------------------------------------------------
(* StreamState and the streams map.                                        *)

NewState == [pending |-> TRUE, leof |-> FALSE, reof |-> FALSE, closed |-> FALSE]

SetOpen(s, c)       == [s EXCEPT ![c].pending = FALSE]
MarkLocalEof(s, c)  == [s EXCEPT ![c].leof = TRUE]
MarkRemoteEof(s, c) == [s EXCEPT ![c].reof = TRUE]
SetClosed(s, c)     == [s EXCEPT ![c].closed = TRUE]

\* The reader is suspended in write_all and holds c's write half.
WriteHeld(c) == rd[Side(c)].pc = "write" /\ rd[Side(c)].conn = c

\* Stream::close: idempotent; sets the flag, fires cancel_tx and shuts the
\* local write half down, for which it waits until the reader's write_all
\* gives the half back (LocalWritten).  Nothing follows it in those who wait.
Close(c) ==
    /\ state' = SetClosed(state, c)
    /\ wopen' = [wopen EXCEPT ![c] = @ /\ WriteHeld(c)]

Register(e, id, c) == map' = [map EXCEPT ![e][id] = c]
Unregister(e, id)  == map' = [map EXCEPT ![e][id] = NoConn]

PumpGoto(c, pc) == pump' = [pump EXCEPT ![c] = pc]

ReaderAt(pc) == [pc |-> pc, frame |-> CloseFrame, conn |-> NoConn]

----------------------------------------------------------------------------
Init ==
    /\ map = [e \in Endpoints |-> [i \in Ids |-> NoConn]]
    /\ gen = [e \in Endpoints |-> Start(e)]
    /\ sid = [c \in Conns |-> 0]
    /\ state = [c \in Conns |-> NewState]
    /\ wopen = [c \in Conns |-> TRUE]
    /\ got = [c \in Conns |-> <<>>]
    /\ nread = [c \in Conns |-> 0]
    /\ pump = [c \in Conns |-> "none"]
    /\ opener = [c \in Opens |-> "idle"]
    /\ acc = [c \in Dials |-> [pc |-> "idle", id |-> 0, why |-> "none"]]
    /\ rd = [e \in Endpoints |-> ReaderAt("recv")]
    /\ rst = [e \in Endpoints |-> {}]
    /\ writer = [e \in Endpoints |-> "run"]
    /\ out = [e \in Endpoints |-> <<>>]
    /\ net = [e \in Endpoints |-> <<>>]
    /\ cancel = [e \in Endpoints |-> FALSE]
    /\ up = TRUE

----------------------------------------------------------------------------
(* The transport.                                                          *)

\* e has dropped both halves of its WebSocket: its reader loop has returned,
\* or was dropped, and so has its writer task.
Gone(e) == rd[e].pc \in {"rstall", "done", "dropped"} /\ writer[e] = "done"

\* Reads and writes of e fail.
Broken(e) == ~up \/ Gone(Peer(e))

HasRoom(e) == Len(net[Peer(e)]) < WireCap

----------------------------------------------------------------------------
(* open_remote_stream: allocate and insert under the write lock, then send *)
(* OPEN; if the session's writer is gone, undo the insert and close.       *)

OpenRemoteStream(c) ==
    LET e == Side(c) IN
    /\ opener[c] = "idle"
    /\ \E id \in NextIds(e, gen[e], Active(e)) :      \* bound: no wrap
          /\ gen' = [gen EXCEPT ![e] = id + 2]
          /\ Register(e, id, c)
          /\ sid' = [sid EXCEPT ![c] = id]
    /\ opener' = [opener EXCEPT ![c] = "send"]
    /\ UNCHANGED <<state, wopen, got, nread, pump, acc, rd, rst, linkVars>>

\* Mutant: a failed OPEN unregisters the stream but leaves it open.
OpenSentNoClose(c) ==
    LET e == Side(c) IN
    /\ opener[c] = "send"
    /\ opener' = [opener EXCEPT ![c] = "done"]
    /\ \/ SendOk(e, NewOpen(sid[c])) /\ UNCHANGED map
       \/ SendErr(e) /\ Unregister(e, sid[c])
    /\ UNCHANGED <<state, wopen, gen, sid, got, nread, pump, acc, rd, rst, writer, net, cancel,
                   up>>

OpenSent(c) ==
    LET e == Side(c) IN
    /\ opener[c] = "send"
    /\ opener' = [opener EXCEPT ![c] = "done"]
    /\ \/ /\ SendOk(e, NewOpen(sid[c]))
          /\ UNCHANGED <<map, state, wopen>>
       \/ /\ SendErr(e)
          /\ Unregister(e, sid[c])
          /\ Close(c)
    /\ UNCHANGED <<gen, sid, got, nread, pump, acc, rd, rst, writer, net, cancel, up>>

----------------------------------------------------------------------------
(* handle_open_stream, spawned by the reader for each inbound OPEN.        *)

AcceptGoto(d, pc)   == acc' = [acc EXCEPT ![d].pc = pc]
AcceptRefuse(d, why) == acc' = [acc EXCEPT ![d].pc = "nack", ![d].why = why]

AcceptCheck(d) ==
    LET e == Side(d) IN
    /\ acc[d].pc = "check"
    /\ \/ /\ ~ExpectedFromPeer(e, acc[d].id)
          /\ AcceptRefuse(d, "invalid_stream_id")
       \/ /\ ExpectedFromPeer(e, acc[d].id)
          /\ map[e][acc[d].id] # NoConn
          /\ AcceptRefuse(d, "stream_id_conflict")
       \/ /\ ExpectedFromPeer(e, acc[d].id)
          /\ map[e][acc[d].id] = NoConn
          /\ AcceptGoto(d, "dial")
    /\ UNCHANGED <<map, gen, streamVars, opener, rd, rst, linkVars>>

\* Mutant: a failed second dial returns without a NACK.
AcceptDialSilent(d) ==
    /\ acc[d].pc \in {"dial", "redial"}
    /\ \/ AcceptGoto(d, "insert")
       \/ /\ "dial" \in Faults
          /\ AcceptGoto(d, IF acc[d].pc = "dial" THEN "wait" ELSE "done")
    /\ UNCHANGED <<map, gen, streamVars, opener, rd, rst, linkVars>>

\* The first dial fails into a 200 ms wait; the second into a NACK.
AcceptDial(d) ==
    /\ acc[d].pc \in {"dial", "redial"}
    /\ \/ AcceptGoto(d, "insert")
       \/ /\ "dial" \in Faults /\ acc[d].pc = "dial"
          /\ AcceptGoto(d, "wait")
       \/ /\ "dial" \in Faults /\ acc[d].pc = "redial"
          /\ AcceptRefuse(d, "no_local_listener")
    /\ UNCHANGED <<map, gen, streamVars, opener, rd, rst, linkVars>>

\* The retry delay races the session's cancellation.
AcceptWait(d) ==
    /\ acc[d].pc = "wait"
    /\ \/ AcceptGoto(d, "redial")
       \/ cancel[Side(d)] /\ AcceptGoto(d, "done")
    /\ UNCHANGED <<map, gen, streamVars, opener, rd, rst, linkVars>>

\* Mutant: the second duplicate check is dropped (HashMap::insert overwrites).
AcceptInsertOverwrites(d) ==
    LET e == Side(d) IN
    /\ acc[d].pc = "insert"
    /\ sid' = [sid EXCEPT ![d] = acc[d].id]
    /\ Register(e, acc[d].id, d)
    /\ AcceptGoto(d, "ack")
    /\ UNCHANGED <<state, wopen, gen, got, nread, pump, opener, rd, rst, linkVars>>

\* Mutant: the read pump is spawned before OPEN_ACK is queued.
AcceptInsertPumps(d) ==
    LET e == Side(d) IN
    /\ acc[d].pc = "insert"
    /\ map[e][acc[d].id] = NoConn
    /\ sid' = [sid EXCEPT ![d] = acc[d].id]
    /\ Register(e, acc[d].id, d)
    /\ AcceptGoto(d, "ack")
    /\ PumpGoto(d, "read")
    /\ UNCHANGED <<state, wopen, gen, got, nread, opener, rd, rst, linkVars>>

\* Mutant: the handler keeps no id on the Stream it registers.
AcceptInsertNoId(d) ==
    LET e == Side(d) IN
    /\ acc[d].pc = "insert"
    /\ map[e][acc[d].id] = NoConn
    /\ Register(e, acc[d].id, d)
    /\ AcceptGoto(d, "ack")
    /\ UNCHANGED <<sid, state, wopen, gen, got, nread, pump, opener, rd, rst, linkVars>>

\* The second duplicate check, under the write lock.
AcceptInsert(d) ==
    LET e == Side(d) IN
    /\ acc[d].pc = "insert"
    /\ sid' = [sid EXCEPT ![d] = acc[d].id]
    /\ \/ /\ map[e][acc[d].id] = NoConn
          /\ Register(e, acc[d].id, d)
          /\ AcceptGoto(d, "ack")
          /\ UNCHANGED <<state, wopen>>
       \/ /\ map[e][acc[d].id] # NoConn
          /\ Close(d)
          /\ AcceptRefuse(d, "stream_id_conflict")
          /\ UNCHANGED map
    /\ UNCHANGED <<gen, got, nread, pump, opener, rd, rst, linkVars>>

AcceptAck(d) ==
    LET e == Side(d) IN
    /\ acc[d].pc = "ack"
    /\ AcceptGoto(d, "done")
    /\ \/ /\ SendOk(e, NewOpenAck(sid[d]))
          /\ state' = SetOpen(state, d)
          /\ PumpGoto(d, "read")
          /\ UNCHANGED <<map, wopen>>
       \/ /\ SendErr(e)
          /\ Unregister(e, sid[d])
          /\ Close(d)
          /\ UNCHANGED pump
    /\ UNCHANGED <<gen, sid, got, nread, opener, rd, rst, writer, net, cancel, up>>

AcceptNack(d) ==
    /\ acc[d].pc = "nack"
    /\ AcceptGoto(d, "done")
    /\ SendAny(Side(d), NewNack(acc[d].id, acc[d].why))
    /\ UNCHANGED <<map, gen, streamVars, opener, rd, rst, writer, net, cancel, up>>

----------------------------------------------------------------------------
(* read_pump: local reads become DATA, then FIN on EOF or RST on error.    *)

PumpRead(c) ==
    /\ pump[c] = "read"
    /\ \/ /\ c \in Senders /\ nread[c] < MaxChunks
          /\ nread' = [nread EXCEPT ![c] = @ + 1]
          /\ PumpGoto(c, "data")
       \/ /\ PumpGoto(c, "fin")
          /\ UNCHANGED nread
       \/ /\ "read" \in Faults
          /\ PumpGoto(c, "rst")
          /\ UNCHANGED nread
    /\ UNCHANGED <<map, gen, sid, state, wopen, got, taskVars, linkVars>>

\* `close` fired cancel_tx: the select! may take that branch (it may also
\* still take a ready read, so PumpRead stays enabled).
PumpCancelled(c) ==
    /\ pump[c] = "read"
    /\ state[c].closed
    /\ PumpGoto(c, "done")
    /\ UNCHANGED <<map, gen, sid, state, wopen, got, nread, taskVars, linkVars>>

PumpData(c) ==
    LET e == Side(c) IN
    /\ pump[c] = "data"
    /\ \/ /\ SendOk(e, NewData(sid[c], <<c, nread[c]>>))
          /\ PumpGoto(c, "read")
          /\ UNCHANGED <<state, wopen>>
       \/ /\ SendErr(e)
          /\ PumpGoto(c, "done")
          /\ Close(c)
    /\ UNCHANGED <<map, gen, sid, got, nread, taskVars, writer, net, cancel, up>>

PumpFin(c) ==
    /\ pump[c] = "fin"
    /\ SendAny(Side(c), NewFin(sid[c]))
    /\ PumpGoto(c, "eof")
    /\ UNCHANGED <<map, gen, sid, state, wopen, got, nread, taskVars, writer, net, cancel, up>>

\* Mutant: mark_local_eof's result is ignored.
PumpEofNeverCloses(c) ==
    /\ pump[c] = "eof"
    /\ PumpGoto(c, "done")
    /\ state' = MarkLocalEof(state, c)
    /\ UNCHANGED <<map, gen, sid, wopen, got, nread, taskVars, linkVars>>

\* mark_local_eof under the state mutex, and close when both sides are done.
PumpEof(c) ==
    /\ pump[c] = "eof"
    /\ PumpGoto(c, "done")
    /\ \/ /\ state[c].reof
          /\ state' = SetClosed(MarkLocalEof(state, c), c)
          /\ wopen' = [wopen EXCEPT ![c] = @ /\ WriteHeld(c)]
       \/ /\ ~state[c].reof
          /\ state' = MarkLocalEof(state, c)
          /\ UNCHANGED wopen
    /\ UNCHANGED <<map, gen, sid, got, nread, taskVars, linkVars>>

PumpRst(c) ==
    /\ pump[c] = "rst"
    /\ SendAny(Side(c), NewRst(sid[c], "local_read_error"))
    /\ PumpGoto(c, "done")
    /\ Close(c)
    /\ UNCHANGED <<map, gen, sid, got, nread, taskVars, writer, net, cancel, up>>

----------------------------------------------------------------------------
(* reader_loop and dispatch_frame.  Each handler takes one frame off the   *)
(* transport; a reply puts the reader in "send", where it waits for the    *)
(* outbound channel, and DATA in "write", where it waits for the local     *)
(* application to read: in both it receives nothing else.                  *)

Receiving(e, type) ==
    /\ rd[e].pc = "recv"
    /\ net[e] # <<>>
    /\ Head(net[e]).type = type

Take(e) == net' = [net EXCEPT ![e] = Tail(@)]

\* Mutant: every frame goes to the endpoint's oldest registered stream.
TargetOldest(e) ==
    IF map[e][Head(net[e]).id] = NoConn THEN NoConn
    ELSE map[e][CHOOSE i \in Active(e) : \A j \in Active(e) : i <= j]

\* streams.get(&frame.stream_id)
Target(e) ==
    IF Head(net[e]).id \in Ids THEN map[e][Head(net[e]).id] ELSE NoConn

\* The reader answers with f, then closes c (NoConn: nothing to close).
Reply(e, f, c) ==
    rd' = [rd EXCEPT ![e] = [pc |-> "send", frame |-> f, conn |-> c]]

HandleOpen(e) ==
    /\ Receiving(e, "OPEN")
    /\ Take(e)
    /\ \E d \in Dials :
          /\ Side(d) = e
          /\ acc[d].pc = "idle"
          /\ acc' = [acc EXCEPT ![d] = [pc |-> "check", id |-> Head(net[e]).id, why |-> "none"]]
    /\ UNCHANGED <<map, gen, streamVars, opener, rd, rst, writer, out, cancel, up>>

\* Mutant: OPEN_ACK resets the stream's state to a fresh, open one.
HandleOpenAckResets(e) ==
    LET c == Target(e) IN
    /\ Receiving(e, "OPEN_ACK")
    /\ Take(e)
    /\ \/ /\ c # NoConn
          /\ state' = [state EXCEPT ![c] = [NewState EXCEPT !.pending = FALSE]]
          /\ PumpGoto(c, IF pump[c] = "none" THEN "read" ELSE pump[c])
       \/ /\ c = NoConn
          /\ UNCHANGED <<state, pump>>
    /\ UNCHANGED <<map, gen, sid, wopen, got, nread, taskVars, writer, out, cancel, up>>

\* A second OPEN_ACK spawns a read_pump that finds the halves taken.
HandleOpenAck(e) ==
    LET c == Target(e) IN
    /\ Receiving(e, "OPEN_ACK")
    /\ Take(e)
    /\ \/ /\ c # NoConn
          /\ state' = SetOpen(state, c)
          /\ PumpGoto(c, IF pump[c] = "none" THEN "read" ELSE pump[c])
       \/ /\ c = NoConn
          /\ UNCHANGED <<state, pump>>
    /\ UNCHANGED <<map, gen, sid, wopen, got, nread, taskVars, writer, out, cancel, up>>

HandleNack(e) ==
    LET c == Target(e) IN
    /\ Receiving(e, "NACK")
    /\ Take(e)
    /\ \/ /\ c # NoConn
          /\ Unregister(e, Head(net[e]).id)
          /\ Close(c)
       \/ /\ c = NoConn
          /\ UNCHANGED <<map, state, wopen>>
    /\ UNCHANGED <<gen, sid, got, nread, pump, taskVars, writer, out, cancel, up>>

\* DATA for a registered stream: the reader takes the write half's lock and
\* is suspended in write_all, or fails at once if the half is shut down.
\* `got` has a chunk from the moment it is given to write_all.
DispatchData(e) ==
    LET c == Target(e) IN
    /\ Receiving(e, "DATA")
    /\ c # NoConn
    /\ Take(e)
    /\ \/ /\ wopen[c]
          /\ rd' = [rd EXCEPT ![e] = [ReaderAt("write") EXCEPT !.conn = c]]
          /\ got' = [got EXCEPT ![c] = Append(@, Head(net[e]).body)]
       \/ /\ ~wopen[c]
          /\ Reply(e, NewRst(sid[c], "local_write_error"), c)
          /\ UNCHANGED got
    /\ UNCHANGED <<map, gen, sid, state, wopen, nread, pump, opener, acc, rst, writer, out,
                   cancel, up>>

\* write_all returns, when the local application has taken the bytes (which
\* it may never do) or its connection failed.  A closer that waits for the
\* half gets it next.
LocalWritten(e) ==
    LET c == rd[e].conn IN
    /\ rd[e].pc = "write"
    /\ wopen' = [wopen EXCEPT ![c] = @ /\ ~state[c].closed]
    /\ \/ rd' = [rd EXCEPT ![e] = ReaderAt("recv")]
       \/ "write" \in Faults /\ Reply(e, NewRst(sid[c], "local_write_error"), c)
    /\ UNCHANGED <<map, gen, sid, state, got, nread, pump, opener, acc, rst, linkVars>>

DispatchFin(e) ==
    LET c == Target(e) IN
    /\ Receiving(e, "FIN")
    /\ c # NoConn
    /\ Take(e)
    /\ wopen' = [wopen EXCEPT ![c] = FALSE]
    /\ \/ state[c].leof /\ state' = SetClosed(MarkRemoteEof(state, c), c)
       \/ ~state[c].leof /\ state' = MarkRemoteEof(state, c)
    /\ UNCHANGED <<map, gen, sid, got, nread, pump, taskVars, writer, out, cancel, up>>

DispatchRst(e) ==
    LET c == Target(e) IN
    /\ Receiving(e, "RST")
    /\ Take(e)
    /\ \/ c # NoConn /\ Close(c)
       \/ c = NoConn /\ UNCHANGED <<state, wopen>>
    /\ UNCHANGED <<map, gen, sid, got, nread, pump, taskVars, writer, out, cancel, up>>

\* DATA or FIN for an id that is not in the map is answered with RST.
DispatchUnknown(e) ==
    /\ \E t \in {"DATA", "FIN"} : Receiving(e, t)
    /\ Target(e) = NoConn
    /\ Take(e)
    /\ Reply(e, NewRst(Head(net[e]).id, "stream_unknown"), NoConn)
    /\ UNCHANGED <<map, gen, streamVars, opener, acc, rst, writer, out, cancel, up>>

ReaderReply(e) ==
    /\ rd[e].pc = "send"
    /\ SendAny(e, rd[e].frame)
    /\ rd' = [rd EXCEPT ![e] = ReaderAt("recv")]
    /\ \/ rd[e].conn = NoConn /\ UNCHANGED <<state, wopen>>
       \/ rd[e].conn # NoConn /\ Close(rd[e].conn)
    /\ UNCHANGED <<map, gen, sid, got, nread, pump, opener, acc, rst, writer, net, cancel, up>>

----------------------------------------------------------------------------
(* Session::run after the reader loop returns: rst_all_streams takes the   *)
(* whole map under the lock, resets and closes the streams one by one, and *)
(* only then is the session's token cancelled.                             *)

\* The reader loop returns on cancellation, on a transport error or on the
\* peer's WebSocket close.
ReaderStops(e) ==
    /\ rd[e].pc = "recv"
    /\ \/ cancel[e]
       \/ Broken(e)
       \/ net[e] # <<>> /\ Head(net[e]).type = "CLOSE"
    /\ rd' = [rd EXCEPT ![e].pc = "rstall"]
    /\ rst' = [rst EXCEPT ![e] = {map[e][i] : i \in Active(e)}]
    /\ map' = [map EXCEPT ![e] = [i \in Ids |-> NoConn]]
    /\ UNCHANGED <<gen, streamVars, opener, acc, linkVars>>

RstStream(e) ==
    \E c \in rst[e] :
       /\ rd[e].pc = "rstall"
       /\ SendAny(e, NewRst(sid[c], "session closed"))
       /\ rst' = [rst EXCEPT ![e] = @ \ {c}]
       /\ Close(c)
       /\ UNCHANGED <<map, gen, sid, got, nread, pump, opener, acc, rd, writer, net, cancel, up>>

RunReturns(e) ==
    /\ rd[e].pc = "rstall"
    /\ rst[e] = {}
    /\ rd' = [rd EXCEPT ![e].pc = "done"]
    /\ cancel' = [cancel EXCEPT ![e] = TRUE]
    /\ UNCHANGED <<map, gen, streamVars, opener, acc, rst, writer, out, net, up>>

----------------------------------------------------------------------------
(* writer_task, stream_cleanup_loop, cancellation and the transport.       *)

\* One frame of the channel reaches the transport.
WriterSend(e) ==
    /\ writer[e] = "run"
    /\ up
    /\ out[e] # <<>>
    /\ HasRoom(e)
    /\ net' = [net EXCEPT ![Peer(e)] = Append(@, Head(out[e]))]
    /\ out' = [out EXCEPT ![e] = Tail(@)]
    /\ UNCHANGED <<map, gen, streamVars, taskVars, writer, cancel, up>>

\* The loop breaks on cancellation or when a write fails.
WriterStops(e) ==
    /\ writer[e] = "run"
    /\ cancel[e] \/ (Broken(e) /\ out[e] # <<>>)
    /\ writer' = [writer EXCEPT ![e] = "closing"]
    /\ UNCHANGED <<map, gen, streamVars, taskVars, out, net, cancel, up>>

\* sink.close() sends a WebSocket close, once the transport has room for it;
\* returning drops the receiver, and with it every frame still queued.
WriterCloses(e) ==
    /\ writer[e] = "closing"
    /\ Broken(e) \/ HasRoom(e)
    /\ writer' = [writer EXCEPT ![e] = "done"]
    /\ out' = [out EXCEPT ![e] = <<>>]
    /\ net' = IF up /\ HasRoom(e) THEN [net EXCEPT ![Peer(e)] = Append(@, CloseFrame)] ELSE net
    /\ UNCHANGED <<map, gen, streamVars, taskVars, cancel, up>>

\* Mutant: cleanup prunes a stream as soon as its own side sent FIN.
CleanupHalfClosed(e) ==
    /\ ~cancel[e]
    /\ \E i \in Active(e) : state[map[e][i]].leof
    /\ map' = [map EXCEPT ![e] =
                 [i \in Ids |-> IF @[i] # NoConn /\ state[@[i]].leof THEN NoConn ELSE @[i]]]
    /\ UNCHANGED <<gen, streamVars, taskVars, linkVars>>

\* streams.retain(|_, s| !s.is_closed()), every 30 s until cancellation.
Cleanup(e) ==
    /\ ~cancel[e]
    /\ \E i \in Active(e) : state[map[e][i]].closed
    /\ map' = [map EXCEPT ![e] =
                 [i \in Ids |-> IF @[i] # NoConn /\ state[@[i]].closed THEN NoConn ELSE @[i]]]
    /\ UNCHANGED <<gen, streamVars, taskVars, linkVars>>

\* A holder of cancel_token, or the heartbeat loop, cancels the session while
\* `run` goes on: it returns by way of rst_all_streams.
Cancel(e) ==
    /\ e \in Ends
    /\ ~cancel[e]
    /\ cancel' = [cancel EXCEPT ![e] = TRUE]
    /\ UNCHANGED <<map, gen, streamVars, taskVars, writer, out, net, up>>

\* The agent's own cancellation (the command's, on the client) fires the token
\* and drops `run` wherever it is suspended: a reply is not sent, the streams
\* are not reset, and a write in progress gives its half back.
AgentCancels ==
    /\ "agent" \in Ends
    /\ rd["client"].pc \notin {"done", "dropped"}
    /\ rd' = [rd EXCEPT !["client"] = ReaderAt("dropped")]
    /\ rst' = [rst EXCEPT !["client"] = {}]
    /\ cancel' = [cancel EXCEPT !["client"] = TRUE]
    /\ wopen' = [c \in Conns |->
                   wopen[c] /\ ~(Side(c) = "client" /\ WriteHeld(c) /\ state[c].closed)]
    /\ UNCHANGED <<map, gen, sid, state, got, nread, pump, opener, acc, writer, out, net, up>>

Disconnect ==
    /\ "transport" \in Ends
    /\ up
    /\ up' = FALSE
    /\ UNCHANGED <<map, gen, streamVars, taskVars, writer, out, net, cancel>>

----------------------------------------------------------------------------
OpenerStep(c) == OpenRemoteStream(c) \/ OpenSent(c)

AcceptStep(d) ==
    \/ AcceptCheck(d) \/ AcceptDial(d) \/ AcceptWait(d)
    \/ AcceptInsert(d) \/ AcceptAck(d) \/ AcceptNack(d)

PumpStep(c) ==
    \/ PumpRead(c) \/ PumpCancelled(c) \/ PumpData(c)
    \/ PumpFin(c) \/ PumpEof(c) \/ PumpRst(c)

ReaderStep(e) ==
    \/ HandleOpen(e) \/ HandleOpenAck(e) \/ HandleNack(e)
    \/ DispatchData(e) \/ DispatchFin(e) \/ DispatchRst(e) \/ DispatchUnknown(e)
    \/ ReaderReply(e) \/ ReaderStops(e) \/ RstStream(e) \/ RunReturns(e)

WriterStep(e) == WriterSend(e) \/ WriterStops(e) \/ WriterCloses(e)

\* Everything the session's own tasks do.
SessionNext ==
    \/ \E c \in Opens : OpenerStep(c)
    \/ \E d \in Dials : AcceptStep(d)
    \/ \E c \in Conns : PumpStep(c)
    \/ \E e \in Endpoints :
          ReaderStep(e) \/ LocalWritten(e) \/ WriterStep(e) \/ Cleanup(e)

\* The ways a session ends.
EndNext == Disconnect \/ AgentCancels \/ \E e \in Endpoints : Cancel(e)

Next == SessionNext \/ EndNext

Spec == Init /\ [][Next]_vars

\* Every spawned task is polled until it returns (tokio's scheduler and the
\* FIFO-fair channel), and the 30 s cleanup tick keeps coming.  No fairness
\* on PumpRead or LocalWritten: a local application need not send anything,
\* nor read what it is sent, ever; nor on what ends a session.
FairSpec ==
    /\ Spec
    /\ \A c \in Opens : WF_vars(OpenSent(c))
    /\ \A d \in Dials : WF_vars(AcceptStep(d))
    /\ \A c \in Conns : WF_vars(PumpData(c) \/ PumpFin(c) \/ PumpEof(c) \/ PumpRst(c))
    /\ \A e \in Endpoints : WF_vars(ReaderStep(e)) /\ WF_vars(WriterStep(e)) /\ WF_vars(Cleanup(e))

----------------------------------------------------------------------------
(* Properties.                                                             *)

StreamStates == [pending : BOOLEAN, leof : BOOLEAN, reof : BOOLEAN, closed : BOOLEAN]
PumpPcs == {"none", "read", "data", "fin", "eof", "rst", "done"}
AcceptPcs == {"idle", "check", "dial", "wait", "redial", "insert", "ack", "nack", "done"}
AcceptTasks == [pc : AcceptPcs, id : Ids \cup {0}, why : NackReasons]
Readers ==
    [pc : {"recv", "send", "rstall", "done", "dropped"}, frame : Frames, conn : Conns \cup {NoConn}]
        \cup [pc : {"write"}, frame : Frames, conn : Conns]

\* The type of every variable of a session.
TypeOK ==
    /\ map \in [Endpoints -> [Ids -> Conns \cup {NoConn}]]
    /\ gen \in [Endpoints -> Nat]
    /\ sid \in [Conns -> Ids \cup {0}]
    /\ state \in [Conns -> StreamStates]
    /\ wopen \in [Conns -> BOOLEAN]
    /\ got \in [Conns -> Seq(Bodies)]
    /\ nread \in [Conns -> 0..MaxChunks]
    /\ pump \in [Conns -> PumpPcs]
    /\ opener \in [Opens -> {"idle", "send", "done"}]
    /\ acc \in [Dials -> AcceptTasks]
    /\ rd \in [Endpoints -> Readers]
    /\ rst \in [Endpoints -> SUBSET Conns]
    /\ writer \in [Endpoints -> {"run", "closing", "done"}]
    /\ out \in [Endpoints -> Seq(Frames)]
    /\ net \in [Endpoints -> Seq(Frames)]
    /\ cancel \in [Endpoints -> BOOLEAN]
    /\ up \in BOOLEAN

\* The streams map and the Stream objects agree: a registered stream belongs
\* to this endpoint and carries the id it is registered under, so no stream
\* is reachable under two ids (open_remote_stream, handle_open_stream).
Registered ==
    \A e \in Endpoints : \A i \in Ids :
        map[e][i] # NoConn => Side(map[e][i]) = e /\ sid[map[e][i]] = i

\* A frame, the cleanup loop or rst_all_streams can still reach the stream:
\* it is registered while the reader runs, or it is in the set that
\* rst_all_streams has taken and not finished.
InReach(c) ==
    LET e == Side(c) IN
    \/ rd[e].pc \in {"recv", "send", "write"} /\ map[e][sid[c]] = c
    \/ rd[e].pc = "rstall" /\ c \in rst[e]

\* rst_all_streams had already taken the map when the stream was put in it.
RegisteredLate(c) ==
    LET e == Side(c) IN
    rd[e].pc \in {"rstall", "done"} /\ \E i \in Ids : map[e][i] = c

\* No connection is lost by a session that runs or ends by itself: a stream
\* that is not closed is in reach of something that can close it, unless it
\* was registered after rst_all_streams had taken the map (NoOrphanOnRetry is
\* about those), or the agent dropped `run`, which resets nothing.  Once the writer
\* is gone dialled streams are left out as well: a failed OPEN_ACK removes
\* whatever is under its id by then, its own stream or a later one.
NoLeak ==
    \A c \in Conns :
        sid[c] # 0 /\ ~state[c].closed =>
            \/ InReach(c)
            \/ RegisteredLate(c)
            \/ rd[Side(c)].pc = "dropped"
            \/ c \in Dials /\ writer[Side(c)] = "done"

\* What a local connection receives is a prefix of what one connection of the
\* peer sent on the same stream id, in order, without loss or duplication
\* before the prefix ends, and never mixed with another stream's bytes.
StreamIntegrity ==
    \A c \in Conns : got[c] # <<>> =>
        LET src == got[c][1][1] IN
        /\ Side(src) # Side(c)
        /\ sid[src] = sid[c]
        /\ \A i \in DOMAIN got[c] : got[c][i] = <<src, i>>

\* Ids of the two parities never collide: between two endpoints running this
\* code no OPEN is ever refused for its id, however the two sides' opens
\* cross on the wire (IdGenerator and handle_open_stream's two checks).
IdsNeverCollide ==
    \A d \in Dials : acc[d].why \notin {"invalid_stream_id", "stream_id_conflict"}

\* A running endpoint meets DATA or FIN for an id missing from its map only
\* when it has itself closed that stream: a stream is registered before the
\* OPEN_ACK that lets the peer send on it, and leaves the map only closed.
NoEarlyData ==
    \A e \in Endpoints :
        /\ rd[e].pc = "recv"
        /\ net[e] # <<>>
        /\ Head(net[e]).type \in {"DATA", "FIN"}
        /\ Target(e) = NoConn
        => \E c \in Conns : Side(c) = e /\ sid[c] = Head(net[e]).id /\ state[c].closed

\* The opener of a stream has seen OPEN_ACK before the first DATA or FIN for
\* it: no frame is dispatched to a stream still OPENING at its opener.
AckPrecedesData ==
    \A e \in Endpoints :
        /\ rd[e].pc = "recv"
        /\ net[e] # <<>>
        /\ Head(net[e]).type \in {"DATA", "FIN"}
        /\ Target(e) \in Opens
        => ~state[Target(e)].pending

\* mark_local_eof runs in the read pump and mark_remote_eof in the reader;
\* whichever comes second sees both flags and closes the stream.
BothEofClosed == \A c \in Conns : state[c].leof /\ state[c].reof => state[c].closed

StateAdvances ==
    \A c \in Conns :
        /\ ~state[c].pending => ~state'[c].pending
        /\ state[c].leof => state'[c].leof
        /\ state[c].reof => state'[c].reof
        /\ state[c].closed => state'[c].closed
        /\ ~wopen[c] => ~wopen'[c] /\ got'[c] = got[c]

\* StreamState only moves forward, whatever frames arrive in whatever order:
\* a stream never goes back to OPENING, a half once closed is never reopened,
\* and the local connection takes no bytes after its write half was shut down.
StateMonotonic == [][StateAdvances]_vars

\* The reader waits to send a reply, and its channel is full.
ReplyBlocked(e) == rd[e].pc = "send" /\ Len(out[e]) = Capacity

\* No frame moves any more: the transport is full both ways, and each reader
\* waits to send a reply, or has stopped while its writer waits for room.  A
\* reader that does not read keeps the other's writer, and so the other's
\* reader, from moving.
Gridlock ==
    /\ \E e \in Endpoints : ReplyBlocked(e)
    /\ \A e \in Endpoints :
          /\ Len(net[e]) = WireCap
          /\ ReplyBlocked(e) \/ (rd[e].pc \in {"rstall", "done"} /\ writer[e] # "done")

\* Every local application goes on reading what the session writes to it.  One
\* that does not stops the reader, and with it every stream of the session.
AppsRead == \A e \in Endpoints : []<>(rd[e].pc # "write")

\* Every OPEN is answered while applications read: a stream whose OPEN was
\* queued by a session that runs does not stay OPENING for ever, whatever the
\* dials do and whichever side ends the session (open_remote_stream has no
\* timeout and waits for OPEN_ACK, NACK or the session's end).  What can
\* prevent it is the agent dropping `run`, or the two readers blocking each
\* other.
OpenAnswered ==
    AppsRead =>
        \A c \in Opens :
            (opener[c] = "done" /\ rd[Side(c)].pc \in {"recv", "send", "write"})
                ~> \/ ~state[c].pending \/ state[c].closed
                   \/ rd[Side(c)].pc = "dropped" \/ Gridlock

\* A dial that is retried after its 200 ms wait does not go on to register its
\* stream once rst_all_streams has taken the map: handle_open_stream's comment
\* says that racing the wait against the cancellation prevents this.
NoOrphanOnRetry ==
    [][\A d \in Dials :
          acc[d].pc = "redial" /\ acc'[d].pc = "insert"
             => rd[Side(d)].pc \notin {"rstall", "done"}]_vars

\* A stream both of whose applications have finished sending is eventually
\* closed at both ends and gone from both maps, while applications read;
\* what can prevent it is the two readers blocking each other in
\* dispatch_frame's replies, the agent dropping `run`, or the stream having
\* been registered when its session was over.
HalfCloseCompletes ==
    AppsRead =>
        \A c \in Opens, d \in Dials :
            (Side(c) # Side(d) /\ sid[c] = sid[d] /\ state[c].leof /\ state[d].leof)
                ~> \/ \A e \in Endpoints : \A i \in Ids : map[e][i] \notin {c, d}
                   \/ Gridlock \/ rd["client"].pc = "dropped"
                   \/ RegisteredLate(c) \/ RegisteredLate(d)

============================================================================
