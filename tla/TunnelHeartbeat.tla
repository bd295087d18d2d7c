-------------------------- MODULE TunnelHeartbeat --------------------------
(***************************************************************************)
(* One endpoint of a debug session seen through its clocks: heartbeat_loop *)
(* with its PONG deadline and idle timeout, the reader loop, and the       *)
(* writer task with the bounded channel they share.  Unlike TunnelSession, *)
(* the writer's `sink.send(..).await` is a state of its own here: a frame  *)
(* can be stuck in it while the peer reads nothing.                        *)
(*                                                                         *)
(* Time is discrete.  Timers count down (or up, for `idle`) on Pass, which *)
(* waits for every task that could run: the tasks are fast, the peer slow. *)
(***************************************************************************)
EXTENDS Naturals, Sequences

CONSTANTS
    Roles,            \* "client" (passive), "server" (sends PING) or both
    Interval,         \* heartbeat tick; for a client the 1 s of a zero interval
    PongTimeout,
    IdleTimeout,
    PeerDelay,        \* the live peer's next frame comes within this time
    ChannelCapacity,  \* OUTBOUND_CHANNEL_CAPACITY
    Streams,          \* bound: open streams, each reset when the session ends
    HeartbeatFaults   \* bound: "stall" (the peer stops reading and sending, the
                      \* connection stays up), "data" (local streams send DATA),
                      \* "local" (local applications may not read what the
                      \* reader writes to them), "cancel" (the owner cancels)

\* What the constants are; a theorem about this module takes it as hypothesis.
HeartbeatConstants ==
    /\ Roles \subseteq {"client", "server"}
    /\ Interval \in Nat \ {0} /\ PongTimeout \in Nat \ {0} /\ IdleTimeout \in Nat
    /\ PeerDelay \in Nat /\ ChannelCapacity \in Nat \ {0} /\ Streams \in Nat
    /\ HeartbeatFaults \subseteq {"stall", "data", "local", "cancel"}

Never == PeerDelay + 1   \* `due` when no frame of the peer is expected

VARIABLES
    role,      \* SessionRole
    hb,        \* heartbeat_loop: "select", "write" or "stopped"
    toTick,    \* time to the next tick
    awaiting,  \* HeartbeatState.awaiting_pong
    pongLeft,  \* time to pong_deadline (0: passed)
    idle,      \* time since last_activity, up to IdleTimeout + 1
    reader,    \* reader_loop: "recv", "reply", "write" (in a local write_all);
               \* then run: "rstall", "join" (awaits the heartbeat), "done"
    resets,    \* RST frames rst_all_streams still has to send
    out,       \* the outbound channel
    writer,    \* writer_task: "recv", the frame in sink.send, "closing" (in
               \* sink.close), "done"
    cancel,    \* the session's CancellationToken
    owner,     \* history: its owner cancelled it
    peer,      \* "live", "stalling" (frames it sent may still be unread) or
               \* "stalled"
    due,       \* time within which the peer's next frame arrives
    overdue,   \* history: that frame has arrived and is waiting to be read
    silent     \* history: time since the peer stalled, or since a frame of it
               \* was read after that, up to DetectBound + 1

clockVars == <<toTick, pongLeft, idle, due, overdue, silent>>
heartbeatVars == <<role, hb, awaiting, reader, resets, out, writer, cancel, owner, peer,
                   clockVars>>

Earlier(a, b) == IF a < b THEN a ELSE b
Less(t) == IF t = 0 THEN 0 ELSE t - 1

\* Ticks until the first one at or after the deadline, in time units.
DeadlineTick == ((PongTimeout + Interval - 1) \div Interval) * Interval

\* Settings of the two ends under which a live peer must not be cut off: its
\* PONG comes before the tick that tests the deadline, and its next PING, or for
\* a server the next tick of its own, before the idle timeout.
LivePeerSettings ==
    /\ PeerDelay < DeadlineTick
    /\ IdleTimeout # 0 /\ "client" \in Roles => PeerDelay <= IdleTimeout
    /\ IdleTimeout # 0 /\ "server" \in Roles => Interval <= IdleTimeout

\* The longest a silent peer can go unnoticed: up to one interval to the next
\* PING (or idle check), then the deadline; one idle period for a client.
DetectBound ==
    IF role = "server" THEN Interval + DeadlineTick ELSE IdleTimeout + Interval

HeartbeatInit ==
    /\ role \in Roles
    /\ hb = "select"
    /\ toTick = Interval
    /\ awaiting = FALSE
    /\ pongLeft = 0
    /\ idle = 0
    /\ reader = "recv"
    /\ resets = Streams
    /\ out = <<>>
    /\ writer = "recv"
    /\ cancel = FALSE
    /\ owner = FALSE
    /\ peer = "live"
    /\ due = IF role = "server" THEN Never ELSE PeerDelay
    /\ overdue = FALSE
    /\ silent = 0

----------------------------------------------------------------------------
(* write_frame and writer_task.                                            *)

\* What a frame is to this module; a REPLY is the reader's PONG, or its RST
\* for a failed local write.
FrameNames == {"PING", "REPLY", "RST", "DATA"}

Room == Len(out) < ChannelCapacity

Send(f) ==
    \/ writer # "done" /\ Room /\ out' = Append(out, f)
    \/ writer = "done" /\ UNCHANGED out

WriterTake ==
    /\ writer = "recv" /\ out # <<>>
    /\ writer' = Head(out)
    /\ out' = Tail(out)
    /\ UNCHANGED <<hb, awaiting, reader, resets, cancel, peer, clockVars>>

\* A PING on the wire makes the peer owe a PONG.
WriterSent ==
    /\ writer \in FrameNames
    /\ peer = "live"
    /\ writer' = "recv"
    /\ due' = IF writer = "PING" THEN Earlier(due, PeerDelay) ELSE due
    /\ UNCHANGED <<hb, awaiting, reader, resets, out, cancel, peer, toTick, pongLeft, idle,
                   overdue, silent>>

\* The select! sees the token only between two frames.
WriterStops ==
    /\ writer = "recv" /\ cancel
    /\ writer' = "closing"
    /\ UNCHANGED <<hb, awaiting, reader, resets, out, cancel, peer, clockVars>>

\* sink.close() waits for the transport like any send; returning drops the
\* receiver and every frame still queued.
WriterCloses ==
    /\ writer = "closing" /\ peer = "live"
    /\ writer' = "done"
    /\ out' = <<>>
    /\ UNCHANGED <<hb, awaiting, reader, resets, cancel, peer, clockVars>>

----------------------------------------------------------------------------
(* heartbeat_loop.                                                         *)

TickDue  == hb = "select" /\ toTick = 0
TimedOut == awaiting /\ pongLeft = 0

\* Mutant: a session idle for exactly the timeout is cut.
IdleTooLongEarly == IdleTimeout # 0 /\ idle >= IdleTimeout

\* Mutant: the timeout is doubled.
IdleTooLongLate == IdleTimeout # 0 /\ idle > 2 * IdleTimeout

IdleTooLong == IdleTimeout # 0 /\ idle > IdleTimeout

Stop(h) ==
    /\ hb' = "stopped"
    /\ cancel' = (cancel \/ h)

\* The last part of an iteration.
CheckIdle ==
    \/ IdleTooLong /\ Stop(TRUE)
    \/ ~IdleTooLong /\ hb' = "select" /\ UNCHANGED cancel

HeartbeatStops ==
    /\ hb = "select" /\ cancel
    /\ Stop(FALSE)
    /\ UNCHANGED <<awaiting, reader, resets, out, writer, peer, clockVars>>

\* The deadline is set before the PING is queued; while a PONG is awaited the
\* iteration ends there, without an idle check.
TickServer ==
    /\ role = "server" /\ TickDue
    /\ toTick' = Interval
    /\ \/ TimedOut /\ Stop(TRUE) /\ UNCHANGED <<awaiting, pongLeft>>
       \/ awaiting /\ ~TimedOut /\ UNCHANGED <<hb, cancel, awaiting, pongLeft>>
       \/ /\ ~awaiting
          /\ awaiting' = TRUE
          /\ pongLeft' = PongTimeout
          /\ hb' = "write"
          /\ UNCHANGED cancel
    /\ UNCHANGED <<reader, resets, out, writer, peer, idle, due, overdue, silent>>

TickClient ==
    /\ role = "client" /\ TickDue
    /\ toTick' = Interval
    /\ CheckIdle
    /\ UNCHANGED <<awaiting, pongLeft, reader, resets, out, writer, peer, idle, due, overdue,
                   silent>>

\* write_frame(PING) returns: a closed channel ends the session.
PingQueued ==
    /\ hb = "write"
    /\ Send("PING")
    /\ \/ writer = "done" /\ Stop(TRUE)
       \/ writer # "done" /\ CheckIdle
    /\ UNCHANGED <<awaiting, reader, resets, writer, peer, clockVars>>

----------------------------------------------------------------------------
(* reader_loop, and run once it has returned.                              *)

\* Every frame is activity.  A frame that the peer sent before it stalled is
\* read as long as no time passes in which the reader could have read it.
Receives ==
    /\ reader = "recv" /\ peer # "stalled"
    /\ idle' = 0
    /\ silent' = 0

\* A run that was cut off for an unread frame stays so when the frame is read.
DueRead(d) ==
    /\ due' = d
    /\ overdue' = (overdue /\ cancel)

\* PING is answered by the reader itself.
ReceivePing ==
    /\ Receives /\ role = "client"
    /\ DueRead(PeerDelay)
    /\ reader' = "reply"
    /\ UNCHANGED <<hb, awaiting, resets, out, writer, cancel, peer, toTick, pongLeft>>

\* ack_pong: any PONG clears awaiting_pong.
ReceivePong ==
    /\ Receives /\ role = "server" /\ due # Never
    /\ DueRead(Never)
    /\ awaiting' = FALSE
    /\ UNCHANGED <<hb, reader, resets, out, writer, cancel, peer, toTick, pongLeft>>

\* Any other frame is handled at once, or answered with a frame, or is DATA
\* and takes the reader into the local connection's write_all.
ReceiveOther ==
    /\ Receives
    /\ \/ reader' \in {"recv", "reply"}
       \/ "local" \in HeartbeatFaults /\ reader' = "write"
    /\ UNCHANGED <<hb, awaiting, resets, out, writer, cancel, peer, toTick, pongLeft, due,
                   overdue>>

\* write_all returns, at any time or never; an error is answered with RST.
LocalWritten ==
    /\ reader = "write"
    /\ reader' \in {"recv", "reply"}
    /\ UNCHANGED <<hb, awaiting, resets, out, writer, cancel, peer, clockVars>>

ReplyQueued ==
    /\ reader = "reply"
    /\ Send("REPLY")
    /\ reader' = "recv"
    /\ UNCHANGED <<hb, awaiting, resets, writer, cancel, peer, clockVars>>

ReaderStops ==
    /\ reader = "recv" /\ cancel
    /\ reader' = "rstall"
    /\ UNCHANGED <<hb, awaiting, resets, out, writer, cancel, peer, clockVars>>

\* Mutant: a stream whose RST could not be sent is tried again.
RstAllStreamsRetries ==
    /\ reader = "rstall" /\ resets > 0
    /\ Send("RST")
    /\ resets' = IF writer = "done" THEN resets ELSE resets - 1
    /\ UNCHANGED <<hb, awaiting, reader, writer, cancel, peer, clockVars>>

RstAllStreams ==
    /\ reader = "rstall" /\ resets > 0
    /\ Send("RST")
    /\ resets' = resets - 1
    /\ UNCHANGED <<hb, awaiting, reader, writer, cancel, peer, clockVars>>

\* Then run cancels the token itself and awaits the heartbeat loop (and the
\* cleanup loop, which has nothing to wait for).
RunCancels ==
    /\ reader = "rstall" /\ resets = 0
    /\ reader' = "join"
    /\ cancel' = TRUE
    /\ UNCHANGED <<hb, awaiting, resets, out, writer, peer, clockVars>>

RunEnds ==
    /\ reader = "join" /\ hb = "stopped"
    /\ reader' = "done"
    /\ UNCHANGED <<hb, awaiting, resets, out, writer, cancel, peer, clockVars>>

----------------------------------------------------------------------------
(* The surroundings: local streams, the peer, the owner, time.             *)

PumpSends ==
    /\ "data" \in HeartbeatFaults
    /\ Room /\ writer # "done" /\ ~cancel
    /\ out' = Append(out, "DATA")
    /\ UNCHANGED <<hb, awaiting, reader, resets, writer, cancel, peer, clockVars>>

PeerStalls ==
    /\ "stall" \in HeartbeatFaults /\ peer = "live"
    /\ peer' = "stalling"
    /\ UNCHANGED <<hb, awaiting, reader, resets, out, writer, cancel, clockVars>>

OwnerCancels ==
    /\ "cancel" \in HeartbeatFaults /\ ~cancel
    /\ cancel' = TRUE
    /\ owner' = TRUE
    /\ UNCHANGED <<hb, awaiting, reader, resets, out, writer, peer, clockVars>>

\* Time passes when no task of the session can move (a local application may
\* keep the reader in write_all) and the reader has read what has arrived.
Quiet ==
    /\ ~TickDue /\ ~(hb = "select" /\ cancel)
    /\ ~(hb = "write" /\ (Room \/ writer = "done"))
    /\ ~(writer = "recv" /\ (out # <<>> \/ cancel))
    /\ ~(writer \notin {"recv", "done"} /\ peer = "live")
    /\ ~(reader = "recv" /\ cancel)
    /\ ~(reader = "reply" /\ (Room \/ writer = "done"))
    /\ ~(reader = "rstall" /\ (resets = 0 \/ Room \/ writer = "done"))
    /\ ~(reader = "join" /\ hb = "stopped")
    /\ peer = "live" => due # 0 \/ reader # "recv"

Pass ==
    /\ Quiet
    /\ toTick' = Less(toTick)
    /\ pongLeft' = Less(pongLeft)
    /\ idle' = Earlier(idle + 1, IdleTimeout + 1)
    /\ due' = IF due = Never THEN Never ELSE Less(due)
    /\ overdue' = (overdue \/ (peer = "live" /\ due = 0))
    /\ silent' = IF peer # "live" THEN Earlier(silent + 1, DetectBound + 1) ELSE 0
    /\ peer' = IF peer = "stalling" /\ reader # "write" THEN "stalled" ELSE peer
    /\ UNCHANGED <<hb, awaiting, reader, resets, out, writer, cancel>>

----------------------------------------------------------------------------
HeartbeatStep == HeartbeatStops \/ TickServer \/ TickClient \/ PingQueued
ReaderStep ==
    \/ ReceivePing \/ ReceivePong \/ ReceiveOther \/ LocalWritten \/ ReplyQueued
    \/ ReaderStops \/ RstAllStreams \/ RunCancels \/ RunEnds
WriterStep == WriterTake \/ WriterSent \/ WriterStops \/ WriterCloses

HeartbeatNext ==
    /\ \/ OwnerCancels
       \/ /\ HeartbeatStep \/ ReaderStep \/ WriterStep \/ PumpSends \/ PeerStalls \/ Pass
          /\ UNCHANGED owner
    /\ UNCHANGED role

HeartbeatSpec == HeartbeatInit /\ [][HeartbeatNext]_heartbeatVars

Runs(A) == A /\ UNCHANGED <<role, owner>>

\* The endpoint's own tasks are scheduled and its clock runs; the peer owes
\* nothing once it has stalled, local applications need neither send nor read
\* (no fairness on PumpSends and LocalWritten).  tokio's
\* select! picks among its ready branches at random, so a token that stays
\* cancelled is not passed over for ever in favour of incoming frames.
HeartbeatFairness ==
    /\ WF_heartbeatVars(Runs(HeartbeatStep))
    /\ WF_heartbeatVars(Runs(WriterStep))
    /\ WF_heartbeatVars(Runs(Pass))
    /\ WF_heartbeatVars(Runs(ReplyQueued \/ RstAllStreams \/ RunCancels \/ RunEnds))
    /\ SF_heartbeatVars(Runs(ReaderStops))

HeartbeatFairSpec == HeartbeatSpec /\ HeartbeatFairness

----------------------------------------------------------------------------
\* The type of every variable.
HeartbeatTypeOK ==
    /\ role \in Roles
    /\ hb \in {"select", "write", "stopped"}
    /\ toTick \in 0..Interval
    /\ awaiting \in BOOLEAN /\ cancel \in BOOLEAN /\ owner \in BOOLEAN
    /\ pongLeft \in 0..PongTimeout
    /\ idle \in 0..(IdleTimeout + 1)
    /\ reader \in {"recv", "reply", "write", "rstall", "join", "done"}
    /\ resets \in 0..Streams
    /\ out \in Seq(FrameNames) /\ Len(out) <= ChannelCapacity
    /\ writer \in FrameNames \union {"recv", "closing", "done"}
    /\ peer \in {"live", "stalling", "stalled"}
    /\ due \in 0..Never
    /\ overdue \in BOOLEAN
    /\ silent \in 0..(DetectBound + 1)

\* A peer that stays live, and whose next frame always comes within PeerDelay,
\* is not cut off, neither by the PONG deadline, which is set before the PING
\* is queued and tested only on ticks, nor by the idle timeout, however busy
\* the outbound channel is: except while its frame lies unread because a local
\* application does not read and the reader is suspended in writing to it.
NoFalseTimeout == cancel => owner \/ peer # "live" \/ overdue

\* A peer that has gone silent is noticed in bounded time from the last frame
\* that was read of it, unless its silence has filled the outbound channel and
\* blocked the heartbeat's own PING.
DetectedInTime ==
    silent > DetectBound => cancel \/ (hb = "write" /\ ~Room)

\* After cancellation, by its owner or by the heartbeat, `run` resets its
\* streams, waits for the heartbeat and returns, if local applications go on
\* reading (in write_all the reader does not see the token); only a peer that
\* reads nothing, with a frame or the close stuck on its way to it, can keep it.
RunReturns ==
    []<>(reader # "write") =>
        (cancel ~> reader = "done" \/ (peer # "live" /\ writer \notin {"recv", "done"}))

============================================================================
