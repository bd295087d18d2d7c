---------------------------- MODULE PartsProofs ----------------------------
(***************************************************************************)
(* The small components MCParts checks, for every value of their           *)
(* constants: the heartbeat, the stream-id generator and the AMS upload.   *)
(* TunnelRpc's proofs are in TunnelRpcProofs.                              *)
(*                                                                         *)
(* Heartbeat.  Both properties are about how the countdowns of several     *)
(* actions relate.  Clocks bounds the silence of a stalled peer by what    *)
(* the loop can still read off its own clocks; Answered bounds how long a  *)
(* live peer can still take by how long ago the deadline was set.  The     *)
(* deadline is tested on ticks only, so both count in whole intervals.     *)
(*                                                                         *)
(* Generator.  InRange is inductive as it is.  That the loop returns the   *)
(* reference's id needs what a running call has already passed: Searched.  *)
(*                                                                         *)
(* Upload.  Uploaded relates the ETags, the object and the image record;   *)
(* the joined parts are the archive by the least part that would differ.   *)
(***************************************************************************)
EXTENDS IdGenerator, TunnelHeartbeat, AmsUpload, SequenceTheorems, WellFoundedInduction, TLAPS

----------------------------------------------------------------------------
(* Ticks.  m is a number of whole intervals.                               *)

Intervals(m) == \E k \in Nat : m = k * Interval

\* The interval after a whole number of intervals.
LEMMA WholeNext ==
    ASSUME HeartbeatConstants, NEW m, Intervals(m)
    PROVE  m \in Nat /\ Intervals(m + Interval)
<1>1. PICK k \in Nat : m = k * Interval
  BY DEF Intervals
<1>2. k * Interval \in Nat /\ (k + 1) * Interval = k * Interval + Interval
  BY DEF HeartbeatConstants
<1> QED BY <1>1, <1>2 DEF Intervals

\* None is a whole number of them.
LEMMA NoIntervals == ASSUME HeartbeatConstants PROVE Intervals(0)
BY DEF HeartbeatConstants, Intervals

\* DeadlineTick is the first tick at or after the deadline.
LEMMA FirstTick ==
    ASSUME HeartbeatConstants
    PROVE  /\ DeadlineTick \in Nat /\ DeadlineTick >= Interval /\ Intervals(DeadlineTick)
           /\ \A m : Intervals(m) /\ m < PongTimeout => m + Interval <= DeadlineTick
           /\ \A m : Intervals(m) /\ m >= PongTimeout => m >= DeadlineTick
<1> DEFINE x == PongTimeout + Interval - 1
           q == x \div Interval
<1>1. Interval \in Nat /\ Interval > 0 /\ PongTimeout \in Nat /\ PongTimeout > 0 /\ x \in Nat
  BY DEF HeartbeatConstants
<1>2. q \in Nat /\ q * Interval <= x /\ x < q * Interval + Interval
  BY <1>1
<1> HIDE DEF q
<1>3. q * Interval \in Nat /\ q * Interval >= PongTimeout /\ q * Interval < PongTimeout + Interval
  BY <1>1, <1>2
<1>4. DeadlineTick = q * Interval
  BY DEF DeadlineTick, q
<1>5. ASSUME NEW m, Intervals(m), m < PongTimeout PROVE m + Interval <= q * Interval
  <2>1. PICK k \in Nat : m = k * Interval
    BY <1>5 DEF Intervals
  <2>2. k * Interval < q * Interval
    BY <1>1, <1>3, <1>5, <2>1
  <2>3. k < q
    BY <1>1, <1>2, <2>2
  <2>4. k * Interval + Interval <= q * Interval
    BY <1>1, <1>2, <2>3
  <2> QED BY <2>1, <2>4
<1>6. ASSUME NEW m, Intervals(m), m >= PongTimeout PROVE m >= q * Interval
  <2>1. PICK k \in Nat : m = k * Interval
    BY <1>6 DEF Intervals
  <2>2. CASE k < q
    <3>1. k * Interval + Interval <= q * Interval
      BY <1>1, <1>2, <2>2
    <3>2. k * Interval \in Nat
      BY <1>1
    <3> QED BY <1>1, <1>3, <1>6, <2>1, <3>1, <3>2
  <2>3. CASE k >= q
    BY <1>1, <1>2, <2>1, <2>3
  <2> QED BY <1>2, <2>2, <2>3
<1>7. q * Interval >= Interval
  <2>1. 0 < PongTimeout /\ Intervals(0)
    BY <1>1, NoIntervals
  <2> QED BY <1>1, <1>3, <1>5, <2>1
<1> QED BY <1>2, <1>3, <1>4, <1>5, <1>6, <1>7 DEF Intervals

----------------------------------------------------------------------------
(* The type.                                                               *)

\* The constants and the bounds made of them are numbers.
LEMMA Bounds ==
    ASSUME HeartbeatConstants, role \in Roles
    PROVE  /\ Interval \in Nat /\ Interval > 0 /\ PongTimeout \in Nat /\ PongTimeout > 0
           /\ IdleTimeout \in Nat /\ PeerDelay \in Nat /\ Never = PeerDelay + 1
           /\ ChannelCapacity \in Nat /\ ChannelCapacity > 0 /\ Streams \in Nat
           /\ DetectBound \in Nat
           /\ role \in {"client", "server"}
BY FirstTick DEF HeartbeatConstants, Never, DetectBound

\* A queued frame keeps the channel within its capacity.
LEMMA SendTyped ==
    ASSUME out \in Seq(FrameNames), Len(out) <= ChannelCapacity, HeartbeatConstants,
           NEW f \in FrameNames, Send(f)
    PROVE  out' \in Seq(FrameNames) /\ Len(out') <= ChannelCapacity
BY DEF Send, Room, HeartbeatConstants

\* Every step keeps the types.
LEMMA TypeStep ==
    ASSUME HeartbeatConstants, HeartbeatTypeOK, [HeartbeatNext]_heartbeatVars
    PROVE  HeartbeatTypeOK'
<1>1. /\ Interval \in Nat /\ Interval > 0 /\ PongTimeout \in Nat /\ PongTimeout > 0
      /\ IdleTimeout \in Nat /\ PeerDelay \in Nat /\ Never = PeerDelay + 1
      /\ ChannelCapacity \in Nat /\ ChannelCapacity > 0 /\ Streams \in Nat
      /\ DetectBound \in Nat
  BY Bounds DEF HeartbeatTypeOK
<1>2. DetectBound' = DetectBound
  BY DEF HeartbeatNext, heartbeatVars, DetectBound
<1>3. \A f \in FrameNames : Send(f) => out' \in Seq(FrameNames) /\ Len(out') <= ChannelCapacity
  BY SendTyped DEF HeartbeatTypeOK
<1>4. {"PING", "REPLY", "RST", "DATA"} \subseteq FrameNames
  BY DEF FrameNames
<1>5. ASSUME HeartbeatStep, UNCHANGED <<role, owner>> PROVE HeartbeatTypeOK'
  <2>1. CASE HeartbeatStops
    BY <1>2, <1>5, <2>1 DEF HeartbeatTypeOK, HeartbeatStops, Stop, clockVars
  <2>2. CASE TickServer
    <3>0. awaiting' \in BOOLEAN /\ pongLeft' \in {pongLeft, PongTimeout} /\ toTick' = Interval
      BY <2>2, Zenon DEF HeartbeatTypeOK, TickServer
    <3>1. toTick' \in 0..Interval /\ awaiting' \in BOOLEAN /\ pongLeft' \in 0..PongTimeout
      BY <1>1, <3>0 DEF HeartbeatTypeOK
    <3>2. hb' \in {"select", "write", "stopped"} /\ cancel' \in BOOLEAN
      BY <2>2 DEF HeartbeatTypeOK, TickServer, Stop
    <3> QED BY <1>2, <1>5, <2>2, <3>1, <3>2 DEF HeartbeatTypeOK, TickServer
  <2>3. CASE TickClient
    <3>1. toTick' \in 0..Interval
      BY <1>1, <2>3 DEF TickClient
    <3>2. hb' \in {"select", "write", "stopped"} /\ cancel' \in BOOLEAN
      BY <2>3 DEF HeartbeatTypeOK, TickClient, CheckIdle, Stop
    <3> QED BY <1>2, <1>5, <2>3, <3>1, <3>2 DEF HeartbeatTypeOK, TickClient
  <2>4. CASE PingQueued
    BY <1>2, <1>3, <1>4, <1>5, <2>4 DEF HeartbeatTypeOK, PingQueued, Stop, CheckIdle, clockVars
  <2> QED BY <1>5, <2>1, <2>2, <2>3, <2>4 DEF HeartbeatStep
<1>6. ASSUME ReaderStep, UNCHANGED <<role, owner>> PROVE HeartbeatTypeOK'
  <2>1. CASE ReceivePing \/ ReceivePong \/ ReceiveOther
    <3>1. idle' \in 0..(IdleTimeout + 1) /\ due' \in 0..Never /\ silent' \in 0..(DetectBound + 1)
      BY <1>1, <2>1 DEF HeartbeatTypeOK, ReceivePing, ReceivePong, ReceiveOther, Receives, DueRead
    <3>2. awaiting' \in BOOLEAN /\ overdue' \in BOOLEAN
          /\ reader' \in {"recv", "reply", "write", "rstall", "join", "done"}
      BY <2>1, Zenon DEF HeartbeatTypeOK, ReceivePing, ReceivePong, ReceiveOther, Receives,
         DueRead
    <3>3. UNCHANGED <<role, owner, hb, resets, out, writer, cancel, peer, toTick, pongLeft>>
      BY <1>6, <2>1 DEF ReceivePing, ReceivePong, ReceiveOther
    <3> QED BY <1>2, <3>1, <3>2, <3>3 DEF HeartbeatTypeOK
  <2>2. CASE LocalWritten \/ ReaderStops \/ RunCancels \/ RunEnds
    BY <1>2, <1>6, <2>2 DEF HeartbeatTypeOK, LocalWritten, ReaderStops, RunCancels, RunEnds,
       clockVars
  <2>3. CASE ReplyQueued
    BY <1>2, <1>3, <1>4, <1>6, <2>3 DEF HeartbeatTypeOK, ReplyQueued, clockVars
  <2>4. CASE RstAllStreams
    <3>1. out' \in Seq(FrameNames) /\ Len(out') <= ChannelCapacity
      BY <1>3, <1>4, <2>4 DEF RstAllStreams
    <3>2. resets' \in 0..Streams
      BY <1>1, <2>4 DEF RstAllStreams, HeartbeatTypeOK
    <3> QED BY <1>2, <1>6, <2>4, <3>1, <3>2 DEF HeartbeatTypeOK, RstAllStreams, clockVars
  <2> QED BY <1>6, <2>1, <2>2, <2>3, <2>4 DEF ReaderStep
<1>7. ASSUME WriterStep, UNCHANGED <<role, owner>> PROVE HeartbeatTypeOK'
  <2>1. CASE WriterTake
    BY <1>1, <1>2, <1>7, <2>1 DEF HeartbeatTypeOK, WriterTake, clockVars
  <2>2. CASE WriterSent
    BY <1>1, <1>2, <1>7, <2>2 DEF HeartbeatTypeOK, WriterSent, Earlier
  <2>3. CASE WriterStops
    BY <1>1, <1>2, <1>7, <2>3 DEF HeartbeatTypeOK, WriterStops, clockVars
  <2>4. CASE WriterCloses
    <3>1. out' = <<>> /\ writer' = "done"
          /\ UNCHANGED <<role, owner, hb, awaiting, reader, resets, cancel, peer, toTick,
                         pongLeft,
                         idle, due, overdue, silent>>
      BY <1>7, <2>4 DEF WriterCloses, clockVars
    <3>2. out' \in Seq(FrameNames) /\ Len(out') <= ChannelCapacity
      BY <1>1, <3>1
    <3> QED BY <1>2, <3>1, <3>2 DEF HeartbeatTypeOK
  <2> QED BY <1>7, <2>1, <2>2, <2>3, <2>4 DEF WriterStep
<1>8. ASSUME PumpSends \/ PeerStalls \/ OwnerCancels, UNCHANGED role, owner' \in BOOLEAN
      PROVE HeartbeatTypeOK'
  <2>1. CASE PumpSends
    BY <1>1, <1>2, <1>4, <1>8, <2>1 DEF HeartbeatTypeOK, PumpSends, clockVars, Room
  <2>2. CASE PeerStalls \/ OwnerCancels
    <3>1. peer' \in {"live", "stalling", "stalled"} /\ cancel' \in BOOLEAN
      BY <2>2 DEF HeartbeatTypeOK, PeerStalls, OwnerCancels
    <3> QED BY <1>2, <1>8, <2>2, <3>1 DEF HeartbeatTypeOK, PeerStalls, OwnerCancels, clockVars
  <2> QED BY <1>8, <2>1, <2>2
<1>9. ASSUME Pass, UNCHANGED <<role, owner>> PROVE HeartbeatTypeOK'
  <2>1. /\ toTick' \in 0..Interval /\ pongLeft' \in 0..PongTimeout
        /\ idle' \in 0..(IdleTimeout + 1) /\ due' \in 0..Never
    BY <1>1, <1>9 DEF HeartbeatTypeOK, Pass, Less, Earlier
  <2>2. silent' \in 0..(DetectBound + 1)
    BY <1>1, <1>9 DEF HeartbeatTypeOK, Pass, Earlier
  <2>3. overdue' \in BOOLEAN /\ peer' \in {"live", "stalling", "stalled"}
    BY <1>9, Zenon DEF HeartbeatTypeOK, Pass
  <2> QED BY <1>2, <1>9, <2>1, <2>2, <2>3 DEF HeartbeatTypeOK, Pass
<1>10. CASE UNCHANGED heartbeatVars
  BY <1>2, <1>10 DEF heartbeatVars, clockVars, HeartbeatTypeOK
<1>11. owner \in BOOLEAN
  BY DEF HeartbeatTypeOK
<1> QED BY <1>5, <1>6, <1>7, <1>8, <1>9, <1>10, <1>11 DEF HeartbeatNext, OwnerCancels

\* Every variable keeps its type: the clocks stay within the bounds at which
\* the model stops counting.
THEOREM HeartbeatTypeCorrect ==
    ASSUME HeartbeatConstants PROVE HeartbeatSpec => []HeartbeatTypeOK
<1>1. HeartbeatInit => HeartbeatTypeOK
  <2> SUFFICES ASSUME HeartbeatInit PROVE HeartbeatTypeOK
    OBVIOUS
  <2>1. role \in Roles
    BY DEF HeartbeatInit
  <2>2. out = <<>> /\ out \in Seq(FrameNames) /\ Len(out) <= ChannelCapacity
    BY <2>1, Bounds DEF HeartbeatInit
  <2>3. /\ toTick \in 0..Interval /\ pongLeft \in 0..PongTimeout /\ idle \in 0..(IdleTimeout + 1)
        /\ resets \in 0..Streams /\ due \in 0..Never /\ silent \in 0..(DetectBound + 1)
    BY <2>1, Bounds DEF HeartbeatInit
  <2> QED BY <2>1, <2>2, <2>3 DEF HeartbeatInit, HeartbeatTypeOK
<1>2. HeartbeatTypeOK /\ [HeartbeatNext]_heartbeatVars => HeartbeatTypeOK'
  BY TypeStep
<1> QED BY <1>1, <1>2, PTL DEF HeartbeatSpec
----------------------------------------------------------------------------
(* The clocks.  While a PONG is awaited, m is how long before the last tick *)
(* the deadline was set, and Elapsed(m) how long before now.               *)

Stuck == peer # "live" /\ ~Room /\ writer \notin {"recv", "done"}

Fresh == toTick = Interval /\ pongLeft = PongTimeout

Elapsed(m) == m + (Interval - toTick)

Deadline(m) ==
    /\ Intervals(m) /\ m < PongTimeout
    /\ pongLeft = IF Elapsed(m) < PongTimeout THEN PongTimeout - Elapsed(m) ELSE 0

Loops ==
    /\ \/ hb = "stopped" \/ writer \in {"closing", "done"}
       \/ reader \in {"rstall", "join", "done"}
       => cancel
    /\ peer = "live" => silent = 0
    /\ role = "client" => hb # "write"

\* How long a silent peer can have gone unnoticed: by a server, up to one
\* interval when it sends its PING and the time since then afterwards; in the
\* middle of sending no time passes, unless the channel is full for good.
ServerClock ==
    role = "server" =>
        /\ hb = "write" => Stuck \/ (Fresh /\ silent <= Interval /\ (~awaiting => silent = 0))
        /\ hb = "select" /\ ~awaiting => silent + toTick <= Interval
        /\ hb = "select" /\ awaiting =>
              \E m \in 0..PongTimeout : Deadline(m) /\ silent <= Interval + Elapsed(m)

\* By a client, as long as its idle clock says, and then until the next tick.
ClientClock ==
    role = "client" /\ peer # "live" /\ ~cancel =>
        IF idle <= IdleTimeout THEN silent <= idle ELSE silent + toTick <= IdleTimeout + Interval

Clocks == Loops /\ ServerClock /\ ClientClock

\* The steps that touch a clock, the heartbeat loop or the peer.
LEMMA ClockMoves ==
    ASSUME [HeartbeatNext]_heartbeatVars
    PROVE  /\ role' = role
           /\ \/ HeartbeatStops \/ TickServer \/ TickClient \/ PingQueued
              \/ ReceivePing \/ ReceivePong \/ ReceiveOther \/ PeerStalls \/ Pass
              \/ WriterSent /\ UNCHANGED <<hb, awaiting, peer, toTick, pongLeft, idle,
                                         overdue, silent>>
              \/ UNCHANGED <<hb, awaiting, peer, clockVars>>
<1>1. CASE OwnerCancels
  BY <1>1 DEF OwnerCancels, HeartbeatNext, heartbeatVars
<1>2. CASE LocalWritten \/ ReplyQueued \/ ReaderStops \/ RstAllStreams \/ RunCancels \/ RunEnds
  BY <1>2 DEF LocalWritten, ReplyQueued, ReaderStops, RstAllStreams, RunCancels, RunEnds,
     HeartbeatNext, heartbeatVars
<1>3. CASE WriterTake \/ WriterSent \/ WriterStops \/ WriterCloses \/ PumpSends
  BY <1>3 DEF WriterTake, WriterSent, WriterStops, WriterCloses, PumpSends, HeartbeatNext,
     heartbeatVars
<1>4. CASE UNCHANGED heartbeatVars
  BY <1>4 DEF heartbeatVars
<1>5. CASE \/ HeartbeatStops \/ TickServer \/ TickClient \/ PingQueued
           \/ ReceivePing \/ ReceivePong \/ ReceiveOther \/ PeerStalls \/ Pass
  BY <1>5 DEF HeartbeatNext, heartbeatVars
<1> QED BY <1>1, <1>2, <1>3, <1>4, <1>5 DEF HeartbeatNext, HeartbeatStep, ReaderStep, WriterStep

\* The token is never taken back.
LEMMA CancelStays == ASSUME [HeartbeatNext]_heartbeatVars, cancel PROVE cancel'
<1>1. CASE HeartbeatStep
  BY <1>1 DEF HeartbeatStep, HeartbeatStops, TickServer, TickClient, PingQueued, CheckIdle, Stop
<1>2. CASE ReaderStep
  BY <1>2 DEF ReaderStep, ReceivePing, ReceivePong, ReceiveOther, LocalWritten, ReplyQueued,
              ReaderStops, RstAllStreams, RunCancels, RunEnds
<1>3. CASE WriterStep \/ PumpSends \/ PeerStalls \/ Pass \/ OwnerCancels
  BY <1>3 DEF WriterStep, WriterTake, WriterSent, WriterStops, WriterCloses, PumpSends,
              PeerStalls, Pass, OwnerCancels
<1>4. CASE UNCHANGED heartbeatVars
  BY <1>4 DEF heartbeatVars
<1> QED BY <1>1, <1>2, <1>3, <1>4 DEF HeartbeatNext

\* A peer that reads nothing and leaves the channel full does so for good.
LEMMA StuckStays ==
    ASSUME HeartbeatConstants, HeartbeatTypeOK, [HeartbeatNext]_heartbeatVars, Stuck PROVE Stuck'
<1>1. peer # "live" /\ ~Room /\ writer \notin {"recv", "done"}
  BY DEF Stuck
<1>2. CASE HeartbeatStep
  BY <1>1, <1>2 DEF HeartbeatStep, HeartbeatStops, TickServer, TickClient, PingQueued, Send,
     Stuck, Room
<1>3. CASE ReaderStep
  BY <1>1, <1>3 DEF ReaderStep, ReceivePing, ReceivePong, ReceiveOther, LocalWritten, ReplyQueued,
              ReaderStops, RstAllStreams, RunCancels, RunEnds, Send, Stuck, Room
<1>4. CASE WriterStep \/ PumpSends \/ PeerStalls \/ Pass \/ OwnerCancels
  BY <1>1, <1>4 DEF WriterStep, WriterTake, WriterSent, WriterStops, WriterCloses, PumpSends,
              PeerStalls, Pass, OwnerCancels, Stuck, Room
<1>5. CASE UNCHANGED heartbeatVars
  BY <1>1, <1>5 DEF heartbeatVars, Stuck, Room
<1> QED BY <1>2, <1>3, <1>4, <1>5 DEF HeartbeatNext

\* What time waits for: it passes in the middle of a send only when that send
\* is stuck, and with a live peer only when every frame is on its way, unless a
\* local application keeps the reader.
LEMMA Waiting ==
    ASSUME HeartbeatConstants, HeartbeatTypeOK, Loops, Quiet
    PROVE  /\ hb = "write" => Stuck
           /\ hb = "select" => toTick \in 1..Interval /\ ~cancel
           /\ peer = "live" /\ ~cancel => writer = "recv" /\ out = <<>> /\ hb = "select"
<1>0. ChannelCapacity \in Nat /\ ChannelCapacity > 0 /\ Interval \in Nat
  BY DEF HeartbeatConstants
<1>1. ~Room => out # <<>>
  BY <1>0 DEF Room
<1>2. hb \in {"select", "write", "stopped"} /\ toTick \in 0..Interval
  BY DEF HeartbeatTypeOK
<1>3. hb = "write" => Stuck
  BY <1>1, <1>2 DEF Quiet, Stuck
<1>4. hb = "select" => toTick \in 1..Interval /\ ~cancel
  BY <1>0, <1>2 DEF Quiet, TickDue
<1>5. ASSUME peer = "live", ~cancel PROVE writer = "recv" /\ out = <<>> /\ hb = "select"
  BY <1>2, <1>3, <1>5 DEF Quiet, Loops, Stuck
<1> QED BY <1>3, <1>4, <1>5

\* A time that grows by at most one while a countdown falls by one.
LEMMA Countdown ==
    ASSUME NEW s \in Nat, NEW s1 \in Nat, NEW t \in Nat, NEW t1, NEW b \in Nat,
           s + t <= b, s1 <= s + 1, t1 = t - 1
    PROVE  s1 + t1 <= b
OBVIOUS

\* A total with nothing added.
LEMMA Total == ASSUME NEW t \in Nat, NEW b \in Nat, t <= b PROVE 0 + t <= b
OBVIOUS

\* A heartbeat that stops the session has cancelled it.
LEMMA Stopped == ASSUME Stop(TRUE) PROVE hb' = "stopped" /\ cancel' = TRUE
BY Zenon DEF Stop

\* The idle check either cancels the session or changes nothing.
LEMMA Checked ==
    ASSUME CheckIdle
    PROVE  \/ IdleTooLong /\ hb' = "stopped" /\ cancel' = TRUE
           \/ ~IdleTooLong /\ hb' = "select" /\ cancel' = cancel
BY Stopped DEF CheckIdle

\* No loop ends before the token is cancelled.
LEMMA LoopsStep ==
    ASSUME HeartbeatConstants, HeartbeatTypeOK, Loops, [HeartbeatNext]_heartbeatVars PROVE Loops'
<1>1. CASE HeartbeatStep /\ UNCHANGED role
  <2>1. CASE HeartbeatStops
    BY <1>1, <2>1 DEF HeartbeatStops, Stop, Loops, clockVars
  <2>2. CASE TickServer
    <3>1. role = "server" /\ hb = "select" /\ UNCHANGED <<reader, writer, peer, silent>>
      BY <2>2 DEF TickServer, TickDue
    <3>2. \/ hb' = "stopped" /\ cancel' = TRUE
          \/ hb' \in {"select", "write"} /\ cancel' = cancel
      BY <2>2, <3>1, Stopped, Zenon DEF TickServer
    <3> QED BY <1>1, <3>1, <3>2 DEF Loops
  <2>3. CASE TickClient
    <3>1. UNCHANGED <<reader, writer, peer, silent>>
      BY <2>3 DEF TickClient
    <3>2. (hb' = "stopped" /\ cancel' = TRUE) \/ (hb' = "select" /\ cancel' = cancel)
      BY <2>3, Checked DEF TickClient
    <3> QED BY <1>1, <3>1, <3>2 DEF Loops
  <2>4. CASE PingQueued
    <3>1. UNCHANGED <<reader, writer, peer, silent>>
      BY <2>4 DEF PingQueued, clockVars
    <3>2. (hb' = "stopped" /\ cancel' = TRUE) \/ (hb' = "select" /\ cancel' = cancel)
      BY <2>4, Checked, Stopped DEF PingQueued
    <3> QED BY <1>1, <3>1, <3>2 DEF Loops
  <2> QED BY <1>1, <2>1, <2>2, <2>3, <2>4 DEF HeartbeatStep
<1>2. CASE ReaderStep /\ UNCHANGED role
  <2>1. CASE ReceivePing \/ ReceivePong \/ ReceiveOther
    BY <1>2, <2>1 DEF ReceivePing, ReceivePong, ReceiveOther, Receives, Loops
  <2>2. CASE LocalWritten \/ ReplyQueued \/ ReaderStops \/ RstAllStreams
    BY <1>2, <2>2 DEF LocalWritten, ReplyQueued, ReaderStops, RstAllStreams, Loops, clockVars
  <2>3. CASE RunCancels \/ RunEnds
    BY <1>2, <2>3 DEF RunCancels, RunEnds, Loops, clockVars
  <2> QED BY <1>2, <2>1, <2>2, <2>3 DEF ReaderStep
<1>3. CASE WriterStep /\ UNCHANGED role
  <2>1. writer' \in {"closing", "done"} => cancel
    <3>1. WriterTake => writer' \in FrameNames
      BY DEF WriterTake, HeartbeatTypeOK
    <3> QED BY <1>3, <3>1 DEF WriterStep, WriterSent, WriterStops, WriterCloses, Loops, FrameNames
  <2> QED BY <1>3, <2>1 DEF WriterStep, WriterTake, WriterSent, WriterStops, WriterCloses, Loops,
          clockVars
<1>4. CASE (PumpSends \/ PeerStalls \/ OwnerCancels) /\ UNCHANGED role
  BY <1>4 DEF PumpSends, PeerStalls, OwnerCancels, Loops, clockVars
<1>5. CASE Pass /\ UNCHANGED role
  BY <1>5 DEF Pass, Loops
<1>6. CASE UNCHANGED heartbeatVars
  BY <1>6 DEF heartbeatVars, clockVars, Loops
<1> QED BY <1>1, <1>2, <1>3, <1>4, <1>5, <1>6 DEF HeartbeatNext

\* The deadline from one tick to the next, and within an interval.
LEMMA DeadlineTicks ==
    ASSUME HeartbeatConstants, HeartbeatTypeOK, NEW m \in 0..PongTimeout, Deadline(m)
    PROVE  /\ toTick > 0 /\ toTick' = toTick - 1 /\ pongLeft' = Less(pongLeft) => Deadline(m)'
           /\ toTick = 0 /\ pongLeft # 0 /\ toTick' = Interval /\ pongLeft' = pongLeft =>
                 m + Interval \in 0..PongTimeout /\ Deadline(m + Interval)'
<1>0. Interval \in Nat /\ Interval > 0 /\ PongTimeout \in Nat /\ toTick \in 0..Interval
      /\ pongLeft \in 0..PongTimeout /\ m \in Nat /\ m < PongTimeout
      /\ Intervals(m) /\ Intervals(m + Interval)
  BY WholeNext DEF HeartbeatConstants, HeartbeatTypeOK, Deadline
<1>1. pongLeft = IF Elapsed(m) < PongTimeout THEN PongTimeout - Elapsed(m) ELSE 0
  BY DEF Deadline
<1>2. ASSUME toTick > 0, toTick' = toTick - 1, pongLeft' = Less(pongLeft) PROVE Deadline(m)'
  <2>1. Elapsed(m) \in Nat /\ Elapsed(m)' = Elapsed(m) + 1
    BY <1>0, <1>2 DEF Elapsed
  <2>2. pongLeft' = IF Elapsed(m)' < PongTimeout THEN PongTimeout - Elapsed(m)' ELSE 0
    BY <1>0, <1>1, <1>2, <2>1 DEF Less
  <2> QED BY <1>0, <2>2 DEF Deadline, Intervals
<1>3. ASSUME toTick = 0, pongLeft # 0, toTick' = Interval, pongLeft' = pongLeft
      PROVE  m + Interval \in 0..PongTimeout /\ Deadline(m + Interval)'
  <2>1. Elapsed(m) = m + Interval /\ Elapsed(m + Interval)' = m + Interval
    BY <1>0, <1>3 DEF Elapsed
  <2>2. m + Interval < PongTimeout
    BY <1>0, <1>1, <1>3, <2>1
  <2>3. m + Interval \in 0..PongTimeout /\ pongLeft' = PongTimeout - Elapsed(m + Interval)'
    BY <1>0, <1>1, <1>3, <2>1, <2>2
  <2>4. Elapsed(m + Interval)' < PongTimeout
    BY <1>0, <2>1, <2>2
  <2>5. Intervals(m + Interval)'
    BY <1>0 DEF Intervals
  <2> QED BY <2>2, <2>3, <2>4, <2>5 DEF Deadline
<1> QED BY <1>2, <1>3

\* The deadline that has just been set.
LEMMA DeadlineSet ==
    ASSUME HeartbeatConstants, Fresh PROVE 0 \in 0..PongTimeout /\ Deadline(0) /\ Elapsed(0) = 0
<1>0. Interval \in Nat /\ PongTimeout \in Nat /\ PongTimeout > 0
  BY DEF HeartbeatConstants
<1> QED BY <1>0, NoIntervals DEF Fresh, Deadline, Elapsed

\* A server's clocks keep bounding the peer's silence.
LEMMA ServerClockStep ==
    ASSUME HeartbeatConstants, HeartbeatTypeOK, HeartbeatTypeOK', Loops, ServerClock,
           [HeartbeatNext]_heartbeatVars
    PROVE  ServerClock'
<1> SUFFICES ASSUME role = "server" PROVE ServerClock'
  BY ClockMoves DEF ServerClock
<1>0. Interval \in Nat /\ Interval > 0 /\ PongTimeout \in Nat /\ PongTimeout > 0
      /\ toTick \in 0..Interval /\ silent \in Nat /\ silent' \in Nat /\ DetectBound \in Nat
      /\ role' = role /\ hb \in {"select", "write", "stopped"}
  BY Bounds, ClockMoves DEF HeartbeatTypeOK
<1>1. /\ hb = "write" => Stuck \/ (Fresh /\ silent <= Interval /\ (~awaiting => silent = 0))
      /\ hb = "select" /\ ~awaiting => silent + toTick <= Interval
      /\ hb = "select" /\ awaiting =>
            \E m \in 0..PongTimeout : Deadline(m) /\ silent <= Interval + Elapsed(m)
  BY DEF ServerClock
<1>2. Stuck => Stuck'
  BY StuckStays
<1>3. CASE HeartbeatStops
  BY <1>3 DEF HeartbeatStops, Stop, ServerClock
<1>4. CASE TickServer
  <2>0. hb = "select" /\ toTick = 0 /\ toTick' = Interval /\ silent' = silent
    BY <1>4 DEF TickServer, TickDue
  <2>1. CASE TimedOut
    BY <1>4, <2>1 DEF TickServer, TimedOut, Stop, ServerClock
  <2>2. CASE awaiting /\ ~TimedOut
    <3>1. hb' = "select" /\ awaiting' /\ pongLeft' = pongLeft /\ pongLeft # 0
      BY <1>4, <2>0, <2>2 DEF TickServer, TimedOut
    <3>2. PICK m \in 0..PongTimeout : Deadline(m) /\ silent <= Interval + Elapsed(m)
      BY <1>1, <2>0, <2>2
    <3>3. m + Interval \in 0..PongTimeout /\ Deadline(m + Interval)'
      BY <2>0, <3>1, <3>2, DeadlineTicks
    <3>4. Elapsed(m + Interval)' = Elapsed(m)
      BY <1>0, <2>0 DEF Elapsed
    <3> QED BY <2>0, <3>1, <3>2, <3>3, <3>4 DEF ServerClock
  <2>3. CASE ~awaiting
    <3>1. hb' = "write" /\ awaiting' /\ pongLeft' = PongTimeout
      BY <1>4, <2>3 DEF TickServer, TimedOut
    <3> QED BY <1>0, <1>1, <2>0, <2>3, <3>1 DEF ServerClock, Fresh
  <2> QED BY <2>1, <2>2, <2>3
<1>5. CASE TickClient
  BY <1>5 DEF TickClient
<1>6. CASE PingQueued
  <2>1. hb = "write" /\ UNCHANGED <<awaiting, toTick, pongLeft, silent>>
    BY <1>6 DEF PingQueued, clockVars
  <2>2. ~Stuck
    BY <1>6 DEF PingQueued, Send, Stuck
  <2>3. Fresh' /\ silent <= Interval /\ (~awaiting => silent = 0)
    BY <1>1, <2>1, <2>2 DEF Fresh
  <2>4. hb' \in {"select", "stopped"}
    BY <1>6 DEF PingQueued, Stop, CheckIdle
  <2>5. 0 \in 0..PongTimeout /\ Deadline(0)' /\ Elapsed(0)' = 0
    <3>1. Fresh /\ UNCHANGED <<toTick, pongLeft>>
      BY <2>1, <2>3 DEF Fresh
    <3> QED BY <3>1, DeadlineSet DEF Deadline, Elapsed, Intervals
  <2>6. toTick' = Interval
    BY <2>3 DEF Fresh
  <2>7. silent' + toTick' <= Interval \/ awaiting
    BY <1>0, <2>1, <2>3, <2>6
  <2>8. silent' <= Interval + Elapsed(0)'
    BY <1>0, <2>1, <2>3, <2>5
  <2> QED BY <2>1, <2>4, <2>5, <2>7, <2>8 DEF ServerClock
<1>7. CASE ReceivePing \/ ReceiveOther
  <2>1. UNCHANGED <<hb, awaiting, toTick, pongLeft>> /\ silent' = 0
    BY <1>7 DEF ReceivePing, ReceiveOther, Receives
  <2>2. ASSUME NEW m \in 0..PongTimeout, Deadline(m)
        PROVE  Deadline(m)' /\ silent' <= Interval + Elapsed(m)'
    BY <1>0, <2>1, <2>2 DEF Deadline, Elapsed, Intervals
  <2>3. silent' <= Interval /\ silent' + toTick' <= Interval
    BY <1>0, <2>1
  <2> QED BY <1>1, <1>2, <2>1, <2>2, <2>3 DEF ServerClock, Fresh
<1>12. CASE PeerStalls
  <2>1. UNCHANGED <<hb, awaiting, toTick, pongLeft, silent>>
    BY <1>12 DEF PeerStalls, clockVars
  <2> QED BY <1>1, <1>2, <2>1 DEF ServerClock, Deadline, Elapsed, Fresh, Intervals
<1>8. CASE ReceivePong
  <2>1. UNCHANGED <<hb, toTick, pongLeft>> /\ ~awaiting' /\ silent' = 0
    BY <1>8 DEF ReceivePong, Receives
  <2> QED BY <1>0, <1>1, <1>2, <2>1 DEF ServerClock, Fresh
<1>9. CASE Pass
  <2>0. Quiet /\ UNCHANGED <<hb,
                             awaiting>> /\ toTick' = Less(toTick) /\ pongLeft' = Less(pongLeft)
    BY <1>9 DEF Pass
  <2>1. CASE hb = "write"
    BY <1>2, <2>0, <2>1, Waiting DEF ServerClock
  <2>2. CASE hb = "select"
    <3>1. toTick > 0 /\ toTick' = toTick - 1
      BY <1>0, <2>0, <2>2, Waiting DEF Less
    <3>2. silent' <= silent + 1
      BY <1>0, <1>9 DEF Pass, Earlier
    <3>3. CASE ~awaiting
      <4>1. ~awaiting' /\ hb' = "select"
        BY <2>0, <2>2, <3>3
      <4>2. silent + toTick <= Interval /\ toTick \in Nat
        BY <1>0, <1>1, <2>2, <3>3
      <4>3. silent' + toTick' <= Interval
        BY <1>0, <3>1, <3>2, <4>2, Countdown
      <4> QED BY <4>1, <4>3 DEF ServerClock
    <3>4. CASE awaiting
      <4>1. PICK m \in 0..PongTimeout : Deadline(m) /\ silent <= Interval + Elapsed(m)
        BY <1>1, <2>2, <3>4
      <4>2. Deadline(m)'
        BY <2>0, <3>1, <4>1, DeadlineTicks
      <4>3. Elapsed(m)' = Elapsed(m) + 1 /\ Elapsed(m) \in Nat
        BY <1>0, <3>1 DEF Elapsed
      <4>4. silent' <= Interval + Elapsed(m)'
        BY <1>0, <3>2, <4>1, <4>3
      <4> QED BY <2>0, <2>2, <3>4, <4>2, <4>4 DEF ServerClock
    <3> QED BY <3>3, <3>4
  <2>3. CASE hb = "stopped"
    BY <2>0, <2>3 DEF ServerClock
  <2> QED BY <1>0, <2>1, <2>2, <2>3
<1>10. CASE WriterSent /\ UNCHANGED <<hb, awaiting, peer, toTick, pongLeft, idle, overdue,
                                      silent>>
  BY <1>1, <1>2, <1>10 DEF ServerClock, Deadline, Elapsed, Fresh, Intervals
<1>11. CASE UNCHANGED <<hb, awaiting, peer, clockVars>>
  BY <1>1, <1>2, <1>11 DEF ServerClock, Deadline, Elapsed, Fresh, Intervals, clockVars
<1> QED BY <1>3, <1>4, <1>5, <1>6, <1>7, <1>8, <1>9, <1>10, <1>11, <1>12, ClockMoves

\* So do a client's, if it has an idle timeout.
LEMMA ClientClockStep ==
    ASSUME HeartbeatConstants, "client" \in Roles => IdleTimeout # 0,
           HeartbeatTypeOK, HeartbeatTypeOK', Loops, ClientClock, [HeartbeatNext]_heartbeatVars
    PROVE  ClientClock'
<1> SUFFICES ASSUME role = "client", peer' # "live", ~cancel' PROVE ClientClock'
  BY ClockMoves DEF ClientClock
<1>0. /\ Interval \in Nat /\ Interval > 0 /\ IdleTimeout \in Nat /\ IdleTimeout # 0
      /\ toTick \in 0..Interval /\ toTick' \in 0..Interval
      /\ idle \in Nat /\ idle <= IdleTimeout + 1 /\ idle' \in Nat
      /\ silent \in Nat /\ silent' \in Nat /\ DetectBound \in Nat
      /\ hb \in {"select", "write", "stopped"}
  BY Bounds DEF HeartbeatTypeOK
<1>12. /\ IdleTimeout + Interval \in Nat
       /\ \A t \in Nat : t <= Interval => t <= IdleTimeout + Interval
  BY <1>0
<1>1. ~cancel
  BY CancelStays
<1>2. peer # "live" =>
        IF idle <= IdleTimeout THEN silent <= idle ELSE silent + toTick <= IdleTimeout + Interval
  BY <1>1 DEF ClientClock
<1>3. CASE HeartbeatStops
  BY <1>1, <1>3 DEF HeartbeatStops
<1>4. CASE TickServer \/ ReceivePong
  BY <1>4 DEF TickServer, ReceivePong
<1>5. CASE TickClient
  <2>1. ~IdleTooLong /\ UNCHANGED <<idle, silent, peer>>
    BY <1>5 DEF TickClient, CheckIdle, Stop
  <2>2. idle <= IdleTimeout
    BY <1>0, <2>1 DEF IdleTooLong
  <2> QED BY <1>2, <2>1, <2>2 DEF ClientClock
<1>6. CASE PingQueued
  BY <1>6 DEF PingQueued, Loops
<1>7. CASE ReceivePing \/ ReceiveOther
  <2>1. silent' = 0 /\ idle' = 0
    BY <1>7 DEF ReceivePing, ReceiveOther, Receives
  <2> QED BY <1>0, <2>1 DEF ClientClock
<1>8. CASE PeerStalls
  <2>1. silent' = 0
    BY <1>8 DEF PeerStalls, Loops, clockVars
  <2>2. toTick' \in Nat /\ toTick' <= Interval
    BY <1>0
  <2>3. silent' <= idle'
    BY <1>0, <2>1
  <2>4. silent' + toTick' <= IdleTimeout + Interval
    BY <1>0, <1>12, <2>1, <2>2, Total
  <2> QED BY <2>3, <2>4 DEF ClientClock
<1>9. CASE Pass
  <2>1. peer # "live" /\ toTick' = Less(toTick) /\ idle' = Earlier(idle + 1, IdleTimeout + 1)
    BY <1>9 DEF Pass
  <2>2. silent' <= silent + 1
    BY <1>0, <1>9 DEF Pass, Earlier
  <2>3. hb = "select"
    BY <1>0, <1>1 DEF Loops
  <2>4. toTick > 0 /\ toTick' = toTick - 1
    BY <1>0, <1>9, <2>1, <2>3, Waiting DEF Less, Pass
  <2>5. CASE idle + 1 <= IdleTimeout
    BY <1>0, <1>2, <2>1, <2>2, <2>5 DEF ClientClock, Earlier
  <2>6. CASE idle = IdleTimeout
    <3>1. idle' = IdleTimeout + 1
      BY <1>0, <2>1, <2>6 DEF Earlier
    <3>2. silent + toTick <= IdleTimeout + Interval /\ toTick \in Nat
      <4>1. silent <= IdleTimeout
        BY <1>0, <1>2, <2>1, <2>6
      <4> QED BY <1>0, <4>1
    <3>3. silent' + toTick' <= IdleTimeout + Interval
      BY <1>0, <1>12, <2>2, <2>4, <3>2, Countdown
    <3>4. ~(idle' <= IdleTimeout)
      BY <1>0, <3>1
    <3> QED BY <3>3, <3>4 DEF ClientClock
  <2>7. CASE idle = IdleTimeout + 1
    <3>1. idle' = IdleTimeout + 1
      BY <1>0, <2>1, <2>7 DEF Earlier
    <3>2. silent + toTick <= IdleTimeout + Interval /\ toTick \in Nat
      BY <1>0, <1>2, <2>1, <2>7
    <3>3. silent' + toTick' <= IdleTimeout + Interval
      BY <1>0, <1>12, <2>2, <2>4, <3>2, Countdown
    <3>4. ~(idle' <= IdleTimeout)
      BY <1>0, <3>1
    <3> QED BY <3>3, <3>4 DEF ClientClock
  <2> QED BY <1>0, <2>5, <2>6, <2>7
<1>10. CASE WriterSent /\ UNCHANGED <<hb, awaiting, peer, toTick, pongLeft, idle, overdue,
                                      silent>>
  BY <1>2, <1>10 DEF ClientClock
<1>11. CASE UNCHANGED <<hb, awaiting, peer, clockVars>>
  BY <1>2, <1>11 DEF ClientClock, clockVars
<1> QED BY <1>3, <1>4, <1>5, <1>6, <1>7, <1>8, <1>9, <1>10, <1>11, ClockMoves

\* At the start no time has passed.
LEMMA ClocksInit == ASSUME HeartbeatConstants, HeartbeatInit PROVE Clocks
<1>1. Interval \in Nat
  BY DEF HeartbeatConstants
<1> QED BY <1>1 DEF HeartbeatInit, Clocks, Loops, ServerClock, ClientClock

\* A peer that goes silent is noticed by the tick that DetectBound names: a
\* server's PONG deadline after its next PING, or the idle timeout of a client
\* that has one.  Only a channel that the silence itself has filled prevents it.
THEOREM SilenceDetected ==
    ASSUME HeartbeatConstants, "client" \in Roles => IdleTimeout # 0
    PROVE  HeartbeatSpec => []DetectedInTime
<1>1. HeartbeatInit => Clocks
  BY ClocksInit
<1>2. HeartbeatTypeOK /\ HeartbeatTypeOK' /\ Clocks /\ [HeartbeatNext]_heartbeatVars => Clocks'
  BY LoopsStep, ServerClockStep, ClientClockStep DEF Clocks
<1>3. HeartbeatTypeOK /\ Clocks => DetectedInTime
  <2> SUFFICES ASSUME HeartbeatTypeOK, Clocks, silent > DetectBound, ~cancel,
                       ~(hb = "write" /\ ~Room)
               PROVE  FALSE
    BY DEF DetectedInTime
  <2>0. /\ Interval \in Nat /\ Interval > 0 /\ PongTimeout \in Nat /\ IdleTimeout \in Nat
        /\ toTick \in 0..Interval /\ silent \in Nat /\ idle \in 0..(IdleTimeout + 1)
        /\ DeadlineTick \in Nat /\ DeadlineTick >= Interval
        /\ hb \in {"select", "write", "stopped"} /\ role \in {"client", "server"}
        /\ DetectBound \in Nat
    BY Bounds, FirstTick DEF HeartbeatTypeOK
  <2>1. hb # "stopped" /\ peer # "live"
    BY <2>0 DEF Clocks, Loops
  <2>2. CASE role = "server"
    <3>1. silent > Interval + DeadlineTick
      BY <2>2 DEF DetectBound
    <3>2. CASE hb = "write"
      BY <2>0, <2>2, <3>1, <3>2 DEF Clocks, ServerClock, Stuck
    <3>3. CASE hb = "select" /\ ~awaiting
      BY <2>0, <2>2, <3>1, <3>3 DEF Clocks, ServerClock
    <3>4. CASE hb = "select" /\ awaiting
      <4>1. PICK m \in 0..PongTimeout : Deadline(m) /\ silent <= Interval + Elapsed(m)
        BY <2>2, <3>4 DEF Clocks, ServerClock
      <4>2. m + Interval <= DeadlineTick
        BY <4>1, FirstTick DEF Deadline
      <4> QED BY <2>0, <3>1, <4>1, <4>2 DEF Elapsed
    <3> QED BY <2>0, <2>1, <3>2, <3>3, <3>4
  <2>3. CASE role = "client"
    <3>1. silent > IdleTimeout + Interval
      BY <2>3 DEF DetectBound
    <3>2. IF idle <= IdleTimeout THEN silent <= idle ELSE silent + toTick <= IdleTimeout + Interval
      BY <2>1, <2>3 DEF Clocks, ClientClock
    <3> QED BY <2>0, <3>1, <3>2
  <2> QED BY <2>0, <2>2, <2>3
<1> QED BY <1>1, <1>2, <1>3, HeartbeatTypeCorrect, PTL DEF HeartbeatSpec

----------------------------------------------------------------------------
(* A live peer.  The PING the deadline was set for is still on its way out, *)
(* and then no time has passed, or the PONG is due before PeerDelay is over. *)

PingWaits == hb = "write" \/ writer = "PING" \/ \E i \in DOMAIN out : out[i] = "PING"

OnTime(m) ==
    \/ PingWaits /\ m = 0 /\ Fresh
    \/ due # Never /\ Elapsed(m) + due <= PeerDelay

ClientAnswered == role = "client" => due # Never /\ idle + due <= PeerDelay

ServerAnswered ==
    role = "server" =>
        /\ hb = "write" => idle <= Interval /\ (~awaiting => idle = 0)
        /\ hb = "select" /\ ~awaiting => idle + toTick <= Interval
        /\ hb = "select" /\ awaiting =>
              \E m \in 0..PongTimeout : Deadline(m) /\ OnTime(m)

Answered == peer = "live" /\ ~owner /\ ~overdue => ~cancel /\ ClientAnswered /\ ServerAnswered

\* A PING that is on its way out stays so until the writer has sent it.
LEMMA PingStays ==
    ASSUME HeartbeatTypeOK, HeartbeatTypeOK', UNCHANGED hb, PingWaits,
           WriterTake \/ (WriterSent /\ writer # "PING") \/
           (\E f \in FrameNames : Send(f) /\ writer # "done" /\ UNCHANGED writer) \/
           UNCHANGED <<out, writer>>
    PROVE  PingWaits'
<1>1. CASE hb = "write" \/ UNCHANGED <<out, writer>>
  BY <1>1 DEF PingWaits
<1>2. CASE writer = "PING" /\ ~(hb = "write")
  BY <1>2 DEF PingWaits, WriterTake, WriterSent
<1>3. CASE \E i \in DOMAIN out : out[i] = "PING"
  <2>4. DOMAIN out = 1..Len(out) /\ out \in Seq(FrameNames)
    BY DEF HeartbeatTypeOK
  <2>0. PICK i \in 1..Len(out) : out[i] = "PING"
    BY <1>3, <2>4
  <2>1. CASE WriterTake
    <3>1. writer' = out[1] /\ out' = Tail(out) /\ out \in Seq(FrameNames) /\ out # <<>>
      BY <2>1 DEF WriterTake, HeartbeatTypeOK
    <3>2. CASE i = 1
      BY <2>0, <3>1, <3>2 DEF PingWaits
    <3>3. CASE i # 1
      <4>1. i - 1 \in DOMAIN out' /\ out'[i - 1] = "PING"
        BY <2>0, <3>1, <3>3
      <4> QED BY <4>1 DEF PingWaits
    <3> QED BY <3>2, <3>3
  <2>2. CASE WriterSent
    BY <1>3, <2>2 DEF WriterSent, PingWaits
  <2>3. CASE \E f \in FrameNames : Send(f) /\ writer # "done" /\ UNCHANGED writer
    <3>1. PICK f \in FrameNames : out' = Append(out, f)
      BY <2>3 DEF Send
    <3>2. i \in DOMAIN out' /\ out'[i] = "PING"
      BY <2>0, <3>1 DEF HeartbeatTypeOK
    <3> QED BY <3>2 DEF PingWaits
  <2> QED BY <1>1, <2>1, <2>2, <2>3
<1> QED BY <1>1, <1>2, <1>3 DEF PingWaits

\* A peer that is live after a step was so before.
LEMMA PeerStaysLive ==
    ASSUME HeartbeatTypeOK, [HeartbeatNext]_heartbeatVars, peer' = "live" PROVE peer = "live"
<1>1. CASE HeartbeatStops \/ TickServer \/ TickClient \/ PingQueued
  BY <1>1 DEF HeartbeatStops, TickServer, TickClient, PingQueued
<1>2. CASE ReceivePing \/ ReceivePong \/ ReceiveOther \/ PeerStalls \/ Pass
  BY <1>2 DEF ReceivePing, ReceivePong, ReceiveOther, PeerStalls, Pass
<1> QED BY <1>1, <1>2, ClockMoves

\* What can happen while the peer is live, its frames are read and the owner
\* keeps the session.
LEMMA LiveSteps ==
    ASSUME HeartbeatConstants, HeartbeatTypeOK, HeartbeatTypeOK', Loops, Answered,
           [HeartbeatNext]_heartbeatVars,
           peer' = "live", ~owner', ~overdue, ~overdue'
    PROVE  /\ peer = "live" /\ ~owner /\ ~cancel /\ ClientAnswered /\ ServerAnswered
           /\ role' = role /\ hb \in {"select", "write"}
           /\ \/ TickServer \/ TickClient \/ PingQueued \/ Pass \/ ReceivePing \/ ReceivePong
              \/ WriterSent /\ writer = "PING" /\ UNCHANGED cancel
              \/ /\ UNCHANGED <<hb, cancel, awaiting, toTick, pongLeft,
                                due>> /\ idle' \in {idle, 0}
                 /\ PingWaits => PingWaits'
<1>1. peer = "live" /\ ~owner
  <2>1. ~OwnerCancels
    BY DEF OwnerCancels
  <2>2. UNCHANGED owner
    BY <2>1 DEF HeartbeatNext, heartbeatVars
  <2> QED BY <2>2, PeerStaysLive
<1>2. ~cancel /\ ClientAnswered /\ ServerAnswered
  BY <1>1 DEF Answered
<1>3. hb \in {"select", "write"} /\ writer \notin {"closing", "done"}
      /\ reader \in {"recv", "reply", "write"}
  BY <1>2 DEF Loops, HeartbeatTypeOK
<1>4. role' = role
  BY DEF HeartbeatNext, heartbeatVars
<1>5. CASE HeartbeatStep
  BY <1>1, <1>2, <1>3, <1>4, <1>5 DEF HeartbeatStep, HeartbeatStops
<1>6. CASE ReaderStep
  <2>1. CASE ReceiveOther
    BY <1>1, <1>2, <1>3, <1>4, <2>1 DEF ReceiveOther, Receives, PingWaits
  <2>4. CASE LocalWritten
    BY <1>1, <1>2, <1>3, <1>4, <2>4 DEF LocalWritten, PingWaits, clockVars
  <2>2. CASE ReplyQueued
    <3>1. Send("REPLY") /\ UNCHANGED <<hb, writer, cancel, awaiting, toTick, pongLeft, due, idle>>
      BY <2>2 DEF ReplyQueued, clockVars
    <3>2. PingWaits => PingWaits'
      BY <1>3, <3>1, PingStays DEF FrameNames
    <3> QED BY <1>1, <1>2, <1>3, <1>4, <3>1, <3>2
  <2>3. CASE ReaderStops \/ RstAllStreams \/ RunCancels \/ RunEnds
    BY <1>2, <1>3, <2>3 DEF ReaderStops, RstAllStreams, RunCancels, RunEnds
  <2> QED BY <1>1, <1>2, <1>3, <1>4, <1>6, <2>1, <2>2, <2>3, <2>4 DEF ReaderStep
<1>7. CASE WriterStep
  <2>1. CASE WriterTake \/ (WriterSent /\ writer # "PING")
    <3>1. UNCHANGED <<hb, cancel, awaiting, toTick, pongLeft, due, idle>>
      BY <2>1 DEF WriterTake, WriterSent, clockVars
    <3>2. PingWaits => PingWaits'
      BY <2>1, <3>1, PingStays
    <3> QED BY <1>1, <1>2, <1>3, <1>4, <3>1, <3>2
  <2>2. CASE WriterSent /\ writer = "PING"
    BY <1>1, <1>2, <1>3, <1>4, <2>2 DEF WriterSent
  <2>3. CASE WriterStops \/ WriterCloses
    BY <1>2, <1>3, <2>3 DEF WriterStops, WriterCloses
  <2> QED BY <1>7, <2>1, <2>2, <2>3 DEF WriterStep
<1>8. CASE PumpSends
  <2>1. UNCHANGED <<hb, writer, cancel, awaiting, toTick, pongLeft, due, idle>> /\ Send("DATA")
    BY <1>8 DEF PumpSends, Send, clockVars
  <2>2. PingWaits => PingWaits'
    BY <1>3, <2>1, PingStays DEF FrameNames
  <2> QED BY <1>1, <1>2, <1>3, <1>4, <2>1, <2>2
<1>9. CASE PeerStalls \/ OwnerCancels
  BY <1>9 DEF PeerStalls, OwnerCancels
<1>10. CASE Pass
  BY <1>1, <1>2, <1>3, <1>4, <1>10
<1>11. CASE UNCHANGED heartbeatVars
  BY <1>1, <1>2, <1>3, <1>11 DEF heartbeatVars, clockVars, PingWaits
<1> QED BY <1>5, <1>6, <1>7, <1>8, <1>9, <1>10, <1>11 DEF HeartbeatNext

\* The deadline does not pass before a live peer's PONG has come.
LEMMA DeadlineKept ==
    ASSUME HeartbeatConstants, PeerDelay < DeadlineTick, HeartbeatTypeOK, toTick = 0,
           NEW m \in 0..PongTimeout, Deadline(m), OnTime(m)
    PROVE  pongLeft # 0 /\ due # Never /\ Elapsed(m) + due <= PeerDelay
<1>0. Interval \in Nat /\ Interval > 0 /\ PongTimeout \in Nat /\ PeerDelay \in Nat
      /\ DeadlineTick \in Nat /\ due \in Nat /\ m \in Nat
  BY Bounds, FirstTick DEF HeartbeatTypeOK
<1>1. due # Never /\ Elapsed(m) + due <= PeerDelay
  BY <1>0 DEF OnTime, Fresh
<1>2. Elapsed(m) = m + Interval
  BY <1>0 DEF Elapsed
<1>3. Intervals(m + Interval)
  BY WholeNext DEF Deadline
<1>4. m + Interval < PongTimeout
  <2> SUFFICES ASSUME m + Interval >= PongTimeout PROVE FALSE
    BY <1>0
  <2>1. m + Interval >= DeadlineTick
    BY <1>3, FirstTick
  <2> QED BY <1>0, <1>1, <1>2, <2>1
<1> QED BY <1>0, <1>1, <1>2, <1>4 DEF Deadline

\* A server that hears from its peer in time goes on without a cut.
LEMMA ServerAnsweredStep ==
    ASSUME HeartbeatConstants, LivePeerSettings, HeartbeatTypeOK, HeartbeatTypeOK', Loops,
           ServerClock, Answered,
           [HeartbeatNext]_heartbeatVars, peer' = "live", ~owner', ~overdue, ~overdue',
           role = "server"
    PROVE  ~cancel' /\ ServerAnswered'
<1>0. /\ Interval \in Nat /\ Interval > 0 /\ PongTimeout \in Nat /\ PongTimeout > 0
      /\ PeerDelay \in Nat /\ IdleTimeout \in Nat /\ Never = PeerDelay + 1
      /\ toTick \in 0..Interval /\ idle \in Nat /\ idle' \in Nat /\ due \in Nat /\ due' \in Nat
  BY Bounds DEF HeartbeatTypeOK
<1>1. /\ peer = "live" /\ ~cancel /\ role' = role /\ hb \in {"select", "write"}
      /\ hb = "write" => idle <= Interval /\ (~awaiting => idle = 0)
      /\ hb = "select" /\ ~awaiting => idle + toTick <= Interval
      /\ hb = "select" /\ awaiting => \E m \in 0..PongTimeout : Deadline(m) /\ OnTime(m)
  BY LiveSteps DEF ServerAnswered
<1>2. PeerDelay < DeadlineTick /\ (IdleTimeout # 0 => Interval <= IdleTimeout)
  BY DEF LivePeerSettings, HeartbeatTypeOK
<1>3. CASE TickServer
  <2>0. hb = "select" /\ toTick = 0 /\ toTick' = Interval /\ UNCHANGED <<idle, due>>
    BY <1>3 DEF TickServer, TickDue
  <2>1. CASE awaiting
    <3>1. PICK m \in 0..PongTimeout : Deadline(m) /\ OnTime(m)
      BY <1>1, <2>0, <2>1
    <3>2. pongLeft # 0 /\ due # Never /\ Elapsed(m) + due <= PeerDelay
      BY <1>2, <2>0, <3>1, DeadlineKept
    <3>3. hb' = "select" /\ awaiting' /\ UNCHANGED <<pongLeft, cancel>>
      BY <1>3, <2>0, <2>1, <3>2 DEF TickServer, TimedOut
    <3>4. m + Interval \in 0..PongTimeout /\ Deadline(m + Interval)'
      BY <2>0, <3>1, <3>2, <3>3, DeadlineTicks
    <3>5. Elapsed(m + Interval)' = Elapsed(m)
      BY <1>0, <2>0 DEF Elapsed
    <3>6. OnTime(m + Interval)'
      BY <2>0, <3>2, <3>5 DEF OnTime, Never
    <3> QED BY <1>1, <3>3, <3>4, <3>6 DEF ServerAnswered
  <2>2. CASE ~awaiting
    <3>1. hb' = "write" /\ awaiting' /\ UNCHANGED cancel
      BY <1>3, <2>2 DEF TickServer, TimedOut
    <3>2. idle' <= Interval
      BY <1>0, <1>1, <2>0, <2>2
    <3> QED BY <1>1, <3>1, <3>2 DEF ServerAnswered
  <2> QED BY <2>1, <2>2
<1>4. CASE TickClient \/ ReceivePing
  BY <1>4 DEF TickClient, ReceivePing
<1>5. CASE PingQueued
  <2>0. hb = "write" /\ Send("PING") /\ UNCHANGED <<awaiting, toTick, pongLeft, idle, due,
                                                    writer>>
    BY <1>5 DEF PingQueued, clockVars
  <2>1. writer # "done" /\ ~IdleTooLong
    BY <1>0, <1>1, <1>2, <2>0 DEF Loops, IdleTooLong
  <2>2. hb' = "select" /\ UNCHANGED cancel
    BY <1>5, <2>1 DEF PingQueued, CheckIdle
  <2>3. Fresh /\ Fresh'
    BY <1>1, <2>0 DEF ServerClock, Stuck, Fresh
  <2>4. 0 \in 0..PongTimeout /\ Deadline(0)'
    BY <2>0, <2>3, DeadlineSet DEF Deadline, Elapsed, Intervals
  <2>5. PingWaits'
    <3>1. out' = Append(out, "PING") /\ out \in Seq(FrameNames)
      BY <2>0, <2>1 DEF Send, HeartbeatTypeOK
    <3>2. Len(out) + 1 \in DOMAIN out' /\ out'[Len(out) + 1] = "PING"
      BY <3>1 DEF FrameNames
    <3> QED BY <3>2 DEF PingWaits
  <2>6. OnTime(0)'
    BY <2>3, <2>5 DEF OnTime
  <2>7. ~awaiting => idle' + toTick' <= Interval
    BY <1>0, <1>1, <2>0, <2>3 DEF Fresh
  <2> QED BY <1>1, <2>0, <2>2, <2>4, <2>6, <2>7 DEF ServerAnswered
<1>6. CASE ReceivePong
  <2>1. idle' = 0 /\ ~awaiting' /\ UNCHANGED <<hb, cancel, toTick>>
    BY <1>6 DEF ReceivePong, Receives
  <2>2. idle' + toTick' <= Interval /\ idle' <= Interval
    BY <1>0, <2>1
  <2> QED BY <1>1, <2>1, <2>2 DEF ServerAnswered
<1>7. CASE WriterSent /\ writer = "PING" /\ UNCHANGED cancel
  <2>1. UNCHANGED <<hb, awaiting, toTick, pongLeft, idle>> /\ due' = Earlier(due, PeerDelay)
    BY <1>7 DEF WriterSent
  <2>2. due' <= PeerDelay /\ due' <= due /\ due' # Never'
    BY <1>0, <2>1 DEF Earlier, Never
  <2>3. ASSUME NEW m \in 0..PongTimeout, Deadline(m), OnTime(m) PROVE Deadline(m)' /\ OnTime(m)'
    <3>1. Deadline(m)' /\ Elapsed(m)' = Elapsed(m) /\ Elapsed(m) \in Nat
      BY <1>0, <2>1, <2>3 DEF Deadline, Elapsed, Intervals
    <3>2. CASE m = 0 /\ Fresh
      <4>1. Elapsed(m) = 0
        BY <3>2, DeadlineSet
      <4>2. Elapsed(m)' = 0 /\ 0 + due' <= PeerDelay
        BY <1>0, <2>2, <3>1, <4>1, Total
      <4> QED BY <2>2, <3>1, <4>2 DEF OnTime
    <3>3. CASE Elapsed(m) + due <= PeerDelay
      <4>1. Elapsed(m)' + due' <= PeerDelay
        BY <1>0, <2>2, <3>1, <3>3
      <4> QED BY <2>2, <3>1, <4>1 DEF OnTime
    <3> QED BY <2>3, <3>2, <3>3 DEF OnTime
  <2> QED BY <1>1, <1>7, <2>1, <2>3 DEF ServerAnswered
<1>8. CASE /\ UNCHANGED <<hb, cancel, awaiting, toTick, pongLeft, due>> /\ idle' \in {idle, 0}
           /\ PingWaits => PingWaits'
  <2>1. ASSUME NEW m \in 0..PongTimeout, Deadline(m), OnTime(m) PROVE Deadline(m)' /\ OnTime(m)'
    BY <1>8, <2>1 DEF Deadline, Elapsed, Intervals, OnTime, Fresh, Never
  <2>2. idle' <= idle
    BY <1>0, <1>8
  <2>3. idle <= Interval => idle' <= Interval
    BY <1>0, <2>2
  <2>4. idle + toTick <= Interval => idle' + toTick' <= Interval
    <3>1. CASE idle' = idle
      BY <1>8, <3>1
    <3>2. CASE idle' = 0
      <4>1. toTick \in Nat /\ toTick <= Interval
        BY <1>0
      <4> QED BY <1>0, <1>8, <3>2, <4>1, Total
    <3> QED BY <1>8, <3>1, <3>2
  <2> QED BY <1>0, <1>1, <1>8, <2>1, <2>3, <2>4 DEF ServerAnswered
<1>9. CASE Pass
  <2>0. Quiet /\ UNCHANGED <<hb, awaiting, cancel, writer, out>> /\ toTick' = Less(toTick)
        /\ pongLeft' = Less(pongLeft) /\ due' = IF due = Never THEN Never ELSE Less(due)
    BY <1>9 DEF Pass
  <2>1. writer = "recv" /\ out = <<>> /\ hb = "select" /\ due # 0 /\ toTick \in 1..Interval
    BY <1>1, <1>9, <2>0, Waiting DEF Pass
  <2>2. toTick' = toTick - 1 /\ toTick > 0
    BY <1>0, <2>0, <2>1 DEF Less
  <2>3. idle' <= idle + 1
    BY <1>0, <1>9 DEF Pass, Earlier
  <2>4. CASE ~awaiting
    <3>1. idle + toTick <= Interval /\ toTick \in Nat
      BY <1>0, <1>1, <2>1, <2>4
    <3>2. idle' + toTick' <= Interval
      <4>1. idle \in Nat /\ idle' \in Nat /\ toTick \in Nat /\ Interval \in Nat
        BY <1>0, <3>1
      <4> QED BY <2>2, <2>3, <3>1, <4>1, Countdown
    <3> QED BY <1>1, <2>0, <2>1, <2>4, <3>2 DEF ServerAnswered
  <2>5. CASE awaiting
    <3>1. PICK m \in 0..PongTimeout : Deadline(m) /\ OnTime(m)
      BY <1>1, <2>1, <2>5
    <3>2. Deadline(m)'
      BY <2>0, <2>2, <3>1, DeadlineTicks
    <3>3. due # Never /\ Elapsed(m) + due <= PeerDelay
      BY <2>1, <3>1 DEF OnTime, PingWaits
    <3>4. due' = due - 1
      BY <1>0, <2>0, <2>1, <3>3 DEF Less
    <3>7. due' # Never'
      <4>1. due <= PeerDelay /\ Never' = PeerDelay + 1
        <5>1. Elapsed(m) \in Nat
          BY <1>0 DEF Elapsed
        <5> QED BY <1>0, <3>3, <5>1 DEF Never
      <4> QED BY <1>0, <3>4, <4>1
    <3>5. Elapsed(m) \in Nat /\ Elapsed(m)' = Elapsed(m) + 1
      BY <1>0, <2>2 DEF Elapsed
    <3>6. Elapsed(m)' + due' <= PeerDelay
      BY <1>0, <3>3, <3>4, <3>5
    <3> QED BY <1>1, <2>0, <2>1, <2>5, <3>2, <3>6, <3>7 DEF ServerAnswered, OnTime
  <2> QED BY <2>4, <2>5
<1> QED BY <1>3, <1>4, <1>5, <1>6, <1>7, <1>8, <1>9, LiveSteps

\* So does a client.
LEMMA ClientAnsweredStep ==
    ASSUME HeartbeatConstants, LivePeerSettings, HeartbeatTypeOK, HeartbeatTypeOK', Loops, Answered,
           [HeartbeatNext]_heartbeatVars, peer' = "live", ~owner', ~overdue, ~overdue',
           role = "client"
    PROVE  ~cancel' /\ ClientAnswered'
<1>0. /\ Interval \in Nat /\ IdleTimeout \in Nat /\ PeerDelay \in Nat /\ Never = PeerDelay + 1
      /\ idle \in Nat /\ idle' \in Nat /\ due \in Nat /\ due' \in Nat
  BY Bounds DEF HeartbeatTypeOK
<1>1. peer = "live" /\ ~cancel /\ role' = role /\ due # Never /\ idle + due <= PeerDelay
  BY LiveSteps DEF ClientAnswered
<1>2. IdleTimeout # 0 => PeerDelay <= IdleTimeout
  BY DEF LivePeerSettings, HeartbeatTypeOK
<1>3. CASE TickServer \/ ReceivePong
  BY <1>3 DEF TickServer, ReceivePong
<1>4. CASE TickClient
  <2>1. ~IdleTooLong
    BY <1>0, <1>1, <1>2 DEF IdleTooLong
  <2>2. UNCHANGED <<cancel, idle, due>>
    BY <1>4, <2>1 DEF TickClient, CheckIdle
  <2> QED BY <1>1, <2>2 DEF ClientAnswered, Never
<1>5. CASE PingQueued
  BY <1>5 DEF PingQueued, Loops
<1>6. CASE ReceivePing
  <2>1. due' = PeerDelay /\ idle' = 0 /\ UNCHANGED cancel
    BY <1>6 DEF ReceivePing, Receives, DueRead
  <2> QED BY <1>0, <1>1, <2>1 DEF ClientAnswered, Never
<1>7. CASE WriterSent /\ writer = "PING" /\ UNCHANGED cancel
  <2>1. idle' = idle /\ due' = Earlier(due, PeerDelay)
    BY <1>7 DEF WriterSent
  <2>2. due' <= PeerDelay /\ due' <= due
    BY <1>0, <2>1 DEF Earlier
  <2> QED BY <1>0, <1>1, <1>7, <2>1, <2>2 DEF ClientAnswered, Never
<1>8. CASE UNCHANGED <<cancel, due>> /\ idle' \in {idle, 0}
  <2>1. CASE idle' = idle
    BY <1>1, <1>8, <2>1 DEF ClientAnswered, Never
  <2>2. CASE idle' = 0
    <3>1. due <= PeerDelay
      BY <1>0, <1>1
    <3>2. 0 + due <= PeerDelay
      BY <1>0, <3>1
    <3> QED BY <1>1, <1>8, <2>2, <3>2 DEF ClientAnswered, Never
  <2> QED BY <1>8, <2>1, <2>2
<1>9. CASE Pass
  <2>1. due # 0 /\ UNCHANGED cancel
    BY <1>1, <1>9 DEF Pass
  <2>2. due' = due - 1 /\ idle' <= idle + 1
    BY <1>0, <1>1, <1>9, <2>1 DEF Pass, Less, Earlier
  <2>3. idle' + due' <= PeerDelay /\ due' # Never
    <3>1. due <= PeerDelay
      BY <1>0, <1>1
    <3>2. due' # Never
      BY <1>0, <2>2, <3>1
    <3>3. idle' + due' <= PeerDelay
      <4>1. idle \in Nat /\ idle' \in Nat /\ due \in Nat /\ PeerDelay \in Nat
        BY <1>0
      <4>2. idle + due <= PeerDelay
        BY <1>1
      <4> QED BY <2>2, <4>1, <4>2, Countdown
    <3> QED BY <3>2, <3>3
  <2> QED BY <1>1, <2>1, <2>3 DEF ClientAnswered, Never
<1> QED BY <1>3, <1>4, <1>5, <1>6, <1>7, <1>8, <1>9, LiveSteps

\* A frame that lay unread is read at last: if the session has not been cut off
\* meanwhile, its clocks start anew.
LEMMA ReadAtLast ==
    ASSUME HeartbeatConstants, HeartbeatTypeOK, HeartbeatTypeOK', ServerClock,
           [HeartbeatNext]_heartbeatVars, overdue, ~overdue'
    PROVE  ~cancel' /\ ClientAnswered' /\ ServerAnswered'
<1>0. Interval \in Nat /\ PeerDelay \in Nat /\ Never = PeerDelay + 1 /\ toTick \in 0..Interval
  BY Bounds DEF HeartbeatTypeOK
<1>1. ReceivePing \/ ReceivePong
  <2>1. ~(HeartbeatStops \/ TickServer \/ TickClient \/ PingQueued)
    BY DEF HeartbeatStops, TickServer, TickClient, PingQueued, clockVars
  <2>2. ~(ReceiveOther \/ PeerStalls \/ Pass)
    BY DEF ReceiveOther, PeerStalls, Pass, clockVars
  <2> QED BY <2>1, <2>2, ClockMoves DEF clockVars
<1>2. CASE ReceivePing
  <2>1. role' = "client" /\ due' = PeerDelay /\ idle' = 0 /\ ~cancel'
    BY <1>2, ClockMoves DEF ReceivePing, Receives, DueRead
  <2> QED BY <1>0, <2>1 DEF ClientAnswered, ServerAnswered, Never
<1>3. CASE ReceivePong
  <2>1. role' = "server" /\ idle' = 0 /\ ~awaiting' /\ toTick' = toTick /\ ~cancel'
    BY <1>3, ClockMoves DEF ReceivePong, Receives, DueRead
  <2>2. idle' <= Interval /\ idle' + toTick' <= Interval
    BY <1>0, <2>1
  <2> QED BY <2>1, <2>2 DEF ClientAnswered, ServerAnswered
<1> QED BY <1>1, <1>2, <1>3

\* And so whichever of the two the session is.
LEMMA AnsweredStep ==
    ASSUME HeartbeatConstants, LivePeerSettings, HeartbeatTypeOK, HeartbeatTypeOK', Loops, ServerClock,
           Answered, [HeartbeatNext]_heartbeatVars
    PROVE  Answered'
<1> SUFFICES ASSUME peer' = "live", ~owner', ~overdue'
             PROVE  ~cancel' /\ ClientAnswered' /\ ServerAnswered'
  BY DEF Answered
<1>1. role' = role /\ role \in {"client", "server"}
  BY Bounds, ClockMoves DEF HeartbeatTypeOK
<1>2. CASE ~overdue /\ role = "server"
  BY <1>1, <1>2, ServerAnsweredStep DEF ClientAnswered
<1>3. CASE ~overdue /\ role = "client"
  BY <1>1, <1>3, ClientAnsweredStep DEF ServerAnswered
<1>4. CASE overdue
  BY <1>4, ReadAtLast
<1> QED BY <1>1, <1>2, <1>3, <1>4

\* A live peer whose frames are read as they come is never cut off, by the PONG
\* deadline or by the idle timeout, as long as the settings leave it the time to
\* answer: only a frame that arrived and lay unread, the reader being suspended
\* in a write to a local application, lets a clock run out on it.
THEOREM LivePeerKept ==
    ASSUME HeartbeatConstants, LivePeerSettings
    PROVE  HeartbeatSpec => []NoFalseTimeout
<1>1. HeartbeatInit => Loops /\ ServerClock /\ Answered
  <2> SUFFICES ASSUME HeartbeatInit PROVE Answered
    BY ClocksInit DEF Clocks
  <2>1. Interval \in Nat /\ PeerDelay \in Nat
    BY DEF HeartbeatConstants
  <2> QED BY <2>1 DEF HeartbeatInit, Answered, ClientAnswered, ServerAnswered, Never
<1>2. HeartbeatTypeOK /\ HeartbeatTypeOK' /\ Loops /\ ServerClock /\ Answered
      /\ [HeartbeatNext]_heartbeatVars
         => Loops' /\ ServerClock' /\ Answered'
  BY LoopsStep, ServerClockStep, AnsweredStep
<1>3. HeartbeatTypeOK /\ Answered => NoFalseTimeout
  BY DEF Answered, NoFalseTimeout, HeartbeatTypeOK
<1> QED BY <1>1, <1>2, <1>3, HeartbeatTypeCorrect, PTL DEF HeartbeatSpec

----------------------------------------------------------------------------
(* IdGenerator.                                                            *)

\* The candidate of an iteration is an id of the role's parity, and adding 2
\* to it keeps the counter within u64 (the wrap test of IdGenerator::next).
LEMMA WrapInRange ==
    ASSUME GeneratorConstants, InRange
    PROVE  /\ Wrap \in SameParity
           /\ Wrap + 2 \in start..(OverflowThreshold + 1)
           /\ (Wrap + 2) % 2 = start % 2 /\ Wrap + 2 <= MaxU64
<1>1. start \in Nat /\ start < OverflowThreshold /\ start >= 1
  BY DEF GeneratorConstants, InRange
<1>2. CASE current >= OverflowThreshold
  <2>1. Wrap = start
    BY <1>2 DEF Wrap
  <2>2. QED
    BY <1>1, <2>1 DEF GeneratorConstants, SameParity, StreamIds,
       InRange
<1>3. CASE ~(current >= OverflowThreshold)
  <2>1. Wrap = current
    BY <1>3 DEF Wrap
  <2>2. QED
    BY <1>1, <1>3, <2>1 DEF GeneratorConstants, SameParity, StreamIds,
       InRange
<1>4. QED
  BY <1>2, <1>3

\* IdGenerator never overflows its u64 and hands out only ids of its own
\* parity below the threshold, for every threshold and width.
THEOREM GeneratorInRange ==
    ASSUME GeneratorConstants PROVE GeneratorSpec => []InRange
<1>1. ASSUME GeneratorInit PROVE InRange
  <2>1. start \in {1, 2} /\ current = start
    BY <1>1 DEF GeneratorInit, New
  <2>2. start \in Nat /\ start <= OverflowThreshold + 1 /\ start <= MaxU64
    BY <2>1 DEF GeneratorConstants
  <2>3. active = {} /\ inCall = FALSE /\ from = start /\ returned = 0
    BY <1>1 DEF GeneratorInit
  <2>4. current \in start..(OverflowThreshold + 1) /\ current % 2 = start % 2
    BY <2>1, <2>2 DEF GeneratorConstants
  <2>5. QED
    BY <2>1, <2>2, <2>3, <2>4 DEF InRange
<1>2. ASSUME InRange, [GeneratorNext]_generatorVars PROVE InRange'
  <2>1. CASE Call
    BY <1>2, <2>1 DEF GeneratorConstants, Call, InRange,
       SameParity, StreamIds
  <2>2. CASE Iterate
    <3>1. /\ Wrap \in SameParity
          /\ Wrap + 2 \in start..(OverflowThreshold + 1)
          /\ (Wrap + 2) % 2 = start % 2 /\ Wrap + 2 <= MaxU64
      BY <1>2, WrapInRange
    <3>2. /\ start' = start /\ from' = from /\ current' = Wrap + 2
          /\ SameParity' = SameParity
      BY <2>2 DEF Iterate, SameParity
    <3>3. /\ returned' \in SameParity \cup {0}
          /\ active' \subseteq SameParity /\ inCall' \in BOOLEAN
      BY <1>2, <2>2, <3>1 DEF Iterate, InRange
    <3>4. QED
      BY <1>2, <3>1, <3>2, <3>3 DEF InRange
  <2>3. CASE Release
    BY <1>2, <2>3 DEF Release, InRange, SameParity
  <2>4. CASE UNCHANGED generatorVars
    BY <1>2, <2>4 DEF generatorVars, InRange, SameParity
  <2>5. QED
    BY <1>2, <2>1, <2>2, <2>3, <2>4 DEF GeneratorNext
<1>3. InRange /\ [GeneratorNext]_generatorVars => InRange'
  BY <1>2
<1>4. QED
  BY <1>1, <1>3, PTL DEF GeneratorSpec

----------------------------------------------------------------------------
(* The loop returns the reference's id.  A call that is running has passed  *)
(* only ids in use: those from where it began up to the counter, or, once   *)
(* it has wrapped, all from there on and those below the counter.           *)

PassedUp ==
    from <= current /\ \A i \in SameParity : from <= i /\ i < current => i \in active

Wrapped == \A i \in SameParity : from <= i \/ i < current => i \in active

Searched == inCall => PassedUp \/ Wrapped

\* The least of a set is the one that is.
LEMMA LeastIs ==
    ASSUME NEW S \in SUBSET Nat, NEW i \in S, \A j \in S : i <= j
    PROVE  Least(S) = i
<1>1. \A k \in S : (\A j \in S : k <= j) => k = i
  OBVIOUS
<1> QED BY <1>1 DEF Least

\* The counter in range: below the threshold it is itself an id.
LEMMA Candidate ==
    ASSUME GeneratorConstants, InRange
    PROVE  /\ current \in Nat /\ from \in Nat /\ start \in Nat /\ OverflowThreshold \in Nat
           /\ start \in SameParity
           /\ current < OverflowThreshold => current \in SameParity
           /\ \A i \in SameParity : i \in Nat /\ start <= i /\ i < OverflowThreshold
           /\ \A i \in SameParity : i < current + 2 /\ current < OverflowThreshold =>
                 i < current \/ i = current
           /\ \A i \in SameParity : i < start + 2 => i = start
BY DEF GeneratorConstants, InRange, SameParity, StreamIds

\* One iteration over an id in use goes on searching.
LEMMA SearchedStep ==
    ASSUME GeneratorConstants, InRange, Searched,
           [GeneratorNext]_generatorVars
    PROVE  Searched'
<1>1. CASE Call
  BY <1>1, Candidate DEF Call, Searched, PassedUp, SameParity
<1>2. CASE Iterate
  <2> SUFFICES ASSUME inCall' PROVE PassedUp' \/ Wrapped'
    BY DEF Searched
  <2>1. /\ Wrap \in active /\ current' = Wrap + 2
        /\ from' = from /\ active' = active /\ SameParity' = SameParity /\ inCall
    BY <1>2 DEF Iterate, SameParity
  <2>2. CASE current >= OverflowThreshold
    <3>1. Wrap = start
      BY <2>2 DEF Wrap
    <3>2. Wrapped'
      BY <2>1, <2>2, <3>1, Candidate DEF Searched, PassedUp, Wrapped
    <3> QED BY <3>2
  <2>3. CASE current < OverflowThreshold
    <3>1. Wrap = current
      BY <2>3, Candidate DEF Wrap
    <3> QED BY <2>1, <2>3, <3>1, Candidate DEF Searched, PassedUp, Wrapped
  <2> QED BY <2>2, <2>3, Candidate
<1>3. CASE Release
  BY <1>3 DEF Release, Searched
<1>4. CASE UNCHANGED generatorVars
  BY <1>4 DEF generatorVars, Searched, PassedUp, Wrapped, SameParity
<1> QED BY <1>1, <1>2, <1>3, <1>4 DEF GeneratorNext

\* The iteration that ends a call has found the reference's id.
LEMMA FoundReference ==
    ASSUME GeneratorConstants, InRange, Searched, Iterate,
           inCall, Wrap \notin active
    PROVE  Wrap = Reference(from, active)
<1> DEFINE free == SameParity \ active
           up   == {i \in free : i >= from}
<1>1. Wrap \in free /\ free \in SUBSET Nat /\ up \in SUBSET Nat
  BY WrapInRange, Candidate
<1>2. Reference(from, active) = Least(IF up # {} THEN up ELSE free)
  BY DEF Reference
<1>3. CASE PassedUp /\ current < OverflowThreshold
  <2>1. Wrap = current
    BY <1>3, Candidate DEF Wrap
  <2>2. Wrap \in up /\ \A j \in up : Wrap <= j
    BY <1>1, <1>3, <2>1, Candidate DEF PassedUp
  <2>3. Least(up) = Wrap
    BY <1>1, <2>2, LeastIs
  <2> QED BY <1>2, <2>2, <2>3
<1>4. CASE PassedUp /\ current >= OverflowThreshold
  <2>1. Wrap = start
    BY <1>4 DEF Wrap
  <2>2. up = {}
    BY <1>4, Candidate DEF PassedUp
  <2>3. \A j \in free : Wrap <= j
    BY <2>1, Candidate
  <2>4. Least(free) = Wrap
    BY <1>1, <2>3, LeastIs
  <2> QED BY <1>2, <2>2, <2>4
<1>5. CASE Wrapped /\ current < OverflowThreshold
  <2>1. Wrap = current
    BY <1>5, Candidate DEF Wrap
  <2>2. up = {} /\ \A j \in free : Wrap <= j
    BY <1>5, <2>1, Candidate DEF Wrapped
  <2>3. Least(free) = Wrap
    BY <1>1, <2>2, LeastIs
  <2> QED BY <1>2, <2>2, <2>3
<1>6. CASE Wrapped /\ current >= OverflowThreshold
  <2>1. Wrap = start
    BY <1>6 DEF Wrap
  <2>2. Wrap \in active
    BY <1>6, <2>1, Candidate DEF Wrapped
  <2> QED BY <1>1, <2>2
<1> QED BY <1>3, <1>4, <1>5, <1>6, Candidate DEF Searched

\* IdGenerator::next returns the least free id of its parity from the counter
\* on, or from the start if there is none, whatever ids are in use: this is the
\* closed form TunnelSession takes for the loop.
THEOREM NextIsReference ==
    ASSUME GeneratorConstants PROVE GeneratorSpec => AllocatesNext
<1> DEFINE Returns == inCall /\ ~inCall' => returned' = Reference(from, active)
<1>1. GeneratorInit => Searched
  BY DEF GeneratorInit, Searched
<1>2. InRange /\ Searched /\ [GeneratorNext]_generatorVars => Searched'
  BY SearchedStep
<1>3. InRange /\ Searched /\ [GeneratorNext]_generatorVars => [Returns]_generatorVars
  <2> SUFFICES ASSUME InRange, Searched, [GeneratorNext]_generatorVars, inCall, ~inCall'
               PROVE  returned' = Reference(from, active)
    OBVIOUS
  <2>1. Iterate /\ Wrap \notin active /\ returned' = Wrap
    BY DEF GeneratorNext, Call, Iterate, Release, generatorVars
  <2> QED BY <2>1, FoundReference
<1> QED BY <1>1, <1>2, <1>3, GeneratorInRange, PTL DEF GeneratorSpec, AllocatesNext

----------------------------------------------------------------------------
(* AmsUpload.                                                              *)

\* A set of numbers that is not empty has a least one.
LEMMA LeastNumber ==
    ASSUME NEW T \in SUBSET Nat, T # {}
    PROVE  \E n \in T : \A m \in T : n <= m
<1>1. PICK n \in T : \A m \in T : ~(<<m, n>> \in OpToRel(<, Nat))
  BY WFMin, NatLessThanWellFounded
<1>2. \A m \in T : ~(m < n)
  <2> SUFFICES ASSUME NEW m \in T, m < n PROVE FALSE
    OBVIOUS
  <2> QED BY <1>1 DEF OpToRel
<1>3. n \in Nat /\ \A m \in T : m \in Nat
  OBVIOUS
<1>4. \A m \in T : n <= m
  BY <1>2, <1>3
<1> QED BY <1>4

\* The first k parts together, as far as the archive reaches.
UpTo(k) == IF k * Chunk < size THEN k * Chunk ELSE size
Prefix(k) == [i \in 1..UpTo(k) |-> i]

\* All parts but the last are whole chunks, and together they reach the end.
LEMMA PartSizes ==
    ASSUME UploadConstants, size \in Sizes
    PROVE  /\ size \in Nat /\ size > 0 /\ Chunk \in Nat /\ Chunk > 0
           /\ PartCount \in Nat /\ PartCount > 0
           /\ UpTo(PartCount) = size /\ (PartCount - 1) * Chunk < size
<1>1. size \in Nat /\ size > 0 /\ Chunk \in Nat /\ Chunk > 0
  BY DEF UploadConstants
<1>2. CASE size <= Chunk
  <2>1. PartCount = 1
    BY <1>2 DEF PartCount
  <2>2. UpTo(1) = size
    BY <1>1, <1>2 DEF UpTo
  <2> QED BY <1>1, <2>1, <2>2
<1>3. CASE size > Chunk
  <2> DEFINE x == size + Chunk - 1
             q == x \div Chunk
  <2>1. PartCount = q
    BY <1>1, <1>3 DEF PartCount
  <2>2. x \in Nat /\ q \in Nat /\ q * Chunk <= x /\ x < q * Chunk + Chunk
    BY <1>1
  <2> HIDE DEF q
  <2>3. q * Chunk \in Nat /\ q * Chunk >= size /\ q * Chunk - Chunk < size
    BY <1>1, <2>2
  <2>4. q > 0
    BY <1>1, <2>2, <2>3
  <2>5. (q - 1) * Chunk = q * Chunk - Chunk
    BY <1>1, <2>2
  <2>6. UpTo(q) = size
    BY <1>1, <2>3 DEF UpTo
  <2> QED BY <1>1, <2>1, <2>2, <2>3, <2>4, <2>5, <2>6
<1> QED BY <1>1, <1>2, <1>3

\* The first part begins the archive.
LEMMA FirstPart ==
    ASSUME UploadConstants, size \in Sizes PROVE Bytes(1) = Prefix(1)
<1>1. size \in Nat /\ size > 0 /\ Chunk \in Nat /\ Chunk > 0
  BY PartSizes
<1>2. (1 - 1) * Chunk = 0 /\ 1 * Chunk = Chunk
  BY <1>1
<1>3. UpTo(1) = IF size - 0 < Chunk THEN size - 0 ELSE Chunk
  BY <1>1, <1>2 DEF UpTo
<1>4. \A i \in 1..UpTo(1) : 0 + i = i
  BY <1>1, <1>2 DEF UpTo
<1> QED BY <1>2, <1>3, <1>4 DEF Bytes, Prefix

\* A run of positions and the run that follows it.
LEMMA ConsecutiveRuns ==
    ASSUME NEW d \in Nat, NEW n \in Nat
    PROVE  [i \in 1..d |-> i] \o [i \in 1..n |-> d + i] = [i \in 1..(d + n) |-> i]
<1> DEFINE a == [i \in 1..d |-> i]
           b == [i \in 1..n |-> d + i]
<1>1. a \in Seq(Nat) /\ Len(a) = d /\ \A i \in 1..d : a[i] = i
  OBVIOUS
<1>2. b \in Seq(Nat) /\ Len(b) = n /\ \A i \in 1..n : b[i] = d + i
  OBVIOUS
<1> HIDE DEF a, b
<1>3. a \o b \in Seq(Nat) /\ Len(a \o b) = d + n
  BY <1>1, <1>2
<1>4. ASSUME NEW i \in 1..(d + n) PROVE (a \o b)[i] = i
  <2>1. CASE i <= d
    <3>1. i \in 1..Len(a)
      BY <1>1, <2>1
    <3> QED BY <1>1, <1>2, <3>1, ConcatProperties
  <2>2. CASE i > d
    <3>1. i - d \in 1..n /\ d + (i - d) = i
      BY <2>2
    <3>2. i \in Len(a) + 1 .. Len(a) + Len(b)
      BY <1>1, <1>2, <2>2
    <3>3. (a \o b)[i] = b[i - d]
      BY <1>1, <1>2, <3>2, ConcatProperties
    <3> QED BY <1>2, <3>1, <3>3
  <2>3. i <= d \/ i > d
    OBVIOUS
  <2> QED BY <2>1, <2>2, <2>3, Zenon
<1> DEFINE c == a \o b
<1>5. c \in Seq(Nat) /\ Len(c) = d + n /\ \A i \in 1..(d + n) : c[i] = i
  BY <1>3, <1>4
<1> HIDE DEF c
<1>6. c = [i \in 1..(d + n) |-> i]
  BY <1>5
<1> QED BY <1>6 DEF a, b, c

\* Every further part continues it without a gap or an overlap.
LEMMA NextPart ==
    ASSUME UploadConstants, size \in Sizes, NEW k \in Parts, k # 1
    PROVE  Prefix(k) = Prefix(k - 1) \o Bytes(k)
<1>1. /\ size \in Nat /\ size > 0 /\ Chunk \in Nat /\ Chunk > 0 /\ PartCount \in Nat
      /\ (PartCount - 1) * Chunk < size
  BY PartSizes
<1>2. k \in Nat /\ k - 1 \in Nat /\ k <= PartCount
  BY <1>1 DEF Parts
<1> DEFINE d == (k - 1) * Chunk
<1>3. d \in Nat /\ k * Chunk = d + Chunk
  BY <1>1, <1>2
<1>4. d < size
  <2>1. PartCount - 1 \in Nat /\ k - 1 <= PartCount - 1
    BY <1>1, <1>2
  <2>2. (k - 1) * Chunk <= (PartCount - 1) * Chunk
    BY <1>1, <1>2, <2>1
  <2> QED BY <1>1, <1>3, <2>2
<1> HIDE DEF d
<1>5. UpTo(k - 1) = d /\ UpTo(k) = IF d + Chunk < size THEN d + Chunk ELSE size
  BY <1>1, <1>3, <1>4 DEF UpTo, d
<1> DEFINE n == IF size - d < Chunk THEN size - d ELSE Chunk
<1>6. Bytes(k) = [i \in 1..n |-> d + i]
  BY DEF Bytes, d
<1>7. n \in Nat /\ UpTo(k) = d + n
  BY <1>1, <1>3, <1>4, <1>5
<1> HIDE DEF n
<1>8. Prefix(k - 1) = [i \in 1..d |-> i] /\ Prefix(k) = [i \in 1..(d + n) |-> i]
  BY <1>5, <1>7 DEF Prefix
<1> QED BY <1>3, <1>6, <1>7, <1>8, ConsecutiveRuns

\* The parts joined in order are the archive.
LEMMA JoinedParts ==
    ASSUME UploadConstants, size \in Sizes, etags = [p \in Parts |-> Bytes(p)]
    PROVE  FlattenSeq(etags) = [i \in 1..size |-> i]
<1>1. PartCount \in Nat /\ PartCount > 0 /\ UpTo(PartCount) = size
  BY PartSizes
<1>2. /\ Parts = 1..PartCount
      /\ Len(etags) = PartCount /\ PartCount \in Parts
  BY <1>1 DEF Parts
<1> DEFINE Flat(f) == f = [i \in Parts |-> IF i = 1 THEN etags[i] ELSE f[i - 1] \o etags[i]]
           whole == [k \in Parts |-> Prefix(k)]
           flat == CHOOSE f : Flat(f)
<1>3. Flat(whole)
  <2>1. \A k \in Parts : k # 1 => k - 1 \in Parts
    BY <1>1, <1>2
  <2>2. \A k \in Parts : Prefix(k) = IF k = 1 THEN etags[k] ELSE whole[k - 1] \o etags[k]
    BY <2>1, FirstPart, NextPart
  <2> QED BY <2>2
<1>4. Flat(flat)
  BY <1>3
<1>5. FlattenSeq(etags) = flat[PartCount]
  BY <1>1, <1>2 DEF FlattenSeq
<1> HIDE DEF flat
<1>6. \A k \in Parts : flat[k] = Prefix(k)
  <2> DEFINE T == {k \in Parts : flat[k] # Prefix(k)}
  <2> SUFFICES ASSUME T # {} PROVE FALSE
    OBVIOUS
  <2>1. T \in SUBSET Nat
    BY <1>2
  <2>2. PICK n \in T : \A m \in T : n <= m
    BY <2>1, LeastNumber
  <2>3. CASE n = 1
    BY <1>4, <2>2, <2>3, FirstPart
  <2>4. CASE n # 1
    <3>1. n - 1 \in Parts /\ n \in Parts /\ ~(n <= n - 1)
      BY <1>1, <1>2, <2>2, <2>4
    <3>2. flat[n - 1] = Prefix(n - 1)
      BY <2>2, <3>1
    <3>3. flat[n] = flat[n - 1] \o Bytes(n)
      BY <1>4, <2>4, <3>1
    <3> QED BY <2>2, <2>4, <3>1, <3>2, <3>3, NextPart
  <2> QED BY <2>3, <2>4
<1> QED BY <1>1, <1>2, <1>5, <1>6 DEF Prefix

----------------------------------------------------------------------------
(* The upload: an image is completed only after its object, and the ETags   *)
(* that finalize lists are those of all parts, each in its part's place.    *)

Archive == [i \in 1..size |-> i]

Uploaded ==
    /\ size \in Sizes
    /\ DOMAIN task = Parts /\ task = [p \in Parts |-> task[p]]
    /\ DOMAIN etags = Parts /\ etags = [p \in Parts |-> etags[p]]
    /\ \A p \in Parts : task[p] = "joined" => etags[p] = Bytes(p)
    /\ stage = "whole" =>
          PartCount = 1 /\ (task[1] \in {"stored", "untagged"} => object = Archive)
    /\ stage = "complete" => object = Archive
    /\ image = "complete" => stage = "returned" /\ object = Archive

\* Every step of the upload keeps ETags, object and record in agreement.
LEMMA UploadedStep ==
    ASSUME UploadConstants, Uploaded, [UploadNext]_uploadVars PROVE Uploaded'
<1>1. /\ size' = size /\ PartCount' = PartCount
      /\ Parts' = Parts /\ Archive' = Archive
      /\ \A p : Bytes(p)' = Bytes(p)
  <2>1. size' = size
    BY DEF UploadNext, uploadVars, Create, Whole, Initiate,
       Finalize, Complete, Join, JoinFailed, Acquire,
       Presign, Put
  <2> QED BY <2>1 DEF PartCount, Parts, Archive, Bytes
<1>2. /\ PartCount \in Nat /\ PartCount > 0 /\ 1 \in Parts
      /\ PartCount = 1 => Bytes(1) = Archive
  <2>1. PartCount \in Nat /\ PartCount > 0 /\ UpTo(PartCount) = size
    BY PartSizes DEF Uploaded
  <2> QED BY <2>1, FirstPart DEF Uploaded, Parts, Prefix, Archive
<1>3. CASE Create
  <2>1. /\ DOMAIN task' = Parts /\ task' = [p \in Parts |-> task'[p]]
        /\ \A p \in Parts : task'[p] = "joined" => task[p] = "joined"
    BY <1>2, <1>3 DEF Create, Uploaded
  <2>2. UNCHANGED <<object, etags>> /\ image' # "complete" /\ stage' # "complete"
    BY <1>3 DEF Create, Fails
  <2>3. stage' = "whole" => PartCount = 1 /\ task'[1] = "presign"
    BY <1>2, <1>3 DEF Create, Fails, Uploaded
  <2> QED BY <1>1, <2>1, <2>2, <2>3 DEF Uploaded
<1>4. CASE Whole \/ Complete
  BY <1>1, <1>4 DEF Whole, Complete, Fails, Uploaded
<1>5. CASE Initiate
  BY <1>1, <1>5 DEF Initiate, Fails, Uploaded
<1>6. CASE Finalize
  <2>1. stage = "join" /\ UNCHANGED <<image, task, etags>>
    BY <1>6 DEF Finalize
  <2>2. ASSUME stage' = "complete" PROVE object' = Archive
    <3>1. object' = FlattenSeq(etags) /\ \A p \in Parts : task[p] = "joined"
      BY <1>6, <2>2 DEF Finalize, Fails
    <3>2. etags = [p \in Parts |-> Bytes(p)]
      BY <3>1 DEF Uploaded
    <3> QED BY <3>1, <3>2, JoinedParts DEF Uploaded, Archive
  <2>3. stage' \in {"complete", "returned"}
    BY <1>6 DEF Finalize, Fails
  <2> QED BY <1>1, <2>1, <2>2, <2>3 DEF Uploaded
<1>7. ASSUME NEW p \in Parts, Join(p) PROVE Uploaded'
  BY <1>1, <1>7 DEF Join, Uploaded
<1>8. ASSUME NEW p \in Parts, JoinFailed(p) PROVE Uploaded'
  BY <1>1, <1>8 DEF JoinFailed, Fails, Uploaded
<1>9. ASSUME NEW p \in Parts, Acquire(p) \/ Presign(p) PROVE Uploaded'
  <2>1. UNCHANGED <<stage, image, object, etags>>
    BY <1>9 DEF Acquire, Presign
  <2>2. PICK t \in {"presign", "put", "reput", "failed"} : task' = [task EXCEPT ![p] = t]
    BY <1>9 DEF Acquire, Presign
  <2>3. /\ DOMAIN task' = Parts /\ task' = [q \in Parts |-> task'[q]]
        /\ \A q \in Parts :
              task'[q] \in {"joined", "stored", "untagged"} => task'[q] = task[q]
    BY <2>2 DEF Uploaded
  <2> QED BY <1>1, <1>2, <2>1, <2>3 DEF Uploaded
<1>10. ASSUME NEW p \in Parts, Put(p) PROVE Uploaded'
  <2>1. UNCHANGED <<stage, image, etags>>
    BY <1>10 DEF Put
  <2>2. PICK t : task' = [task EXCEPT ![p] = t] /\ t # "joined" /\
           ((stage = "whole" /\ t \in {"stored", "untagged"}) => object' = Bytes(p)) /\
           (stage # "whole" => UNCHANGED object)
    BY <1>10 DEF Put
  <2>3. /\ DOMAIN task' = Parts /\ task' = [q \in Parts |-> task'[q]]
        /\ \A q \in Parts : task'[q] = "joined" => task[q] = "joined"
    BY <2>2 DEF Uploaded
  <2>4. ASSUME stage = "whole", task'[1] \in {"stored", "untagged"} PROVE object' = Archive
    <3>1. PartCount = 1 /\ p = 1
      BY <2>4 DEF Uploaded, Parts
    <3>2. task'[1] = t
      BY <1>2, <2>2, <3>1 DEF Uploaded
    <3> QED BY <1>2, <2>2, <2>4, <3>1, <3>2
  <2> QED BY <1>1, <2>1, <2>2, <2>3, <2>4 DEF Uploaded
<1>11. CASE UNCHANGED uploadVars
  BY <1>1, <1>11 DEF uploadVars, Uploaded
<1> QED BY <1>3, <1>4, <1>5, <1>6, <1>7, <1>8, <1>9, <1>10, <1>11 DEF UploadNext

\* What AMS lists as a complete image is the archive, byte for byte, for every
\* archive and part size, any number of parts and any order in which they end.
THEOREM ImageIsArchive ==
    ASSUME UploadConstants PROVE UploadSpec => []ImageWhole
<1>1. UploadInit => Uploaded
  BY DEF UploadInit, Uploaded
<1>2. Uploaded /\ [UploadNext]_uploadVars => Uploaded'
  BY UploadedStep
<1>3. Uploaded => ImageWhole
  BY DEF Uploaded, ImageWhole, Archive
<1> QED BY <1>1, <1>2, <1>3, PTL DEF UploadSpec

============================================================================
