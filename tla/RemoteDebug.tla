---- MODULE RemoteDebug ----
(***************************************************************************)
(* `ags extend remote-debug connect`: the reconnect loop, one session at a *)
(* time, and the tasks a session runs: the tunnel (a listener that bridges *)
(* each local connection to a WebSocket), the agent (which dials through   *)
(* the tunnel and serves the debug session), the service forwarder, and    *)
(* the Ctrl-C watcher.  The tasks run on a multi-threaded runtime, so      *)
(* every task's step between two awaits is an action and any order is      *)
(* possible.  Time is abstract: a timer may fire whenever it is armed.     *)
(*                                                                         *)
(* The session inside the agent is the module TunnelSession's; here it is  *)
(* up or over.  The command joins the tunnel, the agent and the forwarder; *)
(* `left` is what these leave running behind them, joined by nobody.  A    *)
(* task that panics is not modelled.                                       *)
(***************************************************************************)
EXTENDS Naturals

CONSTANT MaxAttempts    \* MAX_CONNECT_ATTEMPTS

ASSUME AttemptsAssumption == MaxAttempts \in Nat \ {0}

VARIABLES
  phase,      \* where the command is
  attempt,    \* 0: no session has ended cleanly yet
  verdict,    \* what the attempt comes to, once its components have stopped
  exit,       \* how the command ended
  outerCancel, \* the command's cancellation token
  stopping,   \* the attempt's own token, a child of outerCancel
  watcher,    \* the task that waits for Ctrl-C
  tunnel,     \* the tunnel task,
  sigint,     \*   whether its own ctrl_c() has fired,
  conn,       \*   and the connection it bridges for the agent
  agent,      \* the agent task,
  agentEnd,   \*   its result,
  tokenLost,  \*   whether its token provider found no token,
  holder,     \*   and whether the SessionHolder has a session
  ready,      \* the session_ready channel and the task that feeds it
  services,   \* whether the app exposes services
  forwarder,  \* the forwarder task
  known,      \* whether the startup failure came with the agent's result
  live,       \* whether the session's own token is still to be cancelled
  left,       \* what ended sessions and forwarders have left running
  early       \* history: Ctrl-C was seen while every task of the attempt ran

main == <<phase, attempt, verdict, exit, known>>
signals == <<outerCancel, watcher, sigint, early>>
bridge == <<tunnel, conn>>
agents == <<agent, agentEnd, tokenLost, holder, ready, live>>
forward == <<services, forwarder, left>>
debugVars == <<main, signals, stopping, bridge, agents, forward>>

Cancelled == outerCancel \/ stopping          \* attempt_cancel.is_cancelled()
Over == {"off", "failed", "done"}

\* Tasks nobody joins: the writer, heartbeat and cleanup loops of a session, the
\* bridges of its local connections, and the forwarder's accept loops.
SessionTasks == {"session loops", "local connections"}
Leftovers == SessionTasks \union {"accept loops"}

Errors == {"retriable", "auth", "permanent", "shutdown"}

DebugTypeOK ==
  /\ phase \in {"top", "sleep", "fetch", "await tunnel", "await agent", "session",
             "stop agent", "stop tunnel", "stop forwarder", "ended"}
  /\ attempt \in 0..MaxAttempts
  /\ verdict \in {"none", "startup", "ended", "cancelled"} \union Errors
  /\ exit \in {"none", "clean", "auth", "api", "network"}
  /\ outerCancel \in BOOLEAN /\ stopping \in BOOLEAN /\ sigint \in BOOLEAN /\ early \in BOOLEAN
  /\ tokenLost \in BOOLEAN /\ holder \in BOOLEAN /\ services \in BOOLEAN /\ known \in BOOLEAN
  /\ watcher \in {"waiting", "woken", "done"}
  /\ tunnel \in {"off", "starting", "failed", "listening", "done"}
  /\ conn \in {"none", "dialing", "refreshing", "open", "closed"}
  /\ agent \in {"off", "token", "dial", "handshake", "session", "returning", "done"}
  /\ agentEnd \in {"none", "ok", "error", "rejected"}
  /\ ready \in {"none", "sending", "queued", "dropped"}
  /\ forwarder \in {"off", "starting", "listening", "done"}
  /\ live \in BOOLEAN /\ left \subseteq Leftovers

DebugInit ==
  /\ phase = "top" /\ attempt = 0 /\ verdict = "none" /\ exit = "none"
  /\ outerCancel = FALSE /\ watcher = "waiting" /\ early = FALSE
  /\ services = FALSE /\ live = FALSE /\ left = {}
  /\ tunnel = "off" /\ sigint = FALSE /\ conn = "none"
  /\ agent = "off" /\ agentEnd = "none" /\ tokenLost = FALSE /\ holder = FALSE
  /\ ready = "none" /\ forwarder = "off" /\ stopping = FALSE /\ known = FALSE

(***************************************************************************)
(* run_connect_loop                                                        *)
(***************************************************************************)

Exit(code) == phase' = "ended" /\ exit' = code /\ UNCHANGED attempt

\* The loop's head: out on cancellation, straight in for the first attempt.
Top ==
  /\ phase = "top"
  /\ IF outerCancel THEN Exit("clean")
     ELSE phase' = (IF attempt > 0 THEN "sleep" ELSE "fetch") /\ UNCHANGED <<attempt, exit>>
  /\ verdict' = "none"
  /\ tunnel' = "off" /\ sigint' = FALSE /\ conn' = "none"
  /\ agent' = "off" /\ agentEnd' = "none" /\ tokenLost' = FALSE /\ holder' = FALSE
  /\ ready' = "none" /\ forwarder' = "off" /\ stopping' = FALSE /\ known' = FALSE
  /\ UNCHANGED <<outerCancel, watcher, early, services, live, left>>

\* The backoff, raced against cancellation.
Sleep ==
  /\ phase = "sleep"
  /\ \/ phase' = "fetch" /\ UNCHANGED <<attempt, exit>>
     \/ outerCancel /\ Exit("clean")
  /\ UNCHANGED <<verdict, known, signals, stopping, bridge, agents, forward>>

\* retry_decision, and what the loop does with it.
RetryDecision(result) ==
  CASE result = "cancelled" -> Exit("clean")
    [] result = "ended" -> phase' = "top" /\ attempt' = 1 /\ UNCHANGED exit
    [] result = "auth" -> Exit("auth")
    [] result = "permanent" -> Exit("api")
    [] result = "shutdown" -> Exit("network")
    [] result = "retriable" ->
         IF attempt = 0 \/ attempt >= MaxAttempts THEN Exit("network")
         ELSE phase' = "top" /\ attempt' = attempt + 1 /\ UNCHANGED exit

(***************************************************************************)
(* An attempt: the debug info, then the components one after the other     *)
(***************************************************************************)

\* The four preconditions, in their order; only the last may change by waiting.
Preconditions(info) ==
  IF ~info.running \/ ~info.enabled \/ info.connected THEN "permanent"
  ELSE IF info.pods THEN "ok" ELSE "retriable"

DebugInfo == [running : BOOLEAN, enabled : BOOLEAN, connected : BOOLEAN, pods : BOOLEAN,
              services : BOOLEAN]

\* fetch_debug_info and evaluate_preconditions, raced against cancellation; when
\* they pass, the tunnel is spawned.
Fetch ==
  /\ phase = "fetch"
  /\ \/ outerCancel /\ RetryDecision("cancelled") /\ UNCHANGED <<tunnel, services>>
     \/ \E e \in {"auth", "permanent", "retriable"} :
          RetryDecision(e) /\ UNCHANGED <<tunnel, services>>
     \/ \E info \in DebugInfo :
          IF Preconditions(info) = "ok"
          THEN /\ phase' = "await tunnel" /\ tunnel' = "starting" /\ services' = info.services
               /\ UNCHANGED <<attempt, exit>>
          ELSE RetryDecision(Preconditions(info)) /\ UNCHANGED <<tunnel, services>>
  /\ UNCHANGED <<verdict, known, signals, stopping, conn, agents, forwarder, left>>

\* The attempt is over: the token first, then the components one by one.
StopWith(result) ==
  /\ verdict' = result /\ stopping' = TRUE /\ phase' = "stop agent"
  /\ UNCHANGED <<attempt, exit>>

\* The wait for the listener.  A tunnel that has ended, or cancellation, wins or
\* loses against the ready signal in any order.
AwaitTunnel ==
  /\ phase = "await tunnel"
  /\ \/ /\ tunnel \in {"listening", "done"}
        /\ phase' = "await agent"
        /\ agent' = IF Cancelled THEN "returning" ELSE "token"
        /\ agentEnd' = IF Cancelled THEN "ok" ELSE "none"
        /\ UNCHANGED <<verdict, stopping, attempt, exit>>
     \/ tunnel \in {"failed", "done"} /\ StopWith("startup") /\ UNCHANGED <<agent, agentEnd>>
     \/ Cancelled /\ StopWith("startup") /\ UNCHANGED <<agent, agentEnd>>
  /\ UNCHANGED <<known, signals, bridge, tokenLost, holder, ready, live, forward>>

\* The wait for the session.  The channel closes when the agent returns, before
\* its task can be joined: the startup failure may come without its result.
AwaitAgent ==
  /\ phase = "await agent"
  /\ \/ /\ ready = "queued"
        /\ phase' = "session"
        /\ forwarder' = IF services THEN "starting" ELSE "off"
        /\ UNCHANGED <<verdict, known, stopping, attempt, exit>>
     \/ /\ agent \in {"returning", "done"} /\ ready \in {"none", "dropped"}
        /\ StopWith("startup") /\ UNCHANGED <<known, forwarder>>
     \/ /\ agent = "done"
        /\ StopWith("startup") /\ known' = TRUE /\ UNCHANGED forwarder
     \/ Cancelled /\ StopWith("startup") /\ UNCHANGED <<known, forwarder>>
  /\ UNCHANGED <<signals, bridge, agents, services, left>>

\* agent_authentication_message
ClassifyAgent(end) == IF tokenLost \/ end = "rejected" THEN "auth" ELSE "retriable"

\* The established session, until a task ends or Ctrl-C; `biased` tries the arms
\* in order.
Session ==
  /\ phase = "session"
  /\ \/ outerCancel /\ StopWith("cancelled")
     \/ ~outerCancel /\ tunnel = "done" /\ StopWith("retriable")
     \/ ~outerCancel /\ tunnel # "done" /\ forwarder = "done" /\ StopWith("retriable")
     \/ /\ ~outerCancel /\ tunnel # "done" /\ forwarder # "done" /\ agent = "done"
        /\ StopWith(IF agentEnd = "ok" THEN "ended" ELSE ClassifyAgent(agentEnd))
  /\ UNCHANGED <<known, signals, bridge, agents, forward>>

(***************************************************************************)
(* The ordered shutdown                                                    *)
(***************************************************************************)

\* await_component: joined, or aborted when the timeout fires first.
Await(task, next) ==
  /\ \/ task \in Over /\ UNCHANGED verdict
     \/ task \notin Over /\ verdict' = "shutdown"
  /\ phase' = next
  /\ UNCHANGED <<attempt, exit, known, signals, stopping, bridge, agents, forward>>

\* Mutant: the tunnel is left to stop by itself.
AwaitTunnelDropped ==
  /\ phase = "stop tunnel" /\ phase' = "stop forwarder"
  /\ UNCHANGED <<verdict, attempt, exit, known, signals, stopping, bridge, agents, forward>>

AwaitAgentStop == phase = "stop agent" /\ Await(agent, "stop tunnel")
AwaitTunnelStop == phase = "stop tunnel" /\ Await(tunnel, "stop forwarder")

\* Mutant: the startup failure is reported whether or not Ctrl-C caused it.
StartupFailureUnchecked ==
  IF known /\ agentEnd # "ok" THEN ClassifyAgent(agentEnd)
  ELSE IF tokenLost THEN "auth" ELSE "retriable"

\* What a failed startup comes to, told when everything has stopped.
StartupFailure ==
  IF outerCancel THEN "cancelled"
  ELSE IF known /\ agentEnd # "ok" THEN ClassifyAgent(agentEnd)
  ELSE IF tokenLost THEN "auth" ELSE "retriable"

\* The last component; then the attempt's result goes to the loop.
AwaitForwarderStop ==
  /\ phase = "stop forwarder"
  /\ \/ /\ forwarder \in Over
        /\ RetryDecision(IF verdict = "startup" THEN StartupFailure ELSE verdict)
        /\ UNCHANGED verdict
     \/ /\ forwarder \notin Over
        /\ RetryDecision("shutdown") /\ verdict' = "shutdown"
  /\ UNCHANGED <<known, signals, stopping, bridge, agents, forward>>

(***************************************************************************)
(* The tunnel task                                                         *)
(***************************************************************************)

\* run_tunnel binds the pod's port and tells the caller, or fails.
Bind ==
  /\ tunnel = "starting"
  /\ tunnel' \in {"listening", "failed"}
  /\ UNCHANGED <<main, signals, stopping, conn, agents, forward>>

\* dial_ws for the agent's connection: the token may be refused once, and a
\* connection that cannot be bridged is dropped; the tunnel itself goes on.
BridgeDial ==
  /\ tunnel = "listening" /\ conn = "dialing"
  /\ conn' \in {"open", "refreshing", "closed"}
  /\ UNCHANGED <<main, signals, stopping, tunnel, agents, forward>>

\* The one retry, after force_refresh_session.
BridgeRetry ==
  /\ tunnel = "listening" /\ conn = "refreshing"
  /\ conn' \in {"open", "closed"}
  /\ UNCHANGED <<main, signals, stopping, tunnel, agents, forward>>

\* relay_bidirectional ends when the far side closes or breaks.
RelayEnds ==
  /\ tunnel = "listening" /\ conn = "open"
  /\ conn' = "closed"
  /\ UNCHANGED <<main, signals, stopping, tunnel, agents, forward>>

\* The accept loop leaves on its own Ctrl-C or on the token, and aborts the
\* connections it bridges.
TunnelStops ==
  /\ tunnel = "listening" /\ (sigint \/ Cancelled)
  /\ tunnel' = "done"
  /\ conn' = IF conn = "none" THEN "none" ELSE "closed"
  /\ UNCHANGED <<main, signals, stopping, agents, forward>>

(***************************************************************************)
(* The agent task                                                          *)
(***************************************************************************)

Returns(result) == agent' = "returning" /\ agentEnd' = result

\* The token provider; it does not watch the token it is given.
Token ==
  /\ agent = "token"
  /\ agent' = "dial" /\ tokenLost' \in BOOLEAN
  /\ conn' = IF tunnel = "listening" THEN "dialing" ELSE "closed"
  /\ UNCHANGED <<main, signals, stopping, tunnel, agentEnd, holder, ready, live, forward>>

\* The WebSocket upgrade through the tunnel.
Dial ==
  /\ agent = "dial"
  /\ \/ Cancelled /\ Returns("error")
     \/ conn = "open" /\ agent' = "handshake" /\ UNCHANGED agentEnd
     \/ conn = "open" /\ Returns("rejected")        \* 401
     \/ conn \in {"open", "closed"} /\ Returns("error")
  /\ UNCHANGED <<main, signals, stopping, tunnel, conn, tokenLost, holder, ready, live, forward>>

\* SESSION_ACK, or a refusal, a broken connection or the timeout.
Handshake ==
  /\ agent = "handshake"
  /\ \/ /\ conn = "open"
        /\ agent' = "session" /\ holder' = TRUE /\ ready' = "sending" /\ live' = TRUE
        /\ UNCHANGED agentEnd
     \/ Returns("error") /\ UNCHANGED <<holder, ready, live>>
  /\ UNCHANGED <<main, signals, stopping, bridge, tokenLost, forward>>

\* Session::run returns, its connection having ended or the peer having been
\* idle for too long, which may be at any time.  It has cancelled the session's
\* token and joined two of its loops; the writer may still be closing, and a
\* stream that was registered after the reset is still bridged.
SessionCloses ==
  /\ agent = "session"
  /\ Returns("ok") /\ holder' = FALSE /\ live' = FALSE
  /\ \E tasks \in SUBSET SessionTasks : left' = left \union tasks
  /\ UNCHANGED <<main, signals, stopping, bridge, tokenLost, ready, services, forwarder>>

\* Mutant: the session's own token is not told.
SessionForgotten ==
  /\ agent = "session" /\ Cancelled
  /\ Returns("ok") /\ holder' = FALSE
  /\ left' \in {left \union {"session loops"}, left \union SessionTasks}
  /\ UNCHANGED <<main, signals, stopping, bridge, tokenLost, ready, live, services, forwarder>>

\* The token wins against `run`, which is dropped where it stands: it resets no
\* stream and joins no loop.  The session's own token is cancelled for the loops
\* to see; a local connection stays until its application ends it.
SessionDropped ==
  /\ agent = "session" /\ Cancelled
  /\ Returns("ok") /\ holder' = FALSE /\ live' = FALSE
  /\ left' \in {left \union {"session loops"}, left \union SessionTasks}
  /\ UNCHANGED <<main, signals, stopping, bridge, tokenLost, ready, services, forwarder>>

\* The agent is dropped with its end of the channel, then the task can be joined.
AgentJoins ==
  /\ agent = "returning" /\ agent' = "done"
  /\ UNCHANGED <<main, signals, stopping, bridge, agentEnd, tokenLost, holder, ready, live,
                 forward>>

\* The task that hands the session over, unless the token stops it.
Notify ==
  /\ ready = "sending"
  /\ \/ ready' = "queued"
     \/ Cancelled /\ ready' = "dropped"
  /\ UNCHANGED <<main, signals, stopping, bridge, agent, agentEnd, tokenLost, holder, live,
                 forward>>

(***************************************************************************)
(* The forwarder task and Ctrl-C                                           *)
(***************************************************************************)

\* ServiceListener::stop aborts the accept loops and does not join them: each
\* holds its port until the runtime has dropped it.
ListenersStopped == forwarder' = "done" /\ left' = left \union {"accept loops"}

\* forwarder::run: a listener per service; when one finds its port taken, by an
\* accept loop of the attempt before or by anybody else, those already started
\* are stopped.
ForwarderStarts ==
  /\ forwarder = "starting"
  /\ \/ forwarder' = "listening" /\ UNCHANGED left
     \/ forwarder' = "done" /\ UNCHANGED left
     \/ ListenersStopped
  /\ UNCHANGED <<main, signals, stopping, bridge, agents, services>>

ForwarderStops ==
  /\ forwarder = "listening" /\ Cancelled /\ ListenersStopped
  /\ UNCHANGED <<main, signals, stopping, bridge, agents, services>>

\* Something left running ends, in its own time: loops when they see their token
\* or are dropped, a local connection when its application ends it.
LeftoverEnds ==
  /\ \E task \in left : left' = left \ {task}
  /\ UNCHANGED <<main, signals, stopping, bridge, agents, services, forwarder>>

\* The user presses Ctrl-C: every ctrl_c() that is awaited fires.
Interrupt ==
  /\ watcher = "waiting" /\ exit = "none"
  /\ watcher' = "woken" /\ sigint' = (tunnel = "listening")
  /\ UNCHANGED <<main, outerCancel, early, stopping, bridge, agents, forward>>

\* Mutant: Ctrl-C is watched for only while no session is up.
SignalOutsideSession ==
  /\ watcher = "woken" /\ exit = "none"
  /\ watcher' = "done" /\ outerCancel' = (phase # "session")
  /\ UNCHANGED <<main, early, sigint, stopping, bridge, agents, forward>>

\* The signal task cancels the command's token.
SignalTask ==
  /\ watcher = "woken" /\ exit = "none"
  /\ watcher' = "done" /\ outerCancel' = TRUE
  /\ early' = (/\ phase \in {"await tunnel", "await agent", "session"} /\ ~stopping
               /\ tunnel # "done" /\ agent \notin {"returning", "done"} /\ forwarder # "done")
  /\ UNCHANGED <<main, sigint, stopping, bridge, agents, forward>>

Command ==
  \/ Top \/ Sleep \/ Fetch \/ AwaitTunnel \/ AwaitAgent \/ Session
  \/ AwaitAgentStop \/ AwaitTunnelStop \/ AwaitForwarderStop
Tunnel == Bind \/ BridgeDial \/ BridgeRetry \/ RelayEnds \/ TunnelStops
Agent == Token \/ Dial \/ Handshake \/ SessionCloses \/ SessionDropped \/ AgentJoins \/ Notify
Forwarder == ForwarderStarts \/ ForwarderStops

DebugNext ==
  Command \/ Tunnel \/ Agent \/ Forwarder \/ LeftoverEnds \/ Interrupt \/ SignalTask

DebugSpec == DebugInit /\ [][DebugNext]_debugVars

\* The command's own task and the watcher run; the others are only as live as the
\* network and the keychain are.
DebugFairSpec == DebugSpec /\ WF_debugVars(Command) /\ WF_debugVars(SignalTask)

(***************************************************************************)
(* Properties                                                              *)
(***************************************************************************)

\* A new attempt starts only when the tasks of the last one have been joined:
\* the tunnel has left the port the next one binds, its bridged connections are
\* closed, and no old session is in the holder.  What else of it still runs (see
\* `left`: loops told to stop, local connections that nobody resets) belongs to
\* a session whose token is cancelled and whose connection is gone, so that it
\* reaches no debug server; but its ports and local connections are not free.
NothingReaches ==
  phase \in {"top", "sleep", "fetch"} =>
    /\ {tunnel, agent, forwarder} \subseteq Over
    /\ conn \in {"none", "closed"} /\ ~holder /\ ~live

\* Ctrl-C that is seen while the attempt is in order ends the command cleanly,
\* whatever the components then report, unless one of them does not stop.
CancelWins == early /\ exit # "none" => exit = "clean" \/ verdict = "shutdown"

\* Ctrl-C ends the command, whichever await it meets.
CtrlCEnds == watcher = "woken" ~> exit # "none"

====
