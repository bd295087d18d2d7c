---- MODULE RemoteDebugProofs ----
(***************************************************************************)
(* Proofs about RemoteDebug, for any limit on connection attempts.         *)
(***************************************************************************)
EXTENDS RemoteDebug, TLAPS

\* The phases of the ordered shutdown, and those of an attempt that runs.
Stopping == {"stop agent", "stop tunnel", "stop forwarder"}
Attempting == {"await tunnel", "await agent", "session"}
Between == {"top", "sleep", "fetch"}

\* The type invariant, one part for each of the state's owners.
LoopTyped ==
  /\ phase \in Between \union Attempting \union Stopping \union {"ended"}
  /\ attempt \in 0..MaxAttempts
  /\ verdict \in {"none", "startup", "ended", "cancelled"} \union Errors
  /\ exit \in {"none", "clean", "auth", "api", "network"}
SignalsTyped ==
  /\ outerCancel \in BOOLEAN /\ stopping \in BOOLEAN /\ sigint \in BOOLEAN /\ early \in BOOLEAN
  /\ tokenLost \in BOOLEAN /\ holder \in BOOLEAN /\ live \in BOOLEAN
  /\ services \in BOOLEAN /\ known \in BOOLEAN
  /\ watcher \in {"waiting", "woken", "done"}
BridgeTyped ==
  /\ tunnel \in {"off", "starting", "failed", "listening", "done"}
  /\ conn \in {"none", "dialing", "refreshing", "open", "closed"}
  /\ forwarder \in {"off", "starting", "listening", "done"}
AgentTyped ==
  /\ agent \in {"off", "token", "dial", "handshake", "session", "returning", "done"}
  /\ agentEnd \in {"none", "ok", "error", "rejected"}
  /\ ready \in {"none", "sending", "queued", "dropped"}
Typed == LoopTyped /\ SignalsTyped /\ BridgeTyped /\ AgentTyped

\* The command has an exit code exactly when it has ended, and the shutdown
\* starts with the attempt's result known.
Results ==
  /\ exit = "none" \/ phase = "ended"
  /\ phase # "ended" \/ exit # "none"
  /\ phase \in Stopping => verdict # "none"

\* The ordered shutdown: a component the command has gone past is over, unless
\* its abort has made the result "shutdown", with which no attempt follows.
StoppedInOrder ==
  /\ phase = "stop tunnel" => agent \in Over \/ verdict = "shutdown"
  /\ phase = "stop forwarder" => (agent \in Over /\ tunnel \in Over) \/ verdict = "shutdown"
  /\ phase = "await tunnel" => agent \in Over
  /\ phase \in Between => agent \in Over /\ tunnel \in Over /\ forwarder \in Over

\* What a task owns goes with it: the bridged connection with the tunnel, the
\* session in the holder, and the session's token, with the agent.
Owned ==
  /\ conn \in {"dialing", "refreshing", "open"} => tunnel = "listening"
  /\ holder \/ live => agent = "session"

\* After an early Ctrl-C the attempt can only stop, as cancelled, as a startup
\* failure that is told as cancelled, or with a component that did not stop.
EarlyStop ==
  early =>
    /\ outerCancel /\ watcher = "done"
    /\ phase \notin Between
    /\ phase \in Stopping => verdict \in {"startup", "cancelled", "shutdown"}
    /\ phase = "ended" => exit = "clean" \/ verdict = "shutdown"

\* Ctrl-C is handled once.
WatchedOnce == watcher # "done" => ~early /\ ~outerCancel

Inv == Typed /\ Results /\ StoppedInOrder /\ Owned /\ EarlyStop /\ WatchedOnce

----------------------------------------------------------------------------
\* The first state satisfies the invariant.
LEMMA InitInv == DebugInit => Inv
<1> SUFFICES ASSUME DebugInit PROVE Inv OBVIOUS
<1> USE AttemptsAssumption DEF DebugInit
<1>1. LoopTyped BY DEF LoopTyped, Between
<1>2. SignalsTyped BY DEF SignalsTyped
<1>3. BridgeTyped BY DEF BridgeTyped
<1>4. AgentTyped BY DEF AgentTyped
<1>5. Results /\ Owned /\ EarlyStop /\ WatchedOnce
  BY DEF Results, Owned, EarlyStop, WatchedOnce, Stopping
<1>6. StoppedInOrder BY DEF StoppedInOrder, Over
<1> QED BY <1>1, <1>2, <1>3, <1>4, <1>5, <1>6 DEF Inv, Typed

\* The loop goes round only after a result that allows another attempt, and a
\* cancelled attempt ends the command cleanly.
LEMMA RetryFacts ==
  ASSUME LoopTyped, NEW r \in {"cancelled", "ended"} \union Errors, RetryDecision(r)
  PROVE  /\ attempt' \in 0..MaxAttempts
         /\ \/ phase' = "top" /\ exit' = exit /\ r \in {"ended", "retriable"}
            \/ phase' = "ended" /\ exit' \in {"clean", "auth", "api", "network"}
         /\ r = "cancelled" => phase' = "ended" /\ exit' = "clean"
<1> USE AttemptsAssumption DEF LoopTyped, RetryDecision, Exit
<1>1. CASE r = "retriable" BY <1>1
<1>2. CASE r = "ended" BY <1>2
<1>3. CASE r \in {"cancelled", "auth", "permanent", "shutdown"} BY <1>3
<1> QED BY <1>1, <1>2, <1>3 DEF Errors

\* Top preserves the invariant.
LEMMA TopInv == ASSUME Inv, Top PROVE Inv'
<1> USE AttemptsAssumption DEF Inv, Top, Exit, main, signals, bridge, agents, forward
<1>1. Typed'
  <2>1. LoopTyped' BY DEF Typed, LoopTyped, Errors, Between, Attempting, Stopping
  <2>2. SignalsTyped' BY DEF Typed, SignalsTyped
  <2>3. BridgeTyped' BY DEF Typed, BridgeTyped
  <2>4. AgentTyped' BY DEF Typed, AgentTyped
  <2> QED BY <2>1, <2>2, <2>3, <2>4 DEF Typed
<1>2. Results' BY DEF Typed, LoopTyped, Results, Stopping, Errors
<1>3. WatchedOnce' BY DEF WatchedOnce
<1>4. StoppedInOrder'
  BY DEF Typed, LoopTyped, BridgeTyped, AgentTyped, StoppedInOrder, Results, Stopping,
    Between, Over, Errors
<1>5. Owned'
  BY DEF Typed, SignalsTyped, BridgeTyped, AgentTyped, Owned, StoppedInOrder, Between, Over
<1>6. EarlyStop'
  BY DEF Typed, LoopTyped, SignalsTyped, EarlyStop, WatchedOnce, Results, Stopping,
    Between, Errors, Cancelled
<1> QED BY <1>1, <1>2, <1>3, <1>4, <1>5, <1>6

\* Sleep preserves the invariant.
LEMMA SleepInv == ASSUME Inv, Sleep PROVE Inv'
<1> USE AttemptsAssumption DEF Inv, Sleep, Exit, main, signals, bridge, agents, forward
<1>1. Typed'
  <2>1. LoopTyped' BY DEF Typed, LoopTyped, Errors, Between, Attempting, Stopping
  <2>2. SignalsTyped' BY DEF Typed, SignalsTyped
  <2>3. BridgeTyped' BY DEF Typed, BridgeTyped
  <2>4. AgentTyped' BY DEF Typed, AgentTyped
  <2> QED BY <2>1, <2>2, <2>3, <2>4 DEF Typed
<1>2. Results' BY DEF Typed, LoopTyped, Results, Stopping, Errors
<1>3. WatchedOnce' BY DEF WatchedOnce
<1>4. StoppedInOrder'
  BY DEF Typed, LoopTyped, BridgeTyped, AgentTyped, StoppedInOrder, Results, Stopping,
    Between, Over, Errors
<1>5. Owned' BY DEF Typed, SignalsTyped, BridgeTyped, AgentTyped, Owned
<1>6. EarlyStop'
  BY DEF Typed, LoopTyped, SignalsTyped, EarlyStop, WatchedOnce, Results, Stopping,
    Between, Errors, Cancelled
<1> QED BY <1>1, <1>2, <1>3, <1>4, <1>5, <1>6

\* Fetch preserves the invariant.
LEMMA FetchInv == ASSUME Inv, Fetch PROVE Inv'
<1> USE DEF Inv, Fetch, main, signals, bridge, agents, forward
<1>0. \/ /\ UNCHANGED <<tunnel, services>>
         /\ \E r \in {"cancelled", "auth", "permanent", "retriable"} :
              RetryDecision(r) /\ (r = "cancelled" => outerCancel)
      \/ /\ phase' = "await tunnel" /\ tunnel' = "starting" /\ services' \in BOOLEAN
         /\ UNCHANGED <<attempt, exit>>
  BY DEF Preconditions, DebugInfo
<1>1. /\ attempt' \in 0..MaxAttempts
      /\ \/ phase' \in {"top", "await tunnel"} /\ exit' = exit
         \/ phase' = "ended" /\ exit' \in {"clean", "auth", "api", "network"}
  BY <1>0, RetryFacts DEF Typed, LoopTyped, Errors
<1>2. Typed'
  <2>1. LoopTyped' BY <1>1 DEF Typed, LoopTyped, Between, Attempting
  <2>2. SignalsTyped' BY <1>0 DEF Typed, SignalsTyped
  <2>3. BridgeTyped' BY <1>0 DEF Typed, BridgeTyped
  <2>4. AgentTyped' BY DEF Typed, AgentTyped
  <2> QED BY <2>1, <2>2, <2>3, <2>4 DEF Typed
<1>3. Results' BY <1>1 DEF Results, Stopping
<1>4. WatchedOnce' BY DEF WatchedOnce
<1>5. StoppedInOrder' BY <1>0, <1>1 DEF StoppedInOrder, Between, Over
<1>6. Owned' BY <1>0 DEF Owned, StoppedInOrder, Between, Over
<1>7. EarlyStop' BY DEF EarlyStop, Between
<1> QED BY <1>2, <1>3, <1>4, <1>5, <1>6, <1>7

\* AwaitTunnel preserves the invariant.
LEMMA AwaitTunnelInv == ASSUME Inv, AwaitTunnel PROVE Inv'
<1> USE AttemptsAssumption DEF Inv, AwaitTunnel, StopWith, main, signals, bridge, agents, forward
<1>1. Typed'
  <2>1. LoopTyped' BY DEF Typed, LoopTyped, Errors, Between, Attempting, Stopping
  <2>2. SignalsTyped' BY DEF Typed, SignalsTyped
  <2>3. BridgeTyped' BY DEF Typed, BridgeTyped
  <2>4. AgentTyped' BY DEF Typed, AgentTyped
  <2> QED BY <2>1, <2>2, <2>3, <2>4 DEF Typed
<1>2. Results' BY DEF Typed, LoopTyped, Results, Stopping, Errors
<1>3. WatchedOnce' BY DEF WatchedOnce
<1>4. StoppedInOrder'
  BY DEF Typed, LoopTyped, BridgeTyped, AgentTyped, StoppedInOrder, Results, Stopping,
    Between, Over, Errors
<1>5. Owned' BY DEF Typed, SignalsTyped, BridgeTyped, AgentTyped, Owned, StoppedInOrder,
    Over, Cancelled
<1>6. EarlyStop'
  <2>1. /\ UNCHANGED <<early, outerCancel, watcher>> /\ phase' \notin Between /\ phase' # "ended"
        /\ phase' \in Stopping => verdict' = "startup"
    BY DEF Between, Stopping, Cancelled
  <2> HIDE DEF AwaitTunnel
  <2> QED BY <2>1 DEF EarlyStop, Typed, SignalsTyped
<1> QED BY <1>1, <1>2, <1>3, <1>4, <1>5, <1>6

\* AwaitAgent preserves the invariant.
LEMMA AwaitAgentInv == ASSUME Inv, AwaitAgent PROVE Inv'
<1> USE AttemptsAssumption DEF Inv, AwaitAgent, StopWith, main, signals, bridge, agents, forward
<1>1. Typed'
  <2>1. LoopTyped' BY DEF Typed, LoopTyped, Errors, Between, Attempting, Stopping
  <2>2. SignalsTyped' BY DEF Typed, SignalsTyped
  <2>3. BridgeTyped' BY DEF Typed, BridgeTyped
  <2>4. AgentTyped' BY DEF Typed, AgentTyped
  <2> QED BY <2>1, <2>2, <2>3, <2>4 DEF Typed
<1>2. Results' BY DEF Typed, LoopTyped, Results, Stopping, Errors
<1>3. WatchedOnce' BY DEF WatchedOnce
<1>4. StoppedInOrder'
  BY DEF Typed, LoopTyped, BridgeTyped, AgentTyped, StoppedInOrder, Results, Stopping,
    Between, Over, Errors
<1>5. Owned' BY DEF Typed, SignalsTyped, BridgeTyped, AgentTyped, Owned
<1>6. EarlyStop'
  BY DEF Typed, LoopTyped, SignalsTyped, EarlyStop, WatchedOnce, Results, Stopping,
    Between, Errors, Cancelled
<1> QED BY <1>1, <1>2, <1>3, <1>4, <1>5, <1>6

\* Session preserves the invariant.
LEMMA SessionInv == ASSUME Inv, Session PROVE Inv'
<1> USE AttemptsAssumption DEF Inv, Session, StopWith, ClassifyAgent,
      main, signals, bridge, agents, forward
<1>1. Typed'
  <2>1. LoopTyped' BY DEF Typed, LoopTyped, Errors, Between, Attempting, Stopping
  <2>2. SignalsTyped' BY DEF Typed, SignalsTyped
  <2>3. BridgeTyped' BY DEF Typed, BridgeTyped
  <2>4. AgentTyped' BY DEF Typed, AgentTyped
  <2> QED BY <2>1, <2>2, <2>3, <2>4 DEF Typed
<1>2. Results' BY DEF Typed, LoopTyped, Results, Stopping, Errors
<1>3. WatchedOnce' BY DEF WatchedOnce
<1>4. StoppedInOrder'
  BY DEF Typed, LoopTyped, BridgeTyped, AgentTyped, StoppedInOrder, Results, Stopping,
    Between, Over, Errors
<1>5. Owned' BY DEF Typed, SignalsTyped, BridgeTyped, AgentTyped, Owned
<1>6. EarlyStop'
  BY DEF Typed, LoopTyped, SignalsTyped, EarlyStop, WatchedOnce, Results, Stopping,
    Between, Errors, Cancelled
<1> QED BY <1>1, <1>2, <1>3, <1>4, <1>5, <1>6

\* AwaitAgentStop preserves the invariant.
LEMMA AwaitAgentStopInv == ASSUME Inv, AwaitAgentStop PROVE Inv'
<1> USE AttemptsAssumption DEF Inv, AwaitAgentStop, Await, main, signals, bridge, agents, forward
<1>1. Typed'
  <2>1. LoopTyped' BY DEF Typed, LoopTyped, Errors, Between, Attempting, Stopping
  <2>2. SignalsTyped' BY DEF Typed, SignalsTyped
  <2>3. BridgeTyped' BY DEF Typed, BridgeTyped
  <2>4. AgentTyped' BY DEF Typed, AgentTyped
  <2> QED BY <2>1, <2>2, <2>3, <2>4 DEF Typed
<1>2. Results' BY DEF Typed, LoopTyped, Results, Stopping, Errors
<1>3. WatchedOnce' BY DEF WatchedOnce
<1>4. StoppedInOrder'
  BY DEF Typed, LoopTyped, BridgeTyped, AgentTyped, StoppedInOrder, Results, Stopping,
    Between, Over, Errors
<1>5. Owned' BY DEF Typed, SignalsTyped, BridgeTyped, AgentTyped, Owned
<1>6. EarlyStop'
  BY DEF Typed, LoopTyped, SignalsTyped, EarlyStop, WatchedOnce, Results, Stopping,
    Between, Errors, Cancelled
<1> QED BY <1>1, <1>2, <1>3, <1>4, <1>5, <1>6

\* AwaitTunnelStop preserves the invariant.
LEMMA AwaitTunnelStopInv == ASSUME Inv, AwaitTunnelStop PROVE Inv'
<1> USE AttemptsAssumption DEF Inv, AwaitTunnelStop, Await, main, signals, bridge, agents, forward
<1>1. Typed'
  <2>1. LoopTyped' BY DEF Typed, LoopTyped, Errors, Between, Attempting, Stopping
  <2>2. SignalsTyped' BY DEF Typed, SignalsTyped
  <2>3. BridgeTyped' BY DEF Typed, BridgeTyped
  <2>4. AgentTyped' BY DEF Typed, AgentTyped
  <2> QED BY <2>1, <2>2, <2>3, <2>4 DEF Typed
<1>2. Results' BY DEF Typed, LoopTyped, Results, Stopping, Errors
<1>3. WatchedOnce' BY DEF WatchedOnce
<1>4. StoppedInOrder'
  BY DEF Typed, LoopTyped, BridgeTyped, AgentTyped, StoppedInOrder, Results, Stopping,
    Between, Over, Errors
<1>5. Owned' BY DEF Typed, SignalsTyped, BridgeTyped, AgentTyped, Owned
<1>6. EarlyStop'
  BY DEF Typed, LoopTyped, SignalsTyped, EarlyStop, WatchedOnce, Results, Stopping,
    Between, Errors, Cancelled
<1> QED BY <1>1, <1>2, <1>3, <1>4, <1>5, <1>6

\* AwaitForwarderStop preserves the invariant.
LEMMA AwaitForwarderStopInv == ASSUME Inv, AwaitForwarderStop PROVE Inv'
<1> USE DEF Inv, main, signals, bridge, agents, forward
<1> DEFINE result == IF forwarder \notin Over THEN "shutdown"
                     ELSE IF verdict = "startup" THEN StartupFailure ELSE verdict
<1>0. /\ phase = "stop forwarder" /\ RetryDecision(result)
      /\ verdict' = IF forwarder \in Over THEN verdict ELSE "shutdown"
      /\ UNCHANGED <<known, signals, stopping, bridge, agents, forward>>
  BY DEF AwaitForwarderStop
<1>1. result \in {"cancelled", "ended"} \union Errors
  BY <1>0 DEF Typed, LoopTyped, Results, Stopping, StartupFailure, ClassifyAgent, Errors
<1>2. /\ attempt' \in 0..MaxAttempts
      /\ \/ phase' = "top" /\ exit' = exit /\ result \in {"ended", "retriable"}
         \/ phase' = "ended" /\ exit' \in {"clean", "auth", "api", "network"}
      /\ result = "cancelled" => phase' = "ended" /\ exit' = "clean"
  BY <1>0, <1>1, RetryFacts DEF Typed
<1> HIDE DEF result
<1>3. Typed'
  <2>1. LoopTyped' BY <1>0, <1>2 DEF Typed, LoopTyped, Between, Errors
  <2>2. SignalsTyped' BY <1>0 DEF Typed, SignalsTyped
  <2>3. BridgeTyped' BY <1>0 DEF Typed, BridgeTyped
  <2>4. AgentTyped' BY <1>0 DEF Typed, AgentTyped
  <2> QED BY <2>1, <2>2, <2>3, <2>4 DEF Typed
<1>4. Results' BY <1>0, <1>2 DEF Results, Stopping
<1>5. WatchedOnce' BY <1>0 DEF WatchedOnce
<1>6. StoppedInOrder'
  <2>1. CASE phase' = "ended" BY <2>1 DEF StoppedInOrder, Between
  <2>2. CASE phase' = "top"
    <3>1. result \in {"ended", "retriable"} BY <1>2, <2>2
    <3>2. forwarder \in Over /\ verdict # "shutdown" BY <3>1 DEF result
    <3> QED BY <1>0, <2>2, <3>2 DEF StoppedInOrder
  <2> QED BY <1>2, <2>1, <2>2
<1>7. Owned' BY <1>0 DEF Owned
<1>8. EarlyStop'
  <2>1. early' = early /\ outerCancel' = outerCancel /\ watcher' = watcher BY <1>0
  <2>2. ASSUME early
        PROVE  result = "cancelled" \/ (result = "shutdown" /\ verdict' = "shutdown")
    BY <1>0, <2>2 DEF EarlyStop, Stopping, StartupFailure, result
  <2> QED BY <1>2, <2>1, <2>2 DEF EarlyStop, Between, Stopping
<1> QED BY <1>3, <1>4, <1>5, <1>6, <1>7, <1>8

\* Bind preserves the invariant.
LEMMA BindInv == ASSUME Inv, Bind PROVE Inv'
<1> USE AttemptsAssumption DEF Inv, Bind, main, signals, bridge, agents, forward
<1>1. Typed'
  <2>1. LoopTyped' BY DEF Typed, LoopTyped, Errors, Between, Attempting, Stopping
  <2>2. SignalsTyped' BY DEF Typed, SignalsTyped
  <2>3. BridgeTyped' BY DEF Typed, BridgeTyped
  <2>4. AgentTyped' BY DEF Typed, AgentTyped
  <2> QED BY <2>1, <2>2, <2>3, <2>4 DEF Typed
<1>2. Results' BY DEF Typed, LoopTyped, Results, Stopping, Errors
<1>3. WatchedOnce' BY DEF WatchedOnce
<1>4. StoppedInOrder'
  BY DEF Typed, LoopTyped, BridgeTyped, AgentTyped, StoppedInOrder, Results, Stopping,
    Between, Over, Errors
<1>5. Owned' BY DEF Typed, SignalsTyped, BridgeTyped, AgentTyped, Owned
<1>6. EarlyStop'
  BY DEF Typed, LoopTyped, SignalsTyped, EarlyStop, WatchedOnce, Results, Stopping,
    Between, Errors, Cancelled
<1> QED BY <1>1, <1>2, <1>3, <1>4, <1>5, <1>6

\* BridgeDial preserves the invariant.
LEMMA BridgeDialInv == ASSUME Inv, BridgeDial PROVE Inv'
<1> USE AttemptsAssumption DEF Inv, BridgeDial, main, signals, bridge, agents, forward
<1>1. Typed'
  <2>1. LoopTyped' BY DEF Typed, LoopTyped, Errors, Between, Attempting, Stopping
  <2>2. SignalsTyped' BY DEF Typed, SignalsTyped
  <2>3. BridgeTyped' BY DEF Typed, BridgeTyped
  <2>4. AgentTyped' BY DEF Typed, AgentTyped
  <2> QED BY <2>1, <2>2, <2>3, <2>4 DEF Typed
<1>2. Results' BY DEF Typed, LoopTyped, Results, Stopping, Errors
<1>3. WatchedOnce' BY DEF WatchedOnce
<1>4. StoppedInOrder'
  BY DEF Typed, LoopTyped, BridgeTyped, AgentTyped, StoppedInOrder, Results, Stopping,
    Between, Over, Errors
<1>5. Owned' BY DEF Typed, SignalsTyped, BridgeTyped, AgentTyped, Owned
<1>6. EarlyStop'
  BY DEF Typed, LoopTyped, SignalsTyped, EarlyStop, WatchedOnce, Results, Stopping,
    Between, Errors, Cancelled
<1> QED BY <1>1, <1>2, <1>3, <1>4, <1>5, <1>6

\* BridgeRetry preserves the invariant.
LEMMA BridgeRetryInv == ASSUME Inv, BridgeRetry PROVE Inv'
<1> USE AttemptsAssumption DEF Inv, BridgeRetry, main, signals, bridge, agents, forward
<1>1. Typed'
  <2>1. LoopTyped' BY DEF Typed, LoopTyped, Errors, Between, Attempting, Stopping
  <2>2. SignalsTyped' BY DEF Typed, SignalsTyped
  <2>3. BridgeTyped' BY DEF Typed, BridgeTyped
  <2>4. AgentTyped' BY DEF Typed, AgentTyped
  <2> QED BY <2>1, <2>2, <2>3, <2>4 DEF Typed
<1>2. Results' BY DEF Typed, LoopTyped, Results, Stopping, Errors
<1>3. WatchedOnce' BY DEF WatchedOnce
<1>4. StoppedInOrder'
  BY DEF Typed, LoopTyped, BridgeTyped, AgentTyped, StoppedInOrder, Results, Stopping,
    Between, Over, Errors
<1>5. Owned' BY DEF Typed, SignalsTyped, BridgeTyped, AgentTyped, Owned
<1>6. EarlyStop'
  BY DEF Typed, LoopTyped, SignalsTyped, EarlyStop, WatchedOnce, Results, Stopping,
    Between, Errors, Cancelled
<1> QED BY <1>1, <1>2, <1>3, <1>4, <1>5, <1>6

\* RelayEnds preserves the invariant.
LEMMA RelayEndsInv == ASSUME Inv, RelayEnds PROVE Inv'
<1> USE AttemptsAssumption DEF Inv, RelayEnds, main, signals, bridge, agents, forward
<1>1. Typed'
  <2>1. LoopTyped' BY DEF Typed, LoopTyped, Errors, Between, Attempting, Stopping
  <2>2. SignalsTyped' BY DEF Typed, SignalsTyped
  <2>3. BridgeTyped' BY DEF Typed, BridgeTyped
  <2>4. AgentTyped' BY DEF Typed, AgentTyped
  <2> QED BY <2>1, <2>2, <2>3, <2>4 DEF Typed
<1>2. Results' BY DEF Typed, LoopTyped, Results, Stopping, Errors
<1>3. WatchedOnce' BY DEF WatchedOnce
<1>4. StoppedInOrder'
  BY DEF Typed, LoopTyped, BridgeTyped, AgentTyped, StoppedInOrder, Results, Stopping,
    Between, Over, Errors
<1>5. Owned' BY DEF Typed, SignalsTyped, BridgeTyped, AgentTyped, Owned
<1>6. EarlyStop'
  BY DEF Typed, LoopTyped, SignalsTyped, EarlyStop, WatchedOnce, Results, Stopping,
    Between, Errors, Cancelled
<1> QED BY <1>1, <1>2, <1>3, <1>4, <1>5, <1>6

\* TunnelStops preserves the invariant.
LEMMA TunnelStopsInv == ASSUME Inv, TunnelStops PROVE Inv'
<1> USE AttemptsAssumption DEF Inv, TunnelStops, main, signals, bridge, agents, forward
<1>1. Typed'
  <2>1. LoopTyped' BY DEF Typed, LoopTyped, Errors, Between, Attempting, Stopping
  <2>2. SignalsTyped' BY DEF Typed, SignalsTyped
  <2>3. BridgeTyped' BY DEF Typed, BridgeTyped
  <2>4. AgentTyped' BY DEF Typed, AgentTyped
  <2> QED BY <2>1, <2>2, <2>3, <2>4 DEF Typed
<1>2. Results' BY DEF Typed, LoopTyped, Results, Stopping, Errors
<1>3. WatchedOnce' BY DEF WatchedOnce
<1>4. StoppedInOrder'
  BY DEF Typed, LoopTyped, BridgeTyped, AgentTyped, StoppedInOrder, Results, Stopping,
    Between, Over, Errors
<1>5. Owned' BY DEF Typed, SignalsTyped, BridgeTyped, AgentTyped, Owned
<1>6. EarlyStop'
  BY DEF Typed, LoopTyped, SignalsTyped, EarlyStop, WatchedOnce, Results, Stopping,
    Between, Errors, Cancelled
<1> QED BY <1>1, <1>2, <1>3, <1>4, <1>5, <1>6

\* Token preserves the invariant.
LEMMA TokenInv == ASSUME Inv, Token PROVE Inv'
<1> USE AttemptsAssumption DEF Inv, Token, main, signals, bridge, agents, forward
<1>1. Typed'
  <2>1. LoopTyped' BY DEF Typed, LoopTyped, Errors, Between, Attempting, Stopping
  <2>2. SignalsTyped' BY DEF Typed, SignalsTyped
  <2>3. BridgeTyped' BY DEF Typed, BridgeTyped
  <2>4. AgentTyped' BY DEF Typed, AgentTyped
  <2> QED BY <2>1, <2>2, <2>3, <2>4 DEF Typed
<1>2. Results' BY DEF Typed, LoopTyped, Results, Stopping, Errors
<1>3. WatchedOnce' BY DEF WatchedOnce
<1>4. StoppedInOrder'
  BY DEF Typed, LoopTyped, BridgeTyped, AgentTyped, StoppedInOrder, Results, Stopping,
    Between, Over, Errors
<1>5. Owned' BY DEF Typed, SignalsTyped, BridgeTyped, AgentTyped, Owned
<1>6. EarlyStop'
  BY DEF Typed, LoopTyped, SignalsTyped, EarlyStop, WatchedOnce, Results, Stopping,
    Between, Errors, Cancelled
<1> QED BY <1>1, <1>2, <1>3, <1>4, <1>5, <1>6

\* Dial preserves the invariant.
LEMMA DialInv == ASSUME Inv, Dial PROVE Inv'
<1> USE AttemptsAssumption DEF Inv, Dial, Returns, main, signals, bridge, agents, forward
<1>1. Typed'
  <2>1. LoopTyped' BY DEF Typed, LoopTyped, Errors, Between, Attempting, Stopping
  <2>2. SignalsTyped' BY DEF Typed, SignalsTyped
  <2>3. BridgeTyped' BY DEF Typed, BridgeTyped
  <2>4. AgentTyped' BY DEF Typed, AgentTyped
  <2> QED BY <2>1, <2>2, <2>3, <2>4 DEF Typed
<1>2. Results' BY DEF Typed, LoopTyped, Results, Stopping, Errors
<1>3. WatchedOnce' BY DEF WatchedOnce
<1>4. StoppedInOrder'
  BY DEF Typed, LoopTyped, BridgeTyped, AgentTyped, StoppedInOrder, Results, Stopping,
    Between, Over, Errors
<1>5. Owned' BY DEF Typed, SignalsTyped, BridgeTyped, AgentTyped, Owned
<1>6. EarlyStop'
  BY DEF Typed, LoopTyped, SignalsTyped, EarlyStop, WatchedOnce, Results, Stopping,
    Between, Errors, Cancelled
<1> QED BY <1>1, <1>2, <1>3, <1>4, <1>5, <1>6

\* Handshake preserves the invariant.
LEMMA HandshakeInv == ASSUME Inv, Handshake PROVE Inv'
<1> USE AttemptsAssumption DEF Inv, Handshake, Returns, main, signals, bridge, agents, forward
<1>1. Typed'
  <2>1. LoopTyped' BY DEF Typed, LoopTyped, Errors, Between, Attempting, Stopping
  <2>2. SignalsTyped' BY DEF Typed, SignalsTyped
  <2>3. BridgeTyped' BY DEF Typed, BridgeTyped
  <2>4. AgentTyped' BY DEF Typed, AgentTyped
  <2> QED BY <2>1, <2>2, <2>3, <2>4 DEF Typed
<1>2. Results' BY DEF Typed, LoopTyped, Results, Stopping, Errors
<1>3. WatchedOnce' BY DEF WatchedOnce
<1>4. StoppedInOrder'
  BY DEF Typed, LoopTyped, BridgeTyped, AgentTyped, StoppedInOrder, Results, Stopping,
    Between, Over, Errors
<1>5. Owned' BY DEF Typed, SignalsTyped, BridgeTyped, AgentTyped, Owned
<1>6. EarlyStop'
  BY DEF Typed, LoopTyped, SignalsTyped, EarlyStop, WatchedOnce, Results, Stopping,
    Between, Errors, Cancelled
<1> QED BY <1>1, <1>2, <1>3, <1>4, <1>5, <1>6

\* SessionCloses preserves the invariant.
LEMMA SessionClosesInv == ASSUME Inv, SessionCloses PROVE Inv'
<1> USE AttemptsAssumption DEF Inv, SessionCloses, Returns, main, signals, bridge, agents, forward
<1>1. Typed'
  <2>1. LoopTyped' BY DEF Typed, LoopTyped, Errors, Between, Attempting, Stopping
  <2>2. SignalsTyped' BY DEF Typed, SignalsTyped
  <2>3. BridgeTyped' BY DEF Typed, BridgeTyped
  <2>4. AgentTyped' BY DEF Typed, AgentTyped
  <2> QED BY <2>1, <2>2, <2>3, <2>4 DEF Typed
<1>2. Results' BY DEF Typed, LoopTyped, Results, Stopping, Errors
<1>3. WatchedOnce' BY DEF WatchedOnce
<1>4. StoppedInOrder'
  BY DEF Typed, LoopTyped, BridgeTyped, AgentTyped, StoppedInOrder, Results, Stopping,
    Between, Over, Errors
<1>5. Owned' BY DEF Typed, SignalsTyped, BridgeTyped, AgentTyped, Owned
<1>6. EarlyStop'
  BY DEF Typed, LoopTyped, SignalsTyped, EarlyStop, WatchedOnce, Results, Stopping,
    Between, Errors, Cancelled
<1> QED BY <1>1, <1>2, <1>3, <1>4, <1>5, <1>6

\* SessionDropped preserves the invariant.
LEMMA SessionDroppedInv == ASSUME Inv, SessionDropped PROVE Inv'
<1> USE AttemptsAssumption DEF Inv, SessionDropped, Returns, main, signals, bridge, agents, forward
<1>1. Typed'
  <2>1. LoopTyped' BY DEF Typed, LoopTyped, Errors, Between, Attempting, Stopping
  <2>2. SignalsTyped' BY DEF Typed, SignalsTyped
  <2>3. BridgeTyped' BY DEF Typed, BridgeTyped
  <2>4. AgentTyped' BY DEF Typed, AgentTyped
  <2> QED BY <2>1, <2>2, <2>3, <2>4 DEF Typed
<1>2. Results' BY DEF Typed, LoopTyped, Results, Stopping, Errors
<1>3. WatchedOnce' BY DEF WatchedOnce
<1>4. StoppedInOrder'
  BY DEF Typed, LoopTyped, BridgeTyped, AgentTyped, StoppedInOrder, Results, Stopping,
    Between, Over, Errors
<1>5. Owned' BY DEF Typed, SignalsTyped, BridgeTyped, AgentTyped, Owned
<1>6. EarlyStop'
  BY DEF Typed, LoopTyped, SignalsTyped, EarlyStop, WatchedOnce, Results, Stopping,
    Between, Errors, Cancelled
<1> QED BY <1>1, <1>2, <1>3, <1>4, <1>5, <1>6

\* AgentJoins preserves the invariant.
LEMMA AgentJoinsInv == ASSUME Inv, AgentJoins PROVE Inv'
<1> USE AttemptsAssumption DEF Inv, AgentJoins, main, signals, bridge, agents, forward
<1>1. Typed'
  <2>1. LoopTyped' BY DEF Typed, LoopTyped, Errors, Between, Attempting, Stopping
  <2>2. SignalsTyped' BY DEF Typed, SignalsTyped
  <2>3. BridgeTyped' BY DEF Typed, BridgeTyped
  <2>4. AgentTyped' BY DEF Typed, AgentTyped
  <2> QED BY <2>1, <2>2, <2>3, <2>4 DEF Typed
<1>2. Results' BY DEF Typed, LoopTyped, Results, Stopping, Errors
<1>3. WatchedOnce' BY DEF WatchedOnce
<1>4. StoppedInOrder'
  BY DEF Typed, LoopTyped, BridgeTyped, AgentTyped, StoppedInOrder, Results, Stopping,
    Between, Over, Errors
<1>5. Owned' BY DEF Typed, SignalsTyped, BridgeTyped, AgentTyped, Owned
<1>6. EarlyStop'
  BY DEF Typed, LoopTyped, SignalsTyped, EarlyStop, WatchedOnce, Results, Stopping,
    Between, Errors, Cancelled
<1> QED BY <1>1, <1>2, <1>3, <1>4, <1>5, <1>6

\* Notify preserves the invariant.
LEMMA NotifyInv == ASSUME Inv, Notify PROVE Inv'
<1> USE AttemptsAssumption DEF Inv, Notify, main, signals, bridge, agents, forward
<1>1. Typed'
  <2>1. LoopTyped' BY DEF Typed, LoopTyped, Errors, Between, Attempting, Stopping
  <2>2. SignalsTyped' BY DEF Typed, SignalsTyped
  <2>3. BridgeTyped' BY DEF Typed, BridgeTyped
  <2>4. AgentTyped' BY DEF Typed, AgentTyped
  <2> QED BY <2>1, <2>2, <2>3, <2>4 DEF Typed
<1>2. Results' BY DEF Typed, LoopTyped, Results, Stopping, Errors
<1>3. WatchedOnce' BY DEF WatchedOnce
<1>4. StoppedInOrder'
  BY DEF Typed, LoopTyped, BridgeTyped, AgentTyped, StoppedInOrder, Results, Stopping,
    Between, Over, Errors
<1>5. Owned' BY DEF Typed, SignalsTyped, BridgeTyped, AgentTyped, Owned
<1>6. EarlyStop'
  BY DEF Typed, LoopTyped, SignalsTyped, EarlyStop, WatchedOnce, Results, Stopping,
    Between, Errors, Cancelled
<1> QED BY <1>1, <1>2, <1>3, <1>4, <1>5, <1>6

\* ForwarderStarts preserves the invariant.
LEMMA ForwarderStartsInv == ASSUME Inv, ForwarderStarts PROVE Inv'
<1> USE AttemptsAssumption DEF Inv, ForwarderStarts, ListenersStopped, main, signals, bridge, agents, forward
<1>1. Typed'
  <2>1. LoopTyped' BY DEF Typed, LoopTyped, Errors, Between, Attempting, Stopping
  <2>2. SignalsTyped' BY DEF Typed, SignalsTyped
  <2>3. BridgeTyped' BY DEF Typed, BridgeTyped
  <2>4. AgentTyped' BY DEF Typed, AgentTyped
  <2> QED BY <2>1, <2>2, <2>3, <2>4 DEF Typed
<1>2. Results' BY DEF Typed, LoopTyped, Results, Stopping, Errors
<1>3. WatchedOnce' BY DEF WatchedOnce
<1>4. StoppedInOrder'
  BY DEF Typed, LoopTyped, BridgeTyped, AgentTyped, StoppedInOrder, Results, Stopping,
    Between, Over, Errors
<1>5. Owned' BY DEF Typed, SignalsTyped, BridgeTyped, AgentTyped, Owned
<1>6. EarlyStop'
  BY DEF Typed, LoopTyped, SignalsTyped, EarlyStop, WatchedOnce, Results, Stopping,
    Between, Errors, Cancelled
<1> QED BY <1>1, <1>2, <1>3, <1>4, <1>5, <1>6

\* ForwarderStops preserves the invariant.
LEMMA ForwarderStopsInv == ASSUME Inv, ForwarderStops PROVE Inv'
<1> USE AttemptsAssumption DEF Inv, ForwarderStops, ListenersStopped, main, signals, bridge, agents, forward
<1>1. Typed'
  <2>1. LoopTyped' BY DEF Typed, LoopTyped, Errors, Between, Attempting, Stopping
  <2>2. SignalsTyped' BY DEF Typed, SignalsTyped
  <2>3. BridgeTyped' BY DEF Typed, BridgeTyped
  <2>4. AgentTyped' BY DEF Typed, AgentTyped
  <2> QED BY <2>1, <2>2, <2>3, <2>4 DEF Typed
<1>2. Results' BY DEF Typed, LoopTyped, Results, Stopping, Errors
<1>3. WatchedOnce' BY DEF WatchedOnce
<1>4. StoppedInOrder'
  BY DEF Typed, LoopTyped, BridgeTyped, AgentTyped, StoppedInOrder, Results, Stopping,
    Between, Over, Errors
<1>5. Owned' BY DEF Typed, SignalsTyped, BridgeTyped, AgentTyped, Owned
<1>6. EarlyStop'
  BY DEF Typed, LoopTyped, SignalsTyped, EarlyStop, WatchedOnce, Results, Stopping,
    Between, Errors, Cancelled
<1> QED BY <1>1, <1>2, <1>3, <1>4, <1>5, <1>6

\* LeftoverEnds preserves the invariant.
LEMMA LeftoverEndsInv == ASSUME Inv, LeftoverEnds PROVE Inv'
<1> USE AttemptsAssumption DEF Inv, LeftoverEnds, main, signals, bridge, agents, forward
<1>1. Typed'
  <2>1. LoopTyped' BY DEF Typed, LoopTyped, Errors, Between, Attempting, Stopping
  <2>2. SignalsTyped' BY DEF Typed, SignalsTyped
  <2>3. BridgeTyped' BY DEF Typed, BridgeTyped
  <2>4. AgentTyped' BY DEF Typed, AgentTyped
  <2> QED BY <2>1, <2>2, <2>3, <2>4 DEF Typed
<1>2. Results' BY DEF Typed, LoopTyped, Results, Stopping, Errors
<1>3. WatchedOnce' BY DEF WatchedOnce
<1>4. StoppedInOrder'
  BY DEF Typed, LoopTyped, BridgeTyped, AgentTyped, StoppedInOrder, Results, Stopping,
    Between, Over, Errors
<1>5. Owned' BY DEF Typed, SignalsTyped, BridgeTyped, AgentTyped, Owned
<1>6. EarlyStop'
  BY DEF Typed, LoopTyped, SignalsTyped, EarlyStop, WatchedOnce, Results, Stopping,
    Between, Errors, Cancelled
<1> QED BY <1>1, <1>2, <1>3, <1>4, <1>5, <1>6

\* Interrupt preserves the invariant.
LEMMA InterruptInv == ASSUME Inv, Interrupt PROVE Inv'
<1> USE AttemptsAssumption DEF Inv, Interrupt, main, signals, bridge, agents, forward
<1>1. Typed'
  <2>1. LoopTyped' BY DEF Typed, LoopTyped, Errors, Between, Attempting, Stopping
  <2>2. SignalsTyped' BY DEF Typed, SignalsTyped
  <2>3. BridgeTyped' BY DEF Typed, BridgeTyped
  <2>4. AgentTyped' BY DEF Typed, AgentTyped
  <2> QED BY <2>1, <2>2, <2>3, <2>4 DEF Typed
<1>2. Results' BY DEF Typed, LoopTyped, Results, Stopping, Errors
<1>3. WatchedOnce' BY DEF WatchedOnce
<1>4. StoppedInOrder'
  BY DEF Typed, LoopTyped, BridgeTyped, AgentTyped, StoppedInOrder, Results, Stopping,
    Between, Over, Errors
<1>5. Owned' BY DEF Typed, SignalsTyped, BridgeTyped, AgentTyped, Owned
<1>6. EarlyStop'
  BY DEF Typed, LoopTyped, SignalsTyped, EarlyStop, WatchedOnce, Results, Stopping,
    Between, Errors, Cancelled
<1> QED BY <1>1, <1>2, <1>3, <1>4, <1>5, <1>6

\* SignalTask preserves the invariant.
LEMMA SignalTaskInv == ASSUME Inv, SignalTask PROVE Inv'
<1> USE AttemptsAssumption DEF Inv, SignalTask, main, signals, bridge, agents, forward
<1>1. Typed'
  <2>1. LoopTyped' BY DEF Typed, LoopTyped, Errors, Between, Attempting, Stopping
  <2>2. SignalsTyped' BY DEF Typed, SignalsTyped
  <2>3. BridgeTyped' BY DEF Typed, BridgeTyped
  <2>4. AgentTyped' BY DEF Typed, AgentTyped
  <2> QED BY <2>1, <2>2, <2>3, <2>4 DEF Typed
<1>2. Results' BY DEF Typed, LoopTyped, Results, Stopping, Errors
<1>3. WatchedOnce' BY DEF WatchedOnce
<1>4. StoppedInOrder'
  BY DEF Typed, LoopTyped, BridgeTyped, AgentTyped, StoppedInOrder, Results, Stopping,
    Between, Over, Errors
<1>5. Owned' BY DEF Typed, SignalsTyped, BridgeTyped, AgentTyped, Owned
<1>6. EarlyStop'
  BY DEF Typed, LoopTyped, SignalsTyped, EarlyStop, WatchedOnce, Results, Stopping,
    Between, Errors, Cancelled
<1> QED BY <1>1, <1>2, <1>3, <1>4, <1>5, <1>6

\* Every step preserves the invariant.
LEMMA NextInv == Inv /\ [DebugNext]_debugVars => Inv'
<1> SUFFICES ASSUME Inv, [DebugNext]_debugVars PROVE Inv' OBVIOUS
<1>1. CASE Command
  BY <1>1, TopInv, SleepInv, FetchInv, AwaitTunnelInv, AwaitAgentInv,
    SessionInv, AwaitAgentStopInv, AwaitTunnelStopInv, AwaitForwarderStopInv DEF Command
<1>2. CASE Tunnel
  BY <1>2, BindInv, BridgeDialInv, BridgeRetryInv, RelayEndsInv, TunnelStopsInv DEF Tunnel
<1>3. CASE Agent
  BY <1>3, TokenInv, DialInv, HandshakeInv, SessionClosesInv, SessionDroppedInv,
    AgentJoinsInv, NotifyInv DEF Agent
<1>4. CASE Forwarder \/ LeftoverEnds
  BY <1>4, ForwarderStartsInv, ForwarderStopsInv, LeftoverEndsInv DEF Forwarder
<1>5. CASE Interrupt \/ SignalTask
  BY <1>5, InterruptInv, SignalTaskInv
<1>6. CASE UNCHANGED debugVars
  <2> USE <1>6 DEF debugVars, main, signals, bridge, agents, forward
  <2>1. LoopTyped' /\ SignalsTyped' BY DEF Inv, Typed, LoopTyped, SignalsTyped
  <2>2. BridgeTyped' /\ AgentTyped' BY DEF Inv, Typed, BridgeTyped, AgentTyped
  <2>3. Results' /\ StoppedInOrder' BY DEF Inv, Results, StoppedInOrder
  <2>4. Owned' /\ EarlyStop' /\ WatchedOnce' BY DEF Inv, Owned, EarlyStop, WatchedOnce
  <2> QED BY <2>1, <2>2, <2>3, <2>4 DEF Inv, Typed
<1> QED BY <1>1, <1>2, <1>3, <1>4, <1>5, <1>6 DEF DebugNext

\* The invariant holds throughout.
LEMMA SpecInv == DebugSpec => []Inv
BY InitInv, NextInv, PTL DEF DebugSpec

----------------------------------------------------------------------------
LeftOK == left \subseteq Leftovers

\* What is left running is of the kinds that the components leave behind.
LEMMA LeftTyped == DebugSpec => []LeftOK
<1>1. DebugInit => LeftOK
  BY DEF DebugInit, LeftOK
<1>2. LeftOK /\ [DebugNext]_debugVars => LeftOK'
  <2> SUFFICES ASSUME left \subseteq Leftovers, [DebugNext]_debugVars
               PROVE  left' \subseteq Leftovers
    BY DEF LeftOK, Leftovers, SessionTasks
  <2> USE DEF main, signals, bridge, agents, forward
  <2>1. CASE Command
    BY <2>1 DEF Command, Top, Sleep, Fetch, AwaitTunnel, AwaitAgent, Session, AwaitAgentStop,
       AwaitTunnelStop, AwaitForwarderStop, Await
  <2>2. CASE Tunnel
    BY <2>2 DEF Tunnel, Bind, BridgeDial, BridgeRetry, RelayEnds, TunnelStops
  <2>3. CASE Agent
    BY <2>3 DEF Agent, Token, Dial, Handshake, SessionCloses, SessionDropped, AgentJoins, Notify,
       Leftovers, SessionTasks
  <2>4. CASE Forwarder \/ LeftoverEnds
    BY <2>4 DEF Forwarder, ForwarderStarts, ForwarderStops, ListenersStopped, LeftoverEnds,
       Leftovers
  <2>5. CASE Interrupt \/ SignalTask
    BY <2>5 DEF Interrupt, SignalTask
  <2>6. CASE UNCHANGED debugVars
    BY <2>6 DEF debugVars
  <2> QED BY <2>1, <2>2, <2>3, <2>4, <2>5, <2>6 DEF DebugNext
<1> QED BY <1>1, <1>2, PTL DEF DebugSpec

\* Every variable keeps to its set of values.
THEOREM RemoteDebugTypeCorrect == DebugSpec => []DebugTypeOK
<1>1. Inv /\ LeftOK => DebugTypeOK
  BY DEF LeftOK, Inv, Typed, LoopTyped, SignalsTyped, BridgeTyped, AgentTyped, DebugTypeOK,
     Between, Attempting, Stopping
<1> QED BY <1>1, SpecInv, LeftTyped, PTL

\* run_connect_loop begins an attempt only when the tasks it joins have ended:
\* however they ended and in whatever order they stopped, the tunnel's port is
\* free, its connections are closed, the holder is empty and the session's token
\* is cancelled, so that the tasks nobody joins (`left`, of which nothing is
\* claimed but this) have no session to serve.
THEOREM AttemptsStartClean == DebugSpec => []NothingReaches
<1>1. Inv => NothingReaches
  BY DEF Inv, Typed, SignalsTyped, BridgeTyped, AgentTyped, StoppedInOrder, Owned,
    NothingReaches, Between, Over
<1> QED BY <1>1, SpecInv, PTL

\* Ctrl-C in an attempt that is in order ends the command as cancelled: no error
\* that the cancellation itself causes in a component is reported in its place.
THEOREM CtrlCIsClean == DebugSpec => []CancelWins
<1>1. Inv => CancelWins BY DEF Inv, Results, EarlyStop, CancelWins
<1> QED BY <1>1, SpecInv, PTL
====
