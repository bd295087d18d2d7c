------------------------------ MODULE MCParts ------------------------------
(***************************************************************************)
(* The components that keep to themselves, all in one run: a behaviour is  *)
(* one of the RPC channel, of the stream-id generator, of the heartbeat,   *)
(* of the AMS upload or of the remote-debug command, as `part` says; the   *)
(* variables of the others keep their initial values.  The five name       *)
(* things apart, to be extended here together, with their properties.      *)
(***************************************************************************)
EXTENDS TunnelRpc, IdGenerator, TunnelHeartbeat, AmsUpload, RemoteDebug

VARIABLE part

ASSUME PartsAssumption ==
    /\ RpcConstants /\ GeneratorConstants /\ UploadConstants
    /\ HeartbeatConstants /\ LivePeerSettings

MCInit ==
    /\ part \in {"ids", "rpc", "heartbeat", "upload", "debug"}
    /\ Init /\ GeneratorInit /\ HeartbeatInit /\ UploadInit /\ DebugInit
    /\ part # "heartbeat" => role = "client"
    /\ part # "upload" => size = 1
    /\ part # "ids" => start = 1

\* The other parts do not move.
Rest(p) ==
    /\ p # "rpc" => UNCHANGED vars
    /\ p # "ids" => UNCHANGED generatorVars
    /\ p # "heartbeat" => UNCHANGED heartbeatVars
    /\ p # "upload" => UNCHANGED uploadVars
    /\ p # "debug" => UNCHANGED debugVars

MCNext ==
    /\ UNCHANGED part
    /\ \/ part = "rpc" /\ Next /\ Rest("rpc")
       \/ part = "ids" /\ GeneratorNext /\ Rest("ids")
       \/ part = "heartbeat" /\ HeartbeatNext /\ Rest("heartbeat")
       \/ part = "upload" /\ UploadNext /\ Rest("upload")
       \/ part = "debug" /\ DebugNext /\ Rest("debug")

On(p, A) == part = p /\ A

\* The fairness of the part that runs: Fairness, HeartbeatFairness and that of
\* DebugFairSpec, which the other parts, with those steps disabled, meet too.
PartFairness ==
    /\ \A c \in Calls : WF_vars(On("rpc", CallerStep(c))) /\ WF_vars(On("rpc", Handles(c)))
    /\ WF_vars(On("rpc", HandleCmdResponse))
    /\ WF_vars(On("rpc", HandleCmd)) /\ WF_vars(On("rpc", BusySends))
    /\ WF_heartbeatVars(On("heartbeat", Runs(HeartbeatStep)))
    /\ WF_heartbeatVars(On("heartbeat", Runs(WriterStep)))
    /\ WF_heartbeatVars(On("heartbeat", Runs(Pass)))
    /\ WF_heartbeatVars(On("heartbeat", Runs(ReplyQueued \/ RstAllStreams \/ RunCancels \/ RunEnds)))
    /\ SF_heartbeatVars(On("heartbeat", Runs(ReaderStops)))
    /\ WF_debugVars(On("debug", Command)) /\ WF_debugVars(On("debug", SignalTask))

MCSpec ==
    /\ MCInit /\ [][MCNext]_<<part, vars, generatorVars, heartbeatVars, uploadVars, debugVars>>
    /\ PartFairness

============================================================================
