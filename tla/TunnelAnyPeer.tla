--------------------------- MODULE TunnelAnyPeer ---------------------------
(***************************************************************************)
(* The client endpoint of TunnelSession against a peer that follows no     *)
(* protocol: the sidecar is a separate program (a Go service), and all     *)
(* that the client checks of a frame is Frame::validate.  The peer may     *)
(* send any valid stream frame at any time: OPEN twice with one id, OPEN   *)
(* with the client's own parity, NACK or DATA for a stream that is open,   *)
(* OPENING, closed or unknown.  The client cancels its session, or the     *)
(* connection breaks, at any step of this.                                 *)
(***************************************************************************)
EXTENDS TunnelSession, TLC

CONSTANTS
    PeerIds,     \* stream ids the peer uses
    MaxFrames    \* bound: frames the peer sends, one less once the token is cancelled

ASSUME PeerAssumption == PeerIds \subseteq Ids /\ MaxFrames \in Nat

\* The peer needs no id generator: its counter counts the frames it sends.
Sent == gen["server"] - Start("server")

\* Frame::validate: every stream frame needs a non-zero stream id (and, not
\* modelled, a well-formed payload); a frame it rejects is discarded.
ValidFrames ==
    UNION {{NewOpen(i), NewOpenAck(i), NewNack(i, "stream_id_conflict"),
            NewData(i, <<>>), NewFin(i), NewRst(i, "local_read_error")} : i \in PeerIds}

PeerSends ==
    /\ up /\ Len(net["client"]) < WireCap
    /\ Sent + (IF cancel["client"] THEN 1 ELSE 0) < MaxFrames
    /\ gen' = [gen EXCEPT !["server"] = @ + 1]
    /\ \E f \in ValidFrames : net' = [net EXCEPT !["client"] = Append(@, f)]
    /\ UNCHANGED <<map, streamVars, taskVars, writer, out, cancel, up>>

PeerReads ==
    /\ net["server"] # <<>>
    /\ net' = [net EXCEPT !["server"] = Tail(@)]
    /\ UNCHANGED <<map, gen, streamVars, taskVars, writer, out, cancel, up>>

\* The client's session is cancelled, by its heartbeat or a holder of its token;
\* bound: only while the peer has a frame left.
OwnerCancels == Sent < MaxFrames /\ Cancel("client")

ClientNext ==
    \/ \E c \in ClientOpens : OpenerStep(c)
    \/ \E d \in ClientDials : AcceptStep(d)
    \/ \E c \in ClientOpens \cup ClientDials : PumpStep(c)
    \/ ReaderStep("client") \/ LocalWritten("client")
    \/ WriterStep("client") \/ Cleanup("client")

AnyPeerNext ==
    \/ ClientNext
    \/ OwnerCancels \/ AgentCancels \/ Disconnect
    \/ PeerSends \/ PeerReads

\* Connections the client can dial differ in nothing.
DialSymmetry == Permutations(ClientDials)

AnyPeerSpec == Init /\ [][AnyPeerNext]_vars

============================================================================
