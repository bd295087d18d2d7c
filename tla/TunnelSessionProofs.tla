------------------------ MODULE TunnelSessionProofs ------------------------
(***************************************************************************)
(* Proofs about TunnelSession for any number of streams, any channel and   *)
(* transport capacity, any number of chunks and any of the failures.       *)
(* After the type come the stream states, the map, the wire (the frames an *)
(* endpoint has sent and its peer has not taken), the numbering of the     *)
(* streams, what the wire's frames say about the tasks that sent them, and *)
(* last what holds of a client whose peer sends any frame (TunnelAnyPeer). *)
(***************************************************************************)
EXTENDS TunnelAnyPeer, SequenceTheorems, TLAPS

----------------------------------------------------------------------------
(* Every frame a task builds is a frame.                                   *)

LEMMA FrameType ==
    ASSUME NEW id \in Ids \cup {0}
    PROVE  /\ NewOpen(id) \in Frames /\ NewOpenAck(id) \in Frames
           /\ NewFin(id) \in Frames /\ CloseFrame \in Frames
           /\ \A r \in NackReasons : NewNack(id, r) \in Frames
           /\ \A r \in RstReasons : NewRst(id, r) \in Frames
           /\ \A c \in Conns, n \in Nat : NewData(id, <<c, n>>) \in Frames
  BY DEF NewOpen, NewOpenAck, NewFin, CloseFrame, NewNack, NewRst, NewData,
         Frame, Frames, FrameTypes, Bodies

\* A send appends a frame to the endpoint's own channel, or leaves it alone.
LEMMA SendType ==
    ASSUME out \in [Endpoints -> Seq(Frames)],
           NEW e \in Endpoints, NEW f \in Frames, SendAny(e, f)
    PROVE  out' \in [Endpoints -> Seq(Frames)]
  <1>1. CASE SendOk(e, f)
    BY <1>1 DEF SendOk
  <1>2. CASE SendErr(e)
    BY <1>2 DEF SendErr
  <1> QED BY <1>1, <1>2 DEF SendAny

LEMMA SideType == \A c : Side(c) \in Endpoints
  BY DEF Side, Endpoints

LEMMA InitType == Init => TypeOK
  <1> SUFFICES ASSUME Init PROVE TypeOK
    OBVIOUS
  <1>1. CloseFrame \in Frames
    BY FrameType
  <1>2. NewState \in StreamStates /\ "none" \in NackReasons
    BY DEF NewState, StreamStates, NackReasons
  <1>3. \A e \in Endpoints : Start(e) \in Nat
    BY DEF Start
  <1>4. 0 \in 0..MaxChunks
    BY BoundsAssumption
  <1>5. ReaderAt("recv") \in Readers
    BY <1>1 DEF ReaderAt, Readers
  <1> QED
    BY <1>1, <1>2, <1>3, <1>4, <1>5 DEF Init, TypeOK, AcceptTasks, AcceptPcs, PumpPcs

----------------------------------------------------------------------------
(* What each elementary update does to the type of its variable.           *)

LEMMA MarkType ==
    ASSUME NEW s \in [Conns -> StreamStates], NEW c
    PROVE  /\ SetClosed(s, c) \in [Conns -> StreamStates]
           /\ SetOpen(s, c) \in [Conns -> StreamStates]
           /\ MarkLocalEof(s, c) \in [Conns -> StreamStates]
           /\ MarkRemoteEof(s, c) \in [Conns -> StreamStates]
  BY DEF SetClosed, SetOpen, MarkLocalEof, MarkRemoteEof, StreamStates

LEMMA CloseType ==
    ASSUME TypeOK, NEW c, Close(c)
    PROVE  state' \in [Conns -> StreamStates] /\ wopen' \in [Conns -> BOOLEAN]
  <1>1. state' \in [Conns -> StreamStates]
    BY MarkType DEF Close, TypeOK
  <1>2. wopen' \in [Conns -> BOOLEAN]
    BY DEF Close, TypeOK
  <1> QED BY <1>1, <1>2

LEMMA RegisterType ==
    ASSUME map \in [Endpoints -> [Ids -> Conns \cup {NoConn}]],
           NEW e \in Endpoints, NEW id, NEW c \in Conns \cup {NoConn},
           Register(e, id, c)
    PROVE  map' \in [Endpoints -> [Ids -> Conns \cup {NoConn}]]
  <1>1. [map[e] EXCEPT ![id] = c] \in [Ids -> Conns \cup {NoConn}]
    OBVIOUS
  <1> QED BY <1>1 DEF Register

LEMMA UnregisterType ==
    ASSUME map \in [Endpoints -> [Ids -> Conns \cup {NoConn}]],
           NEW e \in Endpoints, NEW id, Unregister(e, id)
    PROVE  map' \in [Endpoints -> [Ids -> Conns \cup {NoConn}]]
  <1>1. [map[e] EXCEPT ![id] = NoConn] \in [Ids -> Conns \cup {NoConn}]
    OBVIOUS
  <1> QED BY <1>1 DEF Unregister

LEMMA PumpType ==
    ASSUME pump \in [Conns -> PumpPcs], NEW c, NEW pc \in PumpPcs, PumpGoto(c, pc)
    PROVE  pump' \in [Conns -> PumpPcs]
  BY DEF PumpGoto

LEMMA AcceptGotoType ==
    ASSUME acc \in [Dials -> AcceptTasks], NEW d \in Dials, NEW pc \in AcceptPcs,
           AcceptGoto(d, pc)
    PROVE  acc' \in [Dials -> AcceptTasks]
  <1>1. [acc[d] EXCEPT !.pc = pc] \in AcceptTasks
    BY DEF AcceptTasks
  <1> QED BY <1>1 DEF AcceptGoto

LEMMA AcceptRefuseType ==
    ASSUME acc \in [Dials -> AcceptTasks], NEW d \in Dials, NEW why \in NackReasons,
           AcceptRefuse(d, why)
    PROVE  acc' \in [Dials -> AcceptTasks]
  <1>1. [acc[d] EXCEPT !.pc = "nack", !.why = why] \in AcceptTasks
    BY DEF AcceptTasks, AcceptPcs
  <1>2. acc' = [acc EXCEPT ![d] = [acc[d] EXCEPT !.pc = "nack", !.why = why]]
    BY DEF AcceptRefuse, AcceptTasks
  <1> QED BY <1>1, <1>2

LEMMA TakeType ==
    ASSUME net \in [Endpoints -> Seq(Frames)], NEW e \in Endpoints, net[e] # <<>>, Take(e)
    PROVE  net' \in [Endpoints -> Seq(Frames)]
  <1>1. Tail(net[e]) \in Seq(Frames)
    OBVIOUS
  <1> QED BY <1>1 DEF Take

LEMMA HeadType ==
    ASSUME net \in [Endpoints -> Seq(Frames)], NEW e \in Endpoints, net[e] # <<>>
    PROVE  Head(net[e]).id \in Ids \cup {0} /\ Head(net[e]).body \in Bodies
  <1>1. Head(net[e]) \in Frames
    OBVIOUS
  <1> QED BY <1>1 DEF Frames

LEMMA ReplyType ==
    ASSUME rd \in [Endpoints -> Readers], NEW e \in Endpoints,
           NEW f \in Frames, NEW c \in Conns \cup {NoConn}, Reply(e, f, c)
    PROVE  rd' \in [Endpoints -> Readers]
  BY DEF Reply, Readers

LEMMA ReaderAtType ==
    ASSUME NEW pc \in {"recv", "send", "rstall", "done", "dropped"}
    PROVE  ReaderAt(pc) \in Readers
  BY FrameType DEF ReaderAt, Readers

LEMMA ReaderPcType ==
    ASSUME rd \in [Endpoints -> Readers], NEW e \in Endpoints, NEW pc \in {"rstall", "done"}
    PROVE  [rd EXCEPT ![e].pc = pc] \in [Endpoints -> Readers]
  <1>1. [rd[e] EXCEPT !.pc = pc] \in Readers
    BY DEF Readers
  <1> QED BY <1>1

LEMMA TargetType ==
    ASSUME TypeOK, NEW e \in Endpoints
    PROVE  Target(e) \in Conns \cup {NoConn}
  BY DEF Target, TypeOK

LEMMA PcNames ==
    /\ {"check", "dial", "wait", "redial", "insert", "ack", "nack", "done"} \subseteq AcceptPcs
    /\ {"none", "invalid_stream_id", "stream_id_conflict", "no_local_listener"} \subseteq NackReasons
    /\ {"local_read_error", "local_write_error", "stream_unknown", "session closed"} \subseteq RstReasons
    /\ {"none", "read", "data", "fin", "eof", "rst", "done"} \subseteq PumpPcs
  BY DEF AcceptPcs, NackReasons, RstReasons, PumpPcs

\* Every step of every task keeps the types: one step per action, and under
\* it one per variable the action assigns.
LEMMA TypeStep == TypeOK /\ [Next]_vars => TypeOK'
  <1> SUFFICES ASSUME TypeOK, [Next]_vars PROVE TypeOK'
    OBVIOUS
  <1>0. /\ state \in [Conns -> StreamStates] /\ pump \in [Conns -> PumpPcs]
        /\ out \in [Endpoints -> Seq(Frames)] /\ net \in [Endpoints -> Seq(Frames)]
        /\ got \in [Conns -> Seq(Bodies)] /\ rd \in [Endpoints -> Readers]
        /\ acc \in [Dials -> AcceptTasks] /\ rst \in [Endpoints -> SUBSET Conns]
    BY DEF TypeOK
  <1>1. ASSUME NEW c \in Opens, OpenRemoteStream(c) PROVE TypeOK'
    <2>1. PICK id \in NextIds(Side(c), gen[Side(c)], Active(Side(c))) :
             /\ gen' = [gen EXCEPT ![Side(c)] = id + 2]
             /\ Register(Side(c), id, c)
             /\ sid' = [sid EXCEPT ![c] = id]
      BY <1>1 DEF OpenRemoteStream
    <2>2. id \in Ids /\ id + 2 \in Nat /\ c \in Conns
      BY DEF NextIds, FreeFrom, Ids, Conns
    <2>3. gen' \in [Endpoints -> Nat]
      BY <2>1, <2>2 DEF TypeOK
    <2>4. sid' \in [Conns -> Ids \cup {0}]
      BY <2>1, <2>2 DEF TypeOK
    <2>5. map' \in [Endpoints -> [Ids -> Conns \cup {NoConn}]]
      BY <2>1, <2>2, SideType, RegisterType DEF TypeOK
    <2>6. opener' \in [Opens -> {"idle", "send", "done"}]
      BY <1>1 DEF OpenRemoteStream, TypeOK
    <2> QED
      BY <1>1, <2>3, <2>4, <2>5, <2>6 DEF OpenRemoteStream, TypeOK, linkVars
  <1>2. ASSUME NEW c \in Opens, OpenSent(c) PROVE TypeOK'
    <2>1. opener' \in [Opens -> {"idle", "send", "done"}]
      BY <1>2 DEF OpenSent, TypeOK
    <2>2. NewOpen(sid[c]) \in Frames
      BY <1>2, FrameType DEF OpenSent, TypeOK, Conns
    <2>3. out' \in [Endpoints -> Seq(Frames)]
      BY <1>2, <1>0, <2>2, SideType, SendType DEF OpenSent, SendAny
    <2>4. map' \in [Endpoints -> [Ids -> Conns \cup {NoConn}]]
      BY <1>2, SideType, UnregisterType DEF OpenSent, TypeOK
    <2>5. state' \in [Conns -> StreamStates] /\ wopen' \in [Conns -> BOOLEAN]
      BY <1>2, CloseType DEF OpenSent, TypeOK
    <2> QED
      BY <1>2, <2>1, <2>2, <2>3, <2>4, <2>5 DEF OpenSent, TypeOK, streamVars, taskVars, linkVars
  <1>3. ASSUME NEW d \in Dials, AcceptCheck(d) PROVE TypeOK'
    <2>1. acc' \in [Dials -> AcceptTasks]
      BY <1>3, AcceptGotoType, AcceptRefuseType, PcNames DEF AcceptCheck, TypeOK
    <2> QED
      BY <1>3, <2>1 DEF AcceptCheck, TypeOK, streamVars, taskVars, linkVars
  <1>4. ASSUME NEW d \in Dials, AcceptDial(d) PROVE TypeOK'
    <2>1. acc' \in [Dials -> AcceptTasks]
      BY <1>4, AcceptGotoType, AcceptRefuseType, PcNames DEF AcceptDial, TypeOK
    <2> QED
      BY <1>4, <2>1 DEF AcceptDial, TypeOK, streamVars, taskVars, linkVars
  <1>5. ASSUME NEW d \in Dials, AcceptWait(d) PROVE TypeOK'
    <2>1. acc' \in [Dials -> AcceptTasks]
      BY <1>5, AcceptGotoType, PcNames DEF AcceptWait, TypeOK
    <2> QED
      BY <1>5, <2>1 DEF AcceptWait, TypeOK, streamVars, taskVars, linkVars
  <1>6. ASSUME NEW d \in Dials, AcceptInsert(d) PROVE TypeOK'
    <2>1. acc' \in [Dials -> AcceptTasks]
      BY <1>6, AcceptGotoType, AcceptRefuseType, PcNames DEF AcceptInsert, TypeOK
    <2>2. sid' \in [Conns -> Ids \cup {0}]
      BY <1>6 DEF AcceptInsert, TypeOK, AcceptTasks
    <2>3. map' \in [Endpoints -> [Ids -> Conns \cup {NoConn}]]
      BY <1>6, SideType, RegisterType DEF AcceptInsert, TypeOK, Conns
    <2>4. state' \in [Conns -> StreamStates] /\ wopen' \in [Conns -> BOOLEAN]
      BY <1>6, CloseType DEF AcceptInsert, TypeOK
    <2> QED
      BY <1>6, <2>1, <2>2, <2>3, <2>4 DEF AcceptInsert, TypeOK, streamVars, taskVars, linkVars
  <1>7. ASSUME NEW d \in Dials, AcceptAck(d) PROVE TypeOK'
    <2>1. acc' \in [Dials -> AcceptTasks]
      BY <1>7, AcceptGotoType, PcNames DEF AcceptAck, TypeOK
    <2>2. out' \in [Endpoints -> Seq(Frames)]
      BY <1>7, SideType, FrameType, SendType DEF AcceptAck, TypeOK, SendAny, Conns
    <2>3. map' \in [Endpoints -> [Ids -> Conns \cup {NoConn}]]
      BY <1>7, SideType, UnregisterType DEF AcceptAck, TypeOK
    <2>4. state' \in [Conns -> StreamStates]
      <3>1. state' \in {SetOpen(state, d), SetClosed(state, d)}
        BY <1>7 DEF AcceptAck, Close
      <3>2. SetOpen(state, d) \in [Conns -> StreamStates] /\ SetClosed(state, d) \in [Conns -> StreamStates]
        BY <1>0, MarkType
      <3> QED BY <1>0, <3>1, <3>2
    <2>5. wopen' \in [Conns -> BOOLEAN]
      BY <1>7, CloseType DEF AcceptAck, TypeOK
    <2>6. pump' \in [Conns -> PumpPcs]
      BY <1>7, PumpType, PcNames DEF AcceptAck, TypeOK
    <2> QED
      BY <1>7, <2>1, <2>2, <2>3, <2>4, <2>5, <2>6 DEF AcceptAck, TypeOK, streamVars, taskVars,
         linkVars
  <1>8. ASSUME NEW d \in Dials, AcceptNack(d) PROVE TypeOK'
    <2>1. acc' \in [Dials -> AcceptTasks]
      BY <1>8, AcceptGotoType, PcNames DEF AcceptNack, TypeOK
    <2>2. out' \in [Endpoints -> Seq(Frames)]
      BY <1>8, SideType, FrameType, SendType DEF AcceptNack, TypeOK, AcceptTasks
    <2> QED
      BY <1>8, <2>1, <2>2 DEF AcceptNack, TypeOK, streamVars, taskVars, linkVars
  <1>9. ASSUME NEW c \in Conns, PumpRead(c) PROVE TypeOK'
    <2>1. pump' \in [Conns -> PumpPcs]
      BY <1>9, PumpType, PcNames DEF PumpRead, TypeOK
    <2>2. nread' \in [Conns -> 0..MaxChunks]
      BY <1>9, BoundsAssumption DEF PumpRead, TypeOK
    <2> QED
      BY <1>9, <2>1, <2>2 DEF PumpRead, TypeOK, streamVars, taskVars, linkVars
  <1>10. ASSUME NEW c \in Conns, PumpCancelled(c) PROVE TypeOK'
    <2>1. pump' \in [Conns -> PumpPcs]
      BY <1>10, PumpType, PcNames DEF PumpCancelled, TypeOK
    <2> QED
      BY <1>10, <2>1 DEF PumpCancelled, TypeOK, streamVars, taskVars, linkVars
  <1>11. ASSUME NEW c \in Conns, PumpData(c) PROVE TypeOK'
    <2>1. pump' \in [Conns -> PumpPcs]
      BY <1>11, PumpType, PcNames DEF PumpData, TypeOK
    <2>2. NewData(sid[c], <<c, nread[c]>>) \in Frames
      <3>1. sid[c] \in Ids \cup {0} /\ nread[c] \in Nat
        BY BoundsAssumption DEF TypeOK
      <3> QED BY <3>1, FrameType
    <2>3. out' \in [Endpoints -> Seq(Frames)]
      BY <1>11, <1>0, <2>2, SideType, SendType DEF PumpData, SendAny
    <2>4. state' \in [Conns -> StreamStates] /\ wopen' \in [Conns -> BOOLEAN]
      BY <1>11, CloseType DEF PumpData, TypeOK
    <2> QED
      BY <1>11, <2>1, <2>2, <2>3, <2>4 DEF PumpData, TypeOK, streamVars, taskVars, linkVars
  <1>12. ASSUME NEW c \in Conns, PumpFin(c) PROVE TypeOK'
    <2>1. pump' \in [Conns -> PumpPcs]
      BY <1>12, PumpType, PcNames DEF PumpFin, TypeOK
    <2>2. out' \in [Endpoints -> Seq(Frames)]
      BY <1>12, SideType, FrameType, SendType DEF PumpFin, TypeOK
    <2> QED
      BY <1>12, <2>1, <2>2 DEF PumpFin, TypeOK, streamVars, taskVars, linkVars
  <1>13. ASSUME NEW c \in Conns, PumpEof(c) PROVE TypeOK'
    <2>1. pump' \in [Conns -> PumpPcs]
      BY <1>13, PumpType, PcNames DEF PumpEof, TypeOK
    <2>2. state' \in [Conns -> StreamStates]
      <3>1. state' \in {MarkLocalEof(state, c), SetClosed(MarkLocalEof(state, c), c)}
        BY <1>13 DEF PumpEof
      <3>2. MarkLocalEof(state, c) \in [Conns -> StreamStates] /\ SetClosed(MarkLocalEof(state, c), c) \in [Conns -> StreamStates]
        BY <1>0, MarkType
      <3> QED BY <1>0, <3>1, <3>2
    <2>3. wopen' \in [Conns -> BOOLEAN]
      BY <1>13 DEF PumpEof, TypeOK
    <2> QED
      BY <1>13, <2>1, <2>2, <2>3 DEF PumpEof, TypeOK, streamVars, taskVars, linkVars
  <1>14. ASSUME NEW c \in Conns, PumpRst(c) PROVE TypeOK'
    <2>1. pump' \in [Conns -> PumpPcs]
      BY <1>14, PumpType, PcNames DEF PumpRst, TypeOK
    <2>2. out' \in [Endpoints -> Seq(Frames)]
      BY <1>14, SideType, FrameType, SendType, PcNames DEF PumpRst, TypeOK
    <2>3. state' \in [Conns -> StreamStates] /\ wopen' \in [Conns -> BOOLEAN]
      BY <1>14, CloseType DEF PumpRst, TypeOK
    <2> QED
      BY <1>14, <2>1, <2>2, <2>3 DEF PumpRst, TypeOK, streamVars, taskVars, linkVars
  <1>15. ASSUME NEW e \in Endpoints, HandleOpen(e) PROVE TypeOK'
    <2>1. net' \in [Endpoints -> Seq(Frames)]
      BY <1>15, TakeType DEF HandleOpen, TypeOK, Receiving
    <2>2. PICK d \in Dials :
             acc' = [acc EXCEPT ![d] = [pc |-> "check", id |-> Head(net[e]).id, why |-> "none"]]
      BY <1>15 DEF HandleOpen
    <2>3. [pc |-> "check", id |-> Head(net[e]).id, why |-> "none"] \in AcceptTasks
      BY <1>15, <1>0, HeadType, PcNames DEF HandleOpen, Receiving, AcceptTasks
    <2>4. acc' \in [Dials -> AcceptTasks]
      BY <1>0, <2>2, <2>3
    <2> QED
      BY <1>15, <2>1, <2>2, <2>3, <2>4 DEF HandleOpen, TypeOK, streamVars, taskVars, linkVars
  <1>16. ASSUME NEW e \in Endpoints, HandleOpenAck(e) PROVE TypeOK'
    <2>1. net' \in [Endpoints -> Seq(Frames)]
      BY <1>16, TakeType DEF HandleOpenAck, TypeOK, Receiving
    <2>2. state' \in [Conns -> StreamStates]
      <3>1. state' \in {state, SetOpen(state, Target(e))}
        BY <1>16 DEF HandleOpenAck
      <3>2. SetOpen(state, Target(e)) \in [Conns -> StreamStates]
        BY <1>0, MarkType
      <3> QED BY <1>0, <3>1, <3>2
    <2>3. pump' \in [Conns -> PumpPcs]
      BY <1>16, <1>0, TargetType DEF HandleOpenAck, PumpGoto, PumpPcs
    <2> QED
      BY <1>16, <2>1, <2>2, <2>3 DEF HandleOpenAck, TypeOK, streamVars, taskVars, linkVars
  <1>17. ASSUME NEW e \in Endpoints, HandleNack(e) PROVE TypeOK'
    <2>1. net' \in [Endpoints -> Seq(Frames)]
      BY <1>17, TakeType DEF HandleNack, TypeOK, Receiving
    <2>2. map' \in [Endpoints -> [Ids -> Conns \cup {NoConn}]]
      BY <1>17, UnregisterType DEF HandleNack, TypeOK
    <2>3. state' \in [Conns -> StreamStates] /\ wopen' \in [Conns -> BOOLEAN]
      BY <1>17, CloseType DEF HandleNack, TypeOK
    <2> QED
      BY <1>17, <2>1, <2>2, <2>3 DEF HandleNack, TypeOK, streamVars, taskVars, linkVars
  <1>18. ASSUME NEW e \in Endpoints, DispatchData(e) PROVE TypeOK'
    <2>1. net' \in [Endpoints -> Seq(Frames)]
      BY <1>18, TakeType DEF DispatchData, TypeOK, Receiving
    <2>2. Head(net[e]).body \in Bodies
      BY <1>18, HeadType DEF DispatchData, TypeOK, Receiving
    <2>3. got' \in [Conns -> Seq(Bodies)]
      <3>1. Target(e) \in Conns
        BY <1>18, TargetType DEF DispatchData
      <3>2. Append(got[Target(e)], Head(net[e]).body) \in Seq(Bodies)
        BY <1>0, <2>2, <3>1
      <3> QED BY <1>18, <1>0, <3>1, <3>2 DEF DispatchData
    <2>4. rd' \in [Endpoints -> Readers]
      <3>1. CASE Reply(e, NewRst(sid[Target(e)], "local_write_error"), Target(e))
        <4>1. Target(e) \in Conns
          BY <1>18, TargetType DEF DispatchData
        <4> QED BY <3>1, <4>1, FrameType, ReplyType, PcNames DEF TypeOK
      <3>2. CASE rd' = [rd EXCEPT ![e] = [ReaderAt("write") EXCEPT !.conn = Target(e)]]
        <4>1. Target(e) \in Conns
          BY <1>18, TargetType DEF DispatchData
        <4>2. [ReaderAt("write") EXCEPT !.conn = Target(e)] \in Readers
          BY <4>1, FrameType DEF ReaderAt, Readers
        <4> QED BY <3>2, <1>0, <4>2
      <3> QED BY <1>18, <3>1, <3>2 DEF DispatchData
    <2> QED
      BY <1>18, <2>1, <2>2, <2>3, <2>4 DEF DispatchData, TypeOK, streamVars, taskVars, linkVars
  <1>19. ASSUME NEW e \in Endpoints, DispatchFin(e) PROVE TypeOK'
    <2>1. net' \in [Endpoints -> Seq(Frames)]
      BY <1>19, TakeType DEF DispatchFin, TypeOK, Receiving
    <2>2. state' \in [Conns -> StreamStates]
      <3>1. state' \in {MarkRemoteEof(state, Target(e)), SetClosed(MarkRemoteEof(state, Target(e)), Target(e))}
        BY <1>19 DEF DispatchFin
      <3>2. MarkRemoteEof(state, Target(e)) \in [Conns -> StreamStates] /\ SetClosed(MarkRemoteEof(state, Target(e)), Target(e)) \in [Conns -> StreamStates]
        BY <1>0, MarkType
      <3> QED BY <1>0, <3>1, <3>2
    <2>3. wopen' \in [Conns -> BOOLEAN]
      BY <1>19 DEF DispatchFin, TypeOK
    <2> QED
      BY <1>19, <2>1, <2>2, <2>3 DEF DispatchFin, TypeOK, streamVars, taskVars, linkVars
  <1>20. ASSUME NEW e \in Endpoints, DispatchRst(e) PROVE TypeOK'
    <2>1. net' \in [Endpoints -> Seq(Frames)]
      BY <1>20, TakeType DEF DispatchRst, TypeOK, Receiving
    <2>2. state' \in [Conns -> StreamStates] /\ wopen' \in [Conns -> BOOLEAN]
      BY <1>20, CloseType DEF DispatchRst, TypeOK
    <2> QED
      BY <1>20, <2>1, <2>2 DEF DispatchRst, TypeOK, streamVars, taskVars, linkVars
  <1>21. ASSUME NEW e \in Endpoints, DispatchUnknown(e) PROVE TypeOK'
    <2>1. net' \in [Endpoints -> Seq(Frames)]
      BY <1>21, TakeType DEF DispatchUnknown, TypeOK, Receiving
    <2>2. rd' \in [Endpoints -> Readers]
      BY <1>21, HeadType, FrameType, ReplyType, PcNames DEF DispatchUnknown, TypeOK, Receiving
    <2> QED
      BY <1>21, <2>1, <2>2 DEF DispatchUnknown, TypeOK, streamVars, taskVars, linkVars
  <1>22. ASSUME NEW e \in Endpoints, ReaderReply(e) PROVE TypeOK'
    <2>1. out' \in [Endpoints -> Seq(Frames)]
      BY <1>22, SendType DEF ReaderReply, TypeOK, Readers
    <2>2. rd' \in [Endpoints -> Readers]
      BY <1>22, <1>0, ReaderAtType DEF ReaderReply
    <2>3. state' \in [Conns -> StreamStates] /\ wopen' \in [Conns -> BOOLEAN]
      BY <1>22, CloseType DEF ReaderReply, TypeOK
    <2> QED
      BY <1>22, <2>1, <2>2, <2>3 DEF ReaderReply, TypeOK, streamVars, taskVars, linkVars
  <1>23. ASSUME NEW e \in Endpoints, ReaderStops(e) PROVE TypeOK'
    <2>1. rd' \in [Endpoints -> Readers]
      BY <1>23, <1>0, ReaderPcType DEF ReaderStops
    <2>2. map' \in [Endpoints -> [Ids -> Conns \cup {NoConn}]]
      BY <1>23 DEF ReaderStops, TypeOK
    <2>3. rst' \in [Endpoints -> SUBSET Conns]
      BY <1>23 DEF ReaderStops, TypeOK, Active
    <2> QED
      BY <1>23, <2>1, <2>2, <2>3 DEF ReaderStops, TypeOK, streamVars, taskVars, linkVars
  <1>24. ASSUME NEW e \in Endpoints, RstStream(e) PROVE TypeOK'
    <2>1. out' \in [Endpoints -> Seq(Frames)]
      BY <1>24, FrameType, SendType, PcNames DEF RstStream, TypeOK
    <2>2. rst' \in [Endpoints -> SUBSET Conns]
      BY <1>24, <1>0 DEF RstStream
    <2>3. state' \in [Conns -> StreamStates] /\ wopen' \in [Conns -> BOOLEAN]
      BY <1>24, CloseType DEF RstStream, TypeOK
    <2> QED
      BY <1>24, <2>1, <2>2, <2>3 DEF RstStream, TypeOK, streamVars, taskVars, linkVars
  <1>25. ASSUME NEW e \in Endpoints, RunReturns(e) PROVE TypeOK'
    <2>1. rd' \in [Endpoints -> Readers]
      BY <1>25, <1>0, ReaderPcType DEF RunReturns
    <2>2. cancel' \in [Endpoints -> BOOLEAN]
      BY <1>25 DEF RunReturns, TypeOK
    <2> QED
      BY <1>25, <2>1, <2>2 DEF RunReturns, TypeOK, streamVars, taskVars, linkVars
  <1>26. ASSUME NEW e \in Endpoints, WriterSend(e) PROVE TypeOK'
    <2>1. out' \in [Endpoints -> Seq(Frames)]
      BY <1>26 DEF WriterSend, TypeOK
    <2>2. net' \in [Endpoints -> Seq(Frames)]
      BY <1>26 DEF WriterSend, TypeOK, Peer, Endpoints
    <2> QED
      BY <1>26, <2>1, <2>2 DEF WriterSend, TypeOK, streamVars, taskVars, linkVars
  <1>27. ASSUME NEW e \in Endpoints, WriterStops(e) PROVE TypeOK'
    <2>1. writer' \in [Endpoints -> {"run", "closing", "done"}]
      BY <1>27 DEF WriterStops, TypeOK
    <2> QED
      BY <1>27, <2>1 DEF WriterStops, TypeOK, streamVars, taskVars, linkVars
  <1>28. ASSUME NEW e \in Endpoints, WriterCloses(e) PROVE TypeOK'
    <2>1. writer' \in [Endpoints -> {"run", "closing", "done"}]
      BY <1>28 DEF WriterCloses, TypeOK
    <2>2. out' \in [Endpoints -> Seq(Frames)]
      BY <1>28 DEF WriterCloses, TypeOK
    <2>3. CloseFrame \in Frames
      BY <1>28, FrameType DEF WriterCloses, TypeOK
    <2>4. net' \in [Endpoints -> Seq(Frames)]
      BY <1>28, <1>0, <2>3 DEF WriterCloses, Peer, Endpoints
    <2> QED
      BY <1>28, <2>1, <2>2, <2>3, <2>4 DEF WriterCloses, TypeOK, streamVars, taskVars, linkVars
  <1>29. ASSUME NEW e \in Endpoints, Cleanup(e) PROVE TypeOK'
    <2>1. map' \in [Endpoints -> [Ids -> Conns \cup {NoConn}]]
      BY <1>29 DEF Cleanup, TypeOK
    <2> QED
      BY <1>29, <2>1 DEF Cleanup, TypeOK, streamVars, taskVars, linkVars
  <1>30. ASSUME NEW e \in Endpoints, Cancel(e) PROVE TypeOK'
    <2>1. cancel' \in [Endpoints -> BOOLEAN]
      BY <1>30 DEF Cancel, TypeOK
    <2> QED
      BY <1>30, <2>1 DEF Cancel, TypeOK, streamVars, taskVars, linkVars
  <1>31. CASE Disconnect
    BY <1>31 DEF Disconnect, TypeOK, streamVars, taskVars
  <1>32. CASE UNCHANGED vars
    BY <1>32 DEF vars, TypeOK, streamVars, taskVars, linkVars
  <1>33. ASSUME NEW e \in Endpoints, LocalWritten(e) PROVE TypeOK'
    <2>1. rd[e].conn \in Conns
      BY <1>33, <1>0 DEF LocalWritten, Readers
    <2>2. wopen' \in [Conns -> BOOLEAN]
      BY <1>33 DEF LocalWritten, TypeOK
    <2>3. rd' \in [Endpoints -> Readers]
      <3>1. CASE Reply(e, NewRst(sid[rd[e].conn], "local_write_error"), rd[e].conn)
        <4>1. sid[rd[e].conn] \in Ids \cup {0}
          BY <2>1 DEF TypeOK
        <4> QED
          BY <3>1, <2>1, <4>1, <1>0, FrameType, ReplyType, PcNames
      <3>2. CASE rd' = [rd EXCEPT ![e] = ReaderAt("recv")]
        BY <3>2, <1>0, ReaderAtType
      <3> QED BY <1>33, <3>1, <3>2 DEF LocalWritten
    <2> QED
      BY <1>33, <2>2, <2>3 DEF LocalWritten, TypeOK, linkVars
  <1>34. CASE AgentCancels
    <2>1. rd' \in [Endpoints -> Readers]
      BY <1>34, <1>0, ReaderAtType DEF AgentCancels
    <2>2. rst' \in [Endpoints -> SUBSET Conns] /\ cancel' \in [Endpoints -> BOOLEAN]
      BY <1>34 DEF AgentCancels, TypeOK
    <2>3. wopen' \in [Conns -> BOOLEAN]
      BY <1>34 DEF AgentCancels, TypeOK
    <2> QED
      BY <1>34, <2>1, <2>2, <2>3 DEF AgentCancels, TypeOK
  <1> QED
    BY <1>1, <1>2, <1>3, <1>4, <1>5, <1>6, <1>7, <1>8, <1>9, <1>10, <1>11,
       <1>12, <1>13, <1>14, <1>15, <1>16, <1>17, <1>18, <1>19, <1>20, <1>21,
       <1>22, <1>23, <1>24, <1>25, <1>26, <1>27, <1>28, <1>29, <1>30, <1>31,
       <1>32, <1>33, <1>34
    DEF Next, SessionNext, EndNext, OpenerStep, AcceptStep, PumpStep, ReaderStep, WriterStep

\* In every state of every session, every variable has its type.
THEOREM TypeCorrect == Spec => []TypeOK
  BY InitType, TypeStep, PTL DEF Spec

----------------------------------------------------------------------------
(* The state of a stream.  Every step leaves it alone or makes one of six  *)
(* moves, and a mark that leaves a stream half-closed is made only while   *)
(* the other half is still open.                                           *)

StateMove ==
    \/ state' = state
    \/ \E c \in Conns :
          \/ state' = SetOpen(state, c)
          \/ state' = SetClosed(state, c)
          \/ ~state[c].reof /\ state' = MarkLocalEof(state, c)
          \/ ~state[c].leof /\ state' = MarkRemoteEof(state, c)
          \/ state' = SetClosed(MarkLocalEof(state, c), c)
          \/ state' = SetClosed(MarkRemoteEof(state, c), c)

LEMMA StateMoves == TypeOK /\ [Next]_vars => StateMove
  <1> SUFFICES ASSUME TypeOK, [Next]_vars PROVE StateMove
    OBVIOUS
  <1>1. ASSUME NEW c \in Opens, OpenRemoteStream(c) PROVE StateMove
    BY <1>1 DEF OpenRemoteStream, streamVars, StateMove
  <1>2. ASSUME NEW c \in Opens, OpenSent(c) PROVE StateMove
    BY <1>2 DEF OpenSent, StateMove, Close, Conns
  <1>3. ASSUME NEW d \in Dials, AcceptCheck(d) PROVE StateMove
    BY <1>3 DEF AcceptCheck, streamVars, StateMove
  <1>4. ASSUME NEW d \in Dials, AcceptDial(d) PROVE StateMove
    BY <1>4 DEF AcceptDial, streamVars, StateMove
  <1>5. ASSUME NEW d \in Dials, AcceptWait(d) PROVE StateMove
    BY <1>5 DEF AcceptWait, streamVars, StateMove
  <1>6. ASSUME NEW d \in Dials, AcceptInsert(d) PROVE StateMove
    BY <1>6 DEF AcceptInsert, StateMove, Close, Conns
  <1>7. ASSUME NEW d \in Dials, AcceptAck(d) PROVE StateMove
    BY <1>7 DEF AcceptAck, StateMove, Close, Conns
  <1>8. ASSUME NEW d \in Dials, AcceptNack(d) PROVE StateMove
    BY <1>8 DEF AcceptNack, streamVars, StateMove
  <1>9. ASSUME NEW c \in Conns, PumpRead(c) PROVE StateMove
    BY <1>9 DEF PumpRead, streamVars, StateMove
  <1>10. ASSUME NEW c \in Conns, PumpCancelled(c) PROVE StateMove
    BY <1>10 DEF PumpCancelled, streamVars, StateMove
  <1>11. ASSUME NEW c \in Conns, PumpData(c) PROVE StateMove
    BY <1>11 DEF PumpData, StateMove, Close
  <1>12. ASSUME NEW c \in Conns, PumpFin(c) PROVE StateMove
    BY <1>12 DEF PumpFin, streamVars, StateMove
  <1>13. ASSUME NEW c \in Conns, PumpEof(c) PROVE StateMove
    BY <1>13 DEF PumpEof, StateMove
  <1>14. ASSUME NEW c \in Conns, PumpRst(c) PROVE StateMove
    BY <1>14 DEF PumpRst, StateMove, Close
  <1>15. ASSUME NEW e \in Endpoints, HandleOpen(e) PROVE StateMove
    BY <1>15 DEF HandleOpen, streamVars, StateMove
  <1>16. ASSUME NEW e \in Endpoints, HandleOpenAck(e) PROVE StateMove
    BY <1>16, TargetType DEF HandleOpenAck, StateMove
  <1>17. ASSUME NEW e \in Endpoints, HandleNack(e) PROVE StateMove
    BY <1>17, TargetType DEF HandleNack, StateMove, Close
  <1>18. ASSUME NEW e \in Endpoints, DispatchData(e) PROVE StateMove
    BY <1>18 DEF DispatchData, streamVars, StateMove
  <1>19. ASSUME NEW e \in Endpoints, DispatchFin(e) PROVE StateMove
    BY <1>19, TargetType DEF DispatchFin, StateMove
  <1>20. ASSUME NEW e \in Endpoints, DispatchRst(e) PROVE StateMove
    BY <1>20, TargetType DEF DispatchRst, StateMove, Close
  <1>21. ASSUME NEW e \in Endpoints, DispatchUnknown(e) PROVE StateMove
    BY <1>21 DEF DispatchUnknown, streamVars, StateMove
  <1>22. ASSUME NEW e \in Endpoints, ReaderReply(e) PROVE StateMove
    <2>1. rd[e].conn \in Conns \cup {NoConn}
      BY DEF TypeOK, Readers
    <2> QED BY <1>22, <2>1 DEF ReaderReply, Close, StateMove
  <1>23. ASSUME NEW e \in Endpoints, ReaderStops(e) PROVE StateMove
    BY <1>23 DEF ReaderStops, streamVars, StateMove
  <1>24. ASSUME NEW e \in Endpoints, RstStream(e) PROVE StateMove
    <2>1. rst[e] \subseteq Conns
      BY DEF TypeOK
    <2> QED BY <1>24, <2>1 DEF RstStream, Close, StateMove
  <1>25. ASSUME NEW e \in Endpoints, RunReturns(e) PROVE StateMove
    BY <1>25 DEF RunReturns, streamVars, StateMove
  <1>26. ASSUME NEW e \in Endpoints, WriterSend(e) PROVE StateMove
    BY <1>26 DEF WriterSend, streamVars, StateMove
  <1>27. ASSUME NEW e \in Endpoints, WriterStops(e) PROVE StateMove
    BY <1>27 DEF WriterStops, streamVars, StateMove
  <1>28. ASSUME NEW e \in Endpoints, WriterCloses(e) PROVE StateMove
    BY <1>28 DEF WriterCloses, streamVars, StateMove
  <1>29. ASSUME NEW e \in Endpoints, Cleanup(e) PROVE StateMove
    BY <1>29 DEF Cleanup, streamVars, StateMove
  <1>30. ASSUME NEW e \in Endpoints, Cancel(e) PROVE StateMove
    BY <1>30 DEF Cancel, streamVars, StateMove
  <1>31. CASE Disconnect
    BY <1>31 DEF Disconnect, streamVars, StateMove
  <1>32. CASE UNCHANGED vars
    BY <1>32 DEF vars, streamVars, StateMove
  <1>33. ASSUME NEW e \in Endpoints, LocalWritten(e) PROVE StateMove
    BY <1>33 DEF LocalWritten, StateMove
  <1>34. CASE AgentCancels
    BY <1>34 DEF AgentCancels, StateMove
  <1> QED
    BY <1>1, <1>2, <1>3, <1>4, <1>5, <1>6, <1>7, <1>8, <1>9, <1>10, <1>11,
       <1>12, <1>13, <1>14, <1>15, <1>16, <1>17, <1>18, <1>19, <1>20, <1>21,
       <1>22, <1>23, <1>24, <1>25, <1>26, <1>27, <1>28, <1>29, <1>30, <1>31,
       <1>32, <1>33, <1>34
    DEF Next, SessionNext, EndNext, OpenerStep, AcceptStep, PumpStep, ReaderStep, WriterStep

\* A shut-down write half stays shut and takes no more bytes.
LocalMove ==
    \A c \in Conns : ~wopen[c] => ~wopen'[c] /\ got'[c] = got[c]

LEMMA LocalMoves == TypeOK /\ [Next]_vars => LocalMove
  <1> SUFFICES ASSUME TypeOK, [Next]_vars PROVE LocalMove
    OBVIOUS
  <1>1. ASSUME NEW c \in Opens, OpenRemoteStream(c) PROVE LocalMove
    BY <1>1 DEF OpenRemoteStream, streamVars, LocalMove
  <1>2. ASSUME NEW c \in Opens, OpenSent(c) PROVE LocalMove
    BY <1>2 DEF OpenSent, Close, TypeOK, LocalMove
  <1>3. ASSUME NEW d \in Dials, AcceptCheck(d) PROVE LocalMove
    BY <1>3 DEF AcceptCheck, streamVars, LocalMove
  <1>4. ASSUME NEW d \in Dials, AcceptDial(d) PROVE LocalMove
    BY <1>4 DEF AcceptDial, streamVars, LocalMove
  <1>5. ASSUME NEW d \in Dials, AcceptWait(d) PROVE LocalMove
    BY <1>5 DEF AcceptWait, streamVars, LocalMove
  <1>6. ASSUME NEW d \in Dials, AcceptInsert(d) PROVE LocalMove
    BY <1>6 DEF AcceptInsert, Close, TypeOK, LocalMove
  <1>7. ASSUME NEW d \in Dials, AcceptAck(d) PROVE LocalMove
    BY <1>7 DEF AcceptAck, Close, TypeOK, LocalMove
  <1>8. ASSUME NEW d \in Dials, AcceptNack(d) PROVE LocalMove
    BY <1>8 DEF AcceptNack, streamVars, LocalMove
  <1>9. ASSUME NEW c \in Conns, PumpRead(c) PROVE LocalMove
    BY <1>9 DEF PumpRead, streamVars, LocalMove
  <1>10. ASSUME NEW c \in Conns, PumpCancelled(c) PROVE LocalMove
    BY <1>10 DEF PumpCancelled, streamVars, LocalMove
  <1>11. ASSUME NEW c \in Conns, PumpData(c) PROVE LocalMove
    BY <1>11 DEF PumpData, Close, TypeOK, LocalMove
  <1>12. ASSUME NEW c \in Conns, PumpFin(c) PROVE LocalMove
    BY <1>12 DEF PumpFin, streamVars, LocalMove
  <1>13. ASSUME NEW c \in Conns, PumpEof(c) PROVE LocalMove
    BY <1>13 DEF PumpEof, TypeOK, LocalMove
  <1>14. ASSUME NEW c \in Conns, PumpRst(c) PROVE LocalMove
    BY <1>14 DEF PumpRst, Close, TypeOK, LocalMove
  <1>15. ASSUME NEW e \in Endpoints, HandleOpen(e) PROVE LocalMove
    BY <1>15 DEF HandleOpen, streamVars, LocalMove
  <1>16. ASSUME NEW e \in Endpoints, HandleOpenAck(e) PROVE LocalMove
    BY <1>16 DEF HandleOpenAck, streamVars, LocalMove
  <1>17. ASSUME NEW e \in Endpoints, HandleNack(e) PROVE LocalMove
    BY <1>17 DEF HandleNack, Close, TypeOK, LocalMove
  <1>18. ASSUME NEW e \in Endpoints, DispatchData(e) PROVE LocalMove
    BY <1>18 DEF DispatchData, TypeOK, LocalMove
  <1>19. ASSUME NEW e \in Endpoints, DispatchFin(e) PROVE LocalMove
    BY <1>19 DEF DispatchFin, TypeOK, LocalMove
  <1>20. ASSUME NEW e \in Endpoints, DispatchRst(e) PROVE LocalMove
    BY <1>20 DEF DispatchRst, Close, TypeOK, LocalMove
  <1>21. ASSUME NEW e \in Endpoints, DispatchUnknown(e) PROVE LocalMove
    BY <1>21 DEF DispatchUnknown, streamVars, LocalMove
  <1>22. ASSUME NEW e \in Endpoints, ReaderReply(e) PROVE LocalMove
    BY <1>22 DEF ReaderReply, Close, TypeOK, LocalMove
  <1>23. ASSUME NEW e \in Endpoints, ReaderStops(e) PROVE LocalMove
    BY <1>23 DEF ReaderStops, streamVars, LocalMove
  <1>24. ASSUME NEW e \in Endpoints, RstStream(e) PROVE LocalMove
    BY <1>24 DEF RstStream, Close, TypeOK, LocalMove
  <1>25. ASSUME NEW e \in Endpoints, RunReturns(e) PROVE LocalMove
    BY <1>25 DEF RunReturns, streamVars, LocalMove
  <1>26. ASSUME NEW e \in Endpoints, WriterSend(e) PROVE LocalMove
    BY <1>26 DEF WriterSend, streamVars, LocalMove
  <1>27. ASSUME NEW e \in Endpoints, WriterStops(e) PROVE LocalMove
    BY <1>27 DEF WriterStops, streamVars, LocalMove
  <1>28. ASSUME NEW e \in Endpoints, WriterCloses(e) PROVE LocalMove
    BY <1>28 DEF WriterCloses, streamVars, LocalMove
  <1>29. ASSUME NEW e \in Endpoints, Cleanup(e) PROVE LocalMove
    BY <1>29 DEF Cleanup, streamVars, LocalMove
  <1>30. ASSUME NEW e \in Endpoints, Cancel(e) PROVE LocalMove
    BY <1>30 DEF Cancel, streamVars, LocalMove
  <1>31. CASE Disconnect
    BY <1>31 DEF Disconnect, streamVars, LocalMove
  <1>32. CASE UNCHANGED vars
    BY <1>32 DEF vars, streamVars, LocalMove
  <1>33. ASSUME NEW e \in Endpoints, LocalWritten(e) PROVE LocalMove
    BY <1>33 DEF LocalWritten, TypeOK, LocalMove
  <1>34. CASE AgentCancels
    BY <1>34 DEF AgentCancels, TypeOK, LocalMove
  <1> QED
    BY <1>1, <1>2, <1>3, <1>4, <1>5, <1>6, <1>7, <1>8, <1>9, <1>10, <1>11,
       <1>12, <1>13, <1>14, <1>15, <1>16, <1>17, <1>18, <1>19, <1>20, <1>21,
       <1>22, <1>23, <1>24, <1>25, <1>26, <1>27, <1>28, <1>29, <1>30, <1>31,
       <1>32, <1>33, <1>34
    DEF Next, SessionNext, EndNext, OpenerStep, AcceptStep, PumpStep, ReaderStep, WriterStep

Settled(s) == \A x \in Conns : s[x].leof /\ s[x].reof => s[x].closed

LEMMA SettledMoves ==
    ASSUME NEW s \in [Conns -> StreamStates], NEW c \in Conns, Settled(s)
    PROVE  /\ Settled(SetOpen(s, c)) /\ Settled(SetClosed(s, c))
           /\ ~s[c].reof => Settled(MarkLocalEof(s, c))
           /\ ~s[c].leof => Settled(MarkRemoteEof(s, c))
           /\ Settled(SetClosed(MarkLocalEof(s, c), c))
           /\ Settled(SetClosed(MarkRemoteEof(s, c), c))
  BY DEF Settled, SetOpen, SetClosed, MarkLocalEof, MarkRemoteEof, StreamStates

LEMMA EofStep == TypeOK /\ BothEofClosed /\ [Next]_vars => BothEofClosed'
  <1> SUFFICES ASSUME TypeOK, BothEofClosed, [Next]_vars PROVE Settled(state')
    BY DEF BothEofClosed, Settled
  <1>1. StateMove
    BY StateMoves
  <1>2. state \in [Conns -> StreamStates] /\ Settled(state)
    BY DEF TypeOK, BothEofClosed, Settled
  <1> QED BY <1>1, <1>2, SettledMoves DEF StateMove

\* A stream whose two halves have both ended is closed: mark_local_eof and
\* mark_remote_eof run in different tasks, and whichever is second closes.
THEOREM EofSettles == Spec => []BothEofClosed
  <1>1. Init => BothEofClosed
    BY DEF Init, BothEofClosed, NewState
  <1> QED BY <1>1, EofStep, TypeCorrect, PTL DEF Spec

\* Stream states s and t, where no flag of s is reset in t.
Forward(s, t) ==
    \A x \in Conns :
        /\ ~s[x].pending => ~t[x].pending
        /\ s[x].leof => t[x].leof
        /\ s[x].reof => t[x].reof
        /\ s[x].closed => t[x].closed

LEMMA ForwardMoves ==
    ASSUME NEW s \in [Conns -> StreamStates], NEW c \in Conns
    PROVE  /\ Forward(s, s)
           /\ Forward(s, SetOpen(s, c)) /\ Forward(s, SetClosed(s, c))
           /\ Forward(s, MarkLocalEof(s, c)) /\ Forward(s, MarkRemoteEof(s, c))
           /\ Forward(s, SetClosed(MarkLocalEof(s, c), c))
           /\ Forward(s, SetClosed(MarkRemoteEof(s, c), c))
  BY DEF Forward, SetOpen, SetClosed, MarkLocalEof, MarkRemoteEof, StreamStates

LEMMA Advances == TypeOK /\ [Next]_vars => StateAdvances
  <1> SUFFICES ASSUME TypeOK, [Next]_vars PROVE StateAdvances
    OBVIOUS
  <1>1. StateMove /\ LocalMove
    BY StateMoves, LocalMoves
  <1>2. state \in [Conns -> StreamStates]
    BY DEF TypeOK
  <1>3. Forward(state, state')
    <2>1. CASE state' = state
      BY <2>1 DEF Forward
    <2>2. CASE state' # state
      BY <1>1, <1>2, <2>2, ForwardMoves DEF StateMove
    <2> QED BY <2>1, <2>2
  <1> QED BY <1>1, <1>3 DEF Forward, LocalMove, StateAdvances

\* The life of a stream goes forward only, in every interleaving of its read
\* pump, the reader loop, the cleanup loop and the session's teardown.
THEOREM Monotonic == Spec => StateMonotonic
  <1>1. TypeOK /\ [Next]_vars => [StateAdvances]_vars
    BY Advances
  <1> QED BY <1>1, TypeCorrect, PTL DEF Spec, StateMonotonic

----------------------------------------------------------------------------
(* Registration.  Registered is not inductive by itself: it also needs     *)
(* that a task which has not yet built its Stream object has no id, so     *)
(* that giving it one cannot disturb an entry of the map.                  *)

Early == {"idle", "check", "dial", "wait", "redial", "insert"}

Fresh ==
    /\ \A c \in Opens : opener[c] = "idle" => sid[c] = 0
    /\ \A d \in Dials : acc[d].pc \in Early => sid[d] = 0

\* Every step but the two that register a stream: no id changes, entries of
\* the map only disappear, and no task goes back to before its Stream exists.
Quiet ==
    /\ sid' = sid
    /\ \A e \in Endpoints : \A i \in Ids : map'[e][i] \in {map[e][i], NoConn}
    /\ \A c \in Opens : opener'[c] = "idle" => opener[c] = "idle"
    /\ \A d \in Dials : acc'[d].pc \in Early => acc[d].pc \in Early

LEMMA UnregisterShrinks ==
    ASSUME TypeOK, NEW e \in Endpoints, NEW id, Unregister(e, id)
    PROVE  \A f \in Endpoints : \A i \in Ids : map'[f][i] \in {map[f][i], NoConn}
  <1>1. map \in [Endpoints -> [Ids -> Conns \cup {NoConn}]]
    BY DEF TypeOK
  <1> QED BY <1>1 DEF Unregister

LEMMA QuietSteps ==
    ASSUME TypeOK, [Next]_vars,
           \A c \in Opens : ~OpenRemoteStream(c), \A d \in Dials : ~AcceptInsert(d)
    PROVE  Quiet
  <1>1. ASSUME NEW c \in Opens, OpenSent(c) PROVE Quiet
    <2>1. \A f \in Endpoints : \A i \in Ids : map'[f][i] \in {map[f][i], NoConn}
      BY <1>1, SideType, UnregisterShrinks DEF OpenSent
    <2>2. /\ sid' = sid
          /\ \A x \in Opens : opener'[x] = "idle" => opener[x] = "idle"
          /\ \A x \in Dials : acc'[x].pc \in Early => acc[x].pc \in Early
      BY <1>1 DEF OpenSent, TypeOK, taskVars
    <2> QED BY <2>1, <2>2 DEF Quiet
  <1>2. ASSUME NEW d \in Dials, AcceptCheck(d) PROVE Quiet
    BY <1>2 DEF AcceptCheck, TypeOK, AcceptTasks, AcceptGoto, AcceptRefuse, Quiet, Early,
       streamVars, taskVars, linkVars
  <1>3. ASSUME NEW d \in Dials, AcceptDial(d) PROVE Quiet
    BY <1>3 DEF AcceptDial, TypeOK, AcceptTasks, AcceptGoto, AcceptRefuse, Quiet, Early,
       streamVars, taskVars, linkVars
  <1>4. ASSUME NEW d \in Dials, AcceptWait(d) PROVE Quiet
    BY <1>4 DEF AcceptWait, TypeOK, AcceptTasks, AcceptGoto, Quiet, Early, streamVars,
       taskVars, linkVars
  <1>5. ASSUME NEW d \in Dials, AcceptAck(d) PROVE Quiet
    <2>1. \A f \in Endpoints : \A i \in Ids : map'[f][i] \in {map[f][i], NoConn}
      BY <1>5, SideType, UnregisterShrinks DEF AcceptAck
    <2>2. /\ sid' = sid
          /\ \A x \in Opens : opener'[x] = "idle" => opener[x] = "idle"
          /\ \A x \in Dials : acc'[x].pc \in Early => acc[x].pc \in Early
      BY <1>5 DEF AcceptAck, TypeOK, taskVars, AcceptGoto, AcceptTasks, Early
    <2> QED BY <2>1, <2>2 DEF Quiet
  <1>6. ASSUME NEW d \in Dials, AcceptNack(d) PROVE Quiet
    BY <1>6 DEF AcceptNack, TypeOK, AcceptTasks, AcceptGoto, Quiet, Early, streamVars,
       taskVars, linkVars
  <1>7. ASSUME NEW c \in Conns, PumpRead(c) PROVE Quiet
    BY <1>7 DEF PumpRead, Quiet, Early, streamVars, taskVars, linkVars
  <1>8. ASSUME NEW c \in Conns, PumpCancelled(c) PROVE Quiet
    BY <1>8 DEF PumpCancelled, Quiet, Early, streamVars, taskVars, linkVars
  <1>9. ASSUME NEW c \in Conns, PumpData(c) PROVE Quiet
    BY <1>9 DEF PumpData, Quiet, Early, streamVars, taskVars, linkVars
  <1>10. ASSUME NEW c \in Conns, PumpFin(c) PROVE Quiet
    BY <1>10 DEF PumpFin, Quiet, Early, streamVars, taskVars, linkVars
  <1>11. ASSUME NEW c \in Conns, PumpEof(c) PROVE Quiet
    BY <1>11 DEF PumpEof, Quiet, Early, streamVars, taskVars, linkVars
  <1>12. ASSUME NEW c \in Conns, PumpRst(c) PROVE Quiet
    BY <1>12 DEF PumpRst, Quiet, Early, streamVars, taskVars, linkVars
  <1>13. ASSUME NEW e \in Endpoints, HandleOpen(e) PROVE Quiet
    BY <1>13 DEF HandleOpen, TypeOK, AcceptTasks, Quiet, Early, streamVars, taskVars, linkVars
  <1>14. ASSUME NEW e \in Endpoints, HandleOpenAck(e) PROVE Quiet
    BY <1>14 DEF HandleOpenAck, Quiet, Early, streamVars, taskVars, linkVars
  <1>15. ASSUME NEW e \in Endpoints, HandleNack(e) PROVE Quiet
    <2>1. \A f \in Endpoints : \A i \in Ids : map'[f][i] \in {map[f][i], NoConn}
      BY <1>15, SideType, UnregisterShrinks DEF HandleNack
    <2>2. /\ sid' = sid
          /\ \A x \in Opens : opener'[x] = "idle" => opener[x] = "idle"
          /\ \A x \in Dials : acc'[x].pc \in Early => acc[x].pc \in Early
      BY <1>15 DEF HandleNack, TypeOK, taskVars
    <2> QED BY <2>1, <2>2 DEF Quiet
  <1>16. ASSUME NEW e \in Endpoints, DispatchData(e) PROVE Quiet
    BY <1>16 DEF DispatchData, Quiet, Early, streamVars, taskVars, linkVars
  <1>17. ASSUME NEW e \in Endpoints, DispatchFin(e) PROVE Quiet
    BY <1>17 DEF DispatchFin, Quiet, Early, streamVars, taskVars, linkVars
  <1>18. ASSUME NEW e \in Endpoints, DispatchRst(e) PROVE Quiet
    BY <1>18 DEF DispatchRst, Quiet, Early, streamVars, taskVars, linkVars
  <1>19. ASSUME NEW e \in Endpoints, DispatchUnknown(e) PROVE Quiet
    BY <1>19 DEF DispatchUnknown, Quiet, Early, streamVars, taskVars, linkVars
  <1>20. ASSUME NEW e \in Endpoints, ReaderReply(e) PROVE Quiet
    BY <1>20 DEF ReaderReply, Quiet, Early, streamVars, taskVars, linkVars
  <1>21. ASSUME NEW e \in Endpoints, ReaderStops(e) PROVE Quiet
    BY <1>21 DEF ReaderStops, TypeOK, Quiet, Early, streamVars, taskVars, linkVars
  <1>22. ASSUME NEW e \in Endpoints, RstStream(e) PROVE Quiet
    BY <1>22 DEF RstStream, Quiet, Early, streamVars, taskVars, linkVars
  <1>23. ASSUME NEW e \in Endpoints, RunReturns(e) PROVE Quiet
    BY <1>23 DEF RunReturns, Quiet, Early, streamVars, taskVars, linkVars
  <1>24. ASSUME NEW e \in Endpoints, WriterSend(e) PROVE Quiet
    BY <1>24 DEF WriterSend, Quiet, Early, streamVars, taskVars, linkVars
  <1>25. ASSUME NEW e \in Endpoints, WriterStops(e) PROVE Quiet
    BY <1>25 DEF WriterStops, Quiet, Early, streamVars, taskVars, linkVars
  <1>26. ASSUME NEW e \in Endpoints, WriterCloses(e) PROVE Quiet
    BY <1>26 DEF WriterCloses, Quiet, Early, streamVars, taskVars, linkVars
  <1>27. ASSUME NEW e \in Endpoints, Cleanup(e) PROVE Quiet
    BY <1>27 DEF Cleanup, TypeOK, Quiet, Early, streamVars, taskVars, linkVars
  <1>28. ASSUME NEW e \in Endpoints, Cancel(e) PROVE Quiet
    BY <1>28 DEF Cancel, Quiet, Early, streamVars, taskVars, linkVars
  <1>29. CASE Disconnect
    BY <1>29 DEF Disconnect, Quiet, streamVars, taskVars
  <1>30. CASE UNCHANGED vars
    BY <1>30 DEF vars, Quiet, streamVars, taskVars
  <1>31. ASSUME NEW e \in Endpoints, LocalWritten(e) PROVE Quiet
    BY <1>31 DEF LocalWritten, Quiet, Early
  <1>32. CASE AgentCancels
    BY <1>32 DEF AgentCancels, Quiet, Early
  <1> QED
    BY <1>1, <1>2, <1>3, <1>4, <1>5, <1>6, <1>7, <1>8, <1>9, <1>10, <1>11,
       <1>12, <1>13, <1>14, <1>15, <1>16, <1>17, <1>18, <1>19, <1>20, <1>21,
       <1>22, <1>23, <1>24, <1>25, <1>26, <1>27, <1>28, <1>29, <1>30, <1>31, <1>32
    DEF Next, SessionNext, EndNext, OpenerStep, AcceptStep, PumpStep, ReaderStep, WriterStep

LEMMA RegisterStep ==
    ASSUME TypeOK, Registered, NEW id \in Ids, NEW c \in Conns,
           sid[c] = 0, Register(Side(c), id, c), sid' = [sid EXCEPT ![c] = id]
    PROVE  Registered'
  <1> SUFFICES ASSUME NEW f \in Endpoints, NEW i \in Ids, map'[f][i] # NoConn
               PROVE  Side(map'[f][i]) = f /\ sid'[map'[f][i]] = i
    BY DEF Registered
  <1>1. map \in [Endpoints -> [Ids -> Conns \cup {NoConn}]] /\ sid \in [Conns -> Ids \cup {0}]
    BY DEF TypeOK
  <1>2. CASE f = Side(c) /\ i = id
    BY <1>1, <1>2 DEF Register
  <1>3. CASE ~(f = Side(c) /\ i = id)
    <2>1. map'[f][i] = map[f][i]
      BY <1>1, <1>3 DEF Register
    <2>2. Side(map[f][i]) = f /\ sid[map[f][i]] = i
      BY <2>1 DEF Registered
    <2>3. map[f][i] # c
      BY <2>2 DEF Ids
    <2> QED BY <1>1, <2>1, <2>2, <2>3
  <1> QED BY <1>2, <1>3

LEMMA RegistrationStep ==
    TypeOK /\ Registered /\ Fresh /\ [Next]_vars => Registered' /\ Fresh'
  <1> SUFFICES ASSUME TypeOK, Registered, Fresh, [Next]_vars PROVE Registered' /\ Fresh'
    OBVIOUS
  <1>1. ASSUME NEW c \in Opens, OpenRemoteStream(c) PROVE Registered' /\ Fresh'
    <2>1. PICK id \in NextIds(Side(c), gen[Side(c)], Active(Side(c))) :
             Register(Side(c), id, c) /\ sid' = [sid EXCEPT ![c] = id]
      BY <1>1 DEF OpenRemoteStream
    <2>2. id \in Ids /\ c \in Conns /\ sid[c] = 0 /\ Side(c) \in Endpoints
      BY <1>1, SideType DEF NextIds, FreeFrom, Conns, OpenRemoteStream, Fresh
    <2>3. Registered'
      BY <2>1, <2>2, RegisterStep
    <2>4. Fresh'
      BY <1>1, <2>1, ConnsAssumption DEF OpenRemoteStream, Fresh, TypeOK, Conns
    <2> QED BY <2>3, <2>4
  <1>2. ASSUME NEW d \in Dials, AcceptInsert(d) PROVE Registered' /\ Fresh'
    <2>1. d \in Conns /\ sid[d] = 0 /\ acc[d].id \in Ids \cup {0} /\ Side(d) \in Endpoints
      BY <1>2, SideType DEF AcceptInsert, Fresh, Early, Conns, TypeOK, AcceptTasks
    <2>2. sid' = [sid EXCEPT ![d] = acc[d].id]
      BY <1>2 DEF AcceptInsert
    <2>3. ASSUME Register(Side(d), acc[d].id, d), acc[d].id \in Ids PROVE Registered'
      <3>1. PICK i \in Ids : i = acc[d].id
        BY <2>3
      <3>2. Register(Side(d), i, d) /\ sid' = [sid EXCEPT ![d] = i]
        BY <2>2, <2>3, <3>1
      <3> QED BY <2>1, <3>2, RegisterStep
    <2>4. ASSUME \A f \in Endpoints : \A i \in Ids : map'[f][i] = map[f][i] PROVE Registered'
      <3> SUFFICES ASSUME NEW f \in Endpoints, NEW i \in Ids, map'[f][i] # NoConn
                   PROVE  Side(map'[f][i]) = f /\ sid'[map'[f][i]] = i
        BY DEF Registered
      <3>0. map'[f][i] = map[f][i] /\ map[f][i] # NoConn
        BY <2>4
      <3>1. Side(map[f][i]) = f /\ sid[map[f][i]] = i
        BY <3>0 DEF Registered
      <3>2. map[f][i] # d
        BY <2>1, <3>1 DEF Ids
      <3>3. map[f][i] \in Conns /\ sid \in [Conns -> Ids \cup {0}]
        BY <3>0 DEF TypeOK
      <3> QED BY <2>2, <3>0, <3>1, <3>2, <3>3
    <2>5. ASSUME Register(Side(d), acc[d].id, d), acc[d].id = 0 PROVE Registered'
      <3>1. map \in [Endpoints -> [Ids -> Conns \cup {NoConn}]] /\ 0 \notin Ids
        BY DEF TypeOK, Ids
      <3>2. \A f \in Endpoints : \A i \in Ids : map'[f][i] = map[f][i]
        BY <2>5, <3>1 DEF Register
      <3> QED BY <2>4, <3>2
    <2>6. Registered'
      <3>1. \/ Register(Side(d), acc[d].id, d)
            \/ map' = map
        BY <1>2 DEF AcceptInsert
      <3> QED BY <2>1, <2>3, <2>4, <2>5, <3>1
    <2>7. Fresh'
      BY <1>2, <2>2, ConnsAssumption
         DEF AcceptInsert, AcceptGoto, AcceptRefuse, Fresh, Early, TypeOK, Conns, AcceptTasks
    <2> QED BY <2>6, <2>7
  <1>3. CASE Quiet
    <2>1. Registered'
      BY <1>3 DEF Quiet, Registered, TypeOK
    <2>2. Fresh'
      BY <1>3 DEF Quiet, Fresh
    <2> QED BY <2>1, <2>2
  <1> QED BY <1>1, <1>2, <1>3, QuietSteps

\* The map and the streams agree in every reachable state: a stream is
\* reachable under its own id, at its own endpoint, and under no other id.
THEOREM RegistrationCorrect == Spec => []Registered
  <1>1. Init => Registered /\ Fresh
    BY DEF Init, Registered, Fresh, Conns
  <1> QED BY <1>1, RegistrationStep, TypeCorrect, PTL DEF Spec

----------------------------------------------------------------------------
(* Two sequences in a row: appending to the second, taking from the first, *)
(* moving the head of the second to the end of the first.                  *)

LEMMA AppendToConcat ==
    ASSUME NEW S, NEW s \in Seq(S), NEW t \in Seq(S), NEW x \in S
    PROVE  s \o Append(t, x) = Append(s \o t, x)
  <1>1. s \o t \in Seq(S) /\ <<x>> \in Seq(S)
    BY ConcatProperties
  <1>2. Append(t, x) = t \o <<x>> /\ Append(s \o t, x) = (s \o t) \o <<x>>
    BY <1>1, AppendIsConcat
  <1> QED
    BY <1>1, <1>2, ConcatAssociative

LEMMA TailOfConcat ==
    ASSUME NEW S, NEW s \in Seq(S), NEW t \in Seq(S), s # <<>>
    PROVE  /\ s \o t # <<>>
           /\ Head(s \o t) = Head(s)
           /\ Tail(s \o t) = Tail(s) \o t
  <1>1. /\ s \o t \in Seq(S) /\ Len(s \o t) = Len(s) + Len(t)
        /\ \A i \in 1..(Len(s) + Len(t)) :
              (s \o t)[i] = IF i <= Len(s) THEN s[i] ELSE t[i - Len(s)]
    BY ConcatProperties
  <1>2. Len(s) \in Nat /\ Len(t) \in Nat /\ Len(s) > 0
    BY EmptySeq, LenProperties
  <1>3. s \o t # <<>>
    BY <1>1, <1>2, EmptySeq
  <1>4. Head(s \o t) = Head(s)
    <2>1. Head(s) = s[1] /\ Head(s \o t) = (s \o t)[1]
      BY <1>3, <1>1
    <2> QED BY <1>1, <1>2, <2>1
  <1>5. /\ Tail(s) \in Seq(S) /\ Len(Tail(s)) = Len(s) - 1
        /\ \A i \in 1..Len(Tail(s)) : Tail(s)[i] = s[i + 1]
    BY HeadTailProperties
  <1>6. /\ Tail(s \o t) \in Seq(S) /\ Len(Tail(s \o t)) = Len(s \o t) - 1
        /\ \A i \in 1..Len(Tail(s \o t)) : Tail(s \o t)[i] = (s \o t)[i + 1]
    BY <1>1, <1>3, HeadTailProperties
  <1>7. /\ Tail(s) \o t \in Seq(S) /\ Len(Tail(s) \o t) = Len(Tail(s)) + Len(t)
        /\ \A i \in 1..(Len(Tail(s)) + Len(t)) :
              (Tail(s) \o t)[i] = IF i <= Len(Tail(s)) THEN Tail(s)[i] ELSE t[i - Len(Tail(s))]
    BY <1>5, ConcatProperties
  <1>8. Len(Tail(s \o t)) = Len(Tail(s) \o t)
    BY <1>1, <1>2, <1>5, <1>6, <1>7
  <1>9. ASSUME NEW i \in 1..Len(Tail(s \o t)) PROVE Tail(s \o t)[i] = (Tail(s) \o t)[i]
    <2>1. i + 1 \in 1..(Len(s) + Len(t)) /\ i \in 1..(Len(Tail(s)) + Len(t))
      BY <1>1, <1>2, <1>5, <1>6
    <2>2. CASE i + 1 <= Len(s)
      BY <1>1, <1>2, <1>5, <1>6, <1>7, <2>1, <2>2
    <2>3. CASE i + 1 > Len(s)
      <3>1. Tail(s \o t)[i] = t[(i + 1) - Len(s)]
        BY <1>1, <1>2, <1>6, <2>1, <2>3
      <3>2. (Tail(s) \o t)[i] = t[i - (Len(s) - 1)]
        BY <1>2, <1>5, <1>7, <2>1, <2>3
      <3>3. (i + 1) - Len(s) = i - (Len(s) - 1)
        BY <1>2
      <3> QED BY <3>1, <3>2, <3>3
    <2> QED BY <1>2, <2>2, <2>3
  <1>10. Tail(s \o t) = Tail(s) \o t
    BY <1>6, <1>7, <1>8, <1>9, SeqEqual
  <1> QED BY <1>3, <1>4, <1>10

LEMMA MoveToConcat ==
    ASSUME NEW S, NEW s \in Seq(S), NEW t \in Seq(S), t # <<>>
    PROVE  Append(s, Head(t)) \o Tail(t) = s \o t
  <1>1. /\ Head(t) \in S /\ Tail(t) \in Seq(S) /\ Len(Tail(t)) = Len(t) - 1
        /\ \A i \in 1..Len(Tail(t)) : Tail(t)[i] = t[i + 1]
    BY HeadTailProperties
  <1>2. /\ Append(s, Head(t)) \in Seq(S) /\ Len(Append(s, Head(t))) = Len(s) + 1
        /\ \A i \in 1..Len(s) : Append(s, Head(t))[i] = s[i]
        /\ Append(s, Head(t))[Len(s) + 1] = Head(t)
    BY <1>1, AppendProperties
  <1> DEFINE l == Append(s, Head(t)) \o Tail(t)
             r == s \o t
  <1>3. /\ l \in Seq(S) /\ Len(l) = (Len(s) + 1) + Len(Tail(t))
        /\ \A i \in 1..((Len(s) + 1) + Len(Tail(t))) :
              l[i] = IF i <= Len(s) + 1 THEN Append(s, Head(t))[i]
                     ELSE Tail(t)[i - (Len(s) + 1)]
    BY <1>1, <1>2, ConcatProperties
  <1>4. /\ r \in Seq(S) /\ Len(r) = Len(s) + Len(t)
        /\ \A i \in 1..(Len(s) + Len(t)) : r[i] = IF i <= Len(s) THEN s[i] ELSE t[i - Len(s)]
    BY ConcatProperties
  <1>5. Len(s) \in Nat /\ Len(t) \in Nat /\ Len(t) > 0 /\ Head(t) = t[1]
    BY EmptySeq, LenProperties
  <1> HIDE DEF l, r
  <1>6. ASSUME NEW i \in 1..Len(l) PROVE l[i] = r[i]
    <2>1. i \in 1..(Len(s) + Len(t))
      BY <1>1, <1>3, <1>5
    <2>2. CASE i <= Len(s)
      BY <1>2, <1>3, <1>4, <1>5, <2>1, <2>2, <1>1
    <2>3. CASE i = Len(s) + 1
      BY <1>2, <1>3, <1>4, <1>5, <2>1, <2>3, <1>1
    <2>4. CASE i > Len(s) + 1
      <3>1. l[i] = Tail(t)[i - (Len(s) + 1)]
        BY <1>1, <1>3, <1>5, <2>1, <2>4
      <3>2. Tail(t)[i - (Len(s) + 1)] = t[(i - (Len(s) + 1)) + 1]
        BY <1>1, <1>5, <2>1, <2>4
      <3>3. r[i] = t[i - Len(s)]
        BY <1>4, <1>5, <2>1, <2>4
      <3>4. (i - (Len(s) + 1)) + 1 = i - Len(s)
        BY <1>5
      <3> QED BY <3>1, <3>2, <3>3, <3>4
    <2> QED BY <1>5, <2>1, <2>2, <2>3, <2>4
  <1>7. l = r
    <2>1. l \in Seq(S) /\ r \in Seq(S) /\ Len(l) = Len(r)
      BY <1>1, <1>3, <1>4, <1>5
    <2> QED BY <1>6, <2>1, SeqEqual
  <1> QED BY <1>7 DEF l, r

LEMMA PrefixOfConcat ==
    ASSUME NEW S, NEW s \in Seq(S), NEW t \in Seq(S)
    PROVE  Len(s) \in 0..Len(s \o t) /\ SubSeq(s \o t, 1, Len(s)) = s
  <1>1. /\ s \o t \in Seq(S) /\ Len(s \o t) = Len(s) + Len(t)
        /\ \A i \in 1..(Len(s) + Len(t)) :
              (s \o t)[i] = IF i <= Len(s) THEN s[i] ELSE t[i - Len(s)]
    BY ConcatProperties
  <1>2. Len(s) \in Nat /\ Len(t) \in Nat
    BY LenProperties
  <1>3. \A i \in 1..Len(s) : (s \o t)[i] = s[i] /\ (s \o t)[i] \in S
    BY <1>1, <1>2, ElementOfSeq
  <1>4. /\ SubSeq(s \o t, 1, Len(s)) \in Seq(S)
        /\ Len(SubSeq(s \o t, 1, Len(s))) = Len(s)
        /\ \A i \in 1..Len(s) : SubSeq(s \o t, 1, Len(s))[i] = (s \o t)[i]
    <2>1. /\ SubSeq(s \o t, 1, Len(s)) \in Seq(S)
          /\ Len(SubSeq(s \o t, 1, Len(s))) = IF 1 <= Len(s) THEN Len(s) - 1 + 1 ELSE 0
          /\ \A i \in 1..(Len(s) - 1 + 1) : SubSeq(s \o t, 1, Len(s))[i] = (s \o t)[1 + i - 1]
      BY <1>2, <1>3, SubSeqProperties
    <2> QED BY <1>2, <2>1
  <1>5. SubSeq(s \o t, 1, Len(s)) = s
    BY <1>3, <1>4, SeqEqual
  <1> QED BY <1>1, <1>2, <1>5

----------------------------------------------------------------------------
(* The frames an endpoint has sent and its peer has not yet taken: those in *)
(* the transport, then those in the outbound channel.  Every step leaves    *)
(* this sequence alone, appends one frame, has the peer take the first one, *)
(* or, when the writer task returns, drops the channel's part.              *)

wire == [e \in Endpoints |-> net[Peer(e)] \o out[e]]

\* What the reader sends are resets (CLOSE stands for no frame).
RepliesReset == \A e \in Endpoints : rd[e].frame.type \in {"RST", "CLOSE"}

\* Endpoint e puts f in its channel: for the four types the properties are
\* about, the step that does so.
Says(e, f) ==
    /\ writer[e] # "done" /\ f \in Frames
    /\ \/ f.type \notin {"OPEN", "OPEN_ACK", "DATA", "FIN"}
       \/ \E c \in Opens : Side(c) = e /\ OpenSent(c) /\ f = NewOpen(sid[c])
       \/ \E d \in Dials : Side(d) = e /\ AcceptAck(d) /\ f = NewOpenAck(sid[d])
       \/ \E c \in Conns : Side(c) = e /\ PumpData(c) /\ f = NewData(sid[c], <<c, nread[c]>>)
       \/ \E c \in Conns : Side(c) = e /\ PumpFin(c) /\ f = NewFin(sid[c])

\* The reader of endpoint e takes the first frame of the transport.
Takes(e) ==
    \/ HandleOpen(e) \/ HandleOpenAck(e) \/ HandleNack(e) \/ DispatchData(e)
    \/ DispatchFin(e) \/ DispatchRst(e) \/ DispatchUnknown(e)

WireSame(e)   == wire'[e] = wire[e]
WireGrows(e)  == \E f \in Frames : wire'[e] = Append(wire[e], f) /\ Says(e, f)
WireTaken(e)  ==
    /\ Takes(Peer(e)) /\ wire[e] # <<>> /\ Head(wire[e]) = Head(net[Peer(e)])
    /\ wire'[e] = Tail(wire[e])
WireCut(e)    ==
    /\ writer'[e] = "done"
    /\ \E n \in 0..Len(wire[e]) :
          wire'[e] \in {SubSeq(wire[e], 1, n), Append(SubSeq(wire[e], 1, n), CloseFrame)}

WireStep(e) == WireSame(e) \/ WireGrows(e) \/ WireTaken(e) \/ WireCut(e)

LEMMA PeerType == \A e \in Endpoints : Peer(e) \in Endpoints /\ Peer(Peer(e)) = e /\ Peer(e) # e
  BY DEF Peer, Endpoints

LEMMA WireType == TypeOK => wire \in [Endpoints -> Seq(Frames)]
  BY PeerType DEF TypeOK, wire

\* A send that succeeds appends to the sender's wire and to no other.
LEMMA SendWire ==
    ASSUME TypeOK, NEW e \in Endpoints, NEW f \in Frames, SendOk(e, f), net' = net
    PROVE  /\ wire'[e] = Append(wire[e], f) /\ writer[e] # "done"
           /\ \A x \in Endpoints \ {e} : wire'[x] = wire[x]
  <1>1. net[Peer(e)] \in Seq(Frames) /\ out[e] \in Seq(Frames)
    BY PeerType DEF TypeOK
  <1>2. out'[e] = Append(out[e], f) /\ \A x \in Endpoints \ {e} : out'[x] = out[x]
    BY DEF SendOk, TypeOK
  <1>3. net[Peer(e)] \o Append(out[e], f) = Append(net[Peer(e)] \o out[e], f)
    <2>1. PICK n \in Seq(Frames), o \in Seq(Frames) : n = net[Peer(e)] /\ o = out[e]
      BY <1>1
    <2>2. n \o Append(o, f) = Append(n \o o, f)
      BY AppendToConcat
    <2> QED BY <2>1, <2>2
  <1>4. writer[e] # "done"
    BY DEF SendOk, CanSend
  <1> QED BY <1>2, <1>3, <1>4 DEF wire

\* A frame the reader takes is the first of the peer's wire.
LEMMA TakeWire ==
    ASSUME TypeOK, NEW e \in Endpoints, net[e] # <<>>, Take(e), out' = out
    PROVE  /\ wire[Peer(e)] # <<>> /\ Head(wire[Peer(e)]) = Head(net[e])
           /\ wire'[Peer(e)] = Tail(wire[Peer(e)])
           /\ wire'[e] = wire[e]
  <1> DEFINE p == Peer(e)
  <1>0. p \in Endpoints /\ Peer(p) = e /\ p # e
    BY PeerType
  <1>1. net[e] \in Seq(Frames) /\ out[p] \in Seq(Frames)
    BY <1>0 DEF TypeOK
  <1>2. net'[e] = Tail(net[e]) /\ net'[p] = net[p]
    BY <1>0 DEF Take, TypeOK
  <1>3. wire[p] = net[e] \o out[p] /\ wire'[p] = Tail(net[e]) \o out[p]
    BY <1>0, <1>2 DEF wire
  <1>4. wire[e] = net[p] \o out[e] /\ wire'[e] = net[p] \o out[e]
    BY <1>0, <1>2 DEF wire
  <1>5. /\ net[e] \o out[p] # <<>> /\ Head(net[e] \o out[p]) = Head(net[e])
        /\ Tail(net[e] \o out[p]) = Tail(net[e]) \o out[p]
    BY <1>1, TailOfConcat
  <1> QED BY <1>3, <1>4, <1>5

\* The frame the writer moves to the transport keeps its place.
LEMMA MoveWire ==
    ASSUME TypeOK, NEW e \in Endpoints, WriterSend(e)
    PROVE  \A x \in Endpoints : wire'[x] = wire[x]
  <1> DEFINE p == Peer(e)
  <1>0. p \in Endpoints /\ Peer(p) = e /\ p # e
    BY PeerType
  <1>1. net[p] \in Seq(Frames) /\ out[e] \in Seq(Frames) /\ out[e] # <<>>
    BY <1>0 DEF TypeOK, WriterSend
  <1>2. /\ net'[p] = Append(net[p], Head(out[e])) /\ out'[e] = Tail(out[e])
        /\ net'[e] = net[e] /\ out'[p] = out[p]
    BY <1>0 DEF TypeOK, WriterSend
  <1>3. Append(net[p], Head(out[e])) \o Tail(out[e]) = net[p] \o out[e]
    BY <1>1, MoveToConcat
  <1>4. wire'[e] = wire[e]
    BY <1>2, <1>3 DEF wire
  <1>5. wire'[p] = wire[p]
    BY <1>0, <1>2 DEF wire
  <1>6. \A x \in Endpoints : x = e \/ x = p
    BY DEF Endpoints, Peer
  <1> QED BY <1>4, <1>5, <1>6

\* A writer that returns drops the channel; the transport keeps its frames,
\* followed by the WebSocket close if it is still connected.
LEMMA CloseWire ==
    ASSUME TypeOK, NEW e \in Endpoints, WriterCloses(e)
    PROVE  \A x \in Endpoints : WireSame(x) \/ WireCut(x)
  <1> DEFINE p == Peer(e)
  <1>0. p \in Endpoints /\ Peer(p) = e /\ p # e
    BY PeerType
  <1>1. net[p] \in Seq(Frames) /\ out[e] \in Seq(Frames) /\ CloseFrame \in Frames
    BY <1>0, FrameType DEF TypeOK
  <1>2. /\ out'[e] = <<>> /\ out'[p] = out[p] /\ net'[e] = net[e]
        /\ net'[p] \in {net[p], Append(net[p], CloseFrame)}
        /\ writer'[e] = "done"
    BY <1>0 DEF TypeOK, WriterCloses
  <1>3. wire'[p] = wire[p]
    BY <1>0, <1>2 DEF wire
  <1>4. wire[e] = net[p] \o out[e] /\ wire'[e] = net'[p]
    <2>1. net'[p] \in Seq(Frames)
      BY <1>1, <1>2, AppendProperties
    <2> QED BY <1>2, <2>1, ConcatEmptySeq DEF wire
  <1>5. Len(net[p]) \in 0..Len(wire[e]) /\ SubSeq(wire[e], 1, Len(net[p])) = net[p]
    BY <1>1, <1>4, PrefixOfConcat
  <1>6. WireCut(e)
    BY <1>2, <1>4, <1>5 DEF WireCut
  <1>7. \A x \in Endpoints : x = e \/ x = p
    BY DEF Endpoints, Peer
  <1> QED BY <1>3, <1>6, <1>7 DEF WireSame

\* Frames that neither move nor are sent stay where they are.
LEMMA StillWire ==
    ASSUME UNCHANGED <<net, out>>
    PROVE  \A x \in Endpoints : WireStep(x)
  <1>1. wire' = wire
    BY DEF wire
  <1> QED BY <1>1 DEF WireStep, WireSame

LEMMA SentStep ==
    ASSUME TypeOK, NEW e \in Endpoints, NEW f \in Frames, SendAny(e, f), net' = net,
           SendOk(e, f) => Says(e, f)
    PROVE  \A x \in Endpoints : WireStep(x)
  <1>1. CASE SendOk(e, f)
    <2>1. WireGrows(e)
      BY <1>1, SendWire DEF WireGrows
    <2>2. \A x \in Endpoints \ {e} : WireSame(x)
      BY <1>1, SendWire DEF WireSame
    <2> QED BY <2>1, <2>2 DEF WireStep
  <1>2. CASE SendErr(e)
    BY <1>2, StillWire DEF SendErr
  <1> QED BY <1>1, <1>2 DEF SendAny

LEMMA TakenStep ==
    ASSUME TypeOK, NEW e \in Endpoints, Takes(e), net[e] # <<>>, Take(e), out' = out
    PROVE  \A x \in Endpoints : WireStep(x)
  <1>1. Peer(e) \in Endpoints /\ Peer(Peer(e)) = e /\ \A x \in Endpoints : x = e \/ x = Peer(e)
    BY DEF Endpoints, Peer
  <1>2. WireTaken(Peer(e))
    BY <1>1, TakeWire DEF WireTaken
  <1>3. WireSame(e)
    BY TakeWire DEF WireSame
  <1> QED BY <1>1, <1>2, <1>3 DEF WireStep

LEMMA FrameKinds ==
    \A id, b : /\ NewOpen(id).type = "OPEN" /\ NewOpenAck(id).type = "OPEN_ACK"
               /\ NewNack(id, b).type = "NACK" /\ NewData(id, b).type = "DATA"
               /\ NewFin(id).type = "FIN" /\ NewRst(id, b).type = "RST"
               /\ NewOpen(id).id = id /\ NewOpenAck(id).id = id /\ NewNack(id, b).id = id
               /\ NewData(id, b).id = id /\ NewFin(id).id = id /\ NewRst(id, b).id = id
               /\ NewData(id, b).body = b
               /\ CloseFrame.type = "CLOSE"
  BY DEF NewOpen, NewOpenAck, NewNack, NewData, NewFin, NewRst, CloseFrame, Frame

\* What a step does to what is on the wire, one step per action.
LEMMA WireMoves ==
    ASSUME TypeOK, RepliesReset, [Next]_vars
    PROVE  \A x \in Endpoints : WireStep(x)
  <1> DEFINE Goal == \A x \in Endpoints : WireStep(x)
  <1>0. /\ sid \in [Conns -> Ids \cup {0}] /\ nread \in [Conns -> Nat]
        /\ acc \in [Dials -> AcceptTasks] /\ rd \in [Endpoints -> Readers]
        /\ Opens \subseteq Conns /\ Dials \subseteq Conns
    BY BoundsAssumption DEF TypeOK, Conns
  <1> HIDE DEF Goal
  <1>1. ASSUME NEW c \in Opens, OpenRemoteStream(c) PROVE Goal
    BY <1>1, StillWire DEF OpenRemoteStream, taskVars, linkVars, Goal
  <1>2. ASSUME NEW c \in Opens, OpenSent(c) PROVE Goal
    <2>1. NewOpen(sid[c]) \in Frames /\ Side(c) \in Endpoints
      BY <1>0, FrameType, SideType, PcNames DEF Ids
    <2>2. SendAny(Side(c), NewOpen(sid[c])) /\ net' = net
      BY <1>2 DEF OpenSent, SendAny
    <2>3. SendOk(Side(c), NewOpen(sid[c])) => Says(Side(c), NewOpen(sid[c]))
      BY <1>2, <2>1, FrameKinds DEF Says, SendOk, CanSend
    <2> QED BY <2>1, <2>2, <2>3, SentStep DEF Goal
  <1>3. ASSUME NEW d \in Dials, AcceptCheck(d) PROVE Goal
    BY <1>3, StillWire DEF AcceptCheck, taskVars, linkVars, Goal
  <1>4. ASSUME NEW d \in Dials, AcceptDial(d) PROVE Goal
    BY <1>4, StillWire DEF AcceptDial, taskVars, linkVars, Goal
  <1>5. ASSUME NEW d \in Dials, AcceptWait(d) PROVE Goal
    BY <1>5, StillWire DEF AcceptWait, taskVars, linkVars, Goal
  <1>6. ASSUME NEW d \in Dials, AcceptInsert(d) PROVE Goal
    BY <1>6, StillWire DEF AcceptInsert, taskVars, linkVars, Goal
  <1>7. ASSUME NEW d \in Dials, AcceptAck(d) PROVE Goal
    <2>1. NewOpenAck(sid[d]) \in Frames /\ Side(d) \in Endpoints
      BY <1>0, FrameType, SideType, PcNames DEF Ids
    <2>2. SendAny(Side(d), NewOpenAck(sid[d])) /\ net' = net
      BY <1>7 DEF AcceptAck, SendAny
    <2>3. SendOk(Side(d), NewOpenAck(sid[d])) => Says(Side(d), NewOpenAck(sid[d]))
      BY <1>7, <2>1, FrameKinds DEF Says, SendOk, CanSend
    <2> QED BY <2>1, <2>2, <2>3, SentStep DEF Goal
  <1>8. ASSUME NEW d \in Dials, AcceptNack(d) PROVE Goal
    <2>1. NewNack(acc[d].id, acc[d].why) \in Frames /\ Side(d) \in Endpoints
      BY <1>0, FrameType, SideType, PcNames DEF AcceptTasks
    <2>2. SendAny(Side(d), NewNack(acc[d].id, acc[d].why)) /\ net' = net
      BY <1>8 DEF AcceptNack, SendAny
    <2>3. SendOk(Side(d), NewNack(acc[d].id, acc[d].why)) => Says(Side(d), NewNack(acc[d].id, acc[d].why))
      BY <1>8, <2>1, FrameKinds DEF Says, SendOk, CanSend
    <2> QED BY <2>1, <2>2, <2>3, SentStep DEF Goal
  <1>9. ASSUME NEW c \in Conns, PumpRead(c) PROVE Goal
    BY <1>9, StillWire DEF PumpRead, taskVars, linkVars, Goal
  <1>10. ASSUME NEW c \in Conns, PumpCancelled(c) PROVE Goal
    BY <1>10, StillWire DEF PumpCancelled, taskVars, linkVars, Goal
  <1>11. ASSUME NEW c \in Conns, PumpData(c) PROVE Goal
    <2>1. NewData(sid[c], <<c, nread[c]>>) \in Frames /\ Side(c) \in Endpoints
      BY <1>0, FrameType, SideType, PcNames DEF Ids
    <2>2. SendAny(Side(c), NewData(sid[c], <<c, nread[c]>>)) /\ net' = net
      BY <1>11 DEF PumpData, SendAny
    <2>3. SendOk(Side(c), NewData(sid[c], <<c, nread[c]>>)) => Says(Side(c), NewData(sid[c],
                                            <<c, nread[c]>>))
      BY <1>11, <2>1, FrameKinds DEF Says, SendOk, CanSend
    <2> QED BY <2>1, <2>2, <2>3, SentStep DEF Goal
  <1>12. ASSUME NEW c \in Conns, PumpFin(c) PROVE Goal
    <2>1. NewFin(sid[c]) \in Frames /\ Side(c) \in Endpoints
      BY <1>0, FrameType, SideType, PcNames DEF Ids
    <2>2. SendAny(Side(c), NewFin(sid[c])) /\ net' = net
      BY <1>12 DEF PumpFin, SendAny
    <2>3. SendOk(Side(c), NewFin(sid[c])) => Says(Side(c), NewFin(sid[c]))
      BY <1>12, <2>1, FrameKinds DEF Says, SendOk, CanSend
    <2> QED BY <2>1, <2>2, <2>3, SentStep DEF Goal
  <1>13. ASSUME NEW c \in Conns, PumpEof(c) PROVE Goal
    BY <1>13, StillWire DEF PumpEof, taskVars, linkVars, Goal
  <1>14. ASSUME NEW c \in Conns, PumpRst(c) PROVE Goal
    <2>1. NewRst(sid[c], "local_read_error") \in Frames /\ Side(c) \in Endpoints
      BY <1>0, FrameType, SideType, PcNames DEF Ids
    <2>2. SendAny(Side(c), NewRst(sid[c], "local_read_error")) /\ net' = net
      BY <1>14 DEF PumpRst, SendAny
    <2>3. SendOk(Side(c), NewRst(sid[c], "local_read_error")) => Says(Side(c), NewRst(sid[c], "local_read_error"))
      BY <1>14, <2>1, FrameKinds DEF Says, SendOk, CanSend
    <2> QED BY <2>1, <2>2, <2>3, SentStep DEF Goal
  <1>15. ASSUME NEW e \in Endpoints, HandleOpen(e) PROVE Goal
    <2>1. Take(e) /\ net[e] # <<>> /\ out' = out /\ Takes(e)
      BY <1>15 DEF HandleOpen, Receiving, Takes, taskVars
    <2> QED BY <2>1, TakenStep DEF Goal
  <1>16. ASSUME NEW e \in Endpoints, HandleOpenAck(e) PROVE Goal
    <2>1. Take(e) /\ net[e] # <<>> /\ out' = out /\ Takes(e)
      BY <1>16 DEF HandleOpenAck, Receiving, Takes, taskVars
    <2> QED BY <2>1, TakenStep DEF Goal
  <1>17. ASSUME NEW e \in Endpoints, HandleNack(e) PROVE Goal
    <2>1. Take(e) /\ net[e] # <<>> /\ out' = out /\ Takes(e)
      BY <1>17 DEF HandleNack, Receiving, Takes, taskVars
    <2> QED BY <2>1, TakenStep DEF Goal
  <1>18. ASSUME NEW e \in Endpoints, DispatchData(e) PROVE Goal
    <2>1. Take(e) /\ net[e] # <<>> /\ out' = out /\ Takes(e)
      BY <1>18 DEF DispatchData, Receiving, Takes, taskVars
    <2> QED BY <2>1, TakenStep DEF Goal
  <1>19. ASSUME NEW e \in Endpoints, DispatchFin(e) PROVE Goal
    <2>1. Take(e) /\ net[e] # <<>> /\ out' = out /\ Takes(e)
      BY <1>19 DEF DispatchFin, Receiving, Takes, taskVars
    <2> QED BY <2>1, TakenStep DEF Goal
  <1>20. ASSUME NEW e \in Endpoints, DispatchRst(e) PROVE Goal
    <2>1. Take(e) /\ net[e] # <<>> /\ out' = out /\ Takes(e)
      BY <1>20 DEF DispatchRst, Receiving, Takes, taskVars
    <2> QED BY <2>1, TakenStep DEF Goal
  <1>21. ASSUME NEW e \in Endpoints, DispatchUnknown(e) PROVE Goal
    <2>1. Take(e) /\ net[e] # <<>> /\ out' = out /\ Takes(e)
      BY <1>21 DEF DispatchUnknown, Receiving, Takes, taskVars
    <2> QED BY <2>1, TakenStep DEF Goal
  <1>22. ASSUME NEW e \in Endpoints, ReaderReply(e) PROVE Goal
    <2>1. rd[e].frame \in Frames /\ e \in Endpoints
      BY <1>0, FrameType, SideType, PcNames DEF Readers
    <2>2. SendAny(e, rd[e].frame) /\ net' = net
      BY <1>22 DEF ReaderReply, SendAny
    <2>3. SendOk(e, rd[e].frame) => Says(e, rd[e].frame)
      BY <1>22, <2>1, FrameKinds DEF Says, SendOk, CanSend, RepliesReset
    <2> QED BY <2>1, <2>2, <2>3, SentStep DEF Goal
  <1>23. ASSUME NEW e \in Endpoints, ReaderStops(e) PROVE Goal
    BY <1>23, StillWire DEF ReaderStops, taskVars, linkVars, Goal
  <1>24. ASSUME NEW e \in Endpoints, RstStream(e) PROVE Goal
    <2>0. PICK c \in rst[e] : SendAny(e, NewRst(sid[c], "session closed")) /\ net' = net
      BY <1>24 DEF RstStream
    <2>1. c \in Conns /\ NewRst(sid[c], "session closed") \in Frames
      BY <1>0, FrameType, PcNames DEF TypeOK
    <2>2. SendOk(e, NewRst(sid[c], "session closed")) => Says(e, NewRst(sid[c], "session closed"))
      BY <2>1, FrameKinds DEF Says, SendOk, CanSend
    <2> QED BY <2>0, <2>1, <2>2, SentStep DEF Goal
  <1>25. ASSUME NEW e \in Endpoints, RunReturns(e) PROVE Goal
    BY <1>25, StillWire DEF RunReturns, taskVars, linkVars, Goal
  <1>26. ASSUME NEW e \in Endpoints, WriterSend(e) PROVE Goal
    BY <1>26, MoveWire DEF WireStep, WireSame, Goal
  <1>27. ASSUME NEW e \in Endpoints, WriterStops(e) PROVE Goal
    BY <1>27, StillWire DEF WriterStops, taskVars, linkVars, Goal
  <1>28. ASSUME NEW e \in Endpoints, WriterCloses(e) PROVE Goal
    BY <1>28, CloseWire DEF WireStep, Goal
  <1>29. ASSUME NEW e \in Endpoints, Cleanup(e) PROVE Goal
    BY <1>29, StillWire DEF Cleanup, taskVars, linkVars, Goal
  <1>30. ASSUME NEW e \in Endpoints, Cancel(e) PROVE Goal
    BY <1>30, StillWire DEF Cancel, taskVars, linkVars, Goal
  <1>31. CASE Disconnect
    BY <1>31, StillWire DEF Disconnect, taskVars, Goal
  <1>32. CASE UNCHANGED vars
    BY <1>32, StillWire DEF vars, linkVars, Goal
  <1>33. ASSUME NEW e \in Endpoints, LocalWritten(e) PROVE Goal
    BY <1>33, StillWire DEF LocalWritten, linkVars, Goal
  <1>34. CASE AgentCancels
    BY <1>34, StillWire DEF AgentCancels, Goal
  <1> QED
    BY <1>1, <1>2, <1>3, <1>4, <1>5, <1>6, <1>7, <1>8, <1>9, <1>10, <1>11, <1>12, <1>13,
       <1>14, <1>15, <1>16, <1>17, <1>18, <1>19, <1>20, <1>21, <1>22, <1>23, <1>24, <1>25,
       <1>26, <1>27, <1>28, <1>29, <1>30, <1>31, <1>32, <1>33, <1>34
    DEF Next, SessionNext, EndNext, OpenerStep, AcceptStep, PumpStep, ReaderStep, WriterStep, Goal

\* The steps that move a reader.
LEMMA ReaderMoves ==
    ASSUME [Next]_vars
    PROVE  \/ rd' = rd
           \/ \E x \in Endpoints : \/ DispatchData(x) \/ DispatchUnknown(x) \/ ReaderReply(x)
                                   \/ LocalWritten(x) \/ ReaderStops(x) \/ RunReturns(x)
           \/ AgentCancels
  <1>1. ASSUME NEW c \in Opens, OpenerStep(c) PROVE rd' = rd
    BY <1>1 DEF OpenerStep, OpenRemoteStream, OpenSent
  <1>2. ASSUME NEW d \in Dials, AcceptStep(d) PROVE rd' = rd
    BY <1>2 DEF AcceptStep, AcceptCheck, AcceptDial, AcceptWait, AcceptInsert, AcceptAck,
       AcceptNack
  <1>3. ASSUME NEW c \in Conns, PumpStep(c) PROVE rd' = rd
    BY <1>3 DEF PumpStep, PumpRead, PumpCancelled, PumpData, PumpFin, PumpEof, PumpRst, taskVars
  <1>4. ASSUME NEW e \in Endpoints,
               \/ HandleOpen(e) \/ HandleOpenAck(e) \/ HandleNack(e)
               \/ DispatchFin(e) \/ DispatchRst(e) \/ RstStream(e)
        PROVE  rd' = rd
    BY <1>4 DEF HandleOpen, HandleOpenAck, HandleNack, DispatchFin, DispatchRst, RstStream,
       taskVars
  <1>5. ASSUME NEW e \in Endpoints, WriterStep(e) \/ Cleanup(e) \/ Cancel(e) PROVE rd' = rd
    BY <1>5 DEF WriterStep, WriterSend, WriterStops, WriterCloses, Cleanup, Cancel, taskVars
  <1>6. CASE Disconnect \/ UNCHANGED vars
    BY <1>6 DEF Disconnect, vars, taskVars
  <1> QED BY <1>1, <1>2, <1>3, <1>4, <1>5, <1>6 DEF Next, SessionNext, EndNext, ReaderStep

\* Only write errors and unknown streams are answered by the reader itself.
LEMMA RepliesAreResets == Spec => []RepliesReset
  <1>1. Init => RepliesReset
    BY FrameKinds DEF Init, RepliesReset, ReaderAt
  <1>2. TypeOK /\ RepliesReset /\ [Next]_vars => RepliesReset'
    <2> SUFFICES ASSUME TypeOK, RepliesReset, [Next]_vars, NEW e \in Endpoints
                 PROVE  rd'[e].frame.type \in {"RST", "CLOSE"}
      BY DEF RepliesReset
    <2>1. rd \in [Endpoints -> Readers] /\ rd[e].frame.type \in {"RST", "CLOSE"}
      BY DEF TypeOK, RepliesReset
    <2>2. ASSUME NEW x \in Endpoints,
                 DispatchData(x) \/ DispatchUnknown(x) \/ LocalWritten(x)
          PROVE  rd'[e].frame.type \in {"RST", "CLOSE"}
      BY <2>1, <2>2, FrameKinds DEF DispatchData, DispatchUnknown, LocalWritten, Reply, ReaderAt
    <2>3. ASSUME NEW x \in Endpoints, ReaderReply(x) \/ ReaderStops(x) \/ RunReturns(x)
          PROVE  rd'[e].frame.type \in {"RST", "CLOSE"}
      BY <2>1, <2>3, FrameKinds DEF ReaderReply, ReaderStops, RunReturns, ReaderAt, Readers
    <2>4. CASE AgentCancels
      BY <2>1, <2>4, FrameKinds DEF AgentCancels, ReaderAt
    <2>5. CASE rd' = rd
      BY <2>1, <2>5
    <2> QED BY <2>2, <2>3, <2>4, <2>5, ReaderMoves
  <1> QED BY <1>1, <1>2, TypeCorrect, PTL DEF Spec

\* From one state to the next, the frames on e's wire move up by s places;
\* only the last may be new, and none is lost while e's writer runs.
Shifted(e, s) ==
    /\ \A k \in DOMAIN wire'[e] :
          \/ k + s \in DOMAIN wire[e] /\ wire'[e][k] = wire[e][k + s]
          \/ /\ s = 0 /\ k = Len(wire'[e])
             /\ wire'[e][k] = CloseFrame \/ Says(e, wire'[e][k])
    /\ \/ writer'[e] = "done"
       \/ \A k \in DOMAIN wire[e] :
             k > s => k - s \in DOMAIN wire'[e] /\ wire'[e][k - s] = wire[e][k]
    /\ s = 1 => /\ Takes(Peer(e)) /\ 1 \in DOMAIN wire[e]
                /\ Head(net[Peer(e)]) = wire[e][1]

LEMMA TakenShifts ==
    ASSUME TypeOK, NEW e \in Endpoints, WireTaken(e)
    PROVE  Shifted(e, 1)
  <1>1. wire[e] \in Seq(Frames) /\ wire[e] # <<>> /\ wire'[e] = Tail(wire[e])
    BY WireType DEF WireTaken
  <1>2. /\ Tail(wire[e]) \in Seq(Frames) /\ Len(Tail(wire[e])) = Len(wire[e]) - 1
        /\ \A i \in 1..Len(Tail(wire[e])) : Tail(wire[e])[i] = wire[e][i + 1]
    BY <1>1, HeadTailProperties
  <1>3. /\ DOMAIN wire[e] = 1..Len(wire[e]) /\ Len(wire[e]) \in Nat /\ Len(wire[e]) > 0
        /\ DOMAIN wire'[e] = 1..(Len(wire[e]) - 1)
    BY <1>1, <1>2, LenProperties, EmptySeq
  <1>4. \A k \in DOMAIN wire'[e] : k + 1 \in DOMAIN wire[e] /\ wire'[e][k] = wire[e][k + 1]
    BY <1>1, <1>2, <1>3
  <1>5. \A k \in DOMAIN wire[e] : k > 1 =>
            k - 1 \in DOMAIN wire'[e] /\ wire'[e][k - 1] = wire[e][k]
    <2> SUFFICES ASSUME NEW k \in DOMAIN wire[e], k > 1
                 PROVE  k - 1 \in DOMAIN wire'[e] /\ wire'[e][k - 1] = wire[e][k]
      OBVIOUS
    <2>1. k \in Nat /\ k - 1 \in 1..Len(Tail(wire[e])) /\ (k - 1) + 1 = k
      BY <1>2, <1>3
    <2>2. Tail(wire[e])[k - 1] = wire[e][(k - 1) + 1]
      BY <1>2, <2>1
    <2> QED BY <1>1, <1>2, <1>3, <2>1, <2>2
  <1>6. Takes(Peer(e)) /\ 1 \in DOMAIN wire[e] /\ Head(net[Peer(e)]) = wire[e][1]
    <2>1. Head(wire[e]) = wire[e][1]
      BY <1>1
    <2> QED BY <1>3, <2>1 DEF WireTaken
  <1> QED BY <1>4, <1>5, <1>6 DEF Shifted

LEMMA WirePositions ==
    ASSUME TypeOK, NEW e \in Endpoints, WireStep(e)
    PROVE  \E s \in {0, 1} : Shifted(e, s)
  <1>0. wire[e] \in Seq(Frames) /\ DOMAIN wire[e] = 1..Len(wire[e]) /\ Len(wire[e]) \in Nat
    BY WireType, LenProperties
  <1>1. CASE WireSame(e)
    <2>1. \A k \in DOMAIN wire[e] : k + 0 = k /\ k - 0 = k
      BY <1>0
    <2> QED BY <1>1, <2>1 DEF WireSame, Shifted
  <1>2. CASE WireGrows(e)
    <2>1. PICK f \in Frames : wire'[e] = Append(wire[e], f) /\ Says(e, f)
      BY <1>2 DEF WireGrows
    <2>2. /\ wire'[e] \in Seq(Frames) /\ Len(wire'[e]) = Len(wire[e]) + 1
          /\ \A k \in 1..Len(wire[e]) : wire'[e][k] = wire[e][k]
          /\ wire'[e][Len(wire[e]) + 1] = f
      BY <1>0, <2>1, AppendProperties
    <2>3. DOMAIN wire'[e] = 1..(Len(wire[e]) + 1)
      BY <2>2, LenProperties
    <2>4. \A k \in DOMAIN wire'[e] : \/ k + 0 \in DOMAIN wire[e] /\ wire'[e][k] = wire[e][k + 0]
                                     \/ k = Len(wire'[e]) /\ wire'[e][k] = f
      BY <1>0, <2>2, <2>3
    <2>5. \A k \in DOMAIN wire[e] : k - 0 \in DOMAIN wire'[e] /\ wire'[e][k - 0] = wire[e][k]
      BY <1>0, <2>2, <2>3
    <2> QED BY <2>1, <2>4, <2>5 DEF Shifted
  <1>3. CASE WireTaken(e)
    BY <1>3, TakenShifts
  <1>4. CASE WireCut(e)
    <2>1. PICK n \in 0..Len(wire[e]) :
             wire'[e] \in {SubSeq(wire[e], 1, n), Append(SubSeq(wire[e], 1, n), CloseFrame)}
      BY <1>4 DEF WireCut
    <2> DEFINE p == SubSeq(wire[e], 1, n)
    <2>2. p \in Seq(Frames) /\ Len(p) = n /\ \A k \in 1..n : p[k] = wire[e][k]
      BY <1>0, SubSeqProperties
    <2>3. DOMAIN p = 1..n /\ n \in Nat /\ n <= Len(wire[e])
      BY <1>0, <2>2, LenProperties
    <2>4. CloseFrame \in Frames
      BY FrameType DEF Ids
    <2> HIDE DEF p
    <2>5. /\ Append(p, CloseFrame) \in Seq(Frames) /\ Len(Append(p, CloseFrame)) = n + 1
          /\ DOMAIN Append(p, CloseFrame) = 1..(n + 1)
          /\ \A k \in 1..n : Append(p, CloseFrame)[k] = p[k]
          /\ Append(p, CloseFrame)[n + 1] = CloseFrame
      BY <2>2, <2>4, AppendProperties, LenProperties
    <2>6. \A k \in DOMAIN wire'[e] : \/ k + 0 \in DOMAIN wire[e] /\ wire'[e][k] = wire[e][k + 0]
                                     \/ k = Len(wire'[e]) /\ wire'[e][k] = CloseFrame
      <3>1. CASE wire'[e] = p
        BY <1>0, <2>2, <2>3, <3>1
      <3>2. CASE wire'[e] = Append(p, CloseFrame)
        BY <1>0, <2>2, <2>3, <2>5, <3>2
      <3> QED BY <2>1, <3>1, <3>2 DEF p
    <2> QED BY <1>4, <2>6 DEF Shifted, WireCut
  <1> QED BY <1>1, <1>2, <1>3, <1>4 DEF WireStep

\* The two lemmas together.
LEMMA WireShifts ==
    ASSUME TypeOK, RepliesReset, [Next]_vars
    PROVE  \A e \in Endpoints : \E s \in {0, 1} : Shifted(e, s)
  BY WireMoves, WirePositions

LEMMA TakesShift ==
    ASSUME TypeOK, NEW e \in Endpoints, net[e] # <<>>, Take(e), out' = out, Takes(e)
    PROVE  Shifted(Peer(e), 1) /\ wire'[e] = wire[e]
  <1>1. Peer(e) \in Endpoints /\ Peer(Peer(e)) = e
    BY PeerType
  <1>2. WireTaken(Peer(e))
    BY <1>1, TakeWire DEF WireTaken
  <1> QED BY <1>1, <1>2, TakenShifts, TakeWire

----------------------------------------------------------------------------
(* Ids.  What the two generators hand out has the parity of its side, and  *)
(* an OPEN is on the wire, or with the handler it was given to, at most    *)
(* once and only after its opener has registered the stream.               *)

OwnParity(e, i) == i % 2 = Start(e) % 2

\* The ids an endpoint gives its own streams: of its parity, below its
\* counter, and all different.
Issued ==
    /\ \A c \in Opens :
          /\ opener[c] = "idle" <=> sid[c] = 0
          /\ sid[c] # 0 => OwnParity(Side(c), sid[c]) /\ sid[c] < gen[Side(c)]
    /\ \A b, c \in Opens : sid[b] # 0 /\ sid[b] = sid[c] /\ Side(b) = Side(c) => b = c

Allocated == Issued /\ \A e \in Endpoints : OwnParity(e, gen[e])

\* An OPEN for stream i has left its opener at endpoint e.
Asked(e, i) == \E c \in Opens : Side(c) = e /\ opener[c] = "done" /\ sid[c] = i

Accepted ==
    /\ \A d \in Dials :
          /\ acc[d].pc # "idle" => Asked(Peer(Side(d)), acc[d].id)
          /\ sid[d] \in {0, acc[d].id}
          /\ acc[d].pc \in Early => sid[d] = 0
          /\ acc[d].pc = "ack" => sid[d] = acc[d].id
          /\ acc[d].why \notin {"invalid_stream_id", "stream_id_conflict"}
    /\ \A b, d \in Dials :
          acc[b].pc # "idle" /\ acc[d].pc # "idle" /\ acc[b].id = acc[d].id /\ Side(b) = Side(d)
             => b = d

\* The OPEN at place k of e's wire is for a stream no handler has seen.
NewOpenAt(e, k) ==
    /\ Asked(e, wire[e][k].id)
    /\ \A d \in Dials :
          Side(d) = Peer(e) /\ acc[d].pc # "idle" => acc[d].id # wire[e][k].id
    /\ \A j \in DOMAIN wire[e] :
          wire[e][j].type = "OPEN" /\ wire[e][j].id = wire[e][k].id => j = k

OpensOnce ==
    \A e \in Endpoints : \A k \in DOMAIN wire[e] : wire[e][k].type = "OPEN" => NewOpenAt(e, k)

Numbering == Allocated /\ Accepted /\ OpensOnce

\* The steps that move an opener, and those that move a handler.
LEMMA OpenerMoves ==
    ASSUME TypeOK, [Next]_vars, NEW c \in Opens
    PROVE  \/ opener'[c] = opener[c] /\ sid'[c] = sid[c]
           \/ OpenRemoteStream(c)
           \/ OpenSent(c)
  <1>0. opener \in [Opens -> {"idle", "send", "done"}] /\ sid \in [Conns -> Ids \cup {0}] /\ c \in Conns
    BY DEF TypeOK, Conns
  <1> DEFINE Still == opener'[c] = opener[c] /\ sid'[c] = sid[c]
  <1>1. ASSUME NEW b \in Opens, OpenerStep(b), b # c PROVE Still
    BY <1>0, <1>1 DEF OpenerStep, OpenRemoteStream, OpenSent
  <1>2. ASSUME NEW d \in Dials, AcceptStep(d) PROVE Still
    BY <1>0, <1>2, ConnsAssumption
       DEF AcceptStep, AcceptCheck, AcceptDial, AcceptWait, AcceptInsert, AcceptAck,
           AcceptNack, streamVars
  <1>3. ASSUME NEW x \in Conns, PumpStep(x) PROVE Still
    BY <1>3 DEF PumpStep, PumpRead, PumpCancelled, PumpData, PumpFin, PumpEof, PumpRst, taskVars
  <1>4. ASSUME NEW e \in Endpoints, ReaderStep(e) PROVE Still
    BY <1>4 DEF ReaderStep, HandleOpen, HandleOpenAck, HandleNack, DispatchData, DispatchFin,
                DispatchRst, DispatchUnknown, ReaderReply, ReaderStops, RstStream, RunReturns,
                taskVars, streamVars
  <1>5. ASSUME NEW e \in Endpoints, LocalWritten(e) \/ WriterStep(e) \/ Cleanup(e) \/ Cancel(e)
        PROVE  Still
    BY <1>5 DEF LocalWritten, WriterStep, WriterSend, WriterStops, WriterCloses, Cleanup, Cancel,
                taskVars, streamVars
  <1>6. CASE AgentCancels \/ Disconnect \/ UNCHANGED vars
    BY <1>6 DEF AgentCancels, Disconnect, vars, taskVars, streamVars
  <1> QED BY <1>1, <1>2, <1>3, <1>4, <1>5, <1>6 DEF Next, SessionNext, EndNext, OpenerStep

LEMMA HandlerMoves ==
    ASSUME TypeOK, [Next]_vars, NEW d \in Dials
    PROVE  \/ acc'[d] = acc[d] /\ sid'[d] = sid[d]
           \/ AcceptStep(d)
           \/ /\ HandleOpen(Side(d)) /\ acc[d].pc = "idle" /\ sid'[d] = sid[d]
              /\ acc'[d] = [pc |-> "check", id |-> Head(net[Side(d)]).id, why |-> "none"]
  <1>0. acc \in [Dials -> AcceptTasks] /\ sid \in [Conns -> Ids \cup {0}] /\ d \in Conns
    BY DEF TypeOK, Conns
  <1> DEFINE Still == acc'[d] = acc[d] /\ sid'[d] = sid[d]
  <1>1. ASSUME NEW b \in Opens, OpenerStep(b) PROVE Still
    BY <1>0, <1>1, ConnsAssumption DEF OpenerStep, OpenRemoteStream, OpenSent
  <1>2. ASSUME NEW b \in Dials, AcceptStep(b), b # d PROVE Still
    BY <1>0, <1>2
       DEF AcceptStep, AcceptCheck, AcceptDial, AcceptWait, AcceptInsert, AcceptAck,
           AcceptNack, AcceptGoto, AcceptRefuse, streamVars
  <1>3. ASSUME NEW x \in Conns, PumpStep(x) PROVE Still
    BY <1>3 DEF PumpStep, PumpRead, PumpCancelled, PumpData, PumpFin, PumpEof, PumpRst, taskVars
  <1>4. ASSUME NEW e \in Endpoints, ReaderStep(e), ~HandleOpen(e) PROVE Still
    BY <1>4 DEF ReaderStep, HandleOpenAck, HandleNack, DispatchData, DispatchFin,
                DispatchRst, DispatchUnknown, ReaderReply, ReaderStops, RstStream, RunReturns,
                taskVars, streamVars
  <1>5. ASSUME NEW e \in Endpoints, HandleOpen(e)
        PROVE  \/ Still
               \/ /\ e = Side(d) /\ acc[d].pc = "idle" /\ sid'[d] = sid[d]
                  /\ acc'[d] = [pc |-> "check", id |-> Head(net[Side(d)]).id, why |-> "none"]
    BY <1>0, <1>5 DEF HandleOpen, streamVars
  <1>6. ASSUME NEW e \in Endpoints, LocalWritten(e) \/ WriterStep(e) \/ Cleanup(e) \/ Cancel(e)
        PROVE  Still
    BY <1>6 DEF LocalWritten, WriterStep, WriterSend, WriterStops, WriterCloses, Cleanup, Cancel,
                taskVars, streamVars
  <1>7. CASE AgentCancels \/ Disconnect \/ UNCHANGED vars
    BY <1>7 DEF AgentCancels, Disconnect, vars, taskVars, streamVars
  <1> QED BY <1>1, <1>2, <1>3, <1>4, <1>5, <1>6, <1>7 DEF Next, SessionNext, EndNext

LEMMA GeneratorMoves ==
    ASSUME [Next]_vars
    PROVE  gen' = gen \/ \E c \in Opens : OpenRemoteStream(c)
  <1>1. ASSUME NEW b \in Opens, OpenerStep(b) PROVE gen' = gen \/ OpenRemoteStream(b)
    BY <1>1 DEF OpenerStep, OpenSent
  <1>2. ASSUME NEW d \in Dials, AcceptStep(d) PROVE gen' = gen
    BY <1>2 DEF AcceptStep, AcceptCheck, AcceptDial, AcceptWait, AcceptInsert, AcceptAck,
           AcceptNack
  <1>3. ASSUME NEW x \in Conns, PumpStep(x) PROVE gen' = gen
    BY <1>3 DEF PumpStep, PumpRead, PumpCancelled, PumpData, PumpFin, PumpEof, PumpRst
  <1>4. ASSUME NEW e \in Endpoints, ReaderStep(e) PROVE gen' = gen
    BY <1>4 DEF ReaderStep, HandleOpen, HandleOpenAck, HandleNack, DispatchData, DispatchFin,
                DispatchRst, DispatchUnknown, ReaderReply, ReaderStops, RstStream, RunReturns
  <1>5. ASSUME NEW e \in Endpoints, LocalWritten(e) \/ WriterStep(e) \/ Cleanup(e) \/ Cancel(e)
        PROVE  gen' = gen
    BY <1>5 DEF LocalWritten, WriterStep, WriterSend, WriterStops, WriterCloses, Cleanup, Cancel
  <1>6. CASE AgentCancels \/ Disconnect \/ UNCHANGED vars
    BY <1>6 DEF AgentCancels, Disconnect, vars
  <1> QED BY <1>1, <1>2, <1>3, <1>4, <1>5, <1>6 DEF Next, SessionNext, EndNext

LEMMA IssuedStep == TypeOK /\ TypeOK' /\ Issued /\ [Next]_vars => Issued'
  <1> SUFFICES ASSUME TypeOK, TypeOK', Issued, [Next]_vars PROVE Issued'
    OBVIOUS
  <1>0. /\ gen \in [Endpoints -> Nat] /\ sid \in [Conns -> Ids \cup {0}]
        /\ opener \in [Opens -> {"idle", "send", "done"}] /\ Opens \subseteq Conns
        /\ \A c \in Opens : sid[c] \in Nat /\ Side(c) \in Endpoints
    BY SideType DEF TypeOK, Conns, Ids
  <1>1. ASSUME NEW c \in Opens, OpenRemoteStream(c) PROVE Issued'
    <2> DEFINE e == Side(c)
    <2>1. PICK id \in NextIds(e, gen[e], Active(e)) :
             gen' = [gen EXCEPT ![e] = id + 2] /\ sid' = [sid EXCEPT ![c] = id]
      BY <1>1 DEF OpenRemoteStream
    <2>2. id \in Nat /\ id # 0 /\ id >= gen[e] /\ OwnParity(e, id)
      BY DEF NextIds, FreeFrom, Ids, OwnParity
    <2>3. opener[c] = "idle" /\ sid[c] = 0 /\ opener' = [opener EXCEPT ![c] = "send"]
      BY <1>1 DEF OpenRemoteStream, Issued
    <2>4. /\ gen'[e] = id + 2 /\ \A x \in Endpoints \ {e} : gen'[x] = gen[x]
          /\ sid'[c] = id /\ \A b \in Opens \ {c} : sid'[b] = sid[b]
          /\ e \in Endpoints
      BY <1>0, <2>1
    <2>5. ASSUME NEW b \in Opens
          PROVE  /\ opener'[b] = "idle" <=> sid'[b] = 0
                 /\ sid'[b] # 0 => OwnParity(Side(b), sid'[b]) /\ sid'[b] < gen'[Side(b)]
      <3>1. CASE b = c
        BY <1>0, <2>2, <2>3, <2>4, <3>1
      <3>2. CASE b # c
        <4>1. opener'[b] = opener[b] /\ sid'[b] = sid[b] /\ gen[Side(b)] <= gen'[Side(b)]
          BY <1>0, <2>2, <2>3, <2>4, <3>2
        <4>2. gen'[Side(b)] \in Nat
          BY <1>0 DEF TypeOK
        <4> QED BY <1>0, <4>1, <4>2 DEF Issued
      <3> QED BY <3>1, <3>2
    <2>6. ASSUME NEW a \in Opens, NEW b \in Opens,
                 sid'[a] # 0, sid'[a] = sid'[b], Side(a) = Side(b)
          PROVE  a = b
      <3>1. ASSUME NEW x \in Opens, x # c, Side(x) = e PROVE sid'[x] # id
        <4>1. sid[x] # 0 => sid[x] < gen[e]
          BY <3>1 DEF Issued
        <4> QED BY <1>0, <2>2, <2>4, <3>1, <4>1
      <3>2. CASE a # c /\ b # c
        BY <2>4, <2>6, <3>2 DEF Issued
      <3> QED BY <2>4, <2>6, <3>1, <3>2
    <2> QED BY <2>5, <2>6 DEF Issued
  <1>2. CASE \A c \in Opens : ~OpenRemoteStream(c)
    <2>1. gen' = gen
      BY <1>2, GeneratorMoves
    <2>2. ASSUME NEW c \in Opens
          PROVE  sid'[c] = sid[c] /\ (opener'[c] = "idle" <=> opener[c] = "idle")
      <3>1. ASSUME OpenSent(c) PROVE sid'[c] = sid[c] /\ opener'[c] # "idle" /\ opener[c] # "idle"
        BY <1>0, <3>1 DEF OpenSent
      <3> QED BY <1>2, <3>1, OpenerMoves
    <2> QED BY <2>1, <2>2 DEF Issued
  <1> QED BY <1>1, <1>2

LEMMA AllocatedStep == TypeOK /\ TypeOK' /\ Allocated /\ [Next]_vars => Allocated'
  <1> SUFFICES ASSUME TypeOK, TypeOK', Allocated, [Next]_vars
               PROVE  \A e \in Endpoints : OwnParity(e, gen'[e])
    BY IssuedStep DEF Allocated
  <1>1. ASSUME NEW c \in Opens, OpenRemoteStream(c)
        PROVE  \A e \in Endpoints : OwnParity(e, gen'[e])
    <2>1. PICK id \in NextIds(Side(c), gen[Side(c)], Active(Side(c))) :
             gen' = [gen EXCEPT ![Side(c)] = id + 2]
      BY <1>1 DEF OpenRemoteStream
    <2>2. id \in Nat /\ OwnParity(Side(c), id) /\ Start(Side(c)) \in {1, 2}
      BY DEF NextIds, FreeFrom, Ids, OwnParity, Start
    <2>3. OwnParity(Side(c), id + 2)
      BY <2>2 DEF OwnParity
    <2> QED BY <2>1, <2>3, SideType DEF Allocated, TypeOK
  <1>2. CASE gen' = gen
    BY <1>2 DEF Allocated
  <1> QED BY <1>1, <1>2, GeneratorMoves

\* An OPEN that was sent stays sent.
LEMMA AskedStays ==
    ASSUME TypeOK, [Next]_vars, NEW e, NEW i, Asked(e, i)
    PROVE  Asked(e, i)'
  <1>1. PICK c \in Opens : Side(c) = e /\ opener[c] = "done" /\ sid[c] = i
    BY DEF Asked
  <1>2. ~OpenRemoteStream(c) /\ ~OpenSent(c)
    BY <1>1 DEF OpenRemoteStream, OpenSent
  <1>3. opener'[c] = "done" /\ sid'[c] = i
    BY <1>1, <1>2, OpenerMoves
  <1> QED BY <1>1, <1>3 DEF Asked

LEMMA AskedParity ==
    ASSUME TypeOK, Allocated, NEW e \in Endpoints, NEW i, Asked(e, i)
    PROVE  i \in Ids /\ OwnParity(e, i)
  BY DEF Asked, Allocated, Issued, TypeOK, Conns

LEMMA ParitiesDiffer ==
    ASSUME NEW e \in Endpoints, NEW i, OwnParity(e, i), OwnParity(Peer(e), i)
    PROVE  FALSE
  BY DEF OwnParity, Start, Peer, Endpoints

\* The two checks of handle_open_stream never fail: the id has the peer's
\* parity, so no stream opened here has it, and no other handler has it.
LEMMA NoConflict ==
    ASSUME TypeOK, Registered, Allocated, Accepted,
           NEW d \in Dials, acc[d].pc \in Early \ {"idle"}
    PROVE  ExpectedFromPeer(Side(d), acc[d].id) /\ map[Side(d)][acc[d].id] = NoConn
  <1> DEFINE e == Side(d)
             i == acc[d].id
  <1>1. e \in Endpoints /\ Peer(e) \in Endpoints
    BY SideType, PeerType
  <1>2. acc[d].pc # "idle" /\ Asked(Peer(e), i) /\ sid[d] = 0
    BY DEF Accepted
  <1>3. i \in Ids /\ OwnParity(Peer(e), i)
    BY <1>1, <1>2, AskedParity
  <1>4. ASSUME map[e][i] # NoConn PROVE FALSE
    <2>1. PICK c \in Conns : c = map[e][i]
      BY <1>1, <1>3, <1>4 DEF TypeOK
    <2>2. Side(c) = e /\ sid[c] = i /\ i # 0
      BY <1>1, <1>3, <1>4, <2>1 DEF Registered, Ids
    <2>3. CASE c \in Opens
      BY <1>1, <1>3, <2>2, <2>3, ParitiesDiffer DEF Allocated, Issued
    <2>4. CASE c \in Dials
      <3>1. acc[c].id = i /\ acc[c].pc # "idle"
        BY <2>2, <2>4 DEF Accepted, Early
      <3> QED BY <1>2, <2>2, <2>4, <3>1 DEF Accepted
    <2> QED BY <2>3, <2>4 DEF Conns
  <1> QED BY <1>3, <1>4 DEF ExpectedFromPeer, OwnParity

\* A handler keeps its id; with the checks passing, it is never refused for it.
LEMMA HandlerKeepsId ==
    ASSUME TypeOK, Registered, Allocated, Accepted, NEW d \in Dials, AcceptStep(d)
    PROVE  /\ acc[d].pc # "idle" /\ acc'[d].pc # "idle" /\ acc'[d].id = acc[d].id
           /\ sid'[d] \in {0, acc[d].id}
           /\ acc'[d].pc \in Early => sid'[d] = 0
           /\ acc'[d].pc = "ack" => sid'[d] = acc[d].id
           /\ acc'[d].why \notin {"invalid_stream_id", "stream_id_conflict"}
  <1>0. /\ acc \in [Dials -> AcceptTasks] /\ sid \in [Conns -> Ids \cup {0}] /\ d \in Conns
        /\ acc[d] \in AcceptTasks
        /\ acc[d].why \notin {"invalid_stream_id", "stream_id_conflict"}
        /\ sid[d] \in {0, acc[d].id} /\ (acc[d].pc \in Early => sid[d] = 0)
    BY DEF TypeOK, Conns, Accepted
  <1>1. CASE AcceptCheck(d)
    <2>1. acc[d].pc = "check" /\ sid' = sid
      BY <1>1 DEF AcceptCheck, streamVars
    <2>2. AcceptGoto(d, "dial")
      BY <1>1, <2>1, NoConflict DEF AcceptCheck, Early
    <2> QED BY <1>0, <2>1, <2>2 DEF AcceptGoto, AcceptTasks, Early
  <1>2. CASE AcceptDial(d)
    BY <1>0, <1>2 DEF AcceptDial, AcceptGoto, AcceptRefuse, AcceptTasks, Early, streamVars
  <1>3. CASE AcceptWait(d)
    BY <1>0, <1>3 DEF AcceptWait, AcceptGoto, AcceptTasks, Early, streamVars
  <1>4. CASE AcceptInsert(d)
    <2>1. acc[d].pc = "insert" /\ sid' = [sid EXCEPT ![d] = acc[d].id]
      BY <1>4 DEF AcceptInsert
    <2>2. AcceptGoto(d, "ack")
      BY <1>4, <2>1, NoConflict DEF AcceptInsert, Early
    <2> QED BY <1>0, <2>1, <2>2 DEF AcceptGoto, AcceptTasks, Early
  <1>5. CASE AcceptAck(d)
    BY <1>0, <1>5 DEF AcceptAck, AcceptGoto, AcceptTasks, Early
  <1>6. CASE AcceptNack(d)
    BY <1>0, <1>6 DEF AcceptNack, AcceptGoto, AcceptTasks, Early, streamVars
  <1> QED BY <1>1, <1>2, <1>3, <1>4, <1>5, <1>6 DEF AcceptStep

\* The frame the reader of endpoint e looks at is the first of its peer's wire.
LEMMA HeadOfWire ==
    ASSUME TypeOK, NEW e \in Endpoints, net[e] # <<>>
    PROVE  1 \in DOMAIN wire[Peer(e)] /\ wire[Peer(e)][1] = Head(net[e])
  <1> DEFINE p == Peer(e)
  <1>0. p \in Endpoints /\ Peer(p) = e /\ p # e
    BY PeerType
  <1>1. net[e] \in Seq(Frames) /\ out[p] \in Seq(Frames) /\ wire[p] = net[e] \o out[p]
    BY <1>0 DEF TypeOK, wire
  <1>2. wire[p] # <<>> /\ Head(wire[p]) = Head(net[e]) /\ wire[p] \in Seq(Frames)
    <2>1. PICK n \in Seq(Frames), o \in Seq(Frames) : n = net[e] /\ o = out[p] /\ n # <<>>
      BY <1>1
    <2>2. n \o o # <<>> /\ Head(n \o o) = Head(n)
      BY <2>1, TailOfConcat
    <2> QED BY <1>0, <1>1, <2>1, <2>2, WireType
  <1>3. DOMAIN wire[p] = 1..Len(wire[p]) /\ Len(wire[p]) \in Nat \ {0}
    BY <1>2, EmptySeq, LenProperties
  <1> QED BY <1>2, <1>3

LEMMA AcceptedStep ==
    TypeOK /\ TypeOK' /\ Registered /\ Numbering /\ [Next]_vars => Accepted'
  <1> SUFFICES ASSUME TypeOK, TypeOK', Registered, Allocated, Accepted, OpensOnce, [Next]_vars
               PROVE  Accepted'
    BY DEF Numbering
  <1>0. acc \in [Dials -> AcceptTasks]
    BY DEF TypeOK
  <1>1. ASSUME NEW d \in Dials, HandleOpen(Side(d)), acc[d].pc = "idle"
        PROVE  /\ NewOpenAt(Peer(Side(d)), 1)
               /\ wire[Peer(Side(d))][1] = Head(net[Side(d)])
    <2>1. Side(d) \in Endpoints /\ Peer(Side(d)) \in Endpoints /\ net[Side(d)] # <<>>
          /\ Head(net[Side(d)]).type = "OPEN"
      BY <1>1, SideType, PeerType DEF HandleOpen, Receiving
    <2> QED BY <2>1, HeadOfWire DEF OpensOnce
  <1>2. ASSUME NEW d \in Dials
        PROVE  /\ acc'[d].pc # "idle" => Asked(Peer(Side(d)), acc[d].id)'
               /\ sid'[d] \in {0, acc'[d].id}
               /\ acc'[d].pc \in Early => sid'[d] = 0
               /\ acc'[d].pc = "ack" => sid'[d] = acc'[d].id
               /\ acc'[d].why \notin {"invalid_stream_id", "stream_id_conflict"}
    <2>1. CASE acc'[d] = acc[d] /\ sid'[d] = sid[d]
      <3>1. ASSUME acc[d].pc # "idle" PROVE Asked(Peer(Side(d)), acc[d].id)'
        <4>1. PICK i \in {acc[d].id} : i = acc[d].id /\ Asked(Peer(Side(d)), i)
          BY <3>1 DEF Accepted
        <4>2. Asked(Peer(Side(d)), i)' /\ i = acc'[d].id
          BY <2>1, <4>1, AskedStays
        <4> QED BY <4>2 DEF Asked
      <3> QED BY <2>1, <3>1 DEF Accepted
    <2>2. CASE AcceptStep(d)
      <3>1. PICK i \in {acc[d].id} : i = acc[d].id /\ Asked(Peer(Side(d)), i)
        BY <2>2, HandlerKeepsId DEF Accepted
      <3>2. Asked(Peer(Side(d)), i)' /\ i = acc'[d].id
        BY <2>2, <3>1, AskedStays, HandlerKeepsId
      <3>3. Asked(Peer(Side(d)), acc[d].id)'
        BY <3>2 DEF Asked
      <3> QED BY <2>2, <3>3, HandlerKeepsId
    <2>3. CASE /\ HandleOpen(Side(d)) /\ acc[d].pc = "idle" /\ sid'[d] = sid[d]
               /\ acc'[d] = [pc |-> "check", id |-> Head(net[Side(d)]).id, why |-> "none"]
      <3>1. PICK i \in {Head(net[Side(d)]).id} : i = Head(net[Side(d)]).id /\ Asked(Peer(Side(d)), i)
        BY <1>1, <2>3 DEF NewOpenAt
      <3>2. Asked(Peer(Side(d)), i)' /\ i = acc'[d].id
        BY <2>3, <3>1, AskedStays
      <3>4. Asked(Peer(Side(d)), acc[d].id)'
        BY <3>2 DEF Asked
      <3>3. sid[d] = 0
        BY <2>3 DEF Accepted, Early
      <3> QED BY <2>3, <3>3, <3>4
    <2> QED BY <2>1, <2>2, <2>3, HandlerMoves
  <1>3. ASSUME NEW b \in Dials, NEW d \in Dials, acc'[b].pc # "idle", acc'[d].pc # "idle",
               acc'[b].id = acc'[d].id, Side(b) = Side(d)
        PROVE  b = d
    <2>1. ASSUME NEW x \in Dials, acc[x].pc # "idle" PROVE acc'[x].id = acc[x].id
      BY <2>1, HandlerMoves, HandlerKeepsId
    <2>2. ASSUME NEW x \in Dials, acc[x].pc = "idle", acc'[x].pc # "idle"
          PROVE  /\ HandleOpen(Side(x)) /\ acc'[x].id = Head(net[Side(x)]).id
                 /\ \A y \in Dials \ {x} : acc'[y] = acc[y]
      <3>1. /\ HandleOpen(Side(x))
            /\ acc'[x] = [pc |-> "check", id |-> Head(net[Side(x)]).id, why |-> "none"]
        BY <2>2, HandlerMoves, HandlerKeepsId
      <3>2. PICK z \in Dials :
               acc' = [acc EXCEPT ![z] = [pc |-> "check", id |-> Head(net[Side(x)]).id, why |-> "none"]]
        BY <3>1 DEF HandleOpen
      <3>3. z = x
        BY <1>0, <2>2, <3>2
      <3> QED BY <1>0, <3>1, <3>2, <3>3
    <2>3. ASSUME NEW x \in Dials, NEW y \in Dials, x # y, acc[x].pc = "idle", acc'[x].pc # "idle",
                 acc'[y].pc # "idle", Side(x) = Side(y)
          PROVE  acc'[x].id # acc'[y].id
      <3>1. HandleOpen(Side(x)) /\ acc'[x].id = Head(net[Side(x)]).id /\ acc'[y] = acc[y]
        BY <2>2, <2>3
      <3>2. acc[y].id # wire[Peer(Side(x))][1].id
        <4>1. Side(y) = Peer(Peer(Side(x)))
          BY <2>3, SideType, PeerType
        <4> QED BY <1>1, <2>3, <3>1, <4>1 DEF NewOpenAt
      <3> QED BY <1>1, <2>3, <3>1, <3>2
    <2>4. CASE acc[b].pc # "idle" /\ acc[d].pc # "idle"
      BY <1>3, <2>1, <2>4 DEF Accepted
    <2> QED BY <1>3, <2>3, <2>4
  <1> QED BY <1>2, <1>3 DEF Accepted

LEMMA WireTypeNext == TypeOK' => wire' \in [Endpoints -> Seq(Frames)]
  BY PeerType DEF TypeOK, wire

\* Who puts the frames of each type on the wire.
LEMMA SaidKinds ==
    ASSUME NEW e, NEW f, Says(e, f)
    PROVE  /\ f.type = "OPEN" => \E c \in Opens : Side(c) = e /\ OpenSent(c) /\ f.id = sid[c]
           /\ f.type = "OPEN_ACK" =>
                 \E d \in Dials : Side(d) = e /\ AcceptAck(d) /\ f.id = sid[d]
           /\ f.type = "DATA" =>
                 \E c \in Conns : /\ Side(c) = e /\ PumpData(c) /\ f.id = sid[c]
                                  /\ f.body = <<c, nread[c]>>
           /\ f.type = "FIN" =>
                 \E c \in Conns : Side(c) = e /\ PumpFin(c) /\ f.id = sid[c]
  <1>1. CASE f.type \notin {"OPEN", "OPEN_ACK", "DATA", "FIN"}
    BY <1>1
  <1>2. ASSUME NEW c \in Opens, Side(c) = e, OpenSent(c), f = NewOpen(sid[c])
        PROVE  f.type = "OPEN" /\ f.id = sid[c]
    BY <1>2, FrameKinds
  <1>3. ASSUME NEW d \in Dials, f = NewOpenAck(sid[d]) PROVE f.type = "OPEN_ACK" /\ f.id = sid[d]
    BY <1>3, FrameKinds
  <1>4. ASSUME NEW c \in Conns, f = NewData(sid[c], <<c, nread[c]>>)
        PROVE  f.type = "DATA" /\ f.id = sid[c] /\ f.body = <<c, nread[c]>>
    BY <1>4, FrameKinds
  <1>5. ASSUME NEW c \in Conns, f = NewFin(sid[c]) PROVE f.type = "FIN" /\ f.id = sid[c]
    BY <1>5, FrameKinds
  <1> QED BY <1>1, <1>2, <1>3, <1>4, <1>5 DEF Says

LEMMA HandlerStarts ==
    ASSUME TypeOK, Registered, Allocated, Accepted, [Next]_vars,
           NEW d \in Dials, acc[d].pc = "idle", acc'[d].pc # "idle"
    PROVE  /\ HandleOpen(Side(d))
           /\ acc'[d] = [pc |-> "check", id |-> Head(net[Side(d)]).id, why |-> "none"]
           /\ acc'[d].id = Head(net[Side(d)]).id
  BY HandlerMoves, HandlerKeepsId

LEMMA OpensStep ==
    /\ TypeOK /\ TypeOK' /\ RepliesReset /\ Registered /\ Numbering /\ [Next]_vars
    => OpensOnce'
  <1> SUFFICES ASSUME TypeOK, TypeOK', RepliesReset, Registered, Allocated, Accepted,
                      OpensOnce, [Next]_vars,
                      NEW e \in Endpoints, NEW k \in DOMAIN wire'[e],
                      wire'[e][k].type = "OPEN"
               PROVE  NewOpenAt(e, k)'
    BY DEF Numbering, OpensOnce
  <1>0. Peer(e) \in Endpoints /\ Peer(Peer(e)) = e
    BY PeerType
  <1>1. PICK s \in {0, 1} : Shifted(e, s) /\ (HandleOpen(Peer(e)) => s = 1)
    <2>1. CASE HandleOpen(Peer(e))
      <3>1. net[Peer(e)] # <<>> /\ Take(Peer(e)) /\ out' = out /\ Takes(Peer(e))
        BY <2>1 DEF HandleOpen, Receiving, Takes
      <3> QED BY <1>0, <3>1, TakesShift
    <2>2. CASE ~HandleOpen(Peer(e))
      BY <2>2, WireShifts
    <2> QED BY <2>1, <2>2
  <1>2. DOMAIN wire'[e] \subseteq Nat \ {0} /\ DOMAIN wire[e] \subseteq Nat \ {0}
    <2>1. wire[e] \in Seq(Frames)
      BY WireType
    <2>2. wire'[e] \in Seq(Frames)
      BY WireTypeNext
    <2> QED BY <2>1, <2>2, LenProperties
  <1> DEFINE Old(j) == j + s \in DOMAIN wire[e] /\ wire'[e][j] = wire[e][j + s]
             Fresher(j) == /\ j = Len(wire'[e])
                           /\ \E c \in Opens : /\ Side(c) = e /\ OpenSent(c)
                                               /\ wire'[e][j].id = sid[c]
  <1>3. ASSUME NEW j \in DOMAIN wire'[e], wire'[e][j].type = "OPEN" PROVE Old(j) \/ Fresher(j)
    <2>1. Old(j) \/ (j = Len(wire'[e]) /\ (wire'[e][j] = CloseFrame \/ Says(e, wire'[e][j])))
      BY <1>1 DEF Shifted
    <2>2. wire'[e][j] # CloseFrame
      BY <1>3, FrameKinds
    <2> QED BY <1>3, <2>1, <2>2, SaidKinds
  <1>4. ASSUME NEW j \in DOMAIN wire'[e], wire'[e][j].type = "OPEN", Old(j)
        PROVE  NewOpenAt(e, j + s) /\ wire[e][j + s].id = wire'[e][j].id
    BY <1>4 DEF OpensOnce
  \* An opener about to send is the only one with its id, so nobody was asked.
  <1>5. ASSUME NEW c \in Opens, Side(c) = e, OpenSent(c) PROVE ~Asked(e, sid[c])
    <2>1. opener[c] = "send" /\ sid[c] # 0
      BY <1>5 DEF OpenSent, Allocated, Issued
    <2> QED BY <1>5, <2>1 DEF Asked, Allocated, Issued
  <1> DEFINE i == wire'[e][k].id
  <1>6. CASE Old(k)
    <2>1. NewOpenAt(e, k + s) /\ wire[e][k + s].id = i
      BY <1>4, <1>6
    <2>2. PICK n \in {i} : n = i /\ Asked(e, n)
      BY <2>1 DEF NewOpenAt
    <2>3. Asked(e, n)'
      BY <2>2, AskedStays
    <2>4. ASSUME NEW d \in Dials, Side(d) = Peer(e), acc'[d].pc # "idle" PROVE acc'[d].id # i
      <3>1. CASE acc[d].pc # "idle"
        <4>1. acc'[d].id = acc[d].id
          BY <3>1, HandlerMoves, HandlerKeepsId
        <4> QED BY <2>1, <2>4, <3>1, <4>1 DEF NewOpenAt
      <3>2. CASE acc[d].pc = "idle"
        <4>1. HandleOpen(Side(d)) /\ acc'[d].id = Head(net[Side(d)]).id
          BY <2>4, <3>2, HandlerStarts
        <4>2. s = 1 /\ net[Peer(e)] # <<>> /\ Head(net[Peer(e)]).type = "OPEN"
          BY <1>1, <2>4, <4>1 DEF HandleOpen, Receiving
        <4>3. wire[e][1] = Head(net[Peer(e)]) /\ 1 \in DOMAIN wire[e]
          BY <1>0, <4>2, HeadOfWire
        <4>4. k + s # 1
          BY <1>2, <4>2
        <4> QED BY <2>1, <2>4, <4>1, <4>2, <4>3, <4>4 DEF NewOpenAt
      <3> QED BY <3>1, <3>2
    <2>5. ASSUME NEW j \in DOMAIN wire'[e], wire'[e][j].type = "OPEN", wire'[e][j].id = i
          PROVE  j = k
      <3>1. CASE Old(j)
        <4>1. j + s = k + s
          BY <2>1, <2>5, <3>1 DEF NewOpenAt
        <4> QED BY <1>2, <4>1
      <3>2. CASE Fresher(j)
        BY <1>5, <2>2, <2>5, <3>2
      <3> QED BY <1>3, <2>5, <3>1, <3>2
    <2> QED BY <2>2, <2>3, <2>4, <2>5 DEF NewOpenAt, Asked
  <1>7. CASE Fresher(k)
    <2>1. PICK c \in Opens : Side(c) = e /\ OpenSent(c) /\ i = sid[c]
      BY <1>7
    <2>2. opener'[c] = "done" /\ sid'[c] = i /\ acc' = acc
      BY <2>1 DEF OpenSent, TypeOK
    <2>3. ASSUME NEW d \in Dials, Side(d) = Peer(e), acc'[d].pc # "idle" PROVE acc'[d].id # i
      <3>1. Asked(Peer(Side(d)), acc[d].id)
        BY <2>2, <2>3 DEF Accepted
      <3> QED BY <1>0, <1>5, <2>1, <2>2, <2>3, <3>1
    <2>4. ASSUME NEW j \in DOMAIN wire'[e], wire'[e][j].type = "OPEN", wire'[e][j].id = i
          PROVE  j = k
      <3>1. CASE Old(j)
        <4>1. Asked(e, i)
          BY <1>4, <2>4, <3>1 DEF NewOpenAt
        <4> QED BY <1>5, <2>1, <4>1
      <3> QED BY <1>3, <1>7, <2>4, <3>1
    <2> QED BY <2>1, <2>2, <2>3, <2>4 DEF NewOpenAt, Asked
  <1> QED BY <1>3, <1>6, <1>7

LEMMA NumberingHolds == Spec => []Numbering
  <1>1. Init => Numbering
    <2> SUFFICES ASSUME Init PROVE Numbering
      OBVIOUS
    <2>1. wire = [e \in Endpoints |-> <<>>]
      BY PeerType DEF Init, wire
    <2>2. OpensOnce
      BY <2>1 DEF OpensOnce
    <2>3. Allocated
      BY DEF Init, Allocated, Issued, OwnParity, Conns
    <2>4. Accepted
      BY DEF Init, Accepted, Conns
    <2> QED BY <2>2, <2>3, <2>4 DEF Numbering
  <1>2. /\ TypeOK /\ TypeOK' /\ RepliesReset /\ Registered /\ Numbering /\ [Next]_vars
        => Numbering'
    BY AllocatedStep, AcceptedStep, OpensStep DEF Numbering
  <1> QED BY <1>1, <1>2, TypeCorrect, RepliesAreResets, RegistrationCorrect, PTL DEF Spec

\* The two sides' ids never meet, however their opens cross on the wire: no
\* handler of handle_open_stream refuses an id another copy of this code sent.
THEOREM ParityKeepsApart == Spec => []IdsNeverCollide
  <1>1. Numbering => IdsNeverCollide
    BY DEF Numbering, Accepted, IdsNeverCollide
  <1> QED BY <1>1, NumberingHolds, PTL

----------------------------------------------------------------------------
(* No stream is lost.  An open stream is in its endpoint's map, or in the   *)
(* set rst_all_streams has taken, for as long as the agent has not dropped  *)
(* `run`; removing an entry never removes another stream's, as the ids of a *)
(* side are all different.                                                  *)

Dropped(e) == rd[e].pc = "dropped"

Held(c) == map[Side(c)][sid[c]] = c \/ c \in rst[Side(c)] \/ Dropped(Side(c))

ResetsRunning == \A e \in Endpoints : rst[e] # {} => rd[e].pc = "rstall"

Kept == (\A c \in Conns : sid[c] # 0 /\ ~state[c].closed => Held(c)) /\ ResetsRunning

LEMMA IdsUnique ==
    ASSUME TypeOK, Numbering, NEW x \in Conns, NEW y \in Conns,
           Side(x) = Side(y), sid[x] = sid[y], sid[x] # 0
    PROVE  x = y
  <1>0. Side(x) \in Endpoints /\ Peer(Side(x)) \in Endpoints
    BY SideType, PeerType
  <1>1. ASSUME NEW d \in Dials, sid[d] # 0
        PROVE  /\ acc[d].id = sid[d] /\ acc[d].pc # "idle"
               /\ OwnParity(Peer(Side(d)), sid[d])
    <2>1. acc[d].id = sid[d] /\ acc[d].pc # "idle"
      BY <1>1 DEF Numbering, Accepted, Early
    <2>2. Asked(Peer(Side(d)), sid[d])
      BY <2>1 DEF Numbering, Accepted
    <2>3. Peer(Side(d)) \in Endpoints
      BY SideType, PeerType
    <2> QED BY <2>1, <2>2, <2>3, AskedParity DEF Numbering
  <1>2. ASSUME NEW c \in Opens, sid[c] # 0 PROVE OwnParity(Side(c), sid[c])
    BY <1>2 DEF Numbering, Allocated, Issued
  <1>3. CASE x \in Opens /\ y \in Opens
    BY <1>3 DEF Numbering, Allocated, Issued
  <1>4. CASE x \in Dials /\ y \in Dials
    <2>1. acc[x].id = acc[y].id /\ acc[x].pc # "idle" /\ acc[y].pc # "idle"
      BY <1>1, <1>4
    <2> QED BY <1>4, <2>1 DEF Numbering, Accepted
  <1>5. CASE x \in Opens /\ y \in Dials
    BY <1>0, <1>1, <1>2, <1>5, ParitiesDiffer
  <1>6. CASE x \in Dials /\ y \in Opens
    BY <1>0, <1>1, <1>2, <1>6, ParitiesDiffer
  <1> QED BY <1>3, <1>4, <1>5, <1>6 DEF Conns

\* The steps that touch the map, an id or the set of streams being reset.
LEMMA MapMoves ==
    ASSUME [Next]_vars
    PROVE  \/ \E c \in Opens : OpenRemoteStream(c) \/ OpenSent(c)
           \/ \E d \in Dials : AcceptInsert(d) \/ AcceptAck(d)
           \/ \E e \in Endpoints : HandleNack(e) \/ ReaderStops(e) \/ RstStream(e) \/ Cleanup(e)
           \/ AgentCancels
           \/ UNCHANGED <<map, sid, rst>>
  <1> DEFINE Still == UNCHANGED <<map, sid, rst>>
  <1>1. ASSUME NEW d \in Dials, AcceptStep(d), ~AcceptInsert(d), ~AcceptAck(d) PROVE Still
    BY <1>1 DEF AcceptStep, AcceptCheck, AcceptDial, AcceptWait, AcceptNack, streamVars
  <1>2. ASSUME NEW x \in Conns, PumpStep(x) PROVE Still
    BY <1>2 DEF PumpStep, PumpRead, PumpCancelled, PumpData, PumpFin, PumpEof, PumpRst, taskVars
  <1>3. ASSUME NEW e \in Endpoints, ReaderStep(e), ~HandleNack(e), ~ReaderStops(e), ~RstStream(e)
        PROVE  Still
    BY <1>3 DEF ReaderStep, HandleOpen, HandleOpenAck, DispatchData, DispatchFin, DispatchRst,
                DispatchUnknown, ReaderReply, RunReturns, taskVars, streamVars
  <1>4. ASSUME NEW e \in Endpoints, LocalWritten(e) \/ WriterStep(e) \/ Cancel(e) PROVE Still
    BY <1>4 DEF LocalWritten, WriterStep, WriterSend, WriterStops, WriterCloses, Cancel,
                taskVars, streamVars
  <1>5. CASE Disconnect \/ UNCHANGED vars
    BY <1>5 DEF Disconnect, vars, taskVars, streamVars
  <1> QED BY <1>1, <1>2, <1>3, <1>4, <1>5 DEF Next, SessionNext, EndNext, OpenerStep

\* The reader is in "rstall" for as long as it has streams to reset.
LEMMA ResetsLast ==
    ASSUME TypeOK, [Next]_vars, ResetsRunning
    PROVE  ResetsRunning'
  <1> SUFFICES ASSUME NEW e \in Endpoints, rst'[e] # {} PROVE rd'[e].pc = "rstall"
    BY DEF ResetsRunning
  <1>0. rd \in [Endpoints -> Readers] /\ rst \in [Endpoints -> SUBSET Conns]
    BY DEF TypeOK
  <1>1. ASSUME NEW x \in Endpoints, ReaderStops(x) PROVE rd'[e].pc = "rstall"
    BY <1>0, <1>1 DEF ReaderStops, Readers, ResetsRunning
  <1>2. CASE \A x \in Endpoints : ~ReaderStops(x)
    <2>1. rst'[e] \subseteq rst[e]
      <3>1. ASSUME NEW c \in Opens, OpenRemoteStream(c) \/ OpenSent(c) PROVE rst' = rst
        BY <3>1 DEF OpenRemoteStream, OpenSent
      <3>2. ASSUME NEW d \in Dials, AcceptInsert(d) \/ AcceptAck(d) PROVE rst' = rst
        BY <3>2 DEF AcceptInsert, AcceptAck
      <3>3. ASSUME NEW x \in Endpoints, HandleNack(x) \/ RstStream(x) \/ Cleanup(x)
            PROVE  rst'[e] \subseteq rst[e]
        BY <1>0, <3>3 DEF HandleNack, RstStream, Cleanup, taskVars
      <3>4. CASE AgentCancels
        BY <1>0, <3>4 DEF AgentCancels
      <3> QED BY <1>2, <3>1, <3>2, <3>3, <3>4, MapMoves
    <2>2. rd[e].pc = "rstall" /\ rst[e] # {}
      BY <2>1 DEF ResetsRunning
    <2>3. ASSUME NEW x \in Endpoints,
                 \/ DispatchData(x) \/ DispatchUnknown(x) \/ ReaderReply(x)
                 \/ LocalWritten(x) \/ RunReturns(x)
          PROVE  rd'[e] = rd[e]
      BY <1>0, <2>2, <2>3
         DEF DispatchData, DispatchUnknown, ReaderReply, LocalWritten, RunReturns, Reply, Receiving
    <2>4. CASE AgentCancels
      <3>1. rst'["client"] = {} /\ \A x \in Endpoints : x # "client" => rd'[x] = rd[x]
        BY <1>0, <2>4 DEF AgentCancels, Endpoints
      <3> QED BY <2>2, <3>1
    <2> QED BY <1>2, <2>2, <2>3, <2>4, ReaderMoves
  <1> QED BY <1>1, <1>2

\* A `run` that the agent has dropped is dropped for good.
LEMMA DropStays ==
    ASSUME TypeOK, [Next]_vars, NEW e \in Endpoints, Dropped(e)
    PROVE  rd'[e] = rd[e]
  <1>0. rd \in [Endpoints -> Readers]
    BY DEF TypeOK
  <1>1. ASSUME NEW x \in Endpoints,
               DispatchData(x) \/ DispatchUnknown(x) \/ LocalWritten(x) \/ ReaderReply(x)
        PROVE  rd'[e] = rd[e]
    BY <1>0, <1>1 DEF DispatchData, DispatchUnknown, LocalWritten, ReaderReply, Reply, Receiving,
                      Dropped
  <1>2. ASSUME NEW x \in Endpoints, ReaderStops(x) \/ RunReturns(x) PROVE rd'[e] = rd[e]
    BY <1>0, <1>2 DEF ReaderStops, RunReturns, Dropped
  <1>3. CASE AgentCancels
    BY <1>0, <1>3 DEF AgentCancels, Dropped
  <1> QED BY <1>1, <1>2, <1>3, ReaderMoves

\* One step does not lose an open stream c.  Only the two failed sends of a
\* writer that is gone remove an entry without asking whose it is: there c
\* must be the only stream of its side with its id.
LEMMA HeldStep ==
    ASSUME TypeOK, ResetsRunning, [Next]_vars,
           NEW c \in Conns, sid'[c] # 0, ~state'[c].closed,
           sid[c] # 0 => Held(c),
           sid[c] # 0 /\ writer[Side(c)] = "done" =>
              \A x \in Conns : Side(x) = Side(c) /\ sid[x] = sid[c] => x = c
    PROVE  Held(c)'
  <1>0. /\ map \in [Endpoints -> [Ids -> Conns \cup {NoConn}]]
        /\ sid \in [Conns -> Ids \cup {0}] /\ state \in [Conns -> StreamStates]
        /\ rst \in [Endpoints -> SUBSET Conns]
        /\ Opens \subseteq Conns /\ Dials \subseteq Conns
        /\ Side(c) \in Endpoints /\ \A x \in Conns : Side(x) \in Endpoints
    BY SideType DEF TypeOK, Conns
  <1>1. NoConn \notin Conns
    BY ConnsAssumption
  <1> DEFINE Goal == map'[Side(c)][sid'[c]] = c \/ c \in rst'[Side(c)] \/ Dropped(Side(c))'
  <1>15. Dropped(Side(c)) => Dropped(Side(c))'
    BY <1>0, DropStays DEF Dropped
  <1> SUFFICES ASSUME ~Dropped(Side(c)) PROVE Goal
    BY <1>15 DEF Held
  <1>2. sid'[c] = sid[c] => sid[c] \in Ids /\ (map[Side(c)][sid[c]] = c \/ c \in rst[Side(c)])
    BY <1>0 DEF Held
  <1>3. ASSUME NEW x \in Conns, NEW i \in Ids \cup {0}, map[Side(x)][i] = NoConn,
               Register(Side(x), i, x), sid' = [sid EXCEPT ![x] = i], rst' = rst
        PROVE  Goal
    <2>1. CASE c = x
      BY <1>0, <1>3, <2>1 DEF Register
    <2>2. CASE c # x
      <3>1. sid'[c] = sid[c]
        BY <1>0, <1>3, <2>2
      <3>2. map[Side(c)][sid[c]] = c => map'[Side(c)][sid[c]] = c
        BY <1>0, <1>1, <1>2, <1>3, <3>1 DEF Register
      <3> QED BY <1>2, <1>3, <3>1, <3>2
    <2> QED BY <2>1, <2>2
  <1>4. ASSUME NEW x \in Conns, SendErr(Side(x)), Unregister(Side(x), sid[x]), Close(x),
               sid' = sid, rst' = rst
        PROVE  Goal
    <2>1. c # x
      BY <1>0, <1>4 DEF Close, SetClosed, StreamStates
    <2>2. ~(Side(c) = Side(x) /\ sid[c] = sid[x])
      BY <1>4, <2>1 DEF SendErr, SendFails
    <2>3. map'[Side(c)][sid[c]] = map[Side(c)][sid[c]]
      BY <1>0, <1>2, <1>4, <2>2 DEF Unregister
    <2> QED BY <1>2, <1>4, <2>3
  <1>5. ASSUME sid' = sid, rst' = rst, map' = map PROVE Goal
    BY <1>2, <1>5
  <1>6. ASSUME NEW x \in Opens, OpenRemoteStream(x) PROVE Goal
    <2>1. PICK i \in NextIds(Side(x), gen[Side(x)], Active(Side(x))) :
             Register(Side(x), i, x) /\ sid' = [sid EXCEPT ![x] = i]
      BY <1>6 DEF OpenRemoteStream
    <2>2. i \in Ids /\ map[Side(x)][i] = NoConn /\ rst' = rst
      BY <1>6 DEF NextIds, FreeFrom, Active, OpenRemoteStream
    <2> QED BY <1>0, <1>3, <2>1, <2>2
  <1>7. ASSUME NEW x \in Opens, OpenSent(x) PROVE Goal
    BY <1>0, <1>4, <1>5, <1>7 DEF OpenSent
  <1>8. ASSUME NEW x \in Dials, AcceptInsert(x) PROVE Goal
    <2>1. sid' = [sid EXCEPT ![x] = acc[x].id] /\ rst' = rst /\ acc[x].id \in Ids \cup {0}
      BY <1>8 DEF AcceptInsert, TypeOK, AcceptTasks
    <2>2. CASE map[Side(x)][acc[x].id] = NoConn
      <3>1. Register(Side(x), acc[x].id, x)
        BY <1>8, <2>2 DEF AcceptInsert
      <3> QED BY <1>0, <1>3, <2>1, <2>2, <3>1
    <2>3. CASE map[Side(x)][acc[x].id] # NoConn
      <3>1. Close(x) /\ map' = map
        BY <1>8, <2>3 DEF AcceptInsert
      <3>2. c # x
        BY <1>0, <3>1 DEF Close, SetClosed, StreamStates
      <3> QED BY <1>0, <1>2, <2>1, <3>1, <3>2
    <2> QED BY <2>2, <2>3
  <1>9. ASSUME NEW x \in Dials, AcceptAck(x) PROVE Goal
    BY <1>0, <1>4, <1>5, <1>9 DEF AcceptAck
  <1>10. ASSUME NEW e \in Endpoints, HandleNack(e) PROVE Goal
    <2>1. sid' = sid /\ rst' = rst
      BY <1>10 DEF HandleNack, taskVars
    <2>2. CASE Target(e) = NoConn
      BY <1>5, <1>10, <2>1, <2>2 DEF HandleNack
    <2>3. CASE Target(e) # NoConn
      <3>1. /\ Unregister(e, Head(net[e]).id) /\ Close(Target(e)) /\ Head(net[e]).id \in Ids
            /\ Target(e) = map[e][Head(net[e]).id]
        BY <1>10, <2>3 DEF HandleNack, Target
      <3>2. c # Target(e)
        BY <1>0, <3>1 DEF Close, SetClosed, StreamStates
      <3>3. map[Side(c)][sid[c]] = c => map'[Side(c)][sid[c]] = c
        BY <1>0, <1>2, <2>1, <3>1, <3>2 DEF Unregister
      <3> QED BY <1>2, <2>1, <3>3
    <2> QED BY <2>2, <2>3
  <1>11. ASSUME NEW e \in Endpoints, ReaderStops(e) PROVE Goal
    <2>1. /\ sid' = sid /\ rst' = [rst EXCEPT ![e] = {map[e][i] : i \in Active(e)}]
          /\ map' = [map EXCEPT ![e] = [i \in Ids |-> NoConn]]
      BY <1>11 DEF ReaderStops, streamVars
    <2>2. CASE Side(c) = e
      <3>1. rst[e] = {}
        BY <1>11 DEF ReaderStops, ResetsRunning
      <3>2. map[e][sid[c]] = c
        BY <1>2, <2>1, <2>2, <3>1
      <3>3. sid[c] \in Active(e)
        BY <1>1, <1>2, <2>1, <3>2 DEF Active
      <3> QED BY <1>0, <2>1, <2>2, <3>2, <3>3
    <2>3. CASE Side(c) # e
      BY <1>0, <1>2, <2>1, <2>3
    <2> QED BY <2>2, <2>3
  <1>12. ASSUME NEW e \in Endpoints, RstStream(e) PROVE Goal
    <2>1. PICK x \in rst[e] : rst' = [rst EXCEPT ![e] = @ \ {x}] /\ Close(x) /\ map' = map /\ sid' = sid
      BY <1>12 DEF RstStream
    <2>2. c # x
      BY <1>0, <2>1 DEF Close, SetClosed, StreamStates
    <2> QED BY <1>0, <1>2, <2>1, <2>2
  <1>13. ASSUME NEW e \in Endpoints, Cleanup(e) PROVE Goal
    <2>1. /\ sid' = sid /\ rst' = rst /\ state' = state
          /\ map' = [map EXCEPT ![e] =
                 [i \in Ids |-> IF @[i] # NoConn /\ state[@[i]].closed THEN NoConn ELSE @[i]]]
      BY <1>13 DEF Cleanup, streamVars, taskVars
    <2>2. map[Side(c)][sid[c]] = c => map'[Side(c)][sid[c]] = c
      BY <1>0, <1>2, <2>1
    <2> QED BY <1>2, <2>1, <2>2
  <1>14. CASE UNCHANGED <<map, sid, rst>>
    BY <1>5, <1>14
  <1>16. CASE AgentCancels
    <2>1. /\ map' = map /\ sid' = sid /\ rst' = [rst EXCEPT !["client"] = {}]
          /\ rd' = [rd EXCEPT !["client"] = ReaderAt("dropped")]
          /\ "client" \in Endpoints /\ rd \in [Endpoints -> Readers]
      BY <1>16 DEF AgentCancels, TypeOK, Endpoints
    <2>2. CASE Side(c) = "client"
      BY <2>1, <2>2 DEF Dropped, ReaderAt
    <2>3. CASE Side(c) # "client"
      BY <1>0, <1>2, <2>1, <2>3
    <2> QED BY <2>2, <2>3
  <1> QED BY <1>6, <1>7, <1>8, <1>9, <1>10, <1>11, <1>12, <1>13, <1>14, <1>16, MapMoves

LEMMA KeptStep ==
    TypeOK /\ Numbering /\ Kept /\ [Next]_vars => Kept'
  <1> SUFFICES ASSUME TypeOK, Numbering, Kept, [Next]_vars PROVE Kept'
    OBVIOUS
  <1>1. ASSUME NEW c \in Conns, sid'[c] # 0, ~state'[c].closed PROVE Held(c)'
    <2>1. sid[c] # 0 => Held(c)
      BY <1>1, Advances DEF Kept, StateAdvances
    <2> QED BY <1>1, <2>1, HeldStep, IdsUnique DEF Kept
  <1> QED BY <1>1, ResetsLast DEF Kept

LEMMA KeptHolds == Spec => []Kept
  <1>1. Init => Kept
    BY DEF Init, Kept, ResetsRunning
  <1> QED BY <1>1, KeptStep, TypeCorrect, NumberingHolds, PTL DEF Spec

\* A stream that is held is in reach, or one of the two exceptions.
LEMMA HeldReach ==
    ASSUME TypeOK, ResetsRunning, NEW c \in Conns, sid[c] # 0, Held(c)
    PROVE  InReach(c) \/ RegisteredLate(c) \/ Dropped(Side(c))
  <1>1. /\ Side(c) \in Endpoints /\ sid[c] \in Ids
        /\ rd[Side(c)].pc \in {"recv", "send", "write", "rstall", "done", "dropped"}
    BY SideType DEF TypeOK, Readers
  <1>2. CASE map[Side(c)][sid[c]] = c
    BY <1>1, <1>2 DEF InReach, RegisteredLate, Dropped
  <1>3. CASE c \in rst[Side(c)]
    BY <1>1, <1>3 DEF InReach, ResetsRunning
  <1> QED BY <1>2, <1>3 DEF Held

\* NoLeak without its exception for dialled streams.
OpenReached ==
    \A c \in Conns :
        sid[c] # 0 /\ ~state[c].closed => InReach(c) \/ RegisteredLate(c) \/ Dropped(Side(c))

\* No failed send, refusal, cleanup or reset of one stream takes another out
\* of the map without closing it: between two endpoints running this code, an
\* open stream is in reach of something that can close it, unless it was
\* registered after rst_all_streams had taken the map or the agent has dropped
\* `run`; what NoLeak excepts besides does not happen.
THEOREM StreamsReachable == Spec => [](NoLeak /\ OpenReached)
  <1>1. TypeOK /\ Kept => OpenReached
    BY HeldReach DEF Kept, OpenReached
  <1>2. OpenReached => NoLeak
    BY DEF OpenReached, NoLeak, Dropped
  <1> QED BY <1>1, <1>2, TypeCorrect, KeptHolds, PTL

----------------------------------------------------------------------------
(* Who may talk.  A read pump runs only on a stream both of whose ends      *)
(* exist, and an OPEN_ACK, DATA or FIN on the wire comes from such a pump.  *)

Pumping(x) == pump[x] # "none"

\* The handler at endpoint e has accepted stream i and started its pump.
Talking(d, e, i) == Side(d) = e /\ sid[d] = i /\ acc[d].pc = "done" /\ Pumping(d)

Talks ==
    /\ \A e \in Endpoints : \A k \in DOMAIN wire[e] :
          /\ wire[e][k].type = "OPEN_ACK" => \E d \in Dials : Talking(d, e, wire[e][k].id)
          /\ wire[e][k].type \in {"DATA", "FIN"} =>
                \E y \in Conns : Side(y) = e /\ sid[y] = wire[e][k].id /\ Pumping(y)
    /\ \A d \in Dials : Pumping(d) => acc[d].pc = "done" /\ sid[d] # 0
    /\ \A c \in Opens : Pumping(c) =>
           sid[c] # 0 /\ \E d \in Dials : Talking(d, Peer(Side(c)), sid[c])

LEMMA IdStays ==
    ASSUME TypeOK, Numbering, [Next]_vars, NEW c \in Conns, sid[c] # 0
    PROVE  sid'[c] = sid[c]
  <1>1. CASE c \in Opens
    <2>1. ~OpenRemoteStream(c)
      BY <1>1 DEF OpenRemoteStream, Numbering, Allocated, Issued
    <2> QED BY <1>1, <2>1, OpenerMoves DEF OpenSent
  <1>2. CASE c \in Dials
    <2>1. ~AcceptInsert(c)
      BY <1>2 DEF AcceptInsert, Numbering, Accepted, Early
    <2>2. CASE AcceptStep(c)
      BY <2>1, <2>2 DEF AcceptStep, AcceptCheck, AcceptDial, AcceptWait, AcceptAck, AcceptNack,
                        streamVars
    <2> QED BY <1>2, <2>2, HandlerMoves
  <1> QED BY <1>1, <1>2 DEF Conns

\* A pump once spawned is never unspawned; OPEN_ACK, sent or received, spawns it.
LEMMA PumpMoves ==
    ASSUME TypeOK, [Next]_vars, NEW x \in Conns
    PROVE  /\ Pumping(x) => pump'[x] # "none"
           /\ pump'[x] # "none" =>
                 \/ Pumping(x)
                 \/ x \in Dials /\ AcceptAck(x) /\ writer[Side(x)] # "done"
                 \/ \E e \in Endpoints : HandleOpenAck(e) /\ Target(e) = x
  <1> DEFINE Goal == /\ Pumping(x) => pump'[x] # "none"
                     /\ pump'[x] # "none" =>
                           \/ Pumping(x)
                           \/ x \in Dials /\ AcceptAck(x) /\ writer[Side(x)] # "done"
                           \/ \E e \in Endpoints : HandleOpenAck(e) /\ Target(e) = x
  <1>0. pump \in [Conns -> PumpPcs]
    BY DEF TypeOK
  <1>1. ASSUME NEW c \in Opens, OpenerStep(c) PROVE Goal
    BY <1>1 DEF OpenerStep, OpenRemoteStream, OpenSent, Pumping
  <1>2. ASSUME NEW d \in Dials, AcceptStep(d) PROVE Goal
    <2>1. CASE AcceptAck(d)
      <3>1. CASE PumpGoto(d, "read") /\ SendOk(Side(d), NewOpenAck(sid[d]))
        BY <1>0, <2>1, <3>1 DEF PumpGoto, Pumping, SendOk, CanSend
      <3>2. CASE UNCHANGED pump
        BY <3>2 DEF Pumping
      <3> QED BY <2>1, <3>1, <3>2 DEF AcceptAck
    <2>2. CASE ~AcceptAck(d)
      BY <1>2, <2>2 DEF AcceptStep, AcceptCheck, AcceptDial, AcceptWait, AcceptInsert,
                        AcceptNack, streamVars, Pumping
    <2> QED BY <2>1, <2>2
  <1>3. ASSUME NEW c \in Conns, PumpStep(c) PROVE Goal
    BY <1>0, <1>3 DEF PumpStep, PumpRead, PumpCancelled, PumpData, PumpFin, PumpEof, PumpRst,
                      PumpGoto, Pumping
  <1>4. ASSUME NEW e \in Endpoints, HandleOpenAck(e) PROVE Goal
    <2>1. CASE Target(e) = NoConn
      BY <1>4, <2>1 DEF HandleOpenAck, Pumping
    <2>2. CASE Target(e) # NoConn
      BY <1>0, <1>4, <2>2 DEF HandleOpenAck, PumpGoto, Pumping
    <2> QED BY <2>1, <2>2
  <1>5. ASSUME NEW e \in Endpoints, ReaderStep(e), ~HandleOpenAck(e) PROVE Goal
    BY <1>5 DEF ReaderStep, HandleOpen, HandleNack, DispatchData, DispatchFin, DispatchRst,
                DispatchUnknown, ReaderReply, ReaderStops, RstStream, RunReturns, streamVars, Pumping
  <1>6. ASSUME NEW e \in Endpoints, LocalWritten(e) \/ WriterStep(e) \/ Cleanup(e) \/ Cancel(e)
        PROVE  Goal
    BY <1>6 DEF LocalWritten, WriterStep, WriterSend, WriterStops, WriterCloses, Cleanup, Cancel,
                streamVars, Pumping
  <1>7. CASE AgentCancels \/ Disconnect \/ UNCHANGED vars
    BY <1>7 DEF AgentCancels, Disconnect, vars, streamVars, Pumping
  <1> QED BY <1>1, <1>2, <1>3, <1>4, <1>5, <1>6, <1>7 DEF Next, SessionNext, EndNext

LEMMA TalkingStays ==
    ASSUME TypeOK, Numbering, [Next]_vars, NEW d \in Dials, NEW e, NEW i, i # 0,
           Talking(d, e, i)
    PROVE  Talking(d, e, i)'
  <1>1. d \in Conns /\ sid'[d] = i /\ pump'[d] # "none"
    BY IdStays, PumpMoves DEF Talking, Conns
  <1>2. ~AcceptStep(d)
    BY DEF Talking, AcceptStep, AcceptCheck, AcceptDial, AcceptWait, AcceptInsert, AcceptAck,
           AcceptNack
  <1>3. acc'[d] = acc[d]
    BY <1>2, HandlerMoves DEF Talking
  <1> QED BY <1>1, <1>3 DEF Talking, Pumping

\* The stream a handler accepted was opened by the peer.
LEMMA AcceptedFor ==
    ASSUME TypeOK, Numbering, NEW d \in Dials, sid[d] # 0
    PROVE  \E c \in Opens : Side(c) = Peer(Side(d)) /\ sid[c] = sid[d] /\ opener[c] = "done"
  <1>1. acc[d].pc # "idle" /\ acc[d].id = sid[d]
    BY DEF Numbering, Accepted, Early
  <1>2. Asked(Peer(Side(d)), sid[d])
    BY <1>1 DEF Numbering, Accepted
  <1> QED BY <1>2 DEF Asked

\* An OPEN_ACK reaches the stream that was opened, and no other.
LEMMA AckTarget ==
    ASSUME TypeOK, Registered, Numbering, Talks, NEW e \in Endpoints,
           HandleOpenAck(e), Target(e) # NoConn
    PROVE  /\ Target(e) \in Opens /\ Side(Target(e)) = e /\ sid[Target(e)] # 0
           /\ sid[Target(e)] = Head(net[e]).id
           /\ \E d \in Dials : Talking(d, Peer(e), sid[Target(e)])
  <1> DEFINE i == Head(net[e]).id
             c == Target(e)
  <1>0. Peer(e) \in Endpoints /\ Peer(Peer(e)) = e
    BY PeerType
  <1>1. net[e] # <<>> /\ Head(net[e]).type = "OPEN_ACK"
    BY DEF HandleOpenAck, Receiving
  <1>2. 1 \in DOMAIN wire[Peer(e)] /\ wire[Peer(e)][1] = Head(net[e])
    BY <1>1, HeadOfWire
  <1>3. PICK d \in Dials : Talking(d, Peer(e), i)
    BY <1>0, <1>1, <1>2 DEF Talks
  <1>4. i \in Ids /\ c = map[e][i] /\ Side(c) = e /\ sid[c] = i /\ i # 0 /\ c \in Conns
    BY TargetType DEF Target, Registered, Ids
  <1>5. PICK b \in Opens : Side(b) = e /\ sid[b] = i
    BY <1>0, <1>3, <1>4, AcceptedFor DEF Talking
  <1>6. b = c
    BY <1>4, <1>5, IdsUnique DEF Conns
  <1> QED BY <1>3, <1>4, <1>5, <1>6

LEMMA TalksStep ==
    /\ TypeOK /\ TypeOK' /\ RepliesReset /\ Registered /\ Numbering /\ Numbering'
    /\ Talks /\ [Next]_vars
    => Talks'
  <1> SUFFICES ASSUME TypeOK, TypeOK', RepliesReset, Registered, Numbering, Numbering',
                      Talks, [Next]_vars
               PROVE  Talks'
    OBVIOUS
  <1>0. Opens \subseteq Conns /\ Dials \subseteq Conns
    BY DEF Conns
  \* A handler that sends OPEN_ACK talks from then on.
  <1>1. ASSUME NEW d \in Dials, AcceptAck(d), writer[Side(d)] # "done", NEW i, i = sid[d]
        PROVE  Talking(d, Side(d), i)' /\ i # 0
    <2>1. SendOk(Side(d), NewOpenAck(sid[d])) /\ PumpGoto(d, "read")
      BY <1>1 DEF AcceptAck, SendErr, SendFails
    <2>2. sid'[d] = i /\ acc'[d].pc = "done" /\ pump'[d] = "read"
      BY <1>0, <1>1, <2>1 DEF AcceptAck, AcceptGoto, PumpGoto, TypeOK, AcceptTasks
    <2>3. sid[d] = acc[d].id /\ Asked(Peer(Side(d)), acc[d].id)
      BY <1>1 DEF AcceptAck, Numbering, Accepted
    <2>4. acc[d].id \in Ids
      BY <2>3, SideType, PeerType, AskedParity DEF Numbering
    <2> QED BY <1>1, <2>2, <2>3, <2>4 DEF Talking, Pumping, Ids
  <1>2. ASSUME NEW e \in Endpoints, NEW k \in DOMAIN wire'[e]
        PROVE  /\ wire'[e][k].type = "OPEN_ACK" => \E d \in Dials : Talking(d, e, wire[e][k].id)'
               /\ wire'[e][k].type \in {"DATA", "FIN"} =>
                     \E y \in Conns : Side(y) = e /\ sid'[y] = wire'[e][k].id /\ pump'[y] # "none"
    <2> DEFINE f == wire'[e][k]
    <2>1. PICK s \in {0, 1} : Shifted(e, s)
      BY WireShifts
    <2>2. CASE k + s \in DOMAIN wire[e] /\ f = wire[e][k + s]
      <3>1. CASE f.type = "OPEN_ACK"
        <4>1. PICK i \in {f.id} : i = f.id
          OBVIOUS
        <4>2. PICK d \in Dials : Talking(d, e, i)
          BY <2>2, <3>1, <4>1 DEF Talks
        <4>3. i # 0
          BY <4>2 DEF Talks, Talking
        <4>4. Talking(d, e, i)'
          BY <4>2, <4>3, TalkingStays
        <4> QED BY <3>1, <4>1, <4>4 DEF Talking
      <3>2. CASE f.type \in {"DATA", "FIN"}
        <4>1. PICK y \in Conns : Side(y) = e /\ sid[y] = f.id /\ Pumping(y)
          BY <2>2, <3>2 DEF Talks
        <4>2. sid[y] # 0
          BY <4>1 DEF Talks, Conns
        <4> QED BY <3>2, <4>1, <4>2, IdStays, PumpMoves
      <3> QED BY <3>1, <3>2
    <2>3. CASE f = CloseFrame
      BY <2>3, FrameKinds
    <2>4. CASE Says(e, f)
      <3>1. CASE f.type = "OPEN_ACK"
        <4>1. PICK d \in Dials : Side(d) = e /\ AcceptAck(d) /\ f.id = sid[d]
          BY <2>4, <3>1, SaidKinds
        <4>2. PICK i \in {sid[d]} : i = sid[d]
          OBVIOUS
        <4>3. Talking(d, e, i)'
          BY <1>1, <2>4, <4>1, <4>2 DEF Says
        <4> QED BY <3>1, <4>1, <4>2, <4>3 DEF Talking
      <3>2. CASE f.type \in {"DATA", "FIN"}
        <4>1. PICK y \in Conns : Side(y) = e /\ (PumpData(y) \/ PumpFin(y)) /\ f.id = sid[y]
          BY <2>4, <3>2, SaidKinds
        <4>2. sid' = sid /\ Pumping(y)
          BY <4>1 DEF PumpData, PumpFin, Pumping
        <4> QED BY <3>2, <4>1, <4>2, PumpMoves
      <3> QED BY <3>1, <3>2
    <2> QED BY <2>1, <2>2, <2>3, <2>4 DEF Shifted
  <1>3. ASSUME NEW d \in Dials, pump'[d] # "none" PROVE acc'[d].pc = "done" /\ sid'[d] # 0
    <2>1. CASE Pumping(d)
      <3>1. PICK i \in {sid[d]} : i = sid[d] /\ i # 0 /\ Talking(d, Side(d), i)
        BY <2>1 DEF Talks, Talking
      <3> QED BY <3>1, TalkingStays DEF Talking
    <2>2. CASE AcceptAck(d) /\ writer[Side(d)] # "done"
      BY <1>1, <2>2 DEF Talking
    <2>3. ASSUME NEW e \in Endpoints, HandleOpenAck(e), Target(e) = d PROVE FALSE
      <3>1. d # NoConn
        BY <1>0, ConnsAssumption
      <3> QED BY <2>3, <3>1, AckTarget, ConnsAssumption
    <2> QED BY <1>0, <1>3, <2>1, <2>2, <2>3, PumpMoves
  <1>4. ASSUME NEW c \in Opens, pump'[c] # "none"
        PROVE  sid'[c] # 0 /\ \E d \in Dials : Talking(d, Peer(Side(c)), sid[c])'
    <2>1. sid[c] # 0 /\ \E d \in Dials : Talking(d, Peer(Side(c)), sid[c])
      <3>1. CASE Pumping(c)
        BY <3>1 DEF Talks
      <3>2. CASE \E e \in Endpoints : HandleOpenAck(e) /\ Target(e) = c
        <4>1. c # NoConn
          BY <1>0, ConnsAssumption
        <4> QED BY <3>2, <4>1, AckTarget
      <3> QED BY <1>0, <1>4, <3>1, <3>2, PumpMoves, ConnsAssumption
    <2>2. PICK d \in Dials, i \in {sid[c]} : i = sid[c] /\ Talking(d, Peer(Side(c)), i)
      BY <2>1
    <2>3. Talking(d, Peer(Side(c)), i)' /\ sid'[c] = i
      BY <1>0, <2>1, <2>2, TalkingStays, IdStays
    <2> QED BY <2>1, <2>2, <2>3 DEF Talking
  <1> QED BY <1>2, <1>3, <1>4 DEF Talks, Pumping

LEMMA TalksHolds == Spec => []Talks
  <1>1. Init => Talks
    <2> SUFFICES ASSUME Init PROVE Talks
      OBVIOUS
    <2>1. wire = [e \in Endpoints |-> <<>>]
      BY PeerType DEF Init, wire
    <2>2. \A c \in Conns : ~Pumping(c)
      BY DEF Init, Pumping
    <2> QED BY <2>1, <2>2 DEF Talks, Conns
  <1>2. /\ TypeOK /\ TypeOK' /\ RepliesReset /\ Registered /\ Numbering /\ Numbering'
        /\ Talks /\ [Next]_vars
        => Talks'
    BY TalksStep
  <1> QED
    BY <1>1, <1>2, TypeCorrect, RepliesAreResets, RegistrationCorrect, NumberingHolds, PTL
       DEF Spec

\* DATA or FIN for a stream missing from the map of a running endpoint means
\* that the endpoint closed it: never that the frame came before its stream.
THEOREM NoDataBeforeStream == Spec => []NoEarlyData
  <1>1. TypeOK /\ Numbering /\ Kept /\ Talks => NoEarlyData
    <2> SUFFICES ASSUME TypeOK, Numbering, Kept, Talks, NEW e \in Endpoints,
                        rd[e].pc = "recv", net[e] # <<>>,
                        Head(net[e]).type \in {"DATA", "FIN"}, Target(e) = NoConn
                 PROVE  \E c \in Conns : Side(c) = e /\ sid[c] = Head(net[e]).id /\ state[c].closed
      BY DEF NoEarlyData
    <2> DEFINE i == Head(net[e]).id
    <2>1. Peer(e) \in Endpoints /\ Peer(Peer(e)) = e /\ Opens \subseteq Conns /\ Dials \subseteq Conns
      BY PeerType DEF Conns
    <2>2. PICK y \in Conns : Side(y) = Peer(e) /\ sid[y] = i /\ Pumping(y)
      BY <2>1, HeadOfWire DEF Talks
    <2>3. i # 0 /\ i \in Ids
      BY <2>1, <2>2 DEF Talks, TypeOK, Conns
    <2>4. \E c \in Conns : Side(c) = e /\ sid[c] = i
      <3>1. CASE y \in Opens
        BY <2>1, <2>2, <3>1 DEF Talks, Talking
      <3>2. CASE y \in Dials
        BY <2>1, <2>2, <2>3, <3>2, AcceptedFor
      <3> QED BY <3>1, <3>2 DEF Conns
    <2>5. PICK c \in Conns : Side(c) = e /\ sid[c] = i
      BY <2>4
    <2>6. c # NoConn
      BY ConnsAssumption
    <2>7. map[e][i] # c
      BY <2>3, <2>6 DEF Target
    <2>8. c \notin rst[e] /\ ~Dropped(e)
      BY DEF Kept, ResetsRunning, Dropped
    <2> QED BY <2>3, <2>5, <2>7, <2>8 DEF Kept, Held
  <1> QED BY <1>1, TypeCorrect, NumberingHolds, KeptHolds, TalksHolds, PTL

----------------------------------------------------------------------------
(* OPEN_ACK first.  While a registered stream is OPENING at its opener, the *)
(* peer's OPEN_ACK is on the wire before every DATA and FIN of the stream,  *)
(* and it is there as soon as the peer's pump runs.                        *)

AckAt(e, j, i) == j \in DOMAIN wire[e] /\ wire[e][j].type = "OPEN_ACK" /\ wire[e][j].id = i

AckBefore(e, k, i) == \E j \in DOMAIN wire[e] : AckAt(e, j, i) /\ j < k

AckFirst ==
    \A c \in Opens : \A p \in Endpoints :
        /\ p = Peer(Side(c)) /\ sid[c] # 0 /\ map[Side(c)][sid[c]] = c /\ state[c].pending
        => /\ \A d \in Dials : Side(d) = p /\ sid[d] = sid[c] /\ Pumping(d) =>
                 writer[p] = "done" \/ \E j \in DOMAIN wire[p] : AckAt(p, j, sid[c])
           /\ \A k \in DOMAIN wire[p] :
                 wire[p][k].type \in {"DATA", "FIN"} /\ wire[p][k].id = sid[c] =>
                     AckBefore(p, k, sid[c])

\* A writer that has returned has returned for good.
LEMMA WriterEnds ==
    ASSUME TypeOK, [Next]_vars, NEW e \in Endpoints, writer[e] = "done"
    PROVE  writer'[e] = "done"
  <1>0. writer \in [Endpoints -> {"run", "closing", "done"}]
    BY DEF TypeOK
  <1>1. ASSUME NEW c \in Opens, OpenerStep(c) PROVE writer' = writer
    BY <1>1 DEF OpenerStep, OpenRemoteStream, OpenSent, linkVars
  <1>2. ASSUME NEW d \in Dials, AcceptStep(d) PROVE writer' = writer
    BY <1>2 DEF AcceptStep, AcceptCheck, AcceptDial, AcceptWait, AcceptInsert, AcceptAck,
                AcceptNack, linkVars
  <1>3. ASSUME NEW x \in Conns, PumpStep(x) PROVE writer' = writer
    BY <1>3 DEF PumpStep, PumpRead, PumpCancelled, PumpData, PumpFin, PumpEof, PumpRst, linkVars
  <1>4. ASSUME NEW x \in Endpoints, ReaderStep(x) PROVE writer' = writer
    BY <1>4 DEF ReaderStep, HandleOpen, HandleOpenAck, HandleNack, DispatchData, DispatchFin,
                DispatchRst, DispatchUnknown, ReaderReply, ReaderStops, RstStream, RunReturns,
                linkVars
  <1>5. ASSUME NEW x \in Endpoints, LocalWritten(x) \/ WriterStep(x) \/ Cleanup(x) \/ Cancel(x)
        PROVE  writer'[e] = "done"
    BY <1>0, <1>5 DEF LocalWritten, WriterStep, WriterSend, WriterStops, WriterCloses, Cleanup,
                      Cancel, linkVars
  <1>6. CASE AgentCancels \/ Disconnect \/ UNCHANGED vars
    BY <1>6 DEF AgentCancels, Disconnect, vars, linkVars
  <1> QED BY <1>1, <1>2, <1>3, <1>4, <1>5, <1>6 DEF Next, SessionNext, EndNext

\* An id a dialled stream has at one side belongs, at the other side, to the
\* stream whose OPEN it answers.
LEMMA OpenerSent ==
    ASSUME TypeOK, Numbering, NEW c \in Opens, NEW y \in Conns,
           Side(y) = Peer(Side(c)), sid[y] = sid[c], sid[c] # 0
    PROVE  y \in Dials /\ opener[c] = "done"
  <1>0. Side(c) \in Endpoints /\ Peer(Peer(Side(c))) = Side(c) /\ c \in Conns
    BY SideType, PeerType DEF Conns
  <1>1. OwnParity(Side(c), sid[c])
    BY DEF Numbering, Allocated, Issued
  <1>2. y \in Dials
    BY <1>0, <1>1, ParitiesDiffer DEF Numbering, Allocated, Issued, Conns
  <1>3. PICK b \in Opens : Side(b) = Side(c) /\ sid[b] = sid[c] /\ opener[b] = "done"
    BY <1>0, <1>2, AcceptedFor
  <1>4. b = c
    BY <1>0, <1>3, IdsUnique DEF Conns
  <1> QED BY <1>2, <1>3, <1>4

OpenersKnown ==
    \A c \in Opens : \A y \in Conns :
        Side(y) = Peer(Side(c)) /\ sid[y] = sid[c] /\ sid[c] # 0 =>
            y \in Dials /\ opener[c] = "done"

\* An entry of a stream that has its id already is not new.
LEMMA EntryStays ==
    ASSUME TypeOK, Registered, Numbering, [Next]_vars, NEW c \in Conns,
           NEW i \in Ids, sid[c] = i, map'[Side(c)][i] = c
    PROVE  map[Side(c)][i] = c
  <1>0. Side(c) \in Endpoints /\ c # NoConn /\ i # 0
    BY SideType, ConnsAssumption DEF Ids
  <1>1. map \in [Endpoints -> [Ids -> Conns \cup {NoConn}]]
    BY DEF TypeOK
  <1>2. ASSUME NEW b \in Opens, OpenRemoteStream(b) PROVE map[Side(c)][i] = c
    <2>1. PICK n \in Ids : Register(Side(b), n, b)
      BY <1>2 DEF OpenRemoteStream, NextIds, FreeFrom
    <2>2. b # c
      BY <1>0, <1>2 DEF OpenRemoteStream, Numbering, Allocated, Issued
    <2> QED BY <1>0, <1>1, <2>1, <2>2, SideType DEF Register
  <1>3. ASSUME NEW d \in Dials, AcceptInsert(d) PROVE map[Side(c)][i] = c
    <2>1. PICK n \in {acc[d].id} : n = acc[d].id
      OBVIOUS
    <2>2. Register(Side(d), n, d) \/ map' = map
      BY <1>3, <2>1 DEF AcceptInsert
    <2>3. d # c /\ Side(d) \in Endpoints
      BY <1>0, <1>3, SideType DEF AcceptInsert, Numbering, Accepted, Early
    <2>4. CASE Register(Side(d), n, d)
      BY <1>0, <1>1, <2>3, <2>4 DEF Register
    <2> QED BY <2>2, <2>4
  <1>4. CASE Quiet
    BY <1>0, <1>4 DEF Quiet
  <1> QED BY <1>2, <1>3, <1>4, QuietSteps

\* Where an OPEN_ACK goes: it moves up, or it opens the stream it is for.
LEMMA AckMoves ==
    ASSUME TypeOK, Registered, [Next]_vars, NEW c \in Opens, sid[c] # 0,
           NEW p \in Endpoints, p = Peer(Side(c)), map[Side(c)][sid[c]] = c,
           state'[c].pending, NEW s \in {0, 1}, Shifted(p, s), NEW j, AckAt(p, j, sid[c])
    PROVE  /\ j > s
           /\ \/ writer'[p] = "done"
              \/ j - s \in DOMAIN wire'[p] /\ wire'[p][j - s] = wire[p][j]
  <1>0. Side(c) \in Endpoints /\ Peer(p) = Side(c) /\ c \in Conns /\ c # NoConn
    BY SideType, PeerType, ConnsAssumption DEF Conns
  <1>1. wire[p] \in Seq(Frames) /\ DOMAIN wire[p] \subseteq Nat \ {0}
    BY WireType, LenProperties
  <1>2. ASSUME s = 1, j = 1 PROVE FALSE
    <2>1. Takes(Side(c)) /\ Head(net[Side(c)]) = wire[p][1]
      BY <1>0, <1>2 DEF Shifted
    <2>2. Head(net[Side(c)]).type = "OPEN_ACK" /\ Head(net[Side(c)]).id = sid[c]
      BY <1>2, <2>1 DEF AckAt
    <2>3. HandleOpenAck(Side(c))
      BY <2>1, <2>2 DEF Takes, HandleOpen, HandleNack, DispatchData, DispatchFin, DispatchRst,
                        DispatchUnknown, Receiving
    <2>4. Target(Side(c)) = c
      BY <1>0, <2>2 DEF Target, TypeOK
    <2>5. state' = SetOpen(state, c)
      BY <1>0, <2>3, <2>4 DEF HandleOpenAck
    <2> QED BY <1>0, <2>5 DEF SetOpen, TypeOK, StreamStates
  <1>3. j > s
    BY <1>1, <1>2 DEF AckAt
  <1> QED BY <1>3 DEF Shifted, AckAt

LEMMA OpenersKnownNext == TypeOK' /\ Numbering' => OpenersKnown'
  <1>1. TypeOK /\ Numbering => OpenersKnown
    BY OpenerSent DEF OpenersKnown
  <1> QED BY <1>1, PTL

LEMMA AckFirstStep ==
    /\ TypeOK /\ TypeOK' /\ RepliesReset /\ Registered /\ Numbering /\ Numbering'
    /\ Talks /\ Talks' /\ AckFirst /\ [Next]_vars
    => AckFirst'
  <1> SUFFICES ASSUME TypeOK, TypeOK', RepliesReset, Registered, Numbering, Numbering',
                      Talks, Talks', AckFirst, [Next]_vars,
                      NEW c \in Opens, NEW p \in Endpoints, NEW i, p = Peer(Side(c)),
                      i = sid'[c], i # 0, map'[Side(c)][i] = c, state'[c].pending
               PROVE  /\ \A d \in Dials : Side(d) = p /\ sid'[d] = i /\ pump'[d] # "none" =>
                            writer'[p] = "done" \/ \E j \in DOMAIN wire'[p] : AckAt(p, j, i)'
                      /\ \A k \in DOMAIN wire'[p] :
                            wire'[p][k].type \in {"DATA", "FIN"} /\ wire'[p][k].id = i =>
                                \E j \in DOMAIN wire'[p] : AckAt(p, j, i)' /\ j < k
    BY DEF AckFirst, AckBefore, AckAt, Pumping
  <1>0. /\ c \in Conns /\ Side(c) \in Endpoints /\ Peer(p) = Side(c) /\ i \in Ids
        /\ Opens \subseteq Conns /\ Dials \subseteq Conns
    BY SideType, PeerType DEF TypeOK, Conns
  <1>1. PICK s \in {0, 1} : Shifted(p, s)
    BY WireShifts
  <1>2. /\ wire'[p] \in Seq(Frames) /\ DOMAIN wire'[p] = 1..Len(wire'[p]) /\ Len(wire'[p]) \in Nat
        /\ wire[p] \in Seq(Frames) /\ DOMAIN wire[p] \subseteq Nat \ {0}
    BY WireType, WireTypeNext, LenProperties
  \* Unless its OPEN is out, nobody at the other side has the stream's id.
  <1>3. ASSUME NEW y \in Conns, Side(y) = p, sid'[y] = i
        PROVE  opener'[c] = "done" /\ y \in Dials
    BY <1>0, <1>3, OpenersKnownNext DEF OpenersKnown
  <1>4. ASSUME opener'[c] = "done"
        PROVE  /\ sid[c] = i /\ map[Side(c)][i] = c /\ state[c].pending
    <2>1. ~OpenRemoteStream(c)
      BY <1>4 DEF OpenRemoteStream, TypeOK
    <2>2. sid[c] = i
      BY <2>1, OpenerMoves DEF OpenSent
    <2> QED BY <1>0, <2>2, EntryStays, Advances DEF StateAdvances
  <1>5. ASSUME NEW d \in Dials, Side(d) = p, sid'[d] = i, pump'[d] # "none"
        PROVE  writer'[p] = "done" \/ \E j \in DOMAIN wire'[p] : AckAt(p, j, i)'
    <2>1. opener'[c] = "done" /\ sid[c] = i /\ map[Side(c)][i] = c /\ state[c].pending
      BY <1>0, <1>3, <1>4, <1>5
    <2>2. CASE Pumping(d)
      <3>1. sid[d] = i
        BY <1>0, <1>5, <2>2, IdStays DEF Talks
      <3>2. CASE writer[p] = "done"
        BY <3>2, WriterEnds
      <3>3. CASE \E j \in DOMAIN wire[p] : AckAt(p, j, i)
        <4>1. PICK j \in DOMAIN wire[p] : AckAt(p, j, i)
          BY <3>3
        <4>2. writer'[p] = "done" \/ (j - s \in DOMAIN wire'[p] /\ wire'[p][j - s] = wire[p][j])
          BY <1>1, <2>1, <4>1, AckMoves
        <4> QED BY <4>1, <4>2 DEF AckAt
      <3> QED BY <1>5, <2>1, <2>2, <3>1, <3>2, <3>3 DEF AckFirst
    <2>3. CASE AcceptAck(d) /\ writer[p] # "done"
      <3>1. SendOk(p, NewOpenAck(sid[d])) /\ net' = net /\ sid' = sid
        BY <1>5, <2>3 DEF AcceptAck, SendErr, SendFails
      <3>2. NewOpenAck(i) \in Frames
        BY <1>0, FrameType
      <3>3. wire'[p] = Append(wire[p], NewOpenAck(i))
        BY <1>5, <3>1, <3>2, SendWire
      <3>4. /\ Len(wire'[p]) = Len(wire[p]) + 1 /\ wire'[p][Len(wire[p]) + 1] = NewOpenAck(i)
            /\ Len(wire[p]) \in Nat
        BY <1>2, <3>2, <3>3, AppendProperties, LenProperties
      <3>5. PICK n \in {Len(wire[p]) + 1} : n = Len(wire[p]) + 1
        OBVIOUS
      <3>6. n \in DOMAIN wire'[p] /\ wire'[p][n] = NewOpenAck(i)
        BY <1>2, <3>4, <3>5
      <3>7. AckAt(p, n, i)'
        BY <3>6, FrameKinds DEF AckAt
      <3> QED BY <3>6, <3>7
    <2>4. ASSUME NEW e \in Endpoints, HandleOpenAck(e), Target(e) = d PROVE FALSE
      BY <1>0, <2>4, AckTarget, ConnsAssumption
    <2> QED BY <1>0, <1>5, <2>2, <2>3, <2>4, PumpMoves
  <1>6. ASSUME NEW k \in DOMAIN wire'[p], wire'[p][k].type \in {"DATA", "FIN"},
               wire'[p][k].id = i
        PROVE  \E j \in DOMAIN wire'[p] : AckAt(p, j, i)' /\ j < k
    <2>1. \E y \in Conns : Side(y) = p /\ sid'[y] = i
      BY <1>6 DEF Talks
    <2>2. opener'[c] = "done" /\ sid[c] = i /\ map[Side(c)][i] = c /\ state[c].pending
      BY <1>3, <1>4, <2>1
    <2>3. CASE k + s \in DOMAIN wire[p] /\ wire'[p][k] = wire[p][k + s]
      <3>1. PICK j \in DOMAIN wire[p] : AckAt(p, j, i) /\ j < k + s
        BY <1>0, <1>6, <2>2, <2>3 DEF AckFirst, AckBefore
      <3>2. j > s
        BY <1>1, <2>2, <3>1, AckMoves
      <3>3. j - s \in DOMAIN wire'[p] /\ j - s < k /\ (j - s) + s = j /\ j - s # Len(wire'[p])
        BY <1>2, <3>1, <3>2
      <3>4. wire'[p][j - s] = wire[p][j]
        BY <1>1, <3>3 DEF Shifted
      <3> QED BY <3>1, <3>3, <3>4 DEF AckAt
    <2>4. CASE k = Len(wire'[p]) /\ s = 0 /\ Says(p, wire'[p][k])
      <3>1. PICK y \in Conns : /\ Side(y) = p /\ (PumpData(y) \/ PumpFin(y))
                               /\ wire'[p][k].id = sid[y]
        BY <1>6, <2>4, SaidKinds
      <3>2. Pumping(y) /\ sid' = sid /\ writer' = writer /\ writer[p] # "done"
        BY <2>4, <3>1 DEF PumpData, PumpFin, Pumping, Says
      <3>3. y \in Dials /\ sid[y] = i
        BY <1>3, <1>6, <3>1, <3>2
      <3>4. PICK j \in DOMAIN wire[p] : AckAt(p, j, i)
        BY <2>2, <3>1, <3>2, <3>3 DEF AckFirst
      <3>5. j - s \in DOMAIN wire'[p] /\ wire'[p][j - s] = wire[p][j]
        BY <1>1, <2>2, <3>2, <3>4, AckMoves
      <3>6. j \in DOMAIN wire'[p] /\ wire'[p][j] = wire[p][j] /\ j # k
        BY <1>2, <1>6, <2>4, <3>4, <3>5 DEF AckAt
      <3> QED BY <1>2, <2>4, <3>4, <3>6 DEF AckAt
    <2>5. wire'[p][k] # CloseFrame
      BY <1>6, FrameKinds
    <2> QED BY <1>1, <2>3, <2>4, <2>5 DEF Shifted
  <1> QED BY <1>5, <1>6

LEMMA AckFirstHolds == Spec => []AckFirst
  <1>1. Init => AckFirst
    BY DEF Init, AckFirst, Conns
  <1>2. /\ TypeOK /\ TypeOK' /\ RepliesReset /\ Registered /\ Numbering /\ Numbering'
        /\ Talks /\ Talks' /\ AckFirst /\ [Next]_vars
        => AckFirst'
    BY AckFirstStep
  <1> QED
    BY <1>1, <1>2, TypeCorrect, RepliesAreResets, RegistrationCorrect, NumberingHolds,
       TalksHolds, PTL
    DEF Spec

\* The opener of a stream is told that it is open before it is given the
\* stream's first bytes or its end, whatever the two sides' tasks do.
THEOREM AckBeforeData == Spec => []AckPrecedesData
  <1>1. TypeOK /\ Registered /\ AckFirst => AckPrecedesData
    <2> SUFFICES ASSUME TypeOK, Registered, AckFirst, NEW e \in Endpoints, net[e] # <<>>,
                        Head(net[e]).type \in {"DATA", "FIN"}, Target(e) \in Opens,
                        state[Target(e)].pending
                 PROVE  FALSE
      BY DEF AckPrecedesData, TypeOK, StreamStates, Conns
    <2> DEFINE i == Head(net[e]).id
               p == Peer(e)
    <2>1. p \in Endpoints /\ 1 \in DOMAIN wire[p] /\ wire[p][1] = Head(net[e])
      BY PeerType, HeadOfWire
    <2>2. PICK c \in Opens : c = Target(e) /\ c # NoConn
      BY ConnsAssumption DEF Conns
    <2>3. i \in Ids /\ map[e][i] = c /\ Side(c) = e /\ sid[c] = i /\ i # 0
      BY <2>2 DEF Target, Registered, Ids
    <2>4. AckBefore(p, 1, i)
      BY <2>1, <2>2, <2>3 DEF AckFirst
    <2>5. wire[p] \in Seq(Frames) /\ DOMAIN wire[p] \subseteq Nat \ {0}
      BY <2>1, WireType, LenProperties
    <2> QED BY <2>4, <2>5 DEF AckBefore, AckAt
  <1> QED BY <1>1, TypeCorrect, RegistrationCorrect, AckFirstHolds, PTL

----------------------------------------------------------------------------
(* Delivery.  The DATA frames of a stream are numbered as they are read.    *)
(* On the wire they ascend, and together with what the other side has       *)
(* written to its local connection nothing is missing, for as long as the   *)
(* stream is registered there, its write half is open and no failed write   *)
(* is about to close it.                                                   *)

DataAt(e, k, i) == k \in DOMAIN wire[e] /\ wire[e][k].type = "DATA" /\ wire[e][k].id = i

Num(e, k) == wire[e][k].body[2]

\* The chunks of y's local connection that its pump has passed on.
Passed(y) == IF pump[y] = "data" THEN nread[y] - 1 ELSE nread[y]

Ascending ==
    \A y \in Conns :
        /\ pump[y] = "none" => nread[y] = 0
        /\ pump[y] = "data" => nread[y] > 0
        /\ \A e \in Endpoints : e = Side(y) /\ sid[y] # 0 =>
              \A k \in DOMAIN wire[e] : DataAt(e, k, sid[y]) =>
                  /\ wire[e][k].body = <<y, Num(e, k)>>
                  /\ Num(e, k) \in 1..Passed(y)
                  /\ \A j \in DOMAIN wire[e] :
                        DataAt(e, j, sid[y]) /\ j < k => Num(e, j) < Num(e, k)

Partners(x, y) == sid[x] # 0 /\ sid[x] = sid[y] /\ Side(y) = Peer(Side(x))

\* Endpoint r took a frame of x that was not written, or takes no more frames.
LosesChunk(r, x) == Dropped(r) \/ (rd[r].pc = "send" /\ rd[r].conn = x)

Receptive(x) == map[Side(x)][sid[x]] = x /\ wopen[x] /\ ~LosesChunk(Side(x), x)

\* With i the id of y and n the bytes its partner has: no frame is missing.
NoGap(e, y, i, n) ==
    /\ \A k \in DOMAIN wire[e] : DataAt(e, k, i) =>
          /\ Num(e, k) > n
          /\ \A m \in (n + 1)..(Num(e, k) - 1) :
                \E j \in DOMAIN wire[e] : DataAt(e, j, i) /\ j < k /\ Num(e, j) = m
    /\ n <= Passed(y)
    /\ writer[e] # "done" =>
          \A m \in (n + 1)..Passed(y) :
              \E j \in DOMAIN wire[e] : DataAt(e, j, i) /\ Num(e, j) = m

Gapless ==
    \A x, y \in Conns, e \in Endpoints, i \in Ids, n \in Nat :
        /\ Partners(x, y) /\ Receptive(x)
        /\ e = Side(y) /\ i = sid[y] /\ n = Len(got[x])
        => NoGap(e, y, i, n)

Delivered ==
    \A x \in Conns : got[x] # <<>> =>
        sid[x] # 0 /\ \E y \in Conns : /\ Partners(x, y)
                                       /\ \A n \in DOMAIN got[x] : got[x][n] = <<y, n>>

\* A DATA frame on the wire was there before, or its pump has just sent it.
LEMMA DataMoves ==
    ASSUME TypeOK, NEW e \in Endpoints, NEW s \in {0, 1}, Shifted(e, s),
           NEW k, NEW i, DataAt(e, k, i)'
    PROVE  \/ DataAt(e, k + s, i) /\ wire'[e][k] = wire[e][k + s]
           \/ /\ s = 0 /\ k = Len(wire'[e]) /\ writer[e] # "done"
              /\ \E z \in Conns : /\ Side(z) = e /\ PumpData(z) /\ sid[z] = i
                                  /\ wire'[e][k].body = <<z, nread[z]>>
  <1>1. k \in DOMAIN wire'[e] /\ wire'[e][k].type = "DATA" /\ wire'[e][k].id = i
    BY DEF DataAt
  <1>2. wire'[e][k] # CloseFrame
    BY <1>1, FrameKinds
  <1>3. CASE k + s \in DOMAIN wire[e] /\ wire'[e][k] = wire[e][k + s]
    BY <1>1, <1>3 DEF DataAt
  <1>4. CASE s = 0 /\ k = Len(wire'[e]) /\ Says(e, wire'[e][k])
    <2>1. PICK f \in {wire'[e][k]} : f = wire'[e][k] /\ Says(e, f) /\ f.type = "DATA"
      BY <1>1, <1>4
    <2>2. PICK z \in Conns : Side(z) = e /\ PumpData(z) /\ f.id = sid[z] /\ f.body = <<z,
                                                                                       nread[z]>>
      BY <2>1, SaidKinds
    <2>3. writer[e] # "done"
      BY <2>1 DEF Says
    <2> QED BY <1>1, <1>4, <2>1, <2>2, <2>3
  <1> QED BY <1>1, <1>2, <1>3, <1>4 DEF Shifted

\* A DATA frame that is not taken stays while the writer runs, and stays in
\* any case when a later one does.
LEMMA DataStays ==
    ASSUME TypeOK, TypeOK', NEW e \in Endpoints, NEW s \in {0, 1}, Shifted(e, s),
           NEW j, NEW i, DataAt(e, j, i), j > s,
           writer'[e] # "done" \/ \E k \in DOMAIN wire'[e] : j - s < k
    PROVE  DataAt(e, j - s, i)' /\ wire'[e][j - s] = wire[e][j]
  <1>0. j \in DOMAIN wire[e] /\ wire[e][j].type = "DATA" /\ wire[e][j].id = i
    BY DEF DataAt
  <1>1. /\ wire'[e] \in Seq(Frames) /\ DOMAIN wire'[e] = 1..Len(wire'[e]) /\ Len(wire'[e]) \in Nat
        /\ wire[e] \in Seq(Frames) /\ DOMAIN wire[e] \subseteq Nat \ {0}
    BY WireType, WireTypeNext, LenProperties
  <1>2. j - s \in DOMAIN wire'[e] /\ wire'[e][j - s] = wire[e][j]
    <2>1. CASE writer'[e] # "done"
      BY <1>0, <2>1 DEF Shifted
    <2>2. ASSUME NEW k \in DOMAIN wire'[e], j - s < k
          PROVE  j - s \in DOMAIN wire'[e] /\ wire'[e][j - s] = wire[e][j]
      <3>1. j - s \in DOMAIN wire'[e] /\ j - s # Len(wire'[e]) /\ (j - s) + s = j
        BY <1>0, <1>1, <2>2
      <3> QED BY <3>1 DEF Shifted
    <2> QED BY <2>1, <2>2
  <1>3. PICK n \in {j - s} : n = j - s
    OBVIOUS
  <1>4. n \in DOMAIN wire'[e] /\ wire'[e][n].type = "DATA" /\ wire'[e][n].id = i
    BY <1>0, <1>2, <1>3
  <1>5. DataAt(e, n, i)'
    BY <1>4 DEF DataAt
  <1> QED BY <1>2, <1>3, <1>5

\* What a step does to the chunks a pump has read and passed on.
LEMMA PumpCounts ==
    ASSUME TypeOK, Talks, [Next]_vars, NEW y \in Conns
    PROVE  \/ nread'[y] = nread[y] /\ (pump'[y] = pump[y] \/ (pump[y] # "data" /\ pump'[y] # "data"))
           \/ PumpRead(y) \/ PumpData(y)
  <1> DEFINE Same == \/ pump'[y] = pump[y] /\ nread'[y] = nread[y]
                     \/ nread'[y] = nread[y] /\ pump[y] # "data" /\ pump'[y] # "data"
  <1>0. pump \in [Conns -> PumpPcs] /\ nread \in [Conns -> 0..MaxChunks]
    BY DEF TypeOK
  <1>1. ASSUME NEW c \in Opens, OpenerStep(c) PROVE Same
    BY <1>1 DEF OpenerStep, OpenRemoteStream, OpenSent
  <1>2. ASSUME NEW d \in Dials, AcceptStep(d), ~AcceptAck(d) PROVE Same
    BY <1>2 DEF AcceptStep, AcceptCheck, AcceptDial, AcceptWait, AcceptInsert, AcceptNack,
       streamVars
  <1>3. ASSUME NEW c \in Conns, PumpStep(c), ~PumpRead(y), ~PumpData(y) PROVE Same
    BY <1>0, <1>3 DEF PumpStep, PumpRead, PumpCancelled, PumpData, PumpFin, PumpEof, PumpRst,
       PumpGoto
  <1>4. ASSUME NEW e \in Endpoints, HandleOpenAck(e) PROVE Same
    <2>1. nread' = nread
      BY <1>4 DEF HandleOpenAck
    <2>2. pump'[y] = pump[y] \/ (pump[y] # "data" /\ pump'[y] # "data")
      BY <1>0, <1>4 DEF HandleOpenAck, PumpGoto
    <2> QED BY <2>1, <2>2
  <1>5. ASSUME NEW e \in Endpoints, ReaderStep(e), ~HandleOpenAck(e) PROVE Same
    BY <1>5 DEF ReaderStep, HandleOpen, HandleNack, DispatchData, DispatchFin, DispatchRst,
                DispatchUnknown, ReaderReply, ReaderStops, RstStream, RunReturns, streamVars
  <1>6. ASSUME NEW e \in Endpoints, LocalWritten(e) \/ WriterStep(e) \/ Cleanup(e) \/ Cancel(e)
        PROVE  Same
    BY <1>6 DEF LocalWritten, WriterStep, WriterSend, WriterStops, WriterCloses, Cleanup, Cancel,
                streamVars
  <1>7. CASE AgentCancels \/ Disconnect \/ UNCHANGED vars
    BY <1>7 DEF AgentCancels, Disconnect, vars, streamVars
  <1>8. ASSUME NEW d \in Dials, AcceptAck(d) PROVE Same
    <2>1. pump[d] = "none"
      BY <1>8 DEF Talks, AcceptAck, Pumping
    <2> QED BY <1>0, <1>8, <2>1 DEF AcceptAck, PumpGoto
  <1> QED BY <1>1, <1>2, <1>3, <1>4, <1>5, <1>6, <1>7, <1>8 DEF Next, SessionNext, EndNext

AllUnique ==
    \A x, y \in Conns : Side(x) = Side(y) /\ sid[x] = sid[y] /\ sid[x] # 0 => x = y

LEMMA IdsUniqueNext == TypeOK' /\ Numbering' => AllUnique'
  <1>1. TypeOK /\ Numbering => AllUnique
    BY IdsUnique DEF AllUnique
  <1> QED BY <1>1, PTL

\* What a pump has passed on grows by one, in PumpData, or stays the same.
LEMMA SentMoves ==
    ASSUME TypeOK, TypeOK', Talks, Ascending, [Next]_vars, NEW y \in Conns
    PROVE  /\ Passed(y) \in Nat /\ Passed(y)' \in Nat
           /\ \/ Passed(y)' = Passed(y)
              \/ PumpData(y) /\ Passed(y)' = Passed(y) + 1 /\ Passed(y)' = nread[y]
           /\ pump'[y] = "none" => nread'[y] = 0
           /\ pump'[y] = "data" => nread'[y] > 0
           /\ PumpData(y) => Passed(y) + 1 = nread[y] /\ Passed(y)' = nread[y]
  <1>0. /\ nread[y] \in Nat /\ nread'[y] \in Nat /\ pump[y] \in PumpPcs
        /\ pump[y] = "data" => nread[y] > 0
        /\ pump[y] = "none" => nread[y] = 0
        /\ pump \in [Conns -> PumpPcs] /\ nread \in [Conns -> 0..MaxChunks]
    <2>1. pump \in [Conns -> PumpPcs] /\ nread \in [Conns -> 0..MaxChunks]
      BY DEF TypeOK
    <2>2. nread'[y] \in 0..MaxChunks
      BY DEF TypeOK
    <2>3. 0..MaxChunks \subseteq Nat
      BY BoundsAssumption
    <2> QED BY <2>1, <2>2, <2>3 DEF Ascending
  <1>1. pump'[y] = "none" => pump[y] = "none"
    BY PumpMoves DEF Pumping
  <1>2. CASE nread'[y] = nread[y] /\ (pump'[y] = pump[y] \/ (pump[y] # "data" /\ pump'[y] # "data"))
    <2>1. ~PumpData(y)
      BY <1>0, <1>2 DEF PumpData, PumpGoto
    <2> QED BY <1>0, <1>1, <1>2, <2>1 DEF Passed
  <1>3. CASE PumpRead(y)
    <2>1. pump[y] = "read" /\ \/ nread'[y] = nread[y] + 1 /\ pump'[y] = "data"
                              \/ nread'[y] = nread[y] /\ pump'[y] \in {"fin", "rst"}
      BY <1>0, <1>3 DEF PumpRead, PumpGoto
    <2>2. ~PumpData(y)
      BY <2>1 DEF PumpData
    <2> QED BY <1>0, <2>1, <2>2 DEF Passed
  <1>4. CASE PumpData(y)
    <2>1. pump[y] = "data" /\ nread' = nread /\ pump'[y] \in {"read", "done"}
      BY <1>0, <1>4 DEF PumpData, PumpGoto
    <2>2. nread[y] > 0 /\ nread'[y] = nread[y] /\ pump'[y] # "data" /\ pump'[y] # "none"
      BY <1>0, <2>1
    <2>3. Passed(y) = nread[y] - 1 /\ Passed(y)' = nread[y]
      BY <2>1, <2>2 DEF Passed
    <2> QED BY <1>0, <1>4, <2>2, <2>3
  <1> QED BY <1>2, <1>3, <1>4, PumpCounts

\* A stream that got its id in this step has no frame on the wire.
LEMMA NoIdNoData ==
    ASSUME TypeOK, TypeOK', Numbering, Numbering', Talks, Talks', [Next]_vars,
           NEW y \in Conns, sid[y] = 0, NEW i, i = sid'[y], i # 0, NEW e, e = Side(y), NEW k
    PROVE  ~DataAt(e, k, i)' /\ pump[y] = "none" /\ pump'[y] = "none"
  <1>1. pump[y] = "none"
    BY DEF Talks, Pumping, Conns
  <1>2. pump'[y] = "none"
    <2>1. ASSUME y \in Dials, AcceptAck(y) PROVE FALSE
      BY <2>1 DEF AcceptAck
    <2>2. ASSUME NEW x \in Endpoints, HandleOpenAck(x) PROVE FALSE
      BY <2>2 DEF HandleOpenAck
    <2> QED BY <1>1, <2>1, <2>2, PumpMoves DEF Pumping
  <1>3. ASSUME DataAt(e, k, i)' PROVE FALSE
    <2>1. PICK z \in Conns : Side(z) = e /\ sid'[z] = i /\ pump'[z] # "none"
      BY <1>3, SideType DEF DataAt, Talks, Pumping
    <2>2. z = y
      BY <2>1, IdsUniqueNext DEF AllUnique
    <2> QED BY <1>2, <2>1, <2>2
  <1> QED BY <1>1, <1>2, <1>3

LEMMA AscendingStep ==
    /\ TypeOK /\ TypeOK' /\ RepliesReset /\ Numbering /\ Numbering' /\ Talks /\ Talks'
    /\ Ascending /\ [Next]_vars
    => Ascending'
  <1> SUFFICES ASSUME TypeOK, TypeOK', RepliesReset, Numbering, Numbering', Talks, Talks',
                      Ascending, [Next]_vars, NEW y \in Conns, NEW e \in Endpoints
               PROVE  /\ pump'[y] = "none" => nread'[y] = 0
                      /\ pump'[y] = "data" => nread'[y] > 0
                      /\ e = Side(y) /\ sid'[y] # 0 =>
                            \A k \in DOMAIN wire'[e] : DataAt(e, k, sid[y])' =>
                                /\ wire'[e][k].body = <<y, Num(e, k)'>>
                                /\ Num(e, k)' \in 1..Passed(y)'
                                /\ \A j \in DOMAIN wire'[e] :
                                      DataAt(e, j, sid[y])' /\ j < k => Num(e, j)' < Num(e, k)'
    BY SideType DEF Ascending
  <1>1. SUFFICES ASSUME e = Side(y), NEW i, i = sid'[y], i # 0,
                        NEW k \in DOMAIN wire'[e], DataAt(e, k, i)'
                 PROVE  /\ wire'[e][k].body = <<y, Num(e, k)'>>
                        /\ Num(e, k)' \in 1..Passed(y)'
                        /\ \A j \in DOMAIN wire'[e] :
                              DataAt(e, j, i)' /\ j < k => Num(e, j)' < Num(e, k)'
    BY SentMoves DEF DataAt
  <1>2. sid[y] # 0 /\ sid[y] = i
    BY <1>1, NoIdNoData, IdStays
  <1>3. PICK s \in {0, 1} : Shifted(e, s)
    BY WireShifts
  <1>4. /\ DOMAIN wire'[e] = 1..Len(wire'[e]) /\ Len(wire'[e]) \in Nat
        /\ Passed(y) \in Nat /\ Passed(y)' \in Nat /\ Passed(y) <= Passed(y)'
    BY WireTypeNext, LenProperties, SentMoves
  \* The frames that were there.
  <1>5. ASSUME NEW j, DataAt(e, j + s, i), wire'[e][j] = wire[e][j + s]
        PROVE  /\ wire'[e][j].body = <<y, Num(e, j)'>> /\ Num(e, j)' = Num(e, j + s)
               /\ Num(e, j)' \in 1..Passed(y)
    BY <1>1, <1>2, <1>5 DEF Ascending, Num, DataAt
  <1>6. ASSUME NEW j \in DOMAIN wire'[e], DataAt(e, j, i)', j < k
        PROVE  DataAt(e, j + s, i) /\ wire'[e][j] = wire[e][j + s]
    BY <1>3, <1>4, <1>6, DataMoves
  <1>7. CASE DataAt(e, k + s, i) /\ wire'[e][k] = wire[e][k + s]
    <2>1. ASSUME NEW j \in DOMAIN wire'[e], DataAt(e, j, i)', j < k PROVE Num(e, j)' < Num(e, k)'
      <3>1. DataAt(e, j + s, i) /\ wire'[e][j] = wire[e][j + s] /\ j + s < k + s
        BY <1>4, <1>6, <2>1
      <3>2. Num(e, j + s) < Num(e, k + s)
        BY <1>1, <1>2, <1>7, <3>1 DEF Ascending, DataAt
      <3> QED BY <1>5, <1>7, <3>1, <3>2
    <2> QED BY <1>4, <1>5, <1>7, <2>1
  <1>8. CASE \E z \in Conns : /\ Side(z) = e /\ PumpData(z) /\ sid[z] = i
                              /\ wire'[e][k].body = <<z, nread[z]>>
    <2>1. PumpData(y) /\ wire'[e][k].body = <<y, nread[y]>>
      BY <1>1, <1>2, <1>8, IdsUnique
    <2>2. Num(e, k)' = nread[y] /\ Passed(y) + 1 = nread[y] /\ Passed(y)' = nread[y]
      BY <2>1, SentMoves DEF Num
    <2>3. ASSUME NEW j \in DOMAIN wire'[e], DataAt(e, j, i)', j < k PROVE Num(e, j)' < Num(e, k)'
      BY <1>4, <1>5, <1>6, <2>2, <2>3
    <2> QED BY <1>4, <2>1, <2>2, <2>3
  <1> QED BY <1>1, <1>3, <1>7, <1>8, DataMoves

LEMMA TargetIs ==
    ASSUME TypeOK, Registered, NEW e \in Endpoints, net[e] # <<>>, Target(e) # NoConn
    PROVE  /\ Target(e) \in Conns /\ Side(Target(e)) = e
           /\ Head(net[e]).id \in Ids /\ sid[Target(e)] = Head(net[e]).id
           /\ map[e][sid[Target(e)]] = Target(e)
  <1>1. PICK i \in {Head(net[e]).id} : i = Head(net[e]).id
    OBVIOUS
  <1>2. i \in Ids /\ Target(e) = map[e][i]
    BY <1>1 DEF Target
  <1>3. map[e][i] \in Conns /\ Side(map[e][i]) = e /\ sid[map[e][i]] = i
    BY <1>2 DEF TypeOK, Registered
  <1> QED BY <1>1, <1>2, <1>3

\* What a local connection is given is the body of a DATA frame for it.
LEMMA GotMoves ==
    ASSUME TypeOK, Registered, [Next]_vars, NEW x \in Conns, got'[x] # got[x]
    PROVE  /\ DispatchData(Side(x)) /\ Target(Side(x)) = x /\ wopen[x]
           /\ got'[x] = Append(got[x], Head(net[Side(x)]).body)
  <1>1. \E e \in Endpoints : DispatchData(e)
    <2>1. ASSUME NEW c \in Opens, OpenerStep(c) PROVE got' = got
      BY <2>1 DEF OpenerStep, OpenRemoteStream, OpenSent
    <2>2. ASSUME NEW d \in Dials, AcceptStep(d) PROVE got' = got
      BY <2>2 DEF AcceptStep, AcceptCheck, AcceptDial, AcceptWait, AcceptInsert, AcceptAck,
                  AcceptNack, streamVars
    <2>3. ASSUME NEW c \in Conns, PumpStep(c) PROVE got' = got
      BY <2>3 DEF PumpStep, PumpRead, PumpCancelled, PumpData, PumpFin, PumpEof, PumpRst
    <2>4. ASSUME NEW e \in Endpoints, ReaderStep(e), ~DispatchData(e) PROVE got' = got
      BY <2>4 DEF ReaderStep, HandleOpen, HandleOpenAck, HandleNack, DispatchFin, DispatchRst,
                  DispatchUnknown, ReaderReply, ReaderStops, RstStream, RunReturns, streamVars
    <2>5. ASSUME NEW e \in Endpoints,
                 LocalWritten(e) \/ WriterStep(e) \/ Cleanup(e) \/ Cancel(e)
          PROVE  got' = got
      BY <2>5 DEF LocalWritten, WriterStep, WriterSend, WriterStops, WriterCloses, Cleanup,
         Cancel,
                  streamVars
    <2>6. CASE AgentCancels \/ Disconnect \/ UNCHANGED vars
      BY <2>6 DEF AgentCancels, Disconnect, vars, streamVars
    <2> QED BY <2>1, <2>2, <2>3, <2>4, <2>5, <2>6 DEF Next, SessionNext, EndNext
  <1>2. PICK e \in Endpoints : DispatchData(e)
    BY <1>1
  <1>3. PICK c \in Conns : c = Target(e) /\ Side(c) = e
    BY <1>2, TargetIs DEF DispatchData, Receiving
  <1>4. wopen[c] /\ got' = [got EXCEPT ![c] = Append(@, Head(net[e]).body)]
    BY <1>2, <1>3 DEF DispatchData
  <1>5. x = c /\ got'[x] = Append(got[x], Head(net[e]).body)
    BY <1>4 DEF TypeOK
  <1> QED BY <1>2, <1>3, <1>4, <1>5

\* The DATA frame that is written next is the one after the last written.
LEMMA NextChunk ==
    ASSUME TypeOK, Registered, Numbering, Talks, Ascending, Gapless, Delivered,
           NEW x \in Conns, DispatchData(Side(x)), Target(Side(x)) = x, wopen[x]
    PROVE  \E y \in Conns : /\ Partners(x, y) /\ DataAt(Side(y), 1, sid[y])
                            /\ Head(net[Side(x)]).body = <<y, Len(got[x]) + 1>>
                            /\ Num(Side(y), 1) = Len(got[x]) + 1
  <1>1. PICK e \in Endpoints : e = Side(x)
    BY SideType
  <1>2. PICK p \in Endpoints : p = Peer(e) /\ Peer(p) = e
    BY PeerType
  <1>3. PICK i \in Ids : i = sid[x] /\ i # 0 /\ Head(net[e]).id = i /\ map[e][i] = x
    BY <1>1, TargetIs, ConnsAssumption DEF DispatchData, Receiving, Ids
  <1>4. /\ 1 \in DOMAIN wire[p] /\ wire[p][1] = Head(net[e]) /\ Head(net[e]).type = "DATA"
        /\ rd[e].pc = "recv"
    BY <1>1, <1>2, HeadOfWire DEF DispatchData, Receiving
  <1>5. PICK y \in Conns : Side(y) = p /\ sid[y] = i
    BY <1>3, <1>4 DEF Talks
  <1>6. Partners(x, y) /\ DataAt(p, 1, i)
    BY <1>1, <1>2, <1>3, <1>4, <1>5 DEF Partners, DataAt
  <1>7. wire[p][1].body = <<y, Num(p, 1)>> /\ Num(p, 1) \in 1..Passed(y)
    BY <1>3, <1>4, <1>5, <1>6 DEF Ascending
  <1>8. Receptive(x)
    BY <1>1, <1>3, <1>4 DEF Receptive, LosesChunk, Dropped
  <1>9. PICK n \in Nat : n = Len(got[x])
    BY LenProperties DEF TypeOK
  <1>10. NoGap(p, y, i, n)
    BY <1>5, <1>6, <1>8, <1>9 DEF Gapless
  <1>11. /\ Num(p, 1) > n
         /\ \A m \in (n + 1)..(Num(p, 1) - 1) :
               \E j \in DOMAIN wire[p] : DataAt(p, j, i) /\ j < 1 /\ Num(p, j) = m
    BY <1>4, <1>6, <1>10 DEF NoGap
  <1>12. ~\E j \in DOMAIN wire[p] : j < 1
    BY WireType, LenProperties
  <1>13. Num(p, 1) \in Nat /\ Num(p, 1) = n + 1
    <2>1. Num(p, 1) \in Nat
      <3>1. Passed(y) \in Nat \/ Passed(y) \notin Nat
        OBVIOUS
      <3> QED BY <1>7
    <2> QED BY <1>9, <1>11, <1>12, <2>1
  <1> QED BY <1>1, <1>4, <1>5, <1>6, <1>7, <1>9, <1>13

\* Of the steps that take a frame and give it to a stream, the id of none is new.
LEMMA GotKeepsId ==
    ASSUME TypeOK, Registered, [Next]_vars, NEW x \in Conns, got'[x] # got[x]
    PROVE  sid' = sid
  BY GotMoves DEF DispatchData

LEMMA LossStays ==
    ASSUME TypeOK, [Next]_vars, NEW r \in Endpoints, NEW x \in Conns, Side(x) = r,
           LosesChunk(r, x), wopen'[x]
    PROVE  LosesChunk(r, x)'
  <1>0. rd \in [Endpoints -> Readers] /\ x # NoConn
    BY ConnsAssumption DEF TypeOK
  <1>1. CASE Dropped(r)
    BY <1>1, DropStays DEF LosesChunk, Dropped
  <1>2. CASE rd[r].pc = "send" /\ rd[r].conn = x
    <2>1. ASSUME NEW e \in Endpoints,
                 \/ DispatchData(e) \/ DispatchUnknown(e) \/ LocalWritten(e)
                 \/ ReaderStops(e) \/ RunReturns(e)
          PROVE  rd'[r] = rd[r]
      BY <1>0, <1>2, <2>1 DEF DispatchData, DispatchUnknown, LocalWritten, ReaderStops,
         RunReturns,
                              Reply, Receiving
    <2>2. ASSUME NEW e \in Endpoints, ReaderReply(e) PROVE rd'[r] = rd[r]
      <3>1. ASSUME e = r PROVE FALSE
        <4>1. Close(x)
          BY <1>0, <1>2, <2>2, <3>1 DEF ReaderReply
        <4>2. ~WriteHeld(x)
          BY <1>2 DEF WriteHeld
        <4> QED BY <4>1, <4>2 DEF Close, TypeOK
      <3> QED BY <1>0, <2>2, <3>1 DEF ReaderReply
    <2>3. CASE AgentCancels
      BY <1>0, <1>2, <2>3 DEF AgentCancels, LosesChunk, Dropped, ReaderAt, Endpoints
    <2> QED BY <1>2, <2>1, <2>2, <2>3, ReaderMoves DEF LosesChunk
  <1> QED BY <1>1, <1>2 DEF LosesChunk

LEMMA DeliveredStep ==
    /\ TypeOK /\ TypeOK' /\ Registered /\ Numbering /\ Numbering' /\ Talks
    /\ Ascending /\ Gapless /\ Delivered /\ [Next]_vars
    => Delivered'
  <1> SUFFICES ASSUME TypeOK, TypeOK', Registered, Numbering, Numbering', Talks,
                      Ascending, Gapless, Delivered, [Next]_vars
               PROVE  Delivered'
    OBVIOUS
  <1>2. ASSUME NEW x \in Conns, got'[x] # <<>>
        PROVE  sid'[x] # 0 /\ \E y \in Conns : /\ Partners(x, y)'
                                               /\ \A n \in DOMAIN got'[x] : got'[x][n] = <<y, n>>
    <2>1. CASE got'[x] = got[x]
      <3>1. PICK y \in Conns : Partners(x, y) /\ \A n \in DOMAIN got[x] : got[x][n] = <<y, n>>
        BY <1>2, <2>1 DEF Delivered
      <3>2. sid'[x] = sid[x] /\ sid'[y] = sid[y] /\ sid[x] # 0
        BY <3>1, IdStays DEF Partners
      <3> QED BY <2>1, <3>1, <3>2 DEF Partners
    <2>2. CASE got'[x] # got[x]
      <3>1. /\ DispatchData(Side(x)) /\ Target(Side(x)) = x /\ wopen[x] /\ sid' = sid
            /\ got'[x] = Append(got[x], Head(net[Side(x)]).body)
        BY <2>2, GotMoves, GotKeepsId
      <3>2. PICK y \in Conns : /\ Partners(x, y)
                               /\ Head(net[Side(x)]).body = <<y, Len(got[x]) + 1>>
        BY <3>1, NextChunk
      <3>3. ASSUME NEW n \in DOMAIN got[x] PROVE got[x][n] = <<y, n>>
        <4>1. got[x] # <<>>
          BY <3>3, LenProperties, EmptySeq DEF TypeOK
        <4>2. PICK z \in Conns : Partners(x, z) /\ \A k \in DOMAIN got[x] : got[x][k] = <<z, k>>
          BY <4>1 DEF Delivered
        <4>3. z = y
          BY <3>2, <4>2, IdsUnique DEF Partners
        <4> QED BY <3>3, <4>2, <4>3
      <3>4. PICK s \in Seq(Bodies) : s = got[x]
        BY DEF TypeOK
      <3>5. PICK b \in Bodies : b = Head(net[Side(x)]).body
        <4>1. net[Side(x)] \in Seq(Frames) /\ net[Side(x)] # <<>>
          BY <3>1, SideType DEF TypeOK, DispatchData, Receiving
        <4>2. Head(net[Side(x)]) \in Frames
          BY <4>1, HeadTailProperties
        <4> QED BY <4>2 DEF Frames
      <3>6. /\ got'[x] \in Seq(Bodies) /\ Len(got'[x]) = Len(s) + 1 /\ Len(s) \in Nat
            /\ \A n \in 1..Len(s) : got'[x][n] = s[n]
            /\ got'[x][Len(s) + 1] = b
            /\ DOMAIN got'[x] = 1..(Len(s) + 1) /\ DOMAIN s = 1..Len(s)
        BY <3>1, <3>4, <3>5, AppendProperties, LenProperties
      <3>7. \A n \in DOMAIN got'[x] : got'[x][n] = <<y, n>>
        BY <3>2, <3>3, <3>4, <3>5, <3>6
      <3> QED BY <3>1, <3>2, <3>7 DEF Partners
    <2> QED BY <2>1, <2>2
  <1> QED BY <1>2 DEF Delivered

\* When the second of two streams with one id comes into being, neither has
\* sent or received anything.
LEMMA NewPair ==
    ASSUME TypeOK, TypeOK', Registered, Numbering, Numbering', Talks, Talks', Ascending,
           Delivered, [Next]_vars, NEW x \in Conns, NEW y \in Conns,
           sid'[x] # 0, sid'[x] = sid'[y], Side(y) = Peer(Side(x)), sid[x] = 0 \/ sid[y] = 0
    PROVE  got'[x] = <<>> /\ nread'[y] = 0 /\ pump'[y] = "none"
  <1>0. /\ Side(x) \in Endpoints /\ Side(y) \in Endpoints /\ Peer(Side(y)) = Side(x)
        /\ sid' # sid
    BY SideType, PeerType
  <1>1. got[x] = <<>>
    <2>1. ASSUME got[x] # <<>> PROVE FALSE
      <3>1. PICK z \in Conns : Partners(x, z) /\ sid[x] # 0
        BY <2>1 DEF Delivered
      <3>2. sid'[z] = sid[z] /\ sid'[x] = sid[x] /\ sid[z] # 0 /\ Side(z) = Side(y)
        BY <3>1, IdStays DEF Partners
      <3>3. z = y
        BY <3>1, <3>2, IdsUniqueNext DEF AllUnique, Partners
      <3> QED BY <3>1, <3>2, <3>3
    <2> QED BY <2>1
  <1>2. got'[x] = <<>>
    BY <1>0, <1>1, GotKeepsId
  <1>3. pump[y] = "none"
    <2>1. ASSUME Pumping(y) PROVE FALSE
      <3>1. sid[y] # 0
        BY <2>1 DEF Talks, Conns
      <3>2. PICK z \in Conns : Side(z) = Side(x) /\ sid[z] = sid[y]
        <4>1. CASE y \in Opens
          BY <1>0, <2>1, <4>1 DEF Talks, Talking, Conns
        <4>2. CASE y \in Dials
          BY <1>0, <3>1, <4>2, AcceptedFor DEF Conns
        <4> QED BY <4>1, <4>2 DEF Conns
      <3>3. sid'[z] = sid'[y]
        BY <3>1, <3>2, IdStays
      <3>4. z = x
        BY <3>2, <3>3, IdsUniqueNext DEF AllUnique
      <3> QED BY <3>1, <3>2, <3>4
    <2> QED BY <2>1 DEF Pumping
  <1>4. pump'[y] = "none"
    <2>1. ASSUME y \in Dials, AcceptAck(y) PROVE FALSE
      BY <1>0, <2>1 DEF AcceptAck
    <2>2. ASSUME NEW e \in Endpoints, HandleOpenAck(e) PROVE FALSE
      BY <1>0, <2>2 DEF HandleOpenAck
    <2> QED BY <1>3, <2>1, <2>2, PumpMoves DEF Pumping
  <1>5. nread'[y] = 0
    BY <1>4, SentMoves
  <1> QED BY <1>2, <1>4, <1>5

\* What n bytes written and the wire's frames for stream i tell before the
\* step: each frame's number, and that none after n is missing.
NoHole(e, y, i, n) ==
    /\ n \in Nat /\ Passed(y) \in Nat /\ n <= Passed(y)
    /\ \A k \in DOMAIN wire[e] : DataAt(e, k, i) =>
          /\ Num(e, k) \in 1..Passed(y)
          /\ \A m \in (n + 1)..(Num(e, k) - 1) :
                \E j \in DOMAIN wire[e] : DataAt(e, j, i) /\ j < k /\ Num(e, j) = m
    /\ writer[e] # "done" =>
          \A m \in (n + 1)..Passed(y) :
              \E j \in DOMAIN wire[e] : DataAt(e, j, i) /\ Num(e, j) = m

\* A step that takes no frame numbered above n from the wire, and leaves none
\* numbered n or less on it, leaves no hole after n.
LEMMA HolesStay ==
    ASSUME TypeOK, TypeOK', Numbering, Talks, Ascending, [Next]_vars,
           NEW e \in Endpoints, NEW y \in Conns, Side(y) = e,
           NEW i, i # 0, sid[y] = i, sid'[y] = i,
           NEW n \in Nat, NoHole(e, y, i, n), NEW s \in {0, 1}, Shifted(e, s),
           \A j \in DOMAIN wire[e] : DataAt(e, j, i) => (j > s <=> Num(e, j) > n)
    PROVE  NoGap(e, y, i, n)'
  <1>0. /\ Passed(y) \in Nat /\ Passed(y)' \in Nat /\ n <= Passed(y)
        /\ wire[e] \in Seq(Frames) /\ DOMAIN wire[e] = 1..Len(wire[e]) /\ Len(wire[e]) \in Nat
        /\ wire'[e] \in Seq(Frames) /\ DOMAIN wire'[e] = 1..Len(wire'[e]) /\ Len(wire'[e]) \in Nat
        /\ Passed(y)' = Passed(y) \/ (PumpData(y) /\ Passed(y)' = Passed(y) + 1 /\ Passed(y)' = nread[y])
    BY SentMoves, WireType, WireTypeNext, LenProperties DEF NoHole
  <1>1. \A j, k : wire'[e][k] = wire[e][j] => Num(e, k)' = Num(e, j)
    BY DEF Num
  \* Where a frame numbered above n is after the step.
  <1>2. ASSUME NEW j \in DOMAIN wire[e], DataAt(e, j, i), Num(e, j) > n,
               writer'[e] # "done" \/ \E k \in DOMAIN wire'[e] : j - s < k
        PROVE  /\ j - s \in DOMAIN wire'[e] /\ DataAt(e, j - s, i)'
               /\ Num(e, j - s)' = Num(e, j)
    <2>1. j > s
      BY <1>2
    <2>2. DataAt(e, j - s, i)' /\ wire'[e][j - s] = wire[e][j]
      BY <1>2, <2>1, DataStays
    <2>3. PICK q \in {j - s} : q = j - s
      OBVIOUS
    <2>4. q \in DOMAIN wire'[e]
      BY <2>2, <2>3 DEF DataAt
    <2> QED BY <1>1, <2>2, <2>3, <2>4
  <1>3. ASSUME NEW k \in DOMAIN wire'[e], DataAt(e, k, i)'
        PROVE  /\ Num(e, k)' > n
               /\ \A m \in (n + 1)..(Num(e, k)' - 1) :
                     \E j \in DOMAIN wire'[e] : DataAt(e, j, i)' /\ j < k /\ Num(e, j)' = m
    <2>1. CASE DataAt(e, k + s, i) /\ wire'[e][k] = wire[e][k + s]
      <3>1. k + s \in DOMAIN wire[e] /\ k + s > s /\ Num(e, k)' = Num(e, k + s)
        BY <1>0, <1>1, <2>1 DEF DataAt
      <3>2. Num(e, k)' > n
        BY <2>1, <3>1
      <3>3. ASSUME NEW m \in (n + 1)..(Num(e, k)' - 1)
            PROVE  \E j \in DOMAIN wire'[e] : DataAt(e, j, i)' /\ j < k /\ Num(e, j)' = m
        <4>1. PICK j \in DOMAIN wire[e] : DataAt(e, j, i) /\ j < k + s /\ Num(e, j) = m
          BY <2>1, <3>1, <3>3 DEF NoHole
        <4>2. m > n /\ j - s < k
          BY <1>0, <3>1, <3>3, <4>1 DEF NoHole
        <4>3. j - s \in DOMAIN wire'[e] /\ DataAt(e, j - s, i)' /\ Num(e, j - s)' = m
          BY <1>2, <4>1, <4>2
        <4> QED BY <4>2, <4>3
      <3> QED BY <3>2, <3>3
    <2>2. CASE /\ s = 0 /\ k = Len(wire'[e]) /\ writer[e] # "done"
               /\ \E z \in Conns : /\ Side(z) = e /\ PumpData(z) /\ sid[z] = i
                                   /\ wire'[e][k].body = <<z, nread[z]>>
      <3>1. PumpData(y) /\ wire'[e][k].body = <<y, nread[y]>>
        BY <2>2, IdsUnique
      <3>2. Num(e, k)' = nread[y] /\ Passed(y) + 1 = nread[y] /\ writer' = writer
        BY <3>1, SentMoves DEF Num, PumpData
      <3>3. ASSUME NEW m \in (n + 1)..(Num(e, k)' - 1)
            PROVE  \E j \in DOMAIN wire'[e] : DataAt(e, j, i)' /\ j < k /\ Num(e, j)' = m
        <4>1. m \in (n + 1)..Passed(y)
          BY <1>0, <3>2, <3>3
        <4>2. PICK j \in DOMAIN wire[e] : DataAt(e, j, i) /\ Num(e, j) = m
          BY <2>2, <4>1 DEF NoHole
        <4>3. j - s \in DOMAIN wire'[e] /\ DataAt(e, j - s, i)' /\ Num(e, j - s)' = m
          BY <1>0, <1>2, <2>2, <3>2, <4>1, <4>2
        <4>4. j - s = j /\ j # k /\ j < k
          BY <1>0, <2>2, <3>2, <4>1, <4>3
        <4> QED BY <4>3, <4>4
      <3> QED BY <1>0, <3>2, <3>3
    <2> QED BY <1>3, <2>1, <2>2, DataMoves
  <1>4. ASSUME writer'[e] # "done", NEW m \in (n + 1)..Passed(y)'
        PROVE  \E j \in DOMAIN wire'[e] : DataAt(e, j, i)' /\ Num(e, j)' = m
    <2>0. writer[e] # "done"
      BY <1>4, WriterEnds
    <2>1. CASE m <= Passed(y)
      <3>1. m \in (n + 1)..Passed(y)
        BY <1>0, <1>4, <2>1
      <3>2. PICK j \in DOMAIN wire[e] : DataAt(e, j, i) /\ Num(e, j) = m
        BY <2>0, <3>1 DEF NoHole
      <3>3. m > n
        BY <1>0, <3>1
      <3> QED BY <1>2, <1>4, <3>2, <3>3
    <2>2. CASE m > Passed(y)
      <3>1. PumpData(y) /\ m = nread[y]
        BY <1>0, <1>4, <2>2
      <3>2. PICK f \in Frames : f = NewData(i, <<y, m>>)
        <4>1. i \in Ids \cup {0} /\ m \in Nat
          BY <1>0, <1>4 DEF TypeOK
        <4>2. <<y, m>> \in Bodies
          BY <4>1 DEF Bodies
        <4> QED BY <4>1, <4>2 DEF NewData, Frame, Frames, FrameTypes
      <3>3. SendOk(e, f) /\ net' = net
        BY <2>0, <3>1, <3>2 DEF PumpData, SendErr, SendFails
      <3>4. wire'[e] = Append(wire[e], f)
        BY <3>3, SendWire
      <3>5. PICK k \in {Len(wire[e]) + 1} : k = Len(wire[e]) + 1
        OBVIOUS
      <3>6. k \in DOMAIN wire'[e] /\ wire'[e][k] = f
        BY <1>0, <3>4, <3>5, AppendProperties
      <3>7. f.type = "DATA" /\ f.id = i /\ f.body = <<y, m>>
        BY <3>2, FrameKinds
      <3> QED BY <3>6, <3>7 DEF DataAt, Num
    <2> QED BY <1>0, <1>4, <2>1, <2>2
  <1>5. n <= Passed(y)'
    BY <1>0
  <1> QED BY <1>3, <1>4, <1>5 DEF NoGap

LEMMA GaplessStep ==
    /\ TypeOK /\ TypeOK' /\ RepliesReset /\ Registered /\ Registered'
    /\ Numbering /\ Numbering' /\ Talks /\ Talks'
    /\ Ascending /\ Ascending' /\ Gapless /\ Delivered /\ [Next]_vars
    => Gapless'
  <1> SUFFICES ASSUME TypeOK, TypeOK', RepliesReset, Registered, Registered',
                      Numbering, Numbering', Talks, Talks', Ascending, Ascending',
                      Gapless, Delivered, [Next]_vars,
                      NEW x \in Conns, NEW y \in Conns, Partners(x, y)', Receptive(x)',
                      NEW e \in Endpoints, NEW i \in Ids, NEW n \in Nat,
                      e = Side(y), i = sid'[y], n = Len(got'[x])
               PROVE  NoGap(e, y, i, n)'
    BY DEF Gapless
  <1>1. PICK r \in Endpoints : r = Side(x) /\ e = Peer(r) /\ r = Peer(e)
    BY SideType, PeerType DEF Partners
  <1>2. i = sid'[x] /\ i # 0
    BY DEF Partners, Ids
  <1>4. CASE sid[x] = 0 \/ sid[y] = 0
    <2>1. got'[x] = <<>> /\ nread'[y] = 0 /\ pump'[y] = "none"
      BY <1>1, <1>2, <1>4, NewPair
    <2>2. Passed(y)' = 0 /\ n = 0
      BY <2>1, EmptySeq DEF Passed
    <2>3. \A k \in DOMAIN wire'[e] : DataAt(e, k, i)' => Num(e, k)' \in 1..0
      BY <1>1, <1>2, <2>2 DEF Ascending, DataAt
    <2> QED BY <2>2, <2>3 DEF NoGap
  <1>5. CASE sid[x] # 0 /\ sid[y] # 0
    <2>1. sid[x] = i /\ sid[y] = i /\ Partners(x, y)
      BY <1>1, <1>2, <1>5, IdStays DEF Partners
    <2>2. map[r][i] = x /\ wopen[x] /\ Receptive(x)
      <3>1. map'[r][i] = x /\ wopen'[x] /\ ~LosesChunk(r, x)'
        BY <1>1, <1>2 DEF Receptive
      <3>2. map[r][i] = x
        BY <1>1, <1>2, <2>1, <3>1, EntryStays
      <3>3. wopen[x] /\ ~LosesChunk(r, x)
        BY <1>1, <3>1, LocalMoves, LossStays DEF LocalMove
      <3> QED BY <1>1, <2>1, <3>2, <3>3 DEF Receptive
    <2>3. PICK o \in Nat : o = Len(got[x])
      BY LenProperties DEF TypeOK
    <2>4. NoGap(e, y, i, o)
      BY <1>1, <2>1, <2>2, <2>3 DEF Gapless
    <2>5. Passed(y) \in Nat /\ \A k \in DOMAIN wire[e] : DataAt(e, k, i) => Num(e, k) \in 1..Passed(y)
      BY <1>1, <1>2, <2>1, SentMoves DEF Ascending
    <2>6. \A k \in DOMAIN wire[e] : k \in Nat /\ k > 0
      BY WireType, LenProperties
    <2>7. CASE got'[x] # got[x]
      <3>1. /\ DispatchData(r) /\ Target(r) = x
            /\ got'[x] = Append(got[x], Head(net[r]).body)
        BY <1>1, <2>7, GotMoves
      <3>2. Shifted(e, 1)
        BY <1>1, <3>1, TakesShift DEF DispatchData, Receiving, Takes
      <3>3. PICK z \in Conns : /\ Partners(x, z) /\ DataAt(Side(z), 1, sid[z])
                               /\ Num(Side(z), 1) = o + 1
        BY <1>1, <2>2, <2>3, <3>1, NextChunk
      <3>4. z = y
        BY <2>1, <3>3, IdsUnique DEF Partners
      <3>5. DataAt(e, 1, i) /\ Num(e, 1) = o + 1
        BY <1>1, <2>1, <3>3, <3>4
      <3>6. n = o + 1
        <4>1. net[r] \in Seq(Frames) /\ net[r] # <<>> /\ got[x] \in Seq(Bodies)
          BY <3>1 DEF TypeOK, DispatchData, Receiving
        <4>2. Head(net[r]) \in Frames
          BY <4>1, HeadTailProperties
        <4>3. Head(net[r]).body \in Bodies
          BY <4>2 DEF Frames
        <4> QED BY <2>3, <3>1, <4>1, <4>3, AppendProperties
      <3>7. NoHole(e, y, i, n)
        <4>1. n \in Nat /\ n <= Passed(y)
          BY <2>5, <3>5, <3>6 DEF DataAt
        <4>2. \A k \in DOMAIN wire[e] : DataAt(e, k, i) =>
                \A m \in (n + 1)..(Num(e, k) - 1) :
                    \E j \in DOMAIN wire[e] : DataAt(e, j, i) /\ j < k /\ Num(e, j) = m
          <5> SUFFICES ASSUME NEW k \in DOMAIN wire[e], DataAt(e, k, i),
                              NEW m \in (n + 1)..(Num(e, k) - 1)
                       PROVE  \E j \in DOMAIN wire[e] : DataAt(e, j, i) /\ j < k /\ Num(e, j) = m
            OBVIOUS
          <5>1. m \in (o + 1)..(Num(e, k) - 1)
            BY <2>5, <3>6
          <5> QED BY <2>4, <5>1 DEF NoGap
        <4>3. writer[e] # "done" =>
                \A m \in (n + 1)..Passed(y) :
                    \E j \in DOMAIN wire[e] : DataAt(e, j, i) /\ Num(e, j) = m
          <5> SUFFICES ASSUME writer[e] # "done", NEW m \in (n + 1)..Passed(y)
                       PROVE  \E j \in DOMAIN wire[e] : DataAt(e, j, i) /\ Num(e, j) = m
            OBVIOUS
          <5>1. m \in (o + 1)..Passed(y)
            BY <2>5, <3>6
          <5> QED BY <2>4, <5>1 DEF NoGap
        <4> QED BY <2>5, <4>1, <4>2, <4>3 DEF NoHole
      <3>8. ASSUME NEW j \in DOMAIN wire[e], DataAt(e, j, i) PROVE j > 1 <=> Num(e, j) > n
        <4>1. j \in Nat /\ j > 0 /\ Num(e, j) \in Nat
          BY <2>5, <2>6, <3>8
        <4>2. 1 < j => Num(e, 1) < Num(e, j)
          BY <1>1, <2>1, <1>2, <3>5, <3>8 DEF Ascending, DataAt
        <4> QED BY <3>5, <3>6, <4>1, <4>2
      <3>9. Side(y) = e /\ sid'[y] = i
        BY <1>1, <1>2
      <3> QED BY <1>2, <2>1, <3>2, <3>7, <3>8, <3>9, HolesStay
    <2>8. CASE got'[x] = got[x]
      <3>1. n = o
        BY <2>3, <2>8
      <3>2. PICK s \in {0, 1} : Shifted(e, s)
        BY WireShifts
      <3>3. NoHole(e, y, i, n)
        BY <2>4, <2>5, <3>1 DEF NoGap, NoHole
      \* A DATA frame for x that is taken is written.
      <3>4. ASSUME s = 1, DataAt(e, 1, i) PROVE FALSE
        <4>1. Takes(r) /\ Head(net[r]).type = "DATA" /\ Head(net[r]).id = i
          BY <1>1, <3>2, <3>4 DEF Shifted, DataAt
        <4>2. Target(r) = x
          BY <2>2, <4>1 DEF Target
        <4>3. DispatchData(r)
          BY <4>1, <4>2, ConnsAssumption DEF Takes, HandleOpen, HandleOpenAck, HandleNack,
             DispatchFin, DispatchRst, DispatchUnknown, Receiving
        <4>4. CASE rd' = [rd EXCEPT ![r] = [pc |-> "send",
                                            frame |-> NewRst(sid[x], "local_write_error"),
                                            conn |-> x]]
          <5>1. rd'[r].pc = "send" /\ rd'[r].conn = x
            BY <4>4 DEF TypeOK
          <5> QED BY <1>1, <5>1 DEF Receptive, LosesChunk
        <4>5. CASE got' = [got EXCEPT ![x] = Append(@, Head(net[r]).body)]
          <5>1. net[r] \in Seq(Frames) /\ net[r] # <<>> /\ got[x] \in Seq(Bodies)
            BY <4>3 DEF TypeOK, DispatchData, Receiving
          <5>2. Head(net[r]) \in Frames
            BY <5>1, HeadTailProperties
          <5>3. Head(net[r]).body \in Bodies
            BY <5>2 DEF Frames
          <5>4. got'[x] = Append(got[x], Head(net[r]).body)
            BY <4>5 DEF TypeOK
          <5>5. Len(got'[x]) = o + 1
            BY <2>3, <5>1, <5>3, <5>4, AppendProperties
          <5>6. o + 1 # o
            BY <2>3
          <5> QED BY <3>1, <5>5, <5>6
        <4> QED BY <4>2, <4>3, <4>4, <4>5 DEF DispatchData, Reply
      <3>5. ASSUME NEW j \in DOMAIN wire[e], DataAt(e, j, i) PROVE j > s <=> Num(e, j) > n
        <4>1. j \in Nat /\ j > 0 /\ (j = 1 => s # 1)
          BY <2>6, <3>4, <3>5
        <4>2. Num(e, j) > n
          BY <2>4, <3>1, <3>5 DEF NoGap
        <4> QED BY <4>1, <4>2
      <3>6. Side(y) = e /\ sid'[y] = i
        BY <1>1, <1>2
      <3> QED BY <1>2, <2>1, <3>2, <3>3, <3>5, <3>6, HolesStay
    <2> QED BY <2>7, <2>8
  <1> QED BY <1>4, <1>5

LEMMA DeliveryHolds == Spec => [](Ascending /\ Gapless /\ Delivered)
  <1>1. Init => Ascending /\ Gapless /\ Delivered
    BY DEF Init, Ascending, Gapless, Delivered, Partners
  <1>2. /\ TypeOK /\ TypeOK' /\ RepliesReset /\ Registered /\ Registered'
        /\ Numbering /\ Numbering' /\ Talks /\ Talks'
        /\ Ascending /\ Gapless /\ Delivered /\ [Next]_vars
        => Ascending' /\ Gapless' /\ Delivered'
    BY AscendingStep, GaplessStep, DeliveredStep
  <1> QED
    BY <1>1, <1>2, TypeCorrect, RepliesAreResets, RegistrationCorrect, NumberingHolds,
       TalksHolds, PTL DEF Spec

\* The bytes a local connection has been given are those one connection of
\* the peer has sent under the same id, from the first on, in order, without
\* loss or duplication, whenever the session ends and whichever writes fail.
THEOREM BytesInOrder == Spec => []StreamIntegrity
  <1>1. TypeOK /\ Delivered => StreamIntegrity
    <2> SUFFICES ASSUME TypeOK, Delivered, NEW c \in Conns, got[c] # <<>>
                 PROVE  /\ Side(got[c][1][1]) # Side(c)
                        /\ sid[got[c][1][1]] = sid[c]
                        /\ \A i \in DOMAIN got[c] : got[c][i] = <<got[c][1][1], i>>
      BY DEF StreamIntegrity
    <2>1. PICK y \in Conns : Partners(c, y) /\ \A n \in DOMAIN got[c] : got[c][n] = <<y, n>>
      BY DEF Delivered
    <2>2. 1 \in DOMAIN got[c]
      BY LenProperties, EmptySeq DEF TypeOK
    <2>3. got[c][1][1] = y
      BY <2>1, <2>2
    <2> QED BY <2>1, <2>3, SideType, PeerType DEF Partners
  <1> QED BY <1>1, TypeCorrect, DeliveryHolds, PTL

----------------------------------------------------------------------------
(* Any peer (TunnelAnyPeer).  Its steps are those of a session and those of *)
(* the peer, which change only the frames under way and the peer's count.   *)
(* What does not depend on what arrives holds as before; what does, holds   *)
(* without the numbering: the ids of one side's own streams are different   *)
(* from one another, and from those it accepts by their parity.             *)

PeerStep == (PeerSends \/ PeerReads) /\ UNCHANGED <<map, streamVars, taskVars, writer, out>>

LEMMA AnyPeerMoves == [AnyPeerNext]_vars => [Next]_vars \/ PeerStep
  <1>1. ClientOpens \subseteq Opens /\ ClientDials \subseteq Dials /\ Dials \subseteq Conns
        /\ Opens \subseteq Conns /\ "client" \in Endpoints
    BY DEF Opens, Dials, Conns, Endpoints
  <1>2. ClientNext => SessionNext
    BY <1>1 DEF ClientNext, SessionNext
  <1>3. OwnerCancels \/ AgentCancels \/ Disconnect => EndNext
    BY <1>1 DEF OwnerCancels, EndNext
  <1>4. PeerSends \/ PeerReads => PeerStep
    BY DEF PeerSends, PeerReads, PeerStep
  <1> QED BY <1>2, <1>3, <1>4 DEF AnyPeerNext, Next

LEMMA AnyPeerTypeStep == TypeOK /\ [AnyPeerNext]_vars => TypeOK'
  <1> SUFFICES ASSUME TypeOK, [AnyPeerNext]_vars PROVE TypeOK'
    OBVIOUS
  <1>1. CASE [Next]_vars
    BY <1>1, TypeStep
  <1>2. ASSUME PeerStep, net' \in [Endpoints -> Seq(Frames)], gen' \in [Endpoints -> Nat],
               UNCHANGED <<cancel, up>>
        PROVE  TypeOK'
    BY <1>2 DEF TypeOK, PeerStep, streamVars, taskVars
  <1>3. net \in [Endpoints -> Seq(Frames)] /\ gen \in [Endpoints -> Nat]
        /\ "client" \in Endpoints /\ "server" \in Endpoints
    BY DEF TypeOK, Endpoints
  <1>4. CASE PeerStep /\ PeerSends
    <2>1. PICK f \in ValidFrames : net' = [net EXCEPT !["client"] = Append(@, f)]
      BY <1>4 DEF PeerSends
    <2>2. f \in Frames
      <3>1. PICK i \in PeerIds : f \in {NewOpen(i), NewOpenAck(i), NewNack(i, "stream_id_conflict"),
                NewData(i, <<>>), NewFin(i), NewRst(i, "local_read_error")}
        BY DEF ValidFrames
      <3>2. i \in Ids \cup {0}
        BY PeerAssumption
      <3>3. NewData(i, <<>>) \in Frames
        BY <3>2 DEF NewData, Frame, Frames, FrameTypes, Bodies
      <3> QED BY <3>1, <3>2, <3>3, FrameType, PcNames
    <2>3. net' \in [Endpoints -> Seq(Frames)]
      BY <1>3, <2>1, <2>2
    <2>4. gen' \in [Endpoints -> Nat] /\ UNCHANGED <<cancel, up>>
      BY <1>3, <1>4 DEF PeerSends
    <2> QED BY <1>2, <1>4, <2>3, <2>4
  <1>5. CASE PeerStep /\ PeerReads
    <2>1. net["server"] # <<>> /\ Take("server")
      BY <1>5 DEF PeerReads, Take
    <2>2. net' \in [Endpoints -> Seq(Frames)]
      BY <1>3, <2>1, TakeType
    <2>3. gen' \in [Endpoints -> Nat] /\ UNCHANGED <<cancel, up>>
      BY <1>3, <1>5 DEF PeerReads
    <2> QED BY <1>2, <1>5, <2>2, <2>3
  <1> QED BY <1>1, <1>4, <1>5, AnyPeerMoves DEF PeerStep

LEMMA AnyPeerType == AnyPeerSpec => []TypeOK
  BY InitType, AnyPeerTypeStep, PTL DEF AnyPeerSpec

\* Whatever valid frames a peer sends in whatever order, the map and the
\* streams agree: no frame makes a stream reachable under another id.
THEOREM RegisteredWithAnyPeer == AnyPeerSpec => []Registered
  <1>1. Init => Registered /\ Fresh
    BY DEF Init, Registered, Fresh, Conns
  <1>2. TypeOK /\ Registered /\ Fresh /\ [AnyPeerNext]_vars => Registered' /\ Fresh'
    <2>1. Registered /\ Fresh /\ PeerStep => Registered' /\ Fresh'
      BY DEF PeerStep, Registered, Fresh, streamVars, taskVars
    <2> QED BY <2>1, RegistrationStep, AnyPeerMoves
  <1> QED BY <1>1, <1>2, AnyPeerType, PTL DEF AnyPeerSpec

\* The same for the end of a stream: whatever the peer sends, a stream that
\* has seen both ends is closed.
THEOREM EofSettlesWithAnyPeer == AnyPeerSpec => []BothEofClosed
  <1>1. Init => BothEofClosed
    BY DEF Init, BothEofClosed, NewState
  <1>2. TypeOK /\ BothEofClosed /\ [AnyPeerNext]_vars => BothEofClosed'
    <2>1. BothEofClosed /\ PeerStep => BothEofClosed'
      BY DEF PeerStep, BothEofClosed, streamVars
    <2> QED BY <2>1, EofStep, AnyPeerMoves
  <1> QED BY <1>1, <1>2, AnyPeerType, PTL DEF AnyPeerSpec

LEMMA AnyPeerAdvances == TypeOK /\ [AnyPeerNext]_vars => StateAdvances
  <1>1. PeerStep => StateAdvances
    BY DEF PeerStep, StateAdvances, streamVars
  <1> QED BY <1>1, Advances, AnyPeerMoves

\* No frame of a peer, in any order, sets a stream back: not a second
\* OPEN_ACK, not a NACK for an open stream, not DATA after FIN.
THEOREM MonotonicWithAnyPeer == AnyPeerSpec => StateMonotonic
  <1>1. TypeOK /\ [AnyPeerNext]_vars => [StateAdvances]_vars
    BY AnyPeerAdvances
  <1> QED BY <1>1, AnyPeerType, PTL DEF AnyPeerSpec, StateMonotonic

\* The ids of the streams a side accepts have its peer's parity, once its
\* handler has checked them.
Checked == {"dial", "wait", "redial", "insert"}

AcceptedParity ==
    \A d \in Dials :
        /\ acc[d].pc \in Checked => OwnParity(Peer(Side(d)), acc[d].id)
        /\ sid[d] # 0 => OwnParity(Peer(Side(d)), sid[d])

LEMMA AcceptedParityStep ==
    TypeOK /\ AcceptedParity /\ [Next]_vars => AcceptedParity'
  <1> SUFFICES ASSUME TypeOK, AcceptedParity, [Next]_vars, NEW d \in Dials
               PROVE  /\ acc'[d].pc \in Checked => OwnParity(Peer(Side(d)), acc'[d].id)
                      /\ sid'[d] # 0 => OwnParity(Peer(Side(d)), sid'[d])
    BY DEF AcceptedParity
  <1>0. /\ acc \in [Dials -> AcceptTasks] /\ sid \in [Conns -> Ids \cup {0}] /\ d \in Conns
        /\ acc[d].pc \in Checked => OwnParity(Peer(Side(d)), acc[d].id)
        /\ sid[d] # 0 => OwnParity(Peer(Side(d)), sid[d])
    BY DEF TypeOK, AcceptedParity, Conns
  <1>1. CASE acc'[d] = acc[d] /\ sid'[d] = sid[d]
    BY <1>0, <1>1
  <1>2. CASE /\ acc[d].pc = "idle" /\ sid'[d] = sid[d]
             /\ acc'[d] = [pc |-> "check", id |-> Head(net[Side(d)]).id, why |-> "none"]
    BY <1>0, <1>2 DEF Checked
  <1>3. CASE AcceptCheck(d)
    <2>1. sid'[d] = sid[d] /\ acc'[d].id = acc[d].id
      BY <1>0, <1>3 DEF AcceptCheck, AcceptGoto, AcceptRefuse, AcceptTasks, streamVars
    <2>2. acc'[d].pc = "nack" \/ (acc'[d].pc = "dial" /\ ExpectedFromPeer(Side(d), acc[d].id))
      BY <1>0, <1>3 DEF AcceptCheck, AcceptGoto, AcceptRefuse, AcceptTasks
    <2> QED BY <1>0, <2>1, <2>2 DEF ExpectedFromPeer, OwnParity, Checked
  <1>4. CASE AcceptDial(d) \/ AcceptWait(d)
    <2>1. acc[d].pc \in Checked /\ sid'[d] = sid[d] /\ acc'[d].id = acc[d].id
      BY <1>0, <1>4 DEF AcceptDial, AcceptWait, AcceptGoto, AcceptRefuse, AcceptTasks, Checked,
                        streamVars
    <2> QED BY <1>0, <2>1
  <1>5. CASE AcceptInsert(d)
    <2>1. acc[d].pc = "insert" /\ sid'[d] = acc[d].id /\ acc'[d].pc \in {"ack", "nack"}
      BY <1>0, <1>5 DEF AcceptInsert, AcceptGoto, AcceptRefuse, AcceptTasks
    <2> QED BY <1>0, <2>1 DEF Checked
  <1>6. CASE AcceptAck(d) \/ AcceptNack(d)
    <2>1. acc'[d].pc = "done" /\ sid'[d] = sid[d]
      BY <1>0, <1>6 DEF AcceptAck, AcceptNack, AcceptGoto, AcceptTasks, streamVars
    <2> QED BY <1>0, <2>1 DEF Checked
  <1> QED BY <1>1, <1>2, <1>3, <1>4, <1>5, <1>6, HandlerMoves DEF AcceptStep

\* A step of the peer gives no stream an id; its count of frames only grows.
LEMMA IssuedWithAnyPeer == TypeOK /\ TypeOK' /\ Issued /\ [AnyPeerNext]_vars => Issued'
  <1> SUFFICES ASSUME TypeOK, TypeOK', Issued, [AnyPeerNext]_vars PROVE Issued'
    OBVIOUS
  <1>1. CASE [Next]_vars
    BY <1>1, IssuedStep
  <1>2. CASE PeerStep
    <2>1. sid' = sid /\ opener' = opener
      BY <1>2 DEF PeerStep, streamVars, taskVars
    <2>2. \A e \in Endpoints : gen[e] \in Nat /\ gen'[e] \in Nat /\ gen[e] <= gen'[e]
      <3>1. gen \in [Endpoints -> Nat] /\ gen' \in [Endpoints -> Nat]
        BY DEF TypeOK
      <3>2. gen' = gen \/ gen' = [gen EXCEPT !["server"] = @ + 1]
        BY <1>2 DEF PeerStep, PeerSends, PeerReads
      <3> QED BY <3>1, <3>2
    <2>3. \A c \in Opens : sid[c] \in Nat /\ Side(c) \in Endpoints
      BY SideType DEF TypeOK, Conns, Ids
    <2> QED BY <2>1, <2>2, <2>3 DEF Issued
  <1> QED BY <1>1, <1>2, AnyPeerMoves

\* A stream is held, unless it was dialled by a session that has no writer.
KeptWithAnyPeer ==
    /\ Issued /\ AcceptedParity /\ ResetsRunning
    /\ \A c \in Conns :
          sid[c] # 0 /\ ~state[c].closed => Held(c) \/ (c \in Dials /\ writer[Side(c)] = "done")

LEMMA KeptWithAnyPeerStep ==
    ASSUME TypeOK, KeptWithAnyPeer, [Next]_vars,
           NEW c \in Conns, sid'[c] # 0, ~state'[c].closed
    PROVE  Held(c)' \/ (c \in Dials /\ writer'[Side(c)] = "done")
  <1>1. Side(c) \in Endpoints /\ ~state[c].closed
    BY Advances, SideType DEF StateAdvances
  <1>2. CASE c \in Dials /\ writer[Side(c)] = "done"
    BY <1>1, <1>2, WriterEnds
  <1>3. CASE c \notin Dials \/ writer[Side(c)] # "done"
    <2>1. sid[c] # 0 => Held(c)
      BY <1>1, <1>3 DEF KeptWithAnyPeer
    <2>2. ASSUME sid[c] # 0, writer[Side(c)] = "done",
                 NEW x \in Conns, Side(x) = Side(c), sid[x] = sid[c]
          PROVE  x = c
      <3>1. c \in Opens /\ OwnParity(Side(c), sid[c])
        BY <1>3, <2>2 DEF Conns, Issued, KeptWithAnyPeer
      <3>2. CASE x \in Opens
        BY <2>2, <3>1, <3>2 DEF Issued, KeptWithAnyPeer
      <3>3. CASE x \in Dials
        BY <1>1, <2>2, <3>1, <3>3, ParitiesDiffer DEF AcceptedParity, KeptWithAnyPeer
      <3> QED BY <3>2, <3>3 DEF Conns
    <2> QED BY <2>1, <2>2, HeldStep DEF KeptWithAnyPeer
  <1> QED BY <1>2, <1>3

\* No frame of a peer puts an open stream out of reach, not even an OPEN that
\* repeats the id of a stream which has just gone: besides the streams that
\* are registered when rst_all_streams has run, and those of a `run` that the
\* agent has dropped, only a dialled one whose session has no writer left can
\* be lost, by the removal of an entry that such an id has made another's.
THEOREM StreamsReachableWithAnyPeer == AnyPeerSpec => []NoLeak
  <1>1. Init => KeptWithAnyPeer
    BY DEF Init, KeptWithAnyPeer, Issued, AcceptedParity, ResetsRunning, Conns, Checked
  <1>2. TypeOK /\ TypeOK' /\ KeptWithAnyPeer /\ [AnyPeerNext]_vars => KeptWithAnyPeer'
    <2> SUFFICES ASSUME TypeOK, TypeOK', KeptWithAnyPeer, [AnyPeerNext]_vars
                 PROVE  KeptWithAnyPeer'
      OBVIOUS
    <2>1. Issued'
      BY IssuedWithAnyPeer DEF KeptWithAnyPeer
    <2>2. CASE [Next]_vars
      BY <2>1, <2>2, AcceptedParityStep, ResetsLast, KeptWithAnyPeerStep DEF KeptWithAnyPeer
    <2>3. CASE PeerStep
      BY <2>1, <2>3 DEF PeerStep, KeptWithAnyPeer, AcceptedParity, ResetsRunning, Held, Dropped,
                        streamVars, taskVars
    <2> QED BY <2>2, <2>3, AnyPeerMoves
  <1>3. TypeOK /\ KeptWithAnyPeer => NoLeak
    BY HeldReach DEF KeptWithAnyPeer, NoLeak, Dropped
  <1> QED BY <1>1, <1>2, <1>3, AnyPeerType, PTL DEF AnyPeerSpec

============================================================================
