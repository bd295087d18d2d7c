-------------------------- MODULE TunnelRpcProofs --------------------------
(***************************************************************************)
(* Proofs about TunnelRpc, for any finite set of calls, any number of      *)
(* permits, any queue capacity and any of the faults.  The theorems take   *)
(* RpcConstants as their hypothesis.                                       *)
(***************************************************************************)
EXTENDS TunnelRpc, FiniteSetTheorems, SequenceTheorems, TLAPS

Commands  == [id : Ids, of : Calls]
Responses == [id : Ids, of : Calls, kind : {"ok", "error", "Timeout", "SessionClosed"}]

\* Frames that carry the id of the call they belong to.
OwnCommands  == {m \in Commands : cid[m.of] = m.id}
OwnResponses == {r \in Responses : cid[r.of] = r.id}

\* The variables TypeOK leaves out.
PayloadTyped ==
  /\ result \in [Calls -> Responses \union {NoResponse}]
  /\ mail \in [Calls -> Responses \union {NoResponse}]

\* The counter has gone up once for every call that has an id.
Started == {c \in Calls : pc[c] # "idle"}
Counted == next = 1 + Cardinality(Started)

\* No two calls have the same id: the counter is ahead of every id given.
IdsOnce ==
  /\ \A c \in Calls : (pc[c] = "idle" <=> cid[c] = 0) /\ cid[c] <= next
  /\ \A c, d \in Calls : cid[c] = cid[d] /\ cid[c] # 0 => c = d

\* An entry of in_flight_calls is under its call's id, and the call is still
\* waiting for a response that has not come.
EntriesLive ==
  \A i \in Ids : inflight[i] \in Calls =>
    /\ cid[inflight[i]] = i
    /\ pc[inflight[i]] \in {"send", "wait", "expired"}
    /\ mail[inflight[i]] = NoResponse

\* Every frame and every task on the way carries its own call's id.
FramesOwn ==
  /\ req \in Seq(OwnCommands)
  /\ resp \in Seq(OwnResponses)
  /\ busy \subseteq OwnCommands
  /\ \A t \in running : t.cmd \in OwnCommands

\* A call receives only while it waits, and only its own response.
MailOwn ==
  \A c \in Calls : mail[c] # NoResponse =>
    pc[c] \in {"wait", "done"} /\ mail[c].of = c /\ mail[c].id = cid[c]

Inv ==
  /\ TypeOK /\ PayloadTyped /\ Counted /\ IdsOnce /\ EntriesLive /\ FramesOwn
  /\ MailOwn /\ OwnAnswer

----------------------------------------------------------------------------
\* Ids are numbers from 2 up to the last the calls can be given.
LEMMA IdsRange ==
  ASSUME RpcConstants
  PROVE  /\ Cardinality(Calls) \in Nat
         /\ \A i \in Ids : i \in Nat /\ i >= 2 /\ i # 0
         /\ \A i \in Nat : i >= 2 /\ i <= Cardinality(Calls) + 1 => i \in Ids
<1>1. Cardinality(Calls) \in Nat
  BY FS_CardinalityType DEF RpcConstants
<1>2. QED
  BY <1>1 DEF Ids

\* NoResponse is no frame: its call is none of the calls.
LEMMA NoResponseApart ==
  ASSUME RpcConstants
  PROVE  /\ \A r \in Responses : r # NoResponse
         /\ NoResponse.of = NoCall
  BY DEF RpcConstants, Responses, NoResponse, Response

\* A call that starts finds the counter below its last value.
LEMMA RoomForId ==
  ASSUME RpcConstants, TypeOK, Counted, NEW c \in Calls, pc[c] = "idle"
  PROVE  /\ next + 1 \in Ids
         /\ next + 1 \in 1..(Cardinality(Calls) + 1)
         /\ IsFiniteSet(Started)
         /\ Cardinality(Started \union {c}) = Cardinality(Started) + 1
<1>1. IsFiniteSet(Calls) BY DEF RpcConstants
<1>2. Started \in SUBSET Calls /\ c \notin Started BY DEF Started
<1>3. IsFiniteSet(Started) /\ Cardinality(Started) <= Cardinality(Calls)
  BY <1>1, <1>2, FS_Subset
<1>4. Cardinality(Started) # Cardinality(Calls)
  BY <1>1, <1>2, FS_Subset
<1>5. Cardinality(Started) \in Nat /\ Cardinality(Calls) \in Nat
  BY <1>1, <1>3, FS_CardinalityType
<1>6. next + 1 <= Cardinality(Calls) + 1 /\ next + 1 >= 2 /\ next + 1 \in Nat
  BY <1>3, <1>4, <1>5 DEF Counted
<1>7. Cardinality(Started \union {c}) = Cardinality(Started) + 1
  BY <1>2, <1>3, FS_AddElement
<1>8. next + 1 \in Ids /\ next + 1 \in 1..(Cardinality(Calls) + 1)
  BY <1>5, <1>6 DEF Ids
<1>9. QED BY <1>3, <1>7, <1>8

\* The frames of the calls keep their owners while no call changes its id.
LEMMA FramesKept ==
  ASSUME FramesOwn, OwnCommands \subseteq OwnCommands', OwnResponses \subseteq OwnResponses',
         UNCHANGED <<req, resp, busy, running>>
  PROVE  FramesOwn'
<1>1. req' \in Seq(OwnCommands') BY SeqMonotonic DEF FramesOwn
<1>2. resp' \in Seq(OwnResponses') BY SeqMonotonic DEF FramesOwn
<1>3. busy' \subseteq OwnCommands' /\ \A t \in running' : t.cmd \in OwnCommands'
  BY DEF FramesOwn
<1>4. QED BY <1>1, <1>2, <1>3 DEF FramesOwn

----------------------------------------------------------------------------
\* The first state satisfies the invariant.
LEMMA InitInv ==
  ASSUME RpcConstants, Init PROVE Inv
<1>1. TypeOK
  <2>1. next \in 1..(Cardinality(Calls) + 1) BY IdsRange DEF Init
  <2>2. cid \in [Calls -> Ids \union {0}] BY DEF Init
  <2>3. inflight \in [Ids -> Calls \union {NoCall}] BY DEF Init
  <2>4. pc \in [Calls -> {"idle", "insert", "send", "wait", "expired", "done"}] BY DEF Init
  <2>5. QED BY <2>1, <2>2, <2>3, <2>4 DEF Init, TypeOK
<1>2. PayloadTyped BY DEF Init, PayloadTyped
<1>3. Counted
  <2>1. Started = {} BY DEF Started, Init
  <2>2. QED BY <2>1, FS_EmptySet DEF Counted, Init
<1>4. IdsOnce BY DEF Init, IdsOnce
<1>5. EntriesLive BY DEF Init, EntriesLive, RpcConstants
<1>6. FramesOwn BY EmptySeq DEF Init, FramesOwn
<1>7. MailOwn /\ OwnAnswer BY DEF Init, MailOwn, OwnAnswer
<1>8. QED BY <1>1, <1>2, <1>3, <1>4, <1>5, <1>6, <1>7 DEF Inv

----------------------------------------------------------------------------
(* The caller's steps.                                                     *)

\* A call takes the next id.
LEMMA AllocateInv ==
  ASSUME RpcConstants, Inv, NEW c \in Calls, Allocate(c) PROVE Inv'
<1> USE DEF Inv
<1>1. /\ pc[c] = "idle" /\ cid' = [cid EXCEPT ![c] = next + 1] /\ next' = next + 1
      /\ pc' = [pc EXCEPT ![c] = "insert"]
      /\ UNCHANGED <<result, inflight, mail, req, resp, running, busy, open, stalled, answered>>
  BY DEF Allocate
<1>2. /\ next + 1 \in Ids /\ next + 1 \in 1..(Cardinality(Calls) + 1)
      /\ Cardinality(Started \union {c}) = Cardinality(Started) + 1
      /\ IsFiniteSet(Started)
  BY <1>1, RoomForId
<1>3. cid[c] = 0 /\ next \in Nat /\ \A d \in Calls : cid[d] \in Nat
  BY <1>1, IdsRange DEF IdsOnce, TypeOK
<1>4. TypeOK'
  BY <1>1, <1>2 DEF TypeOK
<1>5. PayloadTyped' BY <1>1 DEF PayloadTyped
<1>6. Counted'
  <2>1. Started' = Started \union {c} BY <1>1 DEF Started, TypeOK
  <2>2. Cardinality(Started) \in Nat BY <1>2, FS_CardinalityType
  <2>3. QED BY <1>1, <1>2, <2>1, <2>2 DEF Counted
<1>7. IdsOnce'
  BY <1>1, <1>3 DEF IdsOnce, TypeOK
<1>8. EntriesLive'
  <2>1. SUFFICES ASSUME NEW i \in Ids, inflight[i] \in Calls
                 PROVE  /\ cid'[inflight[i]] = i
                        /\ pc'[inflight[i]] \in {"send", "wait", "expired"}
                        /\ mail'[inflight[i]] = NoResponse
    BY <1>1 DEF EntriesLive
  <2>2. inflight[i] # c BY <1>1, <2>1 DEF EntriesLive
  <2>3. QED BY <1>1, <2>1, <2>2 DEF EntriesLive, TypeOK
<1>9. FramesOwn'
  <2>1. \A m \in OwnCommands : m.of # c
    BY <1>3, IdsRange DEF OwnCommands, Commands
  <2>2. \A r \in OwnResponses : r.of # c
    BY <1>3, IdsRange DEF OwnResponses, Responses
  <2>3. OwnCommands \subseteq OwnCommands'
    BY <1>1, <2>1 DEF OwnCommands, Commands, TypeOK
  <2>4. OwnResponses \subseteq OwnResponses'
    BY <1>1, <2>2 DEF OwnResponses, Responses, TypeOK
  <2>5. QED BY <1>1, <2>3, <2>4, FramesKept
<1>10. MailOwn'
  <2>1. SUFFICES ASSUME NEW d \in Calls, mail[d] # NoResponse
                 PROVE  pc'[d] \in {"wait", "done"} /\ mail[d].of = d /\ mail[d].id = cid'[d]
    BY <1>1 DEF MailOwn
  <2>2. pc[d] \in {"wait", "done"} /\ mail[d].of = d /\ mail[d].id = cid[d]
    BY <2>1 DEF MailOwn
  <2>3. d # c BY <1>1, <2>2
  <2>4. QED BY <1>1, <2>2, <2>3 DEF TypeOK
<1>11. OwnAnswer' BY <1>1 DEF OwnAnswer, TypeOK
<1>12. QED BY <1>4, <1>5, <1>6, <1>7, <1>8, <1>9, <1>10, <1>11

\* What a step of a call that has its id leaves as it is.
LEMMA StartedCalls ==
  ASSUME RpcConstants, Inv, NEW c \in Calls, pc[c] # "idle",
         NEW k \in {"send", "wait", "expired", "done"},
         pc' = [pc EXCEPT ![c] = k], UNCHANGED <<cid, next>>
  PROVE  /\ cid[c] \in Ids
         /\ Counted' /\ IdsOnce'
         /\ OwnCommands' = OwnCommands /\ OwnResponses' = OwnResponses
<1> USE DEF Inv
<1>1. cid[c] \in Ids BY DEF IdsOnce, TypeOK
<1>2. Started' = Started BY DEF Started, TypeOK
<1>3. Counted' BY <1>2 DEF Counted
<1>4. IdsOnce' BY DEF IdsOnce, TypeOK
<1>5. OwnCommands' = OwnCommands /\ OwnResponses' = OwnResponses
  BY DEF OwnCommands, OwnResponses
<1>6. QED BY <1>1, <1>3, <1>4, <1>5

\* A call that gives up takes its entry out and returns an error of its own:
\* the end of `call_rpc` after a timeout or a failed send.
LEMMA GivesUp ==
  ASSUME RpcConstants, Inv, NEW c \in Calls, pc[c] \in {"send", "expired"},
         NEW why \in {"Timeout", "SessionClosed"},
         inflight' = [inflight EXCEPT ![cid[c]] = NoCall], Return(c, Failed(c, why)),
         UNCHANGED <<next, cid, mail, req, resp, running, busy, open, stalled, answered>>
  PROVE  Inv'
<1> USE DEF Inv
<1>1. /\ pc' = [pc EXCEPT ![c] = "done"]
      /\ result' = [result EXCEPT ![c] = Response(cid[c], c, why)]
  BY DEF Return, Failed
<1>2. /\ cid[c] \in Ids /\ Counted' /\ IdsOnce'
      /\ OwnCommands' = OwnCommands /\ OwnResponses' = OwnResponses
  BY <1>1, StartedCalls
<1>3. Response(cid[c], c, why) \in Responses BY <1>2 DEF Responses, Response
<1>4. TypeOK' BY <1>1, <1>2 DEF TypeOK
<1>5. PayloadTyped' BY <1>1, <1>3 DEF PayloadTyped
<1>6. EntriesLive'
  <2>1. SUFFICES ASSUME NEW i \in Ids, inflight'[i] \in Calls
                 PROVE  /\ cid[inflight'[i]] = i
                        /\ pc'[inflight'[i]] \in {"send", "wait", "expired"}
                        /\ mail[inflight'[i]] = NoResponse
    BY DEF EntriesLive
  <2>2. i # cid[c] /\ inflight'[i] = inflight[i] BY <1>2, <2>1 DEF TypeOK, RpcConstants
  <2>3. inflight[i] # c BY <2>1, <2>2 DEF EntriesLive
  <2>4. QED BY <1>1, <2>1, <2>2, <2>3 DEF EntriesLive, TypeOK
<1>7. FramesOwn' BY <1>2, FramesKept
<1>8. MailOwn' BY <1>1 DEF MailOwn, TypeOK
<1>9. OwnAnswer' BY <1>1 DEF OwnAnswer, PayloadTyped, TypeOK, Response
<1>10. QED BY <1>2, <1>4, <1>5, <1>6, <1>7, <1>8, <1>9

\* The call registers itself before it sends.
LEMMA InsertInv ==
  ASSUME RpcConstants, Inv, NEW c \in Calls, Insert(c) PROVE Inv'
<1> USE DEF Inv
<1>1. /\ pc[c] = "insert" /\ inflight' = [inflight EXCEPT ![cid[c]] = c]
      /\ pc' = [pc EXCEPT ![c] = "send"]
      /\ UNCHANGED <<next, cid, result, mail, req, resp, running, busy, open, stalled, answered>>
  BY DEF Insert
<1>2. /\ cid[c] \in Ids /\ Counted' /\ IdsOnce'
      /\ OwnCommands' = OwnCommands /\ OwnResponses' = OwnResponses
  BY <1>1, StartedCalls
<1>3. TypeOK' BY <1>1, <1>2 DEF TypeOK
<1>4. PayloadTyped' BY <1>1 DEF PayloadTyped
<1>5. mail[c] = NoResponse BY <1>1 DEF MailOwn
<1>6. EntriesLive'
  BY <1>1, <1>2, <1>5 DEF EntriesLive, TypeOK
<1>7. FramesOwn' BY <1>1, <1>2, FramesKept
<1>8. MailOwn' BY <1>1 DEF MailOwn, TypeOK
<1>9. OwnAnswer' BY <1>1 DEF OwnAnswer, TypeOK
<1>10. QED BY <1>2, <1>3, <1>4, <1>6, <1>7, <1>8, <1>9

\* The CMD is queued, or the writer is gone and the entry is taken out.
LEMMA SendCmdInv ==
  ASSUME RpcConstants, Inv, NEW c \in Calls, SendCmd(c) PROVE Inv'
<1> USE DEF Inv
<1>1. /\ pc[c] = "send"
      /\ UNCHANGED <<next, cid, mail, resp, running, busy, open, stalled, answered>>
  BY DEF SendCmd
<1>2. CASE /\ req' = Append(req, Cmd(cid[c], c))
           /\ pc' = [pc EXCEPT ![c] = "wait"]
           /\ UNCHANGED <<result, inflight>>
  <2>1. /\ cid[c] \in Ids /\ Counted' /\ IdsOnce'
        /\ OwnCommands' = OwnCommands /\ OwnResponses' = OwnResponses
    BY <1>1, <1>2, StartedCalls
  <2>2. TypeOK' BY <1>1, <1>2 DEF TypeOK
  <2>3. PayloadTyped' BY <1>1, <1>2 DEF PayloadTyped
  <2>4. EntriesLive' BY <1>1, <1>2 DEF EntriesLive, TypeOK
  <2>5. Cmd(cid[c], c) \in OwnCommands BY <2>1 DEF OwnCommands, Commands, Cmd
  <2>6. req' \in Seq(OwnCommands) BY <1>2, <2>5, AppendProperties DEF FramesOwn
  <2>7. FramesOwn' BY <1>1, <2>1, <2>6 DEF FramesOwn
  <2>8. MailOwn' /\ OwnAnswer' BY <1>1, <1>2 DEF MailOwn, OwnAnswer, TypeOK
  <2>9. QED BY <2>1, <2>2, <2>3, <2>4, <2>7, <2>8
<1>3. CASE /\ inflight' = [inflight EXCEPT ![cid[c]] = NoCall]
           /\ Return(c, Failed(c, "SessionClosed"))
           /\ UNCHANGED req
  BY <1>1, <1>3, GivesUp
<1>4. QED BY <1>2, <1>3 DEF SendCmd

\* The call takes its response from the channel.
LEMMA ReceiveInv ==
  ASSUME RpcConstants, Inv, NEW c \in Calls, Receive(c) PROVE Inv'
<1> USE DEF Inv
<1>1. /\ pc[c] = "wait" /\ mail[c] # NoResponse
      /\ pc' = [pc EXCEPT ![c] = "done"] /\ result' = [result EXCEPT ![c] = mail[c]]
      /\ UNCHANGED <<next, cid, inflight, mail, req, resp, running, busy, open, stalled, answered>>
  BY DEF Receive, Return
<1>2. /\ Counted' /\ IdsOnce'
      /\ OwnCommands' = OwnCommands /\ OwnResponses' = OwnResponses
  BY <1>1, StartedCalls
<1>3. TypeOK' BY <1>1 DEF TypeOK
<1>4. PayloadTyped' BY <1>1 DEF PayloadTyped
<1>5. EntriesLive' BY <1>1 DEF EntriesLive, TypeOK
<1>6. FramesOwn' BY <1>1, <1>2, FramesKept
<1>7. MailOwn' BY <1>1 DEF MailOwn, TypeOK
<1>8. OwnAnswer' BY <1>1 DEF OwnAnswer, MailOwn, PayloadTyped, TypeOK
<1>9. QED BY <1>2, <1>3, <1>4, <1>5, <1>6, <1>7, <1>8

\* The timer fires.
LEMMA ExpireInv ==
  ASSUME RpcConstants, Inv, NEW c \in Calls, Expire(c) PROVE Inv'
<1> USE DEF Inv
<1>1. /\ pc[c] = "wait" /\ mail[c] = NoResponse
      /\ pc' = [pc EXCEPT ![c] = "expired"]
      /\ UNCHANGED <<next, cid, result, inflight, mail, req, resp, running, busy, open, stalled,
                     answered>>
  BY DEF Expire
<1>2. /\ Counted' /\ IdsOnce'
      /\ OwnCommands' = OwnCommands /\ OwnResponses' = OwnResponses
  BY <1>1, StartedCalls
<1>3. TypeOK' BY <1>1 DEF TypeOK
<1>4. PayloadTyped' BY <1>1 DEF PayloadTyped
<1>5. EntriesLive' BY <1>1 DEF EntriesLive, TypeOK
<1>6. FramesOwn' BY <1>1, <1>2, FramesKept
<1>7. MailOwn' BY <1>1 DEF MailOwn, TypeOK
<1>8. OwnAnswer' BY <1>1 DEF OwnAnswer, TypeOK
<1>9. QED BY <1>2, <1>3, <1>4, <1>5, <1>6, <1>7, <1>8

\* The entry is taken out and the call returns Timeout.
LEMMA TimeoutInv ==
  ASSUME RpcConstants, Inv, NEW c \in Calls, Timeout(c) PROVE Inv'
  BY GivesUp DEF Timeout

----------------------------------------------------------------------------
(* The steps of the reader and of the callee.                              *)

\* Steps that leave the calls alone only have to keep the frames.
LEMMA CallsKept ==
  ASSUME Inv, UNCHANGED callVars, open' \in BOOLEAN, stalled' \in BOOLEAN,
         answered' \in [Calls -> Nat],
         running' \subseteq [cmd : [id : Ids, of : Calls], kind : {"none", "ok", "error"}],
         req' \in Seq(OwnCommands), resp' \in Seq(OwnResponses), busy' \subseteq OwnCommands,
         \A t \in running' : t.cmd \in OwnCommands
  PROVE  Inv'
<1> USE DEF Inv, callVars
<1>1. OwnCommands' = OwnCommands /\ OwnResponses' = OwnResponses /\ Started' = Started
  BY DEF OwnCommands, OwnResponses, Started
<1>2. busy' \subseteq [id : Ids, of : Calls] BY DEF OwnCommands, Commands
<1>3. TypeOK' BY <1>2 DEF TypeOK
<1>4. PayloadTyped' /\ Counted' /\ IdsOnce' BY <1>1 DEF PayloadTyped, Counted, IdsOnce
<1>5. EntriesLive' /\ MailOwn' /\ OwnAnswer' BY DEF EntriesLive, MailOwn, OwnAnswer
<1>6. FramesOwn' BY <1>1 DEF FramesOwn
<1>7. QED BY <1>3, <1>4, <1>5, <1>6

\* A response frame is given to the call that is registered under its id.
LEMMA HandleCmdResponseInv ==
  ASSUME RpcConstants, Inv, HandleCmdResponse PROVE Inv'
<1> USE DEF Inv
<1> DEFINE r == Head(resp)
           c == inflight[r.id]
<1>1. /\ resp # <<>> /\ resp' = Tail(resp)
      /\ UNCHANGED <<next, cid, pc, result, req, running, busy, open, stalled, answered>>
  BY DEF HandleCmdResponse
<1>2. r \in OwnResponses /\ resp' \in Seq(OwnResponses)
  BY <1>1, HeadTailProperties DEF FramesOwn
<1>3. r \in Responses /\ r.id \in Ids /\ r.of \in Calls /\ cid[r.of] = r.id
  BY <1>2 DEF OwnResponses, Responses
<1>4. OwnCommands' = OwnCommands /\ OwnResponses' = OwnResponses /\ Started' = Started
  BY <1>1 DEF OwnCommands, OwnResponses, Started
<1>5. Counted' /\ IdsOnce' /\ OwnAnswer'
  BY <1>1, <1>4 DEF Counted, IdsOnce, OwnAnswer
<1>6. FramesOwn' BY <1>1, <1>2, <1>4 DEF FramesOwn
<1>7. CASE c = NoCall
  <2>1. UNCHANGED <<inflight, mail>> BY <1>3, <1>7 DEF HandleCmdResponse
  <2>2. TypeOK' BY <1>1, <2>1 DEF TypeOK
  <2>3. PayloadTyped' BY <1>1, <2>1 DEF PayloadTyped
  <2>4. EntriesLive' /\ MailOwn' BY <1>1, <2>1 DEF EntriesLive, MailOwn
  <2>5. QED BY <1>5, <1>6, <2>2, <2>3, <2>4
<1>8. CASE c # NoCall
  <2>1. /\ inflight' = [inflight EXCEPT ![r.id] = NoCall]
        /\ mail' = IF pc[c] = "wait" THEN [mail EXCEPT ![c] = r] ELSE mail
    BY <1>3, <1>8 DEF HandleCmdResponse
  <2>2. c \in Calls BY <1>3, <1>8 DEF TypeOK
  <2>3. cid[c] = r.id /\ r.id # 0 BY <1>3, <2>2, IdsRange DEF EntriesLive
  <2>4. r.of = c BY <1>3, <2>2, <2>3 DEF IdsOnce
  <2> HIDE DEF r, c
  <2>5. TypeOK' BY <1>1, <1>3, <2>1 DEF TypeOK
  <2>6. PayloadTyped' BY <1>1, <1>3, <2>1, <2>2 DEF PayloadTyped
  <2>7. EntriesLive'
    <3>1. SUFFICES ASSUME NEW i \in Ids, inflight'[i] \in Calls
                   PROVE  /\ cid[inflight'[i]] = i
                          /\ pc[inflight'[i]] \in {"send", "wait", "expired"}
                          /\ mail'[inflight'[i]] = NoResponse
      BY <1>1 DEF EntriesLive
    <3>2. i # r.id /\ inflight'[i] = inflight[i]
      BY <1>3, <2>1, <3>1 DEF TypeOK, RpcConstants
    <3>3. inflight[i] # c BY <2>3, <3>1, <3>2 DEF EntriesLive
    <3>4. QED BY <2>1, <2>2, <3>1, <3>2, <3>3 DEF EntriesLive, PayloadTyped
  <2>8. MailOwn'
    BY <1>1, <1>3, <2>1, <2>2, <2>3, <2>4 DEF MailOwn, PayloadTyped
  <2>9. QED BY <1>5, <1>6, <2>5, <2>6, <2>7, <2>8
<1>9. QED BY <1>7, <1>8

\* A command reaches the callee: a task, or the reader's own answer.
LEMMA HandleCmdInv ==
  ASSUME RpcConstants, Inv, HandleCmd PROVE Inv'
<1> USE DEF Inv
<1>1. /\ req # <<>> /\ req' = Tail(req) /\ UNCHANGED <<callVars, resp, open, stalled, answered>>
  BY DEF HandleCmd
<1>2. Head(req) \in OwnCommands /\ req' \in Seq(OwnCommands)
  BY <1>1, HeadTailProperties DEF FramesOwn
<1>3. busy' \subseteq OwnCommands BY <1>2 DEF HandleCmd, FramesOwn
<1>4. \/ running' = running
      \/ running' = running \union {[cmd |-> Head(req), kind |-> "none"]}
  BY DEF HandleCmd
<1>5. /\ running' \subseteq [cmd : [id : Ids, of : Calls], kind : {"none", "ok", "error"}]
      /\ \A t \in running' : t.cmd \in OwnCommands
  BY <1>2, <1>4 DEF TypeOK, FramesOwn, OwnCommands, Commands
<1>6. open' \in BOOLEAN /\ stalled' \in BOOLEAN /\ answered' \in [Calls -> Nat]
  BY <1>1 DEF TypeOK
<1>7. resp' \in Seq(OwnResponses) BY <1>1 DEF FramesOwn
<1>8. QED BY <1>1, <1>2, <1>3, <1>5, <1>6, <1>7, CallsKept

\* The handler of a command returns.
LEMMA HandlerReturnsInv ==
  ASSUME RpcConstants, Inv, NEW t \in running, HandlerReturns(t) PROVE Inv'
<1> USE DEF Inv
<1>1. PICK k \in {"ok", "error"} : running' = (running \ {t}) \union {[t EXCEPT !.kind = k]}
  BY DEF HandlerReturns
<1>2. UNCHANGED <<callVars, req, resp, busy, open, stalled, answered>>
  BY DEF HandlerReturns
<1>3. t \in [cmd : [id : Ids, of : Calls], kind : {"none", "ok", "error"}] /\ t.cmd \in OwnCommands
  BY DEF TypeOK, FramesOwn
<1>4. /\ [t EXCEPT !.kind = k] \in [cmd : [id : Ids, of : Calls], kind : {"none", "ok", "error"}]
      /\ [t EXCEPT !.kind = k].cmd = t.cmd
  BY <1>3
<1>5. /\ running' \subseteq [cmd : [id : Ids, of : Calls], kind : {"none", "ok", "error"}]
      /\ \A u \in running' : u.cmd \in OwnCommands
  BY <1>1, <1>3, <1>4 DEF TypeOK, FramesOwn
<1>6. /\ open' \in BOOLEAN /\ stalled' \in BOOLEAN /\ answered' \in [Calls -> Nat]
  BY <1>2 DEF TypeOK
<1>7. req' \in Seq(OwnCommands) /\ resp' \in Seq(OwnResponses) /\ busy' \subseteq OwnCommands
  BY <1>2 DEF FramesOwn
<1>8. QED BY <1>2, <1>5, <1>6, <1>7, CallsKept

\* A response is queued once, or twice by a transport that repeats it.
LEMMA QueueKeepsFrames ==
  ASSUME Inv, NEW r \in OwnResponses, Queue(r)
  PROVE  resp' \in Seq(OwnResponses) /\ answered' \in [Calls -> Nat]
<1> USE DEF Inv
<1>1. resp \in Seq(OwnResponses) BY DEF FramesOwn
<1>2. <<r, r>> \in Seq(OwnResponses) OBVIOUS
<1>3. resp' \in Seq(OwnResponses)
  BY <1>1, <1>2, AppendProperties, ConcatProperties DEF Queue
<1>4. r.of \in Calls BY DEF OwnResponses, Responses
<1>5. answered' \in [Calls -> Nat] BY <1>4 DEF Queue, TypeOK
<1>6. QED BY <1>3, <1>5

\* A task queues its response and releases its permit.
LEMMA HandlerSendsInv ==
  ASSUME RpcConstants, Inv, NEW t \in running, HandlerSends(t) PROVE Inv'
<1> USE DEF Inv
<1>1. /\ t.kind # "none" /\ running' = running \ {t}
      /\ UNCHANGED <<callVars, req, busy, open, stalled>>
  BY DEF HandlerSends
<1>2. t \in [cmd : [id : Ids, of : Calls], kind : {"none", "ok", "error"}] /\ t.cmd \in OwnCommands
  BY DEF TypeOK, FramesOwn
<1>3. Response(t.cmd.id, t.cmd.of, t.kind) \in OwnResponses
  BY <1>1, <1>2 DEF OwnResponses, OwnCommands, Commands, Responses, Response
<1>4. resp' \in Seq(OwnResponses) /\ answered' \in [Calls -> Nat]
  BY <1>3, QueueKeepsFrames DEF HandlerSends
<1>5. /\ running' \subseteq [cmd : [id : Ids, of : Calls], kind : {"none", "ok", "error"}]
      /\ \A u \in running' : u.cmd \in OwnCommands
  BY <1>1 DEF TypeOK, FramesOwn
<1>6. open' \in BOOLEAN /\ stalled' \in BOOLEAN BY <1>1 DEF TypeOK
<1>7. req' \in Seq(OwnCommands) /\ busy' \subseteq OwnCommands BY <1>1 DEF FramesOwn
<1>8. QED BY <1>1, <1>4, <1>5, <1>6, <1>7, CallsKept

\* The reader queues "server busy".
LEMMA BusySendsInv ==
  ASSUME RpcConstants, Inv, BusySends PROVE Inv'
<1> USE DEF Inv
<1>1. PICK m \in busy :
        /\ Queue(Response(m.id, m.of, "error"))
        /\ busy' = {} /\ UNCHANGED <<callVars, req, running, open, stalled>>
  BY DEF BusySends
<1>2. m \in OwnCommands BY DEF FramesOwn
<1>3. Response(m.id, m.of, "error") \in OwnResponses
  BY <1>2 DEF OwnResponses, OwnCommands, Commands, Responses, Response
<1>4. resp' \in Seq(OwnResponses) /\ answered' \in [Calls -> Nat]
  BY <1>1, <1>3, QueueKeepsFrames
<1>5. /\ running' \subseteq [cmd : [id : Ids, of : Calls], kind : {"none", "ok", "error"}]
      /\ \A u \in running' : u.cmd \in OwnCommands
      /\ open' \in BOOLEAN /\ stalled' \in BOOLEAN
  BY <1>1 DEF TypeOK, FramesOwn
<1>6. req' \in Seq(OwnCommands) /\ busy' \subseteq OwnCommands BY <1>1 DEF FramesOwn
<1>7. QED BY <1>1, <1>4, <1>5, <1>6, CallsKept

\* The session ends and some of the frames are lost, or the callee stalls.
LEMMA EnvironmentInv ==
  ASSUME RpcConstants, Inv, SessionEnds \/ CalleeStalls PROVE Inv'
<1> USE DEF Inv
<1>1. UNCHANGED <<callVars, resp, running, busy, answered>>
  BY DEF SessionEnds, CalleeStalls
<1>2. open' \in BOOLEAN /\ stalled' \in BOOLEAN BY DEF SessionEnds, CalleeStalls, TypeOK
<1>3. req' \in Seq(OwnCommands)
  <2>1. CASE CalleeStalls BY <2>1 DEF CalleeStalls, FramesOwn
  <2>2. CASE SessionEnds
    <3>1. PICK n \in 0..Len(req) : req' = SubSeq(req, 1, n) BY <2>2 DEF SessionEnds
    <3>2. req \in Seq(OwnCommands) /\ Len(req) \in Nat BY LenProperties DEF FramesOwn
    <3>3. \A i \in 1..n : req[i] \in OwnCommands BY <3>2, ElementOfSeq
    <3>4. QED BY <3>1, <3>2, <3>3, SubSeqProperties
  <2>3. QED BY <2>1, <2>2
<1>4. /\ running' \subseteq [cmd : [id : Ids, of : Calls], kind : {"none", "ok", "error"}]
      /\ answered' \in [Calls -> Nat]
  BY <1>1 DEF TypeOK
<1>5. /\ resp' \in Seq(OwnResponses) /\ busy' \subseteq OwnCommands
      /\ \A t \in running' : t.cmd \in OwnCommands
  BY <1>1 DEF FramesOwn
<1>6. QED BY <1>1, <1>2, <1>3, <1>4, <1>5, CallsKept

----------------------------------------------------------------------------
\* Every step keeps the invariant.
LEMMA NextInv ==
  ASSUME RpcConstants, Inv, [Next]_vars PROVE Inv'
<1>1. CASE \E c \in Calls : CallStep(c)
  BY <1>1, AllocateInv, InsertInv, SendCmdInv, ReceiveInv, ExpireInv, TimeoutInv DEF CallStep
<1>2. CASE HandleCmdResponse BY <1>2, HandleCmdResponseInv
<1>3. CASE CalleeStep
  BY <1>3, HandleCmdInv, BusySendsInv, HandlerReturnsInv, HandlerSendsInv DEF CalleeStep
<1>4. CASE SessionEnds \/ CalleeStalls BY <1>4, EnvironmentInv
<1>5. CASE UNCHANGED vars
  <2>1. UNCHANGED <<callVars, req, resp, running, busy, open, stalled, answered>>
    BY <1>5 DEF vars
  <2>2. /\ open' \in BOOLEAN /\ stalled' \in BOOLEAN /\ answered' \in [Calls -> Nat]
        /\ running' \subseteq [cmd : [id : Ids, of : Calls], kind : {"none", "ok", "error"}]
    BY <2>1 DEF Inv, TypeOK
  <2>3. /\ req' \in Seq(OwnCommands) /\ resp' \in Seq(OwnResponses)
        /\ busy' \subseteq OwnCommands /\ \A t \in running' : t.cmd \in OwnCommands
    BY <2>1 DEF Inv, FramesOwn
  <2>4. QED BY <2>1, <2>2, <2>3, CallsKept
<1>6. QED BY <1>1, <1>2, <1>3, <1>4, <1>5 DEF Next

\* The invariant holds in every state of every behaviour.
LEMMA Invariant ==
  ASSUME RpcConstants PROVE Spec => []Inv
<1>1. Init => Inv BY InitInv
<1>2. Inv /\ [Next]_vars => Inv' BY NextInv
<1>3. QED BY <1>1, <1>2, PTL DEF Spec

\* Every variable of the RPC channel keeps its type: in particular the ids
\* that next_cmd_id gives out never exceed the number of calls made.
THEOREM RpcTypeCorrect ==
  ASSUME RpcConstants PROVE Spec => []TypeOK
<1>1. Inv => TypeOK BY DEF Inv
<1>2. QED BY <1>1, Invariant, PTL

\* call_rpc returns the response to its own command and no other, for any
\* number of concurrent calls, however late, out of order or repeated the
\* responses are and wherever the session ends or the callee stalls.
THEOREM AnswersAreOwn ==
  ASSUME RpcConstants PROVE Spec => []OwnAnswer
<1>1. Inv => OwnAnswer BY DEF Inv
<1>2. QED BY <1>1, Invariant, PTL

\* A call that has returned, with a response, a timeout or a failed send, has
\* no entry in in_flight_calls.
THEOREM ReturnedCallsForgotten ==
  ASSUME RpcConstants PROVE Spec => []NoStaleEntry
<1>1. Inv => NoStaleEntry BY DEF Inv, NoStaleEntry, EntriesLive
<1>2. QED BY <1>1, Invariant, PTL

============================================================================
