----------------------------- MODULE TunnelRpc -----------------------------
(***************************************************************************)
(* The RPC channel of a debug session: concurrent `call_rpc` calls on one  *)
(* endpoint, `handle_cmd` tasks under a semaphore on the other, CMD and    *)
(* CMD_RESPONSE frames between them.  The queues `req` and `resp` stand    *)
(* for the sender's bounded outbound channel and the transport behind it.  *)
(***************************************************************************)
EXTENDS Naturals, Sequences, FiniteSets

CONSTANTS
    Calls,      \* concurrent calls
    Permits,    \* cmd_semaphore's permits (32)
    Capacity,   \* frames a queue holds before a send waits
    Faults      \* bound: "close", "error", "dup", "stall" happen only if listed

NoCall == "none"

\* What the constants are; a theorem about this module takes it as hypothesis.
RpcConstants ==
    /\ IsFiniteSet(Calls) /\ NoCall \notin Calls
    /\ Permits \in Nat \ {0} /\ Capacity \in Nat \ {0}
    /\ Faults \subseteq {"close", "error", "dup", "stall"}

\* Ids start at 2: fetch_add(1) returns the old value and the code adds 1.
Ids == 2..(Cardinality(Calls) + 1)

VARIABLES
    next,      \* next_cmd_id
    cid,       \* the id a call was given (0 before)
    pc,        \* program counter of call_rpc
    result,    \* what it returned
    inflight,  \* in_flight_calls: id -> call
    mail,      \* the value in a call's oneshot channel
    req,       \* CMD frames on their way
    resp,      \* CMD_RESPONSE frames on their way
    running,   \* handle_cmd tasks, each holding a permit
    busy,      \* the callee's reader, answering "server busy"
    open,      \* the caller's writer task is running
    stalled,   \* the callee has stopped, with the connection still up
    answered   \* history: how many responses were queued for each call

callVars == <<next, cid, pc, result, inflight, mail>>
vars == <<callVars, req, resp, running, busy, open, stalled, answered>>

Cmd(id, c)         == [id |-> id, of |-> c]
Response(id, c, k) == [id |-> id, of |-> c, kind |-> k]
NoResponse         == Response(0, NoCall, "none")

Init ==
    /\ next = 1
    /\ cid = [c \in Calls |-> 0]
    /\ pc = [c \in Calls |-> "idle"]
    /\ result = [c \in Calls |-> NoResponse]
    /\ inflight = [i \in Ids |-> NoCall]
    /\ mail = [c \in Calls |-> NoResponse]
    /\ req = <<>>
    /\ resp = <<>>
    /\ running = {}
    /\ busy = {}
    /\ open = TRUE
    /\ stalled = FALSE
    /\ answered = [c \in Calls |-> 0]

----------------------------------------------------------------------------
(* call_rpc.                                                               *)

\* Mutant: ids are handed out by the number of calls in flight.
AllocateByCount(c) ==
    /\ pc[c] = "idle"
    /\ cid' = [cid EXCEPT ![c] = 2 + Cardinality({i \in Ids : inflight[i] # NoCall})]
    /\ next' = next + 1
    /\ pc' = [pc EXCEPT ![c] = "insert"]
    /\ UNCHANGED <<result, inflight, mail, req, resp, running, busy, open, stalled, answered>>

Allocate(c) ==
    /\ pc[c] = "idle"
    /\ cid' = [cid EXCEPT ![c] = next + 1]
    /\ next' = next + 1
    /\ pc' = [pc EXCEPT ![c] = "insert"]
    /\ UNCHANGED <<result, inflight, mail, req, resp, running, busy, open, stalled, answered>>

Insert(c) ==
    /\ pc[c] = "insert"
    /\ inflight' = [inflight EXCEPT ![cid[c]] = c]
    /\ pc' = [pc EXCEPT ![c] = "send"]
    /\ UNCHANGED <<next, cid, result, mail, req, resp, running, busy, open, stalled, answered>>

Return(c, r) ==
    /\ pc' = [pc EXCEPT ![c] = "done"]
    /\ result' = [result EXCEPT ![c] = r]

Failed(c, why) == Response(cid[c], c, why)

\* write_frame waits while the queue is full, and fails once the writer is
\* gone; the failure path takes the entry out again.
SendCmd(c) ==
    /\ pc[c] = "send"
    /\ \/ /\ open
          /\ Len(req) < Capacity
          /\ req' = Append(req, Cmd(cid[c], c))
          /\ pc' = [pc EXCEPT ![c] = "wait"]
          /\ UNCHANGED <<result, inflight>>
       \/ /\ ~open
          /\ inflight' = [inflight EXCEPT ![cid[c]] = NoCall]
          /\ Return(c, Failed(c, "SessionClosed"))
          /\ UNCHANGED req
    /\ UNCHANGED <<next, cid, mail, resp, running, busy, open, stalled, answered>>

\* The response is in the oneshot channel: `timeout` polls it first.
Receive(c) ==
    /\ pc[c] = "wait"
    /\ mail[c] # NoResponse
    /\ Return(c, mail[c])
    /\ UNCHANGED <<next, cid, inflight, mail, req, resp, running, busy, open, stalled, answered>>

\* The timer fired with no response there; the entry is removed in a second
\* step, and a response can arrive in between.
Expire(c) ==
    /\ pc[c] = "wait"
    /\ mail[c] = NoResponse
    /\ pc' = [pc EXCEPT ![c] = "expired"]
    /\ UNCHANGED <<next, cid, result, inflight, mail, req, resp, running, busy, open, stalled, answered>>

\* Mutant: a call that timed out leaves its entry behind.
TimeoutKeepsEntry(c) ==
    /\ pc[c] = "expired"
    /\ Return(c, Failed(c, "Timeout"))
    /\ UNCHANGED <<next, cid, inflight, mail, req, resp, running, busy, open, stalled, answered>>

Timeout(c) ==
    /\ pc[c] = "expired"
    /\ inflight' = [inflight EXCEPT ![cid[c]] = NoCall]
    /\ Return(c, Failed(c, "Timeout"))
    /\ UNCHANGED <<next, cid, mail, req, resp, running, busy, open, stalled, answered>>

\* handle_cmd_response: an unknown id is ignored, and so is a send to a call
\* that has dropped its receiver.
HandleCmdResponse ==
    LET r == Head(resp)
        c == IF r.id \in Ids THEN inflight[r.id] ELSE NoCall
    IN
    /\ resp # <<>>
    /\ resp' = Tail(resp)
    /\ \/ /\ c # NoCall
          /\ inflight' = [inflight EXCEPT ![r.id] = NoCall]
          /\ mail' = IF pc[c] = "wait" THEN [mail EXCEPT ![c] = r] ELSE mail
       \/ /\ c = NoCall
          /\ UNCHANGED <<inflight, mail>>
    /\ UNCHANGED <<next, cid, pc, result, req, running, busy, open, stalled, answered>>

----------------------------------------------------------------------------
(* The callee: dispatch_frame's CMD arm and handle_cmd.                    *)

\* Mutant: with no permit free the command is dropped without an answer.
HandleCmdDrops ==
    /\ req # <<>> /\ busy = {} /\ ~stalled
    /\ req' = Tail(req)
    /\ running' = IF Cardinality(running) < Permits
                  THEN running \cup {[cmd |-> Head(req), kind |-> "none"]} ELSE running
    /\ UNCHANGED <<callVars, resp, busy, open, stalled, answered>>

\* try_acquire_owned: a permit for the new task, or the reader itself answers.
HandleCmd ==
    /\ req # <<>> /\ busy = {} /\ ~stalled
    /\ req' = Tail(req)
    /\ \/ /\ Cardinality(running) < Permits
          /\ running' = running \cup {[cmd |-> Head(req), kind |-> "none"]}
          /\ UNCHANGED busy
       \/ /\ Cardinality(running) >= Permits
          /\ busy' = {Head(req)}
          /\ UNCHANGED running
    /\ UNCHANGED <<callVars, resp, open, stalled, answered>>

\* The handler returns; an error, a panic and an unknown name all become an
\* error response.
HandlerReturns(t) ==
    /\ t.kind = "none" /\ ~stalled
    /\ \E k \in {"ok"} \cup (IF "error" \in Faults THEN {"error"} ELSE {}) :
          running' = (running \ {t}) \cup {[t EXCEPT !.kind = k]}
    /\ UNCHANGED <<callVars, req, resp, busy, open, stalled, answered>>

Queue(r) ==
    /\ Len(resp) < Capacity /\ ~stalled
    /\ \/ resp' = Append(resp, r)
       \/ "dup" \in Faults /\ resp' = resp \o <<r, r>>
    /\ answered' = [answered EXCEPT ![r.of] = @ + 1]

\* The permit is released when the task ends, after its response is queued.
HandlerSends(t) ==
    /\ t.kind # "none"
    /\ Queue(Response(t.cmd.id, t.cmd.of, t.kind))
    /\ running' = running \ {t}
    /\ UNCHANGED <<callVars, req, busy, open, stalled>>

BusySends ==
    \E m \in busy :
       /\ Queue(Response(m.id, m.of, "error"))
       /\ busy' = {}
       /\ UNCHANGED <<callVars, req, running, open, stalled>>

\* The caller's session ends: the writer task returns and the frames it had
\* not written are dropped; those already on the wire are delivered.
SessionEnds ==
    /\ "close" \in Faults
    /\ open
    /\ open' = FALSE
    /\ \E n \in 0..Len(req) : req' = SubSeq(req, 1, n)
    /\ UNCHANGED <<callVars, resp, running, busy, stalled, answered>>

\* The callee stops reading and answering: a suspended process, a debugger.
CalleeStalls ==
    /\ "stall" \in Faults
    /\ ~stalled
    /\ stalled' = TRUE
    /\ UNCHANGED <<callVars, req, resp, running, busy, open, answered>>

----------------------------------------------------------------------------
CallStep(c) ==
    Allocate(c) \/ Insert(c) \/ SendCmd(c) \/ Receive(c) \/ Expire(c) \/ Timeout(c)

CalleeStep ==
    \/ HandleCmd \/ BusySends
    \/ \E t \in running : HandlerReturns(t) \/ HandlerSends(t)

Next ==
    \/ \E c \in Calls : CallStep(c)
    \/ HandleCmdResponse
    \/ CalleeStep
    \/ SessionEnds \/ CalleeStalls

Spec == Init /\ [][Next]_vars

\* The caller's tasks run and its timers fire; the callee keeps reading and
\* its handlers return, unless it has stalled.
CallerStep(c) == Insert(c) \/ SendCmd(c) \/ Receive(c) \/ Expire(c) \/ Timeout(c)
Handles(c) == \E t \in running : t.cmd.of = c /\ (HandlerReturns(t) \/ HandlerSends(t))

Fairness ==
    /\ \A c \in Calls : WF_vars(CallerStep(c)) /\ WF_vars(Handles(c))
    /\ WF_vars(HandleCmdResponse)
    /\ WF_vars(HandleCmd) /\ WF_vars(BusySends)

FairSpec == Spec /\ Fairness

----------------------------------------------------------------------------
\* The type of every variable.
TypeOK ==
    /\ next \in 1..(Cardinality(Calls) + 1)
    /\ cid \in [Calls -> Ids \cup {0}]
    /\ pc \in [Calls -> {"idle", "insert", "send", "wait", "expired", "done"}]
    /\ inflight \in [Ids -> Calls \cup {NoCall}]
    /\ running \subseteq [cmd : [id : Ids, of : Calls], kind : {"none", "ok", "error"}]
    /\ busy \subseteq [id : Ids, of : Calls]
    /\ open \in BOOLEAN /\ stalled \in BOOLEAN
    /\ answered \in [Calls -> Nat]

\* A call returns only the answer to its own command, however late, out of
\* order or duplicated the responses are (ids are never reused).
OwnAnswer ==
    \A c \in Calls : pc[c] = "done" => result[c].of = c /\ result[c].id = cid[c]

\* A call that has returned holds no entry in in_flight_calls, whichever of
\* the response, the timeout and the failed send came first.
NoStaleEntry ==
    \A c \in Calls : pc[c] = "done" => \A i \in Ids : inflight[i] # c

\* Every command that reaches a callee which keeps running is answered:
\* semaphore exhaustion gives "server busy", never silence.
CommandAnswered ==
    \A c \in Calls :
        (\E i \in DOMAIN req : req[i].of = c) ~> (answered[c] > 0 \/ ~open \/ stalled)

============================================================================
