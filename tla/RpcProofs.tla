----------------------------- MODULE RpcProofs ------------------------------
(***************************************************************************)
(* Proofs about RpcSystem, for every value of its constants: the state     *)
(* stays within its types, and a client with a nonce has each of its       *)
(* application calls executed at most once.                                *)
(***************************************************************************)
EXTENDS RpcSystem, WellFoundedInduction, TLAPS

-----------------------------------------------------------------------------
(***************************************************************************)
(* The client's window of acknowledged xids.                               *)
(***************************************************************************)
\* A nonempty set of naturals has a least element.
LEMMA LeastNatural ==
    ASSUME NEW S, S \subseteq Nat, S # {}
    PROVE  \E m \in S : \A k \in S : m <= k
<1>1. IsWellFoundedOn(OpToRel(<, Nat), Nat)
  BY NatLessThanWellFounded, Zenon
<1>2. \E m \in S : \A k \in S : ~ (<<k, m>> \in OpToRel(<, Nat))
  BY <1>1, WFMin, Zenon
<1>3. PICK m \in S : \A k \in S : ~ (<<k, m>> \in OpToRel(<, Nat))
  BY <1>2, Zenon
<1>4. \A k \in S : ~ (k < m)
  BY <1>3, Zenon DEF OpToRel
<1>5. m \in Nat /\ \A k \in S : k \in Nat
  BY <1>3
<1>6. \A k \in S : m <= k
  BY <1>4, <1>5
<1> QED
  BY <1>3, <1>6

\* The front of xid_rep_window_ is its least element.
LEMMA FrontIsLeast ==
    ASSUME NEW w, w \subseteq Nat, w # {}
    PROVE  /\ Front(w) \in w
           /\ Front(w) \in Nat
           /\ \A y \in w : Front(w) <= y
<1>1. \E m \in w : \A y \in w : m <= y
  BY LeastNatural
<1>2. Front(w) \in w /\ \A y \in w : Front(w) <= y
  BY <1>1, Zenon DEF Front
<1> QED
  BY <1>2

\* An xid above the front that is neither in the list nor being inserted stops
\* the popping of update_xid_rep: the element below the first gap stays.
LEMMA UpdateXidRepStops ==
    ASSUME NEW w, w \subseteq Nat, w # {}, NEW x \in Nat,
           NEW k \in Nat, Front(w) < k, k \notin w \cup {x}
    PROVE  \E y \in UpdateXidRep(w, x) : y < k
<1> DEFINE f == Front(w)
           s == w \cup {x}
           gaps == {g \in Nat : f < g /\ g \notin s}
<1>1. f \in w /\ f \in Nat
  BY FrontIsLeast
<1>2. CASE x <= f
  BY <1>1, <1>2 DEF UpdateXidRep
<1>3. CASE ~ (x <= f)
  <2>1. UpdateXidRep(w, x) = {y \in s : ~ (f..(y + 1) \subseteq s)}
    BY <1>3 DEF UpdateXidRep
  <2>2. k \in gaps
    OBVIOUS
  <2>3. PICK m \in gaps : \A g \in gaps : m <= g
    <3>1. gaps \subseteq Nat /\ gaps # {}
      BY <2>2
    <3> QED
      BY <3>1, LeastNatural
  <2>4. m \in Nat /\ f < m /\ m \notin s /\ m <= k
    BY <2>2, <2>3
  <2>5. m - 1 \in s
    <3>1. CASE m - 1 = f
      BY <3>1, <1>1
    <3>2. CASE m - 1 # f
      <4>1. m - 1 \in Nat /\ f < m - 1 /\ ~ (m <= m - 1)
        BY <3>2, <2>4, <1>1
      <4>2. m - 1 \notin gaps
        BY <4>1, <2>3
      <4> QED
        BY <4>1, <4>2
    <3> QED
      BY <3>1, <3>2
  <2>6. m \in f..((m - 1) + 1)
    BY <2>4, <1>1
  <2>7. m - 1 \in UpdateXidRep(w, x)
    BY <2>1, <2>4, <2>5, <2>6
  <2> QED
    BY <2>4, <2>7
<1> QED
  BY <1>2, <1>3

\* update_xid_rep adds nothing but the xid and never empties the window.
LEMMA UpdateXidRepWindow ==
    ASSUME NEW N \in Nat, NEW w, w \subseteq 0..N, w # {}, NEW x \in 0..N
    PROVE  /\ UpdateXidRep(w, x) \subseteq w \cup {x}
           /\ UpdateXidRep(w, x) # {}
<1>1. w \subseteq Nat /\ x \in Nat /\ N + 1 \in Nat /\ N + 1 \notin w \cup {x}
  OBVIOUS
<1>2. Front(w) < N + 1
  <2>1. Front(w) \in w
    BY <1>1, FrontIsLeast
  <2>2. Front(w) \in 0..N
    BY <2>1
  <2> QED
    BY <2>2
<1>3. \E y \in UpdateXidRep(w, x) : y < N + 1
  BY <1>1, <1>2, UpdateXidRepStops
<1>4. UpdateXidRep(w, x) \subseteq w \cup {x}
  BY DEF UpdateXidRep
<1> QED
  BY <1>3, <1>4

-----------------------------------------------------------------------------
(***************************************************************************)
(* Type correctness.                                                       *)
(***************************************************************************)
\* connection::send keeps the network within its types, at either end.
LEMMA SendRequestType ==
    ASSUME NetTypeOK, link' \in [Conn -> {"unused", "up", "broken"}], sdead' = sdead,
           NEW c \in Conn, NEW pdus \in SUBSET Request, SendRequest(c, pdus)
    PROVE  NetTypeOK'
BY DEF NetTypeOK, SendRequest

\* connection::send of a reply keeps the types of what it changes.
LEMMA SendReplyType ==
    ASSUME NetTypeOK, NEW c \in Conn, NEW pdu \in Reply, SendReply(c, pdu)
    PROVE  s2c' \in [Conn -> SUBSET Reply] /\ sdead' \in SUBSET Conn
BY DEF NetTypeOK, SendReply

\* The reply that dispatch packs is a reply.
LEMMA ReplyToType ==
    ASSUME ServerTypeOK, NEW req \in Request, NEW ret \in Outcome
    PROVE  ReplyTo(req, ret) \in Reply
BY DEF ServerTypeOK, ReplyTo, Request, Reply

\* The invariant that carries the types: Front is defined on the window.
TypeInv == TypeOK /\ xid_rep_window # {}

\* The initial state has its types, and xid_rep_window_ holds 0.
LEMMA InitType == Init => TypeInv
<1> SUFFICES ASSUME Init PROVE TypeInv
  OBVIOUS
<1> USE BoundsAssumption, ClientAssumption
<1>1. NetTypeOK
  BY DEF Init, NetInit, NetTypeOK
<1>2. ClientTypeOK /\ xid_rep_window # {}
  <2>1. call \in [Xid -> Caller]
    BY DEF Init, ClientInit, Caller, Request, Proc, NoConn, Outcome, Failure
  <2>2. xid_ \in 1..(MaxXid + 1) /\ xid_rep_window \in SUBSET (0..MaxXid)
    BY DEF Init, ClientInit
  <2>3. /\ calls \in SUBSET Xid /\ xid_rep_window # {}
        /\ chan \in {NoConn} \cup Conn
        /\ srv_nonce \in {0} \cup Nonce
        /\ dup_req \in SUBSET Request
        /\ xid_rep_done \in Int
        /\ cancel \in {"idle", "waiting", "done"}
    BY DEF Init, ClientInit
  <2>4. bind_done \in BOOLEAN
    BY Zenon DEF Init, ClientInit
  <2> QED
    BY <2>1, <2>2, <2>3, <2>4 DEF ClientTypeOK
<1>3. ServerTypeOK
  BY DEF Init, ServerInit, ServerTypeOK, Dispatch, Idle, Request, Proc, Xid, Nonce, NoConn
<1> QED
  BY <1>1, <1>2, <1>3 DEF TypeInv, TypeOK

\* The window the client keeps after update_xid_rep.
LEMMA UpdateXidRepType ==
    ASSUME TypeInv, NEW x \in Xid
    PROVE  /\ UpdateXidRep(xid_rep_window, x) \in SUBSET (0..MaxXid)
           /\ UpdateXidRep(xid_rep_window, x) # {}
           /\ UpdateXidRep(xid_rep_window, x) \subseteq xid_rep_window \cup {x}
<1>1. MaxXid \in Nat /\ x \in 0..MaxXid
  BY BoundsAssumption DEF Xid
<1>2. xid_rep_window \subseteq 0..MaxXid /\ xid_rep_window # {}
  BY DEF TypeInv, TypeOK, ClientTypeOK
<1>3. /\ UpdateXidRep(xid_rep_window, x) \subseteq xid_rep_window \cup {x}
      /\ UpdateXidRep(xid_rep_window, x) # {}
  BY <1>1, <1>2, UpdateXidRepWindow, Zenon
<1> QED
  BY <1>1, <1>2, <1>3

\* A break of a stream, or a read that fails, preserves the types.
LEMMA NetStepType ==
    ASSUME TypeInv, NEW c \in Conn, NetStep(c)
    PROVE  TypeInv'
<1> USE DEF TypeInv, TypeOK, NetStep
<1>1. ClientTypeOK' /\ ServerTypeOK' /\ xid_rep_window' # {}
  BY DEF ClientTypeOK, ServerTypeOK, clientVars, serverVars
<1>2. NetTypeOK'
  <2>1. CASE Break(c)
    BY <2>1 DEF Break, NetTypeOK
  <2>2. CASE ClientReadFails(c)
    BY <2>2 DEF ClientReadFails, NetTypeOK
  <2>3. CASE ServerReadFails(c)
    BY <2>3 DEF ServerReadFails, NetTypeOK
  <2> QED
    BY <2>1, <2>2, <2>3
<1> QED
  BY <1>1, <1>2

\* Every step of rpcs::dispatch preserves the types.
LEMMA WorkerStepType ==
    ASSUME TypeInv, NEW w \in Worker, WorkerStep(w)
    PROVE  TypeInv'
<1> USE DEF TypeInv, TypeOK
<1>1. ClientTypeOK' /\ xid_rep_window' # {}
  BY DEF WorkerStep, ClientTypeOK, clientVars
<1>2. worker[w].req \in Request /\ worker[w].c \in {NoConn} \cup Conn
  BY DEF ServerTypeOK, Dispatch
<1>3. Idle \in Dispatch /\ Idle.pc = "idle"
  BY BoundsAssumption DEF Idle, Dispatch, Request, Proc, Xid
<1> USE <1>2, <1>3
<1>4. ASSUME NEW c \in Conn, RefuseOld(w, c)
      PROVE  NetTypeOK' /\ ServerTypeOK'
  <2>1. PICK req \in c2s[c] : /\ c2s' = [c2s EXCEPT ![c] = @ \ {req}]
                              /\ SendReply(c, ReplyTo(req, "oldsrv_failure"))
    BY <1>4 DEF RefuseOld
  <2>2. ReplyTo(req, "oldsrv_failure") \in Reply
    BY ReplyToType DEF NetTypeOK, Outcome
  <2>3. s2c' \in [Conn -> SUBSET Reply] /\ sdead' \in SUBSET Conn
    BY <2>1, <2>2, SendReplyType
  <2> QED
    BY <1>4, <2>1, <2>3 DEF RefuseOld, NetTypeOK, ServerTypeOK, serverVars
<1>5. ASSUME NEW c \in Conn, Receive(w, c)
      PROVE  NetTypeOK' /\ ServerTypeOK'
  <2>1. PICK req \in c2s[c] : /\ c2s' = [c2s EXCEPT ![c] = @ \ {req}]
                              /\ worker' = [worker EXCEPT ![w] =
                                   [pc |-> IF Retrans THEN "check" ELSE "run",
                                    req |-> req, c |-> c]]
    BY <1>5 DEF Receive
  <2>2. worker' \in [Worker -> Dispatch]
    BY <2>1 DEF Dispatch, ServerTypeOK, NetTypeOK
  <2>3. latest' \in {NoConn} \cup Conn
    BY <1>5 DEF Receive, ServerTypeOK
  <2> QED
    BY <1>5, <2>1, <2>2, <2>3 DEF Receive, NetTypeOK, ServerTypeOK
<1>6. ASSUME NEW c \in Conn, NEW ret \in Outcome,
             SendReply(c, ReplyTo(worker[w].req, ret)),
             UNCHANGED <<link, cdead, c2s, nonce, rwin, saved, latest, nexec>>,
             worker' = [worker EXCEPT ![w] = Idle]
      PROVE  NetTypeOK' /\ ServerTypeOK'
  <2>1. ReplyTo(worker[w].req, ret) \in Reply
    BY ReplyToType
  <2>2. s2c' \in [Conn -> SUBSET Reply] /\ sdead' \in SUBSET Conn
    BY <1>6, <2>1, SendReplyType
  <2>3. worker' \in [Worker -> Dispatch]
    BY <1>6 DEF ServerTypeOK
  <2> QED
    BY <1>6, <2>2, <2>3 DEF NetTypeOK, ServerTypeOK
<1>7. CASE CheckNew(w)
  BY <1>7, <1>1 DEF CheckNew, NetTypeOK, ServerTypeOK, Dispatch, Request, netVars
<1>8. CASE CheckInProgress(w)
  BY <1>8, <1>1 DEF CheckInProgress, NetTypeOK, ServerTypeOK, netVars
<1>9. CASE Run(w)
  <2>1. nexec' \in [Xid -> Nat]
    BY <1>9 DEF Run, AddReply, ServerTypeOK, Request
  <2>2. /\ worker' \in [Worker -> Dispatch]
        /\ \A v \in Worker : worker'[v].pc # "idle" => worker'[v].c \in Conn
    BY <1>9 DEF Run, ServerTypeOK, Dispatch
  <2> QED
    BY <1>9, <1>1, <2>1, <2>2 DEF Run, AddReply, NetTypeOK, ServerTypeOK, netVars
<1>10. CASE Fault(w)
  BY <1>10, <1>1 DEF Fault, NetTypeOK, ServerTypeOK, Dispatch, netVars
<1>11. CASE CheckDone(w)
  <2>1. worker[w].c \in Conn /\ "ok" \in Outcome
    BY <1>11 DEF CheckDone, ServerTypeOK, Outcome
  <2> QED
    BY <1>11, <2>1, <1>1, <1>6 DEF CheckDone
<1>12. CASE CheckForgotten(w)
  <2>1. worker[w].c \in Conn /\ "atmostonce_failure" \in Outcome
    BY <1>12 DEF CheckForgotten, ServerTypeOK, Outcome
  <2> QED
    BY <1>12, <2>1, <1>1, <1>6 DEF CheckForgotten
<1>13. CASE Answer(w)
  <2>1. ReplyConn(w) \in Conn /\ "ok" \in Outcome
    BY <1>13 DEF Answer, ReplyConn, ServerTypeOK, Outcome
  <2> QED
    BY <1>13, <2>1, <1>1, <1>6 DEF Answer
<1> QED
  BY <1>1, <1>4, <1>5, <1>7, <1>8, <1>9, <1>10, <1>11, <1>12, <1>13
  DEF WorkerStep

\* A restart of the server preserves the types.
LEMMA RestartType ==
    ASSUME TypeInv, ServerRestart
    PROVE  TypeInv'
<1> USE DEF TypeInv, TypeOK
<1>1. ClientTypeOK' /\ xid_rep_window' # {}
  BY DEF ServerRestart, ClientTypeOK, clientVars
<1>2. NetTypeOK'
  BY DEF ServerRestart, Restart, NetTypeOK
<1>3. ServerTypeOK'
  <2>1. nonce' \in Nonce
    BY BoundsAssumption DEF ServerRestart, Restart, ServerTypeOK, Nonce
  <2>2. Idle \in Dispatch /\ Idle.pc = "idle"
    BY BoundsAssumption DEF Idle, Dispatch, Request, Proc, Xid
  <2> QED
    BY <2>1, <2>2 DEF ServerRestart, Restart, ServerTypeOK
<1> QED
  BY <1>1, <1>2, <1>3

\* The entry of call1, got_pdu and cancel preserve the types.
LEMMA ClientStepType ==
    ASSUME TypeInv, ClientStep
    PROVE  TypeInv'
<1> USE DEF TypeInv, TypeOK
<1>1. ServerTypeOK'
  BY DEF ClientStep, ServerTypeOK, serverVars
<1>2. ASSUME NEW p \in Proc, Call(p)
      PROVE  TypeInv'
  <2>1. xid_ \in Xid /\ xid_' \in 1..(MaxXid + 1)
    BY <1>2, BoundsAssumption DEF Call, ClientTypeOK, Xid
  <2>2. Front(xid_rep_window) \in Nat
    <3>1. xid_rep_window \subseteq Nat /\ xid_rep_window # {}
      BY DEF ClientTypeOK
    <3> QED
      BY <3>1, FrontIsLeast
  <2>3. [xid |-> xid_, proc |-> p, srv_nonce |-> srv_nonce,
         xid_rep |-> Front(xid_rep_window)] \in Request
    BY <2>1, <2>2 DEF ClientTypeOK, Request
  <2>4. call' \in [Xid -> Caller]
    <3> DEFINE h == [xid |-> xid_, proc |-> p, srv_nonce |-> srv_nonce,
                     xid_rep |-> Front(xid_rep_window)]
               ca == [call[xid_] EXCEPT !.pc = "transmit", !.hdr = h]
    <3>1. call[xid_] \in Caller
      BY <2>1 DEF ClientTypeOK
    <3>2. ca \in Caller
      <4> HIDE DEF h
      <4> QED BY <3>1, <2>3 DEF Caller, h
    <3>3. call' = [call EXCEPT ![xid_] = ca]
      BY <1>2, <2>1 DEF Call, ClientTypeOK
    <3> QED
      BY <3>2, <3>3 DEF ClientTypeOK
  <2> QED
    BY <1>2, <1>1, <2>1, <2>4 DEF Call, NetTypeOK, ClientTypeOK, netVars
<1>3. ASSUME NEW c \in Conn, GotReply(c)
      PROVE  TypeInv'
  <2>1. PICK r \in s2c[c] :
          /\ s2c' = [s2c EXCEPT ![c] = @ \ {r}]
          /\ xid_rep_window' = UpdateXidRep(xid_rep_window, r.xid)
          /\ call' = IF r.xid \in calls /\ ~call[r.xid].done
                     THEN [call EXCEPT ![r.xid].done = TRUE,
                                       ![r.xid].ret = r.ret,
                                       ![r.xid].nonce = r.nonce]
                     ELSE call
    BY <1>3 DEF GotReply
  <2>2. r \in Reply /\ r.xid \in Xid
    BY <2>1 DEF NetTypeOK, Reply
  <2>3. xid_rep_window' \in SUBSET (0..MaxXid) /\ xid_rep_window' # {}
    BY <2>1, <2>2, UpdateXidRepType
  <2>4. call' \in [Xid -> Caller]
    <3> DEFINE ca == [call[r.xid] EXCEPT !.done = TRUE, !.ret = r.ret, !.nonce = r.nonce]
    <3>1. call[r.xid] \in Caller
      BY <2>2 DEF ClientTypeOK
    <3>2. ca \in Caller
      BY <3>1, <2>2 DEF Caller, Reply
    <3>3. call' = call \/ call' = [call EXCEPT ![r.xid] = ca]
      BY <2>1, <2>2 DEF ClientTypeOK
    <3> QED
      BY <3>2, <3>3 DEF ClientTypeOK
  <2> QED
    BY <1>3, <1>1, <2>1, <2>3, <2>4 DEF GotReply, NetTypeOK, ClientTypeOK
<1>4. CASE Cancel
  <2>1. \A x \in Xid :
          [call[x] EXCEPT !.done = TRUE, !.ret = "cancel_failure"] \in Caller
    BY DEF ClientTypeOK, Caller, Failure
  <2>2. call' \in [Xid -> Caller]
    BY <1>4, <2>1 DEF Cancel, ClientTypeOK
  <2> QED
    BY <1>4, <1>1, <2>2 DEF Cancel, NetTypeOK, ClientTypeOK, netVars
<1>5. CASE CancelDone
  BY <1>5, <1>1 DEF CancelDone, NetTypeOK, ClientTypeOK, netVars
<1> QED
  BY <1>2, <1>3, <1>4, <1>5 DEF ClientStep

\* The loop and the end of call1 preserve the types.
LEMMA CallStepType ==
    ASSUME TypeInv, NEW x \in Xid, CallStep(x)
    PROVE  TypeInv'
<1> USE DEF TypeInv, TypeOK
<1>1. ServerTypeOK'
  BY DEF CallStep, ServerTypeOK, serverVars
<1>2. call[x] \in Caller /\ call[x].hdr \in Request
  BY DEF ClientTypeOK, Caller
<1>3. CASE Transmit(x)
  <2>1. link' \in [Conn -> {"unused", "up", "broken"}] /\ chan' \in {NoConn} \cup Conn
    BY <1>3 DEF Transmit, GetRefconn, Connect, NetTypeOK, ClientTypeOK
  <2> DEFINE ch == IF chan' # NoConn THEN chan' ELSE call[x].ch
             forgot == {r \in dup_req : xid_rep_done > r.xid}
  <2>2. ch \in {NoConn} \cup Conn
    BY <2>1, <1>2 DEF Caller
  <2>3. call' \in [Xid -> Caller]
    BY <1>3, <2>2 DEF Transmit, ClientTypeOK, Caller
  <2>4. NetTypeOK' /\ dup_req' \in SUBSET Request
    <3>1. CASE ch # NoConn
      <4>1. ch \in Conn /\ forgot \cup {call[x].hdr} \in SUBSET Request
        BY <3>1, <2>2, <1>2 DEF ClientTypeOK
      <4>2. SendRequest(ch, forgot \cup {call[x].hdr}) /\ dup_req' = dup_req \ forgot
        BY <3>1, <1>3 DEF Transmit
      <4>3. sdead' = sdead
        BY <1>3 DEF Transmit
      <4>4. NetTypeOK'
        BY <2>1, <4>1, <4>2, <4>3, SendRequestType
      <4> QED
        BY <4>2, <4>4 DEF ClientTypeOK
    <3>2. CASE ch = NoConn
      BY <3>2, <1>3, <2>1 DEF Transmit, NetTypeOK, ClientTypeOK
    <3> QED
      BY <3>1, <3>2
  <2> QED
    BY <1>3, <1>1, <2>1, <2>3, <2>4 DEF Transmit, ClientTypeOK
<1>4. CASE WaitTimeout(x)
  BY <1>4, <1>1 DEF WaitTimeout, NetTypeOK, ClientTypeOK, Caller, netVars
<1>5. CASE FinalTimeout(x)
  BY <1>5, <1>1 DEF FinalTimeout, NetTypeOK, ClientTypeOK, Caller, netVars
<1>6. Exit(x) \in [Xid -> Caller]
  BY <1>2 DEF Exit, ClientTypeOK, Caller, Failure
<1>7. CASE Finish(x)
  <2>1. call' \in [Xid -> Caller]
    BY <1>7, <1>6, <1>2 DEF Finish, ClientTypeOK, Caller
  <2>2. xid_rep_window' \in SUBSET (0..MaxXid) /\ xid_rep_window' # {}
    BY <1>7, UpdateXidRepType DEF Finish
  <2> QED
    BY <1>7, <1>1, <2>1, <2>2 DEF Finish, NetTypeOK, ClientTypeOK, netVars
<1>8. CASE RecordDup(x)
  <2>1. xid_rep_done' \in Int
    BY <1>8, <1>2 DEF RecordDup, ClientTypeOK, Request
  <2>2. dup_req' \in SUBSET Request
    BY <1>8, <1>2 DEF RecordDup, ClientTypeOK
  <2> QED
    BY <1>8, <1>1, <1>6, <2>1, <2>2 DEF RecordDup, NetTypeOK, ClientTypeOK, netVars
<1>9. CASE BindDone(x)
  <2>1. call' \in [Xid -> Caller]
    BY <1>9 DEF BindDone, ClientTypeOK, Caller
  <2>2. srv_nonce' \in {0} \cup Nonce
    BY <1>9, <1>2 DEF BindDone, Caller
  <2>3. bind_done' \in BOOLEAN
    BY <1>9, Zenon DEF BindDone
  <2> QED
    BY <1>9, <1>1, <2>1, <2>2, <2>3 DEF BindDone, NetTypeOK, ClientTypeOK, netVars
<1> QED
  BY <1>3, <1>4, <1>5, <1>7, <1>8, <1>9 DEF CallStep

\* Every step preserves the types and a non-empty xid_rep_window_.
LEMMA NextType ==
    ASSUME TypeInv, [Next]_vars
    PROVE  TypeInv'
<1>1. CASE UNCHANGED vars
  BY <1>1 DEF vars, netVars, clientVars, serverVars, TypeInv, TypeOK,
              NetTypeOK, ClientTypeOK, ServerTypeOK
<1>2. CASE Next
  BY <1>2, NetStepType, CallStepType, ClientStepType, WorkerStepType, RestartType DEF Next
<1> QED
  BY <1>1, <1>2

\* The client, the server and the connections stay within their types; the
\* window whose front call1 acknowledges is never empty.
THEOREM TypeCorrect == Spec => []TypeOK
<1>1. Init => TypeInv
  BY InitType
<1>2. TypeInv /\ [Next]_vars => TypeInv'
  BY NextType
<1>3. TypeInv => TypeOK
  BY DEF TypeInv
<1> QED
  BY <1>1, <1>2, <1>3, PTL DEF Spec

-----------------------------------------------------------------------------
(***************************************************************************)
(* The headers of the calls.                                               *)
(***************************************************************************)
\* A step that makes no call: every header stays as it was packed.
SameHeaders ==
    /\ xid_' = xid_
    /\ \A y \in Xid : /\ call'[y].hdr = call[y].hdr
                      /\ Started(y)' <=> Started(y)

\* After its header is packed, call1 never changes it, nor xid_.
LEMMA CallStepHeaders ==
    ASSUME TypeInv, NEW x \in Xid, CallStep(x)
    PROVE  SameHeaders
<1> USE DEF SameHeaders, Started
<1>1. call \in [Xid -> Caller]
  BY DEF TypeInv, TypeOK, ClientTypeOK
<1>2. CASE Transmit(x)
  BY <1>1, <1>2 DEF Transmit
<1>3. CASE WaitTimeout(x)
  BY <1>1, <1>3 DEF WaitTimeout
<1>4. CASE FinalTimeout(x)
  BY <1>1, <1>4 DEF FinalTimeout
<1>5. CASE Finish(x)
  BY <1>1, <1>5 DEF Finish, Exit
<1>6. CASE RecordDup(x)
  BY <1>1, <1>6 DEF RecordDup, Exit
<1>7. CASE BindDone(x)
  BY <1>1, <1>7 DEF BindDone
<1> QED
  BY <1>2, <1>3, <1>4, <1>5, <1>6, <1>7 DEF CallStep

\* Only Call packs a header.
LEMMA HeadersFixed ==
    ASSUME TypeInv, [Next]_vars
    PROVE  SameHeaders \/ \E p \in Proc : Call(p)
<1> USE DEF SameHeaders, Started
<1>1. call \in [Xid -> Caller]
  BY DEF TypeInv, TypeOK, ClientTypeOK
<1>2. CASE UNCHANGED clientVars
  BY <1>2 DEF clientVars
<1>3. ASSUME NEW c \in Conn, GotReply(c)
      PROVE  SameHeaders
  BY <1>1, <1>3 DEF GotReply
<1>4. CASE Cancel
  BY <1>1, <1>4 DEF Cancel, Caller
<1>5. CASE CancelDone
  BY <1>5 DEF CancelDone
<1>6. UNCHANGED clientVars \/ ClientStep \/ \E x \in Xid : CallStep(x)
  BY Zenon DEF Next, vars, NetStep, WorkerStep, ServerRestart
<1> QED
  BY <1>2, <1>3, <1>4, <1>5, <1>6, CallStepHeaders, Zenon DEF ClientStep

\* The xids in use and the window below them.
LEMMA WindowStep ==
    ASSUME TypeInv, HeaderInv, WindowInv, CopyInv, [Next]_vars
    PROVE  HeaderInv' /\ WindowInv'
<1>1. /\ xid_ \in Nat /\ call \in [Xid -> Caller] /\ calls \subseteq Xid
      /\ xid_rep_window \subseteq Nat /\ xid_rep_window # {}
  BY DEF TypeInv, TypeOK, ClientTypeOK
<1>2. xid_rep_window' # {}
  BY NextType DEF TypeInv
<1>3. Xid \subseteq Nat
  BY DEF Xid
<1>4. ASSUME NEW p \in Proc, Call(p)
      PROVE  HeaderInv' /\ WindowInv'
  <2>1. Front(xid_rep_window) < xid_
    BY <1>1, FrontIsLeast DEF WindowInv
  <2>2. HeaderInv'
    BY <1>1, <1>3, <1>4, <2>1 DEF HeaderInv, Call, Started
  <2>3. WindowInv'
    BY <1>1, <1>2, <1>3, <1>4 DEF WindowInv, Call
  <2> QED
    BY <2>2, <2>3
<1>5. CASE SameHeaders
  <2>1. HeaderInv'
    BY <1>5 DEF SameHeaders, HeaderInv
  <2>2. CASE UNCHANGED <<calls, xid_rep_window>>
    BY <1>5, <2>1, <2>2 DEF SameHeaders, WindowInv
  <2>3. ASSUME NEW x \in Xid, Finish(x)
        PROVE  WindowInv'
    <3>1. x < xid_
      BY <2>3 DEF Finish, HeaderInv, Started
    <3> QED
      BY <1>2, <1>5, <2>3, <3>1, UpdateXidRepType DEF Finish, SameHeaders, WindowInv
  <2>4. ASSUME NEW c \in Conn, GotReply(c)
        PROVE  WindowInv'
    <3>1. PICK r \in s2c[c] : xid_rep_window' = UpdateXidRep(xid_rep_window, r.xid)
      BY <2>4 DEF GotReply
    <3>2. r.xid \in Xid /\ r.xid < xid_
      BY <3>1 DEF TypeInv, TypeOK, NetTypeOK, Reply, CopyInv
    <3> QED
      BY <1>2, <1>5, <2>4, <3>1, <3>2, UpdateXidRepType
      DEF GotReply, SameHeaders, WindowInv
  <2>5. \/ UNCHANGED <<calls, xid_rep_window>>
        \/ \E x \in Xid : Finish(x)
        \/ \E c \in Conn : GotReply(c)
        \/ \E p \in Proc : Call(p)
    BY DEF Next, vars, clientVars, NetStep, WorkerStep, ServerRestart, ClientStep,
           CallStep, Transmit, WaitTimeout, FinalTimeout, RecordDup, BindDone,
           Cancel, CancelDone
  <2> QED
    BY <1>4, <2>1, <2>2, <2>3, <2>4, <2>5
<1> QED
  BY <1>4, <1>5, HeadersFixed

-----------------------------------------------------------------------------
(***************************************************************************)
(* The copies of a header: in transit, in dup_req_ and in dispatch.        *)
(***************************************************************************)
LEMMA CopyStays ==
    ASSUME TypeInv, HeaderInv, [Next]_vars, NEW r \in Request, IsCopy(r)
    PROVE  IsCopy(r)'
<1>1. xid_ \in Nat /\ r.xid \in Xid /\ r.xid \in Nat /\ call \in [Xid -> Caller]
  BY DEF TypeInv, TypeOK, ClientTypeOK, Request, Xid
<1>2. CASE SameHeaders
  BY <1>1, <1>2 DEF SameHeaders, IsCopy
<1>3. ASSUME NEW p \in Proc, Call(p)
      PROVE  IsCopy(r)'
  BY <1>1, <1>3 DEF Call, IsCopy
<1> QED
  BY <1>2, <1>3, HeadersFixed

\* The header of a call in call1 is a copy of itself.
LEMMA HeaderIsCopy ==
    ASSUME HeaderInv, NEW x \in Xid, Started(x)
    PROVE  IsCopy(call[x].hdr)
BY DEF HeaderInv, IsCopy

\* Requests in transit stay copies of the headers of their calls.
LEMMA RequestsStep ==
    ASSUME TypeInv, HeaderInv, CopyInv, [Next]_vars
    PROVE  \A c \in Conn : \A r \in c2s'[c] : IsCopy(r)
<1>1. c2s \in [Conn -> SUBSET Request]
  BY DEF TypeInv, TypeOK, NetTypeOK
<1>2. \A c \in Conn : \A r \in c2s[c] : IsCopy(r)
  BY DEF CopyInv
<1>3. CASE \A c \in Conn : c2s'[c] \subseteq c2s[c]
  BY <1>2, <1>3
<1>4. ASSUME NEW x \in Xid, Transmit(x)
      PROVE  \A c \in Conn : \A r \in c2s'[c] : IsCopy(r)
  <2> DEFINE ch == IF chan' # NoConn THEN chan' ELSE call[x].ch
             pdus == {r \in dup_req : xid_rep_done > r.xid} \cup {call[x].hdr}
  <2>1. \A r \in pdus : IsCopy(r)
    BY <1>4, HeaderIsCopy DEF Transmit, Started, CopyInv
  <2>2. c2s' = c2s \/ c2s' = [c2s EXCEPT ![ch] = @ \cup pdus]
    BY <1>4 DEF Transmit, SendRequest
  <2> QED
    BY <1>1, <1>2, <2>1, <2>2
<1>5. (\A c \in Conn : c2s'[c] \subseteq c2s[c]) \/ \E x \in Xid : Transmit(x)
  <2>1. CASE c2s' = c2s
    BY <2>1
  <2>2. ASSUME NEW d \in Conn,
               ServerReadFails(d) \/ \E w \in Worker : RefuseOld(w, d) \/ Receive(w, d)
        PROVE  \A c \in Conn : c2s'[c] \subseteq c2s[c]
    BY <1>1, <2>2 DEF ServerReadFails, RefuseOld, Receive
  <2>3. CASE Restart
    BY <1>1, <2>3 DEF Restart
  <2>4. \/ c2s' = c2s
        \/ Restart
        \/ \E x \in Xid : Transmit(x)
        \/ \E d \in Conn : \/ ServerReadFails(d)
                           \/ \E w \in Worker : RefuseOld(w, d) \/ Receive(w, d)
    BY DEF Next, vars, netVars, NetStep, Break, ClientReadFails, CallStep, ClientStep,
           WaitTimeout, FinalTimeout, Finish, RecordDup, BindDone, Call, GotReply, Cancel,
           CancelDone, WorkerStep, ServerRestart, CheckNew, CheckInProgress, CheckDone,
           CheckForgotten, Run, Answer, Fault
  <2> QED
    BY <2>1, <2>2, <2>3, <2>4
<1> QED
  BY <1>3, <1>4, <1>5

\* The request kept in dup_req_ stays a copy of a header.
LEMMA DupReqStep ==
    ASSUME TypeInv, HeaderInv, CopyInv, [Next]_vars
    PROVE  \A r \in dup_req' : IsCopy(r)
<1>1. \A r \in dup_req : IsCopy(r)
  BY DEF CopyInv
<1>2. CASE dup_req' \subseteq dup_req
  BY <1>1, <1>2
<1>3. ASSUME NEW x \in Xid, RecordDup(x)
      PROVE  \A r \in dup_req' : IsCopy(r)
  <2>1. IsCopy(call[x].hdr)
    BY <1>3, HeaderIsCopy DEF RecordDup, Started
  <2> QED
    BY <1>1, <1>3, <2>1 DEF RecordDup
<1>4. dup_req' \subseteq dup_req \/ \E x \in Xid : RecordDup(x)
  BY DEF Next, vars, clientVars, NetStep, CallStep, ClientStep, Transmit, WaitTimeout,
         FinalTimeout, Finish, BindDone, Call, GotReply, Cancel, CancelDone, WorkerStep,
         ServerRestart
<1> QED
  BY <1>2, <1>3, <1>4

\* What a dispatch thread works on is a copy, for the running instance.
LEMMA DispatchStep ==
    ASSUME TypeInv, HeaderInv, CopyInv, [Next]_vars
    PROVE  \A w \in Worker : worker'[w].pc # "idle" =>
             IsCopy(worker'[w].req) /\ ~OldInstance(worker[w].req)'
<1> DEFINE Good(w) == worker'[w].pc # "idle" =>
                        IsCopy(worker'[w].req) /\ ~OldInstance(worker[w].req)'
<1>1. worker \in [Worker -> Dispatch] /\ c2s \in [Conn -> SUBSET Request]
  BY DEF TypeInv, TypeOK, NetTypeOK, ServerTypeOK
<1>2. \A w \in Worker : worker[w].pc # "idle" =>
        IsCopy(worker[w].req) /\ ~OldInstance(worker[w].req)
  BY DEF CopyInv
<1>3. Idle.pc = "idle"
  BY DEF Idle
<1>4. CASE worker' = worker /\ nonce' = nonce
  BY <1>2, <1>4 DEF OldInstance
<1>5. CASE Restart
  BY <1>1, <1>3, <1>5 DEF Restart
<1>6. ASSUME NEW w \in Worker, NEW c \in Conn, Receive(w, c)
      PROVE  \A v \in Worker : Good(v)
  <2>1. PICK req \in c2s[c] :
          /\ ~OldInstance(req)
          /\ worker' = [worker EXCEPT ![w] =
               [pc |-> IF Retrans THEN "check" ELSE "run", req |-> req, c |-> c]]
    BY <1>6 DEF Receive
  <2>2. IsCopy(req) /\ nonce' = nonce
    BY <1>6, <2>1 DEF CopyInv, Receive
  <2>3. worker'[w].req = req
    BY <1>1, <2>1
  <2>4. \A v \in Worker \ {w} : worker'[v] = worker[v]
    BY <1>1, <2>1
  <2> QED
    BY <1>2, <2>1, <2>2, <2>3, <2>4 DEF OldInstance
<1>7. ASSUME NEW w \in Worker,
             CheckNew(w) \/ CheckInProgress(w) \/ CheckDone(w) \/ CheckForgotten(w)
               \/ Run(w) \/ Answer(w) \/ Fault(w)
      PROVE  \A v \in Worker : Good(v)
  <2>1. nonce' = nonce /\ worker[w].pc # "idle"
    BY <1>7 DEF CheckNew, CheckInProgress, CheckDone, CheckForgotten, Run, Answer, Fault
  <2>2. worker'[w].pc = "idle" \/ worker'[w].req = worker[w].req
    <3>1. CASE CheckNew(w) \/ Run(w) \/ Fault(w)
      BY <1>1, <3>1 DEF CheckNew, Run, Fault, Dispatch
    <3>2. CASE CheckInProgress(w) \/ CheckDone(w) \/ CheckForgotten(w) \/ Answer(w)
      BY <1>1, <1>3, <3>2 DEF CheckInProgress, CheckDone, CheckForgotten, Answer
    <3> QED
      BY <1>7, <3>1, <3>2
  <2>3. \A v \in Worker \ {w} : worker'[v] = worker[v]
    BY <1>1, <1>7
    DEF CheckNew, CheckInProgress, CheckDone, CheckForgotten, Run, Answer, Fault
  <2> QED
    BY <1>2, <2>1, <2>2, <2>3 DEF OldInstance
<1>8. \/ worker' = worker /\ nonce' = nonce
      \/ Restart
      \/ \E w \in Worker :
           \/ \E c \in Conn : Receive(w, c)
           \/ CheckNew(w) \/ CheckInProgress(w) \/ CheckDone(w) \/ CheckForgotten(w)
              \/ Run(w) \/ Answer(w) \/ Fault(w)
  BY DEF Next, vars, serverVars, NetStep, CallStep, ClientStep, WorkerStep, RefuseOld,
         ServerRestart
<1> QED
  BY <1>4, <1>5, <1>6, <1>7, <1>8

-----------------------------------------------------------------------------
(***************************************************************************)
(* Replies and the nonce a bind returns.                                   *)
(***************************************************************************)
GoodReply(r) == r.xid < xid_ /\ ((~IsApp(r.xid) /\ r.ret = "ok") => r.nonce # 0)

\* A reply to a copy is about a call that was made, and the reply to a bind
\* carries the nonce of the server.
LEMMA ReplyToIsGood ==
    ASSUME TypeInv, HeaderInv, NEW req \in Request, IsCopy(req), NEW ret \in Outcome
    PROVE  GoodReply(ReplyTo(req, ret))
<1>1. req.xid \in Xid /\ req.proc \in Proc /\ nonce # 0
  BY DEF TypeInv, TypeOK, ServerTypeOK, Request, Nonce
<1>2. Started(req.xid) /\ call[req.xid].hdr = req
  BY <1>1 DEF HeaderInv, IsCopy
<1>3. ~IsApp(req.xid) => req.proc = "bind"
  BY <1>1, <1>2 DEF IsApp, Proc
<1> QED
  BY <1>1, <1>3 DEF GoodReply, ReplyTo, IsCopy

\* Replies in transit are about calls that were made, and tell a nonce.
LEMMA RepliesStep ==
    ASSUME TypeInv, HeaderInv, CopyInv, BindInv, [Next]_vars
    PROVE  \A c \in Conn : \A r \in s2c'[c] : GoodReply(r)
<1>1. /\ s2c \in [Conn -> SUBSET Reply] /\ c2s \in [Conn -> SUBSET Request]
      /\ worker \in [Worker -> Dispatch]
  BY DEF TypeInv, TypeOK, NetTypeOK, ServerTypeOK
<1>2. \A c \in Conn : \A r \in s2c[c] : GoodReply(r)
  BY DEF CopyInv, BindInv, GoodReply
<1>3. CASE \A c \in Conn : s2c'[c] \subseteq s2c[c]
  BY <1>2, <1>3
<1>4. ASSUME NEW d, NEW req \in Request, IsCopy(req), NEW ret \in Outcome,
             SendReply(d, ReplyTo(req, ret))
      PROVE  \A c \in Conn : \A r \in s2c'[c] : GoodReply(r)
  <2>1. GoodReply(ReplyTo(req, ret))
    BY <1>4, ReplyToIsGood
  <2>2. s2c' = s2c \/ s2c' = [s2c EXCEPT ![d] = @ \cup {ReplyTo(req, ret)}]
    BY <1>4 DEF SendReply
  <2> QED
    BY <1>1, <1>2, <2>1, <2>2
<1>5. ASSUME NEW w \in Worker, NEW d \in Conn, RefuseOld(w, d)
      PROVE  \A c \in Conn : \A r \in s2c'[c] : GoodReply(r)
  <2>1. PICK req \in c2s[d] : SendReply(d, ReplyTo(req, "oldsrv_failure"))
    BY <1>5 DEF RefuseOld
  <2>2. req \in Request /\ IsCopy(req) /\ "oldsrv_failure" \in Outcome
    BY <1>1, <2>1 DEF CopyInv, Outcome
  <2> QED
    BY <1>4, <2>1, <2>2
<1>6. ASSUME NEW w \in Worker, CheckDone(w) \/ CheckForgotten(w) \/ Answer(w)
      PROVE  \A c \in Conn : \A r \in s2c'[c] : GoodReply(r)
  <2>1. "ok" \in Outcome /\ "atmostonce_failure" \in Outcome
    BY DEF Outcome
  <2>2. PICK ret \in Outcome : \E d : SendReply(d, ReplyTo(worker[w].req, ret))
    BY <1>6, <2>1, Zenon DEF CheckDone, CheckForgotten, Answer
  <2>3. worker[w].req \in Request /\ IsCopy(worker[w].req)
    BY <1>1, <1>6 DEF CopyInv, CheckDone, CheckForgotten, Answer, Dispatch
  <2> QED
    BY <1>4, <2>2, <2>3
<1>7. \/ \A c \in Conn : s2c'[c] \subseteq s2c[c]
      \/ \E w \in Worker : \/ CheckDone(w) \/ CheckForgotten(w) \/ Answer(w)
                           \/ \E d \in Conn : RefuseOld(w, d)
  <2>1. CASE s2c' = s2c
    BY <2>1
  <2>2. ASSUME NEW d \in Conn, ClientReadFails(d) \/ GotReply(d)
        PROVE  \A c \in Conn : s2c'[c] \subseteq s2c[c]
    BY <1>1, <2>2 DEF ClientReadFails, GotReply
  <2>3. ASSUME NEW x \in Xid, Transmit(x)
        PROVE  \A c \in Conn : s2c'[c] \subseteq s2c[c]
    <3>1. s2c' = s2c \/ \E d : s2c' = [s2c EXCEPT ![d] = {}]
      BY <2>3 DEF Transmit, SendRequest
    <3> QED
      BY <1>1, <3>1
  <2>4. \/ s2c' = s2c
        \/ \E d \in Conn : ClientReadFails(d) \/ GotReply(d)
        \/ \E x \in Xid : Transmit(x)
        \/ \E w \in Worker : \/ CheckDone(w) \/ CheckForgotten(w) \/ Answer(w)
                             \/ \E d \in Conn : RefuseOld(w, d)
    BY DEF Next, vars, netVars, NetStep, Break, ServerReadFails, CallStep, ClientStep,
           WaitTimeout, FinalTimeout, Finish, RecordDup, BindDone, Call, Cancel, CancelDone,
           WorkerStep, ServerRestart, Restart, Receive, CheckNew, CheckInProgress, Run, Fault
  <2> QED
    BY <2>1, <2>2, <2>3, <2>4
<1> QED
  BY <1>3, <1>5, <1>6, <1>7

\* A started call stays an application call or a bind.
LEMMA IsAppStays ==
    ASSUME TypeInv, HeaderInv, [Next]_vars, NEW x \in Xid, x < xid_
    PROVE  IsApp(x)' <=> IsApp(x)
<1>1. Started(x) /\ xid_ \in Nat /\ x \in Nat /\ call \in [Xid -> Caller]
  BY DEF HeaderInv, TypeInv, TypeOK, ClientTypeOK, Xid
<1>2. CASE SameHeaders
  BY <1>2 DEF SameHeaders, IsApp
<1>3. ASSUME NEW p \in Proc, Call(p)
      PROVE  IsApp(x)' <=> IsApp(x)
  BY <1>1, <1>3 DEF Call, IsApp, Started
<1> QED
  BY <1>2, <1>3, HeadersFixed

\* Every step preserves CopyInv.
LEMMA CopyStep ==
    ASSUME TypeInv, HeaderInv, CopyInv, BindInv, [Next]_vars
    PROVE  CopyInv'
<1>1. TypeInv'
  BY NextType
<1>2. ASSUME NEW r \in Request, IsCopy(r)
      PROVE  IsCopy(r)'
  BY <1>2, CopyStays
<1>3. \A c \in Conn : \A r \in c2s'[c] : IsCopy(r)'
  BY <1>1, <1>2, RequestsStep DEF TypeInv, TypeOK, NetTypeOK
<1>4. \A r \in dup_req' : IsCopy(r)'
  BY <1>1, <1>2, DupReqStep DEF TypeInv, TypeOK, ClientTypeOK
<1>5. \A w \in Worker : worker'[w].pc # "idle" =>
        IsCopy(worker[w].req)' /\ ~OldInstance(worker[w].req)'
  <2>1. SUFFICES ASSUME NEW w \in Worker, worker'[w].pc # "idle"
                 PROVE  IsCopy(worker[w].req)' /\ ~OldInstance(worker[w].req)'
    OBVIOUS
  <2>2. PICK r : r = worker'[w].req
    OBVIOUS
  <2>3. r \in Request
    BY <1>1, <2>2 DEF TypeInv, TypeOK, ServerTypeOK, Dispatch
  <2>4. IsCopy(r) /\ ~OldInstance(worker[w].req)'
    BY <2>1, <2>2, DispatchStep
  <2>5. IsCopy(r)'
    BY <1>2, <2>3, <2>4
  <2> QED
    BY <2>2, <2>4, <2>5 DEF IsCopy
<1>6. \A c \in Conn : \A r \in s2c'[c] : r.xid < xid_'
  <2>1. xid_ \in Nat /\ xid_' \in Nat /\ xid_ <= xid_'
    <3>1. xid_' = xid_ \/ xid_' = xid_ + 1
      BY HeadersFixed DEF SameHeaders, Call
    <3> QED
      BY <1>1, <3>1 DEF TypeInv, TypeOK, ClientTypeOK
  <2>2. \A c \in Conn : \A r \in s2c'[c] : r.xid \in Nat
    BY <1>1 DEF TypeInv, TypeOK, NetTypeOK, Reply, Xid
  <2> QED
    BY <2>1, <2>2, RepliesStep DEF GoodReply
<1> QED
  BY <1>3, <1>4, <1>5, <1>6 DEF CopyInv

\* Every step preserves BindInv.
LEMMA BindStep ==
    ASSUME TypeInv, HeaderInv, WindowInv, CopyInv, BindInv, [Next]_vars
    PROVE  BindInv'
<1> DEFINE P(x) == /\ ~Started(x) => call[x].ret = "none"
                   /\ IsApp(x) => call[x].hdr.srv_nonce # 0
                   /\ (~IsApp(x) /\ call[x].ret = "ok") => call[x].nonce # 0
                   /\ call[x].pc = "bind" => ~IsApp(x) /\ call[x].ret = "ok"
                   /\ x \in calls => call[x].pc \in {"transmit", "wait", "finish"}
<1>1. call \in [Xid -> Caller] /\ calls \subseteq Xid /\ xid_ \in Nat
  BY DEF TypeInv, TypeOK, ClientTypeOK
<1>2. \A x \in Xid : P(x)
  BY DEF BindInv
<1>3. \A c \in Conn : \A r \in s2c'[c] : (~IsApp(r.xid)' /\ r.ret = "ok") => r.nonce # 0
  <2>1. TypeInv'
    BY NextType
  <2>2. \A c \in Conn : \A r \in s2c'[c] : r.xid \in Xid
    BY <2>1 DEF TypeInv, TypeOK, NetTypeOK, Reply
  <2>3. \A x \in Xid : x < xid_ => (IsApp(x)' <=> IsApp(x))
    BY IsAppStays
  <2> QED
    BY <2>2, <2>3, RepliesStep DEF GoodReply
<1>4. bind_done' => srv_nonce' # 0
  <2>1. CASE UNCHANGED <<bind_done, srv_nonce>>
    BY <2>1 DEF BindInv
  <2>2. ASSUME NEW x \in Xid, BindDone(x)
        PROVE  srv_nonce' # 0
    BY <1>2, <2>2 DEF BindDone
  <2>3. UNCHANGED <<bind_done, srv_nonce>> \/ \E x \in Xid : BindDone(x)
    BY DEF Next, vars, clientVars, NetStep, CallStep, ClientStep, Transmit, WaitTimeout,
           FinalTimeout, Finish, RecordDup, Call, GotReply, Cancel, CancelDone, WorkerStep,
           ServerRestart
  <2> QED
    BY <2>1, <2>2, <2>3
<1>5. \A x \in Xid : P(x)'
  <2> USE DEF IsApp, Started
  <2>1. CASE call' = call /\ calls' = calls
    BY <1>2, <2>1
  <2>2. ASSUME NEW p \in Proc, Call(p)
        PROVE  \A x \in Xid : P(x)'
    <3>1. p = "app" => srv_nonce # 0
      BY <2>2 DEF Call, BindInv
    <3>2. ~Started(xid_) /\ xid_ \in Xid
      <4>1. xid_ \in Xid
        BY <2>2, BoundsAssumption DEF Call, TypeInv, TypeOK, ClientTypeOK, Xid
      <4> QED
        BY <1>1, <4>1 DEF HeaderInv
    <3>3. call'[xid_].hdr.srv_nonce = srv_nonce /\ call'[xid_].hdr.proc = p
      BY <1>1, <2>2, <3>2 DEF Call, Caller
    <3>4. /\ call'[xid_].ret = "none" /\ call'[xid_].pc = "transmit"
          /\ \A x \in Xid \ {xid_} : call'[x] = call[x]
      BY <1>1, <1>2, <2>2, <3>2 DEF Call, Caller
    <3>5. calls' = calls \cup {xid_}
      BY <2>2 DEF Call
    <3> QED
      BY <1>2, <3>1, <3>3, <3>4, <3>5
  <2>3. ASSUME NEW x \in Xid, Transmit(x) \/ WaitTimeout(x) \/ FinalTimeout(x)
        PROVE  \A y \in Xid : P(y)'
    <3>1. /\ \A y \in Xid \ {x} : call'[y] = call[y]
          /\ call'[x].hdr = call[x].hdr /\ call'[x].ret = call[x].ret
          /\ call'[x].nonce = call[x].nonce /\ call'[x].pc \in {"transmit", "wait", "finish"}
          /\ call[x].pc # "none" /\ calls' = calls
      BY <1>1, <2>3 DEF Transmit, WaitTimeout, FinalTimeout, Caller
    <3> QED
      BY <1>2, <3>1
  <2>4. ASSUME NEW x \in Xid, Finish(x) \/ RecordDup(x)
        PROVE  \A y \in Xid : P(y)'
    <3>1. call[x].pc # "none" /\ \A y \in Xid \ {x} : call'[y] = call[y]
      BY <1>1, <2>4 DEF Finish, RecordDup, Exit
    <3>2. /\ call'[x].hdr = call[x].hdr /\ call'[x].nonce = call[x].nonce
          /\ call'[x].ret \in {call[x].ret, "timeout_failure"}
      BY <1>1, <2>4 DEF Finish, RecordDup, Exit, Caller
    <3>3. /\ call'[x].pc # "none"
          /\ call'[x].pc = "bind" => call[x].hdr.proc = "bind" /\ call'[x].ret = "ok"
      BY <1>1, <2>4 DEF Finish, RecordDup, Exit, Caller
    <3>4. calls' = calls \ {x}
      BY <1>2, <2>4 DEF Finish, RecordDup
    <3> QED
      BY <1>2, <3>1, <3>2, <3>3, <3>4
  <2>5. ASSUME NEW x \in Xid, BindDone(x)
        PROVE  \A y \in Xid : P(y)'
    BY <1>1, <1>2, <2>5 DEF BindDone, Caller
  <2>6. ASSUME NEW c \in Conn, GotReply(c)
        PROVE  \A y \in Xid : P(y)'
    <3>1. PICK r \in s2c[c] :
            call' = IF r.xid \in calls /\ ~call[r.xid].done
                    THEN [call EXCEPT ![r.xid].done = TRUE,
                                      ![r.xid].ret = r.ret,
                                      ![r.xid].nonce = r.nonce]
                    ELSE call
      BY <2>6 DEF GotReply
    <3>2. CASE r.xid \in calls /\ ~call[r.xid].done
      <4>1. r.xid \in Xid /\ Started(r.xid)
        BY <1>1, <3>2 DEF WindowInv, HeaderInv
      <4>2. (~IsApp(r.xid) /\ r.ret = "ok") => r.nonce # 0
        BY <3>1 DEF BindInv
      <4>3. /\ \A y \in Xid \ {r.xid} : call'[y] = call[y]
            /\ call'[r.xid].hdr = call[r.xid].hdr /\ call'[r.xid].pc = call[r.xid].pc
            /\ call'[r.xid].ret = r.ret /\ call'[r.xid].nonce = r.nonce
        BY <1>1, <3>1, <3>2, <4>1 DEF Caller
      <4>4. call[r.xid].pc # "bind" /\ calls' = calls
        BY <1>2, <2>6, <3>2, <4>1 DEF GotReply
      <4> QED
        BY <1>2, <4>1, <4>2, <4>3, <4>4
    <3> QED
      BY <2>1, <2>6, <3>1, <3>2 DEF GotReply
  <2>7. CASE Cancel
    <3>1. \A x \in Xid : /\ call'[x].hdr = call[x].hdr /\ call'[x].pc = call[x].pc
                         /\ call'[x].nonce = call[x].nonce
                         /\ x \notin calls => call'[x].ret = call[x].ret
                         /\ x \in calls => call'[x].ret = "cancel_failure"
      BY <1>1, <2>7 DEF Cancel, Caller
    <3>2. calls' = calls
      BY <2>7 DEF Cancel
    <3> QED
      BY <1>2, <3>1, <3>2
  <2>8. \/ call' = call /\ calls' = calls
        \/ Cancel
        \/ \E p \in Proc : Call(p)
        \/ \E c \in Conn : GotReply(c)
        \/ \E x \in Xid : \/ Transmit(x) \/ WaitTimeout(x) \/ FinalTimeout(x)
                          \/ Finish(x) \/ RecordDup(x) \/ BindDone(x)
    BY DEF Next, vars, clientVars, NetStep, CallStep, ClientStep, CancelDone, WorkerStep,
           ServerRestart
  <2> QED
    BY <2>1, <2>2, <2>3, <2>4, <2>5, <2>6, <2>7, <2>8
<1> QED
  BY <1>3, <1>4, <1>5 DEF BindInv

-----------------------------------------------------------------------------
(***************************************************************************)
(* The server's window and the executions.                                 *)
(***************************************************************************)
\* A request that has been seen is not taken for a new one: registering xid z
\* (the NEW branch of checkduplicate_and_update) keeps every known xid known.
LEMMA KnownStays ==
    ASSUME NEW win, win \subseteq Nat, NEW z \in Nat, NEW rep \in Nat, rep < z,
           z \notin win, ~(win # {} /\ \A y \in win : z < y),
           NEW new, new = {y \in win \cup {z} : y >= rep},
           NEW x \in Nat, x \in win \/ (win # {} /\ \A y \in win : x < y)
    PROVE  x \in new \/ (new # {} /\ \A y \in new : x < y)
<1>1. z \in new
  OBVIOUS
<1>2. CASE x \in win /\ x >= rep
  BY <1>2
<1>3. CASE x \in win /\ x < rep
  BY <1>1, <1>3
<1>4. CASE win # {} /\ \A y \in win : x < y
  <2>1. PICK y \in win : ~(z < y)
    BY <1>4
  <2>2. y \in Nat /\ x < y /\ y <= z
    BY <1>4, <2>1
  <2>3. x < z
    BY <2>2
  <2> QED
    BY <1>1, <1>4, <2>3
<1> QED
  BY <1>2, <1>3, <1>4

\* Every step preserves ExecInv: this is where the reply window does its work.
LEMMA ExecStep ==
    ASSUME Retrans, TypeInv, HeaderInv, CopyInv, BindInv, ExecInv, AtMostOnce, [Next]_vars
    PROVE  ExecInv' /\ AtMostOnce'
<1>1. /\ worker \in [Worker -> Dispatch] /\ rwin \subseteq Xid /\ nexec \in [Xid -> Nat]
      /\ nonce \in Nat /\ call \in [Xid -> Caller] /\ xid_ \in Nat /\ Xid \subseteq Nat
  BY DEF TypeInv, TypeOK, ServerTypeOK, ClientTypeOK, Nonce, Xid
<1>2. xid_' \in Nat /\ xid_ <= xid_'
  <2>1. xid_' = xid_ \/ xid_' = xid_ + 1
    BY HeadersFixed DEF SameHeaders, Call
  <2> QED
    BY <1>1, <2>1
<1>3. \A x \in Xid : x < xid_ => /\ IsApp(x)' <=> IsApp(x)
                                /\ call'[x].hdr = call[x].hdr
  <2>1. ASSUME NEW x \in Xid, x < xid_
        PROVE  call'[x].hdr = call[x].hdr
    <3>1. CASE SameHeaders
      BY <3>1 DEF SameHeaders
    <3>2. ASSUME NEW p \in Proc, Call(p)
          PROVE  call'[x].hdr = call[x].hdr
      BY <1>1, <2>1, <3>2 DEF Call
    <3> QED
      BY <3>1, <3>2, HeadersFixed
  <2> QED
    BY <2>1, IsAppStays
<1>4. \A w \in Worker : worker[w].pc # "idle" =>
        /\ worker[w].req.xid \in Xid /\ worker[w].req.xid < xid_
        /\ worker[w].req = call[worker[w].req.xid].hdr
        /\ ~OldInstance(worker[w].req)
  BY <1>1 DEF CopyInv, IsCopy, Dispatch, Request
<1>5. \A x \in Xid : nexec[x] > 0 => x < xid_
  BY DEF ExecInv
<1>6. CASE /\ UNCHANGED <<nonce, rwin, nexec>>
           /\ \A w \in Worker : worker'[w].pc = "run" =>
                worker[w].pc = "run" /\ worker'[w].req = worker[w].req
  <2>1. \A x : Known(x)' <=> Known(x)
    BY <1>6 DEF Known, IsForgotten
  <2>2. AtMostOnce'
    BY <1>1, <1>3, <1>6 DEF AtMostOnce, ExecInv
  <2>3. \A x \in Xid : nexec'[x] > 0 => x < xid_'
    BY <1>1, <1>2, <1>6 DEF ExecInv
  <2>4. \A x \in Xid : (IsApp(x)' /\ nexec'[x] > 0) =>
          /\ call'[x].hdr.srv_nonce <= nonce'
          /\ call'[x].hdr.srv_nonce = nonce' => Known(x)'
    BY <1>3, <1>6, <2>1 DEF ExecInv
  <2>5. ASSUME NEW w \in Worker, worker'[w].pc = "run"
        PROVE  /\ Known(worker[w].req.xid)'
               /\ IsApp(worker[w].req.xid)' => nexec'[worker'[w].req.xid] = 0
    <3>1. PICK x \in Xid : x = worker[w].req.xid /\ x = worker'[w].req.xid /\ x < xid_
      BY <1>4, <1>6, <2>5
    <3>2. Known(x) /\ (IsApp(x) => nexec[x] = 0)
      BY <1>6, <2>5, <3>1 DEF ExecInv
    <3>3. Known(x)' /\ (IsApp(x)' => nexec'[x] = 0)
      BY <1>3, <1>6, <2>1, <3>1, <3>2
    <3> QED
      BY <3>1, <3>3 DEF Known, IsForgotten, IsApp, Started
  <2>6. \A v, w \in Worker :
          (worker'[v].pc = "run" /\ worker'[w].pc = "run"
             /\ worker'[v].req.xid = worker'[w].req.xid) => v = w
    BY <1>6 DEF ExecInv
  <2> QED
    BY <2>2, <2>3, <2>4, <2>5, <2>6 DEF ExecInv
<1>7. ASSUME NEW w \in Worker, CheckNew(w)
      PROVE  ExecInv' /\ AtMostOnce'
  <2>0. PICK z \in Xid, rep \in Nat : z = worker[w].req.xid /\ rep = worker[w].req.xid_rep
    BY <1>1, <1>4, <1>7 DEF CheckNew, Dispatch, Request
  <2>1. /\ z \in Xid /\ z < xid_ /\ worker[w].req = call[z].hdr
        /\ ~OldInstance(worker[w].req)
    BY <1>4, <1>7, <2>0 DEF CheckNew
  <2>2. rep \in Nat /\ rep < z
    BY <2>0, <2>1 DEF HeaderInv
  <2>3. ~Known(z)
    BY <1>7, <2>0 DEF CheckNew, Known
  <2>4. rwin' = {y \in rwin \cup {z} : y >= rep} /\ UNCHANGED <<nonce, nexec>>
    BY <1>7, <2>0 DEF CheckNew
  <2>5. \A x \in Xid : Known(x) => Known(x)'
    <3>1. ASSUME NEW x \in Xid, Known(x)
          PROVE  x \in rwin' \/ (rwin' # {} /\ \A y \in rwin' : x < y)
      <4>1. rwin \subseteq Nat /\ x \in Nat /\ z \in Nat
        BY <1>1, <2>1
      <4>2. z \notin rwin /\ ~(rwin # {} /\ \A y \in rwin : z < y)
        BY <2>3 DEF Known, IsForgotten
      <4>3. x \in rwin \/ (rwin # {} /\ \A y \in rwin : x < y)
        BY <3>1 DEF Known, IsForgotten
      <4> QED
        BY <2>2, <2>4, <4>1, <4>2, <4>3, KnownStays
    <3> QED
      BY <3>1 DEF Known, IsForgotten
  <2>6. Known(z)'
    BY <1>1, <2>1, <2>2, <2>4 DEF Known
  <2>7. /\ \A v \in Worker : worker'[v].req = worker[v].req
        /\ \A v \in Worker \ {w} : worker'[v].pc = worker[v].pc
    BY <1>1, <1>7 DEF CheckNew, Dispatch
  <2>8. IsApp(z) => nexec[z] = 0
    <3>1. SUFFICES ASSUME IsApp(z), nexec[z] > 0
                   PROVE  FALSE
      <4>1. nexec[z] \in Nat
        BY <1>1
      <4> QED
        BY <4>1
    <3>2. call[z].hdr.srv_nonce = nonce
      BY <2>1, <3>1 DEF OldInstance, BindInv
    <3> QED
      BY <2>1, <2>3, <3>1, <3>2 DEF ExecInv
  <2>9. AtMostOnce'
    BY <1>1, <1>3, <2>4 DEF AtMostOnce, ExecInv
  <2>10. \A x \in Xid : nexec'[x] > 0 => x < xid_'
    BY <1>1, <1>2, <1>5, <2>4
  <2>11. \A x \in Xid : (IsApp(x)' /\ nexec'[x] > 0) =>
           /\ call'[x].hdr.srv_nonce <= nonce'
           /\ call'[x].hdr.srv_nonce = nonce' => Known(x)'
    BY <1>3, <2>4, <2>5 DEF ExecInv
  <2>12. ASSUME NEW v \in Worker, worker'[v].pc = "run"
         PROVE  /\ Known(worker[v].req.xid)'
                /\ IsApp(worker[v].req.xid)' => nexec'[worker'[v].req.xid] = 0
    <3>1. PICK x \in Xid : x = worker[v].req.xid /\ x = worker'[v].req.xid /\ x < xid_
      BY <1>4, <1>7, <2>7, <2>12 DEF CheckNew
    <3>2. Known(x)' /\ (IsApp(x) => nexec[x] = 0)
      <4>1. CASE v = w
        BY <2>0, <2>6, <2>8, <3>1, <4>1
      <4>2. CASE v # w
        <5>1. Known(x) /\ (IsApp(x) => nexec[x] = 0)
          BY <2>7, <2>12, <3>1, <4>2 DEF ExecInv
        <5> QED
          BY <2>5, <5>1
      <4> QED
        BY <4>1, <4>2
    <3>3. IsApp(x)' => nexec'[x] = 0
      BY <1>3, <2>4, <3>1, <3>2
    <3> QED
      BY <3>1, <3>2, <3>3 DEF Known, IsForgotten, IsApp, Started
  <2>13. \A u, v \in Worker :
           (worker'[u].pc = "run" /\ worker'[v].pc = "run"
              /\ worker'[u].req.xid = worker'[v].req.xid) => u = v
    <3>1. \A v \in Worker : worker[v].pc = "run" => worker[v].req.xid # z
      BY <2>3 DEF ExecInv
    <3> QED
      BY <2>0, <2>7, <3>1 DEF ExecInv
  <2> QED
    BY <2>9, <2>10, <2>11, <2>12, <2>13 DEF ExecInv
<1>8. ASSUME NEW w \in Worker, Run(w)
      PROVE  ExecInv' /\ AtMostOnce'
  <2> DEFINE z == worker[w].req.xid
  <2>1. /\ z \in Xid /\ z < xid_ /\ worker[w].req = call[z].hdr
        /\ ~OldInstance(worker[w].req) /\ worker[w].pc = "run"
    BY <1>4, <1>8 DEF Run
  <2>2. /\ nexec'[z] = nexec[z] + 1
        /\ \A x \in Xid \ {z} : nexec'[x] = nexec[x]
    BY <1>1, <1>8, <2>1 DEF Run
  <2>3. UNCHANGED <<nonce, rwin>>
    BY <1>8 DEF Run
  <2>4. \A x : Known(x)' <=> Known(x)
    BY <2>3 DEF Known, IsForgotten
  <2>5. Known(z) /\ (IsApp(z) => nexec[z] = 0)
    BY <2>1 DEF ExecInv
  <2>6. /\ worker'[w].pc = "send"
        /\ \A v \in Worker \ {w} : worker'[v] = worker[v]
    BY <1>1, <1>8 DEF Run, Dispatch
  <2>7. AtMostOnce'
    BY <1>1, <1>3, <2>1, <2>2, <2>5 DEF AtMostOnce, ExecInv
  <2>8. \A x \in Xid : nexec'[x] > 0 => x < xid_'
    BY <1>1, <1>2, <2>1, <2>2 DEF ExecInv
  <2>9. \A x \in Xid : (IsApp(x)' /\ nexec'[x] > 0) =>
          /\ call'[x].hdr.srv_nonce <= nonce'
          /\ call'[x].hdr.srv_nonce = nonce' => Known(x)'
    <3>1. IsApp(z) => call[z].hdr.srv_nonce = nonce
      BY <2>1 DEF OldInstance, BindInv
    <3>2. CASE ~IsApp(z)
      BY <1>1, <1>3, <2>1, <2>2, <2>3, <2>4, <3>2 DEF ExecInv
    <3>3. CASE IsApp(z)
      BY <1>1, <1>3, <2>1, <2>2, <2>3, <2>4, <2>5, <3>1, <3>3 DEF ExecInv
    <3> QED
      BY <3>2, <3>3
  <2>10. ASSUME NEW v \in Worker, worker'[v].pc = "run"
         PROVE  /\ Known(worker[v].req.xid)'
                /\ IsApp(worker[v].req.xid)' => nexec'[worker'[v].req.xid] = 0
    <3>1. v # w /\ worker'[v] = worker[v] /\ worker[v].pc = "run"
      BY <2>6, <2>10
    <3>2. PICK x \in Xid : x = worker[v].req.xid /\ x = worker'[v].req.xid /\ x < xid_
      BY <1>4, <3>1
    <3>3. x # z /\ Known(x) /\ (IsApp(x) => nexec[x] = 0)
      BY <2>1, <3>1, <3>2 DEF ExecInv
    <3>4. Known(x)' /\ (IsApp(x)' => nexec'[x] = 0)
      BY <1>3, <2>2, <2>4, <3>2, <3>3
    <3> QED
      BY <3>2, <3>4 DEF Known, IsForgotten, IsApp, Started
  <2>11. \A u, v \in Worker :
           (worker'[u].pc = "run" /\ worker'[v].pc = "run"
              /\ worker'[u].req.xid = worker'[v].req.xid) => u = v
    BY <2>6 DEF ExecInv
  <2> QED
    BY <2>7, <2>8, <2>9, <2>10, <2>11 DEF ExecInv
<1>9. CASE Restart
  <2>1. nexec' = nexec /\ nonce' = nonce + 1 /\ \A w \in Worker : worker'[w].pc # "run"
    BY <1>9 DEF Restart, Idle
  <2>2. AtMostOnce'
    BY <1>1, <1>3, <2>1 DEF AtMostOnce, ExecInv
  <2>3. \A x \in Xid : nexec'[x] > 0 => x < xid_'
    BY <1>1, <1>2, <2>1 DEF ExecInv
  <2>4. ASSUME NEW x \in Xid, IsApp(x)', nexec'[x] > 0
        PROVE  call'[x].hdr.srv_nonce <= nonce' /\ call'[x].hdr.srv_nonce # nonce'
    <3>1. call'[x].hdr.srv_nonce <= nonce
      BY <1>3, <2>1, <2>4 DEF ExecInv
    <3>2. call'[x].hdr.srv_nonce \in Nat
      <4>1. call' \in [Xid -> Caller]
        BY NextType DEF TypeInv, TypeOK, ClientTypeOK
      <4> QED
        BY <4>1 DEF Caller, Request, Nonce
    <3> QED
      BY <1>1, <2>1, <3>1, <3>2
  <2> QED
    BY <2>1, <2>2, <2>3, <2>4 DEF ExecInv
<1>10. \/ /\ UNCHANGED <<nonce, rwin, nexec>>
         /\ \A w \in Worker : worker'[w].pc = "run" =>
              worker[w].pc = "run" /\ worker'[w].req = worker[w].req
      \/ Restart
      \/ \E w \in Worker : CheckNew(w) \/ Run(w)
  <2>1. CASE UNCHANGED serverVars
    BY <2>1 DEF serverVars
  <2>2. ASSUME NEW w \in Worker, NEW c \in Conn, Receive(w, c)
        PROVE  <1>10
    BY <1>1, <2>2 DEF Receive
  <2>3. ASSUME NEW w \in Worker,
               CheckInProgress(w) \/ CheckDone(w) \/ CheckForgotten(w) \/ Answer(w) \/ Fault(w)
        PROVE  <1>10
    <3>1. CASE CheckInProgress(w) \/ CheckDone(w) \/ CheckForgotten(w) \/ Answer(w)
      <4>1. /\ worker' = [worker EXCEPT ![w] = Idle] /\ Idle.pc = "idle"
            /\ UNCHANGED <<nonce, rwin, nexec>>
        BY <3>1 DEF CheckInProgress, CheckDone, CheckForgotten, Answer, Idle
      <4> QED
        BY <1>1, <4>1
    <3>2. CASE Fault(w)
      BY <1>1, <3>2 DEF Fault, Dispatch
    <3> QED
      BY <2>3, <3>1, <3>2
  <2>4. \/ UNCHANGED serverVars \/ Restart
        \/ \E w \in Worker :
             \/ \E c \in Conn : Receive(w, c)
             \/ CheckNew(w) \/ CheckInProgress(w) \/ CheckDone(w) \/ CheckForgotten(w)
             \/ Run(w) \/ Answer(w) \/ Fault(w)
    BY DEF Next, vars, NetStep, CallStep, ClientStep, WorkerStep, RefuseOld, ServerRestart
  <2> QED
    BY <2>1, <2>2, <2>3, <2>4
<1> QED
  BY <1>6, <1>7, <1>8, <1>9, <1>10

-----------------------------------------------------------------------------
(***************************************************************************)
(* At-most-once execution.                                                 *)
(***************************************************************************)
LEMMA InitInv == Init => IInv
<1> SUFFICES ASSUME Init PROVE IInv
  OBVIOUS
<1>1. TypeOK
  BY InitType DEF TypeInv
<1>2. \A x \in Xid : ~(x < 1) /\ 0 < x
  BY DEF Xid
<1>3. /\ xid_ = 1 /\ xid_rep_window = {0} /\ calls = {} /\ dup_req = {} /\ ~bind_done
      /\ c2s = [c \in Conn |-> {}] /\ s2c = [c \in Conn |-> {}]
      /\ nexec = [x \in Xid |-> 0]
  BY DEF Init, NetInit, ClientInit, ServerInit
<1>4. \A w \in Worker : worker[w].pc = "idle"
  BY DEF Init, ServerInit, Idle
<1>5. \A x \in Xid : /\ call[x].pc = "none" /\ call[x].ret = "none"
                     /\ call[x].hdr.xid = x /\ call[x].hdr.xid_rep = 0
  BY DEF Init, ClientInit
<1>6. HeaderInv
  BY <1>2, <1>3, <1>5 DEF HeaderInv, Started
<1>7. WindowInv
  BY <1>3 DEF WindowInv
<1>8. CopyInv
  BY <1>3, <1>4 DEF CopyInv
<1>9. BindInv
  BY <1>3, <1>5 DEF BindInv, IsApp, Started
<1>10. ExecInv /\ AtMostOnce
  BY <1>3, <1>4, <1>5 DEF ExecInv, AtMostOnce, IsApp, Started
<1> QED
  BY <1>1, <1>6, <1>7, <1>8, <1>9, <1>10 DEF IInv

\* Every step preserves the inductive invariant.
LEMMA NextInv ==
    ASSUME Retrans, IInv, [Next]_vars
    PROVE  IInv'
<1>1. TypeInv
  BY DEF IInv, TypeInv, WindowInv
<1>2. TypeInv'
  BY <1>1, NextType
<1>3. HeaderInv' /\ WindowInv'
  BY <1>1, WindowStep DEF IInv
<1>4. CopyInv'
  BY <1>1, CopyStep DEF IInv
<1>5. BindInv'
  BY <1>1, BindStep DEF IInv
<1>6. ExecInv' /\ AtMostOnce'
  BY <1>1, ExecStep DEF IInv
<1> QED
  BY <1>2, <1>3, <1>4, <1>5, <1>6 DEF IInv, TypeInv

\* A client that retransmits, and so has a nonce, has each of its application
\* calls executed at most once: through retransmissions on new connections,
\* the resend of forgotten requests under RPC_LOSSY, requests that overtake
\* one another in the dispatch pool, timeouts, cancellation and restarts.
THEOREM AtMostOnceHolds ==
    ASSUME Retrans
    PROVE  Spec => []AtMostOnce
<1>1. Init => IInv
  BY InitInv
<1>2. IInv /\ [Next]_vars => IInv'
  BY NextInv
<1>3. IInv => AtMostOnce
  BY DEF IInv
<1> QED
  BY <1>1, <1>2, <1>3, PTL DEF Spec
=============================================================================
