--------------------------- MODULE RpcRefinement ----------------------------
(***************************************************************************)
(* Proofs about RpcSystem, for every value of the constants: for a client  *)
(* with a nonce the server keeps the reply of a call for as long as its    *)
(* caller waits, and the system implements RpcService; it does so for a    *)
(* client without a nonce too, by another argument.                        *)
(***************************************************************************)
EXTENDS RpcProofs

-----------------------------------------------------------------------------
(***************************************************************************)
(* What every step leaves alone.                                           *)
(***************************************************************************)
\* The types that the steps below need.
LEMMA Types ==
    ASSUME TypeInv
    PROVE  /\ xid_ \in Nat /\ Xid \subseteq Nat /\ nonce \in Nat /\ srv_nonce \in Nat
           /\ call \in [Xid -> Caller] /\ calls \subseteq Xid
           /\ xid_rep_window \subseteq Nat /\ xid_rep_window # {}
           /\ s2c \in [Conn -> SUBSET Reply] /\ c2s \in [Conn -> SUBSET Request]
           /\ worker \in [Worker -> Dispatch] /\ nexec \in [Xid -> Nat]
           /\ rwin \subseteq Xid /\ saved \subseteq Xid
<1>1. Xid \subseteq Nat /\ Nonce \subseteq Nat
  BY DEF Xid, Nonce
<1> QED
  BY <1>1 DEF TypeInv, TypeOK, NetTypeOK, ClientTypeOK, ServerTypeOK

\* The types inside a call.
LEMMA CallerTypes ==
    ASSUME TypeInv, NEW x \in Xid
    PROVE  /\ call[x].hdr \in Request /\ call[x].hdr.srv_nonce \in Nat
           /\ call[x].hdr.xid_rep \in Nat /\ call[x].nonce \in Nat
<1>1. \A n \in {0} \cup Nonce : n \in Nat
  BY DEF Nonce
<1>2. call[x] \in Caller
  BY Types
<1>3. call[x].hdr \in Request /\ call[x].nonce \in {0} \cup Nonce
  BY <1>2 DEF Caller
<1>4. call[x].hdr.srv_nonce \in {0} \cup Nonce /\ call[x].hdr.xid_rep \in Nat
  BY <1>3 DEF Request
<1> QED
  BY <1>1, <1>3, <1>4

\* A call in calls_ has been made.
LEMMA CallsStarted ==
    ASSUME IInv, NEW x \in calls
    PROVE  x \in Xid /\ x < xid_ /\ Started(x)
<1>1. x \in Xid /\ x < xid_
  BY DEF IInv, TypeOK, ClientTypeOK, WindowInv
<1> QED
  BY <1>1 DEF IInv, HeaderInv

\* The header that a call has packed is never changed.
LEMMA HeaderStays ==
    ASSUME TypeInv, HeaderInv, [Next]_vars, NEW x \in Xid, x < xid_
    PROVE  call'[x].hdr = call[x].hdr /\ (IsApp(x)' <=> IsApp(x))
<1>1. CASE SameHeaders
  BY <1>1 DEF SameHeaders, IsApp
<1>2. ASSUME NEW p \in Proc, Call(p)
      PROVE  call'[x].hdr = call[x].hdr
  BY <1>2, Types DEF Call
<1>3. IsApp(x)' <=> IsApp(x)
  BY IsAppStays
<1> QED
  BY <1>1, <1>2, <1>3, HeadersFixed

\* Server instances are numbered upwards, and an execution is not undone.
LEMMA Monotone ==
    ASSUME TypeInv, [Next]_vars
    PROVE  /\ nonce' \in Nat /\ nonce <= nonce'
           /\ \A x \in Xid : nexec'[x] \in Nat /\ nexec[x] <= nexec'[x]
<1>1. CASE UNCHANGED <<nonce, nexec>>
  BY <1>1, Types
<1>2. CASE Restart
  BY <1>2, Types DEF Restart
<1>3. ASSUME NEW w \in Worker, Run(w)
      PROVE  /\ nonce' = nonce
             /\ \A x \in Xid : nexec'[x] = nexec[x] \/ nexec'[x] = nexec[x] + 1
  BY <1>3, Types DEF Run
<1>4. UNCHANGED <<nonce, nexec>> \/ Restart \/ \E w \in Worker : Run(w)
  BY DEF Next, vars, serverVars, NetStep, CallStep, ClientStep, WorkerStep, RefuseOld,
         Receive, CheckNew, CheckInProgress, CheckDone, CheckForgotten, Answer, Fault,
         ServerRestart
<1> QED
  BY <1>1, <1>2, <1>3, <1>4, Types

\* A caller that waits has waited before, unless its call has just been made.
LEMMA OpenBefore ==
    ASSUME IInv, [Next]_vars, NEW x, Open(x)'
    PROVE  Open(x) \/ \E p \in Proc : Call(p) /\ x = xid_
<1>1. TypeInv
  BY DEF IInv, TypeInv, WindowInv
<1> USE <1>1, Types DEF Open
<1>2. CASE UNCHANGED <<calls, call>>
  BY <1>2
<1>3. ASSUME NEW p \in Proc, Call(p)
      PROVE  Open(x) \/ x = xid_
  BY <1>3 DEF Call
<1>4. ASSUME NEW y \in Xid, Transmit(y) \/ WaitTimeout(y) \/ FinalTimeout(y)
      PROVE  Open(x)
  <2>1. calls' = calls /\ \A z \in Xid : call'[z].done = call[z].done
    BY <1>4 DEF Transmit, WaitTimeout, FinalTimeout, Caller
  <2> QED
    BY <2>1
<1>5. ASSUME NEW y \in Xid, Finish(y)
      PROVE  Open(x)
  BY <1>5 DEF Finish, Exit
<1>6. ASSUME NEW y \in Xid, RecordDup(y) \/ BindDone(y)
      PROVE  Open(x)
  <2>1. y \notin calls
    BY <1>6 DEF IInv, BindInv, RecordDup, BindDone
  <2>2. calls' = calls /\ \A z \in Xid \ {y} : call'[z] = call[z]
    BY <1>6 DEF RecordDup, BindDone, Exit
  <2> QED
    BY <2>1, <2>2
<1>7. ASSUME NEW c \in Conn, GotReply(c)
      PROVE  Open(x)
  <2>1. PICK r \in s2c[c] :
          call' = IF r.xid \in calls /\ ~call[r.xid].done
                  THEN [call EXCEPT ![r.xid].done = TRUE,
                                    ![r.xid].ret = r.ret,
                                    ![r.xid].nonce = r.nonce]
                  ELSE call
    BY <1>7 DEF GotReply
  <2>2. calls' = calls /\ r.xid \in Xid
    BY <1>7, <2>1 DEF GotReply, Reply
  <2>3. CASE r.xid \in calls /\ ~call[r.xid].done
    <3>1. call'[r.xid].done /\ \A z \in Xid \ {r.xid} : call'[z] = call[z]
      BY <2>1, <2>2, <2>3
    <3> QED
      BY <2>2, <3>1
  <2>4. CASE ~(r.xid \in calls /\ ~call[r.xid].done)
    BY <2>1, <2>2, <2>4
  <2> QED
    BY <2>3, <2>4
<1>8. ASSUME Cancel
      PROVE  Open(x)
  <2>1. calls' = calls /\ \A z \in calls : call'[z].done
    BY <1>8 DEF Cancel, Caller
  <2> QED
    BY <2>1
<1>9. \/ UNCHANGED <<calls, call>>
      \/ \E p \in Proc : Call(p)
      \/ \E y \in Xid : \/ Transmit(y) \/ WaitTimeout(y) \/ FinalTimeout(y)
                        \/ Finish(y) \/ RecordDup(y) \/ BindDone(y)
      \/ \E c \in Conn : GotReply(c)
      \/ Cancel
  BY DEF Next, vars, clientVars, NetStep, CallStep, ClientStep, CancelDone, WorkerStep,
         ServerRestart
<1> QED
  BY <1>2, <1>3, <1>4, <1>5, <1>6, <1>7, <1>8, <1>9

-----------------------------------------------------------------------------
(***************************************************************************)
(* Replies.                                                                *)
(***************************************************************************)
\* Why dispatch sends the reply r: it refuses a request for another instance,
\* answers one that it has executed, or has moved its window past it.
Origin(r, req, ret) ==
    /\ IsCopy(req) /\ r = ReplyTo(req, ret)
    /\ \/ ret = "oldsrv_failure" /\ OldInstance(req)
       \/ ret = "ok" /\ nexec[req.xid] > 0
       \/ /\ ret = "atmostonce_failure" /\ ~OldInstance(req)
          /\ req.xid \notin rwin /\ IsForgotten(req.xid)

\* A step of dispatch that only sends.
SendOnly ==
    /\ UNCHANGED <<clientVars, nonce, rwin, saved, nexec>>
    /\ \A w \in Worker, x \in Xid : Runs(w, x)' => Runs(w, x)

\* Replies are sent by three branches of dispatch and by its refusal.
LEMMA ReplySenders ==
    ASSUME TypeInv, [Next]_vars, NEW c \in Conn
    PROVE  \/ s2c'[c] \subseteq s2c[c]
           \/ /\ UNCHANGED clientVars
              /\ \E w \in Worker : \/ CheckDone(w) \/ CheckForgotten(w) \/ Answer(w)
                                   \/ \E d \in Conn : RefuseOld(w, d)
<1> USE Types
<1>1. CASE s2c' = s2c
  BY <1>1
<1>2. ASSUME NEW d \in Conn, ClientReadFails(d) \/ GotReply(d)
      PROVE  s2c'[c] \subseteq s2c[c]
  BY <1>2 DEF ClientReadFails, GotReply
<1>3. ASSUME NEW x \in Xid, Transmit(x)
      PROVE  s2c'[c] \subseteq s2c[c]
  <2>1. s2c' = s2c \/ \E d : s2c' = [s2c EXCEPT ![d] = {}]
    BY <1>3 DEF Transmit, SendRequest
  <2> QED
    BY <2>1
<1>4. \/ s2c' = s2c
      \/ \E d \in Conn : ClientReadFails(d) \/ GotReply(d)
      \/ \E x \in Xid : Transmit(x)
      \/ /\ UNCHANGED clientVars
         /\ \E w \in Worker : \/ CheckDone(w) \/ CheckForgotten(w) \/ Answer(w)
                              \/ \E d \in Conn : RefuseOld(w, d)
  BY DEF Next, vars, netVars, NetStep, Break, ServerReadFails, CallStep, ClientStep,
         WaitTimeout, FinalTimeout, Finish, RecordDup, BindDone, Call, Cancel, CancelDone,
         WorkerStep, ServerRestart, Restart, Receive, CheckNew, CheckInProgress, Run, Fault
<1> QED
  BY <1>1, <1>2, <1>3, <1>4

\* Where a reply in transit that was not there before comes from.
LEMMA NewReply ==
    ASSUME IInv, KeepInv, [Next]_vars, NEW c \in Conn, NEW r \in s2c'[c], r \notin s2c[c]
    PROVE  SendOnly /\ \E req \in Request, ret \in Outcome : Origin(r, req, ret)
<1>1. TypeInv
  BY DEF IInv, TypeInv, WindowInv
<1> USE <1>1, Types
<1>2. ASSUME NEW d, NEW req \in Request, NEW ret \in Outcome, SendReply(d, ReplyTo(req, ret))
      PROVE  r = ReplyTo(req, ret)
  <2>1. s2c' = s2c \/ s2c' = [s2c EXCEPT ![d] = @ \cup {ReplyTo(req, ret)}]
    BY <1>2 DEF SendReply
  <2> QED
    BY <2>1
<1>3. "ok" \in Outcome /\ "oldsrv_failure" \in Outcome /\ "atmostonce_failure" \in Outcome
  BY DEF Outcome
<1>4. ASSUME NEW w \in Worker, CheckDone(w) \/ CheckForgotten(w) \/ Answer(w),
             UNCHANGED clientVars
      PROVE  /\ worker[w].req \in Request /\ IsCopy(worker[w].req)
             /\ ~OldInstance(worker[w].req)
             /\ SendOnly
  <2>1. /\ worker[w].pc # "idle" /\ worker' = [worker EXCEPT ![w] = Idle]
        /\ UNCHANGED <<nonce, rwin, saved, nexec>>
    BY <1>4 DEF CheckDone, CheckForgotten, Answer
  <2>2. worker[w].req \in Request
    BY DEF Dispatch
  <2>3. IsCopy(worker[w].req) /\ ~OldInstance(worker[w].req)
    BY <2>1 DEF IInv, CopyInv
  <2>4. \A v \in Worker, x \in Xid : Runs(v, x)' => Runs(v, x)
    BY <2>1 DEF Runs, Idle
  <2> QED
    BY <1>4, <2>1, <2>2, <2>3, <2>4 DEF SendOnly
<1>5. ASSUME NEW w \in Worker, NEW d \in Conn, RefuseOld(w, d), UNCHANGED clientVars
      PROVE  SendOnly /\ \E req \in Request, ret \in Outcome : Origin(r, req, ret)
  <2>1. PICK req \in c2s[d] : /\ OldInstance(req)
                              /\ SendReply(d, ReplyTo(req, "oldsrv_failure"))
    BY <1>5 DEF RefuseOld
  <2>2. req \in Request /\ IsCopy(req)
    BY <2>1 DEF IInv, CopyInv
  <2>3. r = ReplyTo(req, "oldsrv_failure")
    BY <1>2, <1>3, <2>1, <2>2
  <2>4. UNCHANGED <<nonce, rwin, saved, nexec, worker>>
    BY <1>5 DEF RefuseOld, serverVars
  <2>5. Origin(r, req, "oldsrv_failure")
    BY <2>1, <2>2, <2>3 DEF Origin
  <2> QED
    BY <1>3, <1>5, <2>2, <2>4, <2>5 DEF Runs, SendOnly
<1>6. ASSUME NEW w \in Worker, CheckDone(w) \/ Answer(w), UNCHANGED clientVars
      PROVE  SendOnly /\ \E req \in Request, ret \in Outcome : Origin(r, req, ret)
  <2>1. PICK d : SendReply(d, ReplyTo(worker[w].req, "ok"))
    BY <1>6, Zenon DEF CheckDone, Answer
  <2>2. nexec[worker[w].req.xid] > 0
    BY <1>6 DEF CheckDone, Answer, KeepInv
  <2>3. r = ReplyTo(worker[w].req, "ok")
    BY <1>2, <1>3, <1>4, <1>6, <2>1
  <2>4. Origin(r, worker[w].req, "ok")
    BY <1>4, <1>6, <2>2, <2>3 DEF Origin
  <2> QED
    BY <1>3, <1>4, <1>6, <2>4
<1>7. ASSUME NEW w \in Worker, CheckForgotten(w), UNCHANGED clientVars
      PROVE  SendOnly /\ \E req \in Request, ret \in Outcome : Origin(r, req, ret)
  <2>1. PICK d : SendReply(d, ReplyTo(worker[w].req, "atmostonce_failure"))
    BY <1>7, Zenon DEF CheckForgotten
  <2>2. worker[w].req.xid \notin rwin /\ IsForgotten(worker[w].req.xid)
    BY <1>7 DEF CheckForgotten
  <2>3. r = ReplyTo(worker[w].req, "atmostonce_failure")
    BY <1>2, <1>3, <1>4, <1>7, <2>1
  <2>4. Origin(r, worker[w].req, "atmostonce_failure")
    BY <1>4, <1>7, <2>2, <2>3 DEF Origin
  <2> QED
    BY <1>3, <1>4, <1>7, <2>4
<1> QED
  BY <1>5, <1>6, <1>7, ReplySenders

-----------------------------------------------------------------------------
(***************************************************************************)
(* NonceInv and AckInv: the client.                                        *)
(***************************************************************************)
\* No step makes known a server instance that does not exist.
LEMMA NonceStep ==
    ASSUME IInv, NonceInv, KeepInv, [Next]_vars
    PROVE  NonceInv'
<1>1. TypeInv /\ TypeInv'
  BY NextType DEF IInv, TypeInv, WindowInv
<1> USE <1>1, Types
<1>2. nonce' \in Nat /\ nonce <= nonce'
  BY Monotone
<1>3. srv_nonce' <= nonce'
  <2>1. ASSUME NEW x \in Xid, BindDone(x)
        PROVE  srv_nonce' \in Nat /\ srv_nonce' <= nonce
    BY <2>1, CallerTypes DEF BindDone, NonceInv
  <2>2. srv_nonce' = srv_nonce \/ \E x \in Xid : BindDone(x)
    BY DEF Next, vars, clientVars, NetStep, CallStep, ClientStep, Transmit, WaitTimeout,
           FinalTimeout, Finish, RecordDup, Call, GotReply, Cancel, CancelDone, WorkerStep,
           ServerRestart
  <2> QED
    BY <1>2, <2>1, <2>2 DEF NonceInv
<1>4. \A x \in Xid : call'[x].hdr.srv_nonce <= nonce'
  <2>1. ASSUME NEW x \in Xid
        PROVE  call'[x].hdr.srv_nonce \in {call[x].hdr.srv_nonce, srv_nonce}
    <3>1. CASE SameHeaders
      BY <3>1 DEF SameHeaders
    <3>2. ASSUME NEW p \in Proc, Call(p)
          PROVE  call'[x].hdr.srv_nonce \in {call[x].hdr.srv_nonce, srv_nonce}
      BY <3>2 DEF Call, Caller
    <3> QED
      BY <3>1, <3>2, HeadersFixed
  <2>2. \A x \in Xid : call[x].hdr.srv_nonce \in Nat
    BY CallerTypes
  <2>3. \A n \in Nat : n <= nonce => n <= nonce'
    BY <1>2
  <2> QED
    BY <2>1, <2>2, <2>3 DEF NonceInv
<1>5. \A x \in Xid : call'[x].nonce <= nonce'
  <2>1. \A x \in Xid : \/ call'[x].nonce = call[x].nonce
                       \/ \E c \in Conn : \E r \in s2c[c] : call'[x].nonce = r.nonce
    <3>1. CASE call' = call
      BY <3>1
    <3>2. ASSUME NEW p \in Proc, Call(p)
          PROVE  \A x \in Xid : call'[x].nonce = call[x].nonce
      BY <3>2 DEF Call, Caller
    <3>3. ASSUME NEW y \in Xid, \/ Transmit(y) \/ WaitTimeout(y) \/ FinalTimeout(y)
                                \/ Finish(y) \/ RecordDup(y) \/ BindDone(y)
          PROVE  \A x \in Xid : call'[x].nonce = call[x].nonce
      <4>1. CASE Transmit(y)
        BY <4>1 DEF Transmit, Caller
      <4>2. CASE WaitTimeout(y) \/ FinalTimeout(y) \/ BindDone(y)
        <5>1. CASE WaitTimeout(y)
          BY <5>1 DEF WaitTimeout, Caller
        <5>2. CASE FinalTimeout(y)
          BY <5>2 DEF FinalTimeout, Caller
        <5>3. CASE BindDone(y)
          BY <5>3 DEF BindDone, Caller
        <5> QED
          BY <4>2, <5>1, <5>2, <5>3
      <4>3. CASE Finish(y) \/ RecordDup(y)
        <5>1. call' = Exit(y) \/ call' = [call EXCEPT ![y].pc = "record"]
          BY <4>3 DEF Finish, RecordDup
        <5> QED
          BY <5>1 DEF Exit, Caller
      <4> QED
        BY <3>3, <4>1, <4>2, <4>3
    <3>4. ASSUME NEW c \in Conn, GotReply(c)
          PROVE  <2>1
      BY <3>4 DEF GotReply, Caller
    <3>5. CASE Cancel
      BY <3>5 DEF Cancel, Caller
    <3>6. \/ call' = call
          \/ \E p \in Proc : Call(p)
          \/ \E y \in Xid : \/ Transmit(y) \/ WaitTimeout(y) \/ FinalTimeout(y)
                            \/ Finish(y) \/ RecordDup(y) \/ BindDone(y)
          \/ \E c \in Conn : GotReply(c)
          \/ Cancel
      BY DEF Next, vars, clientVars, NetStep, CallStep, ClientStep, CancelDone, WorkerStep,
             ServerRestart
    <3> QED
      BY <3>1, <3>2, <3>3, <3>4, <3>5, <3>6
  <2>2. \A x \in Xid : call[x].nonce <= nonce
    BY DEF NonceInv
  <2>3. \A x \in Xid : call'[x].nonce <= nonce
    BY <2>1, <2>2 DEF NonceInv
  <2>4. \A x \in Xid : call'[x].nonce \in Nat
    <3>1. ASSUME NEW x \in Xid
          PROVE  call'[x] \in Caller
      BY DEF TypeInv, TypeOK, ClientTypeOK
    <3>2. \A n \in {0} \cup Nonce : n \in Nat
      BY DEF Nonce
    <3> QED
      BY <3>1, <3>2 DEF Caller
  <2> QED
    BY <1>2, <2>3, <2>4
<1>6. \A c \in Conn : \A r \in s2c'[c] : r.nonce <= nonce'
  <2>1. ASSUME NEW c \in Conn, NEW r \in s2c'[c]
        PROVE  r.nonce <= nonce
    <3>1. CASE r \in s2c[c]
      BY <3>1 DEF NonceInv
    <3>2. CASE r \notin s2c[c]
      <4>1. PICK req \in Request, ret \in Outcome : r = ReplyTo(req, ret)
        BY <3>2, NewReply DEF Origin
      <4> QED
        BY <4>1 DEF ReplyTo
    <3> QED
      BY <3>1, <3>2
  <2>2. \A c \in Conn : \A r \in s2c'[c] : r.nonce \in Nat
    <3>1. \A n \in {0} \cup Nonce : n \in Nat
      BY DEF Nonce
    <3>2. s2c' \in [Conn -> SUBSET Reply]
      BY DEF TypeInv, TypeOK, NetTypeOK
    <3>3. \A r \in Reply : r.nonce \in {0} \cup Nonce
      BY DEF Reply
    <3> QED
      BY <3>1, <3>2, <3>3
  <2> QED
    BY <1>2, <2>1, <2>2
<1> QED
  BY <1>3, <1>4, <1>5, <1>6 DEF NonceInv

\* update_xid_rep for another xid does not move the front past a call that waits.
LEMMA UpdateXidRepKeepsOpen ==
    ASSUME TypeInv, NEW x \in Xid, x \notin xid_rep_window, Front(xid_rep_window) < x,
           NEW z \in Xid, z # x
    PROVE  LET w == UpdateXidRep(xid_rep_window, z) IN x \notin w /\ Front(w) < x
<1> DEFINE w == UpdateXidRep(xid_rep_window, z)
<1>1. w \subseteq xid_rep_window \cup {z} /\ w \subseteq Nat /\ w # {}
  BY UpdateXidRepType
<1>2. x \in Nat /\ z \in Nat /\ xid_rep_window \subseteq Nat /\ xid_rep_window # {}
  BY Types
<1>3. PICK y \in w : y < x
  BY <1>2, UpdateXidRepStops
<1>4. Front(w) \in Nat /\ Front(w) <= y
  <2> HIDE DEF w
  <2> QED
    BY <1>1, FrontIsLeast
<1>5. Front(w) < x
  BY <1>1, <1>2, <1>3, <1>4
<1> QED
  BY <1>1, <1>5

\* No step acknowledges a call whose caller waits: call1 and got_pdu call
\* update_xid_rep only for a call that is over.
LEMMA AckStep ==
    ASSUME IInv, AckInv, [Next]_vars
    PROVE  AckInv'
<1>1. TypeInv
  BY DEF IInv, TypeInv, WindowInv
<1> USE <1>1, Types
<1>2. ASSUME NEW p \in Proc, Call(p)
      PROVE  AckInv'
  <2>1. /\ Front(xid_rep_window) \in Nat /\ Front(xid_rep_window) < xid_
        /\ xid_ \notin xid_rep_window
    BY FrontIsLeast DEF IInv, WindowInv
  <2>2. xid_ \in Xid
    BY <1>2, BoundsAssumption DEF Call, TypeInv, TypeOK, ClientTypeOK, Xid
  <2>3. /\ call'[xid_].hdr.xid_rep = Front(xid_rep_window) /\ xid_rep_window' = xid_rep_window
        /\ \A y \in Xid \ {xid_} : call'[y] = call[y]
    BY <1>2, <2>2 DEF Call, Caller
  <2>4. \A y \in Xid \ {xid_} : Started(y)' =>
          Started(y) /\ call[y].hdr.xid_rep \in Nat /\ call[y].hdr.xid_rep < xid_
    <3>1. ASSUME NEW y \in Xid \ {xid_}, Started(y)'
          PROVE  Started(y) /\ y < xid_ /\ call[y].hdr.xid_rep < y
      BY <2>3, <3>1 DEF Started, IInv, HeaderInv
    <3> QED
      BY <3>1, CallerTypes
  <2>5. ASSUME NEW x, Open(x)'
        PROVE  /\ x \notin xid_rep_window' /\ Front(xid_rep_window') < x
               /\ \A y \in Xid : Started(y)' => call'[y].hdr.xid_rep < x
    <3>1. CASE x = xid_
      BY <2>1, <2>3, <2>4, <3>1
    <3>2. CASE Open(x)
      BY <2>1, <2>3, <2>4, <3>2 DEF AckInv, Open
    <3> QED
      BY <2>5, <3>1, <3>2, OpenBefore
  <2> QED
    BY <2>5 DEF AckInv
<1>3. CASE SameHeaders
  <2>1. ASSUME NEW x, Open(x)'
        PROVE  Open(x) /\ x \in Xid /\ \A y \in Xid : Started(y)' => call'[y].hdr.xid_rep < x
    <3>1. Open(x)
      <4>1. ASSUME NEW p \in Proc, Call(p)
            PROVE  FALSE
        <5>1. xid_' = xid_ + 1 /\ xid_' = xid_
          BY <1>3, <4>1 DEF SameHeaders, Call
        <5> QED
          BY <5>1
      <4> QED
        BY <2>1, <4>1, OpenBefore
    <3> QED
      BY <1>3, <3>1 DEF SameHeaders, AckInv, Open
  <2>2. ASSUME NEW x, Open(x)'
        PROVE  x \notin xid_rep_window' /\ Front(xid_rep_window') < x
    <3>1. Open(x) /\ x \in Xid /\ x \notin xid_rep_window /\ Front(xid_rep_window) < x
      BY <2>1, <2>2 DEF AckInv, Open
    <3>2. CASE xid_rep_window' = xid_rep_window
      BY <3>1, <3>2
    <3>3. ASSUME NEW z \in Xid, Finish(z)
          PROVE  x \notin xid_rep_window' /\ Front(xid_rep_window') < x
      <4>1. z # x /\ xid_rep_window' = UpdateXidRep(xid_rep_window, z)
        BY <2>2, <3>3 DEF Finish, Open
      <4> QED
        BY <3>1, <4>1, UpdateXidRepKeepsOpen
    <3>4. ASSUME NEW c \in Conn, GotReply(c)
          PROVE  x \notin xid_rep_window' /\ Front(xid_rep_window') < x
      <4>1. PICK r \in s2c[c] :
              /\ xid_rep_window' = UpdateXidRep(xid_rep_window, r.xid)
              /\ call' = IF r.xid \in calls /\ ~call[r.xid].done
                         THEN [call EXCEPT ![r.xid].done = TRUE,
                                           ![r.xid].ret = r.ret,
                                           ![r.xid].nonce = r.nonce]
                         ELSE call
        BY <3>4 DEF GotReply
      <4>2. r.xid \in Xid
        BY <4>1 DEF Reply
      <4>3. r.xid # x
        <5>1. SUFFICES ASSUME r.xid = x PROVE FALSE
          OBVIOUS
        <5>2. call' = [call EXCEPT ![r.xid].done = TRUE, ![r.xid].ret = r.ret,
                                   ![r.xid].nonce = r.nonce]
          BY <3>1, <4>1, <5>1 DEF Open
        <5>3. call'[r.xid].done
          BY <4>2, <5>2 DEF Caller
        <5> QED
          BY <2>2, <5>1, <5>3 DEF Open
      <4> QED
        BY <3>1, <4>1, <4>2, <4>3, UpdateXidRepKeepsOpen
    <3>5. \/ xid_rep_window' = xid_rep_window
          \/ \E z \in Xid : Finish(z)
          \/ \E c \in Conn : GotReply(c)
      BY DEF Next, vars, clientVars, NetStep, WorkerStep, ServerRestart, ClientStep,
             CallStep, Call, Transmit, WaitTimeout, FinalTimeout, RecordDup, BindDone,
             Cancel, CancelDone
    <3> QED
      BY <3>2, <3>3, <3>4, <3>5
  <2> QED
    BY <2>1, <2>2 DEF AckInv
<1> QED
  BY <1>2, <1>3, HeadersFixed

-----------------------------------------------------------------------------
(***************************************************************************)
(* KeepInv: the server.                                                    *)
(***************************************************************************)
\* A step after which the running instance knows what it knew before.
SameKnowledge ==
    /\ UNCHANGED <<nonce, rwin, saved, nexec>>
    /\ \A w \in Worker : worker'[w].pc \in {"run", "send"} =>
         worker'[w].pc = worker[w].pc /\ worker'[w].req = worker[w].req

\* Only three steps change what the server knows: the NEW branch of
\* checkduplicate_and_update, the handler with add_reply, and a restart.
LEMMA ServerCases ==
    ASSUME Retrans, IInv, [Next]_vars
    PROVE  \/ SameKnowledge
           \/ /\ UNCHANGED clientVars
              /\ Restart \/ \E w \in Worker : CheckNew(w) \/ Run(w)
<1>1. TypeInv
  BY DEF IInv, TypeInv, WindowInv
<1> USE <1>1, Types
<1>2. CASE UNCHANGED serverVars
  BY <1>2 DEF serverVars, SameKnowledge
<1>3. ASSUME NEW w \in Worker, NEW c \in Conn, Receive(w, c)
      PROVE  SameKnowledge
  BY <1>3 DEF Receive, SameKnowledge
<1>4. ASSUME NEW w \in Worker,
             CheckInProgress(w) \/ CheckDone(w) \/ CheckForgotten(w) \/ Answer(w)
      PROVE  SameKnowledge
  <2>1. /\ worker' = [worker EXCEPT ![w] = Idle] /\ Idle.pc = "idle"
        /\ UNCHANGED <<nonce, rwin, saved, nexec>>
    BY <1>4 DEF CheckInProgress, CheckDone, CheckForgotten, Answer, Idle
  <2> QED
    BY <2>1 DEF SameKnowledge
<1>5. ASSUME NEW w \in Worker, Fault(w)
      PROVE  SameKnowledge
  BY <1>5 DEF Fault, Dispatch, SameKnowledge
<1>6. \/ UNCHANGED serverVars
      \/ \E w \in Worker : \/ \E c \in Conn : Receive(w, c)
                           \/ CheckInProgress(w) \/ CheckDone(w) \/ CheckForgotten(w)
                           \/ Answer(w) \/ Fault(w)
      \/ /\ UNCHANGED clientVars
         /\ Restart \/ \E w \in Worker : CheckNew(w) \/ Run(w)
  BY DEF Next, vars, NetStep, CallStep, ClientStep, WorkerStep, RefuseOld, ServerRestart
<1> QED
  BY <1>2, <1>3, <1>4, <1>5, <1>6

\* A request that a thread works on is that of a call, for this instance.
LEMMA WorkerFacts ==
    ASSUME TypeInv, CopyInv, NEW w \in Worker, worker[w].pc # "idle"
    PROVE  /\ worker[w].req \in Request /\ worker[w].req.xid \in Xid
           /\ worker[w].req.xid < xid_ /\ worker[w].req = call[worker[w].req.xid].hdr
           /\ ~OldInstance(worker[w].req)
<1>1. worker[w].req \in Request
  BY Types DEF Dispatch
<1>2. worker[w].req.xid \in Xid
  BY <1>1 DEF Request
<1> QED
  BY <1>1, <1>2 DEF CopyInv, IsCopy

\* Every step keeps what the server knows of a call that waits.
LEMMA KeepStep ==
    ASSUME Retrans, IInv, NonceInv, AckInv, KeepInv, [Next]_vars
    PROVE  KeepInv'
<1>1. TypeInv
  BY DEF IInv, TypeInv, WindowInv
<1> USE <1>1, Types
<1>2. CASE SameKnowledge
  <2>1. ASSUME NEW x \in calls', Open(x)', call'[x].hdr.srv_nonce = nonce'
        PROVE  /\ nexec'[x] > 0 => x \in saved'
               /\ \A w \in Worker : Runs(w, x)' => x \in rwin'
    <3>1. \A w \in Worker : Runs(w, x)' => Runs(w, x)
      BY <1>2 DEF SameKnowledge, Runs
    <3>2. CASE Open(x)
      <4>1. x \in calls /\ x \in Xid /\ x < xid_
        BY <3>2, CallsStarted DEF Open
      <4>2. call[x].hdr.srv_nonce = nonce
        BY <1>2, <2>1, <4>1, HeaderStays DEF IInv, SameKnowledge
      <4>3. /\ nexec[x] > 0 => x \in saved
            /\ \A w \in Worker : Runs(w, x) => x \in rwin
        BY <3>2, <4>1, <4>2 DEF KeepInv
      <4> QED
        BY <1>2, <3>1, <4>3 DEF SameKnowledge
    <3>3. ASSUME NEW p \in Proc, Call(p), x = xid_
          PROVE  ~(nexec'[x] > 0) /\ \A w \in Worker : ~Runs(w, x)'
      <4>1. x \in Xid
        BY <3>3, BoundsAssumption DEF Call, TypeInv, TypeOK, ClientTypeOK, Xid
      <4>2. ~(nexec[x] > 0)
        BY <3>3, <4>1 DEF IInv, ExecInv
      <4>3. \A w \in Worker : Runs(w, x) => worker[w].req.xid < xid_
        BY WorkerFacts DEF IInv, Runs
      <4>4. \A w \in Worker : ~Runs(w, x)
        BY <3>3, <4>3 DEF Runs
      <4> QED
        BY <1>2, <3>1, <4>2, <4>4 DEF SameKnowledge
    <3> QED
      BY <2>1, <3>2, <3>3, OpenBefore
  <2>2. saved' \subseteq rwin' /\ \A x \in saved' : nexec'[x] > 0
    BY <1>2 DEF SameKnowledge, KeepInv
  <2>3. \A w \in Worker : worker'[w].pc = "send" => nexec'[worker'[w].req.xid] > 0
    BY <1>2 DEF SameKnowledge, KeepInv
  <2> QED
    BY <2>1, <2>2, <2>3 DEF KeepInv
<1>3. ASSUME UNCHANGED clientVars, NEW w \in Worker, CheckNew(w)
      PROVE  KeepInv'
  <2>1. PICK z \in Xid, rep \in Nat :
          /\ z = worker[w].req.xid /\ rep = worker[w].req.xid_rep /\ rep < z
          /\ z < xid_ /\ rep = call[z].hdr.xid_rep /\ Started(z)
    <3>1. worker[w].req.xid \in Xid /\ worker[w].req.xid_rep \in Nat
      BY <1>3, WorkerFacts DEF IInv, CheckNew, Request
    <3>2. /\ worker[w].req.xid < xid_
          /\ worker[w].req.xid_rep = call[worker[w].req.xid].hdr.xid_rep
      BY <1>3, WorkerFacts DEF IInv, CheckNew
    <3> QED
      BY <3>1, <3>2 DEF IInv, HeaderInv
  <2>2. /\ rwin' = {y \in rwin \cup {z} : y >= rep} /\ saved' = saved \cap rwin'
        /\ UNCHANGED <<nonce, nexec>>
    BY <1>3, <2>1 DEF CheckNew
  <2>3. /\ worker'[w].pc = "run" /\ worker'[w].req = worker[w].req
        /\ \A v \in Worker \ {w} : worker'[v] = worker[v]
    BY <1>3 DEF CheckNew, Dispatch
  <2>4. UNCHANGED <<calls, call>>
    BY <1>3 DEF clientVars
  <2>5. ASSUME NEW x \in calls', Open(x)', call'[x].hdr.srv_nonce = nonce'
        PROVE  /\ nexec'[x] > 0 => x \in saved'
               /\ \A v \in Worker : Runs(v, x)' => x \in rwin'
    <3>1. x \in calls /\ Open(x) /\ call[x].hdr.srv_nonce = nonce /\ x \in Xid
      BY <2>2, <2>4, <2>5 DEF Open
    <3>2. rep < x
      BY <2>1, <3>1 DEF AckInv
    <3>3. x \in rwin => x \in rwin'
      <4>1. x \in Nat /\ rep \in Nat /\ x >= rep
        BY <2>1, <3>1, <3>2
      <4> QED
        BY <2>2, <4>1
    <3>4. nexec[x] > 0 => x \in saved /\ x \in rwin
      BY <3>1 DEF KeepInv
    <3>5. ASSUME NEW v \in Worker, Runs(v, x)'
          PROVE  x \in rwin'
      <4>1. CASE v = w
        <5>1. x = z
          BY <2>1, <2>3, <3>5, <4>1 DEF Runs
        <5>2. z \in Nat /\ rep \in Nat /\ z >= rep
          BY <2>1
        <5> QED
          BY <2>2, <5>1, <5>2
      <4>2. CASE v # w
        <5>1. Runs(v, x)
          BY <2>3, <3>5, <4>2 DEF Runs
        <5> QED
          BY <3>1, <3>3, <5>1 DEF KeepInv
      <4> QED
        BY <4>1, <4>2
    <3> QED
      BY <2>2, <3>3, <3>4, <3>5
  <2>6. saved' \subseteq rwin' /\ \A x \in saved' : nexec'[x] > 0
    BY <2>2 DEF KeepInv
  <2>7. \A v \in Worker : worker'[v].pc = "send" => nexec'[worker'[v].req.xid] > 0
    BY <2>2, <2>3 DEF KeepInv
  <2> QED
    BY <2>5, <2>6, <2>7 DEF KeepInv
<1>4. ASSUME UNCHANGED clientVars, NEW w \in Worker, Run(w)
      PROVE  KeepInv'
  <2>1. PICK z \in Xid : z = worker[w].req.xid
    BY <1>4, WorkerFacts DEF IInv, Run
  <2>2. /\ nexec'[z] > 0
        /\ \A x \in Xid \ {z} : nexec'[x] = nexec[x]
        /\ saved' = saved \cup (rwin \cap {z}) /\ UNCHANGED <<nonce, rwin>>
    BY <1>4, <2>1 DEF Run, AddReply
  <2>3. /\ worker'[w].pc = "send" /\ worker'[w].req = worker[w].req
        /\ \A v \in Worker \ {w} : worker'[v] = worker[v]
    BY <1>4 DEF Run, Dispatch
  <2>4. UNCHANGED <<calls, call>>
    BY <1>4 DEF clientVars
  <2>5. ASSUME NEW x \in calls', Open(x)', call'[x].hdr.srv_nonce = nonce'
        PROVE  /\ nexec'[x] > 0 => x \in saved'
               /\ \A v \in Worker : Runs(v, x)' => x \in rwin'
    <3>1. x \in calls /\ Open(x) /\ call[x].hdr.srv_nonce = nonce /\ x \in Xid
      BY <2>2, <2>4, <2>5 DEF Open
    <3>2. \A v \in Worker : Runs(v, x)' => Runs(v, x)
      BY <2>3 DEF Runs
    <3>3. x = z => x \in rwin
      BY <1>4, <2>1, <3>1 DEF KeepInv, Runs, Run
    <3> QED
      BY <2>2, <3>1, <3>2, <3>3 DEF KeepInv
  <2>6. saved' \subseteq rwin' /\ \A x \in saved' : nexec'[x] > 0
    BY <2>2 DEF KeepInv
  <2>7. ASSUME NEW v \in Worker, worker'[v].pc = "send"
        PROVE  nexec'[worker'[v].req.xid] > 0
    <3>1. CASE v = w
      BY <2>1, <2>2, <2>3, <3>1
    <3>2. CASE v # w
      <4>1. worker'[v] = worker[v] /\ worker[v].pc = "send"
        BY <2>3, <2>7, <3>2
      <4>2. nexec[worker[v].req.xid] > 0 /\ worker[v].req.xid \in Xid
        BY <4>1, WorkerFacts DEF IInv, KeepInv
      <4> QED
        BY <2>2, <4>1, <4>2
    <3> QED
      BY <3>1, <3>2
  <2> QED
    BY <2>5, <2>6, <2>7 DEF KeepInv
<1>5. ASSUME UNCHANGED clientVars, Restart
      PROVE  KeepInv'
  <2>1. /\ nonce' = nonce + 1 /\ rwin' = {} /\ saved' = {} /\ UNCHANGED <<calls, call>>
        /\ \A w \in Worker : worker'[w].pc = "idle"
    BY <1>5 DEF Restart, Idle, clientVars
  <2>2. \A x \in calls : call[x].hdr.srv_nonce # nonce'
    <3>1. \A x \in calls : call[x].hdr.srv_nonce \in Nat /\ call[x].hdr.srv_nonce <= nonce
      BY CallerTypes DEF NonceInv
    <3> QED
      BY <2>1, <3>1
  <2> QED
    BY <2>1, <2>2 DEF KeepInv
<1> QED
  BY <1>2, <1>3, <1>4, <1>5, ServerCases

-----------------------------------------------------------------------------
(***************************************************************************)
(* ReplyInv and ResultInv: what an outcome tells the caller.               *)
(***************************************************************************)
\* A call that the server has refused is never executed.
LEMMA BarredStays ==
    ASSUME Retrans, IInv, KeepInv, [Next]_vars, NEW x \in Xid, IsApp(x), Barred(x)
    PROVE  Barred(x)'
<1>1. TypeInv
  BY DEF IInv, TypeInv, WindowInv
<1> USE <1>1, Types
<1>2. x < xid_ /\ call'[x].hdr = call[x].hdr /\ call[x].hdr.srv_nonce # 0
      /\ call[x].hdr.srv_nonce \in Nat
  <2>1. x < xid_ /\ call[x].hdr.srv_nonce # 0
    BY DEF IsApp, IInv, HeaderInv, BindInv
  <2> QED
    BY <2>1, HeaderStays, CallerTypes DEF IInv
<1>3. CASE SameKnowledge
  <2>1. \A w \in Worker : ~Runs(w, x)'
    BY <1>3 DEF SameKnowledge, Runs, Barred
  <2> QED
    BY <1>2, <1>3, <2>1 DEF SameKnowledge, Barred, IsForgotten
<1>4. ASSUME NEW w \in Worker, CheckNew(w)
      PROVE  Barred(x)'
  <2>1. PICK z \in Xid, rep \in Nat :
          /\ z = worker[w].req.xid /\ rep = worker[w].req.xid_rep /\ rep < z
          /\ worker[w].req = call[z].hdr /\ ~OldInstance(worker[w].req)
    <3>1. worker[w].req.xid \in Xid /\ worker[w].req.xid_rep \in Nat
      BY <1>4, WorkerFacts DEF IInv, CheckNew, Request
    <3>2. /\ worker[w].req = call[worker[w].req.xid].hdr
          /\ ~OldInstance(worker[w].req)
      BY <1>4, WorkerFacts DEF IInv, CheckNew
    <3>3. worker[w].req.xid_rep < worker[w].req.xid
      BY <3>1, <3>2 DEF IInv, HeaderInv
    <3> QED
      BY <3>1, <3>2, <3>3
  <2>2. /\ rwin' = {y \in rwin \cup {z} : y >= rep} /\ UNCHANGED <<nonce, nexec>>
        /\ z \notin rwin /\ ~IsForgotten(z)
    BY <1>4, <2>1 DEF CheckNew
  <2>3. z # x
    <3>1. SUFFICES ASSUME z = x PROVE FALSE
      OBVIOUS
    <3>2. call[x].hdr.srv_nonce = nonce
      BY <1>2, <2>1, <3>1 DEF OldInstance
    <3>3. ~(call[x].hdr.srv_nonce < nonce)
      BY <1>2, <3>2
    <3> QED
      BY <2>2, <3>1, <3>3 DEF Barred
  <2>4. \A v \in Worker : ~Runs(v, x)'
    BY <1>4, <2>1, <2>3 DEF CheckNew, Runs, Barred, Dispatch
  <2>5. ASSUME IsForgotten(x)
        PROVE  IsForgotten(x)'
    <3>1. PICK y \in rwin : ~(z < y)
      BY <2>2, <2>5 DEF IsForgotten
    <3>2. x < y /\ y \in Nat /\ z \in Nat /\ x \in Nat
      BY <2>5, <3>1 DEF IsForgotten
    <3>3. x < z
      BY <3>1, <3>2
    <3>4. z >= rep
      <4>1. \A m, n \in Nat : m < n => n >= m
        OBVIOUS
      <4> QED
        BY <2>1, <3>2, <4>1, Zenon
    <3>5. z \in rwin'
      BY <2>2, <3>4
    <3>6. rwin' \subseteq rwin \cup {z}
      BY <2>2
    <3> QED
      BY <2>5, <3>3, <3>5, <3>6 DEF IsForgotten
  <2> QED
    BY <1>2, <2>2, <2>4, <2>5 DEF Barred
<1>5. ASSUME NEW w \in Worker, Run(w)
      PROVE  Barred(x)'
  <2>1. worker[w].req.xid \in Xid /\ worker[w].req.xid # x
    BY <1>5, WorkerFacts DEF IInv, Run, Barred, Runs
  <2>2. nexec'[x] = nexec[x] /\ UNCHANGED <<nonce, rwin>>
    BY <1>5, <2>1 DEF Run
  <2>3. \A v \in Worker : ~Runs(v, x)'
    BY <1>5 DEF Run, Runs, Barred, Dispatch
  <2> QED
    BY <1>2, <2>2, <2>3 DEF Barred, IsForgotten
<1>6. CASE Restart
  <2>1. nonce' = nonce + 1 /\ nexec' = nexec /\ \A w \in Worker : worker'[w].pc = "idle"
    BY <1>6 DEF Restart, Idle
  <2>2. call'[x].hdr.srv_nonce < nonce'
    BY <1>2, <2>1 DEF Barred
  <2> QED
    BY <2>1, <2>2 DEF Barred, Runs
<1> QED
  BY <1>3, <1>4, <1>5, <1>6, ServerCases

\* What an outcome tells stays true.
LEMMA BackedStays ==
    ASSUME Retrans, IInv, KeepInv, [Next]_vars, NEW x \in Xid, IsApp(x), NEW ret,
           Backed(x, ret)
    PROVE  Backed(x, ret)'
<1>1. TypeInv
  BY DEF IInv, TypeInv, WindowInv
<1>2. x < xid_
  BY DEF IsApp, IInv, HeaderInv
<1>3. ret = "ok" => nexec'[x] > 0
  BY <1>1, Types, Monotone DEF Backed
<1>4. ret = "oldsrv_failure" => call'[x].hdr.srv_nonce < nonce'
  <2>1. call'[x].hdr = call[x].hdr /\ call[x].hdr.srv_nonce \in Nat
    BY <1>1, <1>2, HeaderStays, CallerTypes DEF IInv
  <2> QED
    BY <1>1, <2>1, Types, Monotone DEF Backed
<1>5. ret = "atmostonce_failure" => Barred(x)'
  BY BarredStays DEF Backed
<1> QED
  BY <1>3, <1>4, <1>5 DEF Backed

\* The reply to a call that waits is true when it is sent.
LEMMA NewReplyIsBacked ==
    ASSUME IInv, NonceInv, KeepInv, NEW req \in Request, NEW ret \in Outcome, NEW r,
           Origin(r, req, ret), IsApp(req.xid), Open(req.xid)
    PROVE  Backed(req.xid, ret)
<1>1. TypeInv
  BY DEF IInv, TypeInv, WindowInv
<1> USE <1>1, Types
<1>2. PICK x \in Xid : x = req.xid /\ req = call[x].hdr
  BY DEF Origin, IsCopy, Request
<1>3. /\ call[x].hdr.srv_nonce # 0 /\ call[x].hdr.srv_nonce \in Nat
      /\ call[x].hdr.srv_nonce <= nonce
  BY <1>2, CallerTypes DEF IInv, BindInv, NonceInv
<1>4. CASE ret = "oldsrv_failure" /\ OldInstance(req)
  <2>1. call[x].hdr.srv_nonce # nonce
    BY <1>2, <1>4 DEF OldInstance
  <2>2. \A m, n \in Nat : m <= n /\ m # n => m < n
    OBVIOUS
  <2>3. call[x].hdr.srv_nonce < nonce
    BY <1>3, <2>1, <2>2, Zenon
  <2> QED
    BY <1>2, <1>4, <2>3 DEF Backed
<1>5. CASE ret = "ok" /\ nexec[req.xid] > 0
  BY <1>5 DEF Backed
<1>6. CASE /\ ret = "atmostonce_failure" /\ ~OldInstance(req)
           /\ req.xid \notin rwin /\ IsForgotten(req.xid)
  <2>1. call[x].hdr.srv_nonce = nonce
    BY <1>2, <1>3, <1>6 DEF OldInstance
  <2>2. x \in calls /\ Open(x) /\ x \notin rwin /\ IsForgotten(x)
    BY <1>2, <1>6 DEF Open
  <2>3. x \notin saved
    BY <2>2 DEF KeepInv
  <2>4. ~(nexec[x] > 0) /\ \A w \in Worker : ~Runs(w, x)
    BY <2>1, <2>2, <2>3 DEF KeepInv
  <2>5. nexec[x] = 0
    <3>1. nexec[x] \in Nat
      OBVIOUS
    <3> QED
      BY <2>4, <3>1
  <2> QED
    BY <1>2, <1>6, <2>1, <2>2, <2>4, <2>5 DEF Backed, Barred
<1> QED
  BY <1>4, <1>5, <1>6 DEF Origin

\* Every reply in transit to a caller that waits is true.
LEMMA ReplyStep ==
    ASSUME Retrans, IInv, NonceInv, KeepInv, ReplyInv, [Next]_vars
    PROVE  ReplyInv'
<1>1. TypeInv
  BY DEF IInv, TypeInv, WindowInv
<1>2. SUFFICES ASSUME NEW c \in Conn, NEW r \in s2c'[c], IsApp(r.xid)', Open(r.xid)'
               PROVE  Backed(r.xid, r.ret)'
  BY DEF ReplyInv
<1>3. CASE r \in s2c[c]
  <2>1. PICK x \in Xid : x = r.xid /\ x < xid_
    BY <1>1, <1>3, Types DEF Reply, IInv, CopyInv
  <2>2. x # xid_
    BY <1>1, <2>1, Types
  <2>3. Open(x)
    BY <1>2, <2>1, <2>2, OpenBefore
  <2>4. IsApp(x)
    BY <1>1, <1>2, <2>1, HeaderStays DEF IInv
  <2>5. Backed(x, r.ret)
    BY <1>3, <2>1, <2>3, <2>4 DEF ReplyInv
  <2>6. Backed(x, r.ret)'
    BY <2>4, <2>5, BackedStays
  <2> QED
    BY <2>1, <2>6
<1>4. CASE r \notin s2c[c]
  <2>1. SendOnly
    BY <1>4, NewReply
  <2>2. PICK req \in Request, ret \in Outcome : Origin(r, req, ret)
    BY <1>4, NewReply
  <2>3. req.xid = r.xid /\ ret = r.ret /\ req.xid \in Xid
    BY <2>2 DEF Origin, ReplyTo, Request
  <2>4. IsApp(req.xid) /\ Open(req.xid)
    BY <1>2, <2>1, <2>3 DEF SendOnly, clientVars, IsApp, Started, Open
  <2>5. Backed(req.xid, ret)
    BY <2>2, <2>4, NewReplyIsBacked
  <2>6. Backed(req.xid, ret)'
    BY <2>3, <2>4, <2>5, BackedStays
  <2> QED
    BY <2>3, <2>6
<1> QED
  BY <1>3, <1>4

\* How the result of a call comes about: call1 gives up or is cancelled, or
\* got_pdu hands a reply to a caller that waits.
LEMMA ResultChange ==
    ASSUME TypeInv, [Next]_vars, NEW x \in Xid
    PROVE  \/ call'[x].ret = call[x].ret /\ (call'[x].done => call[x].done)
           \/ call'[x].ret \in Failure
           \/ /\ Open(x)
              /\ \E c \in Conn : \E r \in s2c[c] : r.xid = x /\ call'[x].ret = r.ret
<1> DEFINE Same == call'[x].ret = call[x].ret /\ (call'[x].done => call[x].done)
           Fails == call'[x].ret \in Failure
           Told == /\ Open(x)
                   /\ \E c \in Conn : \E r \in s2c[c] : r.xid = x /\ call'[x].ret = r.ret
<1> USE Types
<1>1. CASE call' = call
  BY <1>1
<1>2. ASSUME NEW p \in Proc, Call(p)
      PROVE  Same
  BY <1>2 DEF Call, Caller
<1>3. ASSUME NEW y \in Xid, Transmit(y) \/ WaitTimeout(y) \/ FinalTimeout(y) \/ BindDone(y)
      PROVE  Same
  BY <1>3 DEF Transmit, WaitTimeout, FinalTimeout, BindDone, Caller
<1>4. ASSUME NEW y \in Xid, Finish(y) \/ RecordDup(y)
      PROVE  Same \/ Fails
  <2>1. call' = Exit(y) \/ call' = [call EXCEPT ![y].pc = "record"]
    BY <1>4 DEF Finish, RecordDup
  <2>2. CASE call' = [call EXCEPT ![y].pc = "record"]
    BY <2>2 DEF Caller
  <2>3. CASE call' = Exit(y)
    <3>1. call'[x] = call[x] \/ (x = y /\ ~call'[x].done)
      BY <2>3 DEF Exit, Caller
    <3>2. call'[x].ret \in {call[x].ret, "timeout_failure"}
      BY <2>3 DEF Exit, Caller
    <3> QED
      BY <3>1, <3>2 DEF Failure
  <2> QED
    BY <2>1, <2>2, <2>3
<1>5. ASSUME NEW c \in Conn, GotReply(c)
      PROVE  Same \/ Told
  <2>1. PICK r \in s2c[c] :
          call' = IF r.xid \in calls /\ ~call[r.xid].done
                  THEN [call EXCEPT ![r.xid].done = TRUE,
                                    ![r.xid].ret = r.ret,
                                    ![r.xid].nonce = r.nonce]
                  ELSE call
    BY <1>5 DEF GotReply
  <2>2. CASE r.xid \in calls /\ ~call[r.xid].done
    <3>1. r.xid \in Xid
      BY <2>2
    <3>2. CASE x = r.xid
      <4>1. call'[x].ret = r.ret
        BY <2>1, <2>2, <3>2 DEF Caller
      <4> QED
        BY <2>1, <2>2, <3>2, <4>1 DEF Open
    <3>3. CASE x # r.xid
      BY <2>1, <2>2, <3>1, <3>3
    <3> QED
      BY <3>2, <3>3
  <2>3. CASE ~(r.xid \in calls /\ ~call[r.xid].done)
    BY <2>1, <2>3
  <2> QED
    BY <2>2, <2>3
<1>6. CASE Cancel
  <2>1. call'[x] = call[x] \/ call'[x].ret = "cancel_failure"
    BY <1>6 DEF Cancel, Caller
  <2> QED
    BY <2>1 DEF Failure
<1>7. \/ call' = call
      \/ \E p \in Proc : Call(p)
      \/ \E y \in Xid : \/ Transmit(y) \/ WaitTimeout(y) \/ FinalTimeout(y)
                        \/ Finish(y) \/ RecordDup(y) \/ BindDone(y)
      \/ \E c \in Conn : GotReply(c)
      \/ Cancel
  BY DEF Next, vars, clientVars, NetStep, CallStep, ClientStep, CancelDone, WorkerStep,
         ServerRestart
<1>8. Same \/ Fails \/ Told
  <2> HIDE DEF Same, Fails, Told
  <2>1. CASE call' = call
    BY <2>1 DEF Same
  <2>2. CASE Cancel
    BY <1>6, <2>2 DEF Same, Fails, Told
  <2> QED
    BY <1>2, <1>3, <1>4, <1>5, <1>7, <2>1, <2>2
<1> QED
  BY <1>8

\* The results of the calls are true.
LEMMA ResultStep ==
    ASSUME Retrans, IInv, KeepInv, ReplyInv, ResultInv, [Next]_vars
    PROVE  ResultInv'
<1>1. TypeInv
  BY DEF IInv, TypeInv, WindowInv
<1>2. SUFFICES ASSUME NEW x \in Xid
               PROVE  /\ IsApp(x)' => Backed(x, call[x].ret)'
                      /\ call'[x].done => call'[x].ret # "none"
  BY DEF ResultInv
<1>3. PICK ret : ret = call'[x].ret
  OBVIOUS
<1>4. SUFFICES /\ IsApp(x)' => Backed(x, ret)'
               /\ call'[x].done => ret # "none"
  BY <1>3 DEF Backed
<1>5. CASE ret \in Failure
  <2>1. ret # "none" /\ ret \notin Outcome
    BY <1>5 DEF Failure, Outcome
  <2> QED
    BY <2>1 DEF Backed, Outcome
<1>6. ASSUME Open(x), NEW c \in Conn, NEW r \in s2c[c], r.xid = x, ret = r.ret
      PROVE  (IsApp(x)' => Backed(x, ret)') /\ ret # "none"
  <2>1. x < xid_
    BY <1>6, CallsStarted DEF Open
  <2>2. IsApp(x)' => IsApp(x)
    BY <1>1, <2>1, HeaderStays DEF IInv
  <2>3. IsApp(x) => Backed(x, ret)
    BY <1>6 DEF ReplyInv
  <2>4. ret \in Outcome
    BY <1>1, <1>6, Types DEF Reply
  <2> QED
    BY <2>2, <2>3, <2>4, BackedStays DEF Outcome
<1>7. ASSUME ret = call[x].ret, call'[x].done => call[x].done
      PROVE  (IsApp(x)' => Backed(x, ret)') /\ (call'[x].done => ret # "none")
  <2>1. call'[x].done => ret # "none"
    BY <1>7 DEF ResultInv
  <2>2. CASE x < xid_
    <3>1. IsApp(x)' => IsApp(x)
      BY <1>1, <2>2, HeaderStays DEF IInv
    <3>2. IsApp(x) => Backed(x, ret)
      BY <1>7 DEF ResultInv
    <3> QED
      BY <2>1, <3>1, <3>2, BackedStays
  <2>3. CASE ~(x < xid_)
    <3>1. ret = "none"
      BY <1>7, <2>3 DEF IInv, HeaderInv, BindInv
    <3> QED
      BY <2>1, <3>1 DEF Backed
  <2> QED
    BY <2>2, <2>3
<1> QED
  BY <1>1, <1>3, <1>5, <1>6, <1>7, ResultChange

-----------------------------------------------------------------------------
(***************************************************************************)
(* The reply of a call stays as long as its caller waits.                  *)
(***************************************************************************)
\* The initial state satisfies the invariant.
LEMMA InitServiceInv == Init => ServiceInv
<1> SUFFICES ASSUME Init PROVE ServiceInv
  OBVIOUS
<1>1. IInv
  BY InitInv
<1>2. /\ calls = {} /\ srv_nonce = 0 /\ nonce = 1 /\ saved = {} /\ rwin = {}
      /\ s2c = [c \in Conn |-> {}]
  BY DEF Init, NetInit, ClientInit, ServerInit
<1>3. \A w \in Worker : worker[w].pc = "idle"
  BY DEF Init, ServerInit, Idle
<1>4. \A x \in Xid : /\ call[x].pc = "none" /\ call[x].done = FALSE
                     /\ call[x].nonce = 0 /\ call[x].hdr.srv_nonce = 0
  BY DEF Init, ClientInit
<1>5. NonceInv
  BY <1>2, <1>4 DEF NonceInv
<1>6. AckInv /\ KeepInv
  BY <1>2, <1>3 DEF AckInv, KeepInv
<1>7. ReplyInv /\ ResultInv
  BY <1>2, <1>4 DEF ReplyInv, ResultInv, IsApp, Started
<1> QED
  BY <1>1, <1>5, <1>6, <1>7 DEF ServiceInv

\* Every step preserves the invariant.
LEMMA NextServiceInv ==
    ASSUME Retrans, ServiceInv, [Next]_vars
    PROVE  ServiceInv'
<1>1. IInv'
  BY NextInv DEF ServiceInv
<1>2. NonceInv'
  BY NonceStep DEF ServiceInv
<1>3. AckInv'
  BY AckStep DEF ServiceInv
<1>4. KeepInv'
  BY KeepStep DEF ServiceInv
<1>5. ReplyInv'
  BY ReplyStep DEF ServiceInv
<1>6. ResultInv'
  BY ResultStep DEF ServiceInv
<1> QED
  BY <1>1, <1>2, <1>3, <1>4, <1>5, <1>6 DEF ServiceInv

\* While a caller waits in call1, the server instance it talks to keeps the
\* reply of its executed call: no header, of whatever concurrent call, lets
\* checkduplicate_and_update delete it.
THEOREM ReplyKeptHolds ==
    ASSUME Retrans
    PROVE  Spec => []ReplyKept
<1>1. Init => ServiceInv
  BY InitServiceInv
<1>2. ServiceInv /\ [Next]_vars => ServiceInv'
  BY NextServiceInv
<1>3. ServiceInv => ReplyKept
  BY DEF ServiceInv, KeepInv, ReplyKept, Open
<1> QED
  BY <1>1, <1>2, <1>3, PTL DEF Spec

-----------------------------------------------------------------------------
(***************************************************************************)
(* The refinement of RpcService.                                           *)
(***************************************************************************)
\* What the refinement asks of an invariant: a call is executed only once it
\* is made, once, and not after a refusal; and what a caller was told is true.
ServiceFacts ==
    /\ TypeInv /\ HeaderInv /\ CopyInv /\ BindInv /\ AtMostOnce
    /\ \A x \in Xid : nexec[x] > 0 => x < xid_
    /\ \A x \in Xid, w \in Worker : IsApp(x) /\ Runs(w, x) =>
         nexec[x] = 0 /\ call[x].ret \notin App!Refused
    /\ \A x \in Xid : IsApp(x) =>
         /\ call[x].ret = "ok" => nexec[x] > 0
         /\ call[x].ret = "atmostonce_failure" => nexec[x] = 0
    /\ \A x \in Xid : call[x].done => call[x].ret # "none"

\* ServiceInv says all of it.
LEMMA ServiceInvFacts == ServiceInv => ServiceFacts
<1> SUFFICES ASSUME ServiceInv PROVE ServiceFacts
  OBVIOUS
<1>1. IInv /\ TypeInv
  BY DEF ServiceInv, IInv, TypeInv, WindowInv
<1> USE <1>1, Types
<1>2. ASSUME NEW x \in Xid, NEW w \in Worker, IsApp(x), Runs(w, x)
      PROVE  nexec[x] = 0 /\ call[x].ret \notin App!Refused
  <2>1. /\ x = worker[w].req.xid /\ worker[w].req = call[x].hdr
        /\ ~OldInstance(worker[w].req)
    BY <1>2, WorkerFacts DEF IInv, Runs
  <2>2. nexec[x] = 0
    BY <1>2 DEF IInv, ExecInv, Runs
  <2>3. call[x].hdr.srv_nonce = nonce
    BY <1>2, <2>1 DEF OldInstance, IInv, BindInv
  <2>4. Backed(x, call[x].ret)
    BY <1>2 DEF ServiceInv, ResultInv
  <2>5. call[x].ret # "atmostonce_failure"
    BY <1>2, <2>4 DEF Backed, Barred
  <2>6. call[x].ret # "oldsrv_failure"
    BY <2>3, <2>4 DEF Backed
  <2> QED
    BY <2>2, <2>5, <2>6 DEF App!Refused
<1>3. \A x \in Xid : IsApp(x) =>
        /\ call[x].ret = "ok" => nexec[x] > 0
        /\ call[x].ret = "atmostonce_failure" => nexec[x] = 0
  BY DEF ServiceInv, ResultInv, Backed, Barred
<1>4. /\ HeaderInv /\ CopyInv /\ BindInv /\ AtMostOnce
      /\ \A x \in Xid : nexec[x] > 0 => x < xid_
  BY DEF IInv, ExecInv
<1>5. \A x \in Xid : call[x].done => call[x].ret # "none"
  BY DEF ServiceInv, ResultInv
<1> QED
  BY <1>2, <1>3, <1>4, <1>5 DEF ServiceFacts

\* A step that no user of the library notices.
LEMMA Unnoticed ==
    ASSUME \A x \in Xid : /\ IsApp(x)' <=> IsApp(x)
                          /\ IsApp(x) => /\ nexec'[x] = nexec[x]
                                         /\ call[x].pc # "returned" => call'[x].pc # "returned"
                                         /\ call[x].pc = "returned" =>
                                              call'[x].pc = "returned" /\ call'[x].ret = call[x].ret
    PROVE  UNCHANGED App!serviceVars
<1>1. AppStarted' = AppStarted
  BY DEF AppStarted
<1>2. AppExecuted' = AppExecuted
  BY DEF AppExecuted
<1>3. AppResult' = AppResult
  BY DEF AppResult
<1> QED
  BY <1>1, <1>2, <1>3 DEF App!serviceVars

\* The entry of call1 is an invocation.
LEMMA CallRefines ==
    ASSUME ServiceFacts, [Next]_vars, NEW p \in Proc, Call(p)
    PROVE  [App!ServiceNext]_(App!serviceVars)
<1>1. TypeInv /\ HeaderInv /\ CopyInv /\ BindInv
  BY DEF ServiceFacts
<1> USE <1>1, Types
<1>2. PICK z \in Xid : z = xid_ /\ ~Started(z)
  <2>1. xid_ \in Xid
    BY BoundsAssumption DEF Call, TypeInv, TypeOK, ClientTypeOK, Xid
  <2> QED
    BY <2>1 DEF HeaderInv
<1>3. /\ call'[z].hdr.proc = p /\ call'[z].pc = "transmit"
      /\ \A x \in Xid \ {z} : call'[x] = call[x]
  BY <1>2 DEF Call, Caller
<1>4. nexec' = nexec
  <2>1. xid_' = xid_ + 1 /\ xid_' # xid_
    BY DEF Call
  <2> QED
    BY <2>1 DEF Next, vars, clientVars, serverVars, NetStep, CallStep, ClientStep, WorkerStep,
                ServerRestart
<1>5. nexec[z] = 0
  <2>1. ~(nexec[z] > 0) /\ nexec[z] \in Nat
    BY <1>2 DEF ServiceFacts, HeaderInv
  <2> QED
    BY <2>1
<1>6. /\ ~IsApp(z) /\ (IsApp(z)' <=> p = "app")
      /\ \A x \in Xid \ {z} : IsApp(x)' <=> IsApp(x)
  BY <1>2, <1>3 DEF IsApp, Started
<1>7. CASE p = "app"
  <2>1. AppStarted' = AppStarted \cup {z} /\ z \notin AppStarted
    BY <1>2, <1>6, <1>7 DEF AppStarted
  <2>2. AppExecuted' = AppExecuted
    BY <1>2, <1>4, <1>5, <1>6 DEF AppExecuted
  <2>3. AppResult' = AppResult
    BY <1>2, <1>3, <1>6 DEF AppResult
  <2>4. App!Invoke(z)
    BY <2>1, <2>2, <2>3 DEF App!Invoke
  <2> QED
    BY <1>2, <2>4 DEF App!ServiceNext
<1>8. CASE p # "app"
  BY <1>3, <1>4, <1>6, <1>8, Unnoticed
<1> QED
  BY <1>7, <1>8

\* The handler of an application call that runs is an execution.
LEMMA RunRefines ==
    ASSUME ServiceFacts, [Next]_vars, UNCHANGED clientVars, NEW w \in Worker, Run(w)
    PROVE  [App!ServiceNext]_(App!serviceVars)
<1>1. TypeInv /\ HeaderInv /\ CopyInv /\ BindInv
  BY DEF ServiceFacts
<1> USE <1>1, Types
<1>2. PICK z \in Xid : /\ z = worker[w].req.xid /\ worker[w].req = call[z].hdr
                       /\ ~OldInstance(worker[w].req) /\ Runs(w, z)
  BY WorkerFacts DEF Run, Runs
<1>3. nexec'[z] = nexec[z] + 1 /\ \A x \in Xid \ {z} : nexec'[x] = nexec[x]
  BY <1>2 DEF Run
<1>4. call' = call /\ \A x \in Xid : IsApp(x)' <=> IsApp(x)
  BY DEF clientVars, IsApp, Started
<1>5. CASE IsApp(z)
  <2>1. nexec[z] = 0 /\ call[z].ret \notin App!Refused
    BY <1>2, <1>5 DEF ServiceFacts
  <2>2. AppStarted' = AppStarted /\ z \in AppStarted
    BY <1>4, <1>5 DEF AppStarted
  <2>3. AppExecuted' = [AppExecuted EXCEPT ![z] = 1] /\ AppExecuted[z] = 0
    <3>1. nexec'[z] = 1
      BY <1>3, <2>1
    <3>2. AppExecuted' = [x \in Xid |-> IF IsApp(x) THEN nexec'[x] ELSE 0]
      BY <1>4 DEF AppExecuted
    <3> QED
      BY <1>3, <1>5, <2>1, <3>1, <3>2 DEF AppExecuted
  <2>4. AppResult' = AppResult
    BY <1>4 DEF AppResult
  <2>5. AppResult[z] \notin App!Refused
    BY <2>1 DEF AppResult, App!Refused
  <2>6. App!Execute(z)
    BY <2>2, <2>3, <2>4, <2>5 DEF App!Execute
  <2> QED
    BY <2>6 DEF App!ServiceNext
<1>6. CASE ~IsApp(z)
  BY <1>3, <1>4, <1>6, Unnoticed
<1> QED
  BY <1>5, <1>6

\* The end of call1 is a return, and what it returns is true.
LEMMA ExitRefines ==
    ASSUME ServiceFacts, [Next]_vars, UNCHANGED serverVars, NEW y \in Xid,
           call[y].pc \notin {"none", "returned", "bind"}, call' = Exit(y)
    PROVE  [App!ServiceNext]_(App!serviceVars)
<1>1. TypeInv /\ HeaderInv /\ CopyInv /\ BindInv
  BY DEF ServiceFacts
<1> USE <1>1, Types
<1>2. nexec' = nexec
  BY DEF serverVars
<1>3. /\ \A x \in Xid \ {y} : call'[x] = call[x]
      /\ call'[y].hdr = call[y].hdr
      /\ call'[y].ret = IF call[y].done THEN call[y].ret ELSE "timeout_failure"
      /\ call'[y].pc \in {"bind", "returned"}
      /\ call[y].hdr.proc = "app" => call'[y].pc = "returned"
  BY DEF Exit, Caller
<1>4. \A x \in Xid : IsApp(x)' <=> IsApp(x)
  BY <1>3 DEF IsApp, Started
<1>5. CASE IsApp(y)
  <2> DEFINE ret == call'[y].ret
  <2>1. ret \in App!Result
    <3>1. call[y] \in Caller
      OBVIOUS
    <3>2. call[y].ret \in Outcome \cup Failure \cup {"none"}
      BY <3>1 DEF Caller
    <3>3. call[y].done => call[y].ret # "none"
      BY DEF ServiceFacts
    <3> QED
      BY <1>3, <3>2, <3>3 DEF App!Result, App!Refused, Outcome, Failure
  <2>2. /\ call[y].ret = "ok" => nexec[y] > 0
        /\ call[y].ret = "atmostonce_failure" => nexec[y] = 0
        /\ nexec[y] \in Nat /\ nexec[y] <= 1
    BY <1>5 DEF ServiceFacts, AtMostOnce
  <2>3. AppExecuted[y] = nexec[y] /\ AppExecuted' = AppExecuted
    BY <1>2, <1>4, <1>5 DEF AppExecuted
  <2>4. ret = "ok" => AppExecuted[y] = 1
    BY <1>3, <2>2, <2>3
  <2>5. ret = "atmostonce_failure" => AppExecuted[y] = 0
    BY <1>3, <2>2, <2>3
  <2>6. AppStarted' = AppStarted /\ y \in AppStarted
    BY <1>4, <1>5 DEF AppStarted
  <2>7. AppResult[y] = "none" /\ AppResult' = [AppResult EXCEPT ![y] = ret]
    BY <1>3, <1>4, <1>5 DEF AppResult, IsApp
  <2>8. AppResult'[y] = ret
    BY <2>7 DEF AppResult
  <2>9. App!Return(y)
    <3> HIDE DEF ret
    <3> QED
      BY <2>1, <2>3, <2>4, <2>5, <2>6, <2>7, <2>8 DEF App!Return
  <2> QED
    BY <2>9 DEF App!ServiceNext
<1>6. CASE ~IsApp(y)
  BY <1>2, <1>3, <1>4, <1>6, Unnoticed
<1> QED
  BY <1>5, <1>6

\* Every step of the system is a step of the service, or none.
LEMMA StepRefines ==
    ASSUME ServiceFacts, [Next]_vars
    PROVE  [App!ServiceNext]_(App!serviceVars)
<1>1. TypeInv /\ HeaderInv /\ CopyInv /\ BindInv
  BY DEF ServiceFacts
<1> USE <1>1, Types
<1>2. ASSUME nexec' = nexec,
             \A x \in Xid : /\ call'[x].hdr = call[x].hdr
                            /\ call'[x].pc = "none" <=> call[x].pc = "none"
                            /\ call'[x].pc = "returned" <=>
                                 call[x].pc = "returned" \/ (call[x].pc = "bind" /\ ~IsApp(x)
                                                              /\ call'[x].pc = "returned")
                            /\ call[x].pc = "returned" => call'[x].ret = call[x].ret
      PROVE  UNCHANGED App!serviceVars
  <2>1. \A x \in Xid : IsApp(x)' <=> IsApp(x)
    BY <1>2 DEF IsApp, Started
  <2> QED
    BY <1>2, <2>1, Unnoticed
<1>3. CASE nexec' = nexec /\ call' = call
  BY <1>2, <1>3
<1>4. ASSUME NEW y \in Xid, Transmit(y) \/ WaitTimeout(y) \/ FinalTimeout(y),
             UNCHANGED serverVars
      PROVE  UNCHANGED App!serviceVars
  <2>1. /\ \A x \in Xid \ {y} : call'[x] = call[x]
        /\ call'[y].hdr = call[y].hdr /\ call[y].pc \in {"transmit", "wait"}
        /\ call'[y].pc \in {"transmit", "wait", "finish"}
    BY <1>4 DEF Transmit, WaitTimeout, FinalTimeout, Caller
  <2> QED
    BY <1>2, <1>4, <2>1 DEF serverVars
<1>5. ASSUME NEW y \in Xid, BindDone(y), UNCHANGED serverVars
      PROVE  UNCHANGED App!serviceVars
  <2>1. /\ \A x \in Xid \ {y} : call'[x] = call[x]
        /\ call'[y].hdr = call[y].hdr /\ call[y].pc = "bind" /\ call'[y].pc = "returned"
    BY <1>5 DEF BindDone, Caller
  <2>2. ~IsApp(y)
    BY <2>1 DEF BindInv
  <2> QED
    BY <1>2, <1>5, <2>1, <2>2 DEF serverVars
<1>6. ASSUME NEW y \in Xid, Finish(y) \/ RecordDup(y), UNCHANGED serverVars
      PROVE  [App!ServiceNext]_(App!serviceVars)
  <2>1. call[y].pc \in {"finish", "wait", "record"}
    BY <1>6 DEF Finish, RecordDup
  <2>2. call' = Exit(y) \/ call' = [call EXCEPT ![y].pc = "record"]
    BY <1>6 DEF Finish, RecordDup
  <2>3. CASE call' = Exit(y)
    BY <1>6, <2>1, <2>3, ExitRefines
  <2>4. CASE call' = [call EXCEPT ![y].pc = "record"]
    <3>1. /\ \A x \in Xid \ {y} : call'[x] = call[x]
          /\ call'[y].hdr = call[y].hdr /\ call'[y].pc = "record"
      BY <2>4 DEF Caller
    <3> QED
      BY <1>2, <1>6, <2>1, <3>1 DEF serverVars
  <2> QED
    BY <2>2, <2>3, <2>4
<1>7. ASSUME NEW c \in Conn, GotReply(c), UNCHANGED serverVars
      PROVE  UNCHANGED App!serviceVars
  <2>1. \A x \in Xid : /\ call'[x].hdr = call[x].hdr /\ call'[x].pc = call[x].pc
                       /\ x \notin calls => call'[x].ret = call[x].ret
    BY <1>7 DEF GotReply, Caller
  <2>2. \A x \in calls : call[x].pc # "returned"
    BY DEF BindInv
  <2> QED
    BY <1>2, <1>7, <2>1, <2>2 DEF serverVars
<1>8. ASSUME Cancel, UNCHANGED serverVars
      PROVE  UNCHANGED App!serviceVars
  <2>1. \A x \in Xid : /\ call'[x].hdr = call[x].hdr /\ call'[x].pc = call[x].pc
                       /\ x \notin calls => call'[x].ret = call[x].ret
    BY <1>8 DEF Cancel, Caller
  <2>2. \A x \in calls : call[x].pc # "returned"
    BY DEF BindInv
  <2> QED
    BY <1>2, <1>8, <2>1, <2>2 DEF serverVars
<1>9. \/ nexec' = nexec /\ call' = call
      \/ \E p \in Proc : Call(p)
      \/ /\ UNCHANGED clientVars
         /\ \E w \in Worker : Run(w)
      \/ /\ UNCHANGED serverVars
         /\ \/ \E y \in Xid : \/ Transmit(y) \/ WaitTimeout(y) \/ FinalTimeout(y)
                              \/ Finish(y) \/ RecordDup(y) \/ BindDone(y)
            \/ \E c \in Conn : GotReply(c)
            \/ Cancel
  BY DEF Next, vars, clientVars, serverVars, NetStep, CallStep, ClientStep, CancelDone,
         WorkerStep, RefuseOld, Receive, CheckNew, CheckInProgress, CheckDone,
         CheckForgotten, Answer, Fault, ServerRestart, Restart
<1> QED
  BY <1>3, <1>4, <1>5, <1>6, <1>7, <1>8, <1>9, CallRefines, RunRefines

\* No call has been made at the start.
LEMMA InitRefines == Init => App!ServiceInit
<1> SUFFICES ASSUME Init PROVE App!ServiceInit
  OBVIOUS
<1>1. \A x \in Xid : ~IsApp(x)
  BY DEF Init, ClientInit, IsApp, Started
<1> QED
  BY <1>1 DEF App!ServiceInit, AppStarted, AppExecuted, AppResult

\* For a client with a nonce the library is RpcService: whatever breaks, is
\* resent, overtaken, cancelled or restarted, call1 returns what the one
\* execution of the handler produced or a failure, and the failures by which
\* the server refuses a request are final.
THEOREM ServiceImplemented ==
    ASSUME Retrans
    PROVE  Spec => ImplementsService
<1>1. Init => ServiceInv
  BY InitServiceInv
<1>2. ServiceInv /\ [Next]_vars => ServiceInv'
  BY NextServiceInv
<1>3. Init => App!ServiceInit
  BY InitRefines
<1>4. ServiceInv /\ [Next]_vars => [App!ServiceNext]_(App!serviceVars)
  BY ServiceInvFacts, StepRefines
<1> QED
  BY <1>1, <1>2, <1>3, <1>4, PTL DEF Spec, ImplementsService, App!ServiceSpec

-----------------------------------------------------------------------------
(***************************************************************************)
(* A client without a nonce.  The server keeps nothing of its requests, so *)
(* that an execution is the only one rests on the client: call1 sends a    *)
(* request once, and it is in one place at a time.  RPC_LOSSY is excluded: *)
(* dup_req_ is sent again whether or not retrans_ is set.                  *)
(***************************************************************************)
InTransit(x, c) == \E r \in c2s[c] : r.xid = x

\* The one request of a call is gone: executed, refused or lost.
Spent(x) ==
    /\ call[x].pc # "transmit"
    /\ \A c \in Conn : ~InTransit(x, c)
    /\ \A w \in Worker : ~Runs(w, x)

\* A request is with its caller, in transit on one connection or with one
\* thread, until it is executed.
OneCopy(x) ==
    /\ call[x].pc = "transmit" => /\ \A c \in Conn : ~InTransit(x, c)
                                  /\ \A w \in Worker : ~Runs(w, x)
    /\ \A c \in Conn : InTransit(x, c) => /\ \A d \in Conn : InTransit(x, d) => c = d
                                          /\ \A w \in Worker : ~Runs(w, x)
    /\ \A v, w \in Worker : Runs(v, x) /\ Runs(w, x) => v = w
    /\ nexec[x] \in {0, 1}
    /\ nexec[x] = 1 => x < xid_ /\ Spent(x)

\* The branches of call1 and dispatch that need a nonce are not taken.
PlainInv ==
    /\ dup_req = {}
    /\ \A x \in Xid : call[x].pc # "record"
    /\ \A w \in Worker : /\ worker[w].pc # "check"
                         /\ worker[w].pc = "send" => nexec[worker[w].req.xid] = 1

\* What an outcome says: "ok" that the handler has run, a refusal that it
\* will not run any more.
Final(x, ret) ==
    /\ ret = "ok" => nexec[x] = 1
    /\ ret = "oldsrv_failure" => Spent(x)
    /\ ret # "atmostonce_failure"

FinalInv ==
    /\ \A c \in Conn : \A r \in s2c[c] : Final(r.xid, r.ret)
    /\ \A x \in Xid : /\ Final(x, call[x].ret)
                      /\ call[x].done => call[x].ret # "none"

OnceInv ==
    /\ TypeInv /\ HeaderInv /\ WindowInv /\ CopyInv /\ BindInv
    /\ \A x \in Xid : OneCopy(x)
    /\ PlainInv /\ FinalInv

\* What a step does to the places of requests and to the executions.
Transmits(x) == call[x].pc = "transmit"

Shrinks ==
    /\ nexec' = nexec
    /\ \A x \in Xid : /\ Transmits(x)' => Transmits(x)
                      /\ \A c \in Conn : InTransit(x, c)' => InTransit(x, c)
                      /\ \A w \in Worker : Runs(w, x)' => Runs(w, x)

Enters(z) ==
    /\ z = xid_ /\ nexec' = nexec
    /\ \A x \in Xid : /\ Transmits(x)' => Transmits(x) \/ x = z
                      /\ \A c \in Conn : InTransit(x, c)' => InTransit(x, c)
                      /\ \A w \in Worker : Runs(w, x)' => Runs(w, x)

Sends(z, ch) ==
    /\ Transmits(z) /\ nexec' = nexec
    /\ \A x \in Xid : /\ Transmits(x)' => Transmits(x) /\ x # z
                      /\ \A c \in Conn : InTransit(x, c)' => InTransit(x, c) \/ (x = z /\ c = ch)
                      /\ \A w \in Worker : Runs(w, x)' => Runs(w, x)

Takes(z, ch, v) ==
    /\ InTransit(z, ch) /\ nexec' = nexec
    /\ \A x \in Xid : /\ Transmits(x)' => Transmits(x)
                      /\ \A c \in Conn : InTransit(x, c)' => InTransit(x, c) /\ ~(x = z /\ c = ch)
                      /\ \A w \in Worker : Runs(w, x)' => Runs(w, x) \/ (x = z /\ w = v)

Executes(z, v) ==
    /\ Runs(v, z) /\ nexec' = [nexec EXCEPT ![z] = @ + 1]
    /\ \A x \in Xid : /\ Transmits(x)' => Transmits(x)
                      /\ \A c \in Conn : InTransit(x, c)' => InTransit(x, c)
                      /\ \A w \in Worker : Runs(w, x)' => Runs(w, x) /\ w # v

\* A request is sent once: after the transmit pass of call1 it stays in calls_
\* until it is answered or given up, never to be sent again.
LEMMA CallPlaces ==
    ASSUME ~Retrans, ~Lossy, OnceInv, NEW y \in Xid, CallStep(y)
    PROVE  Shrinks \/ \E ch \in Conn : Sends(y, ch)
<1>1. TypeInv /\ HeaderInv /\ PlainInv
  BY DEF OnceInv
<1> USE <1>1, Types
<1>2. nexec' = nexec /\ worker' = worker
  BY DEF CallStep, serverVars
<1>3. \A x \in Xid, w \in Worker : Runs(w, x)' => Runs(w, x)
  BY <1>2 DEF Runs
<1>4. ASSUME c2s' = c2s, \A x \in Xid : Transmits(x)' => Transmits(x)
      PROVE  Shrinks
  BY <1>2, <1>3, <1>4 DEF Shrinks, InTransit
<1>5. CASE Transmit(y)
  <2>1. PICK ch \in {NoConn} \cup Conn :
          /\ ch = (IF chan' # NoConn THEN chan' ELSE call[y].ch)
          /\ ch # NoConn => SendRequest(ch, {call[y].hdr})
          /\ ch = NoConn => c2s' = c2s
    <3>1. chan' \in {NoConn} \cup Conn /\ call[y].ch \in {NoConn} \cup Conn
      <4>1. chan' \in {NoConn} \cup Conn
        BY <1>5 DEF Transmit, GetRefconn, TypeInv, TypeOK, ClientTypeOK
      <4>2. call[y] \in Caller
        OBVIOUS
      <4> QED
        BY <4>1, <4>2 DEF Caller
    <3>2. {r \in dup_req : xid_rep_done > r.xid} \cup {call[y].hdr} = {call[y].hdr}
      BY DEF PlainInv
    <3> QED
      BY <1>5, <3>1, <3>2 DEF Transmit
  <2>2. /\ Transmits(y) /\ ~Transmits(y)'
        /\ \A x \in Xid \ {y} : call'[x] = call[x]
    BY <1>5 DEF Transmit, Transmits, Caller
  <2>3. CASE c2s' = c2s
    BY <1>4, <2>2, <2>3 DEF Transmits
  <2>4. CASE ch \in Conn /\ c2s' = [c2s EXCEPT ![ch] = @ \cup {call[y].hdr}]
    <3>1. \A x \in Xid, c \in Conn : InTransit(x, c)' => InTransit(x, c) \/ (x = y /\ c = ch)
      <4>1. call[y].hdr.xid = y
        BY DEF HeaderInv
      <4> QED
        BY <2>4, <4>1 DEF InTransit
    <3> QED
      BY <1>2, <1>3, <2>2, <2>4, <3>1 DEF Sends, Transmits
  <2> QED
    BY <2>1, <2>3, <2>4 DEF SendRequest
<1>6. CASE WaitTimeout(y)
  BY <1>6 DEF WaitTimeout
<1>7. CASE FinalTimeout(y)
  <2>1. c2s' = c2s /\ call'[y].pc = "finish" /\ \A x \in Xid \ {y} : call'[x] = call[x]
    BY <1>7 DEF FinalTimeout, netVars, Caller
  <2> QED
    BY <1>4, <2>1 DEF Transmits
<1>8. CASE Finish(y)
  <2>1. c2s' = c2s /\ call' = Exit(y)
    BY <1>8 DEF Finish, netVars
  <2>2. call'[y].pc \in {"bind", "returned"} /\ \A x \in Xid \ {y} : call'[x] = call[x]
    BY <2>1 DEF Exit, Caller
  <2> QED
    BY <1>4, <2>1, <2>2 DEF Transmits
<1>9. CASE RecordDup(y)
  BY <1>9 DEF RecordDup, PlainInv
<1>10. CASE BindDone(y)
  <2>1. c2s' = c2s /\ call'[y].pc = "returned" /\ \A x \in Xid \ {y} : call'[x] = call[x]
    BY <1>10 DEF BindDone, netVars, Caller
  <2> QED
    BY <1>4, <2>1 DEF Transmits
<1> QED
  BY <1>5, <1>6, <1>7, <1>8, <1>9, <1>10 DEF CallStep

\* A thread takes the request off its connection, executes it, and is done.
LEMMA WorkerPlaces ==
    ASSUME ~Retrans, OnceInv, NEW w \in Worker, WorkerStep(w)
    PROVE  \/ Shrinks
           \/ \E z \in Xid : Executes(z, w) \/ \E ch \in Conn : Takes(z, ch, w)
<1>1. TypeInv /\ CopyInv /\ PlainInv
  BY DEF OnceInv
<1> USE <1>1, Types
<1>2. \A x \in Xid : Transmits(x)' => Transmits(x)
  BY DEF WorkerStep, clientVars, Transmits
<1>3. ASSUME NEW c \in Conn, RefuseOld(w, c)
      PROVE  Shrinks
  <2>1. \A d \in Conn : c2s'[d] \subseteq c2s[d]
    BY <1>3 DEF RefuseOld
  <2>2. nexec' = nexec /\ worker' = worker
    BY <1>3 DEF RefuseOld, serverVars
  <2> QED
    BY <1>2, <2>1, <2>2 DEF Shrinks, InTransit, Runs
<1>4. ASSUME NEW ch \in Conn, Receive(w, ch)
      PROVE  \E z \in Xid : Takes(z, ch, w)
  <2>1. PICK req \in c2s[ch] :
          /\ c2s' = [c2s EXCEPT ![ch] = @ \ {req}]
          /\ worker' = [worker EXCEPT ![w] = [pc |-> "run", req |-> req, c |-> ch]]
    BY <1>4 DEF Receive
  <2>2. PICK z \in Xid : z = req.xid /\ req = call[z].hdr
    BY DEF CopyInv, IsCopy, Request
  <2>3. nexec' = nexec
    BY <1>4 DEF Receive
  <2>4. \A x \in Xid, c \in Conn : InTransit(x, c)' => InTransit(x, c) /\ ~(x = z /\ c = ch)
    <3>1. \A r \in c2s[ch] : r.xid = z => r = req
      BY <2>2 DEF CopyInv, IsCopy
    <3>2. \A c \in Conn : c2s'[c] = IF c = ch THEN c2s[c] \ {req} ELSE c2s[c]
      BY <2>1
    <3> QED
      BY <3>1, <3>2 DEF InTransit
  <2>5. \A x \in Xid, v \in Worker : Runs(v, x)' => Runs(v, x) \/ (x = z /\ v = w)
    BY <2>1, <2>2 DEF Runs
  <2>6. InTransit(z, ch)
    BY <2>2 DEF InTransit
  <2>7. Takes(z, ch, w)
    BY <1>2, <2>3, <2>4, <2>5, <2>6 DEF Takes
  <2> QED
    BY <2>7
<1>5. ASSUME c2s' = c2s, nexec' = nexec,
             worker' = [worker EXCEPT ![w] = Idle] \/ worker' = [worker EXCEPT ![w].pc = "fault"]
      PROVE  Shrinks
  <2>1. \A x \in Xid, v \in Worker : Runs(v, x)' => Runs(v, x)
    <3>1. \A v \in Worker : worker'[v] = worker[v] \/ worker'[v].pc # "run"
      BY <1>5 DEF Idle, Dispatch
    <3> QED
      BY <3>1 DEF Runs
  <2> QED
    BY <1>2, <1>5, <2>1 DEF Shrinks, InTransit
<1>6. CASE CheckInProgress(w) \/ CheckDone(w) \/ CheckForgotten(w) \/ Answer(w) \/ Fault(w)
  <2>1. c2s' = c2s /\ nexec' = nexec
    BY <1>6 DEF CheckInProgress, CheckDone, CheckForgotten, Answer, Fault, netVars
  <2>2. worker' = [worker EXCEPT ![w] = Idle] \/ worker' = [worker EXCEPT ![w].pc = "fault"]
    BY <1>6 DEF CheckInProgress, CheckDone, CheckForgotten, Answer, Fault
  <2> QED
    BY <1>5, <2>1, <2>2
<1>7. CASE CheckNew(w)
  BY <1>7 DEF CheckNew, PlainInv
<1>8. CASE Run(w)
  <2>1. PICK z \in Xid : z = worker[w].req.xid
    BY <1>8, WorkerFacts DEF Run
  <2>2. Runs(w, z) /\ nexec' = [nexec EXCEPT ![z] = @ + 1] /\ c2s' = c2s
    BY <1>8, <2>1 DEF Run, Runs, netVars
  <2>3. \A x \in Xid, v \in Worker : Runs(v, x)' => Runs(v, x) /\ v # w
    <3>1. worker'[w].pc = "send" /\ \A v \in Worker \ {w} : worker'[v] = worker[v]
      BY <1>8 DEF Run, Dispatch
    <3> QED
      BY <3>1 DEF Runs
  <2>4. Executes(z, w)
    BY <1>2, <2>2, <2>3 DEF Executes, InTransit
  <2> QED
    BY <2>4
<1> QED
  BY <1>3, <1>4, <1>6, <1>7, <1>8 DEF WorkerStep

\* Every step moves at most one request, to its next place.
LEMMA Places ==
    ASSUME ~Retrans, ~Lossy, OnceInv, [Next]_vars
    PROVE  \/ Shrinks
           \/ \E z \in Xid : \/ Enters(z)
                             \/ \E ch \in Conn : Sends(z, ch)
                             \/ \E w \in Worker : Executes(z, w) \/ \E ch \in Conn : Takes(z, ch, w)
<1>1. TypeInv
  BY DEF OnceInv
<1> USE <1>1, Types
<1>2. CASE UNCHANGED <<nexec, worker, c2s, call>>
  BY <1>2 DEF Shrinks, InTransit, Runs, Transmits
<1>3. ASSUME NEW c \in Conn, NetStep(c)
      PROVE  Shrinks
  <2>1. \A d \in Conn : c2s'[d] \subseteq c2s[d]
    BY <1>3 DEF NetStep, Break, ClientReadFails, ServerReadFails
  <2>2. UNCHANGED <<nexec, worker, call>>
    BY <1>3 DEF NetStep, serverVars, clientVars
  <2> QED
    BY <2>1, <2>2 DEF Shrinks, InTransit, Runs, Transmits
<1>4. ASSUME NEW p \in Proc, Call(p), UNCHANGED serverVars
      PROVE  \E z \in Xid : Enters(z)
  <2>1. PICK z \in Xid : z = xid_
    BY <1>4, BoundsAssumption DEF Call, TypeInv, TypeOK, ClientTypeOK, Xid
  <2>2. \A x \in Xid \ {z} : call'[x] = call[x]
    BY <1>4, <2>1 DEF Call
  <2>3. UNCHANGED <<nexec, worker, c2s>>
    BY <1>4 DEF Call, serverVars, netVars
  <2>4. Enters(z)
    BY <2>1, <2>2, <2>3 DEF Enters, InTransit, Runs, Transmits
  <2> QED
    BY <2>4
<1>5. ASSUME UNCHANGED serverVars, Cancel \/ \E c \in Conn : GotReply(c)
      PROVE  Shrinks
  <2>1. UNCHANGED <<nexec, worker, c2s>>
    BY <1>5 DEF Cancel, GotReply, serverVars, netVars
  <2>2. \A x \in Xid : call'[x].pc = call[x].pc
    <3>1. CASE Cancel
      BY <3>1 DEF Cancel, Caller
    <3>2. ASSUME NEW c \in Conn, GotReply(c)
          PROVE  <2>2
      BY <3>2 DEF GotReply, Caller
    <3> QED
      BY <1>5, <3>1, <3>2
  <2> QED
    BY <2>1, <2>2 DEF Shrinks, InTransit, Runs, Transmits
<1>6. CASE ServerRestart
  <2>1. nexec' = nexec /\ call' = call
    BY <1>6 DEF ServerRestart, Restart, clientVars
  <2>2. \A c \in Conn : c2s'[c] = {}
    BY <1>6 DEF ServerRestart, Restart
  <2>3. \A w \in Worker : worker'[w].pc = "idle"
    BY <1>6 DEF ServerRestart, Restart, Idle
  <2> QED
    BY <2>1, <2>2, <2>3 DEF Shrinks, InTransit, Runs, Transmits
<1>7. \/ UNCHANGED <<nexec, worker, c2s, call>>
      \/ \E c \in Conn : NetStep(c)
      \/ \E x \in Xid : CallStep(x)
      \/ UNCHANGED serverVars /\ \E p \in Proc : Call(p)
      \/ UNCHANGED serverVars /\ (Cancel \/ \E c \in Conn : GotReply(c))
      \/ \E w \in Worker : WorkerStep(w)
      \/ ServerRestart
  BY DEF Next, vars, netVars, clientVars, serverVars, ClientStep, CancelDone
<1> QED
  BY <1>2, <1>3, <1>4, <1>5, <1>6, <1>7, CallPlaces, WorkerPlaces

\* xids are numbered upwards.
LEMMA XidsGrow ==
    ASSUME TypeInv, [Next]_vars
    PROVE  xid_' \in Nat /\ xid_ <= xid_'
<1>1. xid_' = xid_ \/ xid_' = xid_ + 1
  BY HeadersFixed DEF SameHeaders, Call
<1> QED
  BY <1>1, Types

\* Nothing is known yet of the next xid.
LEMMA NextXidIsNew ==
    ASSUME OnceInv, NEW z \in Xid, z = xid_
    PROVE  /\ nexec[z] = 0
           /\ \A c \in Conn : ~InTransit(z, c)
           /\ \A w \in Worker : ~Runs(w, z)
<1>1. TypeInv /\ CopyInv /\ OneCopy(z)
  BY DEF OnceInv
<1>2. xid_ \in Nat /\ ~(z < xid_)
  BY <1>1, Types
<1>3. \A c \in Conn : ~InTransit(z, c)
  BY <1>1, <1>2 DEF CopyInv, IsCopy, InTransit
<1>4. \A w \in Worker : ~Runs(w, z)
  BY <1>1, <1>2, WorkerFacts DEF Runs
<1> QED
  BY <1>1, <1>2, <1>3, <1>4 DEF OneCopy

\* Every step keeps a request in one place.
LEMMA OneCopyStep ==
    ASSUME ~Retrans, ~Lossy, OnceInv, [Next]_vars, NEW x \in Xid
    PROVE  OneCopy(x)'
<1>1. TypeInv /\ OneCopy(x)
  BY DEF OnceInv
<1>2. x < xid_ => x < xid_'
  BY <1>1, XidsGrow, Types
<1>3. nexec \in [Xid -> Nat]
  BY <1>1, Types
<1>4. ASSUME nexec'[x] = nexec[x], Transmits(x)' => Transmits(x),
             \A c \in Conn : InTransit(x, c)' => InTransit(x, c),
             \A w \in Worker : Runs(w, x)' => Runs(w, x)
      PROVE  OneCopy(x)'
  BY <1>1, <1>2, <1>4 DEF OneCopy, Spent, Transmits
<1>5. CASE Shrinks
  BY <1>4, <1>5 DEF Shrinks
<1>6. ASSUME NEW z \in Xid, Enters(z)
      PROVE  OneCopy(x)'
  <2>1. CASE x # z
    BY <1>4, <1>6, <2>1 DEF Enters
  <2>2. CASE x = z
    <3>1. /\ nexec[x] = 0
          /\ \A c \in Conn : ~InTransit(x, c)
          /\ \A w \in Worker : ~Runs(w, x)
      BY <1>6, <2>2, NextXidIsNew DEF Enters
    <3>2. /\ nexec'[x] = 0
          /\ \A c \in Conn : ~InTransit(x, c)'
          /\ \A w \in Worker : ~Runs(w, x)'
      BY <1>6, <3>1 DEF Enters
    <3> QED
      BY <3>2 DEF OneCopy
  <2> QED
    BY <2>1, <2>2
<1>7. ASSUME NEW z \in Xid, NEW ch \in Conn, Sends(z, ch)
      PROVE  OneCopy(x)'
  <2>1. CASE x # z
    BY <1>4, <1>7, <2>1 DEF Sends
  <2>2. CASE x = z
    <3>1. /\ nexec[x] = 0
          /\ \A c \in Conn : ~InTransit(x, c)
          /\ \A w \in Worker : ~Runs(w, x)
      BY <1>1, <1>7, <2>2 DEF Sends, OneCopy, Spent, Transmits
    <3>2. /\ nexec'[x] = 0 /\ ~Transmits(x)'
          /\ \A c \in Conn : InTransit(x, c)' => c = ch
          /\ \A w \in Worker : ~Runs(w, x)'
      BY <1>7, <2>2, <3>1 DEF Sends
    <3> QED
      BY <3>2 DEF OneCopy, Transmits
  <2> QED
    BY <2>1, <2>2
<1>8. ASSUME NEW z \in Xid, NEW ch \in Conn, NEW v \in Worker, Takes(z, ch, v)
      PROVE  OneCopy(x)'
  <2>1. CASE x # z
    BY <1>4, <1>8, <2>1 DEF Takes
  <2>2. CASE x = z
    <3>1. /\ nexec[x] = 0 /\ ~Transmits(x)
          /\ \A c \in Conn : InTransit(x, c) => c = ch
          /\ \A w \in Worker : ~Runs(w, x)
      BY <1>1, <1>8, <2>2 DEF Takes, OneCopy, Spent, Transmits
    <3>2. /\ nexec'[x] = 0 /\ ~Transmits(x)'
          /\ \A c \in Conn : ~InTransit(x, c)'
          /\ \A w \in Worker : Runs(w, x)' => w = v
      BY <1>8, <2>2, <3>1 DEF Takes
    <3> QED
      BY <3>2 DEF OneCopy, Transmits
  <2> QED
    BY <2>1, <2>2
<1>9. ASSUME NEW z \in Xid, NEW v \in Worker, Executes(z, v)
      PROVE  OneCopy(x)'
  <2>1. CASE x # z
    BY <1>3, <1>4, <1>9, <2>1 DEF Executes
  <2>2. CASE x = z
    <3>1. /\ nexec[x] = 0 /\ ~Transmits(x)
          /\ \A c \in Conn : ~InTransit(x, c)
          /\ \A w \in Worker : Runs(w, x) => w = v
      BY <1>1, <1>9, <2>2 DEF Executes, OneCopy, Spent, Transmits
    <3>2. /\ nexec'[x] = 1 /\ ~Transmits(x)'
          /\ \A c \in Conn : ~InTransit(x, c)'
          /\ \A w \in Worker : ~Runs(w, x)'
      BY <1>3, <1>9, <2>2, <3>1 DEF Executes
    <3>3. x < xid_
      BY <1>1, <1>9, <2>2, WorkerFacts DEF Executes, Runs, OnceInv
    <3> QED
      BY <1>2, <3>2, <3>3 DEF OneCopy, Spent, Transmits
  <2> QED
    BY <2>1, <2>2
<1> QED
  BY <1>5, <1>6, <1>7, <1>8, <1>9, Places

\* A request that is gone does not come back.
LEMMA SpentStays ==
    ASSUME ~Retrans, ~Lossy, OnceInv, [Next]_vars, NEW x \in Xid, x < xid_, Spent(x)
    PROVE  Spent(x)'
<1>1. xid_ \in Nat /\ x # xid_
  BY Types DEF OnceInv
<1>2. /\ ~Transmits(x)
      /\ \A c \in Conn : ~InTransit(x, c)
      /\ \A w \in Worker : ~Runs(w, x)
  BY DEF Spent, Transmits
<1>3. CASE Shrinks
  BY <1>2, <1>3 DEF Shrinks, Spent, Transmits
<1>4. ASSUME NEW z \in Xid, Enters(z)
      PROVE  Spent(x)'
  BY <1>1, <1>2, <1>4 DEF Enters, Spent, Transmits
<1>5. ASSUME NEW z \in Xid, NEW ch \in Conn, Sends(z, ch)
      PROVE  Spent(x)'
  <2>1. x # z
    BY <1>2, <1>5 DEF Sends
  <2> QED
    BY <1>2, <1>5, <2>1 DEF Sends, Spent, Transmits
<1>6. ASSUME NEW z \in Xid, NEW ch \in Conn, NEW v \in Worker, Takes(z, ch, v)
      PROVE  Spent(x)'
  <2>1. x # z
    BY <1>2, <1>6 DEF Takes
  <2> QED
    BY <1>2, <1>6, <2>1 DEF Takes, Spent, Transmits
<1>7. ASSUME NEW z \in Xid, NEW v \in Worker, Executes(z, v)
      PROVE  Spent(x)'
  BY <1>2, <1>7 DEF Executes, Spent, Transmits
<1> QED
  BY <1>3, <1>4, <1>5, <1>6, <1>7, Places

\* An execution is not undone, and not repeated.
LEMMA ExecutedStays ==
    ASSUME ~Retrans, ~Lossy, OnceInv, [Next]_vars, NEW x \in Xid, nexec[x] = 1
    PROVE  nexec'[x] = 1
<1>1. TypeInv
  BY DEF OnceInv
<1>2. nexec'[x] \in {0, 1}
  BY OneCopyStep DEF OneCopy
<1>3. nexec[x] <= nexec'[x]
  BY <1>1, Monotone
<1> QED
  BY <1>2, <1>3

\* Nothing is kept for a resend, and no thread looks for duplicates.
LEMMA PlainStep ==
    ASSUME ~Retrans, ~Lossy, OnceInv, [Next]_vars
    PROVE  PlainInv'
<1>1. TypeInv /\ PlainInv /\ CopyInv
  BY DEF OnceInv
<1> USE <1>1, Types
<1>2. \A y \in Xid : ~RecordDup(y)
  BY DEF RecordDup, PlainInv
<1>3. dup_req' = {}
  <2>1. ASSUME NEW y \in Xid, Transmit(y)
        PROVE  dup_req' \subseteq dup_req
    BY <2>1 DEF Transmit
  <2>2. dup_req' = dup_req \/ \E y \in Xid : Transmit(y)
    BY <1>2 DEF Next, vars, clientVars, NetStep, CallStep, ClientStep, WaitTimeout,
                FinalTimeout, Finish, BindDone, Call, GotReply, Cancel, CancelDone,
                WorkerStep, ServerRestart
  <2> QED
    BY <2>1, <2>2 DEF PlainInv
<1>4. \A x \in Xid : call'[x].pc # "record"
  <2>1. CASE call' = call
    BY <2>1 DEF PlainInv
  <2>2. ASSUME NEW p \in Proc, Call(p)
        PROVE  <1>4
    BY <2>2 DEF Call, Caller, PlainInv
  <2>3. ASSUME NEW y \in Xid, Transmit(y) \/ WaitTimeout(y) \/ FinalTimeout(y) \/ BindDone(y)
        PROVE  <1>4
    <3>1. call'[y].pc # "record" /\ \A x \in Xid \ {y} : call'[x] = call[x]
      BY <2>3 DEF Transmit, WaitTimeout, FinalTimeout, BindDone, Caller
    <3> QED
      BY <3>1 DEF PlainInv
  <2>4. ASSUME NEW y \in Xid, Finish(y)
        PROVE  <1>4
    <3>1. call' = Exit(y)
      BY <2>4 DEF Finish
    <3>2. call'[y].pc # "record" /\ \A x \in Xid \ {y} : call'[x] = call[x]
      BY <3>1 DEF Exit, Caller
    <3> QED
      BY <3>2 DEF PlainInv
  <2>5. ASSUME NEW c \in Conn, GotReply(c)
        PROVE  \A x \in Xid : call'[x].pc = call[x].pc
    BY <2>5 DEF GotReply, Caller
  <2>6. CASE Cancel
    <3>1. \A x \in Xid : call'[x].pc = call[x].pc
      BY <2>6 DEF Cancel, Caller
    <3> QED
      BY <3>1 DEF PlainInv
  <2>7. \/ call' = call
        \/ \E p \in Proc : Call(p)
        \/ \E y \in Xid : \/ Transmit(y) \/ WaitTimeout(y) \/ FinalTimeout(y)
                          \/ Finish(y) \/ BindDone(y)
        \/ \E c \in Conn : GotReply(c)
        \/ Cancel
    BY <1>2 DEF Next, vars, clientVars, NetStep, CallStep, ClientStep, CancelDone, WorkerStep,
                ServerRestart
  <2>8. ASSUME \E c \in Conn : GotReply(c)
        PROVE  <1>4
    BY <2>5, <2>8 DEF PlainInv
  <2> QED
    BY <2>1, <2>2, <2>3, <2>4, <2>6, <2>7, <2>8
<1>5. ASSUME NEW v \in Worker
      PROVE  /\ worker'[v].pc # "check"
             /\ worker'[v].pc = "send" => nexec'[worker'[v].req.xid] = 1
  <2>1. CASE worker'[v] = worker[v]
    <3>1. worker[v].pc = "send" => /\ worker[v].req.xid \in Xid
                                   /\ nexec[worker[v].req.xid] = 1
      BY WorkerFacts DEF PlainInv
    <3> QED
      BY <2>1, <3>1, ExecutedStays DEF PlainInv
  <2>2. CASE worker'[v].pc \in {"idle", "run", "fault"}
    BY <2>2
  <2>3. CASE Run(v)
    <3>1. PICK z \in Xid : z = worker[v].req.xid
      BY <2>3, WorkerFacts DEF Run
    <3>2. nexec'[z] = nexec[z] + 1 /\ worker'[v].pc = "send" /\ worker'[v].req = worker[v].req
      BY <2>3, <3>1 DEF Run, Dispatch
    <3>3. nexec'[z] \in {0, 1} /\ nexec[z] \in Nat
      BY OneCopyStep DEF OneCopy
    <3> QED
      BY <3>1, <3>2, <3>3
  <2>4. ASSUME NEW w \in Worker, WorkerStep(w)
        PROVE  \/ worker'[v] = worker[v]
               \/ worker'[v].pc \in {"idle", "run", "fault"}
               \/ Run(v)
    <3>1. ASSUME NEW c \in Conn, RefuseOld(w, c)
          PROVE  worker'[v] = worker[v]
      BY <3>1 DEF RefuseOld, serverVars
    <3>2. ASSUME NEW c \in Conn, Receive(w, c)
          PROVE  worker'[v] = worker[v] \/ worker'[v].pc = "run"
      BY <3>2 DEF Receive
    <3>3. CASE CheckInProgress(w) \/ CheckDone(w) \/ CheckForgotten(w) \/ Answer(w)
      <4>1. worker' = [worker EXCEPT ![w] = Idle]
        BY <3>3 DEF CheckInProgress, CheckDone, CheckForgotten, Answer
      <4> QED
        BY <4>1 DEF Idle
    <3>4. CASE CheckNew(w) \/ Fault(w)
      BY <3>4 DEF CheckNew, Fault, Dispatch
    <3>5. CASE Run(w)
      BY <3>5 DEF Run
    <3> QED
      BY <2>4, <3>1, <3>2, <3>3, <3>4, <3>5 DEF WorkerStep
  <2>5. CASE ServerRestart
    BY <2>5 DEF ServerRestart, Restart, Idle
  <2>6. worker' = worker \/ ServerRestart \/ \E w \in Worker : WorkerStep(w)
    BY DEF Next, vars, serverVars, NetStep, CallStep, ClientStep
  <2> QED
    BY <2>1, <2>2, <2>3, <2>4, <2>5, <2>6
<1> QED
  BY <1>3, <1>4, <1>5 DEF PlainInv

\* What an outcome says stays true.
LEMMA FinalStays ==
    ASSUME ~Retrans, ~Lossy, OnceInv, [Next]_vars, NEW x \in Xid, x < xid_, NEW ret,
           Final(x, ret)
    PROVE  Final(x, ret)'
BY ExecutedStays, SpentStays DEF Final

\* A reply is true when it is sent; a refused request was the only copy.
LEMMA NewReplyIsFinal ==
    ASSUME ~Retrans, ~Lossy, OnceInv, [Next]_vars,
           NEW c \in Conn, NEW r \in s2c'[c], r \notin s2c[c]
    PROVE  Final(r.xid, r.ret)'
<1>1. TypeInv /\ CopyInv /\ PlainInv
  BY DEF OnceInv
<1> USE <1>1, Types
<1>2. ASSUME NEW d, NEW req, NEW ret, SendReply(d, ReplyTo(req, ret))
      PROVE  r.xid = req.xid /\ r.ret = ret
  <2>1. s2c' = s2c \/ s2c' = [s2c EXCEPT ![d] = @ \cup {ReplyTo(req, ret)}]
    BY <1>2 DEF SendReply
  <2>2. r = ReplyTo(req, ret)
    BY <2>1
  <2> QED
    BY <2>2 DEF ReplyTo
<1>3. ASSUME NEW w \in Worker, Answer(w)
      PROVE  Final(r.xid, r.ret)'
  <2>1. worker[w].req.xid \in Xid /\ nexec[worker[w].req.xid] = 1
    BY <1>3, WorkerFacts DEF Answer, PlainInv
  <2>2. r.xid = worker[w].req.xid /\ r.ret = "ok"
    BY <1>2, <1>3 DEF Answer
  <2>3. nexec'[r.xid] = 1
    BY <2>1, <2>2, ExecutedStays
  <2> QED
    BY <2>2, <2>3 DEF Final
<1>4. ASSUME NEW w \in Worker, NEW d \in Conn, RefuseOld(w, d), UNCHANGED clientVars
      PROVE  Final(r.xid, r.ret)'
  <2>1. PICK req \in c2s[d] : /\ c2s' = [c2s EXCEPT ![d] = @ \ {req}]
                              /\ SendReply(d, ReplyTo(req, "oldsrv_failure"))
    BY <1>4 DEF RefuseOld
  <2>2. PICK z \in Xid : z = req.xid /\ req = call[z].hdr
    BY DEF CopyInv, IsCopy, Request
  <2>3. r.xid = z /\ r.ret = "oldsrv_failure"
    BY <1>2, <2>1, <2>2
  <2>4. InTransit(z, d)
    BY <2>2 DEF InTransit
  <2>5. /\ ~Transmits(z)
        /\ \A e \in Conn : InTransit(z, e) => e = d
        /\ \A v \in Worker : ~Runs(v, z)
    BY <2>4 DEF OnceInv, OneCopy, Transmits
  <2>6. \A e \in Conn : ~InTransit(z, e)'
    <3>1. \A q \in c2s[d] : q.xid = z => q = req
      BY <2>2 DEF CopyInv, IsCopy
    <3>2. \A e \in Conn : c2s'[e] = IF e = d THEN c2s[e] \ {req} ELSE c2s[e]
      BY <2>1
    <3> QED
      BY <2>5, <3>1, <3>2 DEF InTransit
  <2>7. UNCHANGED <<worker, call>>
    BY <1>4 DEF RefuseOld, serverVars, clientVars
  <2>8. Spent(z)'
    BY <2>5, <2>6, <2>7 DEF Spent, Transmits, Runs
  <2> QED
    BY <2>3, <2>8 DEF Final
<1>5. \A w \in Worker : ~CheckDone(w) /\ ~CheckForgotten(w)
  BY DEF CheckDone, CheckForgotten, PlainInv
<1> QED
  BY <1>3, <1>4, <1>5, ReplySenders

\* Every step keeps true what has been said to the caller.
LEMMA FinalStep ==
    ASSUME ~Retrans, ~Lossy, OnceInv, [Next]_vars
    PROVE  FinalInv'
<1>1. TypeInv /\ HeaderInv /\ CopyInv /\ BindInv /\ FinalInv
  BY DEF OnceInv
<1> USE <1>1, Types
<1>2. ASSUME NEW c \in Conn, NEW r \in s2c[c]
      PROVE  r.xid \in Xid /\ r.xid < xid_ /\ r.ret \in Outcome
  BY DEF Reply, CopyInv
<1>3. ASSUME NEW c \in Conn, NEW r \in s2c'[c]
      PROVE  Final(r.xid, r.ret)'
  <2>1. CASE r \in s2c[c]
    BY <1>2, <2>1, FinalStays DEF FinalInv
  <2>2. CASE r \notin s2c[c]
    BY <1>3, <2>2, NewReplyIsFinal
  <2> QED
    BY <2>1, <2>2
<1>4. ASSUME NEW x \in Xid
      PROVE  Final(x, call[x].ret)' /\ (call'[x].done => call'[x].ret # "none")
  <2>1. PICK ret : ret = call'[x].ret
    OBVIOUS
  <2>2. CASE ret \in Failure
    <3>1. ret # "none" /\ ret \notin Outcome
      BY <2>2 DEF Failure, Outcome
    <3> QED
      BY <2>1, <3>1 DEF Final, Outcome
  <2>3. ASSUME NEW c \in Conn, NEW r \in s2c[c], r.xid = x, ret = r.ret
        PROVE  Final(x, call[x].ret)' /\ ret # "none"
    <3>1. Final(x, ret)'
      BY <1>2, <2>3, FinalStays DEF FinalInv
    <3>2. ret # "none"
      BY <1>2, <2>3 DEF Outcome
    <3> QED
      BY <2>1, <3>1, <3>2 DEF Final
  <2>4. ASSUME ret = call[x].ret, call'[x].done => call[x].done
        PROVE  Final(x, call[x].ret)' /\ (call'[x].done => ret # "none")
    <3>1. call'[x].done => ret # "none"
      BY <2>4 DEF FinalInv
    <3>2. CASE x < xid_
      <4>1. Final(x, ret)'
        BY <2>4, <3>2, FinalStays DEF FinalInv
      <4> QED
        BY <2>1, <3>1, <4>1 DEF Final
    <3>3. CASE ~(x < xid_)
      <4>1. ret = "none"
        BY <2>4, <3>3 DEF HeaderInv, BindInv
      <4> QED
        BY <2>1, <3>1, <4>1 DEF Final
    <3> QED
      BY <3>2, <3>3
  <2> QED
    BY <2>1, <2>2, <2>3, <2>4, ResultChange
<1> QED
  BY <1>3, <1>4 DEF FinalInv

\* The initial state satisfies the invariant.
LEMMA InitOnce == Init => OnceInv
<1> SUFFICES ASSUME Init PROVE OnceInv
  OBVIOUS
<1>1. TypeInv /\ HeaderInv /\ WindowInv /\ CopyInv /\ BindInv
  BY InitType, InitInv DEF IInv
<1>2. /\ dup_req = {} /\ nexec = [x \in Xid |-> 0]
      /\ c2s = [c \in Conn |-> {}] /\ s2c = [c \in Conn |-> {}]
  BY DEF Init, NetInit, ClientInit, ServerInit
<1>3. \A w \in Worker : worker[w].pc = "idle"
  BY DEF Init, ServerInit, Idle
<1>4. \A x \in Xid : call[x].pc = "none" /\ call[x].ret = "none" /\ call[x].done = FALSE
  BY DEF Init, ClientInit
<1>5. \A x \in Xid : OneCopy(x)
  BY <1>2, <1>3, <1>4 DEF OneCopy, InTransit, Runs
<1>6. PlainInv /\ FinalInv
  BY <1>2, <1>3, <1>4 DEF PlainInv, FinalInv, Final
<1> QED
  BY <1>1, <1>5, <1>6 DEF OnceInv

\* Every step preserves the invariant.
LEMMA NextOnce ==
    ASSUME ~Retrans, ~Lossy, OnceInv, [Next]_vars
    PROVE  OnceInv'
<1>1. TypeInv /\ HeaderInv /\ WindowInv /\ CopyInv /\ BindInv
  BY DEF OnceInv
<1>2. TypeInv' /\ HeaderInv' /\ WindowInv' /\ CopyInv' /\ BindInv'
  BY <1>1, NextType, WindowStep, CopyStep, BindStep
<1>3. \A x \in Xid : OneCopy(x)'
  BY OneCopyStep
<1>4. PlainInv' /\ FinalInv'
  BY PlainStep, FinalStep
<1> QED
  BY <1>2, <1>3, <1>4 DEF OnceInv

\* OnceInv says what the refinement asks for.
LEMMA OnceInvFacts == OnceInv => ServiceFacts
<1> SUFFICES ASSUME OnceInv PROVE ServiceFacts
  OBVIOUS
<1>1. TypeInv /\ HeaderInv /\ CopyInv /\ BindInv
  BY DEF OnceInv
<1>2. \A x \in Xid : OneCopy(x)
  BY DEF OnceInv
<1>3. \A x \in Xid : /\ Final(x, call[x].ret)
                     /\ call[x].done => call[x].ret # "none"
  BY DEF OnceInv, FinalInv
<1>4. AtMostOnce /\ \A x \in Xid : nexec[x] > 0 => x < xid_
  BY <1>2 DEF AtMostOnce, OneCopy
<1>5. ASSUME NEW x \in Xid, NEW w \in Worker, Runs(w, x)
      PROVE  nexec[x] = 0 /\ call[x].ret \notin App!Refused
  <2>1. ~Spent(x)
    BY <1>5 DEF Spent
  <2>2. nexec[x] = 0
    BY <1>2, <2>1 DEF OneCopy
  <2> QED
    BY <1>3, <2>1, <2>2 DEF Final, App!Refused
<1>6. \A x \in Xid : /\ call[x].ret = "ok" => nexec[x] > 0
                     /\ call[x].ret # "atmostonce_failure"
  BY <1>3 DEF Final
<1> QED
  BY <1>1, <1>3, <1>4, <1>5, <1>6 DEF ServiceFacts

\* For a client without a nonce the library is RpcService as well, though the
\* server cannot tell a duplicate: call1 sends the request once and gives the
\* call up when its channel is lost, so that nothing is executed twice, and a
\* request that an instance of the server refuses has no other copy.
THEOREM ServiceImplementedOnce ==
    ASSUME ~Retrans, ~Lossy
    PROVE  Spec => ImplementsService
<1>1. Init => OnceInv
  BY InitOnce
<1>2. OnceInv /\ [Next]_vars => OnceInv'
  BY NextOnce
<1>3. Init => App!ServiceInit
  BY InitRefines
<1>4. OnceInv /\ [Next]_vars => [App!ServiceNext]_(App!serviceVars)
  BY OnceInvFacts, StepRefines
<1> QED
  BY <1>1, <1>2, <1>3, <1>4, PTL DEF Spec, ImplementsService, App!ServiceSpec
=============================================================================
