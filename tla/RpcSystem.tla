----------------------------- MODULE RpcSystem ------------------------------
(***************************************************************************)
(* A client and a server of the RPC library, joined by connections that    *)
(* break, lose what is in transit and are made anew, with a server that    *)
(* may crash and restart.                                                  *)
(***************************************************************************)
EXTENDS RpcClient, RpcServer

vars == <<netVars, clientVars, serverVars>>

TypeOK == NetTypeOK /\ ClientTypeOK /\ ServerTypeOK

Init == NetInit /\ ClientInit /\ ServerInit

NetStep(c) ==
    /\ Break(c) \/ ClientReadFails(c) \/ ServerReadFails(c)
    /\ UNCHANGED <<clientVars, serverVars>>

CallStep(x) ==
    /\ \/ Transmit(x) \/ WaitTimeout(x) \/ FinalTimeout(x)
       \/ Finish(x) \/ RecordDup(x) \/ BindDone(x)
    /\ UNCHANGED serverVars

ClientStep ==
    /\ \/ \E p \in Proc : Call(p)
       \/ \E c \in Conn : GotReply(c)
       \/ Cancel
       \/ CancelDone
    /\ UNCHANGED serverVars

\* The NULL pointer of a faulting thread ends the whole process.
Alive == \A w \in Worker : worker[w].pc # "fault"

WorkerStep(w) ==
    /\ Alive
    /\ \/ \E c \in Conn : RefuseOld(w, c) \/ Receive(w, c)
       \/ CheckNew(w) \/ CheckInProgress(w) \/ CheckDone(w) \/ CheckForgotten(w)
       \/ Run(w) \/ Answer(w) \/ Fault(w)
    /\ UNCHANGED clientVars

ServerRestart == Restart /\ UNCHANGED clientVars

Next ==
    \/ \E c \in Conn : NetStep(c)
    \/ \E x \in Xid : CallStep(x)
    \/ ClientStep
    \/ \E w \in Worker : WorkerStep(w)
    \/ ServerRestart

Spec == Init /\ [][Next]_vars

(***************************************************************************)
(* Every thread that can run does so eventually, a PDU in transit on a     *)
(* live stream is delivered, and the failure of a stream is noticed by     *)
(* both ends.  The deadline of a call is absolute, so a call that keeps    *)
(* coming back to its wait reaches it: strong fairness.  Nothing obliges   *)
(* the application to call or to cancel, or the server to crash.           *)
(***************************************************************************)
Fairness ==
    /\ \A x \in Xid :
         /\ WF_vars(CallStep(x))
         /\ SF_vars(FinalTimeout(x) /\ UNCHANGED serverVars)
    /\ \A c \in Conn :
         /\ WF_vars(GotReply(c) /\ UNCHANGED serverVars)
         /\ WF_vars(ClientReadFails(c) /\ UNCHANGED <<clientVars, serverVars>>)
         /\ WF_vars(ServerReadFails(c) /\ UNCHANGED <<clientVars, serverVars>>)
         /\ WF_vars((\E w \in Worker : RefuseOld(w, c) \/ Receive(w, c))
                    /\ Alive /\ UNCHANGED clientVars)
    /\ \A w \in Worker :
         WF_vars(/\ \/ CheckNew(w) \/ CheckInProgress(w) \/ CheckDone(w)
                    \/ CheckForgotten(w) \/ Run(w) \/ Answer(w) \/ Fault(w)
                 /\ Alive /\ UNCHANGED clientVars)
    /\ WF_vars(CancelDone /\ UNCHANGED serverVars)

FairSpec == Spec /\ Fairness

-----------------------------------------------------------------------------
(***************************************************************************)
(* Safety.                                                                 *)
(***************************************************************************)
Started(x) == call[x].pc # "none"
IsApp(x) == Started(x) /\ call[x].hdr.proc = "app"

\* The handler of an application call runs at most once, whatever is
\* retransmitted, resent under RPC_LOSSY or left over when the server restarts.
AtMostOnce == \A x \in Xid : IsApp(x) => nexec[x] <= 1

\* The reply of an executed call stays in the server's window for as long as
\* its caller waits: no other request acknowledges it, so that a
\* retransmission finds it (DONE) instead of being FORGOTTEN.
ReplyKept ==
    \A x \in calls :
        (~call[x].done /\ call[x].hdr.srv_nonce = nonce /\ nexec[x] > 0) => x \in saved

\* The application calls as RpcService knows them.
AppStarted == {x \in Xid : IsApp(x)}
AppExecuted == [x \in Xid |-> IF IsApp(x) THEN nexec[x] ELSE 0]
AppResult == [x \in Xid |-> IF IsApp(x) /\ call[x].pc = "returned"
                            THEN call[x].ret ELSE "none"]

App == INSTANCE RpcService WITH
    Id <- Xid, started <- AppStarted, executed <- AppExecuted, result <- AppResult

\* The library as its users see it, over the application calls, is RpcService:
\* call1 returns what the one execution of the handler produced, or a failure,
\* and a caller that is told its request was refused (oldsrv_failure,
\* atmostonce_failure) may rely on it: the handler does not run afterwards.
ImplementsService == App!ServiceSpec

-----------------------------------------------------------------------------
(***************************************************************************)
(* The inductive invariant behind AtMostOnce, for a client with a nonce    *)
(* (Retrans).                                                              *)
(***************************************************************************)
\* A request in transit, kept for a resend or being dispatched is a copy of
\* the header its call packed; a header acknowledges only older calls.
IsCopy(r) == r.xid < xid_ /\ r = call[r.xid].hdr

HeaderInv ==
    \A x \in Xid : /\ (x < xid_) <=> Started(x)
                   /\ call[x].hdr.xid = x
                   /\ call[x].hdr.xid_rep < x

WindowInv ==
    /\ xid_rep_window # {}
    /\ \A y \in xid_rep_window : y < xid_
    /\ \A x \in calls : x < xid_

CopyInv ==
    /\ \A c \in Conn : \A r \in c2s[c] : IsCopy(r)
    /\ \A r \in dup_req : IsCopy(r)
    /\ \A w \in Worker : worker[w].pc # "idle" =>
          IsCopy(worker[w].req) /\ ~OldInstance(worker[w].req)
    /\ \A c \in Conn : \A r \in s2c[c] : r.xid < xid_

\* An application call is made only after a bind has told the client the
\* nonce of a server instance, and that nonce is not 0.
BindInv ==
    /\ bind_done => srv_nonce # 0
    /\ \A x \in Xid :
         /\ ~Started(x) => call[x].ret = "none"
         /\ IsApp(x) => call[x].hdr.srv_nonce # 0
         /\ (~IsApp(x) /\ call[x].ret = "ok") => call[x].nonce # 0
         /\ call[x].pc = "bind" => ~IsApp(x) /\ call[x].ret = "ok"
         /\ x \in calls => call[x].pc \in {"transmit", "wait", "finish"}
    /\ \A c \in Conn : \A r \in s2c[c] :
         (~IsApp(r.xid) /\ r.ret = "ok") => r.nonce # 0

\* The running server instance knows an xid it has registered: it is in the
\* window, or below it.
Known(x) == x \in rwin \/ IsForgotten(x)

ExecInv ==
    /\ \A x \in Xid : nexec[x] > 0 => x < xid_
    /\ \A x \in Xid : IsApp(x) /\ nexec[x] > 0 =>
         /\ call[x].hdr.srv_nonce <= nonce
         /\ call[x].hdr.srv_nonce = nonce => Known(x)
    /\ \A w \in Worker : worker[w].pc = "run" =>
         /\ Known(worker[w].req.xid)
         /\ IsApp(worker[w].req.xid) => nexec[worker[w].req.xid] = 0
    /\ \A v, w \in Worker :
         (worker[v].pc = "run" /\ worker[w].pc = "run"
            /\ worker[v].req.xid = worker[w].req.xid) => v = w

IInv == TypeOK /\ HeaderInv /\ WindowInv /\ CopyInv /\ BindInv /\ ExecInv /\ AtMostOnce

-----------------------------------------------------------------------------
(***************************************************************************)
(* What ReplyKept and the refinement of RpcService need on top of IInv.    *)
(***************************************************************************)
\* A caller waits in call1: its entry of calls_ has no answer yet.
Open(x) == x \in calls /\ ~call[x].done

\* No one knows of a server instance that does not exist yet.
NonceInv ==
    /\ srv_nonce <= nonce
    /\ \A x \in Xid : call[x].hdr.srv_nonce <= nonce /\ call[x].nonce <= nonce
    /\ \A c \in Conn : \A r \in s2c[c] : r.nonce <= nonce

\* Neither the client's window nor a header acknowledges a call that waits.
AckInv ==
    \A x \in calls : Open(x) =>
        /\ x \notin xid_rep_window
        /\ Front(xid_rep_window) < x
        /\ \A y \in Xid : Started(y) => call[y].hdr.xid_rep < x

Runs(w, x) == worker[w].pc = "run" /\ worker[w].req.xid = x

\* The running instance keeps what it knows of a call that waits, and only
\* keeps or sends the replies of calls it has executed.
KeepInv ==
    /\ \A x \in calls : (Open(x) /\ call[x].hdr.srv_nonce = nonce) =>
         /\ nexec[x] > 0 => x \in saved
         /\ \A w \in Worker : Runs(w, x) => x \in rwin
    /\ saved \subseteq rwin
    /\ \A x \in saved : nexec[x] > 0
    /\ \A w \in Worker : worker[w].pc = "send" => nexec[worker[w].req.xid] > 0

\* The handler of x has not run and never will: the instance that x is meant
\* for is gone, or has moved its window past x.
Barred(x) ==
    /\ nexec[x] = 0
    /\ \A w \in Worker : ~Runs(w, x)
    /\ \/ call[x].hdr.srv_nonce < nonce
       \/ call[x].hdr.srv_nonce = nonce /\ IsForgotten(x)

\* What an outcome, in a reply or in the result of a call, says of the server.
Backed(x, ret) ==
    /\ ret = "ok" => nexec[x] > 0
    /\ ret = "oldsrv_failure" => call[x].hdr.srv_nonce < nonce
    /\ ret = "atmostonce_failure" => Barred(x)

ReplyInv ==
    \A c \in Conn : \A r \in s2c[c] :
        (IsApp(r.xid) /\ Open(r.xid)) => Backed(r.xid, r.ret)

ResultInv ==
    \A x \in Xid : /\ IsApp(x) => Backed(x, call[x].ret)
                   /\ call[x].done => call[x].ret # "none"

ServiceInv == IInv /\ NonceInv /\ AckInv /\ KeepInv /\ ReplyInv /\ ResultInv

-----------------------------------------------------------------------------
(***************************************************************************)
(* Liveness.                                                               *)
(***************************************************************************)
\* call1 returns: at the latest when its final deadline has passed.
CallReturns ==
    \A x \in Xid : Started(x) ~> call[x].pc = "returned"

\* rpcc::cancel returns: every call it failed leaves calls_.
CancelReturns == cancel = "waiting" ~> cancel = "done"

-----------------------------------------------------------------------------
(***************************************************************************)
(* Claims of the comments and tests that the code does not keep.           *)
(***************************************************************************)
\* A call does not wait for ever on a healthy channel: retransmissions and
\* replies being rpcc's and rpcs' job, only a broken stream delays an answer.
AnsweredOnLiveChannel ==
    \A x \in Xid :
        []<>~(call[x].pc = "wait" /\ call[x].ch # NoConn /\ link[call[x].ch] = "up")
=============================================================================
