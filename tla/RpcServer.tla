----------------------------- MODULE RpcServer ------------------------------
(***************************************************************************)
(* rpcs, the server end of the RPC library (rpc/rpc.cc): a pool of threads *)
(* runs rpcs::dispatch on the request PDUs, and a window of replies makes  *)
(* every request of a client execute at most once.  The state is that of   *)
(* one client (reply_window_ and conns_ are maps keyed by clt_nonce and    *)
(* their entries do not interact).  Steps are cut where dispatch takes or  *)
(* releases conss_m_ and reply_window_m_.                                  *)
(***************************************************************************)
EXTENDS Naturals, RpcNet

CONSTANT Worker        \* the threads of dispatchpool_

VARIABLES
    nonce,    \* nonce_ of the running server instance
    rwin,     \* the xids in the client's list in reply_window_
    saved,    \* those among them with cb_present
    latest,   \* conns_[clt_nonce]
    worker,   \* the frame of dispatch, by thread
    nexec     \* history: how often the handler of an xid has run

serverVars == <<nonce, rwin, saved, latest, worker, nexec>>

Dispatch == [pc : {"idle", "check", "run", "send", "fault"},
             req : Request,
             c : {NoConn} \cup Conn]

ServerTypeOK ==
    /\ nonce \in Nonce
    /\ rwin \in SUBSET Xid
    /\ saved \in SUBSET Xid
    /\ latest \in {NoConn} \cup Conn
    /\ worker \in [Worker -> Dispatch]
    /\ \A w \in Worker : worker[w].pc # "idle" => worker[w].c \in Conn
    /\ nexec \in [Xid -> Nat]

\* A thread of the pool waiting for a job; what it holds is of no account.
Idle == [pc |-> "idle", c |-> NoConn,
         req |-> [xid |-> 1, proc |-> "bind", srv_nonce |-> 0, xid_rep |-> 0]]

ServerInit ==
    /\ nonce = 1
    /\ rwin = {}
    /\ saved = {}
    /\ latest = NoConn
    /\ worker = [w \in Worker |-> Idle]
    /\ nexec = [x \in Xid |-> 0]

-----------------------------------------------------------------------------
ReplyTo(req, ret) ==
    [xid |-> req.xid, ret |-> ret,
     nonce |-> IF req.proc = "bind" /\ ret = "ok" THEN nonce ELSE 0]

(***************************************************************************)
(* A thread takes a PDU that got_pdu queued.  A request for another server *)
(* instance is refused; else the connection is remembered if it is newer   *)
(* than the one in conns_.                                                 *)
(***************************************************************************)
\* Faulty variant: the instance a request is meant for is not looked at.
AnyInstance(req) == FALSE

OldInstance(req) == req.srv_nonce # 0 /\ req.srv_nonce # nonce

RefuseOld(w, c) ==
    /\ worker[w].pc = "idle"
    /\ \E req \in c2s[c] :
         /\ OldInstance(req)
         /\ c2s' = [c2s EXCEPT ![c] = @ \ {req}]
         /\ SendReply(c, ReplyTo(req, "oldsrv_failure"))
    /\ UNCHANGED <<link, cdead, serverVars>>

Receive(w, c) ==
    /\ worker[w].pc = "idle"
    /\ \E req \in c2s[c] :
         /\ ~OldInstance(req)
         /\ c2s' = [c2s EXCEPT ![c] = @ \ {req}]
         /\ worker' = [worker EXCEPT ![w] =
                         [pc |-> IF Retrans THEN "check" ELSE "run", req |-> req, c |-> c]]
    /\ latest' = IF Retrans /\ latest < c THEN c ELSE latest
    /\ UNCHANGED <<link, cdead, sdead, s2c, nonce, rwin, saved, nexec>>

(***************************************************************************)
(* checkduplicate_and_update, and the branch of dispatch its answer picks. *)
(***************************************************************************)
\* Faulty variant: an xid below the window is taken for a new one.
NeverForgotten(x) == FALSE

IsForgotten(x) == rwin # {} /\ \A y \in rwin : x < y

\* Faulty variant: everything older than the request is deleted.
CheckNewDropOlder(w) ==
    /\ worker[w].pc = "check"
    /\ worker[w].req.xid \notin rwin
    /\ ~IsForgotten(worker[w].req.xid)
    /\ rwin' = {y \in rwin \cup {worker[w].req.xid} : y >= worker[w].req.xid}
    /\ saved' = saved \cap rwin'
    /\ worker' = [worker EXCEPT ![w].pc = "run"]
    /\ UNCHANGED <<netVars, nonce, latest, nexec>>

CheckNew(w) ==
    /\ worker[w].pc = "check"
    /\ worker[w].req.xid \notin rwin
    /\ ~IsForgotten(worker[w].req.xid)
    /\ rwin' = {y \in rwin \cup {worker[w].req.xid} : y >= worker[w].req.xid_rep}
    /\ saved' = saved \cap rwin'
    /\ worker' = [worker EXCEPT ![w].pc = "run"]
    /\ UNCHANGED <<netVars, nonce, latest, nexec>>

\* Faulty variant: a missing break, the INPROGRESS case runs into DONE.
CheckInProgressAnswers(w) ==
    /\ worker[w].pc = "check"
    /\ worker[w].req.xid \in rwin \ saved
    /\ SendReply(worker[w].c, ReplyTo(worker[w].req, "ok"))
    /\ worker' = [worker EXCEPT ![w] = Idle]
    /\ UNCHANGED <<link, cdead, c2s, nonce, rwin, saved, latest, nexec>>

CheckInProgress(w) ==
    /\ worker[w].pc = "check"
    /\ worker[w].req.xid \in rwin \ saved
    /\ worker' = [worker EXCEPT ![w] = Idle]
    /\ UNCHANGED <<netVars, nonce, rwin, saved, latest, nexec>>

CheckDone(w) ==
    /\ worker[w].pc = "check"
    /\ worker[w].req.xid \in saved
    /\ SendReply(worker[w].c, ReplyTo(worker[w].req, "ok"))
    /\ worker' = [worker EXCEPT ![w] = Idle]
    /\ UNCHANGED <<link, cdead, c2s, nonce, rwin, saved, latest, nexec>>

CheckForgotten(w) ==
    /\ worker[w].pc = "check"
    /\ worker[w].req.xid \notin rwin
    /\ IsForgotten(worker[w].req.xid)
    /\ SendReply(worker[w].c, ReplyTo(worker[w].req, "atmostonce_failure"))
    /\ worker' = [worker EXCEPT ![w] = Idle]
    /\ UNCHANGED <<link, cdead, c2s, nonce, rwin, saved, latest, nexec>>

(***************************************************************************)
(* The registered handler f->fn runs, holding no lock of rpcs, and         *)
(* add_reply saves its reply, unless the xid has left the window.          *)
(***************************************************************************)
AddReply(x) == saved' = saved \cup (rwin \cap {x})

Run(w) ==
    /\ worker[w].pc = "run"
    /\ nexec' = [nexec EXCEPT ![worker[w].req.xid] = @ + 1]
    /\ AddReply(worker[w].req.xid)
    /\ worker' = [worker EXCEPT ![w].pc = "send"]
    /\ UNCHANGED <<netVars, nonce, rwin, latest>>

(***************************************************************************)
(* Send the reply on the connection of the request or, if that is dead, on *)
(* the latest one.  For a client without a nonce, conns_[0] is NULL and    *)
(* c->incref() faults.                                                     *)
(***************************************************************************)
ReplyConn(w) == IF worker[w].c \in sdead THEN latest ELSE worker[w].c

Answer(w) ==
    /\ worker[w].pc = "send"
    /\ ReplyConn(w) # NoConn
    /\ SendReply(ReplyConn(w), ReplyTo(worker[w].req, "ok"))
    /\ worker' = [worker EXCEPT ![w] = Idle]
    /\ UNCHANGED <<link, cdead, c2s, nonce, rwin, saved, latest, nexec>>

Fault(w) ==
    /\ worker[w].pc = "send"
    /\ ReplyConn(w) = NoConn
    /\ worker' = [worker EXCEPT ![w].pc = "fault"]
    /\ UNCHANGED <<netVars, nonce, rwin, saved, latest, nexec>>

(***************************************************************************)
(* The server process crashes and a new rpcs is made, with a fresh nonce_  *)
(* and empty tables.  Its streams break; replies already sent may arrive.  *)
(***************************************************************************)
Restart ==
    /\ nonce < MaxNonce
    /\ nonce' = nonce + 1
    /\ rwin' = {}
    /\ saved' = {}
    /\ latest' = NoConn
    /\ worker' = [w \in Worker |-> Idle]
    /\ link' = [c \in Conn |-> IF link[c] = "up" THEN "broken" ELSE link[c]]
    /\ sdead' = {c \in Conn : link[c] # "unused"}
    /\ c2s' = [c \in Conn |-> {}]
    /\ UNCHANGED <<cdead, s2c, nexec>>
=============================================================================
