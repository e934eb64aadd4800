----------------------------- MODULE RpcClient ------------------------------
(***************************************************************************)
(* rpcc, the client end of the RPC library (rpc/rpc.cc): several           *)
(* application threads are inside rpcc::call1 at once, the PollMgr thread  *)
(* delivers replies through rpcc::got_pdu, and rpcc::cancel may fail every *)
(* outstanding call.  A call is named by its xid, which is never reused.   *)
(* Steps are cut where call1 releases m_ or waits.                         *)
(***************************************************************************)
EXTENDS Integers, FiniteSets, RpcNet

CONSTANTS MaxCalls,    \* bound: application threads, hence concurrent calls
          Lossy,       \* whether RPC_LOSSY is set (lossytest_ # 0)
          Timeouts,    \* whether a call may reach its final deadline
          Cancels      \* whether the application may call rpcc::cancel

ASSUME ClientAssumption ==
    /\ MaxCalls \in Nat \ {0}
    /\ {Lossy, Timeouts, Cancels} \subseteq BOOLEAN

VARIABLES
    xid_,            \* the next xid
    xid_rep_window,  \* xid_rep_window_: xids answered or given up, compressed
    calls,           \* the keys of calls_
    call,            \* the frame of call1 and its struct caller, by xid
    chan,            \* chan_
    bind_done,       \* bind_done_
    srv_nonce,       \* srv_nonce_
    dup_req,         \* dup_req_: at most one request kept for a later resend
    xid_rep_done,    \* xid_rep_done_
    cancel           \* rpcc::cancel: idle, waiting (destroy_wait_ set) or done

clientVars == <<xid_, xid_rep_window, calls, call, chan, bind_done, srv_nonce,
                dup_req, xid_rep_done, cancel>>

Failure == {"timeout_failure", "cancel_failure"}

Caller == [pc : {"none", "transmit", "wait", "finish", "record", "bind", "returned"},
           hdr : Request,
           ch : {NoConn} \cup Conn,
           final : BOOLEAN,            \* finaldeadline.tv_sec = 0
           done : BOOLEAN,
           ret : Outcome \cup Failure \cup {"none"},
           nonce : {0} \cup Nonce]     \* the result r of a bind

ClientTypeOK ==
    /\ xid_ \in 1..(MaxXid + 1)
    /\ xid_rep_window \in SUBSET (0..MaxXid)
    /\ calls \in SUBSET Xid
    /\ call \in [Xid -> Caller]
    /\ chan \in {NoConn} \cup Conn
    /\ bind_done \in BOOLEAN
    /\ srv_nonce \in {0} \cup Nonce
    /\ dup_req \in SUBSET Request
    /\ xid_rep_done \in Int
    /\ cancel \in {"idle", "waiting", "done"}

ClientInit ==
    /\ xid_ = 1
    /\ xid_rep_window = {0}
    /\ calls = {}
    /\ call = [x \in Xid |->
                 [pc |-> "none", ch |-> NoConn, final |-> FALSE, done |-> FALSE,
                  ret |-> "none", nonce |-> 0,
                  hdr |-> [xid |-> x, proc |-> "app", srv_nonce |-> 0, xid_rep |-> 0]]]
    /\ chan = NoConn
    /\ bind_done = FALSE
    /\ srv_nonce = 0
    /\ dup_req = {}
    /\ xid_rep_done = -1
    /\ cancel = "idle"

-----------------------------------------------------------------------------
(***************************************************************************)
(* xid_rep_window_ is a sorted list whose front the client acknowledges.   *)
(* As a set: the list may hold an xid twice, which changes nothing.        *)
(***************************************************************************)
Front(w) == CHOOSE m \in w : \A y \in w : m <= y

\* Faulty variant: the xid after the one that is over is inserted.
UpdateXidRepOffByOne(w, x) ==
    IF x <= Front(w)
    THEN w
    ELSE LET s == w \cup {x + 1}
         IN  {y \in s : ~ (Front(w)..(y + 1) \subseteq s)}

\* Insert xid, then pop the front while its successor is there too.
UpdateXidRep(w, x) ==
    IF x <= Front(w)
    THEN w
    ELSE LET s == w \cup {x}
         IN  {y \in s : ~ (Front(w)..(y + 1) \subseteq s)}

-----------------------------------------------------------------------------
(***************************************************************************)
(* call1 under m_: take an xid, enter calls_, pack the header.  A call that *)
(* is refused at once (not bound, bound twice, cancelled) changes nothing.  *)
(***************************************************************************)
Call(p) ==
    /\ xid_ <= MaxXid
    /\ Cardinality({x \in Xid : call[x].pc \notin {"none", "returned"}}) < MaxCalls
    /\ (p = "bind") = ~bind_done
    /\ cancel = "idle"
    /\ xid_' = xid_ + 1
    /\ calls' = calls \cup {xid_}
    /\ call' = [call EXCEPT ![xid_].pc = "transmit",
                            ![xid_].hdr = [xid |-> xid_, proc |-> p,
                                           srv_nonce |-> srv_nonce,
                                           xid_rep |-> Front(xid_rep_window)]]
    /\ UNCHANGED <<netVars, xid_rep_window, chan, bind_done, srv_nonce,
                   dup_req, xid_rep_done, cancel>>

(***************************************************************************)
(* get_refconn: reuse chan_, or replace a missing or dead one.  connect()  *)
(* may fail, and then chan_ is NULL.                                       *)
(***************************************************************************)
GetRefconn ==
    LET fresh == {c \in Conn : link[c] = "unused"}
    IN  \/ /\ chan # NoConn /\ chan \notin cdead
           /\ UNCHANGED <<chan, link>>
        \/ /\ chan = NoConn \/ chan \in cdead
           /\ \E c \in fresh : /\ \A d \in fresh : c <= d
                               /\ chan' = c
                               /\ Connect(c)
        \/ /\ chan = NoConn \/ chan \in cdead
           /\ chan' = NoConn
           /\ UNCHANGED link

(***************************************************************************)
(* One pass through the transmit branch of call1's loop.  Under RPC_LOSSY   *)
(* a completed request that the server must have forgotten is sent again    *)
(* ahead of the new one.  When connect() fails, ch keeps its old value.     *)
(***************************************************************************)
Transmit(x) ==
    /\ call[x].pc = "transmit"
    /\ GetRefconn
    /\ LET ch == IF chan' # NoConn THEN chan' ELSE call[x].ch
           forgot == {r \in dup_req : xid_rep_done > r.xid}
       IN  /\ call' = [call EXCEPT ![x].ch = ch,
                                   ![x].pc = IF call[x].final THEN "finish" ELSE "wait"]
           /\ IF ch # NoConn
              THEN /\ SendRequest(ch, forgot \cup {call[x].hdr})
                   /\ dup_req' = dup_req \ forgot
              ELSE UNCHANGED <<c2s, s2c, cdead, dup_req>>
    /\ UNCHANGED <<sdead, xid_, xid_rep_window, calls, bind_done, srv_nonce,
                   xid_rep_done, cancel>>

ChDead(x) == call[x].ch = NoConn \/ call[x].ch \in cdead

\* Faulty variant: retrans_ is not looked at.
WaitTimeoutAlways(x) ==
    /\ call[x].pc = "wait" /\ ~call[x].done
    /\ ChDead(x)
    /\ call' = [call EXCEPT ![x].pc = "transmit"]
    /\ UNCHANGED <<netVars, xid_, xid_rep_window, calls, chan, bind_done, srv_nonce,
                   dup_req, xid_rep_done, cancel>>

(***************************************************************************)
(* The wait ends at nextdeadline: the request goes out again only if the    *)
(* channel it was sent on is dead.                                          *)
(***************************************************************************)
WaitTimeout(x) ==
    /\ call[x].pc = "wait" /\ ~call[x].done
    /\ Retrans /\ ChDead(x)
    /\ call' = [call EXCEPT ![x].pc = "transmit"]
    /\ UNCHANGED <<netVars, xid_, xid_rep_window, calls, chan, bind_done, srv_nonce,
                   dup_req, xid_rep_done, cancel>>

\* Faulty variant: the final deadline is never looked at.
FinalTimeoutNever(x) == FALSE /\ UNCHANGED <<netVars, clientVars>>

(***************************************************************************)
(* The wait ends at finaldeadline.  The loop still makes the transmit pass  *)
(* once more before it breaks.                                              *)
(***************************************************************************)
FinalTimeout(x) ==
    /\ Timeouts
    /\ call[x].pc = "wait" /\ ~call[x].done
    /\ call' = [call EXCEPT ![x].final = TRUE,
                            ![x].pc = IF Retrans /\ ChDead(x) THEN "transmit" ELSE "finish"]
    /\ UNCHANGED <<netVars, xid_, xid_rep_window, calls, chan, bind_done, srv_nonce,
                   dup_req, xid_rep_done, cancel>>

\* Faulty variant: ca.intret is returned whether or not ca.done is set.
ExitUnanswered(x) ==
    LET ret == IF call[x].done THEN call[x].ret ELSE "ok"
    IN  [call EXCEPT ![x].ret = ret, ![x].ch = NoConn,
                     ![x].final = FALSE, ![x].done = FALSE,
                     ![x].pc = IF call[x].hdr.proc = "bind" /\ ret = "ok"
                               THEN "bind" ELSE "returned"]

(***************************************************************************)
(* The end of call1, after the wait has found ca.done set or the loop has   *)
(* been left at the final deadline: leave calls_ and acknowledge the xid;   *)
(* then, under m_ once more and only under RPC_LOSSY, keep the request of  *)
(* an answered call for a later resend; drop the reference to the channel   *)
(* and return.                                                              *)
(***************************************************************************)
Exit(x) ==
    LET ret == IF call[x].done THEN call[x].ret ELSE "timeout_failure"
    IN  [call EXCEPT ![x].ret = ret, ![x].ch = NoConn,
                     ![x].final = FALSE, ![x].done = FALSE,
                     ![x].pc = IF call[x].hdr.proc = "bind" /\ ret = "ok"
                               THEN "bind" ELSE "returned"]

\* Faulty variant: the call is not taken out of calls_.
FinishKeep(x) ==
    /\ call[x].pc = "finish" \/ (call[x].pc = "wait" /\ call[x].done)
    /\ calls' = calls
    /\ xid_rep_window' = UpdateXidRep(xid_rep_window, x)
    /\ call' = IF call[x].done /\ Lossy
               THEN [call EXCEPT ![x].pc = "record"]
               ELSE Exit(x)
    /\ UNCHANGED <<netVars, xid_, chan, bind_done, srv_nonce, dup_req,
                   xid_rep_done, cancel>>

Finish(x) ==
    /\ call[x].pc = "finish" \/ (call[x].pc = "wait" /\ call[x].done)
    /\ calls' = calls \ {x}
    /\ xid_rep_window' = UpdateXidRep(xid_rep_window, x)
    /\ call' = IF call[x].done /\ Lossy
               THEN [call EXCEPT ![x].pc = "record"]
               ELSE Exit(x)
    /\ UNCHANGED <<netVars, xid_, chan, bind_done, srv_nonce, dup_req,
                   xid_rep_done, cancel>>

RecordDup(x) ==
    /\ call[x].pc = "record"
    /\ dup_req' = IF dup_req = {} THEN {call[x].hdr} ELSE dup_req
    /\ LET r == call[x].hdr.xid_rep
       IN  xid_rep_done' = IF r > xid_rep_done THEN r ELSE xid_rep_done
    /\ call' = Exit(x)
    /\ UNCHANGED <<netVars, xid_, xid_rep_window, calls, chan, bind_done, srv_nonce,
                   cancel>>

\* rpcc::bind records the server instance after its call has succeeded.
BindDone(x) ==
    /\ call[x].pc = "bind"
    /\ bind_done' = TRUE
    /\ srv_nonce' = call[x].nonce
    /\ call' = [call EXCEPT ![x].pc = "returned"]
    /\ UNCHANGED <<netVars, xid_, xid_rep_window, calls, chan, dup_req,
                   xid_rep_done, cancel>>

(***************************************************************************)
(* rpcc::got_pdu, on the PollMgr thread, under m_.  A reply acknowledges    *)
(* its xid whether or not a caller still waits for it.                      *)
(***************************************************************************)
GotReply(c) ==
    /\ c \notin cdead
    /\ \E r \in s2c[c] :
         /\ s2c' = [s2c EXCEPT ![c] = @ \ {r}]
         /\ xid_rep_window' = UpdateXidRep(xid_rep_window, r.xid)
         /\ call' = IF r.xid \in calls /\ ~call[r.xid].done
                    THEN [call EXCEPT ![r.xid].done = TRUE,
                                      ![r.xid].ret = r.ret,
                                      ![r.xid].nonce = r.nonce]
                    ELSE call
    /\ UNCHANGED <<link, cdead, sdead, c2s, xid_, calls, chan, bind_done, srv_nonce,
                   dup_req, xid_rep_done, cancel>>

(***************************************************************************)
(* rpcc::cancel: fail every outstanding call, then wait under               *)
(* destroy_wait_ until the last one has left calls_.  With no call          *)
(* outstanding it changes nothing; destroy_wait_ is never cleared, so after *)
(* it has been set the client accepts no further call.                      *)
(***************************************************************************)
Cancel ==
    /\ Cancels
    /\ cancel = "idle" /\ calls # {}
    /\ call' = [x \in Xid |-> IF x \in calls
                              THEN [call[x] EXCEPT !.done = TRUE, !.ret = "cancel_failure"]
                              ELSE call[x]]
    /\ cancel' = "waiting"
    /\ UNCHANGED <<netVars, xid_, xid_rep_window, calls, chan, bind_done, srv_nonce,
                   dup_req, xid_rep_done>>

CancelDone ==
    /\ cancel = "waiting" /\ calls = {}
    /\ cancel' = "done"
    /\ UNCHANGED <<netVars, xid_, xid_rep_window, calls, call, chan, bind_done,
                   srv_nonce, dup_req, xid_rep_done>>
=============================================================================
