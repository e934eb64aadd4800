------------------------------- MODULE RpcNet -------------------------------
(***************************************************************************)
(* The communication channel of the RPC library: the connection objects    *)
(* that the two ends of a TCP stream keep (rpc/connection.cc) and the      *)
(* stream itself, which is external.                                       *)
(*                                                                         *)
(* A connection is numbered in the order in which it is made.  Each end    *)
(* has its own dead_ flag and learns of a broken stream by itself, when a  *)
(* read or a write fails, so the two ends may disagree for a while.  The   *)
(* PDUs in transit on a connection are a set: they are read in order, but  *)
(* requests are handed to a pool of dispatch threads that may overtake     *)
(* one another before they take the first lock.                            *)
(***************************************************************************)
EXTENDS Naturals

CONSTANTS MaxXid,      \* bound: number of calls a client may make
          MaxConn,     \* bound: number of connections that are ever made
          MaxNonce,    \* bound: number of server instances
          Retrans      \* rpcc's retrans_; without it clt_nonce_ is 0

ASSUME BoundsAssumption ==
    /\ MaxXid \in Nat \ {0}
    /\ MaxConn \in Nat
    /\ MaxNonce \in Nat \ {0}
    /\ Retrans \in BOOLEAN

Xid == 1..MaxXid
Conn == 1..MaxConn
NoConn == 0                  \* a NULL connection pointer
Nonce == 1..MaxNonce         \* rpcs::nonce_; 0 is a client's unbound srv_nonce_
Proc == {"bind", "app"}      \* rpc_const::bind or a registered handler

Request == [xid : Xid, proc : Proc, srv_nonce : {0} \cup Nonce, xid_rep : Nat]

Outcome == {"ok", "atmostonce_failure", "oldsrv_failure"}
Reply == [xid : Xid, ret : Outcome, nonce : {0} \cup Nonce]

VARIABLES
    link,    \* the TCP stream of a connection: unused, up or broken
    cdead,   \* connections whose client-side object has dead_ set
    sdead,   \* connections whose server-side object has dead_ set
    c2s,     \* request PDUs sent and not yet dispatched
    s2c      \* reply PDUs sent and not yet received

netVars == <<link, cdead, sdead, c2s, s2c>>

NetTypeOK ==
    /\ link \in [Conn -> {"unused", "up", "broken"}]
    /\ cdead \in SUBSET Conn
    /\ sdead \in SUBSET Conn
    /\ c2s \in [Conn -> SUBSET Request]
    /\ s2c \in [Conn -> SUBSET Reply]

NetInit ==
    /\ link = [c \in Conn |-> "unused"]
    /\ cdead = {}
    /\ sdead = {}
    /\ c2s = [c \in Conn |-> {}]
    /\ s2c = [c \in Conn |-> {}]

-----------------------------------------------------------------------------
\* connect_to_dst succeeds, and the listener makes the other end.
Connect(c) == link' = [link EXCEPT ![c] = "up"]

(***************************************************************************)
(* connection::send, seen from one end.  On a dead connection it returns   *)
(* false.  On a broken stream the write either fails, which sets dead_, or *)
(* is still accepted by the local kernel and lost.                         *)
(***************************************************************************)
SendRequest(c, pdus) ==
    \/ /\ c \notin cdead /\ link'[c] = "up"
       /\ c2s' = [c2s EXCEPT ![c] = @ \cup pdus]
       /\ UNCHANGED <<cdead, s2c>>
    \/ /\ link'[c] = "broken"
       /\ UNCHANGED <<cdead, c2s, s2c>>
    \/ /\ c \notin cdead /\ link'[c] = "broken"
       /\ cdead' = cdead \cup {c}
       /\ s2c' = [s2c EXCEPT ![c] = {}]
       /\ c2s' = c2s

SendReply(c, pdu) ==
    \/ /\ c \notin sdead /\ link[c] = "up"
       /\ s2c' = [s2c EXCEPT ![c] = @ \cup {pdu}]
       /\ sdead' = sdead
    \/ /\ link[c] = "broken"
       /\ UNCHANGED <<sdead, s2c>>
    \/ /\ c \notin sdead /\ link[c] = "broken"
       /\ sdead' = sdead \cup {c}
       /\ s2c' = s2c

(***************************************************************************)
(* The stream breaks: the network fails, or a lossy send shuts it down.    *)
(***************************************************************************)
Break(c) ==
    /\ link[c] = "up"
    /\ link' = [link EXCEPT ![c] = "broken"]
    /\ UNCHANGED <<cdead, sdead, c2s, s2c>>

(***************************************************************************)
(* connection::read_cb finds the stream ended: dead_ is set and nothing    *)
(* more is read.  At the server, the requests read before are still        *)
(* dispatched and the others are lost.                                     *)
(***************************************************************************)
ClientReadFails(c) ==
    /\ link[c] = "broken" /\ c \notin cdead
    /\ cdead' = cdead \cup {c}
    /\ s2c' = [s2c EXCEPT ![c] = {}]
    /\ UNCHANGED <<link, sdead, c2s>>

ServerReadFails(c) ==
    /\ link[c] = "broken" /\ c \notin sdead
    /\ sdead' = sdead \cup {c}
    /\ \E read \in SUBSET c2s[c] : c2s' = [c2s EXCEPT ![c] = read]
    /\ UNCHANGED <<link, cdead, s2c>>
=============================================================================
