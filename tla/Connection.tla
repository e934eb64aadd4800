----------------------------- MODULE Connection -----------------------------
(***************************************************************************)
(* connection (rpc/connection.cc): threads that send PDUs, the poll thread *)
(* that writes the rest of a long one and reads what arrives, and a thread *)
(* that closes connections (~tcpsconn).  An action is what happens under a *)
(* connection's m_.  A PDU is written in pieces; one that arrives has two, *)
(* its length and its body.  There is one connection per descriptor.       *)
(***************************************************************************)
EXTENDS PollMgr, Sequences

CONSTANTS Sender,    \* threads in connection::send
          Closer,    \* the thread in ~tcpsconn
          MaxSend,   \* bound: calls of send
          MaxSize,   \* pieces of the longest PDU that is sent
          Space,     \* pieces the socket buffer holds
          Lossy,     \* RPC_LOSSY is set: send may shut the stream down first
          MaxIn      \* bound: pieces that arrive on a connection

ASSUME ConnAssumption ==
    /\ Closer \notin Sender
    /\ Lossy \in BOOLEAN
    /\ MaxSend \in Nat /\ MaxSize \in Nat \ {0} /\ Space \in Nat \ {0} /\ MaxIn \in Nat

VARIABLES
    link,      \* the stream: up, at its end (the peer has closed it), or reset
    space,     \* free pieces of the socket buffer
    arrived,   \* pieces that have arrived
    unread,    \* those not yet read
    dead,      \* connections with dead_ set
    wpdu,      \* the PDU being written: its sender, and the pieces left
    rpdu,      \* the PDU being read: none, its length only, or complete
    eagain,    \* errno of the poll thread is EAGAIN
    thr,       \* where a thread is, on which connection, and the PDU's size
    nsend,     \* calls of send so far
    aborted,   \* a VERIFY has failed
    wire,      \* history: the pieces written, as sender, number and size
    closed,    \* history: connections that closeconn has made dead
    removed,   \* history: connections for which block_remove_fd has returned
    early      \* history: those where its wait ended for no reason

connVars == <<link, space, arrived, unread, dead, wpdu, rpdu, eagain, thr, nsend, aborted>>
historyVars == <<wire, closed, removed, early>>
vars == <<watchVars, pollVars, connVars, historyVars>>

Thread == Sender \cup {Closer}
NoPdu == [owner |-> Closer, left |-> 0]
Idle == [pc |-> "idle", fd |-> PipeFd, size |-> 0]
Piece == [owner : Sender, k : 1..MaxSize, size : 1..MaxSize]

ConnTypeOK ==
    /\ PollTypeOK(Thread)
    /\ link \in [Fd -> {"up", "eof", "reset"}]
    /\ space \in [Fd -> 0..Space]
    /\ arrived \in [Fd -> 0..MaxIn] /\ unread \in [Fd -> 0..MaxIn]
    /\ dead \subseteq Fd
    /\ wpdu \in [Fd -> [owner : Thread, left : 0..MaxSize]]
    /\ rpdu \in [Fd -> {"none", "length", "full"}]
    /\ eagain \in BOOLEAN
    /\ thr \in [Thread -> [pc : {"idle", "lock", "send_wait", "send_complete", "return",
                                 "remove", "removing"},
                           fd : Fd \cup {PipeFd}, size : 0..MaxSize]]
    /\ nsend \in 0..MaxSend
    /\ aborted \in BOOLEAN
    /\ wire \in [Fd -> Seq(Piece)]
    /\ closed \subseteq Fd /\ removed \subseteq Fd /\ early \subseteq Fd

Init ==
    /\ PollInit
    /\ link = [f \in Fd |-> "up"]
    /\ space = [f \in Fd |-> Space]
    /\ arrived = [f \in Fd |-> 0] /\ unread = [f \in Fd |-> 0]
    /\ dead = {}
    /\ wpdu = [f \in Fd |-> NoPdu]
    /\ rpdu = [f \in Fd |-> "none"]
    /\ eagain = FALSE
    /\ thr = [t \in Thread |-> Idle]
    /\ nsend = 0
    /\ aborted = FALSE
    /\ wire = [f \in Fd |-> <<>>]
    /\ closed = {} /\ removed = {} /\ early = {}

-----------------------------------------------------------------------------
(***************************************************************************)
(* The stream: data arrives, the peer reads what was written, the peer     *)
(* closes, and a reset follows when it is sent data nevertheless.          *)
(***************************************************************************)
Arrive(f) ==
    /\ link[f] = "up" /\ arrived[f] < MaxIn
    /\ arrived' = [arrived EXCEPT ![f] = @ + 1]
    /\ unread' = [unread EXCEPT ![f] = @ + 1]
    /\ UNCHANGED <<watchVars, pollVars, historyVars, link, space, dead, wpdu, rpdu,
                   eagain, thr, nsend, aborted>>

Drain(f) ==
    /\ link[f] = "up" /\ space[f] < Space
    /\ space' = [space EXCEPT ![f] = @ + 1]
    /\ UNCHANGED <<watchVars, pollVars, historyVars, link, arrived, unread, dead, wpdu,
                   rpdu, eagain, thr, nsend, aborted>>

PeerCloses(f) ==
    /\ link[f] = "up"
    /\ link' = [link EXCEPT ![f] = "eof"]
    /\ UNCHANGED <<watchVars, pollVars, historyVars, space, arrived, unread, dead, wpdu,
                   rpdu, eagain, thr, nsend, aborted>>

Reset(f) ==
    /\ link[f] = "up" \/ (link[f] = "eof" /\ space[f] < Space)
    /\ link' = [link EXCEPT ![f] = "reset"]
    /\ unread' = [unread EXCEPT ![f] = 0]
    /\ UNCHANGED <<watchVars, pollVars, historyVars, space, arrived, dead, wpdu, rpdu,
                   eagain, thr, nsend, aborted>>

Readable == {f \in Fd : unread[f] > 0 \/ link[f] # "up"}
Writable == {f \in Fd : space[f] > 0 \/ link[f] = "reset"}

-----------------------------------------------------------------------------
\* Faulty variant: a short write is taken for a whole one.
AcceptedAll(f, left) == left

\* The pieces that write() accepts of the left pieces of a PDU.
Accepted(f, left) == Min({left, space[f]})

\* writepdu on a stream that is not reset, for sender t with size pieces of
\* which left are left.
WritePdu(f, t, size, left) ==
    LET n == Accepted(f, left)
    IN  /\ link[f] # "reset"
        /\ space' = [space EXCEPT ![f] = @ - n]
        /\ wire' = [wire EXCEPT ![f] = @ \o
                      [i \in 1..n |-> [owner |-> t, k |-> size - left + i, size |-> size]]]

\* The threads after pthread_cond_broadcast(&send_wait_).
WakeSenders(f) ==
    [t \in Thread |-> IF thr[t].pc = "send_wait" /\ thr[t].fd = f
                      THEN [thr[t] EXCEPT !.pc = "lock"] ELSE thr[t]]

\* The threads after pthread_cond_signal(&send_complete_).
WakeOwner(f) ==
    [t \in Thread |-> IF thr[t].pc = "send_complete" /\ thr[t].fd = f
                      THEN [thr[t] EXCEPT !.pc = "return"] ELSE thr[t]]

Send(t, f, size) ==
    /\ thr[t].pc = "idle" /\ nsend < MaxSend
    /\ thr' = [thr EXCEPT ![t] = [pc |-> "lock", fd |-> f, size |-> size]]
    /\ nsend' = nsend + 1
    /\ UNCHANGED <<watchVars, pollVars, historyVars, link, space, arrived, unread, dead,
                   wpdu, rpdu, eagain, aborted>>

\* send on a dead connection, or while another PDU is being written.
SendRefused(t) ==
    LET f == thr[t].fd
    IN  /\ thr[t].pc = "lock"
        /\ \/ f \in dead /\ thr' = [thr EXCEPT ![t] = Idle]
           \/ /\ f \notin dead /\ wpdu[f] # NoPdu
              /\ thr' = [thr EXCEPT ![t].pc = "send_wait"]
        /\ UNCHANGED <<watchVars, pollVars, historyVars, link, space, arrived, unread, dead,
                       wpdu, rpdu, eagain, nsend, aborted>>

\* Faulty variant: a second sender does not wait for the first.
SendWholeHasty(t) ==
    LET f == thr[t].fd
    IN  /\ thr[t].pc = "lock" /\ f \notin dead
        /\ Accepted(f, thr[t].size) = thr[t].size
        /\ WritePdu(f, t, thr[t].size, thr[t].size)
        /\ thr' = [WakeSenders(f) EXCEPT ![t] = Idle]
        /\ UNCHANGED <<watchVars, pollVars, link, arrived, unread, dead, wpdu, rpdu, eagain,
                       nsend, aborted, closed, removed, early>>

\* send writes the whole PDU at once.
SendWhole(t) ==
    LET f == thr[t].fd
    IN  /\ thr[t].pc = "lock" /\ f \notin dead /\ wpdu[f] = NoPdu
        /\ Accepted(f, thr[t].size) = thr[t].size
        /\ WritePdu(f, t, thr[t].size, thr[t].size)
        /\ thr' = [WakeSenders(f) EXCEPT ![t] = Idle]
        /\ UNCHANGED <<watchVars, pollVars, link, arrived, unread, dead, wpdu, rpdu, eagain,
                       nsend, aborted, closed, removed, early>>

\* send writes a part or nothing: the poll thread does the rest.
SendPart(t) ==
    LET f == thr[t].fd
    IN  /\ thr[t].pc = "lock" /\ f \notin dead /\ wpdu[f] = NoPdu
        /\ Accepted(f, thr[t].size) < thr[t].size
        /\ WritePdu(f, t, thr[t].size, thr[t].size)
        /\ wpdu' = [wpdu EXCEPT ![f] =
                      [owner |-> t, left |-> thr[t].size - Accepted(f, thr[t].size)]]
        /\ AddCallback(f, CB_WRONLY)
        /\ thr' = [thr EXCEPT ![t].pc = "send_complete"]
        /\ UNCHANGED <<pollVars, link, arrived, unread, dead, rpdu, eagain, nsend, aborted,
                       closed, removed, early>>

\* The write fails: dead_ is set, and m_ is released for block_remove_fd.
SendFails(t) ==
    LET f == thr[t].fd
    IN  /\ thr[t].pc = "lock" /\ f \notin dead /\ wpdu[f] = NoPdu
        /\ link[f] = "reset" \/ Lossy
        /\ link' = [link EXCEPT ![f] = "reset"]
        /\ dead' = dead \cup {f}
        /\ wpdu' = [wpdu EXCEPT ![f] = [owner |-> t, left |-> 0]]
        /\ thr' = [thr EXCEPT ![t].pc = "remove"]
        /\ UNCHANGED <<watchVars, pollVars, historyVars, space, arrived, unread, rpdu,
                       eagain, nsend, aborted>>

\* Faulty variant: the threads that wait for their turn are not woken.
SendReturnSilent(t) ==
    LET f == thr[t].fd
    IN  /\ thr[t].pc = "return"
        /\ wpdu' = [wpdu EXCEPT ![f] = NoPdu]
        /\ thr' = [thr EXCEPT ![t] = Idle]
        /\ UNCHANGED <<watchVars, pollVars, historyVars, link, space, arrived, unread, dead,
                       rpdu, eagain, nsend, aborted>>

SendReturn(t) ==
    LET f == thr[t].fd
    IN  /\ thr[t].pc = "return"
        /\ wpdu' = [wpdu EXCEPT ![f] = NoPdu]
        /\ thr' = [WakeSenders(f) EXCEPT ![t] = Idle]
        /\ UNCHANGED <<watchVars, pollVars, historyVars, link, space, arrived, unread, dead,
                       rpdu, eagain, nsend, aborted>>

-----------------------------------------------------------------------------
\* closeconn makes a connection dead and shuts the stream down; nobody who
\* waits is signalled.
CloseConn(f) ==
    /\ thr[Closer].pc = "idle" /\ f \notin dead
    /\ dead' = dead \cup {f} /\ closed' = closed \cup {f}
    /\ link' = [link EXCEPT ![f] = "reset"]
    /\ unread' = [unread EXCEPT ![f] = 0]
    /\ thr' = [thr EXCEPT ![Closer] = [pc |-> "remove", fd |-> f, size |-> 0]]
    /\ UNCHANGED <<watchVars, pollVars, space, arrived, wpdu, rpdu, eagain, nsend, aborted,
                   wire, removed, early>>

\* block_remove_fd, for a send that has failed or for closeconn.
Remove(t) ==
    /\ thr[t].pc = "remove"
    /\ BlockRemoveWait(t, thr[t].fd)
    /\ thr' = [thr EXCEPT ![t].pc = "removing"]
    /\ UNCHANGED <<pollVars, historyVars, link, space, arrived, unread, dead, wpdu, rpdu,
                   eagain, nsend, aborted>>

Removed(t) ==
    /\ thr[t].pc = "removing"
    /\ BlockRemoveDone(t, thr[t].fd)
    /\ removed' = removed \cup {thr[t].fd}
    /\ thr' = [thr EXCEPT ![t] = IF t = Closer THEN Idle ELSE [@ EXCEPT !.pc = "return"]]
    /\ UNCHANGED <<pollVars, link, space, arrived, unread, dead, wpdu, rpdu, eagain, nsend,
                   aborted, wire, closed, early>>

\* pthread_cond_wait returns without a broadcast.
SpuriousWakeup(t) ==
    /\ t \in changedone
    /\ changedone' = changedone \ {t}
    /\ early' = early \cup {thr[t].fd}
    /\ UNCHANGED <<rfds, wfds, highfds, pipe, callbacks, pending_change, pollVars, connVars,
                   wire, closed, removed>>

-----------------------------------------------------------------------------
\* A failed callback: nobody watches f any more, it is dead, and the thread
\* that waits for its PDU to be written is woken.
Fails(f) ==
    /\ DelCallback(f, CB_RDWR)
    /\ dead' = dead \cup {f}
    /\ thr' = WakeOwner(f)

\* Faulty variant: the end of the stream always counts as "no data yet".
ReadBodyDeaf(f, n) ==
    CASE n > 0 -> [rpdu |-> "full", unread |-> n - 1, eagain |-> eagain]
      [] n = 0 /\ link[f] # "reset" ->
           [rpdu |-> "length", unread |-> 0, eagain |-> eagain \/ link[f] = "up"]
      [] n = 0 /\ link[f] = "reset" -> [rpdu |-> "none", unread |-> 0, eagain |-> FALSE]

\* readpdu after the length, with n pieces to read.  read() returns 0 at the
\* end of the stream and leaves errno as it was.
ReadBody(f, n) ==
    CASE n > 0 -> [rpdu |-> "full", unread |-> n - 1, eagain |-> eagain]
      [] n = 0 /\ link[f] = "up" -> [rpdu |-> "length", unread |-> 0, eagain |-> TRUE]
      [] n = 0 /\ link[f] = "eof" ->
           [rpdu |-> IF eagain THEN "length" ELSE "none", unread |-> 0, eagain |-> eagain]
      [] n = 0 /\ link[f] = "reset" -> [rpdu |-> "none", unread |-> 0, eagain |-> FALSE]

\* What readpdu can make of rpdu: none, which is a failure (the stream is over,
\* or the length is cut short or more than MAX_PDU), its length, or all of it.
ReadPdu(f) ==
    CASE rpdu[f] = "full" -> {[rpdu |-> "full", unread |-> unread[f], eagain |-> eagain]}
      [] rpdu[f] = "length" -> {ReadBody(f, unread[f])}
      [] rpdu[f] = "none" ->
           {[rpdu |-> "none", unread |-> unread[f], eagain |-> eagain /\ link[f] # "reset"]}
             \cup (IF unread[f] > 0 THEN {ReadBody(f, unread[f] - 1)} ELSE {})

\* The PDU, once complete, is offered to got_pdu, which may refuse it.
ReadCb(f) ==
    /\ poll = [pc |-> "read_cb", fd |-> f]
    /\ \/ f \in dead /\ UNCHANGED <<watchVars, dead, thr, rpdu, unread, eagain>>
       \/ /\ f \notin dead
          /\ \E r \in ReadPdu(f) :
               /\ unread' = [unread EXCEPT ![f] = r.unread]
               /\ eagain' = r.eagain
               /\ \E p \in {r.rpdu} \cup (IF r.rpdu = "full" THEN {"none"} ELSE {}) :
                    rpdu' = [rpdu EXCEPT ![f] = p]
               /\ IF r.rpdu = "none" THEN Fails(f) ELSE UNCHANGED <<watchVars, dead, thr>>
    /\ CallbackReturns
    /\ UNCHANGED <<historyVars, link, space, arrived, wpdu, nsend, aborted>>

\* write_cb when there is nothing to write, or the write fails.
WriteCbStops(f) ==
    /\ poll = [pc |-> "write_cb", fd |-> f] /\ f \notin dead
    /\ \/ wpdu[f] = NoPdu /\ DelCallback(f, CB_WRONLY) /\ UNCHANGED <<dead, thr, wpdu, eagain>>
       \/ /\ wpdu[f].left > 0 /\ link[f] = "reset"
          /\ Fails(f)
          /\ wpdu' = [wpdu EXCEPT ![f].left = 0]
          /\ eagain' = FALSE
    /\ CallbackReturns
    /\ UNCHANGED <<historyVars, link, space, arrived, unread, rpdu, nsend, aborted>>

\* write_cb writes what it can; the sender is woken when nothing is left.
WriteCb(f) ==
    LET w == wpdu[f]
        left == w.left - Accepted(f, w.left)
    IN  /\ poll = [pc |-> "write_cb", fd |-> f] /\ f \notin dead
        /\ w # NoPdu
        /\ WritePdu(f, w.owner, thr[w.owner].size, w.left)
        /\ wpdu' = [wpdu EXCEPT ![f].left = left]
        /\ eagain' = (eagain \/ (w.left > 0 /\ left = w.left))
        /\ thr' = IF left = 0 THEN WakeOwner(f) ELSE thr
        /\ CallbackReturns
        /\ UNCHANGED <<watchVars, link, arrived, unread, dead, rpdu, nsend, aborted, closed,
                       removed, early>>

\* write_cb asserts that the connection is not dead.
WriteCbAborts(f) ==
    /\ poll = [pc |-> "write_cb", fd |-> f] /\ f \in dead
    /\ aborted' = TRUE
    /\ UNCHANGED <<watchVars, pollVars, historyVars, link, space, arrived, unread, dead, wpdu,
                   rpdu, eagain, thr, nsend>>

-----------------------------------------------------------------------------
PollLoop == /\ PollTop \/ PollCopy \/ PollSelect(Readable, Writable) \/ PollCall
            /\ UNCHANGED <<connVars, historyVars>>

PollStep == PollLoop \/ \E f \in Fd : ReadCb(f) \/ WriteCbStops(f) \/ WriteCb(f) \/ WriteCbAborts(f)

SendStep(t) == SendRefused(t) \/ SendWhole(t) \/ SendPart(t) \/ SendFails(t) \/ SendReturn(t)

RemoveStep(t) == Remove(t) \/ Removed(t)

Stream(f) == Arrive(f) \/ Drain(f) \/ PeerCloses(f) \/ Reset(f)

Next ==
    /\ ~aborted
    /\ \/ PollStep
       \/ \E t \in Sender : SendStep(t) \/ \E f \in Fd, n \in 1..MaxSize : Send(t, f, n)
       \/ \E t \in Thread : RemoveStep(t) \/ SpuriousWakeup(t)
       \/ \E f \in Fd : Stream(f) \/ CloseConn(f)

(***************************************************************************)
(* The threads are scheduled, a peer that is up reads, and one that has    *)
(* closed answers data with a reset.  Nobody has to send, close or break a *)
(* connection.                                                             *)
(***************************************************************************)
Fairness ==
    /\ WF_vars(~aborted /\ PollStep)
    /\ \A t \in Thread : WF_vars(~aborted /\ (SendStep(t) \/ RemoveStep(t)))
    /\ \A f \in Fd : /\ WF_vars(~aborted /\ Drain(f))
                     /\ WF_vars(~aborted /\ link[f] = "eof" /\ Reset(f))

Spec == Init /\ [][Next]_vars /\ Fairness

-----------------------------------------------------------------------------
(***************************************************************************)
(* connection.cc:78, "after block_remove_fd, select will never wait on fd_ *)
(* and no callbacks will be active": true once it has returned, unless its *)
(* wait, which is not in a loop, has ended early.                          *)
(***************************************************************************)
RemovedIsQuiet ==
    \A f \in removed \ early :
        /\ f \notin rfds \cup wfds \cup callbacks
        /\ poll.fd # f

(***************************************************************************)
(* The bytes of two PDUs are never mixed on a stream, however the senders  *)
(* and the poll thread interleave: what follows a piece is the next piece  *)
(* of its PDU, or its PDU is complete and another one begins.              *)
(***************************************************************************)
PdusWhole ==
    \A f \in Fd : \A i \in 1..Len(wire[f]) - 1 :
        LET p == wire[f][i]
            q == wire[f][i + 1]
        IN  IF p.k = p.size THEN q.k = 1
            ELSE q.owner = p.owner /\ q.size = p.size /\ q.k = p.k + 1

(***************************************************************************)
(* VERIFY(!dead_) of write_cb fails only in the window in which a failed   *)
(* send or closeconn has set dead_ and block_remove_fd has not returned.   *)
(***************************************************************************)
AbortIsRace ==
    aborted => \/ poll.fd \in early
               \/ \E t \in Thread : thr[t].pc \in {"remove", "removing"} /\ thr[t].fd = poll.fd

(***************************************************************************)
(* rpc.cc:12, send() "blocks until data is sent or the connection has      *)
(* failed": every call of send returns, unless closeconn closed the        *)
(* connection under it (it wakes nobody) or an assertion failed.           *)
(***************************************************************************)
SendReturns ==
    \A t \in Sender : \A f \in Fd :
        thr[t].pc # "idle" /\ thr[t].fd = f ~> thr[t].pc = "idle" \/ f \in closed \/ aborted

(***************************************************************************)
(* A stream that is over makes its connection dead, unless read_cb is deaf *)
(* to it for ever: it mistakes the end of the stream inside a PDU for data *)
(* that has not come yet (a stale EAGAIN), or got_pdu refuses a PDU.       *)
(***************************************************************************)
Deaf(f) == (rpdu[f] = "length" /\ eagain) \/ rpdu[f] = "full"

BreakNoticed ==
    \A f \in Fd :
        \/ link[f] # "up" ~> f \in dead \/ aborted
        \/ <>[]Deaf(f)
=============================================================================
