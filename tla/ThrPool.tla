------------------------------ MODULE ThrPool -------------------------------
(***************************************************************************)
(* The dispatch pool of rpcs (rpc/thr_pool.cc over rpc/fifo.h): a bounded  *)
(* queue of jobs between the PollMgr thread, which reads the PDUs of the   *)
(* connections and does not wait when the queue is full, and the worker    *)
(* threads, which may have to wait until their reply is sent.  Deleting    *)
(* the rpcs closes the connections and feeds every worker a poison pill.   *)
(* Each action is what happens under fifo's m_, or under that of a         *)
(* connection; pthread_cond_signal wakes one of the sleepers, and a        *)
(* sleeper may also wake for no reason.                                    *)
(***************************************************************************)
EXTENDS Naturals, Sequences, FiniteSets

CONSTANTS Thread,      \* the worker threads
          Source,      \* the connections
          MaxPdu,      \* bound: PDUs that arrive on a connection
          max_         \* capacity of the queue: 100 times the threads in the code

ASSUME PoolAssumption ==
    /\ IsFiniteSet(Thread) /\ Thread # {}
    /\ IsFiniteSet(Source) /\ Source # {}
    /\ MaxPdu \in Nat
    /\ max_ \in Nat \ {0}

VARIABLES
    q_,        \* the queue
    thr,       \* the worker threads
    dtor,      \* the thread that deletes the rpcs, from ~ThrPool on
    pills,     \* the pills it has queued
    unread,    \* PDUs of a connection that are still to be read
    rpdu,      \* the PDU a connection has read and not yet handed over, or 0
    closed,    \* the connections that ~tcpsconn has closed
    blocked,   \* <<t, c>>: thread t is asleep in send() of connection c
    accepted,  \* history: the jobs that addJob has accepted
    ran        \* history: how often a job has run

vars == <<q_, thr, dtor, pills, unread, rpdu, closed, blocked, accepted, ran>>

Job == Source \X (1..MaxPdu)
Pill == <<"pill", 0>>          \* a job_t whose f is NULL
Awake == [pc |-> "take", job |-> Pill]

PoolTypeOK ==
    /\ q_ \in Seq(Job \cup {Pill}) /\ Len(q_) <= max_
    /\ thr \in [Thread -> [pc : {"take", "asleep", "run", "send", "exited"}, job : Job \cup {Pill}]]
    /\ dtor \in {"idle", "enq", "asleep", "join", "done"}
    /\ pills \in 0..Cardinality(Thread)
    /\ unread \in [Source -> 0..MaxPdu]
    /\ rpdu \in [Source -> 0..MaxPdu]
    /\ closed \in SUBSET Source
    /\ blocked \in SUBSET (Thread \X Source)
    /\ accepted \in SUBSET Job
    /\ ran \in [Job -> Nat]

Init ==
    /\ q_ = <<>>
    /\ thr = [t \in Thread |-> Awake]
    /\ dtor = "idle"
    /\ pills = 0
    /\ unread = [c \in Source |-> MaxPdu]
    /\ rpdu = [c \in Source |-> 0]
    /\ closed = {}
    /\ blocked = {}
    /\ accepted = {}
    /\ ran = [j \in Job |-> 0]

-----------------------------------------------------------------------------
\* The threads after pthread_cond_signal(&non_empty_c_).
Asleep == {t \in Thread : thr[t].pc = "asleep"}
SignalNonEmpty ==
    \/ Asleep = {} /\ thr' = thr
    \/ \E t \in Asleep : thr' = [thr EXCEPT ![t].pc = "take"]

\* Faulty variant: the capacity is checked off by one.
HasSpaceOffByOne == Len(q_) <= max_

HasSpace == Len(q_) < max_

\* Faulty variant: no thread is woken.
EnqSilent(j) ==
    /\ q_' = Append(q_, j)
    /\ thr' = thr

\* fifo::enq when there is space.
Enq(j) ==
    /\ q_' = Append(q_, j)
    /\ SignalNonEmpty

\* rpcs::got_pdu offers PDU k of connection c to the pool; when the queue is
\* full addJob does not block and the PDU stays in rpdu_.
GotPdu(c, k) ==
    \/ /\ HasSpace
       /\ Enq(<<c, k>>)
       /\ accepted' = accepted \cup {<<c, k>>}
       /\ rpdu' = [rpdu EXCEPT ![c] = 0]
    \/ /\ ~HasSpace
       /\ rpdu' = [rpdu EXCEPT ![c] = k]
       /\ UNCHANGED <<q_, thr, accepted>>

(***************************************************************************)
(* connection::read_cb on a readable connection: read a PDU unless one is  *)
(* still held, and offer it to rpcs::got_pdu.  A PDU that is refused is    *)
(* offered again when the connection is next readable.                     *)
(***************************************************************************)
\* Faulty variant: a PDU that is held is not offered again.
ReadCbOnce(c) ==
    /\ c \notin closed /\ unread[c] > 0
    /\ rpdu[c] = 0
    /\ unread' = [unread EXCEPT ![c] = @ - 1]
    /\ GotPdu(c, MaxPdu - unread[c] + 1)
    /\ UNCHANGED <<dtor, pills, closed, blocked, ran>>

ReadCb(c) ==
    /\ c \notin closed /\ unread[c] > 0
    /\ \/ /\ rpdu[c] = 0
          /\ unread' = [unread EXCEPT ![c] = @ - 1]
          /\ GotPdu(c, MaxPdu - unread[c] + 1)
       \/ /\ rpdu[c] # 0
          /\ unread' = unread
          /\ GotPdu(c, rpdu[c])
    /\ UNCHANGED <<dtor, pills, closed, blocked, ran>>

-----------------------------------------------------------------------------
\* fifo::deq finds the queue empty: wait on non_empty_c_.
DeqWait(t) ==
    /\ thr[t].pc = "take" /\ q_ = <<>>
    /\ thr' = [thr EXCEPT ![t].pc = "asleep"]
    /\ UNCHANGED <<q_, dtor, pills, unread, rpdu, closed, blocked, accepted, ran>>

\* Faulty variant: the youngest job is taken.
TakeJobNewest(t) ==
    /\ thr[t].pc = "take" /\ q_ # <<>>
    /\ LET j == q_[Len(q_)]
       IN  thr' = [thr EXCEPT ![t] = [pc |-> IF j = Pill THEN "exited" ELSE "run", job |-> j]]
    /\ q_' = SubSeq(q_, 1, Len(q_) - 1)
    /\ dtor' = IF dtor = "asleep" /\ Len(q_') < max_ THEN "enq" ELSE dtor
    /\ UNCHANGED <<pills, unread, rpdu, closed, blocked, accepted, ran>>

\* Faulty variant: has_space_c_ is not signalled.
TakeJobSilent(t) ==
    /\ thr[t].pc = "take" /\ q_ # <<>>
    /\ LET j == Head(q_)
       IN  thr' = [thr EXCEPT ![t] = [pc |-> IF j = Pill THEN "exited" ELSE "run", job |-> j]]
    /\ q_' = Tail(q_)
    /\ UNCHANGED <<dtor, pills, unread, rpdu, closed, blocked, accepted, ran>>

\* takeJob: fifo::deq of the front, which signals has_space_c_; a pill ends
\* the thread.
TakeJob(t) ==
    /\ thr[t].pc = "take" /\ q_ # <<>>
    /\ LET j == Head(q_)
       IN  thr' = [thr EXCEPT ![t] = [pc |-> IF j = Pill THEN "exited" ELSE "run", job |-> j]]
    /\ q_' = Tail(q_)
    /\ dtor' = IF dtor = "asleep" /\ Len(q_') < max_ THEN "enq" ELSE dtor
    /\ UNCHANGED <<pills, unread, rpdu, closed, blocked, accepted, ran>>

\* The connections over which dispatch may answer job j, that of its request
\* or, when it is dead, the latest one of its client; send() refuses a dead one.
ReplyTo(j) == {c \in Source \ closed : c = j[1] \/ j[1] \in closed}

\* do_worker runs the job: dispatch calls the handler and sends the reply, if
\* there is one, and waits in send() when the stream is full or in use.
RunJob(t) ==
    /\ thr[t].pc = "run"
    /\ ran' = [ran EXCEPT ![thr[t].job] = @ + 1]
    /\ \/ thr' = [thr EXCEPT ![t] = Awake] /\ blocked' = blocked
       \/ \E c \in ReplyTo(thr[t].job) :
             /\ thr' = [thr EXCEPT ![t].pc = "send"]
             /\ blocked' = blocked \cup {<<t, c>>}
    /\ UNCHANGED <<q_, dtor, pills, unread, rpdu, closed, accepted>>

SendReturns(t, c) ==
    /\ thr[t].pc = "send" /\ <<t, c>> \in blocked
    /\ thr' = [thr EXCEPT ![t] = Awake]
    /\ blocked' = blocked \ {<<t, c>>}

\* A sender is woken: its PDU is sent, or the stream has broken.  closeconn
\* signals neither send_wait_ nor send_complete_, and once the callbacks are
\* gone nobody else does.
SendEnds(t) ==
    /\ \E c \in Source \ closed : SendReturns(t, c)
    /\ UNCHANGED <<q_, dtor, pills, unread, rpdu, closed, accepted, ran>>

\* pthread_cond_wait returns without a signal; a sender looks at dead_.
SpuriousWakeup ==
    /\ \/ /\ \E t \in Asleep : thr' = [thr EXCEPT ![t].pc = "take"]
          /\ UNCHANGED <<dtor, blocked>>
       \/ dtor = "asleep" /\ dtor' = "enq" /\ UNCHANGED <<thr, blocked>>
       \/ (\E t \in Thread, c \in closed : SendReturns(t, c)) /\ dtor' = dtor
    /\ UNCHANGED <<q_, pills, unread, rpdu, closed, accepted, ran>>

-----------------------------------------------------------------------------
(***************************************************************************)
(* ~rpcs: ~tcpsconn closes the connections one by one, so that no further  *)
(* callback comes from them and threads asleep in their send() stay so,    *)
(* and ~ThrPool queues a pill for each thread, waiting for space, and      *)
(* joins the threads.                                                      *)
(***************************************************************************)
CloseConn(c) ==
    /\ dtor = "idle" /\ c \notin closed
    /\ closed' = closed \cup {c}
    /\ unread' = [unread EXCEPT ![c] = 0]
    /\ rpdu' = [rpdu EXCEPT ![c] = 0]
    /\ dtor' = IF closed' = Source THEN "enq" ELSE dtor
    /\ UNCHANGED <<q_, thr, pills, blocked, accepted, ran>>

EnqPill ==
    /\ dtor = "enq"
    /\ IF HasSpace
       THEN /\ Enq(Pill)
            /\ pills' = pills + 1
            /\ dtor' = IF pills' = Cardinality(Thread) THEN "join" ELSE "enq"
       ELSE /\ dtor' = "asleep"
            /\ UNCHANGED <<q_, thr, pills>>
    /\ UNCHANGED <<unread, rpdu, closed, blocked, accepted, ran>>

Join ==
    /\ dtor = "join"
    /\ \A t \in Thread : thr[t].pc = "exited"
    /\ dtor' = "done"
    /\ UNCHANGED <<q_, thr, pills, unread, rpdu, closed, blocked, accepted, ran>>

Worker(t) == DeqWait(t) \/ TakeJob(t) \/ RunJob(t)

Next ==
    \/ \E c \in Source : ReadCb(c) \/ CloseConn(c)
    \/ \E t \in Thread : Worker(t) \/ SendEnds(t)
    \/ SpuriousWakeup
    \/ EnqPill
    \/ Join

(***************************************************************************)
(* Threads that can run do so eventually, handlers return, and select      *)
(* reports a readable connection again and again.  A client reads its      *)
(* replies or its connection breaks, so that a send ends unless closeconn  *)
(* comes first.  Nothing obliges the application to delete its rpcs, but   *)
(* once it has begun it goes on.                                           *)
(***************************************************************************)
Spec ==
    /\ Init
    /\ [][Next]_vars
    /\ \A c \in Source : /\ WF_vars(ReadCb(c))
                         /\ WF_vars(closed # {} /\ CloseConn(c))
    /\ \A t \in Thread : WF_vars(Worker(t)) /\ WF_vars(SendEnds(t))
    /\ WF_vars(EnqPill)
    /\ WF_vars(Join)

-----------------------------------------------------------------------------
\* A job runs at most once, and when ~ThrPool returns every job that addJob
\* has accepted has run: no worker takes a pill ahead of a job, and no thread
\* is left behind.
AcceptedHaveRun ==
    /\ \A j \in Job : ran[j] <= IF j \in accepted THEN 1 ELSE 0
    /\ dtor = "done" => q_ = <<>> /\ \A j \in accepted : ran[j] = 1

\* Threads that only a spurious wake-up can free.
Stranded == {t \in Thread : \E c \in closed : <<t, c>> \in blocked}

\* A job that addJob has accepted is run: the signals of fifo, which wake one
\* sleeper each, are enough, and one thread that closeconn has not stranded is.
AcceptedRuns ==
    \A j \in Job : \/ j \in accepted ~> ran[j] > 0
                  \/ <>[](Stranded = Thread)

\* Once ~rpcs has begun it returns, also when there are more threads to poison
\* than places in the queue, unless a thread that was in send() of a connection
\* when closeconn closed it is never woken: ~ThrPool then waits for it for ever.
DestructorReturns ==
    \/ closed # {} ~> dtor = "done"
    \/ <>[](Stranded # {})

\* A connection is read to its end: a PDU refused by a full queue holds up the
\* ones behind it for a while only.
ReaderCatchesUp == \A c \in Source : unread[c] > 0 ~> unread[c] = 0
=============================================================================
