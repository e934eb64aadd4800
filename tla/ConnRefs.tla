------------------------------ MODULE ConnRefs ------------------------------
(***************************************************************************)
(* The reference counts of the connections of a server: the listener       *)
(* (tcpsconn) accepts connections, collects the dead ones and closes all   *)
(* of them in its destructor; the poll thread makes jobs of their PDUs;    *)
(* the threads of the pool run rpcs::dispatch on the jobs and remember the *)
(* client's latest connection.  A step is what a thread does under one     *)
(* acquisition of m_, ref_m_ or conss_m_; where one of these is taken      *)
(* while another is held, the step ends there.  There is one client, with  *)
(* a nonce.  block_remove_fd does what RemovedIsQuiet of Connection says;  *)
(* send writes its PDU at once or fails.                                   *)
(***************************************************************************)
EXTENDS Naturals, FiniteSets, FiniteSetsExt

CONSTANTS Worker,     \* the threads of dispatchpool_
          Listener,   \* the thread of tcpsconn, then the one in ~tcpsconn
          Poll,       \* the thread of PollMgr
          MaxConn,    \* bound: connections that are accepted
          MaxPdu,     \* bound: PDUs that arrive
          MaxQueue    \* jobs that the queue of the pool holds

ASSUME RefAssumption ==
    /\ Listener # Poll /\ Listener \notin Worker /\ Poll \notin Worker /\ IsFiniteSet(Worker)
    /\ MaxConn \in Nat /\ MaxPdu \in Nat /\ MaxQueue \in Nat \ {0}

VARIABLES
    naccept,     \* connections so far: connection c is the c-th to be made
    refno,       \* refno_
    dead,        \* connections with dead_ set
    freed,       \* connections that have been deleted
    watched,     \* those that the poll thread may call back
    conns,       \* conns_ of tcpsconn
    todo,        \* those of them that process_accept has yet to look at
    latest,      \* conns_[clt_nonce] of rpcs
    reachable,   \* reachable_
    queued,      \* jobs in the queue of the pool: the number and connection of a PDU
    npdu,        \* PDUs so far
    at,          \* where a thread is: the connection c it works on, and the
                 \* connection d it drops a reference to, to go on at then
    leaked,      \* history: references dropped without a decref
    raced        \* history: a job was deleted while it was queued

vars == <<naccept, refno, dead, freed, watched, conns, todo, latest, reachable, queued,
          npdu, at, leaked, raced>>

Conn == 1..MaxConn
NoConn == 0
Thread == Worker \cup {Listener, Poll}
Pc == {"idle", "listen", "gc", "gcref", "close", "done", "read_cb", "got", "add", "sendold",
       "register", "newlatest", "check", "choose", "switch", "send", "remove", "decref", "zero"}

Job == (1..MaxPdu) \X Conn
JobsOn(c) == {j \in queued : j[2] = c}

At(pc, c) == [pc |-> pc, c |-> c, d |-> NoConn, then |-> "idle"]

RefTypeOK ==
    /\ naccept \in 0..MaxConn
    /\ refno \in [Conn -> Nat]
    /\ dead \subseteq 1..naccept /\ freed \subseteq dead /\ watched \subseteq 1..naccept
    /\ conns \subseteq 1..naccept /\ todo \subseteq conns
    /\ latest \in 0..naccept
    /\ reachable \in BOOLEAN /\ raced \in BOOLEAN
    /\ queued \subseteq Job /\ Cardinality(queued) <= MaxQueue
    /\ npdu \in 0..MaxPdu
    /\ at \in [Thread -> [pc : Pc, c : 0..MaxConn, d : 0..MaxConn, then : Pc]]
    /\ leaked \in [Conn -> Nat]

Init ==
    /\ naccept = 0
    /\ refno = [c \in Conn |-> 0]
    /\ dead = {} /\ freed = {} /\ watched = {} /\ conns = {} /\ todo = {}
    /\ latest = NoConn
    /\ reachable = TRUE
    /\ queued = {}
    /\ npdu = 0
    /\ at = [t \in Thread |-> At(IF t = Listener THEN "listen" ELSE "idle", NoConn)]
    /\ leaked = [c \in Conn |-> 0]
    /\ raced = FALSE

-----------------------------------------------------------------------------
(***************************************************************************)
(* The locks.  read_cb holds m_ during got_pdu; decref holds ref_m_ while  *)
(* it waits for m_; dispatch holds conss_m_ while it exchanges references. *)
(***************************************************************************)
MHeld(c) == \/ at[Poll].c = c /\ at[Poll].pc \in {"got", "add"}
            \/ at[Poll].d = c /\ at[Poll].pc \in {"decref", "zero"}
RefMHeld(c) == \E t \in Thread : at[t].pc = "zero" /\ at[t].d = c
ConssMHeld == \E w \in Worker : {at[w].pc, at[w].then} \cap {"newlatest", "switch"} # {}

Goto(t, pc) == at' = [at EXCEPT ![t].pc = pc]

\* t is to drop its reference to d, and keeps c.
Drop(t, d, c, then) == at' = [at EXCEPT ![t] = [pc |-> "decref", c |-> c, d |-> d, then |-> then]]

Incref(c) == ~RefMHeld(c) /\ refno' = [refno EXCEPT ![c] = @ + 1]

Decref(t) ==
    LET d == at[t].d
    IN  /\ at[t].pc = "decref" /\ ~RefMHeld(d)
        /\ refno' = [refno EXCEPT ![d] = @ - 1]
        /\ at' = [at EXCEPT ![t] = IF refno[d] = 1 THEN [@ EXCEPT !.pc = "zero"] ELSE At(@.then, @.c)]
        /\ UNCHANGED <<naccept, dead, freed, watched, conns, todo, latest, reachable, queued,
                       npdu, leaked, raced>>

\* Faulty variant: the last reference does not delete the connection.
DecrefZeroKeeps(t) ==
    LET d == at[t].d
    IN  /\ at[t].pc = "zero" /\ ~MHeld(d)
        /\ at' = [at EXCEPT ![t] = At(@.then, @.c)]
        /\ UNCHANGED <<naccept, refno, dead, freed, watched, conns, todo, latest, reachable,
                       queued, npdu, leaked, raced>>

\* decref at zero, once it has m_.
DecrefZero(t) ==
    LET d == at[t].d
    IN  /\ at[t].pc = "zero" /\ ~MHeld(d)
        /\ freed' = IF d \in dead THEN freed \cup {d} ELSE freed
        /\ at' = [at EXCEPT ![t] = At(@.then, @.c)]
        /\ UNCHANGED <<naccept, refno, dead, watched, conns, todo, latest, reachable, queued,
                       npdu, leaked, raced>>

\* Faulty variant: the poll thread is not waited for.
BlockRemoveHasty(t) ==
    LET c == at[t].c
    IN  /\ at[t].pc = "remove"
        /\ watched' = watched \ {c}
        /\ IF at[t].then = "sendold" THEN Goto(t, "sendold")
           ELSE Drop(t, c, NoConn, at[t].then)
        /\ UNCHANGED <<naccept, refno, dead, freed, conns, todo, latest, reachable, queued,
                       npdu, leaked, raced>>

\* block_remove_fd, after which a send or closeconn goes on: the poll thread
\* has gone round and calls c back no more.
BlockRemove(t) ==
    LET c == at[t].c
    IN  /\ at[t].pc = "remove" /\ at[Poll].pc = "idle"
        /\ watched' = watched \ {c}
        /\ IF at[t].then = "sendold" THEN Goto(t, "sendold")
           ELSE Drop(t, c, NoConn, at[t].then)
        /\ UNCHANGED <<naccept, refno, dead, freed, conns, todo, latest, reachable, queued,
                       npdu, leaked, raced>>

-----------------------------------------------------------------------------
(***************************************************************************)
(* The listener: process_accept makes a connection, collects the dead ones *)
(* that nobody else refers to, and enters the new one.                     *)
(***************************************************************************)
Accept ==
    /\ at[Listener].pc = "listen" /\ naccept < MaxConn
    /\ naccept' = naccept + 1
    /\ refno' = [refno EXCEPT ![naccept'] = 1]
    /\ watched' = watched \cup {naccept'}
    /\ conns' = conns \cup {naccept'}
    /\ todo' = conns
    /\ Goto(Listener, "gc")
    /\ UNCHANGED <<dead, freed, latest, reachable, queued, npdu, leaked, raced>>

\* The next connection: isdead() is asked first.
GcIsDead ==
    /\ at[Listener].pc = "gc"
    /\ \/ todo = {} /\ Goto(Listener, "listen") /\ todo' = todo
       \/ \E c \in todo :
            /\ c = Min(todo) /\ ~MHeld(c)
            /\ todo' = todo \ {c}
            /\ at' = IF c \in dead THEN [at EXCEPT ![Listener] = At("gcref", c)] ELSE at
    /\ UNCHANGED <<naccept, refno, dead, freed, watched, conns, latest, reachable, queued,
                   npdu, leaked, raced>>

\* then ref(), and the only reference is dropped.
GcRef ==
    LET c == at[Listener].c
    IN  /\ at[Listener].pc = "gcref" /\ ~RefMHeld(c)
        /\ IF refno[c] = 1
           THEN Drop(Listener, c, NoConn, "gc") /\ conns' = conns \ {c}
           ELSE at' = [at EXCEPT ![Listener] = At("gc", NoConn)] /\ conns' = conns
        /\ UNCHANGED <<naccept, refno, dead, freed, watched, todo, latest, reachable, queued,
                       npdu, leaked, raced>>

\* Faulty variant: a connection is not closed before its reference is dropped.
CloseNextOpen ==
    /\ at[Listener].pc = "close"
    /\ \/ conns = {} /\ Goto(Listener, "done") /\ conns' = conns /\ dead' = dead
       \/ \E c \in conns :
            /\ c = Min(conns)
            /\ conns' = conns \ {c} /\ dead' = dead
            /\ Drop(Listener, c, NoConn, "close")
    /\ UNCHANGED <<naccept, refno, freed, watched, todo, latest, reachable, queued, npdu,
                   leaked, raced>>

\* ~tcpsconn: closeconn, which does nothing to a dead connection, and decref.
CloseNext ==
    /\ at[Listener].pc = "close"
    /\ \/ conns = {} /\ Goto(Listener, "done") /\ conns' = conns /\ dead' = dead
       \/ \E c \in conns :
            /\ c = Min(conns) /\ ~MHeld(c)
            /\ conns' = conns \ {c} /\ dead' = dead \cup {c}
            /\ IF c \in dead THEN Drop(Listener, c, NoConn, "close")
               ELSE at' = [at EXCEPT ![Listener] =
                             [pc |-> "remove", c |-> c, d |-> NoConn, then |-> "close"]]
    /\ UNCHANGED <<naccept, refno, freed, watched, todo, latest, reachable, queued, npdu,
                   leaked, raced>>

\* ~rpcs deletes the listener, whose thread ends.
Close ==
    /\ at[Listener].pc = "listen"
    /\ Goto(Listener, "close")
    /\ UNCHANGED <<naccept, refno, dead, freed, watched, conns, todo, latest, reachable,
                   queued, npdu, leaked, raced>>

-----------------------------------------------------------------------------
\* The poll thread calls back a connection.
PollCall(c) ==
    /\ at[Poll].pc = "idle" /\ c \in watched
    /\ at' = [at EXCEPT ![Poll] = At("read_cb", c)]
    /\ UNCHANGED <<naccept, refno, dead, freed, watched, conns, todo, latest, reachable,
                   queued, npdu, leaked, raced>>

\* read_cb on a connection that is dead or turns out to be.
ReadCbDead ==
    /\ at[Poll].pc = "read_cb"
    /\ dead' = dead \cup {at[Poll].c}
    /\ watched' = IF at[Poll].c \in dead THEN watched ELSE watched \ {at[Poll].c}
    /\ at' = [at EXCEPT ![Poll] = At("idle", NoConn)]
    /\ UNCHANGED <<naccept, refno, freed, conns, todo, latest, reachable, queued, npdu,
                   leaked, raced>>

\* read_cb has a PDU and enters got_pdu, with m_ held.
ReadCb ==
    /\ at[Poll].pc = "read_cb" /\ at[Poll].c \notin dead /\ npdu < MaxPdu
    /\ npdu' = npdu + 1
    /\ at' = [at EXCEPT ![Poll] = IF reachable THEN At("got", @.c) ELSE At("idle", NoConn)]
    /\ UNCHANGED <<naccept, refno, dead, freed, watched, conns, todo, latest, reachable,
                   queued, leaked, raced>>

GotPdu ==
    /\ at[Poll].pc = "got"
    /\ Incref(at[Poll].c)
    /\ Goto(Poll, "add")
    /\ UNCHANGED <<naccept, dead, freed, watched, conns, todo, latest, reachable, queued,
                   npdu, leaked, raced>>

\* Faulty variant: one job too many.
QueueFullLate == Cardinality(queued) > MaxQueue

QueueFull == Cardinality(queued) >= MaxQueue

\* got_pdu with the answer of addObjJob.  It deletes a job that was accepted
\* if reachable_ has changed meanwhile.
AddJob ==
    LET c == at[Poll].c
    IN  /\ at[Poll].pc = "add"
        /\ \/ /\ QueueFull
              /\ Drop(Poll, c, NoConn, "idle")
              /\ UNCHANGED <<queued, raced>>
           \/ /\ ~QueueFull
              /\ queued' = queued \cup {<<npdu, c>>}
              /\ raced' = ~reachable
              /\ IF reachable THEN at' = [at EXCEPT ![Poll] = At("idle", NoConn)]
                 ELSE Drop(Poll, c, NoConn, "idle")
        /\ UNCHANGED <<naccept, refno, dead, freed, watched, conns, todo, latest, reachable,
                       npdu, leaked>>

SetReachable ==
    /\ reachable' = ~reachable
    /\ UNCHANGED <<naccept, refno, dead, freed, watched, conns, todo, latest, queued, npdu,
                   at, leaked, raced>>

-----------------------------------------------------------------------------
(***************************************************************************)
(* rpcs::dispatch.  A request is malformed, for an old instance of the     *)
(* server, or its connection is compared with the client's latest one.     *)
(***************************************************************************)
Dispatch(w, job) ==
    /\ at[w].pc = "idle"
    /\ queued' = queued \ {job}
    /\ \/ Drop(w, job[2], NoConn, "idle")
       \/ \E pc \in {"sendold", "register"} : at' = [at EXCEPT ![w] = At(pc, job[2])]
    /\ UNCHANGED <<naccept, refno, dead, freed, watched, conns, todo, latest, reachable,
                   npdu, leaked, raced>>

\* The answer to a request for an old instance; the reference is not dropped.
SendOld(w) ==
    LET c == at[w].c
    IN  /\ at[w].pc = "sendold" /\ ~MHeld(c)
        /\ \/ /\ leaked' = [leaked EXCEPT ![c] = @ + 1]
              /\ at' = [at EXCEPT ![w] = At("idle", NoConn)]
              /\ dead' = dead
           \/ /\ c \notin dead
              /\ dead' = dead \cup {c} /\ leaked' = leaked
              /\ at' = [at EXCEPT ![w].pc = "remove", ![w].then = "sendold"]
        /\ UNCHANGED <<naccept, refno, freed, watched, conns, todo, latest, reachable, queued,
                       npdu, raced>>

\* "save the latest good connection to the client"; an older one is dropped.
Register(w) ==
    LET c == at[w].c
    IN  /\ at[w].pc = "register" /\ ~ConssMHeld
        /\ \/ latest = NoConn /\ Goto(w, "newlatest") /\ latest' = latest
           \/ /\ latest # NoConn /\ latest < c
              /\ Drop(w, latest, c, "newlatest") /\ latest' = NoConn
           \/ latest >= c /\ Goto(w, "check") /\ latest' = latest
        /\ UNCHANGED <<naccept, refno, dead, freed, watched, conns, todo, reachable, queued,
                       npdu, leaked, raced>>

\* Faulty variant: the connection is remembered without a reference.
NewLatestUncounted(w) ==
    /\ at[w].pc = "newlatest"
    /\ refno' = refno
    /\ latest' = at[w].c
    /\ Goto(w, "check")
    /\ UNCHANGED <<naccept, dead, freed, watched, conns, todo, reachable, queued, npdu,
                   leaked, raced>>

NewLatest(w) ==
    /\ at[w].pc = "newlatest"
    /\ Incref(at[w].c)
    /\ latest' = at[w].c
    /\ Goto(w, "check")
    /\ UNCHANGED <<naccept, dead, freed, watched, conns, todo, reachable, queued, npdu,
                   leaked, raced>>

\* INPROGRESS, DONE or FORGOTTEN, or NEW and the handler has run.
Check(w) ==
    /\ at[w].pc = "check"
    /\ \/ Drop(w, at[w].c, NoConn, "idle")
       \/ Goto(w, "send")
       \/ Goto(w, "choose")
    /\ UNCHANGED <<naccept, refno, dead, freed, watched, conns, todo, latest, reachable,
                   queued, npdu, leaked, raced>>

\* "get the latest connection to the client" for the reply, if c is dead.
Choose(w) ==
    LET c == at[w].c
    IN  /\ at[w].pc = "choose" /\ ~ConssMHeld /\ ~MHeld(c)
        /\ IF c \in dead /\ c # latest THEN Drop(w, c, NoConn, "switch") ELSE Goto(w, "send")
        /\ UNCHANGED <<naccept, refno, dead, freed, watched, conns, todo, latest, reachable,
                       queued, npdu, leaked, raced>>

Switch(w) ==
    /\ at[w].pc = "switch"
    /\ Incref(latest)
    /\ at' = [at EXCEPT ![w] = At("send", latest)]
    /\ UNCHANGED <<naccept, dead, freed, watched, conns, todo, latest, reachable, queued,
                   npdu, leaked, raced>>

\* send returns at once, or fails and removes the callbacks; then the job's
\* reference is dropped.
Send(w) ==
    LET c == at[w].c
    IN  /\ at[w].pc = "send" /\ ~MHeld(c)
        /\ \/ Drop(w, c, NoConn, "idle") /\ dead' = dead
           \/ /\ c \notin dead
              /\ dead' = dead \cup {c}
              /\ Goto(w, "remove")
        /\ UNCHANGED <<naccept, refno, freed, watched, conns, todo, latest, reachable, queued,
                       npdu, leaked, raced>>

-----------------------------------------------------------------------------
Next ==
    /\ ~raced
    /\ \/ Accept \/ GcIsDead \/ GcRef \/ Close \/ CloseNext
       \/ (\E c \in Conn : PollCall(c)) \/ ReadCbDead \/ ReadCb \/ GotPdu \/ AddJob \/ SetReachable
       \/ \E w \in Worker : \/ \E job \in queued : Dispatch(w, job)
                            \/ SendOld(w) \/ Register(w) \/ NewLatest(w) \/ Check(w)
                            \/ Choose(w) \/ Switch(w) \/ Send(w)
       \/ \E t \in Thread : Decref(t) \/ DecrefZero(t) \/ BlockRemove(t)

Spec == Init /\ [][Next]_vars

-----------------------------------------------------------------------------
One(P) == IF P THEN 1 ELSE 0

\* The references to c that threads and tables hold.
Holders(c) ==
    One(c \in conns) + One(latest = c) + Cardinality(JobsOn(c))
    + Cardinality({w \in Worker : at[w].c = c})
    + One(at[Listener].pc = "remove" /\ at[Listener].c = c)
    + One(at[Poll].pc = "add" /\ at[Poll].c = c)
    + Cardinality({t \in Thread : at[t].pc = "decref" /\ at[t].d = c})

(***************************************************************************)
(* refno_ counts exactly the references that somebody holds and the ones   *)
(* that dispatch forgets when it answers a request for an old instance.    *)
(***************************************************************************)
RefExact == ~raced => \A c \in Conn : refno[c] = Holders(c) + leaked[c]

(***************************************************************************)
(* "delete this" of decref: no thread works on, no table refers to, and    *)
(* the poll thread no longer calls back a connection that was deleted.     *)
(***************************************************************************)
NoUseAfterFree ==
    ~raced => \A c \in freed :
        /\ c \notin conns \cup todo \cup watched \cup {latest}
        /\ JobsOn(c) = {}
        /\ \A t \in Thread : at[t].c # c /\ (at[t].pc \in {"decref", "zero"} => at[t].d # c)

(***************************************************************************)
(* decref takes ref_m_ and then m_, read_cb takes m_ and then, in got_pdu, *)
(* ref_m_: the two never wait for each other, nor does the poll thread for *)
(* itself, since the listener's reference outlives the last callback.      *)
(***************************************************************************)
NoLockCycle ==
    \A t \in Thread : at[t].pc = "zero" => ~MHeld(at[t].d)

(***************************************************************************)
(* When ~tcpsconn is done and the pool has drained, every connection is    *)
(* deleted, except the client's latest one, which the table of rpcs keeps  *)
(* for ever, and those with a forgotten reference.                         *)
(***************************************************************************)
Drained == /\ at[Listener].pc = "done"
           /\ \A t \in Thread \ {Listener} : at[t].pc = "idle"
           /\ queued = {}

AllFreed ==
    Drained /\ ~raced => freed = {c \in 1..naccept : c # latest /\ leaked[c] = 0}
=============================================================================
