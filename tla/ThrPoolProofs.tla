--------------------------- MODULE ThrPoolProofs ----------------------------
(***************************************************************************)
(* The proof that ThrPool runs every job it has accepted exactly once, for *)
(* every number of threads, connections and PDUs and every capacity of the *)
(* queue.  PoolInv is the inductive invariant: a job is in one place only, *)
(* and the pills that are in the queue are its last elements.              *)
(***************************************************************************)
EXTENDS ThrPool, FiniteSetTheorems, SequenceTheorems, TLAPS

Exited == {t \in Thread : thr[t].pc = "exited"}

\* The pills that no thread has taken yet.
Left == pills - Cardinality(Exited)

(***************************************************************************)
(* The pills come after the jobs, so that a thread ends only when no job   *)
(* is left in the queue.                                                   *)
(***************************************************************************)
PillsLast ==
    /\ Left \in 0..Len(q_)
    /\ \A i \in 1..Len(q_) : q_[i] = Pill <=> i > Len(q_) - Left
    /\ Exited # {} => Left = Len(q_)

\* ~ThrPool begins when the connections are closed, and has not queued its
\* last pill while it still queues pills.
DtorInv ==
    /\ dtor # "idle" => closed = Source
    /\ dtor = "idle" => pills = 0
    /\ dtor \in {"idle", "enq", "asleep"} => pills < Cardinality(Thread)
    /\ dtor = "done" => Exited = Thread

\* A job that the pool does not have yet: it is unread or held in rpdu_.
OfferInv ==
    \A c \in Source \ closed :
        /\ \A k \in 1..MaxPdu : k > MaxPdu - unread[c] => <<c, k>> \notin accepted
        /\ rpdu[c] # 0 => <<c, rpdu[c]>> \notin accepted
        /\ rpdu[c] <= MaxPdu - unread[c]

Running(t) == thr[t].pc = "run"

\* An accepted job is in the queue, with one thread, or has run.
JobInv ==
    /\ \A i \in 1..Len(q_) : q_[i] # Pill =>
          /\ q_[i] \in accepted /\ ran[q_[i]] = 0
          /\ \A k \in 1..Len(q_) : q_[k] = q_[i] => k = i
    /\ \A t \in Thread : Running(t) =>
          /\ thr[t].job \in accepted /\ ran[thr[t].job] = 0
          /\ \A i \in 1..Len(q_) : q_[i] # thr[t].job
          /\ \A u \in Thread : Running(u) /\ thr[u].job = thr[t].job => u = t
    /\ \A j \in accepted : \/ ran[j] = 1
                           \/ \E i \in 1..Len(q_) : q_[i] = j
                           \/ \E t \in Thread : Running(t) /\ thr[t].job = j
    /\ \A j \in Job : ran[j] <= IF j \in accepted THEN 1 ELSE 0

PoolInv == PoolTypeOK /\ PillsLast /\ DtorInv /\ OfferInv /\ JobInv

-----------------------------------------------------------------------------
ThreadState == [pc : {"take", "asleep", "run", "send", "exited"}, job : Job \cup {Pill}]

LEMMA PillIsNoJob == Pill \notin Job
  BY PoolAssumption DEF Pill, Job

LEMMA ThreadSets ==
  /\ Cardinality(Thread) \in Nat \ {0}
  /\ \A S \in SUBSET Thread : /\ IsFiniteSet(S) /\ Cardinality(S) \in Nat
                              /\ Cardinality(S) <= Cardinality(Thread)
  BY PoolAssumption, FS_CardinalityType, FS_Subset, FS_EmptySet

\* A signal changes nothing but whether a thread sleeps.
LEMMA Woken ==
  ASSUME PoolTypeOK, SignalNonEmpty
  PROVE  /\ thr' \in [Thread -> ThreadState]
         /\ \A t \in Thread : /\ thr'[t].job = thr[t].job
                              /\ thr'[t].pc = "run" <=> thr[t].pc = "run"
                              /\ thr'[t].pc = "exited" <=> thr[t].pc = "exited"
<1>1. thr \in [Thread -> ThreadState]
  BY DEF PoolTypeOK, ThreadState
<1>2. CASE thr' = thr
  BY <1>1, <1>2
<1>3. CASE \E t \in Asleep : thr' = [thr EXCEPT ![t].pc = "take"]
  <2>1. PICK t \in Thread : thr[t].pc = "asleep" /\ thr' = [thr EXCEPT ![t].pc = "take"]
    BY <1>3 DEF Asleep
  <2>2. [thr[t] EXCEPT !.pc = "take"] = [pc |-> "take", job |-> thr[t].job]
    BY <1>1 DEF ThreadState
  <2>3. /\ \A u \in Thread : u # t => thr'[u] = thr[u]
        /\ thr'[t] = [pc |-> "take", job |-> thr[t].job]
        /\ thr' = [thr EXCEPT ![t] = [pc |-> "take", job |-> thr[t].job]]
    BY <1>1, <2>1, <2>2
  <2>4. [pc |-> "take", job |-> thr[t].job] \in ThreadState
    BY <1>1 DEF ThreadState
  <2>5. thr' \in [Thread -> ThreadState]
    BY <1>1, <2>3, <2>4
  <2>6. thr'[t].job = thr[t].job /\ thr'[t].pc = "take" /\ thr[t].pc = "asleep"
    BY <2>1, <2>3
  <2> QED
    BY <2>3, <2>5, <2>6
<1> QED
  BY <1>2, <1>3 DEF SignalNonEmpty

\* enq puts j behind what is in the queue.
LEMMA Enqueued ==
  ASSUME PoolTypeOK, HasSpace, NEW j \in Job \cup {Pill}, Enq(j)
  PROVE  /\ q_' \in Seq(Job \cup {Pill}) /\ Len(q_) \in Nat
         /\ Len(q_') = Len(q_) + 1 /\ Len(q_') <= max_
         /\ q_'[Len(q_) + 1] = j
         /\ \A i \in 1..Len(q_) : q_'[i] = q_[i]
<1>1. q_ \in Seq(Job \cup {Pill}) /\ q_' = Append(q_, j) /\ max_ \in Nat /\ Len(q_) < max_
  BY PoolAssumption DEF PoolTypeOK, Enq, HasSpace
<1> QED
  BY <1>1

\* deq takes the first element off the queue.
LEMMA Dequeued ==
  ASSUME PoolTypeOK, q_ # <<>>, q_' = Tail(q_)
  PROVE  /\ q_' \in Seq(Job \cup {Pill}) /\ Len(q_) \in Nat \ {0}
         /\ Len(q_') = Len(q_) - 1 /\ Len(q_') <= max_
         /\ Head(q_) = q_[1] /\ q_[1] \in Job \cup {Pill}
         /\ \A i \in 1..Len(q_') : q_'[i] = q_[i + 1]
<1>1. q_ \in Seq(Job \cup {Pill}) /\ max_ \in Nat /\ Len(q_) <= max_
  BY PoolAssumption DEF PoolTypeOK
<1>2. Len(q_) \in Nat \ {0}
  BY <1>1, EmptySeq
<1>3. /\ Tail(q_) \in Seq(Job \cup {Pill}) /\ Len(Tail(q_)) = Len(q_) - 1
      /\ \A i \in 1..Len(Tail(q_)) : Tail(q_)[i] = q_[i + 1]
  BY <1>1, HeadTailProperties
<1>4. Head(q_) = q_[1] /\ q_[1] \in Job \cup {Pill}
  BY <1>1, <1>2
<1> QED
  BY <1>1, <1>2, <1>3, <1>4

-----------------------------------------------------------------------------
LEMMA InitPoolInv == Init => PoolInv
<1> SUFFICES ASSUME Init PROVE PoolInv
  OBVIOUS
<1>1. PoolTypeOK
  <2>1. Cardinality(Thread) \in Nat /\ MaxPdu \in Nat /\ max_ \in Nat
    BY PoolAssumption, ThreadSets
  <2>2. thr \in [Thread -> ThreadState]
    BY DEF Init, Awake, ThreadState
  <2>3. q_ \in Seq(Job \cup {Pill}) /\ Len(q_) = 0
    BY EmptySeq DEF Init
  <2>4. /\ pills \in 0..Cardinality(Thread) /\ accepted \in SUBSET Job
        /\ unread \in [Source -> 0..MaxPdu] /\ rpdu \in [Source -> 0..MaxPdu]
        /\ ran \in [Job -> Nat] /\ closed \in SUBSET Source
        /\ blocked \in SUBSET (Thread \X Source)
    BY <2>1 DEF Init
  <2> QED
    BY <2>1, <2>2, <2>3, <2>4 DEF Init, PoolTypeOK, ThreadState
<1>2. Exited = {} /\ Cardinality(Exited) = 0 /\ Len(q_) = 0 /\ Left = 0
  <2>1. Exited = {}
    BY DEF Init, Awake, Exited
  <2>2. Len(q_) = 0 /\ pills = 0
    BY EmptySeq DEF Init
  <2> QED
    BY <2>1, <2>2, FS_EmptySet DEF Left
<1>3. PillsLast /\ DtorInv
  BY <1>2, ThreadSets DEF PillsLast, DtorInv, Init
<1>4. OfferInv
  BY PoolAssumption DEF OfferInv, Init
<1>5. JobInv
  BY <1>2 DEF JobInv, Running, Init, Awake
<1> QED
  BY <1>1, <1>3, <1>4, <1>5 DEF PoolInv

-----------------------------------------------------------------------------
\* The threads that have exited are the same when no thread takes a pill.
LEMMA SameExited ==
  ASSUME \A t \in Thread : thr'[t].pc = "exited" <=> thr[t].pc = "exited"
  PROVE  Exited' = Exited
  BY DEF Exited

\* A job is accepted: a connection is open, so that ~ThrPool has not begun.
LEMMA AddJob ==
  ASSUME PoolInv, NEW c \in Source \ closed, NEW k \in 1..MaxPdu,
         <<c, k>> \notin accepted, HasSpace, Enq(<<c, k>>),
         accepted' = accepted \cup {<<c, k>>},
         UNCHANGED <<dtor, pills, closed, ran>>
  PROVE  PillsLast' /\ DtorInv' /\ JobInv'
<1> DEFINE j == <<c, k>>
<1>1. j \in Job /\ j # Pill /\ j \notin accepted
  BY PillIsNoJob DEF Job
<1> HIDE DEF j
<1>2. PoolTypeOK /\ PillsLast /\ DtorInv /\ JobInv /\ Enq(j) /\ SignalNonEmpty
  BY DEF PoolInv, Enq, j
<1>3. /\ Len(q_) \in Nat /\ Len(q_') = Len(q_) + 1 /\ q_'[Len(q_) + 1] = j
      /\ \A i \in 1..Len(q_) : q_'[i] = q_[i]
  BY <1>1, <1>2, Enqueued
<1>4. \A t \in Thread : /\ thr'[t].job = thr[t].job
                        /\ thr'[t].pc = "run" <=> thr[t].pc = "run"
                        /\ thr'[t].pc = "exited" <=> thr[t].pc = "exited"
  BY <1>2, Woken
<1>5. Exited' = Exited
  BY <1>4, SameExited
<1>6. dtor = "idle" /\ pills = 0 /\ closed # Source
  BY <1>2 DEF DtorInv
<1>7. Exited = {} /\ Cardinality(Exited) = 0 /\ Left = 0
  <2>1. Exited \in SUBSET Thread /\ IsFiniteSet(Exited) /\ Cardinality(Exited) \in Nat
    BY ThreadSets DEF Exited
  <2>2. 0 - Cardinality(Exited) \in 0..Len(q_)
    BY <1>2, <1>6 DEF PillsLast, Left
  <2> QED
    BY <2>1, <2>2, <1>3, <1>6, FS_EmptySet DEF Left
<1>8. PillsLast'
  <2>1. Left' = 0 /\ Exited' = {}
    BY <1>5, <1>6, <1>7 DEF Left
  <2>2. \A i \in 1..Len(q_) : q_[i] # Pill
    BY <1>2, <1>3, <1>7 DEF PillsLast
  <2>3. \A i \in 1..Len(q_') : q_'[i] # Pill
    BY <2>2, <1>1, <1>3
  <2> QED
    BY <2>1, <2>3, <1>3 DEF PillsLast
<1>9. DtorInv'
  BY <1>2, <1>5, <1>6 DEF DtorInv
<1>10. JobInv'
  <2>1. ran[j] = 0 /\ ran' = ran /\ accepted' = accepted \cup {j} /\ ran \in [Job -> Nat]
    BY <1>1, <1>2 DEF JobInv, PoolTypeOK, j
  <2>2. \A i \in 1..Len(q_') : q_'[i] # Pill =>
          /\ q_'[i] \in accepted' /\ ran'[q_'[i]] = 0
          /\ \A m \in 1..Len(q_') : q_'[m] = q_'[i] => m = i
    <3>1. \A i \in 1..Len(q_) : q_[i] # j
      BY <1>1, <1>2 DEF JobInv
    <3>2. \A i \in 1..Len(q_) : q_[i] # Pill =>
             /\ q_[i] \in accepted /\ ran[q_[i]] = 0
             /\ \A m \in 1..Len(q_) : q_[m] = q_[i] => m = i
      BY <1>2 DEF JobInv
    <3>3. \A i \in 1..Len(q_') : i \in 1..Len(q_) \/ i = Len(q_) + 1
      BY <1>3
    <3> QED
      BY <1>3, <2>1, <3>1, <3>2, <3>3
  <2>3. \A t \in Thread : Running(t)' =>
          /\ thr'[t].job \in accepted' /\ ran'[thr'[t].job] = 0
          /\ \A i \in 1..Len(q_') : q_'[i] # thr'[t].job
          /\ \A u \in Thread : Running(u)' /\ thr'[u].job = thr'[t].job => u = t
    <3>1. \A t \in Thread : Running(t)' <=> Running(t)
      BY <1>4 DEF Running
    <3>2. \A t \in Thread : Running(t) =>
             /\ thr[t].job \in accepted /\ ran[thr[t].job] = 0
             /\ \A i \in 1..Len(q_) : q_[i] # thr[t].job
             /\ \A u \in Thread : Running(u) /\ thr[u].job = thr[t].job => u = t
      BY <1>2 DEF JobInv
    <3>3. \A i \in 1..Len(q_') : i \in 1..Len(q_) \/ i = Len(q_) + 1
      BY <1>3
    <3> QED
      BY <1>1, <1>3, <1>4, <2>1, <3>1, <3>2, <3>3
  <2>4. \A x \in accepted' : \/ ran'[x] = 1
                             \/ \E i \in 1..Len(q_') : q_'[i] = x
                             \/ \E t \in Thread : Running(t)' /\ thr'[t].job = x
    <3>1. \A i \in 1..Len(q_) : i \in 1..Len(q_')
      BY <1>3
    <3>2. Len(q_) + 1 \in 1..Len(q_')
      BY <1>3
    <3> QED
      BY <1>2, <1>3, <1>4, <2>1, <3>1, <3>2 DEF JobInv, Running
  <2>5. \A x \in Job : ran'[x] <= IF x \in accepted' THEN 1 ELSE 0
    BY <1>2, <2>1 DEF JobInv
  <2> QED
    BY <2>2, <2>3, <2>4, <2>5 DEF JobInv
<1> QED
  BY <1>8, <1>9, <1>10

\* A PDU is read, or the one that is held is offered again.
LEMMA ReadCbStep ==
  ASSUME PoolInv, NEW c \in Source, ReadCb(c)
  PROVE  PoolInv'
<1>1. PoolTypeOK /\ PillsLast /\ DtorInv /\ OfferInv /\ JobInv
  BY DEF PoolInv
<1>2. MaxPdu \in Nat /\ max_ \in Nat
  BY PoolAssumption
<1>3. /\ c \notin closed /\ unread[c] \in 1..MaxPdu /\ rpdu[c] \in 0..MaxPdu
      /\ UNCHANGED <<dtor, pills, closed, blocked, ran>>
  BY <1>1, <1>2 DEF ReadCb, PoolTypeOK
<1>4. PICK k \in 1..MaxPdu :
        /\ GotPdu(c, k)
        /\ <<c, k>> \notin accepted
        /\ \/ /\ unread' = [unread EXCEPT ![c] = @ - 1]
              /\ k = MaxPdu - unread[c] + 1
           \/ unread' = unread /\ k = rpdu[c] /\ k <= MaxPdu - unread[c]
  <2>1. CASE rpdu[c] = 0
    <3>1. MaxPdu - unread[c] + 1 \in 1..MaxPdu /\ MaxPdu - unread[c] + 1 > MaxPdu - unread[c]
      BY <1>2, <1>3
    <3>2. <<c, MaxPdu - unread[c] + 1>> \notin accepted
      BY <1>1, <1>3, <3>1 DEF OfferInv
    <3>3. unread' = [unread EXCEPT ![c] = @ - 1] /\ GotPdu(c, MaxPdu - unread[c] + 1)
      BY <2>1 DEF ReadCb
    <3> QED
      BY <3>1, <3>2, <3>3
  <2>2. CASE rpdu[c] # 0
    <3>1. unread' = unread /\ GotPdu(c, rpdu[c])
      BY <2>2 DEF ReadCb
    <3>2. rpdu[c] \in 1..MaxPdu
      BY <1>2, <1>3, <2>2
    <3> QED
      BY <1>1, <1>3, <2>2, <3>1, <3>2 DEF OfferInv
  <2> QED
    BY <2>1, <2>2
<1>5. /\ unread' \in [Source -> 0..MaxPdu] /\ unread'[c] <= unread[c]
      /\ \A d \in Source : d # c => unread'[d] = unread[d]
      /\ MaxPdu - unread'[c] >= k
      /\ \A m \in 1..MaxPdu : m > MaxPdu - unread'[c] => m # k /\ m > MaxPdu - unread[c]
  <2>1. unread \in [Source -> 0..MaxPdu]
    BY <1>1 DEF PoolTypeOK
  <2>2. CASE unread' = unread /\ k = rpdu[c] /\ k <= MaxPdu - unread[c]
    BY <1>2, <1>3, <2>1, <2>2
  <2>3. CASE unread' = [unread EXCEPT ![c] = @ - 1] /\ k = MaxPdu - unread[c] + 1
    <3>1. unread'[c] = unread[c] - 1 /\ unread[c] - 1 \in 0..MaxPdu
      BY <1>2, <1>3, <2>1, <2>3
    <3> QED
      BY <1>2, <1>3, <2>1, <2>3, <3>1
  <2> QED
    BY <1>4, <2>2, <2>3
<1>6. <<c, k>> \in Job /\ <<c, k>> # Pill
  BY PillIsNoJob DEF Job
<1>7. CASE /\ HasSpace /\ Enq(<<c, k>>)
           /\ accepted' = accepted \cup {<<c, k>>}
           /\ rpdu' = [rpdu EXCEPT ![c] = 0]
  <2>1. PillsLast' /\ DtorInv' /\ JobInv'
    BY <1>3, <1>4, <1>7, AddJob
  <2>2. rpdu' \in [Source -> 0..MaxPdu] /\ rpdu'[c] = 0 /\ \A d \in Source : d # c => rpdu'[d] = rpdu[d]
    BY <1>1, <1>2, <1>7 DEF PoolTypeOK
  <2>3. OfferInv'
    <3> SUFFICES ASSUME NEW d \in Source \ closed
                 PROVE  /\ \A m \in 1..MaxPdu : m > MaxPdu - unread'[d] => <<d, m>> \notin accepted'
                        /\ rpdu'[d] # 0 => <<d, rpdu'[d]>> \notin accepted'
                        /\ rpdu'[d] <= MaxPdu - unread'[d]
      BY <1>3 DEF OfferInv
    <3>1. CASE d = c
      <4>1. \A m \in 1..MaxPdu : m > MaxPdu - unread[c] => <<c, m>> \notin accepted
        BY <1>1, <1>3 DEF OfferInv
      <4>2. \A m : m # k => <<c, m>> # <<c, k>>
        OBVIOUS
      <4>3. 0 <= MaxPdu - unread'[c]
        BY <1>2, <1>5
      <4> QED
        BY <1>5, <1>7, <2>2, <3>1, <4>1, <4>2, <4>3
    <3>2. CASE d # c
      <4>1. \A m : <<d, m>> # <<c, k>>
        BY <3>2
      <4> QED
        BY <1>1, <1>3, <1>5, <1>7, <2>2, <3>2, <4>1 DEF OfferInv
    <3> QED
      BY <3>1, <3>2
  <2>4. PoolTypeOK'
    <3>1. q_' \in Seq(Job \cup {Pill}) /\ Len(q_') <= max_
      BY <1>1, <1>6, <1>7, Enqueued
    <3>2. thr' \in [Thread -> ThreadState]
      BY <1>1, <1>7, Woken DEF Enq
    <3>3. accepted' \in SUBSET Job
      BY <1>1, <1>6, <1>7 DEF PoolTypeOK
    <3> QED
      BY <1>1, <1>3, <1>5, <2>2, <3>1, <3>2, <3>3 DEF PoolTypeOK, ThreadState
  <2> QED
    BY <2>1, <2>3, <2>4 DEF PoolInv
<1>8. CASE ~HasSpace /\ rpdu' = [rpdu EXCEPT ![c] = k] /\ UNCHANGED <<q_, thr, accepted>>
  <2>1. /\ rpdu' \in [Source -> 0..MaxPdu] /\ rpdu'[c] = k
        /\ \A d \in Source : d # c => rpdu'[d] = rpdu[d]
    BY <1>1, <1>2, <1>8 DEF PoolTypeOK
  <2>2. OfferInv'
    <3> SUFFICES ASSUME NEW d \in Source \ closed
                 PROVE  /\ \A m \in 1..MaxPdu : m > MaxPdu - unread'[d] => <<d, m>> \notin accepted
                        /\ rpdu'[d] # 0 => <<d, rpdu'[d]>> \notin accepted
                        /\ rpdu'[d] <= MaxPdu - unread'[d]
      BY <1>3, <1>8 DEF OfferInv
    <3>1. CASE d = c
      <4>1. \A m \in 1..MaxPdu : m > MaxPdu - unread[c] => <<c, m>> \notin accepted
        BY <1>1, <1>3 DEF OfferInv
      <4> QED
        BY <1>2, <1>4, <1>5, <2>1, <3>1, <4>1
    <3>2. CASE d # c
      BY <1>1, <1>5, <2>1, <3>2 DEF OfferInv
    <3> QED
      BY <3>1, <3>2
  <2>3. PoolTypeOK'
    BY <1>1, <1>3, <1>5, <1>8, <2>1 DEF PoolTypeOK
  <2>4. PillsLast' /\ DtorInv' /\ JobInv'
    BY <1>1, <1>3, <1>8 DEF PillsLast, DtorInv, JobInv, Left, Exited, Running
  <2> QED
    BY <2>2, <2>3, <2>4 DEF PoolInv
<1> QED
  BY <1>4, <1>7, <1>8 DEF GotPdu

\* A thread takes the front of the queue; if that is a pill only pills are left.
LEMMA TakeJobStep ==
  ASSUME PoolInv, NEW t \in Thread, TakeJob(t)
  PROVE  PoolInv'
<1>1. PoolTypeOK /\ PillsLast /\ DtorInv /\ OfferInv /\ JobInv
  BY DEF PoolInv
<1> DEFINE j == Head(q_)
           new == [pc |-> IF j = Pill THEN "exited" ELSE "run", job |-> j]
<1>2. /\ thr[t].pc = "take" /\ q_ # <<>> /\ q_' = Tail(q_)
      /\ thr' = [thr EXCEPT ![t] = new]
      /\ dtor' = IF dtor = "asleep" /\ Len(q_') < max_ THEN "enq" ELSE dtor
      /\ UNCHANGED <<pills, unread, rpdu, closed, blocked, accepted, ran>>
  BY DEF TakeJob
<1>3. /\ q_' \in Seq(Job \cup {Pill}) /\ Len(q_) \in Nat \ {0}
      /\ Len(q_') = Len(q_) - 1 /\ Len(q_') <= max_
      /\ j = q_[1] /\ j \in Job \cup {Pill}
      /\ \A i \in 1..Len(q_') : q_'[i] = q_[i + 1]
  BY <1>1, <1>2, Dequeued
<1>4. \A i \in 1..Len(q_') : i + 1 \in 1..Len(q_) /\ i + 1 # 1
  BY <1>3
<1>5. 1 \in 1..Len(q_)
  BY <1>3
<1> HIDE DEF j
<1>6. new \in ThreadState
  BY <1>3 DEF ThreadState
<1>7. /\ thr \in [Thread -> ThreadState] /\ thr' \in [Thread -> ThreadState]
      /\ thr'[t] = new /\ \A u \in Thread : u # t => thr'[u] = thr[u]
  BY <1>1, <1>2, <1>6 DEF PoolTypeOK, ThreadState
<1>8. PoolTypeOK'
  BY <1>1, <1>2, <1>3, <1>7 DEF PoolTypeOK, ThreadState
<1>9. Exited \in SUBSET Thread /\ IsFiniteSet(Exited) /\ Cardinality(Exited) \in Nat /\ t \notin Exited
  BY <1>2, ThreadSets DEF Exited
<1>10. pills \in Nat /\ Left \in 0..Len(q_) /\ Left = pills - Cardinality(Exited)
  BY <1>1, <1>9, ThreadSets DEF PoolTypeOK, PillsLast, Left
<1>11. \A i \in 1..Len(q_) : q_[i] = Pill <=> i > Len(q_) - Left
  BY <1>1 DEF PillsLast
<1>12. CASE j = Pill
  <2>1. Exited' = Exited \cup {t}
    BY <1>7, <1>12 DEF Exited
  <2>2. Cardinality(Exited') = Cardinality(Exited) + 1
    BY <1>9, <2>1, FS_AddElement
  <2>3. Left = Len(q_)
    <3>1. q_[1] = Pill
      BY <1>3, <1>12
    <3>2. 1 > Len(q_) - Left
      BY <1>5, <1>11, <3>1
    <3>3. Left \in Int /\ Len(q_) \in Int /\ Left <= Len(q_)
      BY <1>3, <1>10
    <3> QED
      BY <3>2, <3>3
  <2>4. Left' = Len(q_')
    BY <1>2, <1>3, <1>9, <1>10, <2>2, <2>3 DEF Left
  <2>5. \A i \in 1..Len(q_') : q_'[i] = Pill
    BY <1>3, <1>4, <1>11, <2>3
  <2>6. PillsLast'
    BY <1>3, <2>4, <2>5 DEF PillsLast
  <2>7. DtorInv'
    <3>1. Exited = Thread => FALSE
      BY <1>9
    <3> QED
      BY <1>1, <1>2, <3>1 DEF DtorInv
  <2>8. JobInv'
    <3>1. \A u \in Thread : Running(u)' <=> Running(u)
      BY <1>2, <1>7, <1>12 DEF Running
    <3>2. \A u \in Thread : Running(u) => thr'[u] = thr[u]
      BY <1>2, <1>7 DEF Running
    <3>3. \A i \in 1..Len(q_) : q_[i] = Pill
      BY <1>3, <1>10, <1>11, <2>3
    <3>4. \A x \in accepted : x # Pill
      BY <1>1, PillIsNoJob DEF PoolTypeOK
    <3>5. /\ \A x \in accepted : \/ ran[x] = 1
                                 \/ \E u \in Thread : Running(u) /\ thr[u].job = x
          /\ \A x \in Job : ran[x] <= IF x \in accepted THEN 1 ELSE 0
      BY <1>1, <3>3, <3>4 DEF JobInv
    <3>6. \A u \in Thread : Running(u) =>
             /\ thr[u].job \in accepted /\ ran[thr[u].job] = 0
             /\ \A v \in Thread : Running(v) /\ thr[v].job = thr[u].job => v = u
      BY <1>1 DEF JobInv
    <3>7. \A u \in Thread : Running(u)' =>
             /\ thr'[u].job \in accepted' /\ ran'[thr'[u].job] = 0
             /\ \A i \in 1..Len(q_') : q_'[i] # thr'[u].job
             /\ \A v \in Thread : Running(v)' /\ thr'[v].job = thr'[u].job => v = u
      BY <1>2, <2>5, <3>1, <3>2, <3>4, <3>6
    <3> QED
      BY <1>2, <2>5, <3>1, <3>2, <3>5, <3>7 DEF JobInv
  <2> QED
    BY <1>1, <1>2, <1>8, <2>6, <2>7, <2>8 DEF PoolInv, OfferInv
<1>13. CASE j # Pill
  <2>1. Exited' = Exited
    BY <1>2, <1>7, <1>13 DEF Exited
  <2>2. Left' = Left
    BY <1>2, <2>1 DEF Left
  <2>3. 1 <= Len(q_) - Left
    BY <1>3, <1>5, <1>10, <1>11, <1>13
  <2>4. Exited = {}
    BY <1>1, <1>3, <1>10, <2>3 DEF PillsLast
  <2>5. PillsLast'
    <3>1. Left \in 0..Len(q_')
      BY <1>3, <1>10, <2>3
    <3>2. \A i \in 1..Len(q_') : q_'[i] = Pill <=> i > Len(q_') - Left
      BY <1>3, <1>4, <1>10, <1>11
    <3> QED
      BY <2>1, <2>2, <2>4, <3>1, <3>2 DEF PillsLast
  <2>6. DtorInv'
    BY <1>1, <1>2, <2>1 DEF DtorInv
  <2>7. JobInv'
    <3>1. j \in accepted /\ ran[j] = 0 /\ \A i \in 1..Len(q_) : q_[i] = j => i = 1
      BY <1>1, <1>3, <1>5, <1>13 DEF JobInv
    <3>2. Running(t)' /\ thr'[t].job = j /\ ~Running(t)
      BY <1>2, <1>7, <1>13 DEF Running
    <3>3. \A u \in Thread : u # t => thr'[u].job = thr[u].job /\ (Running(u)' <=> Running(u))
      BY <1>7 DEF Running
    <3>4. \A i \in 1..Len(q_') : q_'[i] # j
      BY <1>3, <1>4, <3>1
    <3>5. \A u \in Thread : Running(u) => thr[u].job # j
      BY <1>1, <1>3, <1>5 DEF JobInv
    <3>6. \A i \in 1..Len(q_') : q_'[i] # Pill =>
             /\ q_'[i] \in accepted /\ ran[q_'[i]] = 0
             /\ \A m \in 1..Len(q_') : q_'[m] = q_'[i] => m = i
      <4> SUFFICES ASSUME NEW i \in 1..Len(q_'), q_'[i] # Pill
                   PROVE  /\ q_'[i] \in accepted /\ ran[q_'[i]] = 0
                          /\ \A m \in 1..Len(q_') : q_'[m] = q_'[i] => m = i
        OBVIOUS
      <4>1. /\ q_[i + 1] \in accepted /\ ran[q_[i + 1]] = 0
            /\ \A m \in 1..Len(q_) : q_[m] = q_[i + 1] => m = i + 1
        BY <1>1, <1>3, <1>4 DEF JobInv
      <4> QED
        BY <1>3, <1>4, <4>1
    <3>7. \A u \in Thread : Running(u)' =>
             /\ thr'[u].job \in accepted /\ ran[thr'[u].job] = 0
             /\ \A i \in 1..Len(q_') : q_'[i] # thr'[u].job
             /\ \A v \in Thread : Running(v)' /\ thr'[v].job = thr'[u].job => v = u
      <4>1. \A u \in Thread : Running(u) =>
             /\ thr[u].job \in accepted /\ ran[thr[u].job] = 0
             /\ \A i \in 1..Len(q_') : q_'[i] # thr[u].job
             /\ \A v \in Thread : Running(v) /\ thr[v].job = thr[u].job => v = u
        BY <1>1, <1>3, <1>4 DEF JobInv
      <4> QED
        BY <3>1, <3>2, <3>3, <3>4, <3>5, <4>1
    <3>8. \A x \in accepted : \/ ran[x] = 1
                              \/ \E i \in 1..Len(q_') : q_'[i] = x
                              \/ \E u \in Thread : Running(u)' /\ thr'[u].job = x
      <4> SUFFICES ASSUME NEW x \in accepted, ran[x] # 1, x # j
                   PROVE  \/ \E i \in 1..Len(q_') : q_'[i] = x
                          \/ \E u \in Thread : Running(u)' /\ thr'[u].job = x
        BY <3>2
      <4>1. CASE \E i \in 1..Len(q_) : q_[i] = x
        <5>1. PICK i \in 1..Len(q_) : q_[i] = x
          BY <4>1
        <5>2. i - 1 \in 1..Len(q_') /\ (i - 1) + 1 = i
          BY <1>3, <5>1
        <5> QED
          BY <1>3, <5>1, <5>2
      <4>2. CASE \E u \in Thread : Running(u) /\ thr[u].job = x
        BY <3>2, <3>3, <4>2
      <4> QED
        BY <1>1, <4>1, <4>2 DEF JobInv
    <3>9. \A x \in Job : ran[x] <= IF x \in accepted THEN 1 ELSE 0
      BY <1>1 DEF JobInv
    <3> QED
      BY <1>2, <3>6, <3>7, <3>8, <3>9 DEF JobInv
  <2> QED
    BY <1>1, <1>2, <1>8, <2>5, <2>6, <2>7 DEF PoolInv, OfferInv
<1> QED
  BY <1>12, <1>13

\* The job of a thread has run, and is nowhere else.
LEMMA RunJobStep ==
  ASSUME PoolInv, NEW t \in Thread, RunJob(t)
  PROVE  PoolInv'
<1>1. PoolTypeOK /\ PillsLast /\ DtorInv /\ OfferInv /\ JobInv
  BY DEF PoolInv
<1> DEFINE j == thr[t].job
<1>2. /\ Running(t) /\ ran' = [ran EXCEPT ![j] = @ + 1]
      /\ UNCHANGED <<q_, dtor, pills, unread, rpdu, closed, accepted>>
  BY DEF RunJob, Running
<1>3. /\ blocked' \in SUBSET (Thread \X Source)
      /\ \E s \in ThreadState : s.pc \in {"take", "send"} /\ thr' = [thr EXCEPT ![t] = s]
  <2>1. thr \in [Thread -> ThreadState] /\ blocked \in SUBSET (Thread \X Source)
    BY <1>1 DEF PoolTypeOK, ThreadState
  <2>2. Awake \in ThreadState /\ Awake.pc = "take"
    BY DEF Awake, ThreadState
  <2>3. CASE thr' = [thr EXCEPT ![t] = Awake] /\ blocked' = blocked
    BY <2>1, <2>2, <2>3
  <2>4. ASSUME NEW c \in Source, thr' = [thr EXCEPT ![t].pc = "send"],
               blocked' = blocked \cup {<<t, c>>}
        PROVE  /\ blocked' \in SUBSET (Thread \X Source)
               /\ \E s \in ThreadState : s.pc \in {"take", "send"} /\ thr' = [thr EXCEPT ![t] = s]
    <3>1. [thr[t] EXCEPT !.pc = "send"] = [pc |-> "send", job |-> thr[t].job]
      BY <2>1 DEF ThreadState
    <3>2. thr' = [thr EXCEPT ![t] = [pc |-> "send", job |-> thr[t].job]]
      BY <2>1, <2>4, <3>1
    <3>3. [pc |-> "send", job |-> thr[t].job] \in ThreadState
      BY <2>1 DEF ThreadState
    <3>4. blocked' \in SUBSET (Thread \X Source)
      BY <2>1, <2>4
    <3> QED
      BY <3>2, <3>3, <3>4
  <2> QED
    BY <2>3, <2>4 DEF RunJob, ReplyTo
<1>4. /\ thr' \in [Thread -> ThreadState] /\ thr'[t].pc \in {"take", "send"}
      /\ \A u \in Thread : u # t => thr'[u] = thr[u]
  BY <1>1, <1>3 DEF PoolTypeOK, ThreadState
<1>5. /\ j \in accepted /\ j \in Job /\ ran[j] = 0
      /\ \A i \in 1..Len(q_) : q_[i] # j
      /\ \A u \in Thread : Running(u) /\ thr[u].job = j => u = t
  BY <1>1, <1>2 DEF JobInv, PoolTypeOK
<1> HIDE DEF j
<1>6. ran' \in [Job -> Nat] /\ ran'[j] = 1 /\ \A x \in Job : x # j => ran'[x] = ran[x]
  BY <1>1, <1>2, <1>5 DEF PoolTypeOK
<1>7. PoolTypeOK'
  BY <1>1, <1>2, <1>3, <1>4, <1>6 DEF PoolTypeOK, ThreadState
<1>8. Exited' = Exited
  BY <1>2, <1>4 DEF Exited, Running
<1>9. PillsLast' /\ DtorInv' /\ OfferInv'
  BY <1>1, <1>2, <1>8 DEF PillsLast, DtorInv, OfferInv, Left
<1>10. JobInv'
  <2>1. ~Running(t)' /\ \A u \in Thread : u # t => thr'[u] = thr[u] /\ (Running(u)' <=> Running(u))
    BY <1>4 DEF Running
  <2>2. accepted \subseteq Job /\ \A i \in 1..Len(q_) : q_[i] \in accepted => q_[i] \in Job
    BY <1>1 DEF PoolTypeOK
  <2>3. \A i \in 1..Len(q_) : q_[i] # Pill =>
           /\ q_[i] \in accepted /\ ran'[q_[i]] = 0
           /\ \A k \in 1..Len(q_) : q_[k] = q_[i] => k = i
    BY <1>1, <1>5, <1>6, <2>2 DEF JobInv
  <2>4. \A u \in Thread : Running(u)' =>
           /\ thr'[u].job \in accepted /\ ran'[thr'[u].job] = 0
           /\ \A i \in 1..Len(q_) : q_[i] # thr'[u].job
           /\ \A v \in Thread : Running(v)' /\ thr'[v].job = thr'[u].job => v = u
    <3>1. \A u \in Thread : Running(u) =>
             /\ thr[u].job \in accepted /\ ran[thr[u].job] = 0
             /\ \A i \in 1..Len(q_) : q_[i] # thr[u].job
             /\ \A v \in Thread : Running(v) /\ thr[v].job = thr[u].job => v = u
      BY <1>1 DEF JobInv
    <3> QED
      BY <1>5, <1>6, <2>1, <2>2, <3>1
  <2>5. \A x \in accepted : \/ ran'[x] = 1
                            \/ \E i \in 1..Len(q_) : q_[i] = x
                            \/ \E u \in Thread : Running(u)' /\ thr'[u].job = x
    <3> SUFFICES ASSUME NEW x \in accepted, x # j
                 PROVE  \/ ran'[x] = 1
                        \/ \E i \in 1..Len(q_) : q_[i] = x
                        \/ \E u \in Thread : Running(u)' /\ thr'[u].job = x
      BY <1>6
    <3>1. CASE \E u \in Thread : Running(u) /\ thr[u].job = x
      BY <2>1, <3>1 DEF j
    <3> QED
      BY <1>1, <1>6, <2>2, <3>1 DEF JobInv
  <2>6. \A x \in Job : ran'[x] <= IF x \in accepted THEN 1 ELSE 0
    BY <1>1, <1>5, <1>6 DEF JobInv
  <2> QED
    BY <1>2, <2>3, <2>4, <2>5, <2>6 DEF JobInv
<1> QED
  BY <1>7, <1>9, <1>10 DEF PoolInv

\* A pill is put behind the pills, or there is no space for it.
LEMMA EnqPillStep ==
  ASSUME PoolInv, EnqPill
  PROVE  PoolInv'
<1>1. PoolTypeOK /\ PillsLast /\ DtorInv /\ OfferInv /\ JobInv
  BY DEF PoolInv
<1>2. dtor = "enq" /\ UNCHANGED <<unread, rpdu, closed, blocked, accepted, ran>>
  BY DEF EnqPill
<1>3. CASE ~HasSpace
  <2>1. dtor' = "asleep" /\ UNCHANGED <<q_, thr, pills>>
    BY <1>3 DEF EnqPill
  <2>2. PoolTypeOK'
    BY <1>1, <1>2, <2>1 DEF PoolTypeOK
  <2> QED
    BY <1>1, <1>2, <2>1, <2>2
    DEF PoolInv, PillsLast, DtorInv, OfferInv, JobInv, Left, Exited, Running
<1>4. CASE HasSpace
  <2>1. /\ Enq(Pill) /\ SignalNonEmpty /\ pills' = pills + 1
        /\ dtor' = IF pills' = Cardinality(Thread) THEN "join" ELSE "enq"
    BY <1>4 DEF EnqPill, Enq
  <2>2. /\ q_' \in Seq(Job \cup {Pill}) /\ Len(q_) \in Nat
        /\ Len(q_') = Len(q_) + 1 /\ Len(q_') <= max_
        /\ q_'[Len(q_) + 1] = Pill
        /\ \A i \in 1..Len(q_) : q_'[i] = q_[i]
    BY <1>1, <1>4, <2>1, Enqueued
  <2>3. /\ thr' \in [Thread -> ThreadState]
        /\ \A t \in Thread : /\ thr'[t].job = thr[t].job
                             /\ thr'[t].pc = "run" <=> thr[t].pc = "run"
                             /\ thr'[t].pc = "exited" <=> thr[t].pc = "exited"
    BY <1>1, <2>1, Woken
  <2>4. Exited' = Exited
    BY <2>3, SameExited
  <2>5. pills \in Nat /\ pills < Cardinality(Thread) /\ Cardinality(Thread) \in Nat
    BY <1>1, <1>2, ThreadSets DEF DtorInv, PoolTypeOK
  <2>6. PoolTypeOK'
    <3>1. pills' \in 0..Cardinality(Thread) /\ dtor' \in {"idle", "enq", "asleep", "join", "done"}
      BY <2>1, <2>5
    <3> QED
      BY <1>1, <1>2, <2>2, <2>3, <3>1 DEF PoolTypeOK, ThreadState
  <2>7. Cardinality(Exited) \in Nat
    BY ThreadSets DEF Exited
  <2>8. Left' = Left + 1 /\ Left \in 0..Len(q_)
    BY <1>1, <2>1, <2>4, <2>5, <2>7 DEF Left, PillsLast
  <2>9. \A i \in 1..Len(q_') : i \in 1..Len(q_) \/ i = Len(q_) + 1
    BY <2>2
  <2>10. PillsLast'
    <3>1. \A i \in 1..Len(q_') : q_'[i] = Pill <=> i > Len(q_') - Left'
      <4>1. \A i \in 1..Len(q_) : q_[i] = Pill <=> i > Len(q_) - Left
        BY <1>1 DEF PillsLast
      <4>2. Len(q_') - Left' = Len(q_) - Left /\ Len(q_) + 1 > Len(q_) - Left
        BY <2>2, <2>8
      <4> QED
        BY <2>2, <2>9, <4>1, <4>2
    <3>2. Left' \in 0..Len(q_')
      BY <2>2, <2>8
    <3>3. Exited' # {} => Left' = Len(q_')
      BY <1>1, <2>2, <2>4, <2>8 DEF PillsLast
    <3> QED
      BY <3>1, <3>2, <3>3 DEF PillsLast
  <2>11. DtorInv'
    BY <1>1, <1>2, <2>1, <2>4, <2>5 DEF DtorInv
  <2>12. OfferInv'
    BY <1>1, <1>2 DEF OfferInv
  <2>13. JobInv'
    <3>1. \A x \in accepted : x # Pill
      BY <1>1, PillIsNoJob DEF PoolTypeOK
    <3>2. \A t \in Thread : thr'[t].job = thr[t].job /\ (Running(t)' <=> Running(t))
      BY <2>3 DEF Running
    <3>3. \A i \in 1..Len(q_') : q_'[i] # Pill => i \in 1..Len(q_) /\ q_'[i] = q_[i]
      BY <2>2, <2>9
    <3>4. \A i \in 1..Len(q_) : i \in 1..Len(q_') /\ q_'[i] = q_[i]
      BY <2>2
    <3>5. \A i \in 1..Len(q_') : q_'[i] # Pill =>
             /\ q_'[i] \in accepted /\ ran[q_'[i]] = 0
             /\ \A k \in 1..Len(q_') : q_'[k] = q_'[i] => k = i
      BY <1>1, <3>3 DEF JobInv
    <3>6. \A t \in Thread : Running(t)' =>
             /\ thr'[t].job \in accepted /\ ran[thr'[t].job] = 0
             /\ \A i \in 1..Len(q_') : q_'[i] # thr'[t].job
             /\ \A u \in Thread : Running(u)' /\ thr'[u].job = thr'[t].job => u = t
      BY <1>1, <3>1, <3>2, <3>3 DEF JobInv
    <3>7. \A x \in accepted : \/ ran[x] = 1
                              \/ \E i \in 1..Len(q_') : q_'[i] = x
                              \/ \E t \in Thread : Running(t)' /\ thr'[t].job = x
      BY <1>1, <3>2, <3>4 DEF JobInv
    <3> QED
      BY <1>1, <1>2, <3>5, <3>6, <3>7 DEF JobInv
  <2> QED
    BY <2>6, <2>10, <2>11, <2>12, <2>13 DEF PoolInv
<1> QED
  BY <1>3, <1>4

\* Threads fall asleep or wake, those in send() too, and ~ThrPool may wake to
\* queue its pill.
LEMMA SleepStep ==
  ASSUME PoolInv, thr' \in [Thread -> ThreadState], blocked' \in SUBSET blocked,
         \A t \in Thread : /\ thr[t].pc = "run" => thr'[t].job = thr[t].job
                           /\ thr'[t].pc = "run" <=> thr[t].pc = "run"
                           /\ thr'[t].pc = "exited" <=> thr[t].pc = "exited",
         dtor' = dtor \/ (dtor = "asleep" /\ dtor' = "enq"),
         UNCHANGED <<q_, pills, unread, rpdu, closed, accepted, ran>>
  PROVE  PoolInv'
<1>1. PoolTypeOK'
  BY DEF PoolInv, PoolTypeOK, ThreadState
<1>2. Exited' = Exited
  BY SameExited
<1>3. PillsLast' /\ DtorInv' /\ OfferInv'
  BY <1>2 DEF PoolInv, PillsLast, DtorInv, OfferInv, Left
<1>4. JobInv'
  BY DEF PoolInv, JobInv, Running
<1> QED
  BY <1>1, <1>3, <1>4 DEF PoolInv

\* A thread comes back from send().
LEMMA SendReturnsStep ==
  ASSUME PoolInv, NEW t \in Thread, NEW c \in Source, SendReturns(t, c),
         UNCHANGED <<q_, dtor, pills, unread, rpdu, closed, accepted, ran>>
  PROVE  PoolInv'
<1>1. thr \in [Thread -> ThreadState] /\ Awake \in ThreadState /\ Awake.pc = "take"
  BY DEF PoolInv, PoolTypeOK, ThreadState, Awake
<1>2. thr[t].pc = "send" /\ thr' = [thr EXCEPT ![t] = Awake] /\ blocked' \in SUBSET blocked
  BY DEF SendReturns
<1>3. /\ thr' \in [Thread -> ThreadState] /\ thr'[t].pc = "take"
      /\ \A u \in Thread : u # t => thr'[u] = thr[u]
  BY <1>1, <1>2
<1> QED
  BY <1>2, <1>3, SleepStep

LEMMA DeqWaitStep ==
  ASSUME PoolInv, NEW t \in Thread, DeqWait(t)
  PROVE  PoolInv'
<1>1. thr \in [Thread -> ThreadState] /\ thr[t].pc = "take"
  BY DEF PoolInv, PoolTypeOK, ThreadState, DeqWait
<1>2. [thr[t] EXCEPT !.pc = "asleep"] = [pc |-> "asleep", job |-> thr[t].job]
  BY <1>1 DEF ThreadState
<1>3. thr' = [thr EXCEPT ![t] = [pc |-> "asleep", job |-> thr[t].job]]
  BY <1>1, <1>2 DEF DeqWait
<1>4. [pc |-> "asleep", job |-> thr[t].job] \in ThreadState
  BY <1>1 DEF ThreadState
<1>5. thr' \in [Thread -> ThreadState]
  BY <1>1, <1>3, <1>4
<1>6. thr'[t].job = thr[t].job /\ thr'[t].pc = "asleep" /\ \A u \in Thread : u # t => thr'[u] = thr[u]
  BY <1>1, <1>3
<1> QED
  BY <1>1, <1>5, <1>6, SleepStep DEF DeqWait

LEMMA SpuriousWakeupStep ==
  ASSUME PoolInv, SpuriousWakeup
  PROVE  PoolInv'
<1>1. PoolTypeOK /\ thr \in [Thread -> ThreadState]
  BY DEF PoolInv, PoolTypeOK, ThreadState
<1>2. UNCHANGED <<q_, pills, unread, rpdu, closed, accepted, ran>>
  BY DEF SpuriousWakeup
<1>3. CASE (\E t \in Asleep : thr' = [thr EXCEPT ![t].pc = "take"]) /\ UNCHANGED <<dtor, blocked>>
  BY <1>1, <1>2, <1>3, Woken, SleepStep DEF SignalNonEmpty
<1>4. CASE dtor = "asleep" /\ dtor' = "enq" /\ UNCHANGED <<thr, blocked>>
  BY <1>1, <1>2, <1>4, SleepStep
<1>5. CASE (\E t \in Thread, c \in closed : SendReturns(t, c)) /\ dtor' = dtor
  BY <1>1, <1>2, <1>5, SendReturnsStep DEF PoolTypeOK
<1> QED
  BY <1>3, <1>4, <1>5 DEF SpuriousWakeup

LEMMA SendEndsStep ==
  ASSUME PoolInv, NEW t \in Thread, SendEnds(t)
  PROVE  PoolInv'
<1>1. PICK c \in Source : SendReturns(t, c)
  BY DEF SendEnds
<1> QED
  BY <1>1, SendReturnsStep DEF SendEnds

\* A connection is closed; after the last one ~ThrPool begins.
LEMMA CloseConnStep ==
  ASSUME PoolInv, NEW c \in Source, CloseConn(c)
  PROVE  PoolInv'
<1>1. PoolTypeOK /\ PillsLast /\ DtorInv /\ OfferInv /\ JobInv
  BY DEF PoolInv
<1>2. MaxPdu \in Nat
  BY PoolAssumption
<1>3. /\ dtor = "idle" /\ closed' = closed \cup {c}
      /\ unread' = [unread EXCEPT ![c] = 0] /\ rpdu' = [rpdu EXCEPT ![c] = 0]
      /\ dtor' = IF closed' = Source THEN "enq" ELSE dtor
      /\ UNCHANGED <<q_, thr, pills, blocked, accepted, ran>>
  BY DEF CloseConn
<1>4. PoolTypeOK'
  <2>1. unread' \in [Source -> 0..MaxPdu] /\ rpdu' \in [Source -> 0..MaxPdu]
    BY <1>1, <1>2, <1>3 DEF PoolTypeOK
  <2>2. closed' \in SUBSET Source /\ dtor' \in {"idle", "enq", "asleep", "join", "done"}
    BY <1>1, <1>3 DEF PoolTypeOK
  <2> QED
    BY <1>1, <1>3, <2>1, <2>2 DEF PoolTypeOK
<1>5. OfferInv'
  <2>1. \A d \in Source \ closed' : d \in Source \ closed /\ unread'[d] = unread[d] /\ rpdu'[d] = rpdu[d]
    BY <1>1, <1>3 DEF PoolTypeOK
  <2> QED
    BY <1>1, <1>3, <2>1 DEF OfferInv
<1>6. DtorInv'
  BY <1>1, <1>3 DEF DtorInv, Exited
<1>7. PillsLast' /\ JobInv'
  BY <1>1, <1>3 DEF PillsLast, JobInv, Left, Exited, Running
<1> QED
  BY <1>4, <1>5, <1>6, <1>7 DEF PoolInv

LEMMA JoinStep ==
  ASSUME PoolInv, Join
  PROVE  PoolInv'
<1>1. PoolTypeOK' /\ PillsLast' /\ OfferInv' /\ JobInv'
  BY DEF PoolInv, Join, PoolTypeOK, PillsLast, OfferInv, JobInv, Left, Exited, Running
<1>2. DtorInv'
  BY DEF PoolInv, Join, DtorInv, Exited
<1> QED
  BY <1>1, <1>2 DEF PoolInv

LEMMA NextPoolInv == PoolInv /\ [Next]_vars => PoolInv'
<1> SUFFICES ASSUME PoolInv, [Next]_vars PROVE PoolInv'
  OBVIOUS
<1>1. CASE \E c \in Source : ReadCb(c) \/ CloseConn(c)
  BY <1>1, ReadCbStep, CloseConnStep
<1>2. CASE \E t \in Thread : Worker(t) \/ SendEnds(t)
  BY <1>2, DeqWaitStep, TakeJobStep, RunJobStep, SendEndsStep DEF Worker
<1>3. CASE SpuriousWakeup
  BY <1>3, SpuriousWakeupStep
<1>4. CASE EnqPill
  BY <1>4, EnqPillStep
<1>5. CASE Join
  BY <1>5, JoinStep
<1>6. CASE UNCHANGED vars
  BY <1>6 DEF PoolInv, vars, PoolTypeOK, PillsLast, DtorInv, OfferInv, JobInv, Left, Exited, Running
<1> QED
  BY <1>1, <1>2, <1>3, <1>4, <1>5, <1>6 DEF Next

LEMMA PoolInvHolds == Spec => []PoolInv
  BY InitPoolInv, NextPoolInv, PTL DEF Spec

(***************************************************************************)
(* The queue never exceeds its capacity and holds nothing but jobs and     *)
(* pills, and ~ThrPool never queues more pills than there are threads.     *)
(***************************************************************************)
THEOREM PoolTypeCorrect == Spec => []PoolTypeOK
<1>1. PoolInv => PoolTypeOK
  BY DEF PoolInv
<1> QED
  BY <1>1, PoolInvHolds, PTL

(***************************************************************************)
(* However many threads take jobs from the queue and fall asleep over it,  *)
(* no job runs twice or without having been accepted, and when ~ThrPool    *)
(* has joined the threads every accepted job has run.                      *)
(***************************************************************************)
THEOREM AcceptedHaveRunHolds == Spec => []AcceptedHaveRun
<1>1. PoolInv => AcceptedHaveRun
  <2> SUFFICES ASSUME PoolInv PROVE AcceptedHaveRun
    OBVIOUS
  <2>1. \A j \in Job : ran[j] <= IF j \in accepted THEN 1 ELSE 0
    BY DEF PoolInv, JobInv
  <2>2. ASSUME dtor = "done" PROVE q_ = <<>> /\ \A j \in accepted : ran[j] = 1
    <3>1. Exited = Thread /\ Exited # {} /\ Left = Len(q_)
      BY <2>2, PoolAssumption DEF PoolInv, DtorInv, PillsLast
    <3>2. Left = pills - Cardinality(Thread) /\ pills <= Cardinality(Thread) /\ pills \in Nat
      BY <3>1, ThreadSets DEF Left, PoolInv, PoolTypeOK
    <3>3. q_ \in Seq(Job \cup {Pill}) /\ Len(q_) \in Nat
      BY DEF PoolInv, PoolTypeOK
    <3>4. Len(q_) = 0
      BY <3>1, <3>2, <3>3, ThreadSets
    <3>5. q_ = <<>>
      BY <3>3, <3>4, EmptySeq
    <3>6. \A t \in Thread : ~Running(t)
      BY <3>1 DEF Exited, Running
    <3> QED
      BY <3>5, <3>6 DEF PoolInv, JobInv
  <2> QED
    BY <2>1, <2>2 DEF AcceptedHaveRun
<1> QED
  BY <1>1, PoolInvHolds, PTL
=============================================================================
