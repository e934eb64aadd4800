--------------------------- MODULE ConnRefsProofs ---------------------------
(***************************************************************************)
(* The proofs about the reference counts of connections, for any number of *)
(* workers, connections and PDUs.  Three facts carry them, all of them     *)
(* void once a job was deleted while it was queued (raced): the count is   *)
(* exact (CountInv); a connection that is not dead is in conns_ (LiveInv); *)
(* and while the poll thread may still be at a dead connection, the thread *)
(* that removes its callbacks holds a reference to it (RemoverInv).  So no *)
(* count reaches zero under the poll thread.                               *)
(***************************************************************************)
EXTENDS ConnRefs, FiniteSetTheorems, TLAPS

Place == [pc : Pc, c : 0..MaxConn, d : 0..MaxConn, then : Pc]

\* Where a thread may be, with what, when n connections have been made.
WorkerAt(r, n) ==
    /\ r.pc \in {"idle", "sendold", "register", "newlatest", "check", "choose", "switch",
                 "send", "remove", "decref", "zero"}
    /\ r.pc \in {"idle", "switch"} => r.c = NoConn
    /\ r.pc \in {"sendold", "register", "newlatest", "check", "choose", "send", "remove"} =>
          r.c \in 1..n
    /\ r.pc \in {"decref", "zero"} =>
          /\ r.d \in 1..n
          /\ \/ r.then \in {"idle", "switch"} /\ r.c = NoConn
             \/ r.then = "newlatest" /\ r.c \in 1..n
    /\ r.pc \in {"sendold", "remove"} => r.then \in {"idle", "sendold"}
    /\ r.pc \in {"idle", "register", "newlatest", "check", "choose", "switch", "send"} =>
          r.then = "idle"

ListenerAt(r, n) ==
    /\ r.pc \in {"listen", "gc", "gcref", "close", "done", "remove", "decref", "zero"}
    /\ r.pc \in {"listen", "gc", "close", "done"} => r.c = NoConn
    /\ r.pc = "gcref" => r.c \in 1..n
    /\ r.pc = "remove" => r.c \in 1..n /\ r.then = "close"
    /\ r.pc \in {"decref", "zero"} => r.d \in 1..n /\ r.c = NoConn /\ r.then \in {"gc", "close"}

\* The poll thread never drops the last reference.
PollAt(r, n) ==
    /\ r.pc \in {"idle", "read_cb", "got", "add", "decref"}
    /\ r.pc = "idle" => r.c = NoConn
    /\ r.pc \in {"read_cb", "got", "add"} => r.c \in 1..n
    /\ r.pc = "decref" => r.d \in 1..n /\ r.c = NoConn /\ r.then = "idle"

PlaceInv ==
    /\ \A w \in Worker : WorkerAt(at[w], naccept)
    /\ ListenerAt(at[Listener], naccept)
    /\ PollAt(at[Poll], naccept)

\* process_accept and ~tcpsconn on conns_.
ListenInv ==
    LET l == at[Listener]
    IN  /\ l.pc = "gcref" => l.c \in conns \cap dead /\ l.c \notin todo
        /\ \/ l.pc \in {"listen", "close", "done"}
           \/ l.pc \in {"remove", "decref", "zero"} /\ l.then = "close"
           => todo = {}
        /\ l.pc = "done" => conns = {}

\* conss_m_, and when the client has a latest connection.
Exchanges(r, what) == r.pc = what \/ (r.pc \in {"decref", "zero"} /\ r.then = what)
InConss(r) == Exchanges(r, "newlatest") \/ Exchanges(r, "switch")
ConssInv ==
    /\ \A w, x \in Worker : InConss(at[w]) /\ InConss(at[x]) => w = x
    /\ \A w \in Worker : Exchanges(at[w], "newlatest") => latest = NoConn
    /\ \A w \in Worker : Exchanges(at[w], "switch") => latest # NoConn
    /\ \A w \in Worker : at[w].pc \in {"check", "choose"} =>
          latest # NoConn \/ \E x \in Worker : Exchanges(at[x], "newlatest")

\* The references that a thread at r holds to c, that all threads and that the
\* tables hold.
Held(t, r, c) ==
    One(t \in Worker /\ r.c = c) + One(t = Listener /\ r.pc = "remove" /\ r.c = c)
    + One(t = Poll /\ r.pc = "add" /\ r.c = c) + One(r.pc = "decref" /\ r.d = c)
ThreadRefs(a, c) ==
    Cardinality({w \in Worker : a[w].c = c})
    + One(a[Listener].pc = "remove" /\ a[Listener].c = c)
    + One(a[Poll].pc = "add" /\ a[Poll].c = c)
    + Cardinality({t \in Thread : a[t].pc = "decref" /\ a[t].d = c})
TableRefs(cs, l, q, c) == One(c \in cs) + One(l = c) + Cardinality({j \in q : j[2] = c})

CountInv ==
    /\ \A c \in Conn :
          refno[c] = TableRefs(conns, latest, queued, c) + ThreadRefs(at, c) + leaked[c]
    /\ \A c \in Conn : naccept < c => refno[c] = 0

LiveInv == \A c \in 1..naccept : c \in dead \/ c \in conns

\* The poll thread works on c.
PollOn(c) == \/ at[Poll].pc \in {"read_cb", "got", "add"} /\ at[Poll].c = c
             \/ at[Poll].pc = "decref" /\ at[Poll].d = c
Removes(t, c) == at[t].pc = "remove" /\ at[t].c = c
RemoverInv ==
    \A c \in dead : c \in watched \/ PollOn(c) => \E t \in Worker \cup {Listener} : Removes(t, c)

\* A count is zero once, in the thread that will delete the connection.
ZeroAt(t, c) == at[t].pc = "zero" /\ at[t].d = c
ZeroInv ==
    /\ \A c \in 1..naccept : refno[c] = 0 <=> c \in freed \/ \E t \in Thread : ZeroAt(t, c)
    /\ \A c \in Conn : \A t, x \in Thread : ZeroAt(t, c) /\ ZeroAt(x, c) => t = x
    /\ \A c \in freed : \A t \in Thread : ~ZeroAt(t, c)

\* A job is queued once.
JobInv ==
    /\ \A j \in queued : j[1] <= npdu /\ j[2] <= naccept
    /\ at[Poll].pc \in {"got", "add"} => npdu > 0 /\ \A j \in queued : j[1] < npdu

\* What holds until a job was deleted while it was queued, and then still.
SoundInv == /\ PlaceInv /\ ListenInv /\ ConssInv /\ JobInv
            /\ CountInv /\ LiveInv /\ RemoverInv /\ ZeroInv
RefInv == RefTypeOK /\ IF raced THEN NoLockCycle ELSE SoundInv

-----------------------------------------------------------------------------
LEMMA ThreadFacts ==
  /\ IsFiniteSet(Worker) /\ IsFiniteSet(Thread)
  /\ Listener \in Thread /\ Poll \in Thread /\ Worker \subseteq Thread
  /\ Listener # Poll /\ Listener \notin Worker /\ Poll \notin Worker
  /\ \A t \in Thread : t \in Worker \/ t = Listener \/ t = Poll
<1>1. /\ Listener # Poll /\ Listener \notin Worker /\ Poll \notin Worker /\ IsFiniteSet(Worker)
  BY RefAssumption
<1>2. IsFiniteSet(Worker \cup {Listener})
  BY <1>1, FS_AddElement
<1>3. IsFiniteSet((Worker \cup {Listener}) \cup {Poll})
  BY <1>2, FS_AddElement
<1>4. (Worker \cup {Listener}) \cup {Poll} = Thread
  BY DEF Thread
<1> QED
  BY <1>1, <1>3, <1>4 DEF Thread

LEMMA NumberFacts ==
  /\ MaxConn \in Nat /\ MaxPdu \in Nat /\ MaxQueue \in Nat \ {0}
  /\ Conn = 1..MaxConn /\ NoConn = 0
  /\ \A c \in Conn : c \in Nat /\ c # 0
  BY RefAssumption DEF Conn, NoConn

\* Two sets that differ in one element at most.
LEMMA CardReplace ==
  ASSUME NEW S, NEW T, NEW x, IsFiniteSet(S), IsFiniteSet(T), S \ {x} = T \ {x}
  PROVE  /\ Cardinality(S) \in Nat /\ Cardinality(T) \in Nat
         /\ Cardinality(T) + One(x \in S) = Cardinality(S) + One(x \in T)
         /\ x \in S => Cardinality(S) >= 1
<1>1. Cardinality(S) \in Nat /\ Cardinality(T) \in Nat /\ Cardinality(S \ {x}) \in Nat
  BY FS_CardinalityType, FS_RemoveElement
<1>2. /\ Cardinality(S \ {x}) = IF x \in S THEN Cardinality(S) - 1 ELSE Cardinality(S)
      /\ Cardinality(T \ {x}) = IF x \in T THEN Cardinality(T) - 1 ELSE Cardinality(T)
  BY FS_RemoveElement
<1>3. Cardinality(S \ {x}) = Cardinality(T \ {x})
  OBVIOUS
<1> QED
  BY <1>1, <1>2, <1>3 DEF One

LEMMA ThreadRefsStep ==
  ASSUME NEW a \in [Thread -> Place], NEW t \in Thread, NEW r \in Place, NEW c \in Conn,
         NEW b, b = [a EXCEPT ![t] = r]
  PROVE  /\ ThreadRefs(a, c) \in Nat /\ ThreadRefs(b, c) \in Nat
         /\ Held(t, r, c) \in Nat /\ Held(t, a[t], c) \in Nat
         /\ ThreadRefs(b, c) + Held(t, a[t], c) = ThreadRefs(a, c) + Held(t, r, c)
<1> DEFINE W(f) == {w \in Worker : f[w].c = c}
           D(f) == {x \in Thread : f[x].pc = "decref" /\ f[x].d = c}
           L(f) == One(f[Listener].pc = "remove" /\ f[Listener].c = c)
           P(f) == One(f[Poll].pc = "add" /\ f[Poll].c = c)
<1>1. b \in [Thread -> Place] /\ b[t] = r /\ \A x \in Thread : x # t => b[x] = a[x]
  OBVIOUS
<1>2. /\ Cardinality(W(a)) \in Nat /\ Cardinality(W(b)) \in Nat
      /\ Cardinality(W(b)) + One(t \in Worker /\ a[t].c = c)
           = Cardinality(W(a)) + One(t \in Worker /\ r.c = c)
  <2>1. IsFiniteSet(W(a)) /\ IsFiniteSet(W(b))
    BY ThreadFacts, FS_Subset
  <2>2. W(a) \ {t} = W(b) \ {t}
    BY <1>1, ThreadFacts
  <2>3. (t \in W(a) <=> t \in Worker /\ a[t].c = c) /\ (t \in W(b) <=> t \in Worker /\ r.c = c)
    BY <1>1
  <2> HIDE DEF W
  <2>4. /\ Cardinality(W(a)) \in Nat /\ Cardinality(W(b)) \in Nat
        /\ Cardinality(W(b)) + One(t \in W(a)) = Cardinality(W(a)) + One(t \in W(b))
    BY <2>1, <2>2, CardReplace
  <2> QED
    BY <2>3, <2>4 DEF One
<1>3. /\ Cardinality(D(a)) \in Nat /\ Cardinality(D(b)) \in Nat
      /\ Cardinality(D(b)) + One(a[t].pc = "decref" /\ a[t].d = c)
           = Cardinality(D(a)) + One(r.pc = "decref" /\ r.d = c)
  <2>1. IsFiniteSet(D(a)) /\ IsFiniteSet(D(b))
    BY ThreadFacts, FS_Subset
  <2>2. D(a) \ {t} = D(b) \ {t}
    BY <1>1
  <2>3. /\ t \in D(a) <=> a[t].pc = "decref" /\ a[t].d = c
        /\ t \in D(b) <=> r.pc = "decref" /\ r.d = c
    BY <1>1
  <2> HIDE DEF D
  <2>4. /\ Cardinality(D(a)) \in Nat /\ Cardinality(D(b)) \in Nat
        /\ Cardinality(D(b)) + One(t \in D(a)) = Cardinality(D(a)) + One(t \in D(b))
    BY <2>1, <2>2, CardReplace
  <2> QED
    BY <2>3, <2>4 DEF One
<1>4. /\ L(a) \in Nat /\ L(b) \in Nat
      /\ L(b) + One(t = Listener /\ a[t].pc = "remove" /\ a[t].c = c)
           = L(a) + One(t = Listener /\ r.pc = "remove" /\ r.c = c)
  BY <1>1, ThreadFacts DEF One
<1>5. /\ P(a) \in Nat /\ P(b) \in Nat
      /\ P(b) + One(t = Poll /\ a[t].pc = "add" /\ a[t].c = c)
           = P(a) + One(t = Poll /\ r.pc = "add" /\ r.c = c)
  BY <1>1, ThreadFacts DEF One
<1>6. \A f : ThreadRefs(f, c) = Cardinality(W(f)) + L(f) + P(f) + Cardinality(D(f))
  BY DEF ThreadRefs
<1> DEFINE H1(q) == One(t \in Worker /\ q.c = c)
           H2(q) == One(t = Listener /\ q.pc = "remove" /\ q.c = c)
           H3(q) == One(t = Poll /\ q.pc = "add" /\ q.c = c)
           H4(q) == One(q.pc = "decref" /\ q.d = c)
<1>7. \A q : /\ Held(t, q, c) = H1(q) + H2(q) + H3(q) + H4(q)
             /\ H1(q) \in Nat /\ H2(q) \in Nat /\ H3(q) \in Nat /\ H4(q) \in Nat
  BY DEF Held, One
<1>8. /\ Cardinality(W(b)) + H1(a[t]) = Cardinality(W(a)) + H1(r)
      /\ L(b) + H2(a[t]) = L(a) + H2(r)
      /\ P(b) + H3(a[t]) = P(a) + H3(r)
      /\ Cardinality(D(b)) + H4(a[t]) = Cardinality(D(a)) + H4(r)
  BY <1>2, <1>3, <1>4, <1>5
<1> HIDE DEF W, D, L, P, H1, H2, H3, H4
<1> QED
  BY <1>2, <1>3, <1>4, <1>5, <1>6, <1>7, <1>8

Idle == [pc |-> "idle", c |-> NoConn, d |-> NoConn, then |-> "idle"]

LEMMA IdleHolds == Idle \in Place /\ \A t : \A c \in Conn : Held(t, Idle, c) = 0
<1>1. Idle \in Place
  BY NumberFacts DEF Idle, Place, Pc
<1>2. \A t : \A c \in Conn : Held(t, Idle, c) = 0
  BY NumberFacts DEF Held, One, Idle
<1> QED
  BY <1>1, <1>2

\* Two threads hold no more than all threads.
LEMMA HeldBound ==
  ASSUME NEW a \in [Thread -> Place], NEW c \in Conn, NEW t \in Thread, NEW x \in Thread
  PROVE  /\ ThreadRefs(a, c) \in Nat
         /\ Held(t, a[t], c) \in Nat /\ Held(t, a[t], c) <= ThreadRefs(a, c)
         /\ t # x => Held(t, a[t], c) + Held(x, a[x], c) <= ThreadRefs(a, c)
<1> DEFINE b == [a EXCEPT ![t] = Idle]
           e == [b EXCEPT ![x] = Idle]
<1>1. Idle \in Place /\ Held(t, Idle, c) = 0 /\ Held(x, Idle, c) = 0
  BY IdleHolds
<1>2. b \in [Thread -> Place] /\ (t # x => b[x] = a[x])
  BY <1>1
<1>3. /\ ThreadRefs(a, c) \in Nat /\ ThreadRefs(b, c) \in Nat /\ Held(t, a[t], c) \in Nat
      /\ ThreadRefs(b, c) + Held(t, a[t], c) = ThreadRefs(a, c) + Held(t, Idle, c)
  BY <1>1, ThreadRefsStep
<1> HIDE DEF b
<1>4. /\ ThreadRefs(e, c) \in Nat /\ Held(x, b[x], c) \in Nat
      /\ ThreadRefs(e, c) + Held(x, b[x], c) = ThreadRefs(b, c) + Held(x, Idle, c)
  BY <1>1, <1>2, ThreadRefsStep
<1> HIDE DEF e
<1>5. Held(t, a[t], c) <= ThreadRefs(a, c)
  BY <1>1, <1>3
<1>6. ASSUME t # x PROVE Held(t, a[t], c) + Held(x, a[x], c) <= ThreadRefs(a, c)
  <2>1. Held(x, a[x], c) = Held(x, b[x], c)
    BY <1>2, <1>6
  <2> QED
    BY <1>1, <1>3, <1>4, <2>1
<1> QED
  BY <1>3, <1>5, <1>6

LEMMA JobsFinite ==
  ASSUME RefTypeOK
  PROVE  IsFiniteSet(queued)
<1>1. IsFiniteSet(Job)
  <2>1. IsFiniteSet(1..MaxPdu) /\ IsFiniteSet(1..MaxConn)
    BY NumberFacts, FS_Interval
  <2>2. IsFiniteSet((1..MaxPdu) \X (1..MaxConn))
    BY <2>1, FS_Product
  <2> QED
    BY <2>2 DEF Job, Conn
<1> QED
  BY <1>1, FS_Subset DEF RefTypeOK

LEMMA TableFacts ==
  ASSUME NEW cs, NEW l, NEW q, IsFiniteSet(q), NEW c
  PROVE  /\ Cardinality({j \in q : j[2] = c}) \in Nat
         /\ TableRefs(cs, l, q, c) \in Nat
         /\ TableRefs(cs, l, q, c) = 0 =>
               c \notin cs /\ l # c /\ \A j \in q : j[2] # c
         /\ c \in cs => TableRefs(cs, l, q, c) >= 1
<1> DEFINE J == {j \in q : j[2] = c}
<1>1. IsFiniteSet(J)
  BY FS_Subset
<1>2. Cardinality(J) \in Nat /\ (Cardinality(J) = 0 => J = {})
  BY <1>1, FS_CardinalityType, FS_EmptySet
<1>3. TableRefs(cs, l, q, c) = One(c \in cs) + One(l = c) + Cardinality(J)
  BY DEF TableRefs
<1>4. J = {} => \A j \in q : j[2] # c
  OBVIOUS
<1> HIDE DEF J
<1>5. TableRefs(cs, l, q, c) \in Nat /\ (c \in cs => TableRefs(cs, l, q, c) >= 1)
  BY <1>2, <1>3 DEF One
<1>6. TableRefs(cs, l, q, c) = 0 => c \notin cs /\ l # c /\ Cardinality(J) = 0
  BY <1>2, <1>3 DEF One
<1> QED
  BY <1>2, <1>4, <1>5, <1>6 DEF J

LEMMA HoldersAre ==
  ASSUME NEW c \in Conn, RefTypeOK
  PROVE  Holders(c) = TableRefs(conns, latest, queued, c) + ThreadRefs(at, c)
<1> DEFINE A == One(c \in conns)
           B == One(latest = c)
           J == Cardinality({j \in queued : j[2] = c})
           W == Cardinality({w \in Worker : at[w].c = c})
           L == One(at[Listener].pc = "remove" /\ at[Listener].c = c)
           P == One(at[Poll].pc = "add" /\ at[Poll].c = c)
           D == Cardinality({t \in Thread : at[t].pc = "decref" /\ at[t].d = c})
<1>1. A \in Nat /\ B \in Nat /\ L \in Nat /\ P \in Nat
  BY DEF One
<1>2. J \in Nat
  BY JobsFinite, TableFacts
<1>3. W \in Nat /\ D \in Nat
  <2>1. IsFiniteSet({w \in Worker : at[w].c = c})
    BY ThreadFacts, FS_Subset
  <2>2. IsFiniteSet({t \in Thread : at[t].pc = "decref" /\ at[t].d = c})
    BY ThreadFacts, FS_Subset
  <2> QED
    BY <2>1, <2>2, FS_CardinalityType
<1>4. /\ Holders(c) = A + B + J + W + L + P + D
      /\ TableRefs(conns, latest, queued, c) = A + B + J
      /\ ThreadRefs(at, c) = W + L + P + D
  BY DEF Holders, JobsOn, TableRefs, ThreadRefs
<1> HIDE DEF A, B, J, W, L, P, D
<1> QED
  BY <1>1, <1>2, <1>3, <1>4

-----------------------------------------------------------------------------
(***************************************************************************)
(* What the invariant says of one state.                                   *)
(***************************************************************************)
LEMMA Typing ==
  ASSUME RefTypeOK
  PROVE  /\ at \in [Thread -> Place] /\ \A t \in Thread : at[t] \in Place
         /\ naccept \in Nat /\ naccept <= MaxConn /\ 1..naccept \subseteq Conn
         /\ \A c \in Conn : refno[c] \in Nat /\ leaked[c] \in Nat
<1>1. naccept \in 0..MaxConn /\ refno \in [Conn -> Nat] /\ leaked \in [Conn -> Nat]
      /\ at \in [Thread -> Place]
  BY DEF RefTypeOK, Place
<1> QED
  BY <1>1, NumberFacts

LEMMA CountParts ==
  ASSUME RefTypeOK, CountInv, NEW c \in Conn
  PROVE  /\ TableRefs(conns, latest, queued, c) \in Nat /\ ThreadRefs(at, c) \in Nat
         /\ refno[c] \in Nat /\ leaked[c] \in Nat
         /\ refno[c] = TableRefs(conns, latest, queued, c) + ThreadRefs(at, c) + leaked[c]
<1>1. TableRefs(conns, latest, queued, c) \in Nat
  BY JobsFinite, TableFacts
<1>2. ThreadRefs(at, c) \in Nat
  BY Typing, ThreadFacts, HeldBound
<1> QED
  BY <1>1, <1>2, Typing DEF CountInv

\* A thread that holds a reference keeps the count above zero.
LEMMA HeldCounts ==
  ASSUME RefTypeOK, CountInv, NEW c \in Conn, NEW t \in Thread
  PROVE  Held(t, at[t], c) \in Nat /\ Held(t, at[t], c) <= refno[c]
<1>1. /\ ThreadRefs(at, c) \in Nat
      /\ Held(t, at[t], c) \in Nat /\ Held(t, at[t], c) <= ThreadRefs(at, c)
  BY Typing, HeldBound
<1> QED
  BY <1>1, CountParts

\* Nobody refers to a connection whose count is zero.
LEMMA CountZero ==
  ASSUME RefTypeOK, SoundInv, NEW c \in 1..naccept, refno[c] = 0
  PROVE  /\ c \notin conns /\ latest # c /\ leaked[c] = 0
         /\ \A j \in queued : j[2] # c
         /\ \A w \in Worker : at[w].c # c
         /\ \A t \in Thread : ~Removes(t, c) /\ ~(at[t].pc = "decref" /\ at[t].d = c)
         /\ c \in dead /\ c \notin watched /\ ~PollOn(c)
<1>1. c \in Conn /\ CountInv /\ PlaceInv /\ LiveInv /\ RemoverInv
  BY Typing DEF SoundInv
<1>2. TableRefs(conns, latest, queued, c) = 0 /\ leaked[c] = 0
  BY <1>1, CountParts
<1>3. c \notin conns /\ latest # c /\ \A j \in queued : j[2] # c
  BY <1>2, JobsFinite, TableFacts
<1>4. ASSUME NEW t \in Thread
      PROVE  /\ ~(at[t].pc = "decref" /\ at[t].d = c) /\ (t \in Worker => at[t].c # c)
             /\ ~(t = Listener /\ at[t].pc = "remove" /\ at[t].c = c)
  <2>1. Held(t, at[t], c) = 0
    BY <1>1, HeldCounts, Typing
  <2> QED
    BY <2>1 DEF Held, One
<1>5. \A w \in Worker : at[w].c # c
  BY <1>4, ThreadFacts
<1>6. ASSUME NEW t \in Thread PROVE ~Removes(t, c)
  BY <1>1, <1>4, ThreadFacts DEF Removes, PlaceInv, PollAt
<1>7. c \in dead /\ c \notin watched /\ ~PollOn(c)
  BY <1>1, <1>3, <1>6, ThreadFacts DEF LiveInv, RemoverInv
<1> QED
  BY <1>2, <1>3, <1>4, <1>5, <1>6, <1>7

\* The poll thread never drops the last reference.
LEMMA PollNotLast ==
  ASSUME RefTypeOK, SoundInv, at[Poll].pc = "decref"
  PROVE  /\ at[Poll].d \in 1..naccept
         /\ refno[at[Poll].d] >= 2
<1> DEFINE d == at[Poll].d
<1>1. CountInv /\ PlaceInv /\ LiveInv /\ RemoverInv
  BY DEF SoundInv
<1>2. d \in 1..naccept /\ d \in Conn
  BY <1>1, Typing DEF PlaceInv, PollAt
<1>3. Held(Poll, at[Poll], d) >= 1
  BY DEF Held, One
<1>4. Held(Poll, at[Poll], d) \in Nat /\ Held(Poll, at[Poll], d) <= ThreadRefs(at, d)
  BY <1>2, Typing, ThreadFacts, HeldBound
<1>5. CASE d \in dead
  <2>1. PollOn(d)
    BY DEF PollOn
  <2>2. PICK t \in Worker \cup {Listener} : Removes(t, d)
    BY <1>1, <1>5, <2>1 DEF RemoverInv
  <2>3. t \in Thread /\ t # Poll
    BY ThreadFacts
  <2>4. Held(t, at[t], d) >= 1
    BY <2>2 DEF Held, One, Removes
  <2>5. /\ ThreadRefs(at, d) \in Nat /\ Held(t, at[t], d) \in Nat
        /\ Held(t, at[t], d) + Held(Poll, at[Poll], d) <= ThreadRefs(at, d)
    BY <1>2, <2>3, Typing, ThreadFacts, HeldBound
  <2> HIDE DEF d
  <2> QED
    BY <1>1, <1>2, <1>3, <1>4, <2>4, <2>5, CountParts DEF d
<1>6. CASE d \notin dead
  <2>1. d \in conns
    BY <1>1, <1>2, <1>6 DEF LiveInv
  <2>2. TableRefs(conns, latest, queued, d) >= 1
    BY <2>1, JobsFinite, TableFacts
  <2> HIDE DEF d
  <2> QED
    BY <1>1, <1>2, <1>3, <1>4, <2>2, CountParts DEF d
<1> QED
  BY <1>2, <1>5, <1>6

LEMMA SoundIsExact ==
  ASSUME RefTypeOK, SoundInv
  PROVE  RefExact
<1>1. ASSUME NEW c \in Conn PROVE refno[c] = Holders(c) + leaked[c]
  BY HoldersAre, CountParts DEF SoundInv
<1> QED
  BY <1>1 DEF RefExact

LEMMA SoundIsSafe ==
  ASSUME RefTypeOK, SoundInv
  PROVE  NoUseAfterFree
<1> SUFFICES ASSUME NEW c \in freed
             PROVE  /\ c \notin conns \cup todo \cup watched \cup {latest}
                    /\ JobsOn(c) = {}
                    /\ \A t \in Thread : /\ at[t].c # c
                                         /\ at[t].pc \in {"decref", "zero"} => at[t].d # c
  BY DEF NoUseAfterFree
<1>1. PlaceInv /\ ListenInv /\ ZeroInv /\ todo \subseteq conns
  BY DEF SoundInv, RefTypeOK
<1>2. c \in 1..naccept /\ c # 0
  BY DEF RefTypeOK
<1>3. refno[c] = 0 /\ \A t \in Thread : ~ZeroAt(t, c)
  BY <1>1, <1>2 DEF ZeroInv
<1>4. /\ c \notin conns /\ latest # c
      /\ \A j \in queued : j[2] # c
      /\ \A w \in Worker : at[w].c # c
      /\ \A t \in Thread : ~Removes(t, c) /\ ~(at[t].pc = "decref" /\ at[t].d = c)
      /\ c \in dead /\ c \notin watched /\ ~PollOn(c)
  BY <1>2, <1>3, CountZero
<1>5. at[Listener].c # c
  BY <1>1, <1>2, <1>4, ThreadFacts, NumberFacts DEF PlaceInv, ListenerAt, ListenInv, Removes
<1>6. at[Poll].c # c
  BY <1>1, <1>2, <1>4, NumberFacts DEF PlaceInv, PollAt, PollOn
<1>7. \A t \in Thread : at[t].c # c
  BY <1>4, <1>5, <1>6, ThreadFacts
<1>8. \A t \in Thread : at[t].pc \in {"decref", "zero"} => at[t].d # c
  BY <1>3, <1>4 DEF ZeroAt
<1>9. JobsOn(c) = {}
  BY <1>4 DEF JobsOn
<1> QED
  BY <1>1, <1>4, <1>7, <1>8, <1>9

LEMMA SoundNoCycle ==
  ASSUME RefTypeOK, SoundInv
  PROVE  NoLockCycle
<1> SUFFICES ASSUME NEW t \in Thread, at[t].pc = "zero" PROVE ~MHeld(at[t].d)
  BY DEF NoLockCycle
<1>1. PlaceInv /\ ZeroInv
  BY DEF SoundInv
<1>2. t \in Worker \/ t = Listener
  BY <1>1, ThreadFacts DEF PlaceInv, PollAt
<1>3. at[t].d \in 1..naccept
  BY <1>1, <1>2 DEF PlaceInv, WorkerAt, ListenerAt
<1>4. ZeroAt(t, at[t].d)
  BY DEF ZeroAt
<1>5. refno[at[t].d] = 0
  BY <1>1, <1>3, <1>4 DEF ZeroInv
<1>6. ~PollOn(at[t].d)
  BY <1>3, <1>5, CountZero
<1> QED
  BY <1>1, <1>6 DEF MHeld, PollOn, PlaceInv, PollAt

LEMMA SoundFreesAll ==
  ASSUME RefTypeOK, SoundInv, Drained
  PROVE  freed = {c \in 1..naccept : c # latest /\ leaked[c] = 0}
<1>1. PlaceInv /\ ListenInv /\ CountInv /\ ZeroInv /\ freed \subseteq 1..naccept
  BY DEF SoundInv, RefTypeOK
<1>2. conns = {} /\ queued = {} /\ at[Listener].pc = "done"
      /\ \A t \in Thread : t # Listener => at[t].pc = "idle"
  BY <1>1 DEF Drained, ListenInv
<1>3. ASSUME NEW c \in freed PROVE c # latest /\ leaked[c] = 0
  <2>1. c \in 1..naccept /\ refno[c] = 0
    BY <1>1 DEF ZeroInv
  <2> QED
    BY <2>1, CountZero
<1>4. ASSUME NEW c \in 1..naccept, c # latest, leaked[c] = 0 PROVE c \in freed
  <2>1. c \in Conn /\ c # NoConn
    BY Typing, NumberFacts
  <2>2. TableRefs(conns, latest, queued, c) = 0
    <3>1. {j \in queued : j[2] = c} = {}
      BY <1>2
    <3>2. Cardinality({j \in queued : j[2] = c}) = 0
      BY <3>1, FS_EmptySet
    <3> QED
      BY <1>2, <1>4, <3>2 DEF TableRefs, One
  <2>3. ThreadRefs(at, c) = 0
    <3>1. {w \in Worker : at[w].c = c} = {}
      BY <1>1, <1>2, <2>1, ThreadFacts DEF PlaceInv, WorkerAt
    <3>2. {t \in Thread : at[t].pc = "decref" /\ at[t].d = c} = {}
      BY <1>2
    <3>3. at[Poll].pc = "idle"
      BY <1>2, ThreadFacts
    <3>4. /\ Cardinality({w \in Worker : at[w].c = c}) = 0
          /\ Cardinality({t \in Thread : at[t].pc = "decref" /\ at[t].d = c}) = 0
      BY <3>1, <3>2, FS_EmptySet
    <3> QED
      BY <1>2, <3>3, <3>4 DEF ThreadRefs, One
  <2>4. refno[c] = 0
    BY <1>1, <1>4, <2>1, <2>2, <2>3, CountParts
  <2>5. \A t \in Thread : ~ZeroAt(t, c)
    BY <1>2 DEF ZeroAt
  <2> QED
    BY <1>1, <2>4, <2>5 DEF ZeroInv
<1> QED
  BY <1>1, <1>3, <1>4

-----------------------------------------------------------------------------
(***************************************************************************)
(* What a thread's move does to each part of the invariant.                *)
(***************************************************************************)
Moves(t, r) == r \in Place /\ at' = [at EXCEPT ![t] = r]

LEMMA MoveFacts ==
  ASSUME RefTypeOK, NEW t \in Thread, NEW r, Moves(t, r)
  PROVE  /\ at' \in [Thread -> Place] /\ at'[t] = r /\ r \in Place
         /\ \A x \in Thread : x # t => at'[x] = at[x]
         /\ \A x \in Thread : at'[x] = at[x] \/ (x = t /\ at'[x] = r)
  BY Typing DEF Moves

To(r, pc) == [pc |-> pc, c |-> r.c, d |-> r.d, then |-> r.then]
Dropping(d, c, then) == [pc |-> "decref", c |-> c, d |-> d, then |-> then]

LEMMA GotoMoves ==
  ASSUME RefTypeOK, NEW t \in Thread, NEW pc \in Pc, Goto(t, pc)
  PROVE  Moves(t, To(at[t], pc))
<1>1. at[t] \in Place
  BY Typing
<1>2. [at[t] EXCEPT !.pc = pc] = To(at[t], pc) /\ To(at[t], pc) \in Place
  BY <1>1 DEF Place, To
<1>3. at' = [at EXCEPT ![t] = [at[t] EXCEPT !.pc = pc]]
  BY Typing DEF Goto
<1> QED
  BY <1>2, <1>3 DEF Moves

LEMMA DropMoves ==
  ASSUME NEW t \in Thread, NEW d \in 0..MaxConn, NEW c \in 0..MaxConn, NEW then \in Pc,
         Drop(t, d, c, then)
  PROVE  Moves(t, Dropping(d, c, then))
  BY DEF Moves, Drop, Dropping, Place, Pc

LEMMA AtIs ==
  ASSUME NEW pc \in Pc, NEW c \in 0..MaxConn
  PROVE  /\ At(pc, c) \in Place
         /\ At(pc, c).pc = pc /\ At(pc, c).c = c /\ At(pc, c).d = NoConn
         /\ At(pc, c).then = "idle"
  BY NumberFacts DEF At, Place, Pc

LEMMA MovePlace ==
  ASSUME RefTypeOK, PlaceInv, NEW t \in Thread, NEW r, Moves(t, r), naccept' = naccept,
         t \in Worker => WorkerAt(r, naccept),
         t = Listener => ListenerAt(r, naccept),
         t = Poll => PollAt(r, naccept)
  PROVE  PlaceInv'
<1>1. ASSUME NEW w \in Worker PROVE WorkerAt(at'[w], naccept')
  <2>1. w \in Thread
    BY ThreadFacts
  <2>2. at'[w] = at[w] \/ (w = t /\ at'[w] = r)
    BY <2>1, MoveFacts
  <2> QED
    BY <2>2 DEF PlaceInv
<1>2. ListenerAt(at'[Listener], naccept')
  <2>1. at'[Listener] = at[Listener] \/ (Listener = t /\ at'[Listener] = r)
    BY ThreadFacts, MoveFacts
  <2> QED
    BY <2>1 DEF PlaceInv
<1>3. PollAt(at'[Poll], naccept')
  <2>1. at'[Poll] = at[Poll] \/ (Poll = t /\ at'[Poll] = r)
    BY ThreadFacts, MoveFacts
  <2> QED
    BY <2>1 DEF PlaceInv
<1> QED
  BY <1>1, <1>2, <1>3 DEF PlaceInv

LEMMA MoveSum ==
  ASSUME RefTypeOK, CountInv, NEW t \in Thread, NEW r, Moves(t, r),
         IsFiniteSet(queued'),
         \A c \in Conn : refno'[c] \in Nat /\ leaked'[c] \in Nat,
         \A c \in Conn :
            refno'[c] + Held(t, at[t], c) + TableRefs(conns, latest, queued, c) + leaked[c]
            = refno[c] + Held(t, r, c) + TableRefs(conns', latest', queued', c) + leaked'[c]
  PROVE  \A c \in Conn :
            refno'[c] = TableRefs(conns', latest', queued', c) + ThreadRefs(at', c) + leaked'[c]
<1>1. ASSUME NEW c \in Conn
      PROVE  refno'[c] = TableRefs(conns', latest', queued', c) + ThreadRefs(at', c) + leaked'[c]
  <2>1. TableRefs(conns', latest', queued', c) \in Nat
    BY TableFacts
  <2>2. /\ ThreadRefs(at, c) \in Nat /\ ThreadRefs(at', c) \in Nat
        /\ Held(t, r, c) \in Nat /\ Held(t, at[t], c) \in Nat
        /\ ThreadRefs(at', c) + Held(t, at[t], c) = ThreadRefs(at, c) + Held(t, r, c)
    BY Typing, ThreadRefsStep DEF Moves
  <2>3. /\ TableRefs(conns, latest, queued, c) \in Nat
        /\ refno[c] \in Nat /\ leaked[c] \in Nat
        /\ refno[c] = TableRefs(conns, latest, queued, c) + ThreadRefs(at, c) + leaked[c]
    BY CountParts
  <2>4. refno'[c] \in Nat /\ leaked'[c] \in Nat
    OBVIOUS
  <2>5. refno'[c] + Held(t, at[t], c) + TableRefs(conns, latest, queued, c) + leaked[c]
        = refno[c] + Held(t, r, c) + TableRefs(conns', latest', queued', c) + leaked'[c]
    OBVIOUS
  <2> DEFINE m == refno'[c]
             l == leaked'[c]
             u == TableRefs(conns', latest', queued', c)
             s == TableRefs(conns, latest, queued, c)
             a == ThreadRefs(at, c)
             b == ThreadRefs(at', c)
             g == Held(t, r, c)
             h == Held(t, at[t], c)
             n == refno[c]
             k == leaked[c]
  <2>6. /\ m \in Nat /\ l \in Nat /\ u \in Nat /\ s \in Nat /\ a \in Nat /\ b \in Nat
        /\ g \in Nat /\ h \in Nat /\ n \in Nat /\ k \in Nat
        /\ n = s + a + k /\ b + h = a + g /\ m + h + s + k = n + g + u + l
    BY <2>1, <2>2, <2>3, <2>4, <2>5
  <2> HIDE DEF m, l, u, s, a, b, g, h, n, k
  <2>7. m = u + b + l
    BY <2>6
  <2> QED
    BY <2>7 DEF m, l, u, b
<1> QED
  BY <1>1

LEMMA MoveCount ==
  ASSUME RefTypeOK, CountInv, NEW t \in Thread, NEW r, Moves(t, r), naccept' = naccept,
         IsFiniteSet(queued'),
         \A c \in Conn : refno'[c] \in Nat /\ leaked'[c] \in Nat,
         \A c \in Conn : naccept < c => refno'[c] = 0,
         \A c \in Conn :
            refno'[c] + Held(t, at[t], c) + TableRefs(conns, latest, queued, c) + leaked[c]
            = refno[c] + Held(t, r, c) + TableRefs(conns', latest', queued', c) + leaked'[c]
  PROVE  CountInv'
<1>1. \A c \in Conn :
         refno'[c] = TableRefs(conns', latest', queued', c) + ThreadRefs(at', c) + leaked'[c]
  BY MoveSum
<1> QED
  BY <1>1 DEF CountInv

\* A thread that keeps its references, and no table changes.
LEMMA MoveKeeps ==
  ASSUME RefTypeOK, CountInv, NEW t \in Thread, NEW r, Moves(t, r),
         UNCHANGED <<naccept, refno, conns, latest, queued, leaked>>,
         \A c \in Conn : Held(t, r, c) = Held(t, at[t], c)
  PROVE  CountInv'
<1>1. IsFiniteSet(queued')
  BY JobsFinite
<1>2. \A c \in Conn : refno'[c] \in Nat /\ leaked'[c] \in Nat /\ (naccept < c => refno'[c] = 0)
  BY Typing DEF CountInv
<1>3. \A c \in Conn :
            refno'[c] + Held(t, at[t], c) + TableRefs(conns, latest, queued, c) + leaked[c]
            = refno[c] + Held(t, r, c) + TableRefs(conns', latest', queued', c) + leaked'[c]
  OBVIOUS
<1> QED
  BY <1>1, <1>2, <1>3, MoveCount

LEMMA MoveConss ==
  ASSUME RefTypeOK, ConssInv, NEW t \in Thread, NEW r, Moves(t, r), latest' = latest,
         t \in Worker => /\ Exchanges(r, "newlatest") <=> Exchanges(at[t], "newlatest")
                         /\ Exchanges(r, "switch") <=> Exchanges(at[t], "switch")
                         /\ r.pc \in {"check", "choose"} => at[t].pc \in {"check", "choose"}
  PROVE  ConssInv'
<1>1. ASSUME NEW w \in Worker
      PROVE  /\ Exchanges(at'[w], "newlatest") <=> Exchanges(at[w], "newlatest")
             /\ Exchanges(at'[w], "switch") <=> Exchanges(at[w], "switch")
             /\ at'[w].pc \in {"check", "choose"} => at[w].pc \in {"check", "choose"}
  <2>1. w \in Thread
    BY ThreadFacts
  <2>2. at'[w] = at[w] \/ (w = t /\ at'[w] = r)
    BY <2>1, MoveFacts
  <2> QED
    BY <2>2
<1>2. \A w \in Worker : InConss(at'[w]) <=> InConss(at[w])
  BY <1>1 DEF InConss
<1>3. \A w, x \in Worker : InConss(at'[w]) /\ InConss(at'[x]) => w = x
  BY <1>2 DEF ConssInv
<1>4. \A w \in Worker : Exchanges(at'[w], "switch") => latest' # NoConn
  BY <1>1 DEF ConssInv
<1>5. \A w \in Worker : at'[w].pc \in {"check", "choose"} =>
          latest' # NoConn \/ \E x \in Worker : Exchanges(at'[x], "newlatest")
  BY <1>1 DEF ConssInv
<1>6. \A w \in Worker : Exchanges(at'[w], "newlatest") => latest' = NoConn
  BY <1>1 DEF ConssInv
<1> QED
  BY <1>3, <1>4, <1>5, <1>6 DEF ConssInv

LEMMA MoveListen ==
  ASSUME RefTypeOK, ListenInv, NEW t \in Thread, NEW r, Moves(t, r), t # Listener,
         UNCHANGED <<conns, todo>>, dead \subseteq dead'
  PROVE  ListenInv'
<1>1. at'[Listener] = at[Listener]
  BY ThreadFacts, MoveFacts
<1> QED
  BY <1>1 DEF ListenInv

LEMMA MoveJobs ==
  ASSUME RefTypeOK, JobInv, NEW t \in Thread, NEW r, Moves(t, r), UNCHANGED <<npdu, naccept>>,
         queued' \subseteq queued,
         t = Poll => (r.pc \in {"got", "add"} => at[Poll].pc \in {"got", "add"})
  PROVE  JobInv'
<1>1. at'[Poll].pc \in {"got", "add"} => at[Poll].pc \in {"got", "add"}
  BY ThreadFacts, MoveFacts
<1> QED
  BY <1>1 DEF JobInv

\* Somebody removes the callbacks of a dead connection as long as there are any.
LEMMA MoveRemover ==
  ASSUME RefTypeOK, RemoverInv, NEW t \in Thread, NEW r, Moves(t, r), at[t].pc # "remove",
         t = Poll => r.pc = "idle", watched' \cap dead' \subseteq watched,
         \A c \in dead' : c \in dead \/ (r.pc = "remove" /\ r.c = c)
  PROVE  RemoverInv'
<1>1. at'[Poll] = at[Poll] \/ at'[Poll].pc = "idle"
  BY ThreadFacts, MoveFacts
<1>2. ASSUME NEW c \in dead', c \in watched' \/ PollOn(c)'
      PROVE  \E x \in Worker \cup {Listener} : Removes(x, c)'
  <2>1. PollOn(c)' => PollOn(c)
    BY <1>1 DEF PollOn
  <2>2. CASE c \in dead
    <3>1. PICK x \in Worker \cup {Listener} : Removes(x, c)
      BY <1>2, <2>1, <2>2 DEF RemoverInv
    <3>2. x # t /\ x \in Thread
      BY <3>1, ThreadFacts DEF Removes
    <3>3. Removes(x, c)'
      BY <3>1, <3>2, MoveFacts DEF Removes
    <3> QED
      BY <3>3
  <2>3. CASE r.pc = "remove" /\ r.c = c
    <3>1. Removes(t, c)'
      BY <2>3, MoveFacts DEF Removes
    <3>2. t \in Worker \cup {Listener}
      BY <2>3, ThreadFacts
    <3> QED
      BY <3>1, <3>2
  <2> QED
    BY <2>2, <2>3
<1> QED
  BY <1>2 DEF RemoverInv

LEMMA MoveZero ==
  ASSUME RefTypeOK, ZeroInv, NEW t \in Thread, NEW r, Moves(t, r), UNCHANGED <<naccept, freed>>,
         \A c \in 1..naccept : refno'[c] = 0 <=> refno[c] = 0,
         at[t].pc # "zero", r.pc # "zero"
  PROVE  ZeroInv'
<1>1. \A x \in Thread : \A c : ZeroAt(x, c)' <=> ZeroAt(x, c)
  <2>1. SUFFICES ASSUME NEW x \in Thread, NEW c PROVE ZeroAt(x, c)' <=> ZeroAt(x, c)
    OBVIOUS
  <2>2. at'[x] = at[x] \/ (x = t /\ at'[x] = r)
    BY MoveFacts
  <2> QED
    BY <2>2 DEF ZeroAt
<1>2. \A c \in 1..naccept' : refno'[c] = 0 <=> c \in freed' \/ \E x \in Thread : ZeroAt(x, c)'
  BY <1>1 DEF ZeroInv
<1>3. \A c \in Conn : \A x, y \in Thread : ZeroAt(x, c)' /\ ZeroAt(y, c)' => x = y
  BY <1>1 DEF ZeroInv
<1>4. \A c \in freed' : \A x \in Thread : ~ZeroAt(x, c)'
  BY <1>1 DEF ZeroInv
<1> QED
  BY <1>2, <1>3, <1>4 DEF ZeroInv

-----------------------------------------------------------------------------
(***************************************************************************)
(* The steps of rpcs::dispatch.                                            *)
(***************************************************************************)
\* What they have in common.
LEMMA WorkerStep ==
  ASSUME RefTypeOK, SoundInv, NEW w \in Worker, NEW r, Moves(w, r), WorkerAt(r, naccept),
         UNCHANGED <<naccept, conns, todo, watched, freed, npdu>>,
         queued' \subseteq queued, dead \subseteq dead',
         \A c \in dead' : c \in dead \/ (r.pc = "remove" /\ r.c = c),
         at[w].pc \notin {"zero", "remove"}, r.pc # "zero",
         \A c \in 1..naccept : refno'[c] = 0 <=> refno[c] = 0,
         ConssInv', CountInv'
  PROVE  SoundInv'
<1>1. w \in Thread /\ w # Listener /\ w # Poll
  BY ThreadFacts
<1>2. PlaceInv /\ ListenInv /\ JobInv /\ LiveInv /\ RemoverInv /\ ZeroInv
  BY DEF SoundInv
<1>3. PlaceInv'
  BY <1>1, <1>2, MovePlace
<1>4. ListenInv'
  BY <1>1, <1>2, MoveListen
<1>5. JobInv'
  BY <1>1, <1>2, MoveJobs
<1>6. LiveInv'
  BY <1>2 DEF LiveInv
<1>7. RemoverInv'
  BY <1>1, <1>2, MoveRemover
<1>8. ZeroInv'
  BY <1>1, <1>2, MoveZero
<1> QED
  BY <1>3, <1>4, <1>5, <1>6, <1>7, <1>8 DEF SoundInv

\* A move that leaves the counts and the client's latest connection alone.
LEMMA WorkerKeeps ==
  ASSUME RefTypeOK, SoundInv, NEW w \in Worker, NEW r, Moves(w, r), WorkerAt(r, naccept),
         UNCHANGED <<naccept, refno, conns, todo, watched, freed, npdu, latest, queued, leaked>>,
         dead \subseteq dead',
         \A c \in dead' : c \in dead \/ (r.pc = "remove" /\ r.c = c),
         at[w].pc \notin {"zero", "remove"}, r.pc # "zero",
         \A c \in Conn : Held(w, r, c) = Held(w, at[w], c),
         Exchanges(r, "newlatest") <=> Exchanges(at[w], "newlatest"),
         Exchanges(r, "switch") <=> Exchanges(at[w], "switch"),
         r.pc \in {"check", "choose"} => at[w].pc \in {"check", "choose"}
  PROVE  SoundInv'
<1>1. w \in Thread /\ ConssInv /\ CountInv
  BY ThreadFacts DEF SoundInv
<1>2. ConssInv'
  BY <1>1, MoveConss
<1>3. CountInv'
  BY <1>1, MoveKeeps
<1>4. \A c \in 1..naccept : refno'[c] = 0 <=> refno[c] = 0
  OBVIOUS
<1> QED
  BY <1>2, <1>3, <1>4, WorkerStep

\* The type invariant, for a step that makes no connection and no job.
LEMMA TypeFrame ==
  ASSUME RefTypeOK, UNCHANGED <<naccept, queued, npdu, raced>>,
         at' \in [Thread -> Place],
         refno' \in [Conn -> Nat], leaked' \in [Conn -> Nat],
         dead' \subseteq 1..naccept, dead \subseteq dead', freed' \subseteq dead',
         watched' \subseteq watched, conns' \subseteq conns, todo' \subseteq conns',
         latest' \in 0..naccept, reachable' \in BOOLEAN
  PROVE  RefTypeOK'
  BY DEF RefTypeOK, Place

LEMMA WorkerFacts ==
  ASSUME RefTypeOK, SoundInv, NEW w \in Worker
  PROVE  /\ w \in Thread /\ WorkerAt(at[w], naccept)
         /\ at[w].c \in 0..MaxConn /\ at[w].d \in 0..MaxConn /\ at[w].then \in Pc
         /\ naccept \in Nat /\ 1..naccept \subseteq Conn /\ latest \in 0..naccept
         /\ 0..naccept \subseteq 0..MaxConn
<1>1. w \in Thread /\ WorkerAt(at[w], naccept)
  BY ThreadFacts DEF SoundInv, PlaceInv
<1>2. at[w] \in Place
  BY <1>1, Typing
<1>3. naccept \in Nat /\ naccept <= MaxConn /\ 1..naccept \subseteq Conn
  BY Typing
<1>4. latest \in 0..naccept
  BY DEF RefTypeOK
<1> QED
  BY <1>1, <1>2, <1>3, <1>4, NumberFacts DEF Place

LEMMA CheckStep ==
  ASSUME RefTypeOK, SoundInv, NEW w \in Worker, Check(w)
  PROVE  RefTypeOK' /\ SoundInv'
<1>1. /\ w \in Thread /\ WorkerAt(at[w], naccept) /\ at[w].c \in 1..naccept /\ at[w].c \in 0..MaxConn
      /\ at[w].pc = "check" /\ at[w].then = "idle" /\ 1..naccept \subseteq Conn
  BY WorkerFacts DEF Check, WorkerAt
<1>2. UNCHANGED <<naccept, refno, dead, freed, watched, conns, todo, latest, reachable,
                  queued, npdu, leaked, raced>>
  BY DEF Check
<1>3. PICK r : /\ Moves(w, r)
               /\ \/ r = Dropping(at[w].c, NoConn, "idle")
                  \/ r = To(at[w], "send") \/ r = To(at[w], "choose")
  <2>1. CASE Drop(w, at[w].c, NoConn, "idle")
    BY <1>1, <2>1, DropMoves, NumberFacts DEF Pc
  <2>2. CASE Goto(w, "send")
    BY <1>1, <2>2, GotoMoves DEF Pc
  <2>3. CASE Goto(w, "choose")
    BY <1>1, <2>3, GotoMoves DEF Pc
  <2> QED
    BY <2>1, <2>2, <2>3 DEF Check
<1>4. /\ \/ r.pc = "decref" /\ r.d = at[w].c /\ r.c = NoConn
         \/ r.pc \in {"send", "choose"} /\ r.c = at[w].c
      /\ r.then = "idle"
  BY <1>1, <1>3 DEF Dropping, To
<1>5. WorkerAt(r, naccept)
  BY <1>1, <1>4 DEF WorkerAt
<1>6. \A c \in Conn : Held(w, r, c) = Held(w, at[w], c)
  BY <1>1, <1>4, ThreadFacts, NumberFacts DEF Held, One
<1>7. /\ Exchanges(r, "newlatest") <=> Exchanges(at[w], "newlatest")
      /\ Exchanges(r, "switch") <=> Exchanges(at[w], "switch")
  BY <1>1, <1>4 DEF Exchanges
<1>8. SoundInv'
  BY <1>1, <1>2, <1>3, <1>4, <1>5, <1>6, <1>7, WorkerKeeps
<1>9. RefTypeOK'
  BY <1>1, <1>2, <1>3, MoveFacts, TypeFrame DEF RefTypeOK
<1> QED
  BY <1>8, <1>9

LEMMA SendStep ==
  ASSUME RefTypeOK, SoundInv, NEW w \in Worker, Send(w)
  PROVE  RefTypeOK' /\ SoundInv'
<1>1. /\ w \in Thread /\ WorkerAt(at[w], naccept) /\ at[w].c \in 1..naccept /\ at[w].c \in 0..MaxConn
      /\ at[w].pc = "send" /\ at[w].then = "idle" /\ 1..naccept \subseteq Conn
  BY WorkerFacts DEF Send, WorkerAt
<1>2. UNCHANGED <<naccept, refno, freed, watched, conns, todo, latest, reachable,
                  queued, npdu, leaked, raced>>
  BY DEF Send
<1>3. PICK r : /\ Moves(w, r)
               /\ \/ r = Dropping(at[w].c, NoConn, "idle") /\ dead' = dead
                  \/ r = To(at[w], "remove") /\ dead' = dead \cup {at[w].c}
  <2>1. CASE Drop(w, at[w].c, NoConn, "idle") /\ dead' = dead
    BY <1>1, <2>1, DropMoves, NumberFacts DEF Pc
  <2>2. CASE Goto(w, "remove") /\ dead' = dead \cup {at[w].c}
    BY <1>1, <2>2, GotoMoves DEF Pc
  <2> QED
    BY <2>1, <2>2 DEF Send
<1>4. /\ \/ r.pc = "decref" /\ r.d = at[w].c /\ r.c = NoConn /\ dead' = dead
         \/ r.pc = "remove" /\ r.c = at[w].c /\ dead' = dead \cup {at[w].c}
      /\ r.then = "idle"
  BY <1>1, <1>3 DEF Dropping, To
<1>5. WorkerAt(r, naccept)
  BY <1>1, <1>4 DEF WorkerAt
<1>6. \A c \in Conn : Held(w, r, c) = Held(w, at[w], c)
  BY <1>1, <1>4, ThreadFacts, NumberFacts DEF Held, One
<1>7. /\ Exchanges(r, "newlatest") <=> Exchanges(at[w], "newlatest")
      /\ Exchanges(r, "switch") <=> Exchanges(at[w], "switch")
  BY <1>1, <1>4 DEF Exchanges
<1>8. /\ dead \subseteq dead' /\ \A c \in dead' : c \in dead \/ (r.pc = "remove" /\ r.c = c)
      /\ r.pc \notin {"zero", "check", "choose"}
  BY <1>4
<1>9. SoundInv'
  BY <1>1, <1>2, <1>3, <1>5, <1>6, <1>7, <1>8, WorkerKeeps
<1>10. RefTypeOK'
  <2>1. dead' \subseteq 1..naccept
    BY <1>1, <1>4 DEF RefTypeOK
  <2> QED
    BY <1>1, <1>2, <1>3, <1>8, <2>1, MoveFacts, TypeFrame DEF RefTypeOK
<1> QED
  BY <1>9, <1>10

LEMMA SendOldStep ==
  ASSUME RefTypeOK, SoundInv, NEW w \in Worker, SendOld(w)
  PROVE  RefTypeOK' /\ SoundInv'
<1> DEFINE k == at[w].c
<1>1. /\ w \in Thread /\ WorkerAt(at[w], naccept) /\ k \in 1..naccept /\ k \in 0..MaxConn
      /\ at[w].pc = "sendold" /\ at[w].then \in {"idle", "sendold"} /\ 1..naccept \subseteq Conn
      /\ k \in Conn
  BY WorkerFacts DEF SendOld, WorkerAt
<1>2. UNCHANGED <<naccept, refno, freed, watched, conns, todo, latest, reachable,
                  queued, npdu, raced>>
  BY DEF SendOld
<1>3. ConssInv /\ CountInv
  BY DEF SoundInv
<1>4. CASE /\ leaked' = [leaked EXCEPT ![k] = @ + 1] /\ dead' = dead
           /\ at' = [at EXCEPT ![w] = At("idle", NoConn)]
  <2> DEFINE r == At("idle", NoConn)
  <2>1. r \in Place /\ r.pc = "idle" /\ r.c = NoConn /\ r.then = "idle"
    BY AtIs, NumberFacts DEF Pc
  <2>2. Moves(w, r)
    BY <1>4, <2>1 DEF Moves
  <2>3. leaked' \in [Conn -> Nat] /\ \A c \in Conn : leaked'[c] = leaked[c] + One(c = k)
    BY <1>1, <1>4 DEF RefTypeOK, One
  <2> HIDE DEF r
  <2>4. WorkerAt(r, naccept)
    BY <2>1 DEF WorkerAt
  <2>5. ConssInv'
    BY <1>1, <1>2, <1>3, <2>1, <2>2, MoveConss DEF Exchanges
  <2>6. CountInv'
    <3>1. IsFiniteSet(queued')
      BY <1>2, JobsFinite
    <3>2. \A c \in Conn : refno'[c] \in Nat /\ leaked'[c] \in Nat /\ (naccept < c => refno'[c] = 0)
      BY <1>2, <1>3, <2>3, Typing DEF CountInv
    <3>3. ASSUME NEW c \in Conn
          PROVE  refno'[c] + Held(w, at[w], c) + TableRefs(conns, latest, queued, c) + leaked[c]
                 = refno[c] + Held(w, r, c) + TableRefs(conns', latest', queued', c) + leaked'[c]
      <4>1. Held(w, at[w], c) = One(c = k) /\ Held(w, r, c) = 0 /\ One(c = k) \in Nat
        BY <1>1, <2>1, ThreadFacts, NumberFacts DEF Held, One
      <4>2. TableRefs(conns', latest', queued', c) = TableRefs(conns, latest, queued, c)
            /\ refno'[c] = refno[c]
        BY <1>2
      <4>3. refno[c] \in Nat /\ leaked[c] \in Nat /\ TableRefs(conns, latest, queued, c) \in Nat
        BY <1>3, CountParts
      <4>4. leaked'[c] = leaked[c] + One(c = k)
        BY <2>3
      <4> QED
        BY <4>1, <4>2, <4>3, <4>4
    <3> QED
      BY <1>1, <1>2, <1>3, <2>2, <3>1, <3>2, <3>3, MoveCount
  <2>7. SoundInv'
    BY <1>1, <1>2, <1>4, <2>1, <2>2, <2>4, <2>5, <2>6, WorkerStep
  <2>8. RefTypeOK'
    BY <1>1, <1>2, <1>4, <2>2, <2>3, MoveFacts, TypeFrame DEF RefTypeOK
  <2> QED
    BY <2>7, <2>8
<1>5. CASE /\ k \notin dead /\ dead' = dead \cup {k} /\ leaked' = leaked
           /\ at' = [at EXCEPT ![w].pc = "remove", ![w].then = "sendold"]
  <2> DEFINE r == [pc |-> "remove", c |-> k, d |-> at[w].d, then |-> "sendold"]
  <2>1. r \in Place
    BY <1>1, WorkerFacts DEF Place, Pc
  <2>2. Moves(w, r)
    <3>1. [[at[w] EXCEPT !.pc = "remove"] EXCEPT !.then = "sendold"] = r
      <4>1. at[w] \in Place
        BY <1>1, Typing
      <4> DEFINE q == [pc |-> "remove", c |-> k, d |-> at[w].d, then |-> at[w].then]
      <4>2. [at[w] EXCEPT !.pc = "remove"] = q
        BY <4>1 DEF Place
      <4>3. [q EXCEPT !.then = "sendold"] = r
        OBVIOUS
      <4> HIDE DEF q
      <4> QED
        BY <4>2, <4>3
    <3> DEFINE g == [at EXCEPT ![w] = [at[w] EXCEPT !.pc = "remove"]]
    <3>2. at' = [g EXCEPT ![w] = [g[w] EXCEPT !.then = "sendold"]]
      BY <1>5, Typing
    <3>3. g[w] = [at[w] EXCEPT !.pc = "remove"]
      BY <1>1, Typing
    <3>4. at' = [g EXCEPT ![w] = r]
      BY <3>1, <3>2, <3>3
    <3>5. at' = [at EXCEPT ![w] = r]
      BY <1>1, <3>4, Typing
    <3> QED
      BY <2>1, <3>5 DEF Moves
  <2>3. r.pc = "remove" /\ r.c = k /\ r.then = "sendold"
    OBVIOUS
  <2> HIDE DEF r
  <2>4. WorkerAt(r, naccept)
    BY <1>1, <2>3 DEF WorkerAt
  <2>5. \A c \in Conn : Held(w, r, c) = Held(w, at[w], c)
    BY <1>1, <2>3, ThreadFacts, NumberFacts DEF Held, One
  <2>6. /\ Exchanges(r, "newlatest") <=> Exchanges(at[w], "newlatest")
        /\ Exchanges(r, "switch") <=> Exchanges(at[w], "switch")
    BY <1>1, <2>3 DEF Exchanges
  <2>7. /\ dead \subseteq dead' /\ \A c \in dead' : c \in dead \/ (r.pc = "remove" /\ r.c = c)
    BY <1>5, <2>3
  <2>8. SoundInv'
    BY <1>1, <1>2, <1>5, <2>2, <2>3, <2>4, <2>5, <2>6, <2>7, WorkerKeeps
  <2>9. RefTypeOK'
    <3>1. dead' \subseteq 1..naccept
      BY <1>1, <1>5 DEF RefTypeOK
    <3> QED
      BY <1>1, <1>2, <1>5, <2>2, <2>7, <3>1, MoveFacts, TypeFrame DEF RefTypeOK
  <2> QED
    BY <2>8, <2>9
<1> QED
  BY <1>4, <1>5 DEF SendOld

\* A job leaves the queue with its reference.
LEMMA QueueLess ==
  ASSUME NEW q, IsFiniteSet(q), NEW job \in q, NEW cs, NEW l, NEW c
  PROVE  /\ TableRefs(cs, l, q, c) \in Nat /\ TableRefs(cs, l, q \ {job}, c) \in Nat
         /\ TableRefs(cs, l, q, c) = TableRefs(cs, l, q \ {job}, c) + One(job[2] = c)
<1> DEFINE S == {j \in q : j[2] = c}
           T == {j \in q \ {job} : j[2] = c}
<1>1. IsFiniteSet(S) /\ IsFiniteSet(T) /\ S \ {job} = T \ {job}
  <2>1. IsFiniteSet(S)
    BY FS_Subset
  <2>2. T \subseteq S /\ S \ {job} = T \ {job}
    OBVIOUS
  <2> HIDE DEF S, T
  <2> QED
    BY <2>1, <2>2, FS_Subset
<1>2. job \notin T /\ (job \in S <=> job[2] = c)
  OBVIOUS
<1>3. /\ TableRefs(cs, l, q, c) = One(c \in cs) + One(l = c) + Cardinality(S)
      /\ TableRefs(cs, l, q \ {job}, c) = One(c \in cs) + One(l = c) + Cardinality(T)
      /\ One(c \in cs) \in Nat /\ One(l = c) \in Nat
  BY DEF TableRefs, One
<1> HIDE DEF S, T
<1>4. /\ Cardinality(S) \in Nat /\ Cardinality(T) \in Nat
      /\ Cardinality(T) + One(job \in S) = Cardinality(S) + One(job \in T)
  BY <1>1, CardReplace
<1>5. Cardinality(S) = Cardinality(T) + One(job[2] = c)
  BY <1>2, <1>4 DEF One
<1> QED
  BY <1>3, <1>4, <1>5 DEF One

LEMMA DispatchStep ==
  ASSUME RefTypeOK, SoundInv, NEW w \in Worker, NEW job \in queued, Dispatch(w, job)
  PROVE  RefTypeOK' /\ SoundInv'
<1> DEFINE k == job[2]
<1>1. /\ w \in Thread /\ WorkerAt(at[w], naccept) /\ at[w].pc = "idle" /\ at[w].c = NoConn
      /\ at[w].then = "idle" /\ 1..naccept \subseteq Conn
  BY WorkerFacts DEF Dispatch, WorkerAt
<1>2. UNCHANGED <<naccept, refno, dead, freed, watched, conns, todo, latest, reachable,
                  npdu, leaked, raced>> /\ queued' = queued \ {job}
  BY DEF Dispatch
<1>3. ConssInv /\ CountInv /\ JobInv /\ IsFiniteSet(queued)
  BY JobsFinite DEF SoundInv
<1>4. k \in Conn /\ k \in 1..naccept /\ k \in 0..MaxConn
  <2>1. k \in 1..MaxConn
    BY DEF RefTypeOK, Job, Conn
  <2>2. k <= naccept
    BY <1>3 DEF JobInv
  <2> QED
    BY <2>1, <2>2, Typing, NumberFacts
<1>5. PICK r : /\ Moves(w, r)
               /\ \/ r.pc = "decref" /\ r.d = k /\ r.c = NoConn
                  \/ r.pc \in {"sendold", "register"} /\ r.c = k
               /\ r.then = "idle"
  <2>1. CASE Drop(w, k, NoConn, "idle")
    <3>1. Moves(w, Dropping(k, NoConn, "idle"))
      BY <1>1, <1>4, <2>1, DropMoves, NumberFacts DEF Pc
    <3> QED
      BY <3>1 DEF Dropping
  <2>2. CASE \E pc \in {"sendold", "register"} : at' = [at EXCEPT ![w] = At(pc, k)]
    <3>1. PICK pc \in {"sendold", "register"} : at' = [at EXCEPT ![w] = At(pc, k)]
      BY <2>2
    <3>2. At(pc, k) \in Place /\ At(pc, k).pc = pc /\ At(pc, k).c = k /\ At(pc, k).then = "idle"
      BY <1>4, AtIs DEF Pc
    <3>3. Moves(w, At(pc, k))
      BY <3>1, <3>2 DEF Moves
    <3> QED
      BY <3>2, <3>3
  <2> QED
    BY <2>1, <2>2 DEF Dispatch
<1> HIDE DEF k
<1>6. WorkerAt(r, naccept)
  BY <1>4, <1>5 DEF WorkerAt
<1>7. ConssInv'
  BY <1>1, <1>2, <1>3, <1>5, MoveConss DEF Exchanges
<1>8. CountInv'
  <2>1. IsFiniteSet(queued')
    BY <1>2, <1>3, FS_RemoveElement
  <2>2. \A c \in Conn : refno'[c] \in Nat /\ leaked'[c] \in Nat /\ (naccept < c => refno'[c] = 0)
    BY <1>2, <1>3, Typing DEF CountInv
  <2>3. ASSUME NEW c \in Conn
        PROVE  refno'[c] + Held(w, at[w], c) + TableRefs(conns, latest, queued, c) + leaked[c]
               = refno[c] + Held(w, r, c) + TableRefs(conns', latest', queued', c) + leaked'[c]
    <3>1. Held(w, at[w], c) = 0 /\ Held(w, r, c) = One(k = c) /\ One(k = c) \in Nat
      BY <1>1, <1>5, ThreadFacts, NumberFacts DEF Held, One
    <3>2. /\ TableRefs(conns, latest, queued, c) \in Nat
          /\ TableRefs(conns', latest', queued', c) \in Nat
          /\ TableRefs(conns, latest, queued, c)
               = TableRefs(conns', latest', queued', c) + One(k = c)
      BY <1>2, <1>3, QueueLess DEF k
    <3>3. refno[c] \in Nat /\ leaked[c] \in Nat /\ refno'[c] = refno[c] /\ leaked'[c] = leaked[c]
      BY <1>2, Typing
    <3> QED
      BY <3>1, <3>2, <3>3
  <2> QED
    BY <1>1, <1>2, <1>3, <1>5, <2>1, <2>2, <2>3, MoveCount
<1>9. SoundInv'
  BY <1>1, <1>2, <1>5, <1>6, <1>7, <1>8, WorkerStep
<1>10. RefTypeOK'
  <2>1. Cardinality(queued') <= MaxQueue
    <3>1. Cardinality(queued') = Cardinality(queued) - 1 /\ Cardinality(queued) \in Nat
      BY <1>2, <1>3, FS_RemoveElement, FS_CardinalityType
    <3> QED
      BY <3>1, NumberFacts DEF RefTypeOK
  <2>2. queued' \subseteq Job
    BY <1>2 DEF RefTypeOK
  <2>3. at' \in [Thread -> Place]
    BY <1>1, <1>5, MoveFacts
  <2> QED
    BY <1>2, <2>1, <2>2, <2>3 DEF RefTypeOK, Place
<1> QED
  BY <1>9, <1>10

\* The step of a worker while no other one holds conss_m_.
LEMMA ConssStep ==
  ASSUME RefTypeOK, NEW w \in Worker, NEW r, Moves(w, r),
         \A x \in Worker : x # w => ~InConss(at[x]),
         Exchanges(r, "newlatest") => latest' = NoConn,
         Exchanges(r, "switch") => latest' # NoConn,
         latest' # NoConn \/ Exchanges(r, "newlatest")
  PROVE  ConssInv'
<1>1. w \in Thread /\ at'[w] = r /\ \A x \in Worker : x # w => at'[x] = at[x]
  BY ThreadFacts, MoveFacts
<1>2. \A x \in Worker : InConss(at'[x]) => x = w
  BY <1>1
<1>3. \A x \in Worker : x # w => ~Exchanges(at'[x], "newlatest") /\ ~Exchanges(at'[x], "switch")
  BY <1>2 DEF InConss
<1>4. \A x \in Worker : Exchanges(at'[x], "newlatest") => latest' = NoConn
  BY <1>1, <1>3
<1>5. \A x \in Worker : Exchanges(at'[x], "switch") => latest' # NoConn
  BY <1>1, <1>3
<1>6. latest' # NoConn \/ \E x \in Worker : Exchanges(at'[x], "newlatest")
  BY <1>1
<1>7. \A x, y \in Worker : InConss(at'[x]) /\ InConss(at'[y]) => x = y
  BY <1>2
<1> QED
  BY <1>4, <1>5, <1>6, <1>7 DEF ConssInv

LEMMA ConssFree ==
  ASSUME ~ConssMHeld, NEW x \in Worker
  PROVE  ~InConss(at[x])
  BY DEF ConssMHeld, InConss, Exchanges

LEMMA RegisterStep ==
  ASSUME RefTypeOK, SoundInv, NEW w \in Worker, Register(w)
  PROVE  RefTypeOK' /\ SoundInv'
<1> DEFINE k == at[w].c
<1>1. /\ w \in Thread /\ WorkerAt(at[w], naccept) /\ k \in 1..naccept /\ k \in 0..MaxConn
      /\ at[w].pc = "register" /\ at[w].then = "idle" /\ 1..naccept \subseteq Conn
      /\ latest \in 0..naccept /\ latest \in 0..MaxConn
  BY WorkerFacts DEF Register, WorkerAt
<1>2. UNCHANGED <<naccept, refno, dead, freed, watched, conns, todo, reachable,
                  queued, npdu, leaked, raced>>
  BY DEF Register
<1>3. CountInv /\ \A x \in Worker : ~InConss(at[x])
  BY ConssFree DEF SoundInv, Register
<1>4. PICK r : /\ Moves(w, r)
               /\ r.c = k
               /\ \/ latest = NoConn /\ latest' = NoConn /\ r.pc = "newlatest" /\ r.then = "idle"
                  \/ /\ latest # NoConn /\ latest # k /\ latest' = NoConn
                     /\ r.pc = "decref" /\ r.d = latest /\ r.then = "newlatest"
                  \/ latest # NoConn /\ latest' = latest /\ r.pc = "check" /\ r.then = "idle"
  <2>1. CASE latest = NoConn /\ Goto(w, "newlatest") /\ latest' = latest
    <3>1. Moves(w, To(at[w], "newlatest"))
      BY <1>1, <2>1, GotoMoves DEF Pc
    <3> QED
      BY <1>1, <2>1, <3>1 DEF To
  <2>2. CASE /\ latest # NoConn /\ latest < k
             /\ Drop(w, latest, k, "newlatest") /\ latest' = NoConn
    <3>1. Moves(w, Dropping(latest, k, "newlatest"))
      BY <1>1, <2>2, DropMoves DEF Pc
    <3>2. latest # k
      BY <1>1, <2>2
    <3> QED
      BY <1>1, <2>2, <3>1, <3>2 DEF Dropping
  <2>3. CASE latest >= k /\ Goto(w, "check") /\ latest' = latest
    <3>1. Moves(w, To(at[w], "check"))
      BY <1>1, <2>3, GotoMoves DEF Pc
    <3>2. latest # NoConn
      BY <1>1, <2>3, NumberFacts
    <3> QED
      BY <1>1, <2>3, <3>1, <3>2 DEF To
  <2> QED
    BY <2>1, <2>2, <2>3 DEF Register
<1> HIDE DEF k
<1>5. WorkerAt(r, naccept)
  BY <1>1, <1>4, NumberFacts DEF WorkerAt
<1>6. ConssInv'
  BY <1>3, <1>4, ConssStep DEF Exchanges
<1>7. CountInv'
  <2>1. IsFiniteSet(queued')
    BY <1>2, JobsFinite
  <2>2. \A c \in Conn : refno'[c] \in Nat /\ leaked'[c] \in Nat /\ (naccept < c => refno'[c] = 0)
    BY <1>2, <1>3, Typing DEF CountInv
  <2>3. ASSUME NEW c \in Conn
        PROVE  refno'[c] + Held(w, at[w], c) + TableRefs(conns, latest, queued, c) + leaked[c]
               = refno[c] + Held(w, r, c) + TableRefs(conns', latest', queued', c) + leaked'[c]
    <3> DEFINE J == Cardinality({j \in queued : j[2] = c})
    <3>1. /\ Held(w, at[w], c) = One(k = c)
          /\ Held(w, r, c) = One(k = c) + One(latest = c /\ latest' = NoConn)
      <4>1. Held(w, at[w], c) = One(k = c)
        BY <1>1, ThreadFacts DEF Held, One, k
      <4>2. Held(w, r, c) = One(k = c) + One(r.pc = "decref" /\ r.d = c)
        BY <1>1, <1>4, ThreadFacts DEF Held, One
      <4>3. One(r.pc = "decref" /\ r.d = c) = One(latest = c /\ latest' = NoConn)
        BY <1>4, NumberFacts DEF One
      <4> QED
        BY <4>1, <4>2, <4>3
    <3>2. /\ TableRefs(conns, latest, queued, c) = One(c \in conns) + One(latest = c) + J
          /\ TableRefs(conns', latest', queued', c) = One(c \in conns) + One(latest' = c) + J
      BY <1>2 DEF TableRefs
    <3>3. One(latest = c) = One(latest' = c) + One(latest = c /\ latest' = NoConn)
      BY <1>4, NumberFacts DEF One
    <3>4. J \in Nat /\ refno[c] \in Nat /\ leaked[c] \in Nat /\ refno'[c] = refno[c] /\ leaked'[c] = leaked[c]
      BY <1>2, Typing, JobsFinite, TableFacts
    <3>5. \A P \in BOOLEAN : One(P) \in Nat
      BY DEF One
    <3> HIDE DEF J
    <3> DEFINE a == One(k = c)
               b == One(latest = c /\ latest' = NoConn)
               d == One(c \in conns)
               e == One(latest = c)
               f == One(latest' = c)
    <3>6. /\ a \in Nat /\ b \in Nat /\ d \in Nat /\ e \in Nat /\ f \in Nat
          /\ Held(w, at[w], c) = a /\ Held(w, r, c) = a + b /\ e = f + b
          /\ TableRefs(conns, latest, queued, c) = d + e + J
          /\ TableRefs(conns', latest', queued', c) = d + f + J
      BY <3>1, <3>2, <3>3 DEF One
    <3> HIDE DEF a, b, d, e, f
    <3> QED
      BY <3>4, <3>6
  <2> QED
    BY <1>1, <1>2, <1>3, <1>4, <2>1, <2>2, <2>3, MoveCount
<1>8. SoundInv'
  BY <1>1, <1>2, <1>4, <1>5, <1>6, <1>7, WorkerStep
<1>9. RefTypeOK'
  <2>1. latest' \in 0..naccept
    BY <1>1, <1>4, NumberFacts, Typing
  <2> QED
    BY <1>1, <1>2, <1>4, <2>1, MoveFacts, TypeFrame DEF RefTypeOK
<1> QED
  BY <1>8, <1>9

\* incref of a connection that somebody refers to.
LEMMA IncrefIs ==
  ASSUME RefTypeOK, NEW k \in 1..naccept, Incref(k)
  PROVE  /\ refno' \in [Conn -> Nat]
         /\ \A c \in Conn : refno'[c] = refno[c] + One(k = c) /\ refno'[c] \in Nat
         /\ refno[k] # 0 => \A c \in 1..naccept : refno'[c] = 0 <=> refno[c] = 0
<1>1. k \in Conn /\ 1..naccept \subseteq Conn /\ refno \in [Conn -> Nat]
  BY Typing DEF RefTypeOK
<1>2. refno' = [refno EXCEPT ![k] = refno[k] + 1]
  BY DEF Incref
<1>3. refno' \in [Conn -> Nat] /\ \A c \in Conn : refno'[c] = refno[c] + One(k = c)
  BY <1>1, <1>2 DEF One
<1> QED
  BY <1>1, <1>3 DEF One

LEMMA NewLatestStep ==
  ASSUME RefTypeOK, SoundInv, NEW w \in Worker, NewLatest(w)
  PROVE  RefTypeOK' /\ SoundInv'
<1> DEFINE k == at[w].c
           r == To(at[w], "check")
<1>1. /\ w \in Thread /\ WorkerAt(at[w], naccept) /\ k \in 1..naccept /\ k \in 0..MaxConn
      /\ at[w].pc = "newlatest" /\ at[w].then = "idle" /\ 1..naccept \subseteq Conn /\ k \in Conn
      /\ k # NoConn
  BY WorkerFacts, NumberFacts DEF NewLatest, WorkerAt
<1>2. /\ UNCHANGED <<naccept, dead, freed, watched, conns, todo, reachable, queued, npdu,
                     leaked, raced>>
      /\ latest' = k /\ Incref(k)
  BY DEF NewLatest
<1>3. CountInv /\ ConssInv
  BY DEF SoundInv
<1>4. Exchanges(at[w], "newlatest") /\ InConss(at[w])
  BY <1>1 DEF Exchanges, InConss
<1>5. latest = NoConn /\ \A x \in Worker : x # w => ~InConss(at[x])
  BY <1>3, <1>4 DEF ConssInv
<1>6. Moves(w, r)
  BY <1>1, GotoMoves DEF NewLatest, Pc
<1>7. r.pc = "check" /\ r.c = k /\ r.then = "idle"
  BY <1>1 DEF To
<1> HIDE DEF k, r
<1>8. WorkerAt(r, naccept)
  BY <1>1, <1>7 DEF WorkerAt
<1>9. ConssInv'
  BY <1>1, <1>2, <1>5, <1>6, <1>7, ConssStep DEF Exchanges
<1>10. Held(w, at[w], k) = 1 /\ refno[k] # 0
  <2>1. Held(w, at[w], k) = 1
    BY <1>1, ThreadFacts DEF Held, One, k
  <2>2. Held(w, at[w], k) <= refno[k] /\ refno[k] \in Nat
    BY <1>1, <1>3, HeldCounts, Typing
  <2> QED
    BY <2>1, <2>2
<1>11. /\ refno' \in [Conn -> Nat]
       /\ \A c \in Conn : refno'[c] = refno[c] + One(k = c) /\ refno'[c] \in Nat
       /\ \A c \in 1..naccept : refno'[c] = 0 <=> refno[c] = 0
  BY <1>1, <1>2, <1>10, IncrefIs
<1>12. CountInv'
  <2>1. IsFiniteSet(queued')
    BY <1>2, JobsFinite
  <2>2. \A c \in Conn : refno'[c] \in Nat /\ leaked'[c] \in Nat
    BY <1>2, <1>11, Typing
  <2>3. \A c \in Conn : naccept < c => refno'[c] = 0
    <3>1. SUFFICES ASSUME NEW c \in Conn, naccept < c PROVE refno'[c] = 0
      OBVIOUS
    <3>2. refno[c] = 0 /\ k # c
      BY <1>1, <1>3, <3>1, Typing DEF CountInv
    <3> QED
      BY <1>11, <3>2 DEF One
  <2>4. ASSUME NEW c \in Conn
        PROVE  refno'[c] + Held(w, at[w], c) + TableRefs(conns, latest, queued, c) + leaked[c]
               = refno[c] + Held(w, r, c) + TableRefs(conns', latest', queued', c) + leaked'[c]
    <3> DEFINE J == Cardinality({j \in queued : j[2] = c})
               b == One(k = c)
               d == One(c \in conns)
    <3>1. Held(w, at[w], c) = b /\ Held(w, r, c) = b
      BY <1>1, <1>7, ThreadFacts DEF Held, One, k
    <3>2. /\ TableRefs(conns, latest, queued, c) = d + J
          /\ TableRefs(conns', latest', queued', c) = d + b + J
      <4>1. J \in Nat
        BY JobsFinite, TableFacts
      <4>2. /\ TableRefs(conns, latest, queued, c) = d + One(latest = c) + J
            /\ TableRefs(conns', latest', queued', c) = d + b + J
        BY <1>2 DEF TableRefs
      <4>3. One(latest = c) = 0 /\ d \in Nat
        BY <1>5, NumberFacts DEF One
      <4> HIDE DEF J, b, d
      <4> QED
        BY <4>1, <4>2, <4>3
    <3>3. J \in Nat /\ b \in Nat /\ d \in Nat
      BY JobsFinite, TableFacts DEF One
    <3>4. refno[c] \in Nat /\ leaked[c] \in Nat /\ refno'[c] = refno[c] + b /\ leaked'[c] = leaked[c]
      BY <1>2, <1>11, Typing
    <3> HIDE DEF J, b, d
    <3> QED
      BY <3>1, <3>2, <3>3, <3>4
  <2> QED
    BY <1>1, <1>2, <1>3, <1>6, <2>1, <2>2, <2>3, <2>4, MoveCount
<1>13. SoundInv'
  BY <1>1, <1>2, <1>6, <1>7, <1>8, <1>9, <1>11, <1>12, WorkerStep
<1>14. RefTypeOK'
  <2>1. latest' \in 0..naccept
    BY <1>1, <1>2, Typing
  <2> QED
    BY <1>1, <1>2, <1>6, <1>11, <2>1, MoveFacts, TypeFrame DEF RefTypeOK
<1> QED
  BY <1>13, <1>14

LEMMA ChooseStep ==
  ASSUME RefTypeOK, SoundInv, NEW w \in Worker, Choose(w)
  PROVE  RefTypeOK' /\ SoundInv'
<1> DEFINE k == at[w].c
<1>1. /\ w \in Thread /\ WorkerAt(at[w], naccept) /\ k \in 1..naccept /\ k \in 0..MaxConn
      /\ at[w].pc = "choose" /\ at[w].then = "idle" /\ 1..naccept \subseteq Conn
  BY WorkerFacts DEF Choose, WorkerAt
<1>2. UNCHANGED <<naccept, refno, dead, freed, watched, conns, todo, latest, reachable,
                  queued, npdu, leaked, raced>>
  BY DEF Choose
<1>3. CountInv /\ ConssInv /\ \A x \in Worker : ~InConss(at[x])
  BY ConssFree DEF SoundInv, Choose
<1>4. latest # NoConn
  BY <1>1, <1>3 DEF ConssInv, InConss
<1>5. PICK r : /\ Moves(w, r)
               /\ \/ r.pc = "decref" /\ r.d = k /\ r.c = NoConn /\ r.then = "switch"
                  \/ r.pc = "send" /\ r.c = k /\ r.then = "idle"
  <2>1. CASE Drop(w, k, NoConn, "switch")
    <3>1. Moves(w, Dropping(k, NoConn, "switch"))
      BY <1>1, <2>1, DropMoves, NumberFacts DEF Pc
    <3> QED
      BY <3>1 DEF Dropping
  <2>2. CASE Goto(w, "send")
    <3>1. Moves(w, To(at[w], "send"))
      BY <1>1, <2>2, GotoMoves DEF Pc
    <3> QED
      BY <1>1, <3>1 DEF To
  <2> QED
    BY <2>1, <2>2 DEF Choose
<1>6. WorkerAt(r, naccept)
  BY <1>1, <1>5 DEF WorkerAt
<1>7. ConssInv'
  BY <1>2, <1>3, <1>4, <1>5, ConssStep DEF Exchanges
<1>8. \A c \in Conn : Held(w, r, c) = Held(w, at[w], c)
  BY <1>1, <1>5, ThreadFacts, NumberFacts DEF Held, One
<1>9. CountInv'
  BY <1>1, <1>2, <1>3, <1>5, <1>8, MoveKeeps
<1>10. SoundInv'
  BY <1>1, <1>2, <1>5, <1>6, <1>7, <1>9, WorkerStep
<1>11. RefTypeOK'
  BY <1>1, <1>2, <1>5, MoveFacts, TypeFrame DEF RefTypeOK
<1> QED
  BY <1>10, <1>11

LEMMA SwitchStep ==
  ASSUME RefTypeOK, SoundInv, NEW w \in Worker, Switch(w)
  PROVE  RefTypeOK' /\ SoundInv'
<1> DEFINE r == At("send", latest)
<1>1. /\ w \in Thread /\ WorkerAt(at[w], naccept) /\ at[w].c = NoConn
      /\ at[w].pc = "switch" /\ at[w].then = "idle" /\ 1..naccept \subseteq Conn
      /\ latest \in 0..naccept /\ latest \in 0..MaxConn
  BY WorkerFacts DEF Switch, WorkerAt
<1>2. /\ UNCHANGED <<naccept, dead, freed, watched, conns, todo, latest, reachable, queued, npdu,
                     leaked, raced>>
      /\ Incref(latest) /\ at' = [at EXCEPT ![w] = r]
  BY DEF Switch
<1>3. CountInv /\ ConssInv
  BY DEF SoundInv
<1>4. Exchanges(at[w], "switch") /\ InConss(at[w])
  BY <1>1 DEF Exchanges, InConss
<1>5. latest # NoConn /\ \A x \in Worker : x # w => ~InConss(at[x])
  BY <1>3, <1>4 DEF ConssInv
<1>6. latest \in 1..naccept /\ latest \in Conn
  BY <1>1, <1>5, NumberFacts, Typing
<1>7. r \in Place /\ r.pc = "send" /\ r.c = latest /\ r.then = "idle"
  BY <1>1, AtIs DEF Pc
<1>8. Moves(w, r)
  BY <1>2, <1>7 DEF Moves
<1> HIDE DEF r
<1>9. WorkerAt(r, naccept)
  BY <1>6, <1>7 DEF WorkerAt
<1>10. ConssInv'
  BY <1>2, <1>5, <1>7, <1>8, ConssStep DEF Exchanges
<1>11. refno[latest] # 0
  <2>1. TableRefs(conns, latest, queued, latest) # 0
    BY JobsFinite, TableFacts
  <2> QED
    BY <1>3, <1>6, <2>1, CountParts
<1>12. /\ refno' \in [Conn -> Nat]
       /\ \A c \in Conn : refno'[c] = refno[c] + One(latest = c) /\ refno'[c] \in Nat
       /\ \A c \in 1..naccept : refno'[c] = 0 <=> refno[c] = 0
  BY <1>2, <1>6, <1>11, IncrefIs
<1>13. CountInv'
  <2>1. IsFiniteSet(queued')
    BY <1>2, JobsFinite
  <2>2. \A c \in Conn : refno'[c] \in Nat /\ leaked'[c] \in Nat
    BY <1>2, <1>12, Typing
  <2>3. \A c \in Conn : naccept < c => refno'[c] = 0
    <3>1. SUFFICES ASSUME NEW c \in Conn, naccept < c PROVE refno'[c] = 0
      OBVIOUS
    <3>2. refno[c] = 0 /\ latest # c
      BY <1>3, <1>6, <3>1, Typing DEF CountInv
    <3> QED
      BY <1>12, <3>2 DEF One
  <2>4. ASSUME NEW c \in Conn
        PROVE  refno'[c] + Held(w, at[w], c) + TableRefs(conns, latest, queued, c) + leaked[c]
               = refno[c] + Held(w, r, c) + TableRefs(conns', latest', queued', c) + leaked'[c]
    <3> DEFINE b == One(latest = c)
    <3>1. Held(w, at[w], c) = 0 /\ Held(w, r, c) = b /\ b \in Nat
      BY <1>1, <1>7, ThreadFacts, NumberFacts DEF Held, One
    <3>2. /\ TableRefs(conns', latest', queued', c) = TableRefs(conns, latest, queued, c)
          /\ TableRefs(conns, latest, queued, c) \in Nat
      BY <1>2, <1>3, CountParts
    <3>3. refno[c] \in Nat /\ leaked[c] \in Nat /\ refno'[c] = refno[c] + b /\ leaked'[c] = leaked[c]
      BY <1>2, <1>12, Typing
    <3> HIDE DEF b
    <3> QED
      BY <3>1, <3>2, <3>3
  <2> QED
    BY <1>1, <1>2, <1>3, <1>8, <2>1, <2>2, <2>3, <2>4, MoveCount
<1>14. SoundInv'
  BY <1>1, <1>2, <1>7, <1>8, <1>9, <1>10, <1>12, <1>13, WorkerStep
<1>15. RefTypeOK'
  BY <1>1, <1>2, <1>8, <1>12, MoveFacts, TypeFrame DEF RefTypeOK
<1> QED
  BY <1>14, <1>15

-----------------------------------------------------------------------------
(***************************************************************************)
(* decref, and the removal of callbacks.                                   *)
(***************************************************************************)
\* What a thread that drops a reference works on, and where it goes then.
LEMMA DropperFacts ==
  ASSUME RefTypeOK, SoundInv, NEW t \in Thread, at[t].pc \in {"decref", "zero"}
  PROVE  /\ at[t].d \in 1..naccept /\ at[t].d \in Conn
         /\ at[t].c \in 0..MaxConn /\ at[t].then \in Pc
         /\ t \in Worker => \/ at[t].then \in {"idle", "switch"} /\ at[t].c = NoConn
                            \/ at[t].then = "newlatest" /\ at[t].c \in 1..naccept
         /\ t = Listener => at[t].then \in {"gc", "close"} /\ at[t].c = NoConn
         /\ t = Poll => at[t].then = "idle" /\ at[t].c = NoConn /\ at[t].pc = "decref"
<1>1. at[t] \in Place /\ PlaceInv
  BY Typing DEF SoundInv
<1>2. at[t].c \in 0..MaxConn /\ at[t].then \in Pc
  BY <1>1 DEF Place
<1>3. CASE t \in Worker
  BY <1>1, <1>2, <1>3, ThreadFacts, Typing DEF PlaceInv, WorkerAt
<1>4. CASE t = Listener
  BY <1>1, <1>2, <1>4, ThreadFacts, Typing DEF PlaceInv, ListenerAt
<1>5. CASE t = Poll
  BY <1>1, <1>2, <1>5, ThreadFacts, Typing DEF PlaceInv, PollAt
<1> QED
  BY <1>3, <1>4, <1>5, ThreadFacts

\* It goes on, or it has dropped the last reference.
LEMMA DropperMoves ==
  ASSUME RefTypeOK, SoundInv, NEW t \in Thread, at[t].pc \in {"decref", "zero"},
         NEW r, Moves(t, r),
         \/ r = At(at[t].then, at[t].c)
         \/ r = To(at[t], "zero") /\ t # Poll,
         UNCHANGED <<naccept, dead, watched, conns, todo, latest, queued, npdu>>
  PROVE  /\ PlaceInv' /\ ListenInv' /\ ConssInv' /\ JobInv' /\ LiveInv' /\ RemoverInv'
         /\ \A c \in Conn : Held(t, r, c) = One(t \in Worker /\ at[t].c = c)
         /\ at' \in [Thread -> Place]
<1>1. /\ at[t].d \in 1..naccept /\ at[t].d \in Conn
      /\ at[t].c \in 0..MaxConn /\ at[t].then \in Pc
      /\ t \in Worker => \/ at[t].then \in {"idle", "switch"} /\ at[t].c = NoConn
                         \/ at[t].then = "newlatest" /\ at[t].c \in 1..naccept
      /\ t = Listener => at[t].then \in {"gc", "close"} /\ at[t].c = NoConn
      /\ t = Poll => at[t].then = "idle" /\ at[t].c = NoConn /\ at[t].pc = "decref"
  BY DropperFacts
<1>2. PlaceInv /\ ListenInv /\ ConssInv /\ JobInv /\ LiveInv /\ RemoverInv
  BY DEF SoundInv
<1>3. \/ r.pc = at[t].then /\ r.c = at[t].c /\ r.then = "idle"
      \/ r.pc = "zero" /\ r.c = at[t].c /\ r.d = at[t].d /\ r.then = at[t].then /\ t # Poll
  BY <1>1, AtIs DEF To
<1>4. PlaceInv'
  <2>1. t \in Worker => WorkerAt(r, naccept)
    BY <1>1, <1>3, ThreadFacts DEF WorkerAt
  <2>2. t = Listener => ListenerAt(r, naccept)
    BY <1>1, <1>3, ThreadFacts DEF ListenerAt
  <2>3. t = Poll => PollAt(r, naccept)
    BY <1>1, <1>3, ThreadFacts DEF PollAt
  <2> QED
    BY <1>2, <2>1, <2>2, <2>3, MovePlace
<1>5. ListenInv'
  <2>1. CASE t # Listener
    BY <1>2, <2>1, MoveListen
  <2>2. CASE t = Listener
    <3>1. at'[Listener] = r
      BY <2>2, MoveFacts
    <3> QED
      BY <1>1, <1>2, <1>3, <2>2, <3>1 DEF ListenInv
  <2> QED
    BY <2>1, <2>2
<1>6. ConssInv'
  <2>1. t \in Worker => /\ Exchanges(r, "newlatest") <=> Exchanges(at[t], "newlatest")
                        /\ Exchanges(r, "switch") <=> Exchanges(at[t], "switch")
                        /\ r.pc \notin {"check", "choose"}
    BY <1>1, <1>3, ThreadFacts DEF Exchanges
  <2> QED
    BY <1>2, <2>1, MoveConss
<1>7. /\ t = Poll => r.pc = "idle"
      /\ r.pc # "remove" /\ r.pc # "add" /\ r.pc # "decref"
  BY <1>1, <1>3, ThreadFacts
<1>8. JobInv' /\ LiveInv' /\ RemoverInv'
  <2>1. JobInv'
    BY <1>2, <1>7, MoveJobs
  <2>2. RemoverInv'
    BY <1>2, <1>7, MoveRemover
  <2> QED
    BY <1>2, <2>1, <2>2 DEF LiveInv
<1>9. \A c \in Conn : Held(t, r, c) = One(t \in Worker /\ at[t].c = c)
  BY <1>3, <1>7, <1>1 DEF Held, One
<1> QED
  BY <1>4, <1>5, <1>6, <1>8, <1>9, MoveFacts

LEMMA DecrefStep ==
  ASSUME RefTypeOK, SoundInv, NEW t \in Thread, Decref(t)
  PROVE  RefTypeOK' /\ SoundInv'
<1> DEFINE d == at[t].d
           r == IF refno[d] = 1 THEN To(at[t], "zero") ELSE At(at[t].then, at[t].c)
<1>1. /\ at[t].pc = "decref" /\ refno' = [refno EXCEPT ![d] = @ - 1]
      /\ UNCHANGED <<naccept, dead, freed, watched, conns, todo, latest, reachable, queued,
                     npdu, leaked, raced>>
  BY DEF Decref
<1>2. d \in 1..naccept /\ d \in Conn /\ at[t].c \in 0..MaxConn /\ at[t].then \in Pc /\ at[t] \in Place
  BY <1>1, DropperFacts, Typing
<1>3. CountInv /\ ZeroInv
  BY DEF SoundInv
<1>4. \A c \in Conn : Held(t, at[t], c) = One(t \in Worker /\ at[t].c = c) + One(d = c)
  BY <1>1 DEF Held, One
<1>5. refno[d] \in Nat /\ refno[d] >= 1
  <2>1. Held(t, at[t], d) >= 1
    BY <1>2, <1>4 DEF One
  <2>2. Held(t, at[t], d) \in Nat /\ Held(t, at[t], d) <= refno[d] /\ refno[d] \in Nat
    BY <1>2, <1>3, HeldCounts, Typing
  <2> QED
    BY <2>1, <2>2
<1>6. Moves(t, r)
  <2>1. [at[t] EXCEPT !.pc = "zero"] = To(at[t], "zero") /\ To(at[t], "zero") \in Place
    BY <1>2 DEF To, Place, Pc
  <2>2. At(at[t].then, at[t].c) \in Place
    BY <1>2, AtIs
  <2>3. at' = [at EXCEPT ![t] = IF refno[d] = 1 THEN [at[t] EXCEPT !.pc = "zero"]
                                ELSE At(at[t].then, at[t].c)]
    BY DEF Decref
  <2> QED
    BY <2>1, <2>2, <2>3 DEF Moves
<1>7. \/ r = At(at[t].then, at[t].c) /\ refno[d] # 1
      \/ r = To(at[t], "zero") /\ t # Poll /\ refno[d] = 1
  <2>1. t = Poll => refno[d] >= 2
    BY <1>1, PollNotLast
  <2> QED
    BY <1>5, <2>1
<1> HIDE DEF r
<1>8. /\ PlaceInv' /\ ListenInv' /\ ConssInv' /\ JobInv' /\ LiveInv' /\ RemoverInv'
      /\ \A c \in Conn : Held(t, r, c) = One(t \in Worker /\ at[t].c = c)
      /\ at' \in [Thread -> Place]
  BY <1>1, <1>6, <1>7, DropperMoves
<1>9. /\ refno' \in [Conn -> Nat]
      /\ \A c \in Conn : refno'[c] \in Nat /\ refno'[c] + One(d = c) = refno[c]
      /\ refno'[d] = refno[d] - 1 /\ \A c \in Conn : c # d => refno'[c] = refno[c]
  <2>1. refno \in [Conn -> Nat]
    BY DEF RefTypeOK
  <2> DEFINE n == refno[d] - 1
  <2>2. n \in Nat /\ n + 1 = refno[d] /\ refno' = [refno EXCEPT ![d] = n]
    BY <1>1, <1>5
  <2> HIDE DEF d, n
  <2>3. /\ refno' \in [Conn -> Nat] /\ refno'[d] = n
        /\ \A c \in Conn : c # d => refno'[c] = refno[c]
    BY <1>2, <2>1, <2>2
  <2>4. \A c \in Conn : refno'[c] \in Nat /\ refno'[c] + One(d = c) = refno[c]
    BY <1>2, <2>1, <2>2, <2>3 DEF One
  <2> QED
    BY <2>3, <2>4 DEF n
<1>10. CountInv'
  <2>1. IsFiniteSet(queued')
    BY <1>1, JobsFinite
  <2>2. \A c \in Conn : refno'[c] \in Nat /\ leaked'[c] \in Nat
    BY <1>1, <1>9, Typing
  <2>3. \A c \in Conn : naccept < c => refno'[c] = 0
    <3>1. SUFFICES ASSUME NEW c \in Conn, naccept < c PROVE refno'[c] = 0
      OBVIOUS
    <3>2. refno[c] = 0 /\ d # c
      BY <1>2, <1>3, <3>1, Typing DEF CountInv
    <3> QED
      BY <1>9, <3>2
  <2>4. ASSUME NEW c \in Conn
        PROVE  refno'[c] + Held(t, at[t], c) + TableRefs(conns, latest, queued, c) + leaked[c]
               = refno[c] + Held(t, r, c) + TableRefs(conns', latest', queued', c) + leaked'[c]
    <3> DEFINE a == One(t \in Worker /\ at[t].c = c)
               b == One(d = c)
    <3>1. Held(t, at[t], c) = a + b /\ Held(t, r, c) = a /\ a \in Nat /\ b \in Nat
      BY <1>4, <1>8 DEF One
    <3>2. /\ TableRefs(conns', latest', queued', c) = TableRefs(conns, latest, queued, c)
          /\ TableRefs(conns, latest, queued, c) \in Nat
      BY <1>1, <1>3, CountParts
    <3>3. refno[c] \in Nat /\ leaked[c] \in Nat /\ refno'[c] \in Nat /\ refno'[c] + b = refno[c]
          /\ leaked'[c] = leaked[c]
      BY <1>1, <1>9, Typing
    <3> HIDE DEF a, b
    <3> QED
      BY <3>1, <3>2, <3>3
  <2> QED
    BY <1>1, <1>3, <1>6, <2>1, <2>2, <2>3, <2>4, MoveCount
<1>11. ZeroInv'
  <2>1. CASE r = At(at[t].then, at[t].c) /\ refno[d] # 1
    <3>1. r.pc # "zero"
      <4>1. at[t].then # "zero"
        BY <1>1, DropperFacts, ThreadFacts
      <4> QED
        BY <1>2, <2>1, <4>1, AtIs
    <3>2. \A c \in 1..naccept : refno'[c] = 0 <=> refno[c] = 0
      <4>1. SUFFICES ASSUME NEW c \in 1..naccept PROVE refno'[c] = 0 <=> refno[c] = 0
        OBVIOUS
      <4>2. c \in Conn
        BY Typing
      <4> QED
        BY <1>5, <1>9, <2>1, <4>2
    <3> QED
      BY <1>1, <1>3, <1>6, <3>1, <3>2, MoveZero
  <2>2. CASE r = To(at[t], "zero") /\ refno[d] = 1
    <3>1. r.pc = "zero" /\ r.d = d
      BY <2>2 DEF To
    <3>2. \A x \in Thread : \A c : ZeroAt(x, c)' <=> ZeroAt(x, c) \/ (x = t /\ c = d)
      <4>1. SUFFICES ASSUME NEW x \in Thread, NEW c
                     PROVE  ZeroAt(x, c)' <=> ZeroAt(x, c) \/ (x = t /\ c = d)
        OBVIOUS
      <4>2. at'[t] = r /\ (x # t => at'[x] = at[x])
        BY <1>6, MoveFacts
      <4> QED
        BY <1>1, <3>1, <4>2 DEF ZeroAt
    <3>3. d \notin freed /\ \A x \in Thread : ~ZeroAt(x, d)
      BY <1>2, <1>3, <2>2 DEF ZeroInv
    <3>4. refno'[d] = 0 /\ \A c \in 1..naccept : c # d => refno'[c] = refno[c]
      BY <1>2, <1>9, <2>2, Typing
    <3> HIDE DEF d
    <3>5. \A c \in 1..naccept' : refno'[c] = 0 <=> c \in freed' \/ \E x \in Thread : ZeroAt(x, c)'
      <4>1. SUFFICES ASSUME NEW c \in 1..naccept
                     PROVE  refno'[c] = 0 <=> c \in freed \/ \E x \in Thread : ZeroAt(x, c)'
        BY <1>1
      <4>2. CASE c = d
        BY <3>2, <3>4, <4>2
      <4>3. CASE c # d
        BY <1>3, <3>2, <3>4, <4>3 DEF ZeroInv
      <4> QED
        BY <4>2, <4>3
    <3>6. \A c \in Conn : \A x, y \in Thread : ZeroAt(x, c)' /\ ZeroAt(y, c)' => x = y
      BY <1>3, <3>2, <3>3 DEF ZeroInv
    <3>7. \A c \in freed' : \A x \in Thread : ~ZeroAt(x, c)'
      BY <1>1, <1>3, <3>2, <3>3 DEF ZeroInv
    <3> QED
      BY <3>5, <3>6, <3>7 DEF ZeroInv
  <2> QED
    BY <1>7, <2>1, <2>2
<1>12. RefTypeOK'
  BY <1>1, <1>8, <1>9, TypeFrame DEF RefTypeOK
<1> QED
  BY <1>8, <1>10, <1>11, <1>12 DEF SoundInv

LEMMA DecrefZeroStep ==
  ASSUME RefTypeOK, SoundInv, NEW t \in Thread, DecrefZero(t)
  PROVE  RefTypeOK' /\ SoundInv'
<1> DEFINE d == at[t].d
           r == At(at[t].then, at[t].c)
<1>1. /\ at[t].pc = "zero" /\ at' = [at EXCEPT ![t] = r]
      /\ freed' = (IF d \in dead THEN freed \cup {d} ELSE freed)
      /\ UNCHANGED <<naccept, refno, dead, watched, conns, todo, latest, reachable, queued,
                     npdu, leaked, raced>>
  BY DEF DecrefZero
<1>2. d \in 1..naccept /\ d \in Conn /\ at[t].c \in 0..MaxConn /\ at[t].then \in Pc
      /\ at[t].then # "zero"
  BY <1>1, DropperFacts, ThreadFacts
<1>3. CountInv /\ ZeroInv
  BY DEF SoundInv
<1>4. r \in Place /\ r.pc = at[t].then
  BY <1>2, AtIs
<1>5. Moves(t, r)
  BY <1>1, <1>4 DEF Moves
<1>6. /\ PlaceInv' /\ ListenInv' /\ ConssInv' /\ JobInv' /\ LiveInv' /\ RemoverInv'
      /\ \A c \in Conn : Held(t, r, c) = One(t \in Worker /\ at[t].c = c)
      /\ at' \in [Thread -> Place]
  BY <1>1, <1>5, DropperMoves
<1> HIDE DEF r
<1>7. ZeroAt(t, d)
  BY <1>1 DEF ZeroAt
<1>8. refno[d] = 0 /\ d \in dead
  <2>1. refno[d] = 0
    BY <1>2, <1>3, <1>7 DEF ZeroInv
  <2> QED
    BY <1>2, <2>1, CountZero
<1>9. freed' = freed \cup {d}
  BY <1>1, <1>8
<1>10. CountInv'
  <2>1. \A c \in Conn : Held(t, at[t], c) = One(t \in Worker /\ at[t].c = c)
    BY <1>1 DEF Held, One
  <2> QED
    BY <1>1, <1>3, <1>5, <1>6, <2>1, MoveKeeps
<1>11. ZeroInv'
  <2>1. \A x \in Thread : \A c : ZeroAt(x, c)' <=> ZeroAt(x, c) /\ x # t
    <3>1. SUFFICES ASSUME NEW x \in Thread, NEW c PROVE ZeroAt(x, c)' <=> ZeroAt(x, c) /\ x # t
      OBVIOUS
    <3>2. at'[t] = r /\ (x # t => at'[x] = at[x])
      BY <1>5, MoveFacts
    <3> QED
      BY <1>2, <1>4, <3>2 DEF ZeroAt
  <2>2. \A x \in Thread : ZeroAt(x, d) => x = t
    BY <1>2, <1>3, <1>7 DEF ZeroInv
  <2>3. \A c : ZeroAt(t, c) => c = d
    BY DEF ZeroAt
  <2> HIDE DEF d
  <2>4. \A c \in 1..naccept' : refno'[c] = 0 <=> c \in freed' \/ \E x \in Thread : ZeroAt(x, c)'
    <3>1. SUFFICES ASSUME NEW c \in 1..naccept
                   PROVE  refno[c] = 0 <=> c \in freed' \/ \E x \in Thread : ZeroAt(x, c)'
      BY <1>1
    <3>2. CASE c = d
      BY <1>8, <1>9, <3>2
    <3>3. CASE c # d
      BY <1>3, <1>9, <2>1, <2>3, <3>3 DEF ZeroInv
    <3> QED
      BY <3>2, <3>3
  <2>5. \A c \in Conn : \A x, y \in Thread : ZeroAt(x, c)' /\ ZeroAt(y, c)' => x = y
    BY <1>3, <2>1 DEF ZeroInv
  <2>6. \A c \in freed' : \A x \in Thread : ~ZeroAt(x, c)'
    BY <1>3, <1>9, <2>1, <2>2 DEF ZeroInv
  <2> QED
    BY <2>4, <2>5, <2>6 DEF ZeroInv
<1>12. RefTypeOK'
  <2>1. freed' \subseteq dead'
    BY <1>1, <1>8, <1>9 DEF RefTypeOK
  <2> QED
    BY <1>1, <1>6, <2>1, TypeFrame DEF RefTypeOK
<1> QED
  BY <1>6, <1>10, <1>11, <1>12 DEF SoundInv

LEMMA BlockRemoveStep ==
  ASSUME RefTypeOK, SoundInv, NEW t \in Thread, BlockRemove(t)
  PROVE  RefTypeOK' /\ SoundInv'
<1> DEFINE k == at[t].c
<1>1. /\ at[t].pc = "remove" /\ at[Poll].pc = "idle" /\ watched' = watched \ {k}
      /\ UNCHANGED <<naccept, refno, dead, freed, conns, todo, latest, reachable, queued,
                     npdu, leaked, raced>>
  BY DEF BlockRemove
<1>2. PlaceInv /\ ListenInv /\ ConssInv /\ CountInv /\ JobInv /\ LiveInv /\ RemoverInv /\ ZeroInv
  BY DEF SoundInv
<1>3. t \in Worker \cup {Listener} /\ t # Poll
  BY <1>1, ThreadFacts
<1>4. /\ k \in 1..naccept /\ k \in Conn /\ k \in 0..MaxConn
      /\ t \in Worker => at[t].then \in {"idle", "sendold"}
      /\ t = Listener => at[t].then = "close"
  <2>1. k \in 1..naccept /\ (t \in Worker => at[t].then \in {"idle", "sendold"})
        /\ (t = Listener => at[t].then = "close")
    BY <1>1, <1>2, <1>3 DEF PlaceInv, WorkerAt, ListenerAt
  <2> QED
    BY <2>1, Typing, NumberFacts
<1>5. PICK r : /\ Moves(t, r)
               /\ r.then = at[t].then
               /\ \/ r.pc = "sendold" /\ r.c = k /\ at[t].then = "sendold"
                  \/ r.pc = "decref" /\ r.d = k /\ r.c = NoConn /\ at[t].then # "sendold"
  <2>1. CASE at[t].then = "sendold" /\ Goto(t, "sendold")
    <3>1. Moves(t, To(at[t], "sendold"))
      BY <2>1, GotoMoves DEF Pc
    <3> QED
      BY <2>1, <3>1 DEF To
  <2>2. CASE at[t].then # "sendold" /\ Drop(t, k, NoConn, at[t].then)
    <3>1. at[t].then \in Pc
      BY <1>3, <1>4 DEF Pc
    <3>2. Moves(t, Dropping(k, NoConn, at[t].then))
      BY <1>4, <2>2, <3>1, DropMoves, NumberFacts
    <3> QED
      BY <2>2, <3>2 DEF Dropping
  <2> QED
    BY <2>1, <2>2 DEF BlockRemove
<1>6. PlaceInv'
  <2>1. t \in Worker => WorkerAt(r, naccept)
    BY <1>4, <1>5 DEF WorkerAt
  <2>2. t = Listener => ListenerAt(r, naccept)
    BY <1>4, <1>5 DEF ListenerAt
  <2> QED
    BY <1>1, <1>2, <1>3, <1>5, <2>1, <2>2, MovePlace
<1>7. ListenInv'
  <2>1. CASE t # Listener
    BY <1>1, <1>2, <1>5, <2>1, MoveListen
  <2>2. CASE t = Listener
    <3>1. at'[Listener] = r
      BY <1>5, <2>2, MoveFacts
    <3> QED
      BY <1>1, <1>2, <1>4, <1>5, <2>2, <3>1 DEF ListenInv
  <2> QED
    BY <2>1, <2>2
<1>8. ConssInv'
  <2>1. t \in Worker => /\ Exchanges(r, "newlatest") <=> Exchanges(at[t], "newlatest")
                        /\ Exchanges(r, "switch") <=> Exchanges(at[t], "switch")
                        /\ r.pc \notin {"check", "choose"}
    BY <1>1, <1>4, <1>5 DEF Exchanges
  <2> QED
    BY <1>1, <1>2, <1>5, <2>1, MoveConss
<1>9. JobInv' /\ LiveInv'
  <2>1. JobInv'
    BY <1>1, <1>2, <1>3, <1>5, MoveJobs
  <2> QED
    BY <1>1, <1>2, <2>1 DEF LiveInv
<1>10. RemoverInv'
  <2>1. at'[Poll] = at[Poll]
    BY <1>3, <1>5, ThreadFacts, MoveFacts
  <2>2. ASSUME NEW c \in dead', c \in watched' \/ PollOn(c)'
        PROVE  \E x \in Worker \cup {Listener} : Removes(x, c)'
    <3>1. ~PollOn(c)'
      BY <1>1, <2>1 DEF PollOn
    <3>2. c \in watched /\ c # k /\ c \in dead
      BY <1>1, <2>2, <3>1
    <3>3. PICK x \in Worker \cup {Listener} : Removes(x, c)
      BY <1>2, <3>2 DEF RemoverInv
    <3>4. x # t /\ x \in Thread
      BY <3>2, <3>3, ThreadFacts DEF Removes
    <3>5. Removes(x, c)'
      BY <1>5, <3>3, <3>4, MoveFacts DEF Removes
    <3> QED
      BY <3>5
  <2> QED
    BY <2>2 DEF RemoverInv
<1>11. CountInv'
  <2>1. \A c \in Conn : Held(t, r, c) = Held(t, at[t], c)
    BY <1>1, <1>3, <1>4, <1>5, ThreadFacts, NumberFacts DEF Held, One
  <2> QED
    BY <1>1, <1>2, <1>5, <2>1, MoveKeeps
<1>12. ZeroInv'
  <2>1. \A c \in 1..naccept : refno'[c] = 0 <=> refno[c] = 0
    BY <1>1
  <2> QED
    BY <1>1, <1>2, <1>5, <2>1, MoveZero
<1>13. RefTypeOK'
  BY <1>1, <1>5, MoveFacts, TypeFrame DEF RefTypeOK
<1> QED
  BY <1>6, <1>7, <1>8, <1>9, <1>10, <1>11, <1>12, <1>13 DEF SoundInv

-----------------------------------------------------------------------------
(***************************************************************************)
(* The steps of the poll thread.                                           *)
(***************************************************************************)
\* What they have in common.
LEMMA PollStep ==
  ASSUME RefTypeOK, SoundInv, NEW r, Moves(Poll, r), PollAt(r, naccept), at[Poll].pc # "decref",
         UNCHANGED <<naccept, conns, todo, latest, freed>>, dead \subseteq dead',
         \A c \in 1..naccept : refno'[c] = 0 <=> refno[c] = 0,
         \A c \in dead' : c \in watched' \/ PollOn(c)' => c \in dead /\ (c \in watched \/ PollOn(c)),
         CountInv', JobInv'
  PROVE  SoundInv'
<1>1. Poll \in Thread /\ Poll # Listener /\ Poll \notin Worker
  BY ThreadFacts
<1>2. PlaceInv /\ ListenInv /\ ConssInv /\ LiveInv /\ RemoverInv /\ ZeroInv
  BY DEF SoundInv
<1>3. PlaceInv'
  BY <1>1, <1>2, MovePlace
<1>4. ListenInv'
  BY <1>1, <1>2, MoveListen
<1>5. ConssInv'
  BY <1>1, <1>2, MoveConss
<1>6. LiveInv'
  BY <1>2 DEF LiveInv
<1>7. RemoverInv'
  <2>1. ASSUME NEW c \in dead', c \in watched' \/ PollOn(c)'
        PROVE  \E x \in Worker \cup {Listener} : Removes(x, c)'
    <3>1. PICK x \in Worker \cup {Listener} : Removes(x, c)
      BY <1>2, <2>1 DEF RemoverInv
    <3>2. x # Poll /\ x \in Thread
      BY ThreadFacts
    <3>3. Removes(x, c)'
      BY <1>1, <3>1, <3>2, MoveFacts DEF Removes
    <3> QED
      BY <3>3
  <2> QED
    BY <2>1 DEF RemoverInv
<1>8. ZeroInv'
  <2>1. at[Poll].pc # "zero" /\ r.pc # "zero"
    BY <1>2 DEF PlaceInv, PollAt
  <2> QED
    BY <1>1, <1>2, <2>1, MoveZero
<1> QED
  BY <1>3, <1>4, <1>5, <1>6, <1>7, <1>8 DEF SoundInv

LEMMA PollFacts ==
  ASSUME RefTypeOK, SoundInv
  PROVE  /\ Poll \in Thread /\ PollAt(at[Poll], naccept)
         /\ naccept \in Nat /\ 1..naccept \subseteq Conn /\ 0..naccept \subseteq 0..MaxConn
<1>1. Poll \in Thread /\ PollAt(at[Poll], naccept)
  BY ThreadFacts DEF SoundInv, PlaceInv
<1> QED
  BY <1>1, Typing, NumberFacts

LEMMA PollCallStep ==
  ASSUME RefTypeOK, SoundInv, NEW k \in Conn, PollCall(k)
  PROVE  RefTypeOK' /\ SoundInv'
<1> DEFINE r == At("read_cb", k)
<1>1. /\ at[Poll].pc = "idle" /\ k \in watched /\ at' = [at EXCEPT ![Poll] = r]
      /\ UNCHANGED <<naccept, refno, dead, freed, watched, conns, todo, latest, reachable,
                     queued, npdu, leaked, raced>>
  BY DEF PollCall
<1>2. Poll \in Thread /\ k \in 1..naccept /\ k \in 0..MaxConn
  BY <1>1, ThreadFacts, NumberFacts DEF RefTypeOK
<1>3. r \in Place /\ r.pc = "read_cb" /\ r.c = k
  BY <1>2, AtIs DEF Pc
<1>4. Moves(Poll, r)
  BY <1>1, <1>3 DEF Moves
<1> HIDE DEF r
<1>5. PollAt(r, naccept) /\ at'[Poll] = r
  BY <1>2, <1>3, <1>4, MoveFacts DEF PollAt
<1>6. CountInv'
  <2>1. \A c \in Conn : Held(Poll, r, c) = Held(Poll, at[Poll], c)
    BY <1>1, <1>3, ThreadFacts DEF Held, One
  <2>2. CountInv
    BY DEF SoundInv
  <2> QED
    BY <1>1, <1>2, <1>4, <2>1, <2>2, MoveKeeps
<1>7. JobInv'
  BY <1>1, <1>2, <1>3, <1>4, MoveJobs DEF SoundInv
<1>8. \A c \in dead' : c \in watched' \/ PollOn(c)' => c \in dead /\ (c \in watched \/ PollOn(c))
  BY <1>1, <1>3, <1>5 DEF PollOn
<1>9. \A c \in 1..naccept : refno'[c] = 0 <=> refno[c] = 0
  BY <1>1
<1>10. SoundInv'
  BY <1>1, <1>4, <1>5, <1>6, <1>7, <1>8, <1>9, PollStep
<1>11. RefTypeOK'
  BY <1>1, <1>2, <1>4, MoveFacts, TypeFrame DEF RefTypeOK
<1> QED
  BY <1>10, <1>11

LEMMA ReadCbDeadStep ==
  ASSUME RefTypeOK, SoundInv, ReadCbDead
  PROVE  RefTypeOK' /\ SoundInv'
<1> DEFINE k == at[Poll].c
           r == At("idle", NoConn)
<1>1. /\ at[Poll].pc = "read_cb" /\ dead' = dead \cup {k} /\ at' = [at EXCEPT ![Poll] = r]
      /\ watched' = (IF k \in dead THEN watched ELSE watched \ {k})
      /\ UNCHANGED <<naccept, refno, freed, conns, todo, latest, reachable, queued, npdu,
                     leaked, raced>>
  BY DEF ReadCbDead
<1>2. Poll \in Thread /\ k \in 1..naccept
  BY <1>1, PollFacts DEF PollAt
<1>3. r \in Place /\ r.pc = "idle" /\ r.c = NoConn
  BY NumberFacts, AtIs DEF Pc
<1>4. Moves(Poll, r)
  BY <1>1, <1>3 DEF Moves
<1> HIDE DEF r
<1>5. PollAt(r, naccept) /\ at'[Poll] = r
  BY <1>2, <1>3, <1>4, MoveFacts DEF PollAt
<1>6. CountInv'
  <2>1. \A c \in Conn : Held(Poll, r, c) = Held(Poll, at[Poll], c)
    BY <1>1, <1>3, ThreadFacts DEF Held, One
  <2>2. CountInv
    BY DEF SoundInv
  <2> QED
    BY <1>1, <1>2, <1>4, <2>1, <2>2, MoveKeeps
<1>7. JobInv'
  BY <1>1, <1>2, <1>3, <1>4, MoveJobs DEF SoundInv
<1>8. \A c \in dead' : c \in watched' \/ PollOn(c)' => c \in dead /\ (c \in watched \/ PollOn(c))
  BY <1>1, <1>3, <1>5 DEF PollOn
<1>9. \A c \in 1..naccept : refno'[c] = 0 <=> refno[c] = 0
  BY <1>1
<1>10. SoundInv'
  BY <1>1, <1>4, <1>5, <1>6, <1>7, <1>8, <1>9, PollStep
<1>11. RefTypeOK'
  <2>1. dead' \subseteq 1..naccept /\ dead \subseteq dead' /\ freed' \subseteq dead'
        /\ watched' \subseteq watched
    BY <1>1, <1>2 DEF RefTypeOK
  <2> QED
    BY <1>1, <1>2, <1>4, <2>1, MoveFacts, TypeFrame DEF RefTypeOK
<1> QED
  BY <1>10, <1>11

LEMMA ReadCbStep ==
  ASSUME RefTypeOK, SoundInv, ReadCb
  PROVE  RefTypeOK' /\ SoundInv'
<1> DEFINE k == at[Poll].c
<1>1. /\ at[Poll].pc = "read_cb" /\ k \notin dead /\ npdu < MaxPdu /\ npdu' = npdu + 1
      /\ at' = [at EXCEPT ![Poll] = IF reachable THEN At("got", at[Poll].c) ELSE At("idle", NoConn)]
      /\ UNCHANGED <<naccept, refno, dead, freed, watched, conns, todo, latest, reachable,
                     queued, leaked, raced>>
  BY DEF ReadCb
<1>2. Poll \in Thread /\ k \in 1..naccept /\ k \in 0..MaxConn
  BY <1>1, PollFacts DEF PollAt
<1>3. PICK r : /\ Moves(Poll, r)
               /\ (r.pc = "got" /\ r.c = k) \/ (r.pc = "idle" /\ r.c = NoConn)
  <2>1. At("got", k) \in Place /\ At("got", k).pc = "got" /\ At("got", k).c = k
    BY <1>2, AtIs DEF Pc
  <2>2. At("idle", NoConn) \in Place /\ At("idle", NoConn).pc = "idle" /\ At("idle", NoConn).c = NoConn
    BY NumberFacts, AtIs DEF Pc
  <2>3. CASE reachable
    <3>1. Moves(Poll, At("got", k))
      BY <1>1, <2>1, <2>3 DEF Moves
    <3> QED
      BY <2>1, <3>1
  <2>4. CASE ~reachable
    <3>1. Moves(Poll, At("idle", NoConn))
      BY <1>1, <2>2, <2>4 DEF Moves
    <3> QED
      BY <2>2, <3>1
  <2> QED
    BY <2>3, <2>4
<1>4. PollAt(r, naccept) /\ at'[Poll] = r
  BY <1>2, <1>3, MoveFacts DEF PollAt
<1>5. CountInv'
  <2>1. \A c \in Conn : Held(Poll, r, c) = Held(Poll, at[Poll], c)
    BY <1>1, <1>3, ThreadFacts DEF Held, One
  <2>2. CountInv
    BY DEF SoundInv
  <2> QED
    BY <1>1, <1>2, <1>3, <2>1, <2>2, MoveKeeps
<1>6. npdu \in Nat /\ MaxPdu \in Nat /\ npdu' \in 0..MaxPdu
  BY <1>1, NumberFacts DEF RefTypeOK
<1>7. JobInv'
  <2>1. JobInv /\ \A j \in queued : j[1] \in Nat
    BY DEF SoundInv, RefTypeOK, Job
  <2> QED
    BY <1>1, <1>6, <2>1 DEF JobInv
<1>8. \A c \in dead' : c \in watched' \/ PollOn(c)' => c \in dead /\ (c \in watched \/ PollOn(c))
  BY <1>1, <1>3, <1>4 DEF PollOn
<1>9. \A c \in 1..naccept : refno'[c] = 0 <=> refno[c] = 0
  BY <1>1
<1>10. SoundInv'
  BY <1>1, <1>3, <1>4, <1>5, <1>7, <1>8, <1>9, PollStep
<1>11. RefTypeOK'
  <2>1. at' \in [Thread -> Place]
    BY <1>2, <1>3, MoveFacts
  <2> QED
    BY <1>1, <1>6, <2>1 DEF RefTypeOK, Place
<1> QED
  BY <1>10, <1>11

LEMMA GotPduStep ==
  ASSUME RefTypeOK, SoundInv, GotPdu
  PROVE  RefTypeOK' /\ SoundInv'
<1> DEFINE k == at[Poll].c
           r == To(at[Poll], "add")
<1>1. /\ at[Poll].pc = "got" /\ Incref(k) /\ Goto(Poll, "add")
      /\ UNCHANGED <<naccept, dead, freed, watched, conns, todo, latest, reachable, queued,
                     npdu, leaked, raced>>
  BY DEF GotPdu
<1>2. Poll \in Thread /\ k \in 1..naccept /\ k \in Conn
  BY <1>1, PollFacts DEF PollAt
<1>3. Moves(Poll, r)
  BY <1>1, <1>2, GotoMoves DEF Pc
<1>4. r.pc = "add" /\ r.c = k
  BY DEF To
<1> HIDE DEF r
<1>5. PollAt(r, naccept) /\ at'[Poll] = r
  BY <1>2, <1>3, <1>4, MoveFacts DEF PollAt
<1>6. refno[k] # 0
  <2>1. PollOn(k)
    BY <1>1 DEF PollOn
  <2> QED
    BY <1>2, <2>1, CountZero
<1>7. /\ refno' \in [Conn -> Nat]
      /\ \A c \in Conn : refno'[c] = refno[c] + One(k = c) /\ refno'[c] \in Nat
      /\ \A c \in 1..naccept : refno'[c] = 0 <=> refno[c] = 0
  BY <1>1, <1>2, <1>6, IncrefIs
<1>8. CountInv'
  <2>0. CountInv
    BY DEF SoundInv
  <2>1. IsFiniteSet(queued')
    BY <1>1, JobsFinite
  <2>2. \A c \in Conn : refno'[c] \in Nat /\ leaked'[c] \in Nat
    BY <1>1, <1>7, Typing
  <2>3. \A c \in Conn : naccept < c => refno'[c] = 0
    <3>1. SUFFICES ASSUME NEW c \in Conn, naccept < c PROVE refno'[c] = 0
      OBVIOUS
    <3>2. refno[c] = 0 /\ k # c
      BY <1>2, <2>0, <3>1, Typing DEF CountInv
    <3> QED
      BY <1>7, <3>2 DEF One
  <2>4. ASSUME NEW c \in Conn
        PROVE  refno'[c] + Held(Poll, at[Poll], c) + TableRefs(conns, latest, queued, c) + leaked[c]
               = refno[c] + Held(Poll, r, c) + TableRefs(conns', latest', queued', c) + leaked'[c]
    <3> DEFINE b == One(k = c)
    <3>1. Held(Poll, at[Poll], c) = 0 /\ Held(Poll, r, c) = b /\ b \in Nat
      BY <1>1, <1>4, ThreadFacts DEF Held, One
    <3>2. /\ TableRefs(conns', latest', queued', c) = TableRefs(conns, latest, queued, c)
          /\ TableRefs(conns, latest, queued, c) \in Nat
      BY <1>1, <2>0, CountParts
    <3>3. refno[c] \in Nat /\ leaked[c] \in Nat /\ refno'[c] = refno[c] + b /\ leaked'[c] = leaked[c]
      BY <1>1, <1>7, Typing
    <3> HIDE DEF b
    <3> QED
      BY <3>1, <3>2, <3>3
  <2> QED
    BY <1>1, <1>2, <1>3, <2>0, <2>1, <2>2, <2>3, <2>4, MoveCount
<1>9. JobInv'
  BY <1>1, <1>2, <1>3, MoveJobs DEF SoundInv
<1>10. \A c \in dead' : c \in watched' \/ PollOn(c)' => c \in dead /\ (c \in watched \/ PollOn(c))
  BY <1>1, <1>4, <1>5 DEF PollOn
<1>11. SoundInv'
  BY <1>1, <1>3, <1>5, <1>7, <1>8, <1>9, <1>10, PollStep
<1>12. RefTypeOK'
  BY <1>1, <1>2, <1>3, <1>7, MoveFacts, TypeFrame DEF RefTypeOK
<1> QED
  BY <1>11, <1>12

\* A job enters the queue with its reference.
LEMMA QueueMore ==
  ASSUME NEW q, IsFiniteSet(q), NEW job, job \notin q, NEW p, p = q \cup {job},
         NEW cs, NEW l, NEW c
  PROVE  /\ TableRefs(cs, l, q, c) \in Nat /\ TableRefs(cs, l, p, c) \in Nat
         /\ TableRefs(cs, l, p, c) = TableRefs(cs, l, q, c) + One(job[2] = c)
         /\ IsFiniteSet(p) /\ Cardinality(p) = Cardinality(q) + 1
<1>1. IsFiniteSet(p) /\ job \in p /\ p \ {job} = q /\ Cardinality(p) = Cardinality(q) + 1
  BY FS_AddElement
<1>2. /\ TableRefs(cs, l, p, c) \in Nat /\ TableRefs(cs, l, p \ {job}, c) \in Nat
      /\ TableRefs(cs, l, p, c) = TableRefs(cs, l, p \ {job}, c) + One(job[2] = c)
  BY <1>1, QueueLess
<1> QED
  BY <1>1, <1>2

\* Once a job was deleted while it was queued, still no thread waits for ever.
LEMMA AddJobStep ==
  ASSUME RefTypeOK, SoundInv, ~raced, AddJob
  PROVE  RefTypeOK' /\ IF raced' THEN NoLockCycle' ELSE SoundInv'
<1> DEFINE k == at[Poll].c
           job == <<npdu, k>>
<1>1. /\ at[Poll].pc = "add"
      /\ UNCHANGED <<naccept, refno, dead, freed, watched, conns, todo, latest, reachable,
                     npdu, leaked>>
  BY DEF AddJob
<1>2. Poll \in Thread /\ k \in 1..naccept /\ k \in Conn /\ k \in 0..MaxConn
      /\ naccept \in Nat
  BY <1>1, PollFacts DEF PollAt
<1>3. CountInv /\ JobInv /\ IsFiniteSet(queued) /\ npdu \in Nat /\ npdu > 0 /\ npdu <= MaxPdu
  BY <1>1, JobsFinite, NumberFacts DEF SoundInv, JobInv, RefTypeOK
<1>4. \A c \in 1..naccept : refno'[c] = 0 <=> refno[c] = 0
  BY <1>1
<1>5. \A c \in Conn : refno'[c] \in Nat /\ leaked'[c] \in Nat /\ (naccept < c => refno'[c] = 0)
  BY <1>1, <1>3, Typing DEF CountInv
<1>6. ASSUME Drop(Poll, k, NoConn, "idle")
      PROVE  \E r : Moves(Poll, r) /\ r.pc = "decref" /\ r.d = k /\ r.c = NoConn /\ r.then = "idle"
  <2>1. Moves(Poll, Dropping(k, NoConn, "idle"))
    BY <1>2, <1>6, DropMoves, NumberFacts DEF Pc
  <2> QED
    BY <2>1 DEF Dropping
<1>7. CASE Drop(Poll, k, NoConn, "idle") /\ UNCHANGED <<queued, raced>>
  <2>1. PICK r : Moves(Poll, r) /\ r.pc = "decref" /\ r.d = k /\ r.c = NoConn /\ r.then = "idle"
    BY <1>6, <1>7
  <2>2. PollAt(r, naccept) /\ at'[Poll] = r
    BY <1>2, <2>1, MoveFacts DEF PollAt
  <2>3. CountInv'
    <3>1. \A c \in Conn : Held(Poll, r, c) = Held(Poll, at[Poll], c)
      BY <1>1, <2>1, ThreadFacts DEF Held, One
    <3> QED
      BY <1>1, <1>2, <1>3, <1>7, <2>1, <3>1, MoveKeeps
  <2>4. JobInv'
    BY <1>1, <1>2, <1>3, <1>7, <2>1, MoveJobs
  <2>5. \A c \in dead' : c \in watched' \/ PollOn(c)' => c \in dead /\ (c \in watched \/ PollOn(c))
    BY <1>1, <2>1, <2>2 DEF PollOn
  <2>6. SoundInv'
    BY <1>1, <1>4, <2>1, <2>2, <2>3, <2>4, <2>5, PollStep
  <2>7. RefTypeOK'
    BY <1>1, <1>2, <1>7, <2>1, MoveFacts, TypeFrame DEF RefTypeOK
  <2>8. ~raced'
    BY <1>7
  <2> QED
    BY <2>6, <2>7, <2>8
<1>8. ASSUME ~QueueFull, queued' = queued \cup {job}
      PROVE  /\ job \notin queued /\ queued' \subseteq Job
             /\ IsFiniteSet(queued') /\ Cardinality(queued') <= MaxQueue
             /\ \A c \in Conn :
                   /\ TableRefs(conns', latest', queued', c) \in Nat
                   /\ TableRefs(conns, latest, queued, c) \in Nat
                   /\ TableRefs(conns', latest', queued', c)
                        = TableRefs(conns, latest, queued, c) + One(k = c)
  <2>1. job \notin queued /\ job \in Job /\ job[2] = k
    <3>1. job \in Job /\ job[2] = k /\ job[1] = npdu
      BY <1>2, <1>3, NumberFacts DEF Job
    <3>2. \A j \in queued : j[1] < npdu
      BY <1>1, <1>3 DEF JobInv
    <3> QED
      BY <1>3, <3>1, <3>2
  <2>2. queued' \subseteq Job
    BY <1>8, <2>1 DEF RefTypeOK
  <2> HIDE DEF job
  <2>3. IsFiniteSet(queued') /\ Cardinality(queued') = Cardinality(queued) + 1
    BY <1>3, <1>8, <2>1, QueueMore
  <2>4. Cardinality(queued') <= MaxQueue
    BY <1>3, <1>8, <2>3, NumberFacts, FS_CardinalityType DEF QueueFull
  <2>5. ASSUME NEW c \in Conn
        PROVE  /\ TableRefs(conns', latest', queued', c) \in Nat
               /\ TableRefs(conns, latest, queued, c) \in Nat
               /\ TableRefs(conns', latest', queued', c)
                    = TableRefs(conns, latest, queued, c) + One(k = c)
    <3>1. PICK j : j = job
      OBVIOUS
    <3>2. /\ TableRefs(conns, latest, queued', c) \in Nat
          /\ TableRefs(conns, latest, queued, c) \in Nat
          /\ TableRefs(conns, latest, queued', c)
               = TableRefs(conns, latest, queued, c) + One(j[2] = c)
      BY <1>3, <1>8, <2>1, <3>1, QueueMore
    <3>3. One(j[2] = c) = One(k = c)
      BY <2>1, <3>1 DEF One
    <3> QED
      BY <1>1, <1>8, <3>1, <3>2, <3>3
  <2> QED
    BY <2>1, <2>2, <2>3, <2>4, <2>5
<1>9. CASE /\ ~QueueFull /\ queued' = queued \cup {job} /\ raced' = ~reachable
           /\ reachable /\ at' = [at EXCEPT ![Poll] = At("idle", NoConn)]
  <2> DEFINE r == At("idle", NoConn)
  <2>1. r \in Place /\ r.pc = "idle" /\ r.c = NoConn
    BY NumberFacts, AtIs DEF Pc
  <2>2. Moves(Poll, r)
    BY <1>9, <2>1 DEF Moves
  <2> HIDE DEF r
  <2>3. PollAt(r, naccept) /\ at'[Poll] = r
    BY <1>2, <2>1, <2>2, MoveFacts DEF PollAt
  <2>4. CountInv'
    <3>1. ASSUME NEW c \in Conn
          PROVE  refno'[c] + Held(Poll, at[Poll], c) + TableRefs(conns, latest, queued, c) + leaked[c]
                 = refno[c] + Held(Poll, r, c) + TableRefs(conns', latest', queued', c) + leaked'[c]
      <4> DEFINE b == One(k = c)
      <4>1. Held(Poll, at[Poll], c) = b /\ Held(Poll, r, c) = 0 /\ b \in Nat
        BY <1>1, <2>1, ThreadFacts DEF Held, One
      <4>2. /\ TableRefs(conns', latest', queued', c) \in Nat
            /\ TableRefs(conns, latest, queued, c) \in Nat
            /\ TableRefs(conns', latest', queued', c) = TableRefs(conns, latest, queued, c) + b
        BY <1>8, <1>9
      <4>3. refno[c] \in Nat /\ leaked[c] \in Nat /\ refno'[c] = refno[c] /\ leaked'[c] = leaked[c]
        BY <1>1, Typing
      <4> HIDE DEF b
      <4> QED
        BY <4>1, <4>2, <4>3
    <3>2. IsFiniteSet(queued')
      BY <1>8, <1>9
    <3> QED
      BY <1>1, <1>2, <1>3, <1>5, <2>2, <3>1, <3>2, MoveCount
  <2>5. JobInv'
    <3>1. \A j \in queued' : j[1] <= npdu /\ j[2] <= naccept
      <4>1. job[1] = npdu /\ job[2] = k /\ k <= naccept /\ npdu <= npdu
        BY <1>2, <1>3
      <4> HIDE DEF job
      <4> QED
        BY <1>3, <1>9, <4>1 DEF JobInv
    <3> QED
      BY <1>1, <2>1, <2>3, <3>1 DEF JobInv
  <2>6. \A c \in dead' : c \in watched' \/ PollOn(c)' => c \in dead /\ (c \in watched \/ PollOn(c))
    BY <1>1, <2>1, <2>3 DEF PollOn
  <2>7. SoundInv'
    BY <1>1, <1>4, <2>2, <2>3, <2>4, <2>5, <2>6, PollStep
  <2>8. raced' = FALSE
    BY <1>9
  <2>9. RefTypeOK'
    <3>1. at' \in [Thread -> Place]
      BY <1>2, <2>2, MoveFacts
    <3>2. queued' \subseteq Job /\ Cardinality(queued') <= MaxQueue
      BY <1>8, <1>9
    <3> QED
      BY <1>1, <2>8, <3>1, <3>2 DEF RefTypeOK, Place
  <2> QED
    BY <2>7, <2>8, <2>9
<1>10. CASE /\ ~QueueFull /\ queued' = queued \cup {job} /\ raced' = ~reachable
            /\ ~reachable /\ Drop(Poll, k, NoConn, "idle")
  <2>1. PICK r : Moves(Poll, r) /\ r.pc = "decref" /\ r.d = k /\ r.c = NoConn /\ r.then = "idle"
    BY <1>6, <1>10
  <2>2. raced' = TRUE
    BY <1>10
  <2>3. NoLockCycle'
    <3>1. NoLockCycle
      BY SoundNoCycle
    <3>2. at'[Poll] = r /\ \A t \in Thread : t # Poll => at'[t] = at[t]
      BY <1>2, <2>1, MoveFacts
    <3>3. ASSUME NEW t \in Thread, at'[t].pc = "zero"
          PROVE  ~(at'[Poll].d = at'[t].d /\ at'[Poll].pc \in {"decref", "zero"})
      <4>1. t # Poll /\ at'[t] = at[t]
        BY <2>1, <3>2, <3>3
      <4>2. ~MHeld(at[t].d)
        BY <3>1, <3>3, <4>1 DEF NoLockCycle
      <4>3. at[t].d # k
        BY <1>1, <4>2 DEF MHeld
      <4> QED
        BY <2>1, <3>2, <4>1, <4>3
    <3>4. at'[Poll].pc \notin {"got", "add"}
      BY <2>1, <3>2
    <3> QED
      BY <3>3, <3>4 DEF NoLockCycle, MHeld
  <2>4. RefTypeOK'
    <3>1. at' \in [Thread -> Place]
      BY <1>2, <2>1, MoveFacts
    <3>2. queued' \subseteq Job /\ Cardinality(queued') <= MaxQueue
      BY <1>8, <1>10
    <3> QED
      BY <1>1, <2>2, <3>1, <3>2 DEF RefTypeOK, Place
  <2> QED
    BY <2>2, <2>3, <2>4
<1> QED
  BY <1>7, <1>9, <1>10 DEF AddJob

-----------------------------------------------------------------------------
(***************************************************************************)
(* The steps of the listener.                                              *)
(***************************************************************************)
\* What they have in common, but for the making of a connection.
LEMMA ListenerStep ==
  ASSUME RefTypeOK, SoundInv, NEW r, Moves(Listener, r), ListenerAt(r, naccept),
         UNCHANGED <<naccept, refno, watched, freed, latest, queued, npdu>>,
         \A c \in dead' : c \in dead \/ (r.pc = "remove" /\ r.c = c),
         at[Listener].pc \notin {"remove", "zero"}, r.pc # "zero",
         ListenInv', LiveInv', CountInv'
  PROVE  SoundInv'
<1>1. Listener \in Thread /\ Listener \notin Worker /\ Listener # Poll
  BY ThreadFacts
<1>2. PlaceInv /\ ConssInv /\ JobInv /\ RemoverInv /\ ZeroInv
  BY DEF SoundInv
<1>3. PlaceInv'
  BY <1>1, <1>2, MovePlace
<1>4. ConssInv'
  BY <1>1, <1>2, MoveConss
<1>5. JobInv'
  BY <1>1, <1>2, MoveJobs
<1>6. RemoverInv'
  BY <1>1, <1>2, MoveRemover
<1>7. ZeroInv'
  <2>1. \A c \in 1..naccept : refno'[c] = 0 <=> refno[c] = 0
    OBVIOUS
  <2> QED
    BY <1>1, <1>2, <2>1, MoveZero
<1> QED
  BY <1>3, <1>4, <1>5, <1>6, <1>7 DEF SoundInv

LEMMA ListenerFacts ==
  ASSUME RefTypeOK, SoundInv
  PROVE  /\ Listener \in Thread /\ Listener # Poll /\ Listener \notin Worker
         /\ ListenerAt(at[Listener], naccept) /\ ListenInv
         /\ naccept \in Nat /\ 1..naccept \subseteq Conn /\ Conn \subseteq 0..MaxConn
<1>1. ListenerAt(at[Listener], naccept) /\ ListenInv
  BY DEF SoundInv, PlaceInv
<1> QED
  BY <1>1, ThreadFacts, Typing, NumberFacts

\* A connection leaves conns_ with its reference.
LEMMA ConnsLess ==
  ASSUME NEW cs, NEW k \in cs, NEW l, NEW q, IsFiniteSet(q), NEW c, NEW es, es = cs \ {k}
  PROVE  /\ TableRefs(cs, l, q, c) \in Nat /\ TableRefs(es, l, q, c) \in Nat
         /\ TableRefs(cs, l, q, c) = TableRefs(es, l, q, c) + One(k = c)
<1> DEFINE J == Cardinality({j \in q : j[2] = c})
           a == One(c \in cs)
           b == One(c \in es)
           d == One(l = c)
           e == One(k = c)
<1>1. J \in Nat
  BY TableFacts
<1>2. TableRefs(cs, l, q, c) = a + d + J /\ TableRefs(es, l, q, c) = b + d + J
  BY DEF TableRefs
<1>3. a = b + e /\ a \in Nat /\ b \in Nat /\ d \in Nat /\ e \in Nat
  BY DEF One
<1> HIDE DEF J, a, b, d, e
<1>4. /\ TableRefs(cs, l, q, c) \in Nat /\ TableRefs(es, l, q, c) \in Nat
      /\ TableRefs(cs, l, q, c) = TableRefs(es, l, q, c) + e
  BY <1>1, <1>2, <1>3
<1> QED
  BY <1>4 DEF e

LEMMA GcIsDeadStep ==
  ASSUME RefTypeOK, SoundInv, GcIsDead
  PROVE  RefTypeOK' /\ SoundInv'
<1>1. /\ at[Listener].pc = "gc"
      /\ UNCHANGED <<naccept, refno, dead, freed, watched, conns, latest, reachable, queued,
                     npdu, leaked, raced>>
  BY DEF GcIsDead
<1>2. /\ Listener \in Thread /\ Listener # Poll /\ Listener \notin Worker /\ at[Listener].c = NoConn
      /\ 1..naccept \subseteq Conn /\ Conn \subseteq 0..MaxConn
      /\ at[Listener] \in Place /\ todo \subseteq conns /\ conns \subseteq 1..naccept
  BY <1>1, ListenerFacts, Typing DEF ListenerAt, RefTypeOK
<1>3. PICK r : /\ Moves(Listener, r) /\ todo' \subseteq todo
               /\ \/ r.pc = "listen" /\ r.c = NoConn /\ todo' = {}
                  \/ r.pc = "gcref" /\ r.c \in todo /\ r.c \in dead /\ r.c \notin todo'
                  \/ r.pc = "gc" /\ r.c = NoConn
  <2>1. CASE todo = {} /\ Goto(Listener, "listen") /\ todo' = todo
    <3>1. Moves(Listener, To(at[Listener], "listen"))
      BY <1>2, <2>1, GotoMoves DEF Pc
    <3> QED
      BY <1>2, <2>1, <3>1 DEF To
  <2>2. ASSUME NEW c \in todo, todo' = todo \ {c}, c \in dead,
               at' = [at EXCEPT ![Listener] = At("gcref", c)]
        PROVE  \E r : /\ Moves(Listener, r) /\ todo' \subseteq todo
                      /\ r.pc = "gcref" /\ r.c \in todo /\ r.c \in dead /\ r.c \notin todo'
    <3>0. c \in 0..MaxConn /\ "gcref" \in Pc
      BY <1>2, <2>2 DEF Pc
    <3>1. At("gcref", c) \in Place /\ At("gcref", c).pc = "gcref" /\ At("gcref", c).c = c
      BY <3>0, AtIs
    <3>2. Moves(Listener, At("gcref", c))
      BY <2>2, <3>1 DEF Moves
    <3> QED
      BY <2>2, <3>1, <3>2
  <2>3. ASSUME NEW c \in todo, todo' = todo \ {c}, at' = at
        PROVE  \E r : /\ Moves(Listener, r) /\ todo' \subseteq todo
                      /\ r.pc = "gc" /\ r.c = NoConn
    <3>1. Moves(Listener, at[Listener])
      BY <1>2, <2>3, Typing DEF Moves
    <3> QED
      BY <1>1, <1>2, <2>3, <3>1
  <2>4. \/ todo = {} /\ Goto(Listener, "listen") /\ todo' = todo
        \/ \E c \in todo : /\ todo' = todo \ {c}
                           /\ \/ c \in dead /\ at' = [at EXCEPT ![Listener] = At("gcref", c)]
                              \/ at' = at
    BY DEF GcIsDead
  <2> QED
    BY <2>1, <2>2, <2>3, <2>4
<1>4. ListenerAt(r, naccept)
  BY <1>2, <1>3 DEF ListenerAt
<1>5. ListenInv'
  <2>1. at'[Listener] = r
    BY <1>2, <1>3, MoveFacts
  <2> QED
    BY <1>1, <1>2, <1>3, <2>1 DEF ListenInv
<1>6. LiveInv'
  BY <1>1 DEF SoundInv, LiveInv
<1>7. CountInv'
  <2>1. \A c \in Conn : Held(Listener, r, c) = Held(Listener, at[Listener], c)
    BY <1>1, <1>2, <1>3 DEF Held, One
  <2>2. CountInv
    BY DEF SoundInv
  <2> QED
    BY <1>1, <1>2, <1>3, <2>1, <2>2, MoveKeeps
<1>8. SoundInv'
  BY <1>1, <1>3, <1>4, <1>5, <1>6, <1>7, ListenerStep
<1>9. RefTypeOK'
  <2>1. todo' \subseteq conns'
    BY <1>1, <1>2, <1>3
  <2> QED
    BY <1>1, <1>2, <1>3, <2>1, MoveFacts, TypeFrame DEF RefTypeOK
<1> QED
  BY <1>8, <1>9

LEMMA CloseStep ==
  ASSUME RefTypeOK, SoundInv, Close
  PROVE  RefTypeOK' /\ SoundInv'
<1> DEFINE r == To(at[Listener], "close")
<1>1. /\ at[Listener].pc = "listen" /\ Goto(Listener, "close")
      /\ UNCHANGED <<naccept, refno, dead, freed, watched, conns, todo, latest, reachable, queued,
                     npdu, leaked, raced>>
  BY DEF Close
<1>2. /\ Listener \in Thread /\ Listener # Poll /\ Listener \notin Worker /\ at[Listener].c = NoConn
      /\ ListenInv
  BY <1>1, ListenerFacts DEF ListenerAt
<1>3. Moves(Listener, r)
  BY <1>1, <1>2, GotoMoves DEF Pc
<1>4. r.pc = "close" /\ r.c = NoConn
  BY <1>2 DEF To
<1> HIDE DEF r
<1>5. ListenerAt(r, naccept)
  BY <1>4 DEF ListenerAt
<1>6. ListenInv'
  <2>1. at'[Listener] = r
    BY <1>2, <1>3, MoveFacts
  <2> QED
    BY <1>1, <1>2, <1>4, <2>1 DEF ListenInv
<1>7. LiveInv'
  BY <1>1 DEF SoundInv, LiveInv
<1>8. CountInv'
  <2>1. \A c \in Conn : Held(Listener, r, c) = Held(Listener, at[Listener], c)
    BY <1>1, <1>2, <1>4 DEF Held, One
  <2>2. CountInv
    BY DEF SoundInv
  <2> QED
    BY <1>1, <1>2, <1>3, <2>1, <2>2, MoveKeeps
<1>9. SoundInv'
  BY <1>1, <1>3, <1>4, <1>5, <1>6, <1>7, <1>8, ListenerStep
<1>10. RefTypeOK'
  BY <1>1, <1>2, <1>3, MoveFacts, TypeFrame DEF RefTypeOK
<1> QED
  BY <1>9, <1>10

\* A connection is taken out of conns_, and its reference is in r.
LEMMA TakesOut ==
  ASSUME RefTypeOK, SoundInv, NEW k \in conns, conns' = conns \ {k},
         NEW r, Moves(Listener, r),
         UNCHANGED <<naccept, refno, latest, queued, leaked>>,
         at[Listener].pc \notin {"remove", "decref"},
         \A c \in Conn : Held(Listener, r, c) = One(k = c)
  PROVE  CountInv'
<1>1. Listener \in Thread /\ CountInv /\ Listener \notin Worker /\ Listener # Poll
  BY ThreadFacts DEF SoundInv
<1>2. IsFiniteSet(queued) /\ IsFiniteSet(queued')
  BY JobsFinite
<1>3. \A c \in Conn : refno'[c] \in Nat /\ leaked'[c] \in Nat /\ (naccept < c => refno'[c] = 0)
  BY <1>1, Typing DEF CountInv
<1>4. ASSUME NEW c \in Conn
      PROVE  refno'[c] + Held(Listener, at[Listener], c) + TableRefs(conns, latest, queued, c) + leaked[c]
             = refno[c] + Held(Listener, r, c) + TableRefs(conns', latest', queued', c) + leaked'[c]
  <2> DEFINE b == One(k = c)
  <2>1. Held(Listener, at[Listener], c) = 0 /\ Held(Listener, r, c) = b /\ b \in Nat
    BY <1>1 DEF Held, One
  <2>2. /\ TableRefs(conns', latest', queued', c) \in Nat
        /\ TableRefs(conns, latest, queued, c) \in Nat
        /\ TableRefs(conns, latest, queued, c) = TableRefs(conns', latest', queued', c) + b
    BY <1>2, ConnsLess
  <2>3. refno[c] \in Nat /\ leaked[c] \in Nat /\ refno'[c] = refno[c] /\ leaked'[c] = leaked[c]
    BY Typing
  <2> HIDE DEF b
  <2> QED
    BY <2>1, <2>2, <2>3
<1>5. naccept' = naccept
  OBVIOUS
<1>6. \A c \in Conn : refno'[c] \in Nat /\ leaked'[c] \in Nat
  BY <1>3
<1>7. \A c \in Conn : naccept < c => refno'[c] = 0
  BY <1>3
<1> QED
  BY <1>1, <1>2, <1>4, <1>5, <1>6, <1>7, MoveCount

LEMMA GcRefStep ==
  ASSUME RefTypeOK, SoundInv, GcRef
  PROVE  RefTypeOK' /\ SoundInv'
<1> DEFINE k == at[Listener].c
<1>1. /\ at[Listener].pc = "gcref"
      /\ UNCHANGED <<naccept, refno, dead, freed, watched, todo, latest, reachable, queued,
                     npdu, leaked, raced>>
  BY DEF GcRef
<1>2. /\ Listener \in Thread /\ Listener # Poll /\ Listener \notin Worker
      /\ k \in 1..naccept /\ k \in Conn /\ k \in 0..MaxConn
      /\ k \in conns /\ k \in dead /\ k \notin todo /\ CountInv
  BY <1>1, ListenerFacts DEF ListenerAt, ListenInv, SoundInv
<1>3. PICK r : /\ Moves(Listener, r)
               /\ \/ r.pc = "decref" /\ r.d = k /\ r.c = NoConn /\ r.then = "gc" /\ conns' = conns \ {k}
                  \/ r.pc = "gc" /\ r.c = NoConn /\ conns' = conns
  <2>1. CASE Drop(Listener, k, NoConn, "gc") /\ conns' = conns \ {k}
    <3>1. Moves(Listener, Dropping(k, NoConn, "gc"))
      BY <1>2, <2>1, DropMoves, NumberFacts DEF Pc
    <3> QED
      BY <2>1, <3>1 DEF Dropping
  <2>2. CASE at' = [at EXCEPT ![Listener] = At("gc", NoConn)] /\ conns' = conns
    <3>1. At("gc", NoConn) \in Place /\ At("gc", NoConn).pc = "gc" /\ At("gc", NoConn).c = NoConn
      BY NumberFacts, AtIs DEF Pc
    <3>2. Moves(Listener, At("gc", NoConn))
      BY <2>2, <3>1 DEF Moves
    <3> QED
      BY <2>2, <3>1, <3>2
  <2> QED
    BY <2>1, <2>2 DEF GcRef
<1>4. ListenerAt(r, naccept)
  BY <1>2, <1>3 DEF ListenerAt
<1>5. ListenInv'
  <2>1. at'[Listener] = r
    BY <1>2, <1>3, MoveFacts
  <2> QED
    BY <1>3, <2>1 DEF ListenInv
<1>6. LiveInv'
  BY <1>1, <1>2, <1>3 DEF SoundInv, LiveInv
<1>7. CountInv'
  <2>1. CASE r.pc = "decref" /\ r.d = k /\ r.c = NoConn /\ conns' = conns \ {k}
    <3>1. \A c \in Conn : Held(Listener, r, c) = One(k = c)
      BY <1>2, <2>1 DEF Held, One
    <3> QED
      BY <1>1, <1>2, <1>3, <2>1, <3>1, TakesOut
  <2>2. CASE r.pc = "gc" /\ conns' = conns
    <3>1. \A c \in Conn : Held(Listener, r, c) = Held(Listener, at[Listener], c)
      BY <1>1, <1>2, <2>2 DEF Held, One
    <3> QED
      BY <1>1, <1>2, <1>3, <2>2, <3>1, MoveKeeps
  <2> QED
    BY <1>3, <2>1, <2>2
<1>8. SoundInv'
  <2>1. r.pc # "zero"
    BY <1>3
  <2> QED
    BY <1>1, <1>3, <1>4, <1>5, <1>6, <1>7, <2>1, ListenerStep
<1>9. RefTypeOK'
  <2>1. todo' \subseteq conns' /\ conns' \subseteq conns
    BY <1>1, <1>2, <1>3 DEF RefTypeOK
  <2> QED
    BY <1>1, <1>2, <1>3, <2>1, MoveFacts, TypeFrame DEF RefTypeOK
<1> QED
  BY <1>8, <1>9

LEMMA CloseNextStep ==
  ASSUME RefTypeOK, SoundInv, CloseNext
  PROVE  RefTypeOK' /\ SoundInv'
<1>1. /\ at[Listener].pc = "close"
      /\ UNCHANGED <<naccept, refno, freed, watched, todo, latest, reachable, queued, npdu,
                     leaked, raced>>
  BY DEF CloseNext
<1>2. /\ Listener \in Thread /\ Listener # Poll /\ Listener \notin Worker
      /\ at[Listener].c = NoConn /\ todo = {} /\ CountInv /\ LiveInv
      /\ conns \subseteq 1..naccept /\ 1..naccept \subseteq Conn /\ Conn \subseteq 0..MaxConn
  BY <1>1, ListenerFacts DEF ListenerAt, ListenInv, SoundInv, RefTypeOK
<1>3. CASE conns = {} /\ Goto(Listener, "done") /\ conns' = conns /\ dead' = dead
  <2> DEFINE r == To(at[Listener], "done")
  <2>1. Moves(Listener, r)
    BY <1>2, <1>3, GotoMoves DEF Pc
  <2>2. r.pc = "done" /\ r.c = NoConn
    BY <1>2 DEF To
  <2> HIDE DEF r
  <2>3. ListenerAt(r, naccept)
    BY <2>2 DEF ListenerAt
  <2>4. ListenInv'
    <3>1. at'[Listener] = r
      BY <1>2, <2>1, MoveFacts
    <3> QED
      BY <1>1, <1>2, <1>3, <2>2, <3>1 DEF ListenInv
  <2>5. LiveInv'
    BY <1>1, <1>2, <1>3 DEF LiveInv
  <2>6. CountInv'
    <3>1. \A c \in Conn : Held(Listener, r, c) = Held(Listener, at[Listener], c)
      BY <1>1, <1>2, <2>2 DEF Held, One
    <3> QED
      BY <1>1, <1>2, <1>3, <2>1, <3>1, MoveKeeps
  <2>7. SoundInv'
    BY <1>1, <1>3, <2>1, <2>2, <2>3, <2>4, <2>5, <2>6, ListenerStep
  <2>8. RefTypeOK'
    BY <1>1, <1>2, <1>3, <2>1, MoveFacts, TypeFrame DEF RefTypeOK
  <2> QED
    BY <2>7, <2>8
<1>4. ASSUME NEW k \in conns, conns' = conns \ {k}, dead' = dead \cup {k},
             IF k \in dead THEN Drop(Listener, k, NoConn, "close")
             ELSE at' = [at EXCEPT ![Listener] =
                           [pc |-> "remove", c |-> k, d |-> NoConn, then |-> "close"]]
      PROVE  RefTypeOK' /\ SoundInv'
  <2>1. k \in 1..naccept /\ k \in Conn /\ k \in 0..MaxConn
    BY <1>2, <1>4
  <2>2. PICK r : /\ Moves(Listener, r) /\ r.then = "close"
                 /\ \/ k \in dead /\ r.pc = "decref" /\ r.d = k /\ r.c = NoConn
                    \/ r.pc = "remove" /\ r.c = k
    <3>1. CASE k \in dead /\ Drop(Listener, k, NoConn, "close")
      <4>1. Moves(Listener, Dropping(k, NoConn, "close"))
        BY <1>2, <2>1, <3>1, DropMoves, NumberFacts DEF Pc
      <4> QED
        BY <3>1, <4>1 DEF Dropping
    <3>2. CASE at' = [at EXCEPT ![Listener] =
                        [pc |-> "remove", c |-> k, d |-> NoConn, then |-> "close"]]
      <4> DEFINE q == [pc |-> "remove", c |-> k, d |-> NoConn, then |-> "close"]
      <4>1. q \in Place
        BY <2>1, NumberFacts DEF Place, Pc
      <4>2. q.pc = "remove" /\ q.c = k /\ q.then = "close"
        OBVIOUS
      <4>3. Moves(Listener, q)
        BY <3>2, <4>1 DEF Moves
      <4> HIDE DEF q
      <4> QED
        BY <4>2, <4>3
    <3> QED
      BY <1>4, <3>1, <3>2
  <2>3. ListenerAt(r, naccept)
    BY <2>1, <2>2 DEF ListenerAt
  <2>4. ListenInv'
    <3>1. at'[Listener] = r
      BY <1>2, <2>2, MoveFacts
    <3> QED
      BY <1>1, <1>2, <2>2, <3>1 DEF ListenInv
  <2>5. LiveInv'
    BY <1>1, <1>2, <1>4 DEF LiveInv
  <2>6. CountInv'
    <3>1. \A c \in Conn : Held(Listener, r, c) = One(k = c)
      BY <1>2, <2>2 DEF Held, One
    <3> QED
      BY <1>1, <1>2, <1>4, <2>2, <3>1, TakesOut
  <2>7. SoundInv'
    <3>1. r.pc # "zero" /\ \A c \in dead' : c \in dead \/ (r.pc = "remove" /\ r.c = c)
      BY <1>4, <2>2
    <3> QED
      BY <1>1, <2>2, <2>3, <2>4, <2>5, <2>6, <3>1, ListenerStep
  <2>8. RefTypeOK'
    <3>1. dead' \subseteq 1..naccept /\ dead \subseteq dead' /\ freed' \subseteq dead'
          /\ conns' \subseteq conns /\ todo' \subseteq conns'
      BY <1>1, <1>2, <1>4, <2>1 DEF RefTypeOK
    <3> QED
      BY <1>1, <1>2, <2>2, <3>1, MoveFacts, TypeFrame DEF RefTypeOK
  <2> QED
    BY <2>7, <2>8
<1> QED
  BY <1>3, <1>4 DEF CloseNext

\* Places of threads stay places when a connection is made.
LEMMA MorePlaces ==
  ASSUME NEW n \in Nat, NEW r
  PROVE  /\ WorkerAt(r, n) => WorkerAt(r, n + 1)
         /\ ListenerAt(r, n) => ListenerAt(r, n + 1)
         /\ PollAt(r, n) => PollAt(r, n + 1)
<1>1. \A x : x \in 1..n => x \in 1..(n + 1)
  OBVIOUS
<1>2. WorkerAt(r, n) => WorkerAt(r, n + 1)
  BY <1>1 DEF WorkerAt
<1>3. ListenerAt(r, n) => ListenerAt(r, n + 1)
  BY <1>1 DEF ListenerAt
<1>4. PollAt(r, n) => PollAt(r, n + 1)
  BY <1>1 DEF PollAt
<1> QED
  BY <1>2, <1>3, <1>4

LEMMA AcceptStep ==
  ASSUME RefTypeOK, SoundInv, Accept
  PROVE  RefTypeOK' /\ SoundInv'
<1> DEFINE k == naccept + 1
           r == To(at[Listener], "gc")
<1>1. /\ at[Listener].pc = "listen" /\ naccept < MaxConn /\ naccept' = k
      /\ refno' = [refno EXCEPT ![k] = 1]
      /\ watched' = watched \cup {k} /\ conns' = conns \cup {k} /\ todo' = conns
      /\ Goto(Listener, "gc")
      /\ UNCHANGED <<dead, freed, latest, reachable, queued, npdu, leaked, raced>>
  BY DEF Accept
<1>2. /\ Listener \in Thread /\ Listener # Poll /\ Listener \notin Worker
      /\ at[Listener].c = NoConn /\ naccept \in Nat
  BY <1>1, ListenerFacts DEF ListenerAt
<1>3. PlaceInv /\ ConssInv /\ CountInv /\ LiveInv /\ RemoverInv /\ ZeroInv /\ JobInv
  BY DEF SoundInv
<1>4. /\ k \in Conn /\ k \in Nat /\ naccept < k /\ k <= MaxConn
      /\ 1..k = (1..naccept) \cup {k} /\ k \notin 1..naccept
  BY <1>1, <1>2, NumberFacts
<1>5. /\ dead \subseteq 1..naccept /\ freed \subseteq dead /\ watched \subseteq 1..naccept
      /\ conns \subseteq 1..naccept /\ latest \in 0..naccept
      /\ refno \in [Conn -> Nat]
  BY DEF RefTypeOK
<1>6. Moves(Listener, r)
  BY <1>1, <1>2, GotoMoves DEF Pc
<1>7. r.pc = "gc" /\ r.c = NoConn
  BY <1>2 DEF To
<1> HIDE DEF r
<1>8. /\ at'[Listener] = r /\ at' \in [Thread -> Place]
      /\ \A x \in Thread : x # Listener => at'[x] = at[x]
  BY <1>2, <1>6, MoveFacts
<1>9. /\ refno' \in [Conn -> Nat] /\ refno'[k] = 1 /\ refno[k] = 0
      /\ \A c \in Conn : c # k => refno'[c] = refno[c]
  <2>1. refno[k] = 0
    BY <1>3, <1>4 DEF CountInv
  <2> HIDE DEF k
  <2> QED
    BY <1>1, <1>4, <1>5, <2>1
<1>10. PlaceInv'
  <2>1. \A w \in Worker : WorkerAt(at'[w], naccept')
    BY <1>1, <1>2, <1>3, <1>8, ThreadFacts, MorePlaces DEF PlaceInv
  <2>2. PollAt(at'[Poll], naccept')
    BY <1>1, <1>2, <1>3, <1>8, ThreadFacts, MorePlaces DEF PlaceInv
  <2>3. ListenerAt(at'[Listener], naccept')
    BY <1>7, <1>8 DEF ListenerAt
  <2> QED
    BY <2>1, <2>2, <2>3 DEF PlaceInv
<1>11. ListenInv'
  BY <1>7, <1>8 DEF ListenInv
<1>12. ConssInv'
  BY <1>1, <1>2, <1>3, <1>6, MoveConss
<1>13. JobInv'
  <2>1. \A j \in queued : j[2] \in Nat
    BY NumberFacts DEF RefTypeOK, Job
  <2>2. at'[Poll] = at[Poll]
    BY <1>2, <1>8, ThreadFacts
  <2>3. \A j \in queued : j[2] <= naccept'
    BY <1>1, <1>2, <1>3, <2>1 DEF JobInv
  <2> QED
    BY <1>1, <1>3, <2>2, <2>3 DEF JobInv
<1>14. CountInv'
  <2>1. IsFiniteSet(queued) /\ IsFiniteSet(queued')
    BY <1>1, JobsFinite
  <2>2. \A c \in Conn : refno'[c] \in Nat /\ leaked'[c] \in Nat
    BY <1>1, <1>9, Typing
  <2>3. \A c \in Conn : naccept' < c => refno'[c] = 0
    <3>1. SUFFICES ASSUME NEW c \in Conn, naccept' < c PROVE refno'[c] = 0
      OBVIOUS
    <3>2. c \in Nat /\ naccept < c /\ c # k
      BY <1>1, <1>2, <3>1, NumberFacts
    <3> HIDE DEF k
    <3> QED
      BY <1>3, <1>9, <3>2 DEF CountInv
  <2>4. ASSUME NEW c \in Conn
        PROVE  refno'[c] + Held(Listener, at[Listener], c) + TableRefs(conns, latest, queued, c) + leaked[c]
               = refno[c] + Held(Listener, r, c) + TableRefs(conns', latest', queued', c) + leaked'[c]
    <3> DEFINE b == One(k = c)
    <3>1. Held(Listener, at[Listener], c) = 0 /\ Held(Listener, r, c) = 0 /\ b \in Nat
      BY <1>1, <1>2, <1>7 DEF Held, One
    <3>2. /\ TableRefs(conns', latest', queued', c) \in Nat
          /\ TableRefs(conns, latest, queued, c) \in Nat
          /\ TableRefs(conns', latest', queued', c) = TableRefs(conns, latest, queued, c) + b
      <4>1. k \in conns' /\ conns = conns' \ {k}
        BY <1>1, <1>4, <1>5
      <4> HIDE DEF k
      <4>2. PICK x : x = k
        OBVIOUS
      <4>3. /\ TableRefs(conns', latest, queued, c) \in Nat
            /\ TableRefs(conns, latest, queued, c) \in Nat
            /\ TableRefs(conns', latest, queued, c) = TableRefs(conns, latest, queued, c) + One(x = c)
        BY <2>1, <4>1, <4>2, ConnsLess
      <4> QED
        BY <1>1, <4>2, <4>3
    <3>3. refno[c] \in Nat /\ leaked[c] \in Nat /\ leaked'[c] = leaked[c]
      BY <1>1, Typing
    <3>4. refno'[c] = refno[c] + b
      <4> HIDE DEF k
      <4> QED
        BY <1>9, <3>3 DEF One
    <3> HIDE DEF b
    <3> QED
      BY <3>1, <3>2, <3>3, <3>4
  <2>5. \A c \in Conn :
          refno'[c] = TableRefs(conns', latest', queued', c) + ThreadRefs(at', c) + leaked'[c]
    BY <1>2, <1>3, <1>6, <2>1, <2>2, <2>4, MoveSum
  <2> QED
    BY <2>3, <2>5 DEF CountInv
<1>15. LiveInv'
  <2> HIDE DEF k
  <2> QED
    BY <1>1, <1>3, <1>4 DEF LiveInv
<1>16. RemoverInv'
  <2>1. watched' \cap dead' \subseteq watched
    BY <1>1, <1>4, <1>5
  <2> QED
    BY <1>1, <1>2, <1>3, <1>6, <2>1, MoveRemover
<1>17. ZeroInv'
  <2>1. \A x \in Thread : \A c : ZeroAt(x, c)' <=> ZeroAt(x, c)
    <3>1. SUFFICES ASSUME NEW x \in Thread, NEW c PROVE ZeroAt(x, c)' <=> ZeroAt(x, c)
      OBVIOUS
    <3>2. at'[x] = at[x] \/ (at'[x].pc = "gc" /\ at[x].pc = "listen")
      BY <1>1, <1>7, <1>8
    <3> QED
      BY <3>2 DEF ZeroAt
  <2>2. \A x \in Thread : ~ZeroAt(x, k)
    <3>1. SUFFICES ASSUME NEW x \in Thread, ZeroAt(x, k) PROVE FALSE
      OBVIOUS
    <3>2. at[x].d \in 1..naccept /\ at[x].d = k
      BY <3>1, DropperFacts DEF ZeroAt
    <3> QED
      BY <1>4, <3>2
  <2> HIDE DEF k
  <2>3. \A c \in 1..naccept' : refno'[c] = 0 <=> c \in freed' \/ \E x \in Thread : ZeroAt(x, c)'
    <3>1. SUFFICES ASSUME NEW c \in (1..naccept) \cup {k}
                   PROVE  refno'[c] = 0 <=> c \in freed \/ \E x \in Thread : ZeroAt(x, c)'
      BY <1>1, <1>4
    <3>2. CASE c = k
      <4>1. refno'[c] # 0 /\ c \notin freed
        BY <1>4, <1>5, <1>9, <3>2
      <4> QED
        BY <2>1, <2>2, <3>2, <4>1
    <3>3. CASE c # k
      <4>1. c \in 1..naccept /\ c \in Conn /\ refno'[c] = refno[c]
        BY <1>9, <3>3, Typing
      <4> QED
        BY <1>3, <2>1, <4>1 DEF ZeroInv
    <3> QED
      BY <3>2, <3>3
  <2>4. \A c \in Conn : \A x, y \in Thread : ZeroAt(x, c)' /\ ZeroAt(y, c)' => x = y
    BY <1>3, <2>1 DEF ZeroInv
  <2>5. \A c \in freed' : \A x \in Thread : ~ZeroAt(x, c)'
    BY <1>1, <1>3, <2>1 DEF ZeroInv
  <2> QED
    BY <2>3, <2>4, <2>5 DEF ZeroInv
<1>18. RefTypeOK'
  <2>1. naccept' \in 0..MaxConn /\ latest' \in 0..naccept'
    BY <1>1, <1>2, <1>4, <1>5, NumberFacts
  <2>2. /\ dead' \subseteq 1..naccept' /\ freed' \subseteq dead' /\ watched' \subseteq 1..naccept'
        /\ conns' \subseteq 1..naccept' /\ todo' \subseteq conns'
    <3> HIDE DEF k
    <3> QED
      BY <1>1, <1>4, <1>5
  <2> QED
    BY <1>1, <1>8, <1>9, <2>1, <2>2 DEF RefTypeOK, Place
<1> QED
  BY <1>10, <1>11, <1>12, <1>13, <1>14, <1>15, <1>16, <1>17, <1>18 DEF SoundInv

LEMMA SetReachableStep ==
  ASSUME RefTypeOK, SoundInv, SetReachable
  PROVE  RefTypeOK' /\ SoundInv'
<1>1. /\ UNCHANGED <<naccept, refno, dead, freed, watched, conns, todo, latest, queued, npdu,
                     at, leaked, raced>>
      /\ reachable' \in BOOLEAN
  BY DEF SetReachable
<1>2. RefTypeOK'
  BY <1>1 DEF RefTypeOK
<1>3. SoundInv'
  BY <1>1 DEF SoundInv, PlaceInv, ListenInv, ConssInv, JobInv, CountInv, LiveInv, RemoverInv,
              ZeroInv, ZeroAt, Removes, PollOn
<1> QED
  BY <1>2, <1>3

-----------------------------------------------------------------------------
LEMMA InitRefInv == Init => RefInv
<1> SUFFICES ASSUME Init PROVE RefInv
  OBVIOUS
<1>1. /\ naccept = 0 /\ dead = {} /\ freed = {} /\ watched = {} /\ conns = {} /\ todo = {}
      /\ latest = 0 /\ queued = {} /\ npdu = 0 /\ raced = FALSE /\ reachable = TRUE
      /\ \A c \in Conn : refno[c] = 0 /\ leaked[c] = 0
      /\ refno \in [Conn -> Nat] /\ leaked \in [Conn -> Nat]
  BY NumberFacts DEF Init
<1>2. /\ \A t \in Thread : /\ at[t].pc = (IF t = Listener THEN "listen" ELSE "idle")
                           /\ at[t].c = NoConn /\ at[t].then = "idle"
      /\ at \in [Thread -> Place]
  <2>1. At("listen", NoConn) \in Place /\ At("idle", NoConn) \in Place
    BY AtIs, NumberFacts DEF Pc
  <2> QED
    BY <2>1 DEF Init, At
<1>3. at[Listener].pc = "listen" /\ at[Poll].pc = "idle" /\ \A w \in Worker : at[w].pc = "idle"
  BY <1>2, ThreadFacts
<1>4. RefTypeOK
  <2>1. Cardinality(queued) <= MaxQueue
    BY <1>1, FS_EmptySet, NumberFacts
  <2>2. /\ naccept \in 0..MaxConn /\ latest \in 0..naccept /\ npdu \in 0..MaxPdu
    BY <1>1, NumberFacts
  <2>3. /\ dead \subseteq 1..naccept /\ freed \subseteq dead /\ watched \subseteq 1..naccept
        /\ conns \subseteq 1..naccept /\ todo \subseteq conns
    BY <1>1
  <2>4. at \in [Thread -> [pc : Pc, c : 0..MaxConn, d : 0..MaxConn, then : Pc]]
    BY <1>2 DEF Place
  <2>5. reachable \in BOOLEAN /\ raced \in BOOLEAN /\ queued \subseteq Job
    BY <1>1, Zenon
  <2> QED
    BY <1>1, <2>1, <2>2, <2>3, <2>4, <2>5 DEF RefTypeOK
<1>5. PlaceInv
  BY <1>2, <1>3, ThreadFacts DEF PlaceInv, WorkerAt, ListenerAt, PollAt
<1>6. ListenInv /\ LiveInv /\ RemoverInv
  BY <1>1, <1>3 DEF ListenInv, LiveInv, RemoverInv
<1>7. ConssInv
  <2>1. \A w \in Worker : ~InConss(at[w]) /\ at[w].pc \notin {"check", "choose"}
    BY <1>3 DEF InConss, Exchanges
  <2> QED
    BY <2>1 DEF ConssInv, InConss
<1>8. JobInv
  BY <1>1, <1>3 DEF JobInv
<1>9. CountInv
  <2>1. ASSUME NEW c \in Conn
        PROVE  refno[c] = TableRefs(conns, latest, queued, c) + ThreadRefs(at, c) + leaked[c]
    <3>1. {j \in queued : j[2] = c} = {} /\ {w \in Worker : at[w].c = c} = {}
          /\ {t \in Thread : at[t].pc = "decref" /\ at[t].d = c} = {}
      BY <1>1, <1>2, NumberFacts, ThreadFacts
    <3>2. /\ Cardinality({j \in queued : j[2] = c}) = 0
          /\ Cardinality({w \in Worker : at[w].c = c}) = 0
          /\ Cardinality({t \in Thread : at[t].pc = "decref" /\ at[t].d = c}) = 0
      BY <3>1, FS_EmptySet
    <3>3. TableRefs(conns, latest, queued, c) = 0
      BY <1>1, <3>2, NumberFacts DEF TableRefs, One
    <3>4. ThreadRefs(at, c) = 0
      BY <1>3, <3>2 DEF ThreadRefs, One
    <3> QED
      BY <1>1, <3>3, <3>4
  <2> QED
    BY <1>1, <2>1 DEF CountInv
<1>10. ZeroInv
  <2>1. \A t \in Thread : at[t].pc # "zero"
    BY <1>2
  <2> QED
    BY <1>1, <2>1 DEF ZeroInv, ZeroAt
<1> QED
  BY <1>1, <1>4, <1>5, <1>6, <1>7, <1>8, <1>9, <1>10 DEF RefInv, SoundInv

LEMMA NextRefInv == RefInv /\ [Next]_vars => RefInv'
<1> SUFFICES ASSUME RefInv, [Next]_vars PROVE RefInv'
  OBVIOUS
<1>1. CASE UNCHANGED vars
  <2>1. UNCHANGED <<naccept, refno, dead, freed, watched, conns, todo, latest, reachable, queued,
                    npdu, at, leaked, raced>>
    BY <1>1 DEF vars
  <2>2. RefTypeOK'
    BY <2>1 DEF RefInv, RefTypeOK
  <2>3. NoLockCycle => NoLockCycle'
    BY <2>1 DEF NoLockCycle, MHeld
  <2>4. SoundInv => SoundInv'
    BY <2>1 DEF SoundInv, PlaceInv, ListenInv, ConssInv, JobInv, CountInv, LiveInv, RemoverInv,
                ZeroInv, ZeroAt, Removes, PollOn
  <2> QED
    BY <2>1, <2>2, <2>3, <2>4 DEF RefInv
<1>2. CASE Next
  <2>1. ~raced /\ RefTypeOK /\ SoundInv
    BY <1>2 DEF Next, RefInv
  <2>2. RefTypeOK' /\ IF raced' THEN NoLockCycle' ELSE SoundInv'
    <3>1. CASE AddJob
      BY <2>1, <3>1, AddJobStep
    <3>2. ASSUME RefTypeOK' /\ SoundInv' /\ raced' = raced
          PROVE  RefTypeOK' /\ IF raced' THEN NoLockCycle' ELSE SoundInv'
      BY <2>1, <3>2
    <3>3. ASSUME Accept \/ GcIsDead \/ GcRef \/ Close \/ CloseNext
          PROVE  RefTypeOK' /\ SoundInv' /\ raced' = raced
      <4>1. raced' = raced
        BY <3>3 DEF Accept, GcIsDead, GcRef, Close, CloseNext
      <4> QED
        BY <2>1, <3>3, <4>1, AcceptStep, GcIsDeadStep, GcRefStep, CloseStep, CloseNextStep
    <3>4. ASSUME (\E c \in Conn : PollCall(c)) \/ ReadCbDead \/ ReadCb \/ GotPdu \/ SetReachable
          PROVE  RefTypeOK' /\ SoundInv' /\ raced' = raced
      <4>1. raced' = raced
        BY <3>4 DEF PollCall, ReadCbDead, ReadCb, GotPdu, SetReachable
      <4> QED
        BY <2>1, <3>4, <4>1, PollCallStep, ReadCbDeadStep, ReadCbStep, GotPduStep, SetReachableStep
    <3>5. ASSUME NEW w \in Worker,
                 \/ \E job \in queued : Dispatch(w, job)
                 \/ SendOld(w) \/ Register(w) \/ NewLatest(w) \/ Check(w)
                 \/ Choose(w) \/ Switch(w) \/ Send(w)
          PROVE  RefTypeOK' /\ SoundInv' /\ raced' = raced
      <4>1. raced' = raced
        BY <3>5 DEF Dispatch, SendOld, Register, NewLatest, Check, Choose, Switch, Send
      <4> QED
        BY <2>1, <3>5, <4>1, DispatchStep, SendOldStep, RegisterStep, NewLatestStep, CheckStep,
           ChooseStep, SwitchStep, SendStep
    <3>6. ASSUME NEW t \in Thread, Decref(t) \/ DecrefZero(t) \/ BlockRemove(t)
          PROVE  RefTypeOK' /\ SoundInv' /\ raced' = raced
      <4>1. raced' = raced
        BY <3>6 DEF Decref, DecrefZero, BlockRemove
      <4> QED
        BY <2>1, <3>6, <4>1, DecrefStep, DecrefZeroStep, BlockRemoveStep
    <3> QED
      BY <1>2, <3>1, <3>2, <3>3, <3>4, <3>5, <3>6 DEF Next
  <2> QED
    BY <2>2 DEF RefInv
<1> QED
  BY <1>1, <1>2

LEMMA RefInvHolds == Spec => []RefInv
<1> QED
  BY InitRefInv, NextRefInv, PTL DEF Spec

-----------------------------------------------------------------------------
(***************************************************************************)
(* The state of tcpsconn, of rpcs and of the connections stays what the    *)
(* code takes it for: no count goes below zero, only dead connections are  *)
(* deleted, and the queue of the pool holds no more jobs than it may.      *)
(***************************************************************************)
THEOREM RefTypeCorrect == Spec => []RefTypeOK
<1>1. RefInv => RefTypeOK
  BY DEF RefInv
<1> QED
  BY <1>1, RefInvHolds, PTL

(***************************************************************************)
(* refno_ is the number of references that tables and threads hold and of  *)
(* those that dispatch forgot, for any number of workers and connections,  *)
(* as long as got_pdu deletes no queued job.                               *)
(***************************************************************************)
THEOREM CountsStayExact == Spec => []RefExact
<1>1. RefInv => RefExact
  <2>1. CASE raced
    BY <2>1 DEF RefExact
  <2>2. CASE ~raced
    BY <2>2, SoundIsExact DEF RefInv
  <2> QED
    BY <2>1, <2>2
<1> QED
  BY <1>1, RefInvHolds, PTL

(***************************************************************************)
(* decref deletes a connection ("delete this") only when no thread, no     *)
(* table, no job and no callback refers to it any more.                    *)
(***************************************************************************)
THEOREM NothingUsedAfterFree == Spec => []NoUseAfterFree
<1>1. RefInv => NoUseAfterFree
  <2>1. CASE raced
    BY <2>1 DEF NoUseAfterFree
  <2>2. CASE ~raced
    BY <2>2, SoundIsSafe DEF RefInv
  <2> QED
    BY <2>1, <2>2
<1> QED
  BY <1>1, RefInvHolds, PTL

(***************************************************************************)
(* The thread that waits for m_ with ref_m_ held, in decref at zero, never *)
(* waits for the poll thread, which may hold m_ and wait for ref_m_: the   *)
(* two orders in which the code takes these locks cannot deadlock.         *)
(***************************************************************************)
THEOREM LocksNeverCycle == Spec => []NoLockCycle
<1>1. RefInv => NoLockCycle
  <2>1. CASE raced
    BY <2>1 DEF RefInv
  <2>2. CASE ~raced
    BY <2>2, SoundNoCycle DEF RefInv
  <2> QED
    BY <2>1, <2>2
<1> QED
  BY <1>1, RefInvHolds, PTL

(***************************************************************************)
(* After ~tcpsconn, with the pool drained, exactly the client's latest     *)
(* connection and the ones that dispatch forgot to drop are still there.   *)
(***************************************************************************)
THEOREM AllOthersFreed == Spec => []AllFreed
<1>1. RefInv => AllFreed
  <2>1. CASE raced
    BY <2>1 DEF AllFreed
  <2>2. CASE ~raced
    BY <2>2, SoundFreesAll DEF RefInv, AllFreed
  <2> QED
    BY <2>1, <2>2
<1> QED
  BY <1>1, RefInvHolds, PTL
=============================================================================
