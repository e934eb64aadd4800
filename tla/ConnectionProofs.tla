-------------------------- MODULE ConnectionProofs --------------------------
(***************************************************************************)
(* The proofs that block_remove_fd silences a descriptor, that the PDUs of *)
(* several senders are not mixed on a stream, and that write_cb meets a    *)
(* dead connection only while it is being removed, for any number of       *)
(* connections, senders and pieces.  The inductive invariant has one part  *)
(* for each pair of threads that must agree: the senders and the poll      *)
(* thread about who writes (OwnerInv, WireInv), a remover and the poll     *)
(* thread about who is called back (PollInv, RemoverInv, DeadInv).         *)
(***************************************************************************)
EXTENDS Connection, Integers, FiniteSetTheorems, SequenceTheorems, WellFoundedInduction,
        TLAPS

Writing == {"send_complete", "return", "remove", "removing"}
Removing == {"remove", "removing"}

\* Where a thread may be, and with what.
ThreadInv ==
    /\ \A t \in Sender : thr[t].pc # "idle" => thr[t].fd \in Fd /\ thr[t].size \in 1..MaxSize
    /\ thr[Closer].pc \in {"idle"} \cup Removing
    /\ thr[Closer].pc # "idle" => thr[Closer].fd \in Fd
    /\ \A t \in Thread : thr[t].pc \in Removing => thr[t].fd \in dead
    /\ \A f \in Fd : unread[f] <= arrived[f]

\* The PDU of a connection belongs to the one sender that waits for it.
OwnerInv ==
    /\ \A f \in Fd : wpdu[f] # NoPdu =>
          LET o == wpdu[f].owner
          IN  /\ o \in Sender
              /\ thr[o].pc \in Writing /\ thr[o].fd = f
              /\ wpdu[f].left <= thr[o].size
    /\ \A t \in Sender : thr[t].pc \in Writing => wpdu[thr[t].fd].owner = t
    /\ \A t \in Sender : thr[t].pc = "return" =>
          wpdu[thr[t].fd].left = 0 \/ thr[t].fd \in dead

\* The stream ends before the last left pieces of a PDU of t, of size pieces.
EndsBefore(s, t, size, left) ==
    IF left = size THEN Len(s) = 0 \/ s[Len(s)].k = s[Len(s)].size
    ELSE Len(s) > 0 /\ s[Len(s)] = [owner |-> t, k |-> size - left, size |-> size]

Whole(s) ==
    \A i \in 1..Len(s) - 1 :
        IF s[i].k = s[i].size THEN s[i + 1].k = 1
        ELSE /\ s[i + 1].owner = s[i].owner /\ s[i + 1].size = s[i].size
             /\ s[i + 1].k = s[i].k + 1

\* The stream of a connection ends where the PDU that is being written, if any,
\* is to go on.
WireInv ==
    /\ \A f \in Fd : Whole(wire[f])
    /\ \A f \in Fd \ dead :
          IF wpdu[f] = NoPdu THEN EndsBefore(wire[f], Closer, 1, 1)
          ELSE EndsBefore(wire[f], wpdu[f].owner, thr[wpdu[f].owner].size, wpdu[f].left)

\* The poll thread names a descriptor only while it calls it back.
PollInv ==
    /\ poll.pc \in {"top", "copy"} => trfds = {} /\ twfds = {}
    /\ poll.pc \notin {"read_cb", "write_cb"} => poll.fd = PipeFd

\* Nobody calls f back or is about to.
Quiet(f) == f \notin trfds \cup twfds /\ poll.fd # f

\* A descriptor that is being removed is not watched, and is quiet as soon as
\* the poll thread has gone round.
RemoverInv ==
    /\ changedone # {} => pending_change
    /\ \A t \in changedone : thr[t].pc = "removing"
    /\ \A t \in Thread : thr[t].pc = "removing" =>
          /\ thr[t].fd \notin rfds \cup wfds
          /\ t \notin changedone /\ thr[t].fd \notin early => Quiet(thr[t].fd)
    /\ \A f \in removed : /\ f \in dead
                          /\ f \notin rfds \cup wfds \cup callbacks
                          /\ f \notin early => Quiet(f)

\* A dead connection that may still be called back is being removed.
DeadInv ==
    /\ \A f \in dead \cap callbacks : \E t \in Thread : thr[t].pc \in Removing /\ thr[t].fd = f
    /\ poll.pc = "write_cb" /\ poll.fd \in dead =>
          \/ poll.fd \in early
          \/ \E t \in Thread : thr[t].pc \in Removing /\ thr[t].fd = poll.fd

ConnInv ==
    /\ ConnTypeOK /\ ThreadInv /\ OwnerInv /\ WireInv
    /\ PollInv /\ RemoverInv /\ DeadInv /\ AbortIsRace

-----------------------------------------------------------------------------
(***************************************************************************)
(* Facts about the operators.                                              *)
(***************************************************************************)
\* A finite set of descriptors has a highest one.
LEMMA MaxExists ==
  ASSUME NEW S, IsFiniteSet(S), S \subseteq Nat, S # {}
  PROVE  Max(S) \in S /\ \A y \in S : Max(S) >= y
<1> DEFINE HasMax(B) == \E x \in B : \A y \in B : x >= y
           Bad == {B \in SUBSET S : B # {} /\ ~HasMax(B)}
           R == StrictSubsetOrdering(S)
<1>1. FiniteSubsetsOf(S) = SUBSET S
  BY FS_FiniteSubsetsOfFinite
<1>2. IsWellFoundedOn(R, SUBSET S)
  BY <1>1, FS_StrictSubsetOrderingWellFounded
<1>3. ASSUME Bad # {} PROVE FALSE
  <2>1. Bad \subseteq SUBSET S
    OBVIOUS
  <2> HIDE DEF Bad, R
  <2>2. PICK B \in Bad : \A C \in Bad : <<C, B>> \notin R
    BY <1>2, <1>3, <2>1, WFMin
  <2>3. B \subseteq S /\ B # {} /\ ~HasMax(B)
    BY DEF Bad
  <2>4. PICK b \in B : TRUE
    BY <2>3
  <2>5. <<B \ {b}, B>> \in R
    BY <2>3, <2>4 DEF R, StrictSubsetOrdering
  <2>6. B \ {b} \notin Bad
    BY <2>2, <2>5
  <2>7. CASE B \ {b} = {}
    <3>1. \A y \in B : b >= y
      BY <2>3, <2>4, <2>7
    <3> QED
      BY <2>3, <2>4, <3>1
  <2>8. CASE B \ {b} # {}
    <3>1. HasMax(B \ {b})
      BY <2>3, <2>6, <2>8 DEF Bad
    <3>2. PICK m \in B \ {b} : \A y \in B \ {b} : m >= y
      BY <3>1
    <3>3. m \in Nat /\ b \in Nat /\ \A y \in B : y \in Nat
      BY <2>3, <2>4, <3>2
    <3>4. CASE m >= b
      BY <2>3, <3>2, <3>3, <3>4
    <3>5. CASE b >= m
      <4>1. \A y \in B : b >= y
        BY <3>2, <3>3, <3>5
      <4> QED
        BY <2>3, <2>4, <4>1
    <3> QED
      BY <3>3, <3>4, <3>5
  <2> QED
    BY <2>7, <2>8
<1>4. HasMax(S)
  BY <1>3
<1> QED
  BY <1>4 DEF Max

LEMMA HighestFd ==
  ASSUME NEW S, S \subseteq Fd
  PROVE  Max(S \cup {PipeFd}) \in Fd \cup {PipeFd}
<1>1. IsFiniteSet(S)
  BY FdAssumption, FS_Subset
<1>2. IsFiniteSet(S \cup {PipeFd}) /\ S \cup {PipeFd} \subseteq Nat /\ S \cup {PipeFd} # {}
  BY <1>1, FdAssumption, FS_AddElement
<1> QED
  BY <1>2, MaxExists

\* What write() accepts is neither more than is left nor more than fits.
LEMMA AcceptedBound ==
  ASSUME NEW f \in Fd, NEW left \in Nat, space[f] \in Nat
  PROVE  /\ Accepted(f, left) \in Nat
         /\ Accepted(f, left) <= left /\ Accepted(f, left) <= space[f]
<1>1. \E x \in {left, space[f]} : \A y \in {left, space[f]} : x <= y
  OBVIOUS
<1> DEFINE m == Min({left, space[f]})
<1>2. m \in {left, space[f]} /\ \A y \in {left, space[f]} : m <= y
  BY <1>1 DEF Min
<1> QED
  BY <1>2 DEF Accepted

ThreadState ==
    [pc : {"idle", "lock", "send_wait", "send_complete", "return", "remove", "removing"},
     fd : Fd \cup {PipeFd}, size : 0..MaxSize]

LEMMA ThreadStates ==
  ASSUME ConnTypeOK
  PROVE  /\ thr \in [Thread -> ThreadState]
         /\ \A t \in Thread : thr[t] \in ThreadState
  BY DEF ConnTypeOK, ThreadState

\* A thread moves and keeps its connection and its PDU.
LEMMA SetPc ==
  ASSUME thr \in [Thread -> ThreadState], NEW t \in Thread,
         NEW p \in {"idle", "lock", "send_wait", "send_complete", "return", "remove", "removing"},
         NEW S, S = [thr EXCEPT ![t].pc = p]
  PROVE  /\ S \in [Thread -> ThreadState]
         /\ S[t].pc = p /\ S[t].fd = thr[t].fd /\ S[t].size = thr[t].size
         /\ \A u \in Thread : u # t => S[u] = thr[u]
<1> DEFINE r == [pc |-> p, fd |-> thr[t].fd, size |-> thr[t].size]
<1>1. [thr[t] EXCEPT !.pc = p] = r
  BY DEF ThreadState
<1>2. S = [thr EXCEPT ![t] = r]
  BY <1>1
<1>3. r \in ThreadState
  BY DEF ThreadState
<1>4. S[t] = r /\ S \in [Thread -> ThreadState]
  BY <1>2, <1>3
<1> QED
  BY <1>2, <1>4

\* Waking threads that wait on a connection changes only where they are.
LEMMA WakeSendersDef ==
  ASSUME thr \in [Thread -> ThreadState], NEW f
  PROVE  /\ WakeSenders(f) \in [Thread -> ThreadState]
         /\ \A t \in Thread :
              /\ WakeSenders(f)[t].fd = thr[t].fd /\ WakeSenders(f)[t].size = thr[t].size
              /\ IF thr[t].pc = "send_wait" /\ thr[t].fd = f
                 THEN WakeSenders(f)[t].pc = "lock" ELSE WakeSenders(f)[t] = thr[t]
<1> DEFINE new(t) == IF thr[t].pc = "send_wait" /\ thr[t].fd = f
                     THEN [thr[t] EXCEPT !.pc = "lock"] ELSE thr[t]
<1>1. \A t \in Thread : [thr[t] EXCEPT !.pc = "lock"] =
                          [pc |-> "lock", fd |-> thr[t].fd, size |-> thr[t].size]
  BY DEF ThreadState
<1>2. \A t \in Thread : [pc |-> "lock", fd |-> thr[t].fd, size |-> thr[t].size] \in ThreadState
  BY DEF ThreadState
<1>3. \A t \in Thread : new(t) \in ThreadState /\ new(t).fd = thr[t].fd /\ new(t).size = thr[t].size
                        /\ (new(t) # thr[t] => new(t).pc = "lock")
  BY <1>1, <1>2
<1>4. WakeSenders(f) = [t \in Thread |-> new(t)]
  BY DEF WakeSenders
<1> QED
  BY <1>1, <1>3, <1>4

LEMMA WakeOwnerDef ==
  ASSUME thr \in [Thread -> ThreadState], NEW f
  PROVE  /\ WakeOwner(f) \in [Thread -> ThreadState]
         /\ \A t \in Thread :
              /\ WakeOwner(f)[t].fd = thr[t].fd /\ WakeOwner(f)[t].size = thr[t].size
              /\ IF thr[t].pc = "send_complete" /\ thr[t].fd = f
                 THEN WakeOwner(f)[t].pc = "return" ELSE WakeOwner(f)[t] = thr[t]
<1> DEFINE new(t) == IF thr[t].pc = "send_complete" /\ thr[t].fd = f
                     THEN [thr[t] EXCEPT !.pc = "return"] ELSE thr[t]
<1>1. \A t \in Thread : [thr[t] EXCEPT !.pc = "return"] =
                          [pc |-> "return", fd |-> thr[t].fd, size |-> thr[t].size]
  BY DEF ThreadState
<1>2. \A t \in Thread : [pc |-> "return", fd |-> thr[t].fd, size |-> thr[t].size] \in ThreadState
  BY DEF ThreadState
<1>3. \A t \in Thread : new(t) \in ThreadState /\ new(t).fd = thr[t].fd /\ new(t).size = thr[t].size
                        /\ (new(t) # thr[t] => new(t).pc = "return")
  BY <1>1, <1>2
<1>4. WakeOwner(f) = [t \in Thread |-> new(t)]
  BY DEF WakeOwner
<1> QED
  BY <1>1, <1>3, <1>4

LEMMA FunctionIsSeq ==
  ASSUME NEW S, NEW n \in Nat, NEW e \in [1..n -> S]
  PROVE  e \in Seq(S) /\ Len(e) = n
  OBVIOUS

\* write() of the next n pieces keeps the PDUs of a stream whole.
LEMMA Written ==
  ASSUME NEW s \in Seq(Piece), Whole(s),
         NEW t \in Sender, NEW size \in 1..MaxSize, NEW left \in 0..size, NEW n \in 0..left,
         EndsBefore(s, t, size, left)
  PROVE  LET r == s \o [i \in 1..n |-> [owner |-> t, k |-> size - left + i, size |-> size]]
         IN  /\ r \in Seq(Piece) /\ Whole(r)
             /\ EndsBefore(r, t, size, left - n)
<1> DEFINE piece(i) == [owner |-> t, k |-> size - left + i, size |-> size]
           e == [i \in 1..n |-> piece(i)]
           r == s \o e
           m == Len(s)
<1>1. MaxSize \in Nat /\ size \in Nat /\ left \in Nat /\ n \in Nat /\ n <= left /\ left <= size
  BY ConnAssumption
<1>2. \A i \in 1..n : piece(i) \in Piece
  BY <1>1 DEF Piece
<1>3. e \in Seq(Piece) /\ Len(e) = n /\ \A i \in 1..n : e[i] = piece(i)
  <2>1. e \in [1..n -> Piece]
    BY <1>2
  <2>2. \A i \in 1..n : e[i] = piece(i)
    OBVIOUS
  <2> HIDE DEF e
  <2> QED
    BY <1>1, <2>1, <2>2, FunctionIsSeq
<1>4. m \in Nat
  OBVIOUS
<1> HIDE DEF e
<1>5. /\ r \in Seq(Piece) /\ Len(r) = m + n
      /\ \A i \in 1..m : r[i] = s[i]
      /\ \A i \in 1..n : r[m + i] = piece(i)
  <2>1. r \in Seq(Piece) /\ Len(r) = m + n
    BY <1>3, ConcatProperties
  <2>2. \A i \in 1..m + n : r[i] = IF i <= m THEN s[i] ELSE e[i - m]
    BY <1>3, ConcatProperties
  <2>3. \A i \in 1..n : m + i \in 1..m + n /\ ~(m + i <= m) /\ (m + i) - m = i
    BY <1>1, <1>4
  <2>4. \A i \in 1..m : i \in 1..m + n /\ i <= m
    BY <1>1, <1>4
  <2> QED
    BY <1>3, <2>1, <2>2, <2>3, <2>4
<1> HIDE DEF r
<1>6. \A i \in 1..n : piece(i).owner = t /\ piece(i).k = size - left + i /\ piece(i).size = size
  OBVIOUS
<1> HIDE DEF piece
<1>7. ASSUME NEW i \in 1..Len(r) - 1
      PROVE  IF r[i].k = r[i].size THEN r[i + 1].k = 1
             ELSE /\ r[i + 1].owner = r[i].owner /\ r[i + 1].size = r[i].size
                  /\ r[i + 1].k = r[i].k + 1
  <2>1. CASE i < m
    <3>1. i \in 1..m /\ i + 1 \in 1..m /\ i \in 1..Len(s) - 1
      BY <1>1, <1>4, <1>5, <1>7, <2>1
    <3> QED
      BY <1>5, <3>1 DEF Whole
  <2>2. CASE i = m
    <3>1. m \in 1..m /\ 1 \in 1..n /\ n > 0 /\ left > 0
      BY <1>1, <1>4, <1>5, <1>7, <2>2
    <3>2. r[i] = s[m] /\ r[i + 1] = piece(1)
      BY <1>5, <2>2, <3>1
    <3>3. piece(1).owner = t /\ piece(1).k = size - left + 1 /\ piece(1).size = size
      BY <1>6, <3>1
    <3>4. CASE left = size
      <4>1. s[m].k = s[m].size /\ size - left + 1 = 1
        BY <1>1, <3>1, <3>4 DEF EndsBefore
      <4> QED
        BY <3>2, <3>3, <4>1
    <3>5. CASE left # size
      <4>1. s[m].owner = t /\ s[m].k = size - left /\ s[m].size = size
        BY <3>5 DEF EndsBefore
      <4>2. size - left # size /\ size - left + 1 = (size - left) + 1
        BY <1>1, <3>1
      <4> QED
        BY <3>2, <3>3, <4>1, <4>2
    <3> QED
      BY <3>4, <3>5
  <2>3. CASE i > m
    <3>1. i - m \in 1..n /\ (i - m) + 1 \in 1..n /\ m + (i - m) = i /\ m + ((i - m) + 1) = i + 1
      BY <1>1, <1>4, <1>5, <1>7, <2>3
    <3>2. r[i] = piece(i - m) /\ r[i + 1] = piece((i - m) + 1)
      BY <1>5, <3>1
    <3>3. size - left + (i - m) # size /\ size - left + ((i - m) + 1) = (size - left + (i - m)) + 1
      BY <1>1, <3>1
    <3> QED
      BY <1>6, <3>1, <3>2, <3>3
  <2> QED
    BY <1>4, <1>5, <2>1, <2>2, <2>3
<1>8. Whole(r)
  BY <1>7 DEF Whole
<1>9. EndsBefore(r, t, size, left - n)
  <2>1. CASE n = 0
    <3>1. Len(r) = m /\ left - n = left /\ (m > 0 => r[m] = s[m])
      BY <1>1, <1>4, <1>5, <2>1
    <3> QED
      BY <1>4, <3>1 DEF EndsBefore
  <2>2. CASE n # 0
    <3>1. left - n # size /\ n \in 1..n /\ m + n > 0 /\ size - left + n = size - (left - n)
      BY <1>1, <1>4, <2>2
    <3>2. r[m + n] = [owner |-> t, k |-> size - left + n, size |-> size]
      BY <1>5, <3>1 DEF piece
    <3> QED
      BY <1>5, <3>1, <3>2 DEF EndsBefore
  <2> QED
    BY <2>1, <2>2
<1> QED
  BY <1>5, <1>8, <1>9 DEF r, e, piece

-----------------------------------------------------------------------------
LEMMA InitConnInv == Init => ConnInv
<1> SUFFICES ASSUME Init PROVE ConnInv
  OBVIOUS
<1>1. /\ MaxSend \in Nat /\ MaxSize \in Nat /\ Space \in Nat /\ MaxIn \in Nat
      /\ \A t \in Thread : thr[t] = Idle
      /\ Closer \in Thread /\ Sender \subseteq Thread
  BY ConnAssumption DEF Init, Thread
<1>2. ConnTypeOK
  <2>1. highfds \in Fd \cup {PipeFd}
    BY HighestFd DEF Init, PollInit
  <2>2. PollTypeOK(Thread)
    BY <2>1 DEF Init, PollInit, PollTypeOK
  <2>3. Idle \in ThreadState /\ NoPdu \in [owner : Thread, left : 0..MaxSize]
    BY <1>1 DEF Idle, ThreadState, NoPdu
  <2>4. <<>> \in Seq(Piece)
    BY EmptySeq
  <2>5. /\ link \in [Fd -> {"up", "eof", "reset"}] /\ space \in [Fd -> 0..Space]
        /\ arrived \in [Fd -> 0..MaxIn] /\ unread \in [Fd -> 0..MaxIn]
        /\ rpdu \in [Fd -> {"none", "length", "full"}]
        /\ nsend \in 0..MaxSend
    BY <1>1 DEF Init
  <2>6. /\ wpdu \in [Fd -> [owner : Thread, left : 0..MaxSize]]
        /\ thr \in [Thread -> ThreadState] /\ wire \in [Fd -> Seq(Piece)]
    BY <2>3, <2>4 DEF Init
  <2>7. dead \subseteq Fd /\ closed \subseteq Fd /\ removed \subseteq Fd /\ early \subseteq Fd
    BY DEF Init
  <2>8. eagain \in BOOLEAN /\ aborted \in BOOLEAN
    BY DEF Init
  <2> QED
    BY <2>2, <2>5, <2>6, <2>7, <2>8 DEF ConnTypeOK, ThreadState
<1>3. ThreadInv
  <2>1. \A t \in Thread : thr[t].pc = "idle"
    BY <1>1 DEF Idle
  <2>2. \A f \in Fd : unread[f] <= arrived[f]
    BY DEF Init
  <2> QED
    BY <1>1, <2>1, <2>2 DEF ThreadInv, Removing
<1>4. OwnerInv
  <2>1. \A t \in Thread : thr[t].pc = "idle"
    BY <1>1 DEF Idle
  <2>2. \A f \in Fd : wpdu[f] = NoPdu
    BY DEF Init
  <2> QED
    BY <1>1, <2>1, <2>2 DEF OwnerInv, Writing
<1>5. WireInv
  <2>1. Len(<<>>) = 0 /\ \A f \in Fd : wire[f] = <<>> /\ wpdu[f] = NoPdu
    BY EmptySeq DEF Init
  <2> QED
    BY <2>1 DEF WireInv, Whole, EndsBefore
<1>6. PollInv /\ AbortIsRace
  BY DEF Init, PollInit, PollInv, AbortIsRace
<1>7. RemoverInv /\ DeadInv
  <2>1. \A t \in Thread : thr[t].pc = "idle"
    BY <1>1 DEF Idle
  <2> QED
    BY <2>1 DEF Init, PollInit, RemoverInv, DeadInv
<1> QED
  BY <1>2, <1>3, <1>4, <1>5, <1>6, <1>7 DEF ConnInv

-----------------------------------------------------------------------------
(***************************************************************************)
(* Steps that leave a part of the invariant alone.                         *)
(***************************************************************************)
\* Nothing happens to the watched descriptors and to who removes them.
LEMMA WatchFrame ==
  ASSUME ConnInv,
         UNCHANGED <<rfds, wfds, callbacks, pending_change, changedone, poll, trfds, twfds,
                     dead, early, removed, aborted>>,
         \A u \in Thread : thr[u].pc \in Removing \/ thr'[u].pc \in Removing => thr'[u] = thr[u]
  PROVE  PollInv' /\ RemoverInv' /\ DeadInv' /\ AbortIsRace'
<1>1. \A u \in Thread : thr'[u].pc = "removing" <=> thr[u].pc = "removing"
  BY DEF Removing
<1>2. \A u \in Thread : thr[u].pc = "removing" => thr'[u].fd = thr[u].fd
  BY DEF Removing
<1>3. changedone \subseteq Thread
  BY DEF ConnInv, ConnTypeOK, PollTypeOK
<1>4. PollInv'
  BY DEF ConnInv, PollInv
<1>5. \A f : Quiet(f)' <=> Quiet(f)
  BY DEF Quiet
<1>6. RemoverInv'
  BY <1>1, <1>2, <1>3, <1>5 DEF ConnInv, RemoverInv
<1>7. DeadInv' /\ AbortIsRace'
  BY DEF ConnInv, DeadInv, AbortIsRace, Removing
<1> QED
  BY <1>4, <1>6, <1>7

\* Nothing happens to the threads and the PDUs they write.
LEMMA OwnerFrame ==
  ASSUME ConnInv, UNCHANGED <<thr, wpdu, dead, wire>>
  PROVE  OwnerInv' /\ WireInv'
  BY DEF ConnInv, OwnerInv, WireInv, EndsBefore, Whole

\* The stream: data arrives or is read by the peer, or the stream breaks.
LEMMA StreamStep ==
  ASSUME ConnInv, NEW f \in Fd, Stream(f)
  PROVE  ConnInv'
<1>1. ConnTypeOK /\ ThreadInv
  BY DEF ConnInv
<1>2. /\ UNCHANGED <<rfds, wfds, highfds, pipe, callbacks, pending_change, changedone, poll,
                     trfds, twfds, dead, wpdu, rpdu, eagain, thr, nsend, aborted, wire, closed,
                     removed, early>>
  BY DEF Stream, Arrive, Drain, PeerCloses, Reset, watchVars, pollVars, historyVars
<1>3. MaxIn \in Nat /\ Space \in Nat
  BY ConnAssumption
<1>4. /\ link' \in [Fd -> {"up", "eof", "reset"}] /\ space' \in [Fd -> 0..Space]
      /\ arrived' \in [Fd -> 0..MaxIn] /\ unread' \in [Fd -> 0..MaxIn]
      /\ \A g \in Fd : unread'[g] <= arrived'[g]
  <2>1. /\ link \in [Fd -> {"up", "eof", "reset"}] /\ space \in [Fd -> 0..Space]
        /\ arrived \in [Fd -> 0..MaxIn] /\ unread \in [Fd -> 0..MaxIn]
        /\ \A g \in Fd : unread[g] <= arrived[g]
    BY <1>1 DEF ConnTypeOK, ThreadInv
  <2>2. CASE Arrive(f)
    <3>1. arrived[f] + 1 \in 0..MaxIn /\ unread[f] + 1 \in 0..MaxIn
      BY <1>3, <2>1, <2>2 DEF Arrive
    <3> QED
      BY <1>3, <2>1, <2>2, <3>1 DEF Arrive
  <2>3. CASE Drain(f)
    <3>1. space[f] + 1 \in 0..Space
      BY <1>3, <2>1, <2>3 DEF Drain
    <3> QED
      BY <2>1, <2>3, <3>1 DEF Drain
  <2>4. CASE PeerCloses(f)
    BY <2>1, <2>4 DEF PeerCloses
  <2>5. CASE Reset(f)
    BY <1>3, <2>1, <2>5 DEF Reset
  <2> QED
    BY <2>2, <2>3, <2>4, <2>5 DEF Stream
<1>5. ConnTypeOK'
  BY <1>1, <1>2, <1>4 DEF ConnTypeOK, PollTypeOK
<1>6. ThreadInv'
  BY <1>1, <1>2, <1>4 DEF ThreadInv
<1>7. PollInv' /\ RemoverInv' /\ DeadInv' /\ AbortIsRace' /\ OwnerInv' /\ WireInv'
  BY <1>2, WatchFrame, OwnerFrame
<1> QED
  BY <1>5, <1>6, <1>7 DEF ConnInv

-----------------------------------------------------------------------------
(***************************************************************************)
(* connection::send.                                                       *)
(***************************************************************************)
LEMMA SenderFacts ==
  ASSUME ConnInv, NEW t \in Sender
  PROVE  /\ t \in Thread /\ t # Closer /\ Closer \in Thread
         /\ thr \in [Thread -> ThreadState]
         /\ thr[t].pc # "idle" => thr[t].fd \in Fd /\ thr[t].size \in 1..MaxSize
  BY ConnAssumption, ThreadStates DEF ConnInv, ThreadInv, Thread

\* A thread that writes nothing and removes nothing moves to another such
\* place: the PDUs are those of others.
LEMMA IdleMove ==
  ASSUME ConnInv, NEW t \in Sender, thr[t].pc \in {"idle", "lock", "send_wait"},
         thr'[t].pc \in {"idle", "lock", "send_wait"},
         thr'[t].pc # "idle" => thr'[t].fd \in Fd /\ thr'[t].size \in 1..MaxSize,
         thr' \in [Thread -> ThreadState],
         \A u \in Thread : u # t => thr'[u] = thr[u],
         nsend' \in 0..MaxSend,
         UNCHANGED <<watchVars, pollVars, historyVars, link, space, arrived, unread, dead,
                     wpdu, rpdu, eagain, aborted>>
  PROVE  ConnInv'
<1>1. /\ UNCHANGED <<rfds, wfds, highfds, pipe, callbacks, pending_change, changedone, poll,
                     trfds, twfds, wire, closed, removed, early, link, space, arrived, unread,
                     dead, wpdu, rpdu, eagain, aborted>>
  BY DEF watchVars, pollVars, historyVars
<1>2. t \in Thread /\ t # Closer /\ Closer \in Thread /\ Sender \subseteq Thread
  BY SenderFacts DEF Thread
<1>3. ConnTypeOK'
  BY <1>1 DEF ConnInv, ConnTypeOK, PollTypeOK, ThreadState
<1>4. ThreadInv'
  BY <1>1, <1>2 DEF ConnInv, ThreadInv, Removing
<1>5. \A f \in Fd : wpdu[f] # NoPdu => wpdu[f].owner # t
  BY DEF ConnInv, OwnerInv, Writing
<1>6. OwnerInv'
  BY <1>1, <1>2, <1>5 DEF ConnInv, OwnerInv, Writing
<1>7. WireInv'
  <2>1. \A f \in Fd : wpdu[f] # NoPdu => thr'[wpdu[f].owner] = thr[wpdu[f].owner]
    BY <1>2, <1>5 DEF ConnInv, OwnerInv
  <2> QED
    BY <1>1, <2>1 DEF ConnInv, WireInv
<1>8. PollInv' /\ RemoverInv' /\ DeadInv' /\ AbortIsRace'
  BY <1>1, WatchFrame DEF Removing
<1> QED
  BY <1>3, <1>4, <1>6, <1>7, <1>8 DEF ConnInv

LEMMA SendStart ==
  ASSUME ConnInv, NEW t \in Sender, NEW f \in Fd, NEW n \in 1..MaxSize, Send(t, f, n)
  PROVE  ConnInv'
<1>1. t \in Thread /\ thr \in [Thread -> ThreadState] /\ MaxSize \in Nat /\ MaxSend \in Nat
  BY SenderFacts, ConnAssumption
<1>2. [pc |-> "lock", fd |-> f, size |-> n] \in ThreadState
  BY <1>1 DEF ThreadState
<1>3. /\ thr' \in [Thread -> ThreadState] /\ thr'[t] = [pc |-> "lock", fd |-> f, size |-> n]
      /\ \A u \in Thread : u # t => thr'[u] = thr[u]
  BY <1>1, <1>2 DEF Send
<1>4. nsend' \in 0..MaxSend
  BY <1>1 DEF Send, ConnInv, ConnTypeOK
<1>5. thr'[t].pc = "lock" /\ thr'[t].fd = f /\ thr'[t].size = n /\ thr[t].pc = "idle"
  BY <1>3 DEF Send
<1> QED
  BY <1>3, <1>4, <1>5, IdleMove DEF Send

LEMMA SendRefusedStep ==
  ASSUME ConnInv, NEW t \in Sender, SendRefused(t)
  PROVE  ConnInv'
<1>1. /\ t \in Thread /\ thr \in [Thread -> ThreadState] /\ thr[t].pc = "lock"
      /\ thr[t].fd \in Fd /\ thr[t].size \in 1..MaxSize /\ nsend' = nsend /\ nsend \in 0..MaxSend
  BY SenderFacts DEF SendRefused, ConnInv, ConnTypeOK
<1>2. CASE thr' = [thr EXCEPT ![t] = Idle]
  <2>1. Idle \in ThreadState /\ Idle.pc = "idle"
    BY ConnAssumption DEF Idle, ThreadState
  <2>2. /\ thr' \in [Thread -> ThreadState] /\ thr'[t] = Idle
        /\ \A u \in Thread : u # t => thr'[u] = thr[u]
    BY <1>1, <1>2, <2>1
  <2> QED
    BY <1>1, <2>1, <2>2, IdleMove DEF SendRefused
<1>3. CASE thr' = [thr EXCEPT ![t].pc = "send_wait"]
  <2>1. /\ thr' \in [Thread -> ThreadState] /\ thr'[t].pc = "send_wait"
        /\ thr'[t].fd = thr[t].fd /\ thr'[t].size = thr[t].size
        /\ \A u \in Thread : u # t => thr'[u] = thr[u]
    BY <1>1, <1>3, SetPc
  <2> QED
    BY <1>1, <2>1, IdleMove DEF SendRefused
<1> QED
  BY <1>2, <1>3 DEF SendRefused

\* writepdu: the stream goes on with the pieces of this PDU that are accepted.
LEMMA WritePduFacts ==
  ASSUME ConnInv, NEW f \in Fd, NEW t \in Sender, NEW size \in 1..MaxSize,
         NEW left \in 0..size, EndsBefore(wire[f], t, size, left), WritePdu(f, t, size, left)
  PROVE  /\ Accepted(f, left) \in 0..left
         /\ space' \in [Fd -> 0..Space]
         /\ wire' \in [Fd -> Seq(Piece)]
         /\ \A g \in Fd : g # f => wire'[g] = wire[g]
         /\ \A g \in Fd : Whole(wire'[g])
         /\ EndsBefore(wire'[f], t, size, left - Accepted(f, left))
<1> DEFINE n == Accepted(f, left)
           r == wire[f] \o [i \in 1..n |-> [owner |-> t, k |-> size - left + i, size |-> size]]
<1>1. /\ Space \in Nat /\ MaxSize \in Nat /\ size \in Nat /\ left \in Nat
      /\ space \in [Fd -> 0..Space] /\ wire \in [Fd -> Seq(Piece)]
      /\ \A g \in Fd : Whole(wire[g])
  BY ConnAssumption DEF ConnInv, ConnTypeOK, WireInv
<1>2. space[f] \in 0..Space /\ space[f] \in Nat
  BY <1>1
<1>3. n \in 0..left /\ n <= space[f]
  BY <1>1, <1>2, AcceptedBound
<1> HIDE DEF n
<1>4. space' = [space EXCEPT ![f] = @ - n] /\ wire' = [wire EXCEPT ![f] = r]
  BY DEF WritePdu, n
<1>5. r \in Seq(Piece) /\ Whole(r) /\ EndsBefore(r, t, size, left - n)
  BY <1>1, <1>3, Written
<1> HIDE DEF r
<1>6. space[f] - n \in 0..Space
  BY <1>1, <1>2, <1>3
<1>7. wire'[f] = r /\ \A g \in Fd : g # f => wire'[g] = wire[g]
  BY <1>1, <1>4
<1>8. space' \in [Fd -> 0..Space] /\ wire' \in [Fd -> Seq(Piece)]
  BY <1>1, <1>4, <1>5, <1>6
<1> QED
  BY <1>1, <1>3, <1>5, <1>7, <1>8 DEF n

\* A PDU begins where the one before it is complete, and is complete itself
\* when nothing is left of it.
LEMMA Begins ==
  ASSUME NEW s, EndsBefore(s, Closer, 1, 1), NEW t, NEW size
  PROVE  EndsBefore(s, t, size, size)
  BY DEF EndsBefore

LEMMA Complete ==
  ASSUME NEW s, NEW t, NEW size \in 1..MaxSize, EndsBefore(s, t, size, 0)
  PROVE  EndsBefore(s, Closer, 1, 1)
<1>1. size # 0 /\ size - 0 = size
  BY ConnAssumption
<1> QED
  BY <1>1 DEF EndsBefore

\* The threads after send has returned to t: the others that wait their turn on
\* f are woken.
LEMMA Returned ==
  ASSUME thr \in [Thread -> ThreadState], NEW t \in Thread, NEW f,
         thr' = [WakeSenders(f) EXCEPT ![t] = Idle]
  PROVE  /\ thr' \in [Thread -> ThreadState] /\ thr'[t] = Idle /\ Idle.pc = "idle"
         /\ \A u \in Thread : u # t =>
              /\ thr'[u].fd = thr[u].fd /\ thr'[u].size = thr[u].size
              /\ thr'[u] = thr[u] \/ (thr[u].pc = "send_wait" /\ thr'[u].pc = "lock")
<1>1. Idle \in ThreadState /\ Idle.pc = "idle"
  BY ConnAssumption DEF Idle, ThreadState
<1>2. WakeSenders(f) \in [Thread -> ThreadState]
  BY WakeSendersDef
<1>3. /\ thr' \in [Thread -> ThreadState] /\ thr'[t] = Idle
      /\ \A u \in Thread : u # t => thr'[u] = WakeSenders(f)[u]
  BY <1>1, <1>2
<1> QED
  BY <1>1, <1>3, WakeSendersDef

\* A thread leaves send: what it says of the threads.
LEMMA ReturnedInv ==
  ASSUME ConnInv, NEW t \in Sender, thr[t].pc \notin Removing, NEW f,
         thr' = [WakeSenders(f) EXCEPT ![t] = Idle],
         UNCHANGED <<dead, unread, arrived, rfds, wfds, callbacks, pending_change, changedone,
                     poll, trfds, twfds, early, removed, aborted>>
  PROVE  ThreadInv' /\ PollInv' /\ RemoverInv' /\ DeadInv' /\ AbortIsRace'
<1>1. t \in Thread /\ t # Closer /\ Closer \in Thread /\ Sender \subseteq Thread
  BY SenderFacts DEF Thread
<1>2. /\ thr'[t] = Idle /\ Idle.pc = "idle"
      /\ \A u \in Thread : u # t =>
           /\ thr'[u].fd = thr[u].fd /\ thr'[u].size = thr[u].size
           /\ thr'[u] = thr[u] \/ (thr[u].pc = "send_wait" /\ thr'[u].pc = "lock")
  BY <1>1, SenderFacts, Returned
<1>3. thr[Closer].pc # "send_wait"
  BY DEF ConnInv, ThreadInv, Removing
<1>4. ThreadInv'
  BY <1>1, <1>2, <1>3 DEF ConnInv, ThreadInv, Removing
<1>5. \A u \in Thread : thr[u].pc \in Removing \/ thr'[u].pc \in Removing => thr'[u] = thr[u]
  BY <1>2 DEF Removing
<1> QED
  BY <1>4, <1>5, WatchFrame

LEMMA SendWholeStep ==
  ASSUME ConnInv, NEW t \in Sender, SendWhole(t)
  PROVE  ConnInv'
<1> DEFINE f == thr[t].fd
           size == thr[t].size
<1>1. /\ t \in Thread /\ Sender \subseteq Thread /\ thr \in [Thread -> ThreadState]
      /\ f \in Fd /\ size \in 1..MaxSize /\ thr[t].pc = "lock" /\ f \notin dead
      /\ wpdu[f] = NoPdu
  BY SenderFacts DEF SendWhole, Thread
<1>2. /\ UNCHANGED <<rfds, wfds, highfds, pipe, callbacks, pending_change, changedone, poll,
                     trfds, twfds, link, arrived, unread, dead, wpdu, rpdu, eagain, nsend,
                     aborted, closed, removed, early>>
      /\ Accepted(f, size) = size
      /\ WritePdu(f, t, size, size)
      /\ thr' = [WakeSenders(f) EXCEPT ![t] = Idle]
  BY DEF SendWhole, watchVars, pollVars
<1>3. EndsBefore(wire[f], Closer, 1, 1) /\ size \in 0..size /\ size - size = 0
  BY <1>1, ConnAssumption DEF ConnInv, WireInv
<1> HIDE DEF f, size
<1>4. EndsBefore(wire[f], t, size, size)
  BY <1>3, Begins
<1>5. /\ space' \in [Fd -> 0..Space] /\ wire' \in [Fd -> Seq(Piece)]
      /\ \A g \in Fd : g # f => wire'[g] = wire[g]
      /\ \A g \in Fd : Whole(wire'[g])
      /\ EndsBefore(wire'[f], t, size, 0)
  BY <1>1, <1>2, <1>3, <1>4, WritePduFacts
<1>6. EndsBefore(wire'[f], Closer, 1, 1)
  BY <1>1, <1>5, Complete
<1>7. /\ thr' \in [Thread -> ThreadState] /\ thr'[t] = Idle /\ Idle.pc = "idle"
      /\ \A u \in Thread : u # t =>
           /\ thr'[u].fd = thr[u].fd /\ thr'[u].size = thr[u].size
           /\ thr'[u] = thr[u] \/ (thr[u].pc = "send_wait" /\ thr'[u].pc = "lock")
  BY <1>1, <1>2, Returned
<1>8. ConnTypeOK'
  BY <1>2, <1>5, <1>7 DEF ConnInv, ConnTypeOK, PollTypeOK, ThreadState
<1>9. \A g \in Fd : wpdu[g] # NoPdu => g # f /\ wpdu[g].owner # t /\ wpdu[g].owner \in Sender
                                       /\ thr'[wpdu[g].owner].size = thr[wpdu[g].owner].size
                                       /\ thr'[wpdu[g].owner] = thr[wpdu[g].owner]
  BY <1>1, <1>7 DEF ConnInv, OwnerInv, Writing
<1>10. OwnerInv'
  <2>1. \A u \in Sender : thr'[u].pc \in Writing => u # t /\ thr'[u] = thr[u]
    BY <1>1, <1>7 DEF Writing
  <2>2. \A u \in Sender : thr'[u].pc = "return" => thr'[u].pc \in Writing
    BY DEF Writing
  <2> QED
    BY <1>2, <1>9, <2>1, <2>2 DEF ConnInv, OwnerInv
<1>11. WireInv'
  <2>1. \A g \in Fd \ dead :
          IF wpdu[g] = NoPdu THEN EndsBefore(wire'[g], Closer, 1, 1)
          ELSE EndsBefore(wire'[g], wpdu[g].owner, thr'[wpdu[g].owner].size, wpdu[g].left)
    BY <1>1, <1>5, <1>6, <1>9 DEF ConnInv, WireInv
  <2> QED
    BY <1>2, <1>5, <2>1 DEF WireInv
<1>12. ThreadInv' /\ PollInv' /\ RemoverInv' /\ DeadInv' /\ AbortIsRace'
  BY <1>1, <1>2, ReturnedInv DEF Removing
<1> QED
  BY <1>8, <1>10, <1>11, <1>12 DEF ConnInv

LEMMA SendReturnStep ==
  ASSUME ConnInv, NEW t \in Sender, SendReturn(t)
  PROVE  ConnInv'
<1> DEFINE f == thr[t].fd
<1>1. /\ t \in Thread /\ t # Closer /\ Sender \subseteq Thread /\ Closer \in Thread
      /\ thr \in [Thread -> ThreadState]
      /\ f \in Fd /\ thr[t].size \in 1..MaxSize /\ thr[t].pc = "return"
  BY SenderFacts DEF SendReturn, Thread
<1>2. /\ UNCHANGED <<rfds, wfds, highfds, pipe, callbacks, pending_change, changedone, poll,
                     trfds, twfds, wire, closed, removed, early, link, space, arrived, unread,
                     dead, rpdu, eagain, nsend, aborted>>
      /\ wpdu' = [wpdu EXCEPT ![f] = NoPdu]
      /\ thr' = [WakeSenders(f) EXCEPT ![t] = Idle]
  BY DEF SendReturn, watchVars, pollVars, historyVars
<1> HIDE DEF f
<1>3. /\ wpdu \in [Fd -> [owner : Thread, left : 0..MaxSize]]
      /\ wpdu[f].owner = t /\ wpdu[f] # NoPdu
      /\ f \notin dead => wpdu[f].left = 0
  <2>1. wpdu[f].owner = t /\ (f \notin dead => wpdu[f].left = 0)
    BY <1>1 DEF ConnInv, OwnerInv, Writing, f
  <2> QED
    BY <1>1, <2>1 DEF NoPdu, ConnInv, ConnTypeOK
<1>4. NoPdu \in [owner : Thread, left : 0..MaxSize]
  BY <1>1, ConnAssumption DEF NoPdu
<1>5. /\ wpdu' \in [Fd -> [owner : Thread, left : 0..MaxSize]] /\ wpdu'[f] = NoPdu
      /\ \A g \in Fd : g # f => wpdu'[g] = wpdu[g]
  BY <1>1, <1>2, <1>3, <1>4
<1>6. /\ thr' \in [Thread -> ThreadState] /\ thr'[t] = Idle /\ Idle.pc = "idle"
      /\ \A u \in Thread : u # t =>
           /\ thr'[u].fd = thr[u].fd /\ thr'[u].size = thr[u].size
           /\ thr'[u] = thr[u] \/ (thr[u].pc = "send_wait" /\ thr'[u].pc = "lock")
  BY <1>1, <1>2, Returned
<1>7. ConnTypeOK'
  BY <1>2, <1>5, <1>6 DEF ConnInv, ConnTypeOK, PollTypeOK, ThreadState
<1>8. \A g \in Fd : g # f /\ wpdu[g] # NoPdu =>
         /\ wpdu[g].owner # t /\ wpdu[g].owner \in Sender
         /\ thr'[wpdu[g].owner] = thr[wpdu[g].owner]
  BY <1>1, <1>6 DEF ConnInv, OwnerInv, Writing, f
<1>9. OwnerInv'
  <2>1. \A u \in Sender : thr'[u].pc \in Writing => u # t /\ thr'[u] = thr[u] /\ thr[u].fd \in Fd
    BY <1>1, <1>6, SenderFacts DEF Writing
  <2>2. \A u \in Sender : thr[u].pc \in Writing /\ u # t => thr[u].fd # f
    BY <1>3 DEF ConnInv, OwnerInv
  <2>3. \A u \in Sender : thr'[u].pc = "return" => thr'[u].pc \in Writing
    BY DEF Writing
  <2>4. \A g \in Fd : wpdu'[g] # NoPdu => g # f /\ wpdu'[g] = wpdu[g]
    BY <1>5
  <2>5. \A u \in Sender : thr'[u].pc \in Writing => wpdu'[thr'[u].fd] = wpdu[thr[u].fd]
    BY <1>5, <2>1, <2>2
  <2> QED
    BY <1>2, <1>8, <2>1, <2>3, <2>4, <2>5 DEF ConnInv, OwnerInv
<1>10. WireInv'
  <2>1. f \notin dead => EndsBefore(wire[f], Closer, 1, 1)
    <3>1. f \notin dead => EndsBefore(wire[f], t, thr[t].size, 0)
      BY <1>1, <1>3 DEF ConnInv, WireInv
    <3> QED
      BY <1>1, <3>1, Complete
  <2>2. \A g \in Fd \ dead :
          IF wpdu'[g] = NoPdu THEN EndsBefore(wire[g], Closer, 1, 1)
          ELSE EndsBefore(wire[g], wpdu'[g].owner, thr'[wpdu'[g].owner].size, wpdu'[g].left)
    BY <1>5, <1>8, <2>1 DEF ConnInv, WireInv
  <2> QED
    BY <1>2, <2>2 DEF ConnInv, WireInv
<1>11. ThreadInv' /\ PollInv' /\ RemoverInv' /\ DeadInv' /\ AbortIsRace'
  BY <1>1, <1>2, ReturnedInv DEF Removing
<1> QED
  BY <1>7, <1>9, <1>10, <1>11 DEF ConnInv

\* t has become the owner of the PDU of f: what this says of the owners.
LEMMA NewOwner ==
  ASSUME ConnInv, NEW t \in Sender, thr[t].pc = "lock", NEW f \in Fd, f = thr[t].fd,
         wpdu[f] = NoPdu, NEW left \in 0..thr[t].size,
         wpdu' = [wpdu EXCEPT ![f] = [owner |-> t, left |-> left]],
         thr'[t].pc \in {"send_complete", "remove"},
         thr'[t].fd = f, thr'[t].size = thr[t].size,
         \A u \in Thread : u # t => thr'[u] = thr[u],
         dead \subseteq dead'
  PROVE  /\ wpdu' \in [Fd -> [owner : Thread, left : 0..MaxSize]]
         /\ wpdu'[f] = [owner |-> t, left |-> left] /\ wpdu'[f] # NoPdu
         /\ \A g \in Fd : g # f => wpdu'[g] = wpdu[g]
         /\ \A g \in Fd : g # f /\ wpdu[g] # NoPdu =>
              thr'[wpdu[g].owner] = thr[wpdu[g].owner]
         /\ OwnerInv'
<1>1. /\ t \in Thread /\ t # Closer /\ Sender \subseteq Thread /\ Closer \in Thread
      /\ thr \in [Thread -> ThreadState] /\ thr[t].size \in 1..MaxSize
      /\ MaxSize \in Nat /\ thr[t].size \in Nat
      /\ wpdu \in [Fd -> [owner : Thread, left : 0..MaxSize]]
  <2>1. /\ t \in Thread /\ t # Closer /\ Closer \in Thread
        /\ thr \in [Thread -> ThreadState] /\ thr[t].size \in 1..MaxSize
    BY SenderFacts
  <2>2. wpdu \in [Fd -> [owner : Thread, left : 0..MaxSize]]
    BY DEF ConnInv, ConnTypeOK
  <2>3. MaxSize \in Nat /\ Sender \subseteq Thread
    BY ConnAssumption DEF Thread
  <2> QED
    BY <2>1, <2>2, <2>3
<1>2. /\ thr'[t].pc \in Writing /\ thr'[t].pc # "return" /\ thr'[t].fd = f
      /\ thr'[t].size = thr[t].size /\ \A u \in Thread : u # t => thr'[u] = thr[u]
  BY DEF Writing
<1>3. [owner |-> t, left |-> left] \in [owner : Thread, left : 0..MaxSize]
  BY <1>1
<1>4. /\ wpdu' \in [Fd -> [owner : Thread, left : 0..MaxSize]]
      /\ wpdu'[f] = [owner |-> t, left |-> left]
      /\ \A g \in Fd : g # f => wpdu'[g] = wpdu[g]
  BY <1>1, <1>3
<1>5. wpdu'[f] # NoPdu
  BY <1>1, <1>4 DEF NoPdu
<1>6. \A g \in Fd : g # f /\ wpdu[g] # NoPdu =>
         /\ wpdu[g].owner # t /\ wpdu[g].owner \in Sender
         /\ thr'[wpdu[g].owner] = thr[wpdu[g].owner]
  BY <1>1, <1>2 DEF ConnInv, OwnerInv, Writing
<1>7. \A u \in Sender : u # t /\ thr[u].pc \in Writing => thr[u].fd # f /\ thr[u].fd \in Fd
  <2>1. wpdu[f].owner = Closer
    BY DEF NoPdu
  <2> QED
    BY <2>1, SenderFacts DEF ConnInv, OwnerInv, Writing
<1>8. OwnerInv'
  <2>1. \A g \in Fd : wpdu'[g] # NoPdu =>
          LET o == wpdu'[g].owner
          IN  /\ o \in Sender
              /\ thr'[o].pc \in Writing /\ thr'[o].fd = g
              /\ wpdu'[g].left <= thr'[o].size
    <3> SUFFICES ASSUME NEW g \in Fd, wpdu'[g] # NoPdu
                 PROVE  /\ wpdu'[g].owner \in Sender
                        /\ thr'[wpdu'[g].owner].pc \in Writing /\ thr'[wpdu'[g].owner].fd = g
                        /\ wpdu'[g].left <= thr'[wpdu'[g].owner].size
      OBVIOUS
    <3>1. CASE g = f
      <4>1. wpdu'[f].owner = t /\ wpdu'[f].left = left /\ left <= thr[t].size
        BY <1>1, <1>4
      <4> QED
        BY <1>2, <3>1, <4>1
    <3>2. CASE g # f
      BY <1>4, <1>6, <3>2 DEF ConnInv, OwnerInv
    <3> QED
      BY <3>1, <3>2
  <2>2. \A u \in Sender : thr'[u].pc \in Writing => wpdu'[thr'[u].fd].owner = u
    BY <1>1, <1>2, <1>4, <1>7 DEF ConnInv, OwnerInv
  <2>3. \A u \in Sender : thr'[u].pc = "return" =>
           wpdu'[thr'[u].fd].left = 0 \/ thr'[u].fd \in dead'
    BY <1>1, <1>2, <1>4, <1>7 DEF ConnInv, OwnerInv, Writing
  <2> QED
    BY <2>1, <2>2, <2>3 DEF OwnerInv
<1> QED
  BY <1>2, <1>4, <1>5, <1>6, <1>8

\* A part of the PDU is written, and the poll thread is asked to write the rest:
\* the connection is not dead, so that nobody removes it.
LEMMA SendPartStep ==
  ASSUME ConnInv, NEW t \in Sender, SendPart(t)
  PROVE  ConnInv'
<1> DEFINE f == thr[t].fd
           size == thr[t].size
           left == size - Accepted(f, size)
<1>1. /\ t \in Thread /\ t # Closer /\ Sender \subseteq Thread /\ Closer \in Thread
      /\ f \in Fd /\ size \in 1..MaxSize /\ thr[t].pc = "lock" /\ f \notin dead
      /\ wpdu[f] = NoPdu
  BY SenderFacts DEF SendPart, Thread
<1>2. /\ UNCHANGED <<poll, trfds, twfds, link, arrived, unread, dead, rpdu, eagain, nsend,
                     aborted, closed, removed, early, rfds, pending_change, changedone>>
      /\ WritePdu(f, t, size, size)
      /\ wpdu' = [wpdu EXCEPT ![f] = [owner |-> t, left |-> left]]
      /\ thr' = [thr EXCEPT ![t].pc = "send_complete"]
      /\ wfds' = wfds \cup {f} /\ callbacks' = callbacks \cup {f}
      /\ pipe' = pipe + 1 /\ highfds' = IF highfds <= f THEN f ELSE highfds
  BY DEF SendPart, pollVars, AddCallback, WatchFd, CB_WRONLY
<1>3. EndsBefore(wire[f], Closer, 1, 1) /\ size \in 0..size
  BY <1>1, ConnAssumption DEF ConnInv, WireInv
<1>4. EndsBefore(wire[f], t, size, size)
  BY <1>3, Begins
<1>5. /\ Accepted(f, size) \in 0..size
      /\ space' \in [Fd -> 0..Space] /\ wire' \in [Fd -> Seq(Piece)]
      /\ \A g \in Fd : g # f => wire'[g] = wire[g]
      /\ \A g \in Fd : Whole(wire'[g])
      /\ EndsBefore(wire'[f], t, size, left)
  BY <1>1, <1>2, <1>3, <1>4, WritePduFacts
<1>6. left \in 0..thr[t].size
  BY <1>1, <1>5, ConnAssumption
<1> HIDE DEF left
<1>7. /\ thr' \in [Thread -> ThreadState]
      /\ wpdu' \in [Fd -> [owner : Thread, left : 0..MaxSize]]
      /\ wpdu'[f] = [owner |-> t, left |-> left] /\ wpdu'[f] # NoPdu
      /\ \A g \in Fd : g # f => wpdu'[g] = wpdu[g]
      /\ \A g \in Fd : g # f /\ wpdu[g] # NoPdu => thr'[wpdu[g].owner] = thr[wpdu[g].owner]
      /\ thr'[t].pc = "send_complete" /\ thr'[t].fd = f /\ thr'[t].size = size
      /\ \A u \in Thread : u # t => thr'[u] = thr[u]
      /\ OwnerInv'
  <2>1. /\ thr' \in [Thread -> ThreadState]
        /\ thr'[t].pc = "send_complete" /\ thr'[t].fd = f /\ thr'[t].size = size
        /\ \A u \in Thread : u # t => thr'[u] = thr[u]
    BY <1>1, <1>2, SenderFacts, SetPc
  <2>2. dead \subseteq dead'
    BY <1>2
  <2> QED
    BY <1>1, <1>2, <1>6, <2>1, <2>2, NewOwner
<1> HIDE DEF f, size
<1>8. ConnTypeOK'
  <2>1. /\ wfds' \subseteq Fd /\ callbacks' \subseteq Fd /\ pipe' \in Nat
        /\ highfds' \in Fd \cup {PipeFd}
    BY <1>1, <1>2 DEF ConnInv, ConnTypeOK, PollTypeOK
  <2> QED
    BY <1>2, <1>5, <1>7, <2>1 DEF ConnInv, ConnTypeOK, PollTypeOK, ThreadState
<1>9. ThreadInv'
  BY <1>1, <1>2, <1>7 DEF ConnInv, ThreadInv, Removing
<1>10. WireInv'
  <2>1. \A g \in Fd \ dead :
          IF wpdu'[g] = NoPdu THEN EndsBefore(wire'[g], Closer, 1, 1)
          ELSE EndsBefore(wire'[g], wpdu'[g].owner, thr'[wpdu'[g].owner].size, wpdu'[g].left)
    <3> SUFFICES ASSUME NEW g \in Fd \ dead
                 PROVE  IF wpdu'[g] = NoPdu THEN EndsBefore(wire'[g], Closer, 1, 1)
                        ELSE EndsBefore(wire'[g], wpdu'[g].owner, thr'[wpdu'[g].owner].size,
                                        wpdu'[g].left)
      OBVIOUS
    <3>1. CASE g = f
      <4>1. wpdu'[f].owner = t /\ wpdu'[f].left = left
        BY <1>7
      <4> QED
        BY <1>5, <1>7, <3>1, <4>1
    <3>2. CASE g # f
      <4>1. /\ wpdu'[g] = wpdu[g] /\ wire'[g] = wire[g]
            /\ wpdu[g] # NoPdu => thr'[wpdu[g].owner].size = thr[wpdu[g].owner].size
        BY <1>5, <1>7, <3>2
      <4>2. IF wpdu[g] = NoPdu THEN EndsBefore(wire[g], Closer, 1, 1)
            ELSE EndsBefore(wire[g], wpdu[g].owner, thr[wpdu[g].owner].size, wpdu[g].left)
        BY DEF ConnInv, WireInv
      <4> QED
        BY <4>1, <4>2
    <3> QED
      BY <3>1, <3>2
  <2> QED
    BY <1>2, <1>5, <2>1 DEF WireInv
<1>11. \A u \in Thread : /\ thr'[u].pc \in Removing <=> thr[u].pc \in Removing
                         /\ thr[u].pc \in Removing => thr'[u] = thr[u] /\ thr[u].fd # f
  BY <1>1, <1>7 DEF Removing, ConnInv, ThreadInv
<1>12. PollInv' /\ DeadInv' /\ AbortIsRace'
  <2>1. dead' \cap callbacks' = dead \cap callbacks
    BY <1>1, <1>2
  <2> QED
    BY <1>2, <1>11, <2>1 DEF ConnInv, PollInv, DeadInv, AbortIsRace, Removing
<1>13. RemoverInv'
  <2>1. \A u \in Thread : thr'[u].pc = "removing" => thr[u].pc = "removing" /\ thr'[u] = thr[u] /\ thr[u].fd # f
    BY <1>1, <1>7, <1>11 DEF Removing
  <2>2. \A u \in changedone : thr'[u].pc = "removing"
    BY <1>11 DEF ConnInv, RemoverInv, Removing, ConnTypeOK, PollTypeOK
  <2>3. \A g : Quiet(g)' <=> Quiet(g)
    BY <1>2 DEF Quiet
  <2>4. f \notin removed
    BY <1>1 DEF ConnInv, RemoverInv
  <2> QED
    BY <1>2, <2>1, <2>2, <2>3, <2>4 DEF ConnInv, RemoverInv
<1> QED
  BY <1>7, <1>8, <1>9, <1>10, <1>12, <1>13 DEF ConnInv

\* A connection becomes dead and a thread is to remove it; nobody else does.
LEMMA BecomesDead ==
  ASSUME ConnInv, NEW t \in Thread, thr[t].pc \notin Removing, NEW f \in Fd, f \notin dead,
         dead' = dead \cup {f},
         thr'[t].pc = "remove", thr'[t].fd = f,
         \A u \in Thread : u # t => thr'[u] = thr[u],
         UNCHANGED <<rfds, wfds, callbacks, pending_change, changedone, poll, trfds, twfds,
                     early, removed, aborted>>
  PROVE  PollInv' /\ RemoverInv' /\ DeadInv' /\ AbortIsRace'
<1>1. \A u \in Thread : thr[u].pc \in Removing => u # t /\ thr'[u] = thr[u]
  OBVIOUS
<1>2. PollInv'
  BY DEF ConnInv, PollInv
<1>3. RemoverInv'
  <2>1. \A u \in Thread : thr'[u].pc = "removing" => thr[u].pc = "removing" /\ thr'[u] = thr[u]
    OBVIOUS
  <2>2. \A u \in changedone : thr'[u].pc = "removing"
    BY <1>1 DEF ConnInv, RemoverInv, Removing, ConnTypeOK, PollTypeOK
  <2>3. \A g : Quiet(g)' <=> Quiet(g)
    BY DEF Quiet
  <2> QED
    BY <2>1, <2>2, <2>3 DEF ConnInv, RemoverInv
<1>4. \A g : (\E u \in Thread : thr[u].pc \in Removing /\ thr[u].fd = g)
               => \E u \in Thread : thr'[u].pc \in Removing /\ thr'[u].fd = g
  BY <1>1
<1>5. \E u \in Thread : thr'[u].pc \in Removing /\ thr'[u].fd = f
  BY DEF Removing
<1>6. DeadInv'
  BY <1>4, <1>5 DEF ConnInv, DeadInv
<1>7. AbortIsRace'
  BY <1>4 DEF ConnInv, AbortIsRace, Removing
<1> QED
  BY <1>2, <1>3, <1>6, <1>7

LEMMA SendFailsStep ==
  ASSUME ConnInv, NEW t \in Sender, SendFails(t)
  PROVE  ConnInv'
<1> DEFINE f == thr[t].fd
<1>1. /\ t \in Thread /\ t # Closer /\ Sender \subseteq Thread /\ Closer \in Thread
      /\ f \in Fd /\ thr[t].size \in 1..MaxSize /\ thr[t].pc = "lock" /\ f \notin dead
      /\ wpdu[f] = NoPdu /\ 0 \in 0..thr[t].size
  BY SenderFacts, ConnAssumption DEF SendFails, Thread
<1>2. /\ UNCHANGED <<rfds, wfds, highfds, pipe, callbacks, pending_change, changedone, poll,
                     trfds, twfds, wire, closed, removed, early, space, arrived, unread, rpdu,
                     eagain, nsend, aborted>>
      /\ link' = [link EXCEPT ![f] = "reset"] /\ dead' = dead \cup {f}
      /\ wpdu' = [wpdu EXCEPT ![f] = [owner |-> t, left |-> 0]]
      /\ thr' = [thr EXCEPT ![t].pc = "remove"]
  BY DEF SendFails, watchVars, pollVars, historyVars
<1>3. /\ thr' \in [Thread -> ThreadState]
      /\ wpdu' \in [Fd -> [owner : Thread, left : 0..MaxSize]]
      /\ \A g \in Fd : g # f => wpdu'[g] = wpdu[g]
      /\ \A g \in Fd : g # f /\ wpdu[g] # NoPdu => thr'[wpdu[g].owner] = thr[wpdu[g].owner]
      /\ thr'[t].pc = "remove" /\ thr'[t].fd = f /\ thr'[t].size = thr[t].size
      /\ \A u \in Thread : u # t => thr'[u] = thr[u]
      /\ OwnerInv'
  <2>1. /\ thr' \in [Thread -> ThreadState]
        /\ thr'[t].pc = "remove" /\ thr'[t].fd = f /\ thr'[t].size = thr[t].size
        /\ \A u \in Thread : u # t => thr'[u] = thr[u]
    BY <1>1, <1>2, SenderFacts, SetPc
  <2>2. dead \subseteq dead'
    BY <1>2
  <2> QED
    BY <1>1, <1>2, <2>1, <2>2, NewOwner
<1> HIDE DEF f
<1>4. ConnTypeOK'
  <2>1. link' \in [Fd -> {"up", "eof", "reset"}] /\ dead' \subseteq Fd
    BY <1>1, <1>2 DEF ConnInv, ConnTypeOK
  <2> QED
    BY <1>2, <1>3, <2>1 DEF ConnInv, ConnTypeOK, PollTypeOK, ThreadState
<1>5. ThreadInv'
  BY <1>1, <1>2, <1>3 DEF ConnInv, ThreadInv, Removing
<1>6. WireInv'
  <2>1. \A g \in Fd \ dead' : g \in Fd \ dead /\ g # f
    BY <1>2
  <2> QED
    BY <1>2, <1>3, <2>1 DEF ConnInv, WireInv
<1>7. PollInv' /\ RemoverInv' /\ DeadInv' /\ AbortIsRace'
  BY <1>1, <1>2, <1>3, BecomesDead DEF Removing
<1> QED
  BY <1>3, <1>4, <1>5, <1>6, <1>7 DEF ConnInv

LEMMA CloseConnStep ==
  ASSUME ConnInv, NEW f \in Fd, CloseConn(f)
  PROVE  ConnInv'
<1>1. /\ Closer \in Thread /\ Closer \notin Sender /\ Sender \subseteq Thread
      /\ thr \in [Thread -> ThreadState] /\ thr[Closer].pc = "idle" /\ f \notin dead
      /\ MaxSize \in Nat /\ MaxIn \in Nat
  BY ConnAssumption, ThreadStates DEF ConnInv, CloseConn, Thread
<1>2. /\ UNCHANGED <<rfds, wfds, highfds, pipe, callbacks, pending_change, changedone, poll,
                     trfds, twfds, space, arrived, wpdu, rpdu, eagain, nsend, aborted, wire,
                     removed, early>>
      /\ dead' = dead \cup {f} /\ closed' = closed \cup {f}
      /\ link' = [link EXCEPT ![f] = "reset"]
      /\ unread' = [unread EXCEPT ![f] = 0]
      /\ thr' = [thr EXCEPT ![Closer] = [pc |-> "remove", fd |-> f, size |-> 0]]
  BY DEF CloseConn, watchVars, pollVars
<1>3. [pc |-> "remove", fd |-> f, size |-> 0] \in ThreadState
  BY <1>1 DEF ThreadState
<1>4. /\ thr' \in [Thread -> ThreadState]
      /\ thr'[Closer] = [pc |-> "remove", fd |-> f, size |-> 0]
      /\ \A u \in Thread : u # Closer => thr'[u] = thr[u]
  BY <1>1, <1>2, <1>3
<1>5. ConnTypeOK' /\ \A g \in Fd : unread'[g] <= arrived'[g]
  <2>1. /\ link' \in [Fd -> {"up", "eof", "reset"}] /\ dead' \subseteq Fd /\ closed' \subseteq Fd
        /\ unread' \in [Fd -> 0..MaxIn]
    BY <1>1, <1>2 DEF ConnInv, ConnTypeOK
  <2>2. \A g \in Fd : unread'[g] <= arrived'[g]
    BY <1>1, <1>2 DEF ConnInv, ConnTypeOK, ThreadInv
  <2> QED
    BY <1>2, <1>4, <2>1, <2>2 DEF ConnInv, ConnTypeOK, PollTypeOK, ThreadState
<1>6. thr'[Closer].pc = "remove" /\ thr'[Closer].fd = f
  BY <1>4
<1>7. ThreadInv'
  BY <1>1, <1>2, <1>4, <1>5, <1>6 DEF ConnInv, ThreadInv, Removing
<1>8. \A u \in Sender : thr'[u] = thr[u]
  BY <1>1, <1>4
<1>9. OwnerInv'
  BY <1>2, <1>8 DEF ConnInv, OwnerInv
<1>10. WireInv'
  <2>1. \A g \in Fd \ dead' : g \in Fd \ dead
    BY <1>2
  <2> QED
    BY <1>2, <1>8, <2>1 DEF ConnInv, WireInv, OwnerInv
<1>11. PollInv' /\ RemoverInv' /\ DeadInv' /\ AbortIsRace'
  BY <1>1, <1>2, <1>4, <1>6, BecomesDead DEF Removing
<1> QED
  BY <1>5, <1>7, <1>9, <1>10, <1>11 DEF ConnInv

-----------------------------------------------------------------------------
(***************************************************************************)
(* block_remove_fd.                                                        *)
(***************************************************************************)
\* The PDUs stay as they are, and who writes one goes on or learns that its
\* connection is dead.
LEMMA WritersFrame ==
  ASSUME ConnInv, UNCHANGED <<wpdu, wire>>, dead \subseteq dead',
         \A u \in Sender :
            /\ thr'[u].fd = thr[u].fd /\ thr'[u].size = thr[u].size
            /\ thr'[u].pc \in Writing <=> thr[u].pc \in Writing
            /\ thr'[u].pc = "return" => thr[u].pc = "return" \/ thr[u].fd \in dead'
  PROVE  OwnerInv' /\ WireInv'
<1>1. OwnerInv'
  BY DEF ConnInv, OwnerInv
<1>2. \A f \in Fd : wpdu[f] # NoPdu => thr'[wpdu[f].owner].size = thr[wpdu[f].owner].size
  BY DEF ConnInv, OwnerInv
<1>3. \A f \in Fd \ dead' : f \in Fd \ dead
  OBVIOUS
<1>4. WireInv'
  BY <1>2, <1>3 DEF ConnInv, WireInv
<1> QED
  BY <1>1, <1>4

\* unwatch_fd takes a descriptor out of the sets and no other.
LEMMA Unwatched ==
  ASSUME ConnInv, NEW f \in Fd, NEW flag \in {CB_WRONLY, CB_RDWR}, UnwatchFd(f, flag)
  PROVE  /\ rfds' \subseteq rfds /\ wfds' \subseteq wfds
         /\ rfds' \subseteq Fd /\ wfds' \subseteq Fd
         /\ \A g : g # f => (g \in rfds' <=> g \in rfds) /\ (g \in wfds' <=> g \in wfds)
         /\ flag = CB_RDWR => f \notin rfds' \cup wfds'
         /\ highfds' \in Fd \cup {PipeFd} /\ pipe' \in Nat
<1>1. rfds \subseteq Fd /\ wfds \subseteq Fd /\ highfds \in Fd \cup {PipeFd} /\ pipe \in Nat
  BY DEF ConnInv, ConnTypeOK, PollTypeOK
<1>2. /\ rfds' = (IF "r" \in flag THEN rfds \ {f} ELSE rfds)
      /\ wfds' = (IF "w" \in flag THEN wfds \ {f} ELSE wfds)
  BY DEF UnwatchFd
<1>3. /\ rfds' \subseteq rfds /\ wfds' \subseteq wfds
      /\ \A g : g # f => (g \in rfds' <=> g \in rfds) /\ (g \in wfds' <=> g \in wfds)
      /\ flag = CB_RDWR => f \notin rfds' \cup wfds'
  BY <1>2 DEF CB_RDWR
<1>4. rfds' \cup wfds' \subseteq Fd
  BY <1>1, <1>3
<1>5. Max((rfds' \cup wfds') \cup {PipeFd}) \in Fd \cup {PipeFd}
  BY <1>4, HighestFd
<1>6. highfds' \in Fd \cup {PipeFd} /\ pipe' \in Nat
  BY <1>1, <1>5 DEF UnwatchFd
<1> QED
  BY <1>1, <1>3, <1>6

LEMMA RemoverFacts ==
  ASSUME ConnInv, NEW t \in Thread, thr[t].pc \in Removing
  PROVE  /\ thr \in [Thread -> ThreadState] /\ thr[t].fd \in Fd /\ thr[t].fd \in dead
         /\ Sender \subseteq Thread /\ Closer \in Thread /\ Closer \notin Sender
         /\ t # Closer => t \in Sender /\ thr[t].size \in 1..MaxSize
  BY ConnAssumption, ThreadStates DEF ConnInv, ThreadInv, Thread, Removing

LEMMA RemoveStart ==
  ASSUME ConnInv, NEW t \in Thread, Remove(t)
  PROVE  ConnInv'
<1> DEFINE f == thr[t].fd
<1>1. /\ thr[t].pc = "remove" /\ thr \in [Thread -> ThreadState] /\ f \in Fd /\ f \in dead
      /\ Sender \subseteq Thread /\ Closer \in Thread /\ Closer \notin Sender
      /\ t # Closer => t \in Sender /\ thr[t].size \in 1..MaxSize
  BY RemoverFacts DEF Remove, Removing
<1>2. /\ UNCHANGED <<callbacks, poll, trfds, twfds, wire, closed, removed, early, link, space,
                     arrived, unread, dead, wpdu, rpdu, eagain, nsend, aborted>>
      /\ UnwatchFd(f, CB_RDWR) /\ pending_change' = TRUE /\ changedone' = changedone \cup {t}
      /\ thr' = [thr EXCEPT ![t].pc = "removing"]
  BY DEF Remove, BlockRemoveWait, pollVars, historyVars
<1>3. /\ thr' \in [Thread -> ThreadState] /\ thr'[t].pc = "removing" /\ thr'[t].fd = f
      /\ thr'[t].size = thr[t].size
      /\ \A u \in Thread : u # t => thr'[u] = thr[u]
  BY <1>1, <1>2, SetPc
<1> HIDE DEF f
<1>4. /\ rfds' \subseteq rfds /\ wfds' \subseteq wfds /\ rfds' \subseteq Fd /\ wfds' \subseteq Fd
      /\ f \notin rfds' \cup wfds' /\ highfds' \in Fd \cup {PipeFd} /\ pipe' \in Nat
  BY <1>1, <1>2, Unwatched
<1>5. ConnTypeOK'
  <2>1. changedone' \subseteq Thread
    BY <1>2 DEF ConnInv, ConnTypeOK, PollTypeOK
  <2> QED
    BY <1>2, <1>3, <1>4, <2>1 DEF ConnInv, ConnTypeOK, PollTypeOK, ThreadState
<1>6. ThreadInv'
  BY <1>1, <1>2, <1>3 DEF ConnInv, ThreadInv, Removing
<1>7. OwnerInv' /\ WireInv'
  <2>1. dead \subseteq dead'
    BY <1>2
  <2>2. \A u \in Sender :
            /\ thr'[u].fd = thr[u].fd /\ thr'[u].size = thr[u].size
            /\ thr'[u].pc \in Writing <=> thr[u].pc \in Writing
            /\ thr'[u].pc = "return" => thr[u].pc = "return" \/ thr[u].fd \in dead'
    BY <1>1, <1>3 DEF Writing, f
  <2> QED
    BY <1>2, <2>1, <2>2, WritersFrame
<1>8. PollInv'
  BY <1>2 DEF ConnInv, PollInv
<1>9. RemoverInv'
  <2>1. \A g : Quiet(g)' <=> Quiet(g)
    BY <1>2 DEF Quiet
  <2>2. \A u \in changedone' : thr'[u].pc = "removing"
    BY <1>2, <1>3 DEF ConnInv, RemoverInv, ConnTypeOK, PollTypeOK
  <2>3. \A u \in Thread : thr'[u].pc = "removing" =>
          /\ thr'[u].fd \notin rfds' \cup wfds'
          /\ u \notin changedone' /\ thr'[u].fd \notin early => Quiet(thr'[u].fd)
    BY <1>2, <1>3, <1>4 DEF ConnInv, RemoverInv
  <2>4. \A g \in removed : /\ g \in dead
                           /\ g \notin rfds' \cup wfds' \cup callbacks
                           /\ g \notin early => Quiet(g)
    BY <1>4 DEF ConnInv, RemoverInv
  <2> QED
    BY <1>2, <2>1, <2>2, <2>3, <2>4 DEF RemoverInv
<1>10. \A g : (\E u \in Thread : thr[u].pc \in Removing /\ thr[u].fd = g)
                => \E u \in Thread : thr'[u].pc \in Removing /\ thr'[u].fd = g
  BY <1>1, <1>3 DEF Removing, f
<1>11. DeadInv'
  BY <1>2, <1>10 DEF ConnInv, DeadInv
<1>12. AbortIsRace'
  BY <1>2, <1>10 DEF ConnInv, AbortIsRace, Removing
<1> QED
  BY <1>5, <1>6, <1>7, <1>8, <1>9, <1>11, <1>12 DEF ConnInv

\* block_remove_fd returns: the poll thread has gone round since the descriptor
\* was taken out of the sets, unless the wait has ended early.
LEMMA RemovedStep ==
  ASSUME ConnInv, NEW t \in Thread, Removed(t)
  PROVE  ConnInv'
<1> DEFINE f == thr[t].fd
<1>1. /\ thr[t].pc = "removing" /\ thr \in [Thread -> ThreadState] /\ f \in Fd /\ f \in dead
      /\ Sender \subseteq Thread /\ Closer \in Thread /\ Closer \notin Sender
      /\ t # Closer => t \in Sender /\ thr[t].size \in 1..MaxSize
  BY RemoverFacts DEF Removed, Removing
<1>2. /\ UNCHANGED <<rfds, wfds, highfds, pipe, pending_change, changedone, poll, trfds, twfds,
                     wire, closed, early, link, space, arrived, unread, dead, wpdu, rpdu,
                     eagain, nsend, aborted>>
      /\ t \notin changedone /\ callbacks' = callbacks \ {f} /\ removed' = removed \cup {f}
      /\ thr' = [thr EXCEPT ![t] = IF t = Closer THEN Idle ELSE [@ EXCEPT !.pc = "return"]]
  BY DEF Removed, BlockRemoveDone, pollVars
<1>3. /\ thr' \in [Thread -> ThreadState]
      /\ t = Closer => thr'[t].pc = "idle"
      /\ t # Closer => /\ thr'[t].pc = "return" /\ thr'[t].fd = f
                       /\ thr'[t].size = thr[t].size
      /\ \A u \in Thread : u # t => thr'[u] = thr[u]
  <2>1. CASE t = Closer
    <3>1. Idle \in ThreadState /\ Idle.pc = "idle"
      BY ConnAssumption DEF Idle, ThreadState
    <3>2. thr' = [thr EXCEPT ![t] = Idle]
      BY <1>2, <2>1
    <3> QED
      BY <1>1, <2>1, <3>1, <3>2
  <2>2. CASE t # Closer
    <3>1. thr' = [thr EXCEPT ![t].pc = "return"]
      BY <1>2, <2>2
    <3> QED
      BY <1>1, <2>2, <3>1, SetPc
  <2> QED
    BY <2>1, <2>2
<1> HIDE DEF f
<1>4. f \notin rfds \cup wfds /\ (f \notin early => Quiet(f))
  BY <1>1, <1>2 DEF ConnInv, RemoverInv, f
<1>5. ConnTypeOK'
  BY <1>1, <1>2, <1>3 DEF ConnInv, ConnTypeOK, PollTypeOK, ThreadState
<1>6. ThreadInv'
  BY <1>1, <1>2, <1>3 DEF ConnInv, ThreadInv, Removing
<1>7. OwnerInv' /\ WireInv'
  <2>1. dead \subseteq dead'
    BY <1>2
  <2>2. \A u \in Sender :
            /\ thr'[u].fd = thr[u].fd /\ thr'[u].size = thr[u].size
            /\ thr'[u].pc \in Writing <=> thr[u].pc \in Writing
            /\ thr'[u].pc = "return" => thr[u].pc = "return" \/ thr[u].fd \in dead'
    BY <1>1, <1>2, <1>3 DEF Writing, f
  <2> QED
    BY <1>2, <2>1, <2>2, WritersFrame
<1>8. PollInv'
  BY <1>2 DEF ConnInv, PollInv
<1>9. RemoverInv'
  <2>1. \A g : Quiet(g)' <=> Quiet(g)
    BY <1>2 DEF Quiet
  <2>2. \A u \in changedone : thr'[u].pc = "removing"
    BY <1>2, <1>3 DEF ConnInv, RemoverInv, ConnTypeOK, PollTypeOK
  <2>3. \A u \in Thread : thr'[u].pc = "removing" => u # t /\ thr'[u] = thr[u]
    BY <1>3
  <2>4. \A g \in removed' : /\ g \in dead
                            /\ g \notin rfds \cup wfds \cup callbacks'
                            /\ g \notin early => Quiet(g)
    BY <1>1, <1>2, <1>4 DEF ConnInv, RemoverInv
  <2> QED
    BY <1>2, <2>1, <2>2, <2>3, <2>4 DEF ConnInv, RemoverInv
<1>10. \A g : g # f /\ (\E u \in Thread : thr[u].pc \in Removing /\ thr[u].fd = g)
                => \E u \in Thread : thr'[u].pc \in Removing /\ thr'[u].fd = g
  BY <1>3 DEF f
<1>11. poll.fd = f => f \in early
  BY <1>4 DEF Quiet
<1>12. DeadInv'
  BY <1>2, <1>10, <1>11 DEF ConnInv, DeadInv
<1>13. AbortIsRace'
  BY <1>2, <1>10, <1>11 DEF ConnInv, AbortIsRace, Removing
<1> QED
  BY <1>5, <1>6, <1>7, <1>8, <1>9, <1>12, <1>13 DEF ConnInv

LEMMA SpuriousStep ==
  ASSUME ConnInv, NEW t \in Thread, SpuriousWakeup(t)
  PROVE  ConnInv'
<1>1. /\ UNCHANGED <<rfds, wfds, highfds, pipe, callbacks, pending_change, poll, trfds, twfds,
                     wire, closed, removed, link, space, arrived, unread, dead, wpdu, rpdu,
                     eagain, thr, nsend, aborted>>
      /\ t \in changedone /\ changedone' = changedone \ {t} /\ early' = early \cup {thr[t].fd}
  BY DEF SpuriousWakeup, pollVars, connVars
<1>2. thr[t].pc = "removing" /\ thr[t].fd \in Fd
  <2>1. thr[t].pc = "removing"
    BY <1>1 DEF ConnInv, RemoverInv
  <2> QED
    BY <2>1, RemoverFacts DEF Removing
<1>3. ConnTypeOK' /\ ThreadInv'
  BY <1>1, <1>2 DEF ConnInv, ConnTypeOK, PollTypeOK, ThreadInv
<1>4. OwnerInv' /\ WireInv'
  BY <1>1, OwnerFrame
<1>5. PollInv' /\ DeadInv' /\ AbortIsRace'
  BY <1>1 DEF ConnInv, PollInv, DeadInv, AbortIsRace
<1>6. RemoverInv'
  <2>1. \A g : Quiet(g)' <=> Quiet(g)
    BY <1>1 DEF Quiet
  <2> QED
    BY <1>1, <2>1 DEF ConnInv, RemoverInv
<1> QED
  BY <1>3, <1>4, <1>5, <1>6 DEF ConnInv

-----------------------------------------------------------------------------
(***************************************************************************)
(* The poll thread.                                                        *)
(***************************************************************************)
\* Going round makes every descriptor quiet that is no longer watched.
LEMMA PollLoopStep ==
  ASSUME ConnInv, ~aborted, PollLoop
  PROVE  ConnInv'
<1>1. UNCHANGED <<link, space, arrived, unread, dead, wpdu, rpdu, eagain, thr, nsend, aborted,
                  wire, closed, removed, early, rfds, wfds, highfds, callbacks>>
  BY DEF PollLoop, connVars, historyVars, PollTop, PollCopy, PollSelect, PollCall, watchVars
<1>2. OwnerInv' /\ WireInv' /\ ThreadInv' /\ AbortIsRace'
  BY <1>1, OwnerFrame DEF ConnInv, ThreadInv, AbortIsRace
<1>3. /\ PollTypeOK(Thread) /\ PollInv /\ RemoverInv /\ DeadInv
      /\ removed \subseteq Fd /\ PipeFd \notin Fd
      /\ \A t \in Thread : thr[t].pc = "removing" => thr[t].fd \in Fd
  BY FdAssumption, RemoverFacts DEF ConnInv, ConnTypeOK, Removing
<1>4. /\ poll.fd \in Fd \cup {PipeFd}
      /\ \A p \in {"top", "copy", "select", "calls", "read_cb", "write_cb"} :
           [poll EXCEPT !.pc = p] = [pc |-> p, fd |-> poll.fd]
  BY <1>3 DEF PollTypeOK
<1>5. CASE PollTop
  <2>1. /\ poll.pc = "top" /\ poll' = [pc |-> "copy", fd |-> poll.fd] /\ pending_change' = FALSE
        /\ changedone' = {} /\ UNCHANGED <<pipe, trfds, twfds>>
        /\ trfds = {} /\ twfds = {} /\ poll.fd = PipeFd
    BY <1>3, <1>4, <1>5 DEF PollTop, RemoverInv, PollInv
  <2>2. PollTypeOK(Thread)'
    BY <1>1, <1>3, <2>1 DEF PollTypeOK
  <2>3. PollInv' /\ DeadInv'
    BY <1>1, <1>3, <2>1 DEF PollInv, DeadInv
  <2>4. \A g \in Fd : Quiet(g)'
    BY <1>3, <2>1 DEF Quiet
  <2>5. RemoverInv'
    BY <1>1, <1>3, <2>1, <2>4 DEF RemoverInv
  <2> QED
    BY <1>1, <1>2, <2>2, <2>3, <2>5 DEF ConnInv, ConnTypeOK
<1>6. CASE PollCopy
  <2>1. /\ poll.pc = "copy" /\ poll' = [pc |-> "select", fd |-> poll.fd]
        /\ trfds' \subseteq rfds /\ twfds' \subseteq wfds
        /\ UNCHANGED <<pipe, pending_change, changedone>>
        /\ poll.fd = PipeFd
    BY <1>3, <1>4, <1>6 DEF PollCopy, PollInv, watchVars
  <2>2. PollTypeOK(Thread)'
    BY <1>1, <1>3, <2>1 DEF PollTypeOK
  <2>3. PollInv' /\ DeadInv'
    BY <1>1, <1>3, <2>1 DEF PollInv, DeadInv
  <2>4. \A g \in Fd : g \notin rfds \cup wfds => Quiet(g)'
    BY <1>3, <2>1 DEF Quiet
  <2>5. RemoverInv'
    BY <1>1, <1>3, <2>1, <2>4 DEF RemoverInv
  <2> QED
    BY <1>1, <1>2, <2>2, <2>3, <2>5 DEF ConnInv, ConnTypeOK
<1>7. CASE PollSelect(Readable, Writable)
  <2>1. /\ poll.pc = "select" /\ poll' = [pc |-> "calls", fd |-> poll.fd]
        /\ trfds' \subseteq trfds /\ twfds' \subseteq twfds
        /\ UNCHANGED <<pending_change, changedone>> /\ pipe' \in Nat
        /\ poll.fd = PipeFd
    BY <1>3, <1>4, <1>7 DEF PollSelect, PollInv, PollTypeOK
  <2>2. PollTypeOK(Thread)'
    BY <1>1, <1>3, <2>1 DEF PollTypeOK
  <2>3. PollInv' /\ DeadInv'
    BY <1>1, <1>3, <2>1 DEF PollInv, DeadInv
  <2>4. \A g : Quiet(g) => Quiet(g)'
    BY <2>1 DEF Quiet
  <2>5. RemoverInv'
    BY <1>1, <1>3, <2>1, <2>4 DEF RemoverInv
  <2> QED
    BY <1>1, <1>2, <2>2, <2>3, <2>5 DEF ConnInv, ConnTypeOK
<1>8. CASE PollCall
  <2>1. /\ poll.pc = "calls" /\ poll.fd = PipeFd
        /\ trfds' \subseteq trfds /\ twfds' \subseteq twfds
        /\ UNCHANGED <<pipe, pending_change, changedone>>
    BY <1>3, <1>8 DEF PollCall, PollInv, watchVars
  <2>2. \/ /\ poll' = [pc |-> "top", fd |-> PipeFd] /\ trfds = {} /\ twfds = {}
        \/ poll' = poll
        \/ \E f \in (trfds \cup twfds) \cap callbacks : \E p \in {"read_cb", "write_cb"} :
             poll' = [pc |-> p, fd |-> f]
    BY <1>4, <1>8, <2>1 DEF PollCall
  <2>3. PollTypeOK(Thread)'
    BY <1>1, <1>3, <2>1, <2>2 DEF PollTypeOK
  <2>4. PollInv'
    BY <2>1, <2>2 DEF PollInv
  <2>5. poll'.pc = "write_cb" => poll'.fd \in callbacks
    BY <2>1, <2>2
  <2>6. DeadInv'
    BY <1>1, <1>3, <2>5 DEF DeadInv
  <2>7. \A g \in Fd : Quiet(g) => Quiet(g)'
    BY <1>3, <2>1, <2>2 DEF Quiet
  <2>8. RemoverInv'
    BY <1>1, <1>3, <2>1, <2>7 DEF RemoverInv
  <2> QED
    BY <1>1, <1>2, <2>3, <2>4, <2>6, <2>8 DEF ConnInv, ConnTypeOK
<1> QED
  BY <1>5, <1>6, <1>7, <1>8 DEF PollLoop

\* A callback returns, and has watched nothing new: whoever it has made dead is
\* called back no more.
LEMMA CallbackFrame ==
  ASSUME ConnInv, ~aborted, CallbackReturns,
         UNCHANGED <<pending_change, changedone, early, removed, aborted>>,
         rfds' \subseteq rfds, wfds' \subseteq wfds, callbacks' \subseteq callbacks,
         dead \subseteq dead', dead' \cap callbacks' \subseteq dead,
         \A u \in Thread : thr[u].pc \in Removing \/ thr'[u].pc \in Removing => thr'[u] = thr[u]
  PROVE  PollInv' /\ RemoverInv' /\ DeadInv' /\ AbortIsRace'
<1>1. /\ poll'.pc = "calls" /\ poll'.fd = PipeFd /\ trfds' = trfds /\ twfds' = twfds
      /\ PipeFd \notin Fd /\ changedone \subseteq Thread /\ removed \subseteq Fd
      /\ \A t \in Thread : thr[t].pc = "removing" => thr[t].fd \in Fd
  BY FdAssumption, RemoverFacts DEF CallbackReturns, ConnInv, ConnTypeOK, PollTypeOK, Removing
<1>2. PollInv' /\ AbortIsRace'
  BY <1>1 DEF PollInv, AbortIsRace
<1>3. DeadInv'
  BY <1>1 DEF ConnInv, DeadInv
<1>4. \A g \in Fd : Quiet(g) => Quiet(g)'
  BY <1>1 DEF Quiet
<1>5. \A u \in Thread : /\ thr[u].pc = "removing" <=> thr'[u].pc = "removing"
                        /\ thr[u].pc = "removing" => thr'[u].fd = thr[u].fd
  BY DEF Removing
<1>6. RemoverInv'
  BY <1>1, <1>4, <1>5 DEF ConnInv, RemoverInv
<1> QED
  BY <1>2, <1>3, <1>6

\* A failed callback: f is dead and silent, and who waits for its PDU returns.
LEMMA FailsFacts ==
  ASSUME ConnInv, NEW f \in Fd, Fails(f)
  PROVE  /\ rfds' \subseteq rfds /\ wfds' \subseteq wfds /\ callbacks' = callbacks \ {f}
         /\ rfds' \subseteq Fd /\ wfds' \subseteq Fd /\ callbacks' \subseteq Fd
         /\ highfds' \in Fd \cup {PipeFd} /\ pipe' \in Nat
         /\ pending_change' = pending_change /\ changedone' = changedone
         /\ dead' = dead \cup {f}
         /\ thr' \in [Thread -> ThreadState]
         /\ \A u \in Thread :
              /\ thr'[u].fd = thr[u].fd /\ thr'[u].size = thr[u].size
              /\ \/ thr'[u] = thr[u]
                 \/ thr[u].pc = "send_complete" /\ thr[u].fd = f /\ thr'[u].pc = "return"
<1>1. /\ UnwatchFd(f, CB_RDWR) /\ pending_change' = pending_change /\ changedone' = changedone
      /\ callbacks' = (IF f \in rfds' \cup wfds' THEN callbacks ELSE callbacks \ {f})
      /\ dead' = dead \cup {f} /\ thr' = WakeOwner(f)
  BY DEF Fails, DelCallback
<1>2. /\ rfds' \subseteq rfds /\ wfds' \subseteq wfds /\ rfds' \subseteq Fd /\ wfds' \subseteq Fd
      /\ f \notin rfds' \cup wfds' /\ highfds' \in Fd \cup {PipeFd} /\ pipe' \in Nat
  BY <1>1, Unwatched
<1>3. thr \in [Thread -> ThreadState]
  BY ThreadStates DEF ConnInv
<1>4. /\ thr' \in [Thread -> ThreadState]
      /\ \A u \in Thread :
              /\ thr'[u].fd = thr[u].fd /\ thr'[u].size = thr[u].size
              /\ \/ thr'[u] = thr[u]
                 \/ thr[u].pc = "send_complete" /\ thr[u].fd = f /\ thr'[u].pc = "return"
  BY <1>1, <1>3, WakeOwnerDef
<1>5. callbacks' = callbacks \ {f} /\ callbacks' \subseteq Fd
  BY <1>1, <1>2 DEF ConnInv, ConnTypeOK, PollTypeOK
<1> QED
  BY <1>1, <1>2, <1>4, <1>5

\* Whoever a failed callback wakes returns from send, and nothing else changes
\* for the threads.
LEMMA WokenThreads ==
  ASSUME ConnInv, NEW f \in Fd, dead \subseteq dead',
         \A u \in Thread :
            /\ thr'[u].fd = thr[u].fd /\ thr'[u].size = thr[u].size
            /\ \/ thr'[u] = thr[u]
               \/ thr[u].pc = "send_complete" /\ thr[u].fd = f /\ thr'[u].pc = "return",
         \A g \in Fd : unread'[g] <= arrived'[g]
  PROVE  /\ ThreadInv'
         /\ \A u \in Thread :
              thr[u].pc \in Removing \/ thr'[u].pc \in Removing => thr'[u] = thr[u]
         /\ \A u \in Thread : thr'[u].pc \in Writing <=> thr[u].pc \in Writing
<1>1. Sender \subseteq Thread /\ Closer \in Thread
  BY DEF Thread
<1>2. thr[Closer].pc # "send_complete"
  BY DEF ConnInv, ThreadInv, Removing
<1>3. \A u \in Thread : thr[u].pc \in Removing \/ thr'[u].pc \in Removing => thr'[u] = thr[u]
  BY DEF Removing
<1>4. \A u \in Thread : thr'[u].pc = "idle" <=> thr[u].pc = "idle"
  OBVIOUS
<1>5. ThreadInv'
  BY <1>1, <1>2, <1>3, <1>4 DEF ConnInv, ThreadInv
<1> QED
  BY <1>3, <1>5 DEF Writing

\* What readpdu can make of what has arrived.
LEMMA ReadPduFacts ==
  ASSUME ConnInv, NEW f \in Fd, NEW r \in ReadPdu(f)
  PROVE  /\ r.rpdu \in {"none", "length", "full"}
         /\ r.unread \in 0..unread[f] /\ r.eagain \in BOOLEAN
<1>1. /\ link[f] \in {"up", "eof", "reset"} /\ rpdu[f] \in {"none", "length", "full"}
      /\ unread[f] \in Nat /\ eagain \in BOOLEAN
  BY ConnAssumption DEF ConnInv, ConnTypeOK
<1>2. ASSUME NEW n \in Nat
      PROVE  /\ ReadBody(f, n).rpdu \in {"none", "length", "full"}
             /\ ReadBody(f, n).unread \in 0..n /\ ReadBody(f, n).eagain \in BOOLEAN
  <2>1. CASE n > 0
    <3>1. ReadBody(f, n) = [rpdu |-> "full", unread |-> n - 1, eagain |-> eagain]
      BY <2>1 DEF ReadBody
    <3>2. ReadBody(f, n).eagain = eagain
      BY <3>1
    <3>3. ReadBody(f, n).eagain \in BOOLEAN
      BY <1>1, <3>2, Zenon
    <3> QED
      BY <2>1, <3>1, <3>3
  <2>2. CASE n = 0 /\ link[f] = "up"
    <3>1. ReadBody(f, n) = [rpdu |-> "length", unread |-> 0, eagain |-> TRUE]
      BY <2>2 DEF ReadBody
    <3>2. ReadBody(f, n).eagain = TRUE
      BY <3>1
    <3>3. ReadBody(f, n).eagain \in BOOLEAN
      BY <3>2, Zenon
    <3> QED
      BY <2>2, <3>1, <3>3
  <2>3. CASE n = 0 /\ link[f] = "eof"
    <3>1. ReadBody(f, n) = [rpdu |-> IF eagain THEN "length" ELSE "none", unread |-> 0,
                            eagain |-> eagain]
      BY <2>3 DEF ReadBody
    <3> QED
      BY <1>1, <2>3, <3>1
  <2>4. CASE n = 0 /\ link[f] = "reset"
    <3>1. ReadBody(f, n) = [rpdu |-> "none", unread |-> 0, eagain |-> FALSE]
      BY <2>4 DEF ReadBody
    <3>2. ReadBody(f, n).eagain = FALSE
      BY <3>1
    <3>3. ReadBody(f, n).eagain \in BOOLEAN
      BY <3>2, Zenon
    <3> QED
      BY <2>4, <3>1, <3>3
  <2> QED
    BY <1>1, <2>1, <2>2, <2>3, <2>4
<1>3. CASE rpdu[f] = "full"
  <2>1. r = [rpdu |-> "full", unread |-> unread[f], eagain |-> eagain]
    BY <1>3 DEF ReadPdu
  <2> QED
    BY <1>1, <2>1
<1>4. CASE rpdu[f] = "length"
  <2>1. r = ReadBody(f, unread[f])
    BY <1>4 DEF ReadPdu
  <2> QED
    BY <1>1, <1>2, <2>1
<1>5. CASE rpdu[f] = "none"
  <2> DEFINE over == [rpdu |-> "none", unread |-> unread[f],
                      eagain |-> eagain /\ link[f] # "reset"]
  <2>1. ReadPdu(f) = {over} \cup (IF unread[f] > 0 THEN {ReadBody(f, unread[f] - 1)} ELSE {})
    BY <1>5 DEF ReadPdu
  <2>2. CASE r = over
    <3>1. r.rpdu = "none" /\ r.unread = unread[f] /\ r.eagain = (eagain /\ link[f] # "reset")
      BY <2>2
    <3> QED
      BY <1>1, <3>1
  <2>3. CASE unread[f] > 0 /\ r = ReadBody(f, unread[f] - 1)
    <3>1. unread[f] - 1 \in Nat /\ 0..unread[f] - 1 \subseteq 0..unread[f]
      BY <1>1, <2>3
    <3> QED
      BY <1>2, <2>3, <3>1
  <2> QED
    BY <2>1, <2>2, <2>3
<1> QED
  BY <1>1, <1>3, <1>4, <1>5

LEMMA ReadCbStep ==
  ASSUME ConnInv, ~aborted, NEW f \in Fd, ReadCb(f)
  PROVE  ConnInv'
<1>1. /\ UNCHANGED <<wire, closed, removed, early, link, space, arrived, wpdu, nsend, aborted,
                     trfds, twfds, pending_change, changedone>>
      /\ CallbackReturns /\ poll' = [pc |-> "calls", fd |-> PipeFd]
  BY DEF ReadCb, CallbackReturns, historyVars, Fails, DelCallback, watchVars
<1>2. /\ unread' \in [Fd -> 0..MaxIn] /\ rpdu' \in [Fd -> {"none", "length", "full"}]
      /\ eagain' \in BOOLEAN /\ \A g \in Fd : unread'[g] <= arrived'[g]
  <2>1. /\ unread \in [Fd -> 0..MaxIn] /\ rpdu \in [Fd -> {"none", "length", "full"}]
        /\ eagain \in BOOLEAN /\ MaxIn \in Nat /\ arrived \in [Fd -> 0..MaxIn]
        /\ \A g \in Fd : unread[g] <= arrived[g]
    BY ConnAssumption DEF ConnInv, ConnTypeOK, ThreadInv
  <2>2. CASE f \in dead
    BY <1>1, <2>1, <2>2 DEF ReadCb
  <2>3. CASE f \notin dead
    <3>1. PICK r \in ReadPdu(f) :
            /\ unread' = [unread EXCEPT ![f] = r.unread] /\ eagain' = r.eagain
            /\ \E p \in {r.rpdu} \cup (IF r.rpdu = "full" THEN {"none"} ELSE {}) :
                 rpdu' = [rpdu EXCEPT ![f] = p]
      BY <2>3 DEF ReadCb
    <3>2. r.rpdu \in {"none", "length", "full"} /\ r.unread \in 0..unread[f] /\ r.eagain \in BOOLEAN
      BY ReadPduFacts
    <3>3. r.unread \in 0..MaxIn /\ r.unread <= arrived[f]
      BY <2>1, <3>2
    <3>4. unread' \in [Fd -> 0..MaxIn] /\ \A g \in Fd : unread'[g] <= arrived[g]
      BY <2>1, <3>1, <3>3
    <3>5. rpdu' \in [Fd -> {"none", "length", "full"}]
      BY <2>1, <3>1, <3>2
    <3> QED
      BY <1>1, <3>1, <3>2, <3>4, <3>5
  <2> QED
    BY <2>2, <2>3
<1>3. /\ rfds' \subseteq rfds /\ wfds' \subseteq wfds /\ callbacks' \subseteq callbacks
      /\ highfds' \in Fd \cup {PipeFd} /\ pipe' \in Nat
      /\ dead \subseteq dead' /\ dead' \cap callbacks' \subseteq dead /\ dead' \subseteq Fd
      /\ thr' \in [Thread -> ThreadState]
      /\ \A u \in Thread :
           /\ thr'[u].fd = thr[u].fd /\ thr'[u].size = thr[u].size
           /\ \/ thr'[u] = thr[u]
              \/ thr[u].pc = "send_complete" /\ thr[u].fd = f /\ thr'[u].pc = "return"
      /\ f \in dead' \/ thr' = thr
  <2>1. dead \subseteq Fd /\ highfds \in Fd \cup {PipeFd} /\ pipe \in Nat
        /\ thr \in [Thread -> ThreadState]
    BY ThreadStates DEF ConnInv, ConnTypeOK, PollTypeOK
  <2>2. CASE Fails(f)
    BY <2>1, <2>2, FailsFacts
  <2>3. CASE UNCHANGED <<watchVars, dead, thr>>
    BY <2>1, <2>3 DEF watchVars
  <2> QED
    BY <2>2, <2>3 DEF ReadCb
<1>4. /\ ThreadInv'
      /\ \A u \in Thread :
           thr[u].pc \in Removing \/ thr'[u].pc \in Removing => thr'[u] = thr[u]
      /\ \A u \in Thread : thr'[u].pc \in Writing <=> thr[u].pc \in Writing
  BY <1>2, <1>3, WokenThreads
<1>5. ConnTypeOK'
  BY <1>1, <1>2, <1>3 DEF ConnInv, ConnTypeOK, PollTypeOK, ThreadState
<1>6. OwnerInv' /\ WireInv'
  <2>1. \A u \in Sender :
            /\ thr'[u].fd = thr[u].fd /\ thr'[u].size = thr[u].size
            /\ thr'[u].pc \in Writing <=> thr[u].pc \in Writing
            /\ thr'[u].pc = "return" => thr[u].pc = "return" \/ thr[u].fd \in dead'
    BY <1>3, <1>4 DEF Thread
  <2> QED
    BY <1>1, <1>3, <2>1, WritersFrame
<1>7. PollInv' /\ RemoverInv' /\ DeadInv' /\ AbortIsRace'
  BY <1>1, <1>3, <1>4, CallbackFrame
<1> QED
  BY <1>4, <1>5, <1>6, <1>7 DEF ConnInv

\* Less of the PDU of f is left: what this says of the owners.
LEMMA LessIsLeft ==
  ASSUME ConnInv, NEW f \in Fd, wpdu[f] # NoPdu, NEW left \in 0..wpdu[f].left,
         wpdu' = [wpdu EXCEPT ![f].left = left], dead \subseteq dead',
         \A u \in Sender :
            /\ thr'[u].fd = thr[u].fd /\ thr'[u].size = thr[u].size
            /\ thr'[u].pc \in Writing <=> thr[u].pc \in Writing
            /\ thr'[u].pc = "return" =>
                 \/ thr[u].pc = "return"
                 \/ thr[u].fd = f /\ (left = 0 \/ f \in dead')
  PROVE  /\ wpdu' \in [Fd -> [owner : Thread, left : 0..MaxSize]]
         /\ wpdu'[f].owner = wpdu[f].owner /\ wpdu'[f].left = left /\ wpdu'[f] # NoPdu
         /\ \A g \in Fd : g # f => wpdu'[g] = wpdu[g]
         /\ OwnerInv'
<1>1. /\ wpdu \in [Fd -> [owner : Thread, left : 0..MaxSize]] /\ MaxSize \in Nat
      /\ wpdu[f] \in [owner : Thread, left : 0..MaxSize]
  BY ConnAssumption DEF ConnInv, ConnTypeOK
<1>2. wpdu[f].owner \in Thread /\ wpdu[f].left \in 0..MaxSize
  BY <1>1
<1> DEFINE r == [owner |-> wpdu[f].owner, left |-> left]
<1>3. [wpdu[f] EXCEPT !.left = left] = r
  BY <1>1
<1>4. wpdu' = [wpdu EXCEPT ![f] = r]
  BY <1>3
<1>5. left \in 0..MaxSize
  BY <1>1, <1>2
<1>6. r \in [owner : Thread, left : 0..MaxSize] /\ r.owner = wpdu[f].owner /\ r.left = left
  BY <1>2, <1>5
<1> HIDE DEF r
<1>7. /\ wpdu' \in [Fd -> [owner : Thread, left : 0..MaxSize]] /\ wpdu'[f] = r
      /\ \A g \in Fd : g # f => wpdu'[g] = wpdu[g]
  BY <1>1, <1>4, <1>6
<1>8. wpdu[f].owner \in Sender /\ Closer \notin Sender
  BY ConnAssumption DEF ConnInv, OwnerInv
<1>9. wpdu'[f] # NoPdu
  BY <1>6, <1>7, <1>8 DEF NoPdu
<1>10. OwnerInv'
  <2>1. \A g \in Fd : wpdu'[g] # NoPdu =>
          LET o == wpdu'[g].owner
          IN  /\ o \in Sender
              /\ thr'[o].pc \in Writing /\ thr'[o].fd = g
              /\ wpdu'[g].left <= thr'[o].size
    <3> SUFFICES ASSUME NEW g \in Fd, wpdu'[g] # NoPdu
                 PROVE  /\ wpdu'[g].owner \in Sender
                        /\ thr'[wpdu'[g].owner].pc \in Writing /\ thr'[wpdu'[g].owner].fd = g
                        /\ wpdu'[g].left <= thr'[wpdu'[g].owner].size
      OBVIOUS
    <3>1. CASE g = f
      <4>1. /\ wpdu[f].left <= thr[wpdu[f].owner].size /\ thr[wpdu[f].owner].pc \in Writing
            /\ thr[wpdu[f].owner].fd = f /\ thr[wpdu[f].owner].size \in Nat
        BY <1>1, <1>8, SenderFacts DEF ConnInv, OwnerInv, Writing
      <4>2. left <= thr[wpdu[f].owner].size
        BY <1>2, <4>1
      <4> QED
        BY <1>6, <1>7, <1>8, <3>1, <4>1, <4>2
    <3>2. CASE g # f
      BY <1>7, <3>2 DEF ConnInv, OwnerInv
    <3> QED
      BY <3>1, <3>2
  <2>2. \A u \in Sender : thr[u].pc \in Writing => thr[u].fd \in Fd
    BY SenderFacts DEF Writing
  <2>3. \A u \in Sender : thr'[u].pc \in Writing => wpdu'[thr'[u].fd].owner = u
    BY <1>6, <1>7, <2>2 DEF ConnInv, OwnerInv
  <2>4. \A u \in Sender : thr'[u].pc = "return" =>
           wpdu'[thr'[u].fd].left = 0 \/ thr'[u].fd \in dead'
    <3> SUFFICES ASSUME NEW u \in Sender, thr'[u].pc = "return"
                 PROVE  wpdu'[thr[u].fd].left = 0 \/ thr[u].fd \in dead'
      OBVIOUS
    <3>1. thr[u].fd \in Fd
      BY <2>2 DEF Writing
    <3>2. CASE thr[u].fd = f /\ (left = 0 \/ f \in dead')
      BY <1>6, <1>7, <3>2
    <3>3. CASE thr[u].pc = "return"
      <4>1. wpdu[thr[u].fd].left = 0 \/ thr[u].fd \in dead
        BY <3>3 DEF ConnInv, OwnerInv
      <4>2. wpdu[f].left = 0 => left = 0
        OBVIOUS
      <4> QED
        BY <1>6, <1>7, <3>1, <4>1, <4>2
    <3> QED
      BY <3>2, <3>3
  <2> QED
    BY <2>1, <2>3, <2>4 DEF OwnerInv
<1> QED
  BY <1>6, <1>7, <1>9, <1>10

LEMMA WriteCbStopsStep ==
  ASSUME ConnInv, ~aborted, NEW f \in Fd, WriteCbStops(f)
  PROVE  ConnInv'
<1>1. /\ UNCHANGED <<wire, closed, removed, early, link, space, arrived, unread, rpdu, nsend,
                     aborted, trfds, twfds>>
      /\ CallbackReturns /\ poll' = [pc |-> "calls", fd |-> PipeFd] /\ f \notin dead
  BY DEF WriteCbStops, CallbackReturns, historyVars
<1>2. \A g \in Fd : unread'[g] <= arrived'[g]
  BY <1>1 DEF ConnInv, ThreadInv
<1>3. CASE wpdu[f] = NoPdu /\ DelCallback(f, CB_WRONLY) /\ UNCHANGED <<dead, thr, wpdu, eagain>>
  <2>1. /\ UnwatchFd(f, CB_WRONLY) /\ UNCHANGED <<pending_change, changedone>>
        /\ callbacks' \subseteq callbacks
    BY <1>3 DEF DelCallback
  <2>2. /\ rfds' \subseteq rfds /\ wfds' \subseteq wfds /\ rfds' \subseteq Fd /\ wfds' \subseteq Fd
        /\ highfds' \in Fd \cup {PipeFd} /\ pipe' \in Nat
    BY <2>1, Unwatched
  <2>3. ConnTypeOK' /\ ThreadInv'
    BY <1>1, <1>3, <2>1, <2>2 DEF ConnInv, ConnTypeOK, PollTypeOK, ThreadInv
  <2>4. OwnerInv' /\ WireInv'
    BY <1>1, <1>3, OwnerFrame
  <2>5. dead \subseteq dead' /\ dead' \cap callbacks' \subseteq dead
    BY <1>3
  <2>6. PollInv' /\ RemoverInv' /\ DeadInv' /\ AbortIsRace'
    BY <1>1, <1>3, <2>1, <2>2, <2>5, CallbackFrame
  <2> QED
    BY <2>3, <2>4, <2>6 DEF ConnInv
<1>4. CASE /\ wpdu[f].left > 0 /\ Fails(f) /\ wpdu' = [wpdu EXCEPT ![f].left = 0]
           /\ eagain' = FALSE
  <2>1. /\ rfds' \subseteq rfds /\ wfds' \subseteq wfds /\ callbacks' = callbacks \ {f}
        /\ rfds' \subseteq Fd /\ wfds' \subseteq Fd /\ callbacks' \subseteq Fd
        /\ highfds' \in Fd \cup {PipeFd} /\ pipe' \in Nat
        /\ pending_change' = pending_change /\ changedone' = changedone
        /\ dead' = dead \cup {f}
        /\ thr' \in [Thread -> ThreadState]
        /\ \A u \in Thread :
             /\ thr'[u].fd = thr[u].fd /\ thr'[u].size = thr[u].size
             /\ \/ thr'[u] = thr[u]
                \/ thr[u].pc = "send_complete" /\ thr[u].fd = f /\ thr'[u].pc = "return"
    BY <1>4, FailsFacts
  <2>2. /\ dead \subseteq dead' /\ f \in dead' /\ dead' \cap callbacks' \subseteq dead
        /\ callbacks' \subseteq callbacks
    BY <2>1
  <2>3. /\ ThreadInv'
        /\ \A u \in Thread :
             thr[u].pc \in Removing \/ thr'[u].pc \in Removing => thr'[u] = thr[u]
        /\ \A u \in Thread : thr'[u].pc \in Writing <=> thr[u].pc \in Writing
    BY <1>2, <2>1, <2>2, WokenThreads
  <2>4. wpdu[f] # NoPdu /\ 0 \in 0..wpdu[f].left
    <3>1. wpdu[f].left # 0 /\ wpdu[f].left \in Nat
      BY <1>4, ConnAssumption DEF ConnInv, ConnTypeOK
    <3>2. NoPdu.left = 0
      BY DEF NoPdu
    <3> QED
      BY <3>1, <3>2
  <2>5. \A u \in Sender :
            /\ thr'[u].fd = thr[u].fd /\ thr'[u].size = thr[u].size
            /\ thr'[u].pc \in Writing <=> thr[u].pc \in Writing
            /\ thr'[u].pc = "return" => thr[u].pc = "return" \/ (thr[u].fd = f /\ f \in dead')
    BY <2>1, <2>2, <2>3 DEF Thread
  <2>6. /\ wpdu' \in [Fd -> [owner : Thread, left : 0..MaxSize]]
        /\ \A g \in Fd : g # f => wpdu'[g] = wpdu[g]
        /\ OwnerInv'
    BY <1>4, <2>2, <2>4, <2>5, LessIsLeft
  <2>7. eagain' \in BOOLEAN /\ dead' \subseteq Fd
    BY <1>4, <2>1 DEF ConnInv, ConnTypeOK
  <2>8. ConnTypeOK'
    BY <1>1, <2>1, <2>6, <2>7 DEF ConnInv, ConnTypeOK, PollTypeOK, ThreadState
  <2>9. WireInv'
    <3>1. \A g \in Fd \ dead' : /\ g \in Fd \ dead /\ g # f /\ wpdu'[g] = wpdu[g]
      BY <2>1, <2>6
    <3>2. \A g \in Fd : wpdu[g] # NoPdu => thr'[wpdu[g].owner].size = thr[wpdu[g].owner].size
      BY <2>5 DEF ConnInv, OwnerInv
    <3> QED
      BY <1>1, <3>1, <3>2 DEF ConnInv, WireInv
  <2>10. PollInv' /\ RemoverInv' /\ DeadInv' /\ AbortIsRace'
    BY <1>1, <2>1, <2>2, <2>3, CallbackFrame
  <2> QED
    BY <2>3, <2>6, <2>8, <2>9, <2>10 DEF ConnInv
<1> QED
  BY <1>3, <1>4 DEF WriteCbStops

\* write_cb goes on where the stream ends, and wakes the sender at the end.
LEMMA WriteCbStep ==
  ASSUME ConnInv, ~aborted, NEW f \in Fd, WriteCb(f)
  PROVE  ConnInv'
<1> DEFINE o == wpdu[f].owner
           n == Accepted(f, wpdu[f].left)
           left == wpdu[f].left - n
<1>1. /\ UNCHANGED <<link, arrived, unread, dead, rpdu, nsend, aborted, closed, removed, early,
                     rfds, wfds, highfds, pipe, callbacks, pending_change, changedone, trfds,
                     twfds>>
      /\ CallbackReturns /\ poll' = [pc |-> "calls", fd |-> PipeFd] /\ f \notin dead
      /\ wpdu[f] # NoPdu /\ WritePdu(f, o, thr[o].size, wpdu[f].left)
      /\ wpdu' = [wpdu EXCEPT ![f].left = left]
      /\ thr' = (IF left = 0 THEN WakeOwner(f) ELSE thr)
      /\ eagain' = (eagain \/ (wpdu[f].left > 0 /\ left = wpdu[f].left))
  BY DEF WriteCb, CallbackReturns, watchVars
<1>2. /\ o \in Sender /\ thr[o].fd = f /\ wpdu[f].left <= thr[o].size /\ thr[o].pc # "idle"
      /\ EndsBefore(wire[f], o, thr[o].size, wpdu[f].left)
  BY <1>1 DEF ConnInv, OwnerInv, WireInv, Writing
<1>3. /\ thr[o].size \in 1..MaxSize /\ thr \in [Thread -> ThreadState]
      /\ wpdu[f].left \in 0..thr[o].size /\ wpdu[f].left \in Nat
  <2>1. thr[o].size \in 1..MaxSize /\ thr \in [Thread -> ThreadState]
    BY <1>2, SenderFacts
  <2>2. wpdu[f].left \in 0..MaxSize /\ MaxSize \in Nat
    BY ConnAssumption DEF ConnInv, ConnTypeOK
  <2> QED
    BY <1>2, <2>1, <2>2
<1>4. /\ n \in 0..wpdu[f].left
      /\ space' \in [Fd -> 0..Space] /\ wire' \in [Fd -> Seq(Piece)]
      /\ \A g \in Fd : g # f => wire'[g] = wire[g]
      /\ \A g \in Fd : Whole(wire'[g])
      /\ EndsBefore(wire'[f], o, thr[o].size, left)
  <2> HIDE DEF o
  <2> QED
    BY <1>1, <1>2, <1>3, WritePduFacts
<1>5. left \in 0..wpdu[f].left
  BY <1>3, <1>4
<1>6. eagain' \in BOOLEAN
  BY <1>1, Zenon
<1> HIDE DEF o, n, left
<1>7. /\ thr' \in [Thread -> ThreadState]
      /\ \A u \in Thread :
           /\ thr'[u].fd = thr[u].fd /\ thr'[u].size = thr[u].size
           /\ \/ thr'[u] = thr[u]
              \/ /\ thr[u].pc = "send_complete" /\ thr[u].fd = f /\ thr'[u].pc = "return"
                 /\ left = 0
  <2>1. CASE left = 0
    BY <1>1, <1>3, <2>1, WakeOwnerDef
  <2>2. CASE left # 0
    BY <1>1, <1>3, <2>2
  <2> QED
    BY <2>1, <2>2
<1>8. \A g \in Fd : unread'[g] <= arrived'[g]
  BY <1>1 DEF ConnInv, ThreadInv
<1>9. /\ dead \subseteq dead' /\ dead' \cap callbacks' \subseteq dead
      /\ rfds' \subseteq rfds /\ wfds' \subseteq wfds /\ callbacks' \subseteq callbacks
  BY <1>1
<1>10. /\ ThreadInv'
       /\ \A u \in Thread :
            thr[u].pc \in Removing \/ thr'[u].pc \in Removing => thr'[u] = thr[u]
       /\ \A u \in Thread : thr'[u].pc \in Writing <=> thr[u].pc \in Writing
  BY <1>7, <1>8, <1>9, WokenThreads
<1>11. \A u \in Sender :
          /\ thr'[u].fd = thr[u].fd /\ thr'[u].size = thr[u].size
          /\ thr'[u].pc \in Writing <=> thr[u].pc \in Writing
          /\ thr'[u].pc = "return" =>
               \/ thr[u].pc = "return"
               \/ thr[u].fd = f /\ (left = 0 \/ f \in dead')
  BY <1>7, <1>10 DEF Thread
<1>12. /\ wpdu' \in [Fd -> [owner : Thread, left : 0..MaxSize]]
       /\ wpdu'[f].owner = o /\ wpdu'[f].left = left /\ wpdu'[f] # NoPdu
       /\ \A g \in Fd : g # f => wpdu'[g] = wpdu[g]
       /\ OwnerInv'
  <2>1. /\ wpdu[f] # NoPdu /\ wpdu' = [wpdu EXCEPT ![f].left = left] /\ dead \subseteq dead'
        /\ left \in 0..wpdu[f].left
    BY <1>1, <1>5
  <2>2. /\ wpdu' \in [Fd -> [owner : Thread, left : 0..MaxSize]]
        /\ wpdu'[f].owner = wpdu[f].owner /\ wpdu'[f].left = left /\ wpdu'[f] # NoPdu
        /\ \A g \in Fd : g # f => wpdu'[g] = wpdu[g]
        /\ OwnerInv'
    BY <1>11, <2>1, LessIsLeft
  <2> QED
    BY <2>2 DEF o
<1>13. ConnTypeOK'
  BY <1>1, <1>4, <1>6, <1>7, <1>12 DEF ConnInv, ConnTypeOK, PollTypeOK, ThreadState
<1>14. WireInv'
  <2>1. \A g \in Fd : wpdu[g] # NoPdu => thr'[wpdu[g].owner].size = thr[wpdu[g].owner].size
    BY <1>11 DEF ConnInv, OwnerInv
  <2>2. \A g \in Fd \ dead :
          IF wpdu'[g] = NoPdu THEN EndsBefore(wire'[g], Closer, 1, 1)
          ELSE EndsBefore(wire'[g], wpdu'[g].owner, thr'[wpdu'[g].owner].size, wpdu'[g].left)
    <3> SUFFICES ASSUME NEW g \in Fd \ dead
                 PROVE  IF wpdu'[g] = NoPdu THEN EndsBefore(wire'[g], Closer, 1, 1)
                        ELSE EndsBefore(wire'[g], wpdu'[g].owner, thr'[wpdu'[g].owner].size,
                                        wpdu'[g].left)
      OBVIOUS
    <3>1. CASE g = f
      BY <1>1, <1>4, <1>12, <2>1, <3>1 DEF o
    <3>2. CASE g # f
      <4>1. wpdu'[g] = wpdu[g] /\ wire'[g] = wire[g]
        BY <1>4, <1>12, <3>2
      <4>2. IF wpdu[g] = NoPdu THEN EndsBefore(wire[g], Closer, 1, 1)
            ELSE EndsBefore(wire[g], wpdu[g].owner, thr[wpdu[g].owner].size, wpdu[g].left)
        BY DEF ConnInv, WireInv
      <4> QED
        BY <2>1, <4>1, <4>2
    <3> QED
      BY <3>1, <3>2
  <2> QED
    BY <1>1, <1>4, <2>2 DEF WireInv
<1>15. PollInv' /\ RemoverInv' /\ DeadInv' /\ AbortIsRace'
  BY <1>1, <1>9, <1>10, CallbackFrame
<1> QED
  BY <1>10, <1>12, <1>13, <1>14, <1>15 DEF ConnInv

\* The assertion of write_cb fails: only a thread that is still removing the
\* connection, or whose wait has ended early, can have let it get there.
LEMMA WriteCbAbortsStep ==
  ASSUME ConnInv, NEW f \in Fd, WriteCbAborts(f)
  PROVE  ConnInv'
<1>1. /\ UNCHANGED <<rfds, wfds, highfds, pipe, callbacks, pending_change, changedone, poll,
                     trfds, twfds, wire, closed, removed, early, link, space, arrived, unread,
                     dead, wpdu, rpdu, eagain, thr, nsend>>
      /\ poll = [pc |-> "write_cb", fd |-> f] /\ f \in dead /\ aborted' = TRUE
  BY DEF WriteCbAborts, watchVars, pollVars, historyVars
<1>2. aborted' \in BOOLEAN
  BY <1>1
<1>3. ConnTypeOK' /\ ThreadInv'
  BY <1>1, <1>2 DEF ConnInv, ConnTypeOK, PollTypeOK, ThreadInv
<1>4. OwnerInv' /\ WireInv'
  BY <1>1, OwnerFrame
<1>5. PollInv' /\ DeadInv'
  BY <1>1 DEF ConnInv, PollInv, DeadInv
<1>6. poll.pc = "write_cb" /\ poll.fd \in dead
  BY <1>1
<1>7. AbortIsRace'
  BY <1>1, <1>6 DEF ConnInv, DeadInv, AbortIsRace, Removing
<1>8. RemoverInv'
  BY <1>1 DEF ConnInv, RemoverInv, Quiet
<1> QED
  BY <1>3, <1>4, <1>5, <1>7, <1>8 DEF ConnInv

-----------------------------------------------------------------------------
LEMMA NextConnInv == ConnInv /\ [Next]_vars => ConnInv'
<1> SUFFICES ASSUME ConnInv, [Next]_vars PROVE ConnInv'
  OBVIOUS
<1>1. CASE Next
  <2>1. ~aborted
    BY <1>1 DEF Next
  <2>2. CASE PollStep
    BY <2>1, <2>2, PollLoopStep, ReadCbStep, WriteCbStopsStep, WriteCbStep, WriteCbAbortsStep
       DEF PollStep
  <2>3. CASE \E t \in Sender : SendStep(t) \/ \E f \in Fd, n \in 1..MaxSize : Send(t, f, n)
    BY <2>3, SendStart, SendRefusedStep, SendWholeStep, SendPartStep, SendFailsStep,
       SendReturnStep DEF SendStep
  <2>4. CASE \E t \in Thread : RemoveStep(t) \/ SpuriousWakeup(t)
    BY <2>4, RemoveStart, RemovedStep, SpuriousStep DEF RemoveStep
  <2>5. CASE \E f \in Fd : Stream(f) \/ CloseConn(f)
    BY <2>5, StreamStep, CloseConnStep
  <2> QED
    BY <1>1, <2>2, <2>3, <2>4, <2>5 DEF Next
<1>2. CASE UNCHANGED vars
  <2>1. UNCHANGED <<rfds, wfds, highfds, pipe, callbacks, pending_change, changedone, poll,
                    trfds, twfds, wire, closed, removed, early, link, space, arrived, unread,
                    dead, wpdu, rpdu, eagain, thr, nsend, aborted>>
    BY <1>2 DEF vars, watchVars, pollVars, connVars, historyVars
  <2>2. ConnTypeOK' /\ ThreadInv'
    BY <2>1 DEF ConnInv, ConnTypeOK, PollTypeOK, ThreadInv
  <2>3. OwnerInv' /\ WireInv' /\ PollInv' /\ RemoverInv' /\ DeadInv' /\ AbortIsRace'
    BY <2>1, OwnerFrame, WatchFrame
  <2> QED
    BY <2>2, <2>3 DEF ConnInv
<1> QED
  BY <1>1, <1>2

LEMMA ConnInvHolds == Spec => []ConnInv
<1>1. Init => ConnInv
  BY InitConnInv
<1>2. ConnInv /\ [Next]_vars => ConnInv'
  BY NextConnInv
<1> QED
  BY <1>1, <1>2, PTL DEF Spec

(***************************************************************************)
(* The state of the connections and of the poll manager stays what the     *)
(* code takes it for: in particular highfds_ is always the pipe or the     *)
(* descriptor of a connection, and the buffers do not overflow.            *)
(***************************************************************************)
THEOREM ConnTypeCorrect == Spec => []ConnTypeOK
<1>1. ConnInv => ConnTypeOK
  BY DEF ConnInv
<1> QED
  BY <1>1, ConnInvHolds, PTL

(***************************************************************************)
(* After block_remove_fd has returned nobody watches the descriptor and no *)
(* callback of it is active or to come (connection.cc:78), whatever the    *)
(* senders, the poll thread and the other removers do, unless the wait     *)
(* ended early.                                                            *)
(***************************************************************************)
THEOREM RemovedStaysQuiet == Spec => []RemovedIsQuiet
<1>1. ConnInv => RemovedIsQuiet
  BY DEF ConnInv, RemoverInv, RemovedIsQuiet, Quiet
<1> QED
  BY <1>1, ConnInvHolds, PTL

(***************************************************************************)
(* The pieces of two PDUs are never mixed on a stream: between send, which *)
(* writes the beginning, and write_cb, which writes the rest, no other     *)
(* sender writes.                                                          *)
(***************************************************************************)
THEOREM PdusStayWhole == Spec => []PdusWhole
<1>1. ConnInv => PdusWhole
  BY DEF ConnInv, WireInv, Whole, PdusWhole
<1> QED
  BY <1>1, ConnInvHolds, PTL

(***************************************************************************)
(* The VERIFY of write_cb fails in no other way than in the window between *)
(* setting dead_ and the end of block_remove_fd.                           *)
(***************************************************************************)
THEOREM AbortsOnlyInRace == Spec => []AbortIsRace
<1>1. ConnInv => AbortIsRace
  BY DEF ConnInv
<1> QED
  BY <1>1, ConnInvHolds, PTL
=============================================================================
