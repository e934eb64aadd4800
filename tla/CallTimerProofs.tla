-------------------------- MODULE CallTimerProofs ---------------------------
(***************************************************************************)
(* The proof that a call waits for as long as it was told to and no        *)
(* longer, spins only with a timeout that is not a whole number of         *)
(* seconds, and takes a number of rounds that is logarithmic in its        *)
(* timeout, for every length of a second and of the first round and every  *)
(* timeout.                                                                *)
(***************************************************************************)
EXTENDS CallTimer, Integers, FiniteSetTheorems, FunctionTheorems, TLAPS

\* A timespec that add_timespec makes: the units may be a whole second.
Timespec == [sec : Nat, nsec : 0..Sec]

TimerTypes ==
    /\ now \in Nat /\ now >= Sec
    /\ pc \in {"idle", "loop", "wait", "replied", "timeout"}
    /\ to \in Nat /\ start \in Nat
    /\ curr_to \in Nat /\ curr_to % Sec = 0
    /\ nextdeadline \in Timespec /\ finaldeadline \in Timespec

\* Where the final deadline is: in finaldeadline, and from the last round on
\* in nextdeadline.
DeadlineInv ==
    /\ pc # "idle" /\ finaldeadline.sec # 0 => Time(finaldeadline) = start + to
    /\ pc = "wait" => Time(nextdeadline) <= start + to
    /\ pc = "wait" /\ finaldeadline.sec = 0 => Time(nextdeadline) = start + to
    /\ pc = "loop" /\ finaldeadline.sec = 0 => now >= start + to

\* The deadlines of a timeout of whole seconds are normalised.
WholeInv ==
    to % Sec = 0 => Valid(finaldeadline) /\ (pc = "wait" => Valid(nextdeadline))

TimerInv == TimerTypes /\ DeadlineInv /\ WholeInv /\ NotEarly

-----------------------------------------------------------------------------
LEMMA DivMod ==
  ASSUME NEW n \in Nat
  PROVE  /\ n \div Sec \in Nat /\ n % Sec \in 0..Sec - 1
         /\ n = (n \div Sec) * Sec + (n % Sec)
  BY TimerAssumption

\* Twice a whole number of seconds is a whole number of seconds.
LEMMA Doubled ==
  ASSUME NEW n \in Nat, n % Sec = 0
  PROVE  (2 * n) % Sec = 0
<1>1. Sec \in Nat \ {0} /\ 2 * n \in Nat
  BY TimerAssumption
<1> DEFINE k == n \div Sec
           q == (2 * n) \div Sec
           m == (2 * n) % Sec
<1>2. k \in Nat /\ n = k * Sec
  <2>1. k \in Nat /\ n = k * Sec + (n % Sec)
    BY DivMod
  <2>2. k * Sec \in Nat
    BY <1>1, <2>1
  <2> QED
    BY <2>1, <2>2
<1>3. q \in Nat /\ m \in 0..Sec - 1 /\ 2 * n = q * Sec + m
  BY <1>1, DivMod
<1> HIDE DEF k, q, m
<1>4. m = (2 * k - q) * Sec
  BY <1>1, <1>2, <1>3
<1>5. 2 * k - q \in Int
  BY <1>2, <1>3
<1>6. ASSUME 2 * k - q >= 1 PROVE FALSE
  BY <1>1, <1>3, <1>4, <1>5, <1>6
<1>7. ASSUME 2 * k - q <= 0 PROVE m = 0
  <2>1. (2 * k - q) * Sec <= 0
    BY <1>1, <1>5, <1>7
  <2> QED
    BY <1>3, <1>4, <2>1
<1> QED
  BY <1>5, <1>6, <1>7 DEF m

\* add_timespec gives the time n later than now, carried or not.
LEMMA AddTimespec ==
  ASSUME NEW t \in Nat, NEW n \in Nat
  PROVE  LET s == add_timespec([sec |-> t \div Sec, nsec |-> t % Sec], n)
         IN  /\ s \in Timespec
             /\ Time(s) = t + n
             /\ t >= Sec => s.sec # 0
             /\ n % Sec = 0 => Valid(s)
<1> DEFINE a == [sec |-> t \div Sec, nsec |-> t % Sec]
           s == add_timespec(a, n)
           nsec == (t % Sec) + (n % Sec)
           sec == (t \div Sec) + (n \div Sec)
<1>1. Sec \in Nat \ {0}
  BY TimerAssumption
<1>2. /\ t \div Sec \in Nat /\ t % Sec \in 0..Sec - 1 /\ t = (t \div Sec) * Sec + (t % Sec)
      /\ n \div Sec \in Nat /\ n % Sec \in 0..Sec - 1 /\ n = (n \div Sec) * Sec + (n % Sec)
  BY DivMod
<1>3. s = IF nsec > Sec THEN [sec |-> sec + 1, nsec |-> nsec - Sec]
          ELSE [sec |-> sec, nsec |-> nsec]
  BY DEF add_timespec
<1>4. sec \in Nat /\ nsec \in 0..2 * Sec - 2 /\ (n % Sec = 0 => nsec < Sec)
  BY <1>1, <1>2
<1>5. sec * Sec + nsec = t + n
  <2>1. sec * Sec = (t \div Sec) * Sec + (n \div Sec) * Sec
    BY <1>1, <1>2
  <2>2. (t \div Sec) * Sec \in Nat /\ (n \div Sec) * Sec \in Nat
    BY <1>1, <1>2
  <2> QED
    BY <1>1, <1>2, <2>1, <2>2
<1>6. t >= Sec => sec # 0
  <2>1. t \div Sec = 0 => t < Sec
    BY <1>1, <1>2
  <2> QED
    BY <1>1, <1>2, <2>1
<1> HIDE DEF sec, nsec, s
<1>7. CASE nsec > Sec
  <2>1. s = [sec |-> sec + 1, nsec |-> nsec - Sec]
    BY <1>3, <1>7
  <2>2. (sec + 1) * Sec + (nsec - Sec) = sec * Sec + nsec
    BY <1>1, <1>4
  <2>3. nsec - Sec \in 0..Sec /\ nsec - Sec < Sec /\ sec + 1 \in Nat /\ sec + 1 # 0
    BY <1>1, <1>4, <1>7
  <2>4. s \in Timespec /\ s.sec # 0 /\ Valid(s)
    BY <2>1, <2>3 DEF Timespec, Valid
  <2>5. Time(s) = t + n
    BY <1>5, <2>1, <2>2 DEF Time
  <2> QED
    BY <2>4, <2>5 DEF s
<1>8. CASE ~(nsec > Sec)
  <2>1. s = [sec |-> sec, nsec |-> nsec]
    BY <1>3, <1>8
  <2>2. nsec \in 0..Sec
    BY <1>1, <1>4, <1>8
  <2>3. s \in Timespec /\ (t >= Sec => s.sec # 0) /\ (n % Sec = 0 => Valid(s))
    BY <1>4, <1>6, <2>1, <2>2 DEF Timespec, Valid
  <2>4. Time(s) = t + n
    BY <1>5, <2>1 DEF Time
  <2> QED
    BY <2>3, <2>4 DEF s
<1> QED
  BY <1>7, <1>8

\* The comparison is that of the times although the units may be a second.
LEMMA CmpTimespec ==
  ASSUME NEW a \in Timespec, NEW b \in Timespec
  PROVE  /\ cmp_timespec(a, b) = "greater" => Time(a) >= Time(b)
         /\ cmp_timespec(a, b) # "greater" => Time(a) <= Time(b)
<1>1. /\ Sec \in Nat \ {0}
      /\ a.sec \in Nat /\ a.nsec \in 0..Sec /\ b.sec \in Nat /\ b.nsec \in 0..Sec
  BY TimerAssumption DEF Timespec
<1>2. \A x, y \in Nat : x > y => x * Sec >= y * Sec + Sec
  <2> SUFFICES ASSUME NEW x \in Nat, NEW y \in Nat, x > y PROVE x * Sec >= y * Sec + Sec
    OBVIOUS
  <2>1. x * Sec = y * Sec + (x - y) * Sec
    BY <1>1
  <2>2. (x - y) * Sec >= Sec
    BY <1>1
  <2>3. x * Sec \in Int /\ y * Sec \in Int /\ (x - y) * Sec \in Int
    BY <1>1
  <2> QED
    BY <1>1, <2>1, <2>2, <2>3
<1>3. a.sec * Sec \in Nat /\ b.sec * Sec \in Nat
  BY <1>1
<1>4. CASE a.sec > b.sec
  BY <1>1, <1>2, <1>3, <1>4 DEF cmp_timespec, Time
<1>5. CASE a.sec < b.sec
  <2>1. cmp_timespec(a, b) = "less"
    BY <1>1, <1>5 DEF cmp_timespec
  <2>2. Time(a) <= Time(b)
    BY <1>1, <1>2, <1>3, <1>5 DEF Time
  <2> QED
    BY <2>1, <2>2
<1>6. CASE a.sec = b.sec
  BY <1>1, <1>3, <1>6 DEF cmp_timespec, Time
<1> QED
  BY <1>1, <1>4, <1>5, <1>6

-----------------------------------------------------------------------------
LEMMA InitTimerInv == Init => TimerInv
<1> SUFFICES ASSUME Init PROVE TimerInv
  OBVIOUS
<1>1. Sec \in Nat \ {0}
  BY TimerAssumption
<1>2. Never \in Timespec /\ Valid(Never) /\ 0 % Sec = 0
  BY <1>1 DEF Never, Timespec, Valid
<1> QED
  BY <1>1, <1>2 DEF Init, TimerInv, TimerTypes, DeadlineInv, WholeInv, NotEarly

\* A call begins: its final deadline is to later.
LEMMA CallStep ==
  ASSUME TimerInv, NEW x \in 0..MaxTo, Call(x)
  PROVE  TimerInv'
<1>1. TimerTypes /\ pc = "idle" /\ x \in Nat
  BY TimerAssumption DEF TimerInv, Call
<1>2. /\ finaldeadline' \in Timespec /\ Time(finaldeadline') = now + x
      /\ finaldeadline'.sec # 0 /\ (x % Sec = 0 => Valid(finaldeadline'))
  <2>1. finaldeadline' = add_timespec([sec |-> now \div Sec, nsec |-> now % Sec], x)
    BY DEF Call, clock_gettime
  <2> QED
    BY <1>1, <2>1, AddTimespec DEF TimerTypes
<1>3. TimerTypes'
  BY <1>1, <1>2, TimerAssumption DEF TimerTypes, Call
<1>4. DeadlineInv'
  BY <1>2 DEF DeadlineInv, Call
<1>5. WholeInv' /\ NotEarly'
  BY <1>2 DEF WholeInv, NotEarly, Call
<1> QED
  BY <1>3, <1>4, <1>5 DEF TimerInv

\* A round begins: it ends at the final deadline if it would pass it.
LEMMA SetDeadlineStep ==
  ASSUME TimerInv, SetDeadline
  PROVE  TimerInv'
<1> DEFINE next == add_timespec(clock_gettime, curr_to)
           last == cmp_timespec(next, finaldeadline) = "greater"
<1>1. TimerTypes /\ DeadlineInv /\ WholeInv /\ Sec \in Nat \ {0}
  BY TimerAssumption DEF TimerInv
<1>2. /\ pc = "loop" /\ finaldeadline.sec # 0 /\ pc' = "wait"
      /\ nextdeadline' = IF last THEN finaldeadline ELSE next
      /\ finaldeadline' = IF last THEN [finaldeadline EXCEPT !.sec = 0] ELSE finaldeadline
      /\ UNCHANGED <<now, to, start, curr_to, done>>
  BY DEF SetDeadline
<1>3. next \in Timespec /\ Valid(next)
  BY <1>1, AddTimespec DEF TimerTypes, clock_gettime
<1>4. Time(finaldeadline) = start + to /\ finaldeadline \in Timespec
  BY <1>1, <1>2 DEF DeadlineInv, TimerTypes
<1> HIDE DEF next
<1>5. ~last => Time(next) <= start + to
  BY <1>3, <1>4, CmpTimespec
<1> HIDE DEF last
<1>6. Time(nextdeadline') <= start + to /\ (last => Time(nextdeadline') = start + to)
  <2>1. start + to \in Nat
    BY <1>1 DEF TimerTypes
  <2> QED
    BY <1>2, <1>4, <1>5, <2>1
<1>7. CASE last
  <2>1. /\ finaldeadline' \in Timespec /\ finaldeadline'.sec = 0
        /\ finaldeadline'.nsec = finaldeadline.nsec
    BY <1>2, <1>4, <1>7 DEF Timespec
  <2>2. nextdeadline' = finaldeadline
    BY <1>2, <1>7
  <2>3. TimerTypes'
    BY <1>1, <1>2, <1>4, <2>1, <2>2 DEF TimerTypes
  <2>4. DeadlineInv'
    BY <1>2, <1>6, <1>7, <2>1 DEF DeadlineInv
  <2>5. WholeInv' /\ NotEarly'
    BY <1>1, <1>2, <2>1, <2>2 DEF WholeInv, Valid, NotEarly
  <2> QED
    BY <2>3, <2>4, <2>5 DEF TimerInv
<1>8. CASE ~last
  <2>1. nextdeadline' = next /\ finaldeadline' = finaldeadline
    BY <1>2, <1>8
  <2>2. TimerTypes'
    BY <1>1, <1>2, <1>3, <2>1 DEF TimerTypes
  <2>3. DeadlineInv'
    BY <1>2, <1>4, <1>6, <2>1 DEF DeadlineInv
  <2>4. WholeInv' /\ NotEarly'
    BY <1>1, <1>2, <1>3, <2>1 DEF WholeInv, NotEarly
  <2> QED
    BY <2>2, <2>3, <2>4 DEF TimerInv
<1> QED
  BY <1>7, <1>8

\* A round ends without a reply: if it was the last the final deadline has
\* come.
LEMMA TimeoutStep ==
  ASSUME TimerInv, Timeout
  PROVE  TimerInv'
<1>1. TimerTypes /\ DeadlineInv /\ WholeInv
  BY DEF TimerInv
<1>2. /\ pc = "wait" /\ pc' = "loop" /\ now >= Time(nextdeadline) /\ curr_to' = 2 * curr_to
      /\ UNCHANGED <<now, to, start, nextdeadline, finaldeadline, done, rounds>>
  BY DEF Timeout
<1>3. 2 * curr_to \in Nat /\ (2 * curr_to) % Sec = 0
  BY <1>1, Doubled DEF TimerTypes
<1>4. TimerTypes'
  BY <1>1, <1>2, <1>3 DEF TimerTypes
<1>5. DeadlineInv'
  <2>1. Time(finaldeadline)' = Time(finaldeadline)
    BY <1>2 DEF Time
  <2> QED
    BY <1>1, <1>2, <2>1 DEF DeadlineInv
<1>6. WholeInv' /\ NotEarly'
  BY <1>1, <1>2 DEF WholeInv, Valid, NotEarly
<1> QED
  BY <1>4, <1>5, <1>6 DEF TimerInv

LEMMA NextTimerInv == TimerInv /\ [Next]_vars => TimerInv'
<1> SUFFICES ASSUME TimerInv, [Next]_vars PROVE TimerInv'
  OBVIOUS
<1>1. CASE \E x \in 0..MaxTo : Call(x)
  BY <1>1, CallStep
<1>2. CASE SetDeadline
  BY <1>2, SetDeadlineStep
<1>3. CASE Timeout
  BY <1>3, TimeoutStep
<1>4. CASE GiveUp \/ Reply
  <2>1. /\ pc' \in {"replied", "timeout"} /\ pc \in {"loop", "wait"}
        /\ pc' = "timeout" => pc = "loop" /\ finaldeadline.sec = 0
        /\ UNCHANGED <<now, to, start, curr_to, nextdeadline, finaldeadline>>
    BY <1>4 DEF GiveUp, Reply
  <2>2. TimerTypes'
    BY <2>1 DEF TimerInv, TimerTypes
  <2>3. DeadlineInv'
    BY <2>1 DEF TimerInv, DeadlineInv, Time
  <2> QED
    BY <2>1, <2>2, <2>3 DEF TimerInv, WholeInv, Valid, NotEarly, DeadlineInv
<1>5. CASE GotPdu \/ Tick
  <2>1. /\ now' \in Nat /\ now' >= now
        /\ UNCHANGED <<pc, to, start, curr_to, nextdeadline, finaldeadline>>
    BY <1>5 DEF TimerInv, TimerTypes, GotPdu, Tick
  <2>2. now \in Nat /\ start \in Nat /\ to \in Nat /\ Sec \in Nat
    BY TimerAssumption DEF TimerInv, TimerTypes
  <2>3. TimerTypes'
    BY <2>1, <2>2 DEF TimerInv, TimerTypes
  <2>4. DeadlineInv'
    BY <2>1, <2>2 DEF TimerInv, DeadlineInv, Time
  <2> QED
    BY <2>1, <2>2, <2>3, <2>4 DEF TimerInv, WholeInv, Valid, NotEarly
<1>6. CASE UNCHANGED vars
  BY <1>6 DEF vars, TimerInv, TimerTypes, DeadlineInv, Time, WholeInv, Valid, NotEarly
<1> QED
  BY <1>1, <1>2, <1>3, <1>4, <1>5, <1>6 DEF Next, Caller

LEMMA TimerInvHolds == Spec => []TimerInv
  BY InitTimerInv, NextTimerInv, PTL DEF Spec

\* No call gives up before its timeout, however the rounds double and the
\* additions carry.
THEOREM NeverEarly == Spec => []NotEarly
<1>1. TimerInv => NotEarly
  BY DEF TimerInv
<1> QED
  BY <1>1, TimerInvHolds, PTL

\* No round waits beyond the final deadline.
THEOREM DeadlineIsBound == Spec => []DeadlineBounded
<1>1. TimerInv => DeadlineBounded
  BY DEF TimerInv, DeadlineInv, DeadlineBounded
<1> QED
  BY <1>1, TimerInvHolds, PTL

\* A call whose timeout is a whole number of seconds never spins on a deadline
\* that pthread_cond_timedwait refuses; the others do so only with a carry of
\* exactly one second.
THEOREM OnlyFractionsSpin == Spec => []SpinIsFraction
<1>1. TimerInv => SpinIsFraction
  <2> SUFFICES ASSUME TimerInv, Spins PROVE to % Sec # 0 /\ nextdeadline.nsec = Sec
    BY DEF SpinIsFraction
  <2>1. pc = "wait" /\ ~(nextdeadline.nsec < Sec) /\ nextdeadline.nsec \in 0..Sec /\ Sec \in Nat
    BY TimerAssumption DEF Spins, Valid, TimerInv, TimerTypes, Timespec
  <2> QED
    BY <2>1 DEF TimerInv, WholeInv, Valid
<1> QED
  BY <1>1, TimerInvHolds, PTL

-----------------------------------------------------------------------------
(***************************************************************************)
(* The number of rounds.  What is known of powers of two is that they      *)
(* count subsets: those of 1..n + 1 are those of 1..n, each without and    *)
(* with n + 1.                                                             *)
(***************************************************************************)
LEMMA CountSubsets ==
  ASSUME NEW n \in Nat
  PROVE  IsFiniteSet(SUBSET (1..n)) /\ Cardinality(SUBSET (1..n)) = 2 ^ n
<1>1. IsFiniteSet(1..n) /\ Cardinality(1..n) = n
  BY FS_Interval
<1> QED
  BY <1>1, FS_SUBSET

\* The powers of two, as the numbers of subsets of 1..n.
LEMMA PowerOfTwo ==
  ASSUME NEW n \in Nat
  PROVE  2 ^ 0 = 1 /\ 2 ^ n \in Nat /\ 2 ^ (n + 1) = 2 * 2 ^ n
<1> DEFINE S == SUBSET (1..n)
           f == [A \in S |-> A \cup {n + 1}]
           T == {A \cup {n + 1} : A \in S}
<1>1. 2 ^ 0 = 1
  <2>1. SUBSET (1..0) = {{}}
    OBVIOUS
  <2>2. Cardinality(SUBSET (1..0)) = 2 ^ 0
    BY CountSubsets
  <2>3. Cardinality({{}}) = 1
    BY FS_Singleton
  <2> QED
    BY <2>1, <2>2, <2>3
<1>2. IsFiniteSet(S) /\ Cardinality(S) = 2 ^ n /\ 2 ^ n \in Nat
  <2>1. IsFiniteSet(S) /\ Cardinality(S) = 2 ^ n
    BY CountSubsets
  <2> QED
    BY <2>1, FS_CardinalityType
<1>3. ASSUME NEW A \in S PROVE n + 1 \notin A
  BY <1>3
<1>4. f \in [S -> T] /\ \A t \in T : \E A \in S : f[A] = t
  OBVIOUS
<1>5. ASSUME NEW A \in S, NEW B \in S, f[A] = f[B] PROVE A = B
  <2>1. A \cup {n + 1} = B \cup {n + 1} /\ n + 1 \notin A /\ n + 1 \notin B
    BY <1>3, <1>5
  <2>2. \A e : e \in A <=> e \in B
    BY <2>1
  <2> QED
    BY <2>2
<1>6. ExistsBijection(S, T)
  <2> HIDE DEF f, S, T
  <2>1. f \in Bijection(S, T)
    BY <1>4, <1>5, Fun_IsBij
  <2> QED
    BY <2>1 DEF ExistsBijection
<1>7. IsFiniteSet(T) /\ Cardinality(T) = 2 ^ n
  <2> HIDE DEF S, T
  <2> QED
    BY <1>2, <1>6, FS_Bijection
<1>8. S \cup T = SUBSET (1..n + 1)
  <2>1. ASSUME NEW C \in SUBSET (1..n + 1) PROVE C \in S \cup T
    <3>1. CASE n + 1 \in C
      <4>1. C \ {n + 1} \in S
        OBVIOUS
      <4>2. C = (C \ {n + 1}) \cup {n + 1}
        BY <3>1
      <4> QED
        BY <4>1, <4>2
    <3>2. CASE n + 1 \notin C
      BY <3>2
    <3> QED
      BY <3>1, <3>2
  <2>2. S \cup T \subseteq SUBSET (1..n + 1)
    <3>1. 1..n \subseteq 1..n + 1 /\ n + 1 \in 1..n + 1
      OBVIOUS
    <3>2. ASSUME NEW A \in S PROVE A \subseteq 1..n + 1 /\ A \cup {n + 1} \subseteq 1..n + 1
      BY <3>1
    <3>3. ASSUME NEW C \in T PROVE C \subseteq 1..n + 1
      <4>1. PICK A \in S : C = A \cup {n + 1}
        OBVIOUS
      <4> QED
        BY <3>2, <4>1
    <3> HIDE DEF S, T
    <3> QED
      BY <3>2, <3>3
  <2> QED
    BY <2>1, <2>2
<1>9. S \cap T = {}
  BY <1>3
<1>10. Cardinality(S \cup T) = 2 ^ (n + 1)
  <2>1. n + 1 \in Nat
    OBVIOUS
  <2> QED
    BY <1>8, <2>1, CountSubsets
<1>11. Cardinality(S \cup T) = 2 ^ n + 2 ^ n
  <2> HIDE DEF S, T
  <2>1. Cardinality(S \cup T) = Cardinality(S) + Cardinality(T) - Cardinality(S \cap T)
    BY <1>2, <1>7, FS_Union
  <2>2. Cardinality(S \cap T) = 0
    BY <1>9, FS_EmptySet
  <2> QED
    BY <1>2, <1>7, <2>1, <2>2
<1> QED
  BY <1>1, <1>2, <1>10, <1>11

-----------------------------------------------------------------------------
\* The length of a round is to_min times a power of two, and the rounds that
\* ended were as long as they were meant to be and fit into the timeout.
RoundInv ==
    /\ rounds \in Nat
    /\ pc = "idle" => rounds = 0
    /\ pc = "loop" => curr_to = to_min * 2 ^ rounds
    /\ pc = "wait" => rounds > 0 /\ curr_to = to_min * 2 ^ (rounds - 1)
    /\ pc = "loop" /\ finaldeadline.sec # 0 =>
          start + curr_to <= now + to_min /\ curr_to <= to + to_min
    /\ pc = "wait" /\ finaldeadline.sec # 0 =>
          start + 2 * curr_to <= Time(nextdeadline) + to_min
    /\ FewRounds

\* The types that the steps below need.
LEMMA RoundTypes ==
  ASSUME TimerInv
  PROVE  /\ now \in Nat /\ to \in Nat /\ start \in Nat /\ curr_to \in Nat
         /\ Sec \in Nat \ {0} /\ to_min \in Nat \ {0}
         /\ pc \in {"idle", "loop", "wait", "replied", "timeout"}
  BY TimerAssumption DEF TimerInv, TimerTypes

\* A call has made no round when it begins.
LEMMA InitRoundInv == Init => RoundInv
  BY DEF Init, RoundInv, FewRounds

\* A call begins, with the length of its first round.
LEMMA CallRounds ==
  ASSUME TimerInv, RoundInv, NEW x \in 0..MaxTo, Call(x)
  PROVE  RoundInv'
<1>1. /\ pc = "idle" /\ pc' = "loop" /\ to' = x /\ start' = now /\ curr_to' = to_min
      /\ UNCHANGED <<now, rounds>> /\ rounds = 0
  BY DEF Call, RoundInv
<1>2. to_min * 2 ^ 0 = to_min /\ x \in Nat /\ now \in Nat /\ to_min \in Nat
  <2>1. 2 ^ 0 = 1
    BY PowerOfTwo
  <2> QED
    BY <2>1, RoundTypes, TimerAssumption
<1>3. start' + curr_to' <= now' + to_min /\ curr_to' <= to' + to_min
  BY <1>1, <1>2
<1>4. curr_to' = to_min * 2 ^ rounds'
  BY <1>1, <1>2
<1> QED
  BY <1>1, <1>3, <1>4 DEF RoundInv, FewRounds

\* A round begins: those before it took what they were meant to.
LEMMA SetDeadlineRounds ==
  ASSUME TimerInv, RoundInv, SetDeadline
  PROVE  RoundInv'
<1> DEFINE next == add_timespec(clock_gettime, curr_to)
           last == cmp_timespec(next, finaldeadline) = "greater"
           P == 2 ^ rounds
<1>1. /\ pc = "loop" /\ finaldeadline.sec # 0 /\ pc' = "wait" /\ rounds' = rounds + 1
      /\ nextdeadline' = IF last THEN finaldeadline ELSE next
      /\ finaldeadline' = IF last THEN [finaldeadline EXCEPT !.sec = 0] ELSE finaldeadline
      /\ UNCHANGED <<now, to, start, curr_to>>
  BY DEF SetDeadline
<1>2. /\ rounds \in Nat /\ curr_to = to_min * P
      /\ start + curr_to <= now + to_min /\ curr_to <= to + to_min
  BY <1>1 DEF RoundInv
<1>3. P \in Nat
  BY <1>2, PowerOfTwo
<1>4. Time(next) = now + curr_to
  BY RoundTypes, AddTimespec DEF clock_gettime
<1>5. finaldeadline'.sec # 0 => nextdeadline' = next
  <2>1. finaldeadline \in Timespec
    BY DEF TimerInv, TimerTypes
  <2>2. CASE last
    BY <1>1, <2>1, <2>2 DEF Timespec
  <2> QED
    BY <1>1, <2>2
<1>6. (rounds + 1) - 1 = rounds /\ rounds + 1 > 0 /\ rounds + 1 \in Nat
  BY <1>2
<1> HIDE DEF next, last, P
<1>7. to_min * (P - 1) <= to
  <2>1. to_min * (P - 1) = to_min * P - to_min
    BY <1>3, RoundTypes
  <2> QED
    BY <1>2, <2>1, RoundTypes
<1>8. finaldeadline'.sec # 0 => start' + 2 * curr_to' <= Time(nextdeadline') + to_min
  <2> SUFFICES ASSUME finaldeadline'.sec # 0
               PROVE  start' + 2 * curr_to' <= Time(nextdeadline') + to_min
    OBVIOUS
  <2>1. Time(nextdeadline') = now + curr_to
    BY <1>4, <1>5
  <2>2. start + 2 * curr_to <= (now + curr_to) + to_min
    BY <1>2, RoundTypes
  <2> QED
    BY <1>1, <2>1, <2>2
<1>9. curr_to' = to_min * 2 ^ (rounds' - 1) /\ rounds' > 0 /\ rounds' \in Nat
  BY <1>1, <1>2, <1>6 DEF P
<1>10. FewRounds'
  BY <1>1, <1>6, <1>7 DEF FewRounds, P
<1> QED
  BY <1>1, <1>8, <1>9, <1>10 DEF RoundInv, Time

\* A round ends, and the next one is twice as long.
LEMMA TimeoutRounds ==
  ASSUME TimerInv, RoundInv, Timeout
  PROVE  RoundInv'
<1> DEFINE k == rounds - 1
           t == Time(nextdeadline)
<1>1. /\ pc = "wait" /\ pc' = "loop" /\ now >= t /\ curr_to' = 2 * curr_to
      /\ UNCHANGED <<now, to, start, finaldeadline, rounds>>
  BY DEF Timeout
<1>2. rounds \in Nat /\ rounds > 0 /\ curr_to = to_min * 2 ^ k
  BY <1>1 DEF RoundInv
<1>3. k \in Nat /\ k + 1 = rounds
  BY <1>2
<1> HIDE DEF k
<1>4. curr_to' = to_min * 2 ^ rounds
  <2> DEFINE P == 2 ^ k
  <2>1. P \in Nat /\ 2 ^ (k + 1) = 2 * P
    BY <1>3, PowerOfTwo
  <2> HIDE DEF P
  <2>2. 2 * (to_min * P) = to_min * (2 * P)
    BY <2>1, RoundTypes
  <2> QED
    BY <1>1, <1>2, <1>3, <2>1, <2>2 DEF P
<1>5. finaldeadline.sec # 0 => start + 2 * curr_to <= t + to_min
  BY <1>1 DEF RoundInv
<1>6. t <= start + to /\ t \in Nat
  <2>1. nextdeadline \in Timespec
    BY DEF TimerInv, TimerTypes
  <2>2. nextdeadline.sec \in Nat /\ nextdeadline.nsec \in Nat
    BY <2>1, RoundTypes DEF Timespec
  <2>3. nextdeadline.sec * Sec \in Nat
    BY <2>2, RoundTypes
  <2> QED
    BY <1>1, <2>2, <2>3 DEF TimerInv, DeadlineInv, Time
<1> HIDE DEF t
<1>7. finaldeadline.sec # 0 =>
         start + 2 * curr_to <= now + to_min /\ 2 * curr_to <= to + to_min
  BY <1>1, <1>5, <1>6, RoundTypes
<1>8. FewRounds'
  BY <1>1 DEF RoundInv, FewRounds
<1> QED
  BY <1>1, <1>2, <1>4, <1>7, <1>8 DEF RoundInv

\* Every step preserves the invariant.
LEMMA NextRoundInv == TimerInv /\ RoundInv /\ [Next]_vars => RoundInv'
<1> SUFFICES ASSUME TimerInv, RoundInv, [Next]_vars PROVE RoundInv'
  OBVIOUS
<1>1. CASE \E x \in 0..MaxTo : Call(x)
  BY <1>1, CallRounds
<1>2. CASE SetDeadline
  BY <1>2, SetDeadlineRounds
<1>3. CASE Timeout
  BY <1>3, TimeoutRounds
<1>4. CASE GiveUp \/ Reply
  <2>1. pc' \in {"replied", "timeout"} /\ UNCHANGED <<to, rounds>>
    BY <1>4 DEF GiveUp, Reply
  <2> QED
    BY <2>1 DEF RoundInv, FewRounds
<1>5. CASE GotPdu \/ Tick
  <2>1. /\ now' \in Nat /\ now' >= now
        /\ UNCHANGED <<pc, to, start, curr_to, nextdeadline, finaldeadline, rounds>>
    BY <1>5, RoundTypes DEF GotPdu, Tick
  <2>2. start + curr_to <= now + to_min => start + curr_to <= now' + to_min
    BY <2>1, RoundTypes
  <2> QED
    BY <2>1, <2>2 DEF RoundInv, FewRounds, Time
<1>6. CASE UNCHANGED vars
  BY <1>6 DEF vars, RoundInv, FewRounds, Time
<1> QED
  BY <1>1, <1>2, <1>3, <1>4, <1>5, <1>6 DEF Next, Caller

\* The rounds double, so a call that is told to wait for to units sends its
\* request a number of times that is logarithmic in to.
THEOREM RoundsAreFew == Spec => []FewRounds
<1>1. RoundInv => FewRounds
  BY DEF RoundInv
<1> QED
  BY <1>1, InitRoundInv, NextRoundInv, TimerInvHolds, PTL DEF Spec
=============================================================================
