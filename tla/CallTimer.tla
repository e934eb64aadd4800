------------------------------ MODULE CallTimer -----------------------------
(***************************************************************************)
(* The deadlines of rpcc::call1 (rpc/rpc.cc): a call that may take to      *)
(* units of time waits for its reply in rounds, to_min units long at first *)
(* and twice as long each time, and gives up at its final deadline.  Time  *)
(* is counted in units of which a second has Sec; a timespec is a pair of  *)
(* seconds and the units, not quite normalised, that add_timespec makes of *)
(* them.  What a round transmits is in RpcClient.                          *)
(***************************************************************************)
EXTENDS Naturals

CONSTANTS Sec,        \* units of a second
          to_min,
          MaxTo,      \* bound: the longest timeout of a call
          MaxTime     \* bound: the time at which the clock stops

ASSUME TimerAssumption ==
    /\ Sec \in Nat \ {0} /\ to_min \in Nat \ {0} /\ MaxTo \in Nat
    /\ to_min % Sec = 0
    /\ MaxTime \in Nat /\ MaxTime >= 2 * Sec + MaxTo

VARIABLES
    now,             \* the clock
    pc,              \* where the call is
    to, start,       \* its timeout, and the time it began
    curr_to,         \* the length of the next round
    nextdeadline,
    finaldeadline,
    done,            \* ca.done: the reply has come
    rounds           \* history: rounds so far

vars == <<now, pc, to, start, curr_to, nextdeadline, finaldeadline, done, rounds>>

Time(t) == t.sec * Sec + t.nsec
Never == [sec |-> 0, nsec |-> 0]

\* The clock may be anywhere within a second.
Init ==
    /\ now \in Sec..2 * Sec - 1
    /\ pc = "idle" /\ to = 0 /\ start = 0 /\ curr_to = 0
    /\ nextdeadline = Never /\ finaldeadline = Never
    /\ done = FALSE
    /\ rounds = 0

-----------------------------------------------------------------------------
clock_gettime == [sec |-> now \div Sec, nsec |-> now % Sec]

cmp_timespec(a, b) ==
    CASE a.sec > b.sec \/ (a.sec = b.sec /\ a.nsec > b.nsec) -> "greater"
      [] a.sec < b.sec \/ (a.sec = b.sec /\ a.nsec < b.nsec) -> "less"
      [] OTHER -> "equal"

\* Faulty variant: the carry is lost.
add_timespecDropsSecond(a, b) ==
    LET nsec == a.nsec + (b % Sec)
    IN  [sec |-> a.sec + (b \div Sec), nsec |-> IF nsec > Sec THEN nsec - Sec ELSE nsec]

\* Faulty variant: a whole second may go to the units.
add_timespecCeil(a, b) ==
    LET nsec == a.nsec + (IF b = 0 THEN 0 ELSE ((b - 1) % Sec) + 1)
        sec == a.sec + (IF b = 0 THEN 0 ELSE (b - 1) \div Sec)
    IN  IF nsec > Sec THEN [sec |-> sec + 1, nsec |-> nsec - Sec]
        ELSE [sec |-> sec, nsec |-> nsec]

\* A sum of exactly one second is not carried.
add_timespec(a, b) ==
    LET nsec == a.nsec + (b % Sec)
        sec == a.sec + (b \div Sec)
    IN  IF nsec > Sec THEN [sec |-> sec + 1, nsec |-> nsec - Sec]
        ELSE [sec |-> sec, nsec |-> nsec]

\* pthread_cond_timedwait refuses a deadline that is not normalised.
Valid(t) == t.nsec < Sec

-----------------------------------------------------------------------------
Call(x) ==
    /\ pc = "idle"
    /\ pc' = "loop" /\ to' = x /\ start' = now
    /\ finaldeadline' = add_timespec(clock_gettime, x)
    /\ curr_to' = to_min
    /\ UNCHANGED <<now, nextdeadline, done, rounds>>

\* Faulty variant: the round may go beyond the final deadline.
SetDeadlineLate ==
    LET next == add_timespec(clock_gettime, curr_to)
    IN  /\ pc = "loop" /\ finaldeadline.sec # 0
        /\ nextdeadline' = next
        /\ finaldeadline' = IF cmp_timespec(next, finaldeadline) = "greater"
                            THEN [finaldeadline EXCEPT !.sec = 0] ELSE finaldeadline
        /\ pc' = "wait"
        /\ rounds' = rounds + 1
        /\ UNCHANGED <<now, to, start, curr_to, done>>

\* The deadline of a round; the last one ends at the final deadline, whose
\* seconds are set to zero.
SetDeadline ==
    LET next == add_timespec(clock_gettime, curr_to)
        last == cmp_timespec(next, finaldeadline) = "greater"
    IN  /\ pc = "loop" /\ finaldeadline.sec # 0
        /\ nextdeadline' = IF last THEN finaldeadline ELSE next
        /\ finaldeadline' = IF last THEN [finaldeadline EXCEPT !.sec = 0] ELSE finaldeadline
        /\ pc' = "wait"
        /\ rounds' = rounds + 1
        /\ UNCHANGED <<now, to, start, curr_to, done>>

\* Faulty variant: the loop is left with a reply only.
GiveUpAnswered ==
    /\ pc = "loop" /\ finaldeadline.sec = 0 /\ done
    /\ pc' = "replied"
    /\ UNCHANGED <<now, to, start, curr_to, nextdeadline, finaldeadline, done, rounds>>

\* After the last round, the call returns what it has.
GiveUp ==
    /\ pc = "loop" /\ finaldeadline.sec = 0
    /\ pc' = IF done THEN "replied" ELSE "timeout"
    /\ UNCHANGED <<now, to, start, curr_to, nextdeadline, finaldeadline, done, rounds>>

\* The wait ends, because of the reply or at the deadline.
Reply ==
    /\ pc = "wait" /\ done
    /\ pc' = "replied"
    /\ UNCHANGED <<now, to, start, curr_to, nextdeadline, finaldeadline, done, rounds>>

\* Faulty variant: the next round is as long as the last.
TimeoutSame ==
    /\ pc = "wait" /\ ~done /\ Valid(nextdeadline) /\ now >= Time(nextdeadline)
    /\ pc' = "loop"
    /\ UNCHANGED <<now, to, start, curr_to, nextdeadline, finaldeadline, done, rounds>>

Timeout ==
    /\ pc = "wait" /\ ~done /\ Valid(nextdeadline) /\ now >= Time(nextdeadline)
    /\ pc' = "loop"
    /\ curr_to' = 2 * curr_to
    /\ UNCHANGED <<now, to, start, nextdeadline, finaldeadline, done, rounds>>

(***************************************************************************)
(* got_pdu sets ca.done under ca.m.  A call whose deadline is refused does *)
(* not sleep but goes round its loop with ca.m locked.                     *)
(***************************************************************************)
Spins == pc = "wait" /\ ~done /\ ~Valid(nextdeadline)

GotPdu ==
    /\ pc \in {"loop", "wait"} /\ ~done /\ ~Spins
    /\ done' = TRUE
    /\ UNCHANGED <<now, pc, to, start, curr_to, nextdeadline, finaldeadline, rounds>>

Tick ==
    /\ pc # "idle" /\ now < MaxTime
    /\ now' = now + 1
    /\ UNCHANGED <<pc, to, start, curr_to, nextdeadline, finaldeadline, done, rounds>>

Caller == SetDeadline \/ GiveUp \/ Reply \/ Timeout

Next == (\E x \in 0..MaxTo : Call(x)) \/ Caller \/ GotPdu \/ Tick

\* The caller is scheduled and time passes; a reply may never come.
Spec == Init /\ [][Next]_vars /\ WF_vars(Caller) /\ WF_vars(Tick)

-----------------------------------------------------------------------------
\* A call that times out has waited for as long as it was told to, through
\* all its rounds and whatever the carries were.
NotEarly == pc = "timeout" => now >= start + to

\* Doubling the rounds never makes a call wait beyond its own deadline.
DeadlineBounded == pc = "wait" => Time(nextdeadline) <= start + to

\* The number of rounds is logarithmic: the rounds before the last one fit
\* into the timeout with their doubled lengths.
FewRounds == rounds > 0 => to_min * (2 ^ (rounds - 1) - 1) <= to

\* A deadline is refused, and the call spins, only if the timeout is not a
\* whole number of seconds (all those in the repository are).
SpinIsFraction == Spins => to % Sec # 0 /\ nextdeadline.nsec = Sec

\* Every call ends, with its reply or at its deadline, unless it spins.
CallEnds == pc # "idle" ~> pc \in {"replied", "timeout"} \/ Spins
=============================================================================
