------------------------------ MODULE PollMgr -------------------------------
(***************************************************************************)
(* The poll manager of the RPC library (rpc/pollmgr.cc) on top of select:  *)
(* SelectAIO keeps the watched descriptors, one thread waits in select and *)
(* calls back the connections of those that are ready.  The wake-up pipe   *)
(* makes select return when the sets change.  An operation of PollMgr is   *)
(* what happens under its m_; the poll thread reads callbacks_ without it. *)
(***************************************************************************)
EXTENDS Naturals, FiniteSets, FiniteSetsExt

CONSTANTS Fd,        \* descriptors of connections
          PipeFd     \* the reading end of the wake-up pipe

ASSUME FdAssumption == Fd \subseteq Nat /\ IsFiniteSet(Fd) /\ PipeFd \in Nat \ Fd

VARIABLES
    rfds,            \* descriptors watched for reading, apart from the pipe
    wfds,            \* and for writing
    highfds,         \* the highest of them
    pipe,            \* bytes in the wake-up pipe
    callbacks,       \* descriptors whose callbacks_ entry is not NULL
    pending_change,
    changedone,      \* threads that sleep on changedone_c_
    poll,            \* the poll thread: where it is, and whom it calls back
    trfds,           \* its copy of rfds, and what select has left of it
    twfds            \* the same of wfds

watchVars == <<rfds, wfds, highfds, pipe, callbacks, pending_change, changedone>>
pollVars == <<poll, trfds, twfds>>

CB_RDONLY == {"r"}
CB_WRONLY == {"w"}
CB_RDWR == {"r", "w"}

PollTypeOK(Thread) ==
    /\ rfds \subseteq Fd /\ wfds \subseteq Fd /\ callbacks \subseteq Fd
    /\ highfds \in Fd \cup {PipeFd}
    /\ pipe \in Nat
    /\ pending_change \in BOOLEAN
    /\ changedone \subseteq Thread
    /\ poll \in [pc : {"top", "copy", "select", "calls", "read_cb", "write_cb"},
                 fd : Fd \cup {PipeFd}]
    /\ trfds \subseteq Fd /\ twfds \subseteq Fd

\* Every connection has registered for reading.
PollInit ==
    /\ rfds = Fd /\ wfds = {} /\ callbacks = Fd
    /\ highfds = Max(Fd \cup {PipeFd})
    /\ pipe = 0
    /\ pending_change = FALSE
    /\ changedone = {}
    /\ poll = [pc |-> "top", fd |-> PipeFd]
    /\ trfds = {} /\ twfds = {}

-----------------------------------------------------------------------------
\* SelectAIO::watch_fd; a byte in the pipe makes select return.
WatchFd(f, flag) ==
    /\ rfds' = IF "r" \in flag THEN rfds \cup {f} ELSE rfds
    /\ wfds' = IF "w" \in flag THEN wfds \cup {f} ELSE wfds
    /\ highfds' = IF highfds <= f THEN f ELSE highfds
    /\ pipe' = pipe + 1

AddCallback(f, flag) ==
    /\ WatchFd(f, flag)
    /\ callbacks' = callbacks \cup {f}
    /\ UNCHANGED <<pending_change, changedone>>

\* SelectAIO::unwatch_fd; the pipe is written only when both flags are cleared.
UnwatchFd(f, flag) ==
    /\ rfds' = IF "r" \in flag THEN rfds \ {f} ELSE rfds
    /\ wfds' = IF "w" \in flag THEN wfds \ {f} ELSE wfds
    /\ highfds' = IF f = highfds /\ f \notin rfds' \cup wfds'
                  THEN Max(rfds' \cup wfds' \cup {PipeFd}) ELSE highfds
    /\ pipe' = IF flag = CB_RDWR THEN pipe + 1 ELSE pipe

\* Faulty variant: the entry of callbacks_ stays.
DelCallbackKeeps(f, flag) ==
    /\ UnwatchFd(f, flag)
    /\ UNCHANGED <<callbacks, pending_change, changedone>>

\* The entry of callbacks_ is cleared when neither flag is left.
DelCallback(f, flag) ==
    /\ UnwatchFd(f, flag)
    /\ callbacks' = IF f \in rfds' \cup wfds' THEN callbacks ELSE callbacks \ {f}
    /\ UNCHANGED <<pending_change, changedone>>

(***************************************************************************)
(* block_remove_fd: thread t stops the watching of f and sleeps until the  *)
(* poll thread has gone round, then clears the callback.  The wait is not  *)
(* in a loop.                                                              *)
(***************************************************************************)
\* Faulty variant: the thread does not wait for the poll thread.
BlockRemoveNoWait(t, f) ==
    /\ UnwatchFd(f, CB_RDWR)
    /\ pending_change' = TRUE
    /\ UNCHANGED <<callbacks, changedone>>

BlockRemoveWait(t, f) ==
    /\ UnwatchFd(f, CB_RDWR)
    /\ pending_change' = TRUE
    /\ changedone' = changedone \cup {t}
    /\ callbacks' = callbacks

BlockRemoveDone(t, f) ==
    /\ t \notin changedone
    /\ callbacks' = callbacks \ {f}
    /\ UNCHANGED <<rfds, wfds, highfds, pipe, pending_change, changedone>>

-----------------------------------------------------------------------------
\* wait_loop, top of the loop.
PollTop ==
    /\ poll.pc = "top"
    /\ poll' = [poll EXCEPT !.pc = "copy"]
    /\ pending_change' = FALSE
    /\ changedone' = IF pending_change THEN {} ELSE changedone
    /\ UNCHANGED <<rfds, wfds, highfds, pipe, callbacks, trfds, twfds>>

\* wait_ready copies the sets, up to highfds_.
PollCopy ==
    /\ poll.pc = "copy"
    /\ poll' = [poll EXCEPT !.pc = "select"]
    /\ trfds' = {f \in rfds : f <= highfds}
    /\ twfds' = {f \in wfds : f <= highfds}
    /\ UNCHANGED watchVars

\* select returns, with the descriptors of its sets that are ready; one byte
\* of the pipe is read.
PollSelect(readable, writable) ==
    /\ poll.pc = "select"
    /\ pipe > 0 \/ trfds \cap readable # {} \/ twfds \cap writable # {}
    /\ poll' = [poll EXCEPT !.pc = "calls"]
    /\ trfds' = trfds \cap readable
    /\ twfds' = twfds \cap writable
    /\ pipe' = IF pipe > 0 THEN pipe - 1 ELSE pipe
    /\ UNCHANGED <<rfds, wfds, highfds, callbacks, pending_change, changedone>>

\* wait_loop calls back the readable descriptors, then the writable ones,
\* unless callbacks_ has been cleared.
PollCall ==
    /\ poll.pc = "calls"
    /\ \/ \E f \in trfds :
            /\ f = Min(trfds)
            /\ trfds' = trfds \ {f} /\ twfds' = twfds
            /\ poll' = IF f \in callbacks THEN [pc |-> "read_cb", fd |-> f] ELSE poll
       \/ \E f \in twfds :
            /\ trfds = {} /\ f = Min(twfds)
            /\ twfds' = twfds \ {f} /\ trfds' = trfds
            /\ poll' = IF f \in callbacks THEN [pc |-> "write_cb", fd |-> f] ELSE poll
       \/ /\ trfds = {} /\ twfds = {}
          /\ poll' = [poll EXCEPT !.pc = "top"]
          /\ UNCHANGED <<trfds, twfds>>
    /\ UNCHANGED watchVars

\* A callback returns to wait_loop.
CallbackReturns ==
    /\ poll' = [pc |-> "calls", fd |-> PipeFd]
    /\ UNCHANGED <<trfds, twfds>>
=============================================================================
