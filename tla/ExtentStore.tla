----------------------------- MODULE ExtentStore -----------------------------
(***************************************************************************)
(* What the extent server promises its clients: a store of files.  Create  *)
(* makes an empty file under a number that no file has, Put replaces the   *)
(* contents of a file, Get and GetAttr answer with what was last put, and  *)
(* an operation on one file leaves the others alone.  The promise is void  *)
(* once the disk has overflowed.                                           *)
(***************************************************************************)
EXTENDS Integers

CONSTANTS Inum,       \* the numbers a file may have
          Types,      \* the types of files
          Contents,   \* the contents a file may have: functions on 0..(size-1)
          Id,         \* the extent ids of requests
          Key(_)      \* the file number of an extent id

VARIABLES file,       \* the files; a number without a file has type 0
          request,    \* the last request
          reply,      \* the answer to it
          over        \* the disk has overflowed

storeVars == <<file, request, reply, over>>

Empty == [j \in {} |-> 0]
NoFile == [type |-> 0, size |-> 0, data |-> Empty]
Ask(op, id, f) ==
    [op |-> op, id |-> id, type |-> f.type, size |-> f.size, data |-> f.data]
Ok(id, f) == [id |-> id, type |-> f.type, size |-> f.size, data |-> f.data]

StoreInit ==
    /\ file = [i \in Inum |-> IF i = 1 THEN [NoFile EXCEPT !.type = 1] ELSE NoFile]
    /\ request = Ask("none", 0, NoFile)
    /\ reply = Ok(0, NoFile)
    /\ over = FALSE

Live == {i \in Inum : file[i].type # 0}
Lookup(id) == IF Key(id) \in Live THEN file[Key(id)] ELSE NoFile

\* A request that finds no free number is answered with file number 0.
Create(t) ==
    /\ request' = Ask("create", 0, [NoFile EXCEPT !.type = t])
    /\ \/ \E i \in Inum \ (Live \cup {0}) :
             /\ file' = [file EXCEPT ![i] = [NoFile EXCEPT !.type = t]]
             /\ reply' = Ok(i, NoFile)
       \/ /\ Inum \ {0} \subseteq Live
          /\ file' = file
          /\ reply' = Ok(0, NoFile)

Put(id, n, d) ==
    /\ request' = Ask("put", id, [NoFile EXCEPT !.size = n, !.data = d])
    /\ file' = IF Key(id) \in Live
               THEN [file EXCEPT ![Key(id)].size = n, ![Key(id)].data = d] ELSE file
    /\ reply' = Ok(0, NoFile)

Get(id) ==
    /\ request' = Ask("get", id, NoFile)
    /\ file' = file
    /\ reply' = Ok(0, [NoFile EXCEPT !.data = Lookup(id).data])

GetAttr(id) ==
    /\ request' = Ask("getattr", id, NoFile)
    /\ file' = file
    /\ reply' = Ok(0, [Lookup(id) EXCEPT !.data = Empty])

Remove(id) ==
    /\ request' = Ask("remove", id, NoFile)
    /\ file' = IF Key(id) \in Live THEN [file EXCEPT ![Key(id)] = NoFile] ELSE file
    /\ reply' = Ok(0, NoFile)

Serve ==
    /\ ~over'
    /\ over' = over
    /\ \/ \E t \in Types : Create(t)
       \/ \E id \in Id : \/ Get(id)
                         \/ GetAttr(id)
                         \/ Remove(id)
                         \/ \E c \in Contents : Put(id, c.size, c.data)

StoreNext == Serve \/ over'

StoreSpec == StoreInit /\ [][StoreNext]_storeVars
=============================================================================
