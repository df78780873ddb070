------------------------------- MODULE MCAio -------------------------------
(* Instances of Aio for TLC: requests cb1 (a read), cb2 (a write) and cb3   *)
(* (an fsync), each on a descriptor of its own or the first two on fd1.     *)
EXTENDS Aio

CONSTANTS cb1, cb2, cb3, fd1, fd2, fd3

MCPrivateFdOf == [cb \in Cbs |-> CASE cb = cb1 -> fd1
                                   [] cb = cb2 -> fd2
                                   [] cb = cb3 -> fd3]
MCSharedFdOf  == [cb \in Cbs |-> IF cb = cb3 THEN fd3 ELSE fd1]
MCOpOf        == [cb \in Cbs |-> CASE cb = cb1 -> "read"
                                   [] cb = cb2 -> "write"
                                   [] cb = cb3 -> "fsync"]
MCOffsetOf    == [cb \in Cbs |-> IF cb = cb1 THEN 2 ELSE 0]
MCNBytesOf    == [cb \in Cbs |-> IF cb = cb3 THEN 0 ELSE 1]
MCHomeOf      == [fd \in Fds |-> IF fd = fd1 THEN 1 ELSE 3]
=============================================================================
