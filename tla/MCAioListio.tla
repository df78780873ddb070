---------------------------- MODULE MCAioListio ----------------------------
(* Lists of a write cb2, cancelled at any time, and of a read cb3, which is *)
(* also used for LIO_NOP and, at times, has a negative aio_fildes.          *)
EXTENDS AioListio

CONSTANTS cb2, cb3, fd2, fd3

MCFdOf      == [cb \in Cbs |-> IF cb = cb2 THEN fd2 ELSE fd3]
MCOpOf      == [cb \in Cbs |-> IF cb = cb2 THEN "write" ELSE "read"]
MCOffsetOf  == [cb \in Cbs |-> 0]
MCNBytesOf  == [cb \in Cbs |-> 0]
MCHomeOf    == [fd \in Fds |-> 3]

Entry(cb, op) == [cb |-> cb, op |-> op, fildes |-> "FdOf"]
Bad(cb, op)   == [cb |-> cb, op |-> op, fildes |-> "negative"]
MCLists == { <<Null, Entry(cb2, "LIO_WRITE"), Entry(cb3, "LIO_READ")>>,
             <<Bad(cb3, "LIO_READ"), Entry(cb2, "LIO_WRITE")>>,
             <<Entry(cb3, "LIO_NOP"), Entry(Other, "unknown")>> }
=============================================================================
