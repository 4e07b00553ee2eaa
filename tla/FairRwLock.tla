---------------------------- MODULE FairRwLock ----------------------------
(***************************************************************************)
(* tokio::sync::RwLock as the server uses it: any number of read guards or *)
(* one write guard, and one FIFO queue for both, so that a reader that     *)
(* comes after a waiting writer waits behind it.  A task may hold several  *)
(* read guards.                                                            *)
(***************************************************************************)
EXTENDS Naturals, Sequences

CONSTANT Tasks

VARIABLES
    queue,      \* requests not yet granted, oldest first
    reads,      \* how many read guards each task holds
    writer      \* the task with the write guard, if any, as a set

Request == [task : Tasks, mode : {"read", "write"}]

TypeOK ==
    /\ queue \in Seq(Request)
    /\ reads \in [Tasks -> 0..2]
    /\ writer \in SUBSET Tasks

Init ==
    /\ queue = <<>>
    /\ reads = [t \in Tasks |-> 0]
    /\ writer = {}

Ask(t, mode) ==
    /\ queue' = Append(queue, [task |-> t, mode |-> mode])
    /\ UNCHANGED <<reads, writer>>

HeadIs(t, mode) == queue # <<>> /\ Head(queue) = [task |-> t, mode |-> mode]

MayRead(t) == HeadIs(t, "read") /\ writer = {}

MayWrite(t) == HeadIs(t, "write") /\ writer = {} /\ \A u \in Tasks : reads[u] = 0

GrantRead(t) ==
    /\ MayRead(t)
    /\ queue' = Tail(queue)
    /\ reads' = [reads EXCEPT ![t] = @ + 1]
    /\ UNCHANGED writer

GrantWrite(t) ==
    /\ MayWrite(t)
    /\ queue' = Tail(queue)
    /\ writer' = {t}
    /\ UNCHANGED reads

\* A critical section taken as one step: the write guard is granted and dropped.
PassWrite(t) ==
    /\ MayWrite(t)
    /\ queue' = Tail(queue)
    /\ UNCHANGED <<reads, writer>>

\* Drop every guard of t (the code never drops one of two).
Release(t) ==
    /\ reads' = [reads EXCEPT ![t] = 0]
    /\ writer' = writer \ {t}
    /\ UNCHANGED queue

\* The lock's promise: a writer is alone.
Exclusive ==
    /\ \A t, u \in writer : t = u
    /\ writer # {} => \A t \in Tasks : reads[t] = 0

=============================================================================
