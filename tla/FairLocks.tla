----------------------------- MODULE FairLocks -----------------------------
(***************************************************************************)
(* The asynchronous reader-writer locks that the crypto engine takes       *)
(* (tokio::sync::RwLock).  They are fair: a task that cannot have a lock   *)
(* joins a first-in first-out queue, and a reader that comes after a       *)
(* waiting writer waits as well, even when it already reads the same lock. *)
(* A task that is dropped leaves the queue and gives back what it holds.   *)
(***************************************************************************)
EXTENDS Naturals, Sequences, SequencesExt

CONSTANTS Tasks, Locks

VARIABLES
    held,    \* held[t]: the guards of task t, oldest first
    queue    \* queue[l]: the tasks that wait for lock l

Guard == [lock : Locks, mode : {"read", "write"}]

Owners(l, modes) ==
    {t \in Tasks : \E i \in DOMAIN held[t] :
        held[t][i].lock = l /\ held[t][i].mode \in modes}

Compatible(g) ==
    Owners(g.lock, IF g.mode = "write" THEN {"read", "write"}
                                       ELSE {"write"}) = {}

Queued(t, l) == Contains(queue[l], t)

MayTake(t, g) ==
    /\ Compatible(g)
    /\ queue[g.lock] # <<>> => Head(queue[g.lock]) = t

MustWait(t, g) == ~MayTake(t, g) /\ ~Queued(t, g.lock)

Enqueued(t, l) == [queue EXCEPT ![l] = Append(@, t)]

QueuesWithout(t) == [l \in Locks |-> SelectSeq(queue[l], LAMBDA u : u # t)]

LocksTypeOK ==
    /\ held \in [Tasks -> Seq(Guard)]
    /\ queue \in [Locks -> Seq(Tasks)]
=============================================================================
