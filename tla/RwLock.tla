------------------------------- MODULE RwLock -------------------------------
(***************************************************************************)
(* tokio::sync::RwLock, as the databroker uses it: a fair lock with a      *)
(* queue of waiting tasks, one writer or many readers, and `downgrade`.    *)
(* A waiting task is granted the lock in the order of the queue, so a      *)
(* reader waits behind a writer that waits.                                *)
(*                                                                         *)
(* The head of the queue leaves it in the step in which its task goes on;  *)
(* tokio may grant the lock to a whole run of readers first, whose steps   *)
(* commute.                                                                *)
(***************************************************************************)
EXTENDS Integers, Sequences

\* The elements of s that are not in `gone`, in their order.
Without(s, gone) ==
    LET kept[i \in 0..Len(s)] ==
            IF i = 0 THEN << >>
            ELSE IF s[i] \in gone THEN kept[i - 1] ELSE Append(kept[i - 1], s[i])
    IN  kept[Len(s)]

Unlocked == [writer |-> {}, readers |-> {}, queue |-> << >>]

LockState(Tasks) ==
    [writer: SUBSET Tasks, readers: SUBSET Tasks,
     queue: Seq([task: Tasks, mode: {"read", "write"}])]

\* read() and write(), up to the await.
Enqueue(lock, t, mode) ==
    [lock EXCEPT !.queue = Append(@, [task |-> t, mode |-> mode])]

\* The await of task t is over.
Acquirable(lock, t, mode) ==
    /\ lock.queue # << >>
    /\ Head(lock.queue) = [task |-> t, mode |-> mode]
    /\ lock.writer = {}
    /\ mode = "write" => lock.readers = {}

AcquireRead(lock, t) == [lock EXCEPT !.readers = @ \cup {t}, !.queue = Tail(@)]

AcquireWrite(lock, t) == [lock EXCEPT !.writer = @ \cup {t}, !.queue = Tail(@)]

\* A critical section without an await: the lock is taken and released.
Pass(lock) == [lock EXCEPT !.queue = Tail(@)]

Release(lock, t) == [lock EXCEPT !.writer = @ \ {t}, !.readers = @ \ {t}]

Downgrade(lock, t) == [lock EXCEPT !.writer = @ \ {t}, !.readers = @ \cup {t}]

\* The future is dropped: the task holds nothing and waits for nothing.
Abandon(lock, t) ==
    [Release(lock, t) EXCEPT !.queue = Without(@, [task: {t}, mode: {"read", "write"}])]

==============================================================================
