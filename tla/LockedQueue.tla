----------------------------- MODULE LockedQueue -----------------------------
(***************************************************************************)
(* LockedQueue<T> (queue.h): a std::deque and a uv_mutex_t.  Nothing ties  *)
(* the two together: Push, Pop and Empty do not take the lock, the callers *)
(* do (or, for some calls of Empty, do not).  The mutex is not recursive.  *)
(***************************************************************************)
EXTENDS Integers, Sequences, Functions

VARIABLES lock,    \* the thread that holds the mutex, or "free"
          queue    \* the deque, front first

Init == lock = "free" /\ queue = << >>

\* uv_mutex_lock returns to thread t: enabled while nobody holds the mutex.
Lock(t) == lock = "free" /\ lock' = t

Unlock == lock' = "free"

Empty == queue = << >>

Push(item) == queue' = Append(queue, item)

\* Pop() removes and returns the front item.
Front == Head(queue)
Pop == queue' = Tail(queue)

\* The items that are queued.
Members == Range(queue)

\* No item is queued twice.
Distinct == IsInjective(queue)
=============================================================================
