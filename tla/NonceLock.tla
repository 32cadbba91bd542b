------------------------------ MODULE NonceLock ------------------------------
(***************************************************************************)
(* nonce_lock: an asyncio.Lock per signing address, kept in a dictionary   *)
(* of the interpreter.  One address signs, so there is one lock in each    *)
(* server process, and none between processes.  asyncio.Lock serves its    *)
(* waiters first in, first out: lockQ[s] is the holder followed by the     *)
(* waiters of process s.                                                   *)
(***************************************************************************)
EXTENDS Naturals, Sequences

CONSTANT Server     \* operating system processes that run the code

VARIABLE lockQ

LockInit == lockQ = [s \in Server |-> <<>>]

Enqueue(s, r) == lockQ' = [lockQ EXCEPT ![s] = Append(@, r)]

Holds(s, r) == lockQ[s] # <<>> /\ Head(lockQ[s]) = r

Release(s) == lockQ' = [lockQ EXCEPT ![s] = Tail(@)]

(* The process dies, and its locks with it. *)
LoseLock(s) == lockQ' = [lockQ EXCEPT ![s] = <<>>]

=============================================================================
