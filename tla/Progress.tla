------------------------------ MODULE Progress ------------------------------
(***************************************************************************)
(* Custody with a history of whether anything has failed so far, so that   *)
(* one run tells what faults cost: a request always ends, and a withdrawal *)
(* only stays SIGNED after a fault.                                        *)
(***************************************************************************)
EXTENDS MCCustody

VARIABLE faulted    \* a call raised, a server died or a pool had no connection

(* A step of a server on which nothing depends that can fail, a lost answer
   apart: process_pending handles that one itself. *)
Sound == FaultFreeNext /\ ~\E r \in Request : PoolTimeout(r)

ProgressNext == Next /\ faulted' = (faulted \/ ~Sound)

(* A request goes on when it can: the event loop runs every ready coroutine,
   every call to the database or the node has a timeout, and asyncio.Lock is
   first in, first out.  Nothing obliges anyone to make a request, the network
   to mine, or a server to crash. *)
ProgressSpec ==
    /\ Init /\ faulted = FALSE
    /\ [][ProgressNext]_<<vars, faulted>>
    /\ \A r \in Request : WF_vars(Step(r))

(* README.md:10 draws SIGNED as a stage on the way to BROADCAST.  Since no handler
   takes up a SIGNED withdrawal, it is the very request that signed which has to
   move it on, and unless something failed it does: no order of the requests, and
   no payload that the node refuses, leaves the withdrawal there. *)
SignedGoesOnUnlessFault ==
    \A t \in Tx : status[t] = "SIGNED" ~> status[t] # "SIGNED" \/ faulted

=============================================================================
