------------------------------ MODULE BlockLog -------------------------------
(***************************************************************************)
(* What the sequencer's queue promises the blocks handed to it: they are   *)
(* numbered without gaps, handled strictly in order, and a block leaves    *)
(* the queue only after it was confirmed or given up, whatever fails and   *)
(* however often the process dies.  Sequencer implements it.               *)
(***************************************************************************)
EXTENDS Integers

VARIABLES
  next,        \* number of the next block
  queued,      \* numbers of the blocks in the queue
  confirmed,   \* numbers of the blocks that were proved
  failed       \* numbers of the blocks that were given up

logVars == <<next, queued, confirmed, failed>>

LogInit == next = 0 /\ queued = {} /\ confirmed = {} /\ failed = {}

Commit ==
  /\ next' = next + 1
  /\ queued' = queued \cup {next}
  /\ UNCHANGED <<confirmed, failed>>

First(n) == n \in queued /\ \A m \in queued : n <= m

\* A block that is still queued may be confirmed or given up more than once.
Confirm(n) ==
  /\ First(n)
  /\ confirmed' = confirmed \cup {n}
  /\ UNCHANGED <<next, queued, failed>>

GiveUp(n) ==
  /\ First(n)
  /\ failed' = failed \cup {n}
  /\ UNCHANGED <<next, queued, confirmed>>

Remove(n) ==
  /\ First(n) /\ n \in confirmed \cup failed
  /\ queued' = queued \ {n}
  /\ UNCHANGED <<next, confirmed, failed>>

LogNext ==
  \/ Commit
  \/ \E n \in queued : Confirm(n) \/ GiveUp(n) \/ Remove(n)

LogSpec == LogInit /\ [][LogNext]_logVars
=============================================================================
