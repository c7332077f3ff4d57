--------------------------- MODULE BlockQueueStore ---------------------------
(***************************************************************************)
(* The sequencer's queue database (sequencer/src/persistence.rs): the      *)
(* column families pending_blocks and failed_blocks, keyed by block number *)
(* in big-endian bytes (so key order is number order), and the persisted   *)
(* block counter of the meta column family.  The database outlives the     *)
(* process.  An operation that returns an error changes nothing; which     *)
(* operations may fail is left to the caller.                              *)
(*                                                                         *)
(* push_pending and set_block_counter are not called by the program: a     *)
(* block enters the queue through commit_optimistic_block only.            *)
(***************************************************************************)
EXTENDS Integers

VARIABLES
  pending,        \* pending_blocks: block number -> block
  failed,         \* failed_blocks: block number -> block
  storedCounter   \* meta / block_counter

storeVars == <<pending, failed, storedCounter>>

\* put_cf and delete_cf on one column family.
Put(cf, n, b) == [k \in DOMAIN cf \cup {n} |-> IF k = n THEN b ELSE cf[k]]
Delete(cf, n) == [k \in DOMAIN cf \ {n} |-> cf[k]]

\* Mutant: the iterator starts at the other end.
IsFirstPending_FromEnd(n) ==
  /\ n \in DOMAIN pending
  /\ \A k \in DOMAIN pending : n >= k

\* peek_pending: the first key of the column family.
IsFirstPending(n) ==
  /\ n \in DOMAIN pending
  /\ \A k \in DOMAIN pending : n <= k

\* One WriteBatch: the block and the counter, or neither.
commit_optimistic_block(n, b, next) ==
  /\ pending' = Put(pending, n, b)
  /\ storedCounter' = next
  /\ UNCHANGED failed

remove_pending(n) ==
  /\ pending' = Delete(pending, n)
  /\ UNCHANGED <<failed, storedCounter>>

\* Mutant: the block is dropped instead of kept for inspection.
push_failed_Dropped(n, b) == UNCHANGED storeVars

push_failed(n, b) ==
  /\ failed' = Put(failed, n, b)
  /\ UNCHANGED <<pending, storedCounter>>

\* Mutant: the counter is not read back when the process starts.
get_block_counter_Zero == 0

get_block_counter == storedCounter

\* open_db on a fresh path; get_block_counter then answers 0.
StoreInit ==
  /\ pending = [n \in {} |-> n]
  /\ failed = [n \in {} |-> n]
  /\ storedCounter = 0
=============================================================================
