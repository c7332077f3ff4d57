----------------------------- MODULE RollupBridge -----------------------------
(***************************************************************************)
(* The L1 contract TinyRollupBridge (contracts/src/RollupBridge.sol) and   *)
(* the public values the zkVM guest commits for it (program/src/main.rs,   *)
(* the commitment code of stf/src/lib.rs).                                 *)
(*                                                                         *)
(* The contract keeps two append-only arrays, pendingDeposits and          *)
(* forcedTransactions, each with a processed counter, and the same code    *)
(* twice: here they are the two elements of Streams.  Hashes are symbolic  *)
(* terms (no collisions, 28-byte truncation included), and a timestamp is  *)
(* just one more field of the hashed message, so it is left out: two       *)
(* messages of one L1 block with equal fields are equal here as there.     *)
(***************************************************************************)
EXTENDS Integers, Sequences, SequencesExt

CONSTANTS
  Users,          \* L1 addresses
  Amounts,        \* wei amounts a user may send
  Calldata,       \* the bytes a forced transaction may carry
  Roots,          \* L2 state roots
  InitialRoot,    \* the constructor's initialStateRoot
  Claims,         \* withdrawal claims <<sender, amount, nonce>>
  ClaimsIn,       \* ClaimsIn[r]: the claims with a Merkle path to root r
  ForcedTxFee,    \* FORCED_TX_FEE
  CountModulus,   \* 2^32: a batch's count is stored in a u32
  MaxMessages,    \* bound: messages posted per stream
  MaxBatch        \* bound: messages of one stream in one batch

ASSUME BridgeAssumption ==
  /\ InitialRoot \in Roots
  /\ Amounts \subseteq Nat
  /\ CountModulus \in Nat \ {0}
  /\ ForcedTxFee \in Nat
  /\ MaxMessages \in Nat
  /\ MaxBatch \in Nat
  /\ ClaimsIn \in [Roots -> SUBSET Claims]

VARIABLES
  stateRoot,      \* the L2 root L1 accepts
  l1Queue,        \* pendingDeposits and forcedTransactions
  processedCount, \* processedDepositCount and processedForcedTxCount
  nullifiers,     \* the claims already paid
  carried,        \* history: messages carried by the accepted batches
  paid            \* history: how often each claim was paid

bridgeVars ==
  <<stateRoot, l1Queue, processedCount, nullifiers, carried, paid>>

Streams == {"deposit", "forced"}

\* deposit() refuses a zero value, so a queued deposit has a positive amount.
Deposits == [user : Users, amount : Amounts \ {0}]
ForcedTransactions == [data : Calldata]
Messages == Deposits \cup ForcedTransactions

-----------------------------------------------------------------------------
(* The commitments of a batch.                                             *)

\* keccak256 over the hashes of a list of messages (hash_deposits,
\* hash_forced_txs in the guest; the two calculate*Hash views in the contract).
Keccak(ms) == [preimage |-> ms]

\* build_commitment: the hash and the number of messages, as a u32.
build_commitment(ms) ==
  [hash |-> Keccak(ms), count |-> Len(ms) % CountModulus]

\* What the guest commits after running a batch from root pre to root post
\* with the messages ms[s] of each stream.
PublicValues(pre, post, ms) ==
  [preStateRoot |-> pre, postStateRoot |-> post,
   commitment |-> [s \in Streams |-> build_commitment(ms[s])]]

-----------------------------------------------------------------------------
(* The contract.                                                           *)

messageCount(s) == Len(l1Queue[s])

\* require(start + count <= ...Count) of the get* and calculate* views.
ValidRange(s, start, count) == start + count <= messageCount(s)

\* getDeposits, getForcedTransactions.
getMessages(s, start, count) == SubSeq(l1Queue[s], start + 1, start + count)

\* Mutant: a batch that declares no messages is not checked.
HashMatches_ZeroUnchecked(s, c) ==
  \/ c.count = 0
  \/ /\ ValidRange(s, processedCount[s], c.count)
     /\ c.hash = Keccak(getMessages(s, processedCount[s], c.count))

\* Mutant: the hash is taken over the first messages ever queued.
HashMatches_FromStart(s, c) ==
  /\ ValidRange(s, 0, c.count)
  /\ c.hash = Keccak(getMessages(s, 0, c.count))

\* Whether calculateDepositHash / calculateForcedTxHash returns, and equals
\* the committed hash c.hash.
HashMatches(s, c) ==
  IF c.count = 0
  THEN c.hash = Keccak(<< >>)
  ELSE /\ ValidRange(s, processedCount[s], c.count)
       /\ c.hash = Keccak(getMessages(s, processedCount[s], c.count))

\* Mutant: a batch may start from any root.
Acceptable_AnyPreRoot(pv) ==
  \A s \in Streams : HashMatches(s, pv.commitment[s])

\* updateState up to the call of the verifier: every other require holds.
Acceptable(pv) ==
  /\ pv.preStateRoot = stateRoot
  /\ \A s \in Streams : HashMatches(s, pv.commitment[s])

\* updateState(pv) with a proof the verifier accepts, which it does only for
\* public values the guest committed.
updateState(pv) ==
  /\ Acceptable(pv)
  /\ processedCount' =
       [s \in Streams |-> processedCount[s] + pv.commitment[s].count]
  /\ stateRoot' = pv.postStateRoot
  /\ carried' =
       [s \in Streams |-> carried[s] \o pv.commitment[s].hash.preimage]
  /\ UNCHANGED <<l1Queue, nullifiers, paid>>

enqueue(s, m) ==
  /\ messageCount(s) < MaxMessages
  /\ l1Queue' = [l1Queue EXCEPT ![s] = Append(@, m)]
  /\ UNCHANGED <<stateRoot, processedCount, nullifiers, carried, paid>>

\* Mutant: a deposit of nothing is queued.
deposit_Zero(user, value) ==
  enqueue("deposit", [user |-> user, amount |-> value])

deposit(user, value) ==
  /\ value > 0
  /\ enqueue("deposit", [user |-> user, amount |-> value])

\* forceTransaction: any data, deserializable or not, for a fee.
forceTransaction(data, value) ==
  /\ value >= ForcedTxFee
  /\ enqueue("forced", [data |-> data])

\* Mutant: the nullifier is recorded and not looked at.
withdraw_Repeatable(claim) ==
  /\ claim \in ClaimsIn[stateRoot]
  /\ nullifiers' = nullifiers \cup {claim}
  /\ paid' = [paid EXCEPT ![claim] = @ + 1]
  /\ paid[claim] < 2
  /\ UNCHANGED <<stateRoot, l1Queue, processedCount, carried>>

\* The nullifier is recorded before the transfer, the transfer is the last
\* effect and its failure undoes everything, so one step is one whole call,
\* calls made by the receiver included.
withdraw(claim) ==
  /\ claim \notin nullifiers
  /\ claim \in ClaimsIn[stateRoot]
  /\ nullifiers' = nullifiers \cup {claim}
  /\ paid' = [paid EXCEPT ![claim] = @ + 1]
  /\ UNCHANGED <<stateRoot, l1Queue, processedCount, carried>>

\* constructor
BridgeInit ==
  /\ stateRoot = InitialRoot
  /\ l1Queue = [s \in Streams |-> << >>]
  /\ processedCount = [s \in Streams |-> 0]
  /\ nullifiers = {}
  /\ carried = [s \in Streams |-> << >>]
  /\ paid = [c \in Claims |-> 0]

\* Calls of L1 users, at any time.
UserCall ==
  \/ \E u \in Users, v \in Amounts : deposit(u, v)
  \/ \E d \in Calldata, v \in Amounts : forceTransaction(d, v)
  \/ \E c \in Claims : withdraw(c)

\* The messages a batch may carry: any lists the caller made a proof for.
Batches == [deposit : BoundedSeq(Deposits, MaxBatch),
            forced : BoundedSeq(ForcedTransactions, MaxBatch)]

\* updateState has no access control: anyone may submit a proved batch.
BridgeNext ==
  \/ UserCall
  \/ \E from, to \in Roots, ms \in Batches :
       updateState(PublicValues(from, to, ms))

BridgeSpec == BridgeInit /\ [][BridgeNext]_bridgeVars

-----------------------------------------------------------------------------
(* Properties.                                                             *)

\* The public values a proof may come with.
BatchValues ==
  [preStateRoot : Roots, postStateRoot : Roots,
   commitment : [Streams -> [hash : [preimage : Seq(Messages)], count : Nat]]]

\* What the contract's storage may hold; a queued deposit is never of nothing.
BridgeTypeOK ==
  /\ stateRoot \in Roots
  /\ l1Queue \in [Streams -> Seq(Messages)]
  /\ processedCount \in [Streams -> Nat]
  /\ nullifiers \subseteq Claims
  /\ carried \in [Streams -> Seq(Messages)]
  /\ paid \in [Claims -> Nat]

\* The messages carried by the accepted batches are exactly the first
\* processedCount messages of each stream: updateState accepts no batch that
\* skips, repeats, reorders or miscounts a deposit or forced transaction, even
\* when its length wraps around the u32 count.
CarriedOnce ==
  \A s \in Streams :
    /\ processedCount[s] <= messageCount(s)
    /\ carried[s] = SubSeq(l1Queue[s], 1, processedCount[s])

\* withdraw pays a claim at most once, also when the claim has a Merkle path
\* to several of the roots that updateState installs one after the other.
ClaimPaidOnce ==
  \A c \in Claims : paid[c] <= 1 /\ (paid[c] = 1 => c \in nullifiers)

\* The contract implements the in-order, exactly-once inbox of L1Inbox.
Inbox == INSTANCE L1Inbox WITH inbox <- l1Queue, consumed <- carried
ImplementsInbox == Inbox!InboxSpec
=============================================================================
