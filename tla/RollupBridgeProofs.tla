-------------------------- MODULE RollupBridgeProofs --------------------------
(***************************************************************************)
(* What RollupBridge guarantees for every set of users, messages, roots    *)
(* and claims, every modulus of the batch count and batches of any length. *)
(***************************************************************************)
EXTENDS RollupBridge, SequenceTheorems, TLAPS

USE BridgeAssumption

\* The count of a commitment is a number, whatever the length of the list.
LEMMA CommitmentType ==
  ASSUME NEW ms \in Seq(Messages)
  PROVE  build_commitment(ms)
           \in [hash : [preimage : Seq(Messages)], count : Nat]
<1>1. \A k \in Nat, m \in Nat \ {0} : k % m \in Nat
  OBVIOUS
<1>2. Len(ms) % CountModulus \in Nat
  BY <1>1
<1> QED BY <1>2 DEF build_commitment, Keccak

\* A batch the model's caller may submit comes with well-formed values.
LEMMA PublicValuesType ==
  ASSUME NEW from \in Roots, NEW to \in Roots, NEW ms \in Batches
  PROVE  PublicValues(from, to, ms) \in BatchValues
<1>1. ms.deposit \in Seq(Messages) /\ ms.forced \in Seq(Messages)
  <2>1. \A S, n : n \in Nat => BoundedSeq(S, n) \subseteq Seq(S)
    BY DEF BoundedSeq, SeqOf
  <2>2. ms.deposit \in Seq(Deposits) /\ ms.forced \in Seq(ForcedTransactions)
    BY <2>1 DEF Batches
  <2> QED BY <2>2, SeqMonotonic DEF Messages
<1>2. \A s \in Streams : ms[s] \in Seq(Messages)
  BY <1>1 DEF Streams, Batches
<1>3. \A s \in Streams : build_commitment(ms[s])
                           \in [hash : [preimage : Seq(Messages)], count : Nat]
  BY <1>2, CommitmentType
<1> QED BY <1>3 DEF PublicValues, BatchValues

\* What a user's call does to the queues, the only shared state it changes.
LEMMA UserCallCases ==
  ASSUME UserCall
  PROVE  \/ \E s \in Streams, m \in Messages : enqueue(s, m)
         \/ \E c \in Claims : withdraw(c)
<1>1. ASSUME NEW u \in Users, NEW v \in Amounts, deposit(u, v)
      PROVE  \E s \in Streams, m \in Messages : enqueue(s, m)
  <2>1. [user |-> u, amount |-> v] \in Messages
    BY <1>1 DEF deposit, Messages, Deposits
  <2> QED BY <1>1, <2>1 DEF deposit, Streams
<1>2. ASSUME NEW d \in Calldata, NEW v \in Amounts, forceTransaction(d, v)
      PROVE  \E s \in Streams, m \in Messages : enqueue(s, m)
  <2>1. [data |-> d] \in Messages
    BY DEF Messages, ForcedTransactions
  <2> QED BY <1>2, <2>1 DEF forceTransaction, Streams
<1> QED BY <1>1, <1>2 DEF UserCall

-----------------------------------------------------------------------------
(* Types.                                                                  *)

\* deposit and forceTransaction push a well-formed message.
LEMMA EnqueueType ==
  ASSUME BridgeTypeOK, NEW s \in Streams, NEW m \in Messages, enqueue(s, m)
  PROVE  BridgeTypeOK'
BY DEF BridgeTypeOK, enqueue

\* withdraw keeps the types.
LEMMA WithdrawType ==
  ASSUME BridgeTypeOK, NEW c \in Claims, withdraw(c)
  PROVE  BridgeTypeOK'
BY DEF BridgeTypeOK, withdraw

\* updateState keeps the types, for any public values.
LEMMA UpdateStateType ==
  ASSUME BridgeTypeOK, NEW pv \in BatchValues, updateState(pv)
  PROVE  BridgeTypeOK'
BY DEF BridgeTypeOK, BatchValues, updateState

\* Every reachable state of the contract is well typed: in particular no
\* deposit of zero is ever queued.
THEOREM BridgeTypeCorrect == BridgeSpec => []BridgeTypeOK
<1>1. BridgeInit => BridgeTypeOK
  BY DEF BridgeInit, BridgeTypeOK
<1>2. BridgeTypeOK /\ [BridgeNext]_bridgeVars => BridgeTypeOK'
  <2> SUFFICES ASSUME BridgeTypeOK, [BridgeNext]_bridgeVars
               PROVE  BridgeTypeOK'
    OBVIOUS
  <2>1. CASE UserCall
    BY <2>1, UserCallCases, EnqueueType, WithdrawType
  <2>2. ASSUME NEW from \in Roots, NEW to \in Roots, NEW ms \in Batches,
               updateState(PublicValues(from, to, ms))
        PROVE  BridgeTypeOK'
    BY <2>2, PublicValuesType, UpdateStateType
  <2>3. CASE UNCHANGED bridgeVars
    BY <2>3 DEF bridgeVars, BridgeTypeOK
  <2> QED BY <2>1, <2>2, <2>3 DEF BridgeNext
<1> QED BY <1>1, <1>2, PTL DEF BridgeSpec

-----------------------------------------------------------------------------
(* The messages of accepted batches.                                       *)

\* A prefix of a queue does not change when the queue grows.
LEMMA PrefixOfAppend ==
  ASSUME NEW S, NEW q \in Seq(S), NEW m \in S, NEW n \in 0..Len(q)
  PROVE  SubSeq(Append(q, m), 1, n) = SubSeq(q, 1, n)
OBVIOUS

\* Pushing a message leaves the processed prefix as it is.
LEMMA EnqueueCarried ==
  ASSUME BridgeTypeOK, CarriedOnce,
         NEW s \in Streams, NEW m \in Messages, enqueue(s, m)
  PROVE  CarriedOnce'
<1> SUFFICES ASSUME NEW t \in Streams
             PROVE  /\ processedCount[t] <= Len(l1Queue'[t])
                    /\ carried[t] = SubSeq(l1Queue'[t], 1, processedCount[t])
  BY DEF CarriedOnce, enqueue, messageCount
<1>1. /\ l1Queue[t] \in Seq(Messages)
      /\ processedCount[t] \in 0..Len(l1Queue[t])
      /\ carried[t] = SubSeq(l1Queue[t], 1, processedCount[t])
  BY DEF BridgeTypeOK, CarriedOnce, messageCount
<1>2. CASE t = s
  <2>1. l1Queue'[t] = Append(l1Queue[t], m)
    BY <1>2 DEF enqueue, BridgeTypeOK
  <2>2. Len(l1Queue'[t]) = Len(l1Queue[t]) + 1
    BY <2>1, <1>1
  <2> QED BY <1>1, <2>1, <2>2, PrefixOfAppend
<1>3. CASE t # s
  BY <1>1, <1>3 DEF enqueue, BridgeTypeOK
<1> QED BY <1>2, <1>3

\* The batch updateState accepts carries the next messages of each stream.
LEMMA AcceptedMessages ==
  ASSUME BridgeTypeOK, CarriedOnce, NEW pv \in BatchValues, Acceptable(pv),
         NEW s \in Streams
  PROVE  LET n == processedCount[s] + pv.commitment[s].count
         IN  /\ n \in Nat /\ n <= Len(l1Queue[s])
             /\ carried[s] \o pv.commitment[s].hash.preimage
                  = SubSeq(l1Queue[s], 1, n)
<1> DEFINE c == pv.commitment[s]
           q == l1Queue[s]
           p == processedCount[s]
<1>1. /\ q \in Seq(Messages) /\ p \in 0..Len(q) /\ c.count \in Nat
      /\ c.hash \in [preimage : Seq(Messages)]
      /\ carried[s] = SubSeq(q, 1, p) /\ carried[s] \in Seq(Messages)
  BY DEF BridgeTypeOK, CarriedOnce, messageCount, BatchValues
<1>2. HashMatches(s, c)
  BY DEF Acceptable
<1>3. CASE c.count = 0
  <2>1. c.hash.preimage = << >>
    BY <1>2, <1>3 DEF HashMatches, Keccak
  <2>2. carried[s] \o << >> = carried[s]
    BY <1>1, ConcatEmptySeq
  <2> QED BY <1>1, <1>3, <2>1, <2>2
<1>4. CASE c.count # 0
  <2>1. /\ p + c.count <= Len(q)
        /\ c.hash.preimage = SubSeq(q, p + 1, p + c.count)
    BY <1>2, <1>4 DEF HashMatches, Keccak, ValidRange, messageCount, getMessages
  <2>2. SubSeq(q, 1, p) \o SubSeq(q, p + 1, p + c.count)
          = SubSeq(q, 1, p + c.count)
    <3> HIDE DEF p, q, c
    <3>1. /\ 1 \in 1..Len(q) + 1 /\ p \in 1 - 1..Len(q)
          /\ p + c.count \in p..Len(q)
      BY <1>1, <2>1
    <3> QED BY <1>1, <3>1, ConcatAdjacentSubSeq
  <2>3. p + c.count \in Nat
    BY <1>1
  <2> QED BY <1>1, <2>1, <2>2, <2>3
<1> QED BY <1>3, <1>4

\* An accepted batch extends the processed prefix of each stream by the
\* messages it carries.
LEMMA UpdateStateCarried ==
  ASSUME BridgeTypeOK, CarriedOnce, NEW pv \in BatchValues, updateState(pv)
  PROVE  CarriedOnce'
<1>1. Acceptable(pv) /\ l1Queue' = l1Queue
  BY DEF updateState
<1>2. ASSUME NEW s \in Streams
      PROVE  /\ processedCount'[s] <= Len(l1Queue'[s])
             /\ carried'[s] = SubSeq(l1Queue'[s], 1, processedCount'[s])
  BY <1>1, AcceptedMessages DEF updateState
<1> QED BY <1>2 DEF CarriedOnce, messageCount

\* The messages of the batches updateState accepted are the first
\* processedCount messages of each stream, each exactly once and in order.
THEOREM MessagesCarriedOnce == BridgeSpec => []CarriedOnce
<1>1. BridgeInit => CarriedOnce
  BY DEF BridgeInit, CarriedOnce, messageCount
<1>2. BridgeTypeOK /\ CarriedOnce /\ [BridgeNext]_bridgeVars => CarriedOnce'
  <2> SUFFICES ASSUME BridgeTypeOK, CarriedOnce, [BridgeNext]_bridgeVars
               PROVE  CarriedOnce'
    OBVIOUS
  <2>1. CASE UserCall
    <3>1. ASSUME NEW c \in Claims, withdraw(c)
          PROVE  CarriedOnce'
      BY <3>1 DEF withdraw, CarriedOnce, messageCount
    <3> QED BY <2>1, <3>1, UserCallCases, EnqueueCarried
  <2>2. ASSUME NEW from \in Roots, NEW to \in Roots, NEW ms \in Batches,
               updateState(PublicValues(from, to, ms))
        PROVE  CarriedOnce'
    BY <2>2, PublicValuesType, UpdateStateCarried
  <2>3. CASE UNCHANGED bridgeVars
    BY <2>3 DEF bridgeVars, CarriedOnce, messageCount
  <2> QED BY <2>1, <2>2, <2>3 DEF BridgeNext
<1> QED BY <1>1, <1>2, BridgeTypeCorrect, PTL DEF BridgeSpec

-----------------------------------------------------------------------------
(* Withdrawals.                                                            *)

\* What has to be known besides ClaimPaidOnce: an unpaid claim has been paid
\* zero times.
PaidIffNullified ==
  \A c \in Claims : paid[c] = IF c \in nullifiers THEN 1 ELSE 0

\* withdraw pays no claim twice, whatever roots updateState installs between
\* two calls.
THEOREM ClaimsPaidOnce == BridgeSpec => []ClaimPaidOnce
<1>1. BridgeInit => PaidIffNullified
  BY DEF BridgeInit, PaidIffNullified
<1>2. BridgeTypeOK /\ PaidIffNullified /\ [BridgeNext]_bridgeVars
        => PaidIffNullified'
  <2> SUFFICES ASSUME BridgeTypeOK, PaidIffNullified, [BridgeNext]_bridgeVars
               PROVE  PaidIffNullified'
    OBVIOUS
  <2>1. ASSUME NEW c \in Claims, withdraw(c)
        PROVE  PaidIffNullified'
    BY <2>1 DEF withdraw, PaidIffNullified, BridgeTypeOK
  <2>2. ASSUME NEW s \in Streams, NEW m \in Messages, enqueue(s, m)
        PROVE  PaidIffNullified'
    BY <2>2 DEF enqueue, PaidIffNullified
  <2>3. ASSUME NEW from \in Roots, NEW to \in Roots, NEW ms \in Batches,
               updateState(PublicValues(from, to, ms))
        PROVE  PaidIffNullified'
    BY <2>3 DEF updateState, PaidIffNullified
  <2>4. CASE UNCHANGED bridgeVars
    BY <2>4 DEF bridgeVars, PaidIffNullified
  <2> QED BY <2>1, <2>2, <2>3, <2>4, UserCallCases DEF BridgeNext
<1>3. PaidIffNullified => ClaimPaidOnce
  BY DEF PaidIffNullified, ClaimPaidOnce
<1> QED BY <1>1, <1>2, <1>3, BridgeTypeCorrect, PTL DEF BridgeSpec

-----------------------------------------------------------------------------
(* The contract as an inbox.                                               *)

\* An accepted batch consumes the next messages of both streams.
LEMMA UpdateStateConsumes ==
  ASSUME BridgeTypeOK, CarriedOnce, NEW pv \in BatchValues, updateState(pv)
  PROVE  Inbox!Consume
<1>1. Acceptable(pv) /\ l1Queue' = l1Queue
  BY DEF updateState
<1>2. carried' = [s \in Streams |-> carried'[s]]
  BY DEF updateState
<1>3. ASSUME NEW s \in Streams
      PROVE  \E n \in Len(carried[s])..Len(l1Queue[s]) :
               carried'[s] = SubSeq(l1Queue[s], 1, n)
  <2> DEFINE n == processedCount[s] + pv.commitment[s].count
  <2>1. /\ n \in Nat /\ n <= Len(l1Queue[s])
        /\ carried'[s] = SubSeq(l1Queue[s], 1, n)
    BY <1>1, AcceptedMessages DEF updateState
  <2>2. Len(carried[s]) = processedCount[s]
    BY DEF BridgeTypeOK, CarriedOnce, messageCount
  <2>3. processedCount[s] \in Nat /\ pv.commitment[s].count \in Nat
        /\ Len(l1Queue[s]) \in Nat
    BY DEF BridgeTypeOK, BatchValues
  <2>4. n \in Len(carried[s])..Len(l1Queue[s])
    BY <2>1, <2>2, <2>3
  <2> QED BY <2>1, <2>4
<1> QED BY <1>1, <1>2, <1>3 DEF Inbox!Consume

\* The contract implements L1Inbox: whatever batches are submitted, the
\* messages that reach finality are taken from each queue in order, without
\* a gap and without repetition.
THEOREM BridgeImplementsInbox == BridgeSpec => ImplementsInbox
<1>1. BridgeInit => Inbox!InboxInit
  BY DEF BridgeInit, Inbox!InboxInit
<1>2. BridgeTypeOK /\ CarriedOnce /\ [BridgeNext]_bridgeVars
        => [Inbox!InboxNext]_(Inbox!inboxVars)
  <2> SUFFICES ASSUME BridgeTypeOK, CarriedOnce, [BridgeNext]_bridgeVars
               PROVE  [Inbox!InboxNext]_(Inbox!inboxVars)
    OBVIOUS
  <2>1. ASSUME NEW s \in Streams, NEW m \in Messages, enqueue(s, m)
        PROVE  Inbox!InboxNext
    BY <2>1 DEF enqueue, Inbox!InboxNext, Inbox!Post
  <2>2. ASSUME NEW c \in Claims, withdraw(c)
        PROVE  UNCHANGED Inbox!inboxVars
    BY <2>2 DEF withdraw, Inbox!inboxVars
  <2>3. ASSUME NEW from \in Roots, NEW to \in Roots, NEW ms \in Batches,
               updateState(PublicValues(from, to, ms))
        PROVE  Inbox!InboxNext
    BY <2>3, PublicValuesType, UpdateStateConsumes DEF Inbox!InboxNext
  <2>4. CASE UNCHANGED bridgeVars
    BY <2>4 DEF bridgeVars, Inbox!inboxVars
  <2> QED BY <2>1, <2>2, <2>3, <2>4, UserCallCases DEF BridgeNext
<1> QED BY <1>1, <1>2, BridgeTypeCorrect, MessagesCarriedOnce, PTL
        DEF BridgeSpec, ImplementsInbox, Inbox!InboxSpec
=============================================================================
