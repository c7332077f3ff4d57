--------------------------- MODULE OptimisticProofs ---------------------------
(***************************************************************************)
(* What the optimistic worker makes of the mempool and of the state root,  *)
(* for any number of requests, blocks, failures and deaths of the process: *)
(* blocks that build on each other, and that hold the acknowledged         *)
(* transactions once and in order.                                         *)
(***************************************************************************)
EXTENDS SequencerProofs

USE BridgeAssumption, SequencerAssumption

-----------------------------------------------------------------------------
(* The steps of the worker.                                                *)

\* A step that makes no block of anything: requests, roots and history stay,
\* and the worker goes at most back to sleep or dies before it executes.
OwQuiet ==
  /\ UNCHANGED <<mempool, sealed, submitted, restarts, headroot, ledger, orphan>>
  /\ heads'.optimistic = heads.optimistic
  /\ ow' = ow \/ (ow.pc \in {"fetch", "apply"} /\ ow'.pc \in {"fetch", "dead"})

\* Every step is one that moves a batch on, or a quiet one.
LEMMA OwMoves ==
  ASSUME TypeOK, Next
  PROVE  \/ handle_submit_tx \/ restart
         \/ snapshot_mempool
         \/ \E r \in Roots : apply_batch(r)
         \/ drain_mempool \/ commit_block \/ commit_fails
         \/ OwQuiet
<1> USE DEF memoryVars, historyVars, OwQuiet
<1>0. ow \in OwStates
  BY DEF TypeOK
<1>1. ASSUME NEW s \in Streams, fetch_processed(s)
      PROVE  OwQuiet
  BY <1>0, <1>1 DEF fetch_processed, OwStates
<1>2. ASSUME NEW s \in Streams, fetch_messages(s)
      PROVE  OwQuiet
  <2>1. ow.pc = "fetch" /\ ow'.pc \in {"fetch", "dead"}
    BY <1>0, <1>2 DEF fetch_messages, Dead, OwStates
  <2> QED BY <1>2, <2>1 DEF fetch_messages
<1>3. CASE fetch_fails
  BY <1>0, <1>3 DEF fetch_fails, Dead, OwStates
<1>4. ASSUME NEW panics \in BOOLEAN, apply_fails(panics)
      PROVE  OwQuiet
  BY <1>0, <1>4 DEF apply_fails, Dead, OwStates
<1>5. CASE ProverStep \/ ProverFails \/ receipt_fails
  <2>1. CASE confirm_block
    BY <2>1 DEF confirm_block, TypeOK, MemoryTypeOK
  <2> QED BY <1>5, <2>1 DEF ProverStep, ProverFails, receipt_fails, peek_block,
          generate_proofs, prove, submit_proof, get_receipt, fail_block,
          remove_block, generate_fails, prove_fails, queue_fails
<1>6. CASE L1Step \/ user_call \/ outside_update
  BY <1>6 DEF L1Step, mine_accepts, mine_reverts, user_call, outside_update,
     sequencerVars
<1> QED BY <1>1, <1>2, <1>3, <1>4, <1>5, <1>6
        DEF Next, OptimisticStep, OptimisticFails

-----------------------------------------------------------------------------
(* Roots.                                                                  *)

\* The root that the last committed block left.
LastRoot ==
  IF ledger = << >> THEN InitialRoot
  ELSE ledger[Len(ledger)].block.post_state_root

\* Where the last block's root is while the next block is made: the stored
\* head root runs ahead of the ledger from apply_batch to commit_block, the
\* optimistic head from drain_mempool on.
HeadInv ==
  /\ ow.pc \in {"fetch", "apply", "dead"} => headroot = LastRoot
  /\ ow.pc \in {"fetch", "apply", "dead", "drain"} => heads.optimistic = LastRoot
  /\ ow.pc \in {"apply", "drain", "commit"} => ow.pre = LastRoot
  /\ ow.pc \in {"drain", "commit"} => headroot = ow.post
  /\ ow.pc = "commit" => heads.optimistic = ow.post

\* The blocks so far are a chain.
LedgerChained ==
  \A i \in DOMAIN ledger :
    ledger[i].block.pre_state_root =
      IF i = 1 THEN InitialRoot ELSE ledger[i - 1].block.post_state_root

\* Both hold as long as no stored head root has lost its block.
RootInv == ~orphan => HeadInv /\ LedgerChained

\* A block that is committed builds on the last one.
LEMMA CommitRoot ==
  ASSUME TypeOK, QueueInv, HeadInv, LedgerChained, commit_block
  PROVE  HeadInv' /\ LedgerChained'
<1> DEFINE n == storedCounter
           b == Block(ow.txs, ow.messages, ow.pre, ow.post)
<1>1. /\ n \in Nat /\ Len(ledger) = n /\ DOMAIN ledger = 1..n
      /\ Len(ledger') = n + 1 /\ DOMAIN ledger' = 1..n + 1
      /\ \A k \in 1..n : ledger'[k] = ledger[k]
      /\ ledger'[n + 1].block = b
  BY CommitLedger
<1>2. /\ ow.pc = "commit" /\ ow'.pc = "fetch" /\ UNCHANGED <<headroot, heads>>
  BY DEF commit_block, OwStart, memoryVars
<1>3. b.pre_state_root = ow.pre /\ b.post_state_root = ow.post
  BY DEF Block
<1>4. ledger = << >> <=> n = 0
  <2>1. PICK S : ledger \in Seq(S)
    BY DEF TypeOK, HistoryTypeOK
  <2> QED BY <1>1, <2>1, EmptySeq
<1>5. ledger' # << >>
  <2>1. Len(<< >>) = 0
    OBVIOUS
  <2> QED BY <1>1, <2>1
<1> HIDE DEF n, b
<1>6. LastRoot' = ow.post
  BY <1>1, <1>3, <1>5 DEF LastRoot
<1>7. HeadInv'
  BY <1>2, <1>6 DEF HeadInv
<1>8. ASSUME NEW i \in 1..n + 1
      PROVE  ledger'[i].block.pre_state_root =
               IF i = 1 THEN InitialRoot ELSE ledger'[i - 1].block.post_state_root
  <2>1. CASE i \in 1..n
    <3>1. i # 1 => i - 1 \in 1..n
      BY <1>1, <2>1
    <3> QED BY <1>1, <2>1, <3>1 DEF LedgerChained
  <2>2. CASE i = n + 1
    <3>1. IF i = 1 THEN n = 0 ELSE n # 0 /\ n \in 1..n /\ i - 1 = n
      BY <1>1, <2>2
    <3>2. ow.pre = IF n = 0 THEN InitialRoot ELSE ledger[n].block.post_state_root
      BY <1>1, <1>2, <1>4 DEF HeadInv, LastRoot
    <3> QED BY <1>1, <1>3, <2>2, <3>1, <3>2
  <2> QED BY <1>1, <2>1, <2>2
<1> QED BY <1>1, <1>7, <1>8 DEF LedgerChained

\* When a block is lost without having moved the root, every head still shows
\* the root of the last block.
LEMMA LostRoot ==
  ASSUME HeadInv, ~BlockLost, ow \in OwStates
  PROVE  /\ headroot = LastRoot
         /\ ow.pc = "commit" => heads.optimistic = LastRoot
<1>1. CASE ow.pc \in {"drain", "commit"}
  BY <1>1 DEF HeadInv, BlockLost
<1>2. CASE ow.pc \in {"fetch", "apply", "dead"}
  BY <1>2 DEF HeadInv
<1> QED BY <1>1, <1>2 DEF OwStates

\* Each step keeps the chain and the place of its last root.
LEMMA RootStep ==
  ASSUME TypeOK, QueueInv, RootInv, Next
  PROVE  RootInv'
<1> USE DEF memoryVars, historyVars
<1>0. ow \in OwStates /\ heads \in [proven : Roots, optimistic : Roots]
  BY DEF TypeOK, MemoryTypeOK
<1>1. ASSUME UNCHANGED ledger
      PROVE  LastRoot' = LastRoot /\ (LedgerChained => LedgerChained')
  BY <1>1 DEF LastRoot, LedgerChained
<1>2. CASE handle_submit_tx \/ OwQuiet
  <2>1. UNCHANGED <<ledger, headroot, orphan>> /\ heads'.optimistic = heads.optimistic
    BY <1>2 DEF handle_submit_tx, OwQuiet
  <2>2. ow' = ow \/ (ow.pc \in {"fetch", "apply"} /\ ow'.pc \in {"fetch", "dead"})
    BY <1>2 DEF handle_submit_tx, OwQuiet
  <2>3. HeadInv => HeadInv'
    BY <1>1, <2>1, <2>2 DEF HeadInv
  <2> QED BY <1>1, <2>1, <2>3 DEF RootInv
<1>3. CASE snapshot_mempool
  <2>1. UNCHANGED <<ledger, headroot, orphan, heads>> /\ ow.pc = "fetch"
    BY <1>3 DEF snapshot_mempool
  <2>2. ow'.pc = "fetch" \/ (ow'.pc = "apply" /\ ow'.pre = heads.optimistic)
    <3>1. \/ ow' = OwStart
          \/ ow' = [ow EXCEPT !.pc = "apply", !.txs = mempool, !.pre = heads.optimistic]
      BY <1>3 DEF snapshot_mempool, pre_root
    <3>2. OwStart.pc = "fetch"
      BY DEF OwStart
    <3> QED BY <1>0, <3>1, <3>2 DEF OwStates
  <2>3. HeadInv => HeadInv'
    BY <1>1, <2>1, <2>2 DEF HeadInv
  <2> QED BY <1>1, <2>1, <2>3 DEF RootInv
<1>4. ASSUME NEW r \in Roots, apply_batch(r)
      PROVE  RootInv'
  <2>1. UNCHANGED <<ledger, orphan, heads>> /\ ow.pc = "apply" /\ headroot' = r
    BY <1>4 DEF apply_batch
  <2>2. ow'.pc = "drain" /\ ow'.pre = ow.pre /\ ow'.post = r
    BY <1>0, <1>4 DEF apply_batch, OwStates
  <2>3. HeadInv => HeadInv'
    BY <1>1, <2>1, <2>2 DEF HeadInv
  <2> QED BY <1>1, <2>1, <2>3 DEF RootInv
<1>5. CASE drain_mempool
  <2>1. UNCHANGED <<ledger, headroot, orphan>> /\ ow.pc = "drain"
        /\ heads'.optimistic = ow.post
    BY <1>0, <1>5 DEF drain_mempool
  <2>2. ow'.pc = "commit" /\ ow'.pre = ow.pre /\ ow'.post = ow.post
    BY <1>0, <1>5 DEF drain_mempool, OwStates
  <2>3. HeadInv => HeadInv'
    BY <1>1, <2>1, <2>2 DEF HeadInv
  <2> QED BY <1>1, <2>1, <2>3 DEF RootInv
<1>6. CASE commit_block
  BY <1>6, CommitRoot DEF commit_block, RootInv
<1>7. CASE commit_fails
  <2>1. UNCHANGED <<ledger, headroot, heads>> /\ ow.pc = "commit" /\ ow'.pc = "dead"
    BY <1>0, <1>7 DEF commit_fails, Dead, OwStates
  <2>2. ~orphan' => ~orphan /\ ~BlockLost
    BY <1>7, Zenon DEF commit_fails
  <2>3. ~orphan' => HeadInv'
    BY <1>0, <1>1, <2>1, <2>2, LostRoot DEF HeadInv, RootInv
  <2> QED BY <1>1, <2>1, <2>2, <2>3 DEF RootInv
<1>8. CASE restart
  <2>1. UNCHANGED <<ledger, headroot>> /\ heads'.optimistic = headroot /\ ow'.pc = "fetch"
    BY <1>8 DEF restart, OwStart
  <2>2. ~orphan' => ~orphan /\ ~BlockLost
    BY <1>8, Zenon DEF restart
  <2>3. ~orphan' => HeadInv'
    BY <1>0, <1>1, <2>1, <2>2, LostRoot DEF HeadInv, RootInv
  <2> QED BY <1>1, <2>1, <2>2, <2>3 DEF RootInv
<1> QED BY <1>2, <1>3, <1>4, <1>5, <1>6, <1>7, <1>8, OwMoves

\* Every committed block builds on the one before it, unless a head root was
\* stored and its block lost: at every death of the process and failure of the
\* database that comes at another point the chain is intact.
THEOREM LedgerChain == Spec => []Chained
<1>1. Init => RootInv
  BY DEF Init, OwStart, RootInv, HeadInv, LastRoot, LedgerChained
<1>2. TypeOK /\ QueueInv /\ RootInv /\ [Next]_vars => RootInv'
  <2>1. RootInv /\ UNCHANGED vars => RootInv'
    BY DEF vars, memoryVars, historyVars, RootInv, HeadInv, LastRoot, LedgerChained
  <2> QED BY <2>1, RootStep
<1>3. RootInv => Chained
  BY DEF RootInv, LedgerChained, Chained
<1> QED BY <1>1, <1>2, <1>3, TypeCorrect, QueueInvariant, PTL DEF Spec

-----------------------------------------------------------------------------
(* Transactions.                                                           *)

Increasing(s) == \A i, j \in DOMAIN s : i < j => s[i] < s[j]

\* No transaction that was not acknowledged yet.
AtMost(s, n) == \A i \in DOMAIN s : s[i] <= n

\* What a concatenation of two lists of transactions holds.
LEMMA ConcatNat ==
  ASSUME NEW a \in Seq(Nat), NEW b \in Seq(Nat)
  PROVE  /\ a \o b \in Seq(Nat)
         /\ Len(a \o b) = Len(a) + Len(b)
         /\ \A i \in 1..Len(a) + Len(b) :
              (a \o b)[i] = IF i <= Len(a) THEN a[i] ELSE b[i - Len(a)]
BY ConcatProperties, Zenon

\* Concatenation of lists of transactions is associative.
LEMMA Regroup == \A a, b, c \in Seq(Nat) : (a \o b) \o c = a \o (b \o c)
<1> SUFFICES ASSUME NEW a \in Seq(Nat), NEW b \in Seq(Nat), NEW c \in Seq(Nat)
             PROVE  (a \o b) \o c = a \o (b \o c)
  OBVIOUS
<1> DEFINE l == (a \o b) \o c
           r == a \o (b \o c)
<1>1. a \o b \in Seq(Nat) /\ b \o c \in Seq(Nat)
  BY ConcatNat
<1>2. l \in Seq(Nat) /\ r \in Seq(Nat) /\ Len(l) = Len(r)
  BY <1>1, ConcatNat
<1>3. \A i \in 1..Len(l) : l[i] = r[i]
  BY <1>1, ConcatNat
<1> HIDE DEF l, r
<1>4. l = r
  BY <1>2, <1>3, SeqEqual
<1> QED BY <1>4 DEF l, r

\* Positions of a concatenation are the positions of its parts.
LEMMA ConcatPositions ==
  ASSUME NEW a \in Seq(Nat), NEW b \in Seq(Nat)
  PROVE  /\ a \o b \in Seq(Nat)
         /\ \A i \in DOMAIN a : i \in DOMAIN (a \o b) /\ (a \o b)[i] = a[i]
         /\ \A j \in DOMAIN b : /\ Len(a) + j \in DOMAIN (a \o b)
                                /\ (a \o b)[Len(a) + j] = b[j]
         /\ \A k \in DOMAIN (a \o b) :
              k \in DOMAIN a \/ \E j \in DOMAIN b : k = Len(a) + j
<1>1. /\ a \o b \in Seq(Nat) /\ Len(a \o b) = Len(a) + Len(b)
      /\ \A i \in 1..Len(a) + Len(b) :
           (a \o b)[i] = IF i <= Len(a) THEN a[i] ELSE b[i - Len(a)]
  BY ConcatNat
<1>2. /\ Len(a) \in Nat /\ Len(b) \in Nat
      /\ DOMAIN a = 1..Len(a) /\ DOMAIN b = 1..Len(b)
      /\ DOMAIN (a \o b) = 1..Len(a) + Len(b)
  BY <1>1, LenProperties
<1> DEFINE m == Len(a)
           n == Len(b)
           c == a \o b
<1> HIDE DEF m, n, c
<1>3. ASSUME NEW i \in 1..m PROVE i \in 1..m + n /\ c[i] = a[i]
  BY <1>1, <1>2 DEF m, n, c
<1>4. ASSUME NEW j \in 1..n PROVE m + j \in 1..m + n /\ c[m + j] = b[j]
  <2>1. m + j \in 1..m + n /\ ~(m + j <= m) /\ (m + j) - m = j
    BY <1>2 DEF m, n
  <2> QED BY <1>1, <2>1 DEF m, n, c
<1>5. ASSUME NEW k \in 1..m + n PROVE k \in 1..m \/ \E j \in 1..n : k = m + j
  <2>1. CASE k <= m
    BY <1>2, <2>1 DEF m, n
  <2>2. CASE ~(k <= m)
    <3>1. k - m \in 1..n /\ k = m + (k - m)
      BY <1>2, <2>2 DEF m, n
    <3> QED BY <3>1
  <2> QED BY <2>1, <2>2
<1> QED BY <1>1, <1>2, <1>3, <1>4, <1>5 DEF m, n, c

\* A concatenation is increasing when its parts are, one after the other.
LEMMA ConcatIncreasing ==
  ASSUME NEW a \in Seq(Nat), NEW b \in Seq(Nat)
  PROVE  Increasing(a \o b) <=>
           /\ Increasing(a) /\ Increasing(b)
           /\ \A i \in DOMAIN a, j \in DOMAIN b : a[i] < b[j]
<1> DEFINE c == a \o b
           m == Len(a)
<1>1. m \in Nat /\ DOMAIN a = 1..m /\ DOMAIN b = 1..Len(b) /\ Len(b) \in Nat
  BY LenProperties
<1>2. /\ \A i \in DOMAIN a : i \in DOMAIN c /\ c[i] = a[i]
      /\ \A j \in DOMAIN b : m + j \in DOMAIN c /\ c[m + j] = b[j]
      /\ \A k \in DOMAIN c : k \in DOMAIN a \/ \E j \in DOMAIN b : k = m + j
  BY ConcatPositions
<1> HIDE DEF c, m
<1>3. ASSUME Increasing(c)
      PROVE  /\ Increasing(a) /\ Increasing(b)
             /\ \A i \in DOMAIN a, j \in DOMAIN b : a[i] < b[j]
  <2>1. Increasing(a)
    BY <1>2, <1>3 DEF Increasing
  <2>2. ASSUME NEW i \in DOMAIN b, NEW j \in DOMAIN b, i < j
        PROVE  b[i] < b[j]
    <3>1. m + i < m + j
      BY <1>1, <2>2
    <3> QED BY <1>2, <1>3, <3>1 DEF Increasing
  <2>3. ASSUME NEW i \in DOMAIN a, NEW j \in DOMAIN b
        PROVE  a[i] < b[j]
    <3>1. i < m + j
      BY <1>1
    <3> QED BY <1>2, <1>3, <3>1 DEF Increasing
  <2> QED BY <2>1, <2>2, <2>3 DEF Increasing
<1>4. ASSUME Increasing(a), Increasing(b),
             \A i \in DOMAIN a, j \in DOMAIN b : a[i] < b[j]
      PROVE  Increasing(c)
  <2> SUFFICES ASSUME NEW k \in DOMAIN c, NEW l \in DOMAIN c, k < l
               PROVE  c[k] < c[l]
    BY DEF Increasing
  <2>1. CASE k \in DOMAIN a /\ l \in DOMAIN a
    BY <1>2, <1>4, <2>1 DEF Increasing
  <2>2. ASSUME k \in DOMAIN a, NEW j \in DOMAIN b, l = m + j
        PROVE  c[k] < c[l]
    BY <1>2, <1>4, <2>2
  <2>3. ASSUME NEW i \in DOMAIN b, NEW j \in DOMAIN b, k = m + i, l = m + j
        PROVE  c[k] < c[l]
    <3>1. i < j
      BY <1>1, <2>3
    <3> QED BY <1>2, <1>4, <2>3, <3>1 DEF Increasing
  <2>4. ASSUME NEW i \in DOMAIN b, k = m + i, l \in DOMAIN a
        PROVE  FALSE
    BY <1>1, <2>4
  <2> QED BY <1>2, <2>1, <2>2, <2>3, <2>4
<1> QED BY <1>3, <1>4 DEF c

\* A concatenation is bounded when its parts are.
LEMMA ConcatAtMost ==
  ASSUME NEW a \in Seq(Nat), NEW b \in Seq(Nat), NEW n
  PROVE  AtMost(a \o b, n) <=> AtMost(a, n) /\ AtMost(b, n)
<1> DEFINE c == a \o b
           m == Len(a)
<1>1. /\ \A i \in DOMAIN a : i \in DOMAIN c /\ c[i] = a[i]
      /\ \A j \in DOMAIN b : m + j \in DOMAIN c /\ c[m + j] = b[j]
      /\ \A k \in DOMAIN c : k \in DOMAIN a \/ \E j \in DOMAIN b : k = m + j
  BY ConcatPositions
<1> HIDE DEF c, m
<1>2. AtMost(c, n) => AtMost(a, n) /\ AtMost(b, n)
  BY <1>1 DEF AtMost
<1>3. AtMost(a, n) /\ AtMost(b, n) => AtMost(c, n)
  BY <1>1 DEF AtMost
<1> QED BY <1>2, <1>3 DEF c

\* Dropping the middle part keeps both.
LEMMA MiddleDropped ==
  ASSUME NEW a \in Seq(Nat), NEW b \in Seq(Nat), NEW c \in Seq(Nat), NEW n,
         Increasing((a \o b) \o c), AtMost((a \o b) \o c, n)
  PROVE  /\ Increasing(a \o c) /\ AtMost(a \o c, n)
         /\ Increasing(a) /\ AtMost(a, n)
<1>1. a \o b \in Seq(Nat)
  BY ConcatNat
<1>2. /\ Increasing(a \o b) /\ Increasing(c)
      /\ \A i \in DOMAIN (a \o b), j \in DOMAIN c : (a \o b)[i] < c[j]
      /\ AtMost(a \o b, n) /\ AtMost(c, n)
  BY <1>1, ConcatIncreasing, ConcatAtMost
<1>3. Increasing(a) /\ AtMost(a, n)
  BY <1>2, ConcatIncreasing, ConcatAtMost
<1>4. \A i \in DOMAIN a : i \in DOMAIN (a \o b) /\ (a \o b)[i] = a[i]
  BY ConcatPositions
<1>5. \A i \in DOMAIN a, j \in DOMAIN c : a[i] < c[j]
  <2> DEFINE ab == a \o b
  <2> HIDE DEF ab
  <2>1. \A i \in DOMAIN ab, j \in DOMAIN c : ab[i] < c[j]
    BY <1>2 DEF ab
  <2>2. \A i \in DOMAIN a : i \in DOMAIN ab /\ ab[i] = a[i]
    BY <1>4 DEF ab
  <2> QED BY <2>1, <2>2
<1> QED BY <1>2, <1>3, <1>5, ConcatIncreasing, ConcatAtMost

\* The batch being executed is still the front of the mempool: requests are
\* added at the other end, and nobody else takes any away.
BatchInv ==
  ow.pc \in {"apply", "drain"} =>
    /\ Len(ow.txs) <= Len(mempool)
    /\ \A i \in 1..Len(ow.txs) : ow.txs[i] = mempool[i]

LogInv == BatchInv /\ Increasing(Log) /\ AtMost(Log, submitted) /\ NoTxLost

\* Types, and the parts of the log at each control point.
LEMMA LogParts ==
  ASSUME TypeOK
  PROVE  /\ sealed \in Seq(Nat) /\ mempool \in Seq(Nat) /\ ow.txs \in Seq(Nat)
         /\ submitted \in Nat /\ Log \in Seq(Nat)
         /\ ow.pc # "commit" => Log = sealed \o mempool
         /\ ow.pc = "commit" => Log = (sealed \o ow.txs) \o mempool
<1>1. /\ sealed \in Seq(Nat) /\ mempool \in Seq(Nat) /\ ow.txs \in Seq(Nat)
      /\ submitted \in Nat
  BY DEF TypeOK, HistoryTypeOK, MemoryTypeOK, OwStates
<1>2. sealed \o << >> = sealed
  BY <1>1, ConcatEmptySeq
<1>3. ow.pc # "commit" => Log = sealed \o mempool
  BY <1>2 DEF Log
<1>4. ow.pc = "commit" => Log = (sealed \o ow.txs) \o mempool
  BY DEF Log
<1>5. sealed \o mempool \in Seq(Nat) /\ (sealed \o ow.txs) \o mempool \in Seq(Nat)
  BY <1>1, ConcatNat
<1> QED BY <1>1, <1>3, <1>4, <1>5

\* A step that leaves the log alone and kills or revives nobody.
LEMMA SameLog ==
  ASSUME LogInv, BatchInv', Log' = Log, UNCHANGED <<submitted, restarts>>,
         ow.pc = "dead" => ow'.pc = "dead"
  PROVE  LogInv'
<1>1. Increasing(Log') /\ AtMost(Log', submitted')
  BY DEF LogInv
<1>2. NoTxLost'
  BY DEF LogInv, NoTxLost
<1> QED BY <1>1, <1>2 DEF LogInv

\* A request extends the log by the next transaction.
LEMMA SubmitLog ==
  ASSUME TypeOK, LogInv, handle_submit_tx
  PROVE  LogInv'
<1> DEFINE n == submitted + 1
           front == IF ow.pc = "commit" THEN sealed \o ow.txs ELSE sealed
<1>1. /\ mempool' = Append(mempool, n) /\ submitted' = n
      /\ UNCHANGED <<ow, sealed, restarts>>
  BY DEF handle_submit_tx, historyVars
<1>2. /\ sealed \in Seq(Nat) /\ mempool \in Seq(Nat) /\ ow.txs \in Seq(Nat)
      /\ submitted \in Nat /\ Log \in Seq(Nat)
  BY LogParts
<1>3. front \in Seq(Nat) /\ Log = front \o mempool
  BY LogParts, ConcatNat
<1>4. n \in Nat /\ <<n>> \in Seq(Nat)
  BY <1>2
<1> HIDE DEF n
<1>5. mempool' = mempool \o <<n>>
  BY <1>1, <1>2, <1>4, AppendIsConcat
<1>6. Log' = Log \o <<n>>
  <2>1. Log' = front \o (mempool \o <<n>>)
    <3>1. mempool \o <<n>> \in Seq(Nat) /\ sealed \o << >> = sealed
      BY <1>2, <1>4, ConcatNat, ConcatEmptySeq
    <3> QED BY <1>1, <1>5, <3>1 DEF Log
  <2> HIDE DEF front
  <2>2. (front \o mempool) \o <<n>> = front \o (mempool \o <<n>>)
    BY <1>2, <1>3, <1>4, Regroup, Zenon
  <2> QED BY <1>3, <2>1, <2>2, Zenon
<1> HIDE DEF front
<1>7. AtMost(Log, submitted) /\ Increasing(Log)
  BY DEF LogInv
<1>8. \A i \in DOMAIN Log : Log[i] < n /\ Log[i] <= n
  <2>1. \A i \in DOMAIN Log : Log[i] \in Nat
    BY <1>2
  <2> QED BY <1>2, <1>7, <2>1 DEF AtMost, n
<1>9. DOMAIN <<n>> = {1} /\ <<n>>[1] = n
  OBVIOUS
<1>10. Increasing(<<n>>) /\ AtMost(<<n>>, n)
  BY <1>4, <1>9 DEF Increasing, AtMost
<1>11. Increasing(Log')
  <2>1. \A i \in DOMAIN Log, j \in DOMAIN <<n>> : Log[i] < <<n>>[j]
    BY <1>8, <1>9
  <2>2. Increasing(Log \o <<n>>)
    BY <1>2, <1>4, <1>7, <1>10, <2>1, ConcatIncreasing, Zenon
  <2> QED BY <1>6, <2>2, Zenon
<1>12. AtMost(Log', submitted')
  <2>1. AtMost(Log, n)
    BY <1>8 DEF AtMost
  <2> QED BY <1>1, <1>2, <1>4, <1>6, <1>10, <2>1, ConcatAtMost
<1>13. BatchInv'
  <2>1. /\ Len(mempool') = Len(mempool) + 1
        /\ \A i \in 1..Len(mempool) : mempool'[i] = mempool[i]
    BY <1>1, <1>2
  <2>2. Len(ow.txs) \in Nat /\ Len(mempool) \in Nat
    BY <1>2
  <2> QED BY <1>1, <2>1, <2>2 DEF LogInv, BatchInv
<1>14. NoTxLost'
  <2> SUFFICES ASSUME restarts = 0, ow.pc # "dead"
               PROVE  Log' = [i \in 1..submitted' |-> i]
    BY <1>1 DEF NoTxLost
  <2>1. Log = [i \in 1..submitted |-> i]
    BY DEF LogInv, NoTxLost
  <2>2. Log' = Append(Log, n)
    BY <1>2, <1>4, <1>6, AppendIsConcat
  <2>3. Len(Log) = submitted
    BY <1>2, <2>1
  <2>4. /\ Log' \in Seq(Nat) /\ Len(Log') = n
        /\ Log'[n] = n /\ \A i \in 1..submitted : Log'[i] = Log[i]
    BY <1>2, <1>4, <2>2, <2>3 DEF n
  <2>5. DOMAIN Log' = 1..n /\ \A i \in 1..n : Log'[i] = i
    BY <1>2, <2>1, <2>4 DEF n
  <2> QED BY <1>1, <2>4, <2>5
<1> QED BY <1>11, <1>12, <1>13, <1>14 DEF LogInv

\* Draining moves the batch from the mempool's front to the block in hand.
LEMMA DrainLog ==
  ASSUME TypeOK, LogInv, drain_mempool
  PROVE  LogInv'
<1> DEFINE k == Len(ow.txs)
           rest == SubSeq(mempool, k + 1, Len(mempool))
<1>1. /\ sealed \in Seq(Nat) /\ mempool \in Seq(Nat) /\ ow.txs \in Seq(Nat)
      /\ k \in Nat /\ Len(mempool) \in Nat
  BY LogParts
<1>2. /\ ow.pc = "drain" /\ mempool' = rest
      /\ ow'.pc = "commit" /\ ow'.txs = ow.txs
      /\ UNCHANGED <<sealed, submitted, restarts>>
  BY DEF drain_mempool, Drained, historyVars, TypeOK, OwStates
<1>3. k <= Len(mempool) /\ \A i \in 1..k : ow.txs[i] = mempool[i]
  BY <1>2 DEF LogInv, BatchInv
<1>4. /\ rest \in Seq(Nat) /\ Len(rest) = Len(mempool) - k
      /\ \A i \in 1..Len(mempool) - k : rest[i] = mempool[k + i]
  <2>1. \A i \in k + 1..Len(mempool) : mempool[i] \in Nat
    BY <1>1
  <2>2. /\ rest \in Seq(Nat)
        /\ Len(rest) = IF k + 1 <= Len(mempool) THEN Len(mempool) - (k + 1) + 1 ELSE 0
        /\ \A i \in 1..Len(mempool) - (k + 1) + 1 : rest[i] = mempool[(k + 1) + i - 1]
    <3> HIDE DEF k
    <3>1. k + 1 \in Int /\ Len(mempool) \in Int
      BY <1>1
    <3> QED BY <2>1, <3>1, SubSeqProperties
  <2> HIDE DEF rest, k
  <2>3. Len(rest) = Len(mempool) - k
    BY <1>1, <1>3, <2>2
  <2>4. ASSUME NEW i \in 1..Len(mempool) - k
        PROVE  rest[i] = mempool[k + i]
    <3>1. i \in 1..Len(mempool) - (k + 1) + 1 /\ (k + 1) + i - 1 = k + i
      BY <1>1
    <3> QED BY <2>2, <3>1
  <2> QED BY <2>2, <2>3, <2>4
<1> HIDE DEF rest
<1>5. ow.txs \o rest = mempool
  <2> DEFINE c == ow.txs \o rest
  <2>1. /\ c \in Seq(Nat) /\ Len(c) = k + Len(rest)
        /\ \A i \in 1..k + Len(rest) : c[i] = IF i <= k THEN ow.txs[i] ELSE rest[i - k]
    BY <1>1, <1>4, ConcatNat, Zenon
  <2> HIDE DEF k, c
  <2>2. Len(c) = Len(mempool)
    BY <1>1, <1>4, <2>1
  <2>3. ASSUME NEW i \in 1..Len(mempool) PROVE c[i] = mempool[i]
    <3>1. CASE i <= k
      <4>1. i \in 1..k /\ i \in 1..k + Len(rest)
        BY <1>1, <1>4, <3>1
      <4> QED BY <1>3, <2>1, <3>1, <4>1
    <3>2. CASE ~(i <= k)
      <4>1. i - k \in 1..Len(mempool) - k /\ k + (i - k) = i
        BY <1>1, <3>2
      <4> QED BY <1>1, <1>4, <2>1, <3>2, <4>1
    <3> QED BY <3>1, <3>2
  <2>4. c = mempool
    BY <1>1, <2>1, <2>2, <2>3, SeqEqual
  <2> QED BY <2>4 DEF c
<1>6. Log' = (sealed \o ow.txs) \o rest
  BY <1>2 DEF Log
<1>7. Log = sealed \o mempool
  BY <1>2, LogParts
<1>8. Log' = Log
  <2>1. (sealed \o ow.txs) \o rest = sealed \o (ow.txs \o rest)
    BY <1>1, <1>4, Regroup, Zenon
  <2> QED BY <1>5, <1>6, <1>7, <2>1, Zenon
<1>9. BatchInv'
  BY <1>2 DEF BatchInv
<1> QED BY <1>2, <1>8, <1>9, SameLog

\* The steps that move, take or drop a batch, and the others.
LEMMA BatchStep ==
  ASSUME TypeOK, LogInv, Next
  PROVE  LogInv'
<1> USE DEF memoryVars, historyVars
<1>0. /\ ow \in OwStates
      /\ sealed \in Seq(Nat) /\ mempool \in Seq(Nat) /\ ow.txs \in Seq(Nat)
  BY LogParts DEF TypeOK
<1>1. CASE OwQuiet
  <2>1. BatchInv' /\ (ow.pc = "dead" => ow'.pc = "dead")
    BY <1>1 DEF OwQuiet, LogInv, BatchInv
  <2>2. Log' = Log
    BY <1>1 DEF OwQuiet, Log
  <2> QED BY <1>1, <2>1, <2>2, SameLog DEF OwQuiet
<1>2. CASE snapshot_mempool
  <2>1. \/ ow' = OwStart
        \/ ow' = [ow EXCEPT !.pc = "apply", !.txs = mempool, !.pre = pre_root]
    BY <1>2 DEF snapshot_mempool
  <2>2. OwStart.pc = "fetch"
    BY DEF OwStart
  <2>3. ow'.pc = "fetch" \/ (ow'.pc = "apply" /\ ow'.txs = mempool)
    BY <1>0, <2>1, <2>2 DEF OwStates
  <2>4. ow.pc = "fetch" /\ UNCHANGED <<mempool, sealed, submitted, restarts>>
    BY <1>2 DEF snapshot_mempool
  <2>5. BatchInv'
    BY <1>0, <2>3, <2>4 DEF BatchInv
  <2>6. Log' = Log
    BY <2>3, <2>4 DEF Log
  <2> QED BY <2>4, <2>5, <2>6, SameLog
<1>3. ASSUME NEW r \in Roots, apply_batch(r)
      PROVE  LogInv'
  <2>1. ow.pc = "apply" /\ ow'.pc = "drain" /\ ow'.txs = ow.txs
        /\ UNCHANGED <<mempool, sealed, submitted, restarts>>
    BY <1>0, <1>3 DEF apply_batch, OwStates
  <2>2. BatchInv' /\ Log' = Log
    BY <2>1 DEF LogInv, BatchInv, Log
  <2> QED BY <2>1, <2>2, SameLog
<1>4. CASE commit_block
  <2>1. ow.pc = "commit" /\ ow'.pc = "fetch" /\ sealed' = sealed \o ow.txs
        /\ UNCHANGED <<mempool, submitted, restarts>>
    BY <1>4 DEF commit_block, OwStart
  <2>2. BatchInv'
    BY <2>1 DEF BatchInv
  <2>3. Log' = Log
    <3>1. sealed' \o << >> = sealed \o ow.txs
      BY <1>0, <2>1, ConcatNat, ConcatEmptySeq
    <3>2. Log' = sealed' \o << >> \o mempool
      BY <2>1 DEF Log
    <3> QED BY <2>1, <3>1, <3>2 DEF Log
  <2> QED BY <2>1, <2>2, <2>3, SameLog
<1>5. CASE commit_fails
  <2>1. ow.pc = "commit" /\ ow'.pc = "dead"
        /\ UNCHANGED <<mempool, sealed, submitted, restarts>>
    BY <1>0, <1>5 DEF commit_fails, Dead, OwStates
  <2>2. BatchInv' /\ NoTxLost'
    BY <2>1 DEF BatchInv, NoTxLost
  <2>3. Log' = sealed \o mempool
    <3>1. sealed \o << >> = sealed
      BY <1>0, ConcatEmptySeq
    <3> QED BY <2>1, <3>1 DEF Log
  <2>4. Log = (sealed \o ow.txs) \o mempool
    BY <2>1, LogParts
  <2>5. Increasing(sealed \o mempool) /\ AtMost(sealed \o mempool, submitted)
    BY <1>0, <2>4, MiddleDropped DEF LogInv
  <2> QED BY <2>1, <2>2, <2>3, <2>5 DEF LogInv
<1>6. CASE restart
  <2>1. ow'.pc = "fetch" /\ mempool' = << >> /\ restarts' = restarts + 1
        /\ UNCHANGED <<sealed, submitted>>
    BY <1>6 DEF restart, OwStart
  <2>2. BatchInv' /\ NoTxLost'
    BY <2>1 DEF BatchInv, NoTxLost, TypeOK, HistoryTypeOK
  <2>3. Log' = sealed
    <3>1. sealed \o << >> = sealed
      BY <1>0, ConcatEmptySeq
    <3> QED BY <2>1, <3>1 DEF Log
  <2>4. Increasing(sealed) /\ AtMost(sealed, submitted)
    <3>1. CASE ow.pc = "commit"
      <4>1. Log = (sealed \o ow.txs) \o mempool
        BY <3>1, LogParts
      <4> QED BY <1>0, <4>1, MiddleDropped DEF LogInv
    <3>2. CASE ow.pc # "commit"
      BY <1>0, <3>2, LogParts, ConcatIncreasing, ConcatAtMost DEF LogInv
    <3> QED BY <3>1, <3>2
  <2> QED BY <2>1, <2>2, <2>3, <2>4 DEF LogInv
<1> QED BY <1>1, <1>2, <1>3, <1>4, <1>5, <1>6, SubmitLog, DrainLog, OwMoves

\* The log holds throughout.
LEMMA LogInvariant == Spec => []LogInv
<1>1. Init => LogInv
  <2> SUFFICES ASSUME Init PROVE LogInv
    OBVIOUS
  <2>1. ow.pc = "fetch" /\ Log = << >> /\ submitted = 0
    BY DEF Init, OwStart, Log
  <2> QED BY <2>1 DEF LogInv, BatchInv, Increasing, AtMost, NoTxLost
<1>2. TypeOK /\ LogInv /\ [Next]_vars => LogInv'
  <2>1. LogInv /\ UNCHANGED vars => LogInv'
    BY DEF vars, memoryVars, historyVars, LogInv, BatchInv, Increasing, AtMost,
           Log, NoTxLost
  <2> QED BY <2>1, BatchStep
<1> QED BY <1>1, <1>2, TypeCorrect, PTL DEF Spec

\* No acknowledged transaction is put in two blocks, and the blocks, the block
\* being committed and the mempool together keep the order of submission,
\* through every failure and death of the process.
THEOREM TransactionsInOrder == Spec => []LogInOrder
<1>1. LogInv => LogInOrder
  BY DEF LogInv, Increasing, LogInOrder
<1> QED BY <1>1, LogInvariant, PTL

\* While neither the worker nor the process has died, every acknowledged
\* transaction is in a block, in the block being committed, or in the mempool.
THEOREM NoTransactionLost == Spec => []NoTxLost
<1>1. LogInv => NoTxLost
  BY DEF LogInv
<1> QED BY <1>1, LogInvariant, PTL
=============================================================================
