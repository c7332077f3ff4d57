------------------------- MODULE ProofPipelineProofs -------------------------
(***************************************************************************)
(* What the three computations of a block's root agree on, for any number  *)
(* of accounts, operations and blocks.                                     *)
(***************************************************************************)
EXTENDS ProofPipeline, TLAPS

USE ExecutorAssumption

-----------------------------------------------------------------------------
(* Proofs and roots.                                                       *)

\* A leaf never decodes, so what build_stf_proof returns is the proof of a new
\* account, without siblings.
LEMMA ProofIsDummy ==
  ASSUME NEW root, NEW address, NEW p \in build_stf_proof(root, address),
         p.tag = "Ok"
  PROVE  p = Dummy(address)
<1>1. PICK read \in AccountsAt(root, address) :
        p = CASE read.tag = "Ok" -> MerkleProof(address, read.account, <<root>>)
              [] read = NotFound -> MerkleProof(address, stf!NewAccount, << >>)
              [] OTHER -> read
  BY DEF build_stf_proof
<1>2. read \in {NotFound, Corrupted, DatabaseError, Panic}
  BY DEF AccountsAt, AccountIn, LeafBytes, AccountBytes
<1>3. read.tag # "Ok"
  BY <1>2 DEF NotFound, Corrupted, DatabaseError, Panic
<1>4. read = NotFound
  BY <1>1, <1>3
<1> QED BY <1>1, <1>3, <1>4 DEF Dummy

\* A transaction's sender is never found.
LEMMA ReadFails ==
  ASSUME NEW root, NEW address, NEW read \in AccountsAt(root, address)
  PROVE  read.tag # "Ok"
<1>1. read \in {NotFound, Corrupted, DatabaseError, Panic}
  BY DEF AccountsAt, AccountIn, LeafBytes, AccountBytes
<1> QED BY <1>1 DEF NotFound, Corrupted, DatabaseError, Panic

\* What a walker keeps and changes when it stops or moves on.
LEMMA WalkerSteps ==
  ASSUME NEW w, {"pc", "root", "done"} \subseteq DOMAIN w,
         NEW pc, NEW k \in Kinds, NEW root, w.done \in [Kinds -> Nat]
  PROVE  /\ DOMAIN Stopped(w, pc) = DOMAIN w
         /\ Stopped(w, pc).pc = pc
         /\ Stopped(w, pc).root = w.root
         /\ Stopped(w, pc).done = w.done
         /\ DOMAIN Advanced(w, k, root) = DOMAIN w
         /\ Advanced(w, k, root).pc = w.pc
         /\ Advanced(w, k, root).root = root
         /\ Advanced(w, k, root).done = [w.done EXCEPT ![k] = @ + 1]
  BY DEF Stopped, Advanced

-----------------------------------------------------------------------------
(* What a step of the generator amounts to.                                *)

GenStops == \E pc \in {"failed", "panicked"} : gen' = Stopped(gen, pc)

PushesDeposit(root) ==
  /\ At(gen, "deposits")
  /\ gen' = [Advanced(gen, "deposits", root) EXCEPT
               !.to["deposits"] = Append(@, Dummy(Op(gen, "deposits").to))]

PushesTx(k, root) ==
  /\ At(gen, k)
  /\ gen' = Pushed(k, root, Dummy(Op(gen, k).from), Dummy(Op(gen, k).to))

\* The operation the generator is at is one of the block's.
LEMMA OpType ==
  ASSUME PipelineTypeOK, NEW k \in Kinds,
         At(gen, k) \/ At(guest, k)
  PROVE  /\ At(gen, k) => Op(gen, k) \in OpsOf(k)
         /\ At(guest, k) => Op(guest, k) \in OpsOf(k)
<1>1. block.ops[k] \in Seq(OpsOf(k))
  BY DEF PipelineTypeOK
<1>2. gen.done[k] \in Nat /\ guest.done[k] \in Nat
  BY DEF PipelineTypeOK, WalkerOK
<1>3. \A n \in Nat : n < Len(block.ops[k]) => block.ops[k][n + 1] \in OpsOf(k)
  BY <1>1
<1> QED BY <1>2, <1>3 DEF At, Op, Index

\* Whatever it reads, replaying a transaction stops the generator or moves its
\* root to the hash of one account.
LEMMA ReplayMoves ==
  ASSUME NEW k \in {"forced", "txs"}, At(gen, k), Replay(k, Op(gen, k))
  PROVE  GenStops \/ \E root : root.kind = "leaf" /\ PushesTx(k, root)
<1> DEFINE tx == Op(gen, k)
<1>1. PICK from \in build_stf_proof(gen.root, tx.from),
           to \in build_stf_proof(gen.root, tx.to) :
        LET result == Apply(k, from.account, to.account, tx)
            mid == compute_new_root(from, Hash(tx.from, result.from))
            RootAfter(p) == compute_new_root(p, Hash(tx.to, result.to))
        IN IF from.tag # "Ok" THEN gen' = GenStopped(from)
           ELSE IF to.tag # "Ok" THEN gen' = GenStopped(to)
           ELSE \/ /\ result.kind = "Failure"
                   /\ gen' = Pushed(k, mid, from, to)
                \/ /\ result.kind = "Success"
                   /\ \E after \in build_stf_proof(mid, tx.to) :
                        gen' = IF after.tag = "Ok"
                               THEN Pushed(k, RootAfter(after), from, after)
                               ELSE GenStopped(after)
                \/ /\ result.kind \notin {"Failure", "Success"}
                   /\ gen' = GenStopped(StfError)
  BY DEF Replay
<1> DEFINE result == Apply(k, from.account, to.account, tx)
           mid == compute_new_root(from, Hash(tx.from, result.from))
<1>2. \A read : gen' = GenStopped(read) => GenStops
  BY DEF GenStopped, GenStops
<1>3. \A a, leaf : compute_new_root(Dummy(a), leaf) = leaf
  BY DEF compute_new_root, Dummy, MerkleProof
<1>4. \A a, account : Hash(a, account).kind = "leaf"
  BY DEF Hash
<1>5. CASE from.tag # "Ok" \/ to.tag # "Ok"
  BY <1>1, <1>2, <1>5
<1>6. CASE from.tag = "Ok" /\ to.tag = "Ok"
  <2>1. from = Dummy(tx.from) /\ to = Dummy(tx.to)
    BY <1>6, ProofIsDummy
  <2>2. CASE gen' = Pushed(k, mid, from, to)
    <3>1. mid = Hash(tx.from, result.from)
      BY <1>3, <2>1
    <3> QED BY <1>4, <2>1, <2>2, <3>1 DEF PushesTx
  <2>3. ASSUME NEW after \in build_stf_proof(mid, tx.to), after.tag = "Ok",
               gen' = Pushed(k, compute_new_root(after, Hash(tx.to, result.to)),
                             from, after)
        PROVE  \E root : root.kind = "leaf" /\ PushesTx(k, root)
    <3>1. after = Dummy(tx.to)
      BY <2>3, ProofIsDummy
    <3> QED BY <1>3, <1>4, <2>1, <2>3, <3>1 DEF PushesTx
  <2> HIDE DEF result, mid
  <2> QED BY <1>1, <1>2, <1>6, <2>2, <2>3 DEF result, mid
<1> QED BY <1>5, <1>6

\* A step of the generator stops it, passes over a dummy or an API transaction
\* with its root unchanged, or moves its root to the hash of one account.
LEMMA GeneratorMoves ==
  ASSUME PipelineTypeOK, gen_deposit \/ gen_forced \/ gen_tx
  PROVE  \/ GenStops
         \/ \E root : root.kind = "leaf" /\ PushesDeposit(root)
         \/ \E root : root.kind = "leaf" /\ PushesTx("forced", root)
         \/ /\ PushesTx("forced", gen.root)
            /\ Op(gen, "forced").from = DefaultHash
         \/ PushesTx("txs", gen.root)
<1>1. \A read : gen' = GenStopped(read) => GenStops
  BY DEF GenStopped, GenStops
<1>2. CASE gen_deposit
  <2> DEFINE dep == Op(gen, "deposits")
  <2>1. At(gen, "deposits")
    BY <1>2 DEF gen_deposit
  <2>2. PICK proof \in build_stf_proof(gen.root, dep.to) :
          gen' = IF proof.tag = "Ok"
                 THEN [Advanced(gen, "deposits",
                         IF stf!DepositFits(proof.account, dep)
                         THEN compute_new_root(proof,
                                Hash(dep.to, stf!apply_deposit(proof.account, dep)))
                         ELSE gen.root) EXCEPT
                         !.to["deposits"] = Append(@, proof)]
                 ELSE GenStopped(proof)
    BY <1>2 DEF gen_deposit
  <2>3. CASE proof.tag = "Ok"
    <3>1. proof = Dummy(dep.to)
      BY <2>3, ProofIsDummy
    <3>2. dep \in Deposits
      <4>1. "deposits" \in Kinds
        BY DEF Kinds
      <4> QED BY <2>1, <4>1, OpType DEF OpsOf
    <3>3. dep.amount \in 0..U64Max
      BY <3>2 DEF Deposits, stf!U64
    <3>4. stf!DepositFits(proof.account, dep)
      BY <3>1, <3>3 DEF stf!DepositFits, stf!Fits, Dummy, MerkleProof, stf!NewAccount
    <3>5. compute_new_root(proof, Hash(dep.to, stf!apply_deposit(proof.account, dep)))
            = Hash(dep.to, stf!apply_deposit(proof.account, dep))
      BY <3>1 DEF compute_new_root, Dummy, MerkleProof
    <3>6. Hash(dep.to, stf!apply_deposit(proof.account, dep)).kind = "leaf"
      BY DEF Hash
    <3>7. gen' = [Advanced(gen, "deposits",
                    Hash(dep.to, stf!apply_deposit(proof.account, dep))) EXCEPT
                    !.to["deposits"] = Append(@, proof)]
      BY <2>2, <2>3, <3>4, <3>5
    <3> QED BY <2>1, <3>1, <3>6, <3>7 DEF PushesDeposit
  <2>4. CASE proof.tag # "Ok"
    BY <1>1, <2>2, <2>4
  <2> QED BY <2>3, <2>4
<1>3. CASE gen_forced
  <2>1. CASE Op(gen, "forced").from = DefaultHash
    BY <1>3, <2>1 DEF gen_forced, gen_skip, PushesTx
  <2>2. CASE Op(gen, "forced").from # DefaultHash
    BY <1>3, <2>2, ReplayMoves DEF gen_forced
  <2> QED BY <2>1, <2>2
<1>4. CASE gen_tx
  <2>1. PICK read \in AccountsAt(gen.root, Op(gen, "txs").from) :
          CASE read.tag = "Ok" -> Replay("txs", Op(gen, "txs"))
            [] read = Panic -> gen' = GenStopped(Panic)
            [] OTHER -> gen_skip("txs", Op(gen, "txs"))
    BY <1>4 DEF gen_tx
  <2>2. read.tag # "Ok"
    BY ReadFails
  <2>3. gen' = GenStopped(Panic) \/ gen_skip("txs", Op(gen, "txs"))
    BY <2>1, <2>2
  <2> QED BY <1>1, <1>4, <2>3 DEF gen_tx, gen_skip, PushesTx
<1> QED BY <1>2, <1>3, <1>4

\* The fields of the generator after each kind of step.
LEMMA GenStopsFields ==
  ASSUME PipelineTypeOK, GenStops
  PROVE  /\ DOMAIN gen' = DOMAIN gen
         /\ gen'.pc \in {"failed", "panicked"}
         /\ gen'.root = gen.root /\ gen'.done = gen.done
         /\ gen'.from = gen.from /\ gen'.to = gen.to
<1>1. {"pc", "root", "done", "from", "to"} = DOMAIN gen
  BY DEF PipelineTypeOK
<1> QED BY <1>1 DEF GenStops, Stopped

\* Pushing a proof of a deposit advances nothing but the deposits.
LEMMA PushesDepositFields ==
  ASSUME PipelineTypeOK, NEW root, PushesDeposit(root)
  PROVE  /\ DOMAIN gen' = DOMAIN gen
         /\ gen'.pc = "running" /\ gen'.root = root
         /\ gen'.done = [gen.done EXCEPT !["deposits"] = @ + 1]
         /\ gen'.from = gen.from
         /\ gen'.to = [gen.to EXCEPT !["deposits"] =
                         Append(@, Dummy(Op(gen, "deposits").to))]
<1>1. DOMAIN gen = {"pc", "root", "done", "from", "to"}
  BY DEF PipelineTypeOK
<1> DEFINE a == Advanced(gen, "deposits", root)
           d == Dummy(Op(gen, "deposits").to)
<1>2. /\ DOMAIN a = DOMAIN gen /\ a.pc = gen.pc /\ a.root = root
      /\ a.done = [gen.done EXCEPT !["deposits"] = @ + 1]
      /\ a.from = gen.from /\ a.to = gen.to
  BY <1>1 DEF Advanced
<1>3. gen' = [a EXCEPT !.to["deposits"] = Append(@, d)] /\ gen.pc = "running"
  BY DEF PushesDeposit, At
<1> HIDE DEF a, d
<1>4. /\ DOMAIN gen' = DOMAIN a /\ gen'.pc = a.pc /\ gen'.root = a.root
      /\ gen'.done = a.done /\ gen'.from = a.from
      /\ gen'.to = [a.to EXCEPT !["deposits"] = Append(@, d)]
  BY <1>1, <1>2, <1>3
<1> QED BY <1>2, <1>3, <1>4 DEF d

\* Pushing the two proofs of a transaction advances nothing but its kind.
LEMMA PushesTxFields ==
  ASSUME PipelineTypeOK, NEW root, NEW k \in {"forced", "txs"}, PushesTx(k, root)
  PROVE  /\ DOMAIN gen' = DOMAIN gen
         /\ gen'.pc = "running" /\ gen'.root = root
         /\ gen'.done = [gen.done EXCEPT ![k] = @ + 1]
         /\ gen'.from = [gen.from EXCEPT ![k] = Append(@, Dummy(Op(gen, k).from))]
         /\ gen'.to = [gen.to EXCEPT ![k] = Append(@, Dummy(Op(gen, k).to))]
<1>1. DOMAIN gen = {"pc", "root", "done", "from", "to"}
  BY DEF PipelineTypeOK
<1> DEFINE a == Advanced(gen, k, root)
           f == Dummy(Op(gen, k).from)
           t == Dummy(Op(gen, k).to)
<1>2. /\ DOMAIN a = DOMAIN gen /\ a.pc = gen.pc /\ a.root = root
      /\ a.done = [gen.done EXCEPT ![k] = @ + 1]
      /\ a.from = gen.from /\ a.to = gen.to
  BY <1>1 DEF Advanced
<1>3. gen' = [a EXCEPT !.from[k] = Append(@, f), !.to[k] = Append(@, t)]
      /\ gen.pc = "running"
  BY DEF PushesTx, At, Pushed
<1> HIDE DEF a, f, t
<1>4. /\ DOMAIN gen' = DOMAIN a /\ gen'.pc = a.pc /\ gen'.root = a.root
      /\ gen'.done = a.done
      /\ gen'.from = [a.from EXCEPT ![k] = Append(@, f)]
      /\ gen'.to = [a.to EXCEPT ![k] = Append(@, t)]
  BY <1>1, <1>2, <1>3
<1> QED BY <1>2, <1>3, <1>4 DEF f, t

-----------------------------------------------------------------------------
(* Types.                                                                  *)

\* A walker that moves on at an operation stays within the block.
LEMMA WithinBlock ==
  ASSUME NEW w, NEW k \in Kinds, WalkerOK(w), At(w, k)
  PROVE  /\ [w.done EXCEPT ![k] = @ + 1] \in [Kinds -> Nat]
         /\ PipelineTypeOK =>
              \A j \in Kinds :
                [w.done EXCEPT ![k] = @ + 1][j] <= Len(block.ops[j])
<1>1. w.done \in [Kinds -> Nat] /\ w.done[k] < Len(block.ops[k])
  BY DEF WalkerOK, At
<1>2. ASSUME PipelineTypeOK, NEW j \in Kinds
      PROVE  [w.done EXCEPT ![k] = @ + 1][j] <= Len(block.ops[j])
  <2>1. Len(block.ops[j]) \in Nat
    BY <1>2 DEF PipelineTypeOK
  <2> QED BY <1>1, <2>1 DEF WalkerOK
<1> QED BY <1>1, <1>2

\* What holds of a block and a prover that have just been reset.
LEMMA StartTypes ==
  /\ NewBlock.ops \in [Kinds -> Seq(Deposits \cup Transactions)]
  /\ \A k \in Kinds : NewBlock.ops[k] = << >> /\ NewBlock.ops[k] \in Seq(OpsOf(k))
  /\ DOMAIN NewBlock = {"ops", "pre", "post"}
  /\ NoneDone \in [Kinds -> Nat] /\ \A k \in Kinds : NoneDone[k] = 0
  /\ DOMAIN GuestIdle = {"pc", "root", "done"}
  /\ GuestIdle.pc = "idle" /\ GuestIdle.done = NoneDone
  /\ DOMAIN GenIdle = {"pc", "root", "done", "from", "to"}
  /\ GenIdle.pc = "idle" /\ GenIdle.done = NoneDone
  /\ GenIdle.from = [k \in Kinds |-> << >>] /\ GenIdle.to = [k \in Kinds |-> << >>]
<1>1. NoOps \in [Kinds -> Seq(Deposits \cup Transactions)]
      /\ \A k \in Kinds : NoOps[k] = << >> /\ NoOps[k] \in Seq(OpsOf(k))
  BY DEF NoOps
<1>2. NoneDone \in [Kinds -> Nat] /\ \A k \in Kinds : NoneDone[k] = 0
  BY DEF NoneDone
<1>3. NewBlock.ops = NoOps /\ DOMAIN NewBlock = {"ops", "pre", "post"}
  BY DEF NewBlock
<1>4. /\ DOMAIN GuestIdle = {"pc", "root", "done"}
      /\ GuestIdle.pc = "idle" /\ GuestIdle.done = NoneDone
  BY DEF GuestIdle
<1>5. /\ DOMAIN GenIdle = {"pc", "root", "done", "from", "to"}
      /\ GenIdle.pc = "idle" /\ GenIdle.done = NoneDone
      /\ GenIdle.from = [k \in Kinds |-> << >>] /\ GenIdle.to = [k \in Kinds |-> << >>]
  BY DEF GenIdle
<1> QED BY <1>1, <1>2, <1>3, <1>4, <1>5

\* The generator starts at the block's root with empty vectors.
LEMMA GenStartFields ==
  ASSUME NEW root
  PROVE  /\ DOMAIN GenStart(root) = {"pc", "root", "done", "from", "to"}
         /\ GenStart(root).pc = "running" /\ GenStart(root).root = root
         /\ GenStart(root).done = NoneDone
         /\ GenStart(root).from = [k \in Kinds |-> << >>]
         /\ GenStart(root).to = [k \in Kinds |-> << >>]
  BY DEF GenStart, GenIdle

\* What a step of the guest amounts to: it stops, or it moves on.
LEMMA GuestMoves ==
  ASSUME PipelineTypeOK, NEW k \in Kinds, guest_step(k)
  PROVE  /\ At(guest, k)
         /\ DOMAIN guest' = DOMAIN guest
         /\ \/ guest'.pc = "failed" /\ guest'.done = guest.done
               /\ guest'.root = guest.root
            \/ /\ guest'.pc = "running"
               /\ guest'.done = [guest.done EXCEPT ![k] = @ + 1]
<1>1. guest' = Rejected \/ \E root : guest' = Advanced(guest, k, root)
  <2>1. guest' = Transition(k, Op(guest, k))
    BY DEF guest_step
  <2>2. CASE k = "deposits"
    <3>1. guest' = DepositTransition(Op(guest, k))
      BY <2>1, <2>2 DEF Transition
    <3> QED BY <2>2, <3>1 DEF DepositTransition
  <2>3. CASE k # "deposits"
    <3>1. \/ guest' = TxTransition(k, Op(guest, k))
          \/ guest' = Advanced(guest, k, guest.root)
      BY <2>1, <2>3 DEF Transition
    <3>2. ASSUME NEW tx PROVE
            TxTransition(k, tx) = Rejected
            \/ \E root : TxTransition(k, tx) = Advanced(guest, k, root)
      BY DEF TxTransition
    <3> QED BY <3>1, <3>2
  <2> QED BY <2>2, <2>3
<1>2. At(guest, k) /\ guest.pc = "running"
  BY DEF guest_step, At
<1>3. DOMAIN guest = {"pc", "root", "done"} /\ guest.done \in [Kinds -> Nat]
  BY DEF PipelineTypeOK, WalkerOK
<1> QED BY <1>1, <1>2, <1>3, WalkerSteps DEF Rejected

\* PipelineTypeOK part by part, with the walkers apart from the block.
BlockOK ==
  /\ DOMAIN block = {"ops", "pre", "post"}
  /\ block.ops \in [Kinds -> Seq(Deposits \cup Transactions)]
  /\ \A k \in Kinds : block.ops[k] \in Seq(OpsOf(k))
GenOK ==
  /\ DOMAIN gen = {"pc", "root", "done", "from", "to"}
  /\ gen.pc \in {"idle", "running", "returned", "failed", "panicked"}
  /\ WalkerOK(gen)
  /\ DOMAIN gen.from = Kinds /\ DOMAIN gen.to = Kinds
GuestOK ==
  /\ DOMAIN guest = {"pc", "root", "done"}
  /\ guest.pc \in {"idle", "running", "committed", "failed", "proved"}
  /\ WalkerOK(guest)

\* The parts make up the whole.
LEMMA TypeParts == PipelineTypeOK <=> BlockOK /\ GenOK /\ GuestOK
  BY DEF PipelineTypeOK, BlockOK, GenOK, GuestOK

\* The parts a step leaves alone keep their types.
LEMMA StableParts ==
  ASSUME PipelineTypeOK
  PROVE  /\ UNCHANGED block => BlockOK'
         /\ UNCHANGED <<block, gen>> => GenOK'
         /\ UNCHANGED <<block, guest>> => GuestOK'
<1>1. BlockOK /\ GenOK /\ GuestOK
  BY TypeParts
<1>2. UNCHANGED block => BlockOK'
  BY <1>1 DEF BlockOK
<1>3. UNCHANGED <<block, gen>> => GenOK'
  BY <1>1 DEF GenOK, WalkerOK
<1>4. UNCHANGED <<block, guest>> => GuestOK'
  BY <1>1 DEF GuestOK, WalkerOK
<1> QED BY <1>2, <1>3, <1>4

\* A walker that has done nothing is within any block.
LEMMA NoneDoneOK ==
  ASSUME BlockOK, NEW w, w.done = NoneDone
  PROVE  WalkerOK(w)
<1>1. \A k \in Kinds : Len(block.ops[k]) \in Nat
  BY DEF BlockOK
<1> QED BY <1>1, StartTypes DEF WalkerOK

\* An operation is appended to the block's operations of its kind.
LEMMA IncludedType ==
  ASSUME PipelineTypeOK, NEW k \in Kinds, NEW op \in OpsOf(k), Included(k, op)
  PROVE  /\ PipelineTypeOK'
         /\ block'.ops = [block.ops EXCEPT ![k] = Append(@, op)]
         /\ block'.pre = block.pre /\ block'.post = block.post
         /\ UNCHANGED <<gen, guest>>
<1>1. BlockOK /\ GenOK /\ GuestOK
  BY TypeParts
<1>2. /\ DOMAIN block' = DOMAIN block
      /\ block'.ops = [block.ops EXCEPT ![k] = Append(@, op)]
      /\ block'.pre = block.pre /\ block'.post = block.post
      /\ UNCHANGED <<gen, guest>>
  BY <1>1 DEF Included, BlockOK
<1>3. op \in Deposits \cup Transactions
  BY DEF OpsOf
<1>4. block'.ops \in [Kinds -> Seq(Deposits \cup Transactions)]
  BY <1>1, <1>2, <1>3 DEF BlockOK
<1>5. \A j \in Kinds : /\ block'.ops[j] \in Seq(OpsOf(j))
                       /\ Len(block.ops[j]) <= Len(block'.ops[j])
  BY <1>1, <1>2 DEF BlockOK
<1>6. BlockOK'
  BY <1>1, <1>2, <1>4, <1>5 DEF BlockOK, OpsOf, Deposits, Transactions
<1>7. GenOK'
  <2>1. \A j \in Kinds : gen.done[j] <= Len(block'.ops[j])
    BY <1>1, <1>5 DEF GenOK, WalkerOK, BlockOK
  <2> QED BY <1>1, <1>2, <2>1 DEF GenOK, WalkerOK
<1>8. GuestOK'
  <2>1. \A j \in Kinds : guest.done[j] <= Len(block'.ops[j])
    BY <1>1, <1>5 DEF GuestOK, WalkerOK, BlockOK
  <2> QED BY <1>1, <1>2, <2>1 DEF GuestOK, WalkerOK
<1>9. PipelineTypeOK'
  BY <1>6, <1>7, <1>8 DEF PipelineTypeOK, BlockOK, GenOK, GuestOK
<1> QED BY <1>2, <1>9

\* What an executor step does to the block and the prover.
LEMMA ExecuteMoves ==
  ASSUME PipelineTypeOK, execute
  PROVE  \/ UNCHANGED proverVars
         \/ \E k \in Kinds : \E op \in OpsOf(k) : Included(k, op)
<1>1. "deposits" \in Kinds /\ "forced" \in Kinds /\ "txs" \in Kinds
  BY DEF Kinds
<1> QED BY <1>1 DEF execute, OpsOf

\* Sealing a block sets its roots and starts the generator.
LEMMA SealFields ==
  ASSUME PipelineTypeOK, seal_block
  PROVE  /\ DOMAIN block' = DOMAIN block /\ block'.ops = block.ops
         /\ block'.pre = RootOf(leaves) /\ block'.post = RootOf(leaves')
         /\ gen' = GenStart(RootOf(leaves)) /\ UNCHANGED guest
<1>1. DOMAIN block = {"ops", "pre", "post"}
  BY DEF PipelineTypeOK
<1> QED BY <1>1 DEF seal_block

\* Every step of the pipeline keeps its types.
LEMMA PipelineTypeStep ==
  ASSUME PipelineTypeOK, PipelineNext
  PROVE  PipelineTypeOK'
<1>0. BlockOK /\ GenOK /\ GuestOK
  BY TypeParts
<1> SUFFICES BlockOK' /\ GenOK' /\ GuestOK'
  BY DEF PipelineTypeOK, BlockOK, GenOK, GuestOK
<1>1. CASE execute
  <2>1. CASE UNCHANGED proverVars
    BY <2>1, StableParts DEF proverVars
  <2>2. ASSUME NEW k \in Kinds, NEW op \in OpsOf(k), Included(k, op)
        PROVE  BlockOK' /\ GenOK' /\ GuestOK'
    BY <2>2, IncludedType DEF PipelineTypeOK, BlockOK, GenOK, GuestOK
  <2> QED BY <1>1, <2>1, <2>2, ExecuteMoves
<1>2. CASE seal_block
  <2>1. BlockOK' /\ GuestOK'
    BY <1>0, <1>2, SealFields DEF BlockOK, GuestOK, WalkerOK
  <2>2. GenOK'
    <3>1. WalkerOK(gen)'
      <4>1. gen'.done = NoneDone
        BY <1>2, SealFields, GenStartFields
      <4>2. \A k \in Kinds : Len(block'.ops[k]) \in Nat
        BY <2>1 DEF BlockOK
      <4> QED BY <4>1, <4>2, StartTypes DEF WalkerOK
    <3> QED BY <1>2, <3>1, SealFields, GenStartFields DEF GenOK
  <2> QED BY <2>1, <2>2
<1>3. CASE gen_deposit \/ gen_forced \/ gen_tx
  <2>1. UNCHANGED <<block, guest>>
    BY <1>3 DEF gen_deposit, gen_forced, gen_tx
  <2>2. CASE GenStops
    BY <1>0, <2>1, <2>2, GenStopsFields, StableParts DEF GenOK, WalkerOK
  <2>3. ASSUME NEW root, PushesDeposit(root)
        PROVE  GenOK'
    <3>1. At(gen, "deposits") /\ "deposits" \in Kinds
      BY <2>3 DEF PushesDeposit, Kinds
    <3>2. gen'.done = [gen.done EXCEPT !["deposits"] = @ + 1]
      BY <2>3, PushesDepositFields
    <3>3. WalkerOK(gen)
      BY <1>0 DEF GenOK
    <3>4. WalkerOK(gen)'
      BY <2>1, <3>1, <3>2, <3>3, WithinBlock DEF WalkerOK
    <3> QED BY <1>0, <2>3, <3>4, PushesDepositFields DEF GenOK
  <2>4. ASSUME NEW root, NEW k \in {"forced", "txs"}, PushesTx(k, root)
        PROVE  GenOK'
    <3>1. At(gen, k) /\ k \in Kinds
      BY <2>4 DEF PushesTx, Kinds
    <3>2. gen'.done = [gen.done EXCEPT ![k] = @ + 1]
      BY <2>4, PushesTxFields
    <3>3. WalkerOK(gen)
      BY <1>0 DEF GenOK
    <3>4. WalkerOK(gen)'
      BY <2>1, <3>1, <3>2, <3>3, WithinBlock DEF WalkerOK
    <3> QED BY <1>0, <2>4, <3>4, PushesTxFields DEF GenOK
  <2> QED BY <1>3, <2>1, <2>2, <2>3, <2>4, GeneratorMoves, StableParts
<1>4. CASE gen_finish
  <2>1. UNCHANGED block
    BY <1>4 DEF gen_finish
  <2>2. \E pc \in {"returned", "panicked"} : gen' = Stopped(gen, pc)
    BY <1>4 DEF gen_finish, GenStopped
  <2>3. GenOK'
    BY <1>0, <2>1, <2>2 DEF Stopped, GenOK, WalkerOK
  <2>4. GuestOK'
    <3>1. CASE UNCHANGED guest
      BY <2>1, <3>1, StableParts
    <3>2. CASE guest' = [pc |-> "running", root |-> block.pre, done |-> NoneDone]
      <4>1. guest'.done = NoneDone /\ guest'.pc = "running"
            /\ DOMAIN guest' = {"pc", "root", "done"}
        BY <3>2
      <4>2. \A k \in Kinds : Len(block'.ops[k]) \in Nat
        BY <1>0, <2>1 DEF BlockOK
      <4>3. WalkerOK(guest)'
        BY <4>1, <4>2, StartTypes DEF WalkerOK
      <4> QED BY <4>1, <4>3 DEF GuestOK
    <3> QED BY <1>4, <3>1, <3>2 DEF gen_finish
  <2> QED BY <2>1, <2>3, <2>4, StableParts
<1>5. ASSUME NEW k \in Kinds, guest_step(k)
      PROVE  BlockOK' /\ GenOK' /\ GuestOK'
  <2>1. UNCHANGED <<block, gen>>
    BY <1>5 DEF guest_step
  <2>2. WalkerOK(guest)'
    <3>1. At(guest, k) /\ WalkerOK(guest)
      BY <1>0, <1>5, GuestMoves DEF GuestOK
    <3>2. CASE guest'.done = guest.done
      BY <2>1, <3>1, <3>2 DEF WalkerOK
    <3>3. CASE guest'.done = [guest.done EXCEPT ![k] = @ + 1]
      BY <2>1, <3>1, <3>3, WithinBlock DEF WalkerOK
    <3> QED BY <1>5, <3>2, <3>3, GuestMoves
  <2>3. GuestOK'
    BY <1>0, <1>5, <2>2, GuestMoves DEF GuestOK
  <2> QED BY <2>1, <2>3, StableParts
<1>6. CASE guest_finish \/ check_root
  <2>1. UNCHANGED <<block, gen>>
        /\ \E pc \in {"committed", "proved", "failed"} : guest' = Stopped(guest, pc)
    BY <1>6 DEF guest_finish, check_root, Rejected
  <2>2. GuestOK'
    BY <1>0, <2>1 DEF Stopped, GuestOK, WalkerOK
  <2> QED BY <2>1, <2>2, StableParts
<1>7. CASE retry
  <2>1. UNCHANGED block /\ gen' = GenStart(block.pre) /\ guest' = GuestIdle
    BY <1>7 DEF retry
  <2>2. \A k \in Kinds : Len(block'.ops[k]) \in Nat
    BY <1>0, <2>1 DEF BlockOK
  <2>3. WalkerOK(gen)' /\ WalkerOK(guest)'
    BY <2>1, <2>2, GenStartFields, StartTypes DEF WalkerOK
  <2> QED BY <2>1, <2>3, StableParts, GenStartFields, StartTypes DEF GenOK, GuestOK
<1>8. CASE next_block
  <2>1. block' = NewBlock /\ gen' = GenIdle /\ guest' = GuestIdle
    BY <1>8 DEF next_block
  <2>2. \A k \in Kinds : Len(block'.ops[k]) \in Nat
    BY <2>1, StartTypes
  <2>3. WalkerOK(gen)' /\ WalkerOK(guest)'
    BY <2>1, <2>2, StartTypes DEF WalkerOK
  <2>4. BlockOK'
    BY <2>1, StartTypes DEF BlockOK, OpsOf, Deposits, Transactions
  <2> QED BY <2>1, <2>3, <2>4, StartTypes DEF GenOK, GuestOK
<1> QED BY <1>1, <1>2, <1>3, <1>4, <1>5, <1>6, <1>7, <1>8 DEF PipelineNext

\* The pipeline is well typed, and neither replay of a block goes past it.
LEMMA PipelineTypeCorrect == PipelineSpec => []PipelineTypeOK
<1>1. PipelineInit => PipelineTypeOK
  <2> SUFFICES ASSUME PipelineInit PROVE PipelineTypeOK
    OBVIOUS
  <2>1. block = NewBlock /\ gen = GenIdle /\ guest = GuestIdle
    BY DEF PipelineInit
  <2>2. BlockOK
    BY <2>1, StartTypes DEF BlockOK
  <2>3. WalkerOK(gen) /\ WalkerOK(guest)
    BY <2>1, <2>2, StartTypes, NoneDoneOK
  <2>4. GenOK /\ GuestOK
    BY <2>1, <2>3, StartTypes DEF GenOK, GuestOK
  <2> QED BY <2>2, <2>4, TypeParts
<1>2. PipelineTypeOK /\ UNCHANGED pipelineVars => PipelineTypeOK'
  BY DEF PipelineTypeOK, pipelineVars, proverVars, WalkerOK, OpsOf, Deposits, Transactions
<1> QED BY <1>1, <1>2, PipelineTypeStep, PTL DEF PipelineSpec

-----------------------------------------------------------------------------
(* The vectors of proofs and the operations stay aligned.                  *)

DummyProofs == {Dummy(a) : a \in Addresses}

VectorsOK ==
  \A k \in Kinds : gen.from[k] \in Seq(DummyProofs) /\ gen.to[k] \in Seq(DummyProofs)

\* The accounts of an operation are addresses.
LEMMA OpAddresses ==
  ASSUME NEW k \in Kinds, NEW op \in OpsOf(k)
  PROVE  /\ op.to \in Addresses
         /\ k # "deposits" => op.from \in Addresses
  BY DEF OpsOf, Deposits, Transactions

\* The address of a dummy proof is the one it was made for.
LEMMA DummyAddress == \A a : Dummy(a).address = a
  BY DEF Dummy, MerkleProof

\* A generator that starts has no proofs and has replayed nothing.
LEMMA StartAligned ==
  ASSUME gen.done = NoneDone, gen.from = [k \in Kinds |-> << >>],
         gen.to = [k \in Kinds |-> << >>]
  PROVE  VectorsOK /\ ProofsAligned
<1>1. \A k \in Kinds : gen.from[k] = << >> /\ gen.to[k] = << >> /\ gen.done[k] = 0
  BY StartTypes
<1> QED BY <1>1 DEF VectorsOK, ProofsAligned

\* Appending a proof and moving on by one keeps a vector aligned.
LEMMA AppendAligned ==
  ASSUME NEW v \in Seq(DummyProofs), NEW n \in Nat, Len(v) = n, NEW a \in Addresses
  PROVE  /\ Append(v, Dummy(a)) \in Seq(DummyProofs)
         /\ Len(Append(v, Dummy(a))) = n + 1
         /\ \A i \in 1..n : Append(v, Dummy(a))[i] = v[i]
         /\ Append(v, Dummy(a))[n + 1] = Dummy(a)
<1>1. Dummy(a) \in DummyProofs
  BY DEF DummyProofs
<1> HIDE DEF DummyProofs
<1> QED BY <1>1

\* Every step keeps the vectors aligned.
LEMMA AlignedStep ==
  ASSUME PipelineTypeOK, VectorsOK, ProofsAligned, PipelineNext
  PROVE  VectorsOK' /\ ProofsAligned'
<1>0. BlockOK /\ GenOK /\ GuestOK
  BY TypeParts
<1>1. CASE UNCHANGED <<block, gen>>
  BY <1>1 DEF VectorsOK, ProofsAligned
<1>2. CASE execute
  <2>1. ASSUME NEW k \in Kinds, NEW op \in OpsOf(k), Included(k, op)
        PROVE  VectorsOK' /\ ProofsAligned'
    <3>1. UNCHANGED gen /\ block'.ops = [block.ops EXCEPT ![k] = Append(@, op)]
      BY <2>1, IncludedType
    <3>2. \A j \in Kinds : \A i \in 1..gen.done[j] : block'.ops[j][i] = block.ops[j][i]
      <4>1. \A j \in Kinds : gen.done[j] \in Nat /\ gen.done[j] <= Len(block.ops[j])
        BY <1>0 DEF GenOK, WalkerOK
      <4>2. \A j \in Kinds : block.ops[j] \in Seq(OpsOf(j)) /\ Len(block.ops[j]) \in Nat
        BY <1>0 DEF BlockOK
      <4>3. \A j \in Kinds : \A i \in 1..Len(block.ops[j]) :
              block'.ops[j][i] = block.ops[j][i]
        BY <1>0, <3>1, <4>2 DEF BlockOK
      <4> QED BY <4>1, <4>2, <4>3
    <3>3. VectorsOK'
      BY <3>1 DEF VectorsOK
    <3>4. ProofsAligned'
      <4> SUFFICES ASSUME NEW j \in Kinds
                   PROVE  /\ Len(gen.to[j]) = gen.done[j]
                          /\ \A i \in 1..gen.done[j] :
                               gen.to[j][i].address = block'.ops[j][i].to
                          /\ j # "deposits" =>
                               /\ Len(gen.from[j]) = gen.done[j]
                               /\ \A i \in 1..gen.done[j] :
                                    gen.from[j][i].address = block'.ops[j][i].from
        BY <3>1 DEF ProofsAligned
      <4> QED BY <3>2 DEF ProofsAligned
    <3> QED BY <3>3, <3>4
  <2> QED BY <1>1, <1>2, <2>1, ExecuteMoves DEF proverVars
<1>3. CASE seal_block \/ retry \/ next_block
  <2>1. /\ gen'.done = NoneDone
        /\ gen'.from = [k \in Kinds |-> << >>] /\ gen'.to = [k \in Kinds |-> << >>]
    BY <1>3, SealFields, GenStartFields, StartTypes DEF retry, next_block
  <2>2. \A k \in Kinds : gen'.from[k] = << >> /\ gen'.to[k] = << >> /\ gen'.done[k] = 0
    BY <2>1, StartTypes
  <2>3. VectorsOK'
    <3>1. << >> \in Seq(DummyProofs)
      OBVIOUS
    <3>2. \A k \in Kinds : /\ gen'.from[k] \in Seq(DummyProofs)
                           /\ gen'.to[k] \in Seq(DummyProofs)
      BY <2>2, <3>1
    <3> QED BY <3>2 DEF VectorsOK
  <2>4. ProofsAligned'
    BY <2>2 DEF ProofsAligned
  <2> QED BY <2>3, <2>4
<1>4. CASE gen_deposit \/ gen_forced \/ gen_tx
  <2>1. UNCHANGED block
    BY <1>4 DEF gen_deposit, gen_forced, gen_tx
  <2>2. CASE GenStops
    BY <2>1, <2>2, GenStopsFields DEF VectorsOK, ProofsAligned
  <2>3. ASSUME NEW root, PushesDeposit(root)
        PROVE  VectorsOK' /\ ProofsAligned'
    <3> DEFINE k == "deposits"
               a == Op(gen, k).to
    <3>1. k \in Kinds /\ At(gen, k)
      BY <2>3 DEF Kinds, PushesDeposit
    <3>2. a \in Addresses
      BY <3>1, OpType, OpAddresses
    <3>3. gen.done \in [Kinds -> Nat] /\ DOMAIN gen.to = Kinds
      BY <1>0 DEF GenOK, WalkerOK
    <3>4. /\ gen'.done = [gen.done EXCEPT ![k] = @ + 1]
          /\ gen'.from = gen.from
          /\ gen'.to = [gen.to EXCEPT ![k] = Append(@, Dummy(a))]
      BY <2>3, PushesDepositFields
    <3>5. a = block.ops[k][gen.done[k] + 1].to
      BY DEF Op, Index
    <3> HIDE DEF a, k
    <3>6. gen.to[k] \in Seq(DummyProofs) /\ gen.done[k] \in Nat /\ Len(gen.to[k]) = gen.done[k]
      BY <3>1, <3>3 DEF VectorsOK, ProofsAligned
    <3>7. /\ gen'.done[k] = gen.done[k] + 1 /\ gen'.to[k] = Append(gen.to[k], Dummy(a))
          /\ \A j \in Kinds \ {k} : gen'.done[j] = gen.done[j] /\ gen'.to[j] = gen.to[j]
      BY <3>1, <3>3, <3>4
    <3>8. VectorsOK'
      BY <3>2, <3>4, <3>6, <3>7, AppendAligned DEF VectorsOK
    <3>9. /\ Len(gen'.to[k]) = gen'.done[k]
          /\ \A i \in 1..gen'.done[k] : gen'.to[k][i].address = block'.ops[k][i].to
      <4>1. \A i \in 1..gen.done[k] : gen'.to[k][i].address = block.ops[k][i].to
        <5>1. \A i \in 1..gen.done[k] : gen.to[k][i].address = block.ops[k][i].to
          BY <3>1 DEF ProofsAligned
        <5>2. \A i \in 1..gen.done[k] : gen'.to[k][i] = gen.to[k][i]
          BY <3>2, <3>6, <3>7, AppendAligned
        <5> QED BY <5>1, <5>2
      <4>2. gen'.to[k][gen.done[k] + 1].address = block.ops[k][gen.done[k] + 1].to
        BY <3>2, <3>5, <3>6, <3>7, AppendAligned, DummyAddress
      <4> QED BY <2>1, <3>2, <3>6, <3>7, <4>1, <4>2, AppendAligned
    <3> QED BY <2>1, <3>4, <3>7, <3>8, <3>9 DEF ProofsAligned, k
  <2>4. ASSUME NEW root, NEW k \in {"forced", "txs"}, PushesTx(k, root)
        PROVE  VectorsOK' /\ ProofsAligned'
    <3> DEFINE f == Op(gen, k).from
               t == Op(gen, k).to
    <3>1. k \in Kinds /\ k # "deposits" /\ At(gen, k)
      BY <2>4 DEF Kinds, PushesTx
    <3>2. f \in Addresses /\ t \in Addresses
      BY <3>1, OpType, OpAddresses
    <3>3. gen.done \in [Kinds -> Nat] /\ DOMAIN gen.to = Kinds /\ DOMAIN gen.from = Kinds
      BY <1>0 DEF GenOK, WalkerOK
    <3>4. /\ gen'.done = [gen.done EXCEPT ![k] = @ + 1]
          /\ gen'.from = [gen.from EXCEPT ![k] = Append(@, Dummy(f))]
          /\ gen'.to = [gen.to EXCEPT ![k] = Append(@, Dummy(t))]
      BY <2>4, PushesTxFields
    <3>5. /\ f = block.ops[k][gen.done[k] + 1].from
          /\ t = block.ops[k][gen.done[k] + 1].to
      BY DEF Op, Index
    <3> HIDE DEF f, t
    <3>6. /\ gen.to[k] \in Seq(DummyProofs) /\ Len(gen.to[k]) = gen.done[k]
          /\ gen.from[k] \in Seq(DummyProofs) /\ Len(gen.from[k]) = gen.done[k]
          /\ gen.done[k] \in Nat
      BY <3>1, <3>3 DEF VectorsOK, ProofsAligned
    <3>7. /\ gen'.done[k] = gen.done[k] + 1
          /\ gen'.from[k] = Append(gen.from[k], Dummy(f))
          /\ gen'.to[k] = Append(gen.to[k], Dummy(t))
          /\ \A j \in Kinds \ {k} : /\ gen'.done[j] = gen.done[j]
                                    /\ gen'.from[j] = gen.from[j]
                                    /\ gen'.to[j] = gen.to[j]
      BY <3>1, <3>3, <3>4
    <3>8. VectorsOK'
      <4>1. gen'.from[k] \in Seq(DummyProofs) /\ gen'.to[k] \in Seq(DummyProofs)
        BY <3>2, <3>6, <3>7, AppendAligned
      <4> QED BY <3>7, <4>1 DEF VectorsOK
    <3>9. /\ Len(gen'.to[k]) = gen'.done[k]
          /\ \A i \in 1..gen'.done[k] : gen'.to[k][i].address = block'.ops[k][i].to
      <4>1. \A i \in 1..gen.done[k] : gen'.to[k][i].address = block.ops[k][i].to
        <5>1. \A i \in 1..gen.done[k] : gen.to[k][i].address = block.ops[k][i].to
          BY <3>1 DEF ProofsAligned
        <5>2. \A i \in 1..gen.done[k] : gen'.to[k][i] = gen.to[k][i]
          BY <3>2, <3>6, <3>7, AppendAligned
        <5> QED BY <5>1, <5>2
      <4>2. gen'.to[k][gen.done[k] + 1].address = block.ops[k][gen.done[k] + 1].to
        BY <3>2, <3>5, <3>6, <3>7, AppendAligned, DummyAddress
      <4>3. Len(gen'.to[k]) = gen'.done[k]
        BY <3>2, <3>6, <3>7, AppendAligned
      <4> QED BY <2>1, <3>6, <3>7, <4>1, <4>2, <4>3
    <3>10. /\ Len(gen'.from[k]) = gen'.done[k]
           /\ \A i \in 1..gen'.done[k] : gen'.from[k][i].address = block'.ops[k][i].from
      <4>1. \A i \in 1..gen.done[k] : gen'.from[k][i].address = block.ops[k][i].from
        <5>1. \A i \in 1..gen.done[k] : gen.from[k][i].address = block.ops[k][i].from
          BY <3>1 DEF ProofsAligned
        <5>2. \A i \in 1..gen.done[k] : gen'.from[k][i] = gen.from[k][i]
          BY <3>2, <3>6, <3>7, AppendAligned
        <5> QED BY <5>1, <5>2
      <4>2. gen'.from[k][gen.done[k] + 1].address = block.ops[k][gen.done[k] + 1].from
        BY <3>2, <3>5, <3>6, <3>7, AppendAligned, DummyAddress
      <4>3. Len(gen'.from[k]) = gen'.done[k]
        BY <3>2, <3>6, <3>7, AppendAligned
      <4> QED BY <2>1, <3>6, <3>7, <4>1, <4>2, <4>3
    <3>11. ASSUME NEW j \in Kinds \ {k}
           PROVE  /\ Len(gen'.to[j]) = gen'.done[j]
                  /\ \A i \in 1..gen'.done[j] :
                       gen'.to[j][i].address = block'.ops[j][i].to
                  /\ j # "deposits" =>
                       /\ Len(gen'.from[j]) = gen'.done[j]
                       /\ \A i \in 1..gen'.done[j] :
                            gen'.from[j][i].address = block'.ops[j][i].from
      <4>1. /\ gen'.done[j] = gen.done[j] /\ gen'.from[j] = gen.from[j]
            /\ gen'.to[j] = gen.to[j] /\ block'.ops[j] = block.ops[j]
        BY <2>1, <3>7, <3>11
      <4>2. j \in Kinds
        BY <3>11
      <4>3. /\ Len(gen.to[j]) = gen.done[j]
            /\ \A i \in 1..gen.done[j] : gen.to[j][i].address = block.ops[j][i].to
            /\ j # "deposits" =>
                 /\ Len(gen.from[j]) = gen.done[j]
                 /\ \A i \in 1..gen.done[j] :
                      gen.from[j][i].address = block.ops[j][i].from
        BY <4>2 DEF ProofsAligned
      <4> QED BY <4>1, <4>3
    <3>12. ProofsAligned'
      BY <3>9, <3>10, <3>11 DEF ProofsAligned
    <3> QED BY <3>8, <3>12
  <2> QED BY <1>4, <2>2, <2>3, <2>4, GeneratorMoves
<1>5. CASE gen_finish
  <2>1. UNCHANGED block /\ \E pc : gen' = Stopped(gen, pc)
    BY <1>5 DEF gen_finish, GenStopped
  <2>2. gen'.done = gen.done /\ gen'.from = gen.from /\ gen'.to = gen.to
    BY <1>0, <2>1 DEF Stopped, GenOK
  <2> QED BY <2>1, <2>2 DEF VectorsOK, ProofsAligned
<1>6. ASSUME guest_finish \/ check_root \/ \E k \in Kinds : guest_step(k)
      PROVE  VectorsOK' /\ ProofsAligned'
  BY <1>1, <1>6 DEF guest_finish, check_root, guest_step
<1> QED BY <1>2, <1>3, <1>4, <1>5, <1>6 DEF PipelineNext

\* Whatever operations are passed over and whatever reads fail, the i-th proof
\* of each vector is for the accounts of the i-th operation.
THEOREM BundleIsAligned == PipelineSpec => []ProofsAligned
<1>1. PipelineInit => VectorsOK /\ ProofsAligned
  BY StartAligned, StartTypes DEF PipelineInit
<1>2. ASSUME PipelineTypeOK, VectorsOK, ProofsAligned, [PipelineNext]_pipelineVars
      PROVE  VectorsOK' /\ ProofsAligned'
  <2>1. CASE UNCHANGED pipelineVars
    BY <1>2, <2>1 DEF pipelineVars, proverVars, VectorsOK, ProofsAligned
  <2> QED BY <1>2, <2>1, AlignedStep
<1> QED BY <1>1, <1>2, PipelineTypeCorrect, PTL DEF PipelineSpec

-----------------------------------------------------------------------------
(* Which blocks are proved.                                                *)

TreeKinds == {"empty", "tree"}

\* The executor's roots are roots of trees; the generator is at the block's
\* root, having applied nothing, or at the hash of one account; the guest
\* never leaves the block's root.
RootInv ==
  /\ block.pre.kind \in TreeKinds /\ block.post.kind \in TreeKinds
  /\ gen.pc # "idle" =>
       \/ gen.root.kind = "leaf"
       \/ /\ gen.root = block.pre
          /\ gen.done["deposits"] = 0
          /\ \A i \in 1..gen.done["forced"] :
               block.ops["forced"][i].from = DefaultHash
  /\ gen.pc = "returned" =>
       /\ gen.root = block.post
       /\ \A k \in Kinds : gen.done[k] = Len(block.ops[k])
  /\ guest.pc # "idle" =>
       /\ gen.pc = "returned"
       /\ guest.root = block.pre
       /\ guest.done["txs"] = 0
  /\ guest.pc \in {"committed", "proved"} => Len(block.ops["txs"]) = 0

\* A root of the state tree is not what any Merkle proof leads to.
LEMMA NothingVerifies ==
  ASSUME NEW proof, NEW root, root.kind \in TreeKinds
  PROVE  ~verify(proof, root)
<1>1. \A leaf : leaf.kind = "leaf" =>
        compute_new_root(proof, leaf).kind \in {"leaf", "path"}
  BY DEF compute_new_root
<1>2. Hash(proof.address, proof.account).kind = "leaf"
  BY DEF Hash
<1> QED BY <1>1, <1>2 DEF verify, TreeKinds

\* The root of a map of leaves is one of the state tree.
LEMMA RootOfKind == \A tree : RootOf(tree).kind \in TreeKinds
  BY DEF RootOf, EmptyRoot, TreeKinds

\* At a root of the state tree the guest only passes over dummies.
LEMMA GuestStays ==
  ASSUME PipelineTypeOK, NEW k \in Kinds, guest_step(k),
         guest.root.kind \in TreeKinds
  PROVE  \/ guest' = Stopped(guest, "failed")
         \/ k = "forced" /\ guest' = Advanced(guest, "forced", guest.root)
<1> DEFINE op == Op(guest, k)
<1>1. guest' = Transition(k, op)
  BY DEF guest_step
<1>2. \A proof : ~verify(proof, guest.root)
  BY NothingVerifies
<1>3. CASE k = "deposits"
  <2>1. Transition(k, op) = DepositTransition(op)
    BY <1>3 DEF Transition
  <2>2. DepositTransition(op) = Rejected
    BY <1>2 DEF DepositTransition
  <2> QED BY <1>1, <2>1, <2>2 DEF Rejected
<1>4. CASE k # "deposits"
  <2>1. TxTransition(k, op) = Rejected
    BY <1>2 DEF TxTransition
  <2>2. \/ Transition(k, op) = TxTransition(k, op)
        \/ k = "forced" /\ Transition(k, op) = Advanced(guest, k, guest.root)
    BY <1>4 DEF Transition
  <2> QED BY <1>1, <2>1, <2>2 DEF Rejected
<1> QED BY <1>3, <1>4

\* The generator keeps to the block's root or leaves it for good.
LEMMA GenRootStep ==
  ASSUME PipelineTypeOK, RootInv, gen_deposit \/ gen_forced \/ gen_tx
  PROVE  RootInv'
<1>1. gen.pc = "running" /\ UNCHANGED <<block, guest>>
  BY DEF gen_deposit, gen_forced, gen_tx, At
<1>2. guest.pc = "idle"
  BY <1>1 DEF RootInv
<1>3. gen.done \in [Kinds -> Nat] /\ {"deposits", "forced", "txs"} = Kinds
  BY DEF PipelineTypeOK, WalkerOK, Kinds
<1>4. SUFFICES /\ gen'.pc \in {"running", "failed", "panicked"}
               /\ \/ gen'.root.kind = "leaf"
                  \/ /\ gen'.root = block.pre
                     /\ gen'.done["deposits"] = 0
                     /\ \A i \in 1..gen'.done["forced"] :
                          block.ops["forced"][i].from = DefaultHash
  BY <1>1, <1>2 DEF RootInv
<1>5. CASE GenStops
  BY <1>1, <1>5, GenStopsFields DEF RootInv
<1>6. ASSUME NEW root, root.kind = "leaf", PushesDeposit(root)
      PROVE  gen'.pc = "running" /\ gen'.root.kind = "leaf"
  BY <1>6, PushesDepositFields
<1>7. ASSUME NEW root, root.kind = "leaf", PushesTx("forced", root)
      PROVE  gen'.pc = "running" /\ gen'.root.kind = "leaf"
  BY <1>7, PushesTxFields
<1>8. CASE PushesTx("forced", gen.root) /\ Op(gen, "forced").from = DefaultHash
  <2>1. /\ gen'.pc = "running" /\ gen'.root = gen.root
        /\ gen'.done = [gen.done EXCEPT !["forced"] = @ + 1]
    BY <1>8, PushesTxFields
  <2>2. /\ gen'.done["deposits"] = gen.done["deposits"]
        /\ gen'.done["forced"] = gen.done["forced"] + 1
        /\ gen.done["forced"] \in Nat
    BY <1>3, <2>1
  <2>3. block.ops["forced"][gen.done["forced"] + 1].from = DefaultHash
    BY <1>8 DEF Op, Index
  <2> QED BY <1>1, <2>1, <2>2, <2>3 DEF RootInv
<1>9. CASE PushesTx("txs", gen.root)
  <2>1. /\ gen'.pc = "running" /\ gen'.root = gen.root
        /\ gen'.done = [gen.done EXCEPT !["txs"] = @ + 1]
    BY <1>9, PushesTxFields
  <2>2. /\ gen'.done["deposits"] = gen.done["deposits"]
        /\ gen'.done["forced"] = gen.done["forced"]
    BY <1>3, <2>1
  <2> QED BY <1>1, <2>1, <2>2 DEF RootInv
<1> QED BY <1>5, <1>6, <1>7, <1>8, <1>9, GeneratorMoves

\* Every step keeps the roots where RootInv says they are.
LEMMA RootStep ==
  ASSUME PipelineTypeOK, RootInv, PipelineNext
  PROVE  RootInv'
<1>0. {"deposits", "forced", "txs"} = Kinds
  BY DEF Kinds
<1>1. CASE execute
  <2>1. gen.pc = "idle" /\ guest.pc = "idle"
    BY <1>1 DEF execute, Making, RootInv
  <2>2. UNCHANGED <<gen, guest>> /\ block'.pre = block.pre /\ block'.post = block.post
    <3>1. CASE UNCHANGED proverVars
      BY <3>1 DEF proverVars
    <3> QED BY <1>1, <3>1, ExecuteMoves, IncludedType
  <2> QED BY <2>1, <2>2 DEF RootInv
<1>2. CASE seal_block
  <2>1. guest'.pc = "idle"
    BY <1>2, SealFields DEF seal_block, Making, RootInv
  <2>2. /\ gen'.pc = "running" /\ gen'.root = block'.pre /\ gen'.done = NoneDone
        /\ block'.pre.kind \in TreeKinds /\ block'.post.kind \in TreeKinds
    BY <1>2, SealFields, GenStartFields, RootOfKind
  <2>3. gen'.done["deposits"] = 0 /\ gen'.done["forced"] = 0
    BY <1>0, <2>2, StartTypes
  <2> QED BY <2>1, <2>2, <2>3 DEF RootInv
<1>3. CASE gen_deposit \/ gen_forced \/ gen_tx
  BY <1>3, GenRootStep
<1>4. CASE gen_finish
  <2>1. /\ gen.pc = "running" /\ UNCHANGED block
        /\ \A k \in Kinds : gen.done[k] = Len(block.ops[k])
    BY <1>4 DEF gen_finish, AtEnd
  <2>2. \/ /\ gen' = Stopped(gen, "returned") /\ gen.root = block.post
           /\ guest' = [pc |-> "running", root |-> block.pre, done |-> NoneDone]
        \/ gen' = Stopped(gen, "panicked") /\ UNCHANGED guest
    BY <1>4 DEF gen_finish, GenStopped
  <2>3. \A pc : gen' = Stopped(gen, pc) =>
          gen'.pc = pc /\ gen'.root = gen.root /\ gen'.done = gen.done
    BY DEF Stopped, PipelineTypeOK
  <2>4. CASE gen' = Stopped(gen, "panicked") /\ UNCHANGED guest
    <3>1. guest'.pc = "idle"
      BY <2>1, <2>4 DEF RootInv
    <3> QED BY <2>1, <2>3, <2>4, <3>1 DEF RootInv
  <2>5. CASE /\ gen' = Stopped(gen, "returned") /\ gen.root = block.post
             /\ guest' = [pc |-> "running", root |-> block.pre, done |-> NoneDone]
    <3>1. guest'.pc = "running" /\ guest'.root = block.pre /\ guest'.done["txs"] = 0
      BY <1>0, <2>5, StartTypes
    <3> QED BY <2>1, <2>3, <2>5, <3>1 DEF RootInv
  <2> QED BY <2>2, <2>4, <2>5
<1>5. ASSUME NEW k \in Kinds, guest_step(k)
      PROVE  RootInv'
  <2>1. UNCHANGED <<block, gen>> /\ guest.pc = "running"
    BY <1>5 DEF guest_step, At
  <2>2. guest.root.kind \in TreeKinds
    BY <2>1 DEF RootInv
  <2>3. /\ DOMAIN guest = {"pc", "root", "done"}
        /\ guest.done \in [Kinds -> Nat]
    BY DEF PipelineTypeOK, WalkerOK
  <2>4. /\ guest'.pc \in {"running", "failed"} /\ guest'.root = guest.root
        /\ guest'.done["txs"] = guest.done["txs"]
    <3>1. CASE guest' = Stopped(guest, "failed")
      BY <2>3, <3>1 DEF Stopped
    <3>2. CASE guest' = Advanced(guest, "forced", guest.root)
      <4>1. guest'.done = [guest.done EXCEPT !["forced"] = @ + 1]
            /\ guest'.root = guest.root /\ guest'.pc = guest.pc
        BY <2>3, <3>2, <1>0, WalkerSteps
      <4> QED BY <1>0, <2>1, <2>3, <4>1
    <3> QED BY <1>5, <2>2, <3>1, <3>2, GuestStays
  <2> QED BY <2>1, <2>4 DEF RootInv
<1>6. CASE guest_finish \/ check_root
  <2>1. /\ UNCHANGED <<block, gen>> /\ guest.pc # "idle"
        /\ \E pc \in {"committed", "proved", "failed"} : guest' = Stopped(guest, pc)
        /\ guest.pc = "committed" \/ guest.done["txs"] = Len(block.ops["txs"])
    BY <1>0, <1>6 DEF guest_finish, check_root, Rejected, AtEnd
  <2>2. guest'.root = guest.root /\ guest'.done = guest.done /\ guest'.pc # "idle"
    BY <2>1 DEF Stopped, PipelineTypeOK
  <2>3. Len(block.ops["txs"]) = 0
    BY <2>1 DEF RootInv
  <2> QED BY <2>1, <2>2, <2>3 DEF RootInv
<1>7. CASE retry
  <2>1. UNCHANGED block /\ gen' = GenStart(block.pre) /\ guest' = GuestIdle
    BY <1>7 DEF retry
  <2>2. /\ gen'.pc = "running" /\ gen'.root = block.pre /\ guest'.pc = "idle"
        /\ gen'.done["deposits"] = 0 /\ gen'.done["forced"] = 0
    BY <1>0, <2>1, GenStartFields, StartTypes
  <2> QED BY <2>1, <2>2 DEF RootInv
<1>8. CASE next_block
  <2>1. block' = NewBlock /\ gen'.pc = "idle" /\ guest'.pc = "idle"
    BY <1>8, StartTypes DEF next_block
  <2> QED BY <2>1 DEF RootInv, NewBlock, EmptyRoot, TreeKinds
<1> QED BY <1>1, <1>2, <1>3, <1>4, <1>5, <1>6, <1>7, <1>8 DEF PipelineNext

\* RootInv holds throughout.
LEMMA RootsCorrect == PipelineSpec => [](PipelineTypeOK /\ RootInv)
<1>1. PipelineInit => RootInv
  <2> SUFFICES ASSUME PipelineInit PROVE RootInv
    OBVIOUS
  <2>1. block = NewBlock /\ gen.pc = "idle" /\ guest.pc = "idle"
    BY StartTypes DEF PipelineInit
  <2> QED BY <2>1 DEF RootInv, NewBlock, EmptyRoot, TreeKinds
<1>2. ASSUME PipelineTypeOK, RootInv, [PipelineNext]_pipelineVars
      PROVE  RootInv'
  <2>1. CASE UNCHANGED pipelineVars
    BY <1>2, <2>1 DEF pipelineVars, proverVars, RootInv
  <2> QED BY <1>2, <2>1, RootStep
<1> QED BY <1>1, <1>2, PipelineTypeCorrect, PTL DEF PipelineSpec

\* The generator's assertion holds of nothing but inert blocks.
LEMMA ReturnedIsInert ==
  ASSUME PipelineTypeOK, RootInv, gen.pc = "returned"
  PROVE  Inert
<1>0. {"deposits", "forced", "txs"} = Kinds
  BY DEF Kinds
<1>1. gen.root.kind # "leaf"
  BY DEF RootInv, TreeKinds
<1>2. /\ block.pre = block.post /\ gen.done["deposits"] = 0
      /\ \A i \in 1..gen.done["forced"] : block.ops["forced"][i].from = DefaultHash
  BY <1>1 DEF RootInv
<1>3. Len(block.ops["deposits"]) = 0 /\ gen.done["forced"] = Len(block.ops["forced"])
  BY <1>0, <1>2 DEF RootInv
<1>4. /\ block.ops["deposits"] \in Seq(OpsOf("deposits"))
      /\ block.ops["forced"] \in Seq(OpsOf("forced"))
  BY <1>0 DEF PipelineTypeOK
<1>5. block.ops["deposits"] = << >>
  BY <1>3, <1>4
<1>6. DOMAIN block.ops["forced"] = 1..gen.done["forced"]
  BY <1>3, <1>4
<1> QED BY <1>2, <1>5, <1>6 DEF Inert

\* A bundle of proofs is made only for a block without deposits and decodable
\* forced transactions that left the state as it was.
THEOREM OnlyInertBundled == PipelineSpec => []BundleOnlyForInert
<1>1. PipelineTypeOK /\ RootInv => BundleOnlyForInert
  BY ReturnedIsInert DEF BundleOnlyForInert
<1> QED BY <1>1, RootsCorrect, PTL

\* Only such a block, and only without API transactions, is ever proved.
THEOREM OnlyInertProved == PipelineSpec => []ProvedBlocksInert
<1>1. ASSUME PipelineTypeOK, RootInv, guest.pc = "proved"
      PROVE  Inert /\ block.ops["txs"] = << >>
  <2>1. gen.pc = "returned" /\ Len(block.ops["txs"]) = 0
    BY <1>1 DEF RootInv
  <2>2. block.ops["txs"] \in Seq(OpsOf("txs"))
    BY <1>1 DEF PipelineTypeOK, Kinds
  <2>3. block.ops["txs"] = << >>
    BY <2>1, <2>2
  <2> QED BY <1>1, <2>1, <2>3, ReturnedIsInert
<1>2. PipelineTypeOK /\ RootInv => ProvedBlocksInert
  BY <1>1 DEF ProvedBlocksInert
<1> QED BY <1>2, RootsCorrect, PTL

\* Executor, generator and guest agree on the root of what the guest commits.
THEOREM CommittedRootMatches == PipelineSpec => []GuestRootMatches
<1>1. ASSUME PipelineTypeOK, RootInv, guest.pc = "committed"
      PROVE  guest.root = block.post
  <2>1. gen.pc = "returned" /\ guest.root = block.pre
    BY <1>1 DEF RootInv
  <2> QED BY <1>1, <2>1, ReturnedIsInert DEF Inert
<1>2. PipelineTypeOK /\ RootInv => GuestRootMatches
  BY <1>1 DEF GuestRootMatches
<1> QED BY <1>2, RootsCorrect, PTL
=============================================================================
