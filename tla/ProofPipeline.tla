---------------------------- MODULE ProofPipeline ----------------------------
(***************************************************************************)
(* From a committed block to its proof: the executor makes a block, the    *)
(* generator (core/src/lib.rs, generate_proofs_for_block) replays it to    *)
(* collect a Merkle proof per operation, the zkVM guest (execute_transition*)
(* in stf/src/lib.rs, run by program/src/main.rs) replays it once more     *)
(* from those proofs, and the host (process_and_prove_batch) compares the  *)
(* guest's root with the executor's.                                       *)
(*                                                                         *)
(* Hashes are symbolic: a root is a record of what it was computed from.   *)
(* The state tree keeps the roots it stored, so a block is proved here as  *)
(* soon as it is committed: later blocks change nothing the generator or   *)
(* the guest reads, and the generator holds the tree's mutex throughout.   *)
(***************************************************************************)
EXTENDS BlockExecutor

VARIABLES
  block,   \* PendingBlock: its operations by kind, pre and post root
  gen,     \* generate_proofs_for_block: control point, current_root,
           \* operations replayed and proofs pushed, by kind
  guest    \* execute_transition: the same without proofs

proverVars == <<block, gen, guest>>
pipelineVars == <<executorVars, proverVars>>

-----------------------------------------------------------------------------
(* Roots, leaves and Merkle proofs.                                        *)

\* Account::hash; the account's id is its address.
Hash(address, account) ==
  [kind |-> "leaf", address |-> address, account |-> account]

\* The root of a state tree; Hash::default() while nothing was inserted.
EmptyRoot == [kind |-> "empty"]
RootOf(tree) == IF DOMAIN tree = {} THEN EmptyRoot
                ELSE [kind |-> "tree", leaves |-> tree]

MerkleProof(address, account, siblings) ==
  [tag |-> "Ok", address |-> address, account |-> account,
   siblings |-> siblings]

\* compute_new_root: a proof without siblings makes the leaf the root.
compute_new_root(proof, leaf) ==
  IF proof.siblings = << >> THEN leaf
  ELSE [kind |-> "path", leaf |-> leaf, siblings |-> proof.siblings]

\* Mutant: the path is not compared with the root.
verify_Any(proof, root) == TRUE

\* MerkleProof::verify
verify(proof, root) ==
  compute_new_root(proof, Hash(proof.address, proof.account)) = root

-----------------------------------------------------------------------------
(* Reading the tree at a root.                                             *)

DatabaseError == [tag |-> "DatabaseError"]
Panic == [tag |-> "Panic"]
StfError == [tag |-> "StfError"]

\* get_account at any root: the tree only knows the roots of committed
\* blocks, and panics or fails on another one; the database may fail anyway.
AccountsAt(root, address) ==
  CASE root.kind = "empty" -> {NotFound}
    [] root.kind = "tree" ->
         {AccountIn(root.leaves, address), DatabaseError, Panic}
    [] OTHER -> {DatabaseError, Panic}

\* build_stf_proof.  get_proof finds no path for an address that is not in
\* the tree, and otherwise fails as get_account does.
build_stf_proof(root, address) ==
  {CASE read.tag = "Ok" -> MerkleProof(address, read.account, <<root>>)
     [] read = NotFound -> MerkleProof(address, stf!NewAccount, << >>)
     [] OTHER -> read : read \in AccountsAt(root, address)}

\* The proof of an operation that is passed over.
Dummy(address) == MerkleProof(address, stf!NewAccount, << >>)

-----------------------------------------------------------------------------
(* Walking through the operations of the block.                            *)

Kinds == {"deposits", "forced", "txs"}
Before == [deposits |-> {}, forced |-> {"deposits"},
           txs |-> {"deposits", "forced"}]

NoneDone == [k \in Kinds |-> 0]

\* The loops of the generator and of the guest: a walker is at its next
\* operation of kind k when the loops before that one are over.
At(w, k) ==
  /\ w.pc = "running"
  /\ w.done[k] < Len(block.ops[k])
  /\ \A j \in Before[k] : w.done[j] = Len(block.ops[j])
AtEnd(w) ==
  /\ w.pc = "running"
  /\ \A k \in Kinds : w.done[k] = Len(block.ops[k])

Index(w, k) == w.done[k] + 1
Op(w, k) == block.ops[k][Index(w, k)]

Advanced(w, k, root) == [w EXCEPT !.done[k] = @ + 1, !.root = root]
Stopped(w, pc) == [w EXCEPT !.pc = pc]

\* The rules of a kind of transaction.
Apply(k, from, to, tx) ==
  IF k = "forced" THEN stf!apply_forced_tx(from, to, tx)
  ELSE stf!apply_transaction(from, to, tx)

-----------------------------------------------------------------------------
(* generate_proofs_for_block.                                              *)

GenIdle == [pc |-> "idle", root |-> EmptyRoot, done |-> NoneDone,
            from |-> [k \in Kinds |-> << >>], to |-> [k \in Kinds |-> << >>]]

GenStart(root) == [GenIdle EXCEPT !.pc = "running", !.root = root]

\* A panic leaves the tree's mutex poisoned; an error only ends the attempt.
GenStopped(read) ==
  Stopped(gen, IF read = Panic THEN "panicked" ELSE "failed")

\* The next operation is replayed and its two proofs are pushed.
Pushed(k, root, proof_from, proof_to) ==
  [Advanced(gen, k, root) EXCEPT !.from[k] = Append(@, proof_from),
                                 !.to[k] = Append(@, proof_to)]

\* An overflowing deposit is passed over; its proof is pushed all the same.
gen_deposit ==
  LET dep == Op(gen, "deposits")
      Root(proof) ==
        IF stf!DepositFits(proof.account, dep)
        THEN compute_new_root(proof,
               Hash(dep.to, stf!apply_deposit(proof.account, dep)))
        ELSE gen.root
      PushedDeposit(proof) ==
        [Advanced(gen, "deposits", Root(proof)) EXCEPT
           !.to["deposits"] = Append(@, proof)]
  IN /\ At(gen, "deposits")
     /\ \E proof \in build_stf_proof(gen.root, dep.to) :
          gen' = IF proof.tag = "Ok" THEN PushedDeposit(proof)
                 ELSE GenStopped(proof)
     /\ UNCHANGED <<executorVars, block, guest>>

\* Replay a transaction: read both accounts, run the rules, and after a
\* success read the recipient again under the sender's new root.
Replay(k, tx) ==
  \E from \in build_stf_proof(gen.root, tx.from),
     to \in build_stf_proof(gen.root, tx.to) :
    LET result == Apply(k, from.account, to.account, tx)
        mid == compute_new_root(from, Hash(tx.from, result.from))
        RootAfter(p) == compute_new_root(p, Hash(tx.to, result.to))
    IN IF from.tag # "Ok" THEN gen' = GenStopped(from)
       ELSE IF to.tag # "Ok" THEN gen' = GenStopped(to)
       ELSE \/ /\ result.kind = "Failure"
               /\ gen' = Pushed(k, mid, from, to)
            \/ /\ result.kind = "Success"
               /\ \E after \in build_stf_proof(mid, tx.to) :
                    gen' = IF after.tag = "Ok"
                           THEN Pushed(k, RootAfter(after), from, after)
                           ELSE GenStopped(after)
            \/ /\ result.kind \notin {"Failure", "Success"}
               /\ gen' = GenStopped(StfError)

\* Mutant: a dummy forced transaction is passed over without proofs.
gen_skip_Unpushed(k, tx) == gen' = Advanced(gen, k, gen.root)

\* continue, with two dummy proofs to keep the vectors aligned.
gen_skip(k, tx) ==
  gen' = Pushed(k, gen.root, Dummy(tx.from), Dummy(tx.to))

gen_forced ==
  LET tx == Op(gen, "forced")
  IN /\ At(gen, "forced")
     /\ \/ tx.from = DefaultHash /\ gen_skip("forced", tx)
        \/ tx.from # DefaultHash /\ Replay("forced", tx)
     /\ UNCHANGED <<executorVars, block, guest>>

\* Any error reading the sender, not only that it is unknown, passes the
\* transaction over.
gen_tx ==
  LET tx == Op(gen, "txs")
  IN /\ At(gen, "txs")
     /\ \E read \in AccountsAt(gen.root, tx.from) :
          CASE read.tag = "Ok" -> Replay("txs", tx)
            [] read = Panic -> gen' = GenStopped(Panic)
            [] OTHER -> gen_skip("txs", tx)
     /\ UNCHANGED <<executorVars, block, guest>>

\* Mutant: the root is not compared with the executor's.
gen_finish_Unchecked ==
  /\ AtEnd(gen)
  /\ gen' = Stopped(gen, "returned")
  /\ guest' = [pc |-> "running", root |-> block.pre, done |-> NoneDone]
  /\ UNCHANGED <<executorVars, block>>

\* The assertion on the root; the guest starts with the proofs returned.
gen_finish ==
  /\ AtEnd(gen)
  /\ \/ /\ gen.root = block.post
        /\ gen' = Stopped(gen, "returned")
        /\ guest' = [pc |-> "running", root |-> block.pre, done |-> NoneDone]
     \/ /\ gen.root # block.post
        /\ gen' = GenStopped(Panic)
        /\ UNCHANGED guest
  /\ UNCHANGED <<executorVars, block>>

-----------------------------------------------------------------------------
(* The guest and the host.                                                 *)

GuestIdle == [pc |-> "idle", root |-> EmptyRoot, done |-> NoneDone]

\* An error or a panic in the guest: no proof of this block.
Rejected == Stopped(guest, "failed")

DepositTransition(dep) ==
  LET proof == gen.to["deposits"][Index(guest, "deposits")]
      account == stf!apply_deposit(proof.account, dep)
  IN IF verify(proof, guest.root) /\ stf!DepositFits(proof.account, dep)
     THEN Advanced(guest, "deposits",
                   compute_new_root(proof, Hash(dep.to, account)))
     ELSE Rejected

\* A transaction, with its recipient taken for a new account.
TxTransition(k, tx) ==
  LET from == gen.from[k][Index(guest, k)]
      to == gen.to[k][Index(guest, k)]
      result == Apply(k, from.account, stf!NewAccount, tx)
      mid == compute_new_root(from, Hash(tx.from, result.from))
  IN IF ~verify(from, guest.root) THEN Rejected
     ELSE CASE result.kind = "Failure" -> Advanced(guest, k, mid)
            [] result.kind = "Success" ->
                 IF verify(to, mid)
                 THEN Advanced(guest, k,
                        compute_new_root(to, Hash(tx.to, result.to)))
                 ELSE Rejected
            [] OTHER -> Rejected

\* Mutant: the guest passes over what the generator passed over.
Transition_Lenient(k, op) ==
  IF k # "deposits" /\ TxTransition(k, op) = Rejected
  THEN Advanced(guest, k, guest.root)
  ELSE TxTransition(k, op)

\* A dummy forced transaction is passed over without looking at its proofs.
Transition(k, op) ==
  CASE k = "deposits" -> DepositTransition(op)
    [] k = "forced" /\ op.from = DefaultHash -> Advanced(guest, k, guest.root)
    [] OTHER -> TxTransition(k, op)

guest_step(k) ==
  /\ At(guest, k)
  /\ guest' = Transition(k, Op(guest, k))
  /\ UNCHANGED <<executorVars, block, gen>>

\* The guest commits its root as postStateRoot.
guest_finish ==
  /\ AtEnd(guest)
  /\ guest' = Stopped(guest, "committed")
  /\ UNCHANGED <<executorVars, block, gen>>

\* The host compares the committed root with the block's.
check_root ==
  /\ guest.pc = "committed"
  /\ guest' = IF guest.root = block.post THEN Stopped(guest, "proved")
              ELSE Rejected
  /\ UNCHANGED <<executorVars, block, gen>>

-----------------------------------------------------------------------------
(* Composition with the executor.                                          *)

NoOps == [k \in Kinds |-> << >>]
NewBlock == [ops |-> NoOps, pre |-> EmptyRoot, post |-> EmptyRoot]

\* The executor works on a block while the prover has none in hand.
Making == gen.pc = "idle"

\* The operation becomes part of the block.
Included(k, op) ==
  /\ block' = [block EXCEPT !.ops[k] = Append(@, op)]
  /\ UNCHANGED <<gen, guest>>

execute ==
  /\ Making
  /\ \/ \E d \in Deposits : apply_deposit(d) /\ Included("deposits", d)
     \/ \E tx \in Transactions :
          \/ apply_forced_tx(tx) /\ Included("forced", tx)
          \/ apply_transaction(tx) /\ Included("txs", tx)
     \/ tree_fails /\ UNCHANGED proverVars

\* The block is queued, and the prover takes it.
seal_block ==
  /\ Making
  /\ commit_block
  /\ block' = [block EXCEPT !.pre = RootOf(leaves), !.post = RootOf(leaves')]
  /\ gen' = GenStart(RootOf(leaves))
  /\ UNCHANGED guest

\* A panic of the generator poisons the tree's mutex: neither worker gets at
\* the tree again until the process is restarted (Sequencer has that step).
\* What follows a panic here is what happens after the restart.
AttemptFailed == gen.pc \in {"failed", "panicked"} \/ guest.pc = "failed"

\* The prover worker tries the block again from the start...
retry ==
  /\ AttemptFailed
  /\ gen' = GenStart(block.pre)
  /\ guest' = GuestIdle
  /\ UNCHANGED <<executorVars, block>>

\* ...or is done with it, proved or given up.
next_block ==
  /\ AttemptFailed \/ guest.pc = "proved"
  /\ block' = NewBlock
  /\ gen' = GenIdle
  /\ guest' = GuestIdle
  /\ UNCHANGED executorVars

PipelineInit ==
  /\ ExecutorInit
  /\ block = NewBlock
  /\ gen = GenIdle
  /\ guest = GuestIdle

PipelineNext ==
  \/ execute \/ seal_block
  \/ gen_deposit \/ gen_forced \/ gen_tx \/ gen_finish
  \/ \E k \in Kinds : guest_step(k)
  \/ guest_finish \/ check_root
  \/ retry \/ next_block

PipelineSpec == PipelineInit /\ [][PipelineNext]_pipelineVars

-----------------------------------------------------------------------------
(* Properties.                                                             *)

\* The operations of kind k.
OpsOf(k) == IF k = "deposits" THEN Deposits ELSE Transactions

WalkerOK(w) ==
  /\ w.done \in [Kinds -> Nat]
  /\ \A k \in Kinds : w.done[k] <= Len(block.ops[k])

\* Types; and neither generate_proofs_for_block nor execute_transition is ever
\* past the last operation of a kind, through retries and changes of block.
PipelineTypeOK ==
  /\ DOMAIN block = {"ops", "pre", "post"}
  /\ block.ops \in [Kinds -> Seq(Deposits \cup Transactions)]
  /\ \A k \in Kinds : block.ops[k] \in Seq(OpsOf(k))
  /\ DOMAIN gen = {"pc", "root", "done", "from", "to"}
  /\ gen.pc \in {"idle", "running", "returned", "failed", "panicked"}
  /\ WalkerOK(gen)
  /\ DOMAIN gen.from = Kinds /\ DOMAIN gen.to = Kinds
  /\ DOMAIN guest = {"pc", "root", "done"}
  /\ guest.pc \in {"idle", "running", "committed", "failed", "proved"}
  /\ WalkerOK(guest)

\* The guest indexes the vectors of ProofBundle by the position of the
\* operation: the generator has pushed exactly one proof per replayed
\* operation, of its own sender and recipient, whichever operations it passed
\* over and whichever reads failed.
ProofsAligned ==
  \A k \in Kinds :
    /\ Len(gen.to[k]) = gen.done[k]
    /\ \A i \in 1..gen.done[k] : gen.to[k][i].address = block.ops[k][i].to
    /\ k # "deposits" =>
         /\ Len(gen.from[k]) = gen.done[k]
         /\ \A i \in 1..gen.done[k] : gen.from[k][i].address = block.ops[k][i].from

\* The block left the state as it was, and nothing L1 handed over was applied.
Inert ==
  /\ block.pre = block.post
  /\ block.ops["deposits"] = << >>
  /\ \A i \in DOMAIN block.ops["forced"] :
       block.ops["forced"][i].from = DefaultHash

\* generate_proofs_for_block, which replays the block without writing to the
\* tree, gets past its assertion only for a block that has no deposit and no
\* forced transaction that decodes, and that changed nothing.
BundleOnlyForInert == gen.pc = "returned" => Inert

\* Only such a block is ever proved, and only without API transactions:
\* execute_transition finds no account under a root of the state tree.
ProvedBlocksInert == guest.pc = "proved" => Inert /\ block.ops["txs"] = << >>

\* Generator, guest and executor agree whenever the guest gets to commit a
\* root: the comparison in process_and_prove_batch never refuses a proof.
GuestRootMatches == guest.pc = "committed" => guest.root = block.post

-----------------------------------------------------------------------------
(* What the code says of itself and does not do.                           *)

\* core/src/lib.rs:174: the replayed root is the executor's.
AssertionHolds == AtEnd(gen) => gen.root = block.post

\* core/src/lib.rs:139: a transaction of an unknown sender is skipped, and
\* dummy proofs keep its place, so a bundle of proofs is never refused.
BundleAccepted == gen.pc = "returned" => guest.pc # "failed"
=============================================================================
