------------------------------- MODULE L1Inbox -------------------------------
(***************************************************************************)
(* What the rollup bridge promises about its two L1 message streams,       *)
(* whatever batches are submitted to it: a stream only grows, and the      *)
(* batches that reach finality consume its messages in order, without a    *)
(* gap and without taking a message twice.  RollupBridge implements it.    *)
(***************************************************************************)
EXTENDS Integers, Sequences

CONSTANTS
  Streams,   \* the message streams (deposits, forced transactions)
  Messages   \* the messages that can be posted

VARIABLES
  inbox,     \* inbox[s]: every message ever posted on stream s, in order
  consumed   \* consumed[s]: the messages finalized batches carried, in order

inboxVars == <<inbox, consumed>>

InboxInit ==
  /\ inbox = [s \in Streams |-> << >>]
  /\ consumed = [s \in Streams |-> << >>]

Post(s, m) ==
  /\ inbox' = [inbox EXCEPT ![s] = Append(@, m)]
  /\ UNCHANGED consumed

\* A finalized batch takes the next messages of each stream, possibly none.
Consume ==
  /\ consumed' = [s \in Streams |-> consumed'[s]]
  /\ \A s \in Streams :
       \E n \in Len(consumed[s])..Len(inbox[s]) :
         consumed'[s] = SubSeq(inbox[s], 1, n)
  /\ UNCHANGED inbox

InboxNext ==
  \/ \E s \in Streams, m \in Messages : Post(s, m)
  \/ Consume

InboxSpec == InboxInit /\ [][InboxNext]_inboxVars
=============================================================================
