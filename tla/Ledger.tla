------------------------------- MODULE Ledger -------------------------------
(***************************************************************************)
(* What the chain database of a node promises to whoever reads it, the     *)
(* wallet, the staker and the RPC server alike.  It is the ledger of one   *)
(* block of the tree: it moves in a single step from the ledger of one     *)
(* block to that of another, never to less trust and never off the pinned  *)
(* checkpoint.  How the move is computed (blocks disconnected and          *)
(* connected one at a time, batches, caches, crashes) is not visible.      *)
(*                                                                         *)
(* The promise ends with damage, after which nothing but the order of      *)
(* trust and the pin is promised any more.                                 *)
(***************************************************************************)
EXTENDS Integers

CONSTANTS
    Block, Genesis, NoBlock,
    nChainTrust,    \* [Block -> Nat]
    chain,          \* [Block -> SUBSET Block], a block and its ancestors
    UtxoOf(_),      \* the unspent outputs of the chain that ends in a block
    IndexOf(_)      \* where the transactions of that chain are

VARIABLES
    best, utxo, txindex,
    pin,            \* the checkpoint the ledger may not leave, or NoBlock
    damaged

ledger == <<best, utxo, txindex>>
vars == <<ledger, pin, damaged>>

Init ==
    /\ best = Genesis
    /\ utxo = UtxoOf(Genesis) /\ txindex = IndexOf(Genesis)
    /\ pin = Genesis
    /\ damaged = FALSE

\* A ledger that ends in b may take the place of this one.
MayReplace(b) ==
    /\ nChainTrust[b] >= nChainTrust[best]
    /\ pin \in chain[best] => pin \in chain[b]

\* The chain that ends in b becomes the best chain, all of it at once.
Switch(b) ==
    /\ ~damaged
    /\ MayReplace(b)
    /\ best' = b
    /\ utxo' = UtxoOf(b) /\ txindex' = IndexOf(b)
    /\ UNCHANGED <<pin, damaged>>

\* The process stops, which forgets the pin, or starts, which chooses one.
Pin(c) ==
    /\ pin' = c
    /\ UNCHANGED <<ledger, damaged>>

\* Memory goes ahead of the ledger.
Damage ==
    /\ damaged' = TRUE
    /\ UNCHANGED <<ledger, pin>>

\* What is left of the promise: only best can be relied on.
SwitchDamaged(b) ==
    /\ damaged
    /\ MayReplace(b)
    /\ best' = b
    /\ UNCHANGED <<pin, damaged>>

Next ==
    \/ \E b \in Block : Switch(b) \/ SwitchDamaged(b)
    \/ \E c \in Block \cup {NoBlock} : Pin(c)
    \/ Damage

Spec == Init /\ [][Next]_vars

=============================================================================
