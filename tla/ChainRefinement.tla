-------------------------- MODULE ChainRefinement ---------------------------
(***************************************************************************)
(* ChainState implements Ledger: what a reader of the database sees, with  *)
(* all steps of SetBestChain, Reorganize, failing commits, crashes and     *)
(* startup, is a ledger that moves from block to block.                    *)
(***************************************************************************)
EXTENDS ChainState

L == INSTANCE Ledger WITH
        best    <- disk.best,
        utxo    <- disk.utxo,
        txindex <- disk.txindex,
        pin     <- pindexLastHardenedCheckpoint,
        damaged <- "split" \in scars,
        UtxoOf  <- Unspent,
        IndexOf <- Located

\* The database moves in single steps from the ledger of one block (its UTXO set
\* and transaction index, exactly) to that of a block with no less trust that
\* keeps the pinned checkpoint, although SetBestChain and Reorganize connect and
\* disconnect block by block, may fail or be cut short, and resume at startup.
ImplementsLedger == L!Spec

=============================================================================
