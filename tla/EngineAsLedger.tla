--------------------------- MODULE EngineAsLedger ---------------------------
(***************************************************************************)
(* The engine's working state, seen as the ledger of module Ledger.        *)
(***************************************************************************)
EXTENDS LedgerEngine

\* The working state is a Ledger: it changes only by new accounts and whole,
\* valid transactions, whatever the interleaving and the disk's failures.
Abstract == INSTANCE Ledger WITH
    ledger <- working,
    Openings <- OpeningAccounts,
    LegLists <- {request.legs : request \in Requests},
    TransactionIds <- 1 .. Cardinality(Producers) * TxPerProducer

ImplementsLedger == Abstract!LedgerSpec

=============================================================================
