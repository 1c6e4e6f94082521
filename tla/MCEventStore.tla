---------------------------- MODULE MCEventStore ----------------------------
(***************************************************************************)
(* Two writers.  Two sales of the same shares exclude each other; a third  *)
(* event is a tax action; the import has two ledger events and a tax one.  *)
(***************************************************************************)
EXTENDS EventStore

CONSTANTS w1, w2, sellA, sellB, payTax, impBuy, impSell, impTax, ledger, tax

MCEvents == {sellA, sellB, payTax, impBuy, impSell, impTax}
MCTabOf == [e \in MCEvents |-> IF e \in {payTax, impTax} THEN tax ELSE ledger]
MCBatch == <<impBuy, impSell, impTax>>
NoBatch == <<>>
MCConflicts == {<<sellA, sellB>>, <<sellB, sellA>>}
EntryOnly == {sellA, sellB, payTax}
BesideImport == {sellA, payTax}
=============================================================================
