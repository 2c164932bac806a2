---------------------------- MODULE InvoicePayMC ----------------------------
(* TLC instances of InvoicePay. *)
EXTENDS InvoicePay, TLC

\* A price with no deposit, one with a deposit, and an empty draft.
MCPrices == {<<0, 0>>, <<3, 0>>, <<3, 1>>}

\* One price, to keep the behaviours of the liveness run few.
MCPriceDeposit == {<<3, 1>>}

SessionSymmetry == Permutations(Sessions)
Symmetry == SessionSymmetry \cup Permutations(Payers) \cup Permutations(Hooks)
=============================================================================
