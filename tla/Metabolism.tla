----------------------------- MODULE Metabolism -----------------------------
(***************************************************************************)
(* The resource ledger and its enforcer (src/metabolism/).  balances maps  *)
(* each seeded node to what is left of its ceiling; a node outside its     *)
(* domain is undeclared.                                                   *)
(***************************************************************************)
EXTENDS Policy

CONSTANTS
    Nodes,            \* node identifiers callers may name
    Ceiling,          \* the quotas the manifest seeded: node -> ceiling
    Amounts           \* the amounts callers may ask for

ASSUME MetabolismConstants ==
    /\ DOMAIN Ceiling \subseteq Nodes
    /\ \A n \in DOMAIN Ceiling : Ceiling[n] \in Nat
    /\ Amounts \subseteq Nat

VARIABLE balances

LedgerInit == balances = Ceiling

\* Mutant: the subtraction wraps to the u64 above zero instead of failing.
CanDeductUnchecked(node, amount) == node \in DOMAIN balances

\* Ledger::deduct succeeds for a declared node whose balance covers amount.
CanDeduct(node, amount) ==
    node \in DOMAIN balances /\ amount <= balances[node]

Charge(node, amount) ==
    balances' = IF CanDeduct(node, amount)
                THEN [balances EXCEPT ![node] = @ - amount]
                ELSE balances

\* Mutant: the ledger is charged first and the full log noticed afterwards.
DeductChargeFirst(node, amount) ==
    LET verdict == IF CanDeduct(node, amount) THEN "Ok" ELSE "QuotaExceeded"
    IN  /\ Charge(node, amount)
        /\ result' = IF IsFull THEN "AuditFull" ELSE verdict
        /\ AppendEvent("ResourceDeduction", node, verdict, result', <<amount>>)

\* QuotaEnforcer::deduct.  A full log is refused before the ledger is even
\* consulted, so that no deduction can go unrecorded.
Deduct(node, amount) ==
    LET verdict == IF CanDeduct(node, amount) THEN "Ok" ELSE "QuotaExceeded"
    IN  IF IsFull
        THEN /\ result' = "AuditFull"
             /\ UNCHANGED <<audit, permits, balances>>
        ELSE /\ Charge(node, amount)
             /\ result' = verdict
             /\ AppendEvent("ResourceDeduction", node, verdict, verdict,
                            <<amount>>)
=============================================================================
