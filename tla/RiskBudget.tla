----------------------------- MODULE RiskBudget -----------------------------
(***************************************************************************)
(* What the risk ledger promises, without clocks, expiry, owners or        *)
(* snapshot identifiers: a budget of 2% of equity from which amounts are   *)
(* granted once per key.  A granted amount stays counted until the account *)
(* is published, and it is granted only if everything counted still fits.  *)
(***************************************************************************)
EXTENDS Integers, Functions

CONSTANTS Key, Equity, Exposure, RiskAmount, None

VARIABLES
    account,   \* the last published [equity, risk], or None
    open,      \* keys whose amount is counted
    spent,     \* keys that were ever granted
    amount     \* what was granted to each of them, 0 if nothing

budgetVars == <<account, open, spent, amount>>

Counted(K) == SumFunctionOnSet(amount, K)

Init ==
    /\ account = None
    /\ open = {}
    /\ spent = {}
    /\ amount = [k \in Key |-> 0]

\* The account is published; whatever the new exposure covers is let go.
Publish ==
    /\ account' \in [equity : Equity, risk : Exposure]
    /\ open' \in SUBSET open
    /\ UNCHANGED <<spent, amount>>

\* m cents fit beside the published exposure and everything still counted.
Grant(k, m) ==
    /\ account # None
    /\ k \in Key \ spent
    /\ 50 * (account.risk + Counted(open) + m) <= account.equity + 50
    /\ open' = open \union {k}
    /\ spent' = spent \union {k}
    /\ amount' = [amount EXCEPT ![k] = m]
    /\ UNCHANGED account

Next == Publish \/ \E k \in Key, m \in RiskAmount : Grant(k, m)

Spec == Init /\ [][Next]_budgetVars
=============================================================================
