----------------------------- MODULE MCAccounts -----------------------------
EXTENDS Accounts, TLC
CONSTANTS e1, e2, g1, g2, x1, x2, r1, r2
\* g1 changes its email; g2 gets the old or the new one.
Mails == (g1 :> {e1, e2}) @@ (g2 :> {e2})
=============================================================================
