----------------------------- MODULE MCAccounts -----------------------------
EXTENDS Accounts

mcDuties == [h1 |-> {"login", "refresh", "delete", "address"},
             h2 |-> {"refresh", "amend", "delete", "address"}]
============================================================================
