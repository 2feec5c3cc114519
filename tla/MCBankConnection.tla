--------------------------- MODULE MCBankConnection ---------------------------
(* Instances of BankConnection for TLC: two links to one bank, two request  *)
(* slots, two accounts.                                                     *)
EXTENDS BankConnection
CONSTANTS k1, k2, r1, r2, a1, a2

MCConns == {k1, k2}
MCRequests == {r1, r2}
MCAccounts == {a1, a2}
=============================================================================
