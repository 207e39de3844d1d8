---------------------------- MODULE MCAccounts ----------------------------
(* Instances of Accounts for TLC: clients are interchangeable, and so are  *)
(* nicknames and passwords.                                                *)
EXTENDS Accounts, TLC

AccountSymmetry ==
  Permutations(Clients) \cup Permutations(Nicknames) \cup Permutations(Passwords)
=============================================================================
