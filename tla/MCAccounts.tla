----------------------------- MODULE MCAccounts -----------------------------
(* The built-in admin and one other user.                                   *)
EXTENDS Accounts

EmailOf == [u \in Ids |-> IF u = "root" THEN "boot" ELSE "ann"]
=============================================================================
