---------------------------- MODULE MCAccounts -----------------------------
(***************************************************************************)
(* A small instance of Accounts: an administrator and one account besides. *)
(***************************************************************************)
EXTENDS Accounts

CONSTANTS root, ann, bob, p1, p2

Seeded == [u \in Users |-> IF u = root THEN NewUser(p1, "admin", TRUE)
                          ELSE IF u = ann THEN NewUser(p1, "admin", FALSE) ELSE NULL]

\* Disable, or demote together with a new password.
Form(active, role, pwd) == [active |-> active, role |-> role, pwd |-> pwd]
Forms == {Form(FALSE, NULL, NULL), Form(NULL, "viewer", p2)}
=============================================================================
