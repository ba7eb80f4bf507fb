------------------------- MODULE SingleUseMandate -------------------------
(***************************************************************************)
(* What an approval promises: a mandate is either voided or spent, never   *)
(* both; only a spent mandate changes the user's finances, once; and the   *)
(* receipt is for that change.                                             *)
(***************************************************************************)
EXTENDS Naturals

VARIABLES
  standing,   \* "open", "void" or "spent"
  changed,    \* how many financial changes were made under the mandate
  receipted   \* whether the receipt of the change exists

ledger == <<standing, changed, receipted>>

SInit == standing = "open" /\ changed = 0 /\ receipted = FALSE

\* Revoked, expired, or found stale before use.
Void == standing = "open" /\ standing' = "void" /\ UNCHANGED <<changed, receipted>>

Spend == standing = "open" /\ standing' = "spent" /\ UNCHANGED <<changed, receipted>>

Change == standing = "spent" /\ changed = 0 /\ changed' = 1 /\ UNCHANGED <<standing, receipted>>

IssueReceipt ==
  /\ changed = 1 /\ ~receipted
  /\ receipted' = TRUE
  /\ UNCHANGED <<standing, changed>>

SNext == Void \/ Spend \/ Change \/ IssueReceipt

SSpec == SInit /\ [][SNext]_ledger
=============================================================================
