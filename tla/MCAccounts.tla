---------------------------- MODULE MCAccounts ----------------------------
(* Instances of Accounts for TLC. *)
EXTENDS Accounts

(* Disable, disable and demote at once, undo both. *)
MCChanges == {<<None, "disabled">>, <<"user", "disabled">>, <<"admin", "active">>}

(* Any two requests, and a third that presents a refresh or a reset token. *)
MCMenu == <<Operations, Operations, {"refresh", "reset"}>>

(* Two administrators who change each other's account. *)
MCUpdates == <<{"update"}, {"update"}, {}>>
MCDemotions == {<<"user", None>>}
=============================================================================
