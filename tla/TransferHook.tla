------------------------------ MODULE TransferHook ------------------------------
(***************************************************************************)
(* The transfer-hook program (src/programs/transfer-hook): Token-2022      *)
(* calls it on every transfer of CRIME, FRAUD and PROFIT, and it refuses   *)
(* transfers between two accounts that are not on its whitelist.  Minting  *)
(* and burning do not reach it.                                            *)
(***************************************************************************)
EXTENDS Integers

VARIABLES
  hook_authority,  \* WhitelistAuthority.authority, "none" before it exists
  whitelist        \* addresses with a WhitelistEntry

hookVars == <<hook_authority, whitelist>>

InitHook == hook_authority = "none" /\ whitelist = {}

initialize_authority(signer) ==
  /\ hook_authority = "none"
  /\ hook_authority' = signer
  /\ UNCHANGED whitelist

\* Succeeds without effect once the authority is burned.
burn_authority(signer) ==
  /\ hook_authority \in {signer, "burned"}
  /\ hook_authority' = "burned"
  /\ UNCHANGED whitelist

transfer_authority(signer, new_authority) ==
  /\ hook_authority = signer
  /\ hook_authority' = new_authority
  /\ UNCHANGED whitelist

\* The entry's account is created, so it cannot be added twice.
add_whitelist_entry(signer, address) ==
  /\ hook_authority = signer
  /\ address \notin whitelist
  /\ whitelist' = whitelist \union {address}
  /\ UNCHANGED hook_authority

TransferAllowed(source, destination, amount) ==
  /\ amount > 0
  /\ source \in whitelist \/ destination \in whitelist
================================================================================
