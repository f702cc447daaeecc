----------------------------- MODULE MCStateTrie -----------------------------
(***************************************************************************)
(* One address read from two words (the word 1 aliases address 0), with    *)
(* two slots, balances and values below 2, so that a credit of 1 wraps.    *)
(* Four journal entries hold the deletion of an account with both its      *)
(* slots and a write before or after it; two snapshots nest.               *)
(***************************************************************************)
EXTENDS StateTrie
=============================================================================
