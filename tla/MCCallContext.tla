--------------------------- MODULE MCCallContext ---------------------------
(***************************************************************************)
(* A sender, a contract with code and storage, a precompile, and an        *)
(* address contracts are created at, twice if the first is destroyed.      *)
(***************************************************************************)
EXTENDS CallContext

CONSTANTS s, c, pre, new

MCWorld0 ==
  [acc  |-> [a \in Address |->
      CASE a = s -> [balance |-> 1, nonce |-> TRUE, code |-> FALSE]
        [] a = c -> [balance |-> 1, nonce |-> TRUE, code |-> TRUE]
        [] OTHER -> NoAccount],
   slot |-> [a \in Address |-> a = c]]
=============================================================================
