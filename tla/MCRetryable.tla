----------------------------- MODULE MCRetryable -----------------------------
(***************************************************************************)
(* Limbs below 3, so words below 81: fees up to 80 overflow the products   *)
(* and sums of a quote.  The submission costs one gas and one per byte.    *)
(***************************************************************************)
EXTENDS Retryable

\* Two pairs of a cap on the submission fee and a deposit; the calls repeat with
\* other fees, so that two submissions may have one ID.
Caps == {<<40, 80>>, <<80, 41>>}
MCParams ==
  {[call |-> [from |-> 0, to |-> 0, value |-> v, gasLimit |-> g, dataLen |-> d],
    maxFee |-> f, baseFee |-> l, maxSubmission |-> c[1], deposit |-> c[2], provided |-> w] :
      v \in {0, 80}, g \in {0, 1, 2}, d \in {0, 1}, f \in {1, 41},
      l \in {0, 41}, c \in Caps, w \in {1, 2}}

MCRedeems == {[gasLimit |-> g, maxFee |-> f] : g \in 0..2, f \in {1, 40, 41}}
=============================================================================
