------------------------------ MODULE Retryable ------------------------------
(***************************************************************************)
(* pkg/c2seq/retryable.go: retryable tickets, their fee quote in checked   *)
(* 64- and 256-bit arithmetic, and their redemption.                       *)
(*                                                                         *)
(* A ticket's ID is a hash of the sender, the target, the call value, the  *)
(* data and the gas limit: here the tuple of those.  Two submissions with  *)
(* the same five have the same ID, and the later replaces the earlier.     *)
(*                                                                         *)
(* created and emitted are history variables: how often an ID was created, *)
(* and how many transactions its redemptions have produced.                *)
(***************************************************************************)
EXTENDS Integers, FiniteSets

CONSTANTS
  B,                 \* 2^64: gas amounts, and the limbs of a 256-bit word
  Overhead,          \* retryableOverheadGas
  PerByte,           \* retryablePerByteGas
  Params,            \* the submissions clients may make
  Redeems,           \* gas limits and fees manual redemptions offer
  NoTicket,          \* the map tickets has no entry
  MaxCreates         \* bound: submissions

Word == B * B * B * B
Words == 0..(Word - 1)
Gas == 0..(B - 1)

ParamFields ==
  [call : [from : Nat, to : Nat, value : Words, gasLimit : Gas, dataLen : Gas],
   maxFee : Words, baseFee : Words, maxSubmission : Words, deposit : Words, provided : Gas]

ASSUME RetryableAssumption ==
  /\ B \in Nat \ {0, 1} /\ Overhead \in Gas /\ PerByte \in Gas
  /\ Params \subseteq ParamFields
  /\ Redeems \subseteq [gasLimit : Gas, maxFee : Words]
  /\ MaxCreates \in Nat

VARIABLES tickets, created, emitted

vars == <<tickets, created, emitted>>

Err == -1            \* the error result of a checked operation

-----------------------------------------------------------------------------
SafeAddGas(x, y) == IF x + y >= B THEN Err ELSE x + y
SafeSubGas(x, y) == IF x < y THEN Err ELSE x - y
SafeMulGas(x, y) == IF (x * y) \div B # 0 THEN Err ELSE x * y

\* Mutant of addU256Checked: the carry is looked for in the wrong operand.
addU256CheckedLoose(x, y) ==
  LET sum == (x + y) % Word IN IF y # 0 /\ sum = 0 THEN Err ELSE sum

\* A wrapped sum is smaller than either operand.
addU256Checked(x, y) ==
  LET sum == (x + y) % Word IN IF y # 0 /\ sum < x THEN Err ELSE sum

\* The i-th limb of a word, lowest first.
Limb(x, i) == (x \div <<1, B, B * B, B * B * B>>[i]) % B

\* Schoolbook multiplication of four limbs by one, lowest first.  next(i, carry)
\* is what goes out of limb i; it must fit a limb, and nothing may be left over.
mulU256U64Checked(x, n) ==
  LET hi(i) == (Limb(x, i) * n) \div B
      lo(i) == (Limb(x, i) * n) % B
      sum(i, carry) == (lo(i) + carry) % B
      next(i, carry) == hi(i) + ((lo(i) + carry) \div B)
      c1 == next(1, 0)
      c2 == next(2, c1)
      c3 == next(3, c2)
      c4 == next(4, c3)
  IN  IF (\E c \in {c1, c2, c3, c4} : c >= B) \/ c4 # 0
      THEN Err
      ELSE sum(1, 0) + B * sum(2, c1) + B * B * sum(3, c2) + B * B * B * sum(4, c3)

submissionGas(dataLen) ==
  LET n == SafeMulGas(PerByte, dataLen) IN IF n = Err THEN Err ELSE SafeAddGas(Overhead, n)

\* The checks of a quote, in the code's order; each may be reached only when
\* the ones before it passed.  The result is the submission gas, or Err.
quoteRetryable(p) ==
  LET subGas == submissionGas(p.call.dataLen)
      subFee == mulU256U64Checked(p.baseFee, subGas)
      exec == mulU256U64Checked(p.maxFee, p.call.gasLimit)
      fees == addU256Checked(subFee, exec)
      total == addU256Checked(fees, p.call.value)
  IN  IF /\ subGas # Err
         /\ subFee # Err /\ subFee <= p.maxSubmission
         /\ exec # Err
         /\ fees # Err
         /\ total # Err /\ p.deposit >= total
         /\ SafeSubGas(p.provided, subGas) # Err
      THEN subGas ELSE Err

ticketID(p) == p.call

-----------------------------------------------------------------------------
ID == {ticketID(p) : p \in Params}

Init ==
  /\ tickets = [id \in ID |-> NoTicket]
  /\ created = [id \in ID |-> 0]
  /\ emitted = [id \in ID |-> 0]

Creations == {c \in ID \X (1..MaxCreates) : c[2] <= created[c[1]]}
Emit(id) == emitted' = [emitted EXCEPT ![id] = @ + 1]

\* A submission is redeemed at once if the gas that is left covers its limit.
Create(p) ==
  LET id == ticketID(p)
      left == SafeSubGas(p.provided, quoteRetryable(p))
      auto == p.call.gasLimit # 0 /\ left >= p.call.gasLimit IN
  /\ Cardinality(Creations) < MaxCreates
  /\ quoteRetryable(p) # Err
  /\ tickets' = [tickets EXCEPT ![id] =
       [params |-> p, subGas |-> quoteRetryable(p), gasLimit |-> p.call.gasLimit,
        maxFee |-> p.maxFee, status |-> IF auto THEN "AutoRedeemed" ELSE "Created"]]
  /\ created' = [created EXCEPT ![id] = @ + 1]
  /\ IF auto THEN Emit(id) ELSE UNCHANGED emitted

\* Mutant of Redeemable: the status is not looked at.
AnyTicket(id) == tickets[id] # NoTicket

Redeemable(id) == tickets[id] # NoTicket /\ tickets[id].status = "Created"

AutoRedeem(id) ==
  /\ Redeemable(id)
  /\ tickets[id].gasLimit # 0
  /\ tickets' = [tickets EXCEPT ![id].status = "AutoRedeemed"]
  /\ Emit(id)
  /\ UNCHANGED created

\* The redeemer brings gas limit and fee; their product must not overflow.
ManualRedeem(id, r) ==
  /\ mulU256U64Checked(r.maxFee, r.gasLimit) # Err
  /\ Redeemable(id)
  /\ r.gasLimit # 0
  /\ tickets' = [tickets EXCEPT ![id] =
       [@ EXCEPT !.gasLimit = r.gasLimit, !.maxFee = r.maxFee, !.status = "ManualRedeemed"]]
  /\ Emit(id)
  /\ UNCHANGED created

Next ==
  \/ \E p \in Params : Create(p)
  \/ \E id \in ID : AutoRedeem(id)
  \/ \E id \in ID, r \in Redeems : ManualRedeem(id, r)

Spec == Init /\ [][Next]_vars

-----------------------------------------------------------------------------
\* The checked operations of the quote are exact or fail: no ticket exists whose
\* deposit is short of its cost in unbounded integers, or whose fee exceeds the
\* submitter's cap, or whose gas does not pay for the submission.
QuoteIsExact ==
  \A id \in ID : tickets[id] # NoTicket =>
    LET p == tickets[id].params
        subGas == Overhead + PerByte * p.call.dataLen IN
    /\ p.baseFee * subGas <= p.maxSubmission
    /\ p.baseFee * subGas + p.maxFee * p.call.gasLimit + p.call.value <= p.deposit
    /\ subGas <= p.provided

\* A submission is redeemed at most once, automatically or by hand.
OncePerSubmission == \A id \in ID : emitted[id] <= created[id]
=============================================================================
