------------------------------ MODULE Gateway ------------------------------
(***************************************************************************)
(* go/internal/gateway: what each adapter can answer.  An answer says what *)
(* the adapter reports (success), how much money the provider moved        *)
(* (moved) and what the provider remembers of the idempotency key (memo).  *)
(***************************************************************************)
EXTENDS PaymentTypes, Router

CONSTANTS
  UnitsPerCent, \* amounts are counted in units of 1/UnitsPerCent cent (100)
  Word          \* int64 holds Word values (2^64)

ASSUME GatewayAssumption == UnitsPerCent \in Nat \ {0} /\ Word \in Nat \ {0}

-----------------------------------------------------------------------------
(* Charges *)

Declined == [success |-> FALSE, moved |-> 0, memo |-> {}]
Charged(amount) == [success |-> TRUE, moved |-> amount, memo |-> {}]

\* Mutant: a random failure can hit after the charge.
MockProcessPaymentLateFailure(amount) ==
  {Declined, Charged(amount), [Charged(amount) EXCEPT !.success = FALSE]}

\* A declined test card or a random failure, or a charge.  The mock ignores
\* the idempotency key.
MockProcessPayment(amount) == {Declined, Charged(amount)}

\* Enabled or not, the PayPal adapter reports a failure.
PayPalProcessPayment == {Declined}

\* Mutant: half a cent is rounded up.
MinorUnitsRounded(amount) ==
  (2 * amount + UnitsPerCent) \div (2 * UnitsPerCent)

\* decimal.IntPart keeps the low bits of a number that does not fit an int64.
IntPart(n) ==
  LET low == n % Word IN IF low < Word \div 2 THEN low ELSE low - Word

\* Amount.Shift(2).IntPart(): the cents, for a positive amount in a currency of
\* two decimal places; what is left of a cent is cut off.
MinorUnits(amount) == IntPart(amount \div UnitsPerCent)

\* Stripe remembers, per idempotency key, the parameters and the outcome of
\* the call that first executed with it.  Its amounts are in cents.
Memo == [key : Texts, amount : Int, paid : BOOLEAN]

\* The call without a key, or with a key Stripe sees for the first time: it
\* is declined, or executes and succeeds; the adapter reports a failure when
\* the answer is lost or the intent is not (yet) in status succeeded.
StripeExecutes(cents, memo) ==
  {[success |-> s, moved |-> cents * UnitsPerCent,
    memo |-> {m \in memo : m.paid}] : s \in BOOLEAN}
  \cup {[success |-> FALSE, moved |-> 0, memo |-> {m \in memo : ~m.paid}]}

\* Mutant: the idempotency key is not passed on.
StripeProcessPaymentKeyless(rawKey, amount, memory) ==
  {Declined} \cup StripeExecutes(MinorUnits(amount), {})

\* The key travels as an HTTP header, so Stripe sees it trimmed; a blank key
\* is not sent.  A key used before replays the first outcome for the same
\* parameters and is an error for others.  "Declined" is also every call that
\* fails before Stripe executes it: a missing payment method, an amount that is
\* not positive.
StripeProcessPayment(rawKey, amount, memory) ==
  LET key == Trim[rawKey]
      cents == MinorUnits(amount)
      prior == {m \in memory : m.key = key}
      fresh == {[key |-> key, amount |-> cents, paid |-> b] : b \in BOOLEAN}
  IN {Declined} \cup
     IF cents <= 0 THEN {}
     ELSE IF key = Blank THEN StripeExecutes(cents, {})
     ELSE IF prior = {} THEN StripeExecutes(cents, fresh)
     ELSE {[success |-> TRUE, moved |-> 0, memo |-> {}]
             : m \in {n \in prior : n.paid /\ n.amount = cents}}

ProcessPayment(gateway, rawKey, amount, memory) ==
  CASE gateway = "mock" -> MockProcessPayment(amount)
    [] gateway = "stripe" -> StripeProcessPayment(rawKey, amount, memory)
    [] gateway = "paypal" -> PayPalProcessPayment

-----------------------------------------------------------------------------
(* Refunds *)

\* The mock refunds or fails at random; the other adapters, enabled or not,
\* report a failure.
MockProcessRefund == {TRUE, FALSE}
StripeProcessRefund == {FALSE}
PayPalProcessRefund == {FALSE}

\* Whether the gateway refunded: the answers an adapter can give.
ProcessRefund(gateway) ==
  CASE gateway = "mock" -> MockProcessRefund
    [] gateway = "stripe" -> StripeProcessRefund
    [] gateway = "paypal" -> PayPalProcessRefund
=============================================================================
