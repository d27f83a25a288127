---------------------------- MODULE PaymentTypes ----------------------------
(***************************************************************************)
(* The vocabulary shared by the payment and the refund service: the        *)
(* statuses of go/internal/payment/model.go, the payment row of the        *)
(* "payments" table and the text conversion applied to idempotency keys.   *)
(***************************************************************************)
EXTENDS Integers

CONSTANTS
  Texts,   \* key strings a client can send, blank and padded ones included
  Trim,    \* strings.TrimSpace as a function on Texts
  Blank,   \* the empty string, which is also SQL NULL (see nullString)
  Orders   \* order ids

(***************************************************************************)
(* TrimSpace maps texts to texts, is idempotent and leaves "" alone.       *)
(***************************************************************************)
ASSUME TrimAssumption ==
  /\ Blank \in Texts
  /\ Trim \in [Texts -> Texts]
  /\ \A t \in Texts : Trim[Trim[t]] = Trim[t]
  /\ Trim[Blank] = Blank

PaymentStatus ==
  {"PENDING", "PROCESSING", "COMPLETED", "FAILED",
   "REFUND_PENDING", "REFUNDED", "REFUND_FAILED"}

RefundStatus == {"PENDING", "PROCESSING", "COMPLETED", "FAILED"}

\* Mutant: the column is never set.
nullStringDropped(t) == Blank

\* The column value stored for a text: trimmed, with NULL for a blank one.
nullString(t) == Trim[t]

\* The HTTP status of an error: of a refused request, of the service's own
\* errors, of the router, and of everything else.
APIErrorFromErr(err) ==
  CASE err = "PaymentNotFound" -> "404"
    [] err \in {"InvalidRequest", "RefundNotAllowed", "RefundExceedsRemaining",
                "GatewayUnavailable"} -> "400"
    [] err = "Other" -> "500"

\* The columns of a payment the properties tell apart.  "absent" is the
\* status of an id that has no row.
PaymentRow ==
  [status : PaymentStatus \cup {"absent"}, order : Orders \cup {Blank},
   key : Texts, amount : Int, gateway : {"mock", "stripe", "paypal"}, created : Int]

NoRow == [status |-> "absent", order |-> Blank, key |-> Blank,
          amount |-> 0, gateway |-> "mock", created |-> 0]

\* The rows that exist in a table.
Rows(table) == {p \in DOMAIN table : table[p].status # "absent"}
=============================================================================
