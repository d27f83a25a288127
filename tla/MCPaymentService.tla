-------------------------- MODULE MCPaymentService --------------------------
(***************************************************************************)
(* Small instances of PaymentService for TLC.                              *)
(***************************************************************************)
EXTENDS PaymentService, TLC

\* Request names carry no meaning of their own.
MCSymmetry == Permutations(Requests)

\* A padded copy of one key and a key longer than its column.
MCTexts == {"", "k1", " k1", "k2", "long"}
MCTrim == [t \in MCTexts |-> IF t = " k1" THEN "k1" ELSE t]
MCOversized == {"long"}
MCOrders == {"o1", "o2"}

MCNames == {"", "mock", "MOCK", "stripe", "paypal", "bitcoin"}
MCLower == [n \in MCNames |-> IF n = "MOCK" THEN "mock" ELSE n]

\* A payment of order o, keyed by the X-Idempotency-Key header.
Pay(o, k, g, a) ==
  [valid |-> TRUE, order |-> o, amount |-> a, gateway |-> g,
   xHeader |-> k, header |-> "", body |-> ""]
PayByBody(o, k, g) == [Pay(o, "", g, 2) EXCEPT !.body = k]
PayByOldHeader(o, k, g) == [Pay(o, "", g, 2) EXCEPT !.header = k]

\* Every kind of key and gateway, two orders, requests that are refused, and,
\* with two units to the cent, amounts of no cent, one cent, one and a half and
\* two, and one of nine, which no column holds and which is one in three bits.
MCMixed ==
  {Pay("o1", "k1", "MOCK", 3), Pay("o2", "k1", "MOCK", 2),
   Pay("o1", "", "MOCK", 1), Pay("o1", "long", "MOCK", 2),
   Pay("o1", "k1", "stripe", 1), Pay("o1", "k1", "stripe", 2),
   Pay("o1", "k1", "stripe", 3), Pay("o1", "k1", "stripe", 4),
   Pay("o1", "k1", "stripe", 18),
   PayByBody("o1", " k1", "MOCK"), PayByOldHeader("o1", "k2", "stripe"),
   Pay("o1", "k1", "paypal", 2), Pay("o1", "k1", "bitcoin", 2),
   Pay("o1", "", "", 2), Pay("o1", "", "MOCK", 0),
   [Pay("o1", "", "MOCK", 1) EXCEPT !.valid = FALSE]}

\* Well-formed requests, keyed or not, to gateways that can charge.
MCDuplicates ==
  {Pay(o, k, g, 2) : o \in MCOrders, k \in {"", "k1"}, g \in {"MOCK", "stripe"}}

\* Duplicates of one key for one order on the mock gateway.
MCSameKey == {Pay("o1", "k1", "MOCK", 2)}

\* The key of the header, repeated with a space in the body.
MCPadded == {Pay("o1", "k1", "MOCK", 2), PayByBody("o1", " k1", "MOCK")}

\* Attempts for one order with a key of their own each, or none.
MCAttempts == {Pay("o1", "", "MOCK", 2)}
=============================================================================
