------------------------------ MODULE MCServer ------------------------------
(***************************************************************************)
(* Small instances of Server for TLC.                                      *)
(***************************************************************************)
EXTENDS Server

MCGatewayNames == {"", "mock", "Stripe", "stripe", "paypal"}
MCLower == [n \in MCGatewayNames |-> IF n = "Stripe" THEN "stripe" ELSE n]
MCAtoi == [t \in {"8084", "70000"} |-> IF t = "8084" THEN 8084 ELSE 70000]

Env(port, default, mock, stripe, key) ==
  [SERVER_PORT |-> port, PAYMENT_GATEWAY_DEFAULT |-> default,
   MOCK_GATEWAY_ENABLED |-> mock, STRIPE_ENABLED |-> stripe,
   STRIPE_API_KEY |-> key, PAYPAL_ENABLED |-> "true",
   PAYPAL_CLIENT_ID |-> "id", PAYPAL_CLIENT_SECRET |-> ""]

\* Nothing is set; texts that are no booleans and a port that is no number; the
\* mock; Stripe by default; a key and no switch; a port that cannot be bound.
MCEnvironments ==
  {Env("", "", "", "", ""), Env("eighty", "", "yes", "on", "key"),
   Env("8084", "", "true", "true", ""), Env("", "Stripe", "0", "1", "key"),
   Env("70000", "", "true", "false", "key")}
=============================================================================
