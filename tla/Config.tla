------------------------------- MODULE Config -------------------------------
(***************************************************************************)
(* go/internal/config/config.go: what the process makes of its             *)
(* environment, for the settings that decide whether it starts and through *)
(* which gateways it moves money.  An environment maps the names of        *)
(* variables to texts; a variable that is not set has the empty text.      *)
(***************************************************************************)
EXTENDS Integers

CONSTANTS
  Unset, \* the empty text
  Atoi   \* strconv.Atoi, as a function on the texts that are integers

\* strconv.ParseBool
TrueTexts == {"1", "t", "T", "TRUE", "true", "True"}
FalseTexts == {"0", "f", "F", "FALSE", "false", "False"}

ASSUME ConfigAssumption ==
  /\ Unset \notin DOMAIN Atoi \cup TrueTexts \cup FalseTexts
  /\ \A t \in DOMAIN Atoi : Atoi[t] \in Int

stringEnv(text, def) == IF text = Unset THEN def ELSE text

intEnv(text, def) == IF text \in DOMAIN Atoi THEN Atoi[text] ELSE def

\* Mutant: whatever is set and is not a "no" means yes.
boolEnvLenient(text, def) ==
  IF text = Unset THEN def ELSE text \notin FalseTexts

\* A text that is not a boolean counts as not set.
boolEnv(text, def) ==
  IF text \in TrueTexts THEN TRUE
  ELSE IF text \in FalseTexts THEN FALSE
  ELSE def

Load(env) ==
  [serverPort   |-> intEnv(env.SERVER_PORT, 8084),
   default      |-> stringEnv(env.PAYMENT_GATEWAY_DEFAULT, "mock"),
   mock         |-> boolEnv(env.MOCK_GATEWAY_ENABLED, FALSE),
   stripe       |-> boolEnv(env.STRIPE_ENABLED, FALSE),
   stripeKey    |-> stringEnv(env.STRIPE_API_KEY, Unset),
   paypal       |-> boolEnv(env.PAYPAL_ENABLED, FALSE),
   paypalId     |-> stringEnv(env.PAYPAL_CLIENT_ID, Unset),
   paypalSecret |-> stringEnv(env.PAYPAL_CLIENT_SECRET, Unset)]

\* The adapters main() enables: asked for, and with their credentials.
EnabledAdapters(c) ==
  {a \in {"mock", "stripe", "paypal"} :
     CASE a = "mock" -> c.mock
       [] a = "stripe" -> c.stripe /\ c.stripeKey # Unset
       [] a = "paypal" -> /\ c.paypal
                          /\ c.paypalId # Unset
                          /\ c.paypalSecret # Unset}
=============================================================================
