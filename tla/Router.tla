------------------------------ MODULE Router -------------------------------
(***************************************************************************)
(* go/internal/gateway/gateway.go: the router that picks an adapter by     *)
(* name.                                                                   *)
(***************************************************************************)

CONSTANTS
  GatewayNames, \* gateway names a client or the configuration can give
  Lower,        \* strings.ToLower as a function on GatewayNames
  BlankName,    \* the blank name
  DefaultName,  \* PAYMENT_GATEWAY_DEFAULT
  Enabled       \* the adapters whose IsEnabled() is true

Adapters == {"mock", "stripe", "paypal"}
NoGateway == "none"

ASSUME RouterAssumption ==
  /\ Adapters \cup {BlankName, DefaultName} \subseteq GatewayNames
  /\ DOMAIN Lower = GatewayNames
  /\ \A name \in Adapters : Lower[name] = name
  /\ Enabled \subseteq Adapters

\* Adapters are registered under their lower-cased names; a name that is not
\* registered or whose adapter is disabled is an error.
GetGateway(name) ==
  IF Lower[name] \in Adapters \cap Enabled THEN Lower[name] ELSE NoGateway

GetDefaultGateway == GetGateway(DefaultName)

GetGatewayOrDefault(name) ==
  IF name = BlankName THEN GetDefaultGateway ELSE GetGateway(name)
=============================================================================
