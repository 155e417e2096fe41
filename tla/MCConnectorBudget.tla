------------------------- MODULE MCConnectorBudget -------------------------
(* Three metered connectors, two of one signal family.  Of two runs in a     *)
(* month github twice exceeds only its own limit, github and youtube only    *)
(* that of their family, openalex and youtube only the total.                *)
EXTENDS ConnectorBudget

MCGets == [c \in Connector |-> IF c = "youtube" THEN 2 ELSE 1]
MCMaxAttempts == [c \in Connector |-> IF c = "openalex" THEN 2 ELSE 1]
MCFamilyOf == [c \in Connector |-> IF c = "openalex" THEN "research" ELSE "behavior"]
MCConnectorLimit == [c \in Connector |-> IF c = "github" THEN 2 ELSE 6]
MCFamilyLimit == [f \in Family |-> IF f = "research" THEN 6 ELSE 4]
=============================================================================
