--------------------------- MODULE MCCredentials ---------------------------
(***************************************************************************)
(* Small instances of Credentials.                                         *)
(***************************************************************************)
EXTENDS Credentials, TLC

\* One platform with a namespace for Keycloak and one for OpenFGA and OPA.
OnePlatform == {"one"}
TwoNamespaces == {"keycloak", "openfga"}
OneKc == "one" :> "keycloak"
OneFga == "one" :> "openfga"

\* Two platforms that were left at the same namespace for Keycloak.
TwoPlatforms == {"one", "two"}
ThreeNamespaces == {"keycloak", "openfga", "openfga2"}
TwoKc == [p \in TwoPlatforms |-> "keycloak"]
TwoFga == [p \in TwoPlatforms |->
              IF p = "one" THEN "openfga" ELSE "openfga2"]

\* What the run secrets explores: faults, or a Secret deleted by hand.
Scenario == faults' = 0 \/ deletes' = 0
=============================================================================
