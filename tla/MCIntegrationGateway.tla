------------------------ MODULE MCIntegrationGateway ------------------------
(* Instances of IntegrationGateway for TLC. *)
EXTENDS IntegrationGateway

\* The ITDR service is always there; the tools do not share anything with one
\* another, so each is paired with it in turn.
MCConfigs == {{"itdr", c} : c \in Clients \ {"itdr"}}
MCTorn == {wazuhListAgents}
MCWazuh == {{"itdr", "wazuh"}}
=============================================================================
