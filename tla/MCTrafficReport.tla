--------------------------- MODULE MCTrafficReport ---------------------------
(***************************************************************************)
(* TrafficReport for TLC: an agent with a VLESS Reality and a Hysteria2    *)
(* inbound that reports to two panel nodes, as main builds it when         *)
(* -panel-hy2-node-id is given.                                            *)
(***************************************************************************)
EXTENDS TrafficReport

CONSTANTS VlessIn, Hy2In    \* the tags xboard-generate-config writes

\* Client.matchesInbound of the two clients.
MCPanelOf == [t \in Tags |-> IF t = VlessIn THEN 1 ELSE 2]

\* Both inbounds serve the user; one has connections it cannot resolve.
MCCells == (Tags \X Users) \cup ({VlessIn} \X Secrets)
=============================================================================
