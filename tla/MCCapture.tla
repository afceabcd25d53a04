----------------------------- MODULE MCCapture -----------------------------
(***************************************************************************)
(* The instance of Capture for TLC.  Packet "query" is a LAN-to-WAN DNS    *)
(* query (a flow event and a query); "lan" goes from one LAN host to       *)
(* another, so it yields two flow events.  Host a has a query and two      *)
(* flows, which one flush may have to resolve together.                    *)
(***************************************************************************)
EXTENDS Capture

MCItems == {"qFlow", "qName", "lanOut", "lanIn"}
MCEvents == [query |-> <<"qFlow", "qName">>, lan |-> <<"lanOut", "lanIn">>]
MCPackets == DOMAIN MCEvents
MCDNSItems == {"qName"}
MCKeyOf == [qFlow |-> "aWan", lanOut |-> "aOut", lanIn |-> "bIn"]
MCIPOf == [qFlow |-> "a", qName |-> "a", lanOut |-> "a", lanIn |-> "b"]
MCLocalIP == [aWan |-> "a", aOut |-> "a", bIn |-> "b"]
MCKeys == DOMAIN MCLocalIP
MCIPs == {"a", "b"}
=============================================================================
