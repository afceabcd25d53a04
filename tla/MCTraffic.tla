----------------------------- MODULE MCTraffic -----------------------------
(***************************************************************************)
(* Instances of Traffic for TLC: two LAN hosts and one outside server.     *)
(***************************************************************************)
EXTENDS Traffic

Framed(frame, src, sport, dst, dport, udp, bytes, ts) ==
    [frame |-> frame, src |-> src, sport |-> sport, dst |-> dst, dport |-> dport,
     udp |-> udp, bytes |-> bytes, ts |-> ts]
Packet(src, sport, dst, dport, udp, bytes, ts) ==
    Framed(<<"ip4">>, src, sport, dst, dport, udp, bytes, ts)
Tagged(src, sport, dst, dport, udp, bytes, ts) ==
    Framed(<<"vlan", "ip4">>, src, sport, dst, dport, udp, bytes, ts)

(* Queries, before and after what a prune deletes, to and from outside and *)
(* on another port, and an answer; LAN-to-LAN and outside traffic that     *)
(* shares flows, arrives out of order and reaches two ports, with and      *)
(* without a tag; a DHCP request; and a frame the filter rejects.          *)
MCPackets == {
    Packet("a", 9, "w", 53, "query", 1, 3),
    Packet("w", 53, "a", 9, "response", 3, 1),
    Tagged("a", 9, "w", 53, "oddquery", 2, 0),
    Packet("a", 9, "w", 80, "query", 1, 2),
    Packet("w", 9, "a", 53, "oddquery", 1, 2),
    Packet("a", 9, "b", 53, "query", 2, 2),
    Packet("a", 9, "b", 80, "other", 1, 2),
    Packet("zero", 68, "bcast", 67, "hostname", 3, 0),
    Packet("w", 53, "x", 9, "query", 1, 0),
    Framed(<<"vlan", "vlan", "ip4">>, "a", 9, "w", 80, "other", 1, 2)}

(* An even exchange with an outside server.                                *)
ExchangePackets == {
    Packet("a", 9, "w", 80, "other", 2, 1), Packet("w", 80, "a", 9, "other", 2, 1)}

MCCountry == [w |-> "KP", x |-> "GB"]
MCWatchlist == {"KP"}
MCLAN == {"a", "b"}
=============================================================================
