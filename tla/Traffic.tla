------------------------------ MODULE Traffic ------------------------------
(***************************************************************************)
(* What becomes of the numbers: the kernel runs the filter program on a    *)
(* frame (internal/capture/bpf.go), Decode classifies the packet from the  *)
(* point of view of the LAN hosts it concerns (decode.go), the aggregator  *)
(* sums flow events per FlowKey (aggregator.go), flush turns the sums into *)
(* rows of flows_recent and the DNS queries into rows of dns_queries, and  *)
(* the detectors of exfiltration, port scans, DNS anomalies and watched    *)
(* countries query the rows (internal/store, internal/detect).             *)
(*                                                                         *)
(* Deliver and Flush are single steps here; module Capture shows that the  *)
(* interleavings inside them neither lose an event nor count one twice.    *)
(***************************************************************************)
EXTENDS Integers, Sequences, FiniteSetsExt, Sums

CONSTANTS
    LAN,            \* addresses in the configured subnet
    Unspecified,    \* 0.0.0.0
    Broadcast,      \* 255.255.255.255
    Packets,        \* the packets that may arrive (see PacketAssumption)
    MaxPackets,     \* bound: packets in a behaviour
    Horizon,        \* bound: the time of a packet
    MinSent,        \* exfilMinBytesSent
    Ratio,          \* exfilRatioThreshold
    PortThreshold,  \* portScanPortsPerTargetThreshold
    DNSThreshold,   \* dnsVolumeThreshold
    DNSWindow,      \* DNSWindow
    DNSRetention,   \* dnsQueriesRetention
    Country,        \* the country of each address that has one
    Watchlist       \* ParseGeoWatchlist of the setting

EtherTypes == {"ip4", "vlan", "arp"}

(* frame: the EtherTypes of a frame, those of its tags first (one that is  *)
(* cut short after a tag has no other).                                    *)
(* udp: what a UDP payload decodes to, "query", "oddquery" (the leftmost   *)
(* label of the name is long and of high entropy), "response", "hostname"  *)
(* (a DHCP request with option 12) or "other".                             *)
ASSUME PacketAssumption ==
    \A p \in Packets :
        /\ DOMAIN p = {"frame", "src", "sport", "dst", "dport", "udp", "bytes", "ts"}
        /\ p.frame \in Seq(EtherTypes) /\ p.frame # <<>>
        /\ \A n \in 1 .. Len(p.frame) - 1 : p.frame[n] = "vlan"
        /\ p.bytes \in Nat \ {0} /\ p.ts \in 0 .. Horizon
        /\ p.udp \in {"query", "oddquery", "response", "hostname", "other"}
ASSUME RetentionAssumption == DNSWindow \in Nat /\ DNSRetention \in Nat /\ DNSWindow < DNSRetention
ASSUME ThresholdAssumption == PortThreshold \in Nat /\ DNSThreshold \in Nat /\ Horizon \in Nat

VARIABLES
    delivered,  \* history: the packets on the wire
    flushed,    \* history: how many of them the flushes so far have covered
    table,      \* Aggregator.table: a function from the keys present to FlowAccums
    rows,       \* flows_recent: a set, as no query of it depends on the order
    queries,    \* the DNS queries since the last flush, each with its packet's number
    dns,        \* dns_queries, each with its packet's number
    pruned      \* history: the time of the last PruneDNSQueries

vars == <<delivered, flushed, table, rows, queries, dns, pruned>>

DirLANToWAN == 0
DirWANToLAN == 1
DirLANOut == 2
DirLANIn == 3

(***************************************************************************)
(* The filter: CompileIPv4Filter's program, and the machine that runs it.  *)
(***************************************************************************)
Load(off) == [op |-> "load", off |-> off]
JumpIf(op, val, skip) == [op |-> op, val |-> val, skip |-> skip]
RetConstant(val) == [op |-> "ret", val |-> val]
snapLen == 262144

(* Mutant: the jump of tagged IPv4 lands one instruction short.            *)
FilterTaggedShort ==
    << Load(12), JumpIf("jeq", "ip4", 4), JumpIf("jne", "vlan", 2),
       Load(16), JumpIf("jeq", "ip4", 0), RetConstant(0), RetConstant(snapLen) >>

CompileIPv4Filter ==
    << Load(12), JumpIf("jeq", "ip4", 4), JumpIf("jne", "vlan", 2),
       Load(16), JumpIf("jeq", "ip4", 1), RetConstant(0), RetConstant(snapLen) >>

Loadable(frame, off) == (off - 8) \div 4 \in DOMAIN frame
EtherTypeAt(frame, off) == frame[(off - 8) \div 4]

(* How many bytes of a frame the program keeps.  Jumps only go forward; a  *)
(* is the accumulator, and a load beyond the end of the frame keeps none.  *)
Kept(frame) ==
    LET run[pc \in DOMAIN CompileIPv4Filter] == [a \in EtherTypes |->
            LET i == CompileIPv4Filter[pc]
                jumps == (i.op = "jeq" /\ a = i.val) \/ (i.op = "jne" /\ a # i.val)
            IN  IF i.op = "ret" THEN i.val
                ELSE IF i.op = "load"
                     THEN IF Loadable(frame, i.off) THEN run[pc + 1][EtherTypeAt(frame, i.off)] ELSE 0
                ELSE run[pc + 1 + (IF jumps THEN i.skip ELSE 0)][a]]
    IN  run[1]["arp"]
Accepts(frame) == Kept(frame) > 0

(***************************************************************************)
(* Decode.                                                                 *)
(***************************************************************************)
FlowKey(dir, lip, lport, rip, rport) ==
    [dir |-> dir, lip |-> lip, lport |-> lport, rip |-> rip, rport |-> rport]

FlowEvent(dir, p, isLocalSrc) ==
    [key |-> IF isLocalSrc THEN FlowKey(dir, p.src, p.sport, p.dst, p.dport)
                           ELSE FlowKey(dir, p.dst, p.dport, p.src, p.sport),
     bytes |-> p.bytes, ts |-> p.ts, isLocalSrc |-> isLocalSrc]

(* Mutant: a LAN-to-LAN packet is recorded for its source only.            *)
DecodeSourceOnly(p) ==
    IF p.src = Unspecified \/ p.dst = Broadcast \/ {p.src, p.dst} \cap LAN = {} THEN <<>>
    ELSE IF {p.src, p.dst} \subseteq LAN THEN <<FlowEvent(DirLANOut, p, TRUE)>>
    ELSE IF p.src \in LAN THEN <<FlowEvent(DirLANToWAN, p, TRUE)>>
    ELSE <<FlowEvent(DirWANToLAN, p, FALSE)>>

(* The flow events of a packet.  Traffic without a usable address (DHCP    *)
(* DISCOVER) and traffic between two outside addresses have none.          *)
Decode(p) ==
    IF p.src = Unspecified \/ p.dst = Broadcast \/ {p.src, p.dst} \cap LAN = {} THEN <<>>
    ELSE IF {p.src, p.dst} \subseteq LAN
         THEN <<FlowEvent(DirLANOut, p, TRUE), FlowEvent(DirLANIn, p, FALSE)>>
    ELSE IF p.src \in LAN THEN <<FlowEvent(DirLANToWAN, p, TRUE)>>
    ELSE <<FlowEvent(DirWANToLAN, p, FALSE)>>

DNSEvent(p) ==
    [host |-> IF p.src \in LAN THEN p.src ELSE p.dst, odd |-> p.udp = "oddquery", ts |-> p.ts]

dnsServicePort == 53

(* The DNS query of a packet, if it is one on the DNS port, recorded for   *)
(* its source or, when it comes from outside, its destination.             *)
DecodeDNS(p) ==
    IF /\ Decode(p) # <<>> /\ dnsServicePort \in {p.sport, p.dport}
       /\ p.udp \in {"query", "oddquery"}
    THEN {DNSEvent(p)} ELSE {}

(***************************************************************************)
(* The aggregator.                                                         *)
(***************************************************************************)
NewAccum(ts) == [first |-> ts, last |-> ts, bsent |-> 0, brecv |-> 0, psent |-> 0, precv |-> 0]

Lookup(t, evt) == IF evt.key \in DOMAIN t THEN t[evt.key] ELSE NewAccum(evt.ts)

Counted(acc, evt) ==
    IF evt.isLocalSrc
    THEN [acc EXCEPT !.bsent = @ + evt.bytes, !.psent = @ + 1]
    ELSE [acc EXCEPT !.brecv = @ + evt.bytes, !.precv = @ + 1]

Updated(acc, evt) ==
    [Counted(acc, evt) EXCEPT !.first = Min({@, evt.ts}), !.last = Max({@, evt.ts})]

Add(t, evt) ==
    [k \in DOMAIN t \cup {evt.key} |-> IF k = evt.key THEN Updated(Lookup(t, evt), evt) ELSE t[k]]

(* The decode goroutine adds the first flow event and then the second.     *)
AddFlows(t, evts) ==
    LET first == IF Len(evts) >= 1 THEN Add(t, evts[1]) ELSE t
    IN  IF Len(evts) >= 2 THEN Add(first, evts[2]) ELSE first

(***************************************************************************)
(* The behaviour.                                                          *)
(***************************************************************************)
Empty == [k \in {} |-> 0]

Init ==
    /\ delivered = <<>> /\ flushed = 0 /\ table = Empty /\ rows = {}
    /\ queries = {} /\ dns = {} /\ pruned = 0

DNSQueryRecord(id, query) == [id |-> id, query |-> query]

(* One packet reaches the interface and, if the filter accepts it, goes    *)
(* through the decode goroutine.                                           *)
Deliver(p) ==
    /\ Len(delivered) < MaxPackets
    /\ delivered' = Append(delivered, p)
    /\ table' = IF Accepts(p.frame) THEN AddFlows(table, Decode(p)) ELSE table
    /\ queries' = IF Accepts(p.frame)
                  THEN queries \cup {DNSQueryRecord(Len(delivered) + 1, q) : q \in DecodeDNS(p)}
                  ELSE queries
    /\ UNCHANGED <<flushed, rows, dns, pruned>>

(* A row; id tells the rows of one flush from those of another.            *)
FlowRecord(id, key, acc) == [id |-> id, key |-> key, acc |-> acc]

(* Drain, then one row for each key; the DNS buffer is stored as it is.    *)
Flush ==
    /\ flushed < Len(delivered)
    /\ flushed' = Len(delivered)
    /\ rows' = rows \cup {FlowRecord(Len(delivered), k, table[k]) : k \in DOMAIN table}
    /\ table' = Empty
    /\ dns' = dns \cup queries /\ queries' = {}
    /\ UNCHANGED <<delivered, pruned>>

Times == 0 .. Horizon
Nows == 0 .. Horizon + 1

(* Mutant: the cutoff is the time of the prune itself.                     *)
PruneDNSQueriesAtNow(now) ==
    /\ now > pruned /\ now > DNSRetention
    /\ pruned' = now
    /\ dns' = {r \in dns : r.query.ts >= now}
    /\ UNCHANGED <<delivered, flushed, table, rows, queries>>

(* The hourly PruneDNSQueries, at a time not before the last.              *)
PruneDNSQueries(now) ==
    /\ now > pruned /\ now > DNSRetention
    /\ pruned' = now
    /\ dns' = {r \in dns : r.query.ts >= now - DNSRetention}
    /\ UNCHANGED <<delivered, flushed, table, rows, queries>>

Next ==
    \/ \E p \in Packets : Deliver(p)
    \/ Flush
    \/ \E now \in Nows : PruneDNSQueries(now)

Spec == Init /\ [][Next]_vars

(***************************************************************************)
(* The queries of the detectors, over the window [since, now].             *)
(***************************************************************************)

InWindow(row, since, now) == row.acc.last >= since /\ row.acc.last <= now

(* HostOutboundTotals: SUM(bytes_sent) and SUM(bytes_recv) of a host.      *)
OutboundRows(h, since, now) ==
    {r \in rows : r.key.dir = DirLANToWAN /\ r.key.lip = h /\ InWindow(r, since, now)}
BytesSent(h, since, now) == SumOver([r \in rows |-> r.acc.bsent], OutboundRows(h, since, now))
BytesRecv(h, since, now) == SumOver([r \in rows |-> r.acc.brecv], OutboundRows(h, since, now))

(* ExfilRatio raises an alert for h; no bytes received is above any ratio. *)
ExfilFlagged(h, since, now) ==
    LET s == BytesSent(h, since, now)
        r == BytesRecv(h, since, now)
    IN  s >= MinSent /\ (r > 0 => s >= Ratio * r)

(* HostTargetPortScans: the distinct ports of h and one peer.              *)
PairRows(h, peer, dir, since, now) ==
    {r \in rows : r.key.dir = dir /\ r.key.lip = h /\ r.key.rip = peer /\ InWindow(r, since, now)}

(* Mutant: the local port is counted in every direction.                   *)
TargetPortsLocal(h, peer, dir, countLocalPort, since, now) ==
    {r.key.lport : r \in PairRows(h, peer, dir, since, now)}

TargetPorts(h, peer, dir, countLocalPort, since, now) ==
    {IF countLocalPort THEN r.key.lport ELSE r.key.rport : r \in PairRows(h, peer, dir, since, now)}

(* The three checks of PortScan.                                           *)
PortScanFlagged(h, peer, dir, since, now) ==
    /\ dir \in {DirLANToWAN, DirLANOut, DirLANIn}
    /\ Cardinality(TargetPorts(h, peer, dir, dir = DirLANIn, since, now)) >= PortThreshold

(* DNSQueryCounts and DNSQueriesInRange.                                   *)
DNSQueriesInRange(h, since, now) ==
    {r \in dns : r.query.host = h /\ r.query.ts >= since /\ r.query.ts <= now}

DNSVolume(h, since, now) == Cardinality(DNSQueriesInRange(h, since, now)) >= DNSThreshold

DNSEntropy(h, since, now) == \E r \in DNSQueriesInRange(h, since, now) : r.query.odd

(* CountryForIP, and whether the country is watched.                       *)
Watched(ip) == ip \in DOMAIN Country /\ Country[ip] \in Watchlist

(* RecentFlowPeers: the rows of each (host, remote ip, remote port).       *)
PeerRows(h, ip, port, since, now) ==
    {r \in rows : r.key.lip = h /\ r.key.rip = ip /\ r.key.rport = port /\ InWindow(r, since, now)}
PeerPorts(h, ip, since, now) ==
    {r.key.rport : r \in {s \in rows : s.key.lip = h /\ s.key.rip = ip /\ InWindow(s, since, now)}}

(* Mutant: the two direction parameters of the query are swapped.          *)
ClassifySwapped(peerRows) ==
    LET had(dir) == \E r \in peerRows : r.key.dir = dir
    IN  IF had(DirLANToWAN) /\ had(DirWANToLAN) THEN "bidirectional"
        ELSE IF had(DirLANToWAN) THEN "inbound"
        ELSE IF had(DirWANToLAN) THEN "outbound"
        ELSE "unknown"

ClassifyPeerDirection(peerRows) ==
    LET had(dir) == \E r \in peerRows : r.key.dir = dir
    IN  IF had(DirLANToWAN) /\ had(DirWANToLAN) THEN "bidirectional"
        ELSE IF had(DirLANToWAN) THEN "outbound"
        ELSE IF had(DirWANToLAN) THEN "inbound"
        ELSE "unknown"

(* The labels with which GeoWatchlist may raise its alert about ip: that   *)
(* of whichever port the query returns first.                              *)
GeoWatchlist(h, ip, since, now) ==
    IF Watched(ip)
    THEN {ClassifyPeerDirection(PeerRows(h, ip, port, since, now)) :
             port \in PeerPorts(h, ip, since, now)}
    ELSE {}

-----------------------------------------------------------------------------
(* Packets are recorded under hosts of the LAN, and a flush is never ahead *)
(* of the packets.                                                         *)
TypeOK ==
    /\ delivered \in Seq(Packets) /\ flushed \in 0 .. Len(delivered) /\ pruned \in Nows
    /\ \A k \in DOMAIN table : k.dir \in 0 .. 3 /\ k.lip \in LAN /\ table[k].first <= table[k].last
    /\ \A r \in queries \cup dns : r.query.host \in LAN

(* Each entry of the table is the summary of the events under its key      *)
(* since the last flush: earliest and latest time, bytes and packets per   *)
(* side, whatever the order of arrival.  IPv4 frames count, untagged or    *)
(* with one tag.                                                           *)
Monitored(p) == p.frame \in {<<"ip4">>, <<"vlan", "ip4">>}
Events(p) == IF Monitored(p) THEN {Decode(p)[i] : i \in DOMAIN Decode(p)} ELSE {}
LogEvents ==
    UNION {{[packet |-> n, evt |-> evt] : evt \in Events(delivered[n])} : n \in flushed + 1 .. Len(delivered)}
AccumExact ==
    LET log == LogEvents IN
    /\ DOMAIN table = {e.evt.key : e \in log}
    /\ \A k \in DOMAIN table :
        LET at == {e \in log : e.evt.key = k}
            out == {e \in at : e.evt.isLocalSrc}
            times == {e.evt.ts : e \in at}
            bytes == [e \in at |-> e.evt.bytes]
        IN  table[k] = [first |-> Min(times), last |-> Max(times),
                        bsent |-> SumOver(bytes, out), brecv |-> SumOver(bytes, at \ out),
                        psent |-> Cardinality(out), precv |-> Cardinality(at \ out)]

(* Rows and table together account for every byte a LAN host sent and      *)
(* received, on both sides of LAN-to-LAN traffic, whenever flushes happen. *)
Hosts == LAN \ {Unspecified, Broadcast}
Sizes == [n \in DOMAIN delivered |-> delivered[n].bytes]
Sent(h) ==
    {n \in DOMAIN delivered : LET p == delivered[n] IN Monitored(p) /\ p.src = h /\ p.dst # Broadcast}
Received(h) ==
    {n \in DOMAIN delivered : LET p == delivered[n] IN Monitored(p) /\ p.dst = h /\ p.src # Unspecified}
Recorded(h, field) ==
    SumOver([r \in rows |-> r.acc[field]], {r \in rows : r.key.lip = h})
        + SumOver([k \in DOMAIN table |-> table[k][field]], {k \in DOMAIN table : k.lip = h})
HostTotalsExact ==
    \A h \in Hosts : /\ Recorded(h, "bsent") = SumOver(Sizes, Sent(h))
                     /\ Recorded(h, "brecv") = SumOver(Sizes, Received(h))

(* The queries on the DNS port in [since, now] that count as those of a    *)
(* host: the ones it sent, and the ones sent to it from outside the LAN.   *)
IsQuery(p) == p.udp \in {"query", "oddquery"} /\ (p.sport = 53 \/ p.dport = 53)
Attributed(h, since, now) ==
    {n \in Sent(h) \cup {m \in Received(h) : delivered[m].src \notin LAN} :
        IsQuery(delivered[n]) /\ delivered[n].ts >= since /\ delivered[n].ts <= now}

(* When everything is flushed, a scan flags exactly the hosts with too     *)
(* many queries, or one for an odd name, within its window: the retention  *)
(* never deletes a query some scan still has to count, and no query is     *)
(* counted for two hosts or twice.                                         *)
DNSAlertsExact ==
    flushed = Len(delivered) =>
        \A h \in Hosts : \A now \in {t \in Nows : t >= pruned /\ t >= DNSWindow} :
            LET asked == Attributed(h, now - DNSWindow, now)
            IN  /\ DNSVolume(h, now - DNSWindow, now) <=> Cardinality(asked) >= DNSThreshold
                /\ DNSEntropy(h, now - DNSWindow, now)
                      <=> \E n \in asked : delivered[n].udp = "oddquery"

(* Only queries the host itself made count as queries from it.             *)
DNSAlertMeansAsked ==
    \A h \in Hosts : \A now \in {t \in Nows : t >= DNSWindow} :
        DNSVolume(h, now - DNSWindow, now) =>
            Cardinality(Attributed(h, now - DNSWindow, now) \cap Sent(h)) >= DNSThreshold

(* When everything is flushed, a host that sent to PortThreshold ports of  *)
(* one peer at or after time since is found by an outbound check over the  *)
(* window that starts there, however flushes merged its packets with       *)
(* earlier ones; a LAN peer is found, as the target, by the inbound check. *)
PortsReached(h, peer, since) ==
    {delivered[n].dport : n \in {m \in Sent(h) : delivered[m].dst = peer /\ delivered[m].ts >= since}}
ScanNotMissed ==
    flushed = Len(delivered) =>
        \A h \in Hosts, peer \in {p.dst : p \in Packets}, since \in Times :
            Cardinality(PortsReached(h, peer, since)) >= PortThreshold =>
                IF peer \in LAN
                THEN /\ PortScanFlagged(h, peer, DirLANOut, since, Horizon)
                     /\ PortScanFlagged(peer, h, DirLANIn, since, Horizon)
                ELSE PortScanFlagged(h, peer, DirLANToWAN, since, Horizon)

(* The bytes a host sent to and received from outside.                     *)
SentOutside(h) == SumOver(Sizes, {n \in Sent(h) : delivered[n].dst \notin LAN})
ReceivedOutside(h) == SumOver(Sizes, {n \in Received(h) : delivered[n].src \notin LAN})

(* Whether a packet of the window went from one address to another.        *)
Went(src, dst, since) ==
    \E n \in DOMAIN delivered :
        /\ Monitored(delivered[n]) /\ delivered[n].ts >= since
        /\ delivered[n].src = src /\ delivered[n].dst = dst

(* The watchlist alert about h and ip is raised for contacts of the window *)
(* and for nothing else: when everything is flushed, a packet in either    *)
(* direction and on any port is enough; and packets went the way the alert *)
(* says, although one port speaks for all of them.                         *)
Outside == DOMAIN Country \ (LAN \cup {Unspecified, Broadcast})
GeoAlertsExact ==
    \A h \in Hosts, ip \in {i \in Outside : Watched(i)}, since \in Times :
        LET labels == GeoWatchlist(h, ip, since, Horizon) IN
        /\ flushed = Len(delivered) /\ (Went(h, ip, since) \/ Went(ip, h, since)) => labels # {}
        /\ labels \subseteq {"outbound", "inbound", "bidirectional"}
        /\ labels \cap {"outbound", "bidirectional"} # {} => Went(h, ip, since)
        /\ labels \cap {"inbound", "bidirectional"} # {} => Went(ip, h, since)

(* The label leaves nothing out: a host that was only contacted had sent   *)
(* nothing, and the other way round.                                       *)
GeoLabelComplete ==
    flushed = Len(delivered) =>
        \A h \in Hosts, ip \in Outside :
            \A label \in GeoWatchlist(h, ip, 0, Horizon) :
                Went(h, ip, 0) /\ Went(ip, h, 0) => label = "bidirectional"

(* The exfiltration alert is raised only for a host that sent at least     *)
(* Ratio times what it received from outside.                              *)
ExfilMeansUpload ==
    \A h \in Hosts : ExfilFlagged(h, 0, Horizon) => SentOutside(h) >= Ratio * ReceivedOutside(h)

(* The first packet of the conversation that packet n belongs to.          *)
Ends(p) == {<<p.src, p.sport>>, <<p.dst, p.dport>>}
Opening(n) == delivered[Min({m \in 1 .. n : Ends(delivered[m]) = Ends(delivered[n])})]

(* An alert that calls a port scan initiated by this host is about a host  *)
(* that opened a conversation with the peer.                               *)
ScannerInitiated ==
    \A h, peer \in LAN : PortScanFlagged(h, peer, DirLANOut, 0, Horizon) =>
        \E n \in DOMAIN delivered : Opening(n).src = h /\ Opening(n).dst = peer
=============================================================================
