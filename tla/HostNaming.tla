---------------------------- MODULE HostNaming ----------------------------
(***************************************************************************)
(* How a host gets its MAC address and its display name: rememberMAC and   *)
(* the DHCP buffer in the decode goroutine, resolveHost and flushDHCP in   *)
(* the flush loop (internal/capture/pipeline.go), and the tables hosts and *)
(* dhcp_hostnames (internal/store/hosts.go, dhcp.go).                      *)
(*                                                                         *)
(* Flows are reduced to the local address they are counted under; module   *)
(* Capture follows the flows themselves.                                   *)
(***************************************************************************)
EXTENDS Naturals, Sequences

CONSTANTS
    IPs,        \* LAN addresses
    MACs,       \* Ethernet addresses
    Names,      \* hostnames announced in DHCP option 12
    None,       \* NULL, an absent map entry, or the empty string
    MaxBuffered \* bound: DHCP events not yet upserted

ASSUME NoneAssumption == None \notin MACs \cup Names

VARIABLES
    added,      \* addresses with an entry in the aggregator
    event,      \* the flow event between agg.Add and rememberMAC, or None
    macByIP,    \* Pipeline.macByIP
    dhcpBuf,    \* Pipeline.dhcpBuf: <<mac, name>> pairs
    hostCache,  \* the addresses in Pipeline.hostCache
    run,        \* where flush is: "select", "hosts" or "dhcp"
    toResolve,  \* addresses of the drained flows not yet resolved
    toUpsert,   \* drained DHCP events not yet upserted
    hosts,      \* the addresses that have a row in hosts
    hostMAC,    \* hosts.mac_address
    hostName,   \* hosts.display_name
    hostname,   \* dhcp_hostnames: the name stored for each MAC
    sighted,    \* history: <<ip, mac>> pairs seen in flows
    leased,     \* history: <<mac, name>> pairs seen in DHCP messages
    latest,     \* history: the name in the last DHCP message of each MAC
    faulty      \* history: a database call failed, or the process crashed

decoding == <<added, event, macByIP, dhcpBuf>>
flushing == <<hostCache, run, toResolve, toUpsert>>
tables == <<hosts, hostMAC, hostName, hostname>>
history == <<sighted, leased, latest, faulty>>
namingVars == <<decoding, flushing, tables, history>>

Optional(S) == S \cup {None}

NamingTypeOK ==
    /\ added \subseteq IPs
    /\ event \in Optional(IPs \X Optional(MACs))
    /\ macByIP \in [IPs -> Optional(MACs)]
    /\ dhcpBuf \in Seq(Optional(MACs) \X Names)
    /\ hostCache \subseteq IPs
    /\ run \in {"select", "hosts", "dhcp"}
    /\ toResolve \subseteq IPs
    /\ toUpsert \in Seq(Optional(MACs) \X Names)
    /\ hosts \subseteq IPs
    /\ hostMAC \in [IPs -> Optional(MACs)]
    /\ hostName \in [IPs -> Optional(Names)]
    /\ hostname \in [MACs -> Optional(Names)]
    /\ sighted \subseteq IPs \X MACs
    /\ leased \subseteq MACs \X Names
    /\ latest \in [MACs -> Optional(Names)]
    /\ faulty \in BOOLEAN

NamingInit ==
    /\ added = {} /\ event = None /\ macByIP = [ip \in IPs |-> None] /\ dhcpBuf = <<>>
    /\ hostCache = {} /\ run = "select" /\ toResolve = {} /\ toUpsert = <<>>
    /\ hosts = {} /\ hostMAC = [ip \in IPs |-> None]
    /\ hostName = [ip \in IPs |-> None] /\ hostname = [m \in MACs |-> None]
    /\ sighted = {} /\ leased = {} /\ latest = [m \in MACs |-> None] /\ faulty = FALSE

(***************************************************************************)
(* The decode goroutine.                                                   *)
(***************************************************************************)
(* agg.Add of a flow event whose LocalMAC may be empty.                    *)
AddFlow(ip, mac) ==
    /\ event = None
    /\ event' = <<ip, mac>>
    /\ added' = added \cup {ip}
    /\ sighted' = IF mac = None THEN sighted ELSE sighted \cup {<<ip, mac>>}
    /\ UNCHANGED <<macByIP, dhcpBuf, flushing, tables, leased, latest, faulty>>

(* A second step, under another lock: a flush may come in between.         *)
RememberMAC ==
    /\ event # None
    /\ event' = None
    /\ macByIP' = IF event[2] = None THEN macByIP ELSE [macByIP EXCEPT ![event[1]] = event[2]]
    /\ UNCHANGED <<added, dhcpBuf, flushing, tables, history>>

(* Mutant: the buffer is filled from the front.                            *)
BufferDHCPInFront(mac, name) ==
    /\ event = None
    /\ Len(dhcpBuf) + Len(toUpsert) < MaxBuffered
    /\ dhcpBuf' = <<<<mac, name>>>> \o dhcpBuf
    /\ leased' = IF mac = None THEN leased ELSE leased \cup {<<mac, name>>}
    /\ latest' = IF mac = None THEN latest ELSE [latest EXCEPT ![mac] = name]
    /\ UNCHANGED <<added, event, macByIP, flushing, tables, sighted, faulty>>

(* Appended under dhcpMu; dhcpBuf has no limit in the code.                *)
BufferDHCP(mac, name) ==
    /\ event = None
    /\ Len(dhcpBuf) + Len(toUpsert) < MaxBuffered
    /\ dhcpBuf' = Append(dhcpBuf, <<mac, name>>)
    /\ leased' = IF mac = None THEN leased ELSE leased \cup {<<mac, name>>}
    /\ latest' = IF mac = None THEN latest ELSE [latest EXCEPT ![mac] = name]
    /\ UNCHANGED <<added, event, macByIP, flushing, tables, sighted, faulty>>

(***************************************************************************)
(* The flush loop.                                                         *)
(***************************************************************************)
Drain ==
    /\ run = "select"
    /\ toResolve' = added
    /\ added' = {}
    /\ run' = "hosts"
    /\ UNCHANGED <<event, macByIP, dhcpBuf, hostCache, toUpsert, tables, history>>

(* SetHostMAC(id, lookupMAC(ip)); an unknown MAC leaves the row alone, and *)
(* an error is only logged.                                                *)
SetHostMAC(ip) ==
    \/ /\ hostMAC' = IF macByIP[ip] = None THEN hostMAC ELSE [hostMAC EXCEPT ![ip] = macByIP[ip]]
       /\ UNCHANGED faulty
    \/ /\ macByIP[ip] # None
       /\ faulty' = TRUE
       /\ UNCHANGED hostMAC

(* resolveHost, once for each drained address.  A failed UpsertHost ends   *)
(* it when the address is not cached and is only logged when it is.        *)
ResolveHost(ip) ==
    /\ run = "hosts"
    /\ ip \in toResolve
    /\ toResolve' = toResolve \ {ip}
    /\ \/ /\ hosts' = hosts \cup {ip}
          /\ hostCache' = hostCache \cup {ip}
          /\ SetHostMAC(ip)
       \/ /\ ip \notin hostCache
          /\ faulty' = TRUE
          /\ UNCHANGED <<hosts, hostCache, hostMAC>>
    /\ UNCHANGED <<decoding, run, toUpsert, hostName, hostname, sighted, leased, latest>>

(* flushDHCP takes the buffer under dhcpMu.                                *)
SwapDHCP ==
    /\ run = "hosts"
    /\ toResolve = {}
    /\ toUpsert' = dhcpBuf
    /\ dhcpBuf' = <<>>
    /\ run' = "dhcp"
    /\ UNCHANGED <<added, event, macByIP, hostCache, toResolve, tables, history>>

(* Mutant: the UPDATE has no WHERE mac_address.                            *)
RenameEveryHost(mac, name) == [ip \in IPs |-> IF ip \in hosts THEN name ELSE hostName[ip]]

(* The second statement of UpsertDHCPHostname.                             *)
Rename(mac, name) ==
    [ip \in IPs |-> IF ip \in hosts /\ hostMAC[ip] = mac THEN name ELSE hostName[ip]]

(* Mutant: the row of dhcp_hostnames is committed without the hosts.       *)
UpsertDHCPHostnameAlone(mac, name) ==
    \/ /\ hostname' = [hostname EXCEPT ![mac] = name]
       /\ hostName' \in {hostName, Rename(mac, name)}
       /\ UNCHANGED faulty
    \/ /\ faulty' = TRUE
       /\ UNCHANGED <<hostname, hostName>>

(* One transaction: both tables, or neither.                               *)
UpsertDHCPHostname(mac, name) ==
    \/ /\ hostname' = [hostname EXCEPT ![mac] = name]
       /\ hostName' = Rename(mac, name)
       /\ UNCHANGED faulty
    \/ /\ faulty' = TRUE
       /\ UNCHANGED <<hostname, hostName>>

(* One event of flushDHCP; an event without a MAC is skipped.              *)
UpsertNext ==
    /\ run = "dhcp"
    /\ toUpsert # <<>>
    /\ toUpsert' = Tail(toUpsert)
    /\ \/ /\ Head(toUpsert)[1] # None
          /\ UpsertDHCPHostname(Head(toUpsert)[1], Head(toUpsert)[2])
       \/ /\ Head(toUpsert)[1] = None
          /\ UNCHANGED <<hostname, hostName, faulty>>
    /\ UNCHANGED <<decoding, hostCache, run, toResolve, hosts, hostMAC, sighted, leased, latest>>

FlushDone ==
    /\ run = "dhcp"
    /\ toUpsert = <<>>
    /\ run' = "select"
    /\ UNCHANGED <<decoding, hostCache, toResolve, toUpsert, tables, history>>

(* The process dies and is started again.                                  *)
RestartNaming ==
    /\ added' = {} /\ event' = None /\ macByIP' = [ip \in IPs |-> None] /\ dhcpBuf' = <<>>
    /\ hostCache' = {} /\ run' = "select" /\ toResolve' = {} /\ toUpsert' = <<>>
    /\ faulty' = TRUE
    /\ UNCHANGED <<tables, sighted, leased, latest>>

NamingNext ==
    \/ \E ip \in IPs, mac \in Optional(MACs) : AddFlow(ip, mac)
    \/ RememberMAC
    \/ \E mac \in Optional(MACs), name \in Names : BufferDHCP(mac, name)
    \/ Drain \/ SwapDHCP \/ UpsertNext \/ FlushDone \/ RestartNaming
    \/ \E ip \in IPs : ResolveHost(ip)

NamingSpec == NamingInit /\ [][NamingNext]_namingVars

-----------------------------------------------------------------------------
(* A host shows only a name announced by a device that was seen using its  *)
(* address: dropped writes, restarts and re-used addresses never give it   *)
(* the name of a device that was not.                                      *)
NamesAreOwn ==
    \A ip \in IPs : hostName[ip] # None =>
        \E mac \in MACs : <<ip, mac>> \in sighted /\ <<mac, hostName[ip]>> \in leased

(* Without failures, the table of DHCP names is up to date whenever the    *)
(* flush loop is idle and nothing is buffered: the last message of a MAC   *)
(* wins, also when one flush handles several.                              *)
LastLeaseWins ==
    ~faulty /\ run # "dhcp" /\ dhcpBuf = <<>> => hostname = latest

(* A step that changes the name stored for a MAC leaves no host that       *)
(* carries this MAC with another name: the transaction of                  *)
(* UpsertDHCPHostname keeps the two tables in step at that moment.         *)
RenamesTogether ==
    [][\A mac \in MACs : hostname'[mac] # hostname[mac] =>
          \A ip \in hosts' : hostMAC'[ip] = mac => hostName'[ip] = hostname'[mac]]_namingVars

(* The two tables never disagree: a host that carries a MAC with a stored  *)
(* DHCP name shows this name.                                              *)
TablesAgree ==
    \A ip \in hosts : hostMAC[ip] # None /\ hostname[hostMAC[ip]] # None =>
        hostName[ip] = hostname[hostMAC[ip]]
=============================================================================
