------------------------------ MODULE Capture ------------------------------
(***************************************************************************)
(* The capture pipeline of internal/capture: the source's read loop        *)
(* (pcapgo_source.go), the decode goroutine and the select/flush loop of   *)
(* Pipeline.Run (pipeline.go), the aggregator they share, and the hosts,   *)
(* flows_recent and dns_queries tables that flush writes.                  *)
(*                                                                         *)
(* The unit that is followed through the system is an item: one FlowEvent  *)
(* or one DNSQueryEvent decoded from one packet.  A table entry or a row   *)
(* is identified with the set of items it sums up (module Traffic          *)
(* justifies this for FlowAccum).  MAC addresses and DHCP hostnames do not *)
(* feed back into any of this; module HostNaming models them.              *)
(***************************************************************************)
EXTENDS Naturals, Sequences

CONSTANTS
    Packets,    \* the frames that may arrive, each at most once
    Items,      \* the events that can be decoded from them
    Keys,       \* FlowKeys
    IPs,        \* LAN addresses
    QueueCap,   \* packetBufSize
    Events,     \* Events[p]: what Decode(p) yields, in the order it is applied
    DNSItems,   \* the items that are DNS queries; the others are flow events
    KeyOf,      \* KeyOf[i]: the FlowKey of a flow event
    IPOf,       \* IPOf[i]: the local address of an item
    LocalIP     \* LocalIP[k]: the local address in a FlowKey

ASSUME QueueCapAssumption == QueueCap \in Nat \ {0}

(* An item comes from one place in one packet, and the address flush looks *)
(* up (of the key, or of the query) is the item's.                         *)
ASSUME DecodeAssumption ==
    /\ DNSItems \subseteq Items
    /\ Events \in [Packets -> Seq(Items)]
    /\ KeyOf \in [Items \ DNSItems -> Keys]
    /\ IPOf \in [Items -> IPs]
    /\ LocalIP \in [Keys -> IPs]
    /\ \A i \in Items \ DNSItems : LocalIP[KeyOf[i]] = IPOf[i]
    /\ \A p, q \in Packets : \A m \in 1 .. Len(Events[p]), n \in 1 .. Len(Events[q]) :
          Events[p][m] = Events[q][n] => p = q /\ m = n
    /\ \A i \in Items : \E p \in Packets : \E n \in 1 .. Len(Events[p]) : Events[p][n] = i

VARIABLES
    wire,       \* packets that have not reached the socket yet
    ctxDone,    \* the context is canceled
    reader,     \* where the read loop is: "check", "read" or "closed"
    queue,      \* the packets channel
    dropped,    \* packets counted in s.dropped (history: survives restarts)
    errs,       \* the errs channel (capacity 1) holds an error
    work,       \* results of the packet being decoded, not yet applied
    agg,        \* Aggregator.table: the items summed under each key
    dnsBuf,     \* Pipeline.dnsBuf
    run,        \* where Pipeline.Run is
    final,      \* the flush in progress is the one of the ctx.Done branch
    drained,    \* the drained table, less the keys already resolved
    dnsDrained, \* the drained DNS buffer, less the queries already resolved
    records,    \* the records slice of flush or flushDNS
    bumped,     \* bumpedThisFlush
    hostCache,  \* hostCache[ip]: the cached host id, 0 when absent
    hosts,      \* hosts[ip]: the id of its row in the hosts table, 0 when absent
    hostSeq,    \* the last id given to a host
    rows,       \* the rows of flows_recent and dns_queries
    stored,     \* history: how many inserted rows count each item
    lost,       \* history: items given up after an error, or by a crash
    faulty      \* history: a database call has failed, or the process crashed

reading == <<wire, reader, queue, dropped, errs>>
flushing == <<drained, dnsDrained, records, bumped, hostCache>>
disk == <<hosts, hostSeq, rows, stored>>
vars == <<wire, ctxDone, reader, queue, dropped, errs, work, agg, dnsBuf, run, final,
          drained, dnsDrained, records, bumped, hostCache, hosts, hostSeq,
          rows, stored, lost, faulty>>

Record == [host : Nat, items : SUBSET Items]
EmptyTable == [k \in Keys |-> {}]

TypeOK ==
    /\ wire \subseteq Packets
    /\ ctxDone \in BOOLEAN
    /\ reader \in {"check", "read", "closed"}
    /\ queue \in Seq(Packets) /\ Len(queue) <= QueueCap
    /\ dropped \subseteq Packets
    /\ errs \in BOOLEAN
    /\ work \in Seq(Items)
    /\ agg \in [Keys -> SUBSET Items]
    /\ dnsBuf \subseteq Items
    /\ run \in {"select", "wait", "flows", "swap", "dns", "closed"}
    /\ final \in BOOLEAN
    /\ drained \in [Keys -> SUBSET Items]
    /\ dnsDrained \subseteq Items
    /\ records \subseteq Record
    /\ bumped \subseteq IPs
    /\ hostCache \in [IPs -> Nat]
    /\ hosts \in [IPs -> Nat]
    /\ hostSeq \in Nat
    /\ rows \subseteq Record
    /\ stored \in [Items -> Nat]
    /\ lost \subseteq Items
    /\ faulty \in BOOLEAN

Init ==
    /\ wire = Packets /\ ctxDone = FALSE
    /\ reader = "check" /\ queue = <<>> /\ dropped = {} /\ errs = FALSE
    /\ work = <<>> /\ agg = EmptyTable /\ dnsBuf = {}
    /\ run = "select" /\ final = FALSE
    /\ drained = EmptyTable /\ dnsDrained = {} /\ records = {} /\ bumped = {}
    /\ hostCache = [ip \in IPs |-> 0] /\ hosts = [ip \in IPs |-> 0]
    /\ hostSeq = 0 /\ rows = {} /\ stored = [i \in Items |-> 0]
    /\ lost = {} /\ faulty = FALSE

(***************************************************************************)
(* The source's read loop.                                                 *)
(***************************************************************************)
CheckCtx ==
    /\ reader = "check"
    /\ reader' = IF ctxDone THEN "closed" ELSE "read"
    /\ UNCHANGED <<wire, queue, dropped, errs, ctxDone, work, agg, dnsBuf, run, final>>
    /\ UNCHANGED <<flushing, disk, lost, faulty>>

(* Mutant: the channel is one larger than packetBufSize.                   *)
ReadPacketOverfull(p) ==
    /\ reader = "read"
    /\ p \in wire
    /\ wire' = wire \ {p}
    /\ \/ Len(queue) <= QueueCap /\ queue' = Append(queue, p) /\ UNCHANGED dropped
       \/ Len(queue) > QueueCap /\ dropped' = dropped \cup {p} /\ UNCHANGED queue
    /\ reader' = "check"
    /\ UNCHANGED <<errs, ctxDone, work, agg, dnsBuf, run, final, flushing, disk, lost, faulty>>

(* Mutant: a packet that is dropped may be read once more.                 *)
ReadPacketAgain(p) ==
    /\ reader = "read"
    /\ p \in wire \cup dropped
    /\ wire' = wire \ {p}
    /\ \/ Len(queue) < QueueCap /\ queue' = Append(queue, p) /\ dropped' = dropped \ {p}
       \/ Len(queue) = QueueCap /\ dropped' = dropped \cup {p} /\ UNCHANGED queue
    /\ reader' = "check"
    /\ UNCHANGED <<errs, ctxDone, work, agg, dnsBuf, run, final, flushing, disk, lost, faulty>>

(* ZeroCopyReadPacketData returns p; it is queued, or dropped when the     *)
(* channel is full, without waiting.                                       *)
ReadPacket(p) ==
    /\ reader = "read"
    /\ p \in wire
    /\ wire' = wire \ {p}
    /\ \/ Len(queue) < QueueCap /\ queue' = Append(queue, p) /\ UNCHANGED dropped
       \/ Len(queue) = QueueCap /\ dropped' = dropped \cup {p} /\ UNCHANGED queue
    /\ reader' = "check"
    /\ UNCHANGED <<errs, ctxDone, work, agg, dnsBuf, run, final, flushing, disk, lost, faulty>>

ReadError ==
    /\ reader = "read"
    /\ \/ ctxDone /\ reader' = "closed" /\ UNCHANGED errs
       \/ ~ctxDone /\ reader' = "check" /\ errs' = TRUE
    /\ UNCHANGED <<wire, queue, dropped, ctxDone, work, agg, dnsBuf, run, final>>
    /\ UNCHANGED <<flushing, disk, lost, faulty>>

Cancel ==
    /\ ~ctxDone
    /\ ctxDone' = TRUE
    /\ UNCHANGED <<reading, work, agg, dnsBuf, run, final, flushing, disk, lost, faulty>>

(***************************************************************************)
(* The decode goroutine: one packet at a time, each result under its own   *)
(* lock.                                                                   *)
(***************************************************************************)
Decode ==
    /\ work = <<>>
    /\ queue # <<>>
    /\ work' = Events[Head(queue)]
    /\ queue' = Tail(queue)
    /\ UNCHANGED <<wire, reader, dropped, errs, ctxDone, agg, dnsBuf, run, final>>
    /\ UNCHANGED <<flushing, disk, lost, faulty>>

(* agg.Add of a flow event, or the append of a query to dnsBuf.            *)
Apply ==
    /\ work # <<>>
    /\ LET i == Head(work) IN
         \/ i \in DNSItems /\ dnsBuf' = dnsBuf \cup {i} /\ UNCHANGED agg
         \/ i \notin DNSItems /\ agg' = [agg EXCEPT ![KeyOf[i]] = @ \cup {i}] /\ UNCHANGED dnsBuf
    /\ work' = Tail(work)
    /\ UNCHANGED <<reading, ctxDone, run, final, flushing, disk, lost, faulty>>

(* The packets channel is closed and drained: wg.Wait returns.             *)
DecoderDone == reader = "closed" /\ queue = <<>> /\ work = <<>>

(***************************************************************************)
(* Pipeline.Run and flush.                                                 *)
(***************************************************************************)

(* Mutant: Drain returns the table without swapping in a fresh one.        *)
DrainKeepsTable ==
    /\ bumped' = {}
    /\ drained' = agg
    /\ run' = "flows"
    /\ UNCHANGED <<reading, ctxDone, work, agg, dnsBuf, dnsDrained, records, hostCache>>
    /\ UNCHANGED <<disk, lost, faulty>>

(* flush begins: a fresh bumpedThisFlush, and Drain swaps the table.       *)
Drain ==
    /\ bumped' = {}
    /\ drained' = agg
    /\ agg' = EmptyTable
    /\ run' = "flows"
    /\ UNCHANGED <<reading, ctxDone, work, dnsBuf, dnsDrained, records, hostCache>>
    /\ UNCHANGED <<disk, lost, faulty>>

Tick ==
    /\ run = "select"
    /\ Drain
    /\ UNCHANGED final

(* The branch that logs a source error.  (A closed errs channel only       *)
(* disables the branch.)                                                   *)
LogError ==
    /\ run = "select"
    /\ errs
    /\ errs' = FALSE
    /\ UNCHANGED <<wire, reader, queue, dropped, ctxDone, work, agg, dnsBuf, run, final>>
    /\ UNCHANGED <<flushing, disk, lost, faulty>>

(* The ctx.Done branch enters wg.Wait ...                                  *)
Stop ==
    /\ run = "select"
    /\ ctxDone
    /\ run' = "wait"
    /\ UNCHANGED <<reading, ctxDone, work, agg, dnsBuf, final, flushing, disk, lost, faulty>>

(* Mutant: no wg.Wait before the final flush.                              *)
FinalFlushAtOnce ==
    /\ run = "wait"
    /\ final' = TRUE
    /\ Drain

(* ... and starts the final flush when the decode goroutine has exited.    *)
FinalFlush ==
    /\ run = "wait"
    /\ DecoderDone
    /\ final' = TRUE
    /\ Drain

(* UpsertHost: the id of the row, which exists afterwards; AUTOINCREMENT   *)
(* gives a new row the id after the last one handed out.                   *)
UpsertedID(ip) == IF hosts[ip] = 0 THEN hostSeq + 1 ELSE hosts[ip]

(* Mutant: a record of an address already bumped in this flush is skipped. *)
ResolveHostOnce(ip, S) ==
    /\ bumped' = bumped \cup {ip}
    /\ \/ /\ ip \in bumped
          /\ lost' = lost \cup S
          /\ UNCHANGED <<records, hostCache, hosts, hostSeq, faulty>>
       \/ /\ ip \notin bumped
          /\ hosts' = [hosts EXCEPT ![ip] = UpsertedID(ip)]
          /\ hostSeq' = IF hosts[ip] = 0 THEN hostSeq + 1 ELSE hostSeq
          /\ hostCache' = [hostCache EXCEPT ![ip] = UpsertedID(ip)]
          /\ records' = records \cup {[host |-> UpsertedID(ip), items |-> S]}
          /\ UNCHANGED <<lost, faulty>>

(* resolveHost(ip) for a record that counts the items S.  An address in    *)
(* bumpedThisFlush returns the cached id, whatever it is; a first call     *)
(* marks it before anything can fail.  Errors of UpsertHost on a cached    *)
(* address, and of SetHostMAC, are only logged.                            *)
ResolveHost(ip, S) ==
    \/ /\ ip \in bumped \/ hostCache[ip] # 0
       /\ bumped' = bumped \cup {ip}
       /\ records' = records \cup {[host |-> hostCache[ip], items |-> S]}
       /\ UNCHANGED <<hostCache, hosts, hostSeq, lost, faulty>>
    \/ /\ ip \notin bumped /\ hostCache[ip] = 0
       /\ bumped' = bumped \cup {ip}
       /\ hosts' = [hosts EXCEPT ![ip] = UpsertedID(ip)]
       /\ hostSeq' = IF hosts[ip] = 0 THEN hostSeq + 1 ELSE hostSeq
       /\ hostCache' = [hostCache EXCEPT ![ip] = UpsertedID(ip)]
       /\ records' = records \cup {[host |-> UpsertedID(ip), items |-> S]}
       /\ UNCHANGED <<lost, faulty>>
    \/ /\ ip \notin bumped /\ hostCache[ip] = 0
       /\ bumped' = bumped \cup {ip}
       /\ lost' = lost \cup S
       /\ faulty' = TRUE
       /\ UNCHANGED <<records, hostCache, hosts, hostSeq>>

ResolveFlow(k) ==
    /\ run = "flows"
    /\ drained[k] # {}
    /\ drained' = [drained EXCEPT ![k] = {}]
    /\ ResolveHost(LocalIP[k], drained[k])
    /\ UNCHANGED <<reading, ctxDone, work, agg, dnsBuf, run, final, dnsDrained, rows, stored>>

ResolveDNS(i) ==
    /\ run = "dns"
    /\ i \in dnsDrained
    /\ dnsDrained' = dnsDrained \ {i}
    /\ ResolveHost(IPOf[i], {i})
    /\ UNCHANGED <<reading, ctxDone, work, agg, dnsBuf, run, final, drained, rows, stored>>

Recorded(i) == \E r \in records : i \in r.items

(* Mutant: foreign_keys is not switched on.                                *)
ForeignKeysOff == TRUE

(* host_id REFERENCES hosts(id), with foreign_keys=ON.                     *)
ForeignKeysHold == \A r \in records : \E ip \in IPs : r.host = hosts[ip] /\ r.host # 0

(* InsertFlows or InsertDNSQueries: every record in one transaction ...    *)
Commit ==
    /\ ForeignKeysHold
    /\ rows' = rows \cup records
    /\ stored' = [i \in Items |-> IF Recorded(i) THEN stored[i] + 1 ELSE stored[i]]
    /\ UNCHANGED <<lost, faulty>>

(* ... or none of them: an error (of the engine, or a foreign key) rolls   *)
(* the transaction back, flush logs it, and the drained data is gone.      *)
Rollback ==
    /\ records # {}
    /\ lost' = lost \cup {i \in Items : Recorded(i)}
    /\ faulty' = TRUE
    /\ UNCHANGED <<rows, stored>>

Insert ==
    /\ Commit \/ Rollback
    /\ records' = {}
    /\ UNCHANGED <<reading, ctxDone, work, agg, drained, bumped, hostCache, hosts, hostSeq>>

(* Mutant: flush returns early when there were no flows.                   *)
InsertFlowsOrReturn ==
    /\ run = "flows"
    /\ drained = EmptyTable
    /\ Insert
    /\ run' = IF records # {} \/ final THEN "swap" ELSE "select"
    /\ UNCHANGED <<dnsBuf, dnsDrained, final>>

InsertFlows ==
    /\ run = "flows"
    /\ drained = EmptyTable
    /\ Insert
    /\ run' = "swap"
    /\ UNCHANGED <<dnsBuf, dnsDrained, final>>

(* flushDNS takes the buffer under dnsMu.                                  *)
SwapDNS ==
    /\ run = "swap"
    /\ dnsDrained' = dnsBuf
    /\ dnsBuf' = {}
    /\ run' = "dns"
    /\ UNCHANGED <<reading, ctxDone, work, agg, final, drained, records, bumped, hostCache>>
    /\ UNCHANGED <<disk, lost, faulty>>

(* Mutant: Run does not return after the final flush.                      *)
InsertDNSAndLoop ==
    /\ run = "dns"
    /\ dnsDrained = {}
    /\ Insert
    /\ run' = "select"
    /\ UNCHANGED <<dnsBuf, dnsDrained, final>>

(* The end of flush: back to the select or, after the final flush, return. *)
InsertDNS ==
    /\ run = "dns"
    /\ dnsDrained = {}
    /\ Insert
    /\ run' = IF final THEN "closed" ELSE "select"
    /\ UNCHANGED <<dnsBuf, dnsDrained, final>>

(***************************************************************************)
(* The process dies, or has returned, and is started again: what was only  *)
(* in memory is gone, the tables stay.                                     *)
(***************************************************************************)
InSeq(s, x) == \E n \in 1 .. Len(s) : s[n] = x

(* The items of the packets in the channel.                                *)
Queued(i) == \E p \in Packets : InSeq(queue, p) /\ InSeq(Events[p], i)

Aggregated(i) == i \notin DNSItems /\ i \in agg[KeyOf[i]]
Draining(i) == i \notin DNSItems /\ i \in drained[KeyOf[i]]

InMemory(i) ==
    \/ Queued(i) \/ InSeq(work, i) \/ Aggregated(i) \/ i \in dnsBuf
    \/ Draining(i) \/ i \in dnsDrained \/ Recorded(i)

Restart ==
    /\ lost' = lost \cup {i \in Items : InMemory(i)}
    /\ faulty' = (faulty \/ run # "closed")
    /\ ctxDone' = FALSE /\ reader' = "check" /\ queue' = <<>> /\ errs' = FALSE
    /\ work' = <<>> /\ agg' = EmptyTable /\ dnsBuf' = {}
    /\ run' = "select" /\ final' = FALSE
    /\ drained' = EmptyTable /\ dnsDrained' = {} /\ records' = {} /\ bumped' = {}
    /\ hostCache' = [ip \in IPs |-> 0]
    /\ UNCHANGED <<wire, dropped, disk>>

-----------------------------------------------------------------------------
ReadLoop == CheckCtx \/ ReadError \/ \E p \in Packets : ReadPacket(p)
DecodeLoop == Decode \/ Apply
RunLoop ==
    \/ Tick \/ LogError \/ Stop \/ FinalFlush
    \/ \E k \in Keys : ResolveFlow(k)
    \/ \E i \in Items : ResolveDNS(i)
    \/ InsertFlows \/ SwapDNS \/ InsertDNS

Next == ReadLoop \/ DecodeLoop \/ RunLoop \/ Cancel \/ Restart
Spec == Init /\ [][Next]_vars

(***************************************************************************)
(* Fairness.  The goroutines are scheduled: each enabled step is taken.    *)
(* Stop competes with Tick in a select, which chooses at random among the  *)
(* ready cases, so it is not passed over for ever.  Nothing is assumed of  *)
(* the network: the blocking read may never return.                        *)
(***************************************************************************)
GoroutineFairness ==
    /\ WF_vars(CheckCtx)
    /\ WF_vars(DecodeLoop)
    /\ WF_vars(Tick) /\ SF_vars(Stop) /\ WF_vars(FinalFlush)
    /\ WF_vars(\E k \in Keys : ResolveFlow(k)) /\ WF_vars(\E i \in Items : ResolveDNS(i))
    /\ WF_vars(InsertFlows) /\ WF_vars(SwapDNS) /\ WF_vars(InsertDNS)

(* The interface may stay silent.                                          *)
QuietSpec == Spec /\ GoroutineFairness

(* Every blocked read returns in the end, with a packet or an error.       *)
BusySpec == QuietSpec /\ WF_vars(ReadError \/ \E p \in Packets : ReadPacket(p))

-----------------------------------------------------------------------------
Of(S, i) == \E p \in S : InSeq(Events[p], i)
Bit(b) == IF b THEN 1 ELSE 0

(* How many places the event i is in.                                      *)
Places(i) ==
    stored[i] + Bit(Of(wire, i)) + Bit(Of(dropped, i)) + Bit(Queued(i)) + Bit(InSeq(work, i))
        + Bit(Aggregated(i)) + Bit(i \in dnsBuf) + Bit(Draining(i)) + Bit(i \in dnsDrained)
        + Bit(Recorded(i)) + Bit(i \in lost)

(* Every decoded event is in exactly one place: still on the wire, dropped *)
(* with its packet, in one stage of the pipeline, counted by one committed *)
(* row, or lost.  Add and Drain, and the appends to dnsBuf and its swap,   *)
(* interleave without counting an event twice and without forgetting one.  *)
ExactlyOnce == \A i \in Items : Places(i) = 1

(* When Run has returned, nothing that was accepted is still in memory:    *)
(* wg.Wait, then the flush, in that order, leave no event behind.          *)
FinalFlushComplete == run = "closed" => \A i \in Items : ~InMemory(i)

(* Every row belongs to the host of the events it counts, whatever failed  *)
(* in resolveHost, and across restarts that empty hostCache.               *)
RowsOwned ==
    \A r \in rows : \A i \in r.items : r.host # 0 /\ r.host = hosts[IPOf[i]]

(* Events are lost only after a failed database call or a crash: a run     *)
(* without either, stopped and restarted cleanly, stores all it accepts.   *)
NoSilentLoss == lost # {} => faulty

(* The pipeline implements the ledger: an event that entered is settled    *)
(* once and stays settled.                                                 *)
LedgerStatus(i) ==
    CASE Of(wire, i) -> "unseen"
      [] Of(dropped, i) -> "dropped"
      [] stored[i] > 0 -> "stored"
      [] i \in lost -> "lost"
      [] OTHER -> "pending"

Ledger == INSTANCE FlowLedger WITH status <- [i \in Items |-> LedgerStatus(i)]
LedgerSpec == Ledger!Spec

(* Whatever has been accepted is eventually in a row or lost: flushing     *)
(* goes on while packets arrive, and the final flush completes.            *)
EverythingSettles == \A i \in Items : InMemory(i) ~> (stored[i] > 0 \/ i \in lost)

(* Cancellation ends Run, final flush included (a restart begins anew).    *)
ShutdownCompletes == ctxDone ~> (run = "closed" \/ ~ctxDone)

(* resolveHost never returns an id without having handled the host: what   *)
(* it returned for a record names a row of hosts.                          *)
ResolvedIsHandled == \A r \in records : \E ip \in IPs : r.host = hosts[ip] /\ r.host # 0

-----------------------------------------------------------------------------
(***************************************************************************)
(* The inductive invariant behind the properties above.                    *)
(***************************************************************************)
Distinct(s) == \A m, n \in 1 .. Len(s) : s[m] = s[n] => m = n

(* A table holds under a key only flow events of that key.                 *)
KeyedTable(t) == \A k \in Keys : \A i \in t[k] : i \notin DNSItems /\ KeyOf[i] = k

ShapeInv ==
    /\ Distinct(queue) /\ Distinct(work) /\ \A p \in wire : ~InSeq(queue, p)
    /\ KeyedTable(agg) /\ KeyedTable(drained)
    /\ dnsBuf \subseteq DNSItems /\ dnsDrained \subseteq DNSItems

(* Which buffers of a flush can hold anything, by where Run is.            *)
PhaseInv ==
    /\ run # "flows" => drained = EmptyTable
    /\ run # "dns" => dnsDrained = {}
    /\ run \notin {"flows", "dns"} => records = {}
    /\ run = "closed" => final
    /\ final => DecoderDone /\ agg = EmptyTable /\ run \in {"flows", "swap", "dns", "closed"}
    /\ final /\ run \in {"dns", "closed"} => dnsBuf = {}

HostInv ==
    /\ \A ip \in IPs : hosts[ip] <= hostSeq
    /\ \A ip, jp \in IPs : hosts[ip] = hosts[jp] /\ hosts[ip] # 0 => ip = jp
    /\ \A ip \in IPs : hostCache[ip] # 0 => hostCache[ip] = hosts[ip]
    /\ \A r \in records : r.host # 0 => \A i \in r.items : r.host = hosts[IPOf[i]]
    /\ RowsOwned

IInv == TypeOK /\ ShapeInv /\ PhaseInv /\ HostInv /\ ExactlyOnce /\ NoSilentLoss
=============================================================================
