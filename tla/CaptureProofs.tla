--------------------------- MODULE CaptureProofs ---------------------------
(***************************************************************************)
(* Proofs about Capture, for any packets, keys, addresses and queue size:  *)
(* type correctness; that each step keeps the parts of the inductive       *)
(* invariant IInv, ExactlyOnce last; the safety properties that follow     *)
(* from it; and that the pipeline implements FlowLedger.                   *)
(***************************************************************************)
EXTENDS Capture, TLAPS

(***************************************************************************)
(* Sequences.                                                              *)
(***************************************************************************)

(* What is in a sequence is its head or in its tail; when its elements are *)
(* distinct the head is not in the tail, and the tail's are distinct too.  *)
LEMMA HeadTail ==
    ASSUME NEW S, NEW s \in Seq(S), s # <<>>
    PROVE  /\ Head(s) \in S /\ InSeq(s, Head(s))
           /\ \A x : InSeq(s, x) <=> x = Head(s) \/ InSeq(Tail(s), x)
           /\ Distinct(s) => ~InSeq(Tail(s), Head(s)) /\ Distinct(Tail(s))
  <1>1. /\ Len(s) \in Nat \ {0} /\ Head(s) = s[1] /\ 1 \in 1 .. Len(s) /\ s[1] \in S
        /\ Tail(s) \in Seq(S) /\ Len(Tail(s)) = Len(s) - 1
        /\ \A n \in 1 .. Len(s) - 1 : Tail(s)[n] = s[n + 1]
    OBVIOUS
  <1>2. \A n \in 1 .. Len(s) : n = 1 \/ n - 1 \in 1 .. Len(s) - 1
    BY <1>1
  <1>3. \A n \in 1 .. Len(s) - 1 : n + 1 \in 1 .. Len(s) /\ n + 1 # 1
    BY <1>1
  <1>4. ASSUME NEW x
        PROVE  InSeq(s, x) <=> x = Head(s) \/ InSeq(Tail(s), x)
    <2>1. ASSUME InSeq(s, x), x # Head(s)
          PROVE  InSeq(Tail(s), x)
      <3>1. PICK n \in 1 .. Len(s) : s[n] = x
        BY <2>1 DEF InSeq
      <3>2. n - 1 \in 1 .. Len(s) - 1 /\ Tail(s)[n - 1] = s[(n - 1) + 1] /\ (n - 1) + 1 = n
        BY <1>1, <1>2, <2>1, <3>1
      <3>3. QED
        BY <1>1, <3>1, <3>2 DEF InSeq
    <2>2. ASSUME InSeq(Tail(s), x)
          PROVE  InSeq(s, x)
      BY <1>1, <1>3, <2>2 DEF InSeq
    <2>3. QED
      BY <1>1, <2>1, <2>2 DEF InSeq
  <1>5. ASSUME Distinct(s)
        PROVE  ~InSeq(Tail(s), Head(s)) /\ Distinct(Tail(s))
    BY <1>1, <1>3, <1>5 DEF InSeq, Distinct
  <1>6. QED
    BY <1>1, <1>4, <1>5 DEF InSeq

(* Append adds its element and nothing else, and keeps the elements        *)
(* distinct when the new one was not there.                                *)
LEMMA AppendOne ==
    ASSUME NEW S, NEW s \in Seq(S), NEW e \in S
    PROVE  /\ Append(s, e) \in Seq(S) /\ Len(Append(s, e)) = Len(s) + 1
           /\ \A x : InSeq(Append(s, e), x) <=> x = e \/ InSeq(s, x)
           /\ Distinct(s) /\ ~InSeq(s, e) => Distinct(Append(s, e))
  <1>1. /\ Len(s) \in Nat /\ Len(Append(s, e)) = Len(s) + 1 /\ Append(s, e) \in Seq(S)
        /\ \A n \in 1 .. Len(s) : Append(s, e)[n] = s[n]
        /\ Append(s, e)[Len(s) + 1] = e
    OBVIOUS
  <1>2. 1 .. Len(s) + 1 = (1 .. Len(s)) \cup {Len(s) + 1}
    BY <1>1
  <1>3. QED
    BY <1>1, <1>2 DEF InSeq, Distinct

(* Nothing is in the empty sequence.                                       *)
LEMMA EmptySeq == /\ \A x : ~InSeq(<<>>, x)
                  /\ Distinct(<<>>)
  BY DEF InSeq, Distinct

(* What Decode yields for a packet: items, all different, and in no other  *)
(* packet.                                                                 *)
LEMMA DecodeFacts ==
    ASSUME NEW p \in Packets
    PROVE  /\ Events[p] \in Seq(Items) /\ Distinct(Events[p])
           /\ \A q \in Packets, i \in Items : InSeq(Events[p], i) /\ InSeq(Events[q], i) => p = q
  <1>1. Events[p] \in Seq(Items)
    BY DecodeAssumption
  <1>2. \A q \in Packets : \A m \in 1 .. Len(Events[p]), n \in 1 .. Len(Events[q]) :
           Events[p][m] = Events[q][n] => p = q /\ m = n
    BY DecodeAssumption
  <1>3. Distinct(Events[p])
    BY <1>2 DEF Distinct
  <1>4. QED
    BY <1>1, <1>2, <1>3 DEF InSeq

(***************************************************************************)
(* Type correctness.                                                       *)
(***************************************************************************)

(* The initial state has the types.                                        *)
LEMMA InitType == Init => TypeOK
  <1> SUFFICES ASSUME Init PROVE TypeOK
    OBVIOUS
  <1>1. queue \in Seq(Packets) /\ Len(queue) <= QueueCap /\ work \in Seq(Items)
    BY QueueCapAssumption DEF Init
  <1>2. /\ hostCache \in [IPs -> Nat] /\ hosts \in [IPs -> Nat] /\ hostSeq \in Nat
        /\ stored \in [Items -> Nat] /\ agg \in [Keys -> SUBSET Items]
        /\ drained \in [Keys -> SUBSET Items]
    BY DEF Init, EmptyTable
  <1>3. QED
    BY <1>1, <1>2, Zenon DEF Init, TypeOK

(* Every step keeps them, one case per action.                             *)
LEMMA NextType ==
    ASSUME TypeOK, [Next]_vars
    PROVE  TypeOK'
  <1> USE DEF TypeOK, reading, flushing, disk, EmptyTable, Record
  <1>1. CASE CheckCtx
    BY <1>1 DEF CheckCtx
  <1>2. ASSUME NEW p \in Packets, ReadPacket(p)
        PROVE  TypeOK'
    <2>1. /\ Len(queue) \in Nat
          /\ Append(queue, p) \in Seq(Packets) /\ Len(Append(queue, p)) = Len(queue) + 1
      BY AppendOne
    <2>2. queue' \in Seq(Packets) /\ Len(queue)' <= QueueCap /\ dropped' \subseteq Packets
      <3>1. CASE Len(queue) < QueueCap /\ queue' = Append(queue, p) /\ UNCHANGED dropped
        BY <2>1, <3>1, QueueCapAssumption
      <3>2. CASE dropped' = dropped \cup {p} /\ UNCHANGED queue
        BY <3>2
      <3>3. QED
        BY <1>2, <3>1, <3>2 DEF ReadPacket
    <2>3. QED
      BY <1>2, <2>2 DEF ReadPacket
  <1>3. CASE ReadError
    BY <1>3, Zenon DEF ReadError
  <1>4. CASE Cancel
    BY <1>4 DEF Cancel
  <1>5. CASE Decode
    <2>1. /\ Head(queue) \in Packets /\ Tail(queue) \in Seq(Packets)
          /\ Len(Tail(queue)) <= QueueCap
      BY <1>5, QueueCapAssumption DEF Decode
    <2>2. Events[Head(queue)] \in Seq(Items)
      BY <2>1, DecodeFacts
    <2>3. QED
      BY <1>5, <2>1, <2>2 DEF Decode
  <1>6. CASE Apply
    <2>1. Head(work) \in Items /\ Tail(work) \in Seq(Items)
      BY <1>6 DEF Apply
    <2>2. Head(work) \notin DNSItems => KeyOf[Head(work)] \in Keys
      BY <2>1, DecodeAssumption, Zenon
    <2>3. dnsBuf' \subseteq Items /\ agg' \in [Keys -> SUBSET Items]
      <3>1. CASE dnsBuf' = dnsBuf \cup {Head(work)} /\ UNCHANGED agg
        BY <2>1, <3>1
      <3>2. CASE /\ Head(work) \notin DNSItems /\ UNCHANGED dnsBuf
                 /\ agg' = [agg EXCEPT ![KeyOf[Head(work)]] = @ \cup {Head(work)}]
        BY <2>1, <2>2, <3>2
      <3>3. QED
        BY <1>6, <3>1, <3>2 DEF Apply
    <2>4. QED
      BY <1>6, <2>1, <2>3 DEF Apply
  <1>7. CASE Tick
    BY <1>7 DEF Tick, Drain
  <1>8. CASE LogError
    BY <1>8, Zenon DEF LogError
  <1>9. CASE Stop
    BY <1>9 DEF Stop
  <1>10. CASE FinalFlush
    BY <1>10 DEF FinalFlush, Drain
  <1>11. ASSUME NEW ip \in IPs, NEW S \in SUBSET Items, ResolveHost(ip, S)
         PROVE  /\ records' \subseteq Record /\ bumped' \subseteq IPs
                /\ hostCache' \in [IPs -> Nat] /\ hosts' \in [IPs -> Nat] /\ hostSeq' \in Nat
                /\ lost' \subseteq Items /\ faulty' \in BOOLEAN
    <2>1. UpsertedID(ip) \in Nat
      BY DEF UpsertedID
    <2>2. CASE /\ bumped' = bumped \cup {ip}
               /\ records' = records \cup {[host |-> hostCache[ip], items |-> S]}
               /\ UNCHANGED <<hostCache, hosts, hostSeq, lost, faulty>>
      <3>1. hostCache[ip] \in Nat
        OBVIOUS
      <3>2. QED
        BY <2>2, <3>1
    <2>3. CASE /\ bumped' = bumped \cup {ip}
               /\ hosts' = [hosts EXCEPT ![ip] = UpsertedID(ip)]
               /\ hostSeq' = IF hosts[ip] = 0 THEN hostSeq + 1 ELSE hostSeq
               /\ hostCache' = [hostCache EXCEPT ![ip] = UpsertedID(ip)]
               /\ records' = records \cup {[host |-> UpsertedID(ip), items |-> S]}
               /\ UNCHANGED <<lost, faulty>>
      BY <2>1, <2>3
    <2>4. CASE /\ bumped' = bumped \cup {ip} /\ lost' = lost \cup S /\ faulty' = TRUE
               /\ UNCHANGED <<records, hostCache, hosts, hostSeq>>
      BY <2>4
    <2>5. QED
      BY <1>11, <2>2, <2>3, <2>4, Zenon DEF ResolveHost
  <1>12. ASSUME NEW k \in Keys, ResolveFlow(k)
         PROVE  TypeOK'
    <2>1. LocalIP[k] \in IPs /\ drained[k] \in SUBSET Items /\ ResolveHost(LocalIP[k], drained[k])
      BY <1>12, DecodeAssumption, Zenon DEF ResolveFlow
    <2>2. QED
      BY <1>11, <1>12, <2>1 DEF ResolveFlow
  <1>13. ASSUME NEW i \in Items, ResolveDNS(i)
         PROVE  TypeOK'
    <2>1. IPOf[i] \in IPs /\ {i} \in SUBSET Items /\ ResolveHost(IPOf[i], {i})
      BY <1>13, DecodeAssumption DEF ResolveDNS
    <2>2. QED
      BY <1>11, <1>13, <2>1 DEF ResolveDNS
  <1>14. ASSUME Insert
         PROVE  /\ rows' \subseteq Record /\ stored' \in [Items -> Nat]
                /\ lost' \subseteq Items /\ faulty' \in BOOLEAN /\ records' \subseteq Record
    <2>1. CASE Commit
      BY <1>14, <2>1 DEF Insert, Commit
    <2>2. CASE Rollback
      BY <1>14, <2>2 DEF Insert, Rollback
    <2>3. QED
      BY <1>14, <2>1, <2>2 DEF Insert
  <1>15. CASE InsertFlows
    BY <1>14, <1>15 DEF InsertFlows, Insert
  <1>16. CASE SwapDNS
    BY <1>16 DEF SwapDNS
  <1>17. CASE InsertDNS
    BY <1>14, <1>17 DEF InsertDNS, Insert
  <1>18. CASE Restart
    <2>1. /\ queue' \in Seq(Packets) /\ Len(queue') <= QueueCap /\ work' \in Seq(Items)
          /\ agg' \in [Keys -> SUBSET Items] /\ drained' \in [Keys -> SUBSET Items]
          /\ hostCache' \in [IPs -> Nat] /\ lost' \subseteq Items
      BY <1>18, QueueCapAssumption DEF Restart
    <2>2. faulty' \in BOOLEAN
      BY <1>18 DEF Restart
    <2>3. QED
      BY <1>18, <2>1, <2>2, Zenon DEF Restart
  <1>19. CASE UNCHANGED vars
    BY <1>19 DEF vars
  <1>20. QED
    BY Zenon, <1>1, <1>2, <1>3, <1>4, <1>5, <1>6, <1>7, <1>8, <1>9, <1>10, <1>12, <1>13, <1>15, <1>16,
       <1>17, <1>18, <1>19, Zenon DEF Next, ReadLoop, DecodeLoop, RunLoop

(* Every variable keeps its type.                                          *)
THEOREM TypeCorrect == Spec => []TypeOK
  <1>1. TypeOK /\ [Next]_vars => TypeOK'
    BY NextType
  <1>2. QED
    BY <1>1, InitType, PTL DEF Spec

(***************************************************************************)
(* The shape of the buffers.                                               *)
(***************************************************************************)

(* Elements of the queue and of the results being applied stay distinct,   *)
(* and tables keep each event under its own key.                           *)
LEMMA ShapeStep ==
    ASSUME TypeOK, ShapeInv, [Next]_vars
    PROVE  ShapeInv'
  <1> USE DEF ShapeInv, reading, flushing, disk
  <1>1. CASE UNCHANGED <<wire, queue, work, agg, drained, dnsBuf, dnsDrained>>
    BY <1>1 DEF KeyedTable
  <1>2. ASSUME NEW p \in Packets, ReadPacket(p)
        PROVE  ShapeInv'
    <2>1. UNCHANGED <<work, agg, drained, dnsBuf, dnsDrained>> /\ wire' = wire \ {p} /\ p \in wire
      BY <1>2 DEF ReadPacket
    <2>2. CASE UNCHANGED queue
      BY <2>1, <2>2
    <2>3. CASE queue' = Append(queue, p)
      <3>1. queue \in Seq(Packets) /\ ~InSeq(queue, p) /\ Distinct(queue)
        BY <2>1 DEF TypeOK
      <3>2. Distinct(queue')
        BY <2>3, <3>1, AppendOne
      <3>3. \A q \in wire' : ~InSeq(queue', q)
        BY <2>1, <2>3, <3>1, AppendOne
      <3>4. QED
        BY <2>1, <3>2, <3>3
    <2>4. QED
      BY <1>2, <2>2, <2>3 DEF ReadPacket
  <1>3. CASE Decode
    <2>1. /\ queue \in Seq(Packets) /\ queue # <<>>
          /\ queue' = Tail(queue) /\ work' = Events[Head(queue)]
          /\ UNCHANGED <<wire, agg, drained, dnsBuf, dnsDrained>>
      BY <1>3 DEF Decode, TypeOK
    <2>2. Distinct(queue') /\ \A q \in wire' : ~InSeq(queue', q)
      BY <2>1, HeadTail
    <2>3. Distinct(work')
      BY <2>1, HeadTail, DecodeFacts
    <2>4. QED
      BY <2>1, <2>2, <2>3
  <1>4. CASE Apply
    <2>1. /\ work \in Seq(Items) /\ work # <<>> /\ Head(work) \in Items /\ work' = Tail(work)
          /\ UNCHANGED <<wire, queue, drained, dnsDrained>>
      BY <1>4, HeadTail DEF Apply, TypeOK
    <2>2. Distinct(work')
      BY <2>1, HeadTail
    <2>3. CASE /\ Head(work) \in DNSItems
               /\ dnsBuf' = dnsBuf \cup {Head(work)} /\ UNCHANGED agg
      BY <2>1, <2>2, <2>3 DEF KeyedTable
    <2>4. CASE /\ Head(work) \notin DNSItems /\ UNCHANGED dnsBuf
               /\ agg' = [agg EXCEPT ![KeyOf[Head(work)]] = @ \cup {Head(work)}]
      <3>1. KeyedTable(agg')
        BY <2>1, <2>4 DEF TypeOK, KeyedTable
      <3>2. QED
        BY <2>1, <2>2, <2>4, <3>1
    <2>5. QED
      BY <1>4, <2>3, <2>4 DEF Apply
  <1>5. CASE Drain
    <2>1. KeyedTable(agg') /\ KeyedTable(drained')
      BY <1>5 DEF Drain, KeyedTable, EmptyTable
    <2>2. QED
      BY <1>5, <2>1 DEF Drain
  <1>6. ASSUME NEW k \in Keys, ResolveFlow(k)
        PROVE  ShapeInv'
    <2>1. KeyedTable(drained')
      BY <1>6, SMTT(30) DEF ResolveFlow, KeyedTable, TypeOK
    <2>2. QED
      BY <1>6, <2>1 DEF ResolveFlow
  <1>7. ASSUME NEW i \in Items, ResolveDNS(i)
        PROVE  ShapeInv'
    BY <1>7 DEF ResolveDNS
  <1>8. CASE SwapDNS
    BY <1>8 DEF SwapDNS
  <1>9. CASE Restart
    <2>1. KeyedTable(agg') /\ KeyedTable(drained')
      BY <1>9 DEF Restart, KeyedTable, EmptyTable
    <2>2. QED
      BY <1>9, <2>1, EmptySeq DEF Restart
  <1>10. CheckCtx \/ ReadError \/ Cancel \/ LogError \/ Stop \/ InsertFlows \/ InsertDNS
            \/ UNCHANGED vars => UNCHANGED <<wire, queue, work, agg, drained, dnsBuf, dnsDrained>>
    BY DEF CheckCtx, ReadError, Cancel, LogError, Stop, InsertFlows, InsertDNS, Insert, vars
  <1>11. QED
    BY <1>1, <1>2, <1>3, <1>4, <1>5, <1>6, <1>7, <1>8, <1>9, <1>10
    DEF Next, ReadLoop, DecodeLoop, RunLoop, Tick, FinalFlush

(***************************************************************************)
(* The phases of Run.                                                      *)
(***************************************************************************)

(* Each buffer of a flush is empty outside its phase, and the final flush  *)
(* starts after the decode goroutine has exited.                           *)
LEMMA PhaseStep ==
    ASSUME TypeOK, PhaseInv, [Next]_vars
    PROVE  PhaseInv'
  <1> USE DEF PhaseInv, DecoderDone, reading, flushing, disk
  <1>1. CASE UNCHANGED <<reader, queue, work, agg, dnsBuf, run, final, drained, dnsDrained, records>>
    BY <1>1
  <1>2. CASE CheckCtx
    BY <1>2 DEF CheckCtx
  <1>3. ASSUME NEW p \in Packets, ReadPacket(p)
        PROVE  PhaseInv'
    BY <1>3 DEF ReadPacket
  <1>4. CASE ReadError
    BY <1>4 DEF ReadError
  <1>5. CASE Decode
    BY <1>5 DEF Decode
  <1>6. CASE Apply
    BY <1>6 DEF Apply
  <1>7. CASE Tick
    BY <1>7 DEF Tick, Drain
  <1>8. CASE Stop
    BY <1>8 DEF Stop
  <1>9. CASE FinalFlush
    BY <1>9 DEF FinalFlush, Drain
  <1>10. ASSUME NEW k \in Keys, ResolveFlow(k)
         PROVE  PhaseInv'
    BY <1>10 DEF ResolveFlow
  <1>11. ASSUME NEW i \in Items, ResolveDNS(i)
         PROVE  PhaseInv'
    BY <1>11 DEF ResolveDNS
  <1>12. CASE InsertFlows
    BY <1>12 DEF InsertFlows, Insert
  <1>13. CASE SwapDNS
    BY <1>13 DEF SwapDNS
  <1>14. CASE InsertDNS
    BY <1>14 DEF InsertDNS, Insert, TypeOK
  <1>15. CASE Restart
    BY <1>15 DEF Restart
  <1>16. Cancel \/ LogError \/ UNCHANGED vars => UNCHANGED
            <<reader, queue, work, agg, dnsBuf, run, final, drained, dnsDrained, records>>
    BY DEF Cancel, LogError, vars
  <1>17. QED
    BY Zenon, <1>1, <1>2, <1>3, <1>4, <1>5, <1>6, <1>7, <1>8, <1>9, <1>10, <1>11, <1>12, <1>13, <1>14,
       <1>15, <1>16 DEF Next, ReadLoop, DecodeLoop, RunLoop

(* The phases imply that a Run that has returned left nothing in memory.   *)
LEMMA ClosedIsEmpty ==
    ASSUME TypeOK, PhaseInv, run = "closed", NEW i \in Items
    PROVE  ~InMemory(i)
  <1>1. /\ queue = <<>> /\ work = <<>> /\ agg = EmptyTable /\ dnsBuf = {}
        /\ drained = EmptyTable /\ dnsDrained = {} /\ records = {}
    BY DEF PhaseInv, DecoderDone
  <1>2. ~Queued(i) /\ ~InSeq(work, i)
    BY <1>1, EmptySeq DEF Queued
  <1>3. ~Aggregated(i) /\ ~Draining(i)
    BY <1>1, DecodeAssumption DEF Aggregated, Draining, EmptyTable
  <1>4. QED
    BY <1>1, <1>2, <1>3 DEF InMemory, Recorded

(* lost grows only in a step that sets faulty, or in a restart after a Run *)
(* that returned, which finds nothing in memory.                           *)
LEMMA LossStep ==
    ASSUME TypeOK, PhaseInv, NoSilentLoss, [Next]_vars
    PROVE  NoSilentLoss'
  <1> USE DEF NoSilentLoss
  <1>1. CASE UNCHANGED <<lost, faulty>> \/ faulty' = TRUE
    BY <1>1
  <1>2. CASE Restart
    <2>1. CASE run = "closed"
      <3>1. lost' = lost
        BY <1>2, <2>1, ClosedIsEmpty DEF Restart
      <3>2. QED
        BY <1>2, <3>1, Zenon DEF Restart
    <2>2. CASE run # "closed"
      BY <1>2, <2>2, Zenon DEF Restart
    <2>3. QED
      BY <2>1, <2>2
  <1>3. ASSUME NEW k \in Keys, ResolveFlow(k)
        PROVE  UNCHANGED <<lost, faulty>> \/ faulty' = TRUE
    BY <1>3 DEF ResolveFlow, ResolveHost
  <1>4. ASSUME NEW i \in Items, ResolveDNS(i)
        PROVE  UNCHANGED <<lost, faulty>> \/ faulty' = TRUE
    BY <1>4 DEF ResolveDNS, ResolveHost
  <1>5. Insert => UNCHANGED <<lost, faulty>> \/ faulty' = TRUE
    BY DEF Insert, Commit, Rollback
  <1>6. ASSUME NEW p \in Packets, ReadPacket(p)
        PROVE  UNCHANGED <<lost, faulty>>
    BY <1>6 DEF ReadPacket
  <1>7. CheckCtx \/ ReadError \/ Cancel \/ Decode \/ Apply \/ Drain \/ LogError \/ Stop
           \/ SwapDNS \/ UNCHANGED vars => UNCHANGED <<lost, faulty>>
    BY DEF CheckCtx, ReadError, Cancel, Decode, Apply, Drain, LogError, Stop, SwapDNS, vars
  <1>8. QED
    BY <1>1, <1>2, <1>3, <1>4, <1>5, <1>6, <1>7, Zenon
    DEF Next, ReadLoop, DecodeLoop, RunLoop, Tick, FinalFlush, InsertFlows, InsertDNS

(***************************************************************************)
(* Who owns a record.                                                      *)
(***************************************************************************)

(* resolveHost keeps the hosts table, the cache and the records in         *)
(* agreement, for a record whose events are all of the address resolved.   *)
LEMMA ResolveHostKeepsOwners ==
    ASSUME TypeOK, HostInv, NEW ip \in IPs, NEW S \in SUBSET Items, ResolveHost(ip, S),
           \A i \in S : IPOf[i] = ip, UNCHANGED rows
    PROVE  HostInv'
  <1>0. \A i \in Items : IPOf[i] \in IPs
    BY DecodeAssumption
  <1>1. hosts \in [IPs -> Nat] /\ hostSeq \in Nat /\ hostCache \in [IPs -> Nat]
        /\ records \subseteq Record /\ rows \subseteq Record
    BY DEF TypeOK
  <1>2. CASE /\ records' = records \cup {[host |-> hostCache[ip], items |-> S]}
             /\ UNCHANGED <<hostCache, hosts, hostSeq>>
    <2>1. \A r \in records' : r.host # 0 => \A i \in r.items : r.host = hosts[IPOf[i]]
      <3>1. \A i \in S : hostCache[ip] # 0 => hostCache[ip] = hosts[IPOf[i]]
        BY Zenon DEF HostInv
      <3>2. \A r \in records : r.host # 0 => \A i \in r.items : r.host = hosts[IPOf[i]]
        BY Zenon DEF HostInv
      <3>3. [host |-> hostCache[ip], items |-> S].items = S
            /\ [host |-> hostCache[ip], items |-> S].host = hostCache[ip]
        BY Zenon
      <3>4. ASSUME NEW r \in records', r.host # 0, NEW i \in r.items
            PROVE  r.host = hosts[IPOf[i]]
        <4>1. CASE r \in records
          BY <3>2, <3>4, <4>1
        <4>2. CASE r = [host |-> hostCache[ip], items |-> S]
          BY <3>1, <3>3, <3>4, <4>2
        <4>3. QED
          BY <1>2, <4>1, <4>2
      <3>5. QED
        BY <3>4
    <2>2. QED
      BY <1>2, <2>1, ZenonT(30) DEF HostInv, RowsOwned
  <1>3. CASE /\ hostCache[ip] = 0
             /\ hosts' = [hosts EXCEPT ![ip] = UpsertedID(ip)]
             /\ hostSeq' = IF hosts[ip] = 0 THEN hostSeq + 1 ELSE hostSeq
             /\ hostCache' = [hostCache EXCEPT ![ip] = UpsertedID(ip)]
             /\ records' = records \cup {[host |-> UpsertedID(ip), items |-> S]}
    <2>1. /\ UpsertedID(ip) \in Nat \ {0}
          /\ hosts[ip] # 0 => UpsertedID(ip) = hosts[ip] /\ hosts' = hosts /\ hostSeq' = hostSeq
          /\ hosts[ip] = 0 => UpsertedID(ip) = hostSeq + 1 /\ hostSeq' = hostSeq + 1
      BY <1>1, <1>3 DEF UpsertedID
    <2>2. \A jp \in IPs : hosts'[jp] = IF jp = ip THEN UpsertedID(ip) ELSE hosts[jp]
      BY <1>1, <1>3
    <2>3. \A jp \in IPs : hosts[jp] # 0 => hosts'[jp] = hosts[jp]
      BY <2>1, <2>2
    <2>4. \A jp \in IPs : hosts'[jp] <= hostSeq'
      <3>1. \A jp \in IPs : hosts[jp] \in Nat /\ hosts[jp] <= hostSeq
        BY <1>1 DEF HostInv
      <3>2. CASE hosts[ip] = 0
        <4>1. \A jp \in IPs : hosts'[jp] = hostSeq + 1 \/ hosts'[jp] = hosts[jp]
          BY <2>1, <2>2, <3>2
        <4>2. \A jp \in IPs : hosts[jp] <= hostSeq + 1
          BY <1>1, <3>1
        <4>3. hostSeq + 1 <= hostSeq + 1 /\ hostSeq' = hostSeq + 1
          BY <1>1, <2>1, <3>2
        <4>4. QED
          BY <4>1, <4>2, <4>3, Zenon
      <3>3. CASE hosts[ip] # 0
        BY <2>1, <3>1, <3>3
      <3>4. QED
        BY <3>2, <3>3
    <2>5. \A jp, kp \in IPs : hosts'[jp] = hosts'[kp] /\ hosts'[jp] # 0 => jp = kp
      BY <1>1, <2>1, <2>2, SMTT(30) DEF HostInv
    <2>6. \A jp \in IPs : hostCache'[jp] # 0 => hostCache'[jp] = hosts'[jp]
      BY <1>1, <1>3, <2>2 DEF HostInv
    <2>7. \A r \in records' : r.host # 0 => \A i \in r.items : r.host = hosts'[IPOf[i]]
      <3>1. ASSUME NEW r \in records, r.host # 0, NEW i \in r.items
            PROVE  r.host = hosts'[IPOf[i]]
        <4>1. i \in Items /\ IPOf[i] \in IPs
          BY <1>0, <1>1 DEF Record
        <4>2. QED
          BY <2>3, <3>1, <4>1, Zenon DEF HostInv
      <3>2. \A i \in S : UpsertedID(ip) = hosts'[IPOf[i]]
        BY <2>2
      <3>3. QED
        BY <1>3, <3>1, <3>2, SMTT(30)
    <2>8. RowsOwned'
      <3>1. ASSUME NEW r \in rows, NEW i \in r.items
            PROVE  r.host # 0 /\ r.host = hosts'[IPOf[i]]
        <4>1. i \in Items /\ IPOf[i] \in IPs
          BY <1>0, <1>1 DEF Record
        <4>2. r.host # 0 /\ r.host = hosts[IPOf[i]]
          BY DEF HostInv, RowsOwned
        <4>3. QED
          BY <2>3, <4>1, <4>2
      <3>2. QED
        BY <3>1 DEF RowsOwned
    <2>9. QED
      BY <2>4, <2>5, <2>6, <2>7, <2>8 DEF HostInv
  <1>4. CASE UNCHANGED <<records, hostCache, hosts, hostSeq>>
    BY <1>4 DEF HostInv, RowsOwned
  <1>5. QED
    BY <1>2, <1>3, <1>4, Zenon DEF ResolveHost

(* A committed record passed the foreign key, so its host is not 0 and the *)
(* record's owner becomes the row's.                                       *)
LEMMA HostStep ==
    ASSUME TypeOK, ShapeInv, HostInv, [Next]_vars
    PROVE  HostInv'
  <1> USE DEF reading, flushing, disk
  <1>1. CASE UNCHANGED <<records, hostCache, hosts, hostSeq, rows>>
    BY <1>1 DEF HostInv, RowsOwned
  <1>2. ASSUME NEW k \in Keys, ResolveFlow(k)
        PROVE  HostInv'
    <2>1. /\ LocalIP[k] \in IPs /\ drained[k] \in SUBSET Items
          /\ ResolveHost(LocalIP[k], drained[k]) /\ UNCHANGED rows
      BY <1>2, DecodeAssumption, Zenon DEF ResolveFlow, TypeOK
    <2>2. \A i \in drained[k] : IPOf[i] = LocalIP[k]
      <3>1. \A i \in drained[k] : i \in Items \ DNSItems /\ KeyOf[i] = k
        BY <2>1, Zenon DEF ShapeInv, KeyedTable
      <3>2. \A i \in Items \ DNSItems : LocalIP[KeyOf[i]] = IPOf[i]
        BY DecodeAssumption, Zenon
      <3>3. QED
        BY <3>1, <3>2, Zenon
    <2>3. QED
      BY <2>1, <2>2, ResolveHostKeepsOwners
  <1>3. ASSUME NEW i \in Items, ResolveDNS(i)
        PROVE  HostInv'
    <2>1. IPOf[i] \in IPs /\ {i} \in SUBSET Items /\ ResolveHost(IPOf[i], {i}) /\ UNCHANGED rows
      BY <1>3, DecodeAssumption DEF ResolveDNS
    <2>2. \A j \in {i} : IPOf[j] = IPOf[i]
      OBVIOUS
    <2>3. QED
      BY <2>1, <2>2, ResolveHostKeepsOwners
  <1>4. CASE Insert
    <2>1. records' = {} /\ UNCHANGED <<hostCache, hosts, hostSeq>>
      BY <1>4 DEF Insert
    <2>2. CASE Commit
      <3>1. \A r \in records : r.host # 0
        BY <2>2 DEF Commit, ForeignKeysHold
      <3>2. RowsOwned'
        BY <2>1, <2>2, <3>1, Zenon DEF Commit, HostInv, RowsOwned
      <3>3. QED
        BY <2>1, <3>2 DEF HostInv
    <2>3. CASE Rollback
      BY <2>1, <2>3, Zenon DEF Rollback, HostInv, RowsOwned
    <2>4. QED
      BY <1>4, <2>2, <2>3 DEF Insert
  <1>5. CASE Restart
    <2>1. records' = {} /\ hostCache' = [ip \in IPs |-> 0] /\ UNCHANGED <<hosts, hostSeq, rows>>
      BY <1>5 DEF Restart
    <2>2. QED
      BY <2>1, Zenon DEF HostInv, RowsOwned
  <1>6. ASSUME NEW p \in Packets, ReadPacket(p)
        PROVE  UNCHANGED <<records, hostCache, hosts, hostSeq, rows>>
    BY <1>6 DEF ReadPacket
  <1>7. CheckCtx \/ ReadError \/ Cancel \/ Decode \/ Apply \/ Drain \/ LogError \/ Stop
           \/ SwapDNS \/ UNCHANGED vars => UNCHANGED <<records, hostCache, hosts, hostSeq, rows>>
    BY Zenon DEF CheckCtx, ReadError, Cancel, Decode, Apply, Drain, LogError, Stop, SwapDNS, vars
  <1>8. QED
    BY <1>1, <1>2, <1>3, <1>4, <1>5, <1>6, <1>7
    DEF Next, ReadLoop, DecodeLoop, RunLoop, Tick, FinalFlush, InsertFlows, InsertDNS

-----------------------------------------------------------------------------
(***************************************************************************)
(* ExactlyOnce: each step moves the events it touches from one place to    *)
(* one other.                                                              *)
(***************************************************************************)

(* Places(i) = 1 without arithmetic: some place holds the event, and no    *)
(* place does together with one listed after it.                           *)
OnePlace(i) ==
    /\ stored[i] = 0 \/ stored[i] = 1
    /\ stored[i] = 1 \/ Of(wire, i) \/ Of(dropped, i) \/ Queued(i) \/ InSeq(work, i)
       \/ Aggregated(i) \/ i \in dnsBuf \/ Draining(i) \/ i \in dnsDrained \/ Recorded(i)
       \/ i \in lost
    /\ stored[i] = 1 => ~(Of(wire, i) \/ Of(dropped, i) \/ Queued(i) \/ InSeq(work, i)
          \/ Aggregated(i) \/ i \in dnsBuf \/ Draining(i) \/ i \in dnsDrained \/ Recorded(i)
          \/ i \in lost)
    /\ Of(wire, i) => ~(Of(dropped, i) \/ Queued(i) \/ InSeq(work, i) \/ Aggregated(i)
          \/ i \in dnsBuf \/ Draining(i) \/ i \in dnsDrained \/ Recorded(i) \/ i \in lost)
    /\ Of(dropped, i) => ~(Queued(i) \/ InSeq(work, i) \/ Aggregated(i) \/ i \in dnsBuf
          \/ Draining(i) \/ i \in dnsDrained \/ Recorded(i) \/ i \in lost)
    /\ Queued(i) => ~(InSeq(work, i) \/ Aggregated(i) \/ i \in dnsBuf \/ Draining(i)
          \/ i \in dnsDrained \/ Recorded(i) \/ i \in lost)
    /\ InSeq(work, i) => ~(Aggregated(i) \/ i \in dnsBuf \/ Draining(i) \/ i \in dnsDrained
          \/ Recorded(i) \/ i \in lost)
    /\ Aggregated(i) => ~(i \in dnsBuf \/ Draining(i) \/ i \in dnsDrained \/ Recorded(i)
          \/ i \in lost)
    /\ i \in dnsBuf => ~(Draining(i) \/ i \in dnsDrained \/ Recorded(i) \/ i \in lost)
    /\ Draining(i) => ~(i \in dnsDrained \/ Recorded(i) \/ i \in lost)
    /\ i \in dnsDrained => ~(Recorded(i) \/ i \in lost)
    /\ Recorded(i) => ~(i \in lost)

(* Places(i) = 1 says the same as OnePlace(i).                             *)
LEMMA PlacesOne ==
    ASSUME NEW i \in Items, stored[i] \in Nat
    PROVE  Places(i) = 1 <=> OnePlace(i)
  <1> DEFINE n == stored[i]
             b1 == Bit(Of(wire, i))
             b2 == Bit(Of(dropped, i))
             b3 == Bit(Queued(i))
             b4 == Bit(InSeq(work, i))
             b5 == Bit(Aggregated(i))
             b6 == Bit(i \in dnsBuf)
             b7 == Bit(Draining(i))
             b8 == Bit(i \in dnsDrained)
             b9 == Bit(Recorded(i))
             b10 == Bit(i \in lost)
             OneBit ==
               /\ n = 0 \/ n = 1
               /\ n = 1 \/ b1 = 1 \/ b2 = 1 \/ b3 = 1 \/ b4 = 1 \/ b5 = 1 \/ b6 = 1 \/ b7 = 1
                  \/ b8 = 1 \/ b9 = 1 \/ b10 = 1
               /\ n = 1 => b1 = 0 /\ b2 = 0 /\ b3 = 0 /\ b4 = 0 /\ b5 = 0 /\ b6 = 0 /\ b7 = 0
                  /\ b8 = 0 /\ b9 = 0 /\ b10 = 0
               /\ b1 = 1 => b2 = 0 /\ b3 = 0 /\ b4 = 0 /\ b5 = 0 /\ b6 = 0 /\ b7 = 0 /\ b8 = 0
                  /\ b9 = 0 /\ b10 = 0
               /\ b2 = 1 => b3 = 0 /\ b4 = 0 /\ b5 = 0 /\ b6 = 0 /\ b7 = 0 /\ b8 = 0 /\ b9 = 0
                  /\ b10 = 0
               /\ b3 = 1 => b4 = 0 /\ b5 = 0 /\ b6 = 0 /\ b7 = 0 /\ b8 = 0 /\ b9 = 0 /\ b10 = 0
               /\ b4 = 1 => b5 = 0 /\ b6 = 0 /\ b7 = 0 /\ b8 = 0 /\ b9 = 0 /\ b10 = 0
               /\ b5 = 1 => b6 = 0 /\ b7 = 0 /\ b8 = 0 /\ b9 = 0 /\ b10 = 0
               /\ b6 = 1 => b7 = 0 /\ b8 = 0 /\ b9 = 0 /\ b10 = 0
               /\ b7 = 1 => b8 = 0 /\ b9 = 0 /\ b10 = 0
               /\ b8 = 1 => b9 = 0 /\ b10 = 0
               /\ b9 = 1 => b10 = 0
  <1>1. /\ n \in Nat
        /\ b1 \in {0, 1} /\ (b1 = 1 <=> Of(wire, i))
        /\ b2 \in {0, 1} /\ (b2 = 1 <=> Of(dropped, i))
        /\ b3 \in {0, 1} /\ (b3 = 1 <=> Queued(i))
        /\ b4 \in {0, 1} /\ (b4 = 1 <=> InSeq(work, i))
        /\ b5 \in {0, 1} /\ (b5 = 1 <=> Aggregated(i))
        /\ b6 \in {0, 1} /\ (b6 = 1 <=> i \in dnsBuf)
        /\ b7 \in {0, 1} /\ (b7 = 1 <=> Draining(i))
        /\ b8 \in {0, 1} /\ (b8 = 1 <=> i \in dnsDrained)
        /\ b9 \in {0, 1} /\ (b9 = 1 <=> Recorded(i))
        /\ b10 \in {0, 1} /\ (b10 = 1 <=> i \in lost)
    BY DEF Bit
  <1>2. Places(i) = n + b1 + b2 + b3 + b4 + b5 + b6 + b7 + b8 + b9 + b10
    BY DEF Places
  <1> HIDE DEF n, b1, b2, b3, b4, b5, b6, b7, b8, b9, b10
  <1>3. n \in Nat /\ b1 \in {0, 1} /\ b2 \in {0, 1} /\ b3 \in {0, 1} /\ b4 \in {0, 1} /\ b5 \in {0, 1}
        /\ b6 \in {0, 1} /\ b7 \in {0, 1} /\ b8 \in {0, 1} /\ b9 \in {0, 1} /\ b10 \in {0, 1}
    BY <1>1
  <1>4. Places(i) = 1 => OneBit
    BY <1>2, <1>3
  <1>5. OneBit => Places(i) = 1
    BY <1>2, <1>3
  <1>6. OneBit <=> OnePlace(i)
    <2>1. /\ (b1 = 0 <=> ~(b1 = 1)) /\ (b2 = 0 <=> ~(b2 = 1)) /\ (b3 = 0 <=> ~(b3 = 1))
          /\ (b4 = 0 <=> ~(b4 = 1)) /\ (b5 = 0 <=> ~(b5 = 1)) /\ (b6 = 0 <=> ~(b6 = 1))
          /\ (b7 = 0 <=> ~(b7 = 1)) /\ (b8 = 0 <=> ~(b8 = 1)) /\ (b9 = 0 <=> ~(b9 = 1))
          /\ (b10 = 0 <=> ~(b10 = 1))
      BY <1>3
    <2>2. n = stored[i]
      BY Zenon DEF n
    <2>3. QED
      BY <1>1, <2>1, <2>2 DEF OnePlace
  <1>7. QED
    BY <1>4, <1>5, <1>6

(* The same of the state after a step.                                     *)
LEMMA PlacesOneNext ==
    ASSUME NEW i \in Items, stored'[i] \in Nat
    PROVE  Places(i)' = 1 <=> OnePlace(i)'
  <1> DEFINE n == stored'[i]
             b1 == Bit(Of(wire, i)')
             b2 == Bit(Of(dropped, i)')
             b3 == Bit(Queued(i)')
             b4 == Bit(InSeq(work, i)')
             b5 == Bit(Aggregated(i)')
             b6 == Bit((i \in dnsBuf)')
             b7 == Bit(Draining(i)')
             b8 == Bit((i \in dnsDrained)')
             b9 == Bit(Recorded(i)')
             b10 == Bit((i \in lost)')
             OneBit ==
               /\ n = 0 \/ n = 1
               /\ n = 1 \/ b1 = 1 \/ b2 = 1 \/ b3 = 1 \/ b4 = 1 \/ b5 = 1 \/ b6 = 1 \/ b7 = 1
                  \/ b8 = 1 \/ b9 = 1 \/ b10 = 1
               /\ n = 1 => b1 = 0 /\ b2 = 0 /\ b3 = 0 /\ b4 = 0 /\ b5 = 0 /\ b6 = 0 /\ b7 = 0
                  /\ b8 = 0 /\ b9 = 0 /\ b10 = 0
               /\ b1 = 1 => b2 = 0 /\ b3 = 0 /\ b4 = 0 /\ b5 = 0 /\ b6 = 0 /\ b7 = 0 /\ b8 = 0
                  /\ b9 = 0 /\ b10 = 0
               /\ b2 = 1 => b3 = 0 /\ b4 = 0 /\ b5 = 0 /\ b6 = 0 /\ b7 = 0 /\ b8 = 0 /\ b9 = 0
                  /\ b10 = 0
               /\ b3 = 1 => b4 = 0 /\ b5 = 0 /\ b6 = 0 /\ b7 = 0 /\ b8 = 0 /\ b9 = 0 /\ b10 = 0
               /\ b4 = 1 => b5 = 0 /\ b6 = 0 /\ b7 = 0 /\ b8 = 0 /\ b9 = 0 /\ b10 = 0
               /\ b5 = 1 => b6 = 0 /\ b7 = 0 /\ b8 = 0 /\ b9 = 0 /\ b10 = 0
               /\ b6 = 1 => b7 = 0 /\ b8 = 0 /\ b9 = 0 /\ b10 = 0
               /\ b7 = 1 => b8 = 0 /\ b9 = 0 /\ b10 = 0
               /\ b8 = 1 => b9 = 0 /\ b10 = 0
               /\ b9 = 1 => b10 = 0
  <1>1. /\ n \in Nat
        /\ b1 \in {0, 1} /\ (b1 = 1 <=> Of(wire, i)')
        /\ b2 \in {0, 1} /\ (b2 = 1 <=> Of(dropped, i)')
        /\ b3 \in {0, 1} /\ (b3 = 1 <=> Queued(i)')
        /\ b4 \in {0, 1} /\ (b4 = 1 <=> InSeq(work, i)')
        /\ b5 \in {0, 1} /\ (b5 = 1 <=> Aggregated(i)')
        /\ b6 \in {0, 1} /\ (b6 = 1 <=> (i \in dnsBuf)')
        /\ b7 \in {0, 1} /\ (b7 = 1 <=> Draining(i)')
        /\ b8 \in {0, 1} /\ (b8 = 1 <=> (i \in dnsDrained)')
        /\ b9 \in {0, 1} /\ (b9 = 1 <=> Recorded(i)')
        /\ b10 \in {0, 1} /\ (b10 = 1 <=> (i \in lost)')
    BY DEF Bit
  <1>2. Places(i)' = n + b1 + b2 + b3 + b4 + b5 + b6 + b7 + b8 + b9 + b10
    BY DEF Places
  <1> HIDE DEF n, b1, b2, b3, b4, b5, b6, b7, b8, b9, b10
  <1>3. n \in Nat /\ b1 \in {0, 1} /\ b2 \in {0, 1} /\ b3 \in {0, 1} /\ b4 \in {0, 1} /\ b5 \in {0, 1}
        /\ b6 \in {0, 1} /\ b7 \in {0, 1} /\ b8 \in {0, 1} /\ b9 \in {0, 1} /\ b10 \in {0, 1}
    BY <1>1
  <1>4. Places(i)' = 1 => OneBit
    BY <1>2, <1>3
  <1>5. OneBit => Places(i)' = 1
    BY <1>2, <1>3
  <1>6. OneBit <=> OnePlace(i)'
    <2>1. /\ (b1 = 0 <=> ~(b1 = 1)) /\ (b2 = 0 <=> ~(b2 = 1)) /\ (b3 = 0 <=> ~(b3 = 1))
          /\ (b4 = 0 <=> ~(b4 = 1)) /\ (b5 = 0 <=> ~(b5 = 1)) /\ (b6 = 0 <=> ~(b6 = 1))
          /\ (b7 = 0 <=> ~(b7 = 1)) /\ (b8 = 0 <=> ~(b8 = 1)) /\ (b9 = 0 <=> ~(b9 = 1))
          /\ (b10 = 0 <=> ~(b10 = 1))
      BY <1>3
    <2>2. n = stored[i]'
      BY Zenon DEF n
    <2>3. QED
      BY <1>1, <2>1, <2>2 DEF OnePlace
  <1>7. QED
    BY <1>4, <1>5, <1>6, Zenon

(* An event in one place: whatever is in memory is not settled yet.        *)
LEMMA OnlyPlace ==
    ASSUME NEW i \in Items, OnePlace(i)
    PROVE  /\ Of(wire, i) => ~Of(dropped, i) /\ ~Queued(i)
           /\ InSeq(work, i) => ~Aggregated(i) /\ i \notin dnsBuf
           /\ Draining(i) => ~Recorded(i) /\ i \notin lost
           /\ i \in dnsDrained => ~Recorded(i) /\ i \notin lost
           /\ Recorded(i) => stored[i] = 0 /\ i \notin lost
           /\ InMemory(i) => stored[i] = 0 /\ ~Of(wire, i) /\ ~Of(dropped, i) /\ i \notin lost
  BY DEF OnePlace, InMemory

(* A packet that is queued or dropped takes its events from the wire.      *)
LEMMA ReadPacketMoves ==
    ASSUME TypeOK, NEW p \in Packets, ReadPacket(p), NEW i \in Items, OnePlace(i)
    PROVE  OnePlace(i)'
  <1>1. /\ wire \subseteq Packets /\ queue \in Seq(Packets) /\ stored[i] \in Nat
        /\ p \in wire /\ wire' = wire \ {p}
        /\ UNCHANGED <<stored, work, agg, dnsBuf, drained, dnsDrained, records, lost>>
    BY DEF TypeOK, ReadPacket, flushing, disk
  <1>2. Of(wire, i) <=> Of(wire', i) \/ InSeq(Events[p], i)
    BY <1>1 DEF Of
  <1>3. ~(Of(wire', i) /\ InSeq(Events[p], i))
    BY <1>1, DecodeFacts DEF Of
  <1>4. /\ stored[i] \in Nat /\ UNCHANGED stored[i]
        /\ InSeq(work, i)' <=> InSeq(work, i)
        /\ Aggregated(i)' <=> Aggregated(i)
        /\ i \in dnsBuf' <=> i \in dnsBuf
        /\ Draining(i)' <=> Draining(i)
        /\ i \in dnsDrained' <=> i \in dnsDrained
        /\ Recorded(i)' <=> Recorded(i)
        /\ i \in lost' <=> i \in lost
    BY <1>1 DEF Aggregated, Draining, Recorded
  <1>5. \/ /\ Queued(i)' <=> Queued(i) \/ InSeq(Events[p], i)
           /\ Of(dropped', i) <=> Of(dropped, i)
        \/ /\ Queued(i)' <=> Queued(i)
           /\ Of(dropped', i) <=> Of(dropped, i) \/ InSeq(Events[p], i)
    <2>1. CASE UNCHANGED dropped /\ queue' = Append(queue, p)
      <3>1. \A q : InSeq(queue', q) <=> q = p \/ InSeq(queue, q)
        BY <1>1, <2>1, AppendOne
      <3>2. Queued(i)' <=> Queued(i) \/ InSeq(Events[p], i)
        BY <3>1 DEF Queued
      <3>3. QED
        BY <2>1, <3>2
    <2>2. CASE dropped' = dropped \cup {p} /\ UNCHANGED queue
      BY <2>2 DEF Of, Queued
    <2>3. QED
      BY <2>1, <2>2, Zenon DEF ReadPacket
  <1>6. InSeq(Events[p], i) => ~Of(dropped, i) /\ ~Queued(i)
    BY <1>1, <1>2, OnlyPlace
  <1>7. QED
    BY <1>2, <1>3, <1>4, <1>5, <1>6, Zenon DEF OnePlace

(* Decode takes the events of one packet from the channel.                 *)
LEMMA DecodeMoves ==
    ASSUME TypeOK, ShapeInv, Decode, NEW i \in Items, OnePlace(i)
    PROVE  OnePlace(i)'
  <1> DEFINE h == Head(queue)
  <1>1. /\ queue \in Seq(Packets) /\ queue # <<>> /\ work = <<>> /\ stored[i] \in Nat
        /\ work' = Events[h] /\ queue' = Tail(queue)
        /\ UNCHANGED <<wire, dropped, stored, agg, dnsBuf, drained, dnsDrained, records, lost>>
    BY DEF TypeOK, Decode, flushing, disk
  <1>2. /\ h \in Packets /\ ~InSeq(queue', h)
        /\ \A q : InSeq(queue, q) <=> q = h \/ InSeq(queue', q)
    BY <1>1, HeadTail DEF ShapeInv
  <1> HIDE DEF h
  <1>3. Queued(i) <=> Queued(i)' \/ InSeq(Events[h], i)
    BY <1>2 DEF Queued
  <1>4. ~(Queued(i)' /\ InSeq(Events[h], i))
    BY <1>2, DecodeFacts DEF Queued
  <1>5. ~InSeq(work, i) /\ (InSeq(work', i) <=> InSeq(Events[h], i))
    BY <1>1, EmptySeq
  <1>6. QED
    BY <1>1, <1>3, <1>4, <1>5, Zenon DEF OnePlace, Aggregated, Draining, Recorded

(* Apply moves one event to the aggregator or to the DNS buffer.           *)
LEMMA ApplyMoves ==
    ASSUME TypeOK, ShapeInv, Apply, NEW i \in Items, OnePlace(i)
    PROVE  OnePlace(i)'
  <1> DEFINE h == Head(work)
  <1>1. /\ work \in Seq(Items) /\ work # <<>> /\ work' = Tail(work) /\ stored[i] \in Nat
        /\ UNCHANGED <<wire, dropped, queue, stored, drained, dnsDrained, records, lost>>
    BY DEF TypeOK, Apply, reading, flushing, disk
  <1>2. h \in Items /\ ~InSeq(work', h) /\ (InSeq(work, i) <=> i = h \/ InSeq(work', i))
    BY <1>1, HeadTail DEF ShapeInv
  <1>3. h \notin DNSItems => KeyOf[h] \in Keys
    BY <1>2, DecodeAssumption
  <1>4. /\ i \in dnsBuf' <=> i \in dnsBuf \/ (i = h /\ h \in DNSItems)
        /\ Aggregated(i)' <=> Aggregated(i) \/ (i = h /\ h \notin DNSItems)
    <2>1. CASE h \in DNSItems /\ dnsBuf' = dnsBuf \cup {h} /\ UNCHANGED agg
      BY <2>1 DEF Aggregated
    <2>2. CASE h \notin DNSItems /\ agg' = [agg EXCEPT ![KeyOf[h]] = @ \cup {h}] /\ UNCHANGED dnsBuf
      <3>1. /\ agg'[KeyOf[h]] = agg[KeyOf[h]] \cup {h}
            /\ \A k \in Keys : k # KeyOf[h] => agg'[k] = agg[k]
        BY <1>3, <2>2 DEF TypeOK
      <3>2. i \notin DNSItems => KeyOf[i] \in Keys
        BY DecodeAssumption
      <3>3. QED
        BY <2>2, <3>1, <3>2 DEF Aggregated
    <2>3. QED
      BY <2>1, <2>2 DEF Apply
  <1> HIDE DEF h
  <1>5. /\ stored[i] \in Nat /\ UNCHANGED stored[i]
        /\ Of(wire, i)' <=> Of(wire, i)
        /\ Of(dropped, i)' <=> Of(dropped, i)
        /\ Queued(i)' <=> Queued(i)
        /\ Draining(i)' <=> Draining(i)
        /\ i \in dnsDrained' <=> i \in dnsDrained
        /\ Recorded(i)' <=> Recorded(i)
        /\ i \in lost' <=> i \in lost
    BY <1>1 DEF Queued, Draining, Recorded
  <1>6. InSeq(work, i) => ~Aggregated(i) /\ i \notin dnsBuf
    BY <1>1, OnlyPlace
  <1>7. QED
    BY <1>2, <1>4, <1>5, <1>6, Zenon DEF OnePlace

(* Drain hands the whole table over; the previous one has been dealt with. *)
LEMMA DrainMoves ==
    ASSUME TypeOK, Drain, drained = EmptyTable, NEW i \in Items, OnePlace(i)
    PROVE  OnePlace(i)'
  <1>1. /\ UNCHANGED <<wire, queue, dropped, work, dnsBuf, dnsDrained, records, stored, lost>>
        /\ stored[i] \in Nat /\ agg' = EmptyTable /\ drained' = agg
    BY DEF TypeOK, Drain, reading, disk
  <1>2. i \notin DNSItems => KeyOf[i] \in Keys
    BY DecodeAssumption
  <1>3. ~Draining(i) /\ ~Aggregated(i)' /\ (Draining(i)' <=> Aggregated(i))
    BY <1>1, <1>2, Zenon DEF Draining, Aggregated, EmptyTable
  <1>4. QED
    BY <1>1, <1>3, Zenon DEF OnePlace, Queued, Recorded

(* flushDNS takes the whole buffer; the previous one has been dealt with.  *)
LEMMA SwapDNSMoves ==
    ASSUME TypeOK, SwapDNS, dnsDrained = {}, NEW i \in Items, OnePlace(i)
    PROVE  OnePlace(i)'
  <1>1. /\ UNCHANGED <<wire, queue, dropped, work, agg, drained, records, stored, lost>>
        /\ stored[i] \in Nat /\ dnsBuf' = {} /\ dnsDrained' = dnsBuf
    BY DEF TypeOK, SwapDNS, reading, disk
  <1>2. QED
    BY <1>1, Zenon DEF OnePlace, Queued, Aggregated, Draining, Recorded

(* resolveHost puts the events into a record, or gives them up.            *)
LEMMA ResolveHostMoves ==
    ASSUME NEW ip \in IPs, NEW S \in SUBSET Items, ResolveHost(ip, S), NEW i \in Items
    PROVE  \/ /\ Recorded(i)' <=> Recorded(i) \/ i \in S
              /\ i \in lost' <=> i \in lost
           \/ /\ Recorded(i)' <=> Recorded(i)
              /\ i \in lost' <=> i \in lost \/ i \in S
  <1>1. ASSUME NEW h, records' = records \cup {[host |-> h, items |-> S]}
        PROVE  Recorded(i)' <=> Recorded(i) \/ i \in S
    <2> DEFINE new == [host |-> h, items |-> S]
    <2>1. new.items = S
      OBVIOUS
    <2> HIDE DEF new
    <2>2. records' = records \cup {new}
      BY <1>1 DEF new
    <2>3. QED
      BY <2>1, <2>2 DEF Recorded
  <1>2. \/ records' = records \cup {[host |-> hostCache[ip], items |-> S]} /\ lost' = lost
        \/ records' = records \cup {[host |-> UpsertedID(ip), items |-> S]} /\ lost' = lost
        \/ records' = records /\ lost' = lost \cup S
    BY Zenon DEF ResolveHost
  <1>3. CASE records' = records /\ lost' = lost \cup S
    BY <1>3 DEF Recorded
  <1>4. CASE lost' = lost /\ (Recorded(i)' <=> Recorded(i) \/ i \in S)
    BY <1>4
  <1>5. QED
    BY <1>1, <1>2, <1>3, <1>4, Zenon

(* flush moves the events under one key of the drained table.              *)
LEMMA ResolveFlowMoves ==
    ASSUME TypeOK, ShapeInv, NEW k \in Keys, ResolveFlow(k), NEW i \in Items, OnePlace(i)
    PROVE  OnePlace(i)'
  <1>1. /\ UNCHANGED <<wire, queue, dropped, work, agg, dnsBuf, dnsDrained, stored>>
        /\ stored[i] \in Nat /\ drained \in [Keys -> SUBSET Items]
        /\ drained' = [drained EXCEPT ![k] = {}]
    BY DEF TypeOK, ResolveFlow, reading
  <1>2. /\ Draining(i) <=> Draining(i)' \/ i \in drained[k]
        /\ ~(Draining(i)' /\ i \in drained[k])
    <2>1. i \in drained[k] => i \notin DNSItems /\ KeyOf[i] = k
      BY Zenon DEF ShapeInv, KeyedTable
    <2>2. i \notin DNSItems => KeyOf[i] \in Keys
      BY DecodeAssumption
    <2>3. QED
      BY <1>1, <2>1, <2>2, Zenon DEF Draining
  <1>3. \/ /\ Recorded(i)' <=> Recorded(i) \/ i \in drained[k]
           /\ i \in lost' <=> i \in lost
        \/ /\ Recorded(i)' <=> Recorded(i)
           /\ i \in lost' <=> i \in lost \/ i \in drained[k]
    <2>1. /\ LocalIP[k] \in IPs /\ drained[k] \in SUBSET Items
          /\ ResolveHost(LocalIP[k], drained[k])
      BY <1>1, DecodeAssumption, Zenon DEF ResolveFlow
    <2>2. QED
      BY <2>1, ResolveHostMoves, Zenon
  <1>4. /\ stored[i] \in Nat /\ UNCHANGED stored[i]
        /\ Of(wire, i)' <=> Of(wire, i)
        /\ Of(dropped, i)' <=> Of(dropped, i)
        /\ Queued(i)' <=> Queued(i)
        /\ InSeq(work, i)' <=> InSeq(work, i)
        /\ Aggregated(i)' <=> Aggregated(i)
        /\ i \in dnsBuf' <=> i \in dnsBuf
        /\ i \in dnsDrained' <=> i \in dnsDrained
    BY <1>1, Zenon DEF Queued, Aggregated
  <1>5. i \in drained[k] => ~Recorded(i) /\ i \notin lost
    BY <1>1, <1>2, OnlyPlace
  <1>6. QED
    BY <1>2, <1>3, <1>4, <1>5, Zenon DEF OnePlace

(* flushDNS moves one query of the drained buffer.                         *)
LEMMA ResolveDNSMoves ==
    ASSUME TypeOK, NEW j \in Items, ResolveDNS(j), NEW i \in Items, OnePlace(i)
    PROVE  OnePlace(i)'
  <1>1. /\ UNCHANGED <<wire, queue, dropped, work, agg, dnsBuf, drained, stored>>
        /\ stored[i] \in Nat /\ j \in dnsDrained /\ dnsDrained' = dnsDrained \ {j}
    BY DEF TypeOK, ResolveDNS, reading
  <1>2. \/ /\ Recorded(i)' <=> Recorded(i) \/ i \in {j}
           /\ i \in lost' <=> i \in lost
        \/ /\ Recorded(i)' <=> Recorded(i)
           /\ i \in lost' <=> i \in lost \/ i \in {j}
    <2>1. IPOf[j] \in IPs /\ {j} \in SUBSET Items /\ ResolveHost(IPOf[j], {j})
      BY DecodeAssumption DEF ResolveDNS
    <2>2. QED
      BY <2>1, ResolveHostMoves
  <1>3. /\ stored[i] \in Nat /\ UNCHANGED stored[i]
        /\ Of(wire, i)' <=> Of(wire, i)
        /\ Of(dropped, i)' <=> Of(dropped, i)
        /\ Queued(i)' <=> Queued(i)
        /\ InSeq(work, i)' <=> InSeq(work, i)
        /\ Aggregated(i)' <=> Aggregated(i)
        /\ i \in dnsBuf' <=> i \in dnsBuf
        /\ Draining(i)' <=> Draining(i)
    BY <1>1, Zenon DEF Queued, Aggregated, Draining
  <1>4. i = j => i \in dnsDrained /\ ~Recorded(i) /\ i \notin lost
    BY <1>1, OnlyPlace
  <1>5. i \in dnsDrained' <=> i \in dnsDrained /\ i # j
    BY <1>1
  <1>6. QED
    BY <1>2, <1>3, <1>4, <1>5, Zenon DEF OnePlace

(* A commit turns the records into rows; a rollback gives their events up. *)
LEMMA InsertMoves ==
    ASSUME TypeOK, Insert, UNCHANGED <<dnsBuf, dnsDrained>>, NEW i \in Items, OnePlace(i)
    PROVE  OnePlace(i)'
  <1>1. /\ UNCHANGED <<wire, queue, dropped, work, agg, drained>> /\ records' = {}
        /\ stored[i] \in Nat
    BY DEF TypeOK, Insert, reading
  <1>2. \/ /\ stored'[i] = IF Recorded(i) THEN stored[i] + 1 ELSE stored[i]
           /\ i \in lost' <=> i \in lost
        \/ /\ stored'[i] = stored[i]
           /\ i \in lost' <=> i \in lost \/ Recorded(i)
    <2>1. CASE Commit
      BY <2>1 DEF Commit
    <2>2. CASE Rollback
      BY <2>2 DEF Rollback
    <2>3. QED
      BY <2>1, <2>2, Zenon DEF Insert
  <1>3. /\ Of(wire, i)' <=> Of(wire, i)
        /\ Of(dropped, i)' <=> Of(dropped, i)
        /\ Queued(i)' <=> Queued(i)
        /\ InSeq(work, i)' <=> InSeq(work, i)
        /\ Aggregated(i)' <=> Aggregated(i)
        /\ i \in dnsBuf' <=> i \in dnsBuf
        /\ Draining(i)' <=> Draining(i)
        /\ i \in dnsDrained' <=> i \in dnsDrained
    BY <1>1, Zenon DEF Queued, Aggregated, Draining
  <1>4. ~Recorded(i)'
    BY <1>1 DEF Recorded
  <1>5. stored[i] \in Nat /\ (Recorded(i) => stored[i] = 0 /\ i \notin lost)
    BY <1>1, OnlyPlace
  <1>6. CASE ~Recorded(i)
    <2>1. stored'[i] = stored[i] /\ (i \in lost' <=> i \in lost)
      BY <1>2, <1>6, Zenon
    <2>2. QED
      BY <1>3, <1>4, <1>5, <1>6, <2>1, Zenon DEF OnePlace
  <1>7. CASE Recorded(i)
    <2>1. \/ stored'[i] = 1 /\ i \notin lost'
          \/ stored'[i] = 0 /\ i \in lost'
      <3>1. stored[i] = 0 /\ i \notin lost /\ 0 + 1 = 1
        BY <1>5, <1>7
      <3>2. QED
        BY <1>2, <1>7, <3>1, Zenon
    <2>2. QED
      BY <1>3, <1>4, <1>5, <1>7, <2>1, Zenon DEF OnePlace
  <1>8. QED
    BY <1>6, <1>7

(* A restart gives up what was in memory, and only that.                   *)
LEMMA RestartMoves ==
    ASSUME TypeOK, Restart, NEW i \in Items, OnePlace(i)
    PROVE  OnePlace(i)'
  <1>1. /\ queue' = <<>> /\ work' = <<>> /\ agg' = EmptyTable /\ dnsBuf' = {}
        /\ drained' = EmptyTable /\ dnsDrained' = {} /\ records' = {}
        /\ i \in lost' <=> i \in lost \/ InMemory(i)
        /\ UNCHANGED <<wire, dropped, stored>> /\ stored[i] \in Nat
    BY DEF TypeOK, Restart, disk
  <1>2. ~Queued(i)' /\ ~InSeq(work, i)'
    BY <1>1, EmptySeq, Zenon DEF Queued
  <1>3. ~Aggregated(i)' /\ ~Draining(i)'
    BY <1>1, DecodeAssumption, Zenon DEF Aggregated, Draining, EmptyTable
  <1>4. /\ ~Recorded(i)' /\ i \notin dnsBuf' /\ i \notin dnsDrained'
        /\ stored[i] \in Nat /\ UNCHANGED stored[i]
        /\ i \in lost' <=> i \in lost \/ InMemory(i)
        /\ Of(wire, i)' <=> Of(wire, i)
        /\ Of(dropped, i)' <=> Of(dropped, i)
    BY <1>1, Zenon DEF Recorded
  <1>5. CASE InMemory(i)
    <2>1. stored[i] = 0 /\ ~Of(wire, i) /\ ~Of(dropped, i) /\ i \notin lost
      BY <1>4, <1>5, OnlyPlace, Zenon
    <2>2. stored'[i] = 0 /\ stored'[i] # 1
      <3>1. 0 # 1
        OBVIOUS
      <3>2. QED
        BY <1>4, <2>1, <3>1, Zenon
    <2>3. QED
      BY <1>2, <1>3, <1>4, <1>5, <2>1, <2>2, Zenon DEF OnePlace
  <1>6. CASE ~InMemory(i)
    BY <1>2, <1>3, <1>4, <1>6, Zenon DEF OnePlace, InMemory
  <1>7. QED
    BY <1>5, <1>6

(* Every step keeps every event in exactly one place.                      *)
LEMMA ExactlyOnceStep ==
    ASSUME TypeOK, ShapeInv, PhaseInv, ExactlyOnce, [Next]_vars
    PROVE  ExactlyOnce'
  <1> SUFFICES ASSUME NEW i \in Items
               PROVE  OnePlace(i)'
    BY NextType, PlacesOneNext, Zenon DEF ExactlyOnce, TypeOK
  <1>1. OnePlace(i)
    BY PlacesOne DEF ExactlyOnce, TypeOK
  <1>2. CASE UNCHANGED <<stored, wire, dropped, queue, work, agg, dnsBuf, drained, dnsDrained,
                         records, lost>>
    BY <1>1, <1>2, Zenon DEF OnePlace, Queued, Aggregated, Draining, Recorded
  <1>3. CASE Tick \/ FinalFlush
    <2>1. drained = EmptyTable /\ Drain
      BY <1>3 DEF Tick, FinalFlush, PhaseInv
    <2>2. QED
      BY <1>1, <2>1, DrainMoves
  <1>4. CASE SwapDNS
    <2>1. dnsDrained = {}
      BY <1>4 DEF SwapDNS, PhaseInv
    <2>2. QED
      BY <1>1, <1>4, <2>1, SwapDNSMoves
  <1>5. CASE InsertFlows \/ InsertDNS
    <2>1. Insert /\ UNCHANGED <<dnsBuf, dnsDrained>>
      BY <1>5 DEF InsertFlows, InsertDNS
    <2>2. QED
      BY <1>1, <2>1, InsertMoves
  <1>6. CheckCtx \/ ReadError \/ Cancel \/ LogError \/ Stop \/ UNCHANGED vars
           => UNCHANGED <<stored, wire, dropped, queue, work, agg, dnsBuf, drained, dnsDrained,
                          records, lost>>
    BY Zenon DEF CheckCtx, ReadError, Cancel, LogError, Stop, vars, reading, flushing, disk
  <1>7. QED
    BY <1>1, <1>2, <1>3, <1>4, <1>5, <1>6, ReadPacketMoves, DecodeMoves, ApplyMoves,
       ResolveFlowMoves, ResolveDNSMoves, RestartMoves
    DEF Next, ReadLoop, DecodeLoop, RunLoop

(***************************************************************************)
(* The theorems.                                                           *)
(***************************************************************************)

(* Initially every event is on the wire, and nothing else is anywhere.     *)
LEMMA InitInv == Init => IInv
  <1> SUFFICES ASSUME Init PROVE IInv
    OBVIOUS
  <1>1. TypeOK
    BY InitType
  <1>2. ShapeInv
    BY EmptySeq DEF Init, ShapeInv, KeyedTable, EmptyTable
  <1>3. PhaseInv
    BY DEF Init, PhaseInv
  <1>4. HostInv
    BY DEF Init, HostInv, RowsOwned
  <1>5. ASSUME NEW i \in Items
        PROVE  OnePlace(i)
    <2>1. Of(wire, i)
      BY DecodeAssumption DEF Init, Of, InSeq
    <2>2. ~Queued(i) /\ ~InSeq(work, i)
      BY EmptySeq DEF Init, Queued
    <2>3. ~Aggregated(i) /\ ~Draining(i)
      BY DecodeAssumption DEF Init, Aggregated, Draining, EmptyTable
    <2>4. /\ stored[i] = 0 /\ ~Of(dropped, i) /\ ~Recorded(i)
          /\ i \notin dnsBuf /\ i \notin dnsDrained /\ i \notin lost
      BY Zenon DEF Init, Of, Recorded
    <2>5. stored[i] # 1
      BY <2>4
    <2>6. QED
      BY <2>1, <2>2, <2>3, <2>4, <2>5, Zenon DEF OnePlace
  <1>6. NoSilentLoss
    BY DEF Init, NoSilentLoss
  <1>7. QED
    BY <1>1, <1>2, <1>3, <1>4, <1>5, <1>6, PlacesOne DEF IInv, ExactlyOnce, TypeOK

(* IInv is inductive: it holds in every reachable state.                   *)
THEOREM Invariance == Spec => []IInv
  <1>1. IInv /\ [Next]_vars => IInv'
    BY NextType, ShapeStep, PhaseStep, HostStep, ExactlyOnceStep, LossStep DEF IInv
  <1>2. QED
    BY <1>1, InitInv, PTL DEF Spec

(* Every decoded event is in exactly one place: no interleaving of the     *)
(* read loop, the decoder and the flush loop counts one twice or forgets   *)
(* one, whatever fails and whenever the process dies.                      *)
THEOREM NothingLostOrCountedTwice == Spec => []ExactlyOnce
  <1>1. IInv => ExactlyOnce
    BY DEF IInv
  <1>2. QED
    BY <1>1, Invariance, PTL

(* When Run has returned, the final flush has left nothing in memory.      *)
THEOREM FinalFlushLeavesNothing == Spec => []FinalFlushComplete
  <1>1. IInv => FinalFlushComplete
    BY ClosedIsEmpty DEF IInv, FinalFlushComplete
  <1>2. QED
    BY <1>1, Invariance, PTL

(* Every row is owned by the host of the events it counts.                 *)
THEOREM RowsAreOwned == Spec => []RowsOwned
  <1>1. IInv => RowsOwned
    BY DEF IInv, HostInv
  <1>2. QED
    BY <1>1, Invariance, PTL

(* Without a failed database call or a crash, no accepted event is lost.   *)
THEOREM LossNeedsAFault == Spec => []NoSilentLoss
  <1>1. IInv => NoSilentLoss
    BY DEF IInv
  <1>2. QED
    BY <1>1, Invariance, PTL

-----------------------------------------------------------------------------
(***************************************************************************)
(* The pipeline implements FlowLedger: under the mapping LedgerStatus      *)
(* every step settles some events together, accepts or drops the events of *)
(* a packet, or changes nothing.                                           *)
(***************************************************************************)

(* An event's status depends on four facts about it.                       *)
LEMMA StatusKept ==
    ASSUME NEW i \in Items,
           Of(wire, i)' <=> Of(wire, i), Of(dropped, i)' <=> Of(dropped, i),
           stored'[i] = stored[i], i \in lost' <=> i \in lost
    PROVE  LedgerStatus(i)' = LedgerStatus(i)
  BY DEF LedgerStatus

(* What an event in exactly one place has as its status.                   *)
LEMMA StatusOf ==
    ASSUME NEW i \in Items, stored[i] \in Nat, OnePlace(i)
    PROVE  /\ Of(wire, i) => LedgerStatus(i) = "unseen"
           /\ Of(dropped, i) => LedgerStatus(i) = "dropped"
           /\ stored[i] = 1 => LedgerStatus(i) = "stored"
           /\ i \in lost => LedgerStatus(i) = "lost"
           /\ InMemory(i) => LedgerStatus(i) = "pending"
  <1>1. /\ Of(wire, i) => ~Of(dropped, i) /\ stored[i] = 0 /\ i \notin lost
        /\ Of(dropped, i) => ~Of(wire, i) /\ stored[i] = 0 /\ i \notin lost
        /\ stored[i] = 1 => ~Of(wire, i) /\ ~Of(dropped, i)
        /\ i \in lost => ~Of(wire, i) /\ ~Of(dropped, i) /\ stored[i] = 0
    BY Zenon DEF OnePlace
  <1>2. InMemory(i) => stored[i] = 0 /\ ~Of(wire, i) /\ ~Of(dropped, i) /\ i \notin lost
    BY OnlyPlace
  <1>3. Of(wire, i) => LedgerStatus(i) = "unseen"
    BY <1>1 DEF LedgerStatus
  <1>4. Of(dropped, i) => LedgerStatus(i) = "dropped"
    BY <1>1 DEF LedgerStatus
  <1>5. stored[i] = 1 => LedgerStatus(i) = "stored"
    BY <1>1 DEF LedgerStatus
  <1>6. i \in lost => LedgerStatus(i) = "lost"
    BY <1>1 DEF LedgerStatus
  <1>7. InMemory(i) => LedgerStatus(i) = "pending"
    BY <1>2 DEF LedgerStatus
  <1>8. QED
    BY <1>3, <1>4, <1>5, <1>6, <1>7

(* The same of the state after a step.                                     *)
LEMMA StatusOfNext ==
    ASSUME NEW i \in Items, stored'[i] \in Nat, OnePlace(i)'
    PROVE  /\ Of(dropped, i)' => LedgerStatus(i)' = "dropped"
           /\ stored'[i] = 1 => LedgerStatus(i)' = "stored"
           /\ i \in lost' => LedgerStatus(i)' = "lost"
           /\ InMemory(i)' => LedgerStatus(i)' = "pending"
  <1>1. /\ Of(dropped, i)' => ~Of(wire, i)' /\ stored'[i] = 0 /\ i \notin lost'
        /\ stored'[i] = 1 => ~Of(wire, i)' /\ ~Of(dropped, i)' /\ i \notin lost'
        /\ i \in lost' => ~Of(wire, i)' /\ ~Of(dropped, i)' /\ stored'[i] = 0
        /\ InMemory(i)' => stored'[i] = 0 /\ ~Of(wire, i)' /\ ~Of(dropped, i)' /\ i \notin lost'
    BY Zenon DEF OnePlace, InMemory
  <1>2. Of(dropped, i)' => LedgerStatus(i)' = "dropped"
    BY <1>1 DEF LedgerStatus
  <1>3. stored'[i] = 1 => LedgerStatus(i)' = "stored"
    BY <1>1 DEF LedgerStatus
  <1>4. i \in lost' => LedgerStatus(i)' = "lost"
    BY <1>1 DEF LedgerStatus
  <1>5. InMemory(i)' => LedgerStatus(i)' = "pending"
    BY <1>1 DEF LedgerStatus
  <1>6. QED
    BY <1>2, <1>3, <1>4, <1>5

(* The invariant says of every event what the lemmas above ask for.        *)
LEMMA InvOnePlace ==
    ASSUME IInv, IInv'
    PROVE  \A i \in Items : /\ stored[i] \in Nat /\ stored'[i] \in Nat
                            /\ OnePlace(i) /\ OnePlace(i)'
  <1>1. \A i \in Items : stored[i] \in Nat /\ stored'[i] \in Nat
    BY DEF IInv, TypeOK
  <1>2. \A i \in Items : Places(i) = 1 /\ Places(i)' = 1
    BY DEF IInv, ExactlyOnce
  <1>3. QED
    BY <1>1, <1>2, PlacesOne, PlacesOneNext

(* A step that moves S and nothing else is a move of the ledger.           *)
LEMMA LedgerMove ==
    ASSUME NEW S \in SUBSET Items, NEW from, NEW to,
           \A i \in S : LedgerStatus(i) = from /\ LedgerStatus(i)' = to,
           \A i \in Items \ S : LedgerStatus(i)' = LedgerStatus(i)
    PROVE  Ledger!Move(S, from, to)
  BY DEF Ledger!Move

(* Reading a packet accepts its events, or drops them.                     *)
LEMMA ReadPacketRefines ==
    ASSUME IInv, IInv', NEW p \in Packets, ReadPacket(p)
    PROVE  Ledger!Next
  <1> DEFINE S == {i \in Items : InSeq(Events[p], i)}
  <1>1. /\ wire \subseteq Packets /\ queue \in Seq(Packets)
        /\ p \in wire /\ wire' = wire \ {p} /\ UNCHANGED <<stored, lost>>
    BY DEF IInv, TypeOK, ReadPacket, disk
  <1>2. \A i \in S : LedgerStatus(i) = "unseen"
    BY <1>1, InvOnePlace, StatusOf DEF Of
  <1>3. \A i \in Items \ S : Of(wire, i)' <=> Of(wire, i)
    BY <1>1 DEF Of
  <1>4. CASE UNCHANGED dropped /\ queue' = Append(queue, p)
    <2>1. \A i \in S : InMemory(i)'
      <3>1. InSeq(queue', p)
        BY <1>1, <1>4, AppendOne
      <3>2. QED
        BY <3>1 DEF InMemory, Queued
    <2>2. \A i \in S : LedgerStatus(i)' = "pending"
      BY <2>1, InvOnePlace, StatusOfNext, Zenon
    <2>3. \A i \in Items \ S : LedgerStatus(i)' = LedgerStatus(i)
      BY <1>1, <1>3, <1>4, StatusKept, Zenon
    <2>4. Ledger!Move(S, "unseen", "pending")
      BY <1>2, <2>2, <2>3, LedgerMove
    <2>5. QED
      BY <2>4 DEF Ledger!Next, Ledger!Accept
  <1>5. CASE dropped' = dropped \cup {p}
    <2>1. /\ \A i \in S : Of(dropped, i)'
          /\ \A i \in Items \ S : Of(dropped, i)' <=> Of(dropped, i)
      BY <1>5 DEF Of
    <2>2. \A i \in S : LedgerStatus(i)' = "dropped"
      BY <2>1, InvOnePlace, StatusOfNext, Zenon
    <2>3. \A i \in Items \ S : LedgerStatus(i)' = LedgerStatus(i)
      BY <1>1, <1>3, <2>1, StatusKept, Zenon
    <2>4. Ledger!Move(S, "unseen", "dropped")
      BY <1>2, <2>2, <2>3, LedgerMove
    <2>5. QED
      BY <2>4 DEF Ledger!Next, Ledger!Drop
  <1>6. QED
    BY <1>4, <1>5 DEF ReadPacket

(* A step that adds the events S to lost, all of them in memory before.    *)
LEMMA LoseRefines ==
    ASSUME IInv, IInv', NEW S \in SUBSET Items, \A i \in S : InMemory(i),
           lost' = lost \cup S, UNCHANGED <<wire, dropped, stored>>
    PROVE  Ledger!Next
  <1>1. \A i \in Items : /\ stored[i] \in Nat /\ stored'[i] \in Nat
                         /\ OnePlace(i) /\ OnePlace(i)'
    BY InvOnePlace
  <1>2. \A i \in S : LedgerStatus(i) = "pending"
    BY <1>1, StatusOf
  <1>3. \A i \in S : LedgerStatus(i)' = "lost"
    BY <1>1, StatusOfNext
  <1>4. \A i \in Items \ S : LedgerStatus(i)' = LedgerStatus(i)
    BY StatusKept
  <1>5. Ledger!Move(S, "pending", "lost")
    BY <1>2, <1>3, <1>4, LedgerMove
  <1>6. QED
    BY <1>5 DEF Ledger!Next, Ledger!Lose

(* A step that changes none of the four facts is a stutter.                *)
LEMMA StutterRefines ==
    ASSUME UNCHANGED <<wire, dropped, stored, lost>>
    PROVE  UNCHANGED [i \in Items |-> LedgerStatus(i)]
  <1>1. \A i \in Items : LedgerStatus(i)' = LedgerStatus(i)
    BY StatusKept
  <1>2. QED
    BY <1>1

(* resolveHost loses the events it was called for, or settles nothing.     *)
LEMMA ResolveHostRefines ==
    ASSUME IInv, IInv', NEW ip, NEW S \in SUBSET Items, ResolveHost(ip, S),
           \A i \in S : InMemory(i), UNCHANGED <<wire, dropped, stored>>
    PROVE  Ledger!Next \/ UNCHANGED [i \in Items |-> LedgerStatus(i)]
  <1>1. lost' = lost \/ lost' = lost \cup S
    BY Zenon DEF ResolveHost
  <1>2. QED
    BY <1>1, LoseRefines, StutterRefines

(* A commit settles the recorded events as stored, all together.           *)
LEMMA CommitRefines ==
    ASSUME IInv, IInv', Commit, UNCHANGED <<wire, dropped>>
    PROVE  Ledger!Next
  <1> DEFINE S == {i \in Items : Recorded(i)}
  <1>1. \A i \in Items : /\ stored[i] \in Nat /\ stored'[i] \in Nat
                         /\ OnePlace(i) /\ OnePlace(i)'
    BY InvOnePlace
  <1>2. /\ \A i \in Items \ S : stored'[i] = stored[i]
        /\ \A i \in S : stored'[i] = stored[i] + 1
        /\ UNCHANGED lost
    BY DEF Commit
  <1>3. \A i \in S : InMemory(i) /\ stored[i] = 0
    BY <1>1, OnlyPlace, Zenon DEF InMemory
  <1>4. \A i \in S : LedgerStatus(i) = "pending"
    BY <1>1, <1>3, StatusOf, Zenon
  <1>5. \A i \in S : stored'[i] = 1
    BY <1>2, <1>3
  <1>6. \A i \in S : LedgerStatus(i)' = "stored"
    BY <1>1, <1>5, StatusOfNext, Zenon
  <1>7. \A i \in Items \ S : LedgerStatus(i)' = LedgerStatus(i)
    BY <1>2, StatusKept, Zenon
  <1>8. Ledger!Move(S, "pending", "stored")
    BY <1>4, <1>6, <1>7, LedgerMove
  <1>9. QED
    BY <1>8 DEF Ledger!Next, Ledger!Store

(* One step of the pipeline is one step of the ledger, or a stutter.       *)
LEMMA StepRefines ==
    ASSUME IInv, IInv', [Next]_vars
    PROVE  Ledger!Next \/ UNCHANGED [i \in Items |-> LedgerStatus(i)]
  <1> USE DEF reading, flushing, disk
  <1>1. ASSUME NEW k \in Keys, ResolveFlow(k)
        PROVE  Ledger!Next \/ UNCHANGED [i \in Items |-> LedgerStatus(i)]
    <2>1. /\ drained[k] \in SUBSET Items /\ ResolveHost(LocalIP[k], drained[k])
          /\ UNCHANGED <<wire, dropped, stored>>
      BY <1>1, Zenon DEF IInv, TypeOK, ResolveFlow
    <2>2. \A i \in drained[k] : InMemory(i)
      BY Zenon DEF IInv, ShapeInv, KeyedTable, InMemory, Draining
    <2>3. QED
      BY <2>1, <2>2, ResolveHostRefines, Zenon
  <1>2. ASSUME NEW j \in Items, ResolveDNS(j)
        PROVE  Ledger!Next \/ UNCHANGED [i \in Items |-> LedgerStatus(i)]
    <2>1. /\ {j} \in SUBSET Items /\ ResolveHost(IPOf[j], {j}) /\ j \in dnsDrained
          /\ UNCHANGED <<wire, dropped, stored>>
      BY <1>2 DEF ResolveDNS
    <2>2. \A i \in {j} : InMemory(i)
      BY <2>1 DEF InMemory
    <2>3. QED
      BY <2>1, <2>2, ResolveHostRefines
  <1>3. CASE Insert
    <2>1. UNCHANGED <<wire, dropped>>
      BY <1>3 DEF Insert
    <2>2. CASE Commit
      BY <2>1, <2>2, CommitRefines
    <2>3. CASE Rollback
      <3>1. lost' = lost \cup {i \in Items : Recorded(i)} /\ UNCHANGED stored
        BY <2>3 DEF Rollback
      <3>2. \A i \in {i \in Items : Recorded(i)} : InMemory(i)
        BY DEF InMemory
      <3>3. QED
        BY <2>1, <3>1, <3>2, LoseRefines, Zenon
    <2>4. QED
      BY <1>3, <2>2, <2>3 DEF Insert
  <1>4. CASE Restart
    <2>1. /\ lost' = lost \cup {i \in Items : InMemory(i)}
          /\ UNCHANGED <<wire, dropped, stored>>
      BY <1>4 DEF Restart
    <2>2. \A i \in {i \in Items : InMemory(i)} : InMemory(i)
      OBVIOUS
    <2>3. QED
      BY <2>1, <2>2, LoseRefines, Zenon
  <1>5. CASE CheckCtx \/ ReadError \/ Cancel \/ Decode \/ Apply \/ Drain \/ LogError \/ Stop
           \/ SwapDNS \/ UNCHANGED vars
    <2>1. UNCHANGED <<wire, dropped, stored, lost>>
      BY <1>5, Zenon
      DEF CheckCtx, ReadError, Cancel, Decode, Apply, Drain, LogError, Stop, SwapDNS, vars
    <2>2. QED
      BY <2>1, StutterRefines
  <1>6. QED
    BY <1>1, <1>2, <1>3, <1>4, <1>5, ReadPacketRefines
    DEF Next, ReadLoop, DecodeLoop, RunLoop, Tick, FinalFlush, InsertFlows, InsertDNS

(* The pipeline implements the ledger: every decoded event is dropped, or  *)
(* is accepted once and then stored or lost once, and stays so.            *)
THEOREM CaptureImplementsLedger == Spec => LedgerSpec
  <1>1. Init => Ledger!Init
    <2>1. ASSUME Init, NEW i \in Items
          PROVE  LedgerStatus(i) = "unseen"
      <3>1. stored[i] \in Nat /\ OnePlace(i)
        BY <2>1, InitInv, PlacesOne DEF IInv, TypeOK, ExactlyOnce
      <3>2. Of(wire, i)
        BY <2>1, DecodeAssumption DEF Init, Of, InSeq
      <3>3. QED
        BY <3>1, <3>2, StatusOf
    <2>2. QED
      BY <2>1 DEF Ledger!Init
  <1>2. IInv /\ IInv' /\ [Next]_vars => [Ledger!Next]_([i \in Items |-> LedgerStatus(i)])
    BY StepRefines
  <1>3. QED
    BY <1>1, <1>2, Invariance, PTL DEF Spec, LedgerSpec, Ledger!Spec
=============================================================================
