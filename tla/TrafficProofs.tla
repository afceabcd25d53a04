--------------------------- MODULE TrafficProofs ----------------------------
(***************************************************************************)
(* Proofs about Traffic, for any packets, subnet, watchlist, thresholds and *)
(* windows: the table and the rows have the numbers of the packets on the  *)
(* wire, and the detectors that query them see what happened.              *)
(***************************************************************************)
EXTENDS Traffic, SumsProofs

(***************************************************************************)
(* Traffic: the filter program.                                            *)
(***************************************************************************)

(***************************************************************************)
(* The filter accepts IPv4 frames, untagged or with one tag.               *)
(***************************************************************************)

(* One step of the machine, g being the rest of its run.                   *)
Instruction(frame, g, pc, a) ==
    LET i == CompileIPv4Filter[pc]
        jumps == (i.op = "jeq" /\ a = i.val) \/ (i.op = "jne" /\ a # i.val)
    IN  IF i.op = "ret" THEN i.val
        ELSE IF i.op = "load"
             THEN IF Loadable(frame, i.off) THEN g[pc + 1][EtherTypeAt(frame, i.off)] ELSE 0
        ELSE g[pc + 1 + (IF jumps THEN i.skip ELSE 0)][a]

(* The filter program accepts IPv4, untagged or with one tag, and nothing  *)
(* else: not a second tag, another protocol behind the tag, or a frame     *)
(* that ends after its tag.                                                *)
LEMMA FilterAccepts ==
    \A p \in Packets :
        Accepts(p.frame) <=> Monitored(p)
(* Tags come first, and something comes.                                   *)
<1>FrameShape.
    ASSUME NEW p \in Packets
    PROVE  /\ p.frame \in Seq(EtherTypes) /\ Len(p.frame) \in Nat \ {0}
           /\ \A n \in 1 .. Len(p.frame) : p.frame[n] \in EtherTypes
           /\ \A n \in 1 .. Len(p.frame) - 1 : p.frame[n] = "vlan"
  <2>1. p.frame \in Seq(EtherTypes) /\ p.frame # <<>> /\ \A n \in 1 .. Len(p.frame) - 1 : p.frame[n] = "vlan"
      BY PacketAssumption
  <2> QED
      BY <2>1
(* The seven instructions of CompileIPv4Filter.                            *)
<1>FilterProgram.
    /\ DOMAIN CompileIPv4Filter = 1 .. 7
    /\ CompileIPv4Filter[1] = Load(12) /\ CompileIPv4Filter[2] = JumpIf("jeq", "ip4", 4)
    /\ CompileIPv4Filter[3] = JumpIf("jne", "vlan", 2) /\ CompileIPv4Filter[4] = Load(16)
    /\ CompileIPv4Filter[5] = JumpIf("jeq", "ip4", 1)
    /\ CompileIPv4Filter[6] = RetConstant(0) /\ CompileIPv4Filter[7] = RetConstant(snapLen)
  <2>1. CompileIPv4Filter = << Load(12), JumpIf("jeq", "ip4", 4), JumpIf("jne", "vlan", 2),
                               Load(16), JumpIf("jeq", "ip4", 1), RetConstant(0), RetConstant(snapLen) >>
      BY DEF CompileIPv4Filter
  <2>2. DOMAIN CompileIPv4Filter = 1 .. Len(CompileIPv4Filter)
      BY <2>1
  <2> QED
      BY <2>1, <2>2
(* The run of the program as a recursive function of the instruction and   *)
(* the accumulator.                                                        *)
<1>FilterRun.
    ASSUME NEW frame
    PROVE  Kept(frame) = (CHOOSE g : g = [pc \in DOMAIN CompileIPv4Filter |->
               [a \in EtherTypes |-> Instruction(frame, g, pc, a)]])[1]["arp"]
    BY Zenon DEF Kept, Instruction
(* What each instruction does, with its jumps resolved.                    *)
<1>Instructions.
    ASSUME NEW frame, NEW g, NEW a
    PROVE  /\ Instruction(frame, g, 1, a) = IF Loadable(frame, 12) THEN g[2][EtherTypeAt(frame, 12)] ELSE 0
           /\ Instruction(frame, g, 2, a) = IF a = "ip4" THEN g[7][a] ELSE g[3][a]
           /\ Instruction(frame, g, 3, a) = IF a # "vlan" THEN g[6][a] ELSE g[4][a]
           /\ Instruction(frame, g, 4, a) = IF Loadable(frame, 16) THEN g[5][EtherTypeAt(frame, 16)] ELSE 0
           /\ Instruction(frame, g, 5, a) = IF a = "ip4" THEN g[7][a] ELSE g[6][a]
           /\ Instruction(frame, g, 6, a) = 0 /\ Instruction(frame, g, 7, a) = snapLen
  <2>1. Instruction(frame, g, 1, a) = IF Loadable(frame, 12) THEN g[2][EtherTypeAt(frame, 12)] ELSE 0
      BY <1>FilterProgram DEF Instruction, Load
  <2>2. Instruction(frame, g, 2, a) = IF a = "ip4" THEN g[7][a] ELSE g[3][a]
      BY <1>FilterProgram DEF Instruction, JumpIf
  <2>3. Instruction(frame, g, 3, a) = IF a # "vlan" THEN g[6][a] ELSE g[4][a]
      BY <1>FilterProgram DEF Instruction, JumpIf
  <2>4. Instruction(frame, g, 4, a) = IF Loadable(frame, 16) THEN g[5][EtherTypeAt(frame, 16)] ELSE 0
      BY <1>FilterProgram DEF Instruction, Load
  <2>5. Instruction(frame, g, 5, a) = IF a = "ip4" THEN g[7][a] ELSE g[6][a]
      BY <1>FilterProgram DEF Instruction, JumpIf
  <2>6. Instruction(frame, g, 6, a) = 0 /\ Instruction(frame, g, 7, a) = snapLen
      BY <1>FilterProgram DEF Instruction, RetConstant
  <2> QED
      BY <2>1, <2>2, <2>3, <2>4, <2>5, <2>6
<1>FilterAccepts.
    ASSUME NEW p \in Packets
    PROVE  Accepts(p.frame) <=> Monitored(p)
  <2>1. PICK frame : frame = p.frame
      OBVIOUS
  <2>2. PICK outer : outer = frame[1]
      OBVIOUS
  <2>3. PICK inner : inner = IF Len(frame) >= 2 /\ frame[2] = "ip4" THEN snapLen ELSE 0
      OBVIOUS
  <2>4. /\ Loadable(frame, 12) /\ EtherTypeAt(frame, 12) = outer /\ outer \in EtherTypes
        /\ Loadable(frame, 16) <=> Len(frame) >= 2
        /\ EtherTypeAt(frame, 16) = frame[2]
        /\ Len(frame) >= 2 => frame[2] \in EtherTypes
    <3>1. (12 - 8) \div 4 = 1 /\ (16 - 8) \div 4 = 2
        OBVIOUS
    <3>2. DOMAIN frame = 1 .. Len(frame) /\ Len(frame) \in Nat \ {0}
        BY <2>1, <1>FrameShape
    <3>3. Loadable(frame, 12) /\ (Loadable(frame, 16) <=> Len(frame) >= 2)
        BY <3>1, <3>2 DEF Loadable
    <3>4. EtherTypeAt(frame, 12) = outer /\ EtherTypeAt(frame, 16) = frame[2]
        BY <2>2, <3>1 DEF EtherTypeAt
    <3> QED
        BY <2>1, <2>2, <3>2, <3>3, <3>4, <1>FrameShape
  <2> DEFINE outcome(a) == IF a = "ip4" THEN snapLen ELSE IF a = "vlan" THEN inner ELSE 0
             W == [pc \in 1 .. 7 |-> [a \in EtherTypes |->
                     IF pc = 1 THEN outcome(outer)
                     ELSE IF pc = 2 THEN outcome(a)
                     ELSE IF pc = 3 THEN IF a = "vlan" THEN inner ELSE 0
                     ELSE IF pc = 4 THEN inner
                     ELSE IF pc = 5 THEN IF a = "ip4" THEN snapLen ELSE 0
                     ELSE IF pc = 6 THEN 0 ELSE snapLen]]
  <2>5. ASSUME NEW a \in EtherTypes
        PROVE  /\ W[1][a] = outcome(outer) /\ W[2][a] = outcome(a) /\ W[4][a] = inner
               /\ W[3][a] = IF a = "vlan" THEN inner ELSE 0
               /\ W[5][a] = IF a = "ip4" THEN snapLen ELSE 0
               /\ W[6][a] = 0 /\ W[7][a] = snapLen
      OBVIOUS
  <2> HIDE DEF W
  <2>6. ASSUME NEW a \in EtherTypes
        PROVE  \A pc \in 1 .. 7 : W[pc][a] = Instruction(frame, W, pc, a)
    <3>1. W[1][a] = Instruction(frame, W, 1, a)
        BY <2>4, <2>5, <1>Instructions
    <3>2. W[2][a] = Instruction(frame, W, 2, a)
        BY <2>5, <1>Instructions
    <3>3. W[3][a] = Instruction(frame, W, 3, a)
        BY <2>5, <1>Instructions
    <3>4. W[4][a] = Instruction(frame, W, 4, a)
        BY <2>3, <2>4, <2>5, <1>Instructions
    <3>5. W[5][a] = Instruction(frame, W, 5, a)
        BY <2>5, <1>Instructions
    <3>6. W[6][a] = Instruction(frame, W, 6, a) /\ W[7][a] = Instruction(frame, W, 7, a)
        BY <2>5, <1>Instructions
    <3> QED
        BY <3>1, <3>2, <3>3, <3>4, <3>5, <3>6
  <2>7. W = [pc \in 1 .. 7 |-> [a \in EtherTypes |-> Instruction(frame, W, pc, a)]]
    <3>1. W = [pc \in 1 .. 7 |-> [a \in EtherTypes |-> W[pc][a]]]
        BY DEF W
    <3> QED
        BY <2>6, <3>1
  <2>8. PICK g : /\ g = [pc \in 1 .. 7 |-> [a \in EtherTypes |-> Instruction(frame, g, pc, a)]]
                 /\ Kept(frame) = g[1]["arp"]
    <3> DEFINE G == CHOOSE g : g = [pc \in 1 .. 7 |-> [a \in EtherTypes |-> Instruction(frame, g, pc, a)]]
    <3>1. Kept(frame) = G[1]["arp"]
        BY <1>FilterRun, <1>FilterProgram, Zenon
    <3>2. G = [pc \in 1 .. 7 |-> [a \in EtherTypes |-> Instruction(frame, G, pc, a)]]
        BY <2>7, Zenon
    <3> QED
        BY <3>1, <3>2, Zenon
  <2>9. \A pc \in 1 .. 7 : \A a \in EtherTypes : g[pc][a] = Instruction(frame, g, pc, a)
    <3> TAKE pc \in 1 .. 7
    <3>1. g[pc] = [a \in EtherTypes |-> Instruction(frame, g, pc, a)]
        BY <2>8
    <3> QED
        BY <3>1
  <2>10. \A a \in EtherTypes : g[7][a] = snapLen /\ g[6][a] = 0
      BY <2>9, <1>Instructions
  <2>11. \A a \in EtherTypes : g[5][a] = IF a = "ip4" THEN snapLen ELSE 0
      BY <2>9, <2>10, <1>Instructions
  <2>12. \A a \in EtherTypes : g[4][a] = inner
      BY <2>3, <2>4, <2>9, <2>11, <1>Instructions
  <2>13. \A a \in EtherTypes : g[3][a] = IF a = "vlan" THEN inner ELSE 0
      BY <2>9, <2>10, <2>12, <1>Instructions
  <2>14. \A a \in EtherTypes : g[2][a] = outcome(a)
      BY <2>9, <2>10, <2>13, <1>Instructions
  <2>15. Kept(frame) = outcome(outer)
    <3>1. "arp" \in EtherTypes
        BY DEF EtherTypes
    <3> QED
        BY <2>4, <2>8, <2>9, <2>14, <3>1, <1>Instructions
  <2>16. Accepts(frame) <=> outer = "ip4" \/ (outer = "vlan" /\ Len(frame) >= 2 /\ frame[2] = "ip4")
      BY <2>3, <2>15 DEF Accepts, snapLen
  <2>17. Monitored(p) <=> outer = "ip4" \/ (outer = "vlan" /\ Len(frame) >= 2 /\ frame[2] = "ip4")
    <3>1. frame \in Seq(EtherTypes) /\ Len(frame) \in Nat \ {0} /\ \A n \in 1 .. Len(frame) - 1 : frame[n] = "vlan"
        BY <2>1, <1>FrameShape
    <3>2. outer = "ip4" => Len(frame) = 1
      <4> HIDE DEF outcome
      <4>0. PICK n \in Nat : n = Len(frame) /\ n # 0
          BY <3>1, Zenon
      <4>1. Len(frame) # 1 => 1 \in 1 .. Len(frame) - 1
          BY <4>0
      <4>2. Len(frame) # 1 => frame[1] = "vlan"
          BY <3>1, <4>1, Zenon
      <4> QED
          BY <2>2, <4>2
    <3>3. Len(frame) >= 2 /\ frame[2] = "ip4" => Len(frame) = 2
      <4>0. PICK n \in Nat : n = Len(frame) /\ n # 0
          BY <3>1, Zenon
      <4>1. Len(frame) >= 2 /\ Len(frame) # 2 => 2 \in 1 .. Len(frame) - 1
          BY <4>0
      <4>2. Len(frame) >= 2 /\ Len(frame) # 2 => frame[2] = "vlan"
          BY <3>1, <4>1, Zenon
      <4> QED
          BY <4>2
    <3>4. frame = <<"ip4">> <=> Len(frame) = 1 /\ outer = "ip4"
        BY <2>2, <3>1
    <3>5. frame = <<"vlan", "ip4">> <=> Len(frame) = 2 /\ outer = "vlan" /\ frame[2] = "ip4"
        BY <2>2, <3>1
    <3> QED
        BY <2>1, <3>1, <3>2, <3>3, <3>4, <3>5 DEF Monitored
  <2> QED
      BY <2>1, <2>16, <2>17
<1> QED
    BY <1>FilterAccepts

(***************************************************************************)
(* Traffic: the table.                                                     *)
(***************************************************************************)

(* An event whose numbers are numbers; the FlowAccums; the bytes of a set  *)
(* of log entries; those under one key; those the local side sent.         *)
GoodEvent(evt) == evt.bytes \in Nat /\ evt.ts \in Nat /\ evt.isLocalSrc \in BOOLEAN
Accums == [first : Nat, last : Nat, bsent : Nat, brecv : Nat, psent : Nat, precv : Nat]
EventBytes(S) == SumOver([e \in S |-> e.evt.bytes], S)
Under(E, k) == {e \in E : e.evt.key = k}
Outgoing(S) == {e \in S : e.evt.isLocalSrc}

(* The counters of an accumulator are those of the entries at its key.     *)
Totals(acc, at) ==
    /\ acc.bsent = EventBytes(Outgoing(at)) /\ acc.brecv = EventBytes(at \ Outgoing(at))
    /\ acc.psent = Cardinality(Outgoing(at)) /\ acc.precv = Cardinality(at \ Outgoing(at))

(* And its times are the earliest and the latest of them.                  *)
Summary(acc, at) ==
    /\ acc \in Accums /\ Totals(acc, at)
    /\ \E e \in at : acc.first = e.evt.ts
    /\ \E e \in at : acc.last = e.evt.ts
    /\ \A e \in at : acc.first <= e.evt.ts /\ e.evt.ts <= acc.last

(* A table summarises the log entries E.                                   *)
Exact(t, E) ==
    /\ DOMAIN t = {e.evt.key : e \in E}
    /\ \A k \in DOMAIN t : Summary(t[k], Under(E, k))

(* What Add does to an accumulator, field by field.                        *)
LEMMA UpdatedIs ==
    \A acc \in Accums : \A evt :
        GoodEvent(evt) =>
            /\ Updated(acc, evt) \in Accums
            /\ Updated(acc, evt).first = IF acc.first <= evt.ts THEN acc.first ELSE evt.ts
            /\ Updated(acc, evt).last = IF acc.last <= evt.ts THEN evt.ts ELSE acc.last
            /\ Updated(acc, evt).bsent = acc.bsent + IF evt.isLocalSrc THEN evt.bytes ELSE 0
            /\ Updated(acc, evt).psent = acc.psent + IF evt.isLocalSrc THEN 1 ELSE 0
            /\ Updated(acc, evt).brecv = acc.brecv + IF evt.isLocalSrc THEN 0 ELSE evt.bytes
            /\ Updated(acc, evt).precv = acc.precv + IF evt.isLocalSrc THEN 0 ELSE 1
(* The earlier of two times.                                               *)
<1>MinOfTwo.
    ASSUME NEW a \in Nat, NEW b \in Nat
    PROVE  Min({a, b}) = IF a <= b THEN a ELSE b
  <2>1. PICK m : m = IF a <= b THEN a ELSE b
      OBVIOUS
  <2>2. m \in {a, b} /\ \A y \in {a, b} : m <= y
      BY <2>1
  <2>3. Min({a, b}) \in {a, b} /\ \A y \in {a, b} : Min({a, b}) <= y
      BY <2>2, Zenon DEF Min
  <2> QED
      BY <2>1, <2>2, <2>3
(* The later of two times.                                                 *)
<1>MaxOfTwo.
    ASSUME NEW a \in Nat, NEW b \in Nat
    PROVE  Max({a, b}) = IF a <= b THEN b ELSE a
  <2>1. PICK m : m = IF a <= b THEN b ELSE a
      OBVIOUS
  <2>2. m \in {a, b} /\ \A y \in {a, b} : m >= y
      BY <2>1
  <2>3. Max({a, b}) \in {a, b} /\ \A y \in {a, b} : Max({a, b}) >= y
      BY <2>2, Zenon DEF Max
  <2> QED
      BY <2>1, <2>2, <2>3
<1>UpdatedIs.
    ASSUME NEW acc \in Accums, NEW evt, GoodEvent(evt)
    PROVE  /\ Updated(acc, evt) \in Accums
           /\ Updated(acc, evt).first = IF acc.first <= evt.ts THEN acc.first ELSE evt.ts
           /\ Updated(acc, evt).last = IF acc.last <= evt.ts THEN evt.ts ELSE acc.last
           /\ Updated(acc, evt).bsent = acc.bsent + IF evt.isLocalSrc THEN evt.bytes ELSE 0
           /\ Updated(acc, evt).psent = acc.psent + IF evt.isLocalSrc THEN 1 ELSE 0
           /\ Updated(acc, evt).brecv = acc.brecv + IF evt.isLocalSrc THEN 0 ELSE evt.bytes
           /\ Updated(acc, evt).precv = acc.precv + IF evt.isLocalSrc THEN 0 ELSE 1
  <2> USE <1>UpdatedIs
  <2>1. acc.first \in Nat /\ acc.last \in Nat /\ evt.ts \in Nat /\ evt.bytes \in Nat
      BY DEF Accums, GoodEvent
  <2>2. PICK lo \in Nat : lo = IF acc.first <= evt.ts THEN acc.first ELSE evt.ts
      BY <2>1
  <2>3. PICK hi \in Nat : hi = IF acc.last <= evt.ts THEN evt.ts ELSE acc.last
      BY <2>1
  <2>4. Min({acc.first, evt.ts}) = lo /\ Max({acc.last, evt.ts}) = hi
      BY <2>1, <2>2, <2>3, <1>MinOfTwo, <1>MaxOfTwo
  <2>5. PICK c : c = Counted(acc, evt)
      OBVIOUS
  <2>6. CASE evt.isLocalSrc
    <3>1. acc.bsent + evt.bytes \in Nat /\ acc.psent + 1 \in Nat
        BY <2>1 DEF Accums
    <3>11. PICK s \in Nat : s = acc.bsent + evt.bytes
        BY <3>1
    <3>12. PICK n \in Nat : n = acc.psent + 1
        BY <3>1
    <3>13. c = [acc EXCEPT !.bsent = s, !.psent = n]
        BY <2>5, <2>6, <3>11, <3>12 DEF Counted, Accums
    <3>14. /\ c \in Accums /\ c.first = acc.first /\ c.last = acc.last /\ c.bsent = s /\ c.psent = n
           /\ c.brecv = acc.brecv /\ c.precv = acc.precv
        BY <3>13, Zenon DEF Accums
    <3>2. /\ c \in Accums /\ c.first = acc.first /\ c.last = acc.last
          /\ c.bsent = acc.bsent + evt.bytes /\ c.psent = acc.psent + 1
          /\ c.brecv = acc.brecv /\ c.precv = acc.precv
        BY <3>11, <3>12, <3>14
    <3>3. Updated(acc, evt) = [c EXCEPT !.first = lo, !.last = hi]
        BY <2>4, <2>5, <3>2, Zenon DEF Updated
    <3>4. /\ Updated(acc, evt) \in Accums /\ Updated(acc, evt).first = lo /\ Updated(acc, evt).last = hi
          /\ Updated(acc, evt).bsent = c.bsent /\ Updated(acc, evt).brecv = c.brecv
          /\ Updated(acc, evt).psent = c.psent /\ Updated(acc, evt).precv = c.precv
        BY <3>2, <3>3, Zenon DEF Accums
    <3>5. acc.brecv \in Nat /\ acc.precv \in Nat
        BY DEF Accums
    <3> QED
        BY <2>2, <2>3, <2>6, <3>2, <3>4, <3>5
  <2>7. CASE ~evt.isLocalSrc
    <3>1. acc.brecv + evt.bytes \in Nat /\ acc.precv + 1 \in Nat
        BY <2>1 DEF Accums
    <3>11. PICK s \in Nat : s = acc.brecv + evt.bytes
        BY <3>1
    <3>12. PICK n \in Nat : n = acc.precv + 1
        BY <3>1
    <3>13. c = [acc EXCEPT !.brecv = s, !.precv = n]
        BY <2>5, <2>7, <3>11, <3>12 DEF Counted, Accums
    <3>14. /\ c \in Accums /\ c.first = acc.first /\ c.last = acc.last /\ c.brecv = s /\ c.precv = n
           /\ c.bsent = acc.bsent /\ c.psent = acc.psent
        BY <3>13, Zenon DEF Accums
    <3>2. /\ c \in Accums /\ c.first = acc.first /\ c.last = acc.last
          /\ c.brecv = acc.brecv + evt.bytes /\ c.precv = acc.precv + 1
          /\ c.bsent = acc.bsent /\ c.psent = acc.psent
        BY <3>11, <3>12, <3>14
    <3>3. Updated(acc, evt) = [c EXCEPT !.first = lo, !.last = hi]
        BY <2>4, <2>5, <3>2, Zenon DEF Updated
    <3>4. /\ Updated(acc, evt) \in Accums /\ Updated(acc, evt).first = lo /\ Updated(acc, evt).last = hi
          /\ Updated(acc, evt).bsent = c.bsent /\ Updated(acc, evt).brecv = c.brecv
          /\ Updated(acc, evt).psent = c.psent /\ Updated(acc, evt).precv = c.precv
        BY <3>2, <3>3, Zenon DEF Accums
    <3>5. acc.bsent \in Nat /\ acc.psent \in Nat
        BY DEF Accums
    <3> QED
        BY <2>2, <2>3, <2>7, <3>2, <3>4, <3>5
  <2> QED
      BY <2>6, <2>7
<1> QED
    BY <1>UpdatedIs

(* Addresses Decode does not refuse; the log of the packets of d after the *)
(* m-th.                                                                   *)
Usable(p) == p.src # Unspecified /\ p.dst # Broadcast
LogEntry(n, evt) == [packet |-> n, evt |-> evt]
Numbered(n, evts) == {LogEntry(n, evt) : evt \in evts}
Log(d, m) == UNION {Numbered(n, Events(d[n])) : n \in m + 1 .. Len(d)}

(* The numbers of a packet.                                                *)
LEMMA PacketTypes ==
    ASSUME NEW p \in Packets
    PROVE  p.bytes \in Nat /\ p.bytes > 0 /\ p.ts \in 0 .. Horizon /\ p.ts \in Nat
<1>1. p.bytes \in Nat \ {0} /\ p.ts \in 0 .. Horizon
    BY PacketAssumption, Zenon
<1>2. Horizon \in Nat
    BY ThresholdAssumption
<1> QED
    BY <1>1, <1>2

(* The event of a packet seen from its source.                             *)
LEMMA LocalEvent ==
    ASSUME NEW p \in Packets, NEW dir
    PROVE  LET evt == FlowEvent(dir, p, TRUE) IN
           /\ GoodEvent(evt) /\ evt.bytes = p.bytes /\ evt.ts = p.ts /\ evt.isLocalSrc
           /\ evt.key.dir = dir /\ evt.key.lip = p.src /\ evt.key.lport = p.sport
           /\ evt.key.rip = p.dst /\ evt.key.rport = p.dport
<1>1. p.bytes \in Nat /\ p.ts \in Nat
    BY PacketTypes
<1> QED
    BY <1>1, Zenon DEF FlowEvent, FlowKey, GoodEvent

(* The event of a packet seen from its destination.                        *)
LEMMA RemoteEvent ==
    ASSUME NEW p \in Packets, NEW dir
    PROVE  LET evt == FlowEvent(dir, p, FALSE) IN
           /\ GoodEvent(evt) /\ evt.bytes = p.bytes /\ evt.ts = p.ts /\ ~evt.isLocalSrc
           /\ evt.key.dir = dir /\ evt.key.lip = p.dst /\ evt.key.lport = p.dport
           /\ evt.key.rip = p.src /\ evt.key.rport = p.sport
<1>1. p.bytes \in Nat /\ p.ts \in Nat
    BY PacketTypes
<1> QED
    BY <1>1, Zenon DEF FlowEvent, FlowKey, GoodEvent

(* Packets that Decode has no event for.                                   *)
LEMMA DecodeNone ==
    ASSUME NEW p, ~Usable(p) \/ (p.src \notin LAN /\ p.dst \notin LAN)
    PROVE  Decode(p) = <<>>
<1>1. (p.src \notin LAN /\ p.dst \notin LAN) => {p.src, p.dst} \cap LAN = {}
    OBVIOUS
<1> QED
    BY <1>1 DEF Decode, Usable

(* Both hosts of a LAN-to-LAN packet get an event.                         *)
LEMMA DecodeLAN ==
    ASSUME NEW p, Usable(p), p.src \in LAN, p.dst \in LAN
    PROVE  Decode(p) = <<FlowEvent(DirLANOut, p, TRUE), FlowEvent(DirLANIn, p, FALSE)>>
<1>1. {p.src, p.dst} \cap LAN # {} /\ {p.src, p.dst} \subseteq LAN
    OBVIOUS
<1> QED
    BY <1>1, Zenon DEF Decode, Usable

(* A packet to the outside is one event of its source.                     *)
LEMMA DecodeOut ==
    ASSUME NEW p, Usable(p), p.src \in LAN, p.dst \notin LAN
    PROVE  Decode(p) = <<FlowEvent(DirLANToWAN, p, TRUE)>>
<1>1. {p.src, p.dst} \cap LAN # {} /\ ~({p.src, p.dst} \subseteq LAN)
    OBVIOUS
<1> QED
    BY <1>1, Zenon DEF Decode, Usable

(* A packet from the outside is one event of its destination.              *)
LEMMA DecodeIn ==
    ASSUME NEW p, Usable(p), p.src \notin LAN, p.dst \in LAN
    PROVE  Decode(p) = <<FlowEvent(DirWANToLAN, p, FALSE)>>
<1>1. {p.src, p.dst} \cap LAN # {} /\ ~({p.src, p.dst} \subseteq LAN)
    OBVIOUS
<1> QED
    BY <1>1, Zenon DEF Decode, Usable

(* A packet has at most two events, and two are different.                 *)
LEMMA DecodeShape ==
    ASSUME NEW p \in Packets
    PROVE  \/ Decode(p) = <<>>
           \/ \E a : GoodEvent(a) /\ Decode(p) = <<a>>
           \/ \E a, b : GoodEvent(a) /\ GoodEvent(b) /\ a # b /\ Decode(p) = <<a, b>>
<1>1. CASE ~Usable(p) \/ (p.src \notin LAN /\ p.dst \notin LAN)
    BY <1>1, DecodeNone
<1>2. CASE Usable(p) /\ p.src \in LAN /\ p.dst \in LAN
  <2>1. PICK a : a = FlowEvent(DirLANOut, p, TRUE)
      BY Zenon
  <2>2. PICK b : b = FlowEvent(DirLANIn, p, FALSE)
      BY Zenon
  <2>3. GoodEvent(a) /\ a.isLocalSrc /\ GoodEvent(b) /\ ~b.isLocalSrc
      BY <2>1, <2>2, LocalEvent, RemoteEvent, Zenon
  <2>4. a # b
      BY <2>3
  <2> QED
      BY <1>2, <2>1, <2>2, <2>3, <2>4, DecodeLAN, Zenon
<1>3. CASE Usable(p) /\ p.src \in LAN /\ p.dst \notin LAN
  <2>1. GoodEvent(FlowEvent(DirLANToWAN, p, TRUE))
      BY LocalEvent, Zenon
  <2> QED
      BY <1>3, <2>1, DecodeOut, Zenon
<1>4. CASE Usable(p) /\ p.src \notin LAN /\ p.dst \in LAN
  <2>1. GoodEvent(FlowEvent(DirWANToLAN, p, FALSE))
      BY RemoteEvent, Zenon
  <2> QED
      BY <1>4, <2>1, DecodeIn, Zenon
<1> QED
    BY <1>1, <1>2, <1>3, <1>4, Zenon

(* What a sequence holds.                                                  *)
Members(s) == {s[i] : i \in DOMAIN s}

(* The empty sequence holds nothing.                                       *)
LEMMA MembersNone ==
    ASSUME NEW s, s = <<>>
    PROVE  Members(s) = {}
BY DEF Members

(* A sequence of one.                                                      *)
LEMMA MembersOne ==
    ASSUME NEW s, NEW a, s = <<a>>
    PROVE  Members(s) = {a}
<1>1. DOMAIN s = {1} /\ s[1] = a
    OBVIOUS
<1> QED
    BY <1>1, Zenon DEF Members

(* A sequence of two.                                                      *)
LEMMA MembersTwo ==
    ASSUME NEW s, NEW a, NEW b, s = <<a, b>>
    PROVE  Members(s) = {a, b}
<1>1. DOMAIN s = {1, 2} /\ s[1] = a /\ s[2] = b
    OBVIOUS
<1> QED
    BY <1>1, Zenon DEF Members

(* The log is finite, and each entry is an event of its packet.            *)
LEMMA LogFacts ==
    \A d \in Seq(Packets) : \A m \in 0 .. Len(d) :
        /\ IsFiniteSet(Log(d, m))
        /\ \A e \in Log(d, m) : /\ GoodEvent(e.evt) /\ e.packet \in m + 1 .. Len(d)
                                /\ e.evt \in Events(d[e.packet])
(* The events of a packet.                                                 *)
<1>EventsGood.
    ASSUME NEW p \in Packets
    PROVE  IsFiniteSet(Events(p)) /\ \A evt \in Events(p) : GoodEvent(evt)
  <2>1. PICK S : S = Members(Decode(p))
      OBVIOUS
  <2>2. IsFiniteSet(S) /\ \A evt \in S : GoodEvent(evt)
    <3>1. CASE Decode(p) = <<>>
      <4>1. S = {}
          BY <2>1, <3>1, MembersNone, Zenon
      <4> QED
          BY <4>1, FS_EmptySet, Zenon
    <3>2. ASSUME NEW a, GoodEvent(a), Decode(p) = <<a>>
          PROVE  IsFiniteSet(S) /\ \A evt \in S : GoodEvent(evt)
      <4>1. S = {a}
          BY <2>1, <3>2, MembersOne, Zenon
      <4>2. IsFiniteSet({a})
          BY FS_Singleton, Zenon
      <4> QED
          BY <3>2, <4>1, <4>2, Zenon
    <3>3. ASSUME NEW a, NEW b, GoodEvent(a), GoodEvent(b), Decode(p) = <<a, b>>
          PROVE  IsFiniteSet(S) /\ \A evt \in S : GoodEvent(evt)
      <4>1. S = {a, b}
          BY <2>1, <3>3, MembersTwo, Zenon
      <4>2. IsFiniteSet({a}) /\ {a} \cup {b} = {a, b}
          BY FS_Singleton, Zenon
      <4>3. IsFiniteSet({a} \cup {b})
          BY <4>2, FS_AddElement, Zenon
      <4> QED
          BY <3>3, <4>1, <4>2, <4>3, Zenon
    <3> QED
        BY <3>1, <3>2, <3>3, DecodeShape, Zenon
  <2> QED
      BY <2>1, <2>2, FS_EmptySet, Zenon DEF Events, Members
<1>LogFacts.
    ASSUME NEW d \in Seq(Packets), NEW m \in 0 .. Len(d)
    PROVE  /\ IsFiniteSet(Log(d, m))
           /\ \A e \in Log(d, m) : /\ GoodEvent(e.evt) /\ e.packet \in m + 1 .. Len(d)
                                   /\ e.evt \in Events(d[e.packet])
  <2>1. \A n \in m + 1 .. Len(d) : d[n] \in Packets
    <3>1. DOMAIN d = 1 .. Len(d) /\ Len(d) \in Nat /\ \A n \in 1 .. Len(d) : d[n] \in Packets
        OBVIOUS
    <3> QED
        BY <3>1
  <2>2. PICK T : T = {Numbered(n, Events(d[n])) : n \in m + 1 .. Len(d)}
      BY Zenon
  <2>3. IsFiniteSet(T)
    <3>1. IsFiniteSet(m + 1 .. Len(d))
      <4>1. m + 1 \in Int /\ Len(d) \in Int
          OBVIOUS
      <4> QED
          BY <4>1, FS_Interval, Zenon
    <3>2. PICK f : f = [n \in m + 1 .. Len(d) |-> Numbered(n, Events(d[n]))]
        BY Zenon
    <3>3. \A n \in m + 1 .. Len(d) : f[n] = Numbered(n, Events(d[n]))
        BY <3>2
    <3>4. IsFiniteSet({f[n] : n \in m + 1 .. Len(d)})
        BY <3>1, ImageFinite
    <3>5. {f[n] : n \in m + 1 .. Len(d)} = T
        BY <2>2, <3>3, Zenon
    <3> QED
        BY <3>4, <3>5, Zenon
  <2>4. ASSUME NEW n \in m + 1 .. Len(d)
        PROVE  IsFiniteSet(Numbered(n, Events(d[n])))
    <3>1. IsFiniteSet(Events(d[n]))
        BY <2>1, <1>EventsGood
    <3>2. PICK S : S = Events(d[n])
        OBVIOUS
    <3>3. PICK f : f = [evt \in S |-> LogEntry(n, evt)]
        BY Zenon
    <3>4. \A evt \in S : f[evt] = LogEntry(n, evt)
        BY <3>3
    <3>5. IsFiniteSet({f[evt] : evt \in S})
        BY <3>1, <3>2, ImageFinite
    <3>6. {f[evt] : evt \in S} = Numbered(n, S)
        BY <3>4, Zenon DEF Numbered
    <3> QED
        BY <3>2, <3>5, <3>6, Zenon
  <2>5. \A U \in T : IsFiniteSet(U)
      BY <2>2, <2>4, Zenon
  <2>6. IsFiniteSet(UNION T)
      BY <2>3, <2>5, FS_UNION, Zenon
  <2>7. ASSUME NEW e \in Log(d, m)
        PROVE  GoodEvent(e.evt) /\ e.packet \in m + 1 .. Len(d) /\ e.evt \in Events(d[e.packet])
    <3>1. PICK n \in m + 1 .. Len(d) : e \in Numbered(n, Events(d[n]))
        BY Zenon DEF Log
    <3>2. PICK evt \in Events(d[n]) : e = LogEntry(n, evt)
        BY <3>1, Zenon DEF Numbered
    <3>3. e.packet = n /\ e.evt = evt
        BY <3>2 DEF LogEntry
    <3> QED
        BY <2>1, <3>3, <1>EventsGood
  <2> QED
      BY <2>2, <2>6, <2>7, Zenon DEF Log
<1> QED
    BY <1>LogFacts

(* The inductive invariant of the flows. Base: the history. TableInv: the  *)
(* table summarises what no flush has covered.                             *)
Base == delivered \in Seq(Packets) /\ flushed \in 0 .. Len(delivered) /\ pruned \in Nat
TableInv == Exact(table, Log(delivered, flushed))

(* RowsInv: a row has the key and the last time of an event of some packet *)
(* that a flush has covered.                                               *)
Caused(d, n, key, last) == \E evt \in Events(d[n]) : evt.key = key /\ evt.ts = last
Sourced(r, d, m) ==
    /\ r = FlowRecord(r.id, r.key, r.acc) /\ r.id \in 1 .. m /\ r.acc \in Accums
    /\ \E n \in 1 .. m : Caused(d, n, r.key, r.acc.last)
RowsInv == IsFiniteSet(rows) /\ \A r \in rows : Sourced(r, delivered, flushed)

(* CoverInv: every event a flush has covered is in a row of its key that   *)
(* is no older.                                                            *)
InRows(evt, rs) == \E r \in rs : r.key = evt.key /\ evt.ts <= r.acc.last
CoverInv == \A n \in 1 .. flushed : \A evt \in Events(delivered[n]) : InRows(evt, rows)
FlowInv == Base /\ TableInv /\ RowsInv /\ CoverInv

(* The history with one more packet.                                       *)
LEMMA AppendFacts ==
    ASSUME NEW d \in Seq(Packets), NEW p \in Packets
    PROVE  /\ Append(d, p) \in Seq(Packets) /\ Len(Append(d, p)) = Len(d) + 1
           /\ Append(d, p)[Len(d) + 1] = p /\ \A n \in 1 .. Len(d) : Append(d, p)[n] = d[n]
           /\ Len(d) \in Nat
OBVIOUS

(* The table has finitely many keys.                                       *)
LEMMA TableFinite ==
    ASSUME FlowInv
    PROVE  IsFiniteSet(DOMAIN table)
<1>1. IsFiniteSet(Log(delivered, flushed))
    BY LogFacts DEF FlowInv, Base
<1>2. PICK E : E = Log(delivered, flushed)
    OBVIOUS
<1>3. PICK f : f = [e \in E |-> e.evt.key]
    BY Zenon
<1>4. \A e \in E : f[e] = e.evt.key
    BY <1>3
<1>5. IsFiniteSet({f[e] : e \in E})
    BY <1>1, <1>2, ImageFinite
<1>6. DOMAIN table = {f[e] : e \in E}
    BY <1>2, <1>4, Zenon DEF FlowInv, TableInv, Exact
<1> QED
    BY <1>5, <1>6, Zenon

(* The invariant always holds.                                             *)
LEMMA FlowInvariant == Spec => []FlowInv
(* The decode goroutine keeps the table a summary, whether the packet has  *)
(* no event, one or two.                                                   *)
<1>AddFlowsExact.
    \A p \in Packets : \A E, t, n :
        IsFiniteSet(E) /\ (\A e \in E : GoodEvent(e.evt)) /\ Exact(t, E) /\ (\A e \in E : e.packet # n) =>
            Exact(AddFlows(t, Decode(p)), E \cup Numbered(n, Members(Decode(p))))
  (* One more entry adds its bytes.                                          *)
  <2>EventBytesAdd.
      ASSUME NEW S, IsFiniteSet(S), \A e \in S : e.evt.bytes \in Nat, NEW x, x \notin S, x.evt.bytes \in Nat
      PROVE  EventBytes(S \cup {x}) = EventBytes(S) + x.evt.bytes
    <3> USE <2>EventBytesAdd
    <3>1. PICK f : f = [e \in S \cup {x} |-> e.evt.bytes]
        BY Zenon
    <3>2. PICK g : g = [e \in S |-> e.evt.bytes]
        BY Zenon
    <3>3. (\A e \in S : f[e] \in Nat /\ f[e] = g[e]) /\ f[x] = x.evt.bytes
        BY <3>1, <3>2
    <3>4. SumOver(f, S \cup {x}) = SumOver(f, S) + f[x]
        BY <3>3, SumAdd
    <3>5. SumOver(f, S) = SumOver(g, S)
        BY <3>3, SumAgree
    <3>6. EventBytes(S \cup {x}) = SumOver(f, S \cup {x}) /\ EventBytes(S) = SumOver(g, S)
        BY <3>1, <3>2, Zenon DEF EventBytes
    <3> QED
        BY <3>3, <3>4, <3>5, <3>6
  (* The counters stay right when an event is added.                         *)
  <2>TotalsAdd.
      ASSUME NEW at, IsFiniteSet(at), \A e \in at : GoodEvent(e.evt), NEW acc \in Accums, Totals(acc, at),
             NEW x, x \notin at, GoodEvent(x.evt)
      PROVE  Totals(Updated(acc, x.evt), at \cup {x})
    <3> USE <2>TotalsAdd
    <3>1. PICK out : out = Outgoing(at)
        OBVIOUS
    <3>2. PICK in : in = at \ out
        BY Zenon
    <3>3. out \subseteq at /\ in \subseteq at /\ x \notin out /\ x \notin in
        BY <3>1, <3>2 DEF Outgoing
    <3>4. IsFiniteSet(out) /\ IsFiniteSet(in)
        BY <3>3, FS_Subset, Zenon
    <3>5. (\A e \in out : e.evt.bytes \in Nat) /\ (\A e \in in : e.evt.bytes \in Nat) /\ x.evt.bytes \in Nat
        BY <3>3 DEF GoodEvent
    <3>6. PICK acc2 : acc2 = Updated(acc, x.evt)
        OBVIOUS
    <3>7. acc.bsent \in Nat /\ acc.brecv \in Nat /\ acc.psent \in Nat /\ acc.precv \in Nat
        BY DEF Accums
    <3>8. /\ acc.bsent = EventBytes(out) /\ acc.brecv = EventBytes(in)
          /\ acc.psent = Cardinality(out) /\ acc.precv = Cardinality(in)
        BY <3>1, <3>2 DEF Totals
    <3>9. CASE x.evt.isLocalSrc
      <4>1. Outgoing(at \cup {x}) = out \cup {x} /\ (at \cup {x}) \ (out \cup {x}) = in
          BY <3>1, <3>2, <3>9 DEF Outgoing
      <4>2. EventBytes(out \cup {x}) = EventBytes(out) + x.evt.bytes
          BY <3>3, <3>4, <3>5, <2>EventBytesAdd
      <4>3. Cardinality(out \cup {x}) = Cardinality(out) + 1
          BY <3>3, <3>4, FS_AddElement, Zenon
      <4>4. /\ acc2.bsent = acc.bsent + x.evt.bytes /\ acc2.psent = acc.psent + 1
            /\ acc2.brecv = acc.brecv /\ acc2.precv = acc.precv
          BY <3>6, <3>7, <3>9, UpdatedIs
      <4>5. Totals(acc2, at \cup {x})
          BY <3>8, <4>1, <4>2, <4>3, <4>4, Zenon DEF Totals
      <4> QED
          BY <3>6, <4>5
    <3>10. CASE ~x.evt.isLocalSrc
      <4>1. Outgoing(at \cup {x}) = out /\ (at \cup {x}) \ out = in \cup {x}
          BY <3>1, <3>2, <3>3, <3>10 DEF Outgoing
      <4>2. EventBytes(in \cup {x}) = EventBytes(in) + x.evt.bytes
          BY <3>3, <3>4, <3>5, <2>EventBytesAdd
      <4>3. Cardinality(in \cup {x}) = Cardinality(in) + 1
          BY <3>3, <3>4, FS_AddElement, Zenon
      <4>4. /\ acc2.brecv = acc.brecv + x.evt.bytes /\ acc2.precv = acc.precv + 1
            /\ acc2.bsent = acc.bsent /\ acc2.psent = acc.psent
          BY <3>6, <3>7, <3>10, UpdatedIs
      <4>5. Totals(acc2, at \cup {x})
          BY <3>8, <4>1, <4>2, <4>3, <4>4, Zenon DEF Totals
      <4> QED
          BY <3>6, <4>5
    <3> QED
        BY <3>9, <3>10
  (* An accumulator stays the summary of its key when an event is added,     *)
  (* whether it is earlier or later than the others.                         *)
  <2>SummaryAdd.
      ASSUME NEW at, IsFiniteSet(at), \A e \in at : GoodEvent(e.evt), NEW acc, Summary(acc, at),
             NEW x, x \notin at, GoodEvent(x.evt)
      PROVE  Summary(Updated(acc, x.evt), at \cup {x})
    <3> USE <2>SummaryAdd
    <3>1. PICK acc2 : acc2 = Updated(acc, x.evt)
        OBVIOUS
    <3>2. acc \in Accums /\ Totals(acc, at)
        BY DEF Summary
    <3>3. Totals(acc2, at \cup {x})
        BY <3>1, <3>2, <2>TotalsAdd
    <3>4. /\ acc2 \in Accums
          /\ acc2.first = IF acc.first <= x.evt.ts THEN acc.first ELSE x.evt.ts
          /\ acc2.last = IF acc.last <= x.evt.ts THEN x.evt.ts ELSE acc.last
        BY <3>1, <3>2, UpdatedIs, Zenon
    <3>5. (\E e \in at \cup {x} : acc2.first = e.evt.ts) /\ (\E e \in at \cup {x} : acc2.last = e.evt.ts)
      <4>1. PICK e1 \in at : acc.first = e1.evt.ts
          BY DEF Summary
      <4>2. PICK e2 \in at : acc.last = e2.evt.ts
          BY DEF Summary
      <4> QED
          BY <3>4, <4>1, <4>2
    <3>6. ASSUME NEW e \in at \cup {x}
          PROVE  acc2.first <= e.evt.ts /\ e.evt.ts <= acc2.last
      <4>1. e.evt.ts \in Nat /\ x.evt.ts \in Nat /\ acc.first \in Nat /\ acc.last \in Nat
          BY <3>2 DEF GoodEvent, Accums
      <4>2. e = x \/ (acc.first <= e.evt.ts /\ e.evt.ts <= acc.last)
          BY DEF Summary
      <4> QED
          BY <3>4, <4>1, <4>2
    <3> QED
        BY <3>1, <3>3, <3>4, <3>5, <3>6, Zenon DEF Summary
  (* The first event of a key makes an accumulator that summarises it.       *)
  <2>SummaryNew.
      ASSUME NEW x, GoodEvent(x.evt)
      PROVE  Summary(Updated(NewAccum(x.evt.ts), x.evt), {x})
    <3> USE <2>SummaryNew
    <3>1. PICK acc : acc = NewAccum(x.evt.ts)
        OBVIOUS
    <3>2. acc \in Accums /\ acc.first = x.evt.ts /\ acc.last = x.evt.ts
        BY <3>1 DEF NewAccum, Accums, GoodEvent
    <3>3. Totals(acc, {})
      <4>1. Outgoing({}) = {} /\ {} \ {} = {}
          BY DEF Outgoing
      <4>2. EventBytes({}) = 0
          BY SumEmpty, Zenon DEF EventBytes
      <4>3. Cardinality({}) = 0
          BY FS_EmptySet, Zenon
      <4>4. acc.bsent = 0 /\ acc.brecv = 0 /\ acc.psent = 0 /\ acc.precv = 0
          BY <3>1 DEF NewAccum
      <4> QED
          BY <4>1, <4>2, <4>3, <4>4, Zenon DEF Totals
    <3>4. PICK acc2 : acc2 = Updated(acc, x.evt)
        OBVIOUS
    <3>5. Totals(acc2, {x})
      <4>1. IsFiniteSet({}) /\ {} \cup {x} = {x}
          BY FS_EmptySet, Zenon
      <4>2. Totals(acc2, {} \cup {x})
          BY <3>2, <3>3, <3>4, <4>1, <2>TotalsAdd, Zenon
      <4> QED
          BY <4>1, <4>2, Zenon
    <3>6. acc2 \in Accums /\ acc2.first = x.evt.ts /\ acc2.last = x.evt.ts /\ x.evt.ts \in Nat
      <4>1. x.evt.ts \in Nat
          BY DEF GoodEvent
      <4> QED
          BY <3>2, <3>4, <4>1, UpdatedIs
    <3>7. x.evt.ts <= x.evt.ts
        BY <3>6
    <3> QED
        BY <3>1, <3>4, <3>5, <3>6, <3>7, Zenon DEF Summary
  (* Add keeps the table a summary of the log.                               *)
  <2>ExactAdd.
      ASSUME NEW E, IsFiniteSet(E), \A e \in E : GoodEvent(e.evt), NEW t, Exact(t, E),
             NEW x, x \notin E, GoodEvent(x.evt)
      PROVE  Exact(Add(t, x.evt), E \cup {x})
    <3> USE <2>ExactAdd
    <3>1. PICK key : key = x.evt.key
        OBVIOUS
    <3>2. PICK t2 : t2 = Add(t, x.evt)
        OBVIOUS
    <3>3. /\ DOMAIN t2 = DOMAIN t \cup {key}
          /\ t2[key] = Updated(Lookup(t, x.evt), x.evt)
          /\ \A k \in DOMAIN t : k # key => t2[k] = t[k]
        BY <3>1, <3>2 DEF Add
    <3>4. DOMAIN t2 = {e.evt.key : e \in E \cup {x}}
        BY <3>1, <3>3 DEF Exact
    <3>5. ASSUME NEW k \in DOMAIN t2
          PROVE  Summary(t2[k], Under(E \cup {x}, k))
      <4>1. CASE k # key
        <5>1. Under(E \cup {x}, k) = Under(E, k)
            BY <3>1, <4>1 DEF Under
        <5>2. k \in DOMAIN t /\ t2[k] = t[k]
            BY <3>3, <4>1
        <5> QED
            BY <5>1, <5>2, Zenon DEF Exact
      <4>2. CASE k = key /\ key \in DOMAIN t
        <5>1. Under(E \cup {x}, k) = Under(E, k) \cup {x}
            BY <3>1, <4>2 DEF Under
        <5>2. Under(E, k) \subseteq E
            BY DEF Under
        <5>3. IsFiniteSet(Under(E, k))
            BY <5>2, FS_Subset, Zenon
        <5>4. t2[k] = Updated(t[k], x.evt)
            BY <3>1, <3>3, <4>2 DEF Lookup
        <5>5. Summary(t[k], Under(E, k))
            BY <4>2, Zenon DEF Exact
        <5>6. Summary(Updated(t[k], x.evt), Under(E, k) \cup {x})
            BY <5>2, <5>3, <5>5, <2>SummaryAdd
        <5> QED
            BY <5>1, <5>4, <5>6, Zenon
      <4>3. CASE k = key /\ key \notin DOMAIN t
        <5>1. Under(E \cup {x}, k) = {x}
            BY <3>1, <4>3 DEF Under, Exact
        <5>2. t2[k] = Updated(NewAccum(x.evt.ts), x.evt)
            BY <3>1, <3>3, <4>3 DEF Lookup
        <5> QED
            BY <5>1, <5>2, <2>SummaryNew, Zenon
      <4> QED
          BY <4>1, <4>2, <4>3
    <3> QED
        BY <3>2, <3>4, <3>5, Zenon DEF Exact
  <2>AddFlowsExact.
      ASSUME NEW p \in Packets, NEW E, IsFiniteSet(E), \A e \in E : GoodEvent(e.evt),
             NEW t, Exact(t, E), NEW n, \A e \in E : e.packet # n
      PROVE  Exact(AddFlows(t, Decode(p)), E \cup Numbered(n, Members(Decode(p))))
    <3> USE <2>AddFlowsExact
    <3>1. CASE Decode(p) = <<>>
      <4>1. AddFlows(t, Decode(p)) = t
          BY <3>1 DEF AddFlows
      <4>2. Members(Decode(p)) = {}
          BY <3>1, MembersNone, Zenon
      <4>3. E \cup Numbered(n, {}) = E
          BY DEF Numbered
      <4> QED
          BY <4>1, <4>2, <4>3, Zenon
    <3>2. ASSUME NEW a, GoodEvent(a), Decode(p) = <<a>>
          PROVE  Exact(AddFlows(t, Decode(p)), E \cup Numbered(n, Members(Decode(p))))
      <4>1. AddFlows(t, <<a>>) = Add(t, a)
          BY DEF AddFlows
      <4>2. Members(Decode(p)) = {a}
          BY <3>2, MembersOne, Zenon
      <4>3. PICK x : x = LogEntry(n, a)
          OBVIOUS
      <4>4. x.evt = a /\ x \notin E /\ Numbered(n, {a}) = {x}
          BY <4>3 DEF Numbered, LogEntry
      <4>5. Exact(Add(t, x.evt), E \cup {x})
          BY <3>2, <4>4, <2>ExactAdd
      <4> QED
          BY <3>2, <4>1, <4>2, <4>4, <4>5, Zenon
    <3>3. ASSUME NEW a, NEW b, GoodEvent(a), GoodEvent(b), a # b, Decode(p) = <<a, b>>
          PROVE  Exact(AddFlows(t, Decode(p)), E \cup Numbered(n, Members(Decode(p))))
      <4>1. AddFlows(t, <<a, b>>) = Add(Add(t, a), b)
          BY DEF AddFlows
      <4>2. Members(Decode(p)) = {a, b}
          BY <3>3, MembersTwo, Zenon
      <4>3. PICK x : x = LogEntry(n, a)
          OBVIOUS
      <4>4. PICK y : y = LogEntry(n, b)
          OBVIOUS
      <4>5. x.evt = a /\ x \notin E /\ y.evt = b /\ y \notin E \cup {x}
          BY <3>3, <4>3, <4>4 DEF LogEntry
      <4>6. E \cup Numbered(n, {a, b}) = (E \cup {x}) \cup {y}
          BY <4>3, <4>4 DEF Numbered
      <4>7. Exact(Add(t, a), E \cup {x})
          BY <3>3, <4>5, <2>ExactAdd, Zenon
      <4>8. IsFiniteSet(E \cup {x})
          BY FS_AddElement, Zenon
      <4>9. \A e \in E \cup {x} : GoodEvent(e.evt)
          BY <3>3, <4>5, Zenon
      <4>10. Exact(Add(Add(t, a), b), (E \cup {x}) \cup {y})
          BY <3>3, <4>5, <4>7, <4>8, <4>9, <2>ExactAdd
      <4> QED
          BY <3>3, <4>1, <4>2, <4>6, <4>10, Zenon
    <3> QED
        BY <3>1, <3>2, <3>3, DecodeShape, Zenon
  <2> QED
      BY <2>AddFlowsExact
(* After a flush the log is empty.                                         *)
<1>LogAll.
    ASSUME NEW d \in Seq(Packets)
    PROVE  Log(d, Len(d)) = {}
  <2>1. Len(d) + 1 .. Len(d) = {}
      OBVIOUS
  <2> QED
      BY <2>1, Zenon DEF Log
(* And so is the table.                                                    *)
<1>ExactEmpty. Exact(Empty, {})
  <2>1. DOMAIN Empty = {}
      BY DEF Empty
  <2> QED
      BY <2>1, Zenon DEF Exact
(* Nothing has arrived.                                                    *)
<1>FlowInitial. Init => FlowInv
  <2> SUFFICES ASSUME Init PROVE FlowInv
      OBVIOUS
  <2>1. delivered = <<>> /\ flushed = 0 /\ table = Empty /\ rows = {} /\ pruned = 0
      BY DEF Init
  <2>2. Base
      BY <2>1 DEF Base
  <2>3. Log(delivered, flushed) = {}
    <3>1. flushed = Len(delivered)
        BY <2>1
    <3> QED
        BY <2>2, <3>1, <1>LogAll DEF Base
  <2>4. TableInv
      BY <2>1, <2>3, <1>ExactEmpty, Zenon DEF TableInv
  <2>5. RowsInv
      BY <2>1, FS_EmptySet, Zenon DEF RowsInv
  <2>6. CoverInv
      BY <2>1 DEF CoverInv
  <2> QED
      BY <2>2, <2>4, <2>5, <2>6 DEF FlowInv
(* A packet is added to the table, if the filter accepts it.               *)
<1>FlowDeliver.
    \A p \in Packets :
        FlowInv /\ Deliver(p) =>
            FlowInv'
  (* A packet extends the log by its events.                                 *)
  <2>LogAppend.
      ASSUME NEW d \in Seq(Packets), NEW m \in 0 .. Len(d), NEW p \in Packets
      PROVE  Log(Append(d, p), m) = Log(d, m) \cup Numbered(Len(d) + 1, Events(p))
    <3>1. PICK d2 : d2 = Append(d, p)
        BY Zenon
    <3>2. /\ Len(d2) = Len(d) + 1 /\ d2[Len(d) + 1] = p
          /\ \A n \in 1 .. Len(d) : d2[n] = d[n]
        BY <3>1
    <3>3. m + 1 .. Len(d2) = (m + 1 .. Len(d)) \cup {Len(d) + 1}
        BY <3>2
    <3>4. \A n \in m + 1 .. Len(d) : d2[n] = d[n]
        BY <3>2
    <3>5. Log(d2, m) = UNION {Numbered(n, Events(d2[n])) : n \in (m + 1 .. Len(d)) \cup {Len(d) + 1}}
        BY <3>3, Zenon DEF Log
    <3>6. Log(d2, m) = Log(d, m) \cup Numbered(Len(d) + 1, Events(d2[Len(d) + 1]))
        BY <3>4, <3>5, Zenon DEF Log
    <3> QED
        BY <3>1, <3>2, <3>6, Zenon
  (* A new packet leaves the rows their sources.                             *)
  <2>SourcedGrows.
      ASSUME NEW d \in Seq(Packets), NEW p \in Packets, NEW m \in 0 .. Len(d), NEW r, Sourced(r, d, m)
      PROVE  Sourced(r, Append(d, p), m)
    <3> USE <2>SourcedGrows
    <3>1. PICK n \in 1 .. m : Caused(d, n, r.key, r.acc.last)
        BY Zenon DEF Sourced
    <3>2. Append(d, p)[n] = d[n]
        BY AppendFacts
    <3>3. Caused(Append(d, p), n, r.key, r.acc.last)
        BY <3>1, <3>2, Zenon DEF Caused
    <3> QED
        BY <3>1, <3>3, Zenon DEF Sourced
  <2>FlowDeliver.
      ASSUME FlowInv, NEW p \in Packets, Deliver(p)
      PROVE  FlowInv'
    <3> USE <2>FlowDeliver
    <3>1. /\ delivered' = Append(delivered, p) /\ flushed' = flushed /\ rows' = rows /\ pruned' = pruned
          /\ table' = IF Accepts(p.frame) THEN AddFlows(table, Decode(p)) ELSE table
        BY DEF Deliver
    <3>2. delivered \in Seq(Packets) /\ flushed \in 0 .. Len(delivered) /\ pruned \in Nat
        BY DEF FlowInv, Base
    <3>3. PICK n \in Nat : n = Len(delivered) + 1
        BY <3>2, AppendFacts
    <3>4. Base'
        BY <3>1, <3>2, AppendFacts DEF Base
    <3>5. PICK E : E = Log(delivered, flushed)
        OBVIOUS
    <3>6. Log(delivered', flushed') = E \cup Numbered(n, Events(p))
        BY <3>1, <3>2, <3>3, <3>5, <2>LogAppend, Zenon
    <3>7. IsFiniteSet(E) /\ (\A e \in E : GoodEvent(e.evt)) /\ \A e \in E : e.packet # n
      <4>1. IsFiniteSet(E) /\ \A e \in E : GoodEvent(e.evt) /\ e.packet \in flushed + 1 .. Len(delivered)
          BY <3>2, <3>5, LogFacts, Zenon
      <4>2. n \notin flushed + 1 .. Len(delivered)
          BY <3>2, <3>3
      <4> QED
          BY <4>1, <4>2, Zenon
    <3>8. Exact(table, E)
        BY <3>5, Zenon DEF FlowInv, TableInv
    <3>9. Exact(table', E \cup Numbered(n, Events(p)))
      <4>1. CASE Monitored(p)
        <5>1. table' = AddFlows(table, Decode(p))
            BY <3>1, <4>1, FilterAccepts, Zenon
        <5>2. Events(p) = Members(Decode(p))
            BY <4>1, Zenon DEF Events, Members
        <5>3. Exact(AddFlows(table, Decode(p)), E \cup Numbered(n, Members(Decode(p))))
            BY <3>7, <3>8, <1>AddFlowsExact
        <5> QED
            BY <5>1, <5>2, <5>3, Zenon
      <4>2. CASE ~Monitored(p)
        <5>1. table' = table
            BY <3>1, <4>2, FilterAccepts, Zenon
        <5>2. Events(p) = {}
            BY <4>2, Zenon DEF Events
        <5>3. E \cup Numbered(n, {}) = E
            BY Zenon DEF Numbered
        <5> QED
            BY <3>8, <5>1, <5>2, <5>3, Zenon
      <4> QED
          BY <4>1, <4>2
    <3>10. TableInv'
        BY <3>6, <3>9, Zenon DEF TableInv
    <3>11. RowsInv'
      <4>1. \A r \in rows : Sourced(r, delivered', flushed')
          BY <3>1, <3>2, <2>SourcedGrows, Zenon DEF FlowInv, RowsInv
      <4> QED
          BY <3>1, <4>1, Zenon DEF FlowInv, RowsInv
    <3>12. CoverInv'
      <4>1. ASSUME NEW k \in 1 .. flushed PROVE delivered'[k] = delivered[k]
          BY <3>1, <3>2, AppendFacts
      <4> QED
          BY <3>1, <4>1, Zenon DEF FlowInv, CoverInv
    <3> QED
        BY <3>4, <3>10, <3>11, <3>12 DEF FlowInv
  <2> QED
      BY <2>FlowDeliver
(* A flush moves the table into the rows.                                  *)
<1>FlowFlush.
    FlowInv /\ Flush =>
        FlowInv'
  (* The row that a flush makes of an entry.                                 *)
  <2>RowOfEntry.
      ASSUME FlowInv, NEW k \in DOMAIN table, flushed < Len(delivered)
      PROVE  Sourced(FlowRecord(Len(delivered), k, table[k]), delivered, Len(delivered))
    <3> USE <2>RowOfEntry
    <3>1. delivered \in Seq(Packets) /\ flushed \in 0 .. Len(delivered) /\ Len(delivered) \in Nat
        BY DEF FlowInv, Base
    <3>2. PICK m \in Nat : m = Len(delivered) /\ m > 0
        BY <3>1
    <3>3. Summary(table[k], Under(Log(delivered, flushed), k))
        BY Zenon DEF FlowInv, TableInv, Exact
    <3>4. PICK e \in Under(Log(delivered, flushed), k) : table[k].last = e.evt.ts
        BY <3>3, Zenon DEF Summary
    <3>5. e \in Log(delivered, flushed) /\ e.evt.key = k
        BY DEF Under
    <3>6. e.packet \in flushed + 1 .. m /\ e.evt \in Events(delivered[e.packet])
        BY <3>1, <3>2, <3>5, LogFacts, Zenon
    <3>7. e.packet \in 1 .. m
        BY <3>1, <3>2, <3>6
    <3>8. Caused(delivered, e.packet, k, table[k].last)
        BY <3>4, <3>5, <3>6, Zenon DEF Caused
    <3>9. PICK r : r = FlowRecord(m, k, table[k])
        OBVIOUS
    <3>10. r.id = m /\ r.key = k /\ r.acc = table[k]
        BY <3>9 DEF FlowRecord
    <3>11. table[k] \in Accums
        BY <3>3, Zenon DEF Summary
    <3>12. m \in 1 .. m
        BY <3>2
    <3>13. Sourced(r, delivered, m)
        BY <3>7, <3>8, <3>9, <3>10, <3>11, <3>12, Zenon DEF Sourced
    <3> QED
        BY <3>2, <3>9, <3>13, Zenon
  <2>FlowFlush.
      ASSUME FlowInv, Flush
      PROVE  FlowInv'
    <3> USE <2>FlowFlush
    <3>1. /\ delivered' = delivered /\ flushed' = Len(delivered) /\ table' = Empty /\ pruned' = pruned
          /\ flushed < Len(delivered)
          /\ rows' = rows \cup {FlowRecord(Len(delivered), k, table[k]) : k \in DOMAIN table}
        BY DEF Flush
    <3>2. delivered \in Seq(Packets) /\ flushed \in 0 .. Len(delivered) /\ pruned \in Nat /\ Len(delivered) \in Nat
        BY DEF FlowInv, Base
    <3>3. Base'
        BY <3>1, <3>2 DEF Base
    <3>4. TableInv'
      <4>1. Log(delivered', flushed') = {}
          BY <3>1, <3>2, <1>LogAll, Zenon
      <4> QED
          BY <3>1, <4>1, <1>ExactEmpty, Zenon DEF TableInv
    <3>5. PICK new : new = {FlowRecord(Len(delivered), k, table[k]) : k \in DOMAIN table}
        BY Zenon
    <3>6. IsFiniteSet(new)
      <4>1. PICK f : f = [k \in DOMAIN table |-> FlowRecord(Len(delivered), k, table[k])]
          BY Zenon
      <4>2. \A k \in DOMAIN table : f[k] = FlowRecord(Len(delivered), k, table[k])
          BY <4>1
      <4>3. new = {f[k] : k \in DOMAIN table}
          BY <3>5, <4>2, Zenon
      <4> QED
          BY <4>3, TableFinite, ImageFinite, Zenon
    <3>7. IsFiniteSet(rows \cup new)
        BY <3>6, FS_Union, Zenon DEF FlowInv, RowsInv
    <3>8. ASSUME NEW r \in rows PROVE Sourced(r, delivered, Len(delivered))
      <4>1. Sourced(r, delivered, flushed)
          BY Zenon DEF FlowInv, RowsInv
      <4>2. 1 .. flushed \subseteq 1 .. Len(delivered)
          BY <3>2
      <4> QED
          BY <4>1, <4>2, Zenon DEF Sourced
    <3>9. ASSUME NEW r \in new PROVE Sourced(r, delivered, Len(delivered))
        BY <3>1, <3>5, <2>RowOfEntry, Zenon
    <3>10. RowsInv'
        BY <3>1, <3>5, <3>7, <3>8, <3>9, Zenon DEF RowsInv
    <3>11. ASSUME NEW n \in 1 .. Len(delivered), NEW evt \in Events(delivered[n])
           PROVE  InRows(evt, rows')
      <4>1. CASE n \in 1 .. flushed
        <5>1. InRows(evt, rows)
            BY <4>1, Zenon DEF FlowInv, CoverInv
        <5> QED
            BY <3>1, <5>1, Zenon DEF InRows
      <4>2. CASE n \notin 1 .. flushed
        <5>1. n \in flushed + 1 .. Len(delivered)
            BY <3>2, <4>2
        <5>2. PICK e : e = LogEntry(n, evt)
            OBVIOUS
        <5>3. e \in Log(delivered, flushed)
          <6>1. e \in Numbered(n, Events(delivered[n]))
              BY <5>2, Zenon DEF Numbered
          <6> QED
              BY <5>1, <6>1, Zenon DEF Log
        <5>4. e.evt = evt
            BY <5>2 DEF LogEntry
        <5>5. evt.key \in DOMAIN table
            BY <5>3, <5>4, Zenon DEF FlowInv, TableInv, Exact
        <5>6. e \in Under(Log(delivered, flushed), evt.key)
            BY <5>3, <5>4 DEF Under
        <5>7. evt.ts <= table[evt.key].last
            BY <5>4, <5>5, <5>6, Zenon DEF FlowInv, TableInv, Exact, Summary
        <5>8. PICK r : r = FlowRecord(Len(delivered), evt.key, table[evt.key])
            OBVIOUS
        <5>9. r.key = evt.key /\ r.acc = table[evt.key]
            BY <5>8 DEF FlowRecord
        <5>10. r \in rows'
            BY <3>1, <5>5, <5>8, Zenon
        <5> QED
            BY <5>7, <5>9, <5>10, Zenon DEF InRows
      <4> QED
          BY <4>1, <4>2
    <3>12. CoverInv'
        BY <3>1, <3>11, Zenon DEF CoverInv
    <3> QED
        BY <3>3, <3>4, <3>10, <3>12 DEF FlowInv
  <2> QED
      BY <2>FlowFlush
(* Every step keeps the invariant.                                         *)
<1>FlowStep. FlowInv /\ [Next]_vars => FlowInv'
  <2> SUFFICES ASSUME FlowInv, [Next]_vars PROVE FlowInv'
      OBVIOUS
  <2>1. ASSUME NEW p \in Packets, Deliver(p) PROVE FlowInv'
      BY <2>1, <1>FlowDeliver
  <2>2. CASE Flush
      BY <2>2, <1>FlowFlush
  <2>3. ASSUME NEW now \in Nows, PruneDNSQueries(now) PROVE FlowInv'
    <3>1. UNCHANGED <<delivered, flushed, table, rows>> /\ pruned' = now
        BY <2>3 DEF PruneDNSQueries
    <3>2. now \in Nat
        BY ThresholdAssumption DEF Nows
    <3> QED
        BY <3>1, <3>2, Zenon DEF FlowInv, Base, TableInv, RowsInv, CoverInv
  <2>4. CASE UNCHANGED vars
      BY <2>4, Zenon DEF vars, FlowInv, Base, TableInv, RowsInv, CoverInv
  <2> QED
      BY <2>1, <2>2, <2>3, <2>4 DEF Next
<1> QED
    BY <1>FlowInitial, <1>FlowStep, PTL DEF Spec

(* Each entry of the aggregator is the exact summary of the events under   *)
(* its key since the last flush, for any packets in any order and for any  *)
(* subnet: the filter program drops no IPv4 frame and Add loses nothing.   *)
THEOREM TableIsExact == Spec => []AccumExact
(* The bytes of a set do not depend on the set around it.                  *)
<1>EventBytesWithin.
    ASSUME NEW S, NEW T, IsFiniteSet(T), S \subseteq T, \A e \in T : e.evt.bytes \in Nat
    PROVE  SumOver([e \in T |-> e.evt.bytes], S) = EventBytes(S)
  <2> USE <1>EventBytesWithin
  <2>1. PICK f : f = [e \in T |-> e.evt.bytes]
      BY Zenon
  <2>2. PICK g : g = [e \in S |-> e.evt.bytes]
      BY Zenon
  <2>3. \A e \in S : f[e] \in Nat /\ f[e] = g[e]
      BY <2>1, <2>2
  <2>4. IsFiniteSet(S)
      BY FS_Subset, Zenon
  <2>5. SumOver(f, S) = SumOver(g, S)
      BY <2>3, <2>4, SumAgree
  <2> QED
      BY <2>1, <2>2, <2>5, Zenon DEF EventBytes
(* A summary as AccumExact writes it.                                      *)
<1>ExactMeans.
    ASSUME NEW E, IsFiniteSet(E), \A e \in E : GoodEvent(e.evt), NEW acc, NEW at, at \subseteq E, Summary(acc, at)
    PROVE  LET out == {e \in at : e.evt.isLocalSrc}
               times == {e.evt.ts : e \in at}
               bytes == [e \in at |-> e.evt.bytes]
           IN  acc = [first |-> Min(times), last |-> Max(times),
                      bsent |-> SumOver(bytes, out), brecv |-> SumOver(bytes, at \ out),
                      psent |-> Cardinality(out), precv |-> Cardinality(at \ out)]
  <2> USE <1>ExactMeans
  <2>1. PICK out : out = {e \in at : e.evt.isLocalSrc}
      BY Zenon
  <2>2. PICK times : times = {e.evt.ts : e \in at}
      BY Zenon
  <2>3. PICK bytes : bytes = [e \in at |-> e.evt.bytes]
      BY Zenon
  <2>4. acc \in Accums
      BY Zenon DEF Summary
  <2>5. acc.bsent = EventBytes(out) /\ acc.brecv = EventBytes(at \ out)
        /\ acc.psent = Cardinality(out) /\ acc.precv = Cardinality(at \ out)
      BY <2>1, Zenon DEF Summary, Totals, Outgoing
  <2>6. IsFiniteSet(at) /\ \A e \in at : e.evt.bytes \in Nat /\ e.evt.ts \in Nat
      BY FS_Subset, Zenon DEF GoodEvent
  <2>7. SumOver(bytes, out) = EventBytes(out) /\ SumOver(bytes, at \ out) = EventBytes(at \ out)
    <3>1. out \subseteq at /\ at \ out \subseteq at
        BY <2>1
    <3>2. SumOver([e \in at |-> e.evt.bytes], out) = EventBytes(out)
        BY <2>6, <3>1, <1>EventBytesWithin
    <3>3. SumOver([e \in at |-> e.evt.bytes], at \ out) = EventBytes(at \ out)
        BY <2>6, <3>1, <1>EventBytesWithin
    <3> QED
        BY <2>3, <3>2, <3>3, Zenon
  <2>8. times \subseteq Nat /\ acc.first \in times /\ acc.last \in times
        /\ \A y \in times : acc.first <= y /\ y <= acc.last
      BY <2>2, <2>6 DEF Summary
  <2>9. Min(times) = acc.first
    <3>1. \A y \in times : acc.first <= y
        BY <2>8, Zenon
    <3>2. Min(times) \in times /\ \A y \in times : Min(times) <= y
        BY <2>8, <3>1, Zenon DEF Min
    <3>3. Min(times) <= acc.first /\ acc.first <= Min(times) /\ Min(times) \in Nat /\ acc.first \in Nat
        BY <2>8, <3>1, <3>2, Zenon
    <3> QED
        BY <3>3
  <2>10. Max(times) = acc.last
    <3>1. \A y \in times : acc.last >= y
        BY <2>8
    <3>2. Max(times) \in times /\ \A y \in times : Max(times) >= y
        BY <2>8, <3>1, Zenon DEF Max
    <3>3. Max(times) >= acc.last /\ acc.last >= Max(times) /\ Max(times) \in Nat /\ acc.last \in Nat
        BY <2>8, <3>1, <3>2, Zenon
    <3> QED
        BY <3>3
  <2>11. acc = [first |-> acc.first, last |-> acc.last, bsent |-> acc.bsent, brecv |-> acc.brecv,
                psent |-> acc.psent, precv |-> acc.precv]
      BY <2>4 DEF Accums
  <2>12. acc = [first |-> Min(times), last |-> Max(times),
                bsent |-> SumOver(bytes, out), brecv |-> SumOver(bytes, at \ out),
                psent |-> Cardinality(out), precv |-> Cardinality(at \ out)]
      BY <2>5, <2>7, <2>9, <2>10, <2>11, Zenon
  <2> QED
      BY <2>1, <2>2, <2>3, <2>12, Zenon
(* The table part of the invariant is AccumExact.                          *)
<1>FlowAccum. FlowInv => AccumExact
  <2> SUFFICES ASSUME FlowInv PROVE AccumExact
      OBVIOUS
  <2>1. LogEvents = Log(delivered, flushed)
      BY Zenon DEF LogEvents, Log, Numbered, LogEntry
  <2>2. PICK E : E = Log(delivered, flushed)
      OBVIOUS
  <2>3. IsFiniteSet(E) /\ \A e \in E : GoodEvent(e.evt)
      BY <2>2, LogFacts DEF FlowInv, Base
  <2>4. DOMAIN table = {e.evt.key : e \in E}
      BY <2>2, Zenon DEF FlowInv, TableInv, Exact
  <2>5. ASSUME NEW k \in DOMAIN table
        PROVE  LET at == {e \in E : e.evt.key = k}
                   out == {e \in at : e.evt.isLocalSrc}
                   times == {e.evt.ts : e \in at}
                   bytes == [e \in at |-> e.evt.bytes]
               IN  table[k] = [first |-> Min(times), last |-> Max(times),
                               bsent |-> SumOver(bytes, out), brecv |-> SumOver(bytes, at \ out),
                               psent |-> Cardinality(out), precv |-> Cardinality(at \ out)]
    <3>1. Summary(table[k], Under(E, k))
        BY <2>2, Zenon DEF FlowInv, TableInv, Exact
    <3>2. PICK at : at = {e \in E : e.evt.key = k}
        BY Zenon
    <3>3. at \subseteq E /\ Summary(table[k], at)
        BY <3>1, <3>2, Zenon DEF Under
    <3>4. LET out == {e \in at : e.evt.isLocalSrc}
              times == {e.evt.ts : e \in at}
              bytes == [e \in at |-> e.evt.bytes]
          IN  table[k] = [first |-> Min(times), last |-> Max(times),
                          bsent |-> SumOver(bytes, out), brecv |-> SumOver(bytes, at \ out),
                          psent |-> Cardinality(out), precv |-> Cardinality(at \ out)]
        BY <2>3, <3>3, <1>ExactMeans, Zenon
    <3> QED
        BY <3>2, <3>4, Zenon
  <2> QED
      BY <2>1, <2>2, <2>4, <2>5, Zenon DEF AccumExact
<1> QED
    BY FlowInvariant, <1>FlowAccum, PTL

(***************************************************************************)
(* Traffic: the rows and the detectors.                                    *)
(***************************************************************************)

(* The events of a monitored packet are those of Decode.                   *)
LEMMA MembersIn ==
    ASSUME NEW p, NEW a, NEW b
    PROVE  /\ Decode(p) = <<a>> /\ Monitored(p) => Events(p) = {a}
           /\ Decode(p) = <<a, b>> /\ Monitored(p) => Events(p) = {a, b}
           /\ Decode(p) = <<>> => Events(p) = {}
<1>1. Monitored(p) => Events(p) = Members(Decode(p))
    BY Zenon DEF Events, Members
<1>2. ~Monitored(p) => Events(p) = {}
    BY Zenon DEF Events
<1>3. Decode(p) = <<a>> /\ Monitored(p) => Events(p) = {a}
    BY <1>1, MembersOne, Zenon
<1>4. Decode(p) = <<a, b>> /\ Monitored(p) => Events(p) = {a, b}
    BY <1>1, MembersTwo, Zenon
<1>5. Decode(p) = <<>> => Events(p) = {}
    BY <1>1, <1>2, MembersNone, Zenon
<1> QED
    BY <1>3, <1>4, <1>5, Zenon

(* The events of a LAN-to-LAN packet.                                      *)
LEMMA EventsLAN ==
    ASSUME NEW p, Monitored(p), Usable(p), p.src \in LAN, p.dst \in LAN
    PROVE  Events(p) = {FlowEvent(DirLANOut, p, TRUE), FlowEvent(DirLANIn, p, FALSE)}
BY DecodeLAN, MembersIn, Zenon

(* The event of a packet to the outside.                                   *)
LEMMA EventsOut ==
    ASSUME NEW p, Monitored(p), Usable(p), p.src \in LAN, p.dst \notin LAN
    PROVE  Events(p) = {FlowEvent(DirLANToWAN, p, TRUE)}
BY DecodeOut, MembersIn, Zenon

(* The event of a packet from the outside.                                 *)
LEMMA EventsIn ==
    ASSUME NEW p, Monitored(p), Usable(p), p.src \notin LAN, p.dst \in LAN
    PROVE  Events(p) = {FlowEvent(DirWANToLAN, p, FALSE)}
BY DecodeIn, MembersIn, Zenon

(* What an event says of its packet.                                       *)
LEMMA EventSource ==
    \A p \in Packets : \A evt \in Events(p) :
        /\ Monitored(p) /\ Usable(p) /\ evt.ts = p.ts
        /\ \/ evt.key.dir = 0 /\ evt.key.lip = p.src /\ evt.key.rip = p.dst
           \/ evt.key.dir = 1 /\ evt.key.lip = p.dst /\ evt.key.rip = p.src
           \/ evt.key.dir \in {2, 3} /\ evt.key.rip \in LAN
(* Packets without events.                                                 *)
<1>EventsNone.
    ASSUME NEW p, ~Monitored(p) \/ ~Usable(p) \/ (p.src \notin LAN /\ p.dst \notin LAN)
    PROVE  Events(p) = {}
  <2> USE <1>EventsNone
  <2>1. ~Monitored(p) => Events(p) = {}
      BY Zenon DEF Events
  <2> QED
      BY <2>1, DecodeNone, MembersIn, Zenon
<1>EventSource.
    ASSUME NEW p \in Packets, NEW evt \in Events(p)
    PROVE  /\ Monitored(p) /\ Usable(p) /\ evt.ts = p.ts
           /\ \/ evt.key.dir = 0 /\ evt.key.lip = p.src /\ evt.key.rip = p.dst
              \/ evt.key.dir = 1 /\ evt.key.lip = p.dst /\ evt.key.rip = p.src
              \/ evt.key.dir \in {2, 3} /\ evt.key.rip \in LAN
  <2>1. Monitored(p) /\ Usable(p) /\ (p.src \in LAN \/ p.dst \in LAN)
      BY <1>EventsNone, Zenon
  <2>2. CASE p.src \in LAN /\ p.dst \in LAN
    <3>1. evt = FlowEvent(DirLANOut, p, TRUE) \/ evt = FlowEvent(DirLANIn, p, FALSE)
        BY <2>1, <2>2, EventsLAN, Zenon
    <3>2. CASE evt = FlowEvent(DirLANOut, p, TRUE)
      <4>1. evt.ts = p.ts /\ evt.key.dir = 2 /\ evt.key.rip = p.dst
          BY <3>2, LocalEvent, Zenon DEF DirLANOut
      <4> QED
          BY <2>1, <2>2, <4>1
    <3>3. CASE evt = FlowEvent(DirLANIn, p, FALSE)
      <4>1. evt.ts = p.ts /\ evt.key.dir = 3 /\ evt.key.rip = p.src
          BY <3>3, RemoteEvent, Zenon DEF DirLANIn
      <4> QED
          BY <2>1, <2>2, <4>1
    <3> QED
        BY <3>1, <3>2, <3>3, Zenon
  <2>3. CASE p.src \in LAN /\ p.dst \notin LAN
    <3>1. evt = FlowEvent(DirLANToWAN, p, TRUE)
        BY <2>1, <2>3, EventsOut, Zenon
    <3> QED
        BY <2>1, <3>1, LocalEvent, Zenon DEF DirLANToWAN
  <2>4. CASE p.src \notin LAN /\ p.dst \in LAN
    <3>1. evt = FlowEvent(DirWANToLAN, p, FALSE)
        BY <2>1, <2>4, EventsIn, Zenon
    <3> QED
        BY <2>1, <3>1, RemoteEvent, Zenon DEF DirWANToLAN
  <2> QED
      BY <2>1, <2>2, <2>3, <2>4, Zenon
<1> QED
    BY <1>EventSource

(* A row ends with a packet that went the way the row says.                *)
LEMMA RowSource ==
    ASSUME FlowInv, NEW r \in rows
    PROVE  /\ r.acc.last \in 0 .. Horizon
           /\ \E n \in DOMAIN delivered :
                /\ delivered[n] \in Packets /\ Monitored(delivered[n]) /\ r.acc.last = delivered[n].ts
                /\ \/ r.key.dir = 0 /\ r.key.lip = delivered[n].src /\ r.key.rip = delivered[n].dst
                   \/ r.key.dir = 1 /\ r.key.lip = delivered[n].dst /\ r.key.rip = delivered[n].src
                   \/ r.key.dir \in {2, 3} /\ r.key.rip \in LAN
<1>1. delivered \in Seq(Packets) /\ flushed \in 0 .. Len(delivered)
    BY DEF FlowInv, Base
<1>2. Sourced(r, delivered, flushed)
    BY Zenon DEF FlowInv, RowsInv
<1>3. PICK n \in 1 .. flushed : Caused(delivered, n, r.key, r.acc.last)
    BY <1>2, Zenon DEF Sourced
<1>4. n \in DOMAIN delivered /\ delivered[n] \in Packets
    BY <1>1
<1>5. PICK evt \in Events(delivered[n]) : evt.key = r.key /\ evt.ts = r.acc.last
    BY <1>3, Zenon DEF Caused
<1>6. PICK p \in Packets : p = delivered[n]
    BY <1>4
<1>7. p.ts \in 0 .. Horizon
    BY PacketTypes
<1>8. /\ Monitored(p) /\ evt.ts = p.ts
      /\ \/ evt.key.dir = 0 /\ evt.key.lip = p.src /\ evt.key.rip = p.dst
         \/ evt.key.dir = 1 /\ evt.key.lip = p.dst /\ evt.key.rip = p.src
         \/ evt.key.dir \in {2, 3} /\ evt.key.rip \in LAN
    BY <1>5, <1>6, EventSource, Zenon
<1>9. r.acc.last \in 0 .. Horizon /\ r.acc.last = p.ts
    BY <1>5, <1>7, <1>8, Zenon
<1> QED
    BY <1>4, <1>5, <1>6, <1>8, <1>9, Zenon

(* Once everything is flushed, a packet at or after since has a row in the *)
(* window from since on, even when that row began before it.               *)
LEMMA RowFor ==
    ASSUME FlowInv, flushed = Len(delivered), NEW n \in DOMAIN delivered, NEW evt \in Events(delivered[n]),
           NEW since \in Nat, delivered[n].ts >= since
    PROVE  \E r \in rows : r.key = evt.key /\ InWindow(r, since, Horizon)
<1>1. delivered \in Seq(Packets) /\ flushed \in 0 .. Len(delivered)
    BY DEF FlowInv, Base
<1>2. n \in 1 .. flushed /\ delivered[n] \in Packets
    BY <1>1
<1>3. PICK r \in rows : r.key = evt.key /\ evt.ts <= r.acc.last
    BY <1>2, Zenon DEF FlowInv, CoverInv, InRows
<1>4. evt.ts = delivered[n].ts /\ delivered[n].ts \in Nat
    BY <1>2, EventSource, PacketTypes
<1>5. r.acc.last \in 0 .. Horizon /\ Horizon \in Nat
    BY RowSource, ThresholdAssumption
<1>6. r.acc.last >= since /\ r.acc.last <= Horizon
    BY <1>3, <1>4, <1>5
<1> QED
    BY <1>3, <1>6, Zenon DEF InWindow

(***************************************************************************)
(* Port scans.                                                             *)
(***************************************************************************)

(* A host that reached enough ports of one peer is found once everything   *)
(* is flushed, on both sides when the peer is in the LAN, for any          *)
(* threshold and window and however flushes merged its packets.            *)
THEOREM ScansAreFound == Spec => []ScanNotMissed
(* The outbound checks of PortScan count the remote ports.                 *)
<1>FlaggedByRemotePorts.
    ASSUME NEW h, NEW peer, NEW dir \in {0, 2}, NEW since, NEW now, NEW T,
           T = {r.key.rport : r \in PairRows(h, peer, dir, since, now)}, Cardinality(T) >= PortThreshold
    PROVE  PortScanFlagged(h, peer, dir, since, now)
  <2> USE <1>FlaggedByRemotePorts
  <2>1. dir # 3
      OBVIOUS
  <2>2. T = {IF dir = 3 THEN r.key.lport ELSE r.key.rport : r \in PairRows(h, peer, dir, since, now)}
      BY <2>1, Zenon
  <2>3. Cardinality({IF dir = 3 THEN r.key.lport ELSE r.key.rport : r \in PairRows(h, peer, dir, since, now)})
            >= PortThreshold
      BY <2>2, Zenon
  <2> QED
      BY <2>3 DEF PortScanFlagged, TargetPorts, DirLANToWAN, DirLANOut, DirLANIn
(* The inbound check counts the local ports.                               *)
<1>FlaggedByLocalPorts.
    ASSUME NEW h, NEW peer, NEW since, NEW now, NEW T,
           T = {r.key.lport : r \in PairRows(h, peer, 3, since, now)}, Cardinality(T) >= PortThreshold
    PROVE  PortScanFlagged(h, peer, 3, since, now)
  <2> USE <1>FlaggedByLocalPorts
  <2>2. T = {IF 3 = 3 THEN r.key.lport ELSE r.key.rport : r \in PairRows(h, peer, 3, since, now)}
      BY Zenon
  <2>3. Cardinality({IF 3 = 3 THEN r.key.lport ELSE r.key.rport : r \in PairRows(h, peer, 3, since, now)})
            >= PortThreshold
      BY <2>2, Zenon
  <2> QED
      BY <2>3 DEF PortScanFlagged, TargetPorts, DirLANToWAN, DirLANOut, DirLANIn
(* A host has finitely many rows with a peer.                              *)
<1>PortsFinite.
    ASSUME FlowInv, NEW h, NEW peer, NEW dir, NEW since, NEW now
    PROVE  /\ IsFiniteSet({r.key.rport : r \in PairRows(h, peer, dir, since, now)})
           /\ IsFiniteSet({r.key.lport : r \in PairRows(h, peer, dir, since, now)})
  <2> USE <1>PortsFinite
  <2>1. PICK S : S = PairRows(h, peer, dir, since, now)
      OBVIOUS
  <2>2. S \subseteq rows
      BY <2>1 DEF PairRows
  <2>3. IsFiniteSet(S)
      BY <2>2, FS_Subset, Zenon DEF FlowInv, RowsInv
  <2>4. PICK f : f = [r \in S |-> r.key.rport]
      BY Zenon
  <2>5. PICK g : g = [r \in S |-> r.key.lport]
      BY Zenon
  <2>6. \A r \in S : f[r] = r.key.rport /\ g[r] = r.key.lport
      BY <2>4, <2>5
  <2>7. {f[r] : r \in S} = {r.key.rport : r \in S} /\ {g[r] : r \in S} = {r.key.lport : r \in S}
      BY <2>6, Zenon
  <2>8. IsFiniteSet({f[r] : r \in S}) /\ IsFiniteSet({g[r] : r \in S})
      BY <2>3, ImageFinite, Zenon
  <2> QED
      BY <2>1, <2>7, <2>8, Zenon
(* A larger set of ports is above the threshold too.                       *)
<1>EnoughPorts.
    ASSUME NEW S, NEW T, IsFiniteSet(T), S \subseteq T, Cardinality(S) >= PortThreshold
    PROVE  Cardinality(T) >= PortThreshold
  <2> USE <1>EnoughPorts
  <2>1. IsFiniteSet(S) /\ Cardinality(S) <= Cardinality(T)
      BY FS_Subset, Zenon
  <2>2. Cardinality(S) \in Nat /\ Cardinality(T) \in Nat
      BY <2>1, FS_CardinalityType, Zenon
  <2> QED
      BY <2>1, <2>2, ThresholdAssumption
(* Every port reached has a row on either side of the pair.                *)
<1>FlowScan. FlowInv => ScanNotMissed
  <2> SUFFICES ASSUME FlowInv, flushed = Len(delivered),
                      NEW h \in Hosts, NEW peer, NEW since \in Times,
                      Cardinality(PortsReached(h, peer, since)) >= PortThreshold
               PROVE  IF peer \in LAN
                      THEN /\ PortScanFlagged(h, peer, DirLANOut, since, Horizon)
                           /\ PortScanFlagged(peer, h, DirLANIn, since, Horizon)
                      ELSE PortScanFlagged(h, peer, DirLANToWAN, since, Horizon)
      BY Zenon DEF ScanNotMissed
  <2>1. since \in Nat
      BY ThresholdAssumption DEF Times
  <2>2. h \in LAN /\ h # Unspecified /\ h # Broadcast
      BY DEF Hosts
  <2>3. PICK reached : reached = PortsReached(h, peer, since)
      OBVIOUS
  <2>4. delivered \in Seq(Packets)
      BY DEF FlowInv, Base
  <2>5. ASSUME NEW port \in reached
        PROVE  \E n \in DOMAIN delivered :
                   /\ delivered[n] \in Packets /\ Monitored(delivered[n]) /\ Usable(delivered[n])
                   /\ delivered[n].src = h /\ delivered[n].dst = peer
                   /\ delivered[n].dport = port /\ delivered[n].ts >= since
    <3>1. PICK n : /\ n \in {m \in Sent(h) : delivered[m].dst = peer /\ delivered[m].ts >= since}
                   /\ port = delivered[n].dport
        BY <2>3, Zenon DEF PortsReached
    <3>2. n \in Sent(h) /\ delivered[n].dst = peer /\ delivered[n].ts >= since
        BY <3>1
    <3>3. /\ n \in DOMAIN delivered /\ Monitored(delivered[n]) /\ delivered[n].src = h
          /\ delivered[n].dst # Broadcast
        BY <3>2 DEF Sent
    <3>4. delivered[n] \in Packets
        BY <2>4, <3>3
    <3> QED
        BY <2>2, <3>1, <3>2, <3>3, <3>4, Zenon DEF Usable
  <2>6. CASE peer \in LAN
    <3>1. reached \subseteq {r.key.rport : r \in PairRows(h, peer, 2, since, Horizon)}
      <4> SUFFICES ASSUME NEW port \in reached
                   PROVE  port \in {r.key.rport : r \in PairRows(h, peer, 2, since, Horizon)}
          OBVIOUS
      <4>1. PICK n \in DOMAIN delivered :
                   /\ delivered[n] \in Packets /\ Monitored(delivered[n]) /\ Usable(delivered[n])
                   /\ delivered[n].src = h /\ delivered[n].dst = peer
                   /\ delivered[n].dport = port /\ delivered[n].ts >= since
          BY <2>5
      <4>2. PICK evt : evt = FlowEvent(DirLANOut, delivered[n], TRUE)
          BY Zenon
      <4>3. evt \in Events(delivered[n])
          BY <2>2, <2>6, <4>1, <4>2, EventsLAN, Zenon
      <4>4. evt.key.dir = 2 /\ evt.key.lip = h /\ evt.key.rip = peer /\ evt.key.rport = port
          BY <4>1, <4>2, LocalEvent, Zenon DEF DirLANOut
      <4>5. PICK r \in rows : r.key = evt.key /\ InWindow(r, since, Horizon)
          BY <2>1, <4>1, <4>3, RowFor, Zenon
      <4> QED
          BY <4>4, <4>5, Zenon DEF PairRows
    <3>2. reached \subseteq {r.key.lport : r \in PairRows(peer, h, 3, since, Horizon)}
      <4> SUFFICES ASSUME NEW port \in reached
                   PROVE  port \in {r.key.lport : r \in PairRows(peer, h, 3, since, Horizon)}
          OBVIOUS
      <4>1. PICK n \in DOMAIN delivered :
                   /\ delivered[n] \in Packets /\ Monitored(delivered[n]) /\ Usable(delivered[n])
                   /\ delivered[n].src = h /\ delivered[n].dst = peer
                   /\ delivered[n].dport = port /\ delivered[n].ts >= since
          BY <2>5
      <4>2. PICK evt : evt = FlowEvent(DirLANIn, delivered[n], FALSE)
          BY Zenon
      <4>3. evt \in Events(delivered[n])
          BY <2>2, <2>6, <4>1, <4>2, EventsLAN, Zenon
      <4>4. evt.key.dir = 3 /\ evt.key.lip = peer /\ evt.key.rip = h /\ evt.key.lport = port
          BY <4>1, <4>2, RemoteEvent, Zenon DEF DirLANIn
      <4>5. PICK r \in rows : r.key = evt.key /\ InWindow(r, since, Horizon)
          BY <2>1, <4>1, <4>3, RowFor, Zenon
      <4> QED
          BY <4>4, <4>5, Zenon DEF PairRows
    <3>3. PortScanFlagged(h, peer, 2, since, Horizon)
      <4>0. IsFiniteSet({r.key.rport : r \in PairRows(h, peer, 2, since, Horizon)})
          BY <1>PortsFinite, Zenon
      <4>1. Cardinality({r.key.rport : r \in PairRows(h, peer, 2, since, Horizon)}) >= PortThreshold
          BY <2>3, <3>1, <4>0, <1>EnoughPorts, Zenon
      <4> QED
          BY <4>1, <1>FlaggedByRemotePorts, Zenon
    <3>4. PortScanFlagged(peer, h, 3, since, Horizon)
      <4>0. IsFiniteSet({r.key.lport : r \in PairRows(peer, h, 3, since, Horizon)})
          BY <1>PortsFinite, Zenon
      <4>1. Cardinality({r.key.lport : r \in PairRows(peer, h, 3, since, Horizon)}) >= PortThreshold
          BY <2>3, <3>2, <4>0, <1>EnoughPorts, Zenon
      <4> QED
          BY <4>1, <1>FlaggedByLocalPorts
    <3> QED
        BY <2>6, <3>3, <3>4, Zenon DEF DirLANOut, DirLANIn
  <2>7. CASE peer \notin LAN
    <3>1. reached \subseteq {r.key.rport : r \in PairRows(h, peer, 0, since, Horizon)}
      <4> SUFFICES ASSUME NEW port \in reached
                   PROVE  port \in {r.key.rport : r \in PairRows(h, peer, 0, since, Horizon)}
          OBVIOUS
      <4>1. PICK n \in DOMAIN delivered :
                   /\ delivered[n] \in Packets /\ Monitored(delivered[n]) /\ Usable(delivered[n])
                   /\ delivered[n].src = h /\ delivered[n].dst = peer
                   /\ delivered[n].dport = port /\ delivered[n].ts >= since
          BY <2>5
      <4>2. PICK evt : evt = FlowEvent(DirLANToWAN, delivered[n], TRUE)
          BY Zenon
      <4>3. evt \in Events(delivered[n])
          BY <2>2, <2>7, <4>1, <4>2, EventsOut, Zenon
      <4>4. evt.key.dir = 0 /\ evt.key.lip = h /\ evt.key.rip = peer /\ evt.key.rport = port
          BY <4>1, <4>2, LocalEvent, Zenon DEF DirLANToWAN
      <4>5. PICK r \in rows : r.key = evt.key /\ InWindow(r, since, Horizon)
          BY <2>1, <4>1, <4>3, RowFor, Zenon
      <4> QED
          BY <4>4, <4>5, Zenon DEF PairRows
    <3>2. Cardinality({r.key.rport : r \in PairRows(h, peer, 0, since, Horizon)}) >= PortThreshold
        BY <2>3, <3>1, <1>PortsFinite, <1>EnoughPorts, Zenon
    <3>4. PortScanFlagged(h, peer, 0, since, Horizon)
        BY <3>2, <1>FlaggedByRemotePorts, Zenon
    <3> QED
        BY <2>7, <3>4, Zenon DEF DirLANToWAN
  <2> QED
      BY <2>6, <2>7
<1> QED
    BY FlowInvariant, <1>FlowScan, PTL

(***************************************************************************)
(* The watchlist.                                                          *)
(***************************************************************************)

(* Whether the rows have the direction, as ClassifyPeerDirection asks.     *)
Had(S, dir) == \E r \in S : r.key.dir = dir

(* The watchlist alert is raised for exactly the watched peers in contact  *)
(* within the window, and packets went the way its label says, for any     *)
(* watchlist.                                                              *)
THEOREM WatchlistIsExact == Spec => []GeoAlertsExact
(* What the label of a pair with outside rows says.                        *)
<1>LabelIs.
    ASSUME NEW S, Had(S, 0) \/ Had(S, 1)
    PROVE  /\ ClassifyPeerDirection(S) \in {"outbound", "inbound", "bidirectional"}
           /\ ClassifyPeerDirection(S) \in {"outbound", "bidirectional"} => Had(S, 0)
           /\ ClassifyPeerDirection(S) \in {"inbound", "bidirectional"} => Had(S, 1)
  <2> USE <1>LabelIs
  <2>1. ClassifyPeerDirection(S) =
          IF Had(S, 0) /\ Had(S, 1) THEN "bidirectional"
          ELSE IF Had(S, 0) THEN "outbound" ELSE IF Had(S, 1) THEN "inbound" ELSE "unknown"
      BY Zenon DEF ClassifyPeerDirection, Had, DirLANToWAN, DirWANToLAN
  <2>2. CASE Had(S, 0) /\ Had(S, 1)
      BY <2>1, <2>2
  <2>3. CASE Had(S, 0) /\ ~Had(S, 1)
      BY <2>1, <2>3
  <2>4. CASE ~Had(S, 0) /\ Had(S, 1)
      BY <2>1, <2>4
  <2> QED
      BY <2>2, <2>3, <2>4
(* A row of an outside peer stands for a packet of its window.             *)
<1>RowWent.
    ASSUME FlowInv, NEW r \in rows, NEW since, NEW ip, ip \notin LAN, NEW h,
           r.key.lip = h, r.key.rip = ip, r.acc.last >= since
    PROVE  /\ r.key.dir \in {0, 1}
           /\ r.key.dir = 0 => Went(h, ip, since)
           /\ r.key.dir = 1 => Went(ip, h, since)
  <2> USE <1>RowWent
  <2>1. PICK n \in DOMAIN delivered :
                  /\ delivered[n] \in Packets /\ Monitored(delivered[n]) /\ r.acc.last = delivered[n].ts
                  /\ \/ r.key.dir = 0 /\ r.key.lip = delivered[n].src /\ r.key.rip = delivered[n].dst
                     \/ r.key.dir = 1 /\ r.key.lip = delivered[n].dst /\ r.key.rip = delivered[n].src
                     \/ r.key.dir \in {2, 3} /\ r.key.rip \in LAN
      BY RowSource, Zenon
  <2>2. delivered[n].ts >= since
      BY <2>1, Zenon
  <2>3. CASE r.key.dir = 0 /\ r.key.lip = delivered[n].src /\ r.key.rip = delivered[n].dst
    <3>1. Went(h, ip, since)
        BY <2>1, <2>2, <2>3, Zenon DEF Went
    <3> QED
        BY <2>3, <3>1
  <2>4. CASE r.key.dir = 1 /\ r.key.lip = delivered[n].dst /\ r.key.rip = delivered[n].src
    <3>1. Went(ip, h, since)
        BY <2>1, <2>2, <2>4, Zenon DEF Went
    <3> QED
        BY <2>4, <3>1
  <2> QED
      BY <2>1, <2>3, <2>4
(* Each label has a row, and each row a packet.                            *)
<1>FlowGeo. FlowInv => GeoAlertsExact
  <2> SUFFICES ASSUME FlowInv, NEW h \in Hosts, NEW ip \in Outside, Watched(ip), NEW since \in Times
               PROVE  LET labels == GeoWatchlist(h, ip, since, Horizon) IN
                      /\ flushed = Len(delivered) /\ (Went(h, ip, since) \/ Went(ip, h, since)) => labels # {}
                      /\ labels \subseteq {"outbound", "inbound", "bidirectional"}
                      /\ labels \cap {"outbound", "bidirectional"} # {} => Went(h, ip, since)
                      /\ labels \cap {"inbound", "bidirectional"} # {} => Went(ip, h, since)
      BY Zenon DEF GeoAlertsExact
  <2>1. since \in Nat
      BY ThresholdAssumption DEF Times
  <2>2. /\ h \in LAN /\ h # Unspecified /\ h # Broadcast
        /\ ip \notin LAN /\ ip # Unspecified /\ ip # Broadcast
      BY DEF Hosts, Outside
  <2>3. PICK labels : labels = GeoWatchlist(h, ip, since, Horizon)
      OBVIOUS
  <2>4. labels = {ClassifyPeerDirection(PeerRows(h, ip, port, since, Horizon)) :
                      port \in PeerPorts(h, ip, since, Horizon)}
      BY <2>3, Zenon DEF GeoWatchlist
  <2>5. ASSUME NEW r \in rows, r.key.lip = h, r.key.rip = ip, InWindow(r, since, Horizon)
        PROVE  labels # {}
    <3>1. r.key.rport \in PeerPorts(h, ip, since, Horizon)
        BY <2>5, Zenon DEF PeerPorts
    <3> QED
        BY <2>4, <3>1, Zenon
  <2>6. ASSUME flushed = Len(delivered), Went(h, ip, since)
        PROVE  labels # {}
    <3>1. PICK n \in DOMAIN delivered :
              /\ Monitored(delivered[n]) /\ delivered[n].ts >= since
              /\ delivered[n].src = h /\ delivered[n].dst = ip
        BY <2>6, Zenon DEF Went
    <3>2. delivered[n] \in Packets /\ Usable(delivered[n])
        BY <2>2, <3>1 DEF FlowInv, Base, Usable
    <3>3. PICK evt : evt = FlowEvent(DirLANToWAN, delivered[n], TRUE)
        BY Zenon
    <3>4. evt \in Events(delivered[n])
        BY <2>2, <3>1, <3>2, <3>3, EventsOut, Zenon
    <3>5. evt.key.lip = h /\ evt.key.rip = ip
        BY <3>1, <3>2, <3>3, LocalEvent, Zenon
    <3>6. PICK r \in rows : r.key = evt.key /\ InWindow(r, since, Horizon)
        BY <2>1, <2>6, <3>1, <3>4, RowFor, Zenon
    <3> QED
        BY <2>5, <3>5, <3>6, Zenon
  <2>7. ASSUME flushed = Len(delivered), Went(ip, h, since)
        PROVE  labels # {}
    <3>1. PICK n \in DOMAIN delivered :
              /\ Monitored(delivered[n]) /\ delivered[n].ts >= since
              /\ delivered[n].src = ip /\ delivered[n].dst = h
        BY <2>7, Zenon DEF Went
    <3>2. delivered[n] \in Packets /\ Usable(delivered[n])
        BY <2>2, <3>1 DEF FlowInv, Base, Usable
    <3>3. PICK evt : evt = FlowEvent(DirWANToLAN, delivered[n], FALSE)
        BY Zenon
    <3>4. evt \in Events(delivered[n])
        BY <2>2, <3>1, <3>2, <3>3, EventsIn, Zenon
    <3>5. evt.key.lip = h /\ evt.key.rip = ip
        BY <3>1, <3>2, <3>3, RemoteEvent, Zenon
    <3>6. PICK r \in rows : r.key = evt.key /\ InWindow(r, since, Horizon)
        BY <2>1, <2>7, <3>1, <3>4, RowFor, Zenon
    <3> QED
        BY <2>5, <3>5, <3>6, Zenon
  <2>8. ASSUME NEW label \in labels
        PROVE  /\ label \in {"outbound", "inbound", "bidirectional"}
               /\ label \in {"outbound", "bidirectional"} => Went(h, ip, since)
               /\ label \in {"inbound", "bidirectional"} => Went(ip, h, since)
    <3>1. PICK port \in PeerPorts(h, ip, since, Horizon) :
              label = ClassifyPeerDirection(PeerRows(h, ip, port, since, Horizon))
        BY <2>4, Zenon
    <3>2. PICK S : S = PeerRows(h, ip, port, since, Horizon)
        OBVIOUS
    <3>3. ASSUME NEW r \in S
          PROVE  r \in rows /\ r.key.lip = h /\ r.key.rip = ip /\ r.acc.last >= since
        BY <3>2 DEF PeerRows, InWindow
    <3>4. PICK s \in S : TRUE
        BY <3>2, Zenon DEF PeerPorts, PeerRows
    <3>5. ASSUME NEW r \in S
          PROVE  /\ r.key.dir \in {0, 1}
                 /\ r.key.dir = 0 => Went(h, ip, since)
                 /\ r.key.dir = 1 => Went(ip, h, since)
        BY <2>2, <3>3, <1>RowWent
    <3>6. Had(S, 0) \/ Had(S, 1)
        BY <3>4, <3>5, Zenon DEF Had
    <3>7. (Had(S, 0) => Went(h, ip, since)) /\ (Had(S, 1) => Went(ip, h, since))
        BY <3>5, Zenon DEF Had
    <3> QED
        BY <3>1, <3>2, <3>6, <3>7, <1>LabelIs, Zenon
  <2>9. /\ labels \subseteq {"outbound", "inbound", "bidirectional"}
        /\ labels \cap {"outbound", "bidirectional"} # {} => Went(h, ip, since)
        /\ labels \cap {"inbound", "bidirectional"} # {} => Went(ip, h, since)
      BY <2>8, Zenon
  <2> QED
      BY <2>3, <2>6, <2>7, <2>9, Zenon
<1> QED
    BY FlowInvariant, <1>FlowGeo, PTL

(***************************************************************************)
(* DNS.                                                                    *)
(***************************************************************************)

(* The packets whose query is recorded, and the record.                    *)
IsFiled(p) == Monitored(p) /\ Decode(p) # <<>> /\ IsQuery(p)
Filed(d, n) == DNSQueryRecord(n, DNSEvent(d[n]))

(* The inductive invariant of the DNS queries. The buffer holds those no   *)
(* flush has covered.                                                      *)
QueriesInv ==
    queries = {Filed(delivered, n) : n \in {m \in flushed + 1 .. Len(delivered) : IsFiled(delivered[m])}}

(* The table holds only queries that were made, and all that the last      *)
(* prune had to keep.                                                      *)
DNSInv ==
    /\ \A r \in dns : \E n \in 1 .. flushed : IsFiled(delivered[n]) /\ r = Filed(delivered, n)
    /\ \A n \in 1 .. flushed : IsFiled(delivered[n]) /\ delivered[n].ts >= pruned - DNSRetention
           => Filed(delivered, n) \in dns

(* Together, over a proper history.                                        *)
QueryInv == Base /\ QueriesInv /\ DNSInv

(* The packets behind the rows of a host and a window.                     *)
QueriesFor(h, since, now) ==
    {n \in DOMAIN delivered : /\ IsFiled(delivered[n]) /\ DNSEvent(delivered[n]).host = h
                              /\ delivered[n].ts >= since /\ delivered[n].ts <= now}

(* A DNS scan after a flush flags exactly the hosts with too many queries, *)
(* or one for an odd name, in its window, those sent to them from outside  *)
(* included, for any threshold, window and retention longer than it.       *)
THEOREM DNSAlertsAreExact == Spec => []DNSAlertsExact
(* Nothing has been asked.                                                 *)
<1>QueryInitial. Init => QueryInv
  <2> SUFFICES ASSUME Init PROVE QueryInv
      OBVIOUS
  <2>1. delivered = <<>> /\ flushed = 0 /\ queries = {} /\ dns = {} /\ pruned = 0
      BY DEF Init
  <2>2. Base
      BY <2>1 DEF Base
  <2>3. flushed + 1 .. Len(delivered) = {} /\ 1 .. flushed = {}
      BY <2>1
  <2>4. QueriesInv
      BY <2>1, <2>3, Zenon DEF QueriesInv
  <2>5. DNSInv
      BY <2>1, <2>3, Zenon DEF DNSInv
  <2> QED
      BY <2>2, <2>4, <2>5 DEF QueryInv
(* A query goes into the buffer.                                           *)
<1>QueryDeliver.
    ASSUME QueryInv, NEW p \in Packets, Deliver(p)
    PROVE  QueryInv'
  <2> USE <1>QueryDeliver
  <2>1. /\ delivered' = Append(delivered, p) /\ flushed' = flushed /\ dns' = dns /\ pruned' = pruned
        /\ queries' = IF Accepts(p.frame)
                      THEN queries \cup {DNSQueryRecord(Len(delivered) + 1, q) : q \in DecodeDNS(p)}
                      ELSE queries
      BY DEF Deliver
  <2>2. delivered \in Seq(Packets) /\ flushed \in 0 .. Len(delivered) /\ pruned \in Nat
      BY DEF QueryInv, Base
  <2>3. PICK last \in Nat : last = Len(delivered) + 1
      BY <2>2, AppendFacts
  <2>4. Base'
      BY <2>1, <2>2, AppendFacts DEF Base
  <2>5. \A n \in 1 .. Len(delivered) : delivered'[n] = delivered[n]
      BY <2>1, <2>2, AppendFacts
  <2>6. delivered'[last] = p /\ Len(delivered') = last
      BY <2>1, <2>2, <2>3, AppendFacts
  <2>7. \A n \in 1 .. Len(delivered) : Filed(delivered', n) = Filed(delivered, n)
      BY <2>5, Zenon DEF Filed
  <2>8. Filed(delivered', last) = DNSQueryRecord(last, DNSEvent(p))
      BY <2>6, Zenon DEF Filed
  <2>9. PICK S : S = {m \in flushed + 1 .. Len(delivered) : IsFiled(delivered[m])}
      BY Zenon
  <2>10. PICK S2 : S2 = {m \in flushed' + 1 .. Len(delivered') : IsFiled(delivered'[m])}
      BY Zenon
  <2>11. flushed' + 1 .. Len(delivered') = (flushed + 1 .. Len(delivered)) \cup {last}
      BY <2>1, <2>2, <2>3, <2>6
  <2>12. flushed + 1 .. Len(delivered) \subseteq 1 .. Len(delivered)
      BY <2>2
  <2>13. S2 = IF IsFiled(p) THEN S \cup {last} ELSE S
    <3>1. \A m \in flushed + 1 .. Len(delivered) : IsFiled(delivered'[m]) <=> IsFiled(delivered[m])
        BY <2>5, <2>12, Zenon
    <3>2. IsFiled(delivered'[last]) <=> IsFiled(p)
        BY <2>6, Zenon
    <3>3. last \notin flushed + 1 .. Len(delivered)
        BY <2>2, <2>3
    <3>4. CASE IsFiled(p)
        BY <2>9, <2>10, <2>11, <3>1, <3>2, <3>4, Zenon
    <3>5. CASE ~IsFiled(p)
        BY <2>9, <2>10, <2>11, <3>1, <3>2, <3>5, Zenon
    <3> QED
        BY <3>4, <3>5
  <2>14. \A n \in S : Filed(delivered', n) = Filed(delivered, n)
      BY <2>7, <2>9, <2>12, Zenon
  <2>15. queries = {Filed(delivered, n) : n \in S}
      BY <2>9, Zenon DEF QueryInv, QueriesInv
  <2>16. queries' = {Filed(delivered', n) : n \in S2}
    <3>1. CASE IsFiled(p)
      <4>1. DecodeDNS(p) = {DNSEvent(p)} /\ Accepts(p.frame)
          BY <3>1, FilterAccepts, Zenon DEF IsFiled, IsQuery, DecodeDNS, dnsServicePort
      <4>2. queries' = queries \cup {Filed(delivered', last)}
          BY <2>1, <2>3, <2>8, <4>1, Zenon
      <4>3. S2 = S \cup {last}
          BY <2>13, <3>1
      <4> QED
          BY <2>14, <2>15, <4>2, <4>3, Zenon
    <3>2. CASE ~IsFiled(p)
      <4>1. Accepts(p.frame) => DecodeDNS(p) = {}
          BY <3>2, FilterAccepts, Zenon DEF IsFiled, IsQuery, DecodeDNS, dnsServicePort
      <4>2. queries' = queries
          BY <2>1, <4>1, Zenon
      <4>3. S2 = S
          BY <2>13, <3>2
      <4> QED
          BY <2>14, <2>15, <4>2, <4>3, Zenon
    <3> QED
        BY <3>1, <3>2
  <2>17. QueriesInv'
      BY <2>10, <2>16, Zenon DEF QueriesInv
  <2>18. DNSInv'
    <3>1. \A n \in 1 .. flushed : delivered'[n] = delivered[n] /\ Filed(delivered', n) = Filed(delivered, n)
      <4>1. 1 .. flushed \subseteq 1 .. Len(delivered)
          BY <2>2
      <4> QED
          BY <2>5, <2>7, <4>1, Zenon
    <3>2. \A r \in dns : \E n \in 1 .. flushed : IsFiled(delivered'[n]) /\ r = Filed(delivered', n)
        BY <3>1, Zenon DEF QueryInv, DNSInv
    <3>3. \A n \in 1 .. flushed : IsFiled(delivered'[n]) /\ delivered'[n].ts >= pruned - DNSRetention
             => Filed(delivered', n) \in dns
        BY <3>1, Zenon DEF QueryInv, DNSInv
    <3> QED
        BY <2>1, <3>2, <3>3, Zenon DEF DNSInv
  <2> QED
      BY <2>4, <2>17, <2>18 DEF QueryInv
(* A flush moves the buffer into the table.                                *)
<1>QueryFlush.
    ASSUME QueryInv, Flush
    PROVE  QueryInv'
  <2> USE <1>QueryFlush
  <2>1. /\ delivered' = delivered /\ flushed' = Len(delivered) /\ pruned' = pruned
        /\ dns' = dns \cup queries /\ queries' = {}
      BY DEF Flush
  <2>2. delivered \in Seq(Packets) /\ flushed \in 0 .. Len(delivered) /\ pruned \in Nat /\ Len(delivered) \in Nat
      BY DEF QueryInv, Base
  <2>3. Base'
      BY <2>1, <2>2 DEF Base
  <2>4. QueriesInv'
    <3>1. Len(delivered) + 1 .. Len(delivered) = {}
        BY <2>2
    <3>2. {m \in Len(delivered) + 1 .. Len(delivered) : IsFiled(delivered[m])} = {}
        BY <3>1, Zenon
    <3> QED
        BY <2>1, <3>2, Zenon DEF QueriesInv
  <2>5. 1 .. flushed \subseteq 1 .. Len(delivered) /\ flushed + 1 .. Len(delivered) \subseteq 1 .. Len(delivered)
      BY <2>2
  <2>6. \A r \in dns \cup queries : \E n \in 1 .. Len(delivered) : IsFiled(delivered[n]) /\ r = Filed(delivered, n)
    <3>1. ASSUME NEW r \in dns
          PROVE  \E n \in 1 .. Len(delivered) : IsFiled(delivered[n]) /\ r = Filed(delivered, n)
        BY <2>5, Zenon DEF QueryInv, DNSInv
    <3>2. ASSUME NEW r \in queries
          PROVE  \E n \in 1 .. Len(delivered) : IsFiled(delivered[n]) /\ r = Filed(delivered, n)
        BY <2>5, Zenon DEF QueryInv, QueriesInv
    <3> QED
        BY <3>1, <3>2, Zenon
  <2>7. ASSUME NEW n \in 1 .. Len(delivered), IsFiled(delivered[n]), delivered[n].ts >= pruned - DNSRetention
        PROVE  Filed(delivered, n) \in dns \cup queries
    <3>1. CASE n \in 1 .. flushed
        BY <2>7, <3>1, Zenon DEF QueryInv, DNSInv
    <3>2. CASE n \notin 1 .. flushed
      <4>1. n \in flushed + 1 .. Len(delivered)
          BY <2>2, <3>2
      <4>2. n \in {m \in flushed + 1 .. Len(delivered) : IsFiled(delivered[m])}
          BY <2>7, <4>1
      <4> QED
          BY <4>2, Zenon DEF QueryInv, QueriesInv
    <3> QED
        BY <3>1, <3>2
  <2>8. DNSInv'
      BY <2>1, <2>6, <2>7, Zenon DEF DNSInv
  <2> QED
      BY <2>3, <2>4, <2>8 DEF QueryInv
(* A prune deletes only what is older than the retention.                  *)
<1>QueryPrune.
    ASSUME QueryInv, NEW now \in Nows, PruneDNSQueries(now)
    PROVE  QueryInv'
  <2> USE <1>QueryPrune
  <2>1. /\ now > pruned /\ pruned' = now
        /\ dns' = {r \in dns : r.query.ts >= now - DNSRetention}
        /\ UNCHANGED <<delivered, flushed, table, rows, queries>>
      BY DEF PruneDNSQueries
  <2>2. now \in Nat /\ DNSRetention \in Nat /\ pruned \in Nat
      BY ThresholdAssumption, RetentionAssumption DEF Nows, QueryInv, Base
  <2>3. delivered \in Seq(Packets) /\ flushed \in 0 .. Len(delivered)
      BY DEF QueryInv, Base
  <2>4. Base' /\ QueriesInv'
      BY <2>1, <2>2, <2>3, Zenon DEF QueryInv, Base, QueriesInv
  <2>5. ASSUME NEW n \in 1 .. flushed, IsFiled(delivered[n]), delivered[n].ts >= now - DNSRetention
        PROVE  Filed(delivered, n) \in dns'
    <3>1. delivered[n] \in Packets
        BY <2>3
    <3>2. delivered[n].ts \in Nat
        BY <3>1, PacketTypes
    <3>3. delivered[n].ts >= pruned - DNSRetention
        BY <2>1, <2>2, <2>5, <3>2
    <3>4. Filed(delivered, n) \in dns
        BY <2>5, <3>3, Zenon DEF QueryInv, DNSInv
    <3>5. Filed(delivered, n).query.ts = delivered[n].ts
        BY DEF Filed, DNSQueryRecord, DNSEvent
    <3> QED
        BY <2>1, <2>5, <3>4, <3>5, Zenon
  <2>6. \A r \in dns' : \E n \in 1 .. flushed : IsFiled(delivered[n]) /\ r = Filed(delivered, n)
      BY <2>1, Zenon DEF QueryInv, DNSInv
  <2>7. DNSInv'
      BY <2>1, <2>5, <2>6, Zenon DEF DNSInv
  <2> QED
      BY <2>4, <2>7 DEF QueryInv
(* Every step keeps the invariant.                                         *)
<1>QueryStep. QueryInv /\ [Next]_vars => QueryInv'
  <2> SUFFICES ASSUME QueryInv, [Next]_vars PROVE QueryInv'
      OBVIOUS
  <2>1. ASSUME NEW p \in Packets, Deliver(p) PROVE QueryInv'
      BY <2>1, <1>QueryDeliver
  <2>2. CASE Flush
      BY <2>2, <1>QueryFlush
  <2>3. ASSUME NEW now \in Nows, PruneDNSQueries(now) PROVE QueryInv'
      BY <2>3, <1>QueryPrune
  <2>4. CASE UNCHANGED vars
      BY <2>4, Zenon DEF vars, QueryInv, Base, QueriesInv, DNSInv
  <2> QED
      BY <2>1, <2>2, <2>3, <2>4 DEF Next
(* The invariant always holds.                                             *)
<1>QueryInvariant. Spec => []QueryInv
  <2> QED
      BY <1>QueryInitial, <1>QueryStep, PTL DEF Spec
(* A query is recorded for its source in the LAN, or else for its          *)
(* destination there.                                                      *)
<1>AttributedTo.
    ASSUME NEW p \in Packets, NEW h \in Hosts
    PROVE  IsFiled(p) /\ DNSEvent(p).host = h
             <=> /\ Monitored(p) /\ IsQuery(p)
                 /\ \/ p.src = h /\ p.dst # Broadcast
                    \/ p.dst = h /\ p.src # Unspecified /\ p.src \notin LAN
  <2>1. h \in LAN /\ h # Unspecified /\ h # Broadcast
      BY DEF Hosts
  <2>2. DNSEvent(p).host = IF p.src \in LAN THEN p.src ELSE p.dst
      BY DEF DNSEvent
  <2>3. Decode(p) # <<>> <=> Usable(p) /\ (p.src \in LAN \/ p.dst \in LAN)
    <3>1. \A a : <<a>> # <<>>
        OBVIOUS
    <3>2. \A a, b : <<a, b>> # <<>>
        OBVIOUS
    <3>3. Usable(p) /\ p.src \in LAN /\ p.dst \in LAN => Decode(p) # <<>>
        BY <3>2, DecodeLAN, Zenon
    <3>4. Usable(p) /\ p.src \in LAN /\ p.dst \notin LAN => Decode(p) # <<>>
        BY <3>1, DecodeOut, Zenon
    <3>5. Usable(p) /\ p.src \notin LAN /\ p.dst \in LAN => Decode(p) # <<>>
        BY <3>1, DecodeIn, Zenon
    <3> QED
        BY <3>3, <3>4, <3>5, DecodeNone, Zenon
  <2>4. CASE p.src \in LAN
      BY <2>1, <2>2, <2>3, <2>4, Zenon DEF IsFiled, Usable
  <2>5. CASE p.src \notin LAN
      BY <2>1, <2>2, <2>3, <2>5, Zenon DEF IsFiled, Usable
  <2> QED
      BY <2>4, <2>5
(* The time and the oddity of a record are those of its packet.            *)
<1>DNSEventFields.
    ASSUME NEW p
    PROVE  DNSEvent(p).ts = p.ts /\ DNSEvent(p).odd = (p.udp = "oddquery")
    BY DEF DNSEvent
(* They are the packets whose queries count as those of the host.          *)
<1>AttributedIs.
    ASSUME Base, NEW h \in Hosts, NEW since, NEW now
    PROVE  Attributed(h, since, now) = QueriesFor(h, since, now)
  <2> USE <1>AttributedIs
  <2>1. \A n \in DOMAIN delivered : delivered[n] \in Packets
      BY DEF Base
  <2>2. ASSUME NEW n \in DOMAIN delivered
        PROVE  n \in Attributed(h, since, now) <=>
                   /\ IsFiled(delivered[n]) /\ DNSEvent(delivered[n]).host = h
                   /\ delivered[n].ts >= since /\ delivered[n].ts <= now
    <3>1. PICK p \in Packets : p = delivered[n]
        BY <2>1
    <3>2. n \in Sent(h) <=> Monitored(p) /\ p.src = h /\ p.dst # Broadcast
        BY <3>1 DEF Sent
    <3>3. n \in Received(h) <=> Monitored(p) /\ p.dst = h /\ p.src # Unspecified
        BY <3>1 DEF Received
    <3>4. n \in Attributed(h, since, now) <=>
              /\ n \in Sent(h) \/ (n \in Received(h) /\ p.src \notin LAN)
              /\ IsQuery(p) /\ p.ts >= since /\ p.ts <= now
        BY <3>1, Zenon DEF Attributed
    <3> QED
        BY <3>1, <3>2, <3>3, <3>4, <1>AttributedTo, Zenon
  <2>3. Attributed(h, since, now) \subseteq DOMAIN delivered
      BY Zenon DEF Attributed, Sent, Received
  <2> QED
      BY <2>2, <2>3, Zenon DEF QueriesFor
(* Rows of a window and packets asked in it correspond one to one, as the  *)
(* window is shorter than the retention.                                   *)
<1>QueryAlerts. QueryInv => DNSAlertsExact
  <2> SUFFICES ASSUME QueryInv, flushed = Len(delivered), NEW h \in Hosts,
                      NEW now \in Nows, now >= pruned, now >= DNSWindow
               PROVE  LET asked == Attributed(h, now - DNSWindow, now)
                      IN  /\ DNSVolume(h, now - DNSWindow, now) <=> Cardinality(asked) >= DNSThreshold
                          /\ DNSEntropy(h, now - DNSWindow, now)
                                <=> \E n \in asked : delivered[n].udp = "oddquery"
      BY Zenon DEF DNSAlertsExact
  <2>1. Base /\ delivered \in Seq(Packets) /\ flushed \in 0 .. Len(delivered) /\ pruned \in Nat
      BY DEF QueryInv, Base
  <2>2. DOMAIN delivered = 1 .. flushed /\ \A n \in DOMAIN delivered : delivered[n] \in Packets
      BY <2>1
  <2>3. PICK since \in Int : since = now - DNSWindow /\ since >= pruned - DNSRetention
    <3>1. now \in Nat /\ DNSWindow \in Nat /\ DNSRetention \in Nat /\ DNSWindow < DNSRetention
        BY ThresholdAssumption, RetentionAssumption DEF Nows
    <3> QED
        BY <2>1, <3>1
  <2>4. PICK asked : asked = Attributed(h, since, now)
      OBVIOUS
  <2>5. asked = {n \in DOMAIN delivered : /\ IsFiled(delivered[n]) /\ DNSEvent(delivered[n]).host = h
                                          /\ delivered[n].ts >= since /\ delivered[n].ts <= now}
      BY <2>1, <2>4, <1>AttributedIs DEF QueriesFor
  <2>6. PICK f : f = [n \in DOMAIN delivered |-> Filed(delivered, n)]
      BY Zenon
  <2>7. \A n \in DOMAIN delivered : /\ f[n] = Filed(delivered, n) /\ f[n].id = n
                                    /\ f[n].query = DNSEvent(delivered[n])
      BY <2>6 DEF Filed, DNSQueryRecord
  <2>8. PICK found : found = DNSQueriesInRange(h, since, now)
      OBVIOUS
  <2>9. found = {f[n] : n \in asked}
    <3>1. ASSUME NEW r \in found PROVE r \in {f[n] : n \in asked}
      <4>1. r \in dns /\ r.query.host = h /\ r.query.ts >= since /\ r.query.ts <= now
          BY <2>8 DEF DNSQueriesInRange
      <4>2. PICK n \in 1 .. flushed : IsFiled(delivered[n]) /\ r = Filed(delivered, n)
          BY <4>1, Zenon DEF QueryInv, DNSInv
      <4>3. n \in DOMAIN delivered /\ r = f[n] /\ r.query = DNSEvent(delivered[n])
          BY <2>2, <2>7, <4>2, Zenon
      <4>4. r.query.ts = delivered[n].ts
          BY <4>3, <1>DNSEventFields, Zenon
      <4>5. n \in asked
          BY <2>5, <4>1, <4>2, <4>3, <4>4, Zenon
      <4> QED
          BY <4>3, <4>5, Zenon
    <3>2. ASSUME NEW n \in asked PROVE f[n] \in found
      <4>1. /\ n \in DOMAIN delivered /\ IsFiled(delivered[n]) /\ DNSEvent(delivered[n]).host = h
            /\ delivered[n].ts >= since /\ delivered[n].ts <= now
          BY <2>5
      <4>2. delivered[n].ts \in Nat
          BY <2>2, <4>1, PacketTypes
      <4>3. delivered[n].ts >= pruned - DNSRetention
        <5>1. pruned - DNSRetention \in Int
            BY <2>1, RetentionAssumption
        <5> QED
            BY <2>3, <4>1, <4>2, <5>1
      <4>4. Filed(delivered, n) \in dns
          BY <2>2, <4>1, <4>3, Zenon DEF QueryInv, DNSInv
      <4>5. f[n] \in dns /\ f[n].query.host = h /\ f[n].query.ts = delivered[n].ts
          BY <2>7, <4>1, <4>4, <1>DNSEventFields, Zenon
      <4> QED
          BY <2>8, <4>1, <4>5, Zenon DEF DNSQueriesInRange
    <3> QED
        BY <3>1, <3>2, Zenon
  <2>10. Cardinality(found) = Cardinality(asked)
    <3>1. IsFiniteSet(DOMAIN delivered)
      <4>1. 1 \in Int /\ flushed \in Int
          BY <2>1
      <4> QED
          BY <2>2, <4>1, FS_Interval, Zenon
    <3>2. asked \subseteq DOMAIN delivered
        BY <2>5
    <3>3. IsFiniteSet(asked)
        BY <3>1, <3>2, FS_Subset, Zenon
    <3>4. \A x, y \in asked : f[x] = f[y] => x = y
        BY <2>7, <3>2, Zenon
    <3>5. (\A x \in asked : f[x] \in found) /\ \A y \in found : \E x \in asked : y = f[x]
        BY <2>9, Zenon
    <3> QED
        BY <3>3, <3>4, <3>5, SameSize, Zenon
  <2>11. DNSVolume(h, since, now) <=> Cardinality(asked) >= DNSThreshold
      BY <2>8, <2>10, Zenon DEF DNSVolume
  <2>12. DNSEntropy(h, since, now) <=> \E n \in asked : delivered[n].udp = "oddquery"
    <3>1. ASSUME NEW n \in asked PROVE f[n].query.odd <=> delivered[n].udp = "oddquery"
      <4>1. f[n].query = DNSEvent(delivered[n])
          BY <2>5, <2>7
      <4> QED
          BY <4>1, <1>DNSEventFields, Zenon
    <3>2. DNSEntropy(h, since, now) <=> \E r \in found : r.query.odd
        BY <2>8, Zenon DEF DNSEntropy
    <3>3. (\E r \in found : r.query.odd) <=> \E n \in asked : f[n].query.odd
        BY <2>9, Zenon
    <3> QED
        BY <3>1, <3>2, <3>3, Zenon
  <2> QED
      BY <2>3, <2>4, <2>11, <2>12, Zenon
<1> QED
    BY <1>QueryInvariant, <1>QueryAlerts, PTL

(***************************************************************************)
(* Traffic: the bytes of each host.                                        *)
(***************************************************************************)

(***************************************************************************)
(* The bytes of a host in the table and in the rows.                       *)
(***************************************************************************)

(* The byte counters; what a table and a set of rows have in them for a    *)
(* host; what one event adds.                                              *)
Fields == {"bsent", "brecv"}

(* A table with finitely many accumulators.                                *)
Typed(t) == IsFiniteSet(DOMAIN t) /\ \A k \in DOMAIN t : t[k] \in Accums
KeysOf(t, h) == {k \in DOMAIN t : k.lip = h}
RowsOf(rs, h) == {r \in rs : r.key.lip = h}
TableSum(t, h, f) == SumOver([k \in DOMAIN t |-> t[k][f]], KeysOf(t, h))
RowSum(rs, h, f) == SumOver([r \in rs |-> r.acc[f]], RowsOf(rs, h))
Side(evt) == IF evt.isLocalSrc THEN "bsent" ELSE "brecv"
Share(evt, h, f) == IF evt.key.lip = h /\ f = Side(evt) THEN evt.bytes ELSE 0

(* The byte counters are natural numbers.                                  *)
LEMMA FieldTypes ==
    ASSUME NEW acc \in Accums, NEW f \in Fields
    PROVE  acc[f] \in Nat
<1>1. acc["bsent"] \in Nat /\ acc["brecv"] \in Nat
    BY DEF Accums
<1> QED
    BY <1>1 DEF Fields

(* The summands of a host.                                                 *)
LEMMA KeysFinite ==
    ASSUME NEW t, Typed(t), NEW h, NEW f \in Fields
    PROVE  IsFiniteSet(KeysOf(t, h)) /\ \A k \in KeysOf(t, h) : k \in DOMAIN t /\ t[k][f] \in Nat
<1>1. KeysOf(t, h) \subseteq DOMAIN t
    BY DEF KeysOf
<1>2. IsFiniteSet(KeysOf(t, h))
    BY <1>1, FS_Subset, Zenon DEF Typed
<1>3. ASSUME NEW k \in KeysOf(t, h) PROVE k \in DOMAIN t /\ t[k][f] \in Nat
    BY <1>1, FieldTypes DEF Typed
<1> QED
    BY <1>2, <1>3

(* What a packet adds to the bytes of a host.                              *)
PacketShare(p, h, f) ==
    IF f = "bsent" THEN (IF p.src = h /\ p.dst # Broadcast THEN p.bytes ELSE 0)
                   ELSE (IF p.dst = h /\ p.src # Unspecified THEN p.bytes ELSE 0)

(* The events of a packet add up to its share, once for each host: a       *)
(* packet from a host to itself counts once on either side.                *)
LEMMA AddFlowsSum ==
    \A p \in Packets, h \in Hosts, f \in Fields : \A t :
        Typed(t) =>
            TableSum(AddFlows(t, Decode(p)), h, f) = TableSum(t, h, f) + PacketShare(p, h, f)
(* An event adds its bytes to the counter of its side.                     *)
<1>UpdatedField.
    ASSUME NEW acc \in Accums, NEW evt, GoodEvent(evt), NEW f \in Fields
    PROVE  Updated(acc, evt)[f] = acc[f] + IF f = Side(evt) THEN evt.bytes ELSE 0
  <2> USE <1>UpdatedField
  <2>1. /\ Updated(acc, evt).bsent = acc.bsent + IF evt.isLocalSrc THEN evt.bytes ELSE 0
        /\ Updated(acc, evt).brecv = acc.brecv + IF evt.isLocalSrc THEN 0 ELSE evt.bytes
      BY UpdatedIs
  <2>2. CASE f = "bsent"
    <3>1. f = Side(evt) <=> evt.isLocalSrc
        BY <2>2 DEF Side
    <3> QED
        BY <2>1, <2>2, <3>1
  <2>3. CASE f = "brecv"
    <3>1. f = Side(evt) <=> ~evt.isLocalSrc
        BY <2>3 DEF Side
    <3> QED
        BY <2>1, <2>3, <3>1
  <2> QED
      BY <2>2, <2>3 DEF Fields
(* Add keeps a table one.                                                  *)
<1>AddTyped.
    ASSUME NEW t, Typed(t), NEW evt, GoodEvent(evt)
    PROVE  Typed(Add(t, evt)) /\ Lookup(t, evt) \in Accums
  <2> USE <1>AddTyped
  <2>1. Lookup(t, evt) \in Accums
    <3>1. NewAccum(evt.ts) \in Accums
        BY DEF NewAccum, Accums, GoodEvent
    <3> QED
        BY <3>1, Zenon DEF Lookup, Typed
  <2>2. Updated(Lookup(t, evt), evt) \in Accums
      BY <2>1, UpdatedIs
  <2>3. DOMAIN Add(t, evt) = DOMAIN t \cup {evt.key}
      BY DEF Add
  <2>4. IsFiniteSet(DOMAIN t \cup {evt.key})
      BY FS_AddElement, Zenon DEF Typed
  <2>5. ASSUME NEW k \in DOMAIN t \cup {evt.key}
        PROVE  Add(t, evt)[k] \in Accums
    <3>1. Add(t, evt)[k] = IF k = evt.key THEN Updated(Lookup(t, evt), evt) ELSE t[k]
        BY DEF Add
    <3> QED
        BY <2>2, <3>1, Zenon DEF Typed
  <2> QED
      BY <2>1, <2>3, <2>4, <2>5, Zenon DEF Typed
(* An event adds its bytes to the total of its host, under a new key or an *)
(* old one.                                                                *)
<1>TableAdd.
    ASSUME NEW t, Typed(t), NEW evt, GoodEvent(evt), NEW h, NEW f \in Fields
    PROVE  TableSum(Add(t, evt), h, f) = TableSum(t, h, f) + Share(evt, h, f)
  <2> USE <1>TableAdd
  <2>1. PICK key : key = evt.key
      OBVIOUS
  <2>2. PICK t2 : t2 = Add(t, evt)
      OBVIOUS
  <2>3. /\ DOMAIN t2 = DOMAIN t \cup {key}
        /\ t2[key] = Updated(Lookup(t, evt), evt)
        /\ \A k \in DOMAIN t : k # key => t2[k] = t[k]
      BY <2>1, <2>2 DEF Add
  <2>4. Typed(t2) /\ Lookup(t, evt) \in Accums
      BY <2>2, <1>AddTyped
  <2>5. PICK F : F = [k \in DOMAIN t |-> t[k][f]]
      BY Zenon
  <2>6. PICK G : G = [k \in DOMAIN t2 |-> t2[k][f]]
      BY Zenon
  <2>7. PICK K : K = KeysOf(t, h)
      OBVIOUS
  <2>8. PICK L : L = KeysOf(t2, h)
      OBVIOUS
  <2>9. IsFiniteSet(K) /\ \A k \in K : k \in DOMAIN t /\ F[k] \in Nat /\ F[k] = t[k][f]
      BY <2>5, <2>7, KeysFinite
  <2>10. IsFiniteSet(L) /\ \A k \in L : k \in DOMAIN t2 /\ G[k] \in Nat /\ G[k] = t2[k][f]
      BY <2>4, <2>6, <2>8, KeysFinite, Zenon
  <2>11. TableSum(t, h, f) = SumOver(F, K) /\ TableSum(t2, h, f) = SumOver(G, L)
      BY <2>5, <2>6, <2>7, <2>8, Zenon DEF TableSum
  <2>12. CASE key.lip # h
    <3>1. L = K
        BY <2>3, <2>7, <2>8, <2>12 DEF KeysOf
    <3>2. \A k \in K : F[k] \in Nat /\ F[k] = G[k]
      <4> SUFFICES ASSUME NEW k \in K PROVE F[k] \in Nat /\ F[k] = G[k]
          OBVIOUS
      <4>1. k # key
          BY <2>7, <2>12 DEF KeysOf
      <4> QED
          BY <2>3, <2>9, <2>10, <3>1, <4>1, Zenon
    <3>3. SumOver(F, K) = SumOver(G, K)
        BY <2>9, <3>2, SumAgree
    <3>4. Share(evt, h, f) = 0
        BY <2>1, <2>12 DEF Share
    <3>5. SumOver(F, K) \in Nat
        BY <2>9, SumType
    <3> QED
        BY <2>2, <2>11, <3>1, <3>3, <3>4, <3>5
  <2>13. CASE key.lip = h
    <3>1. PICK R : R = K \ {key}
        BY Zenon
    <3>2. L = R \cup {key} /\ key \notin R /\ R \subseteq K /\ R \subseteq L /\ key \in L
        BY <2>3, <2>7, <2>8, <2>13, <3>1 DEF KeysOf
    <3>3. IsFiniteSet(R)
        BY <2>9, <3>2, FS_Subset, Zenon
    <3>4. \A k \in R : F[k] \in Nat /\ F[k] = G[k]
        BY <2>3, <2>9, <2>10, <3>2, Zenon
    <3>5. SumOver(F, R) = SumOver(G, R)
        BY <3>3, <3>4, SumAgree
    <3>6. SumOver(G, R \cup {key}) = SumOver(G, R) + G[key]
      <4>1. G[key] \in Nat /\ \A k \in R : G[k] \in Nat
          BY <2>10, <3>2
      <4> QED
          BY <3>2, <3>3, <4>1, SumAdd
    <3>7. SumOver(F, R) \in Nat
        BY <3>3, <3>4, SumType
    <3>8. G[key] = Lookup(t, evt)[f] + Share(evt, h, f)
      <4>1. G[key] = Updated(Lookup(t, evt), evt)[f]
          BY <2>3, <2>10, <3>2, Zenon
      <4>2. Share(evt, h, f) = IF f = Side(evt) THEN evt.bytes ELSE 0
          BY <2>1, <2>13 DEF Share
      <4> QED
          BY <2>4, <4>1, <4>2, <1>UpdatedField, Zenon
    <3>9. Share(evt, h, f) \in Nat
        BY DEF Share, GoodEvent
    <3>10. CASE key \in DOMAIN t
      <4>1. K = R \cup {key} /\ F[key] \in Nat /\ F[key] = t[key][f]
          BY <2>7, <2>9, <2>13, <3>1, <3>10 DEF KeysOf
      <4>2. SumOver(F, R \cup {key}) = SumOver(F, R) + F[key]
          BY <3>2, <3>3, <3>4, <4>1, SumAdd
      <4>3. Lookup(t, evt) = t[key]
          BY <2>1, <3>10 DEF Lookup
      <4>4. G[key] = F[key] + Share(evt, h, f)
          BY <3>8, <4>1, <4>3, Zenon
      <4>5. SumOver(F, K) = SumOver(F, R) + F[key]
          BY <4>1, <4>2, Zenon
      <4>6. SumOver(G, L) = SumOver(F, R) + G[key]
          BY <3>2, <3>5, <3>6, Zenon
      <4>7. SumOver(G, L) = SumOver(F, K) + Share(evt, h, f)
          BY <3>7, <3>9, <4>1, <4>4, <4>5, <4>6
      <4> QED
          BY <2>2, <2>11, <4>7, Zenon
    <3>11. CASE key \notin DOMAIN t
      <4>1. R = K
          BY <2>7, <3>1, <3>11 DEF KeysOf
      <4>2. Lookup(t, evt)[f] = 0
        <5>1. Lookup(t, evt) = NewAccum(evt.ts)
            BY <2>1, <3>11 DEF Lookup
        <5>2. NewAccum(evt.ts)["bsent"] = 0 /\ NewAccum(evt.ts)["brecv"] = 0
            BY DEF NewAccum
        <5> QED
            BY <5>1, <5>2 DEF Fields
      <4>3. G[key] = Share(evt, h, f)
          BY <3>8, <3>9, <4>2
      <4>4. SumOver(G, L) = SumOver(F, K) + Share(evt, h, f)
          BY <3>2, <3>5, <3>6, <4>1, <4>3, Zenon
      <4> QED
          BY <2>2, <2>11, <4>4, Zenon
    <3> QED
        BY <3>10, <3>11
  <2> QED
      BY <2>12, <2>13
(* The event of the source counts for the source, as sent.                 *)
<1>ShareLocal.
    ASSUME NEW p \in Packets, NEW dir, NEW h, NEW f \in Fields
    PROVE  /\ GoodEvent(FlowEvent(dir, p, TRUE))
           /\ Share(FlowEvent(dir, p, TRUE), h, f) = IF f = "bsent" /\ p.src = h THEN p.bytes ELSE 0
  <2>1. PICK evt : evt = FlowEvent(dir, p, TRUE)
      BY Zenon
  <2>2. GoodEvent(evt) /\ evt.bytes = p.bytes /\ evt.isLocalSrc /\ evt.key.lip = p.src
      BY <2>1, LocalEvent, Zenon
  <2>3. Side(evt) = "bsent"
      BY <2>2 DEF Side
  <2> QED
      BY <2>1, <2>2, <2>3, Zenon DEF Share
(* The event of the destination counts for the destination, as received.   *)
<1>ShareRemote.
    ASSUME NEW p \in Packets, NEW dir, NEW h, NEW f \in Fields
    PROVE  /\ GoodEvent(FlowEvent(dir, p, FALSE))
           /\ Share(FlowEvent(dir, p, FALSE), h, f) = IF f = "brecv" /\ p.dst = h THEN p.bytes ELSE 0
  <2>1. PICK evt : evt = FlowEvent(dir, p, FALSE)
      BY Zenon
  <2>2. GoodEvent(evt) /\ evt.bytes = p.bytes /\ ~evt.isLocalSrc /\ evt.key.lip = p.dst
      BY <2>1, RemoteEvent, Zenon
  <2>3. Side(evt) = "brecv"
      BY <2>2 DEF Side
  <2> QED
      BY <2>1, <2>2, <2>3, Zenon DEF Share
<1>AddFlowsSum.
    ASSUME NEW t, Typed(t), NEW p \in Packets, NEW h \in Hosts, NEW f \in Fields
    PROVE  TableSum(AddFlows(t, Decode(p)), h, f) = TableSum(t, h, f) + PacketShare(p, h, f)
  <2> USE <1>AddFlowsSum
  <2>1. h \in LAN /\ h # Unspecified /\ h # Broadcast
      BY DEF Hosts
  <2>2. f = "bsent" \/ f = "brecv"
      BY DEF Fields
  <2>3. PICK n \in Nat : n = TableSum(t, h, f)
    <3>1. PICK F : F = [k \in DOMAIN t |-> t[k][f]]
        BY Zenon
    <3>2. \A k \in KeysOf(t, h) : F[k] \in Nat
        BY <3>1, KeysFinite
    <3>3. SumOver(F, KeysOf(t, h)) \in Nat
        BY <3>2, KeysFinite, SumType
    <3> QED
        BY <3>1, <3>3, Zenon DEF TableSum
  <2>4. p.bytes \in Nat
      BY PacketTypes
  <2>5. CASE ~Usable(p) \/ (p.src \notin LAN /\ p.dst \notin LAN)
    <3>1. AddFlows(t, <<>>) = t
        BY DEF AddFlows
    <3>2. AddFlows(t, Decode(p)) = t
        BY <2>5, <3>1, DecodeNone, Zenon
    <3>3. PacketShare(p, h, f) = 0
        BY <2>1, <2>2, <2>5 DEF PacketShare, Usable
    <3> QED
        BY <2>3, <3>2, <3>3
  <2>6. CASE Usable(p) /\ p.src \in LAN /\ p.dst \in LAN
    <3>1. PICK a : a = FlowEvent(DirLANOut, p, TRUE)
        BY Zenon
    <3>2. PICK b : b = FlowEvent(DirLANIn, p, FALSE)
        BY Zenon
    <3>3. AddFlows(t, <<a, b>>) = Add(Add(t, a), b)
        BY DEF AddFlows
    <3>4. AddFlows(t, Decode(p)) = Add(Add(t, a), b)
        BY <2>6, <3>1, <3>2, <3>3, DecodeLAN, Zenon
    <3>5. GoodEvent(a) /\ Share(a, h, f) = IF f = "bsent" /\ p.src = h THEN p.bytes ELSE 0
        BY <3>1, <1>ShareLocal, Zenon
    <3>6. GoodEvent(b) /\ Share(b, h, f) = IF f = "brecv" /\ p.dst = h THEN p.bytes ELSE 0
        BY <3>2, <1>ShareRemote, Zenon
    <3>7. TableSum(Add(t, a), h, f) = n + Share(a, h, f)
        BY <2>3, <3>5, <1>TableAdd, Zenon
    <3>8. Typed(Add(t, a))
        BY <3>5, <1>AddTyped
    <3>9. TableSum(Add(Add(t, a), b), h, f) = n + Share(a, h, f) + Share(b, h, f)
      <4>1. PICK u : u = Add(t, a)
          OBVIOUS
      <4>2. TableSum(Add(u, b), h, f) = TableSum(u, h, f) + Share(b, h, f)
          BY <3>6, <3>8, <4>1, <1>TableAdd
      <4> QED
          BY <3>7, <4>1, <4>2, Zenon
    <3>10. PacketShare(p, h, f) = Share(a, h, f) + Share(b, h, f)
        BY <2>2, <2>4, <2>6, <3>5, <3>6 DEF PacketShare, Usable
    <3>11. Share(a, h, f) \in Nat /\ Share(b, h, f) \in Nat
      <4>1. Share(a, h, f) = p.bytes \/ Share(a, h, f) = 0
          BY <3>5, Zenon
      <4>2. Share(b, h, f) = p.bytes \/ Share(b, h, f) = 0
          BY <3>6, Zenon
      <4>3. 0 \in Nat
          OBVIOUS
      <4> QED
          BY <2>4, <4>1, <4>2, <4>3, Zenon
    <3> QED
        BY <2>3, <3>4, <3>9, <3>10, <3>11
  <2>7. CASE Usable(p) /\ p.src \in LAN /\ p.dst \notin LAN
    <3>1. PICK a : a = FlowEvent(DirLANToWAN, p, TRUE)
        BY Zenon
    <3>2. AddFlows(t, <<a>>) = Add(t, a)
        BY DEF AddFlows
    <3>3. AddFlows(t, Decode(p)) = Add(t, a)
        BY <2>7, <3>1, <3>2, DecodeOut, Zenon
    <3>4. GoodEvent(a) /\ Share(a, h, f) = IF f = "bsent" /\ p.src = h THEN p.bytes ELSE 0
        BY <3>1, <1>ShareLocal, Zenon
    <3>5. PacketShare(p, h, f) = Share(a, h, f)
        BY <2>1, <2>2, <2>7, <3>4 DEF PacketShare, Usable
    <3>6. TableSum(Add(t, a), h, f) = TableSum(t, h, f) + Share(a, h, f)
        BY <3>4, <1>TableAdd, Zenon
    <3> QED
        BY <3>3, <3>5, <3>6, Zenon
  <2>8. CASE Usable(p) /\ p.src \notin LAN /\ p.dst \in LAN
    <3>1. PICK a : a = FlowEvent(DirWANToLAN, p, FALSE)
        BY Zenon
    <3>2. AddFlows(t, <<a>>) = Add(t, a)
        BY DEF AddFlows
    <3>3. AddFlows(t, Decode(p)) = Add(t, a)
        BY <2>8, <3>1, <3>2, DecodeIn, Zenon
    <3>4. GoodEvent(a) /\ Share(a, h, f) = IF f = "brecv" /\ p.dst = h THEN p.bytes ELSE 0
        BY <3>1, <1>ShareRemote, Zenon
    <3>5. PacketShare(p, h, f) = Share(a, h, f)
        BY <2>1, <2>2, <2>8, <3>4, Zenon DEF PacketShare, Usable
    <3>6. TableSum(Add(t, a), h, f) = TableSum(t, h, f) + Share(a, h, f)
        BY <3>4, <1>TableAdd, Zenon
    <3> QED
        BY <3>3, <3>5, <3>6, Zenon
  <2> QED
      BY <2>5, <2>6, <2>7, <2>8, Zenon
<1> QED
    BY <1>AddFlowsSum

(***************************************************************************)
(* The bytes of a host on the wire.                                        *)
(***************************************************************************)

(* The bytes on the wire: a frame that is not IPv4 counts for nobody.      *)
WireShare(p, h, f) == IF Monitored(p) THEN PacketShare(p, h, f) ELSE 0
WireOf(d, h, f) ==
    {n \in DOMAIN d : /\ Monitored(d[n])
                      /\ IF f = "bsent" THEN d[n].src = h /\ d[n].dst # Broadcast
                                        ELSE d[n].dst = h /\ d[n].src # Unspecified}
WireSum(d, h, f) == SumOver([n \in DOMAIN d |-> d[n].bytes], WireOf(d, h, f))

(* A packet adds its share to the bytes on the wire.                       *)
LEMMA WireAppend ==
    ASSUME NEW d \in Seq(Packets), NEW p \in Packets, NEW h, NEW f \in Fields
    PROVE  WireSum(Append(d, p), h, f) = WireSum(d, h, f) + WireShare(p, h, f)
<1>1. PICK d2 : d2 = Append(d, p)
    BY Zenon
<1>2. PICK n \in Nat : n = Len(d) + 1
    BY AppendFacts, Zenon
<1>3. /\ DOMAIN d2 = DOMAIN d \cup {n} /\ n \notin DOMAIN d /\ d2[n] = p
      /\ \A k \in DOMAIN d : d2[k] = d[k] /\ d[k] \in Packets
  <2>1. Len(d) \in Nat /\ DOMAIN d = 1 .. Len(d) /\ \A k \in DOMAIN d : d[k] \in Packets
      OBVIOUS
  <2>2. DOMAIN d2 = 1 .. n
      BY <1>1, <1>2
  <2>3. 1 .. n = (1 .. Len(d)) \cup {n} /\ n \notin 1 .. Len(d)
      BY <1>2, <2>1
  <2>4. d2[n] = p /\ \A k \in 1 .. Len(d) : d2[k] = d[k]
      BY <1>1, <1>2, AppendFacts, Zenon
  <2> QED
      BY <2>1, <2>2, <2>3, <2>4, Zenon
<1>4. PICK F : F = [k \in DOMAIN d |-> d[k].bytes]
    BY Zenon
<1>5. PICK G : G = [k \in DOMAIN d2 |-> d2[k].bytes]
    BY Zenon
<1>6. PICK S : S = WireOf(d, h, f)
    OBVIOUS
<1>7. S \subseteq DOMAIN d /\ n \notin S
    BY <1>3, <1>6, Zenon DEF WireOf
<1>8. IsFiniteSet(S)
  <2>1. DOMAIN d = 1 .. Len(d) /\ 1 \in Int /\ Len(d) \in Int
      OBVIOUS
  <2>2. IsFiniteSet(DOMAIN d)
      BY <2>1, FS_Interval, Zenon
  <2> QED
      BY <1>7, <2>2, FS_Subset, Zenon
<1>9. ASSUME NEW k \in S PROVE F[k] \in Nat /\ F[k] = G[k]
  <2>1. d[k] \in Packets /\ d2[k] = d[k] /\ k \in DOMAIN d /\ k \in DOMAIN d2
      BY <1>3, <1>7
  <2>2. d[k].bytes \in Nat
      BY <2>1, PacketTypes
  <2> QED
      BY <1>4, <1>5, <2>1, <2>2
<1>10. G[n] = p.bytes /\ p.bytes \in Nat
    BY <1>3, <1>5, PacketTypes
<1>11. SumOver(F, S) = SumOver(G, S) /\ SumOver(F, S) \in Nat
    BY <1>8, <1>9, SumAgree, SumType
<1>12. WireSum(d, h, f) = SumOver(F, S) /\ WireSum(d2, h, f) = SumOver(G, WireOf(d2, h, f))
    BY <1>4, <1>5, <1>6, Zenon DEF WireSum
<1>13. PICK counts : counts = IF /\ Monitored(p)
                              /\ IF f = "bsent" THEN p.src = h /\ p.dst # Broadcast
                                                ELSE p.dst = h /\ p.src # Unspecified
                              THEN 1 ELSE 0
    OBVIOUS
<1>14. CASE counts = 1
  <2>1. /\ Monitored(p)
        /\ IF f = "bsent" THEN p.src = h /\ p.dst # Broadcast ELSE p.dst = h /\ p.src # Unspecified
      BY <1>13, <1>14
  <2>2. WireShare(p, h, f) = p.bytes
      BY <2>1 DEF WireShare, PacketShare
  <2>3. WireOf(d2, h, f) = S \cup {n}
      BY <1>3, <1>6, <2>1, Zenon DEF WireOf
  <2>4. SumOver(G, S \cup {n}) = SumOver(G, S) + G[n]
      BY <1>7, <1>8, <1>9, <1>10, SumAdd
  <2> QED
      BY <1>1, <1>10, <1>11, <1>12, <2>2, <2>3, <2>4, Zenon
<1>15. CASE counts # 1
  <2>1. ~ (/\ Monitored(p)
           /\ IF f = "bsent" THEN p.src = h /\ p.dst # Broadcast ELSE p.dst = h /\ p.src # Unspecified)
      BY <1>13, <1>15
  <2>2. WireShare(p, h, f) = 0
      BY <2>1 DEF WireShare, PacketShare
  <2>3. WireOf(d2, h, f) = S
      BY <1>3, <1>6, <2>1, Zenon DEF WireOf
  <2>4. WireSum(d2, h, f) = WireSum(d, h, f) /\ WireSum(d, h, f) \in Nat
      BY <1>11, <1>12, <2>3, Zenon
  <2> QED
      BY <1>1, <2>2, <2>4
<1> QED
    BY <1>14, <1>15

(***************************************************************************)
(* A flush moves the table's bytes to the rows.                            *)
(***************************************************************************)

(* The rows of a flush hold what the table held, and none is merged with a *)
(* row of another flush.                                                   *)
LEMMA RowsAdd ==
    ASSUME NEW t, Typed(t), NEW rs, IsFiniteSet(rs), \A r \in rs : r.acc \in Accums,
           NEW id, \A r \in rs : r.id # id, NEW h, NEW f \in Fields
    PROVE  RowSum(rs \cup {FlowRecord(id, k, t[k]) : k \in DOMAIN t}, h, f) = RowSum(rs, h, f) + TableSum(t, h, f)
<1>1. PICK b : b = [k \in DOMAIN t |-> FlowRecord(id, k, t[k])]
    BY Zenon
<1>2. ASSUME NEW k \in DOMAIN t
      PROVE  /\ b[k] = FlowRecord(id, k, t[k]) /\ b[k].id = id /\ b[k].key = k /\ b[k].acc = t[k]
    BY <1>1 DEF FlowRecord
<1>3. PICK new : new = {FlowRecord(id, k, t[k]) : k \in DOMAIN t}
    BY Zenon
<1>4. new = {b[k] : k \in DOMAIN t}
  <2>1. \A k \in DOMAIN t : b[k] = FlowRecord(id, k, t[k])
      BY <1>1
  <2> QED
      BY <1>3, <2>1, Zenon
<1>5. PICK K : K = KeysOf(t, h)
    OBVIOUS
<1>6. IsFiniteSet(K) /\ \A k \in K : k \in DOMAIN t /\ t[k][f] \in Nat
    BY <1>5, KeysFinite
<1>7. PICK B : B = {b[k] : k \in K}
    BY Zenon
<1>8. PICK A : A = RowsOf(rs, h)
    OBVIOUS
<1>9. RowsOf(rs \cup new, h) = A \cup B
  <2>1. ASSUME NEW r \in RowsOf(rs \cup new, h) PROVE r \in A \cup B
    <3>1. (r \in rs \/ r \in new) /\ r.key.lip = h
        BY DEF RowsOf
    <3>2. r \in rs => r \in A
        BY <1>8, <3>1 DEF RowsOf
    <3>3. r \in new => r \in B
      <4> SUFFICES ASSUME r \in new PROVE r \in B
          OBVIOUS
      <4>1. PICK k \in DOMAIN t : r = b[k]
          BY <1>4
      <4>2. k.lip = h
          BY <1>2, <3>1, <4>1, Zenon
      <4>3. k \in K
          BY <1>5, <4>2 DEF KeysOf
      <4> QED
          BY <1>7, <4>1, <4>3
    <3> QED
        BY <3>1, <3>2, <3>3
  <2>2. ASSUME NEW r \in A PROVE r \in RowsOf(rs \cup new, h)
      BY <1>8 DEF RowsOf
  <2>3. ASSUME NEW r \in B PROVE r \in RowsOf(rs \cup new, h)
    <3>1. PICK k \in K : r = b[k]
        BY <1>7
    <3>2. k \in DOMAIN t /\ k.lip = h
        BY <1>5 DEF KeysOf
    <3>3. r \in new /\ r.key.lip = h
        BY <1>2, <1>4, <3>1, <3>2, Zenon
    <3> QED
        BY <3>3 DEF RowsOf
  <2> QED
      BY <2>1, <2>2, <2>3, Zenon
<1>10. A \cap B = {}
  <2>1. ASSUME NEW r \in A, r \in B PROVE FALSE
    <3>1. PICK k \in K : r = b[k]
        BY <1>7, <2>1
    <3>2. r.id = id
        BY <1>2, <1>6, <3>1
    <3>3. r \in rs
        BY <1>8 DEF RowsOf
    <3> QED
        BY <3>2, <3>3
  <2> QED
      BY <2>1
<1>11. PICK F : F = [r \in rs |-> r.acc[f]]
    BY Zenon
<1>12. PICK G : G = [r \in rs \cup new |-> r.acc[f]]
    BY Zenon
<1>13. PICK H : H = [k \in DOMAIN t |-> t[k][f]]
    BY Zenon
<1>14. A \subseteq rs
    BY <1>8 DEF RowsOf
<1>15. IsFiniteSet(A)
    BY <1>14, FS_Subset, Zenon
<1>16. IsFiniteSet(B)
    BY <1>6, <1>7, ImageFinite, Zenon
<1>17. ASSUME NEW r \in A PROVE F[r] \in Nat /\ F[r] = G[r] /\ G[r] \in Nat
  <2>1. r \in rs /\ r.acc[f] \in Nat
      BY <1>14, FieldTypes
  <2> QED
      BY <1>11, <1>12, <2>1
<1>18. ASSUME NEW k \in K PROVE H[k] \in Nat /\ G[b[k]] = H[k]
  <2>1. k \in DOMAIN t /\ t[k][f] \in Nat
      BY <1>6
  <2>2. b[k] \in rs \cup new /\ b[k].acc = t[k]
      BY <1>2, <1>4, <2>1, Zenon
  <2>3. G[b[k]] = b[k].acc[f]
      BY <1>12, <2>2, Zenon
  <2>4. H[k] = t[k][f]
      BY <1>13, <2>1
  <2> QED
      BY <2>1, <2>2, <2>3, <2>4, Zenon
<1>19. SumOver(F, A) = SumOver(G, A)
    BY <1>15, <1>17, SumAgree
<1>20. SumOver(G, B) = SumOver(H, K)
  <2>1. ASSUME NEW x \in K, NEW y \in K, b[x] = b[y] PROVE x = y
    <3>1. b[x].key = x /\ b[y].key = y
        BY <1>2, <1>6, Zenon
    <3> QED
        BY <2>1, <3>1, Zenon
  <2>2. SumOver(G, {b[x] : x \in K}) = SumOver(H, K)
    <3>1. IsFiniteSet(K) /\ (\A x \in K : H[x] \in Nat) /\ \A x \in K : G[b[x]] = H[x]
        BY <1>6, <1>18, Zenon
    <3>2. \A x, y \in K : b[x] = b[y] => x = y
        BY <2>1, Zenon
    <3> QED
        BY <3>1, <3>2, SumRenamed
  <2> QED
      BY <1>7, <2>2, Zenon
<1>21. SumOver(G, A \cup B) = SumOver(G, A) + SumOver(G, B)
  <2>1. \A r \in A \cup B : G[r] \in Nat
    <3>1. \A r \in B : G[r] \in Nat
        BY <1>7, <1>18, Zenon
    <3> QED
        BY <1>17, <3>1, Zenon
  <2> QED
      BY <1>10, <1>15, <1>16, <2>1, SumUnion
<1>22. RowSum(rs, h, f) = SumOver(F, A)
    BY <1>8, <1>11, Zenon DEF RowSum
<1>23. RowSum(rs \cup new, h, f) = SumOver(G, A \cup B)
    BY <1>9, <1>12, Zenon DEF RowSum
<1>24. TableSum(t, h, f) = SumOver(H, K)
    BY <1>5, <1>13, Zenon DEF TableSum
<1> QED
    BY <1>3, <1>19, <1>20, <1>21, <1>22, <1>23, <1>24, Zenon

(***************************************************************************)
(* The invariant.                                                          *)
(***************************************************************************)

(* The inductive invariant of the bytes.                                   *)
BytesInv ==
    \A h \in Hosts : \A f \in Fields : RowSum(rows, h, f) + TableSum(table, h, f) = WireSum(delivered, h, f)

(* It is HostTotalsExact.                                                  *)
LEMMA BytesMeans == BytesInv => HostTotalsExact
<1> SUFFICES ASSUME BytesInv, NEW h \in Hosts
             PROVE  /\ Recorded(h, "bsent") = SumOver(Sizes, Sent(h))
                    /\ Recorded(h, "brecv") = SumOver(Sizes, Received(h))
    BY Zenon DEF HostTotalsExact
<1>1. \A f : Recorded(h, f) = RowSum(rows, h, f) + TableSum(table, h, f)
    BY Zenon DEF Recorded, RowSum, TableSum, RowsOf, KeysOf
<1>2. Sent(h) = WireOf(delivered, h, "bsent")
    BY Zenon DEF Sent, WireOf
<1>3. Received(h) = WireOf(delivered, h, "brecv")
  <2>1. "brecv" # "bsent"
      OBVIOUS
  <2> QED
      BY <2>1, Zenon DEF Received, WireOf
<1>4. \A f \in Fields : Recorded(h, f) = SumOver(Sizes, WireOf(delivered, h, f))
    BY <1>1, Zenon DEF BytesInv, WireSum, Sizes
<1>5. "bsent" \in Fields /\ "brecv" \in Fields
    BY DEF Fields
<1> QED
    BY <1>2, <1>3, <1>4, <1>5, Zenon

(* The table of a reachable state.                                         *)
LEMMA TableTyped == FlowInv => Typed(table)
<1> SUFFICES ASSUME FlowInv PROVE Typed(table)
    OBVIOUS
<1>1. \A k \in DOMAIN table : table[k] \in Accums
    BY Zenon DEF FlowInv, TableInv, Exact, Summary
<1> QED
    BY <1>1, TableFinite, Zenon DEF Typed

(* Its sums, and those of the rows.                                        *)
LEMMA SumsAreNatural ==
    ASSUME FlowInv, NEW h, NEW f \in Fields
    PROVE  TableSum(table, h, f) \in Nat /\ RowSum(rows, h, f) \in Nat
<1>1. TableSum(table, h, f) \in Nat
  <2>1. PICK F : F = [k \in DOMAIN table |-> table[k][f]]
      BY Zenon
  <2>2. IsFiniteSet(KeysOf(table, h)) /\ \A k \in KeysOf(table, h) : F[k] \in Nat
      BY <2>1, TableTyped, KeysFinite, Zenon
  <2>3. SumOver(F, KeysOf(table, h)) \in Nat
      BY <2>2, SumType
  <2> QED
      BY <2>1, <2>3, Zenon DEF TableSum
<1>2. RowSum(rows, h, f) \in Nat
  <2>1. PICK F : F = [r \in rows |-> r.acc[f]]
      BY Zenon
  <2>2. RowsOf(rows, h) \subseteq rows
      BY DEF RowsOf
  <2>3. IsFiniteSet(RowsOf(rows, h))
      BY <2>2, FS_Subset, Zenon DEF FlowInv, RowsInv
  <2>4. ASSUME NEW r \in RowsOf(rows, h) PROVE F[r] \in Nat
    <3>1. r \in rows /\ r.acc \in Accums
        BY <2>2, Zenon DEF FlowInv, RowsInv, Sourced
    <3> QED
        BY <2>1, <3>1, FieldTypes
  <2>5. SumOver(F, RowsOf(rows, h)) \in Nat
      BY <2>3, <2>4, SumType
  <2> QED
      BY <2>1, <2>5, Zenon DEF RowSum
<1> QED
    BY <1>1, <1>2

(* No bytes.                                                               *)
LEMMA BytesInitial == Init => BytesInv
<1> SUFFICES ASSUME Init, NEW h \in Hosts, NEW f \in Fields
             PROVE  RowSum(rows, h, f) + TableSum(table, h, f) = WireSum(delivered, h, f)
    BY Zenon DEF BytesInv
<1>1. delivered = <<>> /\ table = Empty /\ rows = {}
    BY DEF Init
<1>2. DOMAIN table = {} /\ DOMAIN delivered = {}
    BY <1>1 DEF Empty
<1>3. RowsOf(rows, h) = {} /\ KeysOf(table, h) = {} /\ WireOf(delivered, h, f) = {}
    BY <1>1, <1>2, Zenon DEF RowsOf, KeysOf, WireOf
<1>4. RowSum(rows, h, f) = 0 /\ TableSum(table, h, f) = 0 /\ WireSum(delivered, h, f) = 0
    BY <1>3, SumEmpty, Zenon DEF RowSum, TableSum, WireSum
<1> QED
    BY <1>4

(* A packet adds the same on both sides; a flush moves bytes from the      *)
(* table to the rows.                                                      *)
LEMMA BytesStep == FlowInv /\ BytesInv /\ [Next]_vars => BytesInv'
<1> SUFFICES ASSUME FlowInv, BytesInv, [Next]_vars, NEW h \in Hosts, NEW f \in Fields
             PROVE  RowSum(rows', h, f) + TableSum(table', h, f) = WireSum(delivered', h, f)
    BY Zenon DEF BytesInv
<1>1. RowSum(rows, h, f) + TableSum(table, h, f) = WireSum(delivered, h, f)
    BY Zenon DEF BytesInv
<1>2. TableSum(table, h, f) \in Nat /\ RowSum(rows, h, f) \in Nat
    BY SumsAreNatural
<1>3. ASSUME NEW p \in Packets, Deliver(p)
      PROVE  RowSum(rows', h, f) + TableSum(table', h, f) = WireSum(delivered', h, f)
  <2>1. /\ delivered' = Append(delivered, p) /\ rows' = rows
        /\ table' = IF Accepts(p.frame) THEN AddFlows(table, Decode(p)) ELSE table
      BY <1>3 DEF Deliver
  <2>2. delivered \in Seq(Packets)
      BY DEF FlowInv, Base
  <2>3. WireSum(delivered', h, f) = WireSum(delivered, h, f) + WireShare(p, h, f)
      BY <2>1, <2>2, WireAppend, Zenon
  <2>4. CASE Monitored(p)
    <3>1. table' = AddFlows(table, Decode(p))
        BY <2>1, <2>4, FilterAccepts, Zenon
    <3>2. TableSum(table', h, f) = TableSum(table, h, f) + PacketShare(p, h, f)
        BY <3>1, TableTyped, AddFlowsSum, Zenon
    <3>3. WireShare(p, h, f) = PacketShare(p, h, f)
        BY <2>4, Zenon DEF WireShare
    <3>4. PacketShare(p, h, f) \in Nat
        BY PacketTypes DEF PacketShare
    <3> QED
        BY <1>1, <1>2, <2>1, <2>3, <3>2, <3>3, <3>4
  <2>5. CASE ~Monitored(p)
    <3>1. table' = table
        BY <2>1, <2>5, FilterAccepts, Zenon
    <3>2. WireShare(p, h, f) = 0
        BY <2>5, Zenon DEF WireShare
    <3>3. WireSum(delivered, h, f) \in Nat
        BY <1>1, <1>2
    <3>4. WireSum(delivered', h, f) = WireSum(delivered, h, f)
        BY <2>3, <3>2, <3>3
    <3> QED
        BY <1>1, <2>1, <3>1, <3>4, Zenon
  <2> QED
      BY <2>4, <2>5
<1>4. CASE Flush
  <2>1. /\ delivered' = delivered /\ table' = Empty /\ flushed < Len(delivered)
        /\ rows' = rows \cup {FlowRecord(Len(delivered), k, table[k]) : k \in DOMAIN table}
      BY <1>4 DEF Flush
  <2>2. IsFiniteSet(rows) /\ (\A r \in rows : r.acc \in Accums) /\ \A r \in rows : r.id # Len(delivered)
    <3>1. IsFiniteSet(rows) /\ \A r \in rows : r.acc \in Accums /\ r.id \in 1 .. flushed
        BY Zenon DEF FlowInv, RowsInv, Sourced
    <3>2. Len(delivered) \notin 1 .. flushed
        BY <2>1 DEF FlowInv, Base
    <3> QED
        BY <3>1, <3>2, Zenon
  <2>3. RowSum(rows', h, f) = RowSum(rows, h, f) + TableSum(table, h, f)
    <3>1. PICK id : id = Len(delivered)
        BY Zenon
    <3>2. PICK t : t = table
        OBVIOUS
    <3>3. Typed(t)
        BY <3>2, TableTyped
    <3>4. \A r \in rows : r.id # id
        BY <2>2, <3>1
    <3>5. RowSum(rows \cup {FlowRecord(id, k, t[k]) : k \in DOMAIN t}, h, f) = RowSum(rows, h, f) + TableSum(t, h, f)
        BY <2>2, <3>3, <3>4, RowsAdd
    <3> QED
        BY <2>1, <3>1, <3>2, <3>5, Zenon
  <2>4. TableSum(Empty, h, f) = 0
    <3>1. DOMAIN Empty = {}
        BY DEF Empty
    <3>2. KeysOf(Empty, h) = {}
        BY <3>1, Zenon DEF KeysOf
    <3> QED
        BY <3>2, SumEmpty, Zenon DEF TableSum
  <2>5. PICK n \in Nat : n = RowSum(rows', h, f) /\ n = WireSum(delivered, h, f)
      BY <1>1, <1>2, <2>3
  <2>6. n + 0 = n
      OBVIOUS
  <2> QED
      BY <2>1, <2>4, <2>5, <2>6, Zenon
<1>5. ASSUME NEW now \in Nows, PruneDNSQueries(now)
      PROVE  RowSum(rows', h, f) + TableSum(table', h, f) = WireSum(delivered', h, f)
  <2>1. rows' = rows /\ table' = table /\ delivered' = delivered
      BY <1>5 DEF PruneDNSQueries
  <2> QED
      BY <1>1, <2>1, Zenon
<1>6. CASE UNCHANGED vars
  <2>1. rows' = rows /\ table' = table /\ delivered' = delivered
      BY <1>6 DEF vars
  <2> QED
      BY <1>1, <2>1, Zenon
<1> QED
    BY <1>3, <1>4, <1>5, <1>6 DEF Next

(* Rows and table together account for every byte each LAN host sent and   *)
(* received, for any packets and whenever flushes happen.                  *)
THEOREM EveryByteIsRecorded == Spec => []HostTotalsExact
<1> QED
    BY FlowInvariant, BytesInitial, BytesStep, BytesMeans, PTL DEF Spec
=============================================================================
