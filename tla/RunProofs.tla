------------------------------ MODULE RunProofs ------------------------------
(***************************************************************************)
(* Proofs of what the readers of the ledger rely on.  Each is an          *)
(* invariant over the invariants of LedgerProofs:                          *)
(*   - GenesisInv: the run record is true of the genesis event;            *)
(*   - HashDepth: a hash commits to as many events as the row's index says;*)
(*   - OneKey: without a rotation every row is signed by the key of the    *)
(*     run record;                                                         *)
(*   - TaskInv: every completion event follows a report that justifies it. *)
(***************************************************************************)
EXTENDS LedgerProofs

USE DEF tables, consumers, memory, ledgerPast, ledgerVars

-----------------------------------------------------------------------------
\* The run record and the genesis event.

USE DEF signerVars, serverVars, rotVars, cliVars, history

\* Until Start has returned no key is rotated.
BootKeys ==
  boot # "on" =>
    /\ \A r \in Rekeyer : rot[r] = "idle"
    /\ server = "up" => privateKey = publicKey
    /\ boot # "off" => server = "up"

LEMMA BootKeysStep ==
  ASSUME BootKeys, [LedgerNext]_<<signerVars, ledgerVars>>
  PROVE  BootKeys'
<1>1. CASE StartStep
  BY <1>1, Zenon
     DEF BootKeys, StartStep, LoadRun, CreateGenesis, InsertRun, StoreGenesis
<1>2. CASE HandOver \/ UNCHANGED <<signerVars, ledgerVars>>
  BY <1>2, Zenon DEF BootKeys, HandOver
<1>3. CASE Crash
  BY <1>3, SMT DEF BootKeys, Crash, ServerEnds
<1>4. CASE SignerStep
  <2>1. UNCHANGED boot
    BY <1>4, Zenon DEF SignerStep
  <2>2. CASE LoadKey \/ TruncateKey \/ WriteNewKey
    BY <2>1, <2>2, SMTT(30) DEF BootKeys, LoadKey, TruncateKey, WriteNewKey
  <2>3. ASSUME NEW r \in Rekeyer, RotateStep(r) PROVE BootKeys'
    BY <2>1, <2>3, SMT DEF BootKeys, RotateStep, RotateWrite, RotateFails, RotatePrivate,
       RotatePublic
  <2>4. CASE CliStep
    <3>1. UNCHANGED <<server, privateKey, publicKey, rot>>
      BY <2>4, Zenon
         DEF CliStep, VerifyLoad, VerifyTruncate, VerifyWrite, CommandEnds, BackupKey,
         RestoreRename, RestoreTruncate, RestoreWrite, CommandWrites
    <3> QED BY <2>1, <3>1, Zenon DEF BootKeys
  <2> QED BY <1>4, <2>2, <2>3, <2>4, Zenon DEF SignerStep
<1>5. ASSUME NEW c \in Consumer, ConsumerStep(c) PROVE BootKeys'
  <2>1. UNCHANGED <<signerVars, boot>>
    BY <1>5, Zenon
       DEF ConsumerStep, TakeEvent, GetRunStats, GetLastEvent, SignHash,
       StoreTerminal, StoreOther, StoreEvent, Fail
  <2> QED BY <2>1, Zenon DEF BootKeys
<1>6. ASSUME NEW r \in Rekeyer, Rekey(r) PROVE BootKeys'
  BY <1>6, Zenon DEF BootKeys, Rekey
<1> QED BY <1>1, <1>2, <1>3, <1>4, <1>5, <1>6, Zenon DEF LedgerNext

(* A consumer's step leaves the server, the run and the other consumer     *)
(* alone, and is taken only once Start has returned.                       *)
LEMMA ConsumerFrame ==
  ASSUME Chain, NEW c \in Consumer, ConsumerStep(c)
  PROVE  /\ boot = "on"
         /\ UNCHANGED <<signerVars, runs, boot, runID, phase, twoConsumers, rotated>>
         /\ \A d \in Consumer : d # c => pc'[d] = pc[d] /\ pend'[d] = pend[d]
<1>1. TakeEvent(c) => boot = "on"
  BY Zenon DEF TakeEvent
<1>2. ~TakeEvent(c) => pc[c] # "idle"
  <2>1. GetRunStats(c) \/ GetLastEvent(c) \/ SignHash(c) => pc[c] # "idle"
    BY Zenon DEF GetRunStats, GetLastEvent, SignHash
  <2>2. StoreTerminal(c) \/ StoreOther(c) => pc[c] # "idle"
    BY Zenon DEF StoreTerminal, StoreOther, StoreEvent
  <2>3. Fail(c) => pc[c] # "idle"
    BY Zenon DEF Fail
  <2> QED BY <2>1, <2>2, <2>3, Zenon DEF ConsumerStep
<1>3. UNCHANGED <<signerVars, runs, boot, runID, phase, twoConsumers, rotated>>
  <2>1. CASE TakeEvent(c) \/ GetRunStats(c) \/ GetLastEvent(c) \/ SignHash(c) \/ Fail(c)
    BY <2>1, ZenonT(40) DEF TakeEvent, GetRunStats, GetLastEvent, SignHash, Fail
  <2>2. CASE StoreTerminal(c) \/ StoreOther(c)
    BY <2>2, ZenonT(40) DEF StoreTerminal, StoreOther, StoreEvent
  <2> QED BY <2>1, <2>2, Zenon DEF ConsumerStep
<1>4. PICK e, p : pend' = [pend EXCEPT ![c] = e] /\ pc' = [pc EXCEPT ![c] = p]
  <2>1. CASE TakeEvent(c)
    BY <2>1, Zenon DEF TakeEvent
  <2>2. CASE GetRunStats(c) \/ GetLastEvent(c) \/ SignHash(c)
    BY <2>2, Zenon DEF GetRunStats, GetLastEvent, SignHash
  <2>3. CASE StoreTerminal(c) \/ StoreOther(c) \/ Fail(c)
    BY <2>3, Zenon DEF StoreTerminal, StoreOther, Fail
  <2> QED BY <2>1, <2>2, <2>3, Zenon DEF ConsumerStep
<1>5. DOMAIN pend = Consumer /\ DOMAIN pc = Consumer
  BY Zenon DEF Chain, PendTypes, MemoryTypes
<1>6. \A d \in Consumer : d # c => pc'[d] = pc[d] /\ pend'[d] = pend[d]
  BY <1>4, <1>5, Zenon
<1> QED BY <1>1, <1>2, <1>3, <1>6, Busy, Zenon

\* The genesis event in the hands of Start is the one of the run record, and
\* no other event is a genesis event.
Recorded(e, run) == e.hash = run.genesisHash /\ e.key = run.pubKey

GenesisInv ==
  /\ \A c \in Consumer : pc[c] # "idle" => pend[c].type # "genesis"
  /\ boot = "insertRun" => pend["loop"].key = publicKey
  /\ boot = "storeGenesis" => Recorded(pend["loop"], runs[1]) /\ events[1] = <<>>
  /\ \A r \in DOMAIN events : \A i \in DOMAIN events[r] :
       events[r][i].type = "genesis" => i = 1 /\ Recorded(events[r][i], runs[r])

(* A row that is appended is the genesis event only if it comes first.     *)
LEMMA GenesisAppend ==
  ASSUME Chain, OneRun, GenesisInv, NEW rn \in 1..Len(events), NEW e \in Row,
         events' = [events EXCEPT ![rn] = Append(@, e)], UNCHANGED runs,
         e.type = "genesis" => events[1] = <<>> /\ Recorded(e, runs[1])
  PROVE  \A r \in DOMAIN events' : \A i \in DOMAIN events'[r] :
           events'[r][i].type = "genesis" => i = 1 /\ Recorded(events'[r][i], runs'[r])
<1>1. Len(events) \in Nat /\ events \in Seq(Seq(Row)) /\ DOMAIN events = 1..Len(events)
  BY LenProperties DEF Chain, TableTypes
<1>2. rn = 1 /\ DOMAIN events = {1}
  BY <1>1, SMT DEF OneRun, Chain, TableTypes
<1> DEFINE rows == events[1]
           new  == events'[1]
<1>3. rows \in Seq(Row) /\ Len(rows) \in Nat /\ DOMAIN rows = 1..Len(rows)
  BY <1>1, <1>2, ElementOfSeq, LenProperties
<1>4. new = Append(rows, e) /\ DOMAIN events' = {1}
  BY <1>2, SMTT(30)
<1>5. \A i \in DOMAIN rows : rows[i].type = "genesis" => i = 1 /\ Recorded(rows[i], runs[1])
  BY <1>2 DEF GenesisInv
<1>6. e.type = "genesis" => Len(rows) = 0
  BY EmptySeq
<1> HIDE DEF rows, new
<1>7. /\ DOMAIN new = 1..(Len(rows) + 1)
      /\ \A i \in 1..Len(rows) : new[i] = rows[i]
      /\ new[Len(rows) + 1] = e
  BY <1>3, <1>4, AppendProperties, LenProperties, SMTT(30)
<1>8. ASSUME NEW i \in DOMAIN new, new[i].type = "genesis"
      PROVE  i = 1 /\ Recorded(new[i], runs[1])
  <2>1. CASE i \in 1..Len(rows)
    BY <1>3, <1>5, <1>7, <1>8, <2>1, SMTT(30)
  <2>2. CASE i = Len(rows) + 1
    BY <1>3, <1>6, <1>7, <1>8, <2>2, SMTT(30)
  <2> QED BY <1>3, <1>7, <2>1, <2>2, SMTT(30)
<1> QED BY <1>4, <1>8 DEF new

LEMMA GenesisStep ==
  ASSUME Chain, OneRun, BootKeys, GenesisInv, LedgerFlags,
         [LedgerNext]_<<signerVars, ledgerVars>>
  PROVE  GenesisInv'
<1>0. /\ DOMAIN pend = Consumer /\ DOMAIN pc = Consumer /\ "loop" \in Consumer
      /\ boot # "on" => \A c \in Consumer : pc[c] = "idle"
  BY DEF Chain, PendTypes, MemoryTypes, BootPhase, Consumer
<1>1. CASE LoadRun
  BY <1>1, Zenon DEF GenesisInv, LoadRun
<1>2. CASE Crash
  BY <1>2, SMTT(30) DEF GenesisInv, Crash
<1>3. CASE CreateGenesis
  <2>1. /\ boot = "off" /\ boot' = "insertRun" /\ server = "up"
        /\ UNCHANGED <<tables, pc, publicKey>>
    BY <1>3, Zenon DEF CreateGenesis
  <2>2. pend'["loop"].key = publicKey
    <3> DEFINE n == [NewEvent("genesis", NoTask, "none") EXCEPT !.prev = ZeroHash]
    <3>1. pend'["loop"] = [n EXCEPT !.hash = CalculateEventHash(ZeroHash, n), !.key = privateKey]
      BY <1>0, <1>3, Zenon DEF CreateGenesis
    <3>2. privateKey = publicKey
      BY <2>1, SMTT(30) DEF BootKeys
    <3> QED BY <3>1, <3>2, SMT DEF NewEvent
  <2> QED BY <1>0, <2>1, <2>2, SMT DEF GenesisInv
<1>4. CASE InsertRun
  <2> DEFINE rec == [genesisHash |-> pend["loop"].hash, pubKey |-> publicKey]
  <2>1. /\ boot = "insertRun" /\ boot' = "storeGenesis" /\ UNCHANGED consumers
        /\ runs' = Append(runs, rec) /\ events' = Append(events, <<>>)
    BY <1>4, Zenon DEF InsertRun
  <2>2. runs = <<>> /\ events = <<>>
    BY <2>1, EmptySeq, LenProperties, Zenon DEF OneRun, Chain, TableTypes
  <2>3. runs'[1] = rec /\ events'[1] = <<>> /\ DOMAIN events' = {1}
    BY <2>1, <2>2, SMTT(30)
  <2>4. Recorded(pend["loop"], rec)
    BY <2>1, SMTT(30) DEF Recorded, GenesisInv
  <2> QED BY <1>0, <2>1, <2>3, <2>4, SMT DEF GenesisInv
<1>5. CASE StoreGenesis
  <2>1. /\ boot = "storeGenesis" /\ boot' = "on" /\ UNCHANGED <<runs, pc>>
        /\ events' = [events EXCEPT ![Len(runs)] = Append(@, pend["loop"])]
    BY <1>5, Zenon DEF StoreGenesis
  <2>2. Len(runs) \in 1..Len(events) /\ pend["loop"] \in Row
    BY <2>1, LenProperties, SMTT(30)
       DEF Chain, TableTypes, PendTypes, BootPhase, Consumer
  <2>3. Recorded(pend["loop"], runs[1]) /\ events[1] = <<>>
    BY <2>1 DEF GenesisInv
  <2>4. \A r \in DOMAIN events' : \A i \in DOMAIN events'[r] :
          events'[r][i].type = "genesis" => i = 1 /\ Recorded(events'[r][i], runs'[r])
    BY <2>1, <2>2, <2>3, GenesisAppend, ZenonT(40)
  <2> QED BY <1>0, <2>1, <2>4, SMT DEF GenesisInv
<1>6. ASSUME NEW c \in Consumer, ConsumerStep(c) PROVE GenesisInv'
  <2>0. boot = "on" /\ UNCHANGED <<boot, runs>>
    BY <1>6, ConsumerFrame, Zenon
  <2>1. ASSUME pc'[c] # "idle" PROVE pend'[c].type # "genesis"
    <3>1. CASE TakeEvent(c)
      BY <1>0, <3>1, SMTT(30) DEF TakeEvent, NewEvent
    <3>2. CASE GetRunStats(c) \/ GetLastEvent(c) \/ SignHash(c)
      <4>1. pc[c] # "idle"
        BY <3>2, Zenon DEF GetRunStats, GetLastEvent, SignHash
      <4>2. pend[c] \in Row /\ pend[c].type # "genesis"
        BY <4>1, Busy DEF GenesisInv
      <4>3. CASE GetRunStats(c)
        BY <1>0, <4>2, <4>3, SMT DEF GetRunStats, Row
      <4>4. CASE GetLastEvent(c)
        <5>1. PICK h : pend' = [pend EXCEPT ![c].prev = h]
          BY <4>4, Zenon DEF GetLastEvent
        <5> QED BY <1>0, <4>2, <5>1, SMT DEF Row
      <4>5. CASE SignHash(c)
        <5>1. PICK h, k : pend' = [pend EXCEPT ![c].hash = h, ![c].key = k]
          BY <4>5, Zenon DEF SignHash
        <5> QED BY <1>0, <4>2, <5>1, SMT DEF Row
      <4> QED BY <3>2, <4>3, <4>4, <4>5, Zenon
    <3>3. CASE StoreTerminal(c)
      <4> DEFINE n == NewEvent("task_terminal", pend[c].task, "completed")
      <4>1. pend'[c] = [n EXCEPT !.id = pend[c].id]
        BY <1>0, <3>3, Zenon DEF StoreTerminal
      <4> QED BY <4>1, SMT DEF NewEvent
    <3>4. CASE StoreOther(c) \/ Fail(c)
      <4>1. pc' = [pc EXCEPT ![c] = "idle"]
        BY <3>4, Zenon DEF StoreOther, Fail
      <4> QED BY <1>0, <2>1, <4>1, Zenon
    <3> QED BY <1>6, <3>1, <3>2, <3>3, <3>4, Zenon DEF ConsumerStep
  <2>2. \A d \in Consumer : d # c => pc'[d] = pc[d] /\ pend'[d] = pend[d]
    BY <1>6, ConsumerFrame, Zenon
  <2>3. \A r \in DOMAIN events' : \A i \in DOMAIN events'[r] :
          events'[r][i].type = "genesis" => i = 1 /\ Recorded(events'[r][i], runs'[r])
    <3>1. CASE StoreEvent(c)
      <4>1. pc[c] = "store" /\ events' = [events EXCEPT ![runID] = Append(@, pend[c])]
        BY <3>1, ZenonT(40) DEF StoreEvent
      <4>2. /\ runID \in 1..Len(events) /\ pend[c] \in Row
            /\ pend[c].type # "genesis"
        BY <4>1, Busy, SMTT(30) DEF GenesisInv
      <4> QED BY <2>0, <4>1, <4>2, GenesisAppend, ZenonT(40)
    <3>2. CASE ~StoreEvent(c)
      <4>1. UNCHANGED tables
        BY <1>6, <3>2, Zenon
           DEF ConsumerStep, TakeEvent, GetRunStats, GetLastEvent, SignHash,
           StoreTerminal, StoreOther, Fail
      <4> QED BY <4>1 DEF GenesisInv
    <3> QED BY <3>1, <3>2
  <2> QED BY <2>0, <2>1, <2>2, <2>3, SMTT(30) DEF GenesisInv
<1>7. CASE HandOver \/ SignerStep \/ (\E r \in Rekeyer : Rekey(r))
             \/ UNCHANGED <<signerVars, ledgerVars>>
  <2>1. UNCHANGED <<tables, consumers, boot>>
    BY <1>7, Zenon DEF HandOver, SignerStep, Rekey
  <2>2. boot = "insertRun" => UNCHANGED publicKey
    <3> SUFFICES ASSUME boot = "insertRun" PROVE UNCHANGED publicKey
      OBVIOUS
    <3>1. server = "up" /\ \A r \in Rekeyer : rot[r] = "idle"
      BY DEF BootKeys
    <3>2. ~LoadKey /\ ~TruncateKey /\ ~WriteNewKey
      BY <3>1, SMTT(30) DEF LoadKey, TruncateKey, WriteNewKey
    <3>3. \A r \in Rekeyer : ~RotateStep(r) /\ ~Rekey(r)
      BY <3>1, SMT DEF RotateStep, RotateWrite, RotateFails, RotatePrivate, RotatePublic, Rekey
    <3>4. CliStep => UNCHANGED publicKey
      BY Zenon DEF CliStep, VerifyLoad, VerifyTruncate, VerifyWrite, CommandEnds, BackupKey,
         RestoreRename, RestoreTruncate, RestoreWrite, CommandWrites
    <3> QED BY <1>7, <3>2, <3>3, <3>4, Zenon DEF HandOver, SignerStep
  <2> QED BY <2>1, <2>2, Zenon DEF GenesisInv
<1> QED BY <1>1, <1>2, <1>3, <1>4, <1>5, <1>6, <1>7, Zenon
           DEF LedgerNext, StartStep

(* The run record is made once, and what it says of the genesis event is   *)
(* so: also when Start was interrupted between the two inserts, and with   *)
(* any rotations later (genesis.go:14-87, worker.go:191-206).              *)
THEOREM RunRecordIsTrue == LedgerSpec => []RunRecordMatches
<1>1. LedgerInit => OneRun /\ BootKeys /\ GenesisInv
  <2> SUFFICES ASSUME LedgerInit PROVE OneRun /\ BootKeys /\ GenesisInv
    OBVIOUS
  <2>1. /\ runs = <<>> /\ events = <<>> /\ boot = "off" /\ server = "down"
        /\ pc = [c \in Consumer |-> "idle"] /\ rot = [r \in Rekeyer |-> "idle"]
    BY ZenonT(40) DEF LedgerInit, SignerInit
  <2> QED BY <2>1, EmptySeq, SMTT(30) DEF OneRun, BootKeys, GenesisInv
<1>2. LedgerInv => Chain /\ LedgerFlags
  BY LedgerTypesSplit, Zenon DEF LedgerInv, Chain
<1>3. OneRun /\ BootKeys /\ GenesisInv /\ LedgerInv /\ [LedgerNext]_<<signerVars, ledgerVars>>
        => OneRun' /\ BootKeys' /\ GenesisInv'
  BY <1>2, OneRunStep, BootKeysStep, GenesisStep, Zenon
<1>4. OneRun /\ GenesisInv => RunRecordMatches
  BY DEF OneRun, GenesisInv, Recorded, RunRecordMatches
<1> QED BY <1>1, <1>3, <1>4, LedgerInvariant, PTL DEF LedgerSpec

-----------------------------------------------------------------------------
\* The rows a step adds.

\* Row i of run r was there before the step.
Kept(r, i) ==
  r \in DOMAIN events /\ i \in DOMAIN events[r] /\ events'[r][i] = events[r][i]

LEMMA RowsGrow ==
  ASSUME TableTypes, NEW rn \in 1..Len(events), NEW e \in Row,
         events' = [events EXCEPT ![rn] = Append(@, e)]
  PROVE  /\ DOMAIN events' = DOMAIN events /\ rn \in DOMAIN events
         /\ \A r \in DOMAIN events : r # rn => events'[r] = events[r]
         /\ events[rn] \in Seq(Row) /\ events'[rn] = Append(events[rn], e)
<1>1. events \in Seq(Seq(Row)) /\ DOMAIN events = 1..Len(events) /\ events[rn] \in Seq(Row)
  BY LenProperties, ElementOfSeq, Zenon DEF TableTypes
<1>2. /\ DOMAIN events' = DOMAIN events /\ rn \in DOMAIN events
      /\ \A r \in DOMAIN events : r # rn => events'[r] = events[r]
      /\ events'[rn] = Append(events[rn], e)
  BY <1>1, Zenon
<1> QED BY <1>1, <1>2, Zenon

LEMMA Appended ==
  ASSUME NEW rows \in Seq(Row), NEW e \in Row
  PROVE  /\ Len(rows) \in Nat /\ DOMAIN rows = 1..Len(rows)
         /\ DOMAIN Append(rows, e) = 1..(Len(rows) + 1)
         /\ Len(Append(rows, e)) = Len(rows) + 1
         /\ \A i \in 1..Len(rows) : Append(rows, e)[i] = rows[i]
         /\ Append(rows, e)[Len(rows) + 1] = e
<1>1. Len(rows) \in Nat /\ DOMAIN rows = 1..Len(rows)
  BY LenProperties, Zenon
<1>2. /\ Append(rows, e) \in Seq(Row) /\ Len(Append(rows, e)) = Len(rows) + 1
      /\ \A i \in 1..Len(rows) : Append(rows, e)[i] = rows[i]
      /\ Append(rows, e)[Len(rows) + 1] = e
  BY AppendProperties, SMT
<1> QED BY <1>1, <1>2, LenProperties, Zenon

LEMMA KeptOrNew ==
  ASSUME TableTypes, NEW rn \in 1..Len(events), NEW e \in Row,
         events' = [events EXCEPT ![rn] = Append(@, e)],
         NEW r \in DOMAIN events', NEW i \in DOMAIN events'[r]
  PROVE  Kept(r, i) \/ events'[r][i] = e
<1> DEFINE rows == events[rn]
<1>1. /\ DOMAIN events' = DOMAIN events /\ rn \in DOMAIN events
      /\ r # rn => events'[r] = events[r]
      /\ rows \in Seq(Row) /\ events'[rn] = Append(rows, e)
  BY RowsGrow, Zenon
<1>2. CASE r # rn
  BY <1>1, <1>2, Zenon DEF Kept
<1>3. CASE r = rn
  <2> HIDE DEF rows
  <2>1. /\ Len(rows) \in Nat /\ DOMAIN rows = 1..Len(rows)
        /\ DOMAIN Append(rows, e) = 1..(Len(rows) + 1)
        /\ \A j \in 1..Len(rows) : Append(rows, e)[j] = rows[j]
        /\ Append(rows, e)[Len(rows) + 1] = e
    BY <1>1, Appended
  <2>2. i \in 1..(Len(rows) + 1)
    BY <1>1, <1>3, <2>1, Zenon
  <2>3. i \in 1..Len(rows) \/ i = Len(rows) + 1
    BY <2>1, <2>2, SMT
  <2>4. CASE i = Len(rows) + 1
    BY <1>1, <1>3, <2>1, <2>4, Zenon
  <2>5. CASE i \in 1..Len(rows)
    <3>1. i \in DOMAIN rows /\ events'[r][i] = rows[i]
      BY <1>1, <1>3, <2>1, <2>5, Zenon
    <3> QED BY <1>1, <1>3, <3>1, Zenon DEF Kept, rows
  <2> QED BY <2>3, <2>4, <2>5, Zenon
<1> QED BY <1>2, <1>3, Zenon

(* A run starts with no rows.                                              *)
LEMMA NewRunIsEmpty ==
  ASSUME Chain, InsertRun, NEW r \in DOMAIN events', NEW i \in DOMAIN events'[r]
  PROVE  r \in DOMAIN events /\ events'[r] = events[r]
<1>1. events' = Append(events, <<>>)
  BY Zenon DEF InsertRun
<1>2. events \in Seq(Seq(Row)) /\ <<>> \in Seq(Row)
  BY EmptySeq, Zenon DEF Chain, TableTypes
<1> DEFINE S == Seq(Row)
           x == <<>>
<1>3. events \in Seq(S) /\ x \in S /\ events' = Append(events, x)
  BY <1>1, <1>2, Zenon
<1>4. DOMAIN x = {}
  BY SMT
<1> HIDE DEF S, x
<1>5. /\ events' \in Seq(S) /\ Len(events') = Len(events) + 1
      /\ \A j \in 1..Len(events) : events'[j] = events[j]
      /\ events'[Len(events) + 1] = x
      /\ Len(events) \in Nat /\ DOMAIN events = 1..Len(events)
  BY <1>3, AppendProperties, LenProperties, SMT
<1>6. DOMAIN events' = 1..(Len(events) + 1)
  BY <1>5, LenProperties, Zenon
<1>7. r \in 1..Len(events) \/ r = Len(events) + 1
  BY <1>5, <1>6, SMT
<1>8. r # Len(events) + 1
  BY <1>4, <1>5, Zenon
<1> QED BY <1>5, <1>7, <1>8, Zenon

(* A row is added by Start, for the genesis event, or by a consumer.       *)
LEMMA NewRow ==
  ASSUME Chain, [LedgerNext]_<<signerVars, ledgerVars>>,
         NEW r \in DOMAIN events', NEW i \in DOMAIN events'[r]
  PROVE  \/ Kept(r, i)
         \/ boot = "storeGenesis" /\ events'[r][i] = pend["loop"]
         \/ \E c \in Consumer : pc[c] = "store" /\ events'[r][i] = pend[c]
<1>0. TableTypes
  BY Zenon DEF Chain
<1>1. ASSUME UNCHANGED events PROVE Kept(r, i)
  BY <1>1, Zenon DEF Kept
<1>2. CASE InsertRun
  BY <1>2, NewRunIsEmpty, Zenon DEF Kept
<1>3. CASE StoreGenesis
  <2>1. boot = "storeGenesis" /\ events' = [events EXCEPT ![Len(runs)] = Append(@, pend["loop"])]
    BY <1>3, Zenon DEF StoreGenesis
  <2>2. Len(runs) \in 1..Len(events) /\ pend["loop"] \in Row
    BY <2>1, LenProperties, SMTT(30)
       DEF Chain, TableTypes, PendTypes, BootPhase, Consumer
  <2>3. Kept(r, i) \/ events'[r][i] = pend["loop"]
    <3> DEFINE e  == pend["loop"]
               rn == Len(runs)
    <3>1. rn \in 1..Len(events) /\ e \in Row /\ events' = [events EXCEPT ![rn] = Append(@, e)]
      BY <2>1, <2>2, Zenon
    <3> HIDE DEF e, rn
    <3>2. Kept(r, i) \/ events'[r][i] = e
      BY <1>0, <3>1, KeptOrNew, Zenon
    <3> QED BY <3>2, Zenon DEF e
  <2> QED BY <2>1, <2>3, Zenon
<1>4. ASSUME NEW c \in Consumer, StoreEvent(c)
      PROVE  Kept(r, i) \/ (pc[c] = "store" /\ events'[r][i] = pend[c])
  <2>1. pc[c] = "store" /\ events' = [events EXCEPT ![runID] = Append(@, pend[c])]
    BY <1>4, Zenon DEF StoreEvent
  <2>2. runID \in 1..Len(events) /\ pend[c] \in Row
    BY <2>1, Busy, Zenon
  <2>3. Kept(r, i) \/ events'[r][i] = pend[c]
    <3> DEFINE e  == pend[c]
               rn == runID
    <3>1. rn \in 1..Len(events) /\ e \in Row /\ events' = [events EXCEPT ![rn] = Append(@, e)]
      BY <2>1, <2>2, Zenon
    <3> HIDE DEF e, rn
    <3>2. Kept(r, i) \/ events'[r][i] = e
      BY <1>0, <3>1, KeptOrNew, Zenon
    <3> QED BY <3>2, Zenon DEF e
  <2> QED BY <2>1, <2>3, Zenon
<1>5. ASSUME NEW c \in Consumer, ConsumerStep(c), ~StoreEvent(c) PROVE UNCHANGED events
  BY <1>5, Zenon
     DEF ConsumerStep, TakeEvent, GetRunStats, GetLastEvent, SignHash, StoreTerminal,
     StoreOther, Fail
<1>6. LoadRun \/ CreateGenesis \/ HandOver \/ Crash \/ SignerStep
        \/ (\E q \in Rekeyer : Rekey(q)) \/ UNCHANGED <<signerVars, ledgerVars>>
        => UNCHANGED events
  BY Zenon DEF LoadRun, CreateGenesis, HandOver, Crash, SignerStep, Rekey
<1> QED BY <1>1, <1>2, <1>3, <1>4, <1>5, <1>6, Zenon DEF LedgerNext, StartStep

-----------------------------------------------------------------------------
\* A hash commits to as many payloads as the index of its row says, whether or
\* not the chain has forked.

Depth(e) == Len(e.prev) = e.seq + 1 /\ Len(e.hash) = e.seq + 2

HashDepth ==
  /\ \A c \in Consumer :
       /\ pc[c] = "sign" => Len(pend[c].prev) = pend[c].seq + 1
       /\ pc[c] = "store" => Depth(pend[c])
  /\ boot \in {"insertRun", "storeGenesis"} => Depth(pend["loop"])
  /\ \A r \in DOMAIN events : \A i \in DOMAIN events[r] : Depth(events[r][i])

(* What the hash of an event adds to the one before it.                    *)
LEMMA HashLength ==
  ASSUME NEW e \in Row, NEW prev \in Hash
  PROVE  Len(prev) \in Nat /\ Len(CalculateEventHash(prev, e)) = Len(prev) + 1
<1>1. prev \in Seq(Digest) /\ Payload(e) \in Digest
  <2>1. Payload(e) \in Digest
    BY SMT DEF Payload, Row, Digest
  <2> QED BY <2>1 DEF Hash, Digest
<1> QED BY <1>1, AppendProperties, LenProperties DEF CalculateEventHash

LEMMA ZeroHashLength == Len(ZeroHash) = 1
BY SMT DEF ZeroHash

(* The assertions of assignSequenceAndPrevHash keep the index in step.     *)
LEMMA GetLastDepth ==
  ASSUME Chain, HashDepth, NEW c \in Consumer, GetLastEvent(c)
  PROVE  pc'[c] = "sign" /\ Len(pend'[c].prev) = pend'[c].seq + 1
<1>1. pc[c] = "last" /\ pc' = [pc EXCEPT ![c] = "sign"]
  BY Zenon DEF GetLastEvent
<1>2. DOMAIN pend = Consumer /\ DOMAIN pc = Consumer
  BY Zenon DEF Chain, PendTypes, MemoryTypes
<1>3. pend[c] \in Row /\ Rows \in Seq(Row) /\ runID \in 1..Len(events)
  BY <1>1, Busy, Zenon
<1>4. PICK last \in LastEvents(Rows) :
        /\ InSequence(pend[c].seq, last)
        /\ pend' = [pend EXCEPT ![c].prev = IF pend[c].seq = 0 THEN ZeroHash ELSE last.hash]
  BY Zenon DEF GetLastEvent
<1> DEFINE n == pend[c].seq
           h == IF n = 0 THEN ZeroHash ELSE last.hash
<1>5. pend'[c] = [pend[c] EXCEPT !.prev = h]
  BY <1>2, <1>4, Zenon
<1>6. pend'[c].prev = h /\ pend'[c].seq = n /\ n \in Nat
  <2> HIDE DEF h
  <2> QED BY <1>3, <1>5, SMT DEF Row
<1>7. ASSUME n # 0 PROVE Len(last.hash) = last.seq + 2 /\ last.seq \in Nat
  <2>1. last.hash # NoHash
    BY <1>4, <1>7, Zenon DEF InSequence
  <2>2. Rows # <<>>
    <3> SUFFICES ASSUME Rows = <<>> PROVE FALSE
      OBVIOUS
    <3>1. last = [seq |-> 0, hash |-> NoHash]
      BY Zenon DEF LastEvents
    <3> QED BY <2>1, <3>1, SMT
  <2>3. PICK i \in DOMAIN Rows : last = [seq |-> Rows[i].seq, hash |-> Rows[i].hash]
    BY <2>2, Zenon DEF LastEvents
  <2>4. Depth(Rows[i])
    <3>1. runID \in DOMAIN events
      BY <1>3, LenProperties, Zenon DEF Chain, TableTypes
    <3> QED BY <3>1, Zenon DEF HashDepth, Rows
  <2>5. Rows[i] \in Row
    BY <1>3, ElementOfSeq, LenProperties, Zenon
  <2>6. last.seq = Rows[i].seq /\ last.hash = Rows[i].hash
    BY <2>3, SMT
  <2> QED BY <2>4, <2>5, <2>6, RowFields, Zenon DEF Depth
<1>8. n # 0 => n = last.seq + 1
  BY <1>4, Zenon DEF InSequence
<1>9. Len(h) = n + 1
  <2>1. CASE n = 0
    BY <2>1, ZeroHashLength, SMT
  <2>2. CASE n # 0
    <3> DEFINE x == Len(last.hash)
               y == last.seq
    <3>1. x = y + 2 /\ y \in Nat /\ n = y + 1
      BY <1>7, <1>8, <2>2, Zenon
    <3> HIDE DEF x, y, n
    <3>2. x = n + 1
      BY <3>1, SMT
    <3>3. h = last.hash
      BY <2>2, Zenon
    <3> QED BY <3>2, <3>3, Zenon DEF x
  <2> QED BY <2>1, <2>2, Zenon
<1> QED BY <1>1, <1>2, <1>6, <1>9, Zenon

LEMMA SignDepth ==
  ASSUME Chain, SignerTypeOK, HashDepth, NEW c \in Consumer, SignHash(c)
  PROVE  pc'[c] = "store" /\ Depth(pend'[c]) /\ pend'[c].key = privateKey
<1>1. pc[c] = "sign" /\ pc' = [pc EXCEPT ![c] = "store"]
  BY Zenon DEF SignHash
<1>2. DOMAIN pend = Consumer /\ DOMAIN pc = Consumer
  BY Zenon DEF Chain, PendTypes, MemoryTypes
<1> DEFINE h == CalculateEventHash(pend[c].prev, pend[c])
           e == Signed(pend[c], h, privateKey)
<1>3. pend'[c] = e
  BY <1>2, Zenon DEF SignHash, Signed
<1>4. pend[c] \in Row /\ pend[c].prev \in Hash /\ pend[c].seq \in Nat
  BY <1>1, Busy, RowFields, Zenon
<1>5. h \in Hash /\ Len(h) = Len(pend[c].prev) + 1 /\ Len(pend[c].prev) \in Nat
  BY <1>4, HashType, HashLength, Zenon
<1>6. privateKey \in Key \cup {NoKey}
  BY Zenon DEF SignerTypeOK
<1> HIDE DEF h
<1>7. e.hash = h /\ e.prev = pend[c].prev /\ e.seq = pend[c].seq
  <2> DEFINE f == pend[c]
  <2>1. f \in Row
    BY <1>4, Zenon
  <2> HIDE DEF f
  <2>2. Signed(f, h, privateKey).hash = h /\ Signed(f, h, privateKey).prev = f.prev
          /\ Signed(f, h, privateKey).seq = f.seq
    BY <1>5, <1>6, <2>1, SetHashKey, SMT
  <2> QED BY <2>2, Zenon DEF f
<1>8. e.key = privateKey
  BY <1>4, SMT DEF Row, Signed
<1>9. Len(pend[c].prev) = pend[c].seq + 1
  BY <1>1, Zenon DEF HashDepth
<1>10. Len(h) = pend[c].seq + 2
  <2> DEFINE x == Len(h)
             y == Len(pend[c].prev)
             z == pend[c].seq
  <2>1. x = y + 1 /\ y \in Nat /\ y = z + 1 /\ z \in Nat
    BY <1>4, <1>5, <1>9, Zenon
  <2> HIDE DEF x, y, z
  <2>2. x = z + 2
    BY <2>1, SMT
  <2> QED BY <2>2, Zenon DEF x, z
<1> HIDE DEF e
<1>11. Depth(e)
  BY <1>7, <1>9, <1>10, Zenon DEF Depth
<1> QED BY <1>1, <1>2, <1>3, <1>8, <1>11, Zenon

(* The genesis event.                                                      *)
LEMMA GenesisMade ==
  ASSUME Chain, SignerTypeOK, CreateGenesis
  PROVE  /\ Depth(pend'["loop"]) /\ pend'["loop"].key = privateKey
         /\ pend'["loop"].type = "genesis"
         /\ boot' = "insertRun" /\ UNCHANGED <<signerVars, pc, tables, rotated>>
<1>1. boot' = "insertRun" /\ UNCHANGED <<signerVars, pc, tables, rotated>>
  BY Zenon DEF CreateGenesis
<1>2. DOMAIN pend = Consumer /\ "loop" \in Consumer
  BY Zenon DEF Chain, PendTypes, Consumer
<1> DEFINE n == [NewEvent("genesis", NoTask, "none") EXCEPT !.prev = ZeroHash]
           h == CalculateEventHash(ZeroHash, n)
<1>3. pend'["loop"] = [n EXCEPT !.hash = h, !.key = privateKey]
  BY <1>2, Zenon DEF CreateGenesis
<1>4. NewEvent("genesis", NoTask, "none") \in Row
  <2>1. "genesis" \in EventType /\ "none" \in TaskState /\ NoTask \in Task \cup {NoTask}
    BY SMT DEF EventType, TaskState
  <2> QED BY <2>1, NewEventType, Zenon
<1>5. n \in Row /\ n.prev = ZeroHash /\ n.seq = 0 /\ n.type = "genesis"
  <2>1. n \in Row
    BY <1>4, ZeroHashType, SetPrev, Zenon
  <2> QED BY <2>1, SMT DEF NewEvent
<1> HIDE DEF n
<1>6. Len(h) = 2
  <2>1. Len(h) = Len(ZeroHash) + 1
    BY <1>5, ZeroHashType, HashLength, Zenon
  <2> HIDE DEF h
  <2> QED BY <2>1, ZeroHashLength, SMT
<1> HIDE DEF h
<1> DEFINE e == pend'["loop"]
<1>7. e.hash = h /\ e.key = privateKey /\ e.prev = n.prev /\ e.seq = n.seq /\ e.type = n.type
  BY <1>3, <1>5, SMT DEF Row
<1> HIDE DEF e
<1>8. Depth(e)
  BY <1>5, <1>6, <1>7, ZeroHashLength, SMT DEF Depth
<1> QED BY <1>1, <1>5, <1>7, <1>8, Zenon DEF e

LEMMA DepthStep ==
  ASSUME Chain, SignerTypeOK, HashDepth, [LedgerNext]_<<signerVars, ledgerVars>>
  PROVE  HashDepth'
<1>1. \A r \in DOMAIN events' : \A i \in DOMAIN events'[r] : Depth(events'[r][i])
  <2> SUFFICES ASSUME NEW r \in DOMAIN events', NEW i \in DOMAIN events'[r]
               PROVE  Depth(events'[r][i])
    OBVIOUS
  <2>1. CASE Kept(r, i)
    BY <2>1, Zenon DEF Kept, HashDepth
  <2>2. CASE boot = "storeGenesis" /\ events'[r][i] = pend["loop"]
    BY <2>2, Zenon DEF HashDepth
  <2>3. ASSUME NEW c \in Consumer, pc[c] = "store", events'[r][i] = pend[c]
        PROVE  Depth(events'[r][i])
    BY <2>3, Zenon DEF HashDepth
  <2> QED BY <2>1, <2>2, <2>3, NewRow, Zenon
<1>2. ASSUME NEW c \in Consumer, ConsumerStep(c) PROVE HashDepth'
  <2>1. DOMAIN pc = Consumer
    BY Zenon DEF Chain, MemoryTypes
  <2>2. /\ boot = "on" /\ boot' = "on"
        /\ \A d \in Consumer : d # c => pc'[d] = pc[d] /\ pend'[d] = pend[d]
    BY <1>2, ConsumerFrame, Zenon
  <2>3. GetLastEvent(c) => pc'[c] = "sign" /\ Len(pend'[c].prev) = pend'[c].seq + 1
    BY GetLastDepth, Zenon
  <2>4. SignHash(c) => pc'[c] = "store" /\ Depth(pend'[c])
    BY SignDepth, Zenon
  <2>5. TakeEvent(c) \/ GetRunStats(c) \/ StoreTerminal(c) \/ StoreOther(c) \/ Fail(c)
          => pc'[c] \notin {"sign", "store"}
    BY <2>1, Zenon DEF TakeEvent, GetRunStats, StoreTerminal, StoreOther, Fail
  <2>6. /\ pc'[c] = "sign" => Len(pend'[c].prev) = pend'[c].seq + 1
        /\ pc'[c] = "store" => Depth(pend'[c])
    BY <1>2, <2>3, <2>4, <2>5, Zenon DEF ConsumerStep
  <2> QED BY <1>1, <2>2, <2>6, Zenon DEF HashDepth
<1>3. CASE CreateGenesis
  <2>1. \A c \in Consumer : pc'[c] = "idle"
    BY <1>3, Zenon DEF CreateGenesis, Chain, BootPhase
  <2> QED BY <1>1, <1>3, <2>1, GenesisMade, Zenon DEF HashDepth
<1>4. CASE InsertRun
  <2>1. boot = "insertRun" /\ UNCHANGED consumers
    BY <1>4, Zenon DEF InsertRun
  <2> QED BY <1>1, <2>1, Zenon DEF HashDepth
<1>5. CASE StoreGenesis \/ Crash \/ LoadRun
  <2>1. boot' \in {"off", "on"} /\ \A c \in Consumer : pc'[c] = "idle"
    BY <1>5, Zenon DEF StoreGenesis, Crash, LoadRun, Chain, BootPhase
  <2> QED BY <1>1, <2>1, Zenon DEF HashDepth
<1>6. CASE HandOver \/ SignerStep \/ (\E r \in Rekeyer : Rekey(r))
             \/ UNCHANGED <<signerVars, ledgerVars>>
  <2>1. UNCHANGED <<consumers, boot>>
    BY <1>6, Zenon DEF HandOver, SignerStep, Rekey
  <2> QED BY <1>1, <2>1, Zenon DEF HashDepth
<1> QED BY <1>2, <1>3, <1>4, <1>5, <1>6, Zenon DEF LedgerNext, StartStep

(* Every row, of any chain, has a hash of the length its index says.       *)
LEMMA RowsHaveTheirDepth == LedgerSpec => []HashDepth
<1>1. LedgerInit => HashDepth
  <2> SUFFICES ASSUME LedgerInit PROVE HashDepth
    OBVIOUS
  <2>1. boot = "off" /\ events = <<>> /\ pc = [c \in Consumer |-> "idle"]
    BY Zenon DEF LedgerInit
  <2>2. DOMAIN events = {}
    BY <2>1, SMT
  <2> QED BY <2>1, <2>2, Zenon DEF HashDepth
<1>2. LedgerInv => Chain /\ SignerTypeOK
  BY LedgerTypesSplit, Zenon DEF LedgerInv, Chain
<1>3. HashDepth /\ LedgerInv /\ [LedgerNext]_<<signerVars, ledgerVars>> => HashDepth'
  BY <1>2, DepthStep, Zenon
<1> QED BY <1>1, <1>3, LedgerInvariant, PTL DEF LedgerSpec

-----------------------------------------------------------------------------
\* As long as no rotation began and no command writes the key file, one key
\* signs everything, and it is the one in the key file.

OneKey ==
  ~rotated =>
    /\ cli = "idle" /\ \A r \in Rekeyer : rot[r] = "idle"
    /\ boot # "off" => server = "up"
    /\ server = "up" => keyFile = privateKey /\ keyFile \in Key
    /\ \A c \in Consumer : pc[c] = "store" => pend[c].key = keyFile
    /\ boot \in {"insertRun", "storeGenesis"} => pend["loop"].key = keyFile
    /\ \A r \in DOMAIN events : \A i \in DOMAIN events[r] :
         events[r][i].key = keyFile /\ keyFile \in Key /\ server \in {"down", "up"}

(* A step that leaves the server and the key file alone.                   *)
LEMMA KeyKept ==
  ASSUME Chain, OneKey, ~rotated, [LedgerNext]_<<signerVars, ledgerVars>>,
         UNCHANGED <<keyFile, server>>
  PROVE  \A r \in DOMAIN events' : \A i \in DOMAIN events'[r] :
           events'[r][i].key = keyFile' /\ keyFile' \in Key /\ server' \in {"down", "up"}
<1> SUFFICES ASSUME NEW r \in DOMAIN events', NEW i \in DOMAIN events'[r]
             PROVE  events'[r][i].key = keyFile /\ keyFile \in Key /\ server \in {"down", "up"}
  BY Zenon
<1>1. CASE Kept(r, i)
  BY <1>1, Zenon DEF Kept, OneKey
<1>2. CASE boot = "storeGenesis" /\ events'[r][i] = pend["loop"]
  <2>1. server = "up"
    BY <1>2, Zenon DEF OneKey
  <2> QED BY <1>2, <2>1, Zenon DEF OneKey
<1>3. ASSUME NEW c \in Consumer, pc[c] = "store", events'[r][i] = pend[c]
      PROVE  events'[r][i].key = keyFile /\ keyFile \in Key /\ server \in {"down", "up"}
  <2>1. boot = "on"
    BY <1>3, Busy, Zenon
  <2>2. server = "up"
    BY <2>1, Zenon DEF OneKey
  <2> QED BY <1>3, <2>2, Zenon DEF OneKey
<1> QED BY <1>1, <1>2, <1>3, NewRow, Zenon

LEMMA OneKeyStep ==
  ASSUME Command \subseteq {"backup-key"}, Chain, SignerInv, HashDepth, OneKey, LedgerFlags,
         [LedgerNext]_<<signerVars, ledgerVars>>
  PROVE  OneKey'
<1>1. ASSUME rotated' PROVE OneKey'
  BY <1>1, Zenon DEF OneKey
<1>2. ASSUME UNCHANGED <<signerVars, ledgerVars>> PROVE OneKey'
  BY <1>2, Zenon DEF OneKey
<1> SUFFICES ASSUME ~rotated', LedgerNext PROVE OneKey'
  BY <1>1, <1>2, Zenon
<1>3. ~rotated
  <2>1. StartStep \/ HandOver \/ Crash \/ SignerStep => rotated' = rotated
    BY Zenon DEF StartStep, LoadRun, CreateGenesis, InsertRun, StoreGenesis, HandOver, Crash,
       SignerStep
  <2>2. \A r \in Rekeyer : ~Rekey(r)
    BY Zenon DEF Rekey
  <2>3. \A c \in Consumer : ConsumerStep(c) => rotated' = rotated
    BY ConsumerFrame, Zenon
  <2> QED BY <2>1, <2>2, <2>3, Zenon DEF LedgerNext
<1>4. SignerTypeOK
  BY Zenon DEF SignerInv
<1>5. boot # "on" => \A c \in Consumer : pc[c] = "idle"
  BY Zenon DEF Chain, BootPhase
<1>6. CASE LoadRun \/ InsertRun \/ StoreGenesis
  <2>1. /\ server = "up" /\ boot # "on" /\ boot' # "off" /\ UNCHANGED <<signerVars, pc>>
        /\ boot' \in {"insertRun", "storeGenesis"} => boot = "insertRun" /\ UNCHANGED pend
    <3>1. CASE LoadRun
      BY <3>1, Zenon DEF LoadRun
    <3>2. CASE InsertRun
      BY <1>3, <3>2, Zenon DEF InsertRun, OneKey
    <3>3. CASE StoreGenesis
      BY <1>3, <3>3, Zenon DEF StoreGenesis, OneKey
    <3> QED BY <1>6, <3>1, <3>2, <3>3, Zenon
  <2>2. \A c \in Consumer : pc'[c] # "store"
    BY <1>5, <2>1, Zenon
  <2> QED BY <1>3, <2>1, <2>2, KeyKept, Zenon DEF OneKey
<1>7. CASE CreateGenesis
  <2>1. server = "up" /\ \A c \in Consumer : pc'[c] # "store"
    BY <1>5, <1>7, Zenon DEF CreateGenesis
  <2>2. pend'["loop"].key = privateKey /\ boot' = "insertRun" /\ UNCHANGED signerVars
    BY <1>4, <1>7, GenesisMade, Zenon
  <2> QED BY <1>3, <2>1, <2>2, KeyKept, Zenon DEF OneKey
<1>8. CASE HandOver
  <2>1. UNCHANGED <<signerVars, consumers, boot>>
    BY <1>8, Zenon DEF HandOver
  <2> QED BY <1>3, <2>1, KeyKept, Zenon DEF OneKey
<1>9. CASE Crash
  <2>1. /\ server' = "down" /\ UNCHANGED <<keyFile, cli, tables>> /\ boot' = "off"
        /\ \A r \in Rekeyer : rot'[r] = "idle"
        /\ \A c \in Consumer : pc'[c] = "idle"
    BY <1>9, Zenon DEF Crash, ServerEnds
  <2> QED BY <1>3, <2>1, Zenon DEF OneKey
<1>10. ASSUME NEW c \in Consumer, ConsumerStep(c) PROVE OneKey'
  <2>1. /\ boot = "on" /\ UNCHANGED <<signerVars, boot>>
        /\ \A d \in Consumer : d # c => pc'[d] = pc[d] /\ pend'[d] = pend[d]
    BY <1>10, ConsumerFrame, Zenon
  <2>2. DOMAIN pc = Consumer
    BY Zenon DEF Chain, MemoryTypes
  <2>3. pc'[c] = "store" => pend'[c].key = privateKey
    <3>1. SignHash(c) => pend'[c].key = privateKey
      BY <1>4, SignDepth, Zenon
    <3>2. TakeEvent(c) \/ GetRunStats(c) \/ GetLastEvent(c) \/ StoreTerminal(c)
            \/ StoreOther(c) \/ Fail(c) => pc'[c] # "store"
      BY <2>2, Zenon DEF TakeEvent, GetRunStats, GetLastEvent, StoreTerminal, StoreOther, Fail
    <3> QED BY <1>10, <3>1, <3>2, Zenon DEF ConsumerStep
  <2>4. server = "up" /\ privateKey = keyFile
    BY <1>3, <2>1, Zenon DEF OneKey
  <2>5. \A d \in Consumer : pc'[d] = "store" => pend'[d].key = keyFile'
    BY <1>3, <2>1, <2>3, <2>4, Zenon DEF OneKey
  <2> QED BY <1>3, <2>1, <2>5, KeyKept, Zenon DEF OneKey
<1>11. CASE SignerStep
  <2>1. UNCHANGED <<tables, consumers, boot, rotated>>
    BY <1>11, Zenon DEF SignerStep
  <2>2. \A r \in Rekeyer : ~RotateStep(r)
    BY <1>3, Zenon
       DEF OneKey, RotateStep, RotateWrite, RotateFails, RotatePrivate, RotatePublic
  <2>3. CASE CliStep
    <3>1. cli = "idle" /\ "verify" \notin Command /\ "restore-key" \notin Command
      BY <1>3, Zenon DEF OneKey
    <3>2. BackupKey
      BY <2>3, <3>1, Zenon
         DEF CliStep, VerifyLoad, VerifyTruncate, VerifyWrite, CommandEnds,
         RestoreRename, RestoreTruncate, RestoreWrite
    <3>3. UNCHANGED <<keyFile, server, privateKey, cli, rot>>
      BY <3>2, Zenon DEF BackupKey
    <3> QED BY <1>3, <2>1, <3>3, Zenon DEF OneKey
  <2>4. CASE LoadKey
    <3>1. boot = "off"
      BY <1>3, <2>4, Zenon DEF OneKey, LoadKey
    <3>2. \A c \in Consumer : pc[c] = "idle"
      BY <1>5, <3>1, Zenon
    <3>3. /\ UNCHANGED <<keyFile, cli, rot>>
          /\ \/ server' = "up" /\ keyFile \in Key /\ privateKey' = keyFile
             \/ server' = "new" /\ keyFile \notin Key
      BY <2>4, Zenon DEF LoadKey
    <3> QED BY <1>3, <2>1, <3>1, <3>2, <3>3, Zenon DEF OneKey
  <2>5. CASE TruncateKey \/ WriteNewKey
    <3>1. server \in {"new", "write"} /\ server # "up" /\ server # "down"
      BY <2>5, Zenon DEF TruncateKey, WriteNewKey
    <3>2. boot = "off"
      BY <1>3, <3>1, Zenon DEF OneKey
    <3>3. \A c \in Consumer : pc[c] = "idle"
      BY <1>5, <3>2, Zenon
    <3>4. serverKey \in Key
      BY <3>1, Zenon DEF SignerInv, SignerPhase
    <3>5. /\ UNCHANGED <<cli, rot>>
          /\ server' = "up" => keyFile' = serverKey /\ privateKey' = serverKey
      BY <2>5, Zenon DEF TruncateKey, WriteNewKey
    <3>6. \A r \in DOMAIN events : DOMAIN events[r] = {}
      BY <1>3, <3>1, Zenon DEF OneKey
    <3> QED BY <1>3, <2>1, <3>2, <3>3, <3>4, <3>5, <3>6, Zenon DEF OneKey
  <2> QED BY <1>11, <2>2, <2>3, <2>4, <2>5, Zenon DEF SignerStep
<1>12. \A r \in Rekeyer : ~Rekey(r)
  BY Zenon DEF Rekey
<1> QED BY <1>6, <1>7, <1>8, <1>9, <1>10, <1>11, <1>12, Zenon DEF LedgerNext, StartStep

LEMMA OneKeyInvariant ==
  ASSUME Command \subseteq {"backup-key"}
  PROVE  LedgerSpec => []OneKey
<1>1. LedgerInit => OneKey
  <2> SUFFICES ASSUME LedgerInit PROVE OneKey
    OBVIOUS
  <2>1. /\ boot = "off" /\ events = <<>> /\ pc = [c \in Consumer |-> "idle"]
        /\ cli = "idle" /\ rot = [r \in Rekeyer |-> "idle"] /\ server = "down"
    BY Zenon DEF LedgerInit, SignerInit
  <2>2. DOMAIN events = {}
    BY <2>1, SMT
  <2> QED BY <2>1, <2>2, Zenon DEF OneKey
<1>2. LedgerInv => Chain /\ LedgerFlags
  BY LedgerTypesSplit, Zenon DEF LedgerInv, Chain
<1>3. OneKey /\ HashDepth /\ LedgerInv /\ SignerInv /\ [LedgerNext]_<<signerVars, ledgerVars>>
        => OneKey'
  BY <1>2, OneKeyStep, Zenon
<1> QED BY <1>1, <1>3, LedgerInvariant, LedgerUsesSigner, SignerInvariant, RowsHaveTheirDepth,
           PTL DEF LedgerSpec

-----------------------------------------------------------------------------
\* Completion events.

Is(e, type, state, t) == e.type = type /\ e.state = state /\ e.task = t

\* Task t was seen working, and no completion event of it came after that.
Active(rows, t) ==
  \E j \in DOMAIN rows :
    /\ Is(rows[j], "tool", "working", t)
    /\ \A k \in DOMAIN rows : j <= k => ~Is(rows[k], "task_terminal", "completed", t)

\* What CompletionIsJustified asks of the completion event in row i.
Justified(rows, i) ==
  /\ i > 1 /\ Is(rows[i - 1], "tool", "completed", rows[i].task)
  /\ \E j \in 1..(i - 2) :
       /\ Is(rows[j], "tool", "working", rows[i].task)
       /\ \A k \in j..(i - 1) : ~Is(rows[k], "task_terminal", "completed", rows[i].task)

AllJustified ==
  \A r \in DOMAIN events : \A i \in DOMAIN events[r] :
    events[r][i].type = "task_terminal" => Justified(events[r], i)

\* A completion event in hand follows the terminal event of an active task.
Completing(c) ==
  pc[c] # "idle" /\ pend[c].type = "task_terminal" =>
    /\ pend[c].task \in taskStates
    /\ Rows # <<>> /\ Is(Rows[Len(Rows)], "tool", "completed", pend[c].task)

TaskInv ==
  /\ boot # "on" => taskStates = {}
  /\ boot \in {"insertRun", "storeGenesis"} => pend["loop"].type # "task_terminal"
  /\ ~twoConsumers =>
       /\ \A t \in taskStates : Active(Rows, t)
       /\ \A c \in Consumer : Completing(c)
       /\ AllJustified

LEMMA JustifiedKept ==
  ASSUME NEW rows \in Seq(Row), NEW e \in Row, NEW i \in DOMAIN rows, Justified(rows, i)
  PROVE  Justified(Append(rows, e), i)
<1> DEFINE new == Append(rows, e)
<1>1. /\ Len(rows) \in Nat /\ i \in 1..Len(rows)
      /\ \A k \in 1..Len(rows) : new[k] = rows[k]
  BY Appended, Zenon
<1> HIDE DEF new
<1>2. i > 1 /\ Is(rows[i - 1], "tool", "completed", rows[i].task)
  BY Zenon DEF Justified
<1>3. PICK j \in 1..(i - 2) :
        /\ Is(rows[j], "tool", "working", rows[i].task)
        /\ \A k \in j..(i - 1) : ~Is(rows[k], "task_terminal", "completed", rows[i].task)
  BY Zenon DEF Justified
<1>4. i - 1 \in 1..Len(rows) /\ j \in 1..Len(rows) /\ \A k \in j..(i - 1) : k \in 1..Len(rows)
  BY <1>1, <1>2, SMT
<1>5. new[i] = rows[i] /\ new[i - 1] = rows[i - 1] /\ new[j] = rows[j]
        /\ \A k \in j..(i - 1) : new[k] = rows[k]
  BY <1>1, <1>4, Zenon
<1> QED BY <1>2, <1>3, <1>5, Zenon DEF Justified, new

LEMMA JustifiedNew ==
  ASSUME NEW rows \in Seq(Row), NEW e \in Row, rows # <<>>, Active(rows, e.task),
         Is(rows[Len(rows)], "tool", "completed", e.task)
  PROVE  Justified(Append(rows, e), Len(rows) + 1)
<1> DEFINE new == Append(rows, e)
           n   == Len(rows)
<1>1. /\ n \in Nat /\ DOMAIN rows = 1..n
      /\ \A k \in 1..n : new[k] = rows[k]
      /\ new[n + 1] = e
  BY Appended, Zenon
<1>2. n # 0
  BY EmptySeq, Zenon
<1> HIDE DEF new
<1>3. PICK j \in DOMAIN rows :
        /\ Is(rows[j], "tool", "working", e.task)
        /\ \A k \in DOMAIN rows : j <= k => ~Is(rows[k], "task_terminal", "completed", e.task)
  BY Zenon DEF Active
<1>4. j # n
  <2>1. "working" # "completed"
    OBVIOUS
  <2> QED BY <1>3, <2>1, Zenon DEF Is
<1> HIDE DEF n
<1>5. /\ n + 1 > 1 /\ (n + 1) - 1 = n /\ n \in 1..n /\ j \in 1..((n + 1) - 2)
      /\ \A k \in j..((n + 1) - 1) : k \in 1..n /\ j <= k
  BY <1>1, <1>2, <1>4, SMT
<1>6. new[(n + 1) - 1] = rows[n] /\ new[j] = rows[j]
        /\ \A k \in j..((n + 1) - 1) : new[k] = rows[k]
  BY <1>1, <1>5, Zenon
<1>7. \A k \in j..((n + 1) - 1) : ~Is(new[k], "task_terminal", "completed", e.task)
  BY <1>1, <1>3, <1>5, <1>6, Zenon
<1>8. Is(new[(n + 1) - 1], "tool", "completed", e.task) /\ Is(new[j], "tool", "working", e.task)
  BY <1>3, <1>6, Zenon DEF n
<1> QED BY <1>1, <1>5, <1>7, <1>8, Zenon DEF Justified, new, n

LEMMA ActiveKept ==
  ASSUME NEW rows \in Seq(Row), NEW e \in Row, NEW t, Active(rows, t),
         ~(e.type = "task_terminal" /\ e.task = t)
  PROVE  Active(Append(rows, e), t)
<1> DEFINE new == Append(rows, e)
           n   == Len(rows)
<1>1. /\ n \in Nat /\ DOMAIN rows = 1..n /\ DOMAIN new = 1..(n + 1)
      /\ \A k \in 1..n : new[k] = rows[k]
      /\ new[n + 1] = e
  BY Appended, Zenon
<1> HIDE DEF new, n
<1>2. PICK j \in DOMAIN rows :
        /\ Is(rows[j], "tool", "working", t)
        /\ \A k \in DOMAIN rows : j <= k => ~Is(rows[k], "task_terminal", "completed", t)
  BY Zenon DEF Active
<1>3. j \in DOMAIN new /\ new[j] = rows[j]
  BY <1>1, SMT
<1>4. ASSUME NEW k \in DOMAIN new, j <= k
      PROVE  ~Is(new[k], "task_terminal", "completed", t)
  <2>1. k \in 1..n \/ k = n + 1
    BY <1>1, SMT
  <2>2. CASE k \in 1..n
    BY <1>1, <1>2, <1>4, <2>2, Zenon
  <2>3. CASE k = n + 1
    BY <1>1, <2>3, Zenon DEF Is
  <2> QED BY <2>1, <2>2, <2>3, Zenon
<1> QED BY <1>2, <1>3, <1>4, Zenon DEF Active, new

LEMMA ActiveNew ==
  ASSUME NEW rows \in Seq(Row), NEW e \in Row, NEW t, Is(e, "tool", "working", t)
  PROVE  Active(Append(rows, e), t)
<1> DEFINE new == Append(rows, e)
           n   == Len(rows)
<1>1. n \in Nat /\ DOMAIN new = 1..(n + 1) /\ new[n + 1] = e
  BY Appended, Zenon
<1> HIDE DEF new, n
<1>2. n + 1 \in DOMAIN new /\ \A k \in DOMAIN new : n + 1 <= k => k = n + 1
  BY <1>1, SMT
<1>3. ~Is(e, "task_terminal", "completed", t)
  BY Zenon DEF Is
<1> QED BY <1>1, <1>2, <1>3, Zenon DEF Active, new

LEMMA JustifiedAppend ==
  ASSUME TableTypes, AllJustified, NEW rn \in 1..Len(events), NEW e \in Row,
         events' = [events EXCEPT ![rn] = Append(@, e)],
         e.type = "task_terminal" =>
           /\ events[rn] # <<>> /\ Active(events[rn], e.task)
           /\ Is(events[rn][Len(events[rn])], "tool", "completed", e.task)
  PROVE  AllJustified'
<1> DEFINE rows == events[rn]
           new  == events'[rn]
<1>1. /\ DOMAIN events' = DOMAIN events /\ rn \in DOMAIN events
      /\ \A r \in DOMAIN events : r # rn => events'[r] = events[r]
      /\ rows \in Seq(Row) /\ new = Append(rows, e)
  BY RowsGrow, Zenon
<1>2. \A i \in DOMAIN rows : rows[i].type = "task_terminal" => Justified(rows, i)
  BY <1>1, Zenon DEF AllJustified
<1>3. e.type = "task_terminal" => Justified(Append(rows, e), Len(rows) + 1)
  BY <1>1, JustifiedNew, Zenon
<1> HIDE DEF rows, new
<1>4. /\ Len(rows) \in Nat /\ DOMAIN rows = 1..Len(rows)
      /\ DOMAIN new = 1..(Len(rows) + 1)
      /\ \A i \in 1..Len(rows) : new[i] = rows[i]
      /\ new[Len(rows) + 1] = e
  BY <1>1, Appended
<1>5. ASSUME NEW i \in DOMAIN new, new[i].type = "task_terminal" PROVE Justified(new, i)
  <2>1. i \in 1..Len(rows) \/ i = Len(rows) + 1
    BY <1>4, SMT
  <2>2. CASE i \in 1..Len(rows)
    BY <1>1, <1>2, <1>4, <1>5, <2>2, JustifiedKept, Zenon
  <2>3. CASE i = Len(rows) + 1
    BY <1>1, <1>3, <1>4, <1>5, <2>3, Zenon
  <2> QED BY <2>1, <2>2, <2>3, Zenon
<1> SUFFICES ASSUME NEW r \in DOMAIN events', NEW i \in DOMAIN events'[r],
                    events'[r][i].type = "task_terminal"
             PROVE  Justified(events'[r], i)
  BY Zenon DEF AllJustified
<1>6. CASE r # rn
  BY <1>1, <1>6, Zenon DEF AllJustified
<1>7. CASE r = rn
  BY <1>5, <1>7, Zenon DEF new
<1> QED BY <1>6, <1>7, Zenon

(* Up to the insert, persistEvent leaves the type and the task alone.      *)
LEMMA SameTask ==
  ASSUME Chain, NEW c \in Consumer, GetRunStats(c) \/ GetLastEvent(c) \/ SignHash(c)
  PROVE  /\ pend'[c].type = pend[c].type /\ pend'[c].task = pend[c].task
         /\ pc[c] # "idle" /\ UNCHANGED <<tables, memory>>
<1>1. pc[c] # "idle" /\ UNCHANGED <<tables, memory>>
  BY Zenon DEF GetRunStats, GetLastEvent, SignHash
<1>2. DOMAIN pend = Consumer /\ pend[c] \in Row
  BY <1>1, Busy, Zenon DEF Chain, PendTypes
<1>3. CASE GetRunStats(c)
  <2>1. PICK n : pend' = [pend EXCEPT ![c].seq = n]
    BY <1>3, Zenon DEF GetRunStats
  <2>2. pend'[c] = [pend[c] EXCEPT !.seq = n]
    BY <1>2, <2>1, Zenon
  <2> QED BY <1>1, <1>2, <2>2, SMT DEF Row
<1>4. CASE GetLastEvent(c)
  <2>1. PICK h : pend' = [pend EXCEPT ![c].prev = h]
    BY <1>4, Zenon DEF GetLastEvent
  <2>2. pend'[c] = [pend[c] EXCEPT !.prev = h]
    BY <1>2, <2>1, Zenon
  <2> QED BY <1>1, <1>2, <2>2, SMT DEF Row
<1>5. CASE SignHash(c)
  <2>1. PICK h, k : pend' = [pend EXCEPT ![c].hash = h, ![c].key = k]
    BY <1>5, Zenon DEF SignHash
  <2>2. pend'[c] = [pend[c] EXCEPT !.hash = h, !.key = k]
    BY <1>2, <2>1, Zenon
  <2> QED BY <1>1, <1>2, <2>2, SMT DEF Row
<1> QED BY <1>3, <1>4, <1>5, Zenon

LEMMA OneBusy ==
  ASSUME Chain, ~twoConsumers, NEW c \in Consumer, pc[c] # "idle", NEW d \in Consumer, d # c
  PROVE  pc[d] = "idle"
<1>1. phase \in {"run", "clean"} /\ (phase = "run" => pc["drain"] = "idle")
        /\ (phase = "clean" => pc["loop"] = "idle")
  BY Zenon DEF Chain, MemoryTypes, OneProcessor
<1> QED BY <1>1, Zenon DEF Consumer

(* The insert of an event, and what trackTaskState makes of it.            *)
LEMMA StoreTask ==
  ASSUME Chain, TaskInv, ~twoConsumers, NEW c \in Consumer, StoreTerminal(c) \/ StoreOther(c)
  PROVE  /\ \A t \in taskStates' : Active(Rows', t)
         /\ \A d \in Consumer : Completing(d)'
         /\ AllJustified'
<1> DEFINE e    == pend[c]
           rows == events[runID]
<1>1. /\ pc[c] = "store" /\ events' = [events EXCEPT ![runID] = Append(@, e)]
      /\ runID' = runID
  BY Zenon DEF StoreTerminal, StoreOther, StoreEvent
<1>2. /\ e \in Row /\ runID \in 1..Len(events) /\ rows \in Seq(Row) /\ TableTypes
      /\ DOMAIN pend = Consumer /\ DOMAIN pc = Consumer
  BY <1>1, Busy, Zenon DEF Rows, Chain, PendTypes, MemoryTypes
<1>3. Rows = rows /\ Rows' = Append(rows, e)
  BY <1>1, <1>2, RowsGrow, Zenon DEF Rows
<1>4. /\ \A t \in taskStates : Active(rows, t)
      /\ e.type = "task_terminal" =>
           /\ e.task \in taskStates
           /\ rows # <<>> /\ Is(rows[Len(rows)], "tool", "completed", e.task)
      /\ AllJustified
  BY <1>1, <1>3, Zenon DEF TaskInv, Completing
<1> HIDE DEF e, rows
<1>5. AllJustified'
  BY <1>1, <1>2, <1>4, JustifiedAppend, Zenon DEF rows
<1>6. \A d \in Consumer : d # c => pc[d] = "idle" /\ pc'[d] = pc[d]
  <2>1. PICK q : pc' = [pc EXCEPT ![c] = q]
    BY Zenon DEF StoreTerminal, StoreOther
  <2> QED BY <1>1, <1>2, <2>1, OneBusy, Zenon
<1>7. CASE StoreTerminal(c)
  <2>1. Completes(e) /\ taskStates' = taskStates
    BY <1>7, Zenon DEF StoreTerminal, e
  <2>2. e.type = "tool" /\ e.state = "completed" /\ e.task \in taskStates
    BY <2>1, Zenon DEF Completes, HasTask
  <2>3. \A t \in taskStates' : Active(Rows', t)
    BY <1>2, <1>3, <1>4, <2>1, <2>2, ActiveKept, Zenon
  <2>4. pend'[c].task = e.task
    <3> DEFINE n == NewEvent("task_terminal", e.task, "completed")
    <3>1. pend'[c] = [n EXCEPT !.id = e.id]
      BY <1>2, <1>7, Zenon DEF StoreTerminal, e
    <3> QED BY <3>1, SMT DEF NewEvent
  <2>5. Rows' # <<>> /\ Is(Rows'[Len(Rows')], "tool", "completed", e.task)
    <3> DEFINE new == Append(rows, e)
    <3>1. new # <<>> /\ new[Len(new)] = e
      BY <1>2, AppendProperties, SMT
    <3> QED BY <1>3, <2>2, <3>1, Zenon DEF Is
  <2>6. Completing(c)'
    BY <2>1, <2>2, <2>4, <2>5, Zenon DEF Completing
  <2>7. \A d \in Consumer : d # c => Completing(d)'
    BY <1>6, Zenon DEF Completing
  <2> QED BY <1>5, <2>3, <2>6, <2>7, Zenon
<1>8. CASE StoreOther(c)
  <2>1. taskStates' = Tracked(e) /\ pc' = [pc EXCEPT ![c] = "idle"]
    BY <1>8, Zenon DEF StoreOther, e
  <2>2. \A d \in Consumer : Completing(d)'
    BY <1>2, <1>6, <2>1, Zenon DEF Completing
  <2>3. ASSUME NEW t \in taskStates' PROVE Active(Append(rows, e), t)
    <3>1. CASE HasTask(e) /\ e.state = "working"
      <4>1. taskStates' = taskStates \cup {e.task}
        BY <2>1, <3>1, SMT DEF Tracked, HasTask
      <4>2. CASE t = e.task
        BY <1>2, <3>1, <4>2, ActiveNew, Zenon DEF HasTask, Is
      <4>3. CASE t # e.task
        BY <1>2, <1>4, <4>1, <4>3, <2>3, ActiveKept, Zenon
      <4> QED BY <4>2, <4>3, Zenon
    <3>2. CASE e.type = "task_terminal"
      <4>1. taskStates' = taskStates \ {e.task}
        BY <2>1, <3>2, SMT DEF Tracked, HasTask
      <4> QED BY <1>2, <1>4, <4>1, <2>3, ActiveKept, Zenon
    <3>3. CASE ~(HasTask(e) /\ e.state = "working") /\ e.type # "task_terminal"
      <4>1. taskStates' = taskStates
        BY <2>1, <3>3, Zenon DEF Tracked
      <4> QED BY <1>2, <1>4, <3>3, <4>1, <2>3, ActiveKept, Zenon
    <3> QED BY <3>1, <3>2, <3>3, Zenon
  <2> QED BY <1>3, <1>5, <2>2, <2>3, Zenon
<1> QED BY <1>7, <1>8, Zenon

LEMMA TaskStep ==
  ASSUME Chain, LedgerFlags, SignerTypeOK, TaskInv, [LedgerNext]_<<signerVars, ledgerVars>>
  PROVE  TaskInv'
<1>0. /\ DOMAIN pend = Consumer /\ DOMAIN pc = Consumer /\ TableTypes
      /\ boot # "on" => \A c \in Consumer : pc[c] = "idle"
  BY Zenon DEF Chain, PendTypes, MemoryTypes, BootPhase
<1>1. ASSUME NEW c \in Consumer, ConsumerStep(c) PROVE TaskInv'
  <2>1. /\ boot = "on" /\ UNCHANGED <<boot, runID, twoConsumers>>
        /\ \A d \in Consumer : d # c => pc'[d] = pc[d] /\ pend'[d] = pend[d]
    BY <1>1, ConsumerFrame, Zenon
  <2>2. boot' = "on" /\ boot' \notin {"insertRun", "storeGenesis"}
    BY <2>1, Zenon
  <2> SUFFICES ASSUME ~twoConsumers
               PROVE  /\ \A t \in taskStates' : Active(Rows', t)
                      /\ \A d \in Consumer : Completing(d)'
                      /\ AllJustified'
    BY <2>1, <2>2, Zenon DEF TaskInv
  <2>3. CASE StoreTerminal(c) \/ StoreOther(c)
    BY <2>3, StoreTask, Zenon
  <2>4. CASE ~(StoreTerminal(c) \/ StoreOther(c))
    <3>1. UNCHANGED <<events, taskStates>> /\ UNCHANGED Rows
      <4>1. UNCHANGED <<events, taskStates>>
        BY <1>1, <2>4, Zenon
           DEF ConsumerStep, TakeEvent, GetRunStats, GetLastEvent, SignHash, Fail
      <4> QED BY <2>1, <4>1, Zenon DEF Rows
    <3>2. Completing(c)'
      <4>1. CASE TakeEvent(c)
        <5>1. pend'[c].type # "task_terminal"
          BY <1>0, <4>1, SMT DEF TakeEvent, NewEvent
        <5> QED BY <5>1, Zenon DEF Completing
      <4>2. CASE Fail(c)
        BY <1>0, <4>2, Zenon DEF Fail, Completing
      <4>3. CASE GetRunStats(c) \/ GetLastEvent(c) \/ SignHash(c)
        BY <3>1, <4>3, SameTask, Zenon DEF Completing, TaskInv
      <4> QED BY <1>1, <2>4, <4>1, <4>2, <4>3, Zenon DEF ConsumerStep
    <3>3. \A d \in Consumer : d # c => Completing(d)'
      BY <2>1, <3>1, Zenon DEF Completing, TaskInv
    <3>4. AllJustified' /\ \A t \in taskStates' : Active(Rows', t)
      BY <3>1, Zenon DEF TaskInv, AllJustified
    <3> QED BY <3>2, <3>3, <3>4, Zenon
  <2> QED BY <2>3, <2>4, Zenon
<1>2. ASSUME boot # "on", taskStates' = {}, \A c \in Consumer : pc'[c] = "idle",
             UNCHANGED twoConsumers, ~twoConsumers => AllJustified',
             boot' \in {"insertRun", "storeGenesis"} => pend'["loop"].type # "task_terminal"
      PROVE  TaskInv'
  BY <1>2, Zenon DEF TaskInv, Completing
<1>3. CASE LoadRun
  <2>1. /\ boot = "off" /\ UNCHANGED <<pc, pend, events, taskStates, twoConsumers>>
        /\ boot' = "on"
    BY <1>3, Zenon DEF LoadRun
  <2>2. ~twoConsumers => AllJustified'
    BY <2>1, Zenon DEF TaskInv, AllJustified
  <2> QED BY <1>0, <1>2, <2>1, <2>2, Zenon DEF TaskInv
<1>4. CASE CreateGenesis
  <2>1. boot = "off" /\ UNCHANGED <<pc, events, taskStates, twoConsumers>>
    BY <1>4, Zenon DEF CreateGenesis
  <2>2. ~twoConsumers => AllJustified'
    BY <2>1, Zenon DEF TaskInv, AllJustified
  <2>3. pend'["loop"].type # "task_terminal"
    BY <1>4, GenesisMade, Zenon
  <2> QED BY <1>0, <1>2, <2>1, <2>2, <2>3, Zenon DEF TaskInv
<1>5. CASE InsertRun
  <2>1. /\ boot = "insertRun" /\ boot' = "storeGenesis"
        /\ UNCHANGED <<pc, pend, taskStates, twoConsumers>>
    BY <1>5, Zenon DEF InsertRun
  <2>2. ~twoConsumers => AllJustified'
    BY <1>5, NewRunIsEmpty, Zenon DEF TaskInv, AllJustified
  <2> QED BY <1>0, <1>2, <2>1, <2>2, Zenon DEF TaskInv
<1>6. CASE StoreGenesis
  <2>1. /\ boot = "storeGenesis" /\ boot' = "on" /\ UNCHANGED <<pc, taskStates, twoConsumers>>
        /\ events' = [events EXCEPT ![Len(runs)] = Append(@, pend["loop"])]
    BY <1>6, Zenon DEF StoreGenesis
  <2>2. Len(runs) \in 1..Len(events) /\ pend["loop"] \in Row
    BY <2>1, LenProperties, SMTT(30)
       DEF Chain, TableTypes, PendTypes, BootPhase, Consumer
  <2>3. ~twoConsumers => AllJustified'
    <3> DEFINE e  == pend["loop"]
               rn == Len(runs)
    <3>1. /\ rn \in 1..Len(events) /\ e \in Row /\ e.type # "task_terminal"
          /\ events' = [events EXCEPT ![rn] = Append(@, e)]
      BY <2>1, <2>2, Zenon DEF TaskInv
    <3> HIDE DEF e, rn
    <3> QED BY <1>0, <3>1, JustifiedAppend, Zenon DEF TaskInv
  <2> QED BY <1>0, <1>2, <2>1, <2>3, Zenon DEF TaskInv
<1>7. CASE Crash
  <2>1. /\ boot' = "off" /\ taskStates' = {} /\ UNCHANGED <<events, twoConsumers>>
        /\ pc' = [c \in Consumer |-> "idle"]
    BY <1>7, Zenon DEF Crash
  <2> QED BY <2>1, Zenon DEF TaskInv, Completing, AllJustified
<1>8. CASE HandOver \/ SignerStep \/ (\E r \in Rekeyer : Rekey(r))
             \/ UNCHANGED <<signerVars, ledgerVars>>
  <2>1. /\ UNCHANGED <<events, consumers, boot, runID, taskStates>>
        /\ UNCHANGED twoConsumers \/ twoConsumers' = TRUE
    BY <1>8, Zenon DEF HandOver, SignerStep, Rekey
  <2>2. UNCHANGED Rows
    BY <2>1, Zenon DEF Rows
  <2> QED BY <2>1, <2>2, Zenon DEF TaskInv, Completing, AllJustified
<1> QED BY <1>1, <1>3, <1>4, <1>5, <1>6, <1>7, <1>8, Zenon DEF LedgerNext, StartStep

(* However calls, responses, failed inserts, crashes and restarts follow   *)
(* each other, a completion event is written right after the terminal      *)
(* event of its task, and once for each time the task was seen active, as  *)
(* long as one goroutine at a time processes events                        *)
(* (processor.go:51-65, 146-200).                                          *)
THEOREM CompletionsAreJustified == LedgerSpec => []CompletionIsJustified
<1>1. LedgerInit => TaskInv
  <2> SUFFICES ASSUME LedgerInit PROVE TaskInv
    OBVIOUS
  <2>1. /\ boot = "off" /\ events = <<>> /\ pc = [c \in Consumer |-> "idle"]
        /\ taskStates = {}
    BY Zenon DEF LedgerInit
  <2>2. DOMAIN events = {}
    BY <2>1, SMT
  <2> QED BY <2>1, <2>2, Zenon DEF TaskInv, Completing, AllJustified
<1>2. LedgerInv => Chain /\ LedgerFlags /\ SignerTypeOK
  BY LedgerTypesSplit, Zenon DEF LedgerInv, Chain
<1>3. TaskInv /\ LedgerInv /\ [LedgerNext]_<<signerVars, ledgerVars>> => TaskInv'
  BY <1>2, TaskStep, Zenon
<1>4. TaskInv => CompletionIsJustified
  BY Zenon DEF TaskInv, AllJustified, Justified, Is, CompletionIsJustified
<1> QED BY <1>1, <1>3, <1>4, LedgerInvariant, PTL DEF LedgerSpec
=============================================================================
