---------------------------- MODULE LedgerProofs ----------------------------
(***************************************************************************)
(* Proofs about Signer and Ledger, for any number of keys, concurrent      *)
(* rotations, tasks and events.  A server whose rotations do not overlap   *)
(* publishes the key it signs with and, undisturbed, has saved it; the     *)
(* invariant is SignerInv.  Whatever crashes, restarts, failed inserts and *)
(* rotations happen, the events of a run form a hash chain as long as one  *)
(* goroutine at a time processes events; the invariant is LedgerInv, each  *)
(* action has a lemma, and the lemmas on rows come first.                  *)
(***************************************************************************)
EXTENDS Ledger, SequenceTheorems, TLAPS

-----------------------------------------------------------------------------
\* The signer.

USE DEF serverVars, rotVars, cliVars, history, signerVars

\* The types of the Boolean history variables, and of the others.
HistoryTypes == overlapped \in BOOLEAN /\ disturbed \in BOOLEAN

KeyTypes ==
  /\ keyFile \in Key \cup {NoKey, Torn}
  /\ backups \subseteq Key \cup {Torn}
  /\ privateKey \in Key \cup {NoKey} /\ publicKey \in Key \cup {NoKey}
  /\ server \in {"down", "new", "write", "up"} /\ serverKey \in Key \cup {NoKey}
  /\ rot \in [Rekeyer -> {"idle", "write", "private", "public"}]
  /\ rotKey \in [Rekeyer -> Key \cup {NoKey}]
  /\ cli \in {"idle", "verify", "verifyNew", "verifyWrite", "restore", "restoreWrite"}
  /\ cliKey \in Key \cup {NoKey, Torn}
  /\ generated \subseteq Key

LEMMA TypesSplit == SignerTypeOK <=> KeyTypes /\ HistoryTypes
BY Zenon DEF SignerTypeOK, KeyTypes, HistoryTypes

(* The history variables stay Boolean.                                     *)
LEMMA HistoryTypesStep ==
  ASSUME HistoryTypes, SignerNext
  PROVE  HistoryTypes'
BY Zenon DEF HistoryTypes, SignerNext, LoadKey, TruncateKey, WriteNewKey, ServerEnds, RotateTruncate,
   RotateStep, RotateWrite, RotateFails, RotatePrivate, RotatePublic, CliStep, VerifyLoad,
   VerifyTruncate, VerifyWrite, CommandEnds, BackupKey, RestoreRename, RestoreTruncate,
   RestoreWrite, CommandWrites

-----------------------------------------------------------------------------
\* What the steps preserve, once the Boolean types are set apart.
Core == KeyTypes /\ RotationPhase /\ SignerPhase /\ KeyIsSaved

USE DEF Core, KeyTypes, RotationPhase, SignerPhase, KeyIsSaved, Quiet, Rotating

(* NewSigner in the server starts from a state without rotations.          *)
LEMMA ServerStep ==
  ASSUME Core, SignerAssumption, LoadKey \/ TruncateKey \/ WriteNewKey \/ ServerEnds
  PROVE  Core'
<1>1. CASE LoadKey
  BY <1>1, SMT DEF LoadKey, SignerAssumption
<1>2. CASE TruncateKey
  BY <1>2, SMT DEF TruncateKey
<1>3. CASE WriteNewKey
  BY <1>3, SMT DEF WriteNewKey
<1>4. CASE ServerEnds
  BY <1>4, SMTT(30) DEF ServerEnds
<1> QED BY <1>1, <1>2, <1>3, <1>4, Zenon

(* A command may write the key file, and then the server is down or the    *)
(* disturbance is on record.                                               *)
LEMMA CommandStep ==
  ASSUME Core, HistoryTypes, CliStep
  PROVE  Core'
<1>1. CASE VerifyLoad
  BY <1>1, SMT DEF VerifyLoad
<1>2. ASSUME NEW content \in Key \cup {NoKey, Torn},
             NEW at \in {"idle", "verify", "verifyWrite", "restore", "restoreWrite"},
             CommandWrites(content, at), cliKey' \in Key \cup {NoKey, Torn}
      PROVE  Core'
  <2>1. disturbed' \/ (server = "down" /\ ~disturbed)
    BY <1>2, Zenon DEF CommandWrites, HistoryTypes
  <2>2. /\ keyFile' = content /\ cli' = at
        /\ UNCHANGED <<serverVars, rotVars, backups, generated, overlapped>>
    BY <1>2, Zenon DEF CommandWrites
  <2> QED BY <1>2, <2>1, <2>2, SMT
<1>3. CASE VerifyTruncate
  BY <1>2, <1>3, Zenon DEF VerifyTruncate
<1>4. CASE VerifyWrite
  BY <1>2, <1>4 DEF VerifyWrite
<1>5. CASE RestoreRename
  BY <1>2, <1>5 DEF RestoreRename
<1>6. CASE RestoreTruncate
  BY <1>2, <1>6, Zenon DEF RestoreTruncate
<1>7. CASE RestoreWrite
  BY <1>2, <1>7 DEF RestoreWrite
<1>8. CASE BackupKey
  BY <1>8, SMT DEF BackupKey
<1>9. CASE CommandEnds
  BY <1>9, SMT DEF CommandEnds
<1> QED BY <1>1, <1>3, <1>4, <1>5, <1>6, <1>7, <1>8, <1>9, Zenon DEF CliStep

(* A rotation that does not overlap another hands its key from the file to *)
(* the private and to the public half.                                     *)
LEMMA RotationStep ==
  ASSUME Core, HistoryTypes, NEW r \in Rekeyer, RotateTruncate(r) \/ RotateStep(r)
  PROVE  Core'
<1>1. CASE RotateTruncate(r)
  <2>1. ~overlapped' => ~overlapped /\ \A q \in Rekeyer : q # r => ~Rotating(q)
    BY <1>1, Zenon DEF RotateTruncate, HistoryTypes
  <2>2. /\ server = "up" /\ rot[r] = "idle"
        /\ \E k \in Key \ generated :
             rotKey' = [rotKey EXCEPT ![r] = k] /\ generated' = generated \cup {k}
        /\ keyFile' = Torn
        /\ rot' = [rot EXCEPT ![r] = "write"]
        /\ UNCHANGED <<serverVars, cliVars, disturbed>>
    BY <1>1, Zenon DEF RotateTruncate
  <2> QED BY <2>1, <2>2, SMT
<1>2. CASE RotateWrite(r)
  BY <1>2, SMT DEF RotateWrite
<1>3. CASE RotateFails(r)
  BY <1>3, SMT DEF RotateFails
<1>4. CASE RotatePrivate(r)
  BY <1>4, SMT DEF RotatePrivate
<1>5. CASE RotatePublic(r)
  BY <1>5, SMT DEF RotatePublic
<1> QED BY <1>1, <1>2, <1>3, <1>4, <1>5, Zenon DEF RotateStep

-----------------------------------------------------------------------------
(* The inductive invariant of Signer: along every rotation, crash and      *)
(* command, the file and the two halves hold what the place reached in     *)
(* RotateKey and NewSigner says.                                           *)
THEOREM SignerInvariant == SignerSpec => []SignerInv
<1> USE DEF SignerInv
<1>1. SignerInit => SignerInv
  <2> SUFFICES ASSUME SignerInit PROVE SignerInv
    OBVIOUS
  <2>1. HistoryTypes
    BY Zenon DEF SignerInit, HistoryTypes
  <2>2. Core
    BY SMT DEF SignerInit
  <2> QED BY <2>1, <2>2, TypesSplit
<1>2. SignerInv /\ [SignerNext]_signerVars => SignerInv'
  <2> SUFFICES ASSUME SignerInv, [SignerNext]_signerVars PROVE SignerInv'
    BY Zenon
  <2>1. HistoryTypes /\ Core
    BY TypesSplit
  <2>2. HistoryTypes' /\ Core' => SignerInv'
    BY TypesSplit, PTL
  <2>3. CASE SignerNext
    <3>1. HistoryTypes'
      BY <2>1, <2>3, HistoryTypesStep, SMTT(30)
    <3>2. Core'
      BY <2>1, <2>3, ServerStep, CommandStep, RotationStep, SignerAssumption, Zenon
         DEF SignerNext
    <3> QED BY <3>1, <3>2, <2>2, Zenon
  <2>4. CASE UNCHANGED signerVars
    <3>1. HistoryTypes'
      BY <2>1, <2>4, Zenon DEF HistoryTypes
    <3>2. Core'
      BY <2>1, <2>4, SMT
    <3> QED BY <3>1, <3>2, <2>2
  <2> QED BY <2>3, <2>4
<1> QED BY <1>1, <1>2, PTL DEF SignerSpec

(* As long as rotations do not overlap, the published key is the signing   *)
(* key whenever no rotation is under way.                                  *)
THEOREM HalvesOfTheKeyAgree == SignerSpec => []HalvesAgree
<1>1. SignerInv => HalvesAgree
  BY DEF SignerInv, HalvesAgree
<1> QED BY <1>1, SignerInvariant, PTL

(* Then, undisturbed, the key file holds the signing key: a restart goes   *)
(* on with it.                                                             *)
THEOREM SigningKeyIsSaved == SignerSpec => []KeyIsSaved
<1>1. SignerInv => KeyIsSaved
  BY DEF SignerInv
<1> QED BY <1>1, SignerInvariant, PTL

HIDE DEF Core, KeyTypes, RotationPhase, SignerPhase, KeyIsSaved, Quiet, Rotating
HIDE DEF serverVars, rotVars, cliVars, history, signerVars


-----------------------------------------------------------------------------
\* Rows and hashes.

Digest == {NoRow} \cup [id : Nat, type : EventType, task : Task \cup {NoTask},
                        state : TaskState, seq : Nat]

(* A hash is a non-empty sequence that has the payload as its last element.*)
LEMMA HashType ==
  ASSUME NEW e \in Row, NEW prev \in Hash
  PROVE  CalculateEventHash(prev, e) \in Hash /\ CalculateEventHash(prev, e) # NoHash
<1>1. Hash = Seq(Digest)
  BY DEF Hash, Digest
<1>2. Payload(e) \in Digest
  BY SMT DEF Payload, Row, Digest
<1> QED BY <1>1, <1>2, AppendProperties DEF CalculateEventHash, NoHash

(* The fields of a row.                                                    *)
LEMMA RowFields ==
  ASSUME NEW e \in Row
  PROVE  /\ e.id \in Nat /\ e.type \in EventType /\ e.task \in Task \cup {NoTask}
         /\ e.state \in TaskState /\ e.seq \in Nat
         /\ e.prev \in Hash /\ e.hash \in Hash /\ e.key \in Key \cup {NoKey}
BY SMT DEF Row

(* Setting the fields that persistEvent sets.                              *)
LEMMA SetSeq ==
  ASSUME NEW e \in Row, NEW n \in Nat
  PROVE  [e EXCEPT !.seq = n] \in Row /\ [e EXCEPT !.seq = n].seq = n
BY SMT DEF Row

LEMMA SetPrev ==
  ASSUME NEW e \in Row, NEW h \in Hash
  PROVE  /\ [e EXCEPT !.prev = h] \in Row
         /\ [e EXCEPT !.prev = h].prev = h /\ [e EXCEPT !.prev = h].seq = e.seq
BY SMT DEF Row

LEMMA SetId ==
  ASSUME NEW e \in Row, NEW n \in Nat
  PROVE  [e EXCEPT !.id = n] \in Row
BY SMT DEF Row

Signed(e, h, k) == [e EXCEPT !.hash = h, !.key = k]

LEMMA SetHashKey ==
  ASSUME NEW e \in Row, NEW h \in Hash, NEW k \in Key \cup {NoKey}
  PROVE  /\ Signed(e, h, k) \in Row
         /\ Signed(e, h, k).hash = h
         /\ Signed(e, h, k).prev = e.prev
         /\ Signed(e, h, k).seq = e.seq
         /\ Payload(Signed(e, h, k)) = Payload(e)
<1>1. Signed(e, h, k) \in Row
  <2>1. [e EXCEPT !.hash = h] \in Row
    BY SMT DEF Row
  <2>2. ASSUME NEW f \in Row PROVE [f EXCEPT !.key = k] \in Row
    BY SMT DEF Row
  <2>3. Signed(e, h, k) = [[e EXCEPT !.hash = h] EXCEPT !.key = k]
    BY DEF Signed
  <2> QED BY <2>1, <2>2, <2>3, Zenon
<1>2. /\ Signed(e, h, k).hash = h
      /\ Signed(e, h, k).prev = e.prev
      /\ Signed(e, h, k).seq = e.seq
  BY SMT DEF Row, Signed
<1>3. Payload(Signed(e, h, k)) = Payload(e)
  BY SMT DEF Row, Payload, Signed
<1> QED BY <1>1, <1>2, <1>3

(* A row that carries on a chain makes a longer chain.                     *)
LEMMA ChainExtends ==
  ASSUME NEW rows \in Seq(Row), NEW e \in Row, Chained(rows),
         e.seq = Len(rows), e.prev = LinkTo(rows), Hashed(e)
  PROVE  Chained(Append(rows, e))
<1> DEFINE new == Append(rows, e)
<1>1. /\ Len(rows) \in Nat /\ Len(new) = Len(rows) + 1
      /\ DOMAIN new = 1..(Len(rows) + 1) /\ DOMAIN rows = 1..Len(rows)
      /\ \A i \in 1..Len(rows) : new[i] = rows[i]
      /\ new[Len(rows) + 1] = e
  BY AppendProperties, LenProperties, SMT
<1> HIDE DEF new
<1> SUFFICES ASSUME NEW i \in DOMAIN new
             PROVE  /\ new[i].seq = i - 1
                    /\ new[i].prev = (IF i = 1 THEN ZeroHash ELSE new[i - 1].hash)
                    /\ Hashed(new[i])
  BY DEF Chained, new
<1>2. CASE i \in 1..Len(rows)
  <2>1. i # 1 => i - 1 \in 1..Len(rows)
    BY <1>1, <1>2, SMT
  <2>2. new[i] = rows[i] /\ (i # 1 => new[i - 1] = rows[i - 1])
    BY <1>1, <1>2, <2>1
  <2> QED BY <1>1, <1>2, <2>2 DEF Chained
<1>3. CASE i = Len(rows) + 1
  <2>1. new[i] = e /\ i - 1 = Len(rows)
    BY <1>1, <1>3, SMT
  <2>2. CASE rows = <<>>
    <3>1. i = 1
      BY <1>1, <1>3, <2>2, SMT
    <3> QED BY <2>1, <2>2, <3>1 DEF LinkTo
  <2>3. CASE rows # <<>>
    <3>1. Len(rows) \in 1..Len(rows) /\ i # 1
      BY <1>1, <1>3, <2>3, EmptySeq, SMT
    <3>2. new[i - 1] = rows[Len(rows)]
      BY <1>1, <2>1, <3>1
    <3> QED BY <2>1, <2>3, <3>1, <3>2 DEF LinkTo
  <2> QED BY <2>2, <2>3
<1> QED BY <1>1, <1>2, <1>3, SMT

(* The empty ledger is a chain.                                            *)
LEMMA EmptyChain == Chained(<<>>)
BY SMT DEF Chained

(* The two hashes that GetLastEvent may give an event.                     *)
LEMMA ZeroHashType == ZeroHash \in Hash
BY SMT DEF ZeroHash, Hash

LEMMA LastHashType ==
  ASSUME NEW rows \in Seq(Row), NEW last \in LastEvents(rows)
  PROVE  last.hash \in Hash
<1>1. CASE rows = <<>>
  <2>1. last = [seq |-> 0, hash |-> NoHash]
    BY <1>1 DEF LastEvents
  <2> QED BY <2>1, EmptySeq DEF NoHash, Hash
<1>2. CASE rows # <<>>
  <2>1. PICK i \in DOMAIN rows : last = [seq |-> rows[i].seq, hash |-> rows[i].hash]
    BY <1>2, Zenon DEF LastEvents
  <2>2. rows[i] \in Row
    BY LenProperties, ElementOfSeq
  <2> QED BY <2>1, <2>2, RowFields
<1> QED BY <1>1, <1>2

(* In a chain, what GetLastEvent returns is the last row, and the next     *)
(* index passes the assertions.                                            *)
LEMMA LastOfChain ==
  ASSUME NEW rows \in Seq(Row), Chained(rows), NEW last \in LastEvents(rows)
  PROVE  /\ InSequence(Len(rows), last)
         /\ (IF Len(rows) = 0 THEN ZeroHash ELSE last.hash) = LinkTo(rows)
<1>0. Len(rows) \in Nat /\ DOMAIN rows = 1..Len(rows)
  BY LenProperties
<1>1. CASE rows = <<>>
  <2>1. last = [seq |-> 0, hash |-> NoHash] /\ Len(rows) = 0
    BY <1>1, EmptySeq DEF LastEvents
  <2> QED BY <1>1, <2>1, SMT DEF InSequence, LinkTo
<1>2. CASE rows # <<>>
  <2>0. Len(rows) # 0
    BY <1>0, <1>2, EmptySeq, SMT
  <2>1. PICK i \in DOMAIN rows :
          /\ last = [seq |-> rows[i].seq, hash |-> rows[i].hash]
          /\ \A k \in DOMAIN rows : rows[k].seq <= rows[i].seq
    BY <1>2, Zenon DEF LastEvents
  <2>2. Len(rows) \in DOMAIN rows
    BY <1>0, <2>0, SMT
  <2>3. rows[i].seq = i - 1 /\ rows[Len(rows)].seq = Len(rows) - 1
    BY <2>2 DEF Chained
  <2>4. i = Len(rows)
    BY <1>0, <2>1, <2>2, <2>3, SMT
  <2>5. last.seq = Len(rows) - 1 /\ last.hash = rows[Len(rows)].hash
    BY <2>1, <2>3, <2>4
  <2>6. rows[Len(rows)] \in Row /\ Hashed(rows[Len(rows)])
    BY <2>2, <1>0, ElementOfSeq DEF Chained
  <2>7. last.hash # NoHash
    BY <2>5, <2>6, HashType, RowFields DEF Hashed
  <2> QED BY <1>0, <1>2, <2>0, <2>5, <2>7, SMT DEF InSequence, LinkTo
<1> QED BY <1>1, <1>2

-----------------------------------------------------------------------------
\* The parts of the type invariant, the Boolean ones set apart.

RunRecord == [genesisHash : Hash, pubKey : Key \cup {NoKey}]
Step      == {"idle", "stats", "last", "sign", "store"}

LedgerFlags == twoConsumers \in BOOLEAN /\ rotated \in BOOLEAN

TableTypes ==
  runs \in Seq(RunRecord) /\ events \in Seq(Seq(Row)) /\ Len(events) = Len(runs)

MemoryTypes ==
  /\ boot \in {"off", "insertRun", "storeGenesis", "on"}
  /\ runID \in 0..Len(runs)
  /\ pc \in [Consumer -> Step]
  /\ taskStates \subseteq Task
  /\ phase \in {"run", "clean", "timedOut"}
  /\ made \in Nat

PendTypes == pend \in [Consumer -> Row \cup {NoRow}]

LEMMA LedgerTypesSplit ==
  LedgerTypeOK <=> SignerTypeOK /\ TableTypes /\ MemoryTypes /\ PendTypes /\ LedgerFlags
BY Zenon DEF LedgerTypeOK, TableTypes, MemoryTypes, PendTypes, LedgerFlags, RunRecord, Step

\* What the steps of the ledger preserve.
Chain ==
  /\ TableTypes /\ MemoryTypes /\ PendTypes
  /\ BootPhase /\ OneProcessor /\ NextInChain /\ ChainUnlessTimedOut

USE DEF tables, consumers, memory, ledgerPast, ledgerVars

\* What persistEvent has established about its event e when it is at step p.
Ready(p, e) ==
  /\ p \in {"last", "sign", "store"} => e.seq = Len(Rows)
  /\ p \in {"sign", "store"} => e.prev = LinkTo(Rows)
  /\ p = "store" => Hashed(e)

(* A consumer that moves on with its event, and leaves the tables alone.   *)
LEMMA PendStep ==
  ASSUME Chain, NEW c \in Consumer, NEW e \in Row \cup {NoRow}, NEW p \in Step,
         boot = "on", pc[c] # "idle" \/ MayTake(c), p # "idle" => e # NoRow,
         ~twoConsumers => Ready(p, e),
         pend' = [pend EXCEPT ![c] = e], pc' = [pc EXCEPT ![c] = p], made' \in Nat,
         UNCHANGED <<tables, memory, twoConsumers>>
  PROVE  Chain'
<1>1. TableTypes' /\ PendTypes'
  BY SMT DEF Chain, TableTypes, PendTypes
<1>2. MemoryTypes'
  BY SMT DEF Chain, MemoryTypes, TableTypes
<1>3. BootPhase'
  BY SMT DEF Chain, BootPhase, PendTypes, MemoryTypes
<1>4. OneProcessor'
  BY SMT DEF Chain, OneProcessor, MemoryTypes, Consumer, MayTake
<1>5. NextInChain'
  BY Zenon DEF Chain, NextInChain, MemoryTypes, PendTypes, Rows, Ready
<1>6. ChainUnlessTimedOut'
  BY DEF Chain, ChainUnlessTimedOut
<1> QED BY <1>1, <1>2, <1>3, <1>4, <1>5, <1>6 DEF Chain

(* The run in use, and the event of a busy consumer.                       *)
LEMMA Busy ==
  ASSUME Chain, NEW c \in Consumer, pc[c] # "idle"
  PROVE  /\ boot = "on" /\ pend[c] \in Row
         /\ runID \in 1..Len(events) /\ Rows \in Seq(Row) /\ Len(Rows) \in Nat
         /\ ~twoConsumers => Chained(Rows) /\ Ready(pc[c], pend[c])
<1>1. boot = "on" /\ pend[c] \in Row
  BY SMT DEF Chain, BootPhase, PendTypes
<1>2. runID \in 1..Len(events)
  BY <1>1 DEF Chain, BootPhase, TableTypes
<1>3. Rows \in Seq(Row)
  BY <1>2, ElementOfSeq DEF Chain, TableTypes, Rows
<1>4. Len(Rows) \in Nat
  BY <1>3, LenProperties
<1>5. runID \in DOMAIN events
  BY <1>2, LenProperties DEF Chain, TableTypes
<1> QED BY <1>1, <1>2, <1>3, <1>4, <1>5, Zenon DEF Chain, ChainUnlessTimedOut, NextInChain, Rows, Ready

(* A new event is a row.                                                   *)
LEMMA NewEventType ==
  ASSUME Chain, NEW type \in EventType, NEW t \in Task \cup {NoTask},
         NEW state \in TaskState
  PROVE  NewEvent(type, t, state) \in Row
<1>1. NoHash \in Hash
  BY EmptySeq DEF Hash, NoHash
<1> QED BY <1>1, SMT DEF NewEvent, Row, Chain, MemoryTypes

(* Each step of persistEvent up to the insert establishes its part.        *)
LEMMA TakeEventStep ==
  ASSUME Chain, NEW c \in Consumer, TakeEvent(c)
  PROVE  Chain'
<1>1. PICK e \in Row : pend' = [pend EXCEPT ![c] = e]
  <2>1. \A t \in Task, st \in State : NewEvent("tool", t, st) \in Row
    <3> SUFFICES ASSUME NEW t \in Task, NEW st \in State
                 PROVE  NewEvent("tool", t, st) \in Row
      OBVIOUS
    <3>1. "tool" \in EventType /\ st \in TaskState /\ t \in Task \cup {NoTask}
      BY SMT DEF State, EventType, TaskState
    <3> QED BY <3>1, NewEventType, Zenon
  <2>2. NewEvent("anchor", NoTask, "none") \in Row
    <3>1. "anchor" \in EventType /\ "none" \in TaskState /\ NoTask \in Task \cup {NoTask}
      BY SMT DEF EventType, TaskState
    <3> QED BY <3>1, NewEventType, Zenon
  <2> QED BY <2>1, <2>2, Zenon DEF TakeEvent
<1>2. made' \in Nat
  BY SMT DEF TakeEvent, Chain, MemoryTypes
<1>3. Ready("stats", e)
  BY DEF Ready
<1> QED BY <1>1, <1>2, <1>3, PendStep, NoRowAssumption, Zenon
           DEF TakeEvent, Step

LEMMA GetRunStatsStep ==
  ASSUME Chain, NEW c \in Consumer, GetRunStats(c)
  PROVE  Chain'
<1> DEFINE e == [pend[c] EXCEPT !.seq = Len(Rows)]
<1>1. pc[c] # "idle"
  BY DEF GetRunStats
<1>2. e \in Row /\ e.seq = Len(Rows)
  BY <1>1, Busy, SetSeq
<1>3. pend' = [pend EXCEPT ![c] = e]
  BY DEF GetRunStats
<1>4. Ready("last", e)
  BY <1>2 DEF Ready
<1>5. made' \in Nat
  BY DEF GetRunStats, Chain, MemoryTypes
<1> HIDE DEF e
<1> QED BY <1>1, <1>2, <1>3, <1>4, <1>5, Busy, PendStep, NoRowAssumption, Zenon
           DEF GetRunStats, Step

LEMMA GetLastEventStep ==
  ASSUME Chain, NEW c \in Consumer, GetLastEvent(c)
  PROVE  Chain'
<1>1. pc[c] = "last"
  BY DEF GetLastEvent
<1>2. PICK last \in LastEvents(Rows) :
        pend' = [pend EXCEPT ![c].prev = IF pend[c].seq = 0 THEN ZeroHash ELSE last.hash]
  BY Zenon DEF GetLastEvent
<1> DEFINE h == IF pend[c].seq = 0 THEN ZeroHash ELSE last.hash
           e == [pend[c] EXCEPT !.prev = h]
<1>3. h \in Hash
  BY <1>1, Busy, LastHashType, ZeroHashType, Zenon
<1>4. e \in Row /\ e.prev = h /\ e.seq = pend[c].seq
  BY <1>1, <1>3, Busy, SetPrev
<1>5. pend' = [pend EXCEPT ![c] = e]
  BY <1>2
<1>6. ~twoConsumers => Ready("sign", e)
  <2> SUFFICES ASSUME ~twoConsumers PROVE Ready("sign", e)
    OBVIOUS
  <2>1. pend[c].seq = Len(Rows)
    BY <1>1, Busy DEF Ready
  <2>2. h = LinkTo(Rows)
    BY <1>1, <2>1, Busy, LastOfChain, Zenon
  <2> QED BY <1>4, <2>1, <2>2 DEF Ready
<1>7. made' \in Nat
  BY DEF GetLastEvent, Chain, MemoryTypes
<1> HIDE DEF e
<1> QED BY <1>1, <1>4, <1>5, <1>6, <1>7, Busy, PendStep, NoRowAssumption, Zenon
           DEF GetLastEvent, Step

LEMMA SignHashStep ==
  ASSUME Chain, SignerTypeOK, NEW c \in Consumer, SignHash(c)
  PROVE  Chain'
<1>1. pc[c] = "sign"
  BY DEF SignHash
<1> DEFINE h == CalculateEventHash(pend[c].prev, pend[c])
           e == [pend[c] EXCEPT !.hash = h, !.key = privateKey]
<1>2. h \in Hash
  BY <1>1, Busy, HashType, RowFields, Zenon
<1>3. privateKey \in Key \cup {NoKey}
  BY DEF SignerTypeOK
<1>4. /\ e \in Row /\ e.hash = h /\ e.prev = pend[c].prev /\ e.seq = pend[c].seq
      /\ Payload(e) = Payload(pend[c])
  <2>1. pend[c] \in Row
    BY <1>1, Busy
  <2>2. e = Signed(pend[c], h, privateKey)
    BY DEF Signed
  <2> HIDE DEF e, h
  <2> QED BY <1>2, <1>3, <2>1, <2>2, SetHashKey
<1>5. pend' = [pend EXCEPT ![c] = e]
  <2> HIDE DEF h
  <2> QED BY Zenon DEF SignHash, h
<1>6. Hashed(e)
  BY <1>4 DEF Hashed, CalculateEventHash
<1>7. ~twoConsumers => Ready("store", e)
  BY <1>1, <1>4, <1>6, Busy DEF Ready
<1>8. made' \in Nat
  BY DEF SignHash, Chain, MemoryTypes
<1> HIDE DEF e
<1> QED BY <1>1, <1>4, <1>5, <1>7, <1>8, Busy, PendStep, NoRowAssumption, Zenon
           DEF SignHash, Step

LEMMA FailStep ==
  ASSUME Chain, NEW c \in Consumer, Fail(c)
  PROVE  Chain'
<1>1. pc[c] # "idle"
  BY DEF Fail
<1>2. Ready("idle", NoRow)
  BY DEF Ready
<1>3. made' \in Nat
  BY DEF Fail, Chain, MemoryTypes
<1> QED BY <1>1, <1>2, <1>3, Busy, PendStep, Zenon DEF Fail, Step

-----------------------------------------------------------------------------
(* Replacing the rows of one run.                                          *)
LEMMA ReplaceRun ==
  ASSUME events \in Seq(Seq(Row)), NEW i \in 1..Len(events), NEW x \in Seq(Row),
         events' = [events EXCEPT ![i] = x]
  PROVE  /\ events' \in Seq(Seq(Row)) /\ Len(events') = Len(events)
         /\ \A j \in 1..Len(events) : events'[j] = IF j = i THEN x ELSE events[j]
<1> DEFINE S == Seq(Row)
<1>1. events \in Seq(S) /\ x \in S
  OBVIOUS
<1> HIDE DEF S
<1>2. /\ events' \in Seq(S) /\ Len(events') = Len(events)
      /\ \A j \in 1..Len(events) : events'[j] = IF j = i THEN x ELSE events[j]
  BY <1>1, SMT
<1> QED BY <1>2 DEF S

(* Appending a row to the run rn leaves the tables well formed, the other  *)
(* runs alone and, if the row carries on its chain, all runs chains.       *)
LEMMA AppendRow ==
  ASSUME TableTypes, NEW rn \in 1..Len(events), NEW e \in Row,
         events' = [events EXCEPT ![rn] = Append(@, e)], UNCHANGED <<runs, twoConsumers>>
  PROVE  /\ TableTypes'
         /\ (~twoConsumers /\ ChainUnlessTimedOut /\ e.seq = Len(events[rn])
               /\ e.prev = LinkTo(events[rn]) /\ Hashed(e))
              => \A r \in DOMAIN events' : Chained(events'[r])
<1> DEFINE rows == events[rn]
           new  == Append(rows, e)
<1>1. rows \in Seq(Row) /\ events \in Seq(Seq(Row))
  BY ElementOfSeq DEF TableTypes
<1>2. new \in Seq(Row)
  BY <1>1, AppendProperties
<1>3. /\ events' \in Seq(Seq(Row)) /\ Len(events') = Len(events)
      /\ \A j \in 1..Len(events) : events'[j] = IF j = rn THEN new ELSE events[j]
  <2> HIDE DEF new
  <2>1. events' = [events EXCEPT ![rn] = new]
    BY DEF new
  <2> QED BY <1>1, <1>2, <2>1, ReplaceRun, Zenon
<1>4. TableTypes'
  BY <1>3 DEF TableTypes
<1>5. DOMAIN events' = 1..Len(events) /\ DOMAIN events = 1..Len(events)
  BY <1>1, <1>3, LenProperties
<1>6. ASSUME ~twoConsumers, ChainUnlessTimedOut, e.seq = Len(rows), e.prev = LinkTo(rows),
             Hashed(e)
      PROVE  \A r \in DOMAIN events' : Chained(events'[r])
  <2>1. \A r \in DOMAIN events : Chained(events[r])
    BY <1>6 DEF ChainUnlessTimedOut
  <2>2. Chained(rows)
    BY <2>1, <1>5
  <2>3. Chained(new)
    BY <1>1, <1>6, <2>2, ChainExtends, Zenon
  <2> HIDE DEF new
  <2> QED BY <1>3, <1>5, <2>1, <2>3
<1> QED BY <1>4, <1>6

(* The insert of persistEvent, and what the consumer goes on with.         *)
LEMMA StoreStep ==
  ASSUME Chain, NEW c \in Consumer, NEW e \in Row \cup {NoRow},
         NEW p \in {"idle", "stats"}, p = "stats" => e # NoRow, StoreEvent(c),
         pend' = [pend EXCEPT ![c] = e], pc' = [pc EXCEPT ![c] = p],
         taskStates' \subseteq Task, made' \in Nat
  PROVE  Chain'
<1>0. pc[c] = "store" /\ UNCHANGED <<runs, boot, runID, phase, twoConsumers>>
  BY DEF StoreEvent
<1>1. TableTypes' /\ Len(runs') = Len(runs)
  <2>1. /\ TableTypes /\ runID \in 1..Len(events) /\ pend[c] \in Row
        /\ events' = [events EXCEPT ![runID] = Append(@, pend[c])]
    BY <1>0, Busy DEF Chain, StoreEvent
  <2> QED BY <1>0, <2>1, AppendRow, Zenon
<1>2. PendTypes'
  BY SMT DEF Chain, PendTypes
<1>3. MemoryTypes'
  BY <1>0, <1>1, SMT DEF Chain, MemoryTypes, Step
<1>4. BootPhase'
  <2>1. boot = "on"
    BY <1>0, Busy
  <2> QED BY <1>0, <2>1, Zenon DEF Chain, BootPhase, PendTypes, MemoryTypes
<1>5. OneProcessor'
  BY <1>0, Zenon DEF Chain, OneProcessor, MemoryTypes, Consumer
<1>6. NextInChain'
  <2>1. boot' = "on"
    BY <1>0, Busy
  <2>2. ASSUME ~twoConsumers, NEW d \in Consumer PROVE pc'[d] \in {"idle", "stats"}
    BY <1>0, <2>2, SMT DEF Chain, OneProcessor, MemoryTypes, Consumer
  <2> QED BY <1>0, <2>1, <2>2, Zenon DEF NextInChain
<1>7. ChainUnlessTimedOut'
  <2> SUFFICES ASSUME ~twoConsumers' PROVE \A r \in DOMAIN events' : Chained(events'[r])
    BY DEF ChainUnlessTimedOut
  <2>1. ~twoConsumers
    BY <1>0
  <2>2. Ready("store", pend[c]) /\ runID \in 1..Len(events) /\ pend[c] \in Row
    BY <1>0, <2>1, Busy
  <2>3. events' = [events EXCEPT ![runID] = Append(@, pend[c])]
    BY DEF StoreEvent
  <2> QED BY <1>0, <2>1, <2>2, <2>3, AppendRow, Zenon DEF Chain, Ready, Rows
<1> QED BY <1>1, <1>2, <1>3, <1>4, <1>5, <1>6, <1>7 DEF Chain

LEMMA StoreTerminalStep ==
  ASSUME Chain, NEW c \in Consumer, StoreTerminal(c)
  PROVE  Chain'
<1> DEFINE n == NewEvent("task_terminal", pend[c].task, "completed")
           e == [n EXCEPT !.id = pend[c].id]
<1>1. e \in Row
  <2>1. pc[c] # "idle"
    BY DEF StoreTerminal, StoreEvent
  <2>2. pend[c].task \in Task \cup {NoTask} /\ pend[c].id \in Nat
    BY <2>1, Busy, RowFields, Zenon
  <2>3. "task_terminal" \in EventType /\ "completed" \in TaskState
    BY SMT DEF EventType, TaskState, State
  <2>4. n \in Row
    BY <2>2, <2>3, NewEventType, Zenon
  <2> HIDE DEF n
  <2> QED BY <2>2, <2>4, SetId
<1>2. made' \in Nat /\ taskStates' \subseteq Task
  BY SMT DEF StoreTerminal, Chain, MemoryTypes
<1>3. pend' = [pend EXCEPT ![c] = e] /\ pc' = [pc EXCEPT ![c] = "stats"] /\ StoreEvent(c)
  BY Zenon DEF StoreTerminal
<1> HIDE DEF e, n
<1> QED BY <1>1, <1>2, <1>3, StoreStep, NoRowAssumption, Zenon

LEMMA StoreOtherStep ==
  ASSUME Chain, NEW c \in Consumer, StoreOther(c)
  PROVE  Chain'
<1>1. pend[c] \in Row
  <2>1. pc[c] # "idle"
    BY DEF StoreOther, StoreEvent
  <2> QED BY <2>1, Busy
<1>2. made' \in Nat
  BY DEF StoreOther, Chain, MemoryTypes
<1>3. taskStates' \subseteq Task
  <2>1. taskStates \subseteq Task /\ pend[c].task \in Task \cup {NoTask}
    BY <1>1, RowFields, Zenon DEF Chain, MemoryTypes
  <2>2. HasTask(pend[c]) => pend[c].task \in Task
    BY <2>1, Zenon DEF HasTask
  <2> QED BY <2>1, <2>2, SMT DEF StoreOther, Tracked
<1>4. pend' = [pend EXCEPT ![c] = NoRow] /\ pc' = [pc EXCEPT ![c] = "idle"] /\ StoreEvent(c)
  BY DEF StoreOther
<1> QED BY <1>2, <1>3, <1>4, StoreStep, Zenon

-----------------------------------------------------------------------------
\* The steps of Start.

LEMMA LoadRunStep ==
  ASSUME Chain, LoadRun
  PROVE  Chain'
<1>1. Len(runs) \in Nat /\ Len(runs) # 0
  BY EmptySeq, LenProperties, SMT DEF LoadRun, Chain, TableTypes
<1>2. TableTypes' /\ PendTypes' /\ MemoryTypes'
  BY <1>1, SMT DEF LoadRun, Chain, TableTypes, PendTypes, MemoryTypes
<1>3. BootPhase' /\ OneProcessor'
  BY <1>1, SMT DEF LoadRun, Chain, BootPhase, OneProcessor
<1>4. NextInChain'
  BY Zenon DEF LoadRun, Chain, BootPhase, NextInChain
<1>5. ChainUnlessTimedOut'
  BY DEF LoadRun, Chain, ChainUnlessTimedOut
<1> QED BY <1>2, <1>3, <1>4, <1>5 DEF Chain

LEMMA CreateGenesisStep ==
  ASSUME Chain, SignerTypeOK, CreateGenesis
  PROVE  Chain'
<1> DEFINE n == NewEvent("genesis", NoTask, "none")
           g == [n EXCEPT !.prev = ZeroHash]
           h == CalculateEventHash(ZeroHash, g)
           e == Signed(g, h, privateKey)
<1>1. n \in Row /\ n.seq = 0
  <2>1. "genesis" \in EventType /\ "none" \in TaskState /\ NoTask \in Task \cup {NoTask}
    BY SMT DEF EventType, TaskState
  <2>2. n \in Row
    BY <2>1, NewEventType, Zenon
  <2>3. n.seq = 0
    BY DEF NewEvent
  <2> QED BY <2>2, <2>3
<1>2. g \in Row /\ g.prev = ZeroHash /\ g.seq = 0
  <2> HIDE DEF n
  <2> QED BY <1>1, ZeroHashType, SetPrev
<1>3. h \in Hash
  <2> HIDE DEF g
  <2> QED BY <1>2, ZeroHashType, HashType
<1>4. e \in Row /\ e.hash = h /\ e.prev = ZeroHash /\ e.seq = 0 /\ Payload(e) = Payload(g)
  <2>1. privateKey \in Key \cup {NoKey}
    BY DEF SignerTypeOK
  <2> HIDE DEF g, h
  <2> QED BY <1>2, <1>3, <2>1, SetHashKey
<1>5. Hashed(e)
  <2> HIDE DEF e, g
  <2> QED BY <1>4 DEF Hashed, CalculateEventHash
<1>6. pend' = [pend EXCEPT !["loop"] = e]
  BY DEF CreateGenesis, Signed
<1> HIDE DEF e
<1>7. TableTypes' /\ PendTypes' /\ MemoryTypes'
  BY <1>4, <1>6, SMT DEF CreateGenesis, Chain, TableTypes, PendTypes, MemoryTypes, Consumer
<1>8. BootPhase' /\ OneProcessor'
  BY <1>4, <1>6, NoRowAssumption, SMT
     DEF CreateGenesis, Chain, BootPhase, OneProcessor, PendTypes, Consumer
<1>9. NextInChain'
  <2>1. pend'["loop"] = e
    BY <1>6, SMT DEF Chain, PendTypes, Consumer
  <2>2. boot' = "insertRun" /\ \A c \in Consumer : pc'[c] = "idle"
    BY DEF CreateGenesis, Chain, BootPhase
  <2> QED BY <1>4, <1>5, <2>1, <2>2 DEF NextInChain
<1>10. ChainUnlessTimedOut'
  BY DEF CreateGenesis, Chain, ChainUnlessTimedOut
<1> QED BY <1>7, <1>8, <1>9, <1>10, Zenon DEF Chain

LEMMA InsertRunStep ==
  ASSUME Chain, SignerTypeOK, InsertRun
  PROVE  Chain'
<1>1. pend["loop"] \in Row
  BY Zenon DEF InsertRun, Chain, BootPhase, PendTypes, Consumer
<1>2. /\ runs' \in Seq(RunRecord) /\ Len(runs') = Len(runs) + 1 /\ Len(runs) \in Nat
  <2> DEFINE rec == [genesisHash |-> pend["loop"].hash, pubKey |-> publicKey]
  <2>1. rec \in RunRecord
    BY <1>1, RowFields, Zenon DEF RunRecord, SignerTypeOK
  <2>2. runs' = Append(runs, rec)
    BY DEF InsertRun
  <2> HIDE DEF rec
  <2> QED BY <2>1, <2>2, AppendProperties, LenProperties DEF Chain, TableTypes
<1>3. /\ events' \in Seq(Seq(Row)) /\ Len(events') = Len(events) + 1
      /\ \A r \in 1..Len(events) : events'[r] = events[r]
      /\ events'[Len(events) + 1] = <<>>
  <2>1. <<>> \in Seq(Row) /\ events \in Seq(Seq(Row))
    BY EmptySeq DEF Chain, TableTypes
  <2>2. events' = Append(events, <<>>)
    BY DEF InsertRun
  <2> QED BY <2>1, <2>2, AppendProperties
<1>4. TableTypes'
  BY <1>2, <1>3 DEF Chain, TableTypes
<1>5. PendTypes' /\ MemoryTypes'
  BY <1>2, SMTT(30) DEF InsertRun, Chain, PendTypes, MemoryTypes
<1>6. BootPhase' /\ OneProcessor'
  BY <1>2, SMTT(30) DEF InsertRun, Chain, BootPhase, OneProcessor
<1>7. NextInChain'
  <2>1. events'[Len(runs')] = <<>>
    BY <1>2, <1>3 DEF Chain, TableTypes
  <2>2. \A c \in Consumer : pc'[c] = "idle"
    BY DEF InsertRun, Chain, BootPhase
  <2>3. boot = "insertRun" /\ boot' = "storeGenesis" /\ pend' = pend /\ twoConsumers' = twoConsumers
    BY DEF InsertRun
  <2> QED BY <2>1, <2>2, <2>3, Zenon DEF Chain, NextInChain, Hashed, CalculateEventHash, Payload
<1>8. ChainUnlessTimedOut'
  <2> SUFFICES ASSUME ~twoConsumers', NEW r \in DOMAIN events' PROVE Chained(events'[r])
    BY DEF ChainUnlessTimedOut
  <2>1. \A q \in DOMAIN events : Chained(events[q])
    BY DEF InsertRun, Chain, ChainUnlessTimedOut
  <2>2. /\ DOMAIN events = 1..Len(events) /\ Len(events) \in Nat
        /\ DOMAIN events' = 1..(Len(events) + 1)
    BY <1>3, LenProperties DEF Chain, TableTypes
  <2>3. CASE r \in 1..Len(events)
    BY <1>3, <2>1, <2>2, <2>3
  <2>4. CASE r = Len(events) + 1
    BY <1>3, <2>4, EmptyChain
  <2> QED BY <2>2, <2>3, <2>4, SMT
<1> QED BY <1>4, <1>5, <1>6, <1>7, <1>8 DEF Chain

LEMMA StoreGenesisStep ==
  ASSUME Chain, StoreGenesis
  PROVE  Chain'
<1>1. pend["loop"] \in Row
  BY SMT DEF StoreGenesis, Chain, BootPhase, PendTypes, Consumer
<1>2. /\ Len(runs) \in 1..Len(events) /\ Len(runs) \in Nat
  BY LenProperties, SMT DEF StoreGenesis, Chain, BootPhase, TableTypes
<1>3. /\ events' = [events EXCEPT ![Len(runs)] = Append(@, pend["loop"])]
      /\ UNCHANGED <<runs, twoConsumers>>
  BY DEF StoreGenesis
<1>4. TableTypes'
  BY <1>1, <1>2, <1>3, AppendRow, Zenon DEF Chain
<1>5. PendTypes' /\ MemoryTypes'
  BY <1>2, SMT DEF StoreGenesis, Chain, PendTypes, MemoryTypes, Consumer
<1>6. BootPhase' /\ OneProcessor'
  BY <1>2, SMTT(30) DEF StoreGenesis, Chain, BootPhase, OneProcessor, TableTypes
<1>7. NextInChain'
  BY Zenon DEF StoreGenesis, Chain, BootPhase, NextInChain
<1>8. ChainUnlessTimedOut'
  <2> SUFFICES ASSUME ~twoConsumers' PROVE \A r \in DOMAIN events' : Chained(events'[r])
    BY SMTT(30) DEF ChainUnlessTimedOut
  <2>1. /\ ~twoConsumers /\ events[Len(runs)] = <<>>
        /\ pend["loop"].seq = 0 /\ pend["loop"].prev = ZeroHash /\ Hashed(pend["loop"])
    BY <1>3, SMT DEF StoreGenesis, Chain, NextInChain, Hashed, CalculateEventHash, Payload
  <2>2. Len(events[Len(runs)]) = 0 /\ LinkTo(events[Len(runs)]) = ZeroHash
    BY <2>1, EmptySeq DEF LinkTo
  <2> QED BY <1>1, <1>2, <1>3, <2>1, <2>2, AppendRow, Zenon DEF Chain
<1> QED BY <1>4, <1>5, <1>6, <1>7, <1>8 DEF Chain

-----------------------------------------------------------------------------
\* The steps that write no row.

LEMMA HandOverStep ==
  ASSUME Chain, HandOver
  PROVE  Chain'
<1>0. /\ UNCHANGED <<tables, consumers, boot, runID, taskStates, made>>
      /\ boot = "on" /\ phase = "run"
  BY DEF HandOver
<1>1. CASE pc["loop"] = "idle" /\ phase' = "clean" /\ UNCHANGED twoConsumers
  <2>1. TableTypes' /\ PendTypes' /\ MemoryTypes' /\ BootPhase'
    BY <1>0, <1>1, Zenon DEF Chain, TableTypes, PendTypes, MemoryTypes, BootPhase
  <2>2. OneProcessor'
    BY <1>0, <1>1, SMTT(30) DEF Chain, OneProcessor
  <2>3. NextInChain' /\ ChainUnlessTimedOut'
    BY <1>0, <1>1, Zenon DEF Chain, NextInChain, ChainUnlessTimedOut, Rows, Hashed,
       CalculateEventHash, Payload
  <2> QED BY <2>1, <2>2, <2>3 DEF Chain
<1>2. CASE phase' = "timedOut" /\ twoConsumers' = TRUE
  <2>1. TableTypes' /\ PendTypes' /\ MemoryTypes' /\ BootPhase'
    BY <1>0, <1>2, Zenon DEF Chain, TableTypes, PendTypes, MemoryTypes, BootPhase
  <2>2. OneProcessor' /\ NextInChain' /\ ChainUnlessTimedOut'
    BY <1>2, Zenon DEF OneProcessor, NextInChain, ChainUnlessTimedOut
  <2> QED BY <2>1, <2>2 DEF Chain
<1> QED BY <1>1, <1>2, Zenon DEF HandOver

LEMMA CrashStep ==
  ASSUME Chain, Crash
  PROVE  Chain'
<1>0. /\ boot' = "off" /\ runID' = 0 /\ taskStates' = {} /\ phase' = "run"
      /\ pc' = [c \in Consumer |-> "idle"] /\ pend' = [c \in Consumer |-> NoRow]
      /\ UNCHANGED <<tables, made, twoConsumers>>
  BY DEF Crash
<1>1. TableTypes' /\ PendTypes'
  BY <1>0, SMT DEF Chain, TableTypes, PendTypes
<1>2. MemoryTypes'
  <2>1. Len(runs) \in Nat
    BY LenProperties DEF Chain, TableTypes
  <2> QED BY <1>0, <2>1, SMT DEF Chain, MemoryTypes, Step
<1>3. BootPhase' /\ OneProcessor' /\ NextInChain'
  BY <1>0, Zenon DEF BootPhase, OneProcessor, NextInChain, Consumer
<1>4. ChainUnlessTimedOut'
  BY <1>0, SMTT(30) DEF Chain, ChainUnlessTimedOut
<1> QED BY <1>1, <1>2, <1>3, <1>4 DEF Chain

(* Steps of the signer alone, rotations included.                          *)
LEMMA OtherStep ==
  ASSUME Chain, UNCHANGED <<tables, consumers, memory, made, twoConsumers>>
  PROVE  Chain'
BY Zenon
   DEF Chain, TableTypes, MemoryTypes, PendTypes, BootPhase, OneProcessor, NextInChain,
   ChainUnlessTimedOut, Rows, Hashed, CalculateEventHash, Payload

(* The flags stay Boolean.                                                 *)
LEMMA LedgerFlagsStep ==
  ASSUME LedgerFlags, LedgerNext
  PROVE  LedgerFlags'
BY ZenonT(40)
   DEF LedgerFlags, LedgerNext, StartStep, LoadRun, CreateGenesis, InsertRun, StoreGenesis,
   HandOver, Crash, SignerStep, ConsumerStep, TakeEvent, GetRunStats, GetLastEvent, SignHash,
   StoreTerminal, StoreOther, StoreEvent, Fail, Rekey

LEMMA ChainStep ==
  ASSUME Chain, SignerTypeOK, LedgerNext
  PROVE  Chain'
<1>1. CASE StartStep
  BY <1>1, LoadRunStep, CreateGenesisStep, InsertRunStep, StoreGenesisStep DEF StartStep
<1>2. CASE HandOver
  BY <1>2, HandOverStep
<1>3. CASE Crash
  BY <1>3, CrashStep
<1>4. CASE SignerStep
  BY <1>4, OtherStep DEF SignerStep
<1>5. ASSUME NEW c \in Consumer, ConsumerStep(c) PROVE Chain'
  BY <1>5, TakeEventStep, GetRunStatsStep, GetLastEventStep, SignHashStep, StoreTerminalStep,
     StoreOtherStep, FailStep, SMTT(30) DEF ConsumerStep
<1>6. ASSUME NEW r \in Rekeyer, Rekey(r) PROVE Chain'
  BY <1>6, OtherStep DEF Rekey
<1> QED BY <1>1, <1>2, <1>3, <1>4, <1>5, <1>6 DEF LedgerNext

-----------------------------------------------------------------------------
(* Whatever the ledger does, its signer behaves as Signer says, so that    *)
(* the theorems about Signer hold for the running system.                  *)
THEOREM LedgerUsesSigner == LedgerSpec => SignerSpec
<1>1. LedgerInit => SignerInit
  BY DEF LedgerInit
<1>2. [LedgerNext]_<<signerVars, ledgerVars>> => [SignerNext]_signerVars
  <2> SUFFICES ASSUME [LedgerNext]_<<signerVars, ledgerVars>>
               PROVE  SignerNext \/ UNCHANGED signerVars
    OBVIOUS
  <2>1. CASE StartStep
    BY <2>1, Zenon
       DEF StartStep, LoadRun, CreateGenesis, InsertRun, StoreGenesis
  <2>2. CASE HandOver
    BY <2>2, Zenon DEF HandOver
  <2>3. CASE Crash
    BY <2>3, Zenon DEF Crash, SignerNext
  <2>4. CASE SignerStep
    BY <2>4, Zenon DEF SignerStep, SignerNext
  <2>5. ASSUME NEW c \in Consumer, ConsumerStep(c) PROVE UNCHANGED signerVars
    BY <2>5, Zenon
       DEF ConsumerStep, TakeEvent, GetRunStats, GetLastEvent, SignHash,
       StoreTerminal, StoreOther, StoreEvent, Fail
  <2>6. ASSUME NEW r \in Rekeyer, Rekey(r) PROVE SignerNext
    BY <2>6, Zenon DEF Rekey, SignerNext
  <2>7. CASE UNCHANGED <<signerVars, ledgerVars>>
    BY <2>7, Zenon
  <2> QED BY <2>1, <2>2, <2>3, <2>4, <2>5, <2>6, <2>7, Zenon DEF LedgerNext
<1> QED BY <1>1, <1>2, PTL DEF LedgerSpec, SignerSpec

(* The inductive invariant of Ledger, for any number of events, tasks,     *)
(* keys and rotations.                                                     *)
THEOREM LedgerInvariant == LedgerSpec => []LedgerInv
<1>1. LedgerSpec => []SignerTypeOK
  <2>1. SignerInv => SignerTypeOK
    BY DEF SignerInv
  <2> QED BY <2>1, LedgerUsesSigner, SignerInvariant, PTL
<1>2. LedgerInit => Chain /\ LedgerFlags
  <2> SUFFICES ASSUME LedgerInit PROVE Chain /\ LedgerFlags
    OBVIOUS
  <2>1. LedgerFlags
    BY Zenon DEF LedgerInit, LedgerFlags
  <2>2. TableTypes /\ Len(runs) = 0
    <3>1. runs = <<>> /\ events = <<>>
      BY DEF LedgerInit
    <3> QED BY <3>1, EmptySeq DEF TableTypes
  <2>3. PendTypes /\ MemoryTypes
    BY <2>2, SMT DEF LedgerInit, PendTypes, MemoryTypes, Step
  <2>4. BootPhase /\ OneProcessor /\ NextInChain
    BY Zenon DEF LedgerInit, BootPhase, OneProcessor, NextInChain, Consumer
  <2>5. ChainUnlessTimedOut
    BY SMT DEF LedgerInit, ChainUnlessTimedOut
  <2> QED BY <2>1, <2>2, <2>3, <2>4, <2>5 DEF Chain
<1>3. Chain /\ LedgerFlags /\ SignerTypeOK /\ [LedgerNext]_<<signerVars, ledgerVars>>
        => Chain' /\ LedgerFlags'
  <2>1. ASSUME Chain, LedgerFlags, UNCHANGED <<signerVars, ledgerVars>>
        PROVE  Chain' /\ LedgerFlags'
    <3>1. LedgerFlags'
      BY <2>1, Zenon DEF LedgerFlags
    <3>2. UNCHANGED <<tables, consumers, memory, made, twoConsumers>>
      BY <2>1, Zenon
    <3> QED BY <2>1, <3>1, <3>2, OtherStep, Zenon
  <2> QED BY <2>1, ChainStep, LedgerFlagsStep
<1>4. Chain /\ LedgerFlags /\ SignerTypeOK => LedgerInv
  BY LedgerTypesSplit, Zenon DEF LedgerInv, Chain
<1> QED BY <1>1, <1>2, <1>3, <1>4, PTL DEF LedgerSpec

(* As long as no hand-over at shutdown times out, the events of every run  *)
(* form a hash chain without gap or repetition.                            *)
THEOREM LedgerIsAChain == LedgerSpec => []ChainUnlessTimedOut
<1>1. LedgerInv => ChainUnlessTimedOut
  BY SMTT(30) DEF LedgerInv
<1> QED BY <1>1, LedgerInvariant, PTL

(* Then the assertions of assignSequenceAndPrevHash never end the process. *)
THEOREM AssertionsHold == LedgerSpec => []NoFalseAlarm
<1>1. LedgerInv => NoFalseAlarm
  <2> SUFFICES ASSUME LedgerInv, ~twoConsumers, NEW c \in Consumer, pc[c] = "last",
                      NEW last \in LastEvents(Rows)
               PROVE  InSequence(pend[c].seq, last)
    BY Zenon DEF NoFalseAlarm
  <2>1. Chain
    BY LedgerTypesSplit, SMTT(30) DEF LedgerInv, Chain
  <2>2. Rows \in Seq(Row) /\ Chained(Rows) /\ pend[c].seq = Len(Rows)
    BY <2>1, Busy, Zenon DEF Ready
  <2> QED BY <2>2, LastOfChain, Zenon
<1> QED BY <1>1, LedgerInvariant, PTL

-----------------------------------------------------------------------------
\* There is one run.  With the invariant that makes the ledger an EventLog.

OneRun ==
  /\ Len(runs) <= 1
  /\ boot = "insertRun" => runs = <<>>

LEMMA OneRunStep ==
  ASSUME OneRun, Chain, [LedgerNext]_<<signerVars, ledgerVars>>
  PROVE  OneRun'
<1>1. runs \in Seq(RunRecord) /\ Len(runs) \in Nat
  BY LenProperties DEF Chain, TableTypes
<1>2. CASE InsertRun
  <2>1. runs = <<>> /\ boot' = "storeGenesis"
    BY <1>2 DEF InsertRun, OneRun
  <2>2. PICK x : runs' = Append(runs, x)
    BY <1>2, Zenon DEF InsertRun
  <2>3. Len(runs') = 1
    BY <2>1, <2>2, SMT
  <2> QED BY <2>1, <2>3, SMT DEF OneRun
<1>3. CASE LoadRun \/ StoreGenesis \/ Crash
  BY <1>3, Zenon DEF LoadRun, StoreGenesis, Crash, OneRun
<1>4. CASE CreateGenesis
  BY <1>4, Zenon DEF CreateGenesis, OneRun
<1>5. CASE HandOver \/ SignerStep \/ UNCHANGED <<signerVars, ledgerVars>>
  <2>1. UNCHANGED <<runs, boot>>
    BY <1>5, Zenon DEF HandOver, SignerStep
  <2> QED BY <2>1 DEF OneRun
<1>6. ASSUME NEW c \in Consumer, ConsumerStep(c) PROVE OneRun'
  <2>1. UNCHANGED <<runs, boot>>
    BY <1>6, Zenon
       DEF ConsumerStep, TakeEvent, GetRunStats, GetLastEvent, SignHash,
       StoreTerminal, StoreOther, StoreEvent, Fail
  <2> QED BY <2>1 DEF OneRun
<1>7. ASSUME NEW r \in Rekeyer, Rekey(r) PROVE OneRun'
  <2>1. UNCHANGED <<runs, boot>>
    BY <1>7, Zenon DEF Rekey
  <2> QED BY <2>1 DEF OneRun
<1> QED BY <1>2, <1>3, <1>4, <1>5, <1>6, <1>7, Zenon DEF LedgerNext, StartStep

\* What the readers see.
Visible == IF runs = <<>> THEN <<>> ELSE events[1]

(* A row that persistEvent appends continues the log.                      *)
LEMMA RowContinues ==
  ASSUME NEW rows \in Seq(Row), NEW e \in Row,
         e.seq = Len(rows), e.prev = LinkTo(rows), Hashed(e)
  PROVE  Log!Continues(rows, e)
<1>1. e.prev \in Seq(Digest) /\ Payload(e) \in Digest
  <2>1. e.prev \in Hash
    BY RowFields, Zenon
  <2>2. Payload(e) \in Digest
    BY SMT DEF Payload, Row, Digest
  <2> QED BY <2>1, <2>2 DEF Hash, Digest
<1>2. e.hash = Append(e.prev, Payload(e))
  BY SMTT(30) DEF Hashed, CalculateEventHash
<1> DEFINE h == e.hash
           s == e.prev
<1>3. /\ h \in Seq(Digest) /\ Len(h) = Len(s) + 1 /\ Len(s) \in Nat
      /\ \A i \in 1..Len(s) : h[i] = s[i]
  BY <1>1, <1>2, AppendProperties, LenProperties, SMTT(30)
<1> HIDE DEF h, s
<1>4. SubSeq(h, 1, Len(s)) = s
  <2>1. \A i \in 1..Len(s) : h[i] \in Digest
    BY <1>3, ElementOfSeq, SMTT(30)
  <2>2. /\ SubSeq(h, 1, Len(s)) \in Seq(Digest)
        /\ Len(SubSeq(h, 1, Len(s))) = Len(s)
        /\ \A i \in 1..Len(s) : SubSeq(h, 1, Len(s))[i] = h[i]
    BY <1>3, <2>1, SubSeqProperties, SMT
  <2>3. s \in Seq(Digest)
    BY <1>1 DEF s
  <2> QED BY <1>3, <2>2, <2>3, SeqEqual
<1>5. Log!Tip(rows) = LinkTo(rows)
  BY DEF Log!Tip, LinkTo
<1> QED BY <1>3, <1>4, <1>5 DEF Log!Continues, h, s

LEMMA StoreIsLogged ==
  ASSUME Chain, OneRun, NEW rn \in 1..Len(events), NEW e \in Row,
         events' = [events EXCEPT ![rn] = Append(@, e)], UNCHANGED <<runs, twoConsumers>>,
         ~twoConsumers => e.seq = Len(events[rn]) /\ e.prev = LinkTo(events[rn]) /\ Hashed(e)
  PROVE  Log!Store
<1>1. Len(runs) \in Nat /\ Len(events) = Len(runs) /\ events \in Seq(Seq(Row))
  BY LenProperties DEF Chain, TableTypes
<1>2. rn = 1 /\ Len(runs) = 1
  BY <1>1, SMT DEF OneRun
<1>3. runs # <<>> /\ runs' = runs
  <2>1. Len(<<>>) = 0
    BY EmptySeq
  <2>2. Len(runs) # 0
    BY <1>2, SMT
  <2> QED BY <2>1, <2>2, Zenon
<1> DEFINE rows == events[1]
<1>4. rows \in Seq(Row) /\ Len(rows) \in Nat
  BY <1>1, <1>2, ElementOfSeq, LenProperties, Zenon
<1>5. events'[1] = Append(rows, e)
  BY <1>1, <1>2, LenProperties, Zenon
<1> HIDE DEF rows
<1>6. Len(events'[1]) = Len(rows) + 1 /\ events'[1][Len(rows) + 1] = e
  BY <1>4, <1>5, AppendProperties
<1>7. ~twoConsumers => Log!Continues(rows, e)
  BY <1>2, <1>4, RowContinues, Zenon DEF rows
<1>8. Visible = rows /\ Visible' = events'[1]
  BY <1>3 DEF Visible, rows
<1> QED BY <1>5, <1>6, <1>7, <1>8, Zenon DEF Log!Store, Visible

(* Every step of the ledger is one of the log, or changes nothing in it.   *)
LEMMA LogStep ==
  ASSUME Chain, OneRun, LedgerFlags, [LedgerNext]_<<signerVars, ledgerVars>>
  PROVE  Log!LogNext \/ UNCHANGED <<Visible, twoConsumers>>
<1>1. ASSUME UNCHANGED <<tables, twoConsumers>> PROVE UNCHANGED <<Visible, twoConsumers>>
  BY <1>1 DEF Visible
<1>2. CASE LoadRun \/ CreateGenesis \/ Crash \/ SignerStep \/ UNCHANGED <<signerVars, ledgerVars>>
  <2>1. UNCHANGED <<tables, twoConsumers>>
    BY <1>2, Zenon DEF LoadRun, CreateGenesis, Crash, SignerStep
  <2> QED BY <1>1, <2>1
<1>3. CASE InsertRun
  <2>1. runs = <<>> /\ events' = Append(events, <<>>) /\ UNCHANGED twoConsumers
    BY <1>3, Zenon DEF InsertRun, OneRun
  <2>2. events = <<>>
    BY <2>1, EmptySeq, LenProperties DEF Chain, TableTypes
  <2>3. events'[1] = <<>>
    BY <2>1, <2>2, SMT
  <2>4. Visible = <<>> /\ Visible' = <<>>
    BY <2>1, <2>3, Zenon DEF Visible
  <2> QED BY <2>1, <2>4
<1>4. CASE StoreGenesis
  <2>1. /\ boot = "storeGenesis" /\ UNCHANGED <<runs, twoConsumers>>
        /\ events' = [events EXCEPT ![Len(runs)] = Append(@, pend["loop"])]
    BY <1>4, Zenon DEF StoreGenesis
  <2>2. Len(runs) \in 1..Len(events) /\ pend["loop"] \in Row
    BY <2>1, LenProperties, SMT DEF Chain, TableTypes, PendTypes, BootPhase, Consumer
  <2>3. ~twoConsumers => /\ pend["loop"].seq = 0 /\ pend["loop"].prev = ZeroHash
                         /\ Hashed(pend["loop"]) /\ events[Len(runs)] = <<>>
    BY <2>1, Zenon DEF Chain, NextInChain
  <2>4. Len(<<>>) = 0 /\ LinkTo(<<>>) = ZeroHash
    BY DEF LinkTo
  <2> QED BY <2>1, <2>2, <2>3, <2>4, StoreIsLogged, Zenon DEF Log!LogNext
<1>5. CASE HandOver
  <2>1. UNCHANGED tables /\ (UNCHANGED twoConsumers \/ twoConsumers' = TRUE)
    BY <1>5, Zenon DEF HandOver
  <2>2. UNCHANGED Visible
    BY <2>1 DEF Visible
  <2> QED BY <2>1, <2>2, Zenon DEF Log!LogNext, Log!Share, Visible
<1>6. ASSUME NEW c \in Consumer, ConsumerStep(c)
      PROVE  Log!LogNext \/ UNCHANGED <<Visible, twoConsumers>>
  <2>1. CASE StoreEvent(c)
    <3>1. /\ pc[c] = "store" /\ UNCHANGED <<runs, twoConsumers>>
          /\ events' = [events EXCEPT ![runID] = Append(@, pend[c])]
      BY <2>1, Zenon DEF StoreEvent
    <3>2. runID \in 1..Len(events) /\ pend[c] \in Row
      BY <3>1, Busy, Zenon
    <3>3. ~twoConsumers => Ready("store", pend[c])
      BY <3>1, Busy, Zenon
    <3> QED BY <3>1, <3>2, <3>3, StoreIsLogged, Zenon
               DEF Log!LogNext, Ready, Rows
  <2>2. CASE ~StoreEvent(c)
    <3>1. UNCHANGED <<tables, twoConsumers>>
      BY <1>6, <2>2, Zenon
         DEF ConsumerStep, TakeEvent, GetRunStats, GetLastEvent, SignHash,
         StoreTerminal, StoreOther, Fail
    <3> QED BY <1>1, <3>1
  <2> QED BY <2>1, <2>2
<1>7. ASSUME NEW r \in Rekeyer, Rekey(r) PROVE UNCHANGED <<Visible, twoConsumers>>
  <2>1. UNCHANGED <<tables, twoConsumers>>
    BY <1>7, Zenon DEF Rekey
  <2> QED BY <1>1, <2>1
<1> QED BY <1>2, <1>3, <1>4, <1>5, <1>6, <1>7, Zenon DEF LedgerNext, StartStep

(* The ledger implements the append-only log that its readers rely on, for *)
(* any number of events, tasks, keys, crashes and rotations                *)
(* (processor.go:72-125, store/events.go:49-80, genesis.go:77-82).         *)
THEOREM LedgerImplementsLog == LedgerSpec => ImplementsLog
<1>1. LedgerInit => Log!LogInit /\ OneRun
  <2> SUFFICES ASSUME LedgerInit PROVE Log!LogInit /\ OneRun
    OBVIOUS
  <2>1. runs = <<>> /\ boot = "off" /\ twoConsumers = FALSE
    BY Zenon DEF LedgerInit
  <2>2. Len(runs) = 0
    BY <2>1
  <2> QED BY <2>1, <2>2, SMT DEF Log!LogInit, OneRun
<1>2. LedgerInv => Chain /\ LedgerFlags
  BY LedgerTypesSplit, Zenon DEF LedgerInv, Chain
<1>3. OneRun /\ LedgerInv /\ [LedgerNext]_<<signerVars, ledgerVars>> => OneRun'
  BY <1>2, OneRunStep, Zenon
<1>4. OneRun /\ LedgerInv /\ [LedgerNext]_<<signerVars, ledgerVars>>
        => [Log!LogNext]_<<Visible, twoConsumers>>
  BY <1>2, LogStep
<1> QED BY <1>1, <1>3, <1>4, LedgerInvariant, PTL DEF LedgerSpec, ImplementsLog, Log!LogSpec, Visible
=============================================================================
