----------------------------- MODULE Telemetry -----------------------------
(***************************************************************************)
(* The latency histogram of the worker (recordLatency in worker.go) and    *)
(* the scrape of the metrics (collectMetrics in internal/api/handlers.go), *)
(* which loads one counter after the other while the goroutines of module  *)
(* EventPool go on.  The other counters and the gauges are loaded too, but *)
(* nothing relates one load of them to another.                            *)
(***************************************************************************)
EXTENDS EventPool, Functions

CONSTANT Buckets  \* the number of buckets of the histogram

ASSUME BucketAssumption == Buckets \in Nat \ {0}

Bucket == 1..Buckets

VARIABLES
  latencyBuckets, latencyCount,
  scrape,     \* what the scraper loads next: 0 is the number of processed events,
              \* then come the buckets and the count
  seen        \* what it has loaded: of the buckets the sum is kept

latencyVars   == <<latencyBuckets, latencyCount>>
scrapeVars    == <<scrape, seen>>
telemetryVars == <<eventPoolVars, latencyVars, scrapeVars>>

Unseen == [processed |-> 0, inBuckets |-> 0]

TelemetryInit ==
  /\ EventPoolInit
  /\ latencyBuckets = [b \in Bucket |-> 0] /\ latencyCount = 0
  /\ scrape = 0 /\ seen = Unseen

-----------------------------------------------------------------------------
\* recordLatency, one atomic addition at a time.

\* No time at all: the count comes first.
RecordZeroUncounted(c) ==
  /\ up /\ pc[c] = "stored"
  /\ GoTo(c, "zero")
  /\ UNCHANGED <<poolVars, queued, has, extra, closing, up, counterVars, latencyVars, scrapeVars>>

RecordZero(c) ==
  /\ up /\ pc[c] = "stored"
  /\ latencyCount' = latencyCount + 1
  /\ GoTo(c, "zero")
  /\ UNCHANGED <<poolVars, queued, has, extra, closing, up, counterVars,
                 latencyBuckets, scrapeVars>>

RecordZeroBucket(c) ==
  /\ up /\ pc[c] = "zero"
  /\ latencyBuckets' = [latencyBuckets EXCEPT ![1] = @ + 1]
  /\ GoTo(c, "timed")
  /\ UNCHANGED <<poolVars, queued, has, extra, closing, up, counterVars,
                 latencyCount, scrapeVars>>

\* The first bucket whose bound is not exceeded; the last has no bound.
RecordAllBuckets(c) ==
  /\ up /\ pc[c] = "stored"
  /\ \E b \in Bucket :
       latencyBuckets' = [i \in Bucket |-> latencyBuckets[i] + IF i >= b THEN 1 ELSE 0]
  /\ GoTo(c, "count")
  /\ UNCHANGED <<poolVars, queued, has, extra, closing, up, counterVars,
                 latencyCount, scrapeVars>>

RecordBucket(c) ==
  /\ up /\ pc[c] = "stored"
  /\ \E b \in Bucket : latencyBuckets' = [latencyBuckets EXCEPT ![b] = @ + 1]
  /\ GoTo(c, "count")
  /\ UNCHANGED <<poolVars, queued, has, extra, closing, up, counterVars,
                 latencyCount, scrapeVars>>

RecordCount(c) ==
  /\ up /\ pc[c] = "count"
  /\ latencyCount' = latencyCount + 1
  /\ GoTo(c, "timed")
  /\ UNCHANGED <<poolVars, queued, has, extra, closing, up, counterVars,
                 latencyBuckets, scrapeVars>>

-----------------------------------------------------------------------------
\* collectMetrics: Stats, then LatencyMetrics.  With the count the scrape is
\* complete and leaves the process.

LoadProcessed ==
  /\ up /\ scrape = 0
  /\ seen' = [seen EXCEPT !.processed = processed] /\ scrape' = 1
  /\ UNCHANGED <<eventPoolVars, latencyVars>>

LoadBucket ==
  /\ up /\ scrape \in Bucket
  /\ seen' = [seen EXCEPT !.inBuckets = @ + latencyBuckets[scrape]]
  /\ scrape' = scrape + 1
  /\ UNCHANGED <<eventPoolVars, latencyVars>>

LoadCount ==
  /\ up /\ scrape = Buckets + 1
  /\ seen' = Unseen /\ scrape' = 0
  /\ UNCHANGED <<eventPoolVars, latencyVars>>

Scrape == LoadProcessed \/ LoadBucket \/ LoadCount

RecordLatency(c) ==
  RecordZero(c) \/ RecordZeroBucket(c) \/ RecordBucket(c) \/ RecordCount(c)

TelemetryNext ==
  \/ EventPoolNext /\ UNCHANGED <<latencyVars, scrapeVars>>
  \/ \E c \in Consumer : RecordLatency(c)
  \/ Scrape

TelemetrySpec == TelemetryInit /\ [][TelemetryNext]_telemetryVars
-----------------------------------------------------------------------------

EventPoolTypeOK ==
  /\ free \subseteq Obj /\ queued \subseteq Obj /\ ev \in [Obj -> Event]
  /\ pc \in [Actor -> {"idle", "got", "fill", "submit", "process", "complete", "terminal",
                       "completed", "stored", "zero", "count", "timed", "done"}]
  /\ has \in [Actor -> Obj \cup {NoObj}] /\ extra \in [Consumer -> Obj \cup {NoObj}]
  /\ closing \in BOOLEAN /\ up \in BOOLEAN
  /\ hits \in Nat /\ misses \in Nat /\ processed \in Nat

(* An event struct is in one place: the pool, the ring buffer, or the      *)
(* hands of one goroutine.  Get and put are far apart, in different        *)
(* goroutines (pool.go:49-118, worker.go:423 and 492, processor.go:175-200) *)
EventHasOneOwner ==
  /\ free \cap queued = {}
  /\ Held \cap (free \cup queued) \subseteq {NoObj}
  /\ \A a, b \in Actor : a # b /\ has[a] # NoObj => has[a] # has[b]
  /\ \A c \in Consumer : extra[c] # NoObj =>
       /\ \A a \in Actor : has[a] # extra[c]
       /\ \A d \in Consumer : c # d => extra[d] # extra[c]

(* What is recorded of a message is of that message: no field of an event  *)
(* that is submitted or stored holds a value of an earlier use of its      *)
(* struct, though PutEvent keeps the timestamp and the maps, and most      *)
(* makers leave fields unset (pool.go:58-118, server.go:212, 318,          *)
(* worker.go:441, processor.go:175).                                       *)
NothingLeaks ==
  /\ \A o \in queued : ev[o].old = {}
  /\ \A p \in Client : pc[p] = "submit" => ev[has[p]].old = {}
  /\ \A c \in Consumer :
       /\ pc[c] # "idle" => ev[has[c]].old = {}
       /\ pc[c] = "completed" => ev[extra[c]].old = {}

(* The inductive invariant behind the two: a goroutine has an event just   *)
(* from its get to its submit or put, and no field but the timestamp keeps *)
(* a value of an earlier use (pool.go:49-118, worker.go:466-498).          *)
HandsMatchSteps ==
  /\ \A p \in Client : pc[p] \in {"idle", "got", "fill", "submit"}
  /\ \A a \in Actor : has[a] = NoObj <=> pc[a] = "idle"
  /\ \A c \in Consumer :
       extra[c] = NoObj <=> pc[c] \notin {"got", "terminal", "completed"}

PoolInv ==
  /\ EventPoolTypeOK /\ HandsMatchSteps /\ EventHasOneOwner /\ NothingLeaks
  /\ \A o \in Obj : ev[o].old \subseteq {"time"}

In(steps) == Cardinality({a \in Actor : pc[a] \in steps})

(* The histogram, its count and the number of processed events drift apart *)
(* by no more than the consumers that are between two of the additions     *)
(* (worker.go:490-491, 512-527).                                           *)
LatencyBalance ==
  /\ latencyCount = processed + In({"zero", "timed"})
  /\ FoldFunction(+, 0, latencyBuckets) + In({"zero"}) = latencyCount + In({"count"})

(* A scrape is no snapshot, but the count it ends with is never below the  *)
(* number of processed events it began with, nor below the sum of the      *)
(* buckets by more than one for each consumer: each counter is added to    *)
(* before, and loaded after, the one it bounds (handlers.go:160-163,       *)
(* worker.go:283-319, 490-527).                                            *)
ScrapeIsConsistent ==
  scrape = Buckets + 1 =>
    /\ seen.processed <= latencyCount
    /\ seen.inBuckets <= latencyCount + Cardinality(Consumer)
=============================================================================
