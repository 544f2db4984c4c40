--------------------------- MODULE ServiceProofs ---------------------------
(***************************************************************************)
(* Proofs about the service's parts, for any processes and migrations, any *)
(* callers, limits and lifetimes, any categories, any rows and any cards.  *)
(* Each part has an inductive invariant of its own: migrations are         *)
(* committed once and in order (BootIInv), no cache outgrows its limit     *)
(* (CacheIInv), what a cache answers was said lately (SaidIInv), a walk    *)
(* shows every row (PagesIInv), the mosaic is in order (FeedIInv), so are  *)
(* the sections of a feed (SectionsIInv), a card shows its picture first   *)
(* (CardIInv).  The types follow from these and three more.                *)
(***************************************************************************)
EXTENDS Service, FiniteSetTheorems, SequenceTheorems, TLAPS

Places == {"down", "connected", "check", "body", "record", "commit", "serving",
           "draining"}

BootTypes ==
    /\ proc \in [Processes -> [at : Places, i : Nat \ {0}]]
    /\ schema \in Seq(Migrations)

\* A process inside the transaction of a file is at a file of its own.
AtFile ==
    \A p \in Processes :
       proc[p].at \in {"body", "record", "commit"} => proc[p].i \in DOMAIN Files[p]

\* What a process has passed is committed.
PassedCommitted == \A p \in Processes : proc[p].i - 1 <= Len(schema)

\* Whoever is about to commit a version is alone with it, and it is new.
CommitsAlone ==
    \A p \in Processes : In(p, "commit") =>
       /\ File(p) \notin versions
       /\ \A q \in Processes \ {p} : In(q, "commit") => File(q) # File(p)

\* The inductive invariant of the start of processes.
BootIInv ==
    BootTypes /\ AtFile /\ PassedCommitted /\ CommitsAlone /\ MigratedInOrder

LEMMA BootInitIInv == BootInit => BootIInv
<1>. SUFFICES ASSUME BootInit PROVE BootIInv
  OBVIOUS
<1>1. \A p \in Processes : proc[p] = [at |-> "down", i |-> 1]
  BY DEF BootInit, Down
<1>2. schema = <<>> /\ versions = {} /\ Len(schema) = 0 /\ DOMAIN schema = {}
  BY DEF BootInit
<1>3. BootTypes
  BY <1>2 DEF BootInit, BootTypes, Down, Places
<1>4. AtFile /\ PassedCommitted /\ CommitsAlone
  BY <1>1, <1>2 DEF AtFile, PassedCommitted, CommitsAlone, In
<1>5. MigratedInOrder
  BY <1>1, <1>2 DEF MigratedInOrder
<1>. QED
  BY <1>3, <1>4, <1>5 DEF BootIInv

\* A step that leaves the database alone and moves one process to a place where
\* nothing is asked of it.
LEMMA QuietStep ==
    ASSUME BootIInv, NEW p \in Processes, NEW at \in Places, NEW i \in Nat \ {0},
           proc' = [proc EXCEPT ![p] = [at |-> at, i |-> i]],
           UNCHANGED <<versions, schema>>,
           i - 1 <= Len(schema),
           at \in {"body", "record", "commit"} => i \in DOMAIN Files[p],
           at = "commit" =>
              /\ Files[p][i] \notin versions
              /\ \A q \in Processes \ {p} : In(q, "commit") => File(q) # Files[p][i],
           at \in {"serving", "draining"} => Len(Files[p]) <= Len(schema)
    PROVE  BootIInv'
<1>1. /\ proc'[p] = [at |-> at, i |-> i]
      /\ \A q \in Processes \ {p} : proc'[q] = proc[q]
  BY DEF BootIInv, BootTypes
<1>2. BootTypes'
  BY DEF BootIInv, BootTypes
<1>3. AtFile'
  BY <1>1 DEF BootIInv, AtFile
<1>4. PassedCommitted'
  BY <1>1 DEF BootIInv, PassedCommitted
<1>5. CommitsAlone'
  BY <1>1 DEF BootIInv, CommitsAlone, In, File
<1>6. MigratedInOrder'
  BY <1>1 DEF BootIInv, MigratedInOrder
<1>. QED
  BY <1>2, <1>3, <1>4, <1>5, <1>6 DEF BootIInv

\* In a process's own order, a version that is recorded lies among those that
\* are committed.
LEMMA RecordedIsBehind ==
    ASSUME BootIInv, NEW p \in Processes, NEW i \in DOMAIN Files[p],
           i - 1 <= Len(schema)
    PROVE  Files[p][i] \in versions <=> i <= Len(schema)
<1>1. Files[p] \in Seq(Migrations) /\ schema \in Seq(Migrations)
  BY FilesAssumption DEF BootIInv, BootTypes
<1>2. /\ \A j \in DOMAIN schema \cap DOMAIN Files[p] : schema[j] = Files[p][j]
      /\ versions = {schema[j] : j \in DOMAIN schema}
  BY DEF BootIInv, MigratedInOrder
<1>3. i \in Nat \ {0} /\ DOMAIN schema = 1..Len(schema)
      /\ DOMAIN Files[p] = 1..Len(Files[p])
  BY <1>1
<1>4. ASSUME i <= Len(schema)
      PROVE  Files[p][i] \in versions
  BY <1>2, <1>3, <1>4
<1>5. ASSUME ~(i <= Len(schema)), NEW j \in DOMAIN schema
      PROVE  schema[j] # Files[p][i]
  <2>1. j \in DOMAIN Files[p] /\ j # i
    BY <1>1, <1>3, <1>5
  <2>. QED
    BY <1>2, <2>1, FilesAssumption
<1>. QED
  BY <1>2, <1>4, <1>5

LEMMA CommitFileStep ==
    ASSUME BootIInv, NEW p \in Processes, CommitFile(p)
    PROVE  BootIInv'
<1>. DEFINE i == proc[p].i
            n == Len(schema)
<1>1. /\ proc[p].at = "commit" /\ i \in Nat \ {0} /\ i \in DOMAIN Files[p]
      /\ i - 1 <= n /\ File(p) = Files[p][i]
  BY DEF BootIInv, BootTypes, AtFile, PassedCommitted, CommitFile, In, File
<1>2. Files[p] \in Seq(Migrations) /\ schema \in Seq(Migrations)
  BY FilesAssumption DEF BootIInv, BootTypes
<1>3. File(p) \notin versions /\ i = n + 1
  <2>1. File(p) \notin versions
    BY <1>1 DEF BootIInv, CommitsAlone, In
  <2>. QED
    BY <1>1, <1>2, <2>1, RecordedIsBehind
<1>4. /\ schema' = Append(schema, File(p))
      /\ versions' = versions \cup {File(p)}
      /\ proc'[p] = [at |-> "check", i |-> i + 1]
      /\ \A q \in Processes \ {p} : proc'[q] = proc[q]
      /\ proc' \in [Processes -> [at : Places, i : Nat \ {0}]]
  BY <1>1 DEF BootIInv, BootTypes, CommitFile, Places
<1>5. File(p) \in Migrations
  BY <1>1 DEF Migrations
<1>6. /\ schema' \in Seq(Migrations) /\ Len(schema') = n + 1 /\ n \in Nat
      /\ DOMAIN schema = 1..n /\ DOMAIN schema' = 1..(n + 1)
      /\ \A j \in 1..n : schema'[j] = schema[j]
      /\ schema'[n + 1] = File(p)
  BY <1>2, <1>4, <1>5
<1>7. BootTypes'
  BY <1>4, <1>6 DEF BootTypes
<1>8. AtFile'
  BY <1>4 DEF BootIInv, AtFile
<1>9. PassedCommitted'
  BY <1>3, <1>4, <1>6 DEF BootIInv, BootTypes, PassedCommitted
<1>10. CommitsAlone'
  <2>1. ASSUME NEW q \in Processes, proc'[q].at = "commit"
        PROVE  /\ q # p /\ proc'[q] = proc[q] /\ proc[q].at = "commit"
               /\ File(q) \notin versions /\ File(q) # File(p)
    BY <1>1, <1>4, <2>1 DEF BootIInv, CommitsAlone, In
  <2>2. ASSUME NEW q \in Processes, proc'[q].at = "commit"
        PROVE  File(q)' = File(q) /\ File(q) \notin versions'
    BY <1>4, <2>1, <2>2 DEF File
  <2>3. ASSUME NEW q \in Processes, proc'[q].at = "commit",
               NEW r \in Processes \ {q}, proc'[r].at = "commit"
        PROVE  File(r) # File(q)
    BY <2>1, <2>3 DEF BootIInv, CommitsAlone, In
  <2>. QED
    BY <2>2, <2>3 DEF CommitsAlone, In
<1>11. MigratedInOrder'
  <2>1. versions = {schema[j] : j \in 1..n}
        /\ \A j, k \in 1..n : schema[j] = schema[k] => j = k
    BY <1>6 DEF BootIInv, MigratedInOrder
  <2>2. \A j, k \in DOMAIN schema' : schema'[j] = schema'[k] => j = k
    BY <1>3, <1>6, <2>1
  <2>3. {schema'[j] : j \in DOMAIN schema'} = versions'
    BY <1>4, <1>6, <2>1
  <2>4. ASSUME NEW q \in Processes, NEW j \in DOMAIN schema' \cap DOMAIN Files[q]
        PROVE  schema'[j] = Files[q][j]
    <3>1. CASE j \in 1..n
      BY <1>6, <2>4, <3>1 DEF BootIInv, MigratedInOrder
    <3>2. CASE j = n + 1
      <4>1. Files[q] \in Seq(Migrations) /\ j \in 1..Len(Files[p]) \cap 1..Len(Files[q])
        BY <1>1, <1>2, <1>3, <2>4, <3>2, FilesAssumption
      <4>2. Files[p][j] = Files[q][j]
        BY <4>1, FilesAssumption
      <4>. QED
        BY <1>1, <1>3, <1>6, <3>2, <4>2
    <3>. QED
      BY <1>6, <3>1, <3>2
  <2>5. ASSUME NEW q \in Processes, proc'[q].at \in {"serving", "draining"}
        PROVE  Len(Files[q]) <= Len(schema')
    <3>1. q # p /\ proc[q].at \in {"serving", "draining"}
      BY <1>4, <2>5
    <3>2. Files[q] \in Seq(Migrations) /\ Len(Files[q]) <= n
      BY <3>1, FilesAssumption DEF BootIInv, MigratedInOrder
    <3>. QED
      BY <1>6, <3>2
  <2>. QED
    BY <2>2, <2>3, <2>4, <2>5 DEF MigratedInOrder
<1>. QED
  BY <1>7, <1>8, <1>9, <1>10, <1>11 DEF BootIInv

LEMMA BootStep ==
    ASSUME BootIInv, BootNext
    PROVE  BootIInv'
<1>. PICK p \in Processes : Connect(p) \/ Migrate(p) \/ Exit(p) \/ Shutdown(p)
  BY DEF BootNext
<1>. DEFINE i == proc[p].i
<1>1. /\ proc \in [Processes -> [at : Places, i : Nat \ {0}]]
      /\ i \in Nat \ {0} /\ i - 1 <= Len(schema)
      /\ Len(schema) \in Nat /\ Files[p] \in Seq(Migrations)
  BY FilesAssumption DEF BootIInv, BootTypes, PassedCommitted
<1>2. ASSUME NEW at \in Places, proc' = [proc EXCEPT ![p].at = at]
      PROVE  proc' = [proc EXCEPT ![p] = [at |-> at, i |-> i]]
  <2>1. proc[p] \in [at : Places, i : Nat \ {0}]
    BY <1>1
  <2>2. [proc[p] EXCEPT !.at = at] = [at |-> at, i |-> i]
    BY <2>1
  <2>. QED
    BY <1>2, <2>2
<1>3. CASE Connect(p)
  <2>1. proc' = [proc EXCEPT ![p] = [at |-> "connected", i |-> i]]
        /\ UNCHANGED <<versions, schema>>
    BY <1>2, <1>3 DEF Connect, Step, Places
  <2>. QED
    BY <1>1, <2>1, QuietStep DEF Places
<1>4. CASE EnsureTable(p)
  <2>1. proc' = [proc EXCEPT ![p] = [at |-> "check", i |-> i]]
        /\ UNCHANGED <<versions, schema>>
    BY <1>2, <1>4 DEF EnsureTable, Step, Places
  <2>. QED
    BY <1>1, <2>1, QuietStep DEF Places
<1>5. CASE Check(p)
  <2>1. CASE i > Len(Files[p])
    <3>1. proc' = [proc EXCEPT ![p] = [at |-> "serving", i |-> i]]
          /\ UNCHANGED <<versions, schema>>
      BY <1>2, <1>5, <2>1 DEF Check, Step, Places
    <3>2. Len(Files[p]) <= Len(schema)
      BY <1>1, <2>1
    <3>. QED
      BY <1>1, <3>1, <3>2, QuietStep DEF Places
  <2>2. CASE ~(i > Len(Files[p])) /\ File(p) \in versions
    <3>1. i \in DOMAIN Files[p] /\ In(p, "check")
      BY <1>1, <1>5, <2>2 DEF Check
    <3>2. i <= Len(schema)
      BY <1>1, <2>2, <3>1, RecordedIsBehind DEF File
    <3>3. proc' = [proc EXCEPT ![p] = [at |-> "check", i |-> i + 1]]
          /\ UNCHANGED <<versions, schema>>
      <4>1. proc[p] \in [at : Places, i : Nat \ {0}] /\ proc[p].at = "check"
        BY <1>1, <3>1 DEF In
      <4>2. [proc[p] EXCEPT !.i = @ + 1] = [at |-> "check", i |-> i + 1]
        BY <4>1
      <4>. QED
        BY <1>5, <2>2, <4>2 DEF Check
    <3>4. i + 1 \in Nat \ {0} /\ (i + 1) - 1 <= Len(schema)
      BY <1>1, <3>2
    <3>. QED
      BY <3>3, <3>4, QuietStep DEF Places
  <2>3. CASE ~(i > Len(Files[p])) /\ File(p) \notin versions
    <3>1. proc' = [proc EXCEPT ![p] = [at |-> "body", i |-> i]]
          /\ UNCHANGED <<versions, schema>>
      BY <1>2, <1>5, <2>3 DEF Check, Step, Places
    <3>2. i \in DOMAIN Files[p]
      BY <1>1, <2>3
    <3>. QED
      BY <1>1, <3>1, <3>2, QuietStep DEF Places
  <2>. QED
    BY <2>1, <2>2, <2>3
<1>6. CASE Apply(p)
  <2>1. proc' = [proc EXCEPT ![p] = [at |-> "record", i |-> i]]
        /\ UNCHANGED <<versions, schema>>
    BY <1>2, <1>6 DEF Apply, Step, Places
  <2>2. i \in DOMAIN Files[p]
    BY <1>6 DEF Apply, In, BootIInv, AtFile
  <2>. QED
    BY <1>1, <2>1, <2>2, QuietStep DEF Places
<1>7. CASE Record(p)
  <2>1. proc' = [proc EXCEPT ![p] = [at |-> "commit", i |-> i]]
        /\ UNCHANGED <<versions, schema>>
    BY <1>2, <1>7 DEF Record, Step, Places
  <2>2. i \in DOMAIN Files[p]
    BY <1>7 DEF Record, In, BootIInv, AtFile
  <2>3. /\ Files[p][i] \notin versions
        /\ \A q \in Processes \ {p} : In(q, "commit") => File(q) # Files[p][i]
    BY <1>7 DEF Record, NewVersion, File
  <2>. QED
    BY <1>1, <2>1, <2>2, <2>3, QuietStep DEF Places
<1>8. CASE CommitFile(p)
  BY <1>8, CommitFileStep
<1>9. CASE Exit(p)
  <2>1. proc' = [proc EXCEPT ![p] = [at |-> "down", i |-> 1]]
        /\ UNCHANGED <<versions, schema>>
    BY <1>9 DEF Exit, Down
  <2>2. 1 \in Nat \ {0} /\ 1 - 1 <= Len(schema)
    BY <1>1
  <2>. QED
    BY <2>1, <2>2, QuietStep DEF Places
<1>10. CASE Shutdown(p)
  <2>1. proc' = [proc EXCEPT ![p] = [at |-> "draining", i |-> i]]
        /\ UNCHANGED <<versions, schema>>
    BY <1>2, <1>10 DEF Shutdown, Step, Places
  <2>2. Len(Files[p]) <= Len(schema)
    BY <1>10 DEF Shutdown, In, BootIInv, MigratedInOrder
  <2>. QED
    BY <1>1, <2>1, <2>2, QuietStep DEF Places
<1>. QED
  BY <1>3, <1>4, <1>5, <1>6, <1>7, <1>8, <1>9, <1>10 DEF Migrate

\* No process and no crash leads out of the invariant.
LEMMA BootAlways == Spec => []BootIInv
<1>1. Init => BootIInv
  BY BootInitIInv DEF Init
<1>2. BootIInv /\ [Next]_vars => BootIInv'
  <2>1. ASSUME BootIInv, UNCHANGED bootVars
        PROVE  BootIInv'
    BY <2>1 DEF BootIInv, BootTypes, AtFile, PassedCommitted, CommitsAlone,
                MigratedInOrder, In, File, bootVars
  <2>2. [Next]_vars => BootNext \/ UNCHANGED bootVars
    BY DEF Next, ContentActs, FeedActs, CardActs, BootActs, PagesActs, vars
  <2>. QED
    BY <2>1, <2>2, BootStep
<1>. QED
  BY <1>1, <1>2, PTL DEF Spec

\* However many processes migrate one database and wherever they die, migrations
\* are committed once and in order, as recorded, and whoever serves has its own.
THEOREM MigrationsInOrder == Spec => []MigratedInOrder
<1>1. BootIInv => MigratedInOrder
  BY DEF BootIInv
<1>. QED
  BY <1>1, BootAlways, PTL

-----------------------------------------------------------------------------

\* Who waits, waits for a service there is.
AsksService ==
    /\ DOMAIN asking = Callers
    /\ \A c \in Callers : asking[c].at # "idle" => asking[c].service \in Services

\* Every cache is finite and within its limit.
CacheSizes ==
    /\ DOMAIN cache = Services
    /\ \A s \in Services : /\ IsFiniteSet(DOMAIN cache[s])
                           /\ Cardinality(DOMAIN cache[s]) <= CacheMax

\* The inductive invariant of the sizes of caches.
CacheIInv == AsksService /\ CacheSizes

\* Whatever put evicts, there is room for one more.
LEMMA EvictionsMakeRoom ==
    ASSUME NEW m, IsFiniteSet(DOMAIN m), NEW t, NEW kept \in Evictions(m, t)
    PROVE  IsFiniteSet(kept) /\ Cardinality(kept) < CacheMax
<1>. DEFINE live == Live(m, t)
<1>1. live \in SUBSET DOMAIN m
  BY DEF Live
<1>2. IsFiniteSet(live)
  BY <1>1, FS_Subset
<1>3. CASE kept = DOMAIN m /\ Cardinality(DOMAIN m) < CacheMax
  BY <1>3
<1>4. CASE kept = live /\ Cardinality(live) < CacheMax
  BY <1>2, <1>4
<1>5. CASE kept \in SUBSET live /\ Cardinality(kept) = CacheMax - 1
  <2>1. IsFiniteSet(kept)
    BY <1>2, <1>5, FS_Subset
  <2>. QED
    BY <1>5, <2>1, CacheMaxAssumption
<1>. QED
  BY <1>3, <1>4, <1>5 DEF Evictions

\* A put leaves a cache within its limit, whether or not the key was there.
LEMMA PutWithinLimit ==
    ASSUME NEW m, IsFiniteSet(DOMAIN m), NEW key, NEW val, NEW t, NEW ttl,
           NEW after \in AfterPut(m, key, val, t, ttl)
    PROVE  IsFiniteSet(DOMAIN after) /\ Cardinality(DOMAIN after) <= CacheMax
<1>1. PICK kept \in Evictions(m, t) :
         after = Put([k \in kept |-> m[k]], key, [val |-> val, expires |-> t + ttl])
  BY DEF AfterPut
<1>2. DOMAIN after = kept \cup {key}
  BY <1>1 DEF Put
<1>3. IsFiniteSet(kept) /\ Cardinality(kept) < CacheMax
  BY EvictionsMakeRoom
<1>4. Cardinality(kept) \in Nat
  BY <1>3, FS_CardinalityType
<1>5. IsFiniteSet(kept \cup {key})
      /\ Cardinality(kept \cup {key}) \in {Cardinality(kept), Cardinality(kept) + 1}
  BY <1>3, FS_AddElement
<1>. QED
  BY <1>2, <1>3, <1>4, <1>5, CacheMaxAssumption

LEMMA StoreKeepsSizes ==
    ASSUME CacheIInv, NEW c \in Callers, NEW v, asking[c].at # "idle", Store(c, v)
    PROVE  CacheSizes'
<1>. DEFINE s == asking[c].service
<1>1. s \in Services /\ DOMAIN cache = Services /\ IsFiniteSet(DOMAIN cache[s])
  BY DEF CacheIInv, AsksService, CacheSizes
<1>2. PICK after \in AfterPut(cache[s], asking[c].key, v, clock, Ttl[s]) :
         cache' = [cache EXCEPT ![s] = after]
  BY DEF Store
<1>3. IsFiniteSet(DOMAIN after) /\ Cardinality(DOMAIN after) <= CacheMax
  BY <1>1, <1>2, PutWithinLimit
<1>. QED
  BY <1>1, <1>2, <1>3 DEF CacheIInv, CacheSizes

\* A caller that is answered, or asks the next host, waits for a service still.
LEMMA SettleKeepsAsking ==
    ASSUME AsksService, NEW c \in Callers,
           \/ Settle(c)
           \/ \E s \in Services : \E k, host : Ask(c, s, k, host)
    PROVE  AsksService'
BY DEF AsksService, Settle, Ask, NotAsking

LEMMA ContentStep ==
    ASSUME CacheIInv, ContentNext
    PROVE  CacheIInv'
<1>1. AsksService /\ CacheSizes
  BY DEF CacheIInv
<1>2. ASSUME UNCHANGED cache
      PROVE  CacheSizes'
  BY <1>1, <1>2 DEF CacheSizes
<1>3. ASSUME NEW c \in Callers, NEW s \in Services, NEW k \in Keys, Miss(c, s, k)
      PROVE  CacheIInv'
  BY <1>1, <1>2, <1>3, SettleKeepsAsking DEF Miss, CacheIInv
<1>4. ASSUME NEW c \in Callers, asking[c].at = "upstream", NEW v, NEW reply,
             Hear(c, v, reply), UNCHANGED cache
      PROVE  CacheIInv'
  <2>1. AsksService'
    BY <1>1, <1>4 DEF AsksService, Hear
  <2>. QED
    BY <1>2, <1>4, <2>1 DEF CacheIInv
<1>5. ASSUME NEW c \in Callers, Receive(c)
      PROVE  CacheIInv'
  <2>1. AsksService'
    BY <1>1, <1>5, SettleKeepsAsking DEF Receive
  <2>2. asking[c].at # "idle" /\ (Store(c, asking[c].val) \/ UNCHANGED cache)
    BY <1>5 DEF Receive
  <2>3. CacheSizes'
    BY <1>2, <2>2, StoreKeepsSizes
  <2>. QED
    BY <2>1, <2>3 DEF CacheIInv
<1>6. ASSUME NEW c \in Callers, NEW services, NoAnswer(c, services)
      PROVE  CacheIInv'
  BY <1>1, <1>2, <1>6, SettleKeepsAsking DEF NoAnswer, CacheIInv
<1>7. ASSUME NEW c \in Callers, Summary(c)
      PROVE  CacheIInv'
  <2>1. asking[c].at # "idle"
    BY <1>7 DEF Summary
  <2>2. Settle(c) \/ Ask(c, "wiki", asking[c].key, 2)
    BY <1>7 DEF Summary
  <2>3. AsksService'
    BY <1>1, <2>2, SettleKeepsAsking DEF Services
  <2>4. UNCHANGED cache \/ \E v : Store(c, v)
    BY <1>7 DEF Summary
  <2>5. CacheSizes'
    BY <1>2, <2>1, <2>4, StoreKeepsSizes
  <2>. QED
    BY <2>3, <2>5 DEF CacheIInv
<1>8. CASE ContentTick
  BY <1>1, <1>8 DEF ContentTick, CacheIInv, AsksService, CacheSizes
<1>. QED
  BY <1>3, <1>4, <1>5, <1>6, <1>7, <1>8
     DEF ContentNext, Say, Refuse, Get, GetBytes, PostBytes

\* For every limit, number of callers and keys: no cache outgrows its limit.
THEOREM CachesStayBounded == Spec => []CachesBounded
<1>1. Init => CacheIInv
  <2>1. Cardinality(DOMAIN EmptyTable) = 0 /\ IsFiniteSet(DOMAIN EmptyTable)
    BY FS_EmptySet DEF EmptyTable
  <2>. QED
    BY <2>1, CacheMaxAssumption
       DEF Init, ContentInit, CacheIInv, AsksService, CacheSizes, NotAsking
<1>2. CacheIInv /\ [Next]_vars => CacheIInv'
  <2>1. ASSUME CacheIInv, UNCHANGED contentVars
        PROVE  CacheIInv'
    BY <2>1 DEF CacheIInv, AsksService, CacheSizes, contentVars
  <2>2. [Next]_vars => ContentNext \/ UNCHANGED contentVars
    BY DEF Next, ContentActs, FeedActs, CardActs, BootActs, PagesActs, vars
  <2>. QED
    BY <2>1, <2>2, ContentStep
<1>3. CacheIInv => CachesBounded
  BY DEF CacheIInv, CacheSizes, CachesBounded
<1>. QED
  BY <1>1, <1>2, <1>3, PTL DEF Spec

-----------------------------------------------------------------------------
(***************************************************************************)
(* What is cached was said.  A reply is no older than the call that it     *)
(* answers, and a call no older than the timeout: so what is put was said  *)
(* at most a timeout ago, and it expires at most the lifetime later.       *)
(***************************************************************************)

\* The services that may keep an empty result nobody said.
MayKeepMiss == {"wiki", "commons", "trails"}

\* A result for key k of service s: just what was said of it, or an empty one.
Said(s, k, v) ==
    /\ v.said = {} => v = Empty
    /\ \A saying \in v.said :
          /\ saying.service = s /\ saying.key = k
          /\ saying.content = v.content
          /\ saying.at \in Nat

\* The entry of key k in the cache of service s says so, and expires in time.
Dated(s, k, e) ==
    /\ Said(s, k, e.val) /\ e.expires \in Nat
    /\ e.val.said = {} => s \in MayKeepMiss
    /\ \A saying \in e.val.said : e.expires <= saying.at + Ttl[s] + Timeout

\* A call has lasted no longer than the timeout; its reply, unless it is a
\* refusal, was said meanwhile.
Timely(q) ==
    /\ q.at \in {"idle", "upstream", "reply"}
    /\ q.at # "idle" =>
          q.service \in Services /\ q.since \in Nat /\ clock <= q.since + Timeout
    /\ q.at = "reply" =>
          /\ Said(q.service, q.key, q.val)
          /\ (q.reply = "refused") = (q.val.said = {})
          /\ \A saying \in q.val.said : q.since <= saying.at

\* The inductive invariant of what is cached and on its way.
SaidIInv ==
    /\ clock \in Nat
    /\ DOMAIN cache = Services
    /\ \A s \in Services : \A k \in DOMAIN cache[s] : Dated(s, k, cache[s][k])
    /\ DOMAIN asking = Callers
    /\ \A c \in Callers : Timely(asking[c])
    /\ \A c \in Callers : asking[c].at # "idle" => asking[c].since <= clock

\* What is found after a put was put, or was there.
LEMMA PutLookup ==
    ASSUME NEW t, NEW S, NEW key, NEW e, NEW after,
           after = Put([j \in S |-> t[j]], key, e), NEW k \in DOMAIN after
    PROVE  (k = key /\ after[k] = e) \/ (k \in S /\ after[k] = t[k])
BY DEF Put

\* A put adds a dated entry and leaves others as they are, or drops them.
LEMMA StoreDated ==
    ASSUME SaidIInv, NEW c \in Callers, asking[c].at # "idle", NEW v, Store(c, v),
           Said(asking[c].service, asking[c].key, v), clock' = clock,
           v.said = {} => asking[c].service \in MayKeepMiss,
           \A saying \in v.said : clock <= saying.at + Timeout
    PROVE  /\ DOMAIN cache' = Services
           /\ \A s \in Services : \A k \in DOMAIN cache'[s] : Dated(s, k, cache'[s][k])
<1>. DEFINE s == asking[c].service
            e == [val |-> v, expires |-> clock + Ttl[s]]
<1>1. s \in Services /\ DOMAIN cache = Services /\ clock \in Nat
  BY DEF SaidIInv, Timely
<1>2. PICK kept \in Evictions(cache[s], clock) :
         cache' = [cache EXCEPT ![s] = Put([k \in kept |-> cache[s][k]], asking[c].key, e)]
  BY DEF Store, AfterPut
<1>3. kept \subseteq DOMAIN cache[s]
  BY DEF Evictions, Live
<1>4. Ttl[s] \in Nat /\ Timeout \in Nat
  BY <1>1, ContentAssumption
<1>5. Dated(s, asking[c].key, e)
  BY <1>1, <1>4 DEF Dated, Said
<1>. HIDE DEF e
<1>6. ASSUME NEW k \in DOMAIN cache'[s]
      PROVE  Dated(s, k, cache'[s][k])
  <2>1. cache'[s] = Put([j \in kept |-> cache[s][j]], asking[c].key, e)
    BY <1>1, <1>2
  <2>2. \/ k = asking[c].key /\ cache'[s][k] = e
        \/ k \in kept /\ cache'[s][k] = cache[s][k]
    BY <2>1, <1>6, PutLookup
  <2>. QED
    BY <1>1, <1>3, <1>5, <2>2 DEF SaidIInv
<1>7. ASSUME NEW r \in Services, r # s
      PROVE  cache'[r] = cache[r]
  BY <1>1, <1>2, <1>7
<1>. QED
  BY <1>1, <1>2, <1>6, <1>7 DEF SaidIInv

\* Whoever is answered, or asks from now on, is on time.
LEMMA AskingTimely ==
    ASSUME SaidIInv, clock' = clock, NEW c \in Callers,
           \/ Settle(c)
           \/ \E s \in Services : \E k, host : Ask(c, s, k, host)
    PROVE  /\ DOMAIN asking' = Callers
           /\ \A d \in Callers : Timely(asking[d])'
           /\ \A d \in Callers : asking'[d].at # "idle" => asking'[d].since <= clock'
<1>1. Timeout \in Nat
  BY ContentAssumption
<1>2. /\ DOMAIN asking' = Callers
      /\ \A d \in Callers \ {c} : asking'[d] = asking[d]
  BY DEF Settle, Ask, SaidIInv
<1>3. CASE Settle(c)
  <2>1. asking'[c] = NotAsking
    BY <1>3 DEF Settle, SaidIInv
  <2>. QED
    BY <1>2, <2>1 DEF SaidIInv, Timely, NotAsking
<1>4. ASSUME NEW s \in Services, NEW k, NEW host, Ask(c, s, k, host)
      PROVE  asking'[c] = [at |-> "upstream", service |-> s, key |-> k,
                           host |-> host, since |-> clock]
  BY <1>4 DEF Ask, SaidIInv
<1>5. CASE \E s \in Services : \E k, host : Ask(c, s, k, host)
  <2>1. /\ asking'[c].at = "upstream" /\ asking'[c].service \in Services
        /\ asking'[c].since = clock
    <3>1. PICK s \in Services : \E k, host : Ask(c, s, k, host)
      BY <1>5
    <3>2. PICK k, host : Ask(c, s, k, host)
      BY <3>1
    <3>3. asking'[c] = [at |-> "upstream", service |-> s, key |-> k,
                        host |-> host, since |-> clock]
      BY <1>4, <3>2
    <3>. QED
      BY <3>3
  <2>. QED
    BY <1>1, <1>2, <2>1 DEF SaidIInv, Timely
<1>. QED
  BY <1>3, <1>5

LEMMA SaidStep ==
    ASSUME SaidIInv, ContentNext
    PROVE  SaidIInv'
<1>1. ASSUME NEW c \in Callers, NEW s \in Services, NEW k \in Keys, Miss(c, s, k)
      PROVE  SaidIInv'
  BY <1>1, AskingTimely DEF Miss, SaidIInv
<1>2. ASSUME NEW c \in Callers, asking[c].at = "upstream", NEW v, NEW reply,
             Hear(c, v, reply), UNCHANGED <<clock, cache>>,
             Said(asking[c].service, asking[c].key, v),
             (reply = "refused") = (v.said = {}), \A saying \in v.said : saying.at = clock
      PROVE  SaidIInv'
  <2>1. /\ asking'[c] = [at |-> "reply", service |-> asking[c].service,
                         key |-> asking[c].key, host |-> asking[c].host,
                         since |-> asking[c].since, val |-> v, reply |-> reply]
        /\ DOMAIN asking' = Callers
        /\ \A d \in Callers \ {c} : asking'[d] = asking[d]
    BY <1>2 DEF Hear, SaidIInv
  <2>2. Timely(asking[c])'
    BY <1>2, <2>1 DEF SaidIInv, Timely
  <2>3. asking'[c].since <= clock'
    BY <1>2, <2>1 DEF SaidIInv
  <2>. QED
    BY <1>2, <2>1, <2>2, <2>3 DEF SaidIInv, Timely
<1>3. ASSUME NEW c \in Callers, Receive(c)
      PROVE  SaidIInv'
  <2>1. asking[c].at = "reply" /\ clock' = clock /\ Settle(c)
    BY <1>3 DEF Receive
  <2>2. CASE UNCHANGED cache
    BY <2>1, <2>2, AskingTimely DEF SaidIInv
  <2>3. CASE Keeps(asking[c].service, asking[c].reply) /\ Store(c, asking[c].val)
    <3>1. /\ asking[c].service \in Services \ {"wiki"}
          /\ Said(asking[c].service, asking[c].key, asking[c].val)
      BY <1>3, <2>1 DEF SaidIInv, Timely, Receive
    <3>2. asking[c].reply = "refused" => asking[c].service \in MayKeepMiss
      BY <2>3, <3>1 DEF Keeps, TextSearch, Details, ReverseGeocode, Lookup, Services, MayKeepMiss
    <3>3. (asking[c].reply = "refused") = (asking[c].val.said = {})
      BY <2>1 DEF SaidIInv, Timely
    <3>4. asking[c].val.said = {} => asking[c].service \in MayKeepMiss
      BY <3>2, <3>3
    <3>5. \A saying \in asking[c].val.said : clock <= saying.at + Timeout
      BY <2>1, ContentAssumption DEF SaidIInv, Timely, Said
    <3>. QED
      BY <2>1, <2>3, <3>1, <3>4, <3>5, StoreDated, AskingTimely DEF SaidIInv
  <2>. QED
    BY <1>3, <2>2, <2>3 DEF Receive
<1>4. ASSUME NEW c \in Callers, NEW services, NoAnswer(c, services)
      PROVE  SaidIInv'
  BY <1>4, AskingTimely DEF NoAnswer, SaidIInv
<1>5. ASSUME NEW c \in Callers, Summary(c)
      PROVE  SaidIInv'
  <2>1. asking[c].at # "idle" /\ clock' = clock /\ asking[c].service = "wiki"
    BY <1>5 DEF Summary
  <2>2. CASE UNCHANGED cache /\ Ask(c, "wiki", asking[c].key, 2)
    BY <2>1, <2>2, AskingTimely DEF SaidIInv, Services
  <2>3. CASE Store(c, Empty) /\ Settle(c)
    BY <2>1, <2>3, StoreDated, AskingTimely DEF SaidIInv, Said, Empty, MayKeepMiss
  <2>4. CASE /\ asking[c].at = "reply" /\ asking[c].reply = "found"
             /\ Store(c, asking[c].val) /\ Settle(c)
    <3>1. /\ Said("wiki", asking[c].key, asking[c].val) /\ asking[c].val.said # {}
          /\ \A saying \in asking[c].val.said : clock <= saying.at + Timeout
      BY <2>1, <2>4, ContentAssumption DEF SaidIInv, Timely, Said
    <3>. QED
      BY <2>1, <2>4, <3>1, StoreDated, AskingTimely DEF SaidIInv
  <2>. QED
    BY <1>5, <2>2, <2>3, <2>4 DEF Summary
<1>6. CASE ContentTick
  <2>1. /\ clock' = clock + 1 /\ UNCHANGED <<cache, asking>>
        /\ \A c \in Callers : asking[c].at # "idle" => clock < asking[c].since + Timeout
    BY <1>6 DEF ContentTick, Asking
  <2>. QED
    BY <2>1, ContentAssumption DEF SaidIInv, Timely
<1>7. ASSUME NEW c \in Callers, NEW v, Say(c, v)
      PROVE  SaidIInv'
  <2>. DEFINE saying == [service |-> asking[c].service, key |-> asking[c].key,
                         content |-> v, at |-> clock]
              r == [content |-> v, said |-> {saying}]
  <2>1. /\ saying.service = asking[c].service /\ saying.key = asking[c].key
        /\ saying.content = v /\ saying.at = clock /\ clock \in Nat
    BY DEF SaidIInv
  <2>2. /\ Hear(c, r, IF v = Nothing THEN "nothing" ELSE "found")
        /\ asking[c].at = "upstream" /\ UNCHANGED <<clock, cache>>
    BY <1>7 DEF Say
  <2>. HIDE DEF saying
  <2>3. r.content = v /\ r.said = {saying}
    OBVIOUS
  <2>. HIDE DEF r
  <2>4. Said(asking[c].service, asking[c].key, r)
    BY <2>1, <2>3 DEF Said
  <2>5. ASSUME NEW reply, Hear(c, r, reply), reply # "refused" PROVE SaidIInv'
    BY <1>2, <2>1, <2>2, <2>3, <2>4, <2>5
  <2>. QED
    BY <2>2, <2>5
<1>8. ASSUME NEW c \in Callers, Refuse(c)
      PROVE  SaidIInv'
  <2>1. Said(asking[c].service, asking[c].key, Empty) /\ Empty.said = {}
    BY DEF Said, Empty
  <2>. QED
    BY <1>2, <1>8, <2>1 DEF Refuse
<1>. QED
  BY <1>1, <1>3, <1>4, <1>5, <1>6, <1>7, <1>8 DEF ContentNext, Get, GetBytes, PostBytes

\* wiki.go:105, places.go:135, cache.go:29: for every lifetime and timeout, and
\* however calls overlap, a hit is something upstream said and not too old, or a
\* miss of the three clients that keep misses.
THEOREM HitsWereSaid == Spec => []CachedWasSaid
<1>1. Init => SaidIInv
  BY DEF Init, ContentInit, SaidIInv, EmptyTable, NotAsking, Timely
<1>2. SaidIInv /\ [Next]_vars => SaidIInv'
  <2>1. ASSUME SaidIInv, UNCHANGED contentVars
        PROVE  SaidIInv'
    BY <2>1 DEF SaidIInv, Timely, contentVars
  <2>2. [Next]_vars => ContentNext \/ UNCHANGED contentVars
    BY DEF Next, ContentActs, FeedActs, CardActs, BootActs, PagesActs, vars
  <2>. QED
    BY <2>1, <2>2, SaidStep
<1>3. SaidIInv => CachedWasSaid
  <2>. SUFFICES ASSUME SaidIInv, NEW s \in Services, NEW k \in Live(cache[s], clock)
                PROVE  LET v == cache[s][k].val IN
                       \/ \E saying \in v.said :
                             /\ saying.service = s /\ saying.key = k
                             /\ saying.content = v.content
                             /\ clock - saying.at <= Ttl[s] + Timeout
                       \/ v = Empty /\ s \in {"wiki", "commons", "trails"}
    BY DEF CachedWasSaid
  <2>1. k \in DOMAIN cache[s] /\ ~(clock > cache[s][k].expires)
    BY DEF Live
  <2>2. Dated(s, k, cache[s][k]) /\ clock \in Nat
    BY <2>1 DEF SaidIInv
  <2>3. Ttl[s] \in Nat /\ Timeout \in Nat
    BY ContentAssumption
  <2>. QED
    BY <2>1, <2>2, <2>3 DEF Dated, Said, MayKeepMiss
<1>. QED
  BY <1>1, <1>2, <1>3, PTL DEF Spec

-----------------------------------------------------------------------------
(***************************************************************************)
(* Walks.  Every row shown is no older than the beginning of the cursor's  *)
(* millisecond, and every row of the walk's beginning that is not shown    *)
(* yet is older, or of a millisecond in which a page ended.                *)
(***************************************************************************)

\* The rows that were inserted, whatever became of them.
Born == {r \in RowIds : rows[r] # "unborn"}

PageTypes ==
    /\ micros \in Nat
    /\ rows \in [RowIds -> {"unborn", "pending", "there", "gone"}]
    /\ created \in [RowIds -> Nat]
    /\ IsFiniteSet(Born)
    /\ walk.seen \in Seq(Born)
    /\ walk.lasts \subseteq Born
    /\ walk.since \subseteq There
    /\ walk.before \in Nat \cup {NoCursor}
    /\ walk.before # NoCursor => walk.limit \in Nat \ {0}
    /\ walk.ended => walk.before = NoCursor

\* Newest first, each row once.
Descending(list) ==
    \A i, j \in DOMAIN list : i < j =>
       list[i] # list[j] /\ created[list[i]] >= created[list[j]]

\* What was shown is no older than the cursor.
NoneOlder(list, before) ==
    before # NoCursor => \A i \in DOMAIN list : created[list[i]] >= before * PerMs

\* The rows of the beginning that a walk has neither shown nor passed over are
\* those that its cursor leads to.
AllAhead(seen, before, lasts, since) ==
    \A r \in since : (\A i \in DOMAIN seen : seen[i] # r) =>
       \/ before # NoCursor /\ created[r] < before * PerMs
       \/ \E l \in lasts : Ms(created[r]) = Ms(created[l])

\* The inductive invariant of a walk.
PagesIInv ==
    /\ PageTypes
    /\ Descending(walk.seen)
    /\ NoneOlder(walk.seen, walk.before)
    /\ AllAhead(walk.seen, walk.before, walk.lasts, walk.since)

\* A time is in its millisecond.
LEMMA MsFacts ==
    ASSUME NEW t \in Nat
    PROVE  /\ Ms(t) \in Nat
           /\ Ms(t) * PerMs <= t
           /\ t < (Ms(t) + 1) * PerMs
<1>1. PerMs \in Nat \ {0}
  BY PagesAssumption
<1>. QED
  BY <1>1 DEF Ms

\* Whatever is not later than a row of the same or a later millisecond is of that
\* millisecond or before its beginning.
LEMMA BeforeMs ==
    ASSUME NEW s \in Nat, NEW t \in Nat, s <= t
    PROVE  Ms(s) = Ms(t) \/ s < Ms(t) * PerMs
<1>1. PerMs \in Nat \ {0}
  BY PagesAssumption
<1>2. /\ Ms(s) \in Nat /\ Ms(s) * PerMs <= s /\ s < (Ms(s) + 1) * PerMs
      /\ Ms(t) \in Nat /\ Ms(t) * PerMs <= t /\ t < (Ms(t) + 1) * PerMs
  BY MsFacts
<1>. QED
  BY <1>1, <1>2

\* The limit a client gets is at least one.
LEMMA PaginationPositive ==
    ASSUME NEW list \in Lists, NEW ask \in Asks
    PROVE  Pagination(list, ask) \in Nat \ {0}
BY PagesAssumption DEF Pagination

\* A page holds candidates, newest first; it leaves out only rows that are no newer
\* than its last one, and only when it is full.
LEMMA PagingFacts ==
    ASSUME created \in [RowIds -> Nat], NEW C \in SUBSET RowIds, IsFiniteSet(C),
           NEW limit \in Nat \ {0}, NEW page \in Pagings(C, limit)
    PROVE  /\ page \in Seq(C)
           /\ Descending(page)
           /\ \A r \in C : (\A i \in DOMAIN page : page[i] # r) =>
                 /\ Len(page) = limit
                 /\ created[r] <= created[page[Len(page)]]
<1>. DEFINE n == IF Cardinality(C) < limit THEN Cardinality(C) ELSE limit
<1>1. Cardinality(C) \in Nat
  BY FS_CardinalityType
<1>2. n \in Nat /\ n <= Cardinality(C) /\ (n = limit \/ n = Cardinality(C))
  BY <1>1
<1>3. /\ page \in [1..n -> C]
      /\ \A i, j \in 1..n : i < j => /\ page[i] # page[j]
                                     /\ created[page[i]] >= created[page[j]]
      /\ \A r \in C : (\A i \in 1..n : page[i] # r) =>
            \A i \in 1..n : created[r] <= created[page[i]]
  BY DEF Pagings
<1>. HIDE DEF n
<1>4. page \in Seq(C) /\ Len(page) = n /\ DOMAIN page = 1..n
  BY <1>2, <1>3
<1>5. Descending(page)
  BY <1>3, <1>4 DEF Descending
<1>6. ASSUME NEW r \in C, \A i \in 1..n : page[i] # r
      PROVE  n = limit
  <2>1. SUFFICES ASSUME n = Cardinality(C) PROVE FALSE
    BY <1>2
  <2>2. IsFiniteSet(1..n) /\ Cardinality(1..n) = n
    BY <1>2, FS_Interval
  <2>3. \A i, j \in 1..n : page[i] = page[j] => i = j
    BY <1>2, <1>3
  <2>4. page \in Injection(1..n, C)
    BY <1>3, <2>3 DEF Injection, IsInjective
  <2>5. page \in Surjection(1..n, C)
    BY <2>1, <2>2, <2>4, FS_Injection
  <2>. QED
    BY <1>6, <2>5 DEF Surjection
<1>7. ASSUME NEW r \in C, \A i \in 1..n : page[i] # r
      PROVE  created[r] <= created[page[n]]
  <2>1. n \in 1..n
    BY <1>2, <1>6, <1>7
  <2>. QED
    BY <1>3, <1>7, <2>1
<1>. QED
  BY <1>4, <1>5, <1>6, <1>7

\* A page that is read after another continues it.
LEMMA ReadPageStep ==
    ASSUME PageTypes, UNCHANGED <<micros, rows, created>>,
           NEW list, NEW limit \in Nat \ {0}, NEW before \in Nat \cup {NoCursor},
           NEW seen \in Seq(Born), NEW lasts \in SUBSET Born, NEW since \in SUBSET There,
           ReadPage(list, limit, before, seen, lasts, since),
           Descending(seen), NoneOlder(seen, before),
           IF before = NoCursor THEN seen = <<>>
           ELSE AllAhead(seen, before, lasts, since)
    PROVE  PagesIInv'
<1>. DEFINE C == OlderThan(before)
<1>1. PICK page \in Pagings(C, limit) :
         walk' = [list |-> list, limit |-> limit, before |-> NextCursor(page, limit),
                  seen |-> seen \o page, since |-> since,
                  lasts |-> IF page = <<>> THEN lasts ELSE lasts \cup {page[Len(page)]},
                  ended |-> NextCursor(page, limit) = NoCursor]
  BY DEF ReadPage
<1>2. C \subseteq There /\ There \subseteq Born /\ Born \subseteq RowIds
  BY DEF OlderThan, There, Born
<1>3. IsFiniteSet(C) /\ created \in [RowIds -> Nat] /\ PerMs \in Nat \ {0}
  BY <1>2, FS_Subset, PagesAssumption DEF PageTypes
<1>4. /\ page \in Seq(C)
      /\ Descending(page)
      /\ \A r \in C : (\A i \in DOMAIN page : page[i] # r) =>
            /\ Len(page) = limit
            /\ created[r] <= created[page[Len(page)]]
  BY <1>1, <1>2, <1>3, PagingFacts
<1>. DEFINE n == Len(page)
            m == Len(seen)
            all == seen \o page
            next == NextCursor(page, limit)
<1>5. /\ n \in Nat /\ m \in Nat /\ DOMAIN page = 1..n /\ DOMAIN seen = 1..m
      /\ \A i \in 1..n : page[i] \in C
      /\ \A i \in 1..m : seen[i] \in Born
  BY <1>4, LenProperties, ElementOfSeq
<1>6. /\ all \in Seq(Born) /\ DOMAIN all = 1..(m + n)
      /\ \A i \in 1..m : all[i] = seen[i]
      /\ \A i \in 1..n : all[m + i] = page[i]
  <2>1. page \in Seq(Born)
    BY <1>2, <1>4
  <2>2. /\ all \in Seq(Born) /\ Len(all) = m + n
        /\ \A i \in 1..(m + n) : all[i] = IF i <= m THEN seen[i] ELSE page[i - m]
    BY <2>1, ConcatProperties
  <2>3. DOMAIN all = 1..(m + n)
    BY <2>2, LenProperties
  <2>4. \A i \in 1..m : i \in 1..(m + n) /\ i <= m
    BY <1>5
  <2>5. \A i \in 1..n : m + i \in 1..(m + n) /\ ~(m + i <= m) /\ m + i - m = i
    BY <1>5
  <2>6. \A i \in 1..m : all[i] = seen[i]
    BY <2>2, <2>4, Zenon
  <2>7. \A i \in 1..n : all[m + i] = page[i]
    <3>. SUFFICES ASSUME NEW i \in 1..n PROVE all[m + i] = page[i]
      OBVIOUS
    <3>1. all[m + i] = page[m + i - m]
      BY <2>2, <2>5
    <3>. QED
      BY <2>5, <3>1, Zenon
  <2>. QED
    BY <2>2, <2>3, <2>6, <2>7
<1>. HIDE DEF C, n, m, all
\* Every row of the page is older than the rows seen before.
<1>7. \A i \in 1..m, j \in 1..n :
         seen[i] # page[j] /\ created[seen[i]] >= created[page[j]]
  <2>. SUFFICES ASSUME NEW i \in 1..m, NEW j \in 1..n
                PROVE  seen[i] # page[j] /\ created[seen[i]] >= created[page[j]]
    OBVIOUS
  <2>1. before # NoCursor
    BY <1>5 DEF m
  <2>2. created[seen[i]] >= before * PerMs
    BY <1>5, <2>1 DEF NoneOlder
  <2>3. created[page[j]] < before * PerMs
    BY <1>5, <2>1 DEF C, OlderThan
  <2>4. created[seen[i]] \in Nat /\ created[page[j]] \in Nat /\ before * PerMs \in Nat
    BY <1>2, <1>3, <1>5, <2>1
  <2>. QED
    BY <2>2, <2>3, <2>4
<1>8. Descending(all)
  <2>. SUFFICES ASSUME NEW i \in 1..(m + n), NEW j \in 1..(m + n), i < j
                PROVE  all[i] # all[j] /\ created[all[i]] >= created[all[j]]
    BY <1>6 DEF Descending
  <2>1. CASE j <= m
    <3>1. i \in 1..m /\ j \in 1..m
      BY <1>5, <2>1
    <3>. QED
      BY <1>5, <1>6, <3>1 DEF Descending
  <2>2. CASE i <= m /\ ~(j <= m)
    <3>1. i \in 1..m /\ j - m \in 1..n /\ m + (j - m) = j
      BY <1>5, <2>2
    <3>2. all[i] = seen[i] /\ all[j] = page[j - m]
      BY <1>6, <3>1
    <3>. QED
      BY <1>7, <3>1, <3>2
  <2>3. CASE ~(i <= m)
    <3>1. i - m \in 1..n /\ j - m \in 1..n /\ m + (i - m) = i /\ m + (j - m) = j
          /\ i - m < j - m
      BY <1>5, <2>3
    <3>2. all[i] = page[i - m] /\ all[j] = page[j - m]
      BY <1>6, <3>1
    <3>. QED
      BY <1>4, <1>5, <3>1, <3>2 DEF Descending
  <2>. QED
    BY <2>1, <2>2, <2>3
\* Where the next page begins.
<1>9. n >= 1 => page[n] \in C /\ created[page[n]] \in Nat /\ page[n] \in Born
  BY <1>2, <1>3, <1>5
<1>10. \/ next = NoCursor
       \/ n >= 1 /\ n = limit /\ next = Ms(created[page[n]]) /\ next \in Nat
  <2>1. CASE page # <<>> /\ n = limit /\ Ms(created[page[n]]) > 0
    <3>1. n >= 1
      BY <1>5, <2>1
    <3>2. Ms(created[page[n]]) \in Nat
      BY <1>9, <3>1, MsFacts
    <3>. QED
      BY <2>1, <3>1, <3>2 DEF NextCursor, n
  <2>2. CASE ~(page # <<>> /\ n = limit /\ Ms(created[page[n]]) > 0)
    BY <2>2 DEF NextCursor, n
  <2>. QED
    BY <2>1, <2>2
<1>11. NoneOlder(all, next)
  <2>. SUFFICES ASSUME next # NoCursor, NEW i \in 1..(m + n)
                PROVE  created[all[i]] >= next * PerMs
    BY <1>6 DEF NoneOlder
  <2>1. n >= 1 /\ next = Ms(created[page[n]]) /\ all[m + n] = page[n]
    BY <1>5, <1>6, <1>10
  <2>2. created[page[n]] >= next * PerMs
    BY <1>3, <1>9, <2>1, MsFacts
  <2>3. created[all[i]] >= created[page[n]]
    <3>1. CASE i = m + n
      <4>1. all[i] = page[n] /\ created[page[n]] \in Nat
        BY <1>9, <2>1, <3>1
      <4>. QED
        BY <4>1
    <3>2. CASE i < m + n
      <4>1. m + n \in 1..(m + n)
        BY <1>5, <2>1
      <4>2. i \in DOMAIN all /\ m + n \in DOMAIN all
        BY <1>6, <4>1
      <4>. QED
        BY <1>8, <2>1, <3>2, <4>2 DEF Descending
    <3>. QED
      BY <1>5, <3>1, <3>2
  <2>4. created[all[i]] \in Nat /\ created[page[n]] \in Nat /\ next * PerMs \in Nat
    <3>1. all[i] \in Born
      BY <1>6, ElementOfSeq, LenProperties
    <3>. QED
      BY <1>2, <1>3, <1>10, <1>9, <2>1, <3>1
  <2>. QED
    BY <2>2, <2>3, <2>4
<1>. DEFINE ends == IF page = <<>> THEN lasts ELSE lasts \cup {page[Len(page)]}
<1>12. /\ lasts \subseteq ends /\ ends \subseteq Born
       /\ n >= 1 => page[n] \in ends
  BY <1>5, <1>9 DEF n
<1>. HIDE DEF ends
<1>13. AllAhead(all, next, ends, since)
  <2>. SUFFICES ASSUME NEW r \in since, \A i \in DOMAIN all : all[i] # r
                PROVE  \/ next # NoCursor /\ created[r] < next * PerMs
                       \/ \E l \in ends : Ms(created[r]) = Ms(created[l])
    BY DEF AllAhead
  <2>1. \A i \in DOMAIN seen : seen[i] # r
    BY <1>5, <1>6
  <2>2. \A i \in DOMAIN page : page[i] # r
    <3>1. \A i \in 1..n : m + i \in 1..(m + n)
      BY <1>5
    <3>. QED
      BY <1>5, <1>6, <3>1
  <2>3. CASE before = NoCursor \/ created[r] < before * PerMs
    <3>1. r \in C
      BY <2>3 DEF C, OlderThan
    <3>2. n = limit /\ created[r] <= created[page[n]]
      BY <1>4, <2>2, <3>1 DEF n
    <3>3. n >= 1 /\ created[r] \in Nat
      BY <1>2, <1>3, <3>1, <3>2
    <3>4. CASE Ms(created[r]) = Ms(created[page[n]])
      BY <1>12, <3>3, <3>4
    <3>5. CASE created[r] < Ms(created[page[n]]) * PerMs
      <4>1. Ms(created[page[n]]) \in Nat /\ Ms(created[page[n]]) > 0
        <5>1. Ms(created[page[n]]) \in Nat
          BY <1>9, <3>3, MsFacts
        <5>. QED
          BY <1>3, <3>3, <3>5, <5>1
      <4>2. next = Ms(created[page[n]])
        BY <1>5, <3>2, <3>3, <4>1 DEF NextCursor, n
      <4>. QED
        BY <3>5, <4>1, <4>2 DEF NoCursor
    <3>. QED
      BY <1>9, <3>2, <3>3, <3>4, <3>5, BeforeMs
  <2>4. CASE \E l \in lasts : Ms(created[r]) = Ms(created[l])
    BY <1>12, <2>4
  <2>. QED
    BY <2>1, <2>3, <2>4 DEF AllAhead
<1>14. /\ walk'.seen = all /\ walk'.before = next /\ walk'.lasts = ends
       /\ walk'.since = since /\ walk'.limit = limit
       /\ walk'.ended => next = NoCursor
  BY <1>1 DEF all, ends
<1>15. Born' = Born /\ There' = There
  BY DEF Born, There
<1>16. PageTypes'
  BY <1>6, <1>10, <1>12, <1>14, <1>15 DEF PageTypes
<1>17. Descending(walk.seen)'
  BY <1>8, <1>14 DEF Descending
<1>18. NoneOlder(walk.seen, walk.before)'
  BY <1>11, <1>14 DEF NoneOlder
<1>19. AllAhead(walk.seen, walk.before, walk.lasts, walk.since)'
  BY <1>13, <1>14 DEF AllAhead, Ms
<1>. QED
  BY <1>16, <1>17, <1>18, <1>19 DEF PagesIInv

LEMMA PagesStep ==
    ASSUME PagesIInv, PagesNext
    PROVE  PagesIInv'
<1>. USE DEF PagesIInv
\* A row is born: nothing is known of it yet.
<1>1. ASSUME NEW r \in RowIds, BeginRow(r)
      PROVE  PagesIInv'
  <2>1. /\ rows[r] = "unborn" /\ rows' = [rows EXCEPT ![r] = "pending"]
        /\ created' = [created EXCEPT ![r] = micros]
        /\ UNCHANGED <<micros, walk>>
    BY <1>1 DEF BeginRow
  <2>2. Born' = Born \cup {r} /\ r \notin Born /\ There' = There
    BY <2>1 DEF Born, There, PageTypes
  <2>3. IsFiniteSet(Born')
    BY <2>2, FS_AddElement DEF PageTypes
  <2>4. walk.seen \in Seq(Born')
    <3>1. walk.seen \in Seq(Born) /\ Born \subseteq Born'
      BY <2>2 DEF PageTypes
    <3>2. Len(walk.seen) \in Nat /\ walk.seen \in [1..Len(walk.seen) -> Born]
      BY <3>1, LenProperties
    <3>. QED
      BY <3>1, <3>2
  <2>5. PageTypes'
    BY <2>1, <2>2, <2>3, <2>4 DEF PageTypes
  <2>6. \A q \in RowIds : q # r => created'[q] = created[q]
    BY <2>1 DEF PageTypes
  <2>7. There \subseteq Born /\ Born \subseteq RowIds
    BY DEF There, Born
  <2>8. \A q \in Born : q \in RowIds /\ created'[q] = created[q]
    BY <2>2, <2>6, <2>7
  <2>9. \A i \in DOMAIN walk.seen : walk.seen[i] \in Born
    BY ElementOfSeq, LenProperties DEF PageTypes
  <2>10. Descending(walk.seen)'
    BY <2>1, <2>8, <2>9 DEF Descending
  <2>11. NoneOlder(walk.seen, walk.before)'
    BY <2>1, <2>8, <2>9 DEF NoneOlder
  <2>12. AllAhead(walk.seen, walk.before, walk.lasts, walk.since)'
    <3>1. walk.since \subseteq Born /\ walk.lasts \subseteq Born
      BY <2>7 DEF PageTypes
    <3>. QED
      BY <2>1, <2>8, <3>1 DEF AllAhead, Ms
  <2>. QED
    BY <2>5, <2>10, <2>11, <2>12
<1>2. ASSUME NEW r \in RowIds, CommitRow(r)
      PROVE  PagesIInv'
  <2>1. /\ rows[r] = "pending" /\ rows' = [rows EXCEPT ![r] = "there"]
        /\ UNCHANGED <<micros, created, walk>>
    BY <1>2 DEF CommitRow
  <2>2. Born' = Born /\ There \subseteq There'
    BY <2>1 DEF Born, There, PageTypes
  <2>3. PageTypes'
    BY <2>1, <2>2 DEF PageTypes
  <2>. QED
    BY <2>1, <2>3 DEF Descending, NoneOlder, AllAhead, Ms
<1>3. ASSUME NEW r \in RowIds, DeleteRow(r)
      PROVE  PagesIInv'
  <2>1. /\ rows[r] = "there" /\ rows' = [rows EXCEPT ![r] = "gone"]
        /\ walk' = [walk EXCEPT !.since = @ \ {r}]
        /\ UNCHANGED <<micros, created>>
    BY <1>3 DEF DeleteRow
  <2>2. Born' = Born /\ There' = There \ {r}
    BY <2>1 DEF Born, There, PageTypes
  <2>3. /\ walk'.seen = walk.seen /\ walk'.before = walk.before /\ walk'.lasts = walk.lasts
        /\ walk'.limit = walk.limit /\ walk'.ended = walk.ended
        /\ walk'.since = walk.since \ {r}
    BY <2>1
  <2>4. PageTypes'
    BY <2>1, <2>2, <2>3 DEF PageTypes
  <2>. QED
    BY <2>1, <2>3, <2>4 DEF Descending, NoneOlder, AllAhead, Ms
<1>4. CASE PagesTick
  <2>1. micros' = micros + 1 /\ UNCHANGED <<rows, created, walk>>
    BY <1>4 DEF PagesTick
  <2>2. PageTypes'
    BY <2>1 DEF PageTypes, Born, There
  <2>. QED
    BY <2>1, <2>2 DEF Descending, NoneOlder, AllAhead, Ms
<1>5. ASSUME NEW list \in Lists, NEW ask \in Asks, FirstPage(list, ask)
      PROVE  PagesIInv'
  <2>1. <<>> \in Seq(Born) /\ DOMAIN <<>> = {}
    OBVIOUS
  <2>2. Descending(<<>>) /\ NoneOlder(<<>>, NoCursor)
    BY <2>1 DEF Descending, NoneOlder
  <2>3. Pagination(list, ask) \in Nat \ {0}
    BY PaginationPositive
  <2>. QED
    BY <1>5, <2>1, <2>2, <2>3, ReadPageStep DEF FirstPage
<1>6. CASE NextPage
  <2>1. /\ walk.before # NoCursor /\ UNCHANGED <<micros, rows, created>>
        /\ ReadPage(walk.list, walk.limit, walk.before, walk.seen, walk.lasts, walk.since)
    BY <1>6 DEF NextPage
  <2>2. /\ walk.limit \in Nat \ {0} /\ walk.before \in Nat \cup {NoCursor}
        /\ walk.seen \in Seq(Born) /\ walk.lasts \in SUBSET Born
        /\ walk.since \in SUBSET There
    BY <2>1 DEF PageTypes
  <2>3. /\ PageTypes /\ Descending(walk.seen) /\ NoneOlder(walk.seen, walk.before)
        /\ IF walk.before = NoCursor THEN walk.seen = <<>>
           ELSE AllAhead(walk.seen, walk.before, walk.lasts, walk.since)
    BY <2>1
  <2>. HIDE DEF PagesIInv
  <2>. QED
    BY <2>1, <2>2, <2>3, ReadPageStep, Zenon
<1>. QED
  BY <1>1, <1>2, <1>3, <1>4, <1>5, <1>6 DEF PagesNext

\* Nor does any write of a row or page that is read.
LEMMA PagesAlways == Spec => []PagesIInv
<1>1. Init => PagesIInv
  <2>. SUFFICES ASSUME Init PROVE PagesIInv
    OBVIOUS
  <2>1. /\ micros = PerMs /\ rows = [r \in RowIds |-> "unborn"]
        /\ created = [r \in RowIds |-> 0] /\ walk = NoWalk
    BY DEF Init, PagesInit
  <2>2. Born = {} /\ There = {}
    BY <2>1 DEF Born, There
  <2>3. /\ walk.seen = <<>> /\ walk.before = NoCursor /\ walk.lasts = {} /\ walk.since = {}
        /\ walk.ended = FALSE
    BY <2>1 DEF NoWalk
  <2>4. DOMAIN <<>> = {} /\ <<>> \in Seq(Born)
    OBVIOUS
  <2>5. PageTypes
    BY <2>1, <2>2, <2>3, <2>4, FS_EmptySet, PagesAssumption DEF PageTypes
  <2>. QED
    BY <2>3, <2>4, <2>5 DEF PagesIInv, Descending, NoneOlder, AllAhead
<1>2. PagesIInv /\ [Next]_vars => PagesIInv'
  <2>1. ASSUME PagesIInv, UNCHANGED pageVars
        PROVE  PagesIInv'
    BY <2>1 DEF PagesIInv, PageTypes, Born, There, Descending, NoneOlder, AllAhead, Ms,
                pageVars
  <2>2. [Next]_vars => PagesNext \/ UNCHANGED pageVars
    BY DEF Next, ContentActs, FeedActs, CardActs, BootActs, PagesActs, vars
  <2>. QED
    BY <2>1, <2>2, PagesStep
<1>. QED
  BY <1>1, <1>2, PTL DEF Spec

\* httpx.go:80, :99: for every limit, every number of rows and every precision of
\* the clock, a walk repeats nothing and passes over nothing but what is of the
\* millisecond in which a page ended.
THEOREM WalksShowAll == Spec => []WalkShowsAll
<1>1. PagesIInv => WalkShowsAll
  BY DEF PagesIInv, PageTypes, Descending, AllAhead, WalkShowsAll
<1>. QED
  BY <1>1, PagesAlways, PTL

-----------------------------------------------------------------------------
(***************************************************************************)
(* The mosaic.  What is on the channel are the parts that were sent and    *)
(* not taken, each once and with what was found; so when as many have been *)
(* taken as there are categories, all of them have been.                   *)
(***************************************************************************)

PartStates == {"none", "searching", "sent", "taken"}

FeedTypes ==
    /\ feed.at \in {"idle", "rails", "mosaic", "answered"}
    /\ part \in [1..N -> PartStates]
    /\ found \in [1..N -> Seq(Item)]
    /\ ordered \in [1..N -> Seq(Item)]
    /\ ch \in Seq([i : 1..N, items : Seq(Item)])

\* A part on the channel is its goroutine's, and there once.
PartsSent ==
    \A a \in 1..Len(ch) :
       /\ part[ch[a].i] = "sent" /\ ch[a].items = found[ch[a].i]
       /\ \A b \in 1..Len(ch) : ch[a].i = ch[b].i => a = b

\* Only a mosaic has goroutines and parts under way.
UnderWay ==
    feed.at # "mosaic" =>
       ch = <<>> /\ \A i \in 1..N : part[i] \in {"none", "taken"}

\* What was taken off the channel is in its place.
TakenInPlace ==
    \A i \in 1..N : (part[i] = "taken" \/ feed.at = "answered") => ordered[i] = found[i]

\* The inductive invariant of the mosaic.
FeedIInv == FeedTypes /\ PartsSent /\ UnderWay /\ TakenInPlace

LEMMA NIsNat == N \in Nat \ {0} /\ DOMAIN Categories = 1..N
BY CategoriesAssumption DEF N

\* Functions with the same values are the same.
LEMMA SameValues ==
    ASSUME NEW D, NEW V, NEW f \in [D -> V], NEW g \in [D -> V], \A x \in D : f[x] = g[x]
    PROVE  f = g
OBVIOUS

\* What is shown of a search are places of its category.
LEMMA SearchGivesItems ==
    ASSUME NEW i \in 1..N, NEW items \in SearchItems(Categories[i])
    PROVE  Take(items, PerCategory) \in Seq(Item)
<1>1. PICK n \in Nat : items = [j \in 1..n |-> <<Categories[i], j>>]
  BY SearchAssumption DEF SearchItems
<1>2. Categories[i] \in Range(Categories)
  BY NIsNat DEF Range
<1>3. Len(items) = n /\ \A j \in 1..n : items[j] \in Item
  BY <1>1, <1>2 DEF Item
<1>. DEFINE m == IF Len(items) > PerCategory THEN PerCategory ELSE Len(items)
<1>4. m \in Nat /\ m <= n
  BY <1>1, <1>3, SearchAssumption
<1>. HIDE DEF m
<1>5. \A j \in 1..m : items[j] \in Item
  BY <1>1, <1>3, <1>4
<1>6. SubSeq(items, 1, m) \in Seq(Item)
  BY <1>4, <1>5, SubSeqProperties
<1>. QED
  BY <1>6 DEF Take, m

LEMMA StartFeedStep ==
    ASSUME FeedIInv, NEW enabled, NEW h, NEW i, StartFeed(enabled, h, i)
    PROVE  FeedIInv'
<1>1. /\ part' = [j \in 1..N |-> "none"] /\ found' = [j \in 1..N |-> <<>>]
      /\ ordered' = [j \in 1..N |-> <<>>] /\ ch' = ch
      /\ feed'.at \in {"rails", "answered"}
  BY DEF StartFeed
<1>2. ch = <<>> /\ <<>> \in Seq(Item)
  BY DEF StartFeed, FeedIInv, UnderWay
<1>3. FeedTypes'
  BY <1>1, <1>2 DEF FeedIInv, FeedTypes, PartStates
<1>4. PartsSent'
  <2>1. ch' = <<>> /\ Len(<<>>) = 0
    BY <1>1, <1>2
  <2>. QED
    BY <2>1 DEF PartsSent
<1>5. UnderWay'
  BY <1>1, <1>2 DEF UnderWay
<1>6. TakenInPlace'
  BY <1>1 DEF TakenInPlace
<1>. QED
  BY <1>3, <1>4, <1>5, <1>6 DEF FeedIInv

LEMMA SearchRailStep ==
    ASSUME FeedIInv, SearchRail
    PROVE  FeedIInv'
<1>1. /\ feed.at = "rails" /\ feed'.at \in {"rails", "mosaic"}
      /\ UNCHANGED <<found, ch, ordered>>
      /\ \/ feed'.at = "rails" /\ part' = part
         \/ feed'.at = "mosaic" /\ part' = [i \in 1..N |-> "searching"]
  BY DEF SearchRail
<1>2. ch = <<>> /\ \A i \in 1..N : part[i] \in {"none", "taken"}
  BY <1>1 DEF FeedIInv, UnderWay
<1>3. FeedTypes'
  BY <1>1 DEF FeedIInv, FeedTypes, PartStates
<1>4. PartsSent'
  <2>1. ch' = <<>> /\ Len(<<>>) = 0
    BY <1>1, <1>2
  <2>. QED
    BY <2>1 DEF PartsSent
<1>5. UnderWay'
  BY <1>1, <1>2 DEF UnderWay
<1>6. TakenInPlace'
  BY <1>1 DEF FeedIInv, TakenInPlace
<1>. QED
  BY <1>3, <1>4, <1>5, <1>6 DEF FeedIInv

LEMMA SearchPartStep ==
    ASSUME FeedIInv, NEW i \in 1..N, SearchPart(i)
    PROVE  FeedIInv'
<1>1. PICK some \in Seq(Item) :
         /\ ch' = Append(ch, [i |-> i, items |-> some])
         /\ found' = [found EXCEPT ![i] = some]
         /\ part[i] = "searching" /\ part' = [part EXCEPT ![i] = "sent"]
         /\ UNCHANGED <<feed, ordered>>
  BY SearchGivesItems DEF SearchPart, SendPart
<1>. DEFINE e == [i |-> i, items |-> some]
            n == Len(ch)
<1>2. feed.at = "mosaic"
  BY <1>1 DEF FeedIInv, UnderWay
<1>3. /\ found' \in [1..N -> Seq(Item)] /\ found'[i] = some
      /\ \A j \in 1..N \ {i} : found'[j] = found[j]
      /\ part' \in [1..N -> PartStates] /\ part'[i] = "sent"
      /\ \A j \in 1..N \ {i} : part'[j] = part[j]
  BY <1>1 DEF FeedIInv, FeedTypes, PartStates
<1>4. ch \in Seq([i : 1..N, items : Seq(Item)]) /\ e \in [i : 1..N, items : Seq(Item)]
  BY DEF FeedIInv, FeedTypes
<1>5. /\ ch' \in Seq([i : 1..N, items : Seq(Item)])
      /\ n \in Nat /\ Len(ch') = n + 1
      /\ ch'[n + 1] = e
      /\ \A a \in 1..n : ch'[a] = ch[a]
  BY <1>1, <1>4, AppendProperties, LenProperties
<1>6. \A a \in 1..n : ch[a].i \in 1..N \ {i}
  <2>. SUFFICES ASSUME NEW a \in 1..n PROVE ch[a].i \in 1..N \ {i}
    OBVIOUS
  <2>1. ch[a].i \in 1..N
    <3>1. ch[a] \in [i : 1..N, items : Seq(Item)]
      BY <1>4, ElementOfSeq
    <3>. QED
      BY <3>1
  <2>2. part[ch[a].i] = "sent"
    BY DEF FeedIInv, PartsSent
  <2>. QED
    BY <1>1, <2>1, <2>2
<1>. HIDE DEF n
<1>7. FeedTypes'
  BY <1>1, <1>2, <1>3, <1>5 DEF FeedIInv, FeedTypes
<1>8. PartsSent'
  <2>. SUFFICES ASSUME NEW a \in 1..(n + 1)
                PROVE  /\ part'[ch'[a].i] = "sent" /\ ch'[a].items = found'[ch'[a].i]
                       /\ \A b \in 1..(n + 1) : ch'[a].i = ch'[b].i => a = b
    BY <1>5 DEF PartsSent
  <2>1. \A b \in 1..(n + 1) : b \in 1..n \/ b = n + 1
    BY <1>5
  <2>2. CASE a = n + 1
    <3>1. ch'[a].i = i /\ ch'[a].items = some
      BY <1>5, <2>2
    <3>2. \A b \in 1..n : ch'[b].i # i
      BY <1>5, <1>6
    <3>. QED
      BY <1>3, <2>1, <2>2, <3>1, <3>2
  <2>3. CASE a \in 1..n
    <3>1. ch'[a] = ch[a] /\ ch[a].i \in 1..N \ {i}
      BY <1>5, <1>6, <2>3
    <3>2. /\ part[ch[a].i] = "sent" /\ ch[a].items = found[ch[a].i]
          /\ \A b \in 1..n : ch[a].i = ch[b].i => a = b
      BY <2>3 DEF FeedIInv, PartsSent, n
    <3>3. ch'[n + 1].i = i /\ \A b \in 1..n : ch'[b].i = ch[b].i
      BY <1>5
    <3>. QED
      BY <1>3, <2>1, <3>1, <3>2, <3>3
  <2>. QED
    BY <2>1, <2>2, <2>3
<1>9. UnderWay'
  BY <1>1, <1>2 DEF UnderWay
<1>10. TakenInPlace'
  BY <1>1, <1>2, <1>3 DEF FeedIInv, TakenInPlace
<1>. QED
  BY <1>7, <1>8, <1>9, <1>10 DEF FeedIInv

\* The last part to be taken leaves none.
LEMMA LastPart ==
    ASSUME part \in [1..N -> PartStates], NEW i \in 1..N, part[i] # "taken",
           Cardinality({j \in 1..N : part[j] = "taken"}) + 1 = N
    PROVE  \A j \in 1..N : j # i => part[j] = "taken"
<1>. DEFINE T == {j \in 1..N : part[j] = "taken"}
<1>1. IsFiniteSet(1..N) /\ Cardinality(1..N) = N
  BY NIsNat, FS_Interval
<1>2. T \subseteq 1..N /\ IsFiniteSet(T) /\ i \notin T
  BY <1>1, FS_Subset
<1>3. IsFiniteSet(T \cup {i}) /\ Cardinality(T \cup {i}) = N
  BY <1>2, FS_AddElement
<1>4. T \cup {i} = 1..N
  BY <1>1, <1>2, <1>3, FS_Subset
<1>. QED
  BY <1>4

LEMMA UnwindItemsStep ==
    ASSUME FeedIInv, UnwindItems
    PROVE  FeedIInv'
<1>. DEFINE p == ch[1]
            n == Len(ch)
            T == {j \in 1..N : part[j] = "taken"}
<1>1. /\ feed.at = "mosaic" /\ ch # <<>> /\ ch' = Tail(ch)
      /\ ordered' = [ordered EXCEPT ![p.i] = p.items]
      /\ part' = [part EXCEPT ![p.i] = "taken"]
      /\ UNCHANGED found
      /\ \/ Cardinality(T) + 1 = N /\ feed'.at = "answered"
         \/ feed' = feed
  <2>1. Head(ch) = p
    OBVIOUS
  <2>. HIDE DEF p
  <2>. QED
    BY <2>1 DEF UnwindItems, Slot
<1>2. /\ ch \in Seq([i : 1..N, items : Seq(Item)])
      /\ part \in [1..N -> PartStates]
  BY DEF FeedIInv, FeedTypes
<1>3. n \in Nat \ {0}
  BY <1>1, <1>2, EmptySeq
<1>4. /\ ch' \in Seq([i : 1..N, items : Seq(Item)])
      /\ Len(ch') = n - 1
      /\ \A a \in 1..(n - 1) : ch'[a] = ch[a + 1]
  <2>1. /\ Tail(ch) \in Seq([i : 1..N, items : Seq(Item)])
        /\ Len(Tail(ch)) = n - 1
        /\ \A a \in 1..Len(Tail(ch)) : Tail(ch)[a] = ch[a + 1]
    <3>. DEFINE P == [i : 1..N, items : Seq(Item)]
    <3>. HIDE DEF P
    <3>. SUFFICES /\ Tail(ch) \in Seq(P)
                  /\ Len(Tail(ch)) = n - 1
                  /\ \A a \in 1..Len(Tail(ch)) : Tail(ch)[a] = ch[a + 1]
      BY DEF P
    <3>1. ch \in Seq(P)
      BY <1>2 DEF P
    <3>. QED
      BY <1>1, <3>1, HeadTailProperties
  <2>. QED
    BY <1>1, <2>1
<1>5. p.i \in 1..N /\ p.items \in Seq(Item)
  <2>1. 1 \in 1..n
    BY <1>3
  <2>2. p \in [i : 1..N, items : Seq(Item)]
    BY <1>2, <2>1, ElementOfSeq
  <2>. QED
    BY <2>2
<1>6. part[p.i] = "sent" /\ p.items = found[p.i]
  BY <1>3 DEF FeedIInv, PartsSent
<1>7. \A a \in 1..(n - 1) :
         /\ ch'[a].i \in 1..N \ {p.i}
         /\ part[ch'[a].i] = "sent" /\ ch'[a].items = found[ch'[a].i]
         /\ \A b \in 1..(n - 1) : ch'[a].i = ch'[b].i => a = b
  <2>. SUFFICES ASSUME NEW a \in 1..(n - 1)
                PROVE  /\ ch'[a].i \in 1..N \ {p.i}
                       /\ part[ch'[a].i] = "sent" /\ ch'[a].items = found[ch'[a].i]
                       /\ \A b \in 1..(n - 1) : ch'[a].i = ch'[b].i => a = b
    OBVIOUS
  <2>1. a + 1 \in 1..n /\ 1 \in 1..n /\ a + 1 # 1
    BY <1>3
  <2>2. ch'[a] = ch[a + 1]
    BY <1>4
  <2>3. ch[a + 1].i \in 1..N
    <3>1. ch[a + 1] \in [i : 1..N, items : Seq(Item)]
      BY <1>2, <2>1, ElementOfSeq
    <3>. QED
      BY <3>1
  <2>4. /\ part[ch[a + 1].i] = "sent" /\ ch[a + 1].items = found[ch[a + 1].i]
        /\ \A b \in 1..n : ch[a + 1].i = ch[b].i => a + 1 = b
    BY <2>1 DEF FeedIInv, PartsSent
  <2>5. ASSUME NEW b \in 1..(n - 1), ch'[a].i = ch'[b].i
        PROVE  a = b
    <3>1. b + 1 \in 1..n /\ ch'[b] = ch[b + 1]
      BY <1>3, <1>4
    <3>2. a + 1 = b + 1
      BY <2>2, <2>4, <2>5, <3>1
    <3>. QED
      BY <1>3, <3>2
  <2>. QED
    BY <2>1, <2>2, <2>3, <2>4, <2>5
<1>. HIDE DEF p, n
<1>8. /\ part' \in [1..N -> PartStates] /\ part'[p.i] = "taken"
      /\ \A j \in 1..N \ {p.i} : part'[j] = part[j]
      /\ ordered' \in [1..N -> Seq(Item)] /\ ordered'[p.i] = p.items
      /\ \A j \in 1..N \ {p.i} : ordered'[j] = ordered[j]
  BY <1>1, <1>5 DEF FeedIInv, FeedTypes, PartStates
<1>9. feed'.at = "answered" => \A j \in 1..N : part'[j] = "taken"
  <2>1. CASE Cardinality(T) + 1 = N
    BY <1>2, <1>5, <1>6, <1>8, <2>1, LastPart
  <2>2. CASE feed' = feed
    BY <1>1, <2>2
  <2>. QED
    BY <1>1, <2>1, <2>2
<1>10. feed'.at \in {"mosaic", "answered"}
  BY <1>1
<1>11. FeedTypes'
  BY <1>1, <1>4, <1>8, <1>10 DEF FeedIInv, FeedTypes
<1>12. PartsSent'
  BY <1>1, <1>4, <1>7, <1>8 DEF PartsSent
<1>13. UnderWay'
  <2>. SUFFICES ASSUME feed'.at = "answered" PROVE ch' = <<>>
    BY <1>9, <1>10 DEF UnderWay
  <2>1. n - 1 = 0
    <3>1. SUFFICES ASSUME 1 \in 1..(n - 1) PROVE FALSE
      BY <1>3
    <3>. QED
      BY <1>7, <1>8, <1>9, <3>1
  <2>. QED
    BY <1>4, <2>1, EmptySeq
<1>14. TakenInPlace'
  BY <1>1, <1>6, <1>8, <1>9 DEF FeedIInv, TakenInPlace
<1>. QED
  BY <1>11, <1>12, <1>13, <1>14 DEF FeedIInv

\* Nor does a search, a send or a receive.
LEMMA FeedAlways == Spec => []FeedIInv
<1>1. Init => FeedIInv
  <2>. SUFFICES ASSUME Init PROVE FeedIInv
    OBVIOUS
  <2>1. /\ feed.at = "idle" /\ part = [i \in 1..N |-> "none"]
        /\ found = [i \in 1..N |-> <<>>] /\ ch = <<>> /\ ordered = [i \in 1..N |-> <<>>]
    BY DEF Init, ExploreInit, NoFeed
  <2>2. <<>> \in Seq(Item) /\ <<>> \in Seq([i : 1..N, items : Seq(Item)]) /\ Len(<<>>) = 0
    BY EmptySeq
  <2>. QED
    BY <2>1, <2>2 DEF FeedIInv, FeedTypes, PartStates, PartsSent, UnderWay, TakenInPlace
<1>2. FeedIInv /\ [Next]_vars => FeedIInv'
  <2>1. ASSUME FeedIInv, UNCHANGED feedVars
        PROVE  FeedIInv'
    BY <2>1 DEF FeedIInv, FeedTypes, PartsSent, UnderWay, TakenInPlace, feedVars
  <2>2. [Next]_vars => FeedNext \/ UNCHANGED feedVars
    BY DEF Next, ContentActs, FeedActs, CardActs, BootActs, PagesActs, vars
  <2>. QED
    BY <2>1, <2>2, StartFeedStep, SearchRailStep, SearchPartStep, UnwindItemsStep
       DEF FeedNext
<1>. QED
  BY <1>1, <1>2, PTL DEF Spec

\* explore.go:233: for any number of categories, in whatever order their searches
\* end and their parts are taken.
THEOREM MosaicsInOrder == Spec => []MosaicOrdered
<1>1. FeedIInv => MosaicOrdered
  <2>. SUFFICES ASSUME FeedIInv, feed.at = "answered" PROVE ordered = found
    BY DEF MosaicOrdered
  <2>1. ordered \in [1..N -> Seq(Item)] /\ found \in [1..N -> Seq(Item)]
    BY DEF FeedIInv, FeedTypes
  <2>2. \A i \in 1..N : ordered[i] = found[i]
    BY DEF FeedIInv, TakenInPlace
  <2>. DEFINE D == 1..N
              V == Seq(Item)
  <2>3. ordered \in [D -> V] /\ found \in [D -> V] /\ \A i \in D : ordered[i] = found[i]
    BY <2>1, <2>2
  <2>. HIDE DEF D, V
  <2>. QED
    BY <2>3, SameValues
<1>. QED
  BY <1>1, FeedAlways, PTL

-----------------------------------------------------------------------------
(***************************************************************************)
(* Loops over lists.  A loop is a function of how many elements it has     *)
(* passed; that it has values at all is shown by a least number at which it *)
(* would have none.                                                        *)
(***************************************************************************)

\* A set of numbers has a least one.
LEMMA LeastNumber ==
    ASSUME NEW T, T \subseteq Nat, T # {}
    PROVE  \E x \in T : \A y \in T : x <= y
<1>. DEFINE Below == {ss \in Nat \X Nat : ss[1] < ss[2]}
<1>1. IsWellFoundedOn(Below, Nat)
  BY NatLessThanWellFounded DEF OpToRel
<1>2. \A x, y \in Nat : x < y => <<x, y>> \in Below
  OBVIOUS
<1>. HIDE DEF Below
<1>3. PICK x \in T : \A y \in T : ~(<<y, x>> \in Below)
  BY <1>1, WFMin, Zenon
<1>4. ASSUME NEW y \in T
      PROVE  x <= y
  <2>1. x \in Nat /\ y \in Nat /\ ~(y < x)
    BY <1>2, <1>3, <1>4
  <2>. QED
    BY <2>1
<1>. QED
  BY <1>4

\* What holds of 0 and is handed on holds up to any number: else look at the least
\* for which it does not.
LEMMA UpTo ==
    ASSUME NEW n \in Nat, NEW J, 0 \in J, \A i \in 1..n : i - 1 \in J => i \in J
    PROVE  \A i \in 0..n : i \in J
<1>. DEFINE Out == {i \in 0..n : i \notin J}
<1>. SUFFICES ASSUME Out # {} PROVE FALSE
  OBVIOUS
<1>1. Out \subseteq Nat
  OBVIOUS
<1>2. PICK i \in Out : \A j \in Out : i <= j
  BY <1>1, LeastNumber
<1>3. i \in 1..n /\ i - 1 \in 0..n
  BY <1>2
<1>4. i - 1 \in J
  BY <1>2, <1>3
<1>. QED
  BY <1>2, <1>3, <1>4

\* f[i] is what a loop that starts at first has after i of its n rounds.
Rounds(f, n, first, step) ==
    f[0] = first /\ \A i \in 1..n : f[i] = step[i][f[i - 1]]

\* A loop of n rounds has a value after each of them.
LEMMA LoopExists ==
    ASSUME NEW n \in Nat, NEW V, NEW first \in V, NEW step \in [1..n -> [V -> V]]
    PROVE  \E f \in [0..n -> V] : Rounds(f, n, first, step)
<1>. DEFINE Upto(f, m) == Rounds(f, m, first, step)
            J == {m \in 0..n : \E f \in [0..m -> V] : Upto(f, m)}
<1>1. 0 \in J
  <2>1. [i \in 0..0 |-> first] \in [0..0 -> V] /\ Upto([i \in 0..0 |-> first], 0)
    BY DEF Rounds
  <2>2. 0 \in 0..n
    OBVIOUS
  <2>. DEFINE g == [i \in 0..0 |-> first]
  <2>3. g \in [0..0 -> V] /\ Upto(g, 0)
    BY <2>1 DEF Rounds
  <2>. HIDE DEF g, Upto
  <2>. QED
    BY <2>2, <2>3
<1>2. ASSUME NEW m \in 1..n, m - 1 \in J
      PROVE  m \in J
  <2>1. PICK f \in [0..m - 1 -> V] : Upto(f, m - 1)
    BY <1>2
  <2>. DEFINE g == [i \in 0..m |-> IF i = m THEN step[m][f[m - 1]] ELSE f[i]]
  <2>2. step[m] \in [V -> V] /\ f[m - 1] \in V
    OBVIOUS
  <2>3. g \in [0..m -> V]
    BY <2>2
  <2>4. Upto(g, m)
    BY <2>1 DEF Rounds
  <2>5. m \in 0..n
    OBVIOUS
  <2>. HIDE DEF g, Upto
  <2>. QED
    BY <2>3, <2>4, <2>5
<1>. HIDE DEF J
<1>3. n \in J
  <2>1. \A i \in 0..n : i \in J
    BY <1>1, <1>2, UpTo
  <2>. QED
    BY <2>1
<1>. QED
  BY <1>3 DEF J

-----------------------------------------------------------------------------

\* An element is appended once: the list stays distinct, and begins as it did.
LEMMA AppendUniqueKeeps ==
    ASSUME NEW S, NEW list \in Seq(S), NEW v \in S
    PROVE  /\ AppendUnique(list, v) \in Seq(S)
           /\ IsInjective(list) => IsInjective(AppendUnique(list, v))
           /\ list # <<>> => /\ AppendUnique(list, v) # <<>>
                             /\ AppendUnique(list, v)[1] = list[1]
<1>1. CASE Contains(list, v)
  BY <1>1 DEF AppendUnique
<1>2. CASE ~Contains(list, v)
  <2>. DEFINE longer == Append(list, v)
  <2>1. AppendUnique(list, v) = longer
    BY <1>2 DEF AppendUnique
  <2>2. /\ longer \in Seq(S) /\ DOMAIN longer = 1..Len(list) + 1
        /\ \A i \in 1..Len(list) : longer[i] = list[i]
        /\ longer[Len(list) + 1] = v
    OBVIOUS
  <2>3. \A i \in 1..Len(list) : list[i] # v
    BY <1>2 DEF Contains
  <2>4. Len(list) \in Nat /\ DOMAIN list = 1..Len(list)
    OBVIOUS
  <2>. HIDE DEF longer
  <2>5. IsInjective(list) => IsInjective(longer)
    BY <2>2, <2>3, <2>4 DEF IsInjective
  <2>6. list # <<>> => longer # <<>> /\ longer[1] = list[1]
    BY <2>2, <2>4
  <2>. QED
    BY <2>1, <2>2, <2>5, <2>6
<1>. QED
  BY <1>1, <1>2

\* The first hobbies are some of the ids, each once.
LEMMA FirstHobbiesDistinct ==
    ASSUME NEW S, NEW ids \in Seq(S)
    PROVE  FirstHobbies(ids) \in Seq(S) /\ IsInjective(FirstHobbies(ids))
<1>. DEFINE L == Len(ids)
            next(s, n) == IF ids[n] = NoHobby \/ Len(s) >= 4 THEN s
                          ELSE AppendUnique(s, ids[n])
            seen == CHOOSE f : f = [n \in 0..L |->
                      IF n = 0 THEN <<>>
                      ELSE IF ids[n] = NoHobby \/ Len(f[n - 1]) >= 4 THEN f[n - 1]
                      ELSE AppendUnique(f[n - 1], ids[n])]
            step == [n \in 1..L |-> [s \in Seq(S) |-> next(s, n)]]
<1>1. FirstHobbies(ids) = seen[L]
  BY DEF FirstHobbies
<1>2. L \in Nat /\ \A n \in 1..L : ids[n] \in S /\ n - 1 \in 0..L
  OBVIOUS
<1>. HIDE DEF L
<1>3. step \in [1..L -> [Seq(S) -> Seq(S)]]
  BY <1>2, AppendUniqueKeeps
<1>4. seen = [n \in 0..L |-> IF n = 0 THEN <<>> ELSE next(seen[n - 1], n)]
  <2>1. <<>> \in Seq(S)
    OBVIOUS
  <2>. HIDE DEF step
  <2>2. \E f \in [0..L -> Seq(S)] : Rounds(f, L, <<>>, step)
    BY <1>2, <1>3, <2>1, LoopExists
  <2>3. PICK f \in [0..L -> Seq(S)] : Rounds(f, L, <<>>, step)
    BY <2>2
  <2>. HIDE DEF next
  <2>4. \A i \in 1..L : f[i] = next(f[i - 1], i)
    BY <1>2, <2>3 DEF step, Rounds
  <2>5. \A n \in 0..L : f[n] = IF n = 0 THEN <<>> ELSE next(f[n - 1], n)
    BY <1>2, <2>3, <2>4 DEF Rounds
  <2>6. f = [n \in 0..L |-> IF n = 0 THEN <<>> ELSE next(f[n - 1], n)]
    BY <2>3, <2>5
  <2>. QED
    BY <2>6 DEF next
<1>. HIDE DEF seen, step
<1>5. seen[0] = <<>> /\ \A n \in 1..L : seen[n] = next(seen[n - 1], n)
  <2>. HIDE DEF next
  <2>. QED
    BY <1>2, <1>4
<1>. DEFINE J == {n \in 0..L : seen[n] \in Seq(S) /\ IsInjective(seen[n])}
<1>6. 0 \in J
  <2>1. seen[0] \in Seq(S) /\ IsInjective(seen[0])
    BY <1>5 DEF IsInjective
  <2>. QED
    BY <1>2, <2>1
<1>7. ASSUME NEW n \in 1..L, n - 1 \in J
      PROVE  n \in J
  <2>1. seen[n - 1] \in Seq(S) /\ IsInjective(seen[n - 1])
    BY <1>7
  <2>2. next(seen[n - 1], n) \in Seq(S) /\ IsInjective(next(seen[n - 1], n))
    BY <1>2, <2>1, AppendUniqueKeeps
  <2>. QED
    BY <1>5, <2>2
<1>. HIDE DEF J
<1>8. \A n \in 0..L : n \in J
  BY <1>2, <1>6, <1>7, UpTo
<1>. QED
  BY <1>1, <1>2, <1>8 DEF J

\* Images are appended once each: pictures stay distinct, and the first is the first.
LEMMA AppendImagesKeeps ==
    ASSUME NEW S, NEW photos \in Seq(S), NEW images \in Seq(S)
    PROVE  /\ AppendImages(photos, images) \in Seq(S)
           /\ IsInjective(photos) => IsInjective(AppendImages(photos, images))
           /\ photos # <<>> => /\ AppendImages(photos, images) # <<>>
                               /\ AppendImages(photos, images)[1] = photos[1]
<1>. DEFINE L == Len(images)
            next(s, n) == AppendUnique(s, images[n])
            all == CHOOSE f : f = [n \in 0..L |->
                     IF n = 0 THEN photos ELSE AppendUnique(f[n - 1], images[n])]
            step == [n \in 1..L |-> [s \in Seq(S) |-> next(s, n)]]
<1>1. AppendImages(photos, images) = all[L]
  BY DEF AppendImages
<1>2. L \in Nat /\ \A n \in 1..L : images[n] \in S /\ n - 1 \in 0..L
  OBVIOUS
<1>. HIDE DEF L
<1>3. step \in [1..L -> [Seq(S) -> Seq(S)]]
  BY <1>2, AppendUniqueKeeps
<1>4. all = [n \in 0..L |-> IF n = 0 THEN photos ELSE next(all[n - 1], n)]
  <2>. HIDE DEF step
  <2>1. \E f \in [0..L -> Seq(S)] : Rounds(f, L, photos, step)
    BY <1>2, <1>3, LoopExists
  <2>2. PICK f \in [0..L -> Seq(S)] : Rounds(f, L, photos, step)
    BY <2>1
  <2>. HIDE DEF next
  <2>3. \A i \in 1..L : f[i] = next(f[i - 1], i)
    BY <1>2, <2>2 DEF step, Rounds
  <2>4. \A n \in 0..L : f[n] = IF n = 0 THEN photos ELSE next(f[n - 1], n)
    BY <1>2, <2>2, <2>3 DEF Rounds
  <2>5. f = [n \in 0..L |-> IF n = 0 THEN photos ELSE next(f[n - 1], n)]
    BY <2>2, <2>4
  <2>. QED
    BY <2>5 DEF next
<1>. HIDE DEF all, step
<1>5. all[0] = photos /\ \A n \in 1..L : all[n] = next(all[n - 1], n)
  <2>. HIDE DEF next
  <2>. QED
    BY <1>2, <1>4
<1>. DEFINE good(s) == /\ s \in Seq(S)
                       /\ IsInjective(photos) => IsInjective(s)
                       /\ photos # <<>> => s # <<>> /\ s[1] = photos[1]
            J == {n \in 0..L : good(all[n])}
<1>6. 0 \in J
  <2>1. good(all[0])
    BY <1>5
  <2>. QED
    BY <1>2, <2>1
<1>7. ASSUME NEW n \in 1..L, n - 1 \in J
      PROVE  n \in J
  <2>1. good(all[n - 1])
    BY <1>7
  <2>2. good(next(all[n - 1], n))
    BY <1>2, <2>1, AppendUniqueKeeps
  <2>3. good(all[n])
    BY <1>5, <2>2
  <2>. QED
    BY <2>3
<1>. HIDE DEF J
<1>8. \A n \in 0..L : n \in J
  BY <1>2, <1>6, <1>7, UpTo
<1>. QED
  BY <1>1, <1>2, <1>8 DEF J

\* What is put in front of a list is its first and is there once.
LEMMA DedupePrependKeeps ==
    ASSUME NEW S, NEW list \in Seq(S), NEW v \in S
    PROVE  /\ DedupePrepend(list, v) \in Seq(S)
           /\ DedupePrepend(list, v) # <<>> /\ DedupePrepend(list, v)[1] = v
           /\ IsInjective(list) => IsInjective(DedupePrepend(list, v))
<1>. DEFINE L == Len(list)
            one == <<v>>
            next(s, n) == IF list[n] = v THEN s ELSE Append(s, list[n])
            out == CHOOSE f : f = [n \in 0..L |->
                     IF n = 0 THEN <<v>>
                     ELSE IF list[n] = v THEN f[n - 1]
                     ELSE Append(f[n - 1], list[n])]
            step == [n \in 1..L |-> [s \in Seq(S) |-> next(s, n)]]
<1>1. DedupePrepend(list, v) = out[L]
  BY DEF DedupePrepend
<1>2. L \in Nat /\ DOMAIN list = 1..L /\ \A n \in 1..L : list[n] \in S /\ n - 1 \in 0..L
  OBVIOUS
<1>. HIDE DEF L
<1>3. step \in [1..L -> [Seq(S) -> Seq(S)]]
  BY <1>2
<1>4. out = [n \in 0..L |-> IF n = 0 THEN one ELSE next(out[n - 1], n)]
  <2>. HIDE DEF step
  <2>1. one \in Seq(S)
    OBVIOUS
  <2>2. \E f \in [0..L -> Seq(S)] : Rounds(f, L, one, step)
    BY <1>2, <1>3, <2>1, LoopExists
  <2>3. PICK f \in [0..L -> Seq(S)] : Rounds(f, L, one, step)
    BY <2>2
  <2>. HIDE DEF next, one
  <2>4. \A i \in 1..L : f[i] = next(f[i - 1], i)
    BY <1>2, <2>3 DEF step, Rounds
  <2>5. \A n \in 0..L : f[n] = IF n = 0 THEN one ELSE next(f[n - 1], n)
    BY <1>2, <2>3, <2>4 DEF Rounds
  <2>6. f = [n \in 0..L |-> IF n = 0 THEN one ELSE next(f[n - 1], n)]
    BY <2>3, <2>5
  <2>. QED
    BY <2>6 DEF next, one
<1>. HIDE DEF out, step
<1>5. out[0] = one /\ \A n \in 1..L : out[n] = next(out[n - 1], n)
  <2>. HIDE DEF next, one
  <2>. QED
    BY <1>2, <1>4
<1>. DEFINE early(s, n) == \A i \in 1..Len(s) :
                              s[i] = v \/ \E j \in 1..n : s[i] = list[j]
            good(s, n) == /\ s \in Seq(S) /\ s # <<>> /\ s[1] = v
                          /\ early(s, n)
                          /\ IsInjective(list) => IsInjective(s)
            J == {n \in 0..L : good(out[n], n)}
<1>6. 0 \in J
  <2>1. good(out[0], 0)
    BY <1>5 DEF IsInjective
  <2>. QED
    BY <1>2, <2>1
<1>7. ASSUME NEW n \in 1..L, n - 1 \in J
      PROVE  n \in J
  <2>. DEFINE s == out[n - 1]
  <2>1. good(s, n - 1)
    BY <1>7
  <2>. HIDE DEF s
  <2>2. ASSUME list[n] = v
        PROVE  good(next(s, n), n)
    BY <2>1, <2>2
  <2>3. ASSUME list[n] # v
        PROVE  good(next(s, n), n)
    <3>1. s \in Seq(S) /\ s # <<>> /\ s[1] = v /\ early(s, n - 1)
          /\ (IsInjective(list) => IsInjective(s))
      BY <2>1
    <3>. DEFINE longer == Append(s, list[n])
    <3>2. /\ longer \in Seq(S) /\ Len(longer) = Len(s) + 1
          /\ DOMAIN longer = 1..Len(s) + 1 /\ DOMAIN s = 1..Len(s) /\ Len(s) \in Nat
          /\ \A i \in 1..Len(s) : longer[i] = s[i]
          /\ longer[Len(s) + 1] = list[n]
      BY <1>2, <3>1
    <3>. HIDE DEF longer
    <3>3. longer # <<>> /\ longer[1] = v
      BY <3>1, <3>2
    <3>4. early(longer, n)
      BY <3>1, <3>2
    <3>5. ASSUME IsInjective(list)
          PROVE  IsInjective(longer)
      <4>1. ASSUME NEW i \in 1..Len(s)
            PROVE  s[i] # list[n]
        <5>1. s[i] = v \/ \E j \in 1..n - 1 : s[i] = list[j]
          BY <3>1
        <5>2. \A j \in 1..n - 1 : list[j] # list[n]
          BY <1>2, <3>5 DEF IsInjective
        <5>. QED
          BY <2>3, <5>1, <5>2
      <4>. QED
        BY <3>1, <3>2, <3>5, <4>1 DEF IsInjective
    <3>. QED
      BY <2>3, <3>2, <3>3, <3>4, <3>5 DEF longer
  <2>4. good(next(s, n), n)
    BY <2>2, <2>3
  <2>5. good(out[n], n)
    BY <1>5, <2>4 DEF s
  <2>. QED
    BY <2>5
<1>. HIDE DEF J
<1>8. \A n \in 0..L : n \in J
  BY <1>2, <1>6, <1>7, UpTo
<1>. QED
  BY <1>1, <1>2, <1>8 DEF J

-----------------------------------------------------------------------------
(***************************************************************************)
(* The sections of a feed.  With Google they grow in the order of the rails, *)
(* and without it they are put together from four parts.                   *)
(***************************************************************************)

\* Where the elements of two, some, some more and a last one are.
LEMMA FourParts ==
    ASSUME NEW W, NEW a \in W, NEW b \in W, NEW T \in Seq(W), NEW M \in Seq(W),
           NEW u \in W, NEW f, f = <<a, b>> \o T \o M \o <<u>>
    PROVE  /\ f \in Seq(W) /\ Len(f) = 2 + Len(T) + Len(M) + 1
           /\ f[1] = a /\ f[2] = b /\ f[2 + Len(T) + Len(M) + 1] = u
           /\ \A i \in 1..Len(T) : f[2 + i] = T[i]
           /\ \A i \in 1..Len(M) : f[2 + Len(T) + i] = M[i]
<1>1. PICK A : A = <<a, b>>
  OBVIOUS
<1>2. PICK U : U = <<u>>
  OBVIOUS
<1>3. PICK B : B = A \o T
  OBVIOUS
<1>4. PICK C : C = B \o M
  OBVIOUS
<1>5. PICK g : g = C \o U
  OBVIOUS
<1>6. /\ A \in Seq(W) /\ Len(A) = 2 /\ A[1] = a /\ A[2] = b
      /\ U \in Seq(W) /\ Len(U) = 1 /\ U[1] = u
  BY <1>1, <1>2
<1>7. /\ B \in Seq(W) /\ Len(B) = Len(A) + Len(T)
      /\ \A i \in 1..Len(A) : B[i] = A[i]
      /\ \A i \in 1..Len(T) : B[Len(A) + i] = T[i]
  <2>1. A \in Seq(W)
    BY <1>6
  <2>. QED
    BY <1>3, <2>1
<1>8. /\ C \in Seq(W) /\ Len(C) = Len(B) + Len(M)
      /\ \A i \in 1..Len(B) : C[i] = B[i]
      /\ \A i \in 1..Len(M) : C[Len(B) + i] = M[i]
  <2>1. B \in Seq(W)
    BY <1>7
  <2>. QED
    BY <1>4, <2>1
<1>9. /\ g \in Seq(W) /\ Len(g) = Len(C) + Len(U)
      /\ \A i \in 1..Len(C) : g[i] = C[i]
      /\ \A i \in 1..Len(U) : g[Len(C) + i] = U[i]
  <2>1. C \in Seq(W) /\ U \in Seq(W)
    BY <1>6, <1>8
  <2>. QED
    BY <1>5, <2>1
<1>10. Len(T) \in Nat /\ Len(M) \in Nat
  OBVIOUS
<1>11. Len(B) = 2 + Len(T) /\ Len(C) = 2 + Len(T) + Len(M)
       /\ Len(g) = 2 + Len(T) + Len(M) + 1
  BY <1>6, <1>7, <1>8, <1>9
<1>12. g[1] = a /\ g[2] = b
  <2>1. \A i \in {1, 2} : i \in 1..Len(A) /\ i \in 1..Len(B) /\ i \in 1..Len(C)
    BY <1>6, <1>10, <1>11
  <2>. QED
    BY <1>6, <1>7, <1>8, <1>9, <2>1
<1>13. ASSUME NEW i \in 1..Len(T)
       PROVE  g[2 + i] = T[i]
  <2>1. 2 + i \in 1..Len(B) /\ 2 + i \in 1..Len(C)
    BY <1>10, <1>11
  <2>. QED
    BY <1>6, <1>7, <1>8, <1>9, <2>1
<1>14. ASSUME NEW i \in 1..Len(M)
       PROVE  g[2 + Len(T) + i] = M[i]
  <2>1. 2 + Len(T) + i \in 1..Len(C)
    BY <1>10, <1>11
  <2>. QED
    BY <1>8, <1>9, <1>11, <2>1
<1>15. g[2 + Len(T) + Len(M) + 1] = u
  <2>1. 1 \in 1..Len(U)
    BY <1>6
  <2>. QED
    BY <1>6, <1>9, <1>11, <2>1
<1>16. g = f
  BY <1>1, <1>2, <1>3, <1>4, <1>5
<1>. QED
  BY <1>9, <1>11, <1>12, <1>13, <1>14, <1>15, <1>16

\* The sections without Google: the hobbies' are distinct, between the first and the
\* last.
LEMMA FallbackInOrder ==
    ASSUME NEW S, NEW ids \in Seq(S)
    PROVE  LET f == FallbackFeed(ids)
           IN  /\ IsInjective(f)
               /\ Head(f) = Rail("popular") /\ Last(f) = Rail("unwind")
<1>. DEFINE seen == FirstHobbies(ids)
            k == Len(seen)
            pop == Rail("popular")
            wor == Rail("world")
            unw == Rail("unwind")
            T == [i \in DOMAIN seen |-> Trending(seen[i])]
            M == IF Contains(seen, Trek) THEN <<>> ELSE <<Trending(Trek)>>
            Trends == {Trending(x) : x \in S \cup {Trek}}
            W == {pop, wor, unw} \cup Trends
            row == T \o M
            f == <<pop, wor>> \o T \o M \o <<unw>>
<1>1. seen \in Seq(S) /\ IsInjective(seen)
  BY FirstHobbiesDistinct
<1>. HIDE DEF seen
<1>2. k \in Nat /\ DOMAIN seen = 1..k /\ \A i \in 1..k : seen[i] \in S
  BY <1>1
<1>. HIDE DEF k
<1>3. /\ T \in Seq(W) /\ Len(T) = k
      /\ \A i \in 1..k : T[i] = Trending(seen[i])
  BY <1>2
<1>4. \A x, y : Trending(x) = Trending(y) => x = y
  BY DEF Trending
<1>5. \A x : Trending(x) \notin {pop, wor, unw}
  BY DEF Trending, Rail
<1>6. pop # wor /\ pop # unw /\ wor # unw
  BY DEF Rail
<1>. HIDE DEF T
<1>7. PICK m \in 0..1 :
         /\ M \in Seq(W) /\ Len(M) = m
         /\ m = 1 => M[1] = Trending(Trek) /\ \A i \in 1..k : seen[i] # Trek
  <2>1. CASE Contains(seen, Trek)
    <3>1. M = <<>>
      BY <2>1
    <3>. QED
      BY <3>1
  <2>2. CASE ~Contains(seen, Trek)
    <3>1. M = <<Trending(Trek)>>
      BY <2>2
    <3>2. \A i \in 1..k : seen[i] # Trek
      BY <2>2 DEF Contains, k
    <3>3. Trending(Trek) \in W
      OBVIOUS
    <3>. HIDE DEF M, W
    <3>. QED
      BY <3>1, <3>2, <3>3
  <2>. QED
    BY <2>1, <2>2
<1>. HIDE DEF M
<1>8. pop \in W /\ wor \in W /\ unw \in W
  OBVIOUS
<1>. HIDE DEF W, pop, wor, unw
<1>9. /\ Len(f) = k + m + 3 /\ f \in Seq(W)
      /\ f[1] = pop /\ f[2] = wor /\ f[k + m + 3] = unw
      /\ \A i \in 1..k : f[2 + i] = Trending(seen[i])
      /\ m = 1 => f[2 + k + 1] = Trending(Trek)
  <2>1. PICK g : g = f
    OBVIOUS
  <2>2. /\ g \in Seq(W) /\ Len(g) = 2 + Len(T) + Len(M) + 1
        /\ g[1] = pop /\ g[2] = wor /\ g[2 + Len(T) + Len(M) + 1] = unw
        /\ \A i \in 1..Len(T) : g[2 + i] = T[i]
        /\ \A i \in 1..Len(M) : g[2 + Len(T) + i] = M[i]
    <3>1. T \in Seq(W) /\ M \in Seq(W)
      BY <1>3, <1>7
    <3>. QED
      BY <1>8, <2>1, <3>1, FourParts
  <2>3. 2 + k + m + 1 = k + m + 3 /\ 1 \in 1..1
    BY <1>2, <1>7
  <2>4. Len(g) = k + m + 3 /\ g[k + m + 3] = unw
    BY <1>3, <1>7, <2>2, <2>3
  <2>5. \A i \in 1..k : g[2 + i] = Trending(seen[i])
    BY <1>3, <2>2
  <2>6. m = 1 => g[2 + k + 1] = Trending(Trek)
    BY <1>3, <1>7, <2>2, <2>3
  <2>. HIDE DEF f
  <2>. QED
    BY <2>1, <2>2, <2>4, <2>5, <2>6
<1>. HIDE DEF f
<1>10. DOMAIN f = 1..k + m + 3
  BY <1>9
<1>11. ASSUME NEW i \in DOMAIN f
       PROVE  \/ i = 1 /\ f[i] = pop
              \/ i = 2 /\ f[i] = wor
              \/ i = k + m + 3 /\ f[i] = unw
              \/ m = 1 /\ i = 2 + k + 1 /\ f[i] = Trending(Trek)
              \/ i - 2 \in 1..k /\ f[i] = Trending(seen[i - 2])
  <2>1. i \in {1, 2, k + m + 3} \/ (m = 1 /\ i = 2 + k + 1) \/ i - 2 \in 1..k
    BY <1>2, <1>7, <1>10
  <2>2. ASSUME i - 2 \in 1..k
        PROVE  f[i] = Trending(seen[i - 2])
    <3>1. 2 + (i - 2) = i
      BY <1>2, <1>10
    <3>. QED
      BY <1>9, <2>2, <3>1
  <2>. QED
    BY <1>9, <2>1, <2>2
<1>12. IsInjective(f)
  <2>. SUFFICES ASSUME NEW i \in DOMAIN f, NEW j \in DOMAIN f, f[i] = f[j]
                PROVE  i = j
    BY DEF IsInjective
  <2>1. \A a, b \in 1..k : Trending(seen[a]) = Trending(seen[b]) => a = b
    BY <1>1, <1>2, <1>4 DEF IsInjective
  <2>2. m = 1 => \A a \in 1..k : Trending(seen[a]) # Trending(Trek)
    BY <1>4, <1>7
  <2>3. i \in Nat /\ j \in Nat
    BY <1>2, <1>10
  <2>. QED
    BY <1>2, <1>5, <1>6, <1>11, <2>1, <2>2, <2>3 DEF pop, wor, unw
<1>13. Head(f) = pop /\ Last(f) = unw
  BY <1>9 DEF Last
<1>14. FallbackFeed(ids) = f
  BY DEF FallbackFeed, f, pop, wor, unw, seen, T, M
<1>. QED
  BY <1>12, <1>13, <1>14 DEF pop, unw

\* The first n of the searched sections.
RailsSoFar(n) == [i \in 1..n |-> Rail(Rails[i])]

\* The sections of a feed under way are the first of the searched ones.
SectionsIInv ==
    /\ feed.at = "rails" =>
          \E n \in Nat : n < Len(Rails) /\ feed.sections = RailsSoFar(n)
    /\ feed.at = "mosaic" => feed.sections = RailsSoFar(Len(Rails))
    /\ SectionsOrdered

\* One more search is one more of the searched sections.
LEMMA RailsGrow ==
    ASSUME NEW n \in Nat
    PROVE  /\ Len(RailsSoFar(n)) = n
           /\ Append(RailsSoFar(n), Rail(Rails[n + 1])) = RailsSoFar(n + 1)
<1>. DEFINE W == {Rail(Rails[i]) : i \in 1..n + 1}
            s == RailsSoFar(n)
            t == Append(s, Rail(Rails[n + 1]))
<1>1. s \in Seq(W) /\ Len(s) = n /\ \A i \in 1..n : s[i] = Rail(Rails[i])
  BY DEF RailsSoFar
<1>2. Rail(Rails[n + 1]) \in W
  OBVIOUS
<1>. HIDE DEF s, W
<1>3. /\ t \in Seq(W) /\ Len(t) = n + 1 /\ t[n + 1] = Rail(Rails[n + 1])
      /\ \A i \in 1..n : t[i] = s[i]
  BY <1>1, <1>2
<1>4. t \in [1..n + 1 -> W]
  BY <1>3, LenProperties
<1>. HIDE DEF t
<1>5. \A i \in 1..n + 1 : t[i] = Rail(Rails[i])
  BY <1>1, <1>3
<1>6. t = RailsSoFar(n + 1)
  BY <1>4, <1>5 DEF RailsSoFar
<1>. QED
  BY <1>1, <1>6 DEF s, t

\* With the last section the searched ones are in order.
LEMMA RailsInOrder ==
    LET f == Append(RailsSoFar(Len(Rails)), Rail("unwind"))
    IN  /\ IsInjective(f)
        /\ Head(f) = Rail("popular") /\ Last(f) = Rail("unwind")
<1>. DEFINE n == Len(Rails)
            s == RailsSoFar(n)
            u == Rail("unwind")
            W == {Rail(Rails[i]) : i \in 1..n} \cup {u}
            f == Append(s, u)
<1>1. n \in Nat /\ n >= 1 /\ DOMAIN Rails = 1..n
  BY RailsAssumption
<1>2. \A a, b : Rail(a) = Rail(b) => a = b
  BY DEF Rail
<1>. HIDE DEF n
<1>3. s \in Seq(W) /\ Len(s) = n /\ \A i \in 1..n : s[i] = Rail(Rails[i])
  BY <1>1 DEF RailsSoFar
<1>4. u \in W
  OBVIOUS
<1>. HIDE DEF s, u, W
<1>5. /\ f \in Seq(W) /\ Len(f) = n + 1 /\ f[n + 1] = u
      /\ \A i \in 1..n : f[i] = s[i]
  BY <1>3, <1>4
<1>. HIDE DEF f
<1>6. \A i \in 1..n : f[i] = Rail(Rails[i])
  BY <1>3, <1>5
<1>7. DOMAIN f = 1..n + 1
  BY <1>5
<1>8. IsInjective(f)
  <2>. SUFFICES ASSUME NEW i \in 1..n + 1, NEW j \in 1..n + 1, f[i] = f[j]
                PROVE  i = j
    BY <1>7 DEF IsInjective
  <2>1. \A a \in 1..n : Rails[a] # "unwind" /\ \A b \in 1..n : Rails[a] = Rails[b] => a = b
    BY <1>1, RailsAssumption
  <2>2. CASE i \in 1..n /\ j \in 1..n
    BY <1>2, <1>6, <2>1, <2>2
  <2>3. CASE i = n + 1 \/ j = n + 1
    BY <1>1, <1>2, <1>5, <1>6, <2>1, <2>3 DEF u
  <2>. QED
    BY <1>1, <2>2, <2>3
<1>9. Head(f) = Rail("popular")
  BY <1>1, <1>5, <1>6, RailsAssumption
<1>10. Last(f) = u
  BY <1>1, <1>5 DEF Last
<1>. QED
  BY <1>8, <1>9, <1>10 DEF f, u, s, n

\* For any searched sections and whatever the tables say of a user, an answered feed
\* has each section once, between the popular and the unwind one.
LEMMA SectionsInOrder == Spec => []SectionsOrdered
<1>1. Init => SectionsIInv
  BY DEF Init, ExploreInit, NoFeed, SectionsIInv, SectionsOrdered
<1>2. SectionsIInv /\ [Next]_vars => SectionsIInv'
  <2>1. ASSUME SectionsIInv, UNCHANGED feed
        PROVE  SectionsIInv'
    BY <2>1 DEF SectionsIInv, SectionsOrdered, RailsSoFar, Rail
  <2>2. ASSUME NEW f, feed'.at = "answered", feed'.sections = f, IsInjective(f),
               Head(f) = Rail("popular"), Last(f) = Rail("unwind")
        PROVE  SectionsIInv'
    BY <2>2 DEF SectionsIInv, SectionsOrdered, IsInjective, Rail, Last
  <2>3. ASSUME NEW enabled, NEW h \in HobbyRows, NEW i \in HobbyRows,
               StartFeed(enabled, h, i)
        PROVE  SectionsIInv'
    <3>. DEFINE ids == HobbyIDs(h, i)
    <3>1. CASE enabled
      <4>1. feed' = [at |-> "rails", sections |-> <<>>]
        BY <2>3, <3>1 DEF StartFeed
      <4>2. RailsSoFar(0) = <<>>
        BY DEF RailsSoFar
      <4>3. 0 \in Nat /\ 0 < Len(Rails)
        BY RailsAssumption
      <4>4. feed'.at = "rails" /\ feed'.sections = RailsSoFar(0)
        BY <4>1, <4>2
      <4>. QED
        BY <4>3, <4>4 DEF SectionsIInv, SectionsOrdered, RailsSoFar, Rail
    <3>2. CASE ~enabled
      <4>1. ids \in HobbyRows \cup {Defaults}
        BY DEF HobbyIDs
      <4>2. ids \in Seq(Range(ids))
        BY <4>1, HobbiesAssumption
      <4>3. feed' = [at |-> "answered", sections |-> FallbackFeed(ids)]
        BY <2>3, <3>2 DEF StartFeed
      <4>. HIDE DEF ids
      <4>. QED
        BY <2>2, <4>2, <4>3, FallbackInOrder
    <3>. QED
      BY <3>1, <3>2
  <2>4. ASSUME SectionsIInv, SearchRail
        PROVE  SectionsIInv'
    <3>1. PICK n \in Nat : n < Len(Rails) /\ feed.sections = RailsSoFar(n)
      BY <2>4 DEF SearchRail, SectionsIInv
    <3>2. Len(Rails) \in Nat
      BY RailsAssumption
    <3>3. feed' = [at |-> IF n + 1 = Len(Rails) THEN "mosaic" ELSE "rails",
                   sections |-> RailsSoFar(n + 1)]
      BY <2>4, <3>1, RailsGrow DEF SearchRail
    <3>4. CASE n + 1 = Len(Rails)
      BY <3>3, <3>4 DEF SectionsIInv, SectionsOrdered, RailsSoFar, Rail
    <3>5. CASE n + 1 # Len(Rails)
      <4>1. n + 1 \in Nat /\ n + 1 < Len(Rails)
        BY <3>1, <3>2, <3>5
      <4>2. feed'.at = "rails" /\ feed'.sections = RailsSoFar(n + 1)
        BY <3>3, <3>5
      <4>. QED
        BY <4>1, <4>2 DEF SectionsIInv, SectionsOrdered, RailsSoFar, Rail
    <3>. QED
      BY <3>4, <3>5
  <2>5. ASSUME SectionsIInv, UnwindItems
        PROVE  SectionsIInv'
    <3>1. feed.sections = RailsSoFar(Len(Rails))
      BY <2>5 DEF UnwindItems, SectionsIInv
    <3>2. \/ feed' = feed
          \/ feed' = [at |-> "answered",
                      sections |-> Append(feed.sections, Rail("unwind"))]
      BY <2>5 DEF UnwindItems
    <3>. DEFINE f == Append(RailsSoFar(Len(Rails)), Rail("unwind"))
    <3>3. IsInjective(f) /\ Head(f) = Rail("popular") /\ Last(f) = Rail("unwind")
      BY RailsInOrder
    <3>4. feed' = feed \/ (feed'.at = "answered" /\ feed'.sections = f)
      BY <3>1, <3>2
    <3>. HIDE DEF f
    <3>. QED
      BY <2>1, <2>2, <2>5, <3>3, <3>4
  <2>6. [Next]_vars => FeedNext \/ UNCHANGED feed
    BY DEF Next, ContentActs, FeedActs, CardActs, BootActs, PagesActs, vars, feedVars
  <2>7. \A i \in 1..N : SearchPart(i) => UNCHANGED feed
    BY DEF SearchPart
  <2>. QED
    BY <2>1, <2>3, <2>4, <2>5, <2>6, <2>7 DEF FeedNext
<1>3. SectionsIInv => SectionsOrdered
  BY DEF SectionsIInv
<1>. QED
  BY <1>1, <1>2, <1>3, PTL DEF Spec

\* explore.go:188, fallback.go:46: for any sections, categories and searches and
\* whatever the tables say of a user, a feed is answered in order.
THEOREM FeedsInOrder == Spec => []FeedOrdered
<1>1. SectionsOrdered /\ MosaicOrdered => FeedOrdered
  BY DEF FeedOrdered
<1>. QED
  BY <1>1, SectionsInOrder, MosaicsInOrder, PTL

-----------------------------------------------------------------------------
(***************************************************************************)
(* The cards.  What the providers add goes behind the picture that is first, *)
(* and only when it is not there.                                          *)
(***************************************************************************)

\* A list that names nothing twice has as many elements as places.
LEMMA InjectiveCount ==
    ASSUME NEW S, NEW list \in Seq(S), IsInjective(list)
    PROVE  Cardinality(Range(list)) = Len(list)
<1>. DEFINE n == Len(list)
            R == Range(list)
<1>1. n \in Nat /\ DOMAIN list = 1..n
  OBVIOUS
<1>2. list \in [1..n -> R] /\ \A t \in R : \E i \in 1..n : list[i] = t
  BY <1>1 DEF Range
<1>. HIDE DEF n, R
<1>3. ExistsBijection(1..n, R)
  <2>1. list \in Bijection(1..n, R)
    BY <1>1, <1>2 DEF Bijection, Injection, Surjection, IsInjective
  <2>. QED
    BY <2>1 DEF ExistsBijection
<1>4. IsFiniteSet(1..n) /\ Cardinality(1..n) = n
  BY <1>1, FS_Interval
<1>. QED
  BY <1>3, <1>4, FS_Bijection DEF n, R

\* The summary that a card takes is one of those found, or none.
LEMMA FirstSummary ==
    ASSUME NEW summaries \in TitleCandidates,
           NEW hits, hits = {i \in DOMAIN summaries : summaries[i].extract}, hits # {}
    PROVE  /\ summaries[Min(hits)].extract
           /\ summaries[Min(hits)].thumb \in Pictures \cup {NoUrl}
           /\ summaries[Min(hits)].url \in {NoUrl, "wiki"}
<1>. DEFINE Summary1 == {NoSummary} \cup [extract : {TRUE}, thumb : Pictures \cup {NoUrl},
                                          url : {NoUrl, "wiki"}]
<1>1. PICK n \in 1..2 : summaries \in [1..n -> Summary1]
  BY DEF TitleCandidates
<1>2. hits \subseteq Nat
  BY <1>1
<1>3. \E i \in hits : \A j \in hits : i <= j
  BY <1>2, LeastNumber
<1>4. Min(hits) \in hits
  BY <1>3 DEF Min
<1>5. summaries[Min(hits)] \in Summary1 /\ summaries[Min(hits)].extract
  BY <1>1, <1>4
<1>6. ~NoSummary.extract
  BY DEF NoSummary
<1>7. summaries[Min(hits)] \in [extract : {TRUE}, thumb : Pictures \cup {NoUrl},
                                url : {NoUrl, "wiki"}]
  BY <1>5, <1>6, Zenon
<1>. QED
  BY <1>5, <1>7

\* The pictures a card can show.
Photo == Pictures \cup {"own"}

\* A card with what the providers add: a picture in front, none twice.
LEMMA EnrichKeepsHero ==
    ASSUME NEW c, NEW summaries \in TitleCandidates, NEW images \in SeqOf(Pictures, 2)
    PROVE  LET d == Enrich(Detail(c), summaries, images)
           IN  /\ d.status = "ok" /\ d.image \in Photo
               /\ d.photos \in Seq(Photo) /\ IsInjective(d.photos)
               /\ d.photos # <<>> /\ d.photos[1] = d.image
               /\ d.sources \in Seq({"wiki", CommonsUrl}) /\ IsInjective(d.sources)
<1>. DEFINE hits == {i \in DOMAIN summaries : summaries[i].extract}
            s == IF hits = {} THEN NoSummary ELSE summaries[Min(hits)]
            own == <<"own">>
            photos == IF s.thumb = NoUrl THEN own ELSE DedupePrepend(own, s.thumb)
            hero == IF s.thumb = NoUrl THEN "own" ELSE s.thumb
            all == AppendImages(photos, images)
            none == <<>>
            first == IF s.url = NoUrl THEN none ELSE AppendUnique(none, s.url)
            sources == IF images = <<>> THEN first ELSE AppendUnique(first, CommonsUrl)
            d == Enrich(Detail(c), summaries, images)
<1>1. s.thumb \in Pictures \cup {NoUrl} /\ s.url \in {NoUrl, "wiki"}
  <2>1. hits # {} => /\ summaries[Min(hits)].thumb \in Pictures \cup {NoUrl}
                     /\ summaries[Min(hits)].url \in {NoUrl, "wiki"}
    BY FirstSummary
  <2>. HIDE DEF hits
  <2>. QED
    BY <2>1 DEF NoSummary
<1>2. d.status = "ok" /\ d.image = hero /\ d.photos = all /\ d.sources = sources
  BY DEF Enrich, Detail
<1>. HIDE DEF s, d
<1>3. images \in Seq(Photo)
  <2>1. PICK m \in 0..2 : images \in [1..m -> Pictures]
    BY DEF SeqOf
  <2>2. images \in [1..m -> Photo]
    BY <2>1 DEF Photo
  <2>. QED
    BY <2>2
<1>4. own \in Seq(Photo) /\ IsInjective(own) /\ own # <<>> /\ own[1] = "own"
  BY DEF Photo, IsInjective
<1>. HIDE DEF own
<1>5. /\ photos \in Seq(Photo) /\ IsInjective(photos)
      /\ photos # <<>> /\ photos[1] = hero /\ hero \in Photo
  <2>1. CASE s.thumb = NoUrl
    BY <1>4, <2>1 DEF Photo
  <2>2. CASE s.thumb # NoUrl
    <3>1. s.thumb \in Photo
      BY <1>1, <2>2 DEF Photo
    <3>. QED
      BY <1>4, <2>2, <3>1, DedupePrependKeeps
  <2>. QED
    BY <2>1, <2>2
<1>. HIDE DEF photos, hero
<1>6. /\ all \in Seq(Photo) /\ IsInjective(all)
      /\ all # <<>> /\ all[1] = hero
  BY <1>3, <1>5, AppendImagesKeeps
<1>7. none \in Seq({"wiki", CommonsUrl}) /\ IsInjective(none)
  BY DEF IsInjective
<1>. HIDE DEF none
<1>8. first \in Seq({"wiki", CommonsUrl}) /\ IsInjective(first)
  BY <1>1, <1>7, AppendUniqueKeeps
<1>. HIDE DEF first
<1>9. sources \in Seq({"wiki", CommonsUrl}) /\ IsInjective(sources)
  BY <1>8, AppendUniqueKeeps
<1>. HIDE DEF sources
<1>. QED
  BY <1>2, <1>5, <1>6, <1>9 DEF d

\* What the tables and screens hold are trails, and the card that is open has an
\* image, which comes first.
CardIInv ==
    /\ trails \subseteq TrailIds /\ shown \subseteq TrailIds
    /\ writing \in Seq(TrailIds)
    /\ opened.status \in {"none", "ok", "blank", "bad gateway", "not found"}
    /\ opened.status = "ok" => opened.image \in Pictures \cup {"own", Stock}
    /\ HeroFirst

\* What a card of the catalog or the table opens to.
LEMMA EnrichedCard ==
    ASSUME NEW c, NEW summaries \in TitleCandidates, NEW images \in SeqOf(Pictures, 2),
           UNCHANGED <<trails, writing, shown>>, CardIInv,
           opened' = Enrich(Detail(c), summaries, images)
    PROVE  CardIInv'
<1>. DEFINE d == Enrich(Detail(c), summaries, images)
<1>1. /\ d.status = "ok" /\ d.image \in Photo
      /\ d.photos \in Seq(Photo) /\ IsInjective(d.photos)
      /\ d.photos # <<>> /\ d.photos[1] = d.image
      /\ d.sources \in Seq({"wiki", CommonsUrl}) /\ IsInjective(d.sources)
  BY EnrichKeepsHero
<1>. HIDE DEF d
<1>2. Head(d.photos) = d.image
  BY <1>1
<1>3. /\ Cardinality(Range(d.photos)) = Len(d.photos)
      /\ Cardinality(Range(d.sources)) = Len(d.sources)
  BY <1>1, InjectiveCount
<1>4. opened' = d
  BY DEF d
<1>5. HeroFirst'
  BY <1>2, <1>3, <1>4 DEF HeroFirst
<1>. QED
  BY <1>1, <1>4, <1>5 DEF CardIInv, Photo

\* A card of Google's shows the first picture it has.
LEMMA PlaceCard ==
    ASSUME NEW c, NEW pictures \in SeqOf(Pictures, 2), opened' = PlaceDetail(c, pictures),
           UNCHANGED <<trails, writing, shown>>, CardIInv
    PROVE  CardIInv'
<1>. DEFINE d == PlaceDetail(c, pictures)
<1>1. PICK m \in 0..2 : pictures \in [1..m -> Pictures]
  BY DEF SeqOf
<1>2. pictures \in Seq(Pictures)
  BY <1>1
<1>3. /\ d.status = "ok" /\ d.text = "google" /\ d.photos = pictures /\ d.sources = <<>>
      /\ d.image = IF pictures = <<>> THEN Stock ELSE pictures[1]
  BY DEF PlaceDetail, Detail
<1>4. opened' = d /\ UNCHANGED <<trails, writing, shown>>
  OBVIOUS
<1>. HIDE DEF d
<1>5. Range(<<>>) = {} /\ Len(<<>>) = 0
  BY DEF Range
<1>6. pictures # <<>> => Head(pictures) = pictures[1] /\ pictures[1] \in Pictures
  BY <1>2
<1>7. HeroFirst'
  BY <1>3, <1>4, <1>5, <1>6, FS_EmptySet DEF HeroFirst
<1>. QED
  BY <1>3, <1>4, <1>6, <1>7 DEF CardIInv

\* A card that Google does not know, or is not asked for, has nothing to show.
LEMMA UnknownCard ==
    ASSUME NEW c, NEW enabled \in BOOLEAN, opened' \in Lookups(c, enabled),
           UNCHANGED <<trails, writing, shown>>, CardIInv
    PROVE  CardIInv'
<1>1. opened'.status \in {"blank", "bad gateway", "not found"}
  BY DEF Lookups
<1>2. HeroFirst'
  BY <1>1 DEF HeroFirst
<1>. QED
  BY <1>1, <1>2 DEF CardIInv

\* The cards shown are among those that were found.
LEMMA TreksStep ==
    ASSUME NEW nearby \in SetToAllKPermutations(TrailIds), Treks(nearby), CardIInv
    PROVE  CardIInv'
<1>1. PICK s \in SUBSET TrailIds : nearby \in SetToSeqs(s)
  BY DEF SetToAllKPermutations
<1>2. nearby \in Seq(TrailIds)
  <2>1. Cardinality(s) \in Nat
    BY CardsAssumption, FS_Subset, FS_CardinalityType
  <2>2. nearby \in [1..Cardinality(s) -> TrailIds]
    BY <1>1 DEF SetToSeqs
  <2>. QED
    BY <2>1, <2>2
<1>3. Range(Take(nearby, NearYou)) \subseteq TrailIds
  BY <1>2, CardsAssumption DEF Take, Range
<1>4. HeroFirst'
  BY DEF Treks, CardIInv, HeroFirst
<1>. QED
  BY <1>2, <1>3, <1>4 DEF Treks, CardIInv

\* No step of any part leads out of it.
LEMMA CardsKeep == CardIInv /\ [Next]_vars => CardIInv'
<1>. SUFFICES ASSUME CardIInv, [Next]_vars PROVE CardIInv'
  OBVIOUS
<1>1. ASSUME UNCHANGED cardVars PROVE CardIInv'
  BY <1>1 DEF CardIInv, HeroFirst, cardVars
<1>2. ASSUME UNCHANGED opened, trails' \subseteq TrailIds, writing' \in Seq(TrailIds),
             UNCHANGED shown
      PROVE  CardIInv'
  BY <1>2 DEF CardIInv, HeroFirst
<1>3. CardNext \/ UNCHANGED cardVars
  BY DEF Next, ContentActs, FeedActs, CardActs, BootActs, PagesActs, vars
<1>4. ASSUME NEW nearby \in SetToAllKPermutations(TrailIds), Treks(nearby)
      PROVE  CardIInv'
  BY <1>4, TreksStep
<1>5. ASSUME PersistTrails PROVE CardIInv'
  <2>1. writing \in Seq(TrailIds) /\ writing # <<>>
    BY <1>5 DEF CardIInv, PersistTrails
  <2>2. Head(writing) \in TrailIds /\ Tail(writing) \in Seq(TrailIds)
    BY <2>1
  <2>3. /\ trails' = trails \cup {Head(writing)} /\ writing' = Tail(writing)
        /\ shown' = shown /\ opened' = opened
    BY <1>5 DEF PersistTrails
  <2>4. trails \subseteq TrailIds
    BY DEF CardIInv
  <2>5. trails' \subseteq TrailIds /\ writing' \in Seq(TrailIds)
    BY <2>2, <2>3, <2>4
  <2>. QED
    BY <1>2, <2>3, <2>5
<1>6. ASSUME PersistFails PROVE CardIInv'
  <2>1. writing' = <<>> /\ trails' = trails /\ shown' = shown /\ opened' = opened
    BY <1>6 DEF PersistFails
  <2>2. trails \subseteq TrailIds /\ <<>> \in Seq(TrailIds)
    BY EmptySeq DEF CardIInv
  <2>. QED
    BY <1>2, <2>1, <2>2
<1>7. ASSUME NEW s \in TitleCandidates, NEW images \in SeqOf(Pictures, 2),
             NEW card \in Cards, NEW enabled \in BOOLEAN, OpenCard(card, enabled, s, images)
      PROVE  CardIInv'
  BY <1>7, EnrichedCard DEF OpenCard
<1>8. ASSUME NEW s \in TitleCandidates, NEW images \in SeqOf(Pictures, 2),
             NEW t \in TrailIds, NEW enabled \in BOOLEAN, OpenTrail(t, enabled, s, images)
      PROVE  CardIInv'
  <2>1. CASE TrailItemByID(PathParam(t))
    BY <1>8, <2>1, EnrichedCard DEF OpenTrail
  <2>2. CASE ~TrailItemByID(PathParam(t))
    BY <1>8, <2>2, UnknownCard DEF OpenTrail
  <2>. QED
    BY <2>1, <2>2

<1>9. ASSUME NEW card \in Cards, NEW enabled \in BOOLEAN,
             NEW pictures \in SeqOf(Pictures, 2), OpenPlace(card, enabled, pictures)
      PROVE  CardIInv'
  BY <1>9, PlaceCard, UnknownCard DEF OpenPlace
<1>. QED
  BY <1>1, <1>3, <1>4, <1>5, <1>6, <1>7, <1>8, <1>9 DEF CardNext

\* At first no card is open.
LEMMA CardsStart == Init => CardIInv
<1>. SUFFICES ASSUME Init PROVE CardIInv
  OBVIOUS
<1>1. trails = {} /\ writing = <<>> /\ shown = {} /\ opened.status = "none"
  BY DEF Init, ExploreInit, NotOpened
<1>. QED
  BY <1>1 DEF CardIInv, HeroFirst

\* For any pictures and summaries, a card shows its picture first and nothing twice.
THEOREM HeroesComeFirst == Spec => []HeroFirst
<1>1. CardIInv => HeroFirst
  BY DEF CardIInv
<1>. QED
  BY <1>1, CardsStart, CardsKeep, PTL DEF Spec

-----------------------------------------------------------------------------
(***************************************************************************)
(* The types.  Those of the feed, the walks and the processes follow from  *)
(* the invariants above; the caches, the cards and the bounds have         *)
(* invariants of their own.                                                *)
(***************************************************************************)
\* A cache holds entries under its keys.
Caching(s) ==
    /\ DOMAIN cache[s] \subseteq Keys
    /\ \A k \in DOMAIN cache[s] : cache[s][k] \in Entry
    /\ cache[s] = [k \in DOMAIN cache[s] |-> cache[s][k]]

\* The types of the caches and of the calls upstream.
ContentTypes ==
    /\ clock \in 0..MaxTime
    /\ DOMAIN cache = Services /\ \A s \in Services : Caching(s)
    /\ asking \in [Callers -> Call \cup {NotAsking}]

\* What a call holds while it waits and when it has its reply.
LEMMA CallParts ==
    ASSUME NEW q \in Call \cup {NotAsking}, q.at # "idle"
    PROVE  /\ q \in Call
           /\ q.service \in Services /\ q.key \in Keys /\ q.host \in 1..2
           /\ q.since \in 0..MaxTime
           /\ q.at = "reply" => q.val \in Result
<1>1. q \in Call
  BY DEF NotAsking
<1>. QED
  BY <1>1 DEF Call

\* One call begins, goes on or ends.
LEMMA AskingTyped ==
    ASSUME ContentTypes, UNCHANGED clock,
           DOMAIN cache' = Services /\ \A s \in Services : Caching(s)',
           NEW c \in Callers, NEW q \in Call \cup {NotAsking},
           asking' = [asking EXCEPT ![c] = q]
    PROVE  ContentTypes'
BY DEF ContentTypes, Call, Result

\* A call that ends leaves no trace in what waits.
LEMMA SettleTyped ==
    ASSUME ContentTypes, UNCHANGED clock,
           DOMAIN cache' = Services /\ \A s \in Services : Caching(s)',
           NEW c \in Callers, Settle(c)
    PROVE  ContentTypes'
BY AskingTyped DEF Settle

\* A call goes upstream with the time it began.
LEMMA AskTyped ==
    ASSUME ContentTypes, UNCHANGED clock,
           DOMAIN cache' = Services /\ \A s \in Services : Caching(s)',
           NEW c \in Callers, NEW s \in Services, NEW k \in Keys, NEW host \in 1..2,
           Ask(c, s, k, host)
    PROVE  ContentTypes'
<1>. DEFINE q == [at |-> "upstream", service |-> s, key |-> k, host |-> host,
                  since |-> clock]
<1>1. q \in Call
  BY DEF Call, ContentTypes
<1>. QED
  BY <1>1, AskingTyped DEF Ask

\* A put leaves entries.
LEMMA StoreTyped ==
    ASSUME ContentTypes, NEW c \in Callers, asking[c].at # "idle",
           NEW v \in Result, Store(c, v)
    PROVE  DOMAIN cache' = Services /\ \A s \in Services : Caching(s)'
<1>1. asking[c].service \in Services /\ asking[c].key \in Keys
  BY CallParts DEF ContentTypes
<1>2. PICK r \in Services, key \in Keys : r = asking[c].service /\ key = asking[c].key
  BY <1>1
<1>. DEFINE e == [val |-> v, expires |-> clock + Ttl[r]]
<1>3. PICK t : t = cache[r]
  OBVIOUS
<1>4. PICK kept \in Evictions(cache[asking[c].service], clock) :
         cache' = [cache EXCEPT ![asking[c].service] =
                     Put([j \in kept |-> cache[asking[c].service][j]], asking[c].key,
                         [val |-> v, expires |-> clock + Ttl[asking[c].service]])]
  BY DEF Store, AfterPut
<1>5. /\ kept \in Evictions(t, clock)
      /\ cache' = [cache EXCEPT ![r] = Put([j \in kept |-> t[j]], key, e)]
  BY <1>2, <1>3, <1>4
<1>6. kept \subseteq DOMAIN t
  BY <1>5 DEF Evictions, Live
<1>7. clock \in Nat /\ Ttl[r] \in Nat
  BY ContentAssumption DEF ContentTypes
<1>8. e \in Entry
  BY <1>7 DEF Entry
<1>9. DOMAIN t \subseteq Keys /\ \A k \in DOMAIN t : t[k] \in Entry
  BY <1>3 DEF ContentTypes, Caching
<1>. HIDE DEF e
<1>10. PICK after : after = Put([j \in kept |-> t[j]], key, e)
  OBVIOUS
<1>11. /\ DOMAIN after = kept \cup {key}
       /\ after = [k \in DOMAIN after |-> after[k]]
       /\ \A k \in DOMAIN after : after[k] = e \/ (k \in kept /\ after[k] = t[k])
  BY <1>10 DEF Put
<1>12. DOMAIN after \subseteq Keys /\ \A k \in DOMAIN after : after[k] \in Entry
  BY <1>6, <1>8, <1>9, <1>11
<1>13. /\ DOMAIN cache' = Services /\ cache'[r] = after
       /\ \A s \in Services \ {r} : cache'[s] = cache[s]
  BY <1>5, <1>10 DEF ContentTypes
<1>14. Caching(r)'
  BY <1>11, <1>12, <1>13 DEF Caching
<1>15. ASSUME NEW s \in Services \ {r}
       PROVE  Caching(s)'
  <2>1. cache'[s] = cache[s] /\ Caching(s)
    BY <1>13 DEF ContentTypes
  <2>. QED
    BY <2>1 DEF Caching
<1>. QED
  BY <1>13, <1>14, <1>15

\* Every step of a call keeps the types.
LEMMA ContentTypesStep ==
    ASSUME ContentTypes, [ContentNext]_contentVars
    PROVE  ContentTypes'
<1>1. ASSUME UNCHANGED cache
      PROVE  DOMAIN cache' = Services /\ \A s \in Services : Caching(s)'
  BY <1>1 DEF ContentTypes, Caching
<1>2. ASSUME NEW c \in Callers, NEW s \in Services, NEW k \in Keys, Miss(c, s, k)
      PROVE  ContentTypes'
  BY <1>1, <1>2, AskTyped DEF Miss
<1>3. ASSUME NEW c \in Callers, asking[c].at = "upstream", NEW v \in Result,
             NEW reply \in {"found", "nothing", "refused"},
             Hear(c, v, reply), UNCHANGED <<clock, cache>>
      PROVE  ContentTypes'
  <2>. DEFINE q == asking[c]
              a == [at |-> "reply", service |-> q.service, key |-> q.key,
                    host |-> q.host, since |-> q.since, val |-> v, reply |-> reply]
  <2>1. /\ q.service \in Services /\ q.key \in Keys /\ q.host \in 1..2
        /\ q.since \in 0..MaxTime
    BY <1>3, CallParts DEF ContentTypes
  <2>2. a \in Call
    BY <2>1 DEF Call
  <2>. QED
    BY <1>1, <1>3, <2>2, AskingTyped DEF Hear
<1>4. ASSUME NEW c \in Callers, NEW v \in Contents \cup {Nothing}, Say(c, v)
      PROVE  ContentTypes'
  <2>. DEFINE saying == [service |-> asking[c].service, key |-> asking[c].key,
                         content |-> v, at |-> clock]
              r == [content |-> v, said |-> {saying}]
  <2>1. /\ Hear(c, r, IF v = Nothing THEN "nothing" ELSE "found")
        /\ asking[c].at = "upstream" /\ UNCHANGED <<clock, cache>>
    BY <1>4 DEF Say
  <2>2. saying \in Saying
    BY <2>1, CallParts DEF Saying, ContentTypes
  <2>. HIDE DEF saying
  <2>3. r \in Result
    BY <2>2 DEF Result
  <2>. HIDE DEF r
  <2>. QED
    BY <1>3, <2>1, <2>3
<1>5. Empty \in Result
  BY DEF Empty, Result
<1>6. ASSUME NEW c \in Callers, Refuse(c)
      PROVE  ContentTypes'
  BY <1>3, <1>5, <1>6 DEF Refuse
<1>7. ASSUME NEW c \in Callers, Receive(c)
      PROVE  ContentTypes'
  <2>1. asking[c].at = "reply" /\ Settle(c) /\ UNCHANGED clock
    BY <1>7 DEF Receive
  <2>2. asking[c].val \in Result
    BY <2>1, CallParts DEF ContentTypes
  <2>3. Store(c, asking[c].val) \/ UNCHANGED cache
    BY <1>7 DEF Receive
  <2>. QED
    BY <1>1, <2>1, <2>2, <2>3, StoreTyped, SettleTyped
<1>8. ASSUME NEW c \in Callers, NEW services, NoAnswer(c, services)
      PROVE  ContentTypes'
  BY <1>1, <1>8, SettleTyped DEF NoAnswer
<1>9. ASSUME NEW c \in Callers, Summary(c)
      PROVE  ContentTypes'
  <2>1. asking[c].at # "idle" /\ UNCHANGED clock
    BY <1>9 DEF Summary
  <2>2. asking[c].key \in Keys /\ (asking[c].at = "reply" => asking[c].val \in Result)
    BY <2>1, CallParts DEF ContentTypes
  <2>3. CASE asking[c].at = "reply" /\ Store(c, asking[c].val) /\ Settle(c)
    BY <2>1, <2>2, <2>3, StoreTyped, SettleTyped
  <2>4. CASE Ask(c, "wiki", asking[c].key, 2) /\ UNCHANGED cache
    BY <1>1, <2>1, <2>2, <2>4, AskTyped DEF Services
  <2>5. CASE Store(c, Empty) /\ Settle(c)
    BY <1>5, <2>1, <2>5, StoreTyped, SettleTyped
  <2>. QED
    BY <1>9, <2>3, <2>4, <2>5 DEF Summary
<1>10. ASSUME ContentTick
       PROVE  ContentTypes'
  <2>1. clock' \in 0..MaxTime /\ UNCHANGED <<cache, asking>>
    BY <1>10, ContentAssumption DEF ContentTick, ContentTypes
  <2>. QED
    BY <1>1, <2>1 DEF ContentTypes, Call, Result
<1>11. ASSUME UNCHANGED contentVars
       PROVE  ContentTypes'
  BY <1>1, <1>11 DEF ContentTypes, contentVars
<1>. QED
  BY <1>2, <1>4, <1>6, <1>7, <1>8, <1>9, <1>10, <1>11
     DEF ContentNext, Get, GetBytes, PostBytes

\* A process is at a file of its own or has passed the last.
InFiles == \A p \in Processes : proc[p].i \in 1..Len(Files[p]) + 1

\* A process goes past a file only from a file it has.
LEMMA InFilesStep ==
    ASSUME BootIInv, InFiles, [BootNext]_bootVars
    PROVE  InFiles'
<1>1. \A p \in Processes : Len(Files[p]) \in Nat /\ DOMAIN Files[p] = 1..Len(Files[p])
  BY FilesAssumption
<1>2. proc \in [Processes -> [at : Places, i : Nat \ {0}]]
  BY DEF BootIInv, BootTypes
<1>3. ASSUME NEW p \in Processes, NEW q, proc' = [proc EXCEPT ![p] = q],
             q.i \in 1..Len(Files[p]) + 1
      PROVE  InFiles'
  BY <1>2, <1>3 DEF InFiles
<1>4. ASSUME NEW p \in Processes, NEW at, Step(p, at)
      PROVE  InFiles'
  <2>1. proc' = [proc EXCEPT ![p].at = at]
    BY <1>4 DEF Step
  <2>2. \A r \in Processes : proc'[r].i = proc[r].i
    BY <1>2, <2>1
  <2>. QED
    BY <2>2 DEF InFiles
<1>5. ASSUME NEW p \in Processes, Check(p)
      PROVE  InFiles'
  <2>1. CASE proc[p].i > Len(Files[p])
    BY <1>4, <1>5, <2>1 DEF Check
  <2>2. CASE File(p) \notin versions /\ ~(proc[p].i > Len(Files[p]))
    BY <1>4, <1>5, <2>2 DEF Check
  <2>3. CASE File(p) \in versions /\ ~(proc[p].i > Len(Files[p]))
    <3>1. proc' = [proc EXCEPT ![p].i = @ + 1]
      BY <1>5, <2>3 DEF Check
    <3>2. proc[p].i \in 1..Len(Files[p])
      BY <1>1, <2>3 DEF InFiles
    <3>3. /\ proc'[p].i = proc[p].i + 1
          /\ \A r \in Processes \ {p} : proc'[r].i = proc[r].i
      BY <1>2, <3>1
    <3>. QED
      BY <1>1, <3>2, <3>3 DEF InFiles
  <2>. QED
    BY <2>1, <2>2, <2>3
<1>6. ASSUME NEW p \in Processes, CommitFile(p)
      PROVE  InFiles'
  <2>1. proc' = [proc EXCEPT ![p] = [at |-> "check", i |-> @.i + 1]]
    BY <1>6 DEF CommitFile
  <2>2. proc[p].i \in 1..Len(Files[p])
    BY <1>1, <1>6 DEF CommitFile, In, BootIInv, AtFile
  <2>3. /\ proc'[p].i = proc[p].i + 1
        /\ \A r \in Processes \ {p} : proc'[r].i = proc[r].i
    BY <1>2, <2>1
  <2>. QED
    BY <1>1, <2>2, <2>3 DEF InFiles
<1>7. ASSUME NEW p \in Processes, Exit(p)
      PROVE  InFiles'
  <2>1. proc'[p].i = 1 /\ \A r \in Processes \ {p} : proc'[r].i = proc[r].i
    BY <1>2, <1>7 DEF Exit, Down
  <2>. QED
    BY <1>1, <2>1 DEF InFiles
<1>8. ASSUME UNCHANGED bootVars
      PROVE  InFiles'
  BY <1>8 DEF InFiles, bootVars
<1>. QED
  BY <1>4, <1>5, <1>6, <1>7, <1>8
     DEF BootNext, Connect, Migrate, EnsureTable, Apply, Record, Shutdown

\* The stamps are of the clock, and the channel has room for every part.
Bounds == created \in [RowIds -> 0..MaxMicros] /\ micros \in 0..MaxMicros /\ Len(ch) <= N

\* Rows are stamped by the clock; a part is sent only where there is room.
LEMMA BoundsStep ==
    ASSUME Bounds, FeedIInv, [FeedNext]_feedVars, [PagesNext]_pageVars
    PROVE  Bounds'
<1>1. created' \in [RowIds -> 0..MaxMicros] /\ micros' \in 0..MaxMicros
  <2>1. ASSUME NEW r \in RowIds, BeginRow(r)
        PROVE  created' \in [RowIds -> 0..MaxMicros] /\ micros' \in 0..MaxMicros
    BY <2>1 DEF Bounds, BeginRow
  <2>2. ASSUME PagesTick
        PROVE  created' \in [RowIds -> 0..MaxMicros] /\ micros' \in 0..MaxMicros
    BY <2>2, PagesAssumption DEF Bounds, PagesTick
  <2>3. [PagesNext]_pageVars =>
           \/ \E r \in RowIds : BeginRow(r)
           \/ PagesTick
           \/ UNCHANGED <<created, micros>>
    BY DEF PagesNext, CommitRow, DeleteRow, FirstPage, NextPage, pageVars
  <2>. QED
    BY <2>1, <2>2, <2>3 DEF Bounds
<1>2. Len(ch') <= N
  <2>1. ch \in Seq([i : 1..N, items : Seq(Item)]) /\ Len(ch) \in Nat /\ N \in Nat
    BY NIsNat DEF FeedIInv, FeedTypes
  <2>2. ASSUME NEW i \in 1..N, SearchPart(i)
        PROVE  Len(ch') <= N
    <3>1. Len(ch) < N /\ \E p : ch' = Append(ch, p)
      BY <2>2 DEF SearchPart, SendPart
    <3>2. Len(ch') = Len(ch) + 1
      BY <2>1, <3>1
    <3>. QED
      BY <2>1, <3>1, <3>2
  <2>3. ASSUME UnwindItems
        PROVE  Len(ch') <= N
    <3>1. ch # <<>> /\ ch' = Tail(ch)
      BY <2>3 DEF UnwindItems
    <3>. QED
      BY <2>1, <3>1 DEF Bounds
  <2>4. [FeedNext]_feedVars =>
           (\E i \in 1..N : SearchPart(i)) \/ UnwindItems \/ UNCHANGED ch
    BY DEF FeedNext, StartFeed, SearchRail, feedVars
  <2>. QED
    BY <2>2, <2>3, <2>4 DEF Bounds
<1>. QED
  BY <1>1, <1>2 DEF Bounds

\* Every part keeps to its types, for any constants.
THEOREM TypesHold == Spec => []TypeOK
<1>. DEFINE Typed == ContentTypes /\ InFiles /\ Bounds /\ CardIInv
            Known == BootIInv /\ FeedIInv /\ PagesIInv
<1>1. Init => Typed
  <2>. SUFFICES ASSUME Init PROVE Typed
    OBVIOUS
  <2>1. ContentTypes
    BY ContentAssumption
       DEF Init, ContentInit, ContentTypes, Caching, EmptyTable, NotAsking
  <2>2. InFiles
    BY FilesAssumption DEF Init, BootInit, InFiles, Down
  <2>3. Bounds
    BY NIsNat, PagesAssumption DEF Init, ExploreInit, PagesInit, Bounds
  <2>. QED
    BY <2>1, <2>2, <2>3, CardsStart
<1>2. Typed /\ Known /\ [Next]_vars => Typed'
  <2>. SUFFICES ASSUME Typed, Known, [Next]_vars PROVE Typed'
    OBVIOUS
  <2>1. /\ [ContentNext]_contentVars /\ [BootNext]_bootVars
        /\ [FeedNext]_feedVars /\ [PagesNext]_pageVars
    BY DEF Next, ContentActs, FeedActs, CardActs, BootActs, PagesActs, vars
  <2>. QED
    BY <2>1, ContentTypesStep, InFilesStep, BoundsStep, CardsKeep
<1>3. Typed /\ Known => TypeOK
  <2>. SUFFICES ASSUME Typed, Known PROVE TypeOK
    OBVIOUS
  <2>1. \A s \in Services : /\ DOMAIN cache[s] \subseteq Keys
                            /\ cache[s] \in [DOMAIN cache[s] -> Entry]
    <3>. SUFFICES ASSUME NEW s \in Services
                  PROVE  /\ DOMAIN cache[s] \subseteq Keys
                         /\ cache[s] \in [DOMAIN cache[s] -> Entry]
      OBVIOUS
    <3>1. Caching(s)
      BY DEF ContentTypes
    <3>2. PICK t : t = cache[s]
      OBVIOUS
    <3>3. /\ DOMAIN t \subseteq Keys /\ \A k \in DOMAIN t : t[k] \in Entry
          /\ t = [k \in DOMAIN t |-> t[k]]
      BY <3>1, <3>2 DEF Caching
    <3>4. t \in [DOMAIN t -> Entry]
      BY <3>3
    <3>. QED
      BY <3>2, <3>3, <3>4
  <2>2. \A i \in 1..N : \A item \in Range(found[i]) \cup Range(ordered[i]) : item \in Item
    <3>. SUFFICES ASSUME NEW i \in 1..N, NEW item \in Range(found[i]) \cup Range(ordered[i])
                  PROVE  item \in Item
      OBVIOUS
    <3>1. found[i] \in Seq(Item) /\ ordered[i] \in Seq(Item)
      BY DEF FeedIInv, FeedTypes
    <3>. QED
      BY <3>1 DEF Range
  <2>3. versions \subseteq Migrations
    BY DEF BootIInv, BootTypes, MigratedInOrder
  <2>4. Range(writing) \subseteq TrailIds
    <3>1. writing \in Seq(TrailIds)
      BY DEF CardIInv
    <3>. QED
      BY <3>1 DEF Range
  <2>. QED
    BY <2>1, <2>2, <2>3, <2>4
       DEF TypeOK, ContentTypes, InFiles, Bounds, CardIInv, FeedIInv, FeedTypes,
           PartStates, PagesIInv, PageTypes
<1>. QED
  BY <1>1, <1>2, <1>3, BootAlways, FeedAlways, PagesAlways, PTL DEF Spec
=============================================================================
