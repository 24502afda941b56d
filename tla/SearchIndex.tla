---------------------------- MODULE SearchIndex ----------------------------
(***************************************************************************)
(* The Bleve index of the songs table.  The server rebuilds an empty index *)
(* in a background goroutine, page by page; the scheduler goroutine adds   *)
(* the songs of each run, unless a rebuild is in progress; cmd/fetch       *)
(* stores songs and indexes none.  The index and the table outlive the     *)
(* server, the two goroutines do not.                                      *)
(*                                                                         *)
(* A song has a version, raised when TJ corrects its title or artist; the  *)
(* table and the index each hold one.  Ranking and analysers are not       *)
(* modelled.  The rest of a scheduler run is in SongMatching.              *)
(***************************************************************************)
EXTENDS Naturals, FiniteSets

CONSTANTS
    Songs,
    MaxVersion,       \* bound on the corrections of a song
    PageSize,         \* rows a rebuild reads at a time
    BatchSize,        \* documents Bleve is given at a time
    Faults            \* what may fail: the database, Bleve, the process

ASSUME SearchAssumption ==
    /\ IsFiniteSet(Songs)
    /\ MaxVersion \in Nat \ {0}
    /\ PageSize \in Nat \ {0}
    /\ BatchSize \in Nat \ {0}
    /\ Faults \subseteq {"store", "bleve", "crash"}

VARIABLES
    tj,               \* tj[s]: the version TJ has published, 0 for none
    open,             \* songs on TJ's list of the current month
    place,            \* place[s]: rank of s in the table by id, 0 if not there
    stored,           \* stored[s]: version in the table, 0 for none
    index,            \* index[s]: version in the index, 0 for none
    phase,            \* the life of the server process
    engine,           \* whether the server could open the index
    rebuild,          \* the rebuilding goroutine
    sched,            \* the scheduler goroutine
    cli               \* what cmd/fetch has fetched and not stored yet

vars == <<tj, open, place, stored, index, phase, engine, rebuild, sched, cli>>
world == <<tj, open>>
table == <<place, stored>>

Doc == [song : Songs, version : 1 .. MaxVersion]

Rebuild ==
    [pc        : {"off", "begin", "read", "write", "done", "failed"},
     offset    : Nat,                \* rows dealt with
     page      : SUBSET Doc,         \* rows of the current page
     left      : SUBSET Doc,         \* those not given to Bleve yet
     cancelled : BOOLEAN,            \* its context
     base      : SUBSET Songs]       \* history: rows there when it began

NoRebuild == [pc |-> "off", offset |-> 0, page |-> {}, left |-> {},
              cancelled |-> FALSE, base |-> {}]

Sched == [pc   : {"off", "wait", "fetched", "stored", "index"},
          todo : SUBSET Doc]         \* the songs of the run, then those left

NoSched == [pc |-> "off", todo |-> {}]

TypeOK ==
    /\ tj \in [Songs -> 0 .. MaxVersion]
    /\ open \subseteq Songs
    /\ place \in [Songs -> Nat]
    /\ stored \in [Songs -> 0 .. MaxVersion]
    /\ index \in [Songs -> 0 .. MaxVersion]
    /\ phase \in {"down", "up", "draining", "closed"}
    /\ engine \in BOOLEAN
    /\ rebuild \in Rebuild
    /\ sched \in Sched
    /\ cli \subseteq Doc

Init ==
    /\ tj = [s \in Songs |-> 0]
    /\ open = {}
    /\ place = [s \in Songs |-> 0]
    /\ stored = [s \in Songs |-> 0]
    /\ index = [s \in Songs |-> 0]
    /\ phase = "down"
    /\ engine = FALSE
    /\ rebuild = NoRebuild
    /\ sched = NoSched
    /\ cli = {}

-----------------------------------------------------------------------------
(* TJ's lists, and the songs table.                                        *)

Publish(s) ==
    /\ tj[s] = 0 \/ s \in open
    /\ tj[s] < MaxVersion
    /\ tj' = [tj EXCEPT ![s] = @ + 1]
    /\ open' = open \cup {s}
    /\ UNCHANGED <<table, index, phase, engine, rebuild, sched, cli>>

Rollover ==
    /\ open # {}
    /\ open' = {}
    /\ UNCHANGED <<tj, table, index, phase, engine, rebuild, sched, cli>>

Listing(S) == {d \in Doc : d.song \in S /\ d.version = tj[d.song]}

SongsOf(docs) == {d.song : d \in docs}

InTable == {s \in Songs : place[s] # 0}

\* One transaction; new rows come after the others, a known one keeps its id.
UpsertMany(docs) ==
    LET new == SongsOf(docs) \ InTable
        n   == Cardinality(InTable)
    IN  /\ \E rank \in [new -> n + 1 .. n + Cardinality(new)] :
             /\ \A s, t \in new : rank[s] = rank[t] => s = t
             /\ place' = [s \in Songs |-> IF s \in new THEN rank[s] ELSE place[s]]
        /\ stored' = [s \in Songs |->
                        IF s \in SongsOf(docs)
                        THEN (CHOOSE d \in docs : d.song = s).version
                        ELSE stored[s]]

\* FindAll: a page of the rows in the order of their ids.
FindAll(limit, offset) ==
    {d \in Doc : /\ place[d.song] \in offset + 1 .. offset + limit
                 /\ d.version = stored[d.song]}

\* cmd/fetch downloads and stores a month.
CliFetch ==
    /\ cli = {}
    /\ \E S \in {open, Songs \ open} : cli' = Listing(S)
    /\ UNCHANGED <<world, table, index, phase, engine, rebuild, sched>>

CliStore ==
    /\ cli # {}
    /\ UpsertMany(cli)
    /\ cli' = {}
    /\ UNCHANGED <<world, index, phase, engine, rebuild, sched>>

\* The transaction is rolled back, and the next month fetched.
CliStoreFails ==
    /\ "store" \in Faults
    /\ cli # {}
    /\ cli' = {}
    /\ UNCHANGED <<world, table, index, phase, engine, rebuild, sched>>

-----------------------------------------------------------------------------
(* Bleve: a batch is atomic.                                               *)

\* The batches indexBatch can be at, with docs still to be written.
NextBatch(docs) ==
    {b \in SUBSET docs : b # {} /\ \/ Cardinality(b) = BatchSize
                                   \/ b = docs /\ Cardinality(b) < BatchSize}

Write(batch) ==
    index' = [s \in Songs |-> IF s \in SongsOf(batch)
                              THEN (CHOOSE d \in batch : d.song = s).version
                              ELSE index[s]]

IsRebuilding == rebuild.pc \in {"read", "write"}

-----------------------------------------------------------------------------
(* RebuildFromDB.                                                          *)

RebuildBegin ==
    /\ rebuild.pc = "begin"
    /\ rebuild' = [rebuild EXCEPT !.pc = "read", !.base = InTable]
    /\ UNCHANGED <<world, table, index, phase, engine, sched, cli>>

\* Faulty variant: a full page is taken for the last one.
IsLastOffByOne(page) == Cardinality(page) <= PageSize

IsLast(page) == Cardinality(page) < PageSize

RebuildRead ==
    /\ rebuild.pc = "read"
    /\ ~rebuild.cancelled
    /\ LET page == FindAll(PageSize, rebuild.offset)
       IN  rebuild' = IF page = {} THEN [rebuild EXCEPT !.pc = "done"]
                      ELSE [rebuild EXCEPT !.pc = "write", !.page = page, !.left = page]
    /\ UNCHANGED <<world, table, index, phase, engine, sched, cli>>

\* The page is in the index.
PageDone(rb) ==
    [rb EXCEPT !.pc = IF IsLast(rb.page) THEN "done" ELSE "read",
               !.offset = @ + Cardinality(rb.page), !.page = {}, !.left = {}]

\* A full batch is preceded by a look at the context, the last one is not.
RebuildWrite ==
    /\ rebuild.pc = "write"
    /\ \E batch \in NextBatch(rebuild.left) :
         /\ rebuild.cancelled => Cardinality(batch) < BatchSize
         /\ Write(batch)
         /\ rebuild' = IF batch = rebuild.left THEN PageDone(rebuild)
                       ELSE [rebuild EXCEPT !.left = @ \ batch]
    /\ UNCHANGED <<world, table, phase, engine, sched, cli>>

\* The context is cancelled, the page cannot be read or the batch not written:
\* the goroutine ends, with what it has written left in the index.
RebuildFails ==
    /\ \/ rebuild.pc = "read" /\ (rebuild.cancelled \/ "store" \in Faults)
       \/ /\ rebuild.pc = "write"
          /\ \/ rebuild.cancelled /\ Cardinality(rebuild.left) >= BatchSize
             \/ "bleve" \in Faults
    /\ rebuild' = [rebuild EXCEPT !.pc = "failed", !.page = {}, !.left = {}]
    /\ UNCHANGED <<world, table, index, phase, engine, sched, cli>>

-----------------------------------------------------------------------------
(* The scheduler's run, as far as the index goes.                          *)

\* After Stop, a tick that is due as well may still win the select.
SchedFetch ==
    /\ sched.pc = "wait"
    /\ open # {}
    /\ sched' = [pc |-> "fetched", todo |-> Listing(open)]
    /\ UNCHANGED <<world, table, index, phase, engine, rebuild, cli>>

\* Faulty variant: only songs new to the table go on to the index.
SchedStoreNewOnly ==
    /\ sched.pc = "fetched"
    /\ UpsertMany(sched.todo)
    /\ sched' = [pc |-> "stored", todo |-> {d \in sched.todo : d.song \notin InTable}]
    /\ UNCHANGED <<world, index, phase, engine, rebuild, cli>>

SchedStore ==
    /\ sched.pc = "fetched"
    /\ UpsertMany(sched.todo)
    /\ sched' = [sched EXCEPT !.pc = "stored"]
    /\ UNCHANGED <<world, index, phase, engine, rebuild, cli>>

\* Faulty variant: the run goes on to the index.
SchedStoreFailsGoingOn ==
    /\ "store" \in Faults
    /\ sched.pc = "fetched"
    /\ sched' = [sched EXCEPT !.pc = "stored"]
    /\ UNCHANGED <<world, table, index, phase, engine, rebuild, cli>>

\* The transaction is rolled back, and the run ends.
SchedStoreFails ==
    /\ "store" \in Faults
    /\ sched.pc = "fetched"
    /\ sched' = [pc |-> "wait", todo |-> {}]
    /\ UNCHANGED <<world, table, index, phase, engine, rebuild, cli>>

\* Faulty variant: IndexSongs does not look at the rebuild.
IndexSongsUnguarded ==
    /\ sched.pc = "stored"
    /\ sched' = IF engine /\ sched.todo # {}
                THEN [sched EXCEPT !.pc = "index"] ELSE [pc |-> "wait", todo |-> {}]
    /\ UNCHANGED <<world, table, index, phase, engine, rebuild, cli>>

\* IndexSongs looks at the flag once, before its first batch; the songs of a
\* run that finds a rebuild in progress are not indexed.
IndexSongs ==
    /\ sched.pc = "stored"
    /\ sched' = IF engine /\ ~IsRebuilding /\ sched.todo # {}
                THEN [sched EXCEPT !.pc = "index"] ELSE [pc |-> "wait", todo |-> {}]
    /\ UNCHANGED <<world, table, index, phase, engine, rebuild, cli>>

SchedWrite ==
    /\ sched.pc = "index"
    /\ phase # "closed"
    /\ \E batch \in NextBatch(sched.todo) :
         /\ Write(batch)
         /\ sched' = IF batch = sched.todo THEN [pc |-> "wait", todo |-> {}]
                     ELSE [sched EXCEPT !.todo = @ \ batch]
    /\ UNCHANGED <<world, table, phase, engine, rebuild, cli>>

\* Bleve refuses the batch, always so once it is closed.
SchedWriteFails ==
    /\ sched.pc = "index"
    /\ phase = "closed" \/ "bleve" \in Faults
    /\ sched' = [pc |-> "wait", todo |-> {}]
    /\ UNCHANGED <<world, table, index, phase, engine, rebuild, cli>>

SchedStop ==
    /\ sched.pc = "wait"
    /\ phase \in {"draining", "closed"}
    /\ sched' = NoSched
    /\ UNCHANGED <<world, table, index, phase, engine, rebuild, cli>>

-----------------------------------------------------------------------------
(* The server: main.                                                       *)

\* A missing or unreadable index is created anew; an empty one is rebuilt, and
\* one whose documents cannot be counted, as the error is dropped.  If no index
\* can be opened, search falls back to SQL for the life of the process.
StartServer ==
    /\ phase = "down"
    /\ phase' = "up"
    /\ sched' = [pc |-> "wait", todo |-> {}]
    /\ \E opened \in IF "bleve" \in Faults THEN BOOLEAN ELSE {TRUE},
          counted \in IF "bleve" \in Faults THEN BOOLEAN ELSE {TRUE},
          fresh \in IF "bleve" \in Faults THEN BOOLEAN ELSE {FALSE} :
         /\ engine' = opened
         /\ index' = IF fresh THEN [s \in Songs |-> 0] ELSE index
         /\ rebuild' = IF opened /\ (counted => \A s \in Songs : index'[s] = 0)
                       THEN [NoRebuild EXCEPT !.pc = "begin"] ELSE NoRebuild
    /\ UNCHANGED <<world, table, cli>>

\* After the HTTP server: the scheduler is told to stop, the rebuild cancelled.
Shutdown ==
    /\ phase = "up"
    /\ phase' = "draining"
    /\ rebuild' = [rebuild EXCEPT !.cancelled = TRUE]
    /\ UNCHANGED <<world, table, index, engine, sched, cli>>

\* rebuildWg.Wait(), and nothing waits for the scheduler.
CloseIndex ==
    /\ phase = "draining"
    /\ rebuild.pc \notin {"begin", "read", "write"}
    /\ phase' = "closed"
    /\ UNCHANGED <<world, table, index, engine, rebuild, sched, cli>>

\* main returns after closing the index; a crash may come at any time.
Exit ==
    /\ \/ phase = "closed"
       \/ phase # "down" /\ "crash" \in Faults
    /\ phase' = "down"
    /\ engine' = FALSE
    /\ rebuild' = NoRebuild
    /\ sched' = NoSched
    /\ UNCHANGED <<world, table, index, cli>>

-----------------------------------------------------------------------------
RebuildNext == RebuildBegin \/ RebuildRead \/ RebuildWrite \/ RebuildFails

SchedNext ==
    \/ SchedFetch
    \/ SchedStore
    \/ SchedStoreFails
    \/ IndexSongs
    \/ SchedWrite
    \/ SchedWriteFails
    \/ SchedStop

\* The server on its own.
ServerNext ==
    \/ \E s \in Songs : Publish(s)
    \/ Rollover
    \/ RebuildNext
    \/ SchedNext
    \/ StartServer
    \/ Shutdown
    \/ CloseIndex
    \/ Exit

Next == ServerNext \/ CliFetch \/ CliStore \/ CliStoreFails

Spec == Init /\ [][Next]_vars

\* cmd/fetch never runs.
ServerSpec == Init /\ [][ServerNext]_vars

\* The two goroutines go on, the ticker starts run after run, and a statement
\* or a batch tried again and again works some time, whichever song it holds.
Fairness ==
    /\ WF_vars(RebuildNext)
    /\ WF_vars(SchedFetch)
    /\ SF_vars(SchedStore)
    /\ WF_vars(IndexSongs)
    /\ \A s \in Songs : SF_vars(/\ SchedWrite
                              /\ s \in SongsOf(sched.todo) \ SongsOf(sched'.todo))

FairSpec == ServerSpec /\ Fairness

-----------------------------------------------------------------------------
(* Properties.                                                             *)

\* A document of the index is a row of the table: a hit of the search engine
\* can be looked up, across rolled back runs, failed rebuilds and restarts.
IndexedIsStored == \A s \in Songs : index[s] # 0 => s \in InTable

\* The index never goes back to an older version of a song, unless it is
\* created anew: a rebuild still holding the page it read before a correction
\* does not overwrite the correction, since the scheduler keeps away from the
\* index meanwhile.  The scheduler is the only writer of the table here.
NeverStaler ==
    [][\A s \in Songs : index'[s] >= index[s] \/ phase = "down"]_vars

\* A rebuild that ends well has indexed every row that was in the table when it
\* began, however rows are added and corrected while it pages through.
RebuildCovers ==
    rebuild.pc = "done" => \A s \in rebuild.base : index[s] # 0

\* If the server stays up with its index open, a song of the month is found
\* under its current title again and again until the month is over: a run
\* passed over during a rebuild, or failed, is made up for by a later one.
ListedIsSearchable ==
    <>[](phase = "up" /\ engine) =>
      \A s \in Songs : []<>(index[s] = tj[s] \/ s \notin open)

-----------------------------------------------------------------------------
(* The inductive invariants behind these properties.                       *)

\* What the two goroutines are about to give Bleve is in the table.
HeldIsStored ==
    /\ \A d \in rebuild.left : d.song \in InTable
    /\ sched.pc \in {"stored", "index"} => \A d \in sched.todo : d.song \in InTable

\* The invariant TLAPS proves for the first; it is inductive.
SearchInv == TypeOK /\ HeldIsStored /\ IndexedIsStored

\* A scheduler run holds TJ's latest version but for corrections since, and,
\* once it has stored them, just what the table has; a rebuild holds nothing
\* older than the index does, and just what the table has while the last run
\* to enter the index before it is still there.  Inductive, if cmd/fetch does
\* not run, together with SearchInv.
VersionInv ==
    /\ \A s \in Songs : index[s] <= stored[s] /\ stored[s] <= tj[s]
    /\ cli = {}
    /\ \A d, e \in sched.todo : d.song = e.song => d = e
    /\ \A d, e \in rebuild.left : d.song = e.song => d = e
    /\ rebuild.left # {} => rebuild.pc = "write"
    /\ \A d \in sched.todo : stored[d.song] <= d.version /\ d.version <= tj[d.song]
    /\ sched.pc \in {"stored", "index"} =>
         \A d \in sched.todo : d.version = stored[d.song]
    /\ \A d \in rebuild.left :
         /\ index[d.song] <= d.version /\ d.version <= stored[d.song]
         /\ sched.pc = "index" => d.version = stored[d.song]

\* The rows are ranked 1, 2, 3 and so on, each rank is that of one row, and a
\* row has a title to index.
RanksInv ==
    /\ \A s \in InTable : place[s] <= Cardinality(InTable) /\ stored[s] # 0
    /\ \A r \in 1 .. Cardinality(InTable) : \E s \in InTable : place[s] = r
    /\ \A s, t \in InTable : place[s] = place[t] => s = t

Upto(n) == {s \in InTable : place[s] <= n}

Indexed == {s \in Songs : index[s] # 0}

\* The invariant TLAPS proves for RebuildCovers.  The rows read so far are the
\* first ones of the table, however many come after them meanwhile; they are in
\* the index or next to be given to Bleve; and if the page is not full, no row
\* that was there when the rebuild began comes after it.  Inductive together
\* with TypeOK.
CoverInv ==
    LET read == rebuild.offset + Cardinality(rebuild.page)
    IN  /\ RanksInv
        /\ RebuildCovers
        /\ rebuild.base \subseteq InTable
        /\ rebuild.pc \in {"begin", "read", "write"} =>
             /\ read <= Cardinality(InTable)
             /\ Upto(read) \subseteq Indexed \cup SongsOf(rebuild.left)
             /\ rebuild.pc # "write" => rebuild.page = {} /\ rebuild.left = {}
             /\ rebuild.pc = "write" /\ IsLast(rebuild.page) =>
                  rebuild.base \subseteq Upto(read)
=============================================================================
