---------------------------- MODULE SearchProofs ----------------------------
(***************************************************************************)
(* The search index, for any number of songs, versions, page and batch     *)
(* sizes, and any faults.  A document of the index is a row of the table;  *)
(* the index does not go back to an older version; a rebuild that ends     *)
(* well has indexed every row that was in the table when it began,         *)
(* although rows are added and corrected while it pages through them with  *)
(* LIMIT and OFFSET; and a search request changes nothing of all that, and *)
(* has every hit of the index answered.                                    *)
(***************************************************************************)
EXTENDS SongSearch, SubsequenceProofs

USE SearchAssumption

-----------------------------------------------------------------------------
(* Finiteness, and what the operators on the table and the index do.       *)

\* The table has finitely many rows.
LEMMA RowsAreFinite == Cardinality(InTable) \in Nat
<1>1. InTable \in SUBSET Songs
  BY DEF InTable
<1> QED
  BY <1>1, FS_Subset, FS_CardinalityType

\* A set of documents is finite.
LEMMA DocsAreFinite ==
  ASSUME NEW docs \in SUBSET Doc
  PROVE  Cardinality(docs) \in Nat
<1> DEFINE pairs == Songs \X (1 .. MaxVersion)
           f == [x \in pairs |-> [song |-> x[1], version |-> x[2]]]
<1>1. IsFiniteSet(pairs)
  <2>1. 1 \in Int /\ MaxVersion \in Int
    OBVIOUS
  <2>2. IsFiniteSet(1 .. MaxVersion)
    BY <2>1, FS_Interval
  <2> QED
    BY <2>2, FS_Product
<1>2. f \in Surjection(pairs, Doc)
  <2>1. f \in [pairs -> Doc]
    BY DEF Doc
  <2>2. ASSUME NEW d \in Doc
        PROVE  \E x \in pairs : f[x] = d
    <3>1. <<d.song, d.version>> \in pairs /\ f[<<d.song, d.version>>] = d
      BY DEF Doc
    <3> QED
      BY <3>1
  <2> QED
    BY <2>1, <2>2 DEF Surjection
<1>3. IsFiniteSet(Doc)
  BY <1>1, <1>2, FS_Surjection
<1> QED
  BY <1>3, FS_Subset, FS_CardinalityType

\* UpsertMany adds rows, removes none and stores versions of docs.
LEMMA UpsertKeepsRows ==
  ASSUME TypeOK, NEW docs \in SUBSET Doc, UpsertMany(docs)
  PROVE  /\ place' \in [Songs -> Nat]
         /\ stored' \in [Songs -> 0 .. MaxVersion]
         /\ InTable \subseteq InTable'
         /\ SongsOf(docs) \subseteq InTable'
<1> DEFINE new == SongsOf(docs) \ InTable
           n == Cardinality(InTable)
<1>1. n \in Nat
  BY RowsAreFinite
<1>2. PICK rank \in [new -> n + 1 .. n + Cardinality(new)] :
        place' = [s \in Songs |-> IF s \in new THEN rank[s] ELSE place[s]]
  BY DEF UpsertMany
<1>3. \A s \in new : rank[s] \in Nat \ {0}
  <2> SUFFICES ASSUME NEW s \in new PROVE rank[s] \in Nat \ {0}
    OBVIOUS
  <2>1. rank[s] \in n + 1 .. n + Cardinality(new)
    OBVIOUS
  <2> QED
    BY <2>1, <1>1
<1>4. new \subseteq Songs /\ SongsOf(docs) \subseteq Songs
  BY DEF SongsOf, Doc
<1>5. place' \in [Songs -> Nat]
  BY <1>2, <1>3, <1>4 DEF TypeOK
<1>6. \A s \in Songs : s \in new \/ s \in InTable => place'[s] # 0
  BY <1>2, <1>3, <1>4 DEF InTable
<1>7. stored' \in [Songs -> 0 .. MaxVersion]
  <2>1. ASSUME NEW s \in SongsOf(docs)
        PROVE  (CHOOSE d \in docs : d.song = s).version \in 0 .. MaxVersion
    <3>1. \E d \in docs : d.song = s
      BY DEF SongsOf
    <3>2. (CHOOSE d \in docs : d.song = s) \in docs
      BY <3>1
    <3> QED
      BY <3>2 DEF Doc
  <2> QED
    BY <2>1 DEF UpsertMany, TypeOK
<1> QED
  BY <1>4, <1>5, <1>6, <1>7 DEF InTable

\* Write leaves the other songs of the index alone.
LEMMA WriteIndexesBatch ==
  ASSUME TypeOK, NEW batch \in SUBSET Doc, Write(batch)
  PROVE  /\ index' \in [Songs -> 0 .. MaxVersion]
         /\ \A s \in Songs \ SongsOf(batch) : index'[s] = index[s]
         /\ \A s \in SongsOf(batch) :
              \E d \in batch : d.song = s /\ index'[s] = d.version
<1>1. \A s \in SongsOf(batch) :
        \E d \in batch : d.song = s /\ (CHOOSE e \in batch : e.song = s) = d
  <2> SUFFICES ASSUME NEW s \in SongsOf(batch)
               PROVE  \E d \in batch : d.song = s /\ (CHOOSE e \in batch : e.song = s) = d
    OBVIOUS
  <2>1. \E d \in batch : d.song = s
    BY DEF SongsOf
  <2> QED
    BY <2>1
<1>2. SongsOf(batch) \subseteq Songs
  BY DEF SongsOf, Doc
<1>3. \A s \in SongsOf(batch) :
        \E d \in batch : d.song = s /\ index'[s] = d.version
  BY <1>1, <1>2 DEF Write
<1>4. \A s \in Songs \ SongsOf(batch) : index'[s] = index[s]
  BY DEF Write
<1>5. \A s \in Songs : index'[s] \in 0 .. MaxVersion
  <2> SUFFICES ASSUME NEW s \in Songs PROVE index'[s] \in 0 .. MaxVersion
    OBVIOUS
  <2>1. CASE s \in SongsOf(batch)
    BY <2>1, <1>3 DEF Doc
  <2>2. CASE s \notin SongsOf(batch)
    BY <2>2, <1>4 DEF TypeOK
  <2> QED
    BY <2>1, <2>2
<1> QED
  BY <1>3, <1>4, <1>5 DEF Write

\* A batch is a part of what is left.
LEMMA BatchIsPart ==
  ASSUME NEW docs, NEW batch \in NextBatch(docs)
  PROVE  batch \subseteq docs
BY DEF NextBatch

\* A rebuild that has indexed its page still has the type of one.
LEMMA PageDoneIsRebuild ==
  ASSUME rebuild \in Rebuild
  PROVE  /\ PageDone(rebuild) \in Rebuild
         /\ PageDone(rebuild).left = {}
         /\ PageDone(rebuild).pc \in {"done", "read"}
<1>1. rebuild.page \in SUBSET Doc /\ rebuild.offset \in Nat
  BY DEF Rebuild
<1>2. rebuild.offset + Cardinality(rebuild.page) \in Nat
  BY <1>1, DocsAreFinite
<1> QED
  BY <1>2 DEF PageDone, Rebuild

-----------------------------------------------------------------------------
(* The index and the table.                                                *)

\* A step of the world, of a process's life or of cmd/fetch, but for its transaction.
LEMMA OtherStepKeepsInv ==
  ASSUME SearchInv,
         \/ \E s \in Songs : Publish(s)
         \/ Rollover \/ CliFetch \/ CliStoreFails \/ Shutdown \/ CloseIndex \/ Exit
  PROVE  SearchInv'
<1>1. ASSUME NEW s \in Songs, Publish(s)
      PROVE  SearchInv'
  <2>1. tj' \in [Songs -> 0 .. MaxVersion]
    BY <1>1 DEF Publish, SearchInv, TypeOK
  <2>2. TypeOK'
    BY <1>1, <2>1 DEF Publish, table, SearchInv, TypeOK
  <2> QED
    BY <1>1, <2>2 DEF Publish, table, SearchInv, HeldIsStored, IndexedIsStored, InTable
<1>2. CASE Rollover
  BY <1>2 DEF Rollover, table, SearchInv, TypeOK, HeldIsStored, IndexedIsStored, InTable
<1>3. CASE CliFetch
  <2>1. cli' \in SUBSET Doc
    BY <1>3 DEF CliFetch, Listing
  <2> QED
    BY <1>3, <2>1 DEF CliFetch, world, table, SearchInv, TypeOK, HeldIsStored,
                      IndexedIsStored, InTable
<1>4. CASE Shutdown
  <2>1. rebuild' \in Rebuild /\ rebuild'.left = rebuild.left
    BY <1>4 DEF Shutdown, SearchInv, TypeOK, Rebuild
  <2> QED
    BY <1>4, <2>1 DEF Shutdown, world, table, SearchInv, TypeOK, HeldIsStored,
                      IndexedIsStored, InTable
<1>5. CASE CloseIndex
  BY <1>5 DEF CloseIndex, world, table, SearchInv, TypeOK, HeldIsStored,
              IndexedIsStored, InTable
<1>6. CASE Exit
  <2>1. rebuild' \in Rebuild /\ rebuild'.left = {} /\ sched' \in Sched /\ sched'.pc = "off"
    BY <1>6 DEF Exit, NoRebuild, Rebuild, NoSched, Sched
  <2> QED
    BY <1>6, <2>1 DEF Exit, world, table, SearchInv, TypeOK, HeldIsStored,
                      IndexedIsStored, InTable
<1>7. CASE CliStoreFails
  BY <1>7 DEF CliStoreFails, world, table, SearchInv, TypeOK, HeldIsStored,
              IndexedIsStored, InTable
<1> QED
  BY <1>1, <1>2, <1>3, <1>4, <1>5, <1>6, <1>7

\* The server starts with an index that is there, or an empty one.
LEMMA StartKeepsInv ==
  ASSUME SearchInv, StartServer
  PROVE  SearchInv'
<1>1. PICK opened \in BOOLEAN, counted \in BOOLEAN, fresh \in BOOLEAN :
        /\ engine' = opened
        /\ index' = IF fresh THEN [s \in Songs |-> 0] ELSE index
        /\ rebuild' = IF opened /\ (counted => \A s \in Songs : index'[s] = 0)
                      THEN [NoRebuild EXCEPT !.pc = "begin"] ELSE NoRebuild
  BY DEF StartServer
<1>2. rebuild' \in Rebuild /\ rebuild'.left = {}
  BY <1>1 DEF NoRebuild, Rebuild
<1>3. /\ index' \in [Songs -> 0 .. MaxVersion]
      /\ \A s \in Songs : index'[s] # 0 => index[s] # 0
  BY <1>1 DEF SearchInv, TypeOK
<1>4. sched' \in Sched /\ sched'.pc = "wait"
  BY DEF StartServer, Sched
<1> QED
  BY <1>1, <1>2, <1>3, <1>4
     DEF StartServer, world, table, SearchInv, TypeOK, HeldIsStored, IndexedIsStored, InTable

\* A transaction on the songs table removes no row.
LEMMA StoreKeepsInv ==
  ASSUME SearchInv, CliStore \/ SchedStore
  PROVE  SearchInv'
<1>1. CASE CliStore
  <2>1. /\ place' \in [Songs -> Nat]
        /\ stored' \in [Songs -> 0 .. MaxVersion]
        /\ InTable \subseteq InTable'
    BY <1>1, UpsertKeepsRows DEF CliStore, SearchInv, TypeOK
  <2>2. TypeOK'
    BY <1>1, <2>1 DEF CliStore, world, SearchInv, TypeOK
  <2> QED
    BY <1>1, <2>1, <2>2 DEF CliStore, SearchInv, HeldIsStored, IndexedIsStored
<1>2. CASE SchedStore
  <2>1. sched.todo \in SUBSET Doc
    BY DEF SearchInv, TypeOK, Sched
  <2>2. /\ place' \in [Songs -> Nat]
        /\ stored' \in [Songs -> 0 .. MaxVersion]
        /\ InTable \subseteq InTable'
        /\ SongsOf(sched.todo) \subseteq InTable'
    BY <1>2, <2>1, UpsertKeepsRows DEF SchedStore, SearchInv
  <2>3. sched' \in Sched /\ sched'.todo = sched.todo
    BY <1>2 DEF SchedStore, SearchInv, TypeOK, Sched
  <2>4. TypeOK'
    BY <1>2, <2>2, <2>3 DEF SchedStore, world, SearchInv, TypeOK
  <2> QED
    BY <1>2, <2>2, <2>3, <2>4
       DEF SchedStore, SearchInv, HeldIsStored, IndexedIsStored, SongsOf
<1> QED
  BY <1>1, <1>2

\* A batch of songs that are in the table.
LEMMA WriteKeepsIndexed ==
  ASSUME SearchInv, NEW batch \in SUBSET Doc, Write(batch), UNCHANGED table,
         \A d \in batch : d.song \in InTable
  PROVE  /\ index' \in [Songs -> 0 .. MaxVersion]
         /\ IndexedIsStored'
         /\ InTable' = InTable
<1>1. /\ index' \in [Songs -> 0 .. MaxVersion]
      /\ \A s \in Songs \ SongsOf(batch) : index'[s] = index[s]
  BY WriteIndexesBatch DEF SearchInv
<1>2. \A s \in SongsOf(batch) : s \in InTable
  BY DEF SongsOf
<1>3. InTable' = InTable
  BY DEF table, InTable
<1> QED
  BY <1>1, <1>2, <1>3 DEF SearchInv, IndexedIsStored

LEMMA RebuildKeepsInv ==
  ASSUME SearchInv, RebuildNext
  PROVE  SearchInv'
<1> USE DEF SearchInv, TypeOK
<1>1. CASE RebuildBegin
  <2>1. rebuild' \in Rebuild /\ rebuild'.left = rebuild.left
    BY <1>1 DEF RebuildBegin, Rebuild, InTable
  <2> QED
    BY <1>1, <2>1 DEF RebuildBegin, world, table, HeldIsStored, IndexedIsStored, InTable
<1>2. CASE RebuildRead
  <2> DEFINE page == FindAll(PageSize, rebuild.offset)
  <2>1. page \in SUBSET Doc /\ \A d \in page : d.song \in InTable
    <3>1. ASSUME NEW d \in page
          PROVE  d \in Doc /\ d.song \in InTable
      <4>1. d \in Doc /\ place[d.song] \in rebuild.offset + 1 .. rebuild.offset + PageSize
        BY DEF FindAll
      <4>2. rebuild.offset \in Nat
        BY DEF Rebuild
      <4>3. place[d.song] # 0
        BY <4>1, <4>2
      <4> QED
        BY <4>1, <4>3 DEF InTable, Doc
    <3> QED
      BY <3>1
  <2> HIDE DEF page
  <2>2. rebuild' = IF page = {} THEN [rebuild EXCEPT !.pc = "done"]
                   ELSE [rebuild EXCEPT !.pc = "write", !.page = page, !.left = page]
    BY <1>2 DEF RebuildRead, page
  <2>3. rebuild' \in Rebuild /\ (rebuild'.left = rebuild.left \/ rebuild'.left = page)
    BY <2>1, <2>2 DEF Rebuild
  <2>4. InTable' = InTable
    BY <1>2 DEF RebuildRead, table, InTable
  <2> QED
    BY <1>2, <2>1, <2>3, <2>4 DEF RebuildRead, world, table, HeldIsStored, IndexedIsStored
<1>3. CASE RebuildWrite
  <2>1. PICK batch \in NextBatch(rebuild.left) :
          /\ Write(batch)
          /\ rebuild' = IF batch = rebuild.left THEN PageDone(rebuild)
                        ELSE [rebuild EXCEPT !.left = @ \ batch]
    BY <1>3 DEF RebuildWrite
  <2>2. batch \subseteq rebuild.left /\ batch \in SUBSET Doc
    BY BatchIsPart DEF Rebuild
  <2>3. /\ index' \in [Songs -> 0 .. MaxVersion]
        /\ IndexedIsStored'
        /\ InTable' = InTable
    BY <1>3, <2>1, <2>2, WriteKeepsIndexed DEF RebuildWrite, HeldIsStored
  <2>4. rebuild' \in Rebuild /\ rebuild'.left \subseteq rebuild.left
    <3>1. CASE batch = rebuild.left
      BY <2>1, <3>1, PageDoneIsRebuild
    <3>2. CASE batch # rebuild.left
      BY <2>1, <3>2 DEF Rebuild
    <3> QED
      BY <3>1, <3>2
  <2> QED
    BY <1>3, <2>3, <2>4 DEF RebuildWrite, world, table, HeldIsStored
<1>4. CASE RebuildFails
  <2>1. rebuild' \in Rebuild /\ rebuild'.left = {}
    BY <1>4 DEF RebuildFails, Rebuild
  <2> QED
    BY <1>4, <2>1 DEF RebuildFails, world, table, HeldIsStored, IndexedIsStored, InTable
<1> QED
  BY <1>1, <1>2, <1>3, <1>4 DEF RebuildNext

LEMMA SchedKeepsInv ==
  ASSUME SearchInv, SchedNext
  PROVE  SearchInv'
<1> USE DEF SearchInv, TypeOK
<1>1. CASE SchedFetch
  <2>1. Listing(open) \in SUBSET Doc
    BY DEF Listing
  <2>2. sched' \in Sched /\ sched'.pc = "fetched"
    BY <1>1, <2>1 DEF SchedFetch, Sched
  <2> QED
    BY <1>1, <2>2 DEF SchedFetch, world, table, HeldIsStored, IndexedIsStored, InTable
<1>2. CASE SchedStore
  BY <1>2, StoreKeepsInv
<1>3. CASE SchedStoreFails \/ SchedWriteFails \/ SchedStop
  <2>1. sched' \in Sched /\ sched'.pc \in {"wait", "off"}
    BY <1>3 DEF SchedStoreFails, SchedWriteFails, SchedStop, NoSched, Sched
  <2> QED
    BY <1>3, <2>1 DEF SchedStoreFails, SchedWriteFails, SchedStop, world, table,
                      HeldIsStored, IndexedIsStored, InTable
<1>4. CASE IndexSongs
  <2>1. /\ sched' \in Sched
        /\ sched'.pc = "wait" \/ sched'.todo = sched.todo
        /\ sched.pc = "stored"
    BY <1>4 DEF IndexSongs, Sched
  <2> QED
    BY <1>4, <2>1 DEF IndexSongs, world, table, HeldIsStored, IndexedIsStored, InTable
<1>5. CASE SchedWrite
  <2>1. PICK batch \in NextBatch(sched.todo) :
          /\ Write(batch)
          /\ sched' = IF batch = sched.todo THEN [pc |-> "wait", todo |-> {}]
                      ELSE [sched EXCEPT !.todo = @ \ batch]
    BY <1>5 DEF SchedWrite
  <2>2. batch \subseteq sched.todo /\ batch \in SUBSET Doc
    BY BatchIsPart DEF Sched
  <2>3. sched.pc = "index" /\ \A d \in sched.todo : d.song \in InTable
    BY <1>5 DEF SchedWrite, HeldIsStored
  <2>4. /\ index' \in [Songs -> 0 .. MaxVersion]
        /\ IndexedIsStored'
        /\ InTable' = InTable
    BY <1>5, <2>1, <2>2, <2>3, WriteKeepsIndexed DEF SchedWrite
  <2>5. sched' \in Sched /\ sched'.todo \subseteq sched.todo
    BY <2>1 DEF Sched
  <2> QED
    BY <1>5, <2>3, <2>4, <2>5 DEF SchedWrite, world, table, HeldIsStored
<1> QED
  BY <1>1, <1>2, <1>3, <1>4, <1>5 DEF SchedNext

LEMMA InitSearchInv == Init => SearchInv
<1> SUFFICES ASSUME Init PROVE SearchInv
  OBVIOUS
<1>1. TypeOK
  <2>1. NoRebuild \in Rebuild /\ NoSched \in Sched
    BY DEF NoRebuild, Rebuild, NoSched, Sched
  <2>2. \A s \in Songs : 0 \in 0 .. MaxVersion
    OBVIOUS
  <2> QED
    BY <2>1, <2>2 DEF Init, TypeOK
<1> QED
  BY <1>1 DEF Init, SearchInv, HeldIsStored, IndexedIsStored, NoRebuild, NoSched

LEMMA NextSearchInv == SearchInv /\ [Next]_vars => SearchInv'
<1> SUFFICES ASSUME SearchInv, [Next]_vars PROVE SearchInv'
  OBVIOUS
<1>1. CASE UNCHANGED vars
  BY <1>1 DEF vars, SearchInv, TypeOK, HeldIsStored, IndexedIsStored, InTable
<1>2. CASE Next
  BY <1>2, OtherStepKeepsInv, StartKeepsInv, StoreKeepsInv, RebuildKeepsInv, SchedKeepsInv
     DEF Next, ServerNext
<1> QED
  BY <1>1, <1>2

\* In every reachable state the variables have their types, and what the two
\* goroutines hold for Bleve is in the table.
THEOREM SearchInductive == Spec => []SearchInv
BY InitSearchInv, NextSearchInv, PTL DEF Spec

\* A document of the index is a row of the table, whatever fails.
THEOREM HitsCanBeLookedUp == Spec => []IndexedIsStored
<1>1. SearchInv => IndexedIsStored
  BY DEF SearchInv
<1> QED
  BY <1>1, SearchInductive, PTL

-----------------------------------------------------------------------------
(* The index does not go back, as long as cmd/fetch does not run.          *)

\* What UpsertMany stores, if docs has one version of a song.
LEMMA UpsertStoresDocs ==
  ASSUME TypeOK, NEW docs \in SUBSET Doc, UpsertMany(docs),
         \A d, e \in docs : d.song = e.song => d = e
  PROVE  /\ \A d \in docs : stored'[d.song] = d.version
         /\ \A s \in Songs \ SongsOf(docs) : stored'[s] = stored[s]
<1>1. ASSUME NEW d \in docs
      PROVE  stored'[d.song] = d.version
  <2>1. d.song \in SongsOf(docs) /\ d.song \in Songs
    BY DEF SongsOf, Doc
  <2>2. (CHOOSE e \in docs : e.song = d.song) \in docs
    OBVIOUS
  <2>3. (CHOOSE e \in docs : e.song = d.song).song = d.song
    OBVIOUS
  <2>4. (CHOOSE e \in docs : e.song = d.song) = d
    BY <2>2, <2>3
  <2> QED
    BY <2>1, <2>4 DEF UpsertMany
<1> QED
  BY <1>1 DEF UpsertMany

\* What a batch leaves in the index, if the batch has one version of a song.
LEMMA WriteIndexesDocs ==
  ASSUME TypeOK, NEW batch \in SUBSET Doc, Write(batch),
         \A d, e \in batch : d.song = e.song => d = e
  PROVE  \A d \in batch : index'[d.song] = d.version
<1> SUFFICES ASSUME NEW d \in batch PROVE index'[d.song] = d.version
  OBVIOUS
<1>1. d.song \in SongsOf(batch)
  BY DEF SongsOf
<1>2. PICK e \in batch : e.song = d.song /\ index'[d.song] = e.version
  BY <1>1, WriteIndexesBatch
<1> QED
  BY <1>2

\* The index may only go up, or is created anew while no server runs.
IndexGrows == \A s \in Songs : index'[s] >= index[s] \/ phase = "down"

LEMMA OtherStepKeepsVersions ==
  ASSUME TypeOK, VersionInv,
         \/ \E s \in Songs : Publish(s)
         \/ Rollover \/ StartServer
         \/ Shutdown \/ CloseIndex \/ Exit
  PROVE  VersionInv' /\ IndexGrows
<1> USE DEF VersionInv
<1>0. \A s \in Songs : index[s] \in Nat
  BY DEF TypeOK
<1>1. ASSUME NEW s \in Songs, Publish(s)
      PROVE  VersionInv' /\ IndexGrows
  <2>1. \A t \in Songs : tj[t] \in Nat /\ stored[t] \in Nat /\ tj'[t] >= tj[t]
    BY <1>1 DEF Publish, TypeOK
  <2>2. sched.todo \subseteq Doc
    BY DEF TypeOK, Sched
  <2>3. \A d \in sched.todo : d.song \in Songs /\ d.version \in Nat
    BY <2>2 DEF Doc
  <2>4. \A t \in Songs : stored[t] <= tj'[t]
    <3> SUFFICES ASSUME NEW t \in Songs PROVE stored[t] <= tj'[t]
      OBVIOUS
    <3>1. tj'[t] \in Nat
      BY <1>1 DEF Publish, TypeOK
    <3> QED
      BY <2>1, <3>1
  <2>5. \A d \in sched.todo : d.version <= tj'[d.song]
    <3> SUFFICES ASSUME NEW d \in sched.todo PROVE d.version <= tj'[d.song]
      OBVIOUS
    <3>1. d.version <= tj[d.song] /\ tj'[d.song] >= tj[d.song]
      BY <2>1, <2>3
    <3>2. tj'[d.song] \in Nat
      BY <1>1, <2>3 DEF Publish, TypeOK
    <3> QED
      BY <2>1, <2>3, <3>1, <3>2
  <2> QED
    BY <1>1, <1>0, <2>4, <2>5 DEF Publish, table, IndexGrows
<1>2. CASE Rollover \/ CloseIndex
  BY <1>2, <1>0 DEF Rollover, CloseIndex, world, table, IndexGrows
<1>3. CASE StartServer
  <2>1. /\ \A s \in Songs : index'[s] <= stored[s]
        /\ rebuild'.left = {}
        /\ sched'.todo = {}
    <3>1. PICK fresh \in BOOLEAN :
            index' = IF fresh THEN [s \in Songs |-> 0] ELSE index
      BY <1>3 DEF StartServer
    <3>2. \A s \in Songs : 0 <= stored[s]
      BY DEF TypeOK
    <3>3. \A s \in Songs : index'[s] <= stored[s]
      BY <3>1, <3>2
    <3>4. rebuild'.left = {} /\ sched'.todo = {}
      BY <1>3 DEF StartServer, NoRebuild
    <3> QED
      BY <3>3, <3>4
  <2> QED
    BY <1>3, <2>1 DEF StartServer, world, table, IndexGrows
<1>4. CASE Shutdown
  <2>1. rebuild'.left = rebuild.left /\ rebuild'.pc = rebuild.pc
    BY <1>4 DEF Shutdown, TypeOK, Rebuild
  <2> QED
    BY <1>4, <1>0, <2>1 DEF Shutdown, world, table, IndexGrows
<1>5. CASE Exit
  <2>1. rebuild'.left = {} /\ sched'.todo = {}
    BY <1>5 DEF Exit, NoRebuild, NoSched
  <2> QED
    BY <1>5, <1>0, <2>1 DEF Exit, world, table, IndexGrows
<1> QED
  BY <1>1, <1>2, <1>3, <1>4, <1>5

LEMMA RebuildKeepsVersions ==
  ASSUME TypeOK, VersionInv, RebuildNext
  PROVE  VersionInv' /\ IndexGrows
<1> USE DEF VersionInv
<1>0. \A s \in Songs : index[s] \in Nat /\ stored[s] \in Nat
  BY DEF TypeOK
<1>1. CASE RebuildBegin
  <2>1. rebuild'.left = rebuild.left /\ rebuild.pc = "begin" /\ rebuild.left = {}
    BY <1>1 DEF RebuildBegin, TypeOK, Rebuild
  <2> QED
    BY <1>1, <1>0, <2>1 DEF RebuildBegin, world, table, IndexGrows
<1>2. CASE RebuildRead
  <2> DEFINE page == FindAll(PageSize, rebuild.offset)
  <2>1. \A d \in page : d \in Doc /\ d.song \in Songs /\ d.version = stored[d.song]
    BY DEF FindAll, Doc
  <2>2. \A d, e \in page : d.song = e.song => d = e
    BY <2>1 DEF Doc
  <2> HIDE DEF page
  <2>3. rebuild' = IF page = {} THEN [rebuild EXCEPT !.pc = "done"]
                   ELSE [rebuild EXCEPT !.pc = "write", !.page = page, !.left = page]
    BY <1>2 DEF RebuildRead, page
  <2>4. rebuild.left = {}
    BY <1>2 DEF RebuildRead
  <2>5. rebuild'.left = page /\ (page # {} => rebuild'.pc = "write")
    BY <2>3, <2>4 DEF TypeOK, Rebuild
  <2>6. \A d \in page : index[d.song] <= d.version /\ d.version <= stored[d.song]
    BY <2>1, <1>0
  <2> QED
    BY <1>2, <1>0, <2>1, <2>2, <2>5, <2>6 DEF RebuildRead, world, table, IndexGrows
<1>3. CASE RebuildWrite
  <2>1. PICK batch \in NextBatch(rebuild.left) :
          /\ Write(batch)
          /\ rebuild' = IF batch = rebuild.left THEN PageDone(rebuild)
                        ELSE [rebuild EXCEPT !.left = @ \ batch]
    BY <1>3 DEF RebuildWrite
  <2>2. batch \subseteq rebuild.left /\ batch \in SUBSET Doc
    BY BatchIsPart DEF TypeOK, Rebuild
  <2>3. \A d \in batch : index'[d.song] = d.version
    BY <2>1, <2>2, WriteIndexesDocs
  <2>4. \A s \in Songs \ SongsOf(batch) : index'[s] = index[s]
    BY <2>1, <2>2, WriteIndexesBatch
  <2>5. \A s \in Songs : index[s] <= index'[s] /\ index'[s] <= stored[s]
    <3> SUFFICES ASSUME NEW s \in Songs
                 PROVE  index[s] <= index'[s] /\ index'[s] <= stored[s]
      OBVIOUS
    <3>1. CASE s \in SongsOf(batch)
      <4>1. PICK d \in batch : d.song = s
        BY <3>1 DEF SongsOf
      <4> QED
        BY <4>1, <2>2, <2>3
    <3>2. CASE s \notin SongsOf(batch)
      BY <3>2, <2>4, <1>0
    <3> QED
      BY <3>1, <3>2
  <2>6. rebuild'.left = rebuild.left \ batch /\ (rebuild'.left # {} => rebuild'.pc = "write")
    <3>1. CASE batch = rebuild.left
      BY <2>1, <3>1, PageDoneIsRebuild DEF TypeOK
    <3>2. CASE batch # rebuild.left
      BY <1>3, <2>1, <3>2 DEF TypeOK, Rebuild, RebuildWrite
    <3> QED
      BY <3>1, <3>2
  <2>7. \A d \in rebuild'.left : index'[d.song] = index[d.song]
    <3> SUFFICES ASSUME NEW d \in rebuild'.left PROVE index'[d.song] = index[d.song]
      OBVIOUS
    <3>1. d \in rebuild.left /\ d \notin batch /\ d.song \in Songs
      BY <2>6 DEF TypeOK, Rebuild, Doc
    <3>2. d.song \notin SongsOf(batch)
      BY <3>1, <2>2 DEF SongsOf
    <3> QED
      BY <3>1, <3>2, <2>4
  <2>8. IndexGrows
    <3>1. \A s \in Songs : index'[s] \in Nat
      BY <2>1, <2>2, WriteIndexesBatch DEF TypeOK
    <3> QED
      BY <2>5, <3>1, <1>0 DEF IndexGrows
  <2> QED
    BY <1>3, <2>5, <2>6, <2>7, <2>8 DEF RebuildWrite, world, table
<1>4. CASE RebuildFails
  <2>1. rebuild'.left = {}
    BY <1>4 DEF RebuildFails, TypeOK, Rebuild
  <2> QED
    BY <1>4, <1>0, <2>1 DEF RebuildFails, world, table, IndexGrows
<1> QED
  BY <1>1, <1>2, <1>3, <1>4 DEF RebuildNext

LEMMA SchedKeepsVersions ==
  ASSUME TypeOK, VersionInv, SchedNext
  PROVE  VersionInv' /\ IndexGrows
<1> USE DEF VersionInv
<1>0. \A s \in Songs : index[s] \in Nat /\ stored[s] \in Nat /\ tj[s] \in Nat
  BY DEF TypeOK
<1>1. CASE SchedFetch
  <2>1. sched' = [pc |-> "fetched", todo |-> Listing(open)]
    BY <1>1 DEF SchedFetch
  <2>2. \A d \in Listing(open) : d \in Doc /\ d.song \in Songs /\ d.version = tj[d.song]
    BY DEF Listing, Doc
  <2>3. \A d, e \in Listing(open) : d.song = e.song => d = e
    BY <2>2 DEF Doc
  <2>4. \A d \in Listing(open) : stored[d.song] <= d.version /\ d.version <= tj[d.song]
    BY <2>2, <1>0
  <2> QED
    BY <1>1, <1>0, <2>1, <2>3, <2>4 DEF SchedFetch, world, table, IndexGrows
<1>2. CASE SchedStore
  <2>1. sched.todo \in SUBSET Doc /\ sched' = [sched EXCEPT !.pc = "stored"]
    BY <1>2 DEF SchedStore, TypeOK, Sched
  <2>2. sched'.pc = "stored" /\ sched'.todo = sched.todo
    BY <2>1 DEF TypeOK, Sched
  <2>3. /\ \A d \in sched.todo : stored'[d.song] = d.version
        /\ \A s \in Songs \ SongsOf(sched.todo) : stored'[s] = stored[s]
    BY <1>2, <2>1, UpsertStoresDocs DEF SchedStore
  <2>4. \A d \in sched.todo : d.song \in Songs /\ d.version \in Nat
    BY <2>1 DEF Doc
  <2>5. \A s \in Songs : stored[s] <= stored'[s] /\ stored'[s] <= tj[s] /\ stored'[s] \in Nat
    <3> SUFFICES ASSUME NEW s \in Songs
                 PROVE  /\ stored[s] <= stored'[s] /\ stored'[s] <= tj[s]
                        /\ stored'[s] \in Nat
      OBVIOUS
    <3>1. CASE s \in SongsOf(sched.todo)
      <4>1. PICK d \in sched.todo : d.song = s
        BY <3>1 DEF SongsOf
      <4> QED
        BY <4>1, <2>3, <2>4
    <3>2. CASE s \notin SongsOf(sched.todo)
      BY <3>2, <2>3, <1>0
    <3> QED
      BY <3>1, <3>2
  <2>6. \A d \in rebuild.left : d.song \in Songs /\ d.version \in Nat
    BY DEF TypeOK, Rebuild, Doc
  <2>7. \A s \in Songs : index[s] <= stored'[s]
    BY <2>5, <1>0
  <2>8. \A d \in rebuild.left : d.version <= stored'[d.song]
    BY <2>5, <2>6, <1>0
  <2> QED
    BY <1>2, <1>0, <2>2, <2>3, <2>4, <2>5, <2>7, <2>8 DEF SchedStore, world, IndexGrows
<1>3. CASE SchedStoreFails \/ SchedWriteFails \/ SchedStop
  <2>1. sched'.todo = {} /\ sched'.pc # "index"
    BY <1>3 DEF SchedStoreFails, SchedWriteFails, SchedStop, NoSched
  <2> QED
    BY <1>3, <1>0, <2>1
       DEF SchedStoreFails, SchedWriteFails, SchedStop, world, table, IndexGrows
<1>4. CASE IndexSongs
  <2>1. /\ sched'.todo \subseteq sched.todo
        /\ sched'.pc = "index" => ~IsRebuilding
        /\ sched.pc = "stored"
    BY <1>4 DEF IndexSongs, TypeOK, Sched
  <2>2. sched'.pc = "index" => rebuild.left = {}
    BY <2>1 DEF IsRebuilding
  <2> QED
    BY <1>4, <1>0, <2>1, <2>2 DEF IndexSongs, world, table, IndexGrows
<1>5. CASE SchedWrite
  <2>1. PICK batch \in NextBatch(sched.todo) :
          /\ Write(batch)
          /\ sched' = IF batch = sched.todo THEN [pc |-> "wait", todo |-> {}]
                      ELSE [sched EXCEPT !.todo = @ \ batch]
    BY <1>5 DEF SchedWrite
  <2>2. batch \subseteq sched.todo /\ batch \in SUBSET Doc /\ sched.pc = "index"
    BY <1>5, BatchIsPart DEF SchedWrite, TypeOK, Sched
  <2>3. \A d \in batch : index'[d.song] = d.version /\ d.version = stored[d.song]
    BY <2>1, <2>2, WriteIndexesDocs
  <2>4. \A s \in Songs \ SongsOf(batch) : index'[s] = index[s]
    BY <2>1, <2>2, WriteIndexesBatch
  <2>5. \A s \in Songs : index'[s] = stored[s] \/ index'[s] = index[s]
    BY <2>3, <2>4 DEF SongsOf
  <2>6. \A s \in Songs : index[s] <= index'[s] /\ index'[s] <= stored[s]
    BY <2>5, <1>0
  <2>7. \A d \in rebuild.left : d.song \in Songs /\ index'[d.song] <= d.version
    BY <2>2, <2>6 DEF TypeOK, Rebuild, Doc
  <2>8. sched'.todo \subseteq sched.todo /\ sched'.pc \in {"wait", "index"}
    BY <2>1, <2>2 DEF TypeOK, Sched
  <2>9. IndexGrows
    BY <2>5, <2>6, <1>0 DEF IndexGrows
  <2> QED
    BY <1>5, <2>2, <2>6, <2>7, <2>8, <2>9 DEF SchedWrite, world, table
<1> QED
  BY <1>1, <1>2, <1>3, <1>4, <1>5 DEF SchedNext

\* The server on its own takes no step it could not take next to cmd/fetch.
LEMMA ServerIsSafe == ServerSpec => []SearchInv
<1>1. [ServerNext]_vars => [Next]_vars
  BY DEF Next
<1> QED
  BY <1>1, InitSearchInv, NextSearchInv, PTL DEF ServerSpec

LEMMA InitVersions == Init => VersionInv
BY DEF Init, VersionInv, NoRebuild, NoSched

LEMMA NextVersions ==
  ASSUME TypeOK, VersionInv, [ServerNext]_vars
  PROVE  VersionInv' /\ [IndexGrows]_vars
<1>1. CASE UNCHANGED vars
  BY <1>1 DEF vars, VersionInv
<1>2. CASE ServerNext
  BY <1>2, OtherStepKeepsVersions, RebuildKeepsVersions, SchedKeepsVersions DEF ServerNext
<1> QED
  BY <1>1, <1>2

\* If the scheduler is the only writer of the songs table, the versions in the
\* index, the table and the hands of the two goroutines are in order.
THEOREM VersionsInOrder == ServerSpec => []VersionInv
<1>1. SearchInv => TypeOK
  BY DEF SearchInv
<1>2. TypeOK /\ VersionInv /\ [ServerNext]_vars => VersionInv'
  BY NextVersions
<1> QED
  BY <1>1, <1>2, InitVersions, ServerIsSafe, PTL DEF ServerSpec

\* Under the same condition the index never goes back to an older version.
THEOREM IndexNeverStaler == ServerSpec => NeverStaler
<1>1. SearchInv => TypeOK
  BY DEF SearchInv
<1>2. TypeOK /\ VersionInv /\ [ServerNext]_vars
        => [\A s \in Songs : index'[s] >= index[s] \/ phase = "down"]_vars
  BY NextVersions DEF IndexGrows
<1>3. ServerSpec => [][\A s \in Songs : index'[s] >= index[s] \/ phase = "down"]_vars
  BY <1>1, <1>2, ServerIsSafe, VersionsInOrder, PTL DEF ServerSpec
<1> QED
  BY <1>3 DEF NeverStaler

-----------------------------------------------------------------------------
(* A rebuild misses no row it started with.  First, counting.             *)

\* A map that counts the elements of a set.
LEMMA CountedBy ==
  ASSUME NEW S, NEW n \in Nat, IsFiniteSet(S), NEW f \in [S -> 1 .. n],
         \A x, y \in S : f[x] = f[y] => x = y,
         \A r \in 1 .. n : \E x \in S : f[x] = r
  PROVE  Cardinality(S) = n
<1>1. f \in Injection(S, 1 .. n) /\ f \in Surjection(S, 1 .. n)
  BY DEF Injection, Surjection, IsInjective
<1>2. IsFiniteSet(1 .. n) /\ Cardinality(1 .. n) = n
  BY FS_Interval
<1> QED
  BY <1>1, <1>2, FS_Injection

\* Distinct ranks, as many as there are, leave none out.
LEMMA RanksAreTaken ==
  ASSUME NEW S, IsFiniteSet(S), NEW n \in Nat,
         NEW f \in [S -> n + 1 .. n + Cardinality(S)],
         \A x, y \in S : f[x] = f[y] => x = y
  PROVE  \A r \in n + 1 .. n + Cardinality(S) : \E x \in S : f[x] = r
<1> DEFINE T == n + 1 .. n + Cardinality(S)
<1>1. Cardinality(S) \in Nat
  BY FS_CardinalityType
<1>2. IsFiniteSet(T) /\ Cardinality(T) = Cardinality(S)
  <2>1. n + 1 \in Int /\ n + Cardinality(S) \in Int
    BY <1>1
  <2>2. /\ IsFiniteSet(T)
        /\ Cardinality(T) = IF n + 1 > n + Cardinality(S) THEN 0
                            ELSE (n + Cardinality(S)) - (n + 1) + 1
    BY <2>1, FS_Interval
  <2> QED
    BY <1>1, <2>2
<1>3. f \in Injection(S, T)
  BY DEF Injection, IsInjective
<1>4. f \in Surjection(S, T)
  BY <1>2, <1>3, FS_Injection
<1> QED
  BY <1>4 DEF Surjection

\* The rows of the table are finitely many.
LEMMA TableIsFinite == IsFiniteSet(InTable) /\ Cardinality(InTable) \in Nat
<1>1. InTable \in SUBSET Songs
  BY DEF InTable
<1> QED
  BY <1>1, FS_Subset, FS_CardinalityType

-----------------------------------------------------------------------------
(* The operators of the model: the upsert, the page and the batch.         *)

\* New rows come after the others; these keep their ranks.
LEMMA UpsertAppends ==
  ASSUME TypeOK, RanksInv, NEW docs \in SUBSET Doc, UpsertMany(docs)
  PROVE  /\ RanksInv'
         /\ Cardinality(InTable) <= Cardinality(InTable')
         /\ InTable \subseteq InTable'
         /\ \A s \in InTable : place'[s] = place[s]
         /\ \A s \in InTable' \ InTable : place'[s] > Cardinality(InTable)
<1> DEFINE new == SongsOf(docs) \ InTable
           n == Cardinality(InTable)
           m == Cardinality(new)
<1>1. IsFiniteSet(InTable) /\ n \in Nat
  BY TableIsFinite
<1>2. new \in SUBSET Songs /\ SongsOf(docs) \in SUBSET Songs
  BY DEF SongsOf, Doc
<1>3. IsFiniteSet(new) /\ m \in Nat
  BY <1>2, FS_Subset, FS_CardinalityType
<1>4. PICK rank \in [new -> n + 1 .. n + m] :
        /\ \A s, t \in new : rank[s] = rank[t] => s = t
        /\ place' = [s \in Songs |-> IF s \in new THEN rank[s] ELSE place[s]]
  BY DEF UpsertMany
<1> HIDE DEF new
<1>5. \A s \in new : rank[s] \in Nat /\ rank[s] > n /\ rank[s] <= n + m
  <2> SUFFICES ASSUME NEW s \in new
               PROVE  rank[s] \in Nat /\ rank[s] > n /\ rank[s] <= n + m
    OBVIOUS
  <2>1. rank[s] \in n + 1 .. n + m
    BY <1>4
  <2> QED
    BY <2>1, <1>1, <1>3
<1>6. \A r \in n + 1 .. n + m : \E s \in new : rank[s] = r
  BY <1>1, <1>3, <1>4, RanksAreTaken
<1>7. \A s \in Songs : place[s] \in Nat
  BY DEF TypeOK
<1>8. \A s \in new : place'[s] = rank[s]
  BY <1>2, <1>4
<1>9. \A s \in Songs \ new : place'[s] = place[s]
  BY <1>4
<1>10. new \cap InTable = {}
  BY DEF new
<1>11. InTable' = InTable \cup new
  <2>1. InTable' = {s \in Songs : place'[s] # 0}
    BY DEF InTable
  <2>2. \A s \in Songs : place'[s] # 0 <=> place[s] # 0 \/ s \in new
    BY <1>5, <1>8, <1>9, <1>1
  <2> QED
    BY <2>1, <2>2, <1>2 DEF InTable
<1>12. \A s \in InTable : place'[s] = place[s]
  BY <1>9, <1>10 DEF InTable
<1>13. \A s \in InTable : place[s] <= n /\ place[s] \in 1 .. n
  BY <1>1, <1>7 DEF RanksInv, InTable
<1>14. \A s, t \in InTable' : place'[s] = place'[t] => s = t
  <2> SUFFICES ASSUME NEW s \in InTable \cup new, NEW t \in InTable \cup new,
                      place'[s] = place'[t]
               PROVE  s = t
    BY <1>11
  <2>1. CASE s \in InTable /\ t \in InTable
    BY <2>1, <1>12 DEF RanksInv
  <2>2. CASE s \in new /\ t \in new
    BY <2>2, <1>4, <1>8
  <2>3. CASE s \in InTable /\ t \in new
    BY <2>3, <1>1, <1>5, <1>8, <1>12, <1>13
  <2>4. CASE s \in new /\ t \in InTable
    BY <2>4, <1>1, <1>5, <1>8, <1>12, <1>13
  <2> QED
    BY <2>1, <2>2, <2>3, <2>4
<1>15. \A s \in InTable' : place'[s] \in 1 .. n + m
  <2> SUFFICES ASSUME NEW s \in InTable \cup new PROVE place'[s] \in 1 .. n + m
    BY <1>11
  <2>1. CASE s \in InTable
    BY <2>1, <1>1, <1>3, <1>12, <1>13
  <2>2. CASE s \in new
    BY <2>2, <1>1, <1>3, <1>5, <1>8
  <2> QED
    BY <2>1, <2>2
<1>16. \A r \in 1 .. n + m : \E s \in InTable' : place'[s] = r
  <2> SUFFICES ASSUME NEW r \in 1 .. n + m
               PROVE  \E s \in InTable \cup new : place'[s] = r
    BY <1>11
  <2>1. CASE r <= n
    <3>1. r \in 1 .. n
      BY <2>1, <1>1
    <3> QED
      BY <3>1, <1>12 DEF RanksInv
  <2>2. CASE r > n
    <3>1. r \in n + 1 .. n + m
      BY <2>2, <1>1, <1>3
    <3> QED
      BY <3>1, <1>6, <1>8
  <2> QED
    BY <2>1, <2>2, <1>1
<1>17. Cardinality(InTable') = n + m
  <2> DEFINE S == InTable'
             f == [s \in S |-> place'[s]]
  <2>1. IsFiniteSet(S)
    <3>1. InTable \cup new \in SUBSET Songs
      BY <1>2 DEF InTable
    <3> QED
      BY <3>1, <1>11, FS_Subset
  <2>2. n + m \in Nat
    BY <1>1, <1>3
  <2>3. f \in [S -> 1 .. n + m]
    BY <1>15
  <2>4. \A s, t \in S : f[s] = f[t] => s = t
    BY <1>14
  <2>5. \A r \in 1 .. n + m : \E s \in S : f[s] = r
    BY <1>16
  <2> HIDE DEF S, f
  <2>6. Cardinality(S) = n + m
    BY <2>1, <2>2, <2>3, <2>4, <2>5, CountedBy
  <2> QED
    BY <2>6 DEF S
<1>18. \A s \in InTable' : place'[s] <= Cardinality(InTable')
  BY <1>1, <1>3, <1>15, <1>17
<1>19. \A s \in InTable' : stored'[s] # 0
  <2> SUFFICES ASSUME NEW s \in InTable \cup new PROVE stored'[s] # 0
    BY <1>11
  <2>1. CASE s \in SongsOf(docs)
    <3>1. \E d \in docs : d.song = s
      BY <2>1 DEF SongsOf
    <3>2. (CHOOSE d \in docs : d.song = s) \in docs
      BY <3>1
    <3>3. (CHOOSE d \in docs : d.song = s).version \in 1 .. MaxVersion
      BY <3>2 DEF Doc
    <3>4. s \in Songs
      BY <1>2, <2>1
    <3> QED
      BY <2>1, <3>3, <3>4 DEF UpsertMany
  <2>2. CASE s \notin SongsOf(docs)
    <3>1. s \in InTable /\ s \in Songs
      BY <2>2 DEF new, InTable
    <3> QED
      BY <2>2, <3>1 DEF UpsertMany, RanksInv
  <2> QED
    BY <2>1, <2>2
<1>20. RanksInv'
  BY <1>14, <1>16, <1>17, <1>18, <1>19 DEF RanksInv
<1>21. \A s \in InTable' \ InTable : place'[s] > n
  BY <1>5, <1>8, <1>11
<1>22. n <= Cardinality(InTable')
  BY <1>1, <1>3, <1>17
<1> QED
  BY <1>11, <1>12, <1>20, <1>21, <1>22

\* A page has a row for each rank of its window, as far as there are rows.
LEMMA PageIsTheWindow ==
  ASSUME TypeOK, RanksInv, NEW offset \in Nat, offset <= Cardinality(InTable)
  PROVE  LET page == FindAll(PageSize, offset)
             read == offset + Cardinality(page)
         IN  /\ Upto(read) \subseteq Upto(offset) \cup SongsOf(page)
             /\ read <= Cardinality(InTable)
             /\ IsLast(page) => read = Cardinality(InTable)
             /\ page = {} => offset = Cardinality(InTable)
<1> DEFINE n == Cardinality(InTable)
           page == FindAll(PageSize, offset)
           k == IF n - offset < PageSize THEN n - offset ELSE PageSize
           f == [d \in page |-> place[d.song] - offset]
<1>1. n \in Nat /\ k \in Nat /\ offset + k <= n
  BY TableIsFinite
<1>2. \A s \in Songs : place[s] \in Nat /\ stored[s] \in 0 .. MaxVersion
  BY DEF TypeOK
<1>3. \A d \in page : /\ d \in Doc
                      /\ d.song \in InTable
                      /\ d.version = stored[d.song]
                      /\ place[d.song] \in offset + 1 .. offset + PageSize
  <2> SUFFICES ASSUME NEW d \in Doc,
                      place[d.song] \in offset + 1 .. offset + PageSize
               PROVE  d.song \in InTable
    BY DEF FindAll
  <2>1. d.song \in Songs
    BY DEF Doc
  <2> QED
    BY <2>1, <1>2 DEF InTable
<1>4. \A s \in InTable : /\ s \in Songs
                         /\ place[s] \in 1 .. n
                         /\ stored[s] \in 1 .. MaxVersion
  BY <1>1, <1>2 DEF InTable, RanksInv
<1>5. \A s \in InTable : place[s] \in offset + 1 .. offset + PageSize =>
        [song |-> s, version |-> stored[s]] \in page
  BY <1>4 DEF FindAll, Doc
<1> HIDE DEF page
<1>6. f \in [page -> 1 .. k]
  <2> SUFFICES ASSUME NEW d \in page PROVE place[d.song] - offset \in 1 .. k
    OBVIOUS
  <2>1. place[d.song] \in 1 .. n /\ place[d.song] \in offset + 1 .. offset + PageSize
    BY <1>3, <1>4
  <2> QED
    BY <2>1, <1>1
<1>7. \A d, e \in page : f[d] = f[e] => d = e
  <2> SUFFICES ASSUME NEW d \in page, NEW e \in page,
                      place[d.song] - offset = place[e.song] - offset
               PROVE  d = e
    OBVIOUS
  <2>1. place[d.song] = place[e.song]
    BY <1>2, <1>3, <1>4
  <2>2. d.song = e.song
    BY <2>1, <1>3 DEF RanksInv
  <2> QED
    BY <2>2, <1>3 DEF Doc
<1>8. \A r \in 1 .. k : \E d \in page : f[d] = r
  <2> SUFFICES ASSUME NEW r \in 1 .. k
               PROVE  \E d \in page : place[d.song] - offset = r
    OBVIOUS
  <2>1. offset + r \in 1 .. n /\ offset + r \in offset + 1 .. offset + PageSize
    BY <1>1
  <2>2. PICK s \in InTable : place[s] = offset + r
    BY <2>1 DEF RanksInv
  <2>3. [song |-> s, version |-> stored[s]] \in page
    BY <1>5, <2>1, <2>2
  <2> QED
    BY <2>2, <2>3
<1>9. IsFiniteSet(page)
  <2> HIDE DEF f, k
  <2>1. IsFiniteSet(1 .. k)
    BY <1>1, FS_Interval
  <2>2. f \in Injection(page, 1 .. k)
    BY <1>6, <1>7 DEF Injection, IsInjective
  <2> QED
    BY <2>1, <2>2, FS_Injection
<1>10. Cardinality(page) = k
  <2> HIDE DEF f, k
  <2> QED
    BY <1>1, <1>6, <1>7, <1>8, <1>9, CountedBy
<1>11. Upto(offset + k) \subseteq Upto(offset) \cup SongsOf(page)
  <2>1. ASSUME NEW s \in InTable, place[s] <= offset + k, ~(place[s] <= offset)
        PROVE  s \in SongsOf(page)
    <3>1. place[s] \in offset + 1 .. offset + PageSize
      BY <2>1, <1>1, <1>4
    <3>2. [song |-> s, version |-> stored[s]] \in page
      BY <3>1, <1>5
    <3> QED
      BY <3>2 DEF SongsOf
  <2> HIDE DEF k
  <2> QED
    BY <2>1 DEF Upto
<1>12. IsLast(page) => offset + k = n
  BY <1>1, <1>10 DEF IsLast
<1>13. page = {} => offset = n
  <2>1. page = {} => k = 0
    BY <1>10, FS_EmptySet
  <2> QED
    BY <2>1, <1>1
<1> QED
  BY <1>1, <1>10, <1>11, <1>12, <1>13 DEF page

\* A batch adds its songs to those of the index.
LEMMA WriteAddsSongs ==
  ASSUME TypeOK, NEW batch \in SUBSET Doc, Write(batch)
  PROVE  Indexed' = Indexed \cup SongsOf(batch)
<1>1. /\ \A s \in Songs \ SongsOf(batch) : index'[s] = index[s]
      /\ \A s \in SongsOf(batch) : \E d \in batch : d.song = s /\ index'[s] = d.version
  BY WriteIndexesBatch
<1>2. \A s \in SongsOf(batch) : s \in Songs /\ index'[s] # 0
  BY <1>1 DEF SongsOf, Doc
<1> QED
  BY <1>1, <1>2 DEF Indexed

-----------------------------------------------------------------------------
(* Steps that leave the rebuild alone.                                     *)

\* The table stays, and the index loses no song.
LEMMA CoverStays ==
  ASSUME CoverInv, UNCHANGED <<table, rebuild>>, Indexed \subseteq Indexed'
  PROVE  CoverInv'
<1>1. InTable' = InTable /\ UNCHANGED <<place, stored, rebuild>>
  BY DEF table, InTable
<1>2. RanksInv'
  BY <1>1 DEF CoverInv, RanksInv
<1>3. \A n : Upto(n)' = Upto(n)
  BY <1>1 DEF Upto
<1>4. RebuildCovers'
  <2>1. \A s \in rebuild.base : s \in Songs
    BY DEF CoverInv, InTable
  <2> QED
    BY <1>1, <2>1 DEF CoverInv, RebuildCovers, Indexed
<1> QED
  BY <1>1, <1>2, <1>3, <1>4 DEF CoverInv

\* Rows are added and corrected.
LEMMA CoverSurvivesUpsert ==
  ASSUME TypeOK, CoverInv, NEW docs \in SUBSET Doc, UpsertMany(docs),
         UNCHANGED <<index, rebuild>>
  PROVE  CoverInv'
<1> DEFINE read == rebuild.offset + Cardinality(rebuild.page)
<1>1. /\ RanksInv'
      /\ Cardinality(InTable) <= Cardinality(InTable')
      /\ InTable \subseteq InTable'
      /\ \A s \in InTable : place'[s] = place[s]
      /\ \A s \in InTable' \ InTable : place'[s] > Cardinality(InTable)
  BY UpsertAppends DEF CoverInv
<1>2. Cardinality(InTable) \in Nat /\ Cardinality(InTable') \in Nat
  <2>1. InTable' \in SUBSET Songs
    BY DEF InTable
  <2> QED
    BY <2>1, TableIsFinite, FS_Subset, FS_CardinalityType
<1>3. read \in Nat /\ rebuild.page \in SUBSET Doc
  BY DocsAreFinite DEF TypeOK, Rebuild
<1>4. \A s \in InTable' : place'[s] \in Nat
  BY UpsertKeepsRows DEF InTable
<1>5. read <= Cardinality(InTable) => Upto(read)' = Upto(read)
  <2> HIDE DEF read
  <2> SUFFICES ASSUME read <= Cardinality(InTable)
               PROVE  {s \in InTable' : place'[s] <= read} = {s \in InTable : place[s] <= read}
    BY DEF Upto, read
  <2>1. ASSUME NEW s \in InTable', place'[s] <= read
        PROVE  s \in InTable
    <3>1. ~(place'[s] > Cardinality(InTable))
      BY <2>1, <1>2, <1>3, <1>4
    <3> QED
      BY <3>1, <1>1
  <2> QED
    BY <2>1, <1>1
<1>6. read <= Cardinality(InTable) => read <= Cardinality(InTable')
  BY <1>1, <1>2, <1>3
<1>7. rebuild'.base \subseteq InTable' /\ RebuildCovers'
  BY <1>1 DEF CoverInv, RebuildCovers
<1> QED
  BY <1>1, <1>5, <1>6, <1>7 DEF CoverInv, Indexed

LEMMA WorldKeepsCover ==
  ASSUME TypeOK, CoverInv,
         \/ \E s \in Songs : Publish(s)
         \/ Rollover \/ CliFetch \/ CliStoreFails \/ CloseIndex \/ UNCHANGED vars
  PROVE  CoverInv'
<1>1. UNCHANGED <<table, rebuild, index>>
  BY DEF Publish, Rollover, CliFetch, CliStoreFails, CloseIndex, vars, table
<1> QED
  BY <1>1, CoverStays DEF Indexed

LEMMA SchedKeepsCover ==
  ASSUME TypeOK, CoverInv, SchedNext
  PROVE  CoverInv'
<1>1. CASE SchedStore
  <2>1. sched.todo \in SUBSET Doc
    BY DEF TypeOK, Sched
  <2> QED
    BY <1>1, <2>1, CoverSurvivesUpsert DEF SchedStore
<1>2. CASE SchedWrite
  <2>1. PICK batch \in NextBatch(sched.todo) : Write(batch)
    BY <1>2 DEF SchedWrite
  <2>2. batch \in SUBSET Doc
    BY BatchIsPart DEF TypeOK, Sched
  <2>3. Indexed \subseteq Indexed'
    BY <2>1, <2>2, WriteAddsSongs
  <2> QED
    BY <1>2, <2>3, CoverStays DEF SchedWrite
<1>3. CASE SchedFetch \/ SchedStoreFails \/ IndexSongs \/ SchedWriteFails \/ SchedStop
  <2>1. UNCHANGED <<table, rebuild, index>>
    BY <1>3 DEF SchedFetch, SchedStoreFails, IndexSongs, SchedWriteFails, SchedStop
  <2> QED
    BY <2>1, CoverStays DEF Indexed
<1> QED
  BY <1>1, <1>2, <1>3 DEF SchedNext

LEMMA CliStoreKeepsCover ==
  ASSUME TypeOK, CoverInv, CliStore
  PROVE  CoverInv'
BY CoverSurvivesUpsert DEF CliStore, TypeOK

-----------------------------------------------------------------------------
(* Steps of the rebuild, and the life of the server.                       *)

\* A rebuild that has ended, or was never begun, has nothing to show for it.
LEMMA NoRebuildNoCover ==
  ASSUME CoverInv, UNCHANGED table, rebuild'.base \subseteq InTable,
         rebuild'.pc \in {"off", "failed"}
  PROVE  CoverInv'
<1>1. InTable' = InTable /\ UNCHANGED <<place, stored>>
  BY DEF table, InTable
<1> QED
  BY <1>1 DEF CoverInv, RanksInv, RebuildCovers

\* A new rebuild has read nothing yet.
LEMMA NewRebuildCovers ==
  ASSUME TypeOK, CoverInv, UNCHANGED table,
         rebuild' = [NoRebuild EXCEPT !.pc = "begin"]
  PROVE  CoverInv'
<1>1. InTable' = InTable /\ UNCHANGED <<place, stored>>
  BY DEF table, InTable
<1>2. RanksInv'
  BY <1>1 DEF CoverInv, RanksInv
<1>3. /\ rebuild'.pc = "begin" /\ rebuild'.offset = 0 /\ rebuild'.page = {}
      /\ rebuild'.left = {} /\ rebuild'.base = {}
  BY DEF NoRebuild
<1>4. (rebuild.offset + Cardinality(rebuild.page))' = 0
  <2>1. Cardinality({}) = 0
    BY FS_EmptySet
  <2>2. Cardinality(rebuild'.page) = 0
    BY <1>3, <2>1
  <2> QED
    BY <1>3, <2>2
<1>5. Upto(0)' = {}
  <2>1. \A s \in InTable : ~(place[s] <= 0)
    BY DEF TypeOK, InTable
  <2> QED
    BY <1>1, <2>1 DEF Upto
<1>6. 0 <= Cardinality(InTable')
  BY <1>1, TableIsFinite
<1>7. RebuildCovers'
  BY <1>3 DEF RebuildCovers
<1>8. (Upto(rebuild.offset + Cardinality(rebuild.page)))' = {}
  BY <1>4, <1>5 DEF Upto
<1> QED
  BY <1>2, <1>3, <1>4, <1>6, <1>7, <1>8 DEF CoverInv

LEMMA ServerKeepsCover ==
  ASSUME TypeOK, CoverInv, StartServer \/ Shutdown \/ Exit
  PROVE  CoverInv'
<1>1. CASE StartServer
  <2>1. UNCHANGED table
    BY <1>1 DEF StartServer
  <2>2. rebuild' = NoRebuild \/ rebuild' = [NoRebuild EXCEPT !.pc = "begin"]
    BY <1>1 DEF StartServer
  <2>3. CASE rebuild' = NoRebuild
    BY <2>1, <2>3, NoRebuildNoCover DEF NoRebuild
  <2> QED
    BY <2>1, <2>2, <2>3, NewRebuildCovers
<1>2. CASE Shutdown
  <2>1. UNCHANGED <<place, stored, index>> /\ InTable' = InTable /\ Indexed' = Indexed
    BY <1>2 DEF Shutdown, table, InTable, Indexed
  <2>2. /\ rebuild'.pc = rebuild.pc /\ rebuild'.offset = rebuild.offset
        /\ rebuild'.page = rebuild.page /\ rebuild'.left = rebuild.left
        /\ rebuild'.base = rebuild.base
    BY <1>2 DEF Shutdown, TypeOK, Rebuild
  <2>3. RanksInv'
    BY <2>1 DEF CoverInv, RanksInv
  <2>4. RebuildCovers'
    BY <2>1, <2>2 DEF CoverInv, RebuildCovers
  <2>5. \A n : Upto(n)' = Upto(n)
    BY <2>1 DEF Upto
  <2> QED
    BY <2>1, <2>2, <2>3, <2>4, <2>5 DEF CoverInv
<1>3. CASE Exit
  BY <1>3, NoRebuildNoCover DEF Exit, NoRebuild
<1> QED
  BY <1>1, <1>2, <1>3

LEMMA RebuildKeepsCover ==
  ASSUME TypeOK, CoverInv, RebuildNext
  PROVE  CoverInv'
<1> DEFINE n == Cardinality(InTable)
           read == rebuild.offset + Cardinality(rebuild.page)
<1>1. n \in Nat /\ rebuild.offset \in Nat /\ rebuild.page \in SUBSET Doc
  BY TableIsFinite DEF TypeOK, Rebuild
<1>2. UNCHANGED <<place, stored>> /\ InTable' = InTable
  BY DEF RebuildNext, RebuildBegin, RebuildRead, RebuildWrite, RebuildFails, table, InTable
<1>3. RanksInv'
  BY <1>2 DEF CoverInv, RanksInv
<1>4. \A r : Upto(r)' = Upto(r)
  BY <1>2 DEF Upto
<1>5. CASE RebuildBegin
  <2>1. /\ rebuild'.pc = "read" /\ rebuild'.base = InTable /\ rebuild.pc = "begin"
        /\ rebuild'.offset = rebuild.offset /\ rebuild'.page = rebuild.page
        /\ rebuild'.left = rebuild.left
    BY <1>5 DEF RebuildBegin, TypeOK, Rebuild
  <2>2. Indexed' = Indexed
    BY <1>5 DEF RebuildBegin, Indexed
  <2> QED
    BY <1>2, <1>3, <1>4, <2>1, <2>2 DEF CoverInv, RebuildCovers
<1>6. CASE RebuildRead
  <2> DEFINE page == FindAll(PageSize, rebuild.offset)
             upto == rebuild.offset + Cardinality(page)
  <2>1. /\ rebuild' = IF page = {} THEN [rebuild EXCEPT !.pc = "done"]
                      ELSE [rebuild EXCEPT !.pc = "write", !.page = page, !.left = page]
        /\ rebuild.pc = "read" /\ Indexed' = Indexed
    BY <1>6 DEF RebuildRead, Indexed
  <2>2. /\ rebuild.offset <= n /\ Upto(rebuild.offset) \subseteq Indexed
        /\ rebuild.base \subseteq InTable
    <3>1. rebuild.page = {} /\ rebuild.left = {}
      BY <2>1 DEF CoverInv
    <3>2. rebuild.offset + Cardinality(rebuild.page) = rebuild.offset
      BY <3>1, <1>1, FS_EmptySet
    <3>3. SongsOf(rebuild.left) = {}
      BY <3>1 DEF SongsOf
    <3> QED
      BY <2>1, <3>2, <3>3 DEF CoverInv
  <2>3. /\ Upto(upto) \subseteq Upto(rebuild.offset) \cup SongsOf(page)
        /\ upto <= n
        /\ IsLast(page) => upto = n
        /\ page = {} => rebuild.offset = n
    BY <1>1, <2>2, PageIsTheWindow DEF CoverInv
  <2>4. Upto(n) = InTable
    BY DEF CoverInv, RanksInv, Upto
  <2> HIDE DEF page
  <2>5. CASE page = {}
    <3>1. rebuild'.pc = "done" /\ rebuild'.base = rebuild.base
      BY <2>1, <2>5 DEF TypeOK, Rebuild
    <3>2. rebuild.base \subseteq Indexed
      BY <2>2, <2>3, <2>4, <2>5
    <3>3. RebuildCovers'
      BY <3>1, <3>2, <2>1 DEF RebuildCovers, Indexed
    <3> QED
      BY <1>2, <1>3, <2>2, <3>1, <3>3 DEF CoverInv
  <2>6. CASE page # {}
    <3>1. /\ rebuild'.pc = "write" /\ rebuild'.base = rebuild.base
          /\ rebuild'.offset = rebuild.offset
          /\ rebuild'.page = page /\ rebuild'.left = page
      BY <2>1, <2>6 DEF TypeOK, Rebuild
    <3>2. Upto(upto) \subseteq Indexed \cup SongsOf(page)
      BY <2>2, <2>3
    <3>3. IsLast(page) => rebuild.base \subseteq Upto(upto)
      BY <2>2, <2>3, <2>4
    <3> QED
      BY <1>2, <1>3, <1>4, <2>1, <2>2, <2>3, <3>1, <3>2, <3>3 DEF CoverInv, RebuildCovers
  <2> QED
    BY <2>5, <2>6
<1>7. CASE RebuildWrite
  <2>1. PICK batch \in NextBatch(rebuild.left) :
          /\ Write(batch)
          /\ rebuild' = IF batch = rebuild.left THEN PageDone(rebuild)
                        ELSE [rebuild EXCEPT !.left = @ \ batch]
    BY <1>7 DEF RebuildWrite
  <2>2. batch \subseteq rebuild.left /\ batch \in SUBSET Doc
    BY BatchIsPart DEF TypeOK, Rebuild
  <2>3. Indexed' = Indexed \cup SongsOf(batch)
    BY <2>1, <2>2, WriteAddsSongs
  <2>4. /\ read <= n /\ Upto(read) \subseteq Indexed \cup SongsOf(rebuild.left)
        /\ IsLast(rebuild.page) => rebuild.base \subseteq Upto(read)
        /\ rebuild.base \subseteq InTable /\ rebuild.pc = "write"
    BY <1>7 DEF RebuildWrite, CoverInv
  <2>5. CASE batch = rebuild.left
    <3>1. Upto(read) \subseteq Indexed'
      BY <2>3, <2>4, <2>5
    <3>2. /\ rebuild'.pc = IF IsLast(rebuild.page) THEN "done" ELSE "read"
          /\ rebuild'.base = rebuild.base /\ rebuild'.offset = read
          /\ rebuild'.page = {} /\ rebuild'.left = {}
      BY <2>1, <2>5 DEF PageDone, TypeOK, Rebuild
    <3>3. CASE IsLast(rebuild.page)
      <4>1. rebuild'.pc = "done"
        BY <3>2, <3>3
      <4>2. RebuildCovers'
        BY <2>4, <3>1, <3>2, <3>3 DEF RebuildCovers, Indexed
      <4> QED
        BY <1>2, <1>3, <2>4, <3>2, <4>1, <4>2 DEF CoverInv
    <3>4. CASE ~IsLast(rebuild.page)
      <4>1. rebuild'.pc = "read"
        BY <3>2, <3>4
      <4>2. (rebuild.offset + Cardinality(rebuild.page))' = read
        <5>1. read \in Nat
          BY <1>1, DocsAreFinite
        <5> QED
          BY <3>2, <5>1, FS_EmptySet
      <4> HIDE DEF read
      <4>3. (Upto(rebuild.offset + Cardinality(rebuild.page)))' = Upto(read)
        BY <4>2, <1>2 DEF Upto
      <4> QED
        BY <1>2, <1>3, <2>4, <3>1, <3>2, <4>1, <4>2, <4>3 DEF CoverInv, RebuildCovers
    <3> QED
      BY <3>3, <3>4
  <2>6. CASE batch # rebuild.left
    <3>1. /\ rebuild'.pc = "write" /\ rebuild'.base = rebuild.base
          /\ rebuild'.offset = rebuild.offset
          /\ rebuild'.page = rebuild.page /\ rebuild'.left = rebuild.left \ batch
      BY <2>1, <2>4, <2>6 DEF TypeOK, Rebuild
    <3>2. Upto(read) \subseteq Indexed' \cup SongsOf(rebuild'.left)
      <4>1. SongsOf(rebuild.left) \subseteq SongsOf(batch) \cup SongsOf(rebuild'.left)
        BY <3>1 DEF SongsOf
      <4> QED
        BY <4>1, <2>3, <2>4
    <3> QED
      BY <1>2, <1>3, <1>4, <2>4, <3>1, <3>2 DEF CoverInv, RebuildCovers
  <2> QED
    BY <2>5, <2>6
<1>8. CASE RebuildFails
  <2>1. rebuild'.pc = "failed" /\ rebuild'.base = rebuild.base /\ UNCHANGED table
    BY <1>8 DEF RebuildFails, TypeOK, Rebuild
  <2> QED
    BY <2>1, NoRebuildNoCover DEF CoverInv
<1> QED
  BY <1>5, <1>6, <1>7, <1>8 DEF RebuildNext

-----------------------------------------------------------------------------
LEMMA InitCover == Init => CoverInv
<1> SUFFICES ASSUME Init PROVE CoverInv
  OBVIOUS
<1>1. InTable = {} /\ Cardinality(InTable) = 0
  BY FS_EmptySet DEF Init, InTable
<1> QED
  BY <1>1 DEF Init, CoverInv, RanksInv, RebuildCovers, NoRebuild

LEMMA NextCover ==
  ASSUME TypeOK, CoverInv, [Next]_vars
  PROVE  CoverInv'
BY WorldKeepsCover, SchedKeepsCover, CliStoreKeepsCover, ServerKeepsCover, RebuildKeepsCover
   DEF Next, ServerNext

\* In every reachable state the rows are numbered without gaps, and the rebuild
\* has dealt with the first of them.
THEOREM CoverInvariance == Spec => []CoverInv
<1>1. SearchInv => TypeOK
  BY DEF SearchInv
<1>2. TypeOK /\ CoverInv /\ [Next]_vars => CoverInv'
  BY NextCover
<1> QED
  BY <1>1, <1>2, InitCover, SearchInductive, PTL DEF Spec

\* A rebuild that ends well has indexed every row that was in the table when it
\* began.
THEOREM RebuildIsComplete == Spec => []RebuildCovers
<1>1. CoverInv => RebuildCovers
  BY DEF CoverInv
<1> QED
  BY <1>1, CoverInvariance, PTL

USE SongSearchAssumption

-----------------------------------------------------------------------------
(* A system that is searched is a system that is not, as far as the index  *)
(* and the table go.                                                       *)

LEMMA SearchStepIsStep == [SearchNext]_<<vars, ask>> => [Next]_vars
<1>1. AskNext => UNCHANGED vars
  BY DEF AskNext, StartSearch, BleveSearch, BleveFails, Lookup, LookupFails,
         SqlSearch, SqlFails, Reply
<1>2. ServerStep => Next
  BY DEF ServerStep, Next
<1> QED
  BY <1>1, <1>2 DEF SearchNext, Next

\* Requests leave the table and the index alone.
THEOREM SearchImplementsIndex == SearchSpec => Spec
<1>1. SearchInit => Init
  BY DEF SearchInit
<1> QED
  BY <1>1, SearchStepIsStep, PTL DEF SearchSpec, Spec

-----------------------------------------------------------------------------
(* Hits.                                                                   *)

\* What FindByTjNumbers makes of hits that are all rows.
LEMMA AllAreFound ==
  ASSUME NEW hits \in Seq(Songs), ToSet(hits) \subseteq InTable
  PROVE  FindByTjNumbers(hits) = hits
<1>1. {i \in DOMAIN hits : hits[i] \in InTable} = DOMAIN hits
  BY DEF ToSet
<1> QED
  BY <1>1, SubsequenceOfAll DEF FindByTjNumbers

\* The hits of the index are rows.
LEMMA HitsAreRows ==
  ASSUME IndexedIsStored, NEW q \in SUBSET Doc
  PROVE  Matches(q, index) \subseteq InTable
<1> SUFFICES ASSUME NEW s \in Songs, [song |-> s, version |-> index[s]] \in q
             PROVE  s \in InTable
  BY DEF Matches
<1>1. index[s] \in 1 .. MaxVersion
  BY DEF Doc
<1> QED
  BY <1>1 DEF IndexedIsStored

\* A ranking is a sequence of what was found.
LEMMA RankingsAreSequences ==
  ASSUME NEW found \in SUBSET Songs, NEW r \in Rankings(found)
  PROVE  r \in Seq(found)
<1>1. Cardinality(found) \in Nat
  BY FS_Subset, FS_CardinalityType
<1>2. Min({Limit, Cardinality(found)}) \in Nat
  <2> DEFINE S == {Limit, Cardinality(found)}
  <2>1. \E x \in S : \A y \in S : x <= y
    BY <1>1
  <2>2. Min(S) \in S
    BY <2>1 DEF Min
  <2> QED
    BY <2>2, <1>1
<1> DEFINE m == Min({Limit, Cardinality(found)})
<1>3. r \in [1 .. m -> found]
  BY DEF Rankings
<1> HIDE DEF m
<1>4. m \in Nat
  BY <1>2 DEF m
<1> QED
  BY <1>3, <1>4

LEMMA AskStepKeepsInv ==
  ASSUME IndexedIsStored, AskInv, AskNext
  PROVE  AskInv'
<1>0. <<>> \in Seq(Songs)
  OBVIOUS
<1>1. InTable' = InTable /\ (ask.query \in SUBSET Doc)
  <2>1. ask.query \in Queries \cup {{}}
    BY DEF AskInv, Ask
  <2>2. UNCHANGED place
    BY DEF AskNext, StartSearch, BleveSearch, BleveFails, Lookup, LookupFails,
           SqlSearch, SqlFails, Reply, vars
  <2> QED
    BY <2>1, <2>2 DEF InTable
<1>2. ASSUME NEW songs \in Seq(Songs), NEW of \in {"none", "index", "table"},
             of = "index" => songs = ask.hits, ask' = Answered(songs, of)
      PROVE  AskInv'
  <2>1. ask' \in Ask /\ ask'.pc = "answered" /\ ask'.hits = ask.hits
        /\ ask'.answer = songs /\ ask'.of = of
    BY <1>2 DEF AskInv, Ask, Answered
  <2> QED
    BY <2>1, <1>2 DEF AskInv, HitsAreAnswered
<1>3. ASSUME NEW q \in Queries, StartSearch(q)
      PROVE  AskInv'
  <2> DEFINE due == IF rebuild.pc = "failed" THEN Matches(q, stored) ELSE {}
  <2>1. due \in SUBSET Songs
    BY DEF Matches
  <2> HIDE DEF due
  <2>2. ask' = [NoAsk EXCEPT !.pc = IF engine THEN "bleve" ELSE "sql",
                             !.query = q, !.due = due]
    BY <1>3 DEF StartSearch, due
  <2>3. ask' \in Ask /\ ask'.pc \in {"bleve", "sql"} /\ ask'.hits = <<>>
    <3>1. ask' = [pc |-> IF engine THEN "bleve" ELSE "sql", query |-> q, hits |-> <<>>,
                  of |-> "none", answer |-> <<>>, due |-> due]
      BY <2>2 DEF NoAsk
    <3> QED
      BY <1>0, <2>1, <3>1 DEF Ask
  <2> QED
    BY <2>3 DEF AskInv, HitsAreAnswered
<1>4. CASE BleveSearch
  <2> DEFINE found == Matches(ask.query, index)
  <2>1. found \in SUBSET Songs /\ found \subseteq InTable
    BY <1>1, HitsAreRows DEF Matches
  <2>2. PICK hits \in Rankings(found) :
          ask' = IF hits = <<>> THEN Answered(<<>>, "index")
                 ELSE [ask EXCEPT !.pc = "lookup", !.hits = hits]
    BY <1>4 DEF BleveSearch
  <2> HIDE DEF found
  <2>3. hits \in Seq(found) /\ hits \in Seq(Songs)
    BY <2>1, RankingsAreSequences
  <2>4. ask.hits = <<>>
    BY <1>4 DEF BleveSearch, AskInv
  <2>5. CASE hits = <<>>
    <3>1. ask' = Answered(<<>>, "index")
      BY <2>2, <2>5
    <3> QED
      BY <1>0, <1>2, <2>4, <3>1
  <2>6. CASE hits # <<>>
    <3>1. ask' = [ask EXCEPT !.pc = "lookup", !.hits = hits]
      BY <2>2, <2>6
    <3>2. ask' \in Ask /\ ask'.pc = "lookup" /\ ask'.hits = hits
      BY <2>3, <3>1 DEF AskInv, Ask
    <3>3. ToSet(hits) \subseteq InTable
      BY <2>1, <2>3 DEF ToSet
    <3> QED
      BY <1>1, <3>2, <3>3 DEF AskInv, HitsAreAnswered
  <2> QED
    BY <2>5, <2>6
<1>5. CASE BleveFails
  <2>1. ask' \in Ask /\ ask'.pc = "sql"
    BY <1>5 DEF BleveFails, AskInv, Ask
  <2> QED
    BY <2>1 DEF AskInv, HitsAreAnswered
<1>6. CASE Lookup
  <2>1. ask.hits \in Seq(Songs) /\ ToSet(ask.hits) \subseteq InTable
    BY <1>6 DEF Lookup, AskInv, Ask
  <2>2. ask' = Answered(ask.hits, "index")
    BY <1>6, <2>1, AllAreFound DEF Lookup
  <2> QED
    BY <1>2, <2>1, <2>2
<1>7. CASE LookupFails
  <2>1. ask' \in Ask /\ ask'.pc = "sql"
    BY <1>0, <1>7 DEF LookupFails, AskInv, Ask
  <2> QED
    BY <2>1 DEF AskInv, HitsAreAnswered
<1>8. CASE SqlSearch
  <2> DEFINE found == Matches(ask.query, stored)
  <2>1. found \in SUBSET Songs
    BY DEF Matches
  <2>2. PICK rows \in Rankings(found) : ask' = Answered(rows, "table")
    BY <1>8 DEF SqlSearch
  <2> HIDE DEF found
  <2>3. rows \in Seq(Songs)
    BY <2>1, RankingsAreSequences
  <2> QED
    BY <1>2, <2>2, <2>3
<1>9. CASE SqlFails \/ Reply
  <2>1. ask' = NoAsk
    BY <1>9 DEF SqlFails, Reply
  <2> QED
    BY <2>1 DEF NoAsk, Ask, AskInv, HitsAreAnswered
<1> QED
  BY <1>3, <1>4, <1>5, <1>6, <1>7, <1>8, <1>9 DEF AskNext

\* Rows are never removed.
LEMMA RowsStay ==
  ASSUME TypeOK, [Next]_vars
  PROVE  InTable \subseteq InTable'
<1>1. CASE SchedStore
  <2>1. sched.todo \in SUBSET Doc
    BY DEF TypeOK, Sched
  <2> QED
    BY <1>1, <2>1, UpsertKeepsRows DEF SchedStore
<1>2. CASE CliStore
  BY <1>2, UpsertKeepsRows DEF CliStore, TypeOK
<1>3. CASE UNCHANGED place
  BY <1>3 DEF InTable
<1> QED
  BY <1>1, <1>2, <1>3
     DEF Next, ServerNext, vars, table, Publish, Rollover, CliFetch, CliStoreFails, RebuildNext,
         RebuildBegin, RebuildRead, RebuildWrite, RebuildFails, SchedNext, SchedFetch, SchedStoreFails,
         IndexSongs, SchedWrite, SchedWriteFails, SchedStop, StartServer, Shutdown, CloseIndex, Exit

LEMMA NextAskInv ==
  ASSUME SearchInv, AskInv, [SearchNext]_<<vars, ask>>
  PROVE  AskInv'
<1>1. TypeOK /\ IndexedIsStored
  BY DEF SearchInv
<1>2. CASE UNCHANGED ask
  <2>1. InTable \subseteq InTable'
    BY <1>1, SearchStepIsStep, RowsStay
  <2> QED
    BY <1>2, <2>1 DEF AskInv, HitsAreAnswered
<1>3. CASE ask' = NoAsk
  BY <1>3 DEF NoAsk, Ask, AskInv, HitsAreAnswered
<1>4. CASE AskNext
  BY <1>1, <1>4, AskStepKeepsInv
<1> QED
  BY <1>2, <1>3, <1>4 DEF SearchNext, ServerStep

\* A request's hits are rows until they are looked up.
THEOREM AskInvariance == SearchSpec => []AskInv
<1>1. SearchInit => AskInv
  BY DEF SearchInit, NoAsk, Ask, AskInv, HitsAreAnswered
<1>2. SearchSpec => []SearchInv
  BY SearchImplementsIndex, SearchInductive, PTL
<1>3. SearchInv /\ AskInv /\ [SearchNext]_<<vars, ask>> => AskInv'
  BY NextAskInv
<1> QED
  BY <1>1, <1>2, <1>3, PTL DEF SearchSpec

\* Every hit of the index is answered, in the order of the scores, whatever is
\* stored, indexed or restarted between the two questions.
THEOREM HitsAnswered == SearchSpec => []HitsAreAnswered
<1>1. AskInv => HitsAreAnswered
  BY DEF AskInv
<1> QED
  BY <1>1, AskInvariance, PTL
=============================================================================
