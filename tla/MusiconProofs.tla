--------------------------- MODULE MusiconProofs ---------------------------
(***************************************************************************)
(* Proofs about Musicon, for any number of devices, songs, handlers and    *)
(* cmd/fetch processes, any month, chunk size and faults.                  *)
(*                                                                         *)
(* Init and every step keep IndInv; type correctness, SettledWasPushed and *)
(* PushedSongIsStored are conjuncts of it or follow from it.  From it too: *)
(* who may change a reservation, what the scheduler may push when it is    *)
(* alone, and that the service implements ReservationLedger.               *)
(***************************************************************************)
EXTENDS Musicon, TLAPS

-----------------------------------------------------------------------------
(* The SQL statements keep the types of the tables.                        *)

\* A row created by INSERT: the new id is the only one that changes hands.
LEMMA InsertType ==
  ASSUME StoreTypeOK, NEW d \in Devices, NEW t \in Terms, InsertReservation(d, t)
  PROVE  /\ StoreTypeOK'
         /\ nextId' = nextId + 1
         /\ DOMAIN reservations' = DOMAIN reservations \cup {nextId}
         /\ \A r \in DOMAIN reservations : reservations'[r] = reservations[r]
         /\ reservations'[nextId].device = d
         /\ ~Settled(reservations'[nextId])
<1> USE StoreAssumption
<1> DEFINE new == [device |-> d, artist |-> t.artist, title |-> t.title,
                   status |-> "active", song |-> NoSong, notified |-> FALSE]
<1>1. new \in Row
  BY DEF Row, Terms
<1>2. DOMAIN reservations' = DOMAIN reservations \cup {nextId}
  BY DEF InsertReservation
<1>3. \A r \in DOMAIN reservations : reservations'[r] = reservations[r]
  BY DEF InsertReservation, StoreTypeOK
<1>4. reservations'[nextId] = new
  BY DEF InsertReservation
<1>5. nextId' = nextId + 1 /\ nextId' \in 1 .. MaxReservations + 1
  BY DEF InsertReservation, StoreTypeOK
<1>6. DOMAIN reservations' \subseteq 1 .. nextId' - 1
  BY <1>2, <1>5 DEF StoreTypeOK
<1>7. reservations' \in [DOMAIN reservations' -> Row]
  <2>1. \A r \in DOMAIN reservations' : reservations'[r] \in Row
    BY <1>1, <1>2, <1>3, <1>4 DEF StoreTypeOK
  <2>2. reservations' = [r \in DOMAIN reservations' |-> reservations'[r]]
    BY <1>2 DEF InsertReservation
  <2> QED
    BY <2>1, <2>2
<1>8. ~Settled(reservations'[nextId])
  BY <1>4 DEF Settled
<1>9. /\ devices' \subseteq Devices
      /\ notifications' \subseteq ResIds \X (Songs \cup {ZeroId})
      /\ songs' \subseteq Songs
  BY DEF InsertReservation, StoreTypeOK
<1> QED
  BY <1>2, <1>3, <1>4, <1>5, <1>6, <1>7, <1>8, <1>9 DEF StoreTypeOK

\* An UPDATE by id changes no other row and no other table.
LEMMA UpdateRowType ==
  ASSUME StoreTypeOK, NEW r, NEW row, Exists(r) => row \in Row, UpdateRow(r, row)
  PROVE  /\ StoreTypeOK'
         /\ DOMAIN reservations' = DOMAIN reservations
         /\ \A q \in DOMAIN reservations :
              reservations'[q] = IF q = r THEN row ELSE reservations[q]
         /\ UNCHANGED <<devices, nextId, notifications, songs>>
  BY DEF StoreTypeOK, UpdateRow, Exists

\* A DELETE takes one row away and at most some of its notification rows.
LEMMA DeleteType ==
  ASSUME StoreTypeOK, NEW r, NEW fk \in BOOLEAN, DeleteReservation(r, fk)
  PROVE  /\ StoreTypeOK'
         /\ DOMAIN reservations' = DOMAIN reservations \ {r}
         /\ \A q \in DOMAIN reservations \ {r} : reservations'[q] = reservations[q]
         /\ notifications' \subseteq notifications
         /\ UNCHANGED <<devices, nextId, songs>>
<1>1. /\ DOMAIN reservations' = DOMAIN reservations \ {r}
      /\ \A q \in DOMAIN reservations \ {r} : reservations'[q] = reservations[q]
      /\ notifications' \subseteq notifications
      /\ UNCHANGED <<devices, nextId, songs>>
  BY DEF DeleteReservation
<1>2. reservations' \in [DOMAIN reservations' -> Row]
  BY DEF DeleteReservation, StoreTypeOK
<1> QED
  BY <1>1, <1>2 DEF StoreTypeOK

\* INSERT OR IGNORE adds at most the one row it names.
LEMMA RecordType ==
  ASSUME StoreTypeOK, NEW r \in ResIds, NEW id \in Songs \cup {ZeroId},
         NEW fk \in BOOLEAN, RecordNotification(r, id, fk)
  PROVE  /\ StoreTypeOK'
         /\ notifications' \subseteq notifications \cup {<<r, id>>}
         /\ UNCHANGED <<devices, reservations, nextId, songs>>
<1>1. notifications' \subseteq notifications \cup {<<r, id>>}
  BY DEF RecordNotification
<1>2. UNCHANGED <<devices, reservations, nextId, songs>>
  BY DEF RecordNotification
<1>3. <<r, id>> \in ResIds \X (Songs \cup {ZeroId})
  OBVIOUS
<1>4. notifications' \subseteq ResIds \X (Songs \cup {ZeroId})
  BY <1>1, <1>3 DEF StoreTypeOK
<1> QED
  BY <1>1, <1>2, <1>4 DEF StoreTypeOK
-----------------------------------------------------------------------------
(* Steps that leave most of the invariant alone.                           *)

\* A step of pipeline p that keeps what is stored and pushed, creates, removes
\* or hands over no reservation, and leaves p itself in order.
LEMMA PipelineStep ==
  ASSUME IndInv, NEW p \in Procs,
         StoreTypeOK', UNCHANGED <<nextId, now, listed, req>>,
         DOMAIN reservations' = DOMAIN reservations,
         \A r \in DOMAIN reservations : reservations'[r].device = reservations[r].device,
         songs \subseteq songs', pushed \subseteq pushed', pushed' \subseteq ResIds \X Songs,
         run' = [run EXCEPT ![p] = run'[p]], run'[p] \in Run,
         RunInv(run[p])', PushedInv', SettledWasPushed'
  PROVE  IndInv'
<1>1. TypeOK'
  BY DEF IndInv, TypeOK, MatchingTypeOK, ApiTypeOK
<1>2. ASSUME NEW q \in Procs PROVE RunInv(run[q])'
  <2>1. CASE q = p
    BY <2>1
  <2>2. CASE q # p
    <3>1. run'[q] = run[q] /\ RunInv(run[q])
      BY <2>2 DEF IndInv, TypeOK, MatchingTypeOK
    <3> QED
      BY <3>1 DEF RunInv
  <2> QED
    BY <2>1, <2>2
<1>3. ReqInv'
  BY DEF IndInv, ReqInv, Exists
<1> QED
  BY <1>1, <1>2, <1>3 DEF IndInv

\* The same for a step that leaves the reservations alone.
LEMMA QuietStep ==
  ASSUME IndInv, NEW p \in Procs,
         UNCHANGED <<devices, reservations, nextId, notifications, now, listed, req>>,
         songs \subseteq songs', songs' \subseteq Songs,
         pushed \subseteq pushed', pushed' \subseteq ResIds \X Songs,
         run' = [run EXCEPT ![p] = run'[p]], run'[p] \in Run,
         RunInv(run[p])', PushedInv'
  PROVE  IndInv'
<1>1. StoreTypeOK'
  BY DEF IndInv, TypeOK, StoreTypeOK
<1>2. SettledWasPushed'
  BY DEF IndInv, SettledWasPushed, Pairs, Exists
<1> QED
  BY <1>1, <1>2, PipelineStep

\* A step that leaves the pipelines and what was pushed alone, gives no id
\* back and forgets no song.
LEMMA RunsKept ==
  ASSUME IndInv, UNCHANGED <<run, pushed>>, StoreTypeOK',
         nextId <= nextId', songs \subseteq songs'
  PROVE  (\A p \in Procs : RunInv(run[p]))' /\ PushedInv'
<1>1. nextId \in Int /\ nextId' \in Int
  BY DEF IndInv, TypeOK, StoreTypeOK
<1>2. PushedInv'
  <2>1. \A x \in pushed : x[1] \in Int
    BY DEF IndInv, TypeOK, MatchingTypeOK, ResIds
  <2> QED
    BY <1>1, <2>1 DEF IndInv, PushedInv
<1>3. ASSUME NEW p \in Procs PROVE RunInv(run[p])'
  <2>1. run[p] \in Run /\ RunInv(run[p]) /\ run'[p] = run[p]
    BY DEF IndInv, TypeOK, MatchingTypeOK
  <2>2. \A m \in run[p].todo : m.res \in Int
    BY <2>1 DEF Run, Match, ResIds
  <2>3. \A i \in 1 .. Len(run[p].matches) : run[p].matches[i].res \in Int
    <3>1. run[p].matches \in Seq(Match)
      BY <2>1 DEF Run
    <3>2. \A i \in 1 .. Len(run[p].matches) : run[p].matches[i] \in Match
      BY <3>1
    <3> QED
      BY <3>2 DEF Match, ResIds
  <2> QED
    BY <1>1, <2>1, <2>2, <2>3 DEF RunInv
<1> QED
  BY <1>2, <1>3

-----------------------------------------------------------------------------
(* The initial state and the API.                                          *)

LEMMA InitInv == Init => IndInv
<1> SUFFICES ASSUME Init PROVE IndInv
  OBVIOUS
<1> USE DEF Init, StoreInit, MatchingInit, ApiInit
<1>1. IdleRun \in Run
  BY DEF IdleRun, Run
<1>2. StoreTypeOK
  BY StoreAssumption DEF StoreTypeOK
<1>3. MatchingTypeOK
  BY <1>1, MatchingAssumption DEF MatchingTypeOK
<1>4. ApiTypeOK
  BY DEF ApiTypeOK
<1>5. \A p \in Procs : RunInv(run[p])
  BY DEF RunInv, IdleRun
<1>6. ReqInv /\ PushedInv /\ SettledWasPushed
  BY DEF ReqInv, PushedInv, SettledWasPushed, Exists
<1> QED
  BY <1>2, <1>3, <1>4, <1>5, <1>6 DEF IndInv, TypeOK

LEMMA RegisterInv ==
  ASSUME IndInv, NEW d \in Devices, Register(d), UNCHANGED <<now, listed, pushed, run>>
  PROVE  IndInv'
<1>1. StoreTypeOK' /\ UNCHANGED <<reservations, nextId, notifications, songs, req>>
  BY DEF IndInv, TypeOK, StoreTypeOK, Register, UpsertDevice
<1>2. (\A p \in Procs : RunInv(run[p]))' /\ PushedInv'
  BY <1>1, RunsKept DEF IndInv, TypeOK, StoreTypeOK
<1>3. TypeOK'
  BY <1>1 DEF IndInv, TypeOK, MatchingTypeOK, ApiTypeOK
<1>4. ReqInv' /\ SettledWasPushed'
  BY <1>1 DEF IndInv, ReqInv, SettledWasPushed, Pairs, Exists
<1> QED
  BY <1>2, <1>3, <1>4 DEF IndInv

LEMMA CreateInv ==
  ASSUME IndInv, NEW d \in Devices, NEW t \in Terms, Create(d, t),
         UNCHANGED <<now, listed, pushed, run>>
  PROVE  IndInv'
<1>1. /\ StoreTypeOK'
      /\ nextId' = nextId + 1
      /\ DOMAIN reservations' = DOMAIN reservations \cup {nextId}
      /\ \A r \in DOMAIN reservations : reservations'[r] = reservations[r]
      /\ ~Settled(reservations'[nextId])
      /\ UNCHANGED <<notifications, songs, req>>
  BY InsertType DEF IndInv, TypeOK, Create, InsertReservation
<1>2. nextId \in Nat
  BY DEF IndInv, TypeOK, StoreTypeOK
<1>3. (\A p \in Procs : RunInv(run[p]))' /\ PushedInv'
  BY <1>1, <1>2, RunsKept
<1>4. TypeOK'
  BY <1>1 DEF IndInv, TypeOK, MatchingTypeOK, ApiTypeOK
<1>5. ReqInv'
  <2> SUFFICES ASSUME NEW h \in Handlers, req[h] # NoReq
               PROVE  /\ req[h].res < nextId'
                      /\ req[h].res \in DOMAIN reservations' =>
                           reservations'[req[h].res].device = req[h].device
    BY <1>1 DEF ReqInv, Exists
  <2>1. req[h].res < nextId /\ req[h].res \in Nat
    BY DEF IndInv, ReqInv, TypeOK, ApiTypeOK, Request, ResIds
  <2> QED
    BY <1>1, <1>2, <2>1 DEF IndInv, ReqInv, Exists
<1>6. SettledWasPushed'
  BY <1>1 DEF IndInv, SettledWasPushed, Pairs, Exists, Settled
<1> QED
  BY <1>3, <1>4, <1>5, <1>6 DEF IndInv

LEMMA CheckInv ==
  ASSUME IndInv, NEW h \in Handlers, NEW rq \in Request, Check(h, rq),
         UNCHANGED <<now, listed, pushed, run>>
  PROVE  IndInv'
<1>1. UNCHANGED storeVars
  BY DEF Check
<1>2. StoreTypeOK'
  BY <1>1 DEF storeVars, IndInv, TypeOK, StoreTypeOK
<1>3. (\A p \in Procs : RunInv(run[p]))' /\ PushedInv'
  BY <1>1, <1>2, RunsKept DEF storeVars, IndInv, TypeOK, StoreTypeOK
<1>4. req' \in [Handlers -> Request \cup {NoReq}]
  BY DEF Check, IndInv, TypeOK, ApiTypeOK
<1>5. TypeOK'
  BY <1>2, <1>4 DEF IndInv, TypeOK, MatchingTypeOK, ApiTypeOK
<1>6. ReqInv'
  <2>1. rq.res < nextId /\ reservations[rq.res].device = rq.device
    BY DEF Check, Exists, IndInv, TypeOK, StoreTypeOK
  <2>2. \A k \in Handlers : req'[k] = IF k = h THEN rq ELSE req[k]
    BY DEF Check, IndInv, TypeOK, ApiTypeOK
  <2> QED
    BY <1>1, <2>1, <2>2 DEF IndInv, ReqInv, Exists, storeVars
<1>7. SettledWasPushed'
  BY <1>1 DEF IndInv, SettledWasPushed, Pairs, Exists, storeVars
<1> QED
  BY <1>3, <1>5, <1>6, <1>7 DEF IndInv

\* What an answered request leaves of req.
LEMMA AnswerType ==
  ASSUME ApiTypeOK, NEW h \in Handlers, Answer(h)
  PROVE  /\ ApiTypeOK'
         /\ \A k \in Handlers : req'[k] = IF k = h THEN NoReq ELSE req[k]
  BY DEF ApiTypeOK, Answer

LEMMA ApplyUpdateInv ==
  ASSUME IndInv, NEW h \in Handlers, ApplyUpdate(h),
         UNCHANGED <<now, listed, pushed, run>>
  PROVE  IndInv'
<1> DEFINE r == req[h].res
           row == [reservations[r] EXCEPT !.artist = req[h].terms.artist,
                                          !.title = req[h].terms.title]
<1>1. req[h] \in Request /\ req[h].terms \in Terms
  BY DEF ApplyUpdate, IndInv, TypeOK, ApiTypeOK, Request
<1>2. Exists(r) => reservations[r] \in Row
  BY DEF IndInv, TypeOK, StoreTypeOK, Exists
<1>3. Exists(r) => /\ row \in Row
                   /\ row.device = reservations[r].device
                   /\ Settled(row) = Settled(reservations[r])
  BY <1>1, <1>2 DEF Row, Terms, Settled
<1>4. UpdateRow(r, row)
  BY DEF ApplyUpdate, UpdateTerms
<1> HIDE DEF r, row
<1>5. /\ StoreTypeOK'
      /\ DOMAIN reservations' = DOMAIN reservations
      /\ \A q \in DOMAIN reservations :
           reservations'[q] = IF q = r THEN row ELSE reservations[q]
      /\ UNCHANGED <<devices, nextId, notifications, songs>>
  BY <1>3, <1>4, UpdateRowType DEF IndInv, TypeOK
<1>6. /\ ApiTypeOK'
      /\ \A k \in Handlers : req'[k] = IF k = h THEN NoReq ELSE req[k]
  BY AnswerType DEF ApplyUpdate, IndInv, TypeOK
<1>7. (\A p \in Procs : RunInv(run[p]))' /\ PushedInv'
  BY <1>5, RunsKept DEF IndInv, TypeOK, StoreTypeOK
<1>8. TypeOK'
  BY <1>5, <1>6 DEF IndInv, TypeOK, MatchingTypeOK
<1>9. ReqInv'
  BY <1>3, <1>5, <1>6 DEF IndInv, ReqInv, Exists
<1>10. SettledWasPushed'
  <2>1. \A q \in DOMAIN reservations :
          Settled(reservations'[q]) = Settled(reservations[q])
    BY <1>3, <1>5 DEF Exists
  <2> QED
    BY <1>5, <2>1 DEF IndInv, SettledWasPushed, Pairs, Exists, Settled
<1> QED
  BY <1>7, <1>8, <1>9, <1>10 DEF IndInv

LEMMA ApplyDeleteInv ==
  ASSUME IndInv, NEW h \in Handlers, ApplyDelete(h),
         UNCHANGED <<now, listed, pushed, run>>
  PROVE  IndInv'
<1>1. PICK fk \in BOOLEAN : DeleteReservation(req[h].res, fk)
  BY DEF ApplyDelete
<1>2. /\ StoreTypeOK'
      /\ DOMAIN reservations' = DOMAIN reservations \ {req[h].res}
      /\ \A q \in DOMAIN reservations \ {req[h].res} : reservations'[q] = reservations[q]
      /\ notifications' \subseteq notifications
      /\ UNCHANGED <<devices, nextId, songs>>
  BY <1>1, DeleteType DEF IndInv, TypeOK
<1>3. /\ ApiTypeOK'
      /\ \A k \in Handlers : req'[k] = IF k = h THEN NoReq ELSE req[k]
  BY AnswerType DEF ApplyDelete, IndInv, TypeOK
<1>4. (\A p \in Procs : RunInv(run[p]))' /\ PushedInv'
  BY <1>2, RunsKept DEF IndInv, TypeOK, StoreTypeOK
<1>5. TypeOK'
  BY <1>2, <1>3 DEF IndInv, TypeOK, MatchingTypeOK
<1>6. ReqInv'
  BY <1>2, <1>3 DEF IndInv, ReqInv, Exists
<1>7. SettledWasPushed'
  BY <1>2 DEF IndInv, SettledWasPushed, Pairs, Exists, Settled
<1> QED
  BY <1>4, <1>5, <1>6, <1>7 DEF IndInv

LEMMA ApplyFailsInv ==
  ASSUME IndInv, NEW h \in Handlers, ApplyFails(h),
         UNCHANGED <<now, listed, pushed, run>>
  PROVE  IndInv'
<1>1. UNCHANGED storeVars
  BY DEF ApplyFails
<1>2. StoreTypeOK'
  BY <1>1 DEF storeVars, IndInv, TypeOK, StoreTypeOK
<1>3. /\ ApiTypeOK'
      /\ \A k \in Handlers : req'[k] = IF k = h THEN NoReq ELSE req[k]
  BY AnswerType DEF ApplyFails, IndInv, TypeOK
<1>4. (\A p \in Procs : RunInv(run[p]))' /\ PushedInv'
  BY <1>1, <1>2, RunsKept DEF storeVars, IndInv, TypeOK, StoreTypeOK
<1>5. TypeOK'
  BY <1>2, <1>3 DEF IndInv, TypeOK, MatchingTypeOK
<1>6. ReqInv' /\ SettledWasPushed'
  BY <1>1, <1>3 DEF IndInv, ReqInv, SettledWasPushed, Pairs, Exists, storeVars
<1> QED
  BY <1>4, <1>5, <1>6 DEF IndInv

LEMMA ApiInv ==
  ASSUME IndInv, ApiNext, UNCHANGED <<now, listed, pushed, run>>
  PROVE  IndInv'
  BY RegisterInv, CreateInv, CheckInv, ApplyUpdateInv, ApplyDeleteInv,
     ApplyFailsInv DEF ApiNext
-----------------------------------------------------------------------------
(* The pipeline, up to the push.                                           *)

LEMMA IdleRunType == IdleRun \in Run
  BY DEF IdleRun, Run

\* What the invariant says of one pipeline.
LEMMA RunFacts ==
  ASSUME IndInv, NEW p \in Procs
  PROVE  /\ run[p] \in Run
         /\ RunInv(run[p])
         /\ run[p].matches \in Seq(Match)
         /\ \A i \in 1 .. Len(run[p].matches) : run[p].matches[i] \in Match
<1>1. run[p] \in Run /\ RunInv(run[p])
  BY DEF IndInv, TypeOK, MatchingTypeOK
<1>2. run[p].matches \in Seq(Match)
  BY <1>1 DEF Run
<1> QED
  BY <1>1, <1>2

\* run' as a function, for a step that rewrites the record of p.
LEMMA RunUpdate ==
  ASSUME IndInv, NEW p \in Procs, NEW rn, run' = [run EXCEPT ![p] = rn]
  PROVE  run'[p] = rn /\ run' = [run EXCEPT ![p] = run'[p]]
  BY DEF IndInv, TypeOK, MatchingTypeOK

\* A pipeline that gives up: fetch, lookup or push failed, or nothing matched.
LEMMA GiveUpInv ==
  ASSUME IndInv, NEW p \in Procs, run' = [run EXCEPT ![p] = IdleRun],
         UNCHANGED <<storeVars, worldVars, req>>,
         pushed \subseteq pushed', pushed' \subseteq ResIds \X Songs, PushedInv'
  PROVE  IndInv'
<1>1. run'[p] = IdleRun /\ run' = [run EXCEPT ![p] = run'[p]]
  BY RunUpdate
<1>2. run'[p] \in Run
  BY <1>1, IdleRunType
<1>3. RunInv(run[p])'
  BY <1>1 DEF RunInv, IdleRun
<1>4. songs' \subseteq Songs /\ songs \subseteq songs'
  BY DEF storeVars, IndInv, TypeOK, StoreTypeOK
<1> QED
  BY <1>1, <1>2, <1>3, <1>4, QuietStep DEF storeVars, worldVars

\* PushedInv does not look at what a step that pushes nothing changes.
LEMMA PushedKept ==
  ASSUME IndInv, UNCHANGED <<pushed, nextId>>, songs \subseteq songs'
  PROVE  PushedInv' /\ pushed' \subseteq ResIds \X Songs
  BY DEF IndInv, PushedInv, TypeOK, MatchingTypeOK

LEMMA StartInv ==
  ASSUME IndInv, NEW p \in Procs, Start(p), UNCHANGED req
  PROVE  IndInv'
<1>1. PICK plan \in Plans(p) :
        run' = [run EXCEPT ![p] = [IdleRun EXCEPT !.pc = "fetch", !.months = plan]]
  BY DEF Start
<1>2. plan \subseteq 1 .. MaxMonth
  BY MatchingAssumption DEF Plans, IndInv, TypeOK, MatchingTypeOK
<1>3. /\ run'[p] = [IdleRun EXCEPT !.pc = "fetch", !.months = plan]
      /\ run' = [run EXCEPT ![p] = run'[p]]
  BY <1>1, RunUpdate
<1>4. run'[p] \in Run
  BY <1>2, <1>3, IdleRunType DEF Run
<1>5. RunInv(run[p])'
  BY <1>3 DEF RunInv, IdleRun
<1>6. PushedInv' /\ pushed' \subseteq ResIds \X Songs /\ songs' \subseteq Songs
  BY PushedKept DEF Start, storeVars, IndInv, TypeOK, StoreTypeOK
<1> QED
  BY <1>3, <1>4, <1>5, <1>6, QuietStep DEF Start, storeVars, worldVars

\* A month dealt with leaves the pipeline in order, if what it found is stored.
LEMMA FetchedInv ==
  ASSUME IndInv, NEW p \in Procs,
         NEW months \in SUBSET (1 .. MaxMonth), NEW found \in SUBSET Songs,
         found \subseteq songs', songs \subseteq songs', songs' \subseteq Songs,
         run' = [run EXCEPT ![p] = Fetched(months, found)],
         UNCHANGED <<devices, reservations, nextId, notifications, worldVars, pushed, req>>
  PROVE  IndInv'
<1>1. run'[p] = Fetched(months, found) /\ run' = [run EXCEPT ![p] = run'[p]]
  BY RunUpdate
<1>2. run'[p] \in Run
  <2>1. CASE months # {}
    <3>1. run'[p] = [IdleRun EXCEPT !.pc = "fetch", !.months = months, !.found = found]
      BY <1>1, <2>1 DEF Fetched
    <3> QED
      BY <3>1, IdleRunType DEF Run
  <2>2. CASE months = {} /\ found # {}
    <3>1. run'[p] = [IdleRun EXCEPT !.pc = "snapshot", !.found = found]
      BY <1>1, <2>2 DEF Fetched
    <3> QED
      BY <3>1, IdleRunType DEF Run
  <2>3. CASE months = {} /\ found = {}
    BY <1>1, <2>3, IdleRunType DEF Fetched
  <2> QED
    BY <2>1, <2>2, <2>3
<1>3. /\ run'[p].found \subseteq songs'
      /\ run'[p].todo = {} /\ run'[p].matches = <<>> /\ run'[p].done = 0
      /\ run'[p].pc \in {"idle", "fetch", "snapshot"}
  <2>1. CASE months # {}
    <3>1. run'[p] = [IdleRun EXCEPT !.pc = "fetch", !.months = months, !.found = found]
      BY <1>1, <2>1 DEF Fetched
    <3> QED
      BY <3>1 DEF IdleRun
  <2>2. CASE months = {} /\ found # {}
    <3>1. run'[p] = [IdleRun EXCEPT !.pc = "snapshot", !.found = found]
      BY <1>1, <2>2 DEF Fetched
    <3> QED
      BY <3>1 DEF IdleRun
  <2>3. CASE months = {} /\ found = {}
    BY <1>1, <2>3 DEF Fetched, IdleRun
  <2> QED
    BY <2>1, <2>2, <2>3
<1>4. RunInv(run[p])'
  BY <1>3 DEF RunInv
<1>5. PushedInv' /\ pushed' \subseteq ResIds \X Songs
  BY PushedKept
<1> QED
  BY <1>1, <1>2, <1>4, <1>5, QuietStep DEF worldVars

LEMMA FetchMonthInv ==
  ASSUME IndInv, NEW p \in Procs, FetchMonth(p), UNCHANGED req
  PROVE  IndInv'
<1>1. PICK m \in run[p].months :
        LET batch == {s \in listed : MonthOf[s] = m}
        IN  /\ UpsertMany(batch)
            /\ run' = [run EXCEPT ![p] =
                         Fetched(run[p].months \ {m}, run[p].found \cup batch)]
            /\ UNCHANGED <<worldVars, pushed>>
  BY DEF FetchMonth
<1> DEFINE batch == {s \in listed : MonthOf[s] = m}
           months == run[p].months \ {m}
           found == run[p].found \cup batch
<1>2. batch \subseteq Songs /\ songs' = songs \cup batch /\ songs \subseteq Songs
  BY <1>1 DEF UpsertMany, IndInv, TypeOK, StoreTypeOK, MatchingTypeOK
<1>3. months \subseteq 1 .. MaxMonth /\ run[p].found \subseteq songs
  BY RunFacts DEF Run, RunInv
<1>4. found \subseteq songs' /\ songs' \subseteq Songs /\ songs \subseteq songs'
  BY <1>2, <1>3
<1>5. UNCHANGED <<devices, reservations, nextId, notifications, worldVars, pushed>>
  BY <1>1 DEF UpsertMany
<1>6. run' = [run EXCEPT ![p] = Fetched(months, found)]
  BY <1>1
<1> HIDE DEF batch, months, found
<1> QED
  BY <1>3, <1>4, <1>5, <1>6, FetchedInv

LEMMA FetchFailsInv ==
  ASSUME IndInv, NEW p \in Procs, FetchFails(p), UNCHANGED req
  PROVE  IndInv'
<1>1. PICK m \in run[p].months :
        run' = [run EXCEPT ![p] = Fetched(run[p].months \ {m}, run[p].found)]
  BY DEF FetchFails
<1>2. UNCHANGED <<worldVars, pushed, storeVars>>
  BY DEF FetchFails
<1> DEFINE months == run[p].months \ {m}
           found == run[p].found
<1>3. months \subseteq 1 .. MaxMonth /\ found \subseteq songs /\ songs \subseteq Songs
  BY RunFacts DEF Run, RunInv, IndInv, TypeOK, StoreTypeOK
<1>4. run' = [run EXCEPT ![p] = Fetched(months, found)]
  BY <1>1
<1> HIDE DEF months, found
<1> QED
  BY <1>2, <1>3, <1>4, FetchedInv DEF storeVars

LEMMA SnapshotInv ==
  ASSUME IndInv, NEW p \in Procs, Snapshot(p), UNCHANGED req
  PROVE  IndInv'
<1> DEFINE todo == Candidates(run[p].found)
<1>1. UNCHANGED <<worldVars, pushed, storeVars>>
  BY DEF Snapshot
<1>2. PushedInv' /\ pushed' \subseteq ResIds \X Songs /\ songs' \subseteq Songs
  BY <1>1, PushedKept DEF storeVars, IndInv, TypeOK, StoreTypeOK
<1>3. CASE todo = {}
  <2>1. run' = [run EXCEPT ![p] = IdleRun]
    BY <1>3 DEF Snapshot
  <2> QED
    BY <1>1, <1>2, <2>1, GiveUpInv
<1>4. CASE todo # {}
  <2> DEFINE rn == [run[p] EXCEPT !.pc = "scan", !.todo = todo]
  <2>1. run' = [run EXCEPT ![p] = rn]
    BY <1>4 DEF Snapshot
  <2>2. run'[p] = rn /\ run' = [run EXCEPT ![p] = run'[p]]
    BY <2>1, RunUpdate
  <2>3. todo \subseteq Match
    BY DEF Candidates
  <2>4. run[p] \in Run /\ RunInv(run[p]) /\ run[p].pc = "snapshot"
    BY RunFacts DEF Snapshot
  <2>5. \A m \in todo : m.res < nextId /\ m.song \in songs
    BY <2>4 DEF Candidates, Exists, RunInv, IndInv, TypeOK, StoreTypeOK
  <2> HIDE DEF todo
  <2>6. run'[p] \in Run
    BY <2>2, <2>3, <2>4 DEF Run
  <2>7. RunInv(run[p])'
    BY <1>1, <2>2, <2>4, <2>5 DEF RunInv, storeVars, Run
  <2> QED
    BY <1>1, <1>2, <2>2, <2>6, <2>7, QuietStep DEF storeVars, worldVars
<1> QED
  BY <1>3, <1>4

\* The record of a pipeline after a match is looked at.
LEMMA ScannedType ==
  ASSUME NEW rn \in Run, NEW m, NEW ms \in Seq(Match)
  PROVE  Scanned(rn, m, ms) \in Run
<1>1. [rn EXCEPT !.todo = rn.todo \ {m}, !.matches = ms] \in Run
  BY DEF Run
<1>2. [rn EXCEPT !.pc = "send", !.todo = {}, !.matches = ms] \in Run
  BY DEF Run
<1> QED
  BY <1>1, <1>2, IdleRunType DEF Scanned

\* A match taken off the list, pushed later or not, leaves the pipeline in
\* order.
LEMMA ScannedInv ==
  ASSUME IndInv, NEW p \in Procs, NEW m, Turn(p, m), NEW ms,
         ms = run[p].matches \/ ms = Append(run[p].matches, m),
         run' = [run EXCEPT ![p] = Scanned(run[p], m, ms)],
         UNCHANGED <<worldVars, pushed, storeVars, req>>
  PROVE  IndInv'
<1>1. PushedInv' /\ pushed' \subseteq ResIds \X Songs /\ songs' \subseteq Songs
  BY PushedKept DEF storeVars, IndInv, TypeOK, StoreTypeOK
<1>2. /\ run'[p] = Scanned(run[p], m, ms)
      /\ run' = [run EXCEPT ![p] = run'[p]]
  BY RunUpdate
<1>3. run[p] \in Run
  BY RunFacts
<1>4. /\ RunInv(run[p])
      /\ run[p].pc = "scan" /\ run[p].done = 0
      /\ m \in run[p].todo /\ m \in Match
  BY RunFacts DEF Turn, Run, RunInv
<1>5. ms \in Seq(Match)
  BY <1>4, RunFacts
<1>6. \A i \in 1 .. Len(ms) : ms[i].res < nextId /\ ms[i].song \in songs
  <2>1. \A i \in 1 .. Len(ms) : ms[i] = m \/ (i \in 1 .. Len(run[p].matches)
                                                /\ ms[i] = run[p].matches[i])
    BY <1>4, RunFacts
  <2> QED
    BY <1>4, <2>1 DEF RunInv
<1>7. ms # <<>> => 0 < Len(ms)
  BY <1>5
<1>8. run'[p] \in Run
  BY <1>2, <1>3, <1>5, ScannedType
<1>9. RunInv(run[p])'
  <2>1. CASE run[p].todo \ {m} # {}
    <3>1. run'[p] = [run[p] EXCEPT !.todo = run[p].todo \ {m}, !.matches = ms]
      BY <1>2, <2>1 DEF Scanned
    <3>2. /\ run'[p].pc = run[p].pc /\ run'[p].done = run[p].done
          /\ run'[p].found = run[p].found
          /\ run'[p].todo = run[p].todo \ {m} /\ run'[p].matches = ms
      BY <1>3, <3>1 DEF Run
    <3> QED
      BY <1>4, <1>6, <3>2 DEF RunInv, storeVars
  <2>2. CASE run[p].todo \ {m} = {} /\ ms # <<>>
    <3>1. run'[p] = [run[p] EXCEPT !.pc = "send", !.todo = {}, !.matches = ms]
      BY <1>2, <2>2 DEF Scanned
    <3>2. /\ run'[p].pc = "send" /\ run'[p].done = run[p].done
          /\ run'[p].found = run[p].found
          /\ run'[p].todo = {} /\ run'[p].matches = ms
      BY <1>3, <3>1 DEF Run
    <3> QED
      BY <1>4, <1>5, <1>6, <1>7, <2>2, <3>2 DEF RunInv, storeVars
  <2>3. CASE run[p].todo \ {m} = {} /\ ms = <<>>
    <3>1. run'[p] = IdleRun
      BY <1>2, <2>3 DEF Scanned
    <3> QED
      BY <3>1 DEF RunInv, IdleRun
  <2> QED
    BY <2>1, <2>2, <2>3
<1> QED
  BY <1>1, <1>2, <1>8, <1>9, QuietStep DEF storeVars, worldVars

LEMMA ScanInv ==
  ASSUME IndInv, NEW p \in Procs, NEW m, Scan(p, m) \/ ScanFails(p, m), UNCHANGED req
  PROVE  IndInv'
<1>1. /\ Turn(p, m)
      /\ UNCHANGED <<worldVars, pushed, storeVars>>
  BY DEF Scan, ScanFails
<1>2. \E ms : /\ ms = run[p].matches \/ ms = Append(run[p].matches, m)
              /\ run' = [run EXCEPT ![p] = Scanned(run[p], m, ms)]
  BY DEF Scan, ScanFails
<1> QED
  BY <1>1, <1>2, ScannedInv
-----------------------------------------------------------------------------
(* The push.                                                               *)

\* A chunk takes the sending forward, and not past the last match.
LEMMA ChunkEndBounds ==
  ASSUME IndInv, NEW p \in Procs, run[p].pc = "send"
  PROVE  /\ run[p].done \in Nat /\ Len(run[p].matches) \in Nat
         /\ ChunkEnd(run[p]) \in Nat
         /\ run[p].done < ChunkEnd(run[p])
         /\ ChunkEnd(run[p]) <= Len(run[p].matches)
<1>1. run[p].done \in Nat /\ Len(run[p].matches) \in Nat
  BY RunFacts DEF Run
<1>2. run[p].done < Len(run[p].matches)
  BY RunFacts DEF RunInv
<1> QED
  BY <1>1, <1>2, MatchingAssumption DEF ChunkEnd

\* A chunk is about booked reservations and stored songs.
LEMMA ChunkFacts ==
  ASSUME IndInv, NEW p \in Procs, run[p].pc = "send"
  PROVE  /\ Chunk(run[p]) \subseteq ResIds \X Songs
         /\ \A x \in Chunk(run[p]) : x[1] < nextId /\ x[2] \in songs
<1>1. \A i \in run[p].done + 1 .. ChunkEnd(run[p]) : i \in 1 .. Len(run[p].matches)
  BY ChunkEndBounds
<1>2. \A i \in 1 .. Len(run[p].matches) :
        /\ run[p].matches[i].res \in ResIds
        /\ run[p].matches[i].song \in Songs
        /\ run[p].matches[i].res < nextId
        /\ run[p].matches[i].song \in songs
  BY RunFacts DEF Match, RunInv
<1> QED
  BY <1>1, <1>2 DEF Chunk

\* Accepted pairs added to the history keep it in order.
LEMMA PushInv ==
  ASSUME IndInv, NEW p \in Procs, run[p].pc = "send",
         pushed' = pushed \cup Chunk(run[p]), UNCHANGED storeVars
  PROVE  /\ pushed \subseteq pushed' /\ pushed' \subseteq ResIds \X Songs
         /\ PushedInv'
  BY ChunkFacts DEF IndInv, TypeOK, MatchingTypeOK, PushedInv, storeVars

LEMMA SendChunkInv ==
  ASSUME IndInv, NEW p \in Procs, SendChunk(p), UNCHANGED req
  PROVE  IndInv'
<1>1. run[p].pc = "send" /\ pushed' = pushed \cup Chunk(run[p])
  BY DEF SendChunk
<1>2. UNCHANGED <<worldVars, storeVars>>
  BY DEF SendChunk
<1>3. /\ pushed \subseteq pushed' /\ pushed' \subseteq ResIds \X Songs
      /\ PushedInv'
  BY <1>1, <1>2, PushInv
<1> DEFINE end == ChunkEnd(run[p])
           rn == IF end = Len(run[p].matches)
                 THEN [run[p] EXCEPT !.pc = "record", !.done = 0]
                 ELSE [run[p] EXCEPT !.done = end]
<1>4. run'[p] = rn /\ run' = [run EXCEPT ![p] = run'[p]]
  <2>1. run' = [run EXCEPT ![p] = rn]
    BY DEF SendChunk
  <2> QED
    BY <2>1, RunUpdate
<1>5. run[p] \in Run /\ end \in Nat
  BY RunFacts, ChunkEndBounds, <1>1
<1>6. run'[p] \in Run
  <2>1. [run[p] EXCEPT !.pc = "record", !.done = 0] \in Run
    BY <1>5 DEF Run
  <2>2. [run[p] EXCEPT !.done = end] \in Run
    BY <1>5 DEF Run
  <2> QED
    BY <1>4, <2>1, <2>2
<1>7. \A i \in 1 .. Len(run[p].matches) :
        i <= end => <<run[p].matches[i].res, run[p].matches[i].song>> \in pushed'
  <2> SUFFICES ASSUME NEW i \in 1 .. Len(run[p].matches), i <= end
               PROVE  <<run[p].matches[i].res, run[p].matches[i].song>> \in pushed'
    OBVIOUS
  <2>1. CASE i <= run[p].done
    BY <1>1, <1>3, <2>1, RunFacts DEF RunInv
  <2>2. CASE ~(i <= run[p].done)
    <3>1. i \in run[p].done + 1 .. end
      BY <1>1, <2>2, ChunkEndBounds
    <3> QED
      BY <1>1, <3>1 DEF Chunk
  <2> QED
    BY <2>1, <2>2
<1>8. RunInv(run[p])'
  <2> HIDE DEF end
  <2>1. CASE end = Len(run[p].matches)
    <3>1. /\ run'[p].pc = "record" /\ run'[p].done = 0
          /\ run'[p].found = run[p].found /\ run'[p].todo = run[p].todo
          /\ run'[p].matches = run[p].matches
      BY <1>4, <1>5, <2>1 DEF Run
    <3>2. 0 < Len(run[p].matches)
      BY <1>1, ChunkEndBounds
    <3>3. \A i \in 1 .. Len(run[p].matches) : i <= end
      BY <2>1
    <3> QED
      BY <1>2, <1>7, <3>1, <3>2, <3>3, RunFacts DEF RunInv, storeVars
  <2>2. CASE end # Len(run[p].matches)
    <3>1. /\ run'[p].pc = "send" /\ run'[p].done = end
          /\ run'[p].found = run[p].found /\ run'[p].todo = run[p].todo
          /\ run'[p].matches = run[p].matches
      BY <1>1, <1>4, <1>5, <2>2 DEF Run
    <3>2. end < Len(run[p].matches)
      BY <1>1, <2>2, ChunkEndBounds DEF end
    <3> QED
      BY <1>2, <1>7, <3>1, <3>2, RunFacts DEF RunInv, storeVars
  <2> QED
    BY <2>1, <2>2
<1>9. songs' \subseteq Songs /\ songs \subseteq songs'
  BY <1>2 DEF storeVars, IndInv, TypeOK, StoreTypeOK
<1> QED
  BY <1>2, <1>3, <1>4, <1>6, <1>8, <1>9, QuietStep DEF storeVars, worldVars

LEMMA GivenUpInv ==
  ASSUME IndInv, NEW p \in Procs,
         SnapshotFails(p) \/ SendFails(p) \/ SendAnswerLost(p), UNCHANGED req
  PROVE  IndInv'
<1>1. /\ run' = [run EXCEPT ![p] = IdleRun]
      /\ UNCHANGED <<worldVars, storeVars>>
  BY DEF SnapshotFails, SendFails, SendAnswerLost
<1>2. CASE SnapshotFails(p) \/ SendFails(p)
  <2>1. PushedInv' /\ pushed \subseteq pushed' /\ pushed' \subseteq ResIds \X Songs
    BY <1>2, PushedKept DEF SnapshotFails, SendFails, storeVars
  <2> QED
    BY <1>1, <2>1, GiveUpInv
<1>3. CASE SendAnswerLost(p)
  <2>1. PushedInv' /\ pushed \subseteq pushed' /\ pushed' \subseteq ResIds \X Songs
    BY <1>1, <1>3, PushInv DEF SendAnswerLost
  <2> QED
    BY <1>1, <2>1, GiveUpInv
<1> QED
  BY <1>2, <1>3
-----------------------------------------------------------------------------
(* Recording.                                                              *)

\* What a pipeline that records is about: a match that was pushed.
LEMMA CurrentFacts ==
  ASSUME IndInv, NEW p \in Procs, run[p].pc \in {"record", "notify"}
  PROVE  /\ run[p].done \in Nat /\ run[p].done < Len(run[p].matches)
         /\ Current(p) \in Match
         /\ <<Current(p).res, Current(p).song>> \in pushed
<1>1. run[p].done \in Nat /\ run[p].done < Len(run[p].matches)
  BY RunFacts DEF Run, RunInv
<1>2. run[p].done + 1 \in 1 .. Len(run[p].matches)
  BY <1>1, RunFacts
<1> QED
  BY <1>1, <1>2, RunFacts DEF Current, RunInv

LEMMA NextRecordType ==
  ASSUME NEW rn \in Run
  PROVE  [rn EXCEPT !.pc = "record", !.done = rn.done + 1] \in Run
<1>1. rn.done + 1 \in Nat
  BY DEF Run
<1> QED
  BY <1>1 DEF Run

\* The record of a pipeline that goes on to the next match, or is done.
LEMMA RecordedFacts ==
  ASSUME IndInv, NEW p \in Procs, run[p].pc \in {"record", "notify"},
         NEW rn, rn = Recorded(run[p]) \/ rn = [run[p] EXCEPT !.pc = "notify"],
         run' = [run EXCEPT ![p] = rn],
         UNCHANGED <<nextId, songs, pushed>>
  PROVE  /\ run' = [run EXCEPT ![p] = run'[p]]
         /\ run'[p] \in Run
         /\ RunInv(run[p])'
<1>1. run'[p] = rn /\ run' = [run EXCEPT ![p] = run'[p]]
  BY RunUpdate
<1>2. run[p] \in Run /\ run[p].done \in Nat
  BY RunFacts DEF Run
<1>3. CASE rn = IdleRun
  BY <1>1, <1>3, IdleRunType DEF RunInv, IdleRun
<1>4. CASE rn = [run[p] EXCEPT !.pc = "record", !.done = @ + 1]
           /\ run[p].done + 1 # Len(run[p].matches)
  <2>1. run'[p] \in Run
    <3>1. [run[p] EXCEPT !.pc = "record", !.done = run[p].done + 1] \in Run
      BY <1>2, NextRecordType
    <3> QED
      BY <1>1, <1>4, <3>1
  <2>2. /\ run'[p].pc = "record" /\ run'[p].done = run[p].done + 1
        /\ run'[p].found = run[p].found /\ run'[p].todo = run[p].todo
        /\ run'[p].matches = run[p].matches
    BY <1>1, <1>2, <1>4 DEF Run
  <2>3. run[p].done + 1 < Len(run[p].matches)
    <3>1. run[p].done < Len(run[p].matches) /\ run[p].done \in Nat
      BY CurrentFacts
    <3>2. Len(run[p].matches) \in Nat
      BY RunFacts
    <3> QED
      BY <1>4, <3>1, <3>2
  <2> QED
    BY <1>1, <2>1, <2>2, <2>3, RunFacts DEF RunInv
<1>5. CASE rn = [run[p] EXCEPT !.pc = "notify"]
  <2>1. run'[p] \in Run
    BY <1>1, <1>2, <1>5 DEF Run
  <2>2. /\ run'[p].pc = "notify" /\ run'[p].done = run[p].done
        /\ run'[p].found = run[p].found /\ run'[p].todo = run[p].todo
        /\ run'[p].matches = run[p].matches
    BY <1>1, <1>2, <1>5 DEF Run
  <2> QED
    BY <1>1, <2>1, <2>2, RunFacts DEF RunInv
<1> QED
  BY <1>3, <1>4, <1>5 DEF Recorded

LEMMA RecordArtistOnlyInv ==
  ASSUME IndInv, NEW p \in Procs, RecordArtistOnly(p), UNCHANGED req
  PROVE  IndInv'
<1> DEFINE r == Current(p).res
           id == SongId(Current(p).song)
<1>1. run[p].pc = "record" /\ UNCHANGED <<worldVars, pushed>>
  BY DEF RecordArtistOnly
<1>2. r \in ResIds /\ id \in Songs \cup {ZeroId} /\ <<r, Current(p).song>> \in pushed
  BY <1>1, CurrentFacts DEF Match, SongId
<1>3. PICK fk \in BOOLEAN : RecordNotification(r, id, fk)
  BY DEF RecordArtistOnly, Enforces
<1>4. /\ StoreTypeOK'
      /\ notifications' \subseteq notifications \cup {<<r, id>>}
      /\ UNCHANGED <<devices, reservations, nextId, songs>>
  <2> HIDE DEF r, id
  <2> QED
    BY <1>2, <1>3, RecordType DEF IndInv, TypeOK
<1>5. /\ run' = [run EXCEPT ![p] = run'[p]]
      /\ run'[p] \in Run
      /\ RunInv(run[p])'
  BY <1>1, <1>4, RecordedFacts DEF RecordArtistOnly
<1>6. SettledWasPushed'
  <2>1. Pairs(r) # {}
    BY <1>2 DEF Pairs
  <2> HIDE DEF r, id
  <2> QED
    BY <1>1, <1>4, <2>1 DEF IndInv, SettledWasPushed, Pairs, Exists, Settled
<1>7. PushedInv' /\ pushed' \subseteq ResIds \X Songs
  BY <1>1, <1>4, PushedKept
<1> QED
  BY <1>1, <1>4, <1>5, <1>6, <1>7, PipelineStep DEF worldVars

\* A row that an UPDATE of the recording loop rewrites belongs to a
\* reservation that was pushed.
LEMMA MarkInv ==
  ASSUME IndInv, NEW p \in Procs, run[p].pc \in {"record", "notify"},
         NEW row, Exists(Current(p).res) =>
           row \in Row /\ row.device = reservations[Current(p).res].device,
         UpdateRow(Current(p).res, row),
         UNCHANGED <<worldVars, pushed, req>>,
         run' = [run EXCEPT ![p] = run'[p]], run'[p] \in Run, RunInv(run[p])'
  PROVE  IndInv'
<1> DEFINE r == Current(p).res
<1>1. Pairs(r) # {}
  <2>1. <<r, Current(p).song>> \in pushed
    BY CurrentFacts
  <2> QED
    BY <2>1 DEF Pairs
<1> HIDE DEF r
<1>2. /\ StoreTypeOK'
      /\ DOMAIN reservations' = DOMAIN reservations
      /\ \A q \in DOMAIN reservations :
           reservations'[q] = IF q = r THEN row ELSE reservations[q]
      /\ UNCHANGED <<devices, nextId, notifications, songs>>
  BY UpdateRowType DEF IndInv, TypeOK, r
<1>3. \A q \in DOMAIN reservations : reservations'[q].device = reservations[q].device
  BY <1>2 DEF Exists, r
<1>4. SettledWasPushed'
  BY <1>1, <1>2 DEF IndInv, SettledWasPushed, Pairs, Exists, Settled
<1>5. PushedInv' /\ pushed' \subseteq ResIds \X Songs
  BY <1>2, PushedKept
<1> QED
  BY <1>2, <1>3, <1>4, <1>5, PipelineStep DEF worldVars

LEMMA MarkMatchedInv ==
  ASSUME IndInv, NEW p \in Procs, MarkMatched(p), UNCHANGED req
  PROVE  IndInv'
<1> DEFINE r == Current(p).res
           id == SongId(Current(p).song)
<1>1. run[p].pc = "record" /\ UNCHANGED <<worldVars, pushed>>
  BY DEF MarkMatched
<1>2. PICK fk \in BOOLEAN : MarkAsMatched(r, id, fk)
  BY DEF MarkMatched, Enforces
<1>3. UNCHANGED <<nextId, songs>>
  BY <1>2 DEF MarkAsMatched, UpdateRow, storeVars
<1>4. run' = [run EXCEPT ![p] = [run[p] EXCEPT !.pc = "notify"]]
  BY DEF MarkMatched
<1>5. /\ run' = [run EXCEPT ![p] = run'[p]]
      /\ run'[p] \in Run
      /\ RunInv(run[p])'
  BY <1>1, <1>3, <1>4, RecordedFacts
<1>6. CASE UNCHANGED storeVars
  <2>1. PushedInv' /\ pushed' \subseteq ResIds \X Songs /\ songs' \subseteq Songs
    BY <1>1, <1>6, PushedKept DEF storeVars, IndInv, TypeOK, StoreTypeOK
  <2> QED
    BY <1>1, <1>5, <1>6, <2>1, QuietStep DEF storeVars, worldVars
<1>7. CASE UpdateRow(r, [reservations[r] EXCEPT !.status = "matched", !.song = id])
  <2> DEFINE row == [reservations[r] EXCEPT !.status = "matched", !.song = id]
  <2>1. Exists(r) => row \in Row /\ row.device = reservations[r].device
    BY DEF Exists, IndInv, TypeOK, StoreTypeOK, Row, SongId
  <2> QED
    BY <1>1, <1>5, <1>7, <2>1, MarkInv
<1> QED
  BY <1>2, <1>6, <1>7 DEF MarkAsMatched

LEMMA MarkNotifiedInv ==
  ASSUME IndInv, NEW p \in Procs, MarkNotified(p), UNCHANGED req
  PROVE  IndInv'
<1> DEFINE r == Current(p).res
           row == [reservations[r] EXCEPT !.notified = TRUE]
<1>1. run[p].pc = "notify" /\ UNCHANGED <<worldVars, pushed>>
  BY DEF MarkNotified
<1>2. UpdateRow(r, row) /\ UNCHANGED <<nextId, songs>>
  BY DEF MarkNotified, MarkAsNotified, UpdateRow
<1>3. /\ run' = [run EXCEPT ![p] = run'[p]]
      /\ run'[p] \in Run
      /\ RunInv(run[p])'
  BY <1>1, <1>2, RecordedFacts DEF MarkNotified
<1>4. Exists(r) => row \in Row /\ row.device = reservations[r].device
  BY DEF Exists, IndInv, TypeOK, StoreTypeOK, Row
<1> QED
  BY <1>1, <1>2, <1>3, <1>4, MarkInv

LEMMA RecordFailsInv ==
  ASSUME IndInv, NEW p \in Procs, RecordFails(p), UNCHANGED req
  PROVE  IndInv'
<1>1. run[p].pc \in {"record", "notify"} /\ UNCHANGED <<worldVars, pushed, storeVars>>
  BY DEF RecordFails
<1>2. \E rn : /\ rn = Recorded(run[p]) \/ rn = [run[p] EXCEPT !.pc = "notify"]
              /\ run' = [run EXCEPT ![p] = rn]
  BY DEF RecordFails
<1>3. /\ run' = [run EXCEPT ![p] = run'[p]]
      /\ run'[p] \in Run
      /\ RunInv(run[p])'
  BY <1>1, <1>2, RecordedFacts DEF storeVars
<1>4. PushedInv' /\ pushed' \subseteq ResIds \X Songs /\ songs' \subseteq Songs
  BY <1>1, PushedKept DEF storeVars, IndInv, TypeOK, StoreTypeOK
<1> QED
  BY <1>1, <1>3, <1>4, QuietStep DEF storeVars, worldVars

-----------------------------------------------------------------------------
(* The world, crashes, and every step.                                     *)

LEMMA PipelineInv ==
  ASSUME IndInv, NEW p \in Procs, Pipeline(p), UNCHANGED req
  PROVE  IndInv'
  BY StartInv, FetchMonthInv, FetchFailsInv, SnapshotInv, ScanInv, SendChunkInv,
     GivenUpInv, RecordArtistOnlyInv, MarkMatchedInv, MarkNotifiedInv, RecordFailsInv
     DEF Pipeline, Recording

LEMMA WorldInv ==
  ASSUME IndInv, (\E s \in Songs : Publish(s)) \/ Rollover, UNCHANGED req
  PROVE  IndInv'
<1>1. UNCHANGED <<run, pushed, storeVars>>
  BY DEF Publish, Rollover
<1>2. listed' \subseteq Songs /\ now' \in 1 .. MaxMonth
  BY MatchingAssumption DEF Publish, Rollover, IndInv, TypeOK, MatchingTypeOK
<1>3. StoreTypeOK'
  BY <1>1 DEF storeVars, IndInv, TypeOK, StoreTypeOK
<1>4. TypeOK'
  BY <1>1, <1>2, <1>3 DEF IndInv, TypeOK, MatchingTypeOK, ApiTypeOK
<1>5. (\A p \in Procs : RunInv(run[p]))' /\ PushedInv'
  BY <1>1, <1>3, RunsKept DEF storeVars, IndInv, TypeOK, StoreTypeOK
<1>6. ReqInv' /\ SettledWasPushed'
  BY <1>1 DEF IndInv, ReqInv, SettledWasPushed, Pairs, Exists, storeVars
<1> QED
  BY <1>4, <1>5, <1>6 DEF IndInv

LEMMA CrashInv ==
  ASSUME IndInv, NEW p \in Procs, Crash(p)
  PROVE  IndInv'
<1>1. UNCHANGED <<worldVars, pushed, storeVars>>
  BY DEF Crash
<1>2. /\ \A q \in Procs : run'[q] \in {run[q], IdleRun}
      /\ run' \in [Procs -> Run]
  BY IdleRunType DEF Crash, IndInv, TypeOK, MatchingTypeOK
<1>3. /\ req' \in [Handlers -> Request \cup {NoReq}]
      /\ \A h \in Handlers : req'[h] \in {req[h], NoReq}
  BY DEF Crash, IndInv, TypeOK, ApiTypeOK
<1>4. TypeOK'
  BY <1>1, <1>2, <1>3
     DEF IndInv, TypeOK, StoreTypeOK, MatchingTypeOK, ApiTypeOK, worldVars, storeVars
<1>5. ASSUME NEW q \in Procs PROVE RunInv(run[q])'
  <2>1. CASE run'[q] = IdleRun
    BY <2>1 DEF RunInv, IdleRun
  <2>2. CASE run'[q] = run[q]
    BY <1>1, <2>2 DEF RunInv, IndInv, storeVars
  <2> QED
    BY <1>2, <2>1, <2>2
<1>6. ReqInv' /\ PushedInv' /\ SettledWasPushed'
  BY <1>1, <1>3
     DEF IndInv, ReqInv, PushedInv, SettledWasPushed, Pairs, Exists, storeVars
<1> QED
  BY <1>4, <1>5, <1>6 DEF IndInv

LEMMA StepInv == IndInv /\ [Next]_vars => IndInv'
<1> SUFFICES ASSUME IndInv, [Next]_vars PROVE IndInv'
  OBVIOUS
<1>1. CASE ApiNext /\ UNCHANGED <<now, listed, pushed, run>>
  BY <1>1, ApiInv
<1>2. CASE ((\E s \in Songs : Publish(s)) \/ Rollover) /\ UNCHANGED req
  BY <1>2, WorldInv
<1>3. CASE \E p \in Procs : Pipeline(p) /\ UNCHANGED req
  BY <1>3, PipelineInv
<1>4. CASE \E p \in Procs : Crash(p)
  BY <1>4, CrashInv
<1>5. CASE UNCHANGED vars
  BY <1>5 DEF vars, IndInv, TypeOK, StoreTypeOK, MatchingTypeOK, ApiTypeOK, RunInv,
              ReqInv, PushedInv, SettledWasPushed, Pairs, Exists
<1> QED
  BY <1>1, <1>2, <1>3, <1>4, <1>5 DEF Next

-----------------------------------------------------------------------------
(* Theorems.                                                               *)

\* The inductive invariant holds of every reachable state.
THEOREM Inductive == Spec => []IndInv
  BY InitInv, StepInv, PTL DEF Spec

\* Every variable keeps its type.
THEOREM TypeCorrect == Spec => []TypeOK
<1>1. IndInv => TypeOK
  BY DEF IndInv
<1> QED
  BY <1>1, Inductive, PTL

\* No reservation is settled, and no subscriber is put on record as notified,
\* without a push that Expo accepted: whatever fails, stops or is edited, and
\* however many processes match at once.
THEOREM NothingSettledUnpushed == Spec => []SettledWasPushed
<1>1. IndInv => SettledWasPushed
  BY DEF IndInv
<1> QED
  BY <1>1, Inductive, PTL

\* Every song a subscriber is told of is in the songs table.
THEOREM NothingUnstoredPushed == Spec => []PushedSongIsStored
<1>1. IndInv => PushedSongIsStored
  BY DEF IndInv, PushedInv, PushedSongIsStored
<1> QED
  BY <1>1, Inductive, PTL

-----------------------------------------------------------------------------
(* Owners.                                                                 *)

\* A step that leaves the table alone, or only adds to it, changes no terms.
LEMMA TermsKept ==
  ASSUME DOMAIN reservations \subseteq DOMAIN reservations',
         \A r \in DOMAIN reservations :
           /\ reservations'[r].artist = reservations[r].artist
           /\ reservations'[r].title = reservations[r].title
  PROVE  OwnerStep
  BY DEF OwnerStep

\* A request that is applied was checked against the owner the row still has.
LEMMA AppliedByOwner ==
  ASSUME IndInv, NEW h \in Handlers, req[h] # NoReq, Answer(h),
         DOMAIN reservations \ {req[h].res} \subseteq DOMAIN reservations',
         \A r \in DOMAIN reservations \ {req[h].res} : reservations'[r] = reservations[r]
  PROVE  OwnerStep
<1> SUFFICES ASSUME NEW r \in DOMAIN reservations,
                    \/ r \notin DOMAIN reservations'
                    \/ reservations'[r].artist # reservations[r].artist
                    \/ reservations'[r].title # reservations[r].title
             PROVE  \E k \in Handlers :
                      /\ req[k] # NoReq
                      /\ req[k].res = r
                      /\ req[k].device = reservations[r].device
                      /\ req'[k] = NoReq
  BY DEF OwnerStep
<1>1. r = req[h].res
  OBVIOUS
<1>2. req[h].device = reservations[r].device
  BY <1>1 DEF IndInv, ReqInv, Exists
<1>3. req'[h] = NoReq
  BY DEF Answer, IndInv, TypeOK, ApiTypeOK
<1> QED
  BY <1>1, <1>2, <1>3

\* Marking a row keeps its terms.
LEMMA MarkKeepsTerms ==
  ASSUME IndInv, NEW p \in Procs, Recording(p)
  PROVE  OwnerStep
<1>1. CASE RecordArtistOnly(p)
  BY <1>1, TermsKept DEF RecordArtistOnly, RecordNotification
<1>2. CASE RecordFails(p)
  BY <1>2, TermsKept DEF RecordFails, storeVars
<1>3. CASE MarkMatched(p)
  <2> DEFINE r == Current(p).res
             id == SongId(Current(p).song)
  <2>1. PICK fk \in BOOLEAN : MarkAsMatched(r, id, fk)
    BY <1>3 DEF MarkMatched, Enforces
  <2> HIDE DEF r, id
  <2>2. CASE UNCHANGED storeVars
    BY <2>2, TermsKept DEF storeVars
  <2>3. CASE UpdateRow(r, [reservations[r] EXCEPT !.status = "matched", !.song = id])
    <3>1. Exists(r) => reservations[r] \in Row
      BY DEF IndInv, TypeOK, StoreTypeOK, Exists
    <3> QED
      BY <2>3, <3>1, TermsKept DEF UpdateRow, Exists, Row, IndInv, TypeOK, StoreTypeOK
  <2> QED
    BY <2>1, <2>2, <2>3 DEF MarkAsMatched
<1>4. CASE MarkNotified(p)
  <2> DEFINE r == Current(p).res
  <2>1. UpdateRow(r, [reservations[r] EXCEPT !.notified = TRUE])
    BY <1>4 DEF MarkNotified, MarkAsNotified
  <2> HIDE DEF r
  <2>2. Exists(r) => reservations[r] \in Row
    BY DEF IndInv, TypeOK, StoreTypeOK, Exists
  <2> QED
    BY <2>1, <2>2, TermsKept DEF UpdateRow, Exists, Row, IndInv, TypeOK, StoreTypeOK
<1> QED
  BY <1>1, <1>2, <1>3, <1>4 DEF Recording

\* No other step of a pipeline touches the table.
LEMMA PipelineKeepsTerms ==
  ASSUME IndInv, NEW p \in Procs, Pipeline(p)
  PROVE  OwnerStep
<1>1. CASE Recording(p)
  BY <1>1, MarkKeepsTerms
<1>2. CASE ~Recording(p)
  <2>1. UNCHANGED reservations
    BY <1>2 DEF Pipeline, Start, FetchMonth, FetchFails, UpsertMany, Snapshot,
       SnapshotFails, Scan, ScanFails, SendChunk, SendFails, SendAnswerLost, storeVars
  <2> QED
    BY <2>1, TermsKept
<1> QED
  BY <1>1, <1>2

LEMMA ApiOwner ==
  ASSUME IndInv, ApiNext
  PROVE  OwnerStep
<1>1. CASE \E d \in Devices : Register(d)
  BY <1>1, TermsKept DEF Register, UpsertDevice
<1>2. ASSUME NEW d \in Devices, NEW t \in Terms, Create(d, t) PROVE OwnerStep
  <2>1. /\ DOMAIN reservations' = DOMAIN reservations \cup {nextId}
        /\ \A r \in DOMAIN reservations : reservations'[r] = reservations[r]
    BY <1>2, InsertType DEF IndInv, TypeOK, Create
  <2> QED
    BY <2>1, TermsKept
<1>3. CASE \E h \in Handlers, rq \in Request : Check(h, rq)
  BY <1>3, TermsKept DEF Check, storeVars
<1>4. ASSUME NEW h \in Handlers, ApplyUpdate(h) PROVE OwnerStep
  BY <1>4, AppliedByOwner DEF ApplyUpdate, UpdateTerms, UpdateRow, IndInv, TypeOK,
     StoreTypeOK
<1>5. ASSUME NEW h \in Handlers, ApplyDelete(h) PROVE OwnerStep
  BY <1>5, AppliedByOwner DEF ApplyDelete, DeleteReservation
<1>6. CASE \E h \in Handlers : ApplyFails(h)
  BY <1>6, TermsKept DEF ApplyFails, storeVars
<1> QED
  BY <1>1, <1>2, <1>3, <1>4, <1>5, <1>6 DEF ApiNext

\* The check of the owner holds up to the statement that relies on it: ids are
\* not used twice and no statement changes the device of a reservation.
THEOREM OwnersOnly == Spec => OwnerOnly
<1>1. IndInv /\ Next => OwnerStep
  <2> SUFFICES ASSUME IndInv, Next PROVE OwnerStep
    OBVIOUS
  <2>1. CASE ApiNext
    BY <2>1, ApiOwner
  <2>2. CASE \E p \in Procs : Pipeline(p)
    BY <2>2, PipelineKeepsTerms
  <2>3. CASE (\E s \in Songs : Publish(s)) \/ Rollover \/ \E p \in Procs : Crash(p)
    BY <2>3, TermsKept DEF Publish, Rollover, Crash, storeVars
  <2> QED
    BY <2>1, <2>2, <2>3 DEF Next
<1>2. IndInv /\ [Next]_vars => [OwnerStep]_vars
  BY <1>1
<1> QED
  BY <1>2, Inductive, PTL DEF Spec, OwnerOnly
-----------------------------------------------------------------------------
(* The scheduler alone.                                                    *)

\* Match m is still open.
Open(m) ==
    /\ Exists(m.res) => ~Settled(reservations[m.res])
    /\ m.only => ~HasNotified(m.res, SongId(m.song))

\* The strengthening of NothingSettledIsSent: what is open when the snapshot is
\* taken stays open while it is scanned and sent.
OpenInv(rn) ==
    /\ rn.pc = "scan" =>
         /\ \A m \in rn.todo : Exists(m.res) => ~Settled(reservations[m.res])
         /\ \A i \in 1 .. Len(rn.matches) : Open(rn.matches[i])
    /\ rn.pc = "send" =>
         \A i \in rn.done + 1 .. Len(rn.matches) : Open(rn.matches[i])
    /\ rn.pc \in {"fetch", "snapshot"} => rn.matches = <<>>

AloneInv == IndInv /\ \A p \in Procs : OpenInv(run[p])

LEMMA InitOpen == Init => \A p \in Procs : OpenInv(run[p])
  BY DEF Init, MatchingInit, OpenInv, IdleRun

\* A match stays open if no step settles a row that was there, takes a row for
\* a settled one, or adds to the notifications.
LEMMA OpenKept ==
  ASSUME IndInv, UNCHANGED run, notifications' \subseteq notifications,
         \A r \in ResIds : r < nextId /\ r \in DOMAIN reservations' =>
           /\ r \in DOMAIN reservations
           /\ Settled(reservations'[r]) = Settled(reservations[r]),
         \A p \in Procs : OpenInv(run[p])
  PROVE  (\A p \in Procs : OpenInv(run[p]))'
<1> SUFFICES ASSUME NEW p \in Procs PROVE OpenInv(run[p])'
  OBVIOUS
<1>1. \A m \in Match : m.res < nextId /\ Open(m) => Open(m)'
  BY DEF Open, Match, Exists, HasNotified, Settled, SongId
<1>2. \A m \in run[p].todo : m.res \in ResIds /\ m.res < nextId
  BY RunFacts DEF Run, Match, RunInv
<1>3. \A i \in 1 .. Len(run[p].matches) :
        run[p].matches[i] \in Match /\ run[p].matches[i].res < nextId
  BY RunFacts DEF RunInv
<1>4. \A i \in run[p].done + 1 .. Len(run[p].matches) : i \in 1 .. Len(run[p].matches)
  BY RunFacts DEF Run
<1>5. run'[p].pc = "scan" =>
        /\ \A m \in run'[p].todo : (Exists(m.res) => ~Settled(reservations[m.res]))'
        /\ \A i \in 1 .. Len(run'[p].matches) : Open(run[p].matches[i])'
  BY <1>1, <1>2, <1>3 DEF OpenInv, Exists, Settled
<1>6. run'[p].pc = "send" =>
        \A i \in run'[p].done + 1 .. Len(run'[p].matches) : Open(run[p].matches[i])'
  BY <1>1, <1>3, <1>4 DEF OpenInv
<1> QED
  BY <1>5, <1>6 DEF OpenInv, Open, HasNotified, Exists, Settled

LEMMA ApiOpen ==
  ASSUME AloneInv, ApiNext, UNCHANGED run
  PROVE  (\A p \in Procs : OpenInv(run[p]))'
<1> USE DEF AloneInv
<1>1. CASE UNCHANGED <<reservations, notifications>>
  BY <1>1, OpenKept DEF Settled
<1>2. ASSUME NEW d \in Devices, NEW t \in Terms, Create(d, t)
      PROVE (\A p \in Procs : OpenInv(run[p]))'
  <2>1. /\ DOMAIN reservations' = DOMAIN reservations \cup {nextId}
        /\ \A r \in DOMAIN reservations : reservations'[r] = reservations[r]
        /\ UNCHANGED notifications
    BY <1>2, InsertType DEF IndInv, TypeOK, Create, InsertReservation
  <2>2. nextId \in Int
    BY DEF IndInv, TypeOK, StoreTypeOK
  <2>3. \A r \in ResIds : r < nextId /\ r \in DOMAIN reservations' =>
           /\ r \in DOMAIN reservations
           /\ Settled(reservations'[r]) = Settled(reservations[r])
    BY <2>1, <2>2 DEF ResIds
  <2> QED
    BY <2>1, <2>3, OpenKept
<1>3. ASSUME NEW h \in Handlers, ApplyUpdate(h)
      PROVE (\A p \in Procs : OpenInv(run[p]))'
  <2> DEFINE r == req[h].res
             row == [reservations[r] EXCEPT !.artist = req[h].terms.artist,
                                            !.title = req[h].terms.title]
  <2>1. UpdateRow(r, row)
    BY <1>3 DEF ApplyUpdate, UpdateTerms
  <2>2. Exists(r) => Settled(row) = Settled(reservations[r])
    <3>1. Exists(r) => reservations[r] \in Row
      BY DEF IndInv, TypeOK, StoreTypeOK, Exists
    <3> QED
      BY <3>1 DEF Row, Settled
  <2> HIDE DEF r, row
  <2>3. /\ UNCHANGED notifications
        /\ DOMAIN reservations' = DOMAIN reservations
        /\ \A q \in DOMAIN reservations :
             Settled(reservations'[q]) = Settled(reservations[q])
    BY <2>1, <2>2 DEF UpdateRow, Exists, IndInv, TypeOK, StoreTypeOK
  <2> QED
    BY <2>3, OpenKept
<1>4. ASSUME NEW h \in Handlers, ApplyDelete(h)
      PROVE (\A p \in Procs : OpenInv(run[p]))'
  BY <1>4, OpenKept DEF ApplyDelete, DeleteReservation
<1> QED
  BY <1>1, <1>2, <1>3, <1>4
     DEF ApiNext, Register, UpsertDevice, Check, ApplyFails, storeVars

\* A pipeline that neither scans nor sends has nothing open to keep.
LEMMA ElsewhereOpen ==
  ASSUME Clis = {}, NEW p \in Procs,
         run'[p].pc \notin {"scan", "send"},
         run'[p].pc \in {"fetch", "snapshot"} => run'[p].matches = <<>>
  PROVE  (\A q \in Procs : OpenInv(run[q]))'
  BY DEF Procs, OpenInv

LEMMA ScanOpen ==
  ASSUME AloneInv, Clis = {}, NEW p \in Procs, NEW m,
         Scan(p, m) \/ ScanFails(p, m)
  PROVE  (\A q \in Procs : OpenInv(run[q]))'
<1> USE DEF AloneInv
<1>1. PICK ms : /\ \/ ms = run[p].matches
                   \/ /\ ms = Append(run[p].matches, m)
                      /\ ~(m.only /\ HasNotified(m.res, SongId(m.song)))
                /\ run' = [run EXCEPT ![p] = Scanned(run[p], m, ms)]
  BY DEF Scan, ScanFails
<1>2. Turn(p, m) /\ UNCHANGED storeVars
  BY DEF Scan, ScanFails
<1>3. run[p] \in Run /\ run[p].pc = "scan" /\ m \in run[p].todo /\ run[p].done = 0
  BY <1>2, RunFacts DEF Turn, RunInv
<1>4. \A i \in 1 .. Len(ms) : Open(ms[i])
  <2>1. /\ Exists(m.res) => ~Settled(reservations[m.res])
        /\ \A i \in 1 .. Len(run[p].matches) : Open(run[p].matches[i])
    BY <1>3 DEF OpenInv
  <2>2. CASE ms = run[p].matches
    BY <2>1, <2>2
  <2>3. CASE /\ ms = Append(run[p].matches, m)
             /\ ~(m.only /\ HasNotified(m.res, SongId(m.song)))
    <3>1. Open(m)
      BY <2>1, <2>3 DEF Open
    <3>2. \A i \in 1 .. Len(ms) : ms[i] = m \/ (i \in 1 .. Len(run[p].matches)
                                                  /\ ms[i] = run[p].matches[i])
      BY <2>3, RunFacts
    <3> QED
      BY <2>1, <3>1, <3>2
  <2> QED
    BY <1>1, <2>2, <2>3
<1>5. run'[p] = Scanned(run[p], m, ms)
  BY <1>1, RunUpdate
<1>6. CASE run[p].todo \ {m} # {}
  <2>1. run'[p] = [run[p] EXCEPT !.todo = run[p].todo \ {m}, !.matches = ms]
    BY <1>5, <1>6 DEF Scanned
  <2>2. run'[p].pc = "scan" /\ run'[p].todo \subseteq run[p].todo /\ run'[p].matches = ms
    BY <1>3, <2>1 DEF Run
  <2>3. OpenInv(run[p])'
    BY <1>2, <1>3, <1>4, <2>2
       DEF OpenInv, Open, Exists, Settled, HasNotified, storeVars
  <2> QED
    BY <2>3 DEF Procs
<1>7. CASE run[p].todo \ {m} = {} /\ ms # <<>>
  <2>1. run'[p] = [run[p] EXCEPT !.pc = "send", !.todo = {}, !.matches = ms]
    BY <1>5, <1>7 DEF Scanned
  <2>2. run'[p].pc = "send" /\ run'[p].done = 0 /\ run'[p].matches = ms
    BY <1>3, <2>1 DEF Run
  <2>3. OpenInv(run[p])'
    BY <1>2, <1>4, <2>2
       DEF OpenInv, Open, Exists, Settled, HasNotified, storeVars
  <2> QED
    BY <2>3 DEF Procs
<1>8. CASE run[p].todo \ {m} = {} /\ ms = <<>>
  <2>1. run'[p] = IdleRun
    BY <1>5, <1>8 DEF Scanned
  <2> QED
    BY <2>1, ElsewhereOpen DEF IdleRun
<1> QED
  BY <1>6, <1>7, <1>8

LEMMA SnapshotOpen ==
  ASSUME AloneInv, Clis = {}, NEW p \in Procs, Snapshot(p)
  PROVE  (\A q \in Procs : OpenInv(run[q]))'
<1> DEFINE todo == Candidates(run[p].found)
<1>1. CASE todo = {}
  <2>1. run'[p] = IdleRun
    BY <1>1, RunUpdate DEF Snapshot, AloneInv
  <2> QED
    BY <2>1, ElsewhereOpen DEF IdleRun
<1>2. CASE todo # {}
  <2>1. run' = [run EXCEPT ![p] = [run[p] EXCEPT !.pc = "scan", !.todo = todo]]
    BY <1>2 DEF Snapshot
  <2>2. run'[p] = [run[p] EXCEPT !.pc = "scan", !.todo = todo]
    BY <2>1, RunUpdate DEF AloneInv
  <2>3. run[p] \in Run /\ run[p].matches = <<>>
    BY RunFacts DEF AloneInv, OpenInv, Snapshot
  <2>4. \A m \in todo : Exists(m.res) => ~Settled(reservations[m.res])
    BY DEF Candidates
  <2> HIDE DEF todo
  <2>5. run'[p].pc = "scan" /\ run'[p].todo = todo /\ run'[p].matches = <<>>
    BY <2>2, <2>3 DEF Run
  <2>6. OpenInv(run[p])'
    BY <2>4, <2>5 DEF OpenInv, Snapshot, storeVars, Exists, Settled
  <2> QED
    BY <2>6 DEF Procs
<1> QED
  BY <1>1, <1>2

LEMMA SendOpen ==
  ASSUME AloneInv, Clis = {}, NEW p \in Procs, SendChunk(p)
  PROVE  (\A q \in Procs : OpenInv(run[q]))'
<1> USE DEF AloneInv
<1>1. run[p].pc = "send" /\ UNCHANGED storeVars
  BY DEF SendChunk
<1>2. run[p] \in Run
  BY RunFacts
<1> DEFINE end == ChunkEnd(run[p])
<1>3. CASE end = Len(run[p].matches)
  <2>1. run' = [run EXCEPT ![p] = [run[p] EXCEPT !.pc = "record", !.done = 0]]
    BY <1>3 DEF SendChunk
  <2>2. run'[p] = [run[p] EXCEPT !.pc = "record", !.done = 0]
    BY <2>1, RunUpdate
  <2>3. run'[p].pc = "record"
    BY <1>2, <2>2 DEF Run
  <2> QED
    BY <2>3, ElsewhereOpen
<1>4. CASE end # Len(run[p].matches)
  <2>1. run' = [run EXCEPT ![p] = [run[p] EXCEPT !.done = end]]
    BY <1>4 DEF SendChunk
  <2>2. run'[p] = [run[p] EXCEPT !.done = end]
    BY <2>1, RunUpdate
  <2>3. run'[p].pc = "send" /\ run'[p].done = end /\ run'[p].matches = run[p].matches
    BY <1>1, <1>2, <2>2 DEF Run
  <2>4. \A i \in end + 1 .. Len(run[p].matches) : i \in run[p].done + 1 .. Len(run[p].matches)
    BY <1>1, ChunkEndBounds
  <2>5. \A i \in end + 1 .. Len(run[p].matches) : Open(run[p].matches[i])
    BY <1>1, <2>4 DEF OpenInv
  <2> HIDE DEF end
  <2>6. OpenInv(run[p])'
    BY <1>1, <2>3, <2>5 DEF OpenInv, Open, Exists, Settled, HasNotified, storeVars
  <2> QED
    BY <2>6 DEF Procs
<1> QED
  BY <1>3, <1>4

\* The other steps of a pipeline leave it where nothing is open.
LEMMA OtherOpen ==
  ASSUME AloneInv, Clis = {}, NEW p \in Procs,
         \/ Start(p) \/ FetchMonth(p) \/ FetchFails(p)
         \/ SnapshotFails(p) \/ SendFails(p) \/ SendAnswerLost(p)
         \/ Recording(p)
  PROVE  (\A q \in Procs : OpenInv(run[q]))'
<1> USE DEF AloneInv
<1>1. run[p] \in Run
  BY RunFacts
<1>2. CASE SnapshotFails(p) \/ SendFails(p) \/ SendAnswerLost(p)
  <2>1. run'[p] = IdleRun
    BY <1>2, RunUpdate DEF SnapshotFails, SendFails, SendAnswerLost
  <2> QED
    BY <2>1, ElsewhereOpen DEF IdleRun
<1>3. CASE Start(p)
  <2>1. PICK plan : run' = [run EXCEPT ![p] =
                              [IdleRun EXCEPT !.pc = "fetch", !.months = plan]]
    BY <1>3 DEF Start
  <2>2. run'[p] = [IdleRun EXCEPT !.pc = "fetch", !.months = plan]
    BY <2>1, RunUpdate
  <2> QED
    BY <2>2, ElsewhereOpen DEF IdleRun
<1>4. CASE FetchMonth(p) \/ FetchFails(p)
  <2>1. PICK months, found : run' = [run EXCEPT ![p] = Fetched(months, found)]
    BY <1>4 DEF FetchMonth, FetchFails
  <2>2. run'[p] = Fetched(months, found)
    BY <2>1, RunUpdate
  <2>3. CASE months # {}
    <3>1. run'[p] = [IdleRun EXCEPT !.pc = "fetch", !.months = months, !.found = found]
      BY <2>2, <2>3 DEF Fetched
    <3> QED
      BY <3>1, ElsewhereOpen DEF IdleRun
  <2>4. CASE months = {} /\ found # {}
    <3>1. run'[p] = [IdleRun EXCEPT !.pc = "snapshot", !.found = found]
      BY <2>2, <2>4 DEF Fetched
    <3> QED
      BY <3>1, ElsewhereOpen DEF IdleRun
  <2>5. CASE months = {} /\ found = {}
    <3>1. run'[p] = IdleRun
      BY <2>2, <2>5 DEF Fetched
    <3> QED
      BY <3>1, ElsewhereOpen DEF IdleRun
  <2> QED
    BY <2>3, <2>4, <2>5
<1>5. CASE Recording(p)
  <2>1. PICK rn : /\ rn = Recorded(run[p]) \/ rn = [run[p] EXCEPT !.pc = "notify"]
                  /\ run' = [run EXCEPT ![p] = rn]
    BY <1>5 DEF Recording, RecordArtistOnly, MarkMatched, MarkNotified, RecordFails
  <2>2. run'[p] = rn
    BY <2>1, RunUpdate
  <2>3. rn.pc \in {"idle", "record", "notify"}
    <3>1. [run[p] EXCEPT !.pc = "record", !.done = @ + 1].pc = "record"
      BY <1>1 DEF Run
    <3>2. [run[p] EXCEPT !.pc = "notify"].pc = "notify"
      BY <1>1 DEF Run
    <3>3. IdleRun.pc = "idle"
      BY DEF IdleRun
    <3>4. Recorded(run[p]) \in
            {IdleRun, [run[p] EXCEPT !.pc = "record", !.done = @ + 1]}
      BY DEF Recorded
    <3> QED
      BY <2>1, <3>1, <3>2, <3>3, <3>4
  <2> QED
    BY <2>2, <2>3, ElsewhereOpen
<1> QED
  BY <1>2, <1>3, <1>4, <1>5

\* With no cmd/fetch process, the scheduler never pushes a match that has been
\* settled or put on record.
THEOREM SchedulerSendsOpen ==
  ASSUME Clis = {}
  PROVE  Spec => []NothingSettledIsSent
<1>1. Init => AloneInv
  BY InitInv, InitOpen DEF AloneInv
<1>2. AloneInv /\ [Next]_vars => AloneInv'
  <2> SUFFICES ASSUME AloneInv, [Next]_vars PROVE (\A p \in Procs : OpenInv(run[p]))'
    BY StepInv DEF AloneInv
  <2>1. CASE ApiNext /\ UNCHANGED <<now, listed, pushed, run>>
    BY <2>1, ApiOpen
  <2>2. CASE (\E s \in Songs : Publish(s)) \/ Rollover
    BY <2>2, OpenKept DEF Publish, Rollover, storeVars, AloneInv, Settled
  <2>3. CASE \E p \in Procs : Pipeline(p)
    BY <2>3, ScanOpen, SnapshotOpen, SendOpen, OtherOpen DEF Pipeline
  <2>4. ASSUME NEW p \in Procs, Crash(p) PROVE (\A q \in Procs : OpenInv(run[q]))'
    <3>1. run'[p] = IdleRun
      BY <2>4, RunUpdate DEF Crash, AloneInv
    <3> QED
      BY <3>1, ElsewhereOpen DEF IdleRun
  <2>5. CASE UNCHANGED vars
    BY <2>5, OpenKept DEF vars, AloneInv, Settled
  <2> QED
    BY <2>1, <2>2, <2>3, <2>4, <2>5 DEF Next
<1>3. AloneInv => NothingSettledIsSent
  BY DEF AloneInv, OpenInv, Open, NothingSettledIsSent
<1> QED
  BY <1>1, <1>2, <1>3, PTL DEF Spec

-----------------------------------------------------------------------------
(* The ledger: the initial state maps to its initial state, and every step  *)
(* to a step of the ledger or to none.                                      *)

life == [r \in ResIds |-> Life(r)]

\* A step in which no reservation's life changes and nothing is pushed.
LEMMA Stutters ==
  ASSUME UNCHANGED pushed, \A r \in ResIds : Life(r)' = Life(r)
  PROVE  UNCHANGED <<life, pushed>>
  BY DEF life

\* Life depends on three things only.
LEMMA LifeKept ==
  ASSUME UNCHANGED <<reservations, nextId>>
  PROVE  \A r \in ResIds : Life(r)' = Life(r)
  BY DEF Life, Exists, Settled

\* A row in the table has an id that was given out.
LEMMA RowIds ==
  ASSUME IndInv, NEW r, Exists(r)
  PROVE  r \in ResIds /\ r < nextId /\ ~(r >= nextId)
<1>1. r \in 1 .. nextId - 1 /\ nextId \in 1 .. MaxReservations + 1
  BY DEF Exists, IndInv, TypeOK, StoreTypeOK
<1> QED
  BY <1>1, StoreAssumption DEF ResIds

\* Booked reservations are those with an id below nextId.
LEMMA BookedIds ==
  ASSUME IndInv, NEW r \in ResIds, r < nextId
  PROVE  r \in Ledger!Booked
<1>1. ~(r >= nextId)
  BY DEF ResIds, IndInv, TypeOK, StoreTypeOK
<1>2. Life(r) # "unborn"
  BY <1>1 DEF Life
<1> QED
  BY <1>2 DEF Ledger!Booked

LEMMA CreateBooks ==
  ASSUME IndInv, NEW d \in Devices, NEW t \in Terms, Create(d, t), UNCHANGED pushed
  PROVE  Ledger!Book(nextId) /\ nextId \in ResIds
<1>1. /\ nextId' = nextId + 1
      /\ DOMAIN reservations' = DOMAIN reservations \cup {nextId}
      /\ \A r \in DOMAIN reservations : reservations'[r] = reservations[r]
      /\ ~Settled(reservations'[nextId])
  BY InsertType DEF IndInv, TypeOK, Create
<1>2. nextId \in ResIds /\ ResIds \subseteq Int /\ nextId \in Int
  BY DEF Create, InsertReservation, IndInv, TypeOK, StoreTypeOK, ResIds
<1>3. \A q \in ResIds : q < nextId => Life(q) # "unborn"
  BY <1>2 DEF Life
<1>4. Life(nextId) = "unborn"
  BY <1>2 DEF Life
<1>5. \A q \in ResIds : Life(q)' = IF q = nextId THEN "waiting" ELSE Life(q)
  <2> SUFFICES ASSUME NEW q \in ResIds
               PROVE  Life(q)' = IF q = nextId THEN "waiting" ELSE Life(q)
    OBVIOUS
  <2>1. CASE q = nextId
    BY <1>1, <1>2, <2>1 DEF Life, Exists, Settled
  <2>2. CASE q # nextId
    BY <1>1, <1>2, <2>2 DEF Life, Exists, Settled
  <2> QED
    BY <2>1, <2>2
<1>6. [r \in ResIds |-> Life(r)]' = [[r \in ResIds |-> Life(r)] EXCEPT ![nextId] = "waiting"]
  BY <1>2, <1>5
<1> QED
  BY <1>2, <1>3, <1>4, <1>6 DEF Ledger!Book

LEMMA UpdateStutters ==
  ASSUME IndInv, NEW h \in Handlers, ApplyUpdate(h), UNCHANGED pushed
  PROVE  UNCHANGED <<life, pushed>>
<1> DEFINE r == req[h].res
           row == [reservations[r] EXCEPT !.artist = req[h].terms.artist,
                                          !.title = req[h].terms.title]
<1>1. UpdateRow(r, row)
  BY DEF ApplyUpdate, UpdateTerms
<1>2. Exists(r) => Settled(row) = Settled(reservations[r])
  <2>1. Exists(r) => reservations[r] \in Row
    BY DEF IndInv, TypeOK, StoreTypeOK, Exists
  <2> QED
    BY <2>1 DEF Row, Settled
<1> HIDE DEF r, row
<1>3. /\ UNCHANGED nextId
      /\ DOMAIN reservations' = DOMAIN reservations
      /\ \A q \in DOMAIN reservations :
           Settled(reservations'[q]) = Settled(reservations[q])
  BY <1>1, <1>2 DEF UpdateRow, Exists, IndInv, TypeOK, StoreTypeOK
<1> QED
  BY <1>3, Stutters DEF Life, Exists, Settled

LEMMA DeleteWithdraws ==
  ASSUME IndInv, NEW h \in Handlers, ApplyDelete(h), UNCHANGED pushed
  PROVE  (\E r \in ResIds : Ledger!Withdraw(r)) \/ UNCHANGED <<life, pushed>>
<1> DEFINE r == req[h].res
<1>1. PICK fk \in BOOLEAN : DeleteReservation(r, fk)
  BY DEF ApplyDelete
<1> HIDE DEF r
<1>2. /\ DOMAIN reservations' = DOMAIN reservations \ {r}
      /\ \A q \in DOMAIN reservations \ {r} : reservations'[q] = reservations[q]
      /\ UNCHANGED nextId
  BY <1>1, DeleteType DEF IndInv, TypeOK
<1>3. CASE Exists(r)
  <2>1. r \in ResIds /\ r < nextId /\ ~(r >= nextId)
    BY <1>3, RowIds
  <2>2. Life(r) \in {"waiting", "settled"}
    BY <1>3, <2>1 DEF Life
  <2>3. \A q \in ResIds : Life(q)' = IF q = r THEN "withdrawn" ELSE Life(q)
    BY <1>2, <2>1 DEF Life, Exists, Settled
  <2>4. [q \in ResIds |-> Life(q)]' = [[q \in ResIds |-> Life(q)] EXCEPT ![r] = "withdrawn"]
    BY <2>1, <2>3
  <2> QED
    BY <2>1, <2>2, <2>4 DEF Ledger!Withdraw
<1>4. CASE ~Exists(r)
  BY <1>2, <1>4, Stutters DEF Life, Exists, Settled
<1> QED
  BY <1>3, <1>4

\* An accepted chunk is told to booked reservations.
LEMMA PushTells ==
  ASSUME IndInv, NEW p \in Procs, SendChunk(p) \/ SendAnswerLost(p)
  PROVE  \E pairs \in SUBSET (ResIds \X Songs) : Ledger!Tell(pairs)
<1>1. /\ run[p].pc = "send" /\ pushed' = pushed \cup Chunk(run[p])
      /\ UNCHANGED storeVars
  BY DEF SendChunk, SendAnswerLost
<1>2. Chunk(run[p]) \in SUBSET (ResIds \X Songs)
  BY <1>1, ChunkFacts
<1>3. Chunk(run[p]) \subseteq Ledger!Booked \X Songs
  <2>1. \A x \in Chunk(run[p]) : x[1] \in ResIds /\ x[2] \in Songs /\ x[1] < nextId
    BY <1>1, ChunkFacts
  <2>2. \A x \in Chunk(run[p]) : x[1] \in Ledger!Booked
    BY <2>1, BookedIds
  <2> QED
    BY <1>2, <2>1, <2>2
<1>4. UNCHANGED [r \in ResIds |-> Life(r)]
  BY <1>1, LifeKept DEF storeVars
<1> QED
  BY <1>1, <1>2, <1>3, <1>4 DEF Ledger!Tell

\* An UPDATE that settles a row settles a reservation that was told.
LEMMA RowSettles ==
  ASSUME IndInv, NEW r, NEW row, UpdateRow(r, row), UNCHANGED pushed,
         Pairs(r) # {}, Exists(r) => Settled(row)
  PROVE  (\E q \in ResIds : Ledger!Settle(q)) \/ UNCHANGED <<life, pushed>>
<1>1. /\ DOMAIN reservations' = DOMAIN reservations
      /\ \A q \in DOMAIN reservations :
           reservations'[q] = IF q = r THEN row ELSE reservations[q]
      /\ UNCHANGED nextId
  BY DEF UpdateRow, Exists, IndInv, TypeOK, StoreTypeOK
<1>2. CASE Exists(r) /\ ~Settled(reservations[r])
  <2>1. r \in ResIds /\ r < nextId /\ ~(r >= nextId)
    BY <1>2, RowIds
  <2>2. Life(r) = "waiting"
    BY <1>2, <2>1 DEF Life
  <2>3. \A q \in ResIds : Life(q)' = IF q = r THEN "settled" ELSE Life(q)
    BY <1>1, <1>2, <2>1 DEF Life, Exists, Settled
  <2>4. [q \in ResIds |-> Life(q)]' = [[q \in ResIds |-> Life(q)] EXCEPT ![r] = "settled"]
    BY <2>1, <2>3
  <2>5. \E s \in Songs : <<r, s>> \in pushed
    BY DEF Pairs, IndInv, TypeOK, MatchingTypeOK
  <2> QED
    BY <2>1, <2>2, <2>4, <2>5 DEF Ledger!Settle
<1>3. CASE Exists(r) /\ Settled(reservations[r])
  BY <1>1, <1>3, Stutters DEF Life, Exists, Settled
<1>4. CASE ~Exists(r)
  BY <1>1, <1>4, Stutters DEF Life, Exists, Settled
<1> QED
  BY <1>2, <1>3, <1>4

LEMMA RecordingSettles ==
  ASSUME IndInv, NEW p \in Procs, Recording(p)
  PROVE  (\E q \in ResIds : Ledger!Settle(q)) \/ UNCHANGED <<life, pushed>>
<1> DEFINE r == Current(p).res
           id == SongId(Current(p).song)
<1>1. CASE RecordArtistOnly(p) \/ RecordFails(p)
  BY <1>1, LifeKept, Stutters
     DEF RecordArtistOnly, RecordNotification, RecordFails, storeVars
<1>2. ASSUME run[p].pc \in {"record", "notify"} PROVE Pairs(r) # {}
  <2>1. <<r, Current(p).song>> \in pushed
    BY <1>2, CurrentFacts
  <2> QED
    BY <2>1 DEF Pairs
<1>3. Exists(r) => reservations[r] \in Row
  BY DEF IndInv, TypeOK, StoreTypeOK, Exists
<1>4. CASE MarkMatched(p)
  <2>1. PICK fk \in BOOLEAN : MarkAsMatched(r, id, fk)
    BY <1>4 DEF MarkMatched, Enforces
  <2>2. Pairs(r) # {} /\ UNCHANGED pushed
    BY <1>2, <1>4 DEF MarkMatched
  <2> HIDE DEF r, id
  <2>3. CASE UNCHANGED storeVars
    BY <2>2, <2>3, LifeKept, Stutters DEF storeVars
  <2>4. CASE UpdateRow(r, [reservations[r] EXCEPT !.status = "matched", !.song = id])
    <3>1. Exists(r) =>
            Settled([reservations[r] EXCEPT !.status = "matched", !.song = id])
      BY <1>3 DEF Row, Settled
    <3> QED
      BY <2>2, <2>4, <3>1, RowSettles
  <2> QED
    BY <2>1, <2>3, <2>4 DEF MarkAsMatched
<1>5. CASE MarkNotified(p)
  <2>1. UpdateRow(r, [reservations[r] EXCEPT !.notified = TRUE])
    BY <1>5 DEF MarkNotified, MarkAsNotified
  <2>2. Pairs(r) # {} /\ UNCHANGED pushed
    BY <1>2, <1>5 DEF MarkNotified
  <2> HIDE DEF r
  <2>3. Exists(r) => Settled([reservations[r] EXCEPT !.notified = TRUE])
    BY <1>3 DEF Row, Settled
  <2> QED
    BY <2>1, <2>2, <2>3, RowSettles
<1> QED
  BY <1>1, <1>4, <1>5 DEF Recording

\* The two halves of the refinement.
LEMMA InitMaps == Init => Ledger!Init
<1> SUFFICES ASSUME Init PROVE Ledger!Init
  OBVIOUS
<1>1. \A r \in ResIds : Life(r) = "unborn"
  BY DEF Init, StoreInit, Life, ResIds
<1> QED
  BY <1>1 DEF Ledger!Init, Init, MatchingInit

LEMMA StepMaps ==
  ASSUME IndInv, [Next]_vars
  PROVE  Ledger!Next \/ UNCHANGED <<life, pushed>>
<1>1. CASE ApiNext /\ UNCHANGED <<now, listed, pushed, run>>
  <2>1. CASE \/ \E d \in Devices : Register(d)
             \/ \E h \in Handlers, rq \in Request : Check(h, rq)
             \/ \E h \in Handlers : ApplyFails(h)
    BY <1>1, <2>1, LifeKept, Stutters DEF Register, UpsertDevice, Check, ApplyFails, storeVars
  <2>2. CASE \E d \in Devices, t \in Terms : Create(d, t)
    BY <1>1, <2>2, CreateBooks DEF Ledger!Next
  <2>3. CASE \E h \in Handlers : ApplyUpdate(h)
    BY <1>1, <2>3, UpdateStutters
  <2>4. CASE \E h \in Handlers : ApplyDelete(h)
    BY <1>1, <2>4, DeleteWithdraws DEF Ledger!Next
  <2> QED
    BY <1>1, <2>1, <2>2, <2>3, <2>4 DEF ApiNext
<1>2. ASSUME NEW p \in Procs, Pipeline(p)
      PROVE  Ledger!Next \/ UNCHANGED <<life, pushed>>
  <2>1. CASE SendChunk(p) \/ SendAnswerLost(p)
    BY <2>1, PushTells DEF Ledger!Next
  <2>2. CASE Recording(p)
    BY <2>2, RecordingSettles DEF Ledger!Next
  <2>3. CASE ~(SendChunk(p) \/ SendAnswerLost(p) \/ Recording(p))
    <3>1. UNCHANGED <<reservations, nextId, pushed>>
      BY <1>2, <2>3 DEF Pipeline, Start, FetchMonth, FetchFails, UpsertMany, Snapshot,
         SnapshotFails, Scan, ScanFails, SendFails, storeVars
    <3> QED
      BY <3>1, LifeKept, Stutters
  <2> QED
    BY <2>1, <2>2, <2>3
<1>3. CASE \/ \E s \in Songs : Publish(s)
           \/ Rollover
           \/ \E p \in Procs : Crash(p)
           \/ UNCHANGED vars
  BY <1>3, LifeKept, Stutters DEF Publish, Rollover, Crash, storeVars, vars
<1> QED
  BY <1>1, <1>2, <1>3 DEF Next

\* The service keeps the promise of the ledger: a reservation is booked under a
\* fresh id, settles only once its subscriber was told of a song, and neither
\* waits again after that nor comes back after it is withdrawn.
THEOREM ImplementsLedger == Spec => KeepsLedger
<1>1. IndInv /\ [Next]_vars => [Ledger!Next]_<<life, pushed>>
  BY StepMaps
<1>2. IndInv /\ [Next]_vars => [Ledger!Next]_<<[r \in ResIds |-> Life(r)], pushed>>
  BY <1>1 DEF life
<1> QED
  BY <1>2, InitMaps, Inductive, PTL DEF Spec, KeepsLedger, Ledger!Spec
=============================================================================
