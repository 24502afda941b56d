--------------------------- MODULE SongMatching ---------------------------
(***************************************************************************)
(* The pipeline that fetches TJ's new songs, stores them, matches them     *)
(* against the reservations, pushes notifications and records what was     *)
(* sent.  The server's SongScheduler goroutine runs it for the current     *)
(* month, again and again; cmd/fetch, a process of its own on the same     *)
(* database, runs it once for the current month or for every month.        *)
(*                                                                         *)
(* One action is one statement, one HTTP call or one answer.  TJ's listing *)
(* and Expo's push service are external.                                   *)
(***************************************************************************)
EXTENDS ReservationStore, Sequences

CONSTANTS
    Server,           \* the scheduler goroutine of cmd/server
    Clis,             \* processes running cmd/fetch
    MonthOf,          \* MonthOf[s]: the month TJ lists s under
    MaxMonth,         \* bound on the months that pass
    BatchSize,        \* maxBatchSize of a push request
    Faults            \* what may fail: TJ, the database, Expo, a process

Procs == {Server} \cup Clis

ASSUME MatchingAssumption ==
    /\ Server \notin Clis
    /\ MaxMonth \in Nat \ {0}
    /\ MonthOf \in [Songs -> 1 .. MaxMonth]
    /\ BatchSize \in Nat \ {0}
    /\ Faults \subseteq {"tj", "store", "expo", "crash"}

VARIABLES
    now,              \* the current month
    listed,           \* songs TJ has published
    pushed,           \* history: <<reservation, song>> pairs Expo has accepted
    run               \* run[p]: local state of p's pipeline

Match == [res : ResIds, only : BOOLEAN, song : Songs]

Run == [pc      : {"idle", "fetch", "snapshot", "scan", "send", "record", "notify"},
        months  : SUBSET (1 .. MaxMonth),   \* still to be fetched
        found   : SUBSET Songs,             \* fetched and stored
        todo    : SUBSET Match,             \* textual matches still to be looked at
        matches : Seq(Match),               \* matches to be pushed
        done    : Nat]                      \* how many are sent, then recorded

IdleRun == [pc |-> "idle", months |-> {}, found |-> {}, todo |-> {},
            matches |-> <<>>, done |-> 0]

MatchingTypeOK ==
    /\ now \in 1 .. MaxMonth
    /\ listed \subseteq Songs
    /\ pushed \subseteq ResIds \X Songs
    /\ run \in [Procs -> Run]

MatchingInit ==
    /\ now = 1
    /\ listed = {}
    /\ pushed = {}
    /\ run = [p \in Procs |-> IdleRun]

worldVars == <<now, listed>>

\* The server's statements run on whichever pooled connection is free, and
\* PRAGMA foreign_keys=ON reached only one of them; cmd/fetch never has two
\* statements open, so that its pool stays at that one connection.
Enforces(p) == IF p = Server THEN BOOLEAN ELSE {TRUE}

-----------------------------------------------------------------------------
(* TJ and the calendar.                                                    *)

Publish(s) ==
    /\ s \notin listed
    /\ MonthOf[s] <= now
    /\ listed' = listed \cup {s}
    /\ UNCHANGED <<now, pushed, run, storeVars>>

Rollover ==
    /\ now < MaxMonth
    /\ now' = now + 1
    /\ UNCHANGED <<listed, pushed, run, storeVars>>

-----------------------------------------------------------------------------
(* Fetching.                                                               *)

Plans(p) == IF p = Server THEN {{now}} ELSE {{now}, 1 .. now}

Start(p) ==
    /\ run[p].pc = "idle"
    /\ \E plan \in Plans(p) :
         run' = [run EXCEPT ![p] = [IdleRun EXCEPT !.pc = "fetch", !.months = plan]]
    /\ UNCHANGED <<worldVars, pushed, storeVars>>

\* The state after a month is dealt with: the next month, or matching if any
\* song was stored, or the end of the run.
Fetched(months, found) ==
    IF months # {}
    THEN [IdleRun EXCEPT !.pc = "fetch", !.months = months, !.found = found]
    ELSE IF found # {} THEN [IdleRun EXCEPT !.pc = "snapshot", !.found = found]
                       ELSE IdleRun

NextMonth(p, m) ==
    /\ run[p].pc = "fetch"
    /\ m \in run[p].months
    /\ \A n \in run[p].months : m <= n

\* Faulty variant: only songs that are new to the songs table are matched.
FetchMonthNewOnly(p) ==
    \E m \in run[p].months :
      LET batch == {s \in listed : MonthOf[s] = m}
      IN  /\ NextMonth(p, m)
          /\ UpsertMany(batch)
          /\ run' = [run EXCEPT ![p] =
                       Fetched(run[p].months \ {m}, run[p].found \cup (batch \ songs))]
          /\ UNCHANGED <<worldVars, pushed>>

\* FetchByMonth and UpsertMany.  They can be one step: nothing but TJ's list
\* is read by the first, and a song published between them is as good as
\* published after them.  An empty list is not stored and adds no song.
FetchMonth(p) ==
    \E m \in run[p].months :
      LET batch == {s \in listed : MonthOf[s] = m}
      IN  /\ NextMonth(p, m)
          /\ UpsertMany(batch)
          /\ run' = [run EXCEPT ![p] =
                       Fetched(run[p].months \ {m}, run[p].found \cup batch)]
          /\ UNCHANGED <<worldVars, pushed>>

\* Faulty variant: the month is kept for matching before it is stored.
FetchFailsKeepingMonth(p) ==
    \E m \in run[p].months :
      LET batch == {s \in listed : MonthOf[s] = m}
      IN  /\ Faults \cap {"tj", "store"} # {}
          /\ NextMonth(p, m)
          /\ run' = [run EXCEPT ![p] =
                       Fetched(run[p].months \ {m}, run[p].found \cup batch)]
          /\ UNCHANGED <<worldVars, pushed, storeVars>>

\* The download fails, or the transaction is rolled back: the month is skipped.
FetchFails(p) ==
    \E m \in run[p].months :
      /\ Faults \cap {"tj", "store"} # {}
      /\ NextMonth(p, m)
      /\ run' = [run EXCEPT ![p] = Fetched(run[p].months \ {m}, run[p].found)]
      /\ UNCHANGED <<worldVars, pushed, storeVars>>

-----------------------------------------------------------------------------
(* MatchNewSongs: collecting the matches.                                  *)

\* The textual matches of the rows FindActiveWithTokens returns.
Candidates(found) ==
    {m \in Match : /\ Exists(m.res)
                   /\ ~Settled(reservations[m.res])
                   /\ m.only = IsArtistOnly(reservations[m.res])
                   /\ m.song \in found
                   /\ Eligible(reservations[m.res], m.song)}

Snapshot(p) ==
    /\ run[p].pc = "snapshot"
    /\ LET todo == Candidates(run[p].found)
       IN  run' = [run EXCEPT ![p] =
                     IF todo = {} THEN IdleRun
                     ELSE [@ EXCEPT !.pc = "scan", !.todo = todo]]
    /\ UNCHANGED <<worldVars, pushed, storeVars>>

SnapshotFails(p) ==
    /\ "store" \in Faults
    /\ run[p].pc = "snapshot"
    /\ run' = [run EXCEPT ![p] = IdleRun]
    /\ UNCHANGED <<worldVars, pushed, storeVars>>

\* The loops are nested, reservations outside, in the order of the index on
\* status, that is by id; a month's songs come in the order of TJ's page.
Turn(p, m) ==
    /\ run[p].pc = "scan"
    /\ m \in run[p].todo
    /\ \A n \in run[p].todo : m.res <= n.res

\* Faulty variant: matches are recorded before they are sent.
ScannedRecordingFirst(rn, m, matches) ==
    IF rn.todo \ {m} # {}
    THEN [rn EXCEPT !.todo = @ \ {m}, !.matches = matches]
    ELSE IF matches # <<>>
         THEN [rn EXCEPT !.pc = "record", !.todo = {}, !.matches = matches]
         ELSE IdleRun

\* The state after match m is looked at, with the matches then collected.
Scanned(rn, m, matches) ==
    IF rn.todo \ {m} # {}
    THEN [rn EXCEPT !.todo = @ \ {m}, !.matches = matches]
    ELSE IF matches # <<>>
         THEN [rn EXCEPT !.pc = "send", !.todo = {}, !.matches = matches]
         ELSE IdleRun

\* Faulty variant: an artist-only match is not looked up.
ScanUnchecked(p, m) ==
    /\ Turn(p, m)
    /\ run' = [run EXCEPT ![p] = Scanned(@, m, Append(@.matches, m))]
    /\ UNCHANGED <<worldVars, pushed, storeVars>>

Scan(p, m) ==
    /\ Turn(p, m)
    /\ LET known == m.only /\ HasNotified(m.res, SongId(m.song))
       IN  run' = [run EXCEPT ![p] =
                     Scanned(@, m, IF known THEN @.matches
                                            ELSE Append(@.matches, m))]
    /\ UNCHANGED <<worldVars, pushed, storeVars>>

\* HasNotified fails: the song is passed over in this run.
ScanFails(p, m) ==
    /\ "store" \in Faults
    /\ Turn(p, m)
    /\ m.only
    /\ run' = [run EXCEPT ![p] = Scanned(@, m, @.matches)]
    /\ UNCHANGED <<worldVars, pushed, storeVars>>

-----------------------------------------------------------------------------
(* SendBatch: chunks of at most BatchSize, up to the first that fails.     *)

ChunkEnd(rn) == IF rn.done + BatchSize < Len(rn.matches)
                THEN rn.done + BatchSize ELSE Len(rn.matches)

Chunk(rn) == {<<rn.matches[i].res, rn.matches[i].song>> : i \in rn.done + 1 .. ChunkEnd(rn)}

SendChunk(p) ==
    /\ run[p].pc = "send"
    /\ pushed' = pushed \cup Chunk(run[p])
    /\ run' = [run EXCEPT ![p] =
                 IF ChunkEnd(@) = Len(@.matches)
                 THEN [@ EXCEPT !.pc = "record", !.done = 0]
                 ELSE [@ EXCEPT !.done = ChunkEnd(run[p])]]
    /\ UNCHANGED <<worldVars, storeVars>>

\* Faulty variant: the error of SendBatch is logged and not returned.
SendFailsUnnoticed(p) ==
    /\ "expo" \in Faults
    /\ run[p].pc = "send"
    /\ run' = [run EXCEPT ![p].pc = "record", ![p].done = 0]
    /\ UNCHANGED <<worldVars, pushed, storeVars>>

\* Expo does not get the request, or refuses it.
SendFails(p) ==
    /\ "expo" \in Faults
    /\ run[p].pc = "send"
    /\ run' = [run EXCEPT ![p] = IdleRun]
    /\ UNCHANGED <<worldVars, pushed, storeVars>>

\* Expo accepts the request, and the answer is lost or comes too late.
SendAnswerLost(p) ==
    /\ "expo" \in Faults
    /\ run[p].pc = "send"
    /\ pushed' = pushed \cup Chunk(run[p])
    /\ run' = [run EXCEPT ![p] = IdleRun]
    /\ UNCHANGED <<worldVars, storeVars>>

-----------------------------------------------------------------------------
(* Recording what was sent, match by match; an error is logged, no more.   *)

Current(p) == run[p].matches[run[p].done + 1]

Recorded(rn) ==
    IF rn.done + 1 = Len(rn.matches) THEN IdleRun
    ELSE [rn EXCEPT !.pc = "record", !.done = @ + 1]

RecordArtistOnly(p) ==
    /\ run[p].pc = "record"
    /\ Current(p).only
    /\ \E fk \in Enforces(p) :
         RecordNotification(Current(p).res, SongId(Current(p).song), fk)
    /\ run' = [run EXCEPT ![p] = Recorded(@)]
    /\ UNCHANGED <<worldVars, pushed>>

MarkMatched(p) ==
    /\ run[p].pc = "record"
    /\ ~Current(p).only
    /\ \E fk \in Enforces(p) :
         MarkAsMatched(Current(p).res, SongId(Current(p).song), fk)
    /\ run' = [run EXCEPT ![p].pc = "notify"]
    /\ UNCHANGED <<worldVars, pushed>>

MarkNotified(p) ==
    /\ run[p].pc = "notify"
    /\ MarkAsNotified(Current(p).res)
    /\ run' = [run EXCEPT ![p] = Recorded(@)]
    /\ UNCHANGED <<worldVars, pushed>>

RecordFails(p) ==
    /\ "store" \in Faults
    /\ run[p].pc \in {"record", "notify"}
    /\ run' = [run EXCEPT ![p] =
                 IF @.pc = "record" /\ ~Current(p).only
                 THEN [@ EXCEPT !.pc = "notify"] ELSE Recorded(@)]
    /\ UNCHANGED <<worldVars, pushed, storeVars>>

-----------------------------------------------------------------------------
Recording(p) == RecordArtistOnly(p) \/ MarkMatched(p) \/ MarkNotified(p) \/ RecordFails(p)

Pipeline(p) ==
    \/ Start(p)
    \/ FetchMonth(p)
    \/ FetchFails(p)
    \/ Snapshot(p)
    \/ SnapshotFails(p)
    \/ \E m \in run[p].todo : Scan(p, m) \/ ScanFails(p, m)
    \/ SendChunk(p)
    \/ SendFails(p)
    \/ SendAnswerLost(p)
    \/ Recording(p)
=============================================================================
