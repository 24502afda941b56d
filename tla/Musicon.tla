------------------------------ MODULE Musicon ------------------------------
(***************************************************************************)
(* The notification service: the HTTP API, the scheduler goroutine and the *)
(* cmd/fetch processes on one database.                                    *)
(***************************************************************************)
EXTENDS SongMatching, ReservationApi

vars == <<devices, reservations, nextId, notifications, songs,
          now, listed, pushed, run, req>>

Init == StoreInit /\ MatchingInit /\ ApiInit

\* A process stops: a crash, or a shutdown, since Stop does not wait for a run
\* in progress.  What is in memory is lost.
Crash(p) ==
    /\ "crash" \in Faults
    /\ \/ run[p] # IdleRun
       \/ p = Server /\ \E h \in Handlers : req[h] # NoReq
    /\ run' = [run EXCEPT ![p] = IdleRun]
    /\ req' = IF p = Server THEN [h \in Handlers |-> NoReq] ELSE req
    /\ UNCHANGED <<worldVars, pushed, storeVars>>

Next ==
    \/ ApiNext /\ UNCHANGED <<now, listed, pushed, run>>
    \/ (\E s \in Songs : Publish(s)) /\ UNCHANGED req
    \/ Rollover /\ UNCHANGED req
    \/ \E p \in Procs : Pipeline(p) /\ UNCHANGED req
    \/ \E p \in Procs : Crash(p)

Spec == Init /\ [][Next]_vars

\* The scheduler's ticker starts a run again and again, and its goroutine does
\* not stop in the middle of one; a statement or a call that is tried again and
\* again works some time, whichever match or chunk it is about.  TJ, the
\* clients, the calendar and cmd/fetch owe nothing.
Fairness ==
    /\ WF_vars(Start(Server) /\ UNCHANGED req)
    /\ WF_vars(Recording(Server) /\ UNCHANGED req)
    /\ SF_vars(FetchMonth(Server) /\ UNCHANGED req)
    /\ SF_vars(Snapshot(Server) /\ UNCHANGED req)
    /\ \A m \in Match : SF_vars(Scan(Server, m) /\ UNCHANGED req)
    /\ \A i \in 0 .. Cardinality(Match) :
         SF_vars(run[Server].done = i /\ SendChunk(Server) /\ UNCHANGED req)

FairSpec == Spec /\ Fairness

-----------------------------------------------------------------------------
(* Properties.                                                             *)

\* Every variable keeps its type.
TypeOK == StoreTypeOK /\ MatchingTypeOK /\ ApiTypeOK

Pairs(r) == {x \in pushed : x[1] = r}

\* A reservation that matching will never look at again, and one whose
\* subscriber is on record as notified, had a push accepted by Expo: sending
\* comes before recording, and neither a failed or half-sent batch, nor a
\* crash, nor an edit in the middle of a run loses the notification.
SettledWasPushed ==
    \A r \in ResIds :
      (\/ Exists(r) /\ Settled(reservations[r])
       \/ \E n \in notifications : n[1] = r) => Pairs(r) # {}

\* What a run is about to push is still open: no row settled since the
\* snapshot, and no artist-only pair already on record, whatever the clients
\* do meanwhile.  It is the scheduler alone that makes it so: see
\* NothingSettledIsSent in the README for the run of two processes.
NothingSettledIsSent ==
    \A p \in Procs : run[p].pc = "send" =>
      \A i \in run[p].done + 1 .. Len(run[p].matches) :
        LET m == run[p].matches[i]
        IN  /\ Exists(m.res) => ~Settled(reservations[m.res])
            /\ m.only => ~HasNotified(m.res, SongId(m.song))

\* Nobody is told of a song that is not in the songs table: a month whose
\* transaction was rolled back is not matched, in the run of several months
\* either, so that the song a push names can be searched for.
PushedSongIsStored == \A x \in pushed : x[2] \in songs

\* The terms of a reservation change, and the reservation goes, only by the
\* answer to a request of the device it belongs to, even though the owner is
\* checked in one statement and the row changed in another.
OwnerStep ==
    \A r \in DOMAIN reservations :
      (\/ r \notin DOMAIN reservations'
       \/ reservations'[r].artist # reservations[r].artist
       \/ reservations'[r].title # reservations[r].title)
      => \E h \in Handlers :
           /\ req[h] # NoReq
           /\ req[h].res = r
           /\ req[h].device = reservations[r].device
           /\ req'[h] = NoReq

OwnerOnly == [][OwnerStep]_vars

\* Reservation r waits for song s of this month's list.
Awaits(r, s) ==
    /\ Exists(r)
    /\ ~Settled(reservations[r])
    /\ Eligible(reservations[r], s)
    /\ s \in listed
    /\ MonthOf[s] = now
    /\ <<r, s>> \notin pushed

\* No reservation waits for ever for a song TJ lists this month: a titled one
\* for any song that matches it, an artist-only one for its first.  The
\* scheduler fetches the whole month again each time, which makes up for failed
\* downloads, rolled back inserts, failed lookups and failed chunks.
EventuallyPushed ==
    \A r \in ResIds, s \in Songs :
      []<>~(/\ Awaits(r, s)
            /\ ~IsArtistOnly(reservations[r]) \/ Pairs(r) = {})

-----------------------------------------------------------------------------
(* The promise of the service, and how the tables keep it.                 *)

Life(r) ==
    IF r >= nextId THEN "unborn"
    ELSE IF ~Exists(r) THEN "withdrawn"
    ELSE IF Settled(reservations[r]) THEN "settled" ELSE "waiting"

Ledger == INSTANCE ReservationLedger
          WITH Ids <- ResIds, life <- [r \in ResIds |-> Life(r)], told <- pushed

\* Every step of the API, of the scheduler and of cmd/fetch is a step of the
\* ledger or changes nothing in it: ids are not used twice, a reservation
\* settles only after a push for it, and a settled one waits no more.
KeepsLedger == Ledger!Spec

-----------------------------------------------------------------------------
(* The inductive invariant behind the properties above.                    *)

\* What process p holds in memory is about booked reservations and stored
\* songs, and the part of its matches it has sent was accepted by Expo.
RunInv(rn) ==
    /\ rn.found \subseteq songs
    /\ \A m \in rn.todo : m.res < nextId /\ m.song \in songs
    /\ \A i \in 1 .. Len(rn.matches) :
         /\ rn.matches[i].res < nextId
         /\ rn.matches[i].song \in songs
         /\ \/ rn.pc \in {"record", "notify"}
            \/ rn.pc = "send" /\ i <= rn.done
            => <<rn.matches[i].res, rn.matches[i].song>> \in pushed
    /\ IF rn.pc \in {"send", "record", "notify"}
       THEN rn.done < Len(rn.matches) ELSE rn.done = 0

\* A checked request still names a reservation of its own device, if the
\* reservation still exists.
ReqInv ==
    \A h \in Handlers : req[h] # NoReq =>
      /\ req[h].res < nextId
      /\ Exists(req[h].res) => reservations[req[h].res].device = req[h].device

\* Expo was told only of booked reservations and stored songs.
PushedInv == \A x \in pushed : x[1] < nextId /\ x[2] \in songs

\* The invariant TLAPS proves; it is inductive.
IndInv ==
    /\ TypeOK
    /\ \A p \in Procs : RunInv(run[p])
    /\ ReqInv
    /\ PushedInv
    /\ SettledWasPushed

-----------------------------------------------------------------------------
(* What the repository says of itself, and the code does not do.           *)

\* matching_service.go:30: "Artist-only reservations (title == "") match all
\* songs by that artist and stay active."
ArtistOnlyHearsAll ==
    \A r \in ResIds, s \in Songs :
      []<>~(Awaits(r, s) /\ IsArtistOnly(reservations[r]))
=============================================================================
