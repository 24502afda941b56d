---------------------------- MODULE MusicProofs ----------------------------
(***************************************************************************)
(* Proofs about MusicSync, for any number of devices, providers, tracks,   *)
(* songs and concurrent requests, any bounds and any faults.               *)
(*                                                                         *)
(* Init and every step keep MusicInv; type correctness,                    *)
(* TokensStayWithDevice and MatchOfItsTrack follow from it.  With          *)
(* LibraryInv it shows that MusicSync implements MusicLibrary.             *)
(***************************************************************************)
EXTENDS MusicSync, FiniteSetTheorems, TLAPS

USE MusicStoreAssumption, MusicSyncAssumption

-----------------------------------------------------------------------------
(* The SQL statements.                                                     *)

\* Rows of music_accounts outlive a statement with their owner, and a new row
\* has an id never given out before.
AccountsKept ==
    /\ IsTable(accounts, Account)'
    /\ nextAccount' \in Nat \ {0} /\ nextAccount <= nextAccount'
    /\ \A a \in DOMAIN accounts' :
         /\ a < nextAccount'
         /\ a < nextAccount => /\ a \in DOMAIN accounts
                               /\ accounts'[a].device = accounts[a].device
                               /\ accounts'[a].provider = accounts[a].provider

\* The same for music_tracks, the track of a row included.
TracksKept ==
    /\ IsTable(tracks, Track)'
    /\ nextTrack' \in Nat \ {0} /\ nextTrack <= nextTrack'
    /\ \A t \in DOMAIN tracks' :
         /\ t < nextTrack'
         /\ t < nextTrack => t \in DOMAIN tracks /\ KeyOf(t)' = KeyOf(t)

\* Connect's upsert: the rows it writes are of its device and provider and hold
\* its token, and the others are left alone.
LEMMA UpsertAccountKeeps ==
  ASSUME MusicStoreTypeOK, IdsInv,
         NEW d \in Devices, NEW p \in Providers, NEW token \in Token,
         UpsertAccount(d, p, token)
  PROVE  /\ AccountsKept
         /\ \A a \in DOMAIN accounts' :
              \/ a \in DOMAIN accounts /\ accounts'[a] = accounts[a]
              \/ accounts'[a] = [device |-> d, provider |-> p, token |-> token]
<1> DEFINE row == [device |-> d, provider |-> p, token |-> token]
<1>1. row \in Account
  BY DEF Account
<1>2. CASE AccountsOf(d, p) # {}
  <2>1. /\ accounts' = [a \in DOMAIN accounts |->
                          IF a \in AccountsOf(d, p) THEN row ELSE accounts[a]]
        /\ nextAccount' = nextAccount
    BY <1>2 DEF UpsertAccount
  <2>2. IsTable(accounts, Account)'
    BY <1>1, <2>1 DEF MusicStoreTypeOK, IsTable
  <2>3. \A a \in DOMAIN accounts' :
          /\ a < nextAccount' /\ a \in DOMAIN accounts
          /\ accounts'[a].device = accounts[a].device
          /\ accounts'[a].provider = accounts[a].provider
    BY <2>1 DEF AccountsOf, IdsInv
  <2> QED
    BY <2>1, <2>2, <2>3 DEF AccountsKept, MusicStoreTypeOK
<1>3. CASE AccountsOf(d, p) = {}
  <2>1. /\ nextAccount <= MaxRows /\ nextAccount' = nextAccount + 1
        /\ accounts' = [a \in DOMAIN accounts \cup {nextAccount} |->
                          IF a = nextAccount THEN row ELSE accounts[a]]
    BY <1>3 DEF UpsertAccount, NextId, Put
  <2>2. IsTable(accounts, Account)'
    BY <1>1, <2>1 DEF MusicStoreTypeOK, IsTable, RowIds
  <2>3. \A a \in DOMAIN accounts' :
          \/ a = nextAccount /\ accounts'[a] = row
          \/ a < nextAccount /\ a \in DOMAIN accounts /\ accounts'[a] = accounts[a]
    BY <2>1 DEF IdsInv
  <2>4. nextAccount \in Nat \ {0} /\ DOMAIN accounts' \subseteq Nat
    BY <2>2 DEF MusicStoreTypeOK, IsTable, RowIds
  <2> HIDE DEF row
  <2>5. \A a \in DOMAIN accounts' :
          \/ a \in DOMAIN accounts /\ accounts'[a] = accounts[a]
          \/ accounts'[a] = row
    BY <2>3
  <2>6. nextAccount < nextAccount'
    BY <2>1, <2>4
  <2>7. \A a \in DOMAIN accounts' : a < nextAccount'
    BY <2>1, <2>3, <2>4
  <2>8. \A a \in DOMAIN accounts' : a < nextAccount =>
          a \in DOMAIN accounts /\ accounts'[a] = accounts[a]
    BY <2>3, <2>4
  <2>9. AccountsKept
    BY <2>1, <2>2, <2>4, <2>6, <2>7, <2>8 DEF AccountsKept
  <2> QED
    BY <2>5, <2>9 DEF row
<1> QED
  BY <1>2, <1>3

\* Disconnect's DELETE takes rows away and changes none.
LEMMA DeleteAccountKeeps ==
  ASSUME MusicStoreTypeOK, IdsInv, NEW d, NEW p, DeleteAccount(d, p), UNCHANGED nextAccount
  PROVE  /\ AccountsKept
         /\ DOMAIN accounts' \subseteq DOMAIN accounts
         /\ \A a \in DOMAIN accounts' : accounts'[a] = accounts[a]
<1>1. accounts' = [a \in DOMAIN accounts \ AccountsOf(d, p) |-> accounts[a]]
  BY DEF DeleteAccount, Restrict
<1>2. IsTable(accounts, Account)'
  BY <1>1 DEF MusicStoreTypeOK, IsTable
<1> QED
  BY <1>1, <1>2 DEF AccountsKept, IdsInv, MusicStoreTypeOK

\* UPDATE by id changes the token of at most the one row.
LEMMA UpdateTokensKeeps ==
  ASSUME MusicStoreTypeOK, IdsInv, NEW id, NEW old, NEW new \in Token,
         UpdateTokens(id, old, new), UNCHANGED nextAccount
  PROVE  /\ AccountsKept
         /\ DOMAIN accounts' = DOMAIN accounts
         /\ \A a \in DOMAIN accounts :
              accounts'[a] = IF a = id THEN [accounts[a] EXCEPT !.token = new]
                             ELSE accounts[a]
<1>1. accounts' = [a \in DOMAIN accounts |->
                     IF a = id THEN [accounts[a] EXCEPT !.token = new] ELSE accounts[a]]
  BY DEF UpdateTokens
<1>2. \A a \in DOMAIN accounts :
        /\ accounts[a] \in Account
        /\ [accounts[a] EXCEPT !.token = new] \in Account
        /\ [accounts[a] EXCEPT !.token = new].device = accounts[a].device
        /\ [accounts[a] EXCEPT !.token = new].provider = accounts[a].provider
  BY DEF MusicStoreTypeOK, IsTable, Account
<1>3. IsTable(accounts, Account)'
  BY <1>1, <1>2 DEF MusicStoreTypeOK, IsTable
<1> QED
  BY <1>1, <1>2, <1>3 DEF AccountsKept, IdsInv, MusicStoreTypeOK

\* The INSERTs of one transaction: finitely many rows, all of them new, of the
\* device and provider they are for; a row that was there keeps its track.
LEMMA UpsertTracksKeeps ==
  ASSUME MusicStoreTypeOK, IdsInv,
         NEW d \in Devices, NEW p \in Providers, NEW grant \in Grants,
         NEW exts \in SUBSET Exts, UpsertTracks(d, p, grant, exts)
  PROVE  /\ TracksKept
         /\ DOMAIN tracks \subseteq DOMAIN tracks'
         /\ \A t \in DOMAIN tracks' :
              \/ t \in DOMAIN tracks /\ tracks'[t].grant = tracks[t].grant
                 /\ KeyOf(t)' = KeyOf(t)
              \/ /\ tracks'[t].device = d /\ tracks'[t].provider = p
                 /\ tracks'[t].grant = grant
<1> DEFINE new == exts \ {tracks[t].ext : t \in TracksOf(d, p)}
           next == nextTrack + Cardinality(new)
<1>1. Cardinality(new) \in Nat
  <2>1. IsFiniteSet(new)
    BY FS_Subset
  <2> QED
    BY <2>1, FS_CardinalityType
<1> HIDE DEF new
<1>2. PICK at \in [new -> nextTrack .. next - 1] :
        /\ next - 1 <= MaxRows
        /\ tracks' = [t \in DOMAIN tracks \cup Range(at) |->
                        IF t \in DOMAIN tracks
                        THEN IF t \in TracksOf(d, p) /\ tracks[t].ext \in exts
                             THEN [tracks[t] EXCEPT !.grant = grant] ELSE tracks[t]
                        ELSE [device |-> d, provider |-> p, grant |-> grant,
                              ext |-> CHOOSE e \in new : at[e] = t]]
        /\ nextTrack' = next
  BY DEF UpsertTracks, NextId, new
<1>3. nextTrack \in Nat \ {0} /\ next \in Nat /\ next >= nextTrack
  BY <1>1 DEF MusicStoreTypeOK
<1>4. \A t \in Range(at) : /\ t \in nextTrack .. next - 1
                           /\ t \in RowIds /\ t \notin DOMAIN tracks
                           /\ \E e \in new : at[e] = t
  <2> HIDE DEF next
  <2>1. \A t \in Range(at) : \E e \in new : at[e] = t
    BY DEF Range
  <2>2. \A t \in Range(at) : t \in nextTrack .. next - 1
    BY <2>1
  <2> QED
    BY <1>2, <1>3, <2>1, <2>2 DEF RowIds, IdsInv
<1>5. \A t \in Range(at) : (CHOOSE e \in new : at[e] = t) \in Exts
  BY <1>4 DEF new
<1>6. \A t \in DOMAIN tracks :
        /\ t \in RowIds /\ t < nextTrack
        /\ tracks'[t] \in Track
        /\ KeyOf(t)' = KeyOf(t)
        /\ \/ tracks'[t].grant = tracks[t].grant
           \/ t \in TracksOf(d, p) /\ tracks'[t].grant = grant
  <2>1. \A t \in DOMAIN tracks :
          tracks'[t] = IF t \in TracksOf(d, p) /\ tracks[t].ext \in exts
                       THEN [tracks[t] EXCEPT !.grant = grant] ELSE tracks[t]
    BY <1>2
  <2>2. \A t \in DOMAIN tracks :
          /\ t \in RowIds /\ t < nextTrack
          /\ tracks[t] \in Track
          /\ [tracks[t] EXCEPT !.grant = grant] \in Track
          /\ [tracks[t] EXCEPT !.grant = grant].grant = grant
          /\ [tracks[t] EXCEPT !.grant = grant].device = tracks[t].device
          /\ [tracks[t] EXCEPT !.grant = grant].provider = tracks[t].provider
          /\ [tracks[t] EXCEPT !.grant = grant].ext = tracks[t].ext
    BY DEF MusicStoreTypeOK, IsTable, Track, IdsInv
  <2> QED
    BY <2>1, <2>2 DEF KeyOf
<1>7. \A t \in Range(at) :
        /\ tracks'[t] \in Track
        /\ tracks'[t].device = d /\ tracks'[t].provider = p /\ tracks'[t].grant = grant
  BY <1>2, <1>4, <1>5 DEF Track
<1>8. DOMAIN tracks' = DOMAIN tracks \cup Range(at)
  BY <1>2
<1>9. IsTable(tracks, Track)'
  BY <1>4, <1>6, <1>7, <1>8 DEF IsTable
<1>10. TracksKept
  <2> HIDE DEF next
  <2>1. nextTrack' = next
    BY <1>2
  <2>2. \A t \in DOMAIN tracks' : t \in Nat /\ t < nextTrack'
    BY <1>3, <1>4, <1>6, <1>8, <2>1 DEF RowIds
  <2>3. \A t \in DOMAIN tracks' : t < nextTrack => t \in DOMAIN tracks /\ KeyOf(t)' = KeyOf(t)
    BY <1>3, <1>4, <1>6, <1>8
  <2> QED
    BY <1>3, <1>9, <2>1, <2>2, <2>3 DEF TracksKept
<1>11. \A t \in TracksOf(d, p) : KeyOf(t).device = d /\ KeyOf(t).provider = p
  BY DEF TracksOf, KeyOf
<1>12. \A t \in TracksOf(d, p) : tracks'[t].device = d /\ tracks'[t].provider = p
  BY <1>6, <1>11 DEF KeyOf, TracksOf
<1> QED
  BY <1>6, <1>7, <1>8, <1>10, <1>12

\* Disconnect's DELETE takes rows of tracks and matches away and changes none.
LEMMA DeleteTracksKeeps ==
  ASSUME MusicStoreTypeOK, IdsInv, NEW d, NEW p, NEW fk \in BOOLEAN,
         DeleteTracks(d, p, fk), UNCHANGED nextTrack
  PROVE  /\ TracksKept
         /\ DOMAIN tracks' \subseteq DOMAIN tracks
         /\ \A t \in DOMAIN tracks' : tracks'[t] = tracks[t]
         /\ IsTable(matches, TrackMatch)'
         /\ DOMAIN matches' \subseteq DOMAIN matches
         /\ \A t \in DOMAIN matches' : matches'[t] = matches[t]
<1>1. tracks' = [t \in DOMAIN tracks \ TracksOf(d, p) |-> tracks[t]]
  BY DEF DeleteTracks, Restrict
<1>2. /\ DOMAIN matches' \subseteq DOMAIN matches
      /\ \A t \in DOMAIN matches' : matches'[t] = matches[t]
  BY DEF DeleteTracks, Restrict
<1>3. IsTable(tracks, Track)' /\ IsTable(matches, TrackMatch)'
  BY <1>1, <1>2 DEF MusicStoreTypeOK, IsTable
<1>4. \A t \in DOMAIN tracks' : KeyOf(t)' = KeyOf(t)
  BY <1>1 DEF KeyOf
<1> QED
  BY <1>1, <1>2, <1>3, <1>4 DEF TracksKept, IdsInv, MusicStoreTypeOK

\* The upsert of a match writes the row of its track, or nothing.
LEMMA UpsertMatchKeeps ==
  ASSUME MusicStoreTypeOK, NEW t \in RowIds, NEW song \in Songs \cup {NoSong},
         NEW key \in Key, NEW fk \in BOOLEAN, UpsertMatch(t, song, key, fk)
  PROVE  /\ IsTable(matches, TrackMatch)'
         /\ \A u \in DOMAIN matches' :
              \/ u \in DOMAIN matches /\ matches'[u] = matches[u]
              \/ u = t /\ matches'[u] = [song |-> song, of |-> key]
<1>1. [song |-> song, of |-> key] \in TrackMatch
  BY DEF TrackMatch
<1>2. CASE matches' = matches
  BY <1>2 DEF MusicStoreTypeOK, IsTable
<1>3. CASE matches' = Put(matches, t, [song |-> song, of |-> key])
  BY <1>1, <1>3 DEF MusicStoreTypeOK, IsTable, Put
<1> QED
  BY <1>2, <1>3 DEF UpsertMatch

-----------------------------------------------------------------------------
(* The requests.                                                           *)

\* What a step may do to the tables and grants without harm to a request.
Kept ==
    /\ AccountsKept
    /\ TracksKept
    /\ \A g \in DOMAIN holder : g \in DOMAIN holder' /\ holder'[g] = holder[g]
    /\ songs \subseteq songs'

\* The kind of a request says which record it is.
LEMMA KindOfRequest ==
  ASSUME MusicTypeOK, NEW h \in Handlers, NEW pc
  PROVE  /\ At(h, "connect", pc) => req[h] \in Connect /\ req[h].pc = pc
         /\ At(h, "disconnect", pc) => req[h] \in Disconnect /\ req[h].pc = pc
         /\ At(h, "sync", pc) => req[h] \in Sync /\ req[h].pc = pc /\ req[h].kind = "sync"
<1>1. req[h] \in Connect \cup Disconnect \cup Sync \cup {NoReq}
  BY DEF MusicTypeOK, Request
<1>2. ASSUME NEW c \in Connect PROVE c.kind = "connect"
  BY DEF Connect
<1>3. ASSUME NEW c \in Disconnect PROVE c.kind = "disconnect"
  BY DEF Disconnect
<1>4. ASSUME NEW c \in Sync PROVE c.kind = "sync"
  BY DEF Sync
<1> QED
  BY <1>1, <1>2, <1>3, <1>4 DEF At

\* Tables that a step leaves alone are kept.
LEMMA UnchangedAccounts ==
  ASSUME MusicStoreTypeOK, IdsInv, UNCHANGED <<accounts, nextAccount>>
  PROVE  AccountsKept
  BY DEF MusicStoreTypeOK, IdsInv, AccountsKept, IsTable, RowIds

LEMMA UnchangedTracks ==
  ASSUME MusicStoreTypeOK, IdsInv, UNCHANGED <<tracks, nextTrack>>
  PROVE  TracksKept
<1>1. \A t \in DOMAIN tracks : KeyOf(t)' = KeyOf(t)
  BY DEF KeyOf
<1> QED
  BY <1>1 DEF MusicStoreTypeOK, IdsInv, TracksKept, IsTable, RowIds

\* What a request holds stays in order as other requests take their steps.
LEMMA KeptRequest ==
  ASSUME MusicTypeOK, Kept, NEW rq \in Request, RequestOK(rq)
  PROVE  RequestOK(rq)'
<1>1. ASSUME NEW g, NEW d, NEW p, GivenFor(g, d, p)
      PROVE  GivenFor(g, d, p)'
  BY <1>1 DEF GivenFor, Kept
<1>2. ASSUME NEW a \in Held, HeldOK(a)
      PROVE  HeldOK(a)'
  <2>1. a.id \in Nat /\ nextAccount \in Nat /\ nextAccount' \in Nat
    BY DEF Held, RowIds, MusicTypeOK, MusicStoreTypeOK, Kept, AccountsKept
  <2>2. a.id < nextAccount'
    BY <1>2, <2>1 DEF HeldOK, Kept, AccountsKept
  <2>3. a.id \in DOMAIN accounts' =>
          accounts'[a.id].device = a.device /\ accounts'[a.id].provider = a.provider
    BY <1>2 DEF HeldOK, Kept, AccountsKept
  <2>4. GivenFor(a.token.grant, a.device, a.provider)'
    BY <1>1, <1>2 DEF HeldOK
  <2> QED
    BY <2>2, <2>3, <2>4 DEF HeldOK
<1>3. ASSUME NEW j \in Job, JobOK(j)
      PROVE  JobOK(j)'
  <2>1. j.track \in Nat /\ nextTrack \in Nat /\ nextTrack' \in Nat
    BY DEF Job, RowIds, MusicTypeOK, MusicStoreTypeOK, Kept, TracksKept
  <2>2. j.track < nextTrack /\ (j.track \in DOMAIN tracks => KeyOf(j.track) = j.key)
    BY <1>3 DEF JobOK
  <2>3. j.track < nextTrack'
    BY <2>1, <2>2 DEF Kept, TracksKept
  <2>4. j.track \in DOMAIN tracks' => KeyOf(j.track)' = j.key
    BY <2>2 DEF Kept, TracksKept
  <2> QED
    BY <2>3, <2>4 DEF JobOK
<1>4. CASE rq = NoReq
  BY <1>4 DEF RequestOK
<1>5. CASE rq # NoReq /\ rq \in Connect
  <2>1. rq.kind = "connect"
    BY <1>5 DEF Connect
  <2> QED
    BY <1>1, <1>5, <2>1 DEF RequestOK
<1>6. CASE rq # NoReq /\ rq \in Disconnect
  <2>1. rq.kind = "disconnect"
    BY <1>6 DEF Disconnect
  <2> QED
    BY <1>6, <2>1 DEF RequestOK
<1>7. CASE rq # NoReq /\ rq \in Sync
  <2>1. rq.kind = "sync" /\ rq.todo \cup rq.held \subseteq Held /\ rq.jobs \cup rq.job \subseteq Job
    BY <1>7 DEF Sync
  <2>2. /\ \A a \in rq.todo \cup rq.held : HeldOK(a)
        /\ rq.pc \in {"store", "fetch", "upsert", "reload", "match", "save"} => rq.held # {}
        /\ \A j \in rq.jobs \cup rq.job : JobOK(j)
        /\ rq.best \in songs \cup {NoSong}
    BY <1>7, <2>1 DEF RequestOK
  <2>3. \A a \in rq.todo \cup rq.held : HeldOK(a)'
    BY <1>2, <2>1, <2>2
  <2>4. \A j \in rq.jobs \cup rq.job : JobOK(j)'
    BY <1>3, <2>1, <2>2
  <2>5. rq.best \in songs' \cup {NoSong}
    BY <2>2 DEF Kept
  <2> QED
    BY <2>1, <2>2, <2>3, <2>4, <2>5 DEF RequestOK
<1> QED
  BY <1>4, <1>5, <1>6, <1>7 DEF Request

\* A step of request h: it suffices that the tables, the grants and h itself
\* are in order after it.
LEMMA StepOfOne ==
  ASSUME MusicInv, NEW h \in Handlers, Kept,
         IsTable(matches, TrackMatch)', songs' \subseteq Songs,
         \A g \in DOMAIN holder' : g \in Grants /\ holder'[g] \in Devices \X Providers,
         serial' \in [Grants -> 0 .. MaxRefreshes],
         GrantsInv', TokensStayWithDevice', MatchesInv',
         \A t \in DOMAIN matches' : t < nextTrack',
         req' = [req EXCEPT ![h] = req'[h]], req'[h] \in Request, RequestOK(req[h])'
  PROVE  MusicInv'
<1>1. MusicTypeOK'
  <2>1. MusicStoreTypeOK'
    BY DEF MusicStoreTypeOK, Kept, AccountsKept, TracksKept
  <2>2. req' \in [Handlers -> Request]
    BY DEF MusicInv, MusicTypeOK
  <2> QED
    BY <2>1, <2>2 DEF MusicTypeOK
<1>2. IdsInv'
  BY DEF IdsInv, Kept, AccountsKept, TracksKept
<1>3. ASSUME NEW q \in Handlers
      PROVE  RequestOK(req[q])'
  <2>1. CASE q = h
    BY <2>1
  <2>2. CASE q # h
    <3>1. req'[q] = req[q] /\ req[q] \in Request /\ RequestOK(req[q])
      BY <2>2 DEF MusicInv, MusicTypeOK
    <3>2. \A rq \in Request : RequestOK(rq) => RequestOK(rq)'
      BY KeptRequest DEF MusicInv
    <3> QED
      BY <3>1, <3>2
  <2> QED
    BY <2>1, <2>2
<1> QED
  BY <1>1, <1>2, <1>3 DEF MusicInv

\* A step that leaves the tables and the grants alone.
LEMMA QuietStep ==
  ASSUME MusicInv, NEW h \in Handlers, NEW r \in Request, RequestOK(r),
         UNCHANGED <<musicTables, holder>>, serial' \in [Grants -> 0 .. MaxRefreshes],
         req' = [req EXCEPT ![h] = r]
  PROVE  MusicInv'
<1>1. Kept
  BY UnchangedAccounts, UnchangedTracks DEF MusicInv, MusicTypeOK, musicTables, Kept
<1>2. req'[h] = r
  BY DEF MusicInv, MusicTypeOK
<1>3. RequestOK(req[h])'
  <2>1. \A rq \in Request : RequestOK(rq) => RequestOK(rq)'
    BY <1>1, KeptRequest DEF MusicInv
  <2> QED
    BY <1>2, <2>1
<1>4. GrantsInv' /\ TokensStayWithDevice'
  BY DEF MusicInv, musicTables, GrantsInv, TokensStayWithDevice
<1>5. MatchesInv' /\ \A t \in DOMAIN matches' : t < nextTrack'
  <2>1. \A t \in DOMAIN tracks : KeyOf(t)' = KeyOf(t)
    BY DEF KeyOf, musicTables
  <2> QED
    BY <2>1 DEF MusicInv, musicTables, MatchesInv, IdsInv
<1>6. /\ IsTable(matches, TrackMatch)' /\ songs' \subseteq Songs
      /\ \A g \in DOMAIN holder' : g \in Grants /\ holder'[g] \in Devices \X Providers
  BY DEF MusicInv, MusicTypeOK, MusicStoreTypeOK, musicTables, IsTable
<1> QED
  BY <1>1, <1>2, <1>3, <1>4, <1>5, <1>6, StepOfOne

\* A request that ends.
LEMMA EndsQuietly ==
  ASSUME MusicInv, NEW h \in Handlers, UNCHANGED <<musicTables, providers>>, Ends(h)
  PROVE  MusicInv'
<1>1. NoReq \in Request /\ RequestOK(NoReq)
  BY DEF Request, RequestOK
<1>2. serial' \in [Grants -> 0 .. MaxRefreshes] /\ UNCHANGED holder
  BY DEF MusicInv, MusicTypeOK, providers
<1> QED
  BY <1>1, <1>2, QuietStep DEF Ends

-----------------------------------------------------------------------------
(* Connect and Disconnect, step by step.                                   *)

\* A connect begins with the grant still to come.
LEMMA StartConnectKeeps ==
  ASSUME MusicInv, NEW h \in Handlers, StartConnect(h)
  PROVE  MusicInv'
<1>1. PICK d \in Devices, p \in Providers, callback \in BOOLEAN :
        req' = [req EXCEPT ![h] =
                  [kind |-> "connect", pc |-> "exchange", device |-> d,
                   provider |-> p, callback |-> callback, grant |-> 0]]
  BY DEF StartConnect
<1> DEFINE r == [kind |-> "connect", pc |-> "exchange", device |-> d,
                 provider |-> p, callback |-> callback, grant |-> 0]
<1>2. r \in Request
  BY DEF Request, Connect
<1>3. RequestOK(r)
  BY DEF RequestOK
<1>4. UNCHANGED <<musicTables, holder>> /\ serial' \in [Grants -> 0 .. MaxRefreshes]
  BY DEF StartConnect, providers, MusicInv, MusicTypeOK
<1> QED
  BY <1>1, <1>2, <1>3, <1>4, QuietStep

\* The number of grants is the last one given, and the next one is free.
LEMMA NextGrantIsFresh ==
  ASSUME GrantsInv
  PROVE  /\ Cardinality(DOMAIN holder) + 1 \in Nat \ {0}
         /\ Cardinality(DOMAIN holder) + 1 \notin DOMAIN holder
         /\ DOMAIN holder \cup {Cardinality(DOMAIN holder) + 1}
              = 1 .. Cardinality(DOMAIN holder) + 1
<1>1. PICK n \in 0 .. MaxGrants : DOMAIN holder = 1 .. n
  BY DEF GrantsInv
<1>2. n \in Nat /\ n \in Int /\ 1 \in Int
  OBVIOUS
<1>3. Cardinality(1 .. n) = n
  BY <1>2, FS_Interval
<1> QED
  BY <1>1, <1>2, <1>3

\* The provider gives a grant nobody has.
LEMMA ExchangeCodeKeeps ==
  ASSUME MusicInv, NEW h \in Handlers, ExchangeCode(h)
  PROVE  MusicInv'
<1> DEFINE g == Cardinality(DOMAIN holder) + 1
           r == [req[h] EXCEPT !.pc = "save", !.grant = g]
<1>1. req[h] \in Connect
  BY KindOfRequest DEF ExchangeCode, MusicInv
<1>2. /\ g \in Grants
      /\ holder' = Put(holder, g, <<req[h].device, req[h].provider>>)
      /\ req' = [req EXCEPT ![h].pc = "save", ![h].grant = g]
      /\ UNCHANGED <<musicTables, serial>>
  BY DEF ExchangeCode
<1>3. /\ g \notin DOMAIN holder
      /\ DOMAIN holder \cup {g} = 1 .. g
  BY NextGrantIsFresh DEF MusicInv
<1> HIDE DEF g
<1>4. /\ DOMAIN holder' = DOMAIN holder \cup {g}
      /\ \A f \in DOMAIN holder : holder'[f] = holder[f]
      /\ holder'[g] = <<req[h].device, req[h].provider>>
  BY <1>2, <1>3 DEF Put
<1>5. r \in Request /\ r.kind = "connect" /\ r.grant = g
      /\ r.device = req[h].device /\ r.provider = req[h].provider
  <2>1. g \in 0 .. MaxGrants
    BY <1>2 DEF Grants
  <2>2. r \in Connect
    BY <1>1, <2>1 DEF Connect
  <2>3. r.kind = "connect"
    BY <2>2 DEF Connect
  <2> QED
    BY <1>1, <2>2, <2>3 DEF Request, Connect
<1>6. req'[h] = r /\ req' = [req EXCEPT ![h] = r]
  BY <1>2 DEF MusicInv, MusicTypeOK
<1>7. RequestOK(req[h])'
  BY <1>4, <1>5, <1>6 DEF RequestOK, GivenFor
<1>8. Kept
  BY <1>2, <1>4, UnchangedAccounts, UnchangedTracks
     DEF MusicInv, MusicTypeOK, musicTables, Kept
<1>9. GrantsInv'
  <2>1. g \in 0 .. MaxGrants
    BY <1>2 DEF Grants
  <2> QED
    BY <1>3, <1>4, <2>1 DEF GrantsInv
<1>10. TokensStayWithDevice'
  BY <1>2, <1>4 DEF MusicInv, musicTables, TokensStayWithDevice
<1>11. MatchesInv' /\ \A t \in DOMAIN matches' : t < nextTrack'
  <2>1. \A t \in DOMAIN tracks : KeyOf(t)' = KeyOf(t)
    BY <1>2 DEF KeyOf, musicTables
  <2> QED
    BY <1>2, <2>1 DEF MusicInv, musicTables, MatchesInv, IdsInv
<1>12. \A f \in DOMAIN holder' : f \in Grants /\ holder'[f] \in Devices \X Providers
  BY <1>1, <1>2, <1>4 DEF MusicInv, MusicTypeOK, Connect
<1>13. /\ IsTable(matches, TrackMatch)' /\ songs' \subseteq Songs
       /\ serial' \in [Grants -> 0 .. MaxRefreshes]
  BY <1>2 DEF MusicInv, MusicTypeOK, MusicStoreTypeOK, musicTables, IsTable
<1> HIDE DEF r
<1>14. req' = [req EXCEPT ![h] = req'[h]] /\ req'[h] \in Request
  BY <1>5, <1>6
<1> QED
  BY <1>7, <1>8, <1>9, <1>10, <1>11, <1>12, <1>13, <1>14, StepOfOne

\* The account that is saved is of the device and provider of the request, for
\* which its grant was given.
LEMMA SaveAccountKeeps ==
  ASSUME MusicInv, NEW h \in Handlers, SaveAccount(h)
  PROVE  MusicInv'
<1> DEFINE d == req[h].device
           p == req[h].provider
           token == [grant |-> req[h].grant, serial |-> 0]
           r == [req[h] EXCEPT !.pc = "reload"]
<1>1. req[h] \in Connect /\ req[h].pc = "save" /\ req[h] # NoReq
  BY KindOfRequest DEF SaveAccount, MusicInv, At
<1>2. GivenFor(req[h].grant, d, p)
  BY <1>1 DEF MusicInv, RequestOK, Connect
<1>3. d \in Devices /\ p \in Providers /\ token \in Token
  <2>1. req[h].grant \in Grants
    BY <1>2 DEF GivenFor, MusicInv, MusicTypeOK
  <2> QED
    BY <1>1, <2>1 DEF Token, Connect
<1>4. /\ UpsertAccount(d, p, token)
      /\ req' = [req EXCEPT ![h].pc = "reload"]
      /\ UNCHANGED <<tracks, nextTrack, matches, songs, providers>>
  BY DEF SaveAccount
<1>5. /\ AccountsKept
      /\ \A a \in DOMAIN accounts' :
           \/ a \in DOMAIN accounts /\ accounts'[a] = accounts[a]
           \/ accounts'[a] = [device |-> d, provider |-> p, token |-> token]
  BY <1>3, <1>4, UpsertAccountKeeps DEF MusicInv, MusicTypeOK
<1>6. Kept
  BY <1>4, <1>5, UnchangedTracks DEF MusicInv, MusicTypeOK, providers, Kept
<1>7. r \in Request /\ RequestOK(r)
  BY <1>1 DEF Request, Connect, RequestOK
<1>8. req'[h] = r /\ req' = [req EXCEPT ![h] = r]
  BY <1>4 DEF MusicInv, MusicTypeOK
<1> HIDE DEF r
<1>9. req' = [req EXCEPT ![h] = req'[h]] /\ req'[h] \in Request /\ RequestOK(req[h])'
  <2>1. \A rq \in Request : RequestOK(rq) => RequestOK(rq)'
    BY <1>6, KeptRequest DEF MusicInv
  <2> QED
    BY <1>7, <1>8, <2>1
<1>10. TokensStayWithDevice'
  BY <1>2, <1>4, <1>5 DEF MusicInv, TokensStayWithDevice, GivenFor, providers
<1>11. MatchesInv' /\ GrantsInv' /\ \A t \in DOMAIN matches' : t < nextTrack'
  <2>1. \A t \in DOMAIN tracks : KeyOf(t)' = KeyOf(t)
    BY <1>4 DEF KeyOf
  <2> QED
    BY <1>4, <2>1 DEF MusicInv, MatchesInv, GrantsInv, IdsInv, providers
<1>12. /\ \A f \in DOMAIN holder' : f \in Grants /\ holder'[f] \in Devices \X Providers
       /\ IsTable(matches, TrackMatch)' /\ songs' \subseteq Songs
       /\ serial' \in [Grants -> 0 .. MaxRefreshes]
  BY <1>4 DEF MusicInv, MusicTypeOK, MusicStoreTypeOK, providers, IsTable
<1> QED
  BY <1>6, <1>9, <1>10, <1>11, <1>12, StepOfOne

\* The row is read back, found or not.
LEMMA ReloadAccountKeeps ==
  ASSUME MusicInv, NEW h \in Handlers, ReloadAccount(h)
  PROVE  MusicInv'
<1> DEFINE r == [req[h] EXCEPT !.pc = "panic"]
<1>1. UNCHANGED <<musicTables, providers>>
  BY DEF ReloadAccount
<1>2. CASE Ends(h)
  BY <1>1, <1>2, EndsQuietly
<1>3. CASE req' = [req EXCEPT ![h].pc = "panic"]
  <2>1. req[h] \in Connect
    BY KindOfRequest DEF ReloadAccount, MusicInv
  <2>2. r \in Request /\ RequestOK(r)
    BY <2>1 DEF Request, Connect, RequestOK
  <2>3. req' = [req EXCEPT ![h] = r]
    BY <1>3 DEF MusicInv, MusicTypeOK
  <2>4. UNCHANGED <<musicTables, holder>> /\ serial' \in [Grants -> 0 .. MaxRefreshes]
    BY <1>1 DEF providers, MusicInv, MusicTypeOK
  <2> QED
    BY <2>2, <2>3, <2>4, QuietStep
<1> QED
  BY <1>2, <1>3 DEF ReloadAccount

\* A disconnect begins.
LEMMA StartDisconnectKeeps ==
  ASSUME MusicInv, NEW h \in Handlers, StartDisconnect(h)
  PROVE  MusicInv'
<1>1. PICK d \in Devices, p \in Providers :
        req' = [req EXCEPT ![h] =
                  [kind |-> "disconnect", pc |-> "tracks", device |-> d, provider |-> p]]
  BY DEF StartDisconnect
<1> DEFINE r == [kind |-> "disconnect", pc |-> "tracks", device |-> d, provider |-> p]
<1>2. r \in Request
  BY DEF Request, Disconnect
<1>3. RequestOK(r)
  BY DEF RequestOK
<1>4. UNCHANGED <<musicTables, holder>> /\ serial' \in [Grants -> 0 .. MaxRefreshes]
  BY DEF StartDisconnect, providers, MusicInv, MusicTypeOK
<1> QED
  BY <1>1, <1>2, <1>3, <1>4, QuietStep

\* The tracks are gone, and perhaps their matches.
LEMMA DropTracksKeeps ==
  ASSUME MusicInv, NEW h \in Handlers, DropTracks(h)
  PROVE  MusicInv'
<1> DEFINE r == [req[h] EXCEPT !.pc = "account"]
<1>1. req[h] \in Disconnect
  BY KindOfRequest DEF DropTracks, MusicInv
<1>2. PICK fk \in BOOLEAN : DeleteTracks(req[h].device, req[h].provider, fk)
  BY DEF DropTracks, Enforces
<1>3. /\ req' = [req EXCEPT ![h].pc = "account"]
      /\ UNCHANGED <<accounts, nextAccount, nextTrack, songs, providers>>
  BY DEF DropTracks
<1>4. /\ TracksKept
      /\ DOMAIN tracks' \subseteq DOMAIN tracks
      /\ \A t \in DOMAIN tracks' : tracks'[t] = tracks[t]
      /\ IsTable(matches, TrackMatch)'
      /\ DOMAIN matches' \subseteq DOMAIN matches
      /\ \A t \in DOMAIN matches' : matches'[t] = matches[t]
  BY <1>2, <1>3, DeleteTracksKeeps DEF MusicInv, MusicTypeOK
<1>5. Kept
  BY <1>3, <1>4, UnchangedAccounts DEF MusicInv, MusicTypeOK, providers, Kept
<1>6. r \in Request /\ RequestOK(r)
  BY <1>1 DEF Request, Disconnect, RequestOK
<1>7. req'[h] = r /\ req' = [req EXCEPT ![h] = r]
  BY <1>3 DEF MusicInv, MusicTypeOK
<1> HIDE DEF r
<1>8. req' = [req EXCEPT ![h] = req'[h]] /\ req'[h] \in Request /\ RequestOK(req[h])'
  <2>1. \A rq \in Request : RequestOK(rq) => RequestOK(rq)'
    BY <1>5, KeptRequest DEF MusicInv
  <2> QED
    BY <1>6, <1>7, <2>1
<1>9. TokensStayWithDevice' /\ GrantsInv'
  BY <1>3, <1>4 DEF MusicInv, TokensStayWithDevice, GrantsInv, providers
<1>10. MatchesInv' /\ \A t \in DOMAIN matches' : t < nextTrack'
  <2>1. \A t \in DOMAIN tracks' : KeyOf(t)' = KeyOf(t)
    BY <1>4 DEF KeyOf
  <2> QED
    BY <1>3, <1>4, <2>1 DEF MusicInv, MatchesInv, IdsInv
<1>11. /\ \A f \in DOMAIN holder' : f \in Grants /\ holder'[f] \in Devices \X Providers
       /\ songs' \subseteq Songs /\ serial' \in [Grants -> 0 .. MaxRefreshes]
  BY <1>3 DEF MusicInv, MusicTypeOK, MusicStoreTypeOK, providers
<1> QED
  BY <1>4, <1>5, <1>8, <1>9, <1>10, <1>11, StepOfOne

\* The account is gone.
LEMMA DropAccountKeeps ==
  ASSUME MusicInv, NEW h \in Handlers, DropAccount(h)
  PROVE  MusicInv'
<1>1. /\ DeleteAccount(req[h].device, req[h].provider)
      /\ req' = [req EXCEPT ![h] = NoReq]
      /\ UNCHANGED <<nextAccount, tracks, nextTrack, matches, songs, providers>>
  BY DEF DropAccount, Ends
<1>2. /\ AccountsKept
      /\ DOMAIN accounts' \subseteq DOMAIN accounts
      /\ \A a \in DOMAIN accounts' : accounts'[a] = accounts[a]
  BY <1>1, DeleteAccountKeeps DEF MusicInv, MusicTypeOK
<1>3. Kept
  BY <1>1, <1>2, UnchangedTracks DEF MusicInv, MusicTypeOK, providers, Kept
<1>4. req' = [req EXCEPT ![h] = req'[h]] /\ req'[h] \in Request /\ RequestOK(req[h])'
  BY <1>1 DEF MusicInv, MusicTypeOK, Request, RequestOK
<1>5. TokensStayWithDevice' /\ GrantsInv'
  BY <1>1, <1>2 DEF MusicInv, TokensStayWithDevice, GrantsInv, providers
<1>6. MatchesInv' /\ \A t \in DOMAIN matches' : t < nextTrack'
  <2>1. \A t \in DOMAIN tracks : KeyOf(t)' = KeyOf(t)
    BY <1>1 DEF KeyOf
  <2> QED
    BY <1>1, <2>1 DEF MusicInv, MatchesInv, IdsInv
<1>7. /\ \A f \in DOMAIN holder' : f \in Grants /\ holder'[f] \in Devices \X Providers
      /\ IsTable(matches, TrackMatch)' /\ songs' \subseteq Songs
      /\ serial' \in [Grants -> 0 .. MaxRefreshes]
  BY <1>1 DEF MusicInv, MusicTypeOK, MusicStoreTypeOK, providers, IsTable
<1> QED
  BY <1>3, <1>4, <1>5, <1>6, <1>7, StepOfOne

-----------------------------------------------------------------------------
(* A sync, step by step.                                                   *)

\* A sync begins with nothing in hand.
LEMMA StartSyncKeeps ==
  ASSUME MusicInv, NEW h \in Handlers, StartSync(h)
  PROVE  MusicInv'
<1>1. PICK d \in Devices :
        req' = [req EXCEPT ![h] =
                  [kind |-> "sync", pc |-> "list", device |-> d, todo |-> {}, held |-> {},
                   exts |-> {}, jobs |-> {}, job |-> {}, best |-> NoSong]]
  BY DEF StartSync
<1> DEFINE r == [kind |-> "sync", pc |-> "list", device |-> d, todo |-> {}, held |-> {},
                 exts |-> {}, jobs |-> {}, job |-> {}, best |-> NoSong]
<1>2. r \in Request
  BY DEF Request, Sync
<1>3. RequestOK(r)
  BY DEF RequestOK
<1>4. UNCHANGED <<musicTables, holder>> /\ serial' \in [Grants -> 0 .. MaxRefreshes]
  BY DEF StartSync, providers, MusicInv, MusicTypeOK
<1> QED
  BY <1>1, <1>2, <1>3, <1>4, QuietStep

\* What RequestOK says of a sync.
LEMMA SyncInHand ==
  ASSUME NEW rq \in Sync, rq # NoReq
  PROVE  RequestOK(rq) <=>
           /\ \A a \in rq.todo \cup rq.held : HeldOK(a)
           /\ rq.pc \in {"store", "fetch", "upsert", "reload", "match", "save"} => rq.held # {}
           /\ \A j \in rq.jobs \cup rq.job : JobOK(j)
           /\ rq.best \in songs \cup {NoSong}
<1>1. rq.kind = "sync"
  BY DEF Sync
<1> QED
  BY <1>1 DEF RequestOK

\* Going on to the next account leaves the sync in order.
LEMMA AccountDoneOK ==
  ASSUME NEW rq \in Sync, \A a \in rq.todo : HeldOK(a)
  PROVE  AccountDone(rq) \in Request /\ RequestOK(AccountDone(rq))
<1> DEFINE left == {a \in rq.todo : a.id \notin {b.id : b \in rq.held}}
           next == [rq EXCEPT !.pc = "token", !.todo = left, !.held = {}, !.exts = {},
                              !.jobs = {}, !.job = {}, !.best = NoSong]
<1>1. left \subseteq rq.todo
  OBVIOUS
<1> HIDE DEF left
<1>2. next \in Sync
  BY <1>1 DEF Sync
<1>3. /\ next.todo = left /\ next.held = {} /\ next.jobs = {} /\ next.job = {}
      /\ next.best = NoSong /\ next.pc = "token"
  BY DEF Sync
<1> HIDE DEF next
<1>4. RequestOK(next)
  <2>1. CASE next = NoReq
    BY <2>1 DEF RequestOK
  <2>2. CASE next # NoReq
    BY <1>1, <1>2, <1>3, <2>2, SyncInHand
  <2> QED
    BY <2>1, <2>2
<1>5. RequestOK(NoReq)
  BY DEF RequestOK
<1>6. AccountDone(rq) = NoReq \/ AccountDone(rq) = next
  BY DEF AccountDone, left, next
<1> QED
  BY <1>2, <1>4, <1>5, <1>6 DEF Request

\* So does going on to the next track.
LEMMA JobDoneOK ==
  ASSUME NEW rq \in Sync, rq.held # {},
         \A a \in rq.todo \cup rq.held : HeldOK(a), \A j \in rq.jobs : JobOK(j)
  PROVE  JobDone(rq) \in Request /\ RequestOK(JobDone(rq))
<1> DEFINE left == rq.jobs \ rq.job
           next == [rq EXCEPT !.pc = "match", !.jobs = left, !.job = {}, !.best = NoSong]
<1>1. left \subseteq rq.jobs
  OBVIOUS
<1> HIDE DEF left
<1>2. next \in Sync
  BY <1>1 DEF Sync
<1>3. /\ next.todo = rq.todo /\ next.held = rq.held /\ next.jobs = left /\ next.job = {}
      /\ next.best = NoSong
  BY DEF Sync
<1> HIDE DEF next
<1>4. RequestOK(next)
  <2>1. CASE next = NoReq
    BY <2>1 DEF RequestOK
  <2>2. CASE next # NoReq
    BY <1>1, <1>2, <1>3, <2>2, SyncInHand
  <2> QED
    BY <2>1, <2>2
<1>5. AccountDone(rq) \in Request /\ RequestOK(AccountDone(rq))
  BY AccountDoneOK
<1>6. JobDone(rq) = AccountDone(rq) \/ JobDone(rq) = next
  BY DEF JobDone, left, next
<1> QED
  BY <1>2, <1>4, <1>5, <1>6 DEF Request

\* A sync in one of its steps, with what it holds.
LEMMA SyncAt ==
  ASSUME MusicInv, NEW h \in Handlers, NEW pc, At(h, "sync", pc)
  PROVE  /\ req[h] \in Sync /\ req[h] # NoReq /\ req[h].pc = pc
         /\ \A a \in req[h].todo \cup req[h].held : a \in Held /\ HeldOK(a)
         /\ pc \in {"store", "fetch", "upsert", "reload", "match", "save"} => req[h].held # {}
         /\ \A j \in req[h].jobs \cup req[h].job : j \in Job /\ JobOK(j)
         /\ req[h].best \in songs \cup {NoSong}
<1>1. req[h] \in Sync /\ req[h] # NoReq /\ req[h].pc = pc
  BY KindOfRequest DEF MusicInv, At
<1>2. RequestOK(req[h])
  BY DEF MusicInv
<1>3. req[h].todo \cup req[h].held \subseteq Held /\ req[h].jobs \cup req[h].job \subseteq Job
  BY <1>1 DEF Sync
<1> QED
  BY <1>1, <1>2, <1>3, SyncInHand

\* A step of a sync that leaves the tables and the grants alone.
LEMMA QuietSyncStep ==
  ASSUME MusicInv, NEW h \in Handlers, UNCHANGED <<musicTables, holder>>,
         serial' \in [Grants -> 0 .. MaxRefreshes], NEW r \in Sync,
         req' = [req EXCEPT ![h] = r],
         \A a \in r.todo \cup r.held : HeldOK(a),
         r.pc \in {"store", "fetch", "upsert", "reload", "match", "save"} => r.held # {},
         \A j \in r.jobs \cup r.job : JobOK(j),
         r.best \in songs \cup {NoSong}
  PROVE  MusicInv'
<1>1. RequestOK(r)
  <2>1. CASE r = NoReq
    BY <2>1 DEF RequestOK
  <2>2. CASE r # NoReq
    BY <2>2, SyncInHand
  <2> QED
    BY <2>1, <2>2
<1> QED
  BY <1>1, QuietStep DEF Request

\* The same for a sync that is done with an account.
LEMMA AccountDoneKeeps ==
  ASSUME MusicInv, NEW h \in Handlers, UNCHANGED <<musicTables, holder>>,
         serial' \in [Grants -> 0 .. MaxRefreshes], NEW r \in Sync,
         \A a \in r.todo : HeldOK(a), req' = [req EXCEPT ![h] = AccountDone(r)]
  PROVE  MusicInv'
<1>1. AccountDone(r) \in Request /\ RequestOK(AccountDone(r))
  BY AccountDoneOK
<1> QED
  BY <1>1, QuietStep

\* The accounts of the device are read.
LEMMA ListAccountsKeeps ==
  ASSUME MusicInv, NEW h \in Handlers, ListAccounts(h)
  PROVE  MusicInv'
<1> DEFINE row(a) == [id |-> a, device |-> accounts[a].device,
                      provider |-> accounts[a].provider, token |-> accounts[a].token]
           held == {row(a) : a \in {b \in DOMAIN accounts : accounts[b].device = req[h].device}}
           r == [req[h] EXCEPT !.pc = "token", !.todo = held]
<1>1. UNCHANGED <<musicTables, providers>>
  BY DEF ListAccounts
<1>2. ASSUME NEW a \in DOMAIN accounts PROVE row(a) \in Held /\ HeldOK(row(a))
  <2>1. accounts[a] \in Account /\ a \in RowIds
    BY DEF MusicInv, MusicTypeOK, MusicStoreTypeOK, IsTable
  <2>2. row(a) \in Held
    BY <2>1 DEF Held, Account
  <2>3. a < nextAccount /\ GivenFor(accounts[a].token.grant, accounts[a].device,
                                    accounts[a].provider)
    BY DEF MusicInv, IdsInv, TokensStayWithDevice, GivenFor
  <2> QED
    BY <2>2, <2>3 DEF HeldOK
<1>3. \A a \in held : a \in Held /\ HeldOK(a)
  BY <1>2
<1>4. req' = [req EXCEPT ![h] = NoReq] \/ req' = [req EXCEPT ![h] = r]
  BY DEF ListAccounts, MusicInv, MusicTypeOK
<1> HIDE DEF held
<1>5. CASE req' = [req EXCEPT ![h] = NoReq]
  BY <1>1, <1>5, EndsQuietly DEF Ends
<1>6. CASE req' = [req EXCEPT ![h] = r]
  <2>1. At(h, "sync", "list")
    BY DEF ListAccounts
  <2>2. r \in Sync /\ r.todo = held /\ r.held = req[h].held /\ r.pc = "token"
        /\ r.jobs = req[h].jobs /\ r.job = req[h].job /\ r.best = req[h].best
    BY <1>3, <2>1, SyncAt DEF Sync
  <2>3. UNCHANGED <<musicTables, holder>> /\ serial' \in [Grants -> 0 .. MaxRefreshes]
    BY <1>1 DEF providers, MusicInv, MusicTypeOK
  <2> HIDE DEF r
  <2> QED
    BY <1>3, <1>6, <2>1, <2>2, <2>3, SyncAt, QuietSyncStep
<1> QED
  BY <1>4, <1>5, <1>6

\* The current account is chosen and its access token good.
LEMMA TokenValidKeeps ==
  ASSUME MusicInv, NEW h \in Handlers, TokenValid(h)
  PROVE  MusicInv'
<1>1. At(h, "sync", "token") /\ UNCHANGED <<musicTables, providers>>
  BY DEF TokenValid
<1>2. PICK a \in req[h].todo : req' = [req EXCEPT ![h].pc = "fetch", ![h].held = {a}]
  BY DEF TokenValid
<1> DEFINE r == [req[h] EXCEPT !.pc = "fetch", !.held = {a}]
<1>3. r \in Sync /\ r.todo = req[h].todo /\ r.held = {a}
      /\ r.jobs = req[h].jobs /\ r.job = req[h].job /\ r.best = req[h].best
  <2>1. req[h] \in Sync /\ {a} \in SUBSET Held
    BY <1>1, SyncAt
  <2> QED
    BY <2>1 DEF Sync
<1>4. req' = [req EXCEPT ![h] = r]
  <2>1. req \in [Handlers -> Request]
    BY DEF MusicInv, MusicTypeOK
  <2> QED
    BY <1>2, <2>1
<1>5. UNCHANGED <<musicTables, holder>> /\ serial' \in [Grants -> 0 .. MaxRefreshes]
  BY <1>1 DEF providers, MusicInv, MusicTypeOK
<1> HIDE DEF r
<1>6. /\ \A b \in r.todo \cup r.held : HeldOK(b)
      /\ r.held # {}
      /\ \A j \in r.jobs \cup r.job : JobOK(j)
      /\ r.best \in songs \cup {NoSong}
  BY <1>1, <1>3, SyncAt
<1> QED
  BY <1>3, <1>4, <1>5, <1>6, QuietSyncStep

\* The token in hand is another of the same grant.
LEMMA RefreshTokenKeeps ==
  ASSUME MusicInv, NEW h \in Handlers, RefreshToken(h)
  PROVE  MusicInv'
<1>1. At(h, "sync", "token") /\ UNCHANGED <<musicTables, holder>>
  BY DEF RefreshToken
<1>2. PICK a \in req[h].todo, renewal \in Renewals :
        LET n == a.token.serial + renewal
        IN  /\ n <= MaxRefreshes
            /\ serial' = [serial EXCEPT ![a.token.grant] = n]
            /\ req' = [req EXCEPT ![h].pc = "store",
                                  ![h].held = {[a EXCEPT !.token.serial = n]}]
  BY DEF RefreshToken
<1> DEFINE n == a.token.serial + renewal
           b == [a EXCEPT !.token.serial = n]
           r == [req[h] EXCEPT !.pc = "store", !.held = {b}]
<1>3. a \in Held /\ HeldOK(a)
  BY <1>1, SyncAt
<1>4. n \in 0 .. MaxRefreshes
  BY <1>2, <1>3 DEF Held, Token
<1> HIDE DEF n
<1>5. b \in Held /\ b.id = a.id /\ b.device = a.device /\ b.provider = a.provider
      /\ b.token.grant = a.token.grant
  BY <1>3, <1>4 DEF Held, Token
<1> HIDE DEF b
<1>6. HeldOK(b)
  BY <1>3, <1>5 DEF HeldOK
<1>7. r \in Sync /\ r.todo = req[h].todo /\ r.held = {b}
      /\ r.jobs = req[h].jobs /\ r.job = req[h].job /\ r.best = req[h].best
  <2>1. req[h] \in Sync /\ {b} \in SUBSET Held
    BY <1>1, <1>5, SyncAt
  <2> QED
    BY <2>1 DEF Sync
<1>8. req' = [req EXCEPT ![h] = r]
  BY <1>2 DEF MusicInv, MusicTypeOK, n, b
<1>9. serial' \in [Grants -> 0 .. MaxRefreshes]
  BY <1>2, <1>4 DEF MusicInv, MusicTypeOK, n
<1> HIDE DEF r
<1> QED
  BY <1>1, <1>6, <1>7, <1>8, <1>9, SyncAt, QuietSyncStep

\* The account is passed over, and its token stays as it is.
LEMMA RefreshFailsKeeps ==
  ASSUME MusicInv, NEW h \in Handlers, RefreshFails(h)
  PROVE  MusicInv'
<1>1. At(h, "sync", "token") /\ UNCHANGED <<musicTables, providers>>
  BY DEF RefreshFails
<1>2. PICK a \in req[h].todo :
        req' = [req EXCEPT ![h] = AccountDone([@ EXCEPT !.held = {a}])]
  BY DEF RefreshFails
<1> DEFINE r == [req[h] EXCEPT !.held = {a}]
<1>3. r \in Sync /\ r.todo = req[h].todo
  BY <1>1, SyncAt DEF Sync
<1>4. req' = [req EXCEPT ![h] = AccountDone(r)]
  BY <1>2 DEF MusicInv, MusicTypeOK
<1>5. UNCHANGED <<musicTables, holder>> /\ serial' \in [Grants -> 0 .. MaxRefreshes]
  BY <1>1 DEF providers, MusicInv, MusicTypeOK
<1> HIDE DEF r
<1> QED
  BY <1>1, <1>3, <1>4, <1>5, SyncAt, AccountDoneKeeps

\* The same when the provider has renewed the token and nobody has it.
LEMMA RefreshLostKeeps ==
  ASSUME MusicInv, NEW h \in Handlers, RefreshLost(h)
  PROVE  MusicInv'
<1>1. At(h, "sync", "token") /\ UNCHANGED <<musicTables, holder>>
  BY DEF RefreshLost
<1>2. PICK a \in req[h].todo :
        /\ Refreshable(a)
        /\ a.token.serial < MaxRefreshes
        /\ serial' = [serial EXCEPT ![a.token.grant] = @ + 1]
        /\ req' = [req EXCEPT ![h] = AccountDone([@ EXCEPT !.held = {a}])]
  BY DEF RefreshLost
<1> DEFINE r == [req[h] EXCEPT !.held = {a}]
<1>3. r \in Sync /\ r.todo = req[h].todo
  BY <1>1, SyncAt DEF Sync
<1>4. req' = [req EXCEPT ![h] = AccountDone(r)]
  BY <1>2 DEF MusicInv, MusicTypeOK
<1>5. a \in Held
  BY <1>1, SyncAt
<1>6. serial[a.token.grant] + 1 \in 0 .. MaxRefreshes
  BY <1>2, <1>5 DEF Held, Token, Refreshable
<1>7. serial' \in [Grants -> 0 .. MaxRefreshes]
  BY <1>2, <1>6 DEF MusicInv, MusicTypeOK
<1> HIDE DEF r
<1> QED
  BY <1>1, <1>3, <1>4, <1>7, SyncAt, AccountDoneKeeps

\* The current account of a sync is one of those it holds.
LEMMA AccountInHand ==
  ASSUME MusicInv, NEW h \in Handlers, NEW pc, At(h, "sync", pc),
         pc \in {"store", "fetch", "upsert", "reload", "match", "save"}
  PROVE  /\ AccountOf(req[h]) \in req[h].held
         /\ AccountOf(req[h]) \in Held
         /\ HeldOK(AccountOf(req[h]))
<1>1. req[h].held # {} /\ \A a \in req[h].held : a \in Held /\ HeldOK(a)
  BY SyncAt
<1>2. AccountOf(req[h]) \in req[h].held
  BY <1>1 DEF AccountOf
<1> QED
  BY <1>1, <1>2

\* The new token goes to the account it was given for, or to none.
LEMMA StoreTokensKeeps ==
  ASSUME MusicInv, NEW h \in Handlers, StoreTokens(h)
  PROVE  MusicInv'
<1> DEFINE a == AccountOf(req[h])
           old == CHOOSE b \in req[h].todo : b.id = a.id
           r == [req[h] EXCEPT !.pc = "fetch"]
<1>1. /\ At(h, "sync", "store")
      /\ UpdateTokens(a.id, old.token, a.token)
      /\ req' = [req EXCEPT ![h].pc = "fetch"]
      /\ UNCHANGED <<nextAccount, tracks, nextTrack, matches, songs, providers>>
  BY DEF StoreTokens
<1>2. a \in Held /\ HeldOK(a)
  BY <1>1, AccountInHand
<1> HIDE DEF a, old
<1>3. a.token \in Token
  BY <1>2 DEF Held
<1>4. /\ AccountsKept
      /\ DOMAIN accounts' = DOMAIN accounts
      /\ \A b \in DOMAIN accounts :
           accounts'[b] = IF b = a.id THEN [accounts[b] EXCEPT !.token = a.token]
                          ELSE accounts[b]
  BY <1>1, <1>3, UpdateTokensKeeps DEF MusicInv, MusicTypeOK
<1>5. Kept
  BY <1>1, <1>4, UnchangedTracks DEF MusicInv, MusicTypeOK, providers, Kept
<1>6. r \in Request /\ RequestOK(r)
  <2>1. req[h] \in Sync /\ req[h] # NoReq /\ RequestOK(req[h])
    BY <1>1, SyncAt DEF MusicInv
  <2>2. r \in Sync /\ r.todo = req[h].todo /\ r.held = req[h].held
        /\ r.jobs = req[h].jobs /\ r.job = req[h].job /\ r.best = req[h].best
    BY <2>1 DEF Sync
  <2>3. req[h].held # {}
    BY <1>1, SyncAt
  <2> HIDE DEF r
  <2>4. RequestOK(r)
    <3>1. CASE r = NoReq
      BY <3>1 DEF RequestOK
    <3>2. CASE r # NoReq
      BY <2>1, <2>2, <2>3, <3>2, SyncInHand
    <3> QED
      BY <3>1, <3>2
  <2> QED
    BY <2>2, <2>4 DEF Request
<1>7. req'[h] = r /\ req' = [req EXCEPT ![h] = r]
  BY <1>1 DEF MusicInv, MusicTypeOK
<1> HIDE DEF r
<1>8. req' = [req EXCEPT ![h] = req'[h]] /\ req'[h] \in Request /\ RequestOK(req[h])'
  <2>1. \A rq \in Request : RequestOK(rq) => RequestOK(rq)'
    BY <1>5, KeptRequest DEF MusicInv
  <2> QED
    BY <1>6, <1>7, <2>1
<1>9. TokensStayWithDevice'
  <2>1. UNCHANGED <<tracks, holder>>
    BY <1>1 DEF providers
  <2>2. \A b \in DOMAIN accounts :
          /\ accounts[b] \in Account
          /\ GivenFor(accounts[b].token.grant, accounts[b].device, accounts[b].provider)
    BY DEF MusicInv, MusicTypeOK, MusicStoreTypeOK, IsTable, TokensStayWithDevice, GivenFor
  <2>3. \A b \in DOMAIN accounts :
          accounts'[b].device = accounts[b].device /\ accounts'[b].provider = accounts[b].provider
    BY <1>4, <2>2 DEF Account
  <2>4. \A b \in DOMAIN accounts :
          accounts'[b].token = IF b = a.id THEN a.token ELSE accounts[b].token
    BY <1>4, <2>2 DEF Account
  <2>5. a.id \in DOMAIN accounts =>
          GivenFor(a.token.grant, accounts[a.id].device, accounts[a.id].provider)
    BY <1>2 DEF HeldOK
  <2>6. \A b \in DOMAIN accounts :
          GivenFor(accounts'[b].token.grant, accounts'[b].device, accounts'[b].provider)
    BY <2>2, <2>3, <2>4, <2>5
  <2> QED
    BY <1>4, <2>1, <2>6 DEF TokensStayWithDevice, GivenFor, MusicInv
<1>10. MatchesInv' /\ GrantsInv' /\ \A t \in DOMAIN matches' : t < nextTrack'
  <2>1. \A t \in DOMAIN tracks : KeyOf(t)' = KeyOf(t)
    BY <1>1 DEF KeyOf
  <2> QED
    BY <1>1, <2>1 DEF MusicInv, MatchesInv, GrantsInv, IdsInv, providers
<1>11. /\ \A f \in DOMAIN holder' : f \in Grants /\ holder'[f] \in Devices \X Providers
       /\ IsTable(matches, TrackMatch)' /\ songs' \subseteq Songs
       /\ serial' \in [Grants -> 0 .. MaxRefreshes]
  BY <1>1 DEF MusicInv, MusicTypeOK, MusicStoreTypeOK, providers, IsTable
<1> QED
  BY <1>5, <1>8, <1>9, <1>10, <1>11, StepOfOne

\* The provider lists tracks.
LEMMA FetchUserTracksKeeps ==
  ASSUME MusicInv, NEW h \in Handlers, FetchUserTracks(h)
  PROVE  MusicInv'
<1>1. At(h, "sync", "fetch") /\ UNCHANGED <<musicTables, providers>>
  BY DEF FetchUserTracks
<1>2. PICK exts \in SUBSET Exts : req' = [req EXCEPT ![h].pc = "upsert", ![h].exts = exts]
  BY DEF FetchUserTracks
<1> DEFINE r == [req[h] EXCEPT !.pc = "upsert", !.exts = exts]
<1>3. r \in Sync /\ r.todo = req[h].todo /\ r.held = req[h].held
      /\ r.jobs = req[h].jobs /\ r.job = req[h].job /\ r.best = req[h].best
  <2>1. req[h] \in Sync
    BY <1>1, SyncAt
  <2> QED
    BY <2>1 DEF Sync
<1>4. req' = [req EXCEPT ![h] = r]
  <2>1. req \in [Handlers -> Request]
    BY DEF MusicInv, MusicTypeOK
  <2> QED
    BY <1>2, <2>1
<1>5. UNCHANGED <<musicTables, holder>> /\ serial' \in [Grants -> 0 .. MaxRefreshes]
  BY <1>1 DEF providers, MusicInv, MusicTypeOK
<1> HIDE DEF r
<1>6. /\ \A b \in r.todo \cup r.held : HeldOK(b)
      /\ r.held # {}
      /\ \A j \in r.jobs \cup r.job : JobOK(j)
      /\ r.best \in songs \cup {NoSong}
  BY <1>1, <1>3, SyncAt
<1> QED
  BY <1>3, <1>4, <1>5, <1>6, QuietSyncStep

\* The tracks are stored for the owner of the account, under its grant.
LEMMA SaveTracksKeeps ==
  ASSUME MusicInv, NEW h \in Handlers, SaveTracks(h)
  PROVE  MusicInv'
<1> DEFINE a == AccountOf(req[h])
           r == [req[h] EXCEPT !.pc = "reload"]
<1>1. /\ At(h, "sync", "upsert")
      /\ UpsertTracks(a.device, a.provider, a.token.grant, req[h].exts)
      /\ req' = [req EXCEPT ![h].pc = "reload"]
      /\ UNCHANGED <<accounts, nextAccount, matches, songs, providers>>
  BY DEF SaveTracks
<1>2. a \in Held /\ HeldOK(a)
  BY <1>1, AccountInHand
<1> HIDE DEF a
<1>3. /\ a.device \in Devices /\ a.provider \in Providers /\ a.token.grant \in Grants
      /\ GivenFor(a.token.grant, a.device, a.provider)
  BY <1>2 DEF Held, Token, HeldOK
<1>4. req[h] \in Sync /\ req[h].exts \in SUBSET Exts
  <2>1. req[h] \in Sync
    BY <1>1, SyncAt
  <2> QED
    BY <2>1 DEF Sync
<1>5. /\ TracksKept
      /\ DOMAIN tracks \subseteq DOMAIN tracks'
      /\ \A t \in DOMAIN tracks' :
           \/ t \in DOMAIN tracks /\ tracks'[t].grant = tracks[t].grant
              /\ KeyOf(t)' = KeyOf(t)
           \/ /\ tracks'[t].device = a.device /\ tracks'[t].provider = a.provider
              /\ tracks'[t].grant = a.token.grant
  BY <1>1, <1>3, <1>4, UpsertTracksKeeps DEF MusicInv, MusicTypeOK
<1>6. Kept
  BY <1>1, <1>5, UnchangedAccounts DEF MusicInv, MusicTypeOK, providers, Kept
<1>7. r \in Request /\ RequestOK(r)
  <2>1. r \in Sync /\ r.todo = req[h].todo /\ r.held = req[h].held
        /\ r.jobs = req[h].jobs /\ r.job = req[h].job /\ r.best = req[h].best
    BY <1>4 DEF Sync
  <2>2. req[h].held # {} /\ req[h] # NoReq /\ RequestOK(req[h])
    BY <1>1, SyncAt DEF MusicInv
  <2> HIDE DEF r
  <2>3. RequestOK(r)
    <3>1. CASE r = NoReq
      BY <3>1 DEF RequestOK
    <3>2. CASE r # NoReq
      BY <1>4, <2>1, <2>2, <3>2, SyncInHand
    <3> QED
      BY <3>1, <3>2
  <2> QED
    BY <2>1, <2>3 DEF Request
<1>8. req'[h] = r /\ req' = [req EXCEPT ![h] = r]
  BY <1>1 DEF MusicInv, MusicTypeOK
<1> HIDE DEF r
<1>9. req' = [req EXCEPT ![h] = req'[h]] /\ req'[h] \in Request /\ RequestOK(req[h])'
  <2>1. \A rq \in Request : RequestOK(rq) => RequestOK(rq)'
    BY <1>6, KeptRequest DEF MusicInv
  <2> QED
    BY <1>7, <1>8, <2>1
<1>10. TokensStayWithDevice'
  <2>1. UNCHANGED <<accounts, holder>>
    BY <1>1 DEF providers
  <2>2. \A t \in DOMAIN tracks' :
          GivenFor(tracks'[t].grant, tracks'[t].device, tracks'[t].provider)
    <3>1. \A t \in DOMAIN tracks :
            KeyOf(t)' = KeyOf(t) =>
              tracks'[t].device = tracks[t].device /\ tracks'[t].provider = tracks[t].provider
      BY DEF KeyOf
    <3>2. \A t \in DOMAIN tracks :
            GivenFor(tracks[t].grant, tracks[t].device, tracks[t].provider)
      BY DEF MusicInv, TokensStayWithDevice, GivenFor
    <3> QED
      BY <1>3, <1>5, <3>1, <3>2
  <2> QED
    BY <2>1, <2>2 DEF MusicInv, TokensStayWithDevice, GivenFor
<1>11. MatchesInv' /\ GrantsInv' /\ \A t \in DOMAIN matches' : t < nextTrack'
  <2>1. \A t \in DOMAIN matches : t \in Nat /\ t < nextTrack
    BY DEF MusicInv, MusicTypeOK, MusicStoreTypeOK, IsTable, RowIds, IdsInv
  <2>2. \A t \in DOMAIN matches : t \in DOMAIN tracks' =>
          t \in DOMAIN tracks /\ KeyOf(t)' = KeyOf(t)
    BY <1>5, <2>1 DEF TracksKept
  <2>3. nextTrack <= nextTrack' /\ nextTrack \in Nat /\ nextTrack' \in Nat
    BY <1>5 DEF TracksKept, MusicInv, MusicTypeOK, MusicStoreTypeOK
  <2>4. UNCHANGED <<matches, songs, holder>>
    BY <1>1 DEF providers
  <2>5. MatchesInv'
    BY <2>2, <2>4 DEF MusicInv, MatchesInv
  <2>6. GrantsInv'
    BY <2>4 DEF MusicInv, GrantsInv
  <2> QED
    BY <2>1, <2>3, <2>4, <2>5, <2>6
<1>12. /\ \A f \in DOMAIN holder' : f \in Grants /\ holder'[f] \in Devices \X Providers
       /\ IsTable(matches, TrackMatch)' /\ songs' \subseteq Songs
       /\ serial' \in [Grants -> 0 .. MaxRefreshes]
  BY <1>1 DEF MusicInv, MusicTypeOK, MusicStoreTypeOK, providers, IsTable
<1> QED
  BY <1>6, <1>9, <1>10, <1>11, <1>12, StepOfOne

\* The tracks of the account are read again, each with what it is about.
LEMMA ReloadTracksKeeps ==
  ASSUME MusicInv, NEW h \in Handlers, ReloadTracks(h)
  PROVE  MusicInv'
<1> DEFINE a == AccountOf(req[h])
           job(t) == [track |-> t, key |-> KeyOf(t)]
           jobs == {job(t) : t \in TracksOf(a.device, a.provider)}
           r == [req[h] EXCEPT !.pc = "match", !.jobs = jobs]
<1>1. At(h, "sync", "reload") /\ UNCHANGED <<musicTables, providers>>
  BY DEF ReloadTracks
<1>2. ASSUME NEW t \in DOMAIN tracks PROVE job(t) \in Job /\ JobOK(job(t))
  <2>1. tracks[t] \in Track /\ t \in RowIds /\ t < nextTrack
    BY DEF MusicInv, MusicTypeOK, MusicStoreTypeOK, IsTable, IdsInv
  <2>2. KeyOf(t) \in Key
    BY <2>1 DEF Track, Key, KeyOf
  <2> QED
    BY <2>1, <2>2 DEF Job, JobOK
<1>3. \A j \in jobs : j \in Job /\ JobOK(j)
  BY <1>2 DEF TracksOf
<1>4. \/ req' = [req EXCEPT ![h] = AccountDone(req[h])]
      \/ req' = [req EXCEPT ![h] = r]
  BY DEF ReloadTracks, MusicInv, MusicTypeOK
<1> HIDE DEF jobs
<1>5. UNCHANGED <<musicTables, holder>> /\ serial' \in [Grants -> 0 .. MaxRefreshes]
  BY <1>1 DEF providers, MusicInv, MusicTypeOK
<1>6. req[h] \in Sync
  BY <1>1, SyncAt
<1>7. CASE req' = [req EXCEPT ![h] = AccountDone(req[h])]
  BY <1>1, <1>5, <1>6, <1>7, SyncAt, AccountDoneKeeps
<1>8. CASE req' = [req EXCEPT ![h] = r]
  <2>1. r \in Sync /\ r.todo = req[h].todo /\ r.held = req[h].held
        /\ r.jobs = jobs /\ r.job = req[h].job /\ r.best = req[h].best
    <3>1. jobs \in SUBSET Job
      BY <1>3
    <3> QED
      BY <1>6, <3>1 DEF Sync
  <2> HIDE DEF r
  <2>2. /\ \A b \in r.todo \cup r.held : HeldOK(b)
        /\ r.held # {}
        /\ \A j \in r.jobs \cup r.job : JobOK(j)
        /\ r.best \in songs \cup {NoSong}
    BY <1>1, <1>3, <2>1, SyncAt
  <2> QED
    BY <1>5, <1>8, <2>1, <2>2, QuietSyncStep
<1> QED
  BY <1>4, <1>7, <1>8

\* The account is passed over.
LEMMA SyncFailsKeeps ==
  ASSUME MusicInv, NEW h \in Handlers, SyncFails(h)
  PROVE  MusicInv'
<1>1. PICK pc : At(h, "sync", pc)
  BY DEF SyncFails
<1>2. req[h] \in Sync /\ \A a \in req[h].todo : HeldOK(a)
  BY <1>1, SyncAt
<1>3. req' = [req EXCEPT ![h] = AccountDone(req[h])]
  BY DEF SyncFails, MusicInv, MusicTypeOK
<1>4. UNCHANGED <<musicTables, holder>> /\ serial' \in [Grants -> 0 .. MaxRefreshes]
  BY DEF SyncFails, providers, MusicInv, MusicTypeOK
<1> QED
  BY <1>2, <1>3, <1>4, AccountDoneKeeps

\* The match that is found is a song of the table, or none.
LEMMA FindBestMatchKeeps ==
  ASSUME MusicInv, NEW h \in Handlers, FindBestMatch(h)
  PROVE  MusicInv'
<1>1. At(h, "sync", "match") /\ UNCHANGED <<musicTables, providers>>
  BY DEF FindBestMatch
<1>2. PICK j \in req[h].jobs :
        req' = [req EXCEPT ![h].pc = "save", ![h].job = {j},
                           ![h].best = IF SongOf[j.key.ext] \in songs
                                         THEN SongOf[j.key.ext] ELSE NoSong]
  BY DEF FindBestMatch
<1> DEFINE best == IF SongOf[j.key.ext] \in songs THEN SongOf[j.key.ext] ELSE NoSong
           r == [req[h] EXCEPT !.pc = "save", !.job = {j}, !.best = best]
<1>3. best \in songs \cup {NoSong}
  OBVIOUS
<1>4. req' = [req EXCEPT ![h] = r]
  <2>1. req \in [Handlers -> Request]
    BY DEF MusicInv, MusicTypeOK
  <2> HIDE DEF best
  <2>2. req' = [req EXCEPT ![h].pc = "save", ![h].job = {j}, ![h].best = best]
    BY <1>2 DEF best
  <2> QED
    BY <2>1, <2>2
<1> HIDE DEF best
<1>5. r \in Sync /\ r.todo = req[h].todo /\ r.held = req[h].held
      /\ r.jobs = req[h].jobs /\ r.job = {j} /\ r.best = best
  <2>1. req[h] \in Sync /\ {j} \in SUBSET Job
    BY <1>1, SyncAt
  <2>2. best \in Songs \cup {NoSong}
    BY <1>3 DEF MusicInv, MusicTypeOK, MusicStoreTypeOK
  <2> QED
    BY <2>1, <2>2 DEF Sync
<1>6. UNCHANGED <<musicTables, holder>> /\ serial' \in [Grants -> 0 .. MaxRefreshes]
  BY <1>1 DEF providers, MusicInv, MusicTypeOK
<1> HIDE DEF r
<1>7. /\ \A b \in r.todo \cup r.held : HeldOK(b)
      /\ r.held # {}
      /\ \A k \in r.jobs \cup r.job : JobOK(k)
      /\ r.best \in songs \cup {NoSong}
  BY <1>1, <1>3, <1>5, SyncAt
<1> QED
  BY <1>4, <1>5, <1>6, <1>7, QuietSyncStep

\* The match is saved under the id its track had when it was read, which is the
\* id of that track still or of none.
LEMMA SaveMatchKeeps ==
  ASSUME MusicInv, NEW h \in Handlers, SaveMatch(h)
  PROVE  MusicInv'
<1>1. /\ At(h, "sync", "save")
      /\ req' = [req EXCEPT ![h] = JobDone(req[h])]
      /\ UNCHANGED <<accounts, nextAccount, tracks, nextTrack, songs, providers>>
  BY DEF SaveMatch, MusicInv, MusicTypeOK
<1>2. PICK j \in req[h].job, fk \in BOOLEAN : UpsertMatch(j.track, req[h].best, j.key, fk)
  BY DEF SaveMatch, Enforces
<1> DEFINE song == req[h].best
<1>3. j \in Job /\ JobOK(j) /\ song \in songs \cup {NoSong}
  BY <1>1, SyncAt
<1> HIDE DEF song
<1>4. /\ j.track \in RowIds /\ j.key \in Key /\ song \in Songs \cup {NoSong}
      /\ j.track < nextTrack /\ (j.track \in DOMAIN tracks => KeyOf(j.track) = j.key)
  BY <1>3 DEF Job, JobOK, MusicInv, MusicTypeOK, MusicStoreTypeOK
<1>5. /\ IsTable(matches, TrackMatch)'
      /\ \A u \in DOMAIN matches' :
           \/ u \in DOMAIN matches /\ matches'[u] = matches[u]
           \/ u = j.track /\ matches'[u] = [song |-> song, of |-> j.key]
  <2>1. UpsertMatch(j.track, song, j.key, fk)
    BY <1>2 DEF song
  <2> QED
    BY <1>4, <2>1, UpsertMatchKeeps DEF MusicInv, MusicTypeOK
<1>6. Kept
  BY <1>1, UnchangedAccounts, UnchangedTracks DEF MusicInv, MusicTypeOK, providers, Kept
<1>7. JobDone(req[h]) \in Request /\ RequestOK(JobDone(req[h]))
  <2>1. /\ req[h] \in Sync /\ req[h].held # {}
        /\ \A b \in req[h].todo \cup req[h].held : HeldOK(b)
        /\ \A k \in req[h].jobs : JobOK(k)
    BY <1>1, SyncAt
  <2> QED
    BY <2>1, JobDoneOK
<1>8. req' = [req EXCEPT ![h] = req'[h]] /\ req'[h] \in Request /\ RequestOK(req[h])'
  <2>1. \A rq \in Request : RequestOK(rq) => RequestOK(rq)'
    BY <1>6, KeptRequest DEF MusicInv
  <2>2. req'[h] = JobDone(req[h]) /\ req' = [req EXCEPT ![h] = req'[h]]
    BY <1>1 DEF MusicInv, MusicTypeOK
  <2> QED
    BY <1>7, <2>1, <2>2
<1>9. MatchesInv' /\ \A t \in DOMAIN matches' : t < nextTrack'
  <2>1. \A t \in DOMAIN tracks : KeyOf(t)' = KeyOf(t)
    BY <1>1 DEF KeyOf
  <2> QED
    BY <1>1, <1>3, <1>4, <1>5, <2>1 DEF MusicInv, MatchesInv, IdsInv
<1>10. TokensStayWithDevice' /\ GrantsInv'
  BY <1>1 DEF MusicInv, TokensStayWithDevice, GrantsInv, providers
<1>11. /\ \A f \in DOMAIN holder' : f \in Grants /\ holder'[f] \in Devices \X Providers
       /\ songs' \subseteq Songs /\ serial' \in [Grants -> 0 .. MaxRefreshes]
  BY <1>1 DEF MusicInv, MusicTypeOK, MusicStoreTypeOK, providers
<1> QED
  BY <1>5, <1>6, <1>8, <1>9, <1>10, <1>11, StepOfOne

\* The track is passed over.
LEMMA MatchFailsKeeps ==
  ASSUME MusicInv, NEW h \in Handlers, MatchFails(h)
  PROVE  MusicInv'
<1>1. UNCHANGED <<musicTables, holder>> /\ serial' \in [Grants -> 0 .. MaxRefreshes]
  BY DEF MatchFails, providers, MusicInv, MusicTypeOK
<1>2. PICK pc \in {"save", "match"} : At(h, "sync", pc)
  BY DEF MatchFails
<1>3. /\ req[h] \in Sync /\ req[h].held # {}
      /\ \A b \in req[h].todo \cup req[h].held : HeldOK(b)
      /\ \A k \in req[h].jobs : k \in Job /\ JobOK(k)
  BY <1>2, SyncAt
<1>4. CASE req' = [req EXCEPT ![h] = JobDone(@)]
  <2>1. JobDone(req[h]) \in Request /\ RequestOK(JobDone(req[h]))
    BY <1>3, JobDoneOK
  <2> QED
    BY <1>1, <1>4, <2>1, QuietStep DEF MusicInv, MusicTypeOK
<1>5. ASSUME NEW j \in req[h].jobs, req' = [req EXCEPT ![h] = JobDone([@ EXCEPT !.job = {j}])]
      PROVE  MusicInv'
  <2> DEFINE r == [req[h] EXCEPT !.job = {j}]
  <2>1. r \in Sync /\ r.todo = req[h].todo /\ r.held = req[h].held /\ r.jobs = req[h].jobs
    <3>1. {j} \in SUBSET Job
      BY <1>3
    <3> QED
      BY <1>3, <3>1 DEF Sync
  <2>2. req' = [req EXCEPT ![h] = JobDone(r)]
    BY <1>5 DEF MusicInv, MusicTypeOK
  <2> HIDE DEF r
  <2>3. JobDone(r) \in Request /\ RequestOK(JobDone(r))
    BY <1>3, <2>1, JobDoneOK
  <2> QED
    BY <1>1, <2>2, <2>3, QuietStep
<1> QED
  BY <1>4, <1>5 DEF MatchFails

-----------------------------------------------------------------------------
(* The invariant.                                                          *)

\* A song more in the table.
LEMMA AddSongKeeps ==
  ASSUME MusicInv, AddSong
  PROVE  MusicInv'
<1>1. /\ songs \subseteq songs' /\ songs' \subseteq Songs
      /\ UNCHANGED <<accounts, nextAccount, tracks, nextTrack, matches, providers, req>>
  BY DEF AddSong, MusicInv, MusicTypeOK, MusicStoreTypeOK
<1>2. Kept
  BY <1>1, UnchangedAccounts, UnchangedTracks DEF MusicInv, MusicTypeOK, providers, Kept
<1>3. MusicTypeOK'
  BY <1>1 DEF MusicInv, MusicTypeOK, MusicStoreTypeOK, providers, IsTable
<1>4. \A h \in Handlers : RequestOK(req[h])'
  <2>1. \A rq \in Request : RequestOK(rq) => RequestOK(rq)'
    BY <1>2, KeptRequest DEF MusicInv
  <2>2. \A h \in Handlers : req[h] \in Request /\ RequestOK(req[h]) /\ req'[h] = req[h]
    BY <1>1 DEF MusicInv, MusicTypeOK
  <2> QED
    BY <2>1, <2>2
<1>5. MatchesInv'
  <2>1. \A t \in DOMAIN tracks : KeyOf(t)' = KeyOf(t)
    BY <1>1 DEF KeyOf
  <2> QED
    BY <1>1, <2>1 DEF MusicInv, MatchesInv
<1>6. IdsInv' /\ GrantsInv' /\ TokensStayWithDevice'
  BY <1>1 DEF MusicInv, IdsInv, GrantsInv, TokensStayWithDevice, providers
<1> QED
  BY <1>3, <1>4, <1>5, <1>6 DEF MusicInv

\* A crash takes the requests and nothing else.
LEMMA CrashKeeps ==
  ASSUME MusicInv, Crash
  PROVE  MusicInv'
<1>1. UNCHANGED <<musicTables, providers>> /\ req' = [h \in Handlers |-> NoReq]
  BY DEF Crash
<1>2. MusicTypeOK'
  BY <1>1 DEF MusicInv, MusicTypeOK, MusicStoreTypeOK, musicTables, providers, IsTable, Request
<1>3. \A h \in Handlers : RequestOK(req[h])'
  BY <1>1 DEF RequestOK
<1>4. MatchesInv'
  <2>1. \A t \in DOMAIN tracks : KeyOf(t)' = KeyOf(t)
    BY <1>1 DEF KeyOf, musicTables
  <2> QED
    BY <1>1, <2>1 DEF MusicInv, MatchesInv, musicTables
<1>5. IdsInv' /\ GrantsInv' /\ TokensStayWithDevice'
  BY <1>1 DEF MusicInv, IdsInv, GrantsInv, TokensStayWithDevice, musicTables, providers
<1> QED
  BY <1>2, <1>3, <1>4, <1>5 DEF MusicInv

\* A request that fails or is answered.
LEMMA EndingsKeep ==
  ASSUME MusicInv, NEW h \in Handlers, Recover(h) \/ ConnectFails(h) \/ DisconnectFails(h)
  PROVE  MusicInv'
  BY EndsQuietly DEF Recover, ConnectFails, DisconnectFails

\* The empty tables are in order.
LEMMA MusicInvInit ==
  ASSUME Init
  PROVE  MusicInv
<1>1. MusicTypeOK
  BY DEF Init, MusicStoreInit, EmptyTable, MusicTypeOK, MusicStoreTypeOK, IsTable, Request
<1>2. GrantsInv
  <2>1. DOMAIN holder = 1 .. 0 /\ 0 \in 0 .. MaxGrants
    BY DEF Init, EmptyTable
  <2> QED
    BY <2>1 DEF GrantsInv
<1>3. IdsInv /\ TokensStayWithDevice /\ MatchesInv
  BY DEF Init, MusicStoreInit, EmptyTable, IdsInv, TokensStayWithDevice, MatchesInv
<1>4. \A h \in Handlers : RequestOK(req[h])
  BY DEF Init, RequestOK
<1> QED
  BY <1>1, <1>2, <1>3, <1>4 DEF MusicInv

\* Every step keeps the invariant.
LEMMA MusicInvStep ==
  ASSUME MusicInv, [Next]_vars
  PROVE  MusicInv'
<1>1. ASSUME NEW h \in Handlers, AuthNext(h)
      PROVE  MusicInv'
  BY <1>1, StartConnectKeeps, ExchangeCodeKeeps, SaveAccountKeeps, ReloadAccountKeeps,
     StartDisconnectKeeps, DropTracksKeeps, DropAccountKeeps, EndingsKeep DEF AuthNext
<1>2. ASSUME NEW h \in Handlers, SyncNext(h)
      PROVE  MusicInv'
  BY <1>2, StartSyncKeeps, ListAccountsKeeps, TokenValidKeeps, RefreshTokenKeeps,
     RefreshFailsKeeps, RefreshLostKeeps, StoreTokensKeeps, FetchUserTracksKeeps,
     SaveTracksKeeps, ReloadTracksKeeps, SyncFailsKeeps, FindBestMatchKeeps,
     SaveMatchKeeps, MatchFailsKeeps DEF SyncNext
<1>3. CASE UNCHANGED vars
  <2>1. UNCHANGED <<musicTables, providers, req>>
    BY <1>3 DEF vars
  <2>2. MusicTypeOK'
    BY <2>1 DEF MusicInv, MusicTypeOK, MusicStoreTypeOK, musicTables, providers, IsTable
  <2>3. Kept
    BY <2>1, UnchangedAccounts, UnchangedTracks
       DEF MusicInv, MusicTypeOK, musicTables, providers, Kept
  <2>4. \A h \in Handlers : RequestOK(req[h])'
    <3>1. \A rq \in Request : RequestOK(rq) => RequestOK(rq)'
      BY <2>3, KeptRequest DEF MusicInv
    <3> QED
      BY <2>1, <3>1 DEF MusicInv, MusicTypeOK
  <2>5. MatchesInv'
    <3>1. \A t \in DOMAIN tracks : KeyOf(t)' = KeyOf(t)
      BY <2>1 DEF KeyOf, musicTables
    <3> QED
      BY <2>1, <3>1 DEF MusicInv, MatchesInv, musicTables
  <2>6. IdsInv' /\ GrantsInv' /\ TokensStayWithDevice'
    BY <2>1 DEF MusicInv, IdsInv, GrantsInv, TokensStayWithDevice, musicTables, providers
  <2> QED
    BY <2>2, <2>4, <2>5, <2>6 DEF MusicInv
<1> QED
  BY <1>1, <1>2, <1>3, AddSongKeeps, CrashKeeps DEF Next

\* MusicInv holds in every reachable state.
THEOREM MusicInvariance == Spec => []MusicInv
<1>1. Init => MusicInv
  BY MusicInvInit
<1>2. MusicInv /\ [Next]_vars => MusicInv'
  BY MusicInvStep
<1> QED
  BY <1>1, <1>2, PTL DEF Spec

\* The tables, the grants and the requests keep their types: no id outgrows its
\* table and no refresh token the series of its grant.
THEOREM MusicTypeCorrect == Spec => []MusicTypeOK
<1>1. MusicInv => MusicTypeOK
  BY DEF MusicInv
<1> QED
  BY <1>1, MusicInvariance, PTL

\* An account and its tracks are held under a grant given to their own device
\* for their own provider, however connects, disconnects and syncs overlap.
THEOREM TokensStay == Spec => []TokensStayWithDevice
<1>1. MusicInv => TokensStayWithDevice
  BY DEF MusicInv
<1> QED
  BY <1>1, MusicInvariance, PTL

\* A match is shown with the track it was computed from, and with its song,
\* although it may be saved after its track has gone and outlive it.
THEOREM MatchesAreOfTheirTracks == Spec => []MatchOfItsTrack
<1>1. ASSUME MusicInv, NEW d \in Devices, NEW row \in FindMatchedByDeviceID(d)
      PROVE  row.match.of = row.track /\ (row.match.song # NoSong => row.song # {})
  <2>1. PICK t \in DOMAIN tracks \cap DOMAIN matches :
          row = [track |-> KeyOf(t), match |-> matches[t], song |-> {matches[t].song} \cap songs]
    BY DEF FindMatchedByDeviceID
  <2>2. matches[t].of = KeyOf(t) /\ matches[t].song \in songs \cup {NoSong}
    BY <1>1 DEF MusicInv, MatchesInv
  <2> QED
    BY <2>1, <2>2
<1>2. MusicInv => MatchOfItsTrack
  BY <1>1 DEF MatchOfItsTrack
<1> QED
  BY <1>2, MusicInvariance, PTL

-----------------------------------------------------------------------------
(* One account and one row for each track: the UNIQUE constraints, which   *)
(* hold because each upsert looks for the row it would repeat.             *)

\* What Connect's upsert does to a table with one account for each device and
\* provider: one row is new or replaced.
LEMMA UpsertOneAccount ==
  ASSUME MusicInv, UniqueInv,
         NEW d \in Devices, NEW p \in Providers, NEW token \in Token,
         UpsertAccount(d, p, token)
  PROVE  /\ UniqueInv'
         /\ \E id \in RowIds :
              /\ DOMAIN accounts' = DOMAIN accounts \cup {id}
              /\ accounts'[id] = [device |-> d, provider |-> p, token |-> token]
              /\ \A a \in DOMAIN accounts' \ {id} : accounts'[a] = accounts[a]
<1> DEFINE row == [device |-> d, provider |-> p, token |-> token]
<1>1. CASE AccountsOf(d, p) # {}
  <2>1. PICK id \in DOMAIN accounts : accounts[id].device = d /\ accounts[id].provider = p
    BY <1>1 DEF AccountsOf
  <2>2. AccountsOf(d, p) = {id}
    BY <2>1 DEF AccountsOf, UniqueInv
  <2>3. accounts' = [a \in DOMAIN accounts |-> IF a = id THEN row ELSE accounts[a]]
    BY <1>1, <2>2 DEF UpsertAccount
  <2>4. id \in RowIds
    BY DEF MusicInv, MusicTypeOK, MusicStoreTypeOK, IsTable
  <2>5. DOMAIN accounts' = DOMAIN accounts /\ accounts'[id] = row
        /\ \A a \in DOMAIN accounts \ {id} : accounts'[a] = accounts[a]
    BY <2>1, <2>3
  <2>6. \A a \in DOMAIN accounts :
          accounts'[a].device = accounts[a].device /\ accounts'[a].provider = accounts[a].provider
    BY <2>1, <2>3
  <2>7. UniqueInv'
    BY <2>5, <2>6 DEF UniqueInv
  <2> QED
    BY <2>1, <2>4, <2>5, <2>7
<1>2. CASE AccountsOf(d, p) = {}
  <2>1. /\ nextAccount <= MaxRows
        /\ accounts' = [a \in DOMAIN accounts \cup {nextAccount} |->
                          IF a = nextAccount THEN row ELSE accounts[a]]
    BY <1>2 DEF UpsertAccount, NextId, Put
  <2>2. nextAccount \in RowIds /\ nextAccount \notin DOMAIN accounts
    BY <2>1 DEF MusicInv, MusicTypeOK, MusicStoreTypeOK, IdsInv, RowIds
  <2>3. \A a \in DOMAIN accounts : ~(accounts[a].device = d /\ accounts[a].provider = p)
    BY <1>2 DEF AccountsOf
  <2> QED
    BY <2>1, <2>2, <2>3 DEF UniqueInv
<1> QED
  BY <1>1, <1>2


\* Accounts that keep their owner, if they stay, stay one for each.
LEMMA AccountsStayUnique ==
  ASSUME UniqueInv,
         \A a \in DOMAIN accounts' : /\ a \in DOMAIN accounts
                                     /\ accounts'[a].device = accounts[a].device
                                     /\ accounts'[a].provider = accounts[a].provider
  PROVE  UniqueInv'
  BY DEF UniqueInv

\* So do rows of tracks.
LEMMA TracksStayUnique ==
  ASSUME UniqueTracksInv,
         \A t \in DOMAIN tracks' : t \in DOMAIN tracks /\ KeyOf(t)' = KeyOf(t)
  PROVE  UniqueTracksInv'
  BY DEF UniqueTracksInv

\* UpsertMany inserts one row for each track of the list that has none, under ids
\* never given out before.
LEMMA NewTracks ==
  ASSUME MusicStoreTypeOK, IdsInv,
         NEW d \in Devices, NEW p \in Providers, NEW grant \in Grants,
         NEW exts \in SUBSET Exts, UpsertTracks(d, p, grant, exts)
  PROVE  /\ \A t \in DOMAIN tracks' \ DOMAIN tracks :
              /\ t \in Nat /\ t >= nextTrack
              /\ tracks'[t].device = d /\ tracks'[t].provider = p
              /\ tracks'[t].ext \in exts
              /\ \A u \in TracksOf(d, p) : tracks[u].ext # tracks'[t].ext
         /\ \A t, u \in DOMAIN tracks' \ DOMAIN tracks :
              tracks'[t].ext = tracks'[u].ext => t = u
         /\ \A e \in exts : \/ \E u \in TracksOf(d, p) : tracks[u].ext = e
                            \/ \E t \in DOMAIN tracks' \ DOMAIN tracks : tracks'[t].ext = e
<1> DEFINE new == exts \ {tracks[t].ext : t \in TracksOf(d, p)}
           next == nextTrack + Cardinality(new)
<1>1. Cardinality(new) \in Nat
  <2>1. IsFiniteSet(new)
    BY FS_Subset
  <2> QED
    BY <2>1, FS_CardinalityType
<1>2. \A e : e \in new <=> e \in exts /\ \A u \in TracksOf(d, p) : tracks[u].ext # e
  OBVIOUS
<1>3. PICK at \in [new -> nextTrack .. next - 1] :
        /\ \A e, f \in new : at[e] = at[f] => e = f
        /\ tracks' = [t \in DOMAIN tracks \cup Range(at) |->
                        IF t \in DOMAIN tracks
                        THEN IF t \in TracksOf(d, p) /\ tracks[t].ext \in exts
                             THEN [tracks[t] EXCEPT !.grant = grant] ELSE tracks[t]
                        ELSE [device |-> d, provider |-> p, grant |-> grant,
                              ext |-> CHOOSE e \in new : at[e] = t]]
  BY DEF UpsertTracks, NextId
<1> HIDE DEF new
<1>4. nextTrack \in Nat /\ next \in Nat
  BY <1>1 DEF MusicStoreTypeOK
<1>5. \A e \in new : at[e] \in nextTrack .. next - 1
  BY <1>3
<1> HIDE DEF next
<1>6. \A e \in new : at[e] \in Nat /\ at[e] >= nextTrack
  BY <1>4, <1>5
<1>7. \A e \in new : at[e] \notin DOMAIN tracks
  BY <1>6 DEF IdsInv, MusicStoreTypeOK, IsTable, RowIds
<1>8. Range(at) = {at[e] : e \in new}
  BY DEF Range
<1>9. \A e \in new : (CHOOSE f \in new : at[f] = at[e]) = e
  BY <1>3
<1>10. \A e \in new : /\ at[e] \in DOMAIN tracks' \ DOMAIN tracks
                      /\ tracks'[at[e]] = [device |-> d, provider |-> p, grant |-> grant, ext |-> e]
  BY <1>3, <1>7, <1>8, <1>9
<1>11. \A t \in DOMAIN tracks' \ DOMAIN tracks : \E e \in new : t = at[e]
  BY <1>3, <1>8
<1>12. \A t \in DOMAIN tracks' \ DOMAIN tracks :
          \E e \in new : /\ t = at[e] /\ tracks'[t].ext = e
                         /\ tracks'[t].device = d /\ tracks'[t].provider = p
  <2> SUFFICES ASSUME NEW t \in DOMAIN tracks' \ DOMAIN tracks
               PROVE  \E e \in new : /\ t = at[e] /\ tracks'[t].ext = e
                                     /\ tracks'[t].device = d /\ tracks'[t].provider = p
    OBVIOUS
  <2>1. PICK e \in new : t = at[e]
    BY <1>11
  <2>2. tracks'[t] = [device |-> d, provider |-> p, grant |-> grant, ext |-> e]
    BY <1>10, <2>1
  <2> QED
    BY <2>1, <2>2
<1>13. \A e \in exts \ new : \E u \in TracksOf(d, p) : tracks[u].ext = e
  BY <1>2
<1>14. \A t \in DOMAIN tracks' \ DOMAIN tracks :
          /\ t \in Nat /\ t >= nextTrack
          /\ tracks'[t].device = d /\ tracks'[t].provider = p
          /\ tracks'[t].ext \in exts
          /\ \A u \in TracksOf(d, p) : tracks[u].ext # tracks'[t].ext
  BY <1>2, <1>6, <1>12
<1>15. \A t, u \in DOMAIN tracks' \ DOMAIN tracks :
          tracks'[t].ext = tracks'[u].ext => t = u
  BY <1>12
<1>16. ASSUME NEW e \in new
       PROVE  \E t \in DOMAIN tracks' \ DOMAIN tracks : tracks'[t].ext = e
  <2>1. /\ at[e] \in DOMAIN tracks' \ DOMAIN tracks
        /\ tracks'[at[e]] = [device |-> d, provider |-> p, grant |-> grant, ext |-> e]
    BY <1>10
  <2>2. tracks'[at[e]].ext = e
    BY <2>1
  <2> QED
    BY <2>1, <2>2
<1> QED
  BY <1>13, <1>14, <1>15, <1>16

\* The tracks a sync saves have one row each.
LEMMA SaveTracksUnique ==
  ASSUME MusicInv, UniqueTracksInv, NEW h \in Handlers, SaveTracks(h)
  PROVE  UniqueTracksInv'
<1> DEFINE a == AccountOf(req[h])
<1>1. a \in Held /\ req[h] \in Sync
      /\ UpsertTracks(a.device, a.provider, a.token.grant, req[h].exts)
  BY AccountInHand, SyncAt DEF SaveTracks
<1> HIDE DEF a
<1>2. /\ a.device \in Devices /\ a.provider \in Providers /\ a.token.grant \in Grants
      /\ req[h].exts \in SUBSET Exts
  BY <1>1 DEF Held, Token, Sync
<1>3. /\ DOMAIN tracks \subseteq DOMAIN tracks'
      /\ \A t \in DOMAIN tracks : KeyOf(t)' = KeyOf(t)
  <2>1. TracksKept /\ DOMAIN tracks \subseteq DOMAIN tracks'
    BY <1>1, <1>2, UpsertTracksKeeps DEF MusicInv, MusicTypeOK
  <2> QED
    BY <2>1 DEF TracksKept, MusicInv, IdsInv
<1>4. /\ \A t \in DOMAIN tracks' \ DOMAIN tracks :
           /\ tracks'[t].device = a.device /\ tracks'[t].provider = a.provider
           /\ \A u \in TracksOf(a.device, a.provider) : tracks[u].ext # tracks'[t].ext
      /\ \A t, u \in DOMAIN tracks' \ DOMAIN tracks : tracks'[t].ext = tracks'[u].ext => t = u
  BY <1>1, <1>2, NewTracks DEF MusicInv, MusicTypeOK
<1>5. \A t, u \in DOMAIN tracks' : KeyOf(t)' = KeyOf(u)' =>
        /\ tracks'[t].device = tracks'[u].device
        /\ tracks'[t].provider = tracks'[u].provider
        /\ tracks'[t].ext = tracks'[u].ext
  BY DEF KeyOf
<1>6. ASSUME NEW t \in DOMAIN tracks, NEW u \in DOMAIN tracks' \ DOMAIN tracks
      PROVE  KeyOf(t)' # KeyOf(u)'
  <2>1. /\ tracks'[t].device = tracks[t].device
        /\ tracks'[t].provider = tracks[t].provider
        /\ tracks'[t].ext = tracks[t].ext
    BY <1>3 DEF KeyOf
  <2>2. CASE t \in TracksOf(a.device, a.provider)
    BY <1>3, <1>4, <1>5, <2>1, <2>2
  <2>3. CASE t \notin TracksOf(a.device, a.provider)
    BY <1>3, <1>4, <1>5, <2>1, <2>3 DEF TracksOf
  <2> QED
    BY <2>2, <2>3
<1>7. ASSUME NEW t \in DOMAIN tracks', NEW u \in DOMAIN tracks', KeyOf(t)' = KeyOf(u)'
      PROVE  t = u
  <2>1. CASE t \in DOMAIN tracks /\ u \in DOMAIN tracks
    BY <1>3, <1>7, <2>1 DEF UniqueTracksInv
  <2>2. CASE t \notin DOMAIN tracks /\ u \notin DOMAIN tracks
    BY <1>4, <1>5, <1>7, <2>2
  <2> QED
    BY <1>6, <1>7, <2>1, <2>2
<1> QED
  BY <1>7 DEF UniqueTracksInv

-----------------------------------------------------------------------------
(* The match about to be saved is the one of the track in hand.            *)

\* A request that has not come to save a match.
LEMMA NoMatchComes ==
  ASSUME MusicTypeOK, BestInv, NEW h \in Handlers, NEW r, req' = [req EXCEPT ![h] = r],
         r = NoReq \/ r.kind # "sync" \/ r.pc # "save"
  PROVE  BestInv'
<1>1. \A q \in Handlers : req'[q] = IF q = h THEN r ELSE req[q]
  BY DEF MusicTypeOK
<1>2. ASSUME NEW q \in Handlers, At(q, "sync", "save")', NEW j \in req'[q].job
      PROVE  req'[q].best \in {SongOf[j.key.ext], NoSong}
  <2>1. q # h
    BY <1>1, <1>2 DEF At
  <2>2. req'[q] = req[q] /\ At(q, "sync", "save")
    BY <1>1, <1>2, <2>1 DEF At
  <2> QED
    BY <1>2, <2>2 DEF BestInv
<1> QED
  BY <1>2 DEF BestInv

\* A sync goes on to another account, or to another track of the same.
LEMMA DoneSavesNothing ==
  ASSUME NEW rq \in Sync
  PROVE  /\ AccountDone(rq) = NoReq \/ AccountDone(rq).pc = "token"
         /\ JobDone(rq) = NoReq \/ JobDone(rq).pc \in {"token", "match"}
<1>1. AccountDone(rq) = NoReq \/ AccountDone(rq).pc = "token"
  <2> DEFINE left == {a \in rq.todo : a.id \notin {b.id : b \in rq.held}}
             next == [rq EXCEPT !.pc = "token", !.todo = left, !.held = {}, !.exts = {},
                                !.jobs = {}, !.job = {}, !.best = NoSong]
  <2>1. AccountDone(rq) = NoReq \/ AccountDone(rq) = next
    BY DEF AccountDone
  <2> HIDE DEF left
  <2>2. next.pc = "token"
    BY DEF Sync
  <2> HIDE DEF next
  <2> QED
    BY <2>1, <2>2
<1>2. JobDone(rq) = AccountDone(rq) \/ JobDone(rq).pc = "match"
  <2> DEFINE left == rq.jobs \ rq.job
             next == [rq EXCEPT !.pc = "match", !.jobs = left, !.job = {}, !.best = NoSong]
  <2>1. JobDone(rq) = AccountDone(rq) \/ JobDone(rq) = next
    BY DEF JobDone
  <2> HIDE DEF left
  <2>2. next.pc = "match"
    BY DEF Sync
  <2> HIDE DEF next
  <2> QED
    BY <2>1, <2>2
<1> QED
  BY <1>1, <1>2

LEMMA AuthBest ==
  ASSUME MusicInv, BestInv, NEW h \in Handlers, AuthNext(h)
  PROVE  BestInv'
<1>1. MusicTypeOK /\ req \in [Handlers -> Request]
  BY DEF MusicInv, MusicTypeOK
<1>2. CASE Ends(h)
  <2>1. req' = [req EXCEPT ![h] = NoReq]
    BY <1>2 DEF Ends
  <2> QED
    BY <1>1, <2>1, NoMatchComes
<1>3. ASSUME NEW kind \in {"connect", "disconnect"}, NEW r, r.kind = kind,
             req' = [req EXCEPT ![h] = r]
      PROVE  BestInv'
  <2>1. r.kind # "sync"
    BY <1>3
  <2> QED
    BY <1>1, <1>3, <2>1, NoMatchComes
<1>4. CASE StartConnect(h)
  <2>1. PICK d \in Devices, p \in Providers, callback \in BOOLEAN :
          req' = [req EXCEPT ![h] =
                    [kind |-> "connect", pc |-> "exchange", device |-> d,
                     provider |-> p, callback |-> callback, grant |-> 0]]
    BY <1>4 DEF StartConnect
  <2> QED
    BY <1>3, <2>1
<1>5. CASE StartDisconnect(h)
  <2>1. PICK d \in Devices, p \in Providers :
          req' = [req EXCEPT ![h] =
                    [kind |-> "disconnect", pc |-> "tracks", device |-> d, provider |-> p]]
    BY <1>5 DEF StartDisconnect
  <2> QED
    BY <1>3, <2>1
<1>6. ASSUME NEW pc, At(h, "connect", pc) PROVE req[h] \in Connect
  BY <1>1, <1>6, KindOfRequest
<1>7. CASE ExchangeCode(h)
  <2> DEFINE g == Cardinality(DOMAIN holder) + 1
             r == [req[h] EXCEPT !.pc = "save", !.grant = g]
  <2>1. req' = [req EXCEPT ![h].pc = "save", ![h].grant = g] /\ req[h] \in Connect
    BY <1>6, <1>7 DEF ExchangeCode
  <2> HIDE DEF g
  <2>2. req' = [req EXCEPT ![h] = r] /\ r.kind = "connect"
    BY <1>1, <2>1 DEF Connect
  <2> HIDE DEF r
  <2> QED
    BY <1>3, <2>2
<1>8. ASSUME NEW pc, req' = [req EXCEPT ![h].pc = pc], req[h] \in Connect \cup Disconnect
      PROVE  BestInv'
  <2> DEFINE r == [req[h] EXCEPT !.pc = pc]
  <2>1. req' = [req EXCEPT ![h] = r] /\ r.kind \in {"connect", "disconnect"}
    BY <1>1, <1>8 DEF Connect, Disconnect
  <2> HIDE DEF r
  <2> QED
    BY <1>3, <2>1
<1>9. CASE SaveAccount(h)
  BY <1>6, <1>8, <1>9 DEF SaveAccount
<1>10. CASE ReloadAccount(h)
  BY <1>2, <1>6, <1>8, <1>10 DEF ReloadAccount
<1>11. CASE DropTracks(h)
  <2>1. req[h] \in Disconnect /\ req' = [req EXCEPT ![h].pc = "account"]
    BY <1>1, <1>11, KindOfRequest DEF DropTracks
  <2> QED
    BY <1>8, <2>1
<1>12. CASE Recover(h) \/ ConnectFails(h) \/ DropAccount(h) \/ DisconnectFails(h)
  BY <1>2, <1>12 DEF Recover, ConnectFails, DropAccount, DisconnectFails
<1> QED
  BY <1>4, <1>5, <1>7, <1>9, <1>10, <1>11, <1>12 DEF AuthNext

\* FindBestMatch chooses the track and its match together.
LEMMA FindBestMatchBest ==
  ASSUME MusicInv, BestInv, NEW h \in Handlers, FindBestMatch(h)
  PROVE  BestInv'
<1>1. PICK j \in req[h].jobs :
        req' = [req EXCEPT ![h].pc = "save", ![h].job = {j},
                           ![h].best = IF SongOf[j.key.ext] \in songs
                                         THEN SongOf[j.key.ext] ELSE NoSong]
  BY DEF FindBestMatch
<1> DEFINE best == IF SongOf[j.key.ext] \in songs THEN SongOf[j.key.ext] ELSE NoSong
<1>2. best \in {SongOf[j.key.ext], NoSong}
  OBVIOUS
<1> HIDE DEF best
<1>3. req[h] \in Sync
  BY SyncAt DEF FindBestMatch
<1>4. req \in [Handlers -> Request]
  BY DEF MusicInv, MusicTypeOK
<1>5. req' = [req EXCEPT ![h].pc = "save", ![h].job = {j}, ![h].best = best]
  BY <1>1 DEF best
<1>6. /\ \A q \in Handlers \ {h} : req'[q] = req[q]
      /\ req'[h].job = {j} /\ req'[h].best = best
  BY <1>3, <1>4, <1>5 DEF Sync
<1>7. \A q \in Handlers \ {h} : At(q, "sync", "save")' => At(q, "sync", "save")
  BY <1>6 DEF At
<1> QED
  BY <1>2, <1>6, <1>7 DEF BestInv

LEMMA SyncBest ==
  ASSUME MusicInv, BestInv, NEW h \in Handlers, SyncNext(h)
  PROVE  BestInv'
<1>1. MusicTypeOK /\ req \in [Handlers -> Request]
  BY DEF MusicInv, MusicTypeOK
<1>2. ASSUME NEW r, r = NoReq \/ r.pc # "save", req' = [req EXCEPT ![h] = r]
      PROVE  BestInv'
  BY <1>1, <1>2, NoMatchComes
<1>3. CASE StartSync(h)
  <2>1. PICK d \in Devices :
          req' = [req EXCEPT ![h] =
                    [kind |-> "sync", pc |-> "list", device |-> d, todo |-> {}, held |-> {},
                     exts |-> {}, jobs |-> {}, job |-> {}, best |-> NoSong]]
    BY <1>3 DEF StartSync
  <2> QED
    BY <1>2, <2>1
<1>4. ASSUME NEW pc, At(h, "sync", pc) PROVE req[h] \in Sync
  BY <1>4, SyncAt
<1>5. CASE ListAccounts(h)
  <2> DEFINE row(a) == [id |-> a, device |-> accounts[a].device,
                        provider |-> accounts[a].provider, token |-> accounts[a].token]
             held == {row(a) : a \in {b \in DOMAIN accounts : accounts[b].device = req[h].device}}
             r == [req[h] EXCEPT !.pc = "token", !.todo = held]
  <2>1. req' = [req EXCEPT ![h] = NoReq] \/ req' = [req EXCEPT ![h] = r]
    BY <1>1, <1>5 DEF ListAccounts
  <2> HIDE DEF held
  <2>2. r.pc = "token"
    BY <1>4, <1>5 DEF ListAccounts, Sync
  <2> HIDE DEF r
  <2> QED
    BY <1>2, <2>1, <2>2
<1>6. ASSUME NEW pc, pc # "save", NEW held, req[h] \in Sync,
             req' = [req EXCEPT ![h].pc = pc, ![h].held = held]
      PROVE  BestInv'
  <2> DEFINE r == [req[h] EXCEPT !.pc = pc, !.held = held]
  <2>1. req' = [req EXCEPT ![h] = r] /\ r.pc = pc
    BY <1>1, <1>6 DEF Sync
  <2> HIDE DEF r
  <2> QED
    BY <1>2, <1>6, <2>1
<1>7. CASE TokenValid(h)
  <2>1. \E held : req' = [req EXCEPT ![h].pc = "fetch", ![h].held = held]
    BY <1>7 DEF TokenValid
  <2> QED
    BY <1>4, <1>6, <1>7, <2>1 DEF TokenValid
<1>8. CASE RefreshToken(h)
  <2>1. \E held : req' = [req EXCEPT ![h].pc = "store", ![h].held = held]
    BY <1>8 DEF RefreshToken
  <2> QED
    BY <1>4, <1>6, <1>8, <2>1 DEF RefreshToken
<1>9. ASSUME NEW rq \in Sync,
             req' = [req EXCEPT ![h] = AccountDone(rq)] \/ req' = [req EXCEPT ![h] = JobDone(rq)]
      PROVE  BestInv'
  <2>1. /\ AccountDone(rq) = NoReq \/ AccountDone(rq).pc # "save"
        /\ JobDone(rq) = NoReq \/ JobDone(rq).pc # "save"
    BY <1>9, DoneSavesNothing
  <2> QED
    BY <1>2, <1>9, <2>1
<1>10. CASE RefreshFails(h) \/ RefreshLost(h)
  <2>1. PICK a \in req[h].todo : req' = [req EXCEPT ![h] = AccountDone([@ EXCEPT !.held = {a}])]
    BY <1>10 DEF RefreshFails, RefreshLost
  <2> DEFINE r == [req[h] EXCEPT !.held = {a}]
  <2>2. At(h, "sync", "token")
    BY <1>10 DEF RefreshFails, RefreshLost
  <2>3. req[h] \in Sync /\ a \in Held
    BY <2>2, SyncAt
  <2>4. r \in Sync
    BY <2>3 DEF Sync
  <2>5. req' = [req EXCEPT ![h] = AccountDone(r)]
    BY <1>1, <2>1
  <2> HIDE DEF r
  <2> QED
    BY <1>9, <2>4, <2>5
<1>11. ASSUME NEW pc, pc # "save", req[h] \in Sync, req' = [req EXCEPT ![h].pc = pc]
       PROVE  BestInv'
  <2> DEFINE r == [req[h] EXCEPT !.pc = pc]
  <2>1. req' = [req EXCEPT ![h] = r] /\ r.pc = pc
    BY <1>1, <1>11 DEF Sync
  <2> HIDE DEF r
  <2> QED
    BY <1>2, <1>11, <2>1
<1>12. CASE StoreTokens(h)
  BY <1>4, <1>11, <1>12 DEF StoreTokens
<1>13. CASE SaveTracks(h)
  BY <1>4, <1>11, <1>13 DEF SaveTracks
<1>14. CASE FetchUserTracks(h)
  <2>1. PICK exts \in SUBSET Exts : req' = [req EXCEPT ![h].pc = "upsert", ![h].exts = exts]
    BY <1>14 DEF FetchUserTracks
  <2> DEFINE r == [req[h] EXCEPT !.pc = "upsert", !.exts = exts]
  <2>2. req[h] \in Sync
    BY <1>4, <1>14 DEF FetchUserTracks
  <2>3. req' = [req EXCEPT ![h] = r] /\ r.pc = "upsert"
    BY <1>1, <2>1, <2>2 DEF Sync
  <2> HIDE DEF r
  <2> QED
    BY <1>2, <2>3
<1>15. CASE ReloadTracks(h)
  <2> DEFINE a == AccountOf(req[h])
             job(t) == [track |-> t, key |-> KeyOf(t)]
             jobs == {job(t) : t \in TracksOf(a.device, a.provider)}
             r == [req[h] EXCEPT !.pc = "match", !.jobs = jobs]
  <2>1. \/ req' = [req EXCEPT ![h] = AccountDone(req[h])]
        \/ req' = [req EXCEPT ![h] = r]
    BY <1>1, <1>15 DEF ReloadTracks
  <2>2. req[h] \in Sync
    BY <1>4, <1>15 DEF ReloadTracks
  <2> HIDE DEF jobs
  <2>3. r.pc = "match"
    BY <2>2 DEF Sync
  <2> HIDE DEF r
  <2> QED
    BY <1>2, <1>9, <2>1, <2>2, <2>3
<1>16. CASE SyncFails(h)
  <2>1. \E pc : At(h, "sync", pc)
    BY <1>16 DEF SyncFails
  <2>2. req' = [req EXCEPT ![h] = AccountDone(req[h])]
    BY <1>1, <1>16 DEF SyncFails
  <2> QED
    BY <1>4, <1>9, <2>1, <2>2
<1>17. CASE SaveMatch(h)
  <2>1. req' = [req EXCEPT ![h] = JobDone(req[h])]
    BY <1>1, <1>17 DEF SaveMatch
  <2> QED
    BY <1>4, <1>9, <1>17, <2>1 DEF SaveMatch
<1>18. CASE MatchFails(h)
  <2>1. PICK pc \in {"save", "match"} : At(h, "sync", pc)
    BY <1>18 DEF MatchFails
  <2>2. req[h] \in Sync /\ \A j \in req[h].jobs : j \in Job
    BY <2>1, SyncAt
  <2>3. CASE req' = [req EXCEPT ![h] = JobDone(@)]
    BY <1>1, <1>9, <2>2, <2>3
  <2>4. ASSUME NEW j \in req[h].jobs,
               req' = [req EXCEPT ![h] = JobDone([@ EXCEPT !.job = {j}])]
        PROVE  BestInv'
    <3> DEFINE r == [req[h] EXCEPT !.job = {j}]
    <3>1. r \in Sync
      BY <2>2 DEF Sync
    <3>2. req' = [req EXCEPT ![h] = JobDone(r)]
      BY <1>1, <2>4
    <3> HIDE DEF r
    <3> QED
      BY <1>9, <3>1, <3>2
  <2> QED
    BY <1>18, <2>3, <2>4 DEF MatchFails
<1> QED
  BY <1>3, <1>5, <1>7, <1>8, <1>10, <1>12, <1>13, <1>14, <1>15, <1>16, <1>17, <1>18,
     FindBestMatchBest DEF SyncNext

-----------------------------------------------------------------------------
(* LibraryInv.                                                             *)

\* Rows of accounts as a request leaves them.
LEMMA RequestAccounts ==
  ASSUME MusicInv, UniqueInv, NEW h \in Handlers, AuthNext(h) \/ SyncNext(h)
  PROVE  UniqueInv'
<1>1. CASE SaveAccount(h)
  <2> DEFINE token == [grant |-> req[h].grant, serial |-> 0]
  <2>1. UpsertAccount(req[h].device, req[h].provider, token) /\ At(h, "connect", "save")
    BY <1>1 DEF SaveAccount
  <2>2. req[h] \in Connect /\ GivenFor(req[h].grant, req[h].device, req[h].provider)
    <3>1. req[h] \in Connect /\ req[h].pc = "save"
      BY <2>1, KindOfRequest DEF MusicInv
    <3> QED
      BY <2>1, <3>1 DEF MusicInv, RequestOK, At, Connect
  <2>3. req[h].device \in Devices /\ req[h].provider \in Providers /\ token \in Token
    BY <2>2 DEF Connect, GivenFor, MusicInv, MusicTypeOK, Token
  <2> HIDE DEF token
  <2> QED
    BY <2>1, <2>3, UpsertOneAccount
<1>2. CASE DropAccount(h)
  <2>1. DeleteAccount(req[h].device, req[h].provider) /\ UNCHANGED nextAccount
    BY <1>2 DEF DropAccount
  <2>2. \A a \in DOMAIN accounts' : a \in DOMAIN accounts /\ accounts'[a] = accounts[a]
    BY <2>1, DeleteAccountKeeps DEF MusicInv, MusicTypeOK
  <2> QED
    BY <2>2, AccountsStayUnique
<1>3. CASE StoreTokens(h)
  <2> DEFINE a == AccountOf(req[h])
             old == CHOOSE b \in req[h].todo : b.id = a.id
  <2>1. UpdateTokens(a.id, old.token, a.token) /\ UNCHANGED nextAccount
    BY <1>3 DEF StoreTokens
  <2>2. a \in Held
    BY <1>3, AccountInHand DEF StoreTokens
  <2> HIDE DEF a, old
  <2>3. a.token \in Token
    BY <2>2 DEF Held
  <2>4. AccountsKept /\ DOMAIN accounts' = DOMAIN accounts
    BY <2>1, <2>3, UpdateTokensKeeps DEF MusicInv, MusicTypeOK
  <2>5. \A b \in DOMAIN accounts : b < nextAccount
    BY DEF MusicInv, IdsInv
  <2>6. \A b \in DOMAIN accounts' : /\ b \in DOMAIN accounts
                                    /\ accounts'[b].device = accounts[b].device
                                    /\ accounts'[b].provider = accounts[b].provider
    BY <2>4, <2>5 DEF AccountsKept
  <2> QED
    BY <2>6, AccountsStayUnique
<1>4. CASE UNCHANGED accounts
  BY <1>4 DEF UniqueInv
<1>5. ASSUME ~SaveAccount(h), ~DropAccount(h), ~StoreTokens(h)
      PROVE  UNCHANGED accounts
  BY <1>5 DEF AuthNext, SyncNext, StartConnect, ExchangeCode, ReloadAccount, Recover,
     ConnectFails, StartDisconnect, DropTracks, DisconnectFails, StartSync, ListAccounts,
     TokenValid, RefreshToken, RefreshFails, RefreshLost, FetchUserTracks, SaveTracks,
     ReloadTracks, SyncFails, FindBestMatch, SaveMatch, MatchFails, musicTables
<1> QED
  BY <1>1, <1>2, <1>3, <1>4, <1>5

\* Rows of tracks as a request leaves them.
LEMMA RequestTracks ==
  ASSUME MusicInv, UniqueTracksInv, NEW h \in Handlers, AuthNext(h) \/ SyncNext(h)
  PROVE  UniqueTracksInv'
<1>1. CASE SaveTracks(h)
  BY <1>1, SaveTracksUnique
<1>2. CASE DropTracks(h)
  <2>1. PICK fk \in BOOLEAN : DeleteTracks(req[h].device, req[h].provider, fk)
    BY <1>2 DEF DropTracks, Enforces
  <2>2. \A t \in DOMAIN tracks' : t \in DOMAIN tracks /\ tracks'[t] = tracks[t]
    BY <1>2, <2>1, DeleteTracksKeeps DEF DropTracks, MusicInv, MusicTypeOK
  <2>3. \A t \in DOMAIN tracks' : t \in DOMAIN tracks /\ KeyOf(t)' = KeyOf(t)
    BY <2>2 DEF KeyOf
  <2> QED
    BY <2>3, TracksStayUnique
<1>3. CASE UNCHANGED tracks
  BY <1>3 DEF UniqueTracksInv, KeyOf
<1>4. ASSUME ~SaveTracks(h), ~DropTracks(h)
      PROVE  UNCHANGED tracks
  BY <1>4 DEF AuthNext, SyncNext, StartConnect, ExchangeCode, SaveAccount, ReloadAccount,
     Recover, ConnectFails, StartDisconnect, DropAccount, DisconnectFails, StartSync,
     ListAccounts, TokenValid, RefreshToken, RefreshFails, RefreshLost, StoreTokens,
     FetchUserTracks, ReloadTracks, SyncFails, FindBestMatch, SaveMatch, MatchFails,
     musicTables
<1> QED
  BY <1>1, <1>2, <1>3, <1>4

LEMMA LibraryInvInit ==
  ASSUME Init
  PROVE  LibraryInv
<1>1. UniqueInv /\ UniqueTracksInv
  BY DEF Init, MusicStoreInit, EmptyTable, UniqueInv, UniqueTracksInv
<1>2. BestInv
  BY DEF Init, BestInv, At
<1> QED
  BY <1>1, <1>2 DEF LibraryInv

LEMMA LibraryInvStep ==
  ASSUME MusicInv, LibraryInv, [Next]_vars
  PROVE  LibraryInv'
<1>1. ASSUME NEW h \in Handlers, AuthNext(h) \/ SyncNext(h)
      PROVE  LibraryInv'
  BY <1>1, RequestAccounts, RequestTracks, AuthBest, SyncBest DEF LibraryInv
<1>2. CASE AddSong \/ Crash \/ UNCHANGED vars
  <2>1. UNCHANGED <<accounts, tracks>>
    BY <1>2 DEF AddSong, Crash, vars, musicTables
  <2>2. UniqueInv' /\ UniqueTracksInv'
    BY <2>1 DEF LibraryInv, UniqueInv, UniqueTracksInv, KeyOf
  <2>3. UNCHANGED req \/ req' = [h \in Handlers |-> NoReq]
    BY <1>2 DEF AddSong, Crash, vars
  <2>4. BestInv'
    BY <2>3 DEF LibraryInv, BestInv, At
  <2> QED
    BY <2>2, <2>4 DEF LibraryInv
<1> QED
  BY <1>1, <1>2 DEF Next

\* The tables keep what their UNIQUE constraints say, and a match that is about
\* to be saved is that of its track, however requests overlap.
THEOREM LibraryInvariance == Spec => []LibraryInv
<1>1. Init => MusicInv /\ LibraryInv
  BY MusicInvInit, LibraryInvInit
<1>2. (MusicInv /\ LibraryInv) /\ [Next]_vars => (MusicInv /\ LibraryInv)'
  BY MusicInvStep, LibraryInvStep
<1> QED
  BY <1>1, <1>2, PTL DEF Spec

-----------------------------------------------------------------------------
(* MusicSync implements MusicLibrary.  First the steps of the library, in  *)
(* terms of what they do to each owner.                                    *)

libraryVars ==
    <<[o \in LibraryOwners |-> GivenTo(o)], [o \in LibraryOwners |-> ConnectedBy(o)],
      [o \in LibraryOwners |-> ListedOf(o)], [o \in LibraryOwners |-> ShownOf(o)], songs>>

GivenKept == \A q \in LibraryOwners : GivenTo(q)' = GivenTo(q)
AccountKept == \A q \in LibraryOwners : ConnectedBy(q)' = ConnectedBy(q)
ListedKept == \A q \in LibraryOwners : ListedOf(q)' = ListedOf(q)
ShownKept == \A q \in LibraryOwners : ShownOf(q)' = ShownOf(q)

LEMMA LibraryStutters ==
  ASSUME GivenKept, AccountKept, ListedKept, ShownKept, UNCHANGED songs
  PROVE  UNCHANGED libraryVars
  BY DEF GivenKept, AccountKept, ListedKept, ShownKept, libraryVars

LEMMA AuthoriseMaps ==
  ASSUME NEW o \in LibraryOwners, NEW g \in Grants,
         \A q \in LibraryOwners : g \notin GivenTo(q),
         \A q \in LibraryOwners : GivenTo(q)' = IF q = o THEN GivenTo(q) \cup {g} ELSE GivenTo(q),
         AccountKept, ListedKept, ShownKept, UNCHANGED songs
  PROVE  Library!Next
<1> DEFINE given == [q \in LibraryOwners |-> GivenTo(q)]
<1>1. given' = [given EXCEPT ![o] = @ \cup {g}]
  OBVIOUS
<1>2. g \in Grants \ UNION {given[q] : q \in LibraryOwners}
  OBVIOUS
<1>3. /\ UNCHANGED [q \in LibraryOwners |-> ConnectedBy(q)]
      /\ UNCHANGED [q \in LibraryOwners |-> ListedOf(q)]
      /\ UNCHANGED [q \in LibraryOwners |-> ShownOf(q)]
      /\ UNCHANGED songs
  BY DEF AccountKept, ListedKept, ShownKept
<1>4. Library!Authorise(o)
  BY <1>1, <1>2, <1>3 DEF Library!Authorise, Library!Owners, LibraryOwners
<1> QED
  BY <1>4 DEF Library!Next, Library!Owners, LibraryOwners

LEMMA ConnectMaps ==
  ASSUME NEW o \in LibraryOwners, NEW g \in GivenTo(o),
         \A q \in LibraryOwners : ConnectedBy(q)' = IF q = o THEN {g} ELSE ConnectedBy(q),
         GivenKept, ListedKept, ShownKept, UNCHANGED songs
  PROVE  Library!Next
<1> DEFINE account == [q \in LibraryOwners |-> ConnectedBy(q)]
<1>1. account' = [account EXCEPT ![o] = {g}]
  OBVIOUS
<1>2. g \in [q \in LibraryOwners |-> GivenTo(q)][o]
  OBVIOUS
<1>3. /\ UNCHANGED [q \in LibraryOwners |-> GivenTo(q)]
      /\ UNCHANGED [q \in LibraryOwners |-> ListedOf(q)]
      /\ UNCHANGED [q \in LibraryOwners |-> ShownOf(q)]
      /\ UNCHANGED songs
  BY DEF GivenKept, ListedKept, ShownKept
<1>4. Library!Connect(o)
  BY <1>1, <1>2, <1>3 DEF Library!Connect
<1> QED
  BY <1>4 DEF Library!Next, Library!Owners, LibraryOwners

LEMMA DisconnectMaps ==
  ASSUME NEW o \in LibraryOwners,
         \A q \in LibraryOwners : ConnectedBy(q)' = IF q = o THEN {} ELSE ConnectedBy(q),
         GivenKept, ListedKept, ShownKept, UNCHANGED songs
  PROVE  Library!Next
<1> DEFINE account == [q \in LibraryOwners |-> ConnectedBy(q)]
<1>1. account' = [account EXCEPT ![o] = {}]
  OBVIOUS
<1>2. /\ UNCHANGED [q \in LibraryOwners |-> GivenTo(q)]
      /\ UNCHANGED [q \in LibraryOwners |-> ListedOf(q)]
      /\ UNCHANGED [q \in LibraryOwners |-> ShownOf(q)]
      /\ UNCHANGED songs
  BY DEF GivenKept, ListedKept, ShownKept
<1>3. Library!Disconnect(o)
  BY <1>1, <1>2 DEF Library!Disconnect
<1> QED
  BY <1>3 DEF Library!Next, Library!Owners, LibraryOwners

LEMMA ListMaps ==
  ASSUME NEW o \in LibraryOwners, NEW exts \in SUBSET Exts, GivenTo(o) # {},
         \A q \in LibraryOwners :
           ListedOf(q)' = IF q = o THEN ListedOf(q) \cup exts ELSE ListedOf(q),
         GivenKept, AccountKept, ShownKept, UNCHANGED songs
  PROVE  Library!Next
<1> DEFINE listed == [q \in LibraryOwners |-> ListedOf(q)]
<1>1. listed' = [listed EXCEPT ![o] = @ \cup exts]
  OBVIOUS
<1>2. [q \in LibraryOwners |-> GivenTo(q)][o] # {}
  OBVIOUS
<1>3. /\ UNCHANGED [q \in LibraryOwners |-> GivenTo(q)]
      /\ UNCHANGED [q \in LibraryOwners |-> ConnectedBy(q)]
      /\ UNCHANGED [q \in LibraryOwners |-> ShownOf(q)]
      /\ UNCHANGED songs
  BY DEF GivenKept, AccountKept, ShownKept
<1>4. Library!List(o, exts)
  BY <1>1, <1>2, <1>3 DEF Library!List
<1> QED
  BY <1>4 DEF Library!Next, Library!Owners, LibraryOwners

LEMMA MatchMaps ==
  ASSUME NEW o \in LibraryOwners, NEW e \in Exts, NEW found \in SUBSET Songs,
         e \in ListedOf(o), found \subseteq {SongOf[e]} \cap songs,
         \A q \in LibraryOwners :
           ShownOf(q)' = IF q = o THEN {row \in ShownOf(q) : row[1] # e} \cup {<<e, found>>}
                                  ELSE ShownOf(q),
         GivenKept, AccountKept, ListedKept, UNCHANGED songs
  PROVE  Library!Next
<1> DEFINE shown == [q \in LibraryOwners |-> ShownOf(q)]
<1>1. shown' = [shown EXCEPT ![o] = {row \in @ : row[1] # e} \cup {<<e, found>>}]
  OBVIOUS
<1>2. e \in [q \in LibraryOwners |-> ListedOf(q)][o]
  OBVIOUS
<1>3. /\ UNCHANGED [q \in LibraryOwners |-> GivenTo(q)]
      /\ UNCHANGED [q \in LibraryOwners |-> ConnectedBy(q)]
      /\ UNCHANGED [q \in LibraryOwners |-> ListedOf(q)]
      /\ UNCHANGED songs
  BY DEF GivenKept, AccountKept, ListedKept
<1>4. Library!Match(o, e, found)
  BY <1>1, <1>2, <1>3 DEF Library!Match
<1> QED
  BY <1>4 DEF Library!Next, Library!Owners, LibraryOwners

LEMMA ForgetMaps ==
  ASSUME NEW o \in LibraryOwners,
         \A q \in LibraryOwners : /\ ListedOf(q)' = IF q = o THEN {} ELSE ListedOf(q)
                                  /\ ShownOf(q)' = IF q = o THEN {} ELSE ShownOf(q),
         GivenKept, AccountKept, UNCHANGED songs
  PROVE  Library!Next
<1> DEFINE listed == [q \in LibraryOwners |-> ListedOf(q)]
           shown == [q \in LibraryOwners |-> ShownOf(q)]
<1>1. listed' = [listed EXCEPT ![o] = {}] /\ shown' = [shown EXCEPT ![o] = {}]
  OBVIOUS
<1>2. /\ UNCHANGED [q \in LibraryOwners |-> GivenTo(q)]
      /\ UNCHANGED [q \in LibraryOwners |-> ConnectedBy(q)]
      /\ UNCHANGED songs
  BY DEF GivenKept, AccountKept
<1>3. Library!Forget(o)
  BY <1>1, <1>2 DEF Library!Forget
<1> QED
  BY <1>3 DEF Library!Next, Library!Owners, LibraryOwners

LEMMA LearnMaps ==
  ASSUME NEW s \in Songs, songs' = songs \cup {s},
         GivenKept, AccountKept, ListedKept, ShownKept
  PROVE  Library!Next
<1>1. /\ UNCHANGED [q \in LibraryOwners |-> GivenTo(q)]
      /\ UNCHANGED [q \in LibraryOwners |-> ConnectedBy(q)]
      /\ UNCHANGED [q \in LibraryOwners |-> ListedOf(q)]
      /\ UNCHANGED [q \in LibraryOwners |-> ShownOf(q)]
  BY DEF GivenKept, AccountKept, ListedKept, ShownKept
<1>2. Library!Learn(s)
  BY <1>1 DEF Library!Learn
<1> QED
  BY <1>2 DEF Library!Next

\* Steps that leave tables alone leave what comes of them alone.
LEMMA ViewsKept ==
  /\ UNCHANGED holder => GivenKept
  /\ UNCHANGED accounts => AccountKept
  /\ UNCHANGED tracks => ListedKept
  /\ UNCHANGED <<tracks, matches, songs>> => ShownKept
<1>1. UNCHANGED holder => GivenKept
  BY DEF GivenKept, GivenTo
<1>2. UNCHANGED accounts => AccountKept
  BY DEF AccountKept, ConnectedBy, AccountsOf
<1>3. UNCHANGED tracks => ListedKept
  BY DEF ListedKept, ListedOf, TracksOf
<1>4. UNCHANGED <<tracks, matches, songs>> => ShownKept
  BY DEF ShownKept, ShownOf, FindMatchedByDeviceID, KeyOf
<1> QED
  BY <1>1, <1>2, <1>3, <1>4

\* A row is shown for each track of an owner with a match.
MatchedBy(o) ==
    {t \in DOMAIN tracks \cap DOMAIN matches :
       tracks[t].device = o[1] /\ tracks[t].provider = o[2]}

LEMMA ShownRows ==
  ASSUME NEW o \in LibraryOwners
  PROVE  /\ \A x : x \in ShownOf(o) <=>
              \E t \in MatchedBy(o) : x = <<tracks[t].ext, {matches[t].song} \cap songs>>
         /\ \A x : x \in ShownOf(o)' <=>
              \E t \in MatchedBy(o)' : x = <<tracks'[t].ext, {matches'[t].song} \cap songs'>>
<1>1. \A x : x \in ShownOf(o) <=>
        \E t \in MatchedBy(o) : x = <<tracks[t].ext, {matches[t].song} \cap songs>>
  <2> DEFINE row(t) == [track |-> KeyOf(t), match |-> matches[t],
                        song |-> {matches[t].song} \cap songs]
             rows == {row(t) : t \in {u \in DOMAIN tracks \cap DOMAIN matches :
                                        tracks[u].device = o[1]}}
  <2>1. ShownOf(o) = {<<r.track.ext, r.song>> : r \in {s \in rows : s.track.provider = o[2]}}
    BY DEF ShownOf, FindMatchedByDeviceID
  <2>2. \A t : /\ row(t).track.ext = tracks[t].ext
               /\ row(t).track.provider = tracks[t].provider
               /\ row(t).song = {matches[t].song} \cap songs
    BY DEF KeyOf
  <2> HIDE DEF row
  <2>3. \A r : r \in rows <=> \E t \in DOMAIN tracks \cap DOMAIN matches :
                                tracks[t].device = o[1] /\ r = row(t)
    OBVIOUS
  <2> HIDE DEF rows
  <2>4. \A t \in MatchedBy(o) :
          <<tracks[t].ext, {matches[t].song} \cap songs>> \in ShownOf(o)
    <3> SUFFICES ASSUME NEW t \in MatchedBy(o)
                 PROVE  <<tracks[t].ext, {matches[t].song} \cap songs>> \in ShownOf(o)
      OBVIOUS
    <3>1. row(t) \in rows /\ row(t).track.provider = o[2]
      BY <2>2, <2>3 DEF MatchedBy
    <3> QED
      BY <2>1, <2>2, <3>1
  <2>5. ASSUME NEW x \in ShownOf(o)
        PROVE  \E t \in MatchedBy(o) : x = <<tracks[t].ext, {matches[t].song} \cap songs>>
    <3>1. PICK r \in rows : r.track.provider = o[2] /\ x = <<r.track.ext, r.song>>
      BY <2>1
    <3>2. PICK t \in DOMAIN tracks \cap DOMAIN matches :
            tracks[t].device = o[1] /\ r = row(t)
      BY <2>3
    <3> QED
      BY <2>2, <3>1, <3>2 DEF MatchedBy
  <2> QED
    BY <2>4, <2>5
<1>2. \A x : x \in ShownOf(o)' <=>
        \E t \in MatchedBy(o)' : x = <<tracks'[t].ext, {matches'[t].song} \cap songs'>>
  <2> DEFINE row(t) == [track |-> KeyOf(t)', match |-> matches'[t],
                        song |-> {matches'[t].song} \cap songs']
             rows == {row(t) : t \in {u \in DOMAIN tracks' \cap DOMAIN matches' :
                                        tracks'[u].device = o[1]}}
  <2>1. ShownOf(o)' = {<<r.track.ext, r.song>> : r \in {s \in rows : s.track.provider = o[2]}}
    BY DEF ShownOf, FindMatchedByDeviceID
  <2>2. \A t : /\ row(t).track.ext = tracks'[t].ext
               /\ row(t).track.provider = tracks'[t].provider
               /\ row(t).song = {matches'[t].song} \cap songs'
    BY DEF KeyOf
  <2> HIDE DEF row
  <2>3. \A r : r \in rows <=> \E t \in DOMAIN tracks' \cap DOMAIN matches' :
                                tracks'[t].device = o[1] /\ r = row(t)
    OBVIOUS
  <2> HIDE DEF rows
  <2>4. \A t \in MatchedBy(o)' :
          <<tracks'[t].ext, {matches'[t].song} \cap songs'>> \in ShownOf(o)'
    <3> SUFFICES ASSUME NEW t \in MatchedBy(o)'
                 PROVE  <<tracks'[t].ext, {matches'[t].song} \cap songs'>> \in ShownOf(o)'
      OBVIOUS
    <3>1. row(t) \in rows /\ row(t).track.provider = o[2]
      BY <2>2, <2>3 DEF MatchedBy
    <3> QED
      BY <2>1, <2>2, <3>1
  <2>5. ASSUME NEW x \in ShownOf(o)'
        PROVE  \E t \in MatchedBy(o)' : x = <<tracks'[t].ext, {matches'[t].song} \cap songs'>>
    <3>1. PICK r \in rows : r.track.provider = o[2] /\ x = <<r.track.ext, r.song>>
      BY <2>1
    <3>2. PICK t \in DOMAIN tracks' \cap DOMAIN matches' :
            tracks'[t].device = o[1] /\ r = row(t)
      BY <2>3
    <3> QED
      BY <2>2, <3>1, <3>2 DEF MatchedBy
  <2> QED
    BY <2>4, <2>5
<1> QED
  BY <1>1, <1>2

-----------------------------------------------------------------------------
(* Then what each request does to its owner.                               *)

\* A statement that leaves every table the library is made of alone.
LEMMA QuietStutters ==
  ASSUME UNCHANGED <<accounts, tracks, matches, songs, holder>>
  PROVE  UNCHANGED libraryVars
  BY ViewsKept, LibraryStutters

LEMMA ExchangeCodeAuthorises ==
  ASSUME MusicInv, NEW h \in Handlers, ExchangeCode(h)
  PROVE  Library!Next
<1> DEFINE g == Cardinality(DOMAIN holder) + 1
           o == <<req[h].device, req[h].provider>>
<1>1. /\ g \in Grants /\ holder' = Put(holder, g, o)
      /\ UNCHANGED <<accounts, tracks, matches, songs>>
      /\ At(h, "connect", "exchange")
  BY DEF ExchangeCode, musicTables
<1>2. g \notin DOMAIN holder
  BY NextGrantIsFresh DEF MusicInv
<1>3. o \in LibraryOwners
  <2>1. req[h] \in Connect
    BY <1>1, KindOfRequest DEF MusicInv
  <2> QED
    BY <2>1 DEF Connect, LibraryOwners
<1> HIDE DEF g, o
<1>4. /\ DOMAIN holder' = DOMAIN holder \cup {g}
      /\ holder'[g] = o
      /\ \A f \in DOMAIN holder : holder'[f] = holder[f]
  BY <1>1, <1>2 DEF Put
<1>5. \A q \in LibraryOwners : g \notin GivenTo(q)
  BY <1>2 DEF GivenTo
<1>6. \A q \in LibraryOwners : GivenTo(q)' = IF q = o THEN GivenTo(q) \cup {g} ELSE GivenTo(q)
  BY <1>2, <1>4 DEF GivenTo
<1>7. AccountKept /\ ListedKept /\ ShownKept
  BY <1>1, ViewsKept
<1> QED
  BY <1>1, <1>3, <1>5, <1>6, <1>7, AuthoriseMaps

\* A grant of the owner is one given for it.
LEMMA GivenIsGiven ==
  ASSUME NEW g, NEW d, NEW p, GivenFor(g, d, p)
  PROVE  g \in GivenTo(<<d, p>>)
  BY DEF GivenFor, GivenTo

LEMMA SaveAccountConnects ==
  ASSUME MusicInv, LibraryInv, NEW h \in Handlers, SaveAccount(h)
  PROVE  Library!Next
<1> DEFINE d == req[h].device
           p == req[h].provider
           g == req[h].grant
           token == [grant |-> g, serial |-> 0]
<1>1. /\ UpsertAccount(d, p, token) /\ At(h, "connect", "save")
      /\ UNCHANGED <<tracks, matches, songs, holder>>
  BY DEF SaveAccount, providers
<1>2. req[h] \in Connect /\ GivenFor(g, d, p)
  <2>1. req[h] \in Connect /\ req[h].pc = "save"
    BY <1>1, KindOfRequest DEF MusicInv
  <2> QED
    BY <1>1, <2>1 DEF MusicInv, RequestOK, At, Connect
<1>3. d \in Devices /\ p \in Providers /\ token \in Token /\ token.grant = g
  BY <1>2 DEF Connect, GivenFor, MusicInv, MusicTypeOK, Token
<1> HIDE DEF d, p, g, token
<1>4. PICK id \in RowIds :
        /\ DOMAIN accounts' = DOMAIN accounts \cup {id}
        /\ accounts'[id] = [device |-> d, provider |-> p, token |-> token]
        /\ \A a \in DOMAIN accounts' \ {id} : accounts'[a] = accounts[a]
  BY <1>1, <1>3, UpsertOneAccount DEF LibraryInv
<1>5. UniqueInv'
  BY <1>1, <1>3, UpsertOneAccount DEF LibraryInv
<1>6. id \in DOMAIN accounts => accounts[id].device = d /\ accounts[id].provider = p
  <2>1. AccountsKept
    BY <1>1, <1>3, UpsertAccountKeeps DEF MusicInv, MusicTypeOK
  <2>2. id \in DOMAIN accounts => id < nextAccount
    BY DEF MusicInv, IdsInv
  <2> QED
    BY <1>4, <2>1, <2>2 DEF AccountsKept
<1>7. ASSUME NEW q \in LibraryOwners
      PROVE  ConnectedBy(q)' = IF q = <<d, p>> THEN {g} ELSE ConnectedBy(q)
  <2>1. CASE q = <<d, p>>
    <3>1. AccountsOf(q[1], q[2])' = {id}
      BY <1>4, <1>5, <2>1 DEF AccountsOf, UniqueInv
    <3> QED
      BY <1>3, <1>4, <2>1, <3>1 DEF ConnectedBy
  <2>2. CASE q # <<d, p>>
    <3>1. ~(q[1] = d /\ q[2] = p)
      BY <2>2 DEF LibraryOwners
    <3>2. /\ AccountsOf(q[1], q[2])' = AccountsOf(q[1], q[2])
          /\ id \notin AccountsOf(q[1], q[2])
      BY <1>4, <1>6, <3>1 DEF AccountsOf
    <3>3. \A a \in AccountsOf(q[1], q[2]) : accounts'[a] = accounts[a]
      BY <1>4, <3>2 DEF AccountsOf
    <3> QED
      BY <2>2, <3>2, <3>3 DEF ConnectedBy
  <2> QED
    BY <2>1, <2>2
<1>8. <<d, p>> \in LibraryOwners /\ g \in GivenTo(<<d, p>>)
  BY <1>2, <1>3, GivenIsGiven DEF LibraryOwners, d, p, g
<1>9. GivenKept /\ ListedKept /\ ShownKept
  BY <1>1, ViewsKept
<1> QED
  BY <1>1, <1>7, <1>8, <1>9, ConnectMaps

LEMMA DropAccountDisconnects ==
  ASSUME MusicInv, NEW h \in Handlers, DropAccount(h)
  PROVE  Library!Next
<1> DEFINE d == req[h].device
           p == req[h].provider
<1>1. /\ DeleteAccount(d, p) /\ At(h, "disconnect", "account")
      /\ UNCHANGED <<tracks, matches, songs, holder>>
  BY DEF DropAccount, providers
<1>2. d \in Devices /\ p \in Providers
  <2>1. req[h] \in Disconnect
    BY <1>1, KindOfRequest DEF MusicInv
  <2> QED
    BY <2>1 DEF Disconnect
<1> HIDE DEF d, p
<1>3. accounts' = [a \in DOMAIN accounts \ AccountsOf(d, p) |-> accounts[a]]
  BY <1>1 DEF DeleteAccount, Restrict
<1>4. ASSUME NEW q \in LibraryOwners
      PROVE  ConnectedBy(q)' = IF q = <<d, p>> THEN {} ELSE ConnectedBy(q)
  <2>1. CASE q = <<d, p>>
    <3>1. AccountsOf(q[1], q[2])' = {}
      BY <1>3, <2>1 DEF AccountsOf
    <3> QED
      BY <2>1, <3>1 DEF ConnectedBy
  <2>2. CASE q # <<d, p>>
    <3>1. ~(q[1] = d /\ q[2] = p)
      BY <2>2 DEF LibraryOwners
    <3>2. AccountsOf(q[1], q[2])' = AccountsOf(q[1], q[2])
      BY <1>3, <3>1 DEF AccountsOf
    <3>3. \A a \in AccountsOf(q[1], q[2]) : accounts'[a] = accounts[a]
      BY <1>3, <3>1 DEF AccountsOf
    <3> QED
      BY <2>2, <3>2, <3>3 DEF ConnectedBy
  <2> QED
    BY <2>1, <2>2
<1>5. <<d, p>> \in LibraryOwners
  BY <1>2 DEF LibraryOwners
<1>6. GivenKept /\ ListedKept /\ ShownKept
  BY <1>1, ViewsKept
<1> QED
  BY <1>1, <1>4, <1>5, <1>6, DisconnectMaps

\* Renewed tokens reconnect the account, or come too late for it.
LEMMA StoreTokensConnects ==
  ASSUME MusicInv, LibraryInv, NEW h \in Handlers, StoreTokens(h)
  PROVE  Library!Next \/ UNCHANGED libraryVars
<1> DEFINE a == AccountOf(req[h])
           old == CHOOSE b \in req[h].todo : b.id = a.id
<1>1. /\ UpdateTokens(a.id, old.token, a.token) /\ UNCHANGED nextAccount
      /\ UNCHANGED <<tracks, matches, songs, holder>>
  BY DEF StoreTokens, providers
<1>2. a \in Held /\ HeldOK(a)
  BY AccountInHand DEF StoreTokens
<1> HIDE DEF a, old
<1>3. /\ a.token \in Token /\ a.device \in Devices /\ a.provider \in Providers
      /\ a.token.grant \in GivenTo(<<a.device, a.provider>>)
  BY <1>2, GivenIsGiven DEF Held, HeldOK
<1>4. /\ DOMAIN accounts' = DOMAIN accounts
      /\ \A b \in DOMAIN accounts :
           accounts'[b] = IF b = a.id THEN [accounts[b] EXCEPT !.token = a.token]
                          ELSE accounts[b]
      /\ accounts' = [b \in DOMAIN accounts |->
                        IF b = a.id THEN [accounts[b] EXCEPT !.token = a.token]
                        ELSE accounts[b]]
  BY <1>1, <1>3, UpdateTokensKeeps DEF MusicInv, MusicTypeOK, UpdateTokens
<1>5. CASE a.id \notin DOMAIN accounts
  <2>1. \A b \in DOMAIN accounts : accounts'[b] = accounts[b]
    BY <1>4, <1>5
  <2>2. ASSUME NEW q \in LibraryOwners PROVE ConnectedBy(q)' = ConnectedBy(q)
    <3>1. AccountsOf(q[1], q[2])' = AccountsOf(q[1], q[2])
      BY <1>4, <2>1 DEF AccountsOf
    <3>2. \A b \in AccountsOf(q[1], q[2]) : accounts'[b] = accounts[b]
      BY <2>1 DEF AccountsOf
    <3> QED
      BY <3>1, <3>2 DEF ConnectedBy
  <2>3. AccountKept
    BY <2>2 DEF AccountKept
  <2> QED
    BY <1>1, <2>3, ViewsKept, LibraryStutters
<1>6. CASE a.id \in DOMAIN accounts
  <2> DEFINE o == <<a.device, a.provider>>
  <2>1. /\ accounts[a.id].device = a.device /\ accounts[a.id].provider = a.provider
        /\ accounts[a.id] \in Account
    BY <1>2, <1>6 DEF HeldOK, MusicInv, MusicTypeOK, MusicStoreTypeOK, IsTable
  <2>2. /\ accounts'[a.id].device = a.device /\ accounts'[a.id].provider = a.provider
        /\ accounts'[a.id].token = a.token
    BY <1>4, <1>6, <2>1 DEF Account
  <2>3. \A b \in DOMAIN accounts \ {a.id} : accounts'[b] = accounts[b]
    BY <1>4
  <2>4. ASSUME NEW q \in LibraryOwners
        PROVE  ConnectedBy(q)' = IF q = o THEN {a.token.grant} ELSE ConnectedBy(q)
    <3>1. AccountsOf(q[1], q[2])' = AccountsOf(q[1], q[2])
      BY <1>4, <2>1, <2>2, <2>3 DEF AccountsOf
    <3>2. CASE q = o
      <4>1. AccountsOf(q[1], q[2]) = {a.id}
        BY <1>6, <2>1, <3>2 DEF AccountsOf, LibraryInv, UniqueInv
      <4> QED
        BY <2>2, <3>1, <3>2, <4>1 DEF ConnectedBy
    <3>3. CASE q # o
      <4>1. ~(q[1] = a.device /\ q[2] = a.provider)
        BY <3>3 DEF LibraryOwners
      <4>2. \A b \in AccountsOf(q[1], q[2]) : accounts'[b] = accounts[b]
        BY <2>1, <2>3, <4>1 DEF AccountsOf
      <4> QED
        BY <3>1, <3>3, <4>2 DEF ConnectedBy
    <3> QED
      BY <3>2, <3>3
  <2>5. o \in LibraryOwners
    BY <1>3 DEF LibraryOwners
  <2>6. GivenKept /\ ListedKept /\ ShownKept
    BY <1>1, ViewsKept
  <2> HIDE DEF o
  <2>7. a.token.grant \in GivenTo(o)
    BY <1>3 DEF o
  <2> QED
    BY <1>1, <2>4, <2>5, <2>6, <2>7, ConnectMaps
<1> QED
  BY <1>5, <1>6

\* The tracks of the owner are no longer listed, and so none of them is shown,
\* whether their matches go or stay.
LEMMA DropTracksForgets ==
  ASSUME MusicInv, NEW h \in Handlers, DropTracks(h)
  PROVE  Library!Next
<1> DEFINE d == req[h].device
           p == req[h].provider
<1>1. PICK fk \in BOOLEAN : DeleteTracks(d, p, fk)
  BY DEF DropTracks, Enforces
<1>2. At(h, "disconnect", "tracks") /\ UNCHANGED <<accounts, songs, holder>>
  BY DEF DropTracks, providers
<1>3. d \in Devices /\ p \in Providers
  <2>1. req[h] \in Disconnect
    BY <1>2, KindOfRequest DEF MusicInv
  <2> QED
    BY <2>1 DEF Disconnect
<1> HIDE DEF d, p
<1>4. /\ DOMAIN tracks' = DOMAIN tracks \ TracksOf(d, p)
      /\ \A t \in DOMAIN tracks' : tracks'[t] = tracks[t]
  BY <1>1 DEF DeleteTracks, Restrict
<1>5. \A t \in DOMAIN tracks' : /\ t \in DOMAIN matches' <=> t \in DOMAIN matches
                                /\ t \in DOMAIN matches => matches'[t] = matches[t]
  BY <1>1, <1>4 DEF DeleteTracks, Restrict
<1>6. ASSUME NEW q \in LibraryOwners, q = <<d, p>>
      PROVE  ListedOf(q)' = {} /\ ShownOf(q)' = {}
  <2>1. TracksOf(q[1], q[2])' = {} /\ MatchedBy(q)' = {}
    BY <1>4, <1>6 DEF TracksOf, MatchedBy
  <2>2. ListedOf(q)' = {}
    BY <2>1 DEF ListedOf
  <2>3. \A x : x \notin ShownOf(q)'
    BY <2>1, ShownRows
  <2> QED
    BY <2>2, <2>3
<1>7. ASSUME NEW q \in LibraryOwners, q # <<d, p>>
      PROVE  ListedOf(q)' = ListedOf(q) /\ ShownOf(q)' = ShownOf(q)
  <2>1. ~(q[1] = d /\ q[2] = p)
    BY <1>7 DEF LibraryOwners
  <2>2. TracksOf(q[1], q[2])' = TracksOf(q[1], q[2])
    BY <1>4, <2>1 DEF TracksOf
  <2>3. \A t \in TracksOf(q[1], q[2]) : tracks'[t] = tracks[t]
    BY <1>4, <2>2 DEF TracksOf
  <2>4. ListedOf(q)' = ListedOf(q)
    BY <2>2, <2>3 DEF ListedOf
  <2>5. MatchedBy(q)' = MatchedBy(q)
    BY <1>4, <1>5, <2>1 DEF MatchedBy, TracksOf
  <2>6. \A t \in MatchedBy(q) : tracks'[t] = tracks[t] /\ matches'[t] = matches[t]
    BY <1>4, <1>5, <2>5 DEF MatchedBy
  <2>7. \A x : x \in ShownOf(q)' <=> x \in ShownOf(q)
    BY <1>2, <2>5, <2>6, ShownRows
  <2> QED
    BY <2>4, <2>7
<1>8. <<d, p>> \in LibraryOwners
  BY <1>3 DEF LibraryOwners
<1>9. \A q \in LibraryOwners :
        /\ ListedOf(q)' = IF q = <<d, p>> THEN {} ELSE ListedOf(q)
        /\ ShownOf(q)' = IF q = <<d, p>> THEN {} ELSE ShownOf(q)
  BY <1>6, <1>7
<1>10. GivenKept /\ AccountKept
  BY <1>2, ViewsKept
<1> QED
  BY <1>2, <1>8, <1>9, <1>10, ForgetMaps

\* The fetched tracks are listed for the owner of the account the sync holds,
\* connected still or not, and a new row has no match yet.
LEMMA SaveTracksLists ==
  ASSUME MusicInv, NEW h \in Handlers, SaveTracks(h)
  PROVE  Library!Next
<1> DEFINE a == AccountOf(req[h])
           exts == req[h].exts
           d == a.device
           p == a.provider
           o == <<d, p>>
<1>1. /\ UpsertTracks(d, p, a.token.grant, exts) /\ At(h, "sync", "upsert")
      /\ UNCHANGED <<accounts, matches, songs, holder>>
  BY DEF SaveTracks, providers
<1>2. a \in Held /\ HeldOK(a) /\ req[h] \in Sync
  BY <1>1, AccountInHand, SyncAt
<1> HIDE DEF a
<1>3. /\ d \in Devices /\ p \in Providers /\ a.token.grant \in Grants
      /\ exts \in SUBSET Exts /\ a.token.grant \in GivenTo(o)
  BY <1>2, GivenIsGiven DEF Held, Token, Sync, HeldOK
<1> HIDE DEF d, p, exts
<1>4. /\ DOMAIN tracks \subseteq DOMAIN tracks'
      /\ \A t \in DOMAIN tracks : /\ tracks'[t].device = tracks[t].device
                                  /\ tracks'[t].provider = tracks[t].provider
                                  /\ tracks'[t].ext = tracks[t].ext
  <2>1. TracksKept /\ DOMAIN tracks \subseteq DOMAIN tracks'
    BY <1>1, <1>3, UpsertTracksKeeps DEF MusicInv, MusicTypeOK
  <2>2. \A t \in DOMAIN tracks : KeyOf(t)' = KeyOf(t)
    BY <2>1 DEF TracksKept, MusicInv, IdsInv
  <2> QED
    BY <2>1, <2>2 DEF KeyOf
<1>5. /\ \A t \in DOMAIN tracks' \ DOMAIN tracks :
           /\ t \in Nat /\ t >= nextTrack
           /\ tracks'[t].device = d /\ tracks'[t].provider = p
           /\ tracks'[t].ext \in exts
      /\ \A e \in exts : \/ \E u \in TracksOf(d, p) : tracks[u].ext = e
                         \/ \E t \in DOMAIN tracks' \ DOMAIN tracks : tracks'[t].ext = e
  BY <1>1, <1>3, NewTracks DEF MusicInv, MusicTypeOK
<1>6. \A t \in DOMAIN tracks' \ DOMAIN tracks : t \notin DOMAIN matches
  <2>1. \A t \in DOMAIN matches : t < nextTrack /\ t \in Nat /\ nextTrack \in Nat
    BY DEF MusicInv, MusicTypeOK, MusicStoreTypeOK, IsTable, RowIds, IdsInv
  <2> QED
    BY <1>5, <2>1
<1>7. ASSUME NEW q \in LibraryOwners
      PROVE  ShownOf(q)' = ShownOf(q)
  <2>1. MatchedBy(q)' = MatchedBy(q)
    BY <1>1, <1>4, <1>6 DEF MatchedBy
  <2>2. \A t \in MatchedBy(q) : tracks'[t].ext = tracks[t].ext
    BY <1>4 DEF MatchedBy
  <2>3. \A x : x \in ShownOf(q)' <=> x \in ShownOf(q)
    BY <1>1, <2>1, <2>2, ShownRows
  <2> QED
    BY <2>3
<1>8. ASSUME NEW q \in LibraryOwners, q = o
      PROVE  ListedOf(q)' = ListedOf(q) \cup exts
  <2> DEFINE rows == TracksOf(q[1], q[2])
  <2>0. q[1] = d /\ q[2] = p /\ rows = TracksOf(d, p)
    BY <1>8
  <2>1. rows' = rows \cup (DOMAIN tracks' \ DOMAIN tracks)
    BY <1>4, <1>5, <2>0 DEF TracksOf
  <2>2. \A t \in rows : tracks'[t].ext = tracks[t].ext
    BY <1>4 DEF TracksOf
  <2>3. ListedOf(q)' = {tracks'[t].ext : t \in rows'} /\ ListedOf(q) = {tracks[t].ext : t \in rows}
    BY DEF ListedOf
  <2> HIDE DEF rows
  <2>4. \A e \in ListedOf(q)' : e \in ListedOf(q) \cup exts
    BY <1>5, <2>1, <2>2, <2>3
  <2>5. \A e \in ListedOf(q) \cup exts : e \in ListedOf(q)'
    BY <1>5, <2>0, <2>1, <2>2, <2>3
  <2> QED
    BY <2>4, <2>5
<1>9. ASSUME NEW q \in LibraryOwners, q # o
      PROVE  ListedOf(q)' = ListedOf(q)
  <2>1. ~(q[1] = d /\ q[2] = p)
    BY <1>9 DEF LibraryOwners
  <2>2. TracksOf(q[1], q[2])' = TracksOf(q[1], q[2])
    BY <1>4, <1>5, <2>1 DEF TracksOf
  <2>3. \A t \in TracksOf(q[1], q[2]) : tracks'[t].ext = tracks[t].ext
    BY <1>4 DEF TracksOf
  <2> QED
    BY <2>2, <2>3 DEF ListedOf
<1>10. o \in LibraryOwners /\ GivenTo(o) # {}
  BY <1>3 DEF LibraryOwners
<1>11. GivenKept /\ AccountKept /\ ShownKept
  BY <1>1, <1>7, ViewsKept DEF ShownKept
<1> HIDE DEF o
<1>12. \A q \in LibraryOwners :
         ListedOf(q)' = IF q = o THEN ListedOf(q) \cup exts ELSE ListedOf(q)
  BY <1>8, <1>9
<1> QED
  BY <1>1, <1>3, <1>10, <1>11, <1>12, ListMaps

\* A match that is saved in time replaces the one its track is shown with, and
\* one saved late is not shown.
LEMMA SaveMatchMatches ==
  ASSUME MusicInv, LibraryInv, NEW h \in Handlers, SaveMatch(h)
  PROVE  Library!Next \/ UNCHANGED libraryVars
<1> DEFINE best == req[h].best
<1>1. At(h, "sync", "save") /\ UNCHANGED <<accounts, tracks, songs, holder>>
  BY DEF SaveMatch, providers
<1>2. PICK j \in req[h].job, fk \in BOOLEAN : UpsertMatch(j.track, best, j.key, fk)
  BY DEF SaveMatch, Enforces
<1>3. j \in Job /\ JobOK(j)
  BY <1>1, SyncAt
<1>4. best \in {SongOf[j.key.ext], NoSong}
  BY <1>1 DEF LibraryInv, BestInv
<1> DEFINE t == j.track
           e == j.key.ext
           found == {best} \cap songs
<1>5. t \in DOMAIN tracks => KeyOf(t) = j.key
  BY <1>3 DEF JobOK
<1> HIDE DEF best, t, found
<1>6. GivenKept /\ AccountKept /\ ListedKept
  BY <1>1, ViewsKept
<1>7. CASE matches' = matches
  BY <1>1, <1>7, QuietStutters
<1>8. CASE matches' = Put(matches, t, [song |-> best, of |-> j.key])
  <2>1. /\ DOMAIN matches' = DOMAIN matches \cup {t}
        /\ matches'[t].song = best
        /\ \A u \in DOMAIN matches \ {t} : matches'[u] = matches[u]
    BY <1>8 DEF Put
  <2>2. CASE t \notin DOMAIN tracks
    <3>1. ASSUME NEW q \in LibraryOwners
          PROVE  ShownOf(q)' = ShownOf(q)
      <4>1. MatchedBy(q)' = MatchedBy(q)
        BY <1>1, <2>1, <2>2 DEF MatchedBy
      <4>2. \A u \in MatchedBy(q) : matches'[u] = matches[u]
        BY <2>1, <2>2 DEF MatchedBy
      <4>3. \A x : x \in ShownOf(q)' <=> x \in ShownOf(q)
        BY <1>1, <4>1, <4>2, ShownRows
      <4> QED
        BY <4>3
    <3> QED
      BY <1>1, <1>6, <3>1, LibraryStutters DEF ShownKept
  <2>3. CASE t \in DOMAIN tracks
    <3>1. tracks[t].ext = e /\ tracks[t] \in Track
      BY <1>5, <2>3 DEF KeyOf, MusicInv, MusicTypeOK, MusicStoreTypeOK, IsTable
    <3>2. PICK o \in LibraryOwners : /\ o[1] = tracks[t].device /\ o[2] = tracks[t].provider
                                     /\ o = <<tracks[t].device, tracks[t].provider>>
                                     /\ e \in Exts /\ e \in ListedOf(o)
      <4> DEFINE w == <<tracks[t].device, tracks[t].provider>>
      <4>1. /\ w \in LibraryOwners /\ e \in Exts
            /\ w[1] = tracks[t].device /\ w[2] = tracks[t].provider
        BY <3>1 DEF Track, LibraryOwners
      <4>2. t \in TracksOf(w[1], w[2])
        BY <2>3, <4>1 DEF TracksOf
      <4>3. e \in ListedOf(w)
        BY <3>1, <4>2 DEF ListedOf
      <4> QED
        BY <4>1, <4>3
    <3>3. found \in SUBSET Songs /\ found \subseteq {SongOf[e]} \cap songs
      BY <1>4 DEF found, MusicInv, MusicTypeOK, MusicStoreTypeOK
    <3>4. ASSUME NEW q \in LibraryOwners, q # o
          PROVE  ShownOf(q)' = ShownOf(q)
      <4>1. ~(q[1] = tracks[t].device /\ q[2] = tracks[t].provider)
        BY <3>2, <3>4 DEF LibraryOwners
      <4>2. MatchedBy(q)' = MatchedBy(q)
        BY <1>1, <2>1, <4>1 DEF MatchedBy
      <4>3. \A u \in MatchedBy(q) : matches'[u] = matches[u]
        BY <2>1, <4>1 DEF MatchedBy
      <4>4. \A x : x \in ShownOf(q)' <=> x \in ShownOf(q)
        BY <1>1, <4>2, <4>3, ShownRows
      <4> QED
        BY <4>4
    <3>5. ShownOf(o)' = {row \in ShownOf(o) : row[1] # e} \cup {<<e, found>>}
      <4>1. MatchedBy(o)' = MatchedBy(o) \cup {t}
        BY <1>1, <2>1, <2>3, <3>2 DEF MatchedBy
      <4>2. \A u \in MatchedBy(o) \ {t} : matches'[u] = matches[u] /\ tracks[u].ext # e
        <5>1. \A u \in MatchedBy(o) \ {t} : KeyOf(u) # KeyOf(t)
          BY <2>3 DEF MatchedBy, LibraryInv, UniqueTracksInv
        <5>2. \A u \in MatchedBy(o) \ {t} : u \in DOMAIN matches /\ tracks[u].ext # e
          BY <3>1, <3>2, <5>1 DEF MatchedBy, KeyOf
        <5> QED
          BY <2>1, <5>2
      <4>3. ASSUME NEW x \in ShownOf(o)'
            PROVE  x \in {row \in ShownOf(o) : row[1] # e} \cup {<<e, found>>}
        <5>1. PICK u \in MatchedBy(o)' : x = <<tracks'[u].ext, {matches'[u].song} \cap songs'>>
          BY <3>2, ShownRows
        <5>2. CASE u = t
          BY <1>1, <2>1, <3>1, <5>1, <5>2 DEF found
        <5>3. CASE u # t
          <6>1. u \in MatchedBy(o) /\ matches'[u] = matches[u] /\ tracks[u].ext # e
            BY <4>1, <4>2, <5>3
          <6>2. x = <<tracks[u].ext, {matches[u].song} \cap songs>>
            BY <1>1, <5>1, <6>1
          <6>3. x \in ShownOf(o)
            BY <3>2, <6>1, <6>2, ShownRows
          <6> QED
            BY <6>1, <6>2, <6>3
        <5> QED
          BY <5>2, <5>3
      <4>4. <<e, found>> \in ShownOf(o)'
        <5>1. <<e, found>> = <<tracks'[t].ext, {matches'[t].song} \cap songs'>>
          BY <1>1, <2>1, <3>1 DEF found
        <5> QED
          BY <3>2, <4>1, <5>1, ShownRows
      <4>5. ASSUME NEW x \in ShownOf(o), x[1] # e
            PROVE  x \in ShownOf(o)'
        <5>1. PICK u \in MatchedBy(o) : x = <<tracks[u].ext, {matches[u].song} \cap songs>>
          BY <3>2, ShownRows
        <5>2. u # t
          BY <3>1, <4>5, <5>1
        <5>3. matches'[u] = matches[u] /\ u \in MatchedBy(o)'
          BY <4>1, <4>2, <5>2
        <5>4. x = <<tracks'[u].ext, {matches'[u].song} \cap songs'>>
          BY <1>1, <5>1, <5>3
        <5> QED
          BY <3>2, <5>3, <5>4, ShownRows
      <4> QED
        BY <4>3, <4>4, <4>5
    <3>6. \A q \in LibraryOwners :
            ShownOf(q)' = IF q = o THEN {row \in ShownOf(q) : row[1] # e} \cup {<<e, found>>}
                                   ELSE ShownOf(q)
      BY <3>4, <3>5
    <3> HIDE DEF e
    <3> QED
      BY <1>1, <1>6, <3>2, <3>3, <3>6, MatchMaps
  <2> QED
    BY <2>2, <2>3
<1> QED
  BY <1>2, <1>7, <1>8 DEF UpsertMatch, t

\* A song more is shown with no track before it is matched with one.
LEMMA AddSongLearns ==
  ASSUME MusicInv, AddSong
  PROVE  Library!Next
<1>1. PICK s \in Songs : songs' = songs \cup {s}
  BY DEF AddSong
<1>2. UNCHANGED <<accounts, tracks, matches, holder>>
  BY DEF AddSong, providers
<1>3. \A t \in DOMAIN tracks \cap DOMAIN matches :
        {matches[t].song} \cap songs' = {matches[t].song} \cap songs
  <2>1. \A t \in DOMAIN matches : matches[t].song \in songs \cup {NoSong}
    BY DEF MusicInv, MatchesInv
  <2>2. songs \subseteq Songs /\ NoSong \notin Songs
    BY DEF MusicInv, MusicTypeOK, MusicStoreTypeOK
  <2> QED
    BY <1>1, <2>1, <2>2
<1>4. ASSUME NEW q \in LibraryOwners
      PROVE  ShownOf(q)' = ShownOf(q)
  <2>1. MatchedBy(q)' = MatchedBy(q)
    BY <1>2 DEF MatchedBy
  <2>2. \A t \in MatchedBy(q) :
          <<tracks'[t].ext, {matches'[t].song} \cap songs'>>
            = <<tracks[t].ext, {matches[t].song} \cap songs>>
    BY <1>2, <1>3 DEF MatchedBy
  <2>3. \A x : x \in ShownOf(q)' <=> x \in ShownOf(q)
    BY <2>1, <2>2, ShownRows
  <2> QED
    BY <2>3
<1>5. GivenKept /\ AccountKept /\ ListedKept
  BY <1>2, ViewsKept
<1> QED
  BY <1>1, <1>4, <1>5, LearnMaps DEF ShownKept

LEMMA LibraryInitMaps ==
  ASSUME Init
  PROVE  Library!Init
<1>1. DOMAIN holder = {} /\ DOMAIN accounts = {} /\ DOMAIN tracks = {} /\ songs = {}
  BY DEF Init, MusicStoreInit, EmptyTable
<1>2. ASSUME NEW o \in LibraryOwners
      PROVE  GivenTo(o) = {} /\ ConnectedBy(o) = {} /\ ListedOf(o) = {} /\ ShownOf(o) = {}
  <2>1. GivenTo(o) = {}
    BY <1>1 DEF GivenTo
  <2>2. ConnectedBy(o) = {}
    BY <1>1 DEF ConnectedBy, AccountsOf
  <2>3. ListedOf(o) = {}
    BY <1>1 DEF ListedOf, TracksOf
  <2>4. \A x : x \notin ShownOf(o)
    BY <1>1, ShownRows DEF MatchedBy
  <2> QED
    BY <2>1, <2>2, <2>3, <2>4
<1> QED
  BY <1>1, <1>2 DEF Library!Init, Library!Owners, LibraryOwners

\* Every step of a request is a step of the library or none.
LEMMA LibraryStepMaps ==
  ASSUME MusicInv, LibraryInv, [Next]_vars
  PROVE  Library!Next \/ UNCHANGED libraryVars
<1>1. ASSUME NEW h \in Handlers, AuthNext(h)
      PROVE  Library!Next \/ UNCHANGED libraryVars
  <2>1. CASE ExchangeCode(h) \/ SaveAccount(h) \/ DropTracks(h) \/ DropAccount(h)
    BY <2>1, ExchangeCodeAuthorises, SaveAccountConnects, DropTracksForgets,
       DropAccountDisconnects
  <2>2. CASE \/ StartConnect(h) \/ ReloadAccount(h) \/ Recover(h) \/ ConnectFails(h)
             \/ StartDisconnect(h) \/ DisconnectFails(h)
    <3>1. UNCHANGED <<accounts, tracks, matches, songs, holder>>
      BY <2>2 DEF StartConnect, ReloadAccount, Recover, ConnectFails, StartDisconnect,
         DisconnectFails, musicTables, providers
    <3> QED
      BY <3>1, QuietStutters
  <2> QED
    BY <1>1, <2>1, <2>2 DEF AuthNext
<1>2. ASSUME NEW h \in Handlers, SyncNext(h)
      PROVE  Library!Next \/ UNCHANGED libraryVars
  <2>1. CASE StoreTokens(h) \/ SaveTracks(h) \/ SaveMatch(h)
    BY <2>1, StoreTokensConnects, SaveTracksLists, SaveMatchMatches
  <2>2. CASE ~(StoreTokens(h) \/ SaveTracks(h) \/ SaveMatch(h))
    <3>1. UNCHANGED <<accounts, tracks, matches, songs, holder>>
      BY <1>2, <2>2 DEF SyncNext, StartSync, ListAccounts, TokenValid, RefreshToken,
         RefreshFails, RefreshLost, FetchUserTracks, ReloadTracks, SyncFails, FindBestMatch,
         MatchFails, musicTables, providers
    <3> QED
      BY <3>1, QuietStutters
  <2> QED
    BY <2>1, <2>2
<1>3. CASE AddSong
  BY <1>3, AddSongLearns
<1>4. CASE Crash \/ UNCHANGED vars
  <2>1. UNCHANGED <<accounts, tracks, matches, songs, holder>>
    BY <1>4 DEF Crash, vars, musicTables, providers
  <2> QED
    BY <2>1, QuietStutters
<1> QED
  BY <1>1, <1>2, <1>3, <1>4 DEF Next

\* The service implements MusicLibrary: for each device and service one account
\* at most, by an authorisation of its own; a list of tracks that only Disconnect
\* takes away; and matches that are shown with their own track only.
THEOREM ImplementsLibrary == Spec => KeepsLibrary
<1>1. Init => Library!Init /\ MusicInv /\ LibraryInv
  BY LibraryInitMaps, MusicInvInit, LibraryInvInit
<1>2. (MusicInv /\ LibraryInv) /\ [Next]_vars => (MusicInv /\ LibraryInv)'
  BY MusicInvStep, LibraryInvStep
<1>3. (MusicInv /\ LibraryInv) /\ [Next]_vars => [Library!Next]_libraryVars
  BY LibraryStepMaps
<1>4. (MusicInv /\ LibraryInv) /\ [Next]_vars =>
        [Library!Next]_<<[o \in LibraryOwners |-> GivenTo(o)],
                         [o \in LibraryOwners |-> ConnectedBy(o)],
                         [o \in LibraryOwners |-> ListedOf(o)],
                         [o \in LibraryOwners |-> ShownOf(o)], songs>>
  BY <1>3 DEF libraryVars
<1> QED
  BY <1>1, <1>2, <1>4, PTL DEF Spec, KeepsLibrary, Library!Spec
=============================================================================
