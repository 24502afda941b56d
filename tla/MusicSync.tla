----------------------------- MODULE MusicSync -----------------------------
(***************************************************************************)
(* Connecting and disconnecting music accounts, and syncing their tracks   *)
(* with the songs of TJ: the handlers of concurrent requests on the tables *)
(* of MusicStore, with one action per statement or call of a provider.     *)
(*                                                                         *)
(* The providers are external: they give a grant per authorisation, and    *)
(* may give a new refresh token with a refresh, after which only that one  *)
(* is good.  Which song a track matches is the constant SongOf, as far as  *)
(* the song is in the table.  Devices are never removed, so that looking   *)
(* one up comes to nothing.                                                *)
(***************************************************************************)
EXTENDS MusicStore

CONSTANTS
    Handlers,         \* requests served at a time
    NoReq,
    SongOf,           \* SongOf[e]: the song BestMatch finds for e, or NoSong
    Renewals,         \* whether a refresh may leave (0), or renew (1), the refresh token
    Faults            \* what may fail: a provider, its answer, the database, the process

ASSUME MusicSyncAssumption ==
    /\ SongOf \in [Exts -> Songs \cup {NoSong}]
    /\ Renewals \subseteq {0, 1}
    /\ Faults \subseteq {"provider", "lost", "store", "crash"}

VARIABLES
    holder,           \* grant -> the device and provider it was given for
    serial,           \* serial[g]: the refresh token of g that is good
    req               \* req[h]: the request handler h serves

providers == <<holder, serial>>
vars == <<musicTables, providers, req>>

\* A row of music_accounts as a request has read it.
Held == [id : RowIds, device : Devices, provider : Providers, token : Token]

\* A row of music_tracks as a request has read it, and its best match.
Job == [track : RowIds, key : Key]

Connect ==
    [kind : {"connect"}, pc : {"exchange", "save", "reload", "panic"},
     device : Devices, provider : Providers, callback : BOOLEAN, grant : 0 .. MaxGrants]

Disconnect ==
    [kind : {"disconnect"}, pc : {"tracks", "account"},
     device : Devices, provider : Providers]

Sync ==
    [kind : {"sync"},
     pc   : {"list", "token", "store", "fetch", "upsert", "reload", "match", "save"},
     device : Devices,
     todo : SUBSET Held,          \* accounts to be synced, the current one included
     held : SUBSET Held,          \* the current one, once chosen
     exts : SUBSET Exts,          \* its tracks
     jobs : SUBSET Job,           \* tracks still to be matched, the current one included
     job  : SUBSET Job,           \* the current one, once chosen
     best : Songs \cup {NoSong}]  \* the match of the current one

ASSUME NoReqAssumption == NoReq \notin Connect \cup Disconnect \cup Sync

Request == Connect \cup Disconnect \cup Sync \cup {NoReq}

MusicTypeOK ==
    /\ MusicStoreTypeOK
    /\ DOMAIN holder \subseteq Grants
    /\ \A g \in DOMAIN holder : holder[g] \in Devices \X Providers
    /\ serial \in [Grants -> 0 .. MaxRefreshes]
    /\ req \in [Handlers -> Request]

Init ==
    /\ MusicStoreInit
    /\ holder = EmptyTable
    /\ serial = [g \in Grants |-> 0]
    /\ req = [h \in Handlers |-> NoReq]

At(h, kind, pc) == req[h] # NoReq /\ req[h].kind = kind /\ req[h].pc = pc
Ends(h) == req' = [req EXCEPT ![h] = NoReq]

InFlight(kind) == {h \in Handlers : req[h] # NoReq /\ req[h].kind = kind}

\* The server's pooled connections enforce foreign keys or not.
Enforces == BOOLEAN

-----------------------------------------------------------------------------
(* MusicAuthService.Connect                                                *)

\* No more requests are made than the bounds on grants and ids have room for.
RoomToConnect ==
    Cardinality(DOMAIN holder) + Cardinality(InFlight("connect")) < MaxGrants

\* The syncs in flight that have tracks to insert, or may have.
Inserting ==
    {h \in InFlight("sync") : \/ req[h].pc \notin {"reload", "match", "save"}
                              \/ Cardinality(req[h].todo) > 1}

RoomToSync ==
    nextTrack + Cardinality(Exts \X Providers) * (Cardinality(Inserting) + 1)
      <= MaxRows + 1

StartConnect(h) ==
    /\ req[h] = NoReq
    /\ RoomToConnect
    /\ \E d \in Devices, p \in Providers, callback \in BOOLEAN :
         req' = [req EXCEPT ![h] =
                   [kind |-> "connect", pc |-> "exchange", device |-> d,
                    provider |-> p, callback |-> callback, grant |-> 0]]
    /\ UNCHANGED <<musicTables, providers>>

ExchangeCode(h) ==
    /\ At(h, "connect", "exchange")
    /\ LET g == Cardinality(DOMAIN holder) + 1
       IN  /\ g \in Grants
           /\ holder' = Put(holder, g, <<req[h].device, req[h].provider>>)
           /\ req' = [req EXCEPT ![h].pc = "save", ![h].grant = g]
    /\ UNCHANGED <<musicTables, serial>>

SaveAccount(h) ==
    /\ At(h, "connect", "save")
    /\ UpsertAccount(req[h].device, req[h].provider, [grant |-> req[h].grant, serial |-> 0])
    /\ req' = [req EXCEPT ![h].pc = "reload"]
    /\ UNCHANGED <<tracks, nextTrack, matches, songs, providers>>

\* Upsert reads the row back.  If it has gone, the callback of YouTube reads the
\* name of an account that is nil; connect answers with null data.
ReloadAccount(h) ==
    /\ At(h, "connect", "reload")
    /\ IF req[h].callback /\ AccountsOf(req[h].device, req[h].provider) = {}
       THEN req' = [req EXCEPT ![h].pc = "panic"]
       ELSE Ends(h)
    /\ UNCHANGED <<musicTables, providers>>

\* The panic is caught by a middleware, which answers 500.
Recover(h) ==
    /\ At(h, "connect", "panic")
    /\ Ends(h)
    /\ UNCHANGED <<musicTables, providers>>

ConnectFails(h) ==
    /\ \/ "provider" \in Faults /\ At(h, "connect", "exchange")
       \/ "store" \in Faults /\ (At(h, "connect", "save") \/ At(h, "connect", "reload"))
    /\ Ends(h)
    /\ UNCHANGED <<musicTables, providers>>

-----------------------------------------------------------------------------
(* MusicAuthService.Disconnect                                             *)

StartDisconnect(h) ==
    /\ req[h] = NoReq
    /\ \E d \in Devices, p \in Providers :
         req' = [req EXCEPT ![h] =
                   [kind |-> "disconnect", pc |-> "tracks", device |-> d, provider |-> p]]
    /\ UNCHANGED <<musicTables, providers>>

DropTracks(h) ==
    /\ At(h, "disconnect", "tracks")
    /\ \E fk \in Enforces : DeleteTracks(req[h].device, req[h].provider, fk)
    /\ req' = [req EXCEPT ![h].pc = "account"]
    /\ UNCHANGED <<accounts, nextAccount, nextTrack, songs, providers>>

DropAccount(h) ==
    /\ At(h, "disconnect", "account")
    /\ DeleteAccount(req[h].device, req[h].provider)
    /\ Ends(h)
    /\ UNCHANGED <<nextAccount, tracks, nextTrack, matches, songs, providers>>

DisconnectFails(h) ==
    /\ "store" \in Faults
    /\ At(h, "disconnect", "tracks") \/ At(h, "disconnect", "account")
    /\ Ends(h)
    /\ UNCHANGED <<musicTables, providers>>

-----------------------------------------------------------------------------
(* MusicSyncService.Sync: the accounts of the device, one after the other.  *)

StartSync(h) ==
    /\ req[h] = NoReq
    /\ RoomToSync
    /\ \E d \in Devices :
         req' = [req EXCEPT ![h] =
                   [kind |-> "sync", pc |-> "list", device |-> d, todo |-> {}, held |-> {},
                    exts |-> {}, jobs |-> {}, job |-> {}, best |-> NoSong]]
    /\ UNCHANGED <<musicTables, providers>>

AccountOf(rq) == CHOOSE a \in rq.held : TRUE

\* The current account is dealt with, well or not.
AccountDone(rq) ==
    LET left == {a \in rq.todo : a.id \notin {b.id : b \in rq.held}}
    IN  IF left = {} THEN NoReq
        ELSE [rq EXCEPT !.pc = "token", !.todo = left, !.held = {}, !.exts = {},
                        !.jobs = {}, !.job = {}, !.best = NoSong]

ListAccounts(h) ==
    /\ At(h, "sync", "list")
    /\ LET held == {[id |-> a, device |-> accounts[a].device,
                     provider |-> accounts[a].provider, token |-> accounts[a].token] :
                      a \in {b \in DOMAIN accounts : accounts[b].device = req[h].device}}
       IN  req' = [req EXCEPT ![h] = IF held = {} THEN NoReq
                                     ELSE [@ EXCEPT !.pc = "token", !.todo = held]]
    /\ UNCHANGED <<musicTables, providers>>

\* EnsureValidToken: the access token has more than a minute to go.
TokenValid(h) ==
    /\ At(h, "sync", "token")
    /\ \E a \in req[h].todo :
         req' = [req EXCEPT ![h].pc = "fetch", ![h].held = {a}]
    /\ UNCHANGED <<musicTables, providers>>

\* Only the last refresh token of a grant is good for another.
Refreshable(a) == a.token.serial = serial[a.token.grant]

\* The provider gives a new refresh token, or none, and the old one is kept.
RefreshToken(h) ==
    /\ At(h, "sync", "token")
    /\ \E a \in req[h].todo, renewal \in Renewals :
         LET n == a.token.serial + renewal
         IN  /\ Refreshable(a)
             /\ n <= MaxRefreshes
             /\ serial' = [serial EXCEPT ![a.token.grant] = n]
             /\ req' = [req EXCEPT ![h].pc = "store",
                                   ![h].held = {[a EXCEPT !.token.serial = n]}]
    /\ UNCHANGED <<musicTables, holder>>

RefreshFails(h) ==
    /\ At(h, "sync", "token")
    /\ \E a \in req[h].todo :
         /\ "provider" \in Faults \/ ~Refreshable(a)
         /\ req' = [req EXCEPT ![h] = AccountDone([@ EXCEPT !.held = {a}])]
    /\ UNCHANGED <<musicTables, providers>>

\* The provider has given a new refresh token, and the answer is lost.
RefreshLost(h) ==
    /\ "lost" \in Faults
    /\ At(h, "sync", "token")
    /\ \E a \in req[h].todo :
         /\ Refreshable(a)
         /\ 1 \in Renewals
         /\ a.token.serial < MaxRefreshes
         /\ serial' = [serial EXCEPT ![a.token.grant] = @ + 1]
         /\ req' = [req EXCEPT ![h] = AccountDone([@ EXCEPT !.held = {a}])]
    /\ UNCHANGED <<musicTables, holder>>

StoreTokens(h) ==
    /\ At(h, "sync", "store")
    /\ LET a   == AccountOf(req[h])
           old == CHOOSE b \in req[h].todo : b.id = a.id
       IN  UpdateTokens(a.id, old.token, a.token)
    /\ req' = [req EXCEPT ![h].pc = "fetch"]
    /\ UNCHANGED <<nextAccount, tracks, nextTrack, matches, songs, providers>>

FetchUserTracks(h) ==
    /\ At(h, "sync", "fetch")
    /\ \E exts \in SUBSET Exts :
         req' = [req EXCEPT ![h].pc = "upsert", ![h].exts = exts]
    /\ UNCHANGED <<musicTables, providers>>

SaveTracks(h) ==
    /\ At(h, "sync", "upsert")
    /\ LET a == AccountOf(req[h])
       IN  UpsertTracks(a.device, a.provider, a.token.grant, req[h].exts)
    /\ req' = [req EXCEPT ![h].pc = "reload"]
    /\ UNCHANGED <<accounts, nextAccount, matches, songs, providers>>

\* All the tracks of the account are matched again, not only the fetched ones.
ReloadTracks(h) ==
    /\ At(h, "sync", "reload")
    /\ LET a    == AccountOf(req[h])
           jobs == {[track |-> t, key |-> KeyOf(t)] : t \in TracksOf(a.device, a.provider)}
       IN  req' = [req EXCEPT ![h] = IF jobs = {} THEN AccountDone(@)
                                     ELSE [@ EXCEPT !.pc = "match", !.jobs = jobs]]
    /\ UNCHANGED <<musicTables, providers>>

SyncFails(h) ==
    /\ \/ /\ "provider" \in Faults
          /\ At(h, "sync", "fetch")
       \/ /\ "store" \in Faults
          /\ \E pc \in {"list", "store", "upsert", "reload"} : At(h, "sync", pc)
    /\ req' = [req EXCEPT ![h] = AccountDone(@)]
    /\ UNCHANGED <<musicTables, providers>>

-----------------------------------------------------------------------------
(* matchTrack, for each track of the account.                              *)

JobDone(rq) ==
    LET left == rq.jobs \ rq.job
    IN  IF left = {} THEN AccountDone(rq)
        ELSE [rq EXCEPT !.pc = "match", !.jobs = left, !.job = {}, !.best = NoSong]

\* FindCandidateSongs and BestMatch; the candidates are those of this moment.
FindBestMatch(h) ==
    /\ At(h, "sync", "match")
    /\ \E j \in req[h].jobs :
         req' = [req EXCEPT ![h].pc = "save", ![h].job = {j},
                            ![h].best = IF SongOf[j.key.ext] \in songs
                                          THEN SongOf[j.key.ext] ELSE NoSong]
    /\ UNCHANGED <<musicTables, providers>>

SaveMatch(h) ==
    /\ At(h, "sync", "save")
    /\ \E j \in req[h].job, fk \in Enforces : UpsertMatch(j.track, req[h].best, j.key, fk)
    /\ req' = [req EXCEPT ![h] = JobDone(@)]
    /\ UNCHANGED <<accounts, nextAccount, tracks, nextTrack, songs, providers>>

\* The track is passed over.
MatchFails(h) ==
    /\ "store" \in Faults
    /\ \/ At(h, "sync", "save") /\ req' = [req EXCEPT ![h] = JobDone(@)]
       \/ /\ At(h, "sync", "match")
          /\ \E j \in req[h].jobs : req' = [req EXCEPT ![h] = JobDone([@ EXCEPT !.job = {j}])]
    /\ UNCHANGED <<musicTables, providers>>

-----------------------------------------------------------------------------
\* The matching pipeline stores a song.
AddSong ==
    /\ \E s \in Songs \ songs : songs' = songs \cup {s}
    /\ UNCHANGED <<accounts, nextAccount, tracks, nextTrack, matches, providers, req>>

\* The server stops in the middle of its requests.
Crash ==
    /\ "crash" \in Faults
    /\ \E h \in Handlers : req[h] # NoReq
    /\ req' = [h \in Handlers |-> NoReq]
    /\ UNCHANGED <<musicTables, providers>>

AuthNext(h) ==
    \/ StartConnect(h)
    \/ ExchangeCode(h)
    \/ SaveAccount(h)
    \/ ReloadAccount(h)
    \/ Recover(h)
    \/ ConnectFails(h)
    \/ StartDisconnect(h)
    \/ DropTracks(h)
    \/ DropAccount(h)
    \/ DisconnectFails(h)

SyncNext(h) ==
    \/ StartSync(h)
    \/ ListAccounts(h)
    \/ TokenValid(h)
    \/ RefreshToken(h)
    \/ RefreshFails(h)
    \/ RefreshLost(h)
    \/ StoreTokens(h)
    \/ FetchUserTracks(h)
    \/ SaveTracks(h)
    \/ ReloadTracks(h)
    \/ SyncFails(h)
    \/ FindBestMatch(h)
    \/ SaveMatch(h)
    \/ MatchFails(h)

Next ==
    \/ \E h \in Handlers : AuthNext(h) \/ SyncNext(h)
    \/ AddSong
    \/ Crash

Spec == Init /\ [][Next]_vars

-----------------------------------------------------------------------------
(* Properties.                                                             *)

\* The tokens of an account, and its tracks, come from an authorisation given
\* for that device and that provider: a sync that still holds an account since
\* disconnected writes nothing into the account of another device.
TokensStayWithDevice ==
    /\ \A a \in DOMAIN accounts :
         LET g == accounts[a].token.grant
         IN  g \in DOMAIN holder /\ holder[g] = <<accounts[a].device, accounts[a].provider>>
    /\ \A t \in DOMAIN tracks :
         LET g == tracks[t].grant
         IN  g \in DOMAIN holder /\ holder[g] = <<tracks[t].device, tracks[t].provider>>

\* The match shown with a track was computed from that track, and its song is
\* shown, although matches outlive their tracks where foreign keys are not
\* enforced, and a sync may save the match of a track that was removed meanwhile,
\* its id free or not.
MatchOfItsTrack ==
    \A d \in Devices : \A row \in FindMatchedByDeviceID(d) :
      /\ row.match.of = row.track
      /\ row.match.song # NoSong => row.song # {}

\* The refresh token of an account is good, or the request that holds the good
\* one is about to store it, whatever syncs, disconnects and new connections
\* overlap: no account is left without a way to refresh.  It takes a database
\* that works, answers that arrive, and a provider that either renews the token
\* with every refresh or never does.
NotLockedOut ==
    \A a \in DOMAIN accounts :
      \/ Refreshable(accounts[a])
      \/ \E h \in Handlers :
           /\ At(h, "sync", "store")
           /\ \E b \in req[h].held : /\ b.id = a
                                     /\ b.token.grant = accounts[a].token.grant
                                     /\ Refreshable(b)

-----------------------------------------------------------------------------
(* What the statements and requests come to.                               *)

LibraryOwners == Devices \X Providers
GivenTo(o) == {g \in DOMAIN holder : holder[g] = o}
ConnectedBy(o) == {accounts[a].token.grant : a \in AccountsOf(o[1], o[2])}
ListedOf(o) == {tracks[t].ext : t \in TracksOf(o[1], o[2])}

\* What is shown to a device of the tracks at one service.
ShownOf(o) ==
    {<<row.track.ext, row.song>> :
       row \in {r \in FindMatchedByDeviceID(o[1]) : r.track.provider = o[2]}}

Library == INSTANCE MusicLibrary WITH
    given   <- [o \in LibraryOwners |-> GivenTo(o)],
    account <- [o \in LibraryOwners |-> ConnectedBy(o)],
    listed  <- [o \in LibraryOwners |-> ListedOf(o)],
    shown   <- [o \in LibraryOwners |-> ShownOf(o)],
    known   <- songs

(* The service implements MusicLibrary: although ids name the rows, and    *)
(* requests use what they read before others changed the tables, each      *)
(* statement does, as a whole and to one device and service only, what an  *)
(* action of the library does, or nothing: a match saved late, for a row   *)
(* that has gone, is never shown, and no row of another device is touched. *)
KeepsLibrary == Library!Spec

-----------------------------------------------------------------------------
(* The inductive invariants behind these properties.                       *)

\* Ids are given out in ascending order, to rows of tracks once and for all: a
\* match may outlive its track, but never meets another one.
IdsInv ==
    /\ \A a \in DOMAIN accounts : a < nextAccount
    /\ \A t \in DOMAIN tracks \cup DOMAIN matches : t < nextTrack

\* Grants are numbered without gaps.
GrantsInv == \E n \in 0 .. MaxGrants : DOMAIN holder = 1 .. n

GivenFor(g, d, p) == g \in DOMAIN holder /\ holder[g] = <<d, p>>

MatchesInv ==
    \A t \in DOMAIN matches :
      /\ matches[t].song \in songs \cup {NoSong}
      /\ t \in DOMAIN tracks => matches[t].of = KeyOf(t)

\* An account in the hands of a sync: its id stays with its device and provider.
HeldOK(a) ==
    /\ a.id < nextAccount
    /\ a.id \in DOMAIN accounts =>
         accounts[a.id].device = a.device /\ accounts[a.id].provider = a.provider
    /\ GivenFor(a.token.grant, a.device, a.provider)

JobOK(j) == j.track < nextTrack /\ (j.track \in DOMAIN tracks => KeyOf(j.track) = j.key)

RequestOK(rq) ==
    rq # NoReq =>
      /\ rq.kind = "connect" /\ rq.pc = "save" => GivenFor(rq.grant, rq.device, rq.provider)
      /\ rq.kind = "sync" =>
           /\ \A a \in rq.todo \cup rq.held : HeldOK(a)
           /\ rq.pc \in {"store", "fetch", "upsert", "reload", "match", "save"} => rq.held # {}
           /\ \A j \in rq.jobs \cup rq.job : JobOK(j)
           /\ rq.best \in songs \cup {NoSong}

\* The invariant TLAPS proves for TokensStayWithDevice and MatchOfItsTrack.
MusicInv ==
    /\ MusicTypeOK
    /\ IdsInv
    /\ GrantsInv
    /\ TokensStayWithDevice
    /\ MatchesInv
    /\ \A h \in Handlers : RequestOK(req[h])

\* A refresh token as account id has it, or as a sync has read it there.
IsCopy(id, token) ==
    \/ id \in DOMAIN accounts /\ accounts[id].token = token
    \/ \E h \in InFlight("sync") : \E b \in req[h].todo : b.id = id /\ b.token = token

\* One a sync has just received for account id and not stored yet.
IsRenewed(h, id, token) ==
    At(h, "sync", "store") /\ \E b \in req[h].held : b.id = id /\ b.token = token

\* Nobody has used a grant before its account is saved.
UnsavedInv ==
    /\ \A g \in Grants \ DOMAIN holder : serial[g] = 0
    /\ \A h \in Handlers : At(h, "connect", "save") =>
         /\ serial[req[h].grant] = 0
         /\ \A id \in RowIds, token \in Token : token.grant = req[h].grant =>
              ~IsCopy(id, token) /\ \A q \in Handlers : ~IsRenewed(q, id, token)
         /\ \A q \in Handlers \ {h} :
              At(q, "connect", "save") => req[q].grant # req[h].grant

\* The tokens of a grant are all of one account, none is newer than the good
\* one, and a sync about to store a token is alone in having it.
CopiesInv ==
    /\ \A i, j \in RowIds, t, u \in Token : t.grant = u.grant =>
         /\ IsCopy(i, t) /\ IsCopy(j, u) => i = j
         /\ \A h \in Handlers : IsRenewed(h, i, t) =>
              /\ IsCopy(j, u) => i = j /\ u.serial < t.serial
              /\ \A q \in Handlers : IsRenewed(q, j, u) => q = h
    /\ \A i \in RowIds, t \in Token : IsCopy(i, t) => t.serial <= serial[t.grant]
    /\ \A i \in RowIds, t \in Token, h \in Handlers :
         IsRenewed(h, i, t) => t.serial = serial[t.grant]
    /\ \A h \in Handlers : At(h, "sync", "store") => \E b \in Held : req[h].held = {b}

\* UNIQUE (device_id, provider) of music_accounts.
UniqueInv ==
    \A a, b \in DOMAIN accounts :
      accounts[a].device = accounts[b].device /\ accounts[a].provider = accounts[b].provider
        => a = b

\* The invariant TLAPS proves for NotLockedOut where each refresh renews the
\* token; it is inductive together with MusicInv.
RefreshInv == UniqueInv /\ UnsavedInv /\ CopiesInv /\ NotLockedOut

\* UNIQUE (device_id, provider, external_id) of music_tracks.
UniqueTracksInv == \A t, u \in DOMAIN tracks : KeyOf(t) = KeyOf(u) => t = u

\* The match a sync is about to save is the one of the track in hand.
BestInv ==
    \A h \in Handlers : At(h, "sync", "save") =>
      \A j \in req[h].job : req[h].best \in {SongOf[j.key.ext], NoSong}

\* The invariant TLAPS proves for KeepsLibrary; it is inductive together with
\* MusicInv.
LibraryInv == UniqueInv /\ UniqueTracksInv /\ BestInv

\* The one it proves where none does.
NeverRenewed ==
    /\ \A g \in Grants : serial[g] = 0
    /\ \A i \in RowIds, t \in Token :
         IsCopy(i, t) \/ (\E h \in Handlers : IsRenewed(h, i, t)) => t.serial = 0

-----------------------------------------------------------------------------
(* What the repository says of itself, and the code does not do.           *)

\* music_auth_service.go:73: "Disconnect removes the account and its associated
\* tracks."
DisconnectedHasNoTracks ==
    (\A h \in Handlers : req[h] = NoReq) =>
      \A d \in Devices, p \in Providers : AccountsOf(d, p) = {} => TracksOf(d, p) = {}
=============================================================================
