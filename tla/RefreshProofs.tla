--------------------------- MODULE RefreshProofs ---------------------------
(***************************************************************************)
(* No account is locked out: NotLockedOut of MusicSync, for any number of  *)
(* devices, providers and concurrent requests.                             *)
(*                                                                         *)
(* With a provider that renews the refresh token each time it is used,     *)
(* this takes a server that does not crash, a database that works and      *)
(* answers that arrive; with one that never renews it, nothing.  Where     *)
(* some refreshes renew the token and some do not it is false.             *)
(***************************************************************************)
EXTENDS MusicProofs

USE MusicStoreAssumption, MusicSyncAssumption

-----------------------------------------------------------------------------
(* Steps that hand on no token.                                            *)

\* No account has a token after the step that it had not before, no sync one
\* that nobody had, and no request has come to save or store one.
HandsOnNothing ==
    /\ UNCHANGED serial
    /\ DOMAIN holder \subseteq DOMAIN holder'
    /\ \A a \in DOMAIN accounts' : a \in DOMAIN accounts /\ accounts'[a] = accounts[a]
    /\ \A i \in RowIds, t \in Token : IsCopy(i, t)' => IsCopy(i, t)
    /\ \A h \in Handlers :
         /\ At(h, "sync", "store")' =>
              At(h, "sync", "store") /\ req'[h].held = req[h].held
         /\ At(h, "connect", "save")' =>
              At(h, "connect", "save") /\ req'[h].grant = req[h].grant

\* The same of a step of request h, which may give up storing a token.
Quiet(h) ==
    /\ HandsOnNothing
    /\ \A q \in Handlers \ {h} : At(q, "sync", "store") => At(q, "sync", "store")'

\* Such a step keeps the invariant, if no request gives up storing a token.
LEMMA NothingNew ==
  ASSUME MusicInv, RefreshInv, HandsOnNothing,
         \A h \in Handlers : At(h, "sync", "store") => At(h, "sync", "store")'
  PROVE  RefreshInv'
<1> USE DEF HandsOnNothing
<1>1. \A i, t : \A h \in Handlers : IsRenewed(h, i, t)' <=> IsRenewed(h, i, t)
  BY DEF IsRenewed
<1>2. UniqueInv'
  BY DEF RefreshInv, UniqueInv
<1>3. UnsavedInv'
  <2>1. \A g \in Grants \ DOMAIN holder' : serial'[g] = 0
    BY DEF RefreshInv, UnsavedInv
  <2>2. ASSUME NEW h \in Handlers, At(h, "connect", "save")'
        PROVE  /\ serial'[req'[h].grant] = 0
               /\ \A id \in RowIds, token \in Token : token.grant = req'[h].grant =>
                    ~IsCopy(id, token)' /\ \A q \in Handlers : ~IsRenewed(q, id, token)'
               /\ \A q \in Handlers \ {h} :
                    At(q, "connect", "save")' => req'[q].grant # req'[h].grant
    BY <1>1, <2>2 DEF RefreshInv, UnsavedInv
  <2> QED
    BY <2>1, <2>2 DEF UnsavedInv
<1>4. CopiesInv'
  <2>1. \A i, j \in RowIds, t, u \in Token : t.grant = u.grant =>
          /\ IsCopy(i, t)' /\ IsCopy(j, u)' => i = j
          /\ \A h \in Handlers : IsRenewed(h, i, t)' =>
               /\ IsCopy(j, u)' => i = j /\ u.serial < t.serial
               /\ \A q \in Handlers : IsRenewed(q, j, u)' => q = h
    BY <1>1 DEF RefreshInv, CopiesInv
  <2>2. /\ \A i \in RowIds, t \in Token : IsCopy(i, t)' => t.serial <= serial'[t.grant]
        /\ \A i \in RowIds, t \in Token, h \in Handlers :
             IsRenewed(h, i, t)' => t.serial = serial'[t.grant]
    BY <1>1 DEF RefreshInv, CopiesInv
  <2>3. \A h \in Handlers : At(h, "sync", "store")' => \E b \in Held : req'[h].held = {b}
    BY DEF RefreshInv, CopiesInv
  <2> QED
    BY <2>1, <2>2, <2>3 DEF CopiesInv
<1>5. NotLockedOut'
  <2>1. ASSUME NEW a \in DOMAIN accounts'
        PROVE  \/ Refreshable(accounts[a])'
               \/ \E h \in Handlers :
                    /\ At(h, "sync", "store")'
                    /\ \E b \in req'[h].held : /\ b.id = a
                                               /\ b.token.grant = accounts'[a].token.grant
                                               /\ Refreshable(b)'
    <3>1. a \in DOMAIN accounts /\ accounts'[a] = accounts[a]
      OBVIOUS
    <3>2. CASE Refreshable(accounts[a])
      BY <3>1, <3>2 DEF Refreshable
    <3>3. CASE \E h \in Handlers :
                 /\ At(h, "sync", "store")
                 /\ \E b \in req[h].held : /\ b.id = a
                                           /\ b.token.grant = accounts[a].token.grant
                                           /\ Refreshable(b)
      BY <3>1, <3>3 DEF Refreshable
    <3> QED
      BY <3>1, <3>2, <3>3 DEF RefreshInv, NotLockedOut
  <2> QED
    BY <2>1 DEF NotLockedOut
<1> QED
  BY <1>2, <1>3, <1>4, <1>5 DEF RefreshInv

\* A request that has come neither to save nor to store a token hands on
\* nothing, if what it has of tokens are copies.
LEMMA QuietRefreshStep ==
  ASSUME MusicTypeOK, UNCHANGED <<serial, holder>>,
         \A a \in DOMAIN accounts' : a \in DOMAIN accounts /\ accounts'[a] = accounts[a],
         NEW h \in Handlers, NEW r, req' = [req EXCEPT ![h] = r],
         r # NoReq /\ r.kind = "connect" => r.pc # "save",
         r # NoReq /\ r.kind = "sync" =>
           /\ r.pc # "store"
           /\ \A b \in r.todo : IsCopy(b.id, b.token)
  PROVE  Quiet(h)
<1>1. \A q \in Handlers : req'[q] = IF q = h THEN r ELSE req[q]
  BY DEF MusicTypeOK
<1>2. ASSUME NEW q \in Handlers
      PROVE  /\ At(q, "sync", "store")' =>
                  At(q, "sync", "store") /\ req'[q].held = req[q].held
             /\ q # h /\ At(q, "sync", "store") => At(q, "sync", "store")'
             /\ At(q, "connect", "save")' =>
                  At(q, "connect", "save") /\ req'[q].grant = req[q].grant
  BY <1>1 DEF At
<1>3. ASSUME NEW i \in RowIds, NEW t \in Token, IsCopy(i, t)'
      PROVE  IsCopy(i, t)
  <2>1. CASE i \in DOMAIN accounts' /\ accounts'[i].token = t
    BY <2>1 DEF IsCopy
  <2>2. ASSUME NEW q \in Handlers, req'[q] # NoReq, req'[q].kind = "sync",
               NEW b \in req'[q].todo, b.id = i, b.token = t
        PROVE  IsCopy(i, t)
    <3>1. CASE q = h
      BY <1>1, <2>2, <3>1
    <3>2. CASE q # h
      BY <1>1, <2>2, <3>2 DEF IsCopy, InFlight
    <3> QED
      BY <3>1, <3>2
  <2> QED
    BY <1>3, <2>1, <2>2 DEF IsCopy, InFlight
<1> QED
  BY <1>2, <1>3 DEF HandsOnNothing, Quiet

\* The same for a sync that goes on with some of the accounts it had.
LEMMA SyncGoesOn ==
  ASSUME MusicTypeOK, UNCHANGED <<serial, holder, accounts>>,
         NEW h \in Handlers, NEW pc, At(h, "sync", pc), NEW r,
         req' = [req EXCEPT ![h] = r],
         r = NoReq \/ (r.kind = "sync" /\ r.pc # "store" /\ r.todo \subseteq req[h].todo)
  PROVE  Quiet(h)
<1>1. req[h] # NoReq /\ req[h].kind = "sync"
  BY DEF At
<1>2. \A b \in req[h].todo : IsCopy(b.id, b.token)
  BY <1>1 DEF IsCopy, InFlight
<1> QED
  BY <1>1, <1>2, QuietRefreshStep

\* The record of a sync after its account or its track is done with.
LEMMA DoneIsQuiet ==
  ASSUME NEW rq \in Sync
  PROVE  /\ \/ AccountDone(rq) = NoReq
            \/ /\ AccountDone(rq).kind = "sync" /\ AccountDone(rq).pc = "token"
               /\ AccountDone(rq).todo \subseteq rq.todo
         /\ \/ JobDone(rq) = NoReq
            \/ /\ JobDone(rq).kind = "sync" /\ JobDone(rq).pc # "store"
               /\ JobDone(rq).todo \subseteq rq.todo
<1>1. \/ AccountDone(rq) = NoReq
      \/ /\ AccountDone(rq).kind = "sync" /\ AccountDone(rq).pc = "token"
         /\ AccountDone(rq).todo \subseteq rq.todo
  BY DEF AccountDone, Sync
<1>2. \/ JobDone(rq) = AccountDone(rq)
      \/ JobDone(rq).kind = "sync" /\ JobDone(rq).pc = "match" /\ JobDone(rq).todo = rq.todo
  BY DEF JobDone, Sync
<1> QED
  BY <1>1, <1>2

-----------------------------------------------------------------------------
(* The steps that hand on a token.                                         *)

\* Whoever has a token has it under a grant that was given.
LEMMA TokensAreGiven ==
  ASSUME MusicInv, NEW i \in RowIds, NEW t \in Token,
         IsCopy(i, t) \/ \E h \in Handlers : IsRenewed(h, i, t)
  PROVE  t.grant \in DOMAIN holder
<1>1. ASSUME i \in DOMAIN accounts, accounts[i].token = t
      PROVE  t.grant \in DOMAIN holder
  BY <1>1 DEF MusicInv, TokensStayWithDevice
<1>2. ASSUME NEW h \in Handlers, req[h] # NoReq, req[h].kind = "sync",
             NEW b \in req[h].todo \cup req[h].held, b.token = t
      PROVE  t.grant \in DOMAIN holder
  <2>1. HeldOK(b)
    BY <1>2 DEF MusicInv, RequestOK
  <2> QED
    BY <1>2, <2>1 DEF HeldOK, GivenFor
<1> QED
  BY <1>1, <1>2 DEF IsCopy, IsRenewed, At, InFlight

\* A new grant is nobody's yet.
LEMMA ExchangeCodeRefresh ==
  ASSUME MusicInv, RefreshInv, NEW h \in Handlers, ExchangeCode(h)
  PROVE  RefreshInv'
<1> DEFINE g == Cardinality(DOMAIN holder) + 1
<1>1. /\ At(h, "connect", "exchange") /\ g \in Grants
      /\ holder' = Put(holder, g, <<req[h].device, req[h].provider>>)
      /\ req' = [req EXCEPT ![h].pc = "save", ![h].grant = g]
      /\ UNCHANGED <<accounts, serial>>
  BY DEF ExchangeCode, musicTables
<1>2. req[h] \in Connect /\ req[h] # NoReq
  BY <1>1, KindOfRequest DEF MusicInv, At
<1>3. g \notin DOMAIN holder
  BY NextGrantIsFresh DEF MusicInv
<1> HIDE DEF g
<1>4. DOMAIN holder' = DOMAIN holder \cup {g}
  BY <1>1 DEF Put
<1>5. /\ \A q \in Handlers : q # h => req'[q] = req[q]
      /\ req'[h] = [req[h] EXCEPT !.pc = "save", !.grant = g]
  BY <1>1 DEF MusicInv, MusicTypeOK
<1>6. req'[h].kind = "connect" /\ req'[h].pc = "save" /\ req'[h].grant = g
      /\ req[h].kind = "connect"
  BY <1>2, <1>5 DEF Connect
<1>7. \A i, t : IsCopy(i, t)' <=> IsCopy(i, t)
  BY <1>1, <1>5, <1>6 DEF IsCopy, InFlight
<1>8. \A i, t : \A q \in Handlers : IsRenewed(q, i, t)' <=> IsRenewed(q, i, t)
  BY <1>5, <1>6 DEF IsRenewed, At
<1>9. UniqueInv'
  BY <1>1 DEF RefreshInv, UniqueInv
<1>10. UnsavedInv'
  <2>1. \A f \in Grants \ DOMAIN holder' : serial'[f] = 0
    BY <1>1, <1>4 DEF RefreshInv, UnsavedInv
  <2>2. serial'[g] = 0
    BY <1>1, <1>3 DEF RefreshInv, UnsavedInv
  <2>3. \A id \in RowIds, token \in Token : token.grant = g =>
          ~IsCopy(id, token) /\ \A q \in Handlers : ~IsRenewed(q, id, token)
    BY <1>3, TokensAreGiven
  <2>4. \A q \in Handlers : At(q, "connect", "save") => req[q].grant # g
    BY <1>3 DEF MusicInv, RequestOK, GivenFor, At
  <2>5. \A q \in Handlers \ {h} :
          /\ At(q, "connect", "save")' <=> At(q, "connect", "save")
          /\ req'[q].grant = req[q].grant
    BY <1>5 DEF At
  <2>6. ASSUME NEW q \in Handlers, At(q, "connect", "save")'
        PROVE  /\ serial'[req'[q].grant] = 0
               /\ \A id \in RowIds, token \in Token : token.grant = req'[q].grant =>
                    ~IsCopy(id, token)' /\ \A k \in Handlers : ~IsRenewed(k, id, token)'
               /\ \A k \in Handlers \ {q} :
                    At(k, "connect", "save")' => req'[k].grant # req'[q].grant
    <3>1. CASE q = h
      BY <1>6, <1>7, <1>8, <2>2, <2>3, <2>4, <2>5, <3>1
    <3>2. CASE q # h
      <4>1. At(q, "connect", "save") /\ req'[q].grant = req[q].grant
        BY <2>5, <2>6, <3>2
      <4>2. serial'[req'[q].grant] = 0
        BY <1>1, <4>1 DEF RefreshInv, UnsavedInv
      <4>3. \A id \in RowIds, token \in Token : token.grant = req'[q].grant =>
              ~IsCopy(id, token)' /\ \A k \in Handlers : ~IsRenewed(k, id, token)'
        BY <1>7, <1>8, <4>1 DEF RefreshInv, UnsavedInv
      <4>4. \A k \in Handlers \ {q, h} :
              At(k, "connect", "save")' => req'[k].grant # req'[q].grant
        BY <2>5, <4>1 DEF RefreshInv, UnsavedInv
      <4>5. req'[h].grant # req'[q].grant
        BY <1>6, <2>4, <4>1
      <4> QED
        BY <4>2, <4>3, <4>4, <4>5
    <3> QED
      BY <3>1, <3>2
  <2> QED
    BY <2>1, <2>6 DEF UnsavedInv
<1>11. CopiesInv'
  <2>1. \A i, j \in RowIds, t, u \in Token : t.grant = u.grant =>
          /\ IsCopy(i, t)' /\ IsCopy(j, u)' => i = j
          /\ \A q \in Handlers : IsRenewed(q, i, t)' =>
               /\ IsCopy(j, u)' => i = j /\ u.serial < t.serial
               /\ \A k \in Handlers : IsRenewed(k, j, u)' => k = q
    BY <1>7, <1>8 DEF RefreshInv, CopiesInv
  <2>2. /\ \A i \in RowIds, t \in Token : IsCopy(i, t)' => t.serial <= serial'[t.grant]
        /\ \A i \in RowIds, t \in Token, q \in Handlers :
             IsRenewed(q, i, t)' => t.serial = serial'[t.grant]
    BY <1>1, <1>7, <1>8 DEF RefreshInv, CopiesInv
  <2>3. \A q \in Handlers : At(q, "sync", "store")' => \E b \in Held : req'[q].held = {b}
    <3>1. \A q \in Handlers : At(q, "sync", "store") => \E b \in Held : req[q].held = {b}
      BY DEF RefreshInv, CopiesInv
    <3>2. \A q \in Handlers : At(q, "sync", "store")' =>
            At(q, "sync", "store") /\ req'[q] = req[q]
      BY <1>5, <1>6 DEF At
    <3> QED
      BY <3>1, <3>2
  <2> QED
    BY <2>1, <2>2, <2>3 DEF CopiesInv
<1>12. NotLockedOut'
  <2>1. \A q \in Handlers : At(q, "sync", "store") =>
          At(q, "sync", "store")' /\ req'[q].held = req[q].held
    BY <1>5, <1>6 DEF At
  <2>2. \A b : Refreshable(b)' <=> Refreshable(b)
    BY <1>1 DEF Refreshable
  <2>3. \A a \in DOMAIN accounts : Refreshable(accounts[a]) => Refreshable(accounts[a])'
    BY <1>1 DEF Refreshable
  <2> QED
    BY <1>1, <2>1, <2>2, <2>3 DEF RefreshInv, NotLockedOut
<1> QED
  BY <1>9, <1>10, <1>11, <1>12 DEF RefreshInv

\* The account that is saved has the first token of its grant, the good one.
LEMMA SaveAccountRefresh ==
  ASSUME MusicInv, RefreshInv, NEW h \in Handlers, SaveAccount(h)
  PROVE  RefreshInv'
<1> DEFINE g == req[h].grant
           token == [grant |-> g, serial |-> 0]
<1>1. /\ At(h, "connect", "save")
      /\ UpsertAccount(req[h].device, req[h].provider, token)
      /\ req' = [req EXCEPT ![h].pc = "reload"]
      /\ UNCHANGED <<holder, serial>>
  BY DEF SaveAccount, providers
<1>2. req[h] \in Connect /\ req[h] # NoReq
  BY <1>1, KindOfRequest DEF MusicInv, At
<1>3. g \in Grants /\ g \in DOMAIN holder
  BY <1>1 DEF MusicInv, MusicTypeOK, RequestOK, GivenFor, At
<1>4. token \in Token /\ token.grant = g /\ token.serial = 0
  BY <1>3 DEF Token
<1>5. serial[g] = 0
      /\ \A id \in RowIds, t \in Token : t.grant = g =>
           ~IsCopy(id, t) /\ \A q \in Handlers : ~IsRenewed(q, id, t)
  BY <1>1 DEF RefreshInv, UnsavedInv
<1> HIDE DEF token
<1>6. UniqueInv' /\ \E id \in RowIds :
        /\ DOMAIN accounts' = DOMAIN accounts \cup {id}
        /\ accounts'[id].token = token
        /\ \A a \in DOMAIN accounts' \ {id} : accounts'[a] = accounts[a]
  <2> DEFINE d == req[h].device
             p == req[h].provider
  <2>1. d \in Devices /\ p \in Providers
    BY <1>2 DEF Connect
  <2>2. MusicInv /\ UniqueInv /\ UpsertAccount(d, p, token) /\ token \in Token
    BY <1>1, <1>4 DEF RefreshInv
  <2> HIDE DEF d, p
  <2>3. PICK id \in RowIds :
          /\ DOMAIN accounts' = DOMAIN accounts \cup {id}
          /\ accounts'[id] = [device |-> d, provider |-> p, token |-> token]
          /\ \A a \in DOMAIN accounts' \ {id} : accounts'[a] = accounts[a]
    BY <2>1, <2>2, UpsertOneAccount
  <2>4. UniqueInv'
    BY <2>1, <2>2, UpsertOneAccount
  <2> QED
    BY <2>3, <2>4
<1>7. PICK id \in RowIds :
        /\ DOMAIN accounts' = DOMAIN accounts \cup {id}
        /\ accounts'[id].token = token
        /\ \A a \in DOMAIN accounts' \ {id} : accounts'[a] = accounts[a]
  BY <1>6
<1>8. /\ \A q \in Handlers : q # h => req'[q] = req[q]
      /\ req'[h] = [req[h] EXCEPT !.pc = "reload"]
  BY <1>1 DEF MusicInv, MusicTypeOK
<1>9. req'[h].kind = "connect" /\ req'[h].pc = "reload" /\ req[h].kind = "connect"
  BY <1>2, <1>8 DEF Connect
<1>10. \A i, t : IsCopy(i, t)' => IsCopy(i, t) \/ (i = id /\ t = token)
  <2>1. \A q \in Handlers : q \in InFlight("sync")' => q \in InFlight("sync") /\ req'[q] = req[q]
    BY <1>8, <1>9 DEF InFlight
  <2> QED
    BY <1>7, <2>1 DEF IsCopy, InFlight
<1>11. \A i, t : \A q \in Handlers : IsRenewed(q, i, t)' <=> IsRenewed(q, i, t)
  BY <1>8, <1>9 DEF IsRenewed, At
<1>12. UnsavedInv'
  <2>1. ASSUME NEW q \in Handlers, At(q, "connect", "save")'
        PROVE  q # h /\ req'[q] = req[q] /\ At(q, "connect", "save")
    BY <1>8, <1>9, <2>1 DEF At
  <2>2. \A q \in Handlers \ {h} : At(q, "connect", "save") => req[q].grant # g
    BY <1>1 DEF RefreshInv, UnsavedInv
  <2>3. ASSUME NEW q \in Handlers, At(q, "connect", "save")'
        PROVE  /\ serial'[req'[q].grant] = 0
               /\ \A i \in RowIds, t \in Token : t.grant = req'[q].grant =>
                    ~IsCopy(i, t)' /\ \A k \in Handlers : ~IsRenewed(k, i, t)'
               /\ \A k \in Handlers \ {q} :
                    At(k, "connect", "save")' => req'[k].grant # req'[q].grant
    <3>1. q # h /\ req'[q] = req[q] /\ At(q, "connect", "save")
      BY <2>1, <2>3
    <3>2. /\ serial[req[q].grant] = 0
          /\ \A i \in RowIds, t \in Token : t.grant = req[q].grant =>
               ~IsCopy(i, t) /\ \A k \in Handlers : ~IsRenewed(k, i, t)
          /\ \A k \in Handlers \ {q} : At(k, "connect", "save") => req[k].grant # req[q].grant
      BY <3>1 DEF RefreshInv, UnsavedInv
    <3>3. \A i \in RowIds, t \in Token : t.grant = req[q].grant =>
            ~IsCopy(i, t)' /\ \A k \in Handlers : ~IsRenewed(k, i, t)'
      BY <1>4, <1>10, <1>11, <2>2, <3>1, <3>2
    <3>4. \A k \in Handlers \ {q} : At(k, "connect", "save")' => req'[k].grant # req'[q].grant
      BY <2>1, <3>1, <3>2
    <3> QED
      BY <1>1, <3>1, <3>2, <3>3, <3>4
  <2>4. \A f \in Grants \ DOMAIN holder' : serial'[f] = 0
    BY <1>1 DEF RefreshInv, UnsavedInv
  <2> QED
    BY <2>3, <2>4 DEF UnsavedInv
<1>13. CopiesInv'
  <2>1. \A i \in RowIds, t \in Token : IsCopy(i, t)' =>
          (IsCopy(i, t) /\ t.grant # g) \/ (i = id /\ t = token)
    BY <1>5, <1>10
  <2>2. \A q \in Handlers, i \in RowIds, t \in Token :
          IsRenewed(q, i, t)' => IsRenewed(q, i, t) /\ t.grant # g
    BY <1>5, <1>11
  <2>3. \A i, j \in RowIds, t, u \in Token : t.grant = u.grant =>
          /\ IsCopy(i, t)' /\ IsCopy(j, u)' => i = j
          /\ \A q \in Handlers : IsRenewed(q, i, t)' =>
               /\ IsCopy(j, u)' => i = j /\ u.serial < t.serial
               /\ \A k \in Handlers : IsRenewed(k, j, u)' => k = q
    BY <1>4, <2>1, <2>2 DEF RefreshInv, CopiesInv
  <2>4. \A i \in RowIds, t \in Token : IsCopy(i, t)' => t.serial <= serial'[t.grant]
    BY <1>1, <1>4, <1>5, <2>1 DEF RefreshInv, CopiesInv
  <2>5. \A i \in RowIds, t \in Token, q \in Handlers :
          IsRenewed(q, i, t)' => t.serial = serial'[t.grant]
    BY <1>1, <2>2 DEF RefreshInv, CopiesInv
  <2>6. \A q \in Handlers : At(q, "sync", "store")' => \E b \in Held : req'[q].held = {b}
    <3>1. \A q \in Handlers : At(q, "sync", "store") => \E b \in Held : req[q].held = {b}
      BY DEF RefreshInv, CopiesInv
    <3>2. \A q \in Handlers : At(q, "sync", "store")' =>
            At(q, "sync", "store") /\ req'[q] = req[q]
      BY <1>8, <1>9 DEF At
    <3> QED
      BY <3>1, <3>2
  <2> QED
    BY <2>3, <2>4, <2>5, <2>6 DEF CopiesInv
<1>14. NotLockedOut'
  <2>1. Refreshable(accounts[id])'
    BY <1>1, <1>4, <1>5, <1>7 DEF Refreshable
  <2>2. \A q \in Handlers : At(q, "sync", "store") =>
          At(q, "sync", "store")' /\ req'[q].held = req[q].held
    BY <1>8, <1>9 DEF At
  <2>3. ASSUME NEW a \in DOMAIN accounts' \ {id}
        PROVE  \/ Refreshable(accounts[a])'
               \/ \E q \in Handlers :
                    /\ At(q, "sync", "store")'
                    /\ \E b \in req'[q].held : /\ b.id = a
                                               /\ b.token.grant = accounts'[a].token.grant
                                               /\ Refreshable(b)'
    <3>1. a \in DOMAIN accounts /\ accounts'[a] = accounts[a]
      BY <1>7
    <3> QED
      BY <1>1, <2>2, <3>1 DEF RefreshInv, NotLockedOut, Refreshable
  <2> QED
    BY <1>7, <2>1, <2>3 DEF NotLockedOut
<1> QED
  BY <1>6, <1>12, <1>13, <1>14 DEF RefreshInv

\* A sync that renews a token is the only one that could, and leaves every
\* copy of the old one of no use.
LEMMA RefreshTokenRefresh ==
  ASSUME MusicInv, RefreshInv, Renewals \subseteq {1}, NEW h \in Handlers, RefreshToken(h)
  PROVE  RefreshInv'
<1>1. At(h, "sync", "token") /\ UNCHANGED <<accounts, holder>>
  BY DEF RefreshToken, musicTables
<1>2. PICK a \in req[h].todo, renewal \in Renewals :
        LET n == a.token.serial + renewal
        IN  /\ Refreshable(a)
            /\ n <= MaxRefreshes
            /\ serial' = [serial EXCEPT ![a.token.grant] = n]
            /\ req' = [req EXCEPT ![h].pc = "store",
                                  ![h].held = {[a EXCEPT !.token.serial = n]}]
  BY DEF RefreshToken
<1> DEFINE g == a.token.grant
           n == a.token.serial + renewal
           b == [a EXCEPT !.token.serial = n]
<1>3. req[h] \in Sync /\ req[h] # NoReq /\ req[h].kind = "sync" /\ a \in Held
  BY <1>1, SyncAt DEF At
<1>4. /\ n = a.token.serial + 1 /\ n \in 0 .. MaxRefreshes /\ a.token \in Token
      /\ g \in Grants /\ a.id \in RowIds /\ a.token.serial \in 0 .. MaxRefreshes
      /\ serial[g] = a.token.serial
  BY <1>2, <1>3 DEF Held, Token, Refreshable
<1>5. /\ serial'[g] = n /\ \A f \in Grants \ {g} : serial'[f] = serial[f]
  BY <1>2, <1>4 DEF MusicInv, MusicTypeOK
<1> HIDE DEF n
<1>6. b \in Held /\ b.id = a.id /\ b.token = [grant |-> g, serial |-> n]
  BY <1>3, <1>4 DEF Held, Token
<1>7. b.token \in Token /\ b.token.grant = g /\ b.token.serial = n
  BY <1>4, <1>6 DEF Token
<1>8. /\ \A q \in Handlers : q # h => req'[q] = req[q]
      /\ req'[h] = [req[h] EXCEPT !.pc = "store", !.held = {b}]
  <2>1. req \in [Handlers -> Request]
    BY DEF MusicInv, MusicTypeOK
  <2>2. req' = [req EXCEPT ![h].pc = "store", ![h].held = {b}]
    BY <1>2 DEF n
  <2> HIDE DEF b
  <2> QED
    BY <2>1, <2>2
<1> HIDE DEF b, g
<1>9. /\ req'[h].kind = "sync" /\ req'[h].pc = "store" /\ req'[h].held = {b}
      /\ req'[h].todo = req[h].todo
  BY <1>3, <1>8 DEF Sync
<1>10. IsCopy(a.id, a.token)
  BY <1>3 DEF IsCopy, InFlight
<1>11. req'[h] # NoReq
  <2>1. req'[h] \in Sync
    <3>1. {b} \in SUBSET Held
      BY <1>6
    <3> QED
      BY <1>3, <1>8, <3>1 DEF Sync
  <2> QED
    BY <2>1, NoReqAssumption
<1>12. \A i, t : IsCopy(i, t)' <=> IsCopy(i, t)
  <2>1. InFlight("sync")' = InFlight("sync")
    BY <1>3, <1>8, <1>9, <1>11 DEF InFlight
  <2>2. \A q \in Handlers : req'[q].todo = req[q].todo
    BY <1>8, <1>9
  <2>3. InFlight("sync") \subseteq Handlers
    BY DEF InFlight
  <2> QED
    BY <1>1, <2>1, <2>2, <2>3 DEF IsCopy
<1>13. \A i, t : \A q \in Handlers :
         IsRenewed(q, i, t)' <=> IsRenewed(q, i, t) \/ (q = h /\ i = a.id /\ t = b.token)
  <2>1. \A i, t : IsRenewed(h, i, t)' <=> (i = a.id /\ t = b.token)
    BY <1>6, <1>9, <1>11 DEF IsRenewed, At
  <2>2. \A i, t : ~IsRenewed(h, i, t)
    BY <1>1 DEF IsRenewed, At
  <2>3. \A i, t : \A q \in Handlers \ {h} : IsRenewed(q, i, t)' <=> IsRenewed(q, i, t)
    BY <1>8 DEF IsRenewed, At
  <2> QED
    BY <2>1, <2>2, <2>3
\* Nobody else is about to store a token of this grant.
<1>14. \A q \in Handlers, i \in RowIds, t \in Token : IsRenewed(q, i, t) => t.grant # g
  <2>1. SUFFICES ASSUME NEW q \in Handlers, NEW i \in RowIds, NEW t \in Token,
                        IsRenewed(q, i, t), t.grant = g
                 PROVE  FALSE
    OBVIOUS
  <2>2. t.serial = serial[g]
    BY <2>1 DEF RefreshInv, CopiesInv
  <2>3. a.token.serial < t.serial
    BY <1>4, <1>10, <2>1 DEF RefreshInv, CopiesInv, g
  <2> QED
    BY <1>4, <2>2, <2>3
<1>15. UniqueInv'
  BY <1>1 DEF RefreshInv, UniqueInv
<1>16. g \in DOMAIN holder
  BY <1>4, <1>10, TokensAreGiven DEF g
<1>17. UnsavedInv'
  <2>1. \A f \in Grants \ DOMAIN holder' : serial'[f] = 0
    BY <1>1, <1>5, <1>16 DEF RefreshInv, UnsavedInv
  <2>2. \A q \in Handlers : At(q, "connect", "save")' =>
          q # h /\ req'[q] = req[q] /\ At(q, "connect", "save")
    BY <1>8, <1>9 DEF At
  <2>3. ASSUME NEW q \in Handlers, At(q, "connect", "save")'
        PROVE  /\ serial'[req'[q].grant] = 0
               /\ \A i \in RowIds, t \in Token : t.grant = req'[q].grant =>
                    ~IsCopy(i, t)' /\ \A k \in Handlers : ~IsRenewed(k, i, t)'
               /\ \A k \in Handlers \ {q} :
                    At(k, "connect", "save")' => req'[k].grant # req'[q].grant
    <3>1. q # h /\ req'[q] = req[q] /\ At(q, "connect", "save")
      BY <2>2, <2>3
    <3>2. /\ serial[req[q].grant] = 0
          /\ \A i \in RowIds, t \in Token : t.grant = req[q].grant =>
               ~IsCopy(i, t) /\ \A k \in Handlers : ~IsRenewed(k, i, t)
          /\ \A k \in Handlers \ {q} : At(k, "connect", "save") => req[k].grant # req[q].grant
      BY <3>1 DEF RefreshInv, UnsavedInv
    <3>3. req[q].grant # g
      BY <1>4, <1>10, <3>2 DEF g
    <3>4. \A i \in RowIds, t \in Token : t.grant = req[q].grant =>
            ~IsCopy(i, t)' /\ \A k \in Handlers : ~IsRenewed(k, i, t)'
      BY <1>7, <1>12, <1>13, <3>2, <3>3
    <3>5. serial'[req[q].grant] = 0
      <4>1. req[q].grant \in Grants
        BY <3>1 DEF MusicInv, MusicTypeOK, RequestOK, GivenFor, At
      <4> QED
        BY <1>5, <3>2, <3>3, <4>1
    <3>6. \A k \in Handlers \ {q} : At(k, "connect", "save")' => req'[k].grant # req'[q].grant
      BY <2>2, <3>1, <3>2
    <3> QED
      BY <3>1, <3>4, <3>5, <3>6
  <2> QED
    BY <2>1, <2>3 DEF UnsavedInv
<1>18. CopiesInv'
  <2>1. \A i \in RowIds, t \in Token : IsCopy(i, t) /\ t.grant = g => i = a.id
    BY <1>4, <1>10 DEF RefreshInv, CopiesInv, g
  <2>2. \A i \in RowIds, t \in Token : IsCopy(i, t) /\ t.grant = g => t.serial < n
    <3>1. \A i \in RowIds, t \in Token : IsCopy(i, t) => t.serial <= serial[t.grant]
      BY DEF RefreshInv, CopiesInv
    <3>2. \A t \in Token : t.serial \in Nat
      BY DEF Token
    <3> QED
      BY <1>4, <3>1, <3>2
  <2>3. ASSUME NEW i \in RowIds, NEW j \in RowIds, NEW t \in Token, NEW u \in Token,
               t.grant = u.grant
        PROVE  /\ IsCopy(i, t)' /\ IsCopy(j, u)' => i = j
               /\ \A q \in Handlers : IsRenewed(q, i, t)' =>
                    /\ IsCopy(j, u)' => i = j /\ u.serial < t.serial
                    /\ \A k \in Handlers : IsRenewed(k, j, u)' => k = q
    <3>1. IsCopy(i, t)' /\ IsCopy(j, u)' => i = j
      BY <1>12, <2>3 DEF RefreshInv, CopiesInv
    <3>2. ASSUME NEW q \in Handlers, IsRenewed(q, i, t)', IsCopy(j, u)'
          PROVE  i = j /\ u.serial < t.serial
      <4>1. CASE IsRenewed(q, i, t)
        BY <1>12, <2>3, <3>2, <4>1 DEF RefreshInv, CopiesInv
      <4>2. CASE q = h /\ i = a.id /\ t = b.token
        BY <1>7, <1>12, <2>1, <2>2, <2>3, <3>2, <4>2
      <4> QED
        BY <1>13, <3>2, <4>1, <4>2
    <3>3. ASSUME NEW q \in Handlers, NEW k \in Handlers,
                 IsRenewed(q, i, t)', IsRenewed(k, j, u)'
          PROVE  k = q
      <4>1. CASE IsRenewed(q, i, t) /\ IsRenewed(k, j, u)
        BY <2>3, <4>1 DEF RefreshInv, CopiesInv
      <4>2. CASE q = h /\ t = b.token /\ k = h
        BY <4>2
      <4>3. CASE t.grant = g /\ (IsRenewed(q, i, t) \/ IsRenewed(k, j, u))
        BY <1>14, <2>3, <4>3
      <4> QED
        BY <1>7, <1>13, <2>3, <3>3, <4>1, <4>2, <4>3
    <3> QED
      BY <3>1, <3>2, <3>3
  <2>4. \A i \in RowIds, t \in Token : IsCopy(i, t)' => t.serial <= serial'[t.grant]
    <3>1. ASSUME NEW i \in RowIds, NEW t \in Token, IsCopy(i, t)
          PROVE  t.serial <= serial'[t.grant]
      <4>1. t.serial <= serial[t.grant] /\ t.grant \in Grants /\ t.serial \in Nat
        BY <3>1 DEF RefreshInv, CopiesInv, Token
      <4>2. CASE t.grant = g
        BY <1>4, <1>5, <2>2, <3>1, <4>1, <4>2
      <4>3. CASE t.grant # g
        BY <1>5, <4>1, <4>3
      <4> QED
        BY <4>2, <4>3
    <3> QED
      BY <1>12, <3>1
  <2>5. \A i \in RowIds, t \in Token, q \in Handlers :
          IsRenewed(q, i, t)' => t.serial = serial'[t.grant]
    <3>1. ASSUME NEW i \in RowIds, NEW t \in Token, NEW q \in Handlers, IsRenewed(q, i, t)
          PROVE  t.serial = serial'[t.grant]
      BY <1>5, <1>14, <3>1 DEF RefreshInv, CopiesInv, Token
    <3> QED
      BY <1>5, <1>7, <1>13, <3>1
  <2>6. \A q \in Handlers : At(q, "sync", "store")' => \E c \in Held : req'[q].held = {c}
    <3>1. \A q \in Handlers : At(q, "sync", "store") => \E c \in Held : req[q].held = {c}
      BY DEF RefreshInv, CopiesInv
    <3>2. \A q \in Handlers \ {h} : At(q, "sync", "store")' =>
            At(q, "sync", "store") /\ req'[q] = req[q]
      BY <1>8 DEF At
    <3> QED
      BY <1>6, <1>9, <3>1, <3>2
  <2> QED
    BY <2>3, <2>4, <2>5, <2>6 DEF CopiesInv
<1>19. NotLockedOut'
  <2>1. ASSUME NEW c \in DOMAIN accounts'
        PROVE  \/ Refreshable(accounts[c])'
               \/ \E q \in Handlers :
                    /\ At(q, "sync", "store")'
                    /\ \E d \in req'[q].held : /\ d.id = c
                                               /\ d.token.grant = accounts'[c].token.grant
                                               /\ Refreshable(d)'
    <3>1. c \in DOMAIN accounts /\ accounts'[c] = accounts[c]
      BY <1>1, <2>1
    <3>2. /\ c \in RowIds /\ accounts[c].token \in Token /\ accounts[c].token.grant \in Grants
          /\ IsCopy(c, accounts[c].token)
      BY <3>1 DEF MusicInv, MusicTypeOK, MusicStoreTypeOK, IsTable, Account, Token, IsCopy
    <3>3. CASE accounts[c].token.grant = g
      <4>1. c = a.id
        BY <1>4, <1>10, <3>2, <3>3 DEF RefreshInv, CopiesInv, g
      <4>2. Refreshable(b)'
        BY <1>5, <1>7 DEF Refreshable
      <4>3. At(h, "sync", "store")' /\ b \in req'[h].held
        BY <1>9, <1>11 DEF At
      <4> QED
        BY <1>6, <1>7, <3>1, <3>3, <4>1, <4>2, <4>3
    <3>4. CASE accounts[c].token.grant # g
      <4>1. CASE Refreshable(accounts[c])
        BY <1>5, <3>1, <3>2, <3>4, <4>1 DEF Refreshable
      <4>2. ASSUME NEW q \in Handlers, At(q, "sync", "store"), NEW d \in req[q].held,
                   d.id = c, d.token.grant = accounts[c].token.grant, Refreshable(d)
            PROVE  /\ At(q, "sync", "store")' /\ d \in req'[q].held
                   /\ d.token.grant = accounts'[c].token.grant /\ Refreshable(d)'
        <5>1. q # h
          BY <1>1, <4>2 DEF At
        <5>2. At(q, "sync", "store")' /\ d \in req'[q].held
          BY <1>8, <4>2, <5>1 DEF At
        <5>3. Refreshable(d)'
          BY <1>5, <3>2, <3>4, <4>2 DEF Refreshable
        <5> QED
          BY <3>1, <4>2, <5>2, <5>3
      <4> QED
        BY <3>1, <4>1, <4>2 DEF RefreshInv, NotLockedOut
    <3> QED
      BY <3>3, <3>4
  <2> QED
    BY <2>1 DEF NotLockedOut
<1> QED
  BY <1>15, <1>17, <1>18, <1>19 DEF RefreshInv

\* The renewed token goes to the row of its account, if that is still there, or
\* over one that another grant has taken; either way it is the good one.
LEMMA StoreTokensRefresh ==
  ASSUME MusicInv, RefreshInv, NEW h \in Handlers, StoreTokens(h)
  PROVE  RefreshInv'
<1> DEFINE b == AccountOf(req[h])
           old == CHOOSE c \in req[h].todo : c.id = b.id
<1>1. /\ At(h, "sync", "store")
      /\ UpdateTokens(b.id, old.token, b.token)
      /\ req' = [req EXCEPT ![h].pc = "fetch"]
      /\ UNCHANGED <<holder, serial, nextAccount>>
  BY DEF StoreTokens, providers
<1>2. b \in req[h].held /\ b \in Held
  BY <1>1, AccountInHand
<1> HIDE DEF b, old
<1>3. b.id \in RowIds /\ b.token \in Token /\ b.token.grant \in Grants
  BY <1>2 DEF Held, Token
<1>4. IsRenewed(h, b.id, b.token) /\ b.token.serial = serial[b.token.grant]
  <2>1. IsRenewed(h, b.id, b.token)
    BY <1>1, <1>2 DEF IsRenewed
  <2> QED
    BY <1>3, <2>1 DEF RefreshInv, CopiesInv
<1>5. req[h].held = {b}
  BY <1>1, <1>2 DEF RefreshInv, CopiesInv
<1>6. /\ DOMAIN accounts' = DOMAIN accounts
      /\ \A a \in DOMAIN accounts :
           accounts'[a] = IF a = b.id THEN [accounts[a] EXCEPT !.token = b.token]
                          ELSE accounts[a]
  BY <1>1, <1>3, UpdateTokensKeeps DEF MusicInv, MusicTypeOK
<1>7. \A a \in DOMAIN accounts :
        /\ accounts'[a].device = accounts[a].device
        /\ accounts'[a].provider = accounts[a].provider
        /\ accounts'[a].token = IF a = b.id THEN b.token ELSE accounts[a].token
  <2>1. \A a \in DOMAIN accounts : accounts[a] \in Account
    BY DEF MusicInv, MusicTypeOK, MusicStoreTypeOK, IsTable
  <2> QED
    BY <1>6, <2>1 DEF Account
<1>8. req[h] \in Sync /\ req[h] # NoReq /\ req[h].kind = "sync" /\ req[h].pc = "store"
  BY <1>1, SyncAt DEF At
<1>9. /\ \A q \in Handlers : q # h => req'[q] = req[q]
      /\ req'[h] = [req[h] EXCEPT !.pc = "fetch"]
  BY <1>1 DEF MusicInv, MusicTypeOK
<1>10. /\ req'[h].kind = "sync" /\ req'[h].pc = "fetch" /\ req'[h].todo = req[h].todo
  BY <1>8, <1>9 DEF Sync
<1>11. \A i, t : IsCopy(i, t)' => IsCopy(i, t) \/ (i = b.id /\ t = b.token)
  <2>1. \A q \in Handlers : q \in InFlight("sync")' =>
          q \in InFlight("sync") /\ req'[q].todo = req[q].todo
    BY <1>8, <1>9, <1>10 DEF InFlight
  <2>2. InFlight("sync")' \subseteq Handlers
    BY DEF InFlight
  <2> QED
    BY <1>6, <1>7, <2>1, <2>2 DEF IsCopy
<1>12. \A i, t : \A q \in Handlers : IsRenewed(q, i, t)' <=> q # h /\ IsRenewed(q, i, t)
  BY <1>9, <1>10 DEF IsRenewed, At
<1>13. UniqueInv'
  BY <1>6, <1>7 DEF RefreshInv, UniqueInv
<1>14. UnsavedInv'
  <2>1. \A f \in Grants \ DOMAIN holder' : serial'[f] = 0
    BY <1>1 DEF RefreshInv, UnsavedInv
  <2>2. \A q \in Handlers : At(q, "connect", "save")' =>
          q # h /\ req'[q] = req[q] /\ At(q, "connect", "save")
    BY <1>9, <1>10 DEF At
  <2>3. ASSUME NEW q \in Handlers, At(q, "connect", "save")'
        PROVE  /\ serial'[req'[q].grant] = 0
               /\ \A i \in RowIds, t \in Token : t.grant = req'[q].grant =>
                    ~IsCopy(i, t)' /\ \A k \in Handlers : ~IsRenewed(k, i, t)'
               /\ \A k \in Handlers \ {q} :
                    At(k, "connect", "save")' => req'[k].grant # req'[q].grant
    <3>1. q # h /\ req'[q] = req[q] /\ At(q, "connect", "save")
      BY <2>2, <2>3
    <3>2. /\ serial[req[q].grant] = 0
          /\ \A i \in RowIds, t \in Token : t.grant = req[q].grant =>
               ~IsCopy(i, t) /\ \A k \in Handlers : ~IsRenewed(k, i, t)
          /\ \A k \in Handlers \ {q} : At(k, "connect", "save") => req[k].grant # req[q].grant
      BY <3>1 DEF RefreshInv, UnsavedInv
    <3>3. req[q].grant # b.token.grant
      BY <1>3, <1>4, <3>2
    <3>4. \A i \in RowIds, t \in Token : t.grant = req[q].grant =>
            ~IsCopy(i, t)' /\ \A k \in Handlers : ~IsRenewed(k, i, t)'
      BY <1>11, <1>12, <3>2, <3>3
    <3>5. \A k \in Handlers \ {q} : At(k, "connect", "save")' => req'[k].grant # req'[q].grant
      BY <2>2, <3>1, <3>2
    <3> QED
      BY <1>1, <3>1, <3>2, <3>4, <3>5
  <2> QED
    BY <2>1, <2>3 DEF UnsavedInv
<1>15. CopiesInv'
  <2>1. \A i \in RowIds, t \in Token : IsCopy(i, t) /\ t.grant = b.token.grant => i = b.id
    BY <1>3, <1>4 DEF RefreshInv, CopiesInv
  <2>2. \A q \in Handlers, i \in RowIds, t \in Token :
          IsRenewed(q, i, t)' => IsRenewed(q, i, t) /\ t.grant # b.token.grant
    BY <1>3, <1>4, <1>12 DEF RefreshInv, CopiesInv
  <2>3. ASSUME NEW i \in RowIds, NEW j \in RowIds, NEW t \in Token, NEW u \in Token,
               t.grant = u.grant
        PROVE  /\ IsCopy(i, t)' /\ IsCopy(j, u)' => i = j
               /\ \A q \in Handlers : IsRenewed(q, i, t)' =>
                    /\ IsCopy(j, u)' => i = j /\ u.serial < t.serial
                    /\ \A k \in Handlers : IsRenewed(k, j, u)' => k = q
    <3>1. ASSUME IsCopy(i, t)', IsCopy(j, u)'
          PROVE  i = j
      <4>1. CASE IsCopy(i, t) /\ IsCopy(j, u)
        BY <2>3, <4>1 DEF RefreshInv, CopiesInv
      <4>2. CASE t = b.token \/ u = b.token
        BY <1>11, <2>1, <2>3, <3>1, <4>2
      <4> QED
        BY <1>11, <3>1, <4>1, <4>2
    <3>2. ASSUME NEW q \in Handlers, IsRenewed(q, i, t)', IsCopy(j, u)'
          PROVE  i = j /\ u.serial < t.serial
      <4>1. IsRenewed(q, i, t) /\ t.grant # b.token.grant
        BY <2>2, <3>2
      <4>2. IsCopy(j, u)
        BY <1>11, <2>3, <3>2, <4>1
      <4> QED
        BY <2>3, <4>1, <4>2 DEF RefreshInv, CopiesInv
    <3>3. ASSUME NEW q \in Handlers, NEW k \in Handlers,
                 IsRenewed(q, i, t)', IsRenewed(k, j, u)'
          PROVE  k = q
      BY <1>12, <2>3, <3>3 DEF RefreshInv, CopiesInv
    <3> QED
      BY <3>1, <3>2, <3>3
  <2>4. \A i \in RowIds, t \in Token : IsCopy(i, t)' => t.serial <= serial'[t.grant]
    <3>1. \A i \in RowIds, t \in Token : IsCopy(i, t) => t.serial <= serial[t.grant]
      BY DEF RefreshInv, CopiesInv
    <3>2. b.token.serial \in Nat
      BY <1>3 DEF Token
    <3> QED
      BY <1>1, <1>4, <1>11, <3>1, <3>2
  <2>5. \A i \in RowIds, t \in Token, q \in Handlers :
          IsRenewed(q, i, t)' => t.serial = serial'[t.grant]
    BY <1>1, <1>12 DEF RefreshInv, CopiesInv
  <2>6. \A q \in Handlers : At(q, "sync", "store")' => \E c \in Held : req'[q].held = {c}
    <3>1. \A q \in Handlers : At(q, "sync", "store") => \E c \in Held : req[q].held = {c}
      BY DEF RefreshInv, CopiesInv
    <3>2. \A q \in Handlers : At(q, "sync", "store")' =>
            At(q, "sync", "store") /\ req'[q] = req[q]
      BY <1>9, <1>10 DEF At
    <3> QED
      BY <3>1, <3>2
  <2> QED
    BY <2>3, <2>4, <2>5, <2>6 DEF CopiesInv
<1>16. NotLockedOut'
  <2>1. ASSUME NEW c \in DOMAIN accounts'
        PROVE  \/ Refreshable(accounts[c])'
               \/ \E q \in Handlers :
                    /\ At(q, "sync", "store")'
                    /\ \E d \in req'[q].held : /\ d.id = c
                                               /\ d.token.grant = accounts'[c].token.grant
                                               /\ Refreshable(d)'
    <3>1. CASE c = b.id
      BY <1>1, <1>4, <1>6, <1>7, <2>1, <3>1 DEF Refreshable
    <3>2. CASE c # b.id
      <4>1. c \in DOMAIN accounts /\ accounts'[c] = accounts[c]
        BY <1>6, <2>1, <3>2
      <4>2. CASE Refreshable(accounts[c])
        BY <1>1, <4>1, <4>2 DEF Refreshable
      <4>3. ASSUME NEW q \in Handlers, At(q, "sync", "store"), NEW d \in req[q].held,
                   d.id = c, d.token.grant = accounts[c].token.grant, Refreshable(d)
            PROVE  /\ At(q, "sync", "store")' /\ d \in req'[q].held
                   /\ d.token.grant = accounts'[c].token.grant /\ Refreshable(d)'
        <5>1. q # h
          BY <1>5, <3>2, <4>3
        <5> QED
          BY <1>1, <1>9, <4>1, <4>3, <5>1 DEF At, Refreshable
      <4> QED
        BY <4>1, <4>2, <4>3 DEF RefreshInv, NotLockedOut
    <3> QED
      BY <3>1, <3>2
  <2> QED
    BY <2>1 DEF NotLockedOut
<1> QED
  BY <1>13, <1>14, <1>15, <1>16 DEF RefreshInv

-----------------------------------------------------------------------------
(* All the other steps.                                                    *)

\* Connect and Disconnect but for the grant and the account that is saved.
LEMMA AuthIsQuiet ==
  ASSUME MusicInv, NEW h \in Handlers, AuthNext(h), ~ExchangeCode(h), ~SaveAccount(h)
  PROVE  Quiet(h)
<1>0. MusicTypeOK
  BY DEF MusicInv
<1>1. ASSUME UNCHANGED <<accounts, holder, serial>>, Ends(h)
      PROVE  Quiet(h)
  BY <1>0, <1>1, QuietRefreshStep DEF Ends
<1>2. CASE StartConnect(h)
  <2>1. PICK d \in Devices, p \in Providers, callback \in BOOLEAN :
          req' = [req EXCEPT ![h] =
                    [kind |-> "connect", pc |-> "exchange", device |-> d,
                     provider |-> p, callback |-> callback, grant |-> 0]]
    BY <1>2 DEF StartConnect
  <2>2. UNCHANGED <<accounts, holder, serial>>
    BY <1>2 DEF StartConnect, musicTables, providers
  <2> QED
    BY <2>1, <2>2, QuietRefreshStep, <1>0
<1>3. CASE ReloadAccount(h)
  <2>1. UNCHANGED <<accounts, holder, serial>>
    BY <1>3 DEF ReloadAccount, musicTables, providers
  <2>2. CASE req' = [req EXCEPT ![h].pc = "panic"]
    <3> DEFINE r == [req[h] EXCEPT !.pc = "panic"]
    <3>1. req[h] \in Connect
      BY <1>3, KindOfRequest DEF ReloadAccount, MusicInv
    <3>2. r.kind = "connect" /\ r.pc = "panic"
      BY <3>1 DEF Connect
    <3>3. req' = [req EXCEPT ![h] = r]
      BY <2>2 DEF MusicInv, MusicTypeOK
    <3> HIDE DEF r
    <3> QED
      BY <2>1, <3>2, <3>3, QuietRefreshStep, <1>0
  <2> QED
    BY <1>1, <1>3, <2>1, <2>2 DEF ReloadAccount
<1>4. CASE Recover(h) \/ ConnectFails(h) \/ DisconnectFails(h)
  <2>1. /\ UNCHANGED <<accounts, holder, serial>>
        /\ Ends(h)
    BY <1>4 DEF Recover, ConnectFails, DisconnectFails, musicTables, providers
  <2> QED
    BY <1>1, <2>1
<1>5. CASE StartDisconnect(h)
  <2>1. PICK d \in Devices, p \in Providers :
          req' = [req EXCEPT ![h] =
                    [kind |-> "disconnect", pc |-> "tracks", device |-> d, provider |-> p]]
    BY <1>5 DEF StartDisconnect
  <2>2. UNCHANGED <<accounts, holder, serial>>
    BY <1>5 DEF StartDisconnect, musicTables, providers
  <2> QED
    BY <2>1, <2>2, QuietRefreshStep, <1>0
<1>6. CASE DropTracks(h)
  <2> DEFINE r == [req[h] EXCEPT !.pc = "account"]
  <2>1. UNCHANGED <<accounts, holder, serial>>
    BY <1>6 DEF DropTracks, providers
  <2>2. req[h] \in Disconnect
    BY <1>6, KindOfRequest DEF DropTracks, MusicInv
  <2>3. r.kind = "disconnect"
    BY <2>2 DEF Disconnect
  <2>4. req' = [req EXCEPT ![h] = r]
    BY <1>6 DEF DropTracks, MusicInv, MusicTypeOK
  <2> HIDE DEF r
  <2> QED
    BY <2>1, <2>3, <2>4, QuietRefreshStep, <1>0
<1>7. CASE DropAccount(h)
  <2>1. /\ UNCHANGED <<holder, serial>>
        /\ req' = [req EXCEPT ![h] = NoReq]
        /\ DeleteAccount(req[h].device, req[h].provider) /\ UNCHANGED nextAccount
    BY <1>7 DEF DropAccount, Ends, providers
  <2>2. \A a \in DOMAIN accounts' : a \in DOMAIN accounts /\ accounts'[a] = accounts[a]
    BY <2>1, DeleteAccountKeeps DEF MusicInv, MusicTypeOK
  <2> QED
    BY <2>1, <2>2, QuietRefreshStep, <1>0
<1> QED
  BY <1>2, <1>3, <1>4, <1>5, <1>6, <1>7 DEF AuthNext

\* A sync but for refreshing and storing a token.
LEMMA SyncIsQuiet ==
  ASSUME MusicInv, NEW h \in Handlers, SyncNext(h),
         ~RefreshToken(h), ~RefreshLost(h), ~StoreTokens(h)
  PROVE  Quiet(h)
<1>0. MusicTypeOK
  BY DEF MusicInv
<1>1. CASE StartSync(h)
  <2>1. PICK d \in Devices :
          req' = [req EXCEPT ![h] =
                    [kind |-> "sync", pc |-> "list", device |-> d, todo |-> {}, held |-> {},
                     exts |-> {}, jobs |-> {}, job |-> {}, best |-> NoSong]]
    BY <1>1 DEF StartSync
  <2>2. UNCHANGED <<accounts, holder, serial>>
    BY <1>1 DEF StartSync, musicTables, providers
  <2> QED
    BY <2>1, <2>2, QuietRefreshStep, <1>0
<1>2. CASE ListAccounts(h)
  <2> DEFINE row(a) == [id |-> a, device |-> accounts[a].device,
                        provider |-> accounts[a].provider, token |-> accounts[a].token]
             held == {row(a) : a \in {b \in DOMAIN accounts : accounts[b].device = req[h].device}}
             r == [req[h] EXCEPT !.pc = "token", !.todo = held]
  <2>1. At(h, "sync", "list") /\ UNCHANGED <<accounts, holder, serial>>
    BY <1>2 DEF ListAccounts, musicTables, providers
  <2>2. \A b \in held : IsCopy(b.id, b.token)
    BY DEF IsCopy
  <2>3. req' = [req EXCEPT ![h] = NoReq] \/ req' = [req EXCEPT ![h] = r]
    BY <1>2 DEF ListAccounts, MusicInv, MusicTypeOK
  <2> HIDE DEF held
  <2>4. req[h] \in Sync
    BY <2>1, SyncAt
  <2>5. r.kind = "sync" /\ r.pc = "token" /\ r.todo = held
    BY <2>4 DEF Sync
  <2> HIDE DEF r
  <2>6. CASE req' = [req EXCEPT ![h] = NoReq]
    BY <2>1, <2>6, QuietRefreshStep, <1>0
  <2>7. CASE req' = [req EXCEPT ![h] = r]
    BY <2>1, <2>2, <2>5, <2>7, QuietRefreshStep, <1>0
  <2> QED
    BY <2>3, <2>6, <2>7
\* The steps that go on with the same accounts.
<1>3. ASSUME NEW pc, At(h, "sync", pc), UNCHANGED <<accounts, holder, serial>>,
             NEW r, req' = [req EXCEPT ![h] = r],
             r.kind = "sync", r.pc # "store", r.todo = req[h].todo
      PROVE  Quiet(h)
  BY <1>3, SyncGoesOn, <1>0
<1>4. CASE TokenValid(h)
  <2>1. At(h, "sync", "token") /\ UNCHANGED <<accounts, holder, serial>>
    BY <1>4 DEF TokenValid, musicTables, providers
  <2>2. PICK a \in req[h].todo : req' = [req EXCEPT ![h].pc = "fetch", ![h].held = {a}]
    BY <1>4 DEF TokenValid
  <2> DEFINE r == [req[h] EXCEPT !.pc = "fetch", !.held = {a}]
  <2>3. req[h] \in Sync /\ req \in [Handlers -> Request]
    BY <2>1, SyncAt DEF MusicInv, MusicTypeOK
  <2>4. req' = [req EXCEPT ![h] = r]
    BY <2>2, <2>3
  <2>5. r.kind = "sync" /\ r.pc = "fetch" /\ r.todo = req[h].todo
    BY <2>3 DEF Sync
  <2> HIDE DEF r
  <2> QED
    BY <1>3, <2>1, <2>4, <2>5
<1>5. CASE FetchUserTracks(h)
  <2>1. At(h, "sync", "fetch") /\ UNCHANGED <<accounts, holder, serial>>
    BY <1>5 DEF FetchUserTracks, musicTables, providers
  <2>2. PICK exts \in SUBSET Exts : req' = [req EXCEPT ![h].pc = "upsert", ![h].exts = exts]
    BY <1>5 DEF FetchUserTracks
  <2> DEFINE r == [req[h] EXCEPT !.pc = "upsert", !.exts = exts]
  <2>3. req[h] \in Sync /\ req \in [Handlers -> Request]
    BY <2>1, SyncAt DEF MusicInv, MusicTypeOK
  <2>4. req' = [req EXCEPT ![h] = r]
    BY <2>2, <2>3
  <2>5. r.kind = "sync" /\ r.pc = "upsert" /\ r.todo = req[h].todo
    BY <2>3 DEF Sync
  <2> HIDE DEF r
  <2> QED
    BY <1>3, <2>1, <2>4, <2>5
<1>6. CASE SaveTracks(h)
  <2> DEFINE r == [req[h] EXCEPT !.pc = "reload"]
  <2>1. At(h, "sync", "upsert") /\ UNCHANGED <<accounts, holder, serial>>
    BY <1>6 DEF SaveTracks, providers
  <2>2. req[h] \in Sync /\ req \in [Handlers -> Request]
    BY <2>1, SyncAt DEF MusicInv, MusicTypeOK
  <2>3. req' = [req EXCEPT ![h] = r]
    BY <1>6, <2>2 DEF SaveTracks
  <2>4. r.kind = "sync" /\ r.pc = "reload" /\ r.todo = req[h].todo
    BY <2>2 DEF Sync
  <2> HIDE DEF r
  <2> QED
    BY <1>3, <2>1, <2>3, <2>4
<1>7. CASE FindBestMatch(h)
  <2>1. At(h, "sync", "match") /\ UNCHANGED <<accounts, holder, serial>>
    BY <1>7 DEF FindBestMatch, musicTables, providers
  <2>2. PICK j, best : req' = [req EXCEPT ![h].pc = "save", ![h].job = {j}, ![h].best = best]
    BY <1>7 DEF FindBestMatch
  <2> DEFINE r == [req[h] EXCEPT !.pc = "save", !.job = {j}, !.best = best]
  <2>3. req[h] \in Sync /\ req \in [Handlers -> Request]
    BY <2>1, SyncAt DEF MusicInv, MusicTypeOK
  <2>4. req' = [req EXCEPT ![h] = r]
    BY <2>2, <2>3
  <2>5. r.kind = "sync" /\ r.pc = "save" /\ r.todo = req[h].todo
    BY <2>3 DEF Sync
  <2> HIDE DEF r
  <2> QED
    BY <1>3, <2>1, <2>4, <2>5
\* The steps after which an account or a track is done with.
<1>8. ASSUME NEW pc, At(h, "sync", pc), UNCHANGED <<accounts, holder, serial>>,
             NEW r \in Sync, r.todo = req[h].todo,
             \/ req' = [req EXCEPT ![h] = AccountDone(r)]
             \/ req' = [req EXCEPT ![h] = JobDone(r)]
      PROVE  Quiet(h)
  <2>1. CASE req' = [req EXCEPT ![h] = AccountDone(r)]
    BY <1>8, <2>1, DoneIsQuiet, SyncGoesOn, <1>0
  <2>2. CASE req' = [req EXCEPT ![h] = JobDone(r)]
    BY <1>8, <2>2, DoneIsQuiet, SyncGoesOn, <1>0
  <2> QED
    BY <1>8, <2>1, <2>2
<1>9. CASE RefreshFails(h)
  <2>1. At(h, "sync", "token") /\ UNCHANGED <<accounts, holder, serial>>
    BY <1>9 DEF RefreshFails, musicTables, providers
  <2>2. PICK a \in req[h].todo :
          req' = [req EXCEPT ![h] = AccountDone([@ EXCEPT !.held = {a}])]
    BY <1>9 DEF RefreshFails
  <2> DEFINE r == [req[h] EXCEPT !.held = {a}]
  <2>3. req[h] \in Sync /\ {a} \in SUBSET Held
    BY <2>1, SyncAt
  <2>4. r \in Sync /\ r.todo = req[h].todo
    BY <2>3 DEF Sync
  <2>5. req' = [req EXCEPT ![h] = AccountDone(r)]
    BY <2>2 DEF MusicInv, MusicTypeOK
  <2> HIDE DEF r
  <2> QED
    BY <1>8, <2>1, <2>4, <2>5
<1>10. CASE ReloadTracks(h)
  <2>1. At(h, "sync", "reload") /\ UNCHANGED <<accounts, holder, serial>>
    BY <1>10 DEF ReloadTracks, musicTables, providers
  <2>2. PICK jobs : \/ req' = [req EXCEPT ![h] = AccountDone(req[h])]
                    \/ req' = [req EXCEPT ![h] = [req[h] EXCEPT !.pc = "match", !.jobs = jobs]]
    BY <1>10 DEF ReloadTracks, MusicInv, MusicTypeOK
  <2>3. req[h] \in Sync
    BY <2>1, SyncAt
  <2>4. CASE req' = [req EXCEPT ![h] = AccountDone(req[h])]
    BY <1>8, <2>1, <2>3, <2>4
  <2>5. CASE req' = [req EXCEPT ![h] = [req[h] EXCEPT !.pc = "match", !.jobs = jobs]]
    <3> DEFINE r == [req[h] EXCEPT !.pc = "match", !.jobs = jobs]
    <3>1. r.kind = "sync" /\ r.pc = "match" /\ r.todo = req[h].todo
      BY <2>3 DEF Sync
    <3> HIDE DEF r
    <3>2. req' = [req EXCEPT ![h] = r]
      BY <2>5 DEF r
    <3> QED
      BY <1>3, <2>1, <3>1, <3>2
  <2> QED
    BY <2>2, <2>4, <2>5
<1>11. CASE SyncFails(h)
  <2>1. UNCHANGED <<accounts, holder, serial>>
    BY <1>11 DEF SyncFails, musicTables, providers
  <2>2. PICK pc : At(h, "sync", pc)
    BY <1>11 DEF SyncFails
  <2>3. req[h] \in Sync /\ req' = [req EXCEPT ![h] = AccountDone(req[h])]
    BY <1>11, <2>2, SyncAt DEF SyncFails, MusicInv, MusicTypeOK
  <2> QED
    BY <1>8, <2>1, <2>2, <2>3
<1>12. CASE SaveMatch(h)
  <2>1. At(h, "sync", "save") /\ UNCHANGED <<accounts, holder, serial>>
    BY <1>12 DEF SaveMatch, providers
  <2>2. req[h] \in Sync /\ req' = [req EXCEPT ![h] = JobDone(req[h])]
    BY <1>12, <2>1, SyncAt DEF SaveMatch, MusicInv, MusicTypeOK
  <2> QED
    BY <1>8, <2>1, <2>2
<1>13. CASE MatchFails(h)
  <2>1. UNCHANGED <<accounts, holder, serial>>
    BY <1>13 DEF MatchFails, musicTables, providers
  <2>2. PICK pc : At(h, "sync", pc)
    BY <1>13 DEF MatchFails
  <2>3. req[h] \in Sync /\ req[h].jobs \subseteq Job
    BY <2>2, SyncAt
  <2>4. CASE req' = [req EXCEPT ![h] = JobDone(@)]
    <3>1. req' = [req EXCEPT ![h] = JobDone(req[h])]
      BY <2>4 DEF MusicInv, MusicTypeOK
    <3> QED
      BY <1>8, <2>1, <2>2, <2>3, <3>1
  <2>5. ASSUME NEW j \in req[h].jobs,
               req' = [req EXCEPT ![h] = JobDone([@ EXCEPT !.job = {j}])]
        PROVE  Quiet(h)
    <3> DEFINE r == [req[h] EXCEPT !.job = {j}]
    <3>1. r \in Sync /\ r.todo = req[h].todo
      <4>1. {j} \in SUBSET Job
        BY <2>3
      <4> QED
        BY <2>3, <4>1 DEF Sync
    <3>2. req' = [req EXCEPT ![h] = JobDone(r)]
      BY <2>5 DEF MusicInv, MusicTypeOK
    <3> HIDE DEF r
    <3> QED
      BY <1>8, <2>1, <2>2, <3>1, <3>2
  <2> QED
    BY <1>13, <2>4, <2>5 DEF MatchFails
<1> QED
  BY <1>1, <1>2, <1>4, <1>5, <1>6, <1>7, <1>9, <1>10, <1>11, <1>12, <1>13 DEF SyncNext

\* The two together, where no answer is lost and no statement fails: nobody
\* gives up storing a token then.
LEMMA RequestRefresh ==
  ASSUME MusicInv, RefreshInv, Renewals \subseteq {1}, Faults \subseteq {"provider"},
         NEW h \in Handlers, AuthNext(h) \/ SyncNext(h)
  PROVE  RefreshInv'
<1>1. ASSUME Quiet(h), ~At(h, "sync", "store")
      PROVE  RefreshInv'
  BY <1>1, NothingNew DEF Quiet
<1>2. CASE AuthNext(h)
  <2>1. ~At(h, "sync", "store")
    BY <1>2 DEF AuthNext, StartConnect, ExchangeCode, SaveAccount, ReloadAccount, Recover,
       ConnectFails, StartDisconnect, DropTracks, DropAccount, DisconnectFails, At
  <2> QED
    BY <1>1, <1>2, <2>1, AuthIsQuiet, ExchangeCodeRefresh, SaveAccountRefresh
<1>3. CASE SyncNext(h)
  <2>1. ~RefreshLost(h)
    BY DEF RefreshLost
  <2>2. At(h, "sync", "store") => StoreTokens(h)
    BY <1>3 DEF SyncNext, StartSync, ListAccounts, TokenValid, RefreshToken, RefreshFails,
       RefreshLost, FetchUserTracks, SaveTracks, ReloadTracks, SyncFails, FindBestMatch,
       SaveMatch, MatchFails, At
  <2> QED
    BY <1>1, <1>3, <2>1, <2>2, SyncIsQuiet, RefreshTokenRefresh, StoreTokensRefresh
<1> QED
  BY <1>2, <1>3

\* Nobody has a token at the start.
LEMMA RefreshInvInit ==
  ASSUME Init
  PROVE  RefreshInv
<1>1. /\ DOMAIN accounts = {} /\ \A g \in Grants : serial[g] = 0
      /\ \A h \in Handlers : req[h] = NoReq
  BY DEF Init, MusicStoreInit, EmptyTable
<1>2. \A i, t : ~IsCopy(i, t) /\ \A h \in Handlers : ~IsRenewed(h, i, t)
  BY <1>1 DEF IsCopy, IsRenewed, InFlight, At
<1> QED
  BY <1>1, <1>2 DEF RefreshInv, UniqueInv, UnsavedInv, CopiesInv, NotLockedOut, At

\* Every step keeps the invariant.
LEMMA RefreshInvStep ==
  ASSUME MusicInv, RefreshInv, Renewals \subseteq {1}, Faults \subseteq {"provider"},
         [Next]_vars
  PROVE  RefreshInv'
<1>1. ASSUME UNCHANGED <<accounts, holder, serial, req>>
      PROVE  RefreshInv'
  <2>1. \A i, t : IsCopy(i, t)' <=> IsCopy(i, t)
    BY <1>1 DEF IsCopy, InFlight
  <2> QED
    BY <1>1, <2>1, NothingNew DEF At, HandsOnNothing
<1>2. CASE AddSong \/ UNCHANGED vars
  BY <1>1, <1>2 DEF AddSong, vars, musicTables, providers
<1>3. ~Crash
  BY DEF Crash
<1> QED
  BY <1>2, <1>3, RequestRefresh DEF Next

\* However connects, disconnects and syncs overlap: a device has one account of
\* a provider, nobody has used a grant before its account is saved, all tokens
\* of a grant belong to one account and none is newer than the one the provider
\* takes, a sync about to store a renewed one is alone in having it, and every
\* account has that one or a sync that will store it. This is so if each refresh
\* renews the token, the server runs on, the database works and the answers of
\* the providers arrive.
THEOREM RefreshInvariance ==
  ASSUME Renewals \subseteq {1}, Faults \subseteq {"provider"}
  PROVE  Spec => []RefreshInv
<1>1. Init => RefreshInv
  BY RefreshInvInit
<1>2. MusicInv /\ RefreshInv /\ [Next]_vars => RefreshInv'
  BY RefreshInvStep
<1> QED
  BY <1>1, <1>2, MusicInvariance, PTL DEF Spec

\* No account is left without a way to refresh, however connects, disconnects
\* and syncs overlap, if each refresh renews the token, the server runs on, the
\* database works and the answers of the providers arrive.
THEOREM RenewedIsNotLockedOut ==
  ASSUME Renewals \subseteq {1}, Faults \subseteq {"provider"}
  PROVE  Spec => []NotLockedOut
<1>1. RefreshInv => NotLockedOut
  BY DEF RefreshInv
<1> QED
  BY <1>1, RefreshInvariance, PTL

-----------------------------------------------------------------------------
(* Providers that never renew the token.                                   *)

\* A step keeps every token the first of its grant, if accounts and requests
\* have no other after it.
LEMMA StaysFirst ==
  ASSUME NeverRenewed, UNCHANGED serial,
         \A i \in RowIds, t \in Token : IsCopy(i, t)' => IsCopy(i, t) \/ t.serial = 0,
         \A h \in Handlers, i \in RowIds, t \in Token :
           IsRenewed(h, i, t)' => IsRenewed(h, i, t) \/ t.serial = 0
  PROVE  NeverRenewed'
  BY DEF NeverRenewed

\* Every step does.
LEMMA NeverRenewedStep ==
  ASSUME MusicInv, NeverRenewed, 1 \notin Renewals, [Next]_vars
  PROVE  NeverRenewed'
<1>1. ASSUME HandsOnNothing
      PROVE  NeverRenewed'
  BY <1>1, StaysFirst DEF HandsOnNothing, IsRenewed
<1>2. ASSUME NEW h \in Handlers, ExchangeCode(h)
      PROVE  NeverRenewed'
  <2>1. UNCHANGED <<accounts, serial>> /\ req[h] \in Connect
    BY <1>2, KindOfRequest DEF ExchangeCode, musicTables, MusicInv
  <2>2. /\ \A q \in Handlers \ {h} : req'[q] = req[q]
        /\ req[h].kind = "connect" /\ req'[h].kind = "connect"
    <3>1. PICK g : req' = [req EXCEPT ![h].pc = "save", ![h].grant = g]
      BY <1>2 DEF ExchangeCode
    <3>2. req \in [Handlers -> Request]
      BY DEF MusicInv, MusicTypeOK
    <3>3. req'[h] = [req[h] EXCEPT !.pc = "save", !.grant = g]
      BY <3>1, <3>2
    <3> QED
      BY <2>1, <3>1, <3>2, <3>3 DEF Connect
  <2>3. \A i, t : IsCopy(i, t)' => IsCopy(i, t)
    BY <2>1, <2>2 DEF IsCopy, InFlight
  <2>4. \A i, t : \A q \in Handlers : IsRenewed(q, i, t)' => IsRenewed(q, i, t)
    BY <2>2 DEF IsRenewed, At
  <2> QED
    BY <2>1, <2>3, <2>4, StaysFirst
<1>3. ASSUME NEW h \in Handlers, SaveAccount(h)
      PROVE  NeverRenewed'
  <2> DEFINE token == [grant |-> req[h].grant, serial |-> 0]
  <2>1. /\ At(h, "connect", "save")
        /\ UpsertAccount(req[h].device, req[h].provider, token)
        /\ req' = [req EXCEPT ![h].pc = "reload"]
        /\ UNCHANGED <<holder, serial>>
    BY <1>3 DEF SaveAccount, providers
  <2>2. req[h] \in Connect /\ req[h] # NoReq
    BY <2>1, KindOfRequest DEF MusicInv, At
  <2>3. req[h].device \in Devices /\ req[h].provider \in Providers /\ token \in Token
    <3>1. req[h].grant \in Grants
      BY <2>1 DEF MusicInv, MusicTypeOK, RequestOK, GivenFor, At
    <3> QED
      BY <2>2, <3>1 DEF Connect, Token
  <2>4. token.serial = 0
    OBVIOUS
  <2> HIDE DEF token
  <2>5. \A a \in DOMAIN accounts' :
          \/ a \in DOMAIN accounts /\ accounts'[a] = accounts[a]
          \/ accounts'[a] = [device |-> req[h].device, provider |-> req[h].provider,
                             token |-> token]
    BY <2>1, <2>3, UpsertAccountKeeps DEF MusicInv, MusicTypeOK
  <2>6. /\ \A q \in Handlers \ {h} : req'[q] = req[q]
        /\ req[h].kind = "connect" /\ req'[h].kind = "connect"
    <3>1. req'[h] = [req[h] EXCEPT !.pc = "reload"]
      BY <2>1 DEF MusicInv, MusicTypeOK
    <3> QED
      BY <2>1, <2>2, <3>1 DEF MusicInv, MusicTypeOK, Connect
  <2>7. \A i, t : IsCopy(i, t)' => IsCopy(i, t) \/ t = token
    BY <2>5, <2>6 DEF IsCopy, InFlight
  <2>8. \A i, t : \A q \in Handlers : IsRenewed(q, i, t)' => IsRenewed(q, i, t)
    BY <2>6 DEF IsRenewed, At
  <2> QED
    BY <2>1, <2>4, <2>7, <2>8, StaysFirst
<1>4. ASSUME NEW h \in Handlers, RefreshToken(h)
      PROVE  NeverRenewed'
  <2>1. At(h, "sync", "token") /\ UNCHANGED <<accounts, holder>>
    BY <1>4 DEF RefreshToken, musicTables
  <2>2. PICK a \in req[h].todo, renewal \in Renewals :
          LET n == a.token.serial + renewal
          IN  /\ Refreshable(a)
              /\ serial' = [serial EXCEPT ![a.token.grant] = n]
              /\ req' = [req EXCEPT ![h].pc = "store",
                                    ![h].held = {[a EXCEPT !.token.serial = n]}]
    BY <1>4 DEF RefreshToken
  <2> DEFINE b == [a EXCEPT !.token.serial = a.token.serial + renewal]
  <2>3. req[h] \in Sync /\ req[h].kind = "sync" /\ req[h] # NoReq /\ a \in Held
    BY <2>1, SyncAt DEF At
  <2>4. a.token.grant \in Grants /\ renewal = 0 /\ a.token.serial = 0
    BY <2>2, <2>3 DEF Held, Token, Refreshable, NeverRenewed
  <2>5. b.token.serial = 0
    BY <2>3, <2>4 DEF Held, Token
  <2>6. serial' = serial
    BY <2>2, <2>4 DEF NeverRenewed, MusicInv, MusicTypeOK
  <2>7. req' = [req EXCEPT ![h].pc = "store", ![h].held = {b}]
    BY <2>2
  <2> HIDE DEF b
  <2>8. /\ \A q \in Handlers \ {h} : req'[q] = req[q]
        /\ req'[h] = [req[h] EXCEPT !.pc = "store", !.held = {b}]
    <3>1. req \in [Handlers -> Request]
      BY DEF MusicInv, MusicTypeOK
    <3> QED
      BY <2>7, <3>1
  <2>9. req'[h].todo = req[h].todo /\ req'[h].held = {b}
    BY <2>3, <2>8 DEF Sync
  <2>10. \A i, t : IsCopy(i, t)' => IsCopy(i, t)
    <3>1. \A q \in Handlers : q \in InFlight("sync")' =>
            q \in InFlight("sync") /\ req'[q].todo = req[q].todo
      BY <2>3, <2>8, <2>9 DEF InFlight
    <3>2. InFlight("sync")' \subseteq Handlers
      BY DEF InFlight
    <3> QED
      BY <2>1, <3>1, <3>2 DEF IsCopy
  <2>11. \A i, t : \A q \in Handlers : IsRenewed(q, i, t)' => IsRenewed(q, i, t) \/ t = b.token
    BY <2>8, <2>9 DEF IsRenewed, At
  <2> QED
    BY <2>5, <2>6, <2>10, <2>11, StaysFirst
<1>5. ASSUME NEW h \in Handlers, StoreTokens(h)
      PROVE  NeverRenewed'
  <2> DEFINE b == AccountOf(req[h])
             old == CHOOSE c \in req[h].todo : c.id = b.id
  <2>1. /\ At(h, "sync", "store")
        /\ UpdateTokens(b.id, old.token, b.token)
        /\ req' = [req EXCEPT ![h].pc = "fetch"]
        /\ UNCHANGED <<serial, nextAccount>>
    BY <1>5 DEF StoreTokens, providers
  <2>2. b \in req[h].held /\ b \in Held
    BY <2>1, AccountInHand
  <2> HIDE DEF b, old
  <2>3. b.token \in Token /\ b.token.serial = 0
    <3>1. b.token \in Token /\ b.id \in RowIds /\ IsRenewed(h, b.id, b.token)
      BY <2>1, <2>2 DEF Held, IsRenewed
    <3> QED
      BY <3>1 DEF NeverRenewed
  <2>4. /\ DOMAIN accounts' = DOMAIN accounts
        /\ \A a \in DOMAIN accounts :
             accounts'[a] = IF a = b.id THEN [accounts[a] EXCEPT !.token = b.token]
                            ELSE accounts[a]
    BY <2>1, <2>3, UpdateTokensKeeps DEF MusicInv, MusicTypeOK
  <2>5. \A a \in DOMAIN accounts' : accounts'[a].token \in {accounts[a].token, b.token}
    <3>1. \A a \in DOMAIN accounts : accounts[a] \in Account
      BY DEF MusicInv, MusicTypeOK, MusicStoreTypeOK, IsTable
    <3> QED
      BY <2>4, <3>1 DEF Account
  <2>6. req[h] \in Sync /\ req[h] # NoReq /\ req[h].kind = "sync"
    BY <2>1, SyncAt DEF At
  <2>7. /\ \A q \in Handlers \ {h} : req'[q] = req[q]
        /\ req'[h] = [req[h] EXCEPT !.pc = "fetch"]
    BY <2>1 DEF MusicInv, MusicTypeOK
  <2>8. req'[h].todo = req[h].todo /\ req'[h].pc = "fetch"
    BY <2>6, <2>7 DEF Sync
  <2>9. \A i, t : IsCopy(i, t)' => IsCopy(i, t) \/ t = b.token
    <3>1. \A q \in Handlers : q \in InFlight("sync")' =>
            q \in InFlight("sync") /\ req'[q].todo = req[q].todo
      BY <2>6, <2>7, <2>8 DEF InFlight
    <3>2. InFlight("sync")' \subseteq Handlers
      BY DEF InFlight
    <3> QED
      BY <2>4, <2>5, <3>1, <3>2 DEF IsCopy
  <2>10. \A i, t : \A q \in Handlers : IsRenewed(q, i, t)' => IsRenewed(q, i, t)
    BY <2>7, <2>8 DEF IsRenewed, At
  <2> QED
    BY <2>1, <2>3, <2>9, <2>10, StaysFirst
<1>6. ASSUME NEW h \in Handlers, AuthNext(h) \/ SyncNext(h)
      PROVE  NeverRenewed'
  <2>1. ~RefreshLost(h)
    BY DEF RefreshLost
  <2> QED
    BY <1>1, <1>2, <1>3, <1>4, <1>5, <1>6, <2>1, AuthIsQuiet, SyncIsQuiet DEF Quiet
<1>7. CASE AddSong \/ UNCHANGED vars
  <2>1. UNCHANGED <<accounts, serial, req>>
    BY <1>7 DEF AddSong, vars, musicTables, providers
  <2>2. \A i, t : IsCopy(i, t)' => IsCopy(i, t)
    BY <2>1 DEF IsCopy, InFlight
  <2>3. \A i, t : \A q \in Handlers : IsRenewed(q, i, t)' => IsRenewed(q, i, t)
    BY <2>1 DEF IsRenewed, At
  <2> QED
    BY <2>1, <2>2, <2>3, StaysFirst
<1>8. CASE Crash
  <2>1. UNCHANGED <<accounts, serial>> /\ \A h \in Handlers : req'[h] = NoReq
    BY <1>8 DEF Crash, musicTables, providers
  <2>2. \A i, t : IsCopy(i, t)' => IsCopy(i, t)
    BY <2>1 DEF IsCopy, InFlight
  <2>3. \A i, t : \A q \in Handlers : ~IsRenewed(q, i, t)'
    BY <2>1 DEF IsRenewed, At
  <2> QED
    BY <2>1, <2>2, <2>3, StaysFirst
<1> QED
  BY <1>6, <1>7, <1>8 DEF Next

\* With providers that never renew the refresh token no account is locked out,
\* whatever fails: a token that is lost, not stored or stored late is the same
\* as the one the account has.
THEOREM NeverRenewedIsNotLockedOut ==
  ASSUME 1 \notin Renewals
  PROVE  Spec => []NotLockedOut
<1>1. Init => NeverRenewed
  BY DEF Init, MusicStoreInit, EmptyTable, NeverRenewed, IsCopy, IsRenewed, InFlight, At
<1>2. MusicInv /\ NeverRenewed /\ [Next]_vars => NeverRenewed'
  BY NeverRenewedStep
<1>3. MusicInv /\ NeverRenewed => NotLockedOut
  <2>1. SUFFICES ASSUME MusicInv, NeverRenewed, NEW a \in DOMAIN accounts
                 PROVE  Refreshable(accounts[a])
    BY DEF NotLockedOut
  <2>2. a \in RowIds /\ accounts[a] \in Account
    BY <2>1 DEF MusicInv, MusicTypeOK, MusicStoreTypeOK, IsTable
  <2>3. accounts[a].token \in Token /\ accounts[a].token.grant \in Grants
    BY <2>2 DEF Account, Token
  <2>4. IsCopy(a, accounts[a].token)
    BY <2>1 DEF IsCopy
  <2>5. accounts[a].token.serial = 0 /\ serial[accounts[a].token.grant] = 0
    BY <2>1, <2>2, <2>3, <2>4 DEF NeverRenewed
  <2> QED
    BY <2>5 DEF Refreshable
<1> QED
  BY <1>1, <1>2, <1>3, MusicInvariance, PTL DEF Spec
=============================================================================
