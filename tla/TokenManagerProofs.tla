------------------------- MODULE TokenManagerProofs -------------------------
(***************************************************************************)
(* Proofs about TokenManager, for any number of calls, entries and tokens. *)
(***************************************************************************)
EXTENDS TokenManager, TLAPS

\* The type invariant is inductive with one fact more: the token a call is about
\* to persist is one the provider minted.
TypeInv == TypeOK /\ \A t \in Procs : pc[t] = "update" => tok[t] \in Tokens

\* Writing a flag of an entry leaves a function into the entries' states.
LEMMA CellUpdates ==
  ASSUME NEW f \in [Entries -> Cells], NEW e, NEW b \in BOOLEAN,
         NEW d \in {"nil", "open", "closed"}
  PROVE  /\ [f EXCEPT ![e].busy = b] \in [Entries -> Cells]
         /\ [f EXCEPT ![e].done = d] \in [Entries -> Cells]
         /\ [f EXCEPT ![e] = [busy |-> b, done |-> d]] \in [Entries -> Cells]
<1>1. CASE e \in Entries
  BY <1>1 DEF Cells
<1>2. CASE e \notin Entries
  BY <1>2 DEF Cells
<1> QED
  BY <1>1, <1>2

\* Every variable stays in its type, over every step of the manager's calls.
THEOREM TypeCorrect == Spec => []TypeOK
<1> USE ConstantsAssumption DEF TypeInv, TypeOK, Tokens, NoToken, Statuses, Kinds, PCs,
                                OwnerPCs, WaiterPCs
<1>1. Init => TypeInv
  BY DEF Init, NoFlight, Cells
<1>2. TypeInv /\ [Next]_vars => TypeInv'
  <2> SUFFICES ASSUME TypeInv, [Next]_vars PROVE TypeInv'
    OBVIOUS
  <2> USE DEF At, Goto, Carry, Return, Quiet, state, calls, WriteCache, DropEntry
  <2>1. ASSUME NEW t \in Procs, NEW k \in Ops, Start(t, k) PROVE TypeInv'
    BY <2>1 DEF Start
  <2>2. ASSUME NEW t \in Procs, StartProactive(t) PROVE TypeInv'
    BY <2>2 DEF StartProactive
  <2>3. ASSUME NEW t \in Procs, LoadEntry(t) PROVE TypeInv'
    BY <2>3 DEF LoadEntry, Hold
  <2>4. ASSUME NEW t \in Procs, LoadOrStoreEntry(t) PROVE TypeInv'
    <3>1. CASE entry # NoEntry
      BY <2>4, <3>1 DEF LoadOrStoreEntry, StoreNewEntry, Hold
    <3>2. CASE StoreNewEntry(t)
      <4> PICK e \in FreeEntries :
            /\ cell' = [cell EXCEPT ![e] = [busy |-> FALSE, done |-> "nil"]]
            /\ entry' = e
            /\ orphans' = orphans \ {e}
            /\ Hold(t, e)
        BY <3>2 DEF StoreNewEntry
      <4>1. e \in Entries
        BY DEF FreeEntries
      <4>2. cell' \in [Entries -> Cells]
        BY CellUpdates
      <4> QED
        BY <2>4, <4>1, <4>2 DEF LoadOrStoreEntry, Hold
    <3> QED
      BY <2>4, <3>1, <3>2 DEF LoadOrStoreEntry
  <2>5. ASSUME NEW t \in Procs, ReadCache(t) PROVE TypeInv'
    BY <2>5 DEF ReadCache
  <2>6. ASSUME NEW t \in Procs, CheckRefreshing(t) PROVE TypeInv'
    BY <2>6 DEF CheckRefreshing
  <2>7. ASSUME NEW t \in Procs, StartLoad(t) PROVE TypeInv'
    BY <2>7 DEF StartLoad
  <2>8. CASE ReadFlight
    BY <2>8 DEF ReadFlight, NoFlight
  <2>9. CASE ReturnFlight
    BY <2>9 DEF ReturnFlight, NoFlight
  <2>10. ASSUME NEW t \in Procs, StoreLoaded(t) PROVE TypeInv'
    BY <2>10 DEF StoreLoaded
  <2>11. ASSUME NEW t \in Procs, RereadCache(t) PROVE TypeInv'
    BY <2>11 DEF RereadCache
  <2>12. ASSUME NEW t \in Procs, WinRefresh(t) PROVE TypeInv'
    <3>1. cell' \in [Entries -> Cells]
      BY <2>12, CellUpdates DEF WinRefresh
    <3> QED
      BY <2>12, <3>1 DEF WinRefresh
  <2>13. ASSUME NEW t \in Procs, LoseRefresh(t) PROVE TypeInv'
    BY <2>13 DEF LoseRefresh
  <2>14. ASSUME NEW t \in Procs, BeginRefresh(t) PROVE TypeInv'
    <3>1. cell' \in [Entries -> Cells]
      BY <2>14, CellUpdates DEF BeginRefresh
    <3> QED
      BY <2>14, <3>1 DEF BeginRefresh
  <2>15. ASSUME NEW t \in Procs, FinishRefresh(t) PROVE TypeInv'
    <3>1. cell' \in [Entries -> Cells]
      BY <2>15, CellUpdates DEF FinishRefresh
    <3> QED
      BY <2>15, <3>1 DEF FinishRefresh
  <2>16. ASSUME NEW t \in Procs, Release(t) PROVE TypeInv'
    <3>1. cell' \in [Entries -> Cells]
      BY <2>16, CellUpdates DEF Release
    <3> QED
      BY <2>16, <3>1 DEF Release
  <2>17. ASSUME NEW t \in Procs, WaitForRefresh(t) PROVE TypeInv'
    BY <2>17 DEF WaitForRefresh
  <2>18. ASSUME NEW t \in Procs, ReadAfterRefresh(t) PROVE TypeInv'
    BY <2>18 DEF ReadAfterRefresh
  <2>19. ASSUME NEW t \in Procs, Cancel(t) PROVE TypeInv'
    BY <2>19 DEF Cancel
  <2>20. ASSUME NEW t \in Procs, CancelForcedLoad(t) PROVE TypeInv'
    BY <2>20 DEF CancelForcedLoad
  <2>21. ASSUME NEW t \in Procs, InvalidateForForce(t) PROVE TypeInv'
    BY <2>21 DEF InvalidateForForce
  <2>22. ASSUME NEW t \in Procs, GetLatest(t) PROVE TypeInv'
    BY <2>22 DEF GetLatest
  <2>23. ASSUME NEW t \in Procs, RefreshAccessToken(t) PROVE TypeInv'
    <3>1. CASE Exchange(t)
      BY <2>23, <3>1 DEF RefreshAccessToken, Exchange, Mint
    <3>2. CASE ~Exchange(t)
      BY <2>23, <3>2 DEF RefreshAccessToken
    <3> QED
      BY <3>1, <3>2
  <2>24. ASSUME NEW t \in Procs, UpdateTokens(t) PROVE TypeInv'
    <3>1. CASE PersistTokens(t)
      <4>1. tok[t] \in Tokens
        BY <2>24 DEF UpdateTokens
      <4>2. row' \in [status : Statuses, tok : Tokens]
        BY <3>1, <4>1 DEF PersistTokens
      <4>3. stored' \subseteq Tokens
        BY <3>1, <4>1 DEF PersistTokens
      <4>4. CASE Goto(t, "publish")
        BY <2>24, <4>2, <4>3, <4>4 DEF UpdateTokens
      <4>5. CASE Carry(t, "finish", NoToken)
        BY <2>24, <4>2, <4>3, <4>5 DEF UpdateTokens
      <4> QED
        BY <3>1, <4>4, <4>5 DEF PersistTokens
    <3>2. CASE Carry(t, "finish", NoToken) /\ UNCHANGED <<row, stored>>
      BY <2>24, <3>2 DEF UpdateTokens
    <3> QED
      BY <2>24, <3>1, <3>2 DEF UpdateTokens
  <2>25. ASSUME NEW t \in Procs, PublishTokens(t) PROVE TypeInv'
    BY <2>25 DEF PublishTokens
  <2>26. ASSUME NEW t \in Procs, DisableInDB(t) PROVE TypeInv'
    BY <2>26 DEF DisableInDB, AfterDisable
  <2>27. ASSUME NEW t \in Procs, InvalidateCache(t) PROVE TypeInv'
    BY <2>27 DEF InvalidateCache
  <2>28. ASSUME NEW t \in Procs, DeleteEntry(t) PROVE TypeInv'
    BY <2>28 DEF DeleteEntry, AfterDisable
  <2>29. ASSUME NEW t \in Procs, AdminChangeRow(t) PROVE TypeInv'
    BY <2>29 DEF AdminChangeRow, Mint
  <2>30. ASSUME NEW t \in Procs, PruneStaleEntries(t) PROVE TypeInv'
    BY <2>30 DEF PruneStaleEntries
  <2>31. ASSUME NEW v \in Tokens, Expire(v) PROVE TypeInv'
    BY <2>31 DEF Expire
  <2>32. CASE UNCHANGED vars
    BY <2>32 DEF vars
  <2> QED
    BY <2>1, <2>2, <2>3, <2>4, <2>5, <2>6, <2>7, <2>8, <2>9, <2>10, <2>11,
       <2>12, <2>13, <2>14, <2>15, <2>16, <2>17, <2>18, <2>19, <2>20, <2>21,
       <2>22, <2>23, <2>24, <2>25, <2>26, <2>27, <2>28, <2>29, <2>30, <2>31,
       <2>32 DEF Next, Load, Environment, Step
<1> QED
  BY <1>1, <1>2, PTL DEF Spec, TypeInv

-----------------------------------------------------------------------------
(* The refresh protocol. *)

\* Where a call holds an entry, and where it holds none; DisableCredential's
\* steps run in either way.
HoldPCs == WaiterPCs \cup
           {"read", "busy", "load", "loading", "store", "reread", "cas", "begin",
            "invalidate", "reload", "reloading", "reget", "exchange", "update",
            "publish", "finish", "release"}
FreePCs == {"idle", "entry", "create", "adminDB", "prune"}

EntriesHeld ==
  \A t \in Procs : /\ pc[t] \in HoldPCs => ent[t] # NoEntry
                   /\ pc[t] \in FreePCs => ent[t] = NoEntry
OwnersBusy   == \A t \in Procs : Owns(t) => cell[ent[t]].busy
WaitersOpen  == \A t \in Procs : pc[t] = "await" => cell[ent[t]].done = "open"
OpenHasOwner ==
  \A e \in Entries : cell[e].done = "open" =>
                       \E u \in Procs : Refreshing(u) /\ ent[u] = e
HeldOrDropped ==
  \A t \in Procs : ent[t] # NoEntry => ent[t] = entry \/ ent[t] \in orphans

\* OneRefresherPerEntry is preserved because owners keep the flag up; a waiter's
\* channel is open, an open channel has an owner; and an entry a call holds is
\* the map's or was dropped.
ProtocolInv ==
  /\ EntriesHeld
  /\ OwnersBusy
  /\ OneRefresherPerEntry
  /\ WaitersOpen
  /\ OpenHasOwner
  /\ HeldOrDropped

LEMMA ProtocolStep ==
  ASSUME TypeOK, ProtocolInv, [Next]_vars
  PROVE  ProtocolInv'
<1> USE ConstantsAssumption DEF TypeOK, Cells, ProtocolInv, EntriesHeld, OwnersBusy,
        OneRefresherPerEntry, WaitersOpen, OpenHasOwner, HeldOrDropped, Owns,
        Refreshing, HoldPCs, FreePCs, OwnerPCs, WaiterPCs, PCs, At, Goto, Carry,
        Return, Quiet, state, calls
<1>1. ASSUME NEW t \in Procs, NEW k \in Ops, Start(t, k) PROVE ProtocolInv'
  BY <1>1 DEF Start
<1>2. ASSUME NEW t \in Procs, StartProactive(t) PROVE ProtocolInv'
  BY <1>2 DEF StartProactive
<1>3. ASSUME NEW t \in Procs, LoadEntry(t) PROVE ProtocolInv'
  BY <1>3 DEF LoadEntry, Hold
<1>4. ASSUME NEW t \in Procs, LoadOrStoreEntry(t) PROVE ProtocolInv'
  <2>1. CASE entry # NoEntry /\ Hold(t, entry) /\ UNCHANGED <<cell, entry, orphans>>
    BY <1>4, <2>1 DEF LoadOrStoreEntry, Hold
  <2>2. CASE entry = NoEntry /\ StoreNewEntry(t)
    <3> PICK e \in FreeEntries :
          /\ cell' = [cell EXCEPT ![e] = [busy |-> FALSE, done |-> "nil"]]
          /\ entry' = e
          /\ orphans' = orphans \ {e}
          /\ Hold(t, e)
      BY <2>2 DEF StoreNewEntry
    <3>1. e \in Entries /\ \A u \in Procs : ent[u] # e
      BY DEF FreeEntries
    <3>2. pc[t] = "create" /\ pc'[t] \in {"read", "cas"} /\ ent'[t] = e
      BY <1>4 DEF LoadOrStoreEntry, Hold
    <3>3. \A u \in Procs \ {t} : pc'[u] = pc[u] /\ ent'[u] = ent[u]
      BY DEF Hold
    <3>4. \A u \in Procs \ {t} : ent[u] # NoEntry => cell'[ent[u]] = cell[ent[u]]
      BY <3>1
    <3>5. /\ EntriesHeld' /\ OwnersBusy' /\ OneRefresherPerEntry' /\ WaitersOpen'
      <4>1. EntriesHeld'
        BY <3>1, <3>2, <3>3
      <4>2. ~Owns(t)' /\ \A u \in Procs \ {t} : Owns(u)' <=> Owns(u)
        BY <3>2, <3>3
      <4>3. OwnersBusy'
        BY <3>3, <3>4, <4>2
      <4>4. OneRefresherPerEntry'
        BY <3>3, <4>2
      <4>5. WaitersOpen'
        BY <3>2, <3>3, <3>4
      <4> QED
        BY <4>1, <4>3, <4>4, <4>5
    <3>6. OpenHasOwner'
      <4> SUFFICES ASSUME NEW a \in Entries, cell'[a].done = "open"
                   PROVE  \E u \in Procs : Refreshing(u)' /\ ent'[u] = a
        OBVIOUS
      <4>1. a # e /\ cell[a].done = "open"
        BY <3>1
      <4>2. PICK u \in Procs : Refreshing(u) /\ ent[u] = a
        BY <4>1
      <4> QED
        BY <3>2, <3>3, <4>2
    <3>7. HeldOrDropped'
      BY <2>2, <3>1, <3>2, <3>3
    <3> QED
      BY <3>5, <3>6, <3>7
  <2> QED
    BY <1>4, <2>1, <2>2 DEF LoadOrStoreEntry
<1>5. ASSUME NEW t \in Procs, ReadCache(t) PROVE ProtocolInv'
  <2>1. CASE Return(t)
    BY <1>5, <2>1 DEF ReadCache
  <2>2. CASE Goto(t, "busy")
    BY <1>5, <2>2 DEF ReadCache
  <2> QED
    BY <1>5, <2>1, <2>2 DEF ReadCache
<1>6. ASSUME NEW t \in Procs, CheckRefreshing(t) PROVE ProtocolInv'
  <2>1. CASE Goto(t, "wait")
    BY <1>6, <2>1 DEF CheckRefreshing
  <2>2. CASE Goto(t, "load")
    BY <1>6, <2>2 DEF CheckRefreshing
  <2> QED
    BY <1>6, <2>1, <2>2 DEF CheckRefreshing
<1>7. ASSUME NEW t \in Procs, StartLoad(t) PROVE ProtocolInv'
  BY <1>7 DEF StartLoad
<1>8. CASE ReadFlight
  BY <1>8 DEF ReadFlight
<1>9. CASE ReturnFlight
  BY <1>9 DEF ReturnFlight
<1>10. ASSUME NEW t \in Procs, StoreLoaded(t) PROVE ProtocolInv'
  BY <1>10 DEF StoreLoaded
<1>11. ASSUME NEW t \in Procs, RereadCache(t) PROVE ProtocolInv'
  <2>1. CASE Return(t)
    BY <1>11, <2>1 DEF RereadCache
  <2>2. CASE Goto(t, "cas")
    BY <1>11, <2>2 DEF RereadCache
  <2> QED
    BY <1>11, <2>1, <2>2 DEF RereadCache
<1>12. ASSUME NEW t \in Procs, WinRefresh(t) PROVE ProtocolInv'
  BY <1>12 DEF WinRefresh
<1>13. ASSUME NEW t \in Procs, LoseRefresh(t) PROVE ProtocolInv'
  <2>1. CASE Return(t)
    BY <1>13, <2>1 DEF LoseRefresh
  <2>2. CASE Goto(t, "wait")
    BY <1>13, <2>2 DEF LoseRefresh
  <2> QED
    BY <1>13, <2>1, <2>2 DEF LoseRefresh
<1>14. ASSUME NEW t \in Procs, BeginRefresh(t) PROVE ProtocolInv'
  BY <1>14 DEF BeginRefresh
<1>15. ASSUME NEW t \in Procs, FinishRefresh(t) PROVE ProtocolInv'
  BY <1>15 DEF FinishRefresh
<1>16. ASSUME NEW t \in Procs, Release(t) PROVE ProtocolInv'
  BY <1>16 DEF Release
<1>17. ASSUME NEW t \in Procs, WaitForRefresh(t) PROVE ProtocolInv'
  <2>1. CASE cell[ent[t]].done = "open" /\ Goto(t, "await")
    BY <1>17, <2>1 DEF WaitForRefresh
  <2>2. CASE cell[ent[t]].done = "closed" /\ Goto(t, "awake")
    BY <1>17, <2>2 DEF WaitForRefresh
  <2> QED
    BY <1>17, <2>1, <2>2 DEF WaitForRefresh
<1>18. ASSUME NEW t \in Procs, ReadAfterRefresh(t) PROVE ProtocolInv'
  BY <1>18 DEF ReadAfterRefresh
<1>19. ASSUME NEW t \in Procs, Cancel(t) PROVE ProtocolInv'
  BY <1>19 DEF Cancel
<1>20. ASSUME NEW t \in Procs, CancelForcedLoad(t) PROVE ProtocolInv'
  BY <1>20 DEF CancelForcedLoad
<1>21. ASSUME NEW t \in Procs, InvalidateForForce(t) PROVE ProtocolInv'
  BY <1>21 DEF InvalidateForForce
<1>22. ASSUME NEW t \in Procs, GetLatest(t) PROVE ProtocolInv'
  <2>1. CASE Goto(t, "exchange")
    BY <1>22, <2>1 DEF GetLatest
  <2>2. CASE Goto(t, "disDB")
    BY <1>22, <2>2 DEF GetLatest
  <2>3. CASE Goto(t, "finish")
    BY <1>22, <2>3 DEF GetLatest
  <2> QED
    BY <1>22, <2>1, <2>2, <2>3 DEF GetLatest
<1>23. ASSUME NEW t \in Procs, RefreshAccessToken(t) PROVE ProtocolInv'
  <2>1. ASSUME NEW v \in Tokens, Carry(t, "update", v) PROVE ProtocolInv'
    BY <1>23, <2>1 DEF RefreshAccessToken
  <2>2. CASE Goto(t, "finish")
    BY <1>23, <2>2 DEF RefreshAccessToken
  <2>3. CASE Goto(t, "disDB")
    BY <1>23, <2>3 DEF RefreshAccessToken
  <2> QED
    BY <1>23, <2>1, <2>2, <2>3 DEF RefreshAccessToken, Exchange
<1>24. ASSUME NEW t \in Procs, UpdateTokens(t) PROVE ProtocolInv'
  <2>1. CASE Goto(t, "publish")
    BY <1>24, <2>1 DEF UpdateTokens
  <2>2. CASE Carry(t, "finish", NoToken)
    BY <1>24, <2>2 DEF UpdateTokens
  <2> QED
    BY <1>24, <2>1, <2>2 DEF UpdateTokens, PersistTokens
<1>25. ASSUME NEW t \in Procs, PublishTokens(t) PROVE ProtocolInv'
  BY <1>25 DEF PublishTokens
<1>26. ASSUME NEW t \in Procs, DisableInDB(t) PROVE ProtocolInv'
  BY <1>26 DEF DisableInDB, AfterDisable
<1>27. ASSUME NEW t \in Procs, InvalidateCache(t) PROVE ProtocolInv'
  BY <1>27 DEF InvalidateCache
<1>28. ASSUME NEW t \in Procs, DeleteEntry(t) PROVE ProtocolInv'
  BY <1>28 DEF DeleteEntry, AfterDisable, DropEntry
<1>29. ASSUME NEW t \in Procs, AdminChangeRow(t) PROVE ProtocolInv'
  BY <1>29 DEF AdminChangeRow
<1>30. ASSUME NEW t \in Procs, PruneStaleEntries(t) PROVE ProtocolInv'
  BY <1>30 DEF PruneStaleEntries
<1>31. ASSUME NEW v \in Tokens, Expire(v) PROVE ProtocolInv'
  BY <1>31 DEF Expire
<1>32. CASE UNCHANGED vars
  BY <1>32 DEF vars
<1> QED
  BY <1>1, <1>2, <1>3, <1>4, <1>5, <1>6, <1>7, <1>8, <1>9, <1>10, <1>11, <1>12,
     <1>13, <1>14, <1>15, <1>16, <1>17, <1>18, <1>19, <1>20, <1>21, <1>22,
     <1>23, <1>24, <1>25, <1>26, <1>27, <1>28, <1>29, <1>30, <1>31, <1>32 DEF
     Next, Load, Environment, Step

LEMMA ProtocolInvariant == Spec => []ProtocolInv
<1>1. Init => ProtocolInv
  BY DEF Init, ProtocolInv, EntriesHeld, OwnersBusy, OneRefresherPerEntry,
         WaitersOpen, OpenHasOwner, HeldOrDropped, Owns, Refreshing, HoldPCs,
         FreePCs, OwnerPCs, WaiterPCs
<1>2. TypeOK /\ ProtocolInv /\ [Next]_vars => ProtocolInv'
  BY ProtocolStep
<1> QED
  BY <1>1, <1>2, TypeCorrect, PTL DEF Spec

\* beginRefresh and finishRefresh are never run by two calls on one entry, so no
\* done channel is closed twice.
THEOREM SingleRefresher == Spec => []OneRefresherPerEntry
<1>1. ProtocolInv => OneRefresherPerEntry
  BY DEF ProtocolInv
<1> QED
  BY <1>1, ProtocolInvariant, PTL

\* waitForNewToken and waitForCachedToken block only on a channel whose owner is
\* still on its way to finishRefresh.
THEOREM NoWaiterLeftBehind == Spec => []NoOrphanWaiter
<1>1. TypeOK /\ ProtocolInv => NoOrphanWaiter
  <2> SUFFICES ASSUME TypeOK, ProtocolInv, NEW t \in Procs, pc[t] = "await"
               PROVE  /\ cell[ent[t]].done = "open"
                      /\ \E u \in Procs : Refreshing(u) /\ ent[u] = ent[t]
    BY DEF NoOrphanWaiter
  <2>1. ent[t] \in Entries
    BY DEF TypeOK, ProtocolInv, EntriesHeld, HoldPCs, WaiterPCs
  <2> QED
    BY <2>1 DEF ProtocolInv, WaitersOpen, OpenHasOwner
<1> QED
  BY <1>1, TypeCorrect, ProtocolInvariant, PTL

\* Two calls of one credential exchange its refresh token at once only after an
\* entry was dropped from the map while a call held it.
THEOREM ConcurrentRefreshAfterDrop == Spec => []ConcurrentRefreshNeedsDrop
<1>1. ProtocolInv => ConcurrentRefreshNeedsDrop
  BY DEF ProtocolInv, HeldOrDropped, OneRefresherPerEntry,
         ConcurrentRefreshNeedsDrop, Refreshing, Owns
<1> QED
  BY <1>1, ProtocolInvariant, PTL

-----------------------------------------------------------------------------
(* What the cache may hold. *)

\* Tokens on their way into the cache come from the row, by the load in flight,
\* by the call that carries them, or by a refresh that persisted them.
PersistInv ==
  /\ CacheWasPersisted
  /\ row.tok \in stored
  /\ flight.tok \in stored \cup {NoToken}
  /\ \A t \in Procs : pc[t] # "update" => tok[t] \in stored \cup {NoToken}

LEMMA PersistStep ==
  ASSUME TypeOK, PersistInv, [Next]_vars
  PROVE  PersistInv'
<1> USE ConstantsAssumption DEF TypeOK, PersistInv, CacheWasPersisted, Tokens,
        At, Goto, Carry, Return, Quiet, WriteCache, state, calls
<1>1. ASSUME NEW t \in Procs, NEW k \in Ops, Start(t, k) PROVE PersistInv'
  BY <1>1 DEF Start
<1>2. ASSUME NEW t \in Procs, StartProactive(t) PROVE PersistInv'
  BY <1>2 DEF StartProactive
<1>3. ASSUME NEW t \in Procs, LoadEntry(t) PROVE PersistInv'
  BY <1>3 DEF LoadEntry, Hold
<1>4. ASSUME NEW t \in Procs, LoadOrStoreEntry(t) PROVE PersistInv'
  BY <1>4 DEF LoadOrStoreEntry, StoreNewEntry, Hold
<1>5. ASSUME NEW t \in Procs, ReadCache(t) PROVE PersistInv'
  BY <1>5 DEF ReadCache
<1>6. ASSUME NEW t \in Procs, CheckRefreshing(t) PROVE PersistInv'
  BY <1>6 DEF CheckRefreshing
<1>7. ASSUME NEW t \in Procs, StartLoad(t) PROVE PersistInv'
  BY <1>7 DEF StartLoad
<1>8. CASE ReadFlight
  BY <1>8 DEF ReadFlight, NoFlight
<1>9. CASE ReturnFlight
  BY <1>9 DEF ReturnFlight, NoFlight
<1>10. ASSUME NEW t \in Procs, StoreLoaded(t) PROVE PersistInv'
  BY <1>10 DEF StoreLoaded
<1>11. ASSUME NEW t \in Procs, RereadCache(t) PROVE PersistInv'
  BY <1>11 DEF RereadCache
<1>12. ASSUME NEW t \in Procs, WinRefresh(t) PROVE PersistInv'
  BY <1>12 DEF WinRefresh
<1>13. ASSUME NEW t \in Procs, LoseRefresh(t) PROVE PersistInv'
  BY <1>13 DEF LoseRefresh
<1>14. ASSUME NEW t \in Procs, BeginRefresh(t) PROVE PersistInv'
  BY <1>14 DEF BeginRefresh
<1>15. ASSUME NEW t \in Procs, FinishRefresh(t) PROVE PersistInv'
  BY <1>15 DEF FinishRefresh
<1>16. ASSUME NEW t \in Procs, Release(t) PROVE PersistInv'
  BY <1>16 DEF Release
<1>17. ASSUME NEW t \in Procs, WaitForRefresh(t) PROVE PersistInv'
  BY <1>17 DEF WaitForRefresh
<1>18. ASSUME NEW t \in Procs, ReadAfterRefresh(t) PROVE PersistInv'
  BY <1>18 DEF ReadAfterRefresh
<1>19. ASSUME NEW t \in Procs, Cancel(t) PROVE PersistInv'
  BY <1>19 DEF Cancel
<1>20. ASSUME NEW t \in Procs, CancelForcedLoad(t) PROVE PersistInv'
  BY <1>20 DEF CancelForcedLoad
<1>21. ASSUME NEW t \in Procs, InvalidateForForce(t) PROVE PersistInv'
  BY <1>21 DEF InvalidateForForce
<1>22. ASSUME NEW t \in Procs, GetLatest(t) PROVE PersistInv'
  BY <1>22 DEF GetLatest
<1>23. ASSUME NEW t \in Procs, RefreshAccessToken(t) PROVE PersistInv'
  BY <1>23 DEF RefreshAccessToken, Exchange
<1>24. ASSUME NEW t \in Procs, UpdateTokens(t) PROVE PersistInv'
  BY <1>24 DEF UpdateTokens, PersistTokens
<1>25. ASSUME NEW t \in Procs, PublishTokens(t) PROVE PersistInv'
  BY <1>25 DEF PublishTokens
<1>26. ASSUME NEW t \in Procs, DisableInDB(t) PROVE PersistInv'
  BY <1>26 DEF DisableInDB, AfterDisable
<1>27. ASSUME NEW t \in Procs, InvalidateCache(t) PROVE PersistInv'
  BY <1>27 DEF InvalidateCache
<1>28. ASSUME NEW t \in Procs, DeleteEntry(t) PROVE PersistInv'
  BY <1>28 DEF DeleteEntry, AfterDisable
<1>29. ASSUME NEW t \in Procs, AdminChangeRow(t) PROVE PersistInv'
  BY <1>29 DEF AdminChangeRow
<1>30. ASSUME NEW t \in Procs, PruneStaleEntries(t) PROVE PersistInv'
  BY <1>30 DEF PruneStaleEntries
<1>31. ASSUME NEW v \in Tokens, Expire(v) PROVE PersistInv'
  BY <1>31 DEF Expire
<1>32. CASE UNCHANGED vars
  BY <1>32 DEF vars
<1> QED
  BY <1>1, <1>2, <1>3, <1>4, <1>5, <1>6, <1>7, <1>8, <1>9, <1>10, <1>11, <1>12,
     <1>13, <1>14, <1>15, <1>16, <1>17, <1>18, <1>19, <1>20, <1>21, <1>22,
     <1>23, <1>24, <1>25, <1>26, <1>27, <1>28, <1>29, <1>30, <1>31, <1>32 DEF
     Next, Load, Environment, Step

LEMMA PersistInvariant == Spec => []PersistInv
<1>1. Init => PersistInv
  BY DEF Init, PersistInv, CacheWasPersisted, NoFlight
<1>2. TypeOK /\ PersistInv /\ [Next]_vars => PersistInv'
  BY PersistStep
<1> QED
  BY <1>1, <1>2, TypeCorrect, PTL DEF Spec

\* A token is served, from the cache or to the call that refreshed it, only after
\* UpdateCodexTokens stored it (refreshAndWriteBack's order).
THEOREM ServedTokensPersisted == Spec => []CacheWasPersisted
<1>1. PersistInv => CacheWasPersisted
  BY DEF PersistInv
<1> QED
  BY <1>1, PersistInvariant, PTL

=============================================================================
