---------------------------- MODULE TokenManager ----------------------------
(***************************************************************************)
(* The access-token manager of the Codex pool (core/codex/manager.go and   *)
(* cache.go) for ONE credential: credentials share nothing in it but a     *)
(* semaphore of 16 slots, which a handful of calls never fills.            *)
(*                                                                         *)
(* Calls (goroutines of requests, of the cache's expiry callback, of the   *)
(* scheduler and of the admin handlers) interleave between every access to *)
(* shared memory: the coordination entries (a sync.Map of CodexEntry), the *)
(* otter cache, the singleflight database load, the credential's row.      *)
(*                                                                         *)
(* A token is its version, in the order the provider minted them.  Which   *)
(* error a call returns is not modelled: a call that fails holds NoToken.  *)
(***************************************************************************)
EXTENDS Integers, FiniteSets

CONSTANTS Procs,    (* calls in progress at once                            *)
          Entries,  (* addresses of CodexEntry objects; reused once garbage *)
          NoEntry,  (* the nil entry                                        *)
          Ops,      (* the operations started from outside in this instance *)
          MaxToken, (* bound: tokens minted in a behaviour                  *)
          MaxDue    (* bound: proactive refreshes spawned and not started   *)

ASSUME ConstantsAssumption ==
  /\ NoEntry \notin Entries
  /\ MaxToken \in Nat \ {0} /\ MaxDue \in Nat
  /\ Ops \subseteq {"cached", "forced", "disable", "admin", "prune"}

NoToken == 0
Tokens  == 1 .. MaxToken

VARIABLES
  row,      (* the credential's row in the database                         *)
  minted,   (* the latest version the provider minted                       *)
  fresh,    (* the versions still RefreshBefore or more from their expiry   *)
  blank,    (* the versions whose access token the provider left out        *)
  cache,    (* the otter cache: a version, or NoToken                       *)
  entry,    (* the entry the sync.Map holds for the credential              *)
  cell,     (* for each address, the entry's refreshing flag and done chan  *)
  flight,   (* the singleflight load of the row                             *)
  due,      (* proactive refreshes the cache's expiry callback has spawned  *)
  pc, kind, ent, tok  (* of each call: where it stands, which operation it  *)
                      (* is, the entry it holds, the token it carries       *)

\* History, read by properties only.
VARIABLES
  stored,   (* versions the row has ever held                               *)
  orphans   (* entries dropped from the map while a call held them          *)

state == <<row, minted, fresh, blank, cache, entry, cell, flight, due>>
calls == <<pc, kind, ent, tok>>
vars  == <<state, calls, stored, orphans>>

Statuses == {"enabled", "disabled", "absent"}
Kinds    == {"cached", "forced", "proactive", "disable", "admin", "prune"}

\* Where the call that won the compare-and-swap may stand until it stores false.
OwnerPCs  == {"begin", "invalidate", "reload", "reloading", "reget",
              "exchange", "update", "publish", "disDB", "disCache", "disEntry",
              "finish"}
WaiterPCs == {"wait", "await", "awake"}
PCs == OwnerPCs \cup WaiterPCs \cup
       {"idle", "entry", "create", "read", "busy", "load", "loading", "store",
        "reread", "cas", "release", "adminDB", "prune"}

\* The refresh owners: `release` is between close(done) and refreshing.Store(false).
Owns(t)       == ent[t] # NoEntry /\ pc[t] \in OwnerPCs \cup {"release"}
Refreshing(t) == ent[t] # NoEntry /\ pc[t] \in OwnerPCs

Cells == [busy : BOOLEAN, done : {"nil", "open", "closed"}]

TypeOK ==
  /\ row \in [status : Statuses, tok : Tokens]
  /\ minted \in Tokens
  /\ fresh \subseteq Tokens /\ blank \subseteq Tokens
  /\ cache \in 0 .. MaxToken
  /\ entry \in Entries \cup {NoEntry}
  /\ cell \in [Entries -> Cells]
  /\ flight \in [st : {"none", "open", "read"},
                 status : Statuses, tok : 0 .. MaxToken]
  /\ due \in 0 .. MaxDue
  /\ pc \in [Procs -> PCs]
  /\ kind \in [Procs -> Kinds]
  /\ ent \in [Procs -> Entries \cup {NoEntry}]
  /\ tok \in [Procs -> 0 .. MaxToken]
  /\ stored \subseteq Tokens
  /\ orphans \subseteq Entries

NoFlight == [st |-> "none", status |-> "absent", tok |-> NoToken]

Init ==
  /\ \E s \in {"enabled", "disabled"} : row = [status |-> s, tok |-> 1]
  /\ minted = 1
  /\ fresh \in {{}, {1}} /\ blank = {}
  /\ cache = NoToken
  /\ entry = NoEntry
  /\ cell = [e \in Entries |-> [busy |-> FALSE, done |-> "nil"]]
  /\ flight = NoFlight
  /\ due = 0
  /\ pc = [t \in Procs |-> "idle"]
  /\ kind = [t \in Procs |-> "cached"]
  /\ ent = [t \in Procs |-> NoEntry]
  /\ tok = [t \in Procs |-> NoToken]
  /\ stored = {1}
  /\ orphans = {}

-----------------------------------------------------------------------------
(* Steps of a call: control only, control with a token, and the return. *)

At(t, here)        == pc[t] = here
Goto(t, next)      == /\ pc' = [pc EXCEPT ![t] = next]
                      /\ UNCHANGED <<kind, ent, tok>>
Carry(t, next, v)  == /\ pc' = [pc EXCEPT ![t] = next]
                      /\ tok' = [tok EXCEPT ![t] = v]
                      /\ UNCHANGED <<kind, ent>>
\* The call ends: what it carried and what it was no longer matter.
Return(t)          == /\ pc' = [pc EXCEPT ![t] = "idle"]
                      /\ tok' = [tok EXCEPT ![t] = NoToken]
                      /\ ent' = [ent EXCEPT ![t] = NoEntry]
                      /\ kind' = [kind EXCEPT ![t] = "cached"]
Quiet == UNCHANGED <<stored, orphans>>

\* writeCache: Set and SetExpiresAfter, skipped when no lifetime is left.
WriteCache(v) == cache' = IF v \in fresh THEN v ELSE cache

\* m.entries.Delete(id): whichever entry the map holds is dropped.
DropEntry ==
  /\ entry' = NoEntry
  /\ orphans' = IF \E t \in Procs : ent[t] = entry /\ entry # NoEntry
                  THEN orphans \cup {entry} ELSE orphans

\* A call starts: AccessToken in either mode, or DisableCredential, or a change
\* the admin handlers make to the row.
Start(t, k) ==
  /\ At(t, "idle")
  /\ kind' = [kind EXCEPT ![t] = k]
  /\ pc' = [pc EXCEPT ![t] = CASE k = "disable" -> "disDB"
                                [] k = "admin"  -> "adminDB"
                                [] k = "prune"  -> "prune"
                                [] OTHER        -> "entry"]
  /\ UNCHANGED <<state, ent, tok>>
  /\ Quiet

\* enqueueProactiveRefresh's goroutine starts.
StartProactive(t) ==
  /\ At(t, "idle")
  /\ due > 0
  /\ due' = due - 1
  /\ kind' = [kind EXCEPT ![t] = "proactive"]
  /\ pc' = [pc EXCEPT ![t] = "entry"]
  /\ UNCHANGED <<row, minted, fresh, blank, cache, entry, cell, flight, ent, tok>>
  /\ Quiet

-----------------------------------------------------------------------------
(* entry(id): Load, then LoadOrStore. *)

\* The calls on the request path read the cache first, the refreshers do not.
Hold(t, e) ==
  /\ ent' = [ent EXCEPT ![t] = e]
  /\ pc' = [pc EXCEPT ![t] = IF kind[t] = "cached" THEN "read" ELSE "cas"]

LoadEntry(t) ==
  /\ At(t, "entry")
  /\ IF entry # NoEntry THEN Hold(t, entry)
     ELSE pc' = [pc EXCEPT ![t] = "create"] /\ UNCHANGED ent
  /\ UNCHANGED <<state, kind, tok>>
  /\ Quiet

\* An address no call holds and the map does not hold is free to be reused.
FreeEntries == Entries \ ({entry} \cup {ent[u] : u \in Procs})

StoreNewEntry(t) ==
  \E e \in FreeEntries :
    /\ cell' = [cell EXCEPT ![e] = [busy |-> FALSE, done |-> "nil"]]
    /\ entry' = e
    /\ orphans' = orphans \ {e}
    /\ Hold(t, e)

\* Mutant: entries.Store instead of LoadOrStore.
StoreEntryBlindly(t) ==
  /\ At(t, "create")
  /\ StoreNewEntry(t)
  /\ UNCHANGED <<row, minted, fresh, blank, cache, flight, due, kind, tok, stored>>

LoadOrStoreEntry(t) ==
  /\ At(t, "create")
  /\ \/ /\ entry # NoEntry
        /\ Hold(t, entry)
        /\ UNCHANGED <<cell, entry, orphans>>
     \/ /\ entry = NoEntry
        /\ StoreNewEntry(t)
  /\ UNCHANGED <<row, minted, fresh, blank, cache, flight, due, kind, tok,
                 stored>>

-----------------------------------------------------------------------------
(* cachedAccessToken *)

ReadCache(t) ==
  /\ At(t, "read")
  /\ IF cache # NoToken THEN Return(t) ELSE Goto(t, "busy")
  /\ UNCHANGED state
  /\ Quiet

CheckRefreshing(t) ==
  /\ At(t, "busy")
  /\ Goto(t, IF cell[ent[t]].busy THEN "wait" ELSE "load")
  /\ UNCHANGED state
  /\ Quiet

\* loadCodex: DoChan joins the load in flight or starts one.
StartLoad(t) ==
  /\ \/ At(t, "load") /\ Goto(t, "loading")
     \/ At(t, "reload") /\ Goto(t, "reloading")
  /\ flight' = IF flight.st = "none" THEN [flight EXCEPT !.st = "open"] ELSE flight
  /\ UNCHANGED <<row, minted, fresh, blank, cache, entry, cell, due>>
  /\ Quiet

\* The load's own goroutine reads the row; a failed read is an absent row.
ReadFlight ==
  /\ flight.st = "open"
  /\ \/ flight' = [st |-> "read", status |-> row.status, tok |-> row.tok]
     \/ flight' = [NoFlight EXCEPT !.st = "read"]
  /\ UNCHANGED <<row, minted, fresh, blank, cache, entry, cell, due, calls>>
  /\ Quiet

\* Every call that joined gets the same result; ensureCredentialEnabled is
\* applied on the request path, and by refreshAndWriteBack on the forced one.
ReturnFlight ==
  /\ flight.st = "read"
  /\ LET usable == flight.status = "enabled"
         found  == flight.status # "absent"
         \* A load the request path gave up on returns to no one.
         joined == {t \in Procs : pc[t] = "loading"}
         forced == {t \in Procs : pc[t] = "reloading"}
     IN /\ pc' = [t \in Procs |->
                    IF t \in joined THEN IF usable THEN "store" ELSE "idle"
                    ELSE IF t \in forced THEN IF found THEN "reget" ELSE "finish"
                    ELSE pc[t]]
        /\ tok' = [t \in Procs |-> IF t \in joined /\ usable THEN flight.tok ELSE tok[t]]
        /\ ent' = [t \in Procs |-> IF t \in joined /\ ~usable THEN NoEntry ELSE ent[t]]
        /\ kind' = [t \in Procs |-> IF t \in joined /\ ~usable THEN "cached" ELSE kind[t]]
  /\ flight' = NoFlight
  /\ UNCHANGED <<row, minted, fresh, blank, cache, entry, cell, due>>
  /\ Quiet

StoreLoaded(t) ==
  /\ At(t, "store")
  /\ WriteCache(tok[t])
  /\ Carry(t, "reread", NoToken)
  /\ UNCHANGED <<row, minted, fresh, blank, entry, cell, flight, due>>
  /\ Quiet

RereadCache(t) ==
  /\ At(t, "reread")
  /\ IF cache # NoToken THEN Return(t) ELSE Goto(t, "cas")
  /\ UNCHANGED state
  /\ Quiet

-----------------------------------------------------------------------------
(* The right to refresh, and the waits for whoever has it. *)

\* Mutant: refreshing.Load and refreshing.Store instead of CompareAndSwap.
WinRefreshUnchecked(t) ==
  /\ At(t, "cas")
  /\ cell' = [cell EXCEPT ![ent[t]].busy = TRUE]
  /\ Goto(t, "begin")
  /\ UNCHANGED <<row, minted, fresh, blank, cache, entry, flight, due>>
  /\ Quiet

WinRefresh(t) ==
  /\ At(t, "cas")
  /\ ~cell[ent[t]].busy
  /\ cell' = [cell EXCEPT ![ent[t]].busy = TRUE]
  /\ Goto(t, "begin")
  /\ UNCHANGED <<row, minted, fresh, blank, cache, entry, flight, due>>
  /\ Quiet

LoseRefresh(t) ==
  /\ At(t, "cas")
  /\ cell[ent[t]].busy
  /\ IF kind[t] = "proactive" THEN Return(t) ELSE Goto(t, "wait")
  /\ UNCHANGED state
  /\ Quiet

\* beginRefresh makes a new channel.
BeginRefresh(t) ==
  /\ At(t, "begin")
  /\ cell' = [cell EXCEPT ![ent[t]].done = "open"]
  /\ Goto(t, IF kind[t] = "forced" THEN "invalidate" ELSE "reget")
  /\ UNCHANGED <<row, minted, fresh, blank, cache, entry, flight, due>>
  /\ Quiet

\* Mutant: only a refresh that succeeded closes the channel.
FinishRefreshOnSuccess(t) ==
  /\ At(t, "finish")
  /\ LET done == tok[t] # NoToken
     IN /\ cell' = IF done THEN [cell EXCEPT ![ent[t]].done = "closed"] ELSE cell
        /\ pc' = [u \in Procs |->
                    IF u = t THEN "release"
                    ELSE IF done /\ pc[u] = "await" /\ ent[u] = ent[t]
                      THEN "awake" ELSE pc[u]]
  /\ UNCHANGED <<row, minted, fresh, blank, cache, entry, flight, due,
                 kind, ent, tok, stored, orphans>>

\* finishRefresh closes it: everyone blocked on it wakes up.
FinishRefresh(t) ==
  /\ At(t, "finish")
  /\ cell' = [cell EXCEPT ![ent[t]].done = "closed"]
  /\ pc' = [u \in Procs |->
              IF u = t THEN "release"
              ELSE IF pc[u] = "await" /\ ent[u] = ent[t] THEN "awake" ELSE pc[u]]
  /\ UNCHANGED <<row, minted, fresh, blank, cache, entry, flight, due,
                 kind, ent, tok, stored, orphans>>

Release(t) ==
  /\ At(t, "release")
  /\ cell' = [cell EXCEPT ![ent[t]].busy = FALSE]
  /\ Return(t)
  /\ UNCHANGED <<row, minted, fresh, blank, cache, entry, flight, due>>
  /\ Quiet

\* refreshState: no channel yet, sleep a millisecond and look again; a closed
\* one is received from at once; an open one blocks.
WaitForRefresh(t) ==
  /\ At(t, "wait")
  /\ \/ cell[ent[t]].done = "open" /\ Goto(t, "await")
     \/ cell[ent[t]].done = "closed" /\ Goto(t, "awake")
  /\ UNCHANGED state
  /\ Quiet

ReadAfterRefresh(t) ==
  /\ At(t, "awake")
  /\ Return(t)
  /\ UNCHANGED state
  /\ Quiet

\* The caller's context ends while its call waits.
Cancel(t) ==
  /\ pc[t] \in {"loading", "wait", "await"}
  /\ Return(t)
  /\ UNCHANGED state
  /\ Quiet

CancelForcedLoad(t) ==
  /\ At(t, "reloading")
  /\ Goto(t, "finish")
  /\ UNCHANGED state
  /\ Quiet

-----------------------------------------------------------------------------
(* forceRefreshCredential, proactiveRefresh, refreshAndWriteBack *)

InvalidateForForce(t) ==
  /\ At(t, "invalidate")
  /\ cache' = NoToken
  /\ Goto(t, "reload")
  /\ UNCHANGED <<row, minted, fresh, blank, entry, cell, flight, due>>
  /\ Quiet

\* GetCodex, the status test, the refresh-token test: an error or a row that is
\* not enabled ends the refresh, a row without a refresh token (they may be
\* imported so) disables the credential.  proactiveRefresh runs the same read
\* and test once more before; reading twice changes nothing for anyone else.
GetLatest(t) ==
  /\ At(t, "reget")
  /\ \/ row.status = "enabled" /\ Goto(t, "exchange")
     \/ row.status = "enabled" /\ Goto(t, "disDB")
     \/ Goto(t, "finish")
  /\ UNCHANGED state
  /\ Quiet

\* The provider mints a token, with a lifetime that may already be too short, or
\* without an access token, which api/codex/refresh.go:60 does not look at; or
\* fails in a way worth retrying; or rejects the refresh token (or sends no new
\* one), which disables the credential.
Mint(v) ==
  /\ minted < MaxToken
  /\ v = minted + 1
  /\ minted' = v
  /\ fresh' \in {fresh, fresh \cup {v}}

Exchange(t) ==
  \E v \in Tokens : /\ Mint(v) /\ Carry(t, "update", v)
                    /\ blank' \in {blank, blank \cup {v}}

\* Mutant: the error of RefreshAccessToken is dropped.
ExchangeNoError(t) ==
  /\ At(t, "exchange")
  /\ \/ Exchange(t)
     \/ Goto(t, "update") /\ UNCHANGED <<minted, fresh, blank>>
  /\ UNCHANGED <<row, cache, entry, cell, flight, due>>
  /\ Quiet

RefreshAccessToken(t) ==
  /\ At(t, "exchange")
  /\ \/ Exchange(t)
     \/ Goto(t, "finish") /\ UNCHANGED <<minted, fresh, blank>>
     \/ Goto(t, "disDB") /\ UNCHANGED <<minted, fresh, blank>>
  /\ UNCHANGED <<row, cache, entry, cell, flight, due>>
  /\ Quiet

\* UpdateCodexTokens sets status enabled whatever the row's status has become.
\* That there is no access token is an error only after it has been stored: the
\* call ends, and the row keeps what it was given.
PersistTokens(t) ==
  /\ row.status # "absent"
  /\ row' = [status |-> "enabled", tok |-> tok[t]]
  /\ stored' = stored \cup {tok[t]}
  /\ \/ tok[t] \notin blank /\ Goto(t, "publish")
     \/ tok[t] \in blank /\ Carry(t, "finish", NoToken)

\* Mutant: the error of UpdateCodexTokens is dropped.
UpdateTokensNoError(t) ==
  /\ At(t, "update")
  /\ \/ PersistTokens(t)
     \/ Goto(t, "publish") /\ UNCHANGED <<row, stored>>
  /\ UNCHANGED <<minted, fresh, blank, cache, entry, cell, flight, due, orphans>>

UpdateTokens(t) ==
  /\ At(t, "update")
  /\ \/ PersistTokens(t)
     \/ Carry(t, "finish", NoToken) /\ UNCHANGED <<row, stored>>
  /\ UNCHANGED <<minted, fresh, blank, cache, entry, cell, flight, due,
                 orphans>>

PublishTokens(t) ==
  /\ At(t, "publish")
  /\ WriteCache(tok[t])
  /\ Goto(t, "finish")
  /\ UNCHANGED <<row, minted, fresh, blank, entry, cell, flight, due>>
  /\ Quiet

-----------------------------------------------------------------------------
(* DisableCredential, by the scheduler (ent = NoEntry) or by the owner of a *)
(* refresh; InvalidateCredential is its second half.                        *)

AfterDisable(t) == IF ent[t] = NoEntry THEN Return(t) ELSE Goto(t, "finish")

DisableInDB(t) ==
  /\ At(t, "disDB")
  /\ \/ /\ row' = IF row.status = "absent" THEN row ELSE [row EXCEPT !.status = "disabled"]
        /\ Goto(t, "disCache")
     \/ /\ AfterDisable(t)
        /\ UNCHANGED row
  /\ UNCHANGED <<minted, fresh, blank, cache, entry, cell, flight, due>>
  /\ Quiet

InvalidateCache(t) ==
  /\ At(t, "disCache")
  /\ cache' = NoToken
  /\ Goto(t, "disEntry")
  /\ UNCHANGED <<row, minted, fresh, blank, entry, cell, flight, due>>
  /\ Quiet

DeleteEntry(t) ==
  /\ At(t, "disEntry")
  /\ DropEntry
  /\ AfterDisable(t)
  /\ UNCHANGED <<row, minted, fresh, blank, cache, cell, flight, due, stored>>

\* The admin handlers change the row, then call InvalidateCredential: batch
\* enable and disable, batch delete, import of (new) tokens.  A row that is not
\* there (or a database error) ends it.
AdminChangeRow(t) ==
  /\ At(t, "adminDB")
  /\ \/ /\ row.status # "absent"
        /\ \E s \in Statuses : row' = [row EXCEPT !.status = s]
        /\ Goto(t, "disCache")
        /\ UNCHANGED <<minted, fresh, stored>>
     \/ \E v \in Tokens :
          /\ Mint(v)
          /\ row' = [status |-> "enabled", tok |-> v]
          /\ stored' = stored \cup {v}
          /\ Goto(t, "disCache")
     \/ Return(t) /\ UNCHANGED <<row, minted, fresh, stored>>
  /\ UNCHANGED <<blank, cache, entry, cell, flight, due, orphans>>

-----------------------------------------------------------------------------
(* Time and housekeeping *)

\* A token comes within RefreshBefore of its expiry: the cache drops it and
\* the deletion callback spawns a proactive refresh.
Expire(v) ==
  /\ v \in fresh
  /\ cache = v => due < MaxDue
  /\ fresh' = fresh \ {v}
  /\ IF cache = v THEN cache' = NoToken /\ due' = due + 1
                  ELSE UNCHANGED <<cache, due>>
  /\ UNCHANGED <<row, minted, blank, entry, cell, flight, calls>>
  /\ Quiet

\* PruneStaleEntries tests an entry (uncached, not refreshing, and idle for
\* five minutes, longer than any call holds one), then deletes by key.
PruneStaleEntries(t) ==
  /\ At(t, "prune")
  /\ IF /\ entry # NoEntry
        /\ cache = NoToken
        /\ ~cell[entry].busy
        /\ \A u \in Procs : ent[u] # entry
     THEN Goto(t, "disEntry")
     ELSE Return(t)
  /\ UNCHANGED state
  /\ Quiet

-----------------------------------------------------------------------------
Step(t) ==
  \/ LoadEntry(t) \/ LoadOrStoreEntry(t)
  \/ ReadCache(t) \/ CheckRefreshing(t) \/ StartLoad(t) \/ StoreLoaded(t)
  \/ RereadCache(t) \/ WinRefresh(t) \/ LoseRefresh(t) \/ BeginRefresh(t)
  \/ FinishRefresh(t) \/ Release(t) \/ WaitForRefresh(t) \/ ReadAfterRefresh(t)
  \/ InvalidateForForce(t) \/ GetLatest(t)
  \/ RefreshAccessToken(t) \/ UpdateTokens(t) \/ PublishTokens(t)
  \/ DisableInDB(t) \/ InvalidateCache(t) \/ DeleteEntry(t) \/ AdminChangeRow(t)
  \/ PruneStaleEntries(t)

Load == ReadFlight \/ ReturnFlight

Environment ==
  \/ \E t \in Procs : StartProactive(t) \/ Cancel(t) \/ CancelForcedLoad(t)
                        \/ \E k \in Ops : Start(t, k)
  \/ \E v \in Tokens : Expire(v)

Next == Load \/ Environment \/ \E t \in Procs : Step(t)

Spec == Init /\ [][Next]_vars

\* Goroutines are scheduled, and the two calls that leave the process are
\* bounded: the load by its own 20 s context, the exchange by the refresh
\* context (refreshContext), the store by its driver.
FairSpec == Spec /\ WF_vars(Load) /\ \A t \in Procs : WF_vars(Step(t))

-----------------------------------------------------------------------------
(* Properties *)

\* The compare-and-swap on `refreshing` and the deferred finishRefresh/Store:
\* one entry never has two refreshers, so one done channel never has two closers
\* (a second close panics).
OneRefresherPerEntry ==
  \A t, u \in Procs : Owns(t) /\ Owns(u) /\ ent[t] = ent[u] => t = u

\* Two calls exchange the credential's refresh token at once only when
\* DisableCredential, InvalidateCredential or PruneStaleEntries dropped the
\* entry of one of them from the map under it (entry's LoadOrStore).
ConcurrentRefreshNeedsDrop ==
  \A t, u \in Procs :
    Refreshing(t) /\ Refreshing(u) /\ t # u =>
      ent[t] \in orphans \/ ent[u] \in orphans

\* A call blocked on done has an owner that will close that very channel: no
\* finishRefresh and no dropped entry leaves a waiter behind.
NoOrphanWaiter ==
  \A t \in Procs :
    pc[t] = "await" =>
      /\ cell[ent[t]].done = "open"
      /\ \E u \in Procs : Refreshing(u) /\ ent[u] = ent[t]

\* refreshAndWriteBack persists before it publishes: the cache never serves a
\* token the database has not held, so a restart finds every token served.
CacheWasPersisted ==
  /\ cache # NoToken => cache \in stored
  /\ \A t \in Procs : 
       pc[t] \in {"publish", "finish", "release"} => tok[t] \in stored \cup {NoToken}

\* No call is stuck: not in the millisecond loop for a channel to appear, not
\* on a channel, not on the shared load.
EveryCallReturns == \A t \in Procs : pc[t] # "idle" ~> pc[t] = "idle"

\* What the code's comments say, and the interleavings refute.

\* manager.go:204, DisableCredential "sets the credential's status to disabled":
\* it stays so until an admin says otherwise.  A refresh that read the row before
\* writes status enabled after (UpdateTokens).
DisabledStaysDisabled ==
  [][row.status = "disabled" /\ row'.status = "enabled"
       => \E t \in Procs : pc[t] = "adminDB"]_vars

=============================================================================
