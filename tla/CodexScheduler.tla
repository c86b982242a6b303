--------------------------- MODULE CodexScheduler ---------------------------
(***************************************************************************)
(* The credential pool of the Codex scheduler (core/codex/scheduler.go):   *)
(* an atomic snapshot of the selectable credentials, rebuilt from the      *)
(* database, edited by events of requests in flight and by goroutines that *)
(* probe and validate credentials.                                         *)
(*                                                                         *)
(* Two disciplines write the snapshot: compare-and-swap loops (one step    *)
(* here: a retry recomputes from the value it finds) and Load ... Store    *)
(* pairs, some of them under mu, that swap in whatever they computed.      *)
(*                                                                         *)
(* Per tier a score is abstracted to `up` (not negative), a quota to       *)
(* `live`, an error-rate weight to `fair` (positive), time to a clock.     *)
(* Plan types and the order among positive scores are left out.            *)
(***************************************************************************)
EXTENDS Integers, FiniteSets

CONSTANTS Procs,     (* goroutines in progress at once                       *)
          Creds, Tiers,
          None,      (* nil: no snapshot, no flight, no argument             *)
          Ops,       (* the operations started from outside in this instance *)
          LogStore,  (* whether SetLogStore was called                       *)
          DBFails,   (* whether database calls may fail                      *)
          SemLimit,  (* slots of quotaRefreshSem                             *)
          Threshold, (* ConsecutiveFailureThrottleThreshold                  *)
          MaxClock   (* bound: the last instant of a behaviour               *)

AllOps == {"fail", "success", "unauth", "reject", "queue", "update", "sync",
           "refresh", "select", "admin"}

ASSUME ConstantsAssumption ==
  /\ None \notin Procs \cup Creds \cup Tiers
  /\ Ops \subseteq AllOps
  /\ LogStore \in BOOLEAN /\ DBFails \in BOOLEAN
  /\ SemLimit \in Nat /\ Threshold \in Nat \ {0} /\ MaxClock \in Nat

VARIABLES
  clock,    (* the time                                                      *)
  db,       (* the codex and codex_quota rows                                *)
  logs,     (* of the requests in a slot's window: none, only bad, some good *)
  avail,    (* available: nil or the snapshot, rows by credential            *)
  throttle, (* consecutive failures and until, by credential and tier        *)
  checking, (* credentials under validation                                  *)
  probing,  (* quotaRefreshing: slots a quota probe is running for           *)
  sem,      (* slots of quotaRefreshSem taken                                *)
  flight,   (* the goroutine running refreshGroup's function                 *)
  spawned,  (* goroutines started with `go` that have not run yet            *)
  me        (* each goroutine in progress: program counter and locals        *)

\* History, read by properties only.
VARIABLE
  missed    (* for each rebuild in progress, the credentials put under         *)
            (* validation or throttled since it looked                         *)

memory == <<throttle, checking, probing, sem>>
vars   == <<clock, db, logs, avail, memory, flight, spawned, me, missed>>

Times   == 0 .. MaxClock + 1      \* 0 is the zero time.Time
NoState == [n |-> 0, until |-> 0]
NoQuota == [t \in Tiers |-> "missing"]
Quotas  == [Tiers -> {"live", "dead", "missing"}]

Slots     == [live : BOOLEAN, up : BOOLEAN, until : Times, fair : BOOLEAN]
Rows      == [Tiers -> Slots]
Snapshots == UNION {[C -> Rows] : C \in SUBSET Creds}
CredRows  == [on : BOOLEAN, synced : BOOLEAN, live : [Tiers -> BOOLEAN],
              until : [Tiers -> Times]]
Jobs      == [op : {"wake", "probe", "validate", "import"}, c : Creds,
              t : Tiers \cup {None}, at : Times]

PCs == {"idle",
        "refresh", "join", "list", "build", "merge", "store", "clear",
        "evict", "evictStore", "suspend", "suspendStore",
        "throttle", "throttleStore",
        "failLog", "rate", "weigh", "failCount", "failDB", "remember",
        "success", "okLog", "unauth", "spawnCheck", "reject", "disable",
        "acquire", "mark", "spawnProbe", "probe", "complete", "release",
        "mergeQuota", "put", "fetch", "apply", "upsert", "stored",
        "validate", "verify", "finish", "select", "adminDB", "spawnImport"}

Idle == [pc |-> "idle", op |-> "none", c |-> None, t |-> None, at |-> 0,
         then |-> "idle", hit |-> FALSE, q |-> NoQuota, work |-> None]

TypeOK ==
  /\ clock \in 0 .. MaxClock
  /\ db \in [Creds -> CredRows]
  /\ logs \in [Creds -> [Tiers -> {"none", "bad", "good"}]]
  /\ avail \in Snapshots \cup {None}
  /\ throttle \in [Creds -> [Tiers -> [n : 0 .. Threshold, until : Times]]]
  /\ checking \subseteq Creds
  /\ probing \subseteq Creds \X Tiers
  /\ sem \in 0 .. SemLimit
  /\ flight \in Procs \cup {None}
  /\ spawned \subseteq Jobs
  /\ me \in [Procs -> [pc : PCs,
                       op : AllOps \cup {"probe", "validate", "import", "none"},
                       c : Creds \cup {None}, t : Tiers \cup {None},
                       at : Times, then : PCs, hit : BOOLEAN, q : Quotas,
                       work : Snapshots \cup {None}]]
  /\ missed \in [Procs -> SUBSET Creds]

\* A restart: nothing is left in memory; rows may be disabled or never synced.
Init ==
  /\ clock = 0
  /\ \E on, synced \in [Creds -> BOOLEAN] :
       db = [c \in Creds |-> [on |-> on[c], synced |-> synced[c],
                              live |-> [t \in Tiers |-> TRUE],
                              until |-> [t \in Tiers |-> 0]]]
  /\ logs = [c \in Creds |-> [t \in Tiers |-> "none"]]
  /\ avail = None
  /\ throttle = [c \in Creds |-> [t \in Tiers |-> NoState]]
  /\ checking = {} /\ probing = {} /\ sem = 0
  /\ flight = None /\ spawned = {}
  /\ me = [p \in Procs |-> Idle]
  /\ missed = [p \in Procs |-> {}]

-----------------------------------------------------------------------------
(* Goroutines: where they stand, what they call, what they start. *)

At(p, here)   == me[p].pc = here
Goto(p, next) == me' = [me EXCEPT ![p].pc = next]
Return(p)     == me' = [me EXCEPT ![p] = Idle]

\* p calls a routine of the scheduler and goes on at `next` after it.
Call(p, routine, next) ==
  me' = [me EXCEPT ![p] = [@ EXCEPT !.pc = routine, !.then = next]]
Resume(r) == IF r.then = "idle" THEN Idle
             ELSE [r EXCEPT !.pc = r.then, !.then = "idle", !.at = 0, !.work = None]

Go(job) == spawned' = spawned \cup {job}
Job(p, op, at) == [op |-> op, c |-> me[p].c, t |-> me[p].t, at |-> at]

\* mu is held between the Load and the Store of the three edits below; every
\* other section it guards is one step.
MuFree == \A p \in Procs :
            me[p].pc \notin {"evictStore", "suspendStore", "throttleStore"}

InPool(c)        == avail # None /\ c \in DOMAIN avail
Up(c, t)         == InPool(c) /\ avail[c][t].up
\* What PickWeightedFromBest may return, to a request that prefers no credential: a
\* positive score times its weight.  The preferred one need only be Up.
Selectable(c, t) == Up(c, t) /\ avail[c][t].fair

\* An update of the status, in UpdateCodexStatus and in UpdateCodexTokens: it ends
\* the windows of the row in the same transaction, and that counts as a sync.
WithStatus(c, on) ==
  [db EXCEPT ![c] = [@ EXCEPT !.on = on, !.synced = TRUE,
                              !.until = [t \in Tiers |-> clock]]]

\* A failed request in the log of its slot.
Failing(log) == IF log = "none" THEN "bad" ELSE log
\* The rejection of a credential is logged for the tier of the request, or as one
\* of the default tier; not when the call's context is over.
LogRejection(c) ==
  \/ UNCHANGED logs
  \/ LogStore /\ \E t \in Tiers : logs' = [logs EXCEPT ![c][t] = Failing(@)]

\* What happens to c is news for the rebuilds that stand at these places.
Overtake(c, places) ==
  missed' = [r \in Procs |-> IF me[r].pc \in places THEN missed[r] \cup {c} ELSE missed[r]]

Expired(until)   == until # 0 /\ until <= clock
StateOf(p)       == throttle[me[p].c][me[p].t]
SetState(p, st)  == throttle' = [throttle EXCEPT ![me[p].c][me[p].t] = st]
ClearedStates(c) == [throttle EXCEPT ![c] = [t \in Tiers |-> NoState]]

\* Mutant: the slot's own ThrottledUntil is not consulted.
ScoredUnthrottled(slot, live, now) ==
  [slot EXCEPT !.live = live, !.up = live, !.fair = @ \/ (live /\ ~slot.up)]

\* A slot scored from a quota at time `now`; the weight is reset when the slot
\* comes back from a negative score.
Scored(slot, live, now) ==
  LET up == live /\ now >= slot.until
  IN [slot EXCEPT !.live = live, !.up = up, !.fair = @ \/ (up /\ ~slot.up)]

\* applyQuotaToAvailable: the compare-and-swap loop.
ApplyQuota(c, q) ==
  avail' = IF InPool(c)
             THEN [avail EXCEPT ![c] =
                     [t \in Tiers |-> Scored(avail[c][t], q[t] = "live", clock)]]
             ELSE avail

-----------------------------------------------------------------------------
(* RefreshAvailable: a singleflight around refreshAvailableFromRows, which the *)
(* quota syncer also calls from outside the flight.                            *)

EnterRefresh(p) ==
  /\ At(p, "refresh")
  /\ IF flight = None THEN flight' = p /\ Goto(p, "list")
                      ELSE UNCHANGED flight /\ Goto(p, "join")
  /\ UNCHANGED <<clock, db, logs, avail, memory, spawned, missed>>

\* Mutant: the flight ends without its joiners.
LeaveRefreshAlone(p) ==
  /\ flight' = IF flight = p THEN None ELSE flight
  /\ me' = [me EXCEPT ![p] = Resume(@)]

\* The flight ends and its callers resume: the leader and those that joined.
LeaveRefresh(p) ==
  /\ flight' = IF flight = p THEN None ELSE flight
  /\ me' = [r \in Procs |->
              IF r = p \/ (flight = p /\ At(r, "join")) THEN Resume(me[r]) ELSE me[r]]

\* ListAvailableCodex's enabled rows, of which unsynced ones are skipped.
\* Mutant: the list does not ask for the status.
ListedAny == {c \in Creds : db[c].synced}
Listed    == {c \in Creds : db[c].on /\ db[c].synced}

ListRows(p) ==
  /\ At(p, "list")
  /\ \/ me' = [me EXCEPT ![p] = [@ EXCEPT !.pc = "build", !.work =
                [c \in Listed |->
                  [t \in Tiers |-> [live |-> db[c].live[t], up |-> FALSE,
                                    until |-> db[c].until[t], fair |-> TRUE]]]]]
        /\ UNCHANGED flight
     \/ DBFails /\ LeaveRefresh(p)
  /\ UNCHANGED <<clock, db, logs, avail, memory, spawned, missed>>

\* isCredentialUnderValidation, of each row.  Mutant: no row is skipped.
UncheckedAny(C) == C
Unchecked(C)    == C \ checking

\* Skips credentials under validation; scores the rest at one instant.
BuildRows(p) ==
  /\ At(p, "build")
  /\ MuFree
  /\ me' = [me EXCEPT ![p] = [@ EXCEPT !.pc = "merge", !.at = clock, !.work =
              [c \in Unchecked(DOMAIN me[p].work) |-> [t \in Tiers |->
                LET slot == me[p].work[c][t] IN Scored(slot, slot.live, clock)]]]]
  /\ UNCHANGED <<clock, db, logs, avail, memory, flight, spawned, missed>>

\* applyMemoryThrottles, then computeErrorRates: a slot whose window holds
\* nothing but failures gets weight 0.
Merged(slot, until, now, log) ==
  LET open == now < until
  IN [slot EXCEPT !.until = IF open /\ until > @ THEN until ELSE @,
                  !.up    = @ /\ ~open,
                  !.fair  = ~LogStore \/ log # "bad"]

MergeThrottles(p) ==
  /\ At(p, "merge")
  /\ MuFree
  /\ me' = [me EXCEPT ![p] = [@ EXCEPT !.pc = "store", !.work =
              [c \in DOMAIN me[p].work |-> [t \in Tiers |->
                Merged(me[p].work[c][t], throttle[c][t].until, me[p].at, logs[c][t])]]]]
  /\ UNCHANGED <<clock, db, logs, avail, memory, flight, spawned, missed>>

\* The snapshot is replaced whatever happened to it since ListRows.
StoreRows(p) ==
  /\ At(p, "store")
  /\ avail' = me[p].work
  /\ me' = [me EXCEPT ![p] = [@ EXCEPT !.pc = "clear", !.work = None, !.at = 0]]
  /\ missed' = [missed EXCEPT ![p] = {}]
  /\ UNCHANGED <<clock, db, logs, memory, flight, spawned>>

\* clearExpiredThrottles, with a later look at the time than BuildRows took.
ClearExpired(p) ==
  /\ At(p, "clear")
  /\ MuFree
  /\ throttle' = [c \in Creds |-> [t \in Tiers |->
                   IF Expired(throttle[c][t].until) THEN NoState ELSE throttle[c][t]]]
  /\ LeaveRefresh(p)
  /\ UNCHANGED <<clock, db, logs, avail, checking, probing, sem, spawned, missed>>

-----------------------------------------------------------------------------
(* The edits under mu: Load, then Store, neither of them a compare-and-swap. *)

Storing == [evict |-> "evictStore", suspend |-> "suspendStore",
            throttle |-> "throttleStore"]

Load(p) ==
  /\ me[p].pc \in DOMAIN Storing
  /\ MuFree
  /\ avail # None
  /\ me' = [me EXCEPT ![p] = [@ EXCEPT !.pc = Storing[me[p].pc], !.work = avail]]
  /\ UNCHANGED <<clock, db, logs, avail, memory, flight, spawned, missed>>

\* evictCredential
EvictStore(p) ==
  /\ At(p, "evictStore")
  /\ avail' = [c \in DOMAIN me[p].work \ {me[p].c} |-> me[p].work[c]]
  /\ me' = [me EXCEPT ![p] = Resume(@)]
  /\ UNCHANGED <<clock, db, logs, memory, flight, spawned, missed>>

Edited(p, Change(_)) ==
  LET m == me[p]
  IN [c \in DOMAIN m.work |-> [t \in Tiers |->
       IF c = m.c /\ t = m.t THEN Change(m.work[c][t]) ELSE m.work[c][t]]]

\* suspendCredentialTier
SuspendStore(p) ==
  /\ At(p, "suspendStore")
  /\ avail' = Edited(p, LAMBDA slot : [slot EXCEPT !.up = FALSE])
  /\ me' = [me EXCEPT ![p] = Resume(@)]
  /\ UNCHANGED <<clock, db, logs, memory, flight, spawned, missed>>

\* throttleCredentialTier, after which rememberThrottleUntil starts the timer.
ThrottleStore(p) ==
  /\ At(p, "throttleStore")
  /\ avail' = Edited(p, LAMBDA slot : [slot EXCEPT !.up = FALSE, !.until = me[p].at])
  /\ Go(Job(p, "wake", me[p].at))
  /\ me' = [me EXCEPT ![p] = Resume(@)]
  /\ UNCHANGED <<clock, db, logs, memory, flight, missed>>

\* The three return at once when there is no snapshot.
EditNothing(p) ==
  /\ me[p].pc \in DOMAIN Storing
  /\ MuFree
  /\ avail = None
  /\ IF At(p, "throttle") THEN Go(Job(p, "wake", me[p].at)) ELSE UNCHANGED spawned
  /\ me' = [me EXCEPT ![p] = Resume(@)]
  /\ UNCHANGED <<clock, db, logs, avail, memory, flight, missed>>

-----------------------------------------------------------------------------
(* RecordSuccess and RecordFailure *)

\* The request is logged and, if there is a log store, the slot's weight redone
\* from the log: first the rate is computed, then applied by compare-and-swap.
LogRequest(p) ==
  LET m == me[p]  good == m.op = "success"
  IN /\ m.pc \in {"failLog", "okLog"}
     /\ logs' = IF ~LogStore THEN logs
                ELSE [logs EXCEPT ![m.c][m.t] = IF good THEN "good" ELSE Failing(@)]
     /\ IF LogStore THEN Goto(p, "rate")
        ELSE IF good THEN Return(p) ELSE Goto(p, "failCount")
     /\ UNCHANGED <<clock, db, avail, memory, flight, spawned, missed>>

AfterWeight(p) == IF me[p].op = "success" THEN Return(p) ELSE Goto(p, "failCount")

ComputeRate(p) ==
  LET m == me[p]
  IN /\ At(p, "rate")
     /\ IF InPool(m.c)
          THEN me' = [me EXCEPT ![p] = [m EXCEPT !.pc = "weigh",
                                                 !.hit = logs[m.c][m.t] # "bad"]]
          ELSE AfterWeight(p)
     /\ UNCHANGED <<clock, db, logs, avail, memory, flight, spawned, missed>>

ApplyWeight(p) ==
  LET m == me[p]
  IN /\ At(p, "weigh")
     /\ avail' = IF InPool(m.c) THEN [avail EXCEPT ![m.c][m.t].fair = m.hit] ELSE avail
     /\ IF m.op = "success" THEN Return(p)
        ELSE me' = [me EXCEPT ![p] = [@ EXCEPT !.pc = "failCount", !.hit = FALSE]]
     /\ UNCHANGED <<clock, db, logs, memory, flight, spawned, missed>>

ClearThrottle(p) ==
  /\ At(p, "success")
  /\ MuFree
  /\ SetState(p, NoState)
  /\ Goto(p, "okLog")
  /\ UNCHANGED <<clock, db, logs, avail, checking, probing, sem, flight, spawned, missed>>

\* The failure is counted, from one again after a window that has passed.
\* DecideFailureThrottle: a Retry-After, or too many failures in a row.
CountFailure(p) ==
  /\ At(p, "failCount")
  /\ MuFree
  /\ \E n \in 1 .. Threshold, retryAfter \in BOOLEAN :
       /\ LET before == IF Expired(StateOf(p).until) THEN 0 ELSE StateOf(p).n
          IN n = IF before = Threshold THEN Threshold ELSE before + 1
       /\ SetState(p, [StateOf(p) EXCEPT !.n = n])
       /\ IF retryAfter \/ n = Threshold
            THEN \E at \in clock + 1 .. MaxClock + 1 :
                   me' = [me EXCEPT ![p] = [@ EXCEPT !.pc = "failDB", !.at = at]]
            ELSE Return(p)
  /\ UNCHANGED <<clock, db, logs, avail, checking, probing, sem, flight, spawned, missed>>

\* SetQuotaThrottled; its error is only logged.
ThrottleInDB(p) ==
  LET m == me[p]
  IN /\ At(p, "failDB")
     /\ \/ db' = [db EXCEPT ![m.c].until[m.t] = m.at, ![m.c].synced = TRUE]
        \/ DBFails /\ UNCHANGED db
     /\ Goto(p, "remember")
     /\ UNCHANGED <<clock, logs, avail, memory, flight, spawned, missed>>

\* rememberThrottleUntil overwrites the window, whichever ends later.
RememberThrottle(p) ==
  /\ At(p, "remember")
  /\ MuFree
  /\ SetState(p, [StateOf(p) EXCEPT !.until = me[p].at])
  /\ Call(p, "throttle", IF me[p].op = "probe" THEN "complete" ELSE "idle")
  /\ Overtake(me[p].c, {"store"})
  /\ UNCHANGED <<clock, db, logs, avail, checking, probing, sem, flight, spawned>>

-----------------------------------------------------------------------------
(* HandleUnauthorized: 402 disables the credential, 401 validates it.  Called *)
(* for a request's answer, and by the quota syncer, which goes on after it.   *)

RejectCredential(p) ==
  /\ At(p, "reject")
  /\ MuFree
  /\ throttle' = ClearedStates(me[p].c)
  /\ checking' = checking \ {me[p].c}
  /\ LogRejection(me[p].c)
  /\ Call(p, "evict", "disable")
  /\ UNCHANGED <<clock, db, avail, probing, sem, flight, spawned, missed>>

\* The refresh and the deferred finishCredentialValidation.  Mutant: skipped.
AbandonValidation(p) == Return(p)
EndValidation(p)     == Call(p, "refresh", "finish")

\* DisableCredential; its error is only logged.
AfterDisable(p) ==
  CASE me[p].op = "validate" -> EndValidation(p)
    [] me[p].op = "import"   -> Call(p, "refresh", "idle")
    [] me[p].op = "sync"     -> Goto(p, "stored")
    [] OTHER                 -> Return(p)

DisableInDB(p) ==
  /\ At(p, "disable")
  /\ \/ db' = WithStatus(me[p].c, FALSE)
     \/ DBFails /\ UNCHANGED db
  /\ AfterDisable(p)
  /\ UNCHANGED <<clock, logs, avail, memory, flight, spawned, missed>>

\* The test of the test-and-set on `checking`.  Mutant: it is left out.
NeverChecking(c)   == FALSE
AlreadyChecking(c) == c \in checking

CheckUnauthorized(p) ==
  /\ At(p, "unauth")
  /\ MuFree
  /\ throttle' = ClearedStates(me[p].c)
  /\ checking' = checking \cup {me[p].c}
  /\ Call(p, "evict", IF ~AlreadyChecking(me[p].c) THEN "spawnCheck"
                      ELSE IF me[p].op = "sync" THEN "stored" ELSE "idle")
  /\ Overtake(me[p].c, {"merge", "store"})
  /\ UNCHANGED <<clock, db, logs, avail, probing, sem, flight, spawned>>

SpawnValidation(p) ==
  /\ At(p, "spawnCheck")
  /\ Go(Job(p, "validate", 0))
  /\ IF me[p].op = "sync" THEN Goto(p, "stored") ELSE Return(p)
  /\ UNCHANGED <<clock, db, logs, avail, memory, flight, missed>>

\* validateCredentialAfterAuthFailure: RefreshCredential succeeds (its update
\* of the tokens sets status enabled), or disables the credential, or fails.
ValidateCredential(p) ==
  /\ At(p, "validate")
  /\ \/ /\ db' \in {db, WithStatus(me[p].c, TRUE)}
        /\ Goto(p, "verify") /\ UNCHANGED logs
     \/ /\ db' \in {db, WithStatus(me[p].c, FALSE)}
        /\ EndValidation(p) /\ LogRejection(me[p].c)
  /\ UNCHANGED <<clock, avail, memory, flight, spawned, missed>>

\* Some tier is present in every quota that is stored.
Fetched(q) == q \in Quotas /\ \E t \in Tiers : q[t] # "missing"

VerifyUsable(p) ==
  /\ At(p, "verify")
  /\ \/ \E q \in Quotas : /\ Fetched(q)
                          /\ me' = [me EXCEPT ![p] = [@ EXCEPT !.pc = "apply", !.q = q]]
        /\ UNCHANGED logs
     \/ Goto(p, "disable") /\ LogRejection(me[p].c)
     \/ EndValidation(p) /\ UNCHANGED logs
  /\ UNCHANGED <<clock, db, avail, memory, flight, spawned, missed>>

\* The deferred finishCredentialValidation, after the refresh.
FinishValidation(p) ==
  /\ At(p, "finish")
  /\ MuFree
  /\ checking' = checking \ {me[p].c}
  /\ Return(p)
  /\ UNCHANGED <<clock, db, logs, avail, throttle, probing, sem, flight, spawned, missed>>

-----------------------------------------------------------------------------
(* StoreQuota, by the validation, the import and the quota syncer. *)

\* A credential that the upstream rejects: the import evicts and disables it, the
\* syncer hands it to HandleUnauthorized (if the instance has such answers).
FetchQuota(p) ==
  /\ At(p, "fetch")
  /\ \/ \E q \in Quotas : /\ Fetched(q)
                          /\ me' = [me EXCEPT ![p] = [@ EXCEPT !.pc = "apply", !.q = q]]
        /\ UNCHANGED logs
     \/ me[p].op = "import" /\ Call(p, "evict", "disable") /\ LogRejection(me[p].c)
     \/ me[p].op = "sync" /\ (\E next \in {"unauth", "reject"} \cap Ops : Goto(p, next))
        /\ UNCHANGED logs
     \/ Goto(p, "stored") /\ UNCHANGED logs
  /\ UNCHANGED <<clock, db, avail, memory, flight, spawned, missed>>

\* The snapshot first.  A row missing from it, or a plan type that changed
\* (updatePlanType), calls for a full refresh once the quota is in the database.
ApplyStoredQuota(p) ==
  /\ At(p, "apply")
  /\ ApplyQuota(me[p].c, me[p].q)
  /\ \E planChanged \in BOOLEAN :
       me' = [me EXCEPT ![p] = [@ EXCEPT !.pc = "upsert",
                                         !.hit = InPool(me[p].c) /\ ~planChanged]]
  /\ UNCHANGED <<clock, db, logs, memory, flight, spawned, missed>>

UpsertQuota(p) ==
  LET m == me[p]
      next(pc) == [m EXCEPT !.pc = pc, !.hit = FALSE, !.q = NoQuota,
                            !.then = IF pc = "refresh" THEN "stored" ELSE @]
  IN /\ At(p, "upsert")
     /\ \/ /\ db' = [db EXCEPT ![m.c].synced = TRUE,
                               ![m.c].live = [t \in Tiers |-> m.q[t] = "live"]]
           /\ me' = [me EXCEPT ![p] = next(IF m.hit THEN "stored" ELSE "refresh")]
        \/ DBFails /\ me' = [me EXCEPT ![p] = next("stored")] /\ UNCHANGED db
     /\ UNCHANGED <<clock, logs, avail, memory, flight, spawned, missed>>

\* The quota syncer lists again and rebuilds the snapshot itself (CacheRows),
\* outside the flight.  Mutant: it does not.
EndSync(p)   == Return(p)
CacheRows(p) == Call(p, "list", "idle")

\* Back in the caller of StoreQuota.
AfterStoreQuota(p) ==
  /\ At(p, "stored")
  /\ CASE me[p].op = "validate" -> EndValidation(p)
       [] me[p].op = "import"   -> Call(p, "refresh", "idle")
       [] me[p].op = "sync"     -> CacheRows(p)
  /\ UNCHANGED <<clock, db, logs, avail, memory, flight, spawned, missed>>

-----------------------------------------------------------------------------
(* UpdateQuota, from response headers, and QueueQuotaRefresh's probe. *)

\* mergeQuotaUpdate: a tier the quota lacks is taken from the snapshot.
MergeQuota(p) ==
  LET m == me[p]
  IN /\ At(p, "mergeQuota")
     /\ \E q \in Quotas :
          /\ Fetched(q)
          /\ m.op = "probe" => q[m.t] # "missing"
          /\ me' = [me EXCEPT ![p] = [m EXCEPT !.pc = "put", !.q =
               [t \in Tiers |-> IF q[t] = "missing" /\ InPool(m.c)
                                  THEN IF avail[m.c][t].live THEN "live" ELSE "dead"
                                  ELSE q[t]]]]
     /\ UNCHANGED <<clock, db, logs, avail, memory, flight, spawned, missed>>

PutQuota(p) ==
  /\ At(p, "put")
  /\ ApplyQuota(me[p].c, me[p].q)
  /\ IF me[p].op = "probe"
       THEN me' = [me EXCEPT ![p] = [@ EXCEPT !.pc = "complete", !.q = NoQuota]]
       ELSE Return(p)
  /\ UNCHANGED <<clock, db, logs, memory, flight, spawned, missed>>

\* A slot of quotaRefreshSem, or the probe is skipped.  Mutant: one too many.
SlotAtLimit == sem <= SemLimit
SlotFree    == sem < SemLimit

AcquireSlot(p) ==
  /\ At(p, "acquire")
  /\ IF SlotFree THEN sem' = sem + 1 /\ Goto(p, "mark")
                 ELSE UNCHANGED sem /\ Return(p)
  /\ UNCHANGED <<clock, db, logs, avail, throttle, checking, probing, flight, spawned, missed>>

\* The second QueueQuotaRefresh of a slot.  Mutant: it returns with the
\* semaphore's slot.
AlreadyProbing(key) == key \in probing
ReturnWithSlot(p)   == Return(p)
GiveSlotBack(p)     == Goto(p, "release")

\* startQuotaRefresh: one probe for a slot at a time; the tier is suspended.
MarkProbing(p) ==
  LET key == <<me[p].c, me[p].t>>
  IN /\ At(p, "mark")
     /\ MuFree
     /\ IF AlreadyProbing(key) THEN GiveSlotBack(p) /\ UNCHANGED probing
        ELSE probing' = probing \cup {key} /\ Call(p, "suspend", "spawnProbe")
     /\ UNCHANGED <<clock, db, logs, avail, throttle, checking, sem, flight, spawned, missed>>

SpawnProbe(p) ==
  /\ At(p, "spawnProbe")
  /\ Go(Job(p, "probe", 0))
  /\ Return(p)
  /\ UNCHANGED <<clock, db, logs, avail, memory, flight, missed>>

\* No token, no quota, or none for the tier: a short throttle, in memory only.
ProbeQuota(p) ==
  /\ At(p, "probe")
  /\ \/ Goto(p, "mergeQuota")
     \/ \E at \in clock + 1 .. MaxClock + 1 :
          me' = [me EXCEPT ![p] = [@ EXCEPT !.pc = "remember", !.at = at]]
  /\ UNCHANGED <<clock, db, logs, avail, memory, flight, spawned, missed>>

CompleteProbe(p) ==
  /\ At(p, "complete")
  /\ MuFree
  /\ probing' = probing \ {<<me[p].c, me[p].t>>}
  /\ Goto(p, "release")
  /\ UNCHANGED <<clock, db, logs, avail, throttle, checking, sem, flight, spawned, missed>>

ReleaseSlot(p) ==
  /\ At(p, "release")
  /\ sem' = sem - 1
  /\ Return(p)
  /\ UNCHANGED <<clock, db, logs, avail, throttle, checking, probing, flight, spawned, missed>>

-----------------------------------------------------------------------------
(* Selection, the admin handlers, and the goroutines' starts. *)

\* listAvailable reloads when there is no snapshot or a window has passed.
ListAvailable(p) ==
  /\ At(p, "select")
  /\ MuFree
  /\ IF avail = None \/ \E c \in Creds, t \in Tiers : Expired(throttle[c][t].until)
       THEN Call(p, "refresh", "idle") ELSE Return(p)
  /\ UNCHANGED <<clock, db, logs, avail, memory, flight, spawned, missed>>

\* The batch handlers set a status and rebuild the pool; enabling (as importing)
\* a credential then starts SyncCredentials.
AdminSetStatus(p) ==
  /\ At(p, "adminDB")
  /\ \/ \E on \in BOOLEAN :
          /\ db' = WithStatus(me[p].c, on)
          /\ Call(p, "refresh", IF on THEN "spawnImport" ELSE "idle")
     \/ DBFails /\ Call(p, "refresh", "idle") /\ UNCHANGED db
  /\ UNCHANGED <<clock, logs, avail, memory, flight, spawned, missed>>

SyncCredentials(p) ==
  /\ At(p, "spawnImport")
  /\ Go(Job(p, "import", 0))
  /\ Return(p)
  /\ UNCHANGED <<clock, db, logs, avail, memory, flight, missed>>

First == [fail |-> "failLog", success |-> "success", unauth |-> "unauth",
          reject |-> "reject", queue |-> "acquire", update |-> "mergeQuota",
          sync |-> "fetch", refresh |-> "refresh", select |-> "select",
          admin |-> "adminDB", probe |-> "probe", validate |-> "validate",
          import |-> "fetch"]

Run(p, op, c, t) ==
  /\ At(p, "idle")
  /\ me' = [me EXCEPT ![p] = [Idle EXCEPT !.pc = First[op], !.op = op, !.c = c, !.t = t]]

\* One quota syncer loops, and one import runs at a time (importSyncMu).
Alone(op) == op \in {"sync", "import"} => \A p \in Procs : me[p].op # op

\* Requests name a credential and a tier, the rest a credential or nothing.
Arguments(op) ==
  CASE op \in {"fail", "success", "queue"}                      -> Creds \X Tiers
    [] op \in {"unauth", "reject", "update", "sync", "admin"}   -> Creds \X {None}
    [] OTHER                                                    -> {<<None, None>>}

Start(p, op) ==
  /\ op \in Ops
  /\ Alone(op)
  /\ \E a \in Arguments(op) : Run(p, op, a[1], a[2])
  /\ UNCHANGED <<clock, db, logs, avail, memory, flight, spawned, missed>>

\* A goroutine started with `go` runs; a timer does at its deadline, and only
\* reloads if the window was not extended meanwhile (RefreshAfterDeadline).
StartJob(p, j) ==
  /\ j \in spawned
  /\ Alone(j.op)
  /\ \/ j.op # "wake" /\ Run(p, j.op, j.c, j.t)
     \/ /\ j.op = "wake" /\ clock >= j.at
        /\ MuFree /\ throttle[j.c][j.t].until <= j.at
        /\ Run(p, "refresh", None, None)
  /\ spawned' = spawned \ {j}
  /\ UNCHANGED <<clock, db, logs, avail, memory, flight, missed>>

Superseded(j) ==
  /\ j \in spawned
  /\ j.op = "wake" /\ clock >= j.at
  /\ MuFree
  /\ throttle[j.c][j.t].until > j.at
  /\ spawned' = spawned \ {j}
  /\ UNCHANGED <<clock, db, logs, avail, memory, flight, me, missed>>

Tick ==
  /\ clock < MaxClock
  /\ clock' = clock + 1
  /\ UNCHANGED <<db, logs, avail, memory, flight, spawned, me, missed>>

Step(p) ==
  \/ EnterRefresh(p) \/ ListRows(p) \/ BuildRows(p) \/ MergeThrottles(p)
  \/ StoreRows(p) \/ ClearExpired(p)
  \/ Load(p) \/ EvictStore(p) \/ SuspendStore(p) \/ ThrottleStore(p) \/ EditNothing(p)
  \/ LogRequest(p) \/ ComputeRate(p) \/ ApplyWeight(p) \/ ClearThrottle(p)
  \/ CountFailure(p) \/ ThrottleInDB(p) \/ RememberThrottle(p)
  \/ RejectCredential(p) \/ DisableInDB(p) \/ CheckUnauthorized(p)
  \/ SpawnValidation(p) \/ ValidateCredential(p) \/ VerifyUsable(p) \/ FinishValidation(p)
  \/ FetchQuota(p) \/ ApplyStoredQuota(p) \/ UpsertQuota(p) \/ AfterStoreQuota(p)
  \/ MergeQuota(p) \/ PutQuota(p)
  \/ AcquireSlot(p) \/ MarkProbing(p) \/ SpawnProbe(p) \/ ProbeQuota(p)
  \/ CompleteProbe(p) \/ ReleaseSlot(p)
  \/ ListAvailable(p) \/ AdminSetStatus(p) \/ SyncCredentials(p)

Next ==
  \/ Tick
  \/ \E j \in spawned : Superseded(j) \/ \E p \in Procs : StartJob(p, j)
  \/ \E p \in Procs : Step(p) \/ \E op \in Ops : Start(p, op)

Spec == Init /\ [][Next]_vars

\* Goroutines are scheduled, their calls are bounded by contexts, and a
\* sync.Mutex does not starve a goroutine that waits for it (hence SF).  The
\* quota syncer's goroutine comes round for as long as the program runs; Procs,
\* which may all be taken when it wants to, is a bound of the model only.
FairSpec ==
  /\ Spec
  /\ WF_vars(Tick)
  /\ \A p \in Procs : SF_vars(Step(p))
  /\ SF_vars(\E p \in Procs : Start(p, "sync"))

-----------------------------------------------------------------------------
(* Goroutines at work on something *)

\* A slot of quotaRefreshSem is held from QueueQuotaRefresh's acquisition,
\* through the probe's start, to the release.
HoldsSlot(p) == me[p].op \in {"queue", "probe"} /\ me[p].pc # "acquire"

Queueing(p) == me[p].pc \in {"suspend", "suspendStore", "spawnProbe"}
Probing(p, c, t) ==
  /\ me[p].c = c /\ me[p].t = t
  /\ Queueing(p) \/ (me[p].op = "probe" /\ me[p].pc # "release")
PendingProbes(c, t) == {j \in spawned : j.op = "probe" /\ j.c = c /\ j.t = t}

\* From the test-and-set on `checking` to finishCredentialValidation.
Validating(p, c) ==
  /\ me[p].c = c
  /\ \/ me[p].op = "validate"
     \/ me[p].op \in {"unauth", "sync"} /\ "spawnCheck" \in {me[p].pc, me[p].then}
Validators(c) == {p \in Procs : Validating(p, c)}
PendingValidations(c) == {j \in spawned : j.op = "validate" /\ j.c = c}
Validations(c) == Cardinality(Validators(c)) + Cardinality(PendingValidations(c))

\* RecordFailure or a probe between storing `until` and marking the row.
Recording(p, c, t) ==
  me[p].c = c /\ me[p].t = t /\ me[p].pc \in {"throttle", "throttleStore"}
Throttled(c, t) == throttle[c][t].until > clock

Leading(p) == me[p].pc \in {"list", "build", "merge", "store", "clear"}

-----------------------------------------------------------------------------
(* Properties *)

\* Every slot of quotaRefreshSem that is taken has a goroutine that will give
\* it back (QueueQuotaRefresh's early return and the probe's deferred release).
SlotsAccounted ==
  sem = Cardinality({p \in Procs : HoldsSlot(p)})
          + Cardinality({j \in spawned : j.op = "probe"})

\* startQuotaRefresh and completeQuotaRefresh: a slot is marked exactly while
\* one probe of it is queued, waiting to start or running.
OneProbePerSlot ==
  \A c \in Creds, t \in Tiers :
    Cardinality({p \in Procs : Probing(p, c, t)}) + Cardinality(PendingProbes(c, t))
      = IF <<c, t>> \in probing THEN 1 ELSE 0

\* No probe leaves a slot or a mark behind, and none does without.
ProbesAccounted == SlotsAccounted /\ OneProbePerSlot

\* HandleUnauthorized: a credential under validation, which every rebuild leaves
\* out, has a validation that will end; none is locked out for good.
NoStuckValidation ==
  \A c \in checking : Validators(c) # {} \/ PendingValidations(c) # {}

\* HandleUnauthorized: while a credential is marked as under validation nobody
\* starts another validation of it, so its refresh token is exchanged by one of
\* them however many of its requests got a 401.
OneValidation ==
  [][\A c \in Creds :
       c \in checking /\ c \in checking' => Validations(c)' <= Validations(c)]_vars

\* A caller that joined refreshGroup's flight waits for a leader that is at work.
JoinersHaveLeader ==
  \A p \in Procs :
    At(p, "join") => flight \in Procs /\ Leading(flight) /\ flight # p

\* How a rebuild or an edit may undo what the scheduler decided about c: the
\* rebuild had looked before, the edit had copied a snapshot in which it was so.
StoredStale(p, c) ==
  \/ StoreRows(p) /\ c \in missed[p]
  \/ (EvictStore(p) \/ SuspendStore(p) \/ ThrottleStore(p)) /\ c \in DOMAIN me[p].work

\* A credential under validation comes back into the snapshot only by a rebuild
\* that had looked at `checking` before the 401 was handled (or an edit that had
\* copied what such a rebuild left).
ReadmittedOnlyIfMissed ==
  [][\A c \in Creds :
       c \in checking /\ c \in checking' /\ ~InPool(c) /\ InPool(c)' =>
         \E p \in Procs : StoredStale(p, c)]_vars

\* A slot that carries an open throttle window is lifted only by a rebuild that
\* had merged the memory throttles before the window was recorded (or an edit
\* that had copied it): no quota update, weight or other tier's event lifts it.
LiftedOnlyIfMissed ==
  [][\A c \in Creds, t \in Tiers :
       /\ Throttled(c, t) /\ Throttled(c, t)'
       /\ \A p \in Procs : ~Recording(p, c, t)
       /\ InPool(c) /\ ~Up(c, t) /\ avail[c][t].until > clock
       /\ Up(c, t)'
       => \E p \in Procs : StoredStale(p, c)]_vars

\* A credential that stays enabled, synced, within its quota, out of validation
\* and of every throttle window, with a success in the log or no request at all,
\* is selectable again and again: no race loses it for good.
Eligible(c, t) ==
  /\ db[c].on /\ db[c].synced /\ db[c].live[t]
  /\ db[c].until[t] <= clock /\ ~Throttled(c, t)
  /\ c \notin checking /\ <<c, t>> \notin probing
  /\ logs[c][t] # "bad"
EligibleReturns ==
  \A c \in Creds, t \in Tiers : <>[]Eligible(c, t) => []<>Selectable(c, t)

\* A credential that stays disabled is out of the pool for good at last, once no
\* edit is left that may have copied it before.
DisabledLeaves ==
  \A c \in Creds : <>[](~db[c].on /\ MuFree) => <>[](~InPool(c))

-----------------------------------------------------------------------------
(* What comments and the readme say of the program, and it does not do *)

\* RecordFailure: throttling is reserved for Retry-After and for repeated
\* failures, anything less only weighs.
FailureOnlyWeighs ==
  \A c \in Creds, t \in Tiers :
    Up(c, t) /\ throttle[c][t].n < Threshold => Selectable(c, t)

\* Suspending or throttling a tier leaves the other tiers as they are.
TierIsolation ==
  [][\A p \in Procs :
       SuspendStore(p) \/ ThrottleStore(p) =>
         \A c \in Creds, t \in Tiers :
           <<c, t>> # <<me[p].c, me[p].t>> => Up(c, t)' = Up(c, t)]_vars

\* A validation reloads all available credentials, its own included.
ValidatedReturns ==
  [][\A p \in Procs :
       FinishValidation(p) /\ db[me[p].c].on /\ db[me[p].c].synced => InPool(me[p].c)]_vars

=============================================================================
