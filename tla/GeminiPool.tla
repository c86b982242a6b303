------------------------------ MODULE GeminiPool ------------------------------
(***************************************************************************)
(* The credential pool of the Gemini scheduler (core/gemini/scheduler.go). *)
(* Rebuilds go through a singleflight, but for the quota syncer's; quotas  *)
(* and plan types are applied by compare-and-swap, one step here; the      *)
(* evictions and throttles Load and Store the snapshot, under mu.          *)
(*                                                                         *)
(* One tier stands for three.  A score is abstracted to `up`, and whether  *)
(* the quota allows it to be positive is anybody's guess; every window     *)
(* lasts one tick of the clock.  Error-rate weights, the names of the plan *)
(* types and the limit on concurrent probes are left out.                  *)
(***************************************************************************)
EXTENDS Naturals

CONSTANTS Procs,     (* goroutines in progress at once                       *)
          Creds,
          None,      (* no snapshot, no flight, no argument                  *)
          Mixes,     (* sets of operations that meet in one behaviour        *)
          Threshold, (* ConsecutiveFailureThrottleThreshold                  *)
          MaxClock   (* bound: the last instant of a behaviour               *)

AllOps == {"fail", "success", "unauth", "reject", "queue", "sync", "import",
           "select", "admin"}

VARIABLES
  clock,
  db,       (* the gemini_cli and gemini_quota rows                          *)
  avail,    (* available: nil or the rows by credential                      *)
  throttle, (* consecutive failures and until, by credential                 *)
  checking, (* credentials under validation                                  *)
  probing,  (* quotaRefreshing                                               *)
  flight,   (* the goroutine that runs refreshGroup's function               *)
  spawned,  (* goroutines started and not yet run                            *)
  mix,      (* the operations started from outside in this behaviour         *)
  me        (* each goroutine in progress                                    *)

\* History, read by properties only.
VARIABLE
  missed    (* for each rebuild in progress, the credentials taken out since *)
            (* it looked                                                     *)

vars == <<clock, db, avail, throttle, checking, probing, flight, spawned, mix, me, missed>>

Times   == 0 .. MaxClock + 1      \* 0 is the zero time.Time
NoState == [n |-> 0, until |-> 0]
Rows    == [up : BOOLEAN, until : Times]
Snapshots == UNION {[C -> Rows] : C \in SUBSET Creds}
CredRows  == [on : BOOLEAN, synced : BOOLEAN, until : Times]
Jobs      == [op : {"probe", "validate"}, c : Creds]

PCs == {"idle", "select", "refresh", "join", "list", "build", "merge", "store",
        "clear", "evict", "evictStore", "suspend", "suspendStore", "spawnProbe",
        "throttle", "throttleStore", "count", "failDB", "remember", "success",
        "unauth", "validate", "finish", "reject", "disable", "mark", "probe",
        "unmark", "fetch", "plan", "apply", "upsert", "last", "adminDB"}

Idle == [pc |-> "idle", op |-> "none", c |-> None, then |-> "idle", at |-> 0,
         work |-> None]

TypeOK ==
  /\ clock \in 0 .. MaxClock
  /\ db \in [Creds -> CredRows]
  /\ avail \in Snapshots \cup {None}
  /\ throttle \in [Creds -> [n : 0 .. Threshold, until : Times]]
  /\ checking \subseteq Creds /\ probing \subseteq Creds
  /\ flight \in Procs \cup {None}
  /\ spawned \subseteq Jobs /\ mix \in Mixes
  /\ me \in [Procs -> [pc : PCs, op : AllOps \cup {"none", "wake", "probe", "validate"},
                       c : Creds \cup {None}, then : PCs, at : Times,
                       work : Snapshots \cup {None}]]
  /\ missed \in [Procs -> SUBSET Creds]

\* A restart: nothing is left in memory.
Init ==
  /\ clock = 0
  /\ \E on, synced \in [Creds -> BOOLEAN] :
       db = [c \in Creds |-> [on |-> on[c], synced |-> synced[c], until |-> 0]]
  /\ avail = None
  /\ throttle = [c \in Creds |-> NoState]
  /\ checking = {} /\ probing = {} /\ flight = None /\ spawned = {}
  /\ mix \in Mixes
  /\ me = [p \in Procs |-> Idle]
  /\ missed = [p \in Procs |-> {}]

-----------------------------------------------------------------------------
At(p, here)   == me[p].pc = here
Goto(p, next) == me' = [me EXCEPT ![p].pc = next]
Return(p)     == me' = [me EXCEPT ![p] = Idle]

\* p calls a routine and goes on at `next` after it.
Call(p, routine, next) == me' = [me EXCEPT ![p] = [@ EXCEPT !.pc = routine, !.then = next]]
Back(r) == IF r.then = "idle" THEN Idle
           ELSE [r EXCEPT !.pc = r.then, !.then = "idle", !.at = 0, !.work = None]
Resume(p) == me' = [me EXCEPT ![p] = Back(@)]

Job(p, op) == [op |-> op, c |-> me[p].c]

Copying == {"evictStore", "suspendStore", "throttleStore"}
\* mu is held from the Load to the Store of an edit; the other sections it
\* guards are one step.
MuFree == \A p \in Procs : me[p].pc \notin Copying

InPool(c) == avail # None /\ c \in DOMAIN avail
Up(c)     == InPool(c) /\ avail[c].up

Expired(until)   == until # 0 /\ until <= clock
Scored(row, now) == [row EXCEPT !.up = now >= row.until]

\* What happens to c is news for the rebuilds that stand at these places.
Overtake(c, places) ==
  missed' = [r \in Procs |-> IF me[r].pc \in places THEN missed[r] \cup {c} ELSE missed[r]]

-----------------------------------------------------------------------------
(* RefreshAvailable and refreshAvailableFromRows *)

EnterRefresh(p) ==
  /\ At(p, "refresh")
  /\ IF flight = None THEN flight' = p /\ Goto(p, "list")
                      ELSE UNCHANGED flight /\ Goto(p, "join")
  /\ UNCHANGED <<clock, db, avail, throttle, checking, probing, spawned, missed>>

\* The flight ends, for its leader and for those that joined it.
LeaveRefresh(p) ==
  /\ flight' = IF flight = p THEN None ELSE flight
  /\ me' = [r \in Procs |->
              IF r = p \/ (flight = p /\ At(r, "join")) THEN Back(me[r]) ELSE me[r]]

\* Enabled rows, of which those never synced are skipped.  Mutant: the status
\* is not asked for.
ListedAny == {c \in Creds : db[c].synced}
Listed    == {c \in Creds : db[c].on /\ db[c].synced}

ListRows(p) ==
  /\ At(p, "list")
  /\ \/ /\ me' = [me EXCEPT ![p] = [@ EXCEPT !.pc = "build", !.work =
                    [c \in Listed |-> [up |-> FALSE, until |-> db[c].until]]]]
        /\ UNCHANGED flight
     \/ LeaveRefresh(p)
  /\ UNCHANGED <<clock, db, avail, throttle, checking, probing, spawned, missed>>

\* isCredentialUnderValidation, of each row.  Mutant: no row is skipped.
UncheckedAny(C) == C
Unchecked(C)    == C \ checking

BuildRows(p) ==
  /\ At(p, "build") /\ MuFree
  /\ me' = [me EXCEPT ![p] = [@ EXCEPT !.pc = "merge", !.at = clock, !.work =
              [c \in Unchecked(DOMAIN me[p].work) |-> Scored(me[p].work[c], clock)]]]
  /\ UNCHANGED <<clock, db, avail, throttle, checking, probing, flight, spawned, missed>>

\* applyMemoryThrottles.  Mutant: the windows in memory are not merged.
UnmergedRow(row, until, now) == row
MergedRow(row, until, now) ==
  IF now < until
    THEN [row EXCEPT !.until = IF until > @ THEN until ELSE @, !.up = FALSE]
    ELSE row

MergeThrottles(p) ==
  /\ At(p, "merge") /\ MuFree
  /\ me' = [me EXCEPT ![p] = [@ EXCEPT !.pc = "store", !.work =
              [c \in DOMAIN me[p].work |->
                 MergedRow(me[p].work[c], throttle[c].until, me[p].at)]]]
  /\ UNCHANGED <<clock, db, avail, throttle, checking, probing, flight, spawned, missed>>

StoreRows(p) ==
  /\ At(p, "store")
  /\ avail' = me[p].work
  /\ me' = [me EXCEPT ![p] = [@ EXCEPT !.pc = "clear", !.work = None, !.at = 0]]
  /\ missed' = [missed EXCEPT ![p] = {}]
  /\ UNCHANGED <<clock, db, throttle, checking, probing, flight, spawned>>

ClearExpired(p) ==
  /\ At(p, "clear") /\ MuFree
  /\ throttle' = [c \in Creds |->
                   IF Expired(throttle[c].until) THEN NoState ELSE throttle[c]]
  /\ LeaveRefresh(p)
  /\ UNCHANGED <<clock, db, avail, checking, probing, spawned, missed>>

-----------------------------------------------------------------------------
(* evictCredential, suspendCredentialTier, throttleCredentialTier *)

Storing == [evict |-> "evictStore", suspend |-> "suspendStore",
            throttle |-> "throttleStore"]

\* Without a snapshot there is nothing to edit.
Load(p) ==
  /\ me[p].pc \in DOMAIN Storing /\ MuFree
  /\ IF avail = None THEN Resume(p)
     ELSE me' = [me EXCEPT ![p] = [@ EXCEPT !.pc = Storing[me[p].pc], !.work = avail]]
  /\ UNCHANGED <<clock, db, avail, throttle, checking, probing, flight, spawned, missed>>

Edited(m) ==
  CASE m.pc = "evictStore"    -> [c \in DOMAIN m.work \ {m.c} |-> m.work[c]]
    [] m.pc = "suspendStore"  -> [c \in DOMAIN m.work |->
         IF c = m.c THEN [m.work[c] EXCEPT !.up = FALSE] ELSE m.work[c]]
    [] m.pc = "throttleStore" -> [c \in DOMAIN m.work |->
         IF c = m.c THEN [up |-> FALSE, until |-> m.at] ELSE m.work[c]]

StoreEdit(p) ==
  /\ me[p].pc \in Copying
  /\ avail' = Edited(me[p])
  /\ Resume(p)
  /\ UNCHANGED <<clock, db, throttle, checking, probing, flight, spawned, missed>>

-----------------------------------------------------------------------------
(* RecordSuccess, RecordFailure, HandleUnauthorized *)

RecordSuccess(p) ==
  /\ At(p, "success") /\ MuFree
  /\ throttle' = [throttle EXCEPT ![me[p].c] = NoState]
  /\ Return(p)
  /\ UNCHANGED <<clock, db, avail, checking, probing, flight, spawned, missed>>

\* The count starts over after a window; a Retry-After or the threshold throttles.
CountFailure(p) ==
  LET st == throttle[me[p].c]
      n  == (IF Expired(st.until) THEN 0 ELSE st.n) + 1
  IN /\ At(p, "count") /\ MuFree
     /\ throttle' = [throttle EXCEPT ![me[p].c].n = IF n > Threshold THEN Threshold ELSE n]
     /\ \/ me' = [me EXCEPT ![p] = [@ EXCEPT !.pc = "failDB", !.at = clock + 1]]
        \/ n < Threshold /\ Return(p)
     /\ UNCHANGED <<clock, db, avail, checking, probing, flight, spawned, missed>>

\* SetGeminiQuotaThrottled writes a row, synced or not.
ThrottleInDB(p) ==
  LET m == me[p]
  IN /\ At(p, "failDB")
     /\ \/ db' = [db EXCEPT ![m.c] = [@ EXCEPT !.until = m.at, !.synced = TRUE]]
        \/ UNCHANGED db
     /\ Goto(p, "remember")
     /\ UNCHANGED <<clock, avail, throttle, checking, probing, flight, spawned, missed>>

RememberThrottle(p) ==
  /\ At(p, "remember") /\ MuFree
  /\ throttle' = [throttle EXCEPT ![me[p].c].until = me[p].at]
  /\ Goto(p, "throttle")
  /\ Overtake(me[p].c, {"store"})
  /\ UNCHANGED <<clock, db, avail, checking, probing, flight, spawned>>

\* 401: the first to mark it starts the validation, after the eviction.
CheckUnauthorized(p) ==
  LET c == me[p].c
  IN /\ At(p, "unauth") /\ MuFree
     /\ throttle' = [throttle EXCEPT ![c] = NoState]
     /\ checking' = checking \cup {c}
     /\ Call(p, "evict", IF c \in checking THEN "idle" ELSE "validate")
     /\ Overtake(c, {"merge", "store"})
     /\ UNCHANGED <<clock, db, avail, probing, flight, spawned>>

\* `go validateCredentialAfterAuthFailure`, or that goroutine: a token exchange
\* that fails, or a quota that is refused after it, disables the credential.
Validate(p) ==
  /\ At(p, "validate")
  /\ IF me[p].op = "validate"
       THEN (Goto(p, "plan") \/ Goto(p, "last") \/ Call(p, "disable", "last"))
            /\ UNCHANGED spawned
       ELSE Return(p) /\ spawned' = spawned \cup {Job(p, "validate")}
  /\ UNCHANGED <<clock, db, avail, throttle, checking, probing, flight, missed>>

FinishValidation(p) ==
  /\ At(p, "finish") /\ MuFree
  /\ checking' = checking \ {me[p].c}
  /\ Return(p)
  /\ UNCHANGED <<clock, db, avail, throttle, probing, flight, spawned, missed>>

\* 402 and 403 disable at once.
RejectCredential(p) ==
  /\ At(p, "reject") /\ MuFree
  /\ throttle' = [throttle EXCEPT ![me[p].c] = NoState]
  /\ checking' = checking \ {me[p].c}
  /\ Goto(p, "disable")
  /\ UNCHANGED <<clock, db, avail, probing, flight, spawned, missed>>

\* A status, enabled or disabled, ends the windows of the row in the same
\* transaction, and that counts as a sync.
Cleared(on) == [on |-> on, synced |-> TRUE, until |-> clock]

\* DisableCredential: evicted only if the database took it.
DisableInDB(p) ==
  /\ At(p, "disable")
  /\ \/ /\ db' = [db EXCEPT ![me[p].c] = Cleared(FALSE)]
        /\ Goto(p, "evict")
        /\ Overtake(me[p].c, {"build", "merge", "store"})
     \/ Resume(p) /\ UNCHANGED <<db, missed>>
  /\ UNCHANGED <<clock, avail, throttle, checking, probing, flight, spawned>>

-----------------------------------------------------------------------------
(* QueueQuotaRefresh and its probe *)

\* startQuotaRefresh
MarkProbing(p) ==
  /\ At(p, "mark") /\ MuFree
  /\ IF me[p].c \in probing THEN Return(p) /\ UNCHANGED probing
     ELSE probing' = probing \cup {me[p].c} /\ Call(p, "suspend", "spawnProbe")
  /\ UNCHANGED <<clock, db, avail, throttle, checking, flight, spawned, missed>>

SpawnProbe(p) ==
  /\ At(p, "spawnProbe")
  /\ spawned' = spawned \cup {Job(p, "probe")}
  /\ Return(p)
  /\ UNCHANGED <<clock, db, avail, throttle, checking, probing, flight, missed>>

\* Without a token, a project or a quota: a short throttle, in memory only.
ProbeQuota(p) ==
  /\ At(p, "probe")
  /\ \/ Goto(p, "apply")
     \/ me' = [me EXCEPT ![p] =
          [@ EXCEPT !.pc = "remember", !.at = clock + 1, !.then = "unmark"]]
  /\ UNCHANGED <<clock, db, avail, throttle, checking, probing, flight, spawned, missed>>

CompleteProbe(p) ==
  /\ At(p, "unmark") /\ MuFree
  /\ probing' = probing \ {me[p].c}
  /\ Return(p)
  /\ UNCHANGED <<clock, db, avail, throttle, checking, flight, spawned, missed>>

-----------------------------------------------------------------------------
(* syncQuotaRow and syncImportedCredential *)

\* An upstream that rejects the credential: the syncer hands it to
\* HandleUnauthorized, the import evicts it and disables it.
FetchQuota(p) ==
  /\ At(p, "fetch")
  /\ \/ Goto(p, "plan") \/ Goto(p, "last")
     \/ me[p].op = "import" /\ Call(p, "evict", "disable")
     \/ me[p].op = "sync" /\ \E next \in {"unauth", "reject"} : Goto(p, next)
  /\ UNCHANGED <<clock, db, avail, throttle, checking, probing, flight, spawned, missed>>

\* refreshPlanType rebuilds if the credential of a new plan is not in the
\* snapshot; otherwise the plan's code changes there, and nothing modelled.
RefreshPlanType(p) ==
  /\ At(p, "plan")
  /\ Goto(p, "apply") \/ (~InPool(me[p].c) /\ Call(p, "refresh", "apply"))
  /\ UNCHANGED <<clock, db, avail, throttle, checking, probing, flight, spawned, missed>>

\* The score of a quota that may be used up.  Mutant: the row's window is not
\* asked for.
RescoredAlways(row, now) == [row EXCEPT !.up = TRUE]
Rescored(row, now)       == Scored(row, now)

\* applyQuotaToAvailable
ApplyQuota(p) ==
  LET m == me[p]
  IN /\ At(p, "apply")
     /\ IF InPool(m.c)
          THEN \/ avail' = [avail EXCEPT ![m.c] = Rescored(@, clock)]
               \/ avail' = [avail EXCEPT ![m.c].up = FALSE]
          ELSE UNCHANGED avail
     /\ me' = [me EXCEPT ![p].pc = IF m.op = "probe" THEN "unmark" ELSE "upsert",
                         ![p].at = IF m.op # "probe" /\ InPool(m.c) THEN 1 ELSE 0]
     /\ UNCHANGED <<clock, db, throttle, checking, probing, flight, spawned, missed>>

\* Rebuilt at once if the row was not in the snapshot.
UpsertQuota(p) ==
  LET m == me[p]
  IN /\ At(p, "upsert")
     /\ \/ /\ db' = [db EXCEPT ![m.c].synced = TRUE]
           /\ me' = [me EXCEPT ![p] = [m EXCEPT !.at = 0, !.then = "last",
                                        !.pc = IF m.at = 0 THEN "refresh" ELSE "last"]]
        \/ UNCHANGED db /\ me' = [me EXCEPT ![p] = [m EXCEPT !.pc = "last", !.at = 0]]
     /\ UNCHANGED <<clock, avail, throttle, checking, probing, flight, spawned, missed>>

\* After the last credential: the syncer caches the rows it lists itself, the
\* import and the validation reload, the validation ends after that.
LastRefresh(p) ==
  /\ At(p, "last")
  /\ Call(p, IF me[p].op = "sync" THEN "list" ELSE "refresh",
             IF me[p].op = "validate" THEN "finish" ELSE "idle")
  /\ UNCHANGED <<clock, db, avail, throttle, checking, probing, flight, spawned, missed>>

-----------------------------------------------------------------------------
\* listAvailable reloads a missing snapshot, and when a window has passed.
ListAvailable(p) ==
  /\ At(p, "select") /\ MuFree
  /\ IF avail = None \/ \E c \in Creds : Expired(throttle[c].until)
       THEN Goto(p, "refresh") ELSE Return(p)
  /\ UNCHANGED <<clock, db, avail, throttle, checking, probing, flight, spawned, missed>>

\* The batch handlers: a status, then the pool rebuilt.
AdminSetStatus(p) ==
  /\ At(p, "adminDB")
  /\ \E on \in BOOLEAN :
       /\ db' = [db EXCEPT ![me[p].c] = Cleared(on)]
       /\ IF on THEN UNCHANGED missed ELSE Overtake(me[p].c, {"build", "merge", "store"})
  /\ Goto(p, "refresh")
  /\ UNCHANGED <<clock, avail, throttle, checking, probing, flight, spawned>>

First == [fail |-> "count", success |-> "success", unauth |-> "unauth",
          reject |-> "reject", queue |-> "mark", sync |-> "fetch",
          import |-> "fetch", select |-> "select", admin |-> "adminDB",
          probe |-> "probe", validate |-> "validate", wake |-> "refresh"]

Run(p, op, c) == At(p, "idle") /\ me' = [me EXCEPT ![p] =
                                  [Idle EXCEPT !.pc = First[op], !.op = op, !.c = c]]

\* The syncer is one goroutine, and importSyncMu lets one import through.
Start(p, op, c) ==
  /\ op \in mix
  /\ op \in {"sync", "import"} => \A r \in Procs : me[r].op # op
  /\ Run(p, op, c)
  /\ UNCHANGED <<clock, db, avail, throttle, checking, probing, flight, spawned, missed>>

StartJob(p, j) ==
  /\ j \in spawned /\ Run(p, j.op, j.c)
  /\ spawned' = spawned \ {j}
  /\ UNCHANGED <<clock, db, avail, throttle, checking, probing, flight, missed>>

\* The goroutine of StartThrottleDeadlineRefresh, when it starts, at the first
\* deadline in the database and once a minute; the timers of rememberThrottleUntil
\* do the same at theirs.
Wake(p) ==
  /\ \A r \in Procs : me[r].op # "wake"
  /\ Run(p, "wake", None)
  /\ UNCHANGED <<clock, db, avail, throttle, checking, probing, flight, spawned, missed>>

Tick ==
  /\ clock < MaxClock /\ clock' = clock + 1
  /\ UNCHANGED <<db, avail, throttle, checking, probing, flight, spawned, me, missed>>

Step(p) ==
  \/ EnterRefresh(p) \/ ListRows(p) \/ BuildRows(p) \/ MergeThrottles(p)
  \/ StoreRows(p) \/ ClearExpired(p)
  \/ Load(p) \/ StoreEdit(p)
  \/ RecordSuccess(p) \/ CountFailure(p) \/ ThrottleInDB(p) \/ RememberThrottle(p)
  \/ CheckUnauthorized(p) \/ Validate(p) \/ FinishValidation(p)
  \/ RejectCredential(p) \/ DisableInDB(p)
  \/ MarkProbing(p) \/ SpawnProbe(p) \/ ProbeQuota(p) \/ CompleteProbe(p)
  \/ FetchQuota(p) \/ RefreshPlanType(p) \/ ApplyQuota(p) \/ UpsertQuota(p)
  \/ LastRefresh(p) \/ ListAvailable(p) \/ AdminSetStatus(p)

Next ==
  /\ \/ Tick
     \/ \E p \in Procs : \/ Step(p)
                         \/ \E op \in AllOps, c \in Creds : Start(p, op, c)
                         \/ Wake(p)
                         \/ \E j \in spawned : StartJob(p, j)
  /\ UNCHANGED mix

Spec == Init /\ [][Next]_vars

-----------------------------------------------------------------------------
\* A credential that is disabled or under validation is out of the snapshot, one
\* in a throttle window out of the selection, for as long as that lasts.  What
\* brings it back is a rebuild that had looked before, or an edit that overwrites
\* what was stored since it loaded; never a quota, a plan type or a probe.
Barred(c)    == c \in checking \/ ~db[c].on
Throttled(c) == throttle[c].until > clock
Recorded(c)  == InPool(c) /\ ~Up(c) /\ avail[c].until > clock
                  /\ \A p \in Procs : ~(me[p].c = c /\ me[p].pc \in {"throttle", "throttleStore"})
BackIfMissed ==
  \A c \in Creds :
    \/ Barred(c) /\ Barred(c)' /\ ~InPool(c) /\ InPool(c)'
    \/ Throttled(c) /\ Throttled(c)' /\ Recorded(c) /\ Up(c)'
    => \E p \in Procs : \/ StoreRows(p) /\ c \in missed[p]
                        \/ StoreEdit(p) /\ me[p].work # avail
BackOnlyIfMissed == [][BackIfMissed]_vars
=============================================================================
