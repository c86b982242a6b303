---------------------------- MODULE AntigravityPool ----------------------------
(***************************************************************************)
(* The credential pool of the Antigravity scheduler                        *)
(* (core/antigravity/scheduler.go).  Unlike the Codex one every edit of    *)
(* the snapshot is a compare-and-swap loop (updateAvailableRows): one step *)
(* here.  Only a rebuild overwrites it, and rebuilds run side by side.     *)
(*                                                                         *)
(* One tier stands for a credential's six: they share its row and nothing  *)
(* else.  A score is abstracted to `up`, and whether the quota allows it to *)
(* be positive is anybody's guess; every window lasts one tick of the      *)
(* clock.  Plan types, credits and the limit on probes are left out.       *)
(***************************************************************************)
EXTENDS Naturals

CONSTANTS Procs,     (* goroutines in progress at once                       *)
          Creds,
          None,      (* no snapshot, no argument                             *)
          Mixes,     (* sets of operations that meet in one behaviour        *)
          Threshold, (* ConsecutiveFailureThrottleThreshold                  *)
          MaxClock   (* bound: the last instant of a behaviour               *)

AllOps == {"fail", "success", "unauth", "reject", "queue", "sync", "import",
           "select", "admin"}

VARIABLES
  clock,
  db,       (* the antigravity and antigravity_quota rows                    *)
  avail,    (* available: nil or the rows by credential                      *)
  throttle, (* consecutive failures and until, by credential                 *)
  checking, (* credentials under validation                                  *)
  probing,  (* quotaRefreshing                                               *)
  spawned,  (* goroutines started and not yet run                            *)
  mix,      (* the operations started from outside in this behaviour         *)
  me        (* each goroutine in progress                                    *)

\* History, read by properties only.
VARIABLE
  missed    (* for each rebuild in progress, the credentials taken out since *)
            (* it looked                                                     *)

vars == <<clock, db, avail, throttle, checking, probing, spawned, mix, me, missed>>

Times   == 0 .. MaxClock + 1      \* 0 is the zero time.Time
NoState == [n |-> 0, until |-> 0]
Rows    == [up : BOOLEAN, until : Times]
Snapshots == UNION {[C -> Rows] : C \in SUBSET Creds}
CredRows  == [on : BOOLEAN, synced : BOOLEAN, until : Times]
Jobs      == [op : {"probe", "validate"}, c : Creds]

PCs == {"idle", "select", "list", "build", "merge", "store", "clear",
        "count", "failDB", "remember", "throttle", "success",
        "unauth", "evict", "verify", "finish", "reject", "disable",
        "mark", "suspend", "probe", "unmark",
        "fetch", "apply", "upsert", "adminDB"}

Idle == [pc |-> "idle", op |-> "none", c |-> None, then |-> "idle", at |-> 0,
         work |-> None]

TypeOK ==
  /\ clock \in 0 .. MaxClock
  /\ db \in [Creds -> CredRows]
  /\ avail \in Snapshots \cup {None}
  /\ throttle \in [Creds -> [n : 0 .. Threshold, until : Times]]
  /\ checking \subseteq Creds /\ probing \subseteq Creds
  /\ spawned \subseteq Jobs /\ mix \in Mixes
  /\ me \in [Procs -> [pc : PCs, op : AllOps \cup {"none", "wake", "probe", "validate"},
                       c : Creds \cup {None}, then : PCs, at : Times,
                       work : Snapshots \cup {None}]]
  /\ missed \in [Procs -> SUBSET Creds]

\* A restart: nothing is left in memory.
Init ==
  /\ clock = 0
  /\ \E on, synced \in [Creds -> BOOLEAN] :
       db = [c \in Creds |-> [on |-> on[c], synced |-> synced[c], until |-> 0]]
  /\ avail = None
  /\ throttle = [c \in Creds |-> NoState]
  /\ checking = {} /\ probing = {} /\ spawned = {}
  /\ mix \in Mixes
  /\ me = [p \in Procs |-> Idle]
  /\ missed = [p \in Procs |-> {}]

-----------------------------------------------------------------------------
At(p, here)   == me[p].pc = here
Goto(p, next) == me' = [me EXCEPT ![p].pc = next]
Return(p)     == me' = [me EXCEPT ![p] = Idle]

\* p calls a routine and goes on at `next` after it.
Call(p, routine, next) == me' = [me EXCEPT ![p] = [@ EXCEPT !.pc = routine, !.then = next]]
Back(r) == IF r.then = "idle" THEN Idle
           ELSE [r EXCEPT !.pc = r.then, !.then = "idle", !.at = 0, !.work = None]
Resume(p) == me' = [me EXCEPT ![p] = Back(@)]

Job(p, op) == [op |-> op, c |-> me[p].c]

\* Where HandleUnauthorized returns to: the syncer still lists all rows at its end.
Caller(p) == IF me[p].op = "sync" THEN "list" ELSE "idle"

InPool(c) == avail # None /\ c \in DOMAIN avail
Up(c)     == InPool(c) /\ avail[c].up

Expired(until) == until # 0 /\ until <= clock
Scored(row, now)   == [row EXCEPT !.up = now >= row.until]

\* What happens to c is news for the rebuilds that stand at these places.
Overtake(c, places) ==
  missed' = [r \in Procs |-> IF me[r].pc \in places THEN missed[r] \cup {c} ELSE missed[r]]

-----------------------------------------------------------------------------
(* RefreshAvailable and refreshAvailableFromRows *)

\* Enabled rows, of which those never synced are skipped.  Mutant: the status
\* is not asked for.
ListedAny == {c \in Creds : db[c].synced}
Listed    == {c \in Creds : db[c].on /\ db[c].synced}

ListRows(p) ==
  /\ At(p, "list")
  /\ \/ me' = [me EXCEPT ![p] = [@ EXCEPT !.pc = "build", !.work =
                [c \in Listed |-> [up |-> FALSE, until |-> db[c].until]]]]
     \/ Resume(p)
  /\ UNCHANGED <<clock, db, avail, throttle, checking, probing, spawned, missed>>

\* isCredentialUnderValidation, of each row.  Mutant: no row is skipped.
UncheckedAny(C) == C
Unchecked(C)    == C \ checking

BuildRows(p) ==
  /\ At(p, "build")
  /\ me' = [me EXCEPT ![p] = [@ EXCEPT !.pc = "merge", !.at = clock, !.work =
              [c \in Unchecked(DOMAIN me[p].work) |-> Scored(me[p].work[c], clock)]]]
  /\ UNCHANGED <<clock, db, avail, throttle, checking, probing, spawned, missed>>

\* applyMemoryThrottles.  Mutant: the windows in memory are not merged.
UnmergedRow(row, until, now) == row
MergedRow(row, until, now) ==
  IF now < until
    THEN [row EXCEPT !.until = IF until > @ THEN until ELSE @, !.up = FALSE]
    ELSE row

MergeThrottles(p) ==
  /\ At(p, "merge")
  /\ me' = [me EXCEPT ![p] = [@ EXCEPT !.pc = "store", !.work =
              [c \in DOMAIN me[p].work |->
                 MergedRow(me[p].work[c], throttle[c].until, me[p].at)]]]
  /\ UNCHANGED <<clock, db, avail, throttle, checking, probing, spawned, missed>>

StoreRows(p) ==
  /\ At(p, "store")
  /\ avail' = me[p].work
  /\ me' = [me EXCEPT ![p] = [@ EXCEPT !.pc = "clear", !.work = None]]
  /\ missed' = [missed EXCEPT ![p] = {}]
  /\ UNCHANGED <<clock, db, throttle, checking, probing, spawned>>

\* clearExpiredThrottlesLocked, as of the instant of BuildRows.
ClearExpired(p) ==
  /\ At(p, "clear")
  /\ throttle' = [c \in Creds |->
                   IF throttle[c].until # 0 /\ throttle[c].until <= me[p].at
                     THEN NoState ELSE throttle[c]]
  /\ Resume(p)
  /\ UNCHANGED <<clock, db, avail, checking, probing, spawned, missed>>

-----------------------------------------------------------------------------
(* The edits of the snapshot: compare-and-swap loops *)

Evict(p) ==
  /\ At(p, "evict")
  /\ avail' = IF avail = None THEN None
              ELSE [c \in DOMAIN avail \ {me[p].c} |-> avail[c]]
  /\ Resume(p)
  /\ UNCHANGED <<clock, db, throttle, checking, probing, spawned, missed>>

\* startQuotaRefresh's suspension, after which the probe is started.
Suspend(p) ==
  /\ At(p, "suspend")
  /\ avail' = IF InPool(me[p].c) THEN [avail EXCEPT ![me[p].c].up = FALSE] ELSE avail
  /\ spawned' = spawned \cup {Job(p, "probe")}
  /\ Return(p)
  /\ UNCHANGED <<clock, db, throttle, checking, probing, missed>>

\* throttleCredentialTier
ThrottleRow(p) ==
  LET m == me[p]
  IN /\ At(p, "throttle")
     /\ avail' = IF InPool(m.c)
                   THEN [avail EXCEPT ![m.c] = [@ EXCEPT !.up = FALSE, !.until = m.at]]
                   ELSE avail
     /\ Resume(p)
     /\ UNCHANGED <<clock, db, throttle, checking, probing, spawned, missed>>

-----------------------------------------------------------------------------
(* RecordSuccess, RecordFailure, HandleUnauthorized *)

RecordSuccess(p) ==
  /\ At(p, "success")
  /\ throttle' = [throttle EXCEPT ![me[p].c] = NoState]
  /\ Return(p)
  /\ UNCHANGED <<clock, db, avail, checking, probing, spawned, missed>>

\* The count starts over after a window; a Retry-After or the threshold throttles.
CountFailure(p) ==
  LET st == throttle[me[p].c]
      n  == (IF Expired(st.until) THEN 0 ELSE st.n) + 1
  IN /\ At(p, "count")
     /\ throttle' = [throttle EXCEPT ![me[p].c].n = IF n > Threshold THEN Threshold ELSE n]
     /\ \/ me' = [me EXCEPT ![p] = [@ EXCEPT !.pc = "failDB", !.at = clock + 1]]
        \/ n < Threshold /\ Return(p)
     /\ UNCHANGED <<clock, db, avail, checking, probing, spawned, missed>>

\* SetAntigravityQuotaThrottled writes a row, synced or not.
ThrottleInDB(p) ==
  LET m == me[p]
  IN /\ At(p, "failDB")
     /\ \/ db' = [db EXCEPT ![m.c] = [@ EXCEPT !.until = m.at, !.synced = TRUE]]
        \/ UNCHANGED db
     /\ Goto(p, "remember")
     /\ UNCHANGED <<clock, avail, throttle, checking, probing, spawned, missed>>

RememberThrottle(p) ==
  /\ At(p, "remember")
  /\ throttle' = [throttle EXCEPT ![me[p].c].until = me[p].at]
  /\ Goto(p, "throttle")
  /\ Overtake(me[p].c, {"store"})
  /\ UNCHANGED <<clock, db, avail, checking, probing, spawned>>

\* 401: the first to mark it starts the validation, after the eviction.
CheckUnauthorized(p) ==
  LET c == me[p].c
  IN /\ At(p, "unauth")
     /\ throttle' = [throttle EXCEPT ![c] = NoState]
     /\ checking' = checking \cup {c}
     /\ Call(p, "evict", IF c \in checking THEN Caller(p) ELSE "verify")
     /\ Overtake(c, {"merge", "store"})
     /\ UNCHANGED <<clock, db, avail, probing, spawned>>

\* `go validateCredentialAfterUnauthorized`, or the validation at work.
Verify(p) ==
  /\ At(p, "verify")
  /\ IF me[p].op = "validate"
       THEN /\ Call(p, "list", "finish") \/ Call(p, "disable", "finish")
            /\ UNCHANGED spawned
       ELSE /\ spawned' = spawned \cup {Job(p, "validate")}
            /\ IF Caller(p) = "idle" THEN Return(p) ELSE Goto(p, "list")
  /\ UNCHANGED <<clock, db, avail, throttle, checking, probing, missed>>

FinishValidation(p) ==
  /\ At(p, "finish")
  /\ checking' = checking \ {me[p].c}
  /\ Return(p)
  /\ UNCHANGED <<clock, db, avail, throttle, probing, spawned, missed>>

\* 402 and 403 disable at once.
RejectCredential(p) ==
  /\ At(p, "reject")
  /\ throttle' = [throttle EXCEPT ![me[p].c] = NoState]
  /\ checking' = checking \ {me[p].c}
  /\ Call(p, "disable", Caller(p))
  /\ UNCHANGED <<clock, db, avail, probing, spawned, missed>>

\* A status, enabled or disabled, ends the windows of the row in the same
\* transaction, and that counts as a sync.
Cleared(on) == [on |-> on, synced |-> TRUE, until |-> clock]

\* disableCredential: evicted only if the database took it.
DisableInDB(p) ==
  /\ At(p, "disable")
  /\ \/ /\ db' = [db EXCEPT ![me[p].c] = Cleared(FALSE)]
        /\ me' = [me EXCEPT ![p].pc = "evict"]
        /\ Overtake(me[p].c, {"build", "merge", "store"})
     \/ Resume(p) /\ UNCHANGED <<db, missed>>
  /\ UNCHANGED <<clock, avail, throttle, checking, probing, spawned>>

-----------------------------------------------------------------------------
(* QueueQuotaRefresh and its probe; UpdateQuota, by the syncer and the import *)

MarkProbing(p) ==
  /\ At(p, "mark")
  /\ IF me[p].c \in probing THEN Return(p) /\ UNCHANGED probing
     ELSE probing' = probing \cup {me[p].c} /\ Goto(p, "suspend")
  /\ UNCHANGED <<clock, db, avail, throttle, checking, spawned, missed>>

\* Without a token, a project or a quota: a short throttle, in memory only.
ProbeQuota(p) ==
  /\ At(p, "probe")
  /\ \/ Goto(p, "apply")
     \/ me' = [me EXCEPT ![p] =
          [@ EXCEPT !.pc = "remember", !.at = clock + 1, !.then = "unmark"]]
  /\ UNCHANGED <<clock, db, avail, throttle, checking, probing, spawned, missed>>

CompleteProbe(p) ==
  /\ At(p, "unmark")
  /\ probing' = probing \ {me[p].c}
  /\ Return(p)
  /\ UNCHANGED <<clock, db, avail, throttle, checking, spawned, missed>>

\* An upstream that rejects the credential: the syncer hands it to
\* HandleUnauthorized, the import disables it.
FetchQuota(p) ==
  /\ At(p, "fetch")
  /\ \/ Goto(p, "apply")
     \/ me[p].op = "import" /\ (Call(p, "disable", "list") \/ Goto(p, "list"))
     \/ me[p].op = "sync" /\ \E next \in {"unauth", "reject", "list"} : Goto(p, next)
  /\ UNCHANGED <<clock, db, avail, throttle, checking, probing, spawned, missed>>

\* throttleAwareScore, of a quota that may be used up.  Mutant: the row's window
\* is not asked for.
ScoredAlways(row, now) == [row EXCEPT !.up = TRUE]
Rescored(row, now)     == Scored(row, now)

ApplyQuota(p) ==
  LET m == me[p]
  IN /\ At(p, "apply")
     /\ IF InPool(m.c)
          THEN \/ avail' = [avail EXCEPT ![m.c] = Rescored(@, clock)]
               \/ avail' = [avail EXCEPT ![m.c].up = FALSE]
          ELSE UNCHANGED avail
     /\ me' = [me EXCEPT ![p].pc = IF m.op = "probe" THEN "unmark" ELSE "upsert",
                         ![p].at = IF m.op # "probe" /\ InPool(m.c) THEN 1 ELSE 0]
     /\ UNCHANGED <<clock, db, throttle, checking, probing, spawned, missed>>

\* The row is rebuilt at once if it was not in the snapshot; the syncer and the
\* import list all rows after their last credential anyway.
UpsertQuota(p) ==
  LET m == me[p]
  IN /\ At(p, "upsert")
     /\ \/ /\ db' = [db EXCEPT ![m.c].synced = TRUE]
           /\ me' = [me EXCEPT ![p] = [m EXCEPT !.pc = "list", !.at = 0, !.then =
                       IF m.at = 0 THEN "list" ELSE "idle"]]
        \/ UNCHANGED db /\ me' = [me EXCEPT ![p] = [m EXCEPT !.pc = "list", !.at = 0]]
     /\ UNCHANGED <<clock, avail, throttle, checking, probing, spawned, missed>>

-----------------------------------------------------------------------------
\* listAvailable reloads an empty snapshot, and when a window has passed.
ListAvailable(p) ==
  /\ At(p, "select")
  /\ IF avail = None \/ (avail # None /\ DOMAIN avail = {})
        \/ \E c \in Creds : Expired(throttle[c].until)
       THEN Goto(p, "list") ELSE Return(p)
  /\ UNCHANGED <<clock, db, avail, throttle, checking, probing, spawned, missed>>

\* The batch handlers: a status, then the pool rebuilt.
AdminSetStatus(p) ==
  /\ At(p, "adminDB")
  /\ \E on \in BOOLEAN :
       /\ db' = [db EXCEPT ![me[p].c] = Cleared(on)]
       /\ IF on THEN UNCHANGED missed ELSE Overtake(me[p].c, {"build", "merge", "store"})
  /\ Goto(p, "list")
  /\ UNCHANGED <<clock, avail, throttle, checking, probing, spawned>>

First == [fail |-> "count", success |-> "success", unauth |-> "unauth",
          reject |-> "reject", queue |-> "mark", sync |-> "fetch",
          import |-> "fetch", select |-> "select", admin |-> "adminDB",
          probe |-> "probe", validate |-> "verify", wake |-> "list"]

Run(p, op, c) == At(p, "idle") /\ me' = [me EXCEPT ![p] =
                                  [Idle EXCEPT !.pc = First[op], !.op = op, !.c = c]]

Start(p, op, c) ==
  /\ op \in mix
  /\ op \in {"sync", "import"} => \A r \in Procs : me[r].op # op
  /\ Run(p, op, c)
  /\ UNCHANGED <<clock, db, avail, throttle, checking, probing, spawned, missed>>

StartJob(p, j) ==
  /\ j \in spawned /\ Run(p, j.op, j.c)
  /\ spawned' = spawned \ {j}
  /\ UNCHANGED <<clock, db, avail, throttle, checking, probing, missed>>

\* The goroutine of StartThrottleDeadlineRefresh, when it starts, at the first
\* deadline in the database and once a minute; the timers of rememberThrottleUntil
\* do the same at theirs.
Wake(p) ==
  /\ \A r \in Procs : me[r].op # "wake"
  /\ Run(p, "wake", None)
  /\ UNCHANGED <<clock, db, avail, throttle, checking, probing, spawned, missed>>

Tick ==
  /\ clock < MaxClock /\ clock' = clock + 1
  /\ UNCHANGED <<db, avail, throttle, checking, probing, spawned, me, missed>>

Step(p) ==
  \/ ListRows(p) \/ BuildRows(p) \/ MergeThrottles(p) \/ StoreRows(p) \/ ClearExpired(p)
  \/ Evict(p) \/ Suspend(p) \/ ThrottleRow(p)
  \/ RecordSuccess(p) \/ CountFailure(p) \/ ThrottleInDB(p) \/ RememberThrottle(p)
  \/ CheckUnauthorized(p) \/ Verify(p) \/ FinishValidation(p)
  \/ RejectCredential(p) \/ DisableInDB(p)
  \/ MarkProbing(p) \/ ProbeQuota(p) \/ CompleteProbe(p)
  \/ FetchQuota(p) \/ ApplyQuota(p) \/ UpsertQuota(p)
  \/ ListAvailable(p) \/ AdminSetStatus(p)

Next ==
  /\ \/ Tick
     \/ \E p \in Procs : \/ Step(p)
                         \/ \E op \in AllOps, c \in Creds : Start(p, op, c)
                         \/ Wake(p)
                         \/ \E j \in spawned : StartJob(p, j)
  /\ UNCHANGED mix

Spec == Init /\ [][Next]_vars

-----------------------------------------------------------------------------
\* A credential that is disabled or under validation is out of the snapshot, one
\* in a throttle window is out of the selection, for as long as that lasts: a
\* rebuild that had looked before may bring it back, no edit, quota or probe.
Barred(c)    == c \in checking \/ ~db[c].on
Throttled(c) == throttle[c].until > clock
Recorded(c)  == InPool(c) /\ ~Up(c) /\ avail[c].until > clock
                  /\ \A p \in Procs : ~(me[p].c = c /\ At(p, "throttle"))
BackIfMissed ==
  \A c \in Creds :
    \/ Barred(c) /\ Barred(c)' /\ ~InPool(c) /\ InPool(c)'
    \/ Throttled(c) /\ Throttled(c)' /\ Recorded(c) /\ Up(c)'
    => \E p \in Procs : StoreRows(p) /\ c \in missed[p]
BackOnlyIfMissed == [][BackIfMissed]_vars
=============================================================================
