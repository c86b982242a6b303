----------------------------- MODULE OpenCodePool -----------------------------
(***************************************************************************)
(* The credential pool of the OpenCode Go scheduler                        *)
(* (core/opencodego/scheduler.go).  Every edit of the snapshot is a Load   *)
(* and a Store with no lock around them and no compare-and-swap; quotas    *)
(* are written to the database and read back by a rebuild.  There is no    *)
(* validation: a rejected API key disables its credential.                 *)
(*                                                                         *)
(* A score is abstracted to `up`, every window lasts one tick of the clock *)
(* and the quota always allows a positive score; error-rate weights and    *)
(* the order of the rows are left out.                                     *)
(***************************************************************************)
EXTENDS Naturals

CONSTANTS Procs,     (* goroutines in progress at once                       *)
          Creds,
          None,      (* no snapshot, no flight, no argument                  *)
          Mixes,     (* sets of operations that meet in one behaviour        *)
          Threshold, (* ConsecutiveFailureThrottleThreshold                  *)
          MaxClock   (* bound: the last instant of a behaviour               *)

AllOps == {"fail", "success", "reject", "queue", "sync", "rescore", "select",
           "admin"}

VARIABLES
  clock,
  db,       (* the opencode_go and opencode_go_quota rows                    *)
  avail,    (* available: nil or the rows by credential                      *)
  throttle, (* consecutive failures and until, by credential                 *)
  probing,  (* quotaRefreshing                                               *)
  flight,   (* the goroutine that runs refreshGroup's function               *)
  spawned,  (* credentials whose queued probe has not run yet                *)
  mix,      (* the operations started from outside in this behaviour         *)
  me        (* each goroutine in progress                                    *)

\* History, read by properties only.
VARIABLE
  missed    (* for each rebuild in progress, the credentials taken out since *)
            (* it looked                                                     *)

vars == <<clock, db, avail, throttle, probing, flight, spawned, mix, me, missed>>

Times   == 0 .. MaxClock + 1      \* 0 is the zero time.Time
NoState == [n |-> 0, until |-> 0]
Rows    == [up : BOOLEAN, until : Times]
Snapshots == UNION {[C -> Rows] : C \in SUBSET Creds}
CredRows  == [on : BOOLEAN, until : Times]

Copying == {"suspendStore", "evictStore", "rescoreStore"}
PCs == {"idle", "refresh", "join", "list", "merge", "store", "suspend", "evict",
        "rescore", "count", "remember", "failDB", "success", "reject", "mark",
        "probe", "upsert", "unmark", "sync", "last", "select", "adminDB"} \cup Copying

Idle == [pc |-> "idle", op |-> "none", c |-> None, then |-> "idle", at |-> 0,
         n |-> 0, work |-> None]

TypeOK ==
  /\ clock \in 0 .. MaxClock
  /\ db \in [Creds -> CredRows]
  /\ avail \in Snapshots \cup {None}
  /\ throttle \in [Creds -> [n : 0 .. Threshold, until : Times]]
  /\ probing \subseteq Creds /\ spawned \subseteq Creds
  /\ flight \in Procs \cup {None} /\ mix \in Mixes
  /\ me \in [Procs -> [pc : PCs, op : AllOps \cup {"none", "wake", "probe"},
                       c : Creds \cup {None}, then : PCs, at : Times,
                       n : 0 .. Threshold, work : Snapshots \cup {None}]]
  /\ missed \in [Procs -> SUBSET Creds]

\* A restart: nothing is left in memory.
Init ==
  /\ clock = 0
  /\ \E on \in [Creds -> BOOLEAN] : db = [c \in Creds |-> [on |-> on[c], until |-> 0]]
  /\ avail = None
  /\ throttle = [c \in Creds |-> NoState]
  /\ probing = {} /\ flight = None /\ spawned = {}
  /\ mix \in Mixes
  /\ me = [p \in Procs |-> Idle]
  /\ missed = [p \in Procs |-> {}]

-----------------------------------------------------------------------------
At(p, here)   == me[p].pc = here
Goto(p, next) == me' = [me EXCEPT ![p].pc = next]
Return(p)     == me' = [me EXCEPT ![p] = Idle]

\* p calls a routine and goes on at `next` after it.
Call(p, routine, next) == me' = [me EXCEPT ![p] = [@ EXCEPT !.pc = routine, !.then = next]]
Back(r) == IF r.then = "idle" THEN Idle
           ELSE [r EXCEPT !.pc = r.then, !.then = "idle", !.work = None]

InPool(c) == avail # None /\ c \in DOMAIN avail
Up(c)     == InPool(c) /\ avail[c].up
Expired(until) == until # 0 /\ until <= clock

\* What happens to c is news for the rebuilds that stand at these places.
Overtaken(c, places) ==
  [r \in Procs |-> IF me[r].pc \in places THEN missed[r] \cup {c} ELSE missed[r]]

-----------------------------------------------------------------------------
(* RefreshAvailable and refreshAvailableFromRows *)

EnterRefresh(p) ==
  /\ At(p, "refresh")
  /\ IF flight = None THEN flight' = p /\ Goto(p, "list")
                      ELSE UNCHANGED flight /\ Goto(p, "join")
  /\ UNCHANGED <<clock, db, avail, throttle, probing, spawned, missed>>

\* The flight ends, for its leader and for those that joined it.
LeaveRefresh(p) ==
  /\ flight' = IF flight = p THEN None ELSE flight
  /\ me' = [r \in Procs |->
              IF r = p \/ (flight = p /\ At(r, "join")) THEN Back(me[r]) ELSE me[r]]

\* ListAvailableOpenCodeGo's enabled rows.  Mutant: disabled ones as well.
ListedAny == Creds
Listed    == {c \in Creds : db[c].on}

\* A row's own window, as of the instant it is read.
Scored(until, now) == [up |-> until <= now, until |-> until]

ListRows(p) ==
  /\ At(p, "list")
  /\ \/ /\ me' = [me EXCEPT ![p] = [@ EXCEPT !.pc = "merge", !.at = clock,
                    !.work = [c \in Listed |-> Scored(db[c].until, clock)]]]
        /\ UNCHANGED flight
     \/ LeaveRefresh(p)
  /\ UNCHANGED <<clock, db, avail, throttle, probing, spawned, missed>>

\* A window in memory replaces the row's.  Mutant: it is not merged.
UnmergedRow(row, until, now) == row
MergedRow(row, until, now) ==
  IF until > now THEN [up |-> FALSE, until |-> until] ELSE row

\* applyMemoryThrottles: a state without an open window is dropped, the count
\* of failures that no window followed yet with it.
MergeThrottles(p) ==
  LET now == me[p].at
  IN /\ At(p, "merge")
     /\ throttle' = [c \in Creds |-> IF throttle[c].until > now THEN throttle[c] ELSE NoState]
     /\ me' = [me EXCEPT ![p] = [@ EXCEPT !.pc = "store", !.work =
                 [c \in DOMAIN me[p].work |->
                    MergedRow(me[p].work[c], throttle[c].until, now)]]]
     /\ UNCHANGED <<clock, db, avail, probing, flight, spawned, missed>>

StoreRows(p) ==
  /\ At(p, "store")
  /\ avail' = me[p].work
  /\ LeaveRefresh(p)
  /\ missed' = [missed EXCEPT ![p] = {}]
  /\ UNCHANGED <<clock, db, throttle, probing, spawned>>

-----------------------------------------------------------------------------
(* suspendCredential, evictCredential, refreshAvailableScores *)

Storing == [suspend |-> "suspendStore", evict |-> "evictStore",
            rescore |-> "rescoreStore"]

\* Without a snapshot there is nothing to edit.
Load(p) ==
  /\ me[p].pc \in DOMAIN Storing
  /\ me' = [me EXCEPT ![p] =
       IF avail = None THEN Back(@)
       ELSE [@ EXCEPT !.pc = Storing[me[p].pc], !.work = avail,
                      !.at = IF me[p].pc = "rescore" THEN clock ELSE me[p].at]]
  /\ UNCHANGED <<clock, db, avail, throttle, probing, flight, spawned, missed>>

\* The score of a row whose window has passed is computed again.  Mutant: every
\* row's is.
RescoredAlways(row, now) == [row EXCEPT !.up = TRUE]
Rescored(row, now)       == Scored(row.until, now)

Edited(m) ==
  CASE m.pc = "suspendStore" -> [c \in DOMAIN m.work |->
         IF c = m.c THEN [up |-> FALSE, until |-> m.at] ELSE m.work[c]]
    [] m.pc = "evictStore"   -> [c \in DOMAIN m.work \ {m.c} |-> m.work[c]]
    [] m.pc = "rescoreStore" -> [c \in DOMAIN m.work |-> Rescored(m.work[c], m.at)]

\* Whatever was stored since the Load is lost.
StoreEdit(p) ==
  /\ me[p].pc \in Copying
  /\ avail' = Edited(me[p])
  /\ me' = [me EXCEPT ![p] = Back(@)]
  /\ UNCHANGED <<clock, db, throttle, probing, flight, spawned, missed>>

-----------------------------------------------------------------------------
(* RecordSuccess, RecordFailure, HandleUnauthorized *)

RecordSuccess(p) ==
  /\ At(p, "success")
  /\ throttle' = [throttle EXCEPT ![me[p].c] = NoState]
  /\ Return(p)
  /\ UNCHANGED <<clock, db, avail, probing, flight, spawned, missed>>

\* The count starts over after a window; a Retry-After or the threshold throttles.
CountFailure(p) ==
  LET st == throttle[me[p].c]
      n  == (IF Expired(st.until) THEN 0 ELSE st.n) + 1
      counted == IF n > Threshold THEN Threshold ELSE n
  IN /\ At(p, "count")
     /\ throttle' = [throttle EXCEPT ![me[p].c].n = counted]
     /\ \/ me' = [me EXCEPT ![p] = [@ EXCEPT !.pc = "remember", !.at = clock + 1,
                                             !.n = counted]]
        \/ n < Threshold /\ Return(p)
     /\ UNCHANGED <<clock, db, avail, probing, flight, spawned, missed>>

\* The window is in memory, then in the snapshot, then in the database.  A state
\* that was dropped since it was counted is made anew.
RememberThrottle(p) ==
  /\ At(p, "remember")
  /\ throttle' = [throttle EXCEPT ![me[p].c] =
       [n |-> IF @ = NoState THEN me[p].n ELSE @.n, until |-> me[p].at]]
  /\ Call(p, "suspend", "failDB")
  /\ missed' = Overtaken(me[p].c, {"store"})
  /\ UNCHANGED <<clock, db, avail, probing, flight, spawned>>

ThrottleInDB(p) ==
  /\ At(p, "failDB")
  /\ db' = [db EXCEPT ![me[p].c].until = me[p].at] \/ UNCHANGED db
  /\ Return(p)
  /\ UNCHANGED <<clock, avail, throttle, probing, flight, spawned, missed>>

\* A status, enabled or disabled, ends the row's window in the same transaction.
Cleared(on) == [on |-> on, until |-> clock]

\* 401 and 403: evicted whether or not the database took it.
RejectCredential(p) ==
  /\ At(p, "reject")
  /\ \/ /\ db' = [db EXCEPT ![me[p].c] = Cleared(FALSE)]
        /\ missed' = Overtaken(me[p].c, {"merge", "store"})
     \/ UNCHANGED <<db, missed>>
  /\ Goto(p, "evict")
  /\ UNCHANGED <<clock, avail, throttle, probing, flight, spawned>>

-----------------------------------------------------------------------------
(* QueueQuotaRefresh; syncQuotaRow, SyncCredentials and RefreshQuota *)

MarkProbing(p) ==
  /\ At(p, "mark")
  /\ IF me[p].c \in probing THEN UNCHANGED <<probing, spawned>>
     ELSE probing' = probing \cup {me[p].c} /\ spawned' = spawned \cup {me[p].c}
  /\ Return(p)
  /\ UNCHANGED <<clock, db, avail, throttle, flight, missed>>

\* refreshCredentialQuota: a quota that is fetched and written is followed by a
\* rebuild; a credential that is gone or has no cookie, or any error, by none.
RefreshQuota(p) ==
  LET next == IF me[p].op = "probe" THEN "unmark" ELSE "last"
  IN /\ At(p, "probe")
     /\ Goto(p, next) \/ Call(p, "refresh", next)
     /\ UNCHANGED <<clock, db, avail, throttle, probing, flight, spawned, missed>>

CompleteProbe(p) ==
  /\ At(p, "unmark")
  /\ probing' = probing \ {me[p].c}
  /\ Return(p)
  /\ UNCHANGED <<clock, db, avail, throttle, flight, spawned, missed>>

\* The syncer caches the rows it lists itself, outside the flight.
CacheRows(p) ==
  /\ At(p, "last")
  /\ Call(p, "list", "idle")
  /\ UNCHANGED <<clock, db, avail, throttle, probing, flight, spawned, missed>>

-----------------------------------------------------------------------------
\* listAvailable reloads a missing snapshot only.
ListAvailable(p) ==
  /\ At(p, "select")
  /\ IF avail = None THEN Goto(p, "refresh") ELSE Return(p)
  /\ UNCHANGED <<clock, db, avail, throttle, probing, flight, spawned, missed>>

\* The admin handlers: a status, then the pool rebuilt.
AdminSetStatus(p) ==
  /\ At(p, "adminDB")
  /\ \E on \in BOOLEAN :
       /\ db' = [db EXCEPT ![me[p].c] = Cleared(on)]
       /\ missed' = IF on THEN missed ELSE Overtaken(me[p].c, {"merge", "store"})
  /\ Goto(p, "refresh")
  /\ UNCHANGED <<clock, avail, throttle, probing, flight, spawned>>

First == [fail |-> "count", success |-> "success", reject |-> "reject",
          queue |-> "mark", sync |-> "probe", rescore |-> "rescore",
          select |-> "select", wake |-> "refresh", admin |-> "adminDB",
          probe |-> "probe"]

Run(p, op, c) == At(p, "idle") /\ me' = [me EXCEPT ![p] =
                                  [Idle EXCEPT !.pc = First[op], !.op = op, !.c = c]]

\* The syncer and the score loop are one goroutine each.
Start(p, op, c) ==
  /\ op \in mix
  /\ op \in {"sync", "rescore"} => \A r \in Procs : me[r].op # op
  /\ Run(p, op, c)
  /\ UNCHANGED <<clock, db, avail, throttle, probing, flight, spawned, missed>>

StartProbe(p, c) ==
  /\ c \in spawned /\ Run(p, "probe", c)
  /\ spawned' = spawned \ {c}
  /\ UNCHANGED <<clock, db, avail, throttle, probing, flight, missed>>

\* The goroutine of StartThrottleDeadlineRefresh, when it starts, at the first
\* deadline in the database and once a minute.
Wake(p) ==
  /\ \A r \in Procs : me[r].op # "wake"
  /\ Run(p, "wake", None)
  /\ UNCHANGED <<clock, db, avail, throttle, probing, flight, spawned, missed>>

Tick ==
  /\ clock < MaxClock /\ clock' = clock + 1
  /\ UNCHANGED <<db, avail, throttle, probing, flight, spawned, me, missed>>

Step(p) ==
  \/ EnterRefresh(p) \/ ListRows(p) \/ MergeThrottles(p) \/ StoreRows(p)
  \/ Load(p) \/ StoreEdit(p)
  \/ RecordSuccess(p) \/ CountFailure(p) \/ RememberThrottle(p) \/ ThrottleInDB(p)
  \/ RejectCredential(p)
  \/ MarkProbing(p) \/ RefreshQuota(p) \/ CompleteProbe(p) \/ CacheRows(p)
  \/ ListAvailable(p) \/ AdminSetStatus(p)

Next ==
  /\ \/ Tick
     \/ \E p \in Procs : \/ Step(p) \/ Wake(p)
                         \/ \E op \in AllOps, c \in Creds : Start(p, op, c)
                         \/ \E c \in Creds : StartProbe(p, c)
  /\ UNCHANGED mix

Spec == Init /\ [][Next]_vars

-----------------------------------------------------------------------------
\* A disabled credential is out of the snapshot and one in a throttle window out
\* of the selection for as long as that lasts.  What brings it back is a rebuild
\* that had looked before, or an edit that overwrites what was stored since it
\* loaded, as no compare-and-swap would; never a quota, a probe or a new score.
Throttled(c) == throttle[c].until > clock
Recorded(c)  == InPool(c) /\ ~Up(c) /\ avail[c].until > clock
                  /\ \A p \in Procs : ~(me[p].c = c /\ me[p].pc \in {"suspend", "suspendStore"})
BackIfMissed ==
  \A c \in Creds :
    \/ ~db[c].on /\ ~db'[c].on /\ ~InPool(c) /\ InPool(c)'
    \/ Throttled(c) /\ Throttled(c)' /\ Recorded(c) /\ Up(c)'
    => \E p \in Procs : \/ StoreRows(p) /\ c \in missed[p]
                        \/ StoreEdit(p) /\ me[p].work # avail
BackOnlyIfMissed == [][BackIfMissed]_vars
=============================================================================
