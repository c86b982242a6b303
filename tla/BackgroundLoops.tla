---------------------------- MODULE BackgroundLoops ----------------------------
(***************************************************************************)
(* The loops a scheduler starts (core/scheduling): the score refresh, that *)
(* waits for an interval, and the quota syncer, that waits for the first   *)
(* row to be due.  Both start over when the settings change.               *)
(*                                                                         *)
(* A row stands for a credential: when its quota was last synced and when  *)
(* its quota resets (0: never, and no reset).  QuotaResetRefreshGrace is   *)
(* left out: the reset is the instant it is over.                          *)
(***************************************************************************)
EXTENDS Naturals

CONSTANTS Rows,        (* credentials the syncer may list                   *)
          Intervals,   (* values of the two intervals, in ticks             *)
          MaxReloads,  (* bound: changes of the settings                    *)
          MaxClock     (* bound: the last instant                           *)

VARIABLES
  interval, (* the interval in Service.current                              *)
  changed,  (* Service.changed: the channel's number; earlier ones are closed *)
  clock,    (* the time                                                     *)
  table,    (* the rows of the database                                     *)
  scores,   (* the score loop: place, channel, timer, interval it was for   *)
  syncer,   (* the quota loop: the same                                     *)
  rows,     (* the quota loop's `rows`: those listed, with the times of sync *)
  batch,    (* rows of the pass that are still to be synced                 *)
  passed    (* `attempted`: the instant of the last pass and its rows       *)

settings == <<interval, changed>>
all == <<settings, clock, table, scores, syncer, rows, batch, passed>>

Times    == 0 .. MaxClock
\* The first instant is 1: 0 is the zero time.Time.
RowState == [synced : Times, reset : Times \cup {MaxClock + 1}]
Loop     == [at : {"look", "arm", "wait", "list", "work", "cache"},
             chan : 0 .. MaxReloads, due : 0 .. 2 * MaxClock + 2, for : Intervals]
Listings == UNION {[R -> RowState] : R \in SUBSET Rows}

TypeOK ==
  /\ interval \in Intervals /\ changed \in 0 .. MaxReloads
  /\ clock \in Times \ {0}
  /\ table \in Listings /\ rows \in Listings
  /\ scores \in Loop /\ syncer \in Loop
  /\ batch \subseteq Rows
  /\ passed \in [when : Times, tried : SUBSET Rows]

Init ==
  /\ interval \in Intervals /\ changed = 0
  /\ clock = 1
  /\ table \in {t \in Listings : \A r \in DOMAIN t : t[r].synced <= 1 /\ t[r].reset \in {0, 2}}
  /\ scores = [at |-> "look", chan |-> 0, due |-> 0, for |-> interval]
  /\ syncer = [at |-> "cache", chan |-> 0, due |-> 0, for |-> interval]
  /\ rows = table /\ batch = {}
  /\ passed = [when |-> 0, tried |-> {}]

\* replaceCurrent: the new snapshot, a new channel, the old one closed.
\* Mutant: the channel stays.
SameChannel(n) == n
NewChannel(n)  == n + 1

ReplaceCurrent(i) ==
  /\ changed < MaxReloads /\ i # interval
  /\ interval' = i
  /\ changed' = NewChannel(changed)
  /\ UNCHANGED <<clock, table, scores, syncer, rows, batch, passed>>

-----------------------------------------------------------------------------
(* Waiting.  The channel is taken before the interval is read. *)

Past(at)  == at <= clock
Later(at) == at - clock

\* nextDelay: zero for a row never synced, overdue or whose quota was reset.
Delay(listed) ==
  LET due(r) == {listed[r].synced + interval}
                  \cup IF listed[r].reset = 0 THEN {} ELSE {listed[r].reset}
      all_due == UNION {due(r) : r \in DOMAIN listed}
  IN IF \E r \in DOMAIN listed : listed[r].synced = 0 THEN 0
     ELSE IF \E at \in all_due : Past(at) THEN 0
     ELSE CHOOSE d \in 0 .. interval :
            /\ d = interval \/ d \in {Later(at) : at \in all_due}
            /\ \A at \in all_due : d <= Later(at)

Armed(loop, delay) == [loop EXCEPT !.at = "wait", !.due = clock + delay,
                                   !.for = interval]

\* The select is over: its timer and its channel are dropped.
Woken(loop, next) == [loop EXCEPT !.at = next, !.chan = 0, !.due = 0]

TakeChannel ==
  /\ \/ scores.at = "look" /\ scores' = [scores EXCEPT !.at = "arm", !.chan = changed]
        /\ UNCHANGED syncer
     \/ syncer.at = "look" /\ syncer' = [syncer EXCEPT !.at = "arm", !.chan = changed]
        /\ UNCHANGED scores
  /\ UNCHANGED <<settings, clock, table, rows, batch, passed>>

ArmTimer ==
  /\ \/ scores.at = "arm" /\ scores' = Armed(scores, interval) /\ UNCHANGED syncer
     \/ syncer.at = "arm" /\ syncer' = Armed(syncer, Delay(rows))
        /\ UNCHANGED scores
  /\ UNCHANGED <<settings, clock, table, rows, batch, passed>>

\* The channel is closed: start over.
Interrupted ==
  /\ \/ scores.at = "wait" /\ scores.chan # changed
        /\ scores' = Woken(scores, "look") /\ UNCHANGED syncer
     \/ syncer.at = "wait" /\ syncer.chan # changed
        /\ syncer' = Woken(syncer, "look") /\ UNCHANGED scores
  /\ UNCHANGED <<settings, clock, table, rows, batch, passed>>

\* Refresh: the scores are computed again.
RefreshScores ==
  /\ scores.at = "wait" /\ Past(scores.due)
  /\ scores' = Woken(scores, "look")
  /\ UNCHANGED <<settings, clock, table, syncer, rows, batch, passed>>

-----------------------------------------------------------------------------
(* A pass of the quota syncer: syncDueRows *)

SyncDue(row) == row.synced = 0 \/ Past(row.synced + interval)
ResetDue(row) == row.reset # 0 /\ Past(row.reset)
DueRows(listed) == {r \in DOMAIN listed : ResetDue(listed[r]) \/ SyncDue(listed[r])}

BeginPass ==
  /\ syncer.at = "wait" /\ Past(syncer.due)
  /\ \/ /\ syncer' = Woken(syncer, "list")
        /\ rows' = table /\ UNCHANGED passed
     \* List failed: nothing to wait for but the interval.
     \/ /\ syncer' = Woken(syncer, "look")
        /\ rows' = <<>> /\ passed' = [when |-> clock, tried |-> {}]
  /\ UNCHANGED <<settings, clock, table, scores, batch>>

\* The rows that are due by the time and the interval of now.
ChooseDue ==
  /\ syncer.at = "list"
  /\ syncer' = [syncer EXCEPT !.at = "work"]
  /\ batch' = DueRows(rows)
  /\ passed' = [when |-> clock, tried |-> DueRows(rows)]
  /\ UNCHANGED <<settings, clock, table, scores, rows>>

\* One row after another, or several at once: the order does not matter here.
\* The upstream may tell of a reset that is over (the instant of now stands for
\* all).  A failure leaves the row as it is.  An eviction may take it off the list.
SyncRow(r) ==
  /\ syncer.at = "work" /\ r \in batch
  /\ batch' = batch \ {r}
  /\ \/ \E reset \in {0} \cup (clock .. MaxClock + 1) :
          table' = IF r \in DOMAIN table
                     THEN [table EXCEPT ![r] = [synced |-> clock, reset |-> reset]]
                     ELSE table
     \/ UNCHANGED table
     \/ table' = [x \in DOMAIN table \ {r} |-> table[x]]
  /\ UNCHANGED <<settings, clock, scores, syncer, rows, passed>>

\* withAttemptedSyncTimes: what was tried counts as synced.  Mutant: it does not.
KeepTimes(listed) == listed
AttemptTimes(listed) ==
  [r \in DOMAIN listed |->
     IF r \in passed.tried /\ listed[r].synced < passed.when
       THEN [listed[r] EXCEPT !.synced = passed.when] ELSE listed[r]]

\* loadAndCacheRows; if it fails the rows of before the pass are used.
EndPass ==
  /\ syncer.at = "work" /\ batch = {}
  /\ syncer' = [syncer EXCEPT !.at = "look"]
  /\ \E listed \in {table, rows} : rows' = AttemptTimes(listed)
  /\ UNCHANGED <<settings, clock, table, scores, batch, passed>>

\* The first look at the rows, when the scheduler starts.
WarmCache ==
  /\ syncer.at = "cache"
  /\ syncer' = [syncer EXCEPT !.at = "look"]
  /\ \E listed \in {table, <<>>} : rows' = listed
  /\ UNCHANGED <<settings, clock, table, scores, batch, passed>>

\* An import.
AddRow(r) ==
  /\ r \notin DOMAIN table
  /\ table' = [x \in DOMAIN table \cup {r} |->
                IF x = r THEN [synced |-> 0, reset |-> 0] ELSE table[x]]
  /\ UNCHANGED <<settings, clock, scores, syncer, rows, batch, passed>>

Tick ==
  /\ clock < MaxClock /\ clock' = clock + 1
  /\ UNCHANGED <<settings, table, scores, syncer, rows, batch, passed>>

Loops ==
  \/ TakeChannel \/ ArmTimer \/ Interrupted \/ RefreshScores
  \/ BeginPass \/ ChooseDue \/ EndPass \/ WarmCache
  \/ \E r \in Rows : SyncRow(r)

Next ==
  \/ Loops \/ Tick
  \/ \E i \in Intervals : ReplaceCurrent(i)
  \/ \E r \in Rows : AddRow(r)

Spec == Init /\ [][Next]_all

-----------------------------------------------------------------------------
(* Properties *)

\* A loop that sleeps on the channel in force sleeps for the interval in force:
\* no change of the settings falls between the channel and the interval.
AsleepOnCurrentInterval ==
  \A loop \in {scores, syncer} :
    loop.at = "wait" /\ loop.chan = changed => loop.for = interval

\* The quota syncer makes two passes at one instant only for the sake of a row
\* the first did not try, or of one whose reset is over: an upstream that fails is
\* not called again at once.  One that tells of a reset in the past is: that row is
\* due as long as it does (ResetDue).
NoBusyPass ==
  [][BeginPass /\ clock = passed.when =>
       \E r \in DOMAIN rows : r \notin passed.tried \/ ResetDue(rows[r])]_all
=============================================================================
