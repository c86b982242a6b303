------------------------ MODULE CodexSchedulerProofs ------------------------
(***************************************************************************)
(* Proofs about CodexScheduler, for any number of goroutines, credentials, *)
(* tiers and semaphore slots, with or without database errors: nobody who  *)
(* joins a refresh is left waiting, no credential is locked out by a       *)
(* validation that is not there, no probe leaves a slot or a mark behind,  *)
(* and every variable keeps its type.                                      *)
(*                                                                         *)
(* The parts build on one another: where goroutines stand (ControlInv),    *)
(* what they stand there for (PostInv), who answers for a slot of          *)
(* quotaRefreshSem (ProbeInv), and what is in frames and rows (TypeInv).   *)
(***************************************************************************)
EXTENDS CodexScheduler, FiniteSetTheorems, TLAPS

-----------------------------------------------------------------------------
(* Where goroutines stand: what their frames look like and, for the operations *)
(* that matter here, which places they visit and where they return to.         *)

LeaderPCs   == {"list", "build", "merge", "store", "clear"}
RefreshPCs  == {"refresh", "join"} \cup LeaderPCs
CalledPCs   == RefreshPCs \cup {"evict", "suspend", "throttle", "evictStore",
                                "suspendStore", "throttleStore"}
QuotaPCs    == {"validate", "verify", "fetch", "apply", "upsert", "stored"}
ValidatePCs == {"validate", "verify", "disable", "apply", "upsert", "stored",
                "finish"} \cup RefreshPCs
Returns     == {"idle", "complete", "disable", "spawnCheck", "finish", "stored",
                "spawnProbe", "spawnImport"}
JobOps      == {"wake", "probe", "validate", "import"}

\* A frame keeps its fields, whatever they hold.
Frame(r) ==
  r \in [pc : {r.pc}, op : {r.op}, c : {r.c}, t : {r.t}, at : {r.at},
         then : {r.then}, hit : {r.hit}, q : {r.q}, work : {r.work}]

\* A validation and a 401 are where they may be and return to where they must; only
\* those that store a quota are at its places, and only a 401, a request's or the
\* syncer's, hands over to a validation.
MayStand(pc, op, then) ==
  /\ then \in Returns
  /\ op = "validate" =>
       pc \in ValidatePCs /\ (pc \in RefreshPCs => then \in {"finish", "stored"})
  /\ pc = "unauth" => op \in {"unauth", "sync"}
  /\ op = "unauth" =>
       /\ pc \in {"unauth", "evict", "evictStore", "spawnCheck"}
       /\ then \in IF pc \in {"unauth", "spawnCheck"} THEN {"idle"}
                                                  ELSE {"idle", "spawnCheck"}
  /\ pc \in QuotaPCs \/ then = "stored" => op \in {"validate", "import", "sync"}
  /\ pc = "spawnCheck" \/ then = "spawnCheck" => op \in {"unauth", "sync"}
  /\ then = "spawnCheck" => pc \in {"evict", "evictStore"}
Placed(r) == MayStand(r.pc, r.op, r.then)

Framed    == me = [p \in Procs |-> me[p]] /\ \A p \in Procs : Frame(me[p]) /\ Placed(me[p])
KnownJobs == \A j \in spawned : j.op \in JobOps

\* The flight belongs to a goroutine that is rebuilding the snapshot, and
\* callers wait for one only while there is one.
LeaderAtWork == flight # None => flight \in Procs /\ Leading(flight)
JoinersWait  == \A p \in Procs : At(p, "join") => flight # None

Flow       == Framed /\ LeaderAtWork /\ JoinersWait
ControlInv == Flow /\ KnownJobs

\* Most steps move one goroutine; only a leader's own step keeps it leading.
LEMMA OneMoves ==
  ASSUME Flow, NEW p \in Procs, NEW r, Frame(r), Placed(r),
         me' = [me EXCEPT ![p] = r], UNCHANGED flight,
         me[p].pc \in LeaderPCs => r.pc \in LeaderPCs,
         r.pc # "join"
  PROVE  Flow'
<1>1. \A u \in Procs : me'[u] = IF u = p THEN r ELSE me[u]
  BY DEF Flow, Framed
<1>2. Framed'
  BY <1>1 DEF Flow, Framed
<1>3. LeaderAtWork' /\ JoinersWait'
  BY <1>1 DEF Flow, LeaderAtWork, JoinersWait, Leading, At, LeaderPCs
<1> QED
  BY <1>2, <1>3 DEF Flow

LEMMA NoMove ==
  ASSUME Flow, UNCHANGED <<me, flight>>
  PROVE  Flow'
<1>1. \A p \in Procs : me'[p] = me[p]
  OBVIOUS
<1>2. Framed'
  BY <1>1 DEF Flow, Framed
<1> QED
  BY <1>1, <1>2 DEF Flow, LeaderAtWork, JoinersWait, Leading, At

LEMMA GotoMoves ==
  ASSUME Flow, NEW p \in Procs, NEW x, Goto(p, x), UNCHANGED flight,
         MayStand(x, me[p].op, me[p].then),
         me[p].pc \in LeaderPCs => x \in LeaderPCs, x # "join"
  PROVE  Flow'
<1> DEFINE r == [me[p] EXCEPT !.pc = x]
<1>1. Frame(r) /\ r.pc = x /\ r.op = me[p].op /\ r.then = me[p].then
  BY DEF Flow, Framed, Frame
<1>2. me' = [me EXCEPT ![p] = r]
  BY DEF Goto
<1> QED
  BY <1>1, <1>2, OneMoves DEF Placed

LEMMA CallMoves ==
  ASSUME Flow, NEW p \in Procs, NEW x, NEW y, Call(p, x, y), UNCHANGED flight,
         MayStand(x, me[p].op, y), me[p].pc \notin LeaderPCs, x # "join"
  PROVE  Flow'
<1> DEFINE r == [me[p] EXCEPT !.pc = x, !.then = y]
<1>1. Frame(r) /\ r.pc = x /\ r.op = me[p].op /\ r.then = y
  BY DEF Flow, Framed, Frame
<1>2. me' = [me EXCEPT ![p] = r]
  BY DEF Call
<1> QED
  BY <1>1, <1>2, OneMoves DEF Placed

LEMMA IdleFrame == Frame(Idle) /\ Placed(Idle)
  BY DEF Frame, Placed, MayStand, Idle, Returns, QuotaPCs

LEMMA ReturnMoves ==
  ASSUME Flow, NEW p \in Procs, Return(p), UNCHANGED flight, me[p].pc \notin LeaderPCs
  PROVE  Flow'
  BY IdleFrame, OneMoves DEF Return, Idle

\* What a call that returns goes back to.
LEMMA Resumes ==
  ASSUME NEW r, Frame(r), Placed(r), r.pc \in CalledPCs
  PROVE  Frame(Resume(r)) /\ Placed(Resume(r)) /\ Resume(r).pc = r.then
<1>1. CASE r.then = "idle"
  BY <1>1, IdleFrame DEF Resume, Idle
<1>2. CASE r.then # "idle"
  <2> DEFINE s == [r EXCEPT !.pc = r.then, !.then = "idle", !.at = 0, !.work = None]
  <2>1. Resume(r) = s
    BY <1>2 DEF Resume
  <2>2. Frame(s) /\ s.pc = r.then /\ s.then = "idle" /\ s.op = r.op
    BY DEF Frame
  <2>3. Placed(s)
    BY <2>2, <1>2 DEF Placed, MayStand, Returns, ValidatePCs, QuotaPCs, RefreshPCs,
                      LeaderPCs, CalledPCs
  <2> QED
    BY <2>1, <2>2, <2>3
<1> QED
  BY <1>1, <1>2

LEMMA ResumeMoves ==
  ASSUME Flow, NEW p \in Procs, me' = [me EXCEPT ![p] = Resume(@)], UNCHANGED flight,
         me[p].pc \in CalledPCs \ LeaderPCs
  PROVE  Flow'
<1>1. /\ Frame(Resume(me[p])) /\ Placed(Resume(me[p]))
      /\ Resume(me[p]).pc = me[p].then /\ me[p].then # "join"
  BY Resumes DEF Flow, Framed, Placed, MayStand, Returns
<1> QED
  BY <1>1, OneMoves

\* The end of a refresh, in the flight or outside it.
LEMMA LeaveMoves ==
  ASSUME Flow, ConstantsAssumption, NEW p \in Procs, LeaveRefresh(p),
         me[p].pc \in LeaderPCs
  PROVE  Flow'
<1> DEFINE Left(u) == u = p \/ (flight = p /\ At(u, "join"))
<1>1. \A u \in Procs : me'[u] = IF Left(u) THEN Resume(me[u]) ELSE me[u]
  BY DEF LeaveRefresh
<1>2. \A u \in Procs : Left(u) =>
        /\ Frame(Resume(me[u])) /\ Placed(Resume(me[u]))
        /\ Resume(me[u]).pc = me[u].then /\ me[u].then # "join"
  <2> SUFFICES ASSUME NEW u \in Procs, Left(u)
               PROVE  /\ Frame(Resume(me[u])) /\ Placed(Resume(me[u]))
                      /\ Resume(me[u]).pc = me[u].then /\ me[u].then # "join"
    OBVIOUS
  <2>1. me[u].pc \in CalledPCs /\ Frame(me[u]) /\ Placed(me[u])
    BY DEF Flow, Framed, At, CalledPCs, RefreshPCs
  <2> QED
    BY <2>1, Resumes DEF Placed, MayStand, Returns
<1>3. Framed'
  <2>1. me' = [u \in Procs |-> me'[u]]
    BY DEF LeaveRefresh
  <2> QED
    BY <1>1, <1>2, <2>1 DEF Flow, Framed
<1>4. CASE flight = p
  <2>1. flight' = None
    BY <1>4 DEF LeaveRefresh
  <2>2. \A u \in Procs : me'[u].pc # "join"
    BY <1>1, <1>2, <1>4 DEF At
  <2> QED
    BY <1>3, <2>1, <2>2 DEF Flow, LeaderAtWork, JoinersWait, At
<1>5. CASE flight # p
  <2>1. flight' = flight
    BY <1>5 DEF LeaveRefresh
  <2>2. \A u \in Procs \ {p} : me'[u] = me[u]
    BY <1>1, <1>5
  <2>3. me'[p].pc # "join"
    BY <1>1, <1>2
  <2> QED
    BY <1>3, <1>5, <2>1, <2>2, <2>3 DEF Flow, LeaderAtWork, JoinersWait, Leading, At
<1> QED
  BY <1>4, <1>5

-----------------------------------------------------------------------------
(* Every step keeps the flow of control. *)

LEMMA FlowStep ==
  ASSUME Flow, KnownJobs, ConstantsAssumption, NEW p \in Procs, Step(p)
  PROVE  Flow'
<1> USE DEF At, Placed, MayStand, Returns, ValidatePCs, QuotaPCs, RefreshPCs, LeaderPCs,
        CalledPCs
<1>0. Frame(me[p]) /\ Placed(me[p])
  BY DEF Flow, Framed
<1>1. CASE EnterRefresh(p)
  <2>1. CASE flight # None
    <3> DEFINE r == [me[p] EXCEPT !.pc = "join"]
    <3>1. Frame(r) /\ r.pc = "join" /\ r.op = me[p].op /\ r.then = me[p].then
      BY <1>0 DEF Frame
    <3>2. me' = [me EXCEPT ![p] = r] /\ flight' = flight /\ me[p].pc = "refresh"
      BY <1>1, <2>1 DEF EnterRefresh, Goto
    <3>3. Placed(r)
      BY <1>0, <3>1, <3>2
    <3>4. \A u \in Procs : me'[u] = IF u = p THEN r ELSE me[u]
      BY <3>2 DEF Flow, Framed
    <3> HIDE DEF r
    <3>5. Framed'
      BY <3>1, <3>2, <3>3, <3>4 DEF Flow, Framed
    <3>6. LeaderAtWork' /\ JoinersWait'
      BY <2>1, <3>1, <3>2, <3>4 DEF Flow, LeaderAtWork, JoinersWait, Leading
    <3> QED
      BY <3>5, <3>6 DEF Flow
  <2>2. CASE flight = None
    <3> DEFINE r == [me[p] EXCEPT !.pc = "list"]
    <3>1. Frame(r) /\ r.pc = "list" /\ r.op = me[p].op /\ r.then = me[p].then
      BY <1>0 DEF Frame
    <3>2. me' = [me EXCEPT ![p] = r] /\ flight' = p /\ me[p].pc = "refresh"
      BY <1>1, <2>2 DEF EnterRefresh, Goto
    <3>3. Placed(r)
      BY <1>0, <3>1, <3>2
    <3>4. \A u \in Procs : me'[u] = IF u = p THEN r ELSE me[u]
      BY <3>2 DEF Flow, Framed
    <3> HIDE DEF r
    <3>5. Framed'
      BY <3>1, <3>2, <3>3, <3>4 DEF Flow, Framed
    <3>6. \A u \in Procs : me'[u].pc # "join"
      BY <2>2, <3>1, <3>4 DEF Flow, JoinersWait
    <3>7. LeaderAtWork' /\ JoinersWait'
      BY <3>1, <3>2, <3>4, <3>6 DEF LeaderAtWork, JoinersWait, Leading
    <3> QED
      BY <3>5, <3>7 DEF Flow
  <2> QED
    BY <2>1, <2>2
<1>2. CASE ListRows(p)
  <2>1. CASE LeaveRefresh(p)
    BY <1>2, <2>1, LeaveMoves DEF ListRows
  <2>2. CASE UNCHANGED flight /\ ~LeaveRefresh(p)
    <3> DEFINE r == [me[p] EXCEPT !.pc = "build", !.work =
                  [c \in Listed |->
                    [t \in Tiers |-> [live |-> db[c].live[t], up |-> FALSE,
                                      until |-> db[c].until[t], fair |-> TRUE]]]]
    <3>1. Frame(r) /\ r.pc = "build" /\ r.op = me[p].op /\ r.then = me[p].then
      BY <1>0 DEF Frame
    <3>2. me' = [me EXCEPT ![p] = r] /\ UNCHANGED flight
      BY <1>2, <2>2 DEF ListRows
    <3> QED
      BY <1>0, <1>2, <2>2, <3>1, <3>2, OneMoves DEF ListRows
  <2> QED
    BY <1>2, <2>1, <2>2 DEF ListRows
<1>3. CASE BuildRows(p)
  <2> DEFINE r == [me[p] EXCEPT !.pc = "merge", !.at = clock, !.work =
                [c \in Unchecked(DOMAIN me[p].work) |-> [t \in Tiers |->
                  LET slot == me[p].work[c][t] IN Scored(slot, slot.live, clock)]]]
  <2>1. Frame(r) /\ r.pc = "merge" /\ r.op = me[p].op /\ r.then = me[p].then
    BY <1>0 DEF Frame
  <2>2. me' = [me EXCEPT ![p] = r] /\ UNCHANGED flight
    BY <1>3 DEF BuildRows
  <2> QED
    BY <1>0, <1>3, <2>1, <2>2, OneMoves DEF BuildRows
<1>4. CASE MergeThrottles(p)
  <2> DEFINE r == [me[p] EXCEPT !.pc = "store", !.work =
                [c \in DOMAIN me[p].work |-> [t \in Tiers |->
                  Merged(me[p].work[c][t], throttle[c][t].until, me[p].at, logs[c][t])]]]
  <2>1. Frame(r) /\ r.pc = "store" /\ r.op = me[p].op /\ r.then = me[p].then
    BY <1>0 DEF Frame
  <2>2. me' = [me EXCEPT ![p] = r] /\ UNCHANGED flight
    BY <1>4 DEF MergeThrottles
  <2> QED
    BY <1>0, <1>4, <2>1, <2>2, OneMoves DEF MergeThrottles
<1>5. CASE StoreRows(p)
  <2> DEFINE r == [me[p] EXCEPT !.pc = "clear", !.work = None, !.at = 0]
  <2>1. Frame(r) /\ r.pc = "clear" /\ r.op = me[p].op /\ r.then = me[p].then
    BY <1>0 DEF Frame
  <2>2. me' = [me EXCEPT ![p] = r] /\ UNCHANGED flight
    BY <1>5 DEF StoreRows
  <2> QED
    BY <1>0, <1>5, <2>1, <2>2, OneMoves DEF StoreRows
<1>6. CASE ClearExpired(p)
  BY <1>6, LeaveMoves DEF ClearExpired
<1>7. CASE Load(p)
  <2> DEFINE r == [me[p] EXCEPT !.pc = Storing[me[p].pc], !.work = avail]
  <2>1. Frame(r) /\ r.pc = Storing[me[p].pc] /\ r.op = me[p].op /\ r.then = me[p].then
    BY <1>0 DEF Frame
  <2>2. me' = [me EXCEPT ![p] = r] /\ UNCHANGED flight
    BY <1>7 DEF Load
  <2>3. /\ me[p].pc \in {"evict", "suspend", "throttle"}
        /\ r.pc \in {"evictStore", "suspendStore", "throttleStore"}
        /\ me[p].pc = "evict" => r.pc = "evictStore"
    BY <1>7, <2>1 DEF Load, Storing
  <2> QED
    BY <1>0, <2>1, <2>2, <2>3, OneMoves
<1>8. CASE EvictStore(p)
  BY <1>8, ResumeMoves DEF EvictStore
<1>9. CASE SuspendStore(p)
  BY <1>9, ResumeMoves DEF SuspendStore
<1>10. CASE ThrottleStore(p)
  BY <1>10, ResumeMoves DEF ThrottleStore
<1>11. CASE EditNothing(p)
  <2>1. me[p].pc \in {"evict", "suspend", "throttle"}
    BY <1>11 DEF EditNothing, Storing
  <2> QED
    BY <1>11, <2>1, ResumeMoves DEF EditNothing
<1>12. CASE LogRequest(p)
  <2>1. CASE Goto(p, "rate")
    BY <1>0, <1>12, <2>1, GotoMoves DEF LogRequest
  <2>2. CASE Goto(p, "failCount")
    BY <1>0, <1>12, <2>2, GotoMoves DEF LogRequest
  <2>3. CASE Return(p)
    BY <1>12, <2>3, ReturnMoves DEF LogRequest
  <2> QED
    BY <1>12, <2>1, <2>2, <2>3 DEF LogRequest
<1>13. CASE ComputeRate(p)
  <2>1. CASE AfterWeight(p)
    BY <1>0, <1>13, <2>1, GotoMoves, ReturnMoves DEF ComputeRate, AfterWeight
  <2>2. CASE ~AfterWeight(p)
    <3> DEFINE r == [me[p] EXCEPT !.pc = "weigh", !.hit = logs[me[p].c][me[p].t] # "bad"]
    <3>1. Frame(r) /\ r.pc = "weigh" /\ r.op = me[p].op /\ r.then = me[p].then
      BY <1>0 DEF Frame
    <3>2. me' = [me EXCEPT ![p] = r] /\ UNCHANGED flight
      BY <1>13, <2>2 DEF ComputeRate
    <3> QED
      BY <1>0, <1>13, <2>2, <3>1, <3>2, OneMoves DEF ComputeRate
  <2> QED
    BY <2>1, <2>2
<1>14. CASE ApplyWeight(p)
  <2>1. CASE Return(p)
    BY <1>14, <2>1, ReturnMoves DEF ApplyWeight
  <2>2. CASE ~Return(p)
    <3> DEFINE r == [me[p] EXCEPT !.pc = "failCount", !.hit = FALSE]
    <3>1. Frame(r) /\ r.pc = "failCount" /\ r.op = me[p].op /\ r.then = me[p].then
      BY <1>0 DEF Frame
    <3>2. me' = [me EXCEPT ![p] = r] /\ UNCHANGED flight
      BY <1>14, <2>2 DEF ApplyWeight
    <3> QED
      BY <1>0, <1>14, <2>2, <3>1, <3>2, OneMoves DEF ApplyWeight
  <2> QED
    BY <2>1, <2>2
<1>15. CASE ClearThrottle(p)
  BY <1>0, <1>15, GotoMoves DEF ClearThrottle
<1>16. CASE CountFailure(p)
  <2>1. CASE Return(p)
    BY <1>16, <2>1, ReturnMoves DEF CountFailure
  <2>2. ASSUME NEW at, me' = [me EXCEPT ![p] = [@ EXCEPT !.pc = "failDB", !.at = at]]
        PROVE  Flow'
    <3> DEFINE r == [me[p] EXCEPT !.pc = "failDB", !.at = at]
    <3>1. Frame(r) /\ r.pc = "failDB" /\ r.op = me[p].op /\ r.then = me[p].then
      BY <1>0 DEF Frame
    <3>2. me' = [me EXCEPT ![p] = r] /\ UNCHANGED flight
      BY <1>16, <2>2 DEF CountFailure
    <3> QED
      BY <1>0, <1>16, <2>2, <3>1, <3>2, OneMoves DEF CountFailure
  <2> QED
    BY <1>16, <2>1, <2>2 DEF CountFailure
<1>17. CASE ThrottleInDB(p)
  BY <1>0, <1>17, GotoMoves DEF ThrottleInDB
<1>18. CASE RememberThrottle(p)
  BY <1>0, <1>18, CallMoves DEF RememberThrottle
<1>19. CASE RejectCredential(p)
  BY <1>0, <1>19, CallMoves DEF RejectCredential
<1>20. CASE DisableInDB(p)
  <2>1. AfterDisable(p) /\ UNCHANGED flight /\ me[p].pc = "disable"
    BY <1>20 DEF DisableInDB
  <2>2. CASE me[p].op = "validate"
    BY <1>0, <2>1, <2>2, CallMoves DEF AfterDisable, EndValidation
  <2>3. CASE me[p].op = "import"
    BY <1>0, <2>1, <2>3, CallMoves DEF AfterDisable
  <2>4. CASE me[p].op = "sync"
    BY <1>0, <2>1, <2>4, GotoMoves DEF AfterDisable
  <2>5. CASE me[p].op \notin {"validate", "import", "sync"}
    BY <2>1, <2>5, ReturnMoves DEF AfterDisable
  <2> QED
    BY <2>2, <2>3, <2>4, <2>5
<1>21. CASE CheckUnauthorized(p)
  <2>1. PICK y \in {"spawnCheck", "stored", "idle"} :
          Call(p, "evict", y) /\ (y = "stored" => me[p].op = "sync")
    BY <1>21 DEF CheckUnauthorized
  <2> QED
    BY <1>0, <1>21, <2>1, CallMoves DEF CheckUnauthorized
<1>22. CASE SpawnValidation(p)
  <2>1. CASE Return(p)
    BY <1>22, <2>1, ReturnMoves DEF SpawnValidation
  <2>2. CASE me[p].op = "sync" /\ Goto(p, "stored")
    BY <1>0, <1>22, <2>2, GotoMoves DEF SpawnValidation
  <2> QED
    BY <1>22, <2>1, <2>2 DEF SpawnValidation
<1>23. CASE ValidateCredential(p)
  <2>1. CASE Goto(p, "verify")
    BY <1>0, <1>23, <2>1, GotoMoves DEF ValidateCredential
  <2>2. CASE EndValidation(p)
    BY <1>0, <1>23, <2>2, CallMoves DEF ValidateCredential, EndValidation
  <2> QED
    BY <1>23, <2>1, <2>2 DEF ValidateCredential
<1>24. CASE VerifyUsable(p)
  <2>1. ASSUME NEW q, me' = [me EXCEPT ![p] = [@ EXCEPT !.pc = "apply", !.q = q]]
        PROVE  Flow'
    <3> DEFINE r == [me[p] EXCEPT !.pc = "apply", !.q = q]
    <3>1. Frame(r) /\ r.pc = "apply" /\ r.op = me[p].op /\ r.then = me[p].then
      BY <1>0 DEF Frame
    <3>2. me' = [me EXCEPT ![p] = r] /\ UNCHANGED flight
      BY <1>24, <2>1 DEF VerifyUsable
    <3> QED
      BY <1>0, <1>24, <2>1, <3>1, <3>2, OneMoves DEF VerifyUsable
  <2>2. CASE Goto(p, "disable")
    BY <1>0, <1>24, <2>2, GotoMoves DEF VerifyUsable
  <2>3. CASE EndValidation(p)
    BY <1>0, <1>24, <2>3, CallMoves DEF VerifyUsable, EndValidation
  <2> QED
    BY <1>24, <2>1, <2>2, <2>3 DEF VerifyUsable
<1>25. CASE FinishValidation(p)
  BY <1>0, <1>25, ReturnMoves DEF FinishValidation
<1>26. CASE FetchQuota(p)
  <2>1. ASSUME NEW q, me' = [me EXCEPT ![p] = [@ EXCEPT !.pc = "apply", !.q = q]]
        PROVE  Flow'
    <3> DEFINE r == [me[p] EXCEPT !.pc = "apply", !.q = q]
    <3>1. Frame(r) /\ r.pc = "apply" /\ r.op = me[p].op /\ r.then = me[p].then
      BY <1>0 DEF Frame
    <3>2. me' = [me EXCEPT ![p] = r] /\ UNCHANGED flight
      BY <1>26, <2>1 DEF FetchQuota
    <3> QED
      BY <1>0, <1>26, <2>1, <3>1, <3>2, OneMoves DEF FetchQuota
  <2>2. CASE me[p].op = "import" /\ Call(p, "evict", "disable")
    BY <1>0, <1>26, <2>2, CallMoves DEF FetchQuota
  <2>3. ASSUME NEW next \in {"stored", "unauth", "reject"}, Goto(p, next),
               next \in {"unauth", "reject"} => me[p].op = "sync"
        PROVE  Flow'
    BY <1>0, <1>26, <2>3, GotoMoves DEF FetchQuota
  <2> QED
    BY <1>26, <2>1, <2>2, <2>3 DEF FetchQuota
<1>27. CASE ApplyStoredQuota(p)
  <2>1. PICK hit : me' = [me EXCEPT ![p] = [@ EXCEPT !.pc = "upsert", !.hit = hit]]
    BY <1>27 DEF ApplyStoredQuota
  <2> DEFINE r == [me[p] EXCEPT !.pc = "upsert", !.hit = hit]
  <2>2. Frame(r) /\ r.pc = "upsert" /\ r.op = me[p].op /\ r.then = me[p].then
    BY <1>0 DEF Frame
  <2>3. me' = [me EXCEPT ![p] = r] /\ UNCHANGED flight
    BY <1>27, <2>1 DEF ApplyStoredQuota
  <2> QED
    BY <1>0, <1>27, <2>1, <2>2, <2>3, OneMoves DEF ApplyStoredQuota
<1>28. CASE UpsertQuota(p)
  <2> DEFINE r(pc) == [me[p] EXCEPT !.pc = pc, !.hit = FALSE, !.q = NoQuota,
                                    !.then = IF pc = "refresh" THEN "stored" ELSE @]
  <2>1. \A pc : /\ Frame(r(pc)) /\ r(pc).pc = pc /\ r(pc).op = me[p].op
               /\ r(pc).then = IF pc = "refresh" THEN "stored" ELSE me[p].then
    BY <1>0 DEF Frame
  <2>2. UNCHANGED flight /\ \E pc \in {"stored", "refresh"} : me' = [me EXCEPT ![p] = r(pc)]
    BY <1>28 DEF UpsertQuota
  <2>3. CASE me' = [me EXCEPT ![p] = r("stored")]
    <3> DEFINE s == r("stored")
    <3>1. Frame(s) /\ s.pc = "stored" /\ s.op = me[p].op /\ s.then = me[p].then
      BY <2>1
    <3>2. me' = [me EXCEPT ![p] = s] /\ UNCHANGED flight /\ me[p].pc = "upsert"
      BY <1>28, <2>2, <2>3 DEF UpsertQuota
    <3>3. Placed(s)
      BY <1>0, <3>1, <3>2
    <3> HIDE DEF s
    <3> QED
      BY <3>1, <3>2, <3>3, OneMoves
  <2>4. CASE me' = [me EXCEPT ![p] = r("refresh")]
    <3> DEFINE s == r("refresh")
    <3>1. Frame(s) /\ s.pc = "refresh" /\ s.op = me[p].op /\ s.then = "stored"
      BY <2>1
    <3>2. me' = [me EXCEPT ![p] = s] /\ UNCHANGED flight /\ me[p].pc = "upsert"
      BY <1>28, <2>2, <2>4 DEF UpsertQuota
    <3>3. Placed(s)
      BY <1>0, <3>1, <3>2
    <3> HIDE DEF s
    <3> QED
      BY <3>1, <3>2, <3>3, OneMoves
  <2> QED
    BY <2>2, <2>3, <2>4
<1>29. CASE AfterStoreQuota(p)
  <2>1. UNCHANGED flight /\ me[p].pc = "stored" /\ me[p].op \in {"validate", "import", "sync"}
    BY <1>0, <1>29 DEF AfterStoreQuota
  <2>2. CASE me[p].op = "validate"
    BY <1>0, <1>29, <2>1, <2>2, CallMoves DEF AfterStoreQuota, EndValidation
  <2>3. CASE me[p].op = "import"
    BY <1>0, <1>29, <2>1, <2>3, CallMoves DEF AfterStoreQuota
  <2>4. CASE me[p].op = "sync"
    BY <1>0, <1>29, <2>1, <2>4, CallMoves DEF AfterStoreQuota, CacheRows
  <2> QED
    BY <2>1, <2>2, <2>3, <2>4
<1>30. CASE MergeQuota(p)
  <2>1. PICK q : me' = [me EXCEPT ![p] = [@ EXCEPT !.pc = "put", !.q = q]]
    BY <1>30 DEF MergeQuota
  <2> DEFINE r == [me[p] EXCEPT !.pc = "put", !.q = q]
  <2>2. Frame(r) /\ r.pc = "put" /\ r.op = me[p].op /\ r.then = me[p].then
    BY <1>0 DEF Frame
  <2>3. me' = [me EXCEPT ![p] = r] /\ UNCHANGED flight
    BY <1>30, <2>1 DEF MergeQuota
  <2> QED
    BY <1>0, <1>30, <2>1, <2>2, <2>3, OneMoves DEF MergeQuota
<1>31. CASE PutQuota(p)
  <2>1. CASE Return(p)
    BY <1>31, <2>1, ReturnMoves DEF PutQuota
  <2>2. CASE ~Return(p)
    <3> DEFINE r == [me[p] EXCEPT !.pc = "complete", !.q = NoQuota]
    <3>1. Frame(r) /\ r.pc = "complete" /\ r.op = me[p].op /\ r.then = me[p].then
      BY <1>0 DEF Frame
    <3>2. me' = [me EXCEPT ![p] = r] /\ UNCHANGED flight
      BY <1>31, <2>2 DEF PutQuota
    <3> QED
      BY <1>0, <1>31, <2>2, <3>1, <3>2, OneMoves DEF PutQuota
  <2> QED
    BY <2>1, <2>2
<1>32. CASE AcquireSlot(p)
  BY <1>0, <1>32, GotoMoves, ReturnMoves DEF AcquireSlot
<1>33. CASE MarkProbing(p)
  BY <1>0, <1>33, GotoMoves, CallMoves DEF MarkProbing, GiveSlotBack
<1>34. CASE SpawnProbe(p)
  BY <1>0, <1>34, ReturnMoves DEF SpawnProbe
<1>35. CASE ProbeQuota(p)
  <2>1. CASE Goto(p, "mergeQuota")
    BY <1>0, <1>35, <2>1, GotoMoves DEF ProbeQuota
  <2>2. ASSUME NEW at, me' = [me EXCEPT ![p] = [@ EXCEPT !.pc = "remember", !.at = at]]
        PROVE  Flow'
    <3> DEFINE r == [me[p] EXCEPT !.pc = "remember", !.at = at]
    <3>1. Frame(r) /\ r.pc = "remember" /\ r.op = me[p].op /\ r.then = me[p].then
      BY <1>0 DEF Frame
    <3>2. me' = [me EXCEPT ![p] = r] /\ UNCHANGED flight
      BY <1>35, <2>2 DEF ProbeQuota
    <3> QED
      BY <1>0, <1>35, <2>2, <3>1, <3>2, OneMoves DEF ProbeQuota
  <2> QED
    BY <1>35, <2>1, <2>2 DEF ProbeQuota
<1>36. CASE CompleteProbe(p)
  BY <1>0, <1>36, GotoMoves DEF CompleteProbe
<1>37. CASE ReleaseSlot(p)
  BY <1>0, <1>37, ReturnMoves DEF ReleaseSlot
<1>38. CASE ListAvailable(p)
  BY <1>0, <1>38, CallMoves, ReturnMoves DEF ListAvailable
<1>39. CASE AdminSetStatus(p)
  BY <1>0, <1>39, CallMoves DEF AdminSetStatus
<1>40. CASE SyncCredentials(p)
  BY <1>0, <1>40, ReturnMoves DEF SyncCredentials
<1> QED
  BY <1>1, <1>2, <1>3, <1>4, <1>5, <1>6, <1>7, <1>8, <1>9, <1>10, <1>11, <1>12,
     <1>13, <1>14, <1>15, <1>16, <1>17, <1>18, <1>19, <1>20, <1>21, <1>22, <1>23,
     <1>24, <1>25, <1>26, <1>27, <1>28, <1>29, <1>30, <1>31, <1>32, <1>33, <1>34,
     <1>35, <1>36, <1>37, <1>38, <1>39, <1>40 DEF Step

LEMMA RunMoves ==
  ASSUME Flow, NEW p \in Procs, NEW op \in AllOps \cup {"probe", "validate", "import"},
         NEW c, NEW t, Run(p, op, c, t), UNCHANGED flight
  PROVE  Flow'
<1> DEFINE r == [Idle EXCEPT !.pc = First[op], !.op = op, !.c = c, !.t = t]
<1>1. Frame(r) /\ r.pc = First[op] /\ r.op = op /\ r.then = "idle"
  BY DEF Frame, Idle
<1>2. me' = [me EXCEPT ![p] = r] /\ me[p].pc = "idle"
  BY DEF Run, At
<1>3. MayStand(First[op], op, "idle") /\ First[op] # "join"
  BY DEF First, AllOps, MayStand, Returns, ValidatePCs, QuotaPCs, RefreshPCs, LeaderPCs
<1>4. Placed(r)
  BY <1>1, <1>3 DEF Placed
<1> HIDE DEF r
<1> QED
  BY <1>1, <1>2, <1>3, <1>4, OneMoves DEF LeaderPCs

\* Jobs are the four kinds, whoever starts them.
LEMMA KnownJobsStep ==
  ASSUME KnownJobs, [Next]_vars
  PROVE  KnownJobs'
<1> USE DEF KnownJobs, JobOps
<1>1. CASE Tick \/ UNCHANGED vars
  BY <1>1 DEF Tick, vars
<1>2. CASE \E j \in spawned : Superseded(j) \/ \E p \in Procs : StartJob(p, j)
  BY <1>2 DEF Superseded, StartJob
<1>3. ASSUME NEW p \in Procs, NEW op \in Ops, Start(p, op) PROVE KnownJobs'
  BY <1>3 DEF Start
<1>4. ASSUME NEW p \in Procs, Step(p) PROVE KnownJobs'
  <2>1. CASE ThrottleStore(p) \/ EditNothing(p)
    BY <2>1 DEF ThrottleStore, EditNothing, Go, Job
  <2>2. CASE SpawnValidation(p) \/ SpawnProbe(p) \/ SyncCredentials(p)
    BY <2>2 DEF SpawnValidation, SpawnProbe, SyncCredentials, Go, Job
  <2>3. CASE UNCHANGED spawned
    BY <2>3
  <2> QED
    BY <1>4, <2>1, <2>2, <2>3 DEF Step, EnterRefresh, ListRows, BuildRows,
       MergeThrottles, StoreRows, ClearExpired, Load, EvictStore, SuspendStore,
       LogRequest, ComputeRate, ApplyWeight, ClearThrottle, CountFailure,
       ThrottleInDB, RememberThrottle, RejectCredential, DisableInDB,
       CheckUnauthorized, ValidateCredential, VerifyUsable, FinishValidation,
       FetchQuota, ApplyStoredQuota, UpsertQuota, AfterStoreQuota, MergeQuota,
       PutQuota, AcquireSlot, MarkProbing, ProbeQuota, CompleteProbe, ReleaseSlot,
       ListAvailable, AdminSetStatus
<1> QED
  BY <1>1, <1>2, <1>3, <1>4 DEF Next

LEMMA ControlStep ==
  ASSUME ControlInv, [Next]_vars
  PROVE  ControlInv'
<1>0. ConstantsAssumption /\ Flow /\ KnownJobs
  BY ConstantsAssumption DEF ControlInv
<1>1. ASSUME Tick PROVE Flow'
  BY <1>0, <1>1, NoMove DEF Tick
<1>2. ASSUME NEW j \in spawned, Superseded(j) PROVE Flow'
  BY <1>0, <1>2, NoMove DEF Superseded
<1>3. ASSUME NEW j \in spawned, NEW p \in Procs, StartJob(p, j) PROVE Flow'
  <2>1. CASE j.op # "wake" /\ Run(p, j.op, j.c, j.t)
    <3>1. j.op \in {"probe", "validate", "import"}
      BY <1>0, <2>1 DEF KnownJobs, JobOps
    <3> QED
      BY <1>0, <1>3, <2>1, <3>1, RunMoves DEF StartJob
  <2>2. CASE Run(p, "refresh", None, None)
    BY <1>0, <1>3, <2>2, RunMoves DEF StartJob, AllOps
  <2> QED
    BY <1>3, <2>1, <2>2 DEF StartJob
<1>4. ASSUME NEW p \in Procs, NEW op \in Ops, Start(p, op) PROVE Flow'
  <2>1. op \in AllOps
    BY <1>0 DEF ConstantsAssumption
  <2>2. UNCHANGED flight /\ \E a \in Arguments(op) : Run(p, op, a[1], a[2])
    BY <1>4 DEF Start
  <2> QED
    BY <1>0, <2>1, <2>2, RunMoves
<1>5. ASSUME NEW p \in Procs, Step(p) PROVE Flow'
  BY <1>0, <1>5, FlowStep
<1>6. ASSUME UNCHANGED vars PROVE Flow'
  BY <1>0, <1>6, NoMove DEF vars
<1>7. KnownJobs'
  BY <1>0, KnownJobsStep
<1> QED
  BY <1>1, <1>2, <1>3, <1>4, <1>5, <1>6, <1>7 DEF Next, ControlInv

LEMMA ControlInvariant == Spec => []ControlInv
<1>1. Init => ControlInv
  <2> SUFFICES ASSUME Init PROVE ControlInv
    OBVIOUS
  <2>1. \A p \in Procs : me[p] = Idle
    BY DEF Init
  <2>2. Framed
    BY <2>1, IdleFrame DEF Init, Framed
  <2> QED
    BY <2>1, <2>2 DEF Init, ControlInv, Flow, KnownJobs, LeaderAtWork, JoinersWait, At, Idle
<1>2. ControlInv /\ [Next]_vars => ControlInv'
  BY ControlStep
<1> QED
  BY <1>1, <1>2, PTL DEF Spec

\* A caller that joined the refresh in flight waits for a goroutine that is at
\* work on it, whatever database calls fail and whoever rebuilds the snapshot
\* outside the flight (RefreshAvailable, CacheRows).
THEOREM JoinedRefreshEnds == Spec => []JoinersHaveLeader
<1>1. ControlInv => JoinersHaveLeader
  BY DEF ControlInv, Flow, LeaderAtWork, JoinersWait, JoinersHaveLeader, Leading, At
<1> QED
  BY <1>1, ControlInvariant, PTL

-----------------------------------------------------------------------------
(* Every mark in `checking` has a validation. *)

\* A frame from the test-and-set to the end of the validation.
InValidation(r) ==
  \/ r.op = "validate"
  \/ r.op \in {"unauth", "sync"} /\ "spawnCheck" \in {r.pc, r.then}

\* A step that ends no validation and adds no mark.
LEMMA ValidationsKept ==
  ASSUME NoStuckValidation, checking' \subseteq checking, spawned \subseteq spawned',
         \A u \in Procs : InValidation(me[u]) => InValidation(me'[u]) /\ me'[u].c = me[u].c
  PROVE  NoStuckValidation'
<1> SUFFICES ASSUME NEW c \in checking'
             PROVE  Validators(c)' # {} \/ PendingValidations(c)' # {}
  BY DEF NoStuckValidation
<1>1. CASE Validators(c) # {}
  BY <1>1 DEF Validators, Validating, InValidation
<1>2. CASE PendingValidations(c) # {}
  BY <1>2 DEF PendingValidations
<1> QED
  BY <1>1, <1>2 DEF NoStuckValidation

LEMMA OneKeeps ==
  ASSUME Flow, NoStuckValidation, NEW p \in Procs, NEW r, me' = [me EXCEPT ![p] = r],
         checking' \subseteq checking, spawned \subseteq spawned',
         InValidation(me[p]) => InValidation(r) /\ r.c = me[p].c
  PROVE  NoStuckValidation'
<1>1. \A u \in Procs : me'[u] = IF u = p THEN r ELSE me[u]
  BY DEF Flow, Framed
<1> QED
  BY <1>1, ValidationsKept

\* A goroutine that is no part of a validation does what it likes.
LEMMA BystanderKeeps ==
  ASSUME Flow, NoStuckValidation, NEW p \in Procs, ~InValidation(me[p]),
         \E r : me' = [me EXCEPT ![p] = r],
         checking' \subseteq checking, spawned \subseteq spawned'
  PROVE  NoStuckValidation'
  BY OneKeeps

LEMMA GotoKeeps ==
  ASSUME Flow, NoStuckValidation, NEW p \in Procs, NEW x, Goto(p, x),
         me[p].pc # "spawnCheck", UNCHANGED <<checking, spawned>>
  PROVE  NoStuckValidation'
<1> DEFINE r == [me[p] EXCEPT !.pc = x]
<1>1. r.op = me[p].op /\ r.then = me[p].then /\ r.c = me[p].c
  BY DEF Flow, Framed, Frame
<1>2. me' = [me EXCEPT ![p] = r]
  BY DEF Goto
<1> HIDE DEF r
<1> QED
  BY <1>1, <1>2, OneKeeps DEF InValidation

LEMMA CallKeeps ==
  ASSUME Flow, NoStuckValidation, NEW p \in Procs, NEW x, NEW y, Call(p, x, y),
         "spawnCheck" \notin {me[p].pc, me[p].then}, UNCHANGED <<checking, spawned>>
  PROVE  NoStuckValidation'
<1> DEFINE r == [me[p] EXCEPT !.pc = x, !.then = y]
<1>1. r.op = me[p].op /\ r.c = me[p].c
  BY DEF Flow, Framed, Frame
<1>2. me' = [me EXCEPT ![p] = r]
  BY DEF Call
<1> HIDE DEF r
<1> QED
  BY <1>1, <1>2, OneKeeps DEF InValidation

\* A call of a validation returns into it.
LEMMA ResumeKeeps ==
  ASSUME NEW r, Frame(r), Placed(r), r.pc \in CalledPCs, InValidation(r)
  PROVE  InValidation(Resume(r)) /\ Resume(r).c = r.c
<1>1. r.then # "idle"
  BY DEF InValidation, Placed, MayStand, CalledPCs, ValidatePCs, RefreshPCs, LeaderPCs
<1> DEFINE s == [r EXCEPT !.pc = r.then, !.then = "idle", !.at = 0, !.work = None]
<1>2. Resume(r) = s
  BY <1>1 DEF Resume
<1>3. s.pc = r.then /\ s.op = r.op /\ s.c = r.c
  BY DEF Frame
<1>4. r.op \in {"unauth", "sync"} => r.then = "spawnCheck"
  BY <1>1 DEF Placed, MayStand, InValidation, CalledPCs, RefreshPCs, LeaderPCs
<1> QED
  BY <1>2, <1>3, <1>4 DEF InValidation

LEMMA LeaveKeeps ==
  ASSUME Flow, NoStuckValidation, NEW p \in Procs, LeaveRefresh(p),
         me[p].pc \in LeaderPCs, UNCHANGED <<checking, spawned>>
  PROVE  NoStuckValidation'
<1> DEFINE Left(u) == u = p \/ (flight = p /\ At(u, "join"))
<1>1. \A u \in Procs : me'[u] = IF Left(u) THEN Resume(me[u]) ELSE me[u]
  BY DEF LeaveRefresh
<1>2. \A u \in Procs : Left(u) => me[u].pc \in CalledPCs
  BY DEF At, CalledPCs, RefreshPCs
<1>3. \A u \in Procs : Frame(me[u]) /\ Placed(me[u])
  BY DEF Flow, Framed
<1> HIDE DEF Left
<1>4. \A u \in Procs : InValidation(me[u]) => InValidation(me'[u]) /\ me'[u].c = me[u].c
  BY <1>1, <1>2, <1>3, ResumeKeeps
<1> QED
  BY <1>4, ValidationsKept

LEMMA ValidationStep ==
  ASSUME Flow, NoStuckValidation, NEW p \in Procs, Step(p)
  PROVE  NoStuckValidation'
<1> USE DEF At, LeaderPCs
<1>0. Frame(me[p]) /\ MayStand(me[p].pc, me[p].op, me[p].then)
  BY DEF Flow, Framed, Placed
<1>a. me[p].op = "validate" => me[p].pc \in ValidatePCs
  BY <1>0 DEF MayStand
<1>b. "spawnCheck" \in {me[p].pc, me[p].then} =>
        me[p].pc \in {"evict", "evictStore", "spawnCheck"}
  BY <1>0 DEF MayStand
<1>1. CASE EnterRefresh(p)
  BY <1>1, GotoKeeps DEF EnterRefresh, memory
<1>2. CASE ListRows(p)
  <2>1. CASE LeaveRefresh(p)
    BY <1>2, <2>1, LeaveKeeps DEF ListRows, memory
  <2>2. CASE ~LeaveRefresh(p)
    <3> DEFINE r == [me[p] EXCEPT !.pc = "build", !.work =
                  [c \in Listed |->
                    [t \in Tiers |-> [live |-> db[c].live[t], up |-> FALSE,
                                      until |-> db[c].until[t], fair |-> TRUE]]]]
    <3>1. r.op = me[p].op /\ r.c = me[p].c /\ r.then = me[p].then
      BY <1>0 DEF Frame
    <3>2. me' = [me EXCEPT ![p] = r]
      BY <1>2, <2>2 DEF ListRows
    <3> QED
      BY <1>2, <3>1, <3>2, OneKeeps DEF ListRows, InValidation, memory
  <2> QED
    BY <2>1, <2>2
<1>3. CASE BuildRows(p)
  <2> DEFINE r == [me[p] EXCEPT !.pc = "merge", !.at = clock, !.work =
                [c \in Unchecked(DOMAIN me[p].work) |-> [t \in Tiers |->
                  LET slot == me[p].work[c][t] IN Scored(slot, slot.live, clock)]]]
  <2>1. r.op = me[p].op /\ r.c = me[p].c /\ r.then = me[p].then
    BY <1>0 DEF Frame
  <2>2. me' = [me EXCEPT ![p] = r]
    BY <1>3 DEF BuildRows
  <2> QED
    BY <1>3, <2>1, <2>2, OneKeeps DEF BuildRows, InValidation, memory
<1>4. CASE MergeThrottles(p)
  <2> DEFINE r == [me[p] EXCEPT !.pc = "store", !.work =
                [c \in DOMAIN me[p].work |-> [t \in Tiers |->
                  Merged(me[p].work[c][t], throttle[c][t].until, me[p].at, logs[c][t])]]]
  <2>1. r.op = me[p].op /\ r.c = me[p].c /\ r.then = me[p].then
    BY <1>0 DEF Frame
  <2>2. me' = [me EXCEPT ![p] = r]
    BY <1>4 DEF MergeThrottles
  <2> QED
    BY <1>4, <2>1, <2>2, OneKeeps DEF MergeThrottles, InValidation, memory
<1>5. CASE StoreRows(p)
  <2> DEFINE r == [me[p] EXCEPT !.pc = "clear", !.work = None, !.at = 0]
  <2>1. r.op = me[p].op /\ r.c = me[p].c /\ r.then = me[p].then
    BY <1>0 DEF Frame
  <2>2. me' = [me EXCEPT ![p] = r]
    BY <1>5 DEF StoreRows
  <2> QED
    BY <1>5, <2>1, <2>2, OneKeeps DEF StoreRows, InValidation, memory
<1>6. CASE ClearExpired(p)
  BY <1>6, LeaveKeeps DEF ClearExpired
<1>7. CASE Load(p)
  <2> DEFINE r == [me[p] EXCEPT !.pc = Storing[me[p].pc], !.work = avail]
  <2>1. r.op = me[p].op /\ r.c = me[p].c /\ r.then = me[p].then
    BY <1>0 DEF Frame
  <2>2. me' = [me EXCEPT ![p] = r] /\ me[p].pc # "spawnCheck"
    BY <1>7 DEF Load, Storing
  <2> QED
    BY <1>7, <2>1, <2>2, OneKeeps DEF Load, InValidation, memory
<1>8. CASE EvictStore(p) \/ SuspendStore(p) \/ ThrottleStore(p) \/ EditNothing(p)
  <2>1. /\ me' = [me EXCEPT ![p] = Resume(@)]
        /\ me[p].pc \in CalledPCs
        /\ checking' = checking /\ spawned \subseteq spawned'
    BY <1>8 DEF EvictStore, SuspendStore, ThrottleStore, EditNothing, Storing, CalledPCs,
       Go, memory
  <2> QED
    BY <1>0, <2>1, ResumeKeeps, OneKeeps DEF Placed
<1>9. CASE LogRequest(p) \/ ComputeRate(p) \/ ApplyWeight(p) \/ ClearThrottle(p)
  <2>1. ~InValidation(me[p])
    BY <1>9, <1>a, <1>b DEF InValidation, ValidatePCs, RefreshPCs, LogRequest, ComputeRate,
       ApplyWeight, ClearThrottle
  <2>2. checking' = checking /\ spawned' = spawned
    BY <1>9 DEF LogRequest, ComputeRate, ApplyWeight, ClearThrottle, memory
  <2>3. \E r : me' = [me EXCEPT ![p] = r]
    BY <1>9 DEF LogRequest, ComputeRate, ApplyWeight, ClearThrottle, Goto, Return,
       AfterWeight
  <2> QED
    BY <2>1, <2>2, <2>3, BystanderKeeps
<1>10. CASE CountFailure(p) \/ ThrottleInDB(p) \/ RememberThrottle(p)
  <2>1. ~InValidation(me[p])
    BY <1>10, <1>a, <1>b DEF InValidation, ValidatePCs, RefreshPCs, CountFailure,
       ThrottleInDB, RememberThrottle
  <2>2. checking' = checking /\ spawned' = spawned
    BY <1>10 DEF CountFailure, ThrottleInDB, RememberThrottle, memory
  <2>3. \E r : me' = [me EXCEPT ![p] = r]
    BY <1>10 DEF CountFailure, ThrottleInDB, RememberThrottle, Goto, Return, Call
  <2> QED
    BY <2>1, <2>2, <2>3, BystanderKeeps
<1>11. CASE RejectCredential(p)
  <2>1. ~InValidation(me[p])
    BY <1>11, <1>a, <1>b DEF InValidation, ValidatePCs, RefreshPCs, RejectCredential
  <2>2. checking' \subseteq checking /\ spawned' = spawned
    BY <1>11 DEF RejectCredential
  <2>3. \E r : me' = [me EXCEPT ![p] = r]
    BY <1>11 DEF RejectCredential, Call
  <2> QED
    BY <2>1, <2>2, <2>3, BystanderKeeps
<1>12. CASE DisableInDB(p)
  <2>1. /\ AfterDisable(p) /\ UNCHANGED <<checking, spawned>>
        /\ "spawnCheck" \notin {me[p].pc, me[p].then}
    BY <1>12, <1>b DEF DisableInDB, memory
  <2>2. CASE me[p].op = "validate"
    BY <2>1, <2>2, CallKeeps DEF AfterDisable, EndValidation
  <2>3. CASE me[p].op # "validate"
    <3>1. \E r : me' = [me EXCEPT ![p] = r]
      BY <2>1, <2>3 DEF AfterDisable, Call, Return, Goto
    <3> QED
      BY <2>1, <2>3, <3>1, BystanderKeeps DEF InValidation
  <2> QED
    BY <2>2, <2>3
<1>13. CASE CheckUnauthorized(p)
  \* Whoever finds no mark becomes the credential's validation.
  <2> DEFINE y == IF ~AlreadyChecking(me[p].c) THEN "spawnCheck"
                  ELSE IF me[p].op = "sync" THEN "stored" ELSE "idle"
             r == [me[p] EXCEPT !.pc = "evict", !.then = y]
  <2>1. me' = [me EXCEPT ![p] = r] /\ me[p].pc = "unauth"
    BY <1>13 DEF CheckUnauthorized, Call
  <2>2. \A u \in Procs : me'[u] = IF u = p THEN r ELSE me[u]
    BY <2>1 DEF Flow, Framed
  <2>3. r.op = me[p].op /\ r.c = me[p].c /\ r.then = y
    BY <1>0 DEF Frame
  <2> HIDE DEF r
  <2>4. checking' = checking \cup {me[p].c} /\ spawned' = spawned
    BY <1>13 DEF CheckUnauthorized
  <2>5. me[p].op \in {"unauth", "sync"} /\ me[p].then # "spawnCheck"
    BY <1>0, <2>1 DEF MayStand
  <2> SUFFICES ASSUME NEW c \in checking'
               PROVE  Validators(c)' # {} \/ PendingValidations(c)' # {}
    BY DEF NoStuckValidation
  <2>6. CASE c \notin checking
    <3>1. c = me[p].c /\ r.then = "spawnCheck"
      BY <2>3, <2>4, <2>6 DEF AlreadyChecking
    <3> QED
      BY <2>2, <2>3, <2>5, <3>1 DEF Validators, Validating
  <2>7. CASE Validators(c) # {}
    <3>1. PICK u \in Procs : Validating(u, c)
      BY <2>7 DEF Validators
    <3>2. u # p
      BY <2>1, <2>5, <3>1 DEF Validating
    <3> QED
      BY <2>2, <3>1, <3>2 DEF Validators, Validating
  <2>8. CASE PendingValidations(c) # {}
    BY <2>4, <2>8 DEF PendingValidations
  <2> QED
    BY <2>6, <2>7, <2>8 DEF NoStuckValidation
<1>14. CASE SpawnValidation(p)
  \* The goroutine that is started takes over.
  <2> DEFINE j == Job(p, "validate", 0)
  <2>1. /\ \A u \in Procs \ {p} : me'[u] = me[u]
        /\ checking' = checking /\ spawned' = spawned \cup {j}
    BY <1>14 DEF SpawnValidation, Return, Goto, Go, memory, Flow, Framed
  <2>2. j.op = "validate" /\ j.c = me[p].c
    BY DEF Job
  <2> HIDE DEF j
  <2> SUFFICES ASSUME NEW c \in checking'
               PROVE  Validators(c)' # {} \/ PendingValidations(c)' # {}
    BY DEF NoStuckValidation
  <2>3. CASE c = me[p].c
    BY <2>1, <2>2, <2>3 DEF PendingValidations
  <2>4. CASE c # me[p].c /\ Validators(c) # {}
    BY <2>1, <2>4 DEF Validators, Validating
  <2>5. CASE PendingValidations(c) # {}
    BY <2>1, <2>5 DEF PendingValidations
  <2> QED
    BY <2>1, <2>3, <2>4, <2>5 DEF NoStuckValidation
<1>15. CASE ValidateCredential(p)
  <2>1. me[p].pc = "validate" /\ UNCHANGED <<checking, spawned>>
    BY <1>15 DEF ValidateCredential, memory
  <2>2. Goto(p, "verify") \/ Call(p, "refresh", "finish")
    BY <1>15 DEF ValidateCredential, EndValidation
  <2> QED
    BY <1>b, <2>1, <2>2, GotoKeeps, CallKeeps
<1>16. CASE VerifyUsable(p)
  <2>1. me[p].pc = "verify" /\ UNCHANGED <<checking, spawned>>
    BY <1>16 DEF VerifyUsable, memory
  <2>2. ASSUME NEW q, me' = [me EXCEPT ![p] = [@ EXCEPT !.pc = "apply", !.q = q]]
        PROVE  NoStuckValidation'
    <3> DEFINE r == [me[p] EXCEPT !.pc = "apply", !.q = q]
    <3>1. r.op = me[p].op /\ r.c = me[p].c /\ r.then = me[p].then
      BY <1>0 DEF Frame
    <3>2. me' = [me EXCEPT ![p] = r]
      BY <2>2
    <3> QED
      BY <2>1, <3>1, <3>2, OneKeeps DEF InValidation
  <2>3. CASE Goto(p, "disable")
    BY <2>1, <2>3, GotoKeeps
  <2>4. CASE EndValidation(p)
    BY <1>b, <2>1, <2>4, CallKeeps DEF EndValidation
  <2> QED
    BY <1>16, <2>2, <2>3, <2>4 DEF VerifyUsable
<1>17. CASE FinishValidation(p)
  \* The mark goes with it, and only that one.
  <2>1. /\ \A u \in Procs \ {p} : me'[u] = me[u]
        /\ checking' = checking \ {me[p].c} /\ spawned' = spawned
    BY <1>17 DEF FinishValidation, Return, Flow, Framed
  <2> SUFFICES ASSUME NEW c \in checking'
               PROVE  Validators(c)' # {} \/ PendingValidations(c)' # {}
    BY DEF NoStuckValidation
  <2>2. CASE Validators(c) # {}
    BY <2>1, <2>2 DEF Validators, Validating
  <2>3. CASE PendingValidations(c) # {}
    BY <2>1, <2>3 DEF PendingValidations
  <2> QED
    BY <2>1, <2>2, <2>3 DEF NoStuckValidation
<1>18. CASE FetchQuota(p)
  <2>1. ~InValidation(me[p])
    BY <1>18, <1>a, <1>b DEF InValidation, ValidatePCs, RefreshPCs, FetchQuota
  <2>2. checking' = checking /\ spawned' = spawned
    BY <1>18 DEF FetchQuota, memory
  <2>3. \E r : me' = [me EXCEPT ![p] = r]
    BY <1>18 DEF FetchQuota, Goto, Call
  <2> QED
    BY <2>1, <2>2, <2>3, BystanderKeeps
<1>19. CASE ApplyStoredQuota(p)
  <2>1. PICK hit : me' = [me EXCEPT ![p] = [@ EXCEPT !.pc = "upsert", !.hit = hit]]
    BY <1>19 DEF ApplyStoredQuota
  <2> DEFINE r == [me[p] EXCEPT !.pc = "upsert", !.hit = hit]
  <2>2. r.op = me[p].op /\ r.c = me[p].c /\ r.then = me[p].then
    BY <1>0 DEF Frame
  <2>3. me' = [me EXCEPT ![p] = r]
    BY <2>1
  <2> QED
    BY <1>19, <2>2, <2>3, OneKeeps DEF ApplyStoredQuota, InValidation, memory
<1>20. CASE UpsertQuota(p)
  <2> DEFINE r(pc) == [me[p] EXCEPT !.pc = pc, !.hit = FALSE, !.q = NoQuota,
                                    !.then = IF pc = "refresh" THEN "stored" ELSE @]
  <2>1. \A pc : r(pc).op = me[p].op /\ r(pc).c = me[p].c
    BY <1>0 DEF Frame
  <2>2. PICK pc : me' = [me EXCEPT ![p] = r(pc)]
    BY <1>20 DEF UpsertQuota
  <2>3. "spawnCheck" \notin {me[p].pc, me[p].then} /\ UNCHANGED <<checking, spawned>>
    BY <1>20, <1>b DEF UpsertQuota, memory
  <2> DEFINE s == r(pc)
  <2>4. me' = [me EXCEPT ![p] = s] /\ s.op = me[p].op /\ s.c = me[p].c
    BY <2>1, <2>2
  <2> HIDE DEF s
  <2> QED
    BY <2>3, <2>4, OneKeeps DEF InValidation
<1>21. CASE AfterStoreQuota(p)
  <2>1. /\ me[p].op \in {"validate", "import", "sync"} /\ UNCHANGED <<checking, spawned>>
        /\ "spawnCheck" \notin {me[p].pc, me[p].then}
    BY <1>0, <1>21, <1>b DEF AfterStoreQuota, MayStand, QuotaPCs, memory
  <2>2. \E x, y : Call(p, x, y)
    BY <1>21, <2>1 DEF AfterStoreQuota, EndValidation, CacheRows
  <2> QED
    BY <2>1, <2>2, CallKeeps
<1>22. CASE MergeQuota(p) \/ PutQuota(p) \/ AcquireSlot(p) \/ MarkProbing(p)
  <2>1. ~InValidation(me[p])
    BY <1>22, <1>a, <1>b DEF InValidation, ValidatePCs, RefreshPCs, MergeQuota, PutQuota,
       AcquireSlot, MarkProbing
  <2>2. checking' = checking /\ spawned' = spawned
    BY <1>22 DEF MergeQuota, PutQuota, AcquireSlot, MarkProbing, memory
  <2>3. \E r : me' = [me EXCEPT ![p] = r]
    BY <1>22 DEF MergeQuota, PutQuota, AcquireSlot, MarkProbing, Goto, Return, Call,
       GiveSlotBack
  <2> QED
    BY <2>1, <2>2, <2>3, BystanderKeeps
<1>23. CASE SpawnProbe(p) \/ ProbeQuota(p) \/ CompleteProbe(p) \/ ReleaseSlot(p)
  <2>1. ~InValidation(me[p])
    BY <1>23, <1>a, <1>b DEF InValidation, ValidatePCs, RefreshPCs, SpawnProbe, ProbeQuota,
       CompleteProbe, ReleaseSlot
  <2>2. checking' = checking /\ spawned \subseteq spawned'
    BY <1>23 DEF SpawnProbe, ProbeQuota, CompleteProbe, ReleaseSlot, Go, memory
  <2>3. \E r : me' = [me EXCEPT ![p] = r]
    BY <1>23 DEF SpawnProbe, ProbeQuota, CompleteProbe, ReleaseSlot, Goto, Return
  <2> QED
    BY <2>1, <2>2, <2>3, BystanderKeeps
<1>24. CASE ListAvailable(p) \/ AdminSetStatus(p) \/ SyncCredentials(p)
  <2>1. ~InValidation(me[p])
    BY <1>24, <1>a, <1>b DEF InValidation, ValidatePCs, RefreshPCs, ListAvailable,
       AdminSetStatus, SyncCredentials
  <2>2. checking' = checking /\ spawned \subseteq spawned'
    BY <1>24 DEF ListAvailable, AdminSetStatus, SyncCredentials, Go, memory
  <2>3. \E r : me' = [me EXCEPT ![p] = r]
    BY <1>24 DEF ListAvailable, AdminSetStatus, SyncCredentials, Return, Call
  <2> QED
    BY <2>1, <2>2, <2>3, BystanderKeeps
<1> QED
  BY <1>1, <1>2, <1>3, <1>4, <1>5, <1>6, <1>7, <1>8, <1>9, <1>10, <1>11, <1>12, <1>13,
     <1>14, <1>15, <1>16, <1>17, <1>18, <1>19, <1>20, <1>21, <1>22, <1>23, <1>24 DEF Step

\* An idle goroutine is no part of a validation; one that starts may become one.
LEMMA RunKeeps ==
  ASSUME Flow, NoStuckValidation, NEW p \in Procs, NEW op, NEW c, NEW t,
         Run(p, op, c, t), UNCHANGED checking, spawned \subseteq spawned'
  PROVE  NoStuckValidation'
<1>1. me[p].pc = "idle" /\ Placed(me[p]) /\ \E r : me' = [me EXCEPT ![p] = r]
  BY DEF Run, At, Flow, Framed
<1>2. ~InValidation(me[p])
  BY <1>1 DEF InValidation, Placed, MayStand, ValidatePCs, RefreshPCs, LeaderPCs
<1> QED
  BY <1>1, <1>2, BystanderKeeps

LEMMA StartJobKeeps ==
  ASSUME Flow, NoStuckValidation, NEW p \in Procs, NEW j \in spawned, StartJob(p, j)
  PROVE  NoStuckValidation'
<1>1. /\ UNCHANGED checking /\ spawned' = spawned \ {j} /\ me[p].pc = "idle"
      /\ \A u \in Procs \ {p} : me'[u] = me[u]
  BY DEF StartJob, Run, At, memory, Flow, Framed
<1>2. ~InValidation(me[p])
  BY <1>1 DEF Flow, Framed, InValidation, Placed, MayStand, ValidatePCs, RefreshPCs,
     LeaderPCs
<1> SUFFICES ASSUME NEW c \in checking'
             PROVE  Validators(c)' # {} \/ PendingValidations(c)' # {}
  BY DEF NoStuckValidation
<1>3. CASE Validators(c) # {}
  <2>1. PICK u \in Procs : Validating(u, c)
    BY <1>3 DEF Validators
  <2>2. u # p
    BY <1>2, <2>1 DEF Validating, InValidation
  <2> QED
    BY <1>1, <2>1, <2>2 DEF Validators, Validating
<1>4. CASE j \in PendingValidations(c)
  <2> DEFINE r == [Idle EXCEPT !.pc = First[j.op], !.op = j.op, !.c = j.c, !.t = j.t]
  <2>1. j.op = "validate" /\ j.c = c
    BY <1>4 DEF PendingValidations
  <2>2. me' = [me EXCEPT ![p] = r]
    BY <2>1 DEF StartJob, Run
  <2>3. r.op = j.op /\ r.c = j.c
    BY DEF Idle
  <2> HIDE DEF r
  <2>4. me'[p] = r
    BY <2>2 DEF Flow, Framed
  <2> QED
    BY <2>1, <2>3, <2>4 DEF Validators, Validating
<1>5. CASE PendingValidations(c) \ {j} # {}
  BY <1>1, <1>5 DEF PendingValidations
<1> QED
  BY <1>1, <1>3, <1>4, <1>5 DEF NoStuckValidation

\* HandleUnauthorized's mark keeps a credential out of every rebuild until
\* finishCredentialValidation removes it; whatever fails, and however many 401
\* arrive while validations start, run and end, some validation of it is there.
THEOREM ValidationNeverLost == Spec => []NoStuckValidation
<1>1. Init => NoStuckValidation
  BY DEF Init, NoStuckValidation
<1>2. ControlInv /\ NoStuckValidation /\ [Next]_vars => NoStuckValidation'
  <2> SUFFICES ASSUME ControlInv, NoStuckValidation, [Next]_vars
               PROVE  NoStuckValidation'
    OBVIOUS
  <2>0. Flow
    BY DEF ControlInv
  <2>1. ASSUME Tick \/ UNCHANGED vars PROVE NoStuckValidation'
    <3>1. UNCHANGED <<me, checking, spawned>>
      BY <2>1 DEF Tick, vars, memory
    <3> QED
      BY <3>1, ValidationsKept
  <2>2. ASSUME NEW j \in spawned, Superseded(j) PROVE NoStuckValidation'
    <3>1. UNCHANGED <<me, checking>> /\ spawned' = spawned \ {j} /\ j.op = "wake"
      BY <2>2 DEF Superseded, memory
    <3> QED
      BY <3>1 DEF NoStuckValidation, Validators, Validating, PendingValidations
  <2>3. ASSUME NEW j \in spawned, NEW p \in Procs, StartJob(p, j) PROVE NoStuckValidation'
    BY <2>0, <2>3, StartJobKeeps
  <2>4. ASSUME NEW p \in Procs, NEW op \in Ops, Start(p, op) PROVE NoStuckValidation'
    BY <2>0, <2>4, RunKeeps DEF Start, memory
  <2>5. ASSUME NEW p \in Procs, Step(p) PROVE NoStuckValidation'
    BY <2>0, <2>5, ValidationStep
  <2> QED
    BY <2>1, <2>2, <2>3, <2>4, <2>5 DEF Next
<1> QED
  BY <1>1, <1>2, ControlInvariant, PTL DEF Spec

-----------------------------------------------------------------------------
(* Operations and their places: a goroutine goes on with what it was about, or ends. *)

\* Where an operation may be and what it returns to, as far as probes, jobs and
\* the snapshots that are carried need it.
Post(pc, op, then) ==
  /\ pc \in {"failLog", "failCount", "failDB"} => op = "fail"
  /\ pc \in {"success", "okLog"} => op = "success"
  /\ pc \in {"rate", "weigh"} => op \in {"fail", "success"}
  /\ pc \in {"remember", "throttle", "throttleStore"} => op \in {"fail", "probe"}
  /\ pc \in {"acquire", "mark", "suspend", "suspendStore", "spawnProbe"} => op = "queue"
  /\ pc \in {"suspend", "suspendStore"} => then = "spawnProbe"
  /\ pc \in {"probe", "complete"} => op = "probe"
  /\ pc \in {"mergeQuota", "put"} => op \in {"update", "probe"}
  /\ pc = "release" => op \in {"queue", "probe"}
  /\ pc \in {"adminDB", "spawnImport"} => op = "admin"
  /\ pc = "reject" => op \in {"reject", "sync"}
  /\ pc \in {"unauth", "spawnCheck"} \/ then = "spawnCheck" => op \in {"unauth", "sync"}
  /\ pc \in {"validate", "verify", "finish"} => op = "validate"
  /\ op = "queue" => pc \in {"acquire", "mark", "suspend", "suspendStore", "spawnProbe", "release"}
  /\ op = "probe" => /\ pc \in {"probe", "mergeQuota", "put", "remember", "throttle",
                                "throttleStore", "complete", "release"}
                     /\ pc \in {"throttle", "throttleStore"} => then = "complete"
  /\ then = "spawnImport" => op = "admin"
  /\ then = "spawnProbe" => op = "queue" /\ pc \in {"suspend", "suspendStore"}
  /\ then = "complete" => op = "probe" /\ pc \in {"throttle", "throttleStore"}
  /\ then = "disable" => op \in {"reject", "import", "sync"}
  /\ then = "finish" => op = "validate"

Names(op, c, t) ==
  /\ op \in {"fail", "success", "queue", "probe"} => c \in Creds /\ t \in Tiers
  /\ op \in {"unauth", "reject", "update", "sync", "admin", "validate", "import"} => c \in Creds

Posted(r)  == Post(r.pc, r.op, r.then) /\ Names(r.op, r.c, r.t)
AllPosted  == \A p \in Procs : Posted(me[p])
\* A job is of a credential; a probe's is the same whoever starts it.
JobsNamed  == \A j \in spawned :
  /\ j = [op |-> j.op, c |-> j.c, t |-> j.t, at |-> j.at]
  /\ j.c \in Creds
  /\ j.op = "probe" => j.t \in Tiers /\ j.at = 0
PostInv == ControlInv /\ AllPosted /\ JobsNamed

\* An operation goes on, at a place of its own and about the same credential and
\* tier, or it ends.
GoesOn(r, s) == s.op = r.op /\ s.c = r.c /\ s.t = r.t /\ Post(s.pc, s.op, s.then)
Moved == \A u \in Procs : GoesOn(me[u], me'[u]) \/ me'[u] = Idle

LEMMA MovedPosts == ASSUME PostInv, Moved PROVE AllPosted'
<1>1. Posted(Idle)
  BY DEF Posted, Post, Names, Idle
<1> QED
  BY <1>1 DEF PostInv, Moved, GoesOn, AllPosted, Posted

LEMMA OnePosts ==
  ASSUME PostInv, NEW p \in Procs, NEW r, GoesOn(me[p], r) \/ r = Idle,
         me' = [me EXCEPT ![p] = r]
  PROVE  Moved
<1>1. \A u \in Procs : me'[u] = IF u = p THEN r ELSE me[u]
  BY DEF PostInv, ControlInv, Flow, Framed
<1>2. \A u \in Procs : GoesOn(me[u], me[u])
  BY DEF PostInv, AllPosted, Posted, GoesOn
<1> QED
  BY <1>1, <1>2 DEF Moved

LEMMA GotoPosts ==
  ASSUME PostInv, NEW p \in Procs, NEW x, Goto(p, x), Post(x, me[p].op, me[p].then)
  PROVE  Moved
<1> DEFINE r == [me[p] EXCEPT !.pc = x]
<1>1. Frame(me[p]) /\ Posted(me[p])
  BY DEF PostInv, ControlInv, Flow, Framed, AllPosted
<1>2. r.pc = x /\ r.op = me[p].op /\ r.then = me[p].then /\ r.c = me[p].c /\ r.t = me[p].t
  BY <1>1 DEF Frame
<1>3. me' = [me EXCEPT ![p] = r]
  BY DEF Goto
<1> HIDE DEF r
<1> QED
  BY <1>1, <1>2, <1>3, OnePosts DEF GoesOn

LEMMA CallPosts ==
  ASSUME PostInv, NEW p \in Procs, NEW x, NEW y, Call(p, x, y), Post(x, me[p].op, y)
  PROVE  Moved
<1> DEFINE r == [me[p] EXCEPT !.pc = x, !.then = y]
<1>1. Frame(me[p]) /\ Posted(me[p])
  BY DEF PostInv, ControlInv, Flow, Framed, AllPosted
<1>2. r.pc = x /\ r.op = me[p].op /\ r.then = y /\ r.c = me[p].c /\ r.t = me[p].t
  BY <1>1 DEF Frame
<1>3. me' = [me EXCEPT ![p] = r]
  BY DEF Call
<1> HIDE DEF r
<1> QED
  BY <1>1, <1>2, <1>3, OnePosts DEF GoesOn

LEMMA ReturnPosts ==
  ASSUME PostInv, NEW p \in Procs, Return(p)
  PROVE  Moved
  BY OnePosts DEF Return

\* What a call returns to is a place of its operation.
LEMMA ResumePosted ==
  ASSUME NEW r, Frame(r), Placed(r), Posted(r), r.pc \in CalledPCs
  PROVE  GoesOn(r, Resume(r)) \/ Resume(r) = Idle
<1>1. CASE r.then = "idle"
  BY <1>1 DEF Resume
<1>2. CASE r.then # "idle"
  <2> DEFINE s == [r EXCEPT !.pc = r.then, !.then = "idle", !.at = 0, !.work = None]
  <2>1. Resume(r) = s
    BY <1>2 DEF Resume
  <2>2. s.pc = r.then /\ s.then = "idle" /\ s.op = r.op /\ s.c = r.c /\ s.t = r.t
    BY DEF Frame
  <2>3. Post(r.then, r.op, "idle")
    BY <1>2 DEF Post, Posted, Placed, MayStand, Returns, CalledPCs, RefreshPCs, LeaderPCs
  <2> HIDE DEF s
  <2> QED
    BY <2>1, <2>2, <2>3 DEF GoesOn
<1> QED
  BY <1>1, <1>2

LEMMA ResumePosts ==
  ASSUME PostInv, NEW p \in Procs, me' = [me EXCEPT ![p] = Resume(@)], me[p].pc \in CalledPCs
  PROVE  Moved
<1>1. GoesOn(me[p], Resume(me[p])) \/ Resume(me[p]) = Idle
  BY ResumePosted DEF PostInv, ControlInv, Flow, Framed, AllPosted
<1> QED
  BY <1>1, OnePosts

LEMMA LeavePosts ==
  ASSUME PostInv, NEW p \in Procs, LeaveRefresh(p), me[p].pc \in LeaderPCs
  PROVE  Moved
<1> SUFFICES ASSUME NEW u \in Procs PROVE GoesOn(me[u], me'[u]) \/ me'[u] = Idle
  BY DEF Moved
<1>1. /\ me'[u] \in {me[u], Resume(me[u])}
      /\ me'[u] # me[u] => me[u].pc \in CalledPCs
  BY DEF LeaveRefresh, At, CalledPCs, RefreshPCs
<1>2. Frame(me[u]) /\ Placed(me[u]) /\ Posted(me[u]) /\ GoesOn(me[u], me[u])
  BY DEF PostInv, ControlInv, Flow, Framed, AllPosted, Posted, GoesOn
<1> QED
  BY <1>1, <1>2, ResumePosted

-----------------------------------------------------------------------------

LEMMA PostStep ==
  ASSUME PostInv, NEW p \in Procs, Step(p)
  PROVE  Moved
<1>0. Frame(me[p]) /\ Placed(me[p]) /\ Post(me[p].pc, me[p].op, me[p].then)
      /\ Names(me[p].op, me[p].c, me[p].t)
  BY DEF PostInv, ControlInv, Flow, Framed, AllPosted, Posted
<1>1. CASE EnterRefresh(p)
  BY <1>0, <1>1, GotoPosts DEF EnterRefresh, At, Post
<1>2. CASE ListRows(p)
  <2> DEFINE r == [me[p] EXCEPT !.pc = "build", !.work =
                [c \in Listed |->
                  [t \in Tiers |-> [live |-> db[c].live[t], up |-> FALSE,
                                    until |-> db[c].until[t], fair |-> TRUE]]]]
  <2>1. r.pc = "build" /\ r.op = me[p].op /\ r.then = me[p].then /\ r.c = me[p].c /\ r.t = me[p].t
    BY <1>0 DEF Frame
  <2>2. me[p].pc = "list" /\ (me' = [me EXCEPT ![p] = r] \/ LeaveRefresh(p))
    BY <1>2 DEF ListRows, At
  <2> HIDE DEF r
  <2>3. GoesOn(me[p], r)
    BY <1>0, <2>1, <2>2 DEF Post, GoesOn
  <2> QED
    BY <2>2, <2>3, OnePosts, LeavePosts DEF LeaderPCs
<1>3. CASE BuildRows(p)
  <2> DEFINE r == [me[p] EXCEPT !.pc = "merge", !.at = clock, !.work =
                [c \in Unchecked(DOMAIN me[p].work) |-> [t \in Tiers |->
                  LET slot == me[p].work[c][t] IN Scored(slot, slot.live, clock)]]]
  <2>1. r.pc = "merge" /\ r.op = me[p].op /\ r.then = me[p].then /\ r.c = me[p].c /\ r.t = me[p].t
    BY <1>0 DEF Frame
  <2>2. me' = [me EXCEPT ![p] = r]
    BY <1>3 DEF BuildRows
  <2>3. me[p].pc = "build"
    BY <1>3 DEF BuildRows, At
  <2> HIDE DEF r
  <2>4. GoesOn(me[p], r)
    BY <1>0, <2>1, <2>3 DEF Post, GoesOn
  <2> QED
    BY <2>2, <2>4, OnePosts
<1>4. CASE MergeThrottles(p)
  <2> DEFINE r == [me[p] EXCEPT !.pc = "store", !.work =
                [c \in DOMAIN me[p].work |-> [t \in Tiers |->
                  Merged(me[p].work[c][t], throttle[c][t].until, me[p].at, logs[c][t])]]]
  <2>1. r.pc = "store" /\ r.op = me[p].op /\ r.then = me[p].then /\ r.c = me[p].c /\ r.t = me[p].t
    BY <1>0 DEF Frame
  <2>2. me' = [me EXCEPT ![p] = r]
    BY <1>4 DEF MergeThrottles
  <2>3. me[p].pc = "merge"
    BY <1>4 DEF MergeThrottles, At
  <2> HIDE DEF r
  <2>4. GoesOn(me[p], r)
    BY <1>0, <2>1, <2>3 DEF Post, GoesOn
  <2> QED
    BY <2>2, <2>4, OnePosts
<1>5. CASE StoreRows(p)
  <2> DEFINE r == [me[p] EXCEPT !.pc = "clear", !.work = None, !.at = 0]
  <2>1. r.pc = "clear" /\ r.op = me[p].op /\ r.then = me[p].then /\ r.c = me[p].c /\ r.t = me[p].t
    BY <1>0 DEF Frame
  <2>2. me' = [me EXCEPT ![p] = r]
    BY <1>5 DEF StoreRows
  <2>3. me[p].pc = "store"
    BY <1>5 DEF StoreRows, At
  <2> HIDE DEF r
  <2>4. GoesOn(me[p], r)
    BY <1>0, <2>1, <2>3 DEF Post, GoesOn
  <2> QED
    BY <2>2, <2>4, OnePosts
<1>6. CASE ClearExpired(p)
  BY <1>6, LeavePosts DEF ClearExpired, At, LeaderPCs
<1>7. CASE Load(p)
  <2> DEFINE r == [me[p] EXCEPT !.pc = Storing[me[p].pc], !.work = avail]
  <2>1. r.pc = Storing[me[p].pc] /\ r.op = me[p].op /\ r.then = me[p].then /\ r.c = me[p].c /\ r.t = me[p].t
    BY <1>0 DEF Frame
  <2>2. me' = [me EXCEPT ![p] = r]
    BY <1>7 DEF Load
  <2>3. \/ me[p].pc = "evict" /\ r.pc = "evictStore"
        \/ me[p].pc = "suspend" /\ r.pc = "suspendStore"
        \/ me[p].pc = "throttle" /\ r.pc = "throttleStore"
    BY <1>7, <2>1 DEF Load, Storing
  <2> HIDE DEF r
  <2>4. GoesOn(me[p], r)
    BY <1>0, <2>1, <2>3 DEF Post, GoesOn
  <2> QED
    BY <2>2, <2>4, OnePosts
<1>8. CASE EvictStore(p)
  BY <1>8, ResumePosts DEF EvictStore, At, CalledPCs
<1>9. CASE SuspendStore(p)
  BY <1>9, ResumePosts DEF SuspendStore, At, CalledPCs
<1>10. CASE ThrottleStore(p)
  BY <1>10, ResumePosts DEF ThrottleStore, At, CalledPCs
<1>11. CASE EditNothing(p)
  <2>1. me[p].pc \in {"evict", "suspend", "throttle"}
    BY <1>11 DEF EditNothing, Storing
  <2> QED
    BY <1>11, <2>1, ResumePosts DEF EditNothing, CalledPCs
<1>12. CASE LogRequest(p)
  <2>1. \/ me[p].pc = "failLog" /\ me[p].op = "fail"
        \/ me[p].pc = "okLog" /\ me[p].op = "success"
    BY <1>0, <1>12 DEF LogRequest, Post
  <2>2. /\ Post("rate", me[p].op, me[p].then)
        /\ me[p].op = "fail" => Post("failCount", me[p].op, me[p].then)
    BY <1>0, <2>1 DEF Post
  <2>3. \/ Goto(p, "rate") \/ Return(p)
        \/ me[p].op = "fail" /\ Goto(p, "failCount")
    BY <1>12, <2>1 DEF LogRequest
  <2> QED
    BY <2>2, <2>3, GotoPosts, ReturnPosts
<1>13. CASE ComputeRate(p)
  <2>1. ASSUME AfterWeight(p), me[p].pc \in {"rate", "weigh"} PROVE Moved
    <3>1. me[p].op \in {"fail", "success"}
      BY <1>0, <2>1 DEF Post
    <3>2. (Goto(p, "failCount") /\ Post("failCount", me[p].op, me[p].then)) \/ Return(p)
      BY <1>0, <2>1, <3>1 DEF AfterWeight, Post
    <3> QED
      BY <3>2, GotoPosts, ReturnPosts
  <2> DEFINE r == [me[p] EXCEPT !.pc = "weigh", !.hit = logs[me[p].c][me[p].t] # "bad"]
  <2>2. r.pc = "weigh" /\ r.op = me[p].op /\ r.then = me[p].then /\ r.c = me[p].c /\ r.t = me[p].t
    BY <1>0 DEF Frame
  <2>3. me' = [me EXCEPT ![p] = r] \/ AfterWeight(p)
    BY <1>13 DEF ComputeRate
  <2>4. me[p].pc = "rate"
    BY <1>13 DEF ComputeRate, At
  <2> HIDE DEF r
  <2>5. GoesOn(me[p], r)
    BY <1>0, <2>2, <2>4 DEF Post, GoesOn
  <2> QED
    BY <2>1, <2>3, <2>4, <2>5, OnePosts
<1>14. CASE ApplyWeight(p)
  <2> DEFINE r == [me[p] EXCEPT !.pc = "failCount", !.hit = FALSE]
  <2>1. r.pc = "failCount" /\ r.op = me[p].op /\ r.then = me[p].then /\ r.c = me[p].c /\ r.t = me[p].t
    BY <1>0 DEF Frame
  <2>2. (me' = [me EXCEPT ![p] = r] /\ me[p].op # "success") \/ Return(p)
    BY <1>14 DEF ApplyWeight
  <2>3. me[p].pc = "weigh"
    BY <1>14 DEF ApplyWeight, At
  <2> HIDE DEF r
  <2>4. me[p].op # "success" => GoesOn(me[p], r)
    BY <1>0, <2>1, <2>3 DEF Post, GoesOn
  <2> QED
    BY <2>2, <2>4, OnePosts, ReturnPosts
<1>15. CASE ClearThrottle(p)
  <2>1. Goto(p, "okLog") /\ Post("okLog", me[p].op, me[p].then)
    BY <1>0, <1>15 DEF ClearThrottle, At, Post, Placed, MayStand, Returns, QuotaPCs
  <2> QED
    BY <2>1, GotoPosts
<1>16. CASE CountFailure(p)
  <2>1. me[p].pc = "failCount"
    BY <1>16 DEF CountFailure, At
  <2>2. ASSUME NEW at \in clock + 1 .. MaxClock + 1,
               me' = [me EXCEPT ![p] = [@ EXCEPT !.pc = "failDB", !.at = at]]
        PROVE  Moved
    <3> DEFINE r == [me[p] EXCEPT !.pc = "failDB", !.at = at]
    <3>1. r.pc = "failDB" /\ r.op = me[p].op /\ r.then = me[p].then /\ r.c = me[p].c /\ r.t = me[p].t
      BY <1>0 DEF Frame
    <3>2. me' = [me EXCEPT ![p] = r]
      BY <2>2
    <3> HIDE DEF r
    <3>3. GoesOn(me[p], r)
      BY <1>0, <2>1, <3>1 DEF Post, GoesOn
    <3> QED
      BY <3>2, <3>3, OnePosts
  <2> QED
    BY <1>16, <2>2, ReturnPosts DEF CountFailure
<1>17. CASE ThrottleInDB(p)
  <2>1. Goto(p, "remember") /\ Post("remember", me[p].op, me[p].then)
    BY <1>0, <1>17 DEF ThrottleInDB, At, Post, Placed, MayStand, Returns, QuotaPCs
  <2> QED
    BY <2>1, GotoPosts
<1>18. CASE RememberThrottle(p)
  <2>1. \E y \in {"complete", "idle"} : Call(p, "throttle", y) /\ Post("throttle", me[p].op, y)
    BY <1>0, <1>18 DEF RememberThrottle, At, Post
  <2> QED
    BY <2>1, CallPosts
<1>19. CASE RejectCredential(p)
  <2>1. Call(p, "evict", "disable") /\ Post("evict", me[p].op, "disable")
    BY <1>0, <1>19 DEF RejectCredential, At, Post
  <2> QED
    BY <2>1, CallPosts
<1>20. CASE DisableInDB(p)
  <2>1. me[p].pc = "disable"
    BY <1>20 DEF DisableInDB, At
  <2>2. \/ \E y \in {"finish", "idle"} : Call(p, "refresh", y) /\ Post("refresh", me[p].op, y)
        \/ Goto(p, "stored") /\ Post("stored", me[p].op, me[p].then)
        \/ Return(p)
    BY <1>0, <1>20, <2>1 DEF DisableInDB, AfterDisable, EndValidation, Post
  <2> QED
    BY <2>2, CallPosts, GotoPosts, ReturnPosts
<1>21. CASE CheckUnauthorized(p)
  <2>1. \E y \in {"spawnCheck", "stored", "idle"} :
          Call(p, "evict", y) /\ Post("evict", me[p].op, y)
    BY <1>0, <1>21 DEF CheckUnauthorized, At, Post
  <2> QED
    BY <2>1, CallPosts
<1>22. CASE SpawnValidation(p)
  <2>1. \/ Goto(p, "stored") /\ Post("stored", me[p].op, me[p].then)
        \/ Return(p)
    BY <1>0, <1>22 DEF SpawnValidation, At, Post
  <2> QED
    BY <2>1, GotoPosts, ReturnPosts
<1>23. CASE ValidateCredential(p)
  <2>1. me[p].pc = "validate"
    BY <1>23 DEF ValidateCredential, At
  <2>2. me[p].op = "validate"
    BY <1>0, <2>1 DEF Post
  <2>3. \/ Goto(p, "verify") /\ Post("verify", me[p].op, me[p].then)
        \/ Call(p, "refresh", "finish") /\ Post("refresh", me[p].op, "finish")
    BY <1>0, <1>23, <2>1, <2>2 DEF ValidateCredential, EndValidation, Post
  <2> QED
    BY <2>3, GotoPosts, CallPosts
<1>24. CASE VerifyUsable(p)
  <2>1. me[p].pc = "verify"
    BY <1>24 DEF VerifyUsable, At
  <2>2. me[p].op = "validate"
    BY <1>0, <2>1 DEF Post
  <2>3. ASSUME NEW q \in Quotas, me' = [me EXCEPT ![p] = [@ EXCEPT !.pc = "apply", !.q = q]]
        PROVE  Moved
    <3> DEFINE r == [me[p] EXCEPT !.pc = "apply", !.q = q]
    <3>1. r.pc = "apply" /\ r.op = me[p].op /\ r.then = me[p].then /\ r.c = me[p].c /\ r.t = me[p].t
      BY <1>0 DEF Frame
    <3>2. me' = [me EXCEPT ![p] = r]
      BY <2>3
    <3> HIDE DEF r
    <3>3. GoesOn(me[p], r)
      BY <1>0, <2>1, <3>1 DEF Post, GoesOn
    <3> QED
      BY <3>2, <3>3, OnePosts
  <2>4. /\ Post("disable", me[p].op, me[p].then)
        /\ Post("refresh", me[p].op, "finish")
    BY <1>0, <2>1, <2>2 DEF Post
  <2> QED
    BY <1>24, <2>3, <2>4, GotoPosts, CallPosts DEF VerifyUsable, EndValidation
<1>25. CASE FinishValidation(p)
  BY <1>25, ReturnPosts DEF FinishValidation
<1>26. CASE FetchQuota(p)
  <2>1. me[p].pc = "fetch"
    BY <1>26 DEF FetchQuota, At
  <2>2. ASSUME NEW q \in Quotas, me' = [me EXCEPT ![p] = [@ EXCEPT !.pc = "apply", !.q = q]]
        PROVE  Moved
    <3> DEFINE r == [me[p] EXCEPT !.pc = "apply", !.q = q]
    <3>1. r.pc = "apply" /\ r.op = me[p].op /\ r.then = me[p].then /\ r.c = me[p].c /\ r.t = me[p].t
      BY <1>0 DEF Frame
    <3>2. me' = [me EXCEPT ![p] = r]
      BY <2>2
    <3> HIDE DEF r
    <3>3. GoesOn(me[p], r)
      BY <1>0, <2>1, <3>1 DEF Post, GoesOn
    <3> QED
      BY <3>2, <3>3, OnePosts
  <2>3. /\ Post("stored", me[p].op, me[p].then)
        /\ me[p].op = "import" => Post("evict", me[p].op, "disable")
        /\ me[p].op = "sync" => \A next \in {"unauth", "reject"} :
                                  Post(next, me[p].op, me[p].then)
    BY <1>0, <2>1 DEF Post
  <2> QED
    BY <1>26, <2>2, <2>3, GotoPosts, CallPosts DEF FetchQuota
<1>27. CASE ApplyStoredQuota(p)
  <2>1. me[p].pc = "apply"
    BY <1>27 DEF ApplyStoredQuota, At
  <2>2. ASSUME NEW b \in BOOLEAN,
               me' = [me EXCEPT ![p] = [@ EXCEPT !.pc = "upsert", !.hit = InPool(me[p].c) /\ ~b]]
        PROVE  Moved
    <3> DEFINE r == [me[p] EXCEPT !.pc = "upsert", !.hit = InPool(me[p].c) /\ ~b]
    <3>1. r.pc = "upsert" /\ r.op = me[p].op /\ r.then = me[p].then /\ r.c = me[p].c /\ r.t = me[p].t
      BY <1>0 DEF Frame
    <3>2. me' = [me EXCEPT ![p] = r]
      BY <2>2
    <3> HIDE DEF r
    <3>3. GoesOn(me[p], r)
      BY <1>0, <2>1, <3>1 DEF Post, GoesOn
    <3> QED
      BY <3>2, <3>3, OnePosts
  <2> QED
    BY <1>27, <2>2 DEF ApplyStoredQuota
<1>28. CASE UpsertQuota(p)
  <2>1. me[p].pc = "upsert"
    BY <1>28 DEF UpsertQuota, At
  <2> DEFINE next(pc) == [me[p] EXCEPT !.pc = pc, !.hit = FALSE, !.q = NoQuota,
                                       !.then = IF pc = "refresh" THEN "stored" ELSE @]
  <2>2. ASSUME NEW x \in {"stored", "refresh"}, me' = [me EXCEPT ![p] = next(x)]
        PROVE  Moved
    <3> DEFINE r == next(x)
    <3>1. /\ r.pc = x /\ r.op = me[p].op /\ r.c = me[p].c /\ r.t = me[p].t
          /\ r.then = IF x = "refresh" THEN "stored" ELSE me[p].then
      BY <1>0 DEF Frame
    <3>2. me' = [me EXCEPT ![p] = r]
      BY <2>2
    <3> HIDE DEF r
    <3>3. GoesOn(me[p], r)
      BY <1>0, <2>1, <3>1 DEF Post, GoesOn
    <3> QED
      BY <3>2, <3>3, OnePosts
  <2> QED
    BY <1>28, <2>2 DEF UpsertQuota
<1>29. CASE AfterStoreQuota(p)
  <2>1. me[p].pc = "stored"
    BY <1>29 DEF AfterStoreQuota, At
  <2>2. me[p].op \in {"validate", "import", "sync"}
    BY <1>0, <2>1 DEF Placed, MayStand, QuotaPCs
  <2>3. \E x \in {"refresh", "list"}, y \in {"finish", "idle"} :
          Call(p, x, y) /\ Post(x, me[p].op, y)
    BY <1>0, <1>29, <2>1, <2>2 DEF AfterStoreQuota, EndValidation, CacheRows, Post
  <2> QED
    BY <2>3, CallPosts
<1>30. CASE MergeQuota(p)
  <2>1. me[p].pc = "mergeQuota"
    BY <1>30 DEF MergeQuota, At
  <2>2. ASSUME NEW q \in Quotas, me' = [me EXCEPT ![p] = [me[p] EXCEPT !.pc = "put", !.q =
               [t \in Tiers |-> IF q[t] = "missing" /\ InPool(me[p].c)
                                  THEN IF avail[me[p].c][t].live THEN "live" ELSE "dead"
                                  ELSE q[t]]]]
        PROVE  Moved
    <3> DEFINE r == [me[p] EXCEPT !.pc = "put", !.q =
               [t \in Tiers |-> IF q[t] = "missing" /\ InPool(me[p].c)
                                  THEN IF avail[me[p].c][t].live THEN "live" ELSE "dead"
                                  ELSE q[t]]]
    <3>1. r.pc = "put" /\ r.op = me[p].op /\ r.then = me[p].then /\ r.c = me[p].c /\ r.t = me[p].t
      BY <1>0 DEF Frame
    <3>2. me' = [me EXCEPT ![p] = r]
      BY <2>2
    <3> HIDE DEF r
    <3>3. GoesOn(me[p], r)
      BY <1>0, <2>1, <3>1 DEF Post, GoesOn
    <3> QED
      BY <3>2, <3>3, OnePosts
  <2> QED
    BY <1>30, <2>2 DEF MergeQuota
<1>31. CASE PutQuota(p)
  <2>1. me[p].pc = "put"
    BY <1>31 DEF PutQuota, At
  <2>2. ASSUME me[p].op = "probe", me' = [me EXCEPT ![p] = [@ EXCEPT !.pc = "complete", !.q = NoQuota]]
        PROVE  Moved
    <3> DEFINE r == [me[p] EXCEPT !.pc = "complete", !.q = NoQuota]
    <3>1. r.pc = "complete" /\ r.op = me[p].op /\ r.then = me[p].then /\ r.c = me[p].c /\ r.t = me[p].t
      BY <1>0 DEF Frame
    <3>2. me' = [me EXCEPT ![p] = r]
      BY <2>2
    <3> HIDE DEF r
    <3>3. GoesOn(me[p], r)
      BY <1>0, <2>1, <2>2, <3>1 DEF Post, GoesOn
    <3> QED
      BY <3>2, <3>3, OnePosts
  <2> QED
    BY <1>31, <2>2, ReturnPosts DEF PutQuota
<1>32. CASE AcquireSlot(p)
  <2>1. (Goto(p, "mark") /\ Post("mark", me[p].op, me[p].then)) \/ Return(p)
    BY <1>0, <1>32 DEF AcquireSlot, At, Post
  <2> QED
    BY <2>1, GotoPosts, ReturnPosts
<1>33. CASE MarkProbing(p)
  <2>1. \/ Goto(p, "release") /\ Post("release", me[p].op, me[p].then)
        \/ Call(p, "suspend", "spawnProbe") /\ Post("suspend", me[p].op, "spawnProbe")
    BY <1>0, <1>33 DEF MarkProbing, GiveSlotBack, At, Post
  <2> QED
    BY <2>1, GotoPosts, CallPosts
<1>34. CASE SpawnProbe(p)
  BY <1>34, ReturnPosts DEF SpawnProbe
<1>35. CASE ProbeQuota(p)
  <2>1. me[p].pc = "probe"
    BY <1>35 DEF ProbeQuota, At
  <2>2. ASSUME NEW at \in clock + 1 .. MaxClock + 1,
               me' = [me EXCEPT ![p] = [@ EXCEPT !.pc = "remember", !.at = at]]
        PROVE  Moved
    <3> DEFINE r == [me[p] EXCEPT !.pc = "remember", !.at = at]
    <3>1. r.pc = "remember" /\ r.op = me[p].op /\ r.then = me[p].then /\ r.c = me[p].c /\ r.t = me[p].t
      BY <1>0 DEF Frame
    <3>2. me' = [me EXCEPT ![p] = r]
      BY <2>2
    <3> HIDE DEF r
    <3>3. GoesOn(me[p], r)
      BY <1>0, <2>1, <3>1 DEF Post, GoesOn
    <3> QED
      BY <3>2, <3>3, OnePosts
  <2>3. Post("mergeQuota", me[p].op, me[p].then)
    BY <1>0, <2>1 DEF Post
  <2> QED
    BY <1>35, <2>2, <2>3, GotoPosts DEF ProbeQuota
<1>36. CASE CompleteProbe(p)
  <2>1. Goto(p, "release") /\ Post("release", me[p].op, me[p].then)
    BY <1>0, <1>36 DEF CompleteProbe, At, Post
  <2> QED
    BY <2>1, GotoPosts
<1>37. CASE ReleaseSlot(p)
  BY <1>37, ReturnPosts DEF ReleaseSlot
<1>38. CASE ListAvailable(p)
  <2>1. (Call(p, "refresh", "idle") /\ Post("refresh", me[p].op, "idle")) \/ Return(p)
    BY <1>0, <1>38 DEF ListAvailable, At, Post
  <2> QED
    BY <2>1, CallPosts, ReturnPosts
<1>39. CASE AdminSetStatus(p)
  <2>1. \E y \in {"spawnImport", "idle"} : Call(p, "refresh", y) /\ Post("refresh", me[p].op, y)
    BY <1>0, <1>39 DEF AdminSetStatus, At, Post
  <2> QED
    BY <2>1, CallPosts
<1>40. CASE SyncCredentials(p)
  BY <1>40, ReturnPosts DEF SyncCredentials
<1> QED
  BY <1>1, <1>2, <1>3, <1>4, <1>5, <1>6, <1>7, <1>8, <1>9, <1>10, <1>11, <1>12, <1>13,
     <1>14, <1>15, <1>16, <1>17, <1>18, <1>19, <1>20, <1>21, <1>22, <1>23, <1>24, <1>25,
     <1>26, <1>27, <1>28, <1>29, <1>30, <1>31, <1>32, <1>33, <1>34, <1>35, <1>36, <1>37,
     <1>38, <1>39, <1>40 DEF Step

LEMMA RunPosts ==
  ASSUME PostInv, NEW p \in Procs, NEW op \in AllOps \cup {"probe", "validate", "import"},
         NEW c, NEW t, Names(op, c, t), Run(p, op, c, t)
  PROVE  /\ AllPosted'
         /\ me[p] = Idle \/ me[p].pc = "idle"
         /\ me'[p].pc = First[op] /\ me'[p].op = op /\ me'[p].c = c /\ me'[p].t = t
         /\ \A u \in Procs \ {p} : me'[u] = me[u]
<1> DEFINE r == [Idle EXCEPT !.pc = First[op], !.op = op, !.c = c, !.t = t]
<1>1. r.pc = First[op] /\ r.op = op /\ r.then = "idle" /\ r.c = c /\ r.t = t
  BY DEF Idle
<1>2. me' = [me EXCEPT ![p] = r] /\ me[p].pc = "idle"
  BY DEF Run, At
<1>3. Post(First[op], op, "idle")
  BY DEF First, AllOps, Post
<1> HIDE DEF r
<1>4. \A u \in Procs : me'[u] = IF u = p THEN r ELSE me[u]
  BY <1>2 DEF PostInv, ControlInv, Flow, Framed
<1> QED
  BY <1>1, <1>2, <1>3, <1>4 DEF PostInv, AllPosted, Posted

LEMMA JobsNamedStep ==
  ASSUME PostInv, [Next]_vars
  PROVE  JobsNamed'
<1>0. JobsNamed
  BY DEF PostInv
<1>1. CASE Tick \/ UNCHANGED vars
  BY <1>0, <1>1 DEF Tick, vars, JobsNamed
<1>2. CASE \E j \in spawned : Superseded(j) \/ \E p \in Procs : StartJob(p, j)
  BY <1>0, <1>2 DEF Superseded, StartJob, JobsNamed
<1>3. ASSUME NEW p \in Procs, NEW op \in Ops, Start(p, op) PROVE JobsNamed'
  BY <1>0, <1>3 DEF Start, JobsNamed
<1>4. ASSUME NEW p \in Procs, Step(p) PROVE JobsNamed'
  <2>0. Posted(me[p])
    BY DEF PostInv, AllPosted
  <2> DEFINE j(op, at) == [op |-> op, c |-> me[p].c, t |-> me[p].t, at |-> at]
  <2>1. CASE \E at : spawned' = spawned \cup {j("wake", at)} /\ me[p].pc \in {"throttle", "throttleStore"}
    <3>1. me[p].c \in Creds
      BY <2>0, <2>1 DEF Posted, Post, Names
    <3> QED
      BY <1>0, <2>1, <3>1 DEF JobsNamed
  <2>2. CASE SpawnValidation(p) \/ SpawnProbe(p) \/ SyncCredentials(p)
    <3>1. me[p].c \in Creds /\ (SpawnProbe(p) => me[p].t \in Tiers)
      BY <2>0, <2>2 DEF Posted, Post, Names, SpawnValidation, SpawnProbe,
         SyncCredentials, At
    <3>2. \/ spawned' = spawned \cup {j("validate", 0)} \/ spawned' = spawned \cup {j("import", 0)}
          \/ spawned' = spawned \cup {j("probe", 0)} /\ me[p].t \in Tiers
      BY <2>2, <3>1 DEF SpawnValidation, SpawnProbe, SyncCredentials, Go, Job
    <3> QED
      BY <1>0, <3>1, <3>2 DEF JobsNamed
  <2>3. CASE UNCHANGED spawned
    BY <1>0, <2>3 DEF JobsNamed
  <2>4. CASE ThrottleStore(p)
    BY <2>1, <2>4 DEF ThrottleStore, Go, Job, At
  <2>5. CASE EditNothing(p)
    BY <2>1, <2>3, <2>5 DEF EditNothing, Go, Job, At
  <2> QED
    BY <1>4, <2>2, <2>3, <2>4, <2>5 DEF Step, EnterRefresh, ListRows, BuildRows,
       MergeThrottles, StoreRows, ClearExpired, Load, EvictStore, SuspendStore,
       LogRequest, ComputeRate, ApplyWeight, ClearThrottle, CountFailure,
       ThrottleInDB, RememberThrottle, RejectCredential, DisableInDB,
       CheckUnauthorized, ValidateCredential, VerifyUsable, FinishValidation,
       FetchQuota, ApplyStoredQuota, UpsertQuota, AfterStoreQuota, MergeQuota,
       PutQuota, AcquireSlot, MarkProbing, ProbeQuota, CompleteProbe, ReleaseSlot,
       ListAvailable, AdminSetStatus
<1> QED
  BY <1>1, <1>2, <1>3, <1>4 DEF Next

\* What an operation is started with, and a job.
LEMMA StartNames ==
  ASSUME NEW p \in Procs, NEW op \in Ops, Start(p, op)
  PROVE  op \in AllOps /\ \E c, t : Names(op, c, t) /\ Run(p, op, c, t)
<1>1. op \in AllOps
  BY ConstantsAssumption DEF ConstantsAssumption
<1>2. PICK a \in Arguments(op) : Run(p, op, a[1], a[2])
  BY DEF Start
<1>3. Names(op, a[1], a[2])
  BY <1>1, <1>2 DEF Arguments, Names, AllOps
<1> QED
  BY <1>1, <1>2, <1>3

LEMMA JobNames ==
  ASSUME PostInv, NEW p \in Procs, NEW j \in spawned, StartJob(p, j)
  PROVE  \/ /\ j.op \in {"probe", "validate", "import"} /\ Names(j.op, j.c, j.t)
            /\ Run(p, j.op, j.c, j.t)
         \/ /\ j.op = "wake" /\ Names("refresh", None, None)
            /\ Run(p, "refresh", None, None)
  BY DEF PostInv, ControlInv, KnownJobs, JobOps, JobsNamed, StartJob, Names

LEMMA PostInvariant == Spec => []PostInv
<1>1. Init => AllPosted /\ JobsNamed
  BY DEF Init, AllPosted, JobsNamed, Posted, Post, Names, Idle
<1>2. PostInv /\ [Next]_vars => AllPosted' /\ JobsNamed'
  <2> SUFFICES ASSUME PostInv, [Next]_vars PROVE AllPosted'
    BY JobsNamedStep
  <2>1. CASE Tick \/ UNCHANGED vars \/ \E j \in spawned : Superseded(j)
    BY <2>1 DEF Tick, vars, Superseded, PostInv, AllPosted
  <2>2. ASSUME NEW j \in spawned, NEW p \in Procs, StartJob(p, j) PROVE AllPosted'
    BY <2>2, JobNames, RunPosts DEF AllOps
  <2>3. ASSUME NEW p \in Procs, NEW op \in Ops, Start(p, op) PROVE AllPosted'
    BY <2>3, StartNames, RunPosts
  <2>4. ASSUME NEW p \in Procs, Step(p) PROVE AllPosted'
    BY <2>4, PostStep, MovedPosts
  <2> QED
    BY <2>1, <2>2, <2>3, <2>4 DEF Next
<1> QED
  BY <1>1, <1>2, ControlInvariant, PTL DEF PostInv, Spec

-----------------------------------------------------------------------------
(* Probes: who holds a slot of quotaRefreshSem, and who answers for a mark. *)

\* The probes under way: who holds a slot of quotaRefreshSem, the probes that
\* wait to start, the mark that one job answers for.
Holders     == {p \in Procs : HoldsSlot(p)}
ProbeJobs   == {j \in spawned : j.op = "probe"}
ProbeOf(c, t) == [op |-> "probe", c |-> c, t |-> t, at |-> 0]

\* The semaphore counts both; the sets are finite because their slots are.
SlotsCounted ==
  /\ IsFiniteSet(Holders) /\ IsFiniteSet(ProbeJobs)
  /\ sem = Cardinality(Holders) + Cardinality(ProbeJobs)
  /\ sem <= SemLimit

\* A slot is marked for as long as one goroutine, or one job, probes it.
MarksHeld ==
  \A c \in Creds, t \in Tiers :
    /\ <<c, t>> \in probing <=> (\E p \in Procs : Probing(p, c, t)) \/ ProbeOf(c, t) \in spawned
    /\ \A p, r \in Procs : Probing(p, c, t) /\ Probing(r, c, t) => p = r
    /\ \A p \in Procs : Probing(p, c, t) => ProbeOf(c, t) \notin spawned

ProbeInv == SlotsCounted /\ MarksHeld

\* The places of the actions that do not concern probes, and the probes' own.
QueuePCs == {"acquire", "mark", "suspend", "suspendStore", "spawnProbe"}
ProbePCs == {"probe", "mergeQuota", "put", "remember", "throttle", "throttleStore"}
SlotPCs  == QueuePCs \cup ProbePCs \cup {"complete", "release"}

\* A step moves the goroutine whose step it is and, if it leads a refresh, those
\* that joined it.
Apart(p) == \A u \in Procs \ {p} :
              me'[u] = me[u] \/ (me[u].pc = "join" /\ me'[u] = Resume(me[u]))

LEMMA ApartStep ==
  ASSUME PostInv, NEW p \in Procs, Step(p)
  PROVE  Apart(p)
<1>0. me = [u \in Procs |-> me[u]]
  BY DEF PostInv, ControlInv, Flow, Framed
<1>1. ASSUME NEW r, me' = [me EXCEPT ![p] = r] PROVE Apart(p)
  BY <1>0, <1>1 DEF Apart
<1>2. ASSUME NEW x, Goto(p, x) PROVE Apart(p)
  BY <1>1, <1>2 DEF Goto
<1>3. ASSUME NEW x, NEW y, Call(p, x, y) PROVE Apart(p)
  BY <1>1, <1>3 DEF Call
<1>4. ASSUME Return(p) PROVE Apart(p)
  BY <1>1, <1>4 DEF Return
<1>5. ASSUME LeaveRefresh(p) PROVE Apart(p)
  BY <1>5 DEF LeaveRefresh, At, Apart
<1>6. CASE EnterRefresh(p) \/ LogRequest(p) \/ ClearThrottle(p) \/ ThrottleInDB(p)
           \/ RememberThrottle(p)
           \/ RejectCredential(p)
  BY <1>2, <1>3, <1>4, <1>6 DEF EnterRefresh, LogRequest, ClearThrottle, ThrottleInDB,
     RememberThrottle, RejectCredential
<1>7. CASE DisableInDB(p) \/ ValidateCredential(p) \/ FinishValidation(p)
           \/ CheckUnauthorized(p) \/ SpawnValidation(p)
  BY <1>2, <1>3, <1>4, <1>7 DEF DisableInDB, AfterDisable, EndValidation,
     ValidateCredential, FinishValidation, CheckUnauthorized, SpawnValidation
<1>8. CASE AcquireSlot(p) \/ MarkProbing(p) \/ SpawnProbe(p) \/ CompleteProbe(p)
           \/ ReleaseSlot(p) \/ ListAvailable(p)
           \/ AdminSetStatus(p) \/ SyncCredentials(p)
  BY <1>2, <1>3, <1>4, <1>8 DEF AcquireSlot, MarkProbing, GiveSlotBack, SpawnProbe,
     CompleteProbe, ReleaseSlot, ListAvailable, AdminSetStatus, SyncCredentials
<1>9. CASE ListRows(p) \/ ClearExpired(p)
  BY <1>1, <1>5, <1>9 DEF ListRows, ClearExpired
<1>10. CASE BuildRows(p) \/ MergeThrottles(p) \/ StoreRows(p) \/ Load(p)
  BY <1>1, <1>10 DEF BuildRows, MergeThrottles, StoreRows, Load
<1>11. CASE EvictStore(p) \/ SuspendStore(p) \/ ThrottleStore(p) \/ EditNothing(p)
  BY <1>1, <1>11 DEF EvictStore, SuspendStore, ThrottleStore, EditNothing
<1>12. CASE ComputeRate(p) \/ ApplyWeight(p) \/ CountFailure(p)
  BY <1>1, <1>2, <1>4, <1>12 DEF ComputeRate, AfterWeight, ApplyWeight, CountFailure
<1>13. CASE VerifyUsable(p) \/ FetchQuota(p) \/ ApplyStoredQuota(p) \/ ProbeQuota(p) \/ PutQuota(p)
  BY <1>1, <1>2, <1>3, <1>4, <1>13 DEF VerifyUsable, EndValidation, FetchQuota,
     ApplyStoredQuota, ProbeQuota, PutQuota
<1>14. CASE UpsertQuota(p)
  BY <1>1, <1>14 DEF UpsertQuota
<1>15. CASE MergeQuota(p)
  BY <1>1, <1>15 DEF MergeQuota
<1>16. CASE AfterStoreQuota(p)
  <2>1. me[p].op \in {"validate", "import", "sync"}
    BY <1>16 DEF PostInv, ControlInv, Flow, Framed, Placed, MayStand, QuotaPCs,
       AfterStoreQuota, At
  <2> QED
    BY <1>3, <1>16, <2>1 DEF AfterStoreQuota, EndValidation, CacheRows
<1> QED
  BY <1>6, <1>7, <1>8, <1>9, <1>10, <1>11, <1>12, <1>13, <1>14, <1>15, <1>16 DEF Step

\* What a step may do to goroutines that probe or are about to: the actions that
\* take, mark, start, unmark or give back apart, they only go on.
Keeps(r, s) ==
  \/ s = r
  \/ /\ GoesOn(r, s) /\ s.pc \in SlotPCs \ {"acquire", "mark", "release"}
     /\ r.pc \in SlotPCs \ {"acquire", "mark", "release"}
OthersKept == \A u \in Procs : me[u].op \in {"queue", "probe"} => Keeps(me[u], me'[u])

SlotStep(p) == AcquireSlot(p) \/ MarkProbing(p) \/ SpawnProbe(p) \/ CompleteProbe(p) \/ ReleaseSlot(p)

LEMMA QuietStep ==
  ASSUME PostInv, NEW p \in Procs, Step(p), ~SlotStep(p)
  PROVE  OthersKept /\ UNCHANGED <<sem, probing>> /\ ProbeJobs' = ProbeJobs
<1>0. /\ Apart(p) /\ Moved
      /\ Frame(me[p]) /\ Placed(me[p]) /\ Posted(me[p])
      /\ \A u \in Procs : me[u].op \in {"queue", "probe"} => me[u].pc \in SlotPCs
      /\ me = [u \in Procs |-> me[u]]
  BY ApartStep, PostStep DEF PostInv, ControlInv, Flow, Framed, AllPosted, Posted, Post,
     SlotPCs, QueuePCs, ProbePCs
<1>1. \A u \in Procs \ {p} : me[u].op \in {"queue", "probe"} => Keeps(me[u], me'[u])
  BY <1>0 DEF Apart, Keeps, SlotPCs, QueuePCs, ProbePCs
<1>2. me[p].op \in {"queue", "probe"} => Keeps(me[p], me'[p])
  <2> SUFFICES ASSUME me[p].op \in {"queue", "probe"} PROVE Keeps(me[p], me'[p])
    OBVIOUS
  <2>1. me[p].pc \in SlotPCs
    BY <1>0
  <2>2. ASSUME me[p].pc \in SlotPCs \ {"acquire", "mark", "release"},
               me'[p].pc \in SlotPCs \ {"acquire", "mark", "release"}
        PROVE  Keeps(me[p], me'[p])
    BY <1>0, <2>2 DEF Moved, Idle, SlotPCs, QueuePCs, ProbePCs, Keeps
  <2>3. CASE Load(p)
    <3>1. /\ me[p].pc \in {"suspend", "throttle"}
          /\ me'[p] = [me[p] EXCEPT !.pc = Storing[me[p].pc], !.work = avail]
      BY <1>0, <2>1, <2>3 DEF Load, Storing, SlotPCs, QueuePCs, ProbePCs
    <3>2. me'[p].pc \in {"suspendStore", "throttleStore"}
      BY <1>0, <3>1 DEF Frame, Storing
    <3> QED
      BY <2>2, <3>1, <3>2 DEF SlotPCs, QueuePCs, ProbePCs
  <2>4. CASE SuspendStore(p) \/ ThrottleStore(p) \/ EditNothing(p)
    <3>1. /\ me[p].pc \in {"suspendStore", "throttleStore", "suspend", "throttle"}
          /\ me'[p] = Resume(me[p])
      BY <1>0, <2>1, <2>4 DEF SuspendStore, ThrottleStore, EditNothing, At, Storing,
         SlotPCs, QueuePCs, ProbePCs
    <3>2. me[p].then \in {"spawnProbe", "complete"}
      BY <1>0, <3>1 DEF Posted, Post
    <3>3. me'[p].pc = me[p].then
      BY <1>0, <3>1, <3>2, Resumes DEF CalledPCs
    <3> QED
      BY <2>2, <3>1, <3>2, <3>3 DEF SlotPCs, QueuePCs, ProbePCs
  <2>5. CASE RememberThrottle(p)
    <3>1. me[p].pc = "remember" /\ me'[p].pc = "throttle"
      BY <1>0, <2>5 DEF RememberThrottle, At, Call, Frame
    <3> QED
      BY <2>2, <3>1 DEF SlotPCs, QueuePCs, ProbePCs
  <2>6. CASE MergeQuota(p)
    <3>1. me[p].pc = "mergeQuota" /\ me'[p].pc = "put"
      BY <1>0, <2>6 DEF MergeQuota, At, Frame
    <3> QED
      BY <2>2, <3>1 DEF SlotPCs, QueuePCs, ProbePCs
  <2>7. CASE PutQuota(p)
    <3>1. me[p].pc = "put" /\ me[p].op = "probe"
      BY <1>0, <2>7 DEF PutQuota, At, Posted, Post
    <3>2. me'[p].pc = "complete"
      BY <1>0, <2>7, <3>1 DEF PutQuota, Frame
    <3> QED
      BY <2>2, <3>1, <3>2 DEF SlotPCs, QueuePCs, ProbePCs
  <2>8. CASE ProbeQuota(p)
    <3>1. me[p].pc = "probe" /\ me'[p].pc \in {"mergeQuota", "remember"}
      BY <1>0, <2>8 DEF ProbeQuota, At, Goto, Frame
    <3> QED
      BY <2>2, <3>1 DEF SlotPCs, QueuePCs, ProbePCs
  <2> HIDE <2>2
  <2> QED
    BY <2>1, <2>3, <2>4, <2>5, <2>6, <2>7, <2>8 DEF Step, SlotStep, At, SlotPCs,
       QueuePCs, ProbePCs, EnterRefresh, ListRows, BuildRows, MergeThrottles, StoreRows,
       ClearExpired, EvictStore, LogRequest, ComputeRate, ApplyWeight,
       ClearThrottle, CountFailure, ThrottleInDB, RejectCredential, DisableInDB,
       CheckUnauthorized, SpawnValidation, ValidateCredential, VerifyUsable,
       FinishValidation, FetchQuota, ApplyStoredQuota, UpsertQuota, AfterStoreQuota,
       ListAvailable, AdminSetStatus, SyncCredentials
<1>3. UNCHANGED <<sem, probing>>
  BY DEF Step, SlotStep, memory, EnterRefresh, ListRows, BuildRows, MergeThrottles,
     StoreRows, ClearExpired, Load, EvictStore, SuspendStore, ThrottleStore, EditNothing,
     LogRequest, ComputeRate, ApplyWeight, ClearThrottle, CountFailure, ThrottleInDB,
     RememberThrottle, RejectCredential, DisableInDB, CheckUnauthorized, SpawnValidation,
     ValidateCredential, VerifyUsable, FinishValidation, FetchQuota, ApplyStoredQuota,
     UpsertQuota, AfterStoreQuota, MergeQuota, PutQuota, ProbeQuota, ListAvailable,
     AdminSetStatus, SyncCredentials
<1>4. ProbeJobs' = ProbeJobs
  <2>1. CASE ThrottleStore(p) \/ EditNothing(p)
    BY <2>1 DEF ThrottleStore, EditNothing, Go, Job, ProbeJobs
  <2>2. CASE SpawnValidation(p) \/ SyncCredentials(p)
    BY <2>2 DEF SpawnValidation, SyncCredentials, Go, Job, ProbeJobs
  <2>3. CASE UNCHANGED spawned
    BY <2>3 DEF ProbeJobs
  <2> QED
    BY <2>1, <2>2, <2>3 DEF Step, SlotStep, EnterRefresh, ListRows, BuildRows,
       MergeThrottles, StoreRows, ClearExpired, Load, EvictStore, SuspendStore,
       LogRequest, ComputeRate, ApplyWeight, ClearThrottle, CountFailure,
       ThrottleInDB, RememberThrottle, RejectCredential, DisableInDB,
       CheckUnauthorized, ValidateCredential, VerifyUsable, FinishValidation,
       FetchQuota, ApplyStoredQuota, UpsertQuota, AfterStoreQuota, MergeQuota,
       PutQuota, ProbeQuota, ListAvailable, AdminSetStatus
<1> QED
  BY <1>1, <1>2, <1>3, <1>4 DEF OthersKept

\* Who holds a slot and who probes is what such a step leaves as it was.
LEMMA KeptHolders ==
  ASSUME PostInv, Moved, OthersKept
  PROVE  /\ Holders' = Holders
         /\ \A u \in Procs, c \in Creds, t \in Tiers : Probing(u, c, t)' = Probing(u, c, t)
<1>1. ASSUME NEW u \in Procs
      PROVE  HoldsSlot(u)' = HoldsSlot(u) /\ (\A c \in Creds, t \in Tiers : Probing(u, c, t)' = Probing(u, c, t))
  <2>0. Posted(me[u]) /\ Posted(me[u])'
    BY MovedPosts DEF PostInv, AllPosted
  <2>1. CASE me[u].op \in {"queue", "probe"}
    BY <2>0, <2>1 DEF OthersKept, Keeps, GoesOn, SlotPCs, QueuePCs, ProbePCs, HoldsSlot,
       Probing, Queueing, Posted, Post
  <2>2. CASE me[u].op \notin {"queue", "probe"}
    <3>1. me'[u].op \notin {"queue", "probe"}
      BY <2>2 DEF Moved, GoesOn, Idle
    <3> QED
      BY <2>0, <2>2, <3>1 DEF HoldsSlot, Probing, Queueing, Posted, Post
  <2> QED
    BY <2>1, <2>2
<1> QED
  BY <1>1 DEF Holders

\* Counting: one more, one fewer, or one that changes sides.
LEMMA CountOf ==
  ASSUME SlotsCounted, NEW H, NEW J, NEW p, NEW j, Holders' = H, ProbeJobs' = J,
         \/ H = Holders /\ J = ProbeJobs /\ sem' = sem
         \/ H = Holders \cup {p} /\ p \notin Holders /\ J = ProbeJobs /\ sem < SemLimit /\ sem' = sem + 1
         \/ H = Holders \ {p} /\ p \in Holders /\ J = ProbeJobs /\ sem' = sem - 1
         \/ /\ H = Holders \ {p} /\ p \in Holders
            /\ J = ProbeJobs \cup {j} /\ j \notin ProbeJobs /\ sem' = sem
         \/ /\ H = Holders \cup {p} /\ p \notin Holders
            /\ J = ProbeJobs \ {j} /\ j \in ProbeJobs /\ sem' = sem
  PROVE  SlotsCounted'
<1> DEFINE A == Holders  B == ProbeJobs
<1>0. /\ IsFiniteSet(A) /\ IsFiniteSet(B) /\ Cardinality(A) \in Nat /\ Cardinality(B) \in Nat
      /\ sem = Cardinality(A) + Cardinality(B) /\ sem <= SemLimit /\ SemLimit \in Nat
  BY FS_CardinalityType, ConstantsAssumption DEF SlotsCounted, ConstantsAssumption
<1>1. /\ IsFiniteSet(A \cup {p}) /\ IsFiniteSet(A \ {p}) /\ IsFiniteSet(B \cup {j}) /\ IsFiniteSet(B \ {j})
      /\ p \notin A => Cardinality(A \cup {p}) = Cardinality(A) + 1
      /\ j \notin B => Cardinality(B \cup {j}) = Cardinality(B) + 1
      /\ p \in A => Cardinality(A \ {p}) = Cardinality(A) - 1
      /\ j \in B => Cardinality(B \ {j}) = Cardinality(B) - 1
  BY <1>0, FS_AddElement, FS_RemoveElement
<1> HIDE DEF A, B
<1>2. CASE H = A /\ J = B /\ sem' = sem
  BY <1>0, <1>2 DEF SlotsCounted
<1>3. CASE H = A \cup {p} /\ p \notin A /\ J = B /\ sem < SemLimit /\ sem' = sem + 1
  <2>1. Cardinality(H) = Cardinality(A) + 1 /\ Cardinality(J) = Cardinality(B)
    BY <1>1, <1>3
  <2> QED
    BY <1>0, <1>1, <1>3, <2>1 DEF SlotsCounted
<1>4. CASE H = A \ {p} /\ p \in A /\ J = B /\ sem' = sem - 1
  <2>1. Cardinality(H) = Cardinality(A) - 1 /\ Cardinality(J) = Cardinality(B)
    BY <1>1, <1>4
  <2> QED
    BY <1>0, <1>1, <1>4, <2>1 DEF SlotsCounted
<1>5. CASE H = A \ {p} /\ p \in A /\ J = B \cup {j} /\ j \notin B /\ sem' = sem
  <2>1. Cardinality(H) = Cardinality(A) - 1 /\ Cardinality(J) = Cardinality(B) + 1
    BY <1>1, <1>5
  <2> QED
    BY <1>0, <1>1, <1>5, <2>1 DEF SlotsCounted
<1>6. CASE H = A \cup {p} /\ p \notin A /\ J = B \ {j} /\ j \in B /\ sem' = sem
  <2>1. Cardinality(H) = Cardinality(A) + 1 /\ Cardinality(J) = Cardinality(B) - 1
    BY <1>1, <1>6
  <2> QED
    BY <1>0, <1>1, <1>6, <2>1 DEF SlotsCounted
<1> QED
  BY <1>2, <1>3, <1>4, <1>5, <1>6 DEF A, B

\* One goroutine moves: what it holds and probes before and after decides.
OneAlone(p) == \A u \in Procs \ {p} : me'[u] = me[u]

LEMMA OneHolds ==
  ASSUME NEW p \in Procs, OneAlone(p)
  PROVE  /\ Holders' = IF HoldsSlot(p)' THEN Holders \cup {p} ELSE Holders \ {p}
         /\ \A u \in Procs \ {p} : \A c, t : Probing(u, c, t)' = Probing(u, c, t)
  BY DEF OneAlone, Holders, HoldsSlot, Probing, Queueing

LEMMA GotoAlone ==
  ASSUME PostInv, NEW p \in Procs, NEW x, Goto(p, x)
  PROVE  /\ OneAlone(p)
         /\ me'[p].pc = x /\ me'[p].op = me[p].op /\ me'[p].c = me[p].c /\ me'[p].t = me[p].t
         /\ me'[p].then = me[p].then
<1>1. me = [u \in Procs |-> me[u]] /\ Frame(me[p])
  BY DEF PostInv, ControlInv, Flow, Framed
<1>2. me' = [me EXCEPT ![p] = [me[p] EXCEPT !.pc = x]]
  BY DEF Goto
<1>3. OneAlone(p) /\ me'[p] = [me[p] EXCEPT !.pc = x]
  BY <1>1, <1>2 DEF OneAlone
<1> QED
  BY <1>1, <1>3 DEF Frame

LEMMA CallAlone ==
  ASSUME PostInv, NEW p \in Procs, NEW x, NEW y, Call(p, x, y)
  PROVE  /\ OneAlone(p)
         /\ me'[p].pc = x /\ me'[p].op = me[p].op /\ me'[p].c = me[p].c /\ me'[p].t = me[p].t
<1>1. me = [u \in Procs |-> me[u]] /\ Frame(me[p])
  BY DEF PostInv, ControlInv, Flow, Framed
<1>2. OneAlone(p) /\ me'[p] = [me[p] EXCEPT !.pc = x, !.then = y]
  BY <1>1 DEF Call, OneAlone
<1> QED
  BY <1>1, <1>2 DEF Frame

LEMMA ReturnAlone ==
  ASSUME PostInv, NEW p \in Procs, Return(p)
  PROVE  OneAlone(p) /\ me'[p] = Idle
<1>1. me = [u \in Procs |-> me[u]]
  BY DEF PostInv, ControlInv, Flow, Framed
<1> QED
  BY <1>1 DEF Return, OneAlone

LEMMA AcquireCounts ==
  ASSUME PostInv, ProbeInv, NEW p \in Procs, AcquireSlot(p)
  PROVE  ProbeInv'
<1>0. /\ Frame(me[p]) /\ Posted(me[p]) /\ me[p].pc = "acquire" /\ me[p].op = "queue"
      /\ me = [u \in Procs |-> me[u]]
  BY DEF PostInv, ControlInv, Flow, Framed, AllPosted, Posted, Post, AcquireSlot, At
<1>1. /\ OneAlone(p) /\ UNCHANGED <<probing, spawned>>
      /\ \/ me'[p].pc = "mark" /\ me'[p].op = "queue" /\ sem' = sem + 1 /\ sem < SemLimit
         \/ me'[p] = Idle /\ sem' = sem
  BY <1>0, GotoAlone, ReturnAlone DEF AcquireSlot, SlotFree
<1>2. p \notin Holders /\ ProbeJobs' = ProbeJobs
  BY <1>0, <1>1 DEF Holders, HoldsSlot, ProbeJobs
<1>3. \/ Holders' = Holders \cup {p} /\ sem' = sem + 1 /\ sem < SemLimit
      \/ Holders' = Holders /\ sem' = sem
  BY <1>1, <1>2, OneHolds DEF HoldsSlot, Idle
<1>4. SlotsCounted'
  BY <1>2, <1>3, CountOf DEF ProbeInv
<1>5. \A u \in Procs : \A c, t : Probing(u, c, t)' <=> Probing(u, c, t)
  <2>1. \A c, t : ~Probing(p, c, t) /\ ~Probing(p, c, t)'
    BY <1>0, <1>1 DEF Probing, Queueing, Idle
  <2> QED
    BY <1>1, <2>1, OneHolds
<1>6. MarksHeld'
  <2>1. probing' = probing /\ spawned' = spawned
    BY <1>1
  <2> QED
    BY <1>5, <2>1 DEF ProbeInv, MarksHeld, ProbeOf
<1> QED
  BY <1>4, <1>6 DEF ProbeInv

LEMMA MarkCounts ==
  ASSUME PostInv, ProbeInv, NEW p \in Procs, MarkProbing(p)
  PROVE  ProbeInv'
<1>0. /\ Frame(me[p]) /\ Posted(me[p]) /\ me[p].pc = "mark" /\ me[p].op = "queue"
      /\ me[p].c \in Creds /\ me[p].t \in Tiers
      /\ me = [u \in Procs |-> me[u]]
  BY DEF PostInv, ControlInv, Flow, Framed, AllPosted, Posted, Post, Names, MarkProbing, At
<1>1. OneAlone(p) /\ UNCHANGED <<sem, spawned>>
  BY <1>0, GotoAlone, CallAlone DEF MarkProbing, GiveSlotBack
<1>2. /\ me'[p].op = "queue" /\ me'[p].c = me[p].c /\ me'[p].t = me[p].t
      /\ \/ me'[p].pc = "release" /\ UNCHANGED probing
         \/ /\ me'[p].pc = "suspend" /\ probing' = probing \cup {<<me[p].c, me[p].t>>}
            /\ <<me[p].c, me[p].t>> \notin probing
  BY <1>0, GotoAlone, CallAlone DEF MarkProbing, GiveSlotBack, AlreadyProbing
<1>3. p \in Holders /\ ProbeJobs' = ProbeJobs /\ HoldsSlot(p)'
  BY <1>0, <1>1, <1>2 DEF Holders, HoldsSlot, ProbeJobs
<1>4. SlotsCounted'
  <2>1. Holders' = Holders
    BY <1>1, <1>3, OneHolds
  <2> QED
    BY <1>1, <1>3, <2>1, CountOf DEF ProbeInv
<1>5. \A c, t : ~Probing(p, c, t)
  BY <1>0 DEF Probing, Queueing
<1>6. CASE me'[p].pc = "release"
  <2>1. \A u \in Procs : \A c, t : Probing(u, c, t)' = Probing(u, c, t)
    BY <1>1, <1>2, <1>5, <1>6, OneHolds DEF Probing, Queueing
  <2>2. UNCHANGED probing
    BY <1>2, <1>6
  <2> QED
    BY <1>1, <1>4, <2>1, <2>2 DEF ProbeInv, MarksHeld
<1>7. CASE me'[p].pc = "suspend"
  <2>1. \A c, t : Probing(p, c, t)' = (c = me[p].c /\ t = me[p].t)
    BY <1>2, <1>7 DEF Probing, Queueing
  <2>2. probing' = probing \cup {<<me[p].c, me[p].t>>} /\ <<me[p].c, me[p].t>> \notin probing
    BY <1>2, <1>7
  <2>3. /\ \A u \in Procs : ~Probing(u, me[p].c, me[p].t)
        /\ ProbeOf(me[p].c, me[p].t) \notin spawned
    BY <1>0, <2>2 DEF ProbeInv, MarksHeld
  <2>4. \A u \in Procs : \A c, t : Probing(u, c, t)'
          <=> Probing(u, c, t) \/ (u = p /\ c = me[p].c /\ t = me[p].t)
    BY <1>1, <1>5, <2>1, OneHolds DEF Probing
  <2>5. MarksHeld'
    <3> SUFFICES ASSUME NEW c \in Creds, NEW t \in Tiers
                 PROVE  /\ <<c, t>> \in probing'
                             <=> (\E u \in Procs : Probing(u, c, t)') \/ ProbeOf(c, t) \in spawned
                        /\ \A u, r \in Procs : Probing(u, c, t)' /\ Probing(r, c, t)' => u = r
                        /\ \A u \in Procs : Probing(u, c, t)' => ProbeOf(c, t) \notin spawned
      BY <1>1 DEF MarksHeld, ProbeOf
    <3>1. CASE c = me[p].c /\ t = me[p].t
      BY <2>2, <2>3, <2>4, <3>1
    <3>2. CASE ~(c = me[p].c /\ t = me[p].t)
      BY <2>2, <2>4, <3>2 DEF ProbeInv, MarksHeld
    <3> QED
      BY <3>1, <3>2
  <2> QED
    BY <1>4, <2>5 DEF ProbeInv
<1> QED
  BY <1>2, <1>6, <1>7

LEMMA SpawnCounts ==
  ASSUME PostInv, ProbeInv, NEW p \in Procs, SpawnProbe(p)
  PROVE  ProbeInv'
<1>0. /\ Frame(me[p]) /\ Posted(me[p]) /\ me[p].pc = "spawnProbe" /\ me[p].op = "queue"
      /\ me[p].c \in Creds /\ me[p].t \in Tiers
      /\ me = [u \in Procs |-> me[u]]
  BY DEF PostInv, ControlInv, Flow, Framed, AllPosted, Posted, Post, Names, SpawnProbe, At
<1> DEFINE j == ProbeOf(me[p].c, me[p].t)
<1>1. /\ OneAlone(p) /\ me'[p] = Idle /\ UNCHANGED <<sem, probing>>
      /\ spawned' = spawned \cup {j}
  BY <1>0 DEF SpawnProbe, memory, Return, Go, Job, ProbeOf, OneAlone
<1>2. Probing(p, me[p].c, me[p].t) /\ j \notin spawned
  BY <1>0 DEF Probing, Queueing, ProbeInv, MarksHeld
<1>3. /\ Holders' = Holders \ {p} /\ p \in Holders
      /\ ProbeJobs' = ProbeJobs \cup {j} /\ j \notin ProbeJobs
  <2>1. ~HoldsSlot(p)' /\ HoldsSlot(p)
    BY <1>0, <1>1 DEF HoldsSlot, Idle
  <2> QED
    BY <1>1, <1>2, <2>1, OneHolds DEF Holders, ProbeJobs, ProbeOf
<1> HIDE DEF j
<1>4. SlotsCounted'
  BY <1>1, <1>3, CountOf DEF ProbeInv
<1>5. \A c, t : Probing(p, c, t) <=> c = me[p].c /\ t = me[p].t
  BY <1>0 DEF Probing, Queueing
<1>6. \A u \in Procs : \A c, t : Probing(u, c, t)' <=> Probing(u, c, t) /\ u # p
  BY <1>1, OneHolds DEF Probing, Queueing, Idle
<1>7. MarksHeld'
  <2> SUFFICES ASSUME NEW c \in Creds, NEW t \in Tiers
               PROVE  /\ <<c, t>> \in probing
                           <=> (\E u \in Procs : Probing(u, c, t)') \/ ProbeOf(c, t) \in spawned'
                      /\ \A u, r \in Procs : Probing(u, c, t)' /\ Probing(r, c, t)' => u = r
                      /\ \A u \in Procs : Probing(u, c, t)' => ProbeOf(c, t) \notin spawned'
    BY <1>1 DEF MarksHeld, ProbeOf
  <2>1. CASE c = me[p].c /\ t = me[p].t
    BY <1>1, <1>2, <1>6, <2>1 DEF ProbeInv, MarksHeld, j
  <2>2. CASE ~(c = me[p].c /\ t = me[p].t)
    <3>1. ProbeOf(c, t) # j
      BY <2>2 DEF ProbeOf, j
    <3> QED
      BY <1>1, <1>5, <1>6, <2>2, <3>1 DEF ProbeInv, MarksHeld
  <2> QED
    BY <2>1, <2>2
<1> QED
  BY <1>4, <1>7 DEF ProbeInv

LEMMA CompleteCounts ==
  ASSUME PostInv, ProbeInv, NEW p \in Procs, CompleteProbe(p)
  PROVE  ProbeInv'
<1>0. /\ Posted(me[p]) /\ me[p].pc = "complete" /\ me[p].op = "probe"
      /\ me[p].c \in Creds /\ me[p].t \in Tiers
  BY DEF PostInv, AllPosted, Posted, Post, Names, CompleteProbe, At
<1>1. /\ OneAlone(p) /\ UNCHANGED <<sem, spawned>>
      /\ me'[p].pc = "release" /\ me'[p].op = "probe"
      /\ probing' = probing \ {<<me[p].c, me[p].t>>}
  BY <1>0, GotoAlone DEF CompleteProbe
<1>2. Holders' = Holders /\ ProbeJobs' = ProbeJobs
  BY <1>0, <1>1, OneHolds DEF Holders, HoldsSlot, ProbeJobs
<1>3. SlotsCounted'
  BY <1>1, <1>2, CountOf DEF ProbeInv
<1>4. \A c, t : Probing(p, c, t) <=> c = me[p].c /\ t = me[p].t
  BY <1>0 DEF Probing, Queueing
<1>5. \A u \in Procs : \A c, t : Probing(u, c, t)' <=> Probing(u, c, t) /\ u # p
  <2>1. \A c, t : ~Probing(p, c, t)'
    BY <1>1 DEF Probing, Queueing
  <2> QED
    BY <1>1, <2>1, OneHolds
<1>6. MarksHeld'
  <2> SUFFICES ASSUME NEW c \in Creds, NEW t \in Tiers
               PROVE  /\ <<c, t>> \in probing'
                           <=> (\E u \in Procs : Probing(u, c, t)') \/ ProbeOf(c, t) \in spawned
                      /\ \A u, r \in Procs : Probing(u, c, t)' /\ Probing(r, c, t)' => u = r
                      /\ \A u \in Procs : Probing(u, c, t)' => ProbeOf(c, t) \notin spawned
    BY <1>1 DEF MarksHeld, ProbeOf
  <2>1. CASE c = me[p].c /\ t = me[p].t
    <3>1. Probing(p, c, t)
      BY <1>4, <2>1
    <3>2. ProbeOf(c, t) \notin spawned /\ \A u \in Procs : Probing(u, c, t) => u = p
      BY <3>1 DEF ProbeInv, MarksHeld
    <3> QED
      BY <1>1, <1>5, <2>1, <3>2
  <2>2. CASE ~(c = me[p].c /\ t = me[p].t)
    BY <1>1, <1>4, <1>5, <2>2 DEF ProbeInv, MarksHeld
  <2> QED
    BY <2>1, <2>2
<1> QED
  BY <1>3, <1>6 DEF ProbeInv

LEMMA ReleaseCounts ==
  ASSUME PostInv, ProbeInv, NEW p \in Procs, ReleaseSlot(p)
  PROVE  ProbeInv'
<1>0. me[p].pc = "release" /\ me[p].op \in {"queue", "probe"}
  BY DEF PostInv, AllPosted, Posted, Post, ReleaseSlot, At
<1>1. /\ OneAlone(p) /\ UNCHANGED <<probing, spawned>> /\ sem' = sem - 1
      /\ me'[p] = Idle
  BY <1>0, ReturnAlone DEF ReleaseSlot
<1>2. Holders' = Holders \ {p} /\ p \in Holders /\ ProbeJobs' = ProbeJobs
  BY <1>0, <1>1, OneHolds DEF Holders, HoldsSlot, ProbeJobs, Idle
<1>3. SlotsCounted'
  BY <1>1, <1>2, CountOf DEF ProbeInv
<1>4. \A u \in Procs : \A c, t : Probing(u, c, t)' <=> Probing(u, c, t)
  <2>1. \A c, t : ~Probing(p, c, t) /\ ~Probing(p, c, t)'
    BY <1>0, <1>1 DEF Probing, Queueing, Idle
  <2> QED
    BY <1>1, <2>1, OneHolds
<1>5. MarksHeld'
  <2>1. probing' = probing /\ spawned' = spawned
    BY <1>1
  <2> QED
    BY <1>4, <2>1 DEF ProbeInv, MarksHeld, ProbeOf
<1> QED
  BY <1>3, <1>5 DEF ProbeInv

\* A goroutine that starts on anything but a probe holds and probes nothing.
LEMMA OtherStarts ==
  ASSUME PostInv, ProbeInv, NEW p \in Procs, NEW op \in AllOps \cup {"validate", "import"},
         NEW c, NEW t, Names(op, c, t), Run(p, op, c, t),
         UNCHANGED <<sem, probing>>, ProbeJobs' = ProbeJobs
  PROVE  ProbeInv'
<1>0. /\ me[p].pc = "idle" /\ Posted(me[p]) /\ me'[p].pc = First[op] /\ me'[p].op = op
      /\ OneAlone(p)
  <2>1. me[p].pc = "idle" /\ Posted(me[p])
    BY DEF PostInv, AllPosted, Run, At
  <2> QED
    BY <2>1, RunPosts DEF OneAlone
<1>1. ~HoldsSlot(p) /\ ~HoldsSlot(p)' /\ \A d, s : ~Probing(p, d, s) /\ ~Probing(p, d, s)'
  BY <1>0 DEF Posted, Post, HoldsSlot, Probing, Queueing, First, AllOps
<1>2. Holders' = Holders
  BY <1>0, <1>1, OneHolds DEF Holders
<1>3. SlotsCounted'
  BY <1>2, CountOf DEF ProbeInv
<1>4. \A u \in Procs : \A d, s : Probing(u, d, s)' <=> Probing(u, d, s)
  BY <1>0, <1>1, OneHolds
<1>5. MarksHeld'
  <2>1. \A d, s : ProbeOf(d, s) \in spawned' <=> ProbeOf(d, s) \in spawned
    BY DEF ProbeJobs, ProbeOf
  <2> QED
    BY <1>4, <2>1 DEF ProbeInv, MarksHeld, ProbeOf
<1> QED
  BY <1>3, <1>5 DEF ProbeInv

LEMMA ProbeStarts ==
  ASSUME PostInv, ProbeInv, NEW p \in Procs, NEW j \in spawned, StartJob(p, j), j.op = "probe"
  PROVE  ProbeInv'
<1>0. /\ j = ProbeOf(j.c, j.t) /\ j.c \in Creds /\ j.t \in Tiers
      /\ Names("probe", j.c, j.t) /\ Run(p, "probe", j.c, j.t)
  BY JobNames DEF PostInv, JobsNamed, ProbeOf
<1>1. /\ me[p].pc = "idle" /\ Posted(me[p])
      /\ me'[p].pc = "probe" /\ me'[p].op = "probe" /\ me'[p].c = j.c /\ me'[p].t = j.t
      /\ OneAlone(p) /\ UNCHANGED <<sem, probing>> /\ spawned' = spawned \ {j}
  <2>1. me[p].pc = "idle" /\ Posted(me[p])
    BY <1>0 DEF PostInv, AllPosted, Run, At
  <2>2. UNCHANGED <<sem, probing>> /\ spawned' = spawned \ {j}
    BY DEF StartJob, memory
  <2>3. /\ me'[p].pc = First["probe"] /\ me'[p].op = "probe" /\ me'[p].c = j.c /\ me'[p].t = j.t
        /\ OneAlone(p)
    BY <1>0, RunPosts DEF OneAlone
  <2> QED
    BY <2>1, <2>2, <2>3 DEF First
<1>2. /\ Holders' = Holders \cup {p} /\ p \notin Holders
      /\ ProbeJobs' = ProbeJobs \ {j} /\ j \in ProbeJobs
  <2>1. ~HoldsSlot(p) /\ HoldsSlot(p)'
    BY <1>1 DEF Posted, Post, HoldsSlot
  <2> QED
    BY <1>1, <2>1, OneHolds DEF Holders, ProbeJobs
<1>3. SlotsCounted'
  BY <1>1, <1>2, CountOf DEF ProbeInv
<1>4. \A u \in Procs : \A c, t : Probing(u, c, t)' <=> Probing(u, c, t) \/ (u = p /\ c = j.c /\ t = j.t)
  <2>1. \A c, t : ~Probing(p, c, t) /\ (Probing(p, c, t)' <=> c = j.c /\ t = j.t)
    BY <1>1 DEF Posted, Post, Probing, Queueing
  <2> QED
    BY <1>1, <2>1, OneHolds
<1>5. MarksHeld'
  <2> SUFFICES ASSUME NEW c \in Creds, NEW t \in Tiers
               PROVE  /\ <<c, t>> \in probing
                           <=> (\E u \in Procs : Probing(u, c, t)') \/ ProbeOf(c, t) \in spawned'
                      /\ \A u, r \in Procs : Probing(u, c, t)' /\ Probing(r, c, t)' => u = r
                      /\ \A u \in Procs : Probing(u, c, t)' => ProbeOf(c, t) \notin spawned'
    BY <1>1 DEF MarksHeld, ProbeOf
  <2>1. CASE c = j.c /\ t = j.t
    BY <1>0, <1>1, <1>4, <2>1 DEF ProbeInv, MarksHeld
  <2>2. CASE ~(c = j.c /\ t = j.t)
    <3>1. ProbeOf(c, t) # j
      BY <1>0, <2>2 DEF ProbeOf
    <3> QED
      BY <1>1, <1>4, <2>2, <3>1 DEF ProbeInv, MarksHeld
  <2> QED
    BY <2>1, <2>2
<1> QED
  BY <1>3, <1>5 DEF ProbeInv

LEMMA ProbeStep ==
  ASSUME PostInv, ProbeInv, [Next]_vars
  PROVE  ProbeInv'
<1>1. ASSUME UNCHANGED <<me, sem, probing>>, ProbeJobs' = ProbeJobs PROVE ProbeInv'
  <2>1. Holders' = Holders /\ \A u \in Procs : \A c, t : Probing(u, c, t)' <=> Probing(u, c, t)
    BY <1>1 DEF Holders, HoldsSlot, Probing, Queueing
  <2>2. SlotsCounted'
    BY <1>1, <2>1, CountOf DEF ProbeInv
  <2>3. \A c, t : ProbeOf(c, t) \in spawned' <=> ProbeOf(c, t) \in spawned
    BY <1>1 DEF ProbeJobs, ProbeOf
  <2> QED
    BY <1>1, <2>1, <2>2, <2>3 DEF ProbeInv, MarksHeld, ProbeOf
<1>2. CASE Tick \/ UNCHANGED vars \/ \E j \in spawned : Superseded(j)
  BY <1>1, <1>2 DEF Tick, vars, memory, Superseded, ProbeJobs
<1>3. ASSUME NEW j \in spawned, NEW p \in Procs, StartJob(p, j) PROVE ProbeInv'
  <2>1. CASE j.op = "probe"
    BY <1>3, <2>1, ProbeStarts
  <2>2. CASE j.op # "probe"
    <3>1. UNCHANGED <<sem, probing>> /\ ProbeJobs' = ProbeJobs
      BY <1>3, <2>2 DEF StartJob, memory, ProbeJobs
    <3> QED
      BY <1>3, <2>2, <3>1, JobNames, OtherStarts DEF AllOps
  <2> QED
    BY <2>1, <2>2
<1>4. ASSUME NEW p \in Procs, NEW op \in Ops, Start(p, op) PROVE ProbeInv'
  <2>1. UNCHANGED <<sem, probing>> /\ ProbeJobs' = ProbeJobs
    BY <1>4 DEF Start, memory, ProbeJobs
  <2> QED
    BY <1>4, <2>1, StartNames, OtherStarts
<1>5. ASSUME NEW p \in Procs, Step(p) PROVE ProbeInv'
  <2>1. CASE SlotStep(p)
    BY <2>1, AcquireCounts, MarkCounts, SpawnCounts, CompleteCounts, ReleaseCounts DEF
       SlotStep
  <2>2. CASE ~SlotStep(p)
    <3>1. Moved /\ OthersKept /\ UNCHANGED <<sem, probing>> /\ ProbeJobs' = ProbeJobs
      BY <1>5, <2>2, PostStep, QuietStep
    <3>2. /\ Holders' = Holders
          /\ \A u \in Procs, c \in Creds, t \in Tiers : Probing(u, c, t)' = Probing(u, c, t)
      BY <3>1, KeptHolders
    <3>3. SlotsCounted'
      BY <3>1, <3>2, CountOf DEF ProbeInv
    <3>4. \A c, t : ProbeOf(c, t) \in spawned' <=> ProbeOf(c, t) \in spawned
      BY <3>1 DEF ProbeJobs, ProbeOf
    <3> QED
      BY <3>1, <3>2, <3>3, <3>4 DEF ProbeInv, MarksHeld, ProbeOf
  <2> QED
    BY <2>1, <2>2
<1> QED
  BY <1>2, <1>3, <1>4, <1>5 DEF Next

LEMMA ProbeInvariant == Spec => []ProbeInv
<1>1. ASSUME Init PROVE ProbeInv
  <2>1. Holders = {} /\ ProbeJobs = {}
    BY <1>1 DEF Init, Holders, HoldsSlot, ProbeJobs, Idle
  <2>2. SlotsCounted
    BY <1>1, <2>1, FS_EmptySet, ConstantsAssumption DEF SlotsCounted,
       ConstantsAssumption, Init
  <2>3. MarksHeld
    BY <1>1 DEF Init, MarksHeld, Probing, Queueing, Idle
  <2> QED
    BY <2>2, <2>3 DEF ProbeInv
<1>2. PostInv /\ ProbeInv /\ [Next]_vars => ProbeInv'
  BY ProbeStep
<1> QED
  BY <1>1, <1>2, PostInvariant, PTL DEF Spec

\* QueueQuotaRefresh and its probes: however their steps interleave, a taken slot
\* has one goroutine, or one job, that will give it back, and a mark has one that
\* will clear it.
THEOREM ProbesNeverLeak == Spec => []ProbesAccounted
<1>1. ASSUME PostInv, ProbeInv PROVE ProbesAccounted
  <2>1. SlotsAccounted
    BY <1>1 DEF ProbeInv, SlotsCounted, SlotsAccounted, Holders, ProbeJobs
  <2>2. ASSUME NEW c \in Creds, NEW t \in Tiers
        PROVE  Cardinality({p \in Procs : Probing(p, c, t)}) + Cardinality(PendingProbes(c, t))
                 = IF <<c, t>> \in probing THEN 1 ELSE 0
    <3>1. PendingProbes(c, t) = IF ProbeOf(c, t) \in spawned THEN {ProbeOf(c, t)} ELSE {}
      BY <1>1 DEF PendingProbes, ProbeOf, PostInv, JobsNamed
    <3>2. CASE \E p \in Procs : Probing(p, c, t)
      <4>0. PICK p \in Procs : Probing(p, c, t)
        BY <3>2
      <4>1. {r \in Procs : Probing(r, c, t)} = {p}
        <5>1. \A r \in Procs : Probing(r, c, t) <=> r = p
          BY <1>1, <4>0 DEF ProbeInv, MarksHeld
        <5> QED
          BY <5>1
      <4>2. PendingProbes(c, t) = {} /\ <<c, t>> \in probing
        BY <1>1, <3>1, <3>2 DEF ProbeInv, MarksHeld
      <4>3. Cardinality({p}) = 1 /\ Cardinality({}) = 0
        BY FS_EmptySet, FS_Singleton
      <4> QED
        BY <4>1, <4>2, <4>3
    <3>3. CASE ~\E p \in Procs : Probing(p, c, t)
      <4>1. {r \in Procs : Probing(r, c, t)} = {} /\ (<<c, t>> \in probing
                                                       <=> ProbeOf(c, t) \in spawned)
        BY <1>1, <3>3 DEF ProbeInv, MarksHeld
      <4>2. Cardinality({ProbeOf(c, t)}) = 1 /\ Cardinality({}) = 0
        BY FS_EmptySet, FS_Singleton
      <4> QED
        BY <3>1, <4>1, <4>2
    <3> QED
      BY <3>2, <3>3
  <2> QED
    BY <2>1, <2>2 DEF ProbesAccounted, OneProbePerSlot
<1> QED
  BY <1>1, PostInvariant, ProbeInvariant, PTL

-----------------------------------------------------------------------------
(* Types: what frames, rows and snapshots hold. *)

\* The places at which a snapshot is carried.
WorkPCs == {"build", "merge", "store", "evictStore", "suspendStore", "throttleStore"}
AnyOps  == AllOps \cup {"probe", "validate", "import", "none"}

\* What a frame holds, one field at a time.
Holds(pc, op, c, t, at, then, hit, q, work) ==
  /\ pc \in PCs /\ op \in AnyOps /\ then \in PCs
  /\ c \in Creds \cup {None} /\ t \in Tiers \cup {None}
  /\ at \in Times /\ hit \in BOOLEAN /\ q \in Quotas
  /\ work \in Snapshots \cup {None}
  /\ pc \in WorkPCs => work \in Snapshots
Typed(r)  == Holds(r.pc, r.op, r.c, r.t, r.at, r.then, r.hit, r.q, r.work)
AllTyped  == \A p \in Procs : Typed(me[p])
JobsTyped == \A j \in spawned : j.t \in Tiers \cup {None} /\ j.at \in Times

RowsTyped == db \in [Creds -> CredRows] /\ logs \in [Creds -> [Tiers -> {"none", "bad", "good"}]]
PoolTyped == avail \in Snapshots \cup {None}
MemTyped  ==
  /\ throttle \in [Creds -> [Tiers -> [n : 0 .. Threshold, until : Times]]]
  /\ checking \subseteq Creds /\ probing \subseteq Creds \X Tiers
  /\ clock \in 0 .. MaxClock /\ flight \in Procs \cup {None}
  /\ missed \in [Procs -> SUBSET Creds]

TypeInv == AllTyped /\ JobsTyped /\ RowsTyped /\ PoolTyped /\ MemTyped

-----------------------------------------------------------------------------
(* Snapshots and slots *)

LEMMA SnapshotRows ==
  ASSUME NEW X \in Snapshots
  PROVE  /\ DOMAIN X \subseteq Creds
         /\ \A c \in DOMAIN X : X[c] \in Rows /\ \A t \in Tiers : X[c][t] \in Slots
<1>1. PICK C \in SUBSET Creds : X \in [C -> Rows]
  BY DEF Snapshots
<1> QED
  BY <1>1 DEF Rows

LEMMA RowsSnapshot ==
  ASSUME NEW C \in SUBSET Creds, NEW X \in [C -> Rows]
  PROVE  X \in Snapshots
  BY DEF Snapshots

LEMMA ScoredSlot ==
  ASSUME NEW slot \in Slots, NEW live \in BOOLEAN, NEW now
  PROVE  Scored(slot, live, now) \in Slots
<1> DEFINE up == live /\ now >= slot.until
           fair == slot.fair \/ (up /\ ~slot.up)
<1>1. Scored(slot, live, now) = [slot EXCEPT !.live = live, !.up = up, !.fair = fair]
  BY DEF Scored
<1>2. up \in BOOLEAN /\ fair \in BOOLEAN
  OBVIOUS
<1> HIDE DEF up, fair
<1> QED
  BY <1>1, <1>2 DEF Slots

LEMMA MergedSlot ==
  ASSUME NEW slot \in Slots, NEW until \in Times, NEW now, NEW log
  PROVE  Merged(slot, until, now, log) \in Slots
<1> DEFINE open == now < until
           u == IF open /\ until > slot.until THEN until ELSE slot.until
           up == slot.up /\ ~open
           fair == ~LogStore \/ log # "bad"
<1>1. Merged(slot, until, now, log) = [slot EXCEPT !.until = u, !.up = up, !.fair = fair]
  BY DEF Merged
<1>2. up \in BOOLEAN /\ fair \in BOOLEAN
  OBVIOUS
<1>3. u \in Times
  BY DEF Slots
<1> HIDE DEF up, fair, u
<1> QED
  BY <1>1, <1>2, <1>3 DEF Slots

LEMMA ApplyTyped ==
  ASSUME PoolTyped, NEW c, NEW q, ApplyQuota(c, q)
  PROVE  PoolTyped'
<1>1. CASE InPool(c)
  <2>1. avail \in Snapshots
    BY <1>1 DEF PoolTyped, InPool
  <2>2. PICK C \in SUBSET Creds : avail \in [C -> Rows]
    BY <2>1 DEF Snapshots
  <2> DEFINE row == [t \in Tiers |-> Scored(avail[c][t], q[t] = "live", clock)]
  <2>3. c \in C /\ avail' = [avail EXCEPT ![c] = row]
    BY <1>1, <2>2 DEF InPool, ApplyQuota
  <2>4. row \in Rows
    <3>1. \A t \in Tiers : (q[t] = "live") \in BOOLEAN /\ avail[c][t] \in Slots
      BY <2>2, <2>3 DEF Rows
    <3>2. \A t \in Tiers : Scored(avail[c][t], q[t] = "live", clock) \in Slots
      BY <3>1, ScoredSlot
    <3> QED
      BY <3>2 DEF Rows
  <2> HIDE DEF row
  <2>5. avail' \in [C -> Rows]
    BY <2>2, <2>3, <2>4
  <2> QED
    BY <2>5, RowsSnapshot DEF PoolTyped
<1>2. CASE ~InPool(c)
  BY <1>2 DEF ApplyQuota, PoolTyped
<1> QED
  BY <1>1, <1>2

LEMMA PoolStep ==
  ASSUME PostInv, TypeInv, NEW p \in Procs, Step(p)
  PROVE  PoolTyped'
<1>0. PoolTyped /\ Typed(me[p])
  BY DEF TypeInv, AllTyped
<1>1. CASE ApplyStoredQuota(p) \/ PutQuota(p)
  BY <1>0, <1>1, ApplyTyped DEF ApplyStoredQuota, PutQuota
<1>2. CASE StoreRows(p)
  BY <1>0, <1>2 DEF StoreRows, At, Typed, Holds, WorkPCs, PoolTyped
<1>3. CASE EvictStore(p)
  <2>1. me[p].work \in Snapshots
    BY <1>0, <1>3 DEF EvictStore, At, Typed, Holds, WorkPCs
  <2> DEFINE C == DOMAIN me[p].work \ {me[p].c}
  <2>2. C \in SUBSET Creds /\ [c \in C |-> me[p].work[c]] \in [C -> Rows]
    BY <2>1, SnapshotRows
  <2>3. avail' = [c \in C |-> me[p].work[c]]
    BY <1>3 DEF EvictStore
  <2> HIDE DEF C
  <2> QED
    BY <2>2, <2>3, RowsSnapshot DEF PoolTyped
<1>4. CASE SuspendStore(p) \/ ThrottleStore(p)
  <2>1. me[p].work \in Snapshots /\ me[p].at \in Times
    BY <1>0, <1>4 DEF SuspendStore, ThrottleStore, At, Typed, Holds, WorkPCs
  <2> DEFINE m == me[p]
             C == DOMAIN m.work
             S == [c \in C |-> [t \in Tiers |-> IF c = m.c /\ t = m.t
                    THEN [m.work[c][t] EXCEPT !.up = FALSE] ELSE m.work[c][t]]]
             T == [c \in C |-> [t \in Tiers |-> IF c = m.c /\ t = m.t
                    THEN [m.work[c][t] EXCEPT !.up = FALSE, !.until = m.at] ELSE m.work[c][t]]]
  <2>2. avail' = S \/ avail' = T
    BY <1>4 DEF SuspendStore, ThrottleStore, Edited
  <2>3. C \in SUBSET Creds /\ \A c \in C, t \in Tiers : m.work[c][t] \in Slots
    BY <2>1, SnapshotRows
  <2>4. \A s \in Slots : [s EXCEPT !.up = FALSE] \in Slots /\ [s EXCEPT !.up = FALSE, !.until = m.at] \in Slots
    BY <2>1 DEF Slots
  <2> HIDE DEF m, C
  <2>5. S \in [C -> Rows] /\ T \in [C -> Rows]
    BY <2>3, <2>4 DEF Rows
  <2> HIDE DEF S, T
  <2> QED
    BY <2>2, <2>3, <2>5, RowsSnapshot DEF PoolTyped
<1>5. CASE ApplyWeight(p)
  <2>1. me[p].hit \in BOOLEAN
    BY <1>0 DEF Typed, Holds
  <2>2. CASE InPool(me[p].c)
    <3>1. avail \in Snapshots
      BY <1>0, <2>2 DEF PoolTyped, InPool
    <3>2. PICK C \in SUBSET Creds : avail \in [C -> Rows]
      BY <3>1 DEF Snapshots
    <3>3. me[p].c \in C /\ me[p].t \in Tiers
      BY <1>5, <2>2, <3>2 DEF InPool, ApplyWeight, At, PostInv, AllPosted, Posted, Post,
         Names
    <3> DEFINE slot == [avail[me[p].c][me[p].t] EXCEPT !.fair = me[p].hit]
               row == [avail[me[p].c] EXCEPT ![me[p].t] = slot]
    <3>4. avail' = [avail EXCEPT ![me[p].c] = row]
      BY <1>5, <2>2 DEF ApplyWeight
    <3>5. avail[me[p].c] \in [Tiers -> Slots]
      BY <3>2, <3>3 DEF Rows
    <3>6. slot \in Slots
      BY <2>1, <3>3, <3>5 DEF Slots
    <3> HIDE DEF slot
    <3>7. row \in Rows
      BY <3>3, <3>5, <3>6 DEF Rows
    <3> HIDE DEF row
    <3> QED
      BY <3>2, <3>3, <3>4, <3>7, RowsSnapshot DEF PoolTyped
  <2>3. CASE ~InPool(me[p].c)
    BY <1>0, <1>5, <2>3 DEF ApplyWeight, PoolTyped
  <2> QED
    BY <2>2, <2>3
<1>6. CASE UNCHANGED avail
  BY <1>0, <1>6 DEF PoolTyped
<1> QED
  BY <1>1, <1>2, <1>3, <1>4, <1>5, <1>6 DEF Step, EnterRefresh, ListRows, BuildRows,
     MergeThrottles, ClearExpired, Load, EditNothing, LogRequest, ComputeRate, ClearThrottle,
     CountFailure, ThrottleInDB, RememberThrottle, RejectCredential, DisableInDB,
     CheckUnauthorized, SpawnValidation, ValidateCredential, VerifyUsable, FinishValidation,
     FetchQuota, UpsertQuota, AfterStoreQuota, MergeQuota, AcquireSlot, MarkProbing,
     SpawnProbe, ProbeQuota, CompleteProbe, ReleaseSlot, ListAvailable, AdminSetStatus,
     SyncCredentials

\* A status is stored with the windows ended, a rejection may be logged.
LEMMA StatusRows ==
  ASSUME TypeInv, ConstantsAssumption, NEW c, NEW on \in BOOLEAN
  PROVE  WithStatus(c, on) \in [Creds -> CredRows]
<1>1. db \in [Creds -> CredRows] /\ clock \in Times
  BY DEF TypeInv, RowsTyped, MemTyped, Times, ConstantsAssumption
<1> DEFINE ended == [t \in Tiers |-> clock]
           row   == [db[c] EXCEPT !.on = on, !.synced = TRUE, !.until = ended]
<1>2. ended \in [Tiers -> Times]
  BY <1>1
<1> HIDE DEF ended
<1>3. c \in Creds => row \in CredRows
  BY <1>1, <1>2 DEF CredRows
<1> HIDE DEF row
<1>4. WithStatus(c, on) = [db EXCEPT ![c] = row]
  BY DEF WithStatus, row, ended
<1> QED
  BY <1>1, <1>3, <1>4

LEMMA RejectionLogs ==
  ASSUME RowsTyped, NEW c \in Creds, LogRejection(c)
  PROVE  logs' \in [Creds -> [Tiers -> {"none", "bad", "good"}]]
<1>1. CASE UNCHANGED logs
  BY <1>1 DEF RowsTyped
<1>2. CASE \E t \in Tiers : logs' = [logs EXCEPT ![c][t] = Failing(@)]
  <2>1. PICK t \in Tiers : logs' = [logs EXCEPT ![c][t] = Failing(@)]
    BY <1>2
  <2>2. logs[c] \in [Tiers -> {"none", "bad", "good"}]
    BY DEF RowsTyped
  <2>3. Failing(logs[c][t]) \in {"none", "bad", "good"}
    BY <2>2 DEF Failing
  <2> QED
    BY <2>1, <2>2, <2>3 DEF RowsTyped
<1> QED
  BY <1>1, <1>2 DEF LogRejection

\* The rows in the database and the log.
LEMMA RowsStep ==
  ASSUME PostInv, TypeInv, NEW p \in Procs, Step(p)
  PROVE  RowsTyped'
<1>0. RowsTyped /\ Typed(me[p]) /\ Posted(me[p]) /\ Placed(me[p])
  BY DEF TypeInv, AllTyped, PostInv, AllPosted, ControlInv, Flow, Framed
<1>1. ASSUME NEW c, NEW on \in BOOLEAN, db' = WithStatus(c, on), UNCHANGED logs
      PROVE  RowsTyped'
  BY <1>0, <1>1, ConstantsAssumption, StatusRows DEF RowsTyped
<1>2. ASSUME UNCHANGED <<db, logs>> PROVE RowsTyped'
  BY <1>0, <1>2 DEF RowsTyped
<1>3. CASE LogRequest(p)
  <2>1. me[p].c \in Creds /\ me[p].t \in Tiers
    BY <1>0, <1>3 DEF LogRequest, Posted, Post, Names
  <2> QED
    BY <1>0, <1>3, <2>1 DEF LogRequest, RowsTyped, Failing
<1>4. CASE ThrottleInDB(p)
  <2>1. me[p].c \in Creds /\ me[p].t \in Tiers /\ me[p].at \in Times
    BY <1>0, <1>4 DEF ThrottleInDB, At, Posted, Post, Names, Typed, Holds
  <2>2. CASE UNCHANGED db
    BY <1>2, <1>4, <2>2 DEF ThrottleInDB
  <2>3. CASE db' = [db EXCEPT ![me[p].c].until[me[p].t] = me[p].at, ![me[p].c].synced = TRUE]
    <3>1. db' \in [Creds -> CredRows]
      BY <1>0, <2>1, <2>3 DEF RowsTyped, CredRows
    <3> QED
      BY <1>0, <1>4, <3>1 DEF RowsTyped, ThrottleInDB
  <2> QED
    BY <1>4, <2>2, <2>3 DEF ThrottleInDB
<1>5. CASE DisableInDB(p)
  <2>1. CASE UNCHANGED db
    BY <1>2, <1>5, <2>1 DEF DisableInDB
  <2>2. CASE db' = WithStatus(me[p].c, FALSE)
    BY <1>1, <1>5, <2>2 DEF DisableInDB
  <2> QED
    BY <1>5, <2>1, <2>2 DEF DisableInDB
<1>6. CASE ValidateCredential(p)
  <2>1. me[p].c \in Creds
    BY <1>0, <1>6 DEF ValidateCredential, At, Posted, Post, Names
  <2>2. UNCHANGED db \/ db' = WithStatus(me[p].c, TRUE) \/ db' = WithStatus(me[p].c, FALSE)
    BY <1>6 DEF ValidateCredential
  <2>3. db' \in [Creds -> CredRows]
    <3>1. \A on \in BOOLEAN : WithStatus(me[p].c, on) \in [Creds -> CredRows]
      BY ConstantsAssumption, StatusRows
    <3> QED
      BY <1>0, <2>2, <3>1 DEF RowsTyped
  <2>4. logs' \in [Creds -> [Tiers -> {"none", "bad", "good"}]]
    BY <1>0, <1>6, <2>1, RejectionLogs DEF ValidateCredential, RowsTyped
  <2> QED
    BY <2>3, <2>4 DEF RowsTyped
<1>7. CASE AdminSetStatus(p)
  <2>1. CASE UNCHANGED db
    BY <1>2, <1>7, <2>1 DEF AdminSetStatus
  <2>2. ASSUME NEW on \in BOOLEAN, db' = WithStatus(me[p].c, on)
        PROVE  RowsTyped'
    BY <1>1, <1>7, <2>2 DEF AdminSetStatus
  <2> QED
    BY <1>7, <2>1, <2>2 DEF AdminSetStatus
<1>8. CASE UpsertQuota(p)
  <2>1. me[p].c \in Creds
    BY <1>0, <1>8 DEF UpsertQuota, At, Posted, Placed, MayStand, QuotaPCs, Names
  <2>2. CASE UNCHANGED db
    BY <1>2, <1>8, <2>2 DEF UpsertQuota
  <2> DEFINE l == [t \in Tiers |-> me[p].q[t] = "live"]
  <2>3. CASE db' = [db EXCEPT ![me[p].c].synced = TRUE, ![me[p].c].live = l]
    <3>1. l \in [Tiers -> BOOLEAN]
      OBVIOUS
    <3> HIDE DEF l
    <3>2. db' \in [Creds -> CredRows]
      BY <1>0, <2>1, <2>3, <3>1 DEF RowsTyped, CredRows
    <3> QED
      BY <1>0, <1>8, <3>2 DEF RowsTyped, UpsertQuota
  <2> QED
    BY <1>8, <2>2, <2>3 DEF UpsertQuota
<1>9. CASE RejectCredential(p) \/ VerifyUsable(p) \/ FetchQuota(p)
  <2>1. me[p].c \in Creds
    BY <1>0, <1>9 DEF RejectCredential, VerifyUsable, FetchQuota, At, Posted, Post, Names,
       Placed, MayStand, QuotaPCs
  <2>2. UNCHANGED db /\ (UNCHANGED logs \/ LogRejection(me[p].c))
    BY <1>9 DEF RejectCredential, VerifyUsable, FetchQuota
  <2> QED
    BY <1>0, <2>1, <2>2, RejectionLogs DEF RowsTyped
<1> QED
  BY <1>2, <1>3, <1>4, <1>5, <1>6, <1>7, <1>8, <1>9 DEF Step, EnterRefresh, ListRows,
     BuildRows, MergeThrottles, StoreRows, ClearExpired, Load, EvictStore, SuspendStore,
     ThrottleStore, EditNothing, ComputeRate, ApplyWeight, ClearThrottle, CountFailure,
     RememberThrottle, CheckUnauthorized, SpawnValidation, FinishValidation,
     ApplyStoredQuota, AfterStoreQuota, MergeQuota, PutQuota, AcquireSlot, MarkProbing,
     SpawnProbe, ProbeQuota, CompleteProbe, ReleaseSlot, ListAvailable, SyncCredentials

\* What the scheduler keeps in memory beside the snapshot.
LEMMA MemStep ==
  ASSUME PostInv, TypeInv, NEW p \in Procs, Step(p)
  PROVE  MemTyped'
<1>0. MemTyped /\ Typed(me[p]) /\ Posted(me[p]) /\ clock' = clock
  BY DEF TypeInv, AllTyped, PostInv, AllPosted, Step, memory,
     EnterRefresh, ListRows, BuildRows, MergeThrottles, StoreRows, ClearExpired,
     Load, EvictStore, SuspendStore, ThrottleStore, EditNothing, LogRequest,
     ComputeRate, ApplyWeight, ClearThrottle, CountFailure, ThrottleInDB,
     RememberThrottle, RejectCredential, DisableInDB, CheckUnauthorized,
     SpawnValidation, ValidateCredential, VerifyUsable, FinishValidation,
     FetchQuota, ApplyStoredQuota, UpsertQuota, AfterStoreQuota, MergeQuota,
     PutQuota, AcquireSlot, MarkProbing, SpawnProbe, ProbeQuota, CompleteProbe,
     ReleaseSlot, ListAvailable, AdminSetStatus, SyncCredentials
<1> DEFINE States == [n : 0 .. Threshold, until : Times]
<1>1. NoState \in States
  BY ConstantsAssumption DEF ConstantsAssumption, NoState, Times
<1>2. throttle' \in [Creds -> [Tiers -> States]]
  <2>1. ASSUME NEW c \in Creds, NEW t \in Tiers, NEW st \in States,
               throttle' = [throttle EXCEPT ![c][t] = st]
        PROVE  throttle' \in [Creds -> [Tiers -> States]]
    BY <1>0, <2>1 DEF MemTyped
  <2>2. ASSUME throttle' = ClearedStates(me[p].c) PROVE throttle' \in [Creds -> [Tiers -> States]]
    <3> DEFINE none == [t \in Tiers |-> NoState]
    <3>1. none \in [Tiers -> States] /\ throttle' = [throttle EXCEPT ![me[p].c] = none]
      BY <1>1, <2>2 DEF ClearedStates
    <3> HIDE DEF none
    <3> QED
      BY <1>0, <3>1 DEF MemTyped
  <2>3. CASE ClearThrottle(p)
    <3>1. me[p].c \in Creds /\ me[p].t \in Tiers
      BY <1>0, <2>3 DEF ClearThrottle, At, Posted, Post, Names
    <3> QED
      BY <1>1, <2>1, <2>3, <3>1 DEF ClearThrottle, SetState
  <2>4. CASE CountFailure(p)
    <3>1. me[p].c \in Creds /\ me[p].t \in Tiers
      BY <1>0, <2>4 DEF CountFailure, At, Posted, Post, Names
    <3>2. StateOf(p) \in States
      BY <1>0, <3>1 DEF MemTyped, StateOf
    <3>3. PICK n \in 1 .. Threshold : SetState(p, [StateOf(p) EXCEPT !.n = n])
      BY <2>4 DEF CountFailure
    <3> DEFINE st == [StateOf(p) EXCEPT !.n = n]
    <3>4. st \in States
      BY <3>2
    <3>5. throttle' = [throttle EXCEPT ![me[p].c][me[p].t] = st]
      BY <3>3 DEF SetState
    <3> HIDE DEF st
    <3> QED
      BY <2>1, <3>1, <3>4, <3>5
  <2>5. CASE RememberThrottle(p)
    <3>1. me[p].c \in Creds /\ me[p].t \in Tiers /\ me[p].at \in Times
      BY <1>0, <2>5 DEF RememberThrottle, At, Posted, Post, Names, Typed, Holds
    <3>2. StateOf(p) \in States
      BY <1>0, <3>1 DEF MemTyped, StateOf
    <3> DEFINE st == [StateOf(p) EXCEPT !.until = me[p].at]
    <3>4. st \in States
      BY <3>1, <3>2
    <3>5. throttle' = [throttle EXCEPT ![me[p].c][me[p].t] = st]
      BY <2>5 DEF SetState, RememberThrottle
    <3> HIDE DEF st
    <3> QED
      BY <2>1, <3>1, <3>4, <3>5
  <2>6. CASE ClearExpired(p)
    <3>1. \A c \in Creds, t \in Tiers : throttle[c][t] \in States
      BY <1>0 DEF MemTyped
    <3> QED
      BY <1>1, <2>6, <3>1 DEF ClearExpired
  <2>7. CASE RejectCredential(p) \/ CheckUnauthorized(p)
    BY <2>2, <2>7 DEF RejectCredential, CheckUnauthorized
  <2>8. CASE UNCHANGED throttle
    BY <1>0, <2>8 DEF MemTyped
  <2> HIDE DEF States
  <2> QED
    BY <2>3, <2>4, <2>5, <2>6, <2>7, <2>8 DEF Step, memory,
     EnterRefresh, ListRows, BuildRows, MergeThrottles, StoreRows, Load, EvictStore,
     SuspendStore, ThrottleStore, EditNothing, LogRequest, ComputeRate, ApplyWeight,
     ThrottleInDB, DisableInDB, SpawnValidation, ValidateCredential, VerifyUsable,
     FinishValidation, FetchQuota, ApplyStoredQuota, UpsertQuota, AfterStoreQuota,
     MergeQuota, PutQuota, AcquireSlot, MarkProbing, SpawnProbe, ProbeQuota,
     CompleteProbe, ReleaseSlot, ListAvailable, AdminSetStatus, SyncCredentials
<1>3. checking' \subseteq Creds
  <2>1. CASE CheckUnauthorized(p)
    <3>1. me[p].c \in Creds
      BY <1>0, <2>1 DEF CheckUnauthorized, At, Posted, Post, Names
    <3> QED
      BY <1>0, <2>1, <3>1 DEF CheckUnauthorized, MemTyped
  <2>2. CASE RejectCredential(p) \/ FinishValidation(p) \/ UNCHANGED checking
    BY <1>0, <2>2 DEF RejectCredential, FinishValidation, MemTyped
  <2> QED
    BY <2>1, <2>2 DEF Step, memory,
     EnterRefresh, ListRows, BuildRows, MergeThrottles, StoreRows, ClearExpired,
     Load, EvictStore, SuspendStore, ThrottleStore, EditNothing, LogRequest,
     ComputeRate, ApplyWeight, ClearThrottle, CountFailure, ThrottleInDB,
     RememberThrottle, DisableInDB, SpawnValidation, ValidateCredential,
     VerifyUsable, FetchQuota, ApplyStoredQuota, UpsertQuota, AfterStoreQuota,
     MergeQuota, PutQuota, AcquireSlot, MarkProbing, SpawnProbe, ProbeQuota,
     CompleteProbe, ReleaseSlot, ListAvailable, AdminSetStatus, SyncCredentials
<1>4. probing' \subseteq Creds \X Tiers
  <2>1. CASE MarkProbing(p)
    <3>1. me[p].c \in Creds /\ me[p].t \in Tiers
      BY <1>0, <2>1 DEF MarkProbing, At, Posted, Post, Names
    <3> QED
      BY <1>0, <2>1, <3>1 DEF MarkProbing, MemTyped
  <2>2. CASE CompleteProbe(p) \/ UNCHANGED probing
    BY <1>0, <2>2 DEF CompleteProbe, MemTyped
  <2> QED
    BY <2>1, <2>2 DEF Step, memory,
     EnterRefresh, ListRows, BuildRows, MergeThrottles, StoreRows, ClearExpired,
     Load, EvictStore, SuspendStore, ThrottleStore, EditNothing, LogRequest,
     ComputeRate, ApplyWeight, ClearThrottle, CountFailure, ThrottleInDB,
     RememberThrottle, RejectCredential, DisableInDB, CheckUnauthorized,
     SpawnValidation, ValidateCredential, VerifyUsable, FinishValidation,
     FetchQuota, ApplyStoredQuota, UpsertQuota, AfterStoreQuota, MergeQuota,
     PutQuota, AcquireSlot, SpawnProbe, ProbeQuota, ReleaseSlot, ListAvailable,
     AdminSetStatus, SyncCredentials
<1>5. flight' \in Procs \cup {None}
  <2>1. CASE EnterRefresh(p) \/ ListRows(p) \/ ClearExpired(p) \/ UNCHANGED flight
    BY <1>0, <2>1 DEF EnterRefresh, ListRows, ClearExpired, LeaveRefresh, MemTyped
  <2> QED
    BY <2>1 DEF Step,
     BuildRows, MergeThrottles, StoreRows, Load, EvictStore, SuspendStore,
     ThrottleStore, EditNothing, LogRequest, ComputeRate, ApplyWeight,
     ClearThrottle, CountFailure, ThrottleInDB, RememberThrottle, RejectCredential,
     DisableInDB, CheckUnauthorized, SpawnValidation, ValidateCredential,
     VerifyUsable, FinishValidation, FetchQuota, ApplyStoredQuota, UpsertQuota,
     AfterStoreQuota, MergeQuota, PutQuota, AcquireSlot, MarkProbing, SpawnProbe,
     ProbeQuota, CompleteProbe, ReleaseSlot, ListAvailable, AdminSetStatus,
     SyncCredentials
<1>6. missed' \in [Procs -> SUBSET Creds]
  <2>1. CASE CheckUnauthorized(p) \/ RememberThrottle(p)
    <3>1. me[p].c \in Creds
      BY <1>0, <2>1 DEF CheckUnauthorized, RememberThrottle, At, Posted, Post, Names
    <3> QED
      BY <1>0, <2>1, <3>1 DEF CheckUnauthorized, RememberThrottle, Overtake, MemTyped
  <2>2. CASE StoreRows(p) \/ UNCHANGED missed
    BY <1>0, <2>2 DEF StoreRows, MemTyped
  <2> QED
    BY <2>1, <2>2 DEF Step,
     EnterRefresh, ListRows, BuildRows, MergeThrottles, ClearExpired, Load,
     EvictStore, SuspendStore, ThrottleStore, EditNothing, LogRequest, ComputeRate,
     ApplyWeight, ClearThrottle, CountFailure, ThrottleInDB, RejectCredential,
     DisableInDB, SpawnValidation, ValidateCredential, VerifyUsable,
     FinishValidation, FetchQuota, ApplyStoredQuota, UpsertQuota, AfterStoreQuota,
     MergeQuota, PutQuota, AcquireSlot, MarkProbing, SpawnProbe, ProbeQuota,
     CompleteProbe, ReleaseSlot, ListAvailable, AdminSetStatus, SyncCredentials
<1> QED
  BY <1>0, <1>2, <1>3, <1>4, <1>5, <1>6 DEF MemTyped

\* Jobs: a timer carries the end of a window.
LEMMA JobsTypedStep ==
  ASSUME PostInv, TypeInv, [Next]_vars
  PROVE  JobsTyped'
<1>0. JobsTyped
  BY DEF TypeInv
<1>1. CASE Tick \/ UNCHANGED vars
  BY <1>0, <1>1 DEF Tick, vars, JobsTyped
<1>2. CASE \E j \in spawned : Superseded(j) \/ \E p \in Procs : StartJob(p, j)
  BY <1>0, <1>2 DEF Superseded, StartJob, JobsTyped
<1>3. ASSUME NEW p \in Procs, NEW op \in Ops, Start(p, op) PROVE JobsTyped'
  BY <1>0, <1>3 DEF Start, JobsTyped
<1>4. ASSUME NEW p \in Procs, Step(p) PROVE JobsTyped'
  <2>1. CASE UNCHANGED spawned
    BY <1>0, <2>1 DEF JobsTyped
  <2>2. ASSUME NEW op, NEW at \in Times, spawned' = spawned \cup {Job(p, op, at)} PROVE JobsTyped'
    <3>1. me[p].t \in Tiers \cup {None}
      BY DEF TypeInv, AllTyped, Typed, Holds
    <3> QED
      BY <1>0, <2>2, <3>1 DEF JobsTyped, Job
  <2>3. CASE ThrottleStore(p) \/ EditNothing(p)
    <3>1. me[p].at \in Times
      BY DEF TypeInv, AllTyped, Typed, Holds
    <3>2. spawned' = spawned \cup {Job(p, "wake", me[p].at)} \/ UNCHANGED spawned
      BY <2>3 DEF ThrottleStore, EditNothing, Go
    <3> QED
      BY <2>1, <2>2, <3>1, <3>2
  <2>4. CASE SpawnValidation(p) \/ SpawnProbe(p) \/ SyncCredentials(p)
    <3>1. 0 \in Times
      BY ConstantsAssumption DEF ConstantsAssumption, Times
    <3> QED
      BY <2>2, <2>4, <3>1 DEF SpawnValidation, SpawnProbe, SyncCredentials, Go
  <2> QED
    BY <1>4, <2>1, <2>3, <2>4 DEF Step,
     EnterRefresh, ListRows, BuildRows, MergeThrottles, StoreRows, ClearExpired,
     Load, EvictStore, SuspendStore, LogRequest, ComputeRate, ApplyWeight,
     ClearThrottle, CountFailure, ThrottleInDB, RememberThrottle, RejectCredential,
     DisableInDB, CheckUnauthorized, ValidateCredential, VerifyUsable,
     FinishValidation, FetchQuota, ApplyStoredQuota, UpsertQuota, AfterStoreQuota,
     MergeQuota, PutQuota, AcquireSlot, MarkProbing, ProbeQuota, CompleteProbe,
     ReleaseSlot, ListAvailable, AdminSetStatus
<1> QED
  BY <1>1, <1>2, <1>3, <1>4 DEF Next

-----------------------------------------------------------------------------
(* Frames *)

LEMMA OneTyped ==
  ASSUME PostInv, TypeInv, NEW p \in Procs, NEW r, Typed(r), me' = [me EXCEPT ![p] = r]
  PROVE  AllTyped'
<1>1. \A u \in Procs : me'[u] = IF u = p THEN r ELSE me[u]
  BY DEF PostInv, ControlInv, Flow, Framed
<1> QED
  BY <1>1 DEF TypeInv, AllTyped

LEMMA GotoTyped ==
  ASSUME PostInv, TypeInv, NEW p \in Procs, NEW x \in PCs \ WorkPCs, Goto(p, x)
  PROVE  AllTyped'
<1> DEFINE r == [me[p] EXCEPT !.pc = x]
<1>1. Frame(me[p]) /\ Typed(me[p])
  BY DEF PostInv, ControlInv, Flow, Framed, TypeInv, AllTyped
<1>2. /\ r.pc = x /\ r.op = me[p].op /\ r.then = me[p].then /\ r.c = me[p].c /\ r.t = me[p].t
      /\ r.at = me[p].at /\ r.hit = me[p].hit /\ r.q = me[p].q /\ r.work = me[p].work
  BY <1>1 DEF Frame
<1>3. me' = [me EXCEPT ![p] = r]
  BY DEF Goto
<1> HIDE DEF r
<1>4. Typed(r)
  BY <1>1, <1>2 DEF Typed, Holds
<1> QED
  BY <1>3, <1>4, OneTyped

LEMMA CallTyped ==
  ASSUME PostInv, TypeInv, NEW p \in Procs, NEW x \in PCs \ WorkPCs, NEW y \in PCs, Call(p, x, y)
  PROVE  AllTyped'
<1> DEFINE r == [me[p] EXCEPT !.pc = x, !.then = y]
<1>1. Frame(me[p]) /\ Typed(me[p])
  BY DEF PostInv, ControlInv, Flow, Framed, TypeInv, AllTyped
<1>2. /\ r.pc = x /\ r.op = me[p].op /\ r.then = y /\ r.c = me[p].c /\ r.t = me[p].t
      /\ r.at = me[p].at /\ r.hit = me[p].hit /\ r.q = me[p].q /\ r.work = me[p].work
  BY <1>1 DEF Frame
<1>3. me' = [me EXCEPT ![p] = r]
  BY DEF Call
<1> HIDE DEF r
<1>4. Typed(r)
  BY <1>1, <1>2 DEF Typed, Holds
<1> QED
  BY <1>3, <1>4, OneTyped

LEMMA IdleTyped == Typed(Idle)
<1>1. /\ NoQuota \in Quotas /\ 0 \in Times /\ "idle" \in PCs \ WorkPCs
      /\ "none" \in AnyOps /\ FALSE \in BOOLEAN
  BY ConstantsAssumption DEF ConstantsAssumption, NoQuota, Quotas, Times, PCs, WorkPCs,
     AnyOps
<1>2. /\ Idle.pc = "idle" /\ Idle.op = "none" /\ Idle.c = None /\ Idle.t = None /\ Idle.at = 0
      /\ Idle.then = "idle" /\ Idle.hit = FALSE /\ Idle.q = NoQuota /\ Idle.work = None
  BY DEF Idle
<1> QED
  BY <1>1, <1>2 DEF Typed, Holds

LEMMA ReturnTyped ==
  ASSUME PostInv, TypeInv, NEW p \in Procs, Return(p)
  PROVE  AllTyped'
  BY IdleTyped, OneTyped DEF Return

LEMMA ResumeTyped ==
  ASSUME NEW r, Frame(r), Placed(r), Typed(r)
  PROVE  Typed(Resume(r))
<1>1. CASE r.then = "idle"
  BY <1>1, IdleTyped DEF Resume
<1>2. CASE r.then # "idle"
  <2> DEFINE s == [r EXCEPT !.pc = r.then, !.then = "idle", !.at = 0, !.work = None]
  <2>1. Resume(r) = s
    BY <1>2 DEF Resume
  <2>2. /\ s.pc = r.then /\ s.op = r.op /\ s.then = "idle" /\ s.c = r.c /\ s.t = r.t
        /\ s.at = 0 /\ s.hit = r.hit /\ s.q = r.q /\ s.work = None
    BY DEF Frame
  <2>3. r.then \notin WorkPCs /\ 0 \in Times /\ "idle" \in PCs
    BY ConstantsAssumption DEF ConstantsAssumption, Placed, MayStand, Returns, WorkPCs,
       Times, PCs
  <2> HIDE DEF s
  <2> QED
    BY <2>1, <2>2, <2>3 DEF Typed, Holds
<1> QED
  BY <1>1, <1>2

LEMMA ResumesTyped ==
  ASSUME PostInv, TypeInv, NEW p \in Procs, me' = [me EXCEPT ![p] = Resume(@)]
  PROVE  AllTyped'
<1>1. Typed(Resume(me[p]))
  BY ResumeTyped DEF PostInv, ControlInv, Flow, Framed, TypeInv, AllTyped
<1> QED
  BY <1>1, OneTyped

LEMMA LeaveTyped ==
  ASSUME PostInv, TypeInv, NEW p \in Procs, LeaveRefresh(p)
  PROVE  AllTyped'
<1> SUFFICES ASSUME NEW u \in Procs PROVE Typed(me'[u])
  BY DEF AllTyped, Typed
<1>1. me'[u] \in {me[u], Resume(me[u])}
  BY DEF LeaveRefresh
<1>2. Frame(me[u]) /\ Placed(me[u]) /\ Typed(me[u])
  BY DEF PostInv, ControlInv, Flow, Framed, TypeInv, AllTyped
<1> QED
  BY <1>1, <1>2, ResumeTyped

LEMMA TypedStep ==
  ASSUME PostInv, TypeInv, NEW p \in Procs, Step(p)
  PROVE  AllTyped'
<1>0. /\ Frame(me[p]) /\ Placed(me[p]) /\ Typed(me[p]) /\ Posted(me[p])
      /\ MemTyped /\ RowsTyped /\ PoolTyped
  BY DEF PostInv, ControlInv, Flow, Framed, AllPosted, TypeInv, AllTyped
<1>00. NoQuota \in Quotas /\ 0 \in Times /\ None \in Snapshots \cup {None} /\ FALSE \in BOOLEAN
  BY ConstantsAssumption DEF ConstantsAssumption, NoQuota, Quotas, Times
<1> USE DEF PCs, WorkPCs
<1>1. CASE EnterRefresh(p) \/ ClearThrottle(p) \/ ThrottleInDB(p) \/ AcquireSlot(p)
           \/ CompleteProbe(p) \/ ReleaseSlot(p) \/ SpawnProbe(p) \/ SpawnValidation(p)
           \/ FinishValidation(p) \/ SyncCredentials(p)
  BY <1>0, <1>1, GotoTyped, ReturnTyped DEF EnterRefresh, ClearThrottle, ThrottleInDB,
     AcquireSlot, CompleteProbe, ReleaseSlot, SpawnProbe, SpawnValidation,
     FinishValidation, SyncCredentials
<1>2. CASE LogRequest(p) \/ MarkProbing(p) \/ ListAvailable(p)
  BY <1>0, <1>2, GotoTyped, CallTyped, ReturnTyped DEF LogRequest, MarkProbing,
     ListAvailable, GiveSlotBack
<1>3. CASE RememberThrottle(p) \/ RejectCredential(p) \/ CheckUnauthorized(p)
           \/ AdminSetStatus(p) \/ ValidateCredential(p)
  BY <1>0, <1>3, GotoTyped, CallTyped DEF RememberThrottle, RejectCredential,
     CheckUnauthorized, AdminSetStatus, ValidateCredential, EndValidation
<1>4. CASE DisableInDB(p)
  BY <1>0, <1>4, GotoTyped, CallTyped, ReturnTyped DEF DisableInDB, AfterDisable,
     EndValidation
<1>5. CASE ClearExpired(p)
  BY <1>0, <1>5, LeaveTyped DEF ClearExpired
<1>6. CASE EvictStore(p) \/ SuspendStore(p) \/ ThrottleStore(p) \/ EditNothing(p)
  BY <1>0, <1>6, ResumesTyped DEF EvictStore, SuspendStore, ThrottleStore, EditNothing
<1>7. CASE AfterStoreQuota(p)
  <2>1. me[p].op \in {"validate", "import", "sync"}
    BY <1>0, <1>7 DEF AfterStoreQuota, At, Placed, MayStand, QuotaPCs
  <2>2. \E x \in {"refresh", "list"}, y \in {"finish", "idle"} : Call(p, x, y)
    BY <1>7, <2>1 DEF AfterStoreQuota, EndValidation, CacheRows
  <2> QED
    BY <2>2, CallTyped
<1>8. CASE ListRows(p)
  <2> DEFINE r == [me[p] EXCEPT !.pc = "build", !.work =
                [c \in Listed |->
                  [t \in Tiers |-> [live |-> db[c].live[t], up |-> FALSE,
                                    until |-> db[c].until[t], fair |-> TRUE]]]]
  <2>1. /\ r.pc = "build" /\ r.op = me[p].op /\ r.c = me[p].c /\ r.t = me[p].t /\ r.then = me[p].then
        /\ r.at = me[p].at /\ r.hit = me[p].hit /\ r.q = me[p].q
        /\ r.work = [c \in Listed |->
                  [t \in Tiers |-> [live |-> db[c].live[t], up |-> FALSE,
                                    until |-> db[c].until[t], fair |-> TRUE]]]
    BY <1>0 DEF Frame
  <2>2. me' = [me EXCEPT ![p] = r] \/ LeaveRefresh(p)
    BY <1>8 DEF ListRows
  <2>3. r.work \in Snapshots
    <3>1. Listed \in SUBSET Creds
      BY DEF Listed
    <3>2. r.work \in [Listed -> Rows]
      BY <1>0, <2>1, <3>1 DEF RowsTyped, CredRows, Rows, Slots
    <3> QED
      BY <3>1, <3>2, RowsSnapshot
  <2> HIDE DEF r
  <2>9. Typed(r)
    BY <1>0, <1>00, <2>1, <2>3 DEF Typed, Holds
  <2> QED
    BY <2>2, <2>9, OneTyped, LeaveTyped
<1>9. CASE BuildRows(p)
  <2> DEFINE r == [me[p] EXCEPT !.pc = "merge", !.at = clock, !.work =
                [c \in Unchecked(DOMAIN me[p].work) |-> [t \in Tiers |->
                  LET slot == me[p].work[c][t] IN Scored(slot, slot.live, clock)]]]
  <2>1. /\ r.pc = "merge" /\ r.op = me[p].op /\ r.c = me[p].c /\ r.t = me[p].t /\ r.then = me[p].then
        /\ r.at = clock /\ r.hit = me[p].hit /\ r.q = me[p].q
        /\ r.work = [c \in Unchecked(DOMAIN me[p].work) |-> [t \in Tiers |->
                  LET slot == me[p].work[c][t] IN Scored(slot, slot.live, clock)]]
    BY <1>0 DEF Frame
  <2>2. me' = [me EXCEPT ![p] = r]
    BY <1>9 DEF BuildRows
  <2>3. r.work \in Snapshots /\ clock \in Times
    <3>1. me[p].work \in Snapshots
      BY <1>0, <1>9 DEF BuildRows, At, Typed, Holds
    <3> DEFINE C == Unchecked(DOMAIN me[p].work)
    <3>2. C \in SUBSET Creds /\ \A c \in C, t \in Tiers : me[p].work[c][t] \in Slots
      BY <3>1, SnapshotRows DEF Unchecked
    <3>3. \A c \in C, t \in Tiers : Scored(me[p].work[c][t], me[p].work[c][t].live, clock) \in Slots
      <4>1. \A c \in C, t \in Tiers : me[p].work[c][t].live \in BOOLEAN
        BY <3>2 DEF Slots
      <4> QED
        BY <3>2, <4>1, ScoredSlot
    <3>4. r.work = [c \in C |-> [t \in Tiers |-> Scored(me[p].work[c][t], me[p].work[c][t].live, clock)]]
      BY <2>1
    <3>5. clock \in Times
      BY <1>0, ConstantsAssumption DEF MemTyped, Times, ConstantsAssumption
    <3> HIDE DEF C, r
    <3>6. r.work \in [C -> Rows]
      BY <3>3, <3>4 DEF Rows
    <3> QED
      BY <3>2, <3>5, <3>6, RowsSnapshot
  <2> HIDE DEF r
  <2>9. Typed(r)
    BY <1>0, <1>00, <2>1, <2>3 DEF Typed, Holds
  <2> QED
    BY <2>2, <2>9, OneTyped
<1>10. CASE MergeThrottles(p)
  <2> DEFINE r == [me[p] EXCEPT !.pc = "store", !.work =
                [c \in DOMAIN me[p].work |-> [t \in Tiers |->
                  Merged(me[p].work[c][t], throttle[c][t].until, me[p].at, logs[c][t])]]]
  <2>1. /\ r.pc = "store" /\ r.op = me[p].op /\ r.c = me[p].c /\ r.t = me[p].t /\ r.then = me[p].then
        /\ r.at = me[p].at /\ r.hit = me[p].hit /\ r.q = me[p].q
        /\ r.work = [c \in DOMAIN me[p].work |-> [t \in Tiers |->
                  Merged(me[p].work[c][t], throttle[c][t].until, me[p].at, logs[c][t])]]
    BY <1>0 DEF Frame
  <2>2. me' = [me EXCEPT ![p] = r]
    BY <1>10 DEF MergeThrottles
  <2>3. r.work \in Snapshots
    <3>1. me[p].work \in Snapshots
      BY <1>0, <1>10 DEF MergeThrottles, At, Typed, Holds
    <3> DEFINE C == DOMAIN me[p].work
    <3>2. C \in SUBSET Creds /\ \A c \in C, t \in Tiers : me[p].work[c][t] \in Slots
      BY <3>1, SnapshotRows
    <3>3. \A c \in C, t \in Tiers : throttle[c][t].until \in Times
      BY <1>0, <3>2 DEF MemTyped
    <3>4. \A c \in C, t \in Tiers : Merged(me[p].work[c][t], throttle[c][t].until, me[p].at, logs[c][t]) \in Slots
      BY <3>2, <3>3, MergedSlot
    <3>5. r.work = [c \in C |-> [t \in Tiers |-> Merged(me[p].work[c][t], throttle[c][t].until, me[p].at, logs[c][t])]]
      BY <2>1
    <3> HIDE DEF C, r
    <3>6. r.work \in [C -> Rows]
      BY <3>4, <3>5 DEF Rows
    <3> QED
      BY <3>2, <3>6, RowsSnapshot
  <2> HIDE DEF r
  <2>9. Typed(r)
    BY <1>0, <1>00, <2>1, <2>3 DEF Typed, Holds
  <2> QED
    BY <2>2, <2>9, OneTyped
<1>11. CASE StoreRows(p)
  <2> DEFINE r == [me[p] EXCEPT !.pc = "clear", !.work = None, !.at = 0]
  <2>1. /\ r.pc = "clear" /\ r.op = me[p].op /\ r.c = me[p].c /\ r.t = me[p].t /\ r.then = me[p].then
        /\ r.at = 0 /\ r.hit = me[p].hit /\ r.q = me[p].q /\ r.work = None
    BY <1>0 DEF Frame
  <2>2. me' = [me EXCEPT ![p] = r]
    BY <1>11 DEF StoreRows
  <2> HIDE DEF r
  <2>9. Typed(r)
    BY <1>0, <1>00, <2>1 DEF Typed, Holds
  <2> QED
    BY <2>2, <2>9, OneTyped
<1>12. CASE Load(p)
  <2> DEFINE r == [me[p] EXCEPT !.pc = Storing[me[p].pc], !.work = avail]
  <2>1. /\ r.pc = Storing[me[p].pc] /\ r.op = me[p].op /\ r.c = me[p].c /\ r.t = me[p].t /\ r.then = me[p].then
        /\ r.at = me[p].at /\ r.hit = me[p].hit /\ r.q = me[p].q /\ r.work = avail
    BY <1>0 DEF Frame
  <2>2. me' = [me EXCEPT ![p] = r]
    BY <1>12 DEF Load
  <2>3. avail \in Snapshots /\ Storing[me[p].pc] \in WorkPCs
    BY <1>0, <1>12 DEF Load, Storing, PoolTyped
  <2> HIDE DEF r
  <2>9. Typed(r)
    BY <1>0, <1>00, <2>1, <2>3 DEF Typed, Holds
  <2> QED
    BY <2>2, <2>9, OneTyped
<1>13. CASE ComputeRate(p)
  <2> DEFINE h == logs[me[p].c][me[p].t] # "bad"
             r == [me[p] EXCEPT !.pc = "weigh", !.hit = h]
  <2>1. /\ r.pc = "weigh" /\ r.op = me[p].op /\ r.c = me[p].c /\ r.t = me[p].t /\ r.then = me[p].then
        /\ r.at = me[p].at /\ r.hit = h /\ r.q = me[p].q /\ r.work = me[p].work
    BY <1>0 DEF Frame
  <2>2. me' = [me EXCEPT ![p] = r] \/ Return(p) \/ Goto(p, "failCount")
    BY <1>13 DEF ComputeRate, AfterWeight
  <2>3. h \in BOOLEAN
    OBVIOUS
  <2> HIDE DEF h, r
  <2>9. Typed(r)
    BY <1>0, <1>00, <2>1, <2>3 DEF Typed, Holds
  <2> QED
    BY <2>2, <2>9, OneTyped, ReturnTyped, GotoTyped
<1>14. CASE ApplyWeight(p)
  <2> DEFINE r == [me[p] EXCEPT !.pc = "failCount", !.hit = FALSE]
  <2>1. /\ r.pc = "failCount" /\ r.op = me[p].op /\ r.c = me[p].c /\ r.t = me[p].t /\ r.then = me[p].then
        /\ r.at = me[p].at /\ r.hit = FALSE /\ r.q = me[p].q /\ r.work = me[p].work
    BY <1>0 DEF Frame
  <2>2. me' = [me EXCEPT ![p] = r] \/ Return(p)
    BY <1>14 DEF ApplyWeight
  <2> HIDE DEF r
  <2>9. Typed(r)
    BY <1>0, <1>00, <2>1 DEF Typed, Holds
  <2> QED
    BY <2>2, <2>9, OneTyped, ReturnTyped
<1>15. CASE CountFailure(p)
  <2>1. ASSUME NEW at \in clock + 1 .. MaxClock + 1,
               me' = [me EXCEPT ![p] = [me[p] EXCEPT !.pc = "failDB", !.at = at]]
        PROVE  AllTyped'
    <3> DEFINE r == [me[p] EXCEPT !.pc = "failDB", !.at = at]
    <3>1. /\ r.pc = "failDB" /\ r.op = me[p].op /\ r.c = me[p].c /\ r.t = me[p].t /\ r.then = me[p].then
        /\ r.at = at /\ r.hit = me[p].hit /\ r.q = me[p].q /\ r.work = me[p].work
      BY <1>0 DEF Frame
    <3>2. me' = [me EXCEPT ![p] = r]
      BY <2>1
    <3>3. at \in Times
      BY <1>0, ConstantsAssumption DEF MemTyped, Times, ConstantsAssumption
    <3> HIDE DEF r
    <3>4. Typed(r)
      BY <1>0, <1>00, <3>1, <3>3 DEF Typed, Holds
    <3> QED
      BY <3>2, <3>4, OneTyped
  <2> QED
    BY <1>15, <2>1, ReturnTyped DEF CountFailure
<1>16. CASE ProbeQuota(p)
  <2>1. ASSUME NEW at \in clock + 1 .. MaxClock + 1,
               me' = [me EXCEPT ![p] = [me[p] EXCEPT !.pc = "remember", !.at = at]]
        PROVE  AllTyped'
    <3> DEFINE r == [me[p] EXCEPT !.pc = "remember", !.at = at]
    <3>1. /\ r.pc = "remember" /\ r.op = me[p].op /\ r.c = me[p].c /\ r.t = me[p].t /\ r.then = me[p].then
        /\ r.at = at /\ r.hit = me[p].hit /\ r.q = me[p].q /\ r.work = me[p].work
      BY <1>0 DEF Frame
    <3>2. me' = [me EXCEPT ![p] = r]
      BY <2>1
    <3>3. at \in Times
      BY <1>0, ConstantsAssumption DEF MemTyped, Times, ConstantsAssumption
    <3> HIDE DEF r
    <3>4. Typed(r)
      BY <1>0, <1>00, <3>1, <3>3 DEF Typed, Holds
    <3> QED
      BY <3>2, <3>4, OneTyped
  <2> QED
    BY <1>16, <2>1, GotoTyped DEF ProbeQuota
<1>17. CASE VerifyUsable(p)
  <2>1. ASSUME NEW q \in Quotas, me' = [me EXCEPT ![p] = [me[p] EXCEPT !.pc = "apply", !.q = q]]
        PROVE  AllTyped'
    <3> DEFINE r == [me[p] EXCEPT !.pc = "apply", !.q = q]
    <3>1. /\ r.pc = "apply" /\ r.op = me[p].op /\ r.c = me[p].c /\ r.t = me[p].t /\ r.then = me[p].then
        /\ r.at = me[p].at /\ r.hit = me[p].hit /\ r.q = q /\ r.work = me[p].work
      BY <1>0 DEF Frame
    <3>2. me' = [me EXCEPT ![p] = r]
      BY <2>1
    <3>3. q \in Quotas
      OBVIOUS
    <3> HIDE DEF r
    <3>4. Typed(r)
      BY <1>0, <1>00, <3>1, <3>3 DEF Typed, Holds
    <3> QED
      BY <3>2, <3>4, OneTyped
  <2> QED
    BY <1>17, <2>1, GotoTyped, CallTyped DEF VerifyUsable, EndValidation
<1>18. CASE FetchQuota(p)
  <2>1. ASSUME NEW q \in Quotas, me' = [me EXCEPT ![p] = [me[p] EXCEPT !.pc = "apply", !.q = q]]
        PROVE  AllTyped'
    <3> DEFINE r == [me[p] EXCEPT !.pc = "apply", !.q = q]
    <3>1. /\ r.pc = "apply" /\ r.op = me[p].op /\ r.c = me[p].c /\ r.t = me[p].t /\ r.then = me[p].then
        /\ r.at = me[p].at /\ r.hit = me[p].hit /\ r.q = q /\ r.work = me[p].work
      BY <1>0 DEF Frame
    <3>2. me' = [me EXCEPT ![p] = r]
      BY <2>1
    <3>3. q \in Quotas
      OBVIOUS
    <3> HIDE DEF r
    <3>4. Typed(r)
      BY <1>0, <1>00, <3>1, <3>3 DEF Typed, Holds
    <3> QED
      BY <3>2, <3>4, OneTyped
  <2> QED
    BY <1>18, <2>1, GotoTyped, CallTyped DEF FetchQuota
<1>19. CASE MergeQuota(p)
  <2>1. ASSUME NEW q \in Quotas, me' = [me EXCEPT ![p] = [me[p] EXCEPT !.pc = "put", !.q =
               [t \in Tiers |-> IF q[t] = "missing" /\ InPool(me[p].c)
                                  THEN IF avail[me[p].c][t].live THEN "live" ELSE "dead"
                                  ELSE q[t]]]]
        PROVE  AllTyped'
    <3> DEFINE r == [me[p] EXCEPT !.pc = "put", !.q =
               [t \in Tiers |-> IF q[t] = "missing" /\ InPool(me[p].c)
                                  THEN IF avail[me[p].c][t].live THEN "live" ELSE "dead"
                                  ELSE q[t]]]
    <3>1. /\ r.pc = "put" /\ r.op = me[p].op /\ r.c = me[p].c /\ r.t = me[p].t /\ r.then = me[p].then
        /\ r.at = me[p].at /\ r.hit = me[p].hit
        /\ r.q = [t \in Tiers |-> IF q[t] = "missing" /\ InPool(me[p].c)
                                  THEN IF avail[me[p].c][t].live THEN "live" ELSE "dead"
                                  ELSE q[t]] /\ r.work = me[p].work
      BY <1>0 DEF Frame
    <3>2. me' = [me EXCEPT ![p] = r]
      BY <2>1
    <3>3. r.q \in Quotas
      BY <3>1 DEF Quotas
    <3> HIDE DEF r
    <3>4. Typed(r)
      BY <1>0, <1>00, <3>1, <3>3 DEF Typed, Holds
    <3> QED
      BY <3>2, <3>4, OneTyped
  <2> QED
    BY <1>19, <2>1 DEF MergeQuota
<1>20. CASE ApplyStoredQuota(p)
  <2>1. ASSUME NEW b \in BOOLEAN,
               me' = [me EXCEPT ![p] = [me[p] EXCEPT !.pc = "upsert", !.hit = InPool(me[p].c) /\ ~b]]
        PROVE  AllTyped'
    <3> DEFINE r == [me[p] EXCEPT !.pc = "upsert", !.hit = InPool(me[p].c) /\ ~b]
    <3>1. /\ r.pc = "upsert" /\ r.op = me[p].op /\ r.c = me[p].c /\ r.t = me[p].t /\ r.then = me[p].then
        /\ r.at = me[p].at /\ r.hit = (InPool(me[p].c) /\ ~b) /\ r.q = me[p].q /\ r.work = me[p].work
      BY <1>0 DEF Frame
    <3>2. me' = [me EXCEPT ![p] = r]
      BY <2>1
    <3>3. r.hit \in BOOLEAN
      BY <3>1
    <3> HIDE DEF r
    <3>4. Typed(r)
      BY <1>0, <1>00, <3>1, <3>3 DEF Typed, Holds
    <3> QED
      BY <3>2, <3>4, OneTyped
  <2> QED
    BY <1>20, <2>1 DEF ApplyStoredQuota
<1>21. CASE PutQuota(p)
  <2> DEFINE r == [me[p] EXCEPT !.pc = "complete", !.q = NoQuota]
  <2>1. /\ r.pc = "complete" /\ r.op = me[p].op /\ r.c = me[p].c /\ r.t = me[p].t /\ r.then = me[p].then
        /\ r.at = me[p].at /\ r.hit = me[p].hit /\ r.q = NoQuota /\ r.work = me[p].work
    BY <1>0 DEF Frame
  <2>2. me' = [me EXCEPT ![p] = r] \/ Return(p)
    BY <1>21 DEF PutQuota
  <2> HIDE DEF r
  <2>9. Typed(r)
    BY <1>0, <1>00, <2>1 DEF Typed, Holds
  <2> QED
    BY <2>2, <2>9, OneTyped, ReturnTyped
<1>22. CASE UpsertQuota(p)
  <2> DEFINE next(pc) == [me[p] EXCEPT !.pc = pc, !.hit = FALSE, !.q = NoQuota,
                                       !.then = IF pc = "refresh" THEN "stored" ELSE @]
  <2>1. ASSUME NEW x \in {"stored", "refresh"}, me' = [me EXCEPT ![p] = next(x)]
        PROVE  AllTyped'
    <3> DEFINE r == next(x)
    <3>1. /\ r.pc = x /\ r.op = me[p].op /\ r.c = me[p].c /\ r.t = me[p].t
        /\ r.then = (IF x = "refresh" THEN "stored" ELSE me[p].then)
        /\ r.at = me[p].at /\ r.hit = FALSE /\ r.q = NoQuota /\ r.work = me[p].work
      BY <1>0 DEF Frame
    <3>2. me' = [me EXCEPT ![p] = r]
      BY <2>1
    <3> HIDE DEF r
    <3>3. Typed(r)
      BY <1>0, <1>00, <3>1 DEF Typed, Holds
    <3> QED
      BY <3>2, <3>3, OneTyped
  <2> QED
    BY <1>22, <2>1 DEF UpsertQuota
<1> QED
  BY <1>1, <1>2, <1>3, <1>4, <1>5, <1>6, <1>7, <1>8, <1>9, <1>10, <1>11, <1>12, <1>13,
     <1>14, <1>15, <1>16, <1>17, <1>18, <1>19, <1>20, <1>21, <1>22 DEF Step

LEMMA RunTyped ==
  ASSUME PostInv, TypeInv, NEW p \in Procs, NEW op \in AllOps \cup {"probe", "validate", "import"},
         NEW c \in Creds \cup {None}, NEW t \in Tiers \cup {None}, Run(p, op, c, t)
  PROVE  AllTyped'
<1> DEFINE r == [Idle EXCEPT !.pc = First[op], !.op = op, !.c = c, !.t = t]
<1>1. /\ r.pc = First[op] /\ r.op = op /\ r.c = c /\ r.t = t /\ r.at = 0
      /\ r.then = "idle" /\ r.hit = FALSE /\ r.q = NoQuota /\ r.work = None
  BY DEF Idle
<1>2. me' = [me EXCEPT ![p] = r]
  BY DEF Run
<1>3. First[op] \in PCs \ WorkPCs /\ op \in AnyOps
  BY DEF First, AllOps, AnyOps, PCs, WorkPCs
<1>4. Typed(Idle)
  BY IdleTyped
<1>5. Idle.at = 0 /\ Idle.then = "idle" /\ Idle.hit = FALSE /\ Idle.q = NoQuota /\ Idle.work = None
  BY DEF Idle
<1> HIDE DEF r
<1>6. Typed(r)
  BY <1>1, <1>3, <1>4, <1>5 DEF Typed, Holds
<1> QED
  BY <1>2, <1>6, OneTyped

LEMMA TypeStep ==
  ASSUME PostInv, TypeInv, [Next]_vars
  PROVE  TypeInv'
<1>0. JobsTyped' /\ AllTyped /\ RowsTyped /\ PoolTyped /\ MemTyped /\ JobsTyped
  BY JobsTypedStep DEF TypeInv
<1>1. ASSUME UNCHANGED <<db, logs, avail, memory, flight, missed>>, clock' \in 0 .. MaxClock
      PROVE  RowsTyped' /\ PoolTyped' /\ MemTyped'
  BY <1>0, <1>1 DEF RowsTyped, PoolTyped, MemTyped, memory
<1>2. clock \in 0 .. MaxClock
  BY <1>0 DEF MemTyped
<1>3. CASE Tick \/ UNCHANGED vars \/ \E j \in spawned : Superseded(j)
  <2>1. me' = me /\ clock' \in 0 .. MaxClock /\ UNCHANGED <<db, logs, avail, memory, flight, missed>>
    BY <1>2, <1>3, ConstantsAssumption DEF Tick, vars, Superseded, ConstantsAssumption
  <2>2. AllTyped'
    BY <1>0, <2>1 DEF AllTyped
  <2> QED
    BY <1>0, <1>1, <2>1, <2>2 DEF TypeInv
<1>4. ASSUME NEW j \in spawned, NEW p \in Procs, StartJob(p, j) PROVE TypeInv'
  <2>1. AllTyped'
    <3>1. j.c \in Creds /\ j.t \in Tiers \cup {None}
      BY <1>0 DEF PostInv, JobsNamed, JobsTyped
    <3> QED
      BY <1>4, <3>1, JobNames, RunTyped DEF AllOps
  <2> QED
    BY <1>0, <1>1, <1>2, <1>4, <2>1 DEF StartJob, TypeInv
<1>5. ASSUME NEW p \in Procs, NEW op \in Ops, Start(p, op) PROVE TypeInv'
  <2>1. op \in AllOps
    BY ConstantsAssumption DEF ConstantsAssumption
  <2>2. PICK a \in Arguments(op) : Run(p, op, a[1], a[2])
    BY <1>5 DEF Start
  <2>3. a[1] \in Creds \cup {None} /\ a[2] \in Tiers \cup {None}
    BY <2>1, <2>2 DEF Arguments, AllOps
  <2>4. AllTyped'
    BY <2>1, <2>2, <2>3, RunTyped
  <2> QED
    BY <1>0, <1>1, <1>2, <1>5, <2>4 DEF Start, TypeInv
<1>6. ASSUME NEW p \in Procs, Step(p) PROVE TypeInv'
  BY <1>0, <1>6, TypedStep, PoolStep, RowsStep, MemStep DEF TypeInv
<1> QED
  BY <1>3, <1>4, <1>5, <1>6 DEF Next

LEMMA TypeInvariant == Spec => []TypeInv
<1>1. ASSUME Init PROVE TypeInv
  <2>1. AllTyped
    BY <1>1, IdleTyped DEF Init, AllTyped
  <2>2. JobsTyped
    BY <1>1 DEF Init, JobsTyped
  <2>3. RowsTyped
    <3>1. 0 \in Times
      BY ConstantsAssumption DEF ConstantsAssumption, Times
    <3>2. PICK on, synced \in [Creds -> BOOLEAN] :
            db = [c \in Creds |-> [on |-> on[c], synced |-> synced[c],
                                   live |-> [t \in Tiers |-> TRUE],
                                   until |-> [t \in Tiers |-> 0]]]
      BY <1>1 DEF Init
    <3>3. db \in [Creds -> CredRows]
      BY <3>1, <3>2 DEF CredRows
    <3> QED
      BY <1>1, <3>3 DEF Init, RowsTyped
  <2>4. PoolTyped
    BY <1>1 DEF Init, PoolTyped
  <2>5. MemTyped
    <3>1. NoState \in [n : 0 .. Threshold, until : Times] /\ 0 \in 0 .. MaxClock
      BY ConstantsAssumption DEF ConstantsAssumption, NoState, Times
    <3> QED
      BY <1>1, <3>1 DEF Init, MemTyped
  <2> QED
    BY <2>1, <2>2, <2>3, <2>4, <2>5 DEF TypeInv
<1>2. PostInv /\ TypeInv /\ [Next]_vars => TypeInv'
  BY TypeStep
<1> QED
  BY <1>1, <1>2, PostInvariant, PTL DEF Spec

\* Every variable keeps its type, whatever the goroutines do: the counter of
\* quotaRefreshSem never leaves its bounds, a window's end is within the clock's
\* range, and the snapshot an edit or a rebuild carries is one when it is stored.
THEOREM SchedulerTypes == Spec => []TypeOK
<1>1. ASSUME PostInv, ProbeInv, TypeInv PROVE TypeOK
  <2>1. sem \in 0 .. SemLimit
    BY <1>1, FS_CardinalityType, ConstantsAssumption DEF ProbeInv, SlotsCounted,
       ConstantsAssumption
  <2>2. spawned \subseteq Jobs
    <3> SUFFICES ASSUME NEW j \in spawned PROVE j \in Jobs
      OBVIOUS
    <3>1. /\ j = [op |-> j.op, c |-> j.c, t |-> j.t, at |-> j.at]
          /\ j.op \in {"wake", "probe", "validate", "import"} /\ j.c \in Creds
          /\ j.t \in Tiers \cup {None} /\ j.at \in Times
      BY <1>1 DEF PostInv, ControlInv, KnownJobs, JobOps, JobsNamed, TypeInv, JobsTyped
    <3> QED
      BY <3>1 DEF Jobs
  <2>3. me \in [Procs -> [pc : PCs, op : AnyOps, c : Creds \cup {None}, t : Tiers \cup {None},
                          at : Times, then : PCs, hit : BOOLEAN, q : Quotas,
                          work : Snapshots \cup {None}]]
    <3>1. me = [p \in Procs |-> me[p]]
      BY <1>1 DEF PostInv, ControlInv, Flow, Framed
    <3>2. ASSUME NEW p \in Procs
          PROVE  me[p] \in [pc : PCs, op : AnyOps, c : Creds \cup {None}, t : Tiers \cup {None},
                            at : Times, then : PCs, hit : BOOLEAN, q : Quotas,
                            work : Snapshots \cup {None}]
      <4>1. Frame(me[p]) /\ Typed(me[p])
        BY <1>1 DEF PostInv, ControlInv, Flow, Framed, TypeInv, AllTyped
      <4> QED
        BY <4>1 DEF Frame, Typed, Holds
    <3> QED
      BY <3>1, <3>2
  <2> QED
    BY <1>1, <2>1, <2>2, <2>3 DEF TypeInv, RowsTyped, PoolTyped, MemTyped, TypeOK, AnyOps
<1> QED
  BY <1>1, PostInvariant, ProbeInvariant, TypeInvariant, PTL

-----------------------------------------------------------------------------
(* Validations are counted: of a credential that stays marked no step starts one *)
(* more.                                                                          *)

ValidationsFinite == \A c \in Creds : IsFiniteSet(Validators(c)) /\ IsFiniteSet(PendingValidations(c))

\* Whether a frame is on its way to start a validation.
Handing(r) == "spawnCheck" \in {r.pc, r.then}

\* Only the test-and-set puts a goroutine on its way to start a validation.
LEMMA OnlyTheTestHands ==
  ASSUME PostInv, NEW p \in Procs, Step(p), ~CheckUnauthorized(p),
         me[p].op \in {"unauth", "sync"}, ~Handing(me[p])
  PROVE  ~Handing(me'[p])
<1> DEFINE m == me[p]
<1>0. /\ me = [u \in Procs |-> me[u]] /\ Frame(m) /\ MayStand(m.pc, m.op, m.then)
      /\ Post(m.pc, m.op, m.then)
  BY DEF PostInv, ControlInv, Flow, Framed, AllPosted, Posted, Placed
<1>1. ASSUME NEW x, x # "spawnCheck", Goto(p, x) PROVE ~Handing(me'[p])
  <2>1. me'[p] = [m EXCEPT !.pc = x]
    BY <1>0, <1>1 DEF Goto
  <2>2. me'[p].pc = x /\ me'[p].then = m.then
    BY <1>0, <2>1 DEF Frame
  <2> QED
    BY <1>1, <2>2 DEF Handing
<1>2. ASSUME NEW x, NEW y, "spawnCheck" \notin {x, y}, Call(p, x, y) PROVE ~Handing(me'[p])
  <2>1. me'[p] = [m EXCEPT !.pc = x, !.then = y]
    BY <1>0, <1>2 DEF Call
  <2>2. me'[p].pc = x /\ me'[p].then = y
    BY <1>0, <2>1 DEF Frame
  <2> QED
    BY <1>2, <2>2 DEF Handing
<1>3. ASSUME Return(p) PROVE ~Handing(me'[p])
  BY <1>0, <1>3 DEF Return, Idle, Handing
<1>4. ASSUME me'[p] = Resume(m) PROVE ~Handing(me'[p])
  <2>1. CASE m.then = "idle"
    BY <1>4, <2>1 DEF Resume, Idle, Handing
  <2>2. CASE m.then # "idle"
    <3>1. me'[p].then = "idle" /\ me'[p].pc = m.then
      BY <1>0, <1>4, <2>2 DEF Resume, Frame
    <3> QED
      BY <3>1 DEF Handing
  <2> QED
    BY <2>1, <2>2
<1>5. CASE EnterRefresh(p) \/ RejectCredential(p) \/ SpawnValidation(p) \/ FetchQuota(p)
           \/ ListAvailable(p)
  <2>1. ASSUME NEW q, me' = [me EXCEPT ![p] = [@ EXCEPT !.pc = "apply", !.q = q]]
        PROVE  ~Handing(me'[p])
    <3>1. me'[p] = [m EXCEPT !.pc = "apply", !.q = q]
      BY <1>0, <2>1
    <3>2. me'[p].pc = "apply" /\ me'[p].then = m.then
      BY <1>0, <3>1 DEF Frame
    <3> QED
      BY <3>2 DEF Handing
  <2> QED
    BY <1>1, <1>2, <1>3, <1>5, <2>1 DEF EnterRefresh, RejectCredential, SpawnValidation,
       FetchQuota, ListAvailable
<1>6. CASE DisableInDB(p)
  BY <1>1, <1>3, <1>6 DEF DisableInDB, AfterDisable
<1>06. CASE AfterStoreQuota(p)
  <2>1. m.op = "sync"
    BY <1>0, <1>06 DEF AfterStoreQuota, At, MayStand, QuotaPCs
  <2> QED
    BY <1>2, <1>06, <2>1 DEF AfterStoreQuota, CacheRows
<1>7. CASE ClearExpired(p) \/ EvictStore(p) \/ EditNothing(p)
  BY <1>0, <1>4, <1>7 DEF ClearExpired, LeaveRefresh, EvictStore, EditNothing
<1>8. CASE ListRows(p)
  <2>1. CASE LeaveRefresh(p)
    BY <1>0, <1>4, <2>1 DEF LeaveRefresh
  <2>2. CASE ~LeaveRefresh(p)
    <3> DEFINE w == [c \in Listed |->
                  [t \in Tiers |-> [live |-> db[c].live[t], up |-> FALSE,
                                    until |-> db[c].until[t], fair |-> TRUE]]]
    <3>1. me'[p] = [m EXCEPT !.pc = "build", !.work = w]
      BY <1>0, <1>8, <2>2 DEF ListRows
    <3> HIDE DEF w
    <3>2. me'[p].pc = "build" /\ me'[p].then = m.then
      BY <1>0, <3>1 DEF Frame
    <3> QED
      BY <3>2 DEF Handing
  <2> QED
    BY <2>1, <2>2
<1>9. CASE BuildRows(p)
  <2> DEFINE w == [c \in Unchecked(DOMAIN m.work) |-> [t \in Tiers |->
                LET slot == m.work[c][t] IN Scored(slot, slot.live, clock)]]
  <2>1. me'[p] = [m EXCEPT !.pc = "merge", !.at = clock, !.work = w]
    BY <1>0, <1>9 DEF BuildRows
  <2> HIDE DEF w
  <2>2. me'[p].pc = "merge" /\ me'[p].then = m.then
    BY <1>0, <2>1 DEF Frame
  <2> QED
    BY <2>2 DEF Handing
<1>10. CASE MergeThrottles(p)
  <2> DEFINE w == [c \in DOMAIN m.work |-> [t \in Tiers |->
                Merged(m.work[c][t], throttle[c][t].until, m.at, logs[c][t])]]
  <2>1. me'[p] = [m EXCEPT !.pc = "store", !.work = w]
    BY <1>0, <1>10 DEF MergeThrottles
  <2> HIDE DEF w
  <2>2. me'[p].pc = "store" /\ me'[p].then = m.then
    BY <1>0, <2>1 DEF Frame
  <2> QED
    BY <2>2 DEF Handing
<1>11. CASE StoreRows(p)
  <2>1. me'[p] = [m EXCEPT !.pc = "clear", !.work = None, !.at = 0]
    BY <1>0, <1>11 DEF StoreRows
  <2>2. me'[p].pc = "clear" /\ me'[p].then = m.then
    BY <1>0, <2>1 DEF Frame
  <2> QED
    BY <2>2 DEF Handing
<1>12. CASE Load(p)
  <2>1. me'[p] = [m EXCEPT !.pc = Storing[m.pc], !.work = avail] /\ m.pc \in DOMAIN Storing
    BY <1>0, <1>12 DEF Load, Storing
  <2>2. me'[p].pc = Storing[m.pc] /\ me'[p].then = m.then /\ Storing[m.pc] # "spawnCheck"
    BY <1>0, <2>1 DEF Frame, Storing
  <2> QED
    BY <2>2 DEF Handing
<1>13. CASE ApplyStoredQuota(p)
  <2>1. PICK hit : me'[p] = [m EXCEPT !.pc = "upsert", !.hit = hit]
    BY <1>0, <1>13 DEF ApplyStoredQuota
  <2>2. me'[p].pc = "upsert" /\ me'[p].then = m.then
    BY <1>0, <2>1 DEF Frame
  <2> QED
    BY <2>2 DEF Handing
<1>14. CASE UpsertQuota(p)
  <2> DEFINE s(pc) == [m EXCEPT !.pc = pc, !.hit = FALSE, !.q = NoQuota,
                                !.then = IF pc = "refresh" THEN "stored" ELSE @]
  <2>1. PICK pc \in {"stored", "refresh"} : me'[p] = s(pc)
    BY <1>0, <1>14 DEF UpsertQuota
  <2>2. s(pc).pc = pc /\ s(pc).then \in {m.then, "stored"}
    BY <1>0 DEF Frame
  <2> HIDE DEF s
  <2> QED
    BY <2>1, <2>2 DEF Handing
<1> QED
  BY <1>0, <1>5, <1>6, <1>06, <1>7, <1>8, <1>9, <1>10, <1>11, <1>12, <1>13, <1>14
     DEF Post, Step, At, Storing, SuspendStore, ThrottleStore, LogRequest, ComputeRate,
     ApplyWeight, ClearThrottle, CountFailure, ThrottleInDB, RememberThrottle,
     ValidateCredential, VerifyUsable, FinishValidation, MergeQuota, PutQuota, AcquireSlot,
     MarkProbing, SpawnProbe, ProbeQuota, CompleteProbe, ReleaseSlot, AdminSetStatus,
     SyncCredentials

\* A step makes nobody but its own goroutine a validator, and none of a credential
\* that is marked.
LEMMA ValidatorsStep ==
  ASSUME PostInv, NEW p \in Procs, Step(p), NEW c \in Creds
  PROVE  /\ Validators(c)' \subseteq Validators(c) \cup {p}
         /\ c \in checking => Validators(c)' \subseteq Validators(c)
<1>0. Moved /\ Apart(p) /\ \A u \in Procs : Frame(me[u]) /\ Placed(me[u]) /\ Posted(me[u])
  BY PostStep, ApartStep DEF PostInv, ControlInv, Flow, Framed, AllPosted
<1> SUFFICES ASSUME NEW u \in Procs, Validating(u, c)', ~Validating(u, c)
             PROVE  u = p /\ c \notin checking
  BY DEF Validators
<1>1. /\ me'[u].op = me[u].op /\ me[u].c = c /\ me[u].op \in {"unauth", "sync"}
      /\ Handing(me'[u]) /\ ~Handing(me[u])
  <2>1. me'[u] # Idle
    BY DEF Validating, Idle
  <2>2. GoesOn(me[u], me'[u])
    BY <1>0, <2>1 DEF Moved
  <2> QED
    BY <2>2 DEF GoesOn, Validating, Handing
<1>2. u = p
  <2> SUFFICES ASSUME me'[u] = Resume(me[u]) PROVE FALSE
    BY <1>0, <1>1 DEF Apart
  <2>1. CASE me[u].then = "idle"
    BY <1>1, <2>1 DEF Resume, Idle, Handing
  <2>2. CASE me[u].then # "idle"
    <3>1. me'[u].then = "idle" /\ me'[u].pc = me[u].then
      BY <1>0, <2>2 DEF Resume, Frame
    <3> QED
      BY <1>1, <3>1 DEF Handing
  <2> QED
    BY <2>1, <2>2
<1>3. CheckUnauthorized(p)
  BY <1>1, <1>2, OnlyTheTestHands
<1>4. me'[p] = [me[p] EXCEPT !.pc = "evict",
                   !.then = IF c \notin checking THEN "spawnCheck"
                            ELSE IF me[p].op = "sync" THEN "stored" ELSE "idle"]
  BY <1>1, <1>2, <1>3 DEF CheckUnauthorized, AlreadyChecking, Call, PostInv, ControlInv,
     Flow, Framed
<1>5. me'[p].pc = "evict" /\ (c \in checking => me'[p].then \in {"stored", "idle"})
  BY <1>0, <1>4 DEF Frame
<1> QED
  BY <1>1, <1>2, <1>5 DEF Handing

\* The validations that wait to start change with the goroutine that starts one.
LEMMA PendingStep ==
  ASSUME PostInv, NEW p \in Procs, Step(p), ~SpawnValidation(p), NEW c \in Creds
  PROVE  PendingValidations(c)' = PendingValidations(c)
<1>1. CASE ThrottleStore(p) \/ EditNothing(p)
  BY <1>1 DEF ThrottleStore, EditNothing, Go, Job, PendingValidations
<1>2. CASE SpawnProbe(p) \/ SyncCredentials(p)
  BY <1>2 DEF SpawnProbe, SyncCredentials, Go, Job, PendingValidations
<1>3. CASE UNCHANGED spawned
  BY <1>3 DEF PendingValidations
<1> QED
  BY <1>1, <1>2, <1>3 DEF Step, EnterRefresh, ListRows, BuildRows, MergeThrottles,
     StoreRows, ClearExpired, Load, EvictStore, SuspendStore, LogRequest, ComputeRate,
     ApplyWeight, ClearThrottle, CountFailure, ThrottleInDB, RememberThrottle,
     RejectCredential, DisableInDB, CheckUnauthorized, ValidateCredential, VerifyUsable,
     FinishValidation, FetchQuota, ApplyStoredQuota, UpsertQuota, AfterStoreQuota,
     MergeQuota, PutQuota, AcquireSlot, MarkProbing, ProbeQuota, CompleteProbe,
     ReleaseSlot, ListAvailable, AdminSetStatus

\* A 401's goroutine, or the syncer's, hands its validation over to the job.
LEMMA SpawnsItsOwn ==
  ASSUME PostInv, NEW p \in Procs, SpawnValidation(p), NEW c \in Creds
  PROVE  \E j : \/ /\ p \in Validators(c) /\ Validators(c)' = Validators(c) \ {p}
                   /\ PendingValidations(c)' = PendingValidations(c) \cup {j}
                \/ /\ Validators(c)' = Validators(c)
                   /\ PendingValidations(c)' = PendingValidations(c)
<1>0. /\ Posted(me[p]) /\ me[p].pc = "spawnCheck" /\ me[p].then # "spawnCheck"
      /\ Return(p) \/ (Goto(p, "stored") /\ me[p].op = "sync")
  BY DEF PostInv, ControlInv, Flow, Framed, Placed, MayStand, AllPosted, SpawnValidation, At
<1>01. ~Validating(p, c)' /\ OneAlone(p)
  <2>1. CASE Return(p)
    BY <2>1, ReturnAlone DEF Validating, Idle
  <2>2. CASE Goto(p, "stored") /\ me[p].op = "sync"
    <3>1. /\ OneAlone(p) /\ me'[p].pc = "stored" /\ me'[p].op = "sync"
          /\ me'[p].then = me[p].then
      BY <2>2, GotoAlone
    <3> QED
      BY <1>0, <3>1 DEF Validating
  <2> QED
    BY <1>0, <2>1, <2>2
<1>1. ~Validating(p, c)' /\ \A u \in Procs \ {p} : Validating(u, c)' = Validating(u, c)
  BY <1>01 DEF Validating, OneAlone
<1>2. Validators(c)' = Validators(c) \ {p}
  BY <1>1 DEF Validators
<1> DEFINE j == Job(p, "validate", 0)
<1>3. spawned' = spawned \cup {j} /\ j.op = "validate" /\ j.c = me[p].c
  BY DEF SpawnValidation, Go, Job
<1> HIDE DEF j
<1>4. CASE me[p].c = c
  <2>1. p \in Validators(c)
    BY <1>0, <1>4 DEF Validators, Validating, Posted, Post
  <2>2. PendingValidations(c)' = PendingValidations(c) \cup {j}
    BY <1>3, <1>4 DEF PendingValidations
  <2> QED
    BY <1>2, <2>1, <2>2
<1>5. CASE me[p].c # c
  <2>1. p \notin Validators(c)
    BY <1>5 DEF Validators, Validating
  <2>2. PendingValidations(c)' = PendingValidations(c)
    BY <1>3, <1>5 DEF PendingValidations
  <2> QED
    BY <1>2, <2>1, <2>2
<1> QED
  BY <1>4, <1>5

\* A validation that starts was waiting to.
LEMMA StartValidates ==
  ASSUME PostInv, NEW p \in Procs, NEW j \in spawned, StartJob(p, j), NEW c \in Creds
  PROVE  \/ /\ j \in PendingValidations(c) /\ PendingValidations(c)' = PendingValidations(c) \ {j}
            /\ Validators(c)' \subseteq Validators(c) \cup {p}
         \/ /\ PendingValidations(c)' = PendingValidations(c)
            /\ Validators(c)' \subseteq Validators(c)
<1>1. spawned' = spawned \ {j}
  BY DEF StartJob
<1>2. \/ /\ me'[p].op = j.op /\ me'[p].c = j.c /\ j.op \in {"probe", "validate", "import"}
      \/ /\ j.op = "wake" /\ me'[p].op = "refresh"
  BY JobNames, RunPosts DEF AllOps
<1>3. \A u \in Procs \ {p} : me'[u] = me[u]
  BY JobNames, RunPosts DEF AllOps
<1>4. \A u \in Procs \ {p} : Validating(u, c)' = Validating(u, c)
  BY <1>3 DEF Validating
<1>5. Validators(c)' \subseteq Validators(c) \cup {p}
  BY <1>4 DEF Validators
<1>6. CASE j \in PendingValidations(c)
  BY <1>1, <1>5, <1>6 DEF PendingValidations
<1>7. CASE j \notin PendingValidations(c)
  <2>1. ~Validating(p, c)'
    BY <1>2, <1>7 DEF Validating, PendingValidations
  <2>2. Validators(c)' \subseteq Validators(c)
    BY <1>4, <2>1 DEF Validators
  <2> QED
    BY <1>1, <1>7, <2>2 DEF PendingValidations
<1> QED
  BY <1>6, <1>7

LEMMA StartNoValidator ==
  ASSUME PostInv, NEW p \in Procs, NEW op \in Ops, Start(p, op), NEW c \in Creds
  PROVE  Validators(c)' \subseteq Validators(c) /\ PendingValidations(c)' = PendingValidations(c)
<1>1. op \in AllOps /\ me'[p].op = op /\ me'[p].pc = First[op] /\ me'[p].then = "idle"
      /\ \A u \in Procs \ {p} : me'[u] = me[u]
  <2>1. PICK a, t : Names(op, a, t) /\ Run(p, op, a, t)
    BY StartNames
  <2>2. me' = [me EXCEPT ![p] = [Idle EXCEPT !.pc = First[op], !.op = op, !.c = a, !.t = t]]
    BY <2>1 DEF Run
  <2>3. me'[p] = [Idle EXCEPT !.pc = First[op], !.op = op, !.c = a, !.t = t]
    BY <2>2 DEF PostInv, ControlInv, Flow, Framed
  <2>4. me'[p].then = "idle"
    BY <2>3 DEF Idle
  <2> QED
    BY <2>1, <2>4, StartNames, RunPosts
<1>2. ~Validating(p, c)'
  BY <1>1 DEF Validating, First, AllOps
<1>3. \A u \in Procs \ {p} : Validating(u, c)' = Validating(u, c)
  BY <1>1 DEF Validating
<1> QED
  BY <1>2, <1>3 DEF Validators, PendingValidations, Start

\* What a step does to the two sets together.
Hands(c) == \E p, j :
  \/ /\ Validators(c)' \subseteq Validators(c) /\ PendingValidations(c)' = PendingValidations(c)
  \/ /\ p \in Validators(c) /\ Validators(c)' = Validators(c) \ {p}
     /\ PendingValidations(c)' = PendingValidations(c) \cup {j}
  \/ /\ j \in PendingValidations(c) /\ PendingValidations(c)' = PendingValidations(c) \ {j}
     /\ Validators(c)' \subseteq Validators(c) \cup {p}
Begins(c) == \E p : /\ Validators(c)' \subseteq Validators(c) \cup {p}
                    /\ PendingValidations(c)' = PendingValidations(c)

LEMMA ValidationsMove ==
  ASSUME PostInv, [Next]_vars, NEW c \in Creds
  PROVE  Hands(c) \/ (Begins(c) /\ c \notin checking)
<1>1. CASE Tick \/ UNCHANGED vars
  <2>1. UNCHANGED <<me, spawned>>
    BY <1>1 DEF Tick, vars
  <2>2. Validators(c)' = Validators(c) /\ PendingValidations(c)' = PendingValidations(c)
    BY <2>1 DEF Validators, Validating, PendingValidations
  <2> QED
    BY <2>2 DEF Hands
<1>2. ASSUME NEW j \in spawned, Superseded(j) PROVE Hands(c)
  <2>1. me' = me /\ spawned' = spawned \ {j} /\ j.op # "validate"
    BY <1>2 DEF Superseded
  <2>2. Validators(c)' = Validators(c) /\ PendingValidations(c)' = PendingValidations(c)
    BY <2>1 DEF Validators, Validating, PendingValidations
  <2> QED
    BY <2>2 DEF Hands
<1>3. ASSUME NEW j \in spawned, NEW p \in Procs, StartJob(p, j) PROVE Hands(c)
  BY <1>3, StartValidates DEF Hands
<1>4. ASSUME NEW p \in Procs, NEW op \in Ops, Start(p, op) PROVE Hands(c)
  BY <1>4, StartNoValidator DEF Hands
<1>5. ASSUME NEW p \in Procs, SpawnValidation(p) PROVE Hands(c)
  BY <1>5, SpawnsItsOwn DEF Hands
<1>6. ASSUME NEW p \in Procs, Step(p), ~SpawnValidation(p)
      PROVE  Hands(c) \/ (Begins(c) /\ c \notin checking)
  BY <1>6, ValidatorsStep, PendingStep DEF Hands, Begins
<1> QED
  BY <1>1, <1>2, <1>3, <1>4, <1>5, <1>6 DEF Next

\* Handing a validation over adds none.
LEMMA HandsCount ==
  ASSUME NEW A, NEW B, NEW C, NEW D, NEW p, NEW j, IsFiniteSet(A), IsFiniteSet(B),
         \/ C \subseteq A /\ D = B
         \/ p \in A /\ C = A \ {p} /\ D = B \cup {j}
         \/ j \in B /\ D = B \ {j} /\ C \subseteq A \cup {p}
  PROVE  Cardinality(C) + Cardinality(D) <= Cardinality(A) + Cardinality(B)
<1>0. Cardinality(A) \in Nat /\ Cardinality(B) \in Nat /\ IsFiniteSet(A \cup {p})
      /\ IsFiniteSet(B \cup {j})
  BY FS_CardinalityType, FS_AddElement
<1>1. CASE C \subseteq A /\ D = B
  <2>1. Cardinality(C) <= Cardinality(A) /\ Cardinality(C) \in Nat
    BY <1>1, FS_Subset, FS_CardinalityType
  <2> QED
    BY <1>0, <1>1, <2>1
<1>2. CASE p \in A /\ C = A \ {p} /\ D = B \cup {j}
  <2>1. Cardinality(C) = Cardinality(A) - 1
    BY <1>2, FS_RemoveElement
  <2>2. Cardinality(D) \in Nat /\ Cardinality(D) <= Cardinality(B) + 1
    <3>1. CASE j \in B
      <4>1. D = B
        BY <1>2, <3>1
      <4> QED
        BY <1>0, <4>1
    <3>2. CASE j \notin B
      BY <1>0, <1>2, <3>2, FS_AddElement
    <3> QED
      BY <3>1, <3>2
  <2> QED
    BY <1>0, <2>1, <2>2
<1>3. CASE j \in B /\ D = B \ {j} /\ C \subseteq A \cup {p}
  <2>1. Cardinality(D) = Cardinality(B) - 1
    BY <1>3, FS_RemoveElement
  <2>2. Cardinality(A \cup {p}) \in Nat /\ Cardinality(A \cup {p}) <= Cardinality(A) + 1
    <3>1. CASE p \in A
      <4>1. Cardinality(A \cup {p}) = Cardinality(A)
        <5>1. A \cup {p} = A
          BY <3>1
        <5> QED
          BY <5>1
      <4> QED
        BY <1>0, <4>1
    <3>2. CASE p \notin A
      BY <1>0, <3>2, FS_AddElement
    <3> QED
      BY <3>1, <3>2
  <2>3. Cardinality(C) <= Cardinality(A \cup {p}) /\ Cardinality(C) \in Nat
    BY <1>0, <1>3, FS_Subset, FS_CardinalityType
  <2> QED
    BY <1>0, <2>1, <2>2, <2>3
<1> QED
  BY <1>1, <1>2, <1>3

LEMMA FiniteStep ==
  ASSUME PostInv, ValidationsFinite, [Next]_vars PROVE ValidationsFinite'
<1> SUFFICES ASSUME NEW c \in Creds
             PROVE  IsFiniteSet(Validators(c)') /\ IsFiniteSet(PendingValidations(c)')
  BY DEF ValidationsFinite
<1> DEFINE A == Validators(c)  B == PendingValidations(c)
<1>1. PICK p, j : /\ Validators(c)' \subseteq A \cup {p}
                  /\ PendingValidations(c)' \subseteq B \cup {j}
  BY ValidationsMove DEF Hands, Begins
<1>2. IsFiniteSet(A \cup {p}) /\ IsFiniteSet(B \cup {j})
  BY FS_AddElement DEF ValidationsFinite
<1> QED
  BY <1>1, <1>2, FS_Subset

\* While a credential is marked as under validation no step starts another
\* validation of it: its refresh token is exchanged by those that were on their
\* way, by how many requests ever its token was refused (HandleUnauthorized).
THEOREM NoSecondValidation == Spec => OneValidation
<1>1. Init => ValidationsFinite
  <2> SUFFICES ASSUME Init, NEW c \in Creds
               PROVE  IsFiniteSet(Validators(c)) /\ IsFiniteSet(PendingValidations(c))
    BY DEF ValidationsFinite
  <2>1. Validators(c) = {} /\ PendingValidations(c) = {}
    BY DEF Init, Validators, Validating, PendingValidations, Idle
  <2> QED
    BY <2>1, FS_EmptySet
<1>2. PostInv /\ ValidationsFinite /\ [Next]_vars => ValidationsFinite'
  BY FiniteStep
<1>3. PostInv /\ ValidationsFinite /\ [Next]_vars =>
        [\A c \in Creds :
           c \in checking /\ c \in checking' => Validations(c)' <= Validations(c)]_vars
  <2> SUFFICES ASSUME PostInv, ValidationsFinite, [Next]_vars, NEW c \in Creds, c \in checking
               PROVE  Validations(c)' <= Validations(c)
    OBVIOUS
  <2>1. Hands(c)
    BY ValidationsMove
  <2>2. IsFiniteSet(Validators(c)) /\ IsFiniteSet(PendingValidations(c))
    BY DEF ValidationsFinite
  <2> QED
    BY <2>1, <2>2, HandsCount DEF Hands, Validations
<1> QED
  BY <1>1, <1>2, <1>3, PostInvariant, PTL DEF Spec, OneValidation

-----------------------------------------------------------------------------
(* What a rebuild knows: between its look and its store it has missed whatever *)
(* the snapshot it carries gets wrong.                                         *)

RebuildPCs == {"merge", "store"}

\* Only its own two steps bring a rebuild to these places.
LEMMA RebuildMoves ==
  ASSUME PostInv, NEW p \in Procs, Step(p), NEW u \in Procs, me'[u].pc \in RebuildPCs
  PROVE  me'[u] = me[u] \/ (u = p /\ (BuildRows(p) \/ MergeThrottles(p)))
<1>0. /\ Apart(p) /\ me = [v \in Procs |-> me[v]]
      /\ \A v \in Procs : Frame(me[v]) /\ me[v].then \in Returns
  BY ApartStep DEF PostInv, ControlInv, Flow, Framed, Placed, MayStand
<1>1. ASSUME NEW v \in Procs, me'[v] = Resume(me[v]) PROVE me'[v].pc \notin RebuildPCs
  BY <1>0, <1>1 DEF Resume, Idle, Frame, Returns, RebuildPCs
<1>2. CASE u # p
  BY <1>0, <1>1, <1>2 DEF Apart
<1>3. CASE u = p
  <2> SUFFICES ASSUME ~BuildRows(p), ~MergeThrottles(p) PROVE me'[p].pc \notin RebuildPCs
    BY <1>3
  <2>0. Frame(me[p])
    BY <1>0
  <2>1. ASSUME NEW x, Goto(p, x), x \notin RebuildPCs PROVE me'[p].pc \notin RebuildPCs
    BY <1>0, <2>0, <2>1 DEF Goto, Frame
  <2>2. ASSUME NEW x, NEW y, Call(p, x, y), x \notin RebuildPCs PROVE me'[p].pc \notin RebuildPCs
    BY <1>0, <2>0, <2>2 DEF Call, Frame
  <2>3. ASSUME Return(p) PROVE me'[p].pc \notin RebuildPCs
    BY <1>0, <2>3 DEF Return, Idle, RebuildPCs
  <2>4. ASSUME LeaveRefresh(p) PROVE me'[p].pc \notin RebuildPCs
    BY <1>1, <2>4 DEF LeaveRefresh
  <2>5. CASE EnterRefresh(p) \/ LogRequest(p) \/ ClearThrottle(p) \/ ThrottleInDB(p)
             \/ RememberThrottle(p) \/ RejectCredential(p)
    BY <2>1, <2>2, <2>3, <2>5 DEF EnterRefresh, LogRequest, ClearThrottle, ThrottleInDB,
       RememberThrottle, RejectCredential, RebuildPCs
  <2>6. CASE DisableInDB(p) \/ ValidateCredential(p) \/ FinishValidation(p)
             \/ CheckUnauthorized(p) \/ SpawnValidation(p)
    BY <2>1, <2>2, <2>3, <2>6 DEF DisableInDB, AfterDisable, EndValidation,
       ValidateCredential, FinishValidation, CheckUnauthorized, SpawnValidation, RebuildPCs
  <2>7. CASE AcquireSlot(p) \/ MarkProbing(p) \/ SpawnProbe(p) \/ CompleteProbe(p)
             \/ ReleaseSlot(p) \/ ListAvailable(p) \/ AdminSetStatus(p) \/ SyncCredentials(p)
    BY <2>1, <2>2, <2>3, <2>7 DEF AcquireSlot, MarkProbing, GiveSlotBack, SpawnProbe,
       CompleteProbe, ReleaseSlot, ListAvailable, AdminSetStatus, SyncCredentials, RebuildPCs
  <2>8. CASE ListRows(p) \/ ClearExpired(p)
    <3>1. CASE LeaveRefresh(p)
      BY <2>4, <3>1
    <3>2. CASE ListRows(p) /\ ~LeaveRefresh(p)
      <4>1. PICK w : me' = [me EXCEPT ![p] = [@ EXCEPT !.pc = "build", !.work = w]]
        BY <3>2 DEF ListRows
      <4> QED
        BY <1>0, <2>0, <4>1 DEF Frame, RebuildPCs
    <3> QED
      BY <2>8, <3>1, <3>2 DEF ClearExpired
  <2>9. CASE StoreRows(p)
    BY <1>0, <2>0, <2>9 DEF StoreRows, Frame, RebuildPCs
  <2>10. CASE Load(p)
    <3>1. me'[p].pc = Storing[me[p].pc] /\ me[p].pc \in DOMAIN Storing
      BY <1>0, <2>0, <2>10 DEF Load, Frame
    <3> QED
      BY <3>1 DEF Storing, RebuildPCs
  <2>11. CASE EvictStore(p) \/ SuspendStore(p) \/ ThrottleStore(p) \/ EditNothing(p)
    <3>1. me'[p] = Resume(me[p])
      BY <1>0, <2>11 DEF EvictStore, SuspendStore, ThrottleStore, EditNothing
    <3> QED
      BY <1>1, <3>1
  <2>12. CASE ComputeRate(p) \/ ApplyWeight(p) \/ CountFailure(p)
    <3>1. \/ Return(p) \/ Goto(p, "failCount")
          \/ \E h : me' = [me EXCEPT ![p] = [me[p] EXCEPT !.pc = "weigh", !.hit = h]]
          \/ me' = [me EXCEPT ![p] = [@ EXCEPT !.pc = "failCount", !.hit = FALSE]]
          \/ \E at : me' = [me EXCEPT ![p] = [@ EXCEPT !.pc = "failDB", !.at = at]]
      BY <2>12 DEF ComputeRate, AfterWeight, ApplyWeight, CountFailure
    <3> QED
      BY <1>0, <2>0, <2>1, <2>3, <3>1 DEF Frame, RebuildPCs
  <2>13. CASE VerifyUsable(p) \/ FetchQuota(p)
    BY <1>0, <2>0, <2>1, <2>2, <2>13 DEF VerifyUsable, EndValidation, FetchQuota,
       Frame, RebuildPCs
  <2>14. CASE ApplyStoredQuota(p) \/ ProbeQuota(p) \/ PutQuota(p)
    <3>1. \/ Return(p) \/ Goto(p, "mergeQuota")
          \/ \E h : me' = [me EXCEPT ![p] = [@ EXCEPT !.pc = "upsert", !.hit = h]]
          \/ \E at : me' = [me EXCEPT ![p] = [@ EXCEPT !.pc = "remember", !.at = at]]
          \/ me' = [me EXCEPT ![p] = [@ EXCEPT !.pc = "complete", !.q = NoQuota]]
      BY <2>14 DEF ApplyStoredQuota, ProbeQuota, PutQuota
    <3>2. ASSUME NEW h, me' = [me EXCEPT ![p] = [@ EXCEPT !.pc = "upsert", !.hit = h]]
          PROVE  me'[p].pc \notin RebuildPCs
      BY <1>0, <2>0, <3>2 DEF Frame, RebuildPCs
    <3>3. ASSUME NEW at, me' = [me EXCEPT ![p] = [@ EXCEPT !.pc = "remember", !.at = at]]
          PROVE  me'[p].pc \notin RebuildPCs
      BY <1>0, <2>0, <3>3 DEF Frame, RebuildPCs
    <3>4. ASSUME me' = [me EXCEPT ![p] = [@ EXCEPT !.pc = "complete", !.q = NoQuota]]
          PROVE  me'[p].pc \notin RebuildPCs
      BY <1>0, <2>0, <3>4 DEF Frame, RebuildPCs
    <3> QED
      BY <2>1, <2>3, <3>1, <3>2, <3>3, <3>4 DEF RebuildPCs
  <2>15. CASE UpsertQuota(p)
    <3> DEFINE s(x, y) == [me[p] EXCEPT !.pc = x, !.hit = FALSE, !.q = NoQuota, !.then = y]
    <3>1. \/ me' = [me EXCEPT ![p] = s("stored", me[p].then)]
          \/ me' = [me EXCEPT ![p] = s("refresh", "stored")]
      BY <2>15 DEF UpsertQuota
    <3>2. ASSUME NEW x, NEW y PROVE s(x, y).pc = x
      BY <2>0 DEF Frame
    <3> HIDE DEF s
    <3> QED
      BY <1>0, <3>1, <3>2 DEF RebuildPCs
  <2>16. CASE MergeQuota(p)
    <3>1. PICK w : me' = [me EXCEPT ![p] = [me[p] EXCEPT !.pc = "put", !.q = w]]
      BY <2>16 DEF MergeQuota
    <3> QED
      BY <1>0, <2>0, <3>1 DEF Frame, RebuildPCs
  <2>17. CASE AfterStoreQuota(p)
    <3>1. me[p].op \in {"validate", "import", "sync"}
      BY <2>17 DEF PostInv, ControlInv, Flow, Framed, Placed, MayStand, QuotaPCs,
         AfterStoreQuota, At
    <3> QED
      BY <2>2, <2>17, <3>1 DEF AfterStoreQuota, EndValidation, CacheRows, RebuildPCs
  <2> QED
    BY <2>5, <2>6, <2>7, <2>8, <2>9, <2>10, <2>11, <2>12, <2>13, <2>14, <2>15, <2>16, <2>17
       DEF Step
<1> QED
  BY <1>2, <1>3

\* No credential under validation is carried by a rebuild that looked after the
\* 401, and no slot with an open window by one that merged after it opened.
KnowsChecked(p)   == \A c \in DOMAIN me[p].work : c \in checking => c \in missed[p]
KnowsThrottled(p) == \A c \in DOMAIN me[p].work, t \in Tiers :
                       me[p].work[c][t].up /\ Throttled(c, t) => c \in missed[p]
RebuildsKnow ==
  \A p \in Procs : /\ me[p].pc \in RebuildPCs => KnowsChecked(p) /\ me[p].at <= clock
                   /\ me[p].pc = "store" => KnowsThrottled(p)

\* Nothing is forgotten while a rebuild stands there, and a 401 or a window that
\* comes in is news to it.
LEMMA NewsComes ==
  ASSUME PostInv, TypeInv, NEW p \in Procs, Step(p), NEW u \in Procs,
         me[u].pc \in RebuildPCs, ~(u = p /\ StoreRows(p)), NEW c \in Creds
  PROVE  /\ c \in missed[u] => c \in missed'[u]
         /\ c \in checking' /\ c \notin checking => c \in missed'[u]
         /\ \A t \in Tiers : me[u].pc = "store" /\ Throttled(c, t)' /\ ~Throttled(c, t)
              => c \in missed'[u]
<1>0. missed \in [Procs -> SUBSET Creds] /\ clock \in Nat /\ clock' = clock
  <2>1. MemTyped /\ clock' = clock
    BY DEF TypeInv, Step, EnterRefresh, ListRows, BuildRows, MergeThrottles,
     StoreRows, ClearExpired,
     Load, EvictStore, SuspendStore, ThrottleStore, EditNothing, LogRequest,
     ComputeRate, ApplyWeight, ClearThrottle, CountFailure, ThrottleInDB,
     RememberThrottle, RejectCredential, DisableInDB, CheckUnauthorized,
     SpawnValidation, ValidateCredential, VerifyUsable, FinishValidation,
     FetchQuota, ApplyStoredQuota, UpsertQuota, AfterStoreQuota, MergeQuota,
     PutQuota, AcquireSlot, MarkProbing, SpawnProbe, ProbeQuota, CompleteProbe,
     ReleaseSlot, ListAvailable, AdminSetStatus, SyncCredentials
  <2> QED
    BY <2>1, ConstantsAssumption DEF MemTyped, ConstantsAssumption
<1>1. throttle \in [Creds -> [Tiers -> [n : 0 .. Threshold, until : Times]]]
  BY DEF TypeInv, MemTyped
<1>2. NoState.until = 0
  BY DEF NoState
<1>3. CASE CheckUnauthorized(p)
  <2>1. /\ missed'[u] = missed[u] \cup {me[p].c} /\ checking' = checking \cup {me[p].c}
    BY <1>0, <1>3 DEF CheckUnauthorized, Overtake, RebuildPCs
  <2>2. \A t \in Tiers : throttle'[c][t] = throttle[c][t] \/ throttle'[c][t] = NoState
    BY <1>1, <1>3 DEF CheckUnauthorized, ClearedStates
  <2> QED
    BY <1>0, <1>2, <2>1, <2>2 DEF Throttled
<1>4. CASE RememberThrottle(p)
  <2>1. /\ checking' = checking
        /\ missed'[u] = IF me[u].pc = "store" THEN missed[u] \cup {me[p].c} ELSE missed[u]
    BY <1>0, <1>4 DEF RememberThrottle, Overtake
  <2>2. c # me[p].c => throttle'[c] = throttle[c]
    BY <1>1, <1>4 DEF RememberThrottle, SetState
  <2> QED
    BY <1>0, <2>1, <2>2 DEF Throttled
<1>5. CASE StoreRows(p)
  BY <1>0, <1>5 DEF StoreRows, memory, Throttled
<1>6. CASE ClearThrottle(p) \/ ClearExpired(p) \/ RejectCredential(p)
  <2>1. checking' \subseteq checking /\ missed' = missed
    BY <1>6 DEF ClearThrottle, ClearExpired, RejectCredential
  <2>2. \A t \in Tiers : throttle'[c][t] = throttle[c][t] \/ throttle'[c][t] = NoState
    BY <1>1, <1>6 DEF ClearThrottle, ClearExpired, RejectCredential, SetState, ClearedStates
  <2> QED
    BY <1>0, <1>2, <2>1, <2>2 DEF Throttled
<1>7. CASE CountFailure(p)
  <2>1. checking' = checking /\ missed' = missed
    BY <1>7 DEF CountFailure
  <2>2. PICK n : throttle' = [throttle EXCEPT ![me[p].c][me[p].t] = [@ EXCEPT !.n = n]]
    BY <1>7 DEF CountFailure, SetState, StateOf
  <2>3. \A t \in Tiers : throttle'[c][t].until = throttle[c][t].until
    BY <1>1, <2>2
  <2> QED
    BY <1>0, <2>1, <2>3 DEF Throttled
<1>8. CASE FinishValidation(p)
  BY <1>0, <1>8 DEF FinishValidation, Throttled
<1>9. CASE UNCHANGED <<throttle, checking, missed>>
  BY <1>0, <1>9 DEF Throttled
<1> QED
  BY <1>3, <1>4, <1>5, <1>6, <1>7, <1>8, <1>9 DEF Step, memory,
     EnterRefresh, ListRows, BuildRows, MergeThrottles,
     Load, EvictStore, SuspendStore, ThrottleStore, EditNothing, LogRequest,
     ComputeRate, ApplyWeight, ThrottleInDB, DisableInDB,
     SpawnValidation, ValidateCredential, VerifyUsable,
     FetchQuota, ApplyStoredQuota, UpsertQuota, AfterStoreQuota, MergeQuota,
     PutQuota, AcquireSlot, MarkProbing, SpawnProbe, ProbeQuota, CompleteProbe,
     ReleaseSlot, ListAvailable, AdminSetStatus, SyncCredentials

LEMMA RebuildsKnowStep ==
  ASSUME PostInv, TypeInv, RebuildsKnow, NEW p \in Procs, Step(p)
  PROVE  RebuildsKnow'
<1> SUFFICES ASSUME NEW u \in Procs, me'[u].pc \in RebuildPCs
             PROVE  /\ KnowsChecked(u)' /\ me'[u].at <= clock'
                    /\ me'[u].pc = "store" => KnowsThrottled(u)'
  BY DEF RebuildsKnow, RebuildPCs
<1>0. /\ me = [v \in Procs |-> me[v]] /\ Frame(me[u]) /\ Typed(me[u])
      /\ clock' = clock /\ clock \in Nat
  <2>1. MemTyped /\ clock' = clock
    BY DEF TypeInv, Step, EnterRefresh, ListRows, BuildRows, MergeThrottles,
     StoreRows, ClearExpired,
     Load, EvictStore, SuspendStore, ThrottleStore, EditNothing, LogRequest,
     ComputeRate, ApplyWeight, ClearThrottle, CountFailure, ThrottleInDB,
     RememberThrottle, RejectCredential, DisableInDB, CheckUnauthorized,
     SpawnValidation, ValidateCredential, VerifyUsable, FinishValidation,
     FetchQuota, ApplyStoredQuota, UpsertQuota, AfterStoreQuota, MergeQuota,
     PutQuota, AcquireSlot, MarkProbing, SpawnProbe, ProbeQuota, CompleteProbe,
     ReleaseSlot, ListAvailable, AdminSetStatus, SyncCredentials
  <2> QED
    BY <2>1, ConstantsAssumption DEF MemTyped, ConstantsAssumption, PostInv, ControlInv,
       Flow, Framed, TypeInv, AllTyped
<1>1. CASE u = p /\ BuildRows(p)
  <2>1. PICK w : /\ me'[u] = [me[u] EXCEPT !.pc = "merge", !.at = clock, !.work = w]
                 /\ DOMAIN w = DOMAIN me[u].work \ checking
    <3> DEFINE w == [c \in DOMAIN me[u].work \ checking |-> [t \in Tiers |->
                      LET slot == me[u].work[c][t] IN Scored(slot, slot.live, clock)]]
    <3>1. me' = [me EXCEPT ![u] = [@ EXCEPT !.pc = "merge", !.at = clock, !.work = w]]
      BY <1>1 DEF BuildRows, Unchecked
    <3>2. DOMAIN w = DOMAIN me[u].work \ checking
      OBVIOUS
    <3> HIDE DEF w
    <3> QED
      BY <1>0, <3>1, <3>2
  <2>2. me'[u].pc = "merge" /\ me'[u].at = clock /\ me'[u].work = w
    BY <1>0, <2>1 DEF Frame
  <2>3. checking' = checking
    BY <1>1 DEF BuildRows, memory
  <2> QED
    BY <1>0, <2>1, <2>2, <2>3 DEF KnowsChecked
<1>2. CASE u = p /\ MergeThrottles(p)
  <2>0. /\ me[u].pc = "merge" /\ KnowsChecked(u) /\ me[u].at <= clock /\ me[u].at \in Nat
        /\ me[u].work \in Snapshots
    BY <1>0, <1>2, ConstantsAssumption DEF MergeThrottles, At, RebuildsKnow, RebuildPCs,
       Typed, Holds, WorkPCs, Times, ConstantsAssumption
  <2> DEFINE w == [c \in DOMAIN me[u].work |-> [t \in Tiers |->
                    Merged(me[u].work[c][t], throttle[c][t].until, me[u].at, logs[c][t])]]
  <2>1. me' = [me EXCEPT ![u] = [@ EXCEPT !.pc = "store", !.work = w]]
    BY <1>2 DEF MergeThrottles
  <2>2. me'[u] = [me[u] EXCEPT !.pc = "store", !.work = w]
    BY <1>0, <2>1
  <2>3. /\ me'[u].pc = "store" /\ me'[u].at = me[u].at /\ me'[u].work = w
    BY <1>0, <2>2 DEF Frame
  <2>4. UNCHANGED <<checking, missed, throttle>>
    BY <1>2 DEF MergeThrottles, memory
  <2>5. ASSUME NEW c \in DOMAIN me[u].work, NEW t \in Tiers, w[c][t].up PROVE ~Throttled(c, t)
    <3>1. me[u].work[c][t] \in Slots /\ c \in Creds
      BY <2>0, SnapshotRows
    <3>2. ~(me[u].at < throttle[c][t].until)
      BY <2>5, <3>1 DEF Merged, Slots
    <3>3. throttle[c][t].until \in Nat
      BY <3>1, ConstantsAssumption DEF TypeInv, MemTyped, Times, ConstantsAssumption
    <3> QED
      BY <1>0, <2>0, <3>2, <3>3 DEF Throttled
  <2>6. DOMAIN w = DOMAIN me[u].work
    OBVIOUS
  <2> HIDE DEF w
  <2> QED
    BY <1>0, <2>0, <2>3, <2>4, <2>5, <2>6 DEF KnowsChecked, KnowsThrottled, Throttled
<1>3. CASE me'[u] = me[u]
  <2>1. ~(u = p /\ StoreRows(p))
    BY <1>0, <1>3 DEF StoreRows, At, Frame, RebuildPCs
  <2>2. /\ KnowsChecked(u) /\ me[u].at <= clock
        /\ me[u].pc = "store" => KnowsThrottled(u)
        /\ me[u].work \in Snapshots /\ me[u].pc \in RebuildPCs
    BY <1>0, <1>3 DEF RebuildsKnow, RebuildPCs, Typed, Holds, WorkPCs
  <2>3. \A c \in DOMAIN me[u].work :
          /\ c \in missed[u] => c \in missed'[u]
          /\ c \in checking' /\ c \notin checking => c \in missed'[u]
          /\ \A t \in Tiers : me[u].pc = "store" /\ Throttled(c, t)' /\ ~Throttled(c, t)
                => c \in missed'[u]
    BY <2>1, <2>2, SnapshotRows, NewsComes
  <2>4. KnowsChecked(u)'
    BY <1>3, <2>2, <2>3 DEF KnowsChecked
  <2>5. me'[u].pc = "store" => KnowsThrottled(u)'
    BY <1>3, <2>2, <2>3 DEF KnowsThrottled
  <2> QED
    BY <1>0, <1>3, <2>2, <2>4, <2>5
<1> QED
  BY <1>1, <1>2, <1>3, RebuildMoves

LEMMA RebuildInvariant == Spec => []RebuildsKnow
<1>1. Init => RebuildsKnow
  BY DEF Init, RebuildsKnow, Idle, RebuildPCs
<1>2. PostInv /\ TypeInv /\ RebuildsKnow /\ [Next]_vars => RebuildsKnow'
  <2> SUFFICES ASSUME PostInv, TypeInv, RebuildsKnow, [Next]_vars PROVE RebuildsKnow'
    OBVIOUS
  <2>1. CASE UNCHANGED <<throttle, checking, missed>> /\ clock' >= clock /\
             \A u \in Procs : me'[u].pc \in RebuildPCs => me'[u] = me[u]
    <3>1. clock \in Nat /\ clock' >= clock /\ clock' \in Nat
      BY <2>1, TypeStep, ConstantsAssumption DEF TypeInv, MemTyped, ConstantsAssumption
    <3> SUFFICES ASSUME NEW u \in Procs, me'[u].pc \in RebuildPCs
                 PROVE  /\ KnowsChecked(u)' /\ me'[u].at <= clock'
                        /\ me'[u].pc = "store" => KnowsThrottled(u)'
      BY DEF RebuildsKnow, RebuildPCs
    <3>2. /\ KnowsChecked(u) /\ me[u].at <= clock
          /\ me[u].pc = "store" => KnowsThrottled(u)
          /\ me[u].work \in Snapshots /\ me'[u] = me[u] /\ me[u].at \in Nat
      BY <2>1, ConstantsAssumption DEF RebuildsKnow, TypeInv, AllTyped, Typed, Holds, WorkPCs,
         RebuildPCs, Times, ConstantsAssumption
    <3>3. \A c \in DOMAIN me[u].work, t \in Tiers : Throttled(c, t)' => Throttled(c, t)
      <4> SUFFICES ASSUME NEW c \in DOMAIN me[u].work, NEW t \in Tiers, Throttled(c, t)'
                   PROVE  Throttled(c, t)
        OBVIOUS
      <4>1. throttle[c][t].until \in Nat
        BY <3>2, SnapshotRows, ConstantsAssumption DEF TypeInv, MemTyped, Times,
           ConstantsAssumption
      <4> QED
        BY <2>1, <3>1, <4>1 DEF Throttled
    <3> QED
      BY <2>1, <3>1, <3>2, <3>3 DEF KnowsChecked, KnowsThrottled
  <2>2. CASE Tick \/ UNCHANGED vars \/ \E j \in spawned : Superseded(j)
    <3>1. clock' >= clock
      BY <2>2, ConstantsAssumption DEF Tick, vars, Superseded, TypeInv, MemTyped,
         ConstantsAssumption
    <3> QED
      BY <2>1, <2>2, <3>1 DEF Tick, vars, Superseded, memory
  <2>3. ASSUME NEW p \in Procs, NEW op \in Ops \cup {"probe", "validate", "import", "refresh"},
               \A u \in Procs \ {p} : me'[u] = me[u],
               me'[p].pc = First[op], UNCHANGED <<memory, missed, clock>>
        PROVE  RebuildsKnow'
    <3>1. First[op] \notin RebuildPCs
      BY ConstantsAssumption DEF First, RebuildPCs, ConstantsAssumption, AllOps
    <3>2. clock' >= clock
      BY <2>3, ConstantsAssumption DEF TypeInv, MemTyped, ConstantsAssumption
    <3> QED
      BY <2>1, <2>3, <3>1, <3>2 DEF memory
  <2>4. ASSUME NEW j \in spawned, NEW p \in Procs, StartJob(p, j) PROVE RebuildsKnow'
    <3>1. UNCHANGED <<memory, missed, clock>>
      BY <2>4 DEF StartJob
    <3> QED
      BY <2>3, <2>4, <3>1, JobNames, RunPosts DEF AllOps
  <2>5. ASSUME NEW p \in Procs, NEW op \in Ops, Start(p, op) PROVE RebuildsKnow'
    <3>1. UNCHANGED <<memory, missed, clock>>
      BY <2>5 DEF Start
    <3> QED
      BY <2>3, <2>5, <3>1, StartNames, RunPosts DEF AllOps
  <2> QED
    BY <2>2, <2>4, <2>5, RebuildsKnowStep DEF Next
<1> QED
  BY <1>1, <1>2, PostInvariant, TypeInvariant, PTL DEF Spec

\* The pool takes a row, or lifts a slot, only where it is stored as a whole or
\* scored from a quota.
Stores(p) == StoreRows(p) \/ EvictStore(p) \/ SuspendStore(p) \/ ThrottleStore(p)

LEMMA StoresCarry ==
  ASSUME NEW p \in Procs, Stores(p), NEW c, InPool(c)'
  PROVE  c \in DOMAIN me[p].work
<1>1. CASE StoreRows(p)
  BY <1>1 DEF StoreRows, InPool
<1>2. CASE EvictStore(p)
  BY <1>2 DEF EvictStore, InPool
<1>3. CASE SuspendStore(p) \/ ThrottleStore(p)
  BY <1>3 DEF SuspendStore, ThrottleStore, Edited, InPool
<1> QED
  BY <1>1, <1>2, <1>3 DEF Stores

LEMMA EditsInPlace ==
  ASSUME PostInv, TypeInv, [Next]_vars, \A p \in Procs : ~Stores(p), NEW c
  PROVE  /\ InPool(c)' => InPool(c)
         /\ \A t \in Tiers : InPool(c) /\ avail[c][t].until > clock /\ Up(c, t)' => Up(c, t)
<1> SUFFICES ASSUME InPool(c)'
             PROVE  /\ InPool(c)
                    /\ \A t \in Tiers : avail[c][t].until > clock /\ Up(c, t)' => Up(c, t)
  BY DEF Up
<1>1. CASE UNCHANGED avail
  BY <1>1 DEF Up, InPool
<1>2. ASSUME NEW x, NEW q, ApplyQuota(x, q), avail # None
      PROVE  /\ InPool(c)
             /\ \A t \in Tiers : avail[c][t].until > clock /\ Up(c, t)' => Up(c, t)
  <2>1. CASE ~InPool(x)
    BY <1>1, <1>2, <2>1 DEF ApplyQuota
  <2>2. CASE InPool(x)
    <3> DEFINE row == [t \in Tiers |-> Scored(avail[x][t], q[t] = "live", clock)]
    <3>1. avail' = [avail EXCEPT ![x] = row]
      BY <1>2, <2>2 DEF ApplyQuota
    <3>2. PICK C \in SUBSET Creds : avail \in [C -> Rows]
      BY <2>2 DEF TypeInv, PoolTyped, InPool, Snapshots
    <3>3. \A t \in Tiers : row[t] = Scored(avail[x][t], q[t] = "live", clock)
      OBVIOUS
    <3> HIDE DEF row
    <3>4. InPool(c) /\ avail'[c] = IF c = x THEN row ELSE avail[c]
      BY <1>2, <3>1, <3>2 DEF InPool
    <3> SUFFICES ASSUME NEW t \in Tiers, avail[c][t].until > clock, Up(c, t)'
                 PROVE  Up(c, t)
      BY <3>4
    <3>5. CASE c # x
      BY <3>4, <3>5 DEF Up
    <3>6. CASE c = x
      <4>1. avail[c][t] \in Slots /\ row[t].up /\ row[t] = Scored(avail[c][t], q[t] = "live", clock)
        BY <3>2, <3>3, <3>4, <3>6 DEF Up, InPool, Rows
      <4>2. clock >= avail[c][t].until
        BY <4>1 DEF Scored, Slots
      <4>3. clock \in Nat /\ avail[c][t].until \in Nat
        BY <4>1, ConstantsAssumption DEF TypeInv, MemTyped, Slots, Times, ConstantsAssumption
      <4> QED
        BY <4>2, <4>3
    <3> QED
      BY <3>5, <3>6
  <2> QED
    BY <2>1, <2>2
<1>3. ASSUME NEW p \in Procs, ApplyStoredQuota(p) \/ PutQuota(p)
      PROVE  ApplyQuota(me[p].c, me[p].q)
  BY <1>3 DEF ApplyStoredQuota, PutQuota
<1>4. ASSUME NEW p \in Procs, ApplyWeight(p), avail # None
      PROVE  /\ InPool(c)
             /\ \A t \in Tiers : avail[c][t].until > clock /\ Up(c, t)' => Up(c, t)
  <2>1. PICK C \in SUBSET Creds : avail \in [C -> Rows]
    BY <1>4 DEF TypeInv, PoolTyped, Snapshots
  <2>2. avail' = IF InPool(me[p].c) THEN [avail EXCEPT ![me[p].c][me[p].t].fair = me[p].hit]
                                    ELSE avail
    BY <1>4 DEF ApplyWeight
  <2>3. InPool(c)
    BY <2>1, <2>2, <1>4 DEF InPool
  <2>4. \A t \in Tiers : avail'[c][t].up = avail[c][t].up
    BY <2>1, <2>2, <2>3 DEF InPool, Rows, Slots
  <2> QED
    BY <2>3, <2>4 DEF Up
<1>5. UNCHANGED avail \/ \E p \in Procs : ApplyStoredQuota(p) \/ PutQuota(p) \/ ApplyWeight(p)
  <2>1. CASE Tick \/ UNCHANGED vars \/ \E j \in spawned : Superseded(j)
    BY <2>1 DEF Tick, vars, Superseded
  <2>2. CASE \E p \in Procs : (\E j \in spawned : StartJob(p, j)) \/ \E op \in Ops : Start(p, op)
    BY <2>2 DEF StartJob, Start
  <2>3. ASSUME NEW p \in Procs, Step(p)
        PROVE  UNCHANGED avail \/ ApplyStoredQuota(p) \/ PutQuota(p) \/ ApplyWeight(p)
    BY <2>3 DEF Stores, Step, EnterRefresh, ListRows, BuildRows, MergeThrottles, ClearExpired,
     Load, EditNothing, LogRequest, ComputeRate, ClearThrottle, CountFailure, ThrottleInDB,
     RememberThrottle, RejectCredential, DisableInDB, CheckUnauthorized, SpawnValidation,
     ValidateCredential, VerifyUsable, FinishValidation, FetchQuota, UpsertQuota,
     AfterStoreQuota, MergeQuota, AcquireSlot, MarkProbing, SpawnProbe, ProbeQuota,
     CompleteProbe, ReleaseSlot, ListAvailable, AdminSetStatus, SyncCredentials
  <2> QED
    BY <2>1, <2>2, <2>3 DEF Next
<1>6. CASE avail = None
  BY <1>1, <1>3, <1>5, <1>6 DEF ApplyQuota, ApplyWeight, InPool
<1> QED
  BY <1>1, <1>2, <1>3, <1>4, <1>5, <1>6

LEMMA StoredAtTheirPlace ==
  ASSUME NEW p \in Procs, StoreRows(p)
  PROVE  me[p].pc = "store" /\ me[p].pc \in RebuildPCs /\ avail' = me[p].work
  BY DEF StoreRows, At, RebuildPCs

\* A credential under validation is not let back into the snapshot by what the
\* scheduler learns meanwhile: only by a rebuild that had looked before the 401,
\* or an edit that puts a snapshot back which it had copied.
THEOREM CheckedStayOut == Spec => ReadmittedOnlyIfMissed
<1>1. PostInv /\ TypeInv /\ RebuildsKnow /\ [Next]_vars =>
        [\A c \in Creds :
           c \in checking /\ c \in checking' /\ ~InPool(c) /\ InPool(c)' =>
             \E p \in Procs : StoredStale(p, c)]_vars
  <2> SUFFICES ASSUME PostInv, TypeInv, RebuildsKnow, [Next]_vars, NEW c \in Creds,
                      c \in checking, ~InPool(c), InPool(c)'
               PROVE  \E p \in Procs : StoredStale(p, c)
    OBVIOUS
  <2>1. PICK p \in Procs : Stores(p)
    BY EditsInPlace
  <2>2. c \in DOMAIN me[p].work
    BY <2>1, StoresCarry
  <2>3. CASE StoreRows(p)
    BY <2>2, <2>3, StoredAtTheirPlace DEF RebuildsKnow, KnowsChecked, StoredStale
  <2> QED
    BY <2>1, <2>2, <2>3 DEF Stores, StoredStale
<1> QED
  BY <1>1, PostInvariant, TypeInvariant, RebuildInvariant, PTL DEF Spec, ReadmittedOnlyIfMissed

\* A slot that carries an open window is not lifted by a quota, a weight or any
\* other tier's event: only by a rebuild that had merged the windows before this
\* one was recorded, or an edit that puts a snapshot back which it had copied.
THEOREM OpenWindowsHold == Spec => LiftedOnlyIfMissed
<1>1. PostInv /\ TypeInv /\ RebuildsKnow /\ [Next]_vars =>
        [\A c \in Creds, t \in Tiers :
           /\ Throttled(c, t) /\ Throttled(c, t)'
           /\ \A p \in Procs : ~Recording(p, c, t)
           /\ InPool(c) /\ ~Up(c, t) /\ avail[c][t].until > clock
           /\ Up(c, t)'
           => \E p \in Procs : StoredStale(p, c)]_vars
  <2> SUFFICES ASSUME PostInv, TypeInv, RebuildsKnow, [Next]_vars, NEW c \in Creds,
                      NEW t \in Tiers, Throttled(c, t), InPool(c), ~Up(c, t),
                      avail[c][t].until > clock, Up(c, t)'
               PROVE  \E p \in Procs : StoredStale(p, c)
    OBVIOUS
  <2>1. PICK p \in Procs : Stores(p)
    BY EditsInPlace
  <2>2. c \in DOMAIN me[p].work
    BY <2>1, StoresCarry DEF Up
  <2>3. CASE StoreRows(p)
    <3>1. me[p].work[c][t].up
      BY <2>3, StoredAtTheirPlace DEF Up
    <3> QED
      BY <2>2, <2>3, <3>1, StoredAtTheirPlace DEF RebuildsKnow, KnowsThrottled, StoredStale
  <2> QED
    BY <2>1, <2>2, <2>3 DEF Stores, StoredStale
<1> QED
  BY <1>1, PostInvariant, TypeInvariant, RebuildInvariant, PTL DEF Spec, LiftedOnlyIfMissed

=============================================================================
