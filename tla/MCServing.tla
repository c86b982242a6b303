------------------------------ MODULE MCServing ------------------------------
(* Instances of Relay and of the three pools beside Codex's for TLC.  They    *)
(* share no state here: one of them, `part`, moves in a behaviour, and the    *)
(* others stay where they began.  Only one pool has state in a behaviour, so  *)
(* that the three can use the same variables.                                 *)
EXTENDS Relay, TLC

CONSTANTS Procs, PoolCreds, Threshold, MaxClock,
          PoolMixes, OpenCodeMixes (* operations that meet in one behaviour      *)

\* No goroutine and no credential is the absence of one; a threshold is a count.
ASSUME PoolAssumption ==
  Threshold \in Nat /\ MaxClock \in Nat /\ None \notin Procs \cup PoolCreds

VARIABLES
  clock, db, avail, throttle, checking, probing, flight, spawned, mix, me, missed,
  part

G  == INSTANCE GeminiPool WITH Creds <- PoolCreds, Mixes <- PoolMixes
An == INSTANCE AntigravityPool WITH Creds <- PoolCreds, Mixes <- PoolMixes
Oc == INSTANCE OpenCodePool WITH Creds <- PoolCreds, Mixes <- OpenCodeMixes

relay   == <<req, open, session, fillFirst, retries>>
pool    == <<clock, db, avail, throttle, checking, probing, flight, spawned, mix, me, missed>>
serving == <<relay, pool, part>>

\* Goroutines are told apart by equality only, and no fairness is about them.
Symmetry == Permutations(Procs)

\* A part that does not move has one initial state.
ServingInit ==
  /\ part \in {"relay", "gemini", "antigravity", "opencode"}
  /\ Init /\ (part = "relay" \/ retries = 0)
  /\ CASE part = "gemini"      -> G!Init
       [] part = "antigravity" -> An!Init /\ flight = None
       [] part = "opencode"    -> Oc!Init /\ checking = {}
       [] part = "relay" -> G!Init /\ mix = {"fail", "admin"} /\ \A c \in PoolCreds : db[c].on /\ db[c].synced

ServingNext ==
  /\ \/ part = "relay" /\ Next /\ UNCHANGED pool
     \/ /\ \/ part = "gemini" /\ G!Next
           \/ part = "antigravity" /\ An!Next /\ UNCHANGED flight
           \/ part = "opencode" /\ Oc!Next /\ UNCHANGED checking
        /\ UNCHANGED relay
  /\ UNCHANGED part

RelayStep(r) == part = "relay" /\ Step(r) /\ UNCHANGED <<pool, part>>

ServingSpec ==
  ServingInit /\ [][ServingNext]_serving /\ \A r \in Requests : WF_serving(RelayStep(r))

\* The values of the variables of the part that moves.
ServingTypeOK ==
  CASE part = "relay"       -> TypeOK
    [] part = "gemini"      -> G!TypeOK
    [] part = "antigravity" -> An!TypeOK
    [] part = "opencode"    -> Oc!TypeOK

\* What is barred from a pool, or in a throttle window, comes back by a rebuild
\* or an edit that had looked before only (GeminiPool, AntigravityPool,
\* OpenCodePool: BackOnlyIfMissed).
PoolsBackOnlyIfMissed ==
  [][CASE part = "gemini"      -> G!BackIfMissed
       [] part = "antigravity" -> An!BackIfMissed
       [] part = "opencode"    -> Oc!BackIfMissed
       [] part = "relay"       -> TRUE]_serving
=============================================================================
