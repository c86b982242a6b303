----------------------------- MODULE ImportJobs -----------------------------
(***************************************************************************)
(* Imports of credentials (internal/handler/admin_import_jobs.go): a       *)
(* request starts a job and is answered at once; the job's goroutine hands *)
(* the tokens over an unbuffered channel to its workers, closes it, waits  *)
(* for them and finishes the job.  The console lists the jobs and          *)
(* acknowledges those that are completed, which forgets them.              *)
(*                                                                         *)
(* Tokens are counted.  What a worker does with one (admin_codex.go,       *)
(* admin_gemini.go, admin_antigravity.go) either writes a credential or    *)
(* fails; the hook that follows tells the scheduler of it.  An import for  *)
(* OpenCode, which finds several keys by one token and tells of them       *)
(* before it returns, is left out.                                         *)
(***************************************************************************)
EXTENDS Naturals, FiniteSets

CONSTANTS Jobs,        (* ids of jobs; one is drawn anew when it is free    *)
          None,        (* not a job                                         *)
          MaxTokens,   (* bound: tokens of an import                        *)
          MaxWorkers   (* bound: the setting ImportConcurrency              *)

VARIABLES
  jobs,     (* importJobManager.jobs: each job's snapshot, or None          *)
  run,      (* job.run and its workers                                      *)
  told      (* credentials of each job: written, and told to the scheduler  *)

vars == <<jobs, run, told>>

Snapshots == [status : {"running", "completed"}, total : 0 .. MaxTokens,
              processed : 0 .. MaxTokens, succeeded : 0 .. MaxTokens, errors : 0 .. MaxTokens]

Idle == [left |-> 0, open |-> FALSE, worker |-> << >>]

Init ==
  /\ jobs = [j \in Jobs |-> None]
  /\ run  = [j \in Jobs |-> Idle]
  /\ told = [j \in Jobs |-> [written |-> 0, synced |-> 0]]

Smaller(m, n) == IF m < n THEN m ELSE n

\* Start: without tokens the job is finished at once, else its goroutine starts
\* min(workerCap, tokens) workers.
Start(j, total, cap) ==
  /\ jobs[j] = None /\ run[j] = Idle
  /\ jobs' = [jobs EXCEPT ![j] = [status |-> IF total = 0 THEN "completed" ELSE "running",
                                  total |-> total, processed |-> 0, succeeded |-> 0, errors |-> 0]]
  /\ run' = [run EXCEPT ![j] = IF total = 0 THEN Idle
                               ELSE [left |-> total, open |-> TRUE,
                                     worker |-> [w \in 1 .. Smaller(cap, total) |-> "receive"]]]
  /\ told' = [told EXCEPT ![j] = [written |-> 0, synced |-> 0]]

Workers(j)     == DOMAIN run[j].worker
WorkerAt(j, w, l) == w \in Workers(j) /\ run[j].worker[w] = l
Goto(j, w, l)  == run' = [run EXCEPT ![j].worker[w] = l]

\* tokenCh <- token meets a worker's receive.
Hand(j, w) ==
  /\ run[j].left > 0 /\ WorkerAt(j, w, "receive")
  /\ run' = [run EXCEPT ![j].left = @ - 1, ![j].worker[w] = "process"]
  /\ UNCHANGED <<jobs, told>>
CloseChannel(j) ==
  /\ run[j].open /\ run[j].left = 0
  /\ run' = [run EXCEPT ![j].open = FALSE]
  /\ UNCHANGED <<jobs, told>>

\* process: a credential is written, or not.
Process(j, w) ==
  /\ WorkerAt(j, w, "process")
  /\ \/ Goto(j, w, "created") /\ told' = [told EXCEPT ![j].written = @ + 1]
     \/ Goto(j, w, "failed") /\ UNCHANGED told
  /\ UNCHANGED jobs

RecordCreated(j, w) ==
  /\ WorkerAt(j, w, "created") /\ Goto(j, w, "hook")
  /\ jobs' = [jobs EXCEPT ![j].processed = @ + 1, ![j].succeeded = @ + 1]
  /\ UNCHANGED told
RecordError(j, w) ==
  /\ WorkerAt(j, w, "failed") /\ Goto(j, w, "receive")
  /\ jobs' = [jobs EXCEPT ![j].processed = @ + 1, ![j].errors = @ + 1]
  /\ UNCHANGED told

\* onCreated: caches invalidated, quotas synced.
OnCreated(j, w) ==
  /\ WorkerAt(j, w, "hook") /\ Goto(j, w, "receive")
  /\ told' = [told EXCEPT ![j].synced = @ + 1]
  /\ UNCHANGED jobs

\* The range over a closed channel ends; wg.Done.
WorkerDone(j, w) ==
  /\ WorkerAt(j, w, "receive") /\ ~run[j].open /\ Goto(j, w, "done")
  /\ UNCHANGED <<jobs, told>>

\* wg.Wait.  Mutant: the job's end is not held up by its workers.
ChannelClosed(j) == ~run[j].open
AllDone(j) == ~run[j].open /\ \A w \in Workers(j) : WorkerAt(j, w, "done")

Finish(j) ==
  /\ run[j] # Idle /\ AllDone(j)
  /\ run' = [run EXCEPT ![j] = Idle]
  /\ jobs' = [jobs EXCEPT ![j].status = "completed"]
  /\ UNCHANGED told

\* Acknowledge, under the table's lock; a job that runs is refused.
Acknowledge(j) ==
  /\ jobs[j] # None /\ jobs[j].status = "completed"
  /\ jobs' = [jobs EXCEPT ![j] = None]
  /\ UNCHANGED <<run, told>>

Next ==
  \E j \in Jobs :
    \/ \E total \in 0 .. MaxTokens, cap \in 1 .. MaxWorkers : Start(j, total, cap)
    \/ \E w \in Workers(j) :
         \/ Hand(j, w) \/ Process(j, w) \/ RecordCreated(j, w) \/ RecordError(j, w)
         \/ OnCreated(j, w) \/ WorkerDone(j, w)
    \/ CloseChannel(j) \/ Finish(j) \/ Acknowledge(j)

Spec == Init /\ [][Next]_vars

-----------------------------------------------------------------------------
(* Properties *)

TypeOK ==
  /\ jobs \in [Jobs -> Snapshots \cup {None}]
  /\ \A j \in Jobs :
       /\ run[j].left \in 0 .. MaxTokens /\ run[j].open \in BOOLEAN
       /\ \A w \in Workers(j) : run[j].worker[w]
            \in {"receive", "process", "created", "failed", "hook", "done"}
       /\ told[j].written \in 0 .. MaxTokens /\ told[j].synced \in 0 .. MaxTokens

\* What the console shows of a job adds up at any time, and a job that it shows
\* completed, and may forget, is: every token has come to an end, and every
\* credential that was written is counted and known to the scheduler.
CompletedIsWhole ==
  \A j \in Jobs :
    IF jobs[j] = None THEN run[j] = Idle
    ELSE /\ jobs[j].processed = jobs[j].succeeded + jobs[j].errors
         /\ jobs[j].processed <= jobs[j].total
         /\ jobs[j].status = "completed" =>
              /\ jobs[j].processed = jobs[j].total /\ run[j] = Idle
              /\ told[j].written = jobs[j].succeeded /\ told[j].synced = told[j].written
=============================================================================
