------------------------------- MODULE MCTables -------------------------------
(* Instances for TLC of the modules of state that is shared in memory or in  *)
(* the database, beside the pools: keys, affinity, a stream, the loops,       *)
(* settings, the stores, the log, imports, models, and what the schedulers    *)
(* share.  They have no state in common: one of them, `part`, moves in a      *)
(* behaviour, and the others stay where they began.                           *)
EXTENDS AdminKeys, TLC

CONSTANTS Readers, Buckets, Elements, MaxLen, Creds, None, HeapThreshold, MaxBind,
          MaxItems, MaxParts, Rows, Intervals, MaxReloads, MaxClock, Admins,
          Ids, Providers, MaxWrites, MaxTicks,
          Limits, Retention, CompactAt, MaxLogClock, MaxTokens, MaxWorkers, NoEntry,
          Scores, MaxRows, Threshold, MaxFailures, Backoffs, RetryAfters

\* None is not the snapshot of a job.
ASSUME NoneAssumption ==
  None \notin [status : {"running", "completed"}, total : Nat, processed : Nat,
               succeeded : Nat, errors : Nat]

\* The settings are kept above zero (normalized): days of retention, and rows.
ASSUME LogAssumption ==
  Retention \in Nat \ {0} /\ Limits \subseteq Nat /\ MaxLogClock \in Nat

\* The intervals are kept above zero too (Normalize).
ASSUME LoopsAssumption == Intervals \subseteq Nat \ {0} /\ MaxClock \in Nat

\* The providers that keep credentials in the database.  The clock starts at 2 (Stores).
ASSUME StoresAssumption ==
  /\ Providers \subseteq {"codex", "gemini", "antigravity", "opencode"}
  /\ MaxWrites \in Nat /\ MaxTicks \in Nat \ {0, 1}

\* Durations are whole seconds in nanoseconds, so they have a half, and the settings
\* keep them above zero.
ASSUME SchedulingAssumption ==
  /\ Scores \subseteq Int /\ MaxRows \in Nat /\ RetryAfters \subseteq Nat
  /\ Threshold \in Nat \ {0} /\ MaxFailures \in Nat
  /\ \A b \in Backoffs : b \in Nat \ {0} /\ b % 2 = 0

VARIABLES
  trie, sequence, entries, deleted, binder, reader,
  provider, up, line, state, writer, client,
  interval, changed, clock, table, scores, syncer, rows, batch, passed,
  stored, current, admin, unseen,
  handler, time, sqlite, postgres, writes, refused,
  store, limit, logClock, logReader,
  jobs, run, told,
  models, resolved, load, editor, outdated,
  ranked, best, bestCount, failures, backoff, explicit, limits,
  part

\* Bound: conversations of up to MaxLen elements after the fixed prefix.
Paths == UNION {[1 .. n -> Elements] : n \in 0 .. MaxLen}

C  == INSTANCE ContentAffinity
S  == INSTANCE ResponseStream
L  == INSTANCE BackgroundLoops
St == INSTANCE Settings WITH Values <- Intervals
D  == INSTANCE Stores
R  == INSTANCE RequestLog WITH clock <- logClock, reader <- logReader,
                               NoAnswer <- None, MaxClock <- MaxLogClock
I  == INSTANCE ImportJobs WITH Jobs <- Ids
M  == INSTANCE ModelTable WITH Aliases <- Ids, Origins <- Ids, Missing <- None,
                               table <- models, cache <- resolved, admin <- editor
Sc == INSTANCE Scheduling WITH rows <- ranked

\* The threshold is above zero, and None is none of the values in a bucket that it
\* stands in for (ContentAffinity).
ASSUME AffinityAssumption ==
  LET key     == [at : Paths, seq : 0 .. MaxBind]
      heap(P) == [P -> key \cup {None}]
      node    == [terminal : BOOLEAN, cred : Creds \cup {None}, seq : 0 .. MaxBind,
                  nearest : Paths \cup {None},
                  heap : (UNION {heap(P) : P \in SUBSET Paths}) \cup {None}]
  IN /\ MaxLen \in Nat /\ HeapThreshold \in Nat \ {0} /\ MaxBind \in Nat
     /\ None \notin Creds /\ None \notin Paths /\ None \notin key /\ None \notin C!Bindings
     /\ \A P \in SUBSET Paths : None \notin heap(P) /\ None \notin [P -> node]

admins    == <<keys, cache, job, pc, read, requests, behind>>
affinity  == <<trie, sequence, entries, deleted, binder, reader>>
stream    == <<provider, up, line, state, writer, client>>
loops     == <<interval, changed, clock, table, scores, syncer, rows, batch, passed>>
settings  == <<stored, current, admin, unseen>>
databases == <<handler, time, sqlite, postgres, writes, refused>>
log       == <<store, limit, logClock, logReader>>
imports   == <<jobs, run, told>>
aliases   == <<models, resolved, load, editor, outdated>>
scoring   == <<ranked, best, bestCount, failures, backoff, explicit, limits>>
tables    == <<admins, affinity, stream, loops, settings, databases, log, imports,
               aliases, scoring, part>>

\* A part that does not move has one initial state.
TablesInit ==
  /\ part \in {"admins", "affinity", "stream", "loops", "settings", "databases", "log",
               "imports", "models", "scoring"}
  /\ Init /\ (part = "admins" \/ keys = Empty)
  /\ C!Init
  /\ S!Init /\ (part = "stream" \/ provider = "codex")
  /\ L!Init /\ (part = "loops" \/ (table = << >> /\ interval = 1))
  /\ St!Init /\ (part = "settings" \/ stored = [n \in St!Names |-> 1])
  /\ D!Init /\ (part = "databases" \/ handler = "codex")
  /\ R!Init /\ (part = "log" \/ \A n \in Limits : limit <= n)
  /\ I!Init /\ M!Init
  /\ Sc!Init /\ (part = "scoring" \/ (bestCount = 1 /\ \A b \in Backoffs : limits.max <= b))

TablesNext ==
  /\ \/ /\ part = "admins" /\ Next
        /\ UNCHANGED <<affinity, stream, loops, settings, databases, log, imports, aliases, scoring>>
     \/ /\ part = "affinity" /\ C!Next
        /\ UNCHANGED <<admins, stream, loops, settings, databases, log, imports, aliases, scoring>>
     \/ /\ part = "stream" /\ S!Next
        /\ UNCHANGED <<admins, affinity, loops, settings, databases, log, imports, aliases, scoring>>
     \/ /\ part = "loops" /\ L!Next
        /\ UNCHANGED <<admins, affinity, stream, settings, databases, log, imports, aliases, scoring>>
     \/ /\ part = "settings" /\ St!Next
        /\ UNCHANGED <<admins, affinity, stream, loops, databases, log, imports, aliases, scoring>>
     \/ /\ part = "databases" /\ D!Next
        /\ UNCHANGED <<admins, affinity, stream, loops, settings, log, imports, aliases, scoring>>
     \/ /\ part = "log" /\ R!Next
        /\ UNCHANGED <<admins, affinity, stream, loops, settings, databases, imports, aliases, scoring>>
     \/ /\ part = "imports" /\ I!Next
        /\ UNCHANGED <<admins, affinity, stream, loops, settings, databases, log, aliases, scoring>>
     \/ /\ part = "models" /\ M!Next
        /\ UNCHANGED <<admins, affinity, stream, loops, settings, databases, log, imports, scoring>>
     \/ /\ part = "scoring" /\ Sc!Next
        /\ UNCHANGED <<admins, affinity, stream, loops, settings, databases, log, imports, aliases>>
  /\ UNCHANGED part

TablesSpec == TablesInit /\ [][TablesNext]_tables

\* These are told apart by equality only.  The parts move apart, so the same
\* values serve as credentials and servers, and the same others as elements, keys and
\* calls.
Symmetry == Permutations(Creds) \cup Permutations(Elements)

\* The values of the variables of the part that moves.
TablesTypeOK ==
  CASE part = "admins"    -> TypeOK
    [] part = "affinity"  -> C!TypeOK
    [] part = "stream"    -> S!TypeOK
    [] part = "loops"     -> L!TypeOK
    [] part = "settings"  -> St!TypeOK
    [] part = "databases" -> D!TypeOK
    [] part = "log"       -> R!TypeOK
    [] part = "imports"   -> I!TypeOK
    [] part = "models"    -> M!TypeOK
    [] part = "scoring"   -> Sc!TypeOK

\* A lookup finds what a scan of all bindings would (ContentAffinity).
LookupFindsNearest == part = "affinity" => C!LookupFindsNearest
\* What the trie keeps beside the bindings says the same as they do (ContentAffinity).
TrieInOrder == part = "affinity" => C!TrieInOrder
\* The trie is a flat map of bindings to its callers, who are given none that has
\* expired (ContentAffinity, FlatAffinity).
ImplementsFlat == C!ImplementsFlat
\* The client puts together what the upstream sent, and then the stream ends
\* (ResponseStream).
StreamTellsAll == part = "stream" => S!StreamTellsAll
\* A sleeping loop sleeps for the interval in force (BackgroundLoops).
AsleepOnCurrentInterval == part = "loops" => L!AsleepOnCurrentInterval
\* The quota syncer does not repeat a pass at once for nothing (BackgroundLoops).
NoBusyPass == L!NoBusyPass
\* An update of some settings undoes no change of another that its server had read
\* back (Settings).
SeenSettingsKept == St!SeenSettingsKept
\* Both databases answer the same (Stores).
StoresAgree == part = "databases" => D!StoresAgree
\* The next deadline covers every throttle that is reported (Stores).
DeadlineCoversThrottles == part = "databases" => D!DeadlineCoversThrottles
\* The log is a plain sequence to those who read it (RequestLog, PlainLog).
ImplementsPlainLog == R!ImplementsPlainLog
\* A job that is shown completed has come to the end of all it began (ImportJobs).
CompletedIsWhole == part = "imports" => I!CompletedIsWhole
\* A resolved model is the row, or the cache could not know (ModelTable).
ResolutionCurrent == part = "models" => M!ResolutionCurrent
\* The best candidates are kept, and backoffs double (Scheduling).
SchedulingAsDefined == part = "scoring" => Sc!SchedulingAsDefined
=============================================================================
