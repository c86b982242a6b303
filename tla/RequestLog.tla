----------------------------- MODULE RequestLog -----------------------------
(***************************************************************************)
(* The log of requests (internal/logs/store.go): rows in the order of      *)
(* their insertion in a slice, of which those before `head` are garbage    *)
(* until compactLocked copies the others.  An insertion and a clearing     *)
(* hold mu; a reader looks under the read lock whether anything has        *)
(* expired, lets go of it, and then prunes and copies or only copies.      *)
(*                                                                         *)
(* A row is the time of its insertion and the credential it is about,      *)
(* which stands for the provider's handler too.  The settings keep the     *)
(* retention and the number of rows above zero (normalized); the retention *)
(* does not change in a behaviour.                                         *)
(***************************************************************************)
EXTENDS Naturals, Sequences, FiniteSets

CONSTANTS Creds,       (* credentials that rows are about                   *)
          Limits,      (* values of MaxLogRows                              *)
          Retention,   (* LogsRetention                                     *)
          CompactAt,   (* garbage that is always worth a copy (1024)        *)
          NoAnswer,
          MaxClock     (* bound: time stops there                           *)

VARIABLES
  store,    (* Store.rows and Store.head                                    *)
  limit,    (* the setting MaxLogRows                                       *)
  clock,
  reader    (* a call of QueryLogs or ErrorRatesForCredentials, its answer  *)

vars == <<store, limit, clock, reader>>

LogRows == [at : 0 .. MaxClock, of : Creds]
Visible(s) == SubSeq(s.rows, s.head + 1, Len(s.rows))
Empty == [rows |-> << >>, head |-> 0]

Init ==
  /\ store = Empty /\ clock = 0 /\ limit \in Limits
  /\ reader = [at |-> "idle", now |-> 0, answer |-> NoAnswer]

Expired(row, now) == row.at + Retention <= now

\* pruneLocked: head passes what has expired.
Prune(s, now) ==
  IF s.head >= Len(s.rows) THEN Empty
  ELSE [s EXCEPT !.head = CHOOSE h \in @ .. Len(s.rows) :
          /\ \A i \in @ + 1 .. h : Expired(s.rows[i], now)
          /\ h = Len(s.rows) \/ ~Expired(s.rows[h + 1], now)]

\* trimLocked: and what is over the limit.
Trim(s) ==
  IF Len(s.rows) - s.head <= limit THEN s
  ELSE [s EXCEPT !.head = Len(s.rows) - limit]

\* compactLocked: much garbage is left behind by a copy of the rest.
\* Mutant: head stays.
CompactRowsOnly(s) ==
  IF s.head = 0 THEN s
  ELSE IF s.head >= Len(s.rows) THEN Empty
  ELSE IF s.head < CompactAt /\ 2 * s.head < Len(s.rows) THEN s
  ELSE [s EXCEPT !.rows = Visible(s)]
Compact(s) ==
  IF s.head = 0 THEN s
  ELSE IF s.head >= Len(s.rows) THEN Empty
  ELSE IF s.head < CompactAt /\ 2 * s.head < Len(s.rows) THEN s
  ELSE [rows |-> Visible(s), head |-> 0]

InsertLog(c) ==
  /\ LET s == Prune(store, clock)
     IN store' = Compact(Trim([s EXCEPT !.rows = Append(@, [at |-> clock, of |-> c])]))
  /\ UNCHANGED <<limit, clock, reader>>

\* One provider's rows, or all of them: a loop appends the others to a new slice.
Remaining(s, C) ==
  LET remaining[i \in 0 .. Len(s)] ==
        IF i = 0 THEN << >>
        ELSE IF s[i].of \in C THEN remaining[i - 1]
        ELSE Append(remaining[i - 1], s[i])
  IN remaining[Len(s)]
ClearLogs(C) ==
  /\ store' = [rows |-> Remaining(Visible(store), C), head |-> 0]
  /\ UNCHANGED <<limit, clock, reader>>

\* needsPrune, with the time taken before it.
Look ==
  /\ reader.at = "idle"
  /\ reader' = [now |-> clock, answer |-> NoAnswer,
                at |-> IF store.head < Len(store.rows) /\ Expired(store.rows[store.head + 1], clock)
                         THEN "prune" ELSE "copy"]
  /\ UNCHANGED <<store, limit, clock>>

\* The loop of ErrorRatesForCredentials, from the newest row back to the first
\* that is too old for every credential.
Counts(s, since) ==
  LET old  == {i \in DOMAIN s : \A c \in Creds : s[i].at <= since[c]}
      from == IF old = {} THEN 1 ELSE 1 + CHOOSE i \in old : \A j \in old : j <= i
  IN [c \in Creds |-> Cardinality({i \in from .. Len(s) : s[i].of = c /\ s[i].at > since[c]})]

\* What QueryLogs and ErrorRatesForCredentials make of the rows they copied.
Return(s) ==
  \/ reader' = [reader EXCEPT !.at = "idle", !.answer = [rows |-> Visible(s)]]
  \/ \E since \in [Creds -> 0 .. clock] :
       reader' = [reader EXCEPT !.at = "idle", !.answer = [counts |-> Counts(Visible(s), since)]]

\* snapshotRows under the lock, and under the read lock.
PruneAndCopy ==
  /\ reader.at = "prune"
  /\ store' = Compact(Trim(Prune(store, reader.now))) /\ Return(store')
  /\ UNCHANGED <<limit, clock>>
Copy ==
  /\ reader.at = "copy" /\ Return(store)
  /\ UNCHANGED <<store, limit, clock>>

SetLimit(n) == limit' = n /\ limit # n /\ UNCHANGED <<store, clock, reader>>
Tick == clock < MaxClock /\ clock' = clock + 1 /\ UNCHANGED <<store, limit, reader>>

Next ==
  \/ \E c \in Creds : InsertLog(c)
  \/ \E C \in {{c} : c \in Creds} \cup {Creds} : ClearLogs(C)
  \/ Look \/ PruneAndCopy \/ Copy \/ Tick
  \/ \E n \in Limits : SetLimit(n)

Spec == Init /\ [][Next]_vars

-----------------------------------------------------------------------------
(* Properties *)

\* The rows and the garbage before them; the garbage is less than CompactAt and
\* than half, whenever the lock is free.
TypeOK ==
  /\ store.rows \in Seq(LogRows) /\ store.head \in 0 .. Len(store.rows)
  /\ store.head = 0 \/ (store.head < CompactAt /\ 2 * store.head < Len(store.rows))
  /\ limit \in Limits /\ clock \in 0 .. MaxClock
  /\ reader.at \in {"idle", "prune", "copy"} /\ reader.now \in 0 .. clock

\* Whatever is pruned, trimmed, compacted and cleared, and whatever comes between
\* a reader's look and its copy, the store is a plain log to its callers: the
\* newest rows in order, none too old in an answer, and each credential's error
\* rate is taken over its own rows of its own window.
Plain == INSTANCE PlainLog WITH
           log <- Visible(store), asked <- reader.now, answer <- reader.answer
ImplementsPlainLog == Plain!Spec
=============================================================================
