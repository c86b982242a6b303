----------------------------- MODULE Scheduling -----------------------------
(***************************************************************************)
(* The two algorithms that the four schedulers share                       *)
(* (core/scheduling/scheduling.go): the candidates that a credential is    *)
(* picked from, and the time a tier that keeps failing is left alone.  One *)
(* call of PickWeightedFromBest goes over the rows in steps; beside it a   *)
(* tier fails again and again, its count starting anew when a window has   *)
(* passed (RecordFailure).                                                 *)
(*                                                                         *)
(* Scores are ranks: of the real ones only their order and their sign      *)
(* decide who becomes a candidate.                                         *)
(***************************************************************************)
EXTENDS Integers, Sequences, FiniteSets

CONSTANTS Scores,      (* of the rows; those not above zero are passed over *)
          MaxRows,     (* bound: rows of a snapshot                         *)
          Threshold,   (* ConsecutiveFailureThrottleThreshold               *)
          MaxFailures, (* bound: failures in a row                          *)
          Backoffs,    (* the settings' base and maximum                    *)
          RetryAfters  (* explicit windows of an answer; 0 is none          *)

VARIABLES
  rows,      (* scores of the rows passed so far                            *)
  best,      (* candidates: rows by index, with their scores                *)
  bestCount,
  failures,  (* throttleState.consecutive                                   *)
  backoff,   (* what was decided last: how long to wait, -1 is not at all   *)
  explicit,  (* whether it is a Retry-After                                 *)
  limits     (* ThrottleBase and ThrottleMax                                *)

picking   == <<rows, best, bestCount>>
throttles == <<failures, backoff, explicit, limits>>
vars == <<picking, throttles>>

Init ==
  /\ rows = << >> /\ best = << >> /\ bestCount \in 1 .. MaxRows - 1
  /\ failures = 0 /\ backoff = -1 /\ explicit = FALSE
  /\ limits \in {l \in [base : Backoffs, max : Backoffs] : l.base <= l.max}

\* The loop at the end of insertBestCandidate: it carries the last candidate before
\* those of a lower score.
RaiseLast(s) ==
  LET last == s[Len(s)]
      index[i \in DOMAIN s] ==
        IF i > 1 /\ last.score > s[i - 1].score THEN index[i - 1] ELSE i
      at == index[Len(s)]
  IN [k \in DOMAIN s |-> IF k < at THEN s[k] ELSE IF k = at THEN last ELSE s[k - 1]]

\* Mutant: an equal score takes the place of the last.
InsertOrReplace(s, c) ==
  IF Len(s) < bestCount THEN RaiseLast(Append(s, c))
  ELSE IF c.score < s[Len(s)].score THEN s
  ELSE RaiseLast([s EXCEPT ![Len(s)] = c])
InsertBestCandidate(s, c) ==
  IF Len(s) < bestCount THEN RaiseLast(Append(s, c))
  ELSE IF c.score <= s[Len(s)].score THEN s
  ELSE RaiseLast([s EXCEPT ![Len(s)] = c])

Consider(score) ==
  /\ Len(rows) < MaxRows /\ rows' = Append(rows, score)
  /\ best' = IF score <= 0 THEN best
             ELSE InsertBestCandidate(best, [row |-> Len(rows'), score |-> score])
  /\ UNCHANGED <<bestCount, throttles>>

\* calcBackoff: doubled for each failure after the first, in a loop that stops at
\* half of the maximum.
Doubled(base, max) ==
  LET d[n \in Nat] == IF n = 0 THEN base
                      ELSE IF d[n - 1] >= max \div 2 THEN max ELSE 2 * d[n - 1]
  IN d
CalcBackoff(n, base, max) ==
  IF n <= 1 THEN base
  ELSE LET d == Doubled(base, max)[n - 1] IN IF d > max THEN max ELSE d

\* RecordFailure and DecideFailureThrottle.
Fail(retryAfter) ==
  /\ failures < MaxFailures /\ failures' = failures + 1
  /\ explicit' = (retryAfter > 0)
  /\ backoff' = IF retryAfter > 0 THEN retryAfter
                ELSE IF failures' < Threshold THEN -1
                ELSE CalcBackoff(failures' - Threshold + 1, limits.base, limits.max)
  /\ UNCHANGED <<picking, limits>>

\* A window that has passed, or a success.
Forget ==
  /\ failures > 0 /\ failures' = 0 /\ backoff' = -1 /\ explicit' = FALSE
  /\ UNCHANGED <<picking, limits>>

Next ==
  \/ \E s \in Scores : Consider(s)
  \/ \E r \in RetryAfters : Fail(r)
  \/ Forget

Spec == Init /\ [][Next]_vars

-----------------------------------------------------------------------------
(* Properties *)

TypeOK ==
  /\ rows \in Seq(Scores) /\ Len(rows) <= MaxRows /\ bestCount \in 1 .. MaxRows
  /\ Len(best) <= bestCount
  /\ failures \in 0 .. MaxFailures /\ explicit \in BOOLEAN
  /\ backoff \in {-1} \cup 0 .. limits.max \cup RetryAfters

\* The best rows so far by a definition: those with fewer than bestCount ahead of
\* them, in order; an equal score is ahead when it comes first.
Positive == {i \in DOMAIN rows : rows[i] > 0}
Ahead(i) == {j \in Positive : rows[j] > rows[i] \/ (rows[j] = rows[i] /\ j < i)}
BestKept ==
  /\ {best[k].row : k \in DOMAIN best} = {i \in Positive : Cardinality(Ahead(i)) < bestCount}
  /\ \A k \in DOMAIN best : /\ best[k].score = rows[best[k].row]
                            /\ Cardinality(Ahead(best[k].row)) = k - 1

PowerOfTwo[n \in Nat] == IF n = 0 THEN 1 ELSE 2 * PowerOfTwo[n - 1]

\* A tier is left alone from the Threshold-th failure in a row, for the base and
\* then twice as long for each more, up to the maximum; a Retry-After is obeyed.
BackoffDoubles ==
  explicit \/ backoff = IF failures < Threshold THEN -1
                        ELSE LET wait == limits.base * PowerOfTwo[failures - Threshold]
                             IN IF wait > limits.max THEN limits.max ELSE wait

\* What is picked from and how long is waited are as defined.
SchedulingAsDefined == BestKept /\ BackoffDoubles
=============================================================================
