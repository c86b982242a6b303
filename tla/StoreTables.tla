------------------------------ MODULE StoreTables ------------------------------
(***************************************************************************)
(* The tables of one provider, as the queries of both dialects see them:   *)
(* db/sqlite/schema.sql and db/postgres/schema.  A record `d` holds        *)
(*   cred     the rows of the credential table, by id                      *)
(*   quota    the rows of its quota table, that refer to those             *)
(*   credits  the ids in antigravity_credits                               *)
(*   err      whether the call that made it answered with an error         *)
(* A credential row keeps its times in `at`.  A quota row has its columns  *)
(* reset_*, its columns throttled_until_*, and synced_at.                  *)
(*                                                                         *)
(* Left out: ids, tokens, e-mails and reasons as texts (whether there is a *)
(* refresh token is told), quota ratios, the order of the rows, pages and  *)
(* the search text.                                                        *)
(***************************************************************************)
EXTENDS Integers, FiniteSets, FiniteSetsExt, Functions

\* Times are in ticks, PerSecond of them a second.
PerSecond == 2
Century   == 100
ZeroTime  == 0
Whole(t)  == t - (t % PerSecond)
\* SQL NULL, below every time: the queries only ask whether it is greater.
Null == -2

CodexTiers       == {"default", "spark"}
CodexWindows     == {"5h", "7d", "1mo", "spark_5h", "spark_7d", "spark_1mo"}
GeminiTiers      == {"pro", "flash", "flashlite"}
AntigravityTiers == {"claude", "pro", "flash", "flashlite", "tab", "image"}
OpenCodeTiers    == {"default"}
OpenCodeWindows  == {"5h", "7d", "1mo"}

NoTables == [cred |-> << >>, quota |-> << >>, credits |-> {}, err |-> FALSE]

Failed(d) == [d EXCEPT !.err = TRUE]

\* An UPDATE of one row, that must be there.
SetCred(d, c, row) ==
  IF c \in DOMAIN d.cred THEN [d EXCEPT !.cred[c] = row] ELSE Failed(d)
PutRow(rows, c, row) == [x \in DOMAIN rows \cup {c} |-> IF x = c THEN row ELSE rows[x]]
\* INSERT ... ON CONFLICT DO UPDATE
PutCred(d, c, row) == [d EXCEPT !.cred = PutRow(@, c, row)]
\* The same of a quota row, whose credential must be there.
PutQuota(d, c, row) ==
  IF c \in DOMAIN d.cred THEN [d EXCEPT !.quota = PutRow(@, c, row)] ELSE Failed(d)
\* The row that an ON CONFLICT clause goes on with.
QuotaOr(d, c, new) == IF c \in DOMAIN d.quota THEN d.quota[c] ELSE new

\* A DELETE of a row that need not be there, ON DELETE CASCADE.
EraseCred(d, c) == [d EXCEPT !.cred    = Restrict(@, DOMAIN @ \ {c}),
                             !.quota   = Restrict(@, DOMAIN @ \ {c}),
                             !.credits = @ \ {c}]
EraseQuota(d, c) == [d EXCEPT !.quota = Restrict(@, DOMAIN @ \ {c})]
\* A call that answers ErrNotFound when no row was affected.
Affecting(d, rows, c, new) == IF c \in DOMAIN rows THEN new ELSE Failed(d)

\* RestoreExpiredThrottled*: 'throttled' is a status of older versions.
RestoreThrottled(d) ==
  [d EXCEPT !.cred = [c \in DOMAIN @ |->
     IF @[c].status = "throttled" THEN [@[c] EXCEPT !.status = "enabled"] ELSE @[c]]]

Every(columns, t) == [n \in columns |-> t]

\* LEFT JOIN ... ON q.credential_id = id
NoQuota == [reset  |-> Every(AntigravityTiers \cup CodexWindows, Null),
            until  |-> Every(AntigravityTiers \cup CodexTiers, Null),
            synced |-> Null]
LeftJoin(d, c) == QuotaOr(d, c, NoQuota)

Coalesce(v, other)           == IF v = Null THEN other ELSE v
Columns(row, columns, other) == [n \in columns |-> Coalesce(row[n], other)]

\* store.ShouldClearCredentialThrottle
ShouldClear(status) == status \in {"enabled", "disabled"}

\* A transaction of two statements: an error in either rolls it back.
Commit(d, updated, status, cleared) ==
  IF updated.err \/ (ShouldClear(status) /\ cleared.err) THEN Failed(d)
  ELSE IF ShouldClear(status) THEN cleared ELSE updated
=============================================================================
