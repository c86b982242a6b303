----------------------------- MODULE PostgresStore -----------------------------
(***************************************************************************)
(* The store over PostgreSQL (db/postgres), as SqliteStore is over SQLite. *)
(***************************************************************************)
EXTENDS StoreTables

Q == INSTANCE PostgresQueries

\* A timestamp; the zero time is NULL, and reads back from NULL or year one.
tsFrom(t) == IF t = ZeroTime THEN Null ELSE t
tsTo(v)   == IF v = Null \/ v <= Q!YearOne THEN ZeroTime ELSE v

FromTimes(times)  == [n \in DOMAIN times |-> tsFrom(times[n])]
ToTimes(row)  == [n \in DOMAIN row |-> tsTo(row[n])]
Stamped(row)   == [row EXCEPT !.at = FromTimes(@)]

\* The columns that every answer to a list has.
QuotaTo(row) == [row EXCEPT !.reset = ToTimes(@), !.until = ToTimes(@),
                                !.synced = tsTo(@)]
CredentialTo(row) == [row EXCEPT !.at = ToTimes(@)]
ListRowTo(row)    == [QuotaTo(row) EXCEPT !.cred = CredentialTo(@)]
AvailableRowTo(row) == [QuotaTo(row) EXCEPT !.throttled = tsTo(@)]

CountEnabled(d) == Cardinality(Q!Enabled(d))
CountAll(d)     == Cardinality(DOMAIN d.cred)

-----------------------------------------------------------------------------
(* codex.go, quota.go *)

CountCodexFiltered(d, f, now) == Q!CountCodexFiltered(d, f, now)
GetCodex(d, c)                == CredentialTo(d.cred[c])
UpdateCodexTokens(d, c, row, now) ==
  LET updated == Q!UpdateCodexTokens(d, c, Stamped(row))
  IN Commit(d, updated, row.status, Q!ClearQuotaThrottle(updated, c, now))
UpdateCodexPlanType(d, c, plan) == Q!UpdateCodexPlanType(d, c, plan)
ListCodex(d, now) ==
  LET rows == Q!ListCodex(d, now) IN [c \in DOMAIN rows |-> ListRowTo(rows[c])]
ListCodexPaged(d, f, now) ==
  LET rows == Q!ListCodexPaged(d, f, now) IN [c \in DOMAIN rows |-> ListRowTo(rows[c])]
ListCodexPlanTypes(d, f, now) == Q!ListCodexPlanTypes(d, f, now)
CreateCodex(d, c, row) == Q!CreateCodex(d, c, Stamped(row))
DeleteCodex(d, c)      == Affecting(d, d.cred, c, Q!DeleteCodex(d, c))
UpdateCodexStatus(d, c, status, now) ==
  LET updated == Q!UpdateCodexStatus(d, c, status)
  IN Commit(d, updated, status, Q!ClearQuotaThrottle(updated, c, now))
RestoreExpiredThrottledCodex(d)   == Q!RestoreExpiredThrottledCodex(d)
NextCodexThrottleDeadline(d, now) == tsTo(Q!NextCodexThrottleDeadline(d, now))

UpsertQuota(d, c, resets, now) == Q!UpsertQuota(d, c, FromTimes(resets), now)
SetQuotaThrottled(d, c, tier, until, now) ==
  IF tier \in CodexTiers THEN Q!SetQuotaThrottledTier(d, c, tier, tsFrom(until), now)
                         ELSE Q!SetQuotaThrottledAll(d, c, tsFrom(until), now)
DeleteQuota(d, c) == Affecting(d, d.quota, c, Q!DeleteQuota(d, c))
ListAvailableCodex(d, now) ==
  LET rows == Q!ListAvailableCodex(d, now) IN [c \in DOMAIN rows |-> QuotaTo(rows[c])]

-----------------------------------------------------------------------------
(* gemini.go, gemini_quota.go *)

CountGeminiCLIFiltered(d, f, now) == Q!CountGeminiCLIFiltered(d, f, now)
GetGeminiCLI(d, c)                == CredentialTo(d.cred[c])
UpdateGeminiTokens(d, c, row, now) ==
  LET updated == Q!UpdateGeminiTokens(d, c, Stamped(row), now)
  IN Commit(d, updated, row.status, Q!ClearGeminiQuotaThrottle(updated, c, now))
UpdateGeminiPlanType(d, c, plan, now) == Q!UpdateGeminiPlanType(d, c, plan, now)
ListGeminiCLI(d, now) ==
  LET rows == Q!ListGeminiCLI(d, now) IN [c \in DOMAIN rows |-> ListRowTo(rows[c])]
ListGeminiCLIPaged(d, f, now) ==
  LET rows == Q!ListGeminiCLIPaged(d, f, now) IN [c \in DOMAIN rows |-> ListRowTo(rows[c])]
ListGeminiCLIPlanTypes(d, f, now) == Q!ListGeminiCLIPlanTypes(d, f, now)
UpsertGeminiCLI(d, c, row, now) ==
  LET updated == Q!UpsertGeminiCLI(d, c, Stamped(row), now)
  IN Commit(d, updated, row.status, Q!ClearGeminiQuotaThrottle(updated, c, now))
DeleteGeminiCLI(d, c) == Affecting(d, d.cred, c, Q!DeleteGeminiCLI(d, c))
UpdateGeminiCLIStatus(d, c, status, now) ==
  LET updated == Q!UpdateGeminiCLIStatus(d, c, status)
  IN Commit(d, updated, status, Q!ClearGeminiQuotaThrottle(updated, c, now))
RestoreExpiredThrottledGeminiCLI(d) == Q!RestoreExpiredThrottledGeminiCLI(d)
NextGeminiThrottleDeadline(d, now)  == tsTo(Q!NextGeminiThrottleDeadline(d, now))

UpsertGeminiQuota(d, c, resets, now) == Q!UpsertGeminiQuota(d, c, FromTimes(resets), now)
SetGeminiQuotaThrottled(d, c, tier, until, now) ==
  IF tier \in GeminiTiers THEN Q!SetGeminiQuotaThrottledTier(d, c, tier, tsFrom(until), now)
                          ELSE Q!SetGeminiQuotaThrottledAll(d, c, tsFrom(until), now)
DeleteGeminiQuota(d, c) == Affecting(d, d.quota, c, Q!DeleteGeminiQuota(d, c))
ListAvailableGeminiCLI(d, now) ==
  LET rows == Q!ListAvailableGeminiCLI(d, now) IN [c \in DOMAIN rows |-> AvailableRowTo(rows[c])]

-----------------------------------------------------------------------------
(* antigravity.go: the tokens are stored without clearing the throttles, and *)
(* the quota and the credits without a transaction.                          *)

CountAntigravityFiltered(d, f, now) == Q!CountAntigravityFiltered(d, f, now)
GetAntigravity(d, c)                == CredentialTo(d.cred[c])
UpdateAntigravityTokens(d, c, row, now) == Q!UpdateAntigravityTokens(d, c, Stamped(row), now)
ListAntigravity(d, now) ==
  LET rows == Q!ListAntigravity(d, now) IN [c \in DOMAIN rows |-> ListRowTo(rows[c])]
ListAntigravityPaged(d, f, now) ==
  LET rows == Q!ListAntigravityPaged(d, f, now) IN [c \in DOMAIN rows |-> ListRowTo(rows[c])]
ListAntigravityPlanTypes(d, f, now) == Q!ListAntigravityPlanTypes(d, f, now)
UpsertAntigravity(d, c, row, now)   == Q!UpsertAntigravity(d, c, Stamped(row), now)
DeleteAntigravity(d, c) == Affecting(d, d.cred, c, Q!DeleteAntigravity(d, c))
UpdateAntigravityStatus(d, c, status, now) ==
  LET updated == Q!UpdateAntigravityStatus(d, c, status)
  IN Commit(d, updated, status, Q!ClearAntigravityQuotaThrottle(updated, c, now))
RestoreExpiredThrottledAntigravity(d)   == Q!RestoreExpiredThrottledAntigravity(d)
NextAntigravityThrottleDeadline(d, now) == tsTo(Q!NextAntigravityThrottleDeadline(d, now))
ListAvailableAntigravity(d, now) ==
  LET rows == Q!ListAvailableAntigravity(d, now) IN [c \in DOMAIN rows |-> AvailableRowTo(rows[c])]
UpsertAntigravityQuota(d, c, resets, creditsSynced, now) ==
  LET stored == Q!UpsertAntigravityQuota(d, c, FromTimes(resets), now)
  IN IF stored.err \/ ~creditsSynced THEN stored ELSE Q!UpsertAntigravityCredits(stored, c)
SetAntigravityQuotaThrottled(d, c, tier, until, now) ==
  IF tier \in AntigravityTiers
  THEN Q!SetAntigravityQuotaThrottledTier(d, c, tier, tsFrom(until), now)
  ELSE Q!SetAntigravityQuotaThrottledAll(d, c, tsFrom(until), now)
DeleteAntigravityQuota(d, c) == Affecting(d, d.quota, c, Q!DeleteAntigravityQuota(d, c))

-----------------------------------------------------------------------------
(* opencode_go.go *)

CountOpenCodeGoFiltered(d, f, now) == Q!CountOpenCodeGoFiltered(d, f, now)
GetOpenCodeGo(d, c)                == CredentialTo(d.cred[c])
ListOpenCodeGo(d, now) ==
  LET rows == Q!ListOpenCodeGo(d, now) IN [c \in DOMAIN rows |-> ListRowTo(rows[c])]
ListOpenCodeGoPaged(d, f, now) ==
  LET rows == Q!ListOpenCodeGoPaged(d, f, now) IN [c \in DOMAIN rows |-> ListRowTo(rows[c])]
UpsertOpenCodeGo(d, c, status, now) ==
  LET updated == Q!UpsertOpenCodeGo(d, c, status, now)
  IN Commit(d, updated, status, Q!ClearOpenCodeGoQuotaThrottle(updated, c, now))
DeleteOpenCodeGo(d, c) == Affecting(d, d.cred, c, Q!DeleteOpenCodeGo(d, c))
UpdateOpenCodeGoStatus(d, c, status, now) ==
  LET updated == Q!UpdateOpenCodeGoStatus(d, c, status, now)
  IN Commit(d, updated, status, Q!ClearOpenCodeGoQuotaThrottle(updated, c, now))
RestoreExpiredThrottledOpenCodeGo(d, now) == Q!RestoreExpiredThrottledOpenCodeGo(d, now)
NextOpenCodeGoThrottleDeadline(d, now)    == tsTo(Q!NextOpenCodeGoThrottleDeadline(d, now))
UpsertOpenCodeGoQuota(d, c, resets, now)  == Q!UpsertOpenCodeGoQuota(d, c, FromTimes(resets), now)
SetOpenCodeGoQuotaThrottled(d, c, until, now) ==
  Q!SetOpenCodeGoQuotaThrottled(d, c, tsFrom(until), now)
\* No error when there is no row.
DeleteOpenCodeGoQuota(d, c) == Q!DeleteOpenCodeGoQuota(d, c)
ListAvailableOpenCodeGo(d, now) ==
  LET rows == Q!ListAvailableOpenCodeGo(d, now) IN [c \in DOMAIN rows |-> QuotaTo(rows[c])]
=============================================================================
