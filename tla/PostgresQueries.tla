---------------------------- MODULE PostgresQueries ----------------------------
(***************************************************************************)
(* The queries of internal/db/postgres.  A time is a timestamp; the zero   *)
(* time is NULL, which only the reset_* columns of Codex and OpenCode take:*)
(* a statement that puts NULL in another column fails.                     *)
(***************************************************************************)
EXTENDS StoreTables

\* '0001-01-01', that tsTo reads as the zero time.
YearOne == ZeroTime
\* NOW()
Now(now) == now

\* A statement with these values for columns that are NOT NULL.
NotNull(d, values, new) == IF Null \in values THEN Failed(d) ELSE new

\* The WHERE clause of the filtered lists.  A tier in `statuses` stands for
\* 'throttled:<tier>', "all" for 'throttled:all'.
Matches(d, c, f, tiers, now) ==
  LET q == LeftJoin(d, c)
      throttled == {t \in tiers : q.until[t] > Now(now)}
  IN /\ \A s \in f.statuses \cap {"enabled", "disabled"} : d.cred[c].status = s
     /\ "all" \in f.statuses => throttled # {}
     /\ f.statuses \cap tiers \subseteq throttled
     /\ f.plan # "" => d.cred[c].plan = f.plan
     /\ f.unsynced => (q.synced = Null \/ q.synced <= YearOne)
Matching(d, f, tiers, now) == {c \in DOMAIN d.cred : Matches(d, c, f, tiers, now)}
AnyPlan(f)                 == [f EXCEPT !.plan = ""]
PlanTypes(d, creds)        == {d.cred[c].plan : c \in creds} \ {""}

Enabled(d) == {c \in DOMAIN d.cred : d.cred[c].status = "enabled"}
Usable(d, now) ==
  {c \in Enabled(d) : d.cred[c].at.expired > Now(now) \/ d.cred[c].refresh}
\* The first of the deadlines that are ahead, or NULL.
NextDeadline(d, tiers, now) ==
  LET ahead == {d.quota[c].until[t] : c \in {c \in DOMAIN d.quota : d.cred[c].status # "disabled"},
                                      t \in tiers}
  IN IF \E u \in ahead : u > Now(now) THEN Min({u \in ahead : u > Now(now)}) ELSE Null

-----------------------------------------------------------------------------
(* codex.sql.go, quota.sql.go *)

NewCodexQuota(now) == [reset  |-> Every(CodexWindows, Null),
                       until  |-> Every(CodexTiers, Now(now)), synced |-> Now(now)]

CountCodexFiltered(d, f, now) == Cardinality(Matching(d, f, CodexTiers, now))
CreateCodex(d, c, row) ==
  IF c \in DOMAIN d.cred THEN Failed(d) ELSE NotNull(d, {row.at.expired}, PutCred(d, c, row))
DeleteCodex(d, c)      == EraseCred(d, c)
ListCodex(d, now) ==
  [c \in DOMAIN d.cred |-> LET q == LeftJoin(d, c) IN
     [cred   |-> d.cred[c],
      reset  |-> Columns(q.reset, CodexWindows, YearOne),
      until  |-> Columns(q.until, CodexTiers, YearOne),
      synced |-> Coalesce(q.synced, YearOne)]]
ListCodexPaged(d, f, now)     == Restrict(ListCodex(d, now), Matching(d, f, CodexTiers, now))
ListCodexPlanTypes(d, f, now) == PlanTypes(d, Matching(d, AnyPlan(f), CodexTiers, now))
NextCodexThrottleDeadline(d, now) == NextDeadline(d, CodexTiers, now)
RestoreExpiredThrottledCodex(d)   == RestoreThrottled(d)
UpdateCodexPlanType(d, c, plan)   == SetCred(d, c, [d.cred[c] EXCEPT !.plan = plan])
UpdateCodexStatus(d, c, status)   == SetCred(d, c, [d.cred[c] EXCEPT !.status = status])
UpdateCodexTokens(d, c, row)      == NotNull(d, {row.at.expired}, SetCred(d, c, row))

ClearQuotaThrottle(d, c, now) ==
  PutQuota(d, c, [QuotaOr(d, c, NewCodexQuota(now)) EXCEPT
                    !.until = Every(CodexTiers, Now(now)), !.synced = Now(now)])
DeleteQuota(d, c) == EraseQuota(d, c)
ListAvailableCodex(d, now) ==
  [c \in Usable(d, now) |-> LET q == LeftJoin(d, c) IN
     [plan   |-> d.cred[c].plan,
      reset  |-> Columns(q.reset, CodexWindows, YearOne),
      until  |-> Columns(q.until, CodexTiers, Now(now)),
      synced |-> Coalesce(q.synced, YearOne)]]
SetQuotaThrottledTier(d, c, t, until, now) ==
  NotNull(d, {until},
    PutQuota(d, c, [QuotaOr(d, c, NewCodexQuota(now)) EXCEPT
                      !.until[t] = until, !.synced = Now(now)]))
SetQuotaThrottledAll(d, c, until, now) ==
  NotNull(d, {until},
    PutQuota(d, c, [QuotaOr(d, c, NewCodexQuota(now)) EXCEPT
                      !.until = Every(CodexTiers, until), !.synced = Now(now)]))
UpsertQuota(d, c, reset, now) ==
  PutQuota(d, c, [QuotaOr(d, c, NewCodexQuota(now)) EXCEPT
                    !.reset = reset, !.synced = Now(now)])

-----------------------------------------------------------------------------
(* gemini_cli.sql.go, gemini_quota.sql.go *)

NewGeminiQuota(now) == [reset  |-> Every(GeminiTiers, Now(now)),
                        until  |-> Every(GeminiTiers, Now(now)), synced |-> Now(now)]
Synced(row, now)    == [row EXCEPT !.at = [expired |-> @.expired, synced |-> Now(now)]]

CountGeminiCLIFiltered(d, f, now) == Cardinality(Matching(d, f, GeminiTiers, now))
DeleteGeminiCLI(d, c) == EraseCred(d, c)
ListGeminiCLI(d, now) ==
  [c \in DOMAIN d.cred |-> LET q == LeftJoin(d, c) IN
     [cred   |-> d.cred[c],
      reset  |-> Columns(q.reset, GeminiTiers, Now(now)),
      until  |-> Columns(q.until, GeminiTiers, YearOne),
      synced |-> Coalesce(q.synced, YearOne)]]
ListGeminiCLIPaged(d, f, now) ==
  Restrict(ListGeminiCLI(d, now), Matching(d, f, GeminiTiers, now))
ListGeminiCLIPlanTypes(d, f, now) == PlanTypes(d, Matching(d, AnyPlan(f), GeminiTiers, now))
\* Looks at one tier only.
NextProDeadline(d, now)             == NextDeadline(d, {"pro"}, now)
NextGeminiThrottleDeadline(d, now)  == NextDeadline(d, GeminiTiers, now)
RestoreExpiredThrottledGeminiCLI(d) == RestoreThrottled(d)
UpdateGeminiCLIStatus(d, c, status) == SetCred(d, c, [d.cred[c] EXCEPT !.status = status])
UpdateGeminiPlanType(d, c, plan, now) ==
  SetCred(d, c, Synced([d.cred[c] EXCEPT !.plan = plan], now))
UpdateGeminiTokens(d, c, row, now) ==
  NotNull(d, {row.at.expired}, SetCred(d, c, Synced(row, now)))
UpsertGeminiCLI(d, c, row, now) ==
  NotNull(d, {row.at.expired}, PutCred(d, c, Synced(row, now)))

ClearGeminiQuotaThrottle(d, c, now) ==
  PutQuota(d, c, [QuotaOr(d, c, NewGeminiQuota(now)) EXCEPT
                    !.until = Every(GeminiTiers, Now(now)), !.synced = Now(now)])
DeleteGeminiQuota(d, c) == EraseQuota(d, c)
ListAvailableGeminiCLI(d, now) ==
  [c \in Usable(d, now) |-> LET q == LeftJoin(d, c) IN
     [plan      |-> d.cred[c].plan,
      reset     |-> Columns(q.reset, GeminiTiers, Now(now)),
      until     |-> Columns(q.until, GeminiTiers, Now(now)),
      throttled |-> Max(Range(Columns(q.until, GeminiTiers, Now(now)))),
      synced    |-> Coalesce(q.synced, YearOne)]]
SetGeminiQuotaThrottledAll(d, c, until, now) ==
  NotNull(d, {until},
    PutQuota(d, c, [QuotaOr(d, c, NewGeminiQuota(now)) EXCEPT
                      !.until = Every(GeminiTiers, until), !.synced = Now(now)]))
SetGeminiQuotaThrottledTier(d, c, t, until, now) ==
  NotNull(d, {until},
    PutQuota(d, c, [QuotaOr(d, c, NewGeminiQuota(now)) EXCEPT
                      !.until[t] = until, !.synced = Now(now)]))
UpsertGeminiQuota(d, c, reset, now) ==
  NotNull(d, Range(reset),
    PutQuota(d, c, [QuotaOr(d, c, NewGeminiQuota(now)) EXCEPT
                      !.reset = reset, !.synced = Now(now)]))

-----------------------------------------------------------------------------
(* antigravity.sql.go, antigravity_quota.sql.go, antigravity_credits.sql.go *)

\* The reset of "tab" is a century away when nothing is known.
Resets(row, now) == [t \in AntigravityTiers |->
  Coalesce(row[t], Now(now) + (IF t = "tab" THEN Century ELSE 0))]
NewAntigravityQuota(now) == [reset  |-> Resets(NoQuota.reset, now),
                             until  |-> Every(AntigravityTiers, Now(now)), synced |-> Now(now)]

CountAntigravityFiltered(d, f, now) == Cardinality(Matching(d, f, AntigravityTiers, now))
DeleteAntigravity(d, c) == EraseCred(d, c)
ListAntigravity(d, now) ==
  [c \in DOMAIN d.cred |-> LET q == LeftJoin(d, c) IN
     [cred    |-> d.cred[c],
      reset   |-> Resets(q.reset, now),
      until   |-> Columns(q.until, AntigravityTiers, YearOne),
      credits |-> c \in d.credits,
      synced  |-> Coalesce(q.synced, YearOne)]]
ListAntigravityPaged(d, f, now) ==
  Restrict(ListAntigravity(d, now), Matching(d, f, AntigravityTiers, now))
ListAntigravityPlanTypes(d, f, now) ==
  PlanTypes(d, Matching(d, AnyPlan(f), AntigravityTiers, now))
NextAntigravityThrottleDeadline(d, now) == NextDeadline(d, AntigravityTiers, now)
RestoreExpiredThrottledAntigravity(d)   == RestoreThrottled(d)
UpdateAntigravityStatus(d, c, status)   == SetCred(d, c, [d.cred[c] EXCEPT !.status = status])
UpdateAntigravityTokens(d, c, row, now) ==
  NotNull(d, {row.at.expired}, SetCred(d, c, Synced(row, now)))
UpsertAntigravity(d, c, row, now) ==
  NotNull(d, {row.at.expired}, PutCred(d, c, Synced(row, now)))
UpsertAntigravityCredits(d, c) ==
  IF c \in DOMAIN d.cred THEN [d EXCEPT !.credits = @ \cup {c}] ELSE Failed(d)

ClearAntigravityQuotaThrottle(d, c, now) ==
  PutQuota(d, c, [QuotaOr(d, c, NewAntigravityQuota(now)) EXCEPT
                    !.until = Every(AntigravityTiers, Now(now)), !.synced = Now(now)])
DeleteAntigravityQuota(d, c) == EraseQuota(d, c)
ListAvailableAntigravity(d, now) ==
  [c \in Usable(d, now) |-> LET q == LeftJoin(d, c) IN
     [plan      |-> d.cred[c].plan,
      reset     |-> Resets(q.reset, now),
      credits   |-> c \in d.credits,
      until     |-> Columns(q.until, AntigravityTiers, Now(now)),
      throttled |-> Max(Range(Columns(q.until, AntigravityTiers, Now(now)))),
      synced    |-> Coalesce(q.synced, YearOne)]]
SetAntigravityQuotaThrottledAll(d, c, until, now) ==
  NotNull(d, {until},
    PutQuota(d, c, [QuotaOr(d, c, NewAntigravityQuota(now)) EXCEPT
                      !.until = Every(AntigravityTiers, until), !.synced = Now(now)]))
SetAntigravityQuotaThrottledTier(d, c, t, until, now) ==
  NotNull(d, {until},
    PutQuota(d, c, [QuotaOr(d, c, NewAntigravityQuota(now)) EXCEPT
                      !.until[t] = until, !.synced = Now(now)]))
UpsertAntigravityQuota(d, c, reset, now) ==
  NotNull(d, Range(reset),
    PutQuota(d, c, [QuotaOr(d, c, NewAntigravityQuota(now)) EXCEPT
                      !.reset = reset, !.synced = Now(now)]))

-----------------------------------------------------------------------------
(* opencode_go.sql.go, opencode_go_quota.sql.go: a row has created_at and    *)
(* updated_at, and a throttle leaves synced_at of a row as it is.            *)

NewOpenCodeQuota(now) == [reset  |-> Every(OpenCodeWindows, Null),
                          until  |-> Every(OpenCodeTiers, Now(now)), synced |-> Now(now)]
Updated(row, now)     == [row EXCEPT !.at.updated = Now(now)]

CountOpenCodeGoFiltered(d, f, now) == Cardinality(Matching(d, AnyPlan(f), OpenCodeTiers, now))
DeleteOpenCodeGo(d, c) == EraseCred(d, c)
ListOpenCodeGo(d, now) ==
  [c \in DOMAIN d.cred |-> LET q == LeftJoin(d, c) IN
     [cred   |-> d.cred[c],
      reset  |-> Columns(q.reset, OpenCodeWindows, YearOne),
      until  |-> Columns(q.until, OpenCodeTiers, YearOne),
      synced |-> Coalesce(q.synced, YearOne)]]
ListOpenCodeGoPaged(d, f, now) ==
  Restrict(ListOpenCodeGo(d, now), Matching(d, AnyPlan(f), OpenCodeTiers, now))
NextOpenCodeGoThrottleDeadline(d, now) == NextDeadline(d, OpenCodeTiers, now)
RestoreExpiredThrottledOpenCodeGo(d, now) ==
  LET old == {c \in DOMAIN d.cred : d.cred[c].status = "throttled"}
      new == RestoreThrottled(d)
  IN [new EXCEPT !.cred = [c \in DOMAIN @ |-> IF c \in old THEN Updated(@[c], now) ELSE @[c]]]
UpdateOpenCodeGoStatus(d, c, status, now) ==
  SetCred(d, c, Updated([d.cred[c] EXCEPT !.status = status], now))
UpsertOpenCodeGo(d, c, status, now) ==
  LET new == [status |-> status, at |-> [created |-> Now(now), updated |-> Now(now)]]
  IN PutCred(d, c, IF c \in DOMAIN d.cred THEN [new EXCEPT !.at.created = d.cred[c].at.created]
                                          ELSE new)

ClearOpenCodeGoQuotaThrottle(d, c, now) ==
  PutQuota(d, c, [QuotaOr(d, c, NewOpenCodeQuota(now)) EXCEPT
                    !.until = Every(OpenCodeTiers, Now(now))])
DeleteOpenCodeGoQuota(d, c) == EraseQuota(d, c)
ListAvailableOpenCodeGo(d, now) ==
  [c \in Enabled(d) |-> LET q == LeftJoin(d, c) IN
     [reset  |-> Columns(q.reset, OpenCodeWindows, YearOne),
      until  |-> Columns(q.until, OpenCodeTiers, YearOne),
      synced |-> Coalesce(q.synced, d.cred[c].at.created)]]
SetOpenCodeGoQuotaThrottled(d, c, until, now) ==
  NotNull(d, {until},
    PutQuota(d, c, [QuotaOr(d, c, NewOpenCodeQuota(now)) EXCEPT
                      !.until = Every(OpenCodeTiers, until)]))
UpsertOpenCodeGoQuota(d, c, reset, now) ==
  PutQuota(d, c, [QuotaOr(d, c, NewOpenCodeQuota(now)) EXCEPT
                    !.reset = reset, !.synced = Now(now)])
=============================================================================
