-------------------------------- MODULE Stores --------------------------------
(***************************************************************************)
(* One program over either of its databases: the same calls go to the      *)
(* store over SQLite (SqliteStore) and to the one over PostgreSQL          *)
(* (PostgresStore), and what they answer is compared.  The tables are      *)
(* those of one provider.                                                  *)
(*                                                                         *)
(* SQLite keeps whole seconds, PostgreSQL parts of them: a second is two   *)
(* ticks of the clock, so that a time falls within a second.               *)
(***************************************************************************)
EXTENDS StoreTables

CONSTANTS Ids,          (* credentials                                     *)
          Providers,    (* of "codex", "gemini", "antigravity", "opencode" *)
          MaxWrites,    (* bound: calls that write                         *)
          MaxTicks      (* bound: ticks of the clock                       *)

VARIABLES
  handler,    (* the provider whose tables these are                       *)
  time,       (* the clock of both databases                               *)
  sqlite,     (* the tables in SQLite                                      *)
  postgres,   (* the tables in PostgreSQL                                  *)
  writes      (* bound: calls so far                                       *)

\* History, read by properties only.
VARIABLE
  refused     (* credentials of which PostgreSQL alone refused a write     *)

stores == <<handler, time, sqlite, postgres, writes, refused>>

Sq == INSTANCE SqliteStore
Pg == INSTANCE PostgresStore

Tiers == CASE handler = "codex"       -> CodexTiers
           [] handler = "gemini"      -> GeminiTiers
           [] handler = "antigravity" -> AntigravityTiers
           [] handler = "opencode"    -> OpenCodeTiers

TypeOK ==
  /\ handler \in Providers
  /\ time \in 2 .. MaxTicks /\ writes \in 0 .. MaxWrites
  /\ \A d \in {sqlite, postgres} :
       /\ DOMAIN d.cred \subseteq Ids /\ d.err = FALSE
       /\ DOMAIN d.quota \cup d.credits \subseteq DOMAIN d.cred
  /\ refused \subseteq Ids

\* Empty tables.
Init ==
  /\ handler \in Providers
  /\ time = 2 /\ writes = 0
  /\ sqlite = NoTables /\ postgres = NoTables
  /\ refused = {}

-----------------------------------------------------------------------------
(* What the calls are given.  A time lies half a second ahead, or is         *)
(* missing; one column of the quotas may miss its own.  An account has a     *)
(* refresh token when it has a plan.                                         *)

Times    == {ZeroTime, time + 1}
Statuses == {"enabled", "disabled", "throttled"}
Plans    == {"", "paid"}
CredentialRow(s, p, t) ==
  [status |-> s, plan |-> p, refresh |-> p = "paid", at |-> [expired |-> t]]
CredentialRows == {CredentialRow(s, p, t) : s \in Statuses \ {"disabled"}, p \in Plans, t \in Times}
Resets(columns) == {[n \in columns |-> IF n = m THEN t ELSE time + 1] :
                      m \in columns, t \in Times}

\* A call with these times made `s` of one database and `p` of the other.
Written(c, times, s, p) ==
  /\ sqlite' = [s EXCEPT !.err = FALSE] /\ postgres' = [p EXCEPT !.err = FALSE]
  /\ refused' = IF c \notin DOMAIN s.cred \cup DOMAIN p.cred THEN refused \ {c}
                ELSE IF p.err /\ ~s.err /\ ZeroTime \in times THEN refused \cup {c} ELSE refused

Codex(c) ==
  \/ \E r \in CredentialRows :
       \/ Written(c, {r.at.expired}, Sq!CreateCodex(sqlite, c, r), Pg!CreateCodex(postgres, c, r))
       \/ Written(c, {r.at.expired}, Sq!UpdateCodexTokens(sqlite, c, r, time),
                                     Pg!UpdateCodexTokens(postgres, c, r, time))
  \/ Written(c, {}, Sq!UpdateCodexPlanType(sqlite, c, "paid"),
                    Pg!UpdateCodexPlanType(postgres, c, "paid"))
  \/ \E s \in Statuses :
       Written(c, {}, Sq!UpdateCodexStatus(sqlite, c, s, time),
                      Pg!UpdateCodexStatus(postgres, c, s, time))
  \/ \E r \in Resets(CodexWindows) :
       Written(c, Range(r), Sq!UpsertQuota(sqlite, c, r, time),
                            Pg!UpsertQuota(postgres, c, r, time))
  \/ \E t \in CodexTiers \cup {""}, u \in Times :
       Written(c, {u}, Sq!SetQuotaThrottled(sqlite, c, t, u, time),
                       Pg!SetQuotaThrottled(postgres, c, t, u, time))
  \/ Written(c, {}, Sq!RestoreExpiredThrottledCodex(sqlite),
                    Pg!RestoreExpiredThrottledCodex(postgres))
  \/ Written(c, {}, Sq!DeleteQuota(sqlite, c), Pg!DeleteQuota(postgres, c))
  \/ Written(c, {}, Sq!DeleteCodex(sqlite, c), Pg!DeleteCodex(postgres, c))

Gemini(c) ==
  \/ \E r \in CredentialRows :
       \/ Written(c, {r.at.expired}, Sq!UpsertGeminiCLI(sqlite, c, r, time),
                                     Pg!UpsertGeminiCLI(postgres, c, r, time))
       \/ Written(c, {r.at.expired}, Sq!UpdateGeminiTokens(sqlite, c, r, time),
                                     Pg!UpdateGeminiTokens(postgres, c, r, time))
  \/ Written(c, {}, Sq!UpdateGeminiPlanType(sqlite, c, "paid", time),
                    Pg!UpdateGeminiPlanType(postgres, c, "paid", time))
  \/ \E s \in Statuses :
       Written(c, {}, Sq!UpdateGeminiCLIStatus(sqlite, c, s, time),
                      Pg!UpdateGeminiCLIStatus(postgres, c, s, time))
  \/ \E r \in Resets(GeminiTiers) :
       Written(c, Range(r), Sq!UpsertGeminiQuota(sqlite, c, r, time),
                            Pg!UpsertGeminiQuota(postgres, c, r, time))
  \/ \E t \in GeminiTiers \cup {""}, u \in Times :
       Written(c, {u}, Sq!SetGeminiQuotaThrottled(sqlite, c, t, u, time),
                       Pg!SetGeminiQuotaThrottled(postgres, c, t, u, time))
  \/ Written(c, {}, Sq!RestoreExpiredThrottledGeminiCLI(sqlite),
                    Pg!RestoreExpiredThrottledGeminiCLI(postgres))
  \/ Written(c, {}, Sq!DeleteGeminiQuota(sqlite, c), Pg!DeleteGeminiQuota(postgres, c))
  \/ Written(c, {}, Sq!DeleteGeminiCLI(sqlite, c), Pg!DeleteGeminiCLI(postgres, c))

Antigravity(c) ==
  \/ \E r \in CredentialRows :
       \/ Written(c, {r.at.expired}, Sq!UpsertAntigravity(sqlite, c, r, time),
                                     Pg!UpsertAntigravity(postgres, c, r, time))
       \/ Written(c, {r.at.expired}, Sq!UpdateAntigravityTokens(sqlite, c, r, time),
                                     Pg!UpdateAntigravityTokens(postgres, c, r, time))
  \/ \E s \in Statuses :
       Written(c, {}, Sq!UpdateAntigravityStatus(sqlite, c, s, time),
                      Pg!UpdateAntigravityStatus(postgres, c, s, time))
  \/ \E r \in Resets(AntigravityTiers), credits \in BOOLEAN :
       Written(c, Range(r), Sq!UpsertAntigravityQuota(sqlite, c, r, credits, time),
                            Pg!UpsertAntigravityQuota(postgres, c, r, credits, time))
  \/ \E t \in AntigravityTiers \cup {""}, u \in Times :
       Written(c, {u}, Sq!SetAntigravityQuotaThrottled(sqlite, c, t, u, time),
                       Pg!SetAntigravityQuotaThrottled(postgres, c, t, u, time))
  \/ Written(c, {}, Sq!RestoreExpiredThrottledAntigravity(sqlite),
                    Pg!RestoreExpiredThrottledAntigravity(postgres))
  \/ Written(c, {}, Sq!DeleteAntigravityQuota(sqlite, c), Pg!DeleteAntigravityQuota(postgres, c))
  \/ Written(c, {}, Sq!DeleteAntigravity(sqlite, c), Pg!DeleteAntigravity(postgres, c))

OpenCode(c) ==
  \/ \E s \in Statuses :
       \/ Written(c, {}, Sq!UpsertOpenCodeGo(sqlite, c, s, time),
                         Pg!UpsertOpenCodeGo(postgres, c, s, time))
       \/ Written(c, {}, Sq!UpdateOpenCodeGoStatus(sqlite, c, s, time),
                         Pg!UpdateOpenCodeGoStatus(postgres, c, s, time))
  \/ \E r \in Resets(OpenCodeWindows) :
       Written(c, Range(r), Sq!UpsertOpenCodeGoQuota(sqlite, c, r, time),
                            Pg!UpsertOpenCodeGoQuota(postgres, c, r, time))
  \/ \E u \in Times :
       Written(c, {u}, Sq!SetOpenCodeGoQuotaThrottled(sqlite, c, u, time),
                       Pg!SetOpenCodeGoQuotaThrottled(postgres, c, u, time))
  \/ Written(c, {}, Sq!RestoreExpiredThrottledOpenCodeGo(sqlite, time),
                    Pg!RestoreExpiredThrottledOpenCodeGo(postgres, time))
  \/ Written(c, {}, Sq!DeleteOpenCodeGoQuota(sqlite, c), Pg!DeleteOpenCodeGoQuota(postgres, c))
  \/ Written(c, {}, Sq!DeleteOpenCodeGo(sqlite, c), Pg!DeleteOpenCodeGo(postgres, c))

Write(c) ==
  /\ writes < MaxWrites /\ writes' = writes + 1
  /\ \/ handler = "codex" /\ Codex(c)
     \/ handler = "gemini" /\ Gemini(c)
     \/ handler = "antigravity" /\ Antigravity(c)
     \/ handler = "opencode" /\ OpenCode(c)
  /\ UNCHANGED <<handler, time>>

Pass == time < MaxTicks /\ time' = time + 1
        /\ UNCHANGED <<handler, sqlite, postgres, writes, refused>>

Next == (\E c \in Ids : Write(c)) \/ Pass

Spec == Init /\ [][Next]_stores

-----------------------------------------------------------------------------

\* A page shows any status or one, and one plan type or all.  Bound: what was never
\* synced is not asked for with a status as well.
Filters ==
  {f \in [statuses : {{}} \cup {{s} : s \in Tiers \cup {"enabled", "disabled", "all"}},
          plan : Plans, unsynced : BOOLEAN] : f.unsynced => f.statuses = {}}

\* SQLite answers as PostgreSQL will at the end of the second.
EndOfSecond == Whole(time) + PerSecond - 1

SqliteTold ==
  CASE handler = "codex" ->
         [get       |-> [c \in DOMAIN sqlite.cred |-> Sq!GetCodex(sqlite, c)],
          listed    |-> Sq!ListCodex(sqlite, time),
          available |-> Sq!ListAvailableCodex(sqlite, time),
          enabled   |-> Sq!CountEnabled(sqlite), count |-> Sq!CountAll(sqlite),
          deadline  |-> Sq!NextCodexThrottleDeadline(sqlite, time)]
    [] handler = "gemini" ->
         [get       |-> [c \in DOMAIN sqlite.cred |-> Sq!GetGeminiCLI(sqlite, c)],
          listed    |-> Sq!ListGeminiCLI(sqlite, time),
          available |-> Sq!ListAvailableGeminiCLI(sqlite, time),
          enabled   |-> Sq!CountEnabled(sqlite), count |-> Sq!CountAll(sqlite),
          deadline  |-> Sq!NextGeminiThrottleDeadline(sqlite, time)]
    [] handler = "antigravity" ->
         [get       |-> [c \in DOMAIN sqlite.cred |-> Sq!GetAntigravity(sqlite, c)],
          listed    |-> Sq!ListAntigravity(sqlite, time),
          available |-> Sq!ListAvailableAntigravity(sqlite, time),
          enabled   |-> Sq!CountEnabled(sqlite), count |-> Sq!CountAll(sqlite),
          deadline  |-> Sq!NextAntigravityThrottleDeadline(sqlite, time)]
    [] handler = "opencode" ->
         [get       |-> [c \in DOMAIN sqlite.cred |-> Sq!GetOpenCodeGo(sqlite, c)],
          listed    |-> Sq!ListOpenCodeGo(sqlite, time),
          available |-> Sq!ListAvailableOpenCodeGo(sqlite, time),
          enabled   |-> Sq!CountEnabled(sqlite), count |-> Sq!CountAll(sqlite),
          deadline  |-> Sq!NextOpenCodeGoThrottleDeadline(sqlite, time)]
PostgresTold ==
  CASE handler = "codex" ->
         [get       |-> [c \in DOMAIN postgres.cred |-> Pg!GetCodex(postgres, c)],
          listed    |-> Pg!ListCodex(postgres, EndOfSecond),
          available |-> Pg!ListAvailableCodex(postgres, EndOfSecond),
          enabled   |-> Pg!CountEnabled(postgres), count |-> Pg!CountAll(postgres),
          deadline  |-> Pg!NextCodexThrottleDeadline(postgres, EndOfSecond)]
    [] handler = "gemini" ->
         [get       |-> [c \in DOMAIN postgres.cred |-> Pg!GetGeminiCLI(postgres, c)],
          listed    |-> Pg!ListGeminiCLI(postgres, EndOfSecond),
          available |-> Pg!ListAvailableGeminiCLI(postgres, EndOfSecond),
          enabled   |-> Pg!CountEnabled(postgres), count |-> Pg!CountAll(postgres),
          deadline  |-> Pg!NextGeminiThrottleDeadline(postgres, EndOfSecond)]
    [] handler = "antigravity" ->
         [get       |-> [c \in DOMAIN postgres.cred |-> Pg!GetAntigravity(postgres, c)],
          listed    |-> Pg!ListAntigravity(postgres, EndOfSecond),
          available |-> Pg!ListAvailableAntigravity(postgres, EndOfSecond),
          enabled   |-> Pg!CountEnabled(postgres), count |-> Pg!CountAll(postgres),
          deadline  |-> Pg!NextAntigravityThrottleDeadline(postgres, EndOfSecond)]
    [] handler = "opencode" ->
         [get       |-> [c \in DOMAIN postgres.cred |-> Pg!GetOpenCodeGo(postgres, c)],
          listed    |-> Pg!ListOpenCodeGo(postgres, EndOfSecond),
          available |-> Pg!ListAvailableOpenCodeGo(postgres, EndOfSecond),
          enabled   |-> Pg!CountEnabled(postgres), count |-> Pg!CountAll(postgres),
          deadline  |-> Pg!NextOpenCodeGoThrottleDeadline(postgres, EndOfSecond)]

SqliteFiltered(f) ==
  CASE handler = "codex" ->
         [paged |-> Sq!ListCodexPaged(sqlite, f, time), count |-> Sq!CountCodexFiltered(sqlite, f, time),
          plans |-> Sq!ListCodexPlanTypes(sqlite, f, time)]
    [] handler = "gemini" ->
         [paged |-> Sq!ListGeminiCLIPaged(sqlite, f, time), count |-> Sq!CountGeminiCLIFiltered(sqlite, f, time),
          plans |-> Sq!ListGeminiCLIPlanTypes(sqlite, f, time)]
    [] handler = "antigravity" ->
         [paged |-> Sq!ListAntigravityPaged(sqlite, f, time), count |-> Sq!CountAntigravityFiltered(sqlite, f, time),
          plans |-> Sq!ListAntigravityPlanTypes(sqlite, f, time)]
    [] handler = "opencode" ->
         [paged |-> Sq!ListOpenCodeGoPaged(sqlite, f, time), count |-> Sq!CountOpenCodeGoFiltered(sqlite, f, time), plans |-> {}]
PostgresFiltered(f) ==
  CASE handler = "codex" ->
         [paged |-> Pg!ListCodexPaged(postgres, f, EndOfSecond), count |-> Pg!CountCodexFiltered(postgres, f, EndOfSecond),
          plans |-> Pg!ListCodexPlanTypes(postgres, f, EndOfSecond)]
    [] handler = "gemini" ->
         [paged |-> Pg!ListGeminiCLIPaged(postgres, f, EndOfSecond), count |-> Pg!CountGeminiCLIFiltered(postgres, f, EndOfSecond),
          plans |-> Pg!ListGeminiCLIPlanTypes(postgres, f, EndOfSecond)]
    [] handler = "antigravity" ->
         [paged |-> Pg!ListAntigravityPaged(postgres, f, EndOfSecond), count |-> Pg!CountAntigravityFiltered(postgres, f, EndOfSecond),
          plans |-> Pg!ListAntigravityPlanTypes(postgres, f, EndOfSecond)]
    [] handler = "opencode" ->
         [paged |-> Pg!ListOpenCodeGoPaged(postgres, f, EndOfSecond), count |-> Pg!CountOpenCodeGoFiltered(postgres, f, EndOfSecond), plans |-> {}]

Wholes(times)       == [n \in DOMAIN times |-> Whole(times[n])]
WholeCred(row)      == [row EXCEPT !.at = Wholes(@)]
WholeQuota(row)     == [row EXCEPT !.reset = Wholes(@), !.until = Wholes(@), !.synced = Whole(@)]
WholeListed(row)    == [WholeQuota(row) EXCEPT !.cred = WholeCred(@)]
WholeAvailable(row) == IF "throttled" \in DOMAIN row
                       THEN [WholeQuota(row) EXCEPT !.throttled = Whole(@)] ELSE WholeQuota(row)

\* The same rows, to the second, but for the credentials refused.
Same(s, p, Rounded(_)) ==
  /\ DOMAIN s \ refused = DOMAIN p \ refused
  /\ \A c \in DOMAIN s \ refused : s[c] = Rounded(p[c])

\* Whichever database the program runs on, it is told the same of the
\* credentials, to the second: each of them, the lists, the pages of every
\* filter, what is available, the counts, the plan types and the next throttle
\* deadline.  Excepted are credentials of which PostgreSQL refused a write that
\* SQLite took, one with a time missing.
StoresAgree ==
  LET s == SqliteTold
      p == PostgresTold
  IN /\ Same(s.get, p.get, WholeCred)
     /\ Same(s.listed, p.listed, WholeListed)
     /\ Same(s.available, p.available, WholeAvailable)
     /\ refused = {} => /\ s.enabled = p.enabled /\ s.count = p.count
                        /\ s.deadline = Whole(p.deadline)
     /\ \A f \in Filters :
          LET sf == SqliteFiltered(f)
              pf == PostgresFiltered(f)
          IN /\ Same(sf.paged, pf.paged, WholeListed)
             /\ refused = {} => sf.count = pf.count /\ sf.plans = pf.plans

\* Whatever the lists of available credentials report as throttled, in either
\* database, the deadline that the refresher waits for comes no later: a
\* credential is back once its throttle has ended.
DeadlineCoversThrottles ==
  \A told \in {[s |-> SqliteTold, now |-> Whole(time)], [s |-> PostgresTold, now |-> EndOfSecond]} :
    \A c \in DOMAIN told.s.available : \A t \in Tiers :
      LET until == told.s.available[c].until[t]
      IN until > told.now => told.s.deadline > told.now /\ told.s.deadline <= until
=============================================================================
