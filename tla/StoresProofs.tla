----------------------------- MODULE StoresProofs -----------------------------
(***************************************************************************)
(* Proofs about Stores, for any credentials and any number of calls.  What *)
(* SQLite has of a credential that no database has refused is what         *)
(* PostgreSQL has of it, a time in one being the second of the time in the *)
(* other (StoresInv).  So the queries, written once for each, answer the   *)
(* same; and within one database the next deadline is not before any of    *)
(* the throttles that are reported.                                        *)
(***************************************************************************)
EXTENDS MCTables, FiniteSetTheorems, WellFoundedInduction, TLAPS

\* The times of a credential and the columns of a quota row, by provider.
CredTimes ==
  CASE handler = "codex"    -> {"expired"}
    [] handler = "opencode" -> {"created", "updated"}
    [] OTHER                -> {"expired", "synced"}
CredRow ==
  IF handler = "opencode"
  THEN [status : D!Statuses, at : [CredTimes -> Int]]
  ELSE [status : D!Statuses, plan : {"", "paid"}, refresh : BOOLEAN, at : [CredTimes -> Int]]
Windows ==
  CASE handler = "codex"       -> D!CodexWindows
    [] handler = "gemini"      -> D!GeminiTiers
    [] handler = "antigravity" -> D!AntigravityTiers
    [] handler = "opencode"    -> D!OpenCodeWindows
QuotaRow == [reset : [Windows -> Int], until : [D!Tiers -> Int], synced : Int]

\* Rows of ids among X.
RowsOf(f, X, K) ==
  /\ f = [x \in DOMAIN f |-> f[x]]
  /\ DOMAIN f \subseteq X /\ \A x \in DOMAIN f : f[x] \in K

\* The tables of a database are in their types, and refer to credentials that are there.
Good(d) ==
  /\ d \in [cred : {d.cred}, quota : {d.quota}, credits : {d.credits}, err : BOOLEAN]
  /\ RowsOf(d.cred, Ids, CredRow)
  /\ RowsOf(d.quota, DOMAIN d.cred, QuotaRow)
  /\ d.credits \subseteq DOMAIN d.cred

\* A time in SQLite and the same in PostgreSQL; a window may have none.
Hard(v, w) == w \in Int /\ w >= 2 /\ v = D!Whole(w)
Soft(v, w) == IF w = D!Null THEN v \in {D!Null, D!Sq!Q!Blank} ELSE Hard(v, w)
ResetCell(v, w) == IF handler \in {"codex", "opencode"} THEN Soft(v, w) ELSE Hard(v, w)

CredAgree(a, b) ==
  /\ a \in CredRow /\ b \in CredRow
  /\ a.status = b.status
  /\ handler # "opencode" => a.plan = b.plan /\ a.refresh = b.refresh
  /\ \A n \in CredTimes : Hard(a.at[n], b.at[n])
QuotaAgree(a, b) ==
  /\ a \in QuotaRow /\ b \in QuotaRow
  /\ \A n \in Windows : ResetCell(a.reset[n], b.reset[n])
  /\ \A t \in D!Tiers : Hard(a.until[t], b.until[t])
  /\ Hard(a.synced, b.synced)

\* Nothing of x differs between d and e.
SameAt(d, e, x) ==
  /\ x \in DOMAIN d.cred <=> x \in DOMAIN e.cred
  /\ x \in DOMAIN d.cred => e.cred[x] = d.cred[x]
  /\ x \in DOMAIN d.quota <=> x \in DOMAIN e.quota
  /\ x \in DOMAIN d.quota => e.quota[x] = d.quota[x]
  /\ x \in d.credits <=> x \in e.credits

\* What SQLite has of x is what PostgreSQL has, to the second.
RelAt(s, p, x) ==
  /\ x \in DOMAIN s.cred <=> x \in DOMAIN p.cred
  /\ x \in DOMAIN s.cred => CredAgree(s.cred[x], p.cred[x])
  /\ x \in DOMAIN s.quota <=> x \in DOMAIN p.quota
  /\ x \in DOMAIN s.quota => QuotaAgree(s.quota[x], p.quota[x])
  /\ x \in s.credits <=> x \in p.credits

\* Every credential but the refused ones is the same in both.
StoresInv ==
  /\ D!TypeOK
  /\ Good(sqlite) /\ Good(postgres)
  /\ \A x \in Ids \ refused : RelAt(sqlite, postgres, x)

-----------------------------------------------------------------------------
(* What a statement does to the tables *)

IsTables(d) ==
  d \in [cred : {d.cred}, quota : {d.quota}, credits : {d.credits}, err : BOOLEAN]

LEMMA FieldsSet ==
  ASSUME NEW d, IsTables(d), NEW X
  PROVE  /\ \A e : e = [d EXCEPT !.cred = X] =>
              IsTables(e) /\ e.cred = X /\ e.quota = d.quota /\ e.credits = d.credits /\ e.err =
                   d.err
         /\ \A e : e = [d EXCEPT !.quota = X] =>
              IsTables(e) /\ e.cred = d.cred /\ e.quota = X /\ e.credits = d.credits /\ e.err =
                   d.err
         /\ \A e : e = [d EXCEPT !.credits = X] =>
              IsTables(e) /\ e.cred = d.cred /\ e.quota = d.quota /\ e.credits = X /\ e.err = d.err
         /\ \A e : X \in BOOLEAN /\ e = [d EXCEPT !.err = X] =>
              IsTables(e) /\ e.cred = d.cred /\ e.quota = d.quota /\ e.credits = d.credits /\
                   e.err = X
BY DEF IsTables

\* A call that is about c alone, and changes nothing when it answers with an error.
Touches(d, e, c) ==
  /\ Good(e) /\ \A x \in Ids : x # c => SameAt(d, e, x)
  /\ e.err => SameAt(d, e, c)

\* The row of c is this now, and the rest of c as it was.
CredNow(d, e, c, row) ==
  /\ c \in DOMAIN e.cred /\ e.cred[c] = row
  /\ c \in DOMAIN d.quota <=> c \in DOMAIN e.quota
  /\ c \in DOMAIN d.quota => e.quota[c] = d.quota[c]
  /\ c \in d.credits <=> c \in e.credits
QuotaNow(d, e, c, row) ==
  /\ c \in DOMAIN d.cred /\ c \in DOMAIN e.cred /\ e.cred[c] = d.cred[c]
  /\ c \in DOMAIN e.quota /\ e.quota[c] = row
  /\ c \in d.credits <=> c \in e.credits

LEMMA FailedStep ==
  ASSUME NEW d, Good(d)
  PROVE  /\ D!Failed(d).err = TRUE /\ Good(D!Failed(d)) /\ \A x : SameAt(d, D!Failed(d), x)
<1>1. PICK e : e = D!Failed(d)
  OBVIOUS
<1>2. IsTables(e) /\ e.cred = d.cred /\ e.quota = d.quota /\ e.credits = d.credits /\ e.err = TRUE
  BY <1>1, FieldsSet DEF Good, IsTables, D!Failed
<1>3. Good(e)
  BY <1>2 DEF Good, IsTables
<1>4. \A x : SameAt(d, e, x)
  BY <1>2 DEF SameAt
<1> QED
  BY <1>1, <1>2, <1>3, <1>4

PutTo(f, g, c, row) ==
  /\ DOMAIN g = DOMAIN f \cup {c} /\ g[c] = row
  /\ \A x \in DOMAIN f : x # c => g[x] = f[x]

LEMMA PutRowIs ==
  ASSUME NEW f, NEW X, NEW K, RowsOf(f, X, K), NEW c, c \in X, NEW row, row \in K,
         NEW g, g = D!PutRow(f, c, row)
  PROVE  RowsOf(g, X, K) /\ PutTo(f, g, c, row)
BY DEF D!PutRow, RowsOf, PutTo

LEMMA PutCredStep ==
  ASSUME NEW d, Good(d), ~d.err, NEW c \in Ids, NEW row \in CredRow
  PROVE  /\ Touches(d, D!PutCred(d, c, row), c)
         /\ ~D!PutCred(d, c, row).err
         /\ CredNow(d, D!PutCred(d, c, row), c, row)
<1>1. PICK f : f = D!PutRow(d.cred, c, row)
  OBVIOUS
<1>2. RowsOf(f, Ids, CredRow) /\ DOMAIN f = DOMAIN d.cred \cup {c} /\ f[c] = row
      /\ \A x \in DOMAIN d.cred : x # c => f[x] = d.cred[x]
  <2>1. RowsOf(d.cred, Ids, CredRow)
    BY DEF Good
  <2>2. RowsOf(f, Ids, CredRow) /\ PutTo(d.cred, f, c, row)
    BY <1>1, <2>1, PutRowIs
  <2> QED
    BY <2>2 DEF PutTo
<1>3. PICK e : e = D!PutCred(d, c, row)
  OBVIOUS
<1>4. e = [d EXCEPT !.cred = f]
  BY <1>1, <1>3 DEF D!PutCred
<1>5. IsTables(e) /\ e.cred = f /\ e.quota = d.quota /\ e.credits = d.credits /\ e.err = d.err
  BY <1>4, FieldsSet DEF Good, IsTables
<1>6. Good(e)
  BY <1>2, <1>5 DEF Good, IsTables, RowsOf
<1>7. \A x \in Ids : x # c => SameAt(d, e, x)
  BY <1>2, <1>5 DEF SameAt
<1>8. CredNow(d, e, c, row)
  BY <1>2, <1>5 DEF CredNow
<1> QED
  BY <1>3, <1>5, <1>6, <1>7, <1>8 DEF Touches

LEMMA SetCredStep ==
  ASSUME NEW d, Good(d), ~d.err, NEW c \in Ids, NEW row, c \in DOMAIN d.cred => row \in CredRow
  PROVE  /\ Touches(d, D!SetCred(d, c, row), c)
         /\ D!SetCred(d, c, row).err <=> c \notin DOMAIN d.cred
         /\ c \in DOMAIN d.cred => CredNow(d, D!SetCred(d, c, row), c, row)
<1>1. CASE c \notin DOMAIN d.cred
  BY <1>1, FailedStep DEF D!SetCred, Touches
<1>2. CASE c \in DOMAIN d.cred
  <2>1. PICK f : f = [d.cred EXCEPT ![c] = row]
    OBVIOUS
  <2>2. RowsOf(f, Ids, CredRow) /\ DOMAIN f = DOMAIN d.cred /\ f[c] = row
        /\ \A x \in DOMAIN d.cred : x # c => f[x] = d.cred[x]
    BY <1>2, <2>1 DEF Good, RowsOf
  <2>3. PICK e : e = D!SetCred(d, c, row)
    OBVIOUS
  <2>4. [d EXCEPT !.cred[c] = row] = [d EXCEPT !.cred = [d.cred EXCEPT ![c] = row]]
    OBVIOUS
  <2>5. e = [d EXCEPT !.cred = f]
    BY <1>2, <2>1, <2>3, <2>4 DEF D!SetCred
  <2>6. IsTables(e) /\ e.cred = f /\ e.quota = d.quota /\ e.credits = d.credits /\ e.err = d.err
    BY <2>5, FieldsSet DEF Good, IsTables
  <2>7. Good(e)
    BY <2>2, <2>6 DEF Good, IsTables
  <2>8. \A x \in Ids : x # c => SameAt(d, e, x)
    BY <2>2, <2>6 DEF SameAt
  <2>9. CredNow(d, e, c, row)
    BY <1>2, <2>2, <2>6 DEF CredNow
  <2> QED
    BY <1>2, <2>3, <2>6, <2>7, <2>8, <2>9 DEF Touches
<1> QED
  BY <1>1, <1>2

LEMMA PutQuotaStep ==
  ASSUME NEW d, Good(d), ~d.err, NEW c \in Ids, NEW row, c \in DOMAIN d.cred => row \in QuotaRow
  PROVE  /\ Touches(d, D!PutQuota(d, c, row), c)
         /\ D!PutQuota(d, c, row).err <=> c \notin DOMAIN d.cred
         /\ c \in DOMAIN d.cred => QuotaNow(d, D!PutQuota(d, c, row), c, row)
<1>1. CASE c \notin DOMAIN d.cred
  BY <1>1, FailedStep DEF D!PutQuota, Touches
<1>2. CASE c \in DOMAIN d.cred
  <2>1. PICK f : f = D!PutRow(d.quota, c, row)
    OBVIOUS
  <2>2. RowsOf(f, DOMAIN d.cred, QuotaRow) /\ DOMAIN f = DOMAIN d.quota \cup {c} /\ f[c] = row
        /\ \A x \in DOMAIN d.quota : x # c => f[x] = d.quota[x]
    <3>1. RowsOf(d.quota, DOMAIN d.cred, QuotaRow)
      BY DEF Good
    <3>2. row \in QuotaRow
      BY <1>2
    <3>3. RowsOf(f, DOMAIN d.cred, QuotaRow) /\ PutTo(d.quota, f, c, row)
      BY <1>2, <2>1, <3>1, <3>2, PutRowIs
    <3> QED
      BY <3>3 DEF PutTo
  <2>3. PICK e : e = D!PutQuota(d, c, row)
    OBVIOUS
  <2>4. e = [d EXCEPT !.quota = f]
    BY <1>2, <2>1, <2>3 DEF D!PutQuota
  <2>5. IsTables(e) /\ e.cred = d.cred /\ e.quota = f /\ e.credits = d.credits /\ e.err = d.err
    BY <2>4, FieldsSet DEF Good, IsTables
  <2>6. Good(e)
    BY <2>2, <2>5 DEF Good, IsTables
  <2>7. \A x \in Ids : x # c => SameAt(d, e, x)
    BY <2>2, <2>5 DEF SameAt
  <2>8. QuotaNow(d, e, c, row)
    BY <1>2, <2>2, <2>5 DEF QuotaNow
  <2> QED
    BY <1>2, <2>3, <2>5, <2>6, <2>7, <2>8 DEF Touches
<1> QED
  BY <1>1, <1>2

EraseRow(f, c) == [x \in DOMAIN f \ {c} |-> f[x]]

LEMMA EraseRowIs ==
  ASSUME NEW f, NEW X, NEW K, RowsOf(f, X, K), NEW c
  PROVE  /\ RowsOf(EraseRow(f, c), X, K) /\ RowsOf(EraseRow(f, c), X \ {c}, K)
         /\ DOMAIN EraseRow(f, c) = DOMAIN f \ {c}
         /\ \A x \in DOMAIN f : x # c => EraseRow(f, c)[x] = f[x]
BY DEF EraseRow, RowsOf

LEMMA EraseQuotaStep ==
  ASSUME NEW d, Good(d), ~d.err, NEW c \in Ids
  PROVE  /\ Touches(d, D!EraseQuota(d, c), c)
         /\ ~D!EraseQuota(d, c).err
         /\ c \in DOMAIN d.cred <=> c \in DOMAIN D!EraseQuota(d, c).cred
         /\ c \in DOMAIN d.cred => D!EraseQuota(d, c).cred[c] = d.cred[c]
         /\ c \notin DOMAIN D!EraseQuota(d, c).quota
         /\ c \in d.credits <=> c \in D!EraseQuota(d, c).credits
<1>1. PICK f : f = EraseRow(d.quota, c)
  OBVIOUS
<1>2. RowsOf(f, DOMAIN d.cred, QuotaRow) /\ DOMAIN f = DOMAIN d.quota \ {c}
      /\ \A x \in DOMAIN d.quota : x # c => f[x] = d.quota[x]
  <2>1. RowsOf(d.quota, DOMAIN d.cred, QuotaRow)
    BY DEF Good
  <2> QED
    BY <1>1, <2>1, EraseRowIs
<1>3. PICK e : e = D!EraseQuota(d, c)
  OBVIOUS
<1>4. e = [d EXCEPT !.quota = f]
  BY <1>1, <1>3 DEF D!EraseQuota, D!Restrict, EraseRow
<1>5. IsTables(e) /\ e.cred = d.cred /\ e.quota = f /\ e.credits = d.credits /\ e.err = d.err
  BY <1>4, FieldsSet DEF Good, IsTables
<1>6. Good(e)
  BY <1>2, <1>5 DEF Good, IsTables
<1>7. \A x \in Ids : x # c => SameAt(d, e, x)
  BY <1>2, <1>5 DEF SameAt
<1> QED
  BY <1>2, <1>3, <1>5, <1>6, <1>7 DEF Touches

LEMMA EraseCredStep ==
  ASSUME NEW d, Good(d), ~d.err, NEW c \in Ids
  PROVE  /\ Touches(d, D!EraseCred(d, c), c)
         /\ ~D!EraseCred(d, c).err
         /\ c \notin DOMAIN D!EraseCred(d, c).cred
         /\ c \notin DOMAIN D!EraseCred(d, c).quota
         /\ c \notin D!EraseCred(d, c).credits
<1>1. PICK f : f = EraseRow(d.cred, c)
  OBVIOUS
<1>2. PICK g : g = EraseRow(d.quota, c)
  OBVIOUS
<1>3. RowsOf(f, Ids, CredRow) /\ DOMAIN f = DOMAIN d.cred \ {c}
      /\ \A x \in DOMAIN d.cred : x # c => f[x] = d.cred[x]
  <2>1. RowsOf(d.cred, Ids, CredRow)
    BY DEF Good
  <2> QED
    BY <1>1, <2>1, EraseRowIs
<1>4. RowsOf(g, DOMAIN d.cred \ {c}, QuotaRow) /\ DOMAIN g = DOMAIN d.quota \ {c}
      /\ \A x \in DOMAIN d.quota : x # c => g[x] = d.quota[x]
  <2>1. RowsOf(d.quota, DOMAIN d.cred, QuotaRow)
    BY DEF Good
  <2> QED
    BY <1>2, <2>1, EraseRowIs
<1>5. PICK e : e = D!EraseCred(d, c)
  OBVIOUS
<1>6. PICK e1 : e1 = [d EXCEPT !.cred = f]
  OBVIOUS
<1>7. PICK e2 : e2 = [e1 EXCEPT !.quota = g]
  OBVIOUS
<1>8. PICK e3 : e3 = [e2 EXCEPT !.credits = d.credits \ {c}]
  OBVIOUS
<1>9. IsTables(e1) /\ e1.cred = f /\ e1.quota = d.quota /\ e1.credits = d.credits /\ e1.err = d.err
  BY <1>6, FieldsSet DEF Good, IsTables
<1>10. IsTables(e2) /\ e2.cred = f /\ e2.quota = g /\ e2.credits = d.credits /\ e2.err = d.err
  BY <1>7, <1>9, FieldsSet
<1>11. IsTables(e3) /\ e3.cred = f /\ e3.quota = g /\ e3.credits = d.credits \ {c} /\ e3.err = d.err
  BY <1>8, <1>10, FieldsSet
<1>12. e = e3
  <2>1. IsTables(d)
    BY DEF Good, IsTables
  <2> QED
    BY <1>1, <1>2, <1>5, <1>6, <1>7, <1>8, <2>1 DEF D!EraseCred, D!Restrict, EraseRow, IsTables
<1>13. Good(e)
  BY <1>3, <1>4, <1>11, <1>12 DEF Good, IsTables
<1>14. \A x \in Ids : x # c => SameAt(d, e, x)
  BY <1>3, <1>4, <1>11, <1>12 DEF SameAt
<1> QED
  BY <1>3, <1>4, <1>5, <1>11, <1>12, <1>13, <1>14 DEF Touches

LEMMA CreditsStep ==
  ASSUME NEW d, Good(d), ~d.err, NEW c \in Ids, c \in DOMAIN d.cred, NEW e,
         e = [d EXCEPT !.credits = @ \cup {c}]
  PROVE  /\ Good(e) /\ e.cred = d.cred /\ e.quota = d.quota /\ ~e.err
         /\ c \in e.credits /\ \A x : x # c => (x \in e.credits <=> x \in d.credits)
<1>1. IsTables(e) /\ e.cred = d.cred /\ e.quota = d.quota /\ e.credits = d.credits \cup {c} /\
      e.err = d.err
  BY FieldsSet DEF Good, IsTables
<1> QED
  BY <1>1 DEF Good, IsTables

-----------------------------------------------------------------------------
(* The same call made of both *)

LEMMA SameKeeps ==
  ASSUME NEW s, NEW p, NEW u, NEW v, NEW x, RelAt(s, p, x), SameAt(s, u, x), SameAt(p, v, x)
  PROVE  RelAt(u, v, x)
BY DEF RelAt, SameAt

LEMMA SameTwice ==
  ASSUME NEW d, NEW u, NEW e, NEW x, SameAt(d, u, x), SameAt(u, e, x)
  PROVE  SameAt(d, e, x)
BY DEF SameAt

\* Both are well, and are told the same of c if they agreed on it.
Paired(s, p, u, v, c) ==
  /\ Touches(s, u, c) /\ Touches(p, v, c)
  /\ RelAt(s, p, c) => RelAt(u, v, c) /\ (u.err <=> v.err)

\* ... or PostgreSQL alone refused a call with one of these times missing.
Moves(s, p, u, v, c, times) ==
  /\ Good(u) /\ Good(v)
  /\ \A x \in Ids : x # c /\ RelAt(s, p, x) => RelAt(u, v, x)
  /\ RelAt(s, p, c) => RelAt(u, v, c) \/ (v.err /\ ~u.err /\ D!ZeroTime \in times)

LEMMA PairedMoves ==
  ASSUME NEW s, NEW p, NEW u, NEW v, NEW c, Paired(s, p, u, v, c), NEW times
  PROVE  Moves(s, p, u, v, c, times)
<1>1. ASSUME NEW x \in Ids, x # c, RelAt(s, p, x) PROVE RelAt(u, v, x)
  <2>1. SameAt(s, u, x) /\ SameAt(p, v, x)
    BY <1>1 DEF Paired, Touches
  <2> QED
    BY <1>1, <2>1, SameKeeps
<1> QED
  BY <1>1 DEF Paired, Touches, Moves

LEMMA RefusedMoves ==
  ASSUME NEW s, NEW p, NEW u, NEW v, NEW c \in Ids, NEW times, Good(p), Touches(s, u, c),
         v = D!Failed(p), D!ZeroTime \in times
  PROVE  Moves(s, p, u, v, c, times)
<1>1. Good(v) /\ v.err = TRUE /\ \A x : SameAt(p, v, x)
  BY FailedStep
<1>2. ASSUME NEW x \in Ids, x # c, RelAt(s, p, x) PROVE RelAt(u, v, x)
  <2>1. SameAt(s, u, x)
    BY <1>2 DEF Touches
  <2> QED
    BY <1>1, <1>2, <2>1, SameKeeps
<1>3. ASSUME RelAt(s, p, c), u.err PROVE RelAt(u, v, c)
  <2>1. SameAt(s, u, c)
    BY <1>3 DEF Touches
  <2> QED
    BY <1>1, <1>3, <2>1, SameKeeps
<1>4. u.err \in BOOLEAN
  BY DEF Touches, Good
<1> QED
  BY <1>1, <1>2, <1>3, <1>4 DEF Touches, Moves

LEMMA FailedPair ==
  ASSUME NEW s, NEW p, NEW c \in Ids, Good(s), Good(p)
  PROVE  Paired(s, p, D!Failed(s), D!Failed(p), c)
<1>1. /\ D!Failed(s).err = TRUE /\ Good(D!Failed(s)) /\ \A x : SameAt(s, D!Failed(s), x)
      /\ D!Failed(p).err = TRUE /\ Good(D!Failed(p)) /\ \A x : SameAt(p, D!Failed(p), x)
  BY FailedStep
<1>2. RelAt(s, p, c) => RelAt(D!Failed(s), D!Failed(p), c)
  BY <1>1, SameKeeps
<1> QED
  BY <1>1, <1>2 DEF Paired, Touches

\* Tables before a call: in their types, and no error yet.
Ready(d) == Good(d) /\ ~d.err

LEMMA SetCredPair ==
  ASSUME NEW s, NEW p, NEW c \in Ids, NEW a, NEW b, Ready(s), Ready(p),
         c \in DOMAIN s.cred => a \in CredRow, c \in DOMAIN p.cred => b \in CredRow,
         RelAt(s, p, c) /\ c \in DOMAIN s.cred => CredAgree(a, b)
  PROVE  Paired(s, p, D!SetCred(s, c, a), D!SetCred(p, c, b), c)
<1>1. PICK u, v : u = D!SetCred(s, c, a) /\ v = D!SetCred(p, c, b)
  OBVIOUS
<1>2. /\ Touches(s, u, c) /\ (u.err <=> c \notin DOMAIN s.cred)
      /\ c \in DOMAIN s.cred => CredNow(s, u, c, a)
  BY <1>1, SetCredStep DEF Ready
<1>3. /\ Touches(p, v, c) /\ (v.err <=> c \notin DOMAIN p.cred)
      /\ c \in DOMAIN p.cred => CredNow(p, v, c, b)
  BY <1>1, SetCredStep DEF Ready
<1>4. ASSUME RelAt(s, p, c) PROVE RelAt(u, v, c) /\ (u.err <=> v.err)
  <2>1. c \in DOMAIN s.cred <=> c \in DOMAIN p.cred
    BY <1>4 DEF RelAt
  <2>2. CASE c \in DOMAIN s.cred
    <3>1. CredAgree(a, b) /\ CredNow(s, u, c, a) /\ CredNow(p, v, c, b)
      BY <1>2, <1>3, <1>4, <2>1, <2>2
    <3> QED
      BY <1>2, <1>3, <1>4, <2>1, <3>1 DEF CredNow, RelAt
  <2>3. CASE c \notin DOMAIN s.cred
    <3>1. SameAt(s, u, c) /\ SameAt(p, v, c)
      BY <1>2, <1>3, <2>1, <2>3 DEF Touches
    <3> QED
      BY <1>2, <1>3, <1>4, <2>1, <3>1, SameKeeps
  <2> QED
    BY <2>2, <2>3
<1> QED
  BY <1>1, <1>2, <1>3, <1>4 DEF Paired

LEMMA PutCredPair ==
  ASSUME NEW s, NEW p, NEW c \in Ids, NEW a \in CredRow, NEW b \in CredRow, Ready(s), Ready(p),
         RelAt(s, p, c) => CredAgree(a, b)
  PROVE  Paired(s, p, D!PutCred(s, c, a), D!PutCred(p, c, b), c)
<1>1. PICK u, v : u = D!PutCred(s, c, a) /\ v = D!PutCred(p, c, b)
  OBVIOUS
<1>2. Touches(s, u, c) /\ ~u.err /\ CredNow(s, u, c, a)
  BY <1>1, PutCredStep DEF Ready
<1>3. Touches(p, v, c) /\ ~v.err /\ CredNow(p, v, c, b)
  BY <1>1, PutCredStep DEF Ready
<1>4. ASSUME RelAt(s, p, c) PROVE RelAt(u, v, c)
  <2>1. CredAgree(a, b)
    BY <1>4
  <2> QED
    BY <1>2, <1>3, <1>4, <2>1 DEF CredNow, RelAt
<1> QED
  BY <1>1, <1>2, <1>3, <1>4 DEF Paired

LEMMA PutQuotaPair ==
  ASSUME NEW s, NEW p, NEW c \in Ids, NEW a, NEW b, Ready(s), Ready(p),
         c \in DOMAIN s.cred => a \in QuotaRow, c \in DOMAIN p.cred => b \in QuotaRow,
         RelAt(s, p, c) => QuotaAgree(a, b)
  PROVE  Paired(s, p, D!PutQuota(s, c, a), D!PutQuota(p, c, b), c)
<1>1. PICK u, v : u = D!PutQuota(s, c, a) /\ v = D!PutQuota(p, c, b)
  OBVIOUS
<1>2. /\ Touches(s, u, c) /\ (u.err <=> c \notin DOMAIN s.cred)
      /\ c \in DOMAIN s.cred => QuotaNow(s, u, c, a)
  BY <1>1, PutQuotaStep DEF Ready
<1>3. /\ Touches(p, v, c) /\ (v.err <=> c \notin DOMAIN p.cred)
      /\ c \in DOMAIN p.cred => QuotaNow(p, v, c, b)
  BY <1>1, PutQuotaStep DEF Ready
<1>4. ASSUME RelAt(s, p, c) PROVE RelAt(u, v, c) /\ (u.err <=> v.err)
  <2>1. c \in DOMAIN s.cred <=> c \in DOMAIN p.cred
    BY <1>4 DEF RelAt
  <2>2. CASE c \in DOMAIN s.cred
    <3>1. QuotaAgree(a, b) /\ QuotaNow(s, u, c, a) /\ QuotaNow(p, v, c, b)
      BY <1>2, <1>3, <1>4, <2>1, <2>2
    <3> QED
      BY <1>2, <1>3, <1>4, <2>1, <3>1 DEF QuotaNow, RelAt
  <2>3. CASE c \notin DOMAIN s.cred
    <3>1. SameAt(s, u, c) /\ SameAt(p, v, c)
      BY <1>2, <1>3, <2>1, <2>3 DEF Touches
    <3> QED
      BY <1>2, <1>3, <1>4, <2>1, <3>1, SameKeeps
  <2> QED
    BY <2>2, <2>3
<1> QED
  BY <1>1, <1>2, <1>3, <1>4 DEF Paired

LEMMA ErasePairs ==
  ASSUME NEW s, NEW p, NEW c \in Ids, Ready(s), Ready(p)
  PROVE  /\ Paired(s, p, D!EraseQuota(s, c), D!EraseQuota(p, c), c)
         /\ Paired(s, p, D!EraseCred(s, c), D!EraseCred(p, c), c)
<1>1. Paired(s, p, D!EraseQuota(s, c), D!EraseQuota(p, c), c)
  <2>1. PICK u, v : u = D!EraseQuota(s, c) /\ v = D!EraseQuota(p, c)
    OBVIOUS
  <2>2. /\ Touches(s, u, c) /\ ~u.err
        /\ c \in DOMAIN s.cred <=> c \in DOMAIN u.cred
        /\ c \in DOMAIN s.cred => u.cred[c] = s.cred[c]
        /\ c \notin DOMAIN u.quota /\ (c \in s.credits <=> c \in u.credits)
    BY <2>1, EraseQuotaStep DEF Ready
  <2>3. /\ Touches(p, v, c) /\ ~v.err
        /\ c \in DOMAIN p.cred <=> c \in DOMAIN v.cred
        /\ c \in DOMAIN p.cred => v.cred[c] = p.cred[c]
        /\ c \notin DOMAIN v.quota /\ (c \in p.credits <=> c \in v.credits)
    BY <2>1, EraseQuotaStep DEF Ready
  <2>4. RelAt(s, p, c) => RelAt(u, v, c)
    BY <2>2, <2>3 DEF RelAt
  <2> QED
    BY <2>1, <2>2, <2>3, <2>4 DEF Paired
<1>2. Paired(s, p, D!EraseCred(s, c), D!EraseCred(p, c), c)
  <2>1. PICK u, v : u = D!EraseCred(s, c) /\ v = D!EraseCred(p, c)
    OBVIOUS
  <2>2. /\ Touches(s, u, c) /\ ~u.err
        /\ c \notin DOMAIN u.cred /\ c \notin DOMAIN u.quota /\ c \notin u.credits
    BY <2>1, EraseCredStep DEF Ready
  <2>3. /\ Touches(p, v, c) /\ ~v.err
        /\ c \notin DOMAIN v.cred /\ c \notin DOMAIN v.quota /\ c \notin v.credits
    BY <2>1, EraseCredStep DEF Ready
  <2>4. RelAt(u, v, c)
    BY <2>2, <2>3 DEF RelAt
  <2> QED
    BY <2>1, <2>2, <2>3, <2>4 DEF Paired
<1> QED
  BY <1>1, <1>2

LEMMA AffectingPair ==
  ASSUME NEW s, NEW p, NEW c \in Ids, NEW f, NEW g, NEW u, NEW v, Ready(s), Ready(p),
         Paired(s, p, u, v, c), RelAt(s, p, c) => (c \in DOMAIN f <=> c \in DOMAIN g)
  PROVE  Paired(s, p, D!Affecting(s, f, c, u), D!Affecting(p, g, c, v), c)
<1>1. Paired(s, p, D!Failed(s), D!Failed(p), c)
  BY FailedPair DEF Ready
<1> QED
  BY <1>1 DEF D!Affecting, Paired

LEMMA CommitTouches ==
  ASSUME NEW d, NEW u, NEW e, NEW c \in Ids, NEW status, Ready(d), Touches(d, u, c),
         ~u.err => Touches(u, e, c)
  PROVE  Touches(d, D!Commit(d, u, status, e), c)
<1>1. D!Failed(d).err = TRUE /\ Good(D!Failed(d)) /\ \A x : SameAt(d, D!Failed(d), x)
  BY FailedStep DEF Ready
<1>2. Touches(d, D!Failed(d), c)
  BY <1>1 DEF Touches
<1>3. ASSUME ~u.err, ~e.err PROVE Touches(d, e, c)
  <2>1. \A x \in Ids : x # c => SameAt(d, u, x) /\ SameAt(u, e, x)
    BY <1>3 DEF Touches
  <2>2. \A x \in Ids : x # c => SameAt(d, e, x)
    BY <2>1, SameTwice
  <2> QED
    BY <1>3, <2>2 DEF Touches
<1> QED
  BY <1>2, <1>3 DEF D!Commit

LEMMA CommitPair ==
  ASSUME NEW s, NEW p, NEW u, NEW v, NEW a, NEW b, NEW c \in Ids, NEW status,
         Ready(s), Ready(p), Paired(s, p, u, v, c), 
         ~u.err => Touches(u, a, c), ~v.err => Touches(v, b, c),
         ~u.err /\ ~v.err => Paired(u, v, a, b, c)
  PROVE  Paired(s, p, D!Commit(s, u, status, a), D!Commit(p, v, status, b), c)
<1>1. Touches(s, D!Commit(s, u, status, a), c) /\ Touches(p, D!Commit(p, v, status, b), c)
  BY CommitTouches DEF Paired
<1>2. Paired(s, p, D!Failed(s), D!Failed(p), c)
  BY FailedPair DEF Ready
<1>3. ASSUME RelAt(s, p, c)
      PROVE  LET x == D!Commit(s, u, status, a)
                 y == D!Commit(p, v, status, b)
             IN RelAt(x, y, c) /\ (x.err <=> y.err)
  <2>1. RelAt(u, v, c) /\ (u.err <=> v.err)
    BY <1>3 DEF Paired
  <2>2. ~u.err => RelAt(a, b, c) /\ (a.err <=> b.err)
    BY <2>1 DEF Paired
  <2>3. RelAt(D!Failed(s), D!Failed(p), c) /\ (D!Failed(s).err <=> D!Failed(p).err)
    BY <1>2, <1>3 DEF Paired
  <2>4. CASE u.err
    <3>1. D!Commit(s, u, status, a) = D!Failed(s) /\ D!Commit(p, v, status, b) = D!Failed(p)
      BY <2>1, <2>4 DEF D!Commit
    <3> QED
      BY <2>3, <3>1
  <2>5. CASE ~u.err /\ ~D!ShouldClear(status)
    <3>1. D!Commit(s, u, status, a) = u /\ D!Commit(p, v, status, b) = v
      BY <2>1, <2>5 DEF D!Commit
    <3> QED
      BY <2>1, <3>1
  <2>6. CASE ~u.err /\ D!ShouldClear(status) /\ a.err
    <3>1. D!Commit(s, u, status, a) = D!Failed(s) /\ D!Commit(p, v, status, b) = D!Failed(p)
      BY <2>1, <2>2, <2>6 DEF D!Commit
    <3> QED
      BY <2>3, <3>1
  <2>7. CASE ~u.err /\ D!ShouldClear(status) /\ ~a.err
    <3>1. D!Commit(s, u, status, a) = a /\ D!Commit(p, v, status, b) = b
      BY <2>1, <2>2, <2>7 DEF D!Commit
    <3> QED
      BY <2>2, <2>7, <3>1
  <2> QED
    BY <2>4, <2>5, <2>6, <2>7
<1> QED
  BY <1>1, <1>3 DEF Paired

-----------------------------------------------------------------------------
(* Times and rows *)

\* The tables are those of one of the four providers, and the clock has a value.
Known == handler \in {"codex", "gemini", "antigravity", "opencode"} /\ time \in Int /\ time >= 2

LEMMA ShapesAre ==
  /\ handler = "codex" => CredTimes = {"expired"} /\ Windows = D!CodexWindows /\ D!Tiers =
       D!CodexTiers
  /\ handler = "gemini" =>
       CredTimes = {"expired", "synced"} /\ Windows = D!GeminiTiers /\ D!Tiers = D!GeminiTiers
  /\ handler = "antigravity" =>
       CredTimes = {"expired", "synced"} /\ Windows = D!AntigravityTiers /\ D!Tiers =
            D!AntigravityTiers
  /\ handler = "opencode" =>
       CredTimes = {"created", "updated"} /\ Windows = D!OpenCodeWindows /\ D!Tiers =
            D!OpenCodeTiers
BY DEF CredTimes, Windows, D!Tiers

LEMMA WholeIs ==
  ASSUME NEW w \in Int, w >= 2
  PROVE  /\ D!Whole(w) \in Int /\ D!Whole(w) >= 2 /\ D!Whole(w) <= w
         /\ D!Whole(D!Whole(w)) = D!Whole(w) /\ Hard(D!Whole(w), w)
BY DEF D!Whole, D!PerSecond, Hard

LEMMA NowIs ==
  ASSUME Known
  PROVE  /\ D!Sq!Q!Now(time) \in Int /\ D!Pg!Q!Now(time) \in Int
         /\ Hard(D!Sq!Q!Now(time), D!Pg!Q!Now(time))
BY WholeIs DEF Known, D!Sq!Q!Now, D!Pg!Q!Now, D!Sq!Q!Whole, D!Whole, D!Sq!Q!PerSecond, D!PerSecond

\* A time that a call is given, as SQLite and as PostgreSQL store it.
GivenTime(t, v, w) ==
  /\ v \in Int /\ w \in Int
  /\ IF t = D!ZeroTime THEN v = D!Sq!Q!Blank /\ w = D!Null ELSE Hard(v, w) /\ w # D!Null

LEMMA TimesAre ==
  ASSUME Known, NEW t \in D!Times
  PROVE  GivenTime(t, D!Sq!fmtTime(t), D!Pg!tsFrom(t))
<1>1. t = 0 \/ (t = time + 1 /\ t \in Int /\ t >= 2)
  BY DEF Known, D!Times, D!ZeroTime
<1>2. t # 0 => Hard(D!Whole(t), t)
  BY <1>1, WholeIs
<1> QED
  BY <1>1, <1>2 DEF GivenTime, D!Sq!fmtTime, D!Pg!tsFrom, D!ZeroTime, D!Sq!ZeroTime, D!Pg!ZeroTime,
       D!Sq!Q!Blank, D!Pg!Null, D!Null, D!Sq!Whole, D!Whole, D!Sq!PerSecond, D!PerSecond, Hard

GivenRow == [status : D!Statuses, plan : {"", "paid"}, refresh : BOOLEAN, at : [{"expired"} -> Int]]

\* A credential row of a call, in both.
Given(r, a, b) ==
  /\ a \in GivenRow /\ b \in GivenRow
  /\ a.status = r.status /\ b.status = r.status /\ a.plan = b.plan /\ a.refresh = b.refresh
  /\ GivenTime(r.at.expired, a.at.expired, b.at.expired)

LEMMA GivenIs ==
  ASSUME Known, NEW r \in D!CredentialRows
  PROVE  Given(r, D!Sq!Formatted(r), D!Pg!Stamped(r)) /\ r.status \in D!Statuses
<1>1. PICK s \in D!Statuses \ {"disabled"}, q \in D!Plans, t \in D!Times :
        r = D!CredentialRow(s, q, t)
  BY DEF D!CredentialRows
<1>12. q \in {"", "paid"}
  BY DEF D!Plans
<1>2. /\ r.status = s /\ r.plan = q /\ r.refresh = (q = "paid") /\ r.at = [expired |-> t]
      /\ r.at.expired = t /\ DOMAIN r.at = {"expired"}
  BY <1>1 DEF D!CredentialRow
<1>3. PICK a : a = D!Sq!Formatted(r)
  OBVIOUS
<1>4. PICK b : b = D!Pg!Stamped(r)
  OBVIOUS
<1>5. GivenTime(t, D!Sq!fmtTime(t), D!Pg!tsFrom(t))
  BY TimesAre
<1>6. /\ a.status = s /\ a.plan = q /\ a.refresh = r.refresh
      /\ a = [status |-> s, plan |-> q, refresh |-> r.refresh,
           at |-> [n \in {"expired"} |-> D!Sq!fmtTime(t)]]
  BY <1>1, <1>2, <1>3 DEF D!CredentialRow, D!Sq!Formatted, D!Sq!FmtTimes
<1>7. /\ b.status = s /\ b.plan = q /\ b.refresh = r.refresh
      /\ b = [status |-> s, plan |-> q, refresh |-> r.refresh,
           at |-> [n \in {"expired"} |-> D!Pg!tsFrom(t)]]
  BY <1>1, <1>2, <1>4 DEF D!CredentialRow, D!Pg!Stamped, D!Pg!FromTimes
<1>8. s \in D!Statuses
  OBVIOUS
<1>9. a \in GivenRow /\ a.at.expired = D!Sq!fmtTime(t)
  BY <1>2, <1>5, <1>6, <1>8, <1>12 DEF GivenRow, GivenTime
<1>10. b \in GivenRow /\ b.at.expired = D!Pg!tsFrom(t)
  BY <1>2, <1>5, <1>7, <1>8, <1>12 DEF GivenRow, GivenTime
<1> QED
  BY <1>2, <1>3, <1>4, <1>5, <1>6, <1>7, <1>8, <1>9, <1>10 DEF Given

WithStatus(k, x) == [k EXCEPT !.status = x]
WithPlan(k)      == [k EXCEPT !.plan = "paid"]

LEMMA StatusRow ==
  ASSUME NEW k \in CredRow, NEW s \in D!Statuses, NEW m, m = [k EXCEPT !.status = s]
  PROVE  /\ m \in CredRow /\ m.status = s /\ m.at = k.at
         /\ handler # "opencode" => m.plan = k.plan /\ m.refresh = k.refresh
BY DEF CredRow

LEMMA PlanRow ==
  ASSUME NEW k \in CredRow, handler # "opencode", NEW m, m = [k EXCEPT !.plan = "paid"]
  PROVE  m \in CredRow /\ m.plan = "paid" /\ m.refresh = k.refresh /\ m.at = k.at /\ m.status =
       k.status
BY DEF CredRow

LEMMA StatusAgree ==
  ASSUME NEW k, NEW l, CredAgree(k, l), NEW s \in D!Statuses
  PROVE  CredAgree([k EXCEPT !.status = s], [l EXCEPT !.status = s])
<1>1. PICK m, n : m = [k EXCEPT !.status = s] /\ n = [l EXCEPT !.status = s]
  OBVIOUS
<1>2. /\ m \in CredRow /\ m.status = s /\ m.at = k.at
      /\ handler # "opencode" => m.plan = k.plan /\ m.refresh = k.refresh
  BY <1>1, StatusRow DEF CredAgree
<1>3. /\ n \in CredRow /\ n.status = s /\ n.at = l.at
      /\ handler # "opencode" => n.plan = l.plan /\ n.refresh = l.refresh
  BY <1>1, StatusRow DEF CredAgree
<1> QED
  BY <1>1, <1>2, <1>3 DEF CredAgree

LEMMA PlanAgree ==
  ASSUME NEW k, NEW l, CredAgree(k, l), handler # "opencode"
  PROVE  CredAgree([k EXCEPT !.plan = "paid"], [l EXCEPT !.plan = "paid"])
<1>1. PICK m, n : m = [k EXCEPT !.plan = "paid"] /\ n = [l EXCEPT !.plan = "paid"]
  OBVIOUS
<1>2. m \in CredRow /\ m.plan = "paid" /\ m.refresh = k.refresh /\ m.at = k.at /\ m.status =
      k.status
  BY <1>1, PlanRow DEF CredAgree
<1>3. n \in CredRow /\ n.plan = "paid" /\ n.refresh = l.refresh /\ n.at = l.at /\ n.status =
      l.status
  BY <1>1, PlanRow DEF CredAgree
<1> QED
  BY <1>1, <1>2, <1>3 DEF CredAgree


\* The row as Gemini and Antigravity store it, and the time of the sync.
SyncedRow(k, n) == [k EXCEPT !.at = [expired |-> @.expired, synced |-> n]]

LEMMA SyncedRowIs ==
  ASSUME handler \in {"gemini", "antigravity"}, NEW k, k \in GivenRow \/ k \in CredRow,
       NEW n \in Int,
         NEW m, m = SyncedRow(k, n)
  PROVE  /\ m \in CredRow /\ m.status = k.status /\ m.plan = k.plan /\ m.refresh = k.refresh
         /\ m.at.expired = k.at.expired /\ m.at.synced = n
<1>1. CredTimes = {"expired", "synced"}
  BY ShapesAre
<1>2. PICK X : X \in {{"expired"}, {"expired", "synced"}}
               /\ k \in [status : D!Statuses, plan : {"", "paid"}, refresh : BOOLEAN,
                    at : [X -> Int]]
  BY <1>1 DEF GivenRow, CredRow
<1>3. k.at.expired \in Int
  BY <1>2
<1>4. PICK t : t = [expired |-> k.at.expired, synced |-> n]
  OBVIOUS
<1>5. t \in [{"expired", "synced"} -> Int] /\ t.expired = k.at.expired /\ t.synced = n
  BY <1>3, <1>4
<1>6. m = [k EXCEPT !.at = t]
  BY <1>2, <1>4 DEF SyncedRow
<1>7. m \in [status : D!Statuses, plan : {"", "paid"}, refresh : BOOLEAN,
      at : [{"expired", "synced"} -> Int]]
  BY <1>2, <1>5, <1>6
<1> QED
  BY <1>1, <1>2, <1>5, <1>6, <1>7 DEF CredRow

LEMMA SyncedAgree ==
  ASSUME handler \in {"gemini", "antigravity"}, NEW k, NEW l, NEW m, NEW n, Hard(m, n), m \in Int,
         \/ CredAgree(k, l)
         \/ /\ k \in GivenRow /\ l \in GivenRow /\ k.status = l.status /\ k.plan = l.plan
            /\ k.refresh = l.refresh /\ Hard(k.at.expired, l.at.expired)
  PROVE  CredAgree(SyncedRow(k, m), SyncedRow(l, n))
<1>1. CredTimes = {"expired", "synced"}
  BY ShapesAre
<1>2. /\ k.status = l.status /\ k.plan = l.plan /\ k.refresh = l.refresh
      /\ Hard(k.at.expired, l.at.expired) /\ n \in Int
      /\ k \in GivenRow \/ k \in CredRow
      /\ l \in GivenRow \/ l \in CredRow
  BY <1>1 DEF CredAgree, Hard
<1>3. PICK a : a = SyncedRow(k, m)
  OBVIOUS
<1>4. PICK b : b = SyncedRow(l, n)
  OBVIOUS
<1>5. /\ a \in CredRow /\ a.status = k.status /\ a.plan = k.plan /\ a.refresh = k.refresh
      /\ a.at.expired = k.at.expired /\ a.at.synced = m
  BY <1>2, <1>3, SyncedRowIs
<1>6. /\ b \in CredRow /\ b.status = l.status /\ b.plan = l.plan /\ b.refresh = l.refresh
      /\ b.at.expired = l.at.expired /\ b.at.synced = n
  BY <1>2, <1>4, SyncedRowIs
<1>7. CredAgree(a, b)
  BY <1>1, <1>2, <1>5, <1>6 DEF CredAgree
<1> QED
  BY <1>3, <1>4, <1>7

\* The row as OpenCode stores it again.
UpdatedRow(k, n) == [k EXCEPT !.at.updated = n]

LEMMA UpdatedRowIs ==
  ASSUME handler = "opencode", NEW k \in CredRow, NEW n \in Int, NEW m, m = UpdatedRow(k, n)
  PROVE  m \in CredRow /\ m.status = k.status /\ m.at.created = k.at.created /\ m.at.updated = n
<1>1. CredTimes = {"created", "updated"}
  BY ShapesAre
<1> QED
  BY <1>1 DEF CredRow, UpdatedRow

LEMMA UpdatedAgree ==
  ASSUME handler = "opencode", NEW k, NEW l, CredAgree(k, l), NEW m, NEW n, Hard(m, n), m \in Int
  PROVE  CredAgree(UpdatedRow(k, m), UpdatedRow(l, n))
<1>1. CredTimes = {"created", "updated"}
  BY ShapesAre
<1>2. PICK a : a = UpdatedRow(k, m)
  OBVIOUS
<1>3. PICK b : b = UpdatedRow(l, n)
  OBVIOUS
<1>4. a \in CredRow /\ a.status = k.status /\ a.at.created = k.at.created /\ a.at.updated = m
  BY <1>2, UpdatedRowIs DEF CredAgree
<1>5. n \in Int
  BY DEF Hard
<1>6. b \in CredRow /\ b.status = l.status /\ b.at.created = l.at.created /\ b.at.updated = n
  BY <1>3, <1>5, UpdatedRowIs DEF CredAgree
<1>7. CredAgree(a, b)
  BY <1>1, <1>4, <1>6 DEF CredAgree
<1> QED
  BY <1>2, <1>3, <1>7

LEMMA QuotaRowSet ==
  ASSUME NEW k \in QuotaRow, NEW n \in Int, NEW m
  PROVE  /\ \A u \in [D!Tiers -> Int] : m = [k EXCEPT !.until = u, !.synced = n] =>
              m \in QuotaRow /\ m.reset = k.reset /\ m.until = u /\ m.synced = n
         /\ \A u \in [D!Tiers -> Int] : m = [k EXCEPT !.until = u] =>
              m \in QuotaRow /\ m.reset = k.reset /\ m.until = u /\ m.synced = k.synced
         /\ \A u \in [Windows -> Int] : m = [k EXCEPT !.reset = u, !.synced = n] =>
              m \in QuotaRow /\ m.reset = u /\ m.until = k.until /\ m.synced = n
BY DEF QuotaRow

LEMMA QuotaTierSet ==
  ASSUME NEW k \in QuotaRow, NEW n \in Int, NEW t \in D!Tiers, NEW u \in Int, NEW m,
         m = [k EXCEPT !.until[t] = u, !.synced = n]
  PROVE  /\ m \in QuotaRow /\ m.reset = k.reset /\ m.synced = n /\ m.until[t] = u
         /\ \A x \in D!Tiers : x # t => m.until[x] = k.until[x]
BY DEF QuotaRow


-----------------------------------------------------------------------------
(* The statements about a quota row *)

ResetOf(d, c, new, reset, n) ==
  D!PutQuota(d, c, [D!QuotaOr(d, c, new) EXCEPT !.reset = reset, !.synced = n])
UntilOf(d, c, new, until, n) ==
  D!PutQuota(d, c, [D!QuotaOr(d, c, new) EXCEPT !.until = until, !.synced = n])
TierOf(d, c, new, t, until, n) ==
  D!PutQuota(d, c, [D!QuotaOr(d, c, new) EXCEPT !.until[t] = until, !.synced = n])
OnlyUntilOf(d, c, new, until) ==
  D!PutQuota(d, c, [D!QuotaOr(d, c, new) EXCEPT !.until = until])

LEMMA QuotaOrIs ==
  ASSUME NEW d, Good(d), NEW c \in Ids, NEW new \in QuotaRow
  PROVE  D!QuotaOr(d, c, new) \in QuotaRow
BY DEF Good, RowsOf, D!QuotaOr

LEMMA QuotaOrAgree ==
  ASSUME NEW s, NEW p, NEW c \in Ids, NEW a, NEW b, RelAt(s, p, c), QuotaAgree(a, b)
  PROVE  QuotaAgree(D!QuotaOr(s, c, a), D!QuotaOr(p, c, b))
BY DEF RelAt, D!QuotaOr

LEMMA ResetPair ==
  ASSUME NEW s, NEW p, NEW c \in Ids, Ready(s), Ready(p), NEW a, NEW b, QuotaAgree(a, b),
         NEW m \in Int, NEW n, Hard(m, n), NEW u \in [Windows -> Int], NEW v \in [Windows -> Int],
         \A x \in Windows : ResetCell(u[x], v[x])
  PROVE  Paired(s, p, ResetOf(s, c, a, u, m), ResetOf(p, c, b, v, n), c)
<1>1. PICK k, l : k = D!QuotaOr(s, c, a) /\ l = D!QuotaOr(p, c, b)
  OBVIOUS
<1>2. k \in QuotaRow /\ l \in QuotaRow /\ n \in Int
  BY <1>1, QuotaOrIs DEF Ready, QuotaAgree, Hard
<1>3. PICK f : f = [k EXCEPT !.reset = u, !.synced = m]
  OBVIOUS
<1>4. f \in QuotaRow /\ f.reset = u /\ f.until = k.until /\ f.synced = m
  BY <1>2, <1>3 DEF QuotaRow
<1>8. PICK g : g = [l EXCEPT !.reset = v, !.synced = n]
  OBVIOUS
<1>5. g \in QuotaRow /\ g.reset = v /\ g.until = l.until /\ g.synced = n
  BY <1>2, <1>8 DEF QuotaRow
<1>6. ASSUME RelAt(s, p, c) PROVE QuotaAgree(f, g)
  <2>1. QuotaAgree(k, l)
    BY <1>1, <1>6, QuotaOrAgree
  <2> QED
    BY <1>4, <1>5, <2>1 DEF QuotaAgree
<1>7. Paired(s, p, D!PutQuota(s, c, f), D!PutQuota(p, c, g), c)
  BY <1>4, <1>5, <1>6, PutQuotaPair
<1> QED
  BY <1>1, <1>3, <1>7, <1>8 DEF ResetOf

LEMMA UntilPair ==
  ASSUME NEW s, NEW p, NEW c \in Ids, Ready(s), Ready(p), NEW a, NEW b, QuotaAgree(a, b),
         NEW m \in Int, NEW n, Hard(m, n), NEW u \in [D!Tiers -> Int], NEW v \in [D!Tiers -> Int],
         \A t \in D!Tiers : Hard(u[t], v[t])
  PROVE  /\ Paired(s, p, UntilOf(s, c, a, u, m), UntilOf(p, c, b, v, n), c)
         /\ Paired(s, p, OnlyUntilOf(s, c, a, u), OnlyUntilOf(p, c, b, v), c)
<1>1. PICK k, l : k = D!QuotaOr(s, c, a) /\ l = D!QuotaOr(p, c, b)
  OBVIOUS
<1>2. k \in QuotaRow /\ l \in QuotaRow /\ n \in Int
  BY <1>1, QuotaOrIs DEF Ready, QuotaAgree, Hard
<1>3. RelAt(s, p, c) => QuotaAgree(k, l)
  BY <1>1, QuotaOrAgree
<1>4. Paired(s, p, UntilOf(s, c, a, u, m), UntilOf(p, c, b, v, n), c)
  <2>1. PICK f : f = [k EXCEPT !.until = u, !.synced = m]
    OBVIOUS
  <2>6. PICK g : g = [l EXCEPT !.until = v, !.synced = n]
    OBVIOUS
  <2>2. f \in QuotaRow /\ f.reset = k.reset /\ f.until = u /\ f.synced = m
    BY <1>2, <2>1 DEF QuotaRow
  <2>3. g \in QuotaRow /\ g.reset = l.reset /\ g.until = v /\ g.synced = n
    BY <1>2, <2>6 DEF QuotaRow
  <2>4. RelAt(s, p, c) => QuotaAgree(f, g)
    BY <1>3, <2>2, <2>3 DEF QuotaAgree
  <2>5. Paired(s, p, D!PutQuota(s, c, f), D!PutQuota(p, c, g), c)
    BY <2>2, <2>3, <2>4, PutQuotaPair
  <2> QED
    BY <1>1, <2>1, <2>5, <2>6 DEF UntilOf
<1>5. Paired(s, p, OnlyUntilOf(s, c, a, u), OnlyUntilOf(p, c, b, v), c)
  <2>1. PICK f : f = [k EXCEPT !.until = u]
    OBVIOUS
  <2>6. PICK g : g = [l EXCEPT !.until = v]
    OBVIOUS
  <2>2. f \in QuotaRow /\ f.reset = k.reset /\ f.until = u /\ f.synced = k.synced
    BY <1>2, <2>1 DEF QuotaRow
  <2>3. g \in QuotaRow /\ g.reset = l.reset /\ g.until = v /\ g.synced = l.synced
    BY <1>2, <2>6 DEF QuotaRow
  <2>4. RelAt(s, p, c) => QuotaAgree(f, g)
    BY <1>3, <2>2, <2>3 DEF QuotaAgree
  <2>5. Paired(s, p, D!PutQuota(s, c, f), D!PutQuota(p, c, g), c)
    BY <2>2, <2>3, <2>4, PutQuotaPair
  <2> QED
    BY <1>1, <2>1, <2>5, <2>6 DEF OnlyUntilOf
<1> QED
  BY <1>4, <1>5

LEMMA TierPair ==
  ASSUME NEW s, NEW p, NEW c \in Ids, Ready(s), Ready(p), NEW a, NEW b, QuotaAgree(a, b),
         NEW m \in Int, NEW n, Hard(m, n), NEW t \in D!Tiers, NEW u \in Int, NEW v \in Int,
              Hard(u, v)
  PROVE  Paired(s, p, TierOf(s, c, a, t, u, m), TierOf(p, c, b, t, v, n), c)
<1>1. PICK k, l : k = D!QuotaOr(s, c, a) /\ l = D!QuotaOr(p, c, b)
  OBVIOUS
<1>2. k \in QuotaRow /\ l \in QuotaRow /\ n \in Int
  BY <1>1, QuotaOrIs DEF Ready, QuotaAgree, Hard
<1>3. RelAt(s, p, c) => QuotaAgree(k, l)
  BY <1>1, QuotaOrAgree
<1>4. PICK f : f = [k EXCEPT !.until[t] = u, !.synced = m]
  OBVIOUS
<1>9. PICK g : g = [l EXCEPT !.until[t] = v, !.synced = n]
  OBVIOUS
<1>5. /\ f \in QuotaRow /\ f.reset = k.reset /\ f.synced = m /\ f.until[t] = u
      /\ \A x \in D!Tiers : x # t => f.until[x] = k.until[x]
  BY <1>2, <1>4 DEF QuotaRow
<1>6. /\ g \in QuotaRow /\ g.reset = l.reset /\ g.synced = n /\ g.until[t] = v
      /\ \A x \in D!Tiers : x # t => g.until[x] = l.until[x]
  BY <1>2, <1>9 DEF QuotaRow
<1>7. RelAt(s, p, c) => QuotaAgree(f, g)
  BY <1>3, <1>5, <1>6 DEF QuotaAgree
<1>8. Paired(s, p, D!PutQuota(s, c, f), D!PutQuota(p, c, g), c)
  BY <1>5, <1>6, <1>7, PutQuotaPair
<1> QED
  BY <1>1, <1>4, <1>8, <1>9 DEF TierOf

\* One of them alone.
LEMMA QuotaTouches ==
  ASSUME NEW d, NEW c \in Ids, Ready(d), NEW new \in QuotaRow, NEW n \in Int
  PROVE  /\ \A u \in [Windows -> Int] : Touches(d, ResetOf(d, c, new, u, n), c)
         /\ \A u \in [D!Tiers -> Int] : /\ Touches(d, UntilOf(d, c, new, u, n), c)
                                        /\ Touches(d, OnlyUntilOf(d, c, new, u), c)
         /\ \A t \in D!Tiers, u \in Int : Touches(d, TierOf(d, c, new, t, u, n), c)
<1>1. PICK k : k = D!QuotaOr(d, c, new)
  OBVIOUS
<1>2. k \in QuotaRow
  BY <1>1, QuotaOrIs DEF Ready
<1>3. \A f \in QuotaRow : Touches(d, D!PutQuota(d, c, f), c)
  BY PutQuotaStep DEF Ready
<1>4. ASSUME NEW u \in [Windows -> Int] PROVE Touches(d, ResetOf(d, c, new, u, n), c)
  <2>1. PICK f : f = [k EXCEPT !.reset = u, !.synced = n]
    OBVIOUS
  <2>2. f \in QuotaRow
    BY <1>2, <2>1, QuotaRowSet
  <2> QED
    BY <1>1, <1>3, <2>1, <2>2 DEF ResetOf
<1>5. ASSUME NEW u \in [D!Tiers -> Int] PROVE Touches(d, UntilOf(d, c, new, u, n), c)
  <2>1. PICK f : f = [k EXCEPT !.until = u, !.synced = n]
    OBVIOUS
  <2>2. f \in QuotaRow
    BY <1>2, <2>1, QuotaRowSet
  <2> QED
    BY <1>1, <1>3, <2>1, <2>2 DEF UntilOf
<1>6. ASSUME NEW u \in [D!Tiers -> Int] PROVE Touches(d, OnlyUntilOf(d, c, new, u), c)
  <2>1. PICK f : f = [k EXCEPT !.until = u]
    OBVIOUS
  <2>2. f \in QuotaRow
    BY <1>2, <2>1, QuotaRowSet
  <2> QED
    BY <1>1, <1>3, <2>1, <2>2 DEF OnlyUntilOf
<1>7. ASSUME NEW t \in D!Tiers, NEW u \in Int PROVE Touches(d, TierOf(d, c, new, t, u, n), c)
  <2>1. PICK f : f = [k EXCEPT !.until[t] = u, !.synced = n]
    OBVIOUS
  <2>2. f \in QuotaRow
    BY <1>2, <2>1, QuotaTierSet
  <2> QED
    BY <1>1, <1>3, <2>1, <2>2 DEF TierOf
<1> QED
  BY <1>4, <1>5, <1>6, <1>7

LEMMA EveryHard ==
  ASSUME NEW u \in Int, NEW v, Hard(u, v)
  PROVE  /\ D!Every(D!Tiers, u) \in [D!Tiers -> Int] /\ D!Every(D!Tiers, v) \in [D!Tiers -> Int]
         /\ \A t \in D!Tiers : Hard(D!Every(D!Tiers, u)[t], D!Every(D!Tiers, v)[t])
BY DEF D!Every, Hard


LEMMA AbsentPair ==
  ASSUME NEW s, NEW p, NEW c \in Ids, NEW u, NEW v, Ready(s), Ready(p), Paired(s, p, u, v, c)
  PROVE  Paired(s, p, IF c \in DOMAIN s.cred THEN D!Failed(s) ELSE u,
                      IF c \in DOMAIN p.cred THEN D!Failed(p) ELSE v, c)
<1>1. Paired(s, p, D!Failed(s), D!Failed(p), c)
  BY FailedPair DEF Ready
<1>2. RelAt(s, p, c) => (c \in DOMAIN s.cred <=> c \in DOMAIN p.cred)
  BY DEF RelAt
<1> QED
  BY <1>1, <1>2 DEF Paired

LEMMA NotNullIs ==
  ASSUME NEW d, NEW values, NEW e
  PROVE  D!Pg!Q!NotNull(d, values, e) = IF D!Null \in values THEN D!Failed(d) ELSE e
BY DEF D!Pg!Q!NotNull, D!Pg!Q!Null, D!Null, D!Pg!Q!Failed, D!Failed

\* A statement about a credential row, and the one that clears its throttles.
LEMMA CommitClearTouches ==
  ASSUME NEW d, NEW u, NEW c \in Ids, NEW status, Ready(d), Touches(d, u, c),
         NEW new \in QuotaRow, NEW n \in Int
  PROVE  /\ Touches(d, D!Commit(d, u, status, UntilOf(u, c, new, D!Every(D!Tiers, n), n)), c)
         /\ Touches(d, D!Commit(d, u, status, OnlyUntilOf(u, c, new, D!Every(D!Tiers, n))), c)
<1>1. D!Every(D!Tiers, n) \in [D!Tiers -> Int]
  BY DEF D!Every
<1>2. ASSUME ~u.err
      PROVE  /\ Touches(u, UntilOf(u, c, new, D!Every(D!Tiers, n), n), c)
             /\ Touches(u, OnlyUntilOf(u, c, new, D!Every(D!Tiers, n)), c)
  <2>1. Ready(u)
    BY <1>2 DEF Ready, Touches
  <2> QED
    BY <1>1, <2>1, QuotaTouches
<1> QED
  BY <1>2, CommitTouches

LEMMA CommitClearPair ==
  ASSUME NEW s, NEW p, NEW u, NEW v, NEW c \in Ids, NEW status, Ready(s), Ready(p),
         Paired(s, p, u, v, c), NEW a, NEW b, QuotaAgree(a, b), NEW m \in Int, NEW n, Hard(m, n)
  PROVE  /\ Paired(s, p, D!Commit(s, u, status, UntilOf(u, c, a, D!Every(D!Tiers, m), m)),
                         D!Commit(p, v, status, UntilOf(v, c, b, D!Every(D!Tiers, n), n)), c)
         /\ Paired(s, p, D!Commit(s, u, status, OnlyUntilOf(u, c, a, D!Every(D!Tiers, m))),
                         D!Commit(p, v, status, OnlyUntilOf(v, c, b, D!Every(D!Tiers, n))), c)
<1>1. /\ D!Every(D!Tiers, m) \in [D!Tiers -> Int] /\ D!Every(D!Tiers, n) \in [D!Tiers -> Int]
      /\ \A t \in D!Tiers : Hard(D!Every(D!Tiers, m)[t], D!Every(D!Tiers, n)[t])
  BY EveryHard
<1>2. PICK x, y : x = D!Every(D!Tiers, m) /\ y = D!Every(D!Tiers, n)
  OBVIOUS
<1>3. a \in QuotaRow /\ b \in QuotaRow /\ n \in Int
  BY DEF QuotaAgree, Hard
<1>4. Touches(s, u, c) /\ Touches(p, v, c)
  BY DEF Paired
<1>5. ~u.err => Touches(u, UntilOf(u, c, a, x, m), c) /\ Touches(u, OnlyUntilOf(u, c, a, x), c)
  <2>1. ~u.err => Ready(u)
    BY <1>4 DEF Ready, Touches
  <2> QED
    BY <1>1, <1>2, <1>3, <2>1, QuotaTouches
<1>6. ~v.err => Touches(v, UntilOf(v, c, b, y, n), c) /\ Touches(v, OnlyUntilOf(v, c, b, y), c)
  <2>1. ~v.err => Ready(v)
    BY <1>4 DEF Ready, Touches
  <2> QED
    BY <1>1, <1>2, <1>3, <2>1, QuotaTouches
<1>7. ASSUME ~u.err, ~v.err
      PROVE  /\ Paired(u, v, UntilOf(u, c, a, x, m), UntilOf(v, c, b, y, n), c)
             /\ Paired(u, v, OnlyUntilOf(u, c, a, x), OnlyUntilOf(v, c, b, y), c)
  <2>1. Ready(u) /\ Ready(v)
    BY <1>4, <1>7 DEF Ready, Touches
  <2> QED
    BY <1>1, <1>2, <2>1, UntilPair
<1>8. Paired(s, p, D!Commit(s, u, status, UntilOf(u, c, a, x, m)),
                   D!Commit(p, v, status, UntilOf(v, c, b, y, n)), c)
  BY <1>5, <1>6, <1>7, CommitPair
<1>9. Paired(s, p, D!Commit(s, u, status, OnlyUntilOf(u, c, a, x)),
                   D!Commit(p, v, status, OnlyUntilOf(v, c, b, y)), c)
  BY <1>5, <1>6, <1>7, CommitPair
<1> QED
  BY <1>2, <1>8, <1>9

-----------------------------------------------------------------------------
(* What the calls are given *)

LEMMA ResetsAre ==
  ASSUME Known, NEW r \in D!Resets(Windows)
  PROVE  /\ D!Sq!FmtTimes(r) \in [Windows -> Int] /\ D!Pg!FromTimes(r) \in [Windows -> Int]
         /\ \A n \in Windows : GivenTime(r[n], D!Sq!FmtTimes(r)[n], D!Pg!FromTimes(r)[n])
         /\ D!ZeroTime \in D!Range(r) <=> D!Null \in D!Pg!Q!Range(D!Pg!FromTimes(r))
         /\ \A n \in Windows : r[n] \in D!Range(r)
<1>1. PICK m \in Windows, t \in D!Times : r = [n \in Windows |-> IF n = m THEN t ELSE time + 1]
  BY DEF D!Resets
<1>2. time + 1 \in D!Times
  BY DEF D!Times
<1>3. DOMAIN r = Windows /\ \A n \in Windows : r[n] \in D!Times
  BY <1>1, <1>2
<1>4. PICK f : f = D!Sq!FmtTimes(r)
  OBVIOUS
<1>5. PICK g : g = D!Pg!FromTimes(r)
  OBVIOUS
<1>6. f = [n \in Windows |-> D!Sq!fmtTime(r[n])] /\ g = [n \in Windows |-> D!Pg!tsFrom(r[n])]
  BY <1>3, <1>4, <1>5 DEF D!Sq!FmtTimes, D!Pg!FromTimes
<1>7. \A n \in Windows : GivenTime(r[n], f[n], g[n])
  BY <1>3, <1>6, TimesAre
<1>8. \A n \in Windows : f[n] \in Int /\ g[n] \in Int /\ (r[n] = D!ZeroTime <=> g[n] = D!Null)
  BY <1>7 DEF GivenTime
<1>9. D!ZeroTime \in D!Range(r) <=> \E n \in Windows : r[n] = D!ZeroTime
  BY <1>3 DEF D!Range
<1>10. D!Null \in D!Pg!Q!Range(g) <=> \E n \in Windows : g[n] = D!Null
  BY <1>6 DEF D!Pg!Q!Range
<1>11. f \in [Windows -> Int] /\ g \in [Windows -> Int]
  BY <1>6, <1>8
<1>12. \A n \in Windows : r[n] \in D!Range(r)
  BY <1>3 DEF D!Range
<1> QED
  BY <1>4, <1>5, <1>7, <1>8, <1>9, <1>10, <1>11, <1>12

LEMMA ResetCells ==
  ASSUME NEW r, NEW f, NEW g, \A n \in Windows : GivenTime(r[n], f[n], g[n]) /\ r[n] \in D!Range(r),
         handler \in {"codex", "opencode"} \/ D!ZeroTime \notin D!Range(r)
  PROVE  \A n \in Windows : ResetCell(f[n], g[n])
BY DEF GivenTime, ResetCell, Soft

-----------------------------------------------------------------------------
(* A call leaves both databases well *)

AfterWrite ==
  /\ Good(sqlite') /\ Good(postgres') /\ sqlite'.err = FALSE /\ postgres'.err = FALSE
  /\ refused' \subseteq Ids
  /\ \A x \in Ids \ refused' : RelAt(sqlite', postgres', x)

LEMMA AnswerTaken ==
  ASSUME NEW d, Good(d), NEW e, e = [d EXCEPT !.err = FALSE]
  PROVE  Good(e) /\ e.err = FALSE /\ e.cred = d.cred /\ e.quota = d.quota /\ e.credits = d.credits
<1>1. IsTables(e) /\ e.cred = d.cred /\ e.quota = d.quota /\ e.credits = d.credits /\ e.err = FALSE
  BY FieldsSet DEF Good, IsTables
<1> QED
  BY <1>1 DEF Good, IsTables

LEMMA WrittenKeeps ==
  ASSUME StoresInv, NEW c \in Ids, NEW times, NEW u, NEW v, D!Written(c, times, u, v),
         Moves(sqlite, postgres, u, v, c, times)
  PROVE  AfterWrite
<1>1. Good(sqlite') /\ sqlite'.err = FALSE /\ sqlite'.cred = u.cred /\ sqlite'.quota = u.quota
      /\ sqlite'.credits = u.credits
  BY AnswerTaken DEF D!Written, Moves
<1>2. Good(postgres') /\ postgres'.err = FALSE /\ postgres'.cred = v.cred /\ postgres'.quota =
      v.quota
      /\ postgres'.credits = v.credits
  BY AnswerTaken DEF D!Written, Moves
<1>3. \A x : RelAt(u, v, x) => RelAt(sqlite', postgres', x)
  BY <1>1, <1>2 DEF RelAt
<1>4. refused \subseteq Ids /\ \A x \in Ids \ refused : RelAt(sqlite, postgres, x)
  BY DEF StoresInv, D!TypeOK
<1>5. refused' \subseteq Ids /\ \A x \in Ids : x # c => (x \in refused' <=> x \in refused)
  BY <1>4 DEF D!Written
<1>6. ASSUME NEW x \in Ids \ refused', x # c PROVE RelAt(u, v, x)
  BY <1>4, <1>5, <1>6 DEF Moves
<1>7. ASSUME c \notin refused' PROVE RelAt(u, v, c)
  <2>1. CASE c \notin DOMAIN u.cred \cup DOMAIN v.cred
    BY <2>1 DEF Moves, Good, RowsOf, RelAt
  <2>2. CASE c \in DOMAIN u.cred \cup DOMAIN v.cred
    <3>1. c \notin refused /\ ~(v.err /\ ~u.err /\ D!ZeroTime \in times)
      BY <1>7, <2>2 DEF D!Written
    <3> QED
      BY <1>4, <3>1 DEF Moves
  <2> QED
    BY <2>1, <2>2
<1>8. \A x \in Ids \ refused' : RelAt(u, v, x)
  BY <1>6, <1>7
<1> QED
  BY <1>1, <1>2, <1>3, <1>5, <1>8 DEF AfterWrite


-----------------------------------------------------------------------------
(* The calls: PostgreSQL refuses NULL in a column that is NOT NULL *)

LEMMA RefusedOrMoves ==
  ASSUME NEW s, NEW p, NEW u, NEW v, NEW c \in Ids, NEW times, NEW values, Good(p),
       Touches(s, u, c),
         D!ZeroTime \in times <=> D!Null \in values, D!ZeroTime \notin times =>
              Paired(s, p, u, v, c)
  PROVE  Moves(s, p, u, D!Pg!Q!NotNull(p, values, v), c, times)
<1>1. PICK e : e = D!Pg!Q!NotNull(p, values, v)
  OBVIOUS
<1>2. e = IF D!Null \in values THEN D!Failed(p) ELSE v
  BY <1>1, NotNullIs
<1>3. CASE D!ZeroTime \in times
  BY <1>1, <1>2, <1>3, RefusedMoves
<1>4. CASE D!ZeroTime \notin times
  BY <1>1, <1>2, <1>4, PairedMoves
<1> QED
  BY <1>3, <1>4

LEMMA ResetMoves ==
  ASSUME Known, NEW s, NEW p, NEW c \in Ids, Ready(s), Ready(p), NEW a, NEW b, QuotaAgree(a, b),
         NEW m \in Int, NEW n, Hard(m, n), NEW r \in D!Resets(Windows)
  PROVE  LET u == ResetOf(s, c, a, D!Sq!FmtTimes(r), m)
             v == ResetOf(p, c, b, D!Pg!FromTimes(r), n)
         IN /\ handler \in {"codex", "opencode"} => Moves(s, p, u, v, c, D!Range(r))
            /\ Moves(s, p, u, D!Pg!Q!NotNull(p, D!Pg!Q!Range(D!Pg!FromTimes(r)), v), c, D!Range(r))
            /\ handler \notin {"codex", "opencode"} /\ D!ZeroTime \notin D!Range(r) =>
                 Paired(s, p, u, v, c) /\ D!Null \notin D!Pg!Q!Range(D!Pg!FromTimes(r))
            /\ Touches(s, u, c)
<1>1. PICK f : f = D!Sq!FmtTimes(r)
  OBVIOUS
<1>2. PICK g : g = D!Pg!FromTimes(r)
  OBVIOUS
<1>3. /\ f \in [Windows -> Int] /\ g \in [Windows -> Int]
      /\ \A x \in Windows : GivenTime(r[x], f[x], g[x]) /\ r[x] \in D!Range(r)
      /\ D!ZeroTime \in D!Range(r) <=> D!Null \in D!Pg!Q!Range(g)
  BY <1>1, <1>2, ResetsAre
<1>4. PICK u : u = ResetOf(s, c, a, f, m)
  OBVIOUS
<1>5. PICK v : v = ResetOf(p, c, b, g, n)
  OBVIOUS
<1>6. ASSUME handler \in {"codex", "opencode"} \/ D!ZeroTime \notin D!Range(r)
      PROVE  Paired(s, p, u, v, c)
  <2>1. \A x \in Windows : ResetCell(f[x], g[x])
    BY <1>3, <1>6, ResetCells
  <2> QED
    BY <1>3, <1>4, <1>5, <2>1, ResetPair
<1>7. Touches(s, u, c)
  BY <1>3, <1>4, QuotaTouches DEF QuotaAgree
<1>8. Moves(s, p, u, D!Pg!Q!NotNull(p, D!Pg!Q!Range(g), v), c, D!Range(r))
  BY <1>3, <1>6, <1>7, RefusedOrMoves DEF Ready
<1>9. handler \in {"codex", "opencode"} => Moves(s, p, u, v, c, D!Range(r))
  BY <1>6, PairedMoves
<1> QED
  BY <1>1, <1>2, <1>3, <1>4, <1>5, <1>6, <1>7, <1>8, <1>9

LEMMA ThrottleMoves ==
  ASSUME Known, NEW s, NEW p, NEW c \in Ids, Ready(s), Ready(p), NEW a, NEW b, QuotaAgree(a, b),
         NEW m \in Int, NEW n, Hard(m, n), NEW until \in D!Times
  PROVE  LET x == D!Sq!fmtTime(until)
             y == D!Pg!tsFrom(until)
         IN /\ Moves(s, p, UntilOf(s, c, a, D!Every(D!Tiers, x), m),
                     D!Pg!Q!NotNull(p, {y}, UntilOf(p, c, b, D!Every(D!Tiers, y), n)), c, {until})
            /\ Moves(s, p, OnlyUntilOf(s, c, a, D!Every(D!Tiers, x)),
                     D!Pg!Q!NotNull(p, {y}, OnlyUntilOf(p, c, b, D!Every(D!Tiers, y))), c, {until})
            /\ \A t \in D!Tiers :
                 Moves(s, p, TierOf(s, c, a, t, x, m),
                       D!Pg!Q!NotNull(p, {y}, TierOf(p, c, b, t, y, n)), c, {until})
<1>1. PICK x : x = D!Sq!fmtTime(until)
  OBVIOUS
<1>2. PICK y : y = D!Pg!tsFrom(until)
  OBVIOUS
<1>3. GivenTime(until, x, y)
  BY <1>1, <1>2, TimesAre
<1>4. /\ x \in Int /\ y \in Int /\ (D!ZeroTime \in {until} <=> D!Null \in {y})
      /\ D!ZeroTime \notin {until} => Hard(x, y)
  BY <1>3 DEF GivenTime
<1>5. a \in QuotaRow
  BY DEF QuotaAgree
<1>6. Moves(s, p, UntilOf(s, c, a, D!Every(D!Tiers, x), m),
            D!Pg!Q!NotNull(p, {y}, UntilOf(p, c, b, D!Every(D!Tiers, y), n)), c, {until})
  <2>1. D!Every(D!Tiers, x) \in [D!Tiers -> Int]
    BY <1>4 DEF D!Every
  <2>2. Touches(s, UntilOf(s, c, a, D!Every(D!Tiers, x), m), c)
    BY <1>5, <2>1, QuotaTouches
  <2>3. ASSUME D!ZeroTime \notin {until}
        PROVE  Paired(s, p, UntilOf(s, c, a, D!Every(D!Tiers, x), m),
                            UntilOf(p, c, b, D!Every(D!Tiers, y), n), c)
    <3>1. /\ D!Every(D!Tiers, x) \in [D!Tiers -> Int] /\ D!Every(D!Tiers, y) \in [D!Tiers -> Int]
          /\ \A t \in D!Tiers : Hard(D!Every(D!Tiers, x)[t], D!Every(D!Tiers, y)[t])
      BY <1>4, <2>3, EveryHard
    <3> QED
      BY <3>1, UntilPair
  <2> QED
    BY <1>4, <2>2, <2>3, RefusedOrMoves DEF Ready
<1>7. Moves(s, p, OnlyUntilOf(s, c, a, D!Every(D!Tiers, x)),
            D!Pg!Q!NotNull(p, {y}, OnlyUntilOf(p, c, b, D!Every(D!Tiers, y))), c, {until})
  <2>1. D!Every(D!Tiers, x) \in [D!Tiers -> Int]
    BY <1>4 DEF D!Every
  <2>2. Touches(s, OnlyUntilOf(s, c, a, D!Every(D!Tiers, x)), c)
    BY <1>5, <2>1, QuotaTouches
  <2>3. ASSUME D!ZeroTime \notin {until}
        PROVE  Paired(s, p, OnlyUntilOf(s, c, a, D!Every(D!Tiers, x)),
                            OnlyUntilOf(p, c, b, D!Every(D!Tiers, y)), c)
    <3>1. /\ D!Every(D!Tiers, x) \in [D!Tiers -> Int] /\ D!Every(D!Tiers, y) \in [D!Tiers -> Int]
          /\ \A t \in D!Tiers : Hard(D!Every(D!Tiers, x)[t], D!Every(D!Tiers, y)[t])
      BY <1>4, <2>3, EveryHard
    <3> QED
      BY <3>1, UntilPair
  <2> QED
    BY <1>4, <2>2, <2>3, RefusedOrMoves DEF Ready
<1>8. ASSUME NEW t \in D!Tiers
      PROVE  Moves(s, p, TierOf(s, c, a, t, x, m),
                   D!Pg!Q!NotNull(p, {y}, TierOf(p, c, b, t, y, n)), c, {until})
  <2>1. Touches(s, TierOf(s, c, a, t, x, m), c)
    BY <1>4, <1>5, QuotaTouches
  <2>2. D!ZeroTime \notin {until} => Paired(s, p, TierOf(s, c, a, t, x, m),
        TierOf(p, c, b, t, y, n), c)
    BY <1>4, TierPair
  <2> QED
    BY <1>4, <2>1, <2>2, RefusedOrMoves DEF Ready
<1> QED
  BY <1>1, <1>2, <1>6, <1>7, <1>8

\* A credential row that is given, as both are to store it.
Offered(t, w, a, b) ==
  /\ a \in CredRow /\ b \in CredRow /\ (t = D!ZeroTime <=> w = D!Null)
  /\ t # D!ZeroTime => CredAgree(a, b)

LEMMA OfferedPut ==
  ASSUME NEW s, NEW p, NEW c \in Ids, Ready(s), Ready(p), NEW t, NEW w, NEW a, NEW b,
       Offered(t, w, a, b)
  PROVE  /\ Moves(s, p, D!PutCred(s, c, a), D!Pg!Q!NotNull(p, {w}, D!PutCred(p, c, b)), c, {t})
         /\ Moves(s, p, D!SetCred(s, c, a), D!Pg!Q!NotNull(p, {w}, D!SetCred(p, c, b)), c, {t})
         /\ Moves(s, p, IF c \in DOMAIN s.cred THEN D!Failed(s) ELSE D!PutCred(s, c, a),
                        IF c \in DOMAIN p.cred THEN D!Failed(p)
                        ELSE D!Pg!Q!NotNull(p, {w}, D!PutCred(p, c, b)), c, {t})
<1>1. a \in CredRow /\ b \in CredRow /\ (D!ZeroTime \in {t} <=> D!Null \in {w})
      /\ (D!ZeroTime \notin {t} => CredAgree(a, b))
  BY DEF Offered
<1>2. /\ Touches(s, D!PutCred(s, c, a), c) /\ Touches(s, D!SetCred(s, c, a), c)
      /\ Good(D!Failed(s)) /\ Touches(s, D!Failed(s), c)
  BY <1>1, PutCredStep, SetCredStep, FailedStep DEF Ready, Touches
<1>3. ASSUME D!ZeroTime \notin {t}
      PROVE  /\ Paired(s, p, D!PutCred(s, c, a), D!PutCred(p, c, b), c)
             /\ Paired(s, p, D!SetCred(s, c, a), D!SetCred(p, c, b), c)
  BY <1>1, <1>3, PutCredPair, SetCredPair
<1>4. Moves(s, p, D!PutCred(s, c, a), D!Pg!Q!NotNull(p, {w}, D!PutCred(p, c, b)), c, {t})
  BY <1>1, <1>2, <1>3, RefusedOrMoves DEF Ready
<1>5. Moves(s, p, D!SetCred(s, c, a), D!Pg!Q!NotNull(p, {w}, D!SetCred(p, c, b)), c, {t})
  BY <1>1, <1>2, <1>3, RefusedOrMoves DEF Ready
<1>6. PICK u : u = IF c \in DOMAIN s.cred THEN D!Failed(s) ELSE D!PutCred(s, c, a)
  OBVIOUS
<1>7. PICK v : v = IF c \in DOMAIN p.cred THEN D!Failed(p) ELSE D!PutCred(p, c, b)
  OBVIOUS
<1>8. Touches(s, u, c) /\ (D!ZeroTime \notin {t} => Paired(s, p, u, v, c))
  BY <1>2, <1>3, <1>6, <1>7, AbsentPair
<1>9. Moves(s, p, u, D!Pg!Q!NotNull(p, {w}, v), c, {t})
  BY <1>1, <1>8, RefusedOrMoves DEF Ready
<1>10. D!Pg!Q!NotNull(p, {w}, v) = IF c \in DOMAIN p.cred THEN D!Failed(p)
                                   ELSE D!Pg!Q!NotNull(p, {w}, D!PutCred(p, c, b))
  BY <1>7, NotNullIs
<1> QED
  BY <1>4, <1>5, <1>6, <1>9, <1>10

LEMMA OfferedCommit ==
  ASSUME NEW s, NEW p, NEW c \in Ids, Ready(s), Ready(p), NEW t, NEW w, NEW status,
         NEW u, NEW v, Touches(s, u, c), t = D!ZeroTime <=> w = D!Null,
         t # D!ZeroTime => Paired(s, p, u, v, c),
         NEW a, NEW b, QuotaAgree(a, b), NEW m \in Int, NEW n, Hard(m, n)
  PROVE  LET e == D!Pg!Q!NotNull(p, {w}, v)
         IN Moves(s, p, D!Commit(s, u, status, UntilOf(u, c, a, D!Every(D!Tiers, m), m)),
                        D!Commit(p, e, status, UntilOf(e, c, b, D!Every(D!Tiers, n), n)), c, {t})
<1>1. PICK e : e = D!Pg!Q!NotNull(p, {w}, v)
  OBVIOUS
<1>2. e = IF w = D!Null THEN D!Failed(p) ELSE v
  BY <1>1, NotNullIs
<1>3. PICK x : x = D!Commit(s, u, status, UntilOf(u, c, a, D!Every(D!Tiers, m), m))
  OBVIOUS
<1>4. PICK y : y = D!Commit(p, e, status, UntilOf(e, c, b, D!Every(D!Tiers, n), n))
  OBVIOUS
<1>5. CASE t = D!ZeroTime
  <2>1. e = D!Failed(p) /\ e.err = TRUE
    BY <1>2, <1>5, FailedStep DEF Ready
  <2>2. y = D!Failed(p)
    BY <1>4, <2>1 DEF D!Commit
  <2>3. a \in QuotaRow
    BY DEF QuotaAgree
  <2>4. Touches(s, x, c)
    BY <1>3, <2>3, CommitClearTouches
  <2>5. Moves(s, p, x, y, c, {t})
    BY <1>5, <2>2, <2>4, RefusedMoves DEF Ready
  <2> QED
    BY <1>1, <1>3, <1>4, <2>5
<1>6. CASE t # D!ZeroTime
  <2>1. e = v /\ Paired(s, p, u, v, c)
    BY <1>2, <1>6
  <2>2. Paired(s, p, x, y, c)
    BY <1>3, <1>4, <2>1, CommitClearPair
  <2>3. Moves(s, p, x, y, c, {t})
    BY <2>2, PairedMoves
  <2> QED
    BY <1>1, <1>3, <1>4, <2>3
<1> QED
  BY <1>5, <1>6


Enabled(k) == [k EXCEPT !.status = "enabled"]
\* Older rows that are throttled are enabled again.
RestoredBy(d, e) ==
  /\ Good(e) /\ e.quota = d.quota /\ e.credits = d.credits /\ DOMAIN e.cred = DOMAIN d.cred
  /\ \A x \in DOMAIN d.cred :
       e.cred[x] = IF d.cred[x].status = "throttled" THEN Enabled(d.cred[x]) ELSE d.cred[x]
Restored(f) == [x \in DOMAIN f |-> IF f[x].status = "throttled" THEN Enabled(f[x]) ELSE f[x]]

LEMMA RestoreIs ==
  ASSUME NEW d, Ready(d), NEW e, e = D!RestoreThrottled(d)
  PROVE  RestoredBy(d, e) /\ ~e.err
<1>1. PICK f : f = Restored(d.cred)
  OBVIOUS
<1>2. RowsOf(d.cred, Ids, CredRow)
  BY DEF Ready, Good
<1>3. "enabled" \in D!Statuses
  BY DEF D!Statuses
<1>4. \A k \in CredRow : Enabled(k) \in CredRow
  BY <1>3, StatusRow DEF Enabled
<1>5. /\ RowsOf(f, Ids, CredRow) /\ DOMAIN f = DOMAIN d.cred
      /\ \A x \in DOMAIN d.cred :
           f[x] = IF d.cred[x].status = "throttled" THEN Enabled(d.cred[x]) ELSE d.cred[x]
  BY <1>1, <1>2, <1>4 DEF Restored, RowsOf
<1>6. e = [d EXCEPT !.cred = f]
  BY <1>1 DEF D!RestoreThrottled, Restored, Enabled
<1>7. IsTables(e) /\ e.cred = f /\ e.quota = d.quota /\ e.credits = d.credits /\ e.err = d.err
  BY <1>6, FieldsSet DEF Ready, Good, IsTables
<1>8. Good(e)
  BY <1>5, <1>7 DEF Ready, Good, IsTables
<1> QED
  BY <1>5, <1>7, <1>8 DEF RestoredBy, Ready

LEMMA RestoreMoves ==
  ASSUME NEW s, NEW p, NEW c \in Ids, Ready(s), Ready(p), NEW u, u = D!RestoreThrottled(s),
         NEW v, v = D!RestoreThrottled(p), NEW times
  PROVE  Moves(s, p, u, v, c, times)
<1>1. RestoredBy(s, u) /\ RestoredBy(p, v)
  BY RestoreIs
<1>2. "enabled" \in D!Statuses
  BY DEF D!Statuses
<1>3. \A k, l : CredAgree(k, l) => CredAgree(Enabled(k), Enabled(l))
  BY <1>2, StatusAgree DEF Enabled
<1>4. \A k, l : CredAgree(k, l) => k.status = l.status
  BY DEF CredAgree
<1>5. ASSUME NEW x \in Ids, RelAt(s, p, x) PROVE RelAt(u, v, x)
  BY <1>1, <1>3, <1>4, <1>5 DEF RestoredBy, RelAt
<1>6. Good(u) /\ Good(v)
  BY <1>1 DEF RestoredBy
<1> QED
  BY <1>5, <1>6 DEF Moves

-----------------------------------------------------------------------------
(* Codex *)

LEMMA NewCodexAgree ==
  ASSUME Known, handler = "codex"
  PROVE  QuotaAgree(D!Sq!Q!NewCodexQuota(time), D!Pg!Q!NewCodexQuota(time))
<1>1. PICK m, n : m = D!Sq!Q!Now(time) /\ n = D!Pg!Q!Now(time)
  OBVIOUS
<1>2. m \in Int /\ n \in Int /\ Hard(m, n)
  BY <1>1, NowIs
<1>3. Windows = D!CodexWindows /\ D!Tiers = D!CodexTiers
  BY ShapesAre
<1>4. PICK a : a = D!Sq!Q!NewCodexQuota(time)
  OBVIOUS
<1>5. PICK b : b = D!Pg!Q!NewCodexQuota(time)
  OBVIOUS
<1>6. a = [reset |-> [w \in Windows |-> D!Null], until |-> [t \in D!Tiers |-> m], synced |-> m]
  BY <1>1, <1>3, <1>4 DEF D!Sq!Q!NewCodexQuota, D!Sq!Q!Every, D!Sq!Q!CodexWindows, D!CodexWindows,
       D!Sq!Q!CodexTiers, D!CodexTiers, D!Sq!Q!Null, D!Null
<1>7. b = [reset |-> [w \in Windows |-> D!Null], until |-> [t \in D!Tiers |-> n], synced |-> n]
  BY <1>1, <1>3, <1>5 DEF D!Pg!Q!NewCodexQuota, D!Pg!Q!Every, D!Pg!Q!CodexWindows, D!CodexWindows,
       D!Pg!Q!CodexTiers, D!CodexTiers, D!Pg!Q!Null, D!Null
<1>8. D!Null \in Int
  BY DEF D!Null
<1>9. a \in QuotaRow /\ b \in QuotaRow
  BY <1>2, <1>6, <1>7, <1>8 DEF QuotaRow
<1>10. \A w \in Windows : a.reset[w] = D!Null /\ b.reset[w] = D!Null
  BY <1>6, <1>7
<1>11. \A t \in D!Tiers : a.until[t] = m /\ b.until[t] = n
  BY <1>6, <1>7
<1>12. a.synced = m /\ b.synced = n
  BY <1>6, <1>7
<1>13. QuotaAgree(a, b)
  BY <1>2, <1>9, <1>10, <1>11, <1>12 DEF QuotaAgree, ResetCell, Soft
<1> QED
  BY <1>4, <1>5, <1>13

\* The statements of SQLite ...
LEMMA CodexSqlite ==
  ASSUME handler = "codex", NEW d, NEW c
  PROVE  LET new == D!Sq!Q!NewCodexQuota(time)
             now == D!Sq!Q!Now(time)
         IN /\ \A r : D!Sq!CreateCodex(d, c, r)
                        = IF c \in DOMAIN d.cred THEN D!Failed(d)
                             ELSE D!PutCred(d, c, D!Sq!Formatted(r))
            /\ \A r : D!Sq!UpdateCodexTokens(d, c, r, time)
                        = LET u == D!SetCred(d, c, D!Sq!Formatted(r))
                          IN D!Commit(d, u, r.status,
                               UntilOf(u, c, new, D!Every(D!Tiers, now), now))
            /\ D!Sq!UpdateCodexPlanType(d, c, "paid") = D!SetCred(d, c, WithPlan(d.cred[c]))
            /\ \A s : D!Sq!UpdateCodexStatus(d, c, s, time)
                        = LET u == D!SetCred(d, c, WithStatus(d.cred[c], s))
                          IN D!Commit(d, u, s, UntilOf(u, c, new, D!Every(D!Tiers, now), now))
            /\ \A r : D!Sq!UpsertQuota(d, c, r, time) = ResetOf(d, c, new, D!Sq!FmtTimes(r), now)
            /\ \A t \in D!Tiers : \A u :
                 D!Sq!SetQuotaThrottled(d, c, t, u, time) =
                      TierOf(d, c, new, t, D!Sq!fmtTime(u), now)
            /\ \A t, u : t \notin D!Tiers =>
                 D!Sq!SetQuotaThrottled(d, c, t, u, time)
                   = UntilOf(d, c, new, D!Every(D!Tiers, D!Sq!fmtTime(u)), now)
            /\ D!Sq!RestoreExpiredThrottledCodex(d) = D!RestoreThrottled(d)
            /\ D!Sq!DeleteQuota(d, c) = D!Affecting(d, d.quota, c, D!EraseQuota(d, c))
            /\ D!Sq!DeleteCodex(d, c) = D!Affecting(d, d.cred, c, D!EraseCred(d, c))
<1>1. D!Tiers = D!CodexTiers
  BY ShapesAre
<1> QED
  BY <1>1
  DEF D!Sq!CreateCodex, D!Sq!UpdateCodexTokens, D!Sq!UpdateCodexPlanType, D!Sq!UpdateCodexStatus,
      D!Sq!UpsertQuota, D!Sq!SetQuotaThrottled, D!Sq!RestoreExpiredThrottledCodex, D!Sq!DeleteQuota,
      D!Sq!DeleteCodex, D!Sq!Q!CreateCodex, D!Sq!Q!UpdateCodexTokens, D!Sq!Q!UpdateCodexPlanType,
      D!Sq!Q!UpdateCodexStatus, D!Sq!Q!UpsertQuota, D!Sq!Q!SetQuotaThrottledTier,
      D!Sq!Q!SetQuotaThrottledAll, D!Sq!Q!RestoreExpiredThrottledCodex, D!Sq!Q!DeleteQuota,
      D!Sq!Q!DeleteCodex, D!Sq!Q!ClearQuotaThrottle, D!Sq!CodexTiers, D!Sq!Q!CodexTiers,
           D!CodexTiers,
      D!Sq!Q!Failed, D!Sq!Failed, D!Failed, D!Sq!Q!PutCred, D!PutCred, D!Sq!Q!SetCred, D!SetCred,
      D!Sq!Q!PutQuota, D!PutQuota, D!Sq!Q!QuotaOr, D!QuotaOr, D!Sq!Q!PutRow, D!PutRow,
      D!Sq!Q!RestoreThrottled, D!RestoreThrottled, D!Sq!Q!EraseQuota, D!EraseQuota,
           D!Sq!Q!EraseCred,
      D!EraseCred, D!Sq!Q!Restrict, D!Restrict, D!Sq!Affecting, D!Affecting, D!Sq!Commit, D!Commit,
      D!Sq!ShouldClear, D!ShouldClear, D!Sq!Q!Every, D!Every, ResetOf, UntilOf, TierOf, WithStatus,
           WithPlan


\* ... and of PostgreSQL.
LEMMA CodexPostgres ==
  ASSUME handler = "codex", NEW d, NEW c
  PROVE  LET new == D!Pg!Q!NewCodexQuota(time)
             now == D!Pg!Q!Now(time)
         IN /\ \A r : D!Pg!CreateCodex(d, c, r)
                        = IF c \in DOMAIN d.cred THEN D!Failed(d)
                          ELSE D!Pg!Q!NotNull(d, {D!Pg!Stamped(r).at.expired},
                                 D!PutCred(d, c, D!Pg!Stamped(r)))
            /\ \A r : D!Pg!UpdateCodexTokens(d, c, r, time)
                        = LET u == D!Pg!Q!NotNull(d, {D!Pg!Stamped(r).at.expired},
                                     D!SetCred(d, c, D!Pg!Stamped(r)))
                          IN D!Commit(d, u, r.status,
                               UntilOf(u, c, new, D!Every(D!Tiers, now), now))
            /\ D!Pg!UpdateCodexPlanType(d, c, "paid") = D!SetCred(d, c, WithPlan(d.cred[c]))
            /\ \A s : D!Pg!UpdateCodexStatus(d, c, s, time)
                        = LET u == D!SetCred(d, c, WithStatus(d.cred[c], s))
                          IN D!Commit(d, u, s, UntilOf(u, c, new, D!Every(D!Tiers, now), now))
            /\ \A r : D!Pg!UpsertQuota(d, c, r, time) = ResetOf(d, c, new, D!Pg!FromTimes(r), now)
            /\ \A t \in D!Tiers : \A u :
                 D!Pg!SetQuotaThrottled(d, c, t, u, time)
                   = D!Pg!Q!NotNull(d, {D!Pg!tsFrom(u)}, TierOf(d, c, new, t, D!Pg!tsFrom(u), now))
            /\ \A t, u : t \notin D!Tiers =>
                 D!Pg!SetQuotaThrottled(d, c, t, u, time)
                   = D!Pg!Q!NotNull(d, {D!Pg!tsFrom(u)},
                       UntilOf(d, c, new, D!Every(D!Tiers, D!Pg!tsFrom(u)), now))
            /\ D!Pg!RestoreExpiredThrottledCodex(d) = D!RestoreThrottled(d)
            /\ D!Pg!DeleteQuota(d, c) = D!Affecting(d, d.quota, c, D!EraseQuota(d, c))
            /\ D!Pg!DeleteCodex(d, c) = D!Affecting(d, d.cred, c, D!EraseCred(d, c))
<1>1. D!Tiers = D!CodexTiers
  BY ShapesAre
<1> QED
  BY <1>1
  DEF D!Pg!CreateCodex, D!Pg!UpdateCodexTokens, D!Pg!UpdateCodexPlanType, D!Pg!UpdateCodexStatus,
      D!Pg!UpsertQuota, D!Pg!SetQuotaThrottled, D!Pg!RestoreExpiredThrottledCodex, D!Pg!DeleteQuota,
      D!Pg!DeleteCodex, D!Pg!Q!CreateCodex, D!Pg!Q!UpdateCodexTokens, D!Pg!Q!UpdateCodexPlanType,
      D!Pg!Q!UpdateCodexStatus, D!Pg!Q!UpsertQuota, D!Pg!Q!SetQuotaThrottledTier,
      D!Pg!Q!SetQuotaThrottledAll, D!Pg!Q!RestoreExpiredThrottledCodex, D!Pg!Q!DeleteQuota,
      D!Pg!Q!DeleteCodex, D!Pg!Q!ClearQuotaThrottle, D!Pg!CodexTiers, D!Pg!Q!CodexTiers,
           D!CodexTiers,
      D!Pg!Q!Failed, D!Pg!Failed, D!Failed, D!Pg!Q!PutCred, D!PutCred, D!Pg!Q!SetCred, D!SetCred,
      D!Pg!Q!PutQuota, D!PutQuota, D!Pg!Q!QuotaOr, D!QuotaOr, D!Pg!Q!PutRow, D!PutRow,
      D!Pg!Q!RestoreThrottled, D!RestoreThrottled, D!Pg!Q!EraseQuota, D!EraseQuota,
           D!Pg!Q!EraseCred,
      D!EraseCred, D!Pg!Q!Restrict, D!Restrict, D!Pg!Affecting, D!Affecting, D!Pg!Commit, D!Commit,
      D!Pg!ShouldClear, D!ShouldClear, D!Pg!Q!Every, D!Every, ResetOf, UntilOf, TierOf, WithStatus,
           WithPlan

LEMMA GivenOffered ==
  ASSUME Known, handler = "codex", NEW r \in D!CredentialRows
  PROVE  /\ r.status \in D!Statuses
         /\ Offered(r.at.expired, D!Pg!Stamped(r).at.expired, D!Sq!Formatted(r), D!Pg!Stamped(r))
<1>1. PICK x : x = D!Sq!Formatted(r)
  OBVIOUS
<1>2. PICK y : y = D!Pg!Stamped(r)
  OBVIOUS
<1>3. Given(r, x, y) /\ r.status \in D!Statuses
  BY <1>1, <1>2, GivenIs
<1>4. CredTimes = {"expired"}
  BY ShapesAre
<1>5. CredRow = GivenRow
  BY <1>4 DEF CredRow, GivenRow
<1>6. r.at.expired # D!ZeroTime => CredAgree(x, y)
  BY <1>3, <1>4, <1>5 DEF Given, GivenTime, CredAgree
<1>7. Offered(r.at.expired, y.at.expired, x, y)
  BY <1>3, <1>5, <1>6 DEF Given, GivenTime, Offered
<1> QED
  BY <1>1, <1>2, <1>3, <1>7

LEMMA OfferedCredCommit ==
  ASSUME NEW s, NEW p, NEW c \in Ids, Ready(s), Ready(p), NEW t, NEW w, NEW status, NEW k, NEW l,
         Offered(t, w, k, l), NEW a, NEW b, QuotaAgree(a, b), NEW m \in Int, NEW n, Hard(m, n)
  PROVE  /\ LET u == D!SetCred(s, c, k)
                e == D!Pg!Q!NotNull(p, {w}, D!SetCred(p, c, l))
            IN Moves(s, p, D!Commit(s, u, status, UntilOf(u, c, a, D!Every(D!Tiers, m), m)),
                           D!Commit(p, e, status, UntilOf(e, c, b, D!Every(D!Tiers, n), n)), c, {t})
         /\ LET u == D!PutCred(s, c, k)
                e == D!Pg!Q!NotNull(p, {w}, D!PutCred(p, c, l))
            IN Moves(s, p, D!Commit(s, u, status, UntilOf(u, c, a, D!Every(D!Tiers, m), m)),
                           D!Commit(p, e, status, UntilOf(e, c, b, D!Every(D!Tiers, n), n)), c, {t})
<1>1. k \in CredRow /\ l \in CredRow /\ (t = D!ZeroTime <=> w = D!Null)
      /\ (t # D!ZeroTime => CredAgree(k, l))
  BY DEF Offered
<1>2. Touches(s, D!PutCred(s, c, k), c) /\ Touches(s, D!SetCred(s, c, k), c)
  BY <1>1, PutCredStep, SetCredStep DEF Ready
<1>3. t # D!ZeroTime => /\ Paired(s, p, D!PutCred(s, c, k), D!PutCred(p, c, l), c)
                       /\ Paired(s, p, D!SetCred(s, c, k), D!SetCred(p, c, l), c)
  BY <1>1, PutCredPair, SetCredPair
<1>4. PICK u : u = D!SetCred(s, c, k)
  OBVIOUS
<1>5. PICK v : v = D!SetCred(p, c, l)
  OBVIOUS
<1>6. LET e == D!Pg!Q!NotNull(p, {w}, v)
      IN Moves(s, p, D!Commit(s, u, status, UntilOf(u, c, a, D!Every(D!Tiers, m), m)),
                     D!Commit(p, e, status, UntilOf(e, c, b, D!Every(D!Tiers, n), n)), c, {t})
  BY <1>1, <1>2, <1>3, <1>4, <1>5, OfferedCommit
<1>7. PICK x : x = D!PutCred(s, c, k)
  OBVIOUS
<1>8. PICK y : y = D!PutCred(p, c, l)
  OBVIOUS
<1>9. LET e == D!Pg!Q!NotNull(p, {w}, y)
      IN Moves(s, p, D!Commit(s, x, status, UntilOf(x, c, a, D!Every(D!Tiers, m), m)),
                     D!Commit(p, e, status, UntilOf(e, c, b, D!Every(D!Tiers, n), n)), c, {t})
  BY <1>1, <1>2, <1>3, <1>7, <1>8, OfferedCommit
<1> QED
  BY <1>4, <1>5, <1>6, <1>7, <1>8, <1>9

\* A status or a plan type for the row that is there.
LEMMA FieldPairs ==
  ASSUME NEW s, NEW p, NEW c \in Ids, Ready(s), Ready(p)
  PROVE  /\ \A x \in D!Statuses :
              Paired(s, p, D!SetCred(s, c, WithStatus(s.cred[c], x)),
                           D!SetCred(p, c, WithStatus(p.cred[c], x)), c)
         /\ handler # "opencode" =>
              Paired(s, p, D!SetCred(s, c, WithPlan(s.cred[c])),
                           D!SetCred(p, c, WithPlan(p.cred[c])), c)
<1>1. /\ c \in DOMAIN s.cred => s.cred[c] \in CredRow
      /\ c \in DOMAIN p.cred => p.cred[c] \in CredRow
  BY DEF Ready, Good, RowsOf
<1>2. RelAt(s, p, c) /\ c \in DOMAIN s.cred => CredAgree(s.cred[c], p.cred[c])
  BY DEF RelAt
<1>3. ASSUME NEW x \in D!Statuses
      PROVE  Paired(s, p, D!SetCred(s, c, WithStatus(s.cred[c], x)),
                          D!SetCred(p, c, WithStatus(p.cred[c], x)), c)
  <2>1. PICK k : k = WithStatus(s.cred[c], x)
    OBVIOUS
  <2>2. PICK l : l = WithStatus(p.cred[c], x)
    OBVIOUS
  <2>3. c \in DOMAIN s.cred => k \in CredRow
    BY <1>1, <2>1, StatusRow DEF WithStatus
  <2>4. c \in DOMAIN p.cred => l \in CredRow
    BY <1>1, <2>2, StatusRow DEF WithStatus
  <2>5. RelAt(s, p, c) /\ c \in DOMAIN s.cred => CredAgree(k, l)
    BY <1>2, <2>1, <2>2, StatusAgree DEF WithStatus
  <2> QED
    BY <2>1, <2>2, <2>3, <2>4, <2>5, SetCredPair
<1>4. ASSUME handler # "opencode"
      PROVE  Paired(s, p, D!SetCred(s, c, WithPlan(s.cred[c])),
                          D!SetCred(p, c, WithPlan(p.cred[c])), c)
  <2>1. PICK k : k = WithPlan(s.cred[c])
    OBVIOUS
  <2>2. PICK l : l = WithPlan(p.cred[c])
    OBVIOUS
  <2>3. c \in DOMAIN s.cred => k \in CredRow
    BY <1>1, <1>4, <2>1, PlanRow DEF WithPlan
  <2>4. c \in DOMAIN p.cred => l \in CredRow
    BY <1>1, <1>4, <2>2, PlanRow DEF WithPlan
  <2>5. RelAt(s, p, c) /\ c \in DOMAIN s.cred => CredAgree(k, l)
    BY <1>2, <1>4, <2>1, <2>2, PlanAgree DEF WithPlan
  <2> QED
    BY <2>1, <2>2, <2>3, <2>4, <2>5, SetCredPair
<1> QED
  BY <1>3, <1>4

\* A status, and its clearing of the throttles.
LEMMA StatusCommit ==
  ASSUME NEW s, NEW p, NEW c \in Ids, Ready(s), Ready(p), NEW x \in D!Statuses,
         NEW a, NEW b, QuotaAgree(a, b), NEW m \in Int, NEW n, Hard(m, n), NEW times
  PROVE  LET u == D!SetCred(s, c, WithStatus(s.cred[c], x))
             v == D!SetCred(p, c, WithStatus(p.cred[c], x))
         IN Moves(s, p, D!Commit(s, u, x, UntilOf(u, c, a, D!Every(D!Tiers, m), m)),
                        D!Commit(p, v, x, UntilOf(v, c, b, D!Every(D!Tiers, n), n)), c, times)
<1>1. PICK u : u = D!SetCred(s, c, WithStatus(s.cred[c], x))
  OBVIOUS
<1>2. PICK v : v = D!SetCred(p, c, WithStatus(p.cred[c], x))
  OBVIOUS
<1>3. Paired(s, p, u, v, c)
  BY <1>1, <1>2, FieldPairs
<1>4. Paired(s, p, D!Commit(s, u, x, UntilOf(u, c, a, D!Every(D!Tiers, m), m)),
                   D!Commit(p, v, x, UntilOf(v, c, b, D!Every(D!Tiers, n), n)), c)
  BY <1>3, CommitClearPair
<1> QED
  BY <1>1, <1>2, <1>4, PairedMoves

LEMMA DeleteMoves ==
  ASSUME NEW s, NEW p, NEW c \in Ids, Ready(s), Ready(p), NEW times
  PROVE  /\ Moves(s, p, D!Affecting(s, s.quota, c, D!EraseQuota(s, c)),
                        D!Affecting(p, p.quota, c, D!EraseQuota(p, c)), c, times)
         /\ Moves(s, p, D!Affecting(s, s.cred, c, D!EraseCred(s, c)),
                        D!Affecting(p, p.cred, c, D!EraseCred(p, c)), c, times)
         /\ Moves(s, p, D!EraseQuota(s, c), D!EraseQuota(p, c), c, times)
<1>1. /\ Paired(s, p, D!EraseQuota(s, c), D!EraseQuota(p, c), c)
      /\ Paired(s, p, D!EraseCred(s, c), D!EraseCred(p, c), c)
  BY ErasePairs
<1>2. RelAt(s, p, c) => /\ c \in DOMAIN s.quota <=> c \in DOMAIN p.quota
                        /\ c \in DOMAIN s.cred <=> c \in DOMAIN p.cred
  BY DEF RelAt
<1>3. Paired(s, p, D!Affecting(s, s.quota, c, D!EraseQuota(s, c)),
                   D!Affecting(p, p.quota, c, D!EraseQuota(p, c)), c)
  BY <1>1, <1>2, AffectingPair
<1>4. Paired(s, p, D!Affecting(s, s.cred, c, D!EraseCred(s, c)),
                   D!Affecting(p, p.cred, c, D!EraseCred(p, c)), c)
  BY <1>1, <1>2, AffectingPair
<1> QED
  BY <1>1, <1>3, <1>4, PairedMoves

LEMMA CodexKeeps ==
  ASSUME Known, StoresInv, handler = "codex", NEW c \in Ids, D!Codex(c)
  PROVE  AfterWrite
<1>1. Ready(sqlite) /\ Ready(postgres)
  BY DEF StoresInv, Ready, D!TypeOK
<1>2. PICK a : a = D!Sq!Q!NewCodexQuota(time)
  OBVIOUS
<1>3. PICK b : b = D!Pg!Q!NewCodexQuota(time)
  OBVIOUS
<1>4. PICK m, n : m = D!Sq!Q!Now(time) /\ n = D!Pg!Q!Now(time)
  OBVIOUS
<1>5. QuotaAgree(a, b) /\ m \in Int /\ Hard(m, n)
  BY <1>2, <1>3, <1>4, NewCodexAgree, NowIs
<1>6. ASSUME NEW r \in D!CredentialRows, D!Written(c, {r.at.expired},
      D!Sq!CreateCodex(sqlite, c, r), D!Pg!CreateCodex(postgres, c, r))
      PROVE  AfterWrite
  <2>1. PICK u : u = D!Sq!CreateCodex(sqlite, c, r)
    OBVIOUS
  <2>2. PICK v : v = D!Pg!CreateCodex(postgres, c, r)
    OBVIOUS
  <2>3. u = IF c \in DOMAIN sqlite.cred THEN D!Failed(sqlite)
        ELSE D!PutCred(sqlite, c, D!Sq!Formatted(r))
    BY <1>2, <1>4, <2>1, CodexSqlite
  <2>4. v = IF c \in DOMAIN postgres.cred THEN D!Failed(postgres)
            ELSE D!Pg!Q!NotNull(postgres, {D!Pg!Stamped(r).at.expired},
                 D!PutCred(postgres, c, D!Pg!Stamped(r)))
    BY <1>3, <1>4, <2>2, CodexPostgres
  <2>6. r.status \in D!Statuses /\ Offered(r.at.expired, D!Pg!Stamped(r).at.expired,
        D!Sq!Formatted(r), D!Pg!Stamped(r))
    BY GivenOffered
  <2>5. Moves(sqlite, postgres, u, v, c, {r.at.expired})
    BY <1>1, <1>5, <2>3, <2>4, <2>6, OfferedPut
  <2> QED
    BY <1>6, <2>1, <2>2, <2>5, WrittenKeeps
<1>7. ASSUME NEW r \in D!CredentialRows, D!Written(c, {r.at.expired},
      D!Sq!UpdateCodexTokens(sqlite, c, r, time), D!Pg!UpdateCodexTokens(postgres, c, r, time))
      PROVE  AfterWrite
  <2>1. PICK u : u = D!Sq!UpdateCodexTokens(sqlite, c, r, time)
    OBVIOUS
  <2>2. PICK v : v = D!Pg!UpdateCodexTokens(postgres, c, r, time)
    OBVIOUS
  <2>3. u = LET e == D!SetCred(sqlite, c, D!Sq!Formatted(r))
        IN D!Commit(sqlite, e, r.status, UntilOf(e, c, a, D!Every(D!Tiers, m), m))
    BY <1>2, <1>4, <2>1, CodexSqlite
  <2>4. v = LET e == D!Pg!Q!NotNull(postgres, {D!Pg!Stamped(r).at.expired},
        D!SetCred(postgres, c, D!Pg!Stamped(r)))
             IN D!Commit(postgres, e, r.status, UntilOf(e, c, b, D!Every(D!Tiers, n), n))
    BY <1>3, <1>4, <2>2, CodexPostgres
  <2>6. r.status \in D!Statuses /\ Offered(r.at.expired, D!Pg!Stamped(r).at.expired,
        D!Sq!Formatted(r), D!Pg!Stamped(r))
    BY GivenOffered
  <2>5. Moves(sqlite, postgres, u, v, c, {r.at.expired})
    BY <1>1, <1>5, <2>3, <2>4, <2>6, OfferedCredCommit
  <2> QED
    BY <1>7, <2>1, <2>2, <2>5, WrittenKeeps
<1>8. ASSUME D!Written(c, {}, D!Sq!UpdateCodexPlanType(sqlite, c, "paid"),
      D!Pg!UpdateCodexPlanType(postgres, c, "paid"))
      PROVE  AfterWrite
  <2>1. PICK u : u = D!Sq!UpdateCodexPlanType(sqlite, c, "paid")
    OBVIOUS
  <2>2. PICK v : v = D!Pg!UpdateCodexPlanType(postgres, c, "paid")
    OBVIOUS
  <2>3. u = D!SetCred(sqlite, c, WithPlan(sqlite.cred[c]))
    BY <1>2, <1>4, <2>1, CodexSqlite
  <2>4. v = D!SetCred(postgres, c, WithPlan(postgres.cred[c]))
    BY <1>3, <1>4, <2>2, CodexPostgres
  <2>5. Moves(sqlite, postgres, u, v, c, {})
    BY <1>1, <1>5, <2>3, <2>4, FieldPairs, PairedMoves
  <2> QED
    BY <1>8, <2>1, <2>2, <2>5, WrittenKeeps
<1>9. ASSUME NEW x \in D!Statuses, D!Written(c, {}, D!Sq!UpdateCodexStatus(sqlite, c, x, time),
      D!Pg!UpdateCodexStatus(postgres, c, x, time))
      PROVE  AfterWrite
  <2>1. PICK u : u = D!Sq!UpdateCodexStatus(sqlite, c, x, time)
    OBVIOUS
  <2>2. PICK v : v = D!Pg!UpdateCodexStatus(postgres, c, x, time)
    OBVIOUS
  <2>3. u = LET e == D!SetCred(sqlite, c, WithStatus(sqlite.cred[c], x))
        IN D!Commit(sqlite, e, x, UntilOf(e, c, a, D!Every(D!Tiers, m), m))
    BY <1>2, <1>4, <2>1, CodexSqlite
  <2>4. v = LET e == D!SetCred(postgres, c, WithStatus(postgres.cred[c], x))
        IN D!Commit(postgres, e, x, UntilOf(e, c, b, D!Every(D!Tiers, n), n))
    BY <1>3, <1>4, <2>2, CodexPostgres
  <2>5. Moves(sqlite, postgres, u, v, c, {})
    BY <1>1, <1>5, <2>3, <2>4, StatusCommit
  <2> QED
    BY <1>9, <2>1, <2>2, <2>5, WrittenKeeps
<1>10. ASSUME NEW r \in D!Resets(D!CodexWindows),
       D!Written(c, D!Range(r), D!Sq!UpsertQuota(sqlite, c, r, time),
            D!Pg!UpsertQuota(postgres, c, r, time))
      PROVE  AfterWrite
  <2>1. PICK u : u = D!Sq!UpsertQuota(sqlite, c, r, time)
    OBVIOUS
  <2>2. PICK v : v = D!Pg!UpsertQuota(postgres, c, r, time)
    OBVIOUS
  <2>3. u = ResetOf(sqlite, c, a, D!Sq!FmtTimes(r), m)
    BY <1>2, <1>4, <2>1, CodexSqlite
  <2>4. v = ResetOf(postgres, c, b, D!Pg!FromTimes(r), n)
    BY <1>3, <1>4, <2>2, CodexPostgres
  <2>6. r \in D!Resets(Windows)
    BY ShapesAre
  <2>5. Moves(sqlite, postgres, u, v, c, D!Range(r))
    BY <1>1, <1>5, <2>3, <2>4, <2>6, ResetMoves
  <2> QED
    BY <1>10, <2>1, <2>2, <2>5, WrittenKeeps
<1>11. ASSUME NEW t \in D!CodexTiers \cup {""}, NEW until \in D!Times,
       D!Written(c, {until}, D!Sq!SetQuotaThrottled(sqlite, c, t, until, time),
            D!Pg!SetQuotaThrottled(postgres, c, t, until, time))
      PROVE  AfterWrite
  <2>1. PICK u : u = D!Sq!SetQuotaThrottled(sqlite, c, t, until, time)
    OBVIOUS
  <2>2. PICK v : v = D!Pg!SetQuotaThrottled(postgres, c, t, until, time)
    OBVIOUS
  <2>3. /\ t \in D!Tiers => u = TierOf(sqlite, c, a, t, D!Sq!fmtTime(until), m)
        /\ t \notin D!Tiers => u = UntilOf(sqlite, c, a, D!Every(D!Tiers, D!Sq!fmtTime(until)), m)
    BY <1>2, <1>4, <2>1, CodexSqlite
  <2>4. /\ t \in D!Tiers => v = D!Pg!Q!NotNull(postgres, {D!Pg!tsFrom(until)},
                                TierOf(postgres, c, b, t, D!Pg!tsFrom(until), n))
        /\ t \notin D!Tiers => v = D!Pg!Q!NotNull(postgres, {D!Pg!tsFrom(until)},
                                   UntilOf(postgres, c, b, D!Every(D!Tiers, D!Pg!tsFrom(until)), n))
    BY <1>3, <1>4, <2>2, CodexPostgres
  <2>6. t \in D!Tiers => Moves(sqlite, postgres, u, v, c, {until})
    BY <1>1, <1>5, <2>3, <2>4, ThrottleMoves
  <2>7. t \notin D!Tiers => Moves(sqlite, postgres, u, v, c, {until})
    BY <1>1, <1>5, <2>3, <2>4, ThrottleMoves
  <2>5. Moves(sqlite, postgres, u, v, c, {until})
    BY <1>1, <1>5, <2>3, <2>4, <2>6, <2>7
  <2> QED
    BY <1>11, <2>1, <2>2, <2>5, WrittenKeeps
<1>12. ASSUME D!Written(c, {}, D!Sq!RestoreExpiredThrottledCodex(sqlite),
       D!Pg!RestoreExpiredThrottledCodex(postgres))
      PROVE  AfterWrite
  <2>1. PICK u : u = D!Sq!RestoreExpiredThrottledCodex(sqlite)
    OBVIOUS
  <2>2. PICK v : v = D!Pg!RestoreExpiredThrottledCodex(postgres)
    OBVIOUS
  <2>3. u = D!RestoreThrottled(sqlite)
    BY <1>2, <1>4, <2>1, CodexSqlite
  <2>4. v = D!RestoreThrottled(postgres)
    BY <1>3, <1>4, <2>2, CodexPostgres
  <2>5. Moves(sqlite, postgres, u, v, c, {})
    BY <1>1, <1>5, <2>3, <2>4, RestoreMoves
  <2> QED
    BY <1>12, <2>1, <2>2, <2>5, WrittenKeeps
<1>13. ASSUME D!Written(c, {}, D!Sq!DeleteQuota(sqlite, c), D!Pg!DeleteQuota(postgres, c))
      PROVE  AfterWrite
  <2>1. PICK u : u = D!Sq!DeleteQuota(sqlite, c)
    OBVIOUS
  <2>2. PICK v : v = D!Pg!DeleteQuota(postgres, c)
    OBVIOUS
  <2>3. u = D!Affecting(sqlite, sqlite.quota, c, D!EraseQuota(sqlite, c))
    BY <1>2, <1>4, <2>1, CodexSqlite
  <2>4. v = D!Affecting(postgres, postgres.quota, c, D!EraseQuota(postgres, c))
    BY <1>3, <1>4, <2>2, CodexPostgres
  <2>5. Moves(sqlite, postgres, u, v, c, {})
    BY <1>1, <1>5, <2>3, <2>4, DeleteMoves
  <2> QED
    BY <1>13, <2>1, <2>2, <2>5, WrittenKeeps
<1>14. ASSUME D!Written(c, {}, D!Sq!DeleteCodex(sqlite, c), D!Pg!DeleteCodex(postgres, c))
      PROVE  AfterWrite
  <2>1. PICK u : u = D!Sq!DeleteCodex(sqlite, c)
    OBVIOUS
  <2>2. PICK v : v = D!Pg!DeleteCodex(postgres, c)
    OBVIOUS
  <2>3. u = D!Affecting(sqlite, sqlite.cred, c, D!EraseCred(sqlite, c))
    BY <1>2, <1>4, <2>1, CodexSqlite
  <2>4. v = D!Affecting(postgres, postgres.cred, c, D!EraseCred(postgres, c))
    BY <1>3, <1>4, <2>2, CodexPostgres
  <2>5. Moves(sqlite, postgres, u, v, c, {})
    BY <1>1, <1>5, <2>3, <2>4, DeleteMoves
  <2> QED
    BY <1>14, <2>1, <2>2, <2>5, WrittenKeeps
<1> QED
  BY <1>6, <1>7, <1>8, <1>9, <1>10, <1>11, <1>12, <1>13, <1>14 DEF D!Codex

-----------------------------------------------------------------------------
(* Gemini and Antigravity store the time of the sync *)

LEMMA SyncedOffered ==
  ASSUME Known, handler \in {"gemini", "antigravity"}, NEW r \in D!CredentialRows,
         NEW m \in Int, NEW n, Hard(m, n)
  PROVE  /\ r.status \in D!Statuses
         /\ Offered(r.at.expired, D!Pg!Stamped(r).at.expired,
                    SyncedRow(D!Sq!Formatted(r), m), SyncedRow(D!Pg!Stamped(r), n))
<1>1. PICK x : x = D!Sq!Formatted(r)
  OBVIOUS
<1>2. PICK y : y = D!Pg!Stamped(r)
  OBVIOUS
<1>3. Given(r, x, y) /\ r.status \in D!Statuses
  BY <1>1, <1>2, GivenIs
<1>4. x \in GivenRow /\ y \in GivenRow /\ x.status = y.status /\ x.plan = y.plan
      /\ x.refresh = y.refresh /\ GivenTime(r.at.expired, x.at.expired, y.at.expired) /\ n \in Int
  BY <1>3 DEF Given, Hard
<1>5. PICK k : k = SyncedRow(x, m)
  OBVIOUS
<1>6. PICK l : l = SyncedRow(y, n)
  OBVIOUS
<1>7. k \in CredRow /\ l \in CredRow
  BY <1>4, <1>5, <1>6, SyncedRowIs
<1>8. r.at.expired # D!ZeroTime => CredAgree(k, l)
  <2>1. r.at.expired # D!ZeroTime => Hard(x.at.expired, y.at.expired)
    BY <1>4 DEF GivenTime
  <2> QED
    BY <1>4, <1>5, <1>6, <2>1, SyncedAgree
<1>9. Offered(r.at.expired, y.at.expired, k, l)
  BY <1>4, <1>7, <1>8 DEF GivenTime, Offered
<1> QED
  BY <1>1, <1>2, <1>3, <1>5, <1>6, <1>9

LEMMA SyncedPlanPair ==
  ASSUME handler \in {"gemini", "antigravity"}, NEW s, NEW p, NEW c \in Ids, Ready(s), Ready(p),
         NEW m \in Int, NEW n, Hard(m, n)
  PROVE  Paired(s, p, D!SetCred(s, c, SyncedRow(WithPlan(s.cred[c]), m)),
                      D!SetCred(p, c, SyncedRow(WithPlan(p.cred[c]), n)), c)
<1>1. /\ c \in DOMAIN s.cred => s.cred[c] \in CredRow
      /\ c \in DOMAIN p.cred => p.cred[c] \in CredRow
  BY DEF Ready, Good, RowsOf
<1>2. RelAt(s, p, c) /\ c \in DOMAIN s.cred => CredAgree(s.cred[c], p.cred[c])
  BY DEF RelAt
<1>3. PICK g : g = WithPlan(s.cred[c])
  OBVIOUS
<1>4. PICK h : h = WithPlan(p.cred[c])
  OBVIOUS
<1>5. c \in DOMAIN s.cred => g \in CredRow
  BY <1>1, <1>3, PlanRow DEF WithPlan
<1>6. c \in DOMAIN p.cred => h \in CredRow
  BY <1>1, <1>4, PlanRow DEF WithPlan
<1>7. RelAt(s, p, c) /\ c \in DOMAIN s.cred => CredAgree(g, h)
  BY <1>2, <1>3, <1>4, PlanAgree DEF WithPlan
<1>8. PICK k : k = SyncedRow(g, m)
  OBVIOUS
<1>9. PICK l : l = SyncedRow(h, n)
  OBVIOUS
<1>10. n \in Int
  BY DEF Hard
<1>11. c \in DOMAIN s.cred => k \in CredRow
  BY <1>5, <1>8, SyncedRowIs
<1>12. c \in DOMAIN p.cred => l \in CredRow
  BY <1>6, <1>9, <1>10, SyncedRowIs
<1>13. RelAt(s, p, c) /\ c \in DOMAIN s.cred => CredAgree(k, l)
  BY <1>7, <1>8, <1>9, SyncedAgree
<1> QED
  BY <1>3, <1>4, <1>8, <1>9, <1>11, <1>12, <1>13, SetCredPair

LEMMA NewGeminiAgree ==
  ASSUME Known, handler = "gemini"
  PROVE  QuotaAgree(D!Sq!Q!NewGeminiQuota(time), D!Pg!Q!NewGeminiQuota(time))
<1>1. PICK m, n : m = D!Sq!Q!Now(time) /\ n = D!Pg!Q!Now(time)
  OBVIOUS
<1>2. m \in Int /\ n \in Int /\ Hard(m, n)
  BY <1>1, NowIs
<1>3. Windows = D!GeminiTiers /\ D!Tiers = D!GeminiTiers
  BY ShapesAre
<1>4. PICK a : a = D!Sq!Q!NewGeminiQuota(time)
  OBVIOUS
<1>5. PICK b : b = D!Pg!Q!NewGeminiQuota(time)
  OBVIOUS
<1>6. a = [reset |-> [w \in Windows |-> m], until |-> [t \in D!Tiers |-> m], synced |-> m]
  BY <1>1, <1>3, <1>4 DEF D!Sq!Q!NewGeminiQuota, D!Sq!Q!Every, D!Sq!Q!GeminiTiers, D!GeminiTiers
<1>7. b = [reset |-> [w \in Windows |-> n], until |-> [t \in D!Tiers |-> n], synced |-> n]
  BY <1>1, <1>3, <1>5 DEF D!Pg!Q!NewGeminiQuota, D!Pg!Q!Every, D!Pg!Q!GeminiTiers, D!GeminiTiers
<1>8. ResetCell(m, n)
  BY <1>2 DEF ResetCell
<1>9. a \in QuotaRow /\ b \in QuotaRow
  BY <1>2, <1>6, <1>7, <1>8 DEF QuotaRow
<1>10. \A w \in Windows : ResetCell(a.reset[w], b.reset[w])
  BY <1>2, <1>6, <1>7, <1>8
<1>11. \A t \in D!Tiers : a.until[t] = m /\ b.until[t] = n
  BY <1>6, <1>7
<1>12. a.synced = m /\ b.synced = n
  BY <1>6, <1>7
<1>13. QuotaAgree(a, b)
  BY <1>2, <1>9, <1>10, <1>11, <1>12 DEF QuotaAgree
<1> QED
  BY <1>4, <1>5, <1>13

LEMMA GeminiSqlite ==
  ASSUME handler = "gemini", NEW d, NEW c
  PROVE  LET new == D!Sq!Q!NewGeminiQuota(time)
             now == D!Sq!Q!Now(time)
         IN /\ \A r : D!Sq!UpsertGeminiCLI(d, c, r, time)
                 = LET u == D!PutCred(d, c, SyncedRow(D!Sq!Formatted(r), now))
                   IN D!Commit(d, u, r.status, UntilOf(u, c, new, D!Every(D!Tiers, now), now))
            /\ \A r : D!Sq!UpdateGeminiTokens(d, c, r, time)
                 = LET u == D!SetCred(d, c, SyncedRow(D!Sq!Formatted(r), now))
                   IN D!Commit(d, u, r.status, UntilOf(u, c, new, D!Every(D!Tiers, now), now))
            /\ D!Sq!UpdateGeminiPlanType(d, c, "paid", time) =
                 D!SetCred(d, c, SyncedRow(WithPlan(d.cred[c]), now))
            /\ \A s : D!Sq!UpdateGeminiCLIStatus(d, c, s, time)
                 = LET u == D!SetCred(d, c, WithStatus(d.cred[c], s))
                   IN D!Commit(d, u, s, UntilOf(u, c, new, D!Every(D!Tiers, now), now))
            /\ \A r : D!Sq!UpsertGeminiQuota(d, c, r, time) =
                 ResetOf(d, c, new, D!Sq!FmtTimes(r), now)
            /\ \A t \in D!Tiers : \A u :
                 D!Sq!SetGeminiQuotaThrottled(d, c, t, u, time) =
                      TierOf(d, c, new, t, D!Sq!fmtTime(u), now)
            /\ \A t, u : t \notin D!Tiers =>
                 D!Sq!SetGeminiQuotaThrottled(d, c, t, u, time)
                   = UntilOf(d, c, new, D!Every(D!Tiers, D!Sq!fmtTime(u)), now)
            /\ D!Sq!RestoreExpiredThrottledGeminiCLI(d) = D!RestoreThrottled(d)
            /\ D!Sq!DeleteGeminiQuota(d, c) = D!Affecting(d, d.quota, c, D!EraseQuota(d, c))
            /\ D!Sq!DeleteGeminiCLI(d, c) = D!Affecting(d, d.cred, c, D!EraseCred(d, c))
<1>1. D!Tiers = D!GeminiTiers
  BY ShapesAre
<1> QED
  BY <1>1
  DEF D!Sq!UpsertGeminiCLI, D!Sq!UpdateGeminiTokens, D!Sq!UpdateGeminiPlanType,
      D!Sq!UpdateGeminiCLIStatus, D!Sq!UpsertGeminiQuota, D!Sq!SetGeminiQuotaThrottled,
      D!Sq!RestoreExpiredThrottledGeminiCLI, D!Sq!DeleteGeminiQuota, D!Sq!DeleteGeminiCLI,
      D!Sq!Q!UpsertGeminiCLI, D!Sq!Q!UpdateGeminiTokens, D!Sq!Q!UpdateGeminiPlanType,
      D!Sq!Q!UpdateGeminiCLIStatus, D!Sq!Q!UpsertGeminiQuota, D!Sq!Q!SetGeminiQuotaThrottledAll,
      D!Sq!Q!SetGeminiQuotaThrottledTier, D!Sq!Q!RestoreExpiredThrottledGeminiCLI,
      D!Sq!Q!DeleteGeminiQuota, D!Sq!Q!DeleteGeminiCLI, D!Sq!Q!ClearGeminiQuotaThrottle,
      D!Sq!Q!Synced, D!Sq!GeminiTiers, D!Sq!Q!GeminiTiers, D!GeminiTiers, D!Sq!Q!Failed,
      D!Failed, D!Sq!Q!PutCred, D!PutCred, D!Sq!Q!SetCred, D!SetCred, D!Sq!Q!PutQuota,
      D!PutQuota, D!Sq!Q!QuotaOr, D!QuotaOr, D!Sq!Q!PutRow, D!PutRow, D!Sq!Q!RestoreThrottled,
      D!RestoreThrottled, D!Sq!Q!EraseQuota, D!EraseQuota, D!Sq!Q!EraseCred, D!EraseCred,
      D!Sq!Q!Restrict, D!Restrict, D!Sq!Q!Every, D!Every, D!Sq!Failed, D!Sq!Affecting,
      D!Affecting, D!Sq!Commit, D!Commit, D!Sq!ShouldClear, D!ShouldClear, ResetOf, UntilOf,
      OnlyUntilOf, TierOf, WithStatus, WithPlan, SyncedRow, UpdatedRow

LEMMA GeminiPostgres ==
  ASSUME handler = "gemini", NEW d, NEW c
  PROVE  LET new == D!Pg!Q!NewGeminiQuota(time)
             now == D!Pg!Q!Now(time)
         IN /\ \A r : D!Pg!UpsertGeminiCLI(d, c, r, time)
                 = LET u == D!Pg!Q!NotNull(d, {D!Pg!Stamped(r).at.expired},
                        D!PutCred(d, c, SyncedRow(D!Pg!Stamped(r), now)))
                   IN D!Commit(d, u, r.status, UntilOf(u, c, new, D!Every(D!Tiers, now), now))
            /\ \A r : D!Pg!UpdateGeminiTokens(d, c, r, time)
                 = LET u == D!Pg!Q!NotNull(d, {D!Pg!Stamped(r).at.expired},
                        D!SetCred(d, c, SyncedRow(D!Pg!Stamped(r), now)))
                   IN D!Commit(d, u, r.status, UntilOf(u, c, new, D!Every(D!Tiers, now), now))
            /\ D!Pg!UpdateGeminiPlanType(d, c, "paid", time) =
                 D!SetCred(d, c, SyncedRow(WithPlan(d.cred[c]), now))
            /\ \A s : D!Pg!UpdateGeminiCLIStatus(d, c, s, time)
                 = LET u == D!SetCred(d, c, WithStatus(d.cred[c], s))
                   IN D!Commit(d, u, s, UntilOf(u, c, new, D!Every(D!Tiers, now), now))
            /\ \A r : D!Pg!UpsertGeminiQuota(d, c, r, time)
                 = D!Pg!Q!NotNull(d, D!Pg!Q!Range(D!Pg!FromTimes(r)),
                     ResetOf(d, c, new, D!Pg!FromTimes(r), now))
            /\ \A t \in D!Tiers : \A u :
                 D!Pg!SetGeminiQuotaThrottled(d, c, t, u, time)
                   = D!Pg!Q!NotNull(d, {D!Pg!tsFrom(u)}, TierOf(d, c, new, t, D!Pg!tsFrom(u), now))
            /\ \A t, u : t \notin D!Tiers =>
                 D!Pg!SetGeminiQuotaThrottled(d, c, t, u, time)
                   = D!Pg!Q!NotNull(d, {D!Pg!tsFrom(u)},
                       UntilOf(d, c, new, D!Every(D!Tiers, D!Pg!tsFrom(u)), now))
            /\ D!Pg!RestoreExpiredThrottledGeminiCLI(d) = D!RestoreThrottled(d)
            /\ D!Pg!DeleteGeminiQuota(d, c) = D!Affecting(d, d.quota, c, D!EraseQuota(d, c))
            /\ D!Pg!DeleteGeminiCLI(d, c) = D!Affecting(d, d.cred, c, D!EraseCred(d, c))
<1>1. D!Tiers = D!GeminiTiers
  BY ShapesAre
<1> QED
  BY <1>1
  DEF D!Pg!UpsertGeminiCLI, D!Pg!UpdateGeminiTokens, D!Pg!UpdateGeminiPlanType,
      D!Pg!UpdateGeminiCLIStatus, D!Pg!UpsertGeminiQuota, D!Pg!SetGeminiQuotaThrottled,
      D!Pg!RestoreExpiredThrottledGeminiCLI, D!Pg!DeleteGeminiQuota, D!Pg!DeleteGeminiCLI,
      D!Pg!Q!UpsertGeminiCLI, D!Pg!Q!UpdateGeminiTokens, D!Pg!Q!UpdateGeminiPlanType,
      D!Pg!Q!UpdateGeminiCLIStatus, D!Pg!Q!UpsertGeminiQuota, D!Pg!Q!SetGeminiQuotaThrottledAll,
      D!Pg!Q!SetGeminiQuotaThrottledTier, D!Pg!Q!RestoreExpiredThrottledGeminiCLI,
      D!Pg!Q!DeleteGeminiQuota, D!Pg!Q!DeleteGeminiCLI, D!Pg!Q!ClearGeminiQuotaThrottle,
      D!Pg!Q!Synced, D!Pg!GeminiTiers, D!Pg!Q!GeminiTiers, D!GeminiTiers, D!Pg!Q!Failed,
      D!Failed, D!Pg!Q!PutCred, D!PutCred, D!Pg!Q!SetCred, D!SetCred, D!Pg!Q!PutQuota,
      D!PutQuota, D!Pg!Q!QuotaOr, D!QuotaOr, D!Pg!Q!PutRow, D!PutRow, D!Pg!Q!RestoreThrottled,
      D!RestoreThrottled, D!Pg!Q!EraseQuota, D!EraseQuota, D!Pg!Q!EraseCred, D!EraseCred,
      D!Pg!Q!Restrict, D!Restrict, D!Pg!Q!Every, D!Every, D!Pg!Failed, D!Pg!Affecting,
      D!Affecting, D!Pg!Commit, D!Commit, D!Pg!ShouldClear, D!ShouldClear, ResetOf, UntilOf,
      OnlyUntilOf, TierOf, WithStatus, WithPlan, SyncedRow, UpdatedRow

LEMMA GeminiKeeps ==
  ASSUME Known, StoresInv, handler = "gemini", NEW c \in Ids, D!Gemini(c)
  PROVE  AfterWrite
<1>1. Ready(sqlite) /\ Ready(postgres)
  BY DEF StoresInv, Ready, D!TypeOK
<1>2. PICK a : a = D!Sq!Q!NewGeminiQuota(time)
  OBVIOUS
<1>3. PICK b : b = D!Pg!Q!NewGeminiQuota(time)
  OBVIOUS
<1>4. PICK m, n : m = D!Sq!Q!Now(time) /\ n = D!Pg!Q!Now(time)
  OBVIOUS
<1>5. QuotaAgree(a, b) /\ m \in Int /\ Hard(m, n)
  BY <1>2, <1>3, <1>4, NewGeminiAgree, NowIs
<1>6. ASSUME NEW r \in D!CredentialRows, 
              D!Written(c, {r.at.expired}, D!Sq!UpsertGeminiCLI(sqlite, c, r, time),
                        D!Pg!UpsertGeminiCLI(postgres, c, r, time))
      PROVE  AfterWrite
  <2>1. PICK u : u = D!Sq!UpsertGeminiCLI(sqlite, c, r, time)
    OBVIOUS
  <2>2. PICK v : v = D!Pg!UpsertGeminiCLI(postgres, c, r, time)
    OBVIOUS
  <2>3. u = LET e == D!PutCred(sqlite, c, SyncedRow(D!Sq!Formatted(r), m))
            IN D!Commit(sqlite, e, r.status, UntilOf(e, c, a, D!Every(D!Tiers, m), m))
    BY <1>2, <1>4, <2>1, GeminiSqlite
  <2>4. v = LET e == D!Pg!Q!NotNull(postgres, {D!Pg!Stamped(r).at.expired},
                     D!PutCred(postgres, c, SyncedRow(D!Pg!Stamped(r), n)))
            IN D!Commit(postgres, e, r.status, UntilOf(e, c, b, D!Every(D!Tiers, n), n))
    BY <1>3, <1>4, <2>2, GeminiPostgres
  <2>6. r.status \in D!Statuses
        /\ Offered(r.at.expired, D!Pg!Stamped(r).at.expired,
                   SyncedRow(D!Sq!Formatted(r), m), SyncedRow(D!Pg!Stamped(r), n))
    BY <1>5, SyncedOffered
  <2>5. Moves(sqlite, postgres, u, v, c, {r.at.expired})
    BY <1>1, <1>5, <2>3, <2>4, <2>6, OfferedCredCommit
  <2> QED
    BY <1>6, <2>1, <2>2, <2>5, WrittenKeeps
<1>7. ASSUME NEW r \in D!CredentialRows, 
              D!Written(c, {r.at.expired}, D!Sq!UpdateGeminiTokens(sqlite, c, r, time),
                        D!Pg!UpdateGeminiTokens(postgres, c, r, time))
      PROVE  AfterWrite
  <2>1. PICK u : u = D!Sq!UpdateGeminiTokens(sqlite, c, r, time)
    OBVIOUS
  <2>2. PICK v : v = D!Pg!UpdateGeminiTokens(postgres, c, r, time)
    OBVIOUS
  <2>3. u = LET e == D!SetCred(sqlite, c, SyncedRow(D!Sq!Formatted(r), m))
            IN D!Commit(sqlite, e, r.status, UntilOf(e, c, a, D!Every(D!Tiers, m), m))
    BY <1>2, <1>4, <2>1, GeminiSqlite
  <2>4. v = LET e == D!Pg!Q!NotNull(postgres, {D!Pg!Stamped(r).at.expired},
                     D!SetCred(postgres, c, SyncedRow(D!Pg!Stamped(r), n)))
            IN D!Commit(postgres, e, r.status, UntilOf(e, c, b, D!Every(D!Tiers, n), n))
    BY <1>3, <1>4, <2>2, GeminiPostgres
  <2>6. r.status \in D!Statuses
        /\ Offered(r.at.expired, D!Pg!Stamped(r).at.expired,
                   SyncedRow(D!Sq!Formatted(r), m), SyncedRow(D!Pg!Stamped(r), n))
    BY <1>5, SyncedOffered
  <2>5. Moves(sqlite, postgres, u, v, c, {r.at.expired})
    BY <1>1, <1>5, <2>3, <2>4, <2>6, OfferedCredCommit
  <2> QED
    BY <1>7, <2>1, <2>2, <2>5, WrittenKeeps
<1>8. ASSUME D!Written(c, {}, D!Sq!UpdateGeminiPlanType(sqlite, c, "paid", time),
                        D!Pg!UpdateGeminiPlanType(postgres, c, "paid", time))
      PROVE  AfterWrite
  <2>1. PICK u : u = D!Sq!UpdateGeminiPlanType(sqlite, c, "paid", time)
    OBVIOUS
  <2>2. PICK v : v = D!Pg!UpdateGeminiPlanType(postgres, c, "paid", time)
    OBVIOUS
  <2>3. u = D!SetCred(sqlite, c, SyncedRow(WithPlan(sqlite.cred[c]), m))
    BY <1>2, <1>4, <2>1, GeminiSqlite
  <2>4. v = D!SetCred(postgres, c, SyncedRow(WithPlan(postgres.cred[c]), n))
    BY <1>3, <1>4, <2>2, GeminiPostgres
  <2>5. Moves(sqlite, postgres, u, v, c, {})
    BY <1>1, <1>5, <2>3, <2>4, SyncedPlanPair, PairedMoves
  <2> QED
    BY <1>8, <2>1, <2>2, <2>5, WrittenKeeps
<1>9. ASSUME NEW x \in D!Statuses, 
              D!Written(c, {}, D!Sq!UpdateGeminiCLIStatus(sqlite, c, x, time),
                        D!Pg!UpdateGeminiCLIStatus(postgres, c, x, time))
      PROVE  AfterWrite
  <2>1. PICK u : u = D!Sq!UpdateGeminiCLIStatus(sqlite, c, x, time)
    OBVIOUS
  <2>2. PICK v : v = D!Pg!UpdateGeminiCLIStatus(postgres, c, x, time)
    OBVIOUS
  <2>3. u = LET e == D!SetCred(sqlite, c, WithStatus(sqlite.cred[c], x))
            IN D!Commit(sqlite, e, x, UntilOf(e, c, a, D!Every(D!Tiers, m), m))
    BY <1>2, <1>4, <2>1, GeminiSqlite
  <2>4. v = LET e == D!SetCred(postgres, c, WithStatus(postgres.cred[c], x))
            IN D!Commit(postgres, e, x, UntilOf(e, c, b, D!Every(D!Tiers, n), n))
    BY <1>3, <1>4, <2>2, GeminiPostgres
  <2>5. Moves(sqlite, postgres, u, v, c, {})
    BY <1>1, <1>5, <2>3, <2>4, StatusCommit
  <2> QED
    BY <1>9, <2>1, <2>2, <2>5, WrittenKeeps
<1>10. ASSUME NEW r \in D!Resets(D!GeminiTiers), 
              D!Written(c, D!Range(r), D!Sq!UpsertGeminiQuota(sqlite, c, r, time),
                        D!Pg!UpsertGeminiQuota(postgres, c, r, time))
      PROVE  AfterWrite
  <2>1. PICK u : u = D!Sq!UpsertGeminiQuota(sqlite, c, r, time)
    OBVIOUS
  <2>2. PICK v : v = D!Pg!UpsertGeminiQuota(postgres, c, r, time)
    OBVIOUS
  <2>3. u = ResetOf(sqlite, c, a, D!Sq!FmtTimes(r), m)
    BY <1>2, <1>4, <2>1, GeminiSqlite
  <2>4. v = D!Pg!Q!NotNull(postgres, D!Pg!Q!Range(D!Pg!FromTimes(r)),
                            ResetOf(postgres, c, b, D!Pg!FromTimes(r), n))
    BY <1>3, <1>4, <2>2, GeminiPostgres
  <2>6. r \in D!Resets(Windows)
    BY ShapesAre
  <2>5. Moves(sqlite, postgres, u, v, c, D!Range(r))
    BY <1>1, <1>5, <2>3, <2>4, <2>6, ResetMoves
  <2> QED
    BY <1>10, <2>1, <2>2, <2>5, WrittenKeeps
<1>11. ASSUME NEW t \in D!GeminiTiers \cup {""}, NEW until \in D!Times, 
              D!Written(c, {until}, D!Sq!SetGeminiQuotaThrottled(sqlite, c, t, until, time),
                        D!Pg!SetGeminiQuotaThrottled(postgres, c, t, until, time))
      PROVE  AfterWrite
  <2>1. PICK u : u = D!Sq!SetGeminiQuotaThrottled(sqlite, c, t, until, time)
    OBVIOUS
  <2>2. PICK v : v = D!Pg!SetGeminiQuotaThrottled(postgres, c, t, until, time)
    OBVIOUS
  <2>3. /\ t \in D!Tiers => u = TierOf(sqlite, c, a, t, D!Sq!fmtTime(until), m)
        /\ t \notin D!Tiers => u = UntilOf(sqlite, c, a, D!Every(D!Tiers, D!Sq!fmtTime(until)), m)
    BY <1>2, <1>4, <2>1, GeminiSqlite
  <2>4. /\ t \in D!Tiers => v = D!Pg!Q!NotNull(postgres, {D!Pg!tsFrom(until)},
                                TierOf(postgres, c, b, t, D!Pg!tsFrom(until), n))
        /\ t \notin D!Tiers => v = D!Pg!Q!NotNull(postgres, {D!Pg!tsFrom(until)},
                                   UntilOf(postgres, c, b, D!Every(D!Tiers, D!Pg!tsFrom(until)), n))
    BY <1>3, <1>4, <2>2, GeminiPostgres
  <2>6. t \in D!Tiers => Moves(sqlite, postgres, u, v, c, {until})
    BY <1>1, <1>5, <2>3, <2>4, ThrottleMoves
  <2>7. t \notin D!Tiers => Moves(sqlite, postgres, u, v, c, {until})
    BY <1>1, <1>5, <2>3, <2>4, ThrottleMoves
  <2>5. Moves(sqlite, postgres, u, v, c, {until})
    BY <1>1, <1>5, <2>3, <2>4, <2>6, <2>7
  <2> QED
    BY <1>11, <2>1, <2>2, <2>5, WrittenKeeps
<1>12. ASSUME D!Written(c, {}, D!Sq!RestoreExpiredThrottledGeminiCLI(sqlite),
                        D!Pg!RestoreExpiredThrottledGeminiCLI(postgres))
      PROVE  AfterWrite
  <2>1. PICK u : u = D!Sq!RestoreExpiredThrottledGeminiCLI(sqlite)
    OBVIOUS
  <2>2. PICK v : v = D!Pg!RestoreExpiredThrottledGeminiCLI(postgres)
    OBVIOUS
  <2>3. u = D!RestoreThrottled(sqlite)
    BY <1>2, <1>4, <2>1, GeminiSqlite
  <2>4. v = D!RestoreThrottled(postgres)
    BY <1>3, <1>4, <2>2, GeminiPostgres
  <2>5. Moves(sqlite, postgres, u, v, c, {})
    BY <1>1, <1>5, <2>3, <2>4, RestoreMoves
  <2> QED
    BY <1>12, <2>1, <2>2, <2>5, WrittenKeeps
<1>13. ASSUME D!Written(c, {}, D!Sq!DeleteGeminiQuota(sqlite, c),
                        D!Pg!DeleteGeminiQuota(postgres, c))
      PROVE  AfterWrite
  <2>1. PICK u : u = D!Sq!DeleteGeminiQuota(sqlite, c)
    OBVIOUS
  <2>2. PICK v : v = D!Pg!DeleteGeminiQuota(postgres, c)
    OBVIOUS
  <2>3. u = D!Affecting(sqlite, sqlite.quota, c, D!EraseQuota(sqlite, c))
    BY <1>2, <1>4, <2>1, GeminiSqlite
  <2>4. v = D!Affecting(postgres, postgres.quota, c, D!EraseQuota(postgres, c))
    BY <1>3, <1>4, <2>2, GeminiPostgres
  <2>5. Moves(sqlite, postgres, u, v, c, {})
    BY <1>1, <1>5, <2>3, <2>4, DeleteMoves
  <2> QED
    BY <1>13, <2>1, <2>2, <2>5, WrittenKeeps
<1>14. ASSUME D!Written(c, {}, D!Sq!DeleteGeminiCLI(sqlite, c),
                        D!Pg!DeleteGeminiCLI(postgres, c))
      PROVE  AfterWrite
  <2>1. PICK u : u = D!Sq!DeleteGeminiCLI(sqlite, c)
    OBVIOUS
  <2>2. PICK v : v = D!Pg!DeleteGeminiCLI(postgres, c)
    OBVIOUS
  <2>3. u = D!Affecting(sqlite, sqlite.cred, c, D!EraseCred(sqlite, c))
    BY <1>2, <1>4, <2>1, GeminiSqlite
  <2>4. v = D!Affecting(postgres, postgres.cred, c, D!EraseCred(postgres, c))
    BY <1>3, <1>4, <2>2, GeminiPostgres
  <2>5. Moves(sqlite, postgres, u, v, c, {})
    BY <1>1, <1>5, <2>3, <2>4, DeleteMoves
  <2> QED
    BY <1>14, <2>1, <2>2, <2>5, WrittenKeeps
<1> QED
  BY <1>6, <1>7, <1>8, <1>9, <1>10, <1>11, <1>12, <1>13, <1>14 DEF D!Gemini

-----------------------------------------------------------------------------
(* Antigravity: the credits after the quota *)

CreditsOf(d, c, on) ==
  IF d.err \/ ~on THEN d
  ELSE IF c \in DOMAIN d.cred THEN [d EXCEPT !.credits = @ \cup {c}] ELSE D!Failed(d)

LEMMA ResetThere ==
  ASSUME NEW d, NEW c \in Ids, Ready(d), NEW new \in QuotaRow, NEW n \in Int,
       NEW u \in [Windows -> Int]
  PROVE  ~ResetOf(d, c, new, u, n).err => c \in DOMAIN ResetOf(d, c, new, u, n).cred
<1>1. PICK k : k = D!QuotaOr(d, c, new)
  OBVIOUS
<1>2. k \in QuotaRow
  BY <1>1, QuotaOrIs DEF Ready
<1>3. PICK f : f = [k EXCEPT !.reset = u, !.synced = n]
  OBVIOUS
<1>4. f \in QuotaRow
  BY <1>2, <1>3, QuotaRowSet
<1>5. PICK e : e = D!PutQuota(d, c, f)
  OBVIOUS
<1>6. (e.err <=> c \notin DOMAIN d.cred) /\ (c \in DOMAIN d.cred => QuotaNow(d, e, c, f))
  BY <1>4, <1>5, PutQuotaStep DEF Ready
<1>7. ~e.err => c \in DOMAIN e.cred
  BY <1>6 DEF QuotaNow
<1> QED
  BY <1>1, <1>3, <1>5, <1>7 DEF ResetOf

LEMMA CreditsTouch ==
  ASSUME NEW d, NEW u, NEW c \in Ids, NEW on \in BOOLEAN, Touches(d, u, c), ~u.err =>
       c \in DOMAIN u.cred,
         NEW e, e = CreditsOf(u, c, on)
  PROVE  /\ Touches(d, e, c) /\ e.err = u.err /\ e.cred = u.cred /\ e.quota = u.quota
         /\ c \in e.credits <=> c \in u.credits \/ (~u.err /\ on)
<1>1. CASE u.err \/ ~on
  BY <1>1 DEF CreditsOf
<1>2. CASE ~u.err /\ on
  <2>1. e = [u EXCEPT !.credits = @ \cup {c}] /\ Good(u) /\ c \in DOMAIN u.cred
    BY <1>2 DEF CreditsOf, Touches
  <2>2. /\ Good(e) /\ e.cred = u.cred /\ e.quota = u.quota /\ ~e.err
        /\ c \in e.credits /\ \A x : x # c => (x \in e.credits <=> x \in u.credits)
    BY <1>2, <2>1, CreditsStep
  <2>3. \A x \in Ids : x # c => SameAt(d, e, x)
    BY <2>2 DEF Touches, SameAt
  <2>4. e.err \in BOOLEAN /\ u.err \in BOOLEAN
    BY <2>1, <2>2 DEF Good
  <2> QED
    BY <1>2, <2>2, <2>3, <2>4 DEF Touches
<1> QED
  BY <1>1, <1>2

LEMMA CreditsPair ==
  ASSUME NEW s, NEW p, NEW u, NEW v, NEW c \in Ids, NEW on \in BOOLEAN, Paired(s, p, u, v, c),
         ~u.err => c \in DOMAIN u.cred, ~v.err => c \in DOMAIN v.cred
  PROVE  Paired(s, p, CreditsOf(u, c, on), CreditsOf(v, c, on), c)
<1>1. PICK x : x = CreditsOf(u, c, on)
  OBVIOUS
<1>2. PICK y : y = CreditsOf(v, c, on)
  OBVIOUS
<1>3. /\ Touches(s, x, c) /\ x.err = u.err /\ x.cred = u.cred /\ x.quota = u.quota
      /\ c \in x.credits <=> c \in u.credits \/ (~u.err /\ on)
  BY <1>1, CreditsTouch DEF Paired
<1>4. /\ Touches(p, y, c) /\ y.err = v.err /\ y.cred = v.cred /\ y.quota = v.quota
      /\ c \in y.credits <=> c \in v.credits \/ (~v.err /\ on)
  BY <1>2, CreditsTouch DEF Paired
<1>5. ASSUME RelAt(s, p, c) PROVE RelAt(x, y, c) /\ (x.err <=> y.err)
  <2>1. RelAt(u, v, c) /\ (u.err <=> v.err)
    BY <1>5 DEF Paired
  <2> QED
    BY <1>3, <1>4, <2>1 DEF RelAt
<1> QED
  BY <1>1, <1>2, <1>3, <1>4, <1>5 DEF Paired

LEMMA CreditsMoves ==
  ASSUME Known, handler = "antigravity", NEW s, NEW p, NEW c \in Ids, Ready(s), Ready(p),
         NEW a, NEW b, QuotaAgree(a, b), NEW m \in Int, NEW n, Hard(m, n),
         NEW r \in D!Resets(Windows), NEW on \in BOOLEAN
  PROVE  Moves(s, p, CreditsOf(ResetOf(s, c, a, D!Sq!FmtTimes(r), m), c, on),
                     CreditsOf(D!Pg!Q!NotNull(p, D!Pg!Q!Range(D!Pg!FromTimes(r)),
                                 ResetOf(p, c, b, D!Pg!FromTimes(r), n)), c, on), c, D!Range(r))
<1>1. PICK f : f = D!Sq!FmtTimes(r)
  OBVIOUS
<1>2. PICK g : g = D!Pg!FromTimes(r)
  OBVIOUS
<1>3. PICK u : u = ResetOf(s, c, a, f, m)
  OBVIOUS
<1>4. PICK v : v = ResetOf(p, c, b, g, n)
  OBVIOUS
<1>5. PICK e : e = D!Pg!Q!NotNull(p, D!Pg!Q!Range(g), v)
  OBVIOUS
<1>6. /\ Touches(s, u, c)
      /\ D!ZeroTime \notin D!Range(r) => Paired(s, p, u, v, c) /\ D!Null \notin D!Pg!Q!Range(g)
  BY <1>1, <1>2, <1>3, <1>4, ResetMoves
<1>7. /\ f \in [Windows -> Int] /\ g \in [Windows -> Int]
      /\ D!ZeroTime \in D!Range(r) <=> D!Null \in D!Pg!Q!Range(g)
  BY <1>1, <1>2, ResetsAre
<1>8. a \in QuotaRow /\ b \in QuotaRow /\ n \in Int
  BY DEF QuotaAgree, Hard
<1>9. (~u.err => c \in DOMAIN u.cred) /\ (~v.err => c \in DOMAIN v.cred)
  BY <1>3, <1>4, <1>7, <1>8, ResetThere
<1>10. e = IF D!Null \in D!Pg!Q!Range(g) THEN D!Failed(p) ELSE v
  BY <1>5, NotNullIs
<1>11. PICK x : x = CreditsOf(u, c, on)
  OBVIOUS
<1>12. PICK y : y = CreditsOf(e, c, on)
  OBVIOUS
<1>13. Touches(s, x, c)
  BY <1>6, <1>9, <1>11, CreditsTouch
<1>14. CASE D!ZeroTime \in D!Range(r)
  <2>1. e = D!Failed(p) /\ e.err = TRUE
    BY <1>7, <1>10, <1>14, FailedStep DEF Ready
  <2>2. y = D!Failed(p)
    BY <1>12, <2>1 DEF CreditsOf
  <2>3. Moves(s, p, x, y, c, D!Range(r))
    BY <1>13, <1>14, <2>2, RefusedMoves DEF Ready
  <2> QED
    BY <1>1, <1>2, <1>3, <1>4, <1>5, <1>11, <1>12, <2>3
<1>15. CASE D!ZeroTime \notin D!Range(r)
  <2>1. e = v /\ Paired(s, p, u, v, c)
    BY <1>6, <1>10, <1>15
  <2>2. Paired(s, p, x, y, c)
    BY <1>9, <1>11, <1>12, <2>1, CreditsPair
  <2>3. Moves(s, p, x, y, c, D!Range(r))
    BY <2>2, PairedMoves
  <2> QED
    BY <1>1, <1>2, <1>3, <1>4, <1>5, <1>11, <1>12, <2>3
<1> QED
  BY <1>14, <1>15

LEMMA NewAntigravityAgree ==
  ASSUME Known, handler = "antigravity"
  PROVE  QuotaAgree(D!Sq!Q!NewAntigravityQuota(time), D!Pg!Q!NewAntigravityQuota(time))
<1>1. PICK m, n : m = D!Sq!Q!Now(time) /\ n = D!Pg!Q!Now(time)
  OBVIOUS
<1>2. m \in Int /\ n \in Int /\ Hard(m, n)
  BY <1>1, NowIs
<1>3. Windows = D!AntigravityTiers /\ D!Tiers = D!AntigravityTiers
  BY ShapesAre
<1>4. PICK a : a = D!Sq!Q!NewAntigravityQuota(time)
  OBVIOUS
<1>5. PICK b : b = D!Pg!Q!NewAntigravityQuota(time)
  OBVIOUS
<1>6. a = [reset |-> [w \in Windows |-> m + (IF w = "tab" THEN D!Century ELSE 0)],
      until |-> [t \in D!Tiers |-> m], synced |-> m]
  BY <1>1, <1>3, <1>4 DEF D!Sq!Q!NewAntigravityQuota, D!Sq!Q!Every, D!Sq!Q!AntigravityTiers,
     D!AntigravityTiers,
       D!Sq!Q!Resets, D!Sq!Q!Coalesce, D!Sq!Q!NoQuota, D!Sq!Q!Null, D!Sq!Q!Century, D!Century,
       D!Sq!Q!CodexWindows, D!Sq!Q!CodexTiers
<1>7. b = [reset |-> [w \in Windows |-> n + (IF w = "tab" THEN D!Century ELSE 0)],
      until |-> [t \in D!Tiers |-> n], synced |-> n]
  BY <1>1, <1>3, <1>5 DEF D!Pg!Q!NewAntigravityQuota, D!Pg!Q!Every, D!Pg!Q!AntigravityTiers,
     D!AntigravityTiers,
       D!Pg!Q!Resets, D!Pg!Q!Coalesce, D!Pg!Q!NoQuota, D!Pg!Q!Null, D!Pg!Q!Century, D!Century,
       D!Pg!Q!CodexWindows, D!Pg!Q!CodexTiers
<1>8. \A w \in Windows :
        /\ m + (IF w = "tab" THEN D!Century ELSE 0) \in Int
        /\ n + (IF w = "tab" THEN D!Century ELSE 0) \in Int
        /\ ResetCell(m + (IF w = "tab" THEN D!Century ELSE 0), n +
             (IF w = "tab" THEN D!Century ELSE 0))
  BY <1>2 DEF ResetCell, Hard, D!Whole, D!PerSecond, D!Century
<1>9. a \in QuotaRow /\ b \in QuotaRow
  BY <1>2, <1>6, <1>7, <1>8 DEF QuotaRow
<1>10. \A w \in Windows : ResetCell(a.reset[w], b.reset[w])
  BY <1>2, <1>6, <1>7, <1>8
<1>11. \A t \in D!Tiers : a.until[t] = m /\ b.until[t] = n
  BY <1>6, <1>7
<1>12. a.synced = m /\ b.synced = n
  BY <1>6, <1>7
<1>13. QuotaAgree(a, b)
  BY <1>2, <1>9, <1>10, <1>11, <1>12 DEF QuotaAgree
<1> QED
  BY <1>4, <1>5, <1>13

LEMMA AntigravitySqlite ==
  ASSUME handler = "antigravity", NEW d, NEW c
  PROVE  LET new == D!Sq!Q!NewAntigravityQuota(time)
             now == D!Sq!Q!Now(time)
         IN /\ \A r : D!Sq!UpsertAntigravity(d, c, r, time)
                 = D!PutCred(d, c, SyncedRow(D!Sq!Formatted(r), now))
            /\ \A r : D!Sq!UpdateAntigravityTokens(d, c, r, time)
                 = D!SetCred(d, c, SyncedRow(D!Sq!Formatted(r), now))
            /\ \A s : D!Sq!UpdateAntigravityStatus(d, c, s, time)
                 = LET u == D!SetCred(d, c, WithStatus(d.cred[c], s))
                   IN D!Commit(d, u, s, UntilOf(u, c, new, D!Every(D!Tiers, now), now))
            /\ \A r, on : D!Sq!UpsertAntigravityQuota(d, c, r, on, time)
                 = CreditsOf(ResetOf(d, c, new, D!Sq!FmtTimes(r), now), c, on)
            /\ \A t \in D!Tiers : \A u :
                 D!Sq!SetAntigravityQuotaThrottled(d, c, t, u, time) =
                      TierOf(d, c, new, t, D!Sq!fmtTime(u), now)
            /\ \A t, u : t \notin D!Tiers =>
                 D!Sq!SetAntigravityQuotaThrottled(d, c, t, u, time)
                   = UntilOf(d, c, new, D!Every(D!Tiers, D!Sq!fmtTime(u)), now)
            /\ D!Sq!RestoreExpiredThrottledAntigravity(d) = D!RestoreThrottled(d)
            /\ D!Sq!DeleteAntigravityQuota(d, c) = D!Affecting(d, d.quota, c, D!EraseQuota(d, c))
            /\ D!Sq!DeleteAntigravity(d, c) = D!Affecting(d, d.cred, c, D!EraseCred(d, c))
<1>1. D!Tiers = D!AntigravityTiers
  BY ShapesAre
<1> QED
  BY <1>1
  DEF D!Sq!UpsertAntigravity, D!Sq!UpdateAntigravityTokens, D!Sq!UpdateAntigravityStatus,
      D!Sq!UpsertAntigravityQuota, D!Sq!SetAntigravityQuotaThrottled,
      D!Sq!RestoreExpiredThrottledAntigravity, D!Sq!DeleteAntigravityQuota,
      D!Sq!DeleteAntigravity, D!Sq!Q!UpsertAntigravity, D!Sq!Q!UpdateAntigravityTokens,
      D!Sq!Q!UpdateAntigravityStatus, D!Sq!Q!UpsertAntigravityQuota,
      D!Sq!Q!UpsertAntigravityCredits, D!Sq!Q!SetAntigravityQuotaThrottledAll,
      D!Sq!Q!SetAntigravityQuotaThrottledTier, D!Sq!Q!RestoreExpiredThrottledAntigravity,
      D!Sq!Q!DeleteAntigravityQuota, D!Sq!Q!DeleteAntigravity,
      D!Sq!Q!ClearAntigravityQuotaThrottle, D!Sq!Q!Synced, D!Sq!AntigravityTiers,
      D!Sq!Q!AntigravityTiers, D!AntigravityTiers, D!Sq!Q!Failed, D!Failed, D!Sq!Q!PutCred,
      D!PutCred, D!Sq!Q!SetCred, D!SetCred, D!Sq!Q!PutQuota, D!PutQuota, D!Sq!Q!QuotaOr,
      D!QuotaOr, D!Sq!Q!PutRow, D!PutRow, D!Sq!Q!RestoreThrottled, D!RestoreThrottled,
      D!Sq!Q!EraseQuota, D!EraseQuota, D!Sq!Q!EraseCred, D!EraseCred, D!Sq!Q!Restrict,
      D!Restrict, D!Sq!Q!Every, D!Every, D!Sq!Failed, D!Sq!Affecting, D!Affecting, D!Sq!Commit,
      D!Commit, D!Sq!ShouldClear, D!ShouldClear, ResetOf, UntilOf, OnlyUntilOf, TierOf,
      WithStatus, WithPlan, SyncedRow, UpdatedRow, CreditsOf

LEMMA AntigravityPostgres ==
  ASSUME handler = "antigravity", NEW d, NEW c
  PROVE  LET new == D!Pg!Q!NewAntigravityQuota(time)
             now == D!Pg!Q!Now(time)
         IN /\ \A r : D!Pg!UpsertAntigravity(d, c, r, time)
                 = D!Pg!Q!NotNull(d, {D!Pg!Stamped(r).at.expired},
                     D!PutCred(d, c, SyncedRow(D!Pg!Stamped(r), now)))
            /\ \A r : D!Pg!UpdateAntigravityTokens(d, c, r, time)
                 = D!Pg!Q!NotNull(d, {D!Pg!Stamped(r).at.expired},
                     D!SetCred(d, c, SyncedRow(D!Pg!Stamped(r), now)))
            /\ \A s : D!Pg!UpdateAntigravityStatus(d, c, s, time)
                 = LET u == D!SetCred(d, c, WithStatus(d.cred[c], s))
                   IN D!Commit(d, u, s, UntilOf(u, c, new, D!Every(D!Tiers, now), now))
            /\ \A r, on : D!Pg!UpsertAntigravityQuota(d, c, r, on, time)
                 = CreditsOf(D!Pg!Q!NotNull(d, D!Pg!Q!Range(D!Pg!FromTimes(r)),
                               ResetOf(d, c, new, D!Pg!FromTimes(r), now)), c, on)
            /\ \A t \in D!Tiers : \A u :
                 D!Pg!SetAntigravityQuotaThrottled(d, c, t, u, time)
                   = D!Pg!Q!NotNull(d, {D!Pg!tsFrom(u)}, TierOf(d, c, new, t, D!Pg!tsFrom(u), now))
            /\ \A t, u : t \notin D!Tiers =>
                 D!Pg!SetAntigravityQuotaThrottled(d, c, t, u, time)
                   = D!Pg!Q!NotNull(d, {D!Pg!tsFrom(u)},
                       UntilOf(d, c, new, D!Every(D!Tiers, D!Pg!tsFrom(u)), now))
            /\ D!Pg!RestoreExpiredThrottledAntigravity(d) = D!RestoreThrottled(d)
            /\ D!Pg!DeleteAntigravityQuota(d, c) = D!Affecting(d, d.quota, c, D!EraseQuota(d, c))
            /\ D!Pg!DeleteAntigravity(d, c) = D!Affecting(d, d.cred, c, D!EraseCred(d, c))
<1>1. D!Tiers = D!AntigravityTiers
  BY ShapesAre
<1> QED
  BY <1>1
  DEF D!Pg!UpsertAntigravity, D!Pg!UpdateAntigravityTokens, D!Pg!UpdateAntigravityStatus,
      D!Pg!UpsertAntigravityQuota, D!Pg!SetAntigravityQuotaThrottled,
      D!Pg!RestoreExpiredThrottledAntigravity, D!Pg!DeleteAntigravityQuota,
      D!Pg!DeleteAntigravity, D!Pg!Q!UpsertAntigravity, D!Pg!Q!UpdateAntigravityTokens,
      D!Pg!Q!UpdateAntigravityStatus, D!Pg!Q!UpsertAntigravityQuota,
      D!Pg!Q!UpsertAntigravityCredits, D!Pg!Q!SetAntigravityQuotaThrottledAll,
      D!Pg!Q!SetAntigravityQuotaThrottledTier, D!Pg!Q!RestoreExpiredThrottledAntigravity,
      D!Pg!Q!DeleteAntigravityQuota, D!Pg!Q!DeleteAntigravity,
      D!Pg!Q!ClearAntigravityQuotaThrottle, D!Pg!Q!Synced, D!Pg!AntigravityTiers,
      D!Pg!Q!AntigravityTiers, D!AntigravityTiers, D!Pg!Q!Failed, D!Failed, D!Pg!Q!PutCred,
      D!PutCred, D!Pg!Q!SetCred, D!SetCred, D!Pg!Q!PutQuota, D!PutQuota, D!Pg!Q!QuotaOr,
      D!QuotaOr, D!Pg!Q!PutRow, D!PutRow, D!Pg!Q!RestoreThrottled, D!RestoreThrottled,
      D!Pg!Q!EraseQuota, D!EraseQuota, D!Pg!Q!EraseCred, D!EraseCred, D!Pg!Q!Restrict,
      D!Restrict, D!Pg!Q!Every, D!Every, D!Pg!Failed, D!Pg!Affecting, D!Affecting, D!Pg!Commit,
      D!Commit, D!Pg!ShouldClear, D!ShouldClear, ResetOf, UntilOf, OnlyUntilOf, TierOf,
      WithStatus, WithPlan, SyncedRow, UpdatedRow, CreditsOf

LEMMA AntigravityKeeps ==
  ASSUME Known, StoresInv, handler = "antigravity", NEW c \in Ids, D!Antigravity(c)
  PROVE  AfterWrite
<1>1. Ready(sqlite) /\ Ready(postgres)
  BY DEF StoresInv, Ready, D!TypeOK
<1>2. PICK a : a = D!Sq!Q!NewAntigravityQuota(time)
  OBVIOUS
<1>3. PICK b : b = D!Pg!Q!NewAntigravityQuota(time)
  OBVIOUS
<1>4. PICK m, n : m = D!Sq!Q!Now(time) /\ n = D!Pg!Q!Now(time)
  OBVIOUS
<1>5. QuotaAgree(a, b) /\ m \in Int /\ Hard(m, n)
  BY <1>2, <1>3, <1>4, NewAntigravityAgree, NowIs
<1>6. ASSUME NEW r \in D!CredentialRows, 
              D!Written(c, {r.at.expired}, D!Sq!UpsertAntigravity(sqlite, c, r, time),
                        D!Pg!UpsertAntigravity(postgres, c, r, time))
      PROVE  AfterWrite
  <2>1. PICK u : u = D!Sq!UpsertAntigravity(sqlite, c, r, time)
    OBVIOUS
  <2>2. PICK v : v = D!Pg!UpsertAntigravity(postgres, c, r, time)
    OBVIOUS
  <2>3. u = D!PutCred(sqlite, c, SyncedRow(D!Sq!Formatted(r), m))
    BY <1>2, <1>4, <2>1, AntigravitySqlite
  <2>4. v = D!Pg!Q!NotNull(postgres, {D!Pg!Stamped(r).at.expired},
                            D!PutCred(postgres, c, SyncedRow(D!Pg!Stamped(r), n)))
    BY <1>3, <1>4, <2>2, AntigravityPostgres
  <2>6. r.status \in D!Statuses
        /\ Offered(r.at.expired, D!Pg!Stamped(r).at.expired,
                   SyncedRow(D!Sq!Formatted(r), m), SyncedRow(D!Pg!Stamped(r), n))
    BY <1>5, SyncedOffered
  <2>5. Moves(sqlite, postgres, u, v, c, {r.at.expired})
    BY <1>1, <1>5, <2>3, <2>4, <2>6, OfferedPut
  <2> QED
    BY <1>6, <2>1, <2>2, <2>5, WrittenKeeps
<1>7. ASSUME NEW r \in D!CredentialRows, 
              D!Written(c, {r.at.expired}, D!Sq!UpdateAntigravityTokens(sqlite, c, r, time),
                        D!Pg!UpdateAntigravityTokens(postgres, c, r, time))
      PROVE  AfterWrite
  <2>1. PICK u : u = D!Sq!UpdateAntigravityTokens(sqlite, c, r, time)
    OBVIOUS
  <2>2. PICK v : v = D!Pg!UpdateAntigravityTokens(postgres, c, r, time)
    OBVIOUS
  <2>3. u = D!SetCred(sqlite, c, SyncedRow(D!Sq!Formatted(r), m))
    BY <1>2, <1>4, <2>1, AntigravitySqlite
  <2>4. v = D!Pg!Q!NotNull(postgres, {D!Pg!Stamped(r).at.expired},
                            D!SetCred(postgres, c, SyncedRow(D!Pg!Stamped(r), n)))
    BY <1>3, <1>4, <2>2, AntigravityPostgres
  <2>6. r.status \in D!Statuses
        /\ Offered(r.at.expired, D!Pg!Stamped(r).at.expired,
                   SyncedRow(D!Sq!Formatted(r), m), SyncedRow(D!Pg!Stamped(r), n))
    BY <1>5, SyncedOffered
  <2>5. Moves(sqlite, postgres, u, v, c, {r.at.expired})
    BY <1>1, <1>5, <2>3, <2>4, <2>6, OfferedPut
  <2> QED
    BY <1>7, <2>1, <2>2, <2>5, WrittenKeeps
<1>8. ASSUME NEW x \in D!Statuses, 
              D!Written(c, {}, D!Sq!UpdateAntigravityStatus(sqlite, c, x, time),
                        D!Pg!UpdateAntigravityStatus(postgres, c, x, time))
      PROVE  AfterWrite
  <2>1. PICK u : u = D!Sq!UpdateAntigravityStatus(sqlite, c, x, time)
    OBVIOUS
  <2>2. PICK v : v = D!Pg!UpdateAntigravityStatus(postgres, c, x, time)
    OBVIOUS
  <2>3. u = LET e == D!SetCred(sqlite, c, WithStatus(sqlite.cred[c], x))
            IN D!Commit(sqlite, e, x, UntilOf(e, c, a, D!Every(D!Tiers, m), m))
    BY <1>2, <1>4, <2>1, AntigravitySqlite
  <2>4. v = LET e == D!SetCred(postgres, c, WithStatus(postgres.cred[c], x))
            IN D!Commit(postgres, e, x, UntilOf(e, c, b, D!Every(D!Tiers, n), n))
    BY <1>3, <1>4, <2>2, AntigravityPostgres
  <2>5. Moves(sqlite, postgres, u, v, c, {})
    BY <1>1, <1>5, <2>3, <2>4, StatusCommit
  <2> QED
    BY <1>8, <2>1, <2>2, <2>5, WrittenKeeps
<1>9. ASSUME NEW r \in D!Resets(D!AntigravityTiers), NEW on \in BOOLEAN, 
              D!Written(c, D!Range(r), D!Sq!UpsertAntigravityQuota(sqlite, c, r, on, time),
                        D!Pg!UpsertAntigravityQuota(postgres, c, r, on, time))
      PROVE  AfterWrite
  <2>1. PICK u : u = D!Sq!UpsertAntigravityQuota(sqlite, c, r, on, time)
    OBVIOUS
  <2>2. PICK v : v = D!Pg!UpsertAntigravityQuota(postgres, c, r, on, time)
    OBVIOUS
  <2>3. u = CreditsOf(ResetOf(sqlite, c, a, D!Sq!FmtTimes(r), m), c, on)
    BY <1>2, <1>4, <2>1, AntigravitySqlite
  <2>4. v = CreditsOf(D!Pg!Q!NotNull(postgres, D!Pg!Q!Range(D!Pg!FromTimes(r)),
                            ResetOf(postgres, c, b, D!Pg!FromTimes(r), n)), c, on)
    BY <1>3, <1>4, <2>2, AntigravityPostgres
  <2>6. r \in D!Resets(Windows)
    BY ShapesAre
  <2>5. Moves(sqlite, postgres, u, v, c, D!Range(r))
    BY <1>1, <1>5, <2>3, <2>4, <2>6, CreditsMoves
  <2> QED
    BY <1>9, <2>1, <2>2, <2>5, WrittenKeeps
<1>10. ASSUME NEW t \in D!AntigravityTiers \cup {""}, NEW until \in D!Times, 
              D!Written(c, {until}, D!Sq!SetAntigravityQuotaThrottled(sqlite, c, t, until, time),
                        D!Pg!SetAntigravityQuotaThrottled(postgres, c, t, until, time))
      PROVE  AfterWrite
  <2>1. PICK u : u = D!Sq!SetAntigravityQuotaThrottled(sqlite, c, t, until, time)
    OBVIOUS
  <2>2. PICK v : v = D!Pg!SetAntigravityQuotaThrottled(postgres, c, t, until, time)
    OBVIOUS
  <2>3. /\ t \in D!Tiers => u = TierOf(sqlite, c, a, t, D!Sq!fmtTime(until), m)
        /\ t \notin D!Tiers => u = UntilOf(sqlite, c, a, D!Every(D!Tiers, D!Sq!fmtTime(until)), m)
    BY <1>2, <1>4, <2>1, AntigravitySqlite
  <2>4. /\ t \in D!Tiers => v = D!Pg!Q!NotNull(postgres, {D!Pg!tsFrom(until)},
                                TierOf(postgres, c, b, t, D!Pg!tsFrom(until), n))
        /\ t \notin D!Tiers => v = D!Pg!Q!NotNull(postgres, {D!Pg!tsFrom(until)},
                                   UntilOf(postgres, c, b, D!Every(D!Tiers, D!Pg!tsFrom(until)), n))
    BY <1>3, <1>4, <2>2, AntigravityPostgres
  <2>6. t \in D!Tiers => Moves(sqlite, postgres, u, v, c, {until})
    BY <1>1, <1>5, <2>3, <2>4, ThrottleMoves
  <2>7. t \notin D!Tiers => Moves(sqlite, postgres, u, v, c, {until})
    BY <1>1, <1>5, <2>3, <2>4, ThrottleMoves
  <2>5. Moves(sqlite, postgres, u, v, c, {until})
    BY <1>1, <1>5, <2>3, <2>4, <2>6, <2>7
  <2> QED
    BY <1>10, <2>1, <2>2, <2>5, WrittenKeeps
<1>11. ASSUME D!Written(c, {}, D!Sq!RestoreExpiredThrottledAntigravity(sqlite),
                        D!Pg!RestoreExpiredThrottledAntigravity(postgres))
      PROVE  AfterWrite
  <2>1. PICK u : u = D!Sq!RestoreExpiredThrottledAntigravity(sqlite)
    OBVIOUS
  <2>2. PICK v : v = D!Pg!RestoreExpiredThrottledAntigravity(postgres)
    OBVIOUS
  <2>3. u = D!RestoreThrottled(sqlite)
    BY <1>2, <1>4, <2>1, AntigravitySqlite
  <2>4. v = D!RestoreThrottled(postgres)
    BY <1>3, <1>4, <2>2, AntigravityPostgres
  <2>5. Moves(sqlite, postgres, u, v, c, {})
    BY <1>1, <1>5, <2>3, <2>4, RestoreMoves
  <2> QED
    BY <1>11, <2>1, <2>2, <2>5, WrittenKeeps
<1>12. ASSUME D!Written(c, {}, D!Sq!DeleteAntigravityQuota(sqlite, c),
                        D!Pg!DeleteAntigravityQuota(postgres, c))
      PROVE  AfterWrite
  <2>1. PICK u : u = D!Sq!DeleteAntigravityQuota(sqlite, c)
    OBVIOUS
  <2>2. PICK v : v = D!Pg!DeleteAntigravityQuota(postgres, c)
    OBVIOUS
  <2>3. u = D!Affecting(sqlite, sqlite.quota, c, D!EraseQuota(sqlite, c))
    BY <1>2, <1>4, <2>1, AntigravitySqlite
  <2>4. v = D!Affecting(postgres, postgres.quota, c, D!EraseQuota(postgres, c))
    BY <1>3, <1>4, <2>2, AntigravityPostgres
  <2>5. Moves(sqlite, postgres, u, v, c, {})
    BY <1>1, <1>5, <2>3, <2>4, DeleteMoves
  <2> QED
    BY <1>12, <2>1, <2>2, <2>5, WrittenKeeps
<1>13. ASSUME D!Written(c, {}, D!Sq!DeleteAntigravity(sqlite, c),
                        D!Pg!DeleteAntigravity(postgres, c))
      PROVE  AfterWrite
  <2>1. PICK u : u = D!Sq!DeleteAntigravity(sqlite, c)
    OBVIOUS
  <2>2. PICK v : v = D!Pg!DeleteAntigravity(postgres, c)
    OBVIOUS
  <2>3. u = D!Affecting(sqlite, sqlite.cred, c, D!EraseCred(sqlite, c))
    BY <1>2, <1>4, <2>1, AntigravitySqlite
  <2>4. v = D!Affecting(postgres, postgres.cred, c, D!EraseCred(postgres, c))
    BY <1>3, <1>4, <2>2, AntigravityPostgres
  <2>5. Moves(sqlite, postgres, u, v, c, {})
    BY <1>1, <1>5, <2>3, <2>4, DeleteMoves
  <2> QED
    BY <1>13, <2>1, <2>2, <2>5, WrittenKeeps
<1> QED
  BY <1>6, <1>7, <1>8, <1>9, <1>10, <1>11, <1>12, <1>13 DEF D!Antigravity

-----------------------------------------------------------------------------
(* OpenCode *)

\* The row of a key that is stored, created before or now.
StoredRow(x, n) == [status |-> x, at |-> [created |-> n, updated |-> n]]
CreatedAt(k, t) == [k EXCEPT !.at.created = t]
KeptRow(d, c, x, n) ==
  IF c \in DOMAIN d.cred THEN CreatedAt(StoredRow(x, n), d.cred[c].at.created) ELSE StoredRow(x, n)
RestoredAt(d, n) ==
  LET e == D!RestoreThrottled(d)
  IN [e EXCEPT !.cred = [x \in DOMAIN e.cred |->
        IF x \in {y \in DOMAIN d.cred : d.cred[y].status = "throttled"}
        THEN UpdatedRow(e.cred[x], n) ELSE e.cred[x]]]

LEMMA StoredRowIs ==
  ASSUME handler = "opencode", NEW x \in D!Statuses, NEW n \in Int, NEW k, k = StoredRow(x, n)
  PROVE  /\ k \in CredRow /\ k.status = x /\ k.at.created = n /\ k.at.updated = n
         /\ \A t \in Int : \A l : l = CreatedAt(k, t) =>
              l \in CredRow /\ l.status = x /\ l.at.created = t /\ l.at.updated = n
<1>1. CredTimes = {"created", "updated"}
  BY ShapesAre
<1>2. PICK f : f = [created |-> n, updated |-> n]
  OBVIOUS
<1>3. f \in [{"created", "updated"} -> Int] /\ f.created = n /\ f.updated = n
  BY <1>2
<1>4. k = [status |-> x, at |-> f]
  BY <1>2 DEF StoredRow
<1>5. k \in CredRow /\ k.status = x /\ k.at = f
  BY <1>1, <1>3, <1>4 DEF CredRow
<1>6. ASSUME NEW t \in Int, NEW l, l = CreatedAt(k, t)
      PROVE  l \in CredRow /\ l.status = x /\ l.at.created = t /\ l.at.updated = n
  BY <1>1, <1>3, <1>5, <1>6 DEF CredRow, CreatedAt
<1> QED
  BY <1>3, <1>5, <1>6

LEMMA KeptRowIs ==
  ASSUME handler = "opencode", NEW d, NEW c \in Ids, Ready(d), NEW x \in D!Statuses, NEW n \in Int,
         NEW k, k = KeptRow(d, c, x, n)
  PROVE  /\ k \in CredRow /\ k.status = x /\ k.at.updated = n
         /\ k.at.created = IF c \in DOMAIN d.cred THEN d.cred[c].at.created ELSE n
<1>1. CredTimes = {"created", "updated"}
  BY ShapesAre
<1>2. c \in DOMAIN d.cred => d.cred[c].at.created \in Int
  BY <1>1 DEF Ready, Good, RowsOf, CredRow
<1>3. PICK l : l = StoredRow(x, n)
  OBVIOUS
<1>4. /\ l \in CredRow /\ l.status = x /\ l.at.created = n /\ l.at.updated = n
      /\ \A t \in Int : \A e : e = CreatedAt(l, t) =>
           e \in CredRow /\ e.status = x /\ e.at.created = t /\ e.at.updated = n
  BY <1>3, StoredRowIs
<1>5. CASE c \in DOMAIN d.cred
  <2>1. k = CreatedAt(l, d.cred[c].at.created)
    BY <1>3, <1>5 DEF KeptRow
  <2> QED
    BY <1>2, <1>4, <1>5, <2>1
<1>6. CASE c \notin DOMAIN d.cred
  BY <1>3, <1>4, <1>6 DEF KeptRow
<1> QED
  BY <1>5, <1>6

LEMMA StoreCommit ==
  ASSUME Known, handler = "opencode", NEW s, NEW p, NEW c \in Ids, Ready(s), Ready(p),
         NEW x \in D!Statuses, NEW a, NEW b, QuotaAgree(a, b), NEW m \in Int, NEW n, Hard(m, n),
              NEW times
  PROVE  LET u == D!PutCred(s, c, KeptRow(s, c, x, m))
             v == D!PutCred(p, c, KeptRow(p, c, x, n))
         IN Moves(s, p, D!Commit(s, u, x, OnlyUntilOf(u, c, a, D!Every(D!Tiers, m))),
                        D!Commit(p, v, x, OnlyUntilOf(v, c, b, D!Every(D!Tiers, n))), c, times)
<1>1. CredTimes = {"created", "updated"}
  BY ShapesAre
<1>2. n \in Int
  BY DEF Hard
<1>3. PICK k : k = KeptRow(s, c, x, m)
  OBVIOUS
<1>4. PICK l : l = KeptRow(p, c, x, n)
  OBVIOUS
<1>5. /\ k \in CredRow /\ k.status = x /\ k.at.updated = m
      /\ k.at.created = IF c \in DOMAIN s.cred THEN s.cred[c].at.created ELSE m
  BY <1>3, KeptRowIs
<1>6. /\ l \in CredRow /\ l.status = x /\ l.at.updated = n
      /\ l.at.created = IF c \in DOMAIN p.cred THEN p.cred[c].at.created ELSE n
  BY <1>2, <1>4, KeptRowIs
<1>7. ASSUME RelAt(s, p, c) PROVE CredAgree(k, l)
  <2>1. /\ c \in DOMAIN s.cred <=> c \in DOMAIN p.cred
        /\ c \in DOMAIN s.cred => Hard(s.cred[c].at.created, p.cred[c].at.created)
    BY <1>1, <1>7 DEF RelAt, CredAgree
  <2>2. Hard(k.at.created, l.at.created) /\ Hard(k.at.updated, l.at.updated)
    BY <1>5, <1>6, <2>1
  <2> QED
    BY <1>1, <1>5, <1>6, <2>2 DEF CredAgree
<1>8. PICK u : u = D!PutCred(s, c, k)
  OBVIOUS
<1>9. PICK v : v = D!PutCred(p, c, l)
  OBVIOUS
<1>10. Paired(s, p, u, v, c)
  BY <1>5, <1>6, <1>7, <1>8, <1>9, PutCredPair
<1>11. Paired(s, p, D!Commit(s, u, x, OnlyUntilOf(u, c, a, D!Every(D!Tiers, m))),
                    D!Commit(p, v, x, OnlyUntilOf(v, c, b, D!Every(D!Tiers, n))), c)
  BY <1>10, CommitClearPair
<1> QED
  BY <1>3, <1>4, <1>8, <1>9, <1>11, PairedMoves

LEMMA UpdatedCommit ==
  ASSUME Known, handler = "opencode", NEW s, NEW p, NEW c \in Ids, Ready(s), Ready(p),
         NEW x \in D!Statuses, NEW a, NEW b, QuotaAgree(a, b), NEW m \in Int, NEW n, Hard(m, n),
              NEW times
  PROVE  LET u == D!SetCred(s, c, UpdatedRow(WithStatus(s.cred[c], x), m))
             v == D!SetCred(p, c, UpdatedRow(WithStatus(p.cred[c], x), n))
         IN Moves(s, p, D!Commit(s, u, x, OnlyUntilOf(u, c, a, D!Every(D!Tiers, m))),
                        D!Commit(p, v, x, OnlyUntilOf(v, c, b, D!Every(D!Tiers, n))), c, times)
<1>1. /\ c \in DOMAIN s.cred => s.cred[c] \in CredRow
      /\ c \in DOMAIN p.cred => p.cred[c] \in CredRow
  BY DEF Ready, Good, RowsOf
<1>2. RelAt(s, p, c) /\ c \in DOMAIN s.cred => CredAgree(s.cred[c], p.cred[c])
  BY DEF RelAt
<1>3. PICK g : g = WithStatus(s.cred[c], x)
  OBVIOUS
<1>4. PICK h : h = WithStatus(p.cred[c], x)
  OBVIOUS
<1>5. c \in DOMAIN s.cred => g \in CredRow
  BY <1>1, <1>3, StatusRow DEF WithStatus
<1>6. c \in DOMAIN p.cred => h \in CredRow
  BY <1>1, <1>4, StatusRow DEF WithStatus
<1>7. RelAt(s, p, c) /\ c \in DOMAIN s.cred => CredAgree(g, h)
  BY <1>2, <1>3, <1>4, StatusAgree DEF WithStatus
<1>8. PICK k : k = UpdatedRow(g, m)
  OBVIOUS
<1>9. PICK l : l = UpdatedRow(h, n)
  OBVIOUS
<1>10. n \in Int
  BY DEF Hard
<1>11. c \in DOMAIN s.cred => k \in CredRow
  BY <1>5, <1>8, UpdatedRowIs
<1>12. c \in DOMAIN p.cred => l \in CredRow
  BY <1>6, <1>9, <1>10, UpdatedRowIs
<1>13. RelAt(s, p, c) /\ c \in DOMAIN s.cred => CredAgree(k, l)
  BY <1>7, <1>8, <1>9, UpdatedAgree
<1>14. PICK u : u = D!SetCred(s, c, k)
  OBVIOUS
<1>15. PICK v : v = D!SetCred(p, c, l)
  OBVIOUS
<1>16. Paired(s, p, u, v, c)
  BY <1>11, <1>12, <1>13, <1>14, <1>15, SetCredPair
<1>17. Paired(s, p, D!Commit(s, u, x, OnlyUntilOf(u, c, a, D!Every(D!Tiers, m))),
                    D!Commit(p, v, x, OnlyUntilOf(v, c, b, D!Every(D!Tiers, n))), c)
  BY <1>16, CommitClearPair
<1> QED
  BY <1>3, <1>4, <1>8, <1>9, <1>14, <1>15, <1>17, PairedMoves

\* Those restored are stored again.
RestoredAgain(d, e, n) ==
  /\ Good(e) /\ e.quota = d.quota /\ e.credits = d.credits /\ DOMAIN e.cred = DOMAIN d.cred
  /\ \A x \in DOMAIN d.cred :
       e.cred[x] = IF d.cred[x].status = "throttled" THEN UpdatedRow(Enabled(d.cred[x]), n)
            ELSE d.cred[x]

LEMMA RestoredAtIs ==
  ASSUME handler = "opencode", NEW d, Ready(d), NEW n \in Int, NEW e, e = RestoredAt(d, n)
  PROVE  RestoredAgain(d, e, n)
<1>1. PICK h : h = D!RestoreThrottled(d)
  OBVIOUS
<1>2. RestoredBy(d, h) /\ ~h.err
  BY <1>1, RestoreIs
<1>3. PICK f : f = [x \in DOMAIN h.cred |->
        IF x \in {y \in DOMAIN d.cred : d.cred[y].status = "throttled"}
        THEN UpdatedRow(h.cred[x], n) ELSE h.cred[x]]
  OBVIOUS
<1>4. e = [h EXCEPT !.cred = f]
  BY <1>1, <1>3 DEF RestoredAt
<1>5. IsTables(e) /\ e.cred = f /\ e.quota = h.quota /\ e.credits = h.credits /\ e.err = h.err
  BY <1>2, <1>4, FieldsSet DEF RestoredBy, Good, IsTables
<1>6. RowsOf(h.cred, Ids, CredRow) /\ DOMAIN h.cred = DOMAIN d.cred
  BY <1>2 DEF RestoredBy, Good
<1>7. \A k \in CredRow : UpdatedRow(k, n) \in CredRow
  BY UpdatedRowIs
<1>8. RowsOf(f, Ids, CredRow) /\ DOMAIN f = DOMAIN d.cred
  BY <1>3, <1>6, <1>7 DEF RowsOf
<1>9. Good(e)
  BY <1>2, <1>5, <1>6, <1>8 DEF RestoredBy, Good, IsTables
<1>10. \A x \in DOMAIN d.cred :
         f[x] = IF d.cred[x].status = "throttled" THEN UpdatedRow(Enabled(d.cred[x]), n)
              ELSE d.cred[x]
  BY <1>2, <1>3, <1>6 DEF RestoredBy
<1> QED
  BY <1>2, <1>5, <1>6, <1>8, <1>9, <1>10 DEF RestoredAgain, RestoredBy

LEMMA RestoredAtMoves ==
  ASSUME handler = "opencode", NEW s, NEW p, NEW c \in Ids, Ready(s), Ready(p), NEW m \in Int,
       NEW n, Hard(m, n),
         NEW u, u = RestoredAt(s, m), NEW v, v = RestoredAt(p, n), NEW times
  PROVE  Moves(s, p, u, v, c, times)
<1>1. RestoredAgain(s, u, m) /\ RestoredAgain(p, v, n)
  BY RestoredAtIs DEF Hard
<1>2. "enabled" \in D!Statuses
  BY DEF D!Statuses
<1>3. \A k, l : CredAgree(k, l) => CredAgree(Enabled(k), Enabled(l))
  BY <1>2, StatusAgree DEF Enabled
<1>4. \A k, l : CredAgree(k, l) => CredAgree(UpdatedRow(k, m), UpdatedRow(l, n))
  BY UpdatedAgree
<1>5. \A k, l : CredAgree(k, l) => k.status = l.status
  BY DEF CredAgree
<1>6. ASSUME NEW x \in Ids, RelAt(s, p, x) PROVE RelAt(u, v, x)
  BY <1>1, <1>3, <1>4, <1>5, <1>6 DEF RestoredAgain, RelAt
<1>7. Good(u) /\ Good(v)
  BY <1>1 DEF RestoredAgain
<1> QED
  BY <1>6, <1>7 DEF Moves

LEMMA NewOpenCodeAgree ==
  ASSUME Known, handler = "opencode"
  PROVE  QuotaAgree(D!Sq!Q!NewOpenCodeQuota(time), D!Pg!Q!NewOpenCodeQuota(time))
<1>1. PICK m, n : m = D!Sq!Q!Now(time) /\ n = D!Pg!Q!Now(time)
  OBVIOUS
<1>2. m \in Int /\ n \in Int /\ Hard(m, n)
  BY <1>1, NowIs
<1>3. Windows = D!OpenCodeWindows /\ D!Tiers = D!OpenCodeTiers
  BY ShapesAre
<1>4. PICK a : a = D!Sq!Q!NewOpenCodeQuota(time)
  OBVIOUS
<1>5. PICK b : b = D!Pg!Q!NewOpenCodeQuota(time)
  OBVIOUS
<1>6. a = [reset |-> [w \in Windows |-> D!Null], until |-> [t \in D!Tiers |-> m], synced |-> m]
  BY <1>1, <1>3, <1>4 DEF D!Sq!Q!NewOpenCodeQuota, D!Sq!Q!Every, D!Sq!Q!OpenCodeTiers,
     D!OpenCodeTiers,
       D!Sq!Q!OpenCodeWindows, D!OpenCodeWindows, D!Sq!Q!Null, D!Null
<1>7. b = [reset |-> [w \in Windows |-> D!Null], until |-> [t \in D!Tiers |-> n], synced |-> n]
  BY <1>1, <1>3, <1>5 DEF D!Pg!Q!NewOpenCodeQuota, D!Pg!Q!Every, D!Pg!Q!OpenCodeTiers,
     D!OpenCodeTiers,
       D!Pg!Q!OpenCodeWindows, D!OpenCodeWindows, D!Pg!Q!Null, D!Null
<1>8. D!Null \in Int /\ ResetCell(D!Null, D!Null)
  BY DEF D!Null, ResetCell, Soft
<1>9. a \in QuotaRow /\ b \in QuotaRow
  BY <1>2, <1>6, <1>7, <1>8 DEF QuotaRow
<1>10. \A w \in Windows : ResetCell(a.reset[w], b.reset[w])
  BY <1>2, <1>6, <1>7, <1>8
<1>11. \A t \in D!Tiers : a.until[t] = m /\ b.until[t] = n
  BY <1>6, <1>7
<1>12. a.synced = m /\ b.synced = n
  BY <1>6, <1>7
<1>13. QuotaAgree(a, b)
  BY <1>2, <1>9, <1>10, <1>11, <1>12 DEF QuotaAgree
<1> QED
  BY <1>4, <1>5, <1>13

LEMMA OpenCodeSqlite ==
  ASSUME handler = "opencode", NEW d, NEW c
  PROVE  LET new == D!Sq!Q!NewOpenCodeQuota(time)
             now == D!Sq!Q!Now(time)
         IN /\ \A s : D!Sq!UpsertOpenCodeGo(d, c, s, time)
                 = LET u == D!PutCred(d, c, KeptRow(d, c, s, now))
                   IN D!Commit(d, u, s, OnlyUntilOf(u, c, new, D!Every(D!Tiers, now)))
            /\ \A s : D!Sq!UpdateOpenCodeGoStatus(d, c, s, time)
                 = LET u == D!SetCred(d, c, UpdatedRow(WithStatus(d.cred[c], s), now))
                   IN D!Commit(d, u, s, OnlyUntilOf(u, c, new, D!Every(D!Tiers, now)))
            /\ \A r : D!Sq!UpsertOpenCodeGoQuota(d, c, r, time) =
                 ResetOf(d, c, new, D!Sq!FmtTimes(r), now)
            /\ \A u : D!Sq!SetOpenCodeGoQuotaThrottled(d, c, u, time)
                 = OnlyUntilOf(d, c, new, D!Every(D!Tiers, D!Sq!fmtTime(u)))
            /\ D!Sq!RestoreExpiredThrottledOpenCodeGo(d, time) = RestoredAt(d, now)
            /\ D!Sq!DeleteOpenCodeGoQuota(d, c) = D!EraseQuota(d, c)
            /\ D!Sq!DeleteOpenCodeGo(d, c) = D!Affecting(d, d.cred, c, D!EraseCred(d, c))
<1>1. D!Tiers = D!OpenCodeTiers
  BY ShapesAre
<1> QED
  BY <1>1
  DEF D!Sq!UpsertOpenCodeGo, D!Sq!UpdateOpenCodeGoStatus, D!Sq!UpsertOpenCodeGoQuota,
      D!Sq!SetOpenCodeGoQuotaThrottled, D!Sq!RestoreExpiredThrottledOpenCodeGo,
      D!Sq!DeleteOpenCodeGoQuota, D!Sq!DeleteOpenCodeGo, D!Sq!Q!UpsertOpenCodeGo,
      D!Sq!Q!UpdateOpenCodeGoStatus, D!Sq!Q!UpsertOpenCodeGoQuota,
      D!Sq!Q!SetOpenCodeGoQuotaThrottled, D!Sq!Q!RestoreExpiredThrottledOpenCodeGo,
      D!Sq!Q!DeleteOpenCodeGoQuota, D!Sq!Q!DeleteOpenCodeGo,
      D!Sq!Q!ClearOpenCodeGoQuotaThrottle, D!Sq!Q!Updated, D!Sq!OpenCodeTiers,
      D!Sq!Q!OpenCodeTiers, D!OpenCodeTiers, D!Sq!Q!Failed, D!Failed, D!Sq!Q!PutCred, D!PutCred,
      D!Sq!Q!SetCred, D!SetCred, D!Sq!Q!PutQuota, D!PutQuota, D!Sq!Q!QuotaOr, D!QuotaOr,
      D!Sq!Q!PutRow, D!PutRow, D!Sq!Q!RestoreThrottled, D!RestoreThrottled, D!Sq!Q!EraseQuota,
      D!EraseQuota, D!Sq!Q!EraseCred, D!EraseCred, D!Sq!Q!Restrict, D!Restrict, D!Sq!Q!Every,
      D!Every, D!Sq!Failed, D!Sq!Affecting, D!Affecting, D!Sq!Commit, D!Commit,
      D!Sq!ShouldClear, D!ShouldClear, ResetOf, UntilOf, OnlyUntilOf, TierOf, WithStatus,
      WithPlan, SyncedRow, UpdatedRow, KeptRow, StoredRow, CreatedAt, RestoredAt

LEMMA OpenCodePostgres ==
  ASSUME handler = "opencode", NEW d, NEW c
  PROVE  LET new == D!Pg!Q!NewOpenCodeQuota(time)
             now == D!Pg!Q!Now(time)
         IN /\ \A s : D!Pg!UpsertOpenCodeGo(d, c, s, time)
                 = LET u == D!PutCred(d, c, KeptRow(d, c, s, now))
                   IN D!Commit(d, u, s, OnlyUntilOf(u, c, new, D!Every(D!Tiers, now)))
            /\ \A s : D!Pg!UpdateOpenCodeGoStatus(d, c, s, time)
                 = LET u == D!SetCred(d, c, UpdatedRow(WithStatus(d.cred[c], s), now))
                   IN D!Commit(d, u, s, OnlyUntilOf(u, c, new, D!Every(D!Tiers, now)))
            /\ \A r : D!Pg!UpsertOpenCodeGoQuota(d, c, r, time) =
                 ResetOf(d, c, new, D!Pg!FromTimes(r), now)
            /\ \A u : D!Pg!SetOpenCodeGoQuotaThrottled(d, c, u, time)
                 = D!Pg!Q!NotNull(d, {D!Pg!tsFrom(u)},
                     OnlyUntilOf(d, c, new, D!Every(D!Tiers, D!Pg!tsFrom(u))))
            /\ D!Pg!RestoreExpiredThrottledOpenCodeGo(d, time) = RestoredAt(d, now)
            /\ D!Pg!DeleteOpenCodeGoQuota(d, c) = D!EraseQuota(d, c)
            /\ D!Pg!DeleteOpenCodeGo(d, c) = D!Affecting(d, d.cred, c, D!EraseCred(d, c))
<1>1. D!Tiers = D!OpenCodeTiers
  BY ShapesAre
<1> QED
  BY <1>1
  DEF D!Pg!UpsertOpenCodeGo, D!Pg!UpdateOpenCodeGoStatus, D!Pg!UpsertOpenCodeGoQuota,
      D!Pg!SetOpenCodeGoQuotaThrottled, D!Pg!RestoreExpiredThrottledOpenCodeGo,
      D!Pg!DeleteOpenCodeGoQuota, D!Pg!DeleteOpenCodeGo, D!Pg!Q!UpsertOpenCodeGo,
      D!Pg!Q!UpdateOpenCodeGoStatus, D!Pg!Q!UpsertOpenCodeGoQuota,
      D!Pg!Q!SetOpenCodeGoQuotaThrottled, D!Pg!Q!RestoreExpiredThrottledOpenCodeGo,
      D!Pg!Q!DeleteOpenCodeGoQuota, D!Pg!Q!DeleteOpenCodeGo,
      D!Pg!Q!ClearOpenCodeGoQuotaThrottle, D!Pg!Q!Updated, D!Pg!OpenCodeTiers,
      D!Pg!Q!OpenCodeTiers, D!OpenCodeTiers, D!Pg!Q!Failed, D!Failed, D!Pg!Q!PutCred, D!PutCred,
      D!Pg!Q!SetCred, D!SetCred, D!Pg!Q!PutQuota, D!PutQuota, D!Pg!Q!QuotaOr, D!QuotaOr,
      D!Pg!Q!PutRow, D!PutRow, D!Pg!Q!RestoreThrottled, D!RestoreThrottled, D!Pg!Q!EraseQuota,
      D!EraseQuota, D!Pg!Q!EraseCred, D!EraseCred, D!Pg!Q!Restrict, D!Restrict, D!Pg!Q!Every,
      D!Every, D!Pg!Failed, D!Pg!Affecting, D!Affecting, D!Pg!Commit, D!Commit,
      D!Pg!ShouldClear, D!ShouldClear, ResetOf, UntilOf, OnlyUntilOf, TierOf, WithStatus,
      WithPlan, SyncedRow, UpdatedRow, KeptRow, StoredRow, CreatedAt, RestoredAt

LEMMA OpenCodeKeeps ==
  ASSUME Known, StoresInv, handler = "opencode", NEW c \in Ids, D!OpenCode(c)
  PROVE  AfterWrite
<1>1. Ready(sqlite) /\ Ready(postgres)
  BY DEF StoresInv, Ready, D!TypeOK
<1>2. PICK a : a = D!Sq!Q!NewOpenCodeQuota(time)
  OBVIOUS
<1>3. PICK b : b = D!Pg!Q!NewOpenCodeQuota(time)
  OBVIOUS
<1>4. PICK m, n : m = D!Sq!Q!Now(time) /\ n = D!Pg!Q!Now(time)
  OBVIOUS
<1>5. QuotaAgree(a, b) /\ m \in Int /\ Hard(m, n)
  BY <1>2, <1>3, <1>4, NewOpenCodeAgree, NowIs
<1>6. ASSUME NEW x \in D!Statuses, 
              D!Written(c, {}, D!Sq!UpsertOpenCodeGo(sqlite, c, x, time),
                        D!Pg!UpsertOpenCodeGo(postgres, c, x, time))
      PROVE  AfterWrite
  <2>1. PICK u : u = D!Sq!UpsertOpenCodeGo(sqlite, c, x, time)
    OBVIOUS
  <2>2. PICK v : v = D!Pg!UpsertOpenCodeGo(postgres, c, x, time)
    OBVIOUS
  <2>3. u = LET e == D!PutCred(sqlite, c, KeptRow(sqlite, c, x, m))
            IN D!Commit(sqlite, e, x, OnlyUntilOf(e, c, a, D!Every(D!Tiers, m)))
    BY <1>2, <1>4, <2>1, OpenCodeSqlite
  <2>4. v = LET e == D!PutCred(postgres, c, KeptRow(postgres, c, x, n))
            IN D!Commit(postgres, e, x, OnlyUntilOf(e, c, b, D!Every(D!Tiers, n)))
    BY <1>3, <1>4, <2>2, OpenCodePostgres
  <2>5. Moves(sqlite, postgres, u, v, c, {})
    BY <1>1, <1>5, <2>3, <2>4, StoreCommit
  <2> QED
    BY <1>6, <2>1, <2>2, <2>5, WrittenKeeps
<1>7. ASSUME NEW x \in D!Statuses, 
              D!Written(c, {}, D!Sq!UpdateOpenCodeGoStatus(sqlite, c, x, time),
                        D!Pg!UpdateOpenCodeGoStatus(postgres, c, x, time))
      PROVE  AfterWrite
  <2>1. PICK u : u = D!Sq!UpdateOpenCodeGoStatus(sqlite, c, x, time)
    OBVIOUS
  <2>2. PICK v : v = D!Pg!UpdateOpenCodeGoStatus(postgres, c, x, time)
    OBVIOUS
  <2>3. u = LET e == D!SetCred(sqlite, c, UpdatedRow(WithStatus(sqlite.cred[c], x), m))
            IN D!Commit(sqlite, e, x, OnlyUntilOf(e, c, a, D!Every(D!Tiers, m)))
    BY <1>2, <1>4, <2>1, OpenCodeSqlite
  <2>4. v = LET e == D!SetCred(postgres, c, UpdatedRow(WithStatus(postgres.cred[c], x), n))
            IN D!Commit(postgres, e, x, OnlyUntilOf(e, c, b, D!Every(D!Tiers, n)))
    BY <1>3, <1>4, <2>2, OpenCodePostgres
  <2>5. Moves(sqlite, postgres, u, v, c, {})
    BY <1>1, <1>5, <2>3, <2>4, UpdatedCommit
  <2> QED
    BY <1>7, <2>1, <2>2, <2>5, WrittenKeeps
<1>8. ASSUME NEW r \in D!Resets(D!OpenCodeWindows), 
              D!Written(c, D!Range(r), D!Sq!UpsertOpenCodeGoQuota(sqlite, c, r, time),
                        D!Pg!UpsertOpenCodeGoQuota(postgres, c, r, time))
      PROVE  AfterWrite
  <2>1. PICK u : u = D!Sq!UpsertOpenCodeGoQuota(sqlite, c, r, time)
    OBVIOUS
  <2>2. PICK v : v = D!Pg!UpsertOpenCodeGoQuota(postgres, c, r, time)
    OBVIOUS
  <2>3. u = ResetOf(sqlite, c, a, D!Sq!FmtTimes(r), m)
    BY <1>2, <1>4, <2>1, OpenCodeSqlite
  <2>4. v = ResetOf(postgres, c, b, D!Pg!FromTimes(r), n)
    BY <1>3, <1>4, <2>2, OpenCodePostgres
  <2>6. r \in D!Resets(Windows)
    BY ShapesAre
  <2>5. Moves(sqlite, postgres, u, v, c, D!Range(r))
    BY <1>1, <1>5, <2>3, <2>4, <2>6, ResetMoves
  <2> QED
    BY <1>8, <2>1, <2>2, <2>5, WrittenKeeps
<1>9. ASSUME NEW until \in D!Times, 
              D!Written(c, {until}, D!Sq!SetOpenCodeGoQuotaThrottled(sqlite, c, until, time),
                        D!Pg!SetOpenCodeGoQuotaThrottled(postgres, c, until, time))
      PROVE  AfterWrite
  <2>1. PICK u : u = D!Sq!SetOpenCodeGoQuotaThrottled(sqlite, c, until, time)
    OBVIOUS
  <2>2. PICK v : v = D!Pg!SetOpenCodeGoQuotaThrottled(postgres, c, until, time)
    OBVIOUS
  <2>3. u = OnlyUntilOf(sqlite, c, a, D!Every(D!Tiers, D!Sq!fmtTime(until)))
    BY <1>2, <1>4, <2>1, OpenCodeSqlite
  <2>4. v = D!Pg!Q!NotNull(postgres, {D!Pg!tsFrom(until)},
                            OnlyUntilOf(postgres, c, b, D!Every(D!Tiers, D!Pg!tsFrom(until))))
    BY <1>3, <1>4, <2>2, OpenCodePostgres
  <2>5. Moves(sqlite, postgres, u, v, c, {until})
    BY <1>1, <1>5, <2>3, <2>4, ThrottleMoves
  <2> QED
    BY <1>9, <2>1, <2>2, <2>5, WrittenKeeps
<1>10. ASSUME D!Written(c, {}, D!Sq!RestoreExpiredThrottledOpenCodeGo(sqlite, time),
                        D!Pg!RestoreExpiredThrottledOpenCodeGo(postgres, time))
      PROVE  AfterWrite
  <2>1. PICK u : u = D!Sq!RestoreExpiredThrottledOpenCodeGo(sqlite, time)
    OBVIOUS
  <2>2. PICK v : v = D!Pg!RestoreExpiredThrottledOpenCodeGo(postgres, time)
    OBVIOUS
  <2>3. u = RestoredAt(sqlite, m)
    BY <1>2, <1>4, <2>1, OpenCodeSqlite
  <2>4. v = RestoredAt(postgres, n)
    BY <1>3, <1>4, <2>2, OpenCodePostgres
  <2>5. Moves(sqlite, postgres, u, v, c, {})
    BY <1>1, <1>5, <2>3, <2>4, RestoredAtMoves
  <2> QED
    BY <1>10, <2>1, <2>2, <2>5, WrittenKeeps
<1>11. ASSUME D!Written(c, {}, D!Sq!DeleteOpenCodeGoQuota(sqlite, c),
                        D!Pg!DeleteOpenCodeGoQuota(postgres, c))
      PROVE  AfterWrite
  <2>1. PICK u : u = D!Sq!DeleteOpenCodeGoQuota(sqlite, c)
    OBVIOUS
  <2>2. PICK v : v = D!Pg!DeleteOpenCodeGoQuota(postgres, c)
    OBVIOUS
  <2>3. u = D!EraseQuota(sqlite, c)
    BY <1>2, <1>4, <2>1, OpenCodeSqlite
  <2>4. v = D!EraseQuota(postgres, c)
    BY <1>3, <1>4, <2>2, OpenCodePostgres
  <2>5. Moves(sqlite, postgres, u, v, c, {})
    BY <1>1, <1>5, <2>3, <2>4, DeleteMoves
  <2> QED
    BY <1>11, <2>1, <2>2, <2>5, WrittenKeeps
<1>12. ASSUME D!Written(c, {}, D!Sq!DeleteOpenCodeGo(sqlite, c),
                        D!Pg!DeleteOpenCodeGo(postgres, c))
      PROVE  AfterWrite
  <2>1. PICK u : u = D!Sq!DeleteOpenCodeGo(sqlite, c)
    OBVIOUS
  <2>2. PICK v : v = D!Pg!DeleteOpenCodeGo(postgres, c)
    OBVIOUS
  <2>3. u = D!Affecting(sqlite, sqlite.cred, c, D!EraseCred(sqlite, c))
    BY <1>2, <1>4, <2>1, OpenCodeSqlite
  <2>4. v = D!Affecting(postgres, postgres.cred, c, D!EraseCred(postgres, c))
    BY <1>3, <1>4, <2>2, OpenCodePostgres
  <2>5. Moves(sqlite, postgres, u, v, c, {})
    BY <1>1, <1>5, <2>3, <2>4, DeleteMoves
  <2> QED
    BY <1>12, <2>1, <2>2, <2>5, WrittenKeeps
<1> QED
  BY <1>6, <1>7, <1>8, <1>9, <1>10, <1>11, <1>12 DEF D!OpenCode

-----------------------------------------------------------------------------
(* Every call and every tick keep both databases well *)

LEMMA NoTablesGood ==
  ASSUME NEW d, d = D!NoTables
  PROVE  /\ Good(d) /\ d.err = FALSE /\ DOMAIN d.cred = {} /\ DOMAIN d.quota = {} /\ d.credits = {}
<1>1. d = [cred |-> << >>, quota |-> << >>, credits |-> {}, err |-> FALSE]
  BY DEF D!NoTables
<1>2. d.cred = << >> /\ d.quota = << >> /\ d.credits = {} /\ d.err = FALSE
  BY <1>1
<1>3. DOMAIN << >> = {} /\ << >> = [x \in DOMAIN << >> |-> << >>[x]]
  OBVIOUS
<1>4. RowsOf(d.cred, Ids, CredRow) /\ RowsOf(d.quota, DOMAIN d.cred, QuotaRow)
  BY <1>2, <1>3 DEF RowsOf
<1>5. d \in [cred : {d.cred}, quota : {d.quota}, credits : {d.credits}, err : BOOLEAN]
  BY <1>1
<1> QED
  BY <1>2, <1>3, <1>4, <1>5 DEF Good

LEMMA StoresInit == D!Init => StoresInv
<1> SUFFICES ASSUME D!Init PROVE StoresInv
  OBVIOUS
<1>1. Good(sqlite) /\ Good(postgres) /\ sqlite.err = FALSE /\ postgres.err = FALSE
      /\ DOMAIN sqlite.cred = {} /\ DOMAIN sqlite.quota = {} /\ sqlite.credits = {}
      /\ DOMAIN postgres.cred = {} /\ DOMAIN postgres.quota = {} /\ postgres.credits = {}
  BY NoTablesGood DEF D!Init
<1>2. \A x : RelAt(sqlite, postgres, x)
  BY <1>1 DEF RelAt
<1>3. time \in 2 .. MaxTicks /\ writes \in 0 .. MaxWrites
  BY StoresAssumption DEF D!Init
<1>4. D!TypeOK
  BY <1>1, <1>3 DEF D!TypeOK, D!Init
<1> QED
  BY <1>1, <1>2, <1>4 DEF StoresInv

LEMMA StoresKnown == StoresInv => Known
<1> SUFFICES ASSUME StoresInv PROVE Known
  OBVIOUS
<1>1. handler \in Providers /\ time \in 2 .. MaxTicks
  BY DEF StoresInv, D!TypeOK
<1>2. handler \in {"codex", "gemini", "antigravity", "opencode"}
  BY <1>1, StoresAssumption
<1>3. time \in Int /\ time >= 2
  BY <1>1, StoresAssumption
<1> QED
  BY <1>2, <1>3 DEF Known

LEMMA WrittenAgain ==
  ASSUME StoresInv, NEW c \in Ids, D!Write(c)
  PROVE  AfterWrite
<1>1. Known
  BY StoresKnown
<1>2. \/ handler = "codex" /\ D!Codex(c)
      \/ handler = "gemini" /\ D!Gemini(c)
      \/ handler = "antigravity" /\ D!Antigravity(c)
      \/ handler = "opencode" /\ D!OpenCode(c)
  BY DEF D!Write
<1> QED
  BY <1>1, <1>2, CodexKeeps, GeminiKeeps, AntigravityKeeps, OpenCodeKeeps

LEMMA ShapesKept ==
  ASSUME handler' = handler
  PROVE  /\ CredTimes' = CredTimes /\ CredRow' = CredRow /\ Windows' = Windows
         /\ D!Tiers' = D!Tiers /\ QuotaRow' = QuotaRow
<1>1. CredTimes' = CredTimes /\ Windows' = Windows /\ D!Tiers' = D!Tiers
  BY DEF CredTimes, Windows, D!Tiers
<1> QED
  BY <1>1 DEF CredRow, QuotaRow

LEMMA StoresStep == StoresInv /\ [D!Next]_(D!stores) => StoresInv'
<1> SUFFICES ASSUME StoresInv, [D!Next]_(D!stores) PROVE StoresInv'
  OBVIOUS
<1>1. handler' = handler
  BY DEF D!Next, D!Write, D!Pass, D!stores
<1>2. /\ CredTimes' = CredTimes /\ CredRow' = CredRow /\ Windows' = Windows
      /\ D!Tiers' = D!Tiers /\ QuotaRow' = QuotaRow
  BY <1>1, ShapesKept
<1>3. AfterWrite
  <2>1. CASE \E c \in Ids : D!Write(c)
    BY <2>1, WrittenAgain
  <2>2. CASE UNCHANGED <<sqlite, postgres, refused>>
    BY <2>2 DEF AfterWrite, StoresInv, D!TypeOK
  <2> QED
    BY <2>1, <2>2 DEF D!Next, D!Pass, D!stores
<1>4. time' \in 2 .. MaxTicks /\ writes' \in 0 .. MaxWrites
  <2>1. time \in 2 .. MaxTicks /\ writes \in 0 .. MaxWrites /\ MaxTicks \in Nat /\ MaxWrites \in Nat
    BY StoresAssumption DEF StoresInv, D!TypeOK
  <2> QED
    BY <2>1 DEF D!Next, D!Write, D!Pass, D!stores
<1>5. D!TypeOK'
  <2>1. handler' \in Providers
    BY <1>1 DEF StoresInv, D!TypeOK
  <2>2. \A d : Good(d) => DOMAIN d.cred \subseteq Ids /\ DOMAIN d.quota \cup
        d.credits \subseteq DOMAIN d.cred
    BY DEF Good, RowsOf
  <2> QED
    BY <1>3, <1>4, <2>1, <2>2 DEF AfterWrite, D!TypeOK
<1>6. Good(sqlite)' /\ Good(postgres)'
  BY <1>2, <1>3 DEF AfterWrite, Good
<1>7. \A x \in Ids \ refused' : RelAt(sqlite, postgres, x)'
  <2>1. \A a, b : CredAgree(a, b) => CredAgree(a, b)'
    BY <1>1, <1>2 DEF CredAgree
  <2> QED
    BY <1>1, <1>2, <1>3 DEF AfterWrite, RelAt, CredAgree, QuotaAgree, ResetCell
<1> QED
  BY <1>5, <1>6, <1>7 DEF StoresInv

\* Whatever is called, and whenever, the databases stay as they were made to be, and
\* every credential that none of them refused is the same in both, to the second
\* (db/sqlite, db/postgres).
THEOREM StoresKept == D!Spec => []StoresInv
BY StoresInit, StoresStep, PTL DEF D!Spec

LEMMA LeastNat == ASSUME NEW X, X \subseteq Nat, X # {} PROVE \E x \in X : \A y \in X : x <= y
<1>1. IsWellFoundedOn(OpToRel(<, Nat), Nat)
  BY NatLessThanWellFounded
<1>2. PICK x \in X : \A y \in X : ~(<<y, x>> \in OpToRel(<, Nat))
  BY <1>1, WFMin
<1>3. \A y \in X : ~(y < x)
  BY <1>2 DEF OpToRel
<1> QED
  BY <1>3

-----------------------------------------------------------------------------
(* What both answer: times *)

\* The last instant of the second.
LEMMA EndOfSecondIs ==
  ASSUME Known
  PROVE  /\ D!EndOfSecond \in Int /\ D!EndOfSecond = D!Whole(time) + 1 /\ D!EndOfSecond >= 3
         /\ D!Whole(D!EndOfSecond) = D!Whole(time)
         /\ D!Sq!Q!Now(time) = D!Whole(time) /\ D!Pg!Q!Now(D!EndOfSecond) = D!EndOfSecond
         /\ D!Whole(time) \in Int /\ D!Whole(time) >= 2
<1>1. D!EndOfSecond = D!Whole(time) + 1 /\ time \in Int /\ time >= 2
  BY DEF D!EndOfSecond, D!PerSecond, Known
<1>2. D!Whole(time) \in Int /\ D!Whole(time) >= 2
  BY <1>1, WholeIs
<1>3. D!Whole(D!EndOfSecond) = D!Whole(time)
  BY <1>1, <1>2 DEF D!Whole, D!PerSecond
<1>4. D!Sq!Q!Now(time) = D!Whole(time)
  BY DEF D!Sq!Q!Now, D!Sq!Q!Whole, D!Whole, D!Sq!Q!PerSecond, D!PerSecond
<1>5. D!Pg!Q!Now(D!EndOfSecond) = D!EndOfSecond
  BY DEF D!Pg!Q!Now
<1> QED
  BY <1>1, <1>2, <1>3, <1>4, <1>5

\* A column of a quota that may not be there, in both.
Join(v, w) == v \in Int /\ w \in Int /\ ((v = D!Null /\ w = D!Null) \/ Hard(v, w))
JoinReset(v, w) == IF handler \in {"codex", "opencode"} THEN v \in Int /\ w \in Int /\ Soft(v, w)
                                                        ELSE Join(v, w)

\* Told the same to the second: in place of nothing, x and y.
SameTime(v, w, x, y) ==
  D!Sq!parseTime(D!Coalesce(v, x)) = D!Whole(D!Pg!tsTo(D!Coalesce(w, y)))

LEMMA TimesTold ==
  ASSUME Known
  PROVE  /\ \A v, w : Join(v, w) => SameTime(v, w, D!Sq!Q!Blank, D!Pg!Q!YearOne)
         /\ \A v, w : JoinReset(v, w) => SameTime(v, w, D!Sq!Q!Blank, D!Pg!Q!YearOne)
         /\ \A v, w : Join(v, w) => SameTime(v, w, D!Sq!Q!Now(time), D!Pg!Q!Now(D!EndOfSecond))
         /\ \A v, w : Join(v, w) => SameTime(v, w, D!Sq!Q!Now(time) + D!Century,
                                             D!Pg!Q!Now(D!EndOfSecond) + D!Century)
         /\ \A v, w, x, y : Join(v, w) /\ Hard(x, y) => SameTime(v, w, x, y)
         /\ \A v, w : Hard(v, w) => D!Sq!parseTime(v) = D!Whole(D!Pg!tsTo(w))
<1>1. PICK m, n : m = D!Sq!Q!Now(time) /\ n = D!Pg!Q!Now(D!EndOfSecond)
  OBVIOUS
<1>2. m \in Int /\ n \in Int /\ n = m + 1 /\ m >= 2 /\ Hard(m, n)
  BY <1>1, EndOfSecondIs DEF Hard
<1>3. Hard(m + 100, n + 100)
  BY <1>2 DEF Hard, D!Whole, D!PerSecond
<1>4. \A v, w : Hard(v, w) => v \in Int /\ v >= 2 /\ v = D!Whole(w) /\ w >= 2 /\ w \in Int
  BY WholeIs DEF Hard
<1>5. \A v : v # -1 => D!Sq!parseTime(v) = v
  BY DEF D!Sq!parseTime, D!Sq!Q!Blank
<1>6. \A w \in Int : w > 0 => D!Pg!tsTo(w) = w
  BY DEF D!Pg!tsTo, D!Pg!Null, D!Pg!Q!YearOne, D!Pg!Q!ZeroTime
<1>7. \A v, w : Hard(v, w) => D!Sq!parseTime(v) = D!Whole(D!Pg!tsTo(w))
  BY <1>4, <1>5, <1>6
<1>8. \A v, w, x, y : Hard(v, w) => SameTime(v, w, x, y)
  BY <1>4, <1>7 DEF SameTime, D!Coalesce, D!Null
<1>9. \A x, y : Hard(x, y) => SameTime(D!Null, D!Null, x, y)
  BY <1>7 DEF SameTime, D!Coalesce
<1>10. \A v, w, x, y : Join(v, w) /\ Hard(x, y) => SameTime(v, w, x, y)
  BY <1>8, <1>9 DEF Join
<1>11. D!Sq!parseTime(-1) = 0 /\ D!Pg!tsTo(0) = 0 /\ D!Whole(0) = 0
  BY DEF D!Sq!parseTime, D!Sq!Q!Blank, D!Sq!ZeroTime, D!Pg!tsTo, D!Pg!Q!YearOne, D!Pg!ZeroTime,
         D!Pg!Q!ZeroTime, D!Whole, D!PerSecond
<1>12. \A v \in {D!Null, D!Sq!Q!Blank} : SameTime(v, D!Null, D!Sq!Q!Blank, D!Pg!Q!YearOne)
  BY <1>11 DEF SameTime, D!Coalesce, D!Null, D!Sq!Q!Blank, D!Pg!Q!YearOne, D!Pg!Q!ZeroTime
<1>13. \A v, w : Join(v, w) => SameTime(v, w, D!Sq!Q!Blank, D!Pg!Q!YearOne)
  BY <1>8, <1>12 DEF Join
<1>14. \A v, w : Soft(v, w) => SameTime(v, w, D!Sq!Q!Blank, D!Pg!Q!YearOne)
  BY <1>8, <1>12 DEF Soft
<1>15. \A v, w : JoinReset(v, w) => SameTime(v, w, D!Sq!Q!Blank, D!Pg!Q!YearOne)
  BY <1>13, <1>14 DEF JoinReset
<1> QED
  BY <1>1, <1>2, <1>3, <1>7, <1>10, <1>13, <1>15 DEF D!Century

\* The quota of c, in both, or none.
JoinAgree(q, r) ==
  /\ \A n \in Windows : JoinReset(q.reset[n], r.reset[n])
  /\ \A t \in D!Tiers : Join(q.until[t], r.until[t])
  /\ Join(q.synced, r.synced)

LEMMA LeftJoinAgree ==
  ASSUME Known, NEW s, NEW p, Good(s), Good(p), NEW c, RelAt(s, p, c)
  PROVE  JoinAgree(D!LeftJoin(s, c), D!LeftJoin(p, c))
<1>1. D!Null \in Int
  BY DEF D!Null
<1>2. CASE c \in DOMAIN s.quota
  <2>1. QuotaAgree(s.quota[c], p.quota[c]) /\ c \in DOMAIN p.quota
    BY <1>2 DEF RelAt
  <2>2. PICK q, r : q = D!LeftJoin(s, c) /\ r = D!LeftJoin(p, c)
    OBVIOUS
  <2>4. QuotaAgree(q, r)
    BY <1>2, <2>1, <2>2 DEF D!LeftJoin, D!QuotaOr
  <2>3. \A k \in QuotaRow : /\ \A n \in Windows : k.reset[n] \in Int
                           /\ \A t \in D!Tiers : k.until[t] \in Int
                           /\ k.synced \in Int
    BY DEF QuotaRow
  <2>7. \A v \in Int, w \in Int : ResetCell(v, w) => JoinReset(v, w)
    BY DEF Join, JoinReset, ResetCell
  <2>8. \A n \in Windows : q.reset[n] \in Int /\ r.reset[n] \in Int /\
        ResetCell(q.reset[n], r.reset[n])
    BY <2>3, <2>4 DEF QuotaAgree
  <2>5. ASSUME NEW n \in Windows PROVE JoinReset(q.reset[n], r.reset[n])
    <3>1. q.reset[n] \in Int /\ r.reset[n] \in Int /\ ResetCell(q.reset[n], r.reset[n])
      BY <2>8
    <3> QED
      BY <2>7, <3>1
  <2>6. /\ \A t \in D!Tiers : Join(q.until[t], r.until[t])
        /\ Join(q.synced, r.synced)
    <3>1. q \in QuotaRow /\ r \in QuotaRow /\ Hard(q.synced, r.synced)
          /\ \A t \in D!Tiers : Hard(q.until[t], r.until[t])
      BY <2>4 DEF QuotaAgree
    <3>2. /\ \A t \in D!Tiers : q.until[t] \in Int /\ r.until[t] \in Int
          /\ q.synced \in Int /\ r.synced \in Int
      BY <3>1 DEF QuotaRow
    <3>3. \A v \in Int, w \in Int : Hard(v, w) => Join(v, w)
      BY DEF Join
    <3>4. ASSUME NEW t \in D!Tiers PROVE Join(q.until[t], r.until[t])
      BY <3>1, <3>2, <3>3
    <3>5. Join(q.synced, r.synced)
      BY <3>1, <3>2, <3>3
    <3> QED
      BY <3>4, <3>5
  <2> QED
    BY <2>2, <2>5, <2>6 DEF JoinAgree
<1>3. CASE c \notin DOMAIN s.quota
  <2>1. c \notin DOMAIN p.quota
    BY <1>3 DEF RelAt
  <2>2. D!LeftJoin(s, c) = D!NoQuota /\ D!LeftJoin(p, c) = D!NoQuota
    BY <1>3, <2>1 DEF D!LeftJoin, D!QuotaOr
  <2>3. Windows \subseteq D!AntigravityTiers \cup D!CodexWindows
        /\ D!Tiers \subseteq D!AntigravityTiers \cup D!CodexTiers
    BY ShapesAre DEF Known, D!AntigravityTiers, D!CodexWindows, D!CodexTiers, D!GeminiTiers,
       D!OpenCodeTiers, D!OpenCodeWindows
  <2>4. /\ \A n \in D!AntigravityTiers \cup D!CodexWindows : D!NoQuota.reset[n] = D!Null
        /\ \A t \in D!AntigravityTiers \cup D!CodexTiers : D!NoQuota.until[t] = D!Null
        /\ D!NoQuota.synced = D!Null
    BY DEF D!NoQuota, D!Every
  <2>5. Join(D!Null, D!Null) /\ JoinReset(D!Null, D!Null)
    BY <1>1 DEF Join, JoinReset, Soft
  <2> QED
    BY <2>2, <2>3, <2>4, <2>5 DEF JoinAgree
<1> QED
  BY <1>2, <1>3

-----------------------------------------------------------------------------
(* What both answer: rows *)

CredSame(k, l)  == D!Sq!CredentialTo(k) = D!WholeCred(D!Pg!CredentialTo(l))
TimesSame(f, g) == D!Sq!ParseTimes(f) = D!Wholes(D!Pg!ToTimes(g))
TimeSame(v, w)  == D!Sq!parseTime(v) = D!Whole(D!Pg!tsTo(w))

LEMMA ColumnsSame ==
  ASSUME NEW X, NEW f, NEW g, NEW x, NEW y, \A n \in X : SameTime(f[n], g[n], x, y)
  PROVE  TimesSame(D!Columns(f, X, x), D!Columns(g, X, y))
<1>1. \A n \in X : D!Sq!parseTime(D!Coalesce(f[n], x)) = D!Whole(D!Pg!tsTo(D!Coalesce(g[n], y)))
  BY DEF SameTime
<1>2. D!Sq!ParseTimes(D!Columns(f, X, x)) = [n \in X |-> D!Sq!parseTime(D!Coalesce(f[n], x))]
  BY DEF D!Sq!ParseTimes, D!Columns
<1>3. D!Pg!ToTimes(D!Columns(g, X, y)) = [n \in X |-> D!Pg!tsTo(D!Coalesce(g[n], y))]
  BY DEF D!Pg!ToTimes, D!Columns
<1>4. D!Wholes(D!Pg!ToTimes(D!Columns(g, X, y))) =
      [n \in X |-> D!Whole(D!Pg!tsTo(D!Coalesce(g[n], y)))]
  BY <1>3 DEF D!Wholes
<1> QED
  BY <1>1, <1>2, <1>4 DEF TimesSame

LEMMA AtSame ==
  ASSUME Known, NEW a, NEW b, a \in [CredTimes -> Int], b \in [CredTimes -> Int],
         \A n \in CredTimes : Hard(a[n], b[n])
  PROVE  TimesSame(a, b)
<1>1. \A n \in CredTimes : D!Sq!parseTime(a[n]) = D!Whole(D!Pg!tsTo(b[n]))
  BY TimesTold
<1>2. D!Sq!ParseTimes(a) = [n \in CredTimes |-> D!Sq!parseTime(a[n])]
  BY DEF D!Sq!ParseTimes
<1>3. D!Wholes(D!Pg!ToTimes(b)) = [n \in CredTimes |-> D!Whole(D!Pg!tsTo(b[n]))]
  BY DEF D!Wholes, D!Pg!ToTimes
<1> QED
  BY <1>1, <1>2, <1>3 DEF TimesSame

LEMMA CredRowsSame ==
  ASSUME Known, NEW k, NEW l, CredAgree(k, l)
  PROVE  CredSame(k, l)
<1>1. k \in CredRow /\ l \in CredRow /\ k.status = l.status
      /\ (handler # "opencode" => k.plan = l.plan /\ k.refresh = l.refresh)
  BY DEF CredAgree
<1>2. TimesSame(k.at, l.at)
  <2>1. k.at \in [CredTimes -> Int] /\ l.at \in [CredTimes -> Int]
    BY <1>1 DEF CredRow
  <2>2. \A n \in CredTimes : Hard(k.at[n], l.at[n])
    BY DEF CredAgree
  <2> QED
    BY <2>1, <2>2, AtSame
<1>3. PICK f : f = D!Sq!ParseTimes(k.at)
  OBVIOUS
<1>4. PICK g : g = D!Pg!ToTimes(l.at)
  OBVIOUS
<1>5. f = D!Wholes(g)
  BY <1>2, <1>3, <1>4 DEF TimesSame
<1>6. D!Sq!CredentialTo(k) = [k EXCEPT !.at = f]
  BY <1>3 DEF D!Sq!CredentialTo
<1>7. D!Pg!CredentialTo(l) = [l EXCEPT !.at = g]
  BY <1>4 DEF D!Pg!CredentialTo
<1>8. PICK h : h = [l EXCEPT !.at = g]
  OBVIOUS
<1>9. D!WholeCred(h) = [h EXCEPT !.at = D!Wholes(h.at)]
  BY DEF D!WholeCred
<1>10. CASE handler = "opencode"
  <2>1. CredRow = [status : D!Statuses, at : [CredTimes -> Int]]
    BY <1>10 DEF CredRow
  <2>2. k = [status |-> k.status, at |-> k.at] /\ l = [status |-> k.status, at |-> l.at]
    BY <1>1, <2>1
  <2>3. [k EXCEPT !.at = f] = [status |-> k.status, at |-> f]
    BY <2>2
  <2>4. h = [status |-> k.status, at |-> g]
    BY <1>8, <2>2
  <2>5. [h EXCEPT !.at = D!Wholes(h.at)] = [status |-> k.status, at |-> f]
    BY <1>5, <2>4
  <2> QED
    BY <1>6, <1>7, <1>8, <1>9, <2>3, <2>5 DEF CredSame
<1>11. CASE handler # "opencode"
  <2>1. CredRow = [status : D!Statuses, plan : {"", "paid"}, refresh : BOOLEAN,
        at : [CredTimes -> Int]]
    BY <1>11 DEF CredRow
  <2>2. /\ k = [status |-> k.status, plan |-> k.plan, refresh |-> k.refresh, at |-> k.at]
        /\ l = [status |-> k.status, plan |-> k.plan, refresh |-> k.refresh, at |-> l.at]
    BY <1>1, <1>11, <2>1
  <2>3. [k EXCEPT !.at = f] = [status |-> k.status, plan |-> k.plan, refresh |-> k.refresh,
        at |-> f]
    BY <2>2
  <2>4. h = [status |-> k.status, plan |-> k.plan, refresh |-> k.refresh, at |-> g]
    BY <1>8, <2>2
  <2>5. [h EXCEPT !.at = D!Wholes(h.at)]
          = [status |-> k.status, plan |-> k.plan, refresh |-> k.refresh, at |-> f]
    BY <1>5, <2>4
  <2> QED
    BY <1>6, <1>7, <1>8, <1>9, <2>3, <2>5 DEF CredSame
<1> QED
  BY <1>10, <1>11

\* Some columns of an answer are others.
SetColumns(r, a, u, m) == [r EXCEPT !.reset = a, !.until = u, !.synced = m]
SetThrottled(r, i)     == [r EXCEPT !.throttled = i]
SetRowCred(r, k)       == [r EXCEPT !.cred = k]

LEMMA ColumnsSet ==
  ASSUME NEW r, NEW a, NEW u, NEW m
  PROVE  SetColumns(r, a, u, m) = [[[r EXCEPT !.reset = a] EXCEPT !.until = u] EXCEPT !.synced = m]
BY DEF SetColumns

\* The answers, and their roundings, by the columns they set.
LEMMA RowsAreSet ==
  /\ \A r : D!Sq!ParsedQuota(r) = SetColumns(r, D!Sq!ParseTimes(r.reset), D!Sq!ParseTimes(r.until),
                                             D!Sq!parseTime(r.synced))
  /\ \A r : D!Pg!QuotaTo(r) = SetColumns(r, D!Pg!ToTimes(r.reset), D!Pg!ToTimes(r.until),
                                         D!Pg!tsTo(r.synced))
  /\ \A r : D!WholeQuota(r) = SetColumns(r, D!Wholes(r.reset), D!Wholes(r.until), D!Whole(r.synced))
  /\ \A r, q : q = D!Sq!ParsedQuota(r) =>
       /\ D!Sq!ListRowTo(r) = SetRowCred(q, D!Sq!CredentialTo(q.cred))
       /\ D!Sq!AvailableRowTo(r) = SetThrottled(q, D!Sq!parseTime(q.throttled))
  /\ \A r, q : q = D!Pg!QuotaTo(r) =>
       /\ D!Pg!ListRowTo(r) = SetRowCred(q, D!Pg!CredentialTo(q.cred))
       /\ D!Pg!AvailableRowTo(r) = SetThrottled(q, D!Pg!tsTo(q.throttled))
  /\ \A r, q : q = D!WholeQuota(r) =>
       /\ D!WholeListed(r) = SetRowCred(q, D!WholeCred(q.cred))
       /\ "throttled" \in DOMAIN r => D!WholeAvailable(r) = SetThrottled(q, D!Whole(q.throttled))
       /\ "throttled" \notin DOMAIN r => D!WholeAvailable(r) = q
<1>1. \A r : D!Sq!ParsedQuota(r) = SetColumns(r, D!Sq!ParseTimes(r.reset), D!Sq!ParseTimes(r.until),
                                              D!Sq!parseTime(r.synced))
  BY DEF D!Sq!ParsedQuota, SetColumns
<1>2. \A r : D!Pg!QuotaTo(r) = SetColumns(r, D!Pg!ToTimes(r.reset), D!Pg!ToTimes(r.until),
                                          D!Pg!tsTo(r.synced))
  BY DEF D!Pg!QuotaTo, SetColumns
<1>3. \A r : D!WholeQuota(r) = SetColumns(r, D!Wholes(r.reset), D!Wholes(r.until),
      D!Whole(r.synced))
  BY DEF D!WholeQuota, SetColumns
<1>4. \A r, q : q = D!Sq!ParsedQuota(r) =>
        /\ D!Sq!ListRowTo(r) = SetRowCred(q, D!Sq!CredentialTo(q.cred))
        /\ D!Sq!AvailableRowTo(r) = SetThrottled(q, D!Sq!parseTime(q.throttled))
  BY DEF D!Sq!ListRowTo, D!Sq!AvailableRowTo, SetRowCred, SetThrottled
<1>5. \A r, q : q = D!Pg!QuotaTo(r) =>
        /\ D!Pg!ListRowTo(r) = SetRowCred(q, D!Pg!CredentialTo(q.cred))
        /\ D!Pg!AvailableRowTo(r) = SetThrottled(q, D!Pg!tsTo(q.throttled))
  BY DEF D!Pg!ListRowTo, D!Pg!AvailableRowTo, SetRowCred, SetThrottled
<1>6. \A r, q : q = D!WholeQuota(r) =>
        /\ D!WholeListed(r) = SetRowCred(q, D!WholeCred(q.cred))
        /\ "throttled" \in DOMAIN r => D!WholeAvailable(r) = SetThrottled(q, D!Whole(q.throttled))
        /\ "throttled" \notin DOMAIN r => D!WholeAvailable(r) = q
  BY DEF D!WholeListed, D!WholeAvailable, SetRowCred, SetThrottled
<1> QED
  BY <1>1, <1>2, <1>3, <1>4, <1>5, <1>6

\* A row of a list, of a provider without credits and of one with.
PlainRow(k, a, u, m)      == [cred |-> k, reset |-> a, until |-> u, synced |-> m]
CreditRow(k, a, u, x, m)  == [cred |-> k, reset |-> a, until |-> u, credits |-> x, synced |-> m]
\* A row of what is available: the plan and the credits are not there for all.
OpenCodeRow(a, u, m)             == [reset |-> a, until |-> u, synced |-> m]
CodexRow(p, a, u, m)             == [plan |-> p, reset |-> a, until |-> u, synced |-> m]
GeminiRow(p, a, u, i, m)         == [plan |-> p, reset |-> a, until |-> u, throttled |-> i,
     synced |-> m]
AntigravityRow(p, a, x, u, i, m) ==
  [plan |-> p, reset |-> a, credits |-> x, until |-> u, throttled |-> i, synced |-> m]

LEMMA PlainRowSet ==
  ASSUME NEW a, NEW u, NEW m, NEW k, NEW r, r = PlainRow(k, a, u, m)
  PROVE  /\ r.reset = a /\ r.until = u /\ r.synced = m
         /\ \A a1, u1, m1 : SetColumns(r, a1, u1, m1) = PlainRow(k, a1, u1, m1)
         /\ r.cred = k
         /\ \A k1 : SetRowCred(r, k1) = PlainRow(k1, a, u, m)
<1>1. ASSUME NEW a1, NEW u1, NEW m1 PROVE SetColumns(r, a1, u1, m1) = PlainRow(k, a1, u1, m1)
  <2>1. [PlainRow(k, a, u, m) EXCEPT !.reset = a1] = PlainRow(k, a1, u, m)
    BY DEF PlainRow
  <2>2. [PlainRow(k, a1, u, m) EXCEPT !.until = u1] = PlainRow(k, a1, u1, m)
    BY DEF PlainRow
  <2>3. [PlainRow(k, a1, u1, m) EXCEPT !.synced = m1] = PlainRow(k, a1, u1, m1)
    BY DEF PlainRow
  <2> QED
    BY <2>1, <2>2, <2>3, ColumnsSet
<1>2. r.reset = a /\ r.until = u /\ r.synced = m
  BY DEF PlainRow
<1>3. r.cred = k
  BY DEF PlainRow
<1>4. ASSUME NEW k1 PROVE SetRowCred(r, k1) = PlainRow(k1, a, u, m)
  BY DEF SetRowCred, PlainRow
<1> QED
  BY <1>1, <1>2, <1>3, <1>4

LEMMA PlainRowsSame ==
  ASSUME NEW a, NEW b, TimesSame(a, b), NEW u, NEW v, TimesSame(u, v), NEW m, NEW n, TimeSame(m, n),
         NEW k, NEW l, CredSame(k, l)
  PROVE  D!Sq!ListRowTo(PlainRow(k, a, u, m))
           = D!WholeListed(D!Pg!ListRowTo(PlainRow(l, b, v, n)))
<1>1. PICK a1, u1, m1 : a1 = D!Sq!ParseTimes(a) /\ u1 = D!Sq!ParseTimes(u) /\ m1 = D!Sq!parseTime(m)
  OBVIOUS
<1>2. PICK b1, v1, n1 : b1 = D!Pg!ToTimes(b) /\ v1 = D!Pg!ToTimes(v) /\ n1 = D!Pg!tsTo(n)
  OBVIOUS
<1>3. a1 = D!Wholes(b1) /\ u1 = D!Wholes(v1) /\ m1 = D!Whole(n1)
  BY <1>1, <1>2 DEF TimesSame, TimeSame
<1>4. PICK r : r = PlainRow(k, a, u, m)
  OBVIOUS
<1>5. D!Sq!ParsedQuota(r) = PlainRow(k, a1, u1, m1)
  <2>1. /\ r.reset = a /\ r.until = u /\ r.synced = m
        /\ \A a2, u2, m2 : SetColumns(r, a2, u2, m2) = PlainRow(k, a2, u2, m2)
    BY <1>4, PlainRowSet
  <2>2. D!Sq!ParsedQuota(r) = SetColumns(r, a1, u1, m1)
    BY <1>1, <2>1, RowsAreSet
  <2> QED
    BY <2>1, <2>2
<1>6. PICK q : q = PlainRow(l, b, v, n)
  OBVIOUS
<1>7. D!Pg!QuotaTo(q) = PlainRow(l, b1, v1, n1)
  <2>1. /\ q.reset = b /\ q.until = v /\ q.synced = n
        /\ \A a2, u2, m2 : SetColumns(q, a2, u2, m2) = PlainRow(l, a2, u2, m2)
    BY <1>6, PlainRowSet
  <2>2. D!Pg!QuotaTo(q) = SetColumns(q, b1, v1, n1)
    BY <1>2, <2>1, RowsAreSet
  <2> QED
    BY <2>1, <2>2
<1>8. PICK k1, l1 : k1 = D!Sq!CredentialTo(k) /\ l1 = D!Pg!CredentialTo(l) /\ k1 = D!WholeCred(l1)
  BY DEF CredSame
<1>9. D!Sq!ListRowTo(r) = PlainRow(k1, a1, u1, m1)
  <2>1. PICK z : z = D!Sq!ParsedQuota(r)
    OBVIOUS
  <2>2. z.cred = k /\ \A w2 : SetRowCred(z, w2) = PlainRow(w2, a1, u1, m1)
    BY <1>5, <2>1, PlainRowSet
  <2>3. D!Sq!ListRowTo(r) = SetRowCred(z, D!Sq!CredentialTo(z.cred))
    BY <2>1, RowsAreSet
  <2> QED
    BY <1>8, <2>2, <2>3
<1>10. D!Pg!ListRowTo(q) = PlainRow(l1, b1, v1, n1)
  <2>1. PICK z : z = D!Pg!QuotaTo(q)
    OBVIOUS
  <2>2. z.cred = l /\ \A w2 : SetRowCred(z, w2) = PlainRow(w2, b1, v1, n1)
    BY <1>7, <2>1, PlainRowSet
  <2>3. D!Pg!ListRowTo(q) = SetRowCred(z, D!Pg!CredentialTo(z.cred))
    BY <2>1, RowsAreSet
  <2> QED
    BY <1>8, <2>2, <2>3
<1>11. PICK w : w = PlainRow(l1, b1, v1, n1)
  OBVIOUS
<1>12. D!WholeQuota(w) = PlainRow(l1, a1, u1, m1)
  <2>1. /\ w.reset = b1 /\ w.until = v1 /\ w.synced = n1
        /\ \A a2, u2, m2 : SetColumns(w, a2, u2, m2) = PlainRow(l1, a2, u2, m2)
    BY <1>11, PlainRowSet
  <2>2. D!WholeQuota(w) = SetColumns(w, a1, u1, m1)
    BY <1>3, <2>1, RowsAreSet
  <2> QED
    BY <2>1, <2>2
<1>13. D!WholeListed(w) = PlainRow(k1, a1, u1, m1)
  <2>1. PICK z : z = D!WholeQuota(w)
    OBVIOUS
  <2>2. z.cred = l1 /\ \A w2 : SetRowCred(z, w2) = PlainRow(w2, a1, u1, m1)
    BY <1>12, <2>1, PlainRowSet
  <2>3. D!WholeListed(w) = SetRowCred(z, D!WholeCred(z.cred))
    <3>1. w.cred = l1
      BY <1>11, PlainRowSet
    <3> QED
      BY <2>1, <3>1, RowsAreSet
  <2> QED
    BY <1>8, <2>2, <2>3
<1> QED
  BY <1>4, <1>6, <1>9, <1>10, <1>11, <1>13

LEMMA CreditRowSet ==
  ASSUME NEW a, NEW u, NEW m, NEW k, NEW x, NEW r, r = CreditRow(k, a, u, x, m)
  PROVE  /\ r.reset = a /\ r.until = u /\ r.synced = m
         /\ \A a1, u1, m1 : SetColumns(r, a1, u1, m1) = CreditRow(k, a1, u1, x, m1)
         /\ r.cred = k
         /\ \A k1 : SetRowCred(r, k1) = CreditRow(k1, a, u, x, m)
<1>1. ASSUME NEW a1, NEW u1, NEW m1 PROVE SetColumns(r, a1, u1, m1) = CreditRow(k, a1, u1, x, m1)
  <2>1. [CreditRow(k, a, u, x, m) EXCEPT !.reset = a1] = CreditRow(k, a1, u, x, m)
    BY DEF CreditRow
  <2>2. [CreditRow(k, a1, u, x, m) EXCEPT !.until = u1] = CreditRow(k, a1, u1, x, m)
    BY DEF CreditRow
  <2>3. [CreditRow(k, a1, u1, x, m) EXCEPT !.synced = m1] = CreditRow(k, a1, u1, x, m1)
    BY DEF CreditRow
  <2> QED
    BY <2>1, <2>2, <2>3, ColumnsSet
<1>2. r.reset = a /\ r.until = u /\ r.synced = m
  BY DEF CreditRow
<1>3. r.cred = k
  BY DEF CreditRow
<1>4. ASSUME NEW k1 PROVE SetRowCred(r, k1) = CreditRow(k1, a, u, x, m)
  BY DEF SetRowCred, CreditRow
<1> QED
  BY <1>1, <1>2, <1>3, <1>4

LEMMA CreditRowsSame ==
  ASSUME NEW a, NEW b, TimesSame(a, b), NEW u, NEW v, TimesSame(u, v), NEW m, NEW n, TimeSame(m, n),
         NEW k, NEW l, CredSame(k, l), NEW x
  PROVE  D!Sq!ListRowTo(CreditRow(k, a, u, x, m))
           = D!WholeListed(D!Pg!ListRowTo(CreditRow(l, b, v, x, n)))
<1>1. PICK a1, u1, m1 : a1 = D!Sq!ParseTimes(a) /\ u1 = D!Sq!ParseTimes(u) /\ m1 = D!Sq!parseTime(m)
  OBVIOUS
<1>2. PICK b1, v1, n1 : b1 = D!Pg!ToTimes(b) /\ v1 = D!Pg!ToTimes(v) /\ n1 = D!Pg!tsTo(n)
  OBVIOUS
<1>3. a1 = D!Wholes(b1) /\ u1 = D!Wholes(v1) /\ m1 = D!Whole(n1)
  BY <1>1, <1>2 DEF TimesSame, TimeSame
<1>4. PICK r : r = CreditRow(k, a, u, x, m)
  OBVIOUS
<1>5. D!Sq!ParsedQuota(r) = CreditRow(k, a1, u1, x, m1)
  <2>1. /\ r.reset = a /\ r.until = u /\ r.synced = m
        /\ \A a2, u2, m2 : SetColumns(r, a2, u2, m2) = CreditRow(k, a2, u2, x, m2)
    BY <1>4, CreditRowSet
  <2>2. D!Sq!ParsedQuota(r) = SetColumns(r, a1, u1, m1)
    BY <1>1, <2>1, RowsAreSet
  <2> QED
    BY <2>1, <2>2
<1>6. PICK q : q = CreditRow(l, b, v, x, n)
  OBVIOUS
<1>7. D!Pg!QuotaTo(q) = CreditRow(l, b1, v1, x, n1)
  <2>1. /\ q.reset = b /\ q.until = v /\ q.synced = n
        /\ \A a2, u2, m2 : SetColumns(q, a2, u2, m2) = CreditRow(l, a2, u2, x, m2)
    BY <1>6, CreditRowSet
  <2>2. D!Pg!QuotaTo(q) = SetColumns(q, b1, v1, n1)
    BY <1>2, <2>1, RowsAreSet
  <2> QED
    BY <2>1, <2>2
<1>8. PICK k1, l1 : k1 = D!Sq!CredentialTo(k) /\ l1 = D!Pg!CredentialTo(l) /\ k1 = D!WholeCred(l1)
  BY DEF CredSame
<1>9. D!Sq!ListRowTo(r) = CreditRow(k1, a1, u1, x, m1)
  <2>1. PICK z : z = D!Sq!ParsedQuota(r)
    OBVIOUS
  <2>2. z.cred = k /\ \A w2 : SetRowCred(z, w2) = CreditRow(w2, a1, u1, x, m1)
    BY <1>5, <2>1, CreditRowSet
  <2>3. D!Sq!ListRowTo(r) = SetRowCred(z, D!Sq!CredentialTo(z.cred))
    BY <2>1, RowsAreSet
  <2> QED
    BY <1>8, <2>2, <2>3
<1>10. D!Pg!ListRowTo(q) = CreditRow(l1, b1, v1, x, n1)
  <2>1. PICK z : z = D!Pg!QuotaTo(q)
    OBVIOUS
  <2>2. z.cred = l /\ \A w2 : SetRowCred(z, w2) = CreditRow(w2, b1, v1, x, n1)
    BY <1>7, <2>1, CreditRowSet
  <2>3. D!Pg!ListRowTo(q) = SetRowCred(z, D!Pg!CredentialTo(z.cred))
    BY <2>1, RowsAreSet
  <2> QED
    BY <1>8, <2>2, <2>3
<1>11. PICK w : w = CreditRow(l1, b1, v1, x, n1)
  OBVIOUS
<1>12. D!WholeQuota(w) = CreditRow(l1, a1, u1, x, m1)
  <2>1. /\ w.reset = b1 /\ w.until = v1 /\ w.synced = n1
        /\ \A a2, u2, m2 : SetColumns(w, a2, u2, m2) = CreditRow(l1, a2, u2, x, m2)
    BY <1>11, CreditRowSet
  <2>2. D!WholeQuota(w) = SetColumns(w, a1, u1, m1)
    BY <1>3, <2>1, RowsAreSet
  <2> QED
    BY <2>1, <2>2
<1>13. D!WholeListed(w) = CreditRow(k1, a1, u1, x, m1)
  <2>1. PICK z : z = D!WholeQuota(w)
    OBVIOUS
  <2>2. z.cred = l1 /\ \A w2 : SetRowCred(z, w2) = CreditRow(w2, a1, u1, x, m1)
    BY <1>12, <2>1, CreditRowSet
  <2>3. D!WholeListed(w) = SetRowCred(z, D!WholeCred(z.cred))
    <3>1. w.cred = l1
      BY <1>11, CreditRowSet
    <3> QED
      BY <2>1, <3>1, RowsAreSet
  <2> QED
    BY <1>8, <2>2, <2>3
<1> QED
  BY <1>4, <1>6, <1>9, <1>10, <1>11, <1>13

LEMMA OpenCodeRowSet ==
  ASSUME NEW a, NEW u, NEW m, NEW r, r = OpenCodeRow(a, u, m)
  PROVE  /\ r.reset = a /\ r.until = u /\ r.synced = m
         /\ \A a1, u1, m1 : SetColumns(r, a1, u1, m1) = OpenCodeRow(a1, u1, m1)
         /\ "throttled" \notin DOMAIN r
<1>1. ASSUME NEW a1, NEW u1, NEW m1 PROVE SetColumns(r, a1, u1, m1) = OpenCodeRow(a1, u1, m1)
  <2>1. [OpenCodeRow(a, u, m) EXCEPT !.reset = a1] = OpenCodeRow(a1, u, m)
    BY DEF OpenCodeRow
  <2>2. [OpenCodeRow(a1, u, m) EXCEPT !.until = u1] = OpenCodeRow(a1, u1, m)
    BY DEF OpenCodeRow
  <2>3. [OpenCodeRow(a1, u1, m) EXCEPT !.synced = m1] = OpenCodeRow(a1, u1, m1)
    BY DEF OpenCodeRow
  <2> QED
    BY <2>1, <2>2, <2>3, ColumnsSet
<1>2. r.reset = a /\ r.until = u /\ r.synced = m
  BY DEF OpenCodeRow
<1>3. "throttled" \notin DOMAIN r
  BY DEF OpenCodeRow
<1> QED
  BY <1>1, <1>2, <1>3

LEMMA OpenCodeRowsSame ==
  ASSUME NEW a, NEW b, TimesSame(a, b), NEW u, NEW v, TimesSame(u, v), NEW m, NEW n, TimeSame(m, n)
  PROVE  D!Sq!ParsedQuota(OpenCodeRow(a, u, m))
           = D!WholeAvailable(D!Pg!QuotaTo(OpenCodeRow(b, v, n)))
<1>1. PICK a1, u1, m1 : a1 = D!Sq!ParseTimes(a) /\ u1 = D!Sq!ParseTimes(u) /\ m1 = D!Sq!parseTime(m)
  OBVIOUS
<1>2. PICK b1, v1, n1 : b1 = D!Pg!ToTimes(b) /\ v1 = D!Pg!ToTimes(v) /\ n1 = D!Pg!tsTo(n)
  OBVIOUS
<1>3. a1 = D!Wholes(b1) /\ u1 = D!Wholes(v1) /\ m1 = D!Whole(n1)
  BY <1>1, <1>2 DEF TimesSame, TimeSame
<1>4. PICK r : r = OpenCodeRow(a, u, m)
  OBVIOUS
<1>5. D!Sq!ParsedQuota(r) = OpenCodeRow(a1, u1, m1)
  <2>1. /\ r.reset = a /\ r.until = u /\ r.synced = m
        /\ \A a2, u2, m2 : SetColumns(r, a2, u2, m2) = OpenCodeRow(a2, u2, m2)
    BY <1>4, OpenCodeRowSet
  <2>2. D!Sq!ParsedQuota(r) = SetColumns(r, a1, u1, m1)
    BY <1>1, <2>1, RowsAreSet
  <2> QED
    BY <2>1, <2>2
<1>6. PICK q : q = OpenCodeRow(b, v, n)
  OBVIOUS
<1>7. D!Pg!QuotaTo(q) = OpenCodeRow(b1, v1, n1)
  <2>1. /\ q.reset = b /\ q.until = v /\ q.synced = n
        /\ \A a2, u2, m2 : SetColumns(q, a2, u2, m2) = OpenCodeRow(a2, u2, m2)
    BY <1>6, OpenCodeRowSet
  <2>2. D!Pg!QuotaTo(q) = SetColumns(q, b1, v1, n1)
    BY <1>2, <2>1, RowsAreSet
  <2> QED
    BY <2>1, <2>2
<1>8. PICK w : w = OpenCodeRow(b1, v1, n1)
  OBVIOUS
<1>9. D!WholeQuota(w) = OpenCodeRow(a1, u1, m1) /\ "throttled" \notin DOMAIN w
  <2>1. /\ w.reset = b1 /\ w.until = v1 /\ w.synced = n1
        /\ \A a2, u2, m2 : SetColumns(w, a2, u2, m2) = OpenCodeRow(a2, u2, m2)
        /\ "throttled" \notin DOMAIN w
    BY <1>8, OpenCodeRowSet
  <2>2. D!WholeQuota(w) = SetColumns(w, a1, u1, m1)
    BY <1>3, <2>1, RowsAreSet
  <2> QED
    BY <2>1, <2>2
<1>10. D!WholeAvailable(w) = OpenCodeRow(a1, u1, m1)
  BY <1>9, RowsAreSet
<1> QED
  BY <1>4, <1>5, <1>6, <1>7, <1>8, <1>10

LEMMA CodexRowSet ==
  ASSUME NEW a, NEW u, NEW m, NEW p, NEW r, r = CodexRow(p, a, u, m)
  PROVE  /\ r.reset = a /\ r.until = u /\ r.synced = m
         /\ \A a1, u1, m1 : SetColumns(r, a1, u1, m1) = CodexRow(p, a1, u1, m1)
         /\ "throttled" \notin DOMAIN r
<1>1. ASSUME NEW a1, NEW u1, NEW m1 PROVE SetColumns(r, a1, u1, m1) = CodexRow(p, a1, u1, m1)
  <2>1. [CodexRow(p, a, u, m) EXCEPT !.reset = a1] = CodexRow(p, a1, u, m)
    BY DEF CodexRow
  <2>2. [CodexRow(p, a1, u, m) EXCEPT !.until = u1] = CodexRow(p, a1, u1, m)
    BY DEF CodexRow
  <2>3. [CodexRow(p, a1, u1, m) EXCEPT !.synced = m1] = CodexRow(p, a1, u1, m1)
    BY DEF CodexRow
  <2> QED
    BY <2>1, <2>2, <2>3, ColumnsSet
<1>2. r.reset = a /\ r.until = u /\ r.synced = m
  BY DEF CodexRow
<1>3. "throttled" \notin DOMAIN r
  BY DEF CodexRow
<1> QED
  BY <1>1, <1>2, <1>3

LEMMA CodexRowsSame ==
  ASSUME NEW a, NEW b, TimesSame(a, b), NEW u, NEW v, TimesSame(u, v), NEW m, NEW n,
       TimeSame(m, n), NEW p
  PROVE  D!Sq!ParsedQuota(CodexRow(p, a, u, m))
           = D!WholeAvailable(D!Pg!QuotaTo(CodexRow(p, b, v, n)))
<1>1. PICK a1, u1, m1 : a1 = D!Sq!ParseTimes(a) /\ u1 = D!Sq!ParseTimes(u) /\ m1 = D!Sq!parseTime(m)
  OBVIOUS
<1>2. PICK b1, v1, n1 : b1 = D!Pg!ToTimes(b) /\ v1 = D!Pg!ToTimes(v) /\ n1 = D!Pg!tsTo(n)
  OBVIOUS
<1>3. a1 = D!Wholes(b1) /\ u1 = D!Wholes(v1) /\ m1 = D!Whole(n1)
  BY <1>1, <1>2 DEF TimesSame, TimeSame
<1>4. PICK r : r = CodexRow(p, a, u, m)
  OBVIOUS
<1>5. D!Sq!ParsedQuota(r) = CodexRow(p, a1, u1, m1)
  <2>1. /\ r.reset = a /\ r.until = u /\ r.synced = m
        /\ \A a2, u2, m2 : SetColumns(r, a2, u2, m2) = CodexRow(p, a2, u2, m2)
    BY <1>4, CodexRowSet
  <2>2. D!Sq!ParsedQuota(r) = SetColumns(r, a1, u1, m1)
    BY <1>1, <2>1, RowsAreSet
  <2> QED
    BY <2>1, <2>2
<1>6. PICK q : q = CodexRow(p, b, v, n)
  OBVIOUS
<1>7. D!Pg!QuotaTo(q) = CodexRow(p, b1, v1, n1)
  <2>1. /\ q.reset = b /\ q.until = v /\ q.synced = n
        /\ \A a2, u2, m2 : SetColumns(q, a2, u2, m2) = CodexRow(p, a2, u2, m2)
    BY <1>6, CodexRowSet
  <2>2. D!Pg!QuotaTo(q) = SetColumns(q, b1, v1, n1)
    BY <1>2, <2>1, RowsAreSet
  <2> QED
    BY <2>1, <2>2
<1>8. PICK w : w = CodexRow(p, b1, v1, n1)
  OBVIOUS
<1>9. D!WholeQuota(w) = CodexRow(p, a1, u1, m1) /\ "throttled" \notin DOMAIN w
  <2>1. /\ w.reset = b1 /\ w.until = v1 /\ w.synced = n1
        /\ \A a2, u2, m2 : SetColumns(w, a2, u2, m2) = CodexRow(p, a2, u2, m2)
        /\ "throttled" \notin DOMAIN w
    BY <1>8, CodexRowSet
  <2>2. D!WholeQuota(w) = SetColumns(w, a1, u1, m1)
    BY <1>3, <2>1, RowsAreSet
  <2> QED
    BY <2>1, <2>2
<1>10. D!WholeAvailable(w) = CodexRow(p, a1, u1, m1)
  BY <1>9, RowsAreSet
<1> QED
  BY <1>4, <1>5, <1>6, <1>7, <1>8, <1>10

LEMMA GeminiRowSet ==
  ASSUME NEW a, NEW u, NEW m, NEW i, NEW p, NEW r, r = GeminiRow(p, a, u, i, m)
  PROVE  /\ r.reset = a /\ r.until = u /\ r.synced = m
         /\ \A a1, u1, m1 : SetColumns(r, a1, u1, m1) = GeminiRow(p, a1, u1, i, m1)
         /\ r.throttled = i /\ "throttled" \in DOMAIN r
         /\ \A i1 : SetThrottled(r, i1) = GeminiRow(p, a, u, i1, m)
<1>1. ASSUME NEW a1, NEW u1, NEW m1 PROVE SetColumns(r, a1, u1, m1) = GeminiRow(p, a1, u1, i, m1)
  <2>1. [GeminiRow(p, a, u, i, m) EXCEPT !.reset = a1] = GeminiRow(p, a1, u, i, m)
    BY DEF GeminiRow
  <2>2. [GeminiRow(p, a1, u, i, m) EXCEPT !.until = u1] = GeminiRow(p, a1, u1, i, m)
    BY DEF GeminiRow
  <2>3. [GeminiRow(p, a1, u1, i, m) EXCEPT !.synced = m1] = GeminiRow(p, a1, u1, i, m1)
    BY DEF GeminiRow
  <2> QED
    BY <2>1, <2>2, <2>3, ColumnsSet
<1>2. r.reset = a /\ r.until = u /\ r.synced = m
  BY DEF GeminiRow
<1>3. r.throttled = i /\ "throttled" \in DOMAIN r
  BY DEF GeminiRow
<1>4. ASSUME NEW i1 PROVE SetThrottled(r, i1) = GeminiRow(p, a, u, i1, m)
  BY DEF SetThrottled, GeminiRow
<1> QED
  BY <1>1, <1>2, <1>3, <1>4

LEMMA GeminiRowsSame ==
  ASSUME NEW a, NEW b, TimesSame(a, b), NEW u, NEW v, TimesSame(u, v), NEW m, NEW n, TimeSame(m, n),
         NEW i, NEW j, TimeSame(i, j), NEW p
  PROVE  D!Sq!AvailableRowTo(GeminiRow(p, a, u, i, m))
           = D!WholeAvailable(D!Pg!AvailableRowTo(GeminiRow(p, b, v, j, n)))
<1>1. PICK a1, u1, m1 : a1 = D!Sq!ParseTimes(a) /\ u1 = D!Sq!ParseTimes(u) /\ m1 = D!Sq!parseTime(m)
  OBVIOUS
<1>2. PICK b1, v1, n1 : b1 = D!Pg!ToTimes(b) /\ v1 = D!Pg!ToTimes(v) /\ n1 = D!Pg!tsTo(n)
  OBVIOUS
<1>3. a1 = D!Wholes(b1) /\ u1 = D!Wholes(v1) /\ m1 = D!Whole(n1)
  BY <1>1, <1>2 DEF TimesSame, TimeSame
<1>4. PICK r : r = GeminiRow(p, a, u, i, m)
  OBVIOUS
<1>5. D!Sq!ParsedQuota(r) = GeminiRow(p, a1, u1, i, m1)
  <2>1. /\ r.reset = a /\ r.until = u /\ r.synced = m
        /\ \A a2, u2, m2 : SetColumns(r, a2, u2, m2) = GeminiRow(p, a2, u2, i, m2)
    BY <1>4, GeminiRowSet
  <2>2. D!Sq!ParsedQuota(r) = SetColumns(r, a1, u1, m1)
    BY <1>1, <2>1, RowsAreSet
  <2> QED
    BY <2>1, <2>2
<1>6. PICK q : q = GeminiRow(p, b, v, j, n)
  OBVIOUS
<1>7. D!Pg!QuotaTo(q) = GeminiRow(p, b1, v1, j, n1)
  <2>1. /\ q.reset = b /\ q.until = v /\ q.synced = n
        /\ \A a2, u2, m2 : SetColumns(q, a2, u2, m2) = GeminiRow(p, a2, u2, j, m2)
    BY <1>6, GeminiRowSet
  <2>2. D!Pg!QuotaTo(q) = SetColumns(q, b1, v1, n1)
    BY <1>2, <2>1, RowsAreSet
  <2> QED
    BY <2>1, <2>2
<1>8. PICK i1, j1 : i1 = D!Sq!parseTime(i) /\ j1 = D!Pg!tsTo(j) /\ i1 = D!Whole(j1)
  BY DEF TimeSame
<1>9. D!Sq!AvailableRowTo(r) = GeminiRow(p, a1, u1, i1, m1)
  <2>1. PICK z : z = D!Sq!ParsedQuota(r)
    OBVIOUS
  <2>2. z.throttled = i /\ \A w2 : SetThrottled(z, w2) = GeminiRow(p, a1, u1, w2, m1)
    BY <1>5, <2>1, GeminiRowSet
  <2>3. D!Sq!AvailableRowTo(r) = SetThrottled(z, D!Sq!parseTime(z.throttled))
    BY <2>1, RowsAreSet
  <2> QED
    BY <1>8, <2>2, <2>3
<1>10. D!Pg!AvailableRowTo(q) = GeminiRow(p, b1, v1, j1, n1)
  <2>1. PICK z : z = D!Pg!QuotaTo(q)
    OBVIOUS
  <2>2. z.throttled = j /\ \A w2 : SetThrottled(z, w2) = GeminiRow(p, b1, v1, w2, n1)
    BY <1>7, <2>1, GeminiRowSet
  <2>3. D!Pg!AvailableRowTo(q) = SetThrottled(z, D!Pg!tsTo(z.throttled))
    BY <2>1, RowsAreSet
  <2> QED
    BY <1>8, <2>2, <2>3
<1>11. PICK w : w = GeminiRow(p, b1, v1, j1, n1)
  OBVIOUS
<1>12. D!WholeQuota(w) = GeminiRow(p, a1, u1, j1, m1)
  <2>1. /\ w.reset = b1 /\ w.until = v1 /\ w.synced = n1
        /\ \A a2, u2, m2 : SetColumns(w, a2, u2, m2) = GeminiRow(p, a2, u2, j1, m2)
    BY <1>11, GeminiRowSet
  <2>2. D!WholeQuota(w) = SetColumns(w, a1, u1, m1)
    BY <1>3, <2>1, RowsAreSet
  <2> QED
    BY <2>1, <2>2
<1>13. D!WholeAvailable(w) = GeminiRow(p, a1, u1, i1, m1)
  <2>1. PICK z : z = D!WholeQuota(w)
    OBVIOUS
  <2>2. z.throttled = j1 /\ \A w2 : SetThrottled(z, w2) = GeminiRow(p, a1, u1, w2, m1)
    BY <1>12, <2>1, GeminiRowSet
  <2>3. D!WholeAvailable(w) = SetThrottled(z, D!Whole(z.throttled))
    <3>1. w.throttled = j1 /\ "throttled" \in DOMAIN w
      BY <1>11, GeminiRowSet
    <3> QED
      BY <2>1, <3>1, RowsAreSet
  <2> QED
    BY <1>8, <2>2, <2>3
<1> QED
  BY <1>4, <1>6, <1>9, <1>10, <1>11, <1>13

LEMMA AntigravityRowSet ==
  ASSUME NEW a, NEW u, NEW m, NEW i, NEW p, NEW x, NEW r, r = AntigravityRow(p, a, x, u, i, m)
  PROVE  /\ r.reset = a /\ r.until = u /\ r.synced = m
         /\ \A a1, u1, m1 : SetColumns(r, a1, u1, m1) = AntigravityRow(p, a1, x, u1, i, m1)
         /\ r.throttled = i /\ "throttled" \in DOMAIN r
         /\ \A i1 : SetThrottled(r, i1) = AntigravityRow(p, a, x, u, i1, m)
<1>1. ASSUME NEW a1, NEW u1, NEW m1 PROVE SetColumns(r, a1, u1, m1) =
      AntigravityRow(p, a1, x, u1, i, m1)
  <2>1. [AntigravityRow(p, a, x, u, i, m) EXCEPT !.reset = a1] = AntigravityRow(p, a1, x, u, i, m)
    BY DEF AntigravityRow
  <2>2. [AntigravityRow(p, a1, x, u, i, m) EXCEPT !.until = u1] = AntigravityRow(p, a1, x, u1, i, m)
    BY DEF AntigravityRow
  <2>3. [AntigravityRow(p, a1, x, u1, i, m) EXCEPT !.synced = m1] =
        AntigravityRow(p, a1, x, u1, i, m1)
    BY DEF AntigravityRow
  <2> QED
    BY <2>1, <2>2, <2>3, ColumnsSet
<1>2. r.reset = a /\ r.until = u /\ r.synced = m
  BY DEF AntigravityRow
<1>3. r.throttled = i /\ "throttled" \in DOMAIN r
  BY DEF AntigravityRow
<1>4. ASSUME NEW i1 PROVE SetThrottled(r, i1) = AntigravityRow(p, a, x, u, i1, m)
  BY DEF SetThrottled, AntigravityRow
<1> QED
  BY <1>1, <1>2, <1>3, <1>4

LEMMA AntigravityRowsSame ==
  ASSUME NEW a, NEW b, TimesSame(a, b), NEW u, NEW v, TimesSame(u, v), NEW m, NEW n, TimeSame(m, n),
         NEW i, NEW j, TimeSame(i, j), NEW p, NEW x
  PROVE  D!Sq!AvailableRowTo(AntigravityRow(p, a, x, u, i, m))
           = D!WholeAvailable(D!Pg!AvailableRowTo(AntigravityRow(p, b, x, v, j, n)))
<1>1. PICK a1, u1, m1 : a1 = D!Sq!ParseTimes(a) /\ u1 = D!Sq!ParseTimes(u) /\ m1 = D!Sq!parseTime(m)
  OBVIOUS
<1>2. PICK b1, v1, n1 : b1 = D!Pg!ToTimes(b) /\ v1 = D!Pg!ToTimes(v) /\ n1 = D!Pg!tsTo(n)
  OBVIOUS
<1>3. a1 = D!Wholes(b1) /\ u1 = D!Wholes(v1) /\ m1 = D!Whole(n1)
  BY <1>1, <1>2 DEF TimesSame, TimeSame
<1>4. PICK r : r = AntigravityRow(p, a, x, u, i, m)
  OBVIOUS
<1>5. D!Sq!ParsedQuota(r) = AntigravityRow(p, a1, x, u1, i, m1)
  <2>1. /\ r.reset = a /\ r.until = u /\ r.synced = m
        /\ \A a2, u2, m2 : SetColumns(r, a2, u2, m2) = AntigravityRow(p, a2, x, u2, i, m2)
    BY <1>4, AntigravityRowSet
  <2>2. D!Sq!ParsedQuota(r) = SetColumns(r, a1, u1, m1)
    BY <1>1, <2>1, RowsAreSet
  <2> QED
    BY <2>1, <2>2
<1>6. PICK q : q = AntigravityRow(p, b, x, v, j, n)
  OBVIOUS
<1>7. D!Pg!QuotaTo(q) = AntigravityRow(p, b1, x, v1, j, n1)
  <2>1. /\ q.reset = b /\ q.until = v /\ q.synced = n
        /\ \A a2, u2, m2 : SetColumns(q, a2, u2, m2) = AntigravityRow(p, a2, x, u2, j, m2)
    BY <1>6, AntigravityRowSet
  <2>2. D!Pg!QuotaTo(q) = SetColumns(q, b1, v1, n1)
    BY <1>2, <2>1, RowsAreSet
  <2> QED
    BY <2>1, <2>2
<1>8. PICK i1, j1 : i1 = D!Sq!parseTime(i) /\ j1 = D!Pg!tsTo(j) /\ i1 = D!Whole(j1)
  BY DEF TimeSame
<1>9. D!Sq!AvailableRowTo(r) = AntigravityRow(p, a1, x, u1, i1, m1)
  <2>1. PICK z : z = D!Sq!ParsedQuota(r)
    OBVIOUS
  <2>2. z.throttled = i /\ \A w2 : SetThrottled(z, w2) = AntigravityRow(p, a1, x, u1, w2, m1)
    BY <1>5, <2>1, AntigravityRowSet
  <2>3. D!Sq!AvailableRowTo(r) = SetThrottled(z, D!Sq!parseTime(z.throttled))
    BY <2>1, RowsAreSet
  <2> QED
    BY <1>8, <2>2, <2>3
<1>10. D!Pg!AvailableRowTo(q) = AntigravityRow(p, b1, x, v1, j1, n1)
  <2>1. PICK z : z = D!Pg!QuotaTo(q)
    OBVIOUS
  <2>2. z.throttled = j /\ \A w2 : SetThrottled(z, w2) = AntigravityRow(p, b1, x, v1, w2, n1)
    BY <1>7, <2>1, AntigravityRowSet
  <2>3. D!Pg!AvailableRowTo(q) = SetThrottled(z, D!Pg!tsTo(z.throttled))
    BY <2>1, RowsAreSet
  <2> QED
    BY <1>8, <2>2, <2>3
<1>11. PICK w : w = AntigravityRow(p, b1, x, v1, j1, n1)
  OBVIOUS
<1>12. D!WholeQuota(w) = AntigravityRow(p, a1, x, u1, j1, m1)
  <2>1. /\ w.reset = b1 /\ w.until = v1 /\ w.synced = n1
        /\ \A a2, u2, m2 : SetColumns(w, a2, u2, m2) = AntigravityRow(p, a2, x, u2, j1, m2)
    BY <1>11, AntigravityRowSet
  <2>2. D!WholeQuota(w) = SetColumns(w, a1, u1, m1)
    BY <1>3, <2>1, RowsAreSet
  <2> QED
    BY <2>1, <2>2
<1>13. D!WholeAvailable(w) = AntigravityRow(p, a1, x, u1, i1, m1)
  <2>1. PICK z : z = D!WholeQuota(w)
    OBVIOUS
  <2>2. z.throttled = j1 /\ \A w2 : SetThrottled(z, w2) = AntigravityRow(p, a1, x, u1, w2, m1)
    BY <1>12, <2>1, AntigravityRowSet
  <2>3. D!WholeAvailable(w) = SetThrottled(z, D!Whole(z.throttled))
    <3>1. w.throttled = j1 /\ "throttled" \in DOMAIN w
      BY <1>11, AntigravityRowSet
    <3> QED
      BY <2>1, <3>1, RowsAreSet
  <2> QED
    BY <1>8, <2>2, <2>3
<1> QED
  BY <1>4, <1>6, <1>9, <1>10, <1>11, <1>13

-----------------------------------------------------------------------------
(* The times of the rows *)

LEMMA ResetsSame ==
  ASSUME Known, handler = "antigravity", NEW q, NEW r, JoinAgree(q, r)
  PROVE  TimesSame(D!Sq!Q!Resets(q.reset, time), D!Pg!Q!Resets(r.reset, D!EndOfSecond))
<1>1. PICK m, n : m = D!Sq!Q!Now(time) /\ n = D!Pg!Q!Now(D!EndOfSecond)
  OBVIOUS
<1>2. m \in Int /\ n \in Int
  BY <1>1, EndOfSecondIs
<1>3. \A t \in D!AntigravityTiers : Join(q.reset[t], r.reset[t])
  BY ShapesAre DEF JoinAgree, JoinReset, Windows
<1>4. \A t \in D!AntigravityTiers : SameTime(q.reset[t], r.reset[t], m, n)
                                    /\ SameTime(q.reset[t], r.reset[t], m + 100, n + 100)
  BY <1>1, <1>3, TimesTold DEF D!Century
<1>5. PICK x : x = [t \in D!AntigravityTiers |-> IF t = "tab" THEN m + 100 ELSE m]
  OBVIOUS
<1>6. PICK y : y = [t \in D!AntigravityTiers |-> IF t = "tab" THEN n + 100 ELSE n]
  OBVIOUS
<1>7. \A t \in D!AntigravityTiers : SameTime(q.reset[t], r.reset[t], x[t], y[t])
  BY <1>4, <1>5, <1>6
<1>8. PICK a : a = [t \in D!AntigravityTiers |-> D!Coalesce(q.reset[t], x[t])]
  OBVIOUS
<1>9. PICK b : b = [t \in D!AntigravityTiers |-> D!Coalesce(r.reset[t], y[t])]
  OBVIOUS
<1>10. D!Sq!Q!Resets(q.reset, time) = a
  <2>1. \A t : D!Sq!Q!Now(time) + (IF t = "tab" THEN D!Sq!Q!Century ELSE 0)
                 = (IF t = "tab" THEN m + 100 ELSE m)
    BY <1>1, <1>2 DEF D!Sq!Q!Century
  <2>2. D!Sq!Q!AntigravityTiers = D!AntigravityTiers
    BY DEF D!Sq!Q!AntigravityTiers, D!AntigravityTiers
  <2>3. D!Sq!Q!Resets(q.reset, time)
          = [t \in D!Sq!Q!AntigravityTiers |->
               D!Sq!Q!Coalesce(q.reset[t], D!Sq!Q!Now(time) +
                    (IF t = "tab" THEN D!Sq!Q!Century ELSE 0))]
    BY DEF D!Sq!Q!Resets
  <2>4. \A v, w : D!Sq!Q!Coalesce(v, w) = D!Coalesce(v, w)
    BY DEF D!Sq!Q!Coalesce, D!Coalesce, D!Sq!Q!Null, D!Null
  <2> QED
    BY <1>5, <1>8, <2>1, <2>2, <2>3, <2>4
<1>11. D!Pg!Q!Resets(r.reset, D!EndOfSecond) = b
  <2>1. \A t : D!Pg!Q!Now(D!EndOfSecond) + (IF t = "tab" THEN D!Pg!Q!Century ELSE 0)
                 = (IF t = "tab" THEN n + 100 ELSE n)
    BY <1>1, <1>2 DEF D!Pg!Q!Century
  <2>2. D!Pg!Q!AntigravityTiers = D!AntigravityTiers
    BY DEF D!Pg!Q!AntigravityTiers, D!AntigravityTiers
  <2>3. D!Pg!Q!Resets(r.reset, D!EndOfSecond)
          = [t \in D!Pg!Q!AntigravityTiers |->
               D!Pg!Q!Coalesce(r.reset[t], D!Pg!Q!Now(D!EndOfSecond) +
                    (IF t = "tab" THEN D!Pg!Q!Century ELSE 0))]
    BY DEF D!Pg!Q!Resets
  <2>4. \A v, w : D!Pg!Q!Coalesce(v, w) = D!Coalesce(v, w)
    BY DEF D!Pg!Q!Coalesce, D!Coalesce, D!Pg!Q!Null, D!Null
  <2> QED
    BY <1>6, <1>9, <2>1, <2>2, <2>3, <2>4
<1>12. D!Sq!ParseTimes(a) = [t \in D!AntigravityTiers |-> D!Sq!parseTime(D!Coalesce(q.reset[t],
       x[t]))]
  BY <1>8 DEF D!Sq!ParseTimes
<1>13. D!Wholes(D!Pg!ToTimes(b))
         = [t \in D!AntigravityTiers |-> D!Whole(D!Pg!tsTo(D!Coalesce(r.reset[t], y[t])))]
  BY <1>9 DEF D!Wholes, D!Pg!ToTimes
<1> QED
  BY <1>7, <1>10, <1>11, <1>12, <1>13 DEF TimesSame, SameTime

-----------------------------------------------------------------------------
(* The latest and the first of some times *)

LEMMA LargestInt ==
  ASSUME NEW X, X \subseteq Int, X # {}, NEW b \in Int, \A x \in X : x <= b
  PROVE  \E x \in X : \A y \in X : x >= y
<1>1. PICK Y : Y = {b - x : x \in X}
  OBVIOUS
<1>2. Y \subseteq Nat /\ Y # {}
  <2>1. \A x \in X : b - x \in Nat
    <3> TAKE x \in X
    <3>1. x \in Int /\ x <= b
      OBVIOUS
    <3> QED
      BY <3>1
  <2>2. PICK z : z \in X
    OBVIOUS
  <2> QED
    BY <1>1, <2>1, <2>2
<1>3. PICK d \in Y : \A y \in Y : d <= y
  BY <1>2, LeastNat
<1>4. PICK x \in X : d = b - x
  BY <1>1, <1>3
<1>5. \A y \in X : x >= y
  <2> TAKE y \in X
  <2>1. b - y \in Y
    BY <1>1
  <2>2. b - x <= b - y
    BY <1>3, <1>4, <2>1
  <2> QED
    BY <2>2
<1> QED
  BY <1>5

\* The largest, and the least, of X.
Largest(X) == CHOOSE x \in X : \A y \in X : x >= y
Least(X)   == CHOOSE x \in X : \A y \in X : x =< y

LEMMA LargestIs ==
  ASSUME NEW X, X \subseteq Int, NEW x \in X, \A y \in X : x >= y
  PROVE  Largest(X) = x
<1>1. Largest(X) \in X /\ \A y \in X : Largest(X) >= y
  BY DEF Largest
<1>2. Largest(X) >= x /\ x >= Largest(X) /\ Largest(X) \in Int /\ x \in Int
  BY <1>1
<1> QED
  BY <1>2

LEMMA LeastIs ==
  ASSUME NEW X, X \subseteq Int, NEW x \in X, \A y \in X : x <= y
  PROVE  Least(X) = x
<1>1. Least(X) \in X /\ \A y \in X : Least(X) <= y
  BY DEF Least
<1>2. Least(X) >= x /\ x >= Least(X) /\ Least(X) \in Int /\ x \in Int
  BY <1>1
<1> QED
  BY <1>2

LEMMA WholeGrows ==
  ASSUME NEW v \in Int, NEW w \in Int, v <= w
  PROVE  D!Whole(v) <= D!Whole(w) /\ D!Whole(v) \in Int
BY DEF D!Whole, D!PerSecond

Image(f) == {f[t] : t \in DOMAIN f}

LEMMA LargestSame ==
  ASSUME Known, NEW X, NEW f, NEW g, DOMAIN f = X, DOMAIN g = X, \A t \in X : Hard(f[t], g[t]),
         NEW b \in Int, \A t \in X : g[t] <= b, X # {}
  PROVE  TimeSame(Largest(Image(f)), Largest(Image(g)))
<1>1. Image(g) \subseteq Int /\ Image(g) # {} /\ \A y \in Image(g) : y <= b
  BY DEF Image, Hard
<1>2. PICK w \in Image(g) : \A y \in Image(g) : w >= y
  BY <1>1, LargestInt
<1>3. PICK t \in X : w = g[t]
  BY DEF Image
<1>4. \A n \in X : f[n] <= f[t] /\ f[n] \in Int
  <2> TAKE n \in X
  <2>1. g[n] \in Int /\ g[t] \in Int /\ g[n] <= g[t] /\ f[n] = D!Whole(g[n]) /\ f[t] = D!Whole(g[t])
    BY <1>2, <1>3 DEF Hard, Image
  <2> QED
    BY <2>1, WholeGrows
<1>5. Image(f) \subseteq Int /\ f[t] \in Image(f) /\ \A y \in Image(f) : f[t] >= y
  BY <1>4 DEF Image
<1>6. Largest(Image(f)) = f[t] /\ Largest(Image(g)) = g[t]
  BY <1>1, <1>2, <1>3, <1>5, LargestIs
<1>7. Hard(f[t], g[t])
  OBVIOUS
<1> QED
  BY <1>6, <1>7, TimesTold DEF TimeSame

LEMMA NowHard ==
  ASSUME Known
  PROVE  Hard(D!Sq!Q!Now(time), D!Pg!Q!Now(D!EndOfSecond))
BY EndOfSecondIs DEF Hard

LEMMA ThrottledSame ==
  ASSUME Known, NEW q, NEW r, JoinAgree(q, r), handler \in {"gemini", "antigravity"}, NEW x, NEW y,
       Hard(x, y)
  PROVE  TimeSame(D!Sq!Q!Max(D!Sq!Q!Range(D!Columns(q.until, D!Tiers, x))),
                  D!Pg!Q!Max(D!Pg!Q!Range(D!Columns(r.until, D!Tiers, y))))
<1>1. PICK f : f = D!Columns(q.until, D!Tiers, x)
  OBVIOUS
<1>2. PICK g : g = D!Columns(r.until, D!Tiers, y)
  OBVIOUS
<1>3. DOMAIN f = D!Tiers /\ DOMAIN g = D!Tiers
  BY <1>1, <1>2 DEF D!Columns
<1>4. \A t \in D!Tiers : Hard(f[t], g[t])
  <2> TAKE t \in D!Tiers
  <2>1. Join(q.until[t], r.until[t])
    BY DEF JoinAgree
  <2>2. f[t] = D!Coalesce(q.until[t], x) /\ g[t] = D!Coalesce(r.until[t], y)
    BY <1>1, <1>2 DEF D!Columns
  <2>3. CASE q.until[t] = D!Null /\ r.until[t] = D!Null
    BY <2>2, <2>3 DEF D!Coalesce
  <2>4. CASE Hard(q.until[t], r.until[t])
    <3>1. q.until[t] # D!Null /\ r.until[t] # D!Null
      BY <2>4, WholeIs DEF Hard, D!Null
    <3> QED
      BY <2>2, <2>4, <3>1 DEF D!Coalesce
  <2> QED
    BY <2>1, <2>3, <2>4 DEF Join
<1>5. \A t \in D!Tiers : g[t] \in Int /\ g[t] >= 0
  BY <1>4 DEF Hard
<1>6. \E b \in Int : \A t \in D!Tiers : g[t] <= b
  <2>1. CASE handler = "gemini"
    <3>1. D!Tiers = {"pro", "flash", "flashlite"}
      BY <2>1 DEF D!Tiers, D!GeminiTiers
    <3>2. g["pro"] \in Nat /\ g["flash"] \in Nat /\ g["flashlite"] \in Nat
      BY <1>5, <3>1
    <3>3. \A t \in D!Tiers : g[t] <= g["pro"] + g["flash"] + g["flashlite"]
      BY <3>1, <3>2
    <3> QED
      BY <3>2, <3>3
  <2>2. CASE handler = "antigravity"
    <3>1. D!Tiers = {"claude", "pro", "flash", "flashlite", "tab", "image"}
      BY <2>2 DEF D!Tiers, D!AntigravityTiers
    <3>2. /\ g["claude"] \in Nat /\ g["pro"] \in Nat /\ g["flash"] \in Nat
          /\ g["flashlite"] \in Nat /\ g["tab"] \in Nat /\ g["image"] \in Nat
      BY <1>5, <3>1
    <3>3. \A t \in D!Tiers :
            g[t] <= g["claude"] + g["pro"] + g["flash"] + g["flashlite"] + g["tab"] + g["image"]
      BY <3>1, <3>2
    <3> QED
      BY <3>2, <3>3
  <2> QED
    BY <2>1, <2>2
<1>7. PICK b \in Int : \A t \in D!Tiers : g[t] <= b
  BY <1>6
<1>8. "pro" \in D!Tiers
  BY DEF D!Tiers, D!AntigravityTiers, D!GeminiTiers
<1>9. TimeSame(Largest(Image(f)), Largest(Image(g)))
  BY <1>3, <1>4, <1>7, <1>8, LargestSame
<1>10. D!Sq!Q!Max(D!Sq!Q!Range(f)) = Largest(Image(f))
  BY DEF D!Sq!Q!Max, D!Sq!Q!Range, Largest, Image
<1>11. D!Pg!Q!Max(D!Pg!Q!Range(g)) = Largest(Image(g))
  BY DEF D!Pg!Q!Max, D!Pg!Q!Range, Largest, Image
<1> QED
  BY <1>1, <1>2, <1>9, <1>10, <1>11

-----------------------------------------------------------------------------
(* The same credentials *)

\* The definitions of the tables that the queries of both databases are given.
LEMMA QueriesShare ==
  /\ \A v, w : D!Sq!Q!Coalesce(v, w) = D!Coalesce(v, w) /\ D!Pg!Q!Coalesce(v, w) = D!Coalesce(v, w)
  /\ \A f, X, v : D!Sq!Q!Columns(f, X, v) = D!Columns(f, X, v)
                  /\ D!Pg!Q!Columns(f, X, v) = D!Columns(f, X, v)
  /\ \A d, x : D!Sq!Q!LeftJoin(d, x) = D!LeftJoin(d, x) /\ D!Pg!Q!LeftJoin(d, x) = D!LeftJoin(d, x)
  /\ D!Sq!Q!Null = D!Null /\ D!Pg!Q!Null = D!Null
<1>1. \A v, w : D!Sq!Q!Coalesce(v, w) = D!Coalesce(v, w) /\ D!Pg!Q!Coalesce(v, w) = D!Coalesce(v, w)
  BY DEF D!Sq!Q!Coalesce, D!Pg!Q!Coalesce, D!Coalesce, D!Sq!Q!Null, D!Pg!Q!Null, D!Null
<1>2. \A f, X, v : D!Sq!Q!Columns(f, X, v) = D!Columns(f, X, v)
                   /\ D!Pg!Q!Columns(f, X, v) = D!Columns(f, X, v)
  BY <1>1 DEF D!Sq!Q!Columns, D!Pg!Q!Columns, D!Columns
<1>3. D!Sq!Q!NoQuota = D!NoQuota /\ D!Pg!Q!NoQuota = D!NoQuota
  BY DEF D!Sq!Q!NoQuota, D!Pg!Q!NoQuota, D!NoQuota, D!Sq!Q!Null, D!Pg!Q!Null, D!Null,
         D!Sq!Q!Every, D!Pg!Q!Every, D!Every, D!Sq!Q!AntigravityTiers, D!Pg!Q!AntigravityTiers,
         D!AntigravityTiers, D!Sq!Q!CodexTiers, D!Pg!Q!CodexTiers, D!CodexTiers,
         D!Sq!Q!CodexWindows, D!Pg!Q!CodexWindows, D!CodexWindows
<1>4. \A d, x : D!Sq!Q!LeftJoin(d, x) = D!LeftJoin(d, x) /\ D!Pg!Q!LeftJoin(d, x) = D!LeftJoin(d, x)
  BY <1>3 DEF D!Sq!Q!LeftJoin, D!Pg!Q!LeftJoin, D!LeftJoin, D!Sq!Q!QuotaOr, D!Pg!Q!QuotaOr,
     D!QuotaOr
<1>5. D!Sq!Q!Null = D!Null /\ D!Pg!Q!Null = D!Null
  BY DEF D!Sq!Q!Null, D!Pg!Q!Null, D!Null
<1> QED
  BY <1>1, <1>2, <1>4, <1>5

\* A time is ahead in one as in the other.
LEMMA AheadSame ==
  ASSUME Known
  PROVE  /\ \A v, w : Join(v, w) => (v > D!Sq!Q!Now(time) <=> w > D!Pg!Q!Now(D!EndOfSecond))
         /\ \A v, w : Hard(v, w) => (v > D!Sq!Q!Now(time) <=> w > D!Pg!Q!Now(D!EndOfSecond))
<1>1. PICK m, n : m = D!Sq!Q!Now(time) /\ n = D!Pg!Q!Now(D!EndOfSecond) /\ m = D!Whole(time)
  BY EndOfSecondIs
<1>2. m \in Int /\ n \in Int /\ n = m + 1 /\ m >= 2 /\ m % 2 = 0
  <2>1. m \in Int /\ n \in Int /\ n = m + 1 /\ m >= 2 /\ time \in Int
    BY <1>1, EndOfSecondIs DEF Known
  <2>2. m = time - (time % 2)
    BY <1>1 DEF D!Whole, D!PerSecond
  <2> QED
    BY <2>1, <2>2
<1>3. \A v, w : Hard(v, w) => (v > m <=> w > n)
  <2> SUFFICES ASSUME NEW v, NEW w, Hard(v, w) PROVE v > m <=> w > n
    OBVIOUS
  <2>1. w \in Int /\ w >= 2 /\ v = w - (w % 2)
    BY DEF Hard, D!Whole, D!PerSecond
  <2>2. w % 2 \in 0 .. 1 /\ v \in Int /\ v % 2 = 0
    BY <2>1
  <2> QED
    BY <1>2, <2>1, <2>2
<1>4. ~(D!Null > m) /\ ~(D!Null > n)
  BY <1>2 DEF D!Null
<1>5. \A v, w : Join(v, w) => (v > m <=> w > n)
  BY <1>3, <1>4 DEF Join
<1> QED
  BY <1>1, <1>3, <1>5

\* Without a filter by plan for OpenCode, that has none.
PlanFits(f) == handler = "opencode" => f.plan = ""

LEMMA MatchesSame ==
  ASSUME Known, NEW s, NEW p, Good(s), Good(p), NEW c, c \in DOMAIN s.cred, RelAt(s, p, c),
         NEW f, PlanFits(f)
  PROVE  D!Sq!Q!Matches(s, c, f, D!Tiers, time) <=> D!Pg!Q!Matches(p, c, f, D!Tiers, D!EndOfSecond)
<1>1. PICK q : q = D!LeftJoin(s, c)
  OBVIOUS
<1>2. PICK r : r = D!LeftJoin(p, c)
  OBVIOUS
<1>3. JoinAgree(q, r)
  BY <1>1, <1>2, LeftJoinAgree
<1>4. PICK k, l : k = s.cred[c] /\ l = p.cred[c] /\ CredAgree(k, l)
  BY DEF RelAt
<1>5. PICK X : X = {t \in D!Tiers : q.until[t] > D!Sq!Q!Now(time)}
  OBVIOUS
<1>6. X = {t \in D!Tiers : r.until[t] > D!Pg!Q!Now(D!EndOfSecond)}
  <2>1. \A t \in D!Tiers : q.until[t] > D!Sq!Q!Now(time) <=> r.until[t] > D!Pg!Q!Now(D!EndOfSecond)
    BY <1>3, AheadSame DEF JoinAgree
  <2> QED
    BY <1>5, <2>1
<1>7. q.synced \in {D!Null, D!Sq!Q!Blank} <=> (r.synced = D!Null \/ r.synced <= D!Pg!Q!YearOne)
  <2>1. Join(q.synced, r.synced)
    BY <1>3 DEF JoinAgree
  <2>2. \A v, w : Hard(v, w) => v # D!Null /\ v # D!Sq!Q!Blank /\ w # D!Null /\
        ~(w <= D!Pg!Q!YearOne)
    BY WholeIs DEF Hard, D!Null, D!Sq!Q!Blank, D!Pg!Q!YearOne, D!Pg!Q!ZeroTime
  <2> QED
    BY <2>1, <2>2 DEF Join
<1>8. f.plan # "" => (k.plan = f.plan <=> l.plan = f.plan)
  BY <1>4 DEF CredAgree, PlanFits
<1>9. k.status = l.status
  BY <1>4 DEF CredAgree
<1>10. D!Sq!Q!Matches(s, c, f, D!Tiers, time) <=>
         /\ \A x \in f.statuses \cap {"enabled", "disabled"} : k.status = x
         /\ "all" \in f.statuses => X # {}
         /\ f.statuses \cap D!Tiers \subseteq X
         /\ f.plan # "" => k.plan = f.plan
         /\ f.unsynced => q.synced \in {D!Null, D!Sq!Q!Blank}
  BY <1>1, <1>4, <1>5, QueriesShare DEF D!Sq!Q!Matches
<1>11. D!Pg!Q!Matches(p, c, f, D!Tiers, D!EndOfSecond) <=>
         /\ \A x \in f.statuses \cap {"enabled", "disabled"} : l.status = x
         /\ "all" \in f.statuses => X # {}
         /\ f.statuses \cap D!Tiers \subseteq X
         /\ f.plan # "" => l.plan = f.plan
         /\ f.unsynced => (r.synced = D!Null \/ r.synced <= D!Pg!Q!YearOne)
  BY <1>2, <1>4, <1>6, QueriesShare DEF D!Pg!Q!Matches
<1> QED
  BY <1>7, <1>8, <1>9, <1>10, <1>11

\* The same ids, but for those that PostgreSQL refused.
SameIds(X, Y) == X \subseteq Ids /\ Y \subseteq Ids /\ \A c \in Ids \ refused : c \in X <=> c \in Y

LEMMA SameIdsAre ==
  ASSUME NEW X, NEW Y, SameIds(X, Y)
  PROVE  X \ refused = Y \ refused /\ (refused = {} => X = Y)
BY DEF SameIds

LEMMA CredsSame ==
  ASSUME StoresInv
  PROVE  SameIds(DOMAIN sqlite.cred, DOMAIN postgres.cred)
BY DEF StoresInv, SameIds, RelAt, Good, RowsOf

LEMMA MatchingSame ==
  ASSUME StoresInv, NEW f, PlanFits(f)
  PROVE  SameIds(D!Sq!Q!Matching(sqlite, f, D!Tiers, time),
                 D!Pg!Q!Matching(postgres, f, D!Tiers, D!EndOfSecond))
<1>1. Known /\ Good(sqlite) /\ Good(postgres)
  BY StoresKnown DEF StoresInv
<1>2. \A c \in Ids \ refused : RelAt(sqlite, postgres, c)
  BY DEF StoresInv
<1>3. D!Sq!Q!Matching(sqlite, f, D!Tiers, time)
        = {c \in DOMAIN sqlite.cred : D!Sq!Q!Matches(sqlite, c, f, D!Tiers, time)}
  BY DEF D!Sq!Q!Matching
<1>4. D!Pg!Q!Matching(postgres, f, D!Tiers, D!EndOfSecond)
        = {c \in DOMAIN postgres.cred : D!Pg!Q!Matches(postgres, c, f, D!Tiers, D!EndOfSecond)}
  BY DEF D!Pg!Q!Matching
<1>5. \A c \in Ids \ refused : c \in DOMAIN sqlite.cred =>
        (D!Sq!Q!Matches(sqlite, c, f, D!Tiers, time)
           <=> D!Pg!Q!Matches(postgres, c, f, D!Tiers, D!EndOfSecond))
  BY <1>1, <1>2, MatchesSame
<1>6. SameIds(DOMAIN sqlite.cred, DOMAIN postgres.cred)
  BY CredsSame
<1> QED
  BY <1>3, <1>4, <1>5, <1>6 DEF SameIds

LEMMA EnabledSame ==
  ASSUME StoresInv
  PROVE  SameIds(D!Sq!Q!Enabled(sqlite), D!Pg!Q!Enabled(postgres))
<1>1. \A c \in Ids \ refused : c \in DOMAIN sqlite.cred => sqlite.cred[c].status =
      postgres.cred[c].status
  BY DEF StoresInv, RelAt, CredAgree
<1>2. SameIds(DOMAIN sqlite.cred, DOMAIN postgres.cred)
  BY CredsSame
<1> QED
  BY <1>1, <1>2 DEF SameIds, D!Sq!Q!Enabled, D!Pg!Q!Enabled

LEMMA UsableSame ==
  ASSUME StoresInv, handler # "opencode"
  PROVE  SameIds(D!Sq!Q!Usable(sqlite, time), D!Pg!Q!Usable(postgres, D!EndOfSecond))
<1>1. Known
  BY StoresKnown
<1>2. "expired" \in CredTimes
  BY DEF CredTimes
<1>3. \A c \in Ids \ refused : c \in DOMAIN sqlite.cred =>
        /\ sqlite.cred[c].refresh = postgres.cred[c].refresh
        /\ Hard(sqlite.cred[c].at["expired"], postgres.cred[c].at["expired"])
  BY <1>2 DEF StoresInv, RelAt, CredAgree
<1>4. \A c \in Ids \ refused : c \in DOMAIN sqlite.cred =>
        /\ sqlite.cred[c].refresh = postgres.cred[c].refresh
        /\ sqlite.cred[c].at["expired"] > D!Sq!Q!Now(time)
             <=> postgres.cred[c].at["expired"] > D!Pg!Q!Now(D!EndOfSecond)
  BY <1>1, <1>3, AheadSame
<1>5. SameIds(D!Sq!Q!Enabled(sqlite), D!Pg!Q!Enabled(postgres))
  BY EnabledSame
<1>6. D!Sq!Q!Enabled(sqlite) \subseteq DOMAIN sqlite.cred
  BY DEF D!Sq!Q!Enabled
<1> QED
  BY <1>4, <1>5, <1>6 DEF SameIds, D!Sq!Q!Usable, D!Pg!Q!Usable

\* The plan types of credentials that match.
LEMMA PlansSame ==
  ASSUME StoresInv, refused = {}, handler # "opencode", NEW X, X \subseteq DOMAIN sqlite.cred
  PROVE  D!Sq!Q!PlanTypes(sqlite, X) = D!Pg!Q!PlanTypes(postgres, X)
<1>1. \A c \in X : sqlite.cred[c].plan = postgres.cred[c].plan
  BY DEF StoresInv, RelAt, CredAgree, Good, RowsOf
<1> QED
  BY <1>1 DEF D!Sq!Q!PlanTypes, D!Pg!Q!PlanTypes

-----------------------------------------------------------------------------
(* The next deadline *)

\* Whose throttles count for the deadline; the deadlines after m.
Counted(d)  == {c \in DOMAIN d.quota : d.cred[c].status # "disabled"}
Deadlines(d) == {d.quota[c].until[t] : c \in Counted(d), t \in D!Tiers}
After(d, m) == Deadlines(d) \cap {u \in Int : u > m}
FirstOf(X, none) == IF X # {} THEN Least(X) ELSE none

LEMMA LeastInt ==
  ASSUME NEW X, X \subseteq Int, X # {}, NEW b \in Int, \A x \in X : b <= x
  PROVE  \E x \in X : \A y \in X : x <= y
<1>1. PICK Y : Y = {x - b : x \in X}
  OBVIOUS
<1>2. Y \subseteq Nat /\ Y # {}
  <2>1. \A x \in X : x - b \in Nat
    <3> TAKE x \in X
    <3>1. x \in Int /\ b <= x
      OBVIOUS
    <3> QED
      BY <3>1
  <2>2. PICK z : z \in X
    OBVIOUS
  <2> QED
    BY <1>1, <2>1, <2>2
<1>3. PICK d \in Y : \A y \in Y : d <= y
  BY <1>2, LeastNat
<1>4. PICK x \in X : d = x - b
  BY <1>1, <1>3
<1>5. \A y \in X : x <= y
  <2> TAKE y \in X
  <2>1. y - b \in Y
    BY <1>1
  <2>2. x - b <= y - b
    BY <1>3, <1>4, <2>1
  <2> QED
    BY <2>2
<1> QED
  BY <1>5

LEMMA AfterIs ==
  ASSUME NEW d, Good(d), NEW m \in Int
  PROVE  /\ After(d, m) \subseteq Int /\ \A u \in After(d, m) : u > m
         /\ After(d, m) # {} =>
              /\ Least(After(d, m)) \in After(d, m)
              /\ \A u \in After(d, m) : Least(After(d, m)) <= u
<1>1. After(d, m) \subseteq Int /\ \A u \in After(d, m) : u > m
  BY DEF After
<1>2. ASSUME After(d, m) # {}
      PROVE  /\ Least(After(d, m)) \in After(d, m)
             /\ \A u \in After(d, m) : Least(After(d, m)) <= u
  <2>1. \A u \in After(d, m) : m <= u
    BY <1>1
  <2>2. PICK x \in After(d, m) : \A y \in After(d, m) : x <= y
    BY <1>1, <1>2, <2>1, LeastInt
  <2> QED
    BY <1>1, <2>2, LeastIs
<1> QED
  BY <1>1, <1>2

\* What the query answers.
LEMMA NextDeadlineIs ==
  ASSUME Known, NEW d, Good(d)
  PROVE  /\ D!Sq!Q!NextDeadline(d, D!Tiers, time) =
              FirstOf(After(d, D!Sq!Q!Now(time)), D!Sq!Q!Blank)
         /\ D!Pg!Q!NextDeadline(d, D!Tiers, D!EndOfSecond)
              = FirstOf(After(d, D!Pg!Q!Now(D!EndOfSecond)), D!Null)
<1>1. \A c \in Counted(d), t \in D!Tiers : d.quota[c].until[t] \in Int
  <2>1. \A k \in QuotaRow : \A t \in D!Tiers : k.until[t] \in Int
    BY DEF QuotaRow
  <2> TAKE c \in Counted(d), t \in D!Tiers
  <2>2. PICK k : k = d.quota[c] /\ k \in QuotaRow
    BY DEF Counted, Good, RowsOf
  <2>3. k.until[t] \in Int
    BY <2>1, <2>2
  <2> QED
    BY <2>2, <2>3
<1>2. PICK U : U = Deadlines(d)
  OBVIOUS
<1>3. U \subseteq Int
  BY <1>1, <1>2 DEF Deadlines
<1>4. \A m : {u \in U : u > m} = After(d, m)
  BY <1>2, <1>3 DEF After
<1>5. D!Sq!Q!NextDeadline(d, D!Tiers, time)
        = IF \E u \in U : u > D!Sq!Q!Now(time) THEN D!Sq!Q!Min({u \in U : u > D!Sq!Q!Now(time)})
                                               ELSE D!Sq!Q!Blank
  BY <1>2 DEF D!Sq!Q!NextDeadline, Counted, Deadlines
<1>6. D!Pg!Q!NextDeadline(d, D!Tiers, D!EndOfSecond)
        = IF \E u \in U : u > D!Pg!Q!Now(D!EndOfSecond)
          THEN D!Pg!Q!Min({u \in U : u > D!Pg!Q!Now(D!EndOfSecond)}) ELSE D!Pg!Q!Null
  BY <1>2 DEF D!Pg!Q!NextDeadline, Counted, Deadlines
<1>7. \A X : D!Sq!Q!Min(X) = Least(X) /\ D!Pg!Q!Min(X) = Least(X)
  BY DEF D!Sq!Q!Min, D!Pg!Q!Min, Least
<1>8. \A m : (\E u \in U : u > m) <=> After(d, m) # {}
  BY <1>4
<1>9. D!Sq!Q!NextDeadline(d, D!Tiers, time) = FirstOf(After(d, D!Sq!Q!Now(time)), D!Sq!Q!Blank)
  BY <1>4, <1>5, <1>7, <1>8 DEF FirstOf
<1>10. D!Pg!Q!NextDeadline(d, D!Tiers, D!EndOfSecond)
         = FirstOf(After(d, D!Pg!Q!Now(D!EndOfSecond)), D!Null)
  BY <1>4, <1>6, <1>7, <1>8, QueriesShare DEF FirstOf
<1> QED
  BY <1>9, <1>10

LEMMA DeadlineSame ==
  ASSUME StoresInv, refused = {}
  PROVE  TimeSame(D!Sq!Q!NextDeadline(sqlite, D!Tiers, time),
                  D!Pg!Q!NextDeadline(postgres, D!Tiers, D!EndOfSecond))
<1>1. Known /\ Good(sqlite) /\ Good(postgres)
  BY StoresKnown DEF StoresInv
<1>2. PICK m, n : m = D!Sq!Q!Now(time) /\ n = D!Pg!Q!Now(D!EndOfSecond) /\ m \in Int /\ n \in Int
  BY <1>1, EndOfSecondIs
<1>3. PICK X, Y : X = After(sqlite, m) /\ Y = After(postgres, n)
  OBVIOUS
<1>4. Counted(sqlite) = Counted(postgres)
  BY DEF Counted, StoresInv, RelAt, CredAgree, Good, RowsOf
<1>5. \A c \in Counted(sqlite), t \in D!Tiers :
        Hard(sqlite.quota[c].until[t], postgres.quota[c].until[t])
  BY DEF Counted, StoresInv, RelAt, QuotaAgree, Good, RowsOf
<1>6. \A v, w : Hard(v, w) => (v > m <=> w > n) /\ v \in Int /\ w \in Int /\ v = D!Whole(w)
  BY <1>1, <1>2, AheadSame, WholeIs DEF Hard
<1>7. \A w \in Y : D!Whole(w) \in X
  <2> TAKE w \in Y
  <2>1. PICK c \in Counted(postgres), t \in D!Tiers : w = postgres.quota[c].until[t]
    BY <1>3 DEF After, Deadlines
  <2>2. w > n /\ w \in Int
    BY <1>3 DEF After
  <2>3. PICK v : v = sqlite.quota[c].until[t]
    OBVIOUS
  <2>4. Hard(v, w)
    BY <1>4, <1>5, <2>1, <2>3
  <2>5. v > m /\ v \in Int /\ v = D!Whole(w)
    BY <1>6, <2>2, <2>4
  <2>6. c \in Counted(sqlite)
    BY <1>4, <2>1
  <2>7. v \in {sqlite.quota[x].until[y] : x \in Counted(sqlite), y \in D!Tiers}
    BY <2>1, <2>3, <2>6
  <2>8. v \in X
    BY <1>3, <2>5, <2>7 DEF After, Deadlines
  <2> QED
    BY <2>5, <2>8
<1>8. \A v \in X : \E w \in Y : v = D!Whole(w)
  <2> TAKE v \in X
  <2>1. PICK c \in Counted(sqlite), t \in D!Tiers : v = sqlite.quota[c].until[t]
    BY <1>3 DEF After, Deadlines
  <2>2. v > m /\ v \in Int
    BY <1>3 DEF After
  <2>3. PICK w : w = postgres.quota[c].until[t]
    OBVIOUS
  <2>4. Hard(v, w)
    BY <1>5, <2>1, <2>3
  <2>5. w > n /\ w \in Int /\ v = D!Whole(w)
    BY <1>6, <2>2, <2>4
  <2>6. w \in Y
    BY <1>3, <1>4, <2>3, <2>5 DEF After, Deadlines
  <2> QED
    BY <2>5, <2>6
<1>9. CASE Y = {}
  <2>1. X = {}
    BY <1>8, <1>9
  <2>2. FirstOf(X, D!Sq!Q!Blank) = D!Sq!Q!Blank /\ FirstOf(Y, D!Null) = D!Null
    BY <1>9, <2>1 DEF FirstOf
  <2>3. D!Sq!parseTime(D!Sq!Q!Blank) = 0 /\ D!Pg!tsTo(D!Null) = 0 /\ D!Whole(0) = 0
    BY DEF D!Sq!parseTime, D!Sq!ZeroTime, D!Pg!tsTo, D!Pg!ZeroTime, D!Pg!Null, D!Null, D!Whole,
       D!PerSecond
  <2> QED
    BY <1>1, <1>2, <1>3, <2>2, <2>3, NextDeadlineIs DEF TimeSame
<1>10. CASE Y # {}
  <2>1. PICK w : w = Least(Y) /\ w \in Y /\ \A y \in Y : w <= y
    BY <1>1, <1>2, <1>3, <1>10, AfterIs
  <2>2. X # {} /\ D!Whole(w) \in X /\ X \subseteq Int /\ Y \subseteq Int
    BY <1>1, <1>2, <1>3, <1>7, <2>1, AfterIs
  <2>3. \A x \in X : D!Whole(w) <= x
    <3> TAKE x \in X
    <3>1. PICK y \in Y : x = D!Whole(y)
      BY <1>8
    <3>2. w \in Int /\ y \in Int /\ w <= y
      BY <2>1, <2>2, <3>1
    <3> QED
      BY <3>1, <3>2, WholeGrows
  <2>4. Least(X) = D!Whole(w)
    BY <2>2, <2>3, LeastIs
  <2>5. FirstOf(X, D!Sq!Q!Blank) = D!Whole(w) /\ FirstOf(Y, D!Null) = w
    BY <1>10, <2>1, <2>2, <2>4 DEF FirstOf
  <2>6. Hard(D!Whole(w), w)
    <3>1. w > n /\ n >= 3 /\ w \in Int
      BY <1>1, <1>2, <1>3, <2>1, <2>2, EndOfSecondIs, AfterIs
    <3> QED
      BY <1>2, <3>1 DEF Hard
  <2>7. TimeSame(D!Whole(w), w)
    BY <1>1, <2>6, TimesTold DEF TimeSame
  <2> QED
    BY <1>1, <1>2, <1>3, <2>5, <2>7, NextDeadlineIs
<1> QED
  BY <1>9, <1>10

-----------------------------------------------------------------------------
(* The lists *)

\* The times of a quota that may not be there, in the lists.
SqliteReset(q) ==
  CASE handler \in {"codex", "opencode"} -> D!Columns(q.reset, Windows, D!Sq!Q!Blank)
    [] handler = "gemini"                -> D!Columns(q.reset, Windows, D!Sq!Q!Now(time))
    [] handler = "antigravity"           -> D!Sq!Q!Resets(q.reset, time)
PostgresReset(q) ==
  CASE handler \in {"codex", "opencode"} -> D!Columns(q.reset, Windows, D!Pg!Q!YearOne)
    [] handler = "gemini"                -> D!Columns(q.reset, Windows, D!Pg!Q!Now(D!EndOfSecond))
    [] handler = "antigravity"           -> D!Pg!Q!Resets(q.reset, D!EndOfSecond)

\* What a list has of c.
SqliteListed(c) ==
  LET q == D!LeftJoin(sqlite, c)
      u == D!Columns(q.until, D!Tiers, D!Sq!Q!Blank)
      m == D!Coalesce(q.synced, D!Sq!Q!Blank)
  IN IF handler = "antigravity"
     THEN D!Sq!ListRowTo(CreditRow(sqlite.cred[c], SqliteReset(q), u, c \in sqlite.credits, m))
     ELSE D!Sq!ListRowTo(PlainRow(sqlite.cred[c], SqliteReset(q), u, m))
PostgresListed(c) ==
  LET q == D!LeftJoin(postgres, c)
      u == D!Columns(q.until, D!Tiers, D!Pg!Q!YearOne)
      m == D!Coalesce(q.synced, D!Pg!Q!YearOne)
  IN IF handler = "antigravity"
     THEN D!Pg!ListRowTo(CreditRow(postgres.cred[c], PostgresReset(q), u, c \in postgres.credits,
          m))
     ELSE D!Pg!ListRowTo(PlainRow(postgres.cred[c], PostgresReset(q), u, m))

\* What the list of available credentials has of c.
SqliteAvailable(c) ==
  LET q == D!LeftJoin(sqlite, c)
      k == sqlite.cred[c]
      u == D!Columns(q.until, D!Tiers, D!Sq!Q!Now(time))
      i == D!Sq!Q!Max(D!Sq!Q!Range(u))
      m == D!Coalesce(q.synced, D!Sq!Q!Blank)
  IN CASE handler = "codex"  -> D!Sq!ParsedQuota(CodexRow(k.plan, SqliteReset(q), u, m))
       [] handler = "gemini" -> D!Sq!AvailableRowTo(GeminiRow(k.plan, SqliteReset(q), u, i, m))
       [] handler = "antigravity" ->
            D!Sq!AvailableRowTo(AntigravityRow(k.plan, SqliteReset(q), c \in sqlite.credits, u, i,
                 m))
       [] handler = "opencode" ->
            D!Sq!ParsedQuota(OpenCodeRow(SqliteReset(q), D!Columns(q.until, D!Tiers, D!Sq!Q!Blank),
                                         D!Coalesce(q.synced, k.at.created)))
PostgresAvailable(c) ==
  LET q == D!LeftJoin(postgres, c)
      k == postgres.cred[c]
      u == D!Columns(q.until, D!Tiers, D!Pg!Q!Now(D!EndOfSecond))
      i == D!Pg!Q!Max(D!Pg!Q!Range(u))
      m == D!Coalesce(q.synced, D!Pg!Q!YearOne)
  IN CASE handler = "codex"  -> D!Pg!QuotaTo(CodexRow(k.plan, PostgresReset(q), u, m))
       [] handler = "gemini" -> D!Pg!AvailableRowTo(GeminiRow(k.plan, PostgresReset(q), u, i, m))
       [] handler = "antigravity" ->
            D!Pg!AvailableRowTo(AntigravityRow(k.plan, PostgresReset(q), c \in postgres.credits, u,
                 i, m))
       [] handler = "opencode" ->
            D!Pg!QuotaTo(OpenCodeRow(PostgresReset(q), D!Columns(q.until, D!Tiers, D!Pg!Q!YearOne),
                                     D!Coalesce(q.synced, k.at.created)))

LEMMA ResetColumnsSame ==
  ASSUME Known, NEW q, NEW r, JoinAgree(q, r)
  PROVE  TimesSame(SqliteReset(q), PostgresReset(r))
<1>1. CASE handler \in {"codex", "opencode"}
  <2>1. \A n \in Windows : SameTime(q.reset[n], r.reset[n], D!Sq!Q!Blank, D!Pg!Q!YearOne)
    BY TimesTold DEF JoinAgree
  <2>2. TimesSame(D!Columns(q.reset, Windows, D!Sq!Q!Blank),
        D!Columns(r.reset, Windows, D!Pg!Q!YearOne))
    BY <2>1, ColumnsSame
  <2> QED
    BY <1>1, <2>2 DEF SqliteReset, PostgresReset
<1>2. CASE handler = "gemini"
  <2>1. \A n \in Windows : SameTime(q.reset[n], r.reset[n], D!Sq!Q!Now(time),
        D!Pg!Q!Now(D!EndOfSecond))
    BY <1>2, TimesTold DEF JoinAgree, JoinReset
  <2>2. TimesSame(D!Columns(q.reset, Windows, D!Sq!Q!Now(time)),
                  D!Columns(r.reset, Windows, D!Pg!Q!Now(D!EndOfSecond)))
    BY <2>1, ColumnsSame
  <2> QED
    BY <1>2, <2>2 DEF SqliteReset, PostgresReset
<1>3. CASE handler = "antigravity"
  BY <1>3, ResetsSame DEF SqliteReset, PostgresReset
<1> QED
  BY <1>1, <1>2, <1>3 DEF Known

LEMMA UntilColumnsSame ==
  ASSUME Known, NEW q, NEW r, JoinAgree(q, r)
  PROVE  /\ TimesSame(D!Columns(q.until, D!Tiers, D!Sq!Q!Blank),
              D!Columns(r.until, D!Tiers, D!Pg!Q!YearOne))
         /\ TimesSame(D!Columns(q.until, D!Tiers, D!Sq!Q!Now(time)),
                      D!Columns(r.until, D!Tiers, D!Pg!Q!Now(D!EndOfSecond)))
         /\ TimeSame(D!Coalesce(q.synced, D!Sq!Q!Blank), D!Coalesce(r.synced, D!Pg!Q!YearOne))
<1>1. \A t \in D!Tiers : SameTime(q.until[t], r.until[t], D!Sq!Q!Blank, D!Pg!Q!YearOne)
  BY TimesTold DEF JoinAgree
<1>2. \A t \in D!Tiers : SameTime(q.until[t], r.until[t], D!Sq!Q!Now(time),
      D!Pg!Q!Now(D!EndOfSecond))
  BY TimesTold DEF JoinAgree
<1>3. SameTime(q.synced, r.synced, D!Sq!Q!Blank, D!Pg!Q!YearOne)
  BY TimesTold DEF JoinAgree
<1>4. TimesSame(D!Columns(q.until, D!Tiers, D!Sq!Q!Blank),
      D!Columns(r.until, D!Tiers, D!Pg!Q!YearOne))
  BY <1>1, ColumnsSame
<1>5. TimesSame(D!Columns(q.until, D!Tiers, D!Sq!Q!Now(time)),
                D!Columns(r.until, D!Tiers, D!Pg!Q!Now(D!EndOfSecond)))
  BY <1>2, ColumnsSame
<1>6. TimeSame(D!Coalesce(q.synced, D!Sq!Q!Blank), D!Coalesce(r.synced, D!Pg!Q!YearOne))
  BY <1>3 DEF SameTime, TimeSame
<1> QED
  BY <1>4, <1>5, <1>6

LEMMA ListedSame ==
  ASSUME StoresInv, NEW c \in Ids \ refused, c \in DOMAIN sqlite.cred
  PROVE  SqliteListed(c) = D!WholeListed(PostgresListed(c))
<1>1. Known /\ Good(sqlite) /\ Good(postgres) /\ RelAt(sqlite, postgres, c)
  BY StoresKnown DEF StoresInv
<1>2. PICK q, r : q = D!LeftJoin(sqlite, c) /\ r = D!LeftJoin(postgres, c)
  OBVIOUS
<1>3. JoinAgree(q, r)
  BY <1>1, <1>2, LeftJoinAgree
<1>4. PICK k, l : k = sqlite.cred[c] /\ l = postgres.cred[c] /\ CredSame(k, l)
  <2>1. CredAgree(sqlite.cred[c], postgres.cred[c])
    BY <1>1 DEF RelAt
  <2> QED
    BY <1>1, <2>1, CredRowsSame
<1>5. PICK a, b : a = SqliteReset(q) /\ b = PostgresReset(r) /\ TimesSame(a, b)
  BY <1>1, <1>3, ResetColumnsSame
<1>6. PICK u, v : /\ u = D!Columns(q.until, D!Tiers, D!Sq!Q!Blank)
                  /\ v = D!Columns(r.until, D!Tiers, D!Pg!Q!YearOne) /\ TimesSame(u, v)
  BY <1>1, <1>3, UntilColumnsSame
<1>7. PICK m, n : /\ m = D!Coalesce(q.synced, D!Sq!Q!Blank)
                  /\ n = D!Coalesce(r.synced, D!Pg!Q!YearOne) /\ TimeSame(m, n)
  BY <1>1, <1>3, UntilColumnsSame
<1>8. CASE handler = "antigravity"
  <2>1. PICK x : x = (c \in sqlite.credits)
    OBVIOUS
  <2>2. (c \in postgres.credits) = x
    <3>1. c \in sqlite.credits <=> c \in postgres.credits
      BY <1>1 DEF RelAt
    <3>2. (c \in postgres.credits) = (c \in sqlite.credits)
      BY <3>1
    <3> QED
      BY <2>1, <3>2, Zenon
  <2>3. SqliteListed(c) = D!Sq!ListRowTo(CreditRow(k, a, u, x, m))
    BY <1>2, <1>4, <1>5, <1>6, <1>7, <1>8, <2>1, Zenon DEF SqliteListed
  <2>4. PostgresListed(c) = D!Pg!ListRowTo(CreditRow(l, b, v, x, n))
    BY <1>2, <1>4, <1>5, <1>6, <1>7, <1>8, <2>2, Zenon DEF PostgresListed
  <2> QED
    BY <1>4, <1>5, <1>6, <1>7, <2>3, <2>4, CreditRowsSame
<1>9. CASE handler # "antigravity"
  <2>1. SqliteListed(c) = D!Sq!ListRowTo(PlainRow(k, a, u, m))
    BY <1>2, <1>4, <1>5, <1>6, <1>7, <1>9 DEF SqliteListed
  <2>2. PostgresListed(c) = D!Pg!ListRowTo(PlainRow(l, b, v, n))
    BY <1>2, <1>4, <1>5, <1>6, <1>7, <1>9 DEF PostgresListed
  <2> QED
    BY <1>4, <1>5, <1>6, <1>7, <2>1, <2>2, PlainRowsSame
<1> QED
  BY <1>8, <1>9

LEMMA AvailableSame ==
  ASSUME StoresInv, NEW c \in Ids \ refused, c \in DOMAIN sqlite.cred
  PROVE  SqliteAvailable(c) = D!WholeAvailable(PostgresAvailable(c))
<1>1. Known /\ Good(sqlite) /\ Good(postgres) /\ RelAt(sqlite, postgres, c)
  BY StoresKnown DEF StoresInv
<1>2. PICK q, r : q = D!LeftJoin(sqlite, c) /\ r = D!LeftJoin(postgres, c)
  OBVIOUS
<1>3. JoinAgree(q, r)
  BY <1>1, <1>2, LeftJoinAgree
<1>4. PICK k, l : k = sqlite.cred[c] /\ l = postgres.cred[c] /\ CredAgree(k, l)
  BY <1>1 DEF RelAt
<1>5. PICK a, b : a = SqliteReset(q) /\ b = PostgresReset(r) /\ TimesSame(a, b)
  BY <1>1, <1>3, ResetColumnsSame
<1>6. PICK u, v : /\ u = D!Columns(q.until, D!Tiers, D!Sq!Q!Now(time))
                  /\ v = D!Columns(r.until, D!Tiers, D!Pg!Q!Now(D!EndOfSecond)) /\ TimesSame(u, v)
  BY <1>1, <1>3, UntilColumnsSame
<1>7. PICK m, n : /\ m = D!Coalesce(q.synced, D!Sq!Q!Blank)
                  /\ n = D!Coalesce(r.synced, D!Pg!Q!YearOne) /\ TimeSame(m, n)
  BY <1>1, <1>3, UntilColumnsSame
<1>8. CASE handler = "codex"
  <2>1. PICK p : p = k.plan /\ p = l.plan
    BY <1>4, <1>8 DEF CredAgree
  <2>2. SqliteAvailable(c) = D!Sq!ParsedQuota(CodexRow(p, a, u, m))
    BY <1>2, <1>4, <1>5, <1>6, <1>7, <1>8, <2>1 DEF SqliteAvailable
  <2>3. PostgresAvailable(c) = D!Pg!QuotaTo(CodexRow(p, b, v, n))
    BY <1>2, <1>4, <1>5, <1>6, <1>7, <1>8, <2>1 DEF PostgresAvailable
  <2> QED
    BY <1>5, <1>6, <1>7, <2>2, <2>3, CodexRowsSame
<1>9. ASSUME handler \in {"gemini", "antigravity"}
      PROVE  TimeSame(D!Sq!Q!Max(D!Sq!Q!Range(u)), D!Pg!Q!Max(D!Pg!Q!Range(v)))
  BY <1>1, <1>3, <1>6, <1>9, NowHard, ThrottledSame
<1>10. CASE handler = "gemini"
  <2>1. PICK p : p = k.plan /\ p = l.plan
    BY <1>4, <1>10 DEF CredAgree
  <2>2. PICK i, j : /\ i = D!Sq!Q!Max(D!Sq!Q!Range(u)) /\ j = D!Pg!Q!Max(D!Pg!Q!Range(v))
                    /\ TimeSame(i, j)
    BY <1>9, <1>10
  <2>3. SqliteAvailable(c) = D!Sq!AvailableRowTo(GeminiRow(p, a, u, i, m))
    BY <1>2, <1>4, <1>5, <1>6, <1>7, <1>10, <2>1, <2>2 DEF SqliteAvailable
  <2>4. PostgresAvailable(c) = D!Pg!AvailableRowTo(GeminiRow(p, b, v, j, n))
    BY <1>2, <1>4, <1>5, <1>6, <1>7, <1>10, <2>1, <2>2 DEF PostgresAvailable
  <2> QED
    BY <1>5, <1>6, <1>7, <2>2, <2>3, <2>4, GeminiRowsSame
<1>11. CASE handler = "antigravity"
  <2>1. PICK p : p = k.plan /\ p = l.plan
    BY <1>4, <1>11 DEF CredAgree
  <2>2. PICK i, j : /\ i = D!Sq!Q!Max(D!Sq!Q!Range(u)) /\ j = D!Pg!Q!Max(D!Pg!Q!Range(v))
                    /\ TimeSame(i, j)
    BY <1>9, <1>11
  <2>3. PICK x : x = (c \in sqlite.credits)
    OBVIOUS
  <2>4. (c \in postgres.credits) = x
    <3>1. c \in sqlite.credits <=> c \in postgres.credits
      BY <1>1 DEF RelAt
    <3>2. (c \in postgres.credits) = (c \in sqlite.credits)
      BY <3>1
    <3> QED
      BY <2>3, <3>2, Zenon
  <2>5. SqliteAvailable(c) = D!Sq!AvailableRowTo(AntigravityRow(p, a, x, u, i, m))
    BY <1>2, <1>4, <1>5, <1>6, <1>7, <1>11, <2>1, <2>2, <2>3 DEF SqliteAvailable
  <2>6. PostgresAvailable(c) = D!Pg!AvailableRowTo(AntigravityRow(p, b, x, v, j, n))
    BY <1>2, <1>4, <1>5, <1>6, <1>7, <1>11, <2>1, <2>2, <2>4 DEF PostgresAvailable
  <2> QED
    BY <1>5, <1>6, <1>7, <2>2, <2>5, <2>6, AntigravityRowsSame
<1>12. CASE handler = "opencode"
  <2>1. Hard(k.at["created"], l.at["created"])
    <3>1. "created" \in CredTimes
      BY <1>12 DEF CredTimes
    <3> QED
      BY <1>4, <3>1 DEF CredAgree
  <2>2. TimesSame(D!Columns(q.until, D!Tiers, D!Sq!Q!Blank),
        D!Columns(r.until, D!Tiers, D!Pg!Q!YearOne))
    BY <1>1, <1>3, UntilColumnsSame
  <2>3. PICK u1, v1 : /\ u1 = D!Columns(q.until, D!Tiers, D!Sq!Q!Blank)
                      /\ v1 = D!Columns(r.until, D!Tiers, D!Pg!Q!YearOne) /\ TimesSame(u1, v1)
    BY <2>2
  <2>4. SameTime(q.synced, r.synced, k.at["created"], l.at["created"])
    BY <1>1, <1>3, <2>1, TimesTold DEF JoinAgree
  <2>5. PICK m1, n1 : /\ m1 = D!Coalesce(q.synced, k.at["created"])
                      /\ n1 = D!Coalesce(r.synced, l.at["created"]) /\ TimeSame(m1, n1)
    BY <2>4 DEF SameTime, TimeSame
  <2>6. SqliteAvailable(c) = D!Sq!ParsedQuota(OpenCodeRow(a, u1, m1))
    BY <1>2, <1>4, <1>5, <1>12, <2>3, <2>5 DEF SqliteAvailable
  <2>7. PostgresAvailable(c) = D!Pg!QuotaTo(OpenCodeRow(b, v1, n1))
    BY <1>2, <1>4, <1>5, <1>12, <2>3, <2>5 DEF PostgresAvailable
  <2> QED
    BY <1>5, <2>3, <2>5, <2>6, <2>7, OpenCodeRowsSame
<1> QED
  BY <1>1, <1>8, <1>10, <1>11, <1>12 DEF Known

-----------------------------------------------------------------------------
(* What the calls answer *)

LEMMA CountsSame ==
  \A X : /\ D!Sq!Cardinality(X) = D!Pg!Cardinality(X)
         /\ D!Sq!Q!Cardinality(X) = D!Pg!Q!Cardinality(X)
<1>1. \A X : D!Sq!Cardinality(X) = D!Pg!Cardinality(X)
  BY DEF D!Sq!Cardinality, D!Pg!Cardinality
<1>2. \A X : D!Sq!Q!Cardinality(X) = D!Pg!Q!Cardinality(X)
  BY DEF D!Sq!Q!Cardinality, D!Pg!Q!Cardinality
<1> QED
  BY <1>1, <1>2

SqliteUsable ==
  IF handler = "opencode" THEN D!Sq!Q!Enabled(sqlite) ELSE D!Sq!Q!Usable(sqlite, time)
PostgresUsable ==
  IF handler = "opencode" THEN D!Pg!Q!Enabled(postgres) ELSE D!Pg!Q!Usable(postgres, D!EndOfSecond)

SqliteTells(all) ==
  /\ all.get = [c \in DOMAIN sqlite.cred |-> D!Sq!CredentialTo(sqlite.cred[c])]
  /\ all.listed = [c \in DOMAIN sqlite.cred |-> SqliteListed(c)]
  /\ all.available = [c \in SqliteUsable |-> SqliteAvailable(c)]
  /\ all.enabled = D!Sq!Cardinality(D!Sq!Q!Enabled(sqlite))
  /\ all.count = D!Sq!Cardinality(DOMAIN sqlite.cred)
  /\ all.deadline = D!Sq!parseTime(D!Sq!Q!NextDeadline(sqlite, D!Tiers, time))
PostgresTells(all) ==
  /\ all.get = [c \in DOMAIN postgres.cred |-> D!Pg!CredentialTo(postgres.cred[c])]
  /\ all.listed = [c \in DOMAIN postgres.cred |-> PostgresListed(c)]
  /\ all.available = [c \in PostgresUsable |-> PostgresAvailable(c)]
  /\ all.enabled = D!Pg!Cardinality(D!Pg!Q!Enabled(postgres))
  /\ all.count = D!Pg!Cardinality(DOMAIN postgres.cred)
  /\ all.deadline = D!Pg!tsTo(D!Pg!Q!NextDeadline(postgres, D!Tiers, D!EndOfSecond))

\* A page of those that match g; the plan types of those that match h.
SqlitePages(page, g, h) ==
  /\ page.paged = [c \in D!Sq!Q!Matching(sqlite, g, D!Tiers, time) |-> SqliteListed(c)]
  /\ page.count = D!Sq!Q!Cardinality(D!Sq!Q!Matching(sqlite, g, D!Tiers, time))
  /\ page.plans = IF handler = "opencode" THEN {}
                  ELSE D!Sq!Q!PlanTypes(sqlite, D!Sq!Q!Matching(sqlite, h, D!Tiers, time))
PostgresPages(page, g, h) ==
  /\ page.paged = [c \in D!Pg!Q!Matching(postgres, g, D!Tiers, D!EndOfSecond) |-> PostgresListed(c)]
  /\ page.count = D!Pg!Q!Cardinality(D!Pg!Q!Matching(postgres, g, D!Tiers, D!EndOfSecond))
  /\ page.plans = IF handler = "opencode" THEN {}
                  ELSE D!Pg!Q!PlanTypes(postgres,
                       D!Pg!Q!Matching(postgres, h, D!Tiers, D!EndOfSecond))

LEMMA CodexSqliteTells ==
  ASSUME Known, handler = "codex"
  PROVE  /\ SqliteTells(D!SqliteTold)
         /\ \A f : SqlitePages(D!SqliteFiltered(f), f, D!Sq!Q!AnyPlan(f))
<1>1. D!Tiers = D!Sq!Q!CodexTiers /\ Windows = D!Sq!Q!CodexWindows
  BY ShapesAre DEF D!Tiers, Windows, D!CodexTiers, D!Sq!Q!CodexTiers, D!CodexWindows,
     D!Sq!Q!CodexWindows
<1>2. PICK list : list = D!Sq!Q!ListCodex(sqlite, time)
  OBVIOUS
<1>3. DOMAIN list = DOMAIN sqlite.cred
  BY <1>2 DEF D!Sq!Q!ListCodex
<1>4. \A c \in DOMAIN sqlite.cred : D!Sq!ListRowTo(list[c]) = SqliteListed(c)
  <2> TAKE c \in DOMAIN sqlite.cred
  <2>1. PICK q : q = D!LeftJoin(sqlite, c)
    OBVIOUS
  <2>2. list[c] = PlainRow(sqlite.cred[c], SqliteReset(q),
        D!Columns(q.until, D!Tiers, D!Sq!Q!Blank),
                     D!Coalesce(q.synced, D!Sq!Q!Blank))
    BY <1>1, <1>2, <2>1, QueriesShare DEF D!Sq!Q!ListCodex, PlainRow, SqliteReset
  <2> QED
    BY <2>1, <2>2 DEF SqliteListed
<1>5. D!Sq!ListCodex(sqlite, time) = [c \in DOMAIN sqlite.cred |-> SqliteListed(c)]
  BY <1>2, <1>3, <1>4 DEF D!Sq!ListCodex
<1>6. PICK free : free = D!Sq!Q!ListAvailableCodex(sqlite, time)
  OBVIOUS
<1>7. DOMAIN free = SqliteUsable
  BY <1>6 DEF D!Sq!Q!ListAvailableCodex, SqliteUsable
<1>8. \A c \in SqliteUsable : D!Sq!ParsedQuota(free[c]) = SqliteAvailable(c)
  <2> TAKE c \in SqliteUsable
  <2>1. PICK q, u : q = D!LeftJoin(sqlite, c) /\ u = D!Columns(q.until, D!Tiers, D!Sq!Q!Now(time))
    OBVIOUS
  <2>2. free[c] = CodexRow(sqlite.cred[c].plan, SqliteReset(q), u,
        D!Coalesce(q.synced, D!Sq!Q!Blank))
    BY <1>1, <1>6, <2>1, QueriesShare DEF D!Sq!Q!ListAvailableCodex, CodexRow, SqliteReset,
       SqliteUsable
  <2> QED
    BY <2>1, <2>2 DEF SqliteAvailable
<1>9. D!Sq!ListAvailableCodex(sqlite, time) = [c \in SqliteUsable |-> SqliteAvailable(c)]
  BY <1>6, <1>7, <1>8 DEF D!Sq!ListAvailableCodex
<1>10. D!Sq!CountEnabled(sqlite) = D!Sq!Cardinality(D!Sq!Q!Enabled(sqlite))
       /\ D!Sq!CountAll(sqlite) = D!Sq!Cardinality(DOMAIN sqlite.cred)
  BY DEF D!Sq!CountEnabled, D!Sq!CountAll
<1>11. D!Sq!NextCodexThrottleDeadline(sqlite, time) =
       D!Sq!parseTime(D!Sq!Q!NextDeadline(sqlite, D!Tiers, time))
  BY <1>1 DEF D!Sq!NextCodexThrottleDeadline, D!Sq!Q!NextCodexThrottleDeadline
<1>12. SqliteTells(D!SqliteTold)
  <2>1. D!SqliteTold = [get       |-> [c \in DOMAIN sqlite.cred |-> D!Sq!GetCodex(sqlite, c)],
                     listed    |-> D!Sq!ListCodex(sqlite, time),
                     available |-> D!Sq!ListAvailableCodex(sqlite, time),
                     enabled   |-> D!Sq!CountEnabled(sqlite), count |-> D!Sq!CountAll(sqlite),
                     deadline  |-> D!Sq!NextCodexThrottleDeadline(sqlite, time)]
    BY DEF D!SqliteTold
  <2>2. [c \in DOMAIN sqlite.cred |-> D!Sq!GetCodex(sqlite, c)]
          = [c \in DOMAIN sqlite.cred |-> D!Sq!CredentialTo(sqlite.cred[c])]
    BY DEF D!Sq!GetCodex
  <2> QED
    BY <1>5, <1>9, <1>10, <1>11, <2>1, <2>2 DEF SqliteTells
<1>13. ASSUME NEW f PROVE SqlitePages(D!SqliteFiltered(f), f, D!Sq!Q!AnyPlan(f))
  <2>1. PICK X : X = D!Sq!Q!Matching(sqlite, f, D!Tiers, time) /\ X \subseteq DOMAIN sqlite.cred
    BY DEF D!Sq!Q!Matching
  <2>2. PICK page : page = D!Sq!Q!ListCodexPaged(sqlite, f, time)
    OBVIOUS
  <2>3. page = [c \in X |-> list[c]]
    BY <1>1, <1>2, <2>1, <2>2 DEF D!Sq!Q!ListCodexPaged, D!Sq!Q!Restrict
  <2>4. D!Sq!ListCodexPaged(sqlite, f, time) = [c \in X |-> SqliteListed(c)]
    BY <1>4, <2>1, <2>2, <2>3 DEF D!Sq!ListCodexPaged
  <2>5. D!Sq!CountCodexFiltered(sqlite, f, time) = D!Sq!Q!Cardinality(X)
    BY <1>1, <2>1 DEF D!Sq!CountCodexFiltered, D!Sq!Q!CountCodexFiltered
  <2>6. D!Sq!ListCodexPlanTypes(sqlite, f, time)
          = D!Sq!Q!PlanTypes(sqlite, D!Sq!Q!Matching(sqlite, D!Sq!Q!AnyPlan(f), D!Tiers, time))
    BY <1>1 DEF D!Sq!ListCodexPlanTypes, D!Sq!Q!ListCodexPlanTypes
  <2>7. D!SqliteFiltered(f) = [paged |-> D!Sq!ListCodexPaged(sqlite, f, time),
                            count |-> D!Sq!CountCodexFiltered(sqlite, f, time),
                            plans |-> D!Sq!ListCodexPlanTypes(sqlite, f, time)]
    BY DEF D!SqliteFiltered
  <2> QED
    BY <2>1, <2>4, <2>5, <2>6, <2>7 DEF SqlitePages
<1> QED
  BY <1>12, <1>13

LEMMA CodexPostgresTells ==
  ASSUME Known, handler = "codex"
  PROVE  /\ PostgresTells(D!PostgresTold)
         /\ \A f : PostgresPages(D!PostgresFiltered(f), f, D!Pg!Q!AnyPlan(f))
<1>1. D!Tiers = D!Pg!Q!CodexTiers /\ Windows = D!Pg!Q!CodexWindows
  BY ShapesAre DEF D!Tiers, Windows, D!CodexTiers, D!Pg!Q!CodexTiers, D!CodexWindows,
     D!Pg!Q!CodexWindows
<1>2. PICK list : list = D!Pg!Q!ListCodex(postgres, D!EndOfSecond)
  OBVIOUS
<1>3. DOMAIN list = DOMAIN postgres.cred
  BY <1>2 DEF D!Pg!Q!ListCodex
<1>4. \A c \in DOMAIN postgres.cred : D!Pg!ListRowTo(list[c]) = PostgresListed(c)
  <2> TAKE c \in DOMAIN postgres.cred
  <2>1. PICK q : q = D!LeftJoin(postgres, c)
    OBVIOUS
  <2>2. list[c] = PlainRow(postgres.cred[c], PostgresReset(q),
        D!Columns(q.until, D!Tiers, D!Pg!Q!YearOne),
                     D!Coalesce(q.synced, D!Pg!Q!YearOne))
    BY <1>1, <1>2, <2>1, QueriesShare DEF D!Pg!Q!ListCodex, PlainRow, PostgresReset
  <2> QED
    BY <2>1, <2>2 DEF PostgresListed
<1>5. D!Pg!ListCodex(postgres, D!EndOfSecond) = [c \in DOMAIN postgres.cred |-> PostgresListed(c)]
  BY <1>2, <1>3, <1>4 DEF D!Pg!ListCodex
<1>6. PICK free : free = D!Pg!Q!ListAvailableCodex(postgres, D!EndOfSecond)
  OBVIOUS
<1>7. DOMAIN free = PostgresUsable
  BY <1>6 DEF D!Pg!Q!ListAvailableCodex, PostgresUsable
<1>8. \A c \in PostgresUsable : D!Pg!QuotaTo(free[c]) = PostgresAvailable(c)
  <2> TAKE c \in PostgresUsable
  <2>1. PICK q, u : q = D!LeftJoin(postgres, c) /\ u =
        D!Columns(q.until, D!Tiers, D!Pg!Q!Now(D!EndOfSecond))
    OBVIOUS
  <2>2. free[c] = CodexRow(postgres.cred[c].plan, PostgresReset(q), u,
        D!Coalesce(q.synced, D!Pg!Q!YearOne))
    BY <1>1, <1>6, <2>1, QueriesShare DEF D!Pg!Q!ListAvailableCodex, CodexRow, PostgresReset,
       PostgresUsable
  <2> QED
    BY <2>1, <2>2 DEF PostgresAvailable
<1>9. D!Pg!ListAvailableCodex(postgres, D!EndOfSecond) =
      [c \in PostgresUsable |-> PostgresAvailable(c)]
  BY <1>6, <1>7, <1>8 DEF D!Pg!ListAvailableCodex
<1>10. D!Pg!CountEnabled(postgres) = D!Pg!Cardinality(D!Pg!Q!Enabled(postgres))
       /\ D!Pg!CountAll(postgres) = D!Pg!Cardinality(DOMAIN postgres.cred)
  BY DEF D!Pg!CountEnabled, D!Pg!CountAll
<1>11. D!Pg!NextCodexThrottleDeadline(postgres, D!EndOfSecond) =
       D!Pg!tsTo(D!Pg!Q!NextDeadline(postgres, D!Tiers, D!EndOfSecond))
  BY <1>1 DEF D!Pg!NextCodexThrottleDeadline, D!Pg!Q!NextCodexThrottleDeadline
<1>12. PostgresTells(D!PostgresTold)
  <2>1. D!PostgresTold = [get       |-> [c \in DOMAIN postgres.cred |-> D!Pg!GetCodex(postgres, c)],
                     listed    |-> D!Pg!ListCodex(postgres, D!EndOfSecond),
                     available |-> D!Pg!ListAvailableCodex(postgres, D!EndOfSecond),
                     enabled   |-> D!Pg!CountEnabled(postgres), count |-> D!Pg!CountAll(postgres),
                     deadline  |-> D!Pg!NextCodexThrottleDeadline(postgres, D!EndOfSecond)]
    BY DEF D!PostgresTold
  <2>2. [c \in DOMAIN postgres.cred |-> D!Pg!GetCodex(postgres, c)]
          = [c \in DOMAIN postgres.cred |-> D!Pg!CredentialTo(postgres.cred[c])]
    BY DEF D!Pg!GetCodex
  <2> QED
    BY <1>5, <1>9, <1>10, <1>11, <2>1, <2>2 DEF PostgresTells
<1>13. ASSUME NEW f PROVE PostgresPages(D!PostgresFiltered(f), f, D!Pg!Q!AnyPlan(f))
  <2>1. PICK X : X = D!Pg!Q!Matching(postgres, f, D!Tiers, D!EndOfSecond) /\
        X \subseteq DOMAIN postgres.cred
    BY DEF D!Pg!Q!Matching
  <2>2. PICK page : page = D!Pg!Q!ListCodexPaged(postgres, f, D!EndOfSecond)
    OBVIOUS
  <2>3. page = [c \in X |-> list[c]]
    BY <1>1, <1>2, <2>1, <2>2 DEF D!Pg!Q!ListCodexPaged, D!Pg!Q!Restrict
  <2>4. D!Pg!ListCodexPaged(postgres, f, D!EndOfSecond) = [c \in X |-> PostgresListed(c)]
    BY <1>4, <2>1, <2>2, <2>3 DEF D!Pg!ListCodexPaged
  <2>5. D!Pg!CountCodexFiltered(postgres, f, D!EndOfSecond) = D!Pg!Q!Cardinality(X)
    BY <1>1, <2>1 DEF D!Pg!CountCodexFiltered, D!Pg!Q!CountCodexFiltered
  <2>6. D!Pg!ListCodexPlanTypes(postgres, f, D!EndOfSecond)
          = D!Pg!Q!PlanTypes(postgres, D!Pg!Q!Matching(postgres, D!Pg!Q!AnyPlan(f), D!Tiers,
               D!EndOfSecond))
    BY <1>1 DEF D!Pg!ListCodexPlanTypes, D!Pg!Q!ListCodexPlanTypes
  <2>7. D!PostgresFiltered(f) = [paged |-> D!Pg!ListCodexPaged(postgres, f, D!EndOfSecond),
                            count |-> D!Pg!CountCodexFiltered(postgres, f, D!EndOfSecond),
                            plans |-> D!Pg!ListCodexPlanTypes(postgres, f, D!EndOfSecond)]
    BY DEF D!PostgresFiltered
  <2> QED
    BY <2>1, <2>4, <2>5, <2>6, <2>7 DEF PostgresPages
<1> QED
  BY <1>12, <1>13

LEMMA GeminiCLISqliteTells ==
  ASSUME Known, handler = "gemini"
  PROVE  /\ SqliteTells(D!SqliteTold)
         /\ \A f : SqlitePages(D!SqliteFiltered(f), f, D!Sq!Q!AnyPlan(f))
<1>1. D!Tiers = D!Sq!Q!GeminiTiers /\ Windows = D!Sq!Q!GeminiTiers
  BY ShapesAre DEF D!Tiers, Windows, D!GeminiTiers, D!Sq!Q!GeminiTiers, D!GeminiTiers,
     D!Sq!Q!GeminiTiers
<1>2. PICK list : list = D!Sq!Q!ListGeminiCLI(sqlite, time)
  OBVIOUS
<1>3. DOMAIN list = DOMAIN sqlite.cred
  BY <1>2 DEF D!Sq!Q!ListGeminiCLI
<1>4. \A c \in DOMAIN sqlite.cred : D!Sq!ListRowTo(list[c]) = SqliteListed(c)
  <2> TAKE c \in DOMAIN sqlite.cred
  <2>1. PICK q : q = D!LeftJoin(sqlite, c)
    OBVIOUS
  <2>2. list[c] = PlainRow(sqlite.cred[c], SqliteReset(q),
        D!Columns(q.until, D!Tiers, D!Sq!Q!Blank),
                     D!Coalesce(q.synced, D!Sq!Q!Blank))
    BY <1>1, <1>2, <2>1, QueriesShare DEF D!Sq!Q!ListGeminiCLI, PlainRow, SqliteReset
  <2> QED
    BY <2>1, <2>2 DEF SqliteListed
<1>5. D!Sq!ListGeminiCLI(sqlite, time) = [c \in DOMAIN sqlite.cred |-> SqliteListed(c)]
  BY <1>2, <1>3, <1>4 DEF D!Sq!ListGeminiCLI
<1>6. PICK free : free = D!Sq!Q!ListAvailableGeminiCLI(sqlite, time)
  OBVIOUS
<1>7. DOMAIN free = SqliteUsable
  BY <1>6 DEF D!Sq!Q!ListAvailableGeminiCLI, SqliteUsable
<1>8. \A c \in SqliteUsable : D!Sq!AvailableRowTo(free[c]) = SqliteAvailable(c)
  <2> TAKE c \in SqliteUsable
  <2>1. PICK q, u : q = D!LeftJoin(sqlite, c) /\ u = D!Columns(q.until, D!Tiers, D!Sq!Q!Now(time))
    OBVIOUS
  <2>2. free[c] = GeminiRow(sqlite.cred[c].plan, SqliteReset(q), u, D!Sq!Q!Max(D!Sq!Q!Range(u)),
                      D!Coalesce(q.synced, D!Sq!Q!Blank))
    BY <1>1, <1>6, <2>1, QueriesShare DEF D!Sq!Q!ListAvailableGeminiCLI, GeminiRow, SqliteReset,
       SqliteUsable
  <2> QED
    BY <2>1, <2>2 DEF SqliteAvailable
<1>9. D!Sq!ListAvailableGeminiCLI(sqlite, time) = [c \in SqliteUsable |-> SqliteAvailable(c)]
  BY <1>6, <1>7, <1>8 DEF D!Sq!ListAvailableGeminiCLI
<1>10. D!Sq!CountEnabled(sqlite) = D!Sq!Cardinality(D!Sq!Q!Enabled(sqlite))
       /\ D!Sq!CountAll(sqlite) = D!Sq!Cardinality(DOMAIN sqlite.cred)
  BY DEF D!Sq!CountEnabled, D!Sq!CountAll
<1>11. D!Sq!NextGeminiThrottleDeadline(sqlite, time) =
       D!Sq!parseTime(D!Sq!Q!NextDeadline(sqlite, D!Tiers, time))
  BY <1>1 DEF D!Sq!NextGeminiThrottleDeadline, D!Sq!Q!NextGeminiThrottleDeadline
<1>12. SqliteTells(D!SqliteTold)
  <2>1. D!SqliteTold = [get       |-> [c \in DOMAIN sqlite.cred |-> D!Sq!GetGeminiCLI(sqlite, c)],
                     listed    |-> D!Sq!ListGeminiCLI(sqlite, time),
                     available |-> D!Sq!ListAvailableGeminiCLI(sqlite, time),
                     enabled   |-> D!Sq!CountEnabled(sqlite), count |-> D!Sq!CountAll(sqlite),
                     deadline  |-> D!Sq!NextGeminiThrottleDeadline(sqlite, time)]
    BY DEF D!SqliteTold
  <2>2. [c \in DOMAIN sqlite.cred |-> D!Sq!GetGeminiCLI(sqlite, c)]
          = [c \in DOMAIN sqlite.cred |-> D!Sq!CredentialTo(sqlite.cred[c])]
    BY DEF D!Sq!GetGeminiCLI
  <2> QED
    BY <1>5, <1>9, <1>10, <1>11, <2>1, <2>2 DEF SqliteTells
<1>13. ASSUME NEW f PROVE SqlitePages(D!SqliteFiltered(f), f, D!Sq!Q!AnyPlan(f))
  <2>1. PICK X : X = D!Sq!Q!Matching(sqlite, f, D!Tiers, time) /\ X \subseteq DOMAIN sqlite.cred
    BY DEF D!Sq!Q!Matching
  <2>2. PICK page : page = D!Sq!Q!ListGeminiCLIPaged(sqlite, f, time)
    OBVIOUS
  <2>3. page = [c \in X |-> list[c]]
    BY <1>1, <1>2, <2>1, <2>2 DEF D!Sq!Q!ListGeminiCLIPaged, D!Sq!Q!Restrict
  <2>4. D!Sq!ListGeminiCLIPaged(sqlite, f, time) = [c \in X |-> SqliteListed(c)]
    BY <1>4, <2>1, <2>2, <2>3 DEF D!Sq!ListGeminiCLIPaged
  <2>5. D!Sq!CountGeminiCLIFiltered(sqlite, f, time) = D!Sq!Q!Cardinality(X)
    BY <1>1, <2>1 DEF D!Sq!CountGeminiCLIFiltered, D!Sq!Q!CountGeminiCLIFiltered
  <2>6. D!Sq!ListGeminiCLIPlanTypes(sqlite, f, time)
          = D!Sq!Q!PlanTypes(sqlite, D!Sq!Q!Matching(sqlite, D!Sq!Q!AnyPlan(f), D!Tiers, time))
    BY <1>1 DEF D!Sq!ListGeminiCLIPlanTypes, D!Sq!Q!ListGeminiCLIPlanTypes
  <2>7. D!SqliteFiltered(f) = [paged |-> D!Sq!ListGeminiCLIPaged(sqlite, f, time),
                            count |-> D!Sq!CountGeminiCLIFiltered(sqlite, f, time),
                            plans |-> D!Sq!ListGeminiCLIPlanTypes(sqlite, f, time)]
    BY DEF D!SqliteFiltered
  <2> QED
    BY <2>1, <2>4, <2>5, <2>6, <2>7 DEF SqlitePages
<1> QED
  BY <1>12, <1>13

LEMMA GeminiCLIPostgresTells ==
  ASSUME Known, handler = "gemini"
  PROVE  /\ PostgresTells(D!PostgresTold)
         /\ \A f : PostgresPages(D!PostgresFiltered(f), f, D!Pg!Q!AnyPlan(f))
<1>1. D!Tiers = D!Pg!Q!GeminiTiers /\ Windows = D!Pg!Q!GeminiTiers
  BY ShapesAre DEF D!Tiers, Windows, D!GeminiTiers, D!Pg!Q!GeminiTiers, D!GeminiTiers,
     D!Pg!Q!GeminiTiers
<1>2. PICK list : list = D!Pg!Q!ListGeminiCLI(postgres, D!EndOfSecond)
  OBVIOUS
<1>3. DOMAIN list = DOMAIN postgres.cred
  BY <1>2 DEF D!Pg!Q!ListGeminiCLI
<1>4. \A c \in DOMAIN postgres.cred : D!Pg!ListRowTo(list[c]) = PostgresListed(c)
  <2> TAKE c \in DOMAIN postgres.cred
  <2>1. PICK q : q = D!LeftJoin(postgres, c)
    OBVIOUS
  <2>2. list[c] = PlainRow(postgres.cred[c], PostgresReset(q),
        D!Columns(q.until, D!Tiers, D!Pg!Q!YearOne),
                     D!Coalesce(q.synced, D!Pg!Q!YearOne))
    BY <1>1, <1>2, <2>1, QueriesShare DEF D!Pg!Q!ListGeminiCLI, PlainRow, PostgresReset
  <2> QED
    BY <2>1, <2>2 DEF PostgresListed
<1>5. D!Pg!ListGeminiCLI(postgres, D!EndOfSecond) =
      [c \in DOMAIN postgres.cred |-> PostgresListed(c)]
  BY <1>2, <1>3, <1>4 DEF D!Pg!ListGeminiCLI
<1>6. PICK free : free = D!Pg!Q!ListAvailableGeminiCLI(postgres, D!EndOfSecond)
  OBVIOUS
<1>7. DOMAIN free = PostgresUsable
  BY <1>6 DEF D!Pg!Q!ListAvailableGeminiCLI, PostgresUsable
<1>8. \A c \in PostgresUsable : D!Pg!AvailableRowTo(free[c]) = PostgresAvailable(c)
  <2> TAKE c \in PostgresUsable
  <2>1. PICK q, u : q = D!LeftJoin(postgres, c) /\ u =
        D!Columns(q.until, D!Tiers, D!Pg!Q!Now(D!EndOfSecond))
    OBVIOUS
  <2>2. free[c] = GeminiRow(postgres.cred[c].plan, PostgresReset(q), u, D!Pg!Q!Max(D!Pg!Q!Range(u)),
                      D!Coalesce(q.synced, D!Pg!Q!YearOne))
    BY <1>1, <1>6, <2>1, QueriesShare DEF D!Pg!Q!ListAvailableGeminiCLI, GeminiRow, PostgresReset,
       PostgresUsable
  <2> QED
    BY <2>1, <2>2 DEF PostgresAvailable
<1>9. D!Pg!ListAvailableGeminiCLI(postgres, D!EndOfSecond) =
      [c \in PostgresUsable |-> PostgresAvailable(c)]
  BY <1>6, <1>7, <1>8 DEF D!Pg!ListAvailableGeminiCLI
<1>10. D!Pg!CountEnabled(postgres) = D!Pg!Cardinality(D!Pg!Q!Enabled(postgres))
       /\ D!Pg!CountAll(postgres) = D!Pg!Cardinality(DOMAIN postgres.cred)
  BY DEF D!Pg!CountEnabled, D!Pg!CountAll
<1>11. D!Pg!NextGeminiThrottleDeadline(postgres, D!EndOfSecond) =
       D!Pg!tsTo(D!Pg!Q!NextDeadline(postgres, D!Tiers, D!EndOfSecond))
  BY <1>1 DEF D!Pg!NextGeminiThrottleDeadline, D!Pg!Q!NextGeminiThrottleDeadline
<1>12. PostgresTells(D!PostgresTold)
  <2>1. D!PostgresTold = [get       |-> [c \in DOMAIN postgres.cred |-> D!Pg!GetGeminiCLI(postgres,
        c)],
                     listed    |-> D!Pg!ListGeminiCLI(postgres, D!EndOfSecond),
                     available |-> D!Pg!ListAvailableGeminiCLI(postgres, D!EndOfSecond),
                     enabled   |-> D!Pg!CountEnabled(postgres), count |-> D!Pg!CountAll(postgres),
                     deadline  |-> D!Pg!NextGeminiThrottleDeadline(postgres, D!EndOfSecond)]
    BY DEF D!PostgresTold
  <2>2. [c \in DOMAIN postgres.cred |-> D!Pg!GetGeminiCLI(postgres, c)]
          = [c \in DOMAIN postgres.cred |-> D!Pg!CredentialTo(postgres.cred[c])]
    BY DEF D!Pg!GetGeminiCLI
  <2> QED
    BY <1>5, <1>9, <1>10, <1>11, <2>1, <2>2 DEF PostgresTells
<1>13. ASSUME NEW f PROVE PostgresPages(D!PostgresFiltered(f), f, D!Pg!Q!AnyPlan(f))
  <2>1. PICK X : X = D!Pg!Q!Matching(postgres, f, D!Tiers, D!EndOfSecond) /\
        X \subseteq DOMAIN postgres.cred
    BY DEF D!Pg!Q!Matching
  <2>2. PICK page : page = D!Pg!Q!ListGeminiCLIPaged(postgres, f, D!EndOfSecond)
    OBVIOUS
  <2>3. page = [c \in X |-> list[c]]
    BY <1>1, <1>2, <2>1, <2>2 DEF D!Pg!Q!ListGeminiCLIPaged, D!Pg!Q!Restrict
  <2>4. D!Pg!ListGeminiCLIPaged(postgres, f, D!EndOfSecond) = [c \in X |-> PostgresListed(c)]
    BY <1>4, <2>1, <2>2, <2>3 DEF D!Pg!ListGeminiCLIPaged
  <2>5. D!Pg!CountGeminiCLIFiltered(postgres, f, D!EndOfSecond) = D!Pg!Q!Cardinality(X)
    BY <1>1, <2>1 DEF D!Pg!CountGeminiCLIFiltered, D!Pg!Q!CountGeminiCLIFiltered
  <2>6. D!Pg!ListGeminiCLIPlanTypes(postgres, f, D!EndOfSecond)
          = D!Pg!Q!PlanTypes(postgres, D!Pg!Q!Matching(postgres, D!Pg!Q!AnyPlan(f), D!Tiers,
               D!EndOfSecond))
    BY <1>1 DEF D!Pg!ListGeminiCLIPlanTypes, D!Pg!Q!ListGeminiCLIPlanTypes
  <2>7. D!PostgresFiltered(f) = [paged |-> D!Pg!ListGeminiCLIPaged(postgres, f, D!EndOfSecond),
                            count |-> D!Pg!CountGeminiCLIFiltered(postgres, f, D!EndOfSecond),
                            plans |-> D!Pg!ListGeminiCLIPlanTypes(postgres, f, D!EndOfSecond)]
    BY DEF D!PostgresFiltered
  <2> QED
    BY <2>1, <2>4, <2>5, <2>6, <2>7 DEF PostgresPages
<1> QED
  BY <1>12, <1>13

LEMMA AntigravitySqliteTells ==
  ASSUME Known, handler = "antigravity"
  PROVE  /\ SqliteTells(D!SqliteTold)
         /\ \A f : SqlitePages(D!SqliteFiltered(f), f, D!Sq!Q!AnyPlan(f))
<1>1. D!Tiers = D!Sq!Q!AntigravityTiers /\ Windows = D!Sq!Q!AntigravityTiers
  BY ShapesAre DEF D!Tiers, Windows, D!AntigravityTiers, D!Sq!Q!AntigravityTiers,
     D!AntigravityTiers, D!Sq!Q!AntigravityTiers
<1>2. PICK list : list = D!Sq!Q!ListAntigravity(sqlite, time)
  OBVIOUS
<1>3. DOMAIN list = DOMAIN sqlite.cred
  BY <1>2 DEF D!Sq!Q!ListAntigravity
<1>4. \A c \in DOMAIN sqlite.cred : D!Sq!ListRowTo(list[c]) = SqliteListed(c)
  <2> TAKE c \in DOMAIN sqlite.cred
  <2>1. PICK q : q = D!LeftJoin(sqlite, c)
    OBVIOUS
  <2>2. list[c] = CreditRow(sqlite.cred[c], SqliteReset(q),
        D!Columns(q.until, D!Tiers, D!Sq!Q!Blank),
                      c \in sqlite.credits, D!Coalesce(q.synced, D!Sq!Q!Blank))
    BY <1>1, <1>2, <2>1, QueriesShare DEF D!Sq!Q!ListAntigravity, CreditRow, SqliteReset
  <2> QED
    BY <2>1, <2>2 DEF SqliteListed
<1>5. D!Sq!ListAntigravity(sqlite, time) = [c \in DOMAIN sqlite.cred |-> SqliteListed(c)]
  BY <1>2, <1>3, <1>4 DEF D!Sq!ListAntigravity
<1>6. PICK free : free = D!Sq!Q!ListAvailableAntigravity(sqlite, time)
  OBVIOUS
<1>7. DOMAIN free = SqliteUsable
  BY <1>6 DEF D!Sq!Q!ListAvailableAntigravity, SqliteUsable
<1>8. \A c \in SqliteUsable : D!Sq!AvailableRowTo(free[c]) = SqliteAvailable(c)
  <2> TAKE c \in SqliteUsable
  <2>1. PICK q, u : q = D!LeftJoin(sqlite, c) /\ u = D!Columns(q.until, D!Tiers, D!Sq!Q!Now(time))
    OBVIOUS
  <2>2. free[c] = AntigravityRow(sqlite.cred[c].plan, SqliteReset(q), c \in sqlite.credits, u,
                           D!Sq!Q!Max(D!Sq!Q!Range(u)), D!Coalesce(q.synced, D!Sq!Q!Blank))
    BY <1>1, <1>6, <2>1, QueriesShare DEF D!Sq!Q!ListAvailableAntigravity, AntigravityRow,
       SqliteReset, SqliteUsable
  <2> QED
    BY <2>1, <2>2 DEF SqliteAvailable
<1>9. D!Sq!ListAvailableAntigravity(sqlite, time) = [c \in SqliteUsable |-> SqliteAvailable(c)]
  BY <1>6, <1>7, <1>8 DEF D!Sq!ListAvailableAntigravity
<1>10. D!Sq!CountEnabled(sqlite) = D!Sq!Cardinality(D!Sq!Q!Enabled(sqlite))
       /\ D!Sq!CountAll(sqlite) = D!Sq!Cardinality(DOMAIN sqlite.cred)
  BY DEF D!Sq!CountEnabled, D!Sq!CountAll
<1>11. D!Sq!NextAntigravityThrottleDeadline(sqlite, time) =
       D!Sq!parseTime(D!Sq!Q!NextDeadline(sqlite, D!Tiers, time))
  BY <1>1 DEF D!Sq!NextAntigravityThrottleDeadline, D!Sq!Q!NextAntigravityThrottleDeadline
<1>12. SqliteTells(D!SqliteTold)
  <2>1. D!SqliteTold = [get       |-> [c \in DOMAIN sqlite.cred |-> D!Sq!GetAntigravity(sqlite, c)],
                     listed    |-> D!Sq!ListAntigravity(sqlite, time),
                     available |-> D!Sq!ListAvailableAntigravity(sqlite, time),
                     enabled   |-> D!Sq!CountEnabled(sqlite), count |-> D!Sq!CountAll(sqlite),
                     deadline  |-> D!Sq!NextAntigravityThrottleDeadline(sqlite, time)]
    BY DEF D!SqliteTold
  <2>2. [c \in DOMAIN sqlite.cred |-> D!Sq!GetAntigravity(sqlite, c)]
          = [c \in DOMAIN sqlite.cred |-> D!Sq!CredentialTo(sqlite.cred[c])]
    BY DEF D!Sq!GetAntigravity
  <2> QED
    BY <1>5, <1>9, <1>10, <1>11, <2>1, <2>2 DEF SqliteTells
<1>13. ASSUME NEW f PROVE SqlitePages(D!SqliteFiltered(f), f, D!Sq!Q!AnyPlan(f))
  <2>1. PICK X : X = D!Sq!Q!Matching(sqlite, f, D!Tiers, time) /\ X \subseteq DOMAIN sqlite.cred
    BY DEF D!Sq!Q!Matching
  <2>2. PICK page : page = D!Sq!Q!ListAntigravityPaged(sqlite, f, time)
    OBVIOUS
  <2>3. page = [c \in X |-> list[c]]
    BY <1>1, <1>2, <2>1, <2>2 DEF D!Sq!Q!ListAntigravityPaged, D!Sq!Q!Restrict
  <2>4. D!Sq!ListAntigravityPaged(sqlite, f, time) = [c \in X |-> SqliteListed(c)]
    BY <1>4, <2>1, <2>2, <2>3 DEF D!Sq!ListAntigravityPaged
  <2>5. D!Sq!CountAntigravityFiltered(sqlite, f, time) = D!Sq!Q!Cardinality(X)
    BY <1>1, <2>1 DEF D!Sq!CountAntigravityFiltered, D!Sq!Q!CountAntigravityFiltered
  <2>6. D!Sq!ListAntigravityPlanTypes(sqlite, f, time)
          = D!Sq!Q!PlanTypes(sqlite, D!Sq!Q!Matching(sqlite, D!Sq!Q!AnyPlan(f), D!Tiers, time))
    BY <1>1 DEF D!Sq!ListAntigravityPlanTypes, D!Sq!Q!ListAntigravityPlanTypes
  <2>7. D!SqliteFiltered(f) = [paged |-> D!Sq!ListAntigravityPaged(sqlite, f, time),
                            count |-> D!Sq!CountAntigravityFiltered(sqlite, f, time),
                            plans |-> D!Sq!ListAntigravityPlanTypes(sqlite, f, time)]
    BY DEF D!SqliteFiltered
  <2> QED
    BY <2>1, <2>4, <2>5, <2>6, <2>7 DEF SqlitePages
<1> QED
  BY <1>12, <1>13

LEMMA AntigravityPostgresTells ==
  ASSUME Known, handler = "antigravity"
  PROVE  /\ PostgresTells(D!PostgresTold)
         /\ \A f : PostgresPages(D!PostgresFiltered(f), f, D!Pg!Q!AnyPlan(f))
<1>1. D!Tiers = D!Pg!Q!AntigravityTiers /\ Windows = D!Pg!Q!AntigravityTiers
  BY ShapesAre DEF D!Tiers, Windows, D!AntigravityTiers, D!Pg!Q!AntigravityTiers,
     D!AntigravityTiers, D!Pg!Q!AntigravityTiers
<1>2. PICK list : list = D!Pg!Q!ListAntigravity(postgres, D!EndOfSecond)
  OBVIOUS
<1>3. DOMAIN list = DOMAIN postgres.cred
  BY <1>2 DEF D!Pg!Q!ListAntigravity
<1>4. \A c \in DOMAIN postgres.cred : D!Pg!ListRowTo(list[c]) = PostgresListed(c)
  <2> TAKE c \in DOMAIN postgres.cred
  <2>1. PICK q : q = D!LeftJoin(postgres, c)
    OBVIOUS
  <2>2. list[c] = CreditRow(postgres.cred[c], PostgresReset(q),
        D!Columns(q.until, D!Tiers, D!Pg!Q!YearOne),
                      c \in postgres.credits, D!Coalesce(q.synced, D!Pg!Q!YearOne))
    BY <1>1, <1>2, <2>1, QueriesShare DEF D!Pg!Q!ListAntigravity, CreditRow, PostgresReset
  <2> QED
    BY <2>1, <2>2 DEF PostgresListed
<1>5. D!Pg!ListAntigravity(postgres, D!EndOfSecond) =
      [c \in DOMAIN postgres.cred |-> PostgresListed(c)]
  BY <1>2, <1>3, <1>4 DEF D!Pg!ListAntigravity
<1>6. PICK free : free = D!Pg!Q!ListAvailableAntigravity(postgres, D!EndOfSecond)
  OBVIOUS
<1>7. DOMAIN free = PostgresUsable
  BY <1>6 DEF D!Pg!Q!ListAvailableAntigravity, PostgresUsable
<1>8. \A c \in PostgresUsable : D!Pg!AvailableRowTo(free[c]) = PostgresAvailable(c)
  <2> TAKE c \in PostgresUsable
  <2>1. PICK q, u : q = D!LeftJoin(postgres, c) /\ u =
        D!Columns(q.until, D!Tiers, D!Pg!Q!Now(D!EndOfSecond))
    OBVIOUS
  <2>2. free[c] = AntigravityRow(postgres.cred[c].plan, PostgresReset(q), c \in postgres.credits, u,
                           D!Pg!Q!Max(D!Pg!Q!Range(u)), D!Coalesce(q.synced, D!Pg!Q!YearOne))
    BY <1>1, <1>6, <2>1, QueriesShare DEF D!Pg!Q!ListAvailableAntigravity, AntigravityRow,
       PostgresReset, PostgresUsable
  <2> QED
    BY <2>1, <2>2 DEF PostgresAvailable
<1>9. D!Pg!ListAvailableAntigravity(postgres, D!EndOfSecond) =
      [c \in PostgresUsable |-> PostgresAvailable(c)]
  BY <1>6, <1>7, <1>8 DEF D!Pg!ListAvailableAntigravity
<1>10. D!Pg!CountEnabled(postgres) = D!Pg!Cardinality(D!Pg!Q!Enabled(postgres))
       /\ D!Pg!CountAll(postgres) = D!Pg!Cardinality(DOMAIN postgres.cred)
  BY DEF D!Pg!CountEnabled, D!Pg!CountAll
<1>11. D!Pg!NextAntigravityThrottleDeadline(postgres, D!EndOfSecond) =
       D!Pg!tsTo(D!Pg!Q!NextDeadline(postgres, D!Tiers, D!EndOfSecond))
  BY <1>1 DEF D!Pg!NextAntigravityThrottleDeadline, D!Pg!Q!NextAntigravityThrottleDeadline
<1>12. PostgresTells(D!PostgresTold)
  <2>1. D!PostgresTold = [get       |-> [c \in DOMAIN postgres.cred |-> D!Pg!GetAntigravity(postgres, c)],
                     listed    |-> D!Pg!ListAntigravity(postgres, D!EndOfSecond),
                     available |-> D!Pg!ListAvailableAntigravity(postgres, D!EndOfSecond),
                     enabled   |-> D!Pg!CountEnabled(postgres), count |-> D!Pg!CountAll(postgres),
                     deadline  |-> D!Pg!NextAntigravityThrottleDeadline(postgres, D!EndOfSecond)]
    BY DEF D!PostgresTold
  <2>2. [c \in DOMAIN postgres.cred |-> D!Pg!GetAntigravity(postgres, c)]
          = [c \in DOMAIN postgres.cred |-> D!Pg!CredentialTo(postgres.cred[c])]
    BY DEF D!Pg!GetAntigravity
  <2> QED
    BY <1>5, <1>9, <1>10, <1>11, <2>1, <2>2 DEF PostgresTells
<1>13. ASSUME NEW f PROVE PostgresPages(D!PostgresFiltered(f), f, D!Pg!Q!AnyPlan(f))
  <2>1. PICK X : X = D!Pg!Q!Matching(postgres, f, D!Tiers, D!EndOfSecond) /\
        X \subseteq DOMAIN postgres.cred
    BY DEF D!Pg!Q!Matching
  <2>2. PICK page : page = D!Pg!Q!ListAntigravityPaged(postgres, f, D!EndOfSecond)
    OBVIOUS
  <2>3. page = [c \in X |-> list[c]]
    BY <1>1, <1>2, <2>1, <2>2 DEF D!Pg!Q!ListAntigravityPaged, D!Pg!Q!Restrict
  <2>4. D!Pg!ListAntigravityPaged(postgres, f, D!EndOfSecond) = [c \in X |-> PostgresListed(c)]
    BY <1>4, <2>1, <2>2, <2>3 DEF D!Pg!ListAntigravityPaged
  <2>5. D!Pg!CountAntigravityFiltered(postgres, f, D!EndOfSecond) = D!Pg!Q!Cardinality(X)
    BY <1>1, <2>1 DEF D!Pg!CountAntigravityFiltered, D!Pg!Q!CountAntigravityFiltered
  <2>6. D!Pg!ListAntigravityPlanTypes(postgres, f, D!EndOfSecond)
          = D!Pg!Q!PlanTypes(postgres, D!Pg!Q!Matching(postgres, D!Pg!Q!AnyPlan(f), D!Tiers,
               D!EndOfSecond))
    BY <1>1 DEF D!Pg!ListAntigravityPlanTypes, D!Pg!Q!ListAntigravityPlanTypes
  <2>7. D!PostgresFiltered(f) = [paged |-> D!Pg!ListAntigravityPaged(postgres, f, D!EndOfSecond),
                            count |-> D!Pg!CountAntigravityFiltered(postgres, f, D!EndOfSecond),
                            plans |-> D!Pg!ListAntigravityPlanTypes(postgres, f, D!EndOfSecond)]
    BY DEF D!PostgresFiltered
  <2> QED
    BY <2>1, <2>4, <2>5, <2>6, <2>7 DEF PostgresPages
<1> QED
  BY <1>12, <1>13

LEMMA OpenCodeGoSqliteTells ==
  ASSUME Known, handler = "opencode"
  PROVE  /\ SqliteTells(D!SqliteTold)
         /\ \A f : SqlitePages(D!SqliteFiltered(f), D!Sq!Q!AnyPlan(f), D!Sq!Q!AnyPlan(f))
<1>1. D!Tiers = D!Sq!Q!OpenCodeTiers /\ Windows = D!Sq!Q!OpenCodeWindows
  BY ShapesAre DEF D!Tiers, Windows, D!OpenCodeTiers, D!Sq!Q!OpenCodeTiers, D!OpenCodeWindows,
     D!Sq!Q!OpenCodeWindows
<1>2. PICK list : list = D!Sq!Q!ListOpenCodeGo(sqlite, time)
  OBVIOUS
<1>3. DOMAIN list = DOMAIN sqlite.cred
  BY <1>2 DEF D!Sq!Q!ListOpenCodeGo
<1>4. \A c \in DOMAIN sqlite.cred : D!Sq!ListRowTo(list[c]) = SqliteListed(c)
  <2> TAKE c \in DOMAIN sqlite.cred
  <2>1. PICK q : q = D!LeftJoin(sqlite, c)
    OBVIOUS
  <2>2. list[c] = PlainRow(sqlite.cred[c], SqliteReset(q),
        D!Columns(q.until, D!Tiers, D!Sq!Q!Blank),
                     D!Coalesce(q.synced, D!Sq!Q!Blank))
    BY <1>1, <1>2, <2>1, QueriesShare DEF D!Sq!Q!ListOpenCodeGo, PlainRow, SqliteReset
  <2> QED
    BY <2>1, <2>2 DEF SqliteListed
<1>5. D!Sq!ListOpenCodeGo(sqlite, time) = [c \in DOMAIN sqlite.cred |-> SqliteListed(c)]
  BY <1>2, <1>3, <1>4 DEF D!Sq!ListOpenCodeGo
<1>6. PICK free : free = D!Sq!Q!ListAvailableOpenCodeGo(sqlite, time)
  OBVIOUS
<1>7. DOMAIN free = SqliteUsable
  BY <1>6 DEF D!Sq!Q!ListAvailableOpenCodeGo, SqliteUsable
<1>8. \A c \in SqliteUsable : D!Sq!ParsedQuota(free[c]) = SqliteAvailable(c)
  <2> TAKE c \in SqliteUsable
  <2>1. PICK q, u : q = D!LeftJoin(sqlite, c) /\ u = D!Columns(q.until, D!Tiers, D!Sq!Q!Now(time))
    OBVIOUS
  <2>2. free[c] = OpenCodeRow(SqliteReset(q), D!Columns(q.until, D!Tiers, D!Sq!Q!Blank),
                        D!Coalesce(q.synced, sqlite.cred[c].at.created))
    BY <1>1, <1>6, <2>1, QueriesShare DEF D!Sq!Q!ListAvailableOpenCodeGo, OpenCodeRow,
       SqliteReset, SqliteUsable
  <2> QED
    BY <2>1, <2>2 DEF SqliteAvailable
<1>9. D!Sq!ListAvailableOpenCodeGo(sqlite, time) = [c \in SqliteUsable |-> SqliteAvailable(c)]
  BY <1>6, <1>7, <1>8 DEF D!Sq!ListAvailableOpenCodeGo
<1>10. D!Sq!CountEnabled(sqlite) = D!Sq!Cardinality(D!Sq!Q!Enabled(sqlite))
       /\ D!Sq!CountAll(sqlite) = D!Sq!Cardinality(DOMAIN sqlite.cred)
  BY DEF D!Sq!CountEnabled, D!Sq!CountAll
<1>11. D!Sq!NextOpenCodeGoThrottleDeadline(sqlite, time) =
       D!Sq!parseTime(D!Sq!Q!NextDeadline(sqlite, D!Tiers, time))
  BY <1>1 DEF D!Sq!NextOpenCodeGoThrottleDeadline, D!Sq!Q!NextOpenCodeGoThrottleDeadline
<1>12. SqliteTells(D!SqliteTold)
  <2>1. D!SqliteTold = [get       |-> [c \in DOMAIN sqlite.cred |-> D!Sq!GetOpenCodeGo(sqlite, c)],
                     listed    |-> D!Sq!ListOpenCodeGo(sqlite, time),
                     available |-> D!Sq!ListAvailableOpenCodeGo(sqlite, time),
                     enabled   |-> D!Sq!CountEnabled(sqlite), count |-> D!Sq!CountAll(sqlite),
                     deadline  |-> D!Sq!NextOpenCodeGoThrottleDeadline(sqlite, time)]
    BY DEF D!SqliteTold
  <2>2. [c \in DOMAIN sqlite.cred |-> D!Sq!GetOpenCodeGo(sqlite, c)]
          = [c \in DOMAIN sqlite.cred |-> D!Sq!CredentialTo(sqlite.cred[c])]
    BY DEF D!Sq!GetOpenCodeGo
  <2> QED
    BY <1>5, <1>9, <1>10, <1>11, <2>1, <2>2 DEF SqliteTells
<1>13. ASSUME NEW f PROVE SqlitePages(D!SqliteFiltered(f), D!Sq!Q!AnyPlan(f), D!Sq!Q!AnyPlan(f))
  <2>1. PICK X : X = D!Sq!Q!Matching(sqlite, D!Sq!Q!AnyPlan(f), D!Tiers, time) /\
        X \subseteq DOMAIN sqlite.cred
    BY DEF D!Sq!Q!Matching
  <2>2. PICK page : page = D!Sq!Q!ListOpenCodeGoPaged(sqlite, f, time)
    OBVIOUS
  <2>3. page = [c \in X |-> list[c]]
    BY <1>1, <1>2, <2>1, <2>2 DEF D!Sq!Q!ListOpenCodeGoPaged, D!Sq!Q!Restrict
  <2>4. D!Sq!ListOpenCodeGoPaged(sqlite, f, time) = [c \in X |-> SqliteListed(c)]
    BY <1>4, <2>1, <2>2, <2>3 DEF D!Sq!ListOpenCodeGoPaged
  <2>5. D!Sq!CountOpenCodeGoFiltered(sqlite, f, time) = D!Sq!Q!Cardinality(X)
    BY <1>1, <2>1 DEF D!Sq!CountOpenCodeGoFiltered, D!Sq!Q!CountOpenCodeGoFiltered
  <2>6. D!SqliteFiltered(f) = [paged |-> D!Sq!ListOpenCodeGoPaged(sqlite, f, time),
                            count |-> D!Sq!CountOpenCodeGoFiltered(sqlite, f, time), plans |-> {}]
    BY DEF D!SqliteFiltered
  <2> QED
    BY <2>1, <2>4, <2>5, <2>6 DEF SqlitePages
<1> QED
  BY <1>12, <1>13

LEMMA OpenCodeGoPostgresTells ==
  ASSUME Known, handler = "opencode"
  PROVE  /\ PostgresTells(D!PostgresTold)
         /\ \A f : PostgresPages(D!PostgresFiltered(f), D!Pg!Q!AnyPlan(f), D!Pg!Q!AnyPlan(f))
<1>1. D!Tiers = D!Pg!Q!OpenCodeTiers /\ Windows = D!Pg!Q!OpenCodeWindows
  BY ShapesAre DEF D!Tiers, Windows, D!OpenCodeTiers, D!Pg!Q!OpenCodeTiers, D!OpenCodeWindows,
     D!Pg!Q!OpenCodeWindows
<1>2. PICK list : list = D!Pg!Q!ListOpenCodeGo(postgres, D!EndOfSecond)
  OBVIOUS
<1>3. DOMAIN list = DOMAIN postgres.cred
  BY <1>2 DEF D!Pg!Q!ListOpenCodeGo
<1>4. \A c \in DOMAIN postgres.cred : D!Pg!ListRowTo(list[c]) = PostgresListed(c)
  <2> TAKE c \in DOMAIN postgres.cred
  <2>1. PICK q : q = D!LeftJoin(postgres, c)
    OBVIOUS
  <2>2. list[c] = PlainRow(postgres.cred[c], PostgresReset(q),
        D!Columns(q.until, D!Tiers, D!Pg!Q!YearOne),
                     D!Coalesce(q.synced, D!Pg!Q!YearOne))
    BY <1>1, <1>2, <2>1, QueriesShare DEF D!Pg!Q!ListOpenCodeGo, PlainRow, PostgresReset
  <2> QED
    BY <2>1, <2>2 DEF PostgresListed
<1>5. D!Pg!ListOpenCodeGo(postgres, D!EndOfSecond) =
      [c \in DOMAIN postgres.cred |-> PostgresListed(c)]
  BY <1>2, <1>3, <1>4 DEF D!Pg!ListOpenCodeGo
<1>6. PICK free : free = D!Pg!Q!ListAvailableOpenCodeGo(postgres, D!EndOfSecond)
  OBVIOUS
<1>7. DOMAIN free = PostgresUsable
  BY <1>6 DEF D!Pg!Q!ListAvailableOpenCodeGo, PostgresUsable
<1>8. \A c \in PostgresUsable : D!Pg!QuotaTo(free[c]) = PostgresAvailable(c)
  <2> TAKE c \in PostgresUsable
  <2>1. PICK q, u : q = D!LeftJoin(postgres, c) /\ u =
        D!Columns(q.until, D!Tiers, D!Pg!Q!Now(D!EndOfSecond))
    OBVIOUS
  <2>2. free[c] = OpenCodeRow(PostgresReset(q), D!Columns(q.until, D!Tiers, D!Pg!Q!YearOne),
                        D!Coalesce(q.synced, postgres.cred[c].at.created))
    BY <1>1, <1>6, <2>1, QueriesShare DEF D!Pg!Q!ListAvailableOpenCodeGo, OpenCodeRow,
       PostgresReset, PostgresUsable
  <2> QED
    BY <2>1, <2>2 DEF PostgresAvailable
<1>9. D!Pg!ListAvailableOpenCodeGo(postgres, D!EndOfSecond) =
      [c \in PostgresUsable |-> PostgresAvailable(c)]
  BY <1>6, <1>7, <1>8 DEF D!Pg!ListAvailableOpenCodeGo
<1>10. D!Pg!CountEnabled(postgres) = D!Pg!Cardinality(D!Pg!Q!Enabled(postgres))
       /\ D!Pg!CountAll(postgres) = D!Pg!Cardinality(DOMAIN postgres.cred)
  BY DEF D!Pg!CountEnabled, D!Pg!CountAll
<1>11. D!Pg!NextOpenCodeGoThrottleDeadline(postgres, D!EndOfSecond) =
       D!Pg!tsTo(D!Pg!Q!NextDeadline(postgres, D!Tiers, D!EndOfSecond))
  BY <1>1 DEF D!Pg!NextOpenCodeGoThrottleDeadline, D!Pg!Q!NextOpenCodeGoThrottleDeadline
<1>12. PostgresTells(D!PostgresTold)
  <2>1. D!PostgresTold = [get       |-> [c \in DOMAIN postgres.cred |-> D!Pg!GetOpenCodeGo(postgres, c)],
                     listed    |-> D!Pg!ListOpenCodeGo(postgres, D!EndOfSecond),
                     available |-> D!Pg!ListAvailableOpenCodeGo(postgres, D!EndOfSecond),
                     enabled   |-> D!Pg!CountEnabled(postgres), count |-> D!Pg!CountAll(postgres),
                     deadline  |-> D!Pg!NextOpenCodeGoThrottleDeadline(postgres, D!EndOfSecond)]
    BY DEF D!PostgresTold
  <2>2. [c \in DOMAIN postgres.cred |-> D!Pg!GetOpenCodeGo(postgres, c)]
          = [c \in DOMAIN postgres.cred |-> D!Pg!CredentialTo(postgres.cred[c])]
    BY DEF D!Pg!GetOpenCodeGo
  <2> QED
    BY <1>5, <1>9, <1>10, <1>11, <2>1, <2>2 DEF PostgresTells
<1>13. ASSUME NEW f PROVE PostgresPages(D!PostgresFiltered(f), D!Pg!Q!AnyPlan(f), D!Pg!Q!AnyPlan(f))
  <2>1. PICK X : X = D!Pg!Q!Matching(postgres, D!Pg!Q!AnyPlan(f), D!Tiers, D!EndOfSecond) /\
        X \subseteq DOMAIN postgres.cred
    BY DEF D!Pg!Q!Matching
  <2>2. PICK page : page = D!Pg!Q!ListOpenCodeGoPaged(postgres, f, D!EndOfSecond)
    OBVIOUS
  <2>3. page = [c \in X |-> list[c]]
    BY <1>1, <1>2, <2>1, <2>2 DEF D!Pg!Q!ListOpenCodeGoPaged, D!Pg!Q!Restrict
  <2>4. D!Pg!ListOpenCodeGoPaged(postgres, f, D!EndOfSecond) = [c \in X |-> PostgresListed(c)]
    BY <1>4, <2>1, <2>2, <2>3 DEF D!Pg!ListOpenCodeGoPaged
  <2>5. D!Pg!CountOpenCodeGoFiltered(postgres, f, D!EndOfSecond) = D!Pg!Q!Cardinality(X)
    BY <1>1, <2>1 DEF D!Pg!CountOpenCodeGoFiltered, D!Pg!Q!CountOpenCodeGoFiltered
  <2>6. D!PostgresFiltered(f) = [paged |-> D!Pg!ListOpenCodeGoPaged(postgres, f, D!EndOfSecond),
                            count |-> D!Pg!CountOpenCodeGoFiltered(postgres, f, D!EndOfSecond),
                                 plans |-> {}]
    BY DEF D!PostgresFiltered
  <2> QED
    BY <2>1, <2>4, <2>5, <2>6 DEF PostgresPages
<1> QED
  BY <1>12, <1>13

-----------------------------------------------------------------------------
(* Both answer the same *)

LEMMA BothTell ==
  ASSUME Known
  PROVE  SqliteTells(D!SqliteTold) /\ PostgresTells(D!PostgresTold)
BY CodexSqliteTells, GeminiCLISqliteTells, AntigravitySqliteTells, OpenCodeGoSqliteTells,
   CodexPostgresTells, GeminiCLIPostgresTells, AntigravityPostgresTells, OpenCodeGoPostgresTells
   DEF Known

\* The filter of the page.
PageFilter(f) == IF handler = "opencode" THEN D!Sq!Q!AnyPlan(f) ELSE f

LEMMA BothPage ==
  ASSUME Known, NEW f
  PROVE  /\ D!Sq!Q!AnyPlan(f) = D!Pg!Q!AnyPlan(f)
         /\ SqlitePages(D!SqliteFiltered(f), PageFilter(f), D!Sq!Q!AnyPlan(f))
         /\ PostgresPages(D!PostgresFiltered(f), PageFilter(f), D!Sq!Q!AnyPlan(f))
<1>1. D!Sq!Q!AnyPlan(f) = D!Pg!Q!AnyPlan(f)
  BY DEF D!Sq!Q!AnyPlan, D!Pg!Q!AnyPlan
<1>2. CASE handler = "codex"
  BY <1>1, <1>2, CodexSqliteTells, CodexPostgresTells DEF PageFilter
<1>3. CASE handler = "gemini"
  BY <1>1, <1>3, GeminiCLISqliteTells, GeminiCLIPostgresTells DEF PageFilter
<1>4. CASE handler = "antigravity"
  BY <1>1, <1>4, AntigravitySqliteTells, AntigravityPostgresTells DEF PageFilter
<1>5. CASE handler = "opencode"
  BY <1>1, <1>5, OpenCodeGoSqliteTells, OpenCodeGoPostgresTells DEF PageFilter
<1> QED
  BY <1>1, <1>2, <1>3, <1>4, <1>5 DEF Known

LEMMA AnyPlanFits ==
  ASSUME NEW f \in D!Filters
  PROVE  PlanFits(D!Sq!Q!AnyPlan(f)) /\ PlanFits(PageFilter(f))
<1>1. PICK g : g = D!Sq!Q!AnyPlan(f)
  OBVIOUS
<1>2. g = [f EXCEPT !.plan = ""]
  BY <1>1 DEF D!Sq!Q!AnyPlan
<1>3. "plan" \in DOMAIN f /\ f = [x \in DOMAIN f |-> f[x]]
  BY DEF D!Filters
<1>4. g["plan"] = ""
  BY <1>2, <1>3
<1>5. g.plan = ""
  BY <1>4
<1> QED
  BY <1>1, <1>5 DEF PlanFits, PageFilter

LEMMA StoredAgree == StoresInv => D!StoresAgree
<1> SUFFICES ASSUME StoresInv PROVE D!StoresAgree
  OBVIOUS
<1>1. Known
  BY StoresKnown
<1>2. PICK s, p : /\ s = D!SqliteTold /\ p = D!PostgresTold
                  /\ SqliteTells(s) /\ PostgresTells(p)
  BY <1>1, BothTell
<1>3. PICK X, Y : X = DOMAIN sqlite.cred /\ Y = DOMAIN postgres.cred /\ SameIds(X, Y)
  BY CredsSame
<1>4. SameIds(D!Sq!Q!Enabled(sqlite), D!Pg!Q!Enabled(postgres))
  BY EnabledSame
<1>5. SameIds(SqliteUsable, PostgresUsable)
  BY <1>4, UsableSame DEF SqliteUsable, PostgresUsable
<1>6. \A c \in X \ refused : c \in Ids \ refused /\ c \in DOMAIN sqlite.cred /\ c \in Y
  BY <1>3 DEF SameIds
<1>7. D!Same(s.get, p.get, D!WholeCred)
  <2>1. s.get = [c \in X |-> D!Sq!CredentialTo(sqlite.cred[c])]
        /\ p.get = [c \in Y |-> D!Pg!CredentialTo(postgres.cred[c])]
    BY <1>2, <1>3 DEF SqliteTells, PostgresTells
  <2>2. \A c \in X \ refused :
          D!Sq!CredentialTo(sqlite.cred[c]) = D!WholeCred(D!Pg!CredentialTo(postgres.cred[c]))
    <3> TAKE c \in X \ refused
    <3>1. CredAgree(sqlite.cred[c], postgres.cred[c])
      BY <1>6 DEF StoresInv, RelAt
    <3> QED
      BY <1>1, <3>1, CredRowsSame DEF CredSame
  <2>3. X \ refused = Y \ refused
    BY <1>3, SameIdsAre
  <2> QED
    BY <2>1, <2>2, <2>3 DEF D!Same
<1>8. D!Same(s.listed, p.listed, D!WholeListed)
  <2>1. s.listed = [c \in X |-> SqliteListed(c)] /\ p.listed = [c \in Y |-> PostgresListed(c)]
    BY <1>2, <1>3 DEF SqliteTells, PostgresTells
  <2>2. \A c \in X \ refused : SqliteListed(c) = D!WholeListed(PostgresListed(c))
    BY <1>6, ListedSame
  <2>3. X \ refused = Y \ refused
    BY <1>3, SameIdsAre
  <2> QED
    BY <2>1, <2>2, <2>3 DEF D!Same
<1>9. D!Same(s.available, p.available, D!WholeAvailable)
  <2>1. s.available = [c \in SqliteUsable |-> SqliteAvailable(c)]
        /\ p.available = [c \in PostgresUsable |-> PostgresAvailable(c)]
    BY <1>2 DEF SqliteTells, PostgresTells
  <2>2. \A c \in SqliteUsable \ refused : SqliteAvailable(c) =
        D!WholeAvailable(PostgresAvailable(c))
    <3> TAKE c \in SqliteUsable \ refused
    <3>1. c \in X \ refused
      BY <1>3 DEF SqliteUsable, D!Sq!Q!Usable, D!Sq!Q!Enabled
    <3> QED
      BY <1>6, <3>1, AvailableSame
  <2>3. SqliteUsable \ refused = PostgresUsable \ refused
    BY <1>5, SameIdsAre
  <2> QED
    BY <2>1, <2>2, <2>3 DEF D!Same
<1>10. ASSUME refused = {}
       PROVE  s.enabled = p.enabled /\ s.count = p.count /\ s.deadline = D!Whole(p.deadline)
  <2>1. X = Y /\ D!Sq!Q!Enabled(sqlite) = D!Pg!Q!Enabled(postgres)
    BY <1>3, <1>4, <1>10, SameIdsAre
  <2>2. s.enabled = p.enabled /\ s.count = p.count
    BY <1>2, <1>3, <2>1, CountsSame DEF SqliteTells, PostgresTells
  <2>3. s.deadline = D!Whole(p.deadline)
    BY <1>2, <1>10, DeadlineSame DEF SqliteTells, PostgresTells, TimeSame
  <2> QED
    BY <2>2, <2>3
<1>11. ASSUME NEW f \in D!Filters, NEW sf, NEW pf, sf = D!SqliteFiltered(f), pf =
       D!PostgresFiltered(f)
       PROVE  /\ D!Same(sf.paged, pf.paged, D!WholeListed)
              /\ refused = {} => sf.count = pf.count /\ sf.plans = pf.plans
  <2>1. PICK g, h : g = PageFilter(f) /\ h = D!Sq!Q!AnyPlan(f)
    OBVIOUS
  <2>2. SqlitePages(sf, g, h) /\ PostgresPages(pf, g, h)
    BY <1>1, <1>11, <2>1, BothPage
  <2>3. PlanFits(g) /\ PlanFits(h)
    BY <2>1, AnyPlanFits
  <2>4. PICK U, V : /\ U = D!Sq!Q!Matching(sqlite, g, D!Tiers, time)
                    /\ V = D!Pg!Q!Matching(postgres, g, D!Tiers, D!EndOfSecond) /\ SameIds(U, V)
    BY <2>3, MatchingSame
  <2>5. PICK W, Z : /\ W = D!Sq!Q!Matching(sqlite, h, D!Tiers, time)
                    /\ Z = D!Pg!Q!Matching(postgres, h, D!Tiers, D!EndOfSecond) /\ SameIds(W, Z)
    BY <2>3, MatchingSame
  <2>6. D!Same(sf.paged, pf.paged, D!WholeListed)
    <3>1. sf.paged = [c \in U |-> SqliteListed(c)] /\ pf.paged = [c \in V |-> PostgresListed(c)]
      BY <2>2, <2>4 DEF SqlitePages, PostgresPages
    <3>2. \A c \in U \ refused : SqliteListed(c) = D!WholeListed(PostgresListed(c))
      <4> TAKE c \in U \ refused
      <4>1. c \in X \ refused
        BY <1>3, <2>4 DEF D!Sq!Q!Matching
      <4> QED
        BY <1>6, <4>1, ListedSame
    <3>3. U \ refused = V \ refused
      BY <2>4, SameIdsAre
    <3> QED
      BY <3>1, <3>2, <3>3 DEF D!Same
  <2>7. ASSUME refused = {} PROVE sf.count = pf.count /\ sf.plans = pf.plans
    <3>1. U = V /\ W = Z
      BY <2>4, <2>5, <2>7, SameIdsAre
    <3>2. sf.count = pf.count
      BY <2>2, <2>4, <3>1, CountsSame DEF SqlitePages, PostgresPages
    <3>3. handler # "opencode" => D!Sq!Q!PlanTypes(sqlite, W) = D!Pg!Q!PlanTypes(postgres, W)
      <4>1. W \subseteq DOMAIN sqlite.cred
        BY <2>5 DEF D!Sq!Q!Matching
      <4> QED
        BY <2>7, <4>1, PlansSame
    <3>4. sf.plans = pf.plans
      BY <2>2, <2>5, <3>1, <3>3 DEF SqlitePages, PostgresPages
    <3> QED
      BY <3>2, <3>4
  <2> QED
    BY <2>6, <2>7
<1> QED
  BY <1>2, <1>7, <1>8, <1>9, <1>10, <1>11 DEF D!StoresAgree

-----------------------------------------------------------------------------
(* The deadline covers the throttles *)

\* Where an answer has the times of the throttles.
LEMMA UntilSet ==
  /\ \A r, a, u, m : "until" \in DOMAIN r =>
       "until" \in DOMAIN SetColumns(r, a, u, m) /\ SetColumns(r, a, u, m).until = u
  /\ \A r, i : "until" \in DOMAIN r => SetThrottled(r, i).until = r.until
<1>1. ASSUME NEW r, NEW a, NEW u, NEW m, "until" \in DOMAIN r
      PROVE  "until" \in DOMAIN SetColumns(r, a, u, m) /\ SetColumns(r, a, u, m).until = u
  <2>1. PICK r1 : r1 = [r EXCEPT !.reset = a]
    OBVIOUS
  <2>2. PICK r2 : r2 = [r1 EXCEPT !.until = u]
    OBVIOUS
  <2>3. PICK r3 : r3 = [r2 EXCEPT !.synced = m]
    OBVIOUS
  <2>4. "until" \in DOMAIN r1
    BY <1>1, <2>1
  <2>5. "until" \in DOMAIN r2 /\ r2["until"] = u
    BY <2>2, <2>4
  <2>6. "until" \in DOMAIN r3 /\ r3["until"] = u
    BY <2>3, <2>5
  <2>7. SetColumns(r, a, u, m) = r3
    BY <2>1, <2>2, <2>3, ColumnsSet
  <2> QED
    BY <2>6, <2>7
<1>2. ASSUME NEW r, NEW i, "until" \in DOMAIN r PROVE SetThrottled(r, i).until = r.until
  <2>1. [r EXCEPT !.throttled = i]["until"] = r["until"]
    BY <1>2
  <2> QED
    BY <2>1 DEF SetThrottled
<1> QED
  BY <1>1, <1>2

LEMMA UntilAnswered ==
  ASSUME NEW r, "until" \in DOMAIN r
  PROVE  /\ D!Sq!ParsedQuota(r).until = D!Sq!ParseTimes(r.until)
         /\ D!Sq!AvailableRowTo(r).until = D!Sq!ParseTimes(r.until)
         /\ D!Pg!QuotaTo(r).until = D!Pg!ToTimes(r.until)
         /\ D!Pg!AvailableRowTo(r).until = D!Pg!ToTimes(r.until)
<1>1. PICK q : q = D!Sq!ParsedQuota(r)
  OBVIOUS
<1>2. "until" \in DOMAIN q /\ q.until = D!Sq!ParseTimes(r.until)
  BY <1>1, RowsAreSet, UntilSet
<1>3. D!Sq!AvailableRowTo(r).until = q.until
  <2>1. D!Sq!AvailableRowTo(r) = SetThrottled(q, D!Sq!parseTime(q.throttled))
    BY <1>1, RowsAreSet
  <2> QED
    BY <1>2, <2>1, UntilSet
<1>4. PICK p : p = D!Pg!QuotaTo(r)
  OBVIOUS
<1>5. "until" \in DOMAIN p /\ p.until = D!Pg!ToTimes(r.until)
  BY <1>4, RowsAreSet, UntilSet
<1>6. D!Pg!AvailableRowTo(r).until = p.until
  <2>1. D!Pg!AvailableRowTo(r) = SetThrottled(p, D!Pg!tsTo(p.throttled))
    BY <1>4, RowsAreSet
  <2> QED
    BY <1>5, <2>1, UntilSet
<1> QED
  BY <1>1, <1>2, <1>3, <1>4, <1>5, <1>6

LEMMA RowsHaveUntil ==
  /\ \A p, a, u, m : "until" \in DOMAIN CodexRow(p, a, u, m) /\ CodexRow(p, a, u, m).until = u
  /\ \A p, a, u, i, m : "until" \in DOMAIN GeminiRow(p, a, u, i, m) /\
       GeminiRow(p, a, u, i, m).until = u
  /\ \A p, a, x, u, i, m : /\ "until" \in DOMAIN AntigravityRow(p, a, x, u, i, m)
                           /\ AntigravityRow(p, a, x, u, i, m).until = u
  /\ \A a, u, m : "until" \in DOMAIN OpenCodeRow(a, u, m) /\ OpenCodeRow(a, u, m).until = u
BY DEF CodexRow, GeminiRow, AntigravityRow, OpenCodeRow

\* What a list of available credentials tells of the throttles of c.
LEMMA SqliteUntilTold ==
  ASSUME Known, NEW c, NEW t \in D!Tiers, NEW x, x = SqliteAvailable(c).until[t]
  PROVE  \E none \in {D!Sq!Q!Blank, D!Sq!Q!Now(time)} :
           x = D!Sq!parseTime(D!Coalesce(D!LeftJoin(sqlite, c).until[t], none))
<1>1. PICK q, u, v : /\ q = D!LeftJoin(sqlite, c)
                     /\ u = D!Columns(q.until, D!Tiers, D!Sq!Q!Now(time))
                     /\ v = D!Columns(q.until, D!Tiers, D!Sq!Q!Blank)
  OBVIOUS
<1>2. \E w \in {u, v} : SqliteAvailable(c).until = D!Sq!ParseTimes(w)
  <2>1. CASE handler = "codex"
    <3>1. PICK r : /\ r = CodexRow(sqlite.cred[c].plan, SqliteReset(q), u,
                        D!Coalesce(q.synced, D!Sq!Q!Blank))
                   /\ "until" \in DOMAIN r /\ r.until = u
      BY RowsHaveUntil
    <3>2. SqliteAvailable(c) = D!Sq!ParsedQuota(r)
      BY <1>1, <2>1, <3>1 DEF SqliteAvailable
    <3> QED
      BY <3>1, <3>2, UntilAnswered
  <2>2. CASE handler = "gemini"
    <3>1. PICK r : /\ r = GeminiRow(sqlite.cred[c].plan, SqliteReset(q), u,
                        D!Sq!Q!Max(D!Sq!Q!Range(u)),
                                    D!Coalesce(q.synced, D!Sq!Q!Blank))
                   /\ "until" \in DOMAIN r /\ r.until = u
      BY RowsHaveUntil
    <3>2. SqliteAvailable(c) = D!Sq!AvailableRowTo(r)
      BY <1>1, <2>2, <3>1 DEF SqliteAvailable
    <3> QED
      BY <3>1, <3>2, UntilAnswered
  <2>3. CASE handler = "antigravity"
    <3>1. PICK r : /\ r = AntigravityRow(sqlite.cred[c].plan, SqliteReset(q), c \in sqlite.credits,
                        u,
                                         D!Sq!Q!Max(D!Sq!Q!Range(u)),
                                              D!Coalesce(q.synced, D!Sq!Q!Blank))
                   /\ "until" \in DOMAIN r /\ r.until = u
      BY RowsHaveUntil
    <3>2. SqliteAvailable(c) = D!Sq!AvailableRowTo(r)
      BY <1>1, <2>3, <3>1 DEF SqliteAvailable
    <3> QED
      BY <3>1, <3>2, UntilAnswered
  <2>4. CASE handler = "opencode"
    <3>1. PICK r : /\ r = OpenCodeRow(SqliteReset(q), v,
                        D!Coalesce(q.synced, sqlite.cred[c].at.created))
                   /\ "until" \in DOMAIN r /\ r.until = v
      BY RowsHaveUntil
    <3>2. SqliteAvailable(c) = D!Sq!ParsedQuota(r)
      BY <1>1, <2>4, <3>1 DEF SqliteAvailable
    <3> QED
      BY <3>1, <3>2, UntilAnswered
  <2> QED
    BY <2>1, <2>2, <2>3, <2>4 DEF Known
<1>3. /\ D!Sq!ParseTimes(u)[t] = D!Sq!parseTime(D!Coalesce(q.until[t], D!Sq!Q!Now(time)))
      /\ D!Sq!ParseTimes(v)[t] = D!Sq!parseTime(D!Coalesce(q.until[t], D!Sq!Q!Blank))
  BY <1>1 DEF D!Columns, D!Sq!ParseTimes
<1> QED
  BY <1>1, <1>2, <1>3

LEMMA SqliteCovers ==
  ASSUME Known, Good(sqlite), NEW all, SqliteTells(all), NEW c \in DOMAIN all.available,
       NEW t \in D!Tiers,
         NEW x, x = all.available[c].until[t], x > D!Whole(time)
  PROVE  all.deadline > D!Whole(time) /\ all.deadline <= x
<1>1. PICK m : m = D!Sq!Q!Now(time) /\ m = D!Whole(time) /\ m \in Int /\ m >= 2
  BY EndOfSecondIs
<1>2. c \in SqliteUsable /\ x = SqliteAvailable(c).until[t]
  BY DEF SqliteTells
<1>3. PICK v : v = D!LeftJoin(sqlite, c).until[t]
  OBVIOUS
<1>4. PICK none \in {D!Sq!Q!Blank, m} : x = D!Sq!parseTime(D!Coalesce(v, none))
  BY <1>1, <1>2, <1>3, SqliteUntilTold
<1>5. v # D!Null
  <2>1. D!Sq!parseTime(D!Sq!Q!Blank) = 0 /\ D!Sq!parseTime(m) = m
    BY <1>1 DEF D!Sq!parseTime, D!Sq!Q!Blank, D!Sq!ZeroTime
  <2>2. D!Coalesce(D!Null, none) = none
    BY DEF D!Coalesce
  <2>3. none \in {D!Sq!Q!Blank, m}
    BY <1>4
  <2>4. v = D!Null => x \in {0, m}
    BY <1>4, <2>1, <2>2, <2>3
  <2> QED
    BY <1>1, <2>4
<1>6. x = D!Sq!parseTime(v)
  BY <1>4, <1>5 DEF D!Coalesce
<1>7. c \in DOMAIN sqlite.quota
  <2>1. c \notin DOMAIN sqlite.quota => v = D!NoQuota.until[t]
    BY <1>3 DEF D!LeftJoin, D!QuotaOr
  <2>2. t \in D!AntigravityTiers \cup D!CodexTiers
    BY ShapesAre DEF Known, D!AntigravityTiers, D!CodexTiers, D!GeminiTiers, D!OpenCodeTiers
  <2>3. D!NoQuota.until[t] = D!Null
    BY <2>2 DEF D!NoQuota, D!Every
  <2> QED
    BY <1>5, <2>1, <2>3
<1>8. v = sqlite.quota[c].until[t] /\ v \in Int
  <2>1. PICK k : k = sqlite.quota[c] /\ k \in QuotaRow
    BY <1>7 DEF Good, RowsOf
  <2>2. k.until[t] \in Int
    BY <2>1 DEF QuotaRow
  <2> QED
    BY <1>3, <1>7, <2>1, <2>2 DEF D!LeftJoin, D!QuotaOr
<1>9. x = v /\ v > m
  BY <1>1, <1>6, <1>8 DEF D!Sq!parseTime, D!Sq!Q!Blank, D!Sq!ZeroTime
<1>10. v \in After(sqlite, m)
  <2>1. c \in DOMAIN sqlite.cred /\ sqlite.cred[c].status = "enabled"
    BY <1>2 DEF SqliteUsable, D!Sq!Q!Usable, D!Sq!Q!Enabled
  <2>2. c \in Counted(sqlite)
    BY <1>7, <2>1 DEF Counted
  <2> QED
    BY <1>8, <1>9, <2>2 DEF After, Deadlines
<1>11. PICK w : w = Least(After(sqlite, m)) /\ w \in Int /\ w > m /\ w <= v
  BY <1>1, <1>10, AfterIs
<1>12. all.deadline = D!Sq!parseTime(w)
  <2>1. D!Sq!Q!NextDeadline(sqlite, D!Tiers, time) = w
    BY <1>1, <1>10, <1>11, NextDeadlineIs DEF FirstOf
  <2> QED
    BY <2>1 DEF SqliteTells
<1>13. D!Sq!parseTime(w) = w
  BY <1>1, <1>11 DEF D!Sq!parseTime, D!Sq!Q!Blank, D!Sq!ZeroTime
<1> QED
  BY <1>1, <1>9, <1>11, <1>12, <1>13

\* What a list of available credentials tells of the throttles of c.
LEMMA PostgresUntilTold ==
  ASSUME Known, NEW c, NEW t \in D!Tiers, NEW x, x = PostgresAvailable(c).until[t]
  PROVE  \E none \in {D!Pg!Q!YearOne, D!Pg!Q!Now(D!EndOfSecond)} :
           x = D!Pg!tsTo(D!Coalesce(D!LeftJoin(postgres, c).until[t], none))
<1>1. PICK q, u, v : /\ q = D!LeftJoin(postgres, c)
                     /\ u = D!Columns(q.until, D!Tiers, D!Pg!Q!Now(D!EndOfSecond))
                     /\ v = D!Columns(q.until, D!Tiers, D!Pg!Q!YearOne)
  OBVIOUS
<1>2. \E w \in {u, v} : PostgresAvailable(c).until = D!Pg!ToTimes(w)
  <2>1. CASE handler = "codex"
    <3>1. PICK r : /\ r = CodexRow(postgres.cred[c].plan, PostgresReset(q), u,
                        D!Coalesce(q.synced, D!Pg!Q!YearOne))
                   /\ "until" \in DOMAIN r /\ r.until = u
      BY RowsHaveUntil
    <3>2. PostgresAvailable(c) = D!Pg!QuotaTo(r)
      BY <1>1, <2>1, <3>1 DEF PostgresAvailable
    <3> QED
      BY <3>1, <3>2, UntilAnswered
  <2>2. CASE handler = "gemini"
    <3>1. PICK r : /\ r = GeminiRow(postgres.cred[c].plan, PostgresReset(q), u,
                        D!Pg!Q!Max(D!Pg!Q!Range(u)),
                                    D!Coalesce(q.synced, D!Pg!Q!YearOne))
                   /\ "until" \in DOMAIN r /\ r.until = u
      BY RowsHaveUntil
    <3>2. PostgresAvailable(c) = D!Pg!AvailableRowTo(r)
      BY <1>1, <2>2, <3>1 DEF PostgresAvailable
    <3> QED
      BY <3>1, <3>2, UntilAnswered
  <2>3. CASE handler = "antigravity"
    <3>1. PICK r : /\ r = AntigravityRow(postgres.cred[c].plan, PostgresReset(q),
                        c \in postgres.credits, u,
                                         D!Pg!Q!Max(D!Pg!Q!Range(u)),
                                              D!Coalesce(q.synced, D!Pg!Q!YearOne))
                   /\ "until" \in DOMAIN r /\ r.until = u
      BY RowsHaveUntil
    <3>2. PostgresAvailable(c) = D!Pg!AvailableRowTo(r)
      BY <1>1, <2>3, <3>1 DEF PostgresAvailable
    <3> QED
      BY <3>1, <3>2, UntilAnswered
  <2>4. CASE handler = "opencode"
    <3>1. PICK r : /\ r = OpenCodeRow(PostgresReset(q), v,
                        D!Coalesce(q.synced, postgres.cred[c].at.created))
                   /\ "until" \in DOMAIN r /\ r.until = v
      BY RowsHaveUntil
    <3>2. PostgresAvailable(c) = D!Pg!QuotaTo(r)
      BY <1>1, <2>4, <3>1 DEF PostgresAvailable
    <3> QED
      BY <3>1, <3>2, UntilAnswered
  <2> QED
    BY <2>1, <2>2, <2>3, <2>4 DEF Known
<1>3. /\ D!Pg!ToTimes(u)[t] = D!Pg!tsTo(D!Coalesce(q.until[t], D!Pg!Q!Now(D!EndOfSecond)))
      /\ D!Pg!ToTimes(v)[t] = D!Pg!tsTo(D!Coalesce(q.until[t], D!Pg!Q!YearOne))
  BY <1>1 DEF D!Columns, D!Pg!ToTimes
<1> QED
  BY <1>1, <1>2, <1>3

LEMMA PostgresCovers ==
  ASSUME Known, Good(postgres), NEW all, PostgresTells(all), NEW c \in DOMAIN all.available,
       NEW t \in D!Tiers,
         NEW x, x = all.available[c].until[t], x > D!EndOfSecond
  PROVE  all.deadline > D!EndOfSecond /\ all.deadline <= x
<1>1. PICK m : m = D!Pg!Q!Now(D!EndOfSecond) /\ m = D!EndOfSecond /\ m \in Int /\ m >= 2
  BY EndOfSecondIs
<1>2. c \in PostgresUsable /\ x = PostgresAvailable(c).until[t]
  BY DEF PostgresTells
<1>3. PICK v : v = D!LeftJoin(postgres, c).until[t]
  OBVIOUS
<1>4. PICK none \in {D!Pg!Q!YearOne, m} : x = D!Pg!tsTo(D!Coalesce(v, none))
  BY <1>1, <1>2, <1>3, PostgresUntilTold
<1>5. v # D!Null
  <2>1. D!Pg!tsTo(D!Pg!Q!YearOne) = 0 /\ D!Pg!tsTo(m) = m
    BY <1>1 DEF D!Pg!tsTo, D!Pg!Q!YearOne, D!Pg!Q!ZeroTime, D!Pg!ZeroTime, D!Pg!Null
  <2>2. D!Coalesce(D!Null, none) = none
    BY DEF D!Coalesce
  <2>3. none \in {D!Pg!Q!YearOne, m}
    BY <1>4
  <2>4. v = D!Null => x \in {0, m}
    BY <1>4, <2>1, <2>2, <2>3
  <2> QED
    BY <1>1, <2>4
<1>6. x = D!Pg!tsTo(v)
  BY <1>4, <1>5 DEF D!Coalesce
<1>7. c \in DOMAIN postgres.quota
  <2>1. c \notin DOMAIN postgres.quota => v = D!NoQuota.until[t]
    BY <1>3 DEF D!LeftJoin, D!QuotaOr
  <2>2. t \in D!AntigravityTiers \cup D!CodexTiers
    BY ShapesAre DEF Known, D!AntigravityTiers, D!CodexTiers, D!GeminiTiers, D!OpenCodeTiers
  <2>3. D!NoQuota.until[t] = D!Null
    BY <2>2 DEF D!NoQuota, D!Every
  <2> QED
    BY <1>5, <2>1, <2>3
<1>8. v = postgres.quota[c].until[t] /\ v \in Int
  <2>1. PICK k : k = postgres.quota[c] /\ k \in QuotaRow
    BY <1>7 DEF Good, RowsOf
  <2>2. k.until[t] \in Int
    BY <2>1 DEF QuotaRow
  <2> QED
    BY <1>3, <1>7, <2>1, <2>2 DEF D!LeftJoin, D!QuotaOr
<1>9. x = v /\ v > m
  BY <1>1, <1>6, <1>8 DEF D!Pg!tsTo, D!Pg!Q!YearOne, D!Pg!Q!ZeroTime, D!Pg!ZeroTime, D!Pg!Null
<1>10. v \in After(postgres, m)
  <2>1. c \in DOMAIN postgres.cred /\ postgres.cred[c].status = "enabled"
    BY <1>2 DEF PostgresUsable, D!Pg!Q!Usable, D!Pg!Q!Enabled
  <2>2. c \in Counted(postgres)
    BY <1>7, <2>1 DEF Counted
  <2> QED
    BY <1>8, <1>9, <2>2 DEF After, Deadlines
<1>11. PICK w : w = Least(After(postgres, m)) /\ w \in Int /\ w > m /\ w <= v
  BY <1>1, <1>10, AfterIs
<1>12. all.deadline = D!Pg!tsTo(w)
  <2>1. D!Pg!Q!NextDeadline(postgres, D!Tiers, D!EndOfSecond) = w
    BY <1>1, <1>10, <1>11, NextDeadlineIs DEF FirstOf
  <2> QED
    BY <2>1 DEF PostgresTells
<1>13. D!Pg!tsTo(w) = w
  BY <1>1, <1>11 DEF D!Pg!tsTo, D!Pg!Q!YearOne, D!Pg!Q!ZeroTime, D!Pg!ZeroTime, D!Pg!Null
<1> QED
  BY <1>1, <1>9, <1>11, <1>12, <1>13

LEMMA StoredCovers == StoresInv => D!DeadlineCoversThrottles
<1> SUFFICES ASSUME StoresInv PROVE D!DeadlineCoversThrottles
  OBVIOUS
<1>1. Known /\ Good(sqlite) /\ Good(postgres)
  BY StoresKnown DEF StoresInv
<1>2. SqliteTells(D!SqliteTold) /\ PostgresTells(D!PostgresTold)
  BY <1>1, BothTell
<1>3. ASSUME NEW c \in DOMAIN D!SqliteTold.available, NEW t \in D!Tiers,
             D!SqliteTold.available[c].until[t] > D!Whole(time)
      PROVE  /\ D!SqliteTold.deadline > D!Whole(time)
             /\ D!SqliteTold.deadline <= D!SqliteTold.available[c].until[t]
  BY <1>1, <1>2, <1>3, SqliteCovers
<1>4. ASSUME NEW c \in DOMAIN D!PostgresTold.available, NEW t \in D!Tiers,
             D!PostgresTold.available[c].until[t] > D!EndOfSecond
      PROVE  /\ D!PostgresTold.deadline > D!EndOfSecond
             /\ D!PostgresTold.deadline <= D!PostgresTold.available[c].until[t]
  BY <1>1, <1>2, <1>4, PostgresCovers
<1> QED
  BY <1>3, <1>4 DEF D!DeadlineCoversThrottles

-----------------------------------------------------------------------------
(* What the runs check of the composition *)

\* The stores do their own steps only, whatever else the composition does.
LEMMA StoresBehave == TablesSpec => D!Spec
<1>1. TablesInit => D!Init
  BY DEF TablesInit
<1>2. [TablesNext]_tables => [D!Next]_(D!stores)
  BY DEF TablesNext, tables, databases, D!stores
<1> QED
  BY <1>1, <1>2, PTL DEF TablesSpec, D!Spec

\* SQLite and PostgreSQL, whose queries are written apart, tell a provider's scheduler
\* and the console the same of every credential (queries/sqlite, queries/postgres).
THEOREM StoresTellTheSame == TablesSpec => []StoresAgree
BY StoresBehave, StoresKept, StoredAgree, PTL DEF StoresAgree

\* A throttle that is reported has a next deadline, which is not after its end: the
\* syncer that sleeps until then does not miss it (queries, quota_syncer.go).
THEOREM DeadlinesCover == TablesSpec => []DeadlineCoversThrottles
BY StoresBehave, StoresKept, StoredCovers, PTL DEF DeadlineCoversThrottles
=============================================================================
