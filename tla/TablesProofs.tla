----------------------------- MODULE TablesProofs -----------------------------
(***************************************************************************)
(* Proofs about the modules that MCTables puts side by side: for any rows, *)
(* aliases, jobs, calls and settings.  A theorem about one module is taken *)
(* to the composition, of which the module is one part.                    *)
(***************************************************************************)
EXTENDS MCTables, Sequences, FiniteSetTheorems, TLAPS

CP == INSTANCE ContentAffinityProofs
SP == INSTANCE StreamAndScoreProofs WITH rows <- ranked
RP == INSTANCE RequestLogProofs WITH clock <- logClock, reader <- logReader,
                                     NoAnswer <- None, MaxClock <- MaxLogClock

\* A part does its own steps only, whatever else the composition does.
LEMMA PartsBehave ==
  /\ TablesSpec => Spec /\ C!Spec /\ S!Spec
  /\ TablesSpec => L!Spec /\ St!Spec /\ D!Spec
  /\ TablesSpec => R!Spec /\ I!Spec
  /\ TablesSpec => M!Spec /\ Sc!Spec
<1>1. TablesInit => /\ Init /\ C!Init /\ S!Init /\ L!Init /\ St!Init
                    /\ D!Init /\ R!Init /\ I!Init /\ M!Init /\ Sc!Init
  BY DEF TablesInit
<1>2. [TablesNext]_tables => [Next]_vars
  BY DEF TablesNext, tables, admins, vars
<1>3. [TablesNext]_tables => [C!Next]_C!vars
  BY DEF TablesNext, tables, affinity, C!vars
<1>4. [TablesNext]_tables => [S!Next]_S!vars
  BY DEF TablesNext, tables, stream, S!vars
<1>5. [TablesNext]_tables => [L!Next]_L!all
  BY DEF TablesNext, tables, loops, L!all, L!settings
<1>6. [TablesNext]_tables => [St!Next]_St!settings
  BY DEF TablesNext, tables, settings, St!settings
<1>7. [TablesNext]_tables => [D!Next]_D!stores
  BY DEF TablesNext, tables, databases, D!stores
<1>8. [TablesNext]_tables => [R!Next]_R!vars
  BY DEF TablesNext, tables, log, R!vars
<1>9. [TablesNext]_tables => [I!Next]_I!vars
  BY DEF TablesNext, tables, imports, I!vars
<1>10. [TablesNext]_tables => [M!Next]_M!vars
  BY DEF TablesNext, tables, aliases, M!vars
<1>11. [TablesNext]_tables => [Sc!Next]_Sc!vars
  BY DEF TablesNext, tables, scoring, Sc!vars, Sc!picking, Sc!throttles
<1> QED
  BY <1>1, <1>2, <1>3, <1>4, <1>5, <1>6, <1>7, <1>8, <1>9, <1>10, <1>11, PTL
     DEF TablesSpec, Spec, C!Spec, S!Spec, L!Spec, St!Spec, D!Spec, R!Spec, I!Spec, M!Spec, Sc!Spec

-----------------------------------------------------------------------------
(* AdminKeys *)

\* A worker is of a server.
LEMMA ServerOf == \A w \in Workers : w[1] \in Servers
BY DEF Workers

\* Every variable stays in its type, and a worker has a job just when it is not
\* idle.
THEOREM AdminTypes == Spec => []TypeOK
<1> USE DEF TypeOK, Tables, Empty, Roles, Jobs, NoJob, Places, NoRow
<1>1. Init => TypeOK
  BY DEF Init
<1>2. TypeOK /\ [Next]_vars => TypeOK'
  <2> SUFFICES ASSUME TypeOK, [Next]_vars PROVE TypeOK'
    OBVIOUS
  <2> USE DEF Goto, Answer
  <2>1. ASSUME NEW w \in Workers, Arrive(w) PROVE TypeOK'
    BY <2>1 DEF Arrive
  <2>2. ASSUME NEW w \in Workers, Enter(w) PROVE TypeOK'
    BY <2>2 DEF Enter
  <2>3. ASSUME NEW w \in Workers, BeginLocked(w) PROVE TypeOK'
    BY <2>3 DEF BeginLocked
  <2>4. ASSUME NEW w \in Workers, Look(w) PROVE TypeOK'
    BY <2>4 DEF Look
  <2>5. ASSUME NEW w \in Workers, Commit(w) PROVE TypeOK'
    <3>1. job[w] \in Jobs /\ job[w].key \in Keys /\ job[w].role \in Roles
      BY <2>5 DEF Commit
    <3>2. NewRow(w) \in Roles \cup {NoRow}
      BY <3>1 DEF NewRow
    <3>3. keys' = [keys EXCEPT ![job[w].key] = NewRow(w)]
      BY <2>5 DEF Commit
    <3>4. keys' \in Tables
      BY <3>2, <3>3
    <3>5. CASE Goto(w, "load") /\ behind' = behind \cup (Servers \ {w[1]})
      BY <2>5, <3>1, <3>4, <3>5 DEF Commit
    <3>6. CASE Answer(w) /\ behind' = Servers
      BY <2>5, <3>4, <3>6 DEF Commit
    <3>7. \/ Goto(w, "load") /\ behind' = behind \cup (Servers \ {w[1]})
          \/ Answer(w) /\ behind' = Servers
      BY <2>5 DEF Commit
    <3> QED
      BY <3>5, <3>6, <3>7
  <2>6. ASSUME NEW w \in Workers, Rollback(w) PROVE TypeOK'
    BY <2>6 DEF Rollback
  <2>7. ASSUME NEW w \in Workers, Load(w) PROVE TypeOK'
    <3>1. behind' \subseteq Servers
      BY <2>7, ServerOf DEF Load
    <3>2. CASE Goto(w, "publish") /\ read' = [read EXCEPT ![w] = keys]
      BY <2>7, <3>1, <3>2 DEF Load
    <3>3. CASE Answer(w) /\ UNCHANGED read
      BY <2>7, <3>1, <3>3 DEF Load
    <3> QED
      BY <2>7, <3>2, <3>3 DEF Load
  <2>8. ASSUME NEW w \in Workers, Publish(w) PROVE TypeOK'
    BY <2>8 DEF Publish
  <2>9. ASSUME NEW s \in Servers, Restart(s) PROVE TypeOK'
    BY <2>9 DEF Restart
  <2>10. CASE UNCHANGED vars
    BY <2>10 DEF vars
  <2> QED
    BY <2>1, <2>2, <2>3, <2>4, <2>5, <2>6, <2>7, <2>8, <2>9, <2>10 DEF Next, Step
<1> QED
  BY <1>1, <1>2, PTL DEF Spec

-----------------------------------------------------------------------------

\* One transaction at a time is past its lock.
OneTransaction == \A v, w \in Workers : InTransaction(v) /\ InTransaction(w) => v = w

\* While there is no admin nobody has ever seen one: no cache, no load, and no
\* request but those of Setup.
KnownAdmin ==
  AdminsOf(keys) = {} =>
    /\ \A s \in Servers : NeedsSetup(s)
    /\ \A w \in Workers : AdminsOf(read[w]) = {} /\ job[w].do \in {"none", "setup"}

\* What a transaction saw is still so when it writes, whatever CreateAuthKey has
\* inserted meanwhile.
LookedAt ==
  \A w \in Workers : pc[w] = "store" =>
    /\ job[w].do = "setup" => AdminsOf(keys) = {}
    /\ job[w].do \in {"update", "delete"} => keys[job[w].key] # NoRow
    /\ Demotes(w) /\ keys[job[w].key] = "admin" => \E k \in AdminsOf(keys) : k # job[w].key

AdminInv == TypeOK /\ OneTransaction /\ KnownAdmin /\ LookedAt

\* Two admins at least are another than any one of them.
LEMMA AnotherAdmin ==
  ASSUME NEW k, ~(Cardinality(AdminsOf(keys)) <= 1)
  PROVE  \E l \in AdminsOf(keys) : l # k
<1> SUFFICES ASSUME \A l \in AdminsOf(keys) : l = k PROVE Cardinality(AdminsOf(keys)) <= 1
  OBVIOUS
<1>1. CASE AdminsOf(keys) = {}
  BY <1>1, FS_EmptySet
<1>2. CASE AdminsOf(keys) = {k}
  BY <1>2, FS_Singleton
<1> QED
  BY <1>1, <1>2

\* A commit leaves an admin where there was one.
LEMMA CommitKeepsAdmin ==
  ASSUME AdminInv, NEW w \in Workers, Commit(w), AdminsOf(keys) # {}
  PROVE  AdminsOf(keys') # {}
<1> USE DEF AdminInv
<1>1. job[w] \in Jobs /\ job[w].key \in Keys
  BY DEF TypeOK, Commit, Jobs, NoJob
<1>2. keys' = [keys EXCEPT ![job[w].key] = NewRow(w)] /\ keys \in [Keys -> Roles \cup {NoRow}]
  BY DEF Commit, TypeOK, Tables
<1>3. job[w].do # "setup"
  BY DEF Commit, LookedAt
<1>4. CASE job[w].do = "create"
  <2>1. PICK k \in AdminsOf(keys) : TRUE
    OBVIOUS
  <2>2. k # job[w].key
    BY <1>4, <2>1 DEF Commit, Fits, AdminsOf, NoRow
  <2> QED
    BY <1>2, <2>1, <2>2 DEF AdminsOf
<1>5. CASE job[w].do = "update" /\ job[w].role = "admin"
  BY <1>1, <1>2, <1>5 DEF AdminsOf, NewRow
<1>6. CASE Demotes(w)
  <2>1. PICK k \in AdminsOf(keys) : k # job[w].key
    BY <1>6 DEF Commit, LookedAt, AdminsOf
  <2> QED
    BY <1>2, <2>1 DEF AdminsOf
<1> QED
  BY <1>1, <1>3, <1>4, <1>5, <1>6 DEF Jobs, Roles, Demotes

\* The lock keeps transactions apart.
LEMMA OneTransactionStep ==
  ASSUME AdminInv, [Next]_vars PROVE OneTransaction'
<1> USE DEF AdminInv, TypeOK, OneTransaction, InTransaction, Goto, Answer, Places
<1>1. ASSUME NEW w \in Workers, Arrive(w) PROVE OneTransaction'
  BY <1>1 DEF Arrive
<1>2. ASSUME NEW w \in Workers, Enter(w) PROVE OneTransaction'
  BY <1>2 DEF Enter
<1>3. ASSUME NEW w \in Workers, BeginLocked(w) PROVE OneTransaction'
  BY <1>3 DEF BeginLocked, LockFree
<1>4. ASSUME NEW w \in Workers, Look(w) PROVE OneTransaction'
  BY <1>4 DEF Look
<1>5. ASSUME NEW w \in Workers, Commit(w) PROVE OneTransaction'
  BY <1>5 DEF Commit
<1>6. ASSUME NEW w \in Workers, Rollback(w) PROVE OneTransaction'
  BY <1>6 DEF Rollback
<1>7. ASSUME NEW w \in Workers, Load(w) PROVE OneTransaction'
  BY <1>7 DEF Load
<1>8. ASSUME NEW w \in Workers, Publish(w) PROVE OneTransaction'
  BY <1>8 DEF Publish
<1>9. ASSUME NEW s \in Servers, Restart(s) PROVE OneTransaction'
  BY <1>9 DEF Restart
<1>10. CASE UNCHANGED vars
  BY <1>10 DEF vars
<1> QED
  BY <1>1, <1>2, <1>3, <1>4, <1>5, <1>6, <1>7, <1>8, <1>9, <1>10 DEF Next, Step

\* Requests but Setup's are let in by a cache that has seen an admin.
LEMMA KnownAdminStep ==
  ASSUME AdminInv, [Next]_vars PROVE KnownAdmin'
<1> USE DEF AdminInv, TypeOK, KnownAdmin, NeedsSetup, AdminsOf, Goto, Answer, NoJob
<1>1. ASSUME NEW w \in Workers, Arrive(w) PROVE KnownAdmin'
  BY <1>1, ServerOf DEF Arrive
<1>2. ASSUME NEW w \in Workers, Enter(w) PROVE KnownAdmin'
  BY <1>2 DEF Enter
<1>3. ASSUME NEW w \in Workers, BeginLocked(w) PROVE KnownAdmin'
  BY <1>3 DEF BeginLocked
<1>4. ASSUME NEW w \in Workers, Look(w) PROVE KnownAdmin'
  BY <1>4 DEF Look
<1>5. ASSUME NEW w \in Workers, Commit(w) PROVE KnownAdmin'
  <2> SUFFICES ASSUME AdminsOf(keys') = {} PROVE KnownAdmin'
    OBVIOUS
  <2>1. AdminsOf(keys) = {}
    BY <1>5, CommitKeepsAdmin
  <2> QED
    BY <1>5, <2>1 DEF Commit
<1>6. ASSUME NEW w \in Workers, Rollback(w) PROVE KnownAdmin'
  BY <1>6 DEF Rollback
<1>7. ASSUME NEW w \in Workers, Load(w) PROVE KnownAdmin'
  BY <1>7 DEF Load
<1>8. ASSUME NEW w \in Workers, Publish(w) PROVE KnownAdmin'
  BY <1>8 DEF Publish, Empty, NoRow
<1>9. ASSUME NEW s \in Servers, Restart(s) PROVE KnownAdmin'
  BY <1>9 DEF Restart, Empty, NoRow
<1>10. CASE UNCHANGED vars
  BY <1>10 DEF vars
<1> QED
  BY <1>1, <1>2, <1>3, <1>4, <1>5, <1>6, <1>7, <1>8, <1>9, <1>10 DEF Next, Step

\* What was seen stays so until the write: no other transaction writes, and a
\* CreateAuthKey touches no key that is there, and needs an admin to be let in.
LEMMA LookedAtStep ==
  ASSUME AdminInv, [Next]_vars PROVE LookedAt'
<1> USE DEF AdminInv, LookedAt, Demotes, Goto, Answer, NoJob
<1>1. ASSUME NEW w \in Workers, Arrive(w) PROVE LookedAt'
  BY <1>1 DEF Arrive, TypeOK
<1>2. ASSUME NEW w \in Workers, Enter(w) PROVE LookedAt'
  BY <1>2 DEF Enter, TypeOK
<1>3. ASSUME NEW w \in Workers, BeginLocked(w) PROVE LookedAt'
  BY <1>3 DEF BeginLocked, TypeOK
<1>4. ASSUME NEW w \in Workers, Look(w) PROVE LookedAt'
  <2>1. CASE Goto(w, "store") /\ ~AlreadyInitialized(w) /\ ~NotFound(w) /\ ~LastAdmin(w)
    <3>1. job[w].do = "setup" => AdminsOf(keys) = {}
      BY <2>1 DEF AlreadyInitialized
    <3>2. job[w].do \in {"update", "delete"} => keys[job[w].key] # NoRow
      BY <2>1 DEF NotFound
    <3>3. Demotes(w) /\ keys[job[w].key] = "admin" => \E k \in AdminsOf(keys) : k # job[w].key
      BY <2>1, AnotherAdmin DEF LastAdmin
    <3> QED
      BY <1>4, <2>1, <3>1, <3>2, <3>3 DEF Look, TypeOK
  <2>2. CASE Goto(w, "load") \/ Answer(w)
    BY <1>4, <2>2 DEF Look, TypeOK
  <2> QED
    BY <1>4, <2>1, <2>2 DEF Look
<1>5. ASSUME NEW w \in Workers, Commit(w) PROVE LookedAt'
  <2> SUFFICES ASSUME NEW v \in Workers, pc'[v] = "store"
               PROVE  /\ job'[v].do = "setup" => AdminsOf(keys') = {}
                      /\ job'[v].do \in {"update", "delete"} => keys'[job'[v].key] # NoRow
                      /\ Demotes(v)' /\ keys'[job'[v].key] = "admin"
                            => \E k \in AdminsOf(keys') : k # job'[v].key
    OBVIOUS
  <2>1. v # w /\ pc[v] = "store" /\ job'[v] = job[v]
    BY <1>5 DEF Commit, TypeOK
  <2>2. job[v] \in Jobs /\ job[w] \in Jobs /\ pc[w] = "store"
    BY <1>5, <2>1 DEF Commit, TypeOK
  <2>3. CASE job[v].do = "create"
    BY <2>1, <2>3
  <2>4. CASE job[v].do # "create"
    <3>1. job[w].do = "create"
      BY <2>1, <2>2, <2>4 DEF OneTransaction, InTransaction
    <3>2. AdminsOf(keys) # {} /\ job[v].do # "setup"
      BY <2>1, <3>1 DEF KnownAdmin
    <3>3. /\ keys' = [keys EXCEPT ![job[w].key] = NewRow(w)]
          /\ keys \in [Keys -> Roles \cup {NoRow}]
          /\ keys[job[w].key] = NoRow
      BY <1>5, <3>1 DEF Commit, Fits, TypeOK, Tables
    <3>4. job[v].do \in {"update", "delete"} /\ job[v].key \in Keys /\ job[v].key # job[w].key
      BY <2>1, <2>2, <2>4, <3>2, <3>3 DEF Jobs
    <3>5. keys'[job[v].key] = keys[job[v].key] /\ AdminsOf(keys) \subseteq AdminsOf(keys')
      BY <3>3, <3>4 DEF AdminsOf, NoRow
    <3> QED
      BY <2>1, <3>2, <3>4, <3>5
  <2> QED
    BY <2>3, <2>4
<1>6. ASSUME NEW w \in Workers, Rollback(w) PROVE LookedAt'
  BY <1>6 DEF Rollback, TypeOK
<1>7. ASSUME NEW w \in Workers, Load(w) PROVE LookedAt'
  BY <1>7 DEF Load, TypeOK
<1>8. ASSUME NEW w \in Workers, Publish(w) PROVE LookedAt'
  BY <1>8 DEF Publish, TypeOK
<1>9. ASSUME NEW s \in Servers, Restart(s) PROVE LookedAt'
  BY <1>9 DEF Restart, TypeOK
<1>10. CASE UNCHANGED vars
  BY <1>10 DEF vars
<1> QED
  BY <1>1, <1>2, <1>3, <1>4, <1>5, <1>6, <1>7, <1>8, <1>9, <1>10 DEF Next, Step

LEMMA AdminInvariant == Spec => []AdminInv
<1>1. Init => OneTransaction /\ KnownAdmin /\ LookedAt
  BY DEF Init, OneTransaction, InTransaction, KnownAdmin, NeedsSetup, AdminsOf, Empty, NoRow,
         NoJob, LookedAt
<1>2. TypeOK /\ OneTransaction /\ KnownAdmin /\ LookedAt /\ [Next]_vars
        => (OneTransaction /\ KnownAdmin /\ LookedAt)'
  BY OneTransactionStep, KnownAdminStep, LookedAtStep DEF AdminInv
<1> QED
  BY <1>1, <1>2, AdminTypes, PTL DEF Spec, AdminInv

\* The table only changes by commits.
LEMMA OnlyCommits ==
  ASSUME [Next]_vars, keys' # keys PROVE \E w \in Workers : Commit(w)
BY DEF Next, Step, vars, Arrive, Enter, BeginLocked, Look, Rollback, Load, Publish, Restart

\* Once a table has an admin it always has: of two transactions that take away the
\* last two admins one is refused (Update- and DeleteAuthKeyChecked), also by
\* servers that share a database.
THEOREM AdminForGood == Spec => LastAdminKept
<1>1. AdminInv /\ [Next]_vars => [AdminsOf(keys) # {} => AdminsOf(keys') # {}]_vars
  BY OnlyCommits, CommitKeepsAdmin
<1> QED
  BY <1>1, AdminInvariant, PTL DEF Spec, LastAdminKept

\* CreateInitialAuthKey inserts only into a table without admins, however old the
\* cache that let Setup in, and whatever CreateAuthKey inserts beside it.
THEOREM SetupFirst == Spec => SetupOnlyFirst
<1> DEFINE A == \A w \in Workers : (job[w].do = "setup" /\ keys' # keys /\ pc'[w] # pc[w])
                                     => AdminsOf(keys) = {}
<1>1. AdminInv /\ [Next]_vars => A
  <2> SUFFICES ASSUME AdminInv, [Next]_vars, NEW w \in Workers,
                      job[w].do = "setup", keys' # keys, pc'[w] # pc[w]
               PROVE  AdminsOf(keys) = {}
    OBVIOUS
  <2>1. PICK v \in Workers : Commit(v)
    BY OnlyCommits
  <2>2. w = v
    BY <2>1 DEF Commit, Goto, Answer, AdminInv, TypeOK
  <2> QED
    BY <2>1, <2>2 DEF Commit, AdminInv, LookedAt
<1>2. AdminInv /\ [Next]_vars => [A]_vars
  BY <1>1
<1> QED
  BY <1>2, AdminInvariant, PTL DEF Spec, SetupOnlyFirst

-----------------------------------------------------------------------------

Inside(w) == pc[w] \notin {"idle", "waiting"}

\* The mutex keeps the handlers of a server apart.
OneInside == \A v, w \in Workers : v[1] = w[1] /\ Inside(v) /\ Inside(w) => v = w

\* A server that was told of every change has the table in its cache, or is about
\* to read it, or has read it.
Current(s) ==
  /\ (\A w \in Workers : w[1] = s => pc[w] \notin {"load", "publish"}) => cache[s] = keys
  /\ \A w \in Workers : w[1] = s /\ pc[w] = "publish" => read[w] = keys
CacheInv == OneInside /\ \A s \in Servers \ behind : Current(s)

LEMMA OneInsideStep ==
  ASSUME TypeOK, OneInside, [Next]_vars PROVE OneInside'
<1> USE DEF TypeOK, OneInside, Inside, Goto, Answer, Places
<1>1. ASSUME NEW w \in Workers, Arrive(w) PROVE OneInside'
  BY <1>1 DEF Arrive
<1>2. ASSUME NEW w \in Workers, Enter(w) PROVE OneInside'
  BY <1>2 DEF Enter, MutexFree
<1>3. ASSUME NEW w \in Workers, BeginLocked(w) PROVE OneInside'
  BY <1>3 DEF BeginLocked
<1>4. ASSUME NEW w \in Workers, Look(w) PROVE OneInside'
  BY <1>4 DEF Look
<1>5. ASSUME NEW w \in Workers, Commit(w) PROVE OneInside'
  BY <1>5 DEF Commit
<1>6. ASSUME NEW w \in Workers, Rollback(w) PROVE OneInside'
  BY <1>6 DEF Rollback
<1>7. ASSUME NEW w \in Workers, Load(w) PROVE OneInside'
  BY <1>7 DEF Load
<1>8. ASSUME NEW w \in Workers, Publish(w) PROVE OneInside'
  BY <1>8 DEF Publish
<1>9. ASSUME NEW s \in Servers, Restart(s) PROVE OneInside'
  BY <1>9 DEF Restart
<1>10. CASE UNCHANGED vars
  BY <1>10 DEF vars
<1> QED
  BY <1>1, <1>2, <1>3, <1>4, <1>5, <1>6, <1>7, <1>8, <1>9, <1>10 DEF Next, Step

LEMMA CurrentStep ==
  ASSUME TypeOK, CacheInv, [Next]_vars, NEW s \in Servers, s \notin behind'
  PROVE  Current(s)'
<1> USE DEF TypeOK, CacheInv, Current, Goto, Answer, Places
<1>1. ASSUME NEW w \in Workers, Arrive(w) PROVE Current(s)'
  BY <1>1 DEF Arrive
<1>2. ASSUME NEW w \in Workers, Enter(w) PROVE Current(s)'
  BY <1>2 DEF Enter
<1>3. ASSUME NEW w \in Workers, BeginLocked(w) PROVE Current(s)'
  BY <1>3 DEF BeginLocked
<1>4. ASSUME NEW w \in Workers, Look(w) PROVE Current(s)'
  BY <1>4 DEF Look
<1>5. ASSUME NEW w \in Workers, Commit(w) PROVE Current(s)'
  <2>1. w[1] = s /\ pc' = [pc EXCEPT ![w] = "load"] /\ pc[w] = "store"
    BY <1>5 DEF Commit
  <2>2. \A v \in Workers : v[1] = s => pc'[v] # "publish"
    BY <2>1 DEF OneInside, Inside
  <2> QED
    BY <2>1, <2>2
<1>6. ASSUME NEW w \in Workers, Rollback(w) PROVE Current(s)'
  BY <1>6 DEF Rollback
<1>7. ASSUME NEW w \in Workers, Load(w) PROVE Current(s)'
  <2>1. CASE w[1] # s
    BY <1>7, <2>1, ServerOf DEF Load
  <2>2. CASE w[1] = s
    <3>1. pc' = [pc EXCEPT ![w] = "publish"] /\ read' = [read EXCEPT ![w] = keys]
          /\ pc[w] = "load" /\ UNCHANGED <<keys, cache>>
      BY <1>7, <2>2 DEF Load
    <3> QED
      BY <2>2, <3>1 DEF OneInside, Inside
  <2> QED
    BY <2>1, <2>2
<1>8. ASSUME NEW w \in Workers, Publish(w) PROVE Current(s)'
  <2>1. CASE w[1] # s
    BY <1>8, <2>1, ServerOf DEF Publish
  <2>2. CASE w[1] = s
    BY <1>8, <2>2 DEF Publish, OneInside, Inside
  <2> QED
    BY <2>1, <2>2
<1>9. ASSUME NEW r \in Servers, Restart(r) PROVE Current(s)'
  <2>1. CASE r # s
    BY <1>9, <2>1 DEF Restart
  <2>2. CASE r = s
    BY <1>9, <2>2 DEF Restart
  <2> QED
    BY <2>1, <2>2
<1>10. CASE UNCHANGED vars
  BY <1>10 DEF vars
<1> QED
  BY <1>1, <1>2, <1>3, <1>4, <1>5, <1>6, <1>7, <1>8, <1>9, <1>10 DEF Next, Step

\* The cache of a server that was told of every change is the table once its
\* handler is done (KeyCache.Refresh under AdminHandler.mu).
THEOREM CacheCurrent == Spec => []CacheIsCurrent
<1>1. Init => CacheInv
  BY DEF Init, CacheInv, OneInside, Inside, Current
<1>2. TypeOK /\ CacheInv /\ [Next]_vars => CacheInv'
  BY OneInsideStep, CurrentStep DEF CacheInv
<1>3. CacheInv => CacheIsCurrent
  BY DEF CacheInv, Current, CacheIsCurrent
<1> QED
  BY <1>1, <1>2, <1>3, AdminTypes, PTL DEF Spec

-----------------------------------------------------------------------------
(* BackgroundLoops *)

\* A loop that has a channel: of no change that is still to come, and with the
\* interval in force if the channel is.
Follows(loop) ==
  /\ loop \in [at : {loop.at}, chan : Nat, due : {loop.due}, for : {loop.for}]
  /\ loop.chan <= changed
  /\ loop.at = "wait" /\ loop.chan = changed => loop.for = interval

LoopsInv == changed \in Nat /\ Follows(scores) /\ Follows(syncer)

\* A loop that leaves its wait is elsewhere, and a loop still.
LEMMA WokenIs ==
  ASSUME NEW loop, NEW next,
         loop = [at |-> loop.at, chan |-> loop.chan, due |-> loop.due, for |-> loop.for]
  PROVE  L!Woken(loop, next) = [at |-> next, chan |-> 0, due |-> 0, for |-> loop.for]
<1> DEFINE there  == [loop EXCEPT !.at = next]
           nowhen == [there EXCEPT !.chan = 0]
<1>1. there = [at |-> next, chan |-> loop.chan, due |-> loop.due, for |-> loop.for]
  OBVIOUS
<1> HIDE DEF there
<1>2. nowhen = [at |-> next, chan |-> 0, due |-> loop.due, for |-> loop.for]
  BY <1>1
<1> HIDE DEF nowhen
<1>3. [nowhen EXCEPT !.due = 0] = [at |-> next, chan |-> 0, due |-> 0, for |-> loop.for]
  BY <1>2
<1>4. L!Woken(loop, next) = [nowhen EXCEPT !.due = 0]
  BY DEF L!Woken, nowhen, there
<1> QED
  BY <1>3, <1>4

LEMMA WokenFollows ==
  ASSUME LoopsInv, NEW loop \in {scores, syncer}, NEW next, next # "wait"
  PROVE  Follows(L!Woken(loop, next))
<1>1. loop = [at |-> loop.at, chan |-> loop.chan, due |-> loop.due, for |-> loop.for]
  BY DEF LoopsInv, Follows
<1>2. L!Woken(loop, next) = [at |-> next, chan |-> 0, due |-> 0, for |-> loop.for]
  BY <1>1, WokenIs
<1> QED
  BY <1>2 DEF LoopsInv, Follows

\* No step lets a loop sleep for an interval of before its channel.
LEMMA LoopsStep == ASSUME LoopsInv, [L!Next]_L!all PROVE LoopsInv'
<1> USE DEF LoopsInv, Follows, L!settings
<1>1. ASSUME NEW i \in Intervals, L!ReplaceCurrent(i) PROVE LoopsInv'
  <2>1. changed' = changed + 1 /\ scores' = scores /\ syncer' = syncer
    BY <1>1 DEF L!ReplaceCurrent, L!NewChannel
  <2>2. scores.chan \in Nat /\ syncer.chan \in Nat
    OBVIOUS
  <2>3. scores.chan <= changed + 1 /\ scores.chan # changed + 1
        /\ syncer.chan <= changed + 1 /\ syncer.chan # changed + 1
    BY <2>2
  <2> QED
    BY <2>1, <2>3
<1>2. CASE L!TakeChannel
  <2>1. ASSUME NEW loop, Follows(loop)
        PROVE  Follows([loop EXCEPT !.at = "arm", !.chan = changed])
    <3> DEFINE l == [loop EXCEPT !.at = "arm"]
    <3>1. l \in [at : {"arm"}, chan : Nat, due : {loop.due}, for : {loop.for}]
      BY <2>1
    <3>2. [loop EXCEPT !.at = "arm", !.chan = changed] = [l EXCEPT !.chan = changed]
      BY <2>1
    <3> HIDE DEF l
    <3>3. Follows([l EXCEPT !.chan = changed])
      BY <3>1
    <3> QED
      BY <3>2, <3>3
  <2>2. changed' = changed /\ interval' = interval
        /\ \/ scores' = [scores EXCEPT !.at = "arm", !.chan = changed] /\ syncer' = syncer
           \/ syncer' = [syncer EXCEPT !.at = "arm", !.chan = changed] /\ scores' = scores
    BY <1>2 DEF L!TakeChannel
  <2>3. ASSUME NEW loop, Follows(loop)
        PROVE  /\ scores' = loop => Follows(scores)'
               /\ syncer' = loop => Follows(syncer)'
    BY <2>2, <2>3
  <2> HIDE DEF Follows
  <2> QED
    BY <2>1, <2>2, <2>3
<1>3. CASE L!ArmTimer
  <2>1. CASE scores.at = "arm" /\ scores' = L!Armed(scores, interval) /\ UNCHANGED syncer
    BY <1>3, <2>1 DEF L!ArmTimer, L!Armed
  <2>2. CASE syncer.at = "arm" /\ syncer' = L!Armed(syncer, L!Delay(rows)) /\ UNCHANGED scores
    BY <1>3, <2>2 DEF L!ArmTimer, L!Armed
  <2> QED
    BY <1>3, <2>1, <2>2 DEF L!ArmTimer
<1>4. CASE L!Interrupted \/ L!RefreshScores \/ L!BeginPass
  <2>1. /\ changed' = changed /\ interval' = interval
        /\ \E next \in {"look", "list"} :
             \/ scores' = L!Woken(scores, next) /\ syncer' = syncer
             \/ syncer' = L!Woken(syncer, next) /\ scores' = scores
    BY <1>4 DEF L!Interrupted, L!RefreshScores, L!BeginPass
  <2>2. ASSUME NEW loop, Follows(loop)
        PROVE  /\ scores' = loop => Follows(scores)'
               /\ syncer' = loop => Follows(syncer)'
    BY <2>1, <2>2
  <2> HIDE DEF Follows
  <2> QED
    BY <2>1, <2>2, WokenFollows
<1>6. CASE L!ChooseDue
  BY <1>6 DEF L!ChooseDue
<1>7. CASE L!EndPass
  BY <1>7 DEF L!EndPass
<1>8. CASE L!WarmCache
  BY <1>8 DEF L!WarmCache
<1>9. ASSUME NEW r \in Rows, L!SyncRow(r) PROVE LoopsInv'
  BY <1>9 DEF L!SyncRow
<1>10. ASSUME NEW r \in Rows, L!AddRow(r) PROVE LoopsInv'
  BY <1>10 DEF L!AddRow
<1>11. CASE L!Tick
  BY <1>11 DEF L!Tick
<1>12. CASE UNCHANGED L!all
  BY <1>12 DEF L!all
<1> QED
  BY <1>1, <1>2, <1>3, <1>4, <1>6, <1>7, <1>8, <1>9, <1>10, <1>11, <1>12 DEF L!Next, L!Loops

\* A change of the settings is never slept through: a loop whose channel has not
\* been closed waits for the interval in force (score_refresh.go, quota_syncer.go).
THEOREM NoChangeMissed == L!Spec => []L!AsleepOnCurrentInterval
<1>1. L!Init => LoopsInv
  BY DEF L!Init, LoopsInv, Follows
<1>2. LoopsInv /\ [L!Next]_L!all => LoopsInv'
  BY LoopsStep
<1>3. LoopsInv => L!AsleepOnCurrentInterval
  BY DEF LoopsInv, Follows, L!AsleepOnCurrentInterval
<1> QED
  BY <1>1, <1>2, <1>3, PTL DEF L!Spec

\* The rows of a list, with times of sync and reset.
Row(r) == r = [synced |-> r.synced, reset |-> r.reset] /\ r.synced \in Nat /\ r.reset \in Nat
RowTimes(listed) == \A r \in DOMAIN listed : Row(listed[r])

\* What the rows wait for when the quota loop comes to wait for them: what has been
\* tried counts as synced, and a timer that is due already is for another row.
PassInv ==
  /\ interval \in Intervals /\ clock \in Nat /\ clock > 0
  /\ table = [r \in DOMAIN table |-> table[r]]
  /\ RowTimes(table) /\ RowTimes(rows)
  /\ syncer = [at |-> syncer.at, chan |-> syncer.chan, due |-> syncer.due, for |-> syncer.for]
  /\ passed = [when |-> passed.when, tried |-> passed.tried]
  /\ passed.when \in Nat /\ passed.when <= clock /\ (passed.tried # {} => passed.when > 0)
  /\ syncer.at = "cache" => passed.tried = {}
  /\ syncer.at \in {"look", "arm", "wait"} =>
       \A r \in DOMAIN rows \cap passed.tried : rows[r].synced >= passed.when
  /\ syncer.at = "wait" =>
       /\ syncer.due \in Nat
       /\ syncer.due <= clock /\ clock = passed.when =>
            \E r \in DOMAIN rows : r \notin passed.tried \/ L!ResetDue(rows[r])

\* A delay is zero for a row only that is due.
LEMMA DelayIs ==
  ASSUME interval \in Nat \ {0}, clock \in Nat, NEW listed, RowTimes(listed)
  PROVE  /\ L!Delay(listed) \in Nat
         /\ L!Delay(listed) = 0 =>
              \E r \in DOMAIN listed : L!SyncDue(listed[r]) \/ L!ResetDue(listed[r])
<1> DEFINE due(r) == {listed[r].synced + interval}
                       \cup IF listed[r].reset = 0 THEN {} ELSE {listed[r].reset}
           Dues == UNION {due(r) : r \in DOMAIN listed}
           Least(d) == /\ d = interval \/ d \in {at - clock : at \in Dues}
                      /\ \A at \in Dues : d <= at - clock
<1>1. Dues \subseteq Nat
  BY DEF RowTimes, Row
<1>2. CASE \E r \in DOMAIN listed : listed[r].synced = 0
  BY <1>2 DEF L!Delay, L!SyncDue
<1>3. CASE (\A r \in DOMAIN listed : listed[r].synced # 0) /\ \E at \in Dues : at <= clock
  <2>1. PICK r, at : r \in DOMAIN listed /\ at \in due(r) /\ at <= clock
    BY <1>3
  <2>2. L!SyncDue(listed[r]) \/ L!ResetDue(listed[r])
    BY <2>1 DEF L!SyncDue, L!ResetDue, L!Past
  <2>3. L!Delay(listed) = 0
    BY <1>3 DEF L!Delay, L!Past
  <2>4. L!Delay(listed) \in Nat
    BY <2>3
  <2> QED
    BY <2>1, <2>2, <2>4
<1>4. CASE (\A r \in DOMAIN listed : listed[r].synced # 0) /\ \A at \in Dues : ~(at <= clock)
  <2>1. L!Delay(listed) = CHOOSE d \in 0 .. interval : Least(d)
    BY <1>4 DEF L!Delay, L!Past, L!Later
  <2> HIDE DEF Dues
  <2>2. \E d \in 0 .. interval : Least(d)
    <3> DEFINE V == {interval} \cup {at - clock : at \in Dues}
    <3>1. V \subseteq Nat
      BY <1>1, <1>4
    <3>2. PICK d \in V : \A e \in V : d <= e
      <4>1. V # {}
        OBVIOUS
      <4> HIDE DEF V
      <4> QED
        BY <3>1, <4>1, RP!LeastNat
    <3>3. d <= interval /\ d \in Nat
      BY <3>1, <3>2
    <3>4. d = interval \/ d \in {at - clock : at \in Dues}
      OBVIOUS
    <3>5. \A at \in Dues : at - clock \in V
      OBVIOUS
    <3> HIDE DEF V
    <3>6. \A at \in Dues : d <= at - clock
      BY <3>2, <3>5
    <3> QED
      BY <3>3, <3>4, <3>6
  <2>3. L!Delay(listed) \in 0 .. interval /\ Least(L!Delay(listed))
    BY <2>1, <2>2
  <2>4. \A at \in Dues : at - clock # 0
    BY <1>1, <1>4
  <2> QED
    BY <2>3, <2>4
<1> QED
  BY <1>2, <1>3, <1>4

\* A list is a function, and so is what attempts make of it.
LEMMA AttemptsAre ==
  ASSUME NEW listed, RowTimes(listed), passed.when \in Nat
  PROVE  /\ RowTimes(L!AttemptTimes(listed))
         /\ \A r \in DOMAIN L!AttemptTimes(listed) \cap passed.tried :
              L!AttemptTimes(listed)[r].synced >= passed.when
<1> DEFINE q == L!AttemptTimes(listed)
<1>1. /\ DOMAIN q = DOMAIN listed
      /\ \A r \in DOMAIN listed :
           q[r] = IF r \in passed.tried /\ listed[r].synced < passed.when
                    THEN [listed[r] EXCEPT !.synced = passed.when] ELSE listed[r]
  BY DEF L!AttemptTimes
<1> HIDE DEF q
<1>2. ASSUME NEW r \in DOMAIN listed
      PROVE  Row(q[r]) /\ (r \in passed.tried => q[r].synced >= passed.when)
  <2>1. Row(listed[r])
    BY DEF RowTimes
  <2>2. CASE r \in passed.tried /\ listed[r].synced < passed.when
    <3>1. q[r] = [synced |-> passed.when, reset |-> listed[r].reset]
      BY <1>1, <2>1, <2>2 DEF Row
    <3> QED
      BY <2>1, <3>1 DEF Row
  <2>3. CASE ~(r \in passed.tried /\ listed[r].synced < passed.when)
    <3>1. q[r] = listed[r]
      BY <1>1, <2>3
    <3> QED
      BY <2>1, <2>3, <3>1 DEF Row
  <2> QED
    BY <2>2, <2>3
<1>3. RowTimes(q) /\ \A r \in DOMAIN q \cap passed.tried : q[r].synced >= passed.when
  BY <1>1, <1>2 DEF RowTimes
<1> QED
  BY <1>3 DEF q

LEMMA NoRows == RowTimes(<< >>) /\ DOMAIN << >> = {}
BY DEF RowTimes

\* No step lets a timer that is due already be for a row of the pass before.
LEMMA PassStep == ASSUME PassInv, [L!Next]_L!all PROVE PassInv'
<1>0. /\ interval \in Nat \ {0} /\ clock \in Nat /\ clock > 0 /\ RowTimes(table) /\ RowTimes(rows)
      /\ interval \in Intervals
  BY LoopsAssumption DEF PassInv
<1>1. ASSUME NEW i \in Intervals, L!ReplaceCurrent(i) PROVE PassInv'
  BY <1>1 DEF L!ReplaceCurrent, PassInv, RowTimes, L!ResetDue, L!Past
<1>2. CASE L!TakeChannel
  <2>1. /\ \/ syncer' = syncer
           \/ syncer.at = "look" /\ syncer' = [syncer EXCEPT !.at = "arm", !.chan = changed]
        /\ UNCHANGED <<interval, clock, table, rows, passed>>
    BY <1>2 DEF L!TakeChannel, L!settings
  <2>2. CASE syncer' = syncer
    BY <2>1, <2>2 DEF PassInv, RowTimes, L!ResetDue, L!Past
  <2>3. CASE syncer.at = "look" /\ syncer' = [syncer EXCEPT !.at = "arm", !.chan = changed]
    <3>1. /\ syncer'.at = "arm"
          /\ syncer' = [at |-> syncer'.at, chan |-> syncer'.chan, due |-> syncer'.due, for |-> syncer'.for]
      BY <2>3 DEF PassInv
    <3> QED
      BY <2>1, <2>3, <3>1 DEF PassInv, RowTimes
  <2> QED
    BY <2>1, <2>2, <2>3
<1>3. CASE L!ArmTimer
  <2>1. /\ \/ syncer' = syncer
           \/ syncer.at = "arm" /\ syncer' = L!Armed(syncer, L!Delay(rows))
        /\ UNCHANGED <<interval, clock, table, rows, passed>>
    BY <1>3 DEF L!ArmTimer, L!settings
  <2>2. CASE syncer' = syncer
    BY <2>1, <2>2 DEF PassInv, RowTimes, L!ResetDue, L!Past
  <2>3. CASE syncer.at = "arm" /\ syncer' = L!Armed(syncer, L!Delay(rows))
    <3>1. /\ syncer'.at = "wait" /\ syncer'.due = clock + L!Delay(rows)
          /\ syncer' = [at |-> syncer'.at, chan |-> syncer'.chan, due |-> syncer'.due, for |-> syncer'.for]
      BY <2>3 DEF PassInv, L!Armed
    <3>2. L!Delay(rows) \in Nat /\ (L!Delay(rows) = 0 =>
            \E r \in DOMAIN rows : L!SyncDue(rows[r]) \/ L!ResetDue(rows[r]))
      BY <1>0, DelayIs
    <3>3. \A r \in DOMAIN rows \cap passed.tried : rows[r].synced >= passed.when
      BY <2>3 DEF PassInv
    <3>4. syncer'.due \in Nat
      BY <1>0, <3>1, <3>2
    <3>5. ASSUME syncer'.due <= clock, clock = passed.when
          PROVE  \E r \in DOMAIN rows : r \notin passed.tried \/ L!ResetDue(rows[r])
      <4>1. PICK r \in DOMAIN rows : L!SyncDue(rows[r]) \/ L!ResetDue(rows[r])
        BY <1>0, <3>1, <3>2, <3>5
      <4>2. CASE L!SyncDue(rows[r])
        <5>1. rows[r].synced \in Nat
          BY <1>0 DEF RowTimes, Row
        <5>2. rows[r].synced < clock
          BY <1>0, <4>2, <5>1 DEF L!SyncDue, L!Past
        <5>3. r \notin passed.tried
          BY <1>0, <3>3, <3>5, <5>1, <5>2
        <5> QED
          BY <5>3
      <4> QED
        BY <4>1, <4>2
    <3>6. \A r : L!ResetDue(rows[r])' = L!ResetDue(rows[r])
      BY <2>1 DEF L!ResetDue, L!Past
    <3> QED
      BY <2>1, <2>3, <3>1, <3>3, <3>4, <3>5, <3>6 DEF PassInv, RowTimes
  <2> QED
    BY <2>1, <2>2, <2>3
<1>4. CASE L!Interrupted
  <2>1. /\ \/ syncer' = syncer
           \/ syncer.at = "wait" /\ syncer' = L!Woken(syncer, "look")
        /\ UNCHANGED <<interval, clock, table, rows, passed>>
    BY <1>4 DEF L!Interrupted, L!settings
  <2>2. CASE syncer' = syncer
    BY <2>1, <2>2 DEF PassInv, RowTimes, L!ResetDue, L!Past
  <2>3. CASE syncer.at = "wait" /\ syncer' = L!Woken(syncer, "look")
    <3>1. /\ syncer'.at = "look"
          /\ syncer' = [at |-> syncer'.at, chan |-> syncer'.chan, due |-> syncer'.due, for |-> syncer'.for]
      BY <2>3, WokenIs DEF PassInv
    <3> QED
      BY <2>1, <2>3, <3>1 DEF PassInv, RowTimes
  <2> QED
    BY <2>1, <2>2, <2>3
<1>5. CASE L!RefreshScores
  BY <1>5 DEF L!RefreshScores, PassInv, RowTimes, L!ResetDue, L!Past, L!settings
<1>6. CASE L!BeginPass
  <2>1. UNCHANGED <<interval, clock, table>>
    BY <1>6 DEF L!BeginPass, L!settings
  <2>2. CASE syncer' = L!Woken(syncer, "list") /\ rows' = table /\ UNCHANGED passed
    <3>1. /\ syncer'.at = "list"
          /\ syncer' = [at |-> syncer'.at, chan |-> syncer'.chan, due |-> syncer'.due, for |-> syncer'.for]
      BY <2>2, WokenIs DEF PassInv
    <3> QED
      BY <1>0, <2>1, <2>2, <3>1 DEF PassInv, RowTimes
  <2>3. CASE /\ syncer' = L!Woken(syncer, "look")
             /\ rows' = << >> /\ passed' = [when |-> clock, tried |-> {}]
    <3>1. /\ syncer'.at = "look"
          /\ syncer' = [at |-> syncer'.at, chan |-> syncer'.chan, due |-> syncer'.due, for |-> syncer'.for]
      BY <2>3, WokenIs DEF PassInv
    <3>2. /\ passed' = [when |-> passed'.when, tried |-> passed'.tried]
          /\ passed'.when = clock /\ passed'.tried = {}
      BY <2>3
    <3>3. RowTimes(rows') /\ DOMAIN rows' = {}
      BY <2>3, NoRows
    <3>4. RowTimes(table)' /\ RowTimes(rows)'
      BY <1>0, <2>1, <3>3 DEF RowTimes
    <3> QED
      BY <1>0, <2>1, <3>1, <3>2, <3>3, <3>4 DEF PassInv
  <2> QED
    BY <1>6, <2>2, <2>3 DEF L!BeginPass
<1>13. CASE L!ChooseDue
  <2>1. /\ syncer.at = "list" /\ syncer' = [syncer EXCEPT !.at = "work"]
        /\ UNCHANGED <<interval, clock, table, rows>>
    BY <1>13 DEF L!ChooseDue, L!settings
  <2>2. /\ syncer'.at = "work"
        /\ syncer' = [at |-> syncer'.at, chan |-> syncer'.chan, due |-> syncer'.due, for |-> syncer'.for]
    BY <2>1 DEF PassInv
  <2>3. passed'.when = clock /\ passed' = [when |-> passed'.when, tried |-> passed'.tried]
    BY <1>13 DEF L!ChooseDue
  <2> QED
    BY <1>0, <2>1, <2>2, <2>3 DEF PassInv, RowTimes
<1>7. CASE L!EndPass
  <2>1. PICK listed \in {table, rows} : rows' = L!AttemptTimes(listed)
    BY <1>7 DEF L!EndPass
  <2>2. /\ syncer'.at = "look"
        /\ syncer' = [at |-> syncer'.at, chan |-> syncer'.chan, due |-> syncer'.due, for |-> syncer'.for]
        /\ UNCHANGED <<interval, clock, table, passed>>
    BY <1>7 DEF L!EndPass, PassInv, L!settings
  <2>3. RowTimes(rows') /\ \A r \in DOMAIN rows' \cap passed.tried : rows'[r].synced >= passed.when
    BY <1>0, <2>1, AttemptsAre DEF PassInv
  <2> QED
    BY <2>2, <2>3 DEF PassInv, RowTimes
<1>8. CASE L!WarmCache
  <2>1. /\ syncer.at = "cache" /\ syncer'.at = "look" /\ (rows' = table \/ rows' = << >>)
        /\ syncer' = [at |-> syncer'.at, chan |-> syncer'.chan, due |-> syncer'.due, for |-> syncer'.for]
        /\ UNCHANGED <<interval, clock, table, passed>>
    BY <1>8 DEF L!WarmCache, PassInv, L!settings
  <2>2. RowTimes(rows') /\ passed.tried = {}
    BY <1>0, <2>1, NoRows DEF PassInv
  <2> QED
    BY <2>1, <2>2 DEF PassInv, RowTimes
<1>9. ASSUME NEW r \in Rows, L!SyncRow(r) PROVE PassInv'
  <2>1. /\ syncer.at = "work" /\ syncer' = syncer
        /\ UNCHANGED <<interval, clock, rows, passed>>
    BY <1>9 DEF L!SyncRow, L!settings
  <2>2. RowTimes(table') /\ table' = [x \in DOMAIN table' |-> table'[x]]
    <3>1. CASE \E reset \in {0} \cup (clock .. MaxClock + 1) :
                 table' = IF r \in DOMAIN table
                            THEN [table EXCEPT ![r] = [synced |-> clock, reset |-> reset]]
                            ELSE table
      <4>1. PICK reset \in {0} \cup (clock .. MaxClock + 1) :
              table' = IF r \in DOMAIN table
                         THEN [table EXCEPT ![r] = [synced |-> clock, reset |-> reset]]
                         ELSE table
        BY <3>1
      <4>2. Row([synced |-> clock, reset |-> reset])
        BY <1>0, LoopsAssumption DEF Row
      <4> QED
        BY <1>0, <4>1, <4>2 DEF RowTimes, PassInv
    <3>2. CASE table' = table
      BY <1>0, <3>2 DEF RowTimes, PassInv
    <3>3. CASE table' = [x \in DOMAIN table \ {r} |-> table[x]]
      BY <1>0, <3>3 DEF RowTimes
    <3> QED
      BY <1>9, <3>1, <3>2, <3>3 DEF L!SyncRow
  <2> QED
    BY <2>1, <2>2 DEF PassInv, RowTimes
<1>10. ASSUME NEW r \in Rows, L!AddRow(r) PROVE PassInv'
  <2>1. syncer' = syncer /\ UNCHANGED <<interval, clock, rows, passed>>
    BY <1>10 DEF L!AddRow, L!settings
  <2>2. RowTimes(table') /\ table' = [x \in DOMAIN table' |-> table'[x]]
    <3>1. Row([synced |-> 0, reset |-> 0])
      BY DEF Row
    <3> QED
      BY <1>0, <1>10, <3>1 DEF L!AddRow, RowTimes
  <2> QED
    BY <2>1, <2>2 DEF PassInv, RowTimes, L!ResetDue, L!Past
<1>11. CASE L!Tick
  <2>1. clock' = clock + 1 /\ UNCHANGED <<interval, table, syncer, rows, passed>>
    BY <1>11 DEF L!Tick, L!settings
  <2> QED
    BY <2>1 DEF PassInv, RowTimes
<1>12. CASE UNCHANGED L!all
  BY <1>12 DEF L!all, L!settings, PassInv, RowTimes, L!ResetDue, L!Past
<1> QED
  BY <1>1, <1>2, <1>3, <1>4, <1>5, <1>6, <1>7, <1>8, <1>9, <1>10, <1>11, <1>12, <1>13
     DEF L!Next, L!Loops

LEMMA PassFirst == L!Init => PassInv
<1> SUFFICES ASSUME L!Init PROVE PassInv
  OBVIOUS
<1>1. /\ interval \in Intervals /\ clock = 1 /\ rows = table
      /\ syncer = [at |-> "cache", chan |-> 0, due |-> 0, for |-> interval]
      /\ passed = [when |-> 0, tried |-> {}]
  BY DEF L!Init
<1>2. table = [r \in DOMAIN table |-> table[r]] /\ RowTimes(table)
  <2>1. PICK ids \in SUBSET Rows : table \in [ids -> L!RowState]
    BY DEF L!Init, L!Listings
  <2>2. \A x \in L!RowState : Row(x)
    BY LoopsAssumption DEF L!RowState, L!Times, Row
  <2> QED
    BY <2>1, <2>2 DEF RowTimes
<1>3. RowTimes(rows)
  BY <1>1, <1>2
<1> QED
  BY <1>1, <1>2, <1>3 DEF PassInv

\* The quota syncer makes two passes at one instant only for a row that the first
\* did not try, or whose quota was reset (quota_syncer.go, nextDelay).
THEOREM NoBusySyncer == L!Spec => L!NoBusyPass
<1>1. PassInv /\ [L!Next]_L!all =>
        [L!BeginPass /\ clock = passed.when =>
           \E r \in DOMAIN rows : r \notin passed.tried \/ L!ResetDue(rows[r])]_L!all
  BY DEF PassInv, L!BeginPass, L!Past
<1> QED
  BY <1>1, PassFirst, PassStep, PTL DEF L!Spec, L!NoBusyPass

-----------------------------------------------------------------------------
(* Settings *)

\* A call that is somewhere carries what its place says.
LEMMA CallShapes ==
  ASSUME NEW c \in St!Calls
  PROVE  /\ c.at \in {"idle", "save", "list", "replace"}
         /\ c.at = "list" => c \in St!Lists /\ c.on \in Servers
         /\ c.at \in {"save", "replace"} =>
              /\ c \in St!Carries /\ c.on \in Servers
              /\ c.next \in St!Snapshots /\ c.differs \in SUBSET St!Names
BY DEF St!Calls, St!NoCall, St!Lists, St!Carries

\* A save leaves a call where it was, with more settings of before the save.
LEMMA BehindIs ==
  ASSUME NEW c \in St!Calls, NEW changed_names \in SUBSET St!Names
  PROVE  /\ St!Behind(c, changed_names) \in St!Calls
         /\ St!Behind(c, changed_names).at = c.at
         /\ c.at \in {"save", "replace"} =>
              /\ St!Behind(c, changed_names).next = c.next
              /\ St!Behind(c, changed_names).differs = c.differs \cup changed_names
<1>1. CASE c.at \in {"save", "replace"}
  <2>1. c \in St!Carries
    BY <1>1, CallShapes
  <2>2. St!Behind(c, changed_names) = [c EXCEPT !.differs = c.differs \cup changed_names]
    BY <1>1 DEF St!Behind
  <2> QED
    BY <2>1, <2>2 DEF St!Carries, St!Calls
<1>2. CASE c.at \notin {"save", "replace"}
  BY <1>2 DEF St!Behind
<1> QED
  BY <1>1, <1>2

\* What no snapshot has missed: of every server, and of every call, the settings
\* that are not noted as saved since are those of the database.
ServerSeen(s) == \A n \in St!Names : n \notin unseen[s] => current[s][n] = stored[n]
CallSeen(a) ==
  admin[a].at \in {"save", "replace"} =>
    \A n \in St!Names : n \notin admin[a].differs => admin[a].next[n] = stored[n]

SeenInv ==
  /\ St!TypeOK
  /\ \A s \in Servers : ServerSeen(s)
  /\ \A a \in Admins : CallSeen(a)

LEMMA SeenFirst == St!Init => SeenInv
<1> SUFFICES ASSUME St!Init PROVE SeenInv
  OBVIOUS
<1>1. /\ stored \in St!Snapshots /\ current = [s \in Servers |-> stored]
      /\ admin = [a \in Admins |-> St!NoCall] /\ unseen = [s \in Servers |-> {}]
  BY DEF St!Init
<1>2. St!TypeOK
  BY <1>1 DEF St!TypeOK, St!Calls
<1>3. \A a \in Admins : CallSeen(a)
  BY <1>1 DEF CallSeen, St!NoCall
<1>4. \A s \in Servers : ServerSeen(s)
  BY <1>1 DEF ServerSeen
<1> QED
  BY <1>2, <1>3, <1>4 DEF SeenInv

\* The call answers or goes on to the list: nothing is carried, and the others are
\* as they were.
LEMMA MovedOn ==
  ASSUME SeenInv, NEW a \in Admins, NEW moved \in {St!NoCall} \cup St!Lists,
         admin' = [admin EXCEPT ![a] = moved], UNCHANGED <<stored, current, unseen>>
  PROVE  SeenInv'
<1>1. moved \in St!Calls /\ moved.at \notin {"save", "replace"}
  BY DEF St!Calls, St!NoCall, St!Lists
<1>2. admin \in [Admins -> St!Calls]
  BY DEF SeenInv, St!TypeOK
<1>3. admin' \in [Admins -> St!Calls]
  BY <1>1, <1>2
<1>4. \A b \in Admins : CallSeen(b)'
  BY <1>1, <1>2 DEF SeenInv, CallSeen
<1> QED
  BY <1>3, <1>4 DEF SeenInv, ServerSeen, St!TypeOK

\* A snapshot built or read: what it differs in is noted.
LEMMA Carried ==
  ASSUME SeenInv, NEW a \in Admins, NEW c \in St!Carries,
         \A n \in St!Names : n \notin c.differs => c.next[n] = stored[n],
         admin' = [admin EXCEPT ![a] = c], UNCHANGED <<stored, current, unseen>>
  PROVE  SeenInv'
<1>1. admin \in [Admins -> St!Calls] /\ c \in St!Calls
  BY DEF SeenInv, St!TypeOK, St!Calls
<1>2. admin' \in [Admins -> St!Calls]
  BY <1>1
<1>3. \A b \in Admins : CallSeen(b)'
  BY <1>1 DEF SeenInv, CallSeen
<1> QED
  BY <1>2, <1>3 DEF SeenInv, ServerSeen, St!TypeOK

\* A save: what it changes is noted of every server and of every other call.
LEMMA Committed ==
  ASSUME SeenInv, NEW a \in Admins, St!At(a, "save"),
         NEW moved \in {St!NoCall} \cup St!Lists, St!Commit(a, moved)
  PROVE  SeenInv'
<1> DEFINE changed_names == St!Changed(admin[a].next)
<1>1. changed_names \in SUBSET St!Names
  BY DEF St!Changed
<1>2. /\ stored' = admin[a].next
      /\ unseen' = [s \in Servers |-> unseen[s] \cup changed_names]
      /\ admin' = [b \in Admins |-> IF b = a THEN moved
                                    ELSE St!Behind(admin[b], changed_names)]
      /\ current' = current
  BY DEF St!Commit
<1>3. /\ stored \in St!Snapshots /\ current \in [Servers -> St!Snapshots]
      /\ admin \in [Admins -> St!Calls] /\ unseen \in [Servers -> SUBSET St!Names]
  BY DEF SeenInv, St!TypeOK
<1>4. \A n \in St!Names : n \notin changed_names => stored'[n] = stored[n]
  BY <1>2 DEF St!Changed
<1>5. stored' \in St!Snapshots
  BY <1>2, <1>3, CallShapes DEF St!At
<1> HIDE DEF changed_names
<1>6. ASSUME NEW b \in Admins PROVE admin'[b] \in St!Calls /\ CallSeen(b)'
  <2>1. CASE b = a
    <3>1. admin'[b] = moved
      BY <1>2, <2>1
    <3>2. moved \in St!Calls /\ moved.at \notin {"save", "replace"}
      BY DEF St!Calls, St!NoCall, St!Lists
    <3> QED
      BY <3>1, <3>2 DEF CallSeen
  <2>2. CASE b # a
    <3>1. admin'[b] = St!Behind(admin[b], changed_names)
      BY <1>2, <2>2
    <3>2. admin[b] \in St!Calls
      BY <1>3
    <3> QED
      BY <1>1, <1>4, <3>1, <3>2, BehindIs DEF SeenInv, CallSeen
  <2> QED
    BY <2>1, <2>2
<1>7. \A s \in Servers : ServerSeen(s)'
  BY <1>2, <1>4 DEF SeenInv, ServerSeen
<1>8. unseen' \in [Servers -> SUBSET St!Names]
  BY <1>1, <1>2, <1>3
<1>9. admin' \in [Admins -> St!Calls]
  BY <1>2, <1>6
<1> QED
  BY <1>2, <1>3, <1>5, <1>6, <1>7, <1>8, <1>9 DEF SeenInv, St!TypeOK

\* Every step keeps note of what a snapshot has missed.
LEMMA SeenStep == ASSUME SeenInv, [St!Next]_St!settings PROVE SeenInv'
<1> USE DEF St!At
<1>0. /\ stored \in St!Snapshots /\ current \in [Servers -> St!Snapshots]
      /\ admin \in [Admins -> St!Calls] /\ unseen \in [Servers -> SUBSET St!Names]
  BY DEF SeenInv, St!TypeOK
<1>1. ASSUME NEW a \in Admins, St!BuildUpdate(a) PROVE SeenInv'
  <2>1. PICK s \in Servers, snapshot \in St!Snapshots :
          admin' = [admin EXCEPT ![a] =
                      [at |-> "save", on |-> s, next |-> snapshot,
                       differs |-> {n \in St!Names : snapshot[n] # current[s][n]}
                                     \cup unseen[s]]]
    BY <1>1 DEF St!BuildUpdate
  <2> DEFINE c == [at |-> "save", on |-> s, next |-> snapshot,
                   differs |-> {n \in St!Names : snapshot[n] # current[s][n]} \cup unseen[s]]
  <2>2. c \in St!Carries
    BY <1>0 DEF St!Carries
  <2>3. \A n \in St!Names : n \notin c.differs => c.next[n] = stored[n]
    BY DEF SeenInv, ServerSeen
  <2>4. UNCHANGED <<stored, current, unseen>>
    BY <1>1 DEF St!BuildUpdate
  <2> HIDE DEF c
  <2> QED
    BY <2>1, <2>2, <2>3, <2>4, Carried DEF c
<1>2. ASSUME NEW a \in Admins, St!SaveSettings(a) PROVE SeenInv'
  <2>1. [at |-> "list", on |-> admin[a].on] \in St!Lists
    BY <1>0, <1>2, CallShapes DEF St!SaveSettings, St!Lists
  <2> QED
    BY <1>2, <2>1, Committed DEF St!SaveSettings
<1>3. ASSUME NEW a \in Admins, St!SaveFailure(a) PROVE SeenInv'
  BY <1>3, Committed, MovedOn DEF St!SaveFailure, St!Answer
<1>4. ASSUME NEW a \in Admins, St!ListSettings(a) PROVE SeenInv'
  <2> DEFINE c == [at |-> "replace", on |-> admin[a].on, next |-> stored, differs |-> {}]
  <2>1. c \in St!Carries
    BY <1>0, <1>4, CallShapes DEF St!ListSettings, St!Carries
  <2>2. \A n \in St!Names : n \notin c.differs => c.next[n] = stored[n]
    OBVIOUS
  <2>3. admin' = [admin EXCEPT ![a] = c] /\ UNCHANGED <<stored, current, unseen>>
    BY <1>4 DEF St!ListSettings
  <2> HIDE DEF c
  <2> QED
    BY <2>1, <2>2, <2>3, Carried
<1>5. ASSUME NEW a \in Admins, St!ListFailure(a) PROVE SeenInv'
  BY <1>5, MovedOn DEF St!ListFailure, St!Answer
<1>6. ASSUME NEW a \in Admins, St!ReplaceCurrent(a) PROVE SeenInv'
  <2>1. /\ admin[a].on \in Servers /\ admin[a].next \in St!Snapshots
        /\ admin[a].differs \in SUBSET St!Names
    BY <1>0, <1>6, CallShapes DEF St!ReplaceCurrent
  <2>2. /\ admin' = [admin EXCEPT ![a] = St!NoCall] /\ stored' = stored
        /\ current' = [current EXCEPT ![admin[a].on] = admin[a].next]
        /\ unseen' = [unseen EXCEPT ![admin[a].on] = admin[a].differs]
    BY <1>6 DEF St!ReplaceCurrent, St!Answer, St!TakeReloaded
  <2>3. St!TypeOK'
    BY <1>0, <2>1, <2>2 DEF St!TypeOK, St!Calls
  <2>4. \A n \in St!Names : n \notin admin[a].differs => admin[a].next[n] = stored[n]
    BY <1>6 DEF SeenInv, CallSeen, St!ReplaceCurrent
  <2>5. \A s \in Servers : ServerSeen(s)'
    BY <1>0, <2>1, <2>2, <2>4 DEF SeenInv, ServerSeen
  <2>6. \A b \in Admins : CallSeen(b)'
    BY <1>0, <2>2 DEF SeenInv, CallSeen, St!NoCall
  <2> QED
    BY <2>3, <2>5, <2>6 DEF SeenInv
<1>7. ASSUME NEW s \in Servers, St!Restart(s) PROVE SeenInv'
  <2>1. /\ current' = [current EXCEPT ![s] = stored] /\ unseen' = [unseen EXCEPT ![s] = {}]
        /\ stored' = stored
        /\ \A a \in Admins : admin'[a] = St!NoCall \/ admin'[a] = admin[a]
        /\ admin' = [a \in Admins |-> admin'[a]]
    BY <1>7 DEF St!Restart
  <2>2. \A a \in Admins : admin'[a] \in St!Calls
    BY <1>0, <2>1 DEF St!Calls
  <2>3. admin' \in [Admins -> St!Calls]
    BY <2>1, <2>2
  <2>4. St!TypeOK'
    BY <1>0, <2>1, <2>3 DEF St!TypeOK
  <2>5. \A t \in Servers : ServerSeen(t)'
    BY <1>0, <2>1 DEF SeenInv, ServerSeen
  <2>6. \A a \in Admins : CallSeen(a)'
    BY <2>1 DEF SeenInv, CallSeen, St!NoCall
  <2> QED
    BY <2>4, <2>5, <2>6 DEF SeenInv
<1>8. CASE UNCHANGED St!settings
  BY <1>8 DEF St!settings, SeenInv, ServerSeen, CallSeen, St!TypeOK
<1> QED
  BY <1>1, <1>2, <1>3, <1>4, <1>5, <1>6, <1>7, <1>8 DEF St!Next

LEMMA SeenAlways == St!Spec => []SeenInv
BY SeenFirst, SeenStep, PTL DEF St!Spec

\* Every variable stays in its type.
THEOREM SettingsTypes == St!Spec => []St!TypeOK
<1>1. SeenInv => St!TypeOK
  BY DEF SeenInv
<1> QED
  BY <1>1, SeenAlways, PTL

\* An update changes, beside what its request names, only settings that were saved
\* after the snapshot it is laid over was read (buildSettingsUpdate, SaveSettings,
\* Reload), for any number of servers and of calls, restarts and lost answers.
THEOREM SeenUpdatesKept == St!Spec => St!SeenSettingsKept
<1>1. SeenInv /\ [St!Next]_St!settings =>
        [\A a \in Admins :
           St!At(a, "save") /\ stored' # stored /\ admin'[a].at # "save" =>
             St!Changed(stored') \subseteq admin[a].differs]_St!settings
  <2> SUFFICES ASSUME SeenInv, St!Next, NEW a \in Admins, St!At(a, "save"),
                      stored' # stored, admin'[a].at # "save"
               PROVE  St!Changed(stored') \subseteq admin[a].differs
    OBVIOUS
  <2>1. PICK b \in Admins : \E moved : St!Commit(b, moved)
    BY DEF St!Next, St!BuildUpdate, St!SaveSettings, St!SaveFailure, St!ListSettings,
           St!ListFailure, St!ReplaceCurrent, St!Restart
  <2>2. PICK moved : St!Commit(b, moved)
    BY <2>1
  <2>3. b = a
    <3> SUFFICES ASSUME b # a PROVE FALSE
      OBVIOUS
    <3>1. admin'[a] = St!Behind(admin[a], St!Changed(admin[b].next))
      BY <2>2 DEF St!Commit
    <3>2. admin[a] \in St!Calls /\ St!Changed(admin[b].next) \in SUBSET St!Names
      BY DEF SeenInv, St!TypeOK, St!Changed
    <3> QED
      BY <3>1, <3>2, BehindIs DEF St!At
  <2>4. stored' = admin[a].next
    BY <2>2, <2>3 DEF St!Commit
  <2> QED
    BY <2>4 DEF St!Changed, SeenInv, CallSeen, St!At
<1> QED
  BY <1>1, SeenAlways, PTL DEF St!Spec, St!SeenSettingsKept

-----------------------------------------------------------------------------
(* ModelTable *)

\* A patch leaves a model one strategy at most.
LEMMA MergeIsStrategy ==
  ASSUME NEW s \in M!Strategies, NEW p \in M!Patches PROVE M!Merge(s, p) \in M!Strategies
<1> DEFINE m == M!Merge(s, p)
<1>1. m = [affinity |-> m.affinity, fill |-> m.fill] /\ m.affinity \in BOOLEAN /\ m.fill \in BOOLEAN
  BY DEF M!Merge
<1>2. m \in [affinity : BOOLEAN, fill : BOOLEAN]
  BY <1>1
<1>3. s.affinity \in BOOLEAN /\ s.fill \in BOOLEAN /\ ~(s.affinity /\ s.fill)
  BY DEF M!Strategies
<1>4. ~(p.affinity = "on" /\ p.fill = "on")
  BY DEF M!Patches
<1>5. m.affinity = (p.fill # "on" /\ (p.affinity = "on" \/ (p.affinity = "keep" /\ s.affinity)))
  BY DEF M!Merge
<1>6. m.fill = (p.fill = "on" \/ (p.fill = "keep" /\ p.affinity # "on" /\ s.fill))
  BY DEF M!Merge
<1>7. ~(m.affinity /\ m.fill)
  BY <1>3, <1>4, <1>5, <1>6
<1> QED
  BY <1>2, <1>7 DEF M!Strategies

\* A row that a patch was laid over is a row.
LEMMA PatchedIsRow ==
  ASSUME NEW r \in M!ModelRows, NEW p \in M!Patches
  PROVE  [r EXCEPT !.scheduling = M!Merge(@, p)] \in M!ModelRows
BY MergeIsStrategy DEF M!ModelRows

\* A call is of a type whatever its place and its row.
LEMMA CallTypes ==
  ASSUME NEW at \in {"idle", "write", "invalidate"}, NEW x \in Ids,
         NEW r \in M!ModelRows \cup {None}
  PROVE  [at |-> at, alias |-> x, row |-> r] \in M!Calls
BY DEF M!Calls

\* Every variable stays in its type: no row ever has both strategies, whatever
\* is created, updated and patched at once (mergeModelScheduling).
THEOREM ModelTypes == M!Spec => []M!TypeOK
<1> USE DEF M!TypeOK
<1>1. M!Init => M!TypeOK
  BY DEF M!Init, M!Loads
<1>2. M!TypeOK /\ [M!Next]_M!vars => M!TypeOK'
  <2> SUFFICES ASSUME M!TypeOK, [M!Next]_M!vars PROVE M!TypeOK'
    OBVIOUS
  <2>1. ASSUME NEW x \in Ids, M!Resolve(x) PROVE M!TypeOK'
    BY <2>1 DEF M!Resolve, M!Loads
  <2>2. ASSUME NEW x \in Ids, M!LookAgain(x) PROVE M!TypeOK'
    BY <2>2 DEF M!LookAgain, M!Loads
  <2>3. ASSUME NEW x \in Ids, M!ReadRow(x) PROVE M!TypeOK'
    <3>1. CASE load' = [load EXCEPT ![x] = [at |-> "store", row |-> models[x], old |-> FALSE]]
      <4>1. [at |-> "store", row |-> models[x], old |-> FALSE] \in M!Loads
        BY DEF M!Loads
      <4> QED
        BY <2>3, <3>1, <4>1 DEF M!ReadRow
    <3>2. CASE load' = [load EXCEPT ![x].at = "idle"]
      BY <2>3, <3>2 DEF M!ReadRow, M!Loads
    <3> QED
      BY <2>3, <3>1, <3>2 DEF M!ReadRow
  <2>4. ASSUME NEW x \in Ids, M!StoreEntry(x) PROVE M!TypeOK'
    BY <2>4 DEF M!StoreEntry, M!Loads
  <2>5. ASSUME NEW x \in Ids, M!Expire(x) PROVE M!TypeOK'
    BY <2>5 DEF M!Expire
  <2>6. ASSUME NEW x \in Ids, NEW r \in M!ModelRows \cup {None}, M!Change(x, r)
        PROVE  models' \in [Ids -> M!ModelRows \cup {None}] /\ load' \in [Ids -> M!Loads]
    BY <2>6 DEF M!Change, M!Loads
  <2>7. ASSUME NEW x \in Ids, NEW r \in M!ModelRows \cup {None}, M!ChangeUntold(x, r) PROVE M!TypeOK'
    BY <2>6, <2>7 DEF M!ChangeUntold
  <2>8. ASSUME NEW a \in Admins, NEW x \in Ids, NEW r \in M!ModelRows \cup {None}, M!Told(a, x, r)
        PROVE  M!TypeOK'
    BY <2>6, <2>8, CallTypes DEF M!Told
  <2>9. ASSUME NEW a \in Admins, NEW x \in Ids, NEW p \in M!Patches, M!BatchRead(a, x, p) PROVE M!TypeOK'
    <3>1. [models[x] EXCEPT !.scheduling = M!Merge(@, p)] \in M!ModelRows
      BY <2>9, PatchedIsRow DEF M!BatchRead
    <3> QED
      BY <2>9, <3>1, CallTypes DEF M!BatchRead
  <2>10. ASSUME NEW a \in Admins, M!BatchWrite(a) PROVE M!TypeOK'
    <3>1. editor[a].alias \in Ids /\ editor[a].row \in M!ModelRows \cup {None}
      BY DEF M!Calls
    <3>2. models' \in [Ids -> M!ModelRows \cup {None}] /\ load' \in [Ids -> M!Loads]
      BY <2>6, <2>10, <3>1 DEF M!BatchWrite
    <3>3. editor' \in [Admins -> M!Calls]
      BY <2>10 DEF M!BatchWrite, M!Calls
    <3> QED
      BY <2>10, <3>2, <3>3 DEF M!BatchWrite
  <2>11. ASSUME NEW a \in Admins, M!InvalidateModel(a) PROVE M!TypeOK'
    BY <2>11 DEF M!InvalidateModel, M!Calls
  <2>12. CASE UNCHANGED M!vars
    BY <2>12 DEF M!vars
  <2> QED
    BY <2>1, <2>2, <2>3, <2>4, <2>5, <2>7, <2>8, <2>9, <2>10, <2>11, <2>12
       DEF M!Next, M!CreateModel, M!UpdateModel, M!DeleteModel
<1> QED
  BY <1>1, <1>2, PTL DEF M!Spec

-----------------------------------------------------------------------------

\* A flight holds the row, or knows that it was changed since.
LoadsCurrent == \A x \in Ids : load[x].at = "store" => load[x].old \/ load[x].row = models[x]

ModelInv == M!TypeOK /\ LoadsCurrent /\ M!ResolutionCurrent

\* The call that is about to tell of a change of x.
Telling(x) == \E a \in Admins : editor[a].at = "invalidate" /\ editor[a].alias = x

\* The row that a flight stores is the one it read, if none came after.
LEMMA LoadsCurrentStep ==
  ASSUME ModelInv, [M!Next]_M!vars PROVE LoadsCurrent'
<1> USE DEF ModelInv, LoadsCurrent, M!TypeOK, M!Loads
<1>1. ASSUME NEW x \in Ids, M!Resolve(x) PROVE LoadsCurrent'
  BY <1>1 DEF M!Resolve
<1>2. ASSUME NEW x \in Ids, M!LookAgain(x) PROVE LoadsCurrent'
  BY <1>2 DEF M!LookAgain
<1>3. ASSUME NEW x \in Ids, M!ReadRow(x) PROVE LoadsCurrent'
  BY <1>3 DEF M!ReadRow
<1>4. ASSUME NEW x \in Ids, M!StoreEntry(x) PROVE LoadsCurrent'
  BY <1>4 DEF M!StoreEntry
<1>5. ASSUME NEW x \in Ids, NEW r, M!Change(x, r) PROVE LoadsCurrent'
  BY <1>5 DEF M!Change
<1>6. CASE UNCHANGED <<models, load>>
  BY <1>6
<1>7. ASSUME NEW a \in Admins, M!BatchWrite(a) PROVE LoadsCurrent'
  BY <1>5, <1>6, <1>7 DEF M!BatchWrite, M!Calls
<1>8. ASSUME NEW a \in Admins, NEW x \in Ids, NEW r, M!Told(a, x, r) PROVE LoadsCurrent'
  BY <1>5, <1>8 DEF M!Told
<1>9. ASSUME NEW x \in Ids, NEW r, M!ChangeUntold(x, r) PROVE LoadsCurrent'
  BY <1>5, <1>9 DEF M!ChangeUntold
<1>10. ASSUME NEW a \in Admins, NEW x \in Ids, NEW p \in M!Patches, M!BatchRead(a, x, p)
       PROVE  LoadsCurrent'
  BY <1>6, <1>10 DEF M!BatchRead
<1>11. ASSUME NEW x \in Ids, M!Expire(x) PROVE LoadsCurrent'
  BY <1>6, <1>11 DEF M!Expire
<1>12. ASSUME NEW a \in Admins, M!InvalidateModel(a) PROVE LoadsCurrent'
  BY <1>6, <1>12 DEF M!InvalidateModel
<1>13. CASE UNCHANGED M!vars
  BY <1>6, <1>13 DEF M!vars
<1> QED
  BY <1>1, <1>2, <1>3, <1>4, <1>7, <1>8, <1>9, <1>10, <1>11, <1>12, <1>13
     DEF M!Next, M!CreateModel, M!UpdateModel, M!DeleteModel

\* A step leaves no entry behind that neither a call nor `outdated` accounts for.
LEMMA ResolutionStep ==
  ASSUME ModelInv, [M!Next]_M!vars PROVE M!ResolutionCurrent'
<1> USE DEF ModelInv, M!TypeOK
<1>1. \A x \in Ids : resolved[x] \notin {NoEntry, models[x]} => x \in outdated \/ Telling(x)
  BY DEF M!ResolutionCurrent, Telling
<1> SUFFICES \A x \in Ids :
               resolved'[x] \notin {NoEntry, models'[x]} => x \in outdated' \/ Telling(x)'
  BY DEF M!ResolutionCurrent, Telling
<1> DEFINE Accounted(x) == resolved'[x] \notin {NoEntry, models'[x]} => x \in outdated' \/ Telling(x)'
<1>2. CASE UNCHANGED <<models, resolved, editor, outdated>>
  BY <1>1, <1>2 DEF Telling
<1>3. ASSUME NEW x \in Ids, M!StoreEntry(x) PROVE \A y \in Ids : Accounted(y)
  BY <1>1, <1>3 DEF M!StoreEntry, LoadsCurrent, Telling
<1>4. ASSUME NEW x \in Ids, M!Expire(x) PROVE \A y \in Ids : Accounted(y)
  BY <1>1, <1>4 DEF M!Expire, Telling
<1>5. ASSUME NEW x \in Ids, NEW r, M!ChangeUntold(x, r) PROVE \A y \in Ids : Accounted(y)
  BY <1>1, <1>5 DEF M!ChangeUntold, M!Change, Telling
<1>6. ASSUME NEW a \in Admins, NEW x \in Ids, NEW r, M!Told(a, x, r)
      PROVE  \A y \in Ids : Accounted(y)
  <2>1. Telling(x)'
    BY <1>6 DEF M!Told, Telling
  <2>2. ASSUME NEW y \in Ids, Telling(y) PROVE Telling(y)'
    BY <1>6, <2>2 DEF M!Told, Telling
  <2> QED
    BY <1>1, <1>6, <2>1, <2>2 DEF M!Told, M!Change
<1>7. ASSUME NEW a \in Admins, NEW x \in Ids, NEW p \in M!Patches, M!BatchRead(a, x, p)
      PROVE  \A y \in Ids : Accounted(y)
  <2>1. ASSUME NEW y \in Ids, Telling(y) PROVE Telling(y)'
    BY <1>7, <2>1 DEF M!BatchRead, Telling
  <2> QED
    BY <1>1, <1>7, <2>1 DEF M!BatchRead
<1>8. ASSUME NEW a \in Admins, M!BatchWrite(a) PROVE \A y \in Ids : Accounted(y)
  <2>1. ASSUME NEW y \in Ids, Telling(y) PROVE Telling(y)'
    BY <1>8, <2>1 DEF M!BatchWrite, Telling, M!Calls
  <2>2. CASE models[editor[a].alias] = None
    BY <1>1, <1>8, <2>1, <2>2 DEF M!BatchWrite
  <2>3. CASE models[editor[a].alias] # None
    <3>1. PICK x \in Ids : x = editor[a].alias
      BY DEF M!Calls
    <3>2. Telling(x)'
      BY <1>8, <2>3, <3>1 DEF M!BatchWrite, Telling, M!Calls
    <3>3. /\ \A y \in Ids : y # x => models'[y] = models[y]
          /\ resolved' = resolved /\ outdated' = outdated
      BY <1>8, <2>3, <3>1 DEF M!BatchWrite, M!Change
    <3> QED
      BY <1>1, <2>1, <3>2, <3>3
  <2> QED
    BY <2>2, <2>3
<1>9. ASSUME NEW a \in Admins, M!InvalidateModel(a) PROVE \A y \in Ids : Accounted(y)
  <2>1. ASSUME NEW y \in Ids, Telling(y), y # editor[a].alias PROVE Telling(y)'
    BY <1>9, <2>1 DEF M!InvalidateModel, Telling
  <2> QED
    BY <1>1, <1>9, <2>1 DEF M!InvalidateModel, M!Calls
<1> QED
  BY <1>2, <1>3, <1>4, <1>5, <1>6, <1>7, <1>8, <1>9
     DEF M!Next, M!vars, M!Resolve, M!LookAgain, M!ReadRow, M!CreateModel, M!UpdateModel, M!DeleteModel

\* What is cached of a model is its row, or its invalidation is on its way, or
\* the row was changed while it was loaded or elsewhere: no interleaving of
\* handlers, loads and expiries makes a fourth case (modelCacheResolver).
THEOREM ResolutionNeverLost == M!Spec => []M!ResolutionCurrent
<1>1. M!Init => ModelInv
  <2>1. M!Init => M!TypeOK
    BY DEF M!Init, M!TypeOK, M!Loads
  <2> QED
    BY <2>1 DEF M!Init, ModelInv, LoadsCurrent, M!ResolutionCurrent
<1>2. ModelInv /\ [M!Next]_M!vars /\ M!TypeOK' => ModelInv'
  BY LoadsCurrentStep, ResolutionStep DEF ModelInv
<1>3. ModelInv => M!ResolutionCurrent
  BY DEF ModelInv
<1> QED
  BY <1>1, <1>2, <1>3, ModelTypes, PTL DEF M!Spec

-----------------------------------------------------------------------------
(* ImportJobs *)

WorkerPlaces == {"receive", "process", "created", "failed", "hook", "done"}

\* A function from finitely many workers to their places.
Crew(f) == f \in [DOMAIN f -> WorkerPlaces] /\ IsFiniteSet(DOMAIN f)

\* How many workers are at one of the places P.
Busy(f, P) == Cardinality({w \in DOMAIN f : f[w] \in P})

\* A worker that moves leaves the number at P, joins it, or neither.
LEMMA WorkerMoves ==
  ASSUME NEW f, Crew(f), NEW w \in DOMAIN f, NEW l \in WorkerPlaces, NEW P,
         NEW g, g = [f EXCEPT ![w] = l]
  PROVE  /\ Crew(g) /\ DOMAIN g = DOMAIN f
         /\ Busy(f, P) \in Nat /\ Busy(g, P) \in Nat
         /\ f[w] \in P /\ l \notin P => Busy(f, P) = Busy(g, P) + 1
         /\ f[w] \notin P /\ l \in P => Busy(g, P) = Busy(f, P) + 1
         /\ (f[w] \in P <=> l \in P) => Busy(g, P) = Busy(f, P)
<1> DEFINE F == {v \in DOMAIN f : f[v] \in P}
           G == {v \in DOMAIN g : g[v] \in P}
<1>1. DOMAIN g = DOMAIN f /\ g \in [DOMAIN f -> WorkerPlaces] /\ g[w] = l
  BY DEF Crew
<1>2. \A v \in DOMAIN f : v # w => g[v] = f[v]
  BY DEF Crew
<1>3. IsFiniteSet(F) /\ IsFiniteSet(G)
  BY <1>1, FS_Subset DEF Crew
<1>4. Cardinality(F) \in Nat /\ Cardinality(G) \in Nat
  BY <1>3, FS_CardinalityType
<1>5. ASSUME f[w] \in P, l \notin P PROVE Cardinality(F) = Cardinality(G) + 1
  <2>1. F = G \cup {w} /\ w \notin G
    BY <1>1, <1>2, <1>5
  <2> QED
    BY <1>3, <2>1, FS_AddElement
<1>6. ASSUME f[w] \notin P, l \in P PROVE Cardinality(G) = Cardinality(F) + 1
  <2>1. G = F \cup {w} /\ w \notin F
    BY <1>1, <1>2, <1>6
  <2> QED
    BY <1>3, <2>1, FS_AddElement
<1>7. ASSUME f[w] \in P <=> l \in P PROVE G = F
  BY <1>1, <1>2, <1>7
<1> QED
  BY <1>1, <1>4, <1>5, <1>6, <1>7 DEF Busy, Crew

\* Nobody is at P.
LEMMA NobodyBusy ==
  ASSUME NEW f, NEW P, \A w \in DOMAIN f : f[w] \notin P PROVE Busy(f, P) = 0
<1>1. {w \in DOMAIN f : f[w] \in P} = {}
  OBVIOUS
<1> QED
  BY <1>1, FS_EmptySet DEF Busy

-----------------------------------------------------------------------------

Handed  == {"process", "created", "failed"}   (* a token received, not counted *)
Written == {"created", "hook"}                (* a credential not told of yet  *)

JobSnapshots == [status : {"running", "completed"}, total : Nat, processed : Nat,
                 succeeded : Nat, errors : Nat]

\* A job's snapshot s, what runs of it, r, and its credentials, t: each token is
\* waiting, with a worker, or counted; each credential is told of or about to be.
Whole(s, r, t) ==
  /\ s \in JobSnapshots
  /\ r \in [left : Nat, open : BOOLEAN, worker : {r.worker}] /\ Crew(r.worker)
  /\ t \in [written : Nat, synced : Nat]
  /\ s.total = s.processed + r.left + Busy(r.worker, Handed)
  /\ t.written = t.synced + Busy(r.worker, Written)
  /\ t.written = s.succeeded + Busy(r.worker, {"created"})
  /\ s.processed = s.succeeded + s.errors
  /\ r.open \/ r.left = 0
  /\ s.status = "completed" <=> r = I!Idle
  /\ r = I!Idle <=> DOMAIN r.worker = {}

Sound(s, r, t) == IF s = None THEN r = I!Idle ELSE Whole(s, r, t)

JobInv ==
  /\ jobs = [j \in Ids |-> jobs[j]] /\ run = [j \in Ids |-> run[j]]
  /\ told = [j \in Ids |-> told[j]]
  /\ \A j \in Ids : Sound(jobs[j], run[j], told[j])

\* A token is counted.
LEMMA Counted ==
  ASSUME NEW s \in JobSnapshots
  PROVE  /\ [s EXCEPT !.processed = @ + 1] \in JobSnapshots
         /\ [s EXCEPT !.succeeded = @ + 1] \in JobSnapshots
         /\ [s EXCEPT !.errors = @ + 1] \in JobSnapshots
BY DEF JobSnapshots

\* A job of which a worker is there runs.
LEMMA WorkerOfJob ==
  ASSUME JobInv, NEW j \in Ids, NEW w \in I!Workers(j)
  PROVE  /\ jobs[j] # None /\ Whole(jobs[j], run[j], told[j])
         /\ jobs[j].status = "running" /\ run[j] # I!Idle
<1>1. DOMAIN I!Idle.worker = {}
  BY DEF I!Idle
<1>2. run[j] # I!Idle
  BY <1>1 DEF I!Workers
<1> QED
  BY <1>2 DEF JobInv, Sound, Whole, JobSnapshots

\* A step of one job leaves the others sound.
LEMMA OneJobMoves ==
  ASSUME JobInv, NEW j \in Ids, NEW s, NEW r, NEW t, Sound(s, r, t),
         jobs' = [jobs EXCEPT ![j] = s], run' = [run EXCEPT ![j] = r],
         told' = [told EXCEPT ![j] = t]
  PROVE  JobInv'
<1>1. jobs' = [i \in Ids |-> jobs'[i]] /\ run' = [i \in Ids |-> run'[i]]
      /\ told' = [i \in Ids |-> told'[i]]
  BY DEF JobInv
<1>2. ASSUME NEW i \in Ids PROVE Sound(jobs'[i], run'[i], told'[i])
  <2>1. CASE i = j
    <3>1. jobs'[j] = s /\ run'[j] = r /\ told'[j] = t
      BY DEF JobInv
    <3> QED
      BY <2>1, <3>1
  <2>2. CASE i # j
    <3>1. jobs'[i] = jobs[i] /\ run'[i] = run[i] /\ told'[i] = told[i]
      BY <2>2 DEF JobInv
    <3> QED
      BY <3>1 DEF JobInv
  <2> QED
    BY <2>1, <2>2
<1> QED
  BY <1>1, <1>2 DEF JobInv

\* What Goto makes of a run.
LEMMA Gone ==
  ASSUME JobInv, NEW j \in Ids, NEW w \in I!Workers(j), NEW l, I!Goto(j, w, l)
  PROVE  run' = [run EXCEPT ![j] = [left |-> run[j].left, open |-> run[j].open,
                                    worker |-> [run[j].worker EXCEPT ![w] = l]]]
<1>1. run[j] \in [left : Nat, open : BOOLEAN, worker : {run[j].worker}]
  BY WorkerOfJob DEF Whole
<1>2. [run[j] EXCEPT !.worker[w] = l]
        = [left |-> run[j].left, open |-> run[j].open, worker |-> [run[j].worker EXCEPT ![w] = l]]
  BY <1>1
<1>3. run' = [run EXCEPT ![j] = [run[j] EXCEPT !.worker[w] = l]]
  BY DEF I!Goto
<1> QED
  BY <1>2, <1>3

\* A worker moves to l, n tokens wait, and the counts u and v follow.
LEMMA StillWhole ==
  ASSUME NEW s, NEW r, NEW t, Whole(s, r, t), NEW w \in DOMAIN r.worker, NEW l \in WorkerPlaces,
         NEW n \in Nat, r.open \/ n = 0,
         NEW g, g = [r.worker EXCEPT ![w] = l],
         NEW u \in JobSnapshots, u.status = "running",
         NEW v \in [written : Nat, synced : Nat],
         u.total = u.processed + n + Busy(g, Handed),
         v.written = v.synced + Busy(g, Written),
         v.written = u.succeeded + Busy(g, {"created"}),
         u.processed = u.succeeded + u.errors
  PROVE  Whole(u, [left |-> n, open |-> r.open, worker |-> g], v)
<1> DEFINE q == [left |-> n, open |-> r.open, worker |-> g]
<1>1. r.open \in BOOLEAN /\ Crew(r.worker)
  BY DEF Whole
<1>2. Crew(g) /\ DOMAIN g = DOMAIN r.worker
  BY <1>1, WorkerMoves
<1>3. q.worker = g /\ q.left = n /\ q.open = r.open
      /\ q \in [left : Nat, open : BOOLEAN, worker : {q.worker}]
  BY <1>1
<1>4. DOMAIN I!Idle.worker = {} /\ DOMAIN q.worker # {}
  BY <1>2, <1>3 DEF I!Idle
<1>5. q # I!Idle
  BY <1>4
<1> HIDE DEF q
<1>6. Whole(u, q, v)
  BY <1>2, <1>3, <1>4, <1>5 DEF Whole
<1> QED
  BY <1>6 DEF q

\* The steps of a worker, one by one: what it leaves and joins.
LEMMA WorkerSteps ==
  ASSUME JobInv, None \notin JobSnapshots, NEW j \in Ids, NEW w \in I!Workers(j),
         \/ I!Hand(j, w) \/ I!Process(j, w) \/ I!RecordCreated(j, w) \/ I!RecordError(j, w)
         \/ I!OnCreated(j, w) \/ I!WorkerDone(j, w)
  PROVE  JobInv'
<1> DEFINE s == jobs[j]
           r == run[j]
           t == told[j]
           f == run[j].worker
           G(l) == [f EXCEPT ![w] = l]
<1>1. Whole(s, r, t) /\ s # None /\ s.status = "running"
  BY WorkerOfJob
<1>2. r.left \in Nat /\ r.open \in BOOLEAN /\ Crew(f) /\ w \in DOMAIN f
  BY <1>1 DEF Whole, I!Workers
<1>3. s \in JobSnapshots /\ t \in [written : Nat, synced : Nat]
  BY <1>1 DEF Whole
<1>4. jobs = [jobs EXCEPT ![j] = s] /\ told = [told EXCEPT ![j] = t]
  BY DEF JobInv
<1>5. /\ s.total = s.processed + r.left + Busy(f, Handed)
      /\ t.written = t.synced + Busy(f, Written)
      /\ t.written = s.succeeded + Busy(f, {"created"})
      /\ s.processed = s.succeeded + s.errors
      /\ r.open \/ r.left = 0
  BY <1>1 DEF Whole
<1>6. ASSUME NEW l \in WorkerPlaces, NEW P
      PROVE  /\ Busy(f, P) \in Nat /\ Busy(G(l), P) \in Nat
             /\ f[w] \in P /\ l \notin P => Busy(f, P) = Busy(G(l), P) + 1
             /\ f[w] \notin P /\ l \in P => Busy(G(l), P) = Busy(f, P) + 1
             /\ (f[w] \in P <=> l \in P) => Busy(G(l), P) = Busy(f, P)
  BY <1>2, WorkerMoves
<1>7. CASE I!Hand(j, w)
  <2>1. /\ r.left > 0 /\ f[w] = "receive"
        /\ jobs' = [jobs EXCEPT ![j] = s] /\ told' = [told EXCEPT ![j] = t]
    BY <1>4, <1>7 DEF I!Hand, I!WorkerAt
  <2>2. run' = [run EXCEPT ![j] = [left |-> r.left - 1, open |-> r.open, worker |-> G("process")]]
    <3>1. r \in [left : Nat, open : BOOLEAN, worker : {f}]
      BY <1>1 DEF Whole
    <3> DEFINE q == [r EXCEPT !.left = r.left - 1]
    <3>2. q = [left |-> r.left - 1, open |-> r.open, worker |-> f]
      BY <3>1
    <3>3. [r EXCEPT !.left = r.left - 1, !.worker[w] = "process"] = [q EXCEPT !.worker[w] = "process"]
      BY <3>1
    <3> HIDE DEF q
    <3>4. [q EXCEPT !.worker[w] = "process"]
            = [left |-> r.left - 1, open |-> r.open, worker |-> G("process")]
      BY <3>2
    <3>5. run' = [run EXCEPT ![j] = [r EXCEPT !.left = r.left - 1, !.worker[w] = "process"]]
      BY <1>7 DEF I!Hand, JobInv
    <3> QED
      BY <3>3, <3>4, <3>5
  <2>3. /\ Busy(G("process"), Handed) = Busy(f, Handed) + 1
        /\ Busy(G("process"), Written) = Busy(f, Written)
        /\ Busy(G("process"), {"created"}) = Busy(f, {"created"})
    BY <1>6, <2>1 DEF WorkerPlaces, Handed, Written
  <2>4. s.total = s.processed + (r.left - 1) + Busy(G("process"), Handed)
        /\ r.left - 1 \in Nat /\ (r.open \/ r.left - 1 = 0)
    BY <1>2, <1>3, <1>5, <1>6, <2>1, <2>3 DEF JobSnapshots, WorkerPlaces
  <2>5. Whole(s, [left |-> r.left - 1, open |-> r.open, worker |-> G("process")], t)
    BY <1>1, <1>2, <1>3, <1>5, <2>3, <2>4, StillWhole DEF WorkerPlaces
  <2> QED
    BY <1>1, <2>1, <2>2, <2>5, OneJobMoves DEF Sound
<1>8. ASSUME NEW l \in WorkerPlaces, NEW u, NEW v, I!Goto(j, w, l),
             jobs' = [jobs EXCEPT ![j] = u], told' = [told EXCEPT ![j] = v],
             u \in JobSnapshots, u.status = "running", v \in [written : Nat, synced : Nat],
             u.total = u.processed + r.left + Busy(G(l), Handed),
             v.written = v.synced + Busy(G(l), Written),
             v.written = u.succeeded + Busy(G(l), {"created"}),
             u.processed = u.succeeded + u.errors
      PROVE  JobInv'
  <2>1. run' = [run EXCEPT ![j] = [left |-> r.left, open |-> r.open, worker |-> G(l)]]
    BY <1>8, Gone
  <2>2. Whole(u, [left |-> r.left, open |-> r.open, worker |-> G(l)], v)
    BY <1>1, <1>2, <1>5, <1>8, StillWhole
  <2>3. u # None
    BY <1>8
  <2> QED
    BY <1>8, <2>1, <2>2, <2>3, OneJobMoves DEF Sound
<1>9. CASE I!Process(j, w)
  <2>1. f[w] = "process" /\ jobs' = [jobs EXCEPT ![j] = s]
    BY <1>4, <1>9 DEF I!Process, I!WorkerAt
  <2>2. CASE I!Goto(j, w, "created") /\ told' = [told EXCEPT ![j].written = @ + 1]
    <3>1. told' = [told EXCEPT ![j] = [t EXCEPT !.written = @ + 1]]
      BY <2>2
    <3>2. /\ Busy(G("created"), Handed) = Busy(f, Handed)
          /\ Busy(G("created"), Written) = Busy(f, Written) + 1
          /\ Busy(G("created"), {"created"}) = Busy(f, {"created"}) + 1
      BY <1>6, <2>1 DEF WorkerPlaces, Handed, Written
    <3>3. Busy(f, Written) \in Nat /\ Busy(f, {"created"}) \in Nat
      BY <1>6 DEF WorkerPlaces
    <3> DEFINE v == [t EXCEPT !.written = @ + 1]
    <3>4. v \in [written : Nat, synced : Nat] /\ v.written = t.written + 1 /\ v.synced = t.synced
      BY <1>3
    <3> HIDE DEF v
    <3>5. v.written = v.synced + Busy(G("created"), Written)
          /\ v.written = s.succeeded + Busy(G("created"), {"created"})
      <4>1. t.written \in Nat /\ t.synced \in Nat /\ s.succeeded \in Nat
        BY <1>3 DEF JobSnapshots
      <4> QED
        BY <1>5, <3>2, <3>3, <3>4, <4>1
    <3> QED
      BY <1>1, <1>3, <1>5, <1>8, <2>1, <2>2, <3>1, <3>2, <3>4, <3>5 DEF WorkerPlaces, v
  <2>3. CASE I!Goto(j, w, "failed") /\ UNCHANGED told
    <3>1. told' = [told EXCEPT ![j] = t]
      BY <1>4, <2>3
    <3>2. /\ Busy(G("failed"), Handed) = Busy(f, Handed)
          /\ Busy(G("failed"), Written) = Busy(f, Written)
          /\ Busy(G("failed"), {"created"}) = Busy(f, {"created"})
      BY <1>6, <2>1 DEF WorkerPlaces, Handed, Written
    <3>3. I!Goto(j, w, "failed")
      BY <2>3
    <3> QED
      BY <1>1, <1>3, <1>5, <1>8, <2>1, <3>1, <3>2, <3>3 DEF WorkerPlaces
  <2> QED
    BY <1>9, <2>2, <2>3 DEF I!Process
<1>10. CASE I!RecordCreated(j, w)
  <2>1. f[w] = "created" /\ told' = [told EXCEPT ![j] = t] /\ I!Goto(j, w, "hook")
    BY <1>4, <1>10 DEF I!RecordCreated, I!WorkerAt
  <2> DEFINE u == [s EXCEPT !.processed = @ + 1, !.succeeded = @ + 1]
  <2>2. jobs' = [jobs EXCEPT ![j] = u]
    BY <1>10 DEF I!RecordCreated
  <2>3. /\ Busy(f, Handed) = Busy(G("hook"), Handed) + 1
        /\ Busy(G("hook"), Written) = Busy(f, Written)
        /\ Busy(f, {"created"}) = Busy(G("hook"), {"created"}) + 1
        /\ Busy(G("hook"), Handed) \in Nat /\ Busy(G("hook"), {"created"}) \in Nat
    BY <1>6, <2>1 DEF WorkerPlaces, Handed, Written
  <2>4. /\ u \in JobSnapshots /\ u.status = s.status /\ u.total = s.total /\ u.errors = s.errors
        /\ u.processed = s.processed + 1 /\ u.succeeded = s.succeeded + 1
    <3>1. u = [[s EXCEPT !.processed = @ + 1] EXCEPT !.succeeded = @ + 1]
      BY <1>3 DEF JobSnapshots
    <3>2. u \in JobSnapshots
      BY <1>3, <3>1, Counted, Zenon
    <3>3. /\ u.status = s.status /\ u.total = s.total /\ u.processed = s.processed + 1
          /\ u.succeeded = s.succeeded + 1 /\ u.errors = s.errors
      BY <1>3 DEF JobSnapshots
    <3> HIDE DEF u
    <3> QED
      BY <3>2, <3>3
  <2>5. /\ u.total = u.processed + r.left + Busy(G("hook"), Handed)
        /\ t.written = u.succeeded + Busy(G("hook"), {"created"})
        /\ u.processed = u.succeeded + u.errors
    BY <1>2, <1>3, <1>5, <2>3, <2>4 DEF JobSnapshots
  <2> QED
    BY <1>1, <1>3, <1>5, <1>8, <2>1, <2>2, <2>3, <2>4, <2>5 DEF WorkerPlaces
<1>11. CASE I!RecordError(j, w)
  <2>1. f[w] = "failed" /\ told' = [told EXCEPT ![j] = t] /\ I!Goto(j, w, "receive")
    BY <1>4, <1>11 DEF I!RecordError, I!WorkerAt
  <2> DEFINE u == [s EXCEPT !.processed = @ + 1, !.errors = @ + 1]
  <2>2. jobs' = [jobs EXCEPT ![j] = u]
    BY <1>11 DEF I!RecordError
  <2>3. /\ Busy(f, Handed) = Busy(G("receive"), Handed) + 1
        /\ Busy(G("receive"), Written) = Busy(f, Written)
        /\ Busy(G("receive"), {"created"}) = Busy(f, {"created"})
        /\ Busy(G("receive"), Handed) \in Nat
    BY <1>6, <2>1 DEF WorkerPlaces, Handed, Written
  <2>4. /\ u \in JobSnapshots /\ u.status = s.status /\ u.total = s.total
        /\ u.errors = s.errors + 1 /\ u.processed = s.processed + 1 /\ u.succeeded = s.succeeded
    <3>1. u = [[s EXCEPT !.processed = @ + 1] EXCEPT !.errors = @ + 1]
      BY <1>3 DEF JobSnapshots
    <3>2. u \in JobSnapshots
      BY <1>3, <3>1, Counted, Zenon
    <3>3. /\ u.status = s.status /\ u.total = s.total /\ u.processed = s.processed + 1
          /\ u.succeeded = s.succeeded /\ u.errors = s.errors + 1
      BY <1>3 DEF JobSnapshots
    <3> HIDE DEF u
    <3> QED
      BY <3>2, <3>3
  <2>5. /\ u.total = u.processed + r.left + Busy(G("receive"), Handed)
        /\ u.processed = u.succeeded + u.errors
    BY <1>2, <1>3, <1>5, <2>3, <2>4 DEF JobSnapshots
  <2> QED
    BY <1>1, <1>3, <1>5, <1>8, <2>1, <2>2, <2>3, <2>4, <2>5 DEF WorkerPlaces
<1>12. CASE I!OnCreated(j, w)
  <2>1. f[w] = "hook" /\ jobs' = [jobs EXCEPT ![j] = s] /\ I!Goto(j, w, "receive")
    BY <1>4, <1>12 DEF I!OnCreated, I!WorkerAt
  <2> DEFINE v == [t EXCEPT !.synced = @ + 1]
  <2>2. told' = [told EXCEPT ![j] = v]
    BY <1>12 DEF I!OnCreated
  <2>3. /\ Busy(G("receive"), Handed) = Busy(f, Handed)
        /\ Busy(f, Written) = Busy(G("receive"), Written) + 1
        /\ Busy(G("receive"), {"created"}) = Busy(f, {"created"})
        /\ Busy(G("receive"), Written) \in Nat
    BY <1>6, <2>1 DEF WorkerPlaces, Handed, Written
  <2>4. v \in [written : Nat, synced : Nat] /\ v.written = t.written /\ v.synced = t.synced + 1
    BY <1>3
  <2>5. v.written = v.synced + Busy(G("receive"), Written)
    BY <1>3, <1>5, <2>3, <2>4
  <2> QED
    BY <1>1, <1>3, <1>5, <1>8, <2>1, <2>2, <2>3, <2>4, <2>5 DEF WorkerPlaces
<1>13. CASE I!WorkerDone(j, w)
  <2>1. /\ f[w] = "receive" /\ I!Goto(j, w, "done")
        /\ jobs' = [jobs EXCEPT ![j] = s] /\ told' = [told EXCEPT ![j] = t]
    BY <1>4, <1>13 DEF I!WorkerDone, I!WorkerAt
  <2>2. /\ Busy(G("done"), Handed) = Busy(f, Handed)
        /\ Busy(G("done"), Written) = Busy(f, Written)
        /\ Busy(G("done"), {"created"}) = Busy(f, {"created"})
    BY <1>6, <2>1 DEF WorkerPlaces, Handed, Written
  <2> QED
    BY <1>1, <1>3, <1>5, <1>8, <2>1, <2>2 DEF WorkerPlaces
<1> QED
  BY <1>7, <1>9, <1>10, <1>11, <1>12, <1>13

\* A job of which nothing runs has no worker anywhere.
LEMMA IdleIsEmpty ==
  /\ DOMAIN I!Idle.worker = {} /\ Crew(I!Idle.worker) /\ I!Idle.left = 0 /\ I!Idle.open = FALSE
  /\ I!Idle \in [left : Nat, open : BOOLEAN, worker : {I!Idle.worker}]
  /\ \A P : Busy(I!Idle.worker, P) = 0
<1>1. DOMAIN I!Idle.worker = {} /\ I!Idle.left = 0 /\ I!Idle.open = FALSE
      /\ I!Idle \in [left : Nat, open : BOOLEAN, worker : {I!Idle.worker}]
  BY DEF I!Idle
<1>2. I!Idle.worker \in [{} -> WorkerPlaces]
  BY DEF I!Idle
<1> QED
  BY <1>1, <1>2, NobodyBusy, FS_EmptySet DEF Crew

\* A new job has all its tokens before it, or none.
LEMMA StartStep ==
  ASSUME JobInv, None \notin JobSnapshots, NEW j \in Ids, NEW total \in 0 .. MaxTokens,
         NEW cap \in 1 .. MaxWorkers, I!Start(j, total, cap)
  PROVE  JobInv'
<1> DEFINE status == IF total = 0 THEN "completed" ELSE "running"
           s == [status |-> status, total |-> total, processed |-> 0, succeeded |-> 0, errors |-> 0]
           t == [written |-> 0, synced |-> 0]
           f == [w \in 1 .. I!Smaller(cap, total) |-> "receive"]
           r == IF total = 0 THEN I!Idle ELSE [left |-> total, open |-> TRUE, worker |-> f]
<1>1. jobs' = [jobs EXCEPT ![j] = s] /\ run' = [run EXCEPT ![j] = r] /\ told' = [told EXCEPT ![j] = t]
  BY DEF I!Start
<1>2. s \in JobSnapshots /\ t \in [written : Nat, synced : Nat]
  BY DEF JobSnapshots
<1>3. CASE total = 0
  <2>1. Whole(s, I!Idle, t)
    BY <1>2, <1>3, IdleIsEmpty DEF Whole
  <2> QED
    BY <1>1, <1>2, <1>3, <2>1, OneJobMoves DEF Sound
<1>4. CASE total # 0
  <2>1. I!Smaller(cap, total) \in Nat \ {0}
    BY <1>4 DEF I!Smaller
  <2>2. f \in [DOMAIN f -> WorkerPlaces] /\ DOMAIN f = 1 .. I!Smaller(cap, total) /\ 1 \in DOMAIN f
        /\ \A w \in DOMAIN f : f[w] = "receive"
    BY <2>1 DEF WorkerPlaces
  <2>3. Crew(f)
    BY <2>1, <2>2, FS_Interval DEF Crew
  <2> DEFINE q == [left |-> total, open |-> TRUE, worker |-> f]
  <2>4. Busy(f, Handed) = 0 /\ Busy(f, Written) = 0 /\ Busy(f, {"created"}) = 0
    BY <2>2, NobodyBusy DEF Handed, Written
  <2> HIDE DEF f
  <2>5. q.left = total /\ q.open = TRUE /\ q.worker = f /\ q # I!Idle
        /\ q \in [left : Nat, open : BOOLEAN, worker : {f}]
    BY IdleIsEmpty
  <2> HIDE DEF q
  <2>6. s.total = total /\ s.processed = 0 /\ s.succeeded = 0 /\ s.errors = 0 /\ s.status = "running"
        /\ t.written = 0 /\ t.synced = 0
    BY <1>4
  <2> HIDE DEF s, t
  <2>7. Whole(s, q, t)
    <3>1. q \in [left : Nat, open : BOOLEAN, worker : {q.worker}] /\ Crew(q.worker)
          /\ DOMAIN q.worker # {}
      BY <2>2, <2>3, <2>5
    <3>2. /\ s.total = s.processed + q.left + Busy(q.worker, Handed)
          /\ t.written = t.synced + Busy(q.worker, Written)
          /\ t.written = s.succeeded + Busy(q.worker, {"created"})
          /\ s.processed = s.succeeded + s.errors
      BY <2>4, <2>5, <2>6
    <3>3. s.status # "completed" /\ q # I!Idle /\ q.open
      BY <2>5, <2>6
    <3> QED
      BY <1>2, <3>1, <3>2, <3>3 DEF Whole
  <2>8. r = q
    BY <1>4 DEF q
  <2>9. Sound(s, r, t)
    BY <1>2, <2>7, <2>8 DEF Sound
  <2> QED
    BY <1>1, <2>9, OneJobMoves
<1> QED
  BY <1>3, <1>4

\* No token is left when the channel is closed.
LEMMA CloseStep ==
  ASSUME JobInv, NEW j \in Ids, I!CloseChannel(j) PROVE JobInv'
<1> DEFINE r == run[j]
           q == [r EXCEPT !.open = FALSE]
<1>1. r # I!Idle /\ r.left = 0
  BY IdleIsEmpty DEF I!CloseChannel
<1>2. jobs[j] # None /\ Whole(jobs[j], r, told[j])
  BY <1>1 DEF JobInv, Sound
<1>3. q \in [left : Nat, open : BOOLEAN, worker : {r.worker}] /\ q.left = 0 /\ q.worker = r.worker
  BY <1>1, <1>2 DEF Whole
<1>4. q # I!Idle
  BY <1>1, <1>2, <1>3, IdleIsEmpty DEF Whole
<1>5. jobs' = [jobs EXCEPT ![j] = jobs[j]] /\ told' = [told EXCEPT ![j] = told[j]]
      /\ run' = [run EXCEPT ![j] = q]
  BY DEF I!CloseChannel, JobInv
<1> HIDE DEF q
<1>6. Whole(jobs[j], q, told[j])
  BY <1>1, <1>2, <1>3, <1>4 DEF Whole
<1> QED
  BY <1>2, <1>5, <1>6, OneJobMoves DEF Sound

\* When every worker is done, every token is counted and every credential told of.
LEMMA FinishStep ==
  ASSUME JobInv, None \notin JobSnapshots, NEW j \in Ids, I!Finish(j) PROVE JobInv'
<1> DEFINE s == jobs[j]
           r == run[j]
           t == told[j]
           u == [s EXCEPT !.status = "completed"]
<1>1. r # I!Idle /\ Whole(s, r, t)
  BY DEF I!Finish, JobInv, Sound
<1>2. \A w \in DOMAIN r.worker : r.worker[w] = "done"
  BY DEF I!Finish, I!AllDone, I!WorkerAt, I!Workers
<1>3. Busy(r.worker, Handed) = 0 /\ Busy(r.worker, Written) = 0 /\ Busy(r.worker, {"created"}) = 0
  BY <1>2, NobodyBusy DEF Handed, Written
<1>4. r.left = 0
  BY <1>1 DEF Whole, I!Finish, I!AllDone
<1>5. /\ u \in JobSnapshots /\ u.status = "completed" /\ u.total = s.total
      /\ u.processed = s.processed /\ u.succeeded = s.succeeded /\ u.errors = s.errors
  BY <1>1 DEF Whole, JobSnapshots
<1>6. jobs' = [jobs EXCEPT ![j] = u] /\ run' = [run EXCEPT ![j] = I!Idle]
      /\ told' = [told EXCEPT ![j] = t]
  BY DEF I!Finish, JobInv
<1> HIDE DEF u
<1>7. Whole(u, I!Idle, t)
  BY <1>1, <1>3, <1>4, <1>5, IdleIsEmpty DEF Whole
<1>8. Sound(u, I!Idle, t)
  BY <1>5, <1>7 DEF Sound
<1> QED
  BY <1>6, <1>8, OneJobMoves

\* What is forgotten has ended.
LEMMA AcknowledgeStep ==
  ASSUME JobInv, NEW j \in Ids, I!Acknowledge(j) PROVE JobInv'
<1>1. run[j] = I!Idle
  BY DEF I!Acknowledge, JobInv, Sound, Whole
<1>2. jobs' = [jobs EXCEPT ![j] = None] /\ run' = [run EXCEPT ![j] = I!Idle]
      /\ told' = [told EXCEPT ![j] = told[j]]
  BY <1>1 DEF I!Acknowledge, JobInv
<1>3. Sound(None, I!Idle, told[j])
  BY DEF Sound
<1> QED
  BY <1>2, <1>3, OneJobMoves

-----------------------------------------------------------------------------

\* What the console shows of an import adds up, and a job that is completed, and
\* may be forgotten, has come to the end of every token, counted every credential
\* that it wrote and told the scheduler of it, however its workers interleave
\* (importJob.run).
THEOREM ImportsEndWhole == I!Spec => []I!CompletedIsWhole
<1> None \notin JobSnapshots
  BY NoneAssumption DEF JobSnapshots
<1>1. I!Init => JobInv
  BY DEF I!Init, JobInv, Sound
<1>2. JobInv /\ [I!Next]_I!vars => JobInv'
  <2> SUFFICES ASSUME JobInv, [I!Next]_I!vars PROVE JobInv'
    OBVIOUS
  <2>1. ASSUME NEW j \in Ids, NEW total \in 0 .. MaxTokens, NEW cap \in 1 .. MaxWorkers,
               I!Start(j, total, cap)
        PROVE  JobInv'
    BY <2>1, StartStep
  <2>2. ASSUME NEW j \in Ids, NEW w \in I!Workers(j),
               \/ I!Hand(j, w) \/ I!Process(j, w) \/ I!RecordCreated(j, w) \/ I!RecordError(j, w)
               \/ I!OnCreated(j, w) \/ I!WorkerDone(j, w)
        PROVE  JobInv'
    BY <2>2, WorkerSteps
  <2>3. ASSUME NEW j \in Ids, I!CloseChannel(j) PROVE JobInv'
    BY <2>3, CloseStep
  <2>4. ASSUME NEW j \in Ids, I!Finish(j) PROVE JobInv'
    BY <2>4, FinishStep
  <2>5. ASSUME NEW j \in Ids, I!Acknowledge(j) PROVE JobInv'
    BY <2>5, AcknowledgeStep
  <2>6. CASE UNCHANGED I!vars
    BY <2>6 DEF I!vars, JobInv
  <2> QED
    BY <2>1, <2>2, <2>3, <2>4, <2>5, <2>6 DEF I!Next
<1>3. JobInv => I!CompletedIsWhole
  <2> SUFFICES ASSUME JobInv, NEW j \in Ids, jobs[j] # None
               PROVE  /\ jobs[j].processed = jobs[j].succeeded + jobs[j].errors
                      /\ jobs[j].processed <= jobs[j].total
                      /\ jobs[j].status = "completed" =>
                           /\ jobs[j].processed = jobs[j].total /\ run[j] = I!Idle
                           /\ told[j].written = jobs[j].succeeded
                           /\ told[j].synced = told[j].written
    BY DEF I!CompletedIsWhole, JobInv, Sound
  <2>1. Whole(jobs[j], run[j], told[j])
    BY DEF JobInv, Sound
  <2>2. Busy(run[j].worker, Handed) \in Nat
    <3>1. IsFiniteSet({w \in DOMAIN run[j].worker : run[j].worker[w] \in Handed})
      BY <2>1, FS_Subset DEF Whole, Crew
    <3> QED
      BY <3>1, FS_CardinalityType DEF Busy
  <2>3. jobs[j] \in JobSnapshots /\ run[j].left \in Nat /\ told[j] \in [written : Nat, synced : Nat]
    BY <2>1 DEF Whole
  <2>4. CASE jobs[j].status = "completed"
    BY <2>1, <2>3, <2>4, IdleIsEmpty DEF Whole, JobSnapshots
  <2>5. CASE jobs[j].status # "completed"
    BY <2>1, <2>2, <2>3, <2>5 DEF Whole, JobSnapshots
  <2> QED
    BY <2>4, <2>5
<1> QED
  BY <1>1, <1>2, <1>3, PTL DEF I!Spec

-----------------------------------------------------------------------------
(* ContentAffinity.  The operators of the two instances are the same, one by one. *)

LEMMA AffinityConstants == CP!AffinityOK
<1>1. CP!PathsOK
  <2>1. C!Root \in Paths /\ C!Root = CP!Root
    <3>1. << >> \in [1 .. 0 -> Elements] /\ 0 \in 0 .. MaxLen
      BY AffinityAssumption
    <3> QED
      BY <3>1 DEF Paths, C!Root, CP!Root
  <2>2. ASSUME NEW s \in Paths
        PROVE  /\ s \in Seq(CP!Range(s))
               /\ \A k \in 0 .. Len(s) : SubSeq(s, 1, k) \in Paths
    <3>1. PICK n \in 0 .. MaxLen : s \in [1 .. n -> Elements]
      BY DEF Paths
    <3>2. n \in Nat /\ DOMAIN s = 1 .. n /\ \A i \in 1 .. n : s[i] \in CP!Range(s) /\ s[i] \in Elements
      BY <3>1, AffinityAssumption DEF CP!Range
    <3>3. s \in [1 .. n -> CP!Range(s)]
      BY <3>1, <3>2
    <3>4. s \in Seq(CP!Range(s)) /\ s \in Seq(Elements) /\ Len(s) = n
      BY <3>1, <3>2, <3>3
    <3>5. ASSUME NEW k \in 0 .. n PROVE SubSeq(s, 1, k) \in Paths
      <4>1. k \in 0 .. MaxLen /\ k <= Len(s) /\ k \in Nat
        BY <3>4, AffinityAssumption
      <4>2. SubSeq(s, 1, k) = [i \in 1 .. k |-> s[i]] /\ \A i \in 1 .. k : s[i] \in Elements
        BY <3>2, <3>4, <4>1
      <4>3. SubSeq(s, 1, k) \in [1 .. k -> Elements]
        BY <4>2
      <4> QED
        BY <4>1, <4>3 DEF Paths
    <3> QED
      BY <3>4, <3>5
  <2> QED
    BY <2>1, <2>2 DEF CP!PathsOK
<1>2. CP!Apart
  <2>1. None \notin Creds /\ None \notin Paths /\ None \notin CP!HeapKeys
    BY AffinityAssumption DEF CP!HeapKeys
  <2>2. None \notin CP!Bindings
    BY AffinityAssumption DEF CP!Bindings, C!Bindings
  <2>3. \A P \in SUBSET Paths : None \notin [P -> CP!HeapKeys \cup {None}]
    BY AffinityAssumption DEF CP!HeapKeys
  <2>4. \A P \in SUBSET Paths : None \notin [P -> CP!Node]
    BY AffinityAssumption DEF CP!HeapKeys, CP!Heaps, CP!Node
  <2>5. None \notin CP!Heaps /\ None \notin CP!Tries
    BY <2>3, <2>4 DEF CP!Heaps, CP!Tries
  <2> QED
    BY <2>1, <2>2, <2>5 DEF CP!Apart
<1> QED
  BY <1>1, <1>2, AffinityAssumption DEF CP!AffinityOK

LEMMA SameRecompute == ASSUME NEW T, NEW n PROVE C!Recompute(T, n) = CP!Recompute(T, n)
BY DEF C!Recompute, CP!Recompute, C!BestChild, CP!BestChild, C!KeyBetter, CP!KeyBetter,
    C!Longest, CP!Longest, C!Above, CP!Above, C!Children, CP!Children, C!ParentOf,
    CP!ParentOf, C!IsPrefix, CP!IsPrefix, C!SetNearest, CP!SetNearest,
    C!RefreshCandidate, CP!RefreshCandidate, C!Key, CP!Key, C!Better, CP!Better,
    C!Root, CP!Root

LEMMA SameRecomputePath == ASSUME NEW T, NEW n PROVE C!RecomputePath(T, n) = CP!RecomputePath(T, n)
<1> DEFINE F(f) == [k \in 0 .. Len(n) |->
                      LET X == IF k = Len(n) THEN T ELSE f[k + 1]
                      IN IF SubSeq(n, 1, k) \in DOMAIN T THEN C!Recompute(X, SubSeq(n, 1, k)) ELSE X]
           G(f) == [k \in 0 .. Len(n) |->
                      LET X == IF k = Len(n) THEN T ELSE f[k + 1]
                      IN IF SubSeq(n, 1, k) \in DOMAIN T THEN CP!Recompute(X, SubSeq(n, 1, k)) ELSE X]
<1>1. \A f : F(f) = G(f)
  BY SameRecompute
<1>2. C!RecomputePath(T, n) = (CHOOSE f : f = F(f))[0]
  BY DEF C!RecomputePath, C!Upward
<1>3. CP!RecomputePath(T, n) = (CHOOSE f : f = G(f))[0]
  BY DEF CP!RecomputePath, CP!Upward
<1> HIDE DEF F, G
<1>4. (CHOOSE f : f = F(f)) = (CHOOSE f : f = G(f))
  BY <1>1
<1> QED
  BY <1>2, <1>3, <1>4

LEMMA SameAddNode == ASSUME NEW T, NEW n PROVE C!AddNode(T, n) = CP!AddNode(T, n)
BY DEF C!AddNode, CP!AddNode, C!WithNode, CP!WithNode, C!NewNode, CP!NewNode, C!Longest,
    CP!Longest, C!Above, CP!Above, C!Children, CP!Children, C!ParentOf, CP!ParentOf,
    C!IsPrefix, CP!IsPrefix, C!Indexed, CP!Indexed, C!Rebuilt, CP!Rebuilt,
    C!Cardinality, CP!Cardinality, C!Key, CP!Key

LEMMA SameSetNearest ==
  ASSUME NEW T, NEW n, NEW t PROVE C!SetNearest(T, n, t) = CP!SetNearest(T, n, t)
BY DEF C!SetNearest, CP!SetNearest, C!RefreshCandidate, CP!RefreshCandidate, C!Key, CP!Key,
    C!ParentOf, CP!ParentOf, C!Longest, CP!Longest, C!Above, CP!Above, C!IsPrefix,
    CP!IsPrefix, C!Root, CP!Root

LEMMA SamePropagate == ASSUME NEW T, NEW n PROVE C!Propagate(T, n) = CP!Propagate(T, n)
<1> DEFINE Told == {m \in C!Above(T, n) :
                      ~\E b \in C!Above(T, n) : Len(b) >= Len(m) /\ C!KnowsBetter(T, b, n)}
           F(f) == [k \in 0 .. Len(n) |->
                      LET X == IF k = Len(n) THEN T ELSE f[k + 1]
                      IN IF SubSeq(n, 1, k) \in DOMAIN T
                           THEN IF SubSeq(n, 1, k) \in Told
                                  THEN C!SetNearest(X, SubSeq(n, 1, k), n) ELSE X
                           ELSE X]
           G(f) == [k \in 0 .. Len(n) |->
                      LET X == IF k = Len(n) THEN T ELSE f[k + 1]
                      IN IF SubSeq(n, 1, k) \in DOMAIN T
                           THEN IF SubSeq(n, 1, k) \in Told
                                  THEN CP!SetNearest(X, SubSeq(n, 1, k), n) ELSE X
                           ELSE X]
<1>1. Told = {m \in CP!Above(T, n) :
                ~\E b \in CP!Above(T, n) : Len(b) >= Len(m) /\ CP!KnowsBetter(T, b, n)}
  BY DEF C!Above, CP!Above, C!IsPrefix, CP!IsPrefix, C!KnowsBetter, CP!KnowsBetter,
         C!Better, CP!Better
<1>2. C!Propagate(T, n) = (CHOOSE f : f = F(f))[0]
  BY DEF C!Propagate, C!Upward
<1>3. CP!Propagate(T, n) = (CHOOSE f : f = G(f))[0]
  <2>1. PICK knew : knew = {m \in CP!Above(T, n) :
                ~\E b \in CP!Above(T, n) : Len(b) >= Len(m) /\ CP!KnowsBetter(T, b, n)}
    OBVIOUS
  <2>2. Told = knew
    BY <1>1, <2>1
  <2> HIDE DEF Told
  <2> QED
    BY <2>1, <2>2 DEF CP!Propagate, CP!Upward
<1> HIDE DEF Told
<1>4. \A f : F(f) = G(f)
  BY SameSetNearest
<1> HIDE DEF F, G
<1>5. (CHOOSE f : f = F(f)) = (CHOOSE f : f = G(f))
  BY <1>4
<1> QED
  BY <1>2, <1>3, <1>5

LEMMA SamePruneNode == ASSUME NEW p, NEW n PROVE C!PruneNode(p, n) = CP!PruneNode(p, n)
BY DEF C!PruneNode, CP!PruneNode, C!Pruned, CP!Pruned, C!WithoutNode, CP!WithoutNode,
    C!Root, CP!Root, C!Longest, CP!Longest, C!Above, CP!Above, C!Children, CP!Children,
    C!ParentOf, CP!ParentOf, C!IsPrefix, CP!IsPrefix, C!Indexed, CP!Indexed, C!Rebuilt,
    CP!Rebuilt, C!Cardinality, CP!Cardinality, C!Key, CP!Key

LEMMA SamePrune == ASSUME NEW T, NEW n PROVE C!PruneEmptyPath(T, n) = CP!PruneEmptyPath(T, n)
<1> DEFINE F(f) == [k \in 0 .. Len(n) |->
                      LET X == IF k = Len(n) THEN [T |-> T, stop |-> None] ELSE f[k + 1]
                      IN IF SubSeq(n, 1, k) \in DOMAIN T THEN C!PruneNode(X, SubSeq(n, 1, k)) ELSE X]
           G(f) == [k \in 0 .. Len(n) |->
                      LET X == IF k = Len(n) THEN [T |-> T, stop |-> None] ELSE f[k + 1]
                      IN IF SubSeq(n, 1, k) \in DOMAIN T THEN CP!PruneNode(X, SubSeq(n, 1, k)) ELSE X]
<1>1. \A f : F(f) = G(f)
  BY SamePruneNode
<1>2. C!PruneEmptyPath(T, n) = (CHOOSE f : f = F(f))[0]
  BY DEF C!PruneEmptyPath, C!Upward
<1>3. CP!PruneEmptyPath(T, n) = (CHOOSE f : f = G(f))[0]
  BY DEF CP!PruneEmptyPath, CP!Upward
<1> HIDE DEF F, G
<1>4. (CHOOSE f : f = F(f)) = (CHOOSE f : f = G(f))
  BY <1>1
<1> QED
  BY <1>2, <1>3, <1>4

LEMMA SameSplit == ASSUME NEW T, NEW n PROVE C!SplitChild(T, n) = CP!SplitChild(T, n)
<1>1. PICK U : U = C!AddNode(T, n)
  OBVIOUS
<1> QED
  BY <1>1, SameRecompute, SameAddNode DEF C!SplitChild, CP!SplitChild

LEMMA SameChildren == ASSUME NEW T, NEW n PROVE C!Children(T, n) = CP!Children(T, n)
BY DEF C!Longest, CP!Longest, C!Above, CP!Above, C!Children, CP!Children, C!ParentOf,
    CP!ParentOf, C!IsPrefix, CP!IsPrefix

\* Where a path leaves the nodes of a bucket, and the child on the way.
LEMMA SameAt ==
  ASSUME NEW T, NEW s
  PROVE  /\ C!Longest(C!Above(T, s)) = CP!Longest(CP!Above(T, s))
         /\ {c \in C!Children(T, C!Longest(C!Above(T, s))) :
                C!CommonPrefix(c, s) > Len(C!Longest(C!Above(T, s)))}
              = {c \in CP!Children(T, CP!Longest(CP!Above(T, s))) :
                CP!CommonPrefix(c, s) > Len(CP!Longest(CP!Above(T, s)))}
         /\ C!CommonPrefix(CHOOSE x \in {c \in C!Children(T, C!Longest(C!Above(T, s))) :
                              C!CommonPrefix(c, s) > Len(C!Longest(C!Above(T, s)))} : TRUE, s)
              = CP!CommonPrefix(CHOOSE x \in {c \in CP!Children(T, CP!Longest(CP!Above(T, s))) :
                              CP!CommonPrefix(c, s) > Len(CP!Longest(CP!Above(T, s)))} : TRUE, s)
BY DEF C!CommonPrefix, CP!CommonPrefix, C!Longest, CP!Longest, C!Above, CP!Above,
    C!Children, CP!Children, C!ParentOf, CP!ParentOf, C!IsPrefix, CP!IsPrefix

LEMMA SameGrown == ASSUME NEW T, NEW s PROVE C!Grown(T, s) = CP!Grown(T, s)
<1>1. PICK at : at = C!Longest(C!Above(T, s))
  OBVIOUS
<1>2. PICK next : next = {c \in C!Children(T, C!Longest(C!Above(T, s))) :
                            C!CommonPrefix(c, s) > Len(C!Longest(C!Above(T, s)))}
  OBVIOUS
<1>3. PICK k : k = C!CommonPrefix(CHOOSE x \in {c \in C!Children(T, C!Longest(C!Above(T, s))) :
                              C!CommonPrefix(c, s) > Len(C!Longest(C!Above(T, s)))} : TRUE, s)
  OBVIOUS
<1>4. C!Grown(T, s) =
        IF at = s THEN T
        ELSE IF next = {} THEN C!AddNode(T, s)
        ELSE LET U == C!SplitChild(T, SubSeq(s, 1, k))
             IN IF SubSeq(s, 1, k) = s THEN U ELSE C!AddNode(U, s)
  BY <1>1, <1>2, <1>3 DEF C!Grown
<1>5. /\ at = CP!Longest(CP!Above(T, s))
      /\ next = {c \in CP!Children(T, CP!Longest(CP!Above(T, s))) :
                   CP!CommonPrefix(c, s) > Len(CP!Longest(CP!Above(T, s)))}
      /\ k = CP!CommonPrefix(CHOOSE x \in {c \in CP!Children(T, CP!Longest(CP!Above(T, s))) :
                   CP!CommonPrefix(c, s) > Len(CP!Longest(CP!Above(T, s)))} : TRUE, s)
  BY <1>1, <1>2, <1>3, SameAt
<1>6. CP!Grown(T, s) =
        IF at = s THEN T
        ELSE IF next = {} THEN CP!AddNode(T, s)
        ELSE LET U == CP!SplitChild(T, SubSeq(s, 1, k))
             IN IF SubSeq(s, 1, k) = s THEN U ELSE CP!AddNode(U, s)
  BY <1>5 DEF CP!Grown
<1> QED
  BY <1>4, <1>6, SameSplit, SameAddNode

LEMMA SameInsert ==
  ASSUME NEW T, NEW s, NEW c, NEW q PROVE C!Insert(T, s, c, q) = CP!Insert(T, s, c, q)
BY SameGrown, SamePropagate DEF C!Insert, CP!Insert

LEMMA SameExpire == ASSUME NEW T, NEW n PROVE C!ExpireTerminal(T, n) = CP!ExpireTerminal(T, n)
<1>1. PICK p : p = C!PruneEmptyPath([T EXCEPT ![n].terminal = FALSE, ![n].cred = None, ![n].seq = 0], n)
  OBVIOUS
<1>2. PICK U : U = IF p.T[p.stop].terminal THEN p.T ELSE C!RecomputePath(p.T, p.stop)
  OBVIOUS
<1>p. p = CP!PruneEmptyPath([T EXCEPT ![n].terminal = FALSE, ![n].cred = None, ![n].seq = 0], n)
  BY <1>1, SamePrune
<1>u. U = IF p.T[p.stop].terminal THEN p.T ELSE CP!RecomputePath(p.T, p.stop)
  BY <1>2, SameRecomputePath
<1>3. C!ExpireTerminal(T, n) = IF ~U[C!Root].terminal /\ C!Children(U, C!Root) = {} THEN None ELSE U
  BY <1>1, <1>2 DEF C!ExpireTerminal
<1>4. CP!ExpireTerminal(T, n) = IF ~U[CP!Root].terminal /\ CP!Children(U, CP!Root) = {} THEN None ELSE U
  BY <1>p, <1>u DEF CP!ExpireTerminal
<1> QED
  BY <1>3, <1>4, SameChildren DEF C!Root, CP!Root

LEMMA SameLookup == ASSUME NEW T, NEW s PROVE C!Lookup(T, s) = CP!Lookup(T, s)
BY DEF C!Lookup, CP!Lookup, C!CommonPrefix, CP!CommonPrefix, C!Longest, CP!Longest,
    C!Above, CP!Above, C!Children, CP!Children, C!ParentOf, CP!ParentOf, C!IsPrefix,
    CP!IsPrefix

LEMMA SameTable == C!Spec => CP!Spec
<1>1. C!Init => CP!Init
  BY DEF C!Init, CP!Init
<1>2. [C!Next]_C!vars => [CP!Next]_CP!vars
  <2>1. ASSUME NEW b, NEW s, NEW c PROVE C!BindInsert(b, s, c) => CP!BindInsert(b, s, c)
    BY SameInsert DEF C!BindInsert, CP!BindInsert, C!Root, CP!Root, C!NewNode, CP!NewNode, C!Entry, CP!Entry
  <2>2. C!BindSet => CP!BindSet
    BY DEF C!BindSet, CP!BindSet
  <2>3. ASSUME NEW e PROVE C!Drop(e) => CP!Drop(e)
    BY DEF C!Drop, CP!Drop
  <2>4. ASSUME NEW d PROVE C!Callback(d) => CP!Callback(d)
    BY SameExpire DEF C!Callback, CP!Callback, C!SameGeneration, CP!SameGeneration, C!Terminals, CP!Terminals
  <2>5. ASSUME NEW r, NEW b, NEW s, NEW n PROVE C!MatchLookup(r, b, s, n) => CP!MatchLookup(r, b, s, n)
    BY SameLookup DEF C!MatchLookup, CP!MatchLookup, C!Entry, CP!Entry
  <2>6. ASSUME NEW r PROVE C!MatchEnd(r) => CP!MatchEnd(r)
    BY DEF C!MatchEnd, CP!MatchEnd
  <2>7. C!Next => CP!Next
    BY <2>1, <2>2, <2>3, <2>4, <2>5, <2>6 DEF C!Next, CP!Next
  <2> QED
    BY <2>7 DEF C!vars, CP!vars
<1> QED
  BY <1>1, <1>2, PTL DEF C!Spec, CP!Spec

-----------------------------------------------------------------------------
(* What the runs check of the composition *)

\* Wherever the answer or the client breaks off, [DONE] follows all of the answer
\* and nothing follows [DONE] (completion/response.go, response_writer.go).
THEOREM StreamTold == TablesSpec => []StreamTellsAll
<1>1. S!Init => SP!S!Init
  BY DEF S!Init, SP!S!Init, S!NoItem, SP!S!NoItem
<1>2. [S!Next]_S!vars => [SP!S!Next]_(SP!S!vars)
  BY DEF S!vars, SP!S!vars, S!Next, SP!S!Next, S!CallAdded, SP!S!CallAdded, S!ArgumentsDelta,
         SP!S!ArgumentsDelta, S!ArgumentsDone, SP!S!ArgumentsDone, S!ItemDone, SP!S!ItemDone,
         S!WholeCall, SP!S!WholeCall, S!Completed, SP!S!Completed, S!PlainLine, SP!S!PlainLine,
         S!UsageLine, SP!S!UsageLine, S!DoneLine, SP!S!DoneLine, S!Send, SP!S!Send, S!EndOfBody,
         SP!S!EndOfBody, S!BrokenBody, SP!S!BrokenBody, S!ScanLine, SP!S!ScanLine, S!ScanEnd,
         SP!S!ScanEnd, S!PipeChunk, SP!S!PipeChunk, S!ReadEnd, SP!S!ReadEnd, S!ReadLine, SP!S!ReadLine,
         S!WriteLine, SP!S!WriteLine, S!Finish, SP!S!Finish, S!DrainLine, SP!S!DrainLine, S!Close,
         SP!S!Close, S!ClientGone, SP!S!ClientGone, S!Codex, SP!S!Codex, S!NextCall, SP!S!NextCall,
         S!NoItem, SP!S!NoItem, S!Part, SP!S!Part, S!Convert, SP!S!Convert, S!OnAdded, SP!S!OnAdded,
         S!OnDelta, SP!S!OnDelta, S!OnArgsDone, SP!S!OnArgsDone, S!OnItemDone, SP!S!OnItemDone,
         S!OnCompleted, SP!S!OnCompleted, S!CallChunk, SP!S!CallChunk, S!ArgsChunk, SP!S!ArgsChunk,
         S!Chunk, SP!S!Chunk, S!NoChunk, SP!S!NoChunk, S!Received, SP!S!Received, S!AfterLine,
         SP!S!AfterLine
<1>3. SP!S!StreamTellsAll => StreamTellsAll
  BY DEF StreamTellsAll, S!StreamTellsAll, SP!S!StreamTellsAll, S!Codex, SP!S!Codex, S!NonStream, SP!S!NonStream
<1> QED
  BY <1>1, <1>2, <1>3, PartsBehave, SP!StreamsWhole, PTL DEF S!Spec, SP!S!Spec

\* A loop whose channel has not been closed waits for the interval in force,
\* in the composition as alone (score_refresh.go, quota_syncer.go).
THEOREM NoChangeSleptThrough == TablesSpec => []AsleepOnCurrentInterval
BY PartsBehave, NoChangeMissed, PTL DEF AsleepOnCurrentInterval

\* Two passes of the quota syncer at one instant are for a row that the first did not
\* try, or whose quota was reset (quota_syncer.go).
THEOREM SyncerRests == TablesSpec => NoBusyPass
BY PartsBehave, NoBusySyncer, PTL DEF NoBusyPass

\* An update undoes no change of a setting that its server had read back
\* (SaveSettings, Reload).
THEOREM SettingsKept == TablesSpec => SeenSettingsKept
BY PartsBehave, SeenUpdatesKept, PTL DEF SeenSettingsKept

\* What is cached of a model is its row, or accounted for (modelCacheResolver).
THEOREM ResolutionKept == TablesSpec => []ResolutionCurrent
BY PartsBehave, ResolutionNeverLost, PTL DEF ResolutionCurrent

\* What the console shows of an import adds up, and a job that is completed has
\* come to the end of all it began (importJob.run).
THEOREM ImportsWhole == TablesSpec => []CompletedIsWhole
BY PartsBehave, ImportsEndWhole, PTL DEF CompletedIsWhole

\* Readers, clearings and the garbage behind head do not tell the log from a plain
\* sequence of rows (internal/logs/store.go).
THEOREM LogKept == TablesSpec => ImplementsPlainLog
<1>1. RP!Normalized
  BY LogAssumption DEF RP!Normalized
<1>2. R!Init => RP!Init
  BY DEF R!Init, RP!Init, R!Empty, RP!Empty
<1>3. [R!Next]_R!vars => [RP!Next]_RP!vars
  BY DEF R!vars, RP!vars, R!Next, RP!Next, R!Empty, RP!Empty, R!Visible, RP!Visible,
         R!Expired, RP!Expired, R!Prune, RP!Prune, R!Trim, RP!Trim, R!Compact, RP!Compact,
         R!InsertLog, RP!InsertLog, R!Remaining, RP!Remaining, R!ClearLogs, RP!ClearLogs,
         R!Look, RP!Look, R!Cardinality, RP!Cardinality, R!Counts, RP!Counts,
         R!Return, RP!Return, R!PruneAndCopy, RP!PruneAndCopy, R!Copy, RP!Copy,
         R!SetLimit, RP!SetLimit, R!Tick, RP!Tick
<1>4. RP!Plain!Init => R!Plain!Init
  BY DEF R!Plain!Init, RP!Plain!Init, R!Visible, RP!Visible
<1>5. [RP!Plain!Next]_(RP!Plain!vars) => [R!Plain!Next]_(R!Plain!vars)
  BY DEF R!Plain!vars, RP!Plain!vars, R!Plain!Next, RP!Plain!Next, R!Visible, RP!Visible,
         R!Plain!Cardinality, RP!Plain!Cardinality, R!Plain!Keep, RP!Plain!Keep,
         R!Plain!Live, RP!Plain!Live, R!Plain!Newest, RP!Plain!Newest,
         R!Plain!After, RP!Plain!After, R!Plain!Insert, RP!Plain!Insert,
         R!Plain!Clear, RP!Plain!Clear, R!Plain!Ask, RP!Plain!Ask,
         R!Plain!Answer, RP!Plain!Answer, R!Plain!Elsewhere, RP!Plain!Elsewhere
<1> QED
  BY <1>1, <1>2, <1>3, <1>4, <1>5, PartsBehave, RP!LogIsPlain, PTL
     DEF R!Spec, RP!Spec, ImplementsPlainLog, R!ImplementsPlainLog, RP!ImplementsPlainLog,
         R!Plain!Spec, RP!Plain!Spec

\* A lookup, which follows one path and compares once at each node, finds what a
\* scan of all bindings would (contentAffinityTrie.lookup).
THEOREM LookupsFind == TablesSpec => []LookupFindsNearest
<1>1. CP!LookupFindsNearest => LookupFindsNearest
  <2>1. ASSUME NEW T, NEW s PROVE C!Nearest(T, s) = CP!Nearest(T, s)
    BY DEF C!Nearest, CP!Nearest, C!Terminals, CP!Terminals, C!CommonPrefix,
        CP!CommonPrefix, C!Better, CP!Better
  <2>2. \A a, s : C!CommonPrefix(a, s) = CP!CommonPrefix(a, s)
    BY DEF C!CommonPrefix, CP!CommonPrefix
  <2> QED
    BY <2>1, <2>2, SameLookup DEF LookupFindsNearest, C!LookupFindsNearest, CP!LookupFindsNearest
<1> QED
  BY <1>1, PartsBehave, SameTable, AffinityConstants, CP!LookupsFind, PTL

\* No node of a bucket is idle, each index of children is as if built anew, and the
\* entries of the cache are those of the terminals (affinity_cache.go).
THEOREM TriesInOrder == TablesSpec => []TrieInOrder
<1>1. CP!TrieInOrder => TrieInOrder
  BY DEF TrieInOrder, C!TrieInOrder, CP!TrieInOrder, C!NoIdleNodes, CP!NoIdleNodes, C!HeapsInOrder,
      CP!HeapsInOrder, C!EntriesMatchTerminals, CP!EntriesMatchTerminals, C!Index,
      CP!Index, C!Terminals, CP!Terminals, C!Entry, CP!Entry, C!Root, CP!Root,
      C!Cardinality, CP!Cardinality, C!Key, CP!Key, C!Longest, CP!Longest, C!Above,
      CP!Above, C!Children, CP!Children, C!ParentOf, CP!ParentOf, C!IsPrefix,
      CP!IsPrefix
<1> QED
  BY <1>1, PartsBehave, SameTable, AffinityConstants, CP!TriesInOrder, PTL

\* To those who bind and match, the trie with its index, its cached terminals and its
\* cache is a flat map of bindings, and a match gives a current one (FlatAffinity).
THEOREM TableIsFlat == TablesSpec => ImplementsFlat
<1>1. CP!Flat!Init => C!Flat!Init
  BY DEF C!Flat!Init, CP!Flat!Init
<1> DEFINE flat == [b \in Buckets |-> [s \in Paths |->
                     IF trie[b] # None /\ s \in DOMAIN trie[b] /\ trie[b][s].terminal
                       THEN trie[b][s].cred ELSE None]]
<1>2. [CP!Flat!Next]_flat => [C!Flat!Next]_flat
  <2>1. \A b \in Buckets, s \in Paths : CP!Flat!Expire(b, s) = C!Flat!Expire(b, s)
    BY DEF C!Flat!Expire, CP!Flat!Expire
  <2>2. \A b \in Buckets, s \in Paths, c \in Creds : CP!Flat!Bind(b, s, c) = C!Flat!Bind(b, s, c)
    BY DEF C!Flat!Bind, CP!Flat!Bind
  <2>3. CP!Flat!Next => C!Flat!Next
    BY <2>1, <2>2, Zenon DEF C!Flat!Next, CP!Flat!Next
  <2> QED
    BY <2>3
<1>3. CP!HitsAreCurrent => C!HitsAreCurrent
  <2> DEFINE A == \A r \in Readers : CP!Hit(r) =>
       LET e == reader[r].entry
       IN /\ trie[e.bucket] # None /\ e.node \in CP!Terminals(trie[e.bucket])
          /\ \/ trie[e.bucket][e.node].cred = reader[r].cred
             \/ binder # None /\ binder.bucket = e.bucket /\ binder.node = e.node
             B == \A r \in Readers : C!Hit(r) =>
       LET e == reader[r].entry
       IN /\ trie[e.bucket] # None /\ e.node \in C!Terminals(trie[e.bucket])
          /\ \/ trie[e.bucket][e.node].cred = reader[r].cred
             \/ binder # None /\ binder.bucket = e.bucket /\ binder.node = e.node
  <2>1. [A]_CP!vars => [B]_C!vars
    BY DEF C!vars, CP!vars, C!Hit, CP!Hit, C!MatchEnd, CP!MatchEnd, C!Live, CP!Live, C!Terminals, CP!Terminals
  <2> QED
    BY <2>1, PTL DEF C!HitsAreCurrent, CP!HitsAreCurrent
<1> QED
  BY <1>1, <1>2, <1>3, PartsBehave, SameTable, AffinityConstants, CP!TableIsFlat, PTL
     DEF ImplementsFlat, C!ImplementsFlat, CP!ImplementsFlat, C!Flat!Spec, CP!Flat!Spec

\* The candidates a credential is picked from are the best ones in order, and the
\* backoffs double up to their maximum (core/scheduling/scheduling.go).
THEOREM SchedulingKept == TablesSpec => []SchedulingAsDefined
<1>1. SP!SchedulingOK
  BY SchedulingAssumption DEF SP!SchedulingOK
<1>2. Sc!Init => SP!Init
  BY DEF Sc!Init, SP!Init
<1>3. [Sc!Next]_Sc!vars => [SP!Next]_SP!vars
  <2>1. ASSUME NEW s PROVE Sc!Consider(s) => SP!Consider(s)
    BY DEF Sc!Consider, SP!Consider, Sc!InsertBestCandidate, SP!InsertBestCandidate,
           Sc!RaiseLast, SP!RaiseLast, Sc!throttles, SP!throttles
  <2>2. ASSUME NEW r PROVE Sc!Fail(r) => SP!Fail(r)
    BY DEF Sc!Fail, SP!Fail, Sc!CalcBackoff, SP!CalcBackoff, Sc!Doubled, SP!Doubled,
           Sc!picking, SP!picking
  <2>3. Sc!Forget => SP!Forget
    BY DEF Sc!Forget, SP!Forget, Sc!picking, SP!picking
  <2> QED
    BY <2>1, <2>2, <2>3 DEF Sc!Next, SP!Next, Sc!vars, SP!vars, Sc!picking, SP!picking,
                            Sc!throttles, SP!throttles
<1>4. SP!SchedulingAsDefined => SchedulingAsDefined
  BY DEF SchedulingAsDefined, Sc!SchedulingAsDefined, SP!SchedulingAsDefined,
         Sc!BestKept, SP!BestKept, Sc!Positive, SP!Positive, Sc!Ahead, SP!Ahead,
         Sc!BackoffDoubles, SP!BackoffDoubles, Sc!PowerOfTwo, SP!PowerOfTwo,
         Sc!Cardinality, SP!Cardinality
<1> QED
  BY <1>1, <1>2, <1>3, <1>4, PartsBehave, SP!BestAndBackoff, PTL DEF Sc!Spec, SP!Spec
=============================================================================
