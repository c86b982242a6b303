------------------------------- MODULE AdminKeys -------------------------------
(***************************************************************************)
(* The keys that callers present, kept in the table auth_keys and served   *)
(* from a cache in every server (internal/auth, internal/handler/          *)
(* admin_setup.go, admin_auth_keys.go, db/{postgres,sqlite}/auth.go).      *)
(* Several servers may share a PostgreSQL; SQLite has one.  The handlers   *)
(* of one server take its mutex; the transactions that look before they    *)
(* write take one lock of the database, a plain CreateAuthKey does not.    *)
(*                                                                         *)
(* Left out: notes and times of creation, the keys that are generated.     *)
(***************************************************************************)
EXTENDS Integers, FiniteSets

CONSTANTS Servers,
          Slots,         (* bound: requests that one server handles at once *)
          Keys,
          MaxRequests    (* bound: requests in all                          *)

Workers == Servers \X Slots
Roles   == {"admin", "user"}
NoRow   == "none"
Tables  == [Keys -> Roles \cup {NoRow}]
Empty   == [k \in Keys |-> NoRow]
Jobs    == [do : {"setup", "create", "update", "delete"}, key : Keys, role : Roles]
NoJob   == [do |-> "none"]
Places  == {"idle", "waiting", "begin", "look", "store", "load", "publish"}

VARIABLES
  keys,       (* the table: the role of each key                           *)
  cache,      (* KeyCache.snapshot of each server                          *)
  job,        (* what each worker is asked for                             *)
  pc,         (* where it is                                               *)
  read,       (* what it has read of the table, to publish                 *)
  requests    (* bound: requests so far                                    *)

\* History, read by properties only.
VARIABLE
  behind      (* servers that were not told of a change: made by another   *)
              (* server, answered with an error, or not loaded after it    *)

vars == <<keys, cache, job, pc, read, requests, behind>>

AdminsOf(table) == {k \in Keys : table[k] = "admin"}

TypeOK ==
  /\ keys \in Tables
  /\ cache \in [Servers -> Tables]
  /\ job \in [Workers -> Jobs \cup {NoJob}]
  /\ pc \in [Workers -> Places]
  /\ \A w \in Workers : job[w] = NoJob <=> pc[w] = "idle"
  /\ read \in [Workers -> Tables]
  /\ requests \in Nat
  /\ behind \subseteq Servers

\* Servers that have just loaded a table that holds anything.
Init ==
  /\ keys \in Tables
  /\ cache = [s \in Servers |-> keys]
  /\ job = [w \in Workers |-> NoJob]
  /\ pc = [w \in Workers |-> "idle"]
  /\ read = [w \in Workers |-> Empty]
  /\ requests = 0
  /\ behind = {}

-----------------------------------------------------------------------------

Goto(w, place) == pc' = [pc EXCEPT ![w] = place] /\ UNCHANGED job
Answer(w)      == pc' = [pc EXCEPT ![w] = "idle"] /\ job' = [job EXCEPT ![w] = NoJob]

NeedsSetup(s) == AdminsOf(cache[s]) = {}

\* The middleware: all but Setup present a key that the cache has as an admin's.
Arrive(w) ==
  /\ pc[w] = "idle" /\ pc' = [pc EXCEPT ![w] = "waiting"]
  /\ requests < MaxRequests /\ requests' = requests + 1
  /\ \E j \in Jobs : /\ j.do = "setup" \/ ~NeedsSetup(w[1])
                     /\ job' = [job EXCEPT ![w] = j]
  /\ UNCHANGED <<keys, cache, read, behind>>

\* AdminHandler.mu, held until the answer.  Mutant: nothing is held.
MutexIgnored(w) == TRUE
MutexFree(w)    == \A v \in Workers : v[1] = w[1] => pc[v] \in {"idle", "waiting"}
Enter(w) ==
  /\ pc[w] = "waiting" /\ MutexFree(w)
  /\ \/ job[w].do = "setup" /\ ~NeedsSetup(w[1]) /\ Answer(w)
     \/ job[w].do = "setup" /\ NeedsSetup(w[1]) /\ Goto(w, "begin")
     \/ job[w].do = "create" /\ Goto(w, "store")
     \/ job[w].do \in {"update", "delete"} /\ Goto(w, "begin")
  /\ UNCHANGED <<keys, cache, read, requests, behind>>

\* A transaction that looks before it writes has the lock of the database until
\* its end.  Mutant: it takes none.
InTransaction(w) == pc[w] \in {"look", "store"} /\ job[w].do # "create"
LockIgnored == TRUE
LockFree    == \A v \in Workers : ~InTransaction(v)
BeginLocked(w) ==
  /\ pc[w] = "begin" /\ LockFree /\ Goto(w, "look")
  /\ UNCHANGED <<keys, cache, read, requests, behind>>

\* Its refusals, after which it is rolled back.  Mutant: Setup trusts the cache.
NeverInitialized(w)   == FALSE
AlreadyInitialized(w) == job[w].do = "setup" /\ AdminsOf(keys) # {}
NotFound(w)           == job[w].do \in {"update", "delete"} /\ keys[job[w].key] = NoRow
Demotes(w)            == job[w].do = "delete" \/ (job[w].do = "update" /\ job[w].role = "user")
LastAdmin(w)          == /\ Demotes(w) /\ keys[job[w].key] = "admin"
                         /\ Cardinality(AdminsOf(keys)) <= 1

\* Setup reloads the keys when it finds that it comes late.
Look(w) ==
  /\ pc[w] = "look"
  /\ \/ AlreadyInitialized(w) /\ Goto(w, "load")
     \/ (NotFound(w) \/ LastAdmin(w)) /\ Answer(w)
     \/ ~AlreadyInitialized(w) /\ ~NotFound(w) /\ ~LastAdmin(w) /\ Goto(w, "store")
  /\ UNCHANGED <<keys, cache, read, requests, behind>>

\* An insert needs that there is no such key, the others that there is one.
Fits(w) == job[w].do \in {"setup", "create"} <=> keys[job[w].key] = NoRow
NewRow(w) == CASE job[w].do = "setup"  -> "admin"
               [] job[w].do = "delete" -> NoRow
               [] OTHER                -> job[w].role

\* The statement and the commit, which may be done and yet answered with an
\* error: the handler then loads nothing.
Commit(w) ==
  /\ pc[w] = "store" /\ Fits(w)
  /\ keys' = [keys EXCEPT ![job[w].key] = NewRow(w)]
  /\ \/ Goto(w, "load") /\ behind' = behind \cup (Servers \ {w[1]})
     \/ Answer(w) /\ behind' = Servers
  /\ UNCHANGED <<cache, read, requests>>

\* Rolled back: it does not fit, or the database fails.
Rollback(w) ==
  /\ pc[w] \in {"begin", "look", "store"} /\ Answer(w)
  /\ UNCHANGED <<keys, cache, read, requests, behind>>

\* KeyCache.Refresh
Load(w) ==
  /\ pc[w] = "load"
  /\ \/ Goto(w, "publish") /\ read' = [read EXCEPT ![w] = keys] /\ behind' = behind \ {w[1]}
     \/ Answer(w) /\ behind' = behind \cup {w[1]} /\ UNCHANGED read
  /\ UNCHANGED <<keys, cache, requests>>
Publish(w) ==
  /\ pc[w] = "publish" /\ Answer(w)
  /\ cache' = [cache EXCEPT ![w[1]] = read[w]]
  /\ read' = [read EXCEPT ![w] = Empty]
  /\ UNCHANGED <<keys, requests, behind>>

\* A server dies, its transactions with it, and starts again.
Restart(s) ==
  /\ pc' = [w \in Workers |-> IF w[1] = s THEN "idle" ELSE pc[w]]
  /\ job' = [w \in Workers |-> IF w[1] = s THEN NoJob ELSE job[w]]
  /\ read' = [w \in Workers |-> IF w[1] = s THEN Empty ELSE read[w]]
  /\ cache' = [cache EXCEPT ![s] = keys] /\ behind' = behind \ {s}
  /\ UNCHANGED <<keys, requests>>

Step(w) == \/ Arrive(w) \/ Enter(w) \/ BeginLocked(w) \/ Look(w)
           \/ Commit(w) \/ Rollback(w) \/ Load(w) \/ Publish(w)
Next == (\E w \in Workers : Step(w)) \/ (\E s \in Servers : Restart(s))

Spec == Init /\ [][Next]_vars

-----------------------------------------------------------------------------

\* Once there is an admin there is one for good: of two servers that each take
\* away another admin's key, one is refused.
LastAdminKept == [][AdminsOf(keys) # {} => AdminsOf(keys') # {}]_vars

\* Setup asks for no key: it adds one only while there is no admin, however old
\* the cache that let it in.
SetupOnlyFirst ==
  [][\A w \in Workers : (job[w].do = "setup" /\ keys' # keys /\ pc'[w] # pc[w])
                           => AdminsOf(keys) = {}]_vars

\* A server that was told of every change serves what the table holds, once its
\* handler is done: no older load overtakes a newer one.
CacheIsCurrent ==
  \A s \in Servers \ behind :
    (\A w \in Workers : w[1] = s => pc[w] \in {"idle", "waiting"}) => cache[s] = keys
=============================================================================
