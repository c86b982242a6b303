----------------------------- MODULE ModelTable -----------------------------
(***************************************************************************)
(* The table of models, the cache that resolves aliases for the relay      *)
(* (internal/app/app.go, modelCacheResolver) and the handlers that change  *)
(* the table and then drop the alias from the cache                        *)
(* (internal/handler/admin_models.go).  A load goes through a singleflight *)
(* of the alias: look again, read the row, store it; that there is no row  *)
(* is cached too.  Entries end with their time, or by the limit of 1024:   *)
(* here at any time.                                                       *)
(*                                                                         *)
(* A row is the model's origin, which stands for all fields but the two    *)
(* strategies, of which a model has one at most.                           *)
(***************************************************************************)
EXTENDS Naturals

CONSTANTS Aliases,
          Origins,
          Admins,    (* calls of the handlers in progress at once           *)
          Missing,   (* no row: an entry may say so                         *)
          NoEntry    (* nothing cached                                      *)

Strategies == {s \in [affinity : BOOLEAN, fill : BOOLEAN] : ~(s.affinity /\ s.fill)}
ModelRows  == [origin : Origins, scheduling : Strategies]

VARIABLES
  table,    (* the rows of the database                                     *)
  cache,    (* modelCacheResolver.cache                                     *)
  load,     (* each alias's flight: its place, the row it read              *)
  admin     (* each call: its place, its alias, the row it will write       *)

\* History, read by properties only: the aliases whose entry may be behind, and
\* (load.old) the flights whose row was changed after they read it.
VARIABLE outdated

vars == <<table, cache, load, admin, outdated>>

Calls == [at : {"idle", "write", "invalidate"}, alias : Aliases, row : ModelRows \cup {Missing}]
Loads == [at : {"idle", "look", "read", "store"}, row : ModelRows \cup {Missing}, old : BOOLEAN]

Init ==
  /\ table = [x \in Aliases |-> Missing]
  /\ cache = [x \in Aliases |-> NoEntry]
  /\ load  = [x \in Aliases |-> [at |-> "idle", row |-> Missing, old |-> FALSE]]
  /\ admin \in [Admins -> {c \in Calls : c.at = "idle" /\ c.row = Missing}]
  /\ outdated = {}

-----------------------------------------------------------------------------
(* ResolveModel.  A hit, or a call that joins the flight, changes nothing. *)

Resolve(x) ==
  /\ load[x].at = "idle" /\ cache[x] = NoEntry
  /\ load' = [load EXCEPT ![x].at = "look"]
  /\ UNCHANGED <<table, cache, admin, outdated>>

LookAgain(x) ==
  /\ load[x].at = "look"
  /\ load' = [load EXCEPT ![x].at = IF cache[x] = NoEntry THEN "read" ELSE "idle"]
  /\ UNCHANGED <<table, cache, admin, outdated>>

\* ReverseInfoFromModel.  Errors other than ErrNotFound are not cached.
ReadRow(x) ==
  /\ load[x].at = "read"
  /\ \/ load' = [load EXCEPT ![x] = [at |-> "store", row |-> table[x], old |-> FALSE]]
     \/ load' = [load EXCEPT ![x].at = "idle"]
  /\ UNCHANGED <<table, cache, admin, outdated>>

StoreEntry(x) ==
  /\ load[x].at = "store"
  /\ cache' = [cache EXCEPT ![x] = load[x].row]
  /\ load' = [load EXCEPT ![x].at = "idle"]
  /\ outdated' = IF load[x].old THEN outdated \cup {x} ELSE outdated \ {x}
  /\ UNCHANGED <<table, admin>>

\* lookupModelCache and pruneModelCacheLocked.
Expire(x) ==
  /\ cache[x] # NoEntry /\ cache' = [cache EXCEPT ![x] = NoEntry]
  /\ outdated' = outdated \ {x}
  /\ UNCHANGED <<table, load, admin>>

-----------------------------------------------------------------------------
(* The handlers                                                            *)

\* A statement takes effect.
Change(x, r) ==
  /\ table' = [table EXCEPT ![x] = r]
  /\ load' = [load EXCEPT ![x].old = TRUE]

\* CreateModel, UpdateModel and DeleteModel: the statement fails with nothing
\* changed, which is no step, or the alias is dropped from the cache next.
Told(a, x, r) ==
  /\ admin[a].at = "idle" /\ Change(x, r)
  /\ admin' = [admin EXCEPT ![a] = [at |-> "invalidate", alias |-> x, row |-> r]]
  /\ UNCHANGED <<cache, outdated>>
CreateModel(a, x, r) == table[x] = Missing /\ Told(a, x, r)
UpdateModel(a, x, r) == table[x] # Missing /\ Told(a, x, r)
DeleteModel(a, x)    == table[x] # Missing /\ Told(a, x, Missing)

\* mergeModelScheduling: a strategy that is switched on switches the other off.
Patches == {p \in [affinity : {"keep", "on", "off"}, fill : {"keep", "on", "off"}] :
              ~(p.affinity = "on" /\ p.fill = "on")}
Merge(s, p) ==
  [affinity |-> p.fill # "on" /\ (p.affinity = "on" \/ (p.affinity = "keep" /\ s.affinity)),
   fill     |-> p.fill = "on" \/ (p.fill = "keep" /\ p.affinity # "on" /\ s.fill)]

\* BatchUpdateModels, for each alias: the row is read, laid under the patch and
\* written back.
BatchRead(a, x, p) ==
  /\ admin[a].at = "idle" /\ table[x] # Missing
  /\ admin' = [admin EXCEPT ![a] =
                 [at |-> "write", alias |-> x,
                  row |-> [table[x] EXCEPT !.scheduling = Merge(@, p)]]]
  /\ UNCHANGED <<table, cache, load, outdated>>

\* Mutant: the cache is left alone.
BatchWriteOnly(a) ==
  /\ admin[a].at = "write"
  /\ admin' = [admin EXCEPT ![a].at = "idle"]
  /\ IF table[admin[a].alias] = Missing THEN UNCHANGED <<table, load>>
     ELSE Change(admin[a].alias, admin[a].row)
  /\ UNCHANGED <<cache, outdated>>
BatchWrite(a) ==
  /\ admin[a].at = "write"
  /\ IF table[admin[a].alias] = Missing
       THEN /\ admin' = [admin EXCEPT ![a].at = "idle"] /\ UNCHANGED <<table, load>>
       ELSE /\ admin' = [admin EXCEPT ![a].at = "invalidate"]
            /\ Change(admin[a].alias, admin[a].row)
  /\ UNCHANGED <<cache, outdated>>

InvalidateModel(a) ==
  /\ admin[a].at = "invalidate"
  /\ cache' = [cache EXCEPT ![admin[a].alias] = NoEntry]
  /\ outdated' = outdated \ {admin[a].alias}
  /\ admin' = [admin EXCEPT ![a].at = "idle"]
  /\ UNCHANGED <<table, load>>

\* A change that this server's cache is not told of: another server's, or one
\* whose statement took effect and was answered with an error.
ChangeUntold(x, r) ==
  /\ Change(x, r) /\ outdated' = outdated \cup {x}
  /\ UNCHANGED <<cache, admin>>

Next ==
  \/ \E x \in Aliases :
       \/ Resolve(x) \/ LookAgain(x) \/ ReadRow(x) \/ StoreEntry(x) \/ Expire(x)
       \/ \E r \in ModelRows \cup {Missing} : ChangeUntold(x, r)
       \/ \E a \in Admins :
            \/ \E r \in ModelRows : CreateModel(a, x, r) \/ UpdateModel(a, x, r)
            \/ \E p \in Patches : BatchRead(a, x, p)
            \/ DeleteModel(a, x)
  \/ \E a \in Admins : BatchWrite(a) \/ InvalidateModel(a)

Spec == Init /\ [][Next]_vars

-----------------------------------------------------------------------------
(* Properties *)

\* Of the two strategies a row never has both, whatever patches are laid over it
\* (ModelRows).
TypeOK ==
  /\ table \in [Aliases -> ModelRows \cup {Missing}]
  /\ cache \in [Aliases -> ModelRows \cup {Missing, NoEntry}]
  /\ load \in [Aliases -> Loads] /\ admin \in [Admins -> Calls]
  /\ outdated \subseteq Aliases

\* What is cached of a model is its row, or the change is about to be told, or
\* the cache had no way to know: the row was changed while it was being loaded,
\* or elsewhere.
ResolutionCurrent ==
  \A x \in Aliases :
    cache[x] \notin {NoEntry, table[x]} =>
      \/ x \in outdated
      \/ \E a \in Admins : admin[a].at = "invalidate" /\ admin[a].alias = x
=============================================================================
