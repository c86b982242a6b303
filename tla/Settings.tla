------------------------------- MODULE Settings -------------------------------
(***************************************************************************)
(* The settings (internal/settings/service.go) and the admin handler that  *)
(* changes them (internal/handler/admin_settings.go).  An update is laid   *)
(* over the snapshot in the memory of its server, all of it saved to the   *)
(* database in one transaction, and read back into that memory.  Several   *)
(* servers may share a PostgreSQL; SQLite has one.  The channel that tells *)
(* of the change is in BackgroundLoops, with those that wait for it.       *)
(*                                                                         *)
(* Two settings stand for all.  Left out: their formats, and Normalize,    *)
(* which changes nothing that the handler let through.                     *)
(***************************************************************************)
EXTENDS Naturals

CONSTANTS Servers,
          Admins,      (* calls of UpdateSettings in progress at once       *)
          Values       (* of either setting                                 *)

Names     == {"quota_sync_interval", "max_log_rows"}
Snapshots == [Names -> Values]

VARIABLES
  stored,    (* the rows of the settings table                              *)
  current,   (* Service.current of each server                              *)
  admin      (* each call: its place, its server, the snapshot it carries   *)

\* History, read by properties only: of each server's snapshot, and of a call's
\* (admin.differs), the settings that were saved with another value since it was
\* read.  Before it is saved, those that the call names too.
VARIABLE unseen

settings == <<stored, current, admin, unseen>>

NoCall   == [at |-> "idle"]
Lists    == [at : {"list"}, on : Servers]
Carries  == [at : {"save", "replace"}, on : Servers, next : Snapshots,
             differs : SUBSET Names]
Calls    == {NoCall} \cup Lists \cup Carries

TypeOK ==
  /\ stored \in Snapshots /\ current \in [Servers -> Snapshots]
  /\ admin \in [Admins -> Calls]
  /\ unseen \in [Servers -> SUBSET Names]

\* Servers that have just read the table (NewService).
Init ==
  /\ stored \in Snapshots /\ current = [s \in Servers |-> stored]
  /\ admin = [a \in Admins |-> NoCall]
  /\ unseen = [s \in Servers |-> {}]

At(a, l)  == admin[a].at = l
Answer(a) == admin' = [admin EXCEPT ![a] = NoCall]

\* buildSettingsUpdate: what the request names, over the snapshot in memory.  A
\* setting named with the value it has is as one that is not named.
BuildUpdate(a) ==
  /\ At(a, "idle")
  /\ \E s \in Servers, next \in Snapshots :
       LET names == {n \in Names : next[n] # current[s][n]}
       IN admin' = [admin EXCEPT ![a] = [at |-> "save", on |-> s, next |-> next,
                                         differs |-> names \cup unseen[s]]]
  /\ UNCHANGED <<stored, current, unseen>>

\* SaveSettings: every row in one transaction, or none.  Every snapshot that was
\* read before is behind by what it changes.
Changed(next) == {n \in Names : next[n] # stored[n]}
Behind(c, changed) == IF c.at \in {"save", "replace"}
                        THEN [c EXCEPT !.differs = @ \cup changed] ELSE c
Commit(a, moved) ==
  LET changed == Changed(admin[a].next)
  IN /\ stored' = admin[a].next
     /\ unseen' = [s \in Servers |-> unseen[s] \cup changed]
     /\ admin' = [b \in Admins |-> IF b = a THEN moved ELSE Behind(admin[b], changed)]
     /\ UNCHANGED current

SaveSettings(a) == At(a, "save") /\ Commit(a, [at |-> "list", on |-> admin[a].on])

\* An error is answered, and nothing is read back: nothing was stored, or the
\* commit was done and its answer lost.
SaveFailure(a) ==
  /\ At(a, "save")
  /\ \/ Commit(a, NoCall)
     \/ Answer(a) /\ UNCHANGED <<stored, current, unseen>>

\* Reload: ListSettings, and replaceCurrent; only the last holds the lock.
ListSettings(a) ==
  /\ At(a, "list")
  /\ admin' = [admin EXCEPT ![a] = [at |-> "replace", on |-> admin[a].on,
                                     next |-> stored, differs |-> {}]]
  /\ UNCHANGED <<stored, current, unseen>>
ListFailure(a) ==
  /\ At(a, "list") /\ Answer(a)
  /\ UNCHANGED <<stored, current, unseen>>

\* Mutant: the snapshot in memory stays.
KeepCurrent(a)  == current[admin[a].on]
TakeReloaded(a) == admin[a].next

ReplaceCurrent(a) ==
  /\ At(a, "replace") /\ Answer(a)
  /\ current' = [current EXCEPT ![admin[a].on] = TakeReloaded(a)]
  /\ unseen' = [unseen EXCEPT ![admin[a].on] = admin[a].differs]
  /\ UNCHANGED stored

\* A server dies, its calls with it, and starts again.
Restart(s) ==
  /\ admin' = [a \in Admins |-> IF admin[a] # NoCall /\ admin[a].on = s THEN NoCall
                               ELSE admin[a]]
  /\ current' = [current EXCEPT ![s] = stored]
  /\ unseen' = [unseen EXCEPT ![s] = {}]
  /\ UNCHANGED stored

Next ==
  \/ \E a \in Admins :
       \/ BuildUpdate(a) \/ SaveSettings(a) \/ SaveFailure(a)
       \/ ListSettings(a) \/ ListFailure(a) \/ ReplaceCurrent(a)
  \/ \E s \in Servers : Restart(s)

Spec == Init /\ [][Next]_settings

\* An update undoes no change that its server had read back.  UpdateSettings writes
\* all settings, so a save changes one that its request does not name, but only
\* one that was saved after the snapshot it is laid over was read: by a call that
\* overlapped, by another server, or by an earlier call of this server that was
\* answered with an error or could not reload.
SeenSettingsKept ==
  [][\A a \in Admins :
       At(a, "save") /\ stored' # stored /\ admin'[a].at # "save" =>
         Changed(stored') \subseteq admin[a].differs]_settings
=============================================================================
