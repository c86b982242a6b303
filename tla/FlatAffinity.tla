---------------------------- MODULE FlatAffinity ----------------------------
(***************************************************************************)
(* What the content affinity table promises, without the trie: each        *)
(* conversation has at most one credential; a bind gives one conversation  *)
(* its credential, an expiry takes one away, and neither touches another.  *)
(***************************************************************************)
CONSTANTS Buckets, Paths, Creds, None

VARIABLE bound  (* the credential of each conversation, or None *)

Init == bound = [b \in Buckets |-> [s \in Paths |-> None]]

Bind(b, s, c) == bound' = [bound EXCEPT ![b][s] = c]
Expire(b, s)  == bound[b][s] # None /\ bound' = [bound EXCEPT ![b][s] = None]

\* One conversation changes, and no other.
Next == \E b \in Buckets, s \in Paths :
          /\ bound'[b][s] # bound[b][s]
          /\ Expire(b, s) \/ \E c \in Creds : Bind(b, s, c)

Spec == Init /\ [][Next]_bound
=============================================================================
