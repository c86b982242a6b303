--------------------------- MODULE ContentAffinity ---------------------------
(***************************************************************************)
(* The content affinity table (internal/bridge/affinity_cache.go): which   *)
(* credential served a conversation that began like this one.              *)
(*                                                                         *)
(* One model's trie.  A bucket holds the conversations that share the      *)
(* fixed prefix; below it a radix trie over what follows.  A node is named *)
(* by the path from its bucket's root, so that parent, incoming edge,      *)
(* children and depth are what the paths say; what the code caches in a    *)
(* node (its nearest terminal, the index of its children) is state.  The   *)
(* Otter cache decides how long a terminal lives: it may drop any entry at *)
(* any time, by age or by size, and calls back later.                      *)
(***************************************************************************)
EXTENDS Integers, FiniteSets, Sequences, SequencesExt

CONSTANTS Readers,          (* requests that match                           *)
          Buckets,          (* contents of the fixed prefix                  *)
          Paths,            (* sequences of fingerprints that may follow it, *)
                            (* with their prefixes                           *)
          Creds, None,
          HeapThreshold,    (* contentAffinityCandidateHeapThreshold         *)
          MaxBind           (* bound: bindings in a behaviour                *)

VARIABLES
  trie,     (* by fixed prefix, the bucket: its nodes by path, none if absent *)
  sequence, (* bindSequence                                                  *)
  entries,  (* the Otter cache: generations by node                          *)
  deleted,  (* deletions whose callback has not run                          *)
  binder,   (* bindMu's holder, between the two halves of bind, or None      *)
  reader    (* each match between its two halves, or None                    *)

vars == <<trie, sequence, entries, deleted, binder, reader>>

Root  == << >>

CommonPrefix(a, b) ==
  CHOOSE n \in 0 .. Len(a) :
    /\ n <= Len(b) /\ \A i \in 1 .. n : a[i] = b[i]
    /\ n < Len(a) /\ n < Len(b) => a[n + 1] # b[n + 1]
Longest(S) == CHOOSE a \in S : \A b \in S : Len(b) <= Len(a)

\* T is one bucket: [terminal, cred, seq, nearest, heap] by path.
Above(T, n)    == {a \in DOMAIN T : IsPrefix(a, n)}      \* n and its ancestors
ParentOf(T, n) == Longest(Above(T, n) \ {n})
Children(T, n) == {c \in DOMAIN T \ {n} : IsPrefix(n, c) /\ ParentOf(T, c) = n}
Terminals(T)   == {n \in DOMAIN T : T[n].terminal}

NewNode == [terminal |-> FALSE, cred |-> None, seq |-> 0, nearest |-> None, heap |-> None]

\* betterContentTerminal: the shallower terminal, then the newer binding.
Better(T, a, b) ==
  /\ a # None
  /\ \/ b = None \/ Len(a) < Len(b)
     \/ Len(a) = Len(b) /\ T[a].seq > T[b].seq

-----------------------------------------------------------------------------
(* The index of a node's children: what each child's nearest terminal was when *)
(* the heap was last fixed for it.                                             *)

Key(T, c)     == IF T[c].nearest = None THEN None
                 ELSE [at |-> T[c].nearest, seq |-> T[T[c].nearest].seq]
KeyBetter(k, l) ==
  /\ k # None
  /\ l = None \/ Len(k.at) < Len(l.at) \/ (Len(k.at) = Len(l.at) /\ k.seq > l.seq)

\* rebuildCandidateHeap: only above the threshold.
Rebuilt(T, n) ==
  [T EXCEPT ![n].heap = IF Cardinality(Children(T, n)) <= HeapThreshold THEN None
                        ELSE [c \in Children(T, n) |-> Key(T, c)]]

\* setContentChild and deleteContentChild, after the children have changed: the
\* child under the same edge takes the place of the one before it.
Indexed(T, n) ==
  LET kids == Children(T, n)  heap == T[n].heap
  IN IF heap = None \/ Cardinality(kids) <= HeapThreshold THEN Rebuilt(T, n)
     ELSE [T EXCEPT ![n].heap =
             [c \in kids |-> IF c \in DOMAIN heap THEN heap[c] ELSE Key(T, c)]]

\* refreshContentChildCandidate.  Mutant: the heap is left as it is.
LeaveCandidate(T, n, c)   == T
RefreshCandidate(T, n, c) ==
  IF T[n].heap = None \/ c \notin DOMAIN T[n].heap THEN T
  ELSE [T EXCEPT ![n].heap[c] = Key(T, c)]

-----------------------------------------------------------------------------
(* The nearest terminals *)

\* From n up to the root: a node on the way is visited after those below it.
Upward(T, n, start, Visit(_, _)) ==
  LET after[k \in 0 .. Len(n)] ==
        LET X == IF k = Len(n) THEN start ELSE after[k + 1]
        IN IF SubSeq(n, 1, k) \in DOMAIN T THEN Visit(X, SubSeq(n, 1, k)) ELSE X
  IN after[0]

SetNearest(T, n, t) ==
  LET U == [T EXCEPT ![n].nearest = t]
  IN IF n = Root THEN U ELSE RefreshCandidate(U, ParentOf(U, n), n)

BestChild(T, n) ==
  LET kids == Children(T, n)
      best == IF T[n].heap # None
                THEN CHOOSE c \in kids : \A d \in kids : ~KeyBetter(T[n].heap[d], T[n].heap[c])
                ELSE CHOOSE c \in kids : \A d \in kids : ~Better(T, T[d].nearest, T[c].nearest)
  IN IF kids = {} THEN None ELSE T[best].nearest

Recompute(T, n)     == SetNearest(T, n, IF T[n].terminal THEN n ELSE BestChild(T, n))
\* Mutant: only the node where pruning stopped is recomputed.
RecomputeStop(T, n) == Recompute(T, n)
RecomputePath(T, n) == Upward(T, n, T, Recompute)

\* propagateTerminal: up to the first node that knows a better terminal.
\* Mutant: a node that knows another terminal is enough.
KnowsAnother(T, n, t) == T[n].nearest \notin {None, t}
KnowsBetter(T, n, t)  == T[n].nearest \notin {None, t} /\ ~Better(T, t, T[n].nearest)
Propagate(T, t) ==
  LET told == {n \in Above(T, t) :
                 ~\E b \in Above(T, t) : Len(b) >= Len(n) /\ KnowsBetter(T, b, t)}
  IN Upward(T, t, T, LAMBDA U, n : IF n \in told THEN SetNearest(U, n, t) ELSE U)

-----------------------------------------------------------------------------
(* insert and expireTerminal *)

WithNode(T, n)    == [m \in DOMAIN T \cup {n} |-> IF m = n THEN NewNode ELSE T[m]]
WithoutNode(T, n) == [m \in DOMAIN T \ {n} |-> T[m]]
AddNode(T, n)     == LET U == WithNode(T, n) IN Indexed(U, ParentOf(U, n))

\* Mutant of the split: the new node is not recomputed.
SplitOnly(T, n)  == AddNode(T, n)
SplitChild(T, n) == Recompute(AddNode(T, n), n)

\* The nodes that a binding of path s needs.
Grown(T, s) ==
  LET at   == Longest(Above(T, s))
      next == {c \in Children(T, at) : CommonPrefix(c, s) > Len(at)}
  IN IF at = s THEN T
     ELSE IF next = {} THEN AddNode(T, s)
     ELSE LET split == SubSeq(s, 1, CommonPrefix(CHOOSE c \in next : TRUE, s))
              U     == SplitChild(T, split)
          IN IF split = s THEN U ELSE AddNode(U, s)

Insert(T, s, c, seq) ==
  Propagate([Grown(T, s) EXCEPT ![s].terminal = TRUE, ![s].cred = c, ![s].seq = seq], s)

\* One round of pruneEmptyPath: a node that holds nothing is deleted, one with a
\* single child is merged into it.  Mutant: a bound node on the way is not kept.
Pruned(p, n) == [p EXCEPT !.T = Indexed(WithoutNode(@, n), ParentOf(@, n))]
PruneBound(p, n) ==
  IF p.stop # None THEN p
  ELSE IF n = Root \/ Cardinality(Children(p.T, n)) > 1
    THEN [p EXCEPT !.stop = n] ELSE Pruned(p, n)
PruneNode(p, n) ==
  IF p.stop # None THEN p
  ELSE IF n = Root \/ p.T[n].terminal \/ Cardinality(Children(p.T, n)) > 1
    THEN [p EXCEPT !.stop = n] ELSE Pruned(p, n)
PruneEmptyPath(T, n) == Upward(T, n, [T |-> T, stop |-> None], PruneNode)

ExpireTerminal(T, n) ==
  LET p == PruneEmptyPath([T EXCEPT ![n].terminal = FALSE, ![n].cred = None, ![n].seq = 0], n)
      U == IF p.T[p.stop].terminal THEN p.T ELSE RecomputePath(p.T, p.stop)
  IN IF ~U[Root].terminal /\ Children(U, Root) = {} THEN None ELSE U

\* lookup: how much is common, and the terminal nearest to where paths part.
Lookup(T, s) ==
  LET at   == Longest(Above(T, s))
      next == {c \in Children(T, at) : CommonPrefix(c, s) > Len(at)}
      c    == CHOOSE x \in next : TRUE
  IN IF next = {} THEN [depth |-> Len(at), nearest |-> T[at].nearest]
     ELSE [depth |-> CommonPrefix(c, s), nearest |-> T[c].nearest]

-----------------------------------------------------------------------------
(* bind, match, and the cache's callbacks *)

Entry(b, n, g) == [bucket |-> b, node |-> n, gen |-> g]
Bindings       == [bucket : Buckets, node : Paths, gen : 1 .. MaxBind]

Init ==
  /\ trie = [b \in Buckets |-> None] /\ sequence = 0
  /\ entries = {} /\ deleted = {}
  /\ binder = None /\ reader = [r \in Readers |-> None]

\* Under bindMu and mu.
BindInsert(b, s, c) ==
  /\ binder = None /\ sequence < MaxBind
  /\ sequence' = sequence + 1
  /\ LET T == IF trie[b] = None THEN [n \in {Root} |-> NewNode] ELSE trie[b]
     IN trie' = [trie EXCEPT ![b] = Insert(T, s, c, sequence + 1)]
  /\ binder' = Entry(b, s, sequence + 1)
  /\ UNCHANGED <<entries, deleted, reader>>

\* The cache's Set, under bindMu only; the value it replaces is reported too.
BindSet ==
  LET old == {e \in entries : e.bucket = binder.bucket /\ e.node = binder.node}
  IN /\ binder # None
     /\ entries' = (entries \ old) \cup {binder}
     /\ deleted' = deleted \cup old
     /\ binder' = None
     /\ UNCHANGED <<trie, sequence, reader>>

\* Expiry, or eviction at capacity (lowered by configureCapacity, too).
Drop(e) ==
  /\ entries' = entries \ {e}
  /\ deleted' = deleted \cup {e}
  /\ UNCHANGED <<trie, sequence, binder, reader>>

\* expireContentAffinityBinding, for the generation that has ended only.
SameGeneration(T, d) == d.node \in Terminals(T) /\ T[d.node].seq = d.gen
Callback(d) ==
  /\ deleted' = deleted \ {d}
  /\ LET T == trie[d.bucket]
     IN trie' = IF T # None /\ SameGeneration(T, d)
                  THEN [trie EXCEPT ![d.bucket] = ExpireTerminal(T, d.node)] ELSE trie
  /\ UNCHANGED <<sequence, entries, binder, reader>>

\* match: under the read lock, then in the cache.
MatchLookup(r, b, s, firstDialogue) ==
  /\ reader[r] = None
  /\ trie[b] # None
  /\ LET found == Lookup(trie[b], s)
     IN /\ found.depth >= firstDialogue /\ found.nearest # None
        /\ reader' = [reader EXCEPT ![r] =
             [entry |-> Entry(b, found.nearest, trie[b][found.nearest].seq),
              cred  |-> trie[b][found.nearest].cred]]
  /\ UNCHANGED <<trie, sequence, entries, deleted, binder>>

Live(e) == e \in entries
MatchEnd(r) ==
  /\ reader[r] # None
  /\ reader' = [reader EXCEPT ![r] = None]
  /\ UNCHANGED <<trie, sequence, entries, deleted, binder>>
Hit(r) == MatchEnd(r) /\ Live(reader[r].entry)

Next ==
  \/ \E b \in Buckets, s \in Paths, c \in Creds : BindInsert(b, s, c)
  \/ BindSet
  \/ \E e \in entries : Drop(e)
  \/ \E d \in deleted : Callback(d)
  \/ \E r \in Readers :
       \/ \E b \in Buckets, s \in Paths : \E n \in 0 .. Len(s) : MatchLookup(r, b, s, n)
       \/ MatchEnd(r)

Spec == Init /\ [][Next]_vars

-----------------------------------------------------------------------------
(* Properties *)

Index(T, n) == [c \in Children(T, n) |-> Key(T, c)]

TypeOK ==
  /\ \A b \in Buckets : trie[b] # None =>
       /\ Root \in DOMAIN trie[b] /\ DOMAIN trie[b] \subseteq Paths
       /\ \A n \in DOMAIN trie[b] :
            /\ trie[b][n].terminal \in BOOLEAN /\ trie[b][n].cred \in Creds \cup {None}
            /\ trie[b][n].seq \in 0 .. MaxBind
            /\ trie[b][n].nearest \in DOMAIN trie[b] \cup {None}
  /\ sequence \in 0 .. MaxBind
  /\ entries \subseteq Bindings /\ deleted \subseteq Bindings
  /\ binder \in Bindings \cup {None}
  /\ reader \in [Readers -> [entry : Bindings, cred : Creds] \cup {None}]

\* What a lookup should find: of the terminals that share most with s, the
\* nearest to where they part from it, and of these the newest.
Nearest(T, s) ==
  LET share == {t \in Terminals(T) : \A u \in Terminals(T) :
                  CommonPrefix(u, s) <= CommonPrefix(t, s)}
  IN CHOOSE t \in share : \A u \in share \ {t} : Better(T, t, u)

\* lookup's answer from the cached terminals, one comparison per node, is the
\* one a scan of all bindings gives, whatever was split, merged and expired.
LookupFindsNearest ==
  \A b \in Buckets : trie[b] # None =>
    \A s \in Paths : LET found == Lookup(trie[b], s)
                     IN /\ found.nearest = Nearest(trie[b], s)
                        /\ found.depth = CommonPrefix(found.nearest, s)

\* No node is kept that holds nothing: below the root each is a terminal or a
\* fork, and a bucket without terminals is gone.
NoIdleNodes ==
  \A b \in Buckets : trie[b] # None =>
    \A n \in DOMAIN trie[b] :
      IF n = Root THEN Terminals(trie[b]) # {}
      ELSE trie[b][n].terminal \/ Cardinality(Children(trie[b], n)) > 1

\* The index of a node's children is there above the threshold, has every child,
\* and knows its terminal.
HeapsInOrder ==
  \A b \in Buckets : trie[b] # None =>
    \A n \in DOMAIN trie[b] :
      trie[b][n].heap = IF Cardinality(Children(trie[b], n)) <= HeapThreshold THEN None
                        ELSE Index(trie[b], n)

\* Every terminal can still expire, and nothing in the cache has lost its
\* terminal: an entry is at most one bind behind.
EntriesMatchTerminals ==
  /\ \A b \in Buckets : trie[b] # None =>
       \A n \in Terminals(trie[b]) :
         Entry(b, n, trie[b][n].seq) \in entries \cup deleted \cup {binder}
  /\ \A e \in entries :
       /\ trie[e.bucket] # None /\ e.node \in Terminals(trie[e.bucket])
       /\ \/ trie[e.bucket][e.node].seq = e.gen
          \/ binder # None /\ binder.bucket = e.bucket /\ binder.node = e.node

\* What the table keeps beside the bindings says the same as they do: no node is
\* idle, each index of children is as if built anew, and the entries that expire
\* are those of the terminals.
TrieInOrder == NoIdleNodes /\ HeapsInOrder /\ EntriesMatchTerminals

\* A match returns the credential bound last to the conversation it found, or
\* the one before while the next is being bound: never an expired binding's.
HitsAreCurrent ==
  [][\A r \in Readers : Hit(r) =>
       LET e == reader[r].entry
       IN /\ trie[e.bucket] # None /\ e.node \in Terminals(trie[e.bucket])
          /\ \/ trie[e.bucket][e.node].cred = reader[r].cred
             \/ binder # None /\ binder.bucket = e.bucket /\ binder.node = e.node]_vars

\* What the table promises: a flat map of bindings, of which a match gives the
\* current ones.
Flat == INSTANCE FlatAffinity WITH
          bound <- [b \in Buckets |-> [s \in Paths |->
                     IF trie[b] # None /\ s \in DOMAIN trie[b] /\ trie[b][s].terminal
                       THEN trie[b][s].cred ELSE None]]
ImplementsFlat == Flat!Spec /\ HitsAreCurrent
=============================================================================
