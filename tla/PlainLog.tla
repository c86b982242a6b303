------------------------------ MODULE PlainLog ------------------------------
(***************************************************************************)
(* What the log of requests promises, without the buffer: a sequence of    *)
(* rows, oldest first.  An insertion drops what has expired and then what  *)
(* is over the limit; a clearing takes away what it names; an answer holds *)
(* no row that had expired when it was asked for, and counts for each      *)
(* credential its rows after the time asked for.                           *)
(***************************************************************************)
EXTENDS Naturals, Sequences, FiniteSets

CONSTANTS Creds, Retention, NoAnswer

VARIABLES log, limit, clock,
          asked,    (* when the pending question was asked                  *)
          answer    (* the answer to the last one, until the next is asked  *)

vars == <<log, limit, clock, asked, answer>>

\* The rows of s at the places I, in their order.
Keep(s, I) ==
  [j \in 1 .. Cardinality(I) |-> s[CHOOSE i \in I : Cardinality({k \in I : k <= i}) = j]]

Live(s, now)  == Keep(s, {i \in DOMAIN s : s[i].at + Retention > now})
Newest(n, s)  == IF Len(s) <= n THEN s ELSE SubSeq(s, Len(s) - n + 1, Len(s))
After(s, c, t) == Cardinality({i \in DOMAIN s : s[i].of = c /\ s[i].at > t})

Init == log = << >> /\ answer = NoAnswer /\ asked = clock

Insert(c) ==
  /\ log' = Newest(limit, Append(Live(log, clock), [at |-> clock, of |-> c]))
  /\ UNCHANGED <<limit, clock, asked, answer>>
Clear(C) ==
  /\ log' = Keep(log, {i \in DOMAIN log : log[i].of \notin C})
  /\ UNCHANGED <<limit, clock, asked, answer>>

Ask == asked' = clock /\ answer' = NoAnswer /\ UNCHANGED <<log, limit, clock>>

\* An answer takes the occasion to drop what expired, or leaves the log alone.
Answer ==
  /\ log' \in {log, Newest(limit, Live(log, asked))}
  /\ \A i \in DOMAIN log' : log'[i].at + Retention > asked
  /\ \/ answer' = [rows |-> log']
     \/ \E since \in [Creds -> 0 .. clock] :
          answer' = [counts |-> [c \in Creds |-> After(log', c, since[c])]]
  /\ UNCHANGED <<limit, clock, asked>>

Elsewhere == UNCHANGED <<log, asked, answer>>   (* time passes, the limit is set *)

Next ==
  \/ \E c \in Creds : Insert(c)
  \/ \E C \in SUBSET Creds : Clear(C)
  \/ Ask \/ Answer \/ Elsewhere

Spec == Init /\ [][Next]_vars
=============================================================================
