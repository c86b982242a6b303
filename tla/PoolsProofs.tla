----------------------------- MODULE PoolsProofs -----------------------------
(***************************************************************************)
(* Proofs about the relay and about the three pools that MCServing puts    *)
(* beside it, for any requests, goroutines, credentials, attempts and      *)
(* length of a behaviour.                                                  *)
(***************************************************************************)
EXTENDS MCServing, TLAPS

-----------------------------------------------------------------------------
(* Relay.  A step of a request writes its own record only, so that the     *)
(* invariant is one fact about a record, Sound, and one about what the     *)
(* requests share.                                                         *)

Records ==
  [pc : Places, mode : Modes \cup {"plain"}, key : Keys \cup {None},
   attempt : 1 .. MaxRetries + 2, failed : BOOLEAN, grace : Creds \cup {None},
   graced : Creds \cup {None}, pref : Creds \cup {None}, cred : Creds \cup {None},
   gone : BOOLEAN, due : 0 .. 1, answers : 0 .. 1, hinted : Creds \cup {None}]

\* Only the head of the loop may find the attempts used up.
Attempts(q) == q.pc # "head" => q.attempt <= MaxRetries + 1

\* From the choice of a credential to the report on it.
Attempting == {"auth", "send", "write", "cut", "bindSession", "bindContent", "recordSuccess"}
Owes(q) ==
  /\ q.pc \in Attempting => q.due = 1 /\ q.cred \in Creds
  /\ q.pc \notin Attempting \cup {"end"} \/ (q.pc = "end" /\ ~q.gone) => q.due = 0

\* An answer is begun by writing, and ends the loop.
Answering == {"bindSession", "bindContent", "recordSuccess"}
Answers(q) ==
  /\ q.pc \in Answering \/ (q.pc = "end" /\ ~q.gone) => q.answers = 1
  /\ q.pc \notin Answering \cup {"cut", "end"} => q.answers = 0

\* The tracker remembers the last hint that was honoured.
Remembers(q) == q.hinted # None => q.graced = q.hinted

Sound(q)  == q \in Records /\ Attempts(q) /\ Owes(q) /\ Answers(q) /\ Remembers(q)
SharedOK  == /\ open \subseteq Creds
             /\ session \in [Keys -> Creds \cup {None}]
             /\ fillFirst \in Creds \cup {None}
             /\ retries \in 0 .. MaxRetries
RelayInv  == /\ req \in [Requests -> Records]
             /\ \A r \in Requests : Sound(req[r])
             /\ SharedOK

LEMMA Moved ==
  ASSUME RelayInv, NEW r \in Requests, NEW q, Sound(q), Set(r, q)
  PROVE  req' \in [Requests -> Records] /\ \A s \in Requests : Sound(req'[s])
BY DEF RelayInv, Set, Sound

-----------------------------------------------------------------------------
(* What the ends and the helpers make of a record *)

LEMMA NewRequestIs ==
  /\ NewRequest \in Records
  /\ NewRequest.pc = "idle" /\ NewRequest.attempt = 1 /\ NewRequest.hinted = None
  /\ ~NewRequest.gone /\ NewRequest.due = 0 /\ NewRequest.answers = 0
<1>1. NewRequest \in Records
  BY RelayAssumption DEF NewRequest, Records, Places
<1> QED
  BY <1>1 DEF NewRequest

LEMMA SilentIs ==
  ASSUME NEW q \in Records
  PROVE  /\ Silent(q) \in Records
         /\ Silent(q).pc = "end" /\ Silent(q).attempt = 1 /\ Silent(q).hinted = None
         /\ Silent(q).gone = q.gone /\ Silent(q).due = q.due /\ Silent(q).answers = q.answers
<1> DEFINE n == NewRequest
           e == [n EXCEPT !.pc = "end", !.gone = q.gone, !.due = q.due, !.answers = q.answers]
<1>1. n \in Records /\ n.attempt = 1 /\ n.hinted = None
  BY NewRequestIs
<1>2. q.gone \in BOOLEAN /\ q.due \in 0 .. 1 /\ q.answers \in 0 .. 1 /\ "end" \in Places
  BY DEF Records, Places
<1>3. Silent(q) = e
  BY DEF Silent
<1> HIDE DEF n
<1>4. e \in Records
  <2>1. n \in Records
    BY <1>1
  <2> QED
    BY <1>2, <2>1, Zenon DEF Records
<1>5. e.pc = "end" /\ e.attempt = 1 /\ e.hinted = None
      /\ e.gone = q.gone /\ e.due = q.due /\ e.answers = q.answers
  BY <1>1, <1>2 DEF Records
<1> QED
  BY <1>3, <1>4, <1>5

LEMMA AnsweredIs ==
  ASSUME NEW q \in Records, q.answers = 0
  PROVE  /\ Answered(q) \in Records
         /\ Answered(q).pc = "end" /\ Answered(q).attempt = 1 /\ Answered(q).hinted = None
         /\ Answered(q).gone = q.gone /\ Answered(q).due = q.due /\ Answered(q).answers = 1
BY SilentIs DEF Answered, Records

LEMMA SilentIsSound ==
  ASSUME NEW q \in Records, q.gone \/ (q.due = 0 /\ q.answers = 1)
  PROVE  Sound(Silent(q))
BY SilentIs, RelayAssumption
   DEF Sound, Attempts, Owes, Answers, Remembers, Attempting, Answering

LEMMA AnsweredIsSound ==
  ASSUME NEW q \in Records, q.gone \/ q.due = 0, q.answers = 0
  PROVE  Sound(Answered(q))
BY AnsweredIs, RelayAssumption
   DEF Sound, Attempts, Owes, Answers, Remembers, Attempting, Answering

\* A report on a credential that was chosen.
LEMMA ReportedIs ==
  ASSUME NEW q \in Records, q.due = 1, NEW res
  PROVE  /\ Reported(q, res) \in Records
         /\ Reported(q, res).due = 0
         /\ Reported(q, res).attempt = q.attempt /\ Reported(q, res).gone = q.gone
         /\ Reported(q, res).answers = q.answers /\ Reported(q, res).cred = q.cred
         /\ Reported(q, res).graced = q.graced
         /\ Reported(q, res).hinted = IF res = "grace" THEN q.cred
              ELSE IF res \in {"noHeaders", "noResponse"} THEN q.hinted ELSE None
<1> DEFINE h == IF res = "grace" THEN q.cred
                ELSE IF res \in {"noHeaders", "noResponse"} THEN q.hinted ELSE None
           e == [q EXCEPT !.due = q.due - 1, !.hinted = h]
<1>1. Reported(q, res) = e
  BY DEF Reported
<1>2. h \in Creds \cup {None}
  BY DEF Records
<1>3. q.due - 1 = 0
  OBVIOUS
<1> HIDE DEF h
<1>4. e \in Records
  <2>1. q.due - 1 \in 0 .. 1
    BY <1>3
  <2> QED
    BY <1>2, <2>1, Zenon DEF Records
<1>5. e.due = 0 /\ e.hinted = h
      /\ e.attempt = q.attempt /\ e.gone = q.gone
      /\ e.answers = q.answers /\ e.cred = q.cred /\ e.graced = q.graced
  BY <1>3 DEF Records
<1> QED
  BY <1>1, <1>4, <1>5 DEF h

LEMMA RememberIs ==
  ASSUME NEW q \in Records
  PROVE  /\ Remember(q) \in Records
         /\ Remember(q).due = q.due /\ Remember(q).attempt = q.attempt
         /\ Remember(q).gone = q.gone /\ Remember(q).answers = q.answers
         /\ Remember(q).cred = q.cred /\ Remember(q).graced = q.graced
         /\ Remember(q).hinted = q.hinted
BY DEF Remember, Records

LEMMA ClearGraceIs ==
  ASSUME NEW q \in Records
  PROVE  /\ ClearGrace(q) \in Records
         /\ ClearGrace(q).due = q.due /\ ClearGrace(q).attempt = q.attempt
         /\ ClearGrace(q).gone = q.gone /\ ClearGrace(q).answers = q.answers
         /\ ClearGrace(q).cred = q.cred /\ ClearGrace(q).hinted = q.hinted
<1>1. ClearGrace(q) \in Records
  <2>1. None \in Creds \cup {None}
    OBVIOUS
  <2> QED
    BY <2>1, Zenon DEF ClearGrace, Records
<1> QED
  BY <1>1 DEF ClearGrace, Records

LEMMA ChooseIs ==
  ASSUME NEW q \in Records, NEW c \in Creds, q.due = 0
  PROVE  /\ Choose(q, c) \in Records
         /\ Choose(q, c).pc = "auth" /\ Choose(q, c).due = 1 /\ Choose(q, c).cred = c
         /\ Choose(q, c).attempt = q.attempt /\ Choose(q, c).answers = q.answers
         /\ Choose(q, c).graced = q.graced /\ Choose(q, c).hinted = q.hinted
<1> DEFINE e == [q EXCEPT !.pc = "auth", !.cred = c, !.pref = None, !.due = 1]
<1>1. Choose(q, c) = e
  <2>1. q.due + 1 = 1
    OBVIOUS
  <2> QED
    BY <2>1, Zenon DEF Choose
<1>2. e \in Records
  <2>1. "auth" \in Places
    BY DEF Places
  <2>2. c \in Creds \cup {None} /\ None \in Creds \cup {None}
    OBVIOUS
  <2>3. 1 \in 0 .. 1
    OBVIOUS
  <2> QED
    BY <2>1, <2>2, <2>3, ZenonT(30) DEF Records
<1>3. e.pc = "auth" /\ e.due = 1 /\ e.cred = c
  BY DEF Records
<1>4. e.attempt = q.attempt /\ e.answers = q.answers /\ e.graced = q.graced /\ e.hinted = q.hinted
  BY DEF Records
<1> QED
  BY <1>1, <1>2, <1>3, <1>4

LEMMA NextAttemptIs ==
  ASSUME NEW q \in Records, q.attempt <= MaxRetries + 1
  PROVE  /\ NextAttempt(q) \in Records
         /\ NextAttempt(q).pc = "head" /\ NextAttempt(q).due = q.due
         /\ NextAttempt(q).answers = q.answers
         /\ NextAttempt(q).graced = q.graced /\ NextAttempt(q).hinted = q.hinted
<1> DEFINE e == [q EXCEPT !.pc = "head", !.attempt = q.attempt + 1]
<1>1. q.attempt \in 1 .. MaxRetries + 2
  BY DEF Records
<1>2. "head" \in Places /\ q.attempt + 1 \in 1 .. MaxRetries + 2
  BY <1>1, RelayAssumption DEF Places
<1>3. e \in Records
  BY <1>2, Zenon DEF Records
<1>4. e.pc = "head" /\ e.due = q.due /\ e.answers = q.answers /\ e.graced = q.graced
      /\ e.hinted = q.hinted
  BY DEF Records
<1> QED
  BY <1>3, <1>4 DEF NextAttempt

\* A step to another place that says nothing else.
LEMMA GotoIs ==
  ASSUME NEW q \in Records, NEW l \in Places
  PROVE  LET e == [q EXCEPT !.pc = l]
         IN /\ e \in Records /\ e.pc = l
            /\ e.due = q.due /\ e.attempt = q.attempt /\ e.gone = q.gone
            /\ e.answers = q.answers /\ e.cred = q.cred
            /\ e.graced = q.graced /\ e.hinted = q.hinted
BY DEF Records

-----------------------------------------------------------------------------
(* The steps of a request *)

\* A report on a credential that can be used no more takes it from the pool only.
LEMMA PoolIs ==
  ASSUME NEW c, NEW res, open \subseteq Creds, Pool(c, res)
  PROVE  open' \subseteq Creds
BY DEF Pool

LEMMA Lands ==
  ASSUME RelayInv, NEW r \in Requests, NEW e, Sound(e), Set(r, e), SharedOK'
  PROVE  RelayInv'
BY Moved DEF RelayInv

\* Between attempts nothing is owed, and nothing answered.
Between == Places \ (Attempting \cup {"end"})
LEMMA BetweenIs ==
  ASSUME NEW q, Sound(q), q.pc \in Between
  PROVE  /\ q \in Records /\ q.due = 0 /\ q.answers = 0 /\ Remembers(q)
         /\ q.pc # "head" => q.attempt <= MaxRetries + 1
BY DEF Sound, Attempts, Owes, Answers, Between, Attempting, Answering
LEMMA BetweenIsSound ==
  ASSUME NEW e \in Records, e.pc \in Between, e.due = 0, e.answers = 0, Remembers(e),
         e.pc # "head" => e.attempt <= MaxRetries + 1
  PROVE  Sound(e)
BY DEF Sound, Attempts, Owes, Answers, Between, Attempting, Answering

\* From one place between attempts to another.
LEMMA GotoBetween ==
  ASSUME RelayInv, NEW r \in Requests, NEW l \in Between,
         req[r].pc \in Between \ {"head"}, Goto(r, l), SharedOK'
  PROVE  RelayInv'
<1> DEFINE q == req[r]
           e == [q EXCEPT !.pc = l]
<1>1. q \in Records /\ q.due = 0 /\ q.answers = 0 /\ Remembers(q) /\ q.attempt <= MaxRetries + 1
  BY BetweenIs DEF RelayInv
<1>2. e \in Records /\ e.pc = l /\ e.due = 0 /\ e.answers = 0 /\ e.attempt = q.attempt
      /\ e.graced = q.graced /\ e.hinted = q.hinted
  BY <1>1, GotoIs DEF Between
<1>3. Set(r, e)
  BY DEF Goto
<1> HIDE DEF q, e
<1>4. Sound(e)
  BY <1>1, <1>2, BetweenIsSound DEF Remembers
<1> QED
  BY <1>3, <1>4, Lands

LEMMA ChosenSound ==
  ASSUME NEW q, Sound(q), q.pc \in Between \ {"head"}, NEW c \in Creds
  PROVE  Sound(Choose(q, c))
<1>1. q \in Records /\ q.due = 0 /\ q.answers = 0 /\ Remembers(q) /\ q.attempt <= MaxRetries + 1
  BY BetweenIs
<1> QED
  BY <1>1, ChooseIs DEF Sound, Attempts, Owes, Answers, Remembers, Attempting, Answering

LEMMA StartStep ==
  ASSUME RelayInv, NEW r \in Requests, Start(r)
  PROVE  RelayInv'
<1> USE DEF RelayInv, SharedOK, shared
<1>1. req[r] \in Records /\ Sound(req[r])
  OBVIOUS
<1>2. CASE Refuse(r)
  <2>1. Sound(Answered(req[r]))
    BY <1>1, <1>2, AnsweredIsSound DEF Refuse, At, Sound, Owes, Answers, Attempting, Answering
  <2> QED
    BY <1>2, <2>1, Moved DEF Refuse
<1>3. ASSUME NEW m \in Modes, NEW k \in Keys \cup {None}, Receive(r, m, k) PROVE RelayInv'
  <2> DEFINE e == [req[r] EXCEPT !.pc = "head", !.mode = m, !.key = k]
  <2>1. "head" \in Places /\ m \in Modes \cup {"plain"} /\ k \in Keys \cup {None}
    BY DEF Places
  <2>2. e \in Records
    BY <1>1, <2>1, Zenon DEF Records
  <2>3. e.pc = "head" /\ e.due = req[r].due /\ e.answers = req[r].answers
        /\ e.graced = req[r].graced /\ e.hinted = req[r].hinted
    BY <1>1 DEF Records
  <2>4. req[r].due = 0 /\ req[r].answers = 0 /\ Remembers(req[r])
    BY <1>1, <1>3 DEF Receive, At, Sound, Owes, Answers, Attempting, Answering
  <2> HIDE DEF e
  <2>5. Sound(e)
    BY <2>2, <2>3, <2>4 DEF Sound, Attempts, Owes, Answers, Remembers, Attempting, Answering
  <2>6. Set(r, e)
    BY <1>3 DEF Receive, e
  <2> QED
    BY <1>3, <2>5, <2>6, Moved DEF Receive
<1> QED
  BY <1>2, <1>3 DEF Start

LEMMA LoopHeadStep ==
  ASSUME RelayInv, NEW r \in Requests, LoopHead(r)
  PROVE  RelayInv'
<1> DEFINE q == req[r]
           p == IF q.grace # None THEN q.grace ELSE Session(q.key)
           e == [q EXCEPT !.pc = "preferred", !.cred = None, !.pref = p]
<1>1. Sound(q) /\ q.pc = "head" /\ SharedOK'
  BY DEF RelayInv, LoopHead, At, SharedOK, shared
<1>2. q \in Records /\ q.due = 0 /\ q.answers = 0 /\ Remembers(q)
  BY <1>1, BetweenIs DEF Between, Places, Attempting
<1>3. CASE q.attempt > MaxAttempts
  BY <1>1, <1>2, <1>3, AnsweredIsSound, Lands DEF LoopHead
<1>4. CASE ~(q.attempt > MaxAttempts)
  <2>1. Set(r, e)
    BY <1>4 DEF LoopHead
  <2>2. q.attempt <= MaxRetries + 1
    <3>1. q.attempt \in 1 .. MaxRetries + 2
      BY <1>2 DEF Records
    <3> QED
      BY <1>4, <3>1, RelayAssumption DEF MaxAttempts, RelayInv, SharedOK
  <2>3. p \in Creds \cup {None}
    <3>1. q.grace \in Creds \cup {None} /\ q.key \in Keys \cup {None}
      BY <1>2 DEF Records
    <3> QED
      BY <3>1 DEF Session, RelayInv, SharedOK
  <2>4. "preferred" \in Places /\ None \in Creds \cup {None}
    BY DEF Places
  <2> HIDE DEF p
  <2>5. e \in Records
    <3>1. q \in Records
      BY <1>2
    <3> QED
      BY <2>3, <2>4, <3>1, ZenonT(30) DEF Records
  <2>6. e.pc = "preferred" /\ e.due = q.due /\ e.answers = q.answers /\ e.attempt = q.attempt
        /\ e.graced = q.graced /\ e.hinted = q.hinted
    BY <1>2 DEF Records
  <2> HIDE DEF q, e
  <2>7. Sound(e)
    BY <1>2, <2>2, <2>5, <2>6, BetweenIsSound DEF Between, Places, Attempting, Remembers
  <2> QED
    BY <1>1, <2>1, <2>7, Lands
<1> QED
  BY <1>3, <1>4

\* A credential that the scheduler selects, at any of the three places.
LEMMA ChooseStep ==
  ASSUME RelayInv, NEW r \in Requests, NEW c \in open,
         req[r].pc \in Between \ {"head"}, Set(r, Choose(req[r], c)), UNCHANGED shared
  PROVE  RelayInv'
<1>1. Sound(req[r]) /\ c \in Creds /\ SharedOK'
  BY DEF RelayInv, SharedOK, shared
<1>2. Sound(Choose(req[r], c))
  BY <1>1, ChosenSound
<1> QED
  BY <1>1, <1>2, Lands

\* One that is looked at first: the fill-first model's, or the conversation's.
LEMMA TryStep ==
  ASSUME RelayInv, NEW r \in Requests, NEW c \in Creds, NEW l \in Between,
         req[r].pc \in Between \ {"head"},
         Set(r, [req[r] EXCEPT !.pc = l, !.cred = c]), UNCHANGED shared
  PROVE  RelayInv'
<1> DEFINE q == req[r]
           e == [q EXCEPT !.pc = l, !.cred = c]
<1>1. Sound(q) /\ SharedOK'
  BY DEF RelayInv, SharedOK, shared
<1>2. q \in Records /\ q.due = 0 /\ q.answers = 0 /\ Remembers(q) /\ q.attempt <= MaxRetries + 1
  BY <1>1, BetweenIs
<1>3. e \in Records
  <2>1. q \in Records /\ l \in Places /\ c \in Creds \cup {None}
    BY <1>2 DEF Between
  <2> QED
    BY <2>1, Zenon DEF Records
<1>4. e.pc = l /\ e.due = q.due /\ e.answers = q.answers /\ e.attempt = q.attempt
      /\ e.graced = q.graced /\ e.hinted = q.hinted
  BY <1>2 DEF Records
<1>5. Set(r, e)
  OBVIOUS
<1> HIDE DEF q, e
<1>6. Sound(e)
  BY <1>2, <1>3, <1>4, BetweenIsSound DEF Remembers
<1> QED
  BY <1>1, <1>5, <1>6, Lands

LEMMA SelectStep ==
  ASSUME RelayInv, NEW r \in Requests,
         TryPreferred(r) \/ LookFill(r) \/ TryFill(r) \/ DropFill(r)
           \/ Match(r) \/ TryMatch(r) \/ TryAny(r)
  PROVE  RelayInv'
<1>1. Sound(req[r]) /\ SharedOK
  BY DEF RelayInv
<1>2. UNCHANGED shared => SharedOK'
  BY <1>1 DEF SharedOK, shared
<1>3. {"preferred", "fill", "tryFill", "dropFill", "match", "tryMatch", "any"} \subseteq Between \ {"head"}
  BY DEF Between, Places, Attempting
<1>4. CASE TryPreferred(r)
  BY <1>2, <1>3, <1>4, ChooseStep, GotoBetween DEF TryPreferred, At
<1>5. CASE LookFill(r)
  <2>1. CASE /\ fillFirst \notin {None, req[r].pref}
             /\ Set(r, [req[r] EXCEPT !.pc = "tryFill", !.cred = fillFirst])
    <3>1. fillFirst \in Creds
      BY <1>1, <2>1 DEF SharedOK
    <3> QED
      BY <1>3, <1>5, <2>1, <3>1, TryStep DEF LookFill, At
  <2>2. CASE Goto(r, "match")
    BY <1>2, <1>3, <1>5, <2>2, GotoBetween DEF LookFill, At
  <2> QED
    BY <1>5, <2>1, <2>2 DEF LookFill
<1>6. CASE TryFill(r)
  BY <1>2, <1>3, <1>6, ChooseStep, GotoBetween DEF TryFill, At
<1>7. CASE DropFill(r)
  <2>1. SharedOK'
    BY <1>1, <1>7 DEF DropFill, DeleteIf, SharedOK
  <2> QED
    BY <1>3, <1>7, <2>1, GotoBetween DEF DropFill, At
<1>8. CASE Match(r)
  <2>1. ASSUME NEW c \in Creds \ {req[r].pref},
               Set(r, [req[r] EXCEPT !.pc = "tryMatch", !.cred = c])
        PROVE  RelayInv'
    BY <1>3, <1>8, <2>1, TryStep DEF Match, At
  <2>2. CASE Goto(r, "any")
    BY <1>2, <1>3, <1>8, <2>2, GotoBetween DEF Match, At
  <2> QED
    BY <1>8, <2>1, <2>2 DEF Match
<1>9. CASE TryMatch(r)
  BY <1>2, <1>3, <1>9, ChooseStep, GotoBetween DEF TryMatch, At
<1>10. CASE TryAny(r)
  <2>1. CASE Set(r, Answered(req[r]))
    <3>1. Sound(Answered(req[r]))
      BY <1>1, <1>3, <1>10, BetweenIs, AnsweredIsSound DEF TryAny, At
    <3> QED
      BY <1>2, <1>10, <2>1, <3>1, Lands DEF TryAny
  <2>2. ASSUME NEW c \in open, Set(r, Choose(req[r], c)) PROVE RelayInv'
    BY <1>3, <1>10, <2>2, ChooseStep DEF TryAny, At
  <2> QED
    BY <1>10, <2>1, <2>2 DEF TryAny
<1> QED
  BY <1>4, <1>5, <1>6, <1>7, <1>8, <1>9, <1>10

LEMMA AttemptIs ==
  ASSUME NEW q, Sound(q), q.pc \in Attempting
  PROVE  /\ q \in Records /\ q.due = 1 /\ q.cred \in Creds /\ Remembers(q)
         /\ q.attempt <= MaxRetries + 1 /\ q.gone \in BOOLEAN /\ q.answers \in 0 .. 1
         /\ q.pc \in Answering => q.answers = 1
         /\ q.pc \in {"auth", "send", "write"} => q.answers = 0
BY DEF Sound, Attempts, Owes, Answers, Attempting, Answering, Records

\* From one place of an attempt to another, on the same side of the answer.
LEMMA GotoAttempt ==
  ASSUME RelayInv, NEW r \in Requests, NEW l \in Attempting \ {"cut"},
         req[r].pc \in Attempting \ {"cut"}, l \in Answering <=> req[r].pc \in Answering,
         Goto(r, l), SharedOK'
  PROVE  RelayInv'
<1> DEFINE q == req[r]
           e == [q EXCEPT !.pc = l]
<1>1. /\ q \in Records /\ q.due = 1 /\ q.cred \in Creds /\ Remembers(q)
      /\ q.attempt <= MaxRetries + 1
      /\ q.pc \in Answering => q.answers = 1
      /\ q.pc \notin Answering => q.answers = 0
  BY AttemptIs DEF RelayInv, Attempting, Answering
<1>2. e \in Records /\ e.pc = l /\ e.due = q.due /\ e.answers = q.answers /\ e.attempt = q.attempt
      /\ e.cred = q.cred /\ e.graced = q.graced /\ e.hinted = q.hinted
  <2>1. q \in Records /\ l \in Places
    BY <1>1 DEF Places, Attempting
  <2> HIDE DEF q
  <2> QED
    BY <2>1, GotoIs
<1>3. Set(r, e)
  BY DEF Goto
<1>4. q.pc \in Answering <=> l \in Answering
  OBVIOUS
<1> HIDE DEF q, e
<1>5. Sound(e)
  BY <1>1, <1>2, <1>4 DEF Sound, Attempts, Owes, Answers, Remembers, Attempting, Answering
<1> QED
  BY <1>3, <1>5, Lands

\* An attempt that failed is reported; then the fill-first binding goes.
LEMMA FailedIsSound ==
  ASSUME NEW q, Sound(q), q.pc \in {"auth", "send"}, NEW res, res # "grace"
  PROVE  Sound([Remember(Reported(q, res)) EXCEPT !.pc = "unfill"])
<1> DEFINE n == Remember(Reported(q, res))
           e == [n EXCEPT !.pc = "unfill"]
<1>1. /\ q \in Records /\ q.due = 1 /\ q.answers = 0 /\ Remembers(q)
      /\ q.attempt <= MaxRetries + 1
  BY AttemptIs DEF Attempting
<1>2. n \in Records /\ n.due = 0 /\ n.answers = 0 /\ n.attempt = q.attempt /\ Remembers(n)
  <2>1. /\ n \in Records /\ n.due = 0 /\ n.answers = 0 /\ n.attempt = q.attempt
        /\ n.graced = q.graced /\ n.hinted \in {q.hinted, None}
    BY <1>1, ReportedIs, RememberIs
  <2> QED
    BY <1>1, <2>1 DEF Remembers
<1> HIDE DEF n
<1>3. e \in Records /\ e.pc = "unfill" /\ e.due = 0 /\ e.answers = 0 /\ e.attempt = n.attempt
      /\ e.graced = n.graced /\ e.hinted = n.hinted
  <2>1. "unfill" \in Places
    BY DEF Places
  <2> QED
    BY <1>2, <2>1, GotoIs
<1> HIDE DEF e
<1>4. Sound(e)
  BY <1>1, <1>2, <1>3, BetweenIsSound DEF Between, Places, Attempting, Remembers
<1> QED
  BY <1>4 DEF e, n

LEMMA FailBeforeStep ==
  ASSUME RelayInv, NEW r \in Requests, NEW here \in {"auth", "send"}, NEW res, res # "grace",
         FailBefore(r, here, res)
  PROVE  RelayInv'
<1>1. Sound(req[r]) /\ req[r].pc = here /\ req[r].pc \in Attempting
  BY DEF RelayInv, FailBefore, At, Attempting
<1>2. SharedOK'
  BY PoolIs DEF FailBefore, RelayInv, SharedOK
<1>3. CASE req[r].gone /\ Set(r, Silent(req[r]))
  BY <1>1, <1>2, <1>3, AttemptIs, SilentIsSound, Lands
<1>4. CASE Set(r, [Remember(Reported(req[r], res)) EXCEPT !.pc = "unfill"])
  BY <1>1, <1>2, <1>4, FailedIsSound, Lands
<1> QED
  BY <1>3, <1>4 DEF FailBefore

LEMMA NextAttemptStep ==
  ASSUME RelayInv, NEW r \in Requests, req[r].pc \in {"unfill", "wait"},
         Set(r, NextAttempt(req[r])), SharedOK'
  PROVE  RelayInv'
<1> DEFINE q == req[r]
           e == NextAttempt(q)
<1>1. Sound(q) /\ q.pc \in Between \ {"head"}
  BY DEF RelayInv, Between, Places, Attempting
<1>2. q \in Records /\ q.due = 0 /\ q.answers = 0 /\ Remembers(q) /\ q.attempt <= MaxRetries + 1
  BY <1>1, BetweenIs
<1>3. e \in Records /\ e.pc = "head" /\ e.due = 0 /\ e.answers = 0
      /\ e.graced = q.graced /\ e.hinted = q.hinted
  BY <1>2, NextAttemptIs
<1>4. Set(r, e)
  OBVIOUS
<1> HIDE DEF q, e
<1>5. Sound(e)
  BY <1>2, <1>3, BetweenIsSound DEF Between, Places, Attempting, Remembers
<1> QED
  BY <1>4, <1>5, Lands

\* What a failed answer of the upstream leaves, before the place is set.
LEMMA ToldIs ==
  ASSUME NEW q, Sound(q), q.pc = "send", NEW res, res \notin {"noHeaders", "noResponse"}
  PROVE  LET n == Remember(Reported(q, res))
         IN /\ n \in Records /\ n.due = 0 /\ n.answers = 0 /\ n.attempt <= MaxRetries + 1
            /\ n.cred = q.cred /\ n.graced = q.graced
            /\ n.hinted = IF res = "grace" THEN q.cred ELSE None
<1>1. q \in Records /\ q.due = 1 /\ q.answers = 0 /\ q.attempt <= MaxRetries + 1
  BY AttemptIs DEF Attempting
<1> QED
  BY <1>1, ReportedIs, RememberIs

LEMMA GivenUpIsSound ==
  ASSUME NEW n \in Records, n.due = 0, n.answers = 0, n.attempt <= MaxRetries + 1, n.hinted = None
  PROVE  Sound([ClearGrace(n) EXCEPT !.pc = "unfill"])
<1> DEFINE m == ClearGrace(n)
           e == [m EXCEPT !.pc = "unfill"]
<1>1. m \in Records /\ m.due = 0 /\ m.answers = 0 /\ m.attempt = n.attempt /\ m.hinted = None
  BY ClearGraceIs
<1> HIDE DEF m
<1>2. e \in Records /\ e.pc = "unfill" /\ e.due = 0 /\ e.answers = 0 /\ e.attempt = n.attempt
      /\ e.hinted = None
  <2>1. "unfill" \in Places
    BY DEF Places
  <2> QED
    BY <1>1, <2>1, GotoIs
<1> HIDE DEF e
<1>3. Sound(e)
  BY <1>2, BetweenIsSound DEF Between, Places, Attempting, Remembers
<1> QED
  BY <1>3 DEF e, m

LEMMA UpstreamErrorStep ==
  ASSUME RelayInv, NEW r \in Requests, NEW res \in {"rejected", "failed", "invalid"},
         UpstreamError(r, res)
  PROVE  RelayInv'
<1> DEFINE n == Remember(Reported(req[r], res))
<1>1. Sound(req[r]) /\ req[r].pc = "send"
  BY DEF RelayInv, UpstreamError, At
<1>2. SharedOK'
  BY PoolIs DEF UpstreamError, RelayInv, SharedOK
<1>3. n \in Records /\ n.due = 0 /\ n.answers = 0 /\ n.attempt <= MaxRetries + 1 /\ n.hinted = None
  BY <1>1, ToldIs
<1>4. Set(r, [ClearGrace(n) EXCEPT !.pc = "unfill"]) \/ Set(r, Answered(n))
  BY DEF UpstreamError
<1> HIDE DEF n
<1>5. Sound([ClearGrace(n) EXCEPT !.pc = "unfill"]) /\ Sound(Answered(n))
  BY <1>3, GivenUpIsSound, AnsweredIsSound
<1> QED
  BY <1>2, <1>4, <1>5, Lands

LEMMA RetryHintStep ==
  ASSUME RelayInv, NEW r \in Requests, NEW soon \in BOOLEAN, RetryHint(r, soon)
  PROVE  RelayInv'
<1> DEFINE q   == req[r]
           res == IF soon /\ ~GraceUsed(q) THEN "grace" ELSE "throttled"
           n   == Remember(Reported(q, res))
           e   == [n EXCEPT !.pc = "wait", !.grace = q.cred, !.graced = q.cred]
<1>1. Sound(q) /\ q.pc = "send" /\ q.cred \in Creds
  BY AttemptIs DEF RelayInv, RetryHint, At, Attempting
<1>2. SharedOK'
  BY PoolIs DEF RetryHint, RelayInv, SharedOK
<1>3. /\ n \in Records /\ n.due = 0 /\ n.answers = 0 /\ n.attempt <= MaxRetries + 1
      /\ n.hinted = IF res = "grace" THEN q.cred ELSE None
  BY <1>1, ToldIs
<1>4. IF soon /\ ~GraceUsed(q) THEN Set(r, e) ELSE Set(r, [ClearGrace(n) EXCEPT !.pc = "unfill"])
  BY DEF RetryHint
<1>5. CASE soon /\ ~GraceUsed(q)
  <2>1. n.hinted = q.cred
    BY <1>3, <1>5
  <2>2. "wait" \in Places /\ q.cred \in Creds \cup {None}
    BY <1>1 DEF Places
  <2>3. Set(r, e)
    BY <1>4, <1>5
  <2> HIDE DEF n
  <2>4. e \in Records
    <3>1. n \in Records
      BY <1>3
    <3> QED
      BY <2>2, <3>1, ZenonT(30) DEF Records
  <2>5. e.pc = "wait" /\ e.due = n.due /\ e.answers = n.answers /\ e.attempt = n.attempt
        /\ e.graced = q.cred /\ e.hinted = n.hinted
    BY <1>3 DEF Records
  <2> HIDE DEF q, e
  <2>6. Sound(e)
    BY <1>3, <2>1, <2>4, <2>5, BetweenIsSound DEF Between, Places, Attempting, Remembers
  <2> QED
    BY <1>2, <2>3, <2>6, Lands
<1>6. CASE ~(soon /\ ~GraceUsed(q))
  <2>1. n.hinted = None /\ Set(r, [ClearGrace(n) EXCEPT !.pc = "unfill"])
    BY <1>3, <1>4, <1>6
  <2> HIDE DEF n
  <2>2. Sound([ClearGrace(n) EXCEPT !.pc = "unfill"])
    BY <1>3, <2>1, GivenUpIsSound
  <2> QED
    BY <1>2, <2>1, <2>2, Lands
<1> QED
  BY <1>5, <1>6

LEMMA WaitStep ==
  ASSUME RelayInv, NEW r \in Requests, WaitForRetry(r)
  PROVE  RelayInv'
<1>1. Sound(req[r]) /\ req[r].pc = "wait" /\ SharedOK'
  BY DEF RelayInv, WaitForRetry, At, SharedOK, shared
<1>2. CASE req[r].gone /\ Set(r, Silent(req[r]))
  <2>1. req[r] \in Records
    BY <1>1 DEF Sound
  <2> QED
    BY <1>1, <1>2, <2>1, SilentIsSound, Lands
<1>3. CASE Set(r, NextAttempt(req[r]))
  BY <1>1, <1>3, NextAttemptStep
<1> QED
  BY <1>2, <1>3 DEF WaitForRetry

LEMMA WriteStep ==
  ASSUME RelayInv, NEW r \in Requests, Write(r)
  PROVE  RelayInv'
<1> DEFINE q == req[r]
           e == [q EXCEPT !.pc = "bindSession", !.answers = 1]
<1>1. Sound(q) /\ q.pc = "write" /\ SharedOK'
  BY DEF RelayInv, Write, At, SharedOK, shared
<1>2. /\ q \in Records /\ q.due = 1 /\ q.cred \in Creds /\ q.answers = 0 /\ Remembers(q)
      /\ q.attempt <= MaxRetries + 1
  BY <1>1, AttemptIs DEF Attempting
<1>3. Set(r, e)
  <2>1. q.answers + 1 = 1
    BY <1>2
  <2> QED
    BY <2>1 DEF Write
<1>4. e \in Records
  <2>1. q \in Records
    BY <1>2
  <2>2. "bindSession" \in Places
    BY DEF Places
  <2>3. 1 \in 0 .. 1
    OBVIOUS
  <2> QED
    BY <2>1, <2>2, <2>3, Zenon DEF Records
<1>5. e.pc = "bindSession" /\ e.due = q.due /\ e.answers = 1 /\ e.attempt = q.attempt
      /\ e.cred = q.cred /\ e.graced = q.graced /\ e.hinted = q.hinted
  BY <1>2 DEF Records
<1> HIDE DEF q, e
<1>6. Sound(e)
  BY <1>2, <1>4, <1>5 DEF Sound, Attempts, Owes, Answers, Remembers, Attempting, Answering
<1> QED
  BY <1>1, <1>3, <1>6, Lands

LEMMA WriteFailureStep ==
  ASSUME RelayInv, NEW r \in Requests, NEW begun \in BOOLEAN, WriteFailure(r, begun)
  PROVE  RelayInv'
<1> DEFINE q == req[r]
           a == IF begun THEN q.answers + 1 ELSE q.answers
           w == [q EXCEPT !.answers = a]
           e == [w EXCEPT !.pc = "cut"]
<1>1. Sound(q) /\ q.pc = "write" /\ SharedOK'
  BY DEF RelayInv, WriteFailure, At, SharedOK, DeleteIf
<1>2. /\ q \in Records /\ q.due = 1 /\ q.cred \in Creds /\ q.answers = 0 /\ Remembers(q)
      /\ q.attempt <= MaxRetries + 1
  BY <1>1, AttemptIs DEF Attempting
<1>3. a \in 0 .. 1
  BY <1>2
<1>4. w = [q EXCEPT !.answers = IF begun THEN @ + 1 ELSE @]
  OBVIOUS
<1>5. IF w.gone THEN Set(r, Silent(Reported(w, "served"))) ELSE Set(r, e)
  BY <1>4 DEF WriteFailure
<1> HIDE DEF a
<1>6. w \in Records /\ w.due = q.due /\ w.attempt = q.attempt
      /\ w.cred = q.cred /\ w.graced = q.graced /\ w.hinted = q.hinted
  BY <1>2, <1>3 DEF Records
<1> HIDE DEF w
<1>7. CASE w.gone
  <2>1. Reported(w, "served") \in Records /\ Reported(w, "served").gone
    BY <1>2, <1>6, <1>7, ReportedIs
  <2> QED
    BY <1>1, <1>5, <1>7, <2>1, SilentIsSound, Lands
<1>8. CASE ~w.gone
  <2>1. e \in Records /\ e.pc = "cut" /\ e.due = w.due /\ e.attempt = w.attempt
        /\ e.cred = w.cred /\ e.graced = w.graced /\ e.hinted = w.hinted
    <3>1. "cut" \in Places
      BY DEF Places
    <3> QED
      BY <1>6, <3>1, GotoIs
  <2>2. Set(r, e)
    BY <1>5, <1>8
  <2> HIDE DEF q, e
  <2>3. Sound(e)
    BY <1>2, <1>6, <2>1 DEF Sound, Attempts, Owes, Answers, Remembers, Attempting, Answering
  <2> QED
    BY <1>1, <2>2, <2>3, Lands
<1> QED
  BY <1>7, <1>8

LEMMA CutStep ==
  ASSUME RelayInv, NEW r \in Requests, Cut(r)
  PROVE  RelayInv'
<1> DEFINE n == Reported(req[r], "cut")
<1>1. Sound(req[r]) /\ req[r].pc = "cut"
  BY DEF RelayInv, Cut, At
<1>2. SharedOK'
  BY PoolIs DEF Cut, RelayInv, SharedOK
<1>3. n \in Records /\ n.due = 0
  BY <1>1, AttemptIs, ReportedIs DEF Attempting
<1>4. Set(r, AnswerCut(n))
  BY DEF Cut
<1> HIDE DEF n
<1>5. n.answers \in 0 .. 1
  BY <1>3 DEF Records
<1>6. Sound(AnswerCut(n))
  BY <1>3, <1>5, AnsweredIsSound, SilentIsSound DEF AnswerCut
<1> QED
  BY <1>2, <1>4, <1>6, Lands

LEMMA RecordSuccessStep ==
  ASSUME RelayInv, NEW r \in Requests, RecordSuccess(r)
  PROVE  RelayInv'
<1> DEFINE n == Reported(req[r], "served")
<1>1. Sound(req[r]) /\ req[r].pc = "recordSuccess" /\ SharedOK'
  BY DEF RelayInv, RecordSuccess, At, SharedOK, shared
<1>2. n \in Records /\ n.due = 0 /\ n.answers = 1
  BY <1>1, AttemptIs, ReportedIs DEF Attempting, Answering
<1>3. Set(r, Silent(n))
  BY DEF RecordSuccess, EndSuccess
<1> HIDE DEF n
<1>4. Sound(Silent(n))
  BY <1>2, SilentIsSound
<1> QED
  BY <1>1, <1>3, <1>4, Lands

\* The steps that move on within an attempt.
LEMMA WithinStep ==
  ASSUME RelayInv, NEW r \in Requests,
         AuthHeaders(r) \/ Success(r) \/ BindSession(r) \/ BindContent(r)
  PROVE  RelayInv'
<1>1. /\ {"auth", "send", "write", "bindSession", "bindContent", "recordSuccess"}
           \subseteq Attempting \ {"cut"}
      /\ \A l \in {"auth", "send", "write"} : l \notin Answering
      /\ {"bindSession", "bindContent", "recordSuccess"} \subseteq Answering
  BY DEF Attempting, Answering
<1>2. req[r].cred \in Creds \cup {None} /\ req[r].key \in Keys \cup {None}
  BY DEF RelayInv, Sound, Records
<1>3. CASE AuthHeaders(r)
  <2>1. SharedOK'
    BY <1>3 DEF AuthHeaders, RelayInv, SharedOK, shared
  <2> QED
    BY <1>1, <1>3, <2>1, GotoAttempt DEF AuthHeaders, At
<1>4. CASE Success(r)
  <2>1. SharedOK'
    BY <1>2, <1>4 DEF Success, RelayInv, SharedOK
  <2> QED
    BY <1>1, <1>4, <2>1, GotoAttempt DEF Success, At
<1>5. CASE BindSession(r)
  <2>1. SharedOK'
    BY <1>2, <1>5 DEF BindSession, RelayInv, SharedOK
  <2> QED
    BY <1>1, <1>5, <2>1, GotoAttempt DEF BindSession, At
<1>6. CASE BindContent(r)
  <2>1. SharedOK'
    BY <1>6 DEF BindContent, RelayInv, SharedOK, shared
  <2> QED
    BY <1>1, <1>6, <2>1, GotoAttempt DEF BindContent, At
<1> QED
  BY <1>3, <1>4, <1>5, <1>6

LEMMA ARequestSteps ==
  ASSUME RelayInv, NEW r \in Requests, Step(r)
  PROVE  RelayInv'
<1>1. CASE LoopHead(r)
  BY <1>1, LoopHeadStep
<1>2. CASE TryPreferred(r) \/ LookFill(r) \/ TryFill(r) \/ DropFill(r)
             \/ Match(r) \/ TryMatch(r) \/ TryAny(r)
  BY <1>2, SelectStep
<1>3. CASE AuthHeaders(r) \/ Success(r) \/ BindSession(r) \/ BindContent(r)
  BY <1>3, WithinStep
<1>4. CASE AuthFailure(r)
  BY <1>4, FailBeforeStep DEF AuthFailure
<1>5. CASE SendFailure(r)
  BY <1>5, FailBeforeStep DEF SendFailure
<1>6. CASE Unfill(r)
  <2>1. SharedOK'
    BY <1>6 DEF Unfill, DeleteIf, RelayInv, SharedOK
  <2> QED
    BY <1>6, <2>1, NextAttemptStep DEF Unfill, At
<1>7. ASSUME NEW res \in {"rejected", "failed", "invalid"}, UpstreamError(r, res)
      PROVE  RelayInv'
  BY <1>7, UpstreamErrorStep
<1>8. ASSUME NEW soon \in BOOLEAN, RetryHint(r, soon) PROVE RelayInv'
  BY <1>8, RetryHintStep
<1>9. CASE WaitForRetry(r)
  BY <1>9, WaitStep
<1>10. CASE Write(r)
  BY <1>10, WriteStep
<1>11. ASSUME NEW begun \in BOOLEAN, WriteFailure(r, begun) PROVE RelayInv'
  BY <1>11, WriteFailureStep
<1>12. CASE Cut(r)
  BY <1>12, CutStep
<1>13. CASE RecordSuccess(r)
  BY <1>13, RecordSuccessStep
<1> QED
  BY <1>1, <1>2, <1>3, <1>4, <1>5, <1>6, <1>7, <1>8, <1>9, <1>10, <1>11, <1>12, <1>13 DEF Step

LEMMA EnvironmentStep ==
  ASSUME RelayInv, Environment
  PROVE  RelayInv'
<1>1. ASSUME NEW r \in Requests, ClientGone(r) PROVE RelayInv'
  <2> DEFINE q == req[r]
             e == [q EXCEPT !.gone = TRUE]
  <2>1. Sound(q) /\ q.pc \notin {"idle", "end"} /\ SharedOK' /\ Set(r, e)
    BY <1>1 DEF RelayInv, ClientGone, SharedOK, shared
  <2>2. e \in Records /\ e.pc = q.pc /\ e.due = q.due /\ e.answers = q.answers
        /\ e.attempt = q.attempt /\ e.cred = q.cred /\ e.graced = q.graced /\ e.hinted = q.hinted
    BY <2>1 DEF Sound, Records
  <2> HIDE DEF q, e
  <2>3. Sound(e)
    BY <2>1, <2>2 DEF Sound, Attempts, Owes, Answers, Remembers
  <2> QED
    BY <2>1, <2>3, Lands
<1>2. ASSUME UNCHANGED req, SharedOK' PROVE RelayInv'
  BY <1>2 DEF RelayInv
<1>3. ASSUME NEW c \in Creds, PoolChange(c) PROVE RelayInv'
  BY <1>2, <1>3 DEF PoolChange, RelayInv, SharedOK
<1>4. ASSUME NEW c \in Creds \cup {None}, NEW k \in Keys, OtherSession(k, c) PROVE RelayInv'
  BY <1>2, <1>4 DEF OtherSession, RelayInv, SharedOK
<1>5. ASSUME NEW c \in Creds \cup {None}, OtherFill(c) PROVE RelayInv'
  BY <1>2, <1>5 DEF OtherFill, RelayInv, SharedOK
<1>6. ASSUME NEW n \in 0 .. MaxRetries, SetRetries(n) PROVE RelayInv'
  BY <1>2, <1>6 DEF SetRetries, RelayInv, SharedOK
<1> QED
  BY <1>1, <1>3, <1>4, <1>5, <1>6 DEF Environment

LEMMA RelayInvariant == Spec => []RelayInv
<1>1. Init => RelayInv
  <2> SUFFICES ASSUME Init PROVE RelayInv
    OBVIOUS
  <2>1. NewRequest \in Records /\ Sound(NewRequest)
    BY NewRequestIs, BetweenIsSound, RelayAssumption
       DEF Between, Places, Attempting, Remembers
  <2> QED
    BY <2>1 DEF Init, RelayInv, SharedOK
<1>2. RelayInv /\ [Next]_vars => RelayInv'
  <2> SUFFICES ASSUME RelayInv, [Next]_vars PROVE RelayInv'
    OBVIOUS
  <2>1. CASE UNCHANGED vars
    BY <2>1 DEF vars, shared, RelayInv, SharedOK
  <2> QED
    BY <2>1, StartStep, ARequestSteps, EnvironmentStep DEF Next
<1> QED
  BY <1>1, <1>2, PTL DEF Spec

-----------------------------------------------------------------------------

\* Every variable stays in its type; in particular a request is not tried more
\* often than the attempts allow (relay.go: the loop over attempts).
THEOREM TypeCorrect == Spec => []TypeOK
<1>1. RelayInv => TypeOK
  BY DEF RelayInv, SharedOK, Records, TypeOK
<1> QED
  BY <1>1, RelayInvariant, PTL

\* A request is answered once and none ends without an answer, unless the client
\* left (relay.go, handleSuccessfulResponse): writing begins the only answer.
THEOREM AnsweredOnce == Spec => []OneAnswer
<1>1. RelayInv => OneAnswer
  <2> SUFFICES ASSUME RelayInv, NEW r \in Requests
               PROVE  /\ req[r].answers <= 1
                      /\ req[r].pc = "end" /\ ~req[r].gone => req[r].answers = 1
    BY DEF OneAnswer
  <2>1. req[r].answers \in 0 .. 1
    BY DEF RelayInv, Records
  <2>2. Answers(req[r])
    BY DEF RelayInv, Sound
  <2> QED
    BY <2>1, <2>2 DEF Answers
<1> QED
  BY <1>1, RelayInvariant, PTL

\* Whatever way an attempt ends, its credential is reported on to the scheduler,
\* and once, however many attempts there are and whatever the others do.
THEOREM EveryAttemptReported == Spec => []ReportsMatchAttempts
<1>1. RelayInv => ReportsMatchAttempts
  <2> SUFFICES ASSUME RelayInv, NEW r \in Requests
               PROVE  /\ req[r].due \in {0, 1}
                      /\ \/ req[r].pc \in {"head", "wait", "unfill"}
                         \/ req[r].pc = "end" /\ ~req[r].gone
                         => req[r].due = 0
    BY DEF ReportsMatchAttempts
  <2>1. req[r].due \in 0 .. 1
    BY DEF RelayInv, Records
  <2>2. Owes(req[r])
    BY DEF RelayInv, Sound
  <2> QED
    BY <2>1, <2>2 DEF Owes, Attempting
<1> QED
  BY <1>1, RelayInvariant, PTL

-----------------------------------------------------------------------------

\* Steps write the record of their own request.
LEMMA OwnRecord ==
  ASSUME RelayInv, NEW r \in Requests, NEW s \in Requests, r # s, Start(s) \/ Step(s)
  PROVE  req'[r] = req[r]
<1> USE DEF RelayInv, Set, Goto
<1>1. CASE Start(s)
  BY <1>1 DEF Start, Refuse, Receive
<1>2. CASE LoopHead(s) \/ TryPreferred(s) \/ LookFill(s) \/ TryFill(s) \/ DropFill(s)
  BY <1>2 DEF LoopHead, TryPreferred, LookFill, TryFill, DropFill
<1>3. CASE Match(s) \/ TryMatch(s) \/ TryAny(s)
  BY <1>3 DEF Match, TryMatch, TryAny
<1>4. CASE AuthHeaders(s) \/ AuthFailure(s) \/ SendFailure(s) \/ Unfill(s)
  BY <1>4 DEF AuthHeaders, AuthFailure, SendFailure, FailBefore, Unfill
<1>5. ASSUME NEW res \in {"rejected", "failed", "invalid"}, UpstreamError(s, res)
      PROVE  req'[r] = req[r]
  BY <1>5 DEF UpstreamError
<1>6. ASSUME NEW soon \in BOOLEAN, RetryHint(s, soon) PROVE req'[r] = req[r]
  BY <1>6 DEF RetryHint
<1>7. CASE WaitForRetry(s) \/ Success(s) \/ Write(s) \/ Cut(s)
  BY <1>7 DEF WaitForRetry, Success, Write, Cut
<1>8. ASSUME NEW begun \in BOOLEAN, WriteFailure(s, begun) PROVE req'[r] = req[r]
  BY <1>8 DEF WriteFailure
<1>9. CASE BindSession(s) \/ BindContent(s) \/ RecordSuccess(s)
  BY <1>9 DEF BindSession, BindContent, RecordSuccess
<1> QED
  BY <1>1, <1>2, <1>3, <1>4, <1>5, <1>6, <1>7, <1>8, <1>9 DEF Step

\* From the upstream's answer a request goes on to wait by a grace only.
LEMMA OnlyGraceWaits ==
  ASSUME RelayInv, [Next]_vars, NEW r \in Requests, At(r, "send"), req'[r].pc = "wait"
  PROVE  ~GraceUsed(req[r])
<1> DEFINE q == req[r]
<1>1. q \in Records /\ Sound(q) /\ q.pc = "send" /\ req' # req
  BY DEF RelayInv, At
<1>2. q.due = 1 /\ q.cred \in Creds
  BY <1>1, AttemptIs DEF Attempting
<1>3. ~Environment
  <2>1. ASSUME NEW s \in Requests, ClientGone(s) PROVE FALSE
    <3>1. req'[s] = [req[s] EXCEPT !.gone = TRUE] /\ \A t \in Requests \ {s} : req'[t] = req[t]
      BY <2>1 DEF ClientGone, Set, RelayInv
    <3>2. req'[s].pc = req[s].pc
      BY <3>1 DEF RelayInv, Records
    <3> QED
      BY <1>1, <3>1, <3>2
  <2> QED
    BY <1>1, <2>1 DEF Environment, PoolChange, OtherSession, OtherFill, SetRetries
<1>4. Start(r) \/ Step(r)
  BY <1>1, <1>3, OwnRecord DEF Next, vars
<1>5. \A e : Set(r, e) => e.pc = "wait"
  BY DEF Set, RelayInv
<1>6. CASE SendFailure(r) \/ \E res \in {"rejected", "failed", "invalid"} : UpstreamError(r, res)
  <2>1. \A res : Reported(q, res) \in Records
    BY <1>1, <1>2, ReportedIs
  <2>2. \A res : Remember(Reported(q, res)) \in Records
    BY <2>1, RememberIs
  <2>3. \A n \in Records : [n EXCEPT !.pc = "unfill"].pc = "unfill"
    BY GotoIs DEF Places
  <2>4. Silent(q).pc = "end"
    BY <1>1, SilentIs
  <2>5. CASE SendFailure(r)
    BY <1>5, <2>2, <2>3, <2>4, <2>5 DEF SendFailure, FailBefore
  <2>6. ASSUME NEW res \in {"rejected", "failed", "invalid"}, UpstreamError(r, res) PROVE FALSE
    <3> DEFINE n == Remember(Reported(q, res))
    <3>1. n \in Records /\ n.answers = 0
      BY <1>1, <2>6, ToldIs
    <3>2. Set(r, [ClearGrace(n) EXCEPT !.pc = "unfill"]) \/ Set(r, Answered(n))
      BY <2>6 DEF UpstreamError
    <3> HIDE DEF n
    <3> QED
      BY <1>5, <2>3, <3>1, <3>2, ClearGraceIs, AnsweredIs
  <2> QED
    BY <1>6, <2>5, <2>6
<1>7. ASSUME NEW soon \in BOOLEAN, RetryHint(r, soon) PROVE ~GraceUsed(q)
  <2> SUFFICES ASSUME GraceUsed(q) PROVE FALSE
    OBVIOUS
  <2> DEFINE n == Remember(Reported(q, "throttled"))
  <2>1. n \in Records
    BY <1>1, ToldIs
  <2>2. Set(r, [ClearGrace(n) EXCEPT !.pc = "unfill"])
    BY <1>7 DEF RetryHint
  <2> DEFINE m == ClearGrace(n)
  <2>3. m \in Records
    BY <2>1, ClearGraceIs
  <2>4. Set(r, [m EXCEPT !.pc = "unfill"])
    BY <2>2
  <2> HIDE DEF m
  <2>5. [m EXCEPT !.pc = "unfill"].pc = "unfill"
    BY <2>3, GotoIs DEF Places
  <2> QED
    BY <1>5, <2>4, <2>5
<1>8. CASE AuthHeaders(r) \/ Success(r)
  BY <1>1, <1>5, <1>8, GotoIs DEF AuthHeaders, Success, At, Goto, Places
<1> QED
  BY <1>1, <1>4, <1>6, <1>7, <1>8
     DEF At, Start, Refuse, Receive, Step, LoopHead, TryPreferred, LookFill, TryFill, DropFill,
         Match, TryMatch, TryAny, AuthFailure, FailBefore, Unfill, WaitForRetry, Write, WriteFailure,
         Cut, BindSession, BindContent, RecordSuccess

\* A credential's hint to wait is honoured once: the grace retry that gets it again
\* reports the credential as throttled (handleRetryHintDecision).
THEOREM OneGrace == Spec => GraceOnce
<1> DEFINE A == \A r \in Requests : At(r, "send") /\ req'[r].pc = "wait"
                                      => req[r].hinted # req[r].cred
<1>1. RelayInv /\ [Next]_vars => A
  <2> SUFFICES ASSUME RelayInv, [Next]_vars, NEW r \in Requests, At(r, "send"), req'[r].pc = "wait"
               PROVE  req[r].hinted # req[r].cred
    OBVIOUS
  <2>1. req[r].graced # req[r].cred
    BY OnlyGraceWaits DEF GraceUsed
  <2>2. req[r].cred \in Creds /\ Remembers(req[r])
    BY AttemptIs DEF RelayInv, At, Attempting
  <2> QED
    BY <2>1, <2>2, RelayAssumption DEF Remembers
<1>2. RelayInv /\ [Next]_vars => [A]_vars
  BY <1>1
<1> QED
  BY <1>2, RelayInvariant, PTL DEF Spec, GraceOnce

\* A request unbinds the fill-first model from its own credential only
\* (fillFirstCache.deleteIf), however late its failure comes.
THEOREM OwnUnbound == Spec => UnbindsItsOwn
<1> DEFINE A == fillFirst # None /\ fillFirst' # fillFirst =>
                  /\ fillFirst' = None
                  /\ \A r \in Requests : req'[r] # req[r] => req[r].cred = fillFirst
<1>1. RelayInv /\ [Next]_vars => A
  <2> SUFFICES ASSUME RelayInv, [Next]_vars, fillFirst # None, fillFirst' # fillFirst
               PROVE  /\ fillFirst' = None
                      /\ \A r \in Requests : req'[r] # req[r] => req[r].cred = fillFirst
    OBVIOUS
  <2>1. CASE Environment
    BY <2>1 DEF Environment, ClientGone, PoolChange, OtherSession, OtherFill, SetRetries, shared
  <2>2. ASSUME NEW s \in Requests, DropFill(s) \/ Unfill(s) \/ \E b \in BOOLEAN : WriteFailure(s, b)
        PROVE  fillFirst' = DeleteIf(req[s].cred)
    <3>1. \A b \in BOOLEAN : [req[s] EXCEPT !.answers = IF b THEN @ + 1 ELSE @].cred = req[s].cred
      BY DEF RelayInv, Records
    <3> QED
      BY <2>2, <3>1 DEF DropFill, Unfill, WriteFailure
  <2>3. ASSUME NEW s \in Requests, Start(s) \/ Step(s)
        PROVE  fillFirst' = DeleteIf(req[s].cred)
    BY <2>2, <2>3
       DEF shared, Start, Refuse, Receive, Step, LoopHead, TryPreferred, LookFill, TryFill,
           Match, TryMatch, TryAny, AuthHeaders, AuthFailure, SendFailure, FailBefore,
           UpstreamError, RetryHint, WaitForRetry, Success, Write, Cut,
           BindSession, BindContent, RecordSuccess
  <2>4. ASSUME NEW s \in Requests, Start(s) \/ Step(s)
        PROVE  /\ fillFirst' = None
               /\ \A r \in Requests : req'[r] # req[r] => req[r].cred = fillFirst
    BY <2>3, <2>4, OwnRecord DEF DeleteIf
  <2> QED
    BY <2>1, <2>4 DEF Next, vars, shared
<1>2. RelayInv /\ [Next]_vars => [A]_vars
  BY <1>1
<1> QED
  BY <1>2, RelayInvariant, PTL DEF Spec, UnbindsItsOwn

-----------------------------------------------------------------------------
(* The pools.  The argument is the same in each.  A type invariant says    *)
(* where a goroutine may stand and what it carries there.  Knows then says *)
(* of a rebuild on its way that what it carries and should not is in       *)
(* missed; it is kept by what goes on meanwhile (NewsComes) and by the     *)
(* rebuild's own steps.                                                    *)

-----------------------------------------------------------------------------
(* GeminiPool *)

\* Where a goroutine of the pool may stand: it is about a credential unless all
\* it does is rebuild, and it carries a snapshot where it needs one.
GRebuildPCs == {"idle", "refresh", "join", "list", "build", "merge", "store", "clear"}
GMidPCs     == {"build", "merge", "store"}
GThens      == {"idle", "finish", "apply", "disable", "last", "unmark", "validate", "spawnProbe"}
GFrames     == [pc : G!PCs, op : G!AllOps \cup {"none", "wake", "probe", "validate"},
               c : PoolCreds \cup {None}, then : G!PCs, at : G!Times, work : G!Snapshots \cup {None}]
GMayStand(pc, c, then, work) ==
  /\ then \in GThens
  /\ c \in PoolCreds \/ (pc \in GRebuildPCs /\ then = "idle")
  /\ pc \in GMidPCs \cup G!Copying => work \in G!Snapshots
  /\ pc \in G!Copying => work # None
GPlaced(r) == r \in GFrames /\ GMayStand(r.pc, r.c, r.then, r.work)
GStanding  == me = [p \in Procs |-> me[p]] /\ \A p \in Procs : GPlaced(me[p])

GRowsTyped ==
  /\ db \in [PoolCreds -> G!CredRows]
  /\ throttle \in [PoolCreds -> [n : 0 .. Threshold, until : G!Times]]
  /\ checking \subseteq PoolCreds /\ probing \subseteq PoolCreds
  /\ clock \in 0 .. MaxClock /\ flight \in Procs \cup {None}
  /\ spawned \subseteq G!Jobs /\ mix \in PoolMixes
  /\ missed \in [Procs -> SUBSET PoolCreds]
GPoolTyped == avail \in G!Snapshots \cup {None}
GTypeInv   == GStanding /\ GRowsTyped /\ GPoolTyped

LEMMA GClocks ==
  /\ 0 \in G!Times /\ 1 \in G!Times /\ G!NoState \in [n : 0 .. Threshold, until : G!Times]
  /\ \A x \in 0 .. MaxClock : x \in G!Times /\ x + 1 \in G!Times /\ x \in Nat
  /\ G!Times \subseteq Nat
  BY PoolAssumption DEF PoolAssumption, G!Times, G!NoState

LEMMA GSnapshotRows ==
  ASSUME NEW X \in G!Snapshots
  PROVE  DOMAIN X \subseteq PoolCreds /\ \A c \in DOMAIN X : X[c] \in G!Rows
<1>1. PICK C \in SUBSET PoolCreds : X \in [C -> G!Rows]
  BY DEF G!Snapshots
<1> QED
  BY <1>1

LEMMA GRowsSnapshot ==
  ASSUME NEW C \in SUBSET PoolCreds, NEW X \in [C -> G!Rows]
  PROVE  X \in G!Snapshots
  BY DEF G!Snapshots

LEMMA GThensArePlaces == GThens \subseteq G!PCs
  BY DEF GThens, G!PCs

LEMMA GScoredRow ==
  ASSUME NEW row \in G!Rows, NEW now
  PROVE  G!Scored(row, now) \in G!Rows
<1> DEFINE up == now >= row.until
<1>1. G!Scored(row, now) = [row EXCEPT !.up = up] /\ up \in BOOLEAN
  BY DEF G!Scored
<1> HIDE DEF up
<1> QED
  BY <1>1 DEF G!Rows

LEMMA GIdlePlaced == GPlaced(G!Idle)
  BY GClocks DEF GPlaced, GMayStand, GFrames, G!Idle, G!PCs, GRebuildPCs, GMidPCs,
     G!Copying, GThens

LEMMA GOneStands ==
  ASSUME GStanding, NEW p \in Procs, NEW r, GPlaced(r), me' = [me EXCEPT ![p] = r]
  PROVE  GStanding'
<1>1. \A u \in Procs : me'[u] = IF u = p THEN r ELSE me[u]
  BY DEF GStanding
<1>2. me' = [u \in Procs |-> me'[u]]
  BY <1>1 DEF GStanding
<1>3. \A u \in Procs : GPlaced(me'[u])
  BY <1>1 DEF GStanding
<1> QED
  BY <1>2, <1>3 DEF GStanding, GPlaced, GMayStand, GRebuildPCs, GMidPCs, G!Copying, GThens,
     GFrames,
     G!PCs, G!AllOps, G!Times, G!Snapshots, G!Rows

LEMMA GGotoStands ==
  ASSUME GStanding, NEW p \in Procs, NEW x, G!Goto(p, x), x \in G!PCs \ (GMidPCs \cup G!Copying),
         me[p].c \in PoolCreds
  PROVE  GStanding'
<1> DEFINE r == [me[p] EXCEPT !.pc = x]
<1>1. GPlaced(r)
  BY DEF GStanding, GPlaced, GFrames, GMayStand
<1>2. me' = [me EXCEPT ![p] = r]
  BY DEF G!Goto
<1> HIDE DEF r
<1> QED
  BY <1>1, <1>2, GOneStands

LEMMA GCallStands ==
  ASSUME GStanding, NEW p \in Procs, NEW x, NEW y, G!Call(p, x, y),
         x \in G!PCs \ (GMidPCs \cup G!Copying), y \in GThens, me[p].c \in PoolCreds
  PROVE  GStanding'
<1> DEFINE r == [me[p] EXCEPT !.pc = x, !.then = y]
<1>0. me[p] \in GFrames /\ y \in G!PCs
  BY GThensArePlaces DEF GStanding, GPlaced
<1>1. r \in GFrames /\ r.pc = x /\ r.then = y /\ r.c = me[p].c
  BY <1>0 DEF GFrames
<1>2. me' = [me EXCEPT ![p] = r]
  BY DEF G!Call
<1>3. GPlaced(r)
  BY <1>1 DEF GPlaced, GMayStand
<1> HIDE DEF r
<1> QED
  BY <1>2, <1>3, GOneStands

LEMMA GReturnStands ==
  ASSUME GStanding, NEW p \in Procs, G!Return(p)
  PROVE  GStanding'
  BY GIdlePlaced, GOneStands DEF G!Return

\* What a routine that returns goes back to.
LEMMA GBackPlaced ==
  ASSUME NEW r, GPlaced(r)
  PROVE  GPlaced(G!Back(r)) /\ G!Back(r).pc \in GThens
<1>1. CASE r.then = "idle"
  BY <1>1, GIdlePlaced DEF G!Back, G!Idle, GThens
<1>2. CASE r.then # "idle"
  <2> DEFINE s == [r EXCEPT !.pc = r.then, !.then = "idle", !.at = 0, !.work = None]
  <2>1. G!Back(r) = s
    BY <1>2 DEF G!Back
  <2>2. s \in GFrames /\ s.pc = r.then /\ s.then = "idle" /\ s.c = r.c /\ r.c \in PoolCreds /\ r.then \in GThens
    BY <1>2, GClocks DEF GPlaced, GMayStand, GFrames, GThens, G!PCs
  <2> HIDE DEF s
  <2> QED
    BY <2>1, <2>2 DEF GPlaced, GMayStand, GThens, GMidPCs, G!Copying
<1> QED
  BY <1>1, <1>2

LEMMA GResumeStands ==
  ASSUME GStanding, NEW p \in Procs, G!Resume(p)
  PROVE  GStanding'
  BY GBackPlaced, GOneStands DEF G!Resume, GStanding

LEMMA GLeaveStands ==
  ASSUME GStanding, NEW p \in Procs, G!LeaveRefresh(p)
  PROVE  GStanding'
<1>1. me' = [u \in Procs |-> me'[u]] /\ \A u \in Procs : me'[u] = me[u] \/ me'[u] = G!Back(me[u])
  BY DEF G!LeaveRefresh
<1>2. \A u \in Procs : GPlaced(me'[u])
  BY <1>1, GBackPlaced DEF GStanding
<1> QED
  BY <1>1, <1>2 DEF GStanding, GPlaced, GMayStand, GRebuildPCs, GMidPCs, G!Copying, GThens,
     GFrames,
     G!PCs, G!AllOps, G!Times, G!Snapshots, G!Rows

\* A goroutine at work on anything but a rebuild is about a credential.
LEMMA GOnCredential ==
  ASSUME GStanding, NEW p \in Procs, me[p].pc \notin GRebuildPCs
  PROVE  me[p].c \in PoolCreds
  BY DEF GStanding, GPlaced, GMayStand

LEMMA GStandStep ==
  ASSUME GTypeInv, NEW p \in Procs, G!Step(p)
  PROVE  GStanding'
<1>0. /\ GStanding /\ GRowsTyped /\ GPoolTyped /\ GPlaced(me[p]) /\ me[p] \in GFrames
  BY DEF GTypeInv, GStanding, GPlaced
<1>1. CASE G!EnterRefresh(p)
  <2>1. PICK x \in {"list", "join"} : G!Goto(p, x)
    BY <1>1 DEF G!EnterRefresh
  <2> DEFINE r == [me[p] EXCEPT !.pc = x]
  <2>2. r \in GFrames /\ r.pc = x /\ r.c = me[p].c /\ r.then = me[p].then /\ me[p].pc = "refresh"
    BY <1>0, <1>1, <2>1 DEF G!EnterRefresh, G!At, GFrames, G!PCs
  <2>3. me' = [me EXCEPT ![p] = r]
    BY <2>1 DEF G!Goto
  <2> HIDE DEF r
  <2>4. GPlaced(r)
    BY <1>0, <2>1, <2>2 DEF GPlaced, GMayStand, GRebuildPCs, GMidPCs, G!Copying
  <2> QED
    BY <1>0, <2>3, <2>4, GOneStands
<1>2. CASE G!ListRows(p)
  <2> DEFINE w == [c \in G!Listed |-> [up |-> FALSE, until |-> db[c].until]]
             r == [me[p] EXCEPT !.pc = "build", !.work = w]
  <2>1. CASE G!LeaveRefresh(p)
    BY <1>0, <2>1, GLeaveStands
  <2>2. CASE me' = [me EXCEPT ![p] = r]
    <3>1. w \in [G!Listed -> G!Rows] /\ G!Listed \in SUBSET PoolCreds
      BY <1>0 DEF GRowsTyped, G!Listed, G!CredRows, G!Rows
    <3>2. w \in G!Snapshots
      BY <3>1, GRowsSnapshot
    <3> HIDE DEF w
    <3>3. r \in GFrames /\ r.pc = "build" /\ r.work = w /\ r.c = me[p].c /\ r.then = me[p].then
          /\ me[p].pc = "list"
      BY <1>0, <1>2, <3>2 DEF G!ListRows, G!At, GFrames, G!PCs
    <3> HIDE DEF r
    <3>4. GPlaced(r)
      BY <1>0, <3>2, <3>3 DEF GPlaced, GMayStand, GRebuildPCs, GMidPCs, G!Copying
    <3> QED
      BY <1>0, <2>2, <3>4, GOneStands
  <2> QED
    BY <1>2, <2>1, <2>2 DEF G!ListRows
<1>3. CASE G!BuildRows(p)
  <2> DEFINE W == me[p].work
             C == DOMAIN W \ checking
             w == [c \in C |-> G!Scored(W[c], clock)]
             r == [me[p] EXCEPT !.pc = "merge", !.at = clock, !.work = w]
  <2>1. W \in G!Snapshots /\ me[p].pc = "build"
    BY <1>0, <1>3 DEF G!BuildRows, G!At, GPlaced, GMayStand, GMidPCs
  <2>2. C \in SUBSET PoolCreds /\ \A c \in C : G!Scored(W[c], clock) \in G!Rows
    BY <2>1, GSnapshotRows, GScoredRow
  <2>3. w \in G!Snapshots
    BY <2>2, GRowsSnapshot
  <2>4. me' = [me EXCEPT ![p] = r]
    BY <1>3 DEF G!BuildRows, G!Unchecked
  <2> HIDE DEF w
  <2>5. r \in GFrames /\ r.pc = "merge" /\ r.work = w /\ r.c = me[p].c /\ r.then = me[p].then
    BY <1>0, <2>3, GClocks DEF GRowsTyped, GFrames, G!PCs
  <2> HIDE DEF r
  <2>6. GPlaced(r)
    BY <1>0, <2>1, <2>3, <2>5 DEF GPlaced, GMayStand, GRebuildPCs, GMidPCs, G!Copying
  <2> QED
    BY <1>0, <2>4, <2>6, GOneStands
<1>4. CASE G!MergeThrottles(p)
  <2> DEFINE W == me[p].work
             w == [c \in DOMAIN W |-> G!MergedRow(W[c], throttle[c].until, me[p].at)]
             r == [me[p] EXCEPT !.pc = "store", !.work = w]
  <2>1. W \in G!Snapshots /\ me[p].pc = "merge"
    BY <1>0, <1>4 DEF G!MergeThrottles, G!At, GPlaced, GMayStand, GMidPCs
  <2>2. DOMAIN W \in SUBSET PoolCreds /\ \A c \in DOMAIN W : W[c] \in G!Rows /\ throttle[c].until \in G!Times
    BY <1>0, <2>1, GSnapshotRows DEF GRowsTyped
  <2>3. \A c \in DOMAIN W : G!MergedRow(W[c], throttle[c].until, me[p].at) \in G!Rows
    BY <2>2 DEF G!MergedRow, G!Rows
  <2>4. w \in G!Snapshots
    BY <2>2, <2>3, GRowsSnapshot
  <2>5. me' = [me EXCEPT ![p] = r]
    BY <1>4 DEF G!MergeThrottles
  <2> HIDE DEF w
  <2>6. r \in GFrames /\ r.pc = "store" /\ r.work = w /\ r.c = me[p].c /\ r.then = me[p].then
    BY <1>0, <2>4 DEF GFrames, G!PCs
  <2> HIDE DEF r
  <2>7. GPlaced(r)
    BY <1>0, <2>1, <2>4, <2>6 DEF GPlaced, GMayStand, GRebuildPCs, GMidPCs, G!Copying
  <2> QED
    BY <1>0, <2>5, <2>7, GOneStands
<1>5. CASE G!StoreRows(p)
  <2> DEFINE r == [me[p] EXCEPT !.pc = "clear", !.work = None, !.at = 0]
  <2>1. r \in GFrames /\ r.pc = "clear" /\ r.c = me[p].c /\ r.then = me[p].then /\ me[p].pc = "store"
    BY <1>0, <1>5, GClocks DEF G!StoreRows, G!At, GFrames, G!PCs
  <2>2. me' = [me EXCEPT ![p] = r]
    BY <1>5 DEF G!StoreRows
  <2> HIDE DEF r
  <2>3. GPlaced(r)
    BY <1>0, <2>1 DEF GPlaced, GMayStand, GRebuildPCs, GMidPCs, G!Copying
  <2> QED
    BY <1>0, <2>2, <2>3, GOneStands
<1>6. CASE G!ClearExpired(p)
  BY <1>0, <1>6, GLeaveStands DEF G!ClearExpired
<1>7. CASE G!Load(p) \/ G!StoreEdit(p)
  <2>1. CASE G!Resume(p)
    BY <1>0, <2>1, GResumeStands
  <2>2. CASE G!Load(p) /\ avail # None /\ ~G!Resume(p)
    <3> DEFINE x == G!Storing[me[p].pc]
               r == [me[p] EXCEPT !.pc = x, !.work = avail]
    <3>1. x \in G!Copying /\ me[p].c \in PoolCreds /\ avail \in G!Snapshots
      BY <1>0, <2>2, GOnCredential DEF G!Load, G!Storing, G!Copying, GPoolTyped, GRebuildPCs
    <3>2. me' = [me EXCEPT ![p] = r]
      BY <2>2 DEF G!Load
    <3> HIDE DEF x
    <3>3. r \in GFrames /\ r.pc = x /\ r.work = avail /\ r.c = me[p].c /\ r.then = me[p].then
      BY <1>0, <3>1 DEF GFrames, G!PCs, G!Copying
    <3> HIDE DEF r
    <3>4. GPlaced(r)
      BY <1>0, <2>2, <3>1, <3>3 DEF GPlaced, GMayStand
    <3> QED
      BY <1>0, <3>2, <3>4, GOneStands
  <2> QED
    BY <1>7, <2>1, <2>2 DEF G!Load, G!StoreEdit
<1>8. ASSUME NEW s, me' = [me EXCEPT ![p] = s], s \in GFrames, me[p].c \in PoolCreds, s.c = me[p].c,
             s.pc \notin GMidPCs \cup G!Copying, s.then \in GThens
      PROVE  GStanding'
  <2>1. GPlaced(s)
    BY <1>8 DEF GPlaced, GMayStand
  <2> QED
    BY <1>0, <1>8, <2>1, GOneStands
<1>9. ASSUME NEW x, NEW y \in GThens, NEW at \in G!Times, x \in G!PCs \ (GMidPCs \cup G!Copying), me[p].c \in PoolCreds,
             me' = [me EXCEPT ![p] = [@ EXCEPT !.pc = x, !.at = at, !.then = y]]
      PROVE  GStanding'
  <2> DEFINE s == [me[p] EXCEPT !.pc = x, !.at = at, !.then = y]
  <2>0. y \in G!PCs
    BY GThensArePlaces
  <2>1. s \in GFrames /\ s.pc = x /\ s.c = me[p].c /\ s.then = y
    BY <1>0, <1>9, <2>0 DEF GFrames
  <2>2. me' = [me EXCEPT ![p] = s]
    BY <1>9
  <2> HIDE DEF s
  <2> QED
    BY <1>8, <1>9, <2>1, <2>2
<1>10. \A at \in G!Times, x \in G!PCs \ (GMidPCs \cup G!Copying) : me[p].c \in PoolCreds /\
             me' = [me EXCEPT ![p] = [@ EXCEPT !.pc = x, !.at = at]] => GStanding'
  <2> SUFFICES ASSUME NEW at \in G!Times, NEW x \in G!PCs \ (GMidPCs \cup G!Copying), me[p].c \in PoolCreds,
                      me' = [me EXCEPT ![p] = [@ EXCEPT !.pc = x, !.at = at]]
               PROVE  GStanding'
    OBVIOUS
  <2>1. me' = [me EXCEPT ![p] = [@ EXCEPT !.pc = x, !.at = at, !.then = me[p].then]] /\ me[p].then \in GThens
    BY <1>0 DEF GFrames, GPlaced, GMayStand
  <2> QED
    BY <1>9, <2>1
<1>11. CASE G!RecordSuccess(p) \/ G!ThrottleInDB(p) \/ G!RememberThrottle(p) \/ G!CheckUnauthorized(p)
            \/ G!Validate(p) \/ G!FinishValidation(p) \/ G!RejectCredential(p) \/ G!DisableInDB(p)
  <2>1. me[p].c \in PoolCreds
    BY <1>0, <1>11, GOnCredential DEF G!RecordSuccess, G!ThrottleInDB, G!RememberThrottle,
       G!CheckUnauthorized, G!Validate, G!FinishValidation, G!RejectCredential,
       G!DisableInDB, G!At, GRebuildPCs
  <2> QED
    BY <1>0, <1>11, <2>1, GGotoStands, GCallStands, GReturnStands, GResumeStands
       DEF G!RecordSuccess, G!ThrottleInDB, G!RememberThrottle, G!CheckUnauthorized,
          G!Validate,
       G!FinishValidation, G!RejectCredential, G!DisableInDB, G!PCs, GMidPCs, G!Copying,
       GThens
<1>12. CASE G!MarkProbing(p) \/ G!SpawnProbe(p) \/ G!CompleteProbe(p) \/ G!FetchQuota(p)
            \/ G!RefreshPlanType(p) \/ G!ListAvailable(p) \/ G!AdminSetStatus(p) \/ G!LastRefresh(p)
  <2>1. me[p].c \in PoolCreds
    BY <1>0, <1>12, GOnCredential DEF G!MarkProbing, G!SpawnProbe, G!CompleteProbe,
       G!FetchQuota,
       G!RefreshPlanType, G!ListAvailable, G!AdminSetStatus, G!LastRefresh, G!At,
       GRebuildPCs
  <2>2. CASE G!LastRefresh(p)
    <3>1. PICK x \in {"list", "refresh"}, y \in {"finish", "idle"} : G!Call(p, x, y)
      BY <2>2 DEF G!LastRefresh
    <3> QED
      BY <1>0, <2>1, <3>1, GCallStands DEF G!PCs, GMidPCs, G!Copying, GThens
  <2> QED
    BY <1>0, <1>12, <2>1, <2>2, GGotoStands, GCallStands, GReturnStands
       DEF G!MarkProbing, G!SpawnProbe, G!CompleteProbe, G!FetchQuota, G!RefreshPlanType,
          G!ListAvailable,
       G!AdminSetStatus, G!PCs, GMidPCs, G!Copying, GThens
<1>13. CASE G!CountFailure(p) \/ G!ProbeQuota(p)
  <2>1. me[p].c \in PoolCreds /\ clock + 1 \in G!Times
    BY <1>0, <1>13, GOnCredential, GClocks DEF G!CountFailure, G!ProbeQuota, G!At,
       GRebuildPCs, GRowsTyped
  <2>2. \/ G!Return(p) \/ G!Goto(p, "apply")
        \/ me' = [me EXCEPT ![p] = [@ EXCEPT !.pc = "failDB", !.at = clock + 1]]
        \/ me' = [me EXCEPT ![p] = [@ EXCEPT !.pc = "remember", !.at = clock + 1, !.then = "unmark"]]
    BY <1>13 DEF G!CountFailure, G!ProbeQuota
  <2> QED
    BY <1>0, <1>9, <1>10, <2>1, <2>2, GGotoStands, GReturnStands DEF G!PCs, GMidPCs,
       G!Copying, GThens
<1>14. CASE G!ApplyQuota(p)
  <2>1. me[p].c \in PoolCreds /\ 0 \in G!Times /\ 1 \in G!Times
    BY <1>0, <1>14, GOnCredential, GClocks DEF G!ApplyQuota, G!At, GRebuildPCs
  <2>2. PICK x \in {"unmark", "upsert"}, at \in {0, 1} :
          me' = [me EXCEPT ![p].pc = x, ![p].at = at]
    BY <1>14 DEF G!ApplyQuota
  <2>3. me' = [me EXCEPT ![p] = [@ EXCEPT !.pc = x, !.at = at]]
    BY <1>0, <2>2 DEF GStanding
  <2> QED
    BY <1>10, <2>1, <2>2, <2>3 DEF G!PCs, GMidPCs, G!Copying
<1>15. CASE G!UpsertQuota(p)
  <2>1. me[p].c \in PoolCreds /\ 0 \in G!Times
    BY <1>0, <1>15, GOnCredential, GClocks DEF G!UpsertQuota, G!At, GRebuildPCs
  <2>2. CASE \E x \in {"refresh", "last"} :
               me' = [me EXCEPT ![p] = [me[p] EXCEPT !.at = 0, !.then = "last", !.pc = x]]
    <3>1. PICK x \in {"refresh", "last"} :
               me' = [me EXCEPT ![p] = [me[p] EXCEPT !.at = 0, !.then = "last", !.pc = x]]
      BY <2>2
    <3>2. me' = [me EXCEPT ![p] = [@ EXCEPT !.pc = x, !.at = 0, !.then = "last"]]
      BY <1>0, <3>1 DEF GStanding, GFrames
    <3> QED
      BY <1>9, <2>1, <3>1, <3>2 DEF G!PCs, GMidPCs, G!Copying, GThens
  <2>3. CASE me' = [me EXCEPT ![p] = [me[p] EXCEPT !.pc = "last", !.at = 0]]
    BY <1>10, <2>1, <2>3 DEF G!PCs, GMidPCs, G!Copying
  <2> QED
    BY <1>15, <2>2, <2>3 DEF G!UpsertQuota
<1> QED
  BY <1>1, <1>2, <1>3, <1>4, <1>5, <1>6, <1>7, <1>11, <1>12, <1>13, <1>14, <1>15 DEF G!Step

LEMMA GRowsStep ==
  ASSUME GTypeInv, NEW p \in Procs, G!Step(p), UNCHANGED mix
  PROVE  GRowsTyped'
<1>0. /\ GStanding /\ GRowsTyped /\ me[p] \in GFrames /\ clock' = clock
      /\ me[p].pc \notin GRebuildPCs => me[p].c \in PoolCreds
      /\ me[p].at \in G!Times /\ clock \in G!Times
  BY GOnCredential, GClocks DEF GTypeInv, GStanding, GPlaced, GFrames, GRowsTyped, G!Step,
     G!EnterRefresh,
     G!ListRows, G!BuildRows,
     G!MergeThrottles, G!StoreRows, G!ClearExpired, G!Load, G!StoreEdit, G!RecordSuccess,
     G!CountFailure,
     G!ThrottleInDB, G!RememberThrottle, G!CheckUnauthorized, G!Validate,
     G!FinishValidation,
     G!RejectCredential, G!DisableInDB, G!MarkProbing, G!SpawnProbe, G!ProbeQuota,
     G!CompleteProbe,
     G!FetchQuota, G!RefreshPlanType, G!ApplyQuota, G!UpsertQuota, G!LastRefresh,
     G!ListAvailable,
     G!AdminSetStatus
<1> DEFINE States == [n : 0 .. Threshold, until : G!Times]
<1>1. throttle' \in [PoolCreds -> States]
  <2>0. G!NoState \in States /\ throttle \in [PoolCreds -> States]
    BY <1>0, GClocks DEF GRowsTyped
  <2>1. ASSUME NEW c, NEW st \in States, throttle' = [throttle EXCEPT ![c] = st]
        PROVE  throttle' \in [PoolCreds -> States]
    BY <2>0, <2>1
  <2>2. CASE G!RecordSuccess(p) \/ G!CheckUnauthorized(p) \/ G!RejectCredential(p)
    BY <2>0, <2>1, <2>2 DEF G!RecordSuccess, G!CheckUnauthorized, G!RejectCredential
  <2>3. CASE G!RememberThrottle(p)
    BY <1>0, <2>0, <2>3 DEF G!RememberThrottle
  <2>4. CASE G!CountFailure(p)
    <3>1. me[p].c \in PoolCreds
      BY <1>0, <2>4 DEF G!CountFailure, G!At, GRebuildPCs
    <3> DEFINE n == (IF G!Expired(throttle[me[p].c].until) THEN 0 ELSE throttle[me[p].c].n) + 1
               k == IF n > Threshold THEN Threshold ELSE n
    <3>2. k \in 0 .. Threshold
      BY <2>0, <3>1, PoolAssumption DEF PoolAssumption
    <3>3. throttle' = [throttle EXCEPT ![me[p].c].n = k]
      BY <2>4 DEF G!CountFailure
    <3> HIDE DEF k
    <3> QED
      BY <2>0, <3>1, <3>2, <3>3
  <2>5. CASE G!ClearExpired(p)
    BY <2>0, <2>5 DEF G!ClearExpired
  <2>6. CASE UNCHANGED throttle
    BY <2>0, <2>6
  <2> QED
    BY <2>2, <2>3, <2>4, <2>5, <2>6 DEF G!Step, G!EnterRefresh, G!ListRows, G!BuildRows,
     G!MergeThrottles, G!StoreRows, G!Load, G!StoreEdit, G!ThrottleInDB, G!Validate,
     G!FinishValidation,
     G!DisableInDB, G!MarkProbing, G!SpawnProbe, G!ProbeQuota, G!CompleteProbe,
     G!FetchQuota,
     G!RefreshPlanType, G!ApplyQuota, G!UpsertQuota, G!LastRefresh, G!ListAvailable,
     G!AdminSetStatus
<1>2. db' \in [PoolCreds -> G!CredRows]
  <2>0. db \in [PoolCreds -> G!CredRows] /\ G!Cleared(TRUE) \in G!CredRows /\ G!Cleared(FALSE) \in G!CredRows
    BY <1>0 DEF GRowsTyped, G!Cleared, G!CredRows
  <2>1. CASE G!ThrottleInDB(p)
    BY <1>0, <2>0, <2>1 DEF G!ThrottleInDB, G!CredRows
  <2>2. CASE G!DisableInDB(p) \/ G!AdminSetStatus(p)
    <3>1. UNCHANGED db \/ (\E row \in G!CredRows : db' = [db EXCEPT ![me[p].c] = row])
      BY <2>0, <2>2 DEF G!DisableInDB, G!AdminSetStatus
    <3> QED
      BY <2>0, <3>1
  <2>3. CASE G!UpsertQuota(p)
    <3>1. UNCHANGED db \/ db' = [db EXCEPT ![me[p].c].synced = TRUE]
      BY <2>3 DEF G!UpsertQuota
    <3> QED
      BY <2>0, <3>1 DEF G!CredRows
  <2>4. CASE UNCHANGED db
    BY <2>0, <2>4
  <2> QED
    BY <2>1, <2>2, <2>3, <2>4 DEF G!Step, G!EnterRefresh, G!ListRows, G!BuildRows,
     G!MergeThrottles, G!StoreRows, G!ClearExpired, G!Load, G!StoreEdit, G!RecordSuccess,
     G!CountFailure,
     G!RememberThrottle, G!CheckUnauthorized, G!Validate, G!FinishValidation,
     G!RejectCredential, G!MarkProbing, G!SpawnProbe, G!ProbeQuota, G!CompleteProbe,
     G!FetchQuota, G!RefreshPlanType, G!ApplyQuota, G!LastRefresh, G!ListAvailable
<1>3. checking' \subseteq PoolCreds /\ probing' \subseteq PoolCreds
  BY <1>0 DEF GRowsTyped, GRebuildPCs, G!At, G!Step, G!EnterRefresh, G!ListRows,
     G!BuildRows,
     G!MergeThrottles, G!StoreRows, G!ClearExpired, G!Load, G!StoreEdit, G!RecordSuccess,
     G!CountFailure,
     G!ThrottleInDB, G!RememberThrottle, G!CheckUnauthorized, G!Validate,
     G!FinishValidation,
     G!RejectCredential, G!DisableInDB, G!MarkProbing, G!SpawnProbe, G!ProbeQuota,
     G!CompleteProbe,
     G!FetchQuota, G!RefreshPlanType, G!ApplyQuota, G!UpsertQuota, G!LastRefresh,
     G!ListAvailable,
     G!AdminSetStatus
<1>4. spawned' \subseteq G!Jobs
  <2>1. CASE G!Validate(p) \/ G!SpawnProbe(p)
    BY <1>0, <2>1 DEF G!Validate, G!SpawnProbe, G!At, GRebuildPCs, G!Job, G!Jobs, GRowsTyped
  <2>2. CASE UNCHANGED spawned
    BY <1>0, <2>2 DEF GRowsTyped
  <2> QED
    BY <2>1, <2>2 DEF G!Step, G!EnterRefresh, G!ListRows, G!BuildRows,
     G!MergeThrottles, G!StoreRows, G!ClearExpired, G!Load, G!StoreEdit, G!RecordSuccess,
     G!CountFailure,
     G!ThrottleInDB, G!RememberThrottle, G!CheckUnauthorized, G!FinishValidation,
     G!RejectCredential, G!DisableInDB, G!MarkProbing, G!ProbeQuota, G!CompleteProbe,
     G!FetchQuota, G!RefreshPlanType, G!ApplyQuota, G!UpsertQuota, G!LastRefresh,
     G!ListAvailable,
     G!AdminSetStatus
<1>5. flight' \in Procs \cup {None}
  BY <1>0 DEF GRowsTyped, G!LeaveRefresh, G!Step, G!EnterRefresh, G!ListRows, G!BuildRows,
     G!MergeThrottles, G!StoreRows, G!ClearExpired, G!Load, G!StoreEdit, G!RecordSuccess,
     G!CountFailure,
     G!ThrottleInDB, G!RememberThrottle, G!CheckUnauthorized, G!Validate,
     G!FinishValidation,
     G!RejectCredential, G!DisableInDB, G!MarkProbing, G!SpawnProbe, G!ProbeQuota,
     G!CompleteProbe,
     G!FetchQuota, G!RefreshPlanType, G!ApplyQuota, G!UpsertQuota, G!LastRefresh,
     G!ListAvailable,
     G!AdminSetStatus
<1>6. missed' \in [Procs -> SUBSET PoolCreds]
  <2>1. CASE G!StoreRows(p)
    BY <1>0, <2>1 DEF G!StoreRows, GRowsTyped
  <2>2. ASSUME NEW c \in PoolCreds, NEW S, G!Overtake(c, S) PROVE missed' \in [Procs -> SUBSET PoolCreds]
    BY <1>0, <2>2 DEF G!Overtake, GRowsTyped
  <2>3. CASE G!RememberThrottle(p) \/ G!CheckUnauthorized(p) \/ G!DisableInDB(p) \/ G!AdminSetStatus(p)
    <3>1. me[p].c \in PoolCreds
      BY <1>0, <2>3 DEF G!RememberThrottle, G!CheckUnauthorized, G!DisableInDB,
         G!AdminSetStatus, G!At, GRebuildPCs
    <3> QED
      BY <1>0, <2>2, <2>3, <3>1 DEF G!RememberThrottle, G!CheckUnauthorized, G!DisableInDB,
         G!AdminSetStatus, GRowsTyped
  <2>4. CASE UNCHANGED missed
    BY <1>0, <2>4 DEF GRowsTyped
  <2> QED
    BY <2>1, <2>3, <2>4 DEF G!Step, G!EnterRefresh, G!ListRows, G!BuildRows,
     G!MergeThrottles, G!ClearExpired, G!Load, G!StoreEdit, G!RecordSuccess, G!CountFailure,
     G!ThrottleInDB, G!Validate, G!FinishValidation,
     G!RejectCredential, G!MarkProbing, G!SpawnProbe, G!ProbeQuota, G!CompleteProbe,
     G!FetchQuota, G!RefreshPlanType, G!ApplyQuota, G!UpsertQuota, G!LastRefresh,
     G!ListAvailable
<1> QED
  BY <1>0, <1>1, <1>2, <1>3, <1>4, <1>5, <1>6 DEF GRowsTyped, G!CredRows, G!Jobs, G!Times

LEMMA GPoolStep ==
  ASSUME GTypeInv, NEW p \in Procs, G!Step(p)
  PROVE  GPoolTyped'
<1>0. GPoolTyped /\ GPlaced(me[p]) /\ me[p] \in GFrames
  BY DEF GTypeInv, GStanding, GPlaced
<1>1. CASE G!StoreRows(p)
  BY <1>0, <1>1 DEF G!StoreRows, GPoolTyped, GFrames, G!Snapshots, G!Rows, G!Times
<1>2. CASE G!StoreEdit(p)
  <2> DEFINE m == me[p]
             D == [c \in DOMAIN m.work \ {m.c} |-> m.work[c]]
             U == [c \in DOMAIN m.work |-> IF c = m.c THEN [m.work[c] EXCEPT !.up = FALSE] ELSE m.work[c]]
             T == [c \in DOMAIN m.work |-> IF c = m.c THEN [up |-> FALSE, until |-> m.at] ELSE m.work[c]]
  <2>1. m.work \in G!Snapshots /\ m.at \in G!Times /\ m.pc \in G!Copying
    BY <1>0, <1>2 DEF G!StoreEdit, GPlaced, GMayStand, GFrames
  <2>2. DOMAIN m.work \subseteq PoolCreds /\ \A c \in DOMAIN m.work : m.work[c] \in G!Rows
    BY <2>1, GSnapshotRows
  <2>3. avail' = D \/ avail' = U \/ avail' = T
    BY <1>2, <2>1 DEF G!StoreEdit, G!Edited, G!Copying
  <2> HIDE DEF m
  <2>4. \A c \in DOMAIN m.work : /\ [m.work[c] EXCEPT !.up = FALSE] \in G!Rows
                                 /\ [up |-> FALSE, until |-> m.at] \in G!Rows
    BY <2>1, <2>2 DEF G!Rows
  <2>5. /\ D \in [DOMAIN m.work \ {m.c} -> G!Rows] /\ U \in [DOMAIN m.work -> G!Rows]
        /\ T \in [DOMAIN m.work -> G!Rows]
    BY <2>2, <2>4
  <2> HIDE DEF D, U, T
  <2>6. avail' \in G!Snapshots
    BY <2>2, <2>3, <2>5, GRowsSnapshot
  <2> QED
    BY <2>6 DEF GPoolTyped, G!Snapshots, G!Rows, G!Times
<1>3. CASE G!ApplyQuota(p) /\ G!InPool(me[p].c)
  <2>1. PICK C \in SUBSET PoolCreds : avail \in [C -> G!Rows]
    BY <1>0, <1>3 DEF GPoolTyped, G!InPool, G!Snapshots
  <2>2. me[p].c \in C
    BY <1>3, <2>1 DEF G!InPool
  <2>3. \E row \in G!Rows : avail' = [avail EXCEPT ![me[p].c] = row]
    <3>0. avail[me[p].c] \in G!Rows
      BY <2>1, <2>2
    <3>1. G!Scored(avail[me[p].c], clock) \in G!Rows /\ [avail[me[p].c] EXCEPT !.up = FALSE] \in G!Rows
      <4>1. G!Scored(avail[me[p].c], clock) \in G!Rows
        BY <3>0, GScoredRow
      <4>2. [avail[me[p].c] EXCEPT !.up = FALSE] \in G!Rows
        BY <3>0 DEF G!Rows
      <4> QED
        BY <4>1, <4>2
    <3>2. \/ avail' = [avail EXCEPT ![me[p].c] = G!Scored(avail[me[p].c], clock)]
          \/ avail' = [avail EXCEPT ![me[p].c] = [avail[me[p].c] EXCEPT !.up = FALSE]]
      BY <1>3 DEF G!ApplyQuota, G!Rescored
    <3> QED
      BY <3>1, <3>2
  <2>4. avail' \in [C -> G!Rows]
    BY <2>1, <2>2, <2>3
  <2>5. avail' \in G!Snapshots
    BY <2>4, GRowsSnapshot
  <2> QED
    BY <2>5 DEF GPoolTyped, G!Snapshots, G!Rows, G!Times
<1>4. CASE UNCHANGED avail
  BY <1>0, <1>4 DEF GPoolTyped, G!Snapshots, G!Rows, G!Times
<1> QED
  BY <1>1, <1>2, <1>3, <1>4 DEF G!Step, G!EnterRefresh, G!ListRows, G!BuildRows,
     G!MergeThrottles, G!ClearExpired, G!Load, G!RecordSuccess, G!CountFailure,
     G!ThrottleInDB, G!RememberThrottle, G!CheckUnauthorized, G!Validate,
     G!FinishValidation,
     G!RejectCredential, G!DisableInDB, G!MarkProbing, G!SpawnProbe, G!ProbeQuota,
     G!CompleteProbe,
     G!FetchQuota, G!RefreshPlanType, G!ApplyQuota, G!UpsertQuota, G!LastRefresh,
     G!ListAvailable,
     G!AdminSetStatus

\* What is started.
LEMMA GBegins ==
  ASSUME GTypeInv, NEW p \in Procs, NEW op \in DOMAIN G!First, NEW c,
         c \in PoolCreds \/ (op = "wake" /\ c = None), G!Run(p, op, c)
  PROVE  GStanding' /\ me'[p].pc = G!First[op] /\ \A u \in Procs \ {p} : me'[u] = me[u]
<1> DEFINE r == [G!Idle EXCEPT !.pc = G!First[op], !.op = op, !.c = c]
<1>0. G!First[op] \in G!PCs /\ op \in G!AllOps \cup {"wake", "probe", "validate"} /\ G!Idle \in GFrames
  BY GIdlePlaced DEF GPlaced, G!First, G!PCs, G!AllOps
<1>1. r \in GFrames /\ r.pc = G!First[op] /\ r.c = c /\ r.then = "idle"
  BY <1>0 DEF GFrames, G!Idle
<1>2. r.pc \notin GMidPCs \cup G!Copying /\ (op = "wake" => r.pc \in GRebuildPCs)
  BY <1>1 DEF G!First, GMidPCs, G!Copying, GRebuildPCs
<1>3. me' = [me EXCEPT ![p] = r]
  BY DEF G!Run
<1> HIDE DEF r
<1>4. GPlaced(r)
  BY <1>1, <1>2 DEF GPlaced, GMayStand, GThens
<1> QED
  BY <1>1, <1>3, <1>4, GOneStands DEF GTypeInv, GStanding

LEMMA GTypeStep ==
  ASSUME GTypeInv, [G!Next]_G!vars
  PROVE  GTypeInv'
<1>0. GStanding /\ GRowsTyped /\ GPoolTyped
  BY DEF GTypeInv
<1>1. CASE G!Tick \/ UNCHANGED G!vars
  <2>1. /\ UNCHANGED <<db, avail, throttle, checking, probing, flight, spawned, mix, me, missed>>
        /\ clock' \in 0 .. MaxClock
    BY <1>0, <1>1, PoolAssumption DEF G!Tick, G!vars, G!Next, GRowsTyped, PoolAssumption
  <2>2. GRowsTyped' /\ GPoolTyped'
    BY <1>0, <2>1 DEF GRowsTyped, GPoolTyped, G!Snapshots, G!Rows, G!CredRows, G!Jobs,
       G!Times
  <2>3. GStanding'
    BY <1>0, <2>1 DEF GStanding, GPlaced, GMayStand, GRebuildPCs, GMidPCs, G!Copying,
       GThens, GFrames,
       G!PCs, G!AllOps, G!Times, G!Snapshots, G!Rows
  <2> QED
    BY <2>2, <2>3 DEF GTypeInv
<1>2. ASSUME UNCHANGED <<clock, db, avail, throttle, checking, probing, flight, mix, missed>>,
             spawned' \subseteq spawned
      PROVE  GRowsTyped' /\ GPoolTyped'
  BY <1>0, <1>2 DEF GRowsTyped, GPoolTyped, G!Snapshots, G!Rows, G!CredRows, G!Jobs, G!Times
<1>3. ASSUME NEW p \in Procs, NEW op \in G!AllOps, NEW c \in PoolCreds, G!Start(p, op, c), UNCHANGED mix
      PROVE  GTypeInv'
  <2>1. op \in DOMAIN G!First
    BY DEF G!AllOps, G!First
  <2> QED
    BY <1>2, <1>3, <2>1, GBegins DEF G!Start, GTypeInv
<1>4. ASSUME NEW p \in Procs, G!Wake(p), UNCHANGED mix PROVE GTypeInv'
  <2>1. "wake" \in DOMAIN G!First
    BY DEF G!First
  <2> QED
    BY <1>2, <1>4, <2>1, GBegins DEF G!Wake, GTypeInv
<1>5. ASSUME NEW p \in Procs, NEW j \in spawned, G!StartJob(p, j), UNCHANGED mix PROVE GTypeInv'
  <2>1. j.op \in DOMAIN G!First /\ j.c \in PoolCreds
    BY <1>0 DEF GRowsTyped, G!Jobs, G!First
  <2> QED
    BY <1>2, <1>5, <2>1, GBegins DEF G!StartJob, GTypeInv
<1>6. ASSUME NEW p \in Procs, G!Step(p), UNCHANGED mix PROVE GTypeInv'
  BY <1>6, GStandStep, GRowsStep, GPoolStep DEF GTypeInv
<1> QED
  BY <1>1, <1>3, <1>4, <1>5, <1>6 DEF G!Next

LEMMA GInitTypes == G!Init => GTypeInv
<1> SUFFICES ASSUME G!Init PROVE GTypeInv
  OBVIOUS
<1>1. PICK on, synced \in [PoolCreds -> BOOLEAN] :
        db = [c \in PoolCreds |-> [on |-> on[c], synced |-> synced[c], until |-> 0]]
  BY DEF G!Init
<1>2. db \in [PoolCreds -> G!CredRows]
  BY <1>1, GClocks DEF G!CredRows
<1>3. GStanding
  BY GIdlePlaced DEF G!Init, GStanding
<1> QED
  BY <1>2, <1>3, GClocks, PoolAssumption DEF G!Init, GTypeInv, GRowsTyped, GPoolTyped,
     PoolAssumption

LEMMA GTypeInvariant == G!Spec => []GTypeInv
  BY GInitTypes, GTypeStep, PTL DEF G!Spec

LEMMA GTypes == GTypeInv => G!TypeOK
<1> SUFFICES ASSUME GTypeInv PROVE G!TypeOK
  OBVIOUS
<1>1. me \in [Procs -> GFrames]
  BY DEF GTypeInv, GStanding, GPlaced
<1> QED
  BY <1>1 DEF GTypeInv, GRowsTyped, GPoolTyped, G!TypeOK, GFrames

THEOREM GeminiTypes == G!Spec => []G!TypeOK
  BY GTypeInvariant, GTypes, PTL

\* Only a rebuild's own steps bring it to these places.
LEMMA GRebuildMoves ==
  ASSUME GTypeInv, NEW p \in Procs, G!Step(p), NEW u \in Procs, me'[u].pc \in GMidPCs
  PROVE  me'[u] = me[u] \/ (u = p /\ (G!ListRows(p) \/ G!BuildRows(p) \/ G!MergeThrottles(p)))
<1>0. /\ me = [v \in Procs |-> me[v]] /\ \A v \in Procs : GPlaced(me[v]) /\ me[v] \in GFrames
  BY DEF GTypeInv, GStanding, GPlaced
<1>1. ASSUME NEW v \in Procs, me'[v] = G!Back(me[v]) PROVE me'[v].pc \notin GMidPCs
  BY <1>0, <1>1, GBackPlaced DEF GThens, GMidPCs
<1>15. CASE G!ListRows(p) \/ G!BuildRows(p) \/ G!MergeThrottles(p)
  <2>1. \A v \in Procs \ {p} : me'[v] = me[v] \/ me'[v] = G!Back(me[v])
    BY <1>0, <1>15 DEF G!ListRows, G!BuildRows, G!MergeThrottles, G!LeaveRefresh
  <2> QED
    BY <1>1, <1>15, <2>1
<1> SUFFICES ASSUME ~G!ListRows(p), ~G!BuildRows(p), ~G!MergeThrottles(p), me'[u] # me[u]
             PROVE  FALSE
  BY <1>15
<1>2. ASSUME NEW r, me' = [me EXCEPT ![p] = r], r.pc \notin GMidPCs PROVE FALSE
  BY <1>0, <1>2
<1>3. ASSUME NEW x, G!Goto(p, x), x \notin GMidPCs PROVE FALSE
  BY <1>0, <1>3 DEF G!Goto, GFrames
<1>4. ASSUME NEW x, NEW y, G!Call(p, x, y), x \notin GMidPCs PROVE FALSE
  BY <1>0, <1>4 DEF G!Call, GFrames
<1>5. ASSUME G!Return(p) PROVE FALSE
  BY <1>0, <1>5 DEF G!Return, G!Idle, GMidPCs
<1>6. ASSUME G!Resume(p) PROVE FALSE
  BY <1>0, <1>1, <1>6 DEF G!Resume
<1>7. CASE G!ClearExpired(p)
  BY <1>0, <1>1, <1>7 DEF G!ClearExpired, G!LeaveRefresh
<1>8. CASE G!EnterRefresh(p) \/ G!RecordSuccess(p) \/ G!ThrottleInDB(p) \/ G!RememberThrottle(p)
           \/ G!CheckUnauthorized(p) \/ G!Validate(p) \/ G!FinishValidation(p)
           \/ G!RejectCredential(p) \/ G!DisableInDB(p)
  BY <1>3, <1>4, <1>5, <1>6, <1>8 DEF G!EnterRefresh, G!RecordSuccess, G!ThrottleInDB,
     G!RememberThrottle,
     G!CheckUnauthorized, G!Validate, G!FinishValidation, G!RejectCredential,
     G!DisableInDB, GMidPCs
<1>9. CASE G!MarkProbing(p) \/ G!SpawnProbe(p) \/ G!CompleteProbe(p) \/ G!FetchQuota(p)
           \/ G!RefreshPlanType(p) \/ G!ListAvailable(p) \/ G!AdminSetStatus(p)
  BY <1>3, <1>4, <1>5, <1>9 DEF G!MarkProbing, G!SpawnProbe, G!CompleteProbe, G!FetchQuota,
     G!RefreshPlanType, G!ListAvailable, G!AdminSetStatus, GMidPCs
<1>10. CASE G!LastRefresh(p) \/ G!StoreEdit(p)
  <2>1. G!Resume(p) \/ \E x, y : x \in {"list", "refresh"} /\ G!Call(p, x, y)
    BY <1>10 DEF G!LastRefresh, G!StoreEdit
  <2> QED
    BY <1>4, <1>6, <2>1 DEF GMidPCs
<1>11. CASE G!StoreRows(p)
  BY <1>0, <1>2, <1>11 DEF G!StoreRows, GFrames, GMidPCs
<1>12. CASE G!Load(p)
  <2>1. CASE me' = [me EXCEPT ![p] = [@ EXCEPT !.pc = G!Storing[me[p].pc], !.work = avail]]
    <3>1. G!Storing[me[p].pc] \notin GMidPCs
      BY <1>12 DEF G!Load, G!Storing, GMidPCs
    <3> QED
      BY <1>0, <1>2, <2>1, <3>1 DEF GFrames
  <2> QED
    BY <1>6, <1>12, <2>1 DEF G!Load
<1>13. CASE G!CountFailure(p) \/ G!ProbeQuota(p)
  <2>1. \/ G!Return(p) \/ G!Goto(p, "apply")
        \/ me' = [me EXCEPT ![p] = [@ EXCEPT !.pc = "failDB", !.at = clock + 1]]
        \/ me' = [me EXCEPT ![p] = [@ EXCEPT !.pc = "remember", !.at = clock + 1, !.then = "unmark"]]
    BY <1>13 DEF G!CountFailure, G!ProbeQuota
  <2> QED
    BY <1>0, <1>2, <1>3, <1>5, <2>1 DEF GFrames, GMidPCs
<1>14. CASE G!ApplyQuota(p) \/ G!UpsertQuota(p)
  <2>1. me'[p].pc \in {"unmark", "upsert", "refresh", "last"}
    <3>1. CASE G!ApplyQuota(p)
      <4>1. PICK x \in {"unmark", "upsert"}, at \in {0, 1} : me' = [me EXCEPT ![p].pc = x, ![p].at = at]
        BY <3>1 DEF G!ApplyQuota
      <4> QED
        BY <1>0, <4>1 DEF GFrames
    <3>2. CASE G!UpsertQuota(p)
      <4>1. \/ me'[p] = [me[p] EXCEPT !.at = 0, !.then = "last", !.pc = "refresh"]
            \/ me'[p] = [me[p] EXCEPT !.at = 0, !.then = "last", !.pc = "last"]
            \/ me'[p] = [me[p] EXCEPT !.pc = "last", !.at = 0]
        BY <1>0, <3>2 DEF G!UpsertQuota
      <4> QED
        BY <1>0, <4>1 DEF GFrames
    <3> QED
      BY <1>14, <3>1, <3>2
  <2>2. \A v \in Procs \ {p} : me'[v] = me[v]
    BY <1>0, <1>14 DEF G!ApplyQuota, G!UpsertQuota
  <2> QED
    BY <2>1, <2>2 DEF GMidPCs
<1> QED
  BY <1>7, <1>8, <1>9, <1>10, <1>11, <1>12, <1>13, <1>14 DEF G!Step

\* What a rebuild may carry and not know of: nobody disabled or, once it has
\* skipped those under validation, nobody of these; once it has merged the windows
\* in memory, no slot within one.
GKnowsBarred(p)    == \A c \in DOMAIN me[p].work : ~db[c].on => c \in missed[p]
GKnowsChecked(p)   == \A c \in DOMAIN me[p].work : c \in checking => c \in missed[p]
GKnowsThrottled(p) == \A c \in DOMAIN me[p].work :
                       me[p].work[c].up /\ G!Throttled(c) => c \in missed[p]
GKnows(p) == /\ me[p].pc \in {"build", "merge", "store"} => GKnowsBarred(p)
             /\ me[p].pc \in {"merge", "store"} => GKnowsChecked(p) /\ me[p].at <= clock
             /\ me[p].pc = "store" => GKnowsThrottled(p)
GRebuildsKnow == \A p \in Procs : GKnows(p)

\* Nothing is forgotten while a rebuild is on its way, and what it has looked at
\* too early is news to it.
LEMMA GNewsComes ==
  ASSUME GTypeInv, NEW p \in Procs, G!Step(p), NEW u \in Procs,
         me[u].pc \in GMidPCs, ~(u = p /\ G!StoreRows(p)), NEW c \in PoolCreds
  PROVE  /\ c \in missed[u] => c \in missed'[u]
         /\ ~db'[c].on /\ db[c].on => c \in missed'[u]
         /\ me[u].pc # "build" /\ c \in checking' /\ c \notin checking => c \in missed'[u]
         /\ me[u].pc = "store" /\ G!Throttled(c)' /\ ~G!Throttled(c) => c \in missed'[u]
<1>0. /\ missed \in [Procs -> SUBSET PoolCreds] /\ clock \in Nat /\ clock' = clock
      /\ throttle \in [PoolCreds -> [n : 0 .. Threshold, until : G!Times]]
      /\ db \in [PoolCreds -> G!CredRows] /\ G!NoState.until = 0
  BY GClocks DEF GTypeInv, GRowsTyped, G!NoState, G!Step, G!EnterRefresh, G!ListRows,
     G!BuildRows,
     G!MergeThrottles, G!StoreRows, G!ClearExpired, G!Load, G!StoreEdit, G!RecordSuccess,
     G!CountFailure,
     G!ThrottleInDB, G!RememberThrottle, G!CheckUnauthorized, G!Validate,
     G!FinishValidation,
     G!RejectCredential, G!DisableInDB, G!MarkProbing, G!SpawnProbe, G!ProbeQuota,
     G!CompleteProbe,
     G!FetchQuota, G!RefreshPlanType, G!ApplyQuota, G!UpsertQuota, G!LastRefresh,
     G!ListAvailable,
     G!AdminSetStatus
<1>1. CASE G!CheckUnauthorized(p)
  <2>1. /\ missed'[u] = IF me[u].pc = "build" THEN missed[u] ELSE missed[u] \cup {me[p].c}
        /\ checking' = checking \cup {me[p].c} /\ UNCHANGED db
    BY <1>0, <1>1 DEF G!CheckUnauthorized, G!Overtake, GMidPCs
  <2>2. throttle'[c] = throttle[c] \/ throttle'[c] = G!NoState
    BY <1>0, <1>1 DEF G!CheckUnauthorized
  <2> QED
    BY <1>0, <2>1, <2>2 DEF G!Throttled
<1>2. CASE G!RememberThrottle(p)
  <2>1. /\ checking' = checking /\ UNCHANGED db
        /\ missed'[u] = IF me[u].pc = "store" THEN missed[u] \cup {me[p].c} ELSE missed[u]
    BY <1>0, <1>2 DEF G!RememberThrottle, G!Overtake
  <2>2. c # me[p].c => throttle'[c] = throttle[c]
    BY <1>0, <1>2 DEF G!RememberThrottle
  <2> QED
    BY <1>0, <2>1, <2>2 DEF G!Throttled
<1>3. CASE G!DisableInDB(p) \/ G!AdminSetStatus(p)
  <2>1. UNCHANGED <<checking, throttle>>
    BY <1>3 DEF G!DisableInDB, G!AdminSetStatus
  <2>2. \/ UNCHANGED <<db, missed>>
        \/ db' = [db EXCEPT ![me[p].c] = G!Cleared(TRUE)] /\ UNCHANGED missed
        \/ /\ db' = [db EXCEPT ![me[p].c] = G!Cleared(FALSE)]
           /\ missed'[u] = missed[u] \cup {me[p].c}
    BY <1>0, <1>3 DEF G!DisableInDB, G!AdminSetStatus, G!Overtake, GMidPCs
  <2>3. c # me[p].c => db'[c] = db[c]
    BY <1>0, <2>2
  <2> QED
    BY <1>0, <2>1, <2>2, <2>3 DEF G!Throttled, G!Cleared
<1>4. CASE G!StoreRows(p)
  BY <1>0, <1>4 DEF G!StoreRows, G!Throttled
<1>5. CASE G!RecordSuccess(p) \/ G!ClearExpired(p) \/ G!RejectCredential(p)
  <2>1. checking' \subseteq checking /\ UNCHANGED <<missed, db>>
    BY <1>5 DEF G!RecordSuccess, G!ClearExpired, G!RejectCredential
  <2>2. throttle'[c] = throttle[c] \/ throttle'[c] = G!NoState
    BY <1>0, <1>5 DEF G!RecordSuccess, G!ClearExpired, G!RejectCredential
  <2> QED
    BY <1>0, <2>1, <2>2 DEF G!Throttled
<1>6. CASE G!CountFailure(p)
  <2>1. UNCHANGED <<checking, missed, db>>
    BY <1>6 DEF G!CountFailure
  <2>2. PICK k : throttle' = [throttle EXCEPT ![me[p].c].n = k]
    BY <1>6 DEF G!CountFailure
  <2>3. throttle'[c].until = throttle[c].until
    BY <1>0, <2>2
  <2> QED
    BY <1>0, <2>1, <2>3 DEF G!Throttled
<1>7. CASE G!ThrottleInDB(p) \/ G!UpsertQuota(p)
  <2>1. UNCHANGED <<checking, missed, throttle>>
    BY <1>7 DEF G!ThrottleInDB, G!UpsertQuota
  <2>2. \/ UNCHANGED db \/ db' = [db EXCEPT ![me[p].c].synced = TRUE]
        \/ db' = [db EXCEPT ![me[p].c] = [@ EXCEPT !.until = me[p].at, !.synced = TRUE]]
    BY <1>7 DEF G!ThrottleInDB, G!UpsertQuota
  <2>3. /\ db = [d \in PoolCreds |-> db[d]]
        /\ db[c] = [on |-> db[c].on, synced |-> db[c].synced, until |-> db[c].until]
        /\ me[p].c \in PoolCreds =>
             db[me[p].c] = [on |-> db[me[p].c].on, synced |-> db[me[p].c].synced,
                            until |-> db[me[p].c].until]
    BY <1>0 DEF G!CredRows
  <2>4. db'[c].on = db[c].on
    <3>1. CASE db' = [db EXCEPT ![me[p].c].synced = TRUE]
      BY <2>3, <3>1
    <3>2. CASE db' = [db EXCEPT ![me[p].c] = [@ EXCEPT !.until = me[p].at, !.synced = TRUE]]
      BY <2>3, <3>2
    <3> QED
      BY <2>2, <3>1, <3>2
  <2> QED
    BY <1>0, <2>1, <2>4 DEF G!Throttled
<1>8. CASE G!FinishValidation(p)
  BY <1>0, <1>8 DEF G!FinishValidation, G!Throttled
<1>9. CASE UNCHANGED <<throttle, checking, missed, db>>
  BY <1>0, <1>9 DEF G!Throttled
<1> QED
  BY <1>1, <1>2, <1>3, <1>4, <1>5, <1>6, <1>7, <1>8, <1>9 DEF G!Step, G!EnterRefresh,
     G!ListRows,
     G!BuildRows, G!MergeThrottles, G!Load, G!StoreEdit, G!Validate, G!MarkProbing,
     G!SpawnProbe, G!ProbeQuota,
     G!CompleteProbe, G!FetchQuota, G!RefreshPlanType, G!ApplyQuota, G!LastRefresh,
     G!ListAvailable

LEMMA GKnowsStep ==
  ASSUME GTypeInv, GRebuildsKnow, NEW p \in Procs, G!Step(p), NEW u \in Procs
  PROVE  GKnows(u)'
<1>0. /\ me = [v \in Procs |-> me[v]] /\ GPlaced(me[u]) /\ me[u] \in GFrames
      /\ GRowsTyped /\ clock \in Nat /\ clock' = clock /\ GKnows(u)
  BY GClocks DEF GTypeInv, GStanding, GPlaced, GRebuildsKnow, GRowsTyped, G!Step,
     G!EnterRefresh, G!ListRows,
     G!BuildRows,
     G!MergeThrottles, G!StoreRows, G!ClearExpired, G!Load, G!StoreEdit, G!RecordSuccess,
     G!CountFailure,
     G!ThrottleInDB, G!RememberThrottle, G!CheckUnauthorized, G!Validate,
     G!FinishValidation,
     G!RejectCredential, G!DisableInDB, G!MarkProbing, G!SpawnProbe, G!ProbeQuota,
     G!CompleteProbe,
     G!FetchQuota, G!RefreshPlanType, G!ApplyQuota, G!UpsertQuota, G!LastRefresh,
     G!ListAvailable,
     G!AdminSetStatus
<1> SUFFICES ASSUME me'[u].pc \in GMidPCs PROVE GKnows(u)'
  BY DEF GKnows, GMidPCs
<1>1. CASE me'[u] = me[u]
  <2>1. ~(u = p /\ G!StoreRows(p))
    BY <1>0, <1>1 DEF G!StoreRows, G!At, GFrames, GMidPCs
  <2>2. me[u].work \in G!Snapshots /\ me[u].pc \in GMidPCs
    BY <1>0, <1>1 DEF GPlaced, GMayStand
  <2>3. \A c \in DOMAIN me[u].work :
          /\ c \in missed[u] => c \in missed'[u]
          /\ ~db'[c].on /\ db[c].on => c \in missed'[u]
          /\ me[u].pc # "build" /\ c \in checking' /\ c \notin checking => c \in missed'[u]
          /\ me[u].pc = "store" /\ G!Throttled(c)' /\ ~G!Throttled(c) => c \in missed'[u]
    BY <2>1, <2>2, GSnapshotRows, GNewsComes
  <2> QED
    BY <1>0, <1>1, <2>3 DEF GKnows, GKnowsBarred, GKnowsChecked, GKnowsThrottled
<1>2. CASE u = p /\ G!ListRows(p) /\ me'[u] # me[u]
  <2>1. me' = [me EXCEPT ![p] = [@ EXCEPT !.pc = "build", !.work =
                    [c \in G!Listed |-> [up |-> FALSE, until |-> db[c].until]]]]
    <3>1. ~G!LeaveRefresh(p)
      BY <1>0, <1>2, GBackPlaced DEF G!LeaveRefresh, GThens, GMidPCs
    <3> QED
      BY <1>2, <3>1 DEF G!ListRows
  <2>2. me'[u].pc = "build" /\ DOMAIN me'[u].work = G!Listed
    BY <1>0, <1>2, <2>1 DEF GFrames
  <2>3. UNCHANGED db
    BY <1>2 DEF G!ListRows
  <2> QED
    BY <2>2, <2>3 DEF GKnows, GKnowsBarred, G!Listed
<1>3. CASE u = p /\ G!BuildRows(p)
  <2> DEFINE w == [c \in DOMAIN me[u].work \ checking |-> G!Scored(me[u].work[c], clock)]
  <2>1. me' = [me EXCEPT ![u] = [@ EXCEPT !.pc = "merge", !.at = clock, !.work = w]]
        /\ UNCHANGED <<db, checking, missed>> /\ me[u].pc = "build"
    BY <1>3 DEF G!BuildRows, G!Unchecked, G!At
  <2>2. DOMAIN w = DOMAIN me[u].work \ checking
    OBVIOUS
  <2> HIDE DEF w
  <2>3. me'[u].pc = "merge" /\ me'[u].work = w /\ me'[u].at = clock
    BY <1>0, <2>1 DEF GFrames
  <2> QED
    BY <1>0, <2>1, <2>2, <2>3 DEF GKnows, GKnowsBarred, GKnowsChecked
<1>4. CASE u = p /\ G!MergeThrottles(p)
  <2> DEFINE w == [c \in DOMAIN me[u].work |-> G!MergedRow(me[u].work[c], throttle[c].until, me[u].at)]
  <2>1. me' = [me EXCEPT ![u] = [@ EXCEPT !.pc = "store", !.work = w]]
        /\ UNCHANGED <<db, checking, missed, throttle>> /\ me[u].pc = "merge"
    BY <1>4 DEF G!MergeThrottles, G!At
  <2>2. DOMAIN w = DOMAIN me[u].work
    OBVIOUS
  <2>3. ASSUME NEW c \in DOMAIN me[u].work, w[c].up PROVE ~G!Throttled(c)
    <3>1. me[u].work[c] \in G!Rows /\ c \in PoolCreds
      BY <1>0, <2>1, GSnapshotRows DEF GPlaced, GMayStand, GMidPCs
    <3>2. throttle[c].until \in Nat /\ me[u].at \in Nat /\ me[u].at <= clock
      BY <1>0, <2>1, <3>1, GClocks DEF GRowsTyped, GFrames, GKnows
    <3>3. ~(me[u].at < throttle[c].until)
      BY <2>3, <3>1, <3>2 DEF G!MergedRow, G!Rows
    <3> QED
      BY <1>0, <3>2, <3>3 DEF G!Throttled
  <2> HIDE DEF w
  <2>4. me'[u].pc = "store" /\ me'[u].work = w /\ me'[u].at = me[u].at
    BY <1>0, <2>1 DEF GFrames
  <2> QED
    BY <1>0, <2>1, <2>2, <2>3, <2>4 DEF GKnows, GKnowsBarred, GKnowsChecked,
       GKnowsThrottled, G!Throttled
<1> QED
  BY <1>1, <1>2, <1>3, <1>4, GRebuildMoves

LEMMA GKnowsFirst == G!Init => GRebuildsKnow
<1> SUFFICES ASSUME G!Init, NEW u \in Procs PROVE GKnows(u)
  BY DEF GRebuildsKnow
<1>1. me[u].pc = "idle"
  BY DEF G!Init, G!Idle
<1> QED
  BY <1>1 DEF GKnows

LEMMA GKnowsNext ==
  ASSUME GTypeInv, GRebuildsKnow, [G!Next]_G!vars
  PROVE  GRebuildsKnow'
<1> SUFFICES ASSUME NEW u \in Procs PROVE GKnows(u)'
  BY DEF GRebuildsKnow
<1>0. /\ me = [v \in Procs |-> me[v]] /\ GPlaced(me[u]) /\ me[u] \in GFrames /\ GRowsTyped
      /\ clock \in Nat /\ GKnows(u)
  BY GClocks DEF GTypeInv, GStanding, GPlaced, GRebuildsKnow, GRowsTyped
<1>1. ASSUME me'[u] = me[u] \/ me'[u].pc \notin GMidPCs, clock' \in Nat, clock' >= clock,
             UNCHANGED <<db, checking, throttle, missed>>
      PROVE  GKnows(u)'
  <2> SUFFICES ASSUME me'[u] = me[u], me[u].pc \in GMidPCs PROVE GKnows(u)'
    BY <1>1 DEF GKnows, GMidPCs
  <2>1. me[u].at \in Nat /\ me[u].work \in G!Snapshots
    BY <1>0, GClocks DEF GFrames, GPlaced, GMayStand
  <2>2. \A c \in DOMAIN me[u].work : G!Throttled(c)' => G!Throttled(c)
    <3> SUFFICES ASSUME NEW c \in DOMAIN me[u].work, G!Throttled(c)' PROVE G!Throttled(c)
      OBVIOUS
    <3>1. throttle[c].until \in Nat
      BY <1>0, <2>1, GSnapshotRows, GClocks DEF GRowsTyped
    <3> QED
      BY <1>0, <1>1, <3>1 DEF G!Throttled
  <2> QED
    BY <1>0, <1>1, <2>1, <2>2 DEF GKnows, GKnowsBarred, GKnowsChecked, GKnowsThrottled
<1>2. CASE G!Tick \/ UNCHANGED G!vars
  BY <1>0, <1>1, <1>2 DEF G!Tick, G!vars
<1>3. ASSUME NEW p \in Procs, NEW op \in DOMAIN G!First, NEW c, c \in PoolCreds \/ (op = "wake" /\ c = None),
             G!Run(p, op, c), UNCHANGED <<clock, db, checking, throttle, missed>>
      PROVE  GKnows(u)'
  <2>1. me'[u] = me[u] \/ me'[u].pc \notin GMidPCs
    BY <1>3, GBegins DEF G!First, GMidPCs
  <2> QED
    BY <1>0, <1>1, <1>3, <2>1
<1>4. ASSUME NEW p \in Procs, NEW op \in G!AllOps, NEW c \in PoolCreds, G!Start(p, op, c) PROVE GKnows(u)'
  <2>1. op \in DOMAIN G!First
    BY DEF G!AllOps, G!First
  <2> QED
    BY <1>3, <1>4, <2>1 DEF G!Start
<1>5. ASSUME NEW p \in Procs, G!Wake(p) PROVE GKnows(u)'
  <2>1. "wake" \in DOMAIN G!First
    BY DEF G!First
  <2> QED
    BY <1>3, <1>5, <2>1 DEF G!Wake
<1>6. ASSUME NEW p \in Procs, NEW j \in spawned, G!StartJob(p, j) PROVE GKnows(u)'
  <2>1. j.op \in DOMAIN G!First /\ j.c \in PoolCreds
    BY <1>0 DEF GRowsTyped, G!Jobs, G!First
  <2> QED
    BY <1>3, <1>6, <2>1 DEF G!StartJob
<1> QED
  BY <1>2, <1>4, <1>5, <1>6, GKnowsStep DEF G!Next

LEMMA GKnowsInvariant == G!Spec => []GRebuildsKnow
  BY GKnowsFirst, GKnowsNext, GTypeInvariant, PTL DEF G!Spec

\* What an edit stores it had copied, or it leaves it as it was.
LEMMA GEditsBring ==
  ASSUME GTypeInv, NEW p \in Procs, G!StoreEdit(p), NEW c, G!InPool(c)'
  PROVE  c \in DOMAIN me[p].work /\ me[p].work # None /\ (G!Up(c)' => me[p].work[c].up)
<1>0. me[p].pc \in G!Copying /\ avail' = G!Edited(me[p]) /\ me[p].work # None /\ me[p].work \in G!Snapshots
  BY DEF G!StoreEdit, GTypeInv, GStanding, GPlaced, GMayStand
<1>1. CASE me[p].pc = "evictStore"
  BY <1>0, <1>1 DEF G!Edited, G!InPool, G!Up
<1>2. CASE me[p].pc = "suspendStore"
  <2>1. avail' = [x \in DOMAIN me[p].work |-> IF x = me[p].c THEN [me[p].work[x] EXCEPT !.up = FALSE]
                                               ELSE me[p].work[x]]
    BY <1>0, <1>2 DEF G!Edited
  <2>2. c \in DOMAIN me[p].work /\ me[p].work[c] \in G!Rows
    BY <1>0, <2>1, GSnapshotRows DEF G!InPool
  <2> QED
    BY <1>0, <2>1, <2>2 DEF G!Up, G!Rows
<1>3. CASE me[p].pc = "throttleStore"
  <2>1. avail' = [x \in DOMAIN me[p].work |-> IF x = me[p].c THEN [up |-> FALSE, until |-> me[p].at]
                                               ELSE me[p].work[x]]
    BY <1>0, <1>3 DEF G!Edited
  <2> QED
    BY <1>0, <2>1 DEF G!InPool, G!Up
<1> QED
  BY <1>0, <1>1, <1>2, <1>3 DEF G!Copying

\* A quota lets nobody into the snapshot, and nobody out of a window.
LEMMA GQuotasHold ==
  ASSUME GTypeInv, NEW p \in Procs, G!ApplyQuota(p), NEW c, G!InPool(c)'
  PROVE  G!InPool(c) /\ (avail[c].until > clock /\ G!Up(c)' => G!Up(c))
<1>1. CASE ~G!InPool(me[p].c)
  BY <1>1 DEF G!ApplyQuota, G!InPool, G!Up
<1>2. CASE G!InPool(me[p].c)
  <2>1. PICK C \in SUBSET PoolCreds : avail \in [C -> G!Rows]
    BY <1>2 DEF GTypeInv, GPoolTyped, G!InPool, G!Snapshots
  <2>2. avail' = [avail EXCEPT ![me[p].c] = G!Scored(@, clock)] \/ avail' = [avail EXCEPT ![me[p].c].up = FALSE]
    BY <1>2 DEF G!ApplyQuota, G!Rescored
  <2>3. G!InPool(c)
    BY <1>2, <2>1, <2>2 DEF G!InPool
  <2>4. avail[c] \in G!Rows /\ avail[c].until \in Nat /\ clock \in Nat
    BY <2>1, <2>3, GClocks DEF G!InPool, G!Rows, GTypeInv, GRowsTyped
  <2> QED
    BY <2>1, <2>2, <2>3, <2>4 DEF G!Up, G!Scored, G!Rows, G!InPool
<1> QED
  BY <1>1, <1>2

LEMMA GBackStep ==
  ASSUME GTypeInv, GRebuildsKnow, [G!Next]_G!vars
  PROVE  G!BackIfMissed
<1> SUFFICES ASSUME NEW c \in PoolCreds,
                    \/ G!Barred(c) /\ G!Barred(c)' /\ ~G!InPool(c) /\ G!InPool(c)'
                    \/ G!Throttled(c) /\ G!Throttled(c)' /\ G!Recorded(c) /\ G!Up(c)'
             PROVE  \E p \in Procs : \/ G!StoreRows(p) /\ c \in missed[p]
                                     \/ G!StoreEdit(p) /\ me[p].work # avail
  BY DEF G!BackIfMissed
<1>0. G!InPool(c)' /\ (~G!InPool(c) \/ (avail[c].until > clock /\ G!Up(c)' /\ ~G!Up(c)))
  BY DEF G!Up, G!Recorded
<1>1. PICK p \in Procs : G!StoreRows(p) \/ G!StoreEdit(p)
  <2>1. CASE UNCHANGED avail
    BY <1>0, <2>1 DEF G!InPool, G!Up
  <2>2. ASSUME NEW p \in Procs PROVE ~G!ApplyQuota(p)
    BY <1>0, GQuotasHold
  <2>3. ASSUME NEW p \in Procs, G!Step(p) PROVE UNCHANGED avail \/ G!StoreRows(p) \/ G!StoreEdit(p)
    BY <2>2, <2>3 DEF G!Step, G!EnterRefresh, G!ListRows, G!BuildRows,
     G!MergeThrottles, G!ClearExpired, G!Load, G!RecordSuccess, G!CountFailure,
     G!ThrottleInDB, G!RememberThrottle, G!CheckUnauthorized, G!Validate,
     G!FinishValidation,
     G!RejectCredential, G!DisableInDB, G!MarkProbing, G!SpawnProbe, G!ProbeQuota,
     G!CompleteProbe,
     G!FetchQuota, G!RefreshPlanType, G!UpsertQuota, G!LastRefresh, G!ListAvailable,
     G!AdminSetStatus
  <2> QED
    BY <2>1, <2>3 DEF G!Next, G!Tick, G!vars, G!Start, G!Wake, G!StartJob
<1>2. CASE G!StoreRows(p)
  <2>1. me[p].pc = "store" /\ c \in DOMAIN me[p].work /\ avail' = me[p].work
    BY <1>0, <1>2 DEF G!StoreRows, G!At, G!InPool
  <2>2. GKnowsBarred(p) /\ GKnowsChecked(p) /\ GKnowsThrottled(p)
    BY <2>1 DEF GRebuildsKnow, GKnows
  <2>3. c \in missed[p]
    BY <2>1, <2>2 DEF GKnowsBarred, GKnowsChecked, GKnowsThrottled, G!Barred, G!Up
  <2> QED
    BY <1>2, <2>3
<1>3. CASE G!StoreEdit(p)
  BY <1>0, <1>3, GEditsBring DEF G!InPool, G!Up
<1> QED
  BY <1>1, <1>2, <1>3

\* A credential of Gemini's that is disabled or under validation stays out of the
\* snapshot, and one within a window out of the selection, until it ends: but for
\* a rebuild that had looked before, or an edit that puts back what it had copied.
THEOREM GeminiOutUntilMissed == G!Spec => G!BackOnlyIfMissed
  BY GBackStep, GTypeInvariant, GKnowsInvariant, PTL DEF G!Spec, G!BackOnlyIfMissed

-----------------------------------------------------------------------------
(* AntigravityPool *)

\* Where a goroutine of the pool may stand: it is about a credential unless all
\* it does is rebuild, and it carries a snapshot where it needs one.
AnRebuildPCs == {"idle", "list", "build", "merge", "store", "clear"}
AnMidPCs     == {"build", "merge", "store"}
AnThens      == {"idle", "list", "verify", "finish", "unmark"}
AnFrames     == [pc : An!PCs, op : An!AllOps \cup {"none", "wake", "probe", "validate"},
               c : PoolCreds \cup {None}, then : An!PCs, at : An!Times, work : An!Snapshots \cup {None}]
AnMayStand(pc, c, then, work) ==
  /\ then \in AnThens
  /\ c \in PoolCreds \/ (pc \in AnRebuildPCs /\ then = "idle")
  /\ pc \in AnMidPCs => work \in An!Snapshots
AnPlaced(r) == r \in AnFrames /\ AnMayStand(r.pc, r.c, r.then, r.work)
AnStanding  == me = [p \in Procs |-> me[p]] /\ \A p \in Procs : AnPlaced(me[p])

AnRowsTyped ==
  /\ db \in [PoolCreds -> An!CredRows]
  /\ throttle \in [PoolCreds -> [n : 0 .. Threshold, until : An!Times]]
  /\ checking \subseteq PoolCreds /\ probing \subseteq PoolCreds
  /\ clock \in 0 .. MaxClock
  /\ spawned \subseteq An!Jobs /\ mix \in PoolMixes
  /\ missed \in [Procs -> SUBSET PoolCreds]
AnPoolTyped == avail \in An!Snapshots \cup {None}
AnTypeInv   == AnStanding /\ AnRowsTyped /\ AnPoolTyped

LEMMA AnClocks ==
  /\ 0 \in An!Times /\ 1 \in An!Times /\ An!NoState \in [n : 0 .. Threshold, until : An!Times]
  /\ \A x \in 0 .. MaxClock : x \in An!Times /\ x + 1 \in An!Times /\ x \in Nat
  /\ An!Times \subseteq Nat
  BY PoolAssumption DEF PoolAssumption, An!Times, An!NoState

LEMMA AnSnapshotRows ==
  ASSUME NEW X \in An!Snapshots
  PROVE  DOMAIN X \subseteq PoolCreds /\ \A c \in DOMAIN X : X[c] \in An!Rows
<1>1. PICK C \in SUBSET PoolCreds : X \in [C -> An!Rows]
  BY DEF An!Snapshots
<1> QED
  BY <1>1

LEMMA AnRowsSnapshot ==
  ASSUME NEW C \in SUBSET PoolCreds, NEW X \in [C -> An!Rows]
  PROVE  X \in An!Snapshots
  BY DEF An!Snapshots

LEMMA AnThensArePlaces == AnThens \subseteq An!PCs
  BY DEF AnThens, An!PCs

LEMMA AnScoredRow ==
  ASSUME NEW row \in An!Rows, NEW now
  PROVE  An!Scored(row, now) \in An!Rows
<1> DEFINE up == now >= row.until
<1>1. An!Scored(row, now) = [row EXCEPT !.up = up] /\ up \in BOOLEAN
  BY DEF An!Scored
<1> HIDE DEF up
<1> QED
  BY <1>1 DEF An!Rows

LEMMA AnIdlePlaced == AnPlaced(An!Idle)
  BY AnClocks DEF AnPlaced, AnMayStand, AnFrames, An!Idle, An!PCs, AnRebuildPCs, AnMidPCs,
     AnThens

LEMMA AnOneStands ==
  ASSUME AnStanding, NEW p \in Procs, NEW r, AnPlaced(r), me' = [me EXCEPT ![p] = r]
  PROVE  AnStanding'
<1>1. \A u \in Procs : me'[u] = IF u = p THEN r ELSE me[u]
  BY DEF AnStanding
<1>2. me' = [u \in Procs |-> me'[u]]
  BY <1>1 DEF AnStanding
<1>3. \A u \in Procs : AnPlaced(me'[u])
  BY <1>1 DEF AnStanding
<1> QED
  BY <1>2, <1>3 DEF AnStanding, AnPlaced, AnMayStand, AnRebuildPCs, AnMidPCs, AnThens,
     AnFrames,
     An!PCs, An!AllOps, An!Times, An!Snapshots, An!Rows

LEMMA AnGotoStands ==
  ASSUME AnStanding, NEW p \in Procs, NEW x, An!Goto(p, x), x \in An!PCs \ AnMidPCs,
         me[p].c \in PoolCreds
  PROVE  AnStanding'
<1> DEFINE r == [me[p] EXCEPT !.pc = x]
<1>1. AnPlaced(r)
  BY DEF AnStanding, AnPlaced, AnFrames, AnMayStand
<1>2. me' = [me EXCEPT ![p] = r]
  BY DEF An!Goto
<1> HIDE DEF r
<1> QED
  BY <1>1, <1>2, AnOneStands

LEMMA AnCallStands ==
  ASSUME AnStanding, NEW p \in Procs, NEW x, NEW y, An!Call(p, x, y),
         x \in An!PCs \ AnMidPCs, y \in AnThens, me[p].c \in PoolCreds
  PROVE  AnStanding'
<1> DEFINE r == [me[p] EXCEPT !.pc = x, !.then = y]
<1>0. me[p] \in AnFrames /\ y \in An!PCs
  BY AnThensArePlaces DEF AnStanding, AnPlaced
<1>1. r \in AnFrames /\ r.pc = x /\ r.then = y /\ r.c = me[p].c
  BY <1>0 DEF AnFrames
<1>2. me' = [me EXCEPT ![p] = r]
  BY DEF An!Call
<1>3. AnPlaced(r)
  BY <1>1 DEF AnPlaced, AnMayStand
<1> HIDE DEF r
<1> QED
  BY <1>2, <1>3, AnOneStands

LEMMA AnReturnStands ==
  ASSUME AnStanding, NEW p \in Procs, An!Return(p)
  PROVE  AnStanding'
  BY AnIdlePlaced, AnOneStands DEF An!Return

\* What a routine that returns goes back to.
LEMMA AnBackPlaced ==
  ASSUME NEW r, AnPlaced(r)
  PROVE  AnPlaced(An!Back(r)) /\ An!Back(r).pc \in AnThens
<1>1. CASE r.then = "idle"
  BY <1>1, AnIdlePlaced DEF An!Back, An!Idle, AnThens
<1>2. CASE r.then # "idle"
  <2> DEFINE s == [r EXCEPT !.pc = r.then, !.then = "idle", !.at = 0, !.work = None]
  <2>1. An!Back(r) = s
    BY <1>2 DEF An!Back
  <2>2. r \in AnFrames /\ r.c \in PoolCreds /\ r.then \in AnThens
    BY <1>2 DEF AnPlaced, AnMayStand
  <2>3. r.then \in An!PCs /\ "idle" \in An!PCs /\ 0 \in An!Times
    BY <2>2, AnClocks DEF AnThens, An!PCs
  <2>4. s \in AnFrames
    BY <2>2, <2>3 DEF AnFrames
  <2>5. s.pc = r.then /\ s.then = "idle" /\ s.c = r.c
    BY <2>2 DEF AnFrames
  <2>6. s \in AnFrames /\ s.pc = r.then /\ s.then = "idle" /\ s.c = r.c /\ r.c \in PoolCreds /\ r.then \in AnThens
    BY <2>2, <2>4, <2>5
  <2> HIDE DEF s
  <2> QED
    BY <2>1, <2>6 DEF AnPlaced, AnMayStand, AnThens, AnMidPCs
<1> QED
  BY <1>1, <1>2

LEMMA AnResumeStands ==
  ASSUME AnStanding, NEW p \in Procs, An!Resume(p)
  PROVE  AnStanding'
  BY AnBackPlaced, AnOneStands DEF An!Resume, AnStanding

\* A goroutine at work on anything but a rebuild is about a credential.
LEMMA AnOnCredential ==
  ASSUME AnStanding, NEW p \in Procs, me[p].pc \notin AnRebuildPCs
  PROVE  me[p].c \in PoolCreds
  BY DEF AnStanding, AnPlaced, AnMayStand

LEMMA AnStandStep ==
  ASSUME AnTypeInv, NEW p \in Procs, An!Step(p)
  PROVE  AnStanding'
<1>0. /\ AnStanding /\ AnRowsTyped /\ AnPoolTyped /\ AnPlaced(me[p]) /\ me[p] \in AnFrames
  BY DEF AnTypeInv, AnStanding, AnPlaced
<1>2. CASE An!ListRows(p)
  <2> DEFINE w == [c \in An!Listed |-> [up |-> FALSE, until |-> db[c].until]]
             r == [me[p] EXCEPT !.pc = "build", !.work = w]
  <2>1. CASE An!Resume(p)
    BY <1>0, <2>1, AnResumeStands
  <2>2. CASE me' = [me EXCEPT ![p] = r]
    <3>1. w \in [An!Listed -> An!Rows] /\ An!Listed \in SUBSET PoolCreds
      BY <1>0 DEF AnRowsTyped, An!Listed, An!CredRows, An!Rows
    <3>2. w \in An!Snapshots
      BY <3>1, AnRowsSnapshot
    <3> HIDE DEF w
    <3>3. r \in AnFrames /\ r.pc = "build" /\ r.work = w /\ r.c = me[p].c /\ r.then = me[p].then
          /\ me[p].pc = "list"
      BY <1>0, <1>2, <3>2 DEF An!ListRows, An!At, AnFrames, An!PCs
    <3> HIDE DEF r
    <3>4. AnPlaced(r)
      BY <1>0, <3>2, <3>3 DEF AnPlaced, AnMayStand, AnRebuildPCs, AnMidPCs
    <3> QED
      BY <1>0, <2>2, <3>4, AnOneStands
  <2> QED
    BY <1>2, <2>1, <2>2 DEF An!ListRows
<1>3. CASE An!BuildRows(p)
  <2> DEFINE W == me[p].work
             C == DOMAIN W \ checking
             w == [c \in C |-> An!Scored(W[c], clock)]
             r == [me[p] EXCEPT !.pc = "merge", !.at = clock, !.work = w]
  <2>1. W \in An!Snapshots /\ me[p].pc = "build"
    BY <1>0, <1>3 DEF An!BuildRows, An!At, AnPlaced, AnMayStand, AnMidPCs
  <2>2. C \in SUBSET PoolCreds /\ \A c \in C : An!Scored(W[c], clock) \in An!Rows
    BY <2>1, AnSnapshotRows, AnScoredRow
  <2>3. w \in An!Snapshots
    BY <2>2, AnRowsSnapshot
  <2>4. me' = [me EXCEPT ![p] = r]
    BY <1>3 DEF An!BuildRows, An!Unchecked
  <2> HIDE DEF w
  <2>5. r \in AnFrames /\ r.pc = "merge" /\ r.work = w /\ r.c = me[p].c /\ r.then = me[p].then
    BY <1>0, <2>3, AnClocks DEF AnRowsTyped, AnFrames, An!PCs
  <2> HIDE DEF r
  <2>6. AnPlaced(r)
    BY <1>0, <2>1, <2>3, <2>5 DEF AnPlaced, AnMayStand, AnRebuildPCs, AnMidPCs
  <2> QED
    BY <1>0, <2>4, <2>6, AnOneStands
<1>4. CASE An!MergeThrottles(p)
  <2> DEFINE W == me[p].work
             w == [c \in DOMAIN W |-> An!MergedRow(W[c], throttle[c].until, me[p].at)]
             r == [me[p] EXCEPT !.pc = "store", !.work = w]
  <2>1. W \in An!Snapshots /\ me[p].pc = "merge"
    BY <1>0, <1>4 DEF An!MergeThrottles, An!At, AnPlaced, AnMayStand, AnMidPCs
  <2>2. DOMAIN W \in SUBSET PoolCreds /\ \A c \in DOMAIN W : W[c] \in An!Rows /\ throttle[c].until \in An!Times
    BY <1>0, <2>1, AnSnapshotRows DEF AnRowsTyped
  <2>3. \A c \in DOMAIN W : An!MergedRow(W[c], throttle[c].until, me[p].at) \in An!Rows
    BY <2>2 DEF An!MergedRow, An!Rows
  <2>4. w \in An!Snapshots
    BY <2>2, <2>3, AnRowsSnapshot
  <2>5. me' = [me EXCEPT ![p] = r]
    BY <1>4 DEF An!MergeThrottles
  <2> HIDE DEF w
  <2>6. r \in AnFrames /\ r.pc = "store" /\ r.work = w /\ r.c = me[p].c /\ r.then = me[p].then
    BY <1>0, <2>4 DEF AnFrames, An!PCs
  <2> HIDE DEF r
  <2>7. AnPlaced(r)
    BY <1>0, <2>1, <2>4, <2>6 DEF AnPlaced, AnMayStand, AnRebuildPCs, AnMidPCs
  <2> QED
    BY <1>0, <2>5, <2>7, AnOneStands
<1>5. CASE An!StoreRows(p)
  <2> DEFINE r == [me[p] EXCEPT !.pc = "clear", !.work = None]
  <2>1. r \in AnFrames /\ r.pc = "clear" /\ r.c = me[p].c /\ r.then = me[p].then /\ me[p].pc = "store"
    BY <1>0, <1>5 DEF An!StoreRows, An!At, AnFrames, An!PCs
  <2>2. me' = [me EXCEPT ![p] = r]
    BY <1>5 DEF An!StoreRows
  <2> HIDE DEF r
  <2>3. AnPlaced(r)
    BY <1>0, <2>1 DEF AnPlaced, AnMayStand, AnRebuildPCs, AnMidPCs
  <2> QED
    BY <1>0, <2>2, <2>3, AnOneStands
<1>6. CASE An!ClearExpired(p) \/ An!Evict(p) \/ An!ThrottleRow(p)
  BY <1>0, <1>6, AnResumeStands DEF An!ClearExpired, An!Evict, An!ThrottleRow
<1>8. ASSUME NEW s, me' = [me EXCEPT ![p] = s], s \in AnFrames, me[p].c \in PoolCreds, s.c = me[p].c,
             s.pc \notin AnMidPCs, s.then \in AnThens
      PROVE  AnStanding'
  <2>1. AnPlaced(s)
    BY <1>8 DEF AnPlaced, AnMayStand
  <2> QED
    BY <1>0, <1>8, <2>1, AnOneStands
<1>9. ASSUME NEW x, NEW y \in AnThens, NEW at \in An!Times, x \in An!PCs \ AnMidPCs, me[p].c \in PoolCreds,
             me' = [me EXCEPT ![p] = [@ EXCEPT !.pc = x, !.at = at, !.then = y]]
      PROVE  AnStanding'
  <2> DEFINE s == [me[p] EXCEPT !.pc = x, !.at = at, !.then = y]
  <2>0. y \in An!PCs
    BY AnThensArePlaces
  <2>1. s \in AnFrames /\ s.pc = x /\ s.c = me[p].c /\ s.then = y
    BY <1>0, <1>9, <2>0 DEF AnFrames
  <2>2. me' = [me EXCEPT ![p] = s]
    BY <1>9
  <2> HIDE DEF s
  <2> QED
    BY <1>8, <1>9, <2>1, <2>2
<1>10. \A at \in An!Times, x \in An!PCs \ AnMidPCs : me[p].c \in PoolCreds /\
             me' = [me EXCEPT ![p] = [@ EXCEPT !.pc = x, !.at = at]] => AnStanding'
  <2> SUFFICES ASSUME NEW at \in An!Times, NEW x \in An!PCs \ AnMidPCs, me[p].c \in PoolCreds,
                      me' = [me EXCEPT ![p] = [@ EXCEPT !.pc = x, !.at = at]]
               PROVE  AnStanding'
    OBVIOUS
  <2>1. me' = [me EXCEPT ![p] = [@ EXCEPT !.pc = x, !.at = at, !.then = me[p].then]] /\ me[p].then \in AnThens
    BY <1>0 DEF AnFrames, AnPlaced, AnMayStand
  <2> QED
    BY <1>9, <2>1
<1>11. CASE An!RecordSuccess(p) \/ An!ThrottleInDB(p) \/ An!RememberThrottle(p) \/ An!CheckUnauthorized(p)
            \/ An!Verify(p) \/ An!FinishValidation(p) \/ An!RejectCredential(p) \/ An!DisableInDB(p) \/ An!Suspend(p)
  <2>1. me[p].c \in PoolCreds
    BY <1>0, <1>11, AnOnCredential DEF An!RecordSuccess, An!ThrottleInDB,
       An!RememberThrottle, An!Suspend,
       An!CheckUnauthorized, An!Verify, An!FinishValidation, An!RejectCredential,
       An!DisableInDB, An!At, AnRebuildPCs
  <2>2. CASE An!CheckUnauthorized(p)
    <3>1. PICK y \in {"idle", "list", "verify"} : An!Call(p, "evict", y)
      BY <2>2 DEF An!CheckUnauthorized, An!Caller
    <3> QED
      BY <1>0, <2>1, <3>1, AnCallStands DEF An!PCs, AnMidPCs, AnThens
  <2>3. CASE An!DisableInDB(p)
    <3>1. An!Goto(p, "evict") \/ An!Resume(p)
      BY <2>3 DEF An!DisableInDB, An!Goto
    <3> QED
      BY <1>0, <2>1, <3>1, AnGotoStands, AnResumeStands DEF An!PCs, AnMidPCs
  <2> QED
    BY <1>0, <1>11, <2>1, <2>2, <2>3, AnGotoStands, AnCallStands, AnReturnStands
       DEF An!RecordSuccess, An!ThrottleInDB, An!RememberThrottle, An!Verify, An!Suspend,
       An!FinishValidation, An!RejectCredential, An!Caller, An!PCs, AnMidPCs, AnThens
<1>12. CASE An!MarkProbing(p) \/ An!CompleteProbe(p) \/ An!FetchQuota(p) \/ An!ListAvailable(p) \/ An!AdminSetStatus(p)
  <2>1. me[p].c \in PoolCreds
    BY <1>0, <1>12, AnOnCredential DEF An!MarkProbing, An!CompleteProbe, An!FetchQuota,
       An!ListAvailable, An!AdminSetStatus, An!At, AnRebuildPCs
  <2>2. CASE An!FetchQuota(p)
    <3>1. \/ \E x \in {"apply", "list", "unauth", "reject"} : An!Goto(p, x)
          \/ An!Call(p, "disable", "list")
      BY <2>2 DEF An!FetchQuota
    <3> QED
      BY <1>0, <2>1, <3>1, AnGotoStands, AnCallStands DEF An!PCs, AnMidPCs, AnThens
  <2>3. CASE ~An!FetchQuota(p)
    <3>1. An!Return(p) \/ \E x \in {"suspend", "list"} : An!Goto(p, x)
      BY <1>12, <2>3 DEF An!MarkProbing, An!CompleteProbe, An!ListAvailable,
         An!AdminSetStatus
    <3> QED
      BY <1>0, <2>1, <3>1, AnGotoStands, AnReturnStands DEF An!PCs, AnMidPCs
  <2> QED
    BY <2>2, <2>3
<1>13. CASE An!CountFailure(p) \/ An!ProbeQuota(p)
  <2>1. me[p].c \in PoolCreds /\ clock + 1 \in An!Times
    BY <1>0, <1>13, AnOnCredential, AnClocks DEF An!CountFailure, An!ProbeQuota, An!At,
       AnRebuildPCs, AnRowsTyped
  <2>2. \/ An!Return(p) \/ An!Goto(p, "apply")
        \/ me' = [me EXCEPT ![p] = [@ EXCEPT !.pc = "failDB", !.at = clock + 1]]
        \/ me' = [me EXCEPT ![p] = [@ EXCEPT !.pc = "remember", !.at = clock + 1, !.then = "unmark"]]
    BY <1>13 DEF An!CountFailure, An!ProbeQuota
  <2> QED
    BY <1>0, <1>9, <1>10, <2>1, <2>2, AnGotoStands, AnReturnStands DEF An!PCs, AnMidPCs,
       AnThens
<1>14. CASE An!ApplyQuota(p)
  <2>1. me[p].c \in PoolCreds /\ 0 \in An!Times /\ 1 \in An!Times
    BY <1>0, <1>14, AnOnCredential, AnClocks DEF An!ApplyQuota, An!At, AnRebuildPCs
  <2>2. PICK x \in {"unmark", "upsert"}, at \in {0, 1} :
          me' = [me EXCEPT ![p].pc = x, ![p].at = at]
    BY <1>14 DEF An!ApplyQuota
  <2>3. me' = [me EXCEPT ![p] = [@ EXCEPT !.pc = x, !.at = at]]
    BY <1>0, <2>2 DEF AnStanding
  <2> QED
    BY <1>10, <2>1, <2>2, <2>3 DEF An!PCs, AnMidPCs
<1>15. CASE An!UpsertQuota(p)
  <2>1. me[p].c \in PoolCreds /\ 0 \in An!Times
    BY <1>0, <1>15, AnOnCredential, AnClocks DEF An!UpsertQuota, An!At, AnRebuildPCs
  <2>2. CASE \E y \in {"list", "idle"} :
               me' = [me EXCEPT ![p] = [me[p] EXCEPT !.pc = "list", !.at = 0, !.then = y]]
    <3>1. PICK y \in {"list", "idle"} :
               me' = [me EXCEPT ![p] = [me[p] EXCEPT !.pc = "list", !.at = 0, !.then = y]]
      BY <2>2
    <3> QED
      BY <1>9, <2>1, <3>1 DEF An!PCs, AnMidPCs, AnThens
  <2>3. CASE me' = [me EXCEPT ![p] = [me[p] EXCEPT !.pc = "list", !.at = 0]]
    BY <1>10, <2>1, <2>3 DEF An!PCs, AnMidPCs
  <2> QED
    BY <1>15, <2>2, <2>3 DEF An!UpsertQuota
<1> QED
  BY <1>2, <1>3, <1>4, <1>5, <1>6, <1>11, <1>12, <1>13, <1>14, <1>15 DEF An!Step

LEMMA AnRowsStep ==
  ASSUME AnTypeInv, NEW p \in Procs, An!Step(p), UNCHANGED mix
  PROVE  AnRowsTyped'
<1>0. /\ AnStanding /\ AnRowsTyped /\ me[p] \in AnFrames /\ clock' = clock
      /\ me[p].pc \notin AnRebuildPCs => me[p].c \in PoolCreds
      /\ me[p].at \in An!Times /\ clock \in An!Times
  BY AnOnCredential, AnClocks DEF AnTypeInv, AnStanding, AnPlaced, AnFrames, AnRowsTyped,
     An!Step,
     An!ListRows, An!BuildRows, An!MergeThrottles, An!StoreRows, An!ClearExpired, An!Evict,
     An!Suspend,
     An!ThrottleRow, An!RecordSuccess, An!CountFailure, An!ThrottleInDB,
     An!RememberThrottle,
     An!CheckUnauthorized, An!Verify, An!FinishValidation, An!RejectCredential,
     An!DisableInDB,
     An!MarkProbing, An!ProbeQuota, An!CompleteProbe, An!FetchQuota, An!ApplyQuota,
     An!UpsertQuota,
     An!ListAvailable, An!AdminSetStatus
<1> DEFINE States == [n : 0 .. Threshold, until : An!Times]
<1>1. throttle' \in [PoolCreds -> States]
  <2>0. An!NoState \in States /\ throttle \in [PoolCreds -> States]
    BY <1>0, AnClocks DEF AnRowsTyped
  <2>1. ASSUME NEW c, NEW st \in States, throttle' = [throttle EXCEPT ![c] = st]
        PROVE  throttle' \in [PoolCreds -> States]
    BY <2>0, <2>1
  <2>2. CASE An!RecordSuccess(p) \/ An!CheckUnauthorized(p) \/ An!RejectCredential(p)
    BY <2>0, <2>1, <2>2 DEF An!RecordSuccess, An!CheckUnauthorized, An!RejectCredential
  <2>3. CASE An!RememberThrottle(p)
    BY <1>0, <2>0, <2>3 DEF An!RememberThrottle
  <2>4. CASE An!CountFailure(p)
    <3>1. me[p].c \in PoolCreds
      BY <1>0, <2>4 DEF An!CountFailure, An!At, AnRebuildPCs
    <3> DEFINE n == (IF An!Expired(throttle[me[p].c].until) THEN 0 ELSE throttle[me[p].c].n) + 1
               k == IF n > Threshold THEN Threshold ELSE n
    <3>2. k \in 0 .. Threshold
      BY <2>0, <3>1, PoolAssumption DEF PoolAssumption
    <3>3. throttle' = [throttle EXCEPT ![me[p].c].n = k]
      BY <2>4 DEF An!CountFailure
    <3> HIDE DEF k
    <3> QED
      BY <2>0, <3>1, <3>2, <3>3
  <2>5. CASE An!ClearExpired(p)
    BY <2>0, <2>5 DEF An!ClearExpired
  <2>6. CASE UNCHANGED throttle
    BY <2>0, <2>6
  <2> QED
    BY <2>2, <2>3, <2>4, <2>5, <2>6 DEF An!Step,
     An!ListRows, An!BuildRows, An!MergeThrottles, An!StoreRows, An!Evict, An!Suspend,
     An!ThrottleRow,
     An!ThrottleInDB, An!Verify, An!FinishValidation, An!DisableInDB, An!MarkProbing,
     An!ProbeQuota,
     An!CompleteProbe, An!FetchQuota, An!ApplyQuota, An!UpsertQuota, An!ListAvailable,
     An!AdminSetStatus
<1>2. db' \in [PoolCreds -> An!CredRows]
  <2>0. db \in [PoolCreds -> An!CredRows] /\ An!Cleared(TRUE) \in An!CredRows /\ An!Cleared(FALSE) \in An!CredRows
    BY <1>0 DEF AnRowsTyped, An!Cleared, An!CredRows
  <2>1. CASE An!ThrottleInDB(p)
    BY <1>0, <2>0, <2>1 DEF An!ThrottleInDB, An!CredRows
  <2>2. CASE An!DisableInDB(p) \/ An!AdminSetStatus(p)
    <3>1. UNCHANGED db \/ (\E row \in An!CredRows : db' = [db EXCEPT ![me[p].c] = row])
      BY <2>0, <2>2 DEF An!DisableInDB, An!AdminSetStatus
    <3> QED
      BY <2>0, <3>1
  <2>3. CASE An!UpsertQuota(p)
    <3>1. UNCHANGED db \/ db' = [db EXCEPT ![me[p].c].synced = TRUE]
      BY <2>3 DEF An!UpsertQuota
    <3> QED
      BY <2>0, <3>1 DEF An!CredRows
  <2>4. CASE UNCHANGED db
    BY <2>0, <2>4
  <2> QED
    BY <2>1, <2>2, <2>3, <2>4 DEF An!Step,
     An!ListRows, An!BuildRows, An!MergeThrottles, An!StoreRows, An!ClearExpired, An!Evict,
     An!Suspend,
     An!ThrottleRow, An!RecordSuccess, An!CountFailure, An!RememberThrottle,
     An!CheckUnauthorized, An!Verify,
     An!FinishValidation, An!RejectCredential, An!MarkProbing, An!ProbeQuota,
     An!CompleteProbe, An!FetchQuota,
     An!ApplyQuota, An!ListAvailable
<1>3. checking' \subseteq PoolCreds /\ probing' \subseteq PoolCreds
  BY <1>0 DEF AnRowsTyped, AnRebuildPCs, An!At, An!Step,
     An!ListRows, An!BuildRows, An!MergeThrottles, An!StoreRows, An!ClearExpired, An!Evict,
     An!Suspend,
     An!ThrottleRow, An!RecordSuccess, An!CountFailure, An!ThrottleInDB,
     An!RememberThrottle,
     An!CheckUnauthorized, An!Verify, An!FinishValidation, An!RejectCredential,
     An!DisableInDB,
     An!MarkProbing, An!ProbeQuota, An!CompleteProbe, An!FetchQuota, An!ApplyQuota,
     An!UpsertQuota,
     An!ListAvailable, An!AdminSetStatus
<1>4. spawned' \subseteq An!Jobs
  <2>1. CASE An!Verify(p) \/ An!Suspend(p)
    BY <1>0, <2>1 DEF An!Verify, An!Suspend, An!At, AnRebuildPCs, An!Job, An!Jobs,
       AnRowsTyped
  <2>2. CASE UNCHANGED spawned
    BY <1>0, <2>2 DEF AnRowsTyped
  <2> QED
    BY <2>1, <2>2 DEF An!Step,
     An!ListRows, An!BuildRows, An!MergeThrottles, An!StoreRows, An!ClearExpired, An!Evict,
     An!ThrottleRow,
     An!RecordSuccess, An!CountFailure, An!ThrottleInDB, An!RememberThrottle,
     An!CheckUnauthorized,
     An!FinishValidation, An!RejectCredential, An!DisableInDB, An!MarkProbing,
     An!ProbeQuota,
     An!CompleteProbe, An!FetchQuota, An!ApplyQuota, An!UpsertQuota, An!ListAvailable,
     An!AdminSetStatus
<1>6. missed' \in [Procs -> SUBSET PoolCreds]
  <2>1. CASE An!StoreRows(p)
    BY <1>0, <2>1 DEF An!StoreRows, AnRowsTyped
  <2>2. ASSUME NEW c \in PoolCreds, NEW S, An!Overtake(c, S) PROVE missed' \in [Procs -> SUBSET PoolCreds]
    BY <1>0, <2>2 DEF An!Overtake, AnRowsTyped
  <2>3. CASE An!RememberThrottle(p) \/ An!CheckUnauthorized(p) \/ An!DisableInDB(p) \/ An!AdminSetStatus(p)
    <3>1. me[p].c \in PoolCreds
      BY <1>0, <2>3 DEF An!RememberThrottle, An!CheckUnauthorized, An!DisableInDB,
         An!AdminSetStatus, An!At, AnRebuildPCs
    <3> QED
      BY <1>0, <2>2, <2>3, <3>1 DEF An!RememberThrottle, An!CheckUnauthorized,
         An!DisableInDB,
         An!AdminSetStatus, AnRowsTyped
  <2>4. CASE UNCHANGED missed
    BY <1>0, <2>4 DEF AnRowsTyped
  <2> QED
    BY <2>1, <2>3, <2>4 DEF An!Step,
     An!ListRows, An!BuildRows, An!MergeThrottles, An!ClearExpired, An!Evict, An!Suspend,
     An!ThrottleRow,
     An!RecordSuccess, An!CountFailure, An!ThrottleInDB, An!Verify, An!FinishValidation,
     An!RejectCredential,
     An!MarkProbing, An!ProbeQuota, An!CompleteProbe, An!FetchQuota, An!ApplyQuota,
     An!UpsertQuota,
     An!ListAvailable
<1> QED
  BY <1>0, <1>1, <1>2, <1>3, <1>4, <1>6 DEF AnRowsTyped, An!CredRows, An!Jobs, An!Times

LEMMA AnPoolStep ==
  ASSUME AnTypeInv, NEW p \in Procs, An!Step(p)
  PROVE  AnPoolTyped'
<1>0. AnPoolTyped /\ AnPlaced(me[p]) /\ me[p] \in AnFrames
  BY DEF AnTypeInv, AnStanding, AnPlaced
<1>1. CASE An!StoreRows(p)
  BY <1>0, <1>1 DEF An!StoreRows, An!At, AnPlaced, AnMayStand, AnMidPCs, AnPoolTyped,
     An!Snapshots, An!Rows, An!Times
<1>2. CASE An!Evict(p)
  <2>1. CASE avail = None
    BY <1>2, <2>1 DEF An!Evict, AnPoolTyped
  <2>2. CASE avail # None
    <3>1. PICK C \in SUBSET PoolCreds : avail \in [C -> An!Rows]
      BY <1>0, <2>2 DEF AnPoolTyped, An!Snapshots
    <3>2. avail' \in [C \ {me[p].c} -> An!Rows]
      BY <1>2, <2>2, <3>1 DEF An!Evict
    <3>3. avail' \in An!Snapshots
      BY <3>2, AnRowsSnapshot
    <3> QED
      BY <3>3 DEF AnPoolTyped, An!Snapshots, An!Rows, An!Times
  <2> QED
    BY <2>1, <2>2
<1>3. CASE (An!ApplyQuota(p) \/ An!Suspend(p) \/ An!ThrottleRow(p)) /\ An!InPool(me[p].c)
  <2>1. PICK C \in SUBSET PoolCreds : avail \in [C -> An!Rows]
    BY <1>0, <1>3 DEF AnPoolTyped, An!InPool, An!Snapshots
  <2>2. me[p].c \in C
    BY <1>3, <2>1 DEF An!InPool
  <2>3. \E row \in An!Rows : avail' = [avail EXCEPT ![me[p].c] = row]
    <3>0. avail[me[p].c] \in An!Rows /\ me[p].at \in An!Times
      BY <1>0, <2>1, <2>2 DEF AnFrames
    <3>1. An!Scored(avail[me[p].c], clock) \in An!Rows
      BY <3>0, AnScoredRow
    <3>2. /\ [avail[me[p].c] EXCEPT !.up = FALSE] \in An!Rows
          /\ [avail[me[p].c] EXCEPT !.up = FALSE, !.until = me[p].at] \in An!Rows
      BY <3>0 DEF An!Rows
    <3>3. \/ avail' = [avail EXCEPT ![me[p].c] = An!Scored(avail[me[p].c], clock)]
          \/ avail' = [avail EXCEPT ![me[p].c] = [avail[me[p].c] EXCEPT !.up = FALSE]]
          \/ avail' = [avail EXCEPT ![me[p].c] =
                         [avail[me[p].c] EXCEPT !.up = FALSE, !.until = me[p].at]]
      BY <1>3 DEF An!ApplyQuota, An!Rescored, An!Suspend, An!ThrottleRow
    <3> QED
      BY <3>1, <3>2, <3>3
  <2>4. avail' \in [C -> An!Rows]
    BY <2>1, <2>2, <2>3
  <2>5. avail' \in An!Snapshots
    BY <2>4, AnRowsSnapshot
  <2> QED
    BY <2>5 DEF AnPoolTyped, An!Snapshots, An!Rows, An!Times
<1>4. CASE UNCHANGED avail
  BY <1>0, <1>4 DEF AnPoolTyped, An!Snapshots, An!Rows, An!Times
<1> QED
  BY <1>1, <1>2, <1>3, <1>4 DEF An!Step,
     An!ListRows, An!BuildRows, An!MergeThrottles, An!ClearExpired, An!Suspend,
     An!ThrottleRow, An!RecordSuccess,
     An!CountFailure, An!ThrottleInDB, An!RememberThrottle, An!CheckUnauthorized, An!Verify,
     An!FinishValidation, An!RejectCredential, An!DisableInDB, An!MarkProbing,
     An!ProbeQuota,
     An!CompleteProbe, An!FetchQuota, An!ApplyQuota, An!UpsertQuota, An!ListAvailable,
     An!AdminSetStatus

\* What is started.
LEMMA AnBegins ==
  ASSUME AnTypeInv, NEW p \in Procs, NEW op \in DOMAIN An!First, NEW c,
         c \in PoolCreds \/ (op = "wake" /\ c = None), An!Run(p, op, c)
  PROVE  AnStanding' /\ me'[p].pc = An!First[op] /\ \A u \in Procs \ {p} : me'[u] = me[u]
<1> DEFINE r == [An!Idle EXCEPT !.pc = An!First[op], !.op = op, !.c = c]
<1>0. An!First[op] \in An!PCs /\ op \in An!AllOps \cup {"wake", "probe", "validate"} /\ An!Idle \in AnFrames
  BY AnIdlePlaced DEF AnPlaced, An!First, An!PCs, An!AllOps
<1>1. r \in AnFrames /\ r.pc = An!First[op] /\ r.c = c /\ r.then = "idle"
  BY <1>0 DEF AnFrames, An!Idle
<1>2. r.pc \notin AnMidPCs /\ (op = "wake" => r.pc \in AnRebuildPCs)
  BY <1>1 DEF An!First, AnMidPCs, AnRebuildPCs
<1>3. me' = [me EXCEPT ![p] = r]
  BY DEF An!Run
<1> HIDE DEF r
<1>4. AnPlaced(r)
  BY <1>1, <1>2 DEF AnPlaced, AnMayStand, AnThens
<1> QED
  BY <1>1, <1>3, <1>4, AnOneStands DEF AnTypeInv, AnStanding

LEMMA AnTypeStep ==
  ASSUME AnTypeInv, [An!Next]_An!vars
  PROVE  AnTypeInv'
<1>0. AnStanding /\ AnRowsTyped /\ AnPoolTyped
  BY DEF AnTypeInv
<1>1. CASE An!Tick \/ UNCHANGED An!vars
  <2>1. /\ UNCHANGED <<db, avail, throttle, checking, probing, spawned, mix, me, missed>>
        /\ clock' \in 0 .. MaxClock
    BY <1>0, <1>1, PoolAssumption DEF An!Tick, An!vars, An!Next, AnRowsTyped, PoolAssumption
  <2>2. AnRowsTyped' /\ AnPoolTyped'
    BY <1>0, <2>1 DEF AnRowsTyped, AnPoolTyped, An!Snapshots, An!Rows, An!CredRows,
       An!Jobs, An!Times
  <2>3. AnStanding'
    BY <1>0, <2>1 DEF AnStanding, AnPlaced, AnMayStand, AnRebuildPCs, AnMidPCs, AnThens,
       AnFrames,
       An!PCs, An!AllOps, An!Times, An!Snapshots, An!Rows
  <2> QED
    BY <2>2, <2>3 DEF AnTypeInv
<1>2. ASSUME UNCHANGED <<clock, db, avail, throttle, checking, probing, mix, missed>>,
             spawned' \subseteq spawned
      PROVE  AnRowsTyped' /\ AnPoolTyped'
  BY <1>0, <1>2 DEF AnRowsTyped, AnPoolTyped, An!Snapshots, An!Rows, An!CredRows, An!Jobs,
     An!Times
<1>3. ASSUME NEW p \in Procs, NEW op \in An!AllOps, NEW c \in PoolCreds, An!Start(p, op, c), UNCHANGED mix
      PROVE  AnTypeInv'
  <2>1. op \in DOMAIN An!First
    BY DEF An!AllOps, An!First
  <2> QED
    BY <1>2, <1>3, <2>1, AnBegins DEF An!Start, AnTypeInv
<1>4. ASSUME NEW p \in Procs, An!Wake(p), UNCHANGED mix PROVE AnTypeInv'
  <2>1. "wake" \in DOMAIN An!First
    BY DEF An!First
  <2> QED
    BY <1>2, <1>4, <2>1, AnBegins DEF An!Wake, AnTypeInv
<1>5. ASSUME NEW p \in Procs, NEW j \in spawned, An!StartJob(p, j), UNCHANGED mix PROVE AnTypeInv'
  <2>1. j.op \in DOMAIN An!First /\ j.c \in PoolCreds
    BY <1>0 DEF AnRowsTyped, An!Jobs, An!First
  <2> QED
    BY <1>2, <1>5, <2>1, AnBegins DEF An!StartJob, AnTypeInv
<1>6. ASSUME NEW p \in Procs, An!Step(p), UNCHANGED mix PROVE AnTypeInv'
  BY <1>6, AnStandStep, AnRowsStep, AnPoolStep DEF AnTypeInv
<1> QED
  BY <1>1, <1>3, <1>4, <1>5, <1>6 DEF An!Next

LEMMA AnInitTypes == An!Init => AnTypeInv
<1> SUFFICES ASSUME An!Init PROVE AnTypeInv
  OBVIOUS
<1>1. PICK on, synced \in [PoolCreds -> BOOLEAN] :
        db = [c \in PoolCreds |-> [on |-> on[c], synced |-> synced[c], until |-> 0]]
  BY DEF An!Init
<1>2. db \in [PoolCreds -> An!CredRows]
  BY <1>1, AnClocks DEF An!CredRows
<1>3. AnStanding
  BY AnIdlePlaced DEF An!Init, AnStanding
<1> QED
  BY <1>2, <1>3, AnClocks, PoolAssumption DEF An!Init, AnTypeInv, AnRowsTyped, AnPoolTyped,
     PoolAssumption

LEMMA AnTypeInvariant == An!Spec => []AnTypeInv
  BY AnInitTypes, AnTypeStep, PTL DEF An!Spec

LEMMA AnTypes == AnTypeInv => An!TypeOK
<1> SUFFICES ASSUME AnTypeInv PROVE An!TypeOK
  OBVIOUS
<1>1. me \in [Procs -> AnFrames]
  BY DEF AnTypeInv, AnStanding, AnPlaced
<1> QED
  BY <1>1 DEF AnTypeInv, AnRowsTyped, AnPoolTyped, An!TypeOK, AnFrames

THEOREM AntigravityTypes == An!Spec => []An!TypeOK
  BY AnTypeInvariant, AnTypes, PTL

\* Only a rebuild's own steps bring it to these places.
LEMMA AnRebuildMoves ==
  ASSUME AnTypeInv, NEW p \in Procs, An!Step(p), NEW u \in Procs, me'[u].pc \in AnMidPCs
  PROVE  me'[u] = me[u] \/ (u = p /\ (An!ListRows(p) \/ An!BuildRows(p) \/ An!MergeThrottles(p)))
<1>0. /\ me = [v \in Procs |-> me[v]] /\ \A v \in Procs : AnPlaced(me[v]) /\ me[v] \in AnFrames
  BY DEF AnTypeInv, AnStanding, AnPlaced
<1>1. ASSUME NEW v \in Procs, me'[v] = An!Back(me[v]) PROVE me'[v].pc \notin AnMidPCs
  BY <1>0, <1>1, AnBackPlaced DEF AnThens, AnMidPCs
<1>15. CASE An!ListRows(p) \/ An!BuildRows(p) \/ An!MergeThrottles(p)
  <2>1. \A v \in Procs \ {p} : me'[v] = me[v]
    BY <1>0, <1>15 DEF An!ListRows, An!BuildRows, An!MergeThrottles, An!Resume
  <2> QED
    BY <1>15, <2>1
<1> SUFFICES ASSUME ~An!ListRows(p), ~An!BuildRows(p), ~An!MergeThrottles(p), me'[u] # me[u]
             PROVE  FALSE
  BY <1>15
<1>2. ASSUME NEW r, me' = [me EXCEPT ![p] = r], r.pc \notin AnMidPCs PROVE FALSE
  BY <1>0, <1>2
<1>3. ASSUME NEW x, An!Goto(p, x), x \notin AnMidPCs PROVE FALSE
  BY <1>0, <1>3 DEF An!Goto, AnFrames
<1>4. ASSUME NEW x, NEW y, An!Call(p, x, y), x \notin AnMidPCs PROVE FALSE
  BY <1>0, <1>4 DEF An!Call, AnFrames
<1>5. ASSUME An!Return(p) PROVE FALSE
  BY <1>0, <1>5 DEF An!Return, An!Idle, AnMidPCs
<1>6. ASSUME An!Resume(p) PROVE FALSE
  BY <1>0, <1>1, <1>6 DEF An!Resume
<1>7. CASE An!ClearExpired(p) \/ An!Evict(p) \/ An!ThrottleRow(p)
  BY <1>6, <1>7 DEF An!ClearExpired, An!Evict, An!ThrottleRow
<1>8. CASE An!RecordSuccess(p) \/ An!ThrottleInDB(p) \/ An!RememberThrottle(p) \/ An!Suspend(p)
           \/ An!CheckUnauthorized(p) \/ An!FinishValidation(p)
           \/ An!RejectCredential(p) \/ An!DisableInDB(p)
  <2>1. CASE An!DisableInDB(p)
    <3>1. An!Goto(p, "evict") \/ An!Resume(p)
      BY <2>1 DEF An!DisableInDB, An!Goto
    <3> QED
      BY <1>3, <1>6, <3>1 DEF AnMidPCs
  <2> QED
    BY <1>3, <1>4, <1>5, <1>8, <2>1 DEF An!RecordSuccess, An!ThrottleInDB,
       An!RememberThrottle,
       An!CheckUnauthorized, An!FinishValidation, An!RejectCredential, An!Suspend, AnMidPCs
<1>9. CASE An!MarkProbing(p) \/ An!CompleteProbe(p) \/ An!ListAvailable(p) \/ An!AdminSetStatus(p)
  BY <1>3, <1>5, <1>9 DEF An!MarkProbing, An!CompleteProbe, An!ListAvailable,
     An!AdminSetStatus, AnMidPCs
<1>10. CASE An!Verify(p) \/ An!FetchQuota(p)
  <2>1. \/ An!Return(p) \/ An!Call(p, "list", "finish") \/ An!Call(p, "disable", "finish")
        \/ An!Call(p, "disable", "list") \/ \E x \in {"apply", "list", "unauth", "reject"} : An!Goto(p, x)
    BY <1>10 DEF An!Verify, An!FetchQuota
  <2> QED
    BY <1>3, <1>4, <1>5, <2>1 DEF AnMidPCs
<1>11. CASE An!StoreRows(p)
  BY <1>0, <1>2, <1>11 DEF An!StoreRows, AnFrames, AnMidPCs
<1>13. CASE An!CountFailure(p) \/ An!ProbeQuota(p)
  <2>1. \/ An!Return(p) \/ An!Goto(p, "apply")
        \/ me' = [me EXCEPT ![p] = [@ EXCEPT !.pc = "failDB", !.at = clock + 1]]
        \/ me' = [me EXCEPT ![p] = [@ EXCEPT !.pc = "remember", !.at = clock + 1, !.then = "unmark"]]
    BY <1>13 DEF An!CountFailure, An!ProbeQuota
  <2> QED
    BY <1>0, <1>2, <1>3, <1>5, <2>1 DEF AnFrames, AnMidPCs
<1>14. CASE An!ApplyQuota(p) \/ An!UpsertQuota(p)
  <2>1. me'[p].pc \in {"unmark", "upsert", "list"}
    <3>1. CASE An!ApplyQuota(p)
      <4>1. PICK x \in {"unmark", "upsert"}, at \in {0, 1} : me' = [me EXCEPT ![p].pc = x, ![p].at = at]
        BY <3>1 DEF An!ApplyQuota
      <4> QED
        BY <1>0, <4>1 DEF AnFrames
    <3>2. CASE An!UpsertQuota(p)
      <4>1. \/ me'[p] = [me[p] EXCEPT !.pc = "list", !.at = 0, !.then = "list"]
            \/ me'[p] = [me[p] EXCEPT !.pc = "list", !.at = 0, !.then = "idle"]
            \/ me'[p] = [me[p] EXCEPT !.pc = "list", !.at = 0]
        BY <1>0, <3>2 DEF An!UpsertQuota
      <4> QED
        BY <1>0, <4>1 DEF AnFrames
    <3> QED
      BY <1>14, <3>1, <3>2
  <2>2. \A v \in Procs \ {p} : me'[v] = me[v]
    BY <1>0, <1>14 DEF An!ApplyQuota, An!UpsertQuota
  <2> QED
    BY <2>1, <2>2 DEF AnMidPCs
<1> QED
  BY <1>7, <1>8, <1>9, <1>10, <1>11, <1>13, <1>14 DEF An!Step

\* What a rebuild may carry and not know of: nobody disabled or, once it has
\* skipped those under validation, nobody of these; once it has merged the windows
\* in memory, no slot within one.
AnKnowsBarred(p)    == \A c \in DOMAIN me[p].work : ~db[c].on => c \in missed[p]
AnKnowsChecked(p)   == \A c \in DOMAIN me[p].work : c \in checking => c \in missed[p]
AnKnowsThrottled(p) == \A c \in DOMAIN me[p].work :
                       me[p].work[c].up /\ An!Throttled(c) => c \in missed[p]
AnKnows(p) == /\ me[p].pc \in {"build", "merge", "store"} => AnKnowsBarred(p)
              /\ me[p].pc \in {"merge", "store"} => AnKnowsChecked(p) /\ me[p].at <= clock
              /\ me[p].pc = "store" => AnKnowsThrottled(p)
AnRebuildsKnow == \A p \in Procs : AnKnows(p)

\* Nothing is forgotten while a rebuild is on its way, and what it has looked at
\* too early is news to it.
LEMMA AnNewsComes ==
  ASSUME AnTypeInv, NEW p \in Procs, An!Step(p), NEW u \in Procs,
         me[u].pc \in AnMidPCs, ~(u = p /\ An!StoreRows(p)), NEW c \in PoolCreds
  PROVE  /\ c \in missed[u] => c \in missed'[u]
         /\ ~db'[c].on /\ db[c].on => c \in missed'[u]
         /\ me[u].pc # "build" /\ c \in checking' /\ c \notin checking => c \in missed'[u]
         /\ me[u].pc = "store" /\ An!Throttled(c)' /\ ~An!Throttled(c) => c \in missed'[u]
<1>0. /\ missed \in [Procs -> SUBSET PoolCreds] /\ clock \in Nat /\ clock' = clock
      /\ throttle \in [PoolCreds -> [n : 0 .. Threshold, until : An!Times]]
      /\ db \in [PoolCreds -> An!CredRows] /\ An!NoState.until = 0
  BY AnClocks DEF AnTypeInv, AnRowsTyped, An!NoState, An!Step,
     An!ListRows, An!BuildRows, An!MergeThrottles, An!StoreRows, An!ClearExpired, An!Evict,
     An!Suspend,
     An!ThrottleRow, An!RecordSuccess, An!CountFailure, An!ThrottleInDB,
     An!RememberThrottle,
     An!CheckUnauthorized, An!Verify, An!FinishValidation, An!RejectCredential,
     An!DisableInDB,
     An!MarkProbing, An!ProbeQuota, An!CompleteProbe, An!FetchQuota, An!ApplyQuota,
     An!UpsertQuota,
     An!ListAvailable, An!AdminSetStatus
<1>1. CASE An!CheckUnauthorized(p)
  <2>1. /\ missed'[u] = IF me[u].pc = "build" THEN missed[u] ELSE missed[u] \cup {me[p].c}
        /\ checking' = checking \cup {me[p].c} /\ UNCHANGED db
    BY <1>0, <1>1 DEF An!CheckUnauthorized, An!Overtake, AnMidPCs
  <2>2. throttle'[c] = throttle[c] \/ throttle'[c] = An!NoState
    BY <1>0, <1>1 DEF An!CheckUnauthorized
  <2> QED
    BY <1>0, <2>1, <2>2 DEF An!Throttled
<1>2. CASE An!RememberThrottle(p)
  <2>1. /\ checking' = checking /\ UNCHANGED db
        /\ missed'[u] = IF me[u].pc = "store" THEN missed[u] \cup {me[p].c} ELSE missed[u]
    BY <1>0, <1>2 DEF An!RememberThrottle, An!Overtake
  <2>2. c # me[p].c => throttle'[c] = throttle[c]
    BY <1>0, <1>2 DEF An!RememberThrottle
  <2> QED
    BY <1>0, <2>1, <2>2 DEF An!Throttled
<1>3. CASE An!DisableInDB(p) \/ An!AdminSetStatus(p)
  <2>1. UNCHANGED <<checking, throttle>>
    BY <1>3 DEF An!DisableInDB, An!AdminSetStatus
  <2>2. \/ UNCHANGED <<db, missed>>
        \/ db' = [db EXCEPT ![me[p].c] = An!Cleared(TRUE)] /\ UNCHANGED missed
        \/ /\ db' = [db EXCEPT ![me[p].c] = An!Cleared(FALSE)]
           /\ missed'[u] = missed[u] \cup {me[p].c}
    BY <1>0, <1>3 DEF An!DisableInDB, An!AdminSetStatus, An!Overtake, AnMidPCs
  <2>3. c # me[p].c => db'[c] = db[c]
    BY <1>0, <2>2
  <2> QED
    BY <1>0, <2>1, <2>2, <2>3 DEF An!Throttled, An!Cleared
<1>4. CASE An!StoreRows(p)
  BY <1>0, <1>4 DEF An!StoreRows, An!Throttled
<1>5. CASE An!RecordSuccess(p) \/ An!ClearExpired(p) \/ An!RejectCredential(p)
  <2>1. checking' \subseteq checking /\ UNCHANGED <<missed, db>>
    BY <1>5 DEF An!RecordSuccess, An!ClearExpired, An!RejectCredential
  <2>2. throttle'[c] = throttle[c] \/ throttle'[c] = An!NoState
    BY <1>0, <1>5 DEF An!RecordSuccess, An!ClearExpired, An!RejectCredential
  <2> QED
    BY <1>0, <2>1, <2>2 DEF An!Throttled
<1>6. CASE An!CountFailure(p)
  <2>1. UNCHANGED <<checking, missed, db>>
    BY <1>6 DEF An!CountFailure
  <2>2. PICK k : throttle' = [throttle EXCEPT ![me[p].c].n = k]
    BY <1>6 DEF An!CountFailure
  <2>3. throttle'[c].until = throttle[c].until
    BY <1>0, <2>2
  <2> QED
    BY <1>0, <2>1, <2>3 DEF An!Throttled
<1>7. CASE An!ThrottleInDB(p) \/ An!UpsertQuota(p)
  <2>1. UNCHANGED <<checking, missed, throttle>>
    BY <1>7 DEF An!ThrottleInDB, An!UpsertQuota
  <2>2. \/ UNCHANGED db \/ db' = [db EXCEPT ![me[p].c].synced = TRUE]
        \/ db' = [db EXCEPT ![me[p].c] = [@ EXCEPT !.until = me[p].at, !.synced = TRUE]]
    BY <1>7 DEF An!ThrottleInDB, An!UpsertQuota
  <2>3. /\ db = [d \in PoolCreds |-> db[d]]
        /\ db[c] = [on |-> db[c].on, synced |-> db[c].synced, until |-> db[c].until]
        /\ me[p].c \in PoolCreds =>
             db[me[p].c] = [on |-> db[me[p].c].on, synced |-> db[me[p].c].synced,
                            until |-> db[me[p].c].until]
    BY <1>0 DEF An!CredRows
  <2>4. db'[c].on = db[c].on
    <3>1. CASE db' = [db EXCEPT ![me[p].c].synced = TRUE]
      BY <2>3, <3>1
    <3>2. CASE db' = [db EXCEPT ![me[p].c] = [@ EXCEPT !.until = me[p].at, !.synced = TRUE]]
      BY <2>3, <3>2
    <3> QED
      BY <2>2, <3>1, <3>2
  <2> QED
    BY <1>0, <2>1, <2>4 DEF An!Throttled
<1>8. CASE An!FinishValidation(p)
  BY <1>0, <1>8 DEF An!FinishValidation, An!Throttled
<1>9. CASE UNCHANGED <<throttle, checking, missed, db>>
  BY <1>0, <1>9 DEF An!Throttled
<1> QED
  BY <1>1, <1>2, <1>3, <1>4, <1>5, <1>6, <1>7, <1>8, <1>9 DEF An!Step,
     An!ListRows, An!BuildRows, An!MergeThrottles, An!Evict, An!Suspend, An!ThrottleRow,
     An!Verify, An!MarkProbing,
     An!ProbeQuota, An!CompleteProbe, An!FetchQuota, An!ApplyQuota, An!ListAvailable

LEMMA AnKnowsStep ==
  ASSUME AnTypeInv, AnRebuildsKnow, NEW p \in Procs, An!Step(p), NEW u \in Procs
  PROVE  AnKnows(u)'
<1>0. /\ me = [v \in Procs |-> me[v]] /\ AnPlaced(me[u]) /\ me[u] \in AnFrames
      /\ AnRowsTyped /\ clock \in Nat /\ clock' = clock /\ AnKnows(u)
  BY AnClocks DEF AnTypeInv, AnStanding, AnPlaced, AnRebuildsKnow, AnRowsTyped, An!Step,
     An!ListRows, An!BuildRows, An!MergeThrottles, An!StoreRows, An!ClearExpired, An!Evict,
     An!Suspend,
     An!ThrottleRow, An!RecordSuccess, An!CountFailure, An!ThrottleInDB,
     An!RememberThrottle,
     An!CheckUnauthorized, An!Verify, An!FinishValidation, An!RejectCredential,
     An!DisableInDB,
     An!MarkProbing, An!ProbeQuota, An!CompleteProbe, An!FetchQuota, An!ApplyQuota,
     An!UpsertQuota,
     An!ListAvailable, An!AdminSetStatus
<1> SUFFICES ASSUME me'[u].pc \in AnMidPCs PROVE AnKnows(u)'
  BY DEF AnKnows, AnMidPCs
<1>1. CASE me'[u] = me[u]
  <2>1. ~(u = p /\ An!StoreRows(p))
    BY <1>0, <1>1 DEF An!StoreRows, An!At, AnFrames, AnMidPCs
  <2>2. me[u].work \in An!Snapshots /\ me[u].pc \in AnMidPCs
    BY <1>0, <1>1 DEF AnPlaced, AnMayStand
  <2>3. \A c \in DOMAIN me[u].work :
          /\ c \in missed[u] => c \in missed'[u]
          /\ ~db'[c].on /\ db[c].on => c \in missed'[u]
          /\ me[u].pc # "build" /\ c \in checking' /\ c \notin checking => c \in missed'[u]
          /\ me[u].pc = "store" /\ An!Throttled(c)' /\ ~An!Throttled(c) => c \in missed'[u]
    BY <2>1, <2>2, AnSnapshotRows, AnNewsComes
  <2> QED
    BY <1>0, <1>1, <2>3 DEF AnKnows, AnKnowsBarred, AnKnowsChecked, AnKnowsThrottled
<1>2. CASE u = p /\ An!ListRows(p) /\ me'[u] # me[u]
  <2>1. me' = [me EXCEPT ![p] = [@ EXCEPT !.pc = "build", !.work =
                    [c \in An!Listed |-> [up |-> FALSE, until |-> db[c].until]]]]
    <3>1. ~An!Resume(p)
      BY <1>0, <1>2, AnBackPlaced DEF An!Resume, AnThens, AnMidPCs
    <3> QED
      BY <1>2, <3>1 DEF An!ListRows
  <2>2. me'[u].pc = "build" /\ DOMAIN me'[u].work = An!Listed
    BY <1>0, <1>2, <2>1 DEF AnFrames
  <2>3. UNCHANGED db
    BY <1>2 DEF An!ListRows
  <2> QED
    BY <2>2, <2>3 DEF AnKnows, AnKnowsBarred, An!Listed
<1>3. CASE u = p /\ An!BuildRows(p)
  <2> DEFINE w == [c \in DOMAIN me[u].work \ checking |-> An!Scored(me[u].work[c], clock)]
  <2>1. me' = [me EXCEPT ![u] = [@ EXCEPT !.pc = "merge", !.at = clock, !.work = w]]
        /\ UNCHANGED <<db, checking, missed>> /\ me[u].pc = "build"
    BY <1>3 DEF An!BuildRows, An!Unchecked, An!At
  <2>2. DOMAIN w = DOMAIN me[u].work \ checking
    OBVIOUS
  <2> HIDE DEF w
  <2>3. me'[u].pc = "merge" /\ me'[u].work = w /\ me'[u].at = clock
    BY <1>0, <2>1 DEF AnFrames
  <2> QED
    BY <1>0, <2>1, <2>2, <2>3 DEF AnKnows, AnKnowsBarred, AnKnowsChecked
<1>4. CASE u = p /\ An!MergeThrottles(p)
  <2> DEFINE w == [c \in DOMAIN me[u].work |-> An!MergedRow(me[u].work[c], throttle[c].until, me[u].at)]
  <2>1. me' = [me EXCEPT ![u] = [@ EXCEPT !.pc = "store", !.work = w]]
        /\ UNCHANGED <<db, checking, missed, throttle>> /\ me[u].pc = "merge"
    BY <1>4 DEF An!MergeThrottles, An!At
  <2>2. DOMAIN w = DOMAIN me[u].work
    OBVIOUS
  <2>3. ASSUME NEW c \in DOMAIN me[u].work, w[c].up PROVE ~An!Throttled(c)
    <3>1. me[u].work[c] \in An!Rows /\ c \in PoolCreds
      BY <1>0, <2>1, AnSnapshotRows DEF AnPlaced, AnMayStand, AnMidPCs
    <3>2. throttle[c].until \in Nat /\ me[u].at \in Nat /\ me[u].at <= clock
      BY <1>0, <2>1, <3>1, AnClocks DEF AnRowsTyped, AnFrames, AnKnows
    <3>3. ~(me[u].at < throttle[c].until)
      BY <2>3, <3>1, <3>2 DEF An!MergedRow, An!Rows
    <3> QED
      BY <1>0, <3>2, <3>3 DEF An!Throttled
  <2> HIDE DEF w
  <2>4. me'[u].pc = "store" /\ me'[u].work = w /\ me'[u].at = me[u].at
    BY <1>0, <2>1 DEF AnFrames
  <2> QED
    BY <1>0, <2>1, <2>2, <2>3, <2>4 DEF AnKnows, AnKnowsBarred, AnKnowsChecked,
       AnKnowsThrottled, An!Throttled
<1> QED
  BY <1>1, <1>2, <1>3, <1>4, AnRebuildMoves

LEMMA AnKnowsFirst == An!Init => AnRebuildsKnow
<1> SUFFICES ASSUME An!Init, NEW u \in Procs PROVE AnKnows(u)
  BY DEF AnRebuildsKnow
<1>1. me[u].pc = "idle"
  BY DEF An!Init, An!Idle
<1> QED
  BY <1>1 DEF AnKnows

LEMMA AnKnowsNext ==
  ASSUME AnTypeInv, AnRebuildsKnow, [An!Next]_An!vars
  PROVE  AnRebuildsKnow'
<1> SUFFICES ASSUME NEW u \in Procs PROVE AnKnows(u)'
  BY DEF AnRebuildsKnow
<1>0. /\ me = [v \in Procs |-> me[v]] /\ AnPlaced(me[u]) /\ me[u] \in AnFrames /\ AnRowsTyped
      /\ clock \in Nat /\ AnKnows(u)
  BY AnClocks DEF AnTypeInv, AnStanding, AnPlaced, AnRebuildsKnow, AnRowsTyped
<1>1. ASSUME me'[u] = me[u] \/ me'[u].pc \notin AnMidPCs, clock' \in Nat, clock' >= clock,
             UNCHANGED <<db, checking, throttle, missed>>
      PROVE  AnKnows(u)'
  <2> SUFFICES ASSUME me'[u] = me[u], me[u].pc \in AnMidPCs PROVE AnKnows(u)'
    BY <1>1 DEF AnKnows, AnMidPCs
  <2>1. me[u].at \in Nat /\ me[u].work \in An!Snapshots
    BY <1>0, AnClocks DEF AnFrames, AnPlaced, AnMayStand
  <2>2. \A c \in DOMAIN me[u].work : An!Throttled(c)' => An!Throttled(c)
    <3> SUFFICES ASSUME NEW c \in DOMAIN me[u].work, An!Throttled(c)' PROVE An!Throttled(c)
      OBVIOUS
    <3>1. throttle[c].until \in Nat
      BY <1>0, <2>1, AnSnapshotRows, AnClocks DEF AnRowsTyped
    <3> QED
      BY <1>0, <1>1, <3>1 DEF An!Throttled
  <2> QED
    BY <1>0, <1>1, <2>1, <2>2 DEF AnKnows, AnKnowsBarred, AnKnowsChecked, AnKnowsThrottled
<1>2. CASE An!Tick \/ UNCHANGED An!vars
  BY <1>0, <1>1, <1>2 DEF An!Tick, An!vars
<1>3. ASSUME NEW p \in Procs, NEW op \in DOMAIN An!First, NEW c, c \in PoolCreds \/ (op = "wake" /\ c = None),
             An!Run(p, op, c), UNCHANGED <<clock, db, checking, throttle, missed>>
      PROVE  AnKnows(u)'
  <2>1. me'[u] = me[u] \/ me'[u].pc \notin AnMidPCs
    BY <1>3, AnBegins DEF An!First, AnMidPCs
  <2> QED
    BY <1>0, <1>1, <1>3, <2>1
<1>4. ASSUME NEW p \in Procs, NEW op \in An!AllOps, NEW c \in PoolCreds, An!Start(p, op, c) PROVE AnKnows(u)'
  <2>1. op \in DOMAIN An!First
    BY DEF An!AllOps, An!First
  <2> QED
    BY <1>3, <1>4, <2>1 DEF An!Start
<1>5. ASSUME NEW p \in Procs, An!Wake(p) PROVE AnKnows(u)'
  <2>1. "wake" \in DOMAIN An!First
    BY DEF An!First
  <2> QED
    BY <1>3, <1>5, <2>1 DEF An!Wake
<1>6. ASSUME NEW p \in Procs, NEW j \in spawned, An!StartJob(p, j) PROVE AnKnows(u)'
  <2>1. j.op \in DOMAIN An!First /\ j.c \in PoolCreds
    BY <1>0 DEF AnRowsTyped, An!Jobs, An!First
  <2> QED
    BY <1>3, <1>6, <2>1 DEF An!StartJob
<1> QED
  BY <1>2, <1>4, <1>5, <1>6, AnKnowsStep DEF An!Next

LEMMA AnKnowsInvariant == An!Spec => []AnRebuildsKnow
  BY AnKnowsFirst, AnKnowsNext, AnTypeInvariant, PTL DEF An!Spec

\* An edit in place lets nobody into the snapshot, and nobody out of a window.
LEMMA AnEditsHold ==
  ASSUME AnTypeInv, NEW p \in Procs, An!ApplyQuota(p) \/ An!Suspend(p) \/ An!ThrottleRow(p) \/ An!Evict(p),
         NEW c, An!InPool(c)'
  PROVE  An!InPool(c) /\ (avail[c].until > clock /\ An!Up(c)' => An!Up(c))
<1>1. CASE An!Evict(p)
  BY <1>1 DEF An!Evict, An!InPool, An!Up
<1>2. CASE ~An!InPool(me[p].c) /\ ~An!Evict(p)
  BY <1>2 DEF An!ApplyQuota, An!Suspend, An!ThrottleRow, An!InPool, An!Up
<1>3. CASE An!InPool(me[p].c) /\ ~An!Evict(p)
  <2>1. PICK C \in SUBSET PoolCreds : avail \in [C -> An!Rows]
    BY <1>3 DEF AnTypeInv, AnPoolTyped, An!InPool, An!Snapshots
  <2>2. \/ avail' = [avail EXCEPT ![me[p].c] = An!Scored(@, clock)]
        \/ avail' = [avail EXCEPT ![me[p].c].up = FALSE]
        \/ avail' = [avail EXCEPT ![me[p].c] = [@ EXCEPT !.up = FALSE, !.until = me[p].at]]
    BY <1>3 DEF An!ApplyQuota, An!Rescored, An!Suspend, An!ThrottleRow
  <2>3. An!InPool(c)
    BY <1>3, <2>1, <2>2 DEF An!InPool
  <2>4. avail[c] \in An!Rows /\ avail[c].until \in Nat /\ clock \in Nat
    BY <2>1, <2>3, AnClocks DEF An!InPool, An!Rows, AnTypeInv, AnRowsTyped
  <2>5. ASSUME avail[c].until > clock, avail'[c].up PROVE avail[c].up
    <3>1. CASE c # me[p].c
      <4>1. PICK row : avail' = [avail EXCEPT ![me[p].c] = row]
        BY <2>2
      <4> QED
        BY <2>1, <2>3, <2>5, <3>1, <4>1 DEF An!InPool
    <3>2. CASE c = me[p].c
      <4>1. \/ avail'[c] = [avail[c] EXCEPT !.up = clock >= avail[c].until]
            \/ avail'[c] = [avail[c] EXCEPT !.up = FALSE]
            \/ avail'[c] = [avail[c] EXCEPT !.up = FALSE, !.until = me[p].at]
        BY <2>1, <2>2, <2>3, <3>2 DEF An!Scored, An!InPool
      <4>2. ~(clock >= avail[c].until)
        BY <2>4, <2>5
      <4> QED
        BY <2>4, <2>5, <4>1, <4>2 DEF An!Rows
    <3> QED
      BY <3>1, <3>2
  <2> QED
    BY <2>3, <2>5 DEF An!Up
<1> QED
  BY <1>1, <1>2, <1>3

LEMMA AnBackStep ==
  ASSUME AnTypeInv, AnRebuildsKnow, [An!Next]_An!vars
  PROVE  An!BackIfMissed
<1> SUFFICES ASSUME NEW c \in PoolCreds,
                    \/ An!Barred(c) /\ An!Barred(c)' /\ ~An!InPool(c) /\ An!InPool(c)'
                    \/ An!Throttled(c) /\ An!Throttled(c)' /\ An!Recorded(c) /\ An!Up(c)'
             PROVE  \E p \in Procs : An!StoreRows(p) /\ c \in missed[p]
  BY DEF An!BackIfMissed
<1>0. An!InPool(c)' /\ (~An!InPool(c) \/ (avail[c].until > clock /\ An!Up(c)' /\ ~An!Up(c)))
  BY DEF An!Up, An!Recorded
<1>1. PICK p \in Procs : An!StoreRows(p)
  <2>1. CASE UNCHANGED avail
    BY <1>0, <2>1 DEF An!InPool, An!Up
  <2>2. ASSUME NEW p \in Procs PROVE ~An!ApplyQuota(p) /\ ~An!Suspend(p) /\ ~An!ThrottleRow(p) /\ ~An!Evict(p)
    BY <1>0, AnEditsHold
  <2>3. ASSUME NEW p \in Procs, An!Step(p) PROVE UNCHANGED avail \/ An!StoreRows(p)
    BY <2>2, <2>3 DEF An!Step,
     An!ListRows, An!BuildRows, An!MergeThrottles, An!ClearExpired, An!RecordSuccess,
     An!CountFailure,
     An!ThrottleInDB, An!RememberThrottle, An!CheckUnauthorized, An!Verify,
     An!FinishValidation,
     An!RejectCredential, An!DisableInDB, An!MarkProbing, An!ProbeQuota, An!CompleteProbe,
     An!FetchQuota,
     An!UpsertQuota, An!ListAvailable, An!AdminSetStatus
  <2> QED
    BY <2>1, <2>3 DEF An!Next, An!Tick, An!vars, An!Start, An!Wake, An!StartJob
<1>2. me[p].pc = "store" /\ c \in DOMAIN me[p].work /\ avail' = me[p].work
  BY <1>0, <1>1 DEF An!StoreRows, An!At, An!InPool
<1>3. AnKnowsBarred(p) /\ AnKnowsChecked(p) /\ AnKnowsThrottled(p)
  BY <1>2 DEF AnRebuildsKnow, AnKnows
<1>4. c \in missed[p]
  BY <1>2, <1>3 DEF AnKnowsBarred, AnKnowsChecked, AnKnowsThrottled, An!Barred, An!Up
<1> QED
  BY <1>1, <1>4

\* A credential of Antigravity's that is disabled or under validation stays out of
\* the snapshot, and one within a window out of the selection, until it ends: but
\* for a rebuild that had looked before.
THEOREM AntigravityOutUntilMissed == An!Spec => An!BackOnlyIfMissed
  BY AnBackStep, AnTypeInvariant, AnKnowsInvariant, PTL DEF An!Spec, An!BackOnlyIfMissed

-----------------------------------------------------------------------------
(* OpenCodePool *)

\* Where a goroutine of the pool may stand: it is about a credential unless all
\* it does is rebuild, and it carries a snapshot where it needs one.
OcRebuildPCs == {"idle", "refresh", "join", "list", "merge", "store"}
OcMidPCs     == {"merge", "store"}
OcThens      == {"idle", "failDB", "unmark", "last"}
OcFrames     == [pc : Oc!PCs, op : Oc!AllOps \cup {"none", "wake", "probe"},
               c : PoolCreds \cup {None}, then : Oc!PCs, at : Oc!Times, n : 0 .. Threshold,
               work : Oc!Snapshots \cup {None}]
OcMayStand(pc, c, then, work) ==
  /\ then \in OcThens
  /\ c \in PoolCreds \/ (pc \in OcRebuildPCs /\ then = "idle")
  /\ pc \in OcMidPCs \cup Oc!Copying => work \in Oc!Snapshots
  /\ pc \in Oc!Copying => work # None
OcPlaced(r) == r \in OcFrames /\ OcMayStand(r.pc, r.c, r.then, r.work)
OcStanding  == me = [p \in Procs |-> me[p]] /\ \A p \in Procs : OcPlaced(me[p])

OcRowsTyped ==
  /\ db \in [PoolCreds -> Oc!CredRows]
  /\ throttle \in [PoolCreds -> [n : 0 .. Threshold, until : Oc!Times]]
  /\ probing \subseteq PoolCreds /\ spawned \subseteq PoolCreds
  /\ clock \in 0 .. MaxClock /\ flight \in Procs \cup {None}
  /\ mix \in OpenCodeMixes
  /\ missed \in [Procs -> SUBSET PoolCreds]
OcPoolTyped == avail \in Oc!Snapshots \cup {None}
OcTypeInv   == OcStanding /\ OcRowsTyped /\ OcPoolTyped

LEMMA OcClocks ==
  /\ 0 \in Oc!Times /\ 1 \in Oc!Times /\ Oc!NoState \in [n : 0 .. Threshold, until : Oc!Times]
  /\ \A x \in 0 .. MaxClock : x \in Oc!Times /\ x + 1 \in Oc!Times /\ x \in Nat
  /\ Oc!Times \subseteq Nat
  BY PoolAssumption DEF PoolAssumption, Oc!Times, Oc!NoState

LEMMA OcSnapshotRows ==
  ASSUME NEW X \in Oc!Snapshots
  PROVE  DOMAIN X \subseteq PoolCreds /\ \A c \in DOMAIN X : X[c] \in Oc!Rows
<1>1. PICK C \in SUBSET PoolCreds : X \in [C -> Oc!Rows]
  BY DEF Oc!Snapshots
<1> QED
  BY <1>1

LEMMA OcRowsSnapshot ==
  ASSUME NEW C \in SUBSET PoolCreds, NEW X \in [C -> Oc!Rows]
  PROVE  X \in Oc!Snapshots
  BY DEF Oc!Snapshots

LEMMA OcThensArePlaces == OcThens \subseteq Oc!PCs
  BY DEF OcThens, Oc!PCs

LEMMA OcScoredRow ==
  ASSUME NEW until \in Oc!Times, NEW now
  PROVE  Oc!Scored(until, now) \in Oc!Rows
<1> DEFINE up == until <= now
<1>1. Oc!Scored(until, now) = [up |-> up, until |-> until] /\ up \in BOOLEAN
  BY DEF Oc!Scored
<1> HIDE DEF up
<1> QED
  BY <1>1 DEF Oc!Rows

LEMMA OcIdlePlaced == OcPlaced(Oc!Idle)
  BY OcClocks, PoolAssumption DEF PoolAssumption, OcPlaced, OcMayStand, OcFrames, Oc!Idle,
     Oc!PCs, OcRebuildPCs, OcMidPCs, Oc!Copying, OcThens

LEMMA OcOneStands ==
  ASSUME OcStanding, NEW p \in Procs, NEW r, OcPlaced(r), me' = [me EXCEPT ![p] = r]
  PROVE  OcStanding'
<1>1. \A u \in Procs : me'[u] = IF u = p THEN r ELSE me[u]
  BY DEF OcStanding
<1>2. me' = [u \in Procs |-> me'[u]]
  BY <1>1 DEF OcStanding
<1>3. \A u \in Procs : OcPlaced(me'[u])
  BY <1>1 DEF OcStanding
<1> QED
  BY <1>2, <1>3 DEF OcStanding, OcPlaced, OcMayStand, OcRebuildPCs, OcMidPCs, Oc!Copying,
     OcThens, OcFrames,
     Oc!PCs, Oc!AllOps, Oc!Times, Oc!Snapshots, Oc!Rows

LEMMA OcGotoStands ==
  ASSUME OcStanding, NEW p \in Procs, NEW x, Oc!Goto(p, x), x \in Oc!PCs \ (OcMidPCs \cup Oc!Copying),
         me[p].c \in PoolCreds
  PROVE  OcStanding'
<1> DEFINE r == [me[p] EXCEPT !.pc = x]
<1>1. OcPlaced(r)
  BY DEF OcStanding, OcPlaced, OcFrames, OcMayStand
<1>2. me' = [me EXCEPT ![p] = r]
  BY DEF Oc!Goto
<1> HIDE DEF r
<1> QED
  BY <1>1, <1>2, OcOneStands

LEMMA OcCallStands ==
  ASSUME OcStanding, NEW p \in Procs, NEW x, NEW y, Oc!Call(p, x, y),
         x \in Oc!PCs \ (OcMidPCs \cup Oc!Copying), y \in OcThens, me[p].c \in PoolCreds
  PROVE  OcStanding'
<1> DEFINE r == [me[p] EXCEPT !.pc = x, !.then = y]
<1>0. me[p] \in OcFrames /\ y \in Oc!PCs
  BY OcThensArePlaces DEF OcStanding, OcPlaced
<1>1. r \in OcFrames /\ r.pc = x /\ r.then = y /\ r.c = me[p].c
  BY <1>0 DEF OcFrames
<1>2. me' = [me EXCEPT ![p] = r]
  BY DEF Oc!Call
<1>3. OcPlaced(r)
  BY <1>1 DEF OcPlaced, OcMayStand
<1> HIDE DEF r
<1> QED
  BY <1>2, <1>3, OcOneStands

LEMMA OcReturnStands ==
  ASSUME OcStanding, NEW p \in Procs, Oc!Return(p)
  PROVE  OcStanding'
  BY OcIdlePlaced, OcOneStands DEF Oc!Return

\* What a routine that returns goes back to.
LEMMA OcBackPlaced ==
  ASSUME NEW r, OcPlaced(r)
  PROVE  OcPlaced(Oc!Back(r)) /\ Oc!Back(r).pc \in OcThens
<1>1. CASE r.then = "idle"
  BY <1>1, OcIdlePlaced DEF Oc!Back, Oc!Idle, OcThens
<1>2. CASE r.then # "idle"
  <2> DEFINE s == [r EXCEPT !.pc = r.then, !.then = "idle", !.work = None]
  <2>1. Oc!Back(r) = s
    BY <1>2 DEF Oc!Back
  <2>2. s \in OcFrames /\ s.pc = r.then /\ s.then = "idle" /\ s.c = r.c /\ r.c \in PoolCreds /\ r.then \in OcThens
    BY <1>2, OcClocks DEF OcPlaced, OcMayStand, OcFrames, OcThens, Oc!PCs
  <2> HIDE DEF s
  <2> QED
    BY <2>1, <2>2 DEF OcPlaced, OcMayStand, OcThens, OcMidPCs, Oc!Copying
<1> QED
  BY <1>1, <1>2

LEMMA OcResumeStands ==
  ASSUME OcStanding, NEW p \in Procs, me' = [me EXCEPT ![p] = Oc!Back(@)]
  PROVE  OcStanding'
  BY OcBackPlaced, OcOneStands DEF OcStanding

LEMMA OcLeaveStands ==
  ASSUME OcStanding, NEW p \in Procs, Oc!LeaveRefresh(p)
  PROVE  OcStanding'
<1>1. me' = [u \in Procs |-> me'[u]] /\ \A u \in Procs : me'[u] = me[u] \/ me'[u] = Oc!Back(me[u])
  BY DEF Oc!LeaveRefresh
<1>2. \A u \in Procs : OcPlaced(me'[u])
  BY <1>1, OcBackPlaced DEF OcStanding
<1> QED
  BY <1>1, <1>2 DEF OcStanding, OcPlaced, OcMayStand, OcRebuildPCs, OcMidPCs, Oc!Copying,
     OcThens, OcFrames,
     Oc!PCs, Oc!AllOps, Oc!Times, Oc!Snapshots, Oc!Rows

\* A goroutine at work on anything but a rebuild is about a credential.
LEMMA OcOnCredential ==
  ASSUME OcStanding, NEW p \in Procs, me[p].pc \notin OcRebuildPCs
  PROVE  me[p].c \in PoolCreds
  BY DEF OcStanding, OcPlaced, OcMayStand

LEMMA OcStandStep ==
  ASSUME OcTypeInv, NEW p \in Procs, Oc!Step(p)
  PROVE  OcStanding'
<1>0. /\ OcStanding /\ OcRowsTyped /\ OcPoolTyped /\ OcPlaced(me[p]) /\ me[p] \in OcFrames
  BY DEF OcTypeInv, OcStanding, OcPlaced
<1>1. CASE Oc!EnterRefresh(p)
  <2>1. PICK x \in {"list", "join"} : Oc!Goto(p, x)
    BY <1>1 DEF Oc!EnterRefresh
  <2> DEFINE r == [me[p] EXCEPT !.pc = x]
  <2>2. r \in OcFrames /\ r.pc = x /\ r.c = me[p].c /\ r.then = me[p].then /\ me[p].pc = "refresh"
    BY <1>0, <1>1, <2>1 DEF Oc!EnterRefresh, Oc!At, OcFrames, Oc!PCs
  <2>3. me' = [me EXCEPT ![p] = r]
    BY <2>1 DEF Oc!Goto
  <2> HIDE DEF r
  <2>4. OcPlaced(r)
    BY <1>0, <2>1, <2>2 DEF OcPlaced, OcMayStand, OcRebuildPCs, OcMidPCs, Oc!Copying
  <2> QED
    BY <1>0, <2>3, <2>4, OcOneStands
<1>2. CASE Oc!ListRows(p)
  <2> DEFINE w == [c \in Oc!Listed |-> Oc!Scored(db[c].until, clock)]
             r == [me[p] EXCEPT !.pc = "merge", !.at = clock, !.work = w]
  <2>1. CASE Oc!LeaveRefresh(p)
    BY <1>0, <2>1, OcLeaveStands
  <2>2. CASE me' = [me EXCEPT ![p] = r]
    <3>1. Oc!Listed \in SUBSET PoolCreds /\ \A c \in Oc!Listed : Oc!Scored(db[c].until, clock) \in Oc!Rows
      BY <1>0, OcScoredRow DEF OcRowsTyped, Oc!Listed, Oc!CredRows
    <3>2. w \in Oc!Snapshots
      BY <3>1, OcRowsSnapshot
    <3> HIDE DEF w
    <3>3. r \in OcFrames /\ r.pc = "merge" /\ r.work = w /\ r.c = me[p].c /\ r.then = me[p].then
          /\ me[p].pc = "list"
      BY <1>0, <1>2, <3>2, OcClocks DEF Oc!ListRows, Oc!At, OcFrames, Oc!PCs, OcRowsTyped
    <3> HIDE DEF r
    <3>4. OcPlaced(r)
      BY <1>0, <3>2, <3>3 DEF OcPlaced, OcMayStand, OcRebuildPCs, OcMidPCs, Oc!Copying
    <3> QED
      BY <1>0, <2>2, <3>4, OcOneStands
  <2> QED
    BY <1>2, <2>1, <2>2 DEF Oc!ListRows
<1>4. CASE Oc!MergeThrottles(p)
  <2> DEFINE W == me[p].work
             w == [c \in DOMAIN W |-> Oc!MergedRow(W[c], throttle[c].until, me[p].at)]
             r == [me[p] EXCEPT !.pc = "store", !.work = w]
  <2>1. W \in Oc!Snapshots /\ me[p].pc = "merge"
    BY <1>0, <1>4 DEF Oc!MergeThrottles, Oc!At, OcPlaced, OcMayStand, OcMidPCs
  <2>2. DOMAIN W \in SUBSET PoolCreds /\ \A c \in DOMAIN W : W[c] \in Oc!Rows /\ throttle[c].until \in Oc!Times
    BY <1>0, <2>1, OcSnapshotRows DEF OcRowsTyped
  <2>3. \A c \in DOMAIN W : Oc!MergedRow(W[c], throttle[c].until, me[p].at) \in Oc!Rows
    BY <2>2 DEF Oc!MergedRow, Oc!Rows
  <2>4. w \in Oc!Snapshots
    BY <2>2, <2>3, OcRowsSnapshot
  <2>5. me' = [me EXCEPT ![p] = r]
    BY <1>4 DEF Oc!MergeThrottles
  <2> HIDE DEF w
  <2>6. r \in OcFrames /\ r.pc = "store" /\ r.work = w /\ r.c = me[p].c /\ r.then = me[p].then
    BY <1>0, <2>4 DEF OcFrames, Oc!PCs
  <2> HIDE DEF r
  <2>7. OcPlaced(r)
    BY <1>0, <2>1, <2>4, <2>6 DEF OcPlaced, OcMayStand, OcRebuildPCs, OcMidPCs, Oc!Copying
  <2> QED
    BY <1>0, <2>5, <2>7, OcOneStands
<1>5. CASE Oc!StoreRows(p)
  BY <1>0, <1>5, OcLeaveStands DEF Oc!StoreRows
<1>7. CASE Oc!Load(p) \/ Oc!StoreEdit(p)
  <2>1. CASE me' = [me EXCEPT ![p] = Oc!Back(@)]
    BY <1>0, <2>1, OcResumeStands
  <2>2. CASE Oc!Load(p) /\ avail # None
    <3> DEFINE x == Oc!Storing[me[p].pc]
               at == IF me[p].pc = "rescore" THEN clock ELSE me[p].at
               r == [me[p] EXCEPT !.pc = x, !.work = avail, !.at = at]
    <3>1. x \in Oc!Copying /\ me[p].c \in PoolCreds /\ avail \in Oc!Snapshots /\ at \in Oc!Times
      BY <1>0, <2>2, OcOnCredential, OcClocks
         DEF Oc!Load, Oc!Storing, Oc!Copying, OcPoolTyped, OcRebuildPCs, OcFrames,
            OcRowsTyped
    <3>2. me' = [me EXCEPT ![p] = r]
      <4>1. me' = [me EXCEPT ![p] = [@ EXCEPT !.pc = x, !.work = avail,
                     !.at = IF me[p].pc = "rescore" THEN clock ELSE me[p].at]]
        BY <2>2 DEF Oc!Load
      <4> QED
        BY <1>0, <4>1 DEF OcStanding, OcFrames
    <3> HIDE DEF x, at
    <3>3. r \in OcFrames /\ r.pc = x /\ r.work = avail /\ r.c = me[p].c /\ r.then = me[p].then
      BY <1>0, <3>1 DEF OcFrames, Oc!PCs, Oc!Copying
    <3> HIDE DEF r
    <3>4. OcPlaced(r)
      BY <1>0, <2>2, <3>1, <3>3 DEF OcPlaced, OcMayStand
    <3> QED
      BY <1>0, <3>2, <3>4, OcOneStands
  <2> QED
    BY <1>7, <2>1, <2>2 DEF Oc!Load, Oc!StoreEdit
<1>11. CASE Oc!RecordSuccess(p) \/ Oc!RememberThrottle(p) \/ Oc!ThrottleInDB(p) \/ Oc!RejectCredential(p)
            \/ Oc!MarkProbing(p) \/ Oc!RefreshQuota(p) \/ Oc!CompleteProbe(p) \/ Oc!CacheRows(p)
            \/ Oc!ListAvailable(p) \/ Oc!AdminSetStatus(p)
  <2>1. me[p].c \in PoolCreds
    BY <1>0, <1>11, OcOnCredential DEF Oc!RecordSuccess, Oc!RememberThrottle,
       Oc!ThrottleInDB,
       Oc!RejectCredential, Oc!MarkProbing, Oc!RefreshQuota, Oc!CompleteProbe,
       Oc!CacheRows, Oc!ListAvailable,
       Oc!AdminSetStatus, Oc!At, OcRebuildPCs
  <2>2. CASE Oc!RefreshQuota(p)
    <3>1. PICK x \in {"unmark", "last"} : Oc!Goto(p, x) \/ Oc!Call(p, "refresh", x)
      BY <2>2 DEF Oc!RefreshQuota
    <3> QED
      BY <1>0, <2>1, <3>1, OcGotoStands, OcCallStands DEF Oc!PCs, OcMidPCs, Oc!Copying,
         OcThens
  <2>3. CASE Oc!ListAvailable(p)
    <3>1. Oc!Goto(p, "refresh") \/ Oc!Return(p)
      BY <2>3 DEF Oc!ListAvailable
    <3> QED
      BY <1>0, <2>1, <3>1, OcGotoStands, OcReturnStands DEF Oc!PCs, OcMidPCs, Oc!Copying
  <2> QED
    BY <1>0, <1>11, <2>1, <2>2, <2>3, OcGotoStands, OcCallStands, OcReturnStands
       DEF Oc!RecordSuccess, Oc!RememberThrottle, Oc!ThrottleInDB, Oc!RejectCredential,
          Oc!MarkProbing,
       Oc!CompleteProbe, Oc!CacheRows, Oc!AdminSetStatus, Oc!PCs, OcMidPCs, Oc!Copying,
       OcThens
<1>12. CASE Oc!CountFailure(p)
  <2> DEFINE n == (IF Oc!Expired(throttle[me[p].c].until) THEN 0 ELSE throttle[me[p].c].n) + 1
             k == IF n > Threshold THEN Threshold ELSE n
             r == [me[p] EXCEPT !.pc = "remember", !.at = clock + 1, !.n = k]
  <2>1. me[p].c \in PoolCreds /\ clock + 1 \in Oc!Times
    BY <1>0, <1>12, OcOnCredential, OcClocks DEF Oc!CountFailure, Oc!At, OcRebuildPCs,
       OcRowsTyped
  <2>2. k \in 0 .. Threshold
    BY <1>0, <2>1, PoolAssumption DEF PoolAssumption, OcRowsTyped
  <2>3. Oc!Return(p) \/ me' = [me EXCEPT ![p] = r]
    BY <1>12 DEF Oc!CountFailure
  <2> HIDE DEF k
  <2>4. r \in OcFrames /\ r.pc = "remember" /\ r.c = me[p].c /\ r.then = me[p].then
    BY <1>0, <2>1, <2>2 DEF OcFrames, Oc!PCs
  <2> HIDE DEF r
  <2>5. OcPlaced(r)
    BY <1>0, <2>1, <2>4 DEF OcPlaced, OcMayStand, OcMidPCs, Oc!Copying
  <2> QED
    BY <1>0, <2>3, <2>5, OcReturnStands, OcOneStands
<1> QED
  BY <1>1, <1>2, <1>4, <1>5, <1>7, <1>11, <1>12 DEF Oc!Step

LEMMA OcRowsStep ==
  ASSUME OcTypeInv, NEW p \in Procs, Oc!Step(p), UNCHANGED mix
  PROVE  OcRowsTyped'
<1>0. /\ OcStanding /\ OcRowsTyped /\ me[p] \in OcFrames /\ clock' = clock
      /\ me[p].pc \notin OcRebuildPCs => me[p].c \in PoolCreds
      /\ me[p].at \in Oc!Times /\ clock \in Oc!Times /\ me[p].n \in 0 .. Threshold
  BY OcOnCredential, OcClocks DEF OcTypeInv, OcStanding, OcPlaced, OcFrames, OcRowsTyped,
     Oc!Step,
     Oc!EnterRefresh, Oc!ListRows, Oc!MergeThrottles, Oc!StoreRows, Oc!Load, Oc!StoreEdit,
     Oc!RecordSuccess,
     Oc!CountFailure, Oc!RememberThrottle, Oc!ThrottleInDB, Oc!RejectCredential,
     Oc!MarkProbing,
     Oc!RefreshQuota, Oc!CompleteProbe, Oc!CacheRows, Oc!ListAvailable, Oc!AdminSetStatus
<1> DEFINE States == [n : 0 .. Threshold, until : Oc!Times]
<1>1. throttle' \in [PoolCreds -> States]
  <2>0. Oc!NoState \in States /\ throttle \in [PoolCreds -> States]
    BY <1>0, OcClocks DEF OcRowsTyped
  <2>2. CASE Oc!RecordSuccess(p)
    BY <2>0, <2>2 DEF Oc!RecordSuccess
  <2>3. CASE Oc!RememberThrottle(p)
    <3>1. me[p].c \in PoolCreds
      BY <1>0, <2>3 DEF Oc!RememberThrottle, Oc!At, OcRebuildPCs
    <3> DEFINE k == IF throttle[me[p].c] = Oc!NoState THEN me[p].n ELSE throttle[me[p].c].n
    <3>2. k \in 0 .. Threshold
      BY <1>0, <2>0, <3>1
    <3>3. throttle' = [throttle EXCEPT ![me[p].c] = [n |-> k, until |-> me[p].at]]
      BY <2>3 DEF Oc!RememberThrottle
    <3> HIDE DEF k
    <3> QED
      BY <1>0, <2>0, <3>2, <3>3
  <2>4. CASE Oc!CountFailure(p)
    <3>1. me[p].c \in PoolCreds
      BY <1>0, <2>4 DEF Oc!CountFailure, Oc!At, OcRebuildPCs
    <3> DEFINE n == (IF Oc!Expired(throttle[me[p].c].until) THEN 0 ELSE throttle[me[p].c].n) + 1
               k == IF n > Threshold THEN Threshold ELSE n
    <3>2. k \in 0 .. Threshold
      BY <2>0, <3>1, PoolAssumption DEF PoolAssumption
    <3>3. throttle' = [throttle EXCEPT ![me[p].c].n = k]
      BY <2>4 DEF Oc!CountFailure
    <3> HIDE DEF k
    <3> QED
      BY <2>0, <3>1, <3>2, <3>3
  <2>5. CASE Oc!MergeThrottles(p)
    BY <2>0, <2>5 DEF Oc!MergeThrottles
  <2>6. CASE UNCHANGED throttle
    BY <2>0, <2>6
  <2> QED
    BY <2>2, <2>3, <2>4, <2>5, <2>6 DEF Oc!Step,
     Oc!EnterRefresh, Oc!ListRows, Oc!StoreRows, Oc!Load, Oc!StoreEdit, Oc!ThrottleInDB,
     Oc!RejectCredential,
     Oc!MarkProbing, Oc!RefreshQuota, Oc!CompleteProbe, Oc!CacheRows, Oc!ListAvailable,
     Oc!AdminSetStatus
<1>2. db' \in [PoolCreds -> Oc!CredRows]
  <2>0. db \in [PoolCreds -> Oc!CredRows] /\ Oc!Cleared(TRUE) \in Oc!CredRows /\ Oc!Cleared(FALSE) \in Oc!CredRows
    BY <1>0 DEF OcRowsTyped, Oc!Cleared, Oc!CredRows
  <2>1. CASE Oc!ThrottleInDB(p)
    BY <1>0, <2>0, <2>1 DEF Oc!ThrottleInDB, Oc!CredRows
  <2>2. CASE Oc!RejectCredential(p) \/ Oc!AdminSetStatus(p)
    <3>1. UNCHANGED db \/ (\E row \in Oc!CredRows : db' = [db EXCEPT ![me[p].c] = row])
      BY <2>0, <2>2 DEF Oc!RejectCredential, Oc!AdminSetStatus
    <3> QED
      BY <2>0, <3>1
  <2>4. CASE UNCHANGED db
    BY <2>0, <2>4
  <2> QED
    BY <2>1, <2>2, <2>4 DEF Oc!Step,
     Oc!EnterRefresh, Oc!ListRows, Oc!MergeThrottles, Oc!StoreRows, Oc!Load, Oc!StoreEdit,
     Oc!RecordSuccess,
     Oc!CountFailure, Oc!RememberThrottle, Oc!MarkProbing, Oc!RefreshQuota,
     Oc!CompleteProbe, Oc!CacheRows,
     Oc!ListAvailable
<1>3. probing' \subseteq PoolCreds /\ spawned' \subseteq PoolCreds /\ flight' \in Procs \cup {None}
  BY <1>0 DEF OcRowsTyped, OcRebuildPCs, Oc!At, Oc!LeaveRefresh, Oc!Step,
     Oc!EnterRefresh, Oc!ListRows, Oc!MergeThrottles, Oc!StoreRows, Oc!Load, Oc!StoreEdit,
     Oc!RecordSuccess,
     Oc!CountFailure, Oc!RememberThrottle, Oc!ThrottleInDB, Oc!RejectCredential,
     Oc!MarkProbing,
     Oc!RefreshQuota, Oc!CompleteProbe, Oc!CacheRows, Oc!ListAvailable, Oc!AdminSetStatus
<1>6. missed' \in [Procs -> SUBSET PoolCreds]
  <2>1. CASE Oc!StoreRows(p)
    BY <1>0, <2>1 DEF Oc!StoreRows, OcRowsTyped
  <2>2. ASSUME NEW c \in PoolCreds, NEW S PROVE Oc!Overtaken(c, S) \in [Procs -> SUBSET PoolCreds]
    BY <1>0 DEF Oc!Overtaken, OcRowsTyped
  <2>3. CASE Oc!RememberThrottle(p) \/ Oc!RejectCredential(p) \/ Oc!AdminSetStatus(p)
    <3>1. me[p].c \in PoolCreds
      BY <1>0, <2>3 DEF Oc!RememberThrottle, Oc!RejectCredential, Oc!AdminSetStatus, Oc!At,
         OcRebuildPCs
    <3>2. \/ UNCHANGED missed
          \/ missed' = Oc!Overtaken(me[p].c, {"store"})
          \/ missed' = Oc!Overtaken(me[p].c, {"merge", "store"})
      BY <2>3 DEF Oc!RememberThrottle, Oc!RejectCredential, Oc!AdminSetStatus
    <3> QED
      BY <1>0, <2>2, <3>1, <3>2 DEF OcRowsTyped
  <2>4. CASE UNCHANGED missed
    BY <1>0, <2>4 DEF OcRowsTyped
  <2> QED
    BY <2>1, <2>3, <2>4 DEF Oc!Step,
     Oc!EnterRefresh, Oc!ListRows, Oc!MergeThrottles, Oc!Load, Oc!StoreEdit,
     Oc!RecordSuccess, Oc!CountFailure,
     Oc!ThrottleInDB, Oc!MarkProbing, Oc!RefreshQuota, Oc!CompleteProbe, Oc!CacheRows,
     Oc!ListAvailable
<1> QED
  BY <1>0, <1>1, <1>2, <1>3, <1>6 DEF OcRowsTyped, Oc!CredRows, Oc!Times

LEMMA OcPoolStep ==
  ASSUME OcTypeInv, NEW p \in Procs, Oc!Step(p)
  PROVE  OcPoolTyped'
<1>0. OcPoolTyped /\ OcPlaced(me[p]) /\ me[p] \in OcFrames
  BY DEF OcTypeInv, OcStanding, OcPlaced
<1>1. CASE Oc!StoreRows(p)
  BY <1>0, <1>1 DEF Oc!StoreRows, OcPoolTyped, OcFrames, Oc!Snapshots, Oc!Rows, Oc!Times
<1>2. CASE Oc!StoreEdit(p)
  <2> DEFINE m == me[p]
             D == [c \in DOMAIN m.work \ {m.c} |-> m.work[c]]
             U == [c \in DOMAIN m.work |-> Oc!Rescored(m.work[c], m.at)]
             T == [c \in DOMAIN m.work |-> IF c = m.c THEN [up |-> FALSE, until |-> m.at] ELSE m.work[c]]
  <2>1. m.work \in Oc!Snapshots /\ m.at \in Oc!Times /\ m.pc \in Oc!Copying
    BY <1>0, <1>2 DEF Oc!StoreEdit, OcPlaced, OcMayStand, OcFrames
  <2>2. DOMAIN m.work \subseteq PoolCreds /\ \A c \in DOMAIN m.work : m.work[c] \in Oc!Rows
    BY <2>1, OcSnapshotRows
  <2>3. avail' = D \/ avail' = U \/ avail' = T
    BY <1>2, <2>1 DEF Oc!StoreEdit, Oc!Edited, Oc!Copying
  <2> HIDE DEF m
  <2>4. \A c \in DOMAIN m.work : /\ Oc!Rescored(m.work[c], m.at) \in Oc!Rows
                                 /\ [up |-> FALSE, until |-> m.at] \in Oc!Rows
    BY <2>1, <2>2, OcScoredRow DEF Oc!Rows, Oc!Rescored
  <2>5. /\ D \in [DOMAIN m.work \ {m.c} -> Oc!Rows] /\ U \in [DOMAIN m.work -> Oc!Rows]
        /\ T \in [DOMAIN m.work -> Oc!Rows]
    BY <2>2, <2>4
  <2> HIDE DEF D, U, T
  <2>6. avail' \in Oc!Snapshots
    BY <2>2, <2>3, <2>5, OcRowsSnapshot
  <2> QED
    BY <2>6 DEF OcPoolTyped, Oc!Snapshots, Oc!Rows, Oc!Times
<1>4. CASE UNCHANGED avail
  BY <1>0, <1>4 DEF OcPoolTyped, Oc!Snapshots, Oc!Rows, Oc!Times
<1> QED
  BY <1>1, <1>2, <1>4 DEF Oc!Step,
     Oc!EnterRefresh, Oc!ListRows, Oc!MergeThrottles, Oc!Load, Oc!RecordSuccess,
     Oc!CountFailure,
     Oc!RememberThrottle, Oc!ThrottleInDB, Oc!RejectCredential, Oc!MarkProbing,
     Oc!RefreshQuota,
     Oc!CompleteProbe, Oc!CacheRows, Oc!ListAvailable, Oc!AdminSetStatus

\* What is started.
LEMMA OcBegins ==
  ASSUME OcTypeInv, NEW p \in Procs, NEW op \in DOMAIN Oc!First, NEW c,
         c \in PoolCreds \/ (op = "wake" /\ c = None), Oc!Run(p, op, c)
  PROVE  OcStanding' /\ me'[p].pc = Oc!First[op] /\ \A u \in Procs \ {p} : me'[u] = me[u]
<1> DEFINE r == [Oc!Idle EXCEPT !.pc = Oc!First[op], !.op = op, !.c = c]
<1>0. Oc!First[op] \in Oc!PCs /\ op \in Oc!AllOps \cup {"wake", "probe"} /\ Oc!Idle \in OcFrames
  BY OcIdlePlaced DEF OcPlaced, Oc!First, Oc!PCs, Oc!AllOps
<1>1. r \in OcFrames /\ r.pc = Oc!First[op] /\ r.c = c /\ r.then = "idle"
  BY <1>0 DEF OcFrames, Oc!Idle
<1>2. r.pc \notin OcMidPCs \cup Oc!Copying /\ (op = "wake" => r.pc \in OcRebuildPCs)
  BY <1>1 DEF Oc!First, OcMidPCs, Oc!Copying, OcRebuildPCs
<1>3. me' = [me EXCEPT ![p] = r]
  BY DEF Oc!Run
<1> HIDE DEF r
<1>4. OcPlaced(r)
  BY <1>1, <1>2 DEF OcPlaced, OcMayStand, OcThens
<1> QED
  BY <1>1, <1>3, <1>4, OcOneStands DEF OcTypeInv, OcStanding

LEMMA OcTypeStep ==
  ASSUME OcTypeInv, [Oc!Next]_Oc!vars
  PROVE  OcTypeInv'
<1>0. OcStanding /\ OcRowsTyped /\ OcPoolTyped
  BY DEF OcTypeInv
<1>1. CASE Oc!Tick \/ UNCHANGED Oc!vars
  <2>1. /\ UNCHANGED <<db, avail, throttle, probing, flight, spawned, mix, me, missed>>
        /\ clock' \in 0 .. MaxClock
    BY <1>0, <1>1, PoolAssumption DEF Oc!Tick, Oc!vars, Oc!Next, OcRowsTyped, PoolAssumption
  <2>2. OcRowsTyped' /\ OcPoolTyped'
    BY <1>0, <2>1 DEF OcRowsTyped, OcPoolTyped, Oc!Snapshots, Oc!Rows, Oc!CredRows, Oc!Times
  <2>3. OcStanding'
    BY <1>0, <2>1 DEF OcStanding, OcPlaced, OcMayStand, OcRebuildPCs, OcMidPCs, Oc!Copying,
       OcThens, OcFrames,
       Oc!PCs, Oc!AllOps, Oc!Times, Oc!Snapshots, Oc!Rows
  <2> QED
    BY <2>2, <2>3 DEF OcTypeInv
<1>2. ASSUME UNCHANGED <<clock, db, avail, throttle, probing, flight, mix, missed>>,
             spawned' \subseteq spawned
      PROVE  OcRowsTyped' /\ OcPoolTyped'
  BY <1>0, <1>2 DEF OcRowsTyped, OcPoolTyped, Oc!Snapshots, Oc!Rows, Oc!CredRows, Oc!Times
<1>3. ASSUME NEW p \in Procs, NEW op \in Oc!AllOps, NEW c \in PoolCreds, Oc!Start(p, op, c), UNCHANGED mix
      PROVE  OcTypeInv'
  <2>1. op \in DOMAIN Oc!First
    BY DEF Oc!AllOps, Oc!First
  <2> QED
    BY <1>2, <1>3, <2>1, OcBegins DEF Oc!Start, OcTypeInv
<1>4. ASSUME NEW p \in Procs, Oc!Wake(p), UNCHANGED mix PROVE OcTypeInv'
  <2>1. "wake" \in DOMAIN Oc!First
    BY DEF Oc!First
  <2> QED
    BY <1>2, <1>4, <2>1, OcBegins DEF Oc!Wake, OcTypeInv
<1>5. ASSUME NEW p \in Procs, NEW c \in PoolCreds, Oc!StartProbe(p, c), UNCHANGED mix PROVE OcTypeInv'
  <2>1. "probe" \in DOMAIN Oc!First
    BY DEF Oc!First
  <2> QED
    BY <1>2, <1>5, <2>1, OcBegins DEF Oc!StartProbe, OcTypeInv
<1>6. ASSUME NEW p \in Procs, Oc!Step(p), UNCHANGED mix PROVE OcTypeInv'
  BY <1>6, OcStandStep, OcRowsStep, OcPoolStep DEF OcTypeInv
<1> QED
  BY <1>1, <1>3, <1>4, <1>5, <1>6 DEF Oc!Next

LEMMA OcInitTypes == Oc!Init => OcTypeInv
<1> SUFFICES ASSUME Oc!Init PROVE OcTypeInv
  OBVIOUS
<1>1. PICK on \in [PoolCreds -> BOOLEAN] : db = [c \in PoolCreds |-> [on |-> on[c], until |-> 0]]
  BY DEF Oc!Init
<1>2. db \in [PoolCreds -> Oc!CredRows]
  BY <1>1, OcClocks DEF Oc!CredRows
<1>3. OcStanding
  BY OcIdlePlaced DEF Oc!Init, OcStanding
<1> QED
  BY <1>2, <1>3, OcClocks, PoolAssumption DEF Oc!Init, OcTypeInv, OcRowsTyped, OcPoolTyped,
     PoolAssumption

LEMMA OcTypeInvariant == Oc!Spec => []OcTypeInv
  BY OcInitTypes, OcTypeStep, PTL DEF Oc!Spec

LEMMA OcTypes == OcTypeInv => Oc!TypeOK
<1> SUFFICES ASSUME OcTypeInv PROVE Oc!TypeOK
  OBVIOUS
<1>1. me \in [Procs -> OcFrames]
  BY DEF OcTypeInv, OcStanding, OcPlaced
<1> QED
  BY <1>1 DEF OcTypeInv, OcRowsTyped, OcPoolTyped, Oc!TypeOK, OcFrames

THEOREM OpenCodeTypes == Oc!Spec => []Oc!TypeOK
  BY OcTypeInvariant, OcTypes, PTL

\* Only its own steps bring a rebuild, or an edit of the scores, to these places.
OcKnowPCs == OcMidPCs \cup {"rescoreStore"}
LEMMA OcRebuildMoves ==
  ASSUME OcTypeInv, NEW p \in Procs, Oc!Step(p), NEW u \in Procs, me'[u].pc \in OcKnowPCs
  PROVE  me'[u] = me[u] \/ (u = p /\ (Oc!ListRows(p) \/ Oc!MergeThrottles(p) \/ Oc!Load(p)))
<1>0. /\ me = [v \in Procs |-> me[v]] /\ \A v \in Procs : OcPlaced(me[v]) /\ me[v] \in OcFrames
  BY DEF OcTypeInv, OcStanding, OcPlaced
<1>1. ASSUME NEW v \in Procs, me'[v] = Oc!Back(me[v]) PROVE me'[v].pc \notin OcKnowPCs
  BY <1>0, <1>1, OcBackPlaced DEF OcThens, OcMidPCs, OcKnowPCs
<1>15. CASE Oc!ListRows(p) \/ Oc!MergeThrottles(p) \/ Oc!Load(p)
  <2>1. \A v \in Procs \ {p} : me'[v] = me[v] \/ me'[v] = Oc!Back(me[v])
    BY <1>0, <1>15 DEF Oc!ListRows, Oc!MergeThrottles, Oc!Load, Oc!LeaveRefresh
  <2> QED
    BY <1>1, <1>15, <2>1
<1> SUFFICES ASSUME ~Oc!ListRows(p), ~Oc!MergeThrottles(p), ~Oc!Load(p), me'[u] # me[u]
             PROVE  FALSE
  BY <1>15
<1>3. ASSUME NEW x, Oc!Goto(p, x), x \notin OcKnowPCs PROVE FALSE
  BY <1>0, <1>3 DEF Oc!Goto, OcFrames
<1>4. ASSUME NEW x, NEW y, Oc!Call(p, x, y), x \notin OcKnowPCs PROVE FALSE
  BY <1>0, <1>4 DEF Oc!Call, OcFrames
<1>5. ASSUME Oc!Return(p) PROVE FALSE
  BY <1>0, <1>5 DEF Oc!Return, Oc!Idle, OcMidPCs, OcKnowPCs
<1>7. CASE Oc!StoreRows(p) \/ Oc!StoreEdit(p)
  <2>1. \A v \in Procs : me'[v] = me[v] \/ me'[v] = Oc!Back(me[v])
    BY <1>0, <1>7 DEF Oc!StoreRows, Oc!StoreEdit, Oc!LeaveRefresh
  <2> QED
    BY <1>1, <2>1
<1>8. CASE Oc!EnterRefresh(p) \/ Oc!RecordSuccess(p) \/ Oc!RememberThrottle(p) \/ Oc!ThrottleInDB(p)
           \/ Oc!RejectCredential(p) \/ Oc!MarkProbing(p) \/ Oc!CompleteProbe(p) \/ Oc!CacheRows(p)
           \/ Oc!ListAvailable(p) \/ Oc!AdminSetStatus(p)
  BY <1>3, <1>4, <1>5, <1>8 DEF Oc!EnterRefresh, Oc!RecordSuccess, Oc!RememberThrottle,
     Oc!ThrottleInDB,
     Oc!RejectCredential, Oc!MarkProbing, Oc!CompleteProbe, Oc!CacheRows, Oc!ListAvailable,
     Oc!AdminSetStatus,
     OcMidPCs, OcKnowPCs
<1>9. CASE Oc!RefreshQuota(p)
  <2>1. PICK x \in {"unmark", "last"} : Oc!Goto(p, x) \/ Oc!Call(p, "refresh", x)
    BY <1>9 DEF Oc!RefreshQuota
  <2> QED
    BY <1>3, <1>4, <2>1 DEF OcMidPCs, OcKnowPCs
<1>10. CASE Oc!CountFailure(p)
  <2>1. PICK at, k : Oc!Return(p) \/ me' = [me EXCEPT ![p] = [@ EXCEPT !.pc = "remember", !.at = at, !.n = k]]
    BY <1>10 DEF Oc!CountFailure
  <2> QED
    BY <1>0, <1>5, <2>1 DEF OcFrames, OcMidPCs, OcKnowPCs
<1> QED
  BY <1>7, <1>8, <1>9, <1>10 DEF Oc!Step

\* What a rebuild may carry and not know of: nobody disabled; once it has merged
\* the windows in memory, no slot within one.  Scores are not of a later instant.
OcKnowsBarred(p)    == \A c \in DOMAIN me[p].work : ~db[c].on => c \in missed[p]
OcKnowsThrottled(p) == \A c \in DOMAIN me[p].work :
                       me[p].work[c].up /\ Oc!Throttled(c) => c \in missed[p]
OcKnows(p) == /\ me[p].pc \in OcKnowPCs => me[p].at <= clock
              /\ me[p].pc \in {"merge", "store"} => OcKnowsBarred(p)
              /\ me[p].pc = "store" => OcKnowsThrottled(p)
OcRebuildsKnow == \A p \in Procs : OcKnows(p)

\* Nothing is forgotten while a rebuild is on its way, and what it has looked at
\* too early is news to it.
LEMMA OcNewsComes ==
  ASSUME OcTypeInv, NEW p \in Procs, Oc!Step(p), NEW u \in Procs,
         me[u].pc \in OcMidPCs, ~(u = p /\ Oc!StoreRows(p)), NEW c \in PoolCreds
  PROVE  /\ c \in missed[u] => c \in missed'[u]
         /\ ~db'[c].on /\ db[c].on => c \in missed'[u]
         /\ me[u].pc = "store" /\ Oc!Throttled(c)' /\ ~Oc!Throttled(c) => c \in missed'[u]
<1>0. /\ missed \in [Procs -> SUBSET PoolCreds] /\ clock \in Nat /\ clock' = clock
      /\ throttle \in [PoolCreds -> [n : 0 .. Threshold, until : Oc!Times]]
      /\ db \in [PoolCreds -> Oc!CredRows] /\ Oc!NoState.until = 0
  BY OcClocks DEF OcTypeInv, OcRowsTyped, Oc!NoState, Oc!Step,
     Oc!EnterRefresh, Oc!ListRows, Oc!MergeThrottles, Oc!StoreRows, Oc!Load, Oc!StoreEdit,
     Oc!RecordSuccess,
     Oc!CountFailure, Oc!RememberThrottle, Oc!ThrottleInDB, Oc!RejectCredential,
     Oc!MarkProbing,
     Oc!RefreshQuota, Oc!CompleteProbe, Oc!CacheRows, Oc!ListAvailable, Oc!AdminSetStatus
<1>2. CASE Oc!RememberThrottle(p)
  <2>1. /\ UNCHANGED db
        /\ missed'[u] = IF me[u].pc = "store" THEN missed[u] \cup {me[p].c} ELSE missed[u]
    BY <1>0, <1>2 DEF Oc!RememberThrottle, Oc!Overtaken
  <2>2. c # me[p].c => throttle'[c] = throttle[c]
    BY <1>0, <1>2 DEF Oc!RememberThrottle
  <2> QED
    BY <1>0, <2>1, <2>2 DEF Oc!Throttled
<1>3. CASE Oc!RejectCredential(p) \/ Oc!AdminSetStatus(p)
  <2>1. UNCHANGED throttle
    BY <1>3 DEF Oc!RejectCredential, Oc!AdminSetStatus
  <2>2. \/ UNCHANGED <<db, missed>>
        \/ db' = [db EXCEPT ![me[p].c] = Oc!Cleared(TRUE)] /\ UNCHANGED missed
        \/ /\ db' = [db EXCEPT ![me[p].c] = Oc!Cleared(FALSE)]
           /\ missed'[u] = missed[u] \cup {me[p].c}
    BY <1>0, <1>3 DEF Oc!RejectCredential, Oc!AdminSetStatus, Oc!Overtaken, OcMidPCs
  <2>3. c # me[p].c => db'[c] = db[c]
    BY <1>0, <2>2
  <2> QED
    BY <1>0, <2>1, <2>2, <2>3 DEF Oc!Throttled, Oc!Cleared
<1>4. CASE Oc!StoreRows(p)
  BY <1>0, <1>4 DEF Oc!StoreRows, Oc!Throttled
<1>5. CASE Oc!RecordSuccess(p) \/ Oc!MergeThrottles(p)
  <2>1. UNCHANGED <<missed, db>>
    BY <1>5 DEF Oc!RecordSuccess, Oc!MergeThrottles
  <2>2. throttle'[c] = throttle[c] \/ throttle'[c] = Oc!NoState
    BY <1>0, <1>5 DEF Oc!RecordSuccess, Oc!MergeThrottles
  <2> QED
    BY <1>0, <2>1, <2>2 DEF Oc!Throttled
<1>6. CASE Oc!CountFailure(p)
  <2>1. UNCHANGED <<missed, db>>
    BY <1>6 DEF Oc!CountFailure
  <2>2. PICK k : throttle' = [throttle EXCEPT ![me[p].c].n = k]
    BY <1>6 DEF Oc!CountFailure
  <2>3. throttle'[c].until = throttle[c].until
    BY <1>0, <2>2
  <2> QED
    BY <1>0, <2>1, <2>3 DEF Oc!Throttled
<1>7. CASE Oc!ThrottleInDB(p)
  <2>1. UNCHANGED <<missed, throttle>>
    BY <1>7 DEF Oc!ThrottleInDB
  <2>2. UNCHANGED db \/ db' = [db EXCEPT ![me[p].c].until = me[p].at]
    BY <1>7 DEF Oc!ThrottleInDB
  <2>3. /\ db = [d \in PoolCreds |-> db[d]]
        /\ db[c] = [on |-> db[c].on, until |-> db[c].until]
    BY <1>0 DEF Oc!CredRows
  <2>4. db'[c].on = db[c].on
    BY <2>2, <2>3
  <2> QED
    BY <1>0, <2>1, <2>4 DEF Oc!Throttled
<1>9. CASE UNCHANGED <<throttle, missed, db>>
  BY <1>0, <1>9 DEF Oc!Throttled
<1> QED
  BY <1>2, <1>3, <1>4, <1>5, <1>6, <1>7, <1>9 DEF Oc!Step,
     Oc!EnterRefresh, Oc!ListRows, Oc!Load, Oc!StoreEdit, Oc!MarkProbing, Oc!RefreshQuota,
     Oc!CompleteProbe,
     Oc!CacheRows, Oc!ListAvailable

LEMMA OcKnowsStep ==
  ASSUME OcTypeInv, OcRebuildsKnow, NEW p \in Procs, Oc!Step(p), NEW u \in Procs
  PROVE  OcKnows(u)'
<1>0. /\ me = [v \in Procs |-> me[v]] /\ OcPlaced(me[u]) /\ me[u] \in OcFrames
      /\ OcRowsTyped /\ clock \in Nat /\ clock' = clock /\ OcKnows(u)
  BY OcClocks DEF OcTypeInv, OcStanding, OcPlaced, OcRebuildsKnow, OcRowsTyped, Oc!Step,
     Oc!EnterRefresh, Oc!ListRows, Oc!MergeThrottles, Oc!StoreRows, Oc!Load, Oc!StoreEdit,
     Oc!RecordSuccess,
     Oc!CountFailure, Oc!RememberThrottle, Oc!ThrottleInDB, Oc!RejectCredential,
     Oc!MarkProbing,
     Oc!RefreshQuota, Oc!CompleteProbe, Oc!CacheRows, Oc!ListAvailable, Oc!AdminSetStatus
<1> SUFFICES ASSUME me'[u].pc \in OcKnowPCs PROVE OcKnows(u)'
  BY DEF OcKnows, OcMidPCs, OcKnowPCs
<1>1. CASE me'[u] = me[u] /\ me[u].pc \in OcMidPCs
  <2>1. ~(u = p /\ Oc!StoreRows(p))
    <3> SUFFICES ASSUME u = p, Oc!StoreRows(p) PROVE FALSE
      OBVIOUS
    <3>1. me'[u] = Oc!Back(me[u])
      BY <1>0 DEF Oc!StoreRows, Oc!LeaveRefresh
    <3> QED
      BY <1>0, <1>1, <3>1, OcBackPlaced DEF OcThens, OcMidPCs
  <2>2. me[u].work \in Oc!Snapshots
    BY <1>0, <1>1 DEF OcPlaced, OcMayStand
  <2>3. \A c \in DOMAIN me[u].work :
          /\ c \in missed[u] => c \in missed'[u]
          /\ ~db'[c].on /\ db[c].on => c \in missed'[u]
          /\ me[u].pc = "store" /\ Oc!Throttled(c)' /\ ~Oc!Throttled(c) => c \in missed'[u]
    BY <1>1, <2>1, <2>2, OcSnapshotRows, OcNewsComes
  <2> QED
    BY <1>0, <1>1, <2>3 DEF OcKnows, OcKnowsBarred, OcKnowsThrottled, OcMidPCs, OcKnowPCs
<1>2. CASE me'[u] = me[u] /\ me[u].pc \notin OcMidPCs
  BY <1>0, <1>2 DEF OcKnows, OcMidPCs, OcKnowPCs
<1>3. CASE u = p /\ Oc!ListRows(p) /\ me'[u] # me[u]
  <2> DEFINE w == [c \in Oc!Listed |-> Oc!Scored(db[c].until, clock)]
  <2>1. me' = [me EXCEPT ![p] = [@ EXCEPT !.pc = "merge", !.at = clock, !.work = w]]
    <3>1. ~Oc!LeaveRefresh(p)
      BY <1>0, <1>3, OcBackPlaced DEF Oc!LeaveRefresh, OcThens, OcMidPCs, OcKnowPCs
    <3> QED
      BY <1>3, <3>1 DEF Oc!ListRows
  <2>2. DOMAIN w = Oc!Listed
    OBVIOUS
  <2> HIDE DEF w
  <2>3. me'[u].pc = "merge" /\ me'[u].work = w /\ me'[u].at = clock
    BY <1>0, <1>3, <2>1 DEF OcFrames
  <2>4. UNCHANGED db
    BY <1>3 DEF Oc!ListRows
  <2> QED
    BY <1>0, <2>2, <2>3, <2>4 DEF OcKnows, OcKnowsBarred, Oc!Listed
<1>4. CASE u = p /\ Oc!MergeThrottles(p)
  <2> DEFINE w == [c \in DOMAIN me[u].work |-> Oc!MergedRow(me[u].work[c], throttle[c].until, me[u].at)]
  <2>1. me' = [me EXCEPT ![u] = [@ EXCEPT !.pc = "store", !.work = w]]
        /\ UNCHANGED <<db, missed>> /\ me[u].pc = "merge"
    BY <1>4 DEF Oc!MergeThrottles, Oc!At
  <2>2. DOMAIN w = DOMAIN me[u].work
    OBVIOUS
  <2>3. ASSUME NEW c \in DOMAIN me[u].work, w[c].up PROVE ~Oc!Throttled(c)'
    <3>1. c \in PoolCreds
      BY <1>0, <2>1, OcSnapshotRows DEF OcPlaced, OcMayStand, OcMidPCs
    <3>2. throttle[c].until \in Nat /\ me[u].at \in Nat /\ me[u].at <= clock
      BY <1>0, <2>1, <3>1, OcClocks DEF OcRowsTyped, OcFrames, OcKnows, OcKnowPCs, OcMidPCs
    <3>3. ~(throttle[c].until > me[u].at)
      BY <2>3, <3>2 DEF Oc!MergedRow
    <3>4. throttle'[c] = Oc!NoState
      BY <1>4, <3>1, <3>3 DEF Oc!MergeThrottles
    <3> QED
      BY <1>0, <3>4 DEF Oc!Throttled, Oc!NoState
  <2> HIDE DEF w
  <2>4. me'[u].pc = "store" /\ me'[u].work = w /\ me'[u].at = me[u].at
    BY <1>0, <2>1 DEF OcFrames
  <2> QED
    BY <1>0, <2>1, <2>2, <2>3, <2>4 DEF OcKnows, OcKnowsBarred, OcKnowsThrottled, OcMidPCs,
       OcKnowPCs
<1>5. CASE u = p /\ Oc!Load(p) /\ me'[u] # me[u]
  <2>1. me' = [me EXCEPT ![p] = [@ EXCEPT !.pc = Oc!Storing[me[p].pc], !.work = avail,
                                  !.at = IF me[p].pc = "rescore" THEN clock ELSE me[p].at]]
        /\ me[p].pc \in DOMAIN Oc!Storing
    <3>1. me'[p] # Oc!Back(me[p])
      BY <1>0, <1>5, OcBackPlaced DEF OcThens, OcMidPCs, OcKnowPCs
    <3> QED
      BY <1>0, <1>5, <3>1 DEF Oc!Load
  <2> DEFINE r == [me[u] EXCEPT !.pc = Oc!Storing[me[u].pc], !.work = avail,
                    !.at = IF me[u].pc = "rescore" THEN clock ELSE me[u].at]
  <2>2. me'[u].pc = Oc!Storing[me[u].pc] /\ (me[u].pc = "rescore" => me'[u].at = clock)
    <3>1. me'[u] = r
      BY <1>0, <1>5, <2>1
    <3> QED
      BY <1>0, <3>1 DEF OcFrames
  <2>3. me'[u].pc = "rescoreStore" /\ me'[u].at = clock
    BY <1>5, <2>1, <2>2 DEF Oc!Storing, OcMidPCs, OcKnowPCs
  <2> QED
    BY <1>0, <2>3 DEF OcKnows
<1> QED
  BY <1>1, <1>2, <1>3, <1>4, <1>5, OcRebuildMoves

LEMMA OcKnowsFirst == Oc!Init => OcRebuildsKnow
<1> SUFFICES ASSUME Oc!Init, NEW u \in Procs PROVE OcKnows(u)
  BY DEF OcRebuildsKnow
<1>1. me[u].pc = "idle"
  BY DEF Oc!Init, Oc!Idle
<1> QED
  BY <1>1 DEF OcKnows, OcKnowPCs, OcMidPCs

LEMMA OcKnowsNext ==
  ASSUME OcTypeInv, OcRebuildsKnow, [Oc!Next]_Oc!vars
  PROVE  OcRebuildsKnow'
<1> SUFFICES ASSUME NEW u \in Procs PROVE OcKnows(u)'
  BY DEF OcRebuildsKnow
<1>0. /\ me = [v \in Procs |-> me[v]] /\ OcPlaced(me[u]) /\ me[u] \in OcFrames /\ OcRowsTyped
      /\ clock \in Nat /\ OcKnows(u)
  BY OcClocks DEF OcTypeInv, OcStanding, OcPlaced, OcRebuildsKnow, OcRowsTyped
<1>1. ASSUME me'[u] = me[u] \/ me'[u].pc \notin OcKnowPCs, clock' \in Nat, clock' >= clock,
             UNCHANGED <<db, throttle, missed>>
      PROVE  OcKnows(u)'
  <2> SUFFICES ASSUME me'[u] = me[u], me[u].pc \in OcKnowPCs PROVE OcKnows(u)'
    BY <1>1 DEF OcKnows, OcMidPCs, OcKnowPCs
  <2>1. me[u].at \in Nat /\ me[u].work \in Oc!Snapshots
    BY <1>0, OcClocks DEF OcFrames, OcPlaced, OcMayStand, OcKnowPCs, Oc!Copying
  <2>2. \A c \in DOMAIN me[u].work : Oc!Throttled(c)' => Oc!Throttled(c)
    <3> SUFFICES ASSUME NEW c \in DOMAIN me[u].work, Oc!Throttled(c)' PROVE Oc!Throttled(c)
      OBVIOUS
    <3>1. throttle[c].until \in Nat
      BY <1>0, <2>1, OcSnapshotRows, OcClocks DEF OcRowsTyped
    <3> QED
      BY <1>0, <1>1, <3>1 DEF Oc!Throttled
  <2> QED
    BY <1>0, <1>1, <2>1, <2>2 DEF OcKnows, OcKnowsBarred, OcKnowsThrottled
<1>2. CASE Oc!Tick \/ UNCHANGED Oc!vars
  BY <1>0, <1>1, <1>2 DEF Oc!Tick, Oc!vars
<1>3. ASSUME NEW p \in Procs, NEW op \in DOMAIN Oc!First, NEW c, c \in PoolCreds \/ (op = "wake" /\ c = None),
             Oc!Run(p, op, c), UNCHANGED <<clock, db, throttle, missed>>
      PROVE  OcKnows(u)'
  <2>1. me'[u] = me[u] \/ me'[u].pc \notin OcKnowPCs
    BY <1>3, OcBegins DEF Oc!First, OcMidPCs, OcKnowPCs
  <2> QED
    BY <1>0, <1>1, <1>3, <2>1
<1>4. ASSUME NEW p \in Procs, NEW op \in Oc!AllOps, NEW c \in PoolCreds, Oc!Start(p, op, c) PROVE OcKnows(u)'
  <2>1. op \in DOMAIN Oc!First
    BY DEF Oc!AllOps, Oc!First
  <2> QED
    BY <1>3, <1>4, <2>1 DEF Oc!Start
<1>5. ASSUME NEW p \in Procs, Oc!Wake(p) PROVE OcKnows(u)'
  <2>1. "wake" \in DOMAIN Oc!First
    BY DEF Oc!First
  <2> QED
    BY <1>3, <1>5, <2>1 DEF Oc!Wake
<1>6. ASSUME NEW p \in Procs, NEW c \in PoolCreds, Oc!StartProbe(p, c) PROVE OcKnows(u)'
  <2>1. "probe" \in DOMAIN Oc!First
    BY DEF Oc!First
  <2> QED
    BY <1>3, <1>6, <2>1 DEF Oc!StartProbe
<1> QED
  BY <1>2, <1>4, <1>5, <1>6, OcKnowsStep DEF Oc!Next

LEMMA OcKnowsInvariant == Oc!Spec => []OcRebuildsKnow
  BY OcKnowsFirst, OcKnowsNext, OcTypeInvariant, PTL DEF Oc!Spec

\* What an edit stores it had copied, or it leaves it as it was.
LEMMA OcEditsBring ==
  ASSUME OcTypeInv, OcRebuildsKnow, NEW p \in Procs, Oc!StoreEdit(p), NEW c, Oc!InPool(c)'
  PROVE  /\ c \in DOMAIN me[p].work /\ me[p].work # None
         /\ me[p].work[c].until > clock /\ Oc!Up(c)' => me[p].work[c].up
<1>0. /\ me[p].pc \in Oc!Copying /\ avail' = Oc!Edited(me[p]) /\ me[p].work # None
      /\ me[p].work \in Oc!Snapshots /\ me[p].at \in Nat /\ clock \in Nat
  BY OcClocks DEF Oc!StoreEdit, OcTypeInv, OcRowsTyped, OcStanding, OcPlaced, OcMayStand,
     OcFrames
<1>1. CASE me[p].pc = "evictStore"
  BY <1>0, <1>1 DEF Oc!Edited, Oc!InPool, Oc!Up
<1>2. CASE me[p].pc = "suspendStore"
  <2>1. avail' = [x \in DOMAIN me[p].work |-> IF x = me[p].c THEN [up |-> FALSE, until |-> me[p].at]
                                               ELSE me[p].work[x]]
    BY <1>0, <1>2 DEF Oc!Edited
  <2> QED
    BY <1>0, <2>1 DEF Oc!InPool, Oc!Up
<1>3. CASE me[p].pc = "rescoreStore"
  <2>1. avail' = [x \in DOMAIN me[p].work |-> Oc!Rescored(me[p].work[x], me[p].at)]
    BY <1>0, <1>3 DEF Oc!Edited
  <2>2. c \in DOMAIN me[p].work /\ me[p].work[c] \in Oc!Rows
    BY <1>0, <2>1, OcSnapshotRows DEF Oc!InPool
  <2>3. me[p].work[c].until \in Nat /\ me[p].at <= clock
    BY <1>3, <2>2, OcClocks DEF Oc!Rows, OcRebuildsKnow, OcKnows, OcKnowPCs
  <2>4. Oc!Up(c)' => me[p].work[c].until <= me[p].at
    BY <2>1, <2>2 DEF Oc!Up, Oc!Rescored, Oc!Scored
  <2> QED
    BY <1>0, <2>2, <2>3, <2>4
<1> QED
  BY <1>0, <1>1, <1>2, <1>3 DEF Oc!Copying

LEMMA OcBackStep ==
  ASSUME OcTypeInv, OcRebuildsKnow, [Oc!Next]_Oc!vars
  PROVE  Oc!BackIfMissed
<1> SUFFICES ASSUME NEW c \in PoolCreds,
                    \/ ~db[c].on /\ ~db'[c].on /\ ~Oc!InPool(c) /\ Oc!InPool(c)'
                    \/ Oc!Throttled(c) /\ Oc!Throttled(c)' /\ Oc!Recorded(c) /\ Oc!Up(c)'
             PROVE  \E p \in Procs : \/ Oc!StoreRows(p) /\ c \in missed[p]
                                     \/ Oc!StoreEdit(p) /\ me[p].work # avail
  BY DEF Oc!BackIfMissed
<1>0. Oc!InPool(c)' /\ (~Oc!InPool(c) \/ (avail[c].until > clock /\ Oc!Up(c)' /\ ~Oc!Up(c)))
  BY DEF Oc!Up, Oc!Recorded
<1>1. PICK p \in Procs : Oc!StoreRows(p) \/ Oc!StoreEdit(p)
  <2>1. CASE UNCHANGED avail
    BY <1>0, <2>1 DEF Oc!InPool, Oc!Up
  <2>3. ASSUME NEW p \in Procs, Oc!Step(p) PROVE UNCHANGED avail \/ Oc!StoreRows(p) \/ Oc!StoreEdit(p)
    BY <2>3 DEF Oc!Step,
     Oc!EnterRefresh, Oc!ListRows, Oc!MergeThrottles, Oc!Load, Oc!RecordSuccess,
     Oc!CountFailure,
     Oc!RememberThrottle, Oc!ThrottleInDB, Oc!RejectCredential, Oc!MarkProbing,
     Oc!RefreshQuota,
     Oc!CompleteProbe, Oc!CacheRows, Oc!ListAvailable, Oc!AdminSetStatus
  <2> QED
    BY <2>1, <2>3 DEF Oc!Next, Oc!Tick, Oc!vars, Oc!Start, Oc!Wake, Oc!StartProbe
<1>2. CASE Oc!StoreRows(p)
  <2>1. me[p].pc = "store" /\ c \in DOMAIN me[p].work /\ avail' = me[p].work
    BY <1>0, <1>2 DEF Oc!StoreRows, Oc!At, Oc!InPool
  <2>2. OcKnowsBarred(p) /\ OcKnowsThrottled(p)
    BY <2>1 DEF OcRebuildsKnow, OcKnows
  <2>3. c \in missed[p]
    BY <2>1, <2>2 DEF OcKnowsBarred, OcKnowsThrottled, Oc!Up
  <2> QED
    BY <1>2, <2>3
<1>3. CASE Oc!StoreEdit(p)
  <2> SUFFICES ASSUME me[p].work = avail PROVE FALSE
    BY <1>3
  <2> QED
    BY <1>0, <1>3, OcEditsBring DEF Oc!InPool, Oc!Up
<1> QED
  BY <1>1, <1>2, <1>3

\* A disabled credential of OpenCode Go's stays out of the snapshot, and one within
\* a window out of the selection, until it ends: but for a rebuild that had looked
\* before, or an edit that puts back what it had copied.
THEOREM OpenCodeOutUntilMissed == Oc!Spec => Oc!BackOnlyIfMissed
  BY OcBackStep, OcTypeInvariant, OcKnowsInvariant, PTL DEF Oc!Spec, Oc!BackOnlyIfMissed

-----------------------------------------------------------------------------
(* The composition *)

PoolsInv ==
  /\ part \in {"relay", "gemini", "antigravity", "opencode"}
  /\ part = "gemini"      => GTypeInv /\ GRebuildsKnow
  /\ part = "antigravity" => AnTypeInv /\ AnRebuildsKnow
  /\ part = "opencode"    => OcTypeInv /\ OcRebuildsKnow

LEMMA PoolsFirst == ServingInit => PoolsInv
<1>1. part = "gemini" /\ G!Init => PoolsInv
  BY GInitTypes, GKnowsFirst DEF PoolsInv
<1>2. part = "antigravity" /\ An!Init => PoolsInv
  BY AnInitTypes, AnKnowsFirst DEF PoolsInv
<1>3. part = "opencode" /\ Oc!Init => PoolsInv
  BY OcInitTypes, OcKnowsFirst DEF PoolsInv
<1>4. part = "relay" => PoolsInv
  BY DEF PoolsInv
<1> QED
  BY <1>1, <1>2, <1>3, <1>4 DEF ServingInit

\* The part that moves does its own steps.
LEMMA OnePartMoves ==
  ASSUME [ServingNext]_serving
  PROVE  /\ UNCHANGED part
         /\ part = "gemini"      => [G!Next]_G!vars
         /\ part = "antigravity" => [An!Next]_An!vars
         /\ part = "opencode"    => [Oc!Next]_Oc!vars
         /\ [Next]_vars
<1>1. CASE UNCHANGED serving
  BY <1>1 DEF serving, relay, pool, vars, shared, G!vars, An!vars, Oc!vars
<1>2. CASE ServingNext
  BY <1>2 DEF ServingNext, relay, pool, vars, shared
<1> QED
  BY <1>1, <1>2

LEMMA PoolsNext ==
  ASSUME PoolsInv, [ServingNext]_serving
  PROVE  PoolsInv'
<1>1. part' = part
  BY OnePartMoves
<1>2. CASE part = "gemini"
  BY <1>1, <1>2, OnePartMoves, GTypeStep, GKnowsNext DEF PoolsInv
<1>3. CASE part = "antigravity"
  BY <1>1, <1>3, OnePartMoves, AnTypeStep, AnKnowsNext DEF PoolsInv
<1>4. CASE part = "opencode"
  BY <1>1, <1>4, OnePartMoves, OcTypeStep, OcKnowsNext DEF PoolsInv
<1>5. CASE part = "relay"
  BY <1>1, <1>5 DEF PoolsInv
<1> QED
  BY <1>2, <1>3, <1>4, <1>5 DEF PoolsInv

LEMMA PoolsInvariant == ServingSpec => []PoolsInv
  BY PoolsFirst, PoolsNext, PTL DEF ServingSpec

\* The relay in the composition is the relay alone.
LEMMA RelayBehaves == ServingSpec => Spec
<1>1. ServingInit => Init
  BY DEF ServingInit
<1>2. [ServingNext]_serving => [Next]_vars
  BY OnePartMoves
<1> QED
  BY <1>1, <1>2, PTL DEF ServingSpec, Spec

\* Every variable of the part that moves stays in its type: where a goroutine
\* may stand, what it carries, the rows, states and snapshots of each pool.
THEOREM ServingTypes == ServingSpec => []ServingTypeOK
<1>1. PoolsInv /\ TypeOK => ServingTypeOK
  BY GTypes, AnTypes, OcTypes DEF PoolsInv, ServingTypeOK
<1> QED
  BY <1>1, PoolsInvariant, RelayBehaves, TypeCorrect, PTL

\* What is disabled or under validation stays out of each pool's snapshot, and what
\* is within a throttle window out of the selection, until that ends: but for a
\* rebuild, or a Load and Store, that had looked before (refreshAvailableFromRows,
\* updateAvailableRows; OpenCode Go's and Gemini's edits of the snapshot).
THEOREM PoolsOutUntilMissed == ServingSpec => PoolsBackOnlyIfMissed
<1>1. PoolsInv /\ [ServingNext]_serving =>
        CASE part = "gemini"      -> G!BackIfMissed
          [] part = "antigravity" -> An!BackIfMissed
          [] part = "opencode"    -> Oc!BackIfMissed
          [] part = "relay"       -> TRUE
  <2> SUFFICES ASSUME PoolsInv, [ServingNext]_serving
               PROVE  CASE part = "gemini"      -> G!BackIfMissed
                        [] part = "antigravity" -> An!BackIfMissed
                        [] part = "opencode"    -> Oc!BackIfMissed
                        [] part = "relay"       -> TRUE
    OBVIOUS
  <2>1. part = "gemini" => G!BackIfMissed
    BY OnePartMoves, GBackStep DEF PoolsInv
  <2>2. part = "antigravity" => An!BackIfMissed
    BY OnePartMoves, AnBackStep DEF PoolsInv
  <2>3. part = "opencode" => Oc!BackIfMissed
    BY OnePartMoves, OcBackStep DEF PoolsInv
  <2> QED
    BY <2>1, <2>2, <2>3 DEF PoolsInv
<1> QED
  BY <1>1, PoolsInvariant, PTL DEF ServingSpec, PoolsBackOnlyIfMissed
=============================================================================
