-------------------------------- MODULE Relay --------------------------------
(***************************************************************************)
(* The relay (internal/bridge): a request is resolved to a model and tried *)
(* on one credential after another until an answer has been written to the *)
(* client or the attempts are used up.                                     *)
(*                                                                         *)
(* The requests share the credentials bound to sessions and to a fill-     *)
(* first model.  The content affinity table is ContentAffinity's: here it  *)
(* may name any credential.  Of the scheduler the relay sees which         *)
(* credentials can be selected; this changes with what the relay reports   *)
(* and for reasons of the scheduler's own.                                 *)
(***************************************************************************)
EXTENDS Integers

CONSTANTS Requests, Creds, Keys, None,
          Modes,       (* of "plain", "fillFirst", "content": ModelScheduling *)
          MaxRetries   (* bound: RelayMaxRetries                             *)

ASSUME RelayAssumption ==
  /\ MaxRetries \in Nat /\ None \notin Creds \cup Keys
  /\ Modes \subseteq {"plain", "fillFirst", "content"}

VARIABLES
  req,        (* each request: its place, retryTracker and what it has done  *)
  open,       (* credentials that SelectCredential can return                *)
  session,    (* sessions: the credential bound to a key                     *)
  fillFirst,  (* fillFirst: the credential the model stays with              *)
  retries     (* settings: RelayMaxRetries                                   *)

shared == <<open, session, fillFirst, retries>>
vars   == <<req, shared>>

\* due: credentials chosen and not reported on to the scheduler; answers: responses
\* begun; hinted: the credential of the last upstream answer, if it was a grace.
NewRequest == [pc |-> "idle", mode |-> "plain", key |-> None,
               attempt |-> 1, failed |-> FALSE, grace |-> None, graced |-> None,
               pref |-> None, cred |-> None, gone |-> FALSE,
               due |-> 0, answers |-> 0, hinted |-> None]

Init ==
  /\ req = [r \in Requests |-> NewRequest]
  /\ open = Creds
  /\ session = [k \in Keys |-> None] /\ fillFirst = None
  /\ retries \in 0 .. MaxRetries

At(r, l)    == req[r].pc = l
Set(r, new) == req' = [req EXCEPT ![r] = new]
Goto(r, l)  == Set(r, [req[r] EXCEPT !.pc = l])

\* A report to the scheduler: RecordSuccess, RecordFailure, HandleUnauthorized.
Reported(q, res) ==
  [q EXCEPT !.due = @ - 1,
     !.hinted = IF res = "grace" THEN q.cred ELSE IF res \in {"noHeaders", "noResponse"} THEN @ ELSE None]
\* What it does to the credential.
Pool(c, res) ==
  open' \in CASE res = "served" -> {open}
              [] res \in {"rejected", "throttled"} -> {open \ {c}}
              [] OTHER -> {open, open \ {c}}

\* The end, without or with an answer; the locals go.
Silent(q)   == [NewRequest EXCEPT !.pc = "end", !.gone = q.gone, !.due = q.due,
                  !.answers = q.answers]
Answered(q) == [Silent(q) EXCEPT !.answers = @ + 1]
\* state.clearGrace; state.remember.
ClearGrace(q) == [q EXCEPT !.grace = None, !.graced = None]
Remember(q)   == [q EXCEPT !.failed = TRUE]

-----------------------------------------------------------------------------
(* Before the loop *)

\* readBridgeBody to PrepareRequest: any of them may refuse, with an answer.
Refuse(r) ==
  /\ At(r, "idle") /\ Set(r, Answered(req[r]))
  /\ UNCHANGED shared

\* handleResponses: a session key only if the provider is sticky.
Receive(r, m, k) ==
  /\ At(r, "idle")
  /\ Set(r, [req[r] EXCEPT !.pc = "head", !.mode = m, !.key = k])
  /\ UNCHANGED shared

-----------------------------------------------------------------------------
(* selectRelayCredential *)

\* maxAttempts.  Mutant: one more.
OneMoreAttempt == retries + 2
MaxAttempts    == retries + 1

Session(k) == IF k = None THEN None ELSE session[k]

\* The head of the loop, and the preferred credential.
LoopHead(r) ==
  /\ At(r, "head")
  /\ IF req[r].attempt > MaxAttempts THEN Set(r, Answered(req[r]))
     ELSE Set(r, [req[r] EXCEPT !.pc = "preferred", !.cred = None,
            !.pref = IF req[r].grace # None THEN req[r].grace ELSE Session(req[r].key)])
  /\ UNCHANGED shared

Choose(q, c) == [q EXCEPT !.pc = "auth", !.cred = c, !.pref = None, !.due = @ + 1]

TryPreferred(r) ==
  /\ At(r, "preferred")
  /\ IF req[r].pref \in open THEN Set(r, Choose(req[r], req[r].pref)) ELSE Goto(r, "fill")
  /\ UNCHANGED shared

LookFill(r) ==
  LET q == req[r]
  IN /\ At(r, "fill")
     /\ IF q.mode = "fillFirst" /\ ~q.failed /\ fillFirst \notin {None, q.pref}
          THEN Set(r, [q EXCEPT !.pc = "tryFill", !.cred = fillFirst])
          ELSE Goto(r, "match")
     /\ UNCHANGED shared

TryFill(r) ==
  /\ At(r, "tryFill")
  /\ IF req[r].cred \in open THEN Set(r, Choose(req[r], req[r].cred)) ELSE Goto(r, "dropFill")
  /\ UNCHANGED shared

\* fillFirstCache.deleteIf.  Mutant: whatever is bound.
DeleteAny(c) == None
DeleteIf(c)  == IF fillFirst = c THEN None ELSE fillFirst

DropFill(r) ==
  /\ At(r, "dropFill") /\ Goto(r, "match")
  /\ fillFirst' = DeleteIf(req[r].cred)
  /\ UNCHANGED <<open, session, retries>>

\* contentAffinity.match: the credential of a conversation, or nothing to go by.
Match(r) ==
  LET q == req[r]
  IN /\ At(r, "match")
     /\ \/ /\ q.mode = "content" /\ ~q.failed
           /\ \E c \in Creds \ {q.pref} : Set(r, [q EXCEPT !.pc = "tryMatch", !.cred = c])
        \/ Goto(r, "any")
     /\ UNCHANGED shared

TryMatch(r) ==
  /\ At(r, "tryMatch")
  /\ IF req[r].cred \in open THEN Set(r, Choose(req[r], req[r].cred)) ELSE Goto(r, "any")
  /\ UNCHANGED shared

TryAny(r) ==
  /\ At(r, "any")
  /\ \/ \E c \in open : Set(r, Choose(req[r], c))
     \/ open = {} /\ Set(r, Answered(req[r]))   \* lastErr, or errNoAvailableCredential
  /\ UNCHANGED shared

-----------------------------------------------------------------------------
(* One attempt *)

\* AuthHeaders and send, when they fail: nothing is said of a client that left.
FailBefore(r, here, res) ==
  LET q == req[r]
  IN /\ At(r, here)
     /\ IF q.gone THEN Set(r, Silent(q)) /\ open' = open
        ELSE Set(r, [Remember(Reported(q, res)) EXCEPT !.pc = "unfill"]) /\ Pool(q.cred, res)
     /\ UNCHANGED <<session, fillFirst, retries>>

AuthHeaders(r)  == At(r, "auth") /\ Goto(r, "send") /\ UNCHANGED shared
AuthFailure(r)  == FailBefore(r, "auth", "noHeaders")
SendFailure(r)  == FailBefore(r, "send", "noResponse")

\* The next attempt.  Mutant: a grace retry is for nothing.
NextAttemptButGrace(q) == [q EXCEPT !.pc = "head", !.attempt = IF q.grace # None THEN @ ELSE @ + 1]
NextAttempt(q)         == [q EXCEPT !.pc = "head", !.attempt = @ + 1]

\* fillFirst.deleteIf and the next attempt.
Unfill(r) ==
  /\ At(r, "unfill") /\ Set(r, NextAttempt(req[r]))
  /\ fillFirst' = DeleteIf(req[r].cred)
  /\ UNCHANGED <<open, session, retries>>

\* handleUpstreamError, up to RetryDecision: what is done with the status.
UpstreamError(r, res) ==
  LET q == Remember(Reported(req[r], res))
  IN /\ At(r, "send")
     /\ \/ res \in {"rejected", "failed"}       \* HandleUnauthorized; no hint
           /\ Set(r, [ClearGrace(q) EXCEPT !.pc = "unfill"])
        \/ res = "invalid" /\ Set(r, Answered(q))  \* not to be retried
     /\ Pool(q.cred, res)
     /\ UNCHANGED <<session, fillFirst, retries>>

\* handleRetryHintDecision: soon is SameCredential.  Mutant: the hint is honoured again.
GraceAgain(q) == FALSE
GraceUsed(q)  == q.graced = q.cred
RetryHint(r, soon) ==
  LET q     == req[r]
      grace == soon /\ ~GraceUsed(q)
      res   == IF grace THEN "grace" ELSE "throttled"
      next  == Remember(Reported(q, res))
  IN /\ At(r, "send")
     /\ IF grace THEN Set(r, [next EXCEPT !.pc = "wait", !.grace = q.cred, !.graced = q.cred])
        ELSE Set(r, [ClearGrace(next) EXCEPT !.pc = "unfill"])
     /\ Pool(q.cred, res)
     /\ UNCHANGED <<session, fillFirst, retries>>

\* waitForRetry; the fill-first binding stays for the grace retry.
WaitForRetry(r) ==
  /\ At(r, "wait")
  /\ \/ req[r].gone /\ Set(r, Silent(req[r]))
     \/ Set(r, NextAttempt(req[r]))
  /\ UNCHANGED shared

-----------------------------------------------------------------------------
(* handleSuccessfulResponse *)

Success(r) ==
  /\ At(r, "send") /\ Goto(r, "write")
  /\ fillFirst' = IF req[r].mode = "fillFirst" /\ fillFirst = None THEN req[r].cred ELSE fillFirst
  /\ UNCHANGED <<open, session, retries>>

\* writeUpstreamResponse to its end.
Write(r) ==
  /\ At(r, "write") /\ Set(r, [req[r] EXCEPT !.pc = "bindSession", !.answers = @ + 1])
  /\ UNCHANGED shared

\* It fails, begun or not.
WriteFailure(r, begun) ==
  LET q == [req[r] EXCEPT !.answers = IF begun THEN @ + 1 ELSE @]
  IN /\ At(r, "write")
     /\ IF q.gone THEN Set(r, Silent(Reported(q, "served"))) /\ fillFirst' = fillFirst
        ELSE Set(r, [q EXCEPT !.pc = "cut"]) /\ fillFirst' = DeleteIf(q.cred)
     /\ UNCHANGED <<open, session, retries>>

\* RecordFailure, and an error unless something was written.
\* Mutant: an error in any case.
AnswerAnyway(q) == Answered(q)
AnswerCut(q)    == IF q.answers = 0 THEN Answered(q) ELSE Silent(q)
Cut(r) ==
  /\ At(r, "cut") /\ Set(r, AnswerCut(Reported(req[r], "cut")))
  /\ Pool(req[r].cred, "cut")
  /\ UNCHANGED <<session, fillFirst, retries>>

BindSession(r) ==
  /\ At(r, "bindSession") /\ Goto(r, "bindContent")
  /\ session' = IF req[r].key = None THEN session ELSE [session EXCEPT ![req[r].key] = req[r].cred]
  /\ UNCHANGED <<open, fillFirst, retries>>

BindContent(r) ==
  /\ At(r, "bindContent") /\ Goto(r, "recordSuccess")
  /\ UNCHANGED shared

\* Mutant: a success is not reported.
ForgetSuccess(q) == Silent(q)
EndSuccess(q)    == Silent(Reported(q, "served"))
RecordSuccess(r) ==
  /\ At(r, "recordSuccess") /\ Set(r, EndSuccess(req[r]))
  /\ UNCHANGED shared

-----------------------------------------------------------------------------
(* The rest of the system *)

ClientGone(r) ==
  /\ req[r].pc \notin {"idle", "end"} /\ ~req[r].gone
  /\ Set(r, [req[r] EXCEPT !.gone = TRUE])
  /\ UNCHANGED shared

\* Windows, probes, validations and other models' requests.
PoolChange(c) ==
  /\ open' \in {open \cup {c}, open \ {c}}
  /\ UNCHANGED <<req, session, fillFirst, retries>>

\* Bindings expire: a day for a session, an hour for a fill-first model.
\* The requests that are not followed bind and unbind as these do.
OtherSession(k, c) == session' = [session EXCEPT ![k] = c] /\ UNCHANGED <<req, open, fillFirst, retries>>
OtherFill(c)       == (c = None \/ fillFirst = None) /\ fillFirst' = c /\ UNCHANGED <<req, open, session, retries>>

SetRetries(n) == retries' = n /\ UNCHANGED <<req, open, session, fillFirst>>

Step(r) ==
  \/ LoopHead(r) \/ TryPreferred(r) \/ LookFill(r) \/ TryFill(r) \/ DropFill(r)
  \/ Match(r) \/ TryMatch(r) \/ TryAny(r)
  \/ AuthHeaders(r) \/ AuthFailure(r) \/ SendFailure(r) \/ Unfill(r)
  \/ \E res \in {"rejected", "failed", "invalid"} : UpstreamError(r, res)
  \/ \E soon \in BOOLEAN : RetryHint(r, soon)
  \/ WaitForRetry(r) \/ Success(r) \/ Write(r) \/ \E begun \in BOOLEAN : WriteFailure(r, begun)
  \/ Cut(r) \/ BindSession(r) \/ BindContent(r) \/ RecordSuccess(r)

Start(r) ==
  \/ Refuse(r)
  \/ \E m \in Modes, k \in Keys \cup {None} : Receive(r, m, k)

Environment ==
  \/ \E r \in Requests : ClientGone(r)
  \/ \E c \in Creds : PoolChange(c)
  \/ \E c \in Creds \cup {None} :
       \/ \E k \in Keys : OtherSession(k, c)
       \/ OtherFill(c)
  \/ \E n \in 0 .. MaxRetries : SetRetries(n)

Next == Environment \/ \E r \in Requests : Start(r) \/ Step(r)

Spec == Init /\ [][Next]_vars
\* Goroutines run, and a response or its failure comes.
Fairness == \A r \in Requests : WF_vars(Step(r))
FairSpec == Spec /\ Fairness

-----------------------------------------------------------------------------
(* Properties *)

Places  == {"idle", "head", "preferred", "fill", "tryFill", "dropFill", "match", "tryMatch", "any",
            "auth", "send", "unfill", "wait", "write", "cut", "bindSession", "bindContent",
            "recordSuccess", "end"}
TypeOK ==
  /\ req \in [Requests ->
       [pc : Places, mode : Modes \cup {"plain"}, key : Keys \cup {None},
        attempt : 1 .. MaxRetries + 2, failed : BOOLEAN, grace : Creds \cup {None},
        graced : Creds \cup {None}, pref : Creds \cup {None}, cred : Creds \cup {None},
        gone : BOOLEAN, due : 0 .. 1,
        answers : 0 .. 1, hinted : Creds \cup {None}]]
  /\ open \subseteq Creds
  /\ session \in [Keys -> Creds \cup {None}]
  /\ fillFirst \in Creds \cup {None}
  /\ retries \in 0 .. MaxRetries

\* A request is answered once, whatever failed in the midst of an answer; only
\* a client that left may go without.
OneAnswer ==
  \A r \in Requests :
    /\ req[r].answers <= 1
    /\ req[r].pc = "end" /\ ~req[r].gone => req[r].answers = 1

\* Every attempt's outcome is reported to the scheduler, and once; only a client
\* that left may take the last one with it.
ReportsMatchAttempts ==
  \A r \in Requests :
    LET q == req[r]
    IN /\ q.due \in {0, 1}
       /\ q.pc \in {"head", "wait", "unfill"} \/ (q.pc = "end" /\ ~q.gone) => q.due = 0

\* A hint to wait for the same credential is honoured once: when the retry gets
\* the hint again, the scheduler is told to throttle the credential.
GraceOnce ==
  [][\A r \in Requests : At(r, "send") /\ req'[r].pc = "wait" => req[r].hinted # req[r].cred]_vars

\* A request unbinds the fill-first model from the credential it failed on or
\* could not select, and never from one that another request has bound since.
UnbindsItsOwn ==
  [][fillFirst # None /\ fillFirst' # fillFirst =>
       /\ fillFirst' = None
       /\ \A r \in Requests : req'[r] # req[r] => req[r].cred = fillFirst]_vars

\* Every request that was begun ends.
RequestsEnd == \A r \in Requests : req[r].pc # "idle" ~> req[r].pc = "end"
=============================================================================
