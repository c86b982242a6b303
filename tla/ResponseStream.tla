---------------------------- MODULE ResponseStream ----------------------------
(***************************************************************************)
(* How a streamed answer reaches the client.  For chat completions on      *)
(* Codex a goroutine turns the upstream's Responses events into chunks     *)
(* (api/codex/convert/completion) and hands each through an io.Pipe to the *)
(* relay's writer (internal/bridge/response_writer.go).  For OpenCodeGo    *)
(* the writer copies the upstream's lines and ends the stream itself       *)
(* behind the line with the usage.                                         *)
(*                                                                         *)
(* Texts are left out: the arguments of a tool call are the sequence of    *)
(* its parts, so that a part lost, doubled or given to another call shows. *)
(***************************************************************************)
EXTENDS Integers, Sequences

CONSTANTS MaxItems, MaxParts   (* bounds: output items, parts of a call      *)

VARIABLES
  provider,  (* "codex", converted, or "opencode", cut behind the usage      *)
  up,        (* the upstream: its item, what it has sent, how it ended       *)
  line,      (* its event that is not read yet, or a sequence of none        *)
  state,     (* completionResponseState and the goroutine that has it        *)
  writer,    (* streamSSE: where it is, and the chunk it has                 *)
  client     (* what the client has put together from the chunks             *)

vars == <<provider, up, line, state, writer, client>>

NoItem == [announced |-> FALSE, parts |-> << >>, said |-> FALSE]
Part(n, k) == <<n, k>>

Init ==
  /\ provider \in {"codex", "opencode"}
  /\ up = [item |-> NoItem, open |-> FALSE, calls |-> << >>, last |-> "", end |-> ""]
  /\ line = << >>
  /\ state = [at |-> IF provider = "codex" THEN "scan" ELSE "end", index |-> -1, delta |-> FALSE,
              announced |-> FALSE, completed |-> FALSE, chunk |-> << >>, result |-> ""]
  /\ writer = [at |-> "read", chunk |-> << >>]
  /\ client = [calls |-> << >>, finish |-> "", done |-> 0, after |-> FALSE, gone |-> FALSE]

-----------------------------------------------------------------------------
(* The upstream.  A tool call is announced, its arguments come in parts and *)
(* are said to be done, and the item is done; or the item comes at once.    *)

Send(e, u) ==
  /\ line = << >> /\ up.end = "" /\ up.last \notin {"completed", "done"}
  /\ line' = <<e>> /\ up' = u
  /\ UNCHANGED <<provider, state, writer, client>>

Codex    == provider = "codex"
NextCall == Len(up.calls) + 1

CallAdded == Codex /\ ~up.open /\ Len(up.calls) < MaxItems
  /\ Send([type |-> "added", id |-> NextCall],
          [up EXCEPT !.open = TRUE, !.item = [NoItem EXCEPT !.announced = TRUE]])
ArgumentsDelta == Codex /\ up.open /\ ~up.item.said /\ Len(up.item.parts) < MaxParts
  /\ LET p == Part(NextCall, Len(up.item.parts) + 1)
     IN Send([type |-> "delta", part |-> p], [up EXCEPT !.item.parts = Append(@, p)])
\* All the arguments, again or, when they came in no part, for the first time.
ArgumentsDone == Codex /\ up.open /\ ~up.item.said
  /\ \E parts \in IF up.item.parts = << >> THEN {<<Part(NextCall, 1)>>} ELSE {up.item.parts} :
       Send([type |-> "argsDone", parts |-> parts],
            [up EXCEPT !.item.parts = parts, !.item.said = TRUE])
ItemDone == Codex /\ up.open /\ up.item.said
  /\ Send([type |-> "itemDone", id |-> NextCall, parts |-> up.item.parts],
          [up EXCEPT !.open = FALSE, !.item = NoItem, !.calls = Append(@, up.item.parts)])
WholeCall == Codex /\ ~up.open /\ Len(up.calls) < MaxItems
  /\ LET parts == <<Part(NextCall, 1)>>
     IN Send([type |-> "itemDone", id |-> NextCall, parts |-> parts],
             [up EXCEPT !.calls = Append(@, parts)])
Completed == Codex /\ ~up.open /\ Send([type |-> "completed"], [up EXCEPT !.last = "completed"])

\* OpenCodeGo: lines, the usage, more lines, its own [DONE].
PlainLine == ~Codex /\ Send([type |-> "line"], up)
UsageLine == ~Codex /\ up.last = "" /\ Send([type |-> "usage"], [up EXCEPT !.last = "usage"])
DoneLine  == ~Codex /\ Send([type |-> "done"], [up EXCEPT !.last = "done"])

\* The body ends, as it should or early, or reading it fails.
EndOfBody ==
  /\ up.end = "" /\ up' = [up EXCEPT !.end = "eof"]
  /\ UNCHANGED <<provider, line, state, writer, client>>
BrokenBody ==
  /\ up.end = "" /\ up' = [up EXCEPT !.end = "error"]
  /\ UNCHANGED <<provider, line, state, writer, client>>

-----------------------------------------------------------------------------
(* convertStreamResponseToCompletions: the state and the chunk, if any *)

NoChunk(s) == [s EXCEPT !.chunk = << >>]
Chunk(s, c) == [s EXCEPT !.chunk = <<c>>]

CallChunk(s, id, parts) == Chunk(s, [type |-> "call", index |-> s.index, id |-> id, parts |-> parts])
ArgsChunk(s, parts)     == Chunk(s, [type |-> "args", index |-> s.index, parts |-> parts])

OnAdded(s, e) ==
  CallChunk([s EXCEPT !.index = @ + 1, !.delta = FALSE, !.announced = TRUE], e.id, << >>)
OnDelta(s, e) == ArgsChunk([s EXCEPT !.delta = TRUE], <<e.part>>)
\* Mutant: sent whatever came before.
OnArgsDoneAlways(s, e) == ArgsChunk(s, e.parts)
OnArgsDone(s, e)       == IF s.delta THEN NoChunk(s) ELSE ArgsChunk(s, e.parts)
OnItemDone(s, e) ==
  IF s.announced THEN NoChunk([s EXCEPT !.announced = FALSE])
  ELSE CallChunk([s EXCEPT !.index = @ + 1], e.id, e.parts)
OnCompleted(s, e) ==
  Chunk([s EXCEPT !.completed = TRUE],
        [type |-> "finish", reason |-> IF s.index # -1 THEN "tool_calls" ELSE "stop"])

Convert(s, e) ==
  CASE e.type = "added"     -> OnAdded(s, e)
    [] e.type = "delta"     -> OnDelta(s, e)
    [] e.type = "argsDone"  -> OnArgsDone(s, e)
    [] e.type = "itemDone"  -> OnItemDone(s, e)
    [] e.type = "completed" -> OnCompleted(s, e)

\* NewStreamReadCloser's goroutine, one line: the context is looked at first.
ScanLine ==
  /\ state.at = "scan" /\ line # << >>
  /\ IF client.gone THEN state' = [state EXCEPT !.at = "end", !.result = "error"]
     ELSE LET s == Convert(state, line[1])
          IN state' = [s EXCEPT !.at = IF s.chunk = << >> THEN "scan" ELSE "write"]
  /\ line' = << >>
  /\ UNCHANGED <<provider, up, writer, client>>

\* No line is left: [DONE] only behind a completed answer.
ScanEnd ==
  /\ state.at = "scan" /\ line = << >> /\ up.end # ""
  /\ state' = IF up.end = "eof" /\ state.completed
                THEN [state EXCEPT !.at = "write", !.chunk = <<[type |-> "done"]>>]
                ELSE [state EXCEPT !.at = "end", !.result = "error"]
  /\ UNCHANGED <<provider, up, line, writer, client>>

-----------------------------------------------------------------------------
(* streamSSE *)

\* io.Pipe: the chunk passes when the writer reads, or drains.
PipeChunk ==
  /\ state.at = "write" /\ writer.at \in {"read", "drain"}
  /\ writer' = IF writer.at = "read" THEN [at |-> "write", chunk |-> state.chunk[1]] ELSE writer
  /\ state' = IF state.chunk[1].type = "done" THEN [state EXCEPT !.at = "end", !.result = "eof"]
              ELSE [state EXCEPT !.at = "scan"]
  /\ UNCHANGED <<provider, up, line, client>>

\* The pipe is closed, or the body's last line was read.
ReadEnd ==
  /\ writer.at = "read"
  /\ IF Codex THEN state.at = "end" ELSE line = << >> /\ up.end # ""
  /\ writer' = [writer EXCEPT !.at = "drain"]
  /\ UNCHANGED <<provider, up, line, state, client>>

ReadLine ==
  /\ ~Codex /\ writer.at = "read" /\ line # << >>
  /\ writer' = [at |-> "write", chunk |-> line[1]] /\ line' = << >>
  /\ UNCHANGED <<provider, up, state, client>>

\* What a client makes of a chunk: tool calls by their index.
Received(c, k) ==
  LET n == k.index + 1
      more == IF c.done > 0 THEN [c EXCEPT !.after = TRUE] ELSE c
  IN CASE k.type = "call" ->
            [more EXCEPT !.calls = IF n > Len(@) THEN Append(@, k.parts) ELSE [@ EXCEPT ![n] = c.calls[n] \o k.parts]]
       [] k.type = "args" ->
            [more EXCEPT !.calls = IF n \in 1 .. Len(@) THEN [@ EXCEPT ![n] = c.calls[n] \o k.parts] ELSE @]
       [] k.type = "finish" -> [more EXCEPT !.finish = k.reason]
       [] k.type = "done"   -> [more EXCEPT !.done = 1]
       [] OTHER -> more

\* After a line with the usage the writer ends the stream.
AfterLine(k) == [at |-> IF k.type = "usage" THEN "finish" ELSE "read", chunk |-> k]
WriteLine ==
  /\ writer.at = "write"
  /\ IF client.gone THEN writer' = [writer EXCEPT !.at = "drain"] /\ client' = client
     ELSE writer' = AfterLine(writer.chunk) /\ client' = Received(client, writer.chunk)
  /\ UNCHANGED <<provider, up, line, state>>

\* finishSSEStream.
Finish ==
  /\ writer.at = "finish" /\ writer' = [writer EXCEPT !.at = "drain"]
  /\ client' = IF client.gone THEN client ELSE Received(client, [type |-> "done"])
  /\ UNCHANGED <<provider, up, line, state>>

\* The deferred copy to nowhere, and the close.
DrainLine ==
  /\ ~Codex /\ writer.at = "drain" /\ line # << >> /\ line' = << >>
  /\ UNCHANGED <<provider, up, state, writer, client>>
Close ==
  /\ writer.at = "drain" /\ state.at = "end" /\ (Codex \/ (line = << >> /\ up.end # ""))
  /\ writer' = [writer EXCEPT !.at = "end"]
  /\ UNCHANGED <<provider, up, line, state, client>>

\* The client leaves; its context breaks the body.
ClientGone ==
  /\ ~client.gone /\ writer.at # "end"
  /\ client' = [client EXCEPT !.gone = TRUE]
  /\ up' = [up EXCEPT !.end = IF @ = "" THEN "error" ELSE @]
  /\ UNCHANGED <<provider, line, state, writer>>

Next ==
  \/ CallAdded \/ ArgumentsDelta \/ ArgumentsDone \/ ItemDone \/ WholeCall \/ Completed
  \/ PlainLine \/ UsageLine \/ DoneLine \/ EndOfBody \/ BrokenBody
  \/ ScanLine \/ ScanEnd \/ PipeChunk
  \/ ReadEnd \/ ReadLine \/ WriteLine \/ Finish \/ DrainLine \/ Close \/ ClientGone

Spec == Init /\ [][Next]_vars

-----------------------------------------------------------------------------
(* Properties *)

TypeOK ==
  /\ provider \in {"codex", "opencode"}
  /\ up.end \in {"", "eof", "error"} /\ up.last \in {"", "usage", "completed", "done"}
  /\ Len(up.calls) <= MaxItems /\ Len(line) <= 1
  /\ state.at \in {"scan", "write", "end"} /\ state.index \in -1 .. MaxItems - 1
  /\ writer.at \in {"read", "write", "finish", "drain", "end"}
  /\ client.done \in 0 .. 1

\* convertCodexCompletionResponseToOpenAINonStream: the whole answer.
NonStream(calls) == [calls |-> calls, finish |-> IF calls = << >> THEN "stop" ELSE "tool_calls"]

\* A client that has seen [DONE] has put together the answer that a request
\* without streaming gets: every call, its arguments once, and why it ended.
\* Nothing comes behind it, and no second one.
StreamTellsAll ==
  client.done > 0 =>
    /\ ~client.after
    /\ Codex => [calls |-> client.calls, finish |-> client.finish] = NonStream(up.calls)
=============================================================================
