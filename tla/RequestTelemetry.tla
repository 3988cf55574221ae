---------------------------- MODULE RequestTelemetry ----------------------------
(***************************************************************************)
(* What the proxy records of its requests: the counters of GlobalAnalytics *)
(* (src/analytics.rs), which live as long as the process, and the log file *)
(* of MetricsLogger (src/tokens.rs), which outlives it.  Both are written  *)
(* by the handlers (proxy_messages, proxy_chat_completions and log_metrics *)
(* of src/server.rs) and read by GET /metrics and the dashboard.           *)
(*                                                                         *)
(* The counters are relaxed atomics: an addition is never lost, but the    *)
(* additions of one handler may become visible in any order.  The log is   *)
(* opened for append by each handler; writeln! makes one write of the JSON *)
(* and another of the newline.                                             *)
(***************************************************************************)
EXTENDS Integers, SequencesExt, FiniteSetsExt

CONSTANTS
  Requests,     \* the requests of the run, one handler each
  Compresses,   \* those with an old answer that could be compressed
  Amount,       \* Amount[r][c]: what request r adds to counter c
  MaxCrashes    \* bound: how often the process is killed

RequestCounter == {"total_requests", "total_tokens_before", "total_tokens_after"}
ResponseCounter == {"response_compressions", "response_tokens_saved"}
Counter == RequestCounter \cup ResponseCounter

ASSUME RequestsAssumption == IsFiniteSet(Requests)
ASSUME AmountAssumption ==
  /\ Compresses \subseteq Requests
  /\ Amount \in [Requests -> [Counter -> Nat]]
  /\ \A r \in Requests : Amount[r]["total_requests"] = 1

VARIABLES
  counters,     \* GlobalAnalytics
  file,         \* the log: requests (their JSON) and newlines
  pc,           \* pc[r]: where the handler of r is
  todo,         \* todo[r]: the counters it has still to add to
  crashes,      \* how often the process has been killed
  inherited,    \* the lines of the file when the process started
  poll          \* a GET /metrics: what it has read of the file and the counters

vars == <<counters, file, pc, todo, crashes, inherited, poll>>

Newline == "newline"
ASSUME NewlineAssumption == Newline \notin Requests

PC == {"pipeline", "response", "upstream", "analytics", "json", "newline",
       "done", "failed", "dropped", "killed"}
Zero == [c \in Counter |-> 0]
Idle == [lines |-> -1, requests |-> -1]

\* str::lines: a last line needs no newline to be one.
IsNewline(x) == x = Newline
Lines(f) ==
  LET ended == Cardinality({i \in 1..Len(f) : IsNewline(f[i])})
  IN  IF f = <<>> \/ IsNewline(Last(f)) THEN ended ELSE ended + 1

\* get_summary counts the lines, but only if one of them is the JSON of a request.
Parses(f) ==
  \E i \in 1..Len(f) : /\ ~IsNewline(f[i])
                       /\ i = 1 \/ IsNewline(f[i - 1])
                       /\ i = Len(f) \/ IsNewline(f[i + 1])
Reported(f) == IF Parses(f) THEN Lines(f) ELSE 0
-------------------------------------------------------------------------------
(* The handlers. *)

Goto(r, from, to) == pc[r] = from /\ pc' = [pc EXCEPT ![r] = to]

\* After run_pipeline: record_response_compression, if an answer got shorter.
PipelineDone(r) ==
  /\ IF r \in Compresses
     THEN Goto(r, "pipeline", "response") /\ todo' = [todo EXCEPT ![r] = ResponseCounter]
     ELSE Goto(r, "pipeline", "upstream") /\ UNCHANGED todo
  /\ UNCHANGED <<counters, file, crashes, inherited, poll>>

\* One fetch_add of record_response_compression or record_request.
Increased(r, c) == counters[c] + Amount[r][c]

Add(r) ==
  /\ pc[r] \in {"response", "analytics"}
  /\ \E c \in todo[r] :
       /\ counters' = [counters EXCEPT ![c] = Increased(r, c)]
       /\ todo' = [todo EXCEPT ![r] = @ \ {c}]
  /\ UNCHANGED <<file, pc, crashes, inherited, poll>>

Added(r) ==
  /\ todo[r] = {}
  /\ Goto(r, "response", "upstream") \/ Goto(r, "analytics", "json")
  /\ UNCHANGED <<counters, file, todo, crashes, inherited, poll>>

\* The upstream answers, with whatever status: log_metrics begins.
UpstreamAnswers(r) ==
  /\ Goto(r, "upstream", "analytics")
  /\ todo' = [todo EXCEPT ![r] = RequestCounter]
  /\ UNCHANGED <<counters, file, crashes, inherited, poll>>

\* 502, and no record of the request.
UpstreamFails(r) ==
  /\ Goto(r, "upstream", "failed")
  /\ UNCHANGED <<counters, file, todo, crashes, inherited, poll>>

\* The two writes of MetricsLogger::log; O_APPEND puts each at the end.
NoLineEnd == <<>>
LineEnd == <<Newline>>

WriteJson(r) ==
  /\ Goto(r, "json", "newline")
  /\ file' = Append(file, r)
  /\ UNCHANGED <<counters, todo, crashes, inherited, poll>>

WriteNewline(r) ==
  /\ Goto(r, "newline", "done")
  /\ file' = file \o LineEnd
  /\ UNCHANGED <<counters, todo, crashes, inherited, poll>>

\* A client that leaves drops the handler at an await: in the semantic stage or
\* waiting for the upstream; log_metrics has none.
AwaitsEverywhere == PC \ {"done", "failed", "dropped", "killed"}
Awaits == {"pipeline", "upstream"}

Disconnect(r) ==
  /\ pc[r] \in Awaits
  /\ pc' = [pc EXCEPT ![r] = "dropped"]
  /\ todo' = [todo EXCEPT ![r] = {}]
  /\ UNCHANGED <<counters, file, crashes, inherited, poll>>

\* The process is killed and started again: only the file is left.
Crash ==
  /\ crashes < MaxCrashes
  /\ crashes' = crashes + 1
  /\ counters' = Zero
  /\ pc' = [r \in Requests |-> IF pc[r] = "pipeline" THEN "pipeline" ELSE "killed"]
  /\ todo' = [r \in Requests |-> {}]
  /\ inherited' = Lines(file)
  /\ poll' = Idle
  /\ UNCHANGED file
-------------------------------------------------------------------------------
(* GET /metrics reads the file first, then the counters. *)

PollFile ==
  /\ poll.lines = -1
  /\ poll' = [poll EXCEPT !.lines = Reported(file)]
  /\ UNCHANGED <<counters, file, pc, todo, crashes, inherited>>

InAnyOrder == TRUE
FileWasRead == poll.lines # -1
PollAnalytics ==
  /\ FileWasRead /\ poll.requests = -1
  /\ poll' = [poll EXCEPT !.requests = counters["total_requests"]]
  /\ UNCHANGED <<counters, file, pc, todo, crashes, inherited>>

PollAnswered ==
  /\ poll.lines # -1 /\ poll.requests # -1
  /\ poll' = Idle
  /\ UNCHANGED <<counters, file, pc, todo, crashes, inherited>>
-------------------------------------------------------------------------------
Init ==
  /\ counters = Zero /\ file = <<>>
  /\ pc = [r \in Requests |-> "pipeline"]
  /\ todo = [r \in Requests |-> {}]
  /\ crashes = 0 /\ inherited = 0 /\ poll = Idle

Handle(r) ==
  \/ PipelineDone(r) \/ Add(r) \/ Added(r)
  \/ UpstreamAnswers(r) \/ UpstreamFails(r)
  \/ WriteJson(r) \/ WriteNewline(r)
  \/ Disconnect(r)

Next ==
  \/ \E r \in Requests : Handle(r)
  \/ Crash
  \/ PollFile \/ PollAnalytics \/ PollAnswered

Spec == Init /\ [][Next]_vars
-------------------------------------------------------------------------------
\* The requests of this process that are counted, that are being counted, and
\* that are in the log.
Counted == {r \in Requests : pc[r] \in {"json", "newline", "done"}}
BeingCounted(c) == {r \in Requests : pc[r] = "analytics" /\ c \notin todo[r]}
Logged == {r \in Requests : pc[r] \in {"newline", "done"}}
Sum(c, S) == MapThenSumSet(LAMBDA r : Amount[r][c], S)

\* However the handlers interleave, and whenever clients leave, a request is in
\* all counters of record_request or in none once its handler has moved on, and
\* its compressed answers were counted before.
CountedWhole ==
  /\ \A c \in RequestCounter :
       counters[c] = Sum(c, Counted) + Sum(c, BeingCounted(c))
  /\ \A c \in ResponseCounter : counters[c] >= Sum(c, Counted \cap Compresses)

\* The number of requests GET /metrics reports is the number of lines, if any can
\* be parsed.  Torn lines do not change it: every request adds one line, but for the one whose
\* JSON is appended to the line a crash left without its newline.
LinesAreRequests ==
  /\ Lines(file) - inherited <= Cardinality(Logged)
  /\ (\A r \in Requests : pc[r] # "newline")
       => Lines(file) - inherited >= Cardinality(Logged) - (IF crashes > 0 THEN 1 ELSE 0)

\* One answer of GET /metrics never shows more requests of this process in the
\* log than in the counters it shows beside them.
CountersCoverTheLog ==
  poll.lines # -1 /\ poll.requests # -1 => poll.lines - inherited <= poll.requests

\* Finding.

\* "Logs token metrics to JSONL file" (tokens.rs:166): each line is the JSON of
\* one request.
OneJsonPerLine ==
  \A i \in 2..Len(file) : ~IsNewline(file[i]) => IsNewline(file[i - 1])
=============================================================================
