------------------------------ MODULE FinanceMcp ------------------------------
(***************************************************************************)
(* src/src/mcp-finance-http.js over src/src/mcp-finance-server.js: HTTP    *)
(* calls, several at once, whose bodies are read and whose tools are       *)
(* awaited; and handle(), the same dispatch for callers in the process.    *)
(* Contents of answers are left out: an answer is its kind.                *)
(***************************************************************************)
EXTENDS TaskScreening, FiniteSets

CONSTANTS
    HttpCalls,   \* the calls
    HttpAsks,    \* what a call may ask, see HttpAsk below
    ToolGuard,   \* the guard, or Unguarded
    Unguarded

Methods == {"none", "server/discover", "initialize", "notifications/initialized",
            "tools/list", "tools/call", "other"}

\* A message: whether it says jsonrpc "2.0", its method, the protocol version it
\* names, the tool it calls, and what screening finds in its arguments.
Message(rpc, method, version, tool, findings) ==
    [rpc |-> rpc, method |-> method, version |-> version, tool |-> tool, findings |-> findings]

\* The request around it; "body" is "json", "null", "bad" or "large".
HttpAsk(post, json, header, body, message) ==
    [post |-> post, json |-> json, header |-> header, body |-> body, message |-> message]

ASSUME McpAssumption ==
    /\ IsFiniteSet(HttpCalls)
    /\ ToolGuard = Unguarded \/ ToolGuard.mode \in Modes
    /\ \A q \in HttpAsks :
          /\ q.message.rpc \in BOOLEAN /\ q.message.method \in Methods
          /\ q.message.version \in {"modern", "legacy", "none"}
          /\ q.message.tool \in {"none", "unknown", "known"}

VARIABLES
    httpAsked,  \* what each call asks
    httpAt,     \* "new", "reading", "calling" or "answered"
    httpAnswer, \* the status and the kind of answer it got
    toolRuns,   \* history: the calls whose tool was run
    screenings  \* how many input_screening entries the ledger got

mcpVars == <<httpAsked, httpAt, httpAnswer, toolRuns, screenings>>

Unanswered == [status |-> 0, kind |-> "none"]

McpInit ==
    /\ httpAsked \in [HttpCalls -> HttpAsks]
    /\ httpAt = [c \in HttpCalls |-> "new"]
    /\ httpAnswer = [c \in HttpCalls |-> Unanswered]
    /\ toolRuns = {} /\ screenings = 0
-----------------------------------------------------------------------------
(* The dispatch of a message, up to the tool. *)

\* Mutant of Admitted: what a reviewer might approve is let through.
AdmittedUnlessBlocked(findings) ==
    ToolGuard = Unguarded \/ GuardDecision(ToolGuard, findings) # "block"

\* screenCall(): nobody can be asked, so "require_approval" stops a call, too.
Admitted(findings) == ToolGuard = Unguarded \/ GuardDecision(ToolGuard, findings) = "allow"

Called(m) ==
    CASE m.tool = "none" -> "no tool name"
      [] m.tool = "unknown" -> "unknown tool"
      [] m.tool = "known" -> IF Admitted(m.findings) THEN "runs" ELSE "held"

\* handle()
Handled(m) ==
    CASE ~m.rpc \/ m.method = "none" -> "invalid request"
      [] m.rpc /\ m.method = "server/discover" -> "discovered"
      [] m.rpc /\ m.method = "initialize" ->
            IF m.version = "legacy" THEN "initialized" ELSE "unsupported"
      [] m.rpc /\ m.method = "notifications/initialized" -> "nothing"
      [] m.rpc /\ m.method \in {"tools/list", "tools/call", "other"} ->
            CASE m.version # "modern" -> "not modern"
              [] m.version = "modern" /\ m.method = "tools/list" -> "tools"
              [] m.version = "modern" /\ m.method = "tools/call" -> Called(m)
              [] m.version = "modern" /\ m.method = "other" -> "method not found"

\* handleAsync(): a call does not go through handle(), whose first check it lacks.
HandledAsync(m) ==
    IF m.method = "tools/call"
    THEN IF m.version = "modern" THEN Called(m) ELSE "not modern"
    ELSE Handled(m)
-----------------------------------------------------------------------------
(* The HTTP boundary. *)

Answers(c, status, kind) ==
    /\ httpAt' = [httpAt EXCEPT ![c] = "answered"]
    /\ httpAnswer' = [httpAnswer EXCEPT ![c] = [status |-> status, kind |-> kind]]

Receive(c) ==
    /\ httpAt[c] = "new"
    /\ CASE ~httpAsked[c].post -> Answers(c, 405, "transport")
         [] httpAsked[c].post /\ ~httpAsked[c].json -> Answers(c, 415, "transport")
         [] httpAsked[c].post /\ httpAsked[c].json ->
               httpAt' = [httpAt EXCEPT ![c] = "reading"] /\ UNCHANGED httpAnswer
    /\ UNCHANGED <<httpAsked, toolRuns, screenings>>

\* The body is too large, or not JSON, or the null whose method is asked for.
BodyUnusable(c) ==
    /\ httpAt[c] = "reading" /\ httpAsked[c].body # "json"
    /\ Answers(c, IF httpAsked[c].body = "large" THEN 413 ELSE 400, "transport")
    /\ UNCHANGED <<httpAsked, toolRuns, screenings>>

NeedsHeader(m) == m.method \notin {"server/discover", "initialize"}

\* The body has been read: the header is checked and the message dispatched, up
\* to the await of its tool.
Dispatch(c) ==
    LET q == httpAsked[c]
        kind == HandledAsync(q.message)
    IN
    /\ httpAt[c] = "reading" /\ q.body = "json"
    /\ IF NeedsHeader(q.message) /\ ~q.header
       THEN Answers(c, 400, "headerless") /\ UNCHANGED <<toolRuns, screenings>>
       ELSE IF kind = "runs"
       THEN /\ httpAt' = [httpAt EXCEPT ![c] = "calling"]
            /\ toolRuns' = toolRuns \cup {c}
            /\ UNCHANGED <<httpAnswer, screenings>>
       ELSE /\ Answers(c, IF kind = "nothing" THEN 202 ELSE 200, kind)
            /\ screenings' = IF kind = "held" THEN screenings + 1 ELSE screenings
            /\ UNCHANGED toolRuns
    /\ UNCHANGED httpAsked

\* The tool has returned or thrown; both are results to the protocol.
ToolEnds(c) ==
    /\ httpAt[c] = "calling"
    /\ \E kind \in {"tool result", "tool error"} : Answers(c, 200, kind)
    /\ UNCHANGED <<httpAsked, toolRuns, screenings>>

McpNext == \E c \in HttpCalls : Receive(c) \/ BodyUnusable(c) \/ Dispatch(c) \/ ToolEnds(c)

McpSpec == McpInit /\ [][McpNext]_mcpVars
-----------------------------------------------------------------------------
(* Properties. *)

\* Every variable holds values the code can give it.
McpTypeOK ==
    /\ httpAt \in [HttpCalls -> {"new", "reading", "calling", "answered"}]
    /\ \A c \in HttpCalls :
          /\ httpAnswer[c].status \in {0, 200, 202, 400, 405, 413, 415}
          /\ httpAt[c] = "answered" <=> httpAnswer[c] # Unanswered
    /\ toolRuns \subseteq HttpCalls /\ screenings \in 0..Cardinality(HttpCalls)

\* "If the guard does not allow a call, it returns a tool error before the tool
\* runs" (README.md:231), with a record of it: a tool is run only for a call
\* that came with the protocol's header and version and in which the guard finds
\* nothing, and every call that was held has its entry in the ledger, whatever
\* other calls are under way.
HeldCallsRunNothing ==
    /\ \A c \in toolRuns :
          LET q == httpAsked[c] IN
          /\ q.header /\ q.message.version = "modern" /\ q.message.tool = "known"
          /\ ToolGuard # Unguarded => Considered(q.message.findings, ToolGuard.ignored) = {}
    /\ screenings = Cardinality({c \in HttpCalls : httpAnswer[c].kind = "held"})
=============================================================================
