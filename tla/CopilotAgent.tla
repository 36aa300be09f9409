---------------------------- MODULE CopilotAgent ----------------------------
(***************************************************************************)
(* research-copilot: a provider's model asks for read-only tools in a loop *)
(* bounded by tool calls, time and context; or, without a provider, fixed  *)
(* routes choose the tools.  Either way the answer is an envelope whose    *)
(* citations carry the hash of what the tools returned.  A payload stands  *)
(* for its hash.                                                           *)
(***************************************************************************)
EXTENDS Integers, SequencesExt

CONSTANTS
  Tools,         \* allowlisted tools
  Live,          \* those that read the registry or a file: their payload may change
  Configured,    \* those with a database or a path
  Routes,        \* the tools of the fixed routes, in route order
  Unknown,       \* a tool name of no contract
  MaxToolCalls, MaxRetries,
  TraceLimit, RetryLimit,   \* the verifier's own: _MAX_TRACE_ITEMS, and the retries in _MAX_USAGE_REQUESTS
  MaxDuration, MaxContext,  \* seconds and messages
  MaxCalls,      \* bound on the tool calls of one response
  MaxVersion,    \* bound on changes of what live tools read
  MaxClock       \* bound: the clock stops there

\* What an instance must satisfy; the MC modules assume it.
AgentAssumption ==
  /\ Configured \subseteq Tools /\ Live \subseteq Tools /\ "rejected" \notin Tools /\ Unknown \notin Tools
  /\ {MaxToolCalls, MaxRetries, TraceLimit, RetryLimit} \subseteq Nat
  /\ MaxToolCalls <= TraceLimit /\ MaxRetries <= RetryLimit
  /\ Routes \in Seq(Configured) /\ Len(Routes) <= TraceLimit

VARIABLES
  pc,        \* loop, request, tools, answer, done, failed or unverified
  clock, version,
  messages, loops, attempts, requests,
  calls,     \* tool calls of the response in hand
  cites,     \* citations so far, in order
  trace,     \* tool trace so far
  started,   \* when the last provider request was sent
  envelope,  \* the answer envelope, or NoEnvelope
  file       \* the private output, or NoEnvelope

vars == <<pc, clock, version, messages, loops, attempts, requests, calls, cites, trace,
          started, envelope, file>>
budget == <<clock, version, messages, loops, attempts, requests, started>>

NoEnvelope == [status |-> "none"]
Final == {"done", "failed", "unverified"}

-----------------------------------------------------------------------------
(* Tools and the envelope                                                  *)

\* ReadOnlyToolset.execute; what cannot be read now is a cited payload of its own.
Payload(tool, available) ==
  [tool |-> tool, state |-> IF tool \in Live THEN (IF available THEN version ELSE 0) ELSE 1]

UniqueCitationsByTool(cs) ==  \* mutant: one citation per source
  {c \in Range(cs) : \A d \in Range(cs) : d.tool = c.tool => d.state <= c.state}

\* _unique_citations
UniqueCitations(cs) == Range(cs)

\* verify_copilot_answer_report
Verifies(e) ==
  /\ e.status = "grounded" <=> e.cites # {}
  /\ e.status = "uncited" => \A i \in DOMAIN e.trace : e.trace[i].name = "rejected"
  /\ Cardinality(e.cites) <= Cardinality({i \in DOMAIN e.trace : e.trace[i].cited})
  /\ \A i \in DOMAIN e.trace : e.trace[i].name # "rejected" => e.trace[i].cited
  /\ Len(e.trace) <= TraceLimit /\ e.requests \in 0 .. (TraceLimit + 1) * (RetryLimit + 1)

Envelope(cs, tr) ==
  [cites |-> UniqueCitations(cs), trace |-> tr, requests |-> requests,
   status |-> IF cs = <<>> THEN "uncited" ELSE "grounded"]

Init ==
  /\ pc = "loop" /\ clock = 0 /\ version = 1 /\ messages = 2 /\ loops = 0 /\ attempts = 0
  /\ requests = 0 /\ calls = <<>> /\ cites = <<>> /\ trace = <<>> /\ started = 0
  /\ envelope = NoEnvelope /\ file = NoEnvelope

Finish(e) ==  \* verification is part of generation
  /\ pc' = IF Verifies(e) THEN "done" ELSE "unverified"
  /\ envelope' = e
  /\ UNCHANGED <<budget, calls, cites, trace, file>>

Fail ==
  /\ pc' = "failed"
  /\ UNCHANGED <<budget, calls, cites, trace, envelope, file>>

-----------------------------------------------------------------------------
(* The agent's loop, ResearchCopilot.ask                                   *)

\* before a completion: the tool-call, time and context budgets
Loop ==
  /\ pc = "loop"
  /\ IF loops > MaxToolCalls \/ clock >= MaxDuration \/ messages > MaxContext THEN Fail
     ELSE /\ pc' = "request" /\ loops' = loops + 1 /\ attempts' = 0
          /\ UNCHANGED <<clock, version, messages, requests, started, calls, cites, trace, envelope, file>>

\* one HTTP request of OpenAICompatibleProvider.complete, which took some time
Send(took) ==
  /\ clock' = IF clock + took > MaxClock THEN MaxClock ELSE clock + took
  /\ attempts' = attempts + 1 /\ requests' = requests + 1 /\ started' = clock
  /\ UNCHANGED <<version, loops, cites, trace, envelope, file>>

\* a timeout, 408, 425, 429 or 5xx; the backoff is part of the time it took
Retryable(took) ==
  /\ pc = "request" /\ Send(took)
  /\ pc' = IF attempts + 1 > MaxRetries THEN "failed" ELSE "request"
  /\ UNCHANGED <<messages, calls>>

\* another status, a redirect, or a response that is too long or not JSON
Refused == pc = "request" /\ Fail

Respond(took, asked) ==
  /\ pc = "request" /\ Send(took)
  /\ messages' = messages + 1 /\ calls' = asked
  /\ pc' = IF asked = <<>> THEN "answer" ELSE "tools"

\* _execute_call: ToolInputError rejects an unknown tool, bad arguments or no configuration.
Accepted(call) == call.name \in Configured /\ call.valid

TraceOf(call) ==
  [name |-> IF Accepted(call) THEN call.name ELSE "rejected", cited |-> Accepted(call)]

\* one tool call of a response
CallTool(available) ==
  /\ pc = "tools" /\ calls # <<>>
  /\ IF Len(trace) + 1 > MaxToolCalls THEN Fail
     ELSE /\ trace' = Append(trace, TraceOf(Head(calls)))
          /\ cites' = IF Accepted(Head(calls))
                      THEN Append(cites, Payload(Head(calls).name, available)) ELSE cites
          /\ messages' = messages + 1 /\ calls' = Tail(calls)
          /\ pc' = IF Tail(calls) = <<>> THEN "loop" ELSE "tools"
          /\ UNCHANGED <<clock, version, loops, attempts, requests, started, envelope, file>>

\* the final content, which may be empty
Answer(text) ==
  /\ pc = "answer"
  /\ IF text = "empty" \/ (cites = <<>> /\ \E i \in DOMAIN trace : trace[i].name # "rejected")
     THEN Fail ELSE Finish(Envelope(cites, trace))

-----------------------------------------------------------------------------
(* Without a provider: DeterministicEvidenceNavigator.ask                  *)

\* the routes a question matched; experiments bring the study summary
Sections(matched) ==
  matched \cup IF "get_experiment_results" \in matched THEN {"get_study_summary"} ELSE {}

Chosen(matched) == {i \in DOMAIN Routes : Routes[i] \in Sections(matched)}

\* in route order
Navigate(matched) ==
  /\ pc = "loop" /\ loops = 0
  /\ \E at \in [1 .. Cardinality(Chosen(matched)) -> Chosen(matched)] :
       /\ \A i, j \in DOMAIN at : i < j => at[i] < at[j]
       /\ Finish(Envelope([i \in DOMAIN at |-> Payload(Routes[at[i]], TRUE)],
                          [i \in DOMAIN at |-> [name |-> Routes[at[i]], cited |-> TRUE]]))

-----------------------------------------------------------------------------
\* research_copilot verifies the report again and writes it.
Deliver ==
  /\ pc = "done" /\ Verifies(envelope) /\ file' = envelope
  /\ UNCHANGED <<pc, budget, calls, cites, trace, envelope>>

\* the forward cycle and the operator write what the live tools read
Change ==
  /\ pc \notin Final /\ version < MaxVersion /\ version' = version + 1
  /\ UNCHANGED <<pc, clock, messages, loops, attempts, requests, calls, cites, trace, started, envelope, file>>

Calls == [name : Tools \cup {Unknown}, valid : BOOLEAN]

Step ==
  \/ Loop \/ Refused
  \/ \E took \in 0 .. 1 : Retryable(took)
  \/ \E took \in 0 .. 1, n \in 0 .. MaxCalls : \E asked \in [1 .. n -> Calls] : Respond(took, asked)
  \/ \E available \in BOOLEAN : CallTool(available)
  \/ \E text \in {"text", "empty"} : Answer(text)

Next == Step \/ Deliver \/ Change \/ \E matched \in SUBSET Range(Routes) : Navigate(matched)

\* Every call of the loop returns: requests time out and tools read local state.
Spec == Init /\ [][Next]_vars /\ WF_vars(Step)

-----------------------------------------------------------------------------
(* Properties                                                              *)

\* What the saved answer cites is exactly what its accepted tool calls returned, each
\* version of it; a rejected request leaves no evidence behind.
CitationClosure ==
  file # NoEnvelope =>
    /\ file.cites = Range(cites) \/ (cites = <<>> /\ loops = 0)
    /\ file.status = "grounded" <=> \E i \in DOMAIN file.trace : file.trace[i].name # "rejected"
    /\ {c.tool : c \in file.cites} = {file.trace[i].name : i \in DOMAIN file.trace} \ {"rejected"}

\* The agent never spends a run on an envelope that its own verifier refuses.
EnvelopesVerify == pc # "unverified"

\* Budgets hold across responses that each ask for several tools and are retried.
BudgetsHold ==
  /\ Len(trace) <= MaxToolCalls /\ requests <= (MaxToolCalls + 1) * (MaxRetries + 1)
  /\ pc = "done" /\ loops > 0 => loops <= MaxToolCalls + 1

=============================================================================
