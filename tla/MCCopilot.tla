----------------------------- MODULE MCCopilot -----------------------------
(* The evidence copilot: one answer of the agent, the human review of its     *)
(* benchmark, the masked comparison of two arms, and a panel of profiles.     *)
(* They share no state, so `focus` picks the one that moves in a behaviour.   *)
EXTENDS CopilotArms, TLC

CONSTANTS
  governance, metrics, h1, h2,  \* model values
  Tools, Live, Configured, Routes, Unknown,
  MaxToolCalls, MaxRetries, TraceLimit, RetryLimit, MaxDuration, MaxContext,
  MaxCalls, MaxVersion, MaxClock,                        \* bounds of the agent
  ReviewCases, Answers, Reviewers, Minimum,
  ReviewRuns, MaxEntries, ReviewTime,                    \* bounds of the review
  Profiles, PanelRuns, PanelSnapshots                    \* bounds of the panel

VARIABLES
  focus,
  panelPc, run, left, summaries, failed, published, files, panel, code,
  pc, clock, version, messages, loops, attempts, requests, calls, cites, trace, started, envelope,
  file,
  bench, history, loaded, given, report

agentVars  == <<pc, clock, version, messages, loops, attempts, requests, calls, cites, trace,
                started, envelope, file>>
reviewVars == <<bench, history, loaded, given, report>>
panelVars  == <<panelPc, run, left, summaries, failed, published, files, panel, code>>

Agent == INSTANCE CopilotAgent

Review == INSTANCE CopilotReview WITH
  Cases <- ReviewCases, MaxRuns <- ReviewRuns, MaxTime <- ReviewTime

\* The two routes of a question about experiments.
TwoRoutes == <<"get_study_summary", "get_experiment_results">>

\* Cases and answers are interchangeable: the review only compares them.
Interchangeable == Permutations({governance, metrics}) \cup Permutations({h1, h2})

\* Two cases and a snapshot replaced at any time; the provider arm may be run again, the
\* baseline, which is fixed, is not.
TwoCases == <<"metrics", "governance">>
OneBaseline == ("baseline" :> 1) @@ ("copilot" :> 2)

Panel == INSTANCE CopilotPanel WITH
  pc <- panelPc, snapshot <- published, MaxRuns <- PanelRuns, MaxSnapshot <- PanelSnapshots

ASSUME ProfilesAssumption == Panel!PanelAssumption

\* The default profiles of the command; three commands into one directory.
DefaultProfiles == <<"quant", "architect", "operations">>

ASSUME AnswersAssumption == Agent!AgentAssumption /\ Review!ReviewAssumption

MCInit ==
  /\ Agent!Init /\ Review!Init /\ Init /\ Panel!Init
  /\ focus \in {"agent", "review", "arms", "panel"}

MCNext ==
  /\ \/ focus = "agent" /\ Agent!Next /\ UNCHANGED <<reviewVars, vars, panelVars>>
     \/ focus = "review" /\ Review!Next /\ UNCHANGED <<agentVars, vars, panelVars>>
     \/ focus = "arms" /\ Next /\ UNCHANGED <<agentVars, reviewVars, panelVars>>
     \/ focus = "panel" /\ Panel!Next /\ UNCHANGED <<agentVars, reviewVars, vars>>
  /\ UNCHANGED focus

MCSpec == MCInit /\ [][MCNext]_<<agentVars, reviewVars, vars, panelVars, focus>>

-----------------------------------------------------------------------------
(* Properties                                                                *)

\* What the saved answer cites is exactly what its accepted tool calls returned, each
\* version of it, a rejected request leaves no evidence behind, and no run is spent on an
\* envelope that its own verifier refuses; budgets hold across responses that each ask for
\* several tools and are retried.
CitationClosure == Agent!CitationClosure /\ Agent!EnvelopesVerify /\ Agent!BudgetsHold

\* A ready report speaks of a complete run of which every answer was accepted and none
\* rejected; an entry names the answer of its own run; and the history that the command
\* wrote is one that its verifier accepts, whatever mix of runs it grew from.
ReadyIsReviewed ==
  Review!ReadyIsReviewed /\ Review!EntryNamesAnswer /\ Review!WrittenHistoryVerifies

\* "an operator cannot mistake one successful perspective for a complete review": exit
\* code 0 of a panel says that each selected profile answered in this command, over one
\* snapshot, and that the files of the directory are those answers.
ZeroMeansEveryProfile == Panel!ZeroMeansEveryProfile
=============================================================================
