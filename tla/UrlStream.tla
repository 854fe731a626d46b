----------------------------- MODULE UrlStream -----------------------------
(***************************************************************************)
(* The stream of one request as the program really feeds it: the URL flow   *)
(* (url_flow_context_builder.py, url_processor.py, summary_draft_streaming) *)
(* is the only publisher of the StreamHub, and the SSE endpoint its reader. *)
(***************************************************************************)
EXTENDS StreamHub

CONSTANT MaxSections   \* bound: section snapshots of one summary

VARIABLES
  stage,      \* the last stage the flow published
  sections    \* sections published so far

flowVars == <<stage, sections>>

FlowInit == HubInit /\ stage = "none" /\ sections = 0

\* Extraction is over (URLFlowContextBuilder.build).
Extracted ==
  /\ stage = "none" /\ stage' = "extracting"
  /\ Publish("stage") /\ UNCHANGED sections

Summarizing ==
  /\ stage = "extracting" /\ stage' = "summarizing"
  /\ Publish("stage") /\ UNCHANGED sections

\* SummaryDraftStreamCoordinator.on_delta publishes every new section.
Section ==
  /\ stage = "summarizing" /\ sections < MaxSections
  /\ sections' = sections + 1
  /\ Publish("section") /\ UNCHANGED stage

Validating ==
  /\ stage = "summarizing" /\ stage' = "validating"
  /\ Publish("stage") /\ UNCHANGED sections

Persisting ==
  /\ stage = "validating" /\ stage' = "persisting"
  /\ Publish("stage") /\ UNCHANGED sections

\* deliver_summary is through: the stage "done" is announced, as a stage.
Delivered ==
  /\ stage = "persisting" /\ stage' = "done"
  /\ Publish("stage") /\ UNCHANGED sections

\* Extraction, summary or delivery fails: the flow answers the chat and
\* publishes nothing.
FlowFails ==
  /\ stage \notin {"done", "failed"} /\ stage' = "failed"
  /\ UNCHANGED <<hubVars, sections>>

Flow == Extracted \/ Summarizing \/ Section \/ Validating \/ Persisting \/ Delivered

FlowNext ==
  \/ Flow \/ FlowFails
  \/ \E s \in Subscribers : (Subscribe(s) \/ Consume(s)) /\ UNCHANGED flowVars
  \/ Cleanup /\ UNCHANGED flowVars
  \/ stage \in {"done", "failed"} /\ UNCHANGED <<hubVars, flowVars>>

\* The flow goes on until it delivers or fails, connected clients read.
FlowSpec ==
  /\ FlowInit /\ [][FlowNext]_<<hubVars, flowVars>>
  /\ WF_<<hubVars, flowVars>>(Flow)
  /\ WF_<<hubVars, flowVars>>(Cleanup /\ UNCHANGED flowVars)
  /\ \A s \in Subscribers : WF_<<hubVars, flowVars>>(Consume(s) /\ UNCHANGED flowVars)

\* A connection is open only until the flow it follows is over (mobile-api.md,
\* "Streaming Model": until a terminal `done' or `error' event is emitted).
StreamEnds == \A s \in Subscribers : phase[s] = "replay" ~> phase[s] = "closed"
=============================================================================
