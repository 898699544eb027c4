----------------------------- MODULE ToolAgent -----------------------------
(***************************************************************************)
(* The security agent of lab 3 (lab3/app/agent/app.py): on_message() turns *)
(* the event stream of an AG2 run into Chainlit steps, each with a tool's  *)
(* input and output.  AG2 (external) starts the calls of one reply of the  *)
(* model together, and their two events each come in any order that keeps  *)
(* a call's start before its end; a reply in the older form of a function  *)
(* call has one call, without an id.  Ids may come again in a later reply. *)
(*                                                                         *)
(* A log line is the set of patterns that match it, an address the         *)
(* reputation it is listed with, a CVE whether it is known.                *)
(***************************************************************************)
EXTENDS Integers, Sequences, FiniteSets

CONSTANTS
  Arguments,  \* the arguments the model gives: [log], [ip] or [cve]
  Ids,        \* call ids of a reply
  MaxTurns    \* max_turns of a_run()

VARIABLES
  turns,        \* replies of the model to the current message
  calls,        \* calls of the current reply, not yet over: [id, args, started]
  events,       \* response.events, not yet handled
  tool_inputs,  \* on_message()'s dict
  step          \* the last Chainlit step displayed

vars == <<turns, calls, events, tool_inputs, step>>

NoId == "None"
NoStep == [name |-> "none"]

-----------------------------------------------------------------------------
(* The tools. *)

FuncName(args) ==
  CASE "log" \in DOMAIN args -> "parse_log_entry"
    [] "ip"  \in DOMAIN args -> "check_ip_reputation"
    [] "cve" \in DOMAIN args -> "lookup_cve"

SEVERITY_ORDER == <<"INFO", "LOW", "MEDIUM", "HIGH", "CRITICAL">>
SEVERITY_MAP == [failed_login |-> "LOW", port_scan |-> "MEDIUM", xss |-> "MEDIUM",
                 sql_injection |-> "HIGH", privilege_escalation |-> "HIGH",
                 data_exfiltration |-> "CRITICAL"]

MaxSeverity(detected) ==
  LET of == {SEVERITY_MAP[e] : e \in detected}
      Index(s) == CHOOSE i \in DOMAIN SEVERITY_ORDER : SEVERITY_ORDER[i] = s
  IN  CHOOSE s \in of : \A r \in of : Index(r) <= Index(s)

parse_log_entry(detected) ==
  IF detected = {}
  THEN [status |-> "clean", event_types |-> {"unknown"}, severity |-> "INFO"]
  ELSE [status |-> "threat_detected", event_types |-> detected,
        severity |-> MaxSeverity(detected)]

check_ip_reputation(ip) ==
  CASE ip = "invalid"  -> [error |-> "not a valid IPv4 address"]
    [] ip = "unlisted" -> [reputation |-> "clean", recommendation |-> "ALLOW"]
    [] OTHER -> [reputation |-> ip,
                 recommendation |-> IF ip \in {"malicious", "tor_exit"} THEN "BLOCK" ELSE "MONITOR"]

lookup_cve(cve) ==
  CASE cve = "invalid" -> [error |-> "does not look like a valid CVE ID"]
    [] cve = "unlisted" -> [cve_id |-> cve, status |-> "not_found"]
    [] OTHER -> [cve_id |-> cve, severity |-> "listed"]

Output(args) ==
  CASE "log" \in DOMAIN args -> parse_log_entry(args.log)
    [] "ip"  \in DOMAIN args -> check_ip_reputation(args.ip)
    [] "cve" \in DOMAIN args -> lookup_cve(args.cve)

-----------------------------------------------------------------------------
(* AG2. *)

Init ==
  /\ turns = 0 /\ calls = {} /\ events = << >>
  /\ tool_inputs = << >> /\ step = NoStep

\* The model's next reply: calls with an id each, or one without.
Reply ==
  /\ calls = {} /\ turns < MaxTurns
  /\ turns' = turns + 1
  /\ \/ \E ids \in (SUBSET Ids) \ {{}} : \E args \in [ids -> Arguments] :
          calls' = {[id |-> i, args |-> args[i], started |-> FALSE] : i \in ids}
     \/ \E a \in Arguments : calls' = {[id |-> NoId, args |-> a, started |-> FALSE]}
  /\ UNCHANGED <<events, tool_inputs, step>>

\* AG2's events of a call
ExecuteFunctionEvent(c) ==
  [type |-> "ExecuteFunctionEvent", call_id |-> c.id, func_name |-> FuncName(c.args),
   arguments |-> c.args]
ExecutedFunctionEvent(c) ==
  [type |-> "ExecutedFunctionEvent", call_id |-> c.id, func_name |-> FuncName(c.args),
   content |-> Output(c.args)]

Execute(c) ==
  /\ ~c.started
  /\ calls' = (calls \ {c}) \cup {[c EXCEPT !.started = TRUE]}
  /\ events' = Append(events, ExecuteFunctionEvent(c))
  /\ UNCHANGED <<turns, tool_inputs, step>>

Executed(c) ==
  /\ c.started
  /\ calls' = calls \ {c}
  /\ events' = Append(events, ExecutedFunctionEvent(c))
  /\ UNCHANGED <<turns, tool_inputs, step>>

-----------------------------------------------------------------------------
(* on_message() *)

ToolKeyByName(e) == e.func_name
ToolKey(e) == IF e.call_id # NoId THEN e.call_id ELSE e.func_name

\* dict[key] = value
Updated(dict, key, value) ==
  [k \in DOMAIN dict \cup {key} |-> IF k = key THEN value ELSE dict[k]]

HandleExecute ==
  /\ events # << >> /\ Head(events).type = "ExecuteFunctionEvent"
  /\ LET e == Head(events)
     IN  tool_inputs' =
           Updated(tool_inputs, ToolKey(e), [name |-> e.func_name, input |-> e.arguments])
  /\ events' = Tail(events)
  /\ UNCHANGED <<turns, calls, step>>

HandleExecuted ==
  /\ events # << >> /\ Head(events).type = "ExecutedFunctionEvent"
  /\ LET e == Head(events)
         data == IF ToolKey(e) \in DOMAIN tool_inputs THEN tool_inputs[ToolKey(e)]
                 ELSE [name |-> e.func_name, input |-> [none |-> "(no arguments)"]]
     IN  step' = [name |-> data.name, input |-> data.input, output |-> e.content]
  /\ events' = Tail(events)
  /\ UNCHANGED <<turns, calls, tool_inputs>>

\* The summary is sent; the next message starts with an empty dict.
FinishMessage ==
  /\ calls = {} /\ events = << >> /\ turns > 0
  /\ turns' = 0 /\ tool_inputs' = << >> /\ step' = NoStep
  /\ UNCHANGED <<calls, events>>

Next ==
  \/ Reply
  \/ \E c \in calls : Execute(c) \/ Executed(c)
  \/ HandleExecute \/ HandleExecuted
  \/ FinishMessage

Spec == Init /\ [][Next]_vars

-----------------------------------------------------------------------------
(* Properties. *)

\* However the events of concurrent calls interleave, and though keys are used
\* again in later turns, a step shows with an output the tool that made it and
\* the arguments it was made from.
StepShowsItsInput ==
  step # NoStep => /\ step.name = FuncName(step.input)
                   /\ step.output = Output(step.input)
=============================================================================
