------------------------------ MODULE MCParts ------------------------------
(***************************************************************************)
(* The parts of the repository that share no state with each other, in one *)
(* model: a behavior chooses a part and is one of its specification, with  *)
(* the others at rest in their initial states.                             *)
(***************************************************************************)
EXTENDS DashboardChart, Training, CharTraining, LlmAccess, Campaign, LabStream

CONSTANTS
  Names, QNAMES_MAX, Threshold, Entropies, NoName, MaxEvents,          \* Detection
  Arguments, Ids, MaxTurns,                                            \* ToolAgent
  Labels, MaxLabels, QTypes,                                           \* Sensor
  REPORTED, RESTARTABLE, RestartSeconds, ApplySeconds,                 \* SystemPanel
  LastSecond, MaxClicks

\* An applied backend shows the defender as restarting no shorter than a click.
ASSUME SecondsAssumption == {RestartSeconds, ApplySeconds} \subseteq Nat /\ RestartSeconds <= ApplySeconds

\* A call of a reply that has ids has one.
ASSUME IdsAssumption == "None" \notin Ids

\* Scores are numbers.  The limit keeps a name; no label has characters of more
\* than six bits each; and a packet without a name has none.
ASSUME DetectionAssumption ==
  /\ Threshold \in Int /\ \A q \in Names : q.score \in Int
  /\ QNAMES_MAX \in Nat \ {0} /\ Entropies \subseteq 0 .. 60
  /\ NoName \notin [id : Nat, label : Nat, length : Nat, entropy : Nat,
                    domain : {"example.local"}, score : Int]

\* A label has at most 63 bytes, a type two.
ASSUME LabelsAssumption ==
  /\ \A l \in Labels : l \in Seq(0 .. 255) /\ 1 <= Len(l) /\ Len(l) <= 63
  /\ MaxLabels \in Nat /\ QTypes \subseteq 0 .. 256 * 256 - 1

\* What stands for none is neither a name nor an event.
ASSUME NoneAssumption ==
  /\ None \notin Seq(Seq(0 .. 255))
  /\ None \notin [qname : Seq(Seq(0 .. 255)) \cup {None}, qtype : Nat \cup {None},
                  is_response : BOOLEAN, rcode : {0, None}]

VARIABLES
  part,
  window, attack, alert,                                               \* Detection
  turns, calls, events, tool_inputs, step,                             \* ToolAgent
  packet, event,                                                       \* Sensor
  now, status, health, lastOps, pendingRestart, shown, clicks          \* SystemPanel

Windows == INSTANCE Detection
Agent == INSTANCE ToolAgent
Tap == INSTANCE Sensor
Panel == INSTANCE SystemPanel

\* A corpus whose parts are cut at the same name by both ways of cutting, and
\* one for which they differ.
MCCorpora == {[id |-> 1, size |-> 6], [id |-> 2, size |-> 7]}

MCName(id, length, label, entropy, domain, score) ==
  [id |-> id, length |-> length, label |-> label, entropy |-> entropy,
   domain |-> domain, score |-> score]

\* two names below the threshold, two above it, in two domains
MCNames == {MCName("www", 17, 7, 16, "d1", 1), MCName("chunk", 60, 40, 40, "d1", 3),
            MCName("mail", 20, 9, 20, "d2", 2), MCName("blob", 20, 9, 20, "d2", 4)}

MCArguments == {[log |-> {}], [log |-> {"xss", "data_exfiltration"}],
                [ip |-> "tor_exit"], [cve |-> "unlisted"]}

\* the bytes of a label may look like the end of a name or like a pointer
MCLabels == {<<97>>, <<0, 2>>, <<200, 97, 98>>}

windowVars == <<window, attack, alert>>
agentVars == <<turns, calls, events, tool_inputs, step>>
tapVars == <<packet, event>>
panelVars == <<now, status, health, lastOps, pendingRestart, shown, clicks>>

MCInit ==
  /\ part \in {"chart", "training", "fit", "detection", "agent", "llm", "sensor", "traffic",
               "panel", "stream"}
  /\ Init /\ (part # "chart" => clock = 0)
  /\ TrainingInit /\ CharInit /\ Windows!Init /\ Agent!Init /\ LlmInit /\ Tap!Init
  /\ Panel!Init /\ LabInit /\ CampaignInit /\ (part # "traffic" => mode = {"benign"})

MCNext ==
  /\ UNCHANGED part
  /\ \/ /\ part = "chart" /\ Next
        /\ UNCHANGED <<trainingVars, charVars, windowVars, agentVars, llmVars, tapVars,
                       campaignVars, panelVars, labVars>>
     \/ /\ part = "training" /\ TrainingNext
        /\ UNCHANGED <<vars, charVars, windowVars, agentVars, llmVars, tapVars,
                       campaignVars, panelVars, labVars>>
     \/ /\ part = "fit" /\ CharNext
        /\ UNCHANGED <<vars, trainingVars, windowVars, agentVars, llmVars, tapVars,
                       campaignVars, panelVars, labVars>>
     \/ /\ part = "detection" /\ Windows!Next
        /\ UNCHANGED <<vars, trainingVars, charVars, agentVars, llmVars, tapVars,
                       campaignVars, panelVars, labVars>>
     \/ /\ part = "agent" /\ Agent!Next
        /\ UNCHANGED <<vars, trainingVars, charVars, windowVars, llmVars, tapVars,
                       campaignVars, panelVars, labVars>>
     \/ /\ part = "llm" /\ LlmNext
        /\ UNCHANGED <<vars, trainingVars, charVars, windowVars, agentVars, tapVars,
                       campaignVars, panelVars, labVars>>
     \/ /\ part = "sensor" /\ Tap!Next
        /\ UNCHANGED <<vars, trainingVars, charVars, windowVars, agentVars, llmVars,
                       campaignVars, panelVars, labVars>>
     \/ /\ part = "traffic" /\ CampaignNext
        /\ UNCHANGED <<vars, trainingVars, charVars, windowVars, agentVars, llmVars,
                       tapVars, panelVars, labVars>>
     \/ /\ part = "panel" /\ Panel!Next
        /\ UNCHANGED <<vars, trainingVars, charVars, windowVars, agentVars, llmVars,
                       tapVars, campaignVars, labVars>>
     \/ /\ part = "stream" /\ LabNext
        /\ UNCHANGED <<vars, trainingVars, charVars, windowVars, agentVars, llmVars,
                       tapVars, campaignVars, panelVars>>

mcvars ==
  <<part, vars, trainingVars, charVars, windowVars, agentVars, llmVars, tapVars, campaignVars,
    panelVars, labVars>>

MCSpec == MCInit /\ [][MCNext]_mcvars

-----------------------------------------------------------------------------
(* The properties of the instances; those of the modules this one extends  *)
(* are theirs.                                                             *)

\* Detection: a query more never takes an alert back.
MoreQueriesKeepTheAlert == Windows!MoreQueriesKeepTheAlert

\* Detection: a loud attack's own technique leads its alert.
LoudAttackIsNamedFirst == Windows!LoudAttackIsNamedFirst

\* ToolAgent: a step shows the input its output was made from.
StepShowsItsInput == Agent!StepShowsItsInput

\* Sensor: a question left as bytes is read as far as it is there.
RawQuestionSurvives == Tap!RawQuestionSurvives

\* SystemPanel: a page asks for one restart of a container at a time.
OneRestartAtATime == Panel!OneRestartAtATime
=============================================================================
