----------------------------- MODULE LlmAccess -----------------------------
(***************************************************************************)
(* Groq access (shared/llm.py): the model the dashboard selects, in a      *)
(* control file that the UI and the CTI worker read for every call, and    *)
(* the budget sample the UI's calls leave for the System panel.  Both      *)
(* files are written in place, so a reader can find them empty, for good   *)
(* if their writer dies.  The key is set and the SDK installed.            *)
(***************************************************************************)
EXTENDS Integers

CONSTANTS
  Models,   \* groq_list_models(), or the fallback list
  Default,  \* GROQ_MODEL
  Limits,   \* token limits of the headers
  None

ASSUME LimitsAssumption == Limits \subseteq Nat

VARIABLES
  llm_model,  \* the control file: None without one, "" truncated
  posted,     \* the selection api_set_model() is writing
  usage,      \* llm_usage.json: None without one, [status |-> "torn"] truncated
  call,       \* groq_complete() of the summarizer
  chat,       \* the model of the CTI worker's chat
  panel       \* what the System panel shows

llmVars == <<llm_model, posted, usage, call, chat, panel>>

Empty == ""
TornSample == [status |-> "torn"]

ModelAsRead(file) == IF file # None THEN file ELSE Default
Model(file) == IF file \notin {None, Empty} THEN file ELSE Default

\* groq_model()
groq_model == Model(llm_model)

\* used_pct of _rate_from_headers(); "remaining" can exceed the limit
Clipped(pct) == IF pct < 0 THEN 0 ELSE IF pct > 100 THEN 100 ELSE pct
UsedPct(limit, remaining) ==
  IF limit > 0 THEN Clipped(((limit - remaining) * 100) \div limit) ELSE None

LlmInit ==
  /\ llm_model = None /\ posted = None /\ usage = None
  /\ call = None /\ chat = None /\ panel = None

-----------------------------------------------------------------------------
(* The selection. *)

\* api_set_model(): write_text() truncates, then writes.
PostModel(m) ==
  /\ posted = None
  /\ posted' = m /\ llm_model' = Empty
  /\ UNCHANGED <<usage, call, chat, panel>>

WriteModel ==
  /\ posted # None
  /\ llm_model' = posted /\ posted' = None
  /\ UNCHANGED <<usage, call, chat, panel>>

-----------------------------------------------------------------------------
(* groq_complete(), in a thread of the UI *)

BeginCall ==
  /\ call = None
  /\ call' = [step |-> "asked", model |-> groq_model]
  /\ UNCHANGED <<llm_model, posted, usage, chat, panel>>

\* 200 or 429, with the token headers.  _write_usage() reads the selection of
\* now, and opens the file.
Answer(status, limit, remaining) ==
  /\ call # None /\ call.step = "asked"
  /\ call' = [step |-> "answered", model |-> call.model,
              sample |-> [status |-> status, model |-> groq_model,
                          used_pct |-> UsedPct(limit, remaining)]]
  /\ usage' = TornSample
  /\ UNCHANGED <<llm_model, posted, chat, panel>>

WriteUsage ==
  /\ call # None /\ call.step = "answered"
  /\ usage' = call.sample /\ call' = None
  /\ UNCHANGED <<llm_model, posted, chat, panel>>

\* any other exception
Fail ==
  /\ call # None /\ call.step = "asked"
  /\ call' = None
  /\ UNCHANGED <<llm_model, posted, usage, chat, panel>>

-----------------------------------------------------------------------------
(* The CTI worker's chat, the panel, and the death of the UI. *)

\* groq_llm_config(): one configuration for both agents of a chat
BeginChat ==
  /\ chat = None
  /\ chat' = groq_model
  /\ UNCHANGED <<llm_model, posted, usage, call, panel>>

EndChat ==
  /\ chat # None
  /\ chat' = None
  /\ UNCHANGED <<llm_model, posted, usage, call, panel>>

\* _llm_state(), on the event loop, as api_set_model() is
ShowOps ==
  /\ posted = None
  /\ panel' =
       [model |-> groq_model,
        status |-> IF usage = None THEN "online"
                   ELSE IF usage.status = "429" THEN "rate_limited" ELSE "online",
        used_pct |-> IF usage \in {None, TornSample} THEN None ELSE usage.used_pct]
  /\ UNCHANGED <<llm_model, posted, usage, call, chat>>

UiDies ==
  /\ posted' = None /\ call' = None /\ panel' = None
  /\ UNCHANGED <<llm_model, usage, chat>>

LlmNext ==
  \/ \E m \in Models : PostModel(m)
  \/ WriteModel
  \/ BeginCall \/ Fail \/ WriteUsage
  \/ \E status \in {"200", "429"}, limit, remaining \in Limits : Answer(status, limit, remaining)
  \/ BeginChat \/ EndChat \/ ShowOps \/ UiDies

LlmSpec == LlmInit /\ [][LlmNext]_llmVars

-----------------------------------------------------------------------------
(* Properties. *)

\* Whoever reads while a selection is being written, or after the UI died in the
\* middle of it, gets a model that was selected or the default one, and the bar
\* of the panel stays within its bounds: no call goes out without a model.
NoCallWithoutAModel ==
  /\ \A m \in {chat, IF call = None THEN None ELSE call.model,
               IF panel = None THEN None ELSE panel.model} : m \in Models \cup {Default, None}
  /\ panel # None => panel.used_pct \in (0 .. 100) \cup {None}
=============================================================================
