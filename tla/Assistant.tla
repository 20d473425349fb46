------------------------------ MODULE Assistant ------------------------------
(***************************************************************************)
(* models/model_manager.py, aura/__init__.py and aura/memory.py: models    *)
(* are loaded, unloaded and replaced by remote backends by one thread      *)
(* while a query that another thread has put to AURA is under way; the     *)
(* conversation is kept in a rolling window and survives a restart.        *)
(*                                                                         *)
(* An engine is known by the model or backend it was made for. A turn is a *)
(* query's number and who speaks.                                          *)
(***************************************************************************)
EXTENDS Naturals, Sequences, SequencesExt, FiniteSets

CONSTANTS
  Models,      \* models with a file in models/
  TooBig,      \* those that exceed max_memory_mb
  Ollama,      \* the engine of load_ollama()
  OpenAI,      \* the engine of load_openai()
  Askers,      \* threads that dispatch commands: the shell, the web terminal
  Stub,        \* StubInferenceEngine
  None,        \* no active model
  Window,      \* max_turns
  MaxQueries   \* bound on the number of queries

ASSUME AssistantAssumption ==
  /\ TooBig \subseteq Models /\ {Ollama, OpenAI, Stub, None} \cap Models = {}
  /\ Cardinality({Ollama, OpenAI, Stub, None}) = 4
  /\ Window \in Nat \ {0} /\ MaxQueries \in Nat

Resting == [at |-> "rest"]
Torn == <<<<0, "torn">>>>  \* a memory.json that was opened and not written

VARIABLES
  library,     \* the keys of _registry
  active,      \* _active
  engine,      \* _engine
  doing,       \* what each asker is doing
  turns,       \* ConversationMemory._turns
  kept,        \* memory.json
  queries      \* how many queries there have been

assistantVars == <<library, active, engine, doing, turns, kept, queries>>

AssistantTypeOK ==
  /\ library \subseteq Models
  /\ active \in Models \cup {Ollama, OpenAI, None}
  /\ engine \in Models \cup {Ollama, OpenAI, Stub}
  /\ \A t \in Askers : doing[t].at \in {"rest", "load", "asked", "infer", "inferring", "save"}
  /\ Len(turns) <= Window /\ queries \in 0..MaxQueries

AssistantInit ==
  /\ library = {} /\ active = None /\ engine = Stub
  /\ doing = [t \in Askers |-> Resting]
  /\ turns = <<>> /\ kept = <<>> /\ queries = 0

\* add(): the deque drops its oldest turn at maxlen; load() keeps as many.
LastOf(s) == SubSeq(s, IF Len(s) > Window THEN Len(s) - Window + 1 ELSE 1, Len(s))

Querying(t) == doing[t].at \in {"asked", "infer", "inferring"}

\* Under the lock: the engine and its name change together. Every query that
\* is under way has then met that name.
Activates(name, made, others) ==
  /\ active' = name /\ engine' = made
  /\ doing' = [t \in Askers |->
       IF Querying(t) THEN [others[t] EXCEPT !.met = @ \cup {name}] ELSE others[t]]

-----------------------------------------------------------------------------
\* _save_registry(): registry.json follows. A write that fails is only logged.
SavesRegistry(L) == library' = L

\* register(), of a model for the first time or again.
RegisterModel(m) ==
  /\ SavesRegistry(library \cup {m})
  /\ UNCHANGED <<active, engine, doing, turns, kept, queries>>

\* scan_models_dir() registers every file that is not.
ScanModels ==
  /\ SavesRegistry(Models)
  /\ UNCHANGED <<active, engine, doing, turns, kept, queries>>

\* load() looks the model up; one that is unknown or too big is refused.
LoadLooks(t, m) ==
  /\ doing[t] = Resting /\ m \in library \ TooBig
  /\ doing' = [doing EXCEPT ![t] = [at |-> "load", of |-> m]]
  /\ UNCHANGED <<library, active, engine, turns, kept, queries>>

\* _try_load_engine(): without llama-cpp or onnxruntime, or if the file cannot
\* be loaded, the stub serves.
EngineMade(m) == {m, Stub}

\* A fault: an engine that is there already is used again.
LoadsOnce(t) ==
  /\ doing[t].at = "load"
  /\ Activates(doing[t].of, IF engine = Stub THEN doing[t].of ELSE engine,
               [doing EXCEPT ![t] = Resting])
  /\ UNCHANGED <<library, turns, kept, queries>>

\* The engine has been made and is put in place.
LoadSets(t) ==
  /\ doing[t].at = "load"
  /\ \E made \in EngineMade(doing[t].of) :
       Activates(doing[t].of, made, [doing EXCEPT ![t] = Resting])
  /\ UNCHANGED <<library, turns, kept, queries>>

\* unload()
Unload(t) ==
  /\ doing[t] = Resting /\ Activates(None, Stub, doing)
  /\ UNCHANGED <<library, turns, kept, queries>>

\* load_ollama() where the server answers.
LoadOllama(t) ==
  /\ doing[t] = Resting /\ Activates(Ollama, Ollama, doing)
  /\ UNCHANGED <<library, turns, kept, queries>>

\* load_openai(), which asks nobody.
LoadOpenAI(t) ==
  /\ doing[t] = Resting /\ Activates(OpenAI, OpenAI, doing)
  /\ UNCHANGED <<library, turns, kept, queries>>

-----------------------------------------------------------------------------
\* A fault: the question is not remembered.
AsksInPassing(t) ==
  /\ doing[t] = Resting /\ queries < MaxQueries
  /\ queries' = queries + 1
  /\ doing' = [doing EXCEPT ![t] = [at |-> "asked", id |-> queries + 1, met |-> {active}]]
  /\ UNCHANGED <<library, active, engine, turns, kept>>

\* query(): the question enters the window ...
QueryBegins(t) ==
  /\ doing[t] = Resting /\ queries < MaxQueries
  /\ queries' = queries + 1
  /\ turns' = LastOf(Append(turns, <<queries + 1, "user">>))
  /\ doing' = [doing EXCEPT ![t] = [at |-> "asked", id |-> queries + 1, met |-> {active}]]
  /\ UNCHANGED <<library, active, engine, kept>>

Answers(t) ==
  /\ turns' = LastOf(Append(turns, <<doing[t].id, "aura">>))
  /\ doing' = [doing EXCEPT ![t] = Resting]
  /\ UNCHANGED <<library, active, engine, kept, queries>>

\* ... with no active model a template is the answer ...
QueryLooks(t) ==
  /\ doing[t].at = "asked"
  /\ \/ active = None /\ Answers(t)
     \/ /\ active # None
        /\ doing' = [doing EXCEPT ![t].at = "infer"]
        /\ UNCHANGED <<library, active, engine, turns, kept, queries>>

\* ... otherwise infer() takes the engine that is current by then ...
InferTakes(t) ==
  /\ doing[t].at = "infer"
  /\ doing' = [doing EXCEPT ![t] = [at |-> "inferring", id |-> @.id, met |-> @.met, by |-> engine]]
  /\ UNCHANGED <<library, active, engine, turns, kept, queries>>

\* ... and its answer enters the window ...
InferAnswers(t) == doing[t].at = "inferring" /\ Answers(t)

\* ... unless it raises: a server that cannot be reached does.
InferRaises(t) ==
  /\ doing[t].at = "inferring" /\ doing[t].by # Stub
  /\ doing' = [doing EXCEPT ![t] = Resting]
  /\ UNCHANGED <<library, active, engine, turns, kept, queries>>

\* _on_shutdown(), save(): memory.json is opened, which empties it, and written.
SaveOpens(t) ==
  /\ doing[t] = Resting
  /\ doing' = [doing EXCEPT ![t] = [at |-> "save", what |-> turns]]
  /\ kept' = Torn
  /\ UNCHANGED <<library, active, engine, turns, queries>>

SaveWrites(t) ==
  /\ doing[t].at = "save"
  /\ kept' = doing[t].what
  /\ doing' = [doing EXCEPT ![t] = Resting]
  /\ UNCHANGED <<library, active, engine, turns, queries>>

\* _load_registry() and ConversationMemory.load(): a file that was cut short is as
\* good as none, and where a save failed a list of fewer models may be left.
LoadRegistry == library' \in SUBSET library
LoadMemory == turns' = IF kept = Torn THEN <<>> ELSE LastOf(kept)

\* The system is started again, and attach_kernel() called.
Reboot ==
  /\ LoadRegistry /\ LoadMemory
  /\ active' = None /\ engine' = Stub
  /\ doing' = [t \in Askers |-> Resting]
  /\ UNCHANGED <<kept, queries>>

\* Shell._cmd_model(); the remote backends are loaded by callers of the API.
ModelCommand(t) == ScanModels \/ Unload(t) \/ \E m \in Models : LoadLooks(t, m)

AssistantNext ==
  \/ (\E m \in Models : RegisterModel(m)) \/ Reboot
  \/ \E t \in Askers :
       \/ ModelCommand(t) \/ LoadSets(t) \/ LoadOllama(t) \/ LoadOpenAI(t)
       \/ QueryBegins(t) \/ QueryLooks(t) \/ InferTakes(t) \/ InferAnswers(t) \/ InferRaises(t)
       \/ SaveOpens(t) \/ SaveWrites(t)

AssistantSpec == AssistantInit /\ [][AssistantNext]_assistantVars

-----------------------------------------------------------------------------
\* An answer comes from the stub or from a model that was active while the
\* query was under way, although models are loaded, unloaded and replaced
\* between the look at the active model and the inference:
\* aura/__init__.py:133-140, model_manager.py:342-383.
AnsweredByActive ==
  \A t \in Askers : doing[t].at = "inferring" => doing[t].by \in doing[t].met \cup {Stub}

\* In the window every answer comes after its question, unless that has been
\* pushed out and with it every question put before: conversations at the
\* prompt and at the web terminal mix, and the window is saved in the middle
\* of one and restored: aura/__init__.py:129-143, memory.py:62-72, 132-192.
AnswersFollowQuestions ==
  \A i \in DOMAIN turns : turns[i][2] = "aura" =>
    \/ \E j \in 1..(i - 1) : turns[j] = <<turns[i][1], "user">>
    \/ /\ Len(turns) = Window
       /\ \A j \in DOMAIN turns : turns[j][2] = "user" => turns[j][1] > turns[i][1]
=============================================================================
