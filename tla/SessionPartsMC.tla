--------------------------- MODULE SessionPartsMC ---------------------------
(***************************************************************************)
(* What the turns of a session use and leave behind: its calls of the model   *)
(* and the tools, the guards and budget of the loop, and what it stores, on    *)
(* disk, in MongoDB and on the Hub.  These parts share no state, so one         *)
(* instance checks them side by side: each behaviour is one of one part,        *)
(* chosen at its start, and a part that does not move starts in one state only. *)
(***************************************************************************)
EXTENDS ApprovalBudget, TurnGuards, EditMatch, FileTools, LlmCall, SnapshotStore,
        Skills, Conversation, HubArtifacts

VARIABLES part

\* the calls a model makes in TurnGuards: they work, change the plan, fail, or
\* cannot be parsed
ToolCall(t, a, o) == [tool |-> t, args |-> a, out |-> o]
SomeCalls ==
  {ToolCall("bash", "x", "done"), ToolCall("bash", "x", "failed"),
   ToolCall("plan_tool", "y", "done"), ToolCall("edit", "x", "failed"),
   ToolCall("edit", "{}", "malformed")}

\* models in LlmCall: one behind the custom endpoint, one that cannot think, and
\* one behind the router, whose API knows fewer efforts than the others'
Efforts == <<"max", "high", "low">>
KnownEfforts ==
  [m \in LlmModels |-> IF m = "router" THEN {"high", "low"} ELSE {"max", "high", "low"}]
AcceptedEfforts ==
  [m \in LlmModels |-> CASE m = "custom" -> {"low"}
                         [] m = "plain" -> {}
                         [] OTHER -> {"high", "low"}]
Keys == [m \in LlmModels |-> CASE m = "custom" -> "custom"
                               [] m = "router" -> "hub"
                               [] OTHER -> "none"]

TurnVars == <<budgetVars, guardVars, llmVars>>
ToolVars == <<editVars, fileVars>>
StoreVars == <<vars, skillVars, chatVars, hubVars>>
partVars == <<part, TurnVars, ToolVars, StoreVars>>

PartsInit ==
  /\ part \in {"budget", "guards", "llm", "edit", "files",
               "store", "skills", "chat", "hub"}
  /\ BudgetInit /\ GuardsInit /\ Init
  /\ HubInit /\ (part # "hub" => ~exists)
  /\ ChatInit /\ (part # "chat" => ~logs[1].mine)
  /\ LlmInit /\ (part # "llm" => \A s \in LlmSessions :
                                   model[s] = "plain" /\ call[s].streams)
  /\ FileInit /\ (part # "files" => where = "local" /\ fileText = Absent)
  /\ SkillsInit /\ (part # "skills" =>
                      /\ ~accountKnown /\ \A k \in DOMAIN skill : skill[k] = NoSkill
                      /\ \A s \in RunningSessions : owner[s] = "dev")
  /\ EditInit /\ (part # "edit" => content = <<>> /\ pattern = <<Blank>>)

PartsNext ==
  /\ UNCHANGED part
  /\ \/ /\ UNCHANGED <<ToolVars, StoreVars>>
        /\ \/ part = "budget" /\ BudgetNext /\ UNCHANGED <<guardVars, llmVars>>
           \/ part = "guards" /\ GuardsNext /\ UNCHANGED <<budgetVars, llmVars>>
           \/ part = "llm" /\ LlmNext /\ UNCHANGED <<budgetVars, guardVars>>
     \/ /\ UNCHANGED <<TurnVars, StoreVars>>
        /\ \/ part = "edit" /\ EditNext /\ UNCHANGED fileVars
           \/ part = "files" /\ FileNext /\ UNCHANGED editVars
     \/ /\ UNCHANGED <<TurnVars, ToolVars>>
        /\ \/ part = "store" /\ Next
              /\ UNCHANGED <<skillVars, chatVars, hubVars>>
           \/ part = "skills" /\ SkillsNext
              /\ UNCHANGED <<vars, chatVars, hubVars>>
           \/ part = "chat" /\ ChatNext
              /\ UNCHANGED <<vars, skillVars, hubVars>>
           \/ part = "hub" /\ HubNext
              /\ UNCHANGED <<vars, skillVars, chatVars>>

PartsSpec == PartsInit /\ [][PartsNext]_partVars

PartsTypeOK ==
  /\ BudgetTypeOK /\ GuardsTypeOK /\ LlmTypeOK /\ EditTypeOK /\ FileTypeOK
  /\ TypeOK /\ SkillsTypeOK /\ ChatTypeOK /\ HubTypeOK
=============================================================================
