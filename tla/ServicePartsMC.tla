--------------------------- MODULE ServicePartsMC ---------------------------
(***************************************************************************)
(* The parts that run beside the turns for as long as a session or the       *)
(* process lives: the gateway of notifications, the sandbox, the uploads of    *)
(* trajectories, and the command line client.  They share no state, so one       *)
(* instance checks them side by side: each behaviour is one of one part, chosen  *)
(* at its start.                                                           *)
(***************************************************************************)
EXTENDS NotificationGateway, SandboxLifecycle, TrajectoryUpload, CommandLine

VARIABLES part

\* uploaders of each file at a time
SomeProcs == [f \in Formats |-> IF f = "row" THEN 2 ELSE 1]

partVars == <<part, gatewayVars, sandboxVars, uploadVars, cliVars>>

PartsInit ==
  /\ part \in {"gateway", "sandbox", "upload", "cli"}
  /\ GatewayInit /\ SandboxInit /\ UploadInit
  /\ CliInit /\ (part # "cli" => ~headless)

PartsNext ==
  /\ UNCHANGED part
  /\ \/ part = "gateway" /\ GatewayNext /\ UNCHANGED <<sandboxVars, uploadVars, cliVars>>
     \/ part = "sandbox" /\ SandboxNext /\ UNCHANGED <<gatewayVars, uploadVars, cliVars>>
     \/ part = "upload" /\ UploadNext /\ UNCHANGED <<gatewayVars, sandboxVars, cliVars>>
     \/ part = "cli" /\ CliNext /\ UNCHANGED <<gatewayVars, sandboxVars, uploadVars>>

\* the fairness of the gateway and of the client, for the behaviours that are theirs
PartsFairness ==
  /\ WF_gatewayVars(part = "gateway" /\ GatewayStep)
  /\ WF_cliVars(part = "cli" /\ MainStep)
  /\ WF_cliVars(part = "cli" /\ ListenerStep)
  /\ WF_cliVars(part = "cli" /\ AgentStarts)
  /\ WF_cliVars(part = "cli" /\ Submissions)

PartsSpec == PartsInit /\ [][PartsNext]_partVars /\ PartsFairness

PartsTypeOK == GatewayTypeOK /\ SandboxTypeOK /\ UploadTypeOK /\ CliTypeOK
=============================================================================
