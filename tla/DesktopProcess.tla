--------------------------- MODULE DesktopProcess ---------------------------
(***************************************************************************)
(* The process of the desktop application: its life cycle                  *)
(* (RuntimeLifecycle) with the window in it (DesktopClient).  The          *)
(* application thread handles the user's events and the runnables of       *)
(* Platform.runLater from the end of DesktopApp.init until it calls stop.  *)
(* The virtual threads of the jobs know nothing of that: nobody shuts      *)
(* their executor down, they go on until the virtual machine halts, and    *)
(* what they hand to an application thread that has left is dropped.       *)
(***************************************************************************)
EXTENDS RuntimeLifecycle, Naturals, Sequences

CONSTANTS Goals, Imports, MaxDetails

ASSUME DesktopAssumption == Goals \cap Imports = {} /\ MaxDetails \in Nat

VARIABLES job, failed, later, documentStore, docItems, documentTree, messages,
          statusLabel, details

Client == INSTANCE DesktopClient

client == <<job, failed, later, documentStore, docItems, documentTree, messages,
            statusLabel, details>>
processVars == <<vars, client>>

ProcessInit == Init /\ Client!ClientInit

\* the application thread shows the window and works its events off
Open == At("fx", "window")

WindowStep == Open /\ (Client!UserStep \/ Client!RunLater) /\ UNCHANGED vars

JobStep(j) == ~Halted /\ Client!JobStep(j) /\ UNCHANGED vars

ProcessNext ==
    \/ Next /\ UNCHANGED client
    \/ WindowStep
    \/ \E j \in Client!Jobs : JobStep(j)

(* As in RuntimeLifecycle; a virtual thread that can go on does, an        *)
(* agent's future settles (AgentExecution), and the application thread     *)
(* runs what it was handed while the window is open.                       *)
ProcessFairness ==
    /\ WF_processVars((StopWorkers \/ Step("hook")) /\ UNCHANGED client)
    /\ WF_processVars((MainStep \/ Step("main")) /\ UNCHANGED client)
    /\ WF_processVars(Exit /\ pc["main"] = "end" /\ UNCHANGED client)
    /\ WF_processVars(Open /\ Client!RunLater /\ UNCHANGED vars)
    /\ \A j \in Client!Jobs : WF_processVars(JobStep(j))

ProcessSpec == ProcessInit /\ [][ProcessNext]_processVars /\ ProcessFairness

-----------------------------------------------------------------------------
(* MainController: overlapping goals and imports leave the status bar at   *)
(* rest.                                                                   *)
QuietStatus == Client!QuietStatus

(* Every goal the user sends is answered, after the user's message, and    *)
(* every import is reported, unless its thread died of an Error or the     *)
(* window was closed or the process ended meanwhile (MainController,       *)
(* DesktopApp.stop): only then may a job be lost without a word.           *)
JobsAreAnswered ==
    \A j \in Client!Jobs :
        job[j] = "running" ~> Client!Answered(j) \/ job[j] = "dead" \/ ~Open
=============================================================================
