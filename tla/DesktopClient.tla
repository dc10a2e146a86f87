--------------------------- MODULE DesktopClient ---------------------------
(***************************************************************************)
(* desktop-client's MainController and AgentService.  The JavaFX           *)
(* application thread handles the user's events and the runnables given to *)
(* Platform.runLater, one at a time and the latter in order; each goal and *)
(* each import has a virtual thread of its own, which shares with it only  *)
(* the document store.  Both kinds of request are "jobs" here; a document  *)
(* is named after the job that imported it.  DesktopProcess says when the  *)
(* application thread and the jobs run.                                    *)
(***************************************************************************)
EXTENDS Naturals, Sequences

CONSTANTS
    Goals,      \* jobs: goals the user sends
    Imports,    \* jobs: files the user imports
    MaxDetails  \* bound: documents looked at in a behaviour

Jobs == Goals \cup Imports

VARIABLES
    job,           \* where the virtual thread of each job is
    failed,        \* the jobs that ended with an exception
    later,         \* the runnables waiting for the application thread
    documentStore, \* AgentService.documentStore
    docItems,      \* the list of documents in the window
    documentTree,  \* the documents in the tree view
    messages,      \* the chat history: <<who, job>>
    statusLabel,   \* what the status bar shows: <<what, job>>
    details        \* documents looked at

window == <<docItems, documentTree, messages, statusLabel>>

(* createMainLayout: an empty window that says Ready.                      *)
ClientInit ==
    /\ job = [j \in Jobs |-> "none"]
    /\ failed = {}
    /\ later = << >>
    /\ documentStore = {}
    /\ docItems = << >>
    /\ documentTree = << >>
    /\ messages = << >>
    /\ statusLabel = <<"Ready">>
    /\ details = 0

Go(j, from, to) == job[j] = from /\ job' = [job EXCEPT ![j] = to]

Say(who, j) == messages' = Append(messages, <<who, j>>)

-----------------------------------------------------------------------------
(* The user's events, in the application thread.  handleSend ignores a     *)
(* blank text; nothing stops a second goal while the first is running.     *)
HandleSend(j) ==
    /\ Go(j, "none", "running")
    /\ Say("User", j)
    /\ statusLabel' = <<"Processing", j>>
    /\ UNCHANGED <<failed, later, documentStore, docItems, documentTree, details>>

\* importFile, for the chosen file and for every file that is dropped
ImportFile(j) ==
    /\ Go(j, "none", "running")
    /\ statusLabel' = <<"Importing", j>>
    /\ UNCHANGED <<failed, later, documentStore, docItems, documentTree,
                   messages, details>>

\* A double click on an item; a document that is not found shows nothing.
ShowDocumentDetail(j) ==
    /\ details < MaxDetails
    /\ details' = details + 1
    /\ \E i \in 1 .. Len(docItems) : docItems[i] = j
    /\ messages' = IF j \in documentStore
                   THEN Append(messages, <<"Detail", j>>) ELSE messages
    /\ UNCHANGED <<job, failed, later, documentStore, docItems, documentTree,
                   statusLabel>>

-----------------------------------------------------------------------------
(* executeTask(text).join() has returned or raised; an Error of the agent  *)
(* arrives as a CompletionException, so the catch takes every end of it.   *)
TaskEnds(j) ==
    /\ Go(j, "running", "posted")
    /\ failed' \in {failed, failed \cup {j}}
    /\ later' = Append(later, j)
    /\ UNCHANGED <<documentStore, window, details>>

(* AgentService.importDocument has built the document and stores it ...    *)
StoreDocument(j) ==
    /\ Go(j, "running", "stored")
    /\ documentStore' = documentStore \cup {j}
    /\ UNCHANGED <<failed, later, window, details>>

\* ... and its thread hands the news to the application thread.
PostImported(j) ==
    /\ Go(j, "stored", "posted")
    /\ later' = Append(later, j)
    /\ UNCHANGED <<failed, documentStore, window, details>>

\* The format is unknown, or the importer raised an exception.
ImportFails(j) ==
    /\ Go(j, "running", "posted")
    /\ failed' = failed \cup {j}
    /\ later' = Append(later, j)
    /\ UNCHANGED <<documentStore, window, details>>

(* The importer ended with an Error: the catch takes exceptions only, and  *)
(* the executor keeps it in a future nobody looks at.                      *)
ImportDies(j) ==
    /\ Go(j, "running", "dead")
    /\ UNCHANGED <<failed, later, documentStore, window, details>>

-----------------------------------------------------------------------------
\* Seeded fault: the callback of a failed goal leaves the status bar alone.
RunLaterTask_KeepsStatus(j) ==
    /\ Say("Agent", j)
    /\ statusLabel' = IF j \in failed THEN statusLabel ELSE <<"Completed", j>>
    /\ UNCHANGED <<docItems, documentTree>>

\* Seeded fault: the catch of handleSend changes only the status bar.
RunLaterTask_SilentOnError(j) ==
    /\ messages' = IF j \in failed THEN messages ELSE Append(messages, <<"Agent", j>>)
    /\ statusLabel' = <<IF j \in failed THEN "Failed" ELSE "Completed", j>>
    /\ UNCHANGED <<docItems, documentTree>>

(* The callbacks of handleSend.                                            *)
RunLaterTask(j) ==
    /\ Say("Agent", j)
    /\ statusLabel' = <<IF j \in failed THEN "Failed" ELSE "Completed", j>>
    /\ UNCHANGED <<docItems, documentTree>>

\* updateDocumentTree adds the document under the root.
UpdateDocumentTree(j) == documentTree' = Append(documentTree, j)

RunLaterImported(j) ==
    /\ docItems' = Append(docItems, j)
    /\ UpdateDocumentTree(j)
    /\ statusLabel' = <<"Imported", j>>
    /\ Say("System", j)

RunLaterImportFailed(j) ==
    /\ statusLabel' = <<"Failed", j>>
    /\ Say("System", j)
    /\ UNCHANGED <<docItems, documentTree>>

(* External: the application thread runs the next runnable.                *)
RunLater ==
    /\ later # << >>
    /\ later' = Tail(later)
    /\ LET j == Head(later)
       IN  IF j \in Goals THEN RunLaterTask(j)
           ELSE IF j \in failed THEN RunLaterImportFailed(j)
           ELSE RunLaterImported(j)
    /\ UNCHANGED <<job, failed, documentStore, details>>

-----------------------------------------------------------------------------
JobStep(j) ==
    IF j \in Goals THEN TaskEnds(j)
    ELSE StoreDocument(j) \/ PostImported(j) \/ ImportFails(j) \/ ImportDies(j)

UserStep ==
    \/ \E j \in Goals : HandleSend(j)
    \/ \E j \in Imports : ImportFile(j) \/ ShowDocumentDetail(j)

-----------------------------------------------------------------------------
(* When nothing is going on any more the status bar does not claim that    *)
(* something is, although overlapping jobs overwrite each other's status:  *)
(* every job's last word comes after every job's first one.  The exception *)
(* is an import whose thread died of an Error, which reports nothing.      *)
QuietStatus ==
    /\ \A j \in Jobs : job[j] \in {"none", "posted"}
    /\ later = << >>
    => statusLabel[1] \notin {"Processing", "Importing"}

(* A job is answered: a goal after the user's message.                     *)
Answered(j) ==
    \E i \in 1 .. Len(messages) :
        /\ messages[i] \in {<<"Agent", j>>, <<"System", j>>}
        /\ j \in Goals => \E k \in 1 .. i - 1 : messages[k] = <<"User", j>>
=============================================================================
