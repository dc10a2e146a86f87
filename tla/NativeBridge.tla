---------------------------- MODULE NativeBridge ----------------------------
(***************************************************************************)
(* native-bridge: the OCR, layout and PDF bridges, each with its own       *)
(* native library, and the NativeLibraryLoader they share.  The loader has *)
(* one flag for the whole process; its two methods are synchronized on the *)
(* class, which is the monitor "lock" here.  Any thread may initialize,    *)
(* use or destroy a bridge.                                                *)
(***************************************************************************)
CONSTANTS
    Threads,      \* the threads that use the bridges
    Bridges,      \* the bridges
    Libraries,    \* native libraries
    LibraryOf,    \* the library each bridge asks for
    None

ASSUME BridgeAssumption ==
    /\ LibraryOf \in [Bridges -> Libraries]
    /\ None \notin Threads
    /\ None \notin Bridges
    /\ None \notin Libraries

VARIABLES
    loaded,       \* NativeLibraryLoader.loaded
    lock,         \* the thread inside one of its synchronized methods
    initialized,  \* the bridges whose flag is set
    libraries,    \* the libraries the virtual machine has loaded
    pc,           \* where each thread is
    bridge,       \* the bridge it is in
    winner,       \* history: the library the flag was set for
    failed        \* history: that library could not be loaded

history == <<winner, failed>>
bridgeVars == <<loaded, lock, initialized, libraries, pc, bridge, history>>

Places == {"idle", "enter", "flag", "load", "set", "native"}

BridgeTypeOK ==
    /\ loaded \in BOOLEAN
    /\ lock \in Threads \cup {None}
    /\ initialized \subseteq Bridges
    /\ libraries \subseteq Libraries
    /\ pc \in [Threads -> Places]
    /\ bridge \in [Threads -> Bridges \cup {None}]
    /\ winner \in Libraries \cup {None}
    /\ failed \in BOOLEAN

BridgeInit ==
    /\ loaded = FALSE
    /\ lock = None
    /\ initialized = {}
    /\ libraries = {}
    /\ pc = [t \in Threads |-> "idle"]
    /\ bridge = [t \in Threads |-> None]
    /\ winner = None
    /\ failed = FALSE

Go(t, from, to) == pc[t] = from /\ pc' = [pc EXCEPT ![t] = to]

Leave(t) == bridge' = [bridge EXCEPT ![t] = None]

-----------------------------------------------------------------------------
\* A bridge's initialize(): it returns at once if its flag is set.
Initialize(t, b) ==
    /\ Go(t, "idle", "enter")
    /\ b \notin initialized
    /\ bridge' = [bridge EXCEPT ![t] = b]
    /\ UNCHANGED <<loaded, lock, initialized, libraries, history>>

\* Seeded fault: loadLibrary is not synchronized.
EnterLoader_Unsynchronized(t) ==
    /\ Go(t, "enter", "flag")
    /\ lock' = t
    /\ UNCHANGED <<loaded, initialized, libraries, bridge, history>>

\* loadLibrary is synchronized
EnterLoader(t) ==
    /\ Go(t, "enter", "flag")
    /\ lock = None
    /\ lock' = t
    /\ UNCHANGED <<loaded, initialized, libraries, bridge, history>>

(* loadLibrary sets the flag before it tries; when it was set already,     *)
(* whatever it was set for, loadLibrary returns.                           *)
TestAndSetFlag(t) ==
    /\ Go(t, "flag", IF loaded THEN "set" ELSE "load")
    /\ loaded' = TRUE
    /\ winner' = IF loaded THEN winner ELSE LibraryOf[bridge[t]]
    /\ lock' = IF loaded THEN None ELSE lock
    /\ UNCHANGED <<initialized, libraries, bridge, failed>>

\* System.loadLibrary, or the copy from the class path
LoadSucceeds(t) ==
    /\ Go(t, "load", "set")
    /\ libraries' = libraries \cup {LibraryOf[bridge[t]]}
    /\ lock' = None
    /\ UNCHANGED <<loaded, initialized, bridge, history>>

(* Neither place has the library: initialize raises, the flag stays set.   *)
LoadFails(t) ==
    /\ Go(t, "load", "idle")
    /\ failed' = TRUE
    /\ lock' = None
    /\ Leave(t)
    /\ UNCHANGED <<loaded, initialized, libraries, winner>>

SetInitialized(t) ==
    /\ Go(t, "set", "idle")
    /\ initialized' = initialized \cup {bridge[t]}
    /\ Leave(t)
    /\ UNCHANGED <<loaded, lock, libraries, history>>

-----------------------------------------------------------------------------
(* loadFromPath, in one step of its own: it holds the monitor throughout,  *)
(* and sets the flag only after System.load has returned.                  *)
LoadFromPath(lib) ==
    /\ lock = None
    /\ ~loaded
    /\ libraries' = libraries \cup {lib}
    /\ loaded' = TRUE
    /\ winner' = lib
    /\ UNCHANGED <<lock, initialized, pc, bridge, failed>>

\* recognize, recognizeFile and their likes; without the flag they raise.
Call(t, b) ==
    /\ Go(t, "idle", "native")
    /\ b \in initialized
    /\ bridge' = [bridge EXCEPT ![t] = b]
    /\ UNCHANGED <<loaded, lock, initialized, libraries, history>>

\* The native method runs, or raises UnsatisfiedLinkError.
NativeReturns(t) ==
    /\ Go(t, "native", "idle")
    /\ Leave(t)
    /\ UNCHANGED <<loaded, lock, initialized, libraries, history>>

Destroy(b) ==
    /\ b \in initialized
    /\ initialized' = initialized \ {b}
    /\ UNCHANGED <<loaded, lock, libraries, pc, bridge, history>>

-----------------------------------------------------------------------------
InitializeStep(t) ==
    \/ EnterLoader(t) \/ TestAndSetFlag(t) \/ LoadSucceeds(t) \/ LoadFails(t)
    \/ SetInitialized(t)

BridgeNext ==
    \/ \E t \in Threads : InitializeStep(t) \/ NativeReturns(t)
    \/ \E t \in Threads, b \in Bridges : Initialize(t, b) \/ Call(t, b)
    \/ \E lib \in Libraries : LoadFromPath(lib)
    \/ \E b \in Bridges : Destroy(b)

BridgeSpec == BridgeInit /\ [][BridgeNext]_bridgeVars

-----------------------------------------------------------------------------
\* A thread is about to call a native method that is not there.
Unlinked(t) == pc[t] = "native" /\ LibraryOf[bridge[t]] \notin libraries

(* What the guard of every method of a bridge says ("not initialized"      *)
(* raises, so after it the native method may be called): the library of a  *)
(* bridge that is initialized has been loaded.                             *)
InitializedIsLinked == \A t \in Threads : ~Unlinked(t)

(* What is true of it: a native method is missing only because the one     *)
(* flag was taken by another library, or because its loading failed and a  *)
(* later initialize() took the flag for a success.  No race between        *)
(* threads that initialize the same bridge exposes a library that is still *)
(* being loaded.                                                           *)
UnlinkedOnlyByTheFlag ==
    \A t \in Threads : Unlinked(t) => failed \/ winner # LibraryOf[bridge[t]]
=============================================================================
