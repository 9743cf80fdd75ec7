------------------------------- MODULE DocDir -------------------------------
(***************************************************************************)
(* The document-directory settings of src/src/docdir.cpp: two file-static *)
(* QStrings, docDir and valutFile, read through getters that return a     *)
(* const reference and written through setters.  Static initialization    *)
(* constructs them (as empty strings) in declaration order before main;   *)
(* when EarlyCallers, code in other translation units' static             *)
(* initializers may call the functions before that, whose order across    *)
(* translation units C++ leaves unspecified.  A reader keeps the          *)
(* reference a getter returned and may read through it later.             *)
(***************************************************************************)
EXTENDS FiniteSets

CONSTANTS
    Paths,        \* QString values callers pass; "" is the empty string
    EarlyCallers  \* whether static initializers elsewhere call these

ASSUME "" \in Paths /\ EarlyCallers \in BOOLEAN

Statics == {"docDir", "valutFile"}

VARIABLES
    docDir,       \* static QString docDir
    valutFile,    \* static QString valutFile
    constructed,  \* the statics whose constructor has run
    phase,        \* "static_init" or "main"
    held          \* the static a reader holds a reference to, or "none"

vars == <<docDir, valutFile, constructed, phase, held>>

Value(s) == IF s = "docDir" THEN docDir ELSE valutFile

Init ==
    /\ docDir = "" /\ valutFile = ""          \* zero-initialized storage
    /\ constructed = {}
    /\ phase = "static_init"
    /\ held = "none"

\* The dynamic initializer of docdir.cpp: docDir's constructor, then
\* valutFile's, each leaving an empty QString.
ConstructStatic ==
    /\ phase = "static_init" /\ constructed # Statics
    /\ LET s == IF "docDir" \in constructed THEN "valutFile" ELSE "docDir"
       IN /\ constructed' = constructed \cup {s}
          /\ IF s = "docDir" THEN docDir' = "" /\ UNCHANGED valutFile
                             ELSE valutFile' = "" /\ UNCHANGED docDir
    /\ UNCHANGED <<phase, held>>

\* Static initialization is over; main runs.
EnterMain ==
    /\ phase = "static_init" /\ constructed = Statics
    /\ phase' = "main"
    /\ UNCHANGED <<docDir, valutFile, constructed, held>>

\* Calls are made from main, or earlier from other initializers.
CanCall == phase = "main" \/ EarlyCallers

\* void setDocDir(const QString& dir) { docDir = dir; }
setDocDir(dir) ==
    /\ CanCall
    /\ docDir' = dir
    /\ UNCHANGED <<valutFile, constructed, phase, held>>

\* void setVaultFile(const QString& file) { valutFile = file; }
setVaultFile(file) ==
    /\ CanCall
    /\ valutFile' = file
    /\ UNCHANGED <<docDir, constructed, phase, held>>

\* getDocDir() / getVaultFile(): the reader keeps the returned reference.
Get(s) ==
    /\ CanCall
    /\ held' = s
    /\ UNCHANGED <<docDir, valutFile, constructed, phase>>

getDocDir    == Get("docDir")
getVaultFile == Get("valutFile")

Next ==
    \/ ConstructStatic \/ EnterMain
    \/ \E p \in Paths : setDocDir(p) \/ setVaultFile(p)
    \/ getDocDir \/ getVaultFile

Spec == Init /\ [][Next]_vars

=============================================================================
