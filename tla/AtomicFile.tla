----------------------------- MODULE AtomicFile -----------------------------
(***************************************************************************)
(* What one report file of an analysis (<stem>.json or <stem>.txt)         *)
(* promises its readers: it does not exist, or it holds the complete       *)
(* content of exactly one analysis, and each analysis installs its content *)
(* at most once.  PairWriter implements this specification twice, once per *)
(* file of the pair.                                                       *)
(***************************************************************************)
CONSTANTS
    Writers,    \* invocations that may install a content
    Stems,      \* file names
    StemOf,     \* the name each invocation writes
    None        \* "the file does not exist"

VARIABLES
    content,    \* the invocation whose content a file holds
    installed   \* the invocations that have installed their content

fileVars == <<content, installed>>

FileInit ==
    /\ content = [s \in Stems |-> None]
    /\ installed = {}

Install(w) ==
    /\ w \notin installed
    /\ content' = [content EXCEPT ![StemOf[w]] = w]
    /\ installed' = installed \cup {w}

FileNext == \E w \in Writers : Install(w)

FileSpec == FileInit /\ [][FileNext]_fileVars
=============================================================================
