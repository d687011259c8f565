---------------------------- MODULE FileDownloads ----------------------------
(***************************************************************************)
(* DownloadFile of panda-account: every download writes the same file and  *)
(* sends what it then reads from it.  Its errors are only logged, so that  *)
(* a download always succeeds.                                             *)
(***************************************************************************)
EXTENDS Naturals

CONSTANT Downloads

VARIABLES
    file,      \* lgx.txt
    down,      \* per download, its next step
    sent,      \* per download, what has been sent
    disturbed, \* ghost: downloads that ran beside another one
    broken     \* ghost: downloads one step of which has failed

fileVars == <<file, down, sent, disturbed, broken>>

Active == {d \in Downloads : down[d] \notin {"idle", "over"}}

FilesTypeOK ==
    /\ file \in {"absent", "empty", "full"}
    /\ down \in [Downloads -> {"idle", "create", "write", "open", "read", "send", "over"}]
    /\ sent \in [Downloads -> {"nothing", "content"}]
    /\ file = "absent" => \A d \in Downloads : down[d] \notin {"write", "read", "send"}
    /\ disturbed \subseteq Downloads
    /\ broken \subseteq Downloads

FilesInit ==
    /\ file \in {"absent", "full"}
    /\ down = [d \in Downloads |-> "idle"]
    /\ sent = [d \in Downloads |-> "nothing"]
    /\ disturbed = {}
    /\ broken = {}

-----------------------------------------------------------------------------
Move(d, from, to) == down[d] = from /\ down' = [down EXCEPT ![d] = to]

Fails(d) == broken' = broken \cup {d}

Start(d) ==
    /\ Move(d, "idle", "create")
    /\ disturbed' = IF Active = {} THEN disturbed ELSE disturbed \cup Active \cup {d}
    /\ UNCHANGED <<file, sent, broken>>

\* The file is only truncated.
BugCreate(d) ==
    /\ Move(d, "create", "open") /\ file' = "empty"
    /\ UNCHANGED <<sent, disturbed, broken>>

\* WriteStringToFile creates or truncates the file and then writes it.
Create(d) ==
    /\ \/ Move(d, "create", "write") /\ file' = "empty" /\ UNCHANGED broken
       \/ Move(d, "create", "open") /\ Fails(d) /\ UNCHANGED file
    /\ UNCHANGED <<sent, disturbed>>

WriteString(d) ==
    /\ Move(d, "write", "open")
    /\ \/ file' = "full" /\ UNCHANGED broken
       \/ Fails(d) /\ UNCHANGED file
    /\ UNCHANGED <<sent, disturbed>>

\* A file that could not be opened is read.
BugOpen(d) ==
    /\ Move(d, "open", "read")
    /\ UNCHANGED <<file, sent, disturbed, broken>>

\* readFileAndWriteToStream
Open(d) ==
    /\ \/ file # "absent" /\ Move(d, "open", "read") /\ UNCHANGED broken
       \/ Move(d, "open", "over") /\ Fails(d)
    /\ UNCHANGED <<file, sent, disturbed>>

\* The content fits in the buffer.  The second read is at the end.
ReadFile(d) ==
    /\ \/ Move(d, "read", IF file = "full" THEN "send" ELSE "over") /\ UNCHANGED broken
       \/ Move(d, "read", "over") /\ Fails(d)
    /\ UNCHANGED <<file, sent, disturbed>>

SendChunk(d) ==
    /\ Move(d, "send", "over")
    /\ \/ sent' = [sent EXCEPT ![d] = "content"] /\ UNCHANGED broken
       \/ Fails(d) /\ UNCHANGED sent
    /\ UNCHANGED <<file, disturbed>>

DownloadStep(d) == Start(d) \/ Create(d) \/ WriteString(d) \/ Open(d) \/ ReadFile(d) \/ SendChunk(d)

FilesNext == \E d \in Downloads : DownloadStep(d)

FilesSpec == FilesInit /\ [][FilesNext]_fileVars

-----------------------------------------------------------------------------
\* A download beside which no other ran, and of which no step failed, has sent
\* the content, whatever earlier ones have left in the file.
Whole ==
    \A d \in Downloads : down[d] = "over" => sent[d] = "content" \/ d \in disturbed \cup broken
=============================================================================
