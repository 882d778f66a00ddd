----------------------------- MODULE Transfer -----------------------------
(***************************************************************************)
(* The life of a Download: acknowledged in a session, fetched into /tmp    *)
(* between two sessions (DownloadManager::execute, HttpClient::download),  *)
(* reported in a session of its own (CwmpSession::runTransferComplete).    *)
(* The ACS takes part with what it knows: `acked` holds the commands whose *)
(* DownloadResponse it got, `told` the results it got.  Any POST may fail  *)
(* before or after it reached the ACS, any library call may fail, and the  *)
(* daemon may die between any two steps.                                   *)
(***************************************************************************)
EXTENDS Naturals

CONSTANTS
    Commands,  \* Downloads, by CommandKey; an acknowledged one is not issued again
    Files,     \* names in the download directory
    FileOf,    \* safeFileName of the target name, or of the end of the URL
    NoJob, Absent, Fragment

ASSUME FileOfAssumption == FileOf \in [Commands -> Files]
ASSUME MarksAssumption == {NoJob, Absent, Fragment} \cap Commands = {} /\ Absent # Fragment

VARIABLES
    pc,     \* next step of the daemon thread
    job,    \* outcome.download, from the acknowledgement to the end of the report
    cause,  \* what failed; "flush" is a failure nobody notices, "remains" a
            \* transfer whose fragment could not be removed either
    dir,    \* does the download directory exist
    files,  \* Absent, a Fragment, or the whole file of a command
    acked,  \* commands the ACS holds for started
    told,   \* what the ACS was told of each
    up      \* does the process live

vars == <<pc, job, cause, dir, files, acked, told, up>>

Working == {"delay", "directory", "open", "handle", "receive", "close", "remove"}
Reporting == {"inform", "complete", "drain"}
Faults == {"directory", "file", "handle", "transfer", "remains"}

TypeOK ==
    /\ pc \in {"session"} \cup Working \cup Reporting
    /\ job \in Commands \cup {NoJob}
    /\ job = NoJob <=> pc = "session"
    /\ up \in BOOLEAN /\ (job # NoJob => up)
    /\ cause \in {"none", "flush"} \cup Faults
    /\ dir \in BOOLEAN
    /\ files \in [Files -> Commands \cup {Absent, Fragment}]
    /\ acked \subseteq Commands
    /\ told \in [Commands -> {"none", "ok", "fault"}]

Empty == [f \in Files |-> Absent]

Init ==
    /\ pc = "session" /\ job = NoJob /\ cause = "none"
    /\ dir = FALSE /\ files = Empty
    /\ acked = {} /\ told = [c \in Commands |-> "none"]
    /\ up = TRUE

Target == FileOf[job]
Write(content) == files' = [files EXCEPT ![Target] = content]
Goto(next) == pc' = next /\ job' = job

(* Mutant: the outcome of the session is not given up with the report. *)
EndJobKept == pc' = "session" /\ job' = job

EndJob == pc' = "session" /\ job' = NoJob
FailWith(fault) == cause' = fault /\ Goto("inform")

---------------------------------------------------------------------------
(* The session in which the ACS issues c. *)

(* Mutant: the download is taken over before its response is answered. *)
AcknowledgeBeforeAnswer(c) ==
    /\ pc = "session" /\ up /\ c \notin acked
    /\ acked' \in {acked, acked \cup {c}}
    /\ job' = c /\ pc' = "delay" /\ cause' = "none"
    /\ UNCHANGED <<dir, files, told, up>>

(* DownloadResponse reached the ACS; unless the reply reaches the daemon,   *)
(* processAcsMessages returns an outcome without the download.              *)
Acknowledge(c) ==
    /\ pc = "session" /\ up /\ c \notin acked
    /\ acked' = acked \cup {c}
    /\ \/ job' = c /\ pc' = "delay" /\ cause' = "none"
       \/ UNCHANGED <<job, pc, cause>>
    /\ UNCHANGED <<dir, files, told, up>>

---------------------------------------------------------------------------
(* DownloadManager::execute. *)

Delay ==
    /\ pc = "delay" /\ Goto("directory")
    /\ UNCHANGED <<cause, dir, files, acked, told, up>>

(* Mutant: where the directory cannot be created, execute just returns. *)
MakeDirectorySilent ==
    /\ pc = "directory" /\ UNCHANGED cause
    /\ \/ dir' = TRUE /\ Goto("open")
       \/ ~dir /\ UNCHANGED dir /\ EndJob
    /\ UNCHANGED <<files, acked, told, up>>

MakeDirectory ==
    /\ pc = "directory"
    /\ \/ dir' = TRUE /\ Goto("open") /\ UNCHANGED cause
       \/ ~dir /\ UNCHANGED dir /\ FailWith("directory")
    /\ UNCHANGED <<files, acked, told, up>>

(* Opening for writing empties a file of that name, a reported one as well. *)
OpenFile ==
    /\ pc = "open"
    /\ \/ Write(Fragment) /\ Goto("handle") /\ UNCHANGED cause
       \/ FailWith("file") /\ UNCHANGED files
    /\ UNCHANGED <<dir, acked, told, up>>

(* Without a curl handle the file is closed and left there, empty. *)
GetHandle ==
    /\ pc = "handle"
    /\ \/ Goto("receive") /\ UNCHANGED cause
       \/ FailWith("handle")
    /\ UNCHANGED <<dir, files, acked, told, up>>

(* Mutant: a status outside 2xx counts as success. *)
ReceiveAnyStatus ==
    /\ pc = "receive"
    /\ Goto("close") \/ Goto("inform")
    /\ UNCHANGED <<cause, dir, files, acked, told, up>>

(* The transfer fails (connection, time limit, a short write, a status that *)
(* is not 2xx, whose body was written to the file as well) or it succeeds,  *)
(* with the end of the file still in the stdio buffer.                      *)
Receive ==
    /\ pc = "receive"
    /\ \/ Goto("close") /\ UNCHANGED cause
       \/ cause' = "transfer" /\ Goto("remove")
    /\ UNCHANGED <<dir, files, acked, told, up>>

(* fclose writes the rest; its result is not looked at. *)
CloseFile ==
    /\ pc = "close" /\ Goto("inform")
    /\ \/ Write(job) /\ UNCHANGED cause
       \/ cause' = "flush" /\ UNCHANGED files
    /\ UNCHANGED <<dir, acked, told, up>>

(* Mutant: the fragment of a failed transfer stays. *)
RemoveFileNot ==
    /\ pc = "remove" /\ Goto("inform")
    /\ UNCHANGED <<cause, dir, files, acked, told, up>>

(* Neither is the result of std::remove. *)
RemoveFile ==
    /\ pc = "remove" /\ Goto("inform")
    /\ \/ Write(Absent) /\ UNCHANGED cause
       \/ cause' = "remains" /\ UNCHANGED files
    /\ UNCHANGED <<dir, acked, told, up>>

---------------------------------------------------------------------------
(* CwmpSession::runTransferComplete, whose result the daemon ignores. *)

(* Mutant: a report session that fails has the download done again. *)
InformRetried ==
    /\ pc = "inform"
    /\ \/ Goto("complete") /\ UNCHANGED cause
       \/ Goto("directory") /\ cause' = "none"
    /\ UNCHANGED <<dir, files, acked, told, up>>

Inform ==
    /\ pc = "inform"
    /\ Goto("complete") \/ EndJob
    /\ UNCHANGED <<cause, dir, files, acked, told, up>>

Result == IF cause \in Faults THEN "fault" ELSE "ok"
Reaches == told' = [told EXCEPT ![job] = Result]

(* TransferComplete may reach the ACS although its reply is lost or is not  *)
(* TransferCompleteResponse.                                                *)
Complete ==
    /\ pc = "complete"
    /\ \/ Reaches /\ (Goto("drain") \/ EndJob)
       \/ UNCHANGED told /\ EndJob
    /\ UNCHANGED <<cause, dir, files, acked, up>>

(* After the empty POST the ACS may issue further RPCs.  A Download among   *)
(* them is acknowledged, and dropped with the session's outcome.            *)
Drain ==
    /\ pc = "drain" /\ EndJob
    /\ \E more \in {{}} \cup {{c} : c \in Commands \ acked} : acked' = acked \cup more
    /\ UNCHANGED <<cause, dir, files, told, up>>

---------------------------------------------------------------------------
(* The process dies, and its job with it. *)
Crash ==
    /\ up /\ up' = FALSE
    /\ EndJob
    /\ UNCHANGED <<cause, dir, files, acked, told>>

(* The device goes down; /tmp is in RAM. *)
PowerLoss ==
    /\ up' = FALSE
    /\ EndJob /\ dir' = FALSE /\ files' = Empty
    /\ UNCHANGED <<cause, acked, told>>

(* procd starts a new process, which knows of no job. *)
Respawn ==
    /\ ~up /\ up' = TRUE
    /\ UNCHANGED <<pc, job, cause, dir, files, acked, told>>

Step ==
    \/ Delay \/ MakeDirectory \/ OpenFile \/ GetHandle \/ Receive \/ CloseFile
    \/ RemoveFile \/ Inform \/ Complete \/ Drain

Next ==
    \/ \E c \in Commands : Acknowledge(c)
    \/ Step
    \/ Crash \/ PowerLoss \/ Respawn

(* Sleeps end, every transfer and POST has a time limit. *)
Spec == Init /\ [][Next]_vars /\ WF_vars(Step)

---------------------------------------------------------------------------
(* Properties. *)

(* What is being reported is what is on disk.  A success: the file is there *)
(* and whole, unless its last bytes were lost in fclose, whose failure      *)
(* download() does not look at.  A fault: the file is not there whole, so   *)
(* the ACS loses nothing by trying again; and a failed transfer has left    *)
(* nothing under its name but what could not be removed.                    *)
ReportMatchesDisk ==
    pc \in Reporting =>
        /\ cause = "none" => files[Target] = job
        /\ cause \in Faults => files[Target] # job
        /\ cause \in {"directory", "transfer"} => files[Target] = Absent

(* A download that was started is given up without its result having        *)
(* reached the ACS only in a report session that fails, or by a process     *)
(* that dies: a failed transfer is a fault to report, never silence.        *)
StartedIsReported ==
    [][job # NoJob /\ job' # job =>
         told'[job] # "none" \/ pc \in {"inform", "complete"} \/ ~up']_vars

(* For the ACS results come after acknowledgements, and once.               *)
progress ==
    [c \in Commands |-> IF told[c] # "none" THEN told[c]
                        ELSE IF c \in acked THEN "acked" ELSE "unknown"]
Contract == INSTANCE TransferContract
ImplementsTransferContract == Contract!Spec

(* Whatever becomes of it, a download does not keep the daemon for good.    *)
JobEnds == job # NoJob ~> job = NoJob
===========================================================================
