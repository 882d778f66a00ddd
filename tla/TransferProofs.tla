--------------------------- MODULE TransferProofs ---------------------------
(***************************************************************************)
(* What holds of downloads for any commands and file names, whatever fails *)
(* and whenever the daemon dies.                                           *)
(***************************************************************************)
EXTENDS Transfer, TLAPS

(* Every variable stays in its type, and there is a job outside sessions only. *)
THEOREM TransferTypeCorrect == Spec => []TypeOK
<1> USE DEF Working, Reporting, Faults
<1>1. Init => TypeOK
  BY DEF Init, TypeOK, Empty
<1>2. TypeOK /\ [Next]_vars => TypeOK'
  <2> SUFFICES ASSUME TypeOK, [Next]_vars PROVE TypeOK'
    OBVIOUS
  <2> USE DEF TypeOK, Goto, EndJob, FailWith
  <2>1. ASSUME NEW c \in Commands, Acknowledge(c) PROVE TypeOK'
    BY <2>1, MarksAssumption DEF Acknowledge
  <2>2. ASSUME NEW content \in Commands \cup {Absent, Fragment}, Write(content)
        PROVE  files' \in [Files -> Commands \cup {Absent, Fragment}]
    BY <2>2 DEF Write
  <2>3. CASE Delay
    BY <2>3, MarksAssumption DEF Delay
  <2>4. CASE MakeDirectory
    BY <2>4, MarksAssumption DEF MakeDirectory
  <2>5. CASE OpenFile
    BY <2>5, <2>2, MarksAssumption DEF OpenFile
  <2>6. CASE GetHandle
    BY <2>6, MarksAssumption DEF GetHandle
  <2>7. CASE Receive
    BY <2>7, MarksAssumption DEF Receive
  <2>8. CASE CloseFile
    <3>1. job \in Commands
      BY <2>8 DEF CloseFile
    <3> QED
      BY <2>8, <2>2, <3>1, MarksAssumption DEF CloseFile
  <2>9. CASE RemoveFile
    BY <2>9, <2>2, MarksAssumption DEF RemoveFile
  <2>10. CASE Inform
    BY <2>10, MarksAssumption DEF Inform
  <2>11. CASE Complete
    <3>1. told' \in [Commands -> {"none", "ok", "fault"}]
      BY <2>11 DEF Complete, Reaches, Result
    <3> QED
      BY <2>11, <3>1, MarksAssumption DEF Complete
  <2>12. CASE Drain
    BY <2>12, MarksAssumption DEF Drain
  <2>13. CASE Crash \/ PowerLoss \/ Respawn
    BY <2>13 DEF Crash, PowerLoss, Respawn, Empty
  <2>14. CASE UNCHANGED vars
    BY <2>14 DEF vars
  <2> QED
    BY <2>1, <2>3, <2>4, <2>5, <2>6, <2>7, <2>8, <2>9, <2>10, <2>11, <2>12, <2>13, <2>14
       DEF Next, Step
<1> QED
  BY <1>1, <1>2, PTL DEF Spec

---------------------------------------------------------------------------
(* Why a result comes once: what the ACS was told, and what is under way,   *)
(* it has the acknowledgement of, and until the report it was told nothing. *)
OneReport ==
    /\ job # NoJob => job \in acked
    /\ \A c \in Commands : told[c] # "none" => c \in acked
    /\ pc \in Working \cup {"inform", "complete"} => told[job] = "none"

(* The invariant above holds in every state. *)
LEMMA OneReportHolds == Spec => []OneReport
<1> USE DEF OneReport, Working, Reporting
<1>1. Init => OneReport
  BY DEF Init
<1>2. TypeOK /\ OneReport /\ [Next]_vars => OneReport'
  <2> SUFFICES ASSUME TypeOK, OneReport, [Next]_vars PROVE OneReport'
    OBVIOUS
  <2> USE DEF Goto, EndJob, FailWith
  <2>1. ASSUME NEW c \in Commands, Acknowledge(c) PROVE OneReport'
    BY <2>1, MarksAssumption DEF Acknowledge, TypeOK
  <2>2. CASE Complete
    <3>1. job \in Commands /\ job \in acked
      BY <2>2, MarksAssumption DEF Complete, TypeOK
    <3>2. \A c \in Commands : told'[c] # "none" => told[c] # "none" \/ c = job
      BY <2>2 DEF Complete, Reaches, TypeOK
    <3> QED
      BY <2>2, <3>1, <3>2 DEF Complete
  <2>3. CASE Drain
    BY <2>3 DEF Drain
  <2>4. CASE Crash \/ PowerLoss \/ Respawn
    BY <2>4 DEF Crash, PowerLoss, Respawn
  <2>5. CASE UNCHANGED vars
    BY <2>5 DEF vars
  <2>6. CASE Step /\ ~Complete /\ ~Drain
    BY <2>6 DEF Step, Delay, MakeDirectory, OpenFile, GetHandle, Receive, CloseFile, RemoveFile,
                Inform
  <2> QED
    BY <2>1, <2>2, <2>3, <2>4, <2>5, <2>6 DEF Next
<1> QED
  BY <1>1, <1>2, TransferTypeCorrect, PTL DEF Spec

---------------------------------------------------------------------------
(* Why the reports are true: the directory is there before a file is, the   *)
(* cause is set on the way into the report and not later, and nobody but    *)
(* the job at hand writes files; a whole file is that of a command the ACS  *)
(* has the acknowledgement of, and not of the one still being fetched.      *)
ReportTrue ==
    /\ ~dir => files = Empty
    /\ pc \in {"open", "handle", "receive", "close", "remove"} => dir
    /\ pc \in Working \ {"remove"} => cause = "none"
    /\ pc = "remove" => cause = "transfer"
    /\ \A f \in Files : files[f] \in Commands => files[f] \in acked
    /\ pc \in Working => \A f \in Files : files[f] # job
    /\ ReportMatchesDisk

(* The invariant above holds in every state. *)
LEMMA ReportTrueHolds == Spec => []ReportTrue
<1> USE DEF ReportTrue, ReportMatchesDisk, Working, Reporting, Target, Faults
<1>1. Init => ReportTrue
  BY MarksAssumption DEF Init, Empty
<1>2. TypeOK /\ OneReport /\ ReportTrue /\ [Next]_vars => ReportTrue'
  <2> SUFFICES ASSUME TypeOK, OneReport, ReportTrue, [Next]_vars PROVE ReportTrue'
    OBVIOUS
  <2> USE DEF Goto, EndJob, FailWith
  <2>1. pc \in Working \cup Reporting => FileOf[job] \in Files /\ job \in Commands
    BY FileOfAssumption DEF TypeOK
  <2>2. ASSUME NEW c \in Commands, Acknowledge(c) PROVE ReportTrue'
    <3>1. \A f \in Files : files'[f] # c
      BY <2>2 DEF Acknowledge
    <3> QED
      BY <2>2, <3>1 DEF Acknowledge
  <2>3. CASE Delay
    BY <2>3 DEF Delay
  <2>4. CASE MakeDirectory
    <3>1. job # Absent
      BY <2>1, <2>4, MarksAssumption DEF MakeDirectory
    <3> QED
      BY <2>4, <2>1, <3>1 DEF MakeDirectory, Empty
  <2>5. CASE OpenFile
    <3>1. job # Fragment /\ Fragment \notin Commands
      BY <2>1, <2>5, MarksAssumption DEF OpenFile
    <3>2. CASE Write(Fragment) /\ pc' = "handle" /\ job' = job /\ cause' = cause
      <4>1. \A f \in Files : files'[f] \in {files[f], Fragment}
        BY <3>2, <2>1, <2>5 DEF OpenFile, Write, TypeOK
      <4> QED
        BY <2>5, <3>1, <3>2, <4>1 DEF OpenFile
    <3>3. CASE UNCHANGED files /\ pc' = "inform" /\ job' = job /\ cause' = "file"
      BY <2>5, <2>1, <3>3 DEF OpenFile
    <3> QED
      BY <2>5, <3>2, <3>3 DEF OpenFile
  <2>6. CASE GetHandle
    BY <2>6, <2>1 DEF GetHandle
  <2>7. CASE Receive
    BY <2>7 DEF Receive
  <2>8. CASE CloseFile
    <3>1. job \in acked
      BY <2>8, MarksAssumption DEF CloseFile, OneReport, TypeOK
    <3> QED
      BY <2>8, <2>1, <3>1 DEF CloseFile, Write, TypeOK
  <2>9. CASE RemoveFile
    <3>1. job # Absent /\ Absent \notin Commands
      BY <2>1, <2>9, MarksAssumption DEF RemoveFile
    <3>2. \A f \in Files : files'[f] \in {files[f], Absent}
      BY <2>1, <2>9 DEF RemoveFile, Write, TypeOK
    <3>3. cause' = "transfer" => files'[Target] = Absent
      BY <2>1, <2>9 DEF RemoveFile, Write, TypeOK
    <3> QED
      BY <2>9, <2>1, <3>1, <3>2, <3>3 DEF RemoveFile
  <2>10. CASE Inform \/ Complete \/ Drain
    BY <2>10 DEF Inform, Complete, Drain
  <2>11. CASE Crash \/ PowerLoss \/ Respawn
    BY <2>11, MarksAssumption DEF Crash, PowerLoss, Respawn, Empty, TypeOK
  <2>12. CASE UNCHANGED vars
    BY <2>12 DEF vars
  <2> QED
    BY <2>2, <2>3, <2>4, <2>5, <2>6, <2>7, <2>8, <2>9, <2>10, <2>11, <2>12 DEF Next, Step
<1> QED
  BY <1>1, <1>2, TransferTypeCorrect, OneReportHolds, PTL DEF Spec

(* Whatever fails on the way, a success reported is a whole file on disk,   *)
(* but for a failing fclose, a fault reported is never one, and a failed    *)
(* transfer or a missing directory leaves no file of the target's name.     *)
THEOREM ReportsAreTrue == Spec => []ReportMatchesDisk
BY ReportTrueHolds, PTL DEF ReportTrue

(* A download is not dropped between its acknowledgement and its report but *)
(* by a process that dies.                                                  *)
THEOREM StartedDownloadsReported == Spec => StartedIsReported
<1> DEFINE A == job # NoJob /\ job' # job =>
                   told'[job] # "none" \/ pc \in {"inform", "complete"} \/ ~up'
           Told == pc = "drain" => told[job] # "none"
<1> USE DEF Working, Reporting, Goto, EndJob, FailWith
<1>1. Init => Told
  BY DEF Init
<1>2. TypeOK /\ Told /\ [Next]_vars => Told'
  <2> SUFFICES ASSUME TypeOK, Told, [Next]_vars PROVE Told'
    OBVIOUS
  <2>1. CASE Complete
    <3>1. job \in Commands
      BY <2>1 DEF Complete, TypeOK
    <3> QED
      BY <2>1, <3>1 DEF Complete, Reaches, Result, TypeOK
  <2>2. CASE ~Complete /\ pc' = "drain"
    BY <2>2
       DEF Next, Step, Acknowledge, Delay, MakeDirectory, OpenFile, GetHandle, Receive,
           CloseFile, RemoveFile, Inform, Drain, Crash, PowerLoss, Respawn, vars
  <2> QED
    BY <2>1, <2>2
<1>3. TypeOK /\ Told /\ [Next]_vars => [A]_vars
  <2> SUFFICES ASSUME TypeOK, Told, Next, job # NoJob, job' # job, up' = TRUE
               PROVE  told'[job] # "none" \/ pc \in {"inform", "complete"}
    <3>1. TypeOK /\ [Next]_vars => up' \in BOOLEAN
      BY DEF TypeOK, Next, Step, Acknowledge, Delay, MakeDirectory, OpenFile, GetHandle,
             Receive, CloseFile, RemoveFile, Inform, Complete, Drain, Crash, PowerLoss,
             Respawn, vars
    <3> QED
      BY <3>1
  <2>1. ASSUME NEW c \in Commands PROVE ~Acknowledge(c)
    BY DEF Acknowledge, TypeOK
  <2> QED
    BY <2>1
       DEF Next, Step, Delay, MakeDirectory, OpenFile, GetHandle, Receive, CloseFile,
           RemoveFile, Inform, Complete, Drain, Crash, PowerLoss, Respawn
<1> HIDE DEF A, Told
<1>4. Spec => [][A]_vars
  BY <1>1, <1>2, <1>3, TransferTypeCorrect, PTL DEF Spec
<1> QED
  BY <1>4 DEF A, StartedIsReported

---------------------------------------------------------------------------
(* Every step that shows to the ACS acknowledges or reports one command as  *)
(* TransferContract allows: no result before the acknowledgement, and none  *)
(* twice.                                                                   *)
THEOREM TransferImplementsContract == Spec => ImplementsTransferContract
<1>1. Init => Contract!Init
  BY DEF Init, Contract!Init, progress
<1>2. TypeOK /\ OneReport /\ [Next]_vars => [Contract!Next]_progress
  <2> SUFFICES ASSUME TypeOK, OneReport, [Next]_vars PROVE [Contract!Next]_progress
    OBVIOUS
  <2>1. ASSUME NEW c \in Commands, c \notin acked, acked' = acked \cup {c}, told' = told
        PROVE  [Contract!Next]_progress
    <3>1. progress[c] = "unknown"
      BY <2>1 DEF progress, OneReport
    <3>2. progress' = [progress EXCEPT ![c] = "acked"]
      BY <2>1 DEF progress, OneReport
    <3> QED
      BY <3>1, <3>2 DEF Contract!Next, Contract!Acknowledge
  <2>2. CASE acked' = acked /\ told' = told
    BY <2>2 DEF progress
  <2>3. CASE Complete
    <3>1. job \in Commands /\ job \in acked /\ told[job] = "none" /\ acked' = acked
      BY <2>3, MarksAssumption DEF Complete, TypeOK, OneReport, Reporting
    <3>2. CASE Reaches
      <4>1. Result \in {"ok", "fault"}
        BY DEF Result
      <4>2. progress' = [progress EXCEPT ![job] = Result]
        BY <3>1, <3>2, <4>1 DEF progress, Reaches, TypeOK
      <4>3. progress[job] = "acked"
        BY <3>1 DEF progress
      <4> QED
        BY <3>1, <4>1, <4>2, <4>3 DEF Contract!Next, Contract!Report
    <3>3. CASE ~Reaches
      BY <2>3, <2>2, <3>3 DEF Complete
    <3> QED
      BY <3>2, <3>3
  <2>4. CASE Drain
    <3>1. PICK more \in {{}} \cup {{c} : c \in Commands \ acked} : acked' = acked \cup more
      BY <2>4 DEF Drain
    <3>2. told' = told
      BY <2>4 DEF Drain
    <3>3. CASE more = {}
      BY <2>2, <3>1, <3>2, <3>3
    <3>4. CASE more # {}
      BY <2>1, <3>1, <3>2, <3>4
    <3> QED
      BY <3>3, <3>4
  <2>5. ASSUME NEW c \in Commands, Acknowledge(c) PROVE [Contract!Next]_progress
    BY <2>1, <2>5 DEF Acknowledge
  <2>6. CASE UNCHANGED vars
    BY <2>2, <2>6 DEF vars
  <2> QED
    BY <2>2, <2>3, <2>4, <2>5, <2>6
       DEF Next, Step, Delay, MakeDirectory, OpenFile, GetHandle, Receive, CloseFile,
           RemoveFile, Inform, Crash, PowerLoss, Respawn
<1> QED
  BY <1>1, <1>2, TransferTypeCorrect, OneReportHolds, PTL
     DEF Spec, Contract!Spec, ImplementsTransferContract

---------------------------------------------------------------------------
(* Steps left of a job, at most. *)
StepsLeft ==
    CASE pc = "delay" -> 9  [] pc = "directory" -> 8  [] pc = "open" -> 7
      [] pc = "handle" -> 6 [] pc = "receive" -> 5    [] pc \in {"close", "remove"} -> 4
      [] pc = "inform" -> 3 [] pc = "complete" -> 2   [] pc = "drain" -> 1
      [] OTHER -> 0

(* A job comes to its end within nine steps: nothing in execute, download or *)
(* runTransferComplete is tried again, and no further Download starts while  *)
(* one is under way.  What JobEnds rests on, besides that every call returns. *)
THEOREM JobBounded ==
    Spec => [][job # NoJob => /\ StepsLeft' < StepsLeft
                              /\ job' \in {job, NoJob}]_vars
<1>1. TypeOK /\ [Next]_vars => [job # NoJob => /\ StepsLeft' < StepsLeft
                                               /\ job' \in {job, NoJob}]_vars
  <2> SUFFICES ASSUME TypeOK, Next, job # NoJob
               PROVE  StepsLeft' < StepsLeft /\ job' \in {job, NoJob}
    OBVIOUS
  <2> USE DEF Goto, EndJob, FailWith, StepsLeft
  <2>1. pc # "session" /\ pc \in Working \cup Reporting
    BY DEF TypeOK
  <2>2. CASE Crash \/ PowerLoss
    BY <2>1, <2>2 DEF Crash, PowerLoss, Working, Reporting
  <2>7. ~Respawn
    BY DEF Respawn, TypeOK
  <2>3. CASE Delay \/ MakeDirectory \/ OpenFile \/ GetHandle
    BY <2>3 DEF Delay, MakeDirectory, OpenFile, GetHandle
  <2>4. CASE Receive \/ CloseFile \/ RemoveFile
    BY <2>4 DEF Receive, CloseFile, RemoveFile
  <2>5. CASE Inform \/ Complete \/ Drain
    BY <2>5 DEF Inform, Complete, Drain
  <2>6. ASSUME NEW c \in Commands, Acknowledge(c) PROVE FALSE
    BY <2>1, <2>6 DEF Acknowledge
  <2> QED
    BY <2>2, <2>3, <2>4, <2>5, <2>6, <2>7 DEF Next, Step
<1> QED
  BY <1>1, TransferTypeCorrect, PTL DEF Spec

=============================================================================
