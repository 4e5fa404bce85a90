------------------------------- MODULE MCClient -------------------------------
(***************************************************************************)
(* IdentityCreate, FileUpload, FileListing and FileDownload for TLC, in    *)
(* one run.  They share no state of the client, so the run takes one of    *)
(* them at a time: its states are the sum of theirs, and what is checked   *)
(* of each is what its own specification says.                             *)
(***************************************************************************)
EXTENDS IdentityCreate, FileUpload, FileListing, FileDownload

CONSTANTS p1, p2, c1, t1, t2, in, out

VARIABLE family

vars == <<family, createVars, uploadVars, listVars, downloadVars>>

OneProc == {p1}
TwoProcs == {p1, p2}
OneCommand == {c1}
TwoTools == {t1, t2}

\* A destination inside "in", a directory beside it and one above both.
OneDest == {in}
InDir == {in}
Above == {in, out}
AllRoots == {{in}, {out}, Above}
SomeRoots == {{}, {{in}}, {{out}}, {Above}}

BothHonesties == {TRUE, FALSE}
SomeLimits == 0..2

Init ==
    /\ family \in {"create", "upload", "list", "download"}
    /\ CreateInit
    /\ UploadInit
    /\ ListInit /\ (family # "list" => files = {} /\ honest)
    /\ DownloadInit /\ (family # "download" => explicit = {} /\ disk = [d \in Dests |-> Absent])

NotCreate == UNCHANGED <<family, uploadVars, listVars, downloadVars>>
NotUpload == UNCHANGED <<family, createVars, listVars, downloadVars>>
NotList == UNCHANGED <<family, createVars, uploadVars, downloadVars>>
NotDownload == UNCHANGED <<family, createVars, uploadVars, listVars>>

Next ==
    \/ family = "create" /\ CreateNext /\ NotCreate
    \/ family = "upload" /\ UploadNext /\ NotUpload
    \/ family = "list" /\ ListNext /\ NotList
    \/ family = "download" /\ DownloadNext /\ NotDownload

\* ListFairness and CreateFairness, for the steps of this run.
Fairness ==
    /\ WF_vars(family = "list" /\ ReadPage /\ NotList)
    /\ \A p \in Procs : /\ WF_vars(family = "create" /\ Work(p) /\ NotCreate)
                        /\ SF_vars(family = "create" /\ BeginAgain(p) /\ NotCreate)

Spec == Init /\ [][Next]_vars /\ Fairness

=============================================================================
