------------------------------ MODULE FileListing ------------------------------
(***************************************************************************)
(* `ls`, resumed call after call from the cursor the last one reported     *)
(* (cmd/files.go, ListPage and WalkFilesFrom in internal/api/client.go),   *)
(* while `rm` and other keys delete files and uploads add some.            *)
(* The service is external: a cursor is the position in its listing it has *)
(* scanned to, a page is what it found from one cursor to the next and may *)
(* be empty, and a service that is not honest sends any page and cursor,   *)
(* also ones it never sent before, without end.                            *)
(***************************************************************************)
EXTENDS Naturals, FiniteSets, Sequences, SequencesExt

CONSTANTS
    MaxFile,  \* bound: positions in the service's listing
    PageMax,  \* the API's per-request maximum
    Limits,   \* the --limit of each call, 0 for none
    Honesties \* whether the service is honest: a subset of BOOLEAN

ASSUME ListingAssumption ==
    /\ MaxFile \in Nat /\ PageMax \in Nat \ {0}
    /\ Limits \subseteq Nat /\ Honesties \subseteq BOOLEAN

Files == 1..MaxFile
Start == 0 \* no cursor
End == MaxFile + 1 \* the null cursor

\* The cursors no answer had before, of which there is no end. Two stand for all: the next of
\* them is never the one at hand, and they are not counted among those seen.
Fresh == {End + 1, End + 2}
Cursors == Files \cup Fresh

VARIABLES
    honest, \* is the service honest?
    files,  \* service: the files it lists
    steady, \* files that were there all along, since the listing began
    gone,   \* files deleted or expired since then
    ls,     \* the call at work: its limit, cursor, the cursors seen and the files that count
    resume, \* where the next call resumes, End when the listing is exhausted
    listed, \* the files that calls have reported, in order
    rm      \* the last batch: the files named and still to delete, --continue, a failure so far

listVars == <<honest, files, steady, gone, ls, resume, listed, rm>>

LsRest == [pc |-> "idle", limit |-> 0, cursor |-> Start, seen |-> {}, got |-> <<>>]
RmRest == [pc |-> "idle", named |-> {}, todo |-> {}, goOn |-> FALSE, failed |-> FALSE]

ListInit ==
    /\ honest \in Honesties
    /\ files \in SUBSET Files /\ steady = files /\ gone = {}
    /\ ls = LsRest /\ resume = Start /\ listed = <<>>
    /\ rm = RmRest

StartLs(limit) ==
    /\ ls.pc = "idle" /\ rm.pc # "next" /\ resume # End
    /\ ls' = [LsRest EXCEPT !.pc = "ask", !.limit = limit, !.cursor = resume]
    /\ rm' = RmRest
    /\ UNCHANGED <<honest, files, steady, gone, resume, listed>>

\* The most the next request asks for: what is still wanted, so that the cursor stays aligned
\* with what was consumed. Without a limit the service decides.
Wanted ==
    IF ls.limit = 0 \/ ls.limit - Len(ls.got) > PageMax THEN PageMax ELSE ls.limit - Len(ls.got)

\* The files from one cursor to another, in the service's order.
Between(from, to) ==
    CHOOSE page \in SetToSeqs({f \in files : from < f /\ f <= to}) :
        \A i, j \in DOMAIN page : i < j => page[i] < page[j]

\* An honest service scans on, reports no more than asked for, and says when it is done.
HonestAnswer(page, next) ==
    \E to \in (ls.cursor + 1)..End :
        /\ page = Between(ls.cursor, to) /\ Len(page) <= Wanted
        /\ next \in {to} \cup {e \in {End} : Between(to, End) = <<>>}

Answers == {Between(from, to) : from \in {Start} \cup Files, to \in Files}

Answer(page, next) == honest => HonestAnswer(page, next)

\* The call reports what it got and the cursor to resume from. What a service that is not
\* honest has listed is not recorded.
Report(got, next) ==
    /\ listed' = IF honest THEN listed \o got ELSE listed
    /\ resume' = next
    /\ ls' = LsRest

\* Nothing of a call that fails counts; it is run again from the same cursor.
Fail == ls' = LsRest /\ UNCHANGED <<resume, listed>>

\* Of what a dishonest service has listed, only a limit takes count.
Counted(got) == IF honest \/ ls.limit # 0 THEN got ELSE <<>>

Continue(got, next) ==
    /\ ls' = [ls EXCEPT !.cursor = next, !.seen = @ \cup ({next} \ Fresh), !.got = Counted(got)]
    /\ UNCHANGED <<resume, listed>>

\* Defect: FollowCursor: a repeated cursor is followed once more.
FollowAny(got, page, next) ==
    IF next = End \/ (ls.limit # 0 /\ (page = <<>> \/ Len(got) >= ls.limit))
    THEN Report(got, next) ELSE Continue(got, next)

\* Defect: FollowCursor: an empty page is taken for the end of the listing.
FollowFull(got, page, next) ==
    IF next = End \/ page = <<>> THEN Report(got, End)
    ELSE IF next \in ls.seen THEN Fail
    ELSE IF ls.limit # 0 /\ Len(got) >= ls.limit THEN Report(got, next)
    ELSE Continue(got, next)

\* The listing is exhausted, loops, or goes on; a limited call also ends when it has enough,
\* or at an empty page with a cursor, which would spin.
FollowCursor(got, page, next) ==
    IF next = End THEN Report(got, End)
    ELSE IF next \in ls.seen THEN Fail
    ELSE IF ls.limit # 0 /\ (page = <<>> \/ Len(got) >= ls.limit) THEN Report(got, next)
    ELSE Continue(got, next)

ReadPage ==
    /\ ls.pc = "ask"
    /\ \E page \in Answers, next \in (Cursors \cup {End}) \ (Fresh \cap {ls.cursor}) :
         /\ Answer(page, next)
         /\ IF ls.limit # 0 /\ Len(page) > Wanted
            THEN Fail
            ELSE FollowCursor(ls.got \o page, page, next)
    /\ UNCHANGED <<honest, files, steady, gone, rm>>

\* A page is not answered, after the one retry of a GET.
PageFails ==
    /\ ls.pc = "ask"
    /\ Fail
    /\ UNCHANGED <<honest, files, steady, gone, rm>>

---------------------------------------------------------------------------
(* rm FILE... and what else changes the listing *)

Vanish(f) == files' = files \ {f} /\ steady' = steady \ {f} /\ gone' = gone \cup {f}

StartRm(batch, goOn) ==
    /\ rm.pc = "idle" /\ ls.pc = "idle" /\ honest /\ batch # {}
    /\ rm' = [pc |-> "next", named |-> batch, todo |-> batch, goOn |-> goOn, failed |-> FALSE]
    /\ UNCHANGED <<honest, files, steady, gone, ls, resume, listed>>

\* Defect: AfterFailure: with --continue the failure is forgotten.
ForgetFailure(f) ==
    rm' = [rm EXCEPT !.todo = @ \ {f}, !.pc = IF rm.goOn THEN "next" ELSE "failed"]

\* A failure of one ID ends the batch, or is remembered with --continue.
AfterFailure(f) ==
    rm' = [rm EXCEPT !.todo = @ \ {f}, !.failed = TRUE, !.pc = IF rm.goOn THEN "next" ELSE "failed"]

RemoveFile(f) ==
    /\ rm.pc = "next" /\ f \in rm.todo \cap files
    /\ Vanish(f)
    /\ rm' = [rm EXCEPT !.todo = @ \ {f}]
    /\ UNCHANGED <<honest, ls, resume, listed>>

RemoveMissing(f) ==
    /\ rm.pc = "next" /\ f \in rm.todo \ files
    /\ AfterFailure(f)
    /\ UNCHANGED <<honest, files, steady, gone, ls, resume, listed>>

\* A DELETE is never sent twice: its answer lost, the file may be deleted or not.
RemoveUnclear(f) ==
    /\ rm.pc = "next" /\ f \in rm.todo
    /\ Vanish(f) \/ UNCHANGED <<files, steady, gone>>
    /\ AfterFailure(f)
    /\ UNCHANGED <<honest, ls, resume, listed>>

\* batchIsHopeless: a rejected key or an exhausted rate limit ends the batch in any case.
RemoveHopeless ==
    /\ rm.pc = "next" /\ rm.todo # {}
    /\ rm' = [rm EXCEPT !.pc = "failed"]
    /\ UNCHANGED <<honest, files, steady, gone, ls, resume, listed>>

EndRm ==
    /\ rm.pc = "next" /\ rm.todo = {}
    /\ rm' = [rm EXCEPT !.pc = IF rm.failed THEN "failed" ELSE "done"]
    /\ UNCHANGED <<honest, files, steady, gone, ls, resume, listed>>

\* Another key uploads a file; a file expires, or another terminal deletes it.
Appear(f) ==
    /\ honest /\ f \notin files \cup gone
    /\ files' = files \cup {f}
    /\ UNCHANGED <<honest, steady, gone, ls, resume, listed, rm>>

Lapse(f) ==
    /\ honest /\ f \in files
    /\ Vanish(f)
    /\ UNCHANGED <<honest, ls, resume, listed, rm>>

ListNext ==
    \/ \E limit \in Limits : StartLs(limit)
    \/ ReadPage \/ PageFails
    \/ \E batch \in SUBSET Files, goOn \in BOOLEAN : StartRm(batch, goOn)
    \/ RemoveHopeless \/ EndRm
    \/ \E f \in Files : RemoveFile(f) \/ RemoveMissing(f) \/ RemoveUnclear(f) \/ Appear(f) \/ Lapse(f)

\* The service answers every request in full, with whatever it likes, and a command goes on.
ListFairness == WF_listVars(ReadPage)

ListSpec == ListInit /\ [][ListNext]_listVars /\ ListFairness

---------------------------------------------------------------------------
(* Properties *)

\* Every record of the listing and of the batch is well formed.
ListTypes ==
    /\ honest \in BOOLEAN /\ files \cup steady \cup gone \subseteq Files
    /\ ls.pc \in {"idle", "ask"} /\ ls.limit \in {0} \cup Limits /\ ls.cursor \in {Start} \cup Cursors
    /\ ls.seen \subseteq Files /\ ls.got \in Seq(Files)
    /\ resume \in {Start, End} \cup Cursors /\ listed \in Seq(Files)
    /\ rm.pc \in {"idle", "next", "failed", "done"} /\ rm.todo \subseteq Files

\* docs/CLI.md:577 - "Resuming is exact: no file is skipped and none is returned twice", over
\* any sequence of calls with any limits, while files come and go between two requests.
ResumesExactly == honest =>
    /\ IsInjective(listed)
    /\ resume = End => steady \subseteq ToSet(listed)

\* Every `ls --limit` ends, whatever pages and cursors the service hands out for ever; and so
\* does every other `ls`, unless from some answer on each one has a cursor no answer had before,
\* against which WalkFilesFrom has no bound (client.go 295-321).
LsEnds == []<>(ls.pc = "idle") \/ <>[](ls.limit = 0 /\ ls.cursor \in Fresh)

\* A batch that exits with success has deleted every file it was given, with --continue and
\* after failures of single IDs as well.
BatchTold == rm.pc = "done" => rm.named \cap files = {}

=============================================================================
