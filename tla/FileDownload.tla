----------------------------- MODULE FileDownload -----------------------------
(***************************************************************************)
(* Files fetched to local destinations: `download` and `decrypt`           *)
(* (cmd/files.go, cmd/crypto.go) and the tool download_file of the MCP     *)
(* server (internal/mcp/server.go), whose destinations the roots policy    *)
(* limits (internal/mcp/paths.go).  A command creates its destination      *)
(* exclusively and fills it there; the tool fills a temporary file beside  *)
(* it and publishes that by a link, or by a rename when it may overwrite.  *)
(* Meanwhile other programs put files of their own under free names.       *)
(***************************************************************************)
EXTENDS Naturals, FiniteSets

CONSTANTS
    Dests,      \* destinations that are asked for
    Roots,      \* directories, each the set of the places inside
    WorkDir,    \* the server's working directory, one of them
    RootSets,   \* the sets of roots AISPACE_ALLOWED_ROOTS and the host may name
    Commands,   \* CLI processes
    Tools       \* tool calls at work in the server at the same time

\* Of two directories, one contains the other or they share nothing.
ASSUME DownloadAssumption ==
    /\ Dests # {} /\ WorkDir \in Roots /\ RootSets \subseteq SUBSET Roots
    /\ \A r, s \in Roots : r \subseteq s \/ s \subseteq r \/ r \cap s = {}
    /\ Commands \cap Tools = {}

Callers == Commands \cup Tools
NoCaller == "none"
ASSUME CallerAssumption == NoCaller \notin Callers

VARIABLES
    disk,     \* what is under each destination: who wrote it and in which state it is
    op,       \* what each caller is doing
    replaced, \* destinations an overwriting call has replaced
    explicit, \* AISPACE_ALLOWED_ROOTS, {} when it is not set
    host      \* what the server knows of the host's roots

policy == <<explicit, host>>
downloadVars == <<disk, op, replaced, policy>>

\* plain, verify: download without and with --verify; new, over: download_file without and
\* with overwrite.
CommandKinds == {"plain", "verify", "decrypt"}
ToolKinds == {"new", "over"}

Absent == [by |-> NoCaller, is |-> "absent"]
Other == [by |-> NoCaller, is |-> "other"]
Held == {"part", "bad", "unchecked", "whole"}
FileOf(c, is) == [by |-> c, is |-> is]

\* A file nobody completes or removes: its command was cut short, or could not remove it.
Left == FileOf(NoCaller, "left")

OpSteps == {"idle", "path", "look", "meta", "ask", "open", "create", "fill", "check", "compare",
            "publish", "unlink", "remove"}

\* temp: what the temporary file of a tool call holds.
Rest == [pc |-> "idle", kind |-> "plain", dest |-> CHOOSE d \in Dests : TRUE, tries |-> 0,
         charged |-> 0, temp |-> "none"]

In(c, pc) == op[c].pc = pc
Go(c, pc) == op' = [op EXCEPT ![c].pc = pc]
Done(c) == op' = [op EXCEPT ![c] = Rest]
Put(c, is) == disk' = [disk EXCEPT ![op[c].dest] = FileOf(c, is)]
Free(c) == disk[op[c].dest] = Absent

HostUnknown == [known |-> FALSE, failed |-> FALSE, roots |-> {}]

DownloadInit ==
    /\ disk \in [Dests -> {Absent, Other}] /\ replaced = {}
    /\ op = [c \in Callers |-> Rest]
    /\ explicit \in RootSets /\ host = HostUnknown

---------------------------------------------------------------------------
(* The roots policy: refreshHost, setHostError, effective *)

RefreshHost(roots) ==
    /\ host' = [known |-> TRUE, failed |-> FALSE, roots |-> roots]
    /\ UNCHANGED <<disk, op, replaced, explicit>>

\* The list cannot be read, or one of its roots is no directory: nothing is allowed any more.
SetHostError ==
    /\ host' = [known |-> TRUE, failed |-> TRUE, roots |-> {}]
    /\ UNCHANGED <<disk, op, replaced, explicit>>

\* Defect: Effective: the host's roots take the place of the configured ones.
EffectiveHost ==
    IF host.failed THEN {}
    ELSE IF host.known THEN host.roots
    ELSE IF explicit = {} THEN {WorkDir} ELSE explicit

\* Of a configured root and one of the host, the inner one counts.
Effective ==
    IF host.failed THEN {}
    ELSE IF host.known
    THEN IF explicit = {} THEN host.roots
         ELSE {r \in explicit : \E s \in host.roots : r \subseteq s}
              \cup {s \in host.roots : \E r \in explicit : s \subseteq r}
    ELSE IF explicit = {} THEN {WorkDir} ELSE explicit

---------------------------------------------------------------------------
(* The request *)

Begin(c, pc, kind, dest) ==
    /\ In(c, "idle")
    /\ op' = [op EXCEPT ![c] = [Rest EXCEPT !.pc = pc, !.kind = kind, !.dest = dest]]
    /\ UNCHANGED <<disk, replaced, policy>>

StartDownload(c, dest) ==
    /\ c \in Commands
    /\ Begin(c, "ask", "plain", dest) \/ Begin(c, "meta", "verify", dest)

StartDecrypt(c, dest) == c \in Commands /\ Begin(c, "open", "decrypt", dest)

StartTool(c, dest) == c \in Tools /\ \E kind \in ToolKinds : Begin(c, "path", kind, dest)

\* downloadPath: the destination, and what it is a link to, must be inside a root that counts.
DownloadPath(c) ==
    /\ In(c, "path")
    /\ \/ Done(c)
       \/ (\E r \in Effective : op[c].dest \in r) /\ Go(c, "look")
    /\ UNCHANGED <<disk, replaced, policy>>

\* Unless it may overwrite, the tool looks before it downloads.
Look(c) ==
    /\ In(c, "look")
    /\ IF op[c].kind = "over" \/ Free(c) THEN Go(c, "meta") ELSE Done(c)
    /\ UNCHANGED <<disk, replaced, policy>>

\* The digest to verify with; without one, or without an answer, nothing is downloaded.
ReadMeta(c) ==
    /\ In(c, "meta")
    /\ Go(c, "ask") \/ Done(c)
    /\ UNCHANGED <<disk, replaced, policy>>

\* The service counts a download against the monthly allowance when it answers one.
Served(c, pc) ==
    op' = [op EXCEPT ![c].pc = pc, ![c].charged = @ + 1, ![c].tries = 0]

Ask(c) ==
    /\ In(c, "ask")
    /\ Served(c, IF c \in Tools THEN "fill" ELSE "create")
    /\ UNCHANGED <<disk, replaced, policy>>

\* A rate limit rejects before anything is counted: one more attempt.
AskLimited(c) ==
    /\ In(c, "ask")
    /\ IF op[c].tries = 0 THEN op' = [op EXCEPT ![c].tries = 1] ELSE Done(c)
    /\ UNCHANGED <<disk, replaced, policy>>

\* Defect: AskUnclear: a gateway error is retried, as for the requests that cost nothing.
AskAgain(c) ==
    /\ In(c, "ask")
    /\ IF op[c].tries = 0
       THEN op' = [op EXCEPT ![c].tries = 1, ![c].charged = @ + 1]
       ELSE Done(c)
    /\ UNCHANGED <<disk, replaced, policy>>

\* A gateway error, a stall or a lost answer, counted or not; or a refusal.
AskUnclear(c) ==
    /\ In(c, "ask")
    /\ Done(c)
    /\ UNCHANGED <<disk, replaced, policy>>

\* decrypt reads a local file, its input or a share link, asked for once; the first bytes
\* must fit the identity.
OpenInput(c) ==
    /\ In(c, "open")
    /\ Go(c, "create") \/ Done(c)
    /\ UNCHANGED <<disk, replaced, policy>>

---------------------------------------------------------------------------
(* download and decrypt: the destination is filled in place *)

CreateOut(c) ==
    /\ In(c, "create")
    /\ IF Free(c) THEN Put(c, "part") /\ Go(c, "fill") ELSE UNCHANGED disk /\ Done(c)
    /\ UNCHANGED <<replaced, policy>>

\* The bytes go to the file that was opened, which may be under no name any more.
Fill(c, is) ==
    IF disk[op[c].dest] = FileOf(c, "part") THEN Put(c, is) ELSE UNCHANGED disk

\* With --verify the digest of what was copied is compared afterwards.
CopyBody(c) ==
    /\ In(c, "fill")
    /\ \/ op[c].kind = "plain" /\ Fill(c, "unchecked") /\ Done(c)
       \/ op[c].kind = "verify" /\ Fill(c, "whole") /\ Done(c)
       \/ op[c].kind = "verify" /\ Fill(c, "bad") /\ Go(c, "check")
    /\ UNCHANGED <<replaced, policy>>

\* decrypt authenticates what it copies: what is copied to the end is whole.
CopyPlain(c) ==
    /\ In(c, "fill") /\ op[c].kind = "decrypt"
    /\ Fill(c, "whole") /\ Done(c)
    /\ UNCHANGED <<replaced, policy>>

CopyFails(c) ==
    /\ c \in Commands /\ In(c, "fill")
    /\ Go(c, "remove")
    /\ UNCHANGED <<disk, replaced, policy>>

\* A mismatch leaves ok unset.
CheckDigest(c) ==
    /\ In(c, "check")
    /\ Go(c, "remove")
    /\ UNCHANGED <<disk, replaced, policy>>

\* What caller c has not completed stays, by a name that tells nothing of that.
LeftBehind(c) ==
    [d \in Dests |-> IF disk[d] \in {FileOf(c, "part"), FileOf(c, "bad")} THEN Left ELSE disk[d]]

\* The deferred removal is by name, whatever is there by now, and its error is ignored.
RemoveOut(c) ==
    /\ In(c, "remove")
    /\ disk' \in {[disk EXCEPT ![op[c].dest] = Absent], LeftBehind(c)}
    /\ Done(c)
    /\ UNCHANGED <<replaced, policy>>

---------------------------------------------------------------------------
(* download_file: a temporary file is filled, verified and published *)

\* A copy that ends without an error may still be short, or not of the recorded bytes.
FillTemp(c) ==
    /\ c \in Tools /\ In(c, "fill")
    /\ \/ \E is \in {"whole", "bad"} : op' = [op EXCEPT ![c].temp = is, ![c].pc = "compare"]
       \/ Done(c)
    /\ UNCHANGED <<disk, replaced, policy>>

\* Defect: CheckTemp: the file is flushed and closed, its size and digest are not compared.
CheckNothing(c) ==
    /\ In(c, "compare")
    /\ Go(c, "publish") \/ Done(c)
    /\ UNCHANGED <<disk, replaced, policy>>

\* Compared in size and digest, flushed and closed; the temporary file goes otherwise.
CheckTemp(c) ==
    /\ In(c, "compare")
    /\ (op[c].temp = "whole" /\ Go(c, "publish")) \/ Done(c)
    /\ UNCHANGED <<disk, replaced, policy>>

Overwrite(c) ==
    /\ In(c, "publish") /\ op[c].kind = "over"
    /\ Put(c, op[c].temp) /\ replaced' = replaced \cup {op[c].dest}
    /\ Done(c)
    /\ UNCHANGED policy

\* Defect: LinkDest: the temporary file is renamed to a destination that was free before.
RenameDest(c) ==
    /\ In(c, "publish") /\ op[c].kind = "new"
    /\ Put(c, op[c].temp) /\ Done(c)
    /\ UNCHANGED <<replaced, policy>>

\* Link fails if something appeared; it leaves the temporary name to be removed.
LinkDest(c) ==
    /\ In(c, "publish") /\ op[c].kind = "new"
    /\ IF Free(c) THEN Put(c, op[c].temp) /\ Go(c, "unlink") ELSE UNCHANGED disk /\ Done(c)
    /\ UNCHANGED <<replaced, policy>>

PublishFails(c) ==
    /\ In(c, "publish")
    /\ Done(c)
    /\ UNCHANGED <<disk, replaced, policy>>

Unlink(c) ==
    /\ In(c, "unlink")
    /\ Done(c)
    /\ UNCHANGED <<disk, replaced, policy>>

\* The call fails, and takes back what is under the destination by now, if that can be removed.
UnlinkFails(c) ==
    /\ In(c, "unlink")
    /\ disk' \in {[disk EXCEPT ![op[c].dest] = Absent], disk}
    /\ Done(c)
    /\ UNCHANGED <<replaced, policy>>

---------------------------------------------------------------------------
(* Other programs and crashes *)

OtherWrites(d) ==
    /\ disk[d] = Absent
    /\ disk' = [disk EXCEPT ![d] = Other]
    /\ UNCHANGED <<op, replaced, policy>>

CommandStops(c) ==
    /\ c \in Commands /\ ~In(c, "idle")
    /\ disk' = LeftBehind(c)
    /\ Done(c)
    /\ UNCHANGED <<replaced, policy>>

\* The server stops with every call at work; a new one knows nothing of its host.
ServerStops ==
    /\ \E c \in Tools : ~In(c, "idle")
    /\ op' = [c \in Callers |-> IF c \in Tools THEN Rest ELSE op[c]]
    /\ host' = HostUnknown
    /\ UNCHANGED <<disk, replaced, explicit>>

DownloadStep(c) ==
    \/ DownloadPath(c) \/ Look(c) \/ ReadMeta(c) \/ Ask(c) \/ AskLimited(c) \/ AskUnclear(c)
    \/ OpenInput(c) \/ CreateOut(c) \/ CopyBody(c) \/ CopyPlain(c) \/ CopyFails(c)
    \/ CheckDigest(c) \/ RemoveOut(c) \/ CommandStops(c)
    \/ FillTemp(c) \/ CheckTemp(c) \/ Overwrite(c) \/ LinkDest(c) \/ PublishFails(c)
    \/ Unlink(c) \/ UnlinkFails(c)

DownloadNext ==
    \/ \E c \in Callers : DownloadStep(c)
    \/ \E c \in Callers, d \in Dests : StartDownload(c, d) \/ StartDecrypt(c, d) \/ StartTool(c, d)
    \/ \E roots \in RootSets : RefreshHost(roots)
    \/ SetHostError \/ ServerStops
    \/ \E d \in Dests : OtherWrites(d)

DownloadSpec == DownloadInit /\ [][DownloadNext]_downloadVars

---------------------------------------------------------------------------
(* Properties *)

\* Destinations, callers and the roots policy are well formed.
DownloadTypes ==
    /\ disk \in [Dests -> {Absent, Other, Left} \cup [by : Callers, is : Held]]
    /\ op \in [Callers -> [pc : OpSteps, kind : CommandKinds \cup ToolKinds, dest : Dests,
                           tries : 0..1, charged : Nat, temp : {"none", "bad", "whole"}]]
    /\ replaced \subseteq Dests /\ explicit \in RootSets
    /\ host \in [known : BOOLEAN, failed : BOOLEAN, roots : SUBSET Roots]

\* docs/CLI.md:149-150, 179-180 - what a caller may find under a destination: of the tool, only a
\* complete file that was verified; of a command, a partial or corrupt file only while the
\* command that will remove it still runs, or after it was cut short or its removal failed,
\* which nothing reports (files.go 96-102, crypto.go 362-368).
VerifiedPublished == \A d \in Dests :
    LET f == disk[d] IN
    /\ f.by \in Tools => f.is = "whole"
    /\ (f.by \in Commands /\ f.is \in {"part", "bad"})
         => (op[f.by].dest = d /\ op[f.by].pc \in {"fill", "check", "remove"})

\* The caller that wrote the file may still take it back.
Settled(d) ==
    \/ disk[d] = Other
    \/ /\ disk[d].is \in {"whole", "unchecked"}
       /\ ~(op[disk[d].by].dest = d /\ In(disk[d].by, "unlink"))

\* Destinations are checked before a download and used after it. Whatever appears meanwhile, a
\* file of another program and one a caller has reported stay, unless an overwriting call was
\* given the destination; and another program's file goes only by that call itself.
OthersKept == [][\A d \in Dests :
    /\ (Settled(d) /\ d \notin replaced') => disk'[d] = disk[d]
    /\ (disk[d] = Other /\ disk'[d] # Other) => (disk'[d].by \in Tools /\ d \in replaced')
  ]_downloadVars

\* As OthersKept, for a destination an overwriting call was given, too.
ReportedKept == [][\A d \in Dests :
    (Settled(d) /\ disk'[d] # disk[d]) => disk'[d].by \in Tools]_downloadVars

\* docs/CLI.md:113-115 - a download that may have been counted is not asked for again: none
\* is charged twice. (That net/http may itself send a GET again when the reused connection it went
\* to is found dead before an answer is outside this client's code.)
ChargedOnce == \A c \in Callers : op[c].charged <= 1

\* The places that the configured roots and the host's both allow, as docs/CLI.md:177-178 has it.
Allowed ==
    IF ~host.known /\ explicit = {} THEN WorkDir
    ELSE (IF explicit = {} THEN UNION Roots ELSE UNION explicit)
         \cap (IF host.known THEN UNION host.roots ELSE UNION Roots)

\* A destination is approved only inside both the configured roots and those the host named
\* last, however often it renamed them; after an answer that could not be read none is.
RootsHonoured == [][\A c \in Tools :
    (In(c, "path") /\ op'[c].pc = "look") => op[c].dest \in Allowed]_downloadVars

\* The roots of the moment a file is published allow its destination.
PublishedInside == [][\A c \in Tools :
    (In(c, "publish") /\ disk' # disk) => op[c].dest \in Allowed]_downloadVars

=============================================================================
