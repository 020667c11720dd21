----------------------------- MODULE AgentUpgrade -----------------------------
(***************************************************************************)
(* The Agent's self-upgrade (agent/internal/control/upgrade.go,            *)
(* UpgradeAgent of server.go) and the root helper that installs what it    *)
(* staged (write_upgrade_units of scripts/install-agent.sh): steps on      *)
(* files that both share with no lock.                                     *)
(*                                                                         *)
(* A file is the content of an inode: opening the partial file for writing *)
(* truncates the inode that is there, a rename moves it under its new name *)
(* with whatever is still written to it.                                   *)
(*                                                                         *)
(* Abstracted: releases and URLs (what is asked for is how it is verified: *)
(* by a SHA256 of the request, by the sums of the release, or by nothing), *)
(* and a checksum is the content it was taken of.                          *)
(***************************************************************************)
EXTENDS Naturals

CONSTANTS
    Stagings,       \* bound: the calls of UpgradeAgent, numbered
    MaxCrashes      \* bound: restarts of the Agent the helper did not ask for

ASSUME UpgradeAssumption == Stagings \subseteq Nat \ {0} /\ MaxCrashes \in Nat

\* What k downloads is the build that was asked for or another; a file two stagings wrote to is
\* neither.
None == <<"none", 0>>
Mixed == <<"mixed", 0>>
Contents == {None, Mixed} \cup ({"half", "right", "wrong"} \X Stagings)

VARIABLES
    disk,       \* disk[i]: the content of inode i
    partial, final, \* the inodes under the names of the partial and of the staged file, 0: none
    sums,       \* the content the .sha256 file names
    ready,      \* the .ready marker
    staging,    \* staging[k]: a call of StageAgentUpgrade
    helper,     \* the step of apply-upgrade.sh
    installed,  \* the content of INSTALL_BIN
    crashes,
    overlapped  \* history: two stagings were under way at once

upgradeVars == <<disk, partial, final, sums, ready, staging, helper, installed, crashes, overlapped>>

Kinds == {"sha256", "release", "unverified"}

UpgradeTypeOK ==
    /\ disk \in [Stagings -> Contents]
    /\ {partial, final} \subseteq Stagings \cup {0}
    /\ {sums, installed} \subseteq Contents
    /\ ready \in BOOLEAN
    /\ \A k \in Stagings :
           /\ staging[k].pc \in {"new", "remove", "open", "write", "verify", "rename", "sums", "ready", "done"}
           /\ staging[k].kind \in Kinds /\ staging[k].fd \in Stagings \cup {0}
           /\ staging[k].sum \in Contents
           /\ staging[k].pc = "write" => staging[k].fd # 0
    /\ helper \in {"idle", "install", "clean"}
    /\ crashes \in 0 .. MaxCrashes

UpgradeInit ==
    /\ disk = [i \in Stagings |-> None]
    /\ partial = 0 /\ final = 0
    /\ sums = None /\ ready = FALSE
    /\ staging \in [Stagings -> {[pc |-> "new", kind |-> kind, fd |-> 0, sum |-> None] : kind \in Kinds}]
    /\ helper = "idle"
    /\ installed = None
    /\ crashes = 0
    /\ overlapped = FALSE

Under(k) == staging[k].pc \notin {"new", "done"}
Goes(k, pc) == staging' = [staging EXCEPT ![k].pc = pc]
Fails(k) == Goes(k, "done")
Content(inode) == IF inode = 0 THEN None ELSE disk[inode]

-----------------------------------------------------------------------------
(* StageAgentUpgrade.                                                      *)

\* Without a URL of its own a request is verified by the sums of the release, if there are
\* any; a URL without a SHA256 is refused at once.
StagingBegins(k) ==
    /\ staging[k].pc = "new"
    /\ Goes(k, "remove")
    /\ overlapped' = (overlapped \/ \E j \in Stagings : Under(j))
    /\ UNCHANGED <<disk, partial, final, sums, ready, helper, installed, crashes>>

\* The partial file, then the marker and the sums.
RemovesOld(k) ==
    /\ staging[k].pc = "remove"
    /\ partial' = 0
    /\ ready' = FALSE
    /\ sums' = None
    /\ Goes(k, "open")
    /\ UNCHANGED <<disk, final, helper, installed, crashes, overlapped>>

\* O_CREATE|O_TRUNC: the inode that is there, or a new one.
Opens(k) ==
    LET inode == IF partial = 0 THEN k ELSE partial IN
    /\ staging[k].pc = "open"
    /\ partial' = inode
    /\ disk' = [disk EXCEPT ![inode] = <<"half", k>>]
    /\ staging' = [staging EXCEPT ![k].pc = "write", ![k].fd = inode]
    /\ UNCHANGED <<final, sums, ready, helper, installed, crashes, overlapped>>

Writes(k) ==
    LET inode == staging[k].fd IN
    /\ staging[k].pc = "write"
    /\ \E build \in {"right", "wrong"} :
           disk' = [disk EXCEPT ![inode] = IF @ = <<"half", k>> THEN <<build, k>> ELSE Mixed]
    /\ Goes(k, "verify")
    /\ UNCHANGED <<partial, final, sums, ready, helper, installed, crashes, overlapped>>

\* The connection breaks, or the download reaches its limit.
DownloadFails(k) ==
    /\ staging[k].pc \in {"open", "write"}
    /\ partial' = 0
    /\ Fails(k)
    /\ UNCHANGED <<disk, final, sums, ready, helper, installed, crashes, overlapped>>

\* MUTANT: the sums of the release are not looked at.
VerifiedBySha(k, content) == staging[k].kind = "sha256" => content = <<"right", k>>

\* The SHA256 of the request, else the release's sums; nothing if there are none.
Verified(k, content) == staging[k].kind # "unverified" => content = <<"right", k>>

Verifies(k) ==
    LET content == Content(partial) IN
    /\ staging[k].pc = "verify"
    /\ IF content # None /\ Verified(k, content)
       THEN /\ staging' = [staging EXCEPT ![k].pc = "rename", ![k].sum = content]
            /\ UNCHANGED partial
       ELSE Fails(k) /\ partial' = 0
    /\ UNCHANGED <<disk, final, sums, ready, helper, installed, crashes, overlapped>>

Renames(k) ==
    /\ staging[k].pc = "rename"
    /\ IF partial = 0
       THEN Fails(k) /\ UNCHANGED <<partial, final>>
       ELSE final' = partial /\ partial' = 0 /\ Goes(k, "sums")
    /\ UNCHANGED <<disk, sums, ready, helper, installed, crashes, overlapped>>

WritesSums(k) ==
    /\ staging[k].pc = "sums"
    /\ sums' = staging[k].sum
    /\ Goes(k, "ready")
    /\ UNCHANGED <<disk, partial, final, ready, helper, installed, crashes, overlapped>>

\* The marker that the path unit waits for is the last file.
MarksReady(k) ==
    /\ staging[k].pc = "ready"
    /\ ready' = TRUE
    /\ Goes(k, "done")
    /\ UNCHANGED <<disk, partial, final, sums, helper, installed, crashes, overlapped>>

-----------------------------------------------------------------------------
(* apply-upgrade.sh, and the Agent's restarts.                             *)

AllStop == [k \in Stagings |-> IF Under(k) THEN [staging[k] EXCEPT !.pc = "done"] ELSE staging[k]]

\* A file that does not match its sums is refused, everything is left as it is. (There is
\* always a staged file once there was a marker: the helper does not remove it.)
HelperChecks ==
    /\ helper = "idle" /\ ready
    /\ sums \in {None, Content(final)}
    /\ helper' = "install"
    /\ UNCHANGED <<disk, partial, final, sums, ready, staging, installed, crashes, overlapped>>

\* The staged file is read again.
HelperInstalls ==
    /\ helper = "install"
    /\ installed' = Content(final)
    /\ helper' = "clean"
    /\ UNCHANGED <<disk, partial, final, sums, ready, staging, crashes, overlapped>>

\* The marker and the partial file go, the Agent restarts.
HelperEnds ==
    /\ helper = "clean"
    /\ ready' = FALSE
    /\ partial' = 0
    /\ staging' = AllStop
    /\ helper' = "idle"
    /\ UNCHANGED <<disk, final, sums, installed, crashes, overlapped>>

AgentCrashes ==
    /\ crashes < MaxCrashes /\ crashes' = crashes + 1
    /\ \E k \in Stagings : Under(k)
    /\ staging' = AllStop
    /\ UNCHANGED <<disk, partial, final, sums, ready, helper, installed, overlapped>>

UpgradeNext ==
    \/ \E k \in Stagings :
           \/ StagingBegins(k) \/ RemovesOld(k) \/ Opens(k) \/ Writes(k) \/ DownloadFails(k)
           \/ Verifies(k) \/ Renames(k) \/ WritesSums(k) \/ MarksReady(k)
    \/ HelperChecks \/ HelperInstalls \/ HelperEnds \/ AgentCrashes

-----------------------------------------------------------------------------

\* The build k may have installed.
Good(content) ==
    \E k \in Stagings : \/ content = <<"right", k>>
                        \/ content = <<"wrong", k>> /\ staging[k].kind = "unverified"

\* Whatever the helper reads again after its check, wherever the Agent is stopped and whichever
\* download fails: the binary that is installed, and the one that is marked as ready, was
\* downloaded to its end and passed the verification its request asked for. Two stagings that
\* overlap may break it.
OnlyVerifiedInstalled ==
    overlapped \/ /\ installed = None \/ Good(installed)
                  /\ ready => Good(Content(final)) /\ sums = Content(final)
=============================================================================
